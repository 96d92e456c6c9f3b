---------------------------- MODULE ShellProofs ----------------------------
(***************************************************************************)
(* For any number of processes and descriptors, any lines and any contents *)
(* of the uninitialised cur_pipe: the types, the prompt that waits for the *)
(* children, the descriptors of the user's shell, and that the shells      *)
(* never all wait for each other.                                          *)
(*                                                                         *)
(* The first shell closes numbers, not files.  Its invariant says of each  *)
(* number that it may close next what it stands for: before a fork it has  *)
(* opened nothing but the write end cur_pipe[2], and read_fd_prev, which   *)
(* the next round of the loop closes, is never its standard input.         *)
(*                                                                         *)
(* That wait() is no circle needs a measure of the tree of processes.  It  *)
(* is an invariant that there is one: each fork finds another.             *)
(***************************************************************************)
EXTENDS Shell, FiniteSetTheorems, WellFoundedInduction, TLAPS

\* Min of a set of naturals, of which FiniteSetsExt gives the definition.
LEMMA MinOfNats ==
  ASSUME NEW S \in SUBSET Nat, S # {}
  PROVE  Min(S) \in S /\ \A y \in S : Min(S) <= y
<1>1. \E x \in S : \A y \in S : ~ (<<y, x>> \in OpToRel(<, Nat))
  BY NatLessThanWellFounded, WFMin
<1>2. OpToRel(<, Nat) = {ss \in Nat \X Nat : ss[1] < ss[2]}
  BY DEF OpToRel
<1>3. PICK x \in S : \A y \in S : ~ (<<y, x>> \in OpToRel(<, Nat))
  BY <1>1
<1>4. ASSUME NEW y \in S PROVE x <= y
  <2>1. <<y, x>> \in Nat \X Nat /\ ~ (<<y, x>> \in {ss \in Nat \X Nat : ss[1] < ss[2]})
    BY <1>2, <1>3
  <2>2. ~ (y < x)
    BY <2>1
  <2> QED
    BY <2>2
<1> QED
  BY <1>4 DEF Min

-----------------------------------------------------------------------------
(* The inductive invariant.                                                *)

\* wait() has failed with ECHILD, or the prompt is due: there is no child.
Waiting(me) == me.pc = "wait" /\ me.errno = "ECHILD"
AloneAtPrompt ==
  \A p \in Procs :
    /\ proc[p].errno = "ECHILD" => proc[p].pc = "wait"
    /\ Waiting(proc[p]) \/ proc[p].pc \in {"prompt", "read"} => Children(p) = {}

\* The descriptors of the user's shell, by the place where it is.
Tidy(fd) == fd[0] = Terminal /\ \A f \in Fds : f > 2 => fd[f] = Nothing

\* With both ends of a new pipe, and with its write end.
TidyButEnds(me) ==
  /\ me.fd[0] = Terminal
  /\ \A f \in Fds : f > 2 /\ me.fd[f] # Nothing => f \in {me.cur_pipe[1], me.cur_pipe[2]}
  /\ me.read_fd_prev # 0
  /\ me.cur_pipe[1] # 0

TidyButPipe(me) ==
  /\ me.fd[0] = Terminal
  /\ \A f \in Fds : f > 2 /\ me.fd[f] # Nothing => f = me.cur_pipe[2]
  /\ me.read_fd_prev # 0
  /\ me.dest_offset < me.n_words => me.cur_pipe[1] # 0

Kept(me) ==
  /\ me.pc \in {"none", "wait", "prompt", "read", "loop", "piped", "fork", "zombie"}
  /\ me.pc \in {"wait", "prompt", "read", "loop"} => Tidy(me.fd)
  /\ me.pc = "loop" /\ me.dest_offset < me.n_words => me.read_fd_prev # 0
  /\ me.pc = "piped" => TidyButEnds(me)
  /\ me.pc = "fork" => TidyButPipe(me)

IInv == TypeOK /\ AloneAtPrompt /\ Kept(proc[First])

-----------------------------------------------------------------------------
(* Lines and descriptors.                                                  *)

\* The counts that rebuild_cmd gives.
LEMMA CountFacts ==
  ASSUME NEW line \in Lines
  PROVE  NWords(line) \in Nat /\ FirstLen(line) \in Nat
<1>1. /\ line.tokens \in Seq(Tokens) /\ line.space \in BOOLEAN
      /\ line.space \/ line.tokens # <<>>
  BY LinesAssumption
<1>2. NWords(line) \in Nat
  BY <1>1 DEF NWords
<1> DEFINE S == {j \in 1..Len(Words(line)) : Words(line)[j] = "null"}
                   \cup {Len(Words(line)) + 1}
<1>3. Len(Words(line)) \in Nat
  <2> DEFINE W == {"null", "word", "empty"}
             typedWords == [j \in 1..Len(line.tokens) |->
                              IF line.tokens[j] = "bar" THEN "null" ELSE "word"]
  <2>1. typedWords \in Seq(W) /\ Len(typedWords) = Len(line.tokens)
    BY <1>1
  <2>2. Words(line) = IF line.space THEN <<"empty">> \o typedWords
                                    ELSE <<"word">> \o Tail(typedWords)
    BY DEF Words
  <2> HIDE DEF typedWords
  <2>3. <<"empty">> \o typedWords \in Seq(W)
    BY <2>1
  <2>4. ~ line.space => <<"word">> \o Tail(typedWords) \in Seq(W)
    <3>1. SUFFICES ASSUME ~ line.space PROVE <<"word">> \o Tail(typedWords) \in Seq(W)
      OBVIOUS
    <3>2. typedWords # <<>>
      BY <1>1, <2>1, <3>1
    <3>3. Tail(typedWords) \in Seq(W)
      BY <2>1, <3>2
    <3> QED
      BY <3>3
  <2> QED
    BY <2>2, <2>3, <2>4
<1>4. S \in SUBSET Nat /\ S # {} /\ \A j \in S : j >= 1
  BY <1>3
<1>5. Min(S) \in Nat /\ Min(S) >= 1
  <2> HIDE DEF S
  <2> QED
    BY <1>4, MinOfNats
<1>6. FirstLen(line) = Min(S) - 1
  BY DEF FirstLen
<1> HIDE DEF S
<1> QED
  BY <1>2, <1>5, <1>6

\* The table of descriptors of a process.
Tables == [Fds -> Objects]

\* close() changes the descriptor it is given, if it is one.
LEMMA CloseFacts ==
  ASSUME NEW fd \in Tables, NEW f
  PROVE  /\ Close(fd, f) \in Tables
         /\ \A g \in Fds : Close(fd, f)[g] = IF g = f THEN Nothing ELSE fd[g]
BY DEF Close, Tables, Objects

\* The free descriptors are finitely many naturals.
LEMMA FreeFacts ==
  ASSUME NEW fd
  PROVE  Free(fd) \in SUBSET Nat /\ Free(fd) \subseteq Fds /\ IsFiniteSet(Free(fd))
<1>1. Free(fd) \in SUBSET Fds /\ Fds \subseteq Nat
  BY BoundsAssumption DEF Free, Fds
<1>2. IsFiniteSet(Fds)
  BY BoundsAssumption, FS_Interval DEF Fds
<1> QED
  BY <1>1, <1>2, FS_Subset

\* dup() puts a copy of one descriptor into a free one.
LEMMA DupFacts ==
  ASSUME NEW fd \in Tables, NEW f
  PROVE  Dup(fd, f) \in Tables
<1>1. CASE f \in Fds /\ Free(fd) # {}
  <2>1. Min(Free(fd)) \in Fds
    BY <1>1, FreeFacts, MinOfNats
  <2> QED
    BY <1>1, <2>1 DEF Dup, Tables
<1>2. CASE ~ (f \in Fds /\ Free(fd) # {})
  BY <1>2 DEF Dup
<1> QED
  BY <1>1, <1>2

\* What the child does to its descriptors leaves a table of descriptors.
LEMMA PlumbingFacts ==
  ASSUME NEW me \in Process
  PROVE  Plumbing(me) \in Tables
<1>1. me.fd \in Tables
  BY DEF Process, Tables
<1>2. Dup(Close(me.fd, 1), me.cur_pipe[2]) \in Tables
  BY <1>1, CloseFacts, DupFacts
<1> DEFINE in  == Dup(Close(me.fd, 0), me.read_fd_prev)
           out == Dup(Close(in, 1), me.cur_pipe[2])
<1>3. in \in Tables
  BY <1>1, CloseFacts, DupFacts
<1>4. out \in Tables
  <2> HIDE DEF in
  <2> QED
    BY <1>3, CloseFacts, DupFacts
<1>5. Close(out, me.cur_pipe[1]) \in Tables
  <2> HIDE DEF out
  <2> QED
    BY <1>4, CloseFacts
<1>6. me.dest_offset \in Nat /\ me.n_words \in Nat
  BY DEF Process
<1> QED
  BY <1>1, <1>2, <1>5, <1>6 DEF Plumbing

\* There are more numbers of pipes than descriptors in the whole system.
LEMMA PipeLeft ==
  ASSUME TypeOK
  PROVE  Min({j \in PipeIds : ~ InUse(j)}) \in PipeIds
<1> DEFINE Ends == Procs \X Fds
           pipe == [e \in Ends |-> proc[e[1]].fd[e[2]][2]]
           Used == {pipe[e] : e \in Ends}
           left == {j \in PipeIds : ~ InUse(j)}
<1>1. /\ IsFiniteSet(Procs) /\ Cardinality(Procs) = NProcs
      /\ IsFiniteSet(Fds) /\ Cardinality(Fds) = OpenMax
  <2>1. NProcs \in Nat \ {0} /\ OpenMax \in Nat \ {0}
    BY BoundsAssumption
  <2>2. IsFiniteSet(1..NProcs) /\ Cardinality(1..NProcs) = NProcs
    BY <2>1, FS_Interval
  <2>3. IsFiniteSet(0..(OpenMax - 1)) /\ Cardinality(0..(OpenMax - 1)) = OpenMax
    BY <2>1, FS_Interval
  <2> QED
    BY <2>2, <2>3 DEF Procs, Fds
<1>2. IsFiniteSet(Ends) /\ Cardinality(Ends) = NProcs * OpenMax
  BY <1>1, FS_Product
<1>3. NProcs * OpenMax \in Nat
  BY BoundsAssumption
<1>4. IsFiniteSet(Used) /\ Cardinality(Used) <= NProcs * OpenMax
  <2>1. pipe \in Surjection(Ends, Used)
    BY DEF Surjection
  <2> HIDE DEF Ends, Used, pipe
  <2>2. IsFiniteSet(Used) /\ Cardinality(Used) <= Cardinality(Ends)
    BY <1>2, <2>1, FS_Surjection
  <2> QED
    BY <1>2, <2>2
<1>5. IsFiniteSet(PipeIds) /\ Cardinality(PipeIds) = NProcs * OpenMax + 1
  <2> DEFINE n == NProcs * OpenMax
  <2> HIDE DEF n
  <2>1. n \in Nat
    BY <1>3 DEF n
  <2>2. IsFiniteSet(1..(n + 1)) /\ Cardinality(1..(n + 1)) = n + 1
    BY <2>1, FS_Interval
  <2> QED
    BY <2>2 DEF n, PipeIds
<1>6. left # {}
  <2> SUFFICES ASSUME left = {} PROVE FALSE
    OBVIOUS
  <2>1. ASSUME NEW j \in PipeIds PROVE j \in Used
    <3>1. InUse(j)
      BY <2>1
    <3>2. PICK p \in Procs, f \in Fds : proc[p].fd[f] \in {ReadEnd(j), WriteEnd(j)}
      BY <3>1 DEF InUse, HasReader
    <3>3. <<p, f>> \in Ends /\ pipe[<<p, f>>] = j
      BY <3>2 DEF ReadEnd, WriteEnd
    <3> HIDE DEF pipe, Ends
    <3> QED
      BY <3>3
  <2>2. PipeIds \in SUBSET Used
    BY <2>1
  <2>3. Cardinality(PipeIds) <= Cardinality(Used)
    <3> HIDE DEF Used
    <3> QED
      BY <1>4, <2>2, FS_Subset
  <2>4. Cardinality(Used) \in Nat
    <3> HIDE DEF Used
    <3> QED
      BY <1>4, FS_CardinalityType
  <2> DEFINE n == NProcs * OpenMax
             u == Cardinality(Used)
  <2>5. n \in Nat /\ u \in Nat /\ u <= n /\ n + 1 <= u
    BY <1>3, <1>4, <1>5, <2>3, <2>4
  <2> HIDE DEF n, u
  <2> QED
    BY <2>5
<1>7. left \in SUBSET Nat /\ left \subseteq PipeIds
  BY DEF PipeIds
<1> HIDE DEF left
<1>8. Min(left) \in PipeIds
  BY <1>6, <1>7, MinOfNats
<1> QED
  BY <1>8 DEF left

-----------------------------------------------------------------------------
(* Every action preserves the invariant.                                   *)

LEMMA InitIInv == Init => IInv
<1> SUFFICES ASSUME Init PROVE IInv
  OBVIOUS
<1>1. First \in Procs /\ Orphan \notin Procs /\ Fds \subseteq Nat /\ {0, 1, 2} \subseteq Fds
  BY BoundsAssumption DEF First, Procs, Orphan, Fds
<1>2. NoProcess \in Process
  BY DEF NoProcess, Process, PCs, Objects, NoFd
<1> DEFINE shell == [NoProcess EXCEPT !.pc = "wait",
                                      !.fd = [f \in Fds |-> IF f < 3 THEN Terminal
                                                                     ELSE Nothing]]
<1>3. shell \in Process
  BY <1>2 DEF Process, PCs, Objects
<1>4. /\ shell.pc = "wait" /\ shell.errno = "0" /\ shell.parent = Orphan
      /\ \A f \in Fds : shell.fd[f] = IF f < 3 THEN Terminal ELSE Nothing
  BY DEF NoProcess
<1>5. proc = [p \in Procs |-> IF p = First THEN shell ELSE NoProcess] /\ typed = 0
  BY DEF Init
<1> HIDE DEF shell
<1>6. /\ NoProcess.pc = "none" /\ NoProcess.errno = "0" /\ NoProcess.parent = Orphan
  BY DEF NoProcess
<1>7. TypeOK
  BY <1>1, <1>2, <1>3, <1>4, <1>5, <1>6, BoundsAssumption DEF TypeOK
<1>8. AloneAtPrompt
  BY <1>4, <1>5, <1>6 DEF AloneAtPrompt, Waiting
<1>9. Kept(proc[First])
  BY <1>1, <1>4, <1>5 DEF Kept, Tidy
<1> QED
  BY <1>7, <1>8, <1>9 DEF IInv

\* A step that changes one living process and leaves its parent alone.
LEMMA OneChanges ==
  ASSUME IInv, NEW p \in Procs, NEW me \in Process, proc' = [proc EXCEPT ![p] = me],
         typed' \in 0..MaxLines,
         proc[p].pc # "none", me.pc # "none", me.parent = proc[p].parent,
         me.errno = "ECHILD" => me.pc = "wait",
         Waiting(me) \/ me.pc \in {"prompt", "read"} => Children(p) = {},
         p = First => Kept(me)
  PROVE  IInv'
<1>1. TypeOK'
  BY DEF IInv, TypeOK
<1>2. \A q \in Procs : proc'[q] = IF q = p THEN me ELSE proc[q]
  BY DEF IInv, TypeOK
<1>3. \A q \in Procs : Children(q)' = Children(q)
  BY <1>2 DEF Children
<1>4. AloneAtPrompt'
  BY <1>2, <1>3 DEF IInv, AloneAtPrompt, Waiting
<1>5. Kept(proc[First])'
  <2>1. First \in Procs
    BY BoundsAssumption DEF First, Procs
  <2>2. Kept(proc'[First])
    BY <1>2, <2>1 DEF IInv
  <2> QED
    BY <2>2 DEF Kept, Tidy, TidyButEnds, TidyButPipe
<1> QED
  BY <1>1, <1>4, <1>5 DEF IInv

LEMMA ZombieIsProcess ==
  ASSUME NEW me \in Process, NEW parent \in {Orphan} \cup Procs
  PROVE  [me EXCEPT !.pc = "zombie", !.parent = parent] \in Process
BY DEF Process, PCs

\* A process that ends: nobody gets a child by it.
LEMMA DieIInv ==
  ASSUME IInv, NEW p \in Procs, proc[p].pc # "none", Die(p)
  PROVE  IInv'
<1>1. /\ proc' = [q \in Procs |-> AfterDeath(p, q)] /\ typed' = typed
      /\ proc \in [Procs -> Process] /\ Orphan \notin Procs /\ First \in Procs
  BY BoundsAssumption DEF IInv, TypeOK, Die, Orphan, Procs, First
<1>2. /\ NoProcess \in Process /\ NoProcess.pc = "none" /\ NoProcess.errno = "0"
      /\ NoProcess.parent = Orphan
  BY DEF NoProcess, Process, PCs, Objects, NoFd
<1>3. ASSUME NEW q \in Procs
      PROVE  \/ AfterDeath(p, q) = NoProcess
             \/ /\ q = p
                /\ AfterDeath(p, q) = [NoProcess EXCEPT !.pc = "zombie",
                                                        !.parent = proc[p].parent]
             \/ /\ q \in Children(p)
                /\ AfterDeath(p, q) = [proc[q] EXCEPT !.parent = Orphan]
             \/ q # p /\ AfterDeath(p, q) = proc[q]
  BY <1>1 DEF AfterDeath, Children, IInv, TypeOK
<1>4. ASSUME NEW q \in Procs
      PROVE  /\ proc'[q] \in Process
             /\ proc'[q].parent \in {proc[q].parent, Orphan}
             /\ proc'[q].pc # "none" => proc[q].pc # "none"
             /\ \/ proc'[q].pc \in {"none", "zombie"} /\ proc'[q].errno = "0"
                \/ /\ proc'[q].pc = proc[q].pc /\ proc'[q].errno = proc[q].errno
                   /\ proc'[q].fd = proc[q].fd
                   /\ proc'[q].dest_offset = proc[q].dest_offset
                   /\ proc'[q].n_words = proc[q].n_words
                   /\ proc'[q].read_fd_prev = proc[q].read_fd_prev
                   /\ proc'[q].cur_pipe = proc[q].cur_pipe
  <2>1. proc'[q] = AfterDeath(p, q) /\ proc[q] \in Process /\ proc[p] \in Process
    BY <1>1
  <2>2. CASE AfterDeath(p, q) = NoProcess
    BY <1>2, <2>1, <2>2
  <2>3. CASE q = p /\ AfterDeath(p, q) = [NoProcess EXCEPT !.pc = "zombie",
                                                           !.parent = proc[p].parent]
    <3>1. /\ proc'[q].pc = "zombie" /\ proc'[q].errno = "0"
          /\ proc'[q].parent = proc[q].parent
      BY <1>2, <2>1, <2>3 DEF Process
    <3>2. proc'[q] \in Process
      <4>1. proc[p].parent \in {Orphan} \cup Procs
        BY <2>1 DEF Process
      <4>2. [NoProcess EXCEPT !.pc = "zombie", !.parent = proc[p].parent] \in Process
        BY <1>2, <4>1, ZombieIsProcess
      <4> QED
        BY ONLY <2>1, <2>3, <4>2
    <3> QED
      BY <2>3, <3>1, <3>2
  <2>4. CASE AfterDeath(p, q) = [proc[q] EXCEPT !.parent = Orphan]
    BY <2>1, <2>4 DEF Process
  <2>5. CASE AfterDeath(p, q) = proc[q]
    BY <2>1, <2>5
  <2> QED
    BY <1>3, <2>2, <2>3, <2>4, <2>5
<1>5. TypeOK'
  <2>1. proc' \in [Procs -> Process]
    BY <1>1, <1>4
  <2>2. \A q \in Procs : proc'[q].parent # q
    BY <1>1, <1>4 DEF IInv, TypeOK
  <2> QED
    BY <1>1, <2>1, <2>2 DEF IInv, TypeOK
<1>6. \A q \in Procs : Children(q)' \subseteq Children(q)
  BY <1>1, <1>4 DEF Children
<1>7. AloneAtPrompt'
  <2> SUFFICES ASSUME NEW q \in Procs
               PROVE  /\ proc'[q].errno = "ECHILD" => proc'[q].pc = "wait"
                      /\ Waiting(proc'[q]) \/ proc'[q].pc \in {"prompt", "read"}
                           => Children(q)' = {}
    BY DEF AloneAtPrompt, Waiting
  <2>1. CASE proc'[q].pc \in {"none", "zombie"} /\ proc'[q].errno = "0"
    BY <2>1 DEF Waiting
  <2>2. CASE proc'[q].pc = proc[q].pc /\ proc'[q].errno = proc[q].errno
    BY <1>6, <2>2 DEF IInv, AloneAtPrompt, Waiting
  <2> QED
    BY <1>4, <2>1, <2>2
<1>8. Kept(proc'[First])
  <2> DEFINE me  == proc[First]
             now == proc'[First]
  <2>1. \/ now.pc \in {"none", "zombie"}
        \/ /\ now.pc = me.pc /\ now.fd = me.fd
           /\ now.dest_offset = me.dest_offset /\ now.n_words = me.n_words
           /\ now.read_fd_prev = me.read_fd_prev /\ now.cur_pipe = me.cur_pipe
    BY <1>1, <1>4
  <2>2. Kept(me)
    BY DEF IInv
  <2> HIDE DEF me, now
  <2>3. Kept(now)
    BY <2>1, <2>2 DEF Kept, Tidy, TidyButEnds, TidyButPipe
  <2> QED
    BY <2>3 DEF now
<1>9. Kept(proc[First])'
  BY <1>8 DEF Kept, Tidy, TidyButEnds, TidyButPipe
<1> QED
  BY <1>5, <1>7, <1>9 DEF IInv

\* What the invariant says of one process.
LEMMA OneProcess ==
  ASSUME IInv, NEW p \in Procs
  PROVE  /\ proc[p] \in Process /\ proc[p].fd \in Tables /\ proc[p].parent # p
         /\ proc[p].errno = "ECHILD" => proc[p].pc = "wait"
         /\ Waiting(proc[p]) \/ proc[p].pc \in {"prompt", "read"} => Children(p) = {}
         /\ p = First => Kept(proc[p])
         /\ typed \in 0..MaxLines
BY DEF IInv, TypeOK, AloneAtPrompt, Process, Tables

LEMMA ReapIInv == \A p \in Procs : IInv /\ Reap(p) => IInv'
<1> SUFFICES ASSUME NEW p \in Procs, IInv, Reap(p) PROVE IInv'
  OBVIOUS
<1>1. PICK q \in Procs : proc[q].pc = "zombie" /\ proc' = [proc EXCEPT ![q] = NoProcess]
  BY DEF Reap, Children
<1>2. /\ NoProcess \in Process /\ NoProcess.pc = "none" /\ NoProcess.errno = "0"
      /\ NoProcess.parent = Orphan /\ Orphan \notin Procs /\ First \in Procs
  BY BoundsAssumption
     DEF NoProcess, Process, PCs, Objects, NoFd, Orphan, Procs, First
<1>3. \A r \in Procs : proc'[r] = IF r = q THEN NoProcess ELSE proc[r]
  BY <1>1 DEF IInv, TypeOK
<1>4. TypeOK'
  BY <1>1, <1>2, <1>3 DEF IInv, TypeOK, Reap
<1>5. \A r \in Procs : Children(r)' \subseteq Children(r)
  BY <1>2, <1>3 DEF Children
<1>6. AloneAtPrompt'
  BY <1>2, <1>3, <1>5 DEF IInv, AloneAtPrompt, Waiting
<1>7. Kept(proc'[First])
  BY <1>2, <1>3 DEF IInv, Kept
<1>8. Kept(proc[First])'
  BY <1>7 DEF Kept, Tidy, TidyButEnds, TidyButPipe
<1> QED
  BY <1>4, <1>6, <1>8 DEF IInv

LEMMA NoChildIInv == \A p \in Procs : IInv /\ NoChild(p) => IInv'
<1> SUFFICES ASSUME NEW p \in Procs, IInv, NoChild(p) PROVE IInv'
  OBVIOUS
<1> DEFINE me == [proc[p] EXCEPT !.errno = "ECHILD"]
<1>1. proc' = [proc EXCEPT ![p] = me]
  BY DEF NoChild
<1>2. /\ me \in Process /\ me.parent = proc[p].parent /\ me.pc = "wait"
      /\ me.fd = proc[p].fd
  BY OneProcess DEF Process, NoChild
<1>3. p = First => Kept(me)
  <2> HIDE DEF me
  <2> QED
    BY <1>2, OneProcess DEF Kept, NoChild
<1> HIDE DEF me
<1> QED
  BY <1>1, <1>2, <1>3, OneChanges, OneProcess DEF NoChild

LEMMA WaitedIInv == \A p \in Procs : IInv /\ Waited(p) => IInv'
<1> SUFFICES ASSUME NEW p \in Procs, IInv, Waited(p) PROVE IInv'
  OBVIOUS
<1> DEFINE me == [proc[p] EXCEPT !.pc = "prompt", !.errno = "0"]
<1>1. proc' = [proc EXCEPT ![p] = me]
  BY DEF Waited
<1>2. /\ me \in Process /\ me.parent = proc[p].parent /\ me.pc = "prompt"
      /\ me.fd = proc[p].fd /\ me.errno = "0"
  <2>1. proc[p] \in Process
    BY OneProcess
  <2> QED
    BY <2>1 DEF Process, PCs
<1>3. p = First => Kept(me)
  <2> HIDE DEF me
  <2> QED
    BY <1>2, OneProcess DEF Kept, Waited
<1>4. Children(p) = {}
  BY OneProcess DEF Waiting, Waited
<1> HIDE DEF me
<1> QED
  BY <1>1, <1>2, <1>3, <1>4, OneChanges, OneProcess DEF Waited

LEMMA PromptIInv == \A p \in Procs : IInv /\ Prompt(p) => IInv'
<1> SUFFICES ASSUME NEW p \in Procs, IInv, Prompt(p) PROVE IInv'
  OBVIOUS
<1> DEFINE me == [proc[p] EXCEPT !.pc = "read"]
<1>1. CASE Broken(proc[p].fd[1])
  BY <1>1, DieIInv DEF Prompt
<1>2. CASE ~ Broken(proc[p].fd[1])
  <2>1. proc' = [proc EXCEPT ![p] = me] /\ typed' = typed
    BY <1>2 DEF Prompt
  <2>2. /\ me \in Process /\ me.parent = proc[p].parent /\ me.pc = "read"
        /\ me.fd = proc[p].fd /\ me.errno = proc[p].errno
    BY OneProcess DEF Process, PCs
  <2>3. p = First => Kept(me)
    <3> HIDE DEF me
    <3> QED
      BY <2>2, OneProcess DEF Kept, Prompt
  <2> HIDE DEF me
  <2> QED
    BY <2>1, <2>2, <2>3, OneChanges, OneProcess DEF Prompt
<1> QED
  BY <1>1, <1>2

\* The line is new, and nothing that cur_pipe may hold has been closed yet.
LEMMA ReadLineIInv == \A p \in Procs : IInv /\ ReadLine(p) => IInv'
<1> SUFFICES ASSUME NEW p \in Procs, IInv, ReadLine(p) PROVE IInv'
  OBVIOUS
<1>1. PICK line \in Lines, exists \in BOOLEAN, garbage \in Garbage :
        proc' = [proc EXCEPT ![p] =
                   [@ EXCEPT !.pc = "loop", !.n_words = NWords(line),
                             !.length = FirstLen(line), !.exists = exists,
                             !.dest_offset = 0, !.read_fd_prev = NoFd,
                             !.cur_pipe = garbage]]
  BY DEF ReadLine
<1> DEFINE me == [proc[p] EXCEPT !.pc = "loop", !.n_words = NWords(line),
                                 !.length = FirstLen(line), !.exists = exists,
                                 !.dest_offset = 0, !.read_fd_prev = NoFd,
                                 !.cur_pipe = garbage]
<1>2. proc' = [proc EXCEPT ![p] = me]
  BY <1>1
<1>3. NWords(line) \in Nat /\ FirstLen(line) \in Nat /\ garbage \in Int \X Int
  BY CountFacts, BoundsAssumption
<1>4. /\ me \in Process /\ me.parent = proc[p].parent /\ me.pc = "loop"
      /\ me.fd = proc[p].fd /\ me.errno = proc[p].errno /\ me.read_fd_prev = NoFd
  <2>1. proc[p] \in Process
    BY OneProcess
  <2>2. NoFd \in Int /\ "loop" \in PCs
    BY DEF NoFd, PCs
  <2> QED
    BY <1>3, <2>1, <2>2 DEF Process
<1>5. p = First => Kept(me)
  <2> HIDE DEF me
  <2> QED
    BY <1>4, OneProcess DEF Kept, ReadLine, NoFd
<1>6. typed' \in 0..MaxLines
  BY OneProcess, BoundsAssumption DEF ReadLine
<1> HIDE DEF me
<1> QED
  BY <1>2, <1>4, <1>5, <1>6, OneChanges, OneProcess DEF ReadLine, Waiting

LEMMA EndLoopIInv == \A p \in Procs : IInv /\ EndLoop(p) => IInv'
<1> SUFFICES ASSUME NEW p \in Procs, IInv, EndLoop(p) PROVE IInv'
  OBVIOUS
<1> DEFINE me == [proc[p] EXCEPT !.pc = "wait"]
<1>1. proc' = [proc EXCEPT ![p] = me]
  BY DEF EndLoop
<1>2. /\ me \in Process /\ me.parent = proc[p].parent /\ me.pc = "wait"
      /\ me.fd = proc[p].fd /\ me.errno = proc[p].errno
  BY OneProcess DEF Process, PCs
<1>3. p = First => Kept(me)
  <2> HIDE DEF me
  <2> QED
    BY <1>2, OneProcess DEF Kept, EndLoop
<1>4. me.errno # "ECHILD"
  <2> HIDE DEF me
  <2> QED
    BY <1>2, OneProcess DEF EndLoop
<1> HIDE DEF me
<1> QED
  BY <1>1, <1>2, <1>3, <1>4, OneChanges, OneProcess DEF EndLoop, Waiting

\* A new pipe: neither end is descriptor 0 of a process that has its standard
\* input.
LEMMA PipedFacts ==
  ASSUME TypeOK, NEW me \in Process, Cardinality(Free(me.fd)) >= 2
  PROVE  /\ Piped(me) \in Process /\ Piped(me).parent = me.parent
         /\ Piped(me).pc = "piped" /\ Piped(me).errno = me.errno
         /\ Piped(me).read_fd_prev = me.read_fd_prev
         /\ Piped(me).dest_offset = me.dest_offset /\ Piped(me).n_words = me.n_words
         /\ me.fd[0] = Terminal =>
              Piped(me).fd[0] = Terminal /\ Piped(me).cur_pipe[1] # 0
         /\ \A f \in Fds : f \notin {Piped(me).cur_pipe[1], Piped(me).cur_pipe[2]} =>
                            Piped(me).fd[f] = me.fd[f]
<1> DEFINE r == Min(Free(me.fd))
           w == Min(Free(me.fd) \ {r})
           i == Min({j \in PipeIds : ~ InUse(j)})
<1>1. Piped(me) = [me EXCEPT !.pc = "piped", !.cur_pipe = <<r, w>>,
                             !.fd = [me.fd EXCEPT ![r] = ReadEnd(i), ![w] = WriteEnd(i)]]
  BY DEF Piped, Process
<1>2. i \in PipeIds
  BY PipeLeft
<1>3. Free(me.fd) \in SUBSET Nat /\ Free(me.fd) \subseteq Fds /\ IsFiniteSet(Free(me.fd))
  BY FreeFacts
<1>4. r \in Free(me.fd)
  <2>1. Free(me.fd) # {}
    BY <1>3, FS_EmptySet
  <2> QED
    BY <1>3, <2>1, MinOfNats
<1>5. w \in Free(me.fd)
  <2> HIDE DEF r
  <2>1. IsFiniteSet(Free(me.fd) \ {r}) /\ Cardinality(Free(me.fd) \ {r}) # 0
    <3>1. /\ IsFiniteSet(Free(me.fd) \ {r})
          /\ Cardinality(Free(me.fd) \ {r}) = Cardinality(Free(me.fd)) - 1
      BY <1>3, <1>4, FS_RemoveElement
    <3>2. Cardinality(Free(me.fd)) \in Nat
      BY <1>3, FS_CardinalityType
    <3> QED
      BY <3>1, <3>2
  <2>2. Free(me.fd) \ {r} # {}
    BY <2>1, FS_EmptySet
  <2>3. Free(me.fd) \ {r} \in SUBSET Nat
    BY <1>3
  <2> QED
    BY <2>2, <2>3, MinOfNats
<1>6. 0 \in Fds /\ Fds \subseteq Int
  BY BoundsAssumption DEF Fds
<1>7. me.fd[0] = Terminal => r # 0 /\ w # 0
  <2>1. me.fd[r] = Nothing /\ me.fd[w] = Nothing
    <3> HIDE DEF r, w
    <3> QED
      BY <1>4, <1>5 DEF Free
  <2>2. Terminal # Nothing
    BY DEF Terminal, Nothing
  <2> HIDE DEF r, w
  <2> QED
    BY <2>1, <2>2
<1> HIDE DEF r, w, i
<1>8. me.fd \in [Fds -> Objects] /\ {ReadEnd(i), WriteEnd(i)} \subseteq Objects
  BY <1>2 DEF Process, Objects
<1>9. [me.fd EXCEPT ![r] = ReadEnd(i), ![w] = WriteEnd(i)] \in [Fds -> Objects]
  BY <1>8
<1>10. <<r, w>> \in Int \X Int /\ r \in Fds /\ w \in Fds
  BY <1>3, <1>4, <1>5, <1>6
<1> DEFINE table == [me.fd EXCEPT ![r] = ReadEnd(i), ![w] = WriteEnd(i)]
<1>11. \A f \in Fds : f \notin {r, w} => table[f] = me.fd[f]
  BY <1>8
<1> HIDE DEF table
<1>12. Piped(me) = [me EXCEPT !.pc = "piped", !.cur_pipe = <<r, w>>, !.fd = table]
  BY <1>1 DEF table
<1>13. Piped(me) \in Process
  <2>1. "piped" \in PCs
    BY DEF PCs
  <2> QED
    BY <1>9, <1>10, <1>12, <2>1 DEF Process, table
<1>14. /\ Piped(me).parent = me.parent /\ Piped(me).pc = "piped"
       /\ Piped(me).errno = me.errno
       /\ Piped(me).read_fd_prev = me.read_fd_prev
       /\ Piped(me).dest_offset = me.dest_offset /\ Piped(me).n_words = me.n_words
       /\ Piped(me).cur_pipe[1] = r /\ Piped(me).cur_pipe[2] = w
       /\ Piped(me).fd = table
  BY <1>12 DEF Process
<1> QED
  BY <1>6, <1>7, <1>11, <1>13, <1>14

\* A round of the loop opens at most the pipe of this round.
LEMMA IterateIInv == \A p \in Procs : IInv /\ Iterate(p) => IInv'
<1> SUFFICES ASSUME NEW p \in Procs, IInv, Iterate(p) PROVE IInv'
  OBVIOUS
<1> DEFINE next == [proc[p] EXCEPT !.pc = "fork",
                                   !.dest_offset = @ + proc[p].length + 1]
<1>1. /\ proc[p].pc = "loop" /\ proc[p].dest_offset < proc[p].n_words
      /\ \/ /\ next.dest_offset >= next.n_words
            /\ proc' = [proc EXCEPT ![p] = next] /\ typed' = typed
         \/ /\ next.dest_offset < next.n_words
            /\ Cardinality(Free(next.fd)) >= 2
            /\ proc' = [proc EXCEPT ![p] = Piped(next)] /\ typed' = typed
         \/ Die(p)
  BY DEF Iterate
<1>2. /\ next \in Process /\ next.parent = proc[p].parent /\ next.pc = "fork"
      /\ next.fd = proc[p].fd /\ next.errno = proc[p].errno
      /\ next.read_fd_prev = proc[p].read_fd_prev
  <2>1. proc[p] \in Process
    BY OneProcess
  <2>2. "fork" \in PCs
    BY DEF PCs
  <2>3. proc[p].dest_offset + proc[p].length + 1 \in Nat
    BY <2>1 DEF Process
  <2> QED
    BY <2>1, <2>2, <2>3 DEF Process
<1> HIDE DEF next
<1>3. next.errno # "ECHILD"
  BY <1>1, <1>2, OneProcess
<1>4. p = First => /\ Tidy(next.fd) /\ next.read_fd_prev # 0
  BY <1>1, <1>2, OneProcess DEF Kept
<1>5. 0 \in Fds
  BY BoundsAssumption DEF Fds
<1>6. CASE next.dest_offset >= next.n_words /\ proc' = [proc EXCEPT ![p] = next]
           /\ typed' = typed
  <2>1. next.dest_offset \in Nat /\ next.n_words \in Nat
    BY <1>2 DEF Process
  <2>2. p = First => Kept(next)
    BY <1>2, <1>4, <1>6, <2>1 DEF Kept, Tidy, TidyButEnds, TidyButPipe
  <2> QED
    BY <1>1, <1>2, <1>3, <1>6, <2>2, OneChanges, OneProcess DEF Waiting
<1>7. CASE Cardinality(Free(next.fd)) >= 2 /\ proc' = [proc EXCEPT ![p] = Piped(next)]
           /\ typed' = typed
  <2> DEFINE me == Piped(next)
  <2>1. /\ me \in Process /\ me.parent = proc[p].parent /\ me.pc = "piped"
        /\ me.errno = next.errno /\ me.read_fd_prev = next.read_fd_prev
        /\ next.fd[0] = Terminal => me.fd[0] = Terminal /\ me.cur_pipe[1] # 0
        /\ \A f \in Fds : f \notin {me.cur_pipe[1], me.cur_pipe[2]} => me.fd[f] = next.fd[f]
    BY <1>2, <1>7, PipedFacts DEF IInv
  <2> HIDE DEF me
  <2>2. p = First => Kept(me)
    <3>1. p = First => TidyButEnds(me)
      BY <1>4, <2>1 DEF Tidy, TidyButEnds
    <3> QED
      BY <2>1, <3>1 DEF Kept
  <2>3. proc' = [proc EXCEPT ![p] = me] /\ typed' = typed
    BY <1>7 DEF me
  <2> QED
    BY <1>1, <1>3, <2>1, <2>2, <2>3, OneChanges, OneProcess DEF Waiting
<1>8. CASE Die(p)
  BY <1>1, <1>8, DieIInv
<1> QED
  BY <1>1, <1>6, <1>7, <1>8

\* Of the new pipe the parent keeps the write end, and its standard input.
LEMMA CloseReadIInv == \A p \in Procs : IInv /\ CloseRead(p) => IInv'
<1> SUFFICES ASSUME NEW p \in Procs, IInv, CloseRead(p) PROVE IInv'
  OBVIOUS
<1> DEFINE old == proc[p]
           table == Close(old.fd, old.cur_pipe[1])
           me == [old EXCEPT !.pc = "fork", !.fd = table]
<1>1. old.pc = "piped" /\ proc' = [proc EXCEPT ![p] = me] /\ typed' = typed
  BY DEF CloseRead
<1>2. /\ table \in Tables
      /\ \A f \in Fds : table[f] = IF f = old.cur_pipe[1] THEN Nothing ELSE old.fd[f]
  BY OneProcess, CloseFacts
<1> HIDE DEF table
<1>3. /\ me \in Process /\ me.parent = old.parent /\ me.pc = "fork" /\ me.fd = table
      /\ me.errno = old.errno /\ me.read_fd_prev = old.read_fd_prev
      /\ me.cur_pipe = old.cur_pipe
  <2>1. old \in Process /\ "fork" \in PCs
    BY OneProcess DEF PCs
  <2> HIDE DEF old
  <2> QED
    BY <1>2, <2>1 DEF Process, Tables
<1>4. p = First => Kept(me)
  <2> HIDE DEF me
  <2>1. p = First => TidyButEnds(old)
    BY <1>1, OneProcess DEF Kept
  <2>2. 0 \in Fds
    BY BoundsAssumption DEF Fds
  <2>3. p = First => TidyButPipe(me)
    BY <1>2, <1>3, <2>1, <2>2 DEF TidyButEnds, TidyButPipe
  <2> QED
    BY <1>3, <2>3 DEF Kept
<1>5. me.errno # "ECHILD"
  BY <1>1, <1>3, OneProcess
<1> HIDE DEF me
<1> QED
  BY <1>1, <1>3, <1>4, <1>5, OneChanges, OneProcess DEF Waiting

\* The parent after fork(): it has closed the pipe of this round and of the
\* round before, and not its standard input.
LEMMA AfterForkFacts ==
  ASSUME NEW me \in Process
  PROVE  /\ AfterFork(me) \in Process /\ AfterFork(me).parent = me.parent
         /\ AfterFork(me).pc = "loop" /\ AfterFork(me).errno = me.errno
         /\ TidyButPipe(me) => /\ Tidy(AfterFork(me).fd)
                               /\ AfterFork(me).dest_offset < AfterFork(me).n_words
                                    => AfterFork(me).read_fd_prev # 0
<1> DEFINE closed == IF me.read_fd_prev # NoFd THEN Close(me.fd, me.read_fd_prev)
                                               ELSE me.fd
           table == IF me.cur_pipe[2] # 0 THEN Close(closed, me.cur_pipe[2]) ELSE closed
<1>1. me.fd \in Tables /\ me.cur_pipe \in Int \X Int /\ me.read_fd_prev \in Int
  BY DEF Process, Tables
<1>2. /\ closed \in Tables
      /\ \A f \in Fds : /\ closed[f] \in {me.fd[f], Nothing}
                        /\ f # me.read_fd_prev => closed[f] = me.fd[f]
  BY <1>1, CloseFacts
<1>3. /\ table \in Tables
      /\ \A f \in Fds : /\ table[f] \in {closed[f], Nothing}
                        /\ f = me.cur_pipe[2] /\ f # 0 => table[f] = Nothing
                        /\ f # me.cur_pipe[2] \/ f = 0 => table[f] = closed[f]
  <2> HIDE DEF closed
  <2> QED
    BY <1>2, CloseFacts
<1>4. AfterFork(me) = [me EXCEPT !.pc = "loop", !.read_fd_prev = me.cur_pipe[1],
                                 !.fd = table]
  BY DEF AfterFork
<1> HIDE DEF closed, table
<1>5. /\ AfterFork(me) \in Process /\ AfterFork(me).parent = me.parent
      /\ AfterFork(me).pc = "loop" /\ AfterFork(me).errno = me.errno
      /\ AfterFork(me).fd = table /\ AfterFork(me).read_fd_prev = me.cur_pipe[1]
      /\ AfterFork(me).dest_offset = me.dest_offset
      /\ AfterFork(me).n_words = me.n_words
  <2>1. "loop" \in PCs /\ me.cur_pipe[1] \in Int /\ table \in [Fds -> Objects]
    BY <1>1, <1>3 DEF PCs, Tables
  <2> QED
    BY <1>4, <2>1 DEF Process
<1>6. TidyButPipe(me) => Tidy(table)
  <2>1. 0 \in Fds
    BY BoundsAssumption DEF Fds
  <2>2. Terminal # Nothing
    BY DEF Terminal, Nothing
  <2> QED
    BY <1>2, <1>3, <2>1, <2>2 DEF TidyButPipe, Tidy
<1> QED
  BY <1>5, <1>6 DEF TidyButPipe

\* fork() gives a child to the shell that calls it and to nobody else.
LEMMA ForkIInv == \A p \in Procs : IInv /\ Fork(p) => IInv'
<1> SUFFICES ASSUME NEW p \in Procs, IInv, Fork(p) PROVE IInv'
  OBVIOUS
<1> DEFINE room == {q \in Procs \ {First} : proc[q].pc = "none"}
           child == [proc[p] EXCEPT !.pc = "child", !.parent = p]
           me == AfterFork(proc[p])
<1>1. /\ proc[p].pc = "fork" /\ typed' = typed
      /\ \/ /\ room # {}
            /\ proc' = [proc EXCEPT ![p] = me, ![Min(room)] = child]
         \/ proc' = [proc EXCEPT ![p] = me]
  BY DEF Fork
<1>2. /\ me \in Process /\ me.parent = proc[p].parent /\ me.pc = "loop"
      /\ me.errno = proc[p].errno
      /\ TidyButPipe(proc[p]) =>
           Tidy(me.fd) /\ (me.dest_offset < me.n_words => me.read_fd_prev # 0)
  BY AfterForkFacts, OneProcess
<1>3. me.errno # "ECHILD"
  BY <1>1, <1>2, OneProcess
<1>4. p = First => Kept(me)
  <2> HIDE DEF me
  <2> QED
    BY <1>1, <1>2, OneProcess DEF Kept
<1>5. CASE proc' = [proc EXCEPT ![p] = me]
  <2> HIDE DEF me
  <2> QED
    BY <1>1, <1>2, <1>3, <1>4, <1>5, OneChanges, OneProcess DEF Waiting
<1>6. CASE room # {} /\ proc' = [proc EXCEPT ![p] = me, ![Min(room)] = child]
  <2>1. Min(room) \in room
    <3>1. room \in SUBSET Nat
      BY DEF Procs
    <3> HIDE DEF room
    <3> QED
      BY <1>6, <3>1, MinOfNats
  <2>2. PICK q \in Procs : q = Min(room) /\ q # First /\ proc[q].pc = "none" /\ q # p
    BY <1>1, <2>1
  <2>3. /\ child \in Process /\ child.parent = p /\ child.pc = "child"
        /\ child.errno = proc[p].errno
    <3>1. proc[p] \in Process /\ "child" \in PCs
      BY OneProcess DEF PCs
    <3> QED
      BY <3>1 DEF Process
  <2> HIDE DEF me, room, child
  <2>4. \A r \in Procs : proc'[r] = IF r = q THEN child ELSE IF r = p THEN me ELSE proc[r]
    BY <1>6, <2>2 DEF IInv, TypeOK
  <2>5. TypeOK'
    <3>1. proc' \in [Procs -> Process]
      BY <1>2, <1>6, <2>2, <2>3, <2>4 DEF IInv, TypeOK
    <3>2. \A r \in Procs : proc'[r].parent # r
      BY <1>2, <2>2, <2>3, <2>4, OneProcess
    <3> QED
      BY <1>1, <3>1, <3>2 DEF IInv, TypeOK
  <2>6. \A r \in Procs \ {p} : Children(r)' \subseteq Children(r)
    BY <1>1, <1>2, <2>3, <2>4 DEF Children
  <2>7. AloneAtPrompt'
    BY <1>1, <1>2, <1>3, <2>2, <2>3, <2>4, <2>6, OneProcess
       DEF IInv, AloneAtPrompt, Waiting
  <2>8. Kept(proc'[First])
    <3>1. First \in Procs
      BY BoundsAssumption DEF First, Procs
    <3> QED
      BY <1>4, <2>2, <2>4, <3>1 DEF IInv
  <2>9. Kept(proc[First])'
    BY <2>8 DEF Kept, Tidy, TidyButEnds, TidyButPipe
  <2> QED
    BY <2>5, <2>7, <2>9 DEF IInv
<1> QED
  BY <1>1, <1>5, <1>6

LEMMA ExecIInv == \A p \in Procs : IInv /\ Exec(p) => IInv'
<1> SUFFICES ASSUME NEW p \in Procs, IInv, Exec(p) PROVE IInv'
  OBVIOUS
<1> DEFINE old == proc[p]
           command == [NoProcess EXCEPT !.pc = "command", !.parent = old.parent,
                                        !.fd = Plumbing(old)]
           shell == [old EXCEPT !.pc = "loop", !.errno = "ENOENT", !.fd = Plumbing(old)]
           me == IF old.exists THEN command ELSE shell
<1>1. /\ old.pc = "child" /\ proc' = [proc EXCEPT ![p] = me] /\ typed' = typed
  BY DEF Exec
<1>2. old \in Process /\ Plumbing(old) \in [Fds -> Objects] /\ NoProcess \in Process
  BY OneProcess, PlumbingFacts
     DEF Tables, NoProcess, Process, PCs, Objects, NoFd
<1>3. p # First
  BY <1>1, OneProcess DEF Kept
<1>4. /\ command \in Process /\ command.parent = old.parent /\ command.pc = "command"
      /\ command.errno = "0"
  <2>1. "command" \in PCs /\ NoProcess.errno = "0" /\ old.parent \in {Orphan} \cup Procs
    BY <1>2 DEF PCs, NoProcess, Process
  <2> HIDE DEF old
  <2> QED
    BY <1>2, <2>1 DEF Process
<1>5. /\ shell \in Process /\ shell.parent = old.parent /\ shell.pc = "loop"
      /\ shell.errno = "ENOENT"
  <2>1. "loop" \in PCs
    BY DEF PCs
  <2> HIDE DEF old
  <2> QED
    BY <1>2, <2>1 DEF Process
<1> HIDE DEF command, shell
<1>6. /\ me \in Process /\ me.parent = old.parent /\ me.pc \in {"command", "loop"}
      /\ me.errno \in {"0", "ENOENT"}
  BY <1>4, <1>5
<1> HIDE DEF me
<1> QED
  BY <1>1, <1>3, <1>6, OneChanges, OneProcess DEF Waiting

\* Ctrl-C leaves no process.
LEMMA InterruptIInv == IInv /\ Interrupt => IInv'
<1> SUFFICES ASSUME IInv, Interrupt PROVE IInv'
  OBVIOUS
<1>1. proc' = [p \in Procs |-> NoProcess] /\ typed' = typed
  BY DEF Interrupt
<1>2. /\ NoProcess \in Process /\ NoProcess.pc = "none" /\ NoProcess.errno = "0"
      /\ NoProcess.parent = Orphan /\ Orphan \notin Procs /\ First \in Procs
  BY BoundsAssumption
     DEF NoProcess, Process, PCs, Objects, NoFd, Orphan, Procs, First
<1>3. TypeOK'
  BY <1>1, <1>2 DEF IInv, TypeOK
<1>4. AloneAtPrompt'
  BY <1>1, <1>2 DEF AloneAtPrompt, Waiting
<1>5. Kept(proc[First])'
  BY <1>1, <1>2 DEF Kept
<1> QED
  BY <1>3, <1>4, <1>5 DEF IInv

LEMMA NextIInv == IInv /\ [Next]_vars => IInv'
<1> SUFFICES ASSUME IInv, [Next]_vars PROVE IInv'
  OBVIOUS
<1>1. ASSUME NEW p \in Procs, Leave(p) \/ CommandEnds(p) PROVE IInv'
  BY <1>1, DieIInv DEF Leave, CommandEnds
<1>2. ASSUME UNCHANGED proc, typed' \in 0..MaxLines PROVE IInv'
  <2>1. TypeOK'
    BY <1>2 DEF IInv, TypeOK
  <2>2. AloneAtPrompt'
    BY <1>2 DEF IInv, AloneAtPrompt, Waiting, Children
  <2>3. Kept(proc[First])'
    BY <1>2 DEF IInv, Kept, Tidy, TidyButPipe
  <2> QED
    BY <2>1, <2>2, <2>3 DEF IInv
<1>3. ASSUME NEW p \in Procs, CommandReads(p) PROVE IInv'
  <2>1. typed' \in 0..MaxLines
    BY <1>3, BoundsAssumption DEF CommandReads, IInv, TypeOK
  <2> QED
    BY <1>2, <1>3, <2>1 DEF CommandReads
<1>4. ASSUME UNCHANGED vars PROVE IInv'
  BY <1>2, <1>4 DEF vars, IInv, TypeOK
<1> QED
  BY <1>1, <1>3, <1>4, ReapIInv, NoChildIInv, WaitedIInv, PromptIInv, ReadLineIInv,
     IterateIInv, CloseReadIInv, EndLoopIInv, ForkIInv, ExecIInv, InterruptIInv
     DEF Next, Step, Quiet

\* The invariant of the shells, at every step of any of them.
THEOREM SpecIInv == Spec => []IInv
BY InitIInv, NextIInv, PTL DEF Spec

-----------------------------------------------------------------------------

\* Every process is at a place of its program, with a whole table of
\* descriptors; pipe() finds a number for its pipe, as there are more of them
\* than descriptors in all the processes.
THEOREM TypeCorrect == Spec => []TypeOK
<1>1. IInv => TypeOK
  BY DEF IInv
<1> QED
  BY <1>1, SpecIInv, PTL

\* No shell, the one of the user or one that a failed execvp has left, is at its
\* prompt or reads a line while it has a child.
THEOREM AloneAtThePrompt == Spec => []PromptAfterChildren
<1>1. IInv => PromptAfterChildren
  BY DEF IInv, AloneAtPrompt, PromptAfterChildren
<1> QED
  BY <1>1, SpecIInv, PTL

\* Whatever cur_pipe holds at the beginning of a line, whichever forks fail and
\* whichever pipes, the user's shell never closes its standard input and leaves
\* nothing open.
THEOREM DescriptorsAreKept == Spec => []DescriptorsKept
<1>1. IInv => DescriptorsKept
  BY DEF IInv, Kept, Tidy, DescriptorsKept
<1> QED
  BY <1>1, SpecIInv, PTL

-----------------------------------------------------------------------------
(* Who waits for whom.                                                     *)

\* r is a measure of the tree of processes: a parent that a process still has is
\* living, and stands above its children.  The numbers of the processes are no such
\* measure, for they are given again.
Tree(r) == \A q \in Procs :
             proc[q].pc # "none" /\ proc[q].parent # Orphan =>
               Living(proc[q].parent) /\ r[q] < r[proc[q].parent]

Descent == \E r \in [Procs -> Nat] : Tree(r)

\* wait() has to wait.
Blocked(p) == /\ proc[p].pc = "wait" /\ proc[p].errno # "ECHILD"
              /\ Children(p) # {}
              /\ \A q \in Children(p) : proc[q].pc # "zombie"

\* There are processes, and all of them wait for each other.
Deadlocked == /\ \E p \in Procs : Living(p)
              /\ \A p \in Procs : Living(p) => Blocked(p)

NeverDeadlocked == ~ Deadlocked

\* Deadlocked is what its name says: no process has a step.
LEMMA DeadlockedIsStuck == Deadlocked => \A p \in Procs : ~ Step(p)
<1> SUFFICES ASSUME Deadlocked, NEW p \in Procs PROVE ~ Step(p)
  OBVIOUS
<1>1. CASE Living(p)
  BY <1>1 DEF Deadlocked, Blocked, Step, Reap, NoChild, Waited, Prompt, ReadLine, Leave,
              Iterate, CloseRead, EndLoop, Fork, Exec, CommandReads, CommandEnds
<1>2. CASE ~ Living(p)
  BY <1>2 DEF Living, Step, Reap, NoChild, Waited, Prompt, ReadLine, Leave, Iterate,
              CloseRead, EndLoop, Fork, Exec, CommandReads, CommandEnds
<1> QED
  BY <1>1, <1>2

\* The lowest of the living has no living child to wait for.
LEMMA DescentNeverDeadlocked == IInv /\ Descent => NeverDeadlocked
<1> SUFFICES ASSUME IInv, Descent, Deadlocked PROVE FALSE
  BY DEF NeverDeadlocked
<1>1. PICK r \in [Procs -> Nat] : Tree(r)
  BY DEF Descent
<1> DEFINE S == {r[p] : p \in {q \in Procs : Living(q)}}
<1>2. S \in SUBSET Nat /\ S # {}
  BY <1>1 DEF Deadlocked
<1>3. Min(S) \in S /\ \A y \in S : Min(S) <= y
  <2> HIDE DEF S
  <2> QED
    BY <1>2, MinOfNats
<1>4. PICK p \in Procs : Living(p) /\ \A q \in Procs : Living(q) => r[p] <= r[q]
  BY <1>3
<1>5. PICK q \in Children(p) : proc[q].pc # "zombie"
  BY <1>4 DEF Deadlocked, Blocked
<1>6. q \in Procs /\ Living(q) /\ r[q] < r[p] /\ r[p] <= r[q]
  <2>1. /\ q \in Procs /\ proc[q].parent = p
        /\ proc[q].pc \notin {"none", "zombie"}
    BY <1>5 DEF Children
  <2>2. Living(q) /\ r[p] <= r[q]
    BY <1>4, <2>1 DEF Living
  <2>3. p # Orphan
    BY BoundsAssumption DEF Procs, Orphan
  <2>4. r[q] < r[p]
    BY <1>1, <2>1, <2>3 DEF Tree
  <2> QED
    BY <2>1, <2>2, <2>4
<1>7. r[p] \in Nat /\ r[q] \in Nat
  BY <1>6
<1> QED
  BY <1>6, <1>7

\* A step by which nobody gets a parent, and no parent ends, keeps the tree.
LEMMA TreeKept ==
  ASSUME Descent,
         \A q \in Procs :
           proc'[q].pc # "none" /\ proc'[q].parent # Orphan =>
             /\ proc[q].pc # "none" /\ proc'[q].parent = proc[q].parent
             /\ Living(proc[q].parent) => proc'[proc[q].parent].pc \notin {"none", "zombie"}
  PROVE  Descent'
<1>1. PICK r \in [Procs -> Nat] : Tree(r)
  BY DEF Descent
<1>2. Tree(r)'
  BY <1>1 DEF Tree, Living
<1> QED
  BY <1>1, <1>2 DEF Descent

\* A step of one process that goes on and stays the child of its parent.
LEMMA OneGoesOn ==
  ASSUME IInv, Descent, NEW p \in Procs, NEW me, proc' = [proc EXCEPT ![p] = me],
         proc[p].pc # "none", me.pc \notin {"none", "zombie"}, me.parent = proc[p].parent
  PROVE  Descent'
<1>1. \A q \in Procs : proc'[q] = IF q = p THEN me ELSE proc[q]
  BY DEF IInv, TypeOK
<1>2. \A q \in Procs : proc[q].parent \in {Orphan} \cup Procs
  BY OneProcess DEF Process
<1> QED
  BY <1>1, <1>2, TreeKept DEF Living

\* The children of a process that ends have no parent any more.
LEMMA DieDescent ==
  ASSUME IInv, Descent, NEW p \in Procs, Die(p), proc[p].pc # "none"
  PROVE  Descent'
<1>1. /\ proc' = [q \in Procs |-> AfterDeath(p, q)]
      /\ NoProcess.pc = "none"
      /\ \A q \in Procs : proc[q] \in Process
  BY OneProcess DEF Die, NoProcess
<1>2. ASSUME NEW q \in Procs, proc'[q].pc # "none", proc'[q].parent # Orphan
      PROVE  /\ proc[q].pc # "none" /\ proc'[q].parent = proc[q].parent
             /\ proc[q].parent # p
  <2>1. proc'[q] = AfterDeath(p, q) /\ proc[q] \in Process
    BY <1>1
  <2>2. CASE q = p
    <3>1. proc[p].parent # Orphan
      BY <1>1, <1>2, <2>1, <2>2 DEF AfterDeath
    <3>2. proc'[q] = [NoProcess EXCEPT !.pc = "zombie", !.parent = proc[p].parent]
      <4>1. p \notin Children(p)
        BY OneProcess DEF Children
      <4> QED
        BY <2>1, <2>2, <3>1, <4>1 DEF AfterDeath
    <3>3. proc'[q].parent = proc[p].parent
      BY <3>2 DEF NoProcess
    <3>4. proc[p].parent # p
      BY OneProcess
    <3> QED
      BY <2>2, <3>3, <3>4
  <2>3. CASE q # p /\ q \in Children(p)
    <3>1. AfterDeath(p, q) = NoProcess \/ AfterDeath(p, q) = [proc[q] EXCEPT !.parent = Orphan]
      BY <2>3 DEF AfterDeath
    <3> QED
      BY <1>1, <1>2, <2>1, <3>1 DEF Process
  <2>4. CASE q # p /\ q \notin Children(p)
    <3>1. proc'[q] = proc[q]
      BY <2>1, <2>4 DEF AfterDeath
    <3> QED
      BY <1>2, <2>4, <3>1 DEF Children
  <2> QED
    BY <2>2, <2>3, <2>4
<1>3. ASSUME NEW q \in Procs, Living(q), q # p PROVE proc'[q].pc \notin {"none", "zombie"}
  <2>1. AfterDeath(p, q) = proc[q] \/ AfterDeath(p, q) = [proc[q] EXCEPT !.parent = Orphan]
    BY <1>3 DEF AfterDeath, Living
  <2> QED
    BY <1>1, <1>3, <2>1 DEF Living, Process
<1>4. \A q \in Procs : proc[q].parent \in {Orphan} \cup Procs
  BY <1>1 DEF Process
<1>5. \A q \in Procs : proc'[q].pc # "none" /\ proc'[q].parent # Orphan =>
                          proc[q].parent \in Procs
  BY <1>2, <1>4
<1> QED
  BY <1>2, <1>3, <1>5, TreeKept

\* wait() takes away a process that is nobody's parent.
LEMMA ReapDescent ==
  ASSUME IInv, Descent, NEW p \in Procs, Reap(p)
  PROVE  Descent'
<1>1. PICK q \in Procs : proc[q].pc = "zombie" /\ proc' = [proc EXCEPT ![q] = NoProcess]
  BY DEF Reap, Children
<1>2. /\ NoProcess.pc = "none"
      /\ \A s \in Procs : proc'[s] = IF s = q THEN NoProcess ELSE proc[s]
  BY <1>1 DEF NoProcess, IInv, TypeOK
<1>3. \A s \in Procs : proc[s].parent \in {Orphan} \cup Procs
  BY OneProcess DEF Process
<1> QED
  BY <1>1, <1>2, <1>3, TreeKept DEF Living

\* A new process comes below all others: nobody is its child, though another may
\* have had its number.
LEMMA ForkDescent ==
  ASSUME IInv, Descent, NEW p \in Procs, Fork(p)
  PROVE  Descent'
<1> DEFINE room == {q \in Procs \ {First} : proc[q].pc = "none"}
           child == [proc[p] EXCEPT !.pc = "child", !.parent = p]
           me == AfterFork(proc[p])
<1>1. /\ proc[p].pc = "fork"
      /\ \/ /\ room # {}
            /\ proc' = [proc EXCEPT ![p] = me, ![Min(room)] = child]
         \/ proc' = [proc EXCEPT ![p] = me]
  BY DEF Fork
<1>2. me.parent = proc[p].parent /\ me.pc = "loop"
  BY AfterForkFacts, OneProcess
<1>3. CASE proc' = [proc EXCEPT ![p] = me]
  <2> HIDE DEF me
  <2> QED
    BY <1>1, <1>2, <1>3, OneGoesOn
<1>4. CASE room # {} /\ proc' = [proc EXCEPT ![p] = me, ![Min(room)] = child]
  <2>1. Min(room) \in room
    <3>1. room \in SUBSET Nat
      BY DEF Procs
    <3> HIDE DEF room
    <3> QED
      BY <1>4, <3>1, MinOfNats
  <2>2. PICK n \in Procs : n = Min(room) /\ proc[n].pc = "none" /\ n # p
    BY <1>1, <2>1
  <2>3. child.parent = p /\ child.pc = "child"
    BY OneProcess DEF Process
  <2> HIDE DEF me, room, child
  <2>4. \A q \in Procs : proc'[q] = IF q = n THEN child ELSE IF q = p THEN me ELSE proc[q]
    BY <1>4, <2>2 DEF IInv, TypeOK
  <2>5. PICK r \in [Procs -> Nat] : Tree(r)
    BY DEF Descent
  <2> DEFINE s == [q \in Procs |-> IF q = n THEN 0 ELSE r[q] + 1]
  <2>6. s \in [Procs -> Nat]
    BY <2>5
  <2>7. ASSUME NEW q \in Procs, proc'[q].pc # "none", proc'[q].parent # Orphan
        PROVE  /\ proc'[proc'[q].parent].pc \notin {"none", "zombie"}
               /\ s[q] < s[proc'[q].parent]
    <3>1. CASE q = n
      <4>1. proc'[q].parent = p /\ proc'[p].pc = "loop"
        BY <1>2, <2>2, <2>3, <2>4, <3>1
      <4>2. s[q] = 0 /\ s[p] = r[p] + 1 /\ r[p] \in Nat
        BY <2>2, <2>5, <3>1
      <4> QED
        BY <4>1, <4>2
    <3>2. CASE q # n
      <4>1. proc'[q].parent = proc[q].parent /\ proc[q].pc # "none"
        BY <1>1, <1>2, <2>4, <2>7, <3>2
      <4>2. proc[q].parent \in Procs
        BY <2>7, <4>1, OneProcess DEF Process
      <4>3. Living(proc[q].parent) /\ r[q] < r[proc[q].parent]
        BY <2>5, <2>7, <4>1 DEF Tree
      <4>4. proc[q].parent # n
        BY <2>2, <4>3 DEF Living
      <4>5. proc'[proc[q].parent].pc \notin {"none", "zombie"}
        BY <1>2, <2>4, <4>2, <4>3, <4>4 DEF Living
      <4>6. /\ s[q] = r[q] + 1 /\ s[proc[q].parent] = r[proc[q].parent] + 1
            /\ r[q] \in Nat /\ r[proc[q].parent] \in Nat
        BY <2>5, <3>2, <4>2, <4>4
      <4> QED
        BY <4>1, <4>3, <4>5, <4>6
    <3> QED
      BY <3>1, <3>2
  <2> HIDE DEF s
  <2>8. Tree(s)'
    BY <2>7 DEF Tree, Living
  <2> QED
    BY <2>6, <2>8 DEF Descent
<1> QED
  BY <1>1, <1>3, <1>4

\* The other steps of a process leave it where it is in the tree.
LEMMA StepDescent ==
  ASSUME IInv, Descent, NEW p \in Procs, Step(p)
  PROVE  Descent'
<1>1. ASSUME NEW me, proc' = [proc EXCEPT ![p] = me], proc[p].pc # "none",
             me.pc \notin {"none", "zombie"}, me.parent = proc[p].parent
      PROVE  Descent'
  BY <1>1, OneGoesOn
<1>2. proc[p] \in Process
  BY OneProcess
<1>3. CASE NoChild(p)
  <2> DEFINE me == [proc[p] EXCEPT !.errno = "ECHILD"]
  <2>1. me.pc = "wait" /\ me.parent = proc[p].parent /\ proc[p].pc = "wait"
    BY <1>2, <1>3 DEF Process, NoChild
  <2>2. proc' = [proc EXCEPT ![p] = me]
    BY <1>3 DEF NoChild
  <2> HIDE DEF me
  <2> QED
    BY <1>1, <2>1, <2>2
<1>4. CASE Waited(p)
  <2> DEFINE me == [proc[p] EXCEPT !.pc = "prompt", !.errno = "0"]
  <2>1. me.pc = "prompt" /\ me.parent = proc[p].parent /\ proc[p].pc = "wait"
    BY <1>2, <1>4 DEF Process, Waited
  <2>2. proc' = [proc EXCEPT ![p] = me]
    BY <1>4 DEF Waited
  <2> HIDE DEF me
  <2> QED
    BY <1>1, <2>1, <2>2
<1>5. CASE Prompt(p)
  <2> DEFINE me == [proc[p] EXCEPT !.pc = "read"]
  <2>1. me.pc = "read" /\ me.parent = proc[p].parent /\ proc[p].pc = "prompt"
    BY <1>2, <1>5 DEF Process, Prompt
  <2>2. proc' = [proc EXCEPT ![p] = me] \/ Die(p)
    BY <1>5 DEF Prompt
  <2> HIDE DEF me
  <2> QED
    BY <1>1, <2>1, <2>2, DieDescent
<1>6. CASE ReadLine(p)
  <2>1. PICK line \in Lines, exists \in BOOLEAN, garbage \in Garbage :
          proc' = [proc EXCEPT ![p] =
                     [@ EXCEPT !.pc = "loop", !.n_words = NWords(line),
                               !.length = FirstLen(line), !.exists = exists,
                               !.dest_offset = 0, !.read_fd_prev = NoFd,
                               !.cur_pipe = garbage]]
    BY <1>6 DEF ReadLine
  <2> DEFINE me == [proc[p] EXCEPT !.pc = "loop", !.n_words = NWords(line),
                                   !.length = FirstLen(line), !.exists = exists,
                                   !.dest_offset = 0, !.read_fd_prev = NoFd,
                                   !.cur_pipe = garbage]
  <2>2. me.pc = "loop" /\ me.parent = proc[p].parent /\ proc[p].pc = "read"
    BY <1>2, <1>6 DEF Process, ReadLine
  <2>3. proc' = [proc EXCEPT ![p] = me]
    BY <2>1
  <2> HIDE DEF me
  <2> QED
    BY <1>1, <2>2, <2>3
<1>7. CASE Iterate(p)
  <2> DEFINE next == [proc[p] EXCEPT !.pc = "fork",
                                     !.dest_offset = @ + proc[p].length + 1]
             me == Piped(next)
  <2>1. /\ proc[p].pc = "loop"
        /\ \/ proc' = [proc EXCEPT ![p] = next]
           \/ /\ Cardinality(Free(next.fd)) >= 2
              /\ proc' = [proc EXCEPT ![p] = me]
           \/ Die(p)
    BY <1>7 DEF Iterate
  <2>2. next \in Process /\ next.pc = "fork" /\ next.parent = proc[p].parent
    <3>1. proc[p].dest_offset + proc[p].length + 1 \in Nat /\ "fork" \in PCs
      BY <1>2 DEF Process, PCs
    <3> QED
      BY <1>2, <3>1 DEF Process
  <2>3. CASE proc' = [proc EXCEPT ![p] = next]
    <3> HIDE DEF next
    <3> QED
      BY <1>1, <2>1, <2>2, <2>3
  <2>4. CASE Cardinality(Free(next.fd)) >= 2 /\ proc' = [proc EXCEPT ![p] = me]
    <3>1. me.pc = "piped" /\ me.parent = proc[p].parent
      <4> HIDE DEF next
      <4> QED
        BY <2>2, <2>4, PipedFacts DEF IInv
    <3> HIDE DEF me, next
    <3> QED
      BY <1>1, <2>1, <2>4, <3>1
  <2> HIDE DEF me, next
  <2> QED
    BY <2>1, <2>3, <2>4, DieDescent
<1>8. CASE EndLoop(p)
  <2> DEFINE me == [proc[p] EXCEPT !.pc = "wait"]
  <2>1. me.pc = "wait" /\ me.parent = proc[p].parent /\ proc[p].pc = "loop"
    BY <1>2, <1>8 DEF Process, EndLoop
  <2>2. proc' = [proc EXCEPT ![p] = me]
    BY <1>8 DEF EndLoop
  <2> HIDE DEF me
  <2> QED
    BY <1>1, <2>1, <2>2
<1>9. CASE Exec(p)
  <2> DEFINE old == proc[p]
             command == [NoProcess EXCEPT !.pc = "command", !.parent = old.parent,
                                          !.fd = Plumbing(old)]
             shell == [old EXCEPT !.pc = "loop", !.errno = "ENOENT",
                                  !.fd = Plumbing(old)]
             me == IF old.exists THEN command ELSE shell
  <2>1. old.pc = "child" /\ proc' = [proc EXCEPT ![p] = me]
    BY <1>9 DEF Exec
  <2>2. command.pc = "command" /\ command.parent = old.parent
    BY DEF NoProcess
  <2>3. shell.pc = "loop" /\ shell.parent = old.parent
    BY <1>2 DEF Process
  <2> HIDE DEF command, shell
  <2>4. me.pc \in {"command", "loop"} /\ me.parent = old.parent
    BY <2>2, <2>3
  <2> HIDE DEF me
  <2> QED
    BY <1>1, <2>1, <2>4
<1>10. CASE CommandReads(p)
  <2>1. \A q \in Procs : proc[q].parent \in {Orphan} \cup Procs
    BY OneProcess DEF Process
  <2> QED
    BY <1>10, <2>1, TreeKept DEF CommandReads, Living
<1>11. CASE Leave(p) \/ CommandEnds(p)
  BY <1>11, DieDescent DEF Leave, CommandEnds
<1>12. CASE CloseRead(p)
  <2> DEFINE me == [proc[p] EXCEPT !.pc = "fork",
                                   !.fd = Close(proc[p].fd, proc[p].cur_pipe[1])]
  <2>1. me.pc = "fork" /\ me.parent = proc[p].parent /\ proc[p].pc = "piped"
    BY <1>2, <1>12 DEF Process, CloseRead
  <2>2. proc' = [proc EXCEPT ![p] = me]
    BY <1>12 DEF CloseRead
  <2> HIDE DEF me
  <2> QED
    BY <1>1, <2>1, <2>2
<1> QED
  BY <1>3, <1>4, <1>5, <1>6, <1>7, <1>8, <1>9, <1>10, <1>11, <1>12, ReapDescent,
     ForkDescent
     DEF Step

\* Every step keeps the tree; Ctrl-C leaves none.
LEMMA NextDescent == IInv /\ Descent /\ [Next]_vars => Descent'
<1> SUFFICES ASSUME IInv, Descent, [Next]_vars PROVE Descent'
  OBVIOUS
<1>1. CASE Interrupt
  BY <1>1, TreeKept DEF Interrupt, NoProcess
<1>2. CASE UNCHANGED vars
  <2>1. \A q \in Procs : proc[q].parent \in {Orphan} \cup Procs
    BY OneProcess DEF Process
  <2> QED
    BY <1>2, <2>1, TreeKept DEF vars, Living
<1> QED
  BY <1>1, <1>2, StepDescent DEF Next, Quiet

\* The shells that failed commands have left wait for children of their own, and
\* for these others may wait; but however many there are, and though the numbers of
\* processes are given again, they never all wait: as long as a process is there,
\* one of them can go on, if only with what the user types.
THEOREM ShellsNeverDeadlock == Spec => []NeverDeadlocked
<1>1. Init => Descent
  <2> SUFFICES ASSUME Init PROVE Descent
    OBVIOUS
  <2> DEFINE r == [q \in Procs |-> 0]
  <2>1. \A q \in Procs : proc[q].parent = Orphan
    BY DEF Init, NoProcess
  <2>2. r \in [Procs -> Nat] /\ Tree(r)
    BY <2>1 DEF Tree
  <2> HIDE DEF r
  <2> QED
    BY <2>2 DEF Descent
<1>2. Spec => []Descent
  BY <1>1, SpecIInv, NextDescent, PTL DEF Spec
<1> QED
  BY <1>2, SpecIInv, DescentNeverDeadlocked, PTL
=============================================================================
