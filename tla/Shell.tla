-------------------------------- MODULE Shell -------------------------------
(***************************************************************************)
(* myshell/main.cpp: a shell with pipelines.  Shells and commands are      *)
(* processes with a table of descriptors each; fork copies the process     *)
(* with everything in it.                                                  *)
(*                                                                         *)
(* source_offset is never moved: every command of a pipeline is the first  *)
(* one again, and its second case ("2CASE") cannot come.  A child whose    *)
(* execvp fails goes on in the loop of its parent and is then a shell of   *)
(* its own.  cur_pipe is uninitialised until the first pipe() of a line.   *)
(***************************************************************************)
EXTENDS Integers, Sequences, FiniteSets, FiniteSetsExt

CONSTANTS NProcs,     \* the processes that the system has room for
          Lines,      \* the lines the user may type
          MaxLines,   \* how many of them
          OpenMax,    \* descriptors of a process (RLIMIT_NOFILE)
          Garbage     \* what cur_pipe may hold when nothing is written to it

Tokens == {"word", "bar"}

\* A line is empty, begins with a space, or begins with a word.
ASSUME LinesAssumption ==
  \A line \in Lines : /\ line.space \in BOOLEAN /\ line.tokens \in Seq(Tokens)
                      /\ line.space \/ line.tokens # <<>>
ASSUME BoundsAssumption ==
  /\ NProcs \in Nat \ {0} /\ MaxLines \in Nat /\ OpenMax \in Nat /\ OpenMax >= 3
  /\ Garbage \subseteq Int \X Int

VARIABLES proc,   \* the processes
          typed   \* lines read from the terminal

vars == <<proc, typed>>

Procs   == 1..NProcs
First   == 1    \* the shell that the user has started
Orphan  == 0    \* the parent of a process that has lost its own
Fds     == 0..(OpenMax - 1)
NoFd    == -1
PipeIds == 1..(NProcs * OpenMax + 1)

\* What a descriptor stands for.
Terminal == <<"terminal", 0>>
Nothing  == <<"nothing", 0>>
ReadEnd(i)  == <<"read", i>>
WriteEnd(i) == <<"write", i>>
Objects == {Terminal, Nothing} \cup {ReadEnd(i) : i \in PipeIds}
                               \cup {WriteEnd(i) : i \in PipeIds}

PCs == {"none", "wait", "prompt", "read", "loop", "piped", "fork", "child", "command",
        "zombie"}

-----------------------------------------------------------------------------
(* rebuild_cmd: the words in the order of the array, "null" for a bar that *)
(* follows a space.  What stands at the beginning of the line is a word.   *)

Words(line) ==
  LET word(t) == IF t = "bar" THEN "null" ELSE "word"
      typedWords == [i \in 1..Len(line.tokens) |-> word(line.tokens[i])]
  IN  IF line.space THEN <<"empty">> \o typedWords
                    ELSE <<"word">> \o Tail(typedWords)

\* The empty word before a leading space is subtracted from a count without it.
NWordsTwiceLess(line) == Len(line.tokens) - (IF line.space THEN 1 ELSE 0)
NWords(line) == Len(line.tokens)

\* The words of the first command.
FirstLen(line) == Min({i \in 1..Len(Words(line)) : Words(line)[i] = "null"}
                         \cup {Len(Words(line)) + 1}) - 1

-----------------------------------------------------------------------------
(* Processes.                                                              *)

NoProcess == [pc |-> "none", parent |-> Orphan, fd |-> [f \in Fds |-> Nothing],
              errno |-> "0", n_words |-> 0, length |-> 0, exists |-> FALSE,
              dest_offset |-> 0, read_fd_prev |-> NoFd, cur_pipe |-> <<NoFd, NoFd>>]

Init == /\ proc = [p \in Procs |->
                     IF p = First
                     THEN [NoProcess EXCEPT !.pc = "wait",
                                            !.fd = [f \in Fds |-> IF f < 3 THEN Terminal
                                                                           ELSE Nothing]]
                     ELSE NoProcess]
        /\ typed = 0

Living(p)   == proc[p].pc \notin {"none", "zombie"}
Children(p) == {q \in Procs : proc[q].pc # "none" /\ proc[q].parent = p}

\* A process that ends waits for its parent's wait(); its own children, living or
\* not, go to init.
AfterDeath(p, q) ==
  CASE q = p /\ proc[p].parent = Orphan              -> NoProcess
    [] q = p /\ proc[p].parent # Orphan              ->
         [NoProcess EXCEPT !.pc = "zombie", !.parent = proc[p].parent]
    [] q \in Children(p) /\ proc[q].pc = "zombie"    -> NoProcess
    [] q \in Children(p) /\ proc[q].pc # "zombie"    -> [proc[q] EXCEPT !.parent = Orphan]
    [] OTHER                                         -> proc[q]

Die(p) == proc' = [q \in Procs |-> AfterDeath(p, q)] /\ UNCHANGED typed

-----------------------------------------------------------------------------
(* Descriptors.                                                            *)

Free(fd) == {f \in Fds : fd[f] = Nothing}

Close(fd, f) == IF f \in Fds THEN [fd EXCEPT ![f] = Nothing] ELSE fd

\* dup: the lowest free descriptor, if the old one is open.
Dup(fd, f) == IF f \in Fds /\ fd[f] # Nothing /\ Free(fd) # {}
              THEN [fd EXCEPT ![Min(Free(fd))] = fd[f]]
              ELSE fd

HasReader(i) == \E p \in Procs, f \in Fds : proc[p].fd[f] = ReadEnd(i)
InUse(i) == HasReader(i) \/ \E p \in Procs, f \in Fds : proc[p].fd[f] = WriteEnd(i)

\* A descriptor to which a write is the end of the process, by SIGPIPE.
Broken(object) == object[1] = "write" /\ ~ HasReader(object[2])

-----------------------------------------------------------------------------
(* The shell.                                                              *)

\* wait() until there is no child.
Reap(p) == /\ proc[p].pc = "wait" /\ proc[p].errno # "ECHILD"
           /\ \E q \in Children(p) : /\ proc[q].pc = "zombie"
                                     /\ proc' = [proc EXCEPT ![q] = NoProcess]
           /\ UNCHANGED typed

NoChild(p) == /\ proc[p].pc = "wait" /\ proc[p].errno # "ECHILD"
              /\ Children(p) = {}
              /\ proc' = [proc EXCEPT ![p].errno = "ECHILD"]
              /\ UNCHANGED typed

\* A shell that keeps errno and does not wait a second time.
WaitedKeep(p) == /\ proc[p].pc = "wait" /\ proc[p].errno = "ECHILD"
                 /\ proc' = [proc EXCEPT ![p].pc = "prompt"]
                 /\ UNCHANGED typed
Waited(p) == /\ proc[p].pc = "wait" /\ proc[p].errno = "ECHILD"
             /\ proc' = [proc EXCEPT ![p] = [@ EXCEPT !.pc = "prompt", !.errno = "0"]]
             /\ UNCHANGED typed

Prompt(p) == /\ proc[p].pc = "prompt"
             /\ IF Broken(proc[p].fd[1])
                THEN Die(p)
                ELSE /\ proc' = [proc EXCEPT ![p].pc = "read"]
                     /\ UNCHANGED typed

\* cur_pipe of a new line has any contents: descriptors or not.
ReadLine(p) ==
  /\ proc[p].pc = "read" /\ proc[p].fd[0] = Terminal /\ typed < MaxLines
  /\ \E line \in Lines, exists \in BOOLEAN, garbage \in Garbage :
       /\ exists => Words(line)[1] # "empty"
       /\ proc' = [proc EXCEPT ![p] =
                     [@ EXCEPT !.pc = "loop", !.n_words = NWords(line),
                               !.length = FirstLen(line), !.exists = exists,
                               !.dest_offset = 0, !.read_fd_prev = NoFd,
                               !.cur_pipe = garbage]]
  /\ typed' = typed + 1

\* A shell that does not notice the end of the input.
LeaveNever(p) == proc[p].pc = "read" /\ proc[p].fd[0] # Terminal /\ Die(p)
\* "exit", the end of the input, a line that is too long; read() fails when
\* descriptor 0 is not the terminal.
Leave(p) == proc[p].pc = "read" /\ Die(p)

\* pipe(): two new descriptors, the numbers of which are in cur_pipe.
Piped(me) ==
  LET r == Min(Free(me.fd))
      w == Min(Free(me.fd) \ {r})
      i == Min({j \in PipeIds : ~ InUse(j)})
  IN  [me EXCEPT !.pc = "piped", !.cur_pipe = <<r, w>>,
                 !.fd = [@ EXCEPT ![r] = ReadEnd(i), ![w] = WriteEnd(i)]]

\* The top of the loop.
Iterate(p) ==
  LET next == [proc[p] EXCEPT !.pc = "fork", !.dest_offset = @ + proc[p].length + 1]
  IN  /\ proc[p].pc = "loop" /\ proc[p].dest_offset < proc[p].n_words
      /\ \/ /\ next.dest_offset >= next.n_words
            /\ proc' = [proc EXCEPT ![p] = next]
            /\ UNCHANGED typed
         \/ /\ next.dest_offset < next.n_words
            /\ Cardinality(Free(next.fd)) >= 2
            /\ proc' = [proc EXCEPT ![p] = Piped(next)]
            /\ UNCHANGED typed
         \/ /\ next.dest_offset < next.n_words
            /\ Cardinality(Free(next.fd)) < 2
            /\ Die(p)

\* The close of the read end is meant for the first command only, but source_offset
\* is always 0.
CloseRead(p) ==
  LET me == proc[p]
  IN  /\ me.pc = "piped"
      /\ proc' = [proc EXCEPT ![p] =
                    [me EXCEPT !.pc = "fork", !.fd = Close(me.fd, me.cur_pipe[1])]]
      /\ UNCHANGED typed

EndLoop(p) == /\ proc[p].pc = "loop" /\ proc[p].dest_offset >= proc[p].n_words
              /\ proc' = [proc EXCEPT ![p].pc = "wait"]
              /\ UNCHANGED typed

\* A parent that closes whatever number is in cur_pipe.
AfterForkAny(me) ==
  [me EXCEPT !.pc = "loop", !.read_fd_prev = me.cur_pipe[1],
             !.fd = Close(Close(me.fd, me.read_fd_prev), me.cur_pipe[2])]
\* What the parent does when fork() has returned, also when it has failed.
AfterFork(me) ==
  LET closed == IF me.read_fd_prev # NoFd THEN Close(me.fd, me.read_fd_prev) ELSE me.fd
  IN  [me EXCEPT !.pc = "loop", !.read_fd_prev = me.cur_pipe[1],
                 !.fd = IF me.cur_pipe[2] # 0 THEN Close(closed, me.cur_pipe[2])
                                              ELSE closed]

Fork(p) ==
  /\ proc[p].pc = "fork"
  /\ LET room == {q \in Procs \ {First} : proc[q].pc = "none"}
         child == [proc[p] EXCEPT !.pc = "child", !.parent = p]
     IN  \/ room # {}
            /\ proc' = [proc EXCEPT ![p] = AfterFork(proc[p]), ![Min(room)] = child]
         \/ proc' = [proc EXCEPT ![p] = AfterFork(proc[p])]
  /\ UNCHANGED typed

-----------------------------------------------------------------------------
(* The child.                                                              *)

\* The descriptors of the last command of a line, of one before the last, and
\* of the last one when the line ends with a bar.
Plumbing(me) ==
  CASE me.dest_offset > me.n_words -> me.fd
    [] me.dest_offset < me.n_words -> Dup(Close(me.fd, 1), me.cur_pipe[2])
    [] OTHER ->
         LET in  == Dup(Close(me.fd, 0), me.read_fd_prev)
             out == Dup(Close(in, 1), me.cur_pipe[2])
         IN  Close(out, me.cur_pipe[1])

Exec(q) ==
  LET me == proc[q]
  IN  /\ me.pc = "child"
      /\ proc' = [proc EXCEPT ![q] =
           IF me.exists
           THEN [NoProcess EXCEPT !.pc = "command", !.parent = me.parent,
                                  !.fd = Plumbing(me)]
           ELSE [me EXCEPT !.pc = "loop", !.errno = "ENOENT", !.fd = Plumbing(me)]]
      /\ UNCHANGED typed

\* A command may take lines from the terminal; it comes to its end.
CommandReads(q) == /\ proc[q].pc = "command" /\ proc[q].fd[0] = Terminal
                   /\ typed < MaxLines /\ typed' = typed + 1
                   /\ UNCHANGED proc

CommandEnds(q) == proc[q].pc = "command" /\ Die(q)

Step(p) == \/ Reap(p) \/ NoChild(p) \/ Waited(p) \/ Prompt(p) \/ ReadLine(p)
           \/ Leave(p) \/ Iterate(p) \/ CloseRead(p) \/ EndLoop(p) \/ Fork(p)
           \/ Exec(p) \/ CommandReads(p) \/ CommandEnds(p)

\* The terminal sends SIGINT to everybody: flagHandler, or the death of a command.
Interrupt == /\ \E p \in Procs : Living(p)
             /\ proc' = [p \in Procs |-> NoProcess]
             /\ UNCHANGED typed

Quiet == (\A p \in Procs : ~ Living(p)) /\ UNCHANGED vars

Next == (\E p \in Procs : Step(p)) \/ Interrupt \/ Quiet

Spec == Init /\ [][Next]_vars

\* Every process is run, and a command that has nobody to talk to ends.
FairSpec == Spec /\ \A p \in Procs : WF_vars(Step(p))

-----------------------------------------------------------------------------
(* Properties.                                                             *)

Process == [pc : PCs, parent : {Orphan} \cup Procs, fd : [Fds -> Objects],
            errno : {"0", "ECHILD", "ENOENT"}, n_words : Nat, length : Nat,
            exists : BOOLEAN, dest_offset : Nat, read_fd_prev : Int,
            cur_pipe : Int \X Int]

TypeOK == /\ typed \in 0..MaxLines
          /\ proc \in [Procs -> Process]
          /\ \A p \in Procs : proc[p].parent # p

\* A shell shows its prompt and reads when all its children have ended and are
\* waited for, in every line again and also in a shell that a failed execvp has
\* made: it never competes with its own children for the terminal.
PromptAfterChildren ==
  \A p \in Procs : proc[p].pc \in {"prompt", "read"} => Children(p) = {}

\* However many lines, pipes and failing forks there have been, the user's shell
\* keeps its standard input and has no other descriptor left open, although it
\* closes numbers twice and numbers that it was never given.
DescriptorsKept ==
  LET fd == proc[First].fd
  IN  proc[First].pc \in {"wait", "prompt", "read"}
         => fd[0] = Terminal /\ \A f \in Fds : f > 2 => fd[f] = Nothing

\* myshell/main.cpp, "Input fd of pipe where previous command will write output":
\* when a command other than the first is forked, read_fd_prev is the read end of
\* a pipe.
ReadFdPrevIsInput ==
  \A p \in Procs :
    LET me == proc[p]
    IN  me.pc = "fork" /\ me.read_fd_prev # NoFd
          => me.read_fd_prev \in Fds /\ \E i \in PipeIds : me.fd[me.read_fd_prev] = ReadEnd(i)

\* When the user has no more lines, all shells and commands end, the shells that
\* failed commands have left behind too.
AllEnd == <>[](\A p \in Procs : ~ Living(p))
=============================================================================
