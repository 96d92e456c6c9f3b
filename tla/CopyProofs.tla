----------------------------- MODULE CopyProofs -----------------------------
(***************************************************************************)
(* For any command lines, files and directories, and any number of changes *)
(* by others: the types, what the result 0 means, and that nothing is      *)
(* overwritten unasked when there is a flag, and that mycp has less to do  *)
(* after each of its steps.                                                *)
(*                                                                         *)
(* Files are inodes, so what others do to names cannot touch a file that   *)
(* mycp has opened.  The invariant follows the copy at hand block by block *)
(* and keeps, of each copy before it, that it is whole or that a later one *)
(* has written to its file.                                                *)
(***************************************************************************)
EXTENDS Copy, WellFoundedInduction, TLAPS

\* Min of a set of naturals, of which FiniteSetsExt gives the definition.
LEMMA MinOfNats ==
  ASSUME NEW S \in SUBSET Nat, S # {}
  PROVE  Min(S) \in S /\ \A y \in S : Min(S) <= y
<1>1. \E x \in S : \A y \in S : ~ (<<y, x>> \in OpToRel(<, Nat))
  BY NatLessThanWellFounded, WFMin
<1>2. OpToRel(<, Nat) = {ss \in Nat \X Nat : ss[1] < ss[2]}
  BY DEF OpToRel
<1>3. PICK x \in S : \A y \in S : ~ (<<y, x>> \in OpToRel(<, Nat))
  BY <1>1
<1>4. ASSUME NEW y \in S PROVE x <= y
  <2>1. <<y, x>> \in Nat \X Nat /\ ~ (<<y, x>> \in {ss \in Nat \X Nat : ss[1] < ss[2]})
    BY <1>2, <1>3
  <2>2. ~ (y < x)
    BY <2>1
  <2> QED
    BY <2>2
<1> QED
  BY <1>4 DEF Min

\* Sequences of one element, and of one element more.
LEMMA OneElement == ASSUME NEW T, NEW x \in T PROVE <<x>> \in Seq(T)
OBVIOUS

LEMMA OneElementMore ==
  ASSUME NEW T, NEW s \in Seq(T), NEW x \in T PROVE Append(s, x) \in Seq(T)
OBVIOUS

-----------------------------------------------------------------------------
(* The inductive invariant.                                                *)

Copies == [sourse : Inodes, was : Seq(STRING), dest : Inodes, made : BOOLEAN,
           short : BOOLEAN]

\* The command line, and the variables of the program.
Program ==
  /\ cmd \in Commands /\ pc \in PCs /\ toDir \in BOOLEAN
  /\ errno \in Errors /\ ind \in 1..Len(cmd.sources)
  /\ {sourse, dest} \subseteq Inodes \cup {None} /\ n_read \in Nat
  /\ newline \in BOOLEAN /\ exit \in Errors \cup {"none"}
  /\ pc # "done" => exit = "none"

\* The disk: names lead to files that there are, and a name has had no more files
\* than others have changed something, but for the one that it leads to.
Disk ==
  /\ env \in 0..EnvMax
  /\ fs \in [Names -> Inodes \cup {None}]
  /\ DOMAIN data \subseteq Inodes
  /\ data \in [DOMAIN data -> Seq(STRING)]
  /\ \A name \in Names : fs[name] # None => fs[name] \in DOMAIN data
  /\ \A name \in Names, k \in 1..(EnvMax + 4) :
        <<name, k>> \in DOMAIN data => k <= (IF fs[name] = None THEN env ELSE env + 1)

\* The history of copies, of files that there are.
History ==
  /\ opened \in Seq(Copies)
  /\ \A j \in 1..Len(opened) : {opened[j].sourse, opened[j].dest} \subseteq DOMAIN data
  /\ pc \in {"start", "open", "access", "ask", "truncate", "create"} =>
       Len(opened) = ind - 1
  /\ pc = "read" => Len(opened) = ind

\* What a copy leaves in its file.
Outcome(copy) == IF copy.sourse = copy.dest THEN <<>> ELSE copy.was

\* The jth copy is whole, or its file has been written to since.
Copied(j) ==
  \/ opened[j].short
  \/ \E l \in (j + 1)..Len(opened) : opened[l].dest = opened[j].dest
  \/ data[opened[j].dest] = Outcome(opened[j])

AllCopied == \A j \in 1..Len(opened) :
                j < Len(opened) \/ pc \notin {"read", "done"} \/ exit = "0" => Copied(j)

\* The copy at hand: its source is open, and the blocks read so far are written.
AtHand ==
  /\ pc \in {"access", "ask", "truncate", "create"} => sourse \in DOMAIN data /\ n_read = 0
  /\ pc = "read" =>
       /\ opened[ind].sourse = sourse /\ opened[ind].dest = dest
       /\ data[sourse] = Outcome(opened[ind])
       /\ n_read \in 0..Len(data[sourse])
       /\ opened[ind].short \/ data[dest] = SubSeq(data[sourse], 1, n_read)

\* The user has been asked, or the file is new.
Agreed ==
  Interactive => /\ pc = "truncate" => <<ind, "y">> \in said
                 /\ pc = "read" => <<ind, "y">> \in said \/ opened[ind].made

\* The result 0 is given at the end of the command line, or after a "no".
Zero == exit = "0" => Len(opened) = Len(cmd.sources) \/ <<Len(opened) + 1, "n">> \in said

IInv == Program /\ Disk /\ History /\ AllCopied /\ AtHand /\ Agreed /\ Zero

-----------------------------------------------------------------------------
(* Files.                                                                  *)

\* There is a number for a new file, the next but one at most.
LEMMA NewInodeFacts ==
  ASSUME Disk, NEW name \in Names
  PROVE  \E k \in 1..(EnvMax + 4) :
            /\ NewInode(name) = <<name, k>> /\ NewInode(name) \in Inodes
            /\ NewInode(name) \notin DOMAIN data
            /\ fs[name] = None => k <= env + 1
<1> DEFINE S == {k \in 1..(EnvMax + 4) : <<name, k>> \notin DOMAIN data}
<1>1. EnvMax \in Nat /\ env \in 0..EnvMax
  BY BoundsAssumption DEF Disk
<1>2. env + 2 \in S /\ (fs[name] = None => env + 1 \in S)
  <2>1. \A k \in 1..(EnvMax + 4) : <<name, k>> \in DOMAIN data =>
           k <= (IF fs[name] = None THEN env ELSE env + 1)
    BY DEF Disk
  <2>2. env + 1 \in 1..(EnvMax + 4) /\ env + 2 \in 1..(EnvMax + 4)
    BY <1>1
  <2>3. ~ (env + 2 <= env + 1) /\ ~ (env + 2 <= env) /\ ~ (env + 1 <= env)
    BY <1>1
  <2> QED
    BY <2>1, <2>2, <2>3
<1>3. S \in SUBSET Nat /\ S \subseteq 1..(EnvMax + 4)
  BY <1>1
<1>4. NewInode(name) = <<name, Min(S)>>
  BY DEF NewInode
<1>5. <<name, Min(S)>> \notin DOMAIN data
  <2>1. Min(S) \in S
    <3> HIDE DEF S
    <3> QED
      BY <1>2, <1>3, MinOfNats
  <2> QED
    BY <2>1
<1> HIDE DEF S
<1>6. Min(S) \in S /\ \A y \in S : Min(S) <= y
  BY <1>2, <1>3, MinOfNats
<1>7. Min(S) \in 1..(EnvMax + 4) /\ (fs[name] = None => Min(S) <= env + 1)
  BY <1>2, <1>3, <1>6
<1>8. <<name, Min(S)>> \in Inodes
  BY <1>1, <1>7 DEF Inodes
<1> QED
  BY <1>4, <1>5, <1>7, <1>8

\* A file more, and the others as they were.
LEMMA WithFileFacts ==
  ASSUME Disk, NEW i \in Inodes, i \notin DOMAIN data, NEW contents \in Seq(STRING),
         data' = WithFile(i, contents)
  PROVE  /\ DOMAIN data' = DOMAIN data \cup {i} /\ data'[i] = contents
         /\ \A j \in DOMAIN data : data'[j] = data[j]
         /\ data' \in [DOMAIN data' -> Seq(STRING)] /\ DOMAIN data' \subseteq Inodes
BY DEF Disk, WithFile

\* A new file for a name that has none.
LEMMA NewFileDisk ==
  ASSUME Disk, NEW name \in Names, fs[name] = None, NEW contents \in Seq(STRING),
         fs' = [fs EXCEPT ![name] = NewInode(name)],
         data' = WithFile(NewInode(name), contents),
         env' \in env..EnvMax
  PROVE  /\ Disk'
         /\ NewInode(name) \in Inodes /\ NewInode(name) \notin DOMAIN data
         /\ DOMAIN data' = DOMAIN data \cup {NewInode(name)}
         /\ data'[NewInode(name)] = contents
         /\ \A j \in DOMAIN data : data'[j] = data[j]
<1> DEFINE i == NewInode(name)
<1>1. PICK k \in 1..(EnvMax + 4) : i = <<name, k>> /\ i \in Inodes /\ i \notin DOMAIN data
                                   /\ k <= env + 1
  BY NewInodeFacts
<1>2. /\ DOMAIN data' = DOMAIN data \cup {i} /\ data'[i] = contents
      /\ \A j \in DOMAIN data : data'[j] = data[j]
      /\ data' \in [DOMAIN data' -> Seq(STRING)] /\ DOMAIN data' \subseteq Inodes
  <2> HIDE DEF i
  <2>1. data' = WithFile(i, contents)
    BY DEF i
  <2> QED
    BY <1>1, <2>1, WithFileFacts
<1>3. fs \in [Names -> Inodes \cup {None}] /\ fs' = [fs EXCEPT ![name] = i]
  BY DEF Disk
<1> HIDE DEF i
<1>4. fs' \in [Names -> Inodes \cup {None}] /\ fs'[name] = i
      /\ \A m \in Names \ {name} : fs'[m] = fs[m]
  BY <1>1, <1>3
<1>5. \A m \in Names : fs'[m] # None => fs'[m] \in DOMAIN data'
  BY <1>2, <1>4 DEF Disk
<1>6. env \in Nat /\ EnvMax \in Nat /\ env' \in 0..EnvMax /\ env <= env'
  BY BoundsAssumption DEF Disk
<1>7. ASSUME NEW m \in Names, NEW l \in 1..(EnvMax + 4), <<m, l>> \in DOMAIN data'
      PROVE  l <= (IF fs'[m] = None THEN env' ELSE env' + 1)
  <2>1. l \in Nat /\ i # None /\ fs'[name] # None
    BY <1>1, <1>4 DEF None
  <2>2. fs'[m] = None => l <= env
    <3>1. ASSUME fs'[m] = None PROVE l <= env
      <4>1. m # name /\ fs[m] = None
        BY <1>4, <2>1, <3>1
      <4>2. <<m, l>> \in DOMAIN data
        BY <1>1, <1>2, <1>7, <4>1
      <4> QED
        BY <4>1, <4>2 DEF Disk
    <3> QED
      BY <3>1
  <2>3. l <= env + 1
    <3>1. CASE <<m, l>> = i
      BY <1>1, <3>1
    <3>2. CASE <<m, l>> # i
      <4>1. <<m, l>> \in DOMAIN data
        BY <1>2, <1>7, <3>2
      <4>2. l <= (IF fs[m] = None THEN env ELSE env + 1)
        BY <4>1 DEF Disk
      <4> QED
        BY <1>6, <2>1, <4>2
    <3> QED
      BY <3>1, <3>2
  <2>4. CASE fs'[m] = None
    <3>1. env \in Nat /\ env' \in Nat /\ env <= env' /\ l \in Nat /\ l <= env
      BY <1>6, <2>1, <2>2, <2>4
    <3>2. l <= env'
      BY <3>1
    <3> QED
      BY <2>4, <3>2
  <2>5. CASE fs'[m] # None
    <3>1. env \in Nat /\ env' \in Nat /\ env <= env' /\ l \in Nat /\ l <= env + 1
      BY <1>6, <2>1, <2>3
    <3>2. \A a, b \in Nat : a <= b /\ l <= a + 1 => l <= b + 1
      BY <3>1
    <3>3. l <= env' + 1
      BY <3>1, <3>2
    <3> QED
      BY <2>5, <3>3
  <2> QED
    BY <2>4, <2>5
<1>8. Disk'
  BY <1>2, <1>4, <1>5, <1>6, <1>7 DEF Disk
<1> QED
  BY <1>1, <1>2, <1>8 DEF i

-----------------------------------------------------------------------------
(* The invariant holds in the beginning and after every step.              *)

\* A copy that was whole is whole as long as nobody writes to its file, and
\* when it is mycp that does, the last copy is to that file.
LEMMA CopiesStay ==
  ASSUME History, NEW j \in 1..Len(opened), Copied(j),
         opened' \in Seq(Copies), Len(opened) <= Len(opened'),
         \A l \in 1..Len(opened) : /\ opened'[l].sourse = opened[l].sourse
                                   /\ opened'[l].was = opened[l].was
                                   /\ opened'[l].dest = opened[l].dest
                                   /\ opened[l].short => opened'[l].short,
         \A f \in DOMAIN data : \/ data'[f] = data[f]
                                \/ j < Len(opened') /\ opened'[Len(opened')].dest = f
  PROVE  Copied(j)'
<1>1. Len(opened) \in Nat /\ Len(opened') \in Nat /\ j \in Nat /\ j <= Len(opened)
      /\ opened[j].dest \in DOMAIN data
  BY DEF History
<1>2. CASE opened[j].short
  BY <1>2 DEF Copied
<1>3. CASE \E l \in (j + 1)..Len(opened) : opened[l].dest = opened[j].dest
  <2>1. PICK l \in (j + 1)..Len(opened) : opened[l].dest = opened[j].dest
    BY <1>3
  <2>2. l \in 1..Len(opened) /\ l \in (j + 1)..Len(opened')
    BY <1>1, <2>1
  <2> QED
    BY <2>1, <2>2 DEF Copied
<1>4. CASE data[opened[j].dest] = Outcome(opened[j])
  <2>1. CASE data'[opened[j].dest] = data[opened[j].dest]
    <3>1. Outcome(opened'[j]) = Outcome(opened[j])
      BY DEF Outcome
    <3> QED
      BY <1>4, <2>1, <3>1 DEF Copied
  <2>2. CASE data'[opened[j].dest] # data[opened[j].dest]
    <3>1. j < Len(opened') /\ opened'[Len(opened')].dest = opened'[j].dest
      BY <1>1, <2>2
    <3>2. Len(opened') \in (j + 1)..Len(opened')
      BY <1>1, <3>1
    <3> QED
      BY <3>1, <3>2 DEF Copied
  <2> QED
    BY <2>1, <2>2
<1> QED
  BY <1>2, <1>3, <1>4 DEF Copied

\* Steps that leave the disk and the history as they are.
LEMMA NothingWritten ==
  ASSUME IInv, UNCHANGED <<cmd, disk, opened, env>>
  PROVE  /\ Disk' /\ opened' \in Seq(Copies)
         /\ \A j \in 1..Len(opened') : {opened'[j].sourse, opened'[j].dest} \subseteq DOMAIN data'
         /\ \A j \in 1..Len(opened) : Copied(j) => Copied(j)'
<1>1. Disk'
  BY DEF IInv, Disk, disk
<1>2. \A j \in 1..Len(opened) : Copied(j) => Copied(j)'
  BY DEF Copied, disk
<1> QED
  BY <1>1, <1>2 DEF IInv, History, disk

\* The names that mycp opens are names.
LEMMA NamesOfCommand ==
  ASSUME Program
  PROVE  /\ Source \in Names /\ DestName \in Names
         /\ Len(cmd.sources) \in Nat /\ ind \in Nat /\ 1 <= ind /\ ind <= Len(cmd.sources)
<1>1. cmd.sources \in Seq(Names) /\ cmd.target \in Names /\ ind \in 1..Len(cmd.sources)
  BY CommandAssumption DEF Program
<1>2. Source \in Names
  BY <1>1 DEF Source
<1>3. Entry[Source] \in Names
  BY <1>2, EntryAssumption
<1> QED
  BY <1>1, <1>2, <1>3 DEF DestName

LEMMA InitIInv == Init => IInv
<1> SUFFICES ASSUME Init PROVE IInv
  OBVIOUS
<1>1. /\ cmd \in Commands /\ pc = "start" /\ toDir = FALSE /\ errno = "0" /\ ind = 1
      /\ sourse = None /\ dest = None /\ n_read = 0
      /\ newline = FALSE /\ exit = "none" /\ opened = <<>> /\ said = {} /\ env = 0
  BY DEF Init
<1>2. cmd.sources \in Seq(Names) /\ cmd.sources # <<>>
  BY <1>1, CommandAssumption
<1>3. Program
  <2>1. 1 \in 1..Len(cmd.sources)
    BY <1>2
  <2> QED
    BY <1>1, <2>1 DEF Program, PCs, Errors
<1>4. Disk
  <2>1. PICK present \in SUBSET Names :
          /\ fs = [name \in Names |-> IF name \in present THEN <<name, 0>> ELSE None]
          /\ data = [i \in present \X {0} |-> Content[i[1]]]
    BY DEF Init
  <2>2. EnvMax \in Nat
    BY BoundsAssumption
  <2>3. DOMAIN data = present \X {0} /\ DOMAIN data \subseteq Inodes
    BY <2>1, <2>2 DEF Inodes
  <2>4. data \in [DOMAIN data -> Seq(STRING)]
    BY <2>1, ContentAssumption
  <2>5. fs \in [Names -> Inodes \cup {None}]
    BY <2>1, <2>2 DEF Inodes
  <2>6. \A name \in Names : fs[name] # None => fs[name] \in DOMAIN data
    BY <2>1, <2>3
  <2>7. \A name \in Names, k \in 1..(EnvMax + 4) : <<name, k>> \notin DOMAIN data
    BY <2>2, <2>3
  <2> QED
    BY <1>1, <2>2, <2>3, <2>4, <2>5, <2>6, <2>7 DEF Disk
<1>5. History
  BY <1>1 DEF History
<1> QED
  BY <1>1, <1>3, <1>4, <1>5 DEF IInv, AllCopied, AtHand, Agreed, Zero
LEMMA StartKeepsIInv == IInv /\ Start => IInv'
<1> SUFFICES ASSUME IInv, Start PROVE IInv'
  OBVIOUS
<1>1. UNCHANGED <<cmd, disk, opened, env>>
  BY DEF Start, files
<1>2. Program'
  BY NamesOfCommand DEF IInv, Program, Start, Goto, Exit, PCs, Errors, files, LeftByStat
<1>3. /\ Disk' /\ opened' \in Seq(Copies)
      /\ \A j \in 1..Len(opened') : {opened'[j].sourse, opened'[j].dest} \subseteq DOMAIN data'
      /\ \A j \in 1..Len(opened) : Copied(j) => Copied(j)'
  BY <1>1, NothingWritten
<1>4. History'
  BY <1>1, <1>3 DEF IInv, Program, History, Start, Goto, Exit, files
<1>5. AllCopied'
  BY <1>1, <1>3 DEF IInv, Program, AllCopied, History, Copied, disk, Start, Goto, Exit, files
<1>6. AtHand'
  BY <1>1 DEF IInv, AtHand, Disk, disk, Start, Goto, Exit, files
<1>7. Agreed'
  BY <1>1 DEF IInv, Agreed, Interactive, Start, Goto, Exit, files
<1>8. Zero'
  BY <1>1 DEF IInv, Program, History, Zero, Start, Goto, Exit, files
<1> QED
  BY <1>2, <1>3, <1>4, <1>5, <1>6, <1>7, <1>8 DEF IInv

LEMMA OpenKeepsIInv == IInv /\ Open => IInv'
<1> SUFFICES ASSUME IInv, Open PROVE IInv'
  OBVIOUS
<1>1. UNCHANGED <<cmd, disk, opened, env>>
  BY DEF Open, files
<1>2. fs[Source] # None => fs[Source] \in DOMAIN data /\ fs[Source] \in Inodes
  BY NamesOfCommand DEF IInv, Disk
<1>3. Program'
  BY <1>2 DEF IInv, Program, Open, Goto, Exit, PCs, Errors, files
<1>4. /\ Disk' /\ opened' \in Seq(Copies)
      /\ \A j \in 1..Len(opened') : {opened'[j].sourse, opened'[j].dest} \subseteq DOMAIN data'
      /\ \A j \in 1..Len(opened) : Copied(j) => Copied(j)'
  BY <1>1, NothingWritten
<1>5. History'
  BY <1>1, <1>4 DEF IInv, Program, History, Open, Goto, Exit, files
<1>6. AllCopied'
  BY <1>1, <1>4 DEF IInv, Program, AllCopied, History, Copied, disk, Open, Goto, Exit, files
<1>7. AtHand'
  BY <1>1, <1>2 DEF IInv, AtHand, Disk, disk, Open, Goto, Exit, files
<1>8. Agreed'
  BY <1>1 DEF IInv, Agreed, Interactive, Open, Goto, Exit, files
<1>9. Zero'
  BY <1>1 DEF IInv, Program, History, Zero, Open, Goto, Exit, files
<1> QED
  BY <1>3, <1>4, <1>5, <1>6, <1>7, <1>8, <1>9 DEF IInv

LEMMA AccessKeepsIInv == IInv /\ Access => IInv'
<1> SUFFICES ASSUME IInv, Access PROVE IInv'
  OBVIOUS
<1>1. UNCHANGED <<cmd, disk, opened, env>>
  BY DEF Access, files
<1>2. Program'
  BY NamesOfCommand DEF IInv, Program, Access, Goto, Exit, PCs, Errors, files
<1>3. /\ Disk' /\ opened' \in Seq(Copies)
      /\ \A j \in 1..Len(opened') : {opened'[j].sourse, opened'[j].dest} \subseteq DOMAIN data'
      /\ \A j \in 1..Len(opened) : Copied(j) => Copied(j)'
  BY <1>1, NothingWritten
<1>4. History'
  BY <1>1, <1>3 DEF IInv, Program, History, Access, Goto, Exit, files
<1>5. AllCopied'
  BY <1>1, <1>3 DEF IInv, Program, AllCopied, History, Copied, disk, Access, Goto, Exit, files
<1>6. AtHand'
  BY <1>1 DEF IInv, AtHand, Disk, disk, Access, Goto, Exit, files
<1>7. Agreed'
  BY <1>1 DEF IInv, Agreed, Interactive, Access, Goto, Exit, files
<1>8. Zero'
  BY <1>1 DEF IInv, Program, History, Zero, Access, Goto, Exit, files
<1> QED
  BY <1>2, <1>3, <1>4, <1>5, <1>6, <1>7, <1>8 DEF IInv

LEMMA AskKeepsIInv == IInv /\ Ask => IInv'
<1> SUFFICES ASSUME IInv, Ask PROVE IInv'
  OBVIOUS
<1>1. UNCHANGED <<cmd, disk, opened, env>>
  BY DEF Ask, files
<1>2. Program'
  BY NamesOfCommand DEF IInv, Program, Ask, Goto, Exit, PCs, Errors, files
<1>3. /\ Disk' /\ opened' \in Seq(Copies)
      /\ \A j \in 1..Len(opened') : {opened'[j].sourse, opened'[j].dest} \subseteq DOMAIN data'
      /\ \A j \in 1..Len(opened) : Copied(j) => Copied(j)'
  BY <1>1, NothingWritten
<1>4. History'
  BY <1>1, <1>3 DEF IInv, Program, History, Ask, Goto, Exit, files
<1>5. AllCopied'
  BY <1>1, <1>3 DEF IInv, Program, AllCopied, History, Copied, disk, Ask, Goto, Exit, files
<1>6. AtHand'
  BY <1>1 DEF IInv, AtHand, Disk, disk, Ask, Goto, Exit, files
<1>7. Agreed'
  BY <1>1 DEF IInv, Agreed, Interactive, Ask, Goto, Exit, files
<1>8. Zero'
  BY <1>1 DEF IInv, Program, History, Zero, Ask, Goto, Exit, files
<1> QED
  BY <1>2, <1>3, <1>4, <1>5, <1>6, <1>7, <1>8 DEF IInv

LEMMA ReadDirectoryKeepsIInv == IInv /\ ReadDirectory => IInv'
<1> SUFFICES ASSUME IInv, ReadDirectory PROVE IInv'
  OBVIOUS
<1>1. UNCHANGED <<cmd, disk, opened, env>>
  BY DEF ReadDirectory, files
<1>2. Program'
  BY NamesOfCommand DEF IInv, Program, ReadDirectory, Goto, Exit, PCs, Errors, files
<1>3. /\ Disk' /\ opened' \in Seq(Copies)
      /\ \A j \in 1..Len(opened') : {opened'[j].sourse, opened'[j].dest} \subseteq DOMAIN data'
      /\ \A j \in 1..Len(opened) : Copied(j) => Copied(j)'
  BY <1>1, NothingWritten
<1>4. History'
  BY <1>1, <1>3 DEF IInv, Program, History, ReadDirectory, Goto, Exit, files
<1>5. AllCopied'
  BY <1>1, <1>3 DEF IInv, Program, AllCopied, History, Copied, disk, ReadDirectory, Goto, Exit, files
<1>6. AtHand'
  BY <1>1 DEF IInv, AtHand, Disk, disk, ReadDirectory, Goto, Exit, files
<1>7. Agreed'
  BY <1>1 DEF IInv, Agreed, Interactive, ReadDirectory, Goto, Exit, files
<1>8. Zero'
  BY <1>1 DEF IInv, Program, History, Zero, ReadDirectory, Goto, Exit, files
<1> QED
  BY <1>2, <1>3, <1>4, <1>5, <1>6, <1>7, <1>8 DEF IInv

LEMMA EndOfFileKeepsIInv == IInv /\ EndOfFile => IInv'
<1> SUFFICES ASSUME IInv, EndOfFile PROVE IInv'
  OBVIOUS
<1>1. UNCHANGED <<cmd, disk, opened, env>>
  BY DEF EndOfFile, AtEnd, files
<1>2. Program'
  BY NamesOfCommand DEF IInv, Program, EndOfFile, Goto, Exit, PCs, Errors, files, AtEnd
<1>3. /\ Disk' /\ opened' \in Seq(Copies)
      /\ \A j \in 1..Len(opened') : {opened'[j].sourse, opened'[j].dest} \subseteq DOMAIN data'
      /\ \A j \in 1..Len(opened) : Copied(j) => Copied(j)'
  BY <1>1, NothingWritten
<1>4. History'
  BY <1>1, <1>3 DEF IInv, Program, History, EndOfFile, AtEnd, Goto, Exit, files
<1>5. AllCopied'
  <2>1. opened[ind].short \/ data[opened[ind].dest] = Outcome(opened[ind])
    <3>1. /\ opened[ind].sourse = sourse /\ opened[ind].dest = dest
          /\ data[sourse] = Outcome(opened[ind])
          /\ n_read \in 0..Len(data[sourse])
          /\ opened[ind].short \/ data[dest] = SubSeq(data[sourse], 1, n_read)
          /\ n_read >= Len(data[sourse])
      BY DEF IInv, AtHand, EndOfFile, AtEnd
    <3>2. data[sourse] \in Seq(STRING)
      <4>1. ind \in 1..Len(opened)
        BY NamesOfCommand DEF IInv, History, EndOfFile, AtEnd
      <4> QED
        BY <3>1, <4>1 DEF IInv, Disk, History
    <3>3. SubSeq(data[sourse], 1, n_read) = data[sourse]
      BY <3>1, <3>2
    <3> QED
      BY <3>1, <3>3
  <2>2. Copied(ind) /\ Len(opened) = ind /\ ind \in Nat
    BY <2>1, NamesOfCommand DEF Copied, IInv, History, EndOfFile, AtEnd
  <2>3. \A j \in 1..Len(opened) : Copied(j)
    BY <2>2 DEF IInv, AllCopied
  <2> QED
    BY <1>1, <1>3, <2>3 DEF AllCopied
<1>6. AtHand'
  BY <1>1 DEF IInv, AtHand, Disk, disk, EndOfFile, AtEnd, Goto, Exit, files
<1>7. Agreed'
  BY <1>1 DEF IInv, Agreed, Interactive, EndOfFile, AtEnd, Goto, Exit, files
<1>8. Zero'
  BY <1>1 DEF IInv, Program, History, Zero, EndOfFile, AtEnd, Goto, Exit, files
<1> QED
  BY <1>2, <1>3, <1>4, <1>5, <1>6, <1>7, <1>8 DEF IInv

LEMMA CopyFailsKeepsIInv == IInv /\ CopyFails => IInv'
<1> SUFFICES ASSUME IInv, CopyFails PROVE IInv'
  OBVIOUS
<1>1. UNCHANGED <<cmd, disk, opened, env>>
  BY DEF CopyFails, files
<1>2. Program'
  BY NamesOfCommand DEF IInv, Program, CopyFails, Goto, Exit, PCs, Errors, files
<1>3. /\ Disk' /\ opened' \in Seq(Copies)
      /\ \A j \in 1..Len(opened') : {opened'[j].sourse, opened'[j].dest} \subseteq DOMAIN data'
      /\ \A j \in 1..Len(opened) : Copied(j) => Copied(j)'
  BY <1>1, NothingWritten
<1>4. History'
  BY <1>1, <1>3 DEF IInv, Program, History, CopyFails, Goto, Exit, files
<1>5. AllCopied'
  BY <1>1, <1>3 DEF IInv, Program, AllCopied, History, Copied, disk, CopyFails, Goto, Exit, files
<1>6. AtHand'
  BY <1>1 DEF IInv, AtHand, Disk, disk, CopyFails, Goto, Exit, files
<1>7. Agreed'
  BY <1>1 DEF IInv, Agreed, Interactive, CopyFails, Goto, Exit, files
<1>8. Zero'
  BY <1>1 DEF IInv, Program, History, Zero, CopyFails, Goto, Exit, files
<1> QED
  BY <1>2, <1>3, <1>4, <1>5, <1>6, <1>7, <1>8 DEF IInv

\* A copy begins, to an empty file.
LEMMA CopyBegins ==
  ASSUME IInv, pc \in {"truncate", "create"}, NEW i, NEW made \in BOOLEAN, Begin(i, made),
         UNCHANGED <<cmd, ind, sourse, n_read, said>>, Disk',
         DOMAIN data \subseteq DOMAIN data', i \in DOMAIN data', data'[i] = <<>>,
         \A f \in DOMAIN data : f # i => data'[f] = data[f],
         Interactive => pc = "truncate" \/ made
  PROVE  History' /\ AllCopied' /\ AtHand' /\ Agreed' /\ Zero'
<1> DEFINE copy == [sourse |-> sourse, was |-> data[sourse], dest |-> i, made |-> made,
                     short |-> FALSE]
<1>1. /\ pc' = "read" /\ exit' = exit /\ exit = "none" /\ dest' = i
      /\ opened' = Append(opened, copy)
  BY DEF Begin, Goto, IInv, Program
<1>2. sourse \in DOMAIN data /\ n_read = 0 /\ sourse \in DOMAIN data'
  BY DEF IInv, AtHand
<1>3. copy \in Copies
  <2>1. data[sourse] \in Seq(STRING) /\ sourse \in Inodes /\ i \in Inodes
    BY <1>2 DEF IInv, Disk
  <2> QED
    BY <2>1 DEF Copies
<1>4. opened \in Seq(Copies) /\ Len(opened) = ind - 1 /\ ind \in Nat /\ 1 <= ind
      /\ \A j \in 1..Len(opened) : {opened[j].sourse, opened[j].dest} \subseteq DOMAIN data
  BY NamesOfCommand DEF IInv, History
<1>5. opened' \in Seq(Copies) /\ Len(opened') = ind /\ opened'[ind] = copy
      /\ \A j \in 1..Len(opened) : opened'[j] = opened[j]
  <2> HIDE DEF copy
  <2> QED
    BY <1>1, <1>3, <1>4
<1>6. /\ copy.sourse = sourse /\ copy.dest = i /\ copy.made = made
      /\ Outcome(copy) = IF sourse = i THEN <<>> ELSE data[sourse]
  BY DEF Outcome
<1> HIDE DEF copy
<1>7. \A j \in 1..Len(opened') : j = ind \/ j \in 1..Len(opened)
  BY <1>4, <1>5
<1>8. History'
  <2>1. \A j \in 1..Len(opened') : {opened'[j].sourse, opened'[j].dest} \subseteq DOMAIN data'
    <3>1. ASSUME NEW j \in 1..Len(opened'), j = ind
          PROVE {opened'[j].sourse, opened'[j].dest} \subseteq DOMAIN data'
      BY <1>2, <1>5, <1>6, <3>1
    <3>2. ASSUME NEW j \in 1..Len(opened)
          PROVE {opened'[j].sourse, opened'[j].dest} \subseteq DOMAIN data'
      BY <1>4, <1>5
    <3> QED
      BY <1>7, <3>1, <3>2
  <2> QED
    BY <1>1, <1>5, <2>1 DEF History
<1>9. AllCopied'
  <2>1. ASSUME NEW j \in 1..Len(opened) PROVE Copied(j)'
    <3>1. Copied(j) /\ j < Len(opened')
      BY <1>4, <1>5 DEF IInv, AllCopied
    <3>2. opened'[Len(opened')].dest = i
      BY <1>5, <1>6
    <3>3. Len(opened) <= Len(opened')
      BY <1>4, <1>5
    <3> QED
      BY <1>5, <3>1, <3>2, <3>3, CopiesStay DEF IInv
  <2> QED
    BY <1>1, <1>4, <1>5, <1>7, <2>1 DEF AllCopied
<1>10. AtHand'
  <2>1. data'[sourse] \in Seq(STRING)
    BY <1>2 DEF Disk
  <2>2. 0 \in 0..Len(data'[sourse]) /\ SubSeq(data'[sourse], 1, 0) = <<>>
    BY <2>1
  <2>3. data'[sourse] = Outcome(opened'[ind])
    BY <1>2, <1>5, <1>6
  <2> QED
    BY <1>1, <1>2, <1>5, <1>6, <2>2, <2>3 DEF AtHand
<1>11. Agreed'
  BY <1>1, <1>5, <1>6 DEF IInv, Agreed, Interactive
<1> QED
  BY <1>1, <1>8, <1>9, <1>10, <1>11 DEF Zero

LEMMA TruncateKeepsIInv == IInv /\ Truncate => IInv'
<1> SUFFICES ASSUME IInv, Truncate PROVE IInv'
  OBVIOUS
<1>1. CASE UNCHANGED <<dest, data, opened>> /\ pc' = "done"
           /\ exit' \in {"ENOENT", "EISDIR", "EACCES"}
  <2>1. UNCHANGED <<cmd, disk, opened, env>>
    BY <1>1 DEF Truncate, disk
  <2>2. Program'
    BY <1>1 DEF IInv, Program, Truncate, PCs, Errors
  <2>3. /\ Disk' /\ opened' \in Seq(Copies)
        /\ \A j \in 1..Len(opened') : {opened'[j].sourse, opened'[j].dest} \subseteq DOMAIN data'
        /\ \A j \in 1..Len(opened) : Copied(j) => Copied(j)'
    BY <2>1, NothingWritten
  <2>4. History'
    BY <1>1, <2>3 DEF History
  <2>5. AllCopied'
    BY <1>1, <2>3 DEF IInv, AllCopied, Truncate
  <2> QED
    BY <1>1, <2>2, <2>3, <2>4, <2>5 DEF IInv, AtHand, Agreed, Zero
<1>2. CASE /\ fs[DestName] # None
           /\ data' = [data EXCEPT ![fs[DestName]] = <<>>]
           /\ Begin(fs[DestName], FALSE)
  <2> DEFINE i == fs[DestName]
  <2>1. pc = "truncate" /\ UNCHANGED <<cmd, toDir, errno, ind, sourse, n_read, newline, fs, said, env>>
    BY DEF Truncate
  <2>2. i \in DOMAIN data /\ i \in Inodes
    BY <1>2, NamesOfCommand DEF IInv, Disk
  <2> HIDE DEF i
  <2>3. data' = [data EXCEPT ![i] = <<>>] /\ Begin(i, FALSE)
    BY <1>2 DEF i
  <2>4. DOMAIN data' = DOMAIN data /\ data'[i] = <<>>
        /\ \A f \in DOMAIN data : f # i => data'[f] = data[f]
    BY <2>2, <2>3
  <2>5. Disk'
    <3>1. data' \in [DOMAIN data' -> Seq(STRING)]
      <4>1. <<>> \in Seq(STRING)
        OBVIOUS
      <4> QED
        BY <2>3, <2>4, <4>1 DEF IInv, Disk
    <3> QED
      BY <2>1, <2>4, <3>1 DEF IInv, Disk
  <2>6. Program'
    BY <2>1, <2>2, <2>3 DEF IInv, Program, Begin, Goto, PCs
  <2>7. History' /\ AllCopied' /\ AtHand' /\ Agreed' /\ Zero'
    BY <2>1, <2>2, <2>3, <2>4, <2>5, CopyBegins
  <2> QED
    BY <2>5, <2>6, <2>7 DEF IInv
<1> QED
  BY <1>1, <1>2 DEF Truncate, Exit

LEMMA CreateKeepsIInv == IInv /\ Create => IInv'
<1> SUFFICES ASSUME IInv, Create PROVE IInv'
  OBVIOUS
<1>1. CASE UNCHANGED <<dest, disk, opened>> /\ pc' = "done" /\ exit' \in {"EACCES", "EEXIST"}
  <2>1. UNCHANGED <<cmd, disk, opened, env>>
    BY <1>1 DEF Create
  <2>2. Program'
    BY <1>1 DEF IInv, Program, Create, PCs, Errors
  <2>3. /\ Disk' /\ opened' \in Seq(Copies)
        /\ \A j \in 1..Len(opened') : {opened'[j].sourse, opened'[j].dest} \subseteq DOMAIN data'
        /\ \A j \in 1..Len(opened) : Copied(j) => Copied(j)'
    BY <2>1, NothingWritten
  <2>4. History'
    BY <1>1, <2>3 DEF History
  <2>5. AllCopied'
    BY <1>1, <2>3 DEF IInv, AllCopied, Create
  <2> QED
    BY <1>1, <2>2, <2>3, <2>4, <2>5 DEF IInv, AtHand, Agreed, Zero
<1>2. CASE /\ fs[DestName] = None
           /\ fs' = [fs EXCEPT ![DestName] = NewInode(DestName)]
           /\ data' = WithFile(NewInode(DestName), <<>>)
           /\ Begin(NewInode(DestName), TRUE)
  <2>1. /\ pc = "create" /\ errno' = "0"
        /\ UNCHANGED <<cmd, toDir, ind, sourse, n_read, newline, said, env>>
    BY DEF Create
  <2>2. <<>> \in Seq(STRING) /\ env' \in env..EnvMax /\ DestName \in Names
    BY <2>1, NamesOfCommand, BoundsAssumption DEF IInv, Disk
  <2> DEFINE i == NewInode(DestName)
  <2>3. /\ Disk' /\ i \in Inodes /\ i \notin DOMAIN data
        /\ DOMAIN data' = DOMAIN data \cup {i} /\ data'[i] = <<>>
        /\ \A j \in DOMAIN data : data'[j] = data[j]
    BY <1>2, <2>2, NewFileDisk DEF IInv
  <2>4. Begin(i, TRUE)
    BY <1>2
  <2> HIDE DEF i
  <2>5. Program'
    BY <2>1, <2>3, <2>4 DEF IInv, Program, Begin, Goto, PCs, Errors
  <2>6. History' /\ AllCopied' /\ AtHand' /\ Agreed' /\ Zero'
    BY <2>1, <2>3, <2>4, CopyBegins
  <2> QED
    BY <2>3, <2>5, <2>6 DEF IInv
<1> QED
  BY <1>1, <1>2 DEF Create, Exit

\* A block more of the copy at hand.
LEMMA CopyBlockKeepsIInv == IInv /\ CopyBlock => IInv'
<1> SUFFICES ASSUME IInv, CopyBlock PROVE IInv'
  OBVIOUS
<1> DEFINE block == data[sourse][n_read + 1]
<1>1. /\ pc = "read" /\ pc' = "read" /\ n_read < Len(data[sourse]) /\ n_read' = n_read + 1
      /\ UNCHANGED <<cmd, toDir, errno, ind, sourse, dest, newline, exit, fs, said, env>>
      /\ exit = "none"
  BY DEF CopyBlock, IInv, Program
<1>2. /\ opened \in Seq(Copies) /\ Len(opened) = ind /\ ind \in Nat /\ ind \in 1..Len(opened)
      /\ opened[ind] \in Copies /\ opened[ind].sourse = sourse /\ opened[ind].dest = dest
      /\ \A j \in 1..Len(opened) : {opened[j].sourse, opened[j].dest} \subseteq DOMAIN data
  <2>1. opened \in Seq(Copies) /\ Len(opened) = ind /\ ind \in Nat /\ ind \in 1..Len(opened)
    BY <1>1, NamesOfCommand DEF IInv, History
  <2> QED
    BY <1>1, <2>1 DEF IInv, History, AtHand
<1>3. sourse \in DOMAIN data /\ dest \in DOMAIN data
  BY <1>2
<1>4. data[sourse] \in Seq(STRING) /\ data[dest] \in Seq(STRING)
      /\ n_read \in 0..Len(data[sourse])
  BY <1>1, <1>3 DEF IInv, Disk, AtHand
<1>5. sourse # dest
  <2>1. data[sourse] # <<>>
    BY <1>1, <1>4
  <2> QED
    BY <1>1, <2>1 DEF IInv, AtHand, Outcome
<1>6. block \in STRING /\ SubSeq(data[sourse], 1, n_read + 1) =
                           Append(SubSeq(data[sourse], 1, n_read), block)
  <2>1. n_read + 1 \in 1..Len(data[sourse])
    BY <1>1, <1>4
  <2> QED
    BY <1>4, <2>1
<1>7. \/ data' = [data EXCEPT ![dest] = Append(@, block)] /\ opened' = opened
      \/ /\ data' = [data EXCEPT ![dest] = Append(@, Cut)]
         /\ opened' = [opened EXCEPT ![Len(opened)].short = TRUE]
  BY DEF CopyBlock
<1> HIDE DEF block
<1>8. PICK b \in STRING : data' = [data EXCEPT ![dest] = Append(@, b)]
  BY <1>6, <1>7, ContentAssumption
<1>9. /\ DOMAIN data' = DOMAIN data
      /\ \A f \in DOMAIN data : f # dest => data'[f] = data[f]
      /\ data'[dest] = Append(data[dest], b)
      /\ data' \in [DOMAIN data' -> Seq(STRING)]
  <2>1. Append(data[dest], b) \in Seq(STRING)
    BY <1>4, OneElementMore
  <2> QED
    BY <1>3, <1>8, <2>1 DEF IInv, Disk
<1> DEFINE Same(l) == /\ opened'[l].sourse = opened[l].sourse
                      /\ opened'[l].was = opened[l].was
                      /\ opened'[l].dest = opened[l].dest
                      /\ opened'[l].made = opened[l].made
                      /\ opened[l].short => opened'[l].short
<1>10. /\ opened' \in Seq(Copies) /\ Len(opened') = Len(opened)
       /\ \A l \in 1..Len(opened) : Same(l)
  <2>1. CASE opened' = opened
    BY <1>2, <2>1
  <2>2. CASE opened' = [opened EXCEPT ![Len(opened)].short = TRUE]
    <3> DEFINE c == [opened[ind] EXCEPT !.short = TRUE]
    <3>1. opened' = [opened EXCEPT ![ind] = c]
      BY <1>2, <2>2
    <3>2. c \in Copies /\ c.sourse = opened[ind].sourse /\ c.dest = opened[ind].dest
          /\ c.was = opened[ind].was /\ c.made = opened[ind].made /\ c.short
      BY <1>2 DEF Copies
    <3> HIDE DEF c
    <3> QED
      BY <1>2, <3>1, <3>2
  <2> QED
    BY <1>7, <2>1, <2>2
<1>11. Program' /\ Same(ind) /\ Len(opened') = ind
  <2>1. Program'
    BY <1>1, <1>4 DEF IInv, Program
  <2>2. Len(opened') = ind
    BY <1>2, <1>10
  <2>3. Same(ind)
    <3> HIDE DEF Same
    <3> QED
      BY <1>2, <1>10
  <2> QED
    BY <2>1, <2>2, <2>3
<1>12. Disk'
  BY <1>1, <1>9 DEF IInv, Disk
<1>13. History'
  <2>1. ASSUME NEW j \in 1..Len(opened')
        PROVE  {opened'[j].sourse, opened'[j].dest} \subseteq DOMAIN data'
    <3>1. j \in 1..Len(opened)
      BY <1>10
    <3>2. Same(j)
      <4> HIDE DEF Same
      <4> QED
        BY <1>10, <3>1
    <3>3. {opened[j].sourse, opened[j].dest} \subseteq DOMAIN data
      BY <1>2, <3>1
    <3> QED
      BY <1>9, <3>2, <3>3
  <2> QED
    BY <1>1, <1>10, <1>11, <2>1 DEF History
<1>14. AllCopied'
  <2>1. ASSUME NEW j \in 1..Len(opened), j < Len(opened) PROVE Copied(j)'
    <3>1. Copied(j)
      BY <2>1 DEF IInv, AllCopied
    <3>2. j < Len(opened') /\ opened'[Len(opened')].dest = dest
          /\ Len(opened) <= Len(opened')
      BY <1>2, <1>11, <2>1
    <3> QED
      BY <1>9, <1>10, <3>1, <3>2, CopiesStay DEF IInv
  <2> QED
    BY <1>1, <1>10, <2>1 DEF AllCopied
<1>15. AtHand'
  <2>1. data'[sourse] = data[sourse]
    BY <1>3, <1>5, <1>9
  <2>2. n_read' \in 0..Len(data'[sourse])
    BY <1>1, <1>4, <2>1
  <2>3. opened'[ind].short \/ data'[dest] = SubSeq(data[sourse], 1, n_read')
    <3>1. CASE opened' = opened /\ data' = [data EXCEPT ![dest] = Append(@, block)]
      <4>1. opened[ind].short \/ data[dest] = SubSeq(data[sourse], 1, n_read)
        BY <1>1 DEF IInv, AtHand
      <4>2. data'[dest] = Append(data[dest], block)
        BY <1>3, <3>1
      <4> QED
        BY <1>1, <1>6, <3>1, <4>1, <4>2
    <3>2. CASE opened' = [opened EXCEPT ![Len(opened)].short = TRUE]
      BY <1>2, <3>2 DEF Copies
    <3> QED
      BY <1>7, <3>1, <3>2
  <2>4. data'[sourse] = Outcome(opened'[ind])
    <3>1. data[sourse] = Outcome(opened[ind])
      BY <1>1 DEF IInv, AtHand
    <3> QED
      BY <1>11, <2>1, <3>1 DEF Outcome
  <2> QED
    BY <1>1, <1>2, <1>11, <2>1, <2>2, <2>3, <2>4 DEF AtHand
<1>16. Agreed'
  BY <1>1, <1>2, <1>11 DEF IInv, Agreed, Interactive
<1> QED
  BY <1>1, <1>11, <1>12, <1>13, <1>14, <1>15, <1>16 DEF IInv, Zero

\* Others change names, and add files.
LEMMA OthersKeepIInv == IInv /\ Others => IInv'
<1> SUFFICES ASSUME IInv, Others PROVE IInv'
  OBVIOUS
<1>1. UNCHANGED <<cmd, pc, toDir, errno, ind, sourse, dest, n_read, newline, exit, opened, said>>
  BY DEF Others, files
<1>2. env \in Nat /\ EnvMax \in Nat /\ env' = env + 1 /\ env' \in env..EnvMax
  BY BoundsAssumption DEF IInv, Disk, Others
<1>3. PICK name \in Names \ Dirs :
         \/ /\ fs[name] # None
            /\ fs' = [fs EXCEPT ![name] = None]
            /\ UNCHANGED data
         \/ /\ fs[name] = None
            /\ fs' = [fs EXCEPT ![name] = NewInode(name)]
            /\ data' = WithFile(NewInode(name), <<Foreign>>)
  BY DEF Others
<1>4. Disk' /\ DOMAIN data \subseteq DOMAIN data' /\ \A f \in DOMAIN data : data'[f] = data[f]
  <2>1. CASE fs[name] # None /\ fs' = [fs EXCEPT ![name] = None] /\ UNCHANGED data
    <3>1. fs' \in [Names -> Inodes \cup {None}] /\ fs'[name] = None
          /\ \A m \in Names : m # name => fs'[m] = fs[m]
      BY <2>1 DEF IInv, Disk
    <3>2. \A m \in Names : fs'[m] # None => fs'[m] \in DOMAIN data'
      BY <2>1, <3>1 DEF IInv, Disk
    <3>3. ASSUME NEW m \in Names, NEW l \in 1..(EnvMax + 4), <<m, l>> \in DOMAIN data'
          PROVE  l <= (IF fs'[m] = None THEN env' ELSE env' + 1)
      <4>1. l <= (IF fs[m] = None THEN env ELSE env + 1)
        BY <2>1, <3>3 DEF IInv, Disk
      <4>2. l \in Nat
        BY <1>2
      <4>3. CASE m = name
        BY <1>2, <2>1, <3>1, <4>1, <4>2, <4>3
      <4>4. CASE m # name
        BY <1>2, <3>1, <4>1, <4>2, <4>4
      <4> QED
        BY <4>3, <4>4
    <3> QED
      BY <1>2, <2>1, <3>1, <3>2, <3>3 DEF IInv, Disk
  <2>2. CASE /\ fs[name] = None
             /\ fs' = [fs EXCEPT ![name] = NewInode(name)]
             /\ data' = WithFile(NewInode(name), <<Foreign>>)
    <3>1. <<Foreign>> \in Seq(STRING)
      BY ContentAssumption, OneElement
    <3> QED
      BY <1>2, <2>2, <3>1, NewFileDisk DEF IInv
  <2> QED
    BY <1>3, <2>1, <2>2
<1>5. Program'
  BY <1>1 DEF IInv, Program
<1>6. History'
  BY <1>1, <1>4 DEF IInv, History
<1>7. AllCopied'
  <2>1. ASSUME NEW j \in 1..Len(opened), Copied(j) PROVE Copied(j)'
    <3>1. opened' \in Seq(Copies) /\ Len(opened) <= Len(opened')
      BY <1>1 DEF IInv, History
    <3> QED
      BY <1>1, <1>4, <2>1, <3>1, CopiesStay DEF IInv
  <2> QED
    BY <1>1, <2>1 DEF IInv, AllCopied
<1>8. AtHand'
  <2>1. CASE pc \in {"access", "ask", "truncate", "create"}
    BY <1>1, <1>4, <2>1 DEF IInv, AtHand
  <2>2. CASE pc = "read"
    <3>1. sourse \in DOMAIN data /\ dest \in DOMAIN data
      <4>1. ind \in 1..Len(opened)
        BY <2>2, NamesOfCommand DEF IInv, History
      <4> QED
        BY <2>2, <4>1 DEF IInv, History, AtHand
    <3>2. data'[sourse] = data[sourse] /\ data'[dest] = data[dest]
      BY <1>4, <3>1
    <3> QED
      BY <1>1, <2>2, <3>2 DEF IInv, AtHand
  <2> QED
    BY <1>1, <2>1, <2>2 DEF AtHand
<1> QED
  BY <1>1, <1>4, <1>5, <1>6, <1>7, <1>8 DEF IInv, Agreed, Interactive, Zero

LEMMA StutterKeepsIInv == IInv /\ UNCHANGED vars => IInv'
<1> SUFFICES ASSUME IInv, UNCHANGED vars PROVE IInv'
  OBVIOUS
<1>1. UNCHANGED <<cmd, disk, opened, env>>
  BY DEF vars
<1>2. /\ Disk' /\ opened' \in Seq(Copies)
      /\ \A j \in 1..Len(opened') : {opened'[j].sourse, opened'[j].dest} \subseteq DOMAIN data'
      /\ \A j \in 1..Len(opened) : Copied(j) => Copied(j)'
  BY <1>1, NothingWritten
<1>3. AllCopied'
  BY <1>2 DEF IInv, AllCopied, vars
<1> QED
  BY <1>2, <1>3 DEF IInv, Program, History, AtHand, Agreed, Interactive, Zero, vars, files, disk

LEMMA NextKeepsIInv == IInv /\ [Next]_vars => IInv'
BY StartKeepsIInv, OpenKeepsIInv, AccessKeepsIInv, AskKeepsIInv, TruncateKeepsIInv,
   CreateKeepsIInv, CopyBlockKeepsIInv, ReadDirectoryKeepsIInv, EndOfFileKeepsIInv,
   CopyFailsKeepsIInv, OthersKeepIInv, StutterKeepsIInv DEF Next, Work, Quiet

-----------------------------------------------------------------------------
(* The theorems.                                                           *)

\* The invariant, of every behaviour.
THEOREM SpecIInv == Spec => []IInv
BY InitIInv, NextKeepsIInv, PTL DEF Spec

\* All variables keep their types, for any command lines, any files, and any number
\* of changes by others; the source that is being copied is one on the command line.
THEOREM TypeCorrect == Spec => []TypeOK
<1>1. IInv => TypeOK
  BY DEF IInv, Program, Disk, TypeOK
<1> QED
  BY <1>1, SpecIInv, PTL

\* The result 0 means that every target contains what its source did when the copy
\* was begun, whatever others do to the names meanwhile, but for the user's "no",
\* writes that were cut short, targets that a later source was copied to, and
\* files that were copied to themselves, which are empty.
THEOREM ZeroIsCopied == Spec => []ZeroMeansCopied
<1>1. IInv => ZeroMeansCopied
  BY DEF IInv, Zero, AllCopied, Copied, Outcome, ZeroMeansCopied
<1> QED
  BY <1>1, SpecIInv, PTL

\* With a flag no file is changed unless mycp has made it or the user has agreed,
\* also when the file has appeared after access() has found none.
THEOREM AsksFirst == Spec => AskedFirst
<1> DEFINE Asked == \A i \in DOMAIN data :
                       data'[i] # data[i] /\ Interactive =>
                          \/ <<ind, "y">> \in said
                          \/ \E j \in 1..Len(opened) : opened[j].dest = i /\ opened[j].made
<1>1. IInv /\ [Next]_vars => [Asked]_vars
  <2> SUFFICES ASSUME IInv, Next, NEW i \in DOMAIN data, data'[i] # data[i], Interactive
               PROVE  \/ <<ind, "y">> \in said
                      \/ \E j \in 1..Len(opened) : opened[j].dest = i /\ opened[j].made
    BY DEF vars
  <2>1. CASE Truncate
    BY <2>1 DEF IInv, Agreed, Truncate
  <2>2. CASE CopyBlock
    <3>1. i = dest
      BY <2>2 DEF CopyBlock
    <3>2. ind \in 1..Len(opened) /\ opened[ind].dest = dest
      BY <2>2, NamesOfCommand DEF IInv, History, AtHand, CopyBlock
    <3>3. <<ind, "y">> \in said \/ opened[ind].made
      BY <2>2 DEF IInv, Agreed, CopyBlock
    <3> QED
      BY <3>1, <3>2, <3>3
  <2>3. ASSUME NEW name \in Names, NEW contents \in Seq(STRING),
               data' = WithFile(NewInode(name), contents)
        PROVE  FALSE
    BY <2>3, NewInodeFacts, WithFileFacts DEF IInv
  <2>4. CASE Create
    <3>1. UNCHANGED data \/ data' = WithFile(NewInode(DestName), <<>>)
      BY <2>4 DEF Create, disk
    <3>2. DestName \in Names /\ <<>> \in Seq(STRING)
      BY NamesOfCommand DEF IInv
    <3> QED
      BY <2>3, <3>1, <3>2
  <2>5. CASE Others
    <3>1. UNCHANGED data \/ \E name \in Names : data' = WithFile(NewInode(name), <<Foreign>>)
      BY <2>5 DEF Others
    <3>2. <<Foreign>> \in Seq(STRING)
      BY ContentAssumption, OneElement
    <3> QED
      BY <2>3, <3>1, <3>2
  <2>6. CASE UNCHANGED data
    BY <2>6
  <2>7. Truncate \/ CopyBlock \/ Create \/ Others \/ UNCHANGED data
    BY DEF Next, Work, Start, Open, Access, Ask, ReadDirectory, EndOfFile, CopyFails,
           Quiet, disk, vars
  <2> QED
    BY <2>1, <2>2, <2>4, <2>5, <2>6, <2>7
<1>2. Spec => [][Asked]_vars
  BY <1>1, SpecIInv, PTL DEF Spec
<1> QED
  BY <1>2 DEF AskedFirst

-----------------------------------------------------------------------------
(* The way to the end.                                                     *)

\* The stages of one copy, in their order.
Place == [p \in PCs |-> CASE p = "start"                  -> 0
                          [] p = "open"                   -> 1
                          [] p = "access"                 -> 2
                          [] p = "ask"                    -> 3
                          [] p \in {"truncate", "create"} -> 4
                          [] p = "read"                   -> 5
                          [] p = "done"                   -> 6]

\* The blocks that are still to be copied.
Left == IF pc = "read" THEN Len(data[sourse]) - n_read ELSE 0

\* mycp never reads behind the end of its source.
Bounded == Left \in Nat

\* What is left to do is less after every step of mycp: it comes to a later stage
\* of the same copy, or to the next source of its command line, or has one block
\* less to copy; and what others do to the names leaves it as it is.
Forward ==
  /\ cmd' = cmd
  /\ \/ ind' = ind /\ Place[pc'] > Place[pc]
     \/ ind' = ind + 1 /\ ind' <= Len(cmd.sources) /\ pc = "read"
     \/ ind' = ind /\ pc = "read" /\ pc' = "read" /\ Left' = Left - 1
     \/ env' = env + 1 /\ UNCHANGED <<ind, pc, Left>>

\* The file at hand does not grow when a block of it is copied, which is why a copy
\* of a file to itself comes to an end: the file has been truncated before.
LEMMA CopyBlockForward == IInv /\ CopyBlock => Forward
<1> SUFFICES ASSUME IInv, CopyBlock PROVE Forward
  OBVIOUS
<1>1. /\ pc = "read" /\ pc' = "read" /\ n_read' = n_read + 1
      /\ UNCHANGED <<cmd, ind, sourse>>
  BY DEF CopyBlock
<1>2. sourse \in DOMAIN data /\ n_read \in Nat /\ n_read < Len(data[sourse])
  BY NamesOfCommand DEF IInv, History, AtHand, Program, CopyBlock
<1>3. data[sourse] \in Seq(STRING)
  BY <1>2 DEF IInv, Disk
<1>4. sourse # dest
  <2>1. data[sourse] # <<>>
    BY <1>2, <1>3
  <2> QED
    BY <1>1, <2>1 DEF IInv, AtHand, Outcome
<1>5. data'[sourse] = data[sourse]
  BY <1>2, <1>4 DEF CopyBlock
<1>6. Len(data[sourse]) \in Nat
  BY <1>3
<1>7. Left' = Left - 1
  BY <1>1, <1>2, <1>5, <1>6 DEF Left
<1> QED
  BY <1>1, <1>7 DEF Forward

\* A file that others make is a new one, and not the one that is read.
LEMMA OthersForward == IInv /\ Others => Forward
<1> SUFFICES ASSUME IInv, Others PROVE Forward
  OBVIOUS
<1>1. UNCHANGED <<cmd, pc, ind, sourse, n_read>> /\ env' = env + 1
  BY DEF Others, files
<1>2. PICK name \in Names \ Dirs :
        \/ data' = data
        \/ /\ fs[name] = None
           /\ data' = WithFile(NewInode(name), <<Foreign>>)
  BY DEF Others
<1>3. pc = "read" => data'[sourse] = data[sourse]
  <2>1. pc = "read" => sourse \in DOMAIN data
    BY NamesOfCommand DEF IInv, History, AtHand, Program
  <2>2. CASE data' = WithFile(NewInode(name), <<Foreign>>)
    <3>1. <<Foreign>> \in Seq(STRING)
      BY ContentAssumption, OneElement
    <3> QED
      BY <2>1, <2>2, <3>1, NewInodeFacts, WithFileFacts DEF IInv
  <2> QED
    BY <1>2, <2>2
<1> QED
  BY <1>1, <1>3 DEF Forward, Left

\* The steps from one stage to the next.
LEMMA StagesForward ==
  ASSUME IInv,
         Start \/ Open \/ Access \/ Ask \/ Truncate \/ Create \/ ReadDirectory \/ CopyFails
  PROVE  Forward
<1>1. cmd' = cmd /\ ind' = ind
  BY DEF Start, Open, Access, Ask, Truncate, Create, ReadDirectory, CopyFails
<1>2. /\ pc = "start" => pc' \in {"open", "done"}
      /\ pc = "open" => pc' \in {"access", "done"}
      /\ pc = "access" => pc' \in {"ask", "create", "truncate"}
      /\ pc = "ask" => pc' \in {"truncate", "done"}
      /\ pc \in {"truncate", "create"} => pc' \in {"read", "done"}
      /\ pc = "read" => pc' = "done"
      /\ pc # "done"
  BY DEF Start, Open, Access, Ask, Truncate, Create, ReadDirectory, CopyFails, Begin,
         Goto, Exit
<1>3. pc \in PCs /\ Place[pc'] > Place[pc]
  BY <1>2 DEF IInv, Program, Place, PCs
<1> QED
  BY <1>1, <1>3 DEF Forward

\* At the end of a file the call ends or goes on with the next source.
LEMMA EndOfFileForward == IInv /\ EndOfFile => Forward
<1> SUFFICES ASSUME IInv, EndOfFile PROVE Forward
  OBVIOUS
<1>1. pc = "read" /\ cmd' = cmd /\ ind \in Nat /\ Len(cmd.sources) \in Nat
  BY NamesOfCommand, CommandAssumption DEF EndOfFile, AtEnd, IInv, Program
<1>2. CASE ind = Len(cmd.sources) /\ Exit("0") /\ UNCHANGED ind
  BY <1>1, <1>2 DEF Exit, Forward, Place, PCs
<1>3. CASE ind < Len(cmd.sources) /\ Goto("open") /\ ind' = ind + 1
  BY <1>1, <1>3 DEF Forward
<1> QED
  BY <1>2, <1>3 DEF EndOfFile

\* For any command line, any files and whatever others do, mycp only goes forward,
\* and there is a bound to how far: it cannot copy for ever, not even a file to
\* itself.
THEOREM CopyGoesForward == Spec => []Bounded /\ [][Forward]_vars
<1>1. IInv => Bounded
  <2> SUFFICES ASSUME IInv PROVE Bounded
    OBVIOUS
  <2>1. CASE pc = "read"
    <3>1. n_read \in 0..Len(data[sourse]) /\ sourse \in DOMAIN data
      BY <2>1, NamesOfCommand DEF IInv, History, AtHand, Program
    <3>2. data[sourse] \in Seq(STRING)
      BY <3>1 DEF IInv, Disk
    <3>3. Len(data[sourse]) \in Nat
      BY <3>2
    <3> QED
      BY <2>1, <3>1, <3>3 DEF Bounded, Left
  <2> QED
    BY <2>1 DEF Bounded, Left
<1>2. IInv /\ [Next]_vars => [Forward]_vars
  BY CopyBlockForward, OthersForward, StagesForward, EndOfFileForward
     DEF Next, Work, Quiet
<1> QED
  BY <1>1, <1>2, SpecIInv, PTL DEF Spec
=============================================================================
