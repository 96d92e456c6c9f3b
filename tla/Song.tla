-------------------------------- MODULE Song --------------------------------
(***************************************************************************)
(* examtask/main.cpp: children of one process sing a song together.  Each  *)
(* takes one letter of the song for its own and sings it when the song     *)
(* comes to it; SIGUSR1 to the whole group moves the song on.              *)
(*                                                                         *)
(* Each process has its own song_index, which sigHandler increments.  The  *)
(* program waits with sigwait for a signal that it has not blocked: POSIX  *)
(* leaves that undefined, and Linux gives a signal that arrives during the *)
(* call to sigwait and not to the handler, so that a process which waits   *)
(* is woken and its index stays.  A signal that arrives between the test   *)
(* of wait_flg and the call goes to the handler, and the process sleeps.   *)
(* A second signal to a process that has not handled the first is lost.    *)
(*                                                                         *)
(* A fork that fails leaves its error in the parent's errno, which every   *)
(* later child inherits and takes for an error of getpid: it exits before  *)
(* its loop.                                                               *)
(*                                                                         *)
(* The song is read at index -1, a byte of its heap block's header, and    *)
(* beyond its end, in the rest of the block: all of them are zero.         *)
(***************************************************************************)
EXTENDS Integers, Sequences

CONSTANTS N,            \* children (33 in the program)
          song,         \* the letters of the arguments
          Nul,          \* the character 0
          Poison,       \* '0', the letter of a process that has none
          ForkMayFail   \* whether fork() may return -1

ASSUME NAssumption    == N \in Nat
ASSUME SongAssumption == song \in Seq(STRING \ {Nul, Poison})
ASSUME CharAssumption == Nul \in STRING /\ Poison \in STRING /\ Nul # Poison
ASSUME ForkAssumption == ForkMayFail \in BOOLEAN

VARIABLES main,             \* where the parent is
          forked,           \* how often it has forked
          pc,               \* where each child is
          song_index,       \* each child's copy
          wait_flg,         \* each child's copy
          pending,          \* children with an undelivered SIGUSR1
          proc_letter,      \* each child's letter
          choosing_letter,  \* value of the semaphore
          busy              \* busy_letters[0]: busy_i is moved on where the
                            \* number it points to was meant, so that every
                            \* child finds 0 in it and writes there

index   == <<song_index, wait_flg>>
letters == <<proc_letter, choosing_letter, busy>>
vars    == <<main, forked, pc, pending, index, letters>>

Children == 1..N
Letters == {song[p] : p \in 1..Len(song)} \cup {Nul}

PCs == {"unborn", "born", "test", "flag", "await", "waiting", "clear", "mine",
        "look", "enter", "again", "take", "kill", "raise", "done", "killed"}

InitWith(flag) ==
  /\ main = "fork" /\ forked = 0
  /\ pc = [c \in Children |-> "unborn"] /\ pending = {}
  /\ song_index = [c \in Children |-> -1] /\ wait_flg = [c \in Children |-> flag]
  /\ proc_letter = [c \in Children |-> Poison] /\ busy = Nul
  /\ choosing_letter = 1

\* Children that do not wait before they sing.
InitAwake == InitWith(0)
Init == InitWith(1)

\* The letter that child c is at.
Letter(c) == IF song_index[c] \in 0..(Len(song) - 1) THEN song[song_index[c] + 1]
                                                     ELSE Nul

\* Only busy_letters[0] is ever different from 0.
is_busy(letter) == busy # Nul /\ busy = letter

-----------------------------------------------------------------------------
(* Signals.                                                                *)

Ended(c) == pc[c] \in {"done", "killed"}
Alive(c) == pc[c] # "unborn" /\ ~ Ended(c)

\* kill(0, SIGUSR1): the signal waits for those who have set their handler, and
\* is the death of the others.
SignalGroup(receivers) ==
  /\ pending' = {c \in receivers : Alive(c) /\ pc[c] # "born"}
  /\ main' = CASE main \in {"fork", "install"} -> "killed"
               [] main = "kill"                -> "wait"
               [] OTHER                        -> main

AfterSignal(c) == IF pc[c] = "born" THEN "killed" ELSE pc[c]

sigHandler(c) ==
  /\ c \in pending /\ pc[c] # "waiting"
  /\ pending' = pending \ {c}
  /\ song_index' = [song_index EXCEPT ![c] = @ + 1]
  /\ wait_flg' = [wait_flg EXCEPT ![c] = 0]
  /\ UNCHANGED <<main, forked, pc, letters>>

-----------------------------------------------------------------------------
(* The parent.                                                             *)

Fork == /\ main = "fork"
        /\ IF forked < N
           THEN /\ forked' = forked + 1
                /\ \/ pc' = [pc EXCEPT ![forked + 1] = "born"]
                   \/ ForkMayFail /\ UNCHANGED pc
                /\ UNCHANGED main
           ELSE main' = "install" /\ UNCHANGED <<forked, pc>>
        /\ UNCHANGED <<pending, index, letters>>

Install == /\ main = "install"
           /\ main' = "kill"
           /\ UNCHANGED <<forked, pc, pending, index, letters>>

\* The parent's own signal goes to its handler, and its index is never read.
Begin == /\ main = "kill"
         /\ SignalGroup(Children)
         /\ pc' = [c \in Children |-> AfterSignal(c)]
         /\ UNCHANGED <<forked, index, letters>>

WaitAll == /\ main = "wait"
           /\ \A c \in Children : ~ Alive(c)
           /\ main' = "done"
           /\ UNCHANGED <<forked, pc, pending, index, letters>>

Parent == Fork \/ Install \/ Begin \/ WaitAll
-----------------------------------------------------------------------------
(* A child.  It runs on when no signal is pending for it: the handler comes *)
(* first.                                                                  *)

Goto(c, from, to) == /\ pc[c] = from /\ c \notin pending
                     /\ pc' = [pc EXCEPT ![c] = to]
                     /\ UNCHANGED <<main, forked, pending>>

\* A child's step that only looks.
Look(c, from, to) == /\ Goto(c, from, to)
                     /\ UNCHANGED <<index, letters>>

\* Child c's errno is set: a fork before its own has failed.  The numbers go in
\* the order of the forks, and that of a failed one stays unborn.
errno(c) == \E d \in 1..(c - 1) : pc[d] = "unborn"

SetHandler(c) == Look(c, "born", IF errno(c) THEN "done" ELSE "test")

TestIndex(c) == Look(c, "test", IF song_index[c] < Len(song) THEN "flag" ELSE "done")

TestFlag(c) == Look(c, "flag", IF wait_flg[c] = 1 THEN "await" ELSE "clear")

Sleep(c) == Look(c, "await", "waiting")

\* sigwait returns with the signal.
Wake(c) == /\ pc[c] = "waiting" /\ c \in pending
           /\ pc' = [pc EXCEPT ![c] = "clear"]
           /\ pending' = pending \ {c}
           /\ UNCHANGED <<main, forked, index, letters>>

\* A child that leaves the flag as the handler has set it.
ClearNothing(c) == Look(c, "clear", IF proc_letter[c] = Poison THEN "look" ELSE "mine")
Clear(c) == /\ Goto(c, "clear", IF proc_letter[c] = Poison THEN "look" ELSE "mine")
            /\ wait_flg' = [wait_flg EXCEPT ![c] = 1]
            /\ UNCHANGED <<song_index, letters>>

Mine(c) == Look(c, "mine", IF Letter(c) = proc_letter[c] THEN "kill" ELSE "test")

LookForLetter(c) == Look(c, "look", IF is_busy(Letter(c)) THEN "test" ELSE "enter")

\* A sem_wait that a signal has broken off and that counts as done.
EnterInterrupted(c) == Look(c, "enter", "again")
Enter(c) == /\ choosing_letter > 0
            /\ Goto(c, "enter", "again")
            /\ choosing_letter' = choosing_letter - 1
            /\ UNCHANGED <<index, proc_letter, busy>>

LookAgain(c) ==
  /\ \/ is_busy(Letter(c)) /\ Goto(c, "again", "test")
        /\ choosing_letter' = choosing_letter + 1
     \/ ~ is_busy(Letter(c)) /\ Goto(c, "again", "take")
        /\ UNCHANGED choosing_letter
  /\ UNCHANGED <<index, proc_letter, busy>>

\* The song may have moved on since the child has looked.
TakeAndPost(c, posts) == /\ Goto(c, "take", "kill")
                         /\ proc_letter' = [proc_letter EXCEPT ![c] = Letter(c)]
                         /\ busy' = Letter(c)
                         /\ choosing_letter' = choosing_letter + posts
                         /\ UNCHANGED index

\* A child that posts the semaphore twice.
TakeAndPostTwice(c) == TakeAndPost(c, 2)
Take(c) == TakeAndPost(c, 1)

\* The child sings its letter and signals the group; its own signal is handled
\* before kill and raise return.
Handled(c) == /\ song_index' = [song_index EXCEPT ![c] = @ + 1]
              /\ wait_flg' = [wait_flg EXCEPT ![c] = 0]
              /\ UNCHANGED <<forked, letters>>

Kill(c) == /\ pc[c] = "kill" /\ c \notin pending
           /\ SignalGroup(Children \ {c})
           /\ pc' = [d \in Children |-> IF d = c THEN "raise" ELSE AfterSignal(d)]
           /\ Handled(c)

Raise(c) == /\ pc[c] = "raise" /\ c \notin pending
            /\ pc' = [pc EXCEPT ![c] = "test"]
            /\ Handled(c)
            /\ UNCHANGED <<main, pending>>

Child(c) == \/ SetHandler(c) \/ TestIndex(c) \/ TestFlag(c) \/ Sleep(c) \/ Wake(c)
            \/ Clear(c) \/ Mine(c) \/ LookForLetter(c) \/ Enter(c) \/ LookAgain(c)
            \/ Take(c) \/ Kill(c) \/ Raise(c) \/ sigHandler(c)

-----------------------------------------------------------------------------

\* The program has ended, or everybody who is left waits for a signal.
Asleep == /\ main = "wait" /\ pending = {}
          /\ \E c \in Children : Alive(c)
          /\ \A c \in Children : Alive(c) => pc[c] = "waiting"
Over == main = "done" \/ Asleep
Quiet == Over /\ UNCHANGED vars

Next == Parent \/ (\E c \in Children : Child(c)) \/ Quiet

Spec == Init /\ [][Next]_vars

\* Every process that can run is run in the end.
FairSpec == Spec /\ WF_vars(Parent) /\ \A c \in Children : WF_vars(Child(c))

-----------------------------------------------------------------------------
(* Properties.                                                             *)

TypeOK == /\ main \in {"fork", "install", "kill", "wait", "done", "killed"}
          /\ forked \in 0..N
          /\ pc \in [Children -> PCs]
          /\ song_index \in [Children -> Int]
          /\ wait_flg \in [Children -> {0, 1}]
          /\ pending \subseteq Children
          /\ proc_letter \in [Children -> Letters \cup {Poison}]
          /\ choosing_letter \in {0, 1}
          /\ busy \in Letters

\* One child at a time chooses its letter, the semaphore is posted on every way
\* out, and no child dies or goes to sleep with it.
OneChooser ==
  /\ \A c, d \in Children : {pc[c], pc[d]} \subseteq {"again", "take"} => c = d
  /\ choosing_letter = 0 <=> \E c \in Children : pc[c] \in {"again", "take"}

\* The parent sets its handler after the children exist, and none of them is
\* so early with its signal that it kills the parent.
ParentSurvives == main # "killed"

\* The song stops: the signals, each of which makes others sing, die out, and
\* either all children have ended and the parent with them, or those that are
\* left sleep in sigwait and none of them holds the semaphore.
SongStops == <>[](Over /\ choosing_letter = 1)

\* examtask/main.cpp, "check if letter is set as proc_letter in another process":
\* no letter of the song is the letter of two children.
NoSharedLetter ==
  \A c, d \in Children :
     proc_letter[c] = proc_letter[d] /\ proc_letter[c] \notin {Poison, Nul} => c = d
=============================================================================
