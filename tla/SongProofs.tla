----------------------------- MODULE SongProofs -----------------------------
(***************************************************************************)
(* Proofs about Song, for any number of children, any song, and whichever  *)
(* forks fail.                                                             *)
(*                                                                         *)
(* OneChooser says already what the semaphore is worth while a child       *)
(* chooses.  What it lacks is that the signals of a start that is not      *)
(* finished cannot hit a child in the choice, nor the parent: Early.       *)
(*                                                                         *)
(* From it follows how the song may stop, SongStopsFree.  That it cannot   *)
(* go on for ever is counted: SongGoesForward.  Together they are the      *)
(* safety half of SongStops.                                               *)
(***************************************************************************)
EXTENDS Song, TLAPS

Choosing == {"again", "take"}

BeforeBegin == main \in {"fork", "install", "kill"}

\* Where a child may be that has not had a signal.
Awaiting == {"unborn", "born", "test", "flag", "await", "waiting", "done"}

\* Before the parent has begun there is no signal, and no child is past its
\* first wait but those that a failed fork has ended.
Early == BeforeBegin => /\ pending = {}
                        /\ \A c \in Children : /\ pc[c] \in Awaiting
                                               /\ wait_flg[c] = 1
                                               /\ song_index[c] = -1

IInv == TypeOK /\ OneChooser /\ ParentSurvives /\ Early

-----------------------------------------------------------------------------
(* Lemmas.                                                                 *)

\* What a child reads at its index is a letter of the song or the character 0.
LEMMA LetterType ==
  ASSUME TypeOK, NEW c \in Children
  PROVE  Letter(c) \in Letters
<1>1. CASE song_index[c] \in 0..(Len(song) - 1)
  <2>1. Len(song) \in Nat
    BY SongAssumption
  <2>2. song_index[c] + 1 \in 1..Len(song)
    BY <1>1, <2>1
  <2> QED  BY <1>1, <2>2 DEF Letter, Letters
<1>2. CASE song_index[c] \notin 0..(Len(song) - 1)
  BY <1>2 DEF Letter, Letters
<1> QED  BY <1>1, <1>2

\* A step that leaves the semaphore alone and brings nobody into the choice or
\* out of it keeps OneChooser.
LEMMA ChoiceKept ==
  ASSUME TypeOK, OneChooser, choosing_letter' = choosing_letter,
         \A c \in Children : pc'[c] \in Choosing <=> pc[c] \in Choosing
  PROVE  OneChooser'
<1>1. \A c, d \in Children : {pc'[c], pc'[d]} \subseteq Choosing => c = d
  BY DEF OneChooser, Choosing
<1>2. choosing_letter' = 0 <=> \E c \in Children : pc'[c] \in Choosing
  BY DEF OneChooser, Choosing
<1> QED  BY <1>1, <1>2 DEF OneChooser, Choosing

\* The steps of a child that only look, but for those of the choice.
LEMMA LookKeeps ==
  ASSUME IInv, NEW c \in Children, NEW from \in PCs \ Choosing,
         NEW to \in PCs \ Choosing, Look(c, from, to),
         BeforeBegin => to \in Awaiting
  PROVE  IInv'
<1>1. /\ pc[c] = from
      /\ pc' = [pc EXCEPT ![c] = to]
      /\ UNCHANGED <<main, forked, pending, song_index, wait_flg, proc_letter,
                     choosing_letter, busy>>
  BY DEF Look, Goto, index, letters
<1>2. TypeOK'
  BY <1>1 DEF IInv, TypeOK
<1>3. \A d \in Children : pc'[d] \in Choosing <=> pc[d] \in Choosing
  BY <1>1 DEF IInv, TypeOK
<1>4. OneChooser'
  BY <1>1, <1>3, ChoiceKept DEF IInv
<1>5. Early'
  BY <1>1 DEF IInv, Early, TypeOK, BeforeBegin
<1> QED  BY <1>1, <1>2, <1>4, <1>5 DEF IInv, ParentSurvives

\* A signal to the group kills nobody in the choice.
LEMMA AfterSignalKeeps ==
  ASSUME TypeOK, NEW c \in Children
  PROVE  /\ AfterSignal(c) \in PCs
         /\ AfterSignal(c) \in Choosing <=> pc[c] \in Choosing
BY DEF TypeOK, AfterSignal, Choosing, PCs

\* A child that is past its first wait has been woken by the parent's signal.
LEMMA Begun ==
  ASSUME IInv, NEW c \in Children, pc[c] \notin Awaiting \/ c \in pending
  PROVE  ~ BeforeBegin
BY DEF IInv, Early

\* Once the parent has begun, it is never again before its beginning.
LEMMA EarlyOver ==
  ASSUME ~ BeforeBegin, main' = main
  PROVE  Early'
BY DEF Early, BeforeBegin

-----------------------------------------------------------------------------
(* The invariant.                                                          *)

\* In the beginning nobody is born, and the semaphore is free.
LEMMA InitIInv == Init => IInv
<1> SUFFICES ASSUME Init PROVE IInv
  OBVIOUS
<1>1. TypeOK
  BY NAssumption DEF Init, InitWith, TypeOK, PCs, Letters
<1>2. OneChooser
  BY DEF Init, InitWith, OneChooser
<1>3. ParentSurvives /\ Early
  BY DEF Init, InitWith, ParentSurvives, Early, Awaiting
<1> QED  BY <1>1, <1>2, <1>3 DEF IInv

\* The parent's steps.
LEMMA ParentKeeps ==
  ASSUME IInv, Parent
  PROVE  IInv'
<1> USE DEF IInv
<1>1. CASE Fork
  <2>1. CASE forked < N /\ forked' = forked + 1
    <3>1. forked + 1 \in Children
      BY <2>1, NAssumption DEF TypeOK, Children
    <3>2. /\ pc' = [pc EXCEPT ![forked + 1] = "born"] \/ pc' = pc
          /\ UNCHANGED <<main, pending, song_index, wait_flg, proc_letter,
                         choosing_letter, busy>>
          /\ BeforeBegin
      BY <1>1, <2>1 DEF Fork, index, letters, BeforeBegin
    <3>3. TypeOK'
      BY <2>1, <3>1, <3>2, NAssumption DEF TypeOK, PCs
    <3>4. \A c \in Children : pc'[c] \in Choosing <=> pc[c] \in Choosing
      BY <3>1, <3>2 DEF TypeOK, Early, Awaiting, Choosing
    <3>5. OneChooser'
      BY <3>2, <3>4, ChoiceKept
    <3>6. Early'
      BY <3>2 DEF TypeOK, Early, Awaiting
    <3> QED  BY <3>2, <3>3, <3>5, <3>6 DEF ParentSurvives
  <2>2. CASE ~ (forked < N)
    <3>1. /\ main' = "install"
          /\ UNCHANGED <<forked, pc, pending, song_index, wait_flg, proc_letter,
                         choosing_letter, busy>>
          /\ BeforeBegin
      BY <1>1, <2>2 DEF Fork, index, letters, BeforeBegin
    <3> QED  BY <3>1 DEF TypeOK, OneChooser, ParentSurvives, Early
  <2> QED  BY <1>1, <2>1, <2>2 DEF Fork
<1>2. CASE Install
  <2>1. /\ main' = "kill"
        /\ UNCHANGED <<forked, pc, pending, song_index, wait_flg, proc_letter,
                       choosing_letter, busy>>
        /\ BeforeBegin
    BY <1>2 DEF Install, index, letters, BeforeBegin
  <2> QED  BY <2>1 DEF TypeOK, OneChooser, ParentSurvives, Early
<1>3. CASE Begin
  <2>1. /\ main' = "wait"
        /\ pending' \subseteq Children
        /\ pc' = [c \in Children |-> AfterSignal(c)]
        /\ UNCHANGED <<forked, song_index, wait_flg, proc_letter,
                       choosing_letter, busy>>
    BY <1>3 DEF Begin, SignalGroup, index, letters
  <2>2. TypeOK'
    BY <2>1, AfterSignalKeeps DEF TypeOK
  <2>3. OneChooser'
    BY <2>1, AfterSignalKeeps, ChoiceKept
  <2> QED  BY <2>1, <2>2, <2>3 DEF ParentSurvives, Early, BeforeBegin
<1>4. CASE WaitAll
  <2>1. /\ main' = "done"
        /\ UNCHANGED <<forked, pc, pending, song_index, wait_flg, proc_letter,
                       choosing_letter, busy>>
    BY <1>4 DEF WaitAll, index, letters
  <2> QED  BY <2>1 DEF TypeOK, OneChooser, ParentSurvives, Early, BeforeBegin
<1> QED  BY <1>1, <1>2, <1>3, <1>4 DEF Parent

\* The signals of a child: the group is told, its own index moves on.
LEMMA KillKeeps ==
  ASSUME IInv, NEW c \in Children, Kill(c)
  PROVE  IInv'
<1> USE DEF IInv
<1>1. ~ BeforeBegin
  BY Begun DEF Kill, Awaiting
<1>2. /\ pc[c] = "kill"
      /\ pending' \subseteq Children
      /\ pc' = [d \in Children |-> IF d = c THEN "raise" ELSE AfterSignal(d)]
      /\ song_index' = [song_index EXCEPT ![c] = @ + 1]
      /\ wait_flg' = [wait_flg EXCEPT ![c] = 0]
      /\ UNCHANGED <<forked, proc_letter, choosing_letter, busy>>
  BY DEF Kill, SignalGroup, Handled, letters
<1>3. main' = main
  BY <1>1 DEF Kill, SignalGroup, BeforeBegin
<1>4. TypeOK'
  BY <1>2, <1>3, AfterSignalKeeps DEF TypeOK, PCs
<1>5. \A d \in Children : pc'[d] \in Choosing <=> pc[d] \in Choosing
  BY <1>2, AfterSignalKeeps DEF Choosing
<1>6. OneChooser'
  BY <1>2, <1>5, ChoiceKept
<1> QED  BY <1>1, <1>3, <1>4, <1>6, EarlyOver DEF ParentSurvives

\* The child's signal to itself moves its own index on.
LEMMA RaiseKeeps ==
  ASSUME IInv, NEW c \in Children, Raise(c)
  PROVE  IInv'
<1> USE DEF IInv
<1>1. ~ BeforeBegin
  BY Begun DEF Raise, Awaiting
<1>2. /\ pc[c] = "raise"
      /\ pc' = [pc EXCEPT ![c] = "test"]
      /\ song_index' = [song_index EXCEPT ![c] = @ + 1]
      /\ wait_flg' = [wait_flg EXCEPT ![c] = 0]
      /\ UNCHANGED <<main, pending, forked, proc_letter, choosing_letter, busy>>
  BY DEF Raise, Handled, letters
<1>3. TypeOK'
  BY <1>2 DEF TypeOK, PCs
<1>4. \A d \in Children : pc'[d] \in Choosing <=> pc[d] \in Choosing
  BY <1>2 DEF TypeOK, Choosing
<1>5. OneChooser'
  BY <1>2, <1>4, ChoiceKept
<1> QED  BY <1>1, <1>2, <1>3, <1>5, EarlyOver DEF ParentSurvives

\* A signal's arrival, at the handler or in sigwait, and the flag's reset.
LEMMA DeliveryKeeps ==
  ASSUME IInv, NEW c \in Children, sigHandler(c) \/ Wake(c) \/ Clear(c)
  PROVE  IInv'
<1> USE DEF IInv
<1>1. ~ BeforeBegin
  BY Begun DEF sigHandler, Wake, Clear, Goto, Awaiting
<1>2. /\ pc' = pc \/ (pc[c] \notin Choosing
                      /\ \E to \in PCs \ Choosing : pc' = [pc EXCEPT ![c] = to])
      /\ pending' \subseteq pending
      /\ song_index' = song_index \/ song_index' = [song_index EXCEPT ![c] = @ + 1]
      /\ wait_flg' = wait_flg \/ \E f \in {0, 1} : wait_flg' = [wait_flg EXCEPT ![c] = f]
      /\ UNCHANGED <<main, forked, proc_letter, choosing_letter, busy>>
  <2>1. CASE sigHandler(c)
    BY <2>1 DEF sigHandler, letters
  <2>2. CASE Wake(c)
    BY <2>2 DEF Wake, index, letters, Choosing, PCs
  <2>3. CASE Clear(c)
    BY <2>3 DEF Clear, Goto, letters, Choosing, PCs
  <2> QED  BY <2>1, <2>2, <2>3
<1>3. TypeOK'
  BY <1>2 DEF TypeOK
<1>4. \A d \in Children : pc'[d] \in Choosing <=> pc[d] \in Choosing
  BY <1>2 DEF TypeOK
<1>5. OneChooser'
  BY <1>2, <1>4, ChoiceKept
<1> QED  BY <1>1, <1>2, <1>3, <1>5, EarlyOver DEF ParentSurvives

\* Into the choice: the semaphore was free, so that nobody was in it.
LEMMA EnterKeeps ==
  ASSUME IInv, NEW c \in Children, Enter(c)
  PROVE  IInv'
<1> USE DEF IInv
<1>1. /\ pc[c] = "enter"
      /\ choosing_letter = 1 /\ choosing_letter' = 0
      /\ pc' = [pc EXCEPT ![c] = "again"]
      /\ UNCHANGED <<main, forked, pending, song_index, wait_flg, proc_letter, busy>>
  BY DEF Enter, Goto, index, TypeOK
<1>2. ~ BeforeBegin
  BY <1>1, Begun DEF Awaiting
<1>3. TypeOK'
  BY <1>1 DEF TypeOK, PCs
<1>4. \A d \in Children : pc[d] \notin Choosing
  BY <1>1 DEF OneChooser, Choosing
<1>5. \A d \in Children : pc'[d] \in Choosing <=> d = c
  BY <1>1, <1>4 DEF TypeOK, Choosing
<1>6. OneChooser'
  BY <1>1, <1>5 DEF OneChooser, Choosing
<1> QED  BY <1>1, <1>2, <1>3, <1>6, EarlyOver DEF ParentSurvives

\* Out of the choice, with or without a letter: who was in it was alone, and
\* the semaphore is free again.
LEMMA LeaveKeeps ==
  ASSUME IInv, NEW c \in Children, pc[c] \in Choosing,
         NEW to \in PCs \ Choosing, pc' = [pc EXCEPT ![c] = to],
         choosing_letter' = choosing_letter + 1,
         proc_letter' = proc_letter \/ proc_letter' = [proc_letter EXCEPT ![c] = Letter(c)],
         busy' = busy \/ busy' = Letter(c),
         UNCHANGED <<main, forked, pending, song_index, wait_flg>>
  PROVE  IInv'
<1> USE DEF IInv
<1>1. ~ BeforeBegin
  BY Begun DEF Awaiting, Choosing
<1>2. choosing_letter = 0
  BY DEF OneChooser, Choosing
<1>3. TypeOK'
  BY <1>2, LetterType DEF TypeOK
<1>4. \A d \in Children : pc'[d] \notin Choosing
  BY DEF TypeOK, OneChooser, Choosing
<1>5. OneChooser'
  BY <1>2, <1>4 DEF OneChooser, Choosing
<1> QED  BY <1>1, <1>3, <1>5, EarlyOver DEF ParentSurvives

\* The two steps in the choice: a letter that is taken after all, and the taking.
LEMMA ChoiceKeeps ==
  ASSUME IInv, NEW c \in Children, LookAgain(c) \/ Take(c)
  PROVE  IInv'
<1>1. CASE LookAgain(c) /\ is_busy(Letter(c))
  <2>1. /\ pc[c] = "again"
        /\ pc' = [pc EXCEPT ![c] = "test"]
        /\ choosing_letter' = choosing_letter + 1
        /\ UNCHANGED <<main, forked, pending, song_index, wait_flg, proc_letter, busy>>
    BY <1>1 DEF LookAgain, Goto, index
  <2> QED  BY <2>1, LeaveKeeps DEF Choosing, PCs
<1>2. CASE LookAgain(c) /\ ~ is_busy(Letter(c))
  <2>1. /\ pc[c] = "again"
        /\ pc' = [pc EXCEPT ![c] = "take"]
        /\ UNCHANGED <<main, forked, pending, song_index, wait_flg, proc_letter,
                       choosing_letter, busy>>
    BY <1>2 DEF LookAgain, Goto, index
  <2>2. ~ BeforeBegin
    BY <2>1, Begun DEF Awaiting
  <2>3. TypeOK'
    BY <2>1 DEF IInv, TypeOK, PCs
  <2>4. OneChooser'
    BY <2>1, ChoiceKept DEF IInv, TypeOK, Choosing
  <2> QED  BY <2>1, <2>2, <2>3, <2>4, EarlyOver DEF IInv, ParentSurvives
<1>3. CASE Take(c)
  <2>1. /\ pc[c] = "take"
        /\ pc' = [pc EXCEPT ![c] = "kill"]
        /\ proc_letter' = [proc_letter EXCEPT ![c] = Letter(c)]
        /\ busy' = Letter(c)
        /\ choosing_letter' = choosing_letter + 1
        /\ UNCHANGED <<main, forked, pending, song_index, wait_flg>>
    BY <1>3 DEF Take, TakeAndPost, Goto, index
  <2> QED  BY <2>1, LeaveKeeps DEF Choosing, PCs
<1> QED  BY <1>1, <1>2, <1>3

\* The child's steps, of which those that look are instances of LookKeeps.
LEMMA ChildKeeps ==
  ASSUME IInv, NEW c \in Children, Child(c)
  PROVE  IInv'
<1> USE DEF PCs, Choosing, Awaiting
<1>1. CASE SetHandler(c)
  BY <1>1, LookKeeps DEF SetHandler
<1>2. CASE TestIndex(c)
  <2>1. BeforeBegin => song_index[c] < Len(song)
    BY SongAssumption DEF IInv, Early
  <2> QED  BY <1>2, <2>1, LookKeeps DEF TestIndex
<1>3. CASE TestFlag(c)
  <2>1. BeforeBegin => wait_flg[c] = 1
    BY DEF IInv, Early
  <2> QED  BY <1>3, <2>1, LookKeeps DEF TestFlag
<1>4. CASE Sleep(c)
  BY <1>4, LookKeeps DEF Sleep
<1>5. CASE Mine(c)
  <2>1. ~ BeforeBegin
    BY <1>5, Begun DEF Mine, Look, Goto
  <2> QED  BY <1>5, <2>1, LookKeeps DEF Mine
<1>6. CASE LookForLetter(c)
  <2>1. ~ BeforeBegin
    BY <1>6, Begun DEF LookForLetter, Look, Goto
  <2> QED  BY <1>6, <2>1, LookKeeps DEF LookForLetter
<1> QED  BY <1>1, <1>2, <1>3, <1>4, <1>5, <1>6, DeliveryKeeps, EnterKeeps,
            ChoiceKeeps, KillKeeps, RaiseKeeps DEF Child

\* Every step of the parent and of the children keeps the invariant.
LEMMA NextIInv == IInv /\ [Next]_vars => IInv'
<1> SUFFICES ASSUME IInv, [Next]_vars PROVE IInv'
  OBVIOUS
<1>1. CASE Parent
  BY <1>1, ParentKeeps
<1>2. CASE \E c \in Children : Child(c)
  BY <1>2, ChildKeeps
<1>3. CASE UNCHANGED vars
  BY <1>3 DEF vars, index, letters, IInv, TypeOK, OneChooser, ParentSurvives,
              Early, BeforeBegin
<1> QED  BY <1>1, <1>2, <1>3 DEF Next, Quiet

\* The invariant holds always, for every number of children and every song.
THEOREM Invariance == Spec => []IInv
BY InitIInv, NextIInv, PTL DEF Spec

-----------------------------------------------------------------------------
(* The theorems.                                                           *)

\* The variables keep their types: the semaphore never exceeds one, the letters
\* come from the song or are the character 0, for any song and any number of
\* children.
THEOREM TypesCorrect == Spec => []TypeOK
<1>1. IInv => TypeOK
  BY DEF IInv
<1> QED  BY <1>1, Invariance, PTL

\* One child at a time is between sem_wait and sem_post, and the semaphore is
\* taken exactly while one is, whatever signals come in between.
THEOREM OneChild == Spec => []OneChooser
<1>1. IInv => OneChooser
  BY DEF IInv
<1> QED  BY <1>1, Invariance, PTL

\* No child's signal comes before the parent has set its handler.
THEOREM ParentIsSafe == Spec => []ParentSurvives
<1>1. IInv => ParentSurvives
  BY DEF IInv
<1> QED  BY <1>1, Invariance, PTL

-----------------------------------------------------------------------------
(* How the song may stop.                                                  *)

\* Nothing is left for a child to do: it is not there any more, or it waits for
\* a signal or for the semaphore, and no signal is on its way to it.
ChildStopped(c) ==
  /\ c \notin pending
  /\ \/ ~ Alive(c)
     \/ pc[c] = "waiting"
     \/ pc[c] = "enter" /\ choosing_letter = 0

\* The parent is dead or has ended, or somebody is left whom it waits for.
ParentStopped == \/ main \in {"done", "killed"}
                 \/ main = "wait" /\ \E c \in Children : Alive(c)

Stopped == ParentStopped /\ \A c \in Children : ChildStopped(c)

\* The parent ends after all its children.
WaitedForAll == main = "done" => \A c \in Children : ~ Alive(c)

\* Nobody is ever left at the semaphore: when nobody can go on, either the
\* program has ended or the children that are left sleep in sigwait, and the
\* semaphore is free.
StopsFree == Stopped => Over /\ choosing_letter = 1

\* Stopped is what its name says: neither the parent nor a child has a step.
LEMMA StoppedIsStopped ==
  TypeOK /\ Stopped => ~ Parent /\ \A c \in Children : ~ Child(c)
<1> SUFFICES ASSUME TypeOK, Stopped
             PROVE  ~ Parent /\ \A c \in Children : ~ Child(c)
  OBVIOUS
<1>1. ~ Parent
  BY DEF Stopped, ParentStopped, Parent, Fork, Install, Begin, WaitAll
<1>2. ASSUME NEW c \in Children, Child(c) PROVE FALSE
  <2>1. c \notin pending
    BY DEF Stopped, ChildStopped
  <2>2. /\ pc[c] \notin {"born", "test", "flag", "await", "clear", "mine", "look",
                         "again", "take", "kill", "raise"}
        /\ pc[c] = "enter" => choosing_letter = 0
    BY DEF Stopped, ChildStopped, Alive, Ended
  <2>3. ~ (Wake(c) \/ sigHandler(c) \/ Enter(c))
    BY <2>1, <2>2 DEF Wake, sigHandler, Enter, Goto
  <2>4. ~ (\/ SetHandler(c) \/ TestIndex(c) \/ TestFlag(c) \/ Sleep(c) \/ Mine(c)
           \/ LookForLetter(c))
    BY <2>2 DEF SetHandler, TestIndex, TestFlag, Sleep, Mine, LookForLetter, Look,
                Goto
  <2>5. ~ (Clear(c) \/ LookAgain(c) \/ Take(c) \/ Kill(c) \/ Raise(c))
    BY <2>2 DEF Clear, LookAgain, Take, TakeAndPost, Kill, Raise, Goto
  <2> QED
    BY <1>2, <2>3, <2>4, <2>5 DEF Child
<1> QED
  BY <1>1, <1>2

\* A child in the choice can go on, so that whoever waits for the semaphore
\* waits for somebody who runs.
LEMMA IInvStopsFree == IInv => StopsFree
<1> SUFFICES ASSUME IInv, Stopped PROVE Over /\ choosing_letter = 1
  BY DEF StopsFree
<1>1. \A c \in Children : pc[c] \notin Choosing
  BY DEF Stopped, ChildStopped, Alive, Ended, Choosing
<1>2. choosing_letter = 1
  BY <1>1 DEF IInv, TypeOK, OneChooser, Choosing
<1>3. pending = {}
  BY DEF IInv, TypeOK, Stopped, ChildStopped
<1>4. \A c \in Children : Alive(c) => pc[c] = "waiting"
  BY <1>2 DEF Stopped, ChildStopped
<1>5. main \in {"done", "wait"}
  BY DEF IInv, ParentSurvives, Stopped, ParentStopped
<1>6. main = "wait" => Asleep
  BY <1>3, <1>4 DEF Stopped, ParentStopped, Asleep
<1> QED
  BY <1>2, <1>5, <1>6 DEF Over

\* Only a child that lives has steps of its own, and none of them revives
\* another.
LEMMA NobodyRevived ==
  ASSUME TypeOK, NEW c \in Children, Child(c), \A d \in Children : ~ Alive(d)
  PROVE  pc' = pc
<1>1. pc[c] \in {"unborn", "done", "killed"}
  BY DEF Alive, Ended
<1>2. ~ (\/ SetHandler(c) \/ TestIndex(c) \/ TestFlag(c) \/ Sleep(c) \/ Mine(c)
         \/ LookForLetter(c))
  BY <1>1 DEF SetHandler, TestIndex, TestFlag, Sleep, Mine, LookForLetter, Look,
              Goto
<1>3. ~ (Clear(c) \/ LookAgain(c) \/ Take(c) \/ Kill(c) \/ Raise(c) \/ Wake(c)
         \/ Enter(c))
  BY <1>1 DEF Clear, LookAgain, Take, TakeAndPost, Kill, Raise, Wake, Enter, Goto
<1> QED
  BY <1>2, <1>3 DEF Child, sigHandler

\* No step of a child ends the parent.
LEMMA ChildLeavesParent ==
  ASSUME NEW c \in Children, Child(c), main' = "done"
  PROVE  main = "done"
<1>1. CASE Kill(c)
  BY <1>1 DEF Kill, SignalGroup
<1>2. CASE ~ Kill(c)
  BY <1>2 DEF Child, SetHandler, TestIndex, TestFlag, Sleep, Mine, LookForLetter,
              Clear, LookAgain, Take, TakeAndPost, Raise, Wake, Enter, sigHandler,
              Look, Goto
<1> QED
  BY <1>1, <1>2

\* The parent waits for every child, and none is born after that.
LEMMA NextWaitedForAll == IInv /\ WaitedForAll /\ [Next]_vars => WaitedForAll'
<1> SUFFICES ASSUME IInv, WaitedForAll, [Next]_vars, main' = "done"
             PROVE  \A c \in Children : ~ Alive(c)'
  BY DEF WaitedForAll
<1>1. CASE Parent
  BY <1>1 DEF Parent, Fork, Install, Begin, SignalGroup, WaitAll, Alive, Ended
<1>2. CASE \E c \in Children : Child(c)
  <2>1. \A c \in Children : ~ Alive(c)
    BY <1>2, ChildLeavesParent DEF WaitedForAll
  <2>2. pc' = pc
    BY <1>2, <2>1, NobodyRevived DEF IInv
  <2> QED
    BY <2>1, <2>2 DEF Alive, Ended
<1>3. CASE UNCHANGED vars
  BY <1>3 DEF vars, WaitedForAll, Alive, Ended
<1> QED
  BY <1>1, <1>2, <1>3 DEF Next, Quiet

\* Whenever neither the parent nor a child can take a step, the program has
\* ended or everybody who is left sleeps in sigwait, and nobody has kept the
\* semaphore; and the parent never ends before a child.
THEOREM SongStopsFree == Spec => []StopsFree /\ []WaitedForAll
<1>1. Init => WaitedForAll
  BY DEF Init, InitWith, WaitedForAll
<1>2. Spec => []WaitedForAll
  BY <1>1, Invariance, NextWaitedForAll, PTL DEF Spec
<1>3. Spec => []StopsFree
  BY Invariance, IInvStopsFree, PTL
<1> QED
  BY <1>2, <1>3, PTL

-----------------------------------------------------------------------------
(* How the song goes on.                                                   *)

\* The letters behind index i.
Rest(i) == IF i < Len(song) THEN Len(song) - i ELSE 0

\* How many signals a child may send yet: with each, the song moves on for itself
\* too, and it begins another round only within the song.
SignalsLeft(c) ==
  CASE pc[c] \in {"unborn", "born", "test"} -> Rest(song_index[c])
    [] pc[c] = "raise"                      -> Rest(song_index[c] + 1)
    [] pc[c] \in {"done", "killed"}         -> 0
    [] OTHER                                -> 1 + Rest(song_index[c] + 1)

\* How far a child is from its next wait, or from its next signal.
Place(c) == CASE pc[c] = "raise"             -> 24
              [] pc[c] = "born"              -> 10
              [] pc[c] = "clear"             -> IF wait_flg[c] = 1 THEN 9 ELSE 1
              [] pc[c] = "look"              -> 8
              [] pc[c] = "enter"             -> 7
              [] pc[c] = "again"             -> 6
              [] pc[c] \in {"take", "mine"}  -> 5
              [] pc[c] = "kill"              -> 4
              [] pc[c] = "test"              -> 3
              [] pc[c] = "flag"              -> 2
              [] pc[c] = "await"             -> 1
              [] OTHER                       -> 0

\* A signal that has been handled is good for one more round, and one that has not
\* for the handler too.
Credit(c) == (IF wait_flg[c] = 0 THEN 20 ELSE 0) + (IF c \in pending THEN 40 ELSE 0)

StepsLeft(c) == Place(c) + Credit(c)

ParentLeft == CASE main = "fork"    -> N - forked + 4
                [] main = "install" -> 3
                [] main = "kill"    -> 2
                [] main = "wait"    -> 1
                [] OTHER            -> 0

Bounded == /\ ParentLeft \in Nat
           /\ \A c \in Children : SignalsLeft(c) \in Nat /\ StepsLeft(c) \in Nat

\* The parent goes on; or a child has a signal less to send, and nobody one more;
\* or a child has a step less to do before its next signal, and nobody one more.
Forward ==
  \/ ParentLeft' < ParentLeft
  \/ /\ ParentLeft' = ParentLeft
     /\ \A c \in Children : SignalsLeft(c)' <= SignalsLeft(c)
     /\ \/ \E c \in Children : SignalsLeft(c)' < SignalsLeft(c)
        \/ /\ \A c \in Children : StepsLeft(c)' <= StepsLeft(c)
           /\ \E c \in Children : StepsLeft(c)' < StepsLeft(c)

\* The song gets shorter.
LEMMA RestFacts ==
  ASSUME NEW i \in Int
  PROVE  /\ Rest(i) \in Nat /\ Rest(i + 1) \in Nat /\ Rest(i + 1) <= Rest(i)
         /\ i < Len(song) => Rest(i) = 1 + Rest(i + 1)
         /\ ~ (i < Len(song)) => Rest(i) = 0
<1>1. Len(song) \in Nat
  BY SongAssumption
<1> QED
  BY <1>1 DEF Rest

\* What is left to do is a number.
LEMMA LeftTypes ==
  ASSUME TypeOK, NEW c \in Children
  PROVE  SignalsLeft(c) \in Nat /\ Place(c) \in Nat /\ Credit(c) \in Nat
<1>1. song_index[c] \in Int /\ song_index[c] + 1 \in Int
  BY DEF TypeOK
<1>2. SignalsLeft(c) \in Nat
  BY <1>1, RestFacts DEF SignalsLeft
<1>3. Place(c) \in Nat
  BY DEF Place
<1>4. Credit(c) \in Nat
  BY DEF Credit
<1> QED
  BY <1>2, <1>3, <1>4

\* A child of which nothing has changed has as much to do as before.
LEMMA LeftKept ==
  ASSUME NEW c \in Children, pc'[c] = pc[c], song_index'[c] = song_index[c],
         wait_flg'[c] = wait_flg[c], c \in pending' <=> c \in pending
  PROVE  SignalsLeft(c)' = SignalsLeft(c) /\ StepsLeft(c)' = StepsLeft(c)
BY DEF SignalsLeft, StepsLeft, Place, Credit

\* A step of one child by which it has less to do.
LEMMA OneForward ==
  ASSUME TypeOK, NEW c \in Children, main' = main, forked' = forked,
         \A d \in Children \ {c} :
           /\ pc'[d] = pc[d] /\ song_index'[d] = song_index[d]
           /\ wait_flg'[d] = wait_flg[d] /\ (d \in pending' <=> d \in pending),
         SignalsLeft(c)' <= SignalsLeft(c),
         SignalsLeft(c)' < SignalsLeft(c) \/ StepsLeft(c)' < StepsLeft(c)
  PROVE  Forward
<1>1. ParentLeft' = ParentLeft
  BY DEF ParentLeft
<1>2. \A d \in Children : d # c => /\ SignalsLeft(d)' = SignalsLeft(d)
                                  /\ StepsLeft(d)' = StepsLeft(d)
  BY LeftKept
<1>3. \A d \in Children : SignalsLeft(d) \in Nat /\ StepsLeft(d) \in Nat
  BY LeftTypes DEF StepsLeft
<1>4. \A d \in Children : SignalsLeft(d)' <= SignalsLeft(d)
  BY <1>2, <1>3
<1>5. CASE SignalsLeft(c)' < SignalsLeft(c)
  BY <1>1, <1>4, <1>5 DEF Forward
<1>6. CASE StepsLeft(c)' < StepsLeft(c)
  <2>1. StepsLeft(c)' \in Nat
    BY DEF StepsLeft, Place, Credit
  <2>2. \A d \in Children : StepsLeft(d)' <= StepsLeft(d)
    BY <1>2, <1>3, <1>6, <2>1
  <2> QED
    BY <1>1, <1>4, <1>6, <2>2 DEF Forward
<1> QED
  BY <1>5, <1>6

\* The steps of a child to another place, with nothing new of the signals.
LEMMA GotoForward ==
  ASSUME TypeOK, NEW c \in Children, NEW from, NEW to, Goto(c, from, to),
         song_index' = song_index, wait_flg' = wait_flg,
         SignalsLeft(c)' <= SignalsLeft(c), Place(c)' < Place(c)
  PROVE  Forward
<1>1. Credit(c)' = Credit(c)
  BY DEF Goto, Credit
<1>2. Credit(c) \in Nat /\ Place(c) \in Nat
  BY LeftTypes
<1>3. Place(c)' \in Nat
  BY DEF Place
<1>4. StepsLeft(c)' < StepsLeft(c)
  BY <1>1, <1>2, <1>3 DEF StepsLeft
<1> QED
  BY <1>4, OneForward DEF Goto, TypeOK

\* The child's own steps between two signals: it is nearer to its wait, or to the
\* place where it sends a signal.
LEMMA RoundForward ==
  ASSUME TypeOK, NEW c \in Children,
         \/ SetHandler(c) \/ TestIndex(c) \/ TestFlag(c) \/ Sleep(c) \/ Mine(c)
         \/ LookForLetter(c) \/ Enter(c) \/ LookAgain(c) \/ Take(c)
  PROVE  Forward
<1> DEFINE i == song_index[c]
<1>1. /\ i \in Int /\ pc[c] \in PCs /\ c \in DOMAIN pc /\ wait_flg[c] \in {0, 1}
  BY DEF TypeOK
<1>2. /\ Rest(i) \in Nat /\ Rest(i + 1) \in Nat /\ Rest(i + 1) <= Rest(i)
      /\ i < Len(song) => Rest(i) = 1 + Rest(i + 1)
      /\ ~ (i < Len(song)) => Rest(i) = 0
  BY <1>1, RestFacts
<1>3. ASSUME NEW from, NEW to, Goto(c, from, to) PROVE pc[c] = from /\ pc'[c] = to
  BY <1>1, <1>3 DEF Goto
<1>4. CASE SetHandler(c)
  <2>1. ASSUME NEW to \in {"test", "done"}, Look(c, "born", to) PROVE Forward
    <3>1. Goto(c, "born", to) /\ song_index' = song_index /\ wait_flg' = wait_flg
      BY <2>1 DEF Look, index
    <3>2. pc[c] = "born" /\ pc'[c] \in {"test", "done"}
      BY <1>3, <2>1, <3>1
    <3>3. SignalsLeft(c)' <= SignalsLeft(c) /\ Place(c)' < Place(c)
      BY <1>2, <3>1, <3>2 DEF SignalsLeft, Place
    <3> QED
      BY <3>1, <3>3, GotoForward
  <2> QED
    BY <1>4, <2>1 DEF SetHandler
<1>5. CASE TestIndex(c)
  <2>1. /\ Goto(c, "test", IF i < Len(song) THEN "flag" ELSE "done")
        /\ song_index' = song_index /\ wait_flg' = wait_flg
    BY <1>5 DEF TestIndex, Look, index
  <2>2. CASE i < Len(song)
    <3>1. pc[c] = "test" /\ pc'[c] = "flag"
      BY <1>3, <2>1, <2>2
    <3>2. SignalsLeft(c)' <= SignalsLeft(c) /\ Place(c)' < Place(c)
      BY <1>2, <2>1, <2>2, <3>1 DEF SignalsLeft, Place
    <3> QED
      BY <2>1, <3>2, GotoForward
  <2>3. CASE ~ (i < Len(song))
    <3>1. pc[c] = "test" /\ pc'[c] = "done"
      BY <1>3, <2>1, <2>3
    <3>2. SignalsLeft(c)' <= SignalsLeft(c) /\ Place(c)' < Place(c)
      BY <1>2, <2>1, <2>3, <3>1 DEF SignalsLeft, Place
    <3> QED
      BY <2>1, <3>2, GotoForward
  <2> QED
    BY <2>2, <2>3
<1>6. CASE TestFlag(c)
  <2>1. /\ Goto(c, "flag", IF wait_flg[c] = 1 THEN "await" ELSE "clear")
        /\ song_index' = song_index /\ wait_flg' = wait_flg
    BY <1>6 DEF TestFlag, Look, index
  <2>2. SignalsLeft(c)' <= SignalsLeft(c)
    BY <1>2, <1>3, <2>1 DEF SignalsLeft
  <2>3. Place(c)' < Place(c)
    BY <1>1, <1>3, <2>1 DEF Place
  <2> QED
    BY <2>1, <2>2, <2>3, GotoForward
<1>7. CASE Sleep(c)
  <2>1. Goto(c, "await", "waiting") /\ song_index' = song_index /\ wait_flg' = wait_flg
    BY <1>7 DEF Sleep, Look, index
  <2>2. SignalsLeft(c)' <= SignalsLeft(c) /\ Place(c)' < Place(c)
    BY <1>2, <1>3, <2>1 DEF SignalsLeft, Place
  <2> QED
    BY <2>1, <2>2, GotoForward
<1>8. ASSUME NEW from \in {"mine", "look", "again", "enter", "take"},
             NEW to \in {"kill", "test", "enter", "again", "take"},
             Goto(c, from, to), song_index' = song_index, wait_flg' = wait_flg,
             \/ from = "mine" /\ to \in {"kill", "test"}
             \/ from = "look" /\ to \in {"test", "enter"}
             \/ from = "enter" /\ to = "again"
             \/ from = "again" /\ to \in {"test", "take"}
             \/ from = "take" /\ to = "kill"
      PROVE  Forward
  <2>1. SignalsLeft(c)' <= SignalsLeft(c)
    BY <1>2, <1>3, <1>8 DEF SignalsLeft
  <2>2. Place(c)' < Place(c)
    BY <1>3, <1>8 DEF Place
  <2> QED
    BY <1>8, <2>1, <2>2, GotoForward
<1>9. CASE Mine(c)
  BY <1>8, <1>9 DEF Mine, Look, index
<1>10. CASE LookForLetter(c)
  BY <1>8, <1>10 DEF LookForLetter, Look, index
<1>11. CASE Enter(c)
  BY <1>8, <1>11 DEF Enter, index
<1>12. CASE LookAgain(c)
  BY <1>8, <1>12 DEF LookAgain, index
<1>13. CASE Take(c)
  BY <1>8, <1>13 DEF Take, TakeAndPost, index
<1> QED
  BY <1>4, <1>5, <1>6, <1>7, <1>9, <1>10, <1>11, <1>12, <1>13

\* A signal that is taken is worth more than the round that it begins.
LEMMA TakenForward ==
  ASSUME TypeOK, NEW c \in Children, sigHandler(c) \/ Wake(c) \/ Clear(c)
  PROVE  Forward
<1> DEFINE i == song_index[c]
<1>1. /\ i \in Int /\ pc[c] \in PCs /\ c \in DOMAIN pc /\ wait_flg[c] \in {0, 1}
      /\ c \in DOMAIN song_index /\ c \in DOMAIN wait_flg
  BY DEF TypeOK
<1>2. /\ Rest(i) \in Nat /\ Rest(i + 1) \in Nat /\ Rest(i + 1 + 1) \in Nat
      /\ Rest(i + 1) <= Rest(i) /\ Rest(i + 1 + 1) <= Rest(i + 1)
      /\ i < Len(song) => Rest(i) = 1 + Rest(i + 1)
      /\ ~ (i < Len(song)) => Rest(i) = 0
  <2>1. i + 1 \in Int
    BY <1>1
  <2> HIDE DEF i
  <2> QED
    BY <1>1, <2>1, RestFacts
<1>3. CASE sigHandler(c)
  <2>1. /\ pc' = pc /\ main' = main /\ forked' = forked /\ c \in pending
        /\ pending' = pending \ {c}
        /\ song_index' = [song_index EXCEPT ![c] = @ + 1]
        /\ wait_flg' = [wait_flg EXCEPT ![c] = 0]
    BY <1>3 DEF sigHandler
  <2>2. SignalsLeft(c)' <= SignalsLeft(c)
    BY <1>1, <1>2, <2>1 DEF SignalsLeft
  <2>3. Place(c)' <= Place(c)
    BY <1>1, <2>1 DEF Place
  <2>4. Credit(c)' < Credit(c)
    BY <1>1, <2>1 DEF Credit
  <2>5. StepsLeft(c)' < StepsLeft(c)
    <3>1. /\ Place(c) \in Nat /\ Credit(c) \in Nat
          /\ Place(c)' \in Nat /\ Credit(c)' \in Nat
      BY LeftTypes DEF Place, Credit
    <3> QED
      BY <2>3, <2>4, <3>1 DEF StepsLeft
  <2> QED
    BY <1>1, <2>1, <2>2, <2>5, OneForward DEF TypeOK
<1>4. CASE Wake(c)
  <2>1. /\ pc[c] = "waiting" /\ pc' = [pc EXCEPT ![c] = "clear"] /\ main' = main
        /\ forked' = forked /\ c \in pending /\ pending' = pending \ {c}
        /\ song_index' = song_index /\ wait_flg' = wait_flg
    BY <1>4 DEF Wake, index
  <2>2. SignalsLeft(c)' <= SignalsLeft(c)
    BY <1>1, <1>2, <2>1 DEF SignalsLeft
  <2>3. StepsLeft(c)' < StepsLeft(c)
    BY <1>1, <2>1 DEF StepsLeft, Place, Credit
  <2> QED
    BY <1>1, <2>1, <2>2, <2>3, OneForward DEF TypeOK
<1>5. CASE Clear(c)
  <2>1. /\ pc[c] = "clear" /\ pc'[c] \in {"look", "mine"} /\ main' = main
        /\ \A d \in Children \ {c} : pc'[d] = pc[d]
        /\ forked' = forked /\ pending' = pending
        /\ song_index' = song_index /\ wait_flg' = [wait_flg EXCEPT ![c] = 1]
    BY <1>1, <1>5 DEF Clear, Goto, TypeOK
  <2>2. SignalsLeft(c)' <= SignalsLeft(c)
    BY <1>1, <1>2, <2>1 DEF SignalsLeft
  <2>3. StepsLeft(c)' < StepsLeft(c)
    BY <1>1, <2>1 DEF StepsLeft, Place, Credit
  <2> QED
    BY <1>1, <2>1, <2>2, <2>3, OneForward DEF TypeOK
<1> QED
  BY <1>3, <1>4, <1>5

\* A child that has sent a signal has one less to send, and the others have none
\* more by it, though it lets them go on.
LEMMA KillForward ==
  ASSUME IInv, NEW c \in Children, Kill(c)
  PROVE  Forward
<1> DEFINE i == song_index[c]
<1>1. TypeOK /\ i \in Int /\ \A d \in Children : song_index[d] \in Int
  BY DEF IInv, TypeOK
<1>2. /\ pc[c] = "kill" /\ forked' = forked
      /\ pc' = [d \in Children |-> IF d = c THEN "raise" ELSE AfterSignal(d)]
      /\ song_index' = [song_index EXCEPT ![c] = @ + 1]
  BY DEF Kill, Handled
<1>3. ParentLeft' = ParentLeft
  <2>1. ~ BeforeBegin
    BY <1>2, Begun DEF Awaiting
  <2> QED
    BY <1>2, <2>1 DEF Kill, SignalGroup, BeforeBegin, ParentLeft
<1>4. SignalsLeft(c)' < SignalsLeft(c)
  <2>1. /\ Rest(i + 1) \in Nat /\ Rest(i + 1 + 1) \in Nat
        /\ Rest(i + 1 + 1) <= Rest(i + 1)
    <3>1. i + 1 \in Int
      BY <1>1
    <3> HIDE DEF i
    <3> QED
      BY <1>1, <3>1, RestFacts
  <2>2. pc'[c] = "raise" /\ song_index'[c] = i + 1
    BY <1>1, <1>2 DEF TypeOK
  <2> QED
    BY <1>2, <2>1, <2>2 DEF SignalsLeft
<1>5. ASSUME NEW d \in Children, d # c PROVE SignalsLeft(d)' <= SignalsLeft(d)
  <2>1. song_index'[d] = song_index[d] /\ pc'[d] = AfterSignal(d)
    BY <1>1, <1>2, <1>5 DEF TypeOK
  <2>2. Rest(song_index[d]) \in Nat /\ Rest(song_index[d] + 1) \in Nat
    BY <1>1, RestFacts
  <2> QED
    BY <2>1, <2>2 DEF AfterSignal, SignalsLeft
<1>6. \A d \in Children : SignalsLeft(d)' <= SignalsLeft(d)
  <2>1. SignalsLeft(c) \in Nat /\ SignalsLeft(c)' \in Nat
    <3>1. song_index'[c] \in Int /\ pc'[c] = "raise"
      BY <1>1, <1>2 DEF TypeOK
    <3>2. Rest(song_index'[c] + 1) \in Nat
      BY <3>1, RestFacts
    <3> QED
      BY <1>1, <3>1, <3>2, LeftTypes DEF SignalsLeft
  <2> QED
    BY <1>4, <1>5, <2>1
<1> QED
  BY <1>3, <1>4, <1>6 DEF Forward

\* The child's second signal is for itself: it goes on to its next round.
LEMMA RaiseForward ==
  ASSUME TypeOK, NEW c \in Children, Raise(c)
  PROVE  Forward
<1> DEFINE i == song_index[c]
<1>1. /\ i \in Int /\ wait_flg[c] \in {0, 1} /\ Rest(i + 1) \in Nat
  BY RestFacts DEF TypeOK
<1>2. /\ pc[c] = "raise" /\ c \notin pending /\ pc' = [pc EXCEPT ![c] = "test"]
      /\ song_index' = [song_index EXCEPT ![c] = @ + 1]
      /\ wait_flg' = [wait_flg EXCEPT ![c] = 0]
      /\ main' = main /\ forked' = forked /\ pending' = pending
  BY DEF Raise, Handled
<1>3. pc'[c] = "test" /\ song_index'[c] = i + 1 /\ wait_flg'[c] = 0
  BY <1>2 DEF TypeOK
<1>4. SignalsLeft(c)' <= SignalsLeft(c)
  BY <1>1, <1>2, <1>3 DEF SignalsLeft
<1>5. StepsLeft(c)' < StepsLeft(c)
  BY <1>1, <1>2, <1>3 DEF StepsLeft, Place, Credit
<1> QED
  BY <1>2, <1>4, <1>5, OneForward DEF TypeOK

\* The signals die out, for any number of children and any song: each is paid for
\* by the child that sends it with a letter of the song, and between two signals
\* nobody has more than a bounded number of steps.  With SongStopsFree, the song
\* stops if whoever can go on does.
THEOREM SongGoesForward == Spec => []Bounded /\ [][Forward]_vars
<1>1. IInv => Bounded
  <2> SUFFICES ASSUME IInv PROVE Bounded
    OBVIOUS
  <2>1. ParentLeft \in Nat
    BY NAssumption DEF IInv, TypeOK, ParentLeft
  <2> QED
    BY <2>1, LeftTypes DEF IInv, Bounded, StepsLeft
<1>2. ASSUME IInv, Parent PROVE Forward
  <2>1. forked \in 0..N /\ N \in Nat
    BY <1>2, NAssumption DEF IInv, TypeOK
  <2>2. ParentLeft' < ParentLeft
    BY <1>2, <2>1 DEF Parent, Fork, Install, Begin, WaitAll, SignalGroup, ParentLeft
  <2> QED
    BY <2>2 DEF Forward
<1>3. ASSUME IInv, NEW c \in Children, Child(c) PROVE Forward
  BY <1>3, RoundForward, TakenForward, KillForward, RaiseForward DEF Child, IInv
<1>4. IInv /\ [Next]_vars => [Forward]_vars
  BY <1>2, <1>3 DEF Next, Quiet
<1> QED
  BY <1>1, <1>4, Invariance, PTL DEF Spec
=============================================================================
