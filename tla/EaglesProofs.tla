---------------------------- MODULE EaglesProofs ----------------------------
(***************************************************************************)
(* For every number of eagles, of pieces and of meals, and whichever forks *)
(* fail: the types, the exclusion at the bowl, the state of the bowl when  *)
(* it changes hands, the implementation of Nest, what alone may stop the   *)
(* eagles, and that every step takes them on.                              *)
(***************************************************************************)
EXTENDS Eagles, TLAPS

\* Where eagles and the mother can be: they share no place.
Places ==
  /\ pc[Mother] \in {"unborn", "asleep", "fill", "serve"}
  /\ \A e \in EagleIds :
        pc[e] \in {"unborn", "fork", "hungry", "load", "store", "look",
                   "leave", "call", "done", "failed"}

\* Processes are born in the order of their numbers, each by a fork of the one
\* before it that has not failed.
Chain == \A p, q \in Processes :
            q > p /\ pc[p] \in {"unborn", "fork", "failed"} => pc[q] = "unborn"

\* Without a mother, one process is still forking or has failed to.
EndOfChain == \/ pc[Mother] # "unborn"
              \/ \E e \in EagleIds : pc[e] \in {"fork", "failed"}

\* The permission to touch the bowl is never lost: somebody is at the bowl or
\* one of the two semaphores has it.
Kept == \/ bowl_block = 1 \/ call_mom = 1
        \/ \E p \in Processes : AtBowl(p)

\* What the process at the bowl knows of it.
Bowl ==
  /\ \A e \in EagleIds :
        /\ pc[e] \in {"load", "store", "leave"} => n > 0
        /\ pc[e] = "store" => reg[e] = n
        /\ pc[e] = "call" => n = 0
        /\ pc[e] # "done" => iter[e] < NIters
  /\ pc[Mother] = "serve" => n = N

\* The inductive invariant.
IInv == /\ TypeOK /\ Places /\ Chain /\ EndOfChain
        /\ Bowl /\ OneAtBowl /\ BowlOfferedFull /\ Kept

LEMMA InitIInv == Init => IInv
<1>1. SUFFICES ASSUME Init PROVE IInv
  OBVIOUS
<1>2. NEagles \in Nat \ {0} /\ N \in Nat \ {0} /\ NIters \in Nat \ {0}
  BY EaglesAssumption, FoodAssumption, ItersAssumption
<1>3. TypeOK
  BY <1>1, <1>2 DEF Init, TypeOK, PCs, Processes, EagleIds
<1>4. Mother \in Processes /\ Mother # 0 /\ EagleIds \subseteq Processes
  BY <1>2 DEF Processes, EagleIds, Mother
<1>5. \A p \in Processes : pc[p] = IF p = 0 THEN "fork" ELSE "unborn"
  BY <1>1 DEF Init
<1>6. \A e \in EagleIds : iter[e] = 0
  BY <1>1 DEF Init
<1>7. Places
  BY <1>4, <1>5 DEF Places
<1>8. Chain /\ EndOfChain /\ Kept
  <2>1. Chain
    BY <1>5, <1>2 DEF Chain, Processes
  <2>2. 0 \in EagleIds /\ pc[0] = "fork"
    BY <1>2, <1>4, <1>5 DEF EagleIds
  <2> QED
    BY <1>1, <2>1, <2>2 DEF Init, EndOfChain, Kept
<1>9. Bowl
  BY <1>4, <1>5, <1>6, <1>2 DEF Bowl
<1>10. OneAtBowl /\ BowlOfferedFull
  BY <1>1, <1>2 DEF Init, OneAtBowl, BowlOfferedFull, AtBowl, Processes, Mother
<1> QED
  BY <1>3, <1>7, <1>8, <1>9, <1>10 DEF IInv

\* Each action preserves the inductive invariant.
LEMMA NextIInv == IInv /\ [Next]_vars => IInv'
<1> SUFFICES ASSUME IInv, [Next]_vars PROVE IInv'
  OBVIOUS
<1> USE EaglesAssumption, FoodAssumption, ItersAssumption
      DEF EagleIds, Processes, Mother
<1> USE DEF IInv
<1>1. ASSUME NEW e \in EagleIds, Fork(e) PROVE IInv'
  <2>1. TypeOK'
    BY <1>1 DEF Fork, TypeOK, PCs
  <2>2. /\ pc[e] = "fork"
        /\ \A p \in Processes : p > e => pc[p] = "unborn"
        /\ \A p \in Processes \ {e, e + 1} : pc'[p] = pc[p]
        /\ \/ /\ pc'[e] = "hungry"
              /\ pc'[e + 1] = IF e + 1 = Mother THEN "asleep" ELSE "fork"
           \/ pc'[e] = "failed" /\ pc'[e + 1] = "unborn"
    <3>1. pc[e] = "fork" /\ \A p \in Processes : p > e => pc[p] = "unborn"
      BY <1>1 DEF Fork, Chain
    <3>2. /\ e \in Processes /\ e + 1 \in Processes /\ e # e + 1
          /\ pc[e + 1] = "unborn" /\ pc \in [Processes -> PCs]
      BY <3>1 DEF TypeOK
    <3>3. CASE pc' = [pc EXCEPT ![e] = "hungry",
                        ![e + 1] = IF e + 1 = Mother THEN "asleep" ELSE "fork"]
      <4> HIDE DEF Processes, Mother
      <4> QED
        BY <3>1, <3>2, <3>3
    <3>4. CASE pc' = [pc EXCEPT ![e] = "failed"]
      <4> HIDE DEF Processes, Mother
      <4> QED
        BY <3>1, <3>2, <3>4
    <3> QED
      BY <1>1, <3>3, <3>4 DEF Fork
  <2>3. UNCHANGED <<n, bowl_block, call_mom, iter, reg>>
    BY <1>1 DEF Fork
  <2>4. Places'
    BY <2>2 DEF Places
  <2>5. Chain'
    <3> SUFFICES ASSUME NEW p \in Processes, NEW q \in Processes, q > p,
                        pc'[p] \in {"unborn", "fork", "failed"}
                 PROVE  pc'[q] = "unborn"
      BY DEF Chain
    <3>1. CASE p < e
      BY <2>2, <3>1 DEF Chain
    <3>2. CASE p = e
      BY <2>2, <3>2
    <3>3. CASE p > e
      BY <2>2, <3>3
    <3> QED
      BY <3>1, <3>2, <3>3
  <2>6. Bowl'
    BY <2>2, <2>3 DEF Bowl
  <2>7. \A p \in Processes : AtBowl(p)' => AtBowl(p)
    BY <2>2 DEF AtBowl
  <2>8. OneAtBowl'
    BY <2>3, <2>7 DEF OneAtBowl
  <2>9. BowlOfferedFull'
    BY <2>2, <2>3 DEF BowlOfferedFull
  <2>10. EndOfChain'
    <3>1. CASE pc'[e] = "failed"
      BY <3>1 DEF EndOfChain
    <3>2. CASE pc'[e] = "hungry" /\ e + 1 = Mother
      BY <2>2, <3>2 DEF EndOfChain
    <3>3. CASE pc'[e] = "hungry" /\ e + 1 # Mother
      BY <2>2, <3>3 DEF EndOfChain
    <3> QED
      BY <2>2, <3>1, <3>2, <3>3
  <2>11. Kept'
    BY <2>2, <2>3 DEF Kept, AtBowl
  <2> QED
    BY <2>1, <2>4, <2>5, <2>6, <2>8, <2>9, <2>10, <2>11
<1>2. ASSUME NEW e \in EagleIds, WaitBowl(e) PROVE IInv'
  <2>1. TypeOK'
    BY <1>2 DEF WaitBowl, Goto, TypeOK, PCs
  <2>2. Places' /\ Chain' /\ Bowl'
    BY <1>2 DEF WaitBowl, Goto, TypeOK, Places, Chain, Bowl, OneAtBowl, AtBowl,
                BowlOfferedFull
  <2>3. OneAtBowl' /\ BowlOfferedFull'
    BY <1>2 DEF WaitBowl, Goto, TypeOK, Places, OneAtBowl, BowlOfferedFull,
                AtBowl
  <2>4. EndOfChain' /\ Kept'
    BY <1>2 DEF WaitBowl, Goto, TypeOK, Places, EndOfChain, Kept, OneAtBowl, AtBowl
  <2> QED
    BY <2>1, <2>2, <2>3, <2>4
<1>3. ASSUME NEW e \in EagleIds, Load(e) PROVE IInv'
  <2>1. TypeOK'
    BY <1>3 DEF Load, Goto, TypeOK, PCs
  <2>2. Places' /\ Chain' /\ Bowl'
    <3>1. Places'
      BY <1>3 DEF Load, Goto, TypeOK, Places
    <3>2. Chain'
      BY <1>3 DEF Load, Goto, TypeOK, Chain
    <3>3. Bowl'
      BY <1>3 DEF Load, Goto, TypeOK, Places, Bowl
    <3> QED
      BY <3>1, <3>2, <3>3
  <2>3. OneAtBowl' /\ BowlOfferedFull'
    <3>1. OneAtBowl'
      BY <1>3 DEF Load, Goto, TypeOK, OneAtBowl, AtBowl
    <3>2. BowlOfferedFull'
      BY <1>3 DEF Load, Goto, TypeOK, Places, BowlOfferedFull
    <3> QED
      BY <3>1, <3>2
  <2>4. EndOfChain' /\ Kept'
    BY <1>3 DEF Load, Goto, TypeOK, Places, EndOfChain, Kept, OneAtBowl, AtBowl
  <2> QED
    BY <2>1, <2>2, <2>3, <2>4
<1>4. ASSUME NEW e \in EagleIds, Store(e) PROVE IInv'
  <2>1. TypeOK'
    BY <1>4 DEF Store, Goto, TypeOK, PCs, Bowl
  <2>2. Places' /\ Chain'
    BY <1>4 DEF Store, Goto, TypeOK, Places, Chain
  <2>3. Bowl'
    <3>1. /\ pc[e] = "store" /\ pc'[e] = "look"
          /\ \A o \in Processes \ {e} : pc'[o] = pc[o]
      BY <1>4 DEF Store, Goto, TypeOK
    <3>2. iter' = iter /\ reg' = reg
      BY <1>4 DEF Store
    <3>3. /\ e \in Processes /\ Mother \in Processes \ {e}
          /\ EagleIds \subseteq Processes
      OBVIOUS
    <3>4. AtBowl(e)
      BY <3>1 DEF AtBowl
    <3>5. \A o \in Processes \ {e} : ~ AtBowl(o)
      BY <3>3, <3>4 DEF OneAtBowl
    <3>6. /\ \A o \in EagleIds \ {e} :
                pc'[o] \notin {"load", "store", "leave", "call"}
          /\ pc'[Mother] # "serve"
      BY <3>1, <3>3, <3>5 DEF AtBowl
    <3>7. \A o \in EagleIds : pc'[o] # "done" => iter[o] < NIters
      BY <3>1, <3>3 DEF Bowl
    <3> QED
      BY <3>1, <3>2, <3>6, <3>7 DEF Bowl
  <2>4. OneAtBowl' /\ BowlOfferedFull'
    BY <1>4 DEF Store, Goto, TypeOK, Places, OneAtBowl, BowlOfferedFull, AtBowl
  <2>5. EndOfChain' /\ Kept'
    BY <1>4 DEF Store, Goto, TypeOK, Places, EndOfChain, Kept, OneAtBowl, AtBowl
  <2> QED
    BY <2>1, <2>2, <2>3, <2>4, <2>5
<1>5. ASSUME NEW e \in EagleIds, Look(e) PROVE IInv'
  <2>1. TypeOK'
    BY <1>5 DEF Look, Goto, TypeOK, PCs
  <2>2. Places' /\ Chain' /\ Bowl'
    <3>1. Places'
      BY <1>5 DEF Look, Goto, TypeOK, Places
    <3>2. Chain'
      BY <1>5 DEF Look, Goto, TypeOK, Chain
    <3>3. Bowl'
      BY <1>5 DEF Look, Goto, TypeOK, Places, Bowl
    <3> QED
      BY <3>1, <3>2, <3>3
  <2>3. OneAtBowl' /\ BowlOfferedFull'
    <3>1. OneAtBowl'
      BY <1>5 DEF Look, Goto, TypeOK, OneAtBowl, AtBowl
    <3>2. BowlOfferedFull'
      BY <1>5 DEF Look, Goto, TypeOK, Places, BowlOfferedFull
    <3> QED
      BY <3>1, <3>2
  <2>4. EndOfChain' /\ Kept'
    BY <1>5 DEF Look, Goto, TypeOK, Places, EndOfChain, Kept, OneAtBowl, AtBowl
  <2> QED
    BY <2>1, <2>2, <2>3, <2>4
<1>6. ASSUME NEW e \in EagleIds, Leave(e) PROVE IInv'
  <2>1. bowl_block = 0 /\ call_mom = 0
    BY <1>6 DEF Leave, EndMeal, Goto, TypeOK, OneAtBowl, AtBowl
  <2>2. iter[e] < NIters
    BY <1>6 DEF Leave, EndMeal, Goto, Bowl
  <2>3. TypeOK'
    BY <1>6, <2>1, <2>2 DEF Leave, EndMeal, Goto, TypeOK, PCs
  <2>4. Places'
    BY <1>6 DEF Leave, EndMeal, Goto, TypeOK, Places
  <2>5. Chain'
    BY <1>6 DEF Leave, EndMeal, Goto, TypeOK, Chain
  <2>6. Bowl'
    BY <1>6 DEF Leave, EndMeal, Goto, TypeOK, Places, Bowl
  <2>7. OneAtBowl' /\ BowlOfferedFull'
    BY <1>6 DEF Leave, EndMeal, Goto, TypeOK, Places, OneAtBowl, Bowl,
                BowlOfferedFull, AtBowl
  <2>8. EndOfChain' /\ Kept'
    BY <1>6 DEF Leave, EndMeal, Goto, TypeOK, Places, EndOfChain, Kept, OneAtBowl, AtBowl
  <2> QED
    BY <2>3, <2>4, <2>5, <2>6, <2>7, <2>8
<1>7. ASSUME NEW e \in EagleIds, CallMother(e) PROVE IInv'
  <2>1. bowl_block = 0 /\ call_mom = 0
    BY <1>7 DEF CallMother, EndMeal, Goto, TypeOK, OneAtBowl, AtBowl
  <2>2. iter[e] < NIters
    BY <1>7 DEF CallMother, EndMeal, Goto, Bowl
  <2>3. TypeOK'
    BY <1>7, <2>1, <2>2 DEF CallMother, EndMeal, Goto, TypeOK, PCs
  <2>4. Places'
    BY <1>7 DEF CallMother, EndMeal, Goto, TypeOK, Places
  <2>5. Chain'
    BY <1>7 DEF CallMother, EndMeal, Goto, TypeOK, Chain
  <2>6. Bowl'
    BY <1>7 DEF CallMother, EndMeal, Goto, TypeOK, Places, Bowl
  <2>7. OneAtBowl' /\ BowlOfferedFull'
    BY <1>7 DEF CallMother, EndMeal, Goto, TypeOK, Places, OneAtBowl, Bowl,
                BowlOfferedFull, AtBowl
  <2>8. EndOfChain' /\ Kept'
    BY <1>7 DEF CallMother, EndMeal, Goto, TypeOK, Places, EndOfChain, Kept, OneAtBowl, AtBowl
  <2> QED
    BY <2>3, <2>4, <2>5, <2>6, <2>7, <2>8
<1>8. ASSUME WakeUp PROVE IInv'
  <2>1. TypeOK'
    BY <1>8 DEF WakeUp, Goto, TypeOK, PCs
  <2>2. Places' /\ Chain' /\ Bowl'
    BY <1>8 DEF WakeUp, Goto, TypeOK, Places, Chain, Bowl
  <2>3. OneAtBowl' /\ BowlOfferedFull'
    BY <1>8 DEF WakeUp, Goto, TypeOK, Places, OneAtBowl, BowlOfferedFull, AtBowl
  <2>4. EndOfChain' /\ Kept'
    BY <1>8 DEF WakeUp, Goto, TypeOK, Places, EndOfChain, Kept, OneAtBowl, AtBowl
  <2> QED
    BY <2>1, <2>2, <2>3, <2>4
<1>9. ASSUME Fill PROVE IInv'
  <2>1. TypeOK'
    BY <1>9 DEF Fill, Goto, TypeOK, PCs
  <2>2. Places' /\ Chain'
    BY <1>9 DEF Fill, Goto, TypeOK, Places, Chain
  <2>3. Bowl'
    BY <1>9 DEF Fill, Goto, TypeOK, Places, Bowl, OneAtBowl, AtBowl
  <2>4. OneAtBowl' /\ BowlOfferedFull'
    BY <1>9 DEF Fill, Goto, TypeOK, Places, OneAtBowl, BowlOfferedFull, AtBowl
  <2>5. EndOfChain' /\ Kept'
    BY <1>9 DEF Fill, Goto, TypeOK, Places, EndOfChain, Kept, OneAtBowl, AtBowl
  <2> QED
    BY <2>1, <2>2, <2>3, <2>4, <2>5
<1>10. ASSUME Serve PROVE IInv'
  <2>1. TypeOK'
    BY <1>10 DEF Serve, Goto, TypeOK, PCs, OneAtBowl, AtBowl
  <2>2. Places' /\ Chain' /\ Bowl'
    BY <1>10 DEF Serve, Goto, TypeOK, Places, Chain, Bowl
  <2>3. OneAtBowl' /\ BowlOfferedFull'
    BY <1>10 DEF Serve, Goto, TypeOK, Places, Bowl, OneAtBowl, BowlOfferedFull,
                 AtBowl
  <2>4. EndOfChain' /\ Kept'
    BY <1>10 DEF Serve, Goto, TypeOK, Places, EndOfChain, Kept, OneAtBowl, AtBowl
  <2> QED
    BY <2>1, <2>2, <2>3, <2>4
<1>11. ASSUME UNCHANGED vars PROVE IInv'
  BY <1>11 DEF vars, TypeOK, Places, Chain, EndOfChain, Bowl, OneAtBowl,
               BowlOfferedFull, Kept, AtBowl
<1> QED
  BY <1>1, <1>2, <1>3, <1>4, <1>5, <1>6, <1>7, <1>8, <1>9, <1>10, <1>11
     DEF Next, Eagle, MotherStep, Quiet

LEMMA SpecIInv == Spec => []IInv
  BY InitIInv, NextIInv, PTL DEF Spec

-----------------------------------------------------------------------------

\* The semaphores are binary, the bowl never holds less than nothing nor more
\* than the mother brings, and no eagle has a meal too many.
THEOREM TypesCorrect == Spec => []TypeOK
<1>1. IInv => TypeOK
  BY DEF IInv
<1> QED
  BY SpecIInv, <1>1, PTL

\* Whoever touches the bowl does so alone.
THEOREM MutualExclusion == Spec => []OneAtBowl
<1>1. IInv => OneAtBowl
  BY DEF IInv
<1> QED
  BY SpecIInv, <1>1, PTL

\* A free bowl has food in it, and the mother comes to an empty one only.
THEOREM HandOver == Spec => []BowlOfferedFull
<1>1. IInv => BowlOfferedFull
  BY DEF IInv
<1> QED
  BY SpecIInv, <1>1, PTL

-----------------------------------------------------------------------------
(* Progress.  A process that waits is let in by the permission to touch    *)
(* the bowl, which is never lost; and no process ever goes back.           *)

\* Stuck is what it says: in such a state no step is possible.
LEMMA StuckIsStuck == IInv /\ Stuck => ~ Next
<1> SUFFICES ASSUME IInv, Stuck, Next PROVE FALSE
  OBVIOUS
<1>1. ASSUME NEW e \in EagleIds, Eagle(e) PROVE FALSE
  <2>1. TypeOK /\ Waits(e)
    BY DEF IInv, Stuck
  <2> QED
    BY <1>1, <2>1 DEF Eagle, Fork, WaitBowl, Load, Store, Look, Leave,
                      CallMother, EndMeal, Goto, Waits, TypeOK
<1>2. ASSUME MotherStep PROVE FALSE
  BY <1>2 DEF IInv, Stuck, MotherWaits, MotherStep, WakeUp, Fill, Serve, Goto,
              TypeOK
<1> QED
  BY <1>1, <1>2 DEF Next, Quiet, Stuck

\* Whatever the interleaving, the eagles stop before their last meal only
\* because a fork has failed: the permission that travels from semaphore to
\* semaphore is with somebody who can use it, unless it is the missing mother.
THEOREM NeverStuckWithMother == Spec => []StuckOnlyWithoutMother
<1>1. IInv => StuckOnlyWithoutMother
  <2> SUFFICES ASSUME IInv, Stuck
               PROVE  /\ pc[Mother] = "unborn"
                      /\ \E e \in EagleIds : pc[e] = "failed"
                      /\ \/ n = 0 /\ call_mom = 1
                         \/ \A e \in EagleIds :
                               pc[e] \in {"done", "failed", "unborn"}
    BY DEF StuckOnlyWithoutMother
  <2> USE EaglesAssumption DEF Mother, EagleIds, Processes
  <2>1. \A p \in Processes : ~ AtBowl(p)
    BY DEF Stuck, Waits, MotherWaits, AtBowl
  <2>2. bowl_block = 1 \/ call_mom = 1
    BY <2>1 DEF IInv, Kept
  <2>3. bowl_block = 1 => \A e \in EagleIds :
                             pc[e] \in {"done", "failed", "unborn"}
    BY DEF Stuck, Waits
  <2>4. pc[Mother] = "unborn"
    <3>1. SUFFICES ASSUME pc[Mother] = "asleep", call_mom = 0 PROVE FALSE
      BY DEF Stuck, MotherWaits
    <3>2. \A e \in EagleIds : pc[e] \notin {"failed", "unborn"}
      BY <3>1 DEF IInv, Chain
    <3>3. AllFed
      BY <2>2, <2>3, <3>1, <3>2 DEF AllFed
    <3> QED
      BY <3>1, <3>3 DEF Stuck, MotherAlone
  <2>5. \E e \in EagleIds : pc[e] = "failed"
    BY <2>4 DEF IInv, EndOfChain, Stuck, Waits
  <2>6. call_mom = 1 => n = 0
    BY DEF IInv, BowlOfferedFull
  <2> QED
    BY <2>2, <2>3, <2>4, <2>5, <2>6
<1> QED
  BY SpecIInv, <1>1, PTL

\* How far eagle e has come: its meals, and its way through the one at hand.
Place(e) == CASE pc[e] = "unborn" -> 0
              [] pc[e] = "fork"   -> 1
              [] pc[e] = "hungry" -> 2
              [] pc[e] = "load"   -> 3
              [] pc[e] = "store"  -> 4
              [] pc[e] = "look"   -> 5
              [] pc[e] \in {"leave", "call"}  -> 6
              [] pc[e] \in {"done", "failed"} -> 7

Rank(e) == 5 * iter[e] + Place(e)

\* What the mother has left to do for the calls that have been made.
Duties == 3 * call_mom + (IF pc[Mother] = "fill" THEN 2 ELSE
                          IF pc[Mother] = "serve" THEN 1 ELSE 0)

\* Nobody comes further than the end of the last meal, or has less to do than
\* nothing.
Bounded == /\ \A e \in EagleIds : Rank(e) \in 0..(5 * NIters + 7)
           /\ Duties \in Nat

\* No eagle goes back, and every step takes an eagle on or leaves the mother
\* with less to do, until the program has come to its end.
Forward == /\ \A e \in EagleIds : Rank(e)' >= Rank(e)
           /\ \/ \E e \in EagleIds : Rank(e)' > Rank(e)
              \/ Duties' < Duties
              \/ MotherAlone

\* A process that goes on leaves the others where they are.
LEMMA GotoMovesOne ==
  ASSUME pc \in [Processes -> PCs], NEW e \in EagleIds, NEW from, NEW to,
         Goto(e, from, to)
  PROVE  \A o \in EagleIds \ {e} : pc'[o] = pc[o]
<1>1. e \in Processes /\ EagleIds \subseteq Processes
  BY EaglesAssumption DEF EagleIds, Processes
<1> QED
  BY <1>1 DEF Goto

\* How far an eagle has come is a number, and only its own place and meals count.
LEMMA RankFacts ==
  ASSUME IInv, NEW e \in EagleIds
  PROVE  /\ Rank(e) \in Int
         /\ pc'[e] = pc[e] /\ iter'[e] = iter[e] => Rank(e)' = Rank(e)
<1>1. iter[e] \in Nat
  BY ItersAssumption DEF IInv, TypeOK
<1>2. Place(e) \in Int
  BY DEF IInv, Places, Place
<1>3. ASSUME pc'[e] = pc[e], iter'[e] = iter[e] PROVE Rank(e)' = Rank(e)
  BY <1>3 DEF Rank, Place
<1> QED
  BY <1>1, <1>2, <1>3 DEF Rank

\* A step of eagle e takes it on and no other eagle back.
LEMMA EagleGoesOn ==
  ASSUME IInv, NEW e \in EagleIds, Eagle(e)
  PROVE  Rank(e)' > Rank(e) /\ \A o \in EagleIds : Rank(o)' >= Rank(o)
<1> USE EaglesAssumption, FoodAssumption, ItersAssumption
      DEF EagleIds, Processes, Mother
<1>1. TypeOK /\ Places
  BY DEF IInv
<1>2. \A o \in EagleIds : iter[o] \in Nat
  BY <1>1 DEF TypeOK
<1>3. CASE Fork(e)
  <2>1. \A q \in Processes : q > e => pc[q] = "unborn"
    BY <1>3 DEF IInv, Chain, Fork
  <2>2. \A q \in EagleIds : q # e /\ q # e + 1 => pc'[q] = pc[q]
    BY <1>1, <1>3 DEF Fork, TypeOK
  <2>3. pc[e] = "fork" /\ pc'[e] \in {"hungry", "failed"} /\ iter' = iter
    BY <1>1, <1>3 DEF Fork, TypeOK
  <2>4. e + 1 \in EagleIds => /\ pc[e + 1] = "unborn"
                              /\ pc'[e + 1] \in {"fork", "unborn"}
    BY <1>1, <1>3, <2>1 DEF Fork, TypeOK
  <2>5. Rank(e)' > Rank(e)
    BY <1>2, <2>3 DEF Rank, Place
  <2>6. ASSUME NEW o \in EagleIds PROVE Rank(o)' >= Rank(o)
    <3>1. CASE o = e
      BY <1>2, <2>3, <3>1 DEF Rank, Place
    <3>2. CASE o = e + 1
      BY <1>2, <2>3, <2>4, <3>2 DEF Rank, Place
    <3>3. CASE o # e /\ o # e + 1
      <4>1. Rank(o)' = Rank(o) /\ Rank(o) \in Int
        BY <2>2, <2>3, <3>3, RankFacts
      <4> QED
        BY <4>1
    <3> QED
      BY <3>1, <3>2, <3>3
  <2> QED
    BY <2>5, <2>6
<1>4. IInv'
  BY NextIInv DEF Next
<1>5. CASE ~ Fork(e)
  <2>1. \A o \in EagleIds \ {e} : pc'[o] = pc[o] /\ iter'[o] = iter[o]
    <3>1. CASE WaitBowl(e)
      BY <1>1, <3>1, GotoMovesOne DEF WaitBowl, TypeOK
    <3>2. CASE Load(e)
      BY <1>1, <3>2, GotoMovesOne DEF Load, TypeOK
    <3>3. CASE Store(e)
      BY <1>1, <3>3, GotoMovesOne DEF Store, TypeOK
    <3>4. CASE Look(e)
      BY <1>1, <3>4, GotoMovesOne DEF Look, TypeOK
    <3>5. ASSUME NEW from, EndMeal(e, from)
          PROVE  \A o \in EagleIds \ {e} : pc'[o] = pc[o] /\ iter'[o] = iter[o]
      <4>1. \A o \in EagleIds \ {e} : pc'[o] = pc[o]
        BY <1>1, <3>5, GotoMovesOne DEF EndMeal, TypeOK
      <4>2. \A o \in EagleIds \ {e} : iter'[o] = iter[o]
        BY <1>1, <3>5 DEF EndMeal, TypeOK
      <4> QED
        BY <4>1, <4>2
    <3> QED
      BY <1>5, <3>1, <3>2, <3>3, <3>4, <3>5 DEF Eagle, Leave, CallMother
  <2>2. \A o \in EagleIds \ {e} : Rank(o)' = Rank(o) /\ Rank(o) \in Int
    BY <2>1, RankFacts
  <2>3. Rank(e)' > Rank(e)
    <3> USE DEF Rank, Place
    <3>1. CASE WaitBowl(e)
      BY <1>1, <1>2, <3>1 DEF WaitBowl, Goto, TypeOK, Rank, Place
    <3>2. CASE Load(e)
      BY <1>1, <1>2, <3>2 DEF Load, Goto, TypeOK, Rank, Place
    <3>3. CASE Store(e)
      BY <1>1, <1>2, <3>3 DEF Store, Goto, TypeOK, Rank, Place
    <3>4. CASE Look(e)
      BY <1>1, <1>2, <3>4 DEF Look, Goto, TypeOK, Rank, Place
    <3>5. CASE Leave(e) \/ CallMother(e)
      <4>1. /\ pc[e] \in {"leave", "call"} /\ pc'[e] \in {"hungry", "done"}
            /\ iter'[e] = iter[e] + 1
        <5> HIDE DEF Rank, Place
        <5>1. CASE Leave(e)
          BY <1>1, <5>1 DEF Leave, EndMeal, Goto, TypeOK
        <5>2. CASE CallMother(e)
          BY <1>1, <5>2 DEF CallMother, EndMeal, Goto, TypeOK
        <5> QED
          BY <3>5, <5>1, <5>2
      <4> QED
        BY <1>2, <4>1 DEF Rank, Place
    <3> QED
      BY <1>5, <3>1, <3>2, <3>3, <3>4, <3>5 DEF Eagle
  <2>4. ASSUME NEW o \in EagleIds PROVE Rank(o)' >= Rank(o)
    <3>1. CASE o = e
      <4>1. Rank(e) \in Int /\ Rank(e)' \in Int
        <5>1. iter'[e] \in Nat /\ iter[e] \in Nat /\ Places'
          BY <1>1, <1>4 DEF IInv, TypeOK
        <5> QED
          BY <1>1, <5>1 DEF Rank, Place, Places
      <4> QED
        BY <2>3, <3>1, <4>1
    <3>2. CASE o # e
      BY <2>2, <3>2
    <3> QED
      BY <3>1, <3>2
  <2> QED
    BY <2>3, <2>4
<1> QED
  BY <1>3, <1>5

\* Nobody goes back, and every step leaves less to do: each eagle has a bounded
\* number of steps, and the mother's are bounded by the calls to her.  With
\* NeverStuckWithMother, the eagles are all fed if whoever can move does.
THEOREM EaglesGoForward == Spec => []Bounded /\ [][Forward]_vars
<1> USE EaglesAssumption, FoodAssumption, ItersAssumption
      DEF EagleIds, Processes, Mother
<1>1. IInv => Bounded
  <2> SUFFICES ASSUME IInv PROVE Bounded
    OBVIOUS
  <2>1. Duties \in Nat
    BY DEF IInv, TypeOK, Duties
  <2>2. ASSUME NEW e \in EagleIds PROVE Rank(e) \in 0..(5 * NIters + 7)
    <3>1. /\ iter[e] \in 0..NIters
          /\ pc[e] # "done" => iter[e] < NIters
          /\ pc[e] \in {"unborn", "fork", "hungry", "load", "store", "look",
                        "leave", "call", "done", "failed"}
      BY DEF IInv, TypeOK, Bowl, Places
    <3> QED
      BY <3>1 DEF Rank, Place
  <2> QED
    BY <2>1, <2>2 DEF Bounded
<1>2. ASSUME IInv, Next PROVE Forward
  <2>1. ASSUME NEW e \in EagleIds, Eagle(e) PROVE Forward
    BY <1>2, <2>1, EagleGoesOn DEF Forward
  <2>2. ASSUME MotherStep PROVE Forward
    <3>1. \A o \in EagleIds : pc'[o] = pc[o] /\ iter'[o] = iter[o]
      BY <1>2, <2>2 DEF MotherStep, WakeUp, Fill, Serve, Goto, IInv, TypeOK
    <3>2. \A o \in EagleIds : Rank(o)' = Rank(o) /\ Rank(o) \in Int
      BY <1>2, <3>1, RankFacts
    <3>3. Duties' < Duties
      <4>1. CASE WakeUp
        <5>1. /\ pc[Mother] = "asleep" /\ pc'[Mother] = "fill"
              /\ call_mom \in Int /\ call_mom' = call_mom - 1
          BY <1>2, <4>1 DEF WakeUp, Goto, IInv, TypeOK
        <5> QED
          BY <5>1 DEF Duties
      <4>2. CASE Fill
        <5>1. /\ pc[Mother] = "fill" /\ pc'[Mother] = "serve"
              /\ call_mom \in Int /\ call_mom' = call_mom
          BY <1>2, <4>2 DEF Fill, Goto, IInv, TypeOK
        <5> QED
          BY <5>1 DEF Duties
      <4>3. CASE Serve
        <5>1. /\ pc[Mother] = "serve" /\ pc'[Mother] = "asleep"
              /\ call_mom \in Int /\ call_mom' = call_mom
          BY <1>2, <4>3 DEF Serve, Goto, IInv, TypeOK
        <5> QED
          BY <5>1 DEF Duties
      <4> QED
        BY <2>2, <4>1, <4>2, <4>3 DEF MotherStep
    <3> QED
      BY <3>2, <3>3 DEF Forward
  <2>3. ASSUME Quiet PROVE Forward
    <3>1. \A o \in EagleIds : Rank(o)' = Rank(o) /\ Rank(o) \in Int
      BY <1>2, <2>3, RankFacts DEF Quiet, vars
    <3> QED
      BY <2>3, <3>1 DEF Quiet, Forward
  <2> QED
    BY <1>2, <2>1, <2>2, <2>3 DEF Next
<1>3. IInv /\ [Next]_vars => [Forward]_vars
  BY <1>2
<1> QED
  BY SpecIInv, <1>1, <1>3, PTL DEF Spec

-----------------------------------------------------------------------------
(* The refinement.  A meal is eaten by the store of *n, which takes one    *)
(* piece because the bowl is the eagle's from the load on (Bowl); all      *)
(* other steps but the mother's Fill change nothing in the nest.           *)

\* A step leaves the nest alone when it leaves alone the bowl and what the map
\* reads of each eagle.
LEMMA EatenUnchanged ==
  ASSUME \A e \in EagleIds :
            (IF pc[e] \in {"look", "leave", "call"} THEN iter[e] + 1
                                                    ELSE iter[e])'
            = IF pc[e] \in {"look", "leave", "call"} THEN iter[e] + 1
                                                     ELSE iter[e],
         n' = n
  PROVE  UNCHANGED TheNest!vars
  BY DEF TheNest!vars, eaten

LEMMA StepRefines == IInv /\ [Next]_vars => [TheNest!Next]_TheNest!vars
<1> SUFFICES ASSUME IInv, [Next]_vars PROVE [TheNest!Next]_TheNest!vars
  OBVIOUS
<1> USE EaglesAssumption, FoodAssumption, ItersAssumption
      DEF EagleIds, Processes, Mother
<1>1. ASSUME NEW e \in EagleIds, Fork(e) PROVE UNCHANGED TheNest!vars
  <2>1. \A q \in Processes : q > e => pc[q] = "unborn"
    BY <1>1 DEF IInv, Chain, Fork
  <2>2. \A q \in EagleIds : q # e /\ q # e + 1 => pc'[q] = pc[q]
    BY <1>1 DEF Fork, IInv, TypeOK
  <2>3. pc[e] = "fork" /\ pc'[e] \in {"hungry", "failed"}
    BY <1>1 DEF Fork, IInv, TypeOK
  <2>4. e + 1 \in EagleIds => pc'[e + 1] \in {"fork", "unborn"}
    BY <1>1, <2>1 DEF Fork, IInv, TypeOK
  <2> QED
    BY <1>1, <2>1, <2>2, <2>3, <2>4, EatenUnchanged DEF Fork
<1>2. ASSUME NEW e \in EagleIds, WaitBowl(e) PROVE UNCHANGED TheNest!vars
  BY <1>2, EatenUnchanged DEF WaitBowl, Goto, IInv, TypeOK
<1>3. ASSUME NEW e \in EagleIds, Load(e) PROVE UNCHANGED TheNest!vars
  BY <1>3, EatenUnchanged DEF Load, Goto, IInv, TypeOK
<1>4. ASSUME NEW e \in EagleIds, Store(e) PROVE TheNest!Eat(e)
  <2>1. n > 0 /\ n' = n - 1 /\ iter[e] < NIters
    BY <1>4 DEF Store, Goto, IInv, Bowl
  <2>2. pc[e] = "store" /\ pc' = [pc EXCEPT ![e] = "look"] /\ iter' = iter
    BY <1>4 DEF Store, Goto
  <2>3. eaten[e] = iter[e] /\ eaten' = [eaten EXCEPT ![e] = @ + 1]
    <3>1. pc'[e] = "look" /\ \A q \in EagleIds \ {e} : pc'[q] = pc[q]
      BY <2>2 DEF IInv, TypeOK
    <3>2. eaten[e] = iter[e] /\ eaten'[e] = iter[e] + 1
      BY <2>2, <3>1 DEF eaten
    <3>3. \A q \in EagleIds \ {e} : eaten'[q] = eaten[q]
      BY <2>2, <3>1 DEF eaten
    <3>4. /\ eaten = [q \in EagleIds |-> eaten[q]]
          /\ eaten' = [q \in EagleIds |-> eaten'[q]]
      BY DEF eaten
    <3> HIDE DEF eaten
    <3> QED
      BY <3>2, <3>3, <3>4
  <2> QED
    BY <2>1, <2>3 DEF TheNest!Eat, eaten
<1>5. ASSUME NEW e \in EagleIds, Look(e) PROVE UNCHANGED TheNest!vars
  BY <1>5, EatenUnchanged DEF Look, Goto, IInv, TypeOK
<1>6. ASSUME NEW e \in EagleIds, Leave(e) PROVE UNCHANGED TheNest!vars
  <2>1. /\ pc[e] = "leave" /\ pc'[e] \in {"hungry", "done"}
        /\ iter'[e] = iter[e] + 1 /\ n' = n
    BY <1>6 DEF Leave, EndMeal, Goto, IInv, TypeOK
  <2>2. \A q \in EagleIds \ {e} : pc'[q] = pc[q]
    BY <1>6, GotoMovesOne DEF Leave, EndMeal, IInv, TypeOK
  <2>3. \A q \in EagleIds \ {e} : iter'[q] = iter[q]
    BY <1>6 DEF Leave, EndMeal, IInv, TypeOK
  <2> QED
    BY <2>1, <2>2, <2>3, EatenUnchanged
<1>7. ASSUME NEW e \in EagleIds, CallMother(e) PROVE UNCHANGED TheNest!vars
  <2>1. /\ pc[e] = "call" /\ pc'[e] \in {"hungry", "done"}
        /\ iter'[e] = iter[e] + 1 /\ n' = n
    BY <1>7 DEF CallMother, EndMeal, Goto, IInv, TypeOK
  <2>2. \A q \in EagleIds \ {e} : pc'[q] = pc[q]
    BY <1>7, GotoMovesOne DEF CallMother, EndMeal, IInv, TypeOK
  <2>3. \A q \in EagleIds \ {e} : iter'[q] = iter[q]
    BY <1>7 DEF CallMother, EndMeal, IInv, TypeOK
  <2> QED
    BY <2>1, <2>2, <2>3, EatenUnchanged
<1>8. ASSUME WakeUp PROVE UNCHANGED TheNest!vars
  BY <1>8, EatenUnchanged DEF WakeUp, Goto, IInv, TypeOK
<1>9. ASSUME Fill PROVE TheNest!Refill
  <2>1. n = 0 /\ n' = N
    BY <1>9 DEF Fill, Goto, IInv, BowlOfferedFull
  <2>2. eaten' = eaten
    BY <1>9 DEF Fill, Goto, eaten, IInv, TypeOK
  <2> QED
    BY <2>1, <2>2 DEF TheNest!Refill, eaten
<1>10. ASSUME Serve PROVE UNCHANGED TheNest!vars
  BY <1>10, EatenUnchanged DEF Serve, Goto, IInv, TypeOK
<1>11. ASSUME UNCHANGED vars PROVE UNCHANGED TheNest!vars
  BY <1>11, EatenUnchanged DEF vars
<1> QED
  BY <1>1, <1>2, <1>3, <1>4, <1>5, <1>6, <1>7, <1>8, <1>9, <1>10, <1>11
     DEF Next, Eagle, MotherStep, Quiet, TheNest!Next

\* Two semaphores and a shared counter implement the nest: every meal takes
\* exactly one piece and the bowl is refilled only when it is empty.
THEOREM Implementation == Spec => ImplementsNest
<1>1. Init => TheNest!Init
  <2> SUFFICES ASSUME Init PROVE TheNest!Init
    OBVIOUS
  <2>1. \A e \in EagleIds : pc[e] \in {"fork", "unborn"} /\ iter[e] = 0
    BY EaglesAssumption DEF Init, EagleIds, Processes
  <2>2. eaten = [e \in EagleIds |-> 0]
    BY <2>1 DEF eaten
  <2> QED
    BY <2>2 DEF Init, TheNest!Init, eaten
<1> QED
  BY <1>1, SpecIInv, StepRefines, PTL DEF Spec, ImplementsNest, TheNest!Spec
=============================================================================
