------------------------------- MODULE Eagles -------------------------------
(***************************************************************************)
(* eagles/main.cpp: n_eagles processes eat from a bowl in shared memory, a *)
(* further process, the mother, refills it.  Two semaphores: bowl_block    *)
(* lets one process at the bowl, call_mom wakes the mother.  The eagle     *)
(* that takes the last piece does not give bowl_block back: it posts       *)
(* call_mom, and the mother posts bowl_block when the bowl is full.        *)
(*                                                                         *)
(* The processes are a chain: process p forks process p + 1 and becomes    *)
(* eagle p; the last child becomes the mother.  A fork that fails returns  *)
(* -1, which the code takes for a child's pid: process p turns eagle, sees *)
(* the errno that fork has left, takes it for an error of shmat and exits. *)
(* The chain ends there, without a mother.                                 *)
(***************************************************************************)
EXTENDS Integers

CONSTANTS NEagles,      \* n_eagles
          N,            \* pieces of food that the mother brings
          NIters,       \* n_iters, meals of each eagle
          ForkMayFail   \* whether fork() may return -1

ASSUME EaglesAssumption == NEagles \in Nat \ {0}
ASSUME FoodAssumption   == N \in Nat \ {0}
ASSUME ItersAssumption  == NIters \in Nat \ {0}
ASSUME ForkAssumption   == ForkMayFail \in BOOLEAN

VARIABLES n,            \* pieces in the bowl, in shared memory
          bowl_block,   \* value of the semaphore of the bowl
          call_mom,     \* value of the semaphore of the mother
          pc,           \* where each process is
          iter,         \* the loop counter of each eagle
          reg           \* the value of *n that each eagle has loaded

vars == <<n, bowl_block, call_mom, pc, iter, reg>>

EagleIds  == 0..(NEagles - 1)
Mother    == NEagles
Processes == 0..NEagles

PCs == {"unborn", "fork", "hungry", "load", "store", "look", "leave", "call",
        "asleep", "fill", "serve", "done", "failed"}

Init == /\ n = N
        /\ bowl_block = 1
        /\ call_mom = 0
        /\ pc = [p \in Processes |-> IF p = 0 THEN "fork" ELSE "unborn"]
        /\ iter = [p \in EagleIds |-> 0]
        /\ reg = [p \in EagleIds |-> N]

Goto(p, from, to) == pc[p] = from /\ pc' = [pc EXCEPT ![p] = to]

-----------------------------------------------------------------------------
(* The fork loop.                                                          *)

Fork(p) ==
  /\ pc[p] = "fork"
  /\ \/ pc' = [pc EXCEPT ![p] = "hungry",
                         ![p + 1] = IF p + 1 = Mother THEN "asleep" ELSE "fork"]
     \/ ForkMayFail /\ pc' = [pc EXCEPT ![p] = "failed"]
  /\ UNCHANGED <<n, bowl_block, call_mom, iter, reg>>

-----------------------------------------------------------------------------
(* An eagle: one iteration of the loop over n_iters.                       *)

\* An eagle that does not wait for the bowl.
RushToBowl(e) == /\ Goto(e, "hungry", "load")
                 /\ UNCHANGED <<n, bowl_block, call_mom, iter, reg>>
WaitBowl(e) == /\ Goto(e, "hungry", "load")
               /\ bowl_block > 0
               /\ bowl_block' = bowl_block - 1
               /\ UNCHANGED <<n, call_mom, iter, reg>>

\* (*n)-- is a load and a store.
Load(e) == /\ Goto(e, "load", "store")
           /\ reg' = [reg EXCEPT ![e] = n]
           /\ UNCHANGED <<n, bowl_block, call_mom, iter>>

Store(e) == /\ Goto(e, "store", "look")
            /\ n' = reg[e] - 1
            /\ UNCHANGED <<bowl_block, call_mom, iter, reg>>

\* An eagle that calls the mother while one piece is left.
LookTooEarly(e) == /\ Goto(e, "look", IF n > 1 THEN "leave" ELSE "call")
                   /\ UNCHANGED <<n, bowl_block, call_mom, iter, reg>>
Look(e) == /\ Goto(e, "look", IF n > 0 THEN "leave" ELSE "call")
           /\ UNCHANGED <<n, bowl_block, call_mom, iter, reg>>

\* An eagle that does not count its meals.
EndMealUncounted(e, from) ==
  /\ Goto(e, from, IF iter[e] + 1 < NIters THEN "hungry" ELSE "done")
  /\ UNCHANGED iter
\* sleep(1), and the end of the iteration.
EndMeal(e, from) ==
  /\ Goto(e, from, IF iter[e] + 1 < NIters THEN "hungry" ELSE "done")
  /\ iter' = [iter EXCEPT ![e] = @ + 1]

Leave(e) == /\ EndMeal(e, "leave")
            /\ bowl_block' = bowl_block + 1
            /\ UNCHANGED <<n, call_mom, reg>>

\* An eagle that also gives the empty bowl back when it calls the mother.
CallAndLeave(e) == /\ EndMeal(e, "call")
                   /\ call_mom' = call_mom + 1
                   /\ bowl_block' = bowl_block + 1
                   /\ UNCHANGED <<n, reg>>
CallMother(e) == /\ EndMeal(e, "call")
                 /\ call_mom' = call_mom + 1
                 /\ UNCHANGED <<n, bowl_block, reg>>

Eagle(e) == \/ Fork(e) \/ WaitBowl(e) \/ Load(e) \/ Store(e) \/ Look(e)
            \/ Leave(e) \/ CallMother(e)

-----------------------------------------------------------------------------
(* The mother's loop.                                                      *)

WakeUp == /\ Goto(Mother, "asleep", "fill")
          /\ call_mom > 0
          /\ call_mom' = call_mom - 1
          /\ UNCHANGED <<n, bowl_block, iter, reg>>

Fill == /\ Goto(Mother, "fill", "serve")
        /\ n' = N
        /\ UNCHANGED <<bowl_block, call_mom, iter, reg>>

\* A mother that brings food and does not give the bowl back.
ServeNobody == /\ Goto(Mother, "serve", "asleep")
               /\ UNCHANGED <<n, bowl_block, call_mom, iter, reg>>
Serve == /\ Goto(Mother, "serve", "asleep")
         /\ bowl_block' = bowl_block + 1
         /\ UNCHANGED <<n, call_mom, iter, reg>>

MotherStep == WakeUp \/ Fill \/ Serve

-----------------------------------------------------------------------------

AllFed == \A e \in EagleIds : pc[e] = "done"

\* The eagles have exited; the mother, who loops for ever, waits for a call
\* that nobody is left to make.
MotherAlone == AllFed /\ pc[Mother] = "asleep" /\ call_mom = 0

Quiet == MotherAlone /\ UNCHANGED vars

Next == (\E e \in EagleIds : Eagle(e)) \/ MotherStep \/ Quiet

Spec == Init /\ [][Next]_vars

\* Every process that can run is run in the end, and a post wakes a waiter.
Fairness == WF_vars(MotherStep) /\ \A e \in EagleIds : WF_vars(Eagle(e))

FairSpec == Spec /\ Fairness

-----------------------------------------------------------------------------
(* Properties.                                                             *)

TypeOK == /\ n \in 0..N
          /\ bowl_block \in {0, 1}
          /\ call_mom \in {0, 1}
          /\ pc \in [Processes -> PCs]
          /\ iter \in [EagleIds -> 0..NIters]
          /\ reg \in [EagleIds -> 0..N]

AtBowl(p) == pc[p] \in {"load", "store", "look", "leave", "call", "fill",
                        "serve"}

\* Whoever may touch the bowl is one: a free bowl, a pending call to the
\* mother and the processes at the bowl (eagles and mother) exclude one
\* another, although the permission travels over two semaphores.
OneAtBowl == /\ bowl_block + call_mom <= 1
             /\ \A p \in Processes : AtBowl(p) => bowl_block + call_mom = 0
             /\ \A p, q \in Processes : AtBowl(p) /\ AtBowl(q) => p = q

\* The bowl is never offered empty, and the mother is never called to, nor
\* stands at, a bowl with food in it before she fills it.
BowlOfferedFull ==
  /\ bowl_block = 1 => n > 0
  /\ call_mom = 1 \/ pc[Mother] = "fill" => n = 0

\* The semaphores implement the nest: every meal takes exactly one piece,
\* whatever the interleaving of the loads and stores of *n.
eaten == [e \in EagleIds |-> IF pc[e] \in {"look", "leave", "call"}
                             THEN iter[e] + 1 ELSE iter[e]]

TheNest == INSTANCE Nest WITH Eagles <- EagleIds, food <- n

ImplementsNest == TheNest!Spec

\* Every eagle has its NIters meals, unless a fork fails.
EveryEagleFed == <>(AllFed \/ \E p \in Processes : pc[p] = "failed")

\* Nobody can take a next step, and the program has not come to its end: each
\* eagle has exited, is not born or waits for the bowl, and so does the mother.
Waits(e) == \/ pc[e] \in {"unborn", "done", "failed"}
            \/ pc[e] = "hungry" /\ bowl_block = 0
MotherWaits == \/ pc[Mother] = "unborn"
               \/ pc[Mother] = "asleep" /\ call_mom = 0
Stuck == (\A e \in EagleIds : Waits(e)) /\ MotherWaits /\ ~ MotherAlone

\* Nothing but a failed fork stops the eagles.  Then there is no mother, and
\* either the bowl is empty and she is called in vain or all eagles have ended.
StuckOnlyWithoutMother ==
  Stuck => /\ pc[Mother] = "unborn"
           /\ \E e \in EagleIds : pc[e] = "failed"
           /\ \/ n = 0 /\ call_mom = 1
              \/ \A e \in EagleIds : pc[e] \in {"done", "failed", "unborn"}
=============================================================================
