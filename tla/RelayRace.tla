----------------------------- MODULE RelayRace -----------------------------
(***************************************************************************)
(* What msq/main.cpp promises, without its message queue: N runners come   *)
(* to the stadium, the judge starts the clock when all of them are there,  *)
(* they run one after the other in the order of their numbers, and the     *)
(* judge stops the clock when the last of them has finished.               *)
(***************************************************************************)
EXTENDS Naturals

CONSTANT N              \* the number of runners

VARIABLES stage,        \* where each runner is
          clock         \* the judge's stopwatch

vars == <<stage, clock>>

Runners == 1..N

Stages == {"away", "ready", "running", "finished"}

Init == /\ stage = [i \in Runners |-> "away"]
        /\ clock = "idle"

Move(i, from, to) == /\ stage[i] = from
                     /\ stage' = [stage EXCEPT ![i] = to]
                     /\ UNCHANGED clock

Come(i) == Move(i, "away", "ready")

StartClock == /\ clock = "idle"
              /\ \A i \in Runners : stage[i] = "ready"
              /\ clock' = "ticking"
              /\ UNCHANGED stage

\* Runner i leaves the line only when every runner before it is back.
Run(i) == /\ clock = "ticking"
          /\ \A j \in 1..(i - 1) : stage[j] = "finished"
          /\ Move(i, "ready", "running")

Finish(i) == Move(i, "running", "finished")

StopClock == /\ clock = "ticking"
             /\ \A i \in Runners : stage[i] = "finished"
             /\ clock' = "stopped"
             /\ UNCHANGED stage

Next == \/ StartClock \/ StopClock
        \/ \E i \in Runners : Come(i) \/ Run(i) \/ Finish(i)

Spec == Init /\ [][Next]_vars
=============================================================================
