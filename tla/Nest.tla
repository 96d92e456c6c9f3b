-------------------------------- MODULE Nest --------------------------------
(***************************************************************************)
(* What eagles/main.cpp promises, without its semaphores: eagles eat from  *)
(* one bowl, one piece at a time and never from an empty bowl, and the     *)
(* mother refills the bowl only when it is empty.                          *)
(***************************************************************************)
EXTENDS Naturals

CONSTANTS Eagles,       \* the eagles
          N,            \* pieces of food that the mother brings
          NIters        \* meals of each eagle

VARIABLES food,         \* pieces in the bowl
          eaten         \* meals that each eagle has had

vars == <<food, eaten>>

Init == /\ food = N
        /\ eaten = [e \in Eagles |-> 0]

Eat(e) == /\ food > 0
          /\ eaten[e] < NIters
          /\ food' = food - 1
          /\ eaten' = [eaten EXCEPT ![e] = @ + 1]

Refill == /\ food = 0
          /\ food' = N
          /\ UNCHANGED eaten

Next == Refill \/ \E e \in Eagles : Eat(e)

Spec == Init /\ [][Next]_vars
=============================================================================
