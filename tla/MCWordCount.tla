----------------------------- MODULE MCWordCount ----------------------------
(***************************************************************************)
(* WordCount with inputs of up to seven bytes, all different.              *)
(***************************************************************************)
EXTENDS WordCount

MCInputs == {[j \in 1..n |-> j] : n \in 0..7}
=============================================================================
