------------------------------- MODULE MCSong -------------------------------
(***************************************************************************)
(* Song with two letters.                                                  *)
(***************************************************************************)
EXTENDS Song

MCSong == <<"a", "b">>
=============================================================================
