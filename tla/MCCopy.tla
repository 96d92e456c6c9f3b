------------------------------- MODULE MCCopy -------------------------------
(***************************************************************************)
(* Copy with two files, a third that has the name of the first in another  *)
(* directory, and the directory "d" with two entries.                      *)
(***************************************************************************)
EXTENDS Copy

MCNames   == {"a", "b", "x/a", "d", "d/a", "d/b"}
MCDirs    == {"d"}
MCEntry   == [name \in MCNames |-> IF name \in {"b", "d/b"} THEN "d/b" ELSE "d/a"]
MCContent == [name \in MCNames |-> CASE name = "d" -> <<>>
                                     [] name = "a" -> <<"a1", "a2">>
                                     [] OTHER      -> <<name>>]

Arguments == {[sources |-> <<"a">>, target |-> "b"], [sources |-> <<"a">>, target |-> "a"],
              [sources |-> <<"d">>, target |-> "b"], [sources |-> <<"a", "b">>, target |-> "b"],
              [sources |-> <<"a", "b">>, target |-> "d"],
              [sources |-> <<"a", "x/a">>, target |-> "d"],
              [sources |-> <<"d/a", "a">>, target |-> "d"]}
MCCommands == {[flag |-> flag, sources |-> a.sources, target |-> a.target] :
                  flag \in {"", "i", "?"}, a \in Arguments}
=============================================================================
