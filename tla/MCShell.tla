------------------------------- MODULE MCShell ------------------------------
(***************************************************************************)
(* Shell with the lines "", " a", "a", "a b", "a |", "a | b", "a | b |"    *)
(* and "a | b | c".                                                        *)
(***************************************************************************)
EXTENDS Shell

Typed(space, tokens) == [space |-> space, tokens |-> tokens]

MCLines == {Typed(TRUE, <<>>), Typed(TRUE, <<"word">>), Typed(FALSE, <<"word">>),
            Typed(FALSE, <<"word", "word">>), Typed(FALSE, <<"word", "bar">>),
            Typed(FALSE, <<"word", "bar", "word">>),
            Typed(FALSE, <<"word", "bar", "word", "bar">>),
            Typed(FALSE, <<"word", "bar", "word", "bar", "word">>)}

\* Not a descriptor, the standard descriptors, those of the last pipe.
MCGarbage == {<<-1, -1>>, <<0, 0>>, <<1, 1>>, <<3, 4>>}
=============================================================================
