---------------------------- MODULE MCSnakeGame ----------------------------
(***************************************************************************)
(* SnakeGame on small boards: a window of r rows and c columns has         *)
(* (r - 2) * (c - 2) cells.                                                *)
(***************************************************************************)
EXTENDS SnakeGame

CONSTANTS Rows, Cols, SmallRows, SmallCols,
          MaxLen        \* bound: how long a snake gets in the states explored

Window(r, c) == [row |-> r, col |-> c]

MCSz0 == Window(Rows, Cols)

\* The terminal may be resized to the smaller window and back.
MCWindows == {Window(Rows, Cols), Window(SmallRows, SmallCols)}

\* As in main.cpp the snakes start in column 2, on different rows.
MCStarts == [i \in Snakes |-> <<i + 1, 2>>]

\* State constraint: longer snakes are not followed.
Short == \A i \in Snakes : Len(body[i]) <= MaxLen
=============================================================================
