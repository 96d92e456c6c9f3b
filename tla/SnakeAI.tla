------------------------------- MODULE SnakeAI -------------------------------
(***************************************************************************)
(* game_project/controllers: the AI of the snake game, as operators.       *)
(*                                                                         *)
(* AI::field is a Matrix of m = ws_row - 1 rows and n = ws_col - 1 columns *)
(* that AI::update fills from the model; row 0 and column 0 stand for row  *)
(* 2 and column 2 of the board.  It is represented by the set of the       *)
(* indices of its buffer that hold S, "a snake is here".                   *)
(***************************************************************************)
EXTENDS SnakeModel

\* A field with the rows of the board counted once too few.
FieldMTooFew(sz) == sz.row - 3
FieldM(sz) == sz.row - 1
FieldN(sz) == sz.col - 1

\* Rows stored one after the other at the height's distance.
BufIndexByHeight(c, sz) == (c[1] - 2) * FieldM(sz) + (c[2] - 2)
\* Matrix::operator(): the index in the buffer of the cell of a coordinate.
BufIndex(c, sz) == (c[1] - 2) * FieldN(sz) + (c[2] - 2)

InBuffer(c, sz) == BufIndex(c, sz) \in 0..(FieldM(sz) * FieldN(sz) - 1)

-----------------------------------------------------------------------------
(* AI::update: the snakes are written first, then the rabbits over them.   *)

FieldMarks(sz, snakeCells, rabbitCells) ==
  {BufIndex(c, sz) : c \in snakeCells} \ {BufIndex(c, sz) : c \in rabbitCells}

-----------------------------------------------------------------------------
(* Matrix::up_to, down_to, left_to, right_to of the cell (x, y): the index *)
(* of the neighbour.  They wrap at m and n, two rows and columns that no   *)
(* snake is ever on lie beyond the last ones of the board.                 *)

NeighbourIndex(x, y, d, sz) ==
  LET m == FieldM(sz)
      n == FieldN(sz)
  IN CASE d = "up"    -> (IF x # 0 THEN x - 1 ELSE m - 1) * n + y
       [] d = "down"  -> (IF x = m - 1 THEN 0 ELSE x + 1) * n + y
       [] d = "left"  -> x * n + (IF y # 0 THEN y - 1 ELSE n - 1)
       [] d = "right" -> x * n + (IF y # n - 1 THEN y + 1 ELSE 0)

\* Outside of the matrix the four functions return a fresh zero.
SeesSnake(head, d, sz, marks) ==
  LET x == head[1] - 2
      y == head[2] - 2
  IN /\ x <= FieldM(sz) - 1 /\ y <= FieldN(sz) - 1
     /\ NeighbourIndex(x, y, d, sz) \in marks

Permitted(head, sz, marks) == {d \in Dirs : ~ SeesSnake(head, d, sz, marks)}

-----------------------------------------------------------------------------
(* AI::calcNextStep                                                        *)

\* Distance along one axis: around the board when half of it is nearer.  The
\* rows are compared with half of N and the columns with half of M, and both
\* are taken from N.
AxisDist(a, b, half, n) == LET d == IF a > b THEN a - b ELSE b - a
                           IN IF d > half THEN n - d ELSE d

Dist(head, r, sz) ==
  LET N == FieldN(sz)
      M == FieldM(sz)
  IN AxisDist(r[1], head[1], N \div 2, N) + AxisDist(r[2], head[2], M \div 2, N)

\* Distances are size_t: one that comes out negative is a huge number.
UnsignedLess(a, b) == IF (a < 0) = (b < 0) THEN a < b ELSE b < 0

\* The first of the nearest rabbits.  min_dist starts as the largest size_t.
NearestRabbit(head, rabbits, sz) ==
  LET D == [r \in DOMAIN rabbits |-> Dist(head, rabbits[r], sz)]
      Nearest == {r \in DOMAIN D :
                    /\ UnsignedLess(D[r], -1)
                    /\ \A q \in DOMAIN D : ~ UnsignedLess(D[q], D[r])}
  IN IF Nearest = {} THEN <<0, 0>> ELSE rabbits[Min(Nearest)]

\* The directions without the test for a rabbit on the row of the head.
WantedOffRow(head, goal) ==
  (IF goal[1] < head[1] THEN <<"up">> ELSE <<"down">>)
  \o
  (IF goal[2] < head[2] THEN <<"left">>
     ELSE IF goal[2] > head[2] THEN <<"right">> ELSE <<>>)
\* Coordinates are unsigned: the difference of a smaller and a larger one is
\* always above half of the field, so that the AI never goes round the edge.
Wanted(head, goal) ==
  (IF goal[1] < head[1] THEN <<"up">>
     ELSE IF goal[1] > head[1] THEN <<"down">> ELSE <<>>)
  \o
  (IF goal[2] < head[2] THEN <<"left">>
     ELSE IF goal[2] > head[2] THEN <<"right">> ELSE <<>>)

\* The keys of the map dirs_perm in the order of their values.
DirOrder == <<"right", "down", "up", "left">>

CalcNextStep(head, rabbits, sz, marks) ==
  FirstOf(Wanted(head, NearestRabbit(head, rabbits, sz)) \o DirOrder,
          Permitted(head, sz, marks))
=============================================================================
