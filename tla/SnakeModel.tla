----------------------------- MODULE SnakeModel -----------------------------
(***************************************************************************)
(* game_project/models: the geometry of the board and what the operations  *)
(* of Snake and Model compute, as operators.  A coordinate is <<x, y>>, x  *)
(* the row and y the column, as in model.h.  A window sz has sz.row rows   *)
(* and sz.col columns; the snakes live on the rows 2..sz.row-1 and the     *)
(* columns 2..sz.col-1, and leave the board on one side to come back on    *)
(* the opposite one.                                                       *)
(***************************************************************************)
EXTENDS Integers, FiniteSets, SequencesExt

Dirs == {"up", "down", "left", "right"}

Opposite == [up |-> "down", down |-> "up", left |-> "right", right |-> "left"]

\* The first direction of a sequence that is in a set, "def" when none is.
FirstOf(order, ds) ==
  LET hits == {p \in DOMAIN order : order[p] \in ds}
  IN IF hits = {} THEN "def" ELSE order[Min(hits)]

Coords == (Nat \ {0, 1}) \X (Nat \ {0, 1})

Board(sz) == (2..(sz.row - 1)) \X (2..(sz.col - 1))

-----------------------------------------------------------------------------
(* Snake::move                                                             *)

\* The direction of the next step: "def" keeps the previous one, and so does
\* a request to turn back.
Turn(prev, d) == IF d = "def" \/ d = Opposite[prev] THEN prev ELSE d

\* A step past the last row (column) that ends on row 0.
ForthToZero(v, size) == (v + 1) % size

\* One step along an axis of the given size.  The two rows (columns) 0 and 1
\* are not part of the board.
Forth(v, size) == LET w == (v + 1) % size IN IF w < 2 THEN 2 ELSE w
Back(v, size)  == LET w == (v - 1) % size IN IF w < 2 THEN size - 1 ELSE w

Ahead(c, d, sz) == CASE d = "down"  -> <<Forth(c[1], sz.row), c[2]>>
                     [] d = "up"    -> <<Back(c[1], sz.row), c[2]>>
                     [] d = "left"  -> <<c[1], Back(c[2], sz.col)>>
                     [] d = "right" -> <<c[1], Forth(c[2], sz.col)>>

\* The list c after the step, before and without the tail being removed.
Grown(body, head) == <<head>> \o body
Shifted(body, head) == <<head>> \o Front(body)

-----------------------------------------------------------------------------
(* Model::createRabbitRandom                                               *)

\* rand() % (ws_row - 3) + 2: rabbits never appear on the last row or column.
RabbitSpots(sz) == (2..(sz.row - 2)) \X (2..(sz.col - 2))

\* The cells that the loop can leave with.
FreeSpots(sz, snakeCells, rabbits) ==
  RabbitSpots(sz) \ (snakeCells \cup Range(rabbits))

-----------------------------------------------------------------------------
(* Snake::cutIfBump, for the snake i of the list of bodies                 *)

Bumped(bodies, i) ==
  {j \in DOMAIN bodies \ {i} : bodies[i][1] \in Range(bodies[j])}

SelfBites(body) == {p \in 2..Len(body) : body[p] = body[1]}

\* The list is walked in order: a bump into an earlier snake returns before
\* the snake is compared with itself.
CutBody(bodies, i) ==
  LET bites == SelfBites(bodies[i])
  IN IF bites # {} /\ \A j \in Bumped(bodies, i) : j > i
     THEN SubSeq(bodies[i], 1, Min(bites) - 1)
     ELSE bodies[i]

-----------------------------------------------------------------------------
(* Snake::getTailDir and Snake::getBodyDir                                 *)

\* The direction in which b lies from its neighbour a along one axis whose
\* opposite edges are wrap apart, "def" when a and b differ in neither way.
AxisDir(a, b, wrap, plus, minus) ==
  IF b - a = 1 \/ a - b = wrap THEN plus
  ELSE IF a - b = 1 \/ b - a = wrap THEN minus ELSE "def"

\* Opposite rows taken to be one further apart than they are.
VerticalDirWide(a, b, sz) == AxisDir(a[1], b[1], sz.row - 2, "down", "up")
VerticalDir(a, b, sz)   == AxisDir(a[1], b[1], sz.row - 3, "down", "up")
HorizontalDir(a, b, sz) == AxisDir(a[2], b[2], sz.col - 3, "right", "left")

GetTailDir(body, sz) ==
  LET tail == Last(body)
      prev == body[Len(body) - 1]
  IN IF VerticalDir(tail, prev, sz) # "def"
     THEN VerticalDir(tail, prev, sz)
     ELSE HorizontalDir(tail, prev, sz)

\* The horizontal test is the later one and overrides the vertical one.
SideDir(c, d, sz) == IF HorizontalDir(c, d, sz) # "def"
                     THEN HorizontalDir(c, d, sz)
                     ELSE VerticalDir(c, d, sz)

GetBodyDir(body, p, sz) == [forward  |-> SideDir(body[p], body[p + 1], sz),
                            backward |-> SideDir(body[p], body[p - 1], sz)]
=============================================================================
