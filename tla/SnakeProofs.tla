---------------------------- MODULE SnakeProofs ----------------------------
(***************************************************************************)
(* Proofs about SnakeGame, for both views, any windows of at least four by *)
(* four cells, any number of rabbits and up to two players of each kind.   *)
(*                                                                         *)
(* The invariant IInv adds to type correctness and RabbitsKept that during *)
(* the population of the board there are never too many rabbits.  The work *)
(* is in Move, where the eaten rabbit leaves the list, the snake grows     *)
(* onto its cell and a new rabbit is put on a cell that is free of the     *)
(* snakes as they are then.                                                *)
(*                                                                         *)
(* The invariant Order adds what is true at each step of the frame: every  *)
(* step has its place (FramePlaces), so that the snakes still to be drawn  *)
(* and those already drawn are told apart by at, and the pause bit is      *)
(* where the key, the controllers and the check have brought it.           *)
(*                                                                         *)
(* In a window that keeps its size, OnBoard adds that every cell of a      *)
(* snake is a step ahead of the one behind it, and FieldSeen that the one  *)
(* AI moves on a field that is up to date.                                 *)
(***************************************************************************)
EXTENDS SnakeGame, WellFoundedInduction, TLAPS

\* Min of a set of naturals, of which FiniteSetsExt gives the definition.
LEMMA MinOfNats ==
  ASSUME NEW S \in SUBSET Nat, S # {}
  PROVE  Min(S) \in S /\ \A y \in S : Min(S) <= y
<1>1. \E x \in S : \A y \in S : ~ (<<y, x>> \in OpToRel(<, Nat))
  BY NatLessThanWellFounded, WFMin
<1>2. OpToRel(<, Nat) = {ss \in Nat \X Nat : ss[1] < ss[2]}
  BY DEF OpToRel
<1>3. PICK x \in S : \A y \in S : ~ (<<y, x>> \in OpToRel(<, Nat))
  BY <1>1
<1>4. ASSUME NEW y \in S PROVE x <= y
  <2>1. <<y, x>> \in Nat \X Nat /\ ~ (<<y, x>> \in {ss \in Nat \X Nat : ss[1] < ss[2]})
    BY <1>2, <1>3
  <2>2. ~ (y < x)
    BY <2>1
  <2> QED
    BY <2>2
<1> QED
  BY <1>4 DEF Min

\* A step never reaches the rows and columns 0 and 1.
LEMMA AheadIsCoord ==
  ASSUME NEW c \in Coords, NEW d \in Dirs, NEW z \in WindowSizes
  PROVE  Ahead(c, d, z) \in Coords
<1>1. ASSUME NEW v \in Nat \ {0, 1}, NEW size \in Nat \ 0..3
      PROVE  Forth(v, size) \in Nat \ {0, 1} /\ Back(v, size) \in Nat \ {0, 1}
  BY <1>1 DEF Forth, Back
<1>2. z.row \in Nat \ 0..3 /\ z.col \in Nat \ 0..3
  BY DEF WindowSizes
<1>3. c[1] \in Nat \ {0, 1} /\ c[2] \in Nat \ {0, 1}
  BY DEF Coords
<1> QED
  BY <1>1, <1>2, <1>3 DEF Ahead, Coords, Dirs

\* What Snake::move turns the request of a controller into.
LEMMA TurnIsDir ==
  ASSUME NEW prev \in Dirs, NEW d \in Dirs \cup {"def"}
  PROVE  Turn(prev, d) \in Dirs
  BY DEF Turn, Dirs

\* A snake that grows covers the old cells and the new one.
LEMMA GrownFacts ==
  ASSUME NEW b \in Seq(Coords), NEW h \in Coords
  PROVE  /\ Grown(b, h) \in Seq(Coords) /\ Grown(b, h) # <<>>
         /\ Range(Grown(b, h)) \subseteq Range(b) \cup {h}
  BY DEF Grown, Range

\* A snake that moves covers no cell but the old ones and the new one.
LEMMA ShiftedFacts ==
  ASSUME NEW b \in Seq(Coords), b # <<>>, NEW h \in Coords
  PROVE  /\ Shifted(b, h) \in Seq(Coords) /\ Shifted(b, h) # <<>>
         /\ Range(Shifted(b, h)) \subseteq Range(b) \cup {h}
  BY DEF Shifted, Front, Range

\* A prefix of a sequence.
LEMMA PrefixFacts ==
  ASSUME NEW S, NEW s \in Seq(S), NEW p \in 0..Len(s)
  PROVE  /\ SubSeq(s, 1, p) \in Seq(S) /\ Len(SubSeq(s, 1, p)) = p
         /\ \A q \in 1..p : SubSeq(s, 1, p)[q] = s[q]
  OBVIOUS

\* The concatenation of two sequences, by length and by element.
LEMMA ConcatFacts ==
  ASSUME NEW S, NEW a \in Seq(S), NEW b \in Seq(S)
  PROVE  /\ a \o b \in Seq(S) /\ Len(a \o b) = Len(a) + Len(b)
         /\ \A q \in 1..Len(a) : (a \o b)[q] = a[q]
         /\ \A q \in 1..Len(b) : (a \o b)[Len(a) + q] = b[q]
  OBVIOUS

\* The same, for many sequences at once.
LEMMA ConcatIsSeq == \A S : \A a, b \in Seq(S) : a \o b \in Seq(S)
  BY ConcatFacts

\* RemoveAt of SequencesExt: the elements that stay, in their order.
LEMMA RemoveAtFacts ==
  ASSUME NEW S, NEW s \in Seq(S), NEW p \in 1..Len(s)
  PROVE  /\ RemoveAt(s, p) \in Seq(S)
         /\ Len(RemoveAt(s, p)) = Len(s) - 1
         /\ \A q \in 1..(Len(s) - 1) :
              RemoveAt(s, p)[q] = IF q < p THEN s[q] ELSE s[q + 1]
<1> DEFINE left  == SubSeq(s, 1, p - 1)
           right == SubSeq(s, p + 1, Len(s))
<1>1. left \in Seq(S) /\ Len(left) = p - 1 /\ \A q \in 1..(p - 1) : left[q] = s[q]
  OBVIOUS
<1>2. /\ right \in Seq(S) /\ Len(right) = Len(s) - p
      /\ \A q \in 1..(Len(s) - p) : right[q] = s[q + p]
  OBVIOUS
<1>3. RemoveAt(s, p) = left \o right
  BY DEF RemoveAt
<1> HIDE DEF left, right
<1>4. /\ left \o right \in Seq(S) /\ Len(left \o right) = Len(left) + Len(right)
      /\ \A q \in 1..Len(left) : (left \o right)[q] = left[q]
      /\ \A q \in 1..Len(right) : (left \o right)[Len(left) + q] = right[q]
  <2>1. left \in Seq(S) /\ right \in Seq(S)
    BY <1>1, <1>2
  <2> QED
    BY ONLY <2>1, ConcatFacts
<1>5. ASSUME NEW q \in 1..(Len(s) - 1)
      PROVE  (left \o right)[q] = IF q < p THEN s[q] ELSE s[q + 1]
  <2>1. CASE q < p
    BY <1>1, <1>4, <2>1
  <2>2. CASE ~ (q < p)
    <3>1. /\ q - (p - 1) \in 1..(Len(s) - p)
          /\ q - (p - 1) + p = q + 1 /\ (p - 1) + (q - (p - 1)) = q
      BY <2>2
    <3>2. (left \o right)[q] = right[q - (p - 1)]
      BY <1>1, <1>2, <1>4, <3>1
    <3> QED
      BY <1>2, <2>2, <3>1, <3>2
  <2> QED
    BY <2>1, <2>2
<1>6. Len(s) \in Nat
  OBVIOUS
<1> QED
  BY <1>1, <1>2, <1>3, <1>4, <1>5, <1>6

\* Behind the head no cell comes twice.
TailInjective(b) == \A p, q \in 2..Len(b) : b[p] = b[q] => p = q

\* cutIfBump leaves the front of the snake; and when the snake has bumped into no
\* other one and all its cells but the head are different, so are those it leaves.
LEMMA CutIsFront ==
  ASSUME NEW b, NEW i \in DOMAIN b, b[i] \in Seq(Coords), b[i] # <<>>
  PROVE  \E n \in 1..Len(b[i]) :
            /\ CutBody(b, i) = SubSeq(b[i], 1, n)
            /\ Bumped(b, i) = {} => \A p \in 2..n : b[i][p] # b[i][1]
<1> DEFINE bites == SelfBites(b[i])
           L == Len(b[i])
<1>1. bites \subseteq 2..L /\ L \in Nat \ {0} /\ \A p \in 2..L : p \notin bites => b[i][p] # b[i][1]
  BY DEF SelfBites
<1>2. CASE bites # {} /\ \A j \in Bumped(b, i) : j > i
  <2>1. bites # {} /\ bites \in SUBSET Nat
    BY <1>1, <1>2
  <2>2. CutBody(b, i) = SubSeq(b[i], 1, Min(bites) - 1)
    BY <1>2 DEF CutBody
  <2> HIDE DEF bites, L
  <2>3. Min(bites) \in 2..L /\ \A p \in bites : Min(bites) <= p
    BY <1>1, <2>1, MinOfNats
  <2> DEFINE n == Min(bites) - 1
  <2>4. n \in 1..L /\ \A p \in 2..n : p \notin bites /\ p \in 2..L
    BY <1>1, <2>3
  <2> QED
    BY <1>1, <2>2, <2>4 DEF L
<1>3. CASE ~ (bites # {} /\ \A j \in Bumped(b, i) : j > i)
  <2>1. CutBody(b, i) = b[i] /\ b[i] = SubSeq(b[i], 1, L)
    BY <1>3 DEF CutBody
  <2>2. Bumped(b, i) = {} => bites = {}
    BY <1>3
  <2> HIDE DEF bites
  <2>3. L \in 1..L /\ (Bumped(b, i) = {} => \A p \in 2..L : b[i][p] # b[i][1])
    BY <1>1, <2>2
  <2> QED
    BY <2>1, <2>3
<1> QED
  BY <1>2, <1>3

\* The front of a sequence.
LEMMA FrontOf ==
  ASSUME NEW b \in Seq(Coords), NEW n \in 1..Len(b)
  PROVE  LET c == SubSeq(b, 1, n)
         IN  /\ c \in Seq(Coords) /\ c # <<>> /\ c[1] = b[1] /\ Range(c) \subseteq Range(b)
             /\ IsPrefix(c, b)
             /\ TailInjective(b) => TailInjective(c)
             /\ TailInjective(b) /\ (\A p \in 2..n : b[p] # b[1]) => IsInjective(c)
<1> DEFINE c == SubSeq(b, 1, n)
<1>1. c \in Seq(Coords) /\ Len(c) = n /\ \A q \in 1..n : c[q] = b[q]
  BY PrefixFacts
<1>2. IsPrefix(c, b)
  BY <1>1 DEF IsPrefix
<1>3. Len(b) \in Nat /\ n <= Len(b)
  OBVIOUS
<1> HIDE DEF c
<1>4. c # <<>> /\ c[1] = b[1]
  BY <1>1, <1>3
<1>5. Range(c) \subseteq Range(b)
  BY <1>1, <1>3 DEF Range
<1>6. TailInjective(b) => TailInjective(c)
  BY <1>1, <1>3 DEF TailInjective
<1>7. ASSUME TailInjective(b), \A p \in 2..n : b[p] # b[1]
      PROVE  IsInjective(c)
  <2>1. ASSUME NEW p \in 1..n, NEW q \in 1..n, c[p] = c[q] PROVE p = q
    <3>1. b[p] = b[q]
      BY <1>1, <2>1
    <3>2. CASE p = 1 \/ q = 1
      BY <1>3, <1>7, <3>1, <3>2
    <3>3. CASE p # 1 /\ q # 1
      BY <1>3, <1>7, <3>1, <3>3 DEF TailInjective
    <3> QED
      BY <3>2, <3>3
  <2> QED
    BY <1>1, <2>1 DEF IsInjective
<1> QED
  BY <1>1, <1>2, <1>4, <1>5, <1>6, <1>7 DEF c

\* cutIfBump leaves a non-empty part of the snake.
LEMMA CutFacts ==
  ASSUME NEW b, NEW i \in DOMAIN b, b[i] \in Seq(Coords), b[i] # <<>>
  PROVE  /\ CutBody(b, i) \in Seq(Coords) /\ CutBody(b, i) # <<>>
         /\ Range(CutBody(b, i)) \subseteq Range(b[i])
<1>1. PICK n \in 1..Len(b[i]) : CutBody(b, i) = SubSeq(b[i], 1, n)
  BY CutIsFront
<1> QED
  BY <1>1, FrontOf

\* The choice of the first direction that is in a set.
LEMMA FirstOfIsDir ==
  ASSUME NEW s \in Seq(Dirs), NEW ds
  PROVE  FirstOf(s, ds) \in Dirs \cup {"def"}
<1> DEFINE hits == {p \in DOMAIN s : s[p] \in ds}
<1>1. hits \in SUBSET Nat /\ hits \subseteq 1..Len(s)
  OBVIOUS
<1>2. CASE hits = {}
  BY <1>2 DEF FirstOf
<1>3. CASE hits # {}
  <2>1. FirstOf(s, ds) = s[Min(hits)]
    BY <1>3 DEF FirstOf
  <2> HIDE DEF hits
  <2>2. Min(hits) \in 1..Len(s)
    BY <1>1, <1>3, MinOfNats
  <2> QED
    BY <2>1, <2>2
<1> QED
  BY <1>2, <1>3

\* A direction that is chosen from a set is in it.
LEMMA FirstOfIsIn ==
  ASSUME NEW S, NEW s \in Seq(S), NEW ds, FirstOf(s, ds) # "def"
  PROVE  FirstOf(s, ds) \in ds
<1> DEFINE hits == {p \in DOMAIN s : s[p] \in ds}
<1>1. hits \in SUBSET Nat /\ hits # {} /\ FirstOf(s, ds) = s[Min(hits)]
  BY DEF FirstOf
<1> HIDE DEF hits
<1>2. Min(hits) \in hits
  BY <1>1, MinOfNats
<1> QED
  BY <1>1, <1>2 DEF hits

\* The AI answers a direction or "def".
LEMMA CalcNextStepIsDir ==
  ASSUME NEW h, NEW rs, NEW z, NEW ms
  PROVE  /\ CalcNextStep(h, rs, z, ms) \in Dirs \cup {"def"}
         /\ CalcNextStep(h, rs, z, ms) # "def"
              => CalcNextStep(h, rs, z, ms) \in Permitted(h, z, ms)
<1> DEFINE goal == NearestRabbit(h, rs, z)
<1>1. DirOrder \in Seq(Dirs)
  BY DEF DirOrder, Dirs
<1>2. Wanted(h, goal) \in Seq(Dirs)
  <2>1. ASSUME NEW a \in {<<"up">>, <<"down">>, <<>>},
               NEW b \in {<<"left">>, <<"right">>, <<>>}
        PROVE  a \o b \in Seq(Dirs)
    <3>1. /\ <<>> \in Seq(Dirs) /\ <<"up">> \in Seq(Dirs)
          /\ <<"down">> \in Seq(Dirs) /\ <<"left">> \in Seq(Dirs)
          /\ <<"right">> \in Seq(Dirs)
      BY DEF Dirs
    <3>2. a \in Seq(Dirs) /\ b \in Seq(Dirs)
      BY <3>1
    <3> QED
      BY ONLY <3>2, ConcatIsSeq
  <2> QED
    BY <2>1 DEF Wanted
<1> HIDE DEF goal
<1>3. Wanted(h, goal) \o DirOrder \in Seq(Dirs)
  BY <1>1, <1>2, ConcatFacts
<1> QED
  BY <1>3, FirstOfIsDir, FirstOfIsIn DEF CalcNextStep, goal

\* A frame has steps, so that GoOn stays among them.
LEMMA FrameNotEmpty == Len(Frame) \in Nat \ {0}
<1> DEFINE Ops  == {"input", "field", "check", "human", "ai", "draw"}
           Step == [op : Ops, who : Int]
<1>1. ASSUME NEW op \in Ops, NEW f \in Int, NEW n \in Nat
      PROVE  StepOf(op, f, n) \in Seq(Step) /\ Len(StepOf(op, f, n)) = n
  BY DEF StepOf
<1>2. NHumans \in Nat /\ NAIs \in Nat /\ NHumans + NAIs \in Nat
  BY PlayersAssumption
<1>3. /\ "input" \in Ops /\ "field" \in Ops /\ "check" \in Ops
      /\ "human" \in Ops /\ "ai" \in Ops /\ "draw" \in Ops
  OBVIOUS
<1> HIDE DEF Step, Ops
<1>4. /\ InputStep \in Seq(Step) /\ Len(InputStep) > 0
      /\ FieldStep \in Seq(Step) /\ CheckStep \in Seq(Step)
  <2>1. 0 \in Int /\ 1 \in Nat
    OBVIOUS
  <2>2. ASSUME NEW op \in Ops
        PROVE  StepOf(op, 0, 1) \in Seq(Step) /\ Len(StepOf(op, 0, 1)) = 1
    BY <1>1, <2>1, Zenon
  <2>3. ASSUME NEW op \in Ops PROVE Len(StepOf(op, 0, 1)) > 0
    BY <2>2
  <2> QED
    BY <1>3, <2>2, <2>3 DEF InputStep, FieldStep, CheckStep
<1>5. /\ HumanSteps \in Seq(Step) /\ AiSteps \in Seq(Step)
      /\ DrawSteps \in Seq(Step)
  BY <1>1, <1>2, <1>3 DEF HumanSteps, AiSteps, DrawSteps
<1>6. ASSUME NEW a \in Seq(Step), NEW b \in Seq(Step), Len(a) > 0
      PROVE  a \o b \in Seq(Step) /\ Len(a \o b) > 0
  <2>1. Len(a \o b) = Len(a) + Len(b) /\ Len(a) \in Nat /\ Len(b) \in Nat
    BY ConcatFacts
  <2> QED
    BY <1>6, <2>1, ConcatIsSeq
<1>7. CASE View = "gui"
  <2> DEFINE a == InputStep \o HumanSteps
             b == a \o FieldStep
             c == b \o AiSteps
             d == c \o CheckStep
  <2>1. a \in Seq(Step) /\ Len(a) > 0
    BY <1>4, <1>5, <1>6
  <2>2. b \in Seq(Step) /\ Len(b) > 0
    BY <2>1, <1>4, <1>6
  <2>3. c \in Seq(Step) /\ Len(c) > 0
    BY <2>2, <1>5, <1>6
  <2>4. d \in Seq(Step) /\ Len(d) > 0
    BY <2>3, <1>4, <1>6
  <2>5. d \o DrawSteps \in Seq(Step) /\ Len(d \o DrawSteps) > 0
    BY <2>4, <1>5, <1>6
  <2> QED
    BY <1>7, <2>5 DEF Frame
<1>8. CASE View # "gui"
  <2> DEFINE a == InputStep \o FieldStep
             b == a \o HumanSteps
             c == b \o AiSteps
             d == c \o CheckStep
  <2>1. a \in Seq(Step) /\ Len(a) > 0
    BY <1>4, <1>6
  <2>2. b \in Seq(Step) /\ Len(b) > 0
    BY <2>1, <1>5, <1>6
  <2>3. c \in Seq(Step) /\ Len(c) > 0
    BY <2>2, <1>5, <1>6
  <2>4. d \in Seq(Step) /\ Len(d) > 0
    BY <2>3, <1>4, <1>6
  <2>5. d \o DrawSteps \in Seq(Step) /\ Len(d \o DrawSteps) > 0
    BY <2>4, <1>5, <1>6
  <2> QED
    BY <1>8, <2>5 DEF Frame
<1> QED
  BY <1>7, <1>8

-----------------------------------------------------------------------------
(* The rabbits.                                                            *)

\* The rabbits rs are on different cells, none of them among the given ones.
Apart(rs, cells) ==
  /\ \A p, q \in 1..Len(rs) : rs[p] = rs[q] => p = q
  /\ \A p \in 1..Len(rs) : rs[p] \notin cells

\* createRabbitRandom keeps the rabbits apart.
LEMMA CreateRabbitFacts ==
  ASSUME NEW cells, NEW rs \in Seq(Coords), Apart(rs, cells),
         sz \in WindowSizes, CreateRabbitRandom(cells, rs)
  PROVE  /\ rabbits' \in Seq(Coords) /\ Apart(rabbits', cells)
         /\ \/ mode' = mode /\ Len(rabbits') = Len(rs) + 1
            \/ mode' = "hung"
<1>1. CASE rabbits' = rs /\ mode' = "hung"
  BY <1>1
<1>2. ASSUME NEW spot \in FreeSpots(sz, cells, rs),
             rabbits' = Append(rs, spot), mode' = mode
      PROVE  /\ rabbits' \in Seq(Coords) /\ Apart(rabbits', cells)
             /\ mode' = mode /\ Len(rabbits') = Len(rs) + 1
  <2>1. spot \in Coords
    BY DEF FreeSpots, RabbitSpots, Coords, WindowSizes
  <2>2. spot \notin cells /\ \A p \in 1..Len(rs) : rs[p] # spot
    BY DEF FreeSpots, Range
  <2>3. /\ rabbits' \in Seq(Coords) /\ Len(rabbits') = Len(rs) + 1
        /\ \A p \in 1..Len(rs) : rabbits'[p] = rs[p]
        /\ rabbits'[Len(rs) + 1] = spot
    BY <1>2, <2>1
  <2>4. Len(rs) \in Nat
    OBVIOUS
  <2>5. Apart(rabbits', cells)
    <3>1. \A p \in 1..(Len(rs) + 1) : p \in 1..Len(rs) \/ p = Len(rs) + 1
      BY <2>4
    <3> QED
      BY <2>2, <2>3, <3>1 DEF Apart
  <2> QED
    BY <1>2, <2>3, <2>5
<1> QED
  BY <1>1, <1>2 DEF CreateRabbitRandom

\* Without one rabbit, the others are also off the cell it was on.
LEMMA RemoveAtApart ==
  ASSUME NEW rs \in Seq(Coords), NEW cells, Apart(rs, cells), NEW p \in 1..Len(rs)
  PROVE  Apart(RemoveAt(rs, p), cells \cup {rs[p]})
<1>1. Len(rs) \in Nat
  OBVIOUS
<1> DEFINE Old(q) == IF q < p THEN q ELSE q + 1
<1>2. /\ Len(RemoveAt(rs, p)) = Len(rs) - 1
      /\ \A q \in 1..(Len(rs) - 1) : RemoveAt(rs, p)[q] = rs[Old(q)]
  BY RemoveAtFacts
<1>3. \A q \in 1..(Len(rs) - 1) : Old(q) \in 1..Len(rs) /\ Old(q) # p
  BY <1>1
<1>4. \A q, r \in 1..(Len(rs) - 1) : Old(q) = Old(r) => q = r
  BY <1>1
<1> HIDE DEF Old
<1>5. ASSUME NEW q \in 1..Len(RemoveAt(rs, p)), NEW r \in 1..Len(RemoveAt(rs, p)),
             RemoveAt(rs, p)[q] = RemoveAt(rs, p)[r]
      PROVE  q = r
  BY <1>2, <1>3, <1>4, <1>5 DEF Apart
<1>6. ASSUME NEW q \in 1..Len(RemoveAt(rs, p))
      PROVE  RemoveAt(rs, p)[q] \notin cells \cup {rs[p]}
  BY <1>2, <1>3 DEF Apart
<1> QED
  BY <1>5, <1>6 DEF Apart

\* The inductive invariant: while draw populates the board there are not more
\* rabbits than it has asked for.
IInv == /\ TypeOK
        /\ RabbitsKept
        /\ mode = "populate" => Len(rabbits) <= NRabbits

\* RabbitsKept in terms of Apart.
LEMMA RabbitsKeptIsApart ==
  RabbitsKept <=> /\ mode \in {"running", "closed"} => Len(rabbits) = NRabbits
                  /\ Apart(rabbits, SnakeCells(body))
  BY DEF RabbitsKept, Apart

\* Snake::move, whoever calls it.
LEMMA MoveFacts ==
  ASSUME TypeOK, RabbitsKept, mode = "running",
         NEW i \in Snakes, NEW d \in Dirs \cup {"def"}, Move(i, d)
  PROVE  /\ body' \in [Snakes -> Seq(Coords)]
         /\ \A j \in Snakes : body'[j] # <<>>
         /\ dir' \in [Snakes -> Dirs]
         /\ rabbits' \in Seq(Coords)
         /\ mode' \in {"running", "hung"}
         /\ RabbitsKept'
<1> DEFINE t    == Turn(dir[i], d)
           head == Ahead(body[i][1], t, sz)
<1>1. /\ body \in [Snakes -> Seq(Coords)] /\ body[i] \in Seq(Coords)
      /\ body[i] # <<>> /\ \A j \in Snakes : body[j] # <<>>
      /\ dir[i] \in Dirs /\ dir \in [Snakes -> Dirs]
      /\ rabbits \in Seq(Coords) /\ sz \in WindowSizes
  BY WindowsAssumption DEF TypeOK
<1>2. t \in Dirs
  BY <1>1, TurnIsDir
<1>3. body[i][1] \in Coords
  BY <1>1
<1>4. head \in Coords
  <2> HIDE DEF t
  <2> QED
    BY <1>1, <1>2, <1>3, AheadIsCoord
<1>5. dir' = [dir EXCEPT ![i] = t]
  BY DEF Move
<1>6. Apart(rabbits, SnakeCells(body)) /\ Len(rabbits) = NRabbits
  BY RabbitsKeptIsApart
<1>7. /\ head \in Range(rabbits) =>
           /\ body' = [body EXCEPT ![i] = Grown(body[i], head)]
           /\ Eat(head, SnakeCells(body'))
      /\ head \notin Range(rabbits) =>
           /\ body' = [body EXCEPT ![i] = Shifted(body[i], head)]
           /\ rabbits' = rabbits /\ mode' = mode
  BY DEF Move
<1> HIDE DEF t, head
<1>8. dir' \in [Snakes -> Dirs]
  BY <1>1, <1>2, <1>5
<1>9. ASSUME NEW b \in Seq(Coords), b # <<>>,
             body' = [body EXCEPT ![i] = b],
             Range(b) \subseteq Range(body[i]) \cup {head}
      PROVE  /\ body' \in [Snakes -> Seq(Coords)]
             /\ \A j \in Snakes : body'[j] # <<>>
             /\ SnakeCells(body') \subseteq SnakeCells(body) \cup {head}
  <2>1. body' \in [Snakes -> Seq(Coords)]
    BY <1>1, <1>9
  <2>2. body'[i] = b /\ \A j \in Snakes \ {i} : body'[j] = body[j]
    BY <1>1, <1>9
  <2>3. \A j \in Snakes : Range(body'[j]) \subseteq Range(body[j]) \cup {head}
    BY <1>9, <2>2
  <2> QED
    BY <1>1, <1>9, <2>1, <2>2, <2>3 DEF SnakeCells
<1>10. CASE head \in Range(rabbits)
  <2>1. /\ Grown(body[i], head) \in Seq(Coords) /\ Grown(body[i], head) # <<>>
        /\ Range(Grown(body[i], head)) \subseteq Range(body[i]) \cup {head}
    BY <1>1, <1>4, GrownFacts
  <2>2. /\ body' \in [Snakes -> Seq(Coords)]
        /\ \A j \in Snakes : body'[j] # <<>>
        /\ SnakeCells(body') \subseteq SnakeCells(body) \cup {head}
    BY <1>7, <1>9, <1>10, <2>1
  <2>3. PICK p \in 1..Len(rabbits) :
          /\ rabbits[p] = head
          /\ CreateRabbitRandom(SnakeCells(body'), RemoveAt(rabbits, p))
    BY <1>7, <1>10 DEF Eat
  <2>4. /\ RemoveAt(rabbits, p) \in Seq(Coords)
        /\ Len(RemoveAt(rabbits, p)) = NRabbits - 1
    BY <1>1, <1>6, RemoveAtFacts
  <2>5. Apart(RemoveAt(rabbits, p), SnakeCells(body) \cup {head})
    BY <1>1, <1>6, <2>3, RemoveAtApart
  <2>6. Apart(RemoveAt(rabbits, p), SnakeCells(body'))
    BY <2>2, <2>5 DEF Apart
  <2>7. /\ rabbits' \in Seq(Coords) /\ Apart(rabbits', SnakeCells(body'))
        /\ \/ mode' = mode /\ Len(rabbits') = (NRabbits - 1) + 1
           \/ mode' = "hung"
    BY <1>1, <2>3, <2>4, <2>6, CreateRabbitFacts
  <2>8. RabbitsKept'
    BY <2>7, RabbitsAssumption DEF RabbitsKept, Apart
  <2> QED
    BY <1>8, <2>2, <2>7, <2>8
<1>11. CASE head \notin Range(rabbits)
  <2>1. /\ Shifted(body[i], head) \in Seq(Coords)
        /\ Shifted(body[i], head) # <<>>
        /\ Range(Shifted(body[i], head)) \subseteq Range(body[i]) \cup {head}
    BY <1>1, <1>4, ShiftedFacts
  <2>2. /\ body' \in [Snakes -> Seq(Coords)]
        /\ \A j \in Snakes : body'[j] # <<>>
        /\ SnakeCells(body') \subseteq SnakeCells(body) \cup {head}
    BY <1>7, <1>9, <1>11, <2>1
  <2>3. \A p \in 1..Len(rabbits) : rabbits[p] # head
    BY <1>11 DEF Range
  <2>4. RabbitsKept'
    BY <1>6, <1>7, <1>11, <2>2, <2>3 DEF RabbitsKept, Apart
  <2> QED
    BY <1>1, <1>7, <1>8, <1>11, <2>2, <2>4
<1> QED
  BY <1>10, <1>11

-----------------------------------------------------------------------------
(* The inductive invariant.                                                *)

\* The players put on an empty board satisfy it.
LEMMA InitIInv == Init => IInv
<1> SUFFICES ASSUME Init PROVE IInv
  OBVIOUS
<1>1. /\ body \in [Snakes -> Seq(Coords)] /\ \A i \in Snakes : body[i] # <<>>
  BY StartsAssumption DEF Init
<1>2. dir \in [Snakes -> Dirs] /\ alive \in [Snakes -> BOOLEAN]
  BY DEF Init, Dirs
<1>3. rabbits = <<>> /\ Len(rabbits) = 0 /\ rabbits \in Seq(Coords)
  BY DEF Init
<1>4. /\ sz \in Windows \cup {Sz0} /\ modelPause \in BOOLEAN
      /\ marks \subseteq Int /\ mode = "populate" /\ isOnPause \in BOOLEAN
  BY DEF Init
<1>5. at \in 1..Len(Frame)
  BY FrameNotEmpty DEF Init
<1>6. ctrl \in [d : [Humans -> Dirs \cup {"def"}], pause : BOOLEAN,
                close : BOOLEAN]
  BY DEF Init, NoKeys
<1>7. TypeOK
  BY <1>1, <1>2, <1>3, <1>4, <1>5, <1>6 DEF TypeOK, Modes
<1>8. RabbitsKept
  BY <1>3, <1>4 DEF RabbitsKept
<1> QED
  BY <1>3, <1>7, <1>8, RabbitsAssumption DEF IInv

\* GoOn goes to the next step of the frame or to the first one.
LEMMA GoOnFacts ==
  ASSUME TypeOK, GoOn
  PROVE  at' \in 1..Len(Frame)
<1>1. Len(Frame) \in Nat \ {0} /\ at \in 1..Len(Frame)
  BY FrameNotEmpty DEF TypeOK
<1> DEFINE L == Len(Frame)
<1>2. at' = IF at < L THEN at + 1 ELSE 1
  BY DEF GoOn
<1> HIDE DEF L
<1>3. L \in Nat \ {0} /\ at \in 1..L
  BY <1>1 DEF L
<1>4. at' \in 1..L
  BY <1>2, <1>3
<1> QED
  BY <1>4 DEF L

\* A move leaves the window, the statuses, the field and the model's flag.
LEMMA MoveStepIInv ==
  ASSUME IInv, mode = "running",
         NEW i \in Snakes, NEW d \in Dirs \cup {"def"}, Move(i, d), GoOn,
         UNCHANGED <<alive, sz, modelPause, marks>>,
         ctrl' \in [d : [Humans -> Dirs \cup {"def"}], pause : BOOLEAN,
                    close : BOOLEAN],
         isOnPause' \in BOOLEAN
  PROVE  IInv'
<1>1. TypeOK /\ RabbitsKept
  BY DEF IInv
<1>2. /\ body' \in [Snakes -> Seq(Coords)] /\ \A j \in Snakes : body'[j] # <<>>
      /\ dir' \in [Snakes -> Dirs] /\ rabbits' \in Seq(Coords)
      /\ mode' \in {"running", "hung"} /\ RabbitsKept'
  BY <1>1, MoveFacts
<1>3. at' \in 1..Len(Frame)
  BY <1>1, GoOnFacts
<1>4. /\ alive' \in [Snakes -> BOOLEAN] /\ sz' \in Windows \cup {Sz0}
      /\ modelPause' \in BOOLEAN /\ marks' \subseteq Int
  BY <1>1 DEF TypeOK
<1>5. TypeOK'
  BY <1>2, <1>3, <1>4 DEF TypeOK, Modes
<1> QED
  BY <1>2, <1>5 DEF IInv

\* A controller whose snake stays.
LEMMA StayStepIInv ==
  ASSUME IInv, mode = "running", Stay, GoOn,
         UNCHANGED <<alive, sz, modelPause, marks>>,
         ctrl' \in [d : [Humans -> Dirs \cup {"def"}], pause : BOOLEAN,
                    close : BOOLEAN],
         isOnPause' \in BOOLEAN
  PROVE  IInv'
<1>1. at' \in 1..Len(Frame)
  BY GoOnFacts DEF IInv
<1>2. TypeOK'
  BY <1>1 DEF IInv, TypeOK, Stay
<1>3. RabbitsKept'
  BY DEF IInv, RabbitsKept, SnakeCells, Stay
<1> QED
  BY <1>2, <1>3 DEF IInv, Stay

\* Every step of the game preserves it.
LEMMA NextIInv == IInv /\ [Next]_vars => IInv'
<1> SUFFICES ASSUME IInv, [Next]_vars PROVE IInv'
  OBVIOUS
<1> USE DEF IInv
<1>0. TypeOK /\ RabbitsKept
  OBVIOUS
<1>1. CASE Populate
  <2>1. /\ mode = "populate" /\ sz \in WindowSizes /\ rabbits \in Seq(Coords)
        /\ Apart(rabbits, SnakeCells(body)) /\ Len(rabbits) <= NRabbits
        /\ Len(rabbits) \in Nat
    BY <1>1, RabbitsKeptIsApart, WindowsAssumption DEF Populate, TypeOK
  <2>2. UNCHANGED <<body, dir, alive, sz, modelPause, marks, at, ctrl, isOnPause>>
    BY <1>1 DEF Populate
  <2>3. CASE Len(rabbits) < NRabbits
    <3>1. CreateRabbitRandom(SnakeCells(body), rabbits)
      BY <1>1, <2>3 DEF Populate
    <3>2. /\ rabbits' \in Seq(Coords) /\ Apart(rabbits', SnakeCells(body))
          /\ \/ mode' = mode /\ Len(rabbits') = Len(rabbits) + 1
             \/ mode' = "hung"
      BY <2>1, <3>1, CreateRabbitFacts
    <3>3. TypeOK'
      BY <1>0, <2>1, <2>2, <3>2 DEF TypeOK, Modes
    <3>4. RabbitsKept'
      BY <2>1, <2>2, <3>2 DEF RabbitsKept, Apart, SnakeCells
    <3>5. mode' = "populate" => Len(rabbits') <= NRabbits
      BY <2>1, <2>3, <3>2, RabbitsAssumption
    <3> QED
      BY <3>3, <3>4, <3>5
  <2>4. CASE ~ (Len(rabbits) < NRabbits)
    <3>1. mode' = "running" /\ rabbits' = rabbits
      BY <1>1, <2>4 DEF Populate
    <3>2. TypeOK'
      BY <1>0, <2>2, <3>1 DEF TypeOK, Modes
    <3>3. Len(rabbits) = NRabbits
      BY <2>1, <2>4, RabbitsAssumption
    <3>4. RabbitsKept'
      BY <2>1, <2>2, <3>1, <3>3 DEF RabbitsKept, Apart, SnakeCells
    <3> QED
      BY <3>1, <3>2, <3>4
  <2> QED
    BY <2>3, <2>4
<1>2. CASE Input
  <2>1. /\ UNCHANGED <<body, dir, alive, rabbits, modelPause, marks, mode,
                       isOnPause>>
        /\ GoOn /\ (GuiInput \/ TextInput)
    BY <1>2 DEF Input
  <2>2. at' \in 1..Len(Frame)
    BY <1>0, <2>1, GoOnFacts
  <2>3. sz' \in Windows \cup {Sz0}
    BY <1>0, <2>1 DEF GuiInput, TextInput, TypeOK
  <2>4. ctrl' \in [d : [Humans -> Dirs \cup {"def"}], pause : BOOLEAN,
                   close : BOOLEAN]
    <3>1. KeyOrder \in Seq(Dirs)
      BY DEF KeyOrder, Dirs
    <3>2. CASE GuiInput
      <4>1. NoKeys \in [d : [Humans -> Dirs \cup {"def"}], pause : BOOLEAN,
                        close : BOOLEAN]
        BY DEF NoKeys
      <4>2. ASSUME NEW keys \in [Humans -> SUBSET Dirs],
                   ctrl' = [NoKeys EXCEPT
                              !.d = [h \in Humans |-> FirstOf(KeyOrder, keys[h])]]
            PROVE  ctrl' \in [d : [Humans -> Dirs \cup {"def"}],
                              pause : BOOLEAN, close : BOOLEAN]
        <5>1. \A h \in Humans : FirstOf(KeyOrder, keys[h]) \in Dirs \cup {"def"}
          BY <3>1, FirstOfIsDir
        <5>2. [h \in Humans |-> FirstOf(KeyOrder, keys[h])]
                \in [Humans -> Dirs \cup {"def"}]
          BY <5>1
        <5> QED
          BY <4>1, <4>2, <5>2
      <4>3. ASSUME ctrl' = [NoKeys EXCEPT !.close = TRUE]
            PROVE  ctrl' \in [d : [Humans -> Dirs \cup {"def"}],
                              pause : BOOLEAN, close : BOOLEAN]
        BY <4>1, <4>3
      <4> QED
        BY <3>2, <4>2, <4>3 DEF GuiInput
    <3>3. CASE TextInput
      BY <3>3 DEF TextInput
    <3> QED
      BY <2>1, <3>2, <3>3
  <2>5. TypeOK'
    BY <1>0, <2>1, <2>2, <2>3, <2>4 DEF TypeOK
  <2>6. RabbitsKept'
    BY <2>1 DEF RabbitsKept, SnakeCells
  <2> QED
    BY <2>1, <2>5, <2>6
<1>3. CASE AiUpdate
  <2>1. /\ UNCHANGED <<body, dir, alive, rabbits, sz, modelPause, ctrl, isOnPause>>
        /\ GoOn /\ mode = "running"
        /\ mode' \in {mode, "undefined"}
        /\ marks' = FieldMarks(sz, SnakeCells(body), Range(rabbits))
    BY <1>3 DEF AiUpdate, At
  <2>2. at' \in 1..Len(Frame)
    BY <1>0, <2>1, GoOnFacts
  <2>3. marks' \subseteq Int
    <3>1. \A c \in Coords : BufIndex(c, sz) \in Int
      BY <1>0, WindowsAssumption
      DEF Coords, BufIndex, FieldN, TypeOK, WindowSizes
    <3>2. SnakeCells(body) \subseteq Coords
      BY <1>0 DEF TypeOK, SnakeCells, Range
    <3> QED
      BY <2>1, <3>1, <3>2 DEF FieldMarks
  <2>4. TypeOK'
    BY <1>0, <2>1, <2>2, <2>3 DEF TypeOK, Modes
  <2>5. RabbitsKept'
    BY <2>1 DEF RabbitsKept, SnakeCells
  <2> QED
    BY <2>1, <2>4, <2>5
<1>4. CASE Check
  <2>1. /\ UNCHANGED <<body, dir, alive, rabbits, sz, marks, ctrl, isOnPause>>
        /\ mode = "running" /\ (GuiCheck \/ TextCheck)
    BY <1>4 DEF Check, At
  <2>2. mode' \in {"running", "closed"} /\ modelPause' \in BOOLEAN
    BY <1>0, <2>1 DEF GuiCheck, TextCheck, TypeOK
  <2>3. at' \in 1..Len(Frame)
    <3>1. GoOn \/ at' = at \/ at' = 1
      BY <2>1 DEF GuiCheck, TextCheck
    <3> QED
      BY <1>0, <3>1, GoOnFacts, FrameNotEmpty DEF TypeOK
  <2>4. TypeOK'
    BY <1>0, <2>1, <2>2, <2>3 DEF TypeOK, Modes
  <2>5. RabbitsKept'
    BY <2>1, <2>2 DEF RabbitsKept, SnakeCells
  <2> QED
    BY <2>2, <2>4, <2>5
<1>5. ASSUME NEW h \in Humans, Human(h)
      PROVE  IInv'
  <2>1. h \in Snakes
    BY PlayersAssumption DEF Humans, Snakes
  <2>2. /\ mode = "running" /\ GoOn /\ isOnPause' = ctrl.pause
        /\ ctrl' = [ctrl EXCEPT !.d[h] = "def"]
        /\ UNCHANGED <<alive, sz, modelPause, marks>>
        /\ Stay \/ Move(h, ctrl.d[h])
    BY <1>5 DEF Human, At
  <2>3. /\ ctrl.d[h] \in Dirs \cup {"def"} /\ isOnPause' \in BOOLEAN
        /\ ctrl' \in [d : [Humans -> Dirs \cup {"def"}], pause : BOOLEAN,
                      close : BOOLEAN]
    BY <1>0, <2>2 DEF TypeOK
  <2>4. CASE Stay
    BY <2>2, <2>3, <2>4, StayStepIInv
  <2>5. CASE Move(h, ctrl.d[h])
    BY <2>1, <2>2, <2>3, <2>5, MoveStepIInv
  <2> QED
    BY <2>2, <2>4, <2>5
<1>6. ASSUME NEW a \in Snakes \ Humans, Ai(a)
      PROVE  IInv'
  <2>1. /\ mode = "running" /\ GoOn /\ isOnPause' = FALSE
        /\ UNCHANGED <<alive, sz, modelPause, marks, ctrl>>
        /\ Stay \/ Move(a, AiStep(a))
    BY <1>6 DEF Ai, At
  <2>2. AiStep(a) \in Dirs \cup {"def"}
    BY CalcNextStepIsDir DEF AiStep
  <2>3. /\ ctrl' \in [d : [Humans -> Dirs \cup {"def"}], pause : BOOLEAN,
                      close : BOOLEAN]
        /\ isOnPause' \in BOOLEAN
    BY <1>0, <2>1 DEF TypeOK
  <2>4. CASE Stay
    BY <2>1, <2>3, <2>4, StayStepIInv
  <2>5. CASE Move(a, AiStep(a))
    BY <2>1, <2>2, <2>3, <2>5, MoveStepIInv
  <2> QED
    BY <2>1, <2>4, <2>5
<1>7. ASSUME NEW i \in Snakes, Draw(i)
      PROVE  IInv'
  <2>1. /\ mode = "running" /\ GoOn
        /\ body' = [body EXCEPT ![i] = CutBody(body, i)]
        /\ alive' = [alive EXCEPT ![i] = @ /\ Bumped(body, i) = {}]
        /\ UNCHANGED <<dir, rabbits, sz, modelPause, marks, mode, ctrl, isOnPause>>
    BY <1>7 DEF Draw, At
  <2>2. at' \in 1..Len(Frame)
    BY <1>0, <2>1, GoOnFacts
  <2>3. /\ body \in [Snakes -> Seq(Coords)] /\ \A j \in Snakes : body[j] # <<>>
        /\ alive \in [Snakes -> BOOLEAN]
    BY <1>0 DEF TypeOK
  <2>4. /\ CutBody(body, i) \in Seq(Coords) /\ CutBody(body, i) # <<>>
        /\ Range(CutBody(body, i)) \subseteq Range(body[i])
    BY <2>3, CutFacts
  <2>5. /\ body' \in [Snakes -> Seq(Coords)] /\ \A j \in Snakes : body'[j] # <<>>
        /\ \A j \in Snakes : Range(body'[j]) \subseteq Range(body[j])
    <3> DEFINE b == CutBody(body, i)
    <3> HIDE DEF b
    <3>1. b \in Seq(Coords) /\ b # <<>> /\ Range(b) \subseteq Range(body[i])
      BY <2>4 DEF b
    <3>2. body' = [body EXCEPT ![i] = b]
      BY <2>1 DEF b
    <3> QED
      BY <2>3, <3>1, <3>2
  <2>6. alive' \in [Snakes -> BOOLEAN]
    BY <2>1, <2>3
  <2>7. TypeOK'
    BY <1>0, <2>1, <2>2, <2>5, <2>6 DEF TypeOK
  <2>8. SnakeCells(body') \subseteq SnakeCells(body)
    BY <2>5 DEF SnakeCells
  <2>9. RabbitsKept'
    BY <1>0, <2>1, <2>8 DEF RabbitsKept
  <2> QED
    BY <2>1, <2>7, <2>9
<1>8. CASE UNCHANGED vars
  BY <1>8 DEF vars, TypeOK, RabbitsKept, SnakeCells
<1> QED
  BY <1>1, <1>2, <1>3, <1>4, <1>5, <1>6, <1>7, <1>8 DEF Next, Stopped

\* It holds in every reachable state.
LEMMA SpecIInv == Spec => []IInv
  BY InitIInv, NextIInv, PTL DEF Spec

-----------------------------------------------------------------------------

\* Whatever the players do and however the window changes, every variable
\* keeps its type: no snake is ever empty or on the rows and columns 0 and 1.
THEOREM TypesCorrect == Spec => []TypeOK
<1>1. IInv => TypeOK
  BY DEF IInv
<1> QED
  BY <1>1, SpecIInv, PTL

\* In every window and for any number of rabbits, the rabbits are NRabbits in
\* number once the game runs, on different cells, and under no snake.
THEOREM RabbitsAreKept == Spec => []RabbitsKept
<1>1. IInv => RabbitsKept
  BY DEF IInv
<1> QED
  BY <1>1, SpecIInv, PTL

-----------------------------------------------------------------------------
(* The places of the steps in the frame.                                   *)

Players   == NHumans + NAIs
FieldAt   == IF View = "gui" THEN NHumans + 2 ELSE 2
MoveAt(i) == IF View = "gui" /\ i \in Humans THEN i + 1 ELSE i + 2
CheckAt   == Players + 3
DrawAt(i) == Players + 3 + i

StepOps   == {"input", "field", "check", "human", "ai", "draw"}
FrameStep == [op : StepOps, who : Int]

InPlace(step, p) ==
  /\ step.op = "input" => p = 1
  /\ step.op = "field" => p = FieldAt
  /\ step.op = "human" => step.who \in Humans /\ p = MoveAt(step.who)
  /\ step.op = "ai"    => step.who \in Snakes \ Humans /\ p = MoveAt(step.who)
  /\ step.op = "check" => p = CheckAt
  /\ step.op = "draw"  => step.who \in Snakes /\ p = DrawAt(step.who)

Proper(b, n) == b \in Seq(FrameStep) /\ Len(b) = n /\ \A p \in 1..n : InPlace(b[p], p)

\* The steps of one kind behind the others.
LEMMA FrameGrows ==
  ASSUME NEW m \in Nat, NEW a, Proper(a, m),
         NEW op \in StepOps, NEW from \in Int, NEW n \in Nat,
         \A q \in 1..n : InPlace([op |-> op, who |-> from + q], m + q)
  PROVE  Proper(a \o StepOf(op, from, n), m + n)
<1> DEFINE s == StepOf(op, from, n)
           b == a \o s
<1>1. s \in Seq(FrameStep) /\ Len(s) = n
      /\ \A q \in 1..n : s[q] = [op |-> op, who |-> from + q]
  <2>1. s = [q \in 1..n |-> [op |-> op, who |-> from + q]]
    BY DEF StepOf
  <2>2. \A q \in 1..n : [op |-> op, who |-> from + q] \in FrameStep
    BY DEF FrameStep
  <2>3. s \in Seq(FrameStep)
    BY DEF StepOf, FrameStep
  <2> HIDE DEF s
  <2>4. Len(s) = n
    BY <2>1, <2>3
  <2> QED
    BY <2>1, <2>3, <2>4
<1> HIDE DEF s
<1>2. /\ b \in Seq(FrameStep) /\ Len(b) = m + n
      /\ \A q \in 1..m : b[q] = a[q]
      /\ \A q \in 1..n : b[m + q] = s[q]
  <2>1. a \in Seq(FrameStep) /\ Len(a) = m
    BY DEF Proper
  <2>2. a \in Seq(FrameStep) /\ s \in Seq(FrameStep)
    BY <1>1, <2>1
  <2>3. /\ a \o s \in Seq(FrameStep) /\ Len(a \o s) = Len(a) + Len(s)
        /\ \A q \in 1..Len(a) : (a \o s)[q] = a[q]
        /\ \A q \in 1..Len(s) : (a \o s)[Len(a) + q] = s[q]
    BY ONLY <2>2, ConcatFacts
  <2> QED
    BY <1>1, <2>1, <2>3 DEF b
<1> HIDE DEF b
<1>3. ASSUME NEW p \in 1..(m + n) PROVE InPlace(b[p], p)
  <2>1. CASE p <= m
    BY <1>2, <2>1 DEF Proper
  <2>2. CASE ~ (p <= m)
    <3> DEFINE q == p - m
    <3>1. q \in 1..n /\ p = m + q
      BY <2>2
    <3> HIDE DEF q
    <3>2. b[p] = [op |-> op, who |-> from + q]
      BY <1>1, <1>2, <3>1
    <3> QED
      BY <3>1, <3>2
  <2> QED
    BY <2>1, <2>2
<1> QED
  BY <1>2, <1>3 DEF b, s, Proper

\* Every step is at its place.
LEMMA FramePlaces ==
  Len(Frame) = 2 * Players + 3 /\ \A p \in 1..Len(Frame) : InPlace(Frame[p], p)
<1>1. /\ NHumans \in Nat /\ NAIs \in Nat /\ Players \in Nat /\ Players = NHumans + NAIs
      /\ Humans = 1..NHumans /\ Snakes = 1..Players
  BY PlayersAssumption DEF Players, Humans, Snakes
<1>2. Proper(InputStep, 1)
  <2>1. InputStep = <<[op |-> "input", who |-> 1]>>
    BY DEF InputStep, StepOf
  <2>2. [op |-> "input", who |-> 1] \in FrameStep /\ InPlace([op |-> "input", who |-> 1], 1)
    BY DEF InPlace, FrameStep, StepOps
  <2>3. ASSUME NEW x \in FrameStep PROVE <<x>> \in Seq(FrameStep) /\ Len(<<x>>) = 1 /\ <<x>>[1] = x
    OBVIOUS
  <2> QED
    BY <2>1, <2>2, <2>3 DEF Proper
<1>3. /\ "field" \in StepOps /\ "human" \in StepOps /\ "ai" \in StepOps
      /\ "check" \in StepOps /\ "draw" \in StepOps
  BY DEF StepOps
<1>4. ASSUME NEW a, Proper(a, NHumans + 2)
      PROVE  Proper(((a \o AiSteps) \o CheckStep) \o DrawSteps, 2 * Players + 3)
  <2>1. Proper(a \o AiSteps, Players + 2)
    <3>1. \A q \in 1..NAIs : InPlace([op |-> "ai", who |-> NHumans + q], NHumans + 2 + q)
      BY <1>1 DEF InPlace, MoveAt
    <3>2. NHumans + 2 \in Nat /\ NHumans \in Int
      BY <1>1
    <3>3. Proper(a \o AiSteps, (NHumans + 2) + NAIs)
      BY <1>1, <1>3, <1>4, <3>1, <3>2, FrameGrows DEF AiSteps
    <3>4. (NHumans + 2) + NAIs = Players + 2
      BY <1>1
    <3> QED
      BY <3>3, <3>4
  <2>2. Proper((a \o AiSteps) \o CheckStep, Players + 3)
    <3>1. \A q \in 1..1 : InPlace([op |-> "check", who |-> 0 + q], Players + 2 + q)
      BY <1>1 DEF InPlace, CheckAt
    <3>2. Proper((a \o AiSteps) \o CheckStep, Players + 2 + 1)
      BY <1>1, <1>3, <2>1, <3>1, FrameGrows DEF CheckStep
    <3>3. Players + 2 + 1 = Players + 3
      BY <1>1
    <3> QED
      BY <3>2, <3>3
  <2>3. \A q \in 1..Players : InPlace([op |-> "draw", who |-> 0 + q], Players + 3 + q)
    BY <1>1 DEF InPlace, DrawAt
  <2>4. Proper(((a \o AiSteps) \o CheckStep) \o DrawSteps, Players + 3 + Players)
    BY <1>1, <1>3, <2>2, <2>3, FrameGrows DEF DrawSteps, Players
  <2>5. Players + 3 + Players = 2 * Players + 3
    BY <1>1
  <2> QED
    BY <2>4, <2>5
<1>5. CASE View = "gui"
  <2>1. Proper(InputStep \o HumanSteps, 1 + NHumans)
    <3>1. \A q \in 1..NHumans : InPlace([op |-> "human", who |-> 0 + q], 1 + q)
      BY <1>1, <1>5 DEF InPlace, MoveAt
    <3> QED
      BY <1>1, <1>2, <1>3, <3>1, FrameGrows DEF HumanSteps
  <2>2. Proper((InputStep \o HumanSteps) \o FieldStep, (1 + NHumans) + 1)
    <3>1. \A q \in 1..1 : InPlace([op |-> "field", who |-> 0 + q], (1 + NHumans) + q)
      BY <1>1, <1>5 DEF InPlace, FieldAt
    <3> QED
      BY <1>1, <1>3, <2>1, <3>1, FrameGrows DEF FieldStep
  <2>3. (1 + NHumans) + 1 = NHumans + 2
    BY <1>1
  <2> QED
    BY <1>4, <1>5, <2>2, <2>3 DEF Frame, Proper
<1>6. CASE View = "text"
  <2>1. Proper(InputStep \o FieldStep, 1 + 1)
    <3>1. \A q \in 1..1 : InPlace([op |-> "field", who |-> 0 + q], 1 + q)
      BY <1>6 DEF InPlace, FieldAt
    <3> QED
      BY <1>2, <1>3, <3>1, FrameGrows DEF FieldStep
  <2>2. Proper((InputStep \o FieldStep) \o HumanSteps, (1 + 1) + NHumans)
    <3>1. \A q \in 1..NHumans : InPlace([op |-> "human", who |-> 0 + q], (1 + 1) + q)
      BY <1>1, <1>6 DEF InPlace, MoveAt
    <3> QED
      BY <1>1, <1>3, <2>1, <3>1, FrameGrows DEF HumanSteps
  <2>3. (1 + 1) + NHumans = NHumans + 2
    BY <1>1
  <2> QED
    BY <1>4, <1>6, <2>2, <2>3 DEF Frame, Proper
<1> QED
  BY <1>5, <1>6, ViewAssumption

\* Where at is, by the step that is taken.
LEMMA AtFacts ==
  ASSUME TypeOK, NEW op, NEW who, At(op, who)
  PROVE  InPlace([op |-> op, who |-> who], at)
BY FramePlaces DEF TypeOK, At

LEMMA PlayersFacts ==
  /\ NHumans \in Nat /\ NAIs \in Nat /\ Players \in Nat /\ Players = NHumans + NAIs
  /\ Humans = 1..NHumans /\ Snakes = 1..Players
BY PlayersAssumption DEF Players, Humans, Snakes

\* The step after the last one is the first one of the next frame.
LEMMA AfterAt ==
  ASSUME TypeOK, GoOn
  PROVE  at' = (IF at < 2 * Players + 3 THEN at + 1 ELSE 1) /\ at \in 1..(2 * Players + 3)
BY FramePlaces DEF TypeOK, GoOn

-----------------------------------------------------------------------------
(* The snakes, from a move to the drawing.                                 *)

\* A snake whose cells are different before a step has a tail of different cells
\* after it.
LEMMA TailAfterMove ==
  ASSUME NEW b \in Seq(Coords), b # <<>>, IsInjective(b), NEW h \in Coords
  PROVE  TailInjective(Grown(b, h)) /\ TailInjective(Shifted(b, h))
<1>1. \A p, q \in 1..Len(b) : b[p] = b[q] => p = q
  BY DEF IsInjective
<1>2. ASSUME NEW c \in Seq(Coords), Len(c) <= Len(b), \A p \in 1..Len(c) : c[p] = b[p]
      PROVE  TailInjective(<<h>> \o c)
  <2> DEFINE new == <<h>> \o c
  <2>1. <<h>> \in Seq(Coords) /\ Len(<<h>>) = 1
    OBVIOUS
  <2>2. Len(new) = 1 + Len(c) /\ \A q \in 1..Len(c) : new[1 + q] = c[q]
    BY <2>1, ConcatFacts
  <2> HIDE DEF new
  <2>3. Len(c) \in Nat /\ Len(b) \in Nat
    OBVIOUS
  <2>4. \A p \in 2..Len(new) : p - 1 \in 1..Len(b) /\ new[p] = b[p - 1]
    <3>1. ASSUME NEW p \in 2..Len(new) PROVE p - 1 \in 1..Len(b) /\ new[p] = b[p - 1]
      <4>1. p - 1 \in 1..Len(c) /\ p - 1 \in 1..Len(b) /\ 1 + (p - 1) = p
        BY <1>2, <2>2, <2>3
      <4>2. new[1 + (p - 1)] = c[p - 1] /\ c[p - 1] = b[p - 1]
        BY <1>2, <2>2, <4>1
      <4> QED
        BY <4>1, <4>2
    <3> QED
      BY <3>1
  <2>5. ASSUME NEW p \in 2..Len(new), NEW q \in 2..Len(new), new[p] = new[q]
        PROVE  p = q
    <3>1. p - 1 = q - 1
      BY <1>1, <2>4, <2>5
    <3> QED
      BY <2>2, <2>3, <3>1
  <2> QED
    BY <2>5 DEF TailInjective, new
<1>3. TailInjective(Grown(b, h))
  BY <1>2 DEF Grown
<1>4. Front(b) \in Seq(Coords) /\ Len(Front(b)) = Len(b) - 1
      /\ \A p \in 1..Len(Front(b)) : Front(b)[p] = b[p]
  <2>1. Front(b) = SubSeq(b, 1, Len(b) - 1) /\ Len(b) - 1 \in 0..Len(b)
    BY DEF Front
  <2> QED
    BY <2>1, PrefixFacts
<1>5. TailInjective(Shifted(b, h))
  <2>1. Len(Front(b)) <= Len(b)
    BY <1>4
  <2> QED
    BY <1>2, <1>4, <2>1 DEF Shifted
<1> QED
  BY <1>3, <1>5

-----------------------------------------------------------------------------
(* The order of the steps in a frame.                                      *)

Settled(i) == alive[i] => Bumped(body, i) = {} /\ IsInjective(body[i])

\* The pause key was read, and there is no AI to undo it.
Held == ctrl.pause /\ NAIs = 0

\* A snake is settled from its drawing to its next move; between its move and its
\* drawing only its head may be on a cell of its own.  A frame on pause has no moves.
Bodies ==
  \A i \in Snakes :
    /\ alive[i] => TailInjective(body[i])
    /\ alive[i] /\ at <= MoveAt(i) => IsInjective(body[i])
    /\ at = 1 \/ at > DrawAt(i) \/ (Held /\ at <= CheckAt) => Settled(i)

\* The pause bit reaches the check through the last controller's answer.
Pauses ==
  /\ View = "gui" \/ mode = "populate" => ~ ctrl.pause
  /\ Held /\ Players > 0 => at <= CheckAt
  /\ View = "text" /\ NAIs = 0 /\ Players > 0 /\ at > 3 /\ at <= CheckAt
       => (isOnPause <=> ctrl.pause)
  /\ View = "text" /\ NAIs > 0 /\ at > NHumans + 3 /\ at <= CheckAt => ~ isOnPause

Order == mode \in {"populate", "running"} =>
           (mode = "populate" => at = 1) /\ Bodies /\ Pauses

LEMMA InitOrder == Init => Order
<1> SUFFICES ASSUME Init PROVE Order
  OBVIOUS
<1>1. /\ body = [i \in Snakes |-> <<Starts[i]>>] /\ mode = "populate" /\ at = 1
      /\ ctrl.pause = FALSE
  BY DEF Init, NoKeys
<1>2. Bodies
  <2>1. ASSUME NEW i \in Snakes
        PROVE  Bumped(body, i) = {} /\ IsInjective(body[i]) /\ TailInjective(body[i])
    <3>1. \A j \in Snakes : Len(body[j]) = 1 /\ body[j][1] = Starts[j]
      BY <1>1, StartsAssumption
    <3>2. IsInjective(body[i]) /\ TailInjective(body[i])
      BY <1>1 DEF IsInjective, TailInjective
    <3>3. ASSUME NEW j \in Snakes \ {i} PROVE body[i][1] \notin Range(body[j])
      BY <1>1, <3>1, StartsAssumption DEF Range
    <3> QED
      BY <1>1, <3>2, <3>3 DEF Bumped
  <2> QED
    BY <2>1 DEF Bodies, Settled
<1>3. Pauses
  BY <1>1, PlayersFacts DEF Pauses, Held, CheckAt
<1> QED
  BY <1>1, <1>2, <1>3 DEF Order

\* A step that changes no snake: what its place in the frame says must be said
\* before, and that it does not come to the drawing.
LEMMA BodiesStay ==
  ASSUME Bodies, UNCHANGED <<body, alive>>, at' \in Nat,
         \A i \in Snakes : at' <= MoveAt(i) => at <= MoveAt(i) \/ Settled(i),
         \A i \in Snakes : at' = 1 \/ at' > DrawAt(i) \/ (Held' /\ at' <= CheckAt) => Settled(i)
  PROVE  Bodies'
BY DEF Bodies, Settled, Bumped

LEMMA PopulateOrder == IInv /\ Order /\ Populate => Order'
<1> SUFFICES ASSUME IInv, Order, Populate PROVE Order'
  OBVIOUS
<1>1. /\ mode = "populate" /\ at = 1 /\ Bodies /\ Pauses
      /\ UNCHANGED <<body, dir, alive, sz, modelPause, marks, at, ctrl, isOnPause>>
  BY DEF Order, Populate
<1>2. Bodies'
  BY <1>1, BodiesStay DEF Held, Bodies
<1>3. Pauses' /\ at' = 1
  BY <1>1, PlayersFacts DEF Pauses, Held, CheckAt
<1> QED
  BY <1>2, <1>3 DEF Order

LEMMA InputOrder == IInv /\ Order /\ Input => Order'
<1> SUFFICES ASSUME IInv, Order, Input PROVE Order'
  OBVIOUS
<1>1. /\ mode = "running" /\ Bodies /\ at = 1 /\ GoOn /\ (GuiInput \/ TextInput)
      /\ UNCHANGED <<body, dir, alive, rabbits, modelPause, marks, mode, isOnPause>>
  BY AtFacts DEF IInv, Order, Input, InPlace, At
<1>2. at' = 2
  BY <1>1, AfterAt, PlayersFacts DEF IInv
<1>3. Bodies'
  <2>1. \A i \in Snakes : Settled(i)
    BY <1>1 DEF Bodies
  <2> QED
    BY <1>1, <1>2, <2>1, BodiesStay
<1>4. View = "gui" => ~ ctrl'.pause
  BY <1>1 DEF GuiInput, TextInput, NoKeys
<1>5. Pauses'
  BY <1>1, <1>2, <1>4, PlayersFacts DEF Pauses, CheckAt
<1> QED
  BY <1>1, <1>3, <1>5 DEF Order

LEMMA AiUpdateOrder == IInv /\ Order /\ AiUpdate => Order'
<1> SUFFICES ASSUME IInv, Order, AiUpdate PROVE Order'
  OBVIOUS
<1>1. /\ mode = "running" /\ Bodies /\ Pauses /\ at = FieldAt /\ GoOn
      /\ UNCHANGED <<body, dir, alive, rabbits, sz, modelPause, ctrl, isOnPause>>
  BY AtFacts DEF IInv, Order, AiUpdate, InPlace, At
<1>2. at \in Nat /\ at' = at + 1 /\ at' <= CheckAt /\ 1 <= at
  BY <1>1, AfterAt, PlayersFacts DEF IInv, FieldAt, CheckAt
<1>3. Bodies'
  <2>1. ASSUME NEW i \in Snakes PROVE MoveAt(i) \in Nat /\ ~ (at' > DrawAt(i))
    BY <1>2, PlayersFacts DEF MoveAt, DrawAt, CheckAt
  <2>2. ASSUME NEW i \in Snakes, Held' /\ at' <= CheckAt PROVE Settled(i)
    <3>1. Held /\ at <= CheckAt
      BY <1>1, <1>2, <2>2, PlayersFacts DEF Held, CheckAt
    <3> QED
      BY <1>1, <3>1 DEF Bodies
  <2> QED
    BY <1>1, <1>2, <2>1, <2>2, BodiesStay
<1>4. mode' # "populate"
  BY <1>1 DEF AiUpdate
<1>5. Pauses'
  BY <1>1, <1>2, <1>4, PlayersFacts, ViewAssumption DEF Pauses, Held, FieldAt
<1> QED
  BY <1>3, <1>4, <1>5 DEF Order

\* A controller's answer moves its snake, or not; with the pause it does not.
LEMMA ControllerBodies ==
  ASSUME IInv, Bodies, NEW i \in Snakes, at = MoveAt(i), GoOn,
         UNCHANGED alive, ctrl'.pause = ctrl.pause,
         NEW d \in Dirs \cup {"def"}, Stay \/ (Move(i, d) /\ alive[i] /\ ~ Held)
  PROVE  Bodies' /\ at' = at + 1 /\ at' <= CheckAt
<1>1. at \in Nat /\ at >= 1 /\ at' = at + 1 /\ at' <= CheckAt /\ CheckAt \in Nat
  BY AfterAt, PlayersFacts DEF IInv, MoveAt, CheckAt
<1>2. \A j \in Snakes : MoveAt(j) \in Nat /\ ~ (at' > DrawAt(j)) /\ at' # 1
  BY <1>1, PlayersFacts DEF MoveAt, DrawAt, CheckAt
<1>3. Held' = Held
  BY DEF Held
<1>4. CASE Stay
  <2>1. UNCHANGED body
    BY <1>4 DEF Stay
  <2>2. \A j \in Snakes : Held /\ at <= CheckAt => Settled(j)
    BY DEF Bodies
  <2>3. Held' /\ at' <= CheckAt => Held /\ at <= CheckAt
    BY <1>1, <1>3
  <2>4. \A j \in Snakes : at' <= MoveAt(j) => at <= MoveAt(j)
    BY <1>1, <1>2
  <2>5. Bodies'
    BY <1>1, <1>2, <2>1, <2>2, <2>3, <2>4, BodiesStay
  <2> QED
    BY <1>1, <2>5
<1>5. CASE Move(i, d) /\ alive[i] /\ ~ Held
  <2> DEFINE head == Ahead(body[i][1], Turn(dir[i], d), sz)
  <2>1. body \in [Snakes -> Seq(Coords)] /\ body[i] \in Seq(Coords) /\ body[i] # <<>>
    BY DEF IInv, TypeOK
  <2>0. head \in Coords
    <3>1. Turn(dir[i], d) \in Dirs
      BY TurnIsDir DEF IInv, TypeOK
    <3>2. body[i][1] \in Coords /\ sz \in WindowSizes
      BY <2>1, WindowsAssumption DEF IInv, TypeOK
    <3> QED
      BY <3>1, <3>2, AheadIsCoord
  <2>2. \/ body' = [body EXCEPT ![i] = Grown(body[i], head)]
        \/ body' = [body EXCEPT ![i] = Shifted(body[i], head)]
    BY <1>5 DEF Move
  <2> HIDE DEF head
  <2>3. /\ body'[i] \in {Grown(body[i], head), Shifted(body[i], head)}
        /\ \A j \in Snakes : j # i => body'[j] = body[j]
    BY <2>1, <2>2
  <2>4. IsInjective(body[i])
    BY <1>1, <1>2, <1>5 DEF Bodies
  <2>5. TailInjective(body'[i])
    <3>1. TailInjective(Grown(body[i], head)) /\ TailInjective(Shifted(body[i], head))
      BY <2>0, <2>1, <2>4, TailAfterMove
    <3> QED
      BY <2>3, <3>1
  <2>6. ASSUME NEW j \in Snakes, alive[j] PROVE TailInjective(body'[j])
    <3>1. CASE j = i
      BY <2>5, <3>1
    <3>2. CASE j # i
      <4>1. TailInjective(body[j]) /\ body'[j] = body[j]
        BY <2>3, <2>6, <3>2 DEF Bodies
      <4> QED
        BY <4>1
    <3> QED
      BY <3>1, <3>2
  <2>7. ASSUME NEW j \in Snakes, alive[j], at' <= MoveAt(j) PROVE IsInjective(body'[j])
    <3>1. j # i /\ at <= MoveAt(j)
      BY <1>1, <1>2, <2>7
    <3>2. IsInjective(body[j]) /\ body'[j] = body[j]
      BY <2>3, <2>7, <3>1 DEF Bodies
    <3> QED
      BY <3>2
  <2>8. \A j \in Snakes : ~ (at' = 1 \/ at' > DrawAt(j) \/ (Held' /\ at' <= CheckAt))
    BY <1>2, <1>3, <1>5
  <2>9. UNCHANGED alive
    OBVIOUS
  <2>10. Bodies'
    BY <2>6, <2>7, <2>8, <2>9 DEF Bodies
  <2> QED
    BY <1>1, <2>10
<1> QED
  BY <1>4, <1>5

LEMMA HumanOrder == \A h \in Humans : IInv /\ Order /\ Human(h) => Order'
<1> SUFFICES ASSUME NEW h \in Humans, IInv, Order, Human(h) PROVE Order'
  OBVIOUS
<1>1. /\ mode = "running" /\ Bodies /\ Pauses /\ at = MoveAt(h) /\ GoOn /\ UNCHANGED alive
      /\ h \in Snakes /\ isOnPause' = ctrl.pause
      /\ ctrl' = [ctrl EXCEPT !.d[h] = "def"]
      /\ Stay \/ (Move(h, ctrl.d[h]) /\ alive[h] /\ ~ Held)
  BY AtFacts, PlayersFacts DEF IInv, Order, Human, InPlace, At, Held
<1>2. ctrl'.pause = ctrl.pause
  BY <1>1 DEF IInv, TypeOK
<1>3. Bodies' /\ at' = at + 1 /\ at' <= CheckAt
  <2>1. ctrl.d[h] \in Dirs \cup {"def"}
    BY DEF IInv, TypeOK
  <2> QED
    BY <1>1, <1>2, <2>1, ControllerBodies
<1>4. mode' # "populate"
  BY <1>1 DEF Stay, Move, Eat, CreateRabbitRandom
<1>5. Pauses'
  <2>1. View = "text" => at' <= NHumans + 3
    BY <1>1, <1>3, PlayersFacts DEF MoveAt
  <2>2. isOnPause' <=> ctrl'.pause
    BY <1>1, <1>2
  <2>3. View = "gui" => ~ ctrl'.pause
    BY <1>1, <1>2 DEF Pauses
  <2> QED
    BY <1>3, <1>4, <2>1, <2>2, <2>3, PlayersFacts, ViewAssumption DEF Pauses
<1> QED
  BY <1>3, <1>4, <1>5 DEF Order

LEMMA AiOrder == \A a \in Snakes \ Humans : IInv /\ Order /\ Ai(a) => Order'
<1> SUFFICES ASSUME NEW a \in Snakes \ Humans, IInv, Order, Ai(a) PROVE Order'
  OBVIOUS
<1>1. /\ mode = "running" /\ Bodies /\ Pauses /\ at = MoveAt(a) /\ GoOn /\ UNCHANGED alive
      /\ isOnPause' = FALSE /\ ctrl' = ctrl
      /\ Stay \/ (Move(a, AiStep(a)) /\ alive[a])
  BY AtFacts DEF IInv, Order, Ai, InPlace, At
<1>2. NAIs > 0 /\ ~ Held
  BY PlayersFacts DEF Held
<1>3. Bodies' /\ at' = at + 1 /\ at' <= CheckAt
  <2>1. AiStep(a) \in Dirs \cup {"def"}
    BY CalcNextStepIsDir DEF AiStep
  <2> QED
    BY <1>1, <1>2, <2>1, ControllerBodies
<1>4. mode' # "populate"
  BY <1>1 DEF Stay, Move, Eat, CreateRabbitRandom
<1>5. Pauses'
  BY <1>1, <1>2, <1>3, <1>4 DEF Pauses, Held
<1> QED
  BY <1>3, <1>4, <1>5 DEF Order

LEMMA CheckOrder == IInv /\ Order /\ Check => Order'
<1> SUFFICES ASSUME IInv, Order, Check PROVE Order'
  OBVIOUS
<1>1. /\ mode = "running" /\ Bodies /\ Pauses /\ at = CheckAt /\ (GuiCheck \/ TextCheck)
      /\ UNCHANGED <<body, dir, alive, rabbits, sz, marks, ctrl, isOnPause>>
  BY AtFacts DEF IInv, Order, Check, InPlace, At
<1>2. CASE mode' # "running"
  BY <1>1, <1>2 DEF GuiCheck, TextCheck, Order
<1>3. CASE mode' = "running" /\ Players = 0
  <2>1. Snakes = {}
    BY <1>3, PlayersFacts
  <2>2. Bodies'
    BY <2>1 DEF Bodies
  <2>3. Pauses'
    BY <1>1, <1>3, PlayersFacts DEF Pauses, Held
  <2> QED
    BY <1>3, <2>2, <2>3 DEF Order
<1>4. CASE mode' = "running" /\ Players > 0 /\ GoOn /\ (View = "text" => ~ isOnPause)
  <2>1. at' = CheckAt + 1 /\ CheckAt \in Nat
    BY <1>1, <1>4, AfterAt, PlayersFacts DEF IInv, CheckAt
  <2>2. ~ Held
    <3>1. CASE View = "gui"
      BY <1>1, <3>1 DEF Pauses, Held
    <3>2. CASE View = "text" /\ NAIs = 0
      BY <1>1, <1>4, <3>2, PlayersFacts DEF Pauses, Held, CheckAt
    <3>3. CASE NAIs # 0
      BY <3>3 DEF Held
    <3> QED
      BY <3>1, <3>2, <3>3, ViewAssumption
  <2>3. ~ Held'
    BY <1>1, <2>2 DEF Held
  <2>4. \A i \in Snakes : ~ (at' <= MoveAt(i)) /\ ~ (at' > DrawAt(i)) /\ at' # 1
    BY <2>1, PlayersFacts DEF MoveAt, DrawAt, CheckAt
  <2>5. Bodies'
    BY <1>1, <2>1, <2>3, <2>4, BodiesStay
  <2>6. Pauses'
    BY <1>1, <1>4, <2>1, <2>3 DEF Pauses
  <2> QED
    BY <1>4, <2>5, <2>6 DEF Order
<1>5. CASE mode' = "running" /\ Players > 0 /\ View = "text" /\ isOnPause /\ at' = 1
  <2>1. Held
    <3>1. NAIs = 0
      BY <1>1, <1>5, PlayersFacts DEF Pauses, CheckAt
    <3> QED
      BY <1>1, <1>5, <3>1, PlayersFacts DEF Pauses, CheckAt, Held
  <2>2. at <= CheckAt
    BY <1>1, PlayersFacts DEF CheckAt
  <2>3. \A i \in Snakes : Settled(i)
    BY <1>1, <2>1, <2>2 DEF Bodies
  <2>4. Bodies'
    BY <1>1, <1>5, <2>3, BodiesStay
  <2>5. Pauses'
    BY <1>1, <1>5, PlayersFacts DEF Pauses, CheckAt
  <2> QED
    BY <1>5, <2>4, <2>5 DEF Order
<1> QED
  BY <1>1, <1>2, <1>3, <1>4, <1>5, PlayersFacts, ViewAssumption DEF GuiCheck, TextCheck

\* A drawing cuts one snake and leaves its head.
LEMMA DrawFacts ==
  ASSUME TypeOK, NEW i \in Snakes, Draw(i)
  PROVE  /\ body' \in [Snakes -> Seq(Coords)] /\ \A j \in Snakes : j # i => body'[j] = body[j]
         /\ body'[i] # <<>> /\ body'[i][1] = body[i][1] /\ IsPrefix(body'[i], body[i])
         /\ \A j \in Snakes : Range(body'[j]) \subseteq Range(body[j])
         /\ TailInjective(body[i]) => TailInjective(body'[i])
         /\ TailInjective(body[i]) /\ Bumped(body, i) = {} => IsInjective(body'[i])
<1>1. body \in [Snakes -> Seq(Coords)] /\ body[i] \in Seq(Coords) /\ body[i] # <<>>
      /\ i \in DOMAIN body
  BY DEF TypeOK
<1>2. PICK n \in 1..Len(body[i]) :
            /\ CutBody(body, i) = SubSeq(body[i], 1, n)
            /\ Bumped(body, i) = {} => \A p \in 2..n : body[i][p] # body[i][1]
  BY <1>1, CutIsFront
<1> DEFINE c == SubSeq(body[i], 1, n)
<1>3. /\ c \in Seq(Coords) /\ c # <<>> /\ c[1] = body[i][1] /\ Range(c) \subseteq Range(body[i])
      /\ IsPrefix(c, body[i])
      /\ TailInjective(body[i]) => TailInjective(c)
      /\ TailInjective(body[i]) /\ (\A p \in 2..n : body[i][p] # body[i][1])
           => IsInjective(c)
  BY <1>1, FrontOf
<1>4. body' = [body EXCEPT ![i] = c]
  BY <1>2 DEF Draw
<1> HIDE DEF c
<1>5. body' \in [Snakes -> Seq(Coords)] /\ body'[i] = c
      /\ \A j \in Snakes : j # i => body'[j] = body[j]
  BY <1>1, <1>3, <1>4
<1>6. \A j \in Snakes : Range(body'[j]) \subseteq Range(body[j])
  BY <1>3, <1>5
<1> QED
  BY <1>2, <1>3, <1>5, <1>6

LEMMA DrawOrder == \A i \in Snakes : IInv /\ Order /\ Draw(i) => Order'
<1> SUFFICES ASSUME NEW i \in Snakes, IInv, Order, Draw(i) PROVE Order'
  OBVIOUS
<1>1. /\ mode = "running" /\ mode' = "running" /\ Bodies /\ Pauses /\ at = DrawAt(i) /\ GoOn
      /\ alive' = [alive EXCEPT ![i] = @ /\ Bumped(body, i) = {}]
      /\ UNCHANGED <<ctrl, isOnPause>>
  BY AtFacts DEF IInv, Order, Draw, InPlace, At
<1>2. /\ body \in [Snakes -> Seq(Coords)] /\ alive \in [Snakes -> BOOLEAN]
      /\ body' \in [Snakes -> Seq(Coords)] /\ \A j \in Snakes : j # i => body'[j] = body[j]
      /\ body'[i][1] = body[i][1] /\ \A j \in Snakes : Range(body'[j]) \subseteq Range(body[j])
      /\ TailInjective(body[i]) => TailInjective(body'[i])
      /\ TailInjective(body[i]) /\ Bumped(body, i) = {} => IsInjective(body'[i])
  BY DrawFacts DEF IInv, TypeOK
<1>3. /\ \A j \in Snakes : j # i => alive'[j] = alive[j]
      /\ alive'[i] => alive[i] /\ Bumped(body, i) = {}
  BY <1>1, <1>2
<1>4. /\ at \in Nat /\ at > CheckAt /\ CheckAt \in Nat /\ CheckAt >= 3
      /\ at' = (IF i < Players THEN at + 1 ELSE 1)
      /\ Players \in Nat /\ i \in 1..Players
  BY <1>1, AfterAt, PlayersFacts DEF IInv, DrawAt, CheckAt
<1>5. ~ Held /\ ~ Held'
  BY <1>1, <1>4 DEF Pauses, Held
<1>6. ASSUME NEW j \in Snakes PROVE Bumped(body', j) \subseteq Bumped(body, j)
  <2>1. body'[j][1] = body[j][1] /\ DOMAIN body' = DOMAIN body
    BY <1>2
  <2> QED
    BY <1>2, <2>1 DEF Bumped
<1>7. ASSUME NEW j \in Snakes, alive'[j]
      PROVE  TailInjective(body'[j]) /\ (j = i => Bumped(body', j) = {} /\ IsInjective(body'[j]))
  <2>1. alive[j] /\ TailInjective(body[j])
    BY <1>1, <1>3, <1>7 DEF Bodies
  <2>2. CASE j = i
    BY <1>2, <1>3, <1>6, <1>7, <2>1, <2>2
  <2>3. CASE j # i
    <3>1. body'[j] = body[j]
      BY <1>2, <2>3
    <3> QED
      BY <2>1, <2>3, <3>1
  <2> QED
    BY <2>2, <2>3
<1>8. ASSUME NEW j \in Snakes, alive'[j], at > DrawAt(j)
      PROVE  Bumped(body', j) = {} /\ IsInjective(body'[j])
  <2>1. j # i /\ alive[j]
    BY <1>1, <1>3, <1>4, <1>8
  <2>2. Bumped(body, j) = {} /\ IsInjective(body[j])
    BY <1>1, <1>8, <2>1 DEF Bodies, Settled
  <2>3. body'[j] = body[j]
    BY <1>2, <2>1
  <2> QED
    BY <1>6, <2>2, <2>3
<1>9. ASSUME NEW j \in Snakes, at' = 1 \/ at' > DrawAt(j)
      PROVE  j = i \/ at > DrawAt(j)
  <2>1. j \in 1..Players
    BY PlayersFacts
  <2> QED
    BY <1>1, <1>4, <1>9, <2>1 DEF DrawAt
<1>10. ASSUME NEW j \in Snakes, at' <= MoveAt(j) PROVE at' = 1
  BY <1>4, <1>10, PlayersFacts DEF MoveAt, CheckAt
<1>11. Bodies'
  <2>1. ASSUME NEW j \in Snakes, alive'[j], at' = 1 \/ at' > DrawAt(j)
        PROVE  Bumped(body', j) = {} /\ IsInjective(body'[j])
    BY <1>7, <1>8, <1>9, <2>1
  <2>2. ASSUME NEW j \in Snakes, alive'[j], at' <= MoveAt(j)
        PROVE  IsInjective(body'[j])
    BY <1>10, <2>1, <2>2
  <2> QED
    BY <1>5, <1>7, <2>1, <2>2 DEF Bodies, Settled
<1>12. Pauses'
  <2>1. at' > CheckAt \/ at' = 1
    BY <1>4
  <2> QED
    BY <1>1, <1>4, <1>5, <2>1, PlayersFacts DEF Pauses, CheckAt
<1> QED
  BY <1>1, <1>11, <1>12 DEF Order

LEMMA NextOrder == IInv /\ Order /\ [Next]_vars => Order'
<1>1. Stopped => UNCHANGED vars
  BY DEF Stopped
<1>2. ASSUME Order, UNCHANGED vars PROVE Order'
  <2>1. Bodies => Bodies'
    BY <1>2 DEF Bodies, Settled, Bumped, Held, vars
  <2>2. Pauses => Pauses'
    BY <1>2 DEF Pauses, Held, vars
  <2> QED
    BY <1>2, <2>1, <2>2 DEF Order, vars
<1> QED
  BY <1>1, <1>2, PopulateOrder, InputOrder, AiUpdateOrder, HumanOrder, AiOrder, CheckOrder,
     DrawOrder DEF Next

LEMMA SpecOrder == Spec => []Order
BY InitOrder, NextOrder, SpecIInv, PTL DEF Spec

\* For up to two snakes of each kind, in either view, with resizing and pauses: when a
\* frame begins no snake that is alive has bumped into another or runs through itself.
THEOREM CollisionsAreSettled == Spec => []SettledBetweenFrames
<1>1. Order => SettledBetweenFrames
  BY DEF Order, Bodies, Settled, SettledBetweenFrames, FrameStart
<1> QED
  BY <1>1, SpecOrder, PTL

\* A dead snake never moves, revives or grows, in either view, whoever steers it.
THEOREM TheDeadStayDead == Spec => DeadIsFinal
<1>1. IInv /\ [Next]_vars => [DeadStay]_vars
  <2> SUFFICES ASSUME IInv, Next, NEW i \in Snakes, ~ alive[i]
               PROVE  ~ alive'[i] /\ dir'[i] = dir[i] /\ IsPrefix(body'[i], body[i])
    BY DEF DeadStay
  <2>1. TypeOK /\ body[i] \in Seq(Coords) /\ body \in [Snakes -> Seq(Coords)]
    BY DEF IInv, TypeOK
  <2>2. IsPrefix(body[i], body[i])
    BY <2>1 DEF IsPrefix
  <2>3. ASSUME NEW j \in Snakes, Stay \/ (alive[j] /\ \E d : Move(j, d)), UNCHANGED alive
        PROVE  ~ alive'[i] /\ dir'[i] = dir[i] /\ IsPrefix(body'[i], body[i])
    <3>1. CASE Stay
      BY <2>2, <2>3, <3>1 DEF Stay
    <3>2. ASSUME alive[j], NEW d, Move(j, d)
          PROVE  dir'[i] = dir[i] /\ body'[i] = body[i]
      <4>1. i # j
        BY <3>2
      <4>2. /\ \E t : dir' = [dir EXCEPT ![j] = t]
            /\ \E b : body' = [body EXCEPT ![j] = b]
        BY <3>2 DEF Move
      <4> QED
        BY <2>1, <4>1, <4>2 DEF TypeOK
    <3> QED
      BY <2>2, <2>3, <3>1, <3>2
  <2>4. ASSUME NEW h \in Humans, Human(h)
        PROVE  ~ alive'[i] /\ dir'[i] = dir[i] /\ IsPrefix(body'[i], body[i])
    <3>1. h \in Snakes /\ UNCHANGED alive
      BY <2>4, PlayersFacts DEF Human
    <3>2. Stay \/ (alive[h] /\ \E d : Move(h, d))
      BY <2>4 DEF Human
    <3> QED
      BY <2>3, <3>1, <3>2
  <2>5. ASSUME NEW a \in Snakes \ Humans, Ai(a)
        PROVE  ~ alive'[i] /\ dir'[i] = dir[i] /\ IsPrefix(body'[i], body[i])
    <3>1. UNCHANGED alive
      BY <2>5 DEF Ai
    <3>2. Stay \/ (alive[a] /\ \E d : Move(a, d))
      BY <2>5 DEF Ai
    <3> QED
      BY <2>3, <3>1, <3>2
  <2>6. ASSUME NEW j \in Snakes, Draw(j)
        PROVE  ~ alive'[i] /\ dir'[i] = dir[i] /\ IsPrefix(body'[i], body[i])
    <3>1. ~ alive'[i] /\ dir' = dir
      BY <2>1, <2>6 DEF Draw, TypeOK
    <3>2. IsPrefix(body'[i], body[i])
      BY <2>1, <2>2, <2>6, DrawFacts
    <3> QED
      BY <3>1, <3>2
  <2>7. CASE UNCHANGED <<body, dir, alive>>
    BY <2>2, <2>7
  <2> QED
    BY <2>4, <2>5, <2>6, <2>7
    DEF Next, Populate, Input, AiUpdate, Check, Stopped, vars
<1> QED
  BY <1>1, SpecIInv, PTL DEF Spec, DeadIsFinal

\* Without an AI the pause bit stops both snakes from the key to the end of its
\* frame, in either view and for any windows.
THEOREM PauseStops == Spec => PauseBitStopsTheFrame
<1> DEFINE Stops == NAIs = 0 /\ ctrl.pause => UNCHANGED <<body, rabbits>>
<1>1. IInv /\ Order /\ [Next]_vars => [Stops]_vars
  <2> SUFFICES ASSUME IInv, Order, Next, NAIs = 0, ctrl.pause
               PROVE  UNCHANGED <<body, rabbits>>
    OBVIOUS
  <2>1. CASE Populate
    BY <2>1 DEF Order, Pauses, Populate
  <2>2. ASSUME NEW h \in Humans, Human(h) PROVE UNCHANGED <<body, rabbits>>
    BY <2>2 DEF Human, Stay
  <2>3. ASSUME NEW i \in Snakes, Draw(i) PROVE FALSE
    <3>1. at = DrawAt(i) /\ mode = "running"
      BY <2>3, AtFacts DEF IInv, Draw, InPlace, At
    <3>2. at <= CheckAt
      BY <3>1, PlayersFacts DEF Order, Pauses, Held
    <3> QED
      BY <3>1, <3>2, PlayersFacts DEF DrawAt, CheckAt
  <2>4. Snakes \ Humans = {}
    BY PlayersFacts
  <2> QED
    BY <2>1, <2>2, <2>3, <2>4 DEF Next, Input, AiUpdate, Check, Stopped, vars
<1>2. Spec => [][Stops]_vars
  BY <1>1, SpecIInv, SpecOrder, PTL DEF Spec
<1> QED
  BY <1>2 DEF PauseBitStopsTheFrame

\* Every cell of the board is inside of the AIs' field.
LEMMA BoardInBuffer ==
  ASSUME NEW z \in WindowSizes, NEW c \in Board(z)
  PROVE  InBuffer(c, z)
<1> DEFINE m == z.row - 1
           n == z.col - 1
           x == c[1] - 2
           y == c[2] - 2
<1>1. m \in Nat /\ n \in Nat /\ x \in Nat /\ y \in Nat /\ x + 2 <= m /\ y + 2 <= n
  BY DEF WindowSizes, Board
<1>2. BufIndex(c, z) = x * n + y /\ FieldM(z) * FieldN(z) = m * n
  BY DEF BufIndex, FieldM, FieldN
<1> HIDE DEF m, n, x, y
<1>3. \A a, b, k \in Nat : a + 1 <= b => a * k + k <= b * k
  OBVIOUS
<1>4. x * n + n <= m * n /\ x * n \in Nat /\ m * n \in Nat
  BY <1>1, <1>3
<1>5. x * n + y \in 0..(m * n - 1)
  BY <1>1, <1>4
<1> QED
  BY <1>2, <1>5 DEF InBuffer

\* For any windows, AI::update writes outside of its buffer only when a snake or a
\* rabbit is off the board.
THEOREM OverrunIsAShrink == Spec => []OverrunNeedsShrink
<1>1. Init => OverrunNeedsShrink
  BY DEF Init, OverrunNeedsShrink
<1>2. IInv /\ OverrunNeedsShrink /\ [Next]_vars => OverrunNeedsShrink'
  <2> SUFFICES ASSUME IInv, OverrunNeedsShrink, [Next]_vars, mode' = "undefined"
               PROVE  ~ (SnakeCells(body') \cup Range(rabbits') \subseteq Board(sz'))
    BY DEF OverrunNeedsShrink
  <2>1. CASE AiUpdate
    <3>1. mode = "running" /\ UNCHANGED <<body, rabbits, sz>>
      BY <2>1 DEF AiUpdate, At
    <3>2. ~ \A c \in SnakeCells(body) \cup Range(rabbits) : InBuffer(c, sz)
      BY <2>1, <3>1 DEF AiUpdate
    <3>3. sz \in WindowSizes
      BY WindowsAssumption DEF IInv, TypeOK
    <3> QED
      BY <3>1, <3>2, <3>3, BoardInBuffer
  <2>2. CASE UNCHANGED vars
    BY <2>2 DEF OverrunNeedsShrink, SnakeCells, vars
  <2>3. ~ AiUpdate /\ ~ UNCHANGED vars => mode' # "undefined"
    BY DEF Next, Populate, Input, Check, Stopped, Human, Ai, Draw, At, GuiCheck, TextCheck,
           Stay, Move, Eat, CreateRabbitRandom
  <2> QED
    BY <2>1, <2>2, <2>3
<1> QED
  BY <1>1, <1>2, SpecIInv, PTL DEF Spec

-----------------------------------------------------------------------------
(* Snakes on a board that keeps its size.                                  *)

\* One step along an axis without remainders.
LEMMA AxisSteps ==
  ASSUME NEW size \in Nat \ 0..3, NEW v \in 2..(size - 1)
  PROVE  /\ Forth(v, size) = IF v = size - 1 THEN 2 ELSE v + 1
         /\ Back(v, size) = IF v = 2 THEN size - 1 ELSE v - 1
<1>1. \A a \in Nat : a < size => a % size = a
  OBVIOUS
<1>2. size % size = 0
  OBVIOUS
<1>3. Forth(v, size) = IF v = size - 1 THEN 2 ELSE v + 1
  <2>1. CASE v = size - 1
    BY <1>2, <2>1 DEF Forth
  <2>2. CASE v # size - 1
    <3>1. (v + 1) % size = v + 1
      BY <1>1, <2>2
    <3> QED
      BY <2>2, <3>1 DEF Forth
  <2> QED
    BY <2>1, <2>2
<1>4. Back(v, size) = IF v = 2 THEN size - 1 ELSE v - 1
  <2>1. (v - 1) % size = v - 1
    BY <1>1
  <2> QED
    BY <2>1 DEF Back
<1> QED
  BY <1>3, <1>4

LEMMA BoardIsCoords == \A z \in WindowSizes : Board(z) \subseteq Coords
BY DEF Board, Coords, WindowSizes

\* A step stays on the board, and the step back leads to where it came from.
LEMMA AheadOnBoard ==
  ASSUME NEW z \in WindowSizes, NEW c \in Board(z), NEW d \in Dirs
  PROVE  /\ Ahead(c, d, z) \in Board(z)
         /\ Ahead(Ahead(c, d, z), Opposite[d], z) = c
<1>1. /\ z.row \in Nat \ 0..3 /\ z.col \in Nat \ 0..3
      /\ c = <<c[1], c[2]>> /\ c[1] \in 2..(z.row - 1) /\ c[2] \in 2..(z.col - 1)
  BY DEF WindowSizes, Board
<1>2. ASSUME NEW size \in Nat \ 0..3, NEW v \in 2..(size - 1)
      PROVE  /\ Forth(v, size) \in 2..(size - 1) /\ Back(v, size) \in 2..(size - 1)
             /\ Forth(Back(v, size), size) = v /\ Back(Forth(v, size), size) = v
  <2>1. Forth(v, size) \in 2..(size - 1) /\ Back(v, size) \in 2..(size - 1)
    BY AxisSteps
  <2>2. Forth(Back(v, size), size) = v
    BY <2>1, AxisSteps
  <2>3. Back(Forth(v, size), size) = v
    BY <2>1, AxisSteps
  <2> QED
    BY <2>1, <2>2, <2>3
<1>3. d \in {"up", "down", "left", "right"}
  BY DEF Dirs
<1>4. Ahead(c, d, z) \in Board(z)
  BY <1>1, <1>2, <1>3 DEF Ahead, Board
<1>5. Ahead(Ahead(c, d, z), Opposite[d], z) = c
  BY <1>1, <1>2, <1>3 DEF Ahead, Opposite
<1> QED
  BY <1>4, <1>5

\* The direction that is computed from the two ends of a step along an axis is
\* one that leads from the first to the second.
LEMMA AxisLeads ==
  ASSUME NEW size \in Nat \ 0..3, NEW v \in 2..(size - 1), NEW plus, NEW minus
  PROVE  /\ AxisDir(v, v, size - 3, plus, minus) = "def"
         /\ \A w \in {Forth(v, size), Back(v, size)} :
               \/ AxisDir(v, w, size - 3, plus, minus) = plus /\ w = Forth(v, size)
               \/ AxisDir(v, w, size - 3, plus, minus) = minus /\ w = Back(v, size)
<1>1. AxisDir(v, v, size - 3, plus, minus) = "def"
  BY DEF AxisDir
<1>2. ASSUME NEW w \in {Forth(v, size), Back(v, size)}
      PROVE \/ AxisDir(v, w, size - 3, plus, minus) = plus /\ w = Forth(v, size)
            \/ AxisDir(v, w, size - 3, plus, minus) = minus /\ w = Back(v, size)
  <2>1. CASE w - v = 1 \/ v - w = size - 3
    <3>1. AxisDir(v, w, size - 3, plus, minus) = plus
      BY <2>1 DEF AxisDir
    <3>2. w = Forth(v, size)
      BY <2>1, AxisSteps
    <3> QED
      BY <3>1, <3>2
  <2>2. CASE ~ (w - v = 1 \/ v - w = size - 3)
    <3>1. (v - w = 1 \/ w - v = size - 3) /\ w = Back(v, size)
      BY <2>2, AxisSteps
    <3>2. AxisDir(v, w, size - 3, plus, minus) = minus
      BY <2>2, <3>1 DEF AxisDir
    <3> QED
      BY <3>1, <3>2
  <2> QED
    BY <2>1, <2>2
<1> QED
  BY <1>1, <1>2

Leads(c, d, to, z) == d # "def" /\ Ahead(c, d, z) = to

\* Of two cells a step apart, both ways to combine the directions of the axes lead
\* from the first to the second.
LEMMA SidesLead ==
  ASSUME NEW z \in WindowSizes, NEW a \in Board(z), NEW d \in Dirs, NEW b,
         b = Ahead(a, d, z)
  PROVE  /\ Leads(a, SideDir(a, b, z), b, z)
         /\ Leads(a, IF VerticalDir(a, b, z) # "def" THEN VerticalDir(a, b, z)
                                                     ELSE HorizontalDir(a, b, z), b, z)
<1>1. /\ z.row \in Nat \ 0..3 /\ z.col \in Nat \ 0..3
      /\ a = <<a[1], a[2]>> /\ a[1] \in 2..(z.row - 1) /\ a[2] \in 2..(z.col - 1)
  BY DEF WindowSizes, Board
<1>2. CASE d \in {"up", "down"}
  <2>1. /\ b = <<b[1], a[2]>> /\ b[2] = a[2]
        /\ b[1] \in {Forth(a[1], z.row), Back(a[1], z.row)}
    BY <1>2 DEF Ahead
  <2>2. HorizontalDir(a, b, z) = "def"
    BY <1>1, <2>1, AxisLeads DEF HorizontalDir
  <2>3. \/ VerticalDir(a, b, z) = "down" /\ b[1] = Forth(a[1], z.row)
        \/ VerticalDir(a, b, z) = "up" /\ b[1] = Back(a[1], z.row)
    BY <1>1, <2>1, AxisLeads DEF VerticalDir
  <2>4. Leads(a, VerticalDir(a, b, z), b, z)
    BY <2>1, <2>3 DEF Leads, Ahead
  <2> QED
    BY <2>2, <2>3, <2>4 DEF SideDir
<1>3. CASE d \in {"left", "right"}
  <2>1. /\ b = <<a[1], b[2]>> /\ b[1] = a[1]
        /\ b[2] \in {Forth(a[2], z.col), Back(a[2], z.col)}
    BY <1>3 DEF Ahead
  <2>2. VerticalDir(a, b, z) = "def"
    BY <1>1, <2>1, AxisLeads DEF VerticalDir
  <2>3. \/ HorizontalDir(a, b, z) = "right" /\ b[2] = Forth(a[2], z.col)
        \/ HorizontalDir(a, b, z) = "left" /\ b[2] = Back(a[2], z.col)
    BY <1>1, <2>1, AxisLeads DEF HorizontalDir
  <2>4. Leads(a, HorizontalDir(a, b, z), b, z)
    BY <2>1, <2>3 DEF Leads, Ahead
  <2> QED
    BY <2>2, <2>3, <2>4 DEF SideDir
<1> QED
  BY <1>2, <1>3 DEF Dirs

\* The window is never resized and the snakes start on its board.
FixedWindow == /\ View = "gui" \/ Windows = {Sz0}
               /\ \A i \in Snakes : Starts[i] \in Board(Sz0)

\* Every cell but the last is a step ahead of the one behind it.
Laid(b) == /\ Range(b) \subseteq Board(Sz0)
           /\ \A p \in 1..(Len(b) - 1) : \E d \in Dirs : b[p] = Ahead(b[p + 1], d, Sz0)

OnBoard == /\ sz = Sz0
           /\ \A i \in Snakes : Laid(body[i])
           /\ Range(rabbits) \subseteq Board(Sz0)

\* A step ahead of the head keeps a snake laid.
LEMMA LaidAhead ==
  ASSUME NEW b \in Seq(Coords), b # <<>>, Laid(b), NEW d \in Dirs
  PROVE  LET h == Ahead(b[1], d, Sz0)
         IN  h \in Board(Sz0) /\ Laid(Grown(b, h)) /\ Laid(Shifted(b, h))
<1> DEFINE h == Ahead(b[1], d, Sz0)
<1>1. Len(b) \in Nat \ {0} /\ b[1] \in Range(b) /\ Sz0 \in WindowSizes
  BY WindowsAssumption DEF Range
<1>2. h \in Board(Sz0)
  BY <1>1, AheadOnBoard DEF Laid
<1>3. h \in Coords
  BY <1>2, WindowsAssumption, BoardIsCoords
<1> HIDE DEF h
<1>4. ASSUME NEW c, c \in {Grown(b, h), Shifted(b, h)}
      PROVE  /\ c \in Seq(Coords) /\ c[1] = h /\ Len(c) \in 1..(Len(b) + 1)
             /\ \A p \in 2..Len(c) : c[p] = b[p - 1]
             /\ Range(c) \subseteq Range(b) \cup {h}
  <2>1. CASE c = Grown(b, h)
    BY <1>1, <1>3, <2>1, GrownFacts DEF Grown
  <2>2. CASE c = Shifted(b, h)
    <3> DEFINE f == SubSeq(b, 1, Len(b) - 1)
    <3>1. Len(b) - 1 \in 0..Len(b)
      BY <1>1
    <3>2. f \in Seq(Coords) /\ Len(f) = Len(b) - 1 /\ \A p \in 1..(Len(b) - 1) : f[p] = b[p]
      BY <3>1, PrefixFacts
    <3>3. c = <<h>> \o f
      BY <2>2 DEF Shifted, Front
    <3>4. c \in Seq(Coords) /\ Range(c) \subseteq Range(b) \cup {h}
      BY <1>3, <2>2, ShiftedFacts
    <3> HIDE DEF f
    <3>5. /\ Len(c) = Len(b) /\ c[1] = h
          /\ \A p \in 2..Len(c) : c[p] = f[p - 1] /\ p - 1 \in 1..(Len(b) - 1)
      BY <1>1, <1>3, <3>2, <3>3
    <3> QED
      BY <1>1, <3>2, <3>4, <3>5
  <2> QED
    BY <1>4, <2>1, <2>2
<1>5. ASSUME NEW c, c \in {Grown(b, h), Shifted(b, h)} PROVE Laid(c)
  <2>1. Range(c) \subseteq Board(Sz0)
    BY <1>2, <1>4, <1>5 DEF Laid
  <2>2. ASSUME NEW p \in 1..(Len(c) - 1)
        PROVE  \E e \in Dirs : c[p] = Ahead(c[p + 1], e, Sz0)
    <3>1. c[p + 1] = b[p]
      BY <1>4, <1>5
    <3>2. CASE p = 1
      BY <1>4, <1>5, <3>1, <3>2 DEF h
    <3>3. CASE p # 1
      <4>1. c[p] = b[p - 1] /\ p - 1 \in 1..(Len(b) - 1) /\ (p - 1) + 1 = p
        BY <1>1, <1>4, <1>5, <3>3
      <4> QED
        BY <3>1, <4>1 DEF Laid
    <3> QED
      BY <3>2, <3>3
  <2> QED
    BY <2>1, <2>2 DEF Laid
<1> QED
  BY <1>2, <1>5 DEF h

\* The front of a laid snake is laid.
LEMMA LaidFront ==
  ASSUME NEW b \in Seq(Coords), Laid(b), NEW n \in 1..Len(b)
  PROVE  Laid(SubSeq(b, 1, n))
<1> DEFINE c == SubSeq(b, 1, n)
<1>1. /\ Len(c) = n /\ \A p \in 1..n : c[p] = b[p]
      /\ Range(c) \subseteq Range(b)
  BY PrefixFacts, FrontOf
<1> HIDE DEF c
<1>2. ASSUME NEW p \in 1..(n - 1) PROVE \E d \in Dirs : c[p] = Ahead(c[p + 1], d, Sz0)
  BY <1>1 DEF Laid
<1>3. Laid(c)
  BY <1>1, <1>2 DEF Laid
<1> QED
  BY <1>3 DEF c

\* A new rabbit appears on the board.
LEMMA RabbitOnBoard ==
  ASSUME sz = Sz0, NEW cells, NEW rs \in Seq(Coords), Range(rs) \subseteq Board(Sz0),
         CreateRabbitRandom(cells, rs)
  PROVE  Range(rabbits') \subseteq Board(Sz0)
<1>1. FreeSpots(sz, cells, rs) \subseteq Board(Sz0)
  BY WindowsAssumption DEF FreeSpots, RabbitSpots, Board, WindowSizes
<1>2. ASSUME NEW spot \in Board(Sz0), rabbits' = Append(rs, spot)
      PROVE  Range(rabbits') \subseteq Board(Sz0)
  <2>1. \A p \in DOMAIN rabbits' : rabbits'[p] = spot \/ (p \in DOMAIN rs /\ rabbits'[p] = rs[p])
    <3>1. spot \in Coords
      BY WindowsAssumption, BoardIsCoords
    <3> QED
      BY <1>2, <3>1
  <2> QED
    BY <1>2, <2>1 DEF Range
<1> QED
  BY <1>1, <1>2 DEF CreateRabbitRandom

LEMMA MoveOnBoard ==
  ASSUME IInv, OnBoard, mode = "running", NEW i \in Snakes, NEW d \in Dirs \cup {"def"},
         Move(i, d), UNCHANGED sz
  PROVE  OnBoard'
<1> DEFINE t    == Turn(dir[i], d)
           head == Ahead(body[i][1], t, sz)
<1>1. /\ body \in [Snakes -> Seq(Coords)] /\ body[i] \in Seq(Coords) /\ body[i] # <<>>
      /\ rabbits \in Seq(Coords) /\ t \in Dirs /\ sz = Sz0 /\ Laid(body[i])
  BY TurnIsDir DEF IInv, TypeOK, OnBoard
<1>2. Laid(Grown(body[i], head)) /\ Laid(Shifted(body[i], head))
  <2> HIDE DEF t
  <2> QED
    BY <1>1, LaidAhead
<1>3. \/ /\ body' = [body EXCEPT ![i] = Grown(body[i], head)]
         /\ Eat(head, SnakeCells(body'))
      \/ /\ body' = [body EXCEPT ![i] = Shifted(body[i], head)]
         /\ rabbits' = rabbits
  BY DEF Move
<1> HIDE DEF t, head
<1>4. \A j \in Snakes : Laid(body'[j])
  BY <1>1, <1>2, <1>3 DEF OnBoard
<1>5. Range(rabbits') \subseteq Board(Sz0)
  <2>1. CASE rabbits' = rabbits
    BY <2>1 DEF OnBoard
  <2>2. CASE Eat(head, SnakeCells(body'))
    <3>1. PICK p \in 1..Len(rabbits) :
            CreateRabbitRandom(SnakeCells(body'), RemoveAt(rabbits, p))
      BY <2>2 DEF Eat
    <3>2. /\ RemoveAt(rabbits, p) \in Seq(Coords)
          /\ Range(RemoveAt(rabbits, p)) \subseteq Range(rabbits)
      <4>1. Len(rabbits) \in Nat
        BY <1>1
      <4>2. /\ RemoveAt(rabbits, p) \in Seq(Coords)
            /\ Len(RemoveAt(rabbits, p)) = Len(rabbits) - 1
        BY <1>1, RemoveAtFacts
      <4>3. ASSUME NEW q \in 1..(Len(rabbits) - 1)
            PROVE  RemoveAt(rabbits, p)[q] \in Range(rabbits)
        <5>1. RemoveAt(rabbits, p)[q] = IF q < p THEN rabbits[q] ELSE rabbits[q + 1]
          BY <1>1, RemoveAtFacts
        <5>2. q \in DOMAIN rabbits /\ q + 1 \in DOMAIN rabbits
          BY <1>1, <4>1
        <5> QED
          BY <5>1, <5>2 DEF Range
      <4>4. DOMAIN RemoveAt(rabbits, p) = 1..(Len(rabbits) - 1)
        BY <4>2
      <4> QED
        BY <4>2, <4>3, <4>4 DEF Range
    <3> QED
      BY <1>1, <3>1, <3>2, RabbitOnBoard DEF OnBoard
  <2> QED
    BY <1>3, <2>1, <2>2
<1> QED
  BY <1>1, <1>4, <1>5 DEF OnBoard

LEMMA NextOnBoard == ASSUME FixedWindow, IInv, OnBoard, [Next]_vars PROVE OnBoard'
<1>1. CASE UNCHANGED <<body, rabbits, sz>>
  BY <1>1 DEF OnBoard
<1>2. CASE Populate
  <2>1. UNCHANGED <<body, sz>> /\ (rabbits' = rabbits
                                    \/ CreateRabbitRandom(SnakeCells(body), rabbits))
    BY <1>2 DEF Populate
  <2>2. Range(rabbits') \subseteq Board(Sz0)
    BY <2>1, RabbitOnBoard DEF OnBoard, IInv, TypeOK
  <2> QED
    BY <2>1, <2>2 DEF OnBoard
<1>3. CASE Input
  <2>1. UNCHANGED <<body, rabbits>> /\ sz' = sz
    BY <1>3 DEF Input, GuiInput, TextInput, FixedWindow, OnBoard
  <2> QED
    BY <1>1, <2>1
<1>4. ASSUME NEW h \in Humans, Human(h) PROVE OnBoard'
  <2>1. h \in Snakes /\ mode = "running" /\ UNCHANGED sz /\ ctrl.d[h] \in Dirs \cup {"def"}
    BY <1>4, PlayersFacts DEF Human, At, IInv, TypeOK
  <2>2. Stay \/ Move(h, ctrl.d[h])
    BY <1>4 DEF Human
  <2> QED
    BY <1>1, <2>1, <2>2, MoveOnBoard DEF Stay
<1>5. ASSUME NEW a \in Snakes \ Humans, Ai(a) PROVE OnBoard'
  <2>1. mode = "running" /\ UNCHANGED sz
    BY <1>5 DEF Ai, At
  <2>2. Stay \/ Move(a, AiStep(a))
    BY <1>5 DEF Ai
  <2>3. AiStep(a) \in Dirs \cup {"def"}
    BY CalcNextStepIsDir DEF AiStep
  <2> QED
    BY <1>1, <2>1, <2>2, <2>3, MoveOnBoard DEF Stay
<1>6. ASSUME NEW i \in Snakes, Draw(i) PROVE OnBoard'
  <2>1. body \in [Snakes -> Seq(Coords)] /\ body[i] \in Seq(Coords) /\ body[i] # <<>>
        /\ i \in DOMAIN body
    BY DEF IInv, TypeOK
  <2>2. PICK n \in 1..Len(body[i]) : CutBody(body, i) = SubSeq(body[i], 1, n)
    BY <2>1, CutIsFront
  <2>3. Laid(CutBody(body, i))
    BY <2>1, <2>2, LaidFront DEF OnBoard
  <2>4. body' = [body EXCEPT ![i] = CutBody(body, i)] /\ UNCHANGED <<rabbits, sz>>
    BY <1>6 DEF Draw
  <2> QED
    BY <2>1, <2>3, <2>4 DEF OnBoard
<1>7. CASE AiUpdate \/ Check \/ Stopped
  BY <1>1, <1>7 DEF AiUpdate, Check, Stopped, vars
<1> QED
  BY <1>1, <1>2, <1>3, <1>4, <1>5, <1>6, <1>7 DEF Next, vars

LEMMA SpecOnBoard == ASSUME FixedWindow PROVE Spec => []OnBoard
<1>1. Init => OnBoard
  <2> SUFFICES ASSUME Init PROVE OnBoard
    OBVIOUS
  <2>1. \A i \in Snakes : Laid(body[i])
    BY StartsAssumption DEF Init, FixedWindow, Laid, Range
  <2> QED
    BY <2>1 DEF Init, OnBoard, Range
<1>2. IInv /\ OnBoard /\ [Next]_vars => OnBoard'
  BY NextOnBoard
<1> QED
  BY <1>1, <1>2, SpecIInv, PTL DEF Spec

\* In a window that is not resized the sprites of every snake join, over the edges
\* too, for any board of two rows and columns or more.
THEOREM SpritesJoin == ASSUME FixedWindow PROVE Spec => []DrawnAsLaid
<1>1. ASSUME IInv, OnBoard PROVE DrawnAsLaid
  <2>1. ASSUME NEW i \in Snakes, NEW p \in 1..(Len(body[i]) - 1)
        PROVE  \E d, e \in Dirs : /\ body[i][p] = Ahead(body[i][p + 1], d, sz)
                                  /\ body[i][p + 1] = Ahead(body[i][p], e, sz)
                                  /\ body[i][p] \in Board(sz) /\ body[i][p + 1] \in Board(sz)
    <3>1. Laid(body[i]) /\ body[i] \in Seq(Coords) /\ sz = Sz0 /\ sz \in WindowSizes
      BY <1>1, WindowsAssumption DEF OnBoard, IInv, TypeOK
    <3>2. PICK d \in Dirs : body[i][p] = Ahead(body[i][p + 1], d, sz)
      BY <3>1 DEF Laid
    <3>3. body[i][p + 1] \in Board(sz) /\ body[i][p] \in Board(sz)
      <4>1. p \in DOMAIN body[i] /\ p + 1 \in DOMAIN body[i]
        BY <3>1
      <4> QED
        BY <3>1, <4>1 DEF Laid, Range
    <3>4. body[i][p + 1] = Ahead(body[i][p], Opposite[d], sz) /\ Opposite[d] \in Dirs
      <4>1. Opposite[d] \in Dirs
        BY DEF Opposite, Dirs
      <4> QED
        BY <3>1, <3>2, <3>3, <4>1, AheadOnBoard
    <3> QED
      BY <3>2, <3>3, <3>4
  <2>2. ASSUME NEW i \in Snakes, Len(body[i]) > 1
        PROVE  Leads(Last(body[i]), GetTailDir(body[i], sz), body[i][Len(body[i]) - 1], sz)
    <3>1. Len(body[i]) \in Nat /\ sz \in WindowSizes
      BY <1>1, WindowsAssumption DEF IInv, TypeOK
    <3> DEFINE p == Len(body[i]) - 1
    <3>2. p \in 1..(Len(body[i]) - 1) /\ p + 1 = Len(body[i])
      BY <2>2, <3>1
    <3>3. PICK d \in Dirs : /\ body[i][p] = Ahead(body[i][Len(body[i])], d, sz)
                            /\ body[i][Len(body[i])] \in Board(sz)
      <4> HIDE DEF p
      <4> QED
        BY <2>1, <3>2
    <3> QED
      BY <3>1, <3>3, SidesLead DEF GetTailDir, Last
  <2>3. ASSUME NEW i \in Snakes, NEW p \in 2..(Len(body[i]) - 1)
        PROVE  /\ Leads(body[i][p], GetBodyDir(body[i], p, sz).forward, body[i][p + 1], sz)
               /\ Leads(body[i][p], GetBodyDir(body[i], p, sz).backward, body[i][p - 1], sz)
    <3>1. Len(body[i]) \in Nat /\ sz \in WindowSizes
      BY <1>1, WindowsAssumption DEF IInv, TypeOK
    <3>2. /\ p \in 1..(Len(body[i]) - 1)
          /\ p - 1 \in 1..(Len(body[i]) - 1) /\ (p - 1) + 1 = p
      BY <3>1
    <3>3. \E e \in Dirs : body[i][p + 1] = Ahead(body[i][p], e, sz)
      BY <2>1, <3>2
    <3>4. body[i][p] \in Board(sz) /\ \E d \in Dirs : body[i][p - 1] = Ahead(body[i][p], d, sz)
      BY <2>1, <3>2
    <3>5. /\ Leads(body[i][p], SideDir(body[i][p], body[i][p + 1], sz), body[i][p + 1], sz)
          /\ Leads(body[i][p], SideDir(body[i][p], body[i][p - 1], sz), body[i][p - 1], sz)
      BY <3>1, <3>3, <3>4, SidesLead
    <3> QED
      BY <3>5 DEF GetBodyDir
  <2> QED
    BY <2>2, <2>3 DEF DrawnAsLaid, Leads
<1> QED
  BY <1>1, SpecIInv, SpecOnBoard, PTL

-----------------------------------------------------------------------------
(* What the AI sees, in the window's view with one AI.                     *)

OneAi == View = "gui" /\ NAIs = 1 /\ FixedWindow

\* When the AI moves its field is that of the board.
FieldSeen == mode = "running" /\ at = FieldAt + 1
               => marks = FieldMarks(sz, SnakeCells(body), Range(rabbits))

LEMMA SpecFieldSeen == ASSUME OneAi PROVE Spec => []FieldSeen
<1>1. Init => FieldSeen
  BY DEF Init, FieldSeen
<1>2. IInv /\ Order /\ FieldSeen /\ [Next]_vars => FieldSeen'
  <2> SUFFICES ASSUME IInv, Order, FieldSeen, [Next]_vars, mode' = "running", at' = FieldAt + 1
               PROVE  (marks = FieldMarks(sz, SnakeCells(body), Range(rabbits)))'
    BY DEF FieldSeen
  <2>1. FieldAt = NHumans + 2 /\ NHumans \in Nat /\ Players = NHumans + 1
    BY PlayersFacts DEF FieldAt, OneAi
  <2>2. CASE AiUpdate
    BY <2>2 DEF AiUpdate, SnakeCells
  <2>3. CASE UNCHANGED vars
    BY <2>3 DEF FieldSeen, vars, SnakeCells
  <2>4. CASE Populate
    BY <2>1, <2>4 DEF Populate, Order
  <2>5. ASSUME NEW op \in StepOps \ {"field"}, NEW who, At(op, who), GoOn PROVE FALSE
    <3>1. InPlace([op |-> op, who |-> who], at)
      BY <2>5, AtFacts DEF IInv
    <3>2. at = FieldAt
      BY <2>1, <2>5, AfterAt DEF IInv
    <3> QED
      BY <2>1, <2>5, <3>1, <3>2, PlayersFacts
      DEF InPlace, StepOps, MoveAt, CheckAt, DrawAt, OneAi
  <2>6. ASSUME NEW h \in Humans, Human(h) PROVE FALSE
    BY <2>5, <2>6 DEF Human, StepOps
  <2>7. ASSUME NEW a \in Snakes \ Humans, Ai(a) PROVE FALSE
    BY <2>5, <2>7 DEF Ai, StepOps
  <2>8. ASSUME NEW i \in Snakes, Draw(i) PROVE FALSE
    BY <2>5, <2>8 DEF Draw, StepOps
  <2>9. ~ Input
    BY <2>5 DEF Input, StepOps
  <2>10. ~ Check
    BY <2>5 DEF Check, GuiCheck, TextCheck, StepOps, OneAi
  <2> QED
    BY <2>2, <2>3, <2>4, <2>6, <2>7, <2>8, <2>9, <2>10 DEF Next, Stopped
<1> QED
  BY <1>1, <1>2, SpecIInv, SpecOrder, PTL DEF Spec

\* Different cells of the board have different places in the field's buffer.
LEMMA PlacesDiffer ==
  ASSUME NEW z \in WindowSizes, NEW a \in Board(z), NEW b \in Board(z),
         BufIndex(a, z) = BufIndex(b, z)
  PROVE  a = b
<1> DEFINE n == z.col - 1
<1>1. /\ a = <<a[1], a[2]>> /\ b = <<b[1], b[2]>> /\ n \in Nat
      /\ a[1] - 2 \in Nat /\ b[1] - 2 \in Nat
      /\ a[2] - 2 \in 0..(n - 1) /\ b[2] - 2 \in 0..(n - 1)
  BY DEF WindowSizes, Board
<1>2. (a[1] - 2) * n + (a[2] - 2) = (b[1] - 2) * n + (b[2] - 2)
  BY DEF BufIndex, FieldN
<1> HIDE DEF n
<1>3. \A x, y \in Nat : x < y => x * n + n <= y * n
  <2>1. \A x, y \in Nat : x + 1 <= y => x * n + n <= y * n
    BY <1>1
  <2> QED
    BY <2>1
<1>4. (a[1] - 2) * n \in Nat /\ (b[1] - 2) * n \in Nat
  BY <1>1
<1>5. a[1] - 2 = b[1] - 2
  <2>1. ~ (a[1] - 2 < b[1] - 2)
    BY <1>1, <1>2, <1>3, <1>4
  <2>2. ~ (b[1] - 2 < a[1] - 2)
    BY <1>1, <1>2, <1>3, <1>4
  <2> QED
    BY <1>1, <2>1, <2>2
<1>6. a[2] - 2 = b[2] - 2
  <2>1. (a[1] - 2) * n = (b[1] - 2) * n
    BY <1>5
  <2> QED
    BY <1>1, <1>2, <1>4, <2>1
<1>7. a[1] = b[1] /\ a[2] = b[2]
  BY <1>5, <1>6 DEF Board
<1> QED
  BY <1>1, <1>7

\* Within the board the neighbour that the AI looks at is the cell ahead.
LEMMA NeighbourAhead ==
  ASSUME NEW z \in WindowSizes, z.row > 4, z.col > 4, NEW h \in Board(z), NEW d \in Dirs,
         Ahead(h, d, z) \in ((h[1] - 1)..(h[1] + 1)) \X ((h[2] - 1)..(h[2] + 1))
  PROVE  /\ NeighbourIndex(h[1] - 2, h[2] - 2, d, z) = BufIndex(Ahead(h, d, z), z)
         /\ h[1] - 2 <= FieldM(z) - 1 /\ h[2] - 2 <= FieldN(z) - 1
<1>1. /\ z.row \in Nat \ 0..4 /\ z.col \in Nat \ 0..4
      /\ h = <<h[1], h[2]>> /\ h[1] \in 2..(z.row - 1) /\ h[2] \in 2..(z.col - 1)
  BY DEF WindowSizes, Board
<1>2. ASSUME NEW size \in Nat \ 0..4, NEW v \in 2..(size - 1)
      PROVE  /\ Forth(v, size) \in (v - 1)..(v + 1) => Forth(v, size) = v + 1 /\ v # size - 1
             /\ Back(v, size) \in (v - 1)..(v + 1) => Back(v, size) = v - 1 /\ v # 2
  BY AxisSteps
<1>3. CASE d = "down"
  <2>1. Ahead(h, d, z) = <<Forth(h[1], z.row), h[2]>>
    BY <1>3 DEF Ahead
  <2>2. Ahead(h, d, z) = <<h[1] + 1, h[2]>> /\ h[1] # z.row - 1
    BY <1>1, <1>2, <2>1
  <2>3. NeighbourIndex(h[1] - 2, h[2] - 2, d, z) = ((h[1] - 2) + 1) * FieldN(z) + (h[2] - 2)
    BY <1>1, <1>3, <2>2 DEF NeighbourIndex, FieldM, FieldN
  <2>4. (h[1] - 2) + 1 = (h[1] + 1) - 2
    BY <1>1
  <2> QED
    BY <1>1, <2>2, <2>3, <2>4 DEF BufIndex, FieldM, FieldN
<1>4. CASE d = "up"
  <2>1. Ahead(h, d, z) = <<Back(h[1], z.row), h[2]>>
    BY <1>4 DEF Ahead
  <2>2. Ahead(h, d, z) = <<h[1] - 1, h[2]>> /\ h[1] # 2
    BY <1>1, <1>2, <2>1
  <2>3. NeighbourIndex(h[1] - 2, h[2] - 2, d, z) = ((h[1] - 2) - 1) * FieldN(z) + (h[2] - 2)
    BY <1>1, <1>4, <2>2 DEF NeighbourIndex, FieldM, FieldN
  <2>4. (h[1] - 2) - 1 = (h[1] - 1) - 2
    BY <1>1
  <2> QED
    BY <1>1, <2>2, <2>3, <2>4 DEF BufIndex, FieldM, FieldN
<1>5. CASE d = "left"
  <2>1. Ahead(h, d, z) = <<h[1], Back(h[2], z.col)>>
    BY <1>5 DEF Ahead
  <2>2. Ahead(h, d, z) = <<h[1], h[2] - 1>> /\ h[2] # 2
    BY <1>1, <1>2, <2>1
  <2>3. NeighbourIndex(h[1] - 2, h[2] - 2, d, z) = (h[1] - 2) * FieldN(z) + ((h[2] - 2) - 1)
    BY <1>1, <1>5, <2>2 DEF NeighbourIndex, FieldM, FieldN
  <2>4. (h[2] - 2) - 1 = (h[2] - 1) - 2
    BY <1>1
  <2> QED
    BY <1>1, <2>2, <2>3, <2>4 DEF BufIndex, FieldM, FieldN
<1>6. CASE d = "right"
  <2>1. Ahead(h, d, z) = <<h[1], Forth(h[2], z.col)>>
    BY <1>6 DEF Ahead
  <2>2. Ahead(h, d, z) = <<h[1], h[2] + 1>> /\ h[2] # z.col - 1
    BY <1>1, <1>2, <2>1
  <2>3. NeighbourIndex(h[1] - 2, h[2] - 2, d, z) = (h[1] - 2) * FieldN(z) + ((h[2] - 2) + 1)
    BY <1>1, <1>6, <2>2 DEF NeighbourIndex, FieldM, FieldN
  <2>4. (h[2] - 2) + 1 = (h[2] + 1) - 2
    BY <1>1
  <2> QED
    BY <1>1, <2>2, <2>3, <2>4 DEF BufIndex, FieldM, FieldN
<1> QED
  BY <1>3, <1>4, <1>5, <1>6 DEF Dirs, FieldM, FieldN

\* With one AI and a window of at least three rows and columns of cells that is not
\* resized, a step that the AI has chosen leads to no cell of a snake.
THEOREM AiSeesSnakes ==
  ASSUME OneAi, Sz0.row > 4, Sz0.col > 4 PROVE Spec => AiStepsClear
<1>1. ASSUME IInv, OnBoard, FieldSeen PROVE ClearSteps
  <2> SUFFICES ASSUME NEW a \in Snakes \ Humans, Ai(a), alive[a],
                      AiStep(a) # "def", AiStep(a) # Opposite[dir[a]],
                      Ahead(body[a][1], AiStep(a), sz)
                        \in ((body[a][1][1] - 1)..(body[a][1][1] + 1))
                              \X ((body[a][1][2] - 1)..(body[a][1][2] + 1)),
                      body'[a][1] \in SnakeCells(body)
               PROVE  FALSE
    BY DEF ClearSteps
  <2> DEFINE h == body[a][1]
             d == AiStep(a)
             to == Ahead(h, d, sz)
  <2>1. /\ body \in [Snakes -> Seq(Coords)] /\ body[a] \in Seq(Coords) /\ body[a] # <<>>
        /\ dir[a] \in Dirs /\ sz = Sz0 /\ sz \in WindowSizes
        /\ \A i \in Snakes : Range(body[i]) \subseteq Board(sz)
        /\ Range(rabbits) \subseteq Board(sz)
    BY <1>1, WindowsAssumption DEF IInv, TypeOK, OnBoard, Laid
  <2>2. SnakeCells(body) \subseteq Board(sz) /\ h \in Board(sz)
    BY <2>1 DEF SnakeCells, Range
  <2>3. d \in Dirs
    BY CalcNextStepIsDir DEF AiStep
  <2>4. marks = FieldMarks(sz, SnakeCells(body), Range(rabbits))
    <3>1. NHumans \in Nat /\ a = NHumans + 1
      BY PlayersFacts DEF OneAi
    <3>2. mode = "running" /\ at = FieldAt + 1
      BY <1>1, <3>1, AtFacts DEF Ai, At, IInv, InPlace, MoveAt, FieldAt, OneAi
    <3> QED
      BY <1>1, <3>2 DEF FieldSeen
  <2>5. ~ SeesSnake(h, d, sz, marks)
    <3>1. d \in Permitted(h, sz, marks)
      BY CalcNextStepIsDir DEF AiStep
    <3> QED
      BY <3>1 DEF Permitted
  <2>6. to \in Board(sz)
    BY <2>1, <2>2, <2>3, AheadOnBoard
  <2>7. body'[a][1] = to
    <3>1. Move(a, d)
      BY DEF Ai
    <3>2. Turn(dir[a], d) = d
      BY DEF Turn
    <3>3. \/ body' = [body EXCEPT ![a] = Grown(body[a], to)]
          \/ body' = [body EXCEPT ![a] = Shifted(body[a], to)]
      BY <3>1, <3>2 DEF Move
    <3> HIDE DEF to
    <3>4. to \in Coords
      BY <2>1, <2>6, BoardIsCoords
    <3>5. Grown(body[a], to)[1] = to
      BY <2>1, <3>4 DEF Grown
    <3>6. Shifted(body[a], to)[1] = to
      <4>1. Len(body[a]) - 1 \in 0..Len(body[a])
        BY <2>1
      <4>2. SubSeq(body[a], 1, Len(body[a]) - 1) \in Seq(Coords)
        BY <2>1, <4>1, PrefixFacts
      <4> QED
        BY <3>4, <4>2 DEF Shifted, Front
    <3> QED
      BY <2>1, <3>3, <3>5, <3>6
  <2>8. BufIndex(to, sz) \notin marks
    <3>1. /\ NeighbourIndex(h[1] - 2, h[2] - 2, d, sz) = BufIndex(to, sz)
          /\ h[1] - 2 <= FieldM(sz) - 1 /\ h[2] - 2 <= FieldN(sz) - 1
      BY <2>1, <2>2, <2>3, NeighbourAhead
    <3> QED
      BY <2>5, <3>1 DEF SeesSnake
  <2>9. PICK r \in Range(rabbits) : BufIndex(to, sz) = BufIndex(r, sz)
    BY <2>4, <2>7, <2>8 DEF FieldMarks
  <2>10. to = r
    BY <2>1, <2>6, <2>9, PlacesDiffer
  <2>11. r \notin SnakeCells(body)
    BY <1>1 DEF IInv, RabbitsKept, TypeOK, Range
  <2> QED
    BY <2>7, <2>10, <2>11
<1>2. IInv /\ OnBoard /\ FieldSeen => ClearSteps
  BY <1>1
<1>3. Spec => [](IInv /\ OnBoard /\ FieldSeen)
  BY SpecIInv, SpecOnBoard, SpecFieldSeen, PTL DEF OneAi
<1> QED
  BY <1>2, <1>3, PTL DEF AiStepsClear
=============================================================================
