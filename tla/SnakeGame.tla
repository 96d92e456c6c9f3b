----------------------------- MODULE SnakeGame -----------------------------
(***************************************************************************)
(* game_project: the snake game as the loop of GUIView::draw or            *)
(* TextView::draw over the model, the human controllers and the AIs.       *)
(*                                                                         *)
(* Everything runs in one thread, so that the hard part is the order: in   *)
(* one frame the snakes move one after the other, each seeing the others   *)
(* where the frame has brought them so far, the field that the AIs steer   *)
(* by is filled once, before (text) or after (gui) the humans have moved,  *)
(* and bumps are looked for only when the snakes are drawn, one by one.    *)
(***************************************************************************)
EXTENDS SnakeAI

CONSTANTS View,         \* the program's first argument: "gui" or "text"
          NHumans,      \* its second argument
          NAIs,         \* its third argument
          NRabbits,     \* rabbits created by draw (10 in the program)
          Starts,       \* where the snakes are created
          Sz0,          \* the window at the start
          Windows       \* the windows that the terminal may be resized to

Snakes == 1..(NHumans + NAIs)
Humans == 1..NHumans

WindowSizes == [row : Nat \ 0..3, col : Nat \ 0..3]

ASSUME ViewAssumption    == View \in {"gui", "text"}
ASSUME PlayersAssumption == NHumans \in 0..2 /\ NAIs \in 0..2
ASSUME RabbitsAssumption == NRabbits \in Nat
ASSUME StartsAssumption  == /\ Starts \in [Snakes -> Coords]
                            /\ \A i, j \in Snakes : Starts[i] = Starts[j] => i = j
ASSUME WindowsAssumption == Sz0 \in WindowSizes /\ Windows \subseteq WindowSizes

VARIABLES body,         \* Snake::c, the coordinates of each snake, head first
          dir,          \* Snake::prev_d
          alive,        \* Snake::status
          rabbits,      \* Model::rabbits
          sz,           \* Model::sz
          modelPause,   \* Model::isOnPause
          marks,        \* AI::field
          mode,         \* what draw() is doing
          at,           \* which step of the frame is next
          ctrl,         \* ctrl_num: what getCtrlNum has read
          isOnPause     \* the local variable of TextView::draw

vars == <<body, dir, alive, rabbits, sz, modelPause, marks, mode, at, ctrl,
          isOnPause>>

\* "closed": draw has returned; "hung": createRabbitRandom finds no free cell
\* and loops for ever; "undefined": AI::update has written outside the field.
Modes == {"populate", "running", "closed", "hung", "undefined"}

SnakeCells(b) == UNION {Range(b[i]) : i \in Snakes}

NoKeys == [d |-> [h \in Humans |-> "def"], pause |-> FALSE, close |-> FALSE]

Init == /\ body = [i \in Snakes |-> <<Starts[i]>>]
        /\ dir = [i \in Snakes |-> "right"]
        /\ alive = [i \in Snakes |-> TRUE]
        /\ rabbits = <<>>
        /\ sz = Sz0
        /\ modelPause = FALSE
        /\ marks = {}
        /\ mode = "populate"
        /\ at = 1
        /\ ctrl = NoKeys
        /\ isOnPause = FALSE

-----------------------------------------------------------------------------
(* The frame: the body of draw's loop as a sequence of steps.              *)

StepOf(op, from, n) == [p \in 1..n |-> [op |-> op, who |-> from + p]]

InputStep == StepOf("input", 0, 1)
FieldStep == StepOf("field", 0, 1)
CheckStep == StepOf("check", 0, 1)
HumanSteps == StepOf("human", 0, NHumans)
AiSteps    == StepOf("ai", NHumans, NAIs)
DrawSteps  == StepOf("draw", 0, NHumans + NAIs)

Frame == IF View = "gui"
         THEN InputStep \o HumanSteps \o FieldStep \o AiSteps
                \o CheckStep \o DrawSteps
         ELSE InputStep \o FieldStep \o HumanSteps \o AiSteps
                \o CheckStep \o DrawSteps

At(op, who) == /\ mode = "running"
               /\ Frame[at] = [op |-> op, who |-> who]

GoOn == at' = IF at < Len(Frame) THEN at + 1 ELSE 1

FrameStart == mode = "running" /\ at = 1

-----------------------------------------------------------------------------
(* Model::createRabbitRandom: rabbits rs are left, the snakes are at cells. *)

CreateRabbitRandom(cells, rs) ==
  \/ \E spot \in FreeSpots(sz, cells, rs) : /\ rabbits' = Append(rs, spot)
                                            /\ mode' = mode
  \/ /\ FreeSpots(sz, cells, rs) = {}
     /\ rabbits' = rs
     /\ mode' = "hung"

(* Snake::move.  The first rabbit under the head is eaten and replaced.    *)

Eat(head, cells) ==
  \E p \in 1..Len(rabbits) :
     /\ rabbits[p] = head
     /\ \A q \in 1..(p - 1) : rabbits[q] # head
     /\ CreateRabbitRandom(cells, RemoveAt(rabbits, p))

\* A snake that is on its new cell only after the new rabbit is placed.
MoveLate(i, d) ==
  LET t    == Turn(dir[i], d)
      head == Ahead(body[i][1], t, sz)
  IN /\ dir' = [dir EXCEPT ![i] = t]
     /\ IF head \in Range(rabbits)
        THEN /\ body' = [body EXCEPT ![i] = Grown(@, head)]
             /\ Eat(head, SnakeCells(body))
        ELSE /\ body' = [body EXCEPT ![i] = Shifted(@, head)]
             /\ UNCHANGED <<rabbits, mode>>
Move(i, d) ==
  LET t    == Turn(dir[i], d)
      head == Ahead(body[i][1], t, sz)
  IN /\ dir' = [dir EXCEPT ![i] = t]
     /\ IF head \in Range(rabbits)
        THEN /\ body' = [body EXCEPT ![i] = Grown(@, head)]
             /\ Eat(head, SnakeCells(body'))
        ELSE /\ body' = [body EXCEPT ![i] = Shifted(@, head)]
             /\ UNCHANGED <<rabbits, mode>>

-----------------------------------------------------------------------------
(* draw: the rabbits before the loop.                                      *)

Populate ==
  /\ mode = "populate"
  /\ IF Len(rabbits) < NRabbits
     THEN CreateRabbitRandom(SnakeCells(body), rabbits)
     ELSE mode' = "running" /\ UNCHANGED rabbits
  /\ UNCHANGED <<body, dir, alive, sz, modelPause, marks, at, ctrl, isOnPause>>

-----------------------------------------------------------------------------
(* getCtrlNum.  Of the keys of one set held or read, the terminal keeps    *)
(* the last; the window reports all, and fonKey takes the first of up,     *)
(* down, left, right.  Only the terminal has a pause key (an escape that   *)
(* does not begin an arrow key), only the window can be closed.            *)

KeyOrder == <<"up", "down", "left", "right">>

GuiInput ==
  /\ View = "gui"
  /\ \/ \E keys \in [Humans -> SUBSET Dirs] :
          ctrl' = [NoKeys EXCEPT !.d = [h \in Humans |-> FirstOf(KeyOrder, keys[h])]]
     \/ ctrl' = [NoKeys EXCEPT !.close = TRUE]
  /\ UNCHANGED sz

\* The terminal's loop sets the window of the model again in every frame.
TextInput ==
  /\ View = "text"
  /\ \E d \in [Humans -> Dirs \cup {"def"}], pause \in BOOLEAN :
       ctrl' = [d |-> d, pause |-> pause, close |-> FALSE]
  /\ sz' \in Windows

Input == /\ At("input", 1)
         /\ GuiInput \/ TextInput
         /\ GoOn
         /\ UNCHANGED <<body, dir, alive, rabbits, modelPause, marks, mode,
                        isOnPause>>

-----------------------------------------------------------------------------
(* The controllers.                                                        *)

Stay == UNCHANGED <<body, dir, rabbits, mode>>

\* A pause that is the business of the first human only.
HumanUnpaused(h) == /\ At("human", h)
                    /\ IF (ctrl.pause /\ h = 1) \/ ~ alive[h] THEN Stay ELSE Move(h, ctrl.d[h])
                    /\ isOnPause' = ctrl.pause
                    /\ ctrl' = [ctrl EXCEPT !.d[h] = "def"]
                    /\ GoOn
                    /\ UNCHANGED <<alive, sz, modelPause, marks>>
\* Human::fonKey.  Nothing reads the direction of the human again.
Human(h) == /\ At("human", h)
            /\ IF ctrl.pause \/ ~ alive[h] THEN Stay ELSE Move(h, ctrl.d[h])
            /\ isOnPause' = ctrl.pause
            /\ ctrl' = [ctrl EXCEPT !.d[h] = "def"]
            /\ GoOn
            /\ UNCHANGED <<alive, sz, modelPause, marks>>

\* AI::update.  A snake or a rabbit that a smaller window has left outside may
\* be written past the end of the field's buffer.
AiUpdate ==
  /\ At("field", 1)
  /\ LET cells == SnakeCells(body)
     IN /\ mode' = IF \A c \in cells \cup Range(rabbits) : InBuffer(c, sz)
                   THEN mode ELSE "undefined"
        /\ marks' = FieldMarks(sz, cells, Range(rabbits))
  /\ GoOn
  /\ UNCHANGED <<body, dir, alive, rabbits, sz, modelPause, ctrl, isOnPause>>

\* AI::fonKey, which ignores the keys and answers 0, for the flag too.
AiStep(a) == IF modelPause THEN "def"
                           ELSE CalcNextStep(body[a][1], rabbits, sz, marks)

Ai(a) == /\ At("ai", a)
         /\ IF alive[a] THEN \E d \in {AiStep(a)} : Move(a, d) ELSE Stay
         /\ isOnPause' = FALSE
         /\ GoOn
         /\ UNCHANGED <<alive, sz, modelPause, marks, ctrl>>

-----------------------------------------------------------------------------
(* What follows the moves.                                                 *)

\* GUIView::draw: the window was closed.
GuiCheck == /\ View = "gui"
            /\ IF ctrl.close THEN mode' = "closed" /\ UNCHANGED at
                             ELSE GoOn /\ UNCHANGED mode
            /\ UNCHANGED modelPause

\* TextView::draw: a frame on pause is not drawn; the second one ever leaves
\* the game, since nothing clears Model::isOnPause.
TextCheck == /\ View = "text"
             /\ \/ /\ ~ isOnPause
                   /\ GoOn
                   /\ UNCHANGED <<mode, modelPause>>
                \/ /\ isOnPause /\ modelPause
                   /\ mode' = "closed"
                   /\ UNCHANGED <<at, modelPause>>
                \/ /\ isOnPause /\ ~ modelPause
                   /\ modelPause' = TRUE
                   /\ at' = 1
                   /\ UNCHANGED mode

Check == /\ At("check", 1)
         /\ GuiCheck \/ TextCheck
         /\ UNCHANGED <<body, dir, alive, rabbits, sz, marks, ctrl, isOnPause>>

\* A drawing that cuts and does not mark the snake that has bumped as dead.
DrawAlive(i) == /\ At("draw", i)
                /\ body' = [body EXCEPT ![i] = CutBody(body, i)]
                /\ GoOn
                /\ UNCHANGED <<alive, dir, rabbits, sz, modelPause, marks, mode,
                               ctrl, isOnPause>>
\* A drawing that takes a snake without a bump for alive again.
DrawRevived(i) == /\ At("draw", i)
                  /\ body' = [body EXCEPT ![i] = CutBody(body, i)]
                  /\ alive' = [alive EXCEPT ![i] = Bumped(body, i) = {}]
                  /\ GoOn
                  /\ UNCHANGED <<dir, rabbits, sz, modelPause, marks, mode, ctrl,
                                 isOnPause>>
\* drawSnakes, and the loop over the snakes of TextView::draw, for one snake:
\* cutIfBump, and status = DEAD when it answers 1.
Draw(i) == /\ At("draw", i)
           /\ body' = [body EXCEPT ![i] = CutBody(body, i)]
           /\ alive' = [alive EXCEPT ![i] = @ /\ Bumped(body, i) = {}]
           /\ GoOn
           /\ UNCHANGED <<dir, rabbits, sz, modelPause, marks, mode, ctrl,
                          isOnPause>>

-----------------------------------------------------------------------------

\* The process has returned from draw, spins, or has corrupted its heap.
Stopped == mode \in {"closed", "hung", "undefined"} /\ UNCHANGED vars

Next == \/ Populate \/ Input \/ AiUpdate \/ Check \/ Stopped
        \/ \E h \in Humans : Human(h)
        \/ \E a \in Snakes \ Humans : Ai(a)
        \/ \E i \in Snakes : Draw(i)

Spec == Init /\ [][Next]_vars

\* The loop of draw keeps running.
FairSpec == Spec /\ WF_vars(Next)

-----------------------------------------------------------------------------
(* Properties.                                                             *)

TypeOK ==
  /\ body \in [Snakes -> Seq(Coords)] /\ \A i \in Snakes : body[i] # <<>>
  /\ dir \in [Snakes -> Dirs]
  /\ alive \in [Snakes -> BOOLEAN]
  /\ rabbits \in Seq(Coords)
  /\ sz \in Windows \cup {Sz0}
  /\ modelPause \in BOOLEAN
  /\ marks \subseteq Int
  /\ mode \in Modes
  /\ at \in 1..Len(Frame)
  /\ ctrl \in [d : [Humans -> Dirs \cup {"def"}], pause : BOOLEAN,
               close : BOOLEAN]
  /\ isOnPause \in BOOLEAN

\* From the first frame on there are NRabbits rabbits, each on a cell of its
\* own where no snake is: an eaten rabbit is replaced in the same move, at a
\* cell that the snake which has just grown does not cover.
RabbitsKept ==
  /\ mode \in {"running", "closed"} => Len(rabbits) = NRabbits
  /\ \A p, q \in 1..Len(rabbits) : rabbits[p] = rabbits[q] => p = q
  /\ \A p \in 1..Len(rabbits) : rabbits[p] \notin SnakeCells(body)

\* Between two frames every collision has been dealt with: a live snake does
\* not run through itself and its head touches no other snake, although the
\* snakes are examined one by one and cut while the others wait.
SettledBetweenFrames ==
  FrameStart =>
    \A i \in Snakes : alive[i] => /\ Bumped(body, i) = {}
                                  /\ IsInjective(body[i])

\* The dead neither revive nor turn nor move: what is left of them can only shrink.
DeadStay == \A i \in Snakes : ~ alive[i] => /\ ~ alive'[i]
                                           /\ dir'[i] = dir[i]
                                           /\ IsPrefix(body'[i], body[i])

\* A dead snake never moves nor revives; what is left of it can only shrink.
DeadIsFinal == [][DeadStay]_vars

\* AI::update writes outside its buffer only when a smaller window has left a
\* snake or a rabbit off the board.
OverrunNeedsShrink ==
  mode = "undefined" =>
    ~ (SnakeCells(body) \cup Range(rabbits) \subseteq Board(sz))

\* The sprites join: for every cell of a snake the directions that drawSnakes
\* computes lead to the neighbours it was laid from, over the edges too.  For
\* windows of at least three by three cells that are not resized.
DrawnAsLaid ==
  \A i \in Snakes :
    LET b == body[i]
        Leads(c, d, to) == d # "def" /\ Ahead(c, d, sz) = to
    IN /\ Len(b) > 1 => Leads(Last(b), GetTailDir(b, sz), b[Len(b) - 1])
       /\ \A p \in 2..(Len(b) - 1) :
            /\ Leads(b[p], GetBodyDir(b, p, sz).forward, b[p + 1])
            /\ Leads(b[p], GetBodyDir(b, p, sz).backward, b[p - 1])

\* What an AI has chosen from its field, it also reaches unhindered.
ClearSteps ==
  \A a \in Snakes \ Humans :
     LET h == body[a][1]
         d == AiStep(a)
     IN Ai(a) /\ alive[a] /\ d # "def" /\ d # Opposite[dir[a]]
          /\ Ahead(h, d, sz) \in ((h[1] - 1)..(h[1] + 1)) \X ((h[2] - 1)..(h[2] + 1))
        => body'[a][1] \notin SnakeCells(body)

\* With one AI, whose field is filled right before it moves: a step that it
\* takes in the direction it has chosen and not over an edge leads to no cell
\* of a snake.
AiStepsClear == [][ClearSteps]_vars

\* An AI that is alone and has one rabbit to hunt eats again and again, for as
\* long as the game runs: it never circles for ever past the rabbit behind it
\* or past its own body.
AiKeepsEating ==
  <>[](mode # "running") \/ []<><<rabbits' # rabbits>>_vars

\* textview.cpp, "first bit replying on Pause mode": from the key to the end of
\* its frame no snake moves, not that of the other human either.  The claim is
\* kept without an AI only: AI::fonKey does not look at the bit.
PauseBitStopsTheFrame ==
  [][NAIs = 0 /\ ctrl.pause => UNCHANGED <<body, rabbits>>]_vars
=============================================================================
