# Verification of MIPT-Computer-science

The repository is a collection of systems-programming exercises and one larger
program, the snake game. They share no code. This directory holds TLA+ models
of the programs whose behaviour is more than input and output, the TLC
configurations that check them on small instances, and TLAPS proofs that hold
for every instance.

## 1. Inventory

Each program is a component of its own; the snake game has four.

| Component | State | Operations | How its parts interact | Hard behaviour |
|---|---|---|---|---|
| `msq/` | one System V queue; where the judge and each runner are | fork loop; judge: collect, confirm, go, stop; runner: come, wait, run, pass | messages told apart only by type | full queue, missing runners, one type for two purposes |
| `eagles/` | bowl `*n`, two semaphores | eagle: wait, eat, post; mother: fill, post | shared memory, semaphores | non-atomic decrement, hand-over, failed fork |
| `game_project/models` | list of snakes, list of rabbits, window, pause flag | `Snake::move`, `cutIfBump`, `createRabbitRandom`, neighbours | called by controllers and views | board edges, full board, order of changes |
| `game_project/controllers` | the AIs' field | `fonKey`, `calcNextStep`, `AI::update` | callbacks bound in `main`, called by the view's loop | stale field, unsigned arithmetic |
| `game_project/views` | the frame loop, keys read | `draw`, `getCtrlNum`, `getWinSize` | calls everything else in a fixed order | order in a frame, pause, resizing |
| `game_project/main` | controllers and snakes created | start-up | binds controllers to the view | none beyond start-up |
| `threads/` | ring of 16 buffers, `reader`, `writer`, two condition variables | reader thread, writer thread | monitor | waiting without the mutex, slot published before it is filled |
| `examtask/` | song position, flag and letter of each process; letters taken | 33 children sing, the parent begins and waits | `SIGUSR1` to the group, one semaphore, shared memory | handler against `sigwait`, lost signals, signals before the handler is set |
| `myshell/` | each shell's descriptors, words, offsets, `errno` | prompt, parse, pipe, fork, exec, wait | pipes, forks, one terminal | descriptors closed twice, failed `execvp`, limits |
| `cat_tester/` | pipes between n children | pump data through children | pipes, `select` | partial writes, closed ends |
| `mycp/` | open files, `errno`, flags | copy to a file, copy to a directory, questions | the file system, shared with others | names that change between two calls, short writes, same file twice |
| `mycat/` | one buffer | copy files or standard input | read by `mywc` in the model | short reads, the rest of the buffer |
| `mywc/` | both ends of a pipe, counters | run a command, count its output | pipe to the child | ends left open, parent that leaves early |
| `sleepsort/` | children that sleep | sort by sleeping | `wait` | timing is the algorithm |
| `myls/`, `myid/` | none | print | none | formatting of system data |
| `CAT/` | list of identifiers | insert, look up | none | unfinished compiler front end |
| `word_counter/` | none | none | none | stubs, most files are empty |

What makes each modelled component correct:

* `msq`: nobody starts before all have come, the runners run one at a time in
  the order of their numbers, the clock stops after the last one, every message
  is consumed, and the race ends.
* `eagles`: one process at the bowl, no meal from an empty bowl, one piece a
  meal, a refill exactly when the bowl is empty, no eagle starves.
* `threads`: every block of the input reaches the output once and in order,
  the input's end ends the program, both threads go on as long as there is work.
  The code keeps little of that; what it keeps is that no block is written
  twice, that a woken thread gets the mutex, and that the output ends.
* `examtask`: no letter has two singers, one child at a time chooses, nobody
  dies with the semaphore, and the song comes to an end. The first is false.
* `myshell`: prompts come after the children of the line, descriptors neither
  leak nor get lost, the end of the input ends every shell, and the output of a
  command reaches the next one. The last is false.
* `mycp`: a result of 0 means that the targets contain what the sources did,
  nothing is overwritten unasked when a flag is given, the call ends.
* `mycat`, `mywc`: the input reaches the pipe in order and whole; counts are
  true if they are printed; neither process is left waiting for the other.
* snake game: rabbits are neither lost nor doubled nor under a snake;
  collisions are settled before the next frame; the dead stay dead; the sprites
  join; the AI does not run into what it sees and goes on eating; nothing is
  written outside the AI's field.

## 2. Plan

In the order in which the modules are built:

1. `RelayRace`, `Relay`, `RelayProofs`: done. Abstract race, queue protocol,
   refinement, proved for every number of runners and every queue.
2. `Nest`, `Eagles`, `EaglesProofs`: done. Abstract nest, semaphore protocol,
   refinement, proved for every number of eagles.
3. `SnakeModel`, `SnakeAI`, `SnakeGame`, `MCSnakeGame`, `SnakeProofs`: done.
   Geometry, AI, frame loop; every safety property of the game proved for every
   window or for every one that keeps its size.
4. `Monitor`, `MonitorProofs`: done. The two threads over the ring, with
   the mutex and the condition variables as the code uses them. A bounded
   first-in first-out channel would be the abstract specification to implement,
   but the program does not implement it (see section 4), so that the
   properties are the ones that are left.
5. `Song`, `SongProofs`, `MCSong` (`examtask/`): done. Processes, pending
   signals, handler against `sigwait`, the semaphore; the choice of a letter
   proved exclusive for every number of children.
6. `Shell`, `ShellProofs`, `MCShell` (`myshell/`): done. Processes with
   descriptor tables; what the first shell keeps proved for any lines.
7. `Copy`, `CopyProofs`, `MCCopy` (`mycp/`): done. One call beside others who
   change names; the meaning of its result proved for any command line and disk.
8. `Cat`, `WordCount`, `WordCountProofs`, `MCWordCount` (`mycat/`, `mywc/`):
   done. `WordCount` composes the counting parent with `Cat` as its command;
   what is written and printed proved for any input.
9. The safety halves of the liveness properties: done for `Relay`, `Eagles`,
   `Song`, `Copy` and `WordCount` (nobody is stuck, and what is left to do is
   bounded and gets less), for `Shell` and `Monitor` in part (see section 5).
10. Left out: a separate abstract specification of `Copy`. Its promise is about
   one result and one disk, and `ZeroMeansCopied` and `AskedFirst` state it.

## 3. The modules

### Relay (`msq/main.cpp`)

`queue` is the sequence of the types of the waiting messages, all of which are
empty; `jpc` is the position of `main` and then of `judge`, `k` the counter of
their loops, `rpc[i]` the position of `runner(i)`. Each `msgsnd` and `msgrcv`
is one action; `Send` blocks on a full queue (`QMax`), `Receive` takes the
first message of the wanted type. `Fork` may fail if `ForkMayFail`.

`RelayRace` is what the program promises: runners are away, ready, running,
finished; the clock is idle, ticking, stopped. `ImplementsRace` maps the
processes to it, through `stage` and `clock`.

### Eagles (`eagles/main.cpp`)

`n` is the shared counter, `bowl_block` and `call_mom` the semaphores' values,
`pc[p]` the position of process p. The decrement is `Load` then `Store` through
a register of the eagle. The processes form a chain of forks: process p forks
process p+1 and becomes an eagle, the last child is the mother. When a fork
fails, `errno` stays set and the check meant for `shmat` ends process p.

`Nest` is the abstract bowl: a meal takes one piece from a bowl that has one
and is counted, a refill happens on an empty bowl. `eaten` counts a meal from
the store on.

### Monitor (`threads/main.cpp`)

The threads are "wr" (`writer`, from the ring to the output) and "rd"
(`reader`, from the input to the ring). `slot` is `FIFOm.data`, one block of
the input in each buffer and 0 for a buffer of zeros; `count` holds
`FIFOm.writer` and `FIFOm.reader` modulo the capacity, the only way the code
uses them. `at[t]` is the position of a thread, `main` that of `main`.

| Code | Action |
|---|---|
| `checkFiles`, `pthread_create` twice | `Check` |
| the test of the counters in `buf_for_reader`, `buf_for_writer` | `Test(t)` |
| `pthread_cond_wait` | `Wait(t)`, then `Signal` of the other or `SpuriousWakeUp(t)`, then `Relock(t)` |
| the increment of the counter | `Take(t)` |
| `read`, `open` | `ReadBlock`, `EndOfInput`, `ReadFails`, `Open` |
| `write`, `release_buf`, `pthread_cond_signal` | `Write`, `Release`, `Signal(t)` |
| `pthread_join` twice | `Join` |

Nobody locks the mutex except `pthread_cond_wait` on its return. Its unlock on
entry, by a thread that may not own the mutex, is undefined for a default mutex
in POSIX; the model has what the default mutex of glibc does, which clears the
lock whoever holds it. `locked` is therefore a flag without an owner. The
counters are read and written without a lock; each access is one step.

### The snake game

`SnakeModel` and `SnakeAI` are operators only. `SnakeModel` has the geometry
(`Ahead`, `Turn`), the two ways a body changes, the cells a rabbit may appear
on, `cutIfBump` and the directions of the sprites. `SnakeAI` has the field, as
the set of buffer indices that hold "snake", the look at the four neighbours,
distances with their `size_t` overflow, and the choice of the step. Unsigned
subtraction is modelled by its effect: the difference of a smaller and a larger
coordinate is larger than any half of a board.

`SnakeGame` is the loop of `draw`. One thread runs everything, so a frame is a
sequence of steps, `Frame`, that `at` walks through, and it differs between the
two views:

    gui:   input, humans, field, AIs, check, draw each snake
    text:  input, field, humans, AIs, check, draw each snake

| Code | Action |
|---|---|
| ten calls of `createRabbitRandom` before the loop | `Populate` |
| `getCtrlNum`, `setWinSZ` | `Input` |
| `AI::update` | `AiUpdate` |
| `Human::fonKey` | `Human(h)` |
| `AI::fonKey` | `Ai(a)` |
| `if (ch & CLOSE_BIT)`, `if (!isOnPause)` | `Check` |
| `cutIfBump` and the status, for one snake | `Draw(i)` |

`mode` is "hung" when `createRabbitRandom` has no free cell, and "undefined"
when `AI::update` writes outside its buffer; both end the model's behaviour.
The random cell is any free cell. `MCSnakeGame` gives windows and starting
cells.

### Song (`examtask/main.cpp`)

`song_index`, `wait_flg` and `proc_letter` are functions of the child, since
every process has its own; `choosing_letter` is the semaphore's value. `pending`
is the set of children for which `SIGUSR1` is not handled yet: the signal is not
queued. The parent's index and flag are never read and left out.

| Code | Action |
|---|---|
| the fork loop, `signal`, `kill`, `wait` of the parent | `Fork`, `Install`, `Begin`, `WaitAll` |
| `signal` of a child, its check of `errno` | `SetHandler`; before it the signal is deadly |
| the tests of `song_index` and `wait_flg` | `TestIndex`, `TestFlag` |
| `sigwait` | `Sleep`, `Wake` |
| `sigHandler` | `sigHandler`, and `Handled` for the child's own signal |
| the two calls of `is_busy`, the semaphore | `LookForLetter`, `Enter`, `LookAgain`, `Take` |
| `kill(0, SIGUSR1)`, `raise` | `Kill`, `Raise` |

`sigwait` for a signal that is not blocked is undefined in POSIX; the model has
what Linux does: a signal that comes during the call ends the call, and one that
comes at any other time goes to the handler, which runs before the process goes
on. Only the handler moves the index. `busy_letters[*busy_i++]` moves the
pointer and not the number, so that `busy` is one letter. The check after
`getpid` finds the `errno` of any fork that failed before the child's own
(`errno`), and the child exits before its loop.

### Shell (`myshell/main.cpp`)

`proc[p]` is a process with all that it has: `pc`, `parent`, `fd` (what each
descriptor stands for), `errno` and the variables of the loop over the commands.
`fork` copies the record, and a child whose `execvp` fails goes on with it as a
shell: the same actions are those of the user's shell and of all later ones.

| Code | Action |
|---|---|
| `while (errno != ECHILD) wait(...)` and the reset | `Reap`, `NoChild`, `Waited` |
| the prompt, `read`, `rebuild_cmd` | `Prompt`, `ReadLine`, `Leave` |
| the top of the loop with `pipe`, the `close` behind it | `Iterate` with `Piped`, `CloseRead`, `EndLoop` |
| `fork` and the parent's part | `Fork`, with `AfterFork` |
| the child's `close` and `dup`, `execvp` | `Exec`, with `Plumbing` |
| `flagHandler` | `Interrupt` |

A line is a sequence of words and bars, with or without a space in front
(`Words`, `NWords` and `FirstLen` are what `rebuild_cmd` and the count at line
100 make of it). `Garbage` is what the uninitialised `cur_pipe` may hold.

### Copy (`mycp/main.cpp`)

`copyToFile` and `copyToDirectory` do the same calls in the same order, so that
each action stands for both and `toDir` tells them apart. `fs` leads from names
to inodes, `data` from inodes to blocks: a file whose name `Others` take away can
still be read and written. `opened`, with what each source contained when its
copy was begun, and `said` are history. `GetFlags` has the effect of testing with
`|`: any flag switches `interactive` and `verbose` on.

| Code | Action |
|---|---|
| `getFlags`, `isDirectory` | `Start` |
| `open` of the source and the check of `errno` | `Open` |
| `access` | `Access` |
| the question | `Ask` |
| `open` with `O_TRUNC`, with `O_CREAT` and `O_EXCL` | `Truncate`, `Create` |
| the copy loop | `CopyBlock`, `CopyFails`, `ReadDirectory`, `EndOfFile` |

### Cat and WordCount (`mycat/main.cpp`, `mywc/main.cpp`)

`Cat` is the loop of `mycat` with a pipe for its output: `left` is the input,
`buffer` the array, `taken` and `written` are the history of reads and writes.
`WordCount` adds the parent, the child before its `execvp`, and who holds which
end of the pipe (`readers`, `writers`).

## 4. The runs

| Run | Instance | Shows |
|---|---|---|
| `relay` | 4 runners, queue of 3, any fork may fail, fairness | `OneBaton`, `QueueDrained`, `ImplementsRace`, `RaceFinishes` |
| `eagles` | 4 eagles, 3 pieces, 4 meals, any fork may fail, fairness | `OneAtBowl`, `BowlOfferedFull`, `StuckOnlyWithoutMother`, `EveryEagleFed`, `ImplementsNest` |
| `snake_gui` | human and AI, board of 3 by 4 cells, bodies up to 3 | rabbits, collisions, sprites, the AI's steps |
| `snake_ai_alone` | one AI, same board, no bound on its length | `AiKeepsEating` |
| `snake_text` | two humans, windows 6 by 4 and 4 by 4, bodies up to 2 | `OverrunNeedsShrink` under resizing, `PauseBitStopsTheFrame` |
| `monitor` | ring of 4, 5 blocks of standard input or of up to 2 files, failing calls, spurious wake-ups, fairness | `NotTwice`, `WokenGetsMutex`, `OutputEnds` |
| `song` | 3 children, song "ab", any fork may fail, fairness | `OneChooser`, `ParentSurvives`, `SongStops` |
| `song_same_letter` | 2 children, song "ab" | a violation: a letter has two singers, because the song moves on between the look and the taking |
| `shell` | 2 of 8 kinds of lines, 4 processes of 5 descriptors, failing calls, fairness | `PromptAfterChildren`, `DescriptorsKept`, `AllEnd` |
| `shell_no_input` | 1 line, 3 processes | a violation: `read_fd_prev` is no read end of a pipe |
| `copy` | 21 command lines, 5 files and a directory, 2 changes by others, failing and short calls, fairness | `ZeroMeansCopied`, `AskedFirst`, `Ends` |
| `word_count` | inputs of 0 to 7 bytes, buffers of 3, pipe of 2 buffers, fairness | `WrittenAsRead`, `PrintedIsTrue`, `BothEnd` |

Why the bounds are enough. In `relay`, the judge has one confirmation more to
send than the queue of three holds, so that he, and runners with him, block;
four runners give the baton a first, a middle and a last holder. A failed fork
really stops the relay and may stop the eagles, so neither run checks deadlock:
`RaceFinishes` and `EveryEagleFed` say that nothing else stops them.
In `eagles`, four times four meals over three pieces empty the bowl
five times, at different places of the eagles' loops, and leave one piece at
the end. In the game, a snake of three cells has a head, a middle and a tail,
so that every kind of sprite occurs; the boards are small enough for every
snake to cross each edge and meet each other one. A self-bite needs a length of
five and happens in `snake_ai_alone`, which has no bound on the length, but
does not check the collisions. One rabbit stands for
ten; the number matters only for `RabbitsKept`, which is proved for any number.

In the ring, five blocks through four buffers make both threads come round, fill
the ring, empty it, and pass each other, and two files are enough for one that
is opened and one that is not. The monitor's run does not check deadlock, because
both threads may really sleep for ever.

Three children and two letters let one child sing, one choose and one be late
with its handler or asleep; the index passes the end of the song, and a child
may take the letter that another has. A fork that fails ends the children behind
it, so that with three any one, two or none may sing. In `shell`, four processes hold the
user's shell, a shell of a failed command and the rest of their pipelines at
once, with one process more than there is room for; with five descriptors a
second pipe fails in the child that has kept the first. The eight lines are one
for each way through the loop: no word, an empty first word, one command, one
with an argument, a bar at the end after one and two commands, two commands and
three; `MaxLines` is two, because what a line leaves behind is seen by the next.
In `copy`, the arguments are a file onto another and onto itself, a directory as
source, too many sources, two sources into the directory, two with one name, and
a source that is the target of the next; `EnvMax` of two is a file that is
removed and made again. In `word_count`, seven bytes fill two buffers and a
part of a third, more than the pipe holds when the parent has left.
`word_count` does not check deadlock, because nothing is left to do when both
processes have ended; `BothEnd` says that nothing else stops them. The other
new modules have a step `Quiet` for the end of the program.

`Short` is a state constraint: states with a longer snake are checked and not
followed.

### Fairness

`Relay`: weak fairness for the judge and for each runner. The kernel schedules
every process that can run, and wakes a blocked `msgsnd` or `msgrcv` when its
call can complete; no two processes compete for ever for the same message,
because each takes a bounded number. `Eagles`: weak fairness for each eagle and
the mother. A semaphore may wake any waiter, and each eagle has a bounded
number of meals, so that weak fairness suffices. `SnakeGame`: weak fairness of
the whole step, which says that the loop of `draw` keeps running; the random
cell is never assumed to be fair. `Monitor`: weak fairness for each thread and
for `main`, which the kernel schedules when they can run. A thread that waits
for the mutex gets it although the fairness is weak: nothing is assumed about
who wins when both want it. No signal and no spurious wake-up is assumed, and
`<>[][no SpuriousWakeUp]_vars` says that waits end without a signal finitely
often only: a thread that is woken again and again for nothing is not a fault of
the program. `Song`, `Shell`, `WordCount`: weak fairness for each process. The
semaphore and the pipe have bounded numbers of takers. `Shell`'s fairness lets a
command end and the user stop typing; both are what the shell waits for. `Copy`:
weak fairness of the call, in which the user answers; a failure is allowed at
every step of the copy loop and never assumed.

### What the runs taught

* In `threads`, a signal between the test and the wait of the other thread is
  lost, and both threads can then sleep with input left.
* A thread that has been woken late does not test again: the writer may pass
  the reader, after which blocks come out in another order, and a block that
  the reader puts into a buffer that the writer is about to release is lost.
  Both threads may hold one buffer at the same time.
* The first buffer that the writer takes has never been filled: the output
  starts with a buffer of zeros. The program never exits at the end of its
  input, since the writer sleeps and `main` joins it.
* A writer whose `write` fails returns without `release_buf`, although the comment
  at `threads/main.cpp:53` asks to release always.
* In the song, a child may take the letter 0 that stands before and behind the
  song, and the children that are asleep when no signal is left stay so with the
  parent waiting for them. `SongStops` has that as one of the two ends.
* A letter gets two singers because the letter that a child has looked for is not
  the one that it takes, if a signal moves its index in between: this is the trace
  of `song_same_letter`, for which two children suffice. It is not the only way.
  Of several letters taken only the last is known, because every child writes
  `busy_letters[0]` (`Take`); with three children that would do as well.
* After a failed fork every later child of the song exits before its loop,
  because it inherits `errno`; the parent and the children before it do not notice.
* Every command of a pipeline of `myshell` is the first one again, run once for
  as many times as its length goes into the line's, and no pipe has a reader
  once it is used: its read end is closed before the fork (`shell_no_input`). A
  command that is not found makes a second shell; two of them in one pipeline
  read the terminal at the same time. Each keeps one descriptor more than its
  parent. With a space before its first word a line is never a command.
* `mycp` with any flag asks, is verbose, and never removes; without a flag it
  overwrites. It makes a new file only in a directory, because `isDirectory`
  leaves `ENOENT` in `errno`, unless the target goes away between two of its
  calls. Of several existing targets, the user can agree to one: the answer to
  the second question is the newline of the first. A source that is its own
  target is emptied, with the result 0, which `ZeroMeansCopied` states as its
  exception; a directory as source empties the target before it is refused.
* `mycat` ends with its first file. It writes its whole buffer, so that behind a
  block that is shorter than the buffer the output has the bytes that an earlier
  block left there; `WrittenAsRead` says which they are and does not forbid them.
* `mywc` returns after its first read and
  prints counts, all zero, only for a command without output.
* With an AI in the game the pause bit does not stop the AI's snake, whose answer
  0 also takes the pause back (`textview.cpp:39`); the model's pause, once set, is
  never cleared, moves nothing and stops nobody, and lets the next pause key end
  the game (`textview.cpp:88`).
* `checkFiles` refuses readable files (`Check`; no run is about that alone). Of several unreadable files only the
  first is ever opened, and the file branch of `reader` never signals.
* The game hangs when the board is full: `createRabbitRandom` never returns.
  `snake_ai_alone` reaches this, as the excuse in `AiKeepsEating` says.
* A terminal that shrinks from six to four rows under a snake makes
  `AI::update` write outside its buffer. A shrink by one row does not, because
  the field has a spare row and column.
* `AiStepsClear` is false for a terminal: the field is filled before the humans
  move, so that an AI may step onto a cell that a human has just taken.
* The field has two more rows and columns' worth of indices than the board, so
  an AI looks past the edge at a row that no snake is ever on and may run over
  the edge into a snake. `AiStepsClear` therefore speaks of steps within the
  board only.
* The rule against turning back is applied after the AI has chosen: it may be
  sent on into a snake it has seen. `AiStepsClear` excludes that case.
* Two snakes of one cell may swap their cells in a frame without a collision.

## 5. The proofs

`EaglesProofs` proves, for every number of eagles, meals and pieces above zero
and with or without failing forks, `TypesCorrect`, `MutualExclusion`,
`HandOver`, `Implementation` (`Spec => ImplementsNest`), `NeverStuckWithMother`
(`StuckOnlyWithoutMother`) and `EaglesGoForward`. The invariant is
the conjunction of types; `Places` (which positions are the mother's and which
the eagles': they share none); `Chain` (behind a process that has not forked its
successor, or failed to, every process is unborn, so that a fork never disturbs
one that runs); `EndOfChain` (the chain has reached the mother, or there is
somebody who forks or has failed); `Kept` (the permission to eat is in one of the
two semaphores or with a process at the bowl, it is never lost); `Bowl`, which
ties the registers and the food to the positions (at "store" the register equals
`n`); and the safety properties themselves. `Bowl` is what makes the load and
store one step of `Nest`. When everybody is stuck, `Kept` leaves only a call that
nobody answers, and `EndOfChain` a fork that has failed.

`RelayProofs` proves, for every number of runners and every size of the queue
above zero, whichever forks fail, `TypeCorrect`, `BatonIsOne` (`OneBaton`),
`NothingLeft` (`QueueDrained`) and `Implementation` (`Spec => ImplementsRace`).
The judge counts messages and never looks at runners, so the invariant counts as
well, a phase at a time. `Gathering`: the messages sent in the roll call are as
many as the runners who have come, so that the N-th one the judge takes was the
last, everyone is there and the queue is empty. `Confirming`: the queue holds
confirmations only, and together with the runners past that point they are as
many as the judge has sent. `Racing`: some m runners are done and the baton is
with the next one, in the queue or on the track; nothing else is in the queue but
confirmations, as many as there are runners who wait for one. The number of a
runner serves for his arrival and later for his baton; `Gathering` and `Racing`
establish that the two are never in the queue together.

The same invariant gives `RaceNeverBlocks`: if the judge waits in the roll call,
`Gathering` says that the runners not yet counted have not sent, and an empty
queue lets them; a full queue holds confirmations by `Confirming`, which lets
the runners take one; and in the race the baton is for somebody who can take it.
Only a failed fork leaves everybody waiting.

`SnakeProofs` proves, for both views, any windows of at least four rows and
columns, any number of rabbits and up to two players of each kind, everything
that the runs check about a game whose windows may change:

* `TypesCorrect` and `RabbitsAreKept`, from `IInv`, which adds that there are
  never too many rabbits while the board is populated. The argument is in
  `MoveFacts`: the eaten rabbit leaves the list, the others are off its cell
  because they were all different (`RemoveAtApart`), the grown snake covers only
  old cells and that one, and the new rabbit is put on a cell that is free of both.
* `CollisionsAreSettled` (`SettledBetweenFrames`) and `PauseStops`
  (`PauseBitStopsTheFrame`), from `Order`. `FramePlaces` computes the place of
  every step in the frame of each view, so that `at` tells which snakes have
  moved and which have been drawn. `Bodies` then says that a snake is settled
  from its drawing to its next move, and in between repeats no cell but its head
  (`TailAfterMove`): a cut of a later snake only takes cells away, so that it
  unsettles no earlier one. `Pauses` says how far the bit has come: it reaches
  the check through the answer of the last controller.
* `TheDeadStayDead` (`DeadIsFinal`) and `OverrunIsAShrink`
  (`OverrunNeedsShrink`). The second rests on `BoardInBuffer`, which bounds the
  index of every cell of the board for any window.

For a window that keeps its size, with the snakes' starts on its board
(`FixedWindow`, true of the graphical view), it proves two more:

* `SpritesJoin` (`DrawnAsLaid`). By `OnBoard` each cell of a snake is a step
  ahead of the one behind it; a step can be taken back (`AheadOnBoard`), and the
  differences that `getTailDir` and `getBodyDir` look at find it, or on a board
  of two rows another one to the same cell (`SidesLead`).
* `AiSeesSnakes` (`AiStepsClear`), with one AI in the graphical view and at least
  three rows and columns of cells. `FieldSeen` says that the AI moves on the field
  of the frame. Off the edges the index that it looks at is that of the cell ahead
  (`NeighbourAhead`), no two cells have one index (`PlacesDiffer`), and a rabbit
  that has been written over a mark is on no snake. With two rows of cells the
  step over the edge leads to the row beside it and the property is false.

`MonitorProofs` proves, for every capacity of at least two and every length of
the input, with standard input or files, failing calls and spurious wake-ups,
`TypesCorrect` and `NoBlockTwice`. `NotTwice` alone is not inductive: a written
block could be in a buffer still. The invariant adds `Fresh` (what has not been
read is nowhere), `Single` (a block is in one buffer only) and `Cleared` (a
written block is in a buffer only while the writer is about to clear that
buffer). No step is about the order of the threads: `QuietStep` disposes of
every action that touches no buffer. The proof shows why no lock is needed for
this much. `WokenFindMutexFree` is about the mutex, which the threads lock by
`pthread_cond_wait` only: whoever sleeps or has been woken while the other one
sleeps or has reached the end of the input finds it free, so that it is only ever
a running thread, or one that has failed, that a woken one waits for. The two
threads may all the same sleep both of them, as the run allows.

`SongProofs` proves, for every number of children, every song, and whichever
forks fail, `TypesCorrect`, `OneChild` (`OneChooser`) and
`ParentIsSafe` (`ParentSurvives`). `OneChooser` says what the semaphore is worth
while a child is in the choice, which makes it inductive for the steps of the
choice; it breaks only at steps that kill (a signal to the group) or create (a
fork). `AfterSignalKeeps` disposes of the first: a signal kills only those that
have no handler yet, and they are not in the choice. The second and
`ParentSurvives` need `Early`: before the parent's own signal nothing is pending
and every child has exited after a failed fork or is on its way to its first
`sigwait`, since its flag is 1 and its index -1.

`SongStopsFree` says how the song may stop: when neither the parent nor a child
has a step, the program has ended or those who are left sleep in `sigwait`, and
nobody keeps the semaphore or waits for it. `SongGoesForward` says that it does
not go on for ever, although a signal makes the others sing, who signal in turn.
Each child's signals are paid for with letters of the song (`SignalsLeft`): a
signal moves its own index on too, and a new round begins only within the song.
A signal that is on its way or has been handled gives a child at most one more
round each (`Credit`), so that between two signals there is a bounded number of
steps (`StepsLeft`).

`ShellProofs` proves, for any number of processes and of descriptors, any lines
and any contents of the uninitialised `cur_pipe`, `TypeCorrect`,
`AloneAtThePrompt` (`PromptAfterChildren`) and `DescriptorsAreKept`
(`DescriptorsKept`). The invariant is the types, `AloneAtPrompt` (an `errno` of `ECHILD` in the waiting loop, and the
prompt that follows it, mean that there is no child) and `Kept`, about the first
shell. The shell closes numbers and not files, so that `Kept` says of every number
that may be closed next what it stands for: between lines and at the top of the
loop the shell is `Tidy`, with the terminal as its input and nothing above 2;
with a new pipe it has the two ends besides (`TidyButEnds`), before a fork the write
end `cur_pipe[2]` (`TidyButPipe`); and
neither `read_fd_prev` nor the number `cur_pipe[1]` that it takes over, which the
loop closes once more, is 0.

`ShellsNeverDeadlock` is about the shells that failed commands leave behind, which
wait for children of their own while others wait for them. That no circle comes
about cannot be seen from the numbers of processes, which are given again. The
invariant `Descent` is that there is some measure of the tree of processes, in which
each child is below its living parent; at a fork the new process gets 0 and all
others one more.

`CopyProofs` proves, for any command lines, names, directories and contents, and
any number of changes by others, `TypeCorrect`, `ZeroIsCopied`
(`ZeroMeansCopied`) and `AsksFirst` (`AskedFirst`). Names come and go, so the
invariant speaks of inodes. `Disk` says that names lead to files that there are
and that a new file gets a number that was never used (`NewInodeFacts`).
`AllCopied` says of each finished copy that it has its `Outcome`, what the source
contained when the copy was begun, unless its file has been written to since;
`AtHand` says of the one at hand that its source still contains that and that what
has been read is written; `CopiesStay` is the lemma that a step leaves an
earlier copy as it is unless it writes to a file that is now being copied to. `Agreed` keeps the
user's answer from the question to the write. `Zero` ties the result to the number
of sources that have been opened. `ZeroMeansCopied` says no more than the code
keeps: a "no" ends the call with 0, short writes go unnoticed, and the `Outcome` of
a file that is copied to itself is nothing. `CopyGoesForward` says that every step of
`mycp` comes to a later stage, to the next source, or has one block less to copy.
The block that is written does not lengthen the source: that could only be when
the source is the target, and then it has been truncated (`AtHand`).

`WordCountProofs` proves, for any input, any size of the buffer and any room in
the pipe, `CatWritesAsRead` (`WrittenAsRead`) and `CountsAreTrue`
(`PrintedIsTrue`). The buffer of `mycat` is never cleared: each cell holds the
byte of the last block that was long enough to reach it. `Remains` says so of the
buffer as it is and of every buffer as it was written (`LastAfter`: a new block
changes it for the cells that it reaches). `Piping` says what the parent may
conclude from the end of the pipe: that `mycat` has ended, and has written
nothing if the first read finds nothing. `Holders` says who may still have an end
of the pipe: the parent its write end no longer than to the close, the child its
read end no longer than to its first step. From it follows `NeverBlocked`, that the
parent never waits for an end that it keeps open itself, nor the child for room
that nobody will make; and `BothGoForward` bounds what each has left to do.

All assumptions are the named `ASSUME`s of the modules: positive numbers; at
most two players of each kind as `main` creates, windows of at least four rows
and columns, snakes that start at row and column two or beyond and, as in `main`,
on different cells; lines that have a word or a space; command lines with a
source; bytes and blocks as the contents of files and inputs. `FixedWindow` and
`OneAi` are hypotheses of the two theorems above and hold in the run `snake_gui`.

Out of the prover's reach and therefore only model-checked: liveness
(`RaceFinishes`, `EveryEagleFed`, `AiKeepsEating`, `WokenGetsMutex`,
`OutputEnds`, `SongStops`, `AllEnd`, `Ends`, `BothEnd`). Every invariant and action
property that a passing run checks is proved.

Of the liveness properties the safety halves are proved where they could be. That
nobody is stuck is a state predicate with the negated guards of all the actions;
`StuckIsStuck`, `DeadlockedIsStuck`, `BlockedIsStuck` and `StoppedIsStopped` prove
that no step is possible where it holds. The other direction, that it holds
wherever no step is possible, needs `ENABLED`: as an invariant of small instances
TLC confirms it. That the steps come to an
end is a bound and an action property, by which each step leaves less to do
(`Forward`, `LessToDo`). Together they leave only the rule of weak fairness to
be applied for `RaceFinishes`, `EveryEagleFed`, `SongStops` and `BothEnd`. For
`Ends` it is left that a stage of `Copy` always has a step; for `AllEnd` that
the processes are bounded in number, each line making children with fewer words
left than their parent; for `WokenGetsMutex` that the other thread comes to
rest. `OutputEnds` and `AiKeepsEating` have no proof of any part.

## 6. What is not modelled

Output, sprites, colours and terminal control of the views; parsing of
arguments; `Model::update`, `Controller::get`, `AI::printField`, which nothing
calls; failures of `mmap`, `shmat` and `sem_init` at start-up. In `threads`: a buffer
that is read and written at once as a mixture of both contents, failures of
`pthread_create`, a `write` that answers 0, the overflow of the counters after
2^31 buffers.

Edges of single calls that no property covers: `msq` with an argument below 1,
where `pid` is read uninitialised (`msq/main.cpp:43`, excluded by
`NAssumption`); a snake of length one, whose drawing reads past its list
(`guiview.cpp:189`, without effect on the state); a terminal of fewer than four
rows or twenty columns (`textview.cpp:108`, excluded by `WindowSizes`); an arrow
key that is split over two reads (`textview.cpp:204`: its result is in the model,
its bytes are not); a line of 512 words (`myshell/main.cpp:197`); the names that
are one byte longer than their blocks (`mycp/main.cpp:374`) and the hexadecimal
mask 0x0777 (`mycp/main.cpp:22`); the `errno` that `mycat` compares with an older
one (`mycat/main.cpp:88`: the read that follows ends it all the same).

In `Song`, failures of `mmap`, `sem_init` and `shmget` before any child exists.
In `Shell`, the texts of words and the overflow of their array by a line of 512
words. In `Copy`, modes and permissions, flags that do not stand first, the
branches for `forse`, which no command line reaches, and the final bytes that
`getFileName` and `createDestPathName` write behind their blocks. In `Cat`, the
message of `checkFiles`, after which the program goes on as before.

`cat_tester` reads its array of 4n descriptors up to the index 16n in every run
(`cat_tester/main.cpp:91`) and closes the numbers it finds, and it calls `execl`
without the final null, so that its code does not say what it does. A model
would have to choose the contents of the heap; the pumps to the first child and
from the last are commented out, so that there is nothing to follow the input of.
`sleepsort` sorts by real time: a model without clocks allows every order, and
one with exact clocks only the sorted one. `myls` and `myid`
only format what the system reports; `word_counter` consists of stubs; `CAT` is
an unfinished list of identifiers; the test scripts of `mycat` are not part of a
program.
