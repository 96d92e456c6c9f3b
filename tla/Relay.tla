------------------------------- MODULE Relay -------------------------------
(***************************************************************************)
(* msq/main.cpp: a relay race of processes over one System V message       *)
(* queue.  The program forks n_runners children and becomes the judge.     *)
(* Every message is empty, only its type counts:                           *)
(*                                                                         *)
(*   i in 1..n_runners   runner i has come; later, runner i has finished   *)
(*   n_runners + 1       the judge confirms that all have come             *)
(*   n_runners + 10      the judge lets runner 1 go                        *)
(*                                                                         *)
(* The same type i serves the roll call and the baton, so that the race is *)
(* in order only if no roll-call message survives the judge's first loop.  *)
(***************************************************************************)
EXTENDS Naturals, FiniteSets, SequencesExt

CONSTANTS N,            \* n_runners, the program's argument
          QMax,         \* how many empty messages the queue holds (msg_qbytes)
          ForkMayFail   \* whether fork() may return -1

ASSUME NAssumption    == N \in Nat \ {0}
ASSUME QMaxAssumption == QMax \in Nat \ {0}
ASSUME ForkAssumption == ForkMayFail \in BOOLEAN

VARIABLES queue,        \* the message queue: the types of its messages
          jpc,          \* where main(), then judge(), is
          k,            \* the counter i of main's and of judge's loops
          rpc           \* where each runner(index) is

vars == <<queue, jpc, k, rpc>>

Runners == 1..N

Confirm == N + 1        \* mtype of the judge's confirmation
Go      == N + 10       \* mtype of the command to runner 1
MTypes  == Runners \cup {Confirm, Go}

JudgePCs  == {"fork", "collect", "confirm", "go", "time", "done"}
RunnerPCs == {"unborn", "come", "confirmation", "turn", "running", "pass",
              "done"}

Init == /\ queue = <<>>
        /\ jpc = "fork"
        /\ k = 1
        /\ rpc = [i \in Runners |-> "unborn"]

-----------------------------------------------------------------------------
(* The queue.  msgsnd blocks while the queue is full; msgrcv takes the     *)
(* first message whose type is among those asked for (type 0 asks for      *)
(* any) and blocks while there is none.                                    *)

Send(t) == /\ Len(queue) < QMax
           /\ queue' = Append(queue, t)

Receive(types) ==
  \E p \in 1..Len(queue) :
     /\ queue[p] \in types
     /\ \A q \in 1..(p - 1) : queue[q] \notin types
     /\ queue' = RemoveAt(queue, p)

-----------------------------------------------------------------------------
(* main() and judge().                                                     *)

\* The test and increment of a loop "for (i = 1; i <= n_runners; i++)".
LoopOneTooMany(next) == IF k <= N THEN k' = k + 1 /\ jpc' = jpc
                                  ELSE k' = 1     /\ jpc' = next
LoopOneTooFew(next) == IF k + 1 < N THEN k' = k + 1 /\ jpc' = jpc
                                    ELSE k' = 1     /\ jpc' = next
LoopForEver(next) == k' = k /\ jpc' = jpc
Loop(next) == IF k < N THEN k' = k + 1 /\ jpc' = jpc
                       ELSE k' = 1     /\ jpc' = next

\* A fork that fails leaves pid = -1: main continues as after a success, and
\* that runner never exists.
Fork == /\ jpc = "fork"
        /\ \/ rpc' = [rpc EXCEPT ![k] = "come"]
           \/ ForkMayFail /\ UNCHANGED rpc
        /\ Loop("collect")
        /\ UNCHANGED queue

\* A judge who begins the race without the last roll-call message.
CollectOneTooFew == /\ jpc = "collect"
                    /\ Receive(MTypes)
                    /\ LoopOneTooFew("confirm")
                    /\ UNCHANGED rpc
Collect == /\ jpc = "collect"
           /\ Receive(MTypes)
           /\ Loop("confirm")
           /\ UNCHANGED rpc

ConfirmAll == /\ jpc = "confirm"
              /\ Send(Confirm)
              /\ Loop("go")
              /\ UNCHANGED rpc

StartRace == /\ jpc = "go"
             /\ Send(Go)
             /\ jpc' = "time"
             /\ UNCHANGED <<k, rpc>>

\* A judge who stops the clock without taking the last message.
StopClockAtOnce == /\ jpc = "time"
                   /\ \E p \in 1..Len(queue) : queue[p] = N
                   /\ jpc' = "done"
                   /\ UNCHANGED <<queue, k, rpc>>
StopClock == /\ jpc = "time"
             /\ Receive({N})
             /\ jpc' = "done"
             /\ UNCHANGED <<k, rpc>>

Judge == Fork \/ Collect \/ ConfirmAll \/ StartRace \/ StopClock

-----------------------------------------------------------------------------
(* runner(index).                                                          *)

Step(i, from, to) == /\ rpc[i] = from
                     /\ rpc' = [rpc EXCEPT ![i] = to]
                     /\ UNCHANGED <<jpc, k>>

Come(i) == /\ Step(i, "come", "confirmation")
           /\ Send(i)

AwaitConfirmation(i) == /\ Step(i, "confirmation", "turn")
                        /\ Receive({Confirm})

AwaitTurn(i) == /\ Step(i, "turn", "running")
                /\ Receive({IF i = 1 THEN Go ELSE i - 1})

Finish(i) == /\ Step(i, "running", "pass")
             /\ UNCHANGED queue

Pass(i) == /\ Step(i, "pass", "done")
           /\ Send(i)

Runner(i) == \/ Come(i) \/ AwaitConfirmation(i) \/ AwaitTurn(i)
             \/ Finish(i) \/ Pass(i)

-----------------------------------------------------------------------------

Over == jpc = "done" /\ \A i \in Runners : rpc[i] = "done"

\* Every process has exited.
Terminated == Over /\ UNCHANGED vars

Next == Judge \/ (\E i \in Runners : Runner(i)) \/ Terminated

Spec == Init /\ [][Next]_vars

\* A process that can run is run in the end, and a process blocked in msgsnd
\* or msgrcv is woken when its call can complete.
Fairness == WF_vars(Judge) /\ \A i \in Runners : WF_vars(Runner(i))

FairSpec == Spec /\ Fairness

-----------------------------------------------------------------------------
(* Properties.                                                             *)

TypeOK == /\ queue \in Seq(MTypes) /\ Len(queue) <= QMax
          /\ jpc \in JudgePCs
          /\ k \in Runners
          /\ rpc \in [Runners -> RunnerPCs]

OnTrack(i) == rpc[i] \in {"running", "pass"}

\* The baton is one: once the judge has counted the runners, the command to
\* go, the messages "runner i has finished" and the runners on the track are
\* together at most one, whatever confirmations are still in the queue.
OneBaton ==
  jpc \notin {"fork", "collect"} =>
    /\ \A p, q \in 1..Len(queue) :
          queue[p] # Confirm /\ queue[q] # Confirm => p = q
    /\ \A i, j \in Runners : OnTrack(i) /\ OnTrack(j) => i = j
    /\ \A i \in Runners, p \in 1..Len(queue) :
          OnTrack(i) => queue[p] = Confirm

\* Sends and receives balance: when the judge and all runners have exited, no
\* message is left in the queue, which the program never removes.
QueueDrained == Over => queue = <<>>

\* The queue implements the race: a runner is ready when the judge can count
\* it, and the clock ticks from the command to go to the last "finished".
stage == [i \in Runners |->
            [unborn |-> "away", come |-> "away", confirmation |-> "ready",
             turn |-> "ready", running |-> "running", pass |-> "finished",
             done |-> "finished"][rpc[i]]]

clock == IF jpc = "time" THEN "ticking" ELSE
         IF jpc = "done" THEN "stopped" ELSE "idle"

Race == INSTANCE RelayRace

ImplementsRace == Race!Spec

\* Some runner does not exist.
ForkFailed == jpc # "fork" /\ \E i \in Runners : rpc[i] = "unborn"

\* The race is run: judge and runners all exit, however small the queue is,
\* unless a fork has failed, after which the judge waits for ever.
RaceFinishes == <>(Over \/ ForkFailed)
=============================================================================
