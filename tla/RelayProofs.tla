---------------------------- MODULE RelayProofs ----------------------------
(***************************************************************************)
(* For every number of runners and every size of the message queue, and    *)
(* whichever forks fail: the types, the uniqueness of the baton, the empty *)
(* queue at the end, the implementation of RelayRace, and that judge and   *)
(* runners never block each other and only go forward.                     *)
(*                                                                         *)
(* The judge counts messages, never runners.  The invariant therefore      *)
(* counts too: in the roll call the messages sent are the runners who have *)
(* come, so the N-th one the judge takes is the last and leaves the queue  *)
(* empty; the confirmations sent and not yet taken are the runners who     *)
(* still wait for one; and in the race the queue holds nothing else but    *)
(* the baton, of the runner all of whose predecessors are done.            *)
(***************************************************************************)
EXTENDS Relay, FiniteSetTheorems, TLAPS

\* The runners who have announced themselves, and those whom the judge's
\* confirmation has reached.
Arrived == {i \in Runners : rpc[i] \notin {"unborn", "come"}}
Past    == {i \in Runners : rpc[i] \notin {"unborn", "come", "confirmation"}}

AtTheLine(i) == rpc[i] \in {"confirmation", "turn"}

OnlyConfirms == \A p \in 1..Len(queue) : queue[p] = Confirm

\* While the judge forks and collects.
Gathering ==
  jpc \in {"fork", "collect"} =>
    /\ \A i \in Runners : rpc[i] \in {"unborn", "come", "confirmation"}
    /\ \A p \in 1..Len(queue) : queue[p] \in Runners
    /\ Cardinality(Arrived) = Len(queue) + (IF jpc = "collect" THEN k - 1 ELSE 0)
    /\ jpc = "fork" => \A i \in k..N : rpc[i] = "unborn"

\* While he confirms, and before the command to go.
Confirming ==
  jpc \in {"confirm", "go"} =>
    /\ \A i \in Runners : AtTheLine(i)
    /\ OnlyConfirms
    /\ Len(queue) + Cardinality(Past) = IF jpc = "confirm" THEN k - 1 ELSE N

\* The message that runner m + 1 waits for.
Baton(m) == IF m = 0 THEN Go ELSE m

\* The baton is in the queue, at p, and runner m + 1 has not taken it.
Passed(m) ==
  /\ \E p \in 1..Len(queue) :
       /\ queue[p] = Baton(m)
       /\ \A q \in 1..Len(queue) : q # p => queue[q] = Confirm
  /\ m < N => AtTheLine(m + 1)
  /\ Len(queue) + Cardinality(Past) = N + 1

\* Runner m + 1 is on the track.
Carried(m) ==
  /\ m < N
  /\ OnTrack(m + 1)
  /\ OnlyConfirms
  /\ Len(queue) + Cardinality(Past) = N

\* While the clock ticks: m runners have passed the baton.
Lap(m) ==
  /\ \A i \in 1..m : rpc[i] = "done"
  /\ \A i \in (m + 2)..N : AtTheLine(i)
  /\ Passed(m) \/ Carried(m)

Racing == jpc = "time" => \E m \in 0..N : Lap(m)

Finished == jpc = "done" => queue = <<>> /\ \A i \in Runners : rpc[i] = "done"

\* The inductive invariant.
IInv == TypeOK /\ Gathering /\ Confirming /\ Racing /\ Finished

-----------------------------------------------------------------------------
(* Sequences and sets of runners.                                          *)

\* Append, by length and by element.
LEMMA AppendFacts ==
  ASSUME NEW S, NEW s \in Seq(S), NEW x \in S
  PROVE  /\ Append(s, x) \in Seq(S)
         /\ Len(Append(s, x)) = Len(s) + 1
         /\ Append(s, x)[Len(s) + 1] = x
         /\ \A q \in 1..Len(s) : Append(s, x)[q] = s[q]
  OBVIOUS

\* The concatenation of two sequences, by length and by element.
LEMMA ConcatFacts ==
  ASSUME NEW S, NEW a \in Seq(S), NEW b \in Seq(S)
  PROVE  /\ a \o b \in Seq(S) /\ Len(a \o b) = Len(a) + Len(b)
         /\ \A q \in 1..Len(a) : (a \o b)[q] = a[q]
         /\ \A q \in 1..Len(b) : (a \o b)[Len(a) + q] = b[q]
  OBVIOUS

\* new is old without its p-th element: what new holds was at other places of
\* old, and an element at another place r is still there, beside others.
Removed(new, old, p) ==
  /\ Len(new) = Len(old) - 1
  /\ \A q \in 1..Len(new) : \E r \in 1..Len(old) : r # p /\ new[q] = old[r]
  /\ \A r \in 1..Len(old) : r # p =>
        \E q \in 1..Len(new) :
           /\ new[q] = old[r]
           /\ \A t \in 1..Len(new) : t # q =>
                \E u \in 1..Len(old) : u \notin {p, r} /\ new[t] = old[u]

\* What RemoveAt of SequencesExt does.
LEMMA RemoveAtFacts ==
  ASSUME NEW S, NEW s \in Seq(S), NEW p \in 1..Len(s)
  PROVE  RemoveAt(s, p) \in Seq(S) /\ Removed(RemoveAt(s, p), s, p)
<1> DEFINE left  == SubSeq(s, 1, p - 1)
           right == SubSeq(s, p + 1, Len(s))
           Old(q) == IF q < p THEN q ELSE q + 1
           New(r) == IF r < p THEN r ELSE r - 1
<1>1. left \in Seq(S) /\ Len(left) = p - 1 /\ \A q \in 1..(p - 1) : left[q] = s[q]
  OBVIOUS
<1>2. /\ right \in Seq(S) /\ Len(right) = Len(s) - p
      /\ \A q \in 1..(Len(s) - p) : right[q] = s[q + p]
  OBVIOUS
<1>3. RemoveAt(s, p) = left \o right
  BY DEF RemoveAt
<1> HIDE DEF left, right
<1>4. /\ left \o right \in Seq(S) /\ Len(left \o right) = Len(left) + Len(right)
      /\ \A q \in 1..Len(left) : (left \o right)[q] = left[q]
      /\ \A q \in 1..Len(right) : (left \o right)[Len(left) + q] = right[q]
  <2>1. left \in Seq(S) /\ right \in Seq(S)
    BY <1>1, <1>2
  <2> QED
    BY ONLY <2>1, ConcatFacts
<1>5. ASSUME NEW q \in 1..(Len(s) - 1)
      PROVE  RemoveAt(s, p)[q] = s[Old(q)]
  <2>1. CASE q < p
    BY <1>1, <1>3, <1>4, <2>1
  <2>2. CASE ~ (q < p)
    <3>1. /\ q - (p - 1) \in 1..(Len(s) - p)
          /\ q - (p - 1) + p = q + 1 /\ (p - 1) + (q - (p - 1)) = q
      BY <2>2
    <3>2. (left \o right)[q] = right[q - (p - 1)]
      BY <1>1, <1>2, <1>4, <3>1
    <3>3. right[q - (p - 1)] = s[q + 1]
      BY <1>2, <3>1
    <3>4. Old(q) = q + 1
      BY <2>2
    <3> HIDE DEF Old
    <3> QED
      BY <1>3, <3>2, <3>3, <3>4
  <2> QED
    BY <2>1, <2>2
<1>6. Len(s) \in Nat
  OBVIOUS
<1>7. \A q \in 1..(Len(s) - 1) : Old(q) \in 1..Len(s) /\ Old(q) # p
  BY <1>6
<1>8. \A r \in 1..Len(s) : r # p =>
        /\ New(r) \in 1..(Len(s) - 1) /\ Old(New(r)) = r
        /\ \A t \in 1..(Len(s) - 1) : t # New(r) => Old(t) # r
  BY <1>6
<1> HIDE DEF Old, New
<1>9. RemoveAt(s, p) \in Seq(S) /\ Len(RemoveAt(s, p)) = Len(s) - 1
  BY <1>1, <1>2, <1>3, <1>4, <1>6
<1>10. ASSUME NEW r \in 1..Len(s), r # p
       PROVE  \E q \in 1..(Len(s) - 1) :
                 /\ RemoveAt(s, p)[q] = s[r]
                 /\ \A t \in 1..(Len(s) - 1) : t # q =>
                      \E u \in 1..Len(s) :
                         u \notin {p, r} /\ RemoveAt(s, p)[t] = s[u]
  <2>1. New(r) \in 1..(Len(s) - 1) /\ RemoveAt(s, p)[New(r)] = s[r]
    BY <1>5, <1>8, <1>10
  <2>2. \A t \in 1..(Len(s) - 1) : t # New(r) =>
           Old(t) \in 1..Len(s) /\ Old(t) \notin {p, r} /\ RemoveAt(s, p)[t] = s[Old(t)]
    BY <1>5, <1>7, <1>8, <1>10
  <2> QED
    BY <2>1, <2>2
<1> DEFINE new == RemoveAt(s, p)
<1>11. new \in Seq(S) /\ Len(new) = Len(s) - 1
  BY <1>9
<1>12. \A q \in 1..(Len(s) - 1) : \E r \in 1..Len(s) : r # p /\ new[q] = s[r]
  BY <1>5, <1>7
<1>13. \A r \in 1..Len(s) : r # p =>
         \E q \in 1..(Len(s) - 1) :
            /\ new[q] = s[r]
            /\ \A t \in 1..(Len(s) - 1) : t # q =>
                 \E u \in 1..Len(s) : u \notin {p, r} /\ new[t] = s[u]
  BY <1>10
<1> HIDE DEF new
<1>14. Removed(new, s, p)
  BY <1>11, <1>12, <1>13 DEF Removed
<1> QED
  BY <1>11, <1>14 DEF new

\* Counting runners.
LEMMA RunnersCount ==
  ASSUME NEW S \in SUBSET Runners
  PROVE  /\ Cardinality(S) \in 0..N
         /\ Cardinality(S) = N => S = Runners
         /\ \A i \in Runners \ S : Cardinality(S \cup {i}) = Cardinality(S) + 1
<1>1. IsFiniteSet(Runners) /\ Cardinality(Runners) = N
  BY NAssumption, FS_Interval DEF Runners
<1>2. /\ IsFiniteSet(S) /\ Cardinality(S) <= Cardinality(Runners)
      /\ Cardinality(Runners) = Cardinality(S) => Runners = S
  BY <1>1, FS_Subset
<1>3. Cardinality(S) \in Nat
  BY <1>2, FS_CardinalityType
<1>4. \A i \in Runners \ S : Cardinality(S \cup {i}) = Cardinality(S) + 1
  BY <1>2, FS_AddElement
<1> QED
  BY <1>1, <1>2, <1>3, <1>4, NAssumption

-----------------------------------------------------------------------------
(* The two calls on the queue, and the steps of a runner.                  *)

\* queue' is queue with the message t at its end.
With(t) ==
  /\ Len(queue') = Len(queue) + 1
  /\ queue'[Len(queue) + 1] = t
  /\ \A q \in 1..Len(queue) : queue'[q] = queue[q]

\* msgrcv takes one message, of a type that was asked for.
LEMMA Received ==
  ASSUME TypeOK, NEW types, Receive(types)
  PROVE  /\ queue' \in Seq(MTypes) /\ Len(queue) \in Nat /\ Len(queue') <= QMax
         /\ \E p \in 1..Len(queue) : queue[p] \in types /\ Removed(queue', queue, p)
<1>1. queue \in Seq(MTypes) /\ Len(queue) \in Nat /\ Len(queue) <= QMax
  BY DEF TypeOK
<1>2. PICK p \in 1..Len(queue) : queue[p] \in types /\ queue' = RemoveAt(queue, p)
  BY DEF Receive
<1>3. queue' \in Seq(MTypes) /\ Removed(queue', queue, p)
  BY <1>1, <1>2, RemoveAtFacts
<1>4. Len(queue') <= QMax
  BY <1>1, <1>3, QMaxAssumption DEF Removed
<1> QED
  BY <1>1, <1>2, <1>3, <1>4

\* msgsnd puts one message at the end.
LEMMA Sent ==
  ASSUME TypeOK, NEW t \in MTypes, Send(t)
  PROVE  /\ queue' \in Seq(MTypes) /\ Len(queue) \in Nat /\ With(t)
         /\ Len(queue') <= QMax
<1>1. queue' \in Seq(MTypes) /\ Len(queue) \in Nat /\ With(t)
  BY AppendFacts DEF TypeOK, Send, With
<1>2. Len(queue') <= QMax
  BY <1>1, QMaxAssumption DEF Send, With
<1> QED
  BY <1>1, <1>2

\* What a step of a runner does to the two counts.
LEMMA StepCounts ==
  ASSUME TypeOK, NEW i \in Runners, NEW from, NEW to \in RunnerPCs, Step(i, from, to)
  PROVE  /\ rpc' \in [Runners -> RunnerPCs] /\ rpc'[i] = to
         /\ \A j \in Runners \ {i} : rpc'[j] = rpc[j]
         /\ from = "come" /\ to = "confirmation" =>
              Cardinality(Arrived') = Cardinality(Arrived) + 1
         /\ from = "confirmation" /\ to = "turn" =>
              Cardinality(Past') = Cardinality(Past) + 1
         /\ {from, to} \subseteq {"turn", "running", "pass", "done"} => Past' = Past
<1>1. /\ rpc \in [Runners -> RunnerPCs] /\ rpc[i] = from
      /\ rpc' = [rpc EXCEPT ![i] = to]
  BY DEF TypeOK, Step
<1>2. from = "come" /\ to = "confirmation" => Arrived' = Arrived \cup {i} /\ i \notin Arrived
  BY <1>1 DEF Arrived
<1>3. from = "confirmation" /\ to = "turn" => Past' = Past \cup {i} /\ i \notin Past
  BY <1>1 DEF Past
<1>4. {from, to} \subseteq {"turn", "running", "pass", "done"} => Past' = Past
  BY <1>1 DEF Past
<1>5. Arrived \in SUBSET Runners /\ Past \in SUBSET Runners
  BY DEF Arrived, Past
<1>6. /\ \A j \in Runners \ Arrived : Cardinality(Arrived \cup {j}) = Cardinality(Arrived) + 1
      /\ \A j \in Runners \ Past : Cardinality(Past \cup {j}) = Cardinality(Past) + 1
  BY <1>5, RunnersCount
<1> QED
  BY <1>1, <1>2, <1>3, <1>4, <1>6

\* The roll call and the confirmations count as they should, whatever the
\* runners do.
LEMMA CountTypes ==
  Cardinality(Arrived) \in 0..N /\ Cardinality(Past) \in 0..N
<1>1. Arrived \in SUBSET Runners /\ Past \in SUBSET Runners
  BY DEF Arrived, Past
<1> QED
  BY <1>1, RunnersCount

-----------------------------------------------------------------------------
(* The invariant holds at first, and each action preserves it.             *)

LEMMA InitIInv == Init => IInv
<1> SUFFICES ASSUME Init PROVE IInv
  OBVIOUS
<1>1. /\ queue = <<>> /\ jpc = "fork" /\ k = 1 /\ rpc = [i \in Runners |-> "unborn"]
      /\ Len(queue) = 0 /\ queue \in Seq(MTypes)
  BY DEF Init
<1>2. Arrived = {}
  BY <1>1 DEF Arrived
<1>3. Cardinality(Arrived) = 0
  BY <1>2, FS_EmptySet
<1>4. TypeOK
  BY <1>1, NAssumption, QMaxAssumption DEF TypeOK, Runners, JudgePCs, RunnerPCs
<1>5. Gathering
  BY <1>1, <1>3, NAssumption DEF Gathering, Runners
<1> QED
  BY <1>1, <1>4, <1>5 DEF IInv, Confirming, Racing, Finished

LEMMA ForkIInv == IInv /\ Fork => IInv'
<1> SUFFICES ASSUME IInv, Fork PROVE IInv'
  OBVIOUS
<1>1. /\ TypeOK /\ Gathering /\ jpc = "fork" /\ queue' = queue /\ k \in 1..N /\ N \in Nat
      /\ rpc' = rpc \/ rpc' = [rpc EXCEPT ![k] = "come"]
      /\ \/ k < N /\ k' = k + 1 /\ jpc' = "fork"
         \/ k = N /\ k' = 1 /\ jpc' = "collect"
  BY NAssumption DEF IInv, Fork, Loop, TypeOK, Runners
<1>2. rpc[k] = "unborn" /\ \A i \in (k + 1)..N : rpc[i] = "unborn"
  BY <1>1 DEF Gathering
<1>3. TypeOK'
  BY <1>1 DEF TypeOK, Runners, JudgePCs, RunnerPCs
<1>4. Arrived' = Arrived
  BY <1>1, <1>2 DEF TypeOK, Arrived
<1>5. Gathering'
  <2>1. \A i \in Runners : rpc'[i] \in {"unborn", "come", "confirmation"}
    BY <1>1 DEF TypeOK, Gathering, Runners
  <2>2. \A i \in (k + 1)..N : rpc'[i] = "unborn"
    BY <1>1, <1>2 DEF TypeOK, Runners
  <2>3. jpc' = "fork" => \A i \in k'..N : rpc'[i] = "unborn"
    BY <1>1, <2>2
  <2>4. Cardinality(Arrived') = Len(queue') + (IF jpc' = "collect" THEN k' - 1 ELSE 0)
    <3>1. Cardinality(Arrived) = Len(queue) /\ Len(queue) \in Nat
      BY <1>1 DEF Gathering, TypeOK
    <3> QED
      BY <1>1, <1>4, <3>1
  <2> QED
    BY <1>1, <2>1, <2>3, <2>4 DEF Gathering
<1> QED
  BY <1>1, <1>3, <1>5 DEF IInv, Confirming, Racing, Finished

\* The N-th message of the roll call is the last, and every runner has come.
LEMMA CollectIInv == IInv /\ Collect => IInv'
<1> SUFFICES ASSUME IInv, Collect PROVE IInv'
  OBVIOUS
<1>1. /\ TypeOK /\ Gathering /\ jpc = "collect" /\ rpc' = rpc /\ k \in 1..N /\ N \in Nat
      /\ \/ k < N /\ k' = k + 1 /\ jpc' = "collect"
         \/ k = N /\ k' = 1 /\ jpc' = "confirm"
  BY NAssumption DEF IInv, Collect, Loop, TypeOK, Runners
<1>2. Receive(MTypes)
  BY DEF Collect
<1>3. PICK p \in 1..Len(queue) : Removed(queue', queue, p)
  BY <1>1, <1>2, Received
<1>4. queue' \in Seq(MTypes) /\ Len(queue') <= QMax /\ Len(queue) \in Nat
      /\ Len(queue') = Len(queue) - 1
  BY <1>1, <1>2, <1>3, Received DEF Removed
<1>5. TypeOK'
  BY <1>1, <1>4 DEF TypeOK, Runners, JudgePCs
<1>6. Arrived' = Arrived /\ Past' = Past /\ Cardinality(Arrived) = Len(queue) + k - 1
  BY <1>1, <1>4 DEF Gathering, Arrived, Past
<1>7. CASE k < N
  <2>1. k' = k + 1 /\ jpc' = "collect"
    BY <1>1, <1>7
  <2>2. Gathering'
    <3>1. \A q \in 1..Len(queue') : queue'[q] \in Runners
      BY <1>1, <1>3 DEF Gathering, Removed
    <3> QED
      BY <1>1, <1>4, <1>6, <2>1, <3>1 DEF Gathering
  <2> QED
    BY <1>5, <2>1, <2>2 DEF IInv, Confirming, Racing, Finished
<1>8. CASE k = N
  <2>1. k' = 1 /\ jpc' = "confirm"
    BY <1>1, <1>8
  <2>2. Cardinality(Arrived) = N /\ Len(queue') = 0
    BY <1>1, <1>3, <1>4, <1>6, <1>8, CountTypes
  <2>3. Arrived = Runners
    <3>1. Arrived \in SUBSET Runners
      BY DEF Arrived
    <3> QED
      BY <2>2, <3>1, RunnersCount
  <2>4. \A i \in Runners : rpc[i] = "confirmation"
    BY <1>1, <2>3 DEF Arrived, Gathering
  <2>5. Past = {}
    BY <2>4 DEF Past
  <2>6. Cardinality(Past) = 0
    BY <2>5, FS_EmptySet
  <2>7. Confirming'
    BY <1>1, <1>6, <2>1, <2>2, <2>4, <2>6 DEF Confirming, OnlyConfirms, AtTheLine
  <2> QED
    BY <1>5, <2>1, <2>7 DEF IInv, Gathering, Racing, Finished
<1> QED
  BY <1>1, <1>7, <1>8

\* The judge confirms once for each runner.
LEMMA ConfirmIInv == IInv /\ ConfirmAll => IInv'
<1> SUFFICES ASSUME IInv, ConfirmAll PROVE IInv'
  OBVIOUS
<1>1. /\ TypeOK /\ Confirming /\ jpc = "confirm" /\ rpc' = rpc /\ k \in 1..N /\ N \in Nat
      /\ Send(Confirm)
      /\ \/ k < N /\ k' = k + 1 /\ jpc' = "confirm"
         \/ k = N /\ k' = 1 /\ jpc' = "go"
  BY NAssumption DEF IInv, ConfirmAll, Loop, TypeOK, Runners
<1>2. queue' \in Seq(MTypes) /\ Len(queue') <= QMax /\ Len(queue) \in Nat /\ With(Confirm)
  BY <1>1, Sent DEF MTypes
<1>3. TypeOK'
  BY <1>1, <1>2 DEF TypeOK, Runners, JudgePCs
<1>4. Confirming'
  <2>1. OnlyConfirms'
    BY <1>1, <1>2 DEF Confirming, OnlyConfirms, With
  <2>2. Past' = Past /\ Cardinality(Past) \in 0..N
    BY <1>1, CountTypes DEF Past
  <2>3. Len(queue') + Cardinality(Past') = k
    BY <1>1, <1>2, <2>2 DEF Confirming, With
  <2> QED
    BY <1>1, <2>1, <2>3 DEF Confirming, AtTheLine
<1> QED
  BY <1>1, <1>3, <1>4 DEF IInv, Gathering, Racing, Finished

\* The command to go is the first baton.
LEMMA StartIInv == IInv /\ StartRace => IInv'
<1> SUFFICES ASSUME IInv, StartRace PROVE IInv'
  OBVIOUS
<1>1. /\ TypeOK /\ Confirming /\ jpc = "go" /\ rpc' = rpc /\ k' = k /\ N \in Nat \ {0}
      /\ Send(Go) /\ jpc' = "time"
  BY NAssumption DEF IInv, StartRace
<1>2. queue' \in Seq(MTypes) /\ Len(queue') <= QMax /\ Len(queue) \in Nat /\ With(Go)
  BY <1>1, Sent DEF MTypes
<1>3. TypeOK'
  BY <1>1, <1>2 DEF TypeOK, JudgePCs
<1>4. Past' = Past /\ Cardinality(Past) \in 0..N
  BY <1>1, CountTypes DEF Past
<1>5. Passed(0)'
  <2>1. \A q \in 1..Len(queue') : q # Len(queue) + 1 => queue'[q] = Confirm
    BY <1>1, <1>2 DEF Confirming, OnlyConfirms, With
  <2>2. Len(queue) + 1 \in 1..Len(queue') /\ queue'[Len(queue) + 1] = Baton(0)
    BY <1>2 DEF With, Baton
  <2>3. Len(queue') + Cardinality(Past') = N + 1
    BY <1>1, <1>2, <1>4 DEF Confirming, With
  <2>4. AtTheLine(1)'
    BY <1>1 DEF Confirming, AtTheLine, Runners
  <2> QED
    BY <2>1, <2>2, <2>3, <2>4 DEF Passed, Baton
<1>6. Lap(0)'
  BY <1>1, <1>5 DEF Lap, Confirming, AtTheLine, Runners
<1>7. 0 \in 0..N
  BY <1>1
<1> QED
  BY <1>1, <1>3, <1>6, <1>7 DEF IInv, Gathering, Confirming, Racing, Finished

\* In a lap, a message that is not the baton is a confirmation.
LEMMA LapMessages ==
  ASSUME TypeOK, NEW m \in 0..N, Lap(m), NEW p \in 1..Len(queue), queue[p] # Confirm
  PROVE  Passed(m) /\ queue[p] = Baton(m)
         /\ \A q \in 1..Len(queue) : q # p => queue[q] = Confirm
<1>1. Passed(m)
  BY DEF Lap, Carried, OnlyConfirms
<1> QED
  BY <1>1 DEF Passed

\* The clock stops when the last message is taken, and nothing is left.
LEMMA StopIInv == IInv /\ StopClock => IInv'
<1> SUFFICES ASSUME IInv, StopClock PROVE IInv'
  OBVIOUS
<1>1. /\ TypeOK /\ Racing /\ jpc = "time" /\ rpc' = rpc /\ k' = k /\ N \in Nat \ {0}
      /\ Receive({N}) /\ jpc' = "done"
  BY NAssumption DEF IInv, StopClock
<1>2. PICK p \in 1..Len(queue) : queue[p] = N /\ Removed(queue', queue, p)
  BY <1>1, Received
<1>3. queue' \in Seq(MTypes) /\ Len(queue') <= QMax /\ Len(queue) \in Nat
      /\ Len(queue') = Len(queue) - 1
  BY <1>1, <1>2, Received DEF Removed
<1>4. PICK m \in 0..N : Lap(m)
  BY <1>1 DEF Racing
<1>5. Passed(m) /\ m = N
  BY <1>1, <1>2, <1>4, LapMessages DEF Baton, Go, Confirm
<1>6. \A i \in Runners : rpc[i] = "done"
  BY <1>4, <1>5 DEF Lap, Runners
<1>7. Past = Runners
  BY <1>6 DEF Past
<1>8. Cardinality(Runners) = N
  BY <1>1, FS_Interval DEF Runners
<1>9. Len(queue') = 0
  BY <1>1, <1>3, <1>5, <1>7, <1>8 DEF Passed
<1>10. queue' = <<>>
  BY <1>3, <1>9
<1>11. TypeOK'
  BY <1>1, <1>3 DEF TypeOK, JudgePCs
<1> QED
  BY <1>1, <1>6, <1>10, <1>11 DEF IInv, Gathering, Confirming, Racing, Finished

\* Where the runners are in a lap.
LEMMA LapPlaces ==
  ASSUME NEW m \in 0..N, Lap(m), NEW i \in Runners
  PROVE  /\ i <= m => rpc[i] = "done"
         /\ i > m + 1 => AtTheLine(i)
         /\ i = m + 1 => \/ Passed(m) /\ AtTheLine(i)
                         \/ Carried(m) /\ OnTrack(i)
BY NAssumption DEF Lap, Passed, Carried, Runners

\* Only while the judge gathers them do runners come.
LEMMA ComeIInv == \A i \in Runners : IInv /\ Come(i) => IInv'
<1> SUFFICES ASSUME NEW i \in Runners, IInv, Come(i) PROVE IInv'
  OBVIOUS
<1>1. /\ TypeOK /\ Gathering /\ rpc[i] = "come" /\ jpc' = jpc /\ k' = k /\ N \in Nat
      /\ Step(i, "come", "confirmation") /\ Send(i)
  BY NAssumption DEF IInv, Come, Step
<1>2. jpc \in {"fork", "collect"}
  <2>1. jpc \notin {"confirm", "go"}
    BY <1>1 DEF IInv, Confirming, AtTheLine
  <2>2. jpc # "time"
    BY <1>1, LapPlaces DEF IInv, Racing, AtTheLine, OnTrack, Runners
  <2>3. jpc # "done"
    BY <1>1 DEF IInv, Finished
  <2> QED
    BY <1>1, <2>1, <2>2, <2>3 DEF TypeOK, JudgePCs
<1>3. queue' \in Seq(MTypes) /\ Len(queue') <= QMax /\ Len(queue) \in Nat /\ With(i)
  BY <1>1, Sent DEF MTypes
<1>4. /\ rpc' \in [Runners -> RunnerPCs] /\ rpc'[i] = "confirmation"
      /\ \A j \in Runners \ {i} : rpc'[j] = rpc[j]
      /\ Cardinality(Arrived') = Cardinality(Arrived) + 1
  BY <1>1, StepCounts DEF RunnerPCs
<1>5. TypeOK'
  BY <1>1, <1>3, <1>4 DEF TypeOK
<1>6. Gathering'
  <2>1. \A p \in 1..Len(queue') : queue'[p] \in Runners
    BY <1>1, <1>2, <1>3 DEF Gathering, With
  <2>2. \A j \in Runners : rpc'[j] \in {"unborn", "come", "confirmation"}
    BY <1>1, <1>2, <1>4 DEF Gathering
  <2>3. jpc' = "fork" => \A j \in k'..N : rpc'[j] = "unborn"
    BY <1>1, <1>2, <1>4 DEF Gathering, TypeOK, Runners
  <2>4. Cardinality(Arrived') = Len(queue') + (IF jpc' = "collect" THEN k' - 1 ELSE 0)
    BY <1>1, <1>2, <1>3, <1>4, CountTypes DEF Gathering, With, TypeOK, Runners
  <2> QED
    BY <2>1, <2>2, <2>3, <2>4 DEF Gathering
<1> QED
  BY <1>1, <1>2, <1>5, <1>6 DEF IInv, Confirming, Racing, Finished

\* A confirmation is taken during the judge's loop or at any time of the race.
LEMMA AwaitConfirmationIInv ==
  \A i \in Runners : IInv /\ AwaitConfirmation(i) => IInv'
<1> SUFFICES ASSUME NEW i \in Runners, IInv, AwaitConfirmation(i) PROVE IInv'
  OBVIOUS
<1>1. /\ TypeOK /\ rpc[i] = "confirmation" /\ jpc' = jpc /\ k' = k /\ N \in Nat \ {0}
      /\ Step(i, "confirmation", "turn") /\ Receive({Confirm})
  BY NAssumption DEF IInv, AwaitConfirmation, Step
<1>2. PICK p \in 1..Len(queue) : queue[p] = Confirm /\ Removed(queue', queue, p)
  BY <1>1, Received
<1>3. queue' \in Seq(MTypes) /\ Len(queue') <= QMax /\ Len(queue) \in Nat
      /\ Len(queue') = Len(queue) - 1
  BY <1>1, <1>2, Received DEF Removed
<1>4. /\ rpc' \in [Runners -> RunnerPCs] /\ rpc'[i] = "turn"
      /\ \A j \in Runners \ {i} : rpc'[j] = rpc[j]
      /\ Cardinality(Past') = Cardinality(Past) + 1
  BY <1>1, StepCounts DEF RunnerPCs
<1>5. TypeOK'
  BY <1>1, <1>3, <1>4 DEF TypeOK
<1>6. Len(queue') + Cardinality(Past') = Len(queue) + Cardinality(Past)
  BY <1>3, <1>4, CountTypes
<1>7. OnlyConfirms => OnlyConfirms'
  <2> SUFFICES ASSUME OnlyConfirms, NEW q \in 1..Len(queue') PROVE queue'[q] = Confirm
    BY DEF OnlyConfirms
  <2>1. PICK r \in 1..Len(queue) : queue'[q] = queue[r]
    BY <1>2 DEF Removed
  <2> QED
    BY <2>1 DEF OnlyConfirms
<1>8. \A j \in Runners : /\ AtTheLine(j) => AtTheLine(j)'
                         /\ OnTrack(j) => OnTrack(j)'
                         /\ rpc[j] = "done" => rpc'[j] = "done"
  BY <1>1, <1>4 DEF AtTheLine, OnTrack
<1>9. jpc \notin {"fork", "collect", "done"}
  <2>1. ASSUME jpc \in {"fork", "collect"} PROVE FALSE
    BY <1>1, <1>2, <2>1 DEF IInv, Gathering, Confirm, Runners
  <2>2. jpc # "done"
    BY <1>1 DEF IInv, Finished
  <2> QED
    BY <2>1, <2>2
<1>10. Confirming'
  <2>1. SUFFICES ASSUME jpc \in {"confirm", "go"} PROVE Confirming'
    BY <1>1 DEF Confirming
  <2> QED
    BY <1>1, <1>6, <1>7, <1>8, <2>1 DEF IInv, Confirming
<1>11. Racing'
  <2>1. SUFFICES ASSUME jpc = "time" PROVE \E m \in 0..N : Lap(m)'
    BY <1>1 DEF Racing
  <2>2. PICK m \in 0..N : Lap(m)
    BY <2>1 DEF IInv, Racing
  <2>3. /\ \A j \in 1..m : rpc'[j] = "done"
        /\ \A j \in (m + 2)..N : AtTheLine(j)'
    BY <1>1, <1>8, <2>2 DEF Lap, Runners
  <2>4. Carried(m) => Carried(m)'
    BY <1>1, <1>6, <1>7, <1>8 DEF Carried, Runners
  <2>5. ASSUME Passed(m) PROVE Passed(m)'
    <3>1. PICK r \in 1..Len(queue) :
            /\ queue[r] = Baton(m)
            /\ \A q \in 1..Len(queue) : q # r => queue[q] = Confirm
      BY <2>5 DEF Passed
    <3>2. r # p
      BY <1>1, <1>2, <3>1 DEF Baton, Confirm, Go
    <3>3. \E q \in 1..Len(queue') :
            /\ queue'[q] = Baton(m)
            /\ \A t \in 1..Len(queue') : t # q => queue'[t] = Confirm
      <4>1. PICK q \in 1..Len(queue') :
              /\ queue'[q] = queue[r]
              /\ \A t \in 1..Len(queue') : t # q =>
                   \E u \in 1..Len(queue) : u \notin {p, r} /\ queue'[t] = queue[u]
        BY <1>2, <3>2 DEF Removed
      <4>2. \A t \in 1..Len(queue') : t # q => queue'[t] = Confirm
        BY <3>1, <4>1
      <4> QED
        BY <3>1, <4>1, <4>2
    <3>4. m < N => AtTheLine(m + 1)'
      BY <1>1, <1>8, <2>5 DEF Passed, Runners
    <3> QED
      BY <1>6, <2>5, <3>3, <3>4 DEF Passed, Baton
  <2> QED
    BY <2>2, <2>3, <2>4, <2>5 DEF Lap
<1> QED
  BY <1>1, <1>5, <1>9, <1>10, <1>11 DEF IInv, Gathering, Finished

\* The message a runner takes at its turn is the baton of the lap.
LEMMA TurnLap ==
  ASSUME IInv, NEW i \in Runners, AwaitTurn(i)
  PROVE  /\ jpc = "time"
         /\ \E m \in 0..N, p \in 1..Len(queue) :
              /\ i = m + 1 /\ Lap(m) /\ Passed(m) /\ Removed(queue', queue, p)
              /\ \A q \in 1..Len(queue) : q # p => queue[q] = Confirm
<1> DEFINE turn == IF i = 1 THEN Go ELSE i - 1
<1>1. TypeOK /\ Receive({turn}) /\ N \in Nat \ {0} /\ i \in 1..N
  BY NAssumption DEF IInv, AwaitTurn, Runners
<1>2. PICK p \in 1..Len(queue) : queue[p] = turn /\ Removed(queue', queue, p)
  BY <1>1, Received
<1>3. turn # Confirm
  BY <1>1 DEF Go, Confirm
<1>4. jpc \notin {"fork", "collect"}
  BY <1>1 DEF AwaitTurn, Step, IInv, Gathering
<1>5. jpc = "time"
  BY <1>1, <1>2, <1>3, <1>4
     DEF IInv, Confirming, OnlyConfirms, Finished, TypeOK, JudgePCs
<1>6. PICK m \in 0..N : Lap(m)
  BY <1>5 DEF IInv, Racing
<1>7. /\ Passed(m) /\ turn = Baton(m)
      /\ \A q \in 1..Len(queue) : q # p => queue[q] = Confirm
  BY <1>1, <1>2, <1>3, <1>6, LapMessages
<1>8. i = m + 1
  BY <1>1, <1>7 DEF Baton, Go
<1> QED
  BY <1>2, <1>5, <1>6, <1>7, <1>8

\* The baton is taken by the runner it is for.
LEMMA AwaitTurnIInv == \A i \in Runners : IInv /\ AwaitTurn(i) => IInv'
<1> SUFFICES ASSUME NEW i \in Runners, IInv, AwaitTurn(i) PROVE IInv'
  OBVIOUS
<1>1. /\ TypeOK /\ rpc[i] = "turn" /\ jpc' = jpc /\ k' = k /\ N \in Nat \ {0}
      /\ Step(i, "turn", "running")
  BY NAssumption DEF IInv, AwaitTurn, Step
<1>2. /\ rpc' \in [Runners -> RunnerPCs] /\ rpc'[i] = "running"
      /\ \A j \in Runners \ {i} : rpc'[j] = rpc[j]
      /\ Past' = Past
  BY <1>1, StepCounts DEF RunnerPCs
<1>3. queue' \in Seq(MTypes) /\ Len(queue') <= QMax /\ Len(queue) \in Nat
  BY <1>1, Received DEF AwaitTurn
<1>4. jpc = "time"
  BY TurnLap
<1>5. PICK m \in 0..N, p \in 1..Len(queue) :
        /\ i = m + 1 /\ Lap(m) /\ Passed(m) /\ Removed(queue', queue, p)
        /\ \A q \in 1..Len(queue) : q # p => queue[q] = Confirm
  BY TurnLap
<1>6. TypeOK'
  BY <1>1, <1>2, <1>3 DEF TypeOK
<1>7. Carried(m)'
  <2>1. OnlyConfirms'
    BY <1>5 DEF OnlyConfirms, Removed
  <2>2. Len(queue') + Cardinality(Past') = N
    BY <1>1, <1>2, <1>3, <1>5, CountTypes DEF Passed, Removed
  <2> QED
    BY <1>1, <1>2, <1>5, <2>1, <2>2 DEF Carried, OnTrack, Runners
<1>8. Lap(m)'
  BY <1>1, <1>2, <1>5, <1>7 DEF Lap, AtTheLine, Runners
<1> QED
  BY <1>1, <1>4, <1>6, <1>8 DEF IInv, Gathering, Confirming, Racing, Finished

\* The runner on the track is the one the lap names.
LEMMA TrackLap ==
  ASSUME IInv, NEW i \in Runners, OnTrack(i)
  PROVE  jpc = "time" /\ \E m \in 0..N : Lap(m) /\ Carried(m) /\ i = m + 1
<1>1. jpc = "time"
  BY DEF IInv, Gathering, Confirming, Finished, OnTrack, AtTheLine, TypeOK, JudgePCs
<1>2. PICK m \in 0..N : Lap(m)
  BY <1>1 DEF IInv, Racing
<1>3. i = m + 1 /\ Carried(m)
  BY <1>2, LapPlaces, NAssumption DEF OnTrack, AtTheLine, Runners
<1> QED
  BY <1>1, <1>2, <1>3

LEMMA FinishIInv == \A i \in Runners : IInv /\ Finish(i) => IInv'
<1> SUFFICES ASSUME NEW i \in Runners, IInv, Finish(i) PROVE IInv'
  OBVIOUS
<1>1. /\ TypeOK /\ rpc[i] = "running" /\ jpc' = jpc /\ k' = k /\ queue' = queue
      /\ Step(i, "running", "pass") /\ N \in Nat \ {0}
  BY NAssumption DEF IInv, Finish, Step
<1>2. /\ rpc' \in [Runners -> RunnerPCs] /\ rpc'[i] = "pass"
      /\ \A j \in Runners \ {i} : rpc'[j] = rpc[j]
      /\ Past' = Past
  BY <1>1, StepCounts DEF RunnerPCs
<1>3. jpc = "time" /\ \E m \in 0..N : Lap(m) /\ Carried(m) /\ i = m + 1
  BY <1>1, TrackLap DEF OnTrack
<1>4. PICK m \in 0..N : Lap(m) /\ Carried(m) /\ i = m + 1
  BY <1>3
<1>5. Carried(m)'
  BY <1>1, <1>2, <1>4 DEF Carried, OnTrack, OnlyConfirms
<1>6. Lap(m)'
  BY <1>1, <1>2, <1>4, <1>5 DEF Lap, AtTheLine, Runners
<1>7. TypeOK'
  BY <1>1, <1>2 DEF TypeOK
<1> QED
  BY <1>1, <1>3, <1>6, <1>7 DEF IInv, Gathering, Confirming, Racing, Finished

\* Passing the baton begins the next lap.
LEMMA PassIInv == \A i \in Runners : IInv /\ Pass(i) => IInv'
<1> SUFFICES ASSUME NEW i \in Runners, IInv, Pass(i) PROVE IInv'
  OBVIOUS
<1>1. /\ TypeOK /\ rpc[i] = "pass" /\ jpc' = jpc /\ k' = k /\ N \in Nat \ {0}
      /\ Step(i, "pass", "done") /\ Send(i)
  BY NAssumption DEF IInv, Pass, Step
<1>2. /\ rpc' \in [Runners -> RunnerPCs] /\ rpc'[i] = "done"
      /\ \A j \in Runners \ {i} : rpc'[j] = rpc[j]
      /\ Past' = Past
  BY <1>1, StepCounts DEF RunnerPCs
<1>3. queue' \in Seq(MTypes) /\ Len(queue') <= QMax /\ Len(queue) \in Nat /\ With(i)
  BY <1>1, Sent DEF MTypes
<1>4. jpc = "time" /\ \E m \in 0..N : Lap(m) /\ Carried(m) /\ i = m + 1
  BY <1>1, TrackLap DEF OnTrack
<1>5. PICK m \in 0..N : Lap(m) /\ Carried(m) /\ i = m + 1
  BY <1>4
<1>6. i \in 1..N /\ m = i - 1
  BY <1>1, <1>5 DEF Runners
<1>7. Passed(i)'
  <2>1. \A q \in 1..Len(queue') : q # Len(queue) + 1 => queue'[q] = Confirm
    BY <1>3, <1>5 DEF Carried, OnlyConfirms, With
  <2>2. Len(queue) + 1 \in 1..Len(queue') /\ queue'[Len(queue) + 1] = Baton(i)
    BY <1>3, <1>6 DEF With, Baton
  <2>3. Len(queue') + Cardinality(Past') = N + 1
    BY <1>1, <1>2, <1>3, <1>5, CountTypes DEF Carried, With
  <2>4. i < N => AtTheLine(i + 1)'
    BY <1>1, <1>2, <1>5, <1>6 DEF Lap, AtTheLine, Runners
  <2> QED
    BY <2>1, <2>2, <2>3, <2>4 DEF Passed, Baton
<1>8. Lap(i)'
  <2>1. \A j \in 1..i : rpc'[j] = "done"
    <3>1. \A j \in 1..m : rpc[j] = "done"
      BY <1>5 DEF Lap
    <3>2. \A j \in 1..i : j \in Runners /\ (j = i \/ j \in 1..m)
      BY <1>1, <1>6 DEF Runners
    <3> QED
      BY <1>2, <3>1, <3>2
  <2>2. \A j \in (i + 2)..N : AtTheLine(j)'
    BY <1>2, <1>5, <1>6 DEF Lap, Runners, AtTheLine
  <2> QED
    BY <1>7, <2>1, <2>2 DEF Lap
<1>9. TypeOK'
  BY <1>1, <1>2, <1>3 DEF TypeOK
<1>10. i \in 0..N
  BY <1>1, <1>6
<1> QED
  BY <1>1, <1>4, <1>8, <1>9, <1>10 DEF IInv, Gathering, Confirming, Racing, Finished

LEMMA NextIInv == IInv /\ [Next]_vars => IInv'
<1> SUFFICES ASSUME IInv, [Next]_vars PROVE IInv'
  OBVIOUS
<1>1. ASSUME Judge PROVE IInv'
  BY <1>1, ForkIInv, CollectIInv, ConfirmIInv, StartIInv, StopIInv DEF Judge
<1>2. ASSUME NEW i \in Runners, Runner(i) PROVE IInv'
  BY <1>2, ComeIInv, AwaitConfirmationIInv, AwaitTurnIInv, FinishIInv, PassIInv
     DEF Runner
<1>3. ASSUME UNCHANGED vars PROVE IInv'
  <2>1. queue' = queue /\ jpc' = jpc /\ k' = k /\ rpc' = rpc
    BY <1>3 DEF vars
  <2>2. Arrived' = Arrived /\ Past' = Past
    BY <2>1 DEF Arrived, Past
  <2>3. TypeOK' /\ Finished'
    BY <2>1 DEF IInv, TypeOK, Finished
  <2>4. Gathering' /\ Confirming'
    BY <2>1, <2>2 DEF IInv, Gathering, Confirming, AtTheLine, OnlyConfirms
  <2>5. \A m \in 0..N : Lap(m) => Lap(m)'
    BY <2>1, <2>2 DEF Lap, Passed, Carried, AtTheLine, OnTrack, OnlyConfirms
  <2>6. Racing'
    BY <2>1, <2>5 DEF IInv, Racing
  <2> QED
    BY <2>3, <2>4, <2>6 DEF IInv
<1> QED
  BY <1>1, <1>2, <1>3 DEF Next, Terminated

\* The invariant of every race, with the failed forks.
THEOREM SpecIInv == Spec => []IInv
BY InitIInv, NextIInv, PTL DEF Spec

-----------------------------------------------------------------------------

\* Every variable keeps its type: the messages are those that the judge and
\* the runners send, and no process is where its function cannot be.
THEOREM TypeCorrect == Spec => []TypeOK
BY SpecIInv, PTL DEF IInv

\* The lap has one baton, in the queue or on the track.
LEMMA IInvOneBaton == IInv => OneBaton
<1> SUFFICES ASSUME IInv, jpc \notin {"fork", "collect"}
             PROVE  /\ \A p, q \in 1..Len(queue) :
                         queue[p] # Confirm /\ queue[q] # Confirm => p = q
                    /\ \A i, j \in Runners : OnTrack(i) /\ OnTrack(j) => i = j
                    /\ \A i \in Runners, p \in 1..Len(queue) :
                         OnTrack(i) => queue[p] = Confirm
  BY DEF OneBaton
<1>1. ASSUME NEW p \in 1..Len(queue), NEW q \in 1..Len(queue),
             queue[p] # Confirm, queue[q] # Confirm
      PROVE  p = q
  <2>1. jpc = "time"
    BY <1>1 DEF IInv, Confirming, OnlyConfirms, Finished, TypeOK, JudgePCs
  <2>2. PICK m \in 0..N : Lap(m)
    BY <2>1 DEF IInv, Racing
  <2> QED
    BY <1>1, <2>2, LapMessages DEF IInv
<1>2. ASSUME NEW i \in Runners, OnTrack(i)
      PROVE  OnlyConfirms /\ \A j \in Runners : OnTrack(j) => i = j
  <2>1. PICK m \in 0..N : Lap(m) /\ Carried(m) /\ i = m + 1
    BY <1>2, TrackLap
  <2> QED
    BY <2>1, LapPlaces, NAssumption DEF Carried, OnTrack, AtTheLine, Runners
<1> QED
  BY <1>1, <1>2 DEF OnlyConfirms

\* Once the judge has counted the runners there is one baton at most: the
\* command to go, a message of a runner who has finished, or a runner on the
\* track.  For any number of runners and any size of the queue.
THEOREM BatonIsOne == Spec => []OneBaton
BY SpecIInv, IInvOneBaton, PTL

\* When all have exited no message is left in the queue.
THEOREM NothingLeft == Spec => []QueueDrained
<1>1. IInv => QueueDrained
  BY DEF IInv, Finished, QueueDrained, Over
<1> QED
  BY <1>1, SpecIInv, PTL

-----------------------------------------------------------------------------
(* Progress.  What a blocked call waits for is sent by somebody who is not *)
(* blocked, and no process ever goes back.                                 *)

\* Whether a msgrcv of these types, or a msgsnd, would return at once.
Waiting(types) == \E p \in 1..Len(queue) : queue[p] \in types
Room           == Len(queue) < QMax

\* The judge, or runner i, is in a call that blocks, or has exited.
JudgeBlocked == \/ jpc = "collect" /\ ~ Waiting(MTypes)
                \/ jpc \in {"confirm", "go"} /\ ~ Room
                \/ jpc = "time" /\ ~ Waiting({N})
                \/ jpc = "done"

RunnerBlocked(i) == \/ rpc[i] \in {"unborn", "done"}
                    \/ rpc[i] \in {"come", "pass"} /\ ~ Room
                    \/ rpc[i] = "confirmation" /\ ~ Waiting({Confirm})
                    \/ rpc[i] = "turn" /\ ~ Waiting({IF i = 1 THEN Go ELSE i - 1})

Deadlocked == JudgeBlocked /\ (\A i \in Runners : RunnerBlocked(i)) /\ ~ Over

\* Only a failed fork stops the race before its end.
NoDeadlock == Deadlocked => ForkFailed

\* Deadlocked is what it says: in such a state no step is possible.
LEMMA DeadlockedIsStuck == Deadlocked => ~ Next
<1> SUFFICES ASSUME Deadlocked, Next PROVE FALSE
  OBVIOUS
<1>1. ASSUME NEW types, Receive(types) PROVE Waiting(types)
  BY <1>1 DEF Receive, Waiting
<1>2. ASSUME NEW t, Send(t) PROVE Room
  BY <1>2 DEF Send, Room
<1>3. ~ Judge
  BY <1>1, <1>2 DEF Deadlocked, JudgeBlocked, Judge, Fork, Collect, ConfirmAll,
                    StartRace, StopClock
<1>4. ASSUME NEW i \in Runners, Runner(i) PROVE FALSE
  BY <1>1, <1>2, <1>4 DEF Deadlocked, RunnerBlocked, Runner, Come,
                    AwaitConfirmation, AwaitTurn, Finish, Pass, Step
<1> QED
  BY <1>3, <1>4 DEF Next, Terminated, Deadlocked

\* Runners who wait for nothing but a confirmation that is not there have all
\* had theirs, and the confirmations are used up.
LEMMA AllPast ==
  ASSUME IInv, \A i \in Runners : rpc[i] \notin {"unborn", "come", "confirmation"}
  PROVE  Cardinality(Past) = N
<1>1. Past = Runners
  BY DEF Past
<1> QED
  BY <1>1, FS_Interval, NAssumption DEF Runners

\* The roll call, the confirmations and the race go on, each for its reason:
\* a runner who has come is counted, a queue full of confirmations lets the
\* runners take one, and the baton is for somebody who can take it.
LEMMA IInvNoDeadlock == IInv => NoDeadlock
<1> SUFFICES ASSUME IInv, Deadlocked, ~ ForkFailed PROVE FALSE
  BY DEF NoDeadlock
<1>1. /\ TypeOK /\ queue \in Seq(MTypes) /\ Len(queue) \in Nat
      /\ N \in Nat \ {0} /\ QMax \in Nat \ {0} /\ k \in 1..N
  BY NAssumption, QMaxAssumption DEF IInv, TypeOK, Runners
<1>2. jpc # "fork" /\ \A i \in Runners : rpc[i] # "unborn" /\ rpc[i] \in RunnerPCs
  BY <1>1 DEF Deadlocked, JudgeBlocked, ForkFailed, TypeOK
<1>3. ~ Room => Len(queue) >= 1
  BY <1>1 DEF Room
<1>4. CASE jpc = "collect"
  <2>1. Len(queue) = 0
    <3>1. Len(queue) # 0 => 1 \in 1..Len(queue) /\ queue[1] \in MTypes
      BY <1>1
    <3> QED
      BY <1>4, <3>1 DEF Deadlocked, JudgeBlocked, Waiting
  <2>2. \A i \in Runners : rpc[i] = "confirmation"
    <3>1. Room
      BY <1>1, <2>1 DEF Room
    <3>2. \A i \in Runners : rpc[i] \in {"unborn", "come", "confirmation"}
      BY <1>4 DEF IInv, Gathering
    <3> QED
      BY <1>2, <3>1, <3>2 DEF Deadlocked, RunnerBlocked
  <2>3. Arrived = Runners
    BY <2>2 DEF Arrived
  <2>4. Cardinality(Arrived) = N
    BY <1>1, <2>3, FS_Interval DEF Runners
  <2> QED
    BY <1>1, <1>4, <2>1, <2>4 DEF IInv, Gathering
<1>5. CASE jpc \in {"confirm", "go"}
  <2>1. Len(queue) >= 1 /\ OnlyConfirms
    BY <1>3, <1>5 DEF IInv, Confirming, Deadlocked, JudgeBlocked
  <2>2. Waiting({Confirm})
    BY <1>1, <2>1 DEF Waiting, OnlyConfirms
  <2>3. \A i \in Runners : rpc[i] = "turn"
    BY <1>5, <2>2 DEF IInv, Confirming, AtTheLine, Deadlocked, RunnerBlocked
  <2>4. Cardinality(Past) = N
    BY <2>3, AllPast
  <2> QED
    BY <1>1, <1>5, <2>1, <2>4 DEF IInv, Confirming
<1>6. CASE jpc = "time"
  <2>1. PICK m \in 0..N : Lap(m)
    BY <1>6 DEF IInv, Racing
  <2>2. \A i \in Runners : rpc[i] \in {"confirmation", "turn", "pass", "done"}
    <3>1. \A i \in Runners : i <= m \/ i > m + 1 \/ i = m + 1
      BY <1>1 DEF Runners
    <3>2. \A i \in Runners : AtTheLine(i) \/ OnTrack(i) \/ rpc[i] = "done"
      BY <2>1, <3>1, LapPlaces
    <3> QED
      BY <3>2 DEF Deadlocked, RunnerBlocked, AtTheLine, OnTrack
  <2>3. CASE Passed(m)
    <3>1. PICK p \in 1..Len(queue) :
            /\ queue[p] = Baton(m)
            /\ \A q \in 1..Len(queue) : q # p => queue[q] = Confirm
      BY <2>3 DEF Passed
    <3>2. m < N /\ m + 1 \in Runners
      <4>1. m # N
        BY <1>1, <1>6, <3>1 DEF Deadlocked, JudgeBlocked, Waiting, Baton
      <4> QED
        BY <1>1, <4>1 DEF Runners
    <3>3. rpc[m + 1] = "confirmation"
      <4>1. ~ (rpc[m + 1] = "turn")
        BY <1>1, <3>1, <3>2 DEF Deadlocked, RunnerBlocked, Waiting, Baton
      <4> QED
        BY <2>3, <3>2, <4>1 DEF Passed, AtTheLine
    <3>4. Len(queue) = 1
      <4>1. \A q \in 1..Len(queue) : queue[q] # Confirm
        BY <3>2, <3>3 DEF Deadlocked, RunnerBlocked, Waiting
      <4>2. \A q \in 1..Len(queue) : q = p
        BY <3>1, <4>1
      <4>3. Len(queue) < 2
        <5>1. SUFFICES ASSUME Len(queue) >= 2 PROVE FALSE
          BY <1>1
        <5>2. 1 \in 1..Len(queue) /\ 2 \in 1..Len(queue)
          BY <1>1, <5>1
        <5> QED
          BY <4>2, <5>2
      <4>4. Len(queue) \in Nat /\ Len(queue) # 0
        BY <1>1, <3>1
      <4>5. \A x \in Nat : x < 2 /\ x # 0 => x = 1
        OBVIOUS
      <4> QED
        BY <4>3, <4>4, <4>5
    <3>5. Cardinality(Past) = N
      BY <1>1, <2>3, <3>4, CountTypes DEF Passed
    <3>6. Past \in SUBSET Runners
      BY DEF Past
    <3>7. Past = Runners
      BY <3>5, <3>6, RunnersCount
    <3> QED
      BY <3>2, <3>3, <3>7 DEF Past
  <2>4. CASE Carried(m)
    <3>1. m + 1 \in Runners /\ rpc[m + 1] = "pass"
      BY <1>1, <2>2, <2>4 DEF Carried, OnTrack, Runners
    <3>2. Len(queue) >= 1
      BY <1>3, <3>1 DEF Deadlocked, RunnerBlocked
    <3>3. Waiting({Confirm})
      BY <1>1, <2>4, <3>2 DEF Carried, OnlyConfirms, Waiting
    <3>4. \A i \in Runners : rpc[i] \notin {"unborn", "come", "confirmation"}
      BY <2>2, <3>3 DEF Deadlocked, RunnerBlocked
    <3>5. Cardinality(Past) = N
      BY <3>4, AllPast
    <3> QED
      BY <1>1, <2>4, <3>2, <3>5 DEF Carried
  <2> QED
    BY <2>1, <2>3, <2>4 DEF Lap
<1>7. CASE jpc = "done"
  BY <1>7 DEF IInv, Finished, Deadlocked, Over
<1> QED
  BY <1>1, <1>2, <1>4, <1>5, <1>6, <1>7 DEF TypeOK, JudgePCs

\* Judge and runners never all wait for one another, however small the queue
\* is, unless a fork has failed.
THEOREM RaceNeverBlocks == Spec => []NoDeadlock
BY SpecIInv, IInvNoDeadlock, PTL

\* How far the judge and runner i have come.
JudgeRank == CASE jpc = "fork"    -> k
               [] jpc = "collect" -> N + k
               [] jpc = "confirm" -> 2 * N + k
               [] jpc = "go"      -> 3 * N + 1
               [] jpc = "time"    -> 3 * N + 2
               [] jpc = "done"    -> 3 * N + 3

RunnerRank(i) == CASE rpc[i] = "unborn"       -> 0
                   [] rpc[i] = "come"         -> 1
                   [] rpc[i] = "confirmation" -> 2
                   [] rpc[i] = "turn"         -> 3
                   [] rpc[i] = "running"      -> 4
                   [] rpc[i] = "pass"         -> 5
                   [] rpc[i] = "done"         -> 6

Bounded == /\ JudgeRank \in 1..(3 * N + 3)
           /\ \A i \in Runners : RunnerRank(i) \in 0..6

\* Nobody goes back, and every step takes somebody on, until all have exited.
Forward == /\ JudgeRank' >= JudgeRank
           /\ \A i \in Runners : RunnerRank(i)' >= RunnerRank(i)
           /\ \/ JudgeRank' > JudgeRank
              \/ \E i \in Runners : RunnerRank(i)' > RunnerRank(i)
              \/ Over

\* The ranks are numbers.
LEMMA RankTypes == TypeOK => Bounded
BY NAssumption DEF TypeOK, Bounded, JudgeRank, RunnerRank, JudgePCs, RunnerPCs,
                   Runners

LEMMA JudgeForward == IInv /\ Judge => Forward
<1> SUFFICES ASSUME IInv, Judge PROVE Forward
  OBVIOUS
<1>1. N \in Nat \ {0} /\ k \in 1..N /\ TypeOK
  BY NAssumption DEF IInv, TypeOK, Runners
<1>2. JudgeRank' > JudgeRank /\ JudgeRank' >= JudgeRank
  BY <1>1 DEF Judge, Fork, Collect, ConfirmAll, StartRace, StopClock, Loop, JudgeRank
<1>3. ASSUME NEW i \in Runners PROVE RunnerRank(i)' >= RunnerRank(i)
  <2>1. RunnerRank(i) \in 0..6
    BY <1>1, RankTypes DEF Bounded
  <2>2. CASE rpc'[i] = rpc[i]
    <3>1. RunnerRank(i)' = RunnerRank(i)
      BY <2>2 DEF RunnerRank
    <3> QED
      BY <2>1, <3>1
  <2>3. CASE rpc'[i] # rpc[i]
    <3>1. rpc[i] = "unborn" /\ rpc'[i] = "come"
      BY <1>1, <2>3 DEF IInv, Gathering, TypeOK, Runners, Judge, Fork, Collect,
                        ConfirmAll, StartRace, StopClock
    <3> QED
      BY <3>1 DEF RunnerRank
  <2> QED
    BY <2>2, <2>3
<1> QED
  BY <1>2, <1>3 DEF Forward

LEMMA RunnerForward == \A i \in Runners : IInv /\ Runner(i) => Forward
<1> SUFFICES ASSUME NEW i \in Runners, IInv, Runner(i) PROVE Forward
  OBVIOUS
<1>1. TypeOK /\ Bounded
  BY RankTypes DEF IInv
<1>2. /\ jpc' = jpc /\ k' = k
      /\ \E to \in RunnerPCs : rpc' = [rpc EXCEPT ![i] = to]
      /\ \/ rpc[i] = "come" /\ rpc'[i] = "confirmation"
         \/ rpc[i] = "confirmation" /\ rpc'[i] = "turn"
         \/ rpc[i] = "turn" /\ rpc'[i] = "running"
         \/ rpc[i] = "running" /\ rpc'[i] = "pass"
         \/ rpc[i] = "pass" /\ rpc'[i] = "done"
  BY <1>1 DEF Runner, Come, AwaitConfirmation, AwaitTurn, Finish, Pass, Step,
              TypeOK, RunnerPCs
<1>3. RunnerRank(i)' > RunnerRank(i)
  BY <1>2 DEF RunnerRank
<1>4. JudgeRank' = JudgeRank /\ JudgeRank \in 1..(3 * N + 3)
  BY <1>1, <1>2 DEF JudgeRank, Bounded
<1>5. ASSUME NEW j \in Runners PROVE RunnerRank(j)' >= RunnerRank(j)
  <2>1. CASE j = i
    BY <1>2, <2>1 DEF RunnerRank
  <2>2. CASE j # i
    <3>1. rpc'[j] = rpc[j] /\ RunnerRank(j) \in 0..6
      BY <1>1, <1>2, <2>2 DEF TypeOK, Bounded
    <3>2. RunnerRank(j)' = RunnerRank(j)
      BY <3>1 DEF RunnerRank
    <3> QED
      BY <3>1, <3>2
  <2> QED
    BY <2>1, <2>2
<1> QED
  BY <1>3, <1>4, <1>5, NAssumption DEF Forward

\* Each process has a bounded number of steps, and every step before the end
\* is one of them: with RaceNeverBlocks, the race is run to its end if whoever
\* can go on does.
THEOREM RaceGoesForward == Spec => []Bounded /\ [][Forward]_vars
<1>1. IInv => Bounded
  BY RankTypes DEF IInv
<1>2. IInv /\ [Next]_vars => [Forward]_vars
  <2> SUFFICES ASSUME IInv, Next PROVE Forward
    OBVIOUS
  <2>1. CASE Terminated
    <3>1. Bounded /\ UNCHANGED vars /\ N \in Nat
      BY <1>1, <2>1, NAssumption DEF Terminated
    <3>2. /\ JudgeRank' = JudgeRank /\ JudgeRank \in 1..(3 * N + 3)
          /\ \A i \in Runners : RunnerRank(i)' = RunnerRank(i) /\ RunnerRank(i) \in 0..6
      BY <3>1 DEF vars, JudgeRank, RunnerRank, Bounded
    <3> QED
      BY <2>1, <3>1, <3>2 DEF Forward, Terminated
  <2> QED
    BY <2>1, JudgeForward, RunnerForward DEF Next
<1> QED
  BY SpecIInv, <1>1, <1>2, PTL DEF Spec

-----------------------------------------------------------------------------
(* The implementation of RelayRace.                                        *)

\* The stage that the race sees, by the place of the runner.
LEMMA StageFacts ==
  /\ stage = [i \in Runners |-> stage[i]]
  /\ \A i \in Runners :
       /\ rpc[i] \in {"unborn", "come"}       => stage[i] = "away"
       /\ rpc[i] \in {"confirmation", "turn"} => stage[i] = "ready"
       /\ rpc[i] = "running"                  => stage[i] = "running"
       /\ rpc[i] \in {"pass", "done"}         => stage[i] = "finished"
BY DEF stage

\* A step of runner i moves its stage alone.
LEMMA StageStep ==
  ASSUME TypeOK, NEW i \in Runners, NEW from, NEW to \in RunnerPCs, Step(i, from, to)
  PROVE  stage' = [stage EXCEPT ![i] = stage'[i]] /\ clock' = clock
BY DEF TypeOK, Step, stage, clock

\* A step of the judge that leaves the clock alone, and the runners where the
\* race sees them, is no step of the race.
LEMMA JudgeStutters ==
  ASSUME IInv, Fork \/ Collect \/ ConfirmAll
  PROVE  UNCHANGED <<stage, clock>>
<1>1. clock' = clock
  BY DEF Fork, Collect, ConfirmAll, Loop, clock
<1>2. ASSUME Collect \/ ConfirmAll PROVE stage' = stage
  BY <1>2 DEF Collect, ConfirmAll, stage
<1>3. ASSUME Fork PROVE stage' = stage
  <2>1. rpc[k] = "unborn" /\ k \in Runners /\ rpc \in [Runners -> RunnerPCs]
    BY <1>3, NAssumption DEF IInv, Gathering, Fork, TypeOK, Runners
  <2> QED
    BY <1>3, <2>1 DEF Fork, stage
<1> QED
  BY <1>1, <1>2, <1>3

\* StartClock when every runner is ready, StopClock when every runner is back.
LEMMA JudgeRefines ==
  ASSUME IInv, StartRace \/ StopClock
  PROVE  Race!StartClock \/ Race!StopClock
<1>1. stage' = stage
  BY DEF StartRace, StopClock, stage
<1>2. ASSUME StartRace PROVE Race!StartClock
  <2>1. clock = "idle" /\ clock' = "ticking"
    BY <1>2 DEF StartRace, clock
  <2>2. \A i \in Race!Runners : stage[i] = "ready"
    BY <1>2, StageFacts
       DEF StartRace, IInv, Confirming, AtTheLine, Runners, Race!Runners
  <2> QED
    BY <1>1, <2>1, <2>2 DEF Race!StartClock
<1>3. ASSUME StopClock PROVE Race!StopClock
  <2>1. clock = "ticking" /\ clock' = "stopped"
    BY <1>3 DEF StopClock, clock
  <2>2. \A i \in Runners : rpc[i] = "done"
    BY <1>3, StopIInv DEF StopClock, IInv, Finished
  <2>3. \A i \in Race!Runners : stage[i] = "finished"
    BY <2>2, StageFacts DEF Runners, Race!Runners
  <2> QED
    BY <1>1, <2>1, <2>3 DEF Race!StopClock
<1> QED
  BY <1>2, <1>3

\* A runner leaves the line when all its predecessors are back, since it has
\* the baton of the lap.
LEMMA RunRefines ==
  ASSUME IInv, NEW i \in Runners, AwaitTurn(i)
  PROVE  Race!Run(i)
<1>1. /\ TypeOK /\ rpc[i] = "turn" /\ Step(i, "turn", "running")
      /\ rpc'[i] = "running"
  BY DEF IInv, AwaitTurn, Step, TypeOK
<1>2. PICK m \in 0..N : jpc = "time" /\ i = m + 1 /\ Lap(m)
  BY TurnLap
<1>3. \A j \in 1..(i - 1) : stage[j] = "finished"
  <2>1. \A j \in 1..(i - 1) : rpc[j] = "done" /\ j \in Runners
    BY <1>2, NAssumption DEF Lap, Runners
  <2> QED
    BY <2>1, StageFacts
<1>4. clock = "ticking"
  BY <1>2 DEF clock
<1>5. stage[i] = "ready"
  BY <1>1, StageFacts
<1>6. stage'[i] = "running"
  BY <1>1 DEF stage
<1>7. stage' = [stage EXCEPT ![i] = "running"] /\ clock' = clock
  BY <1>1, <1>6, StageStep DEF RunnerPCs
<1> QED
  BY <1>3, <1>4, <1>5, <1>7 DEF Race!Run, Race!Move

\* A runner who comes, runs or finishes does so in the race; the other two
\* steps are not seen there.
LEMMA RunnerRefines ==
  ASSUME IInv, NEW i \in Runners, Runner(i)
  PROVE  Race!Come(i) \/ Race!Run(i) \/ Race!Finish(i) \/ UNCHANGED <<stage, clock>>
<1>1. TypeOK
  BY DEF IInv
<1>2. stage = [stage EXCEPT ![i] = stage[i]]
  BY StageFacts
<1>3. ASSUME Come(i) PROVE Race!Come(i)
  <2>1. rpc[i] = "come" /\ rpc'[i] = "confirmation" /\ Step(i, "come", "confirmation")
    BY <1>1, <1>3 DEF Come, Step, TypeOK
  <2>2. stage[i] = "away" /\ stage'[i] = "ready"
    BY <2>1 DEF stage
  <2>3. stage' = [stage EXCEPT ![i] = "ready"] /\ clock' = clock
    BY <1>1, <2>1, <2>2, StageStep DEF RunnerPCs
  <2> QED
    BY <2>2, <2>3 DEF Race!Come, Race!Move
<1>4. ASSUME AwaitConfirmation(i) PROVE UNCHANGED <<stage, clock>>
  <2>1. /\ rpc[i] = "confirmation" /\ rpc'[i] = "turn"
        /\ Step(i, "confirmation", "turn")
    BY <1>1, <1>4 DEF AwaitConfirmation, Step, TypeOK
  <2>2. stage[i] = "ready" /\ stage'[i] = "ready"
    BY <2>1 DEF stage
  <2> QED
    BY <1>1, <1>2, <2>1, <2>2, StageStep DEF RunnerPCs
<1>5. ASSUME Finish(i) PROVE Race!Finish(i)
  <2>1. rpc[i] = "running" /\ rpc'[i] = "pass" /\ Step(i, "running", "pass")
    BY <1>1, <1>5 DEF Finish, Step, TypeOK
  <2>2. stage[i] = "running" /\ stage'[i] = "finished"
    BY <2>1 DEF stage
  <2>3. stage' = [stage EXCEPT ![i] = "finished"] /\ clock' = clock
    BY <1>1, <2>1, <2>2, StageStep DEF RunnerPCs
  <2> QED
    BY <2>2, <2>3 DEF Race!Finish, Race!Move
<1>6. ASSUME Pass(i) PROVE UNCHANGED <<stage, clock>>
  <2>1. rpc[i] = "pass" /\ rpc'[i] = "done" /\ Step(i, "pass", "done")
    BY <1>1, <1>6 DEF Pass, Step, TypeOK
  <2>2. stage[i] = "finished" /\ stage'[i] = "finished"
    BY <2>1 DEF stage
  <2> QED
    BY <1>1, <1>2, <2>1, <2>2, StageStep DEF RunnerPCs
<1> QED
  BY <1>3, <1>4, <1>5, <1>6, RunRefines DEF Runner

LEMMA StepRefines == IInv /\ [Next]_vars => [Race!Next]_Race!vars
<1> SUFFICES ASSUME IInv, [Next]_vars PROVE Race!Next \/ UNCHANGED <<stage, clock>>
  BY DEF Race!vars
<1>1. ASSUME Judge PROVE Race!Next \/ UNCHANGED <<stage, clock>>
  BY <1>1, JudgeStutters, JudgeRefines DEF Judge, Race!Next
<1>2. ASSUME NEW i \in Runners, Runner(i)
      PROVE  Race!Next \/ UNCHANGED <<stage, clock>>
  BY <1>2, RunnerRefines DEF Race!Next, Runners, Race!Runners
<1>3. ASSUME UNCHANGED vars PROVE UNCHANGED <<stage, clock>>
  BY <1>3 DEF vars, stage, clock
<1> QED
  BY <1>1, <1>2, <1>3 DEF Next, Terminated

\* The processes and their queue implement the race: nobody runs before the
\* clock ticks or before all predecessors are back, and the clock stops when
\* the last runner has finished, whichever forks fail.
THEOREM Implementation == Spec => ImplementsRace
<1>1. Init => Race!Init
  <2> SUFFICES ASSUME Init PROVE Race!Init
    OBVIOUS
  <2>1. \A i \in Runners : stage[i] = "away"
    BY StageFacts DEF Init
  <2>2. stage = [i \in Runners |-> "away"]
    BY <2>1, StageFacts
  <2>3. clock = "idle"
    BY DEF Init, clock
  <2> QED
    BY <2>2, <2>3 DEF Race!Init, Race!Runners, Runners
<1> QED
  BY <1>1, SpecIInv, StepRefines, PTL DEF Spec, ImplementsRace, Race!Spec
=============================================================================
