--------------------------- MODULE MonitorProofs ---------------------------
(***************************************************************************)
(* For every capacity of the ring and every length of the input, from      *)
(* standard input or files, with failing calls and spurious wake-ups: the  *)
(* types, that no block is written twice, and who finds the mutex free.    *)
(*                                                                         *)
(* No step of the argument is about the order of the two threads: they may *)
(* hold one buffer at the same time.  It is enough that a block is read    *)
(* into one buffer and that the writer, between writing a buffer and       *)
(* clearing it, does not move.                                             *)
(***************************************************************************)
EXTENDS Monitor, TLAPS

\* Where each thread can be.
Places == /\ at["wr"] \notin {"read", "open", "done"}
          /\ at["rd"] \notin {"write", "release"}
          /\ main = "check" => at["wr"] = "unborn"

\* Blocks that have not been read are nowhere.
Fresh == /\ \A s \in 0..(Cap - 1) : slot[s] <= taken
         /\ \A p \in 1..Len(out) : out[p] <= taken

\* A block is in one buffer only.
Single == \A s, r \in 0..(Cap - 1) : slot[s] = slot[r] /\ slot[s] # 0 => s = r

\* A block that has been written is still in a buffer only until the writer,
\* which is about to, clears it.
Cleared == \A p \in 1..Len(out), s \in 0..(Cap - 1) :
             out[p] = slot[s] => at["wr"] = "release" /\ s = BufferOf("wr")

\* The inductive invariant.
IInv == TypeOK /\ Places /\ Fresh /\ Single /\ Cleared /\ NotTwice

\* The ring begins empty and nothing has been written.
LEMMA InitIInv == Init => IInv
<1> SUFFICES ASSUME Init PROVE IInv
  OBVIOUS
<1>1. TypeOK
  <2>1. slot \in [0..(Cap - 1) -> {0} \cup Blocks]
    BY DEF Init
  <2>2. count \in [Threads -> 0..(Cap - 1)]
    BY CapAssumption DEF Init, Threads
  <2>3. at \in [Threads -> PCs]
    BY DEF Init, PCs
  <2>4. taken \in 0..NBlocks
    BY BlocksAssumption DEF Init
  <2>5. out \in Seq(Blocks)
    BY DEF Init
  <2>6. locked \in BOOLEAN /\ main \in {"check", "join", "refused", "exit"}
    BY DEF Init
  <2>7. readable \in Arguments
    BY DEF Init
  <2> QED
    BY <2>1, <2>2, <2>3, <2>4, <2>5, <2>6, <2>7, Zenon DEF TypeOK
<1>2. out = <<>> /\ Len(out) = 0
  BY DEF Init
<1>3. Places /\ Single
  BY DEF Init, Places, Single, Threads
<1>4. Fresh /\ Cleared /\ NotTwice
  BY <1>2 DEF Init, Fresh, Cleared, NotTwice
<1> QED
  BY <1>1, <1>3, <1>4 DEF IInv

\* The indices of the ring.
LEMMA RingIndex ==
  ASSUME NEW c \in 0..(Cap - 1)
  PROVE  After(c) \in 0..(Cap - 1) /\ Before(c) \in 0..(Cap - 1)
  BY CapAssumption DEF After, Before

\* A step that touches neither the buffers nor what has been read or written,
\* and is not a step of the writer at a buffer, preserves the invariant.
LEMMA QuietStep ==
  ASSUME IInv, TypeOK', Places', UNCHANGED <<slot, taken, out>>,
         at["wr"] = "release" =>
           at'["wr"] = "release" /\ count'["wr"] = count["wr"]
  PROVE  IInv'
<1>1. Fresh' /\ Single' /\ NotTwice'
  BY DEF IInv, Fresh, Single, NotTwice
<1>2. Cleared'
  BY DEF IInv, Cleared, BufferOf
<1> QED
  BY <1>1, <1>2 DEF IInv

\* Every step of the program preserves it.
LEMMA NextIInv == IInv /\ [Next]_vars => IInv'
<1> SUFFICES ASSUME IInv, [Next]_vars PROVE IInv'
  OBVIOUS
<1> USE CapAssumption, BlocksAssumption, FilesAssumption
<1>0. TypeOK /\ Places /\ Fresh /\ Single /\ Cleared /\ NotTwice
  BY DEF IInv
<1>1. CASE Check
  <2>1. TypeOK' /\ Places'
    BY <1>0, <1>1 DEF Check, TypeOK, Places, Threads, PCs
  <2>2. UNCHANGED <<slot, taken, out, count>> /\ at["wr"] = "unborn"
    BY <1>0, <1>1 DEF Check, Places
  <2> QED
    BY <2>1, <2>2, QuietStep
<1>2. CASE Join
  <2>1. TypeOK' /\ Places'
    BY <1>0, <1>2 DEF Join, TypeOK, Places
  <2> QED
    BY <1>2, <2>1, QuietStep DEF Join
<1>3. CASE FileChange
  <2>1. PICK f \in Files : readable' = [readable EXCEPT ![f] = ~ @]
    BY <1>3 DEF FileChange
  <2>2. readable' \in Arguments
    <3>1. PICK m \in 0..NFiles : readable \in [1..m -> BOOLEAN]
      BY <1>0 DEF TypeOK, Arguments
    <3>2. readable' \in [1..m -> BOOLEAN]
      BY <2>1, <3>1
    <3> QED
      BY <3>2 DEF Arguments
  <2>3. TypeOK' /\ Places'
    BY <1>0, <1>3, <2>2 DEF FileChange, TypeOK, Places
  <2> QED
    BY <1>3, <2>3, QuietStep DEF FileChange
<1>4. ASSUME NEW t \in Threads, Test(t) PROVE IInv'
  <2>1. TypeOK' /\ Places'
    BY <1>0, <1>4 DEF Test, Goto, TypeOK, Places, Threads, PCs
  <2>2. UNCHANGED <<slot, taken, out, count>>
    BY <1>4 DEF Test
  <2>3. at["wr"] = "release" => at'["wr"] = "release"
    BY <1>0, <1>4 DEF Test, Goto, TypeOK
  <2> QED
    BY <2>1, <2>2, <2>3, QuietStep
<1>5. ASSUME NEW t \in Threads, Wait(t) PROVE IInv'
  <2>1. TypeOK' /\ Places'
    BY <1>0, <1>5 DEF Wait, Goto, TypeOK, Places, Threads, PCs
  <2>2. UNCHANGED <<slot, taken, out, count>>
    BY <1>5 DEF Wait
  <2>3. at["wr"] = "release" => at'["wr"] = "release"
    BY <1>0, <1>5 DEF Wait, Goto, TypeOK
  <2> QED
    BY <2>1, <2>2, <2>3, QuietStep
<1>6. ASSUME NEW t \in Threads, SpuriousWakeUp(t) PROVE IInv'
  <2>1. TypeOK' /\ Places'
    BY <1>0, <1>6 DEF SpuriousWakeUp, Goto, TypeOK, Places, Threads, PCs
  <2>2. UNCHANGED <<slot, taken, out, count>>
    BY <1>6 DEF SpuriousWakeUp
  <2>3. at["wr"] = "release" => at'["wr"] = "release"
    BY <1>0, <1>6 DEF SpuriousWakeUp, Goto, TypeOK
  <2> QED
    BY <2>1, <2>2, <2>3, QuietStep
<1>7. ASSUME NEW t \in Threads, Relock(t) PROVE IInv'
  <2>1. TypeOK' /\ Places'
    BY <1>0, <1>7 DEF Relock, Goto, TypeOK, Places, Threads, PCs
  <2>2. UNCHANGED <<slot, taken, out, count>>
    BY <1>7 DEF Relock
  <2>3. at["wr"] = "release" => at'["wr"] = "release"
    BY <1>0, <1>7 DEF Relock, Goto, TypeOK
  <2> QED
    BY <2>1, <2>2, <2>3, QuietStep
<1>8. ASSUME NEW t \in Threads, Take(t) PROVE IInv'
  <2>1. After(count[t]) \in 0..(Cap - 1)
    BY <1>0, RingIndex DEF TypeOK
  <2>2. count' \in [Threads -> 0..(Cap - 1)]
    BY <1>0, <1>8, <2>1 DEF Take, TypeOK
  <2>3. TypeOK' /\ Places'
    BY <1>0, <1>8, <2>2 DEF Take, Goto, TypeOK, Places, Threads, PCs
  <2>4. UNCHANGED <<slot, taken, out>>
    BY <1>8 DEF Take
  <2>5. at["wr"] = "release" =>
          at'["wr"] = "release" /\ count'["wr"] = count["wr"]
    BY <1>0, <1>8 DEF Take, Goto, TypeOK
  <2> QED
    BY <2>3, <2>4, <2>5, QuietStep
<1>9. ASSUME NEW t \in Threads, Signal(t) PROVE IInv'
  <2>1. TypeOK' /\ Places'
    BY <1>0, <1>9 DEF Signal, Other, TypeOK, Places, Threads, PCs
  <2>2. UNCHANGED <<slot, taken, out, count>>
    BY <1>9 DEF Signal
  <2>3. at["wr"] = "release" => at'["wr"] = "release"
    BY <1>0, <1>9 DEF Signal, Other, TypeOK, Threads
  <2> QED
    BY <2>1, <2>2, <2>3, QuietStep
<1>10. CASE Write
  <2>1. CASE Goto("wr", "write", "failed") /\ UNCHANGED out
    <3>1. UNCHANGED <<slot, taken, out, count, main, readable, locked>>
      BY <1>10, <2>1 DEF Write
    <3>2. TypeOK' /\ Places'
      BY <1>0, <2>1, <3>1 DEF Goto, TypeOK, Places, Threads, PCs
    <3> QED
      BY <2>1, <3>1, <3>2, QuietStep DEF Goto
  <2> DEFINE B == BufferOf("wr")
             v == slot[B]
  <2>2. CASE /\ Goto("wr", "write", "release")
             /\ out' = IF v = 0 THEN out ELSE Append(out, v)
    <3>1. UNCHANGED <<slot, taken, count, main, readable, locked>>
      BY <1>10 DEF Write
    <3>2. B \in 0..(Cap - 1) /\ v \in {0} \cup Blocks /\ v <= taken
      BY <1>0, RingIndex DEF TypeOK, BufferOf, Threads, Fresh
    <3>3. at["wr"] = "write" /\ at'["wr"] = "release"
      BY <1>0, <2>2 DEF Goto, TypeOK, Threads
    <3>4. B' = B
      BY <3>1 DEF BufferOf
    <3>5. \A p \in 1..Len(out), s \in 0..(Cap - 1) : out[p] # slot[s]
      BY <1>0, <3>3 DEF Cleared
    <3> HIDE DEF B, v
    <3>6. CASE v = 0
      <4>1. out' = out
        BY <2>2, <3>6
      <4>2. TypeOK' /\ Places'
        BY <1>0, <2>2, <3>1, <4>1 DEF Goto, TypeOK, Places, Threads, PCs
      <4>3. Fresh' /\ Single' /\ NotTwice' /\ Cleared'
        BY <1>0, <3>1, <3>5, <4>1 DEF Fresh, Single, NotTwice, Cleared
      <4> QED
        BY <4>2, <4>3 DEF IInv
    <3>7. CASE v # 0
      <4>1. v \in Blocks /\ out' = Append(out, v) /\ out \in Seq(Blocks)
        BY <1>0, <2>2, <3>2, <3>7 DEF TypeOK
      <4>2. /\ out' \in Seq(Blocks) /\ Len(out') = Len(out) + 1
            /\ Len(out) \in Nat /\ out'[Len(out) + 1] = v
            /\ \A p \in 1..Len(out) : out'[p] = out[p]
        BY <4>1
      <4>3. \A p \in 1..Len(out') : p \in 1..Len(out) \/ p = Len(out) + 1
        BY <4>2
      <4>4. TypeOK' /\ Places'
        BY <1>0, <2>2, <3>1, <4>2 DEF Goto, TypeOK, Places, Threads, PCs
      <4>5. Fresh'
        BY <1>0, <3>1, <3>2, <4>2, <4>3 DEF Fresh
      <4>6. Single'
        BY <1>0, <3>1 DEF Single
      <4>7. \A p \in 1..Len(out) : out[p] # v
        BY <3>2, <3>5 DEF v
      <4>8. NotTwice'
        BY <1>0, <4>2, <4>3, <4>7 DEF NotTwice
      <4>9. \A s \in 0..(Cap - 1) : slot[s] = v => s = B
        BY <1>0, <3>2, <3>7 DEF Single, v
      <4>10. Cleared'
        BY <3>1, <3>3, <3>4, <3>5, <4>2, <4>3, <4>9 DEF Cleared, B
      <4> QED
        BY <4>4, <4>5, <4>6, <4>8, <4>10 DEF IInv
    <3> QED
      BY <3>6, <3>7
  <2> QED
    BY <1>10, <2>1, <2>2 DEF Write
<1>11. CASE Release
  <2> DEFINE B == BufferOf("wr")
  <2>1. /\ slot' = [slot EXCEPT ![B] = 0]
        /\ UNCHANGED <<count, locked, main, readable, taken, out>>
        /\ Goto("wr", "release", "signal")
    BY <1>11 DEF Release
  <2>2. B \in 0..(Cap - 1)
    BY <1>0, RingIndex DEF TypeOK, BufferOf, Threads
  <2> HIDE DEF B
  <2>3. slot \in [0..(Cap - 1) -> {0} \cup Blocks] /\ out \in Seq(Blocks)
    BY <1>0 DEF TypeOK
  <2>4. slot'[B] = 0 /\ \A s \in 0..(Cap - 1) : s # B => slot'[s] = slot[s]
    BY <2>1, <2>2, <2>3
  <2>5. TypeOK' /\ Places'
    <3>1. slot' \in [0..(Cap - 1) -> {0} \cup Blocks]
      BY <2>1, <2>3
    <3> QED
      BY <1>0, <2>1, <3>1 DEF Goto, TypeOK, Places, Threads, PCs
  <2>6. Fresh' /\ NotTwice'
    BY <1>0, <2>1, <2>4 DEF Fresh, NotTwice, TypeOK
  <2>7. Single'
    BY <1>0, <2>4 DEF Single
  <2>8. \A p \in 1..Len(out) : out[p] # 0
    BY <2>3 DEF Blocks
  <2>9. Cleared'
    BY <1>0, <2>1, <2>4, <2>8 DEF Cleared, B
  <2> QED
    BY <2>5, <2>6, <2>7, <2>9 DEF IInv
<1>12. CASE Open
  <2>1. TypeOK' /\ Places'
    BY <1>0, <1>12 DEF Open, Goto, TypeOK, Places, Threads, PCs
  <2> QED
    BY <1>0, <1>12, <2>1, QuietStep DEF Open, Goto, TypeOK
<1>13. CASE ReadBlock
  <2> DEFINE B == BufferOf("rd")
  <2>1. /\ slot' = [slot EXCEPT ![B] = taken + 1] /\ taken' = taken + 1
        /\ UNCHANGED <<count, locked, main, readable, out>>
        /\ Goto("rd", "read", IF Files = {} THEN "signal" ELSE "test")
        /\ taken < NBlocks
    BY <1>13 DEF ReadBlock
  <2>2. B \in 0..(Cap - 1)
    BY <1>0, RingIndex DEF TypeOK, BufferOf, Threads
  <2> HIDE DEF B
  <2>3. /\ slot \in [0..(Cap - 1) -> {0} \cup Blocks] /\ out \in Seq(Blocks)
        /\ taken \in 0..NBlocks /\ taken + 1 \in Blocks
    BY <1>0, <2>1 DEF TypeOK, Blocks
  <2>4. /\ slot'[B] = taken + 1
        /\ \A s \in 0..(Cap - 1) : s # B => slot'[s] = slot[s]
    BY <2>1, <2>2, <2>3
  <2>5. TypeOK' /\ Places'
    <3>1. slot' \in [0..(Cap - 1) -> {0} \cup Blocks]
      BY <2>1, <2>3
    <3>2. taken' \in 0..NBlocks
      BY <2>1, <2>3
    <3> QED
      BY <1>0, <2>1, <3>1, <3>2 DEF Goto, TypeOK, Places, Threads, PCs
  <2>6. \A s \in 0..(Cap - 1) : slot[s] # taken + 1 /\ slot[s] \in Nat
    BY <1>0, <2>3 DEF Fresh, Blocks
  <2>7. \A p \in 1..Len(out) : out[p] # taken + 1 /\ out[p] \in Nat
    BY <1>0, <2>3 DEF Fresh, Blocks
  <2>8. Fresh'
    <3>1. \A s \in 0..(Cap - 1) : slot'[s] <= taken + 1
      BY <1>0, <2>3, <2>4, <2>6 DEF Fresh
    <3>2. \A p \in 1..Len(out) : out[p] <= taken + 1
      BY <1>0, <2>3, <2>7 DEF Fresh
    <3> QED
      BY <2>1, <3>1, <3>2 DEF Fresh
  <2>9. Single'
    BY <1>0, <2>4, <2>6 DEF Single
  <2>10. at'["wr"] = at["wr"] /\ BufferOf("wr")' = BufferOf("wr")
    BY <1>0, <2>1 DEF Goto, TypeOK, Threads, BufferOf
  <2>11. Cleared'
    BY <1>0, <2>1, <2>4, <2>7, <2>10 DEF Cleared
  <2>12. NotTwice'
    BY <1>0, <2>1 DEF NotTwice
  <2> QED
    BY <2>5, <2>8, <2>9, <2>11, <2>12 DEF IInv
<1>14. CASE EndOfInput
  <2>1. TypeOK' /\ Places'
    BY <1>0, <1>14 DEF EndOfInput, Goto, TypeOK, Places, Threads, PCs
  <2> QED
    BY <1>0, <1>14, <2>1, QuietStep DEF EndOfInput, Goto, TypeOK
<1>15. CASE ReadFails
  <2>1. TypeOK' /\ Places'
    BY <1>0, <1>15 DEF ReadFails, Goto, TypeOK, Places, Threads, PCs
  <2> QED
    BY <1>0, <1>15, <2>1, QuietStep DEF ReadFails, Goto, TypeOK
<1>16. CASE UNCHANGED vars
  BY <1>0, <1>16 DEF vars, IInv, TypeOK, Places, Fresh, Single, Cleared, NotTwice,
                     BufferOf
<1>17. "wr" \in Threads /\ "rd" \in Threads
  BY DEF Threads
<1> QED
  BY <1>1, <1>2, <1>3, <1>4, <1>5, <1>6, <1>7, <1>8, <1>9, <1>10, <1>11, <1>12,
     <1>13, <1>14, <1>15, <1>16, <1>17 DEF Next, Writer, Reader

\* It holds in every reachable state.
LEMMA SpecIInv == Spec => []IInv
  BY InitIInv, NextIInv, PTL DEF Spec

-----------------------------------------------------------------------------

\* The counters, the buffers and the threads keep their types: no index ever
\* leaves the ring, with or without a lock.
THEOREM TypesCorrect == Spec => []TypeOK
<1>1. IInv => TypeOK
  BY DEF IInv
<1> QED
  BY <1>1, SpecIInv, PTL

\* Whatever the order of the two threads, no block of the input is written
\* twice.
THEOREM NoBlockTwice == Spec => []NotTwice
<1>1. IInv => NotTwice
  BY DEF IInv
<1> QED
  BY <1>1, SpecIInv, PTL

-----------------------------------------------------------------------------
(* Who finds the mutex locked.                                             *)

\* A thread does not go to sleep, nor ends well, with the mutex locked, unless the
\* other one has locked it since and is on its way: whoever sleeps or has been
\* woken while the other one sleeps or has ended finds it free.
FreeForTheWoken ==
  \A t \in Threads :
     at[t] \in {"asleep", "woken"} /\ at[Other[t]] \in {"asleep", "done"} => ~ locked

\* Relock leads a thread out of its sleep; Wait and the end of the input unlock the
\* mutex; every other step leaves it as it is, and brings nobody to sleep.
LEMMA NextFree == IInv /\ FreeForTheWoken /\ [Next]_vars => FreeForTheWoken'
<1> SUFFICES ASSUME IInv, FreeForTheWoken, [Next]_vars PROVE FreeForTheWoken'
  OBVIOUS
<1>1. /\ Threads = {"wr", "rd"} /\ Other["wr"] = "rd" /\ Other["rd"] = "wr"
      /\ at \in [Threads -> PCs] /\ locked \in BOOLEAN
  BY DEF Threads, Other, IInv, TypeOK
<1> DEFINE Sleepy  == {"asleep", "woken"}
           Resting == {"asleep", "done"}
<1>2. ASSUME UNCHANGED locked,
             \A t \in Threads : /\ at'[t] \in Sleepy => at[t] \in Sleepy
                                /\ at'[t] \in Resting => at[t] \in Resting
      PROVE  FreeForTheWoken'
  BY <1>1, <1>2 DEF FreeForTheWoken
<1>3. ASSUME ~ locked' PROVE FreeForTheWoken'
  BY <1>3 DEF FreeForTheWoken
<1>4. ASSUME NEW t \in Threads, Relock(t) PROVE FreeForTheWoken'
  BY <1>1, <1>4 DEF Relock, Goto, FreeForTheWoken
<1>5. ASSUME NEW t \in Threads, Test(t) \/ Take(t) \/ SpuriousWakeUp(t) PROVE FreeForTheWoken'
  BY <1>1, <1>2, <1>5 DEF Test, Take, SpuriousWakeUp, Goto
<1>6. ASSUME NEW t \in Threads, Signal(t) PROVE FreeForTheWoken'
  <2>1. /\ Other[t] \in Threads /\ Other[t] # t /\ UNCHANGED locked
        /\ at' = [at EXCEPT ![t] = "test",
                            ![Other[t]] = IF @ = "asleep" THEN "woken" ELSE @]
    BY <1>1, <1>6 DEF Signal
  <2> QED
    BY <1>1, <1>2, <2>1
<1>7. ASSUME NEW t \in Threads, Wait(t) PROVE FreeForTheWoken'
  BY <1>3, <1>7 DEF Wait
<1>8. CASE EndOfInput
  BY <1>3, <1>8 DEF EndOfInput
<1>9. CASE Write \/ Release
  BY <1>1, <1>2, <1>9 DEF Write, Release, Goto
<1>10. CASE Open \/ ReadBlock \/ ReadFails
  BY <1>1, <1>2, <1>10 DEF Open, ReadBlock, ReadFails, Goto
<1>11. CASE Check \/ Join \/ FileChange \/ UNCHANGED vars
  BY <1>1, <1>2, <1>11 DEF Check, Join, FileChange, vars
<1> QED
  BY <1>1, <1>4, <1>5, <1>6, <1>7, <1>8, <1>9, <1>10, <1>11 DEF Next, Writer, Reader

\* A thread that has been woken while the other one sleeps, or has come to the end
\* of the input, finds the mutex free, in any interleaving: the only unlock on
\* its way is that of pthread_cond_wait or of the end of the reader.
THEOREM WokenFindMutexFree == Spec => []FreeForTheWoken
<1>1. Init => FreeForTheWoken
  BY DEF Init, FreeForTheWoken, Threads
<1> QED
  BY <1>1, NextFree, SpecIInv, PTL DEF Spec
=============================================================================
