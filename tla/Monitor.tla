------------------------------ MODULE Monitor ------------------------------
(***************************************************************************)
(* threads/main.cpp: two threads copy standard input, or a file, to        *)
(* standard output through FIFOm, a ring of buffers with two counters, a   *)
(* mutex and two condition variables.  The thread "rd" reads input into    *)
(* the ring, the thread "wr" writes the ring to the output.                *)
(*                                                                         *)
(* Nobody ever locks the mutex: pthread_cond_wait is called without it,    *)
(* unlocks it whoever has it and comes back with it locked, after which it *)
(* stays locked until the next wait of either thread or the end of the     *)
(* input.  So nothing protects the test of the counters from the other     *)
(* thread, a signal can fall between the test and the wait and be lost,    *)
(* and the test is not repeated after the wait.                            *)
(*                                                                         *)
(* The input consists of the blocks 1..NBlocks, one for each read(); 0 is  *)
(* a buffer of zeros.  A buffer that is read and written at once gets one  *)
(* of the two contents as a whole.  write() of a whole buffer never        *)
(* answers 0.                                                              *)
(***************************************************************************)
EXTENDS Naturals, Sequences

CONSTANTS Cap,             \* capacity of the ring (16 in the program)
          NBlocks,         \* blocks in the input
          NFiles,          \* up to how many files are named (argc - 1)
          IoMayFail,       \* whether read() and write() may fail
          SpuriousWakeUps  \* whether a wait may end without a signal

ASSUME CapAssumption    == Cap \in Nat \ {0, 1}
ASSUME BlocksAssumption == NBlocks \in Nat
ASSUME FilesAssumption  == NFiles \in Nat
ASSUME FaultsAssumption == {IoMayFail, SpuriousWakeUps} \subseteq BOOLEAN

VARIABLES slot,         \* FIFOm.data: the block in each buffer
          count,        \* FIFOm.writer and FIFOm.reader, modulo the capacity,
                      \* as the code uses them (up to 2^31 buffers)
          locked,       \* whether FIFOm.mutex is locked
          at,           \* where each thread is
          main,         \* where main is
          readable,     \* which of the files named can be read; no file
                        \* named copies standard input
          taken,        \* blocks read from the input so far
          out           \* blocks written so far, buffers of zeros left out

vars == <<slot, count, locked, at, main, readable, taken, out>>

Threads == {"wr", "rd"}
Other == [wr |-> "rd", rd |-> "wr"]
Arguments == UNION {[1..m -> BOOLEAN] : m \in 0..NFiles}
Files == DOMAIN readable
Blocks == 1..NBlocks

PCs == {"unborn", "open", "test", "wait", "asleep", "woken", "take", "write",
        "release", "read", "signal", "done", "failed"}

Init == /\ slot = [s \in 0..(Cap - 1) |-> 0]
        /\ count = [wr |-> 0, rd |-> 1]
        /\ locked = FALSE
        /\ at = [t \in Threads |-> "unborn"]
        /\ main = "check"
        /\ readable \in Arguments
        /\ taken = 0
        /\ out = <<>>

Goto(t, from, to) == at[t] = from /\ at' = [at EXCEPT ![t] = to]

-----------------------------------------------------------------------------
(* main.                                                                   *)

\* checkFiles returns the first file that can be read, and main takes any
\* answer but 0 for a file that cannot.
Check == /\ main = "check"
         /\ IF \E f \in Files : readable[f]
            THEN main' = "refused" /\ UNCHANGED at
            ELSE /\ main' = "join"
                 /\ at' = [wr |-> "test", rd |-> IF Files = {} THEN "test" ELSE "open"]
         /\ UNCHANGED <<slot, count, locked, readable, taken, out>>

Join == /\ main = "join"
        /\ at["wr"] = "failed" /\ at["rd"] \in {"done", "failed"}
        /\ main' = "exit"
        /\ UNCHANGED <<slot, count, locked, at, readable, taken, out>>

\* Somebody creates or removes a file, or changes its mode.
FileChange == /\ main = "check" \/ at["rd"] = "open"
              /\ \E f \in Files : readable' = [readable EXCEPT ![f] = ~ @]
              /\ UNCHANGED <<slot, count, locked, at, main, taken, out>>

-----------------------------------------------------------------------------
(* buf_for_reader and buf_for_writer.                                      *)

\* A counter that does not come round.
AfterUnwrapped(c) == c + 1
After(c)  == (c + 1) % Cap
Before(c) == (c + Cap - 1) % Cap

Full  == count["rd"] = count["wr"]
Empty == After(count["wr"]) = count["rd"]

\* A test that lets the writer pass an empty ring.
TestFullOnly(t) == /\ Goto(t, "test", IF t = "rd" /\ Full THEN "wait" ELSE "take")
                   /\ UNCHANGED <<slot, count, locked, main, readable, taken, out>>
Test(t) == /\ Goto(t, "test", IF (t = "rd" /\ Full) \/ (t = "wr" /\ Empty)
                              THEN "wait" ELSE "take")
           /\ UNCHANGED <<slot, count, locked, main, readable, taken, out>>

\* pthread_cond_wait: the thread is among the waiters before it unlocks.
Wait(t) == /\ Goto(t, "wait", "asleep")
           /\ locked' = FALSE
           /\ UNCHANGED <<slot, count, main, readable, taken, out>>

SpuriousWakeUp(t) == /\ SpuriousWakeUps
                     /\ Goto(t, "asleep", "woken")
                     /\ UNCHANGED <<slot, count, locked, main, readable, taken,
                                    out>>

Relock(t) == /\ Goto(t, "woken", "take")
             /\ ~ locked
             /\ locked' = TRUE
             /\ UNCHANGED <<slot, count, main, readable, taken, out>>

\* The counter moves on before the buffer is read or written.
Take(t) == /\ Goto(t, "take", IF t = "wr" THEN "write" ELSE "read")
           /\ count' = [count EXCEPT ![t] = After(@)]
           /\ UNCHANGED <<slot, locked, main, readable, taken, out>>

\* pthread_cond_signal.
Signal(t) == LET u == Other[t]
             IN /\ at[t] = "signal"
                /\ at' = [at EXCEPT ![t] = "test",
                                    ![u] = IF @ = "asleep" THEN "woken" ELSE @]
                /\ UNCHANGED <<slot, count, locked, main, readable, taken, out>>

\* The buffer that the thread has got.
BufferOf(t) == Before(count[t])

-----------------------------------------------------------------------------
(* writer().                                                               *)

Write == /\ \/ /\ Goto("wr", "write", "release")
               /\ out' = IF slot[BufferOf("wr")] = 0
                         THEN out ELSE Append(out, slot[BufferOf("wr")])
            \/ /\ IoMayFail
               /\ Goto("wr", "write", "failed")
               /\ UNCHANGED out
         /\ UNCHANGED <<slot, count, locked, main, readable, taken>>

\* A writer that does not clear the buffer it has written.
ReleaseNothing == /\ Goto("wr", "release", "signal")
                  /\ UNCHANGED <<slot, count, locked, main, readable, taken, out>>
\* release_buf.
Release == /\ Goto("wr", "release", "signal")
           /\ slot' = [slot EXCEPT ![BufferOf("wr")] = 0]
           /\ UNCHANGED <<count, locked, main, readable, taken, out>>

Writer == Test("wr") \/ Wait("wr") \/ Relock("wr") \/ Take("wr") \/ Write
            \/ Release \/ Signal("wr")

-----------------------------------------------------------------------------
(* reader().                                                               *)

\* Only the first file is ever opened: the end of it ends the thread.
Open == /\ Goto("rd", "open", IF readable[1] THEN "test" ELSE "failed")
        /\ UNCHANGED <<slot, count, locked, main, readable, taken, out>>

\* A block that has been read from a file is not signalled.
ReadBlock == /\ taken < NBlocks
             /\ Goto("rd", "read", IF Files = {} THEN "signal" ELSE "test")
             /\ slot' = [slot EXCEPT ![BufferOf("rd")] = taken + 1]
             /\ taken' = taken + 1
             /\ UNCHANGED <<count, locked, main, readable, out>>

\* A reader that leaves with the mutex locked.
EndLocked == /\ taken = NBlocks
             /\ Goto("rd", "read", "done")
             /\ UNCHANGED <<slot, count, locked, main, readable, taken, out>>
EndOfInput == /\ taken = NBlocks
              /\ Goto("rd", "read", "done")
              /\ locked' = FALSE
              /\ UNCHANGED <<slot, count, main, readable, taken, out>>

ReadFails == /\ IoMayFail
             /\ Goto("rd", "read", "failed")
             /\ UNCHANGED <<slot, count, locked, main, readable, taken, out>>

Reader == Open \/ Test("rd") \/ Wait("rd") \/ Relock("rd") \/ Take("rd")
            \/ ReadBlock \/ EndOfInput \/ ReadFails \/ Signal("rd")

-----------------------------------------------------------------------------

Next == \/ Check \/ Join \/ FileChange \/ Writer \/ Reader
        \/ \E t \in Threads : SpuriousWakeUp(t)

Spec == Init /\ [][Next]_vars

\* Each thread and main keep running when they can, and no thread is woken
\* without a signal for ever.
FairSpec == /\ Spec
            /\ WF_vars(Writer) /\ WF_vars(Reader) /\ WF_vars(Check \/ Join)
            /\ <>[][\A t \in Threads : ~ SpuriousWakeUp(t)]_vars

-----------------------------------------------------------------------------
(* Properties.                                                             *)

TypeOK == /\ slot \in [0..(Cap - 1) -> {0} \cup Blocks]
          /\ count \in [Threads -> 0..(Cap - 1)]
          /\ locked \in BOOLEAN
          /\ at \in [Threads -> PCs]
          /\ main \in {"check", "join", "refused", "exit"}
          /\ readable \in Arguments
          /\ taken \in 0..NBlocks
          /\ out \in Seq(Blocks)

\* Although both threads run through the ring without a lock, even at the same
\* time over the same buffer, and the writer may overtake the reader, no block
\* of the input is written twice: a block is in one buffer only, and that one
\* is cleared before the writer leaves it.
NotTwice == \A p, q \in 1..Len(out) : out[p] = out[q] => p = q

\* A thread that has been woken gets the mutex, although the other one never
\* unlocks it on purpose: the other one goes to sleep in the end, or finds the
\* end of the input, unless a call of it has failed and it has left the mutex
\* locked.
WokenGetsMutex ==
  \A t \in Threads : at[t] = "woken" ~> at[t] # "woken" \/ at[Other[t]] = "failed"

\* After the end of the input the writer stops writing, and sleeps for ever or
\* has failed: it does not run round the ring.
OutputEnds == at["rd"] = "done" ~> [](at["wr"] \in {"asleep", "failed"})
=============================================================================
