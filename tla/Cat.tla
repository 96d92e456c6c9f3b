--------------------------------- MODULE Cat --------------------------------
(***************************************************************************)
(* mycat/main.cpp, with a pipe for its standard output.                    *)
(*                                                                         *)
(* The end of the first file is the end of catWithArgs: later files are    *)
(* not read.  checkFiles and the error messages have no influence on what  *)
(* is copied: catWithArgs compares errno with what it was at its begin,    *)
(* and an open() that fails in the same way as before is noticed by the    *)
(* read().  A block is always written with the whole buffer.               *)
(***************************************************************************)
EXTENDS Integers, Sequences, FiniteSetsExt

CONSTANTS Inputs,       \* what the input may consist of: sequences of bytes
          Zero,         \* the byte 0
          BUFFER_SIZE,
          Cap           \* buffers that a pipe has room for

Bytes == 0..255

ASSUME InputAssumption  == Inputs \subseteq Seq(Bytes) /\ Zero \in Bytes
ASSUME BufferAssumption == BUFFER_SIZE \in Nat \ {0} /\ Cap \in Nat \ {0}

VARIABLES cat,       \* born, exec, open, read, write, done or killed
          args,      \* whether it has the name of a file (argc > 1)
          left,      \* the input that has not been read
          buffer,
          pipe,      \* buffers in the pipe
          readers,   \* who holds the read end of the pipe
          writers,   \* and its write end
          taken,     \* history: blocks that were read
          written    \* history: buffers that were written

input   == <<args, left, buffer, taken, written>>
catVars == <<cat, input, pipe, readers, writers>>

Cells == 1..BUFFER_SIZE

CatEnded == cat \in {"done", "killed"}

CatInit == /\ cat = "born"
           /\ args \in BOOLEAN
           /\ left \in Inputs
           /\ buffer = [c \in Cells |-> Zero]
           /\ pipe = <<>>
           /\ taken = <<>> /\ written = <<>>

\* The end of the process closes what it holds.
EndCat(how) == /\ cat' = how
               /\ readers' = readers \ {"child"}
               /\ writers' = writers \ {"child"}

\* With files, the first is opened, or not.
Open == /\ cat = "open"
        /\ \/ cat' = "read" /\ UNCHANGED <<readers, writers>>
           \/ args /\ EndCat("done")
        /\ UNCHANGED <<input, pipe>>

\* A read that puts its bytes at the end of the buffer.
FilledFromEnd(n) == [c \in Cells |-> IF c > BUFFER_SIZE - n THEN left[c - BUFFER_SIZE + n]
                                                           ELSE buffer[c]]
\* The contents of the buffer when n bytes have been read into it.
Filled(n) == [c \in Cells |-> IF c <= n THEN left[c] ELSE buffer[c]]

\* Standard input has as many bytes as have arrived, a file all of them.
Read ==
  /\ cat = "read" /\ left # <<>>
  /\ \E n \in 1..Min({BUFFER_SIZE, Len(left)}) :
       /\ args => n = Min({BUFFER_SIZE, Len(left)})
       /\ buffer' = Filled(n)
       /\ taken' = Append(taken, SubSeq(left, 1, n))
       /\ left' = SubSeq(left, n + 1, Len(left))
  /\ cat' = "write"
  /\ UNCHANGED <<args, pipe, readers, writers, written>>
\* The end of the input, or a read() that fails.
ReadEnds == /\ cat = "read"
            /\ EndCat("done")
            /\ UNCHANGED <<input, pipe>>

Write == /\ cat = "write"
         /\ \/ /\ readers # {} /\ Len(pipe) < Cap
               /\ pipe' = Append(pipe, buffer)
               /\ written' = Append(written, buffer)
               /\ cat' = "read"
               /\ UNCHANGED <<readers, writers>>
            \/ /\ readers = {}      \* SIGPIPE
               /\ EndCat("killed")
               /\ UNCHANGED <<pipe, written>>
         /\ UNCHANGED <<args, left, buffer, taken>>

Mycat == Open \/ Read \/ ReadEnds \/ Write

-----------------------------------------------------------------------------
(* Properties.                                                             *)

\* What stands in cell c after the kth block: the last block so far that reached
\* this cell has left its byte there.
Left(k, c) ==
  LET reached == {j \in 1..k : Len(taken[j]) >= c}
  IN  IF reached = {} THEN Zero ELSE taken[Max(reached)][c]

\* Every block of the input is written once and in order, each at the front of a
\* buffer of its own; behind a block that is shorter than the buffer comes what
\* longer blocks before it have left, or zeros, and never a byte that the input
\* did not have.
WrittenAsRead ==
  /\ Len(written) \in {Len(taken) - 1, Len(taken)}
  /\ \A k \in 1..Len(written), c \in Cells : written[k][c] = Left(k, c)
=============================================================================
