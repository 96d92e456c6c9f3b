-------------------------- MODULE WordCountProofs --------------------------
(***************************************************************************)
(* For any input, any size of mycat's buffer and any room in the pipe:     *)
(* what mycat writes, what mywc prints, and that neither blocks the other. *)
(*                                                                         *)
(* The buffer is never cleared, so each of its cells holds the byte of the *)
(* last block that was long enough to reach it: this is what Left says of  *)
(* the history, and it changes only for the cells of a new block.          *)
(***************************************************************************)
EXTENDS WordCount, WellFoundedInduction, TLAPS

\* Min and Max of sets of naturals, of which FiniteSetsExt gives the definitions.
LEMMA MinOfNats ==
  ASSUME NEW S \in SUBSET Nat, S # {}
  PROVE  Min(S) \in S /\ \A y \in S : Min(S) <= y
<1>1. \E x \in S : \A y \in S : ~ (<<y, x>> \in OpToRel(<, Nat))
  BY NatLessThanWellFounded, WFMin
<1>2. OpToRel(<, Nat) = {ss \in Nat \X Nat : ss[1] < ss[2]}
  BY DEF OpToRel
<1>3. PICK x \in S : \A y \in S : ~ (<<y, x>> \in OpToRel(<, Nat))
  BY <1>1
<1>4. ASSUME NEW y \in S PROVE x <= y
  <2>1. <<y, x>> \in Nat \X Nat /\ ~ (<<y, x>> \in {ss \in Nat \X Nat : ss[1] < ss[2]})
    BY <1>2, <1>3
  <2>2. ~ (y < x)
    BY <2>1
  <2> QED
    BY <2>2
<1> QED
  BY <1>4 DEF Min

LEMMA MaxOfNats ==
  ASSUME NEW k \in Nat, NEW S \in SUBSET (1..k), S # {}
  PROVE  Max(S) \in S /\ \A y \in S : Max(S) >= y
<1> DEFINE Below == {k - x : x \in S}
<1>1. Below \in SUBSET Nat /\ Below # {}
  <2>1. \A x \in S : k - x \in Nat
    OBVIOUS
  <2> QED
    BY <2>1
<1>2. PICK d \in Below : \A e \in Below : d <= e
  <2> HIDE DEF Below
  <2> QED
    BY <1>1, MinOfNats
<1>3. PICK x \in S : d = k - x
  BY <1>2
<1>4. \A y \in S : x >= y
  <2> SUFFICES ASSUME NEW y \in S PROVE x >= y
    OBVIOUS
  <2>1. k - x <= k - y
    BY <1>2, <1>3
  <2>2. x \in Nat /\ y \in Nat
    OBVIOUS
  <2> QED
    BY <2>1, <2>2
<1> QED
  BY <1>4 DEF Max

-----------------------------------------------------------------------------
(* The inductive invariant.                                                *)

Buffers == [Cells -> Bytes]

Typed == /\ cat \in {"born", "exec", "open", "read", "write", "done", "killed"}
         /\ args \in BOOLEAN
         /\ left \in Seq(Bytes)
         /\ buffer \in Buffers
         /\ taken \in Seq(Seq(Bytes))
         /\ written \in Seq(Buffers)
         /\ parent \in {"fork", "close", "read", "wait", "print", "done", "returned"}

\* The blocks up to the kth that were long enough to reach cell c, and what the
\* last of them has left there: Left, of any history.
Reached(blocks, k, c) == {j \in 1..k : Len(blocks[j]) >= c}
Last(blocks, k, c) == IF Reached(blocks, k, c) = {} THEN Zero
                      ELSE blocks[Max(Reached(blocks, k, c))][c]

\* The buffer now, and each buffer as it was written.
Remains ==
  /\ \A c \in Cells : buffer[c] = Last(taken, Len(taken), c)
  /\ \A k \in 1..Len(written), c \in Cells : written[k][c] = Last(taken, k, c)
  /\ Len(written) \in {Len(taken) - 1, Len(taken)}
  /\ cat = "write" => Len(written) = Len(taken) - 1
  /\ cat \in {"born", "exec", "open", "read"} => Len(written) = Len(taken)

\* What the parent can conclude from the end of the pipe.
Piping ==
  /\ parent # "returned" => pipe = written
  /\ parent # "fork" /\ ~ CatEnded => "child" \in writers
  /\ parent \in {"wait", "print", "done"} => CatEnded /\ written = <<>>

IInv == Typed /\ Remains /\ Piping

-----------------------------------------------------------------------------
(* What is left in a cell.                                                 *)

\* A new block changes what is left in the cells that it reaches, from then on.
LEMMA LastAfter ==
  ASSUME NEW blocks \in Seq(Seq(Bytes)), NEW block \in Seq(Bytes), NEW c \in Cells
  PROVE  LET n == Len(blocks)
             new == Append(blocks, block)
         IN  /\ \A k \in 0..n : Last(new, k, c) = Last(blocks, k, c)
             /\ Last(new, n + 1, c) = IF Len(block) >= c THEN block[c]
                                                         ELSE Last(blocks, n, c)
<1> DEFINE n == Len(blocks)
           new == Append(blocks, block)
<1>1. /\ n \in Nat /\ new[n + 1] = block /\ \A j \in 1..n : new[j] = blocks[j]
  OBVIOUS
<1> HIDE DEF n, new
<1>2. ASSUME NEW k \in 0..n PROVE Last(new, k, c) = Last(blocks, k, c)
  <2>1. k \in Nat /\ 1..k \subseteq 1..n
    BY <1>1
  <2>2. Reached(new, k, c) = Reached(blocks, k, c)
    BY <1>1, <2>1 DEF Reached
  <2> DEFINE R == Reached(blocks, k, c)
  <2>3. R # {} => Max(R) \in 1..n
    <3>1. R \in SUBSET (1..k)
      BY DEF Reached
    <3> HIDE DEF R
    <3> QED
      BY <2>1, <3>1, MaxOfNats
  <2> QED
    BY <1>1, <2>2, <2>3 DEF Last
<1>3. CASE Len(block) >= c
  <2> DEFINE R == Reached(new, n + 1, c)
  <2>1. R \in SUBSET (1..(n + 1)) /\ n + 1 \in R /\ n + 1 \in Nat
    BY <1>1, <1>3 DEF Reached
  <2>2. Max(R) = n + 1
    <3> HIDE DEF R
    <3>1. Max(R) \in R /\ \A y \in R : Max(R) >= y
      BY <2>1, MaxOfNats
    <3>2. Max(R) \in 1..(n + 1) /\ Max(R) >= n + 1
      BY <2>1, <3>1
    <3> QED
      BY <1>1, <3>2
  <2>3. Last(new, n + 1, c) = new[Max(R)][c]
    BY <2>1 DEF Last
  <2> HIDE DEF R
  <2>4. Last(new, n + 1, c) = block[c]
    BY <1>1, <2>2, <2>3
  <2> QED
    BY <1>2, <1>3, <2>4 DEF n, new
<1>4. CASE ~ (Len(block) >= c)
  <2>1. Reached(new, n + 1, c) = Reached(new, n, c)
    <3>1. 1..(n + 1) = 1..n \cup {n + 1}
      BY <1>1
    <3> QED
      BY <1>1, <1>4, <3>1 DEF Reached
  <2>2. Last(new, n + 1, c) = Last(new, n, c)
    BY <2>1 DEF Last
  <2>3. Last(new, n, c) = Last(blocks, n, c)
    BY <1>1, <1>2
  <2> QED
    BY <1>2, <1>4, <2>2, <2>3 DEF n, new
<1> QED
  BY <1>3, <1>4

\* Before the first block every cell is zero.
LEMMA LastAtFirst == \A blocks : \A c \in Cells : Last(blocks, 0, c) = Zero
BY DEF Last, Reached

-----------------------------------------------------------------------------
(* Every action preserves the invariant.                                   *)

LEMMA InitIInv == Init => IInv
<1> SUFFICES ASSUME Init PROVE IInv
  OBVIOUS
<1>1. /\ cat = "born" /\ args \in BOOLEAN /\ left \in Inputs
      /\ buffer = [c \in Cells |-> Zero] /\ pipe = <<>> /\ taken = <<>> /\ written = <<>>
      /\ parent = "fork" /\ Len(taken) = 0 /\ Len(written) = 0
  BY DEF Init, CatInit
<1>2. Typed
  BY <1>1, InputAssumption DEF Typed, Buffers
<1>3. Remains
  BY <1>1, LastAtFirst DEF Remains
<1> QED
  BY <1>1, <1>2, <1>3 DEF IInv, Piping

\* A step that does not read or write.
LEMMA QuietRemains ==
  ASSUME Remains, UNCHANGED <<buffer, taken, written>>,
         cat' = "write" => cat = "write",
         cat' \in {"born", "exec", "open", "read"} =>
           cat \in {"born", "exec", "open", "read"}
  PROVE  Remains'
BY DEF Remains

\* The end of the child leaves no write end of it.
LEMMA EndKeepsPiping ==
  ASSUME Piping, NEW how \in {"done", "killed"}, EndCat(how),
         UNCHANGED <<pipe, written, parent>>
  PROVE  Piping'
BY DEF Piping, EndCat, CatEnded

LEMMA ReadIInv == IInv /\ Read /\ UNCHANGED parent => IInv'
<1> SUFFICES ASSUME IInv, Read, UNCHANGED parent PROVE IInv'
  OBVIOUS
<1>1. PICK n \in 1..Min({BUFFER_SIZE, Len(left)}) :
        /\ buffer' = Filled(n)
        /\ taken' = Append(taken, SubSeq(left, 1, n))
        /\ left' = SubSeq(left, n + 1, Len(left))
  BY DEF Read
<1>2. /\ cat = "read" /\ cat' = "write"
      /\ UNCHANGED <<args, pipe, readers, writers, written, parent>>
  BY DEF Read
<1>3. left \in Seq(Bytes) /\ Len(left) \in Nat /\ BUFFER_SIZE \in Nat
  BY BufferAssumption DEF IInv, Typed
<1>4. n \in Nat /\ n >= 1 /\ n <= Len(left) /\ n <= BUFFER_SIZE
  <2>1. {BUFFER_SIZE, Len(left)} \in SUBSET Nat
    BY <1>3
  <2>2. /\ Min({BUFFER_SIZE, Len(left)}) \in Nat
        /\ Min({BUFFER_SIZE, Len(left)}) <= BUFFER_SIZE
        /\ Min({BUFFER_SIZE, Len(left)}) <= Len(left)
    BY <2>1, MinOfNats
  <2> QED
    BY <1>3, <2>2
<1> DEFINE block == SubSeq(left, 1, n)
<1>5. /\ block \in Seq(Bytes) /\ Len(block) = n
      /\ \A j \in 1..n : block[j] = left[j] /\ left[j] \in Bytes
      /\ left' \in Seq(Bytes)
  BY <1>1, <1>3, <1>4
<1> HIDE DEF block
<1>6. buffer' = [c \in Cells |-> IF c <= n THEN left[c] ELSE buffer[c]]
  BY <1>1 DEF Filled
<1>7. Typed'
  <2>1. taken' \in Seq(Seq(Bytes))
    BY <1>1, <1>5 DEF IInv, Typed, block
  <2>2. buffer' \in Buffers
    BY <1>4, <1>5, <1>6 DEF IInv, Typed, Buffers, Cells
  <2> QED
    BY <1>2, <1>5, <2>1, <2>2 DEF IInv, Typed
<1>8. Remains'
  <2> DEFINE m == Len(taken)
  <2>1. taken \in Seq(Seq(Bytes)) /\ taken' = Append(taken, block) /\ m \in Nat
    BY <1>1 DEF IInv, Typed, block
  <2>2. Len(taken') = m + 1
    BY <2>1
  <2>3. ASSUME NEW c \in Cells
        PROVE  /\ \A k \in 0..m : Last(taken', k, c) = Last(taken, k, c)
               /\ Last(taken', m + 1, c) = IF n >= c THEN block[c] ELSE Last(taken, m, c)
    BY <1>5, <2>1, LastAfter
  <2>4. Len(written) = m /\ Len(written') = m /\ written' = written
    BY <1>2 DEF IInv, Remains
  <2>5. \A k \in 1..m, c \in Cells : written[k][c] = Last(taken, k, c)
    BY <2>4 DEF IInv, Remains
  <2>6. \A c \in Cells : buffer[c] = Last(taken, m, c)
    BY DEF IInv, Remains
  <2> HIDE DEF m
  <2>7. \A k \in 1..m, c \in Cells : written'[k][c] = Last(taken', k, c)
    BY <2>1, <2>3, <2>4, <2>5
  <2>8. \A c \in Cells : buffer'[c] = Last(taken', m + 1, c)
    BY <1>4, <1>5, <1>6, <2>3, <2>6 DEF Cells
  <2> QED
    BY <1>2, <2>1, <2>2, <2>4, <2>7, <2>8 DEF Remains
<1>9. Piping'
  BY <1>2 DEF IInv, Piping, CatEnded
<1> QED
  BY <1>7, <1>8, <1>9 DEF IInv

LEMMA WriteIInv == IInv /\ Write /\ UNCHANGED parent => IInv'
<1> SUFFICES ASSUME IInv, Write, UNCHANGED parent PROVE IInv'
  OBVIOUS
<1>1. cat = "write" /\ UNCHANGED <<args, left, buffer, taken, parent>>
  BY DEF Write
<1>2. CASE /\ pipe' = Append(pipe, buffer) /\ written' = Append(written, buffer)
           /\ cat' = "read" /\ UNCHANGED <<readers, writers>>
  <2>1. /\ written' \in Seq(Buffers) /\ Len(written') = Len(written) + 1
        /\ written'[Len(written) + 1] = buffer
        /\ \A k \in 1..Len(written) : written'[k] = written[k]
        /\ Len(written) \in Nat
    BY <1>2 DEF IInv, Typed
  <2>2. Typed'
    BY <1>1, <1>2, <2>1 DEF IInv, Typed
  <2>3. Len(taken) \in Nat /\ Len(written) = Len(taken) - 1 /\ taken' = taken
    BY <1>1 DEF IInv, Typed, Remains
  <2>4. \A k \in 1..Len(written'), c \in Cells : written'[k][c] = Last(taken, k, c)
    <3>1. \A c \in Cells : buffer[c] = Last(taken, Len(taken), c)
      BY DEF IInv, Remains
    <3>2. \A k \in 1..Len(written), c \in Cells : written[k][c] = Last(taken, k, c)
      BY DEF IInv, Remains
    <3> QED
      BY <2>1, <2>3, <3>1, <3>2
  <2>5. Len(written') = Len(taken') /\ buffer' = buffer
    BY <1>1, <2>1, <2>3
  <2>6. Remains'
    BY <1>2, <2>3, <2>4, <2>5 DEF IInv, Remains
  <2>7. Piping'
    BY <1>1, <1>2 DEF IInv, Piping, CatEnded
  <2> QED
    BY <2>2, <2>6, <2>7 DEF IInv
<1>3. CASE EndCat("killed") /\ UNCHANGED <<pipe, written>>
  <2>1. Typed'
    BY <1>1, <1>3 DEF IInv, Typed, EndCat
  <2>2. Remains'
    BY <1>1, <1>3, QuietRemains DEF IInv, EndCat
  <2>3. Piping'
    BY <1>1, <1>3, EndKeepsPiping DEF IInv
  <2> QED
    BY <2>1, <2>2, <2>3 DEF IInv
<1> QED
  BY <1>2, <1>3 DEF Write

LEMMA ChildIInv == IInv /\ Child => IInv'
<1> SUFFICES ASSUME IInv, Child PROVE IInv'
  OBVIOUS
<1>1. CASE Plumbing
  <2>1. Typed' /\ Piping'
    BY <1>1 DEF Plumbing, input, IInv, Typed, Piping, CatEnded
  <2>2. Remains'
    BY <1>1, QuietRemains DEF Plumbing, input, IInv
  <2> QED
    BY <2>1, <2>2 DEF IInv
<1>2. CASE Exec
  <2>1. Typed'
    BY <1>2 DEF Exec, EndCat, input, IInv, Typed
  <2>2. Remains'
    BY <1>2, QuietRemains DEF Exec, EndCat, input, IInv
  <2>3. Piping'
    BY <1>2, EndKeepsPiping DEF Exec, input, IInv, Piping, CatEnded
  <2> QED
    BY <2>1, <2>2, <2>3 DEF IInv
<1>3. CASE (Open \/ ReadEnds) /\ UNCHANGED parent
  <2>1. Typed'
    BY <1>3 DEF Open, ReadEnds, EndCat, input, IInv, Typed
  <2>2. Remains'
    BY <1>3, QuietRemains DEF Open, ReadEnds, EndCat, input, IInv
  <2>3. Piping'
    BY <1>3, EndKeepsPiping DEF Open, ReadEnds, input, IInv, Piping, CatEnded
  <2> QED
    BY <2>1, <2>2, <2>3 DEF IInv
<1> QED
  BY <1>1, <1>2, <1>3, ReadIInv, WriteIInv DEF Child, Mycat

\* The parent learns from the end of the pipe that the child has ended, and from
\* an empty pipe that it has written nothing.
LEMMA ParentIInv == IInv /\ Parent => IInv'
<1> SUFFICES ASSUME IInv, Parent PROVE IInv'
  OBVIOUS
<1>1. UNCHANGED input /\ (cat' = cat \/ cat' = "done")
  BY DEF Parent, Fork, Close, ReadPipe, Wait, PrintCounts, catVars
<1>2. Typed'
  BY <1>1 DEF Parent, Fork, Close, ReadPipe, Wait, PrintCounts, input, IInv, Typed
<1>3. Remains'
  BY <1>1, QuietRemains DEF input, IInv
<1>4. Piping'
  <2>1. CASE Fork
    BY <2>1 DEF Fork, input, IInv, Piping, CatEnded
  <2>2. CASE Close
    BY <2>2 DEF Close, input, IInv, Piping, CatEnded
  <2>3. CASE ReadPipe
    BY <2>3 DEF ReadPipe, input, IInv, Piping, CatEnded
  <2>4. CASE Wait
    BY <2>4 DEF Wait, catVars, input, IInv, Piping, CatEnded
  <2>5. CASE PrintCounts
    BY <2>5 DEF PrintCounts, input, IInv, Piping, CatEnded
  <2> QED
    BY <2>1, <2>2, <2>3, <2>4, <2>5 DEF Parent
<1> QED
  BY <1>2, <1>3, <1>4 DEF IInv

LEMMA NextIInv == IInv /\ [Next]_vars => IInv'
<1> SUFFICES ASSUME IInv, UNCHANGED vars PROVE IInv'
  BY ChildIInv, ParentIInv DEF Next
<1>1. Typed' /\ Piping'
  BY DEF vars, catVars, input, IInv, Typed, Piping, CatEnded
<1>2. Remains'
  BY QuietRemains DEF vars, catVars, input, IInv
<1> QED
  BY <1>1, <1>2 DEF IInv

\* The invariant of mycat and mywc together.
THEOREM SpecIInv == Spec => []IInv
BY InitIInv, NextIInv, PTL DEF Spec

-----------------------------------------------------------------------------

\* mycat writes each block of any input once and in order, at the front of a
\* whole buffer, behind which come old bytes of the input or zeros.
THEOREM CatWritesAsRead == Spec => []WrittenAsRead
<1>1. IInv => WrittenAsRead
  BY DEF IInv, Remains, WrittenAsRead, Last, Reached, Left
<1> QED
  BY <1>1, SpecIInv, PTL

\* When mywc prints its counts of zero, mycat has ended and has written nothing,
\* for any input and whether fork, exec or open fails or not.
THEOREM CountsAreTrue == Spec => []PrintedIsTrue
<1>1. IInv => PrintedIsTrue
  BY DEF IInv, Piping, PrintedIsTrue
<1> QED
  BY <1>1, SpecIInv, PTL

-----------------------------------------------------------------------------
(* Progress.  Neither process waits for the other in vain, and both have   *)
(* only so much to do.                                                     *)

\* What is in the pipe, and who holds its ends.
Holders ==
  /\ pipe \in Seq(Buffers)
  /\ parent = "fork" => /\ cat = "born"
                        /\ writers = {"parent"} /\ readers = {"parent"}
  /\ writers \subseteq {"parent", "child"} /\ readers \subseteq {"parent", "child"}
  /\ "parent" \in writers => parent \in {"fork", "close"}
  /\ "parent" \in readers => parent \notin {"done", "returned"}
  /\ "child" \in writers  => ~ CatEnded
  /\ "child" \in readers  => cat = "born"

\* mywc, or its child, is in a call that blocks, or has ended.
ParentBlocked == \/ parent = "read" /\ pipe = <<>> /\ writers # {}
                 \/ parent = "wait" /\ ~ CatEnded
                 \/ parent \in {"done", "returned"}

ChildBlocked == \/ cat = "born" /\ parent = "fork"
                \/ cat = "write" /\ readers # {} /\ Len(pipe) >= Cap
                \/ CatEnded

\* They stop together only when both have ended.
NoDeadlock ==
  ParentBlocked /\ ChildBlocked => parent \in {"done", "returned"} /\ CatEnded

\* Blocked is what it says: no step of either is possible.
LEMMA BlockedIsStuck == Holders /\ ParentBlocked /\ ChildBlocked => ~ Next
<1> SUFFICES ASSUME Holders, ParentBlocked, ChildBlocked PROVE ~ Next
  OBVIOUS
<1>1. ~ Parent
  BY DEF ParentBlocked, Parent, Fork, Close, ReadPipe, Wait, PrintCounts
<1>2. ~ (Len(pipe) >= Cap /\ Len(pipe) < Cap)
  BY BufferAssumption DEF Holders
<1> QED
  BY <1>1, <1>2 DEF ChildBlocked, CatEnded, ParentBlocked, Next, Child, Plumbing,
                    Exec, Mycat, Open, Read, ReadEnds, Write

LEMMA InitHolders == Init => Holders
BY DEF Init, CatInit, Holders, CatEnded

\* A descriptor is closed by the process itself or by its end.
LEMMA NextHolders == IInv /\ Holders /\ [Next]_vars => Holders'
<1> SUFFICES ASSUME IInv, Holders, [Next]_vars PROVE Holders'
  OBVIOUS
<1>1. pipe' \in Seq(Buffers)
  <2>1. pipe \in Seq(Buffers) /\ buffer \in Buffers
    BY DEF IInv, Typed, Holders
  <2>2. /\ Append(pipe, buffer) \in Seq(Buffers)
        /\ pipe # <<>> => Tail(pipe) \in Seq(Buffers)
    BY <2>1
  <2>3. \/ pipe' = pipe \/ pipe' = Append(pipe, buffer)
        \/ pipe # <<>> /\ pipe' = Tail(pipe)
    <3>1. CASE Child
      BY <3>1 DEF Child, Mycat, Plumbing, Exec, Open, Read, ReadEnds, Write
    <3>2. CASE Parent
      BY <3>2 DEF Parent, Fork, Close, ReadPipe, Wait, PrintCounts, catVars
    <3>3. CASE UNCHANGED vars
      BY <3>3 DEF vars, catVars
    <3> QED
      BY <3>1, <3>2, <3>3 DEF Next
  <2> QED
    BY <2>1, <2>2, <2>3
<1> USE DEF Holders, CatEnded
<1>2. CASE Plumbing
  BY <1>1, <1>2 DEF Plumbing
<1>3. CASE Exec
  BY <1>1, <1>3 DEF Exec, EndCat
<1>4. CASE (Open \/ Read \/ ReadEnds) /\ UNCHANGED parent
  BY <1>1, <1>4 DEF Open, Read, ReadEnds, EndCat
<1>5. CASE Write /\ UNCHANGED parent
  BY <1>1, <1>5 DEF Write, EndCat
<1>6. CASE Fork
  BY <1>1, <1>6 DEF Fork
<1>7. CASE Close
  BY <1>1, <1>7 DEF Close
<1>8. CASE ReadPipe
  BY <1>1, <1>8 DEF ReadPipe
<1>9. CASE Wait \/ PrintCounts
  BY <1>1, <1>9 DEF Wait, PrintCounts, catVars
<1>10. CASE UNCHANGED vars
  BY <1>1, <1>10 DEF vars, catVars
<1> QED
  BY <1>2, <1>3, <1>4, <1>5, <1>6, <1>7, <1>8, <1>9, <1>10
     DEF Next, Child, Mycat, Parent

\* Everybody has closed the ends that the others wait for: the parent meets the
\* end of the pipe when mycat has ended, and a mycat with a full pipe, whose
\* reader has returned, is killed.
LEMMA HoldersNoDeadlock == IInv /\ Holders => NoDeadlock
<1> SUFFICES ASSUME IInv, Holders, ParentBlocked, ChildBlocked
             PROVE  parent \in {"done", "returned"} /\ CatEnded
  BY DEF NoDeadlock
<1>1. CASE parent = "read"
  <2>1. pipe = <<>> /\ "child" \in writers
    BY <1>1 DEF ParentBlocked, Holders
  <2>2. cat = "write" /\ Len(pipe) >= Cap
    BY <1>1, <2>1 DEF ChildBlocked, Holders
  <2> QED
    BY <2>1, <2>2, BufferAssumption
<1>2. CASE parent = "wait"
  BY <1>2 DEF ParentBlocked, IInv, Piping
<1>3. CASE parent \in {"done", "returned"}
  <2>1. cat = "write" => readers = {}
    BY <1>3 DEF Holders
  <2> QED
    BY <1>3, <2>1 DEF ChildBlocked
<1> QED
  BY <1>1, <1>2, <1>3 DEF ParentBlocked

\* The parent never waits for ever for the end of a pipe that it keeps open
\* itself, nor a child for room in a pipe that nobody will read, for any input,
\* any size of the buffer and of the pipe, whatever fails.
THEOREM NeverBlocked == Spec => []NoDeadlock
<1>1. Spec => []Holders
  BY SpecIInv, InitHolders, NextHolders, PTL DEF Spec
<1> QED
  BY <1>1, SpecIInv, HoldersNoDeadlock, PTL

\* What the parent and the child have still to do.
ParentLeft == CASE parent = "fork"  -> 5
                [] parent = "close" -> 4
                [] parent = "read"  -> 3
                [] parent = "wait"  -> 2
                [] parent = "print" -> 1
                [] parent \in {"done", "returned"} -> 0

ChildLeft == CASE cat = "born"  -> 2 * Len(left) + 4
               [] cat = "exec"  -> 2 * Len(left) + 3
               [] cat = "open"  -> 2 * Len(left) + 2
               [] cat = "read"  -> 2 * Len(left) + 1
               [] cat = "write" -> 2 * Len(left) + 2
               [] CatEnded      -> 0

Bounded == ParentLeft \in Nat /\ ChildLeft \in Nat

\* A step leaves one of them less to do, and neither more.
LessToDo == /\ ParentLeft' <= ParentLeft
            /\ ChildLeft' <= ChildLeft
            /\ ParentLeft' < ParentLeft \/ ChildLeft' < ChildLeft

\* What is left to do is a number.
LEMMA LeftTypes == IInv => Bounded
<1> SUFFICES ASSUME IInv PROVE Bounded
  OBVIOUS
<1>1. Len(left) \in Nat
  BY DEF IInv, Typed
<1> QED
  BY <1>1 DEF IInv, Typed, Bounded, ParentLeft, ChildLeft, CatEnded

\* A block that is read is at least one byte.
LEMMA ReadShortens == IInv /\ Read => Len(left') \in Nat /\ Len(left') < Len(left)
<1> SUFFICES ASSUME IInv, Read PROVE Len(left') \in Nat /\ Len(left') < Len(left)
  OBVIOUS
<1>1. PICK n \in 1..Min({BUFFER_SIZE, Len(left)}) : left' = SubSeq(left, n + 1, Len(left))
  BY DEF Read
<1>2. left \in Seq(Bytes) /\ Len(left) \in Nat /\ {BUFFER_SIZE, Len(left)} \in SUBSET Nat
  BY BufferAssumption DEF IInv, Typed
<1>3. Min({BUFFER_SIZE, Len(left)}) \in Nat /\ Min({BUFFER_SIZE, Len(left)}) <= Len(left)
  BY <1>2, MinOfNats
<1>4. n \in Nat /\ n >= 1 /\ n <= Len(left)
  BY <1>2, <1>3
<1> QED
  BY <1>1, <1>2, <1>4

\* Each process has so much to do and no more, and every step is some of it: with
\* NeverBlocked, both end if whoever can go on does.
THEOREM BothGoForward == Spec => []Bounded /\ [][LessToDo]_vars
<1>1. ASSUME IInv, Child PROVE LessToDo
  <2>1. ParentLeft' = ParentLeft /\ ParentLeft \in Nat
    BY <1>1, LeftTypes DEF Child, Plumbing, Exec, ParentLeft, Bounded
  <2>2. ChildLeft' < ChildLeft /\ ChildLeft' <= ChildLeft
    <3>1. Len(left) \in Nat
      BY <1>1 DEF IInv, Typed
    <3>2. CASE Plumbing
      BY <3>1, <3>2 DEF Plumbing, input, ChildLeft, CatEnded
    <3>3. CASE Exec
      BY <3>1, <3>3 DEF Exec, EndCat, input, ChildLeft, CatEnded
    <3>4. CASE Open
      BY <3>1, <3>4 DEF Open, EndCat, input, ChildLeft, CatEnded
    <3>5. CASE Read
      <4>1. cat = "read" /\ cat' = "write"
        BY <3>5 DEF Read
      <4> QED
        BY <1>1, <3>1, <3>5, <4>1, ReadShortens DEF ChildLeft, CatEnded
    <3>6. CASE ReadEnds
      BY <3>1, <3>6 DEF ReadEnds, EndCat, input, ChildLeft, CatEnded
    <3>7. CASE Write
      BY <3>1, <3>7 DEF Write, EndCat, ChildLeft, CatEnded
    <3> QED
      BY <1>1, <3>2, <3>3, <3>4, <3>5, <3>6, <3>7 DEF Child, Mycat
  <2> QED
    BY <2>1, <2>2 DEF LessToDo
<1>2. ASSUME IInv, Parent PROVE LessToDo
  <2>1. Len(left) \in Nat
    BY <1>2 DEF IInv, Typed
  <2>2. ChildLeft' <= ChildLeft
    <3>1. left' = left /\ (cat' = cat \/ cat' = "done")
      BY <1>2 DEF Parent, Fork, Close, ReadPipe, Wait, PrintCounts, catVars, input
    <3>2. ChildLeft \in Nat
      BY <1>2, LeftTypes DEF Bounded
    <3>3. cat' = cat => ChildLeft' = ChildLeft
      BY <3>1 DEF ChildLeft, CatEnded
    <3>4. cat' = "done" => ChildLeft' = 0
      BY DEF ChildLeft, CatEnded
    <3> QED
      BY <3>1, <3>2, <3>3, <3>4
  <2>3. ParentLeft' < ParentLeft /\ ParentLeft' <= ParentLeft
    BY <1>2 DEF Parent, Fork, Close, ReadPipe, Wait, PrintCounts, ParentLeft
  <2> QED
    BY <2>2, <2>3 DEF LessToDo
<1>3. IInv /\ [Next]_vars => [LessToDo]_vars
  BY <1>1, <1>2 DEF Next
<1> QED
  BY SpecIInv, LeftTypes, <1>3, PTL DEF Spec
=============================================================================
