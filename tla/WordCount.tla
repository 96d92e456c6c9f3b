------------------------------ MODULE WordCount -----------------------------
(***************************************************************************)
(* mywc/main.cpp with mycat as its command: the child's standard output is *)
(* a pipe that the parent reads.                                           *)
(*                                                                         *)
(* The braces after the test for -1 are missing: the parent returns after  *)
(* its first read that is not the end of the pipe, and the counting is     *)
(* never done.                                                             *)
(***************************************************************************)
EXTENDS Cat

VARIABLE parent     \* fork, close, read, wait, print, done or returned

vars == <<catVars, parent>>

Init == /\ CatInit
        /\ readers = {"parent"} /\ writers = {"parent"}
        /\ parent = "fork"

-----------------------------------------------------------------------------
(* The child before it is mycat.                                           *)

\* A child that keeps the read end of the pipe.
PlumbingOpen == /\ cat = "born" /\ parent # "fork"
                /\ cat' = "exec"
                /\ UNCHANGED <<input, pipe, readers, writers, parent>>
\* close(1), dup, close(pipefd[0]).
Plumbing == /\ cat = "born" /\ parent # "fork"
            /\ cat' = "exec"
            /\ readers' = readers \ {"child"}
            /\ UNCHANGED <<input, pipe, writers, parent>>

Exec == /\ cat = "exec"
        /\ \/ cat' = "open" /\ UNCHANGED <<readers, writers>>
           \/ EndCat("done")
        /\ UNCHANGED <<input, pipe, parent>>

Child == Plumbing \/ Exec \/ (Mycat /\ UNCHANGED parent)

-----------------------------------------------------------------------------
(* The parent.                                                             *)

\* A fork that fails has the parent go on alone.
Fork == /\ parent = "fork"
        /\ parent' = "close"
        /\ \/ /\ readers' = readers \cup {"child"} /\ writers' = writers \cup {"child"}
              /\ UNCHANGED cat
           \/ cat' = "done" /\ UNCHANGED <<readers, writers>>
        /\ UNCHANGED <<input, pipe>>

Close == /\ parent = "close"
         /\ parent' = "read"
         /\ writers' = writers \ {"parent"}
         /\ UNCHANGED <<cat, input, pipe, readers>>

\* A read that does not wait for a writer.
ReadPipeAtOnce == /\ parent = "read"
                  /\ IF pipe = <<>>
                     THEN parent' = "wait" /\ UNCHANGED <<pipe, readers>>
                     ELSE /\ parent' = "returned"
                          /\ pipe' = Tail(pipe)
                          /\ readers' = readers \ {"parent"}
                  /\ UNCHANGED <<cat, input, writers>>
ReadPipe == /\ parent = "read"
            /\ \/ /\ pipe # <<>>
                  /\ parent' = "returned"
                  /\ pipe' = Tail(pipe)
                  /\ readers' = readers \ {"parent"}
               \/ /\ pipe = <<>> /\ writers = {}
                  /\ parent' = "wait"
                  /\ UNCHANGED <<pipe, readers>>
            /\ UNCHANGED <<cat, input, writers>>

\* wait() returns also when there is no child.
Wait == /\ parent = "wait" /\ CatEnded
        /\ parent' = "print"
        /\ UNCHANGED catVars

PrintCounts == /\ parent = "print"
               /\ parent' = "done"
               /\ readers' = readers \ {"parent"}
               /\ UNCHANGED <<cat, input, pipe, writers>>

Parent == Fork \/ Close \/ ReadPipe \/ Wait \/ PrintCounts

Next == Parent \/ Child

Spec == Init /\ [][Next]_vars

\* Both processes are run.
FairSpec == Spec /\ WF_vars(Parent) /\ WF_vars(Child)

-----------------------------------------------------------------------------
(* Properties.                                                             *)

\* The counts, which are then all zero, are printed only when they are true: the
\* child has ended and has written nothing.
PrintedIsTrue == parent \in {"print", "done"} => CatEnded /\ written = <<>>

\* Both processes end: the parent does not wait for ever for the end of a pipe
\* of which a write end is still open, and a child that the parent has left alone
\* with a full pipe is not kept by a read end that is still open.
BothEnd == <>(parent \in {"done", "returned"} /\ CatEnded)
=============================================================================
