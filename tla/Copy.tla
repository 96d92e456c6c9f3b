-------------------------------- MODULE Copy --------------------------------
(***************************************************************************)
(* mycp/main.cpp: one call of mycp, beside others who create and remove    *)
(* files.  A file is an inode that a name leads to or not: an open file    *)
(* stays what it is when its name is taken away.                           *)
(*                                                                         *)
(* getFlags tests its flags with | instead of &: the first flag of a       *)
(* command line is taken for the second of its kind and EINVAL is returned *)
(* for the set of flags, in whose bits (22) verbose and interactive are    *)
(* set and forse is not.  The branches for forse are therefore never       *)
(* taken, and nothing is ever removed.                                     *)
(***************************************************************************)
EXTENDS Integers, Sequences, FiniteSets, FiniteSetsExt

CONSTANTS Commands,   \* the command lines: first flag, sources, target
          Names,      \* the names of files
          Dirs,       \* those of them that are directories
          Entry,      \* where a source goes in a directory
          Content,    \* what a file contains before the call: blocks
          Foreign,    \* a block that others write
          Cut,        \* what a short write leaves of a block
          EnvMax      \* how often others create or remove a file

ASSUME NamesAssumption   == IsFiniteSet(Names) /\ Dirs \subseteq Names
ASSUME EntryAssumption   == Entry \in [Names -> Names \ Dirs]
ASSUME CommandAssumption ==
  \A c \in Commands : /\ c.flag \in {"", "f", "i", "v", "?"}
                      /\ c.sources \in Seq(Names) /\ c.sources # <<>>
                      /\ c.target \in Names
ASSUME ContentAssumption == /\ Content \in [Names -> Seq(STRING)]
                            /\ Foreign \in STRING /\ Cut \in STRING
ASSUME BoundsAssumption  == EnvMax \in Nat

VARIABLES cmd,      \* the command line
          pc,       \* where mycp is
          toDir,    \* whether it is in copyToDirectory
          errno,
          ind,      \* the source it is at
          sourse,   \* the open files
          dest,
          n_read,   \* blocks of the source that have been written
          newline,  \* whether the end of an answer's line is still to be read
          exit,     \* its result
          fs,       \* the files that names lead to
          data,     \* the contents of files
          opened,   \* history: the copies that were begun
          said,     \* history: the user's answers
          env       \* how often others have changed something

disk  == <<fs, data>>
files == <<sourse, dest, n_read>>
vars  == <<cmd, pc, toDir, errno, ind, files, newline, exit, disk, opened, said, env>>

None   == <<"none", 0>>
Inodes == Names \X (0..(EnvMax + 4))
PCs    == {"start", "open", "access", "ask", "truncate", "create", "read", "done"}
Errors == {"0", "ENOENT", "EINVAL", "EISDIR", "EEXIST", "EACCES", "EIO"}

\* The next file that is created under a name.
NewInode(name) == <<name, Min({k \in 1..(EnvMax + 4) : <<name, k>> \notin DOMAIN data})>>

\* The disk with a file more.
WithFile(i, contents) ==
  [j \in DOMAIN data \cup {i} |-> IF j = i THEN contents ELSE data[j]]

Init == /\ cmd \in Commands
        /\ pc = "start" /\ toDir = FALSE /\ errno = "0" /\ ind = 1
        /\ sourse = None /\ dest = None /\ n_read = 0
        /\ newline = FALSE /\ exit = "none"
        /\ \E present \in SUBSET Names :
             /\ Dirs \subseteq present
             /\ fs = [name \in Names |-> IF name \in present THEN <<name, 0>> ELSE None]
             /\ data = [i \in present \X {0} |-> Content[i[1]]]
        /\ opened = <<>> /\ said = {} /\ env = 0

-----------------------------------------------------------------------------
(* The names on the command line.                                          *)

\* getFlags, by the first flag.
GetFlags(flag) == IF flag = "" THEN {} ELSE {"verbose", "interactive"}

Interactive == "interactive" \in GetFlags(cmd.flag)
Source      == cmd.sources[ind]
DestName    == IF toDir THEN Entry[Source] ELSE cmd.target

-----------------------------------------------------------------------------
(* main, copyToFile, copyToDirectory.                                      *)

Goto(there) == pc' = there /\ UNCHANGED exit
Exit(error) == pc' = "done" /\ exit' = error

isDirectory(pathname) == pathname \in Dirs /\ fs[pathname] # None

\* Whatever stat() fails with, in isDirectory, stays in errno, and is the end of
\* copyToFile when it has opened its source.
LeftByStat(pathname) == {"EACCES", IF fs[pathname] = None THEN "ENOENT" ELSE "0"}

Start ==
  /\ pc = "start"
  /\ \/ cmd.flag = "?" /\ Exit("EINVAL") /\ UNCHANGED <<toDir, errno>>
     \/ /\ cmd.flag # "?" /\ isDirectory(cmd.target)
        /\ toDir' = TRUE
        /\ Goto("open") /\ UNCHANGED errno
     \/ /\ cmd.flag # "?"
        /\ errno' \in LeftByStat(cmd.target)
        /\ errno' = "EACCES" \/ ~ isDirectory(cmd.target)
        /\ IF Len(cmd.sources) = 1 THEN Goto("open") ELSE Exit("EINVAL")
        /\ UNCHANGED toDir
  /\ UNCHANGED <<cmd, ind, files, newline, disk, opened, said, env>>

Open ==
  /\ pc = "open"
  /\ \/ fs[Source] = None /\ Exit("ENOENT") /\ UNCHANGED <<sourse, n_read>>
     \/ fs[Source] # None /\ Exit("EACCES") /\ UNCHANGED <<sourse, n_read>>
     \/ /\ fs[Source] # None
        /\ sourse' = fs[Source] /\ n_read' = 0
        /\ IF errno = "0" THEN Goto("access") ELSE Exit(errno)
  /\ UNCHANGED <<cmd, toDir, errno, ind, dest, newline, disk, opened, said, env>>

Access ==
  /\ pc = "access"
  /\ Goto(CASE fs[DestName] = None                  -> "create"
            [] fs[DestName] # None /\ Interactive   -> "ask"
            [] fs[DestName] # None /\ ~ Interactive -> "truncate")
  /\ UNCHANGED <<cmd, toDir, errno, ind, files, newline, disk, opened, said, env>>

\* The answer is one character: what is read for a second question is the end of
\* the first answer's line.
Ask ==
  /\ pc = "ask"
  /\ \/ /\ ~ newline
        /\ \E response \in {"y", "n", "other"} :
             /\ CASE response = "y"     -> Goto("truncate")
                  [] response = "n"     -> Exit("0")
                  [] response = "other" -> Exit("EINVAL")
             /\ said' = said \cup {<<ind, response>>}
        /\ newline' = TRUE
     \/ newline /\ newline' = FALSE /\ Exit("EINVAL") /\ UNCHANGED said
  /\ UNCHANGED <<cmd, toDir, errno, ind, files, disk, opened, env>>

\* The copy to file i begins, with what its source contains until now.
Begin(i, made) ==
  /\ dest' = i
  /\ opened' = Append(opened, [sourse |-> sourse, was |-> data[sourse], dest |-> i,
                               made |-> made, short |-> FALSE])
  /\ Goto("read")

\* open() with O_TRUNC, of the file that the name leads to now.
Truncate ==
  /\ pc = "truncate"
  /\ \/ /\ Exit(IF fs[DestName] = None THEN "ENOENT"
                ELSE IF DestName \in Dirs THEN "EISDIR" ELSE "EACCES")
        /\ UNCHANGED <<dest, data, opened>>
     \/ /\ fs[DestName] # None /\ DestName \notin Dirs
        /\ data' = [data EXCEPT ![fs[DestName]] = <<>>]
        /\ Begin(fs[DestName], FALSE)
  /\ UNCHANGED <<cmd, toDir, errno, ind, sourse, n_read, newline, fs, said, env>>

\* An open() without O_EXCL.
CreateOrTruncate ==
  /\ pc = "create"
  /\ LET i == IF fs[DestName] = None THEN NewInode(DestName) ELSE fs[DestName]
     IN  /\ fs' = [fs EXCEPT ![DestName] = i]
         /\ data' = WithFile(i, <<>>)
         /\ Begin(i, i \notin DOMAIN data)
  /\ errno' = "0"
  /\ UNCHANGED <<cmd, toDir, ind, sourse, n_read, newline, said, env>>
\* open() with O_EXCL.
Create ==
  /\ pc = "create"
  /\ errno' = "0"
  /\ \/ /\ Exit(IF fs[DestName] = None THEN "EACCES" ELSE "EEXIST")
        /\ UNCHANGED <<dest, disk, opened>>
     \/ /\ fs[DestName] = None
        /\ LET i == NewInode(DestName)
           IN  /\ fs' = [fs EXCEPT ![DestName] = i]
               /\ data' = WithFile(i, <<>>)
               /\ Begin(i, TRUE)
  /\ UNCHANGED <<cmd, toDir, ind, sourse, n_read, newline, said, env>>

\* One turn of the copy loop: a block is read and written.  A write() that
\* returns less than it was given is not noticed.
CopyBlock ==
  /\ pc = "read" /\ sourse[1] \notin Dirs /\ n_read < Len(data[sourse])
  /\ LET block == data[sourse][n_read + 1]
     IN  \/ /\ data' = [data EXCEPT ![dest] = Append(@, block)]
            /\ UNCHANGED opened
         \/ /\ data' = [data EXCEPT ![dest] = Append(@, Cut)]
            /\ opened' = [opened EXCEPT ![Len(opened)].short = TRUE]
  /\ n_read' = n_read + 1
  /\ UNCHANGED <<cmd, pc, toDir, errno, ind, sourse, dest, newline, exit, fs, said, env>>

\* A failure that ends the loop as the end of the file does.
CopyFailsUnseen ==
  /\ pc = "read"
  /\ Exit("0")
  /\ UNCHANGED <<cmd, toDir, errno, ind, files, newline, disk, opened, said, env>>
\* read() or write() fails.
CopyFails ==
  /\ pc = "read"
  /\ Exit("EIO")
  /\ UNCHANGED <<cmd, toDir, errno, ind, files, newline, disk, opened, said, env>>

\* A directory can be opened and not be read.
ReadDirectory ==
  /\ pc = "read" /\ sourse[1] \in Dirs
  /\ Exit("EISDIR")
  /\ UNCHANGED <<cmd, toDir, errno, ind, files, newline, disk, opened, said, env>>

AtEnd == pc = "read" /\ sourse[1] \notin Dirs /\ n_read >= Len(data[sourse])

\* A loop that goes on when nothing is read.
EndOfFileUnseen == AtEnd /\ UNCHANGED vars
\* A loop over one argument too many.
EndOfFileOneTooMany ==
  /\ AtEnd
  /\ IF ind > Len(cmd.sources) THEN Exit("0") ELSE Goto("open")
  /\ ind' = ind + 1
  /\ UNCHANGED <<cmd, toDir, errno, files, newline, disk, opened, said, env>>
EndOfFile ==
  /\ AtEnd
  /\ \/ ind = Len(cmd.sources) /\ Exit("0") /\ UNCHANGED ind
     \/ ind < Len(cmd.sources) /\ Goto("open") /\ ind' = ind + 1
  /\ UNCHANGED <<cmd, toDir, errno, files, newline, disk, opened, said, env>>

Work == \/ Start \/ Open \/ Access \/ Ask \/ Truncate \/ Create \/ CopyBlock
        \/ ReadDirectory \/ EndOfFile

-----------------------------------------------------------------------------
(* The others.                                                             *)

Others ==
  /\ pc # "done" /\ env < EnvMax
  /\ env' = env + 1
  /\ \E name \in Names \ Dirs :
       \/ /\ fs[name] # None
          /\ fs' = [fs EXCEPT ![name] = None]
          /\ UNCHANGED data
       \/ /\ fs[name] = None
          /\ fs' = [fs EXCEPT ![name] = NewInode(name)]
          /\ data' = WithFile(NewInode(name), <<Foreign>>)
  /\ UNCHANGED <<cmd, pc, toDir, errno, ind, files, newline, exit, opened, said>>

Quiet == pc = "done" /\ UNCHANGED vars

Next == Work \/ CopyFails \/ Others \/ Quiet

Spec == Init /\ [][Next]_vars

\* mycp is run, and the user answers; no failure is needed for the end.
FairSpec == Spec /\ WF_vars(Work)

-----------------------------------------------------------------------------
(* Properties.                                                             *)

TypeOK == /\ cmd \in Commands /\ pc \in PCs /\ toDir \in BOOLEAN
          /\ errno \in Errors /\ ind \in 1..Len(cmd.sources)
          /\ {sourse, dest} \subseteq Inodes \cup {None} /\ n_read \in Nat
          /\ newline \in BOOLEAN /\ exit \in Errors \cup {"none"}
          /\ fs \in [Names -> Inodes \cup {None}]
          /\ DOMAIN data \subseteq Inodes
          /\ env \in 0..EnvMax

\* When mycp returns 0 every target contains what its source did when the copy
\* was begun, whatever was in the target before, whatever others do to the names,
\* and whatever later copies do to the source.  The exceptions are a source to
\* whose target the user has said no, which also ends the call for those after it;
\* a write that was cut short; a target that a later source of the same call has
\* been copied to; and a file that is copied to itself, whose contents are lost.
ZeroMeansCopied ==
  exit = "0" =>
    /\ Len(opened) = Len(cmd.sources) \/ <<Len(opened) + 1, "n">> \in said
    /\ \A j \in 1..Len(opened) :
         \/ opened[j].short
         \/ \E k \in (j + 1)..Len(opened) : opened[k].dest = opened[j].dest
         \/ data[opened[j].dest] =
               IF opened[j].sourse = opened[j].dest THEN <<>> ELSE opened[j].was

\* With a flag mycp changes a file that it has not made itself only if the user
\* has agreed for this source, also when the file has appeared after access() has found none.
AskedFirst ==
  [][\A i \in DOMAIN data :
        data'[i] # data[i] /\ Interactive =>
           \/ <<ind, "y">> \in said
           \/ \E j \in 1..Len(opened) : opened[j].dest = i /\ opened[j].made]_vars

\* mycp comes to an end, also when source and target are the same file.
Ends == <>(pc = "done")
=============================================================================
