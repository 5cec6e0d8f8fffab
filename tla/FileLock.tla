-------------------------------- MODULE FileLock --------------------------------
(***************************************************************************)
(* The lock file of AsyncFileLock in core/FileLock.ts, as processes of one  *)
(* host use it: each step is a call of the file system that other processes *)
(* may come between. A file keeps its identity when it is renamed; the      *)
(* token in it is that identity.                                           *)
(***************************************************************************)
EXTENDS Integers

CONSTANTS
  Pids,      \* the processes, each with a pid of its own
  MaxFiles   \* bound: lock files created

Files == 1..MaxFiles
None == 0

VARIABLES
  pc,     \* what each process is doing
  path,   \* the file at lockPath, or None
  copy,   \* the file that a cleaner has renamed to its salvage name, or None
  file,   \* of each file: its creator, whether pid and token are written,
          \* whether LOCK_STALE_MS is over
  mine    \* this.token: the file that a process created last

vars == <<pc, path, copy, file, mine>>

File == [by : Pids \cup {None}, written : BOOLEAN, old : BOOLEAN]
Unused == [by |-> None, written |-> FALSE, old |-> FALSE]

TypeOK ==
  /\ pc \in [Pids -> {"idle", "opened", "held", "releasing", "judged", "moved",
                      "dead"}]
  /\ path \in Files \cup {None} /\ copy \in [Pids -> Files \cup {None}]
  /\ file \in [Files -> File] /\ mine \in [Pids -> Files \cup {None}]

\* A file that can be read is as stale as its creator; another one by its age.
Stale(f) == IF file[f].written THEN pc[file[f].by] = "dead" ELSE file[f].old

Goes(p, to) == pc' = [pc EXCEPT ![p] = to]

\* open with O_CREAT and O_EXCL.
Create(p) ==
  /\ pc[p] = "idle" /\ path = None
  /\ \E f \in Files :
       /\ file[f] = Unused /\ \A g \in Files : g < f => file[g] # Unused
       /\ file' = [file EXCEPT ![f].by = p]
       /\ path' = f /\ mine' = [mine EXCEPT ![p] = f]
  /\ Goes(p, "opened")
  /\ UNCHANGED copy

\* The write goes to the file wherever it is by now.
Write(p) ==
  /\ pc[p] = "opened"
  /\ file' = [file EXCEPT ![mine[p]].written = TRUE]
  /\ Goes(p, "held")
  /\ UNCHANGED <<path, copy, mine>>

\* lockFileOwnedBy of release; else the lock is given up without a trace.
Release(p) ==
  /\ pc[p] = "held"
  /\ Goes(p, IF path = mine[p] THEN "releasing" ELSE "idle")
  /\ UNCHANGED <<path, copy, file, mine>>

Unlink(p) ==
  /\ pc[p] = "releasing"
  /\ path' = None /\ Goes(p, "idle")
  /\ UNCHANGED <<copy, file, mine>>

\* tryCleanStaleLock up to the rename.
Judge(p) ==
  /\ pc[p] = "idle" /\ path # None /\ Stale(path)
  /\ Goes(p, "judged")
  /\ UNCHANGED <<path, copy, file, mine>>

\* The rename to the salvage name takes the file that is there now.
Move(p) ==
  /\ pc[p] = "judged"
  /\ copy' = [copy EXCEPT ![p] = path] /\ path' = None
  /\ Goes(p, IF path = None THEN "idle" ELSE "moved")
  /\ UNCHANGED <<file, mine>>

\* The second judgement: the copy is deleted, or renamed back over whatever is
\* at lockPath.
Settle(p) ==
  /\ pc[p] = "moved"
  /\ path' = IF Stale(copy[p]) THEN path ELSE copy[p]
  /\ copy' = [copy EXCEPT ![p] = None] /\ Goes(p, "idle")
  /\ UNCHANGED <<file, mine>>

\* The salvage file of a cleaner that dies is nobody's.
Crash(p) ==
  /\ pc[p] # "dead" /\ Goes(p, "dead")
  /\ copy' = [copy EXCEPT ![p] = None]
  /\ UNCHANGED <<path, file, mine>>

\* Five minutes pass over a file whose creator died before it wrote.
Age(f) ==
  /\ file[f].by # None /\ pc[file[f].by] = "dead" /\ ~file[f].old
  /\ file' = [file EXCEPT ![f].old = TRUE]
  /\ UNCHANGED <<pc, path, copy, mine>>

Init ==
  /\ pc = [p \in Pids |-> "idle"] /\ path = None
  /\ copy = [p \in Pids |-> None]
  /\ file = [f \in Files |-> Unused] /\ mine = [p \in Pids |-> None]

Next ==
  \/ \E p \in Pids :
       \/ Create(p) \/ Write(p) \/ Release(p) \/ Unlink(p)
       \/ Judge(p) \/ Move(p) \/ Settle(p) \/ Crash(p)
  \/ \E f \in Files : Age(f)

Spec == Init /\ [][Next]_vars

-----------------------------------------------------------------------------
\* What the head of the source says of the lock: processes exclude each other.
MutualExclusion ==
  \A p, q \in Pids : pc[p] = "held" /\ pc[q] = "held" => p = q
=============================================================================
