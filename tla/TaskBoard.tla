------------------------------- MODULE TaskBoard -------------------------------
(***************************************************************************)
(* core/TaskBoard.ts: the board of tasks of one session.                    *)
(*                                                                         *)
(* A board is a record [mem, rows, counter]: the in-memory Map `tasks`, the *)
(* rows of the database table `tasks`, and `taskCounter`. Every method of   *)
(* the class is an operator from a board to a board; the handlers that call *)
(* them are the actions of module TaskLifecycle. JavaScript runs a method   *)
(* to its end, so a method is one step; what happens between two methods    *)
(* separated by an await is modelled there.                                 *)
(*                                                                         *)
(* A cached task object and a row are not the same data. A row has one      *)
(* column run_generation and one column exit_reason. An object has the       *)
(* camel-case properties (gen, exit), which the methods assign, and the      *)
(* snake-case ones it was spread from (genCol, exitCol), which a write falls *)
(* back to when the former are undefined. So a method that clears exitReason *)
(* of an object that was read leaves the old exit_reason in its row.         *)
(***************************************************************************)
EXTENDS Integers, FiniteSets, DagScheduler

CONSTANTS
  MaxTasks,   \* bound: the number of task ids of a session
  Agents,     \* the names of the agents
  NoTask,     \* the absence of a task, in memory or in the database
  NoAgent     \* the empty string of assigned_agent

TaskId == 1..MaxTasks
NoGen  == -1

Statuses == {"dispatchable", "running", "terminal"}
Exits    == {"none", "completed", "failed", "cancelled"}

\* A row of the table `tasks`. `ext` says whether blocked_reason is set.
Row == [status : Statuses, exit : Exits, gen : Nat, deps : SUBSET TaskId,
        blocks : SUBSET TaskId, agent : Agents \cup {NoAgent}, ext : BOOLEAN]

\* A task object of the in-memory map; exit "none" is an undefined exitReason.
Entry == [status : Statuses, exit : Exits, exitCol : Exits,
          gen : Nat \cup {NoGen}, genCol : Nat, deps : SUBSET TaskId,
          blocks : SUBSET TaskId, agent : Agents \cup {NoAgent}, ext : BOOLEAN]

Board == [mem : [TaskId -> Entry \cup {NoTask}],
          rows : [TaskId -> Row \cup {NoTask}],
          counter : 0..MaxTasks]

ASSUME BoardAssumption ==
  /\ MaxTasks \in Nat \ {0}
  /\ NoAgent \notin Agents
  /\ NoTask \notin Row /\ NoTask \notin Entry

EmptyBoard == [mem |-> [t \in TaskId |-> NoTask],
               rows |-> [t \in TaskId |-> NoTask], counter |-> 0]

-----------------------------------------------------------------------------
(* Between an object and its row *)

\* The column exit_reason of a write: `exitReason ?? exit_reason`.
ExitColumn(o) == IF o.exit # "none" THEN o.exit ELSE o.exitCol

\* Mutant of Columns: the fallback to run_generation is forgotten.
ColumnsWithoutFallback(o) ==
  [status |-> o.status, exit |-> ExitColumn(o), gen |-> o.gen,
   deps   |-> o.deps, blocks |-> o.blocks, agent |-> o.agent, ext |-> o.ext]

\* What updateTask and insertTask write: `runGeneration ?? run_generation`.
Columns(o) ==
  [status |-> o.status, exit |-> ExitColumn(o),
   gen    |-> IF o.gen # NoGen THEN o.gen ELSE o.genCol,
   deps   |-> o.deps, blocks |-> o.blocks, agent |-> o.agent, ext |-> o.ext]

\* The object getTask builds: both spellings are set.
Normalized(r) ==
  [status |-> r.status, exit |-> r.exit, exitCol |-> r.exit,
   gen |-> r.gen, genCol |-> r.gen,
   deps |-> r.deps, blocks |-> r.blocks, agent |-> r.agent, ext |-> r.ext]

\* The object loadFromDB keeps: the row as it is, so runGeneration and
\* exitReason are undefined.
Raw(r) == [Normalized(r) EXCEPT !.gen = NoGen, !.exit = "none"]

Loaded(b, t) == b.mem[t] # NoTask
Cached(b)    == {t \in TaskId : Loaded(b, t)}

\* getTask: the row replaces the cached object; a missing row evicts it.
Read(b, t) ==
  [b EXCEPT !.mem[t] = IF b.rows[t] = NoTask THEN NoTask
                       ELSE Normalized(b.rows[t])]

\* persistTask, after the cached object of t became o.
Write(b, t, o) == [b EXCEPT !.mem[t] = o, !.rows[t] = Columns(o)]

\* rebuildBlocks: blocks is recomputed from blocked_by, in memory.
RebuildBlocks(mem) ==
  [t \in TaskId |->
     IF mem[t] = NoTask THEN NoTask
     ELSE [mem[t] EXCEPT !.blocks =
             {u \in TaskId : mem[u] # NoTask /\ t \in mem[u].deps}]]

\* bumpRunGeneration: an undefined generation counts as 0.
BumpRunGeneration(o) ==
  [o EXCEPT !.gen = IF o.gen = NoGen THEN 1 ELSE o.gen + 1]

-----------------------------------------------------------------------------
(* Reading: buildReadSnapshot reads rows, never the cache *)

IsDependencySatisfied(b, d) ==
  /\ d \in TaskId
  /\ b.rows[d] # NoTask
  /\ b.rows[d].status = "terminal" /\ b.rows[d].exit = "completed"

\* isTaskReady; blocked_reason does not count here, the contract gate is open.
IsTaskReady(b, t) ==
  /\ b.rows[t] # NoTask
  /\ IsNodeReady(t, [u \in {t} |-> b.rows[u].deps],
                 LAMBDA n : b.rows[n].status = "dispatchable",
                 LAMBDA d : IsDependencySatisfied(b, d),
                 LAMBDA n : TRUE)

\* nextTaskId: the counter moves on over the ids the cache holds.
NextTaskId(b) ==
  {i \in TaskId : /\ i > b.counter /\ ~Loaded(b, i)
                  /\ \A j \in b.counter + 1 .. i - 1 : Loaded(b, j)}

-----------------------------------------------------------------------------
(* The life of a task *)

NewTask(D) ==
  [status |-> "dispatchable", exit |-> "none", exitCol |-> "none",
   gen |-> 0, genCol |-> 0, deps |-> D, blocks |-> {},
   agent |-> NoAgent, ext |-> FALSE]

\* The checks of createTask: every dependency is cached, and no cycle.
MayCreate(b, t, D) ==
  /\ ~Loaded(b, t)
  /\ t \notin D /\ D \subseteq Cached(b)
  /\ ~WouldCreateCycle(Cached(b), [u \in Cached(b) |-> b.mem[u].deps], t, D)

\* Mutant of CreateTask: the back links are not persisted.
CreateTaskAlone(b, t, D) ==
  [b EXCEPT !.mem = [u \in TaskId |->
                IF u = t THEN NewTask(D)
                ELSE IF u \in D THEN [b.mem[u] EXCEPT !.blocks = @ \cup {t}]
                ELSE b.mem[u]],
            !.rows[t] = Columns(NewTask(D))]

\* createTask: the dependencies get (and persist) the back link first, then
\* the row of t is inserted.
CreateTask(b, t, D) ==
  LET linked == [u \in TaskId |->
        IF u = t THEN NewTask(D)
        ELSE IF u \in D THEN [b.mem[u] EXCEPT !.blocks = @ \cup {t}]
        ELSE b.mem[u]]
  IN  [b EXCEPT !.mem = linked,
                !.rows = [u \in TaskId |->
                    IF u = t \/ (u \in D /\ t \notin b.mem[u].blocks)
                    THEN Columns(linked[u]) ELSE b.rows[u]]]

\* The boards that nextTaskId followed by createTask leads to.
CreateNext(b, D) ==
  {[CreateTask(b, i, D) EXCEPT !.counter = i] :
     i \in {j \in NextTaskId(b) : MayCreate(b, j, D)}}

\* updateTask and deleteTask refuse a task that was dispatched or ended.
Editable(b, t) ==
  /\ Loaded(b, t)
  /\ b.mem[t].status = "dispatchable" /\ b.mem[t].agent = NoAgent

\* updateTask with blocked_by: no cycle check; every cached task is written.
UpdateDependencies(b, t, D) ==
  LET mem == RebuildBlocks([b.mem EXCEPT ![t].deps = D \ {t}])
  IN  [b EXCEPT !.mem = mem,
                !.rows = [u \in TaskId |-> IF mem[u] = NoTask THEN b.rows[u]
                                           ELSE Columns(mem[u])]]

\* Mutant of DeleteTask: the dependents are not written.
DeleteTaskAlone(b, t) ==
  LET rest == [b.mem EXCEPT ![t] = NoTask]
  IN  [b EXCEPT !.mem = RebuildBlocks(
                    [u \in TaskId |-> IF rest[u] = NoTask THEN NoTask
                       ELSE [rest[u] EXCEPT !.deps = @ \ {t}]]),
                !.rows[t] = NoTask]

\* deleteTask: cached dependents drop the dependency and are written.
DeleteTask(b, t) ==
  LET rest     == [b.mem EXCEPT ![t] = NoTask]
      affected == {u \in TaskId : rest[u] # NoTask /\ t \in rest[u].deps}
      mem      == RebuildBlocks(
                    [u \in TaskId |-> IF u \in affected
                       THEN [rest[u] EXCEPT !.deps = @ \ {t}] ELSE rest[u]])
  IN  [b EXCEPT !.mem = mem,
                !.rows = [u \in TaskId |-> IF u = t THEN NoTask
                                           ELSE IF u \in affected
                                           THEN Columns(mem[u])
                                           ELSE b.rows[u]]]

\* CORE_TASK_TRANSITIONS, with validateCoreTaskTransition's from = to.
TransitionAllowed(from, to) ==
  \/ from = to
  \/ from = "dispatchable" /\ to \in {"running", "terminal"}
  \/ from = "running" /\ to \in {"terminal", "dispatchable"}

\* updateTaskStatus. A repeated status writes only when it carries a result.
\* The propagation to dependents derives the status they already have. Where
\* the code would throw (a transition that is not allowed) the board stays as
\* it is; no handler gets there: the status is terminal, or running for a
\* dispatchable task.
UpdateTaskStatus(b, t, status, exit, hasResult) ==
  IF ~Loaded(b, t) THEN b
  ELSE IF b.mem[t].status = status /\ b.mem[t].exit = exit
  THEN IF hasResult THEN Write(b, t, b.mem[t]) ELSE b
  ELSE IF ~TransitionAllowed(b.mem[t].status, status) THEN b
  ELSE Write(b, t, [b.mem[t] EXCEPT !.status = status, !.exit = exit])

\* assignTask: throws on a terminal task, before any change.
AssignTask(b, t, a) ==
  IF ~Loaded(b, t) \/ ~TransitionAllowed(b.mem[t].status, "running") THEN b
  ELSE Write(b, t, BumpRunGeneration(
         [b.mem[t] EXCEPT !.agent = a, !.status = "running", !.exit = "none"]))

\* Mutants of PrepareForRedispatch: the generation is kept; the row is not
\* written.
RedispatchSameRun(b, t) ==
  IF ~Loaded(b, t) THEN b
  ELSE Write(b, t, [b.mem[t] EXCEPT !.agent = NoAgent, !.exit = "none",
                                    !.ext = FALSE, !.status = "dispatchable"])

RedispatchInMemory(b, t) ==
  IF ~Loaded(b, t) THEN b
  ELSE [b EXCEPT !.mem[t] = BumpRunGeneration(
         [b.mem[t] EXCEPT !.agent = NoAgent, !.exit = "none", !.ext = FALSE,
                          !.status = "dispatchable"])]

\* prepareTaskForRedispatch: from any status, the terminal ones included.
PrepareForRedispatch(b, t) ==
  IF ~Loaded(b, t) THEN b
  ELSE Write(b, t, BumpRunGeneration(
         [b.mem[t] EXCEPT !.agent = NoAgent, !.exit = "none", !.ext = FALSE,
                          !.status = "dispatchable"]))

\* blockTask: a task waiting for an external condition.
BlockTask(b, t) ==
  IF ~Loaded(b, t) \/ b.mem[t].status = "terminal" THEN b
  ELSE Write(b, t, BumpRunGeneration(
         [b.mem[t] EXCEPT !.agent = NoAgent, !.exit = "none", !.ext = TRUE,
                          !.status = "dispatchable"]))

\* reopenTask: only a task that ended otherwise than completed.
ReopenTask(b, t) ==
  IF ~Loaded(b, t) \/ b.mem[t].status # "terminal" \/ b.mem[t].exit = "completed"
  THEN b
  ELSE Write(b, t, BumpRunGeneration(
         [b.mem[t] EXCEPT !.agent = NoAgent, !.exit = "none",
                          !.status = "dispatchable"]))

\* cancelTask, first half: the row of t is written, with its blocks emptied.
CancelTask(b, t) ==
  Write(b, t, [b.mem[t] EXCEPT !.status = "terminal", !.exit = "cancelled",
                               !.blocks = {}])

\* Mutant of ReleaseDependents: the dependents are released in memory only.
ReleaseInMemory(b, t, oldBlocks) ==
  [b EXCEPT !.mem = [u \in TaskId |->
     IF u \in oldBlocks /\ Loaded(b, u)
     THEN [b.mem[u] EXCEPT !.deps = @ \ {t}] ELSE b.mem[u]]]

\* cancelTask, second half: every cached task of the old blocks drops the
\* dependency. Listeners of task:cancelled run between the two.
ReleaseDependents(b, t, oldBlocks) ==
  LET released == {u \in oldBlocks : Loaded(b, u) /\ t \in b.mem[u].deps}
      mem == [u \in TaskId |-> IF u \in released
                THEN [b.mem[u] EXCEPT !.deps = @ \ {t}] ELSE b.mem[u]]
  IN  [b EXCEPT !.mem = mem,
                !.rows = [u \in TaskId |-> IF u \in released
                            THEN Columns(mem[u]) ELSE b.rows[u]]]

\* evictStalledTerminalTasks unloads the old terminal tasks S.
Evict(b, S) ==
  [b EXCEPT !.mem = [t \in TaskId |-> IF t \in S THEN NoTask ELSE b.mem[t]]]

\* loadFromDB: taskCounter is set to the highest id of a row.
IsHighestId(b, n) ==
  /\ \A t \in TaskId : b.rows[t] # NoTask => t <= n
  /\ n \in {0} \cup {t \in TaskId : b.rows[t] # NoTask}

\* loadFromDB into the empty map of a new process; n is the highest id.
LoadFromDB(b, n) ==
  [mem |-> RebuildBlocks([t \in TaskId |->
             IF b.rows[t] = NoTask THEN NoTask ELSE Raw(b.rows[t])]),
   rows |-> b.rows, counter |-> n]

\* A method applied to several tasks in turn: each touches its own task only.
OnEach(b, S, Method(_, _)) ==
  [b EXCEPT !.mem  = [t \in TaskId |-> IF t \in S THEN Method(b, t).mem[t]
                                       ELSE b.mem[t]],
            !.rows = [t \in TaskId |-> IF t \in S THEN Method(b, t).rows[t]
                                       ELSE b.rows[t]]]

-----------------------------------------------------------------------------
\* To write the cached object of t again would change nothing in its row but
\* the back links. An object may lack an exit reason that the row keeps (a task
\* that was put back, or one that was just loaded); one it has is the row's.
CoherentAt(b, t) ==
  Loaded(b, t) =>
    /\ b.rows[t] # NoTask
    /\ [b.rows[t] EXCEPT !.blocks = {}] =
       [Columns(b.mem[t]) EXCEPT !.blocks = {}]

Coherent(b) == \A t \in TaskId : CoherentAt(b, t)
=============================================================================
