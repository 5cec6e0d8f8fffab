----------------------------- MODULE TaskLifecycle -----------------------------
(***************************************************************************)
(* The life of the tasks of one session: the handlers of the Leader's       *)
(* tools, of the dispatch path, of the agent pool, of fault recovery and of *)
(* session recovery, which all change the same TaskBoard.                   *)
(*                                                                         *)
(* The process is single threaded. An action is the part of a handler that  *)
(* runs without giving way; the awaits that matter (the wait for a slot,    *)
(* the back-off timer, the second of force_complete_task, a receipt on the  *)
(* bus) split a handler into two actions with the other handlers between.   *)
(***************************************************************************)
EXTENDS TaskBoard

CONSTANTS
  MaxGen,       \* bound: the run generations explored
  MaxReceipts,  \* bound: the messages workers send to the Leader
  MaxWorkers,   \* config.maxProjectWorkers of the scheduler
  MaxAttempts,  \* maxRecoveryAttempts
  Features      \* which of the environment's moves below are possible

\* edit_tools: the Leader edits and deletes tasks it has planned.
\* status_tool: the Leader sets a task failed or cancelled with update_task_status.
\* stop_commands: the user cancels tasks, the Leader forces their completion.
\* auto_retry: config.autoRetryRecoveries is on.
\* session_ttl: the session lives longer than TERMINAL_TASK_TTL_MS.
\* cancel_crash: the process may die between two row writes of a cancel.
\* respawn_throttle: respawnAgent may refuse because of its rate limit.
FeatureNames == {"edit_tools", "status_tool", "stop_commands", "auto_retry",
                 "session_ttl", "cancel_crash", "respawn_throttle"}

ASSUME LifecycleAssumption ==
  /\ {MaxGen, MaxReceipts, MaxWorkers, MaxAttempts} \subseteq Nat
  /\ Features \subseteq FeatureNames

VARIABLES
  board,      \* the TaskBoard and its rows
  pool,       \* AgentPool.agents, by name
  bucket,     \* UnifiedScheduler.runningWorkers of this session
  recs,       \* the recovery records of the database
  receipts,   \* task_complete and task_failed messages that were sent
  processed,  \* LeaderWorkOrchestrator._processedReceipts
  forcing     \* force_complete_task calls inside their one second wait

vars == <<board, pool, bucket, recs, receipts, processed, forcing>>

NoTaskId == 0

\* An AgentHandle. todo: the slot its wrapper waits for, or the respawn timer.
Handle == [status : {"none", "starting", "running", "stopped"},
           task : TaskId \cup {NoTaskId}, gen : Nat,
           todo : {"none", "slot", "backoff"}, lineage : Nat]

NoHandle == [status |-> "none", task |-> NoTaskId, gen |-> 0,
             todo |-> "none", lineage |-> 0]

\* A RuntimeRecoveryRecord, reduced to the branch that reconcile takes:
\* redispatch = worker_restart or worker_redispatch; takeover and exhausted =
\* leader_takeover, recovering or blocked; external = waiting_external.
RecoveryKinds == {"none", "redispatch", "takeover", "exhausted", "external"}
Record == [kind : RecoveryKinds, attempt : Nat]
NoRecord == [kind |-> "none", attempt |-> 0]

Receipt == [task : TaskId, gen : Nat, agent : Agents,
            exit : {"completed", "failed"}]

TypeOK ==
  /\ board \in Board
  /\ pool \in [Agents -> Handle]
  /\ bucket \subseteq TaskId
  /\ recs \in [TaskId -> Record]
  /\ receipts \subseteq Receipt
  /\ processed \subseteq receipts
  /\ forcing \subseteq TaskId \X Agents

-----------------------------------------------------------------------------
(* Helpers *)

Exists(b, t) == b.rows[t] # NoTask
Active(a) == pool[a].status \in {"starting", "running"}

\* isAgentRuntimeActiveStatus of the agent a row names.
OwnerActive(b, t) == b.rows[t].agent # NoAgent /\ Active(b.rows[t].agent)

\* The agents that forceStopAgent stops.
Stopped(S) ==
  [a \in Agents |-> IF a \in S THEN [pool[a] EXCEPT !.status = "stopped"]
                    ELSE pool[a]]

\* bindTaskRunGeneration, after the read of the task.
BoundGen(b, t, old) == IF Exists(b, t) THEN b.rows[t].gen ELSE old

\* handleTaskResult and handleTerminalTask may create an evaluator or a repair
\* task that depends on t, or find that none is due.
WithFollowUp(b, t) == {b} \cup CreateNext(b, {t})

WithinBound(b) == \A t \in TaskId : Exists(b, t) => b.rows[t].gen <= MaxGen

\* The board is at rest between two handlers.
BoardBecomes(b) == board' = b /\ WithinBound(b)

ReadAll(b, S) == OnEach(b, S, Read)

\* UnifiedScheduler.reconcile: the slots of ended or missing tasks.
LiveSlots(b) == {t \in bucket : Exists(b, t) /\ b.rows[t].status # "terminal"}

-----------------------------------------------------------------------------
(* The Leader's planning tools *)

\* create_task: nextTaskId, then createTask. A create that throws (an unknown
\* dependency, a cycle) has consumed the id.
CreateTaskTool(D) ==
  /\ \/ \E b \in CreateNext(board, D) : BoardBecomes(b)
     \/ \E i \in NextTaskId(board) : /\ ~MayCreate(board, i, D)
                                     /\ board' = [board EXCEPT !.counter = i]
  /\ UNCHANGED <<pool, bucket, recs, receipts, processed, forcing>>

\* update_task with blocked_by; the tool and the method check the same guard.
UpdateTaskTool(t, D) ==
  /\ "edit_tools" \in Features /\ Exists(board, t)
  /\ LET b == Read(board, t)
     IN  /\ Editable(b, t) /\ D \subseteq Cached(b)
         /\ BoardBecomes(UpdateDependencies(b, t, D))
  /\ UNCHANGED <<pool, bucket, recs, receipts, processed, forcing>>

DeleteTaskTool(t) ==
  /\ "edit_tools" \in Features /\ Exists(board, t)
  /\ LET b == Read(board, t)
     IN  Editable(b, t) /\ BoardBecomes(DeleteTask(b, t))
  /\ UNCHANGED <<pool, bucket, recs, receipts, processed, forcing>>

\* update_task_status with failed or cancelled; refused while the assigned
\* agent is active. No task event is emitted, so no slot is released.
UpdateTaskStatusTool(t, exit) ==
  /\ "status_tool" \in Features /\ exit \in {"failed", "cancelled"}
  /\ Exists(board, t)
  /\ ~OwnerActive(board, t)
  /\ LET b == Read(board, t)
         r == b.rows[t]
         begun == IF r.status = "dispatchable" /\ r.agent = NoAgent
                  THEN UpdateTaskStatus(b, t, "running", "none", FALSE) ELSE b
     IN  /\ ~(r.status = "terminal" /\ r.exit = exit)
         /\ BoardBecomes(UpdateTaskStatus(begun, t, "terminal", exit, TRUE))
  /\ UNCHANGED <<pool, bucket, recs, receipts, processed, forcing>>

\* A tool call, or any handler, that reads the task and returns early.
ReadTask(t) ==
  /\ BoardBecomes(Read(board, t))
  /\ UNCHANGED <<pool, bucket, recs, receipts, processed, forcing>>

-----------------------------------------------------------------------------
(* Dispatch: the tool, UnifiedScheduler, DispatchDecisionCoordinator *)

\* dispatch_agent, requestDispatch, dispatchScheduledTask and the first half
\* of runAgentWrapper, up to the wait for a slot.
Dispatch(t, a) ==
  LET read    == Read(board, t)
      b       == ReadAll(read, bucket)
      claimed == AssignTask(b, t, a)
  IN /\ Exists(board, t)
     /\ ~Active(a) /\ pool[a].todo # "slot"
     /\ IsTaskReady(b, t)
     /\ t \notin LiveSlots(b)
     /\ Cardinality(LiveSlots(b)) < MaxWorkers
     /\ bucket' = LiveSlots(b) \cup {t}
     /\ BoardBecomes(Read(claimed, t))
     /\ pool' = [pool EXCEPT ![a] =
                   [status |-> "starting", task |-> t, todo |-> "slot",
                    gen |-> claimed.rows[t].gen, lineage |-> 0]]
     /\ UNCHANGED <<recs, receipts, processed, forcing>>

\* A request that is refused has reconciled the slots first.
DispatchRefused(t) ==
  LET b == ReadAll(Read(board, t), bucket)
  IN /\ Exists(board, t) /\ IsTaskReady(b, t)
     /\ t \in LiveSlots(b) \/ Cardinality(LiveSlots(b)) >= MaxWorkers
     /\ BoardBecomes(b)
     /\ bucket' = LiveSlots(b)
     /\ UNCHANGED <<pool, recs, receipts, processed, forcing>>

\* The wrapper got its slot: dispatchAgent spawns the worker, whatever became
\* of the handle during the wait (stopped -> starting is a legal transition).
SlotGranted(a) ==
  LET t == pool[a].task
      b == Read(board, t)
  IN /\ pool[a].todo = "slot"
     /\ BoardBecomes(b)
     /\ pool' = [pool EXCEPT ![a].status = "running", ![a].todo = "none",
                             ![a].gen = BoundGen(b, t, pool[a].gen)]
     /\ recs' = [recs EXCEPT ![t] = NoRecord]
     /\ UNCHANGED <<bucket, receipts, processed, forcing>>

-----------------------------------------------------------------------------
(* What a worker reports: WorkerEventHandlerBinder and AgentPool *)

\* worker:complete (recordTaskResultPendingAcceptance) and the hard failures
\* (markAgentFailed): the row first, then the message to the Leader.
WorkerEnds(a, exit) ==
  LET t == pool[a].task
      b == Read(board, t)
      ended == UpdateTaskStatus(b, t, "terminal", exit, TRUE)
  IN /\ pool[a].status = "running"
     /\ IF Exists(b, t) /\ b.rows[t].status # "terminal"
        THEN /\ \E next \in WithFollowUp(ended, t) : BoardBecomes(next)
             /\ bucket' = bucket \ {t}
        ELSE BoardBecomes(b) /\ UNCHANGED bucket
     /\ pool' = Stopped({a})
     /\ recs' = [recs EXCEPT ![t] = NoRecord]
     /\ receipts' = receipts \cup
          {[task |-> t, gen |-> pool[a].gen, agent |-> a, exit |-> exit]}
     /\ Cardinality(receipts') <= MaxReceipts
     /\ UNCHANGED <<processed, forcing>>

\* classifyAutonomousFault and applyRecoveryAttemptBudget.
Budgeted(kind, attempt) ==
  IF kind # "external" /\ attempt >= MaxAttempts THEN "exhausted" ELSE kind

\* markRecovering for a crash, a timeout or a recoverable failure, with
\* maybeAutoRetry: the task is assigned to the same agent again at once, the
\* worker comes back when the timer fires.
WorkerCrash(a, class) ==
  LET t       == pool[a].task
      attempt == recs[t].attempt + 1
      kind    == Budgeted(class, attempt)
      b       == Read(board, t)
      retry   == /\ "auto_retry" \in Features /\ kind = "redispatch"
                 /\ Exists(b, t) /\ b.rows[t].status # "terminal"
      again   == AssignTask(Read(PrepareForRedispatch(b, t), t), t, a)
  IN /\ pool[a].status = "running"
     /\ class \in {"redispatch", "takeover", "external"}
     /\ recs' = [recs EXCEPT ![t] = [kind |-> kind, attempt |-> attempt]]
     /\ IF retry
        THEN /\ BoardBecomes(Read(again, t))
             /\ pool' = [pool EXCEPT
                           ![a].status = "stopped", ![a].todo = "backoff",
                           ![a].gen = again.rows[t].gen, ![a].lineage = attempt]
        ELSE /\ BoardBecomes(IF "auto_retry" \in Features /\ kind = "redispatch"
                             THEN b ELSE board)
             /\ pool' = [Stopped({a}) EXCEPT ![a].lineage = attempt]
     /\ UNCHANGED <<bucket, receipts, processed, forcing>>

\* respawnAgent from the back-off timer, up to the running worker. The timer
\* of a handle that was replaced by a new register does nothing.
RespawnTimer(a) ==
  LET t == pool[a].task
      b == Read(board, t)
  IN /\ pool[a].todo = "backoff" /\ pool[a].status = "stopped"
     /\ BoardBecomes(b)
     /\ pool' = [pool EXCEPT ![a].status = "running", ![a].todo = "none",
                             ![a].gen = BoundGen(b, t, pool[a].gen)]
     /\ recs' = [recs EXCEPT ![t] = NoRecord]
     /\ UNCHANGED <<bucket, receipts, processed, forcing>>

\* The respawn fails, or finds its handle running: markAutoRetryFailed puts
\* the task back and releases every handle that still claims it.
RespawnFails(a) ==
  LET t == pool[a].task
      b == Read(board, t)
      owned == /\ Exists(b, t) /\ b.rows[t].status # "terminal"
               /\ b.rows[t].status # "dispatchable" \/ b.rows[t].agent # NoAgent
      attempt == IF recs[t].kind = "none" THEN pool[a].lineage
                 ELSE recs[t].attempt
  IN /\ pool[a].todo = "backoff"
     /\ recs' = [recs EXCEPT ![t] = [kind |-> "takeover", attempt |-> attempt]]
     /\ BoardBecomes(IF owned THEN PrepareForRedispatch(b, t) ELSE b)
     /\ pool' = [Stopped({c \in Agents : pool[c].task = t /\ Active(c)})
                   EXCEPT ![a].todo = "none"]
     /\ UNCHANGED <<bucket, receipts, processed, forcing>>

-----------------------------------------------------------------------------
(* The Leader's control of agents, and the user's *)

\* retry_agent on a stopped agent: reopen, assign, respawn. Neither readiness
\* nor another owner of the task is looked at. With the rate limit of
\* respawnAgent, the respawn is refused after the task was assigned.
RetryAgent(a, throttled) ==
  LET t == pool[a].task
      b == Read(board, t)
      open  == Read(IF b.rows[t].status = "terminal" THEN ReopenTask(b, t)
                    ELSE b, t)
      owned == IF open.rows[t].status = "dispatchable" THEN AssignTask(open, t, a)
               ELSE open
      next  == IF throttled THEN owned ELSE Read(owned, t)
      mine  == open.rows[t].status = "dispatchable"
  IN /\ throttled => "respawn_throttle" \in Features
     /\ pool[a].status = "stopped" /\ pool[a].todo # "slot"
     /\ Exists(board, t)
     /\ ~(b.rows[t].status = "terminal" /\ b.rows[t].exit = "completed")
     /\ BoardBecomes(next)
     /\ IF throttled
        THEN /\ pool' = [pool EXCEPT
                           ![a].gen = IF mine THEN owned.rows[t].gen ELSE @]
             /\ UNCHANGED recs
        ELSE /\ pool' = [pool EXCEPT ![a].status = "running",
                                     ![a].gen = next.rows[t].gen]
             /\ recs' = [recs EXCEPT ![t] = NoRecord]
     /\ UNCHANGED <<bucket, receipts, processed, forcing>>

\* sendAgentInput to a stopped agent: a new task, assigned and spawned at once.
FollowUpMessage(a) ==
  LET source == Read(board, pool[a].task)
  IN /\ pool[a].status = "stopped" /\ pool[a].todo # "slot"
     /\ Exists(board, pool[a].task)
     /\ \E created \in CreateNext(source, {}) :
          LET t == created.counter
              b == AssignTask(created, t, a)
          IN /\ BoardBecomes(Read(b, t))
             /\ pool' = [pool EXCEPT ![a] =
                           [status |-> "running", task |-> t, todo |-> "none",
                            gen |-> b.rows[t].gen, lineage |-> 0]]
             /\ recs' = [recs EXCEPT ![t] = NoRecord]
     /\ UNCHANGED <<bucket, receipts, processed, forcing>>

\* terminate_agent: the handle's task is marked failed without a read, and no
\* task event is emitted.
TerminateAgent(a) ==
  /\ Active(a)
  /\ pool' = Stopped({a})
  /\ BoardBecomes(
       UpdateTaskStatus(board, pool[a].task, "terminal", "failed", FALSE))
  /\ UNCHANGED <<bucket, recs, receipts, processed, forcing>>

\* SessionManager.cancelTask, by the user: the assigned agent is stopped first.
CancelTaskCommand(t) ==
  LET b == Read(board, t)
      r == b.rows[t]
  IN /\ "stop_commands" \in Features
     /\ Exists(board, t) /\ r.status # "terminal"
     /\ pool' = Stopped(IF OwnerActive(b, t) THEN {r.agent} ELSE {})
     /\ \E mid \in WithFollowUp(CancelTask(b, t), t) :
          BoardBecomes(ReleaseDependents(mid, t, b.mem[t].blocks))
     /\ bucket' = bucket \ {t}
     /\ UNCHANGED <<recs, receipts, processed, forcing>>

\* force_complete_task: with an active agent it waits a second for it to stop,
\* else it completes the task at once.
ForceBegin(t) ==
  LET b == Read(board, t)
      r == b.rows[t]
      bound == IF r.agent # NoAgent THEN {r.agent} \cap {a \in Agents : Active(a)}
               ELSE {a \in Agents : pool[a].status = "running" /\ pool[a].task = t}
  IN /\ "stop_commands" \in Features
     /\ Exists(board, t) /\ r.status # "terminal"
     /\ IF bound = {}
        THEN /\ BoardBecomes(UpdateTaskStatus(b, t, "terminal", "completed", TRUE))
             /\ UNCHANGED forcing
        ELSE /\ BoardBecomes(b)
             /\ \E a \in bound : forcing' = forcing \cup {<<t, a>>}
     /\ UNCHANGED <<pool, bucket, recs, receipts, processed>>

\* After the second: the agent is stopped if it is active, on whatever task,
\* and the task is completed, whatever became of it.
ForceEnd(t, a) ==
  /\ <<t, a>> \in forcing
  /\ forcing' = forcing \ {<<t, a>>}
  /\ pool' = Stopped({a} \cap {c \in Agents : Active(c)})
  /\ BoardBecomes(UpdateTaskStatus(board, t, "terminal", "completed", TRUE))
  /\ UNCHANGED <<bucket, recs, receipts, processed>>

-----------------------------------------------------------------------------
(* The Leader reads a receipt: LeaderWorkOrchestrator.processWorkerTaskResult *)

\* Mutant of Passes: neither the repetition nor the conflict is looked for.
PassesAgain(b, r) ==
  /\ Exists(b, r.task)
  /\ b.rows[r.task].agent \in {NoAgent, r.agent}
  /\ r.gen = b.rows[r.task].gen

\* A receipt that passes the fences: the agent that owns the task, the current
\* generation, neither a repetition nor a conflicting verdict.
Passes(b, r) ==
  /\ Exists(b, r.task)
  /\ b.rows[r.task].agent \in {NoAgent, r.agent}
  /\ r.gen = b.rows[r.task].gen
  /\ \A p \in processed :
       ~(p.task = r.task /\ p.gen = r.gen /\ p.agent = r.agent)

\* The verdict: an accepted completion, a completion whose orchestration
\* verdict rejects it, a failure. Only the first and the last emit an event.
LeaderReceipt(r, accepted) ==
  LET t == r.task
      b == Read(board, t)
  IN /\ r \in receipts /\ Passes(b, r)
     /\ processed' = processed \cup {r}
     /\ \E judged \in WithFollowUp(b, t) :
          CASE r.exit = "failed" ->
                 /\ ~accepted
                 /\ \E next \in WithFollowUp(
                      UpdateTaskStatus(judged, t, "terminal", "failed", TRUE), t) :
                      BoardBecomes(next)
                 /\ bucket' = bucket \ {t}
            [] r.exit = "completed" /\ accepted ->
                 /\ BoardBecomes(
                      UpdateTaskStatus(judged, t, "terminal", "completed", TRUE))
                 /\ bucket' = bucket \ {t}
            [] OTHER ->
                 /\ BoardBecomes(PrepareForRedispatch(judged, t))
                 /\ UNCHANGED bucket
     /\ UNCHANGED <<pool, recs, receipts, forcing>>

-----------------------------------------------------------------------------
(* Recovery: RuntimeRecoveryController, ResumeManager, a new process *)

\* One record of RuntimeRecoveryController.reconcile, on the task read before.
ReconcileTask(b, t) ==
  LET read == Read(b, t)
      r    == read.rows[t]
      owned == r.agent # NoAgent \/ r.status # "dispatchable"
  IN IF r = NoTask \/ r.status = "terminal" THEN read
     ELSE CASE recs[t].kind = "external" /\ owned    -> BlockTask(read, t)
            [] recs[t].kind = "exhausted" /\ ~owned  -> BlockTask(read, t)
            [] recs[t].kind = "redispatch" /\ owned  -> PrepareForRedispatch(read, t)
            [] OTHER -> read

\* Mutant of ReconcileRecord: an assigned task drops whatever record it has.
ReconcileAnyRecord(b, t) ==
  LET r == b.rows[t]
  IN IF r = NoTask \/ r.status = "terminal" \/ r.agent # NoAgent THEN NoRecord
     ELSE recs[t]

\* The record is dropped when its task ended or is gone, and a blocked one
\* when the task is seen running under an agent again.
ReconcileRecord(b, t) ==
  LET r == b.rows[t]
      cleared == \/ r = NoTask
                 \/ r.status = "terminal"
                 \/ recs[t].kind = "exhausted" /\ r.status = "running"
                                               /\ r.agent # NoAgent
  IN IF cleared THEN NoRecord ELSE recs[t]

Reconcile ==
  LET S == {t \in TaskId : recs[t].kind # "none"}
  IN /\ S # {}
     /\ BoardBecomes(OnEach(board, S, ReconcileTask))
     /\ recs' = [t \in TaskId |-> IF t \in S THEN ReconcileRecord(board, t)
                                  ELSE recs[t]]
     /\ UNCHANGED <<pool, bucket, receipts, processed, forcing>>

\* buildRecoveredTasks: every task running under an agent, and those put back
\* whose agent left an interrupted state behind.
Recoverable(b, t) == Exists(b, t) /\ b.rows[t].status # "terminal"
MustRecover(b) == {t \in TaskId : Exists(b, t) /\ b.rows[t].status = "running"
                                               /\ b.rows[t].agent # NoAgent}
Recovered(b) ==
  {S \in SUBSET {t \in TaskId : Recoverable(b, t)} :
     /\ MustRecover(b) \subseteq S
     /\ \A t \in S : b.rows[t].status = "dispatchable" => b.rows[t].gen > 0}

Redispatched(b, t) == PrepareForRedispatch(Read(b, t), t)

\* ensureLeaderRunningForActionableMessage: a Leader that stopped runs again with
\* the recovered tasks of a process whose workers may well be alive.
LeaderWake ==
  /\ \E S \in Recovered(board) :
       S # {} /\ BoardBecomes(OnEach(board, S, Redispatched))
  /\ UNCHANGED <<pool, bucket, recs, receipts, processed, forcing>>

\* resumeSession in a new process: a task that was put back is first assigned
\* to the agent that worked on it (the name is overwritten at once), then every
\* recovered task is put back, as leader.run does it too.
Resumed(b, t) ==
  LET read == Read(b, t)
      mine == IF read.rows[t].status = "running" THEN read
              ELSE AssignTask(read, t, NoAgent)
  IN PrepareForRedispatch(Read(mine, t), t)

RestartFrom(b) ==
  /\ \E n \in 0..MaxTasks : IsHighestId(b, n) /\
       LET loaded == LoadFromDB(b, n)
       IN \E S \in Recovered(loaded) : BoardBecomes(OnEach(loaded, S, Resumed))
  /\ pool' = [a \in Agents |-> NoHandle]
  /\ bucket' = {} /\ receipts' = {} /\ processed' = {} /\ forcing' = {}
  /\ UNCHANGED recs

Restart == RestartFrom(board)

\* The process dies after the first row write of a cancel.
CrashInCancel(t) ==
  /\ "cancel_crash" \in Features
  /\ Exists(board, t) /\ board.rows[t].status # "terminal"
  /\ RestartFrom(CancelTask(Read(board, t), t))

\* evictStalledTerminalTasks, from the cleanup loop.
EvictTasks(S) ==
  /\ "session_ttl" \in Features
  /\ S # {} /\ \A t \in S : Loaded(board, t) /\ board.mem[t].status = "terminal"
  /\ board' = Evict(board, S)
  /\ UNCHANGED <<pool, bucket, recs, receipts, processed, forcing>>

-----------------------------------------------------------------------------
(* The specification *)

Init ==
  /\ board = EmptyBoard
  /\ pool = [a \in Agents |-> NoHandle]
  /\ bucket = {} /\ receipts = {} /\ processed = {} /\ forcing = {}
  /\ recs = [t \in TaskId |-> NoRecord]

Planning ==
  \/ \E D \in SUBSET TaskId : CreateTaskTool(D)
  \/ \E t \in TaskId :
       \/ \E D \in SUBSET TaskId : UpdateTaskTool(t, D)
       \/ DeleteTaskTool(t)
       \/ \E exit \in {"failed", "cancelled"} : UpdateTaskStatusTool(t, exit)
       \/ ReadTask(t)

Dispatching ==
  \/ \E t \in TaskId : DispatchRefused(t) \/ \E a \in Agents : Dispatch(t, a)
  \/ \E a \in Agents : SlotGranted(a)

Working ==
  \E a \in Agents :
    \/ \E exit \in {"completed", "failed"} : WorkerEnds(a, exit)
    \/ \E class \in {"redispatch", "takeover", "external"} : WorkerCrash(a, class)
    \/ RespawnTimer(a)
    \/ RespawnFails(a)

Controlling ==
  \/ \E a \in Agents :
       \/ \E throttled \in BOOLEAN : RetryAgent(a, throttled)
       \/ FollowUpMessage(a)
       \/ TerminateAgent(a)
       \/ \E t \in TaskId : ForceEnd(t, a)
  \/ \E t \in TaskId : CancelTaskCommand(t) \/ ForceBegin(t)

Judging == \E r \in receipts, accepted \in BOOLEAN : LeaderReceipt(r, accepted)

Recovering ==
  \/ Reconcile \/ LeaderWake \/ Restart
  \/ \E t \in TaskId : CrashInCancel(t)
  \/ \E S \in SUBSET TaskId : EvictTasks(S)

Next == Planning \/ Dispatching \/ Working \/ Controlling \/ Judging \/ Recovering

Spec == Init /\ [][Next]_vars

\* What the runtime owes to a task at work: a slot is handed over, a worker
\* ends, crashes or is ended by its watchdogs, a back-off timer fires. Each of
\* the three conditions enables the actions that end it as long as it holds
\* (SlotGranted; WorkerEnds and WorkerCrash; RespawnTimer and RespawnFails), so
\* this is their weak fairness, in a form that TLC evaluates on states.
Fairness ==
  \A a \in Agents :
    /\ []<>(pool[a].todo # "slot")
    /\ []<>(pool[a].status # "running")
    /\ []<>(pool[a].todo # "backoff")

FairSpec == Spec /\ Fairness

-----------------------------------------------------------------------------
(* What holds *)

\* No method changes a cached task and forgets its row: what the cached object
\* would write is what the row holds, but for the back links. Status, generation,
\* dependencies, owner and blocking that are read from the rows
\* (buildReadSnapshot) never contradict what the methods work on; nor does the
\* exit reason, except that a row keeps the one of the run before while its task
\* is open or running again.
CacheCoherent == Coherent(board)

\* The back links are complete: a task that waits for t is in the blocks of t,
\* in the row and in the cache, so that cancelling t finds it. Without a crash
\* in the middle of a cancel and within the life time of cached tasks.
BackLinksComplete ==
  \A t, u \in TaskId :
    (Exists(board, t) /\ Exists(board, u) /\ t \in board.rows[u].deps) =>
      /\ u \in board.rows[t].blocks
      /\ Loaded(board, t) => u \in board.mem[t].blocks

\* A verdict settles its run: once the Leader judged a receipt of generation g,
\* the task is ended, or at a later generation, or gone. Nobody (a timer, a
\* worker of the same run, a recovery, a restart) resumes the run that was judged.
VerdictSettlesRun ==
  \A p \in processed : LET row == board.rows[p.task] IN
    \/ row = NoTask
    \/ row.gen > p.gen
    \/ row.gen = p.gen /\ row.status = "terminal"

\* What one agent reports of one run is judged once, however often and in which
\* order its receipts arrive: repetitions and a contradicting receipt are dropped.
OneVerdictPerWorker ==
  \A p, q \in processed :
    (p.task = q.task /\ p.gen = q.gen /\ p.agent = q.agent) => p = q

\* A cancelled task releases every task that waited for it when the user
\* cancelled it (evaluators created by the cancel itself are not among them).
CancelReleases ==
  [][\A t, u \in TaskId :
       (CancelTaskCommand(t) /\ Exists(board, u)) =>
         t \notin board'.rows[u].deps]_vars

\* The rows, seen as the ledger of runs: generations only grow and a run that
\* ended is never resumed, through every handler, crash and reload.
LedgerEntry(r) ==
  IF r = NoTask THEN NoTask
  ELSE [gen |-> r.gen,
        life |-> CASE r.status = "dispatchable" -> "open"
                   [] r.status = "running" -> "running"
                   [] OTHER -> "done"]

\* The absence of a task is no more an entry than it is a row.
ASSUME LedgerAssumption ==
  NoTask \notin [life : {"open", "running", "done"}, gen : Nat]

Ledger == INSTANCE TaskLedger WITH
            Tasks <- TaskId, Absent <- NoTask,
            ledger <- [t \in TaskId |-> LedgerEntry(board.rows[t])]

RowsKeepLedger == Ledger!LedgerSpec

\* A run ends or is handed to the Leader: whatever its worker does, the row
\* leaves the status running, or a recovery record says that the worker is
\* lost. Without stop commands: a command that concerns one task may stop the
\* agent while it works on another, and nobody then reports the other run.
IsRunning(t) == Exists(board, t) /\ board.rows[t].status = "running"

RunsEnd ==
  \A t \in TaskId : IsRunning(t) ~> (~IsRunning(t) \/ recs[t].kind # "none")

-----------------------------------------------------------------------------
(* What the code or its comments say, and does not hold *)

\* A completion ends only the run it belongs to: the generation bound to a
\* handle keeps the receipt of an old run from touching the current one.
StaleCompletionNeverLands ==
  [][\A r \in receipts' \ receipts :
       (/\ r.exit = "completed" /\ Exists(board, r.task)
        /\ board.rows[r.task].status # "terminal"
        /\ board'.rows[r.task].status = "terminal")
       => r.gen = board.rows[r.task].gen]_vars
=============================================================================
