-------------------------- MODULE TaskLifecycleProofs --------------------------
(***************************************************************************)
(* Theorems about TaskLifecycle for every number of tasks and agents and    *)
(* every value of the bounds. The inductive invariant adds two things to    *)
(* the type invariant and CacheCoherent, which cannot be proved one without *)
(* the other: a method that writes back an object of the wrong type or a    *)
(* stale one breaks both. A handle that was ever registered names a task of *)
(* the board: without it, no handler that acts on handle.taskId is typed.   *)
(***************************************************************************)
EXTENDS TaskLifecycle, TaskBoardLemmas

\* A handle at work, stopped or waiting belongs to a task.
HandleOK(h) ==
  h \in Handle /\ (h.status # "none" \/ h.todo # "none" => h.task \in TaskId)

PoolOK(p) == /\ p = [a \in Agents |-> p[a]]
             /\ \A a \in Agents : HandleOK(p[a])

RestOK ==
  /\ bucket \subseteq TaskId
  /\ recs \in [TaskId -> Record]
  /\ receipts \subseteq Receipt /\ processed \subseteq receipts
  /\ forcing \subseteq TaskId \X Agents

IInv == Good(board) /\ PoolOK(pool) /\ RestOK

-----------------------------------------------------------------------------
(* The helpers of the handlers *)

\* An agent that is active, was registered or waits for something has a task.
LEMMA ActiveHasTask ==
  ASSUME PoolOK(pool), NEW a \in Agents
  PROVE  /\ pool[a] \in Handle
         /\ Active(a) => pool[a].task \in TaskId
         /\ pool[a].status # "none" => pool[a].task \in TaskId
         /\ pool[a].todo # "none" => pool[a].task \in TaskId
  BY DEF PoolOK, HandleOK, Active

\* forceStopAgent keeps the handles well formed.
LEMMA StoppedOK ==
  ASSUME PoolOK(pool), NEW S, \A a \in S : a \in Agents /\ pool[a].task \in TaskId
  PROVE  PoolOK(Stopped(S))
  <1>1. ASSUME NEW h, HandleOK(h), h.task \in TaskId
        PROVE  HandleOK([h EXCEPT !.status = "stopped"])
    BY <1>1 DEF HandleOK, Handle
  <1>2. ASSUME NEW a \in Agents PROVE HandleOK(Stopped(S)[a])
    BY <1>1 DEF PoolOK, Stopped
  <1>3. Stopped(S) = [a \in Agents |-> Stopped(S)[a]]
    BY DEF Stopped
  <1> QED BY <1>2, <1>3 DEF PoolOK

\* Reading several tasks refreshes the cache and writes no row.
LEMMA ReadAllGood ==
  ASSUME NEW b, Good(b), NEW S \in SUBSET TaskId
  PROVE  Good(ReadAll(b, S)) /\ ReadAll(b, S).rows = b.rows
  <1> DEFINE f == [t \in TaskId |-> Read(b, t)]
             mem  == [t \in TaskId |-> IF t \in S THEN f[t].mem[t] ELSE b.mem[t]]
             rows == [t \in TaskId |-> IF t \in S THEN f[t].rows[t] ELSE b.rows[t]]
  <1>1. \A t \in S : Good(f[t])
    BY ReadGood
  <1>2. Good([b EXCEPT !.mem = mem, !.rows = rows])
    BY <1>1, MergedGood
  <1>3. ReadAll(b, S) = [b EXCEPT !.mem = mem, !.rows = rows]
    <2>1. mem = [t \in TaskId |-> IF t \in S THEN Read(b, t).mem[t] ELSE b.mem[t]]
      BY DEF f
    <2>2. rows = [t \in TaskId |-> IF t \in S THEN Read(b, t).rows[t] ELSE b.rows[t]]
      BY DEF f
    <2> HIDE DEF mem, rows
    <2> QED BY <2>1, <2>2 DEF ReadAll, OnEach
  <1>4. rows = b.rows
    BY DEF Read, Good, Board
  <1>5. [b EXCEPT !.mem = mem, !.rows = rows].rows = rows
    BY DEF Good, Board
  <1> QED BY <1>2, <1>3, <1>4, <1>5

\* The evaluator and repair tasks of OrchestrationRuntime keep the board good.
LEMMA FollowUpGood ==
  ASSUME NEW b, Good(b), NEW t \in TaskId, NEW c \in WithFollowUp(b, t)
  PROVE  Good(c)
  BY CreateNextGood DEF WithFollowUp

\* The generation bindTaskRunGeneration binds to a handle is a number.
LEMMA RowGen ==
  ASSUME NEW b, Good(b), NEW t \in TaskId
  PROVE  /\ b.rows[t] # NoTask => b.rows[t].gen \in Nat
         /\ \A old \in Nat : BoundGen(b, t, old) \in Nat
  <1>1. b.rows[t] # NoTask => b.rows[t].gen \in Nat
    BY BoardMaps DEF Good, Row
  <1> QED BY <1>1 DEF BoundGen, Exists

\* clearRecoveryRecord leaves records.
LEMMA CleanRecords ==
  ASSUME recs \in [TaskId -> Record], NEW t
  PROVE  [recs EXCEPT ![t] = NoRecord] \in [TaskId -> Record]
  BY DEF Record, NoRecord, RecoveryKinds

-----------------------------------------------------------------------------
(* The handlers *)

\* The empty session satisfies the invariant.
LEMMA InitOK == Init => IInv
  <1> SUFFICES ASSUME Init PROVE IInv
    OBVIOUS
  <1>1. Good(board)
    <2>1. 0 \in 0..MaxTasks
      BY BoardAssumption
    <2> QED BY <2>1 DEF Init, EmptyBoard, Good, Board, Coherent, CoherentAt, Loaded
  <1>2. PoolOK(pool)
    BY DEF Init, PoolOK, HandleOK, Handle, NoHandle, NoTaskId
  <1>3. RestOK
    BY DEF Init, RestOK, Record, NoRecord, RecoveryKinds
  <1> QED BY <1>1, <1>2, <1>3 DEF IInv

\* The Leader's planning tools preserve the invariant.
LEMMA PlanningOK == IInv /\ Planning => IInv'
  <1> SUFFICES ASSUME IInv, Planning PROVE IInv'
    OBVIOUS
  <1>1. Good(board) /\ PoolOK(pool) /\ RestOK
    BY DEF IInv
  <1>2. ASSUME NEW D \in SUBSET TaskId, CreateTaskTool(D)
        PROVE  IInv'
    <2>1. CASE \E b \in CreateNext(board, D) : BoardBecomes(b)
      <3>1. Good(board')
        BY <1>1, <2>1, CreateNextGood DEF BoardBecomes
      <3> QED BY <1>1, <1>2, <3>1 DEF CreateTaskTool, IInv, RestOK
    <2>2. CASE \E i \in NextTaskId(board) : board' = [board EXCEPT !.counter = i]
      <3>1. PICK i \in TaskId : board' = [board EXCEPT !.counter = i]
        BY <2>2 DEF NextTaskId
      <3>2. i \in 0..MaxTasks
        BY BoardAssumption DEF TaskId
      <3>3. board' \in Board /\ board'.mem = board.mem /\ board'.rows = board.rows
        BY <1>1, <3>1, <3>2 DEF Good, Board
      <3>4. Good(board')
        BY <1>1, <3>3 DEF Good, Coherent, CoherentAt, Loaded
      <3> QED BY <1>1, <1>2, <3>4 DEF CreateTaskTool, IInv, RestOK
    <2> QED BY <1>2, <2>1, <2>2 DEF CreateTaskTool
  <1>3. ASSUME NEW t \in TaskId, NEW D \in SUBSET TaskId, UpdateTaskTool(t, D)
        PROVE  IInv'
    <2>1. Good(Read(board, t)) /\ Loaded(Read(board, t), t)
      BY <1>1, <1>3, ReadGood DEF UpdateTaskTool, Editable
    <2>2. Good(board')
      BY <1>3, <2>1, UpdateDependenciesGood DEF UpdateTaskTool, BoardBecomes
    <2> QED BY <1>1, <1>3, <2>2 DEF UpdateTaskTool, IInv, RestOK
  <1>4. ASSUME NEW t \in TaskId, DeleteTaskTool(t)
        PROVE  IInv'
    <2>1. Good(board')
      BY <1>1, <1>4, ReadGood, DeleteTaskGood DEF DeleteTaskTool, BoardBecomes
    <2> QED BY <1>1, <1>4, <2>1 DEF DeleteTaskTool, IInv, RestOK
  <1>5. ASSUME NEW t \in TaskId, NEW exit \in {"failed", "cancelled"},
               UpdateTaskStatusTool(t, exit)
        PROVE  IInv'
    <2> DEFINE b     == Read(board, t)
               begun == IF b.rows[t].status = "dispatchable" /\ b.rows[t].agent = NoAgent
                        THEN UpdateTaskStatus(b, t, "running", "none", FALSE) ELSE b
    <2>1. Good(b)
      BY <1>1, ReadGood
    <2>2. Good(begun)
      BY <2>1, UpdateTaskStatusGood DEF Statuses, Exits
    <2>3. Good(UpdateTaskStatus(begun, t, "terminal", exit, TRUE))
      BY <2>2, UpdateTaskStatusGood DEF Statuses, Exits
    <2>4. board' = UpdateTaskStatus(begun, t, "terminal", exit, TRUE)
      BY <1>5 DEF UpdateTaskStatusTool, BoardBecomes
    <2> QED BY <1>1, <1>5, <2>3, <2>4 DEF UpdateTaskStatusTool, IInv, RestOK
  <1>6. ASSUME NEW t \in TaskId, ReadTask(t)
        PROVE  IInv'
    <2>1. Good(board')
      BY <1>1, <1>6, ReadGood DEF ReadTask, BoardBecomes
    <2> QED BY <1>1, <1>6, <2>1 DEF ReadTask, IInv, RestOK
  <1> QED BY <1>2, <1>3, <1>4, <1>5, <1>6 DEF Planning

\* Dispatch, its refusal and the granted slot preserve the invariant.
LEMMA DispatchingOK == IInv /\ Dispatching => IInv'
  <1> SUFFICES ASSUME IInv, Dispatching PROVE IInv'
    OBVIOUS
  <1>1. Good(board) /\ PoolOK(pool) /\ RestOK
    BY DEF IInv
  <1>2. ASSUME NEW t \in TaskId, NEW a \in Agents, Dispatch(t, a)
        PROVE  IInv'
    <2> DEFINE read    == Read(board, t)
               b       == ReadAll(read, bucket)
               claimed == AssignTask(b, t, a)
    <2>1. Good(read) /\ read.rows = board.rows
      BY <1>1, <1>2, ReadGood, RowSurvives DEF Dispatch, Exists
    <2>2. Good(b) /\ b.rows[t] # NoTask
      BY <1>1, <1>2, <2>1, ReadAllGood DEF Dispatch, Exists, RestOK
    <2>3. Good(claimed) /\ claimed.rows[t] # NoTask
      BY <2>2, AssignTaskGood, RowSurvives
    <2>4. board' = Read(claimed, t)
          /\ bucket' = LiveSlots(b) \cup {t}
          /\ pool' = [pool EXCEPT ![a] =
                        [status |-> "starting", task |-> t, todo |-> "slot",
                         gen |-> claimed.rows[t].gen, lineage |-> 0]]
          /\ UNCHANGED <<recs, receipts, processed, forcing>>
      BY <1>2 DEF Dispatch, BoardBecomes
    <2> HIDE DEF claimed, b
    <2>5. Good(board')
      BY <2>3, <2>4, ReadGood
    <2>6. PoolOK(pool')
      BY <1>1, <2>3, <2>4, RowGen DEF PoolOK, HandleOK, Handle
    <2> QED BY <1>1, <2>4, <2>5, <2>6 DEF IInv, RestOK, LiveSlots
  <1>3. ASSUME NEW t \in TaskId, DispatchRefused(t)
        PROVE  IInv'
    <2> DEFINE b == ReadAll(Read(board, t), bucket)
    <2>1. Good(b)
      BY <1>1, ReadGood, ReadAllGood DEF RestOK
    <2>2. board' = b /\ bucket' = LiveSlots(b)
          /\ UNCHANGED <<pool, recs, receipts, processed, forcing>>
      BY <1>3 DEF DispatchRefused, BoardBecomes
    <2> QED BY <1>1, <2>1, <2>2 DEF IInv, RestOK, LiveSlots
  <1>4. ASSUME NEW a \in Agents, SlotGranted(a)
        PROVE  IInv'
    <2> DEFINE t == pool[a].task
               b == Read(board, t)
    <2>1. t \in TaskId /\ pool[a] \in Handle
      BY <1>1, <1>4 DEF SlotGranted, PoolOK, HandleOK
    <2>2. Good(b)
      BY <1>1, <2>1, ReadGood
    <2>3. BoundGen(b, t, pool[a].gen) \in Nat
      BY <2>1, <2>2, RowGen DEF Handle
    <2>4. board' = b
          /\ pool' = [pool EXCEPT ![a].status = "running", ![a].todo = "none",
                                  ![a].gen = BoundGen(b, t, pool[a].gen)]
          /\ recs' = [recs EXCEPT ![t] = NoRecord]
          /\ UNCHANGED <<bucket, receipts, processed, forcing>>
      BY <1>4 DEF SlotGranted, BoardBecomes
    <2>5. PoolOK(pool')
      BY <1>1, <2>1, <2>3, <2>4 DEF PoolOK, HandleOK, Handle
    <2> QED BY <1>1, <2>2, <2>4, <2>5, CleanRecords DEF IInv, RestOK
  <1> QED BY <1>2, <1>3, <1>4 DEF Dispatching

\* What workers report, crashes and respawns included, preserves the invariant.
LEMMA WorkingOK == IInv /\ Working => IInv'
  <1> SUFFICES ASSUME IInv, Working PROVE IInv'
    OBVIOUS
  <1>1. Good(board) /\ PoolOK(pool) /\ RestOK
    BY DEF IInv
  <1>2. ASSUME NEW a \in Agents, NEW exit \in {"completed", "failed"},
               WorkerEnds(a, exit)
        PROVE  IInv'
    <2> DEFINE t == pool[a].task
               b == Read(board, t)
               ended == UpdateTaskStatus(b, t, "terminal", exit, TRUE)
               receipt == [task |-> t, gen |-> pool[a].gen, agent |-> a, exit |-> exit]
    <2>1. t \in TaskId /\ pool[a] \in Handle
      BY <1>1, <1>2, ActiveHasTask DEF WorkerEnds
    <2>2. Good(b) /\ Good(ended)
      BY <1>1, <2>1, ReadGood, UpdateTaskStatusGood DEF Statuses, Exits
    <2>3. /\ board' = b \/ board' \in WithFollowUp(ended, t)
          /\ bucket' \in {bucket, bucket \ {t}}
          /\ pool' = Stopped({a})
          /\ recs' = [recs EXCEPT ![t] = NoRecord]
          /\ receipts' = receipts \cup {receipt}
          /\ UNCHANGED <<processed, forcing>>
      BY <1>2 DEF WorkerEnds, BoardBecomes
    <2>4. Good(board')
      BY <2>1, <2>2, <2>3, FollowUpGood
    <2>5. PoolOK(pool')
      BY <1>1, <2>1, <2>3, StoppedOK
    <2>6. receipt \in Receipt
      BY <2>1 DEF Receipt, Handle
    <2> HIDE DEF receipt
    <2> QED BY <1>1, <2>3, <2>4, <2>5, <2>6, CleanRecords DEF IInv, RestOK
  <1>3. ASSUME NEW a \in Agents, NEW class \in {"redispatch", "takeover", "external"},
               WorkerCrash(a, class)
        PROVE  IInv'
    <2> DEFINE t       == pool[a].task
               attempt == recs[t].attempt + 1
               kind    == Budgeted(class, attempt)
               b       == Read(board, t)
               retry   == /\ "auto_retry" \in Features /\ kind = "redispatch"
                          /\ Exists(b, t) /\ b.rows[t].status # "terminal"
               ready   == PrepareForRedispatch(b, t)
               again   == AssignTask(Read(ready, t), t, a)
    <2>1. t \in TaskId /\ pool[a] \in Handle
      BY <1>1, <1>3, ActiveHasTask DEF WorkerCrash
    <2>2. attempt \in Nat /\ kind \in RecoveryKinds
      BY <1>1, <2>1 DEF RestOK, Record, Budgeted, RecoveryKinds
    <2>3. recs' = [recs EXCEPT ![t] = [kind |-> kind, attempt |-> attempt]]
          /\ UNCHANGED <<bucket, receipts, processed, forcing>>
      BY <1>3 DEF WorkerCrash
    <2>4. recs' \in [TaskId -> Record]
      BY <1>1, <2>1, <2>2, <2>3 DEF RestOK, Record
    <2>5. RestOK'
      BY <1>1, <2>3, <2>4 DEF RestOK
    <2>6. Good(b)
      BY <1>1, <2>1, ReadGood
    <2>7. CASE retry
      <3>1. Good(ready) /\ ready.rows[t] # NoTask
        BY <2>1, <2>6, <2>7, PrepareGood, RowSurvives DEF Exists
      <3>2. Good(Read(ready, t)) /\ Read(ready, t).rows[t] # NoTask
        BY <2>1, <3>1, ReadGood, RowSurvives
      <3>3. Good(again) /\ again.rows[t] # NoTask
        BY <2>1, <3>2, AssignTaskGood, RowSurvives
      <3>4. board' = Read(again, t)
            /\ pool' = [pool EXCEPT ![a].status = "stopped", ![a].todo = "backoff",
                           ![a].gen = again.rows[t].gen, ![a].lineage = attempt]
        BY <1>3, <2>7 DEF WorkerCrash, BoardBecomes
      <3>5. Good(board')
        BY <2>1, <3>3, <3>4, ReadGood
      <3>6. again.rows[t].gen \in Nat
        BY <2>1, <3>3, RowGen
      <3> HIDE DEF again, attempt
      <3>7. PoolOK(pool')
        BY <1>1, <2>1, <2>2, <3>4, <3>6 DEF PoolOK, HandleOK, Handle
      <3> QED BY <2>5, <3>5, <3>7 DEF IInv
    <2>8. CASE ~retry
      <3>1. board' \in {b, board}
            /\ pool' = [Stopped({a}) EXCEPT ![a].lineage = attempt]
        BY <1>3, <2>8 DEF WorkerCrash, BoardBecomes
      <3>2. PoolOK(Stopped({a}))
        BY <1>1, <2>1, StoppedOK
      <3> HIDE DEF attempt
      <3>3. PoolOK(pool')
        BY <2>2, <3>1, <3>2 DEF PoolOK, HandleOK, Handle
      <3> QED BY <1>1, <2>5, <2>6, <3>1, <3>3 DEF IInv
    <2> QED BY <2>7, <2>8
  <1>4. ASSUME NEW a \in Agents, RespawnTimer(a)
        PROVE  IInv'
    <2> DEFINE t == pool[a].task
               b == Read(board, t)
    <2>1. t \in TaskId /\ pool[a] \in Handle
      BY <1>1, <1>4, ActiveHasTask DEF RespawnTimer
    <2>2. Good(b)
      BY <1>1, <2>1, ReadGood
    <2>3. BoundGen(b, t, pool[a].gen) \in Nat
      BY <2>1, <2>2, RowGen DEF Handle
    <2>4. board' = b
          /\ pool' = [pool EXCEPT ![a].status = "running", ![a].todo = "none",
                                  ![a].gen = BoundGen(b, t, pool[a].gen)]
          /\ recs' = [recs EXCEPT ![t] = NoRecord]
          /\ UNCHANGED <<bucket, receipts, processed, forcing>>
      BY <1>4 DEF RespawnTimer, BoardBecomes
    <2>5. PoolOK(pool')
      BY <1>1, <2>1, <2>3, <2>4 DEF PoolOK, HandleOK, Handle
    <2> QED BY <1>1, <2>2, <2>4, <2>5, CleanRecords DEF IInv, RestOK
  <1>5. ASSUME NEW a \in Agents, RespawnFails(a)
        PROVE  IInv'
    <2> DEFINE t == pool[a].task
               b == Read(board, t)
               attempt == IF recs[t].kind = "none" THEN pool[a].lineage
                          ELSE recs[t].attempt
               claimants == {c \in Agents : pool[c].task = t /\ Active(c)}
    <2>1. t \in TaskId /\ pool[a] \in Handle
      BY <1>1, <1>5, ActiveHasTask DEF RespawnFails
    <2>2. Good(b) /\ Good(PrepareForRedispatch(b, t))
      BY <1>1, <2>1, ReadGood, PrepareGood
    <2>3. board' \in {b, PrepareForRedispatch(b, t)}
          /\ recs' = [recs EXCEPT ![t] = [kind |-> "takeover", attempt |-> attempt]]
          /\ pool' = [Stopped(claimants) EXCEPT ![a].todo = "none"]
          /\ UNCHANGED <<bucket, receipts, processed, forcing>>
      BY <1>5 DEF RespawnFails, BoardBecomes
    <2>4. attempt \in Nat
      BY <1>1, <2>1 DEF RestOK, Record, Handle
    <2>5. recs' \in [TaskId -> Record]
      BY <1>1, <2>1, <2>3, <2>4 DEF RestOK, Record, RecoveryKinds
    <2>6. PoolOK(Stopped(claimants))
      BY <1>1, <2>1, StoppedOK
    <2>7. PoolOK(pool')
      BY <2>3, <2>6 DEF PoolOK, HandleOK, Handle
    <2> QED BY <1>1, <2>2, <2>3, <2>5, <2>7 DEF IInv, RestOK
  <1> QED BY <1>2, <1>3, <1>4, <1>5 DEF Working

\* The commands of the Leader and the user preserve the invariant.
LEMMA ControllingOK == IInv /\ Controlling => IInv'
  <1> SUFFICES ASSUME IInv, Controlling PROVE IInv'
    OBVIOUS
  <1>1. Good(board) /\ PoolOK(pool) /\ RestOK
    BY DEF IInv
  <1>2. ASSUME NEW a \in Agents, NEW throttled \in BOOLEAN, RetryAgent(a, throttled)
        PROVE  IInv'
    <2> DEFINE t == pool[a].task
               b == Read(board, t)
               opened == IF b.rows[t].status = "terminal" THEN ReopenTask(b, t) ELSE b
               open  == Read(opened, t)
               owned == IF open.rows[t].status = "dispatchable"
                        THEN AssignTask(open, t, a) ELSE open
               next  == IF throttled THEN owned ELSE Read(owned, t)
               mine  == open.rows[t].status = "dispatchable"
    <2>1. t \in TaskId /\ pool[a] \in Handle
      BY <1>1, <1>2, ActiveHasTask DEF RetryAgent
    <2>2. Good(b) /\ b.rows[t] # NoTask
      BY <1>1, <1>2, <2>1, ReadGood, RowSurvives DEF RetryAgent, Exists
    <2>3. Good(opened) /\ opened.rows[t] # NoTask
      BY <2>1, <2>2, ReopenGood, RowSurvives
    <2>4. Good(open) /\ open.rows[t] # NoTask
      BY <2>1, <2>3, ReadGood, RowSurvives
    <2>5. Good(owned) /\ owned.rows[t] # NoTask
      BY <2>1, <2>4, AssignTaskGood, RowSurvives
    <2>6. Good(next) /\ next.rows[t] # NoTask
      BY <2>1, <2>5, ReadGood, RowSurvives
    <2>7. owned.rows[t].gen \in Nat /\ next.rows[t].gen \in Nat
      BY <2>1, <2>5, <2>6, RowGen
    <2>8. /\ board' = next
          /\ \/ /\ pool' = [pool EXCEPT ![a].gen = IF mine THEN owned.rows[t].gen ELSE @]
                /\ UNCHANGED recs
             \/ /\ pool' = [pool EXCEPT ![a].status = "running",
                                        ![a].gen = next.rows[t].gen]
                /\ recs' = [recs EXCEPT ![t] = NoRecord]
          /\ UNCHANGED <<bucket, receipts, processed, forcing>>
      BY <1>2 DEF RetryAgent, BoardBecomes
    <2> HIDE DEF next, owned, mine
    <2>9. PoolOK(pool')
      BY <1>1, <2>1, <2>7, <2>8 DEF PoolOK, HandleOK, Handle
    <2> QED BY <1>1, <2>6, <2>8, <2>9, CleanRecords DEF IInv, RestOK
  <1>3. ASSUME NEW a \in Agents, FollowUpMessage(a)
        PROVE  IInv'
    <2> DEFINE source == Read(board, pool[a].task)
    <2>1. pool[a].task \in TaskId
      BY <1>1, <1>3, ActiveHasTask DEF FollowUpMessage
    <2>2. Good(source)
      BY <1>1, <2>1, ReadGood
    <2>3. PICK created \in CreateNext(source, {}) :
            LET t == created.counter
                b == AssignTask(created, t, a)
            IN /\ board' = Read(b, t)
               /\ pool' = [pool EXCEPT ![a] =
                             [status |-> "running", task |-> t, todo |-> "none",
                              gen |-> b.rows[t].gen, lineage |-> 0]]
               /\ recs' = [recs EXCEPT ![t] = NoRecord]
      BY <1>3 DEF FollowUpMessage, BoardBecomes
    <2> DEFINE t == created.counter
               b == AssignTask(created, t, a)
    <2>4. Good(created) /\ t \in TaskId /\ created.rows[t] # NoTask
      BY <2>2, CreateNextGood
    <2>5. Good(b) /\ b.rows[t] # NoTask
      BY <2>4, AssignTaskGood, RowSurvives
    <2>6. b.rows[t].gen \in Nat /\ Good(Read(b, t))
      BY <2>4, <2>5, RowGen, ReadGood
    <2>7. board' = Read(b, t) /\ recs' = [recs EXCEPT ![t] = NoRecord]
          /\ pool' = [pool EXCEPT ![a] =
                        [status |-> "running", task |-> t, todo |-> "none",
                         gen |-> b.rows[t].gen, lineage |-> 0]]
          /\ UNCHANGED <<bucket, receipts, processed, forcing>>
      BY <1>3, <2>3 DEF FollowUpMessage
    <2> HIDE DEF b, t
    <2>8. PoolOK(pool')
      BY <1>1, <2>4, <2>6, <2>7 DEF PoolOK, HandleOK, Handle
    <2> QED BY <1>1, <2>6, <2>7, <2>8, CleanRecords DEF IInv, RestOK
  <1>4. ASSUME NEW a \in Agents, TerminateAgent(a)
        PROVE  IInv'
    <2>1. pool[a].task \in TaskId
      BY <1>1, <1>4, ActiveHasTask DEF TerminateAgent
    <2>2. Good(board')
      BY <1>1, <1>4, <2>1, UpdateTaskStatusGood
         DEF TerminateAgent, BoardBecomes, Statuses, Exits
    <2>3. PoolOK(pool')
      BY <1>1, <1>4, <2>1, StoppedOK DEF TerminateAgent
    <2> QED BY <1>1, <1>4, <2>2, <2>3 DEF TerminateAgent, IInv, RestOK
  <1>5. ASSUME NEW a \in Agents, NEW t \in TaskId, ForceEnd(t, a)
        PROVE  IInv'
    <2>1. Good(board')
      BY <1>1, <1>5, UpdateTaskStatusGood DEF ForceEnd, BoardBecomes, Statuses, Exits
    <2>2. PoolOK(pool')
      BY <1>1, <1>5, ActiveHasTask, StoppedOK DEF ForceEnd
    <2> QED BY <1>1, <1>5, <2>1, <2>2 DEF ForceEnd, IInv, RestOK
  <1>6. ASSUME NEW t \in TaskId, CancelTaskCommand(t)
        PROVE  IInv'
    <2> DEFINE b == Read(board, t)
               S == IF OwnerActive(b, t) THEN {b.rows[t].agent} ELSE {}
    <2>1. Good(b) /\ Loaded(b, t) /\ b.rows[t] \in Row
      BY <1>1, <1>6, ReadGood, RowSurvives, BoardMaps
         DEF CancelTaskCommand, Exists, Good
    <2>2. Good(CancelTask(b, t))
      BY <2>1, CancelGood
    <2>3. PICK mid \in WithFollowUp(CancelTask(b, t), t) :
            board' = ReleaseDependents(mid, t, b.mem[t].blocks)
      BY <1>6 DEF CancelTaskCommand, BoardBecomes
    <2>4. b.mem[t].blocks \in SUBSET TaskId
      BY <2>1, BoardMaps DEF Good, Entry
    <2>5. Good(board')
      BY <2>2, <2>3, <2>4, FollowUpGood, ReleaseDependentsGood
    <2>6. \A a \in S : a \in Agents /\ pool[a].task \in TaskId
      BY <1>1, <2>1, ActiveHasTask DEF OwnerActive, Row
    <2>7. pool' = Stopped(S) /\ bucket' = bucket \ {t}
          /\ UNCHANGED <<recs, receipts, processed, forcing>>
      BY <1>6 DEF CancelTaskCommand
    <2> HIDE DEF S
    <2>8. PoolOK(pool')
      BY <1>1, <2>6, <2>7, StoppedOK
    <2> QED BY <1>1, <2>5, <2>7, <2>8 DEF IInv, RestOK
  <1>7. ASSUME NEW t \in TaskId, ForceBegin(t)
        PROVE  IInv'
    <2> DEFINE b == Read(board, t)
    <2>1. Good(b) /\ Good(UpdateTaskStatus(b, t, "terminal", "completed", TRUE))
      BY <1>1, ReadGood, UpdateTaskStatusGood DEF Statuses, Exits
    <2>2. /\ board' \in {b, UpdateTaskStatus(b, t, "terminal", "completed", TRUE)}
          /\ forcing' = forcing \/ \E a \in Agents : forcing' = forcing \cup {<<t, a>>}
          /\ UNCHANGED <<pool, bucket, recs, receipts, processed>>
      BY <1>7 DEF ForceBegin, BoardBecomes
    <2>3. forcing' \subseteq TaskId \X Agents
      BY <1>1, <2>2 DEF RestOK
    <2> QED BY <1>1, <2>1, <2>2, <2>3 DEF IInv, RestOK
  <1> QED BY <1>2, <1>3, <1>4, <1>5, <1>6, <1>7 DEF Controlling

\* A receipt that the Leader judges preserves the invariant.
LEMMA JudgingOK == IInv /\ Judging => IInv'
  <1> SUFFICES ASSUME IInv, NEW r \in receipts, NEW accepted \in BOOLEAN,
                      LeaderReceipt(r, accepted)
               PROVE  IInv'
    BY DEF Judging
  <1> DEFINE t == r.task
             b == Read(board, t)
  <1>1. Good(board) /\ PoolOK(pool) /\ RestOK
    BY DEF IInv
  <1>2. t \in TaskId
    BY <1>1 DEF RestOK, Receipt
  <1>3. Good(b)
    BY <1>1, <1>2, ReadGood
  <1>4. PICK judged \in WithFollowUp(b, t) :
          \/ \E next \in WithFollowUp(
                  UpdateTaskStatus(judged, t, "terminal", "failed", TRUE), t) :
                board' = next
          \/ board' = UpdateTaskStatus(judged, t, "terminal", "completed", TRUE)
          \/ board' = PrepareForRedispatch(judged, t)
    BY DEF LeaderReceipt, BoardBecomes
  <1>5. Good(judged)
    BY <1>2, <1>3, FollowUpGood
  <1>6. Good(UpdateTaskStatus(judged, t, "terminal", "failed", TRUE))
    BY <1>2, <1>5, UpdateTaskStatusGood DEF Statuses, Exits
  <1>7. Good(UpdateTaskStatus(judged, t, "terminal", "completed", TRUE))
    BY <1>2, <1>5, UpdateTaskStatusGood DEF Statuses, Exits
  <1>8. Good(board')
    BY <1>2, <1>4, <1>5, <1>6, <1>7, FollowUpGood, PrepareGood
  <1>9. /\ bucket' \in {bucket, bucket \ {t}}
        /\ processed' = processed \cup {r}
        /\ UNCHANGED <<pool, recs, receipts, forcing>>
    BY DEF LeaderReceipt
  <1> QED BY <1>1, <1>8, <1>9 DEF IInv, RestOK

-----------------------------------------------------------------------------
(* Recovery: several tasks at once *)

\* What reconcile does for one record keeps the board good.
LEMMA ReconcileTaskGood ==
  ASSUME NEW b, Good(b), NEW t \in TaskId
  PROVE  Good(ReconcileTask(b, t))
  <1>1. Good(Read(b, t))
    BY ReadGood
  <1>2. Good(BlockTask(Read(b, t), t)) /\ Good(PrepareForRedispatch(Read(b, t), t))
    BY <1>1, BlockGood, PrepareGood
  <1>3. ReconcileTask(b, t) \in {Read(b, t), BlockTask(Read(b, t), t),
                                 PrepareForRedispatch(Read(b, t), t)}
    BY DEF ReconcileTask
  <1> QED BY <1>1, <1>2, <1>3

\* What a resumed session, or a woken Leader, does for one task does.
LEMMA ResumedGood ==
  ASSUME NEW b, Good(b), NEW t \in TaskId
  PROVE  Good(Resumed(b, t)) /\ Good(Redispatched(b, t))
  <1>1. Good(Read(b, t)) /\ Good(AssignTask(Read(b, t), t, NoAgent))
    BY ReadGood, AssignTaskGood
  <1> DEFINE mine == IF Read(b, t).rows[t].status = "running" THEN Read(b, t)
                     ELSE AssignTask(Read(b, t), t, NoAgent)
  <1>2. Good(mine)
    BY <1>1
  <1>3. Good(PrepareForRedispatch(Read(mine, t), t))
    BY <1>2, ReadGood, PrepareGood
  <1>4. Good(PrepareForRedispatch(Read(b, t), t))
    BY <1>1, PrepareGood
  <1> QED BY <1>3, <1>4 DEF Resumed, Redispatched

\* Each of the three methods that recovery applies to a set of tasks.
LEMMA OnEachGood ==
  ASSUME NEW b, Good(b), NEW S \in SUBSET TaskId
  PROVE  /\ Good(OnEach(b, S, ReconcileTask))
         /\ Good(OnEach(b, S, Redispatched))
         /\ Good(OnEach(b, S, Resumed))
  <1>1. Good(OnEach(b, S, ReconcileTask))
    <2> DEFINE f == [t \in TaskId |-> ReconcileTask(b, t)]
               mem  == [t \in TaskId |-> IF t \in S THEN f[t].mem[t] ELSE b.mem[t]]
               rows == [t \in TaskId |-> IF t \in S THEN f[t].rows[t] ELSE b.rows[t]]
    <2>1. \A t \in S : Good(f[t])
      BY ReconcileTaskGood
    <2>2. Good([b EXCEPT !.mem = mem, !.rows = rows])
      BY <2>1, MergedGood
    <2>3. mem = [t \in TaskId |-> IF t \in S THEN ReconcileTask(b, t).mem[t]
                                  ELSE b.mem[t]]
      BY DEF f
    <2>4. rows = [t \in TaskId |-> IF t \in S THEN ReconcileTask(b, t).rows[t]
                                   ELSE b.rows[t]]
      BY DEF f
    <2> HIDE DEF mem, rows
    <2> QED BY <2>2, <2>3, <2>4 DEF OnEach
  <1>2. Good(OnEach(b, S, Redispatched))
    <2> DEFINE f == [t \in TaskId |-> Redispatched(b, t)]
               mem  == [t \in TaskId |-> IF t \in S THEN f[t].mem[t] ELSE b.mem[t]]
               rows == [t \in TaskId |-> IF t \in S THEN f[t].rows[t] ELSE b.rows[t]]
    <2>1. \A t \in S : Good(f[t])
      BY ResumedGood
    <2>2. Good([b EXCEPT !.mem = mem, !.rows = rows])
      BY <2>1, MergedGood
    <2>3. mem = [t \in TaskId |-> IF t \in S THEN Redispatched(b, t).mem[t]
                                  ELSE b.mem[t]]
      BY DEF f
    <2>4. rows = [t \in TaskId |-> IF t \in S THEN Redispatched(b, t).rows[t]
                                   ELSE b.rows[t]]
      BY DEF f
    <2> HIDE DEF mem, rows
    <2> QED BY <2>2, <2>3, <2>4 DEF OnEach
  <1>3. Good(OnEach(b, S, Resumed))
    <2> DEFINE f == [t \in TaskId |-> Resumed(b, t)]
               mem  == [t \in TaskId |-> IF t \in S THEN f[t].mem[t] ELSE b.mem[t]]
               rows == [t \in TaskId |-> IF t \in S THEN f[t].rows[t] ELSE b.rows[t]]
    <2>1. \A t \in S : Good(f[t])
      BY ResumedGood
    <2>2. Good([b EXCEPT !.mem = mem, !.rows = rows])
      BY <2>1, MergedGood
    <2>3. mem = [t \in TaskId |-> IF t \in S THEN Resumed(b, t).mem[t]
                                  ELSE b.mem[t]]
      BY DEF f
    <2>4. rows = [t \in TaskId |-> IF t \in S THEN Resumed(b, t).rows[t]
                                   ELSE b.rows[t]]
      BY DEF f
    <2> HIDE DEF mem, rows
    <2> QED BY <2>2, <2>3, <2>4 DEF OnEach
  <1> QED BY <1>1, <1>2, <1>3

\* A new process that loads the rows of a good board satisfies the invariant.
LEMMA RestartOK ==
  ASSUME IInv, NEW b, Good(b), RestartFrom(b)
  PROVE  IInv'
  <1>1. PICK n \in 0..MaxTasks :
          \E S \in Recovered(LoadFromDB(b, n)) :
            board' = OnEach(LoadFromDB(b, n), S, Resumed)
    BY DEF RestartFrom, BoardBecomes
  <1>2. PICK S \in SUBSET TaskId : board' = OnEach(LoadFromDB(b, n), S, Resumed)
    BY <1>1 DEF Recovered
  <1>3. Good(board')
    BY <1>2, LoadFromDBGood, OnEachGood
  <1>4. pool' = [a \in Agents |-> NoHandle]
        /\ bucket' = {} /\ receipts' = {} /\ processed' = {} /\ forcing' = {}
        /\ UNCHANGED recs
    BY DEF RestartFrom
  <1>5. PoolOK(pool')
    BY <1>4 DEF PoolOK, HandleOK, Handle, NoHandle, NoTaskId
  <1> QED BY <1>3, <1>4, <1>5 DEF IInv, RestOK

\* Reconcile, wake-up, restart, crash and eviction preserve the invariant.
LEMMA RecoveringOK == IInv /\ Recovering => IInv'
  <1> SUFFICES ASSUME IInv, Recovering PROVE IInv'
    OBVIOUS
  <1>1. Good(board) /\ PoolOK(pool) /\ RestOK
    BY DEF IInv
  <1>2. CASE Reconcile
    <2> DEFINE S == {t \in TaskId : recs[t].kind # "none"}
    <2>1. Good(OnEach(board, S, ReconcileTask))
      BY <1>1, OnEachGood
    <2>2. /\ board' = OnEach(board, S, ReconcileTask)
          /\ recs' = [t \in TaskId |-> IF t \in S THEN ReconcileRecord(board, t)
                                       ELSE recs[t]]
          /\ UNCHANGED <<pool, bucket, receipts, processed, forcing>>
      BY <1>2 DEF Reconcile, BoardBecomes
    <2>3. \A t \in TaskId : ReconcileRecord(board, t) \in Record
      BY <1>1 DEF ReconcileRecord, RestOK, Record, NoRecord, RecoveryKinds
    <2>4. recs' \in [TaskId -> Record]
      BY <1>1, <2>2, <2>3 DEF RestOK
    <2> QED BY <1>1, <2>1, <2>2, <2>4 DEF IInv, RestOK
  <1>3. CASE LeaderWake
    <2>1. PICK S \in SUBSET TaskId : board' = OnEach(board, S, Redispatched)
      BY <1>3 DEF LeaderWake, BoardBecomes, Recovered
    <2>2. Good(board')
      BY <1>1, <2>1, OnEachGood
    <2> QED BY <1>1, <1>3, <2>2 DEF LeaderWake, IInv, RestOK
  <1>4. CASE Restart
    BY <1>1, <1>4, RestartOK DEF Restart
  <1>5. ASSUME NEW t \in TaskId, CrashInCancel(t)
        PROVE  IInv'
    <2>1. Good(Read(board, t)) /\ Loaded(Read(board, t), t)
      BY <1>1, <1>5, ReadGood, RowSurvives DEF CrashInCancel, Exists
    <2>2. Good(CancelTask(Read(board, t), t))
      BY <2>1, CancelGood
    <2> QED BY <1>5, <2>2, RestartOK DEF CrashInCancel
  <1>6. ASSUME NEW S \in SUBSET TaskId, EvictTasks(S)
        PROVE  IInv'
    <2>1. Good(board')
      BY <1>1, <1>6, EvictGood DEF EvictTasks
    <2> QED BY <1>1, <1>6, <2>1 DEF EvictTasks, IInv, RestOK
  <1> QED BY <1>2, <1>3, <1>4, <1>5, <1>6 DEF Recovering

-----------------------------------------------------------------------------
(* The theorems *)

\* The invariant is inductive: no handler breaks it, and no stuttering does.
LEMMA Inductive == IInv /\ [Next]_vars => IInv'
  <1> SUFFICES ASSUME IInv, [Next]_vars PROVE IInv'
    OBVIOUS
  <1>1. CASE UNCHANGED vars
    BY <1>1 DEF vars, IInv, RestOK
  <1> QED BY <1>1, PlanningOK, DispatchingOK, WorkingOK, ControllingOK, JudgingOK,
             RecoveringOK DEF Next

\* In every state of every behaviour the board is coherent and well typed and
\* every handle that was registered names a task: the base of the two theorems.
THEOREM InvariantHolds == Spec => []IInv
  BY InitOK, Inductive, PTL DEF Spec

\* Every handler leaves the board, the handles, the records and the messages in
\* the types their classes declare, however many tasks and agents there are.
THEOREM TypeCorrect == Spec => []TypeOK
  <1>1. IInv => TypeOK
    <2> SUFFICES ASSUME IInv PROVE TypeOK
      OBVIOUS
    <2>1. pool \in [Agents -> Handle]
      BY DEF IInv, PoolOK, HandleOK
    <2> QED BY <2>1 DEF IInv, Good, RestOK, TypeOK
  <1> QED BY <1>1, InvariantHolds, PTL

\* What a cached task would write is what its row holds, but for the back links,
\* through every tool, dispatch, crash, recovery, reload and eviction: no method
\* loses a change between the cache and the database.
THEOREM CacheStaysCoherent == Spec => []CacheCoherent
  <1>1. IInv => CacheCoherent
    BY DEF IInv, Good, CacheCoherent
  <1> QED BY <1>1, InvariantHolds, PTL

-----------------------------------------------------------------------------
(* What the handlers do to the board: each of them but a deletion, a restart *)
(* and an eviction advances it                                               *)

\* Doing nothing advances the board.
LEMMA AdvancesItself ==
  ASSUME NEW b, Good(b)
  PROVE  Advances(b, b)
  <1>1. 1 \in TaskId
    BY BoardAssumption DEF TaskId
  <1> QED BY <1>1, StepOfItself, StepAdvances

\* Reading several tasks advances the board, and leaves every generation that
\* was defined.
LEMMA ReadAllAdvances ==
  ASSUME NEW b, Good(b), NEW S \in SUBSET TaskId
  PROVE  /\ Advances(b, ReadAll(b, S))
         /\ \A t \in TaskId : Counted(b, t) => Counted(ReadAll(b, S), t)
  <1> DEFINE f == [t \in TaskId |-> Read(b, t)]
             mem  == [t \in TaskId |-> IF t \in S THEN f[t].mem[t] ELSE b.mem[t]]
             rows == [t \in TaskId |-> IF t \in S THEN f[t].rows[t] ELSE b.rows[t]]
             c    == [b EXCEPT !.mem = mem, !.rows = rows]
  <1>1. \A t \in S : StepOf(b, f[t], t) /\ Counted(f[t], t)
    BY ReadStep
  <1>2. Advances(b, c)
    BY <1>1, MergedAdvances
  <1>3. ReadAll(b, S) = c
    <2>1. mem = [t \in TaskId |-> IF t \in S THEN Read(b, t).mem[t] ELSE b.mem[t]]
      BY DEF f
    <2>2. rows = [t \in TaskId |-> IF t \in S THEN Read(b, t).rows[t] ELSE b.rows[t]]
      BY DEF f
    <2> HIDE DEF mem, rows
    <2> QED BY <2>1, <2>2 DEF ReadAll, OnEach
  <1>4. c.mem = mem
    BY DEF Good, Board
  <1> HIDE DEF c, f
  <1>5. \A t \in TaskId : Counted(b, t) => Counted(c, t)
    BY <1>1, <1>4 DEF Counted, Loaded
  <1> QED BY <1>2, <1>3, <1>5

\* The follow-up tasks of OrchestrationRuntime leave the other tasks as they are.
LEMMA FollowUpEffect ==
  ASSUME NEW b, Good(b), Numbered(b), NEW t \in TaskId,
         NEW c \in WithFollowUp(b, t)
  PROVE  /\ Advances(b, c)
         /\ \A u \in TaskId : b.rows[u] # NoTask =>
              /\ c.rows[u] # NoTask
              /\ c.rows[u].gen = b.rows[u].gen
              /\ c.rows[u].status = b.rows[u].status
              /\ c.rows[u].deps = b.rows[u].deps
              /\ Loaded(b, u) => Loaded(c, u) /\ c.mem[u].gen = b.mem[u].gen
         /\ \A M : LinkedBut(b, M) => LinkedBut(c, M)
  <1>1. CASE c = b
    BY <1>1, AdvancesItself
  <1>2. CASE c \in CreateNext(b, {t})
    BY <1>2, CreateNextEffect
  <1> QED BY <1>1, <1>2 DEF WithFollowUp

\* Between two handlers the ids are behind the counter.
Ready == IInv /\ Numbered(board)

\* The planning tools that delete nothing.
LEMMA PlanningAdvances ==
  ASSUME Ready, Planning
  PROVE  Advances(board, board') \/ \E t \in TaskId : DeleteTaskTool(t)
  <1>1. Good(board) /\ Numbered(board)
    BY DEF Ready, IInv
  <1>2. ASSUME NEW D \in SUBSET TaskId, CreateTaskTool(D)
        PROVE  Advances(board, board')
    <2>1. CASE \E b \in CreateNext(board, D) : BoardBecomes(b)
      BY <1>1, <2>1, CreateNextEffect DEF BoardBecomes
    <2>2. CASE \E i \in NextTaskId(board) : board' = [board EXCEPT !.counter = i]
      <3>1. PICK i \in TaskId : i > board.counter /\ board' = [board EXCEPT !.counter = i]
        BY <2>2 DEF NextTaskId
      <3>2. i \in 0..MaxTasks
        BY BoardAssumption DEF TaskId
      <3>3. /\ board' \in Board /\ board'.mem = board.mem /\ board'.rows = board.rows
            /\ board'.counter = i
        BY <1>1, <3>1, <3>2 DEF Good, Board
      <3>4. Good(board')
        BY <1>1, <3>3 DEF Good, Coherent, CoherentAt, Loaded
      <3>5. NewIds(board, board')
        BY <1>1, <3>1, <3>3, CounterIsNat DEF NewIds
      <3>6. RowsFollow(board, board')
        BY <1>1, <3>3, BoardMaps, FollowsIsPreorder DEF RowsFollow, Good
      <3>7. Linked(board) => Linked(board')
        BY <3>3 DEF Linked, LinkedBut, LinksStored, Loaded
      <3> QED BY <3>4, <3>5, <3>6, <3>7 DEF Advances
    <2> QED BY <1>2, <2>1, <2>2 DEF CreateTaskTool
  <1>3. ASSUME NEW t \in TaskId, NEW D \in SUBSET TaskId, UpdateTaskTool(t, D)
        PROVE  Advances(board, board')
    <2> DEFINE b == Read(board, t)
    <2>1. StepOf(board, b, t)
      BY <1>1, ReadStep
    <2>2. Advances(board, b) /\ Good(b)
      BY <1>1, <2>1, StepAdvances DEF StepOf
    <2>3. Loaded(b, t) /\ D \subseteq Cached(b) /\ board' = UpdateDependencies(b, t, D)
      BY <1>3 DEF UpdateTaskTool, Editable, BoardBecomes
    <2> HIDE DEF b
    <2>4. Advances(b, board')
      BY <2>2, <2>3, UpdateDependenciesAdvances
    <2> QED BY <1>1, <2>2, <2>4, AdvancesCompose
  <1>4. ASSUME NEW t \in TaskId, NEW exit \in {"failed", "cancelled"},
               UpdateTaskStatusTool(t, exit)
        PROVE  Advances(board, board')
    <2> DEFINE b     == Read(board, t)
               first == UpdateTaskStatus(b, t, "running", "none", FALSE)
    <2>1. StepOf(board, b, t) /\ Good(b) /\ exit \in Exits \ {"none"}
      BY <1>1, ReadStep DEF StepOf, Exits
    <2>2. b.rows = board.rows /\ Loaded(b, t) /\ b.rows[t] # NoTask
      BY <1>1, <1>4, RowSurvives DEF UpdateTaskStatusTool, Exists
    <2>3. \/ /\ b.rows[t].status = "dispatchable"
             /\ board' = UpdateTaskStatus(first, t, "terminal", exit, TRUE)
          \/ board' = UpdateTaskStatus(b, t, "terminal", exit, TRUE)
      BY <1>4 DEF UpdateTaskStatusTool, BoardBecomes
    <2> HIDE DEF b
    <2>4. StepOf(b, board', t)
      BY <2>1, <2>2, <2>3, EndStep, BeginAndEndStep
    <2> QED BY <1>1, <2>1, <2>4, StepsCompose, StepAdvances
  <1>5. ASSUME NEW t \in TaskId, ReadTask(t)
        PROVE  Advances(board, board')
    BY <1>1, <1>5, ReadStep, StepAdvances DEF ReadTask, BoardBecomes
  <1> QED BY <1>2, <1>3, <1>4, <1>5 DEF Planning

\* Dispatch, its refusal and the granted slot.
LEMMA DispatchingAdvances ==
  ASSUME Ready, Dispatching
  PROVE  Advances(board, board')
  <1>1. Good(board) /\ PoolOK(pool) /\ RestOK
    BY DEF Ready, IInv
  <1>2. ASSUME NEW t \in TaskId
        PROVE  LET read == Read(board, t)
                   b    == ReadAll(read, bucket)
               IN  Advances(board, b) /\ Good(b) /\ Counted(b, t)
    <2> DEFINE read == Read(board, t)
               b    == ReadAll(read, bucket)
    <2>1. Advances(board, read) /\ Good(read) /\ Counted(read, t)
      BY <1>1, ReadStep, StepAdvances DEF StepOf
    <2> HIDE DEF read
    <2>2. Advances(read, b) /\ Counted(b, t)
      BY <1>1, <2>1, ReadAllAdvances DEF RestOK
    <2> HIDE DEF b
    <2>3. Advances(board, b) /\ Good(b)
      BY <1>1, <2>1, <2>2, AdvancesCompose DEF Advances
    <2> QED BY <2>2, <2>3 DEF b, read
  <1>3. ASSUME NEW t \in TaskId, NEW a \in Agents, Dispatch(t, a)
        PROVE  Advances(board, board')
    <2> DEFINE b == ReadAll(Read(board, t), bucket)
               claimed == AssignTask(b, t, a)
    <2>1. board' = Read(claimed, t)
      BY <1>3 DEF Dispatch, BoardBecomes
    <2>2. Advances(board, b) /\ Good(b) /\ Counted(b, t)
      BY <1>2
    <2> HIDE DEF b
    <2>3. StepOf(b, claimed, t)
      BY <2>2, AssignStep
    <2> HIDE DEF claimed
    <2>4. StepOf(claimed, board', t)
      BY <2>1, <2>3, ReadStep DEF StepOf
    <2>5. Advances(b, board')
      BY <2>2, <2>3, <2>4, StepsCompose, StepAdvances
    <2> QED BY <1>1, <2>2, <2>5, AdvancesCompose
  <1>4. ASSUME NEW t \in TaskId, DispatchRefused(t)
        PROVE  Advances(board, board')
    BY <1>2, <1>4 DEF DispatchRefused, BoardBecomes
  <1>5. ASSUME NEW a \in Agents, SlotGranted(a)
        PROVE  Advances(board, board')
    <2>1. pool[a].task \in TaskId
      BY <1>1, <1>5, ActiveHasTask DEF SlotGranted
    <2> QED BY <1>1, <1>5, <2>1, ReadStep, StepAdvances DEF SlotGranted, BoardBecomes
  <1> QED BY <1>3, <1>4, <1>5 DEF Dispatching

\* A task that is put back and assigned at once, between reads.
LEMMA RedispatchSteps ==
  ASSUME NEW b, Good(b), NEW t \in TaskId, Counted(b, t), NEW a \in Agents \cup {NoAgent}
  PROVE  /\ StepOf(b, Read(PrepareForRedispatch(b, t), t), t)
         /\ StepOf(b, Read(AssignTask(Read(PrepareForRedispatch(b, t), t), t, a), t), t)
         /\ StepOf(b, PrepareForRedispatch(Read(AssignTask(b, t, a), t), t), t)
  <1> DEFINE c == PrepareForRedispatch(b, t)
             d == Read(c, t)
             e == AssignTask(d, t, a)
             x == AssignTask(b, t, a)
             y == Read(x, t)
  <1>1. StepOf(b, c, t) /\ Good(c)
    BY PrepareStep DEF StepOf
  <1> HIDE DEF c
  <1>2. StepOf(c, d, t) /\ Good(d) /\ Counted(d, t)
    BY <1>1, ReadStep DEF StepOf
  <1>3. StepOf(b, d, t)
    BY <1>1, <1>2, StepsCompose
  <1> HIDE DEF d
  <1>4. StepOf(d, e, t) /\ Good(e)
    BY <1>2, AssignStep DEF StepOf
  <1> HIDE DEF e
  <1>5. StepOf(e, Read(e, t), t)
    BY <1>4, ReadStep
  <1>6. StepOf(b, Read(e, t), t)
    BY <1>2, <1>3, <1>4, <1>5, StepsCompose
  <1>7. StepOf(b, x, t) /\ Good(x)
    BY AssignStep DEF StepOf
  <1> HIDE DEF x
  <1>8. StepOf(x, y, t) /\ Good(y) /\ Counted(y, t)
    BY <1>7, ReadStep DEF StepOf
  <1> HIDE DEF y
  <1>9. StepOf(b, PrepareForRedispatch(y, t), t)
    BY <1>7, <1>8, PrepareStep, StepsCompose
  <1> QED BY <1>3, <1>6, <1>9 DEF c, d, e, x, y

\* What workers report, crashes and respawns included.
LEMMA WorkingAdvances ==
  ASSUME Ready, Working
  PROVE  Advances(board, board')
  <1>1. Good(board) /\ Numbered(board) /\ PoolOK(pool) /\ RestOK
    BY DEF Ready, IInv
  <1>2. ASSUME NEW t \in TaskId
        PROVE  /\ StepOf(board, Read(board, t), t) /\ Good(Read(board, t))
               /\ Counted(Read(board, t), t)
               /\ Advances(board, Read(board, t)) /\ Numbered(Read(board, t))
    <2>1. StepOf(board, Read(board, t), t) /\ Counted(Read(board, t), t)
      BY <1>1, ReadStep
    <2>2. Advances(board, Read(board, t)) /\ Good(Read(board, t))
      BY <1>1, <2>1, StepAdvances DEF StepOf
    <2> QED BY <1>1, <2>1, <2>2, AdvancesNumbered
  <1>3. ASSUME NEW a \in Agents, NEW exit \in {"completed", "failed"},
               WorkerEnds(a, exit)
        PROVE  Advances(board, board')
    <2> DEFINE t == pool[a].task
               b == Read(board, t)
               ended == UpdateTaskStatus(b, t, "terminal", exit, TRUE)
    <2>1. t \in TaskId
      BY <1>1, <1>3, ActiveHasTask DEF WorkerEnds
    <2>2. board' = b \/ board' \in WithFollowUp(ended, t)
      BY <1>3 DEF WorkerEnds, BoardBecomes
    <2>3. Good(b) /\ Advances(board, b) /\ Numbered(b)
      BY <1>2, <2>1
    <2> HIDE DEF b, t
    <2>4. StepOf(b, ended, t)
      BY <2>1, <2>3, EndStep DEF Exits
    <2> HIDE DEF ended
    <2>5. Advances(b, ended) /\ Good(ended) /\ Numbered(ended)
      BY <2>1, <2>3, <2>4, StepAdvances, AdvancesNumbered DEF StepOf
    <2>6. CASE board' \in WithFollowUp(ended, t)
      <3>1. Advances(ended, board')
        BY <2>1, <2>5, <2>6, FollowUpEffect
      <3> QED BY <1>1, <2>3, <2>5, <3>1, AdvancesCompose
    <2> QED BY <2>2, <2>3, <2>6
  <1>4. ASSUME NEW a \in Agents, NEW class \in {"redispatch", "takeover", "external"},
               WorkerCrash(a, class)
        PROVE  Advances(board, board')
    <2> DEFINE t == pool[a].task
               b == Read(board, t)
               again == AssignTask(Read(PrepareForRedispatch(b, t), t), t, a)
    <2>1. t \in TaskId
      BY <1>1, <1>4, ActiveHasTask DEF WorkerCrash
    <2>2. board' \in {board, b, Read(again, t)}
      BY <1>4 DEF WorkerCrash, BoardBecomes
    <2>3. Good(b) /\ StepOf(board, b, t) /\ Counted(b, t)
      BY <1>2, <2>1
    <2> HIDE DEF b, t
    <2>4. StepOf(b, Read(again, t), t)
      BY <2>1, <2>3, RedispatchSteps
    <2> HIDE DEF again
    <2>5. StepOf(board, Read(again, t), t) /\ StepOf(board, board, t)
      BY <1>1, <2>1, <2>3, <2>4, StepsCompose, StepOfItself
    <2> QED BY <1>1, <2>1, <2>2, <2>3, <2>5, StepAdvances
  <1>5. ASSUME NEW a \in Agents, RespawnTimer(a)
        PROVE  Advances(board, board')
    <2>1. pool[a].task \in TaskId
      BY <1>1, <1>5, ActiveHasTask DEF RespawnTimer
    <2> QED BY <1>2, <1>5, <2>1 DEF RespawnTimer, BoardBecomes
  <1>6. ASSUME NEW a \in Agents, RespawnFails(a)
        PROVE  Advances(board, board')
    <2> DEFINE t == pool[a].task
               b == Read(board, t)
    <2>1. t \in TaskId
      BY <1>1, <1>6, ActiveHasTask DEF RespawnFails
    <2>2. board' \in {b, PrepareForRedispatch(b, t)}
      BY <1>6 DEF RespawnFails, BoardBecomes
    <2>3. Good(b) /\ StepOf(board, b, t) /\ Counted(b, t)
      BY <1>2, <2>1
    <2> HIDE DEF b, t
    <2>4. StepOf(board, PrepareForRedispatch(b, t), t)
      BY <1>1, <2>1, <2>3, PrepareStep, StepsCompose
    <2> QED BY <1>1, <2>1, <2>2, <2>3, <2>4, StepAdvances
  <1> QED BY <1>3, <1>4, <1>5, <1>6 DEF Working

\* A cancel by the user advances the board, and whoever waited for the task no
\* longer does.
LEMMA CancelCommandEffect ==
  ASSUME Ready, NEW t \in TaskId, CancelTaskCommand(t)
  PROVE  /\ Advances(board, board')
         /\ Linked(board) => \A u \in TaskId :
              board.rows[u] # NoTask => t \notin board'.rows[u].deps
  <1> DEFINE b == Read(board, t)
             c == CancelTask(b, t)
             S == b.mem[t].blocks
  <1>1. Good(board) /\ Numbered(board)
    BY DEF Ready, IInv
  <1>2. StepOf(board, b, t)
    BY <1>1, ReadStep
  <1>3. Good(b) /\ Advances(board, b) /\ Numbered(b)
    BY <1>1, <1>2, StepAdvances, AdvancesNumbered DEF StepOf
  <1>4. Loaded(b, t) /\ b.rows = board.rows
    BY <1>1, RowSurvives DEF CancelTaskCommand, Exists
  <1>5. S \in SUBSET TaskId
    BY <1>3, <1>4, BoardMaps DEF Good, Entry
  <1>6. PICK mid \in WithFollowUp(c, t) : board' = ReleaseDependents(mid, t, S)
    BY DEF CancelTaskCommand, BoardBecomes
  <1> HIDE DEF b
  <1>7. /\ Good(c) /\ RowsFollow(b, c) /\ NewIds(b, c) /\ c.counter = b.counter
        /\ \A u \in TaskId : c.rows[u] = NoTask <=> b.rows[u] = NoTask
        /\ \A u \in TaskId : Loaded(b, u) => Loaded(c, u)
        /\ \A u \in TaskId : b.rows[u] # NoTask => c.rows[u].deps = b.rows[u].deps
        /\ Linked(b) => LinkedBut(c, {t} \X S)
    BY <1>3, <1>4, CancelEffect
  <1> HIDE DEF c
  <1>8. Numbered(c)
    BY <1>3, <1>7 DEF Numbered
  <1>9. /\ Advances(c, mid) /\ Good(mid)
        /\ \A u \in TaskId : c.rows[u] # NoTask =>
             /\ mid.rows[u] # NoTask /\ mid.rows[u].deps = c.rows[u].deps
             /\ Loaded(c, u) => Loaded(mid, u)
        /\ LinkedBut(c, {t} \X S) => LinkedBut(mid, {t} \X S)
    BY <1>6, <1>7, <1>8, FollowUpEffect DEF Advances
  <1> HIDE DEF S
  <1>10. /\ Good(board') /\ RowsFollow(mid, board') /\ NewIds(mid, board')
         /\ LinkedBut(mid, {t} \X S) => Linked(board')
         /\ \A u \in TaskId : mid.rows[u] # NoTask =>
              /\ board'.rows[u].deps \subseteq mid.rows[u].deps
              /\ u \in S /\ Loaded(mid, u) => t \notin board'.rows[u].deps
    BY <1>5, <1>6, <1>9, ReleaseEffect
  <1>11. RowsFollow(b, mid) /\ NewIds(b, mid)
    BY <1>3, <1>7, <1>9, RunsCompose DEF Advances
  <1>12. RowsFollow(b, board') /\ NewIds(b, board')
    BY <1>3, <1>9, <1>10, <1>11, RunsCompose
  <1>13. Advances(b, board')
    BY <1>7, <1>9, <1>10, <1>12 DEF Advances
  <1>14. ASSUME Linked(board), NEW u \in TaskId, board.rows[u] # NoTask
         PROVE  t \notin board'.rows[u].deps
    <2>1. Linked(b)
      BY <1>3, <1>14 DEF Advances
    <2>2. Loaded(b, u) /\ b.rows[u] # NoTask
      BY <1>4, <1>14, <2>1 DEF Linked, LinkedBut, LinksStored
    <2>3. mid.rows[u] # NoTask /\ mid.rows[u].deps = b.rows[u].deps /\ Loaded(mid, u)
      BY <1>7, <1>9, <2>2
    <2>4. CASE t \in b.rows[u].deps
      <3>1. u \in S
        BY <2>1, <2>2, <2>4 DEF Linked, LinkedBut, S
      <3> QED BY <1>10, <2>3, <3>1
    <2>5. CASE t \notin b.rows[u].deps
      BY <1>10, <2>3, <2>5
    <2> QED BY <2>4, <2>5
  <1> QED BY <1>1, <1>3, <1>13, <1>14, AdvancesCompose

\* The Leader's control of agents, and the user's.
LEMMA ControllingAdvances ==
  ASSUME Ready, Controlling
  PROVE  Advances(board, board')
  <1>1. Good(board) /\ Numbered(board) /\ PoolOK(pool) /\ RestOK
    BY DEF Ready, IInv
  <1>2. ASSUME NEW a \in Agents, NEW throttled \in BOOLEAN, RetryAgent(a, throttled)
        PROVE  Advances(board, board')
    <2> DEFINE t == pool[a].task
               b == Read(board, t)
               opened == IF b.rows[t].status = "terminal" THEN ReopenTask(b, t) ELSE b
               open  == Read(opened, t)
               owned == IF open.rows[t].status = "dispatchable"
                        THEN AssignTask(open, t, a) ELSE open
    <2>1. t \in TaskId
      BY <1>1, <1>2, ActiveHasTask DEF RetryAgent
    <2>2. board' \in {owned, Read(owned, t)}
      BY <1>2 DEF RetryAgent, BoardBecomes
    <2>3. StepOf(board, b, t) /\ Good(b) /\ Counted(b, t)
      BY <1>1, <2>1, ReadStep DEF StepOf
    <2> HIDE DEF t, b
    <2>4. StepOf(b, opened, t) /\ Good(opened)
      BY <2>1, <2>3, ReopenStep, StepOfItself DEF StepOf
    <2> HIDE DEF opened
    <2>5. StepOf(opened, open, t) /\ Good(open) /\ Counted(open, t)
      BY <2>1, <2>4, ReadStep DEF StepOf
    <2> HIDE DEF open
    <2>6. StepOf(open, owned, t) /\ Good(owned)
      BY <2>1, <2>5, AssignStep, StepOfItself DEF StepOf
    <2> HIDE DEF owned
    <2>7. StepOf(owned, board', t)
      BY <2>1, <2>2, <2>6, ReadStep, StepOfItself
    <2>8. StepOf(board, open, t)
      BY <1>1, <2>1, <2>3, <2>4, <2>5, StepsCompose
    <2>9. StepOf(board, board', t)
      BY <1>1, <2>1, <2>6, <2>7, <2>8, StepsCompose
    <2> QED BY <1>1, <2>1, <2>9, StepAdvances
  <1>3. ASSUME NEW a \in Agents, FollowUpMessage(a)
        PROVE  Advances(board, board')
    <2> DEFINE source == Read(board, pool[a].task)
    <2>1. pool[a].task \in TaskId
      BY <1>1, <1>3, ActiveHasTask DEF FollowUpMessage
    <2>2. StepOf(board, source, pool[a].task)
      BY <1>1, <2>1, ReadStep
    <2>3. Good(source) /\ Advances(board, source) /\ Numbered(source)
      BY <1>1, <2>1, <2>2, StepAdvances, AdvancesNumbered DEF StepOf
    <2>4. PICK created \in CreateNext(source, {}) :
            board' = Read(AssignTask(created, created.counter, a), created.counter)
      BY <1>3 DEF FollowUpMessage, BoardBecomes
    <2> DEFINE t == created.counter
               b == AssignTask(created, t, a)
    <2> HIDE DEF source
    <2>5. Good(created) /\ t \in TaskId /\ Advances(source, created) /\ Counted(created, t)
      BY <2>3, <2>4, CreateNextGood, CreateNextEffect
    <2> HIDE DEF t
    <2>6. StepOf(created, b, t) /\ Good(b)
      BY <2>5, AssignStep DEF StepOf
    <2>7. board' = Read(b, t)
      BY <2>4 DEF t
    <2> HIDE DEF b
    <2>8. StepOf(b, board', t)
      BY <2>5, <2>6, <2>7, ReadStep
    <2>9. Advances(created, board')
      BY <2>5, <2>6, <2>8, StepsCompose, StepAdvances
    <2>10. Advances(source, board')
      BY <2>3, <2>5, <2>9, AdvancesCompose
    <2> QED BY <1>1, <2>3, <2>10, AdvancesCompose
  <1>4. ASSUME NEW a \in Agents, TerminateAgent(a)
        PROVE  Advances(board, board')
    <2>1. pool[a].task \in TaskId
      BY <1>1, <1>4, ActiveHasTask DEF TerminateAgent
    <2> QED BY <1>1, <1>4, <2>1, EndStep, StepAdvances
            DEF TerminateAgent, BoardBecomes, Exits
  <1>5. ASSUME NEW a \in Agents, NEW t \in TaskId, ForceEnd(t, a)
        PROVE  Advances(board, board')
    BY <1>1, <1>5, EndStep, StepAdvances DEF ForceEnd, BoardBecomes, Exits
  <1>6. ASSUME NEW t \in TaskId, ForceBegin(t)
        PROVE  Advances(board, board')
    <2> DEFINE b == Read(board, t)
    <2>1. board' \in {b, UpdateTaskStatus(b, t, "terminal", "completed", TRUE)}
      BY <1>6 DEF ForceBegin, BoardBecomes
    <2>2. StepOf(board, b, t) /\ Good(b)
      BY <1>1, ReadStep DEF StepOf
    <2> HIDE DEF b
    <2>3. StepOf(b, board', t)
      BY <2>1, <2>2, EndStep, StepOfItself DEF Exits
    <2> QED BY <1>1, <2>2, <2>3, StepsCompose, StepAdvances
  <1>7. ASSUME NEW t \in TaskId, CancelTaskCommand(t)
        PROVE  Advances(board, board')
    BY <1>7, CancelCommandEffect
  <1> QED BY <1>2, <1>3, <1>4, <1>5, <1>6, <1>7 DEF Controlling

\* A receipt that the Leader judges ends its run, or makes way for the next one.
LEMMA ReceiptEffect ==
  ASSUME Ready, NEW r \in receipts, NEW accepted \in BOOLEAN,
         LeaderReceipt(r, accepted)
  PROVE  /\ Advances(board, board')
         /\ LET row == board'.rows[r.task]
            IN  /\ row # NoTask
                /\ row.gen > r.gen \/ (row.gen = r.gen /\ row.status = "terminal")
  <1> DEFINE t == r.task
             b == Read(board, t)
             endedAs(c, exit) == UpdateTaskStatus(c, t, "terminal", exit, TRUE)
  <1>1. Good(board) /\ Numbered(board) /\ RestOK
    BY DEF Ready, IInv
  <1>2. t \in TaskId /\ r.gen \in Nat
    BY <1>1 DEF RestOK, Receipt
  <1>3. StepOf(board, b, t) /\ Good(b) /\ Counted(b, t) /\ Numbered(b)
        /\ Advances(board, b)
    BY <1>1, <1>2, ReadStep, StepAdvances, AdvancesNumbered DEF StepOf
  <1>4. b.rows = board.rows /\ Loaded(b, t) /\ b.rows[t] # NoTask
        /\ b.rows[t].gen = r.gen
    <2>1. Passes(b, r)
      BY DEF LeaderReceipt
    <2>2. b.rows[t] # NoTask /\ b.rows[t].gen = r.gen
      BY <2>1 DEF Passes, Exists
    <2>3. b.rows = board.rows
      BY <1>1 DEF Read, Good, Board
    <2> QED BY <1>1, <1>2, <2>2, <2>3, RowSurvives
  <1>5. PICK judged \in WithFollowUp(b, t) :
          \/ \E next \in WithFollowUp(endedAs(judged, "failed"), t) : board' = next
          \/ board' = endedAs(judged, "completed")
          \/ board' = PrepareForRedispatch(judged, t)
    BY DEF LeaderReceipt, BoardBecomes
  <1> HIDE DEF b, t
  <1>6. /\ Advances(b, judged) /\ Good(judged) /\ Numbered(judged)
        /\ judged.rows[t] # NoTask /\ judged.rows[t].gen = r.gen
        /\ Loaded(judged, t) /\ Counted(judged, t)
    <2>1. /\ Advances(b, judged) /\ judged.rows[t] # NoTask
          /\ judged.rows[t].gen = r.gen /\ Loaded(judged, t)
          /\ judged.mem[t].gen = b.mem[t].gen
      BY <1>2, <1>3, <1>4, <1>5, FollowUpEffect
    <2> QED BY <1>3, <1>4, <2>1, AdvancesNumbered DEF Advances, Counted
  <1>7. ASSUME NEW exit \in {"failed", "completed"}
        PROVE  LET c == endedAs(judged, exit)
               IN  /\ StepOf(judged, c, t) /\ Good(c) /\ Advances(judged, c)
                   /\ c.rows[t].status = "terminal" /\ c.rows[t].gen = r.gen
                   /\ c.rows[t] # NoTask /\ Numbered(c)
    <2> DEFINE c == endedAs(judged, exit)
    <2>1. exit \in Exits
      BY DEF Exits
    <2>2. /\ StepOf(judged, c, t)
          /\ c.rows[t].status = "terminal" /\ c.rows[t].gen = r.gen
          /\ c.rows[t] # NoTask
      BY <1>2, <1>6, <2>1, EndStep
    <2> HIDE DEF c
    <2>3. Good(c) /\ Advances(judged, c)
      BY <1>2, <1>6, <2>2, StepAdvances DEF StepOf
    <2>4. Numbered(c)
      BY <1>6, <2>3, AdvancesNumbered
    <2> QED BY <2>2, <2>3, <2>4 DEF c
  <1>8. CASE \E next \in WithFollowUp(endedAs(judged, "failed"), t) : board' = next
    <2> DEFINE c == endedAs(judged, "failed")
    <2>1. /\ Good(c) /\ Advances(judged, c) /\ Numbered(c)
          /\ c.rows[t].status = "terminal" /\ c.rows[t].gen = r.gen
          /\ c.rows[t] # NoTask /\ board' \in WithFollowUp(c, t)
      BY <1>7, <1>8
    <2> HIDE DEF c
    <2>2. /\ Advances(c, board') /\ board'.rows[t] # NoTask
          /\ board'.rows[t].status = "terminal" /\ board'.rows[t].gen = r.gen
      BY <1>2, <2>1, FollowUpEffect
    <2>3. Advances(b, board')
      BY <1>3, <1>6, <2>1, <2>2, AdvancesCompose
    <2> QED BY <1>1, <1>3, <2>2, <2>3, AdvancesCompose DEF t
  <1>9. CASE board' = endedAs(judged, "completed")
    <2>1. /\ Advances(judged, board') /\ board'.rows[t] # NoTask
          /\ board'.rows[t].status = "terminal" /\ board'.rows[t].gen = r.gen
      BY <1>7, <1>9
    <2>2. Advances(b, board')
      BY <1>3, <1>6, <2>1, AdvancesCompose
    <2> QED BY <1>1, <1>3, <2>1, <2>2, AdvancesCompose DEF t
  <1>10. CASE board' = PrepareForRedispatch(judged, t)
    <2>1. StepOf(judged, board', t) /\ board'.rows[t].gen = r.gen + 1
      BY <1>2, <1>6, <1>10, PrepareStep
    <2>2. board'.rows[t] # NoTask /\ board'.rows[t].gen > r.gen
      BY <1>2, <1>6, <2>1 DEF StepOf
    <2>3. Advances(b, board')
      BY <1>2, <1>3, <1>6, <2>1, StepAdvances, AdvancesCompose
    <2> QED BY <1>1, <1>3, <2>2, <2>3, AdvancesCompose DEF t
  <1> QED BY <1>5, <1>8, <1>9, <1>10

\* What recovery does for one task is a step of that task.
LEMMA RecoverySteps ==
  ASSUME NEW b, Good(b), NEW t \in TaskId
  PROVE  /\ StepOf(b, ReconcileTask(b, t), t)
         /\ StepOf(b, Redispatched(b, t), t)
         /\ StepOf(b, Resumed(b, t), t)
  <1> DEFINE c == Read(b, t)
             mine == IF c.rows[t].status = "running" THEN c ELSE AssignTask(c, t, NoAgent)
  <1>1. StepOf(b, c, t) /\ Good(c) /\ Counted(c, t)
    BY ReadStep DEF StepOf
  <1>2. /\ ReconcileTask(b, t) \in {c, BlockTask(c, t), PrepareForRedispatch(c, t)}
        /\ Redispatched(b, t) = PrepareForRedispatch(c, t)
        /\ Resumed(b, t) = PrepareForRedispatch(Read(mine, t), t)
    BY DEF ReconcileTask, Redispatched, Resumed
  <1> HIDE DEF c
  <1>3. /\ StepOf(b, PrepareForRedispatch(c, t), t)
        /\ StepOf(b, BlockTask(c, t), t)
    BY <1>1, PrepareStep, BlockStep, StepsCompose
  <1>4. StepOf(c, mine, t) /\ Good(mine)
    BY <1>1, AssignStep, StepOfItself DEF StepOf
  <1> HIDE DEF mine
  <1>5. StepOf(mine, Read(mine, t), t) /\ Good(Read(mine, t)) /\ Counted(Read(mine, t), t)
    BY <1>4, ReadStep DEF StepOf
  <1>6. StepOf(b, Read(mine, t), t)
    BY <1>1, <1>4, <1>5, StepsCompose
  <1>7. StepOf(b, PrepareForRedispatch(Read(mine, t), t), t)
    BY <1>5, <1>6, PrepareStep, StepsCompose
  <1> QED BY <1>1, <1>2, <1>3, <1>7

\* Each of the three methods that recovery applies to a set of tasks.
LEMMA OnEachAdvances ==
  ASSUME NEW b, Good(b), NEW S \in SUBSET TaskId
  PROVE  /\ Advances(b, OnEach(b, S, ReconcileTask))
         /\ Advances(b, OnEach(b, S, Redispatched))
         /\ Advances(b, OnEach(b, S, Resumed))
  <1>1. Advances(b, OnEach(b, S, ReconcileTask))
    <2> DEFINE f == [t \in TaskId |-> ReconcileTask(b, t)]
               mem  == [t \in TaskId |-> IF t \in S THEN f[t].mem[t] ELSE b.mem[t]]
               rows == [t \in TaskId |-> IF t \in S THEN f[t].rows[t] ELSE b.rows[t]]
    <2>1. \A t \in S : StepOf(b, f[t], t)
      BY RecoverySteps
    <2>2. Advances(b, [b EXCEPT !.mem = mem, !.rows = rows])
      BY <2>1, MergedAdvances
    <2>3. mem = [t \in TaskId |-> IF t \in S THEN ReconcileTask(b, t).mem[t]
                                  ELSE b.mem[t]]
      BY DEF f
    <2>4. rows = [t \in TaskId |-> IF t \in S THEN ReconcileTask(b, t).rows[t]
                                   ELSE b.rows[t]]
      BY DEF f
    <2> HIDE DEF mem, rows
    <2> QED BY <2>2, <2>3, <2>4 DEF OnEach
  <1>2. Advances(b, OnEach(b, S, Redispatched))
    <2> DEFINE f == [t \in TaskId |-> Redispatched(b, t)]
               mem  == [t \in TaskId |-> IF t \in S THEN f[t].mem[t] ELSE b.mem[t]]
               rows == [t \in TaskId |-> IF t \in S THEN f[t].rows[t] ELSE b.rows[t]]
    <2>1. \A t \in S : StepOf(b, f[t], t)
      BY RecoverySteps
    <2>2. Advances(b, [b EXCEPT !.mem = mem, !.rows = rows])
      BY <2>1, MergedAdvances
    <2>3. mem = [t \in TaskId |-> IF t \in S THEN Redispatched(b, t).mem[t]
                                  ELSE b.mem[t]]
      BY DEF f
    <2>4. rows = [t \in TaskId |-> IF t \in S THEN Redispatched(b, t).rows[t]
                                   ELSE b.rows[t]]
      BY DEF f
    <2> HIDE DEF mem, rows
    <2> QED BY <2>2, <2>3, <2>4 DEF OnEach
  <1>3. Advances(b, OnEach(b, S, Resumed))
    <2> DEFINE f == [t \in TaskId |-> Resumed(b, t)]
               mem  == [t \in TaskId |-> IF t \in S THEN f[t].mem[t] ELSE b.mem[t]]
               rows == [t \in TaskId |-> IF t \in S THEN f[t].rows[t] ELSE b.rows[t]]
    <2>1. \A t \in S : StepOf(b, f[t], t)
      BY RecoverySteps
    <2>2. Advances(b, [b EXCEPT !.mem = mem, !.rows = rows])
      BY <2>1, MergedAdvances
    <2>3. mem = [t \in TaskId |-> IF t \in S THEN Resumed(b, t).mem[t]
                                  ELSE b.mem[t]]
      BY DEF f
    <2>4. rows = [t \in TaskId |-> IF t \in S THEN Resumed(b, t).rows[t]
                                   ELSE b.rows[t]]
      BY DEF f
    <2> HIDE DEF mem, rows
    <2> QED BY <2>2, <2>3, <2>4 DEF OnEach
  <1> QED BY <1>1, <1>2, <1>3

\* A new process goes on with the runs of the rows it loads, and forgets which
\* receipts were judged.
LEMMA RestartEffect ==
  ASSUME NEW b, Good(b), RestartFrom(b)
  PROVE  /\ RowsFollow(b, board') /\ Numbered(board') /\ processed' = {}
         /\ Linked(b) => Linked(board')
  <1>1. PICK n \in 0..MaxTasks :
          /\ IsHighestId(b, n)
          /\ \E S \in Recovered(LoadFromDB(b, n)) :
               board' = OnEach(LoadFromDB(b, n), S, Resumed)
    BY DEF RestartFrom, BoardBecomes
  <1> DEFINE loaded == LoadFromDB(b, n)
  <1>2. Good(loaded) /\ loaded.rows = b.rows /\ Numbered(loaded)
        /\ (Linked(b) => Linked(loaded))
    BY <1>1, LoadFromDBGood, LoadEffect
  <1>3. PICK S \in SUBSET TaskId : board' = OnEach(loaded, S, Resumed)
    BY <1>1 DEF Recovered
  <1> HIDE DEF loaded
  <1>4. Advances(loaded, board')
    BY <1>2, <1>3, OnEachAdvances
  <1>5. Numbered(board')
    BY <1>2, <1>4, AdvancesNumbered
  <1>6. processed' = {}
    BY DEF RestartFrom
  <1> QED BY <1>2, <1>4, <1>5, <1>6 DEF Advances, RowsFollow

\* A deletion removes the row of a task that nobody began, and no other.
LEMMA DeletionEffect ==
  ASSUME Ready, NEW t \in TaskId, DeleteTaskTool(t)
  PROVE  /\ board.rows[t] # NoTask /\ board.rows[t].status = "dispatchable"
         /\ board'.rows[t] = NoTask /\ board'.counter = board.counter
         /\ \A u \in TaskId \ {t} :
              /\ Follows(board.rows[u], board'.rows[u])
              /\ board'.rows[u] = NoTask <=> board.rows[u] = NoTask
         /\ processed' = processed
         /\ Linked(board) => Linked(board')
  <1> DEFINE b == Read(board, t)
  <1>1. Good(board)
    BY DEF Ready, IInv
  <1>2. StepOf(board, b, t) /\ Good(b) /\ Advances(board, b)
    BY <1>1, ReadStep, StepAdvances DEF StepOf
  <1>3. b.rows = board.rows
    BY <1>1 DEF Read, Good, Board
  <1>4. /\ Loaded(b, t) /\ b.mem[t].status = "dispatchable"
        /\ board' = DeleteTask(b, t) /\ processed' = processed
    BY DEF DeleteTaskTool, Editable, BoardBecomes
  <1> HIDE DEF b
  <1>5. b.rows[t] # NoTask /\ b.rows[t].status = "dispatchable"
    BY <1>2, <1>4, SameState
  <1>6. /\ board'.counter = b.counter /\ board'.rows[t] = NoTask
        /\ \A u \in TaskId \ {t} :
             /\ Follows(b.rows[u], board'.rows[u])
             /\ board'.rows[u] = NoTask <=> b.rows[u] = NoTask
        /\ Linked(b) => Linked(board')
    BY <1>2, <1>4, DeleteEffect
  <1> QED BY <1>2, <1>3, <1>4, <1>5, <1>6 DEF StepOf, Advances

\* An eviction leaves the rows.
LEMMA EvictionEffect ==
  ASSUME Ready, NEW S \in SUBSET TaskId, EvictTasks(S)
  PROVE  /\ RowsFollow(board, board') /\ NewIds(board, board')
         /\ processed' = processed /\ "session_ttl" \in Features
  <1>1. Good(board)
    BY DEF Ready, IInv
  <1>2. board'.rows = board.rows /\ board'.counter = board.counter
        /\ processed' = processed /\ "session_ttl" \in Features
    BY <1>1 DEF EvictTasks, Evict, Good, Board
  <1>3. RowsFollow(board, board')
    BY <1>1, <1>2, BoardMaps, FollowsIsPreorder DEF RowsFollow, Good
  <1>4. NewIds(board, board')
    BY <1>1, <1>2, CounterIsNat DEF NewIds
  <1> QED BY <1>2, <1>3, <1>4

\* Every handler, by what it does to the board and to the judged receipts.
HandlerEffect ==
  \/ Advances(board, board') /\ processed' = processed
  \/ /\ Advances(board, board')
     /\ \E r \in receipts, accepted \in BOOLEAN : LeaderReceipt(r, accepted)
  \/ \E t \in TaskId : DeleteTaskTool(t)
  \/ /\ RowsFollow(board, board') /\ Numbered(board') /\ processed' = {}
     /\ "cancel_crash" \notin Features => (Linked(board) => Linked(board'))
  \/ \E S \in SUBSET TaskId : EvictTasks(S)

LEMMA EveryHandler ==
  ASSUME Ready, Next
  PROVE  HandlerEffect
  <1>1. Good(board) /\ Numbered(board)
    BY DEF Ready, IInv
  <1>2. CASE Planning
    <2>1. processed' = processed
      BY <1>2 DEF Planning, CreateTaskTool, UpdateTaskTool, DeleteTaskTool,
                  UpdateTaskStatusTool, ReadTask
    <2> QED BY <1>2, <2>1, PlanningAdvances DEF HandlerEffect
  <1>3. CASE Dispatching
    <2>1. processed' = processed
      BY <1>3 DEF Dispatching, Dispatch, DispatchRefused, SlotGranted
    <2> QED BY <1>3, <2>1, DispatchingAdvances DEF HandlerEffect
  <1>4. CASE Working
    <2>1. processed' = processed
      BY <1>4 DEF Working, WorkerEnds, WorkerCrash, RespawnTimer, RespawnFails
    <2> QED BY <1>4, <2>1, WorkingAdvances DEF HandlerEffect
  <1>5. CASE Controlling
    <2>1. processed' = processed
      BY <1>5 DEF Controlling, RetryAgent, FollowUpMessage, TerminateAgent, ForceEnd,
                  CancelTaskCommand, ForceBegin
    <2> QED BY <1>5, <2>1, ControllingAdvances DEF HandlerEffect
  <1>6. CASE Judging
    BY <1>6, ReceiptEffect DEF Judging, HandlerEffect
  <1>7. CASE Recovering
    <2>1. CASE Reconcile
      <3> DEFINE S == {t \in TaskId : recs[t].kind # "none"}
      <3>1. board' = OnEach(board, S, ReconcileTask) /\ processed' = processed
        BY <2>1 DEF Reconcile, BoardBecomes
      <3>2. S \in SUBSET TaskId
        OBVIOUS
      <3> HIDE DEF S
      <3> QED BY <1>1, <3>1, <3>2, OnEachAdvances DEF HandlerEffect
    <2>2. CASE LeaderWake
      <3>1. PICK S \in SUBSET TaskId : board' = OnEach(board, S, Redispatched)
        BY <2>2 DEF LeaderWake, BoardBecomes, Recovered
      <3>2. processed' = processed
        BY <2>2 DEF LeaderWake
      <3> QED BY <1>1, <3>1, <3>2, OnEachAdvances DEF HandlerEffect
    <2>3. CASE Restart
      BY <1>1, <2>3, RestartEffect DEF Restart, HandlerEffect
    <2>4. ASSUME NEW t \in TaskId, CrashInCancel(t)
          PROVE  HandlerEffect
      <3> DEFINE b == Read(board, t)
                 c == CancelTask(b, t)
      <3>1. StepOf(board, b, t) /\ Good(b)
        BY <1>1, ReadStep DEF StepOf
      <3>2. Loaded(b, t) /\ RestartFrom(c) /\ "cancel_crash" \in Features
        BY <1>1, <2>4, RowSurvives DEF CrashInCancel, Exists
      <3>3. Advances(board, b)
        BY <1>1, <3>1, StepAdvances
      <3> HIDE DEF b
      <3>4. Good(c) /\ RowsFollow(b, c) /\ NewIds(b, c)
        BY <3>1, <3>2, CancelEffect
      <3>5. RowsFollow(board, c)
        BY <1>1, <3>1, <3>3, <3>4, RunsCompose DEF Advances
      <3> HIDE DEF c
      <3>6. RowsFollow(c, board') /\ Numbered(board') /\ processed' = {} /\ Good(board')
        <4>1. RowsFollow(c, board') /\ Numbered(board') /\ processed' = {}
          BY <3>2, <3>4, RestartEffect
        <4>2. IInv'
          BY <3>2, <3>4, RestartOK DEF Ready
        <4> QED BY <4>1, <4>2 DEF IInv
      <3>7. RowsFollow(board, board')
        <4>1. ASSUME NEW u \in TaskId PROVE Follows(board.rows[u], board'.rows[u])
          <5>1. /\ board.rows[u] \in Row \cup {NoTask} /\ c.rows[u] \in Row \cup {NoTask}
                /\ board'.rows[u] \in Row \cup {NoTask}
            BY <1>1, <3>4, <3>6, BoardMaps DEF Good
          <5> QED BY <3>5, <3>6, <5>1, FollowsIsPreorder DEF RowsFollow
        <4> QED BY <4>1 DEF RowsFollow
      <3> QED BY <3>2, <3>6, <3>7 DEF HandlerEffect
    <2>5. ASSUME NEW S \in SUBSET TaskId, EvictTasks(S)
          PROVE  HandlerEffect
      BY <2>5 DEF HandlerEffect
    <2> QED BY <1>7, <2>1, <2>2, <2>3, <2>4, <2>5 DEF Recovering
  <1> QED BY <1>2, <1>3, <1>4, <1>5, <1>6, <1>7 DEF Next

\* The ids stay behind the counter, whatever happens.
LEMMA ReadyInductive == Ready /\ [Next]_vars => Ready'
  <1> SUFFICES ASSUME Ready, [Next]_vars PROVE Ready'
    OBVIOUS
  <1>1. IInv'
    BY Inductive DEF Ready
  <1>2. Numbered(board')
    <2>1. Good(board) /\ Numbered(board) /\ Good(board')
      BY <1>1 DEF Ready, IInv
    <2>2. CASE UNCHANGED vars
      BY <2>1, <2>2 DEF vars
    <2>3. CASE Advances(board, board')
      BY <2>1, <2>3, AdvancesNumbered
    <2>4. ASSUME NEW t \in TaskId, DeleteTaskTool(t) PROVE Numbered(board')
      BY <2>1, <2>4, DeletionEffect DEF Numbered
    <2>5. ASSUME NEW S \in SUBSET TaskId, EvictTasks(S) PROVE Numbered(board')
      <3>1. NewIds(board, board')
        BY <2>5, EvictionEffect
      <3> QED BY <2>1, <3>1, CounterIsNat DEF Numbered, NewIds
    <2>6. CASE Next
      BY <2>3, <2>4, <2>5, <2>6, EveryHandler DEF HandlerEffect
    <2> QED BY <2>2, <2>6
  <1> QED BY <1>1, <1>2 DEF Ready

\* The empty session is ready.
LEMMA ReadyInit == Init => Ready
  <1> SUFFICES ASSUME Init PROVE Ready
    OBVIOUS
  <1>1. Numbered(board)
    BY DEF Init, EmptyBoard, Numbered
  <1> QED BY <1>1, InitOK DEF Ready

-----------------------------------------------------------------------------
(* The ledger of runs *)

\* A row that follows another is a step of its entry in the ledger.
LEMMA FollowingEntry ==
  ASSUME NEW r \in Row \cup {NoTask}, NEW s \in Row \cup {NoTask}, Follows(r, s)
  PROVE  Ledger!EntryStep(LedgerEntry(r), LedgerEntry(s))
  <1>1. ASSUME NEW x \in Row, x # NoTask
        PROVE  /\ LedgerEntry(x) # NoTask
               /\ LedgerEntry(x).gen = x.gen
               /\ x.status = "dispatchable" => LedgerEntry(x).life = "open"
               /\ x.status = "running" => LedgerEntry(x).life = "running"
               /\ x.status = "terminal" => LedgerEntry(x).life = "done"
               /\ x.status \in {"dispatchable", "running", "terminal"}
               /\ x.gen \in Nat
    <2>1. x.gen \in Nat /\ x.status \in {"dispatchable", "running", "terminal"}
      BY DEF Row, Statuses
    <2> DEFINE life == CASE x.status = "dispatchable" -> "open"
                         [] x.status = "running" -> "running"
                         [] OTHER -> "done"
    <2>2. LedgerEntry(x) = [gen |-> x.gen, life |-> life]
      BY <1>1 DEF LedgerEntry
    <2>3. life \in {"open", "running", "done"}
      BY <2>1
    <2>4. [gen |-> x.gen, life |-> life] \in
             [life : {"open", "running", "done"}, gen : Nat]
      BY <2>1, <2>3
    <2> QED BY <2>1, <2>2, <2>4, LedgerAssumption
  <1>2. LedgerEntry(NoTask) = NoTask
    BY DEF LedgerEntry
  <1>3. CASE s = NoTask
    BY <1>2, <1>3 DEF Follows, Ledger!EntryStep
  <1>4. CASE r = NoTask /\ s # NoTask
    <2>1. s \in Row
      BY <1>4
    <2>2. s.gen > 0 \/ (s.gen = 0 /\ s.status \in {"dispatchable", "terminal"})
      BY <1>4 DEF Follows
    <2>3. Ledger!Later([life |-> "open", gen |-> 0], LedgerEntry(s))
      BY <1>1, <1>4, <2>1, <2>2 DEF Ledger!Later
    <2> QED BY <1>1, <1>2, <1>4, <2>1, <2>3 DEF Ledger!EntryStep
  <1>5. CASE r # NoTask /\ s # NoTask
    <2>1. r \in Row /\ s \in Row
      BY <1>5
    <2>2. s.gen > r.gen \/ (s.gen = r.gen /\ s.status \in {r.status, "terminal"})
      BY <1>5 DEF Follows
    <2>3. Ledger!Later(LedgerEntry(r), LedgerEntry(s))
      BY <1>1, <1>5, <2>1, <2>2 DEF Ledger!Later
    <2> QED BY <1>1, <1>5, <2>1, <2>3 DEF Ledger!EntryStep
  <1> QED BY <1>3, <1>4, <1>5

\* The entries of the ledger, as a function.
Entries(b) == [t \in TaskId |-> LedgerEntry(b.rows[t])]

\* The rows of a good board make a ledger.
LEMMA LedgerType ==
  ASSUME NEW b, Good(b)
  PROVE  Entries(b) \in [TaskId -> Ledger!Entries]
  <1>1. ASSUME NEW t \in TaskId PROVE LedgerEntry(b.rows[t]) \in Ledger!Entries
    <2>1. b.rows[t] \in Row \cup {NoTask}
      BY BoardMaps DEF Good
    <2> DEFINE r == b.rows[t]
               life == CASE r.status = "dispatchable" -> "open"
                         [] r.status = "running" -> "running"
                         [] OTHER -> "done"
    <2>2. CASE r = NoTask
      BY <2>2 DEF LedgerEntry, Ledger!Entries
    <2>3. CASE r # NoTask
      <3>1. r.gen \in Nat
        BY <2>1, <2>3 DEF Row
      <3>2. LedgerEntry(r) = [gen |-> r.gen, life |-> life]
        BY <2>3 DEF LedgerEntry
      <3>3. life \in {"open", "running", "done"}
        OBVIOUS
      <3> HIDE DEF life, r
      <3>4. [gen |-> r.gen, life |-> life] \in
               [life : {"open", "running", "done"}, gen : Nat]
        BY <3>1, <3>3
      <3> QED BY <3>2, <3>4 DEF Ledger!Entries, Ledger!Lives, r
    <2> QED BY <2>2, <2>3
  <1> QED BY <1>1 DEF Entries

\* Every handler is a step of the ledger, for every task at once.
LEMMA LedgerStep ==
  ASSUME Ready, Ready', Next
  PROVE  Ledger!LedgerNext
  <1>1. Good(board) /\ Good(board')
    BY DEF Ready, IInv
  <1>2. ASSUME NEW t \in TaskId
        PROVE  Ledger!EntryStep(LedgerEntry(board.rows[t]), LedgerEntry(board'.rows[t]))
    <2>1. board.rows[t] \in Row \cup {NoTask} /\ board'.rows[t] \in Row \cup {NoTask}
      BY <1>1, BoardMaps DEF Good
    <2>2. CASE Follows(board.rows[t], board'.rows[t])
      BY <2>1, <2>2, FollowingEntry
    <2>3. CASE DeleteTaskTool(t)
      <3>1. /\ board.rows[t] # NoTask /\ board.rows[t].status = "dispatchable"
            /\ board'.rows[t] = NoTask
        BY <2>3, DeletionEffect
      <3>2. /\ LedgerEntry(board.rows[t]) = [gen |-> board.rows[t].gen, life |-> "open"]
            /\ LedgerEntry(board'.rows[t]) = NoTask
        BY <3>1 DEF LedgerEntry
      <3>3. board.rows[t].gen \in Nat
        BY <2>1, <3>1 DEF Row
      <3>4. [gen |-> board.rows[t].gen, life |-> "open"] # NoTask
        BY <3>3, LedgerAssumption
      <3> QED BY <3>2, <3>4 DEF Ledger!EntryStep
    <2>4. ASSUME NEW u \in TaskId \ {t}, DeleteTaskTool(u)
          PROVE  Follows(board.rows[t], board'.rows[t])
      BY <2>4, DeletionEffect
    <2>5. RowsFollow(board, board') => Follows(board.rows[t], board'.rows[t])
      BY DEF RowsFollow
    <2>6. \A S \in SUBSET TaskId : EvictTasks(S) => RowsFollow(board, board')
      BY EvictionEffect
    <2> QED BY <2>2, <2>3, <2>4, <2>5, <2>6, EveryHandler DEF HandlerEffect, Advances
  <1>3. Entries(board') \in [TaskId -> Ledger!Entries]
    BY <1>1, LedgerType
  <1> QED BY <1>2, <1>3 DEF Ledger!LedgerNext, Entries

\* The rows keep the ledger of runs: through every tool, dispatch, verdict,
\* crash, recovery, reload and eviction, the generation of a task only grows, a
\* run that ended is not resumed, and a row goes only while nothing was begun.
THEOREM LedgerIsKept == Spec => RowsKeepLedger
  <1>1. Init => Ledger!LedgerInit
    BY DEF Init, EmptyBoard, LedgerEntry, Ledger!LedgerInit
  <1>2. Ready /\ Ready' /\ [Next]_vars =>
          [Ledger!LedgerNext]_([t \in TaskId |-> LedgerEntry(board.rows[t])])
    <2>1. UNCHANGED vars => UNCHANGED [t \in TaskId |-> LedgerEntry(board.rows[t])]
      BY DEF vars
    <2> QED BY <2>1, LedgerStep
  <1> QED BY <1>1, <1>2, ReadyInit, ReadyInductive, PTL
          DEF Spec, RowsKeepLedger, Ledger!LedgerSpec

-----------------------------------------------------------------------------
(* The verdicts *)

\* The run (t, g) is over.
Settled(b, t, g) ==
  \/ b.rows[t] = NoTask
  \/ b.rows[t].gen > g
  \/ b.rows[t].gen = g /\ b.rows[t].status = "terminal"

\* Every judged run is over, and its id will not be given again.
VerdictInv ==
  Ready /\ \A p \in processed : p.task <= board.counter /\ Settled(board, p.task, p.gen)

\* A run that is over stays so.
LEMMA StaysSettled ==
  ASSUME NEW b, Good(b), NEW c, Good(c), RowsFollow(b, c), NewIds(b, c),
         NEW t \in TaskId, NEW g \in Nat, t <= b.counter, Settled(b, t, g)
  PROVE  t <= c.counter /\ Settled(c, t, g)
  <1>1. b.counter \in Nat /\ c.counter \in Nat /\ t \in Nat
    BY CounterIsNat
  <1>2. t <= c.counter
    BY <1>1 DEF NewIds
  <1>3. CASE b.rows[t] = NoTask
    <2>1. c.rows[t] = NoTask
      BY <1>1, <1>3 DEF NewIds
    <2> QED BY <1>2, <2>1 DEF Settled
  <1>4. CASE b.rows[t] # NoTask /\ c.rows[t] # NoTask
    <2>1. b.rows[t].gen \in Nat /\ c.rows[t].gen \in Nat
      BY <1>4, BoardMaps DEF Good, Row
    <2>2. Follows(b.rows[t], c.rows[t])
      BY DEF RowsFollow
    <2> QED BY <1>2, <1>4, <2>1, <2>2 DEF Follows, Settled
  <1>5. CASE c.rows[t] = NoTask
    BY <1>2, <1>5 DEF Settled
  <1> QED BY <1>3, <1>4, <1>5

\* Every handler settles what it judges and leaves settled what was.
LEMMA VerdictInductive == VerdictInv /\ [Next]_vars => VerdictInv'
  <1> SUFFICES ASSUME VerdictInv, [Next]_vars PROVE VerdictInv'
    OBVIOUS
  <1>1. Ready /\ Ready' /\ Good(board) /\ Good(board') /\ processed \subseteq Receipt
    BY ReadyInductive DEF VerdictInv, Ready, IInv, RestOK
  <1>2. \A p \in processed : /\ p.task \in TaskId /\ p.gen \in Nat
                             /\ p.task <= board.counter
                             /\ Settled(board, p.task, p.gen)
    BY <1>1 DEF VerdictInv, Receipt
  <1>3. ASSUME RowsFollow(board, board'), NewIds(board, board'), NEW p \in processed
        PROVE  p.task <= board'.counter /\ Settled(board', p.task, p.gen)
    BY <1>1, <1>2, <1>3, StaysSettled
  <1>4. SUFFICES ASSUME NEW p \in processed'
                 PROVE  p.task <= board'.counter /\ Settled(board', p.task, p.gen)
    BY <1>1 DEF VerdictInv
  <1>5. CASE UNCHANGED vars
    BY <1>2, <1>5 DEF vars, Settled
  <1>6. CASE Advances(board, board') /\ processed' = processed
    BY <1>3, <1>6 DEF Advances
  <1>7. ASSUME NEW r \in receipts, NEW accepted \in BOOLEAN, LeaderReceipt(r, accepted)
        PROVE  p.task <= board'.counter /\ Settled(board', p.task, p.gen)
    <2>1. Advances(board, board') /\ board'.rows[r.task] # NoTask
          /\ Settled(board', r.task, r.gen)
      BY <1>1, <1>7, ReceiptEffect DEF Settled
    <2>2. processed' = processed \cup {r}
      BY <1>7 DEF LeaderReceipt
    <2>3. CASE p = r
      <3>1. r.task \in TaskId
        BY <1>1 DEF Ready, IInv, RestOK, Receipt
      <3> QED BY <1>1, <2>1, <2>3, <3>1 DEF Ready, Numbered
    <2>4. CASE p \in processed
      BY <1>3, <2>1, <2>4 DEF Advances
    <2> QED BY <2>2, <2>3, <2>4
  <1>8. ASSUME NEW t \in TaskId, DeleteTaskTool(t)
        PROVE  p.task <= board'.counter /\ Settled(board', p.task, p.gen)
    <2>1. /\ board'.rows[t] = NoTask /\ board'.counter = board.counter
          /\ \A u \in TaskId \ {t} :
               /\ Follows(board.rows[u], board'.rows[u])
               /\ board'.rows[u] = NoTask <=> board.rows[u] = NoTask
          /\ p \in processed
      BY <1>1, <1>8, DeletionEffect
    <2>2. CASE p.task = t
      BY <1>2, <2>1, <2>2 DEF Settled
    <2>3. CASE p.task # t
      <3> DEFINE u == p.task
      <3>1. u \in TaskId \ {t} /\ p.gen \in Nat /\ Settled(board, u, p.gen)
            /\ u <= board'.counter
        BY <1>2, <2>1, <2>3
      <3>2. /\ Follows(board.rows[u], board'.rows[u])
            /\ board'.rows[u] = NoTask <=> board.rows[u] = NoTask
        BY <2>1, <3>1
      <3>3. /\ board.rows[u] # NoTask => board.rows[u].gen \in Nat
            /\ board'.rows[u] # NoTask => board'.rows[u].gen \in Nat
        BY <1>1, <3>1, BoardMaps DEF Good, Row
      <3> HIDE DEF u
      <3>4. Settled(board', u, p.gen)
        BY <3>1, <3>2, <3>3 DEF Follows, Settled
      <3> QED BY <3>1, <3>4 DEF u
    <2> QED BY <2>2, <2>3
  <1>9. CASE processed' = {}
    BY <1>4, <1>9
  <1>10. ASSUME NEW S \in SUBSET TaskId, EvictTasks(S)
         PROVE  p.task <= board'.counter /\ Settled(board', p.task, p.gen)
    BY <1>1, <1>3, <1>10, EvictionEffect
  <1> QED BY <1>1, <1>5, <1>6, <1>7, <1>8, <1>9, <1>10, EveryHandler DEF HandlerEffect

\* A verdict settles its run, for every number of tasks, agents and receipts:
\* no timer, worker, recovery or tool resumes a run that the Leader has judged.
THEOREM VerdictsSettle == Spec => []VerdictSettlesRun
  <1>1. Init => VerdictInv
    BY ReadyInit DEF Init, VerdictInv
  <1>2. VerdictInv => VerdictSettlesRun
    BY DEF VerdictInv, Settled, VerdictSettlesRun
  <1> QED BY <1>1, <1>2, VerdictInductive, PTL DEF Spec

\* One agent's report of one run is judged once, however often and in whatever
\* order its receipts come in: the fences of processWorkerTaskResult.
THEOREM JudgedOnce == Spec => []OneVerdictPerWorker
  <1>1. Init => OneVerdictPerWorker
    BY DEF Init, OneVerdictPerWorker
  <1>2. Ready /\ OneVerdictPerWorker /\ [Next]_vars => OneVerdictPerWorker'
    <2> SUFFICES ASSUME Ready, OneVerdictPerWorker, [Next]_vars
                 PROVE  OneVerdictPerWorker'
      OBVIOUS
    <2>1. CASE processed' \in {processed, {}}
      BY <2>1 DEF OneVerdictPerWorker
    <2>2. ASSUME NEW r \in receipts, NEW accepted \in BOOLEAN,
                 LeaderReceipt(r, accepted)
          PROVE  OneVerdictPerWorker'
      <3>1. Passes(Read(board, r.task), r) /\ processed' = processed \cup {r}
        BY <2>2 DEF LeaderReceipt
      <3>2. \A p \in processed :
              ~(p.task = r.task /\ p.gen = r.gen /\ p.agent = r.agent)
        BY <3>1 DEF Passes
      <3> QED BY <3>1, <3>2 DEF OneVerdictPerWorker
    <2>3. CASE Next
      <3>1. \A t \in TaskId : DeleteTaskTool(t) => processed' = processed
        BY DeletionEffect
      <3>2. \A S \in SUBSET TaskId : EvictTasks(S) => processed' = processed
        BY EvictionEffect
      <3> QED BY <2>1, <2>2, <2>3, <3>1, <3>2, EveryHandler DEF HandlerEffect
    <2>4. CASE UNCHANGED vars
      BY <2>1, <2>4 DEF vars
    <2> QED BY <2>3, <2>4
  <1> QED BY <1>1, <1>2, ReadyInit, ReadyInductive, PTL DEF Spec

-----------------------------------------------------------------------------
(* The links: without a crash in the middle of a cancel and within the life  *)
(* time of cached tasks, as BackLinksComplete and CancelReleases say         *)

LinksInv == Ready /\ Linked(board)

\* Every handler leaves the links complete.
LEMMA LinksInductive ==
  ASSUME "session_ttl" \notin Features, "cancel_crash" \notin Features
  PROVE  LinksInv /\ [Next]_vars => LinksInv'
  <1> SUFFICES ASSUME LinksInv, [Next]_vars PROVE LinksInv'
    OBVIOUS
  <1>1. Ready /\ Ready' /\ Linked(board)
    BY ReadyInductive DEF LinksInv
  <1>2. CASE UNCHANGED vars
    BY <1>1, <1>2 DEF vars, LinksInv
  <1>3. CASE Next
    <2>1. \A t \in TaskId : DeleteTaskTool(t) => Linked(board')
      BY <1>1, DeletionEffect
    <2>2. \A S \in SUBSET TaskId : ~EvictTasks(S)
      BY DEF EvictTasks
    <2>3. Linked(board')
      BY <1>1, <1>3, <2>1, <2>2, EveryHandler DEF HandlerEffect, Advances
    <2> QED BY <1>1, <2>3 DEF LinksInv
  <1> QED BY <1>2, <1>3

\* The empty session has no links to lose.
LEMMA LinksInit == Init => LinksInv
  <1> SUFFICES ASSUME Init PROVE LinksInv
    OBVIOUS
  <1>1. Linked(board)
    BY DEF Init, EmptyBoard, Linked, LinkedBut, LinksStored
  <1> QED BY <1>1, ReadyInit DEF LinksInv

\* A task that waits for another is among the back links of that one, in the row
\* and in the cache, so that its end or its cancel finds everybody who waits.
THEOREM LinksComplete ==
  ASSUME "session_ttl" \notin Features, "cancel_crash" \notin Features
  PROVE  Spec => []BackLinksComplete
  <1>1. LinksInv => BackLinksComplete
    BY DEF LinksInv, Linked, LinkedBut, LinksStored, BackLinksComplete, Exists, Loaded
  <1>2. LinksInv /\ [Next]_vars => LinksInv'
    BY LinksInductive
  <1> QED BY <1>1, <1>2, LinksInit, PTL DEF Spec

\* No task waits for a task that the user cancelled, if it existed before.
THEOREM CancelReleasesAll ==
  ASSUME "session_ttl" \notin Features, "cancel_crash" \notin Features
  PROVE  Spec => CancelReleases
  <1>1. LinksInv /\ [Next]_vars =>
          [\A t, u \in TaskId :
             (CancelTaskCommand(t) /\ Exists(board, u)) =>
               t \notin board'.rows[u].deps]_vars
    <2> SUFFICES ASSUME LinksInv, NEW t \in TaskId, NEW u \in TaskId,
                        CancelTaskCommand(t), Exists(board, u)
                 PROVE  t \notin board'.rows[u].deps
      OBVIOUS
    <2> QED BY CancelCommandEffect DEF LinksInv, Exists
  <1>2. LinksInv /\ [Next]_vars => LinksInv'
    BY LinksInductive
  <1> QED BY <1>1, <1>2, LinksInit, PTL DEF Spec, CancelReleases
=============================================================================
