---------------------------- MODULE TaskBoardLemmas ----------------------------
(***************************************************************************)
(* What the methods of TaskBoard preserve, for every board: the types, and  *)
(* the agreement between a cached task and its row. A lemma per method; the *)
(* proofs about the handlers cite them by name.                             *)
(***************************************************************************)
EXTENDS TaskBoard, TLAPS

\* A board whose cache agrees with its rows.
Good(b) == b \in Board /\ Coherent(b)

\* An object and the row it was made of or is written to.
LEMMA ConversionTypes ==
  /\ \A o \in Entry : Columns(o) \in Row
  /\ \A r \in Row : Normalized(r) \in Entry /\ Columns(Normalized(r)) = r
  /\ \A r \in Row : Raw(r) \in Entry /\ Columns(Raw(r)) = r
  <1>1. ASSUME NEW o \in Entry PROVE Columns(o) \in Row
    <2>1. ExitColumn(o) \in Exits
      BY DEF ExitColumn, Entry
    <2> QED BY <2>1 DEF Columns, Entry, Row, NoGen
  <1>2. ASSUME NEW r \in Row
        PROVE  Normalized(r) \in Entry /\ Columns(Normalized(r)) = r
    <2>1. ExitColumn(Normalized(r)) = r.exit
      BY DEF ExitColumn, Normalized
    <2> QED BY <2>1 DEF Columns, Normalized, Entry, Row, NoGen
  <1>3. ASSUME NEW r \in Row PROVE Raw(r) \in Entry /\ Columns(Raw(r)) = r
    <2>1. Raw(r) \in Entry
      <3>1. Normalized(r) \in Entry /\ "none" \in Exits
        BY <1>2 DEF Exits
      <3> QED BY <3>1 DEF Raw, Entry
    <2>2. /\ Raw(r).exit = "none" /\ Raw(r).exitCol = r.exit
          /\ Raw(r).gen = NoGen /\ Raw(r).genCol = r.gen
          /\ Raw(r).status = r.status /\ Raw(r).deps = r.deps
          /\ Raw(r).blocks = r.blocks /\ Raw(r).agent = r.agent
          /\ Raw(r).ext = r.ext
      BY DEF Raw, Normalized
    <2>3. Columns(Raw(r)) = [status |-> r.status, exit |-> r.exit, gen |-> r.gen,
                             deps |-> r.deps, blocks |-> r.blocks,
                             agent |-> r.agent, ext |-> r.ext]
      BY <2>2 DEF Columns, ExitColumn
    <2> QED BY <2>1, <2>3 DEF Row
  <1> QED BY <1>1, <1>2, <1>3

\* The absent task is neither an object nor a row.
LEMMA NoTaskIsNone == NoTask \notin Row /\ NoTask \notin Entry
  BY BoardAssumption

\* getTask keeps the board good, whichever of cache and row exists.
LEMMA ReadGood ==
  ASSUME NEW b, Good(b), NEW t \in TaskId
  PROVE  Good(Read(b, t))
  <1> DEFINE m == IF b.rows[t] = NoTask THEN NoTask ELSE Normalized(b.rows[t])
             c == Read(b, t)
  <1>1. b.mem \in [TaskId -> Entry \cup {NoTask}] /\ b.rows \in [TaskId -> Row \cup {NoTask}]
    BY DEF Good, Board
  <1>2. m \in Entry \cup {NoTask}
    BY <1>1, ConversionTypes
  <1>3. c.mem = [b.mem EXCEPT ![t] = m] /\ c.rows = b.rows /\ c.counter = b.counter
        /\ c \in Board
    BY <1>2 DEF Good, Board, Read
  <1>4. ASSUME NEW u \in TaskId PROVE CoherentAt(c, u)
    <2>1. CASE u = t
      BY <2>1, <1>1, <1>3, ConversionTypes, NoTaskIsNone DEF CoherentAt, Loaded
    <2>2. CASE u # t
      BY <2>2, <1>1, <1>3 DEF CoherentAt, Loaded, Good, Coherent
    <2> QED BY <2>1, <2>2
  <1> QED BY <1>3, <1>4 DEF Good, Coherent

\* persistTask of a well-typed object keeps the board good.
LEMMA WriteGood ==
  ASSUME NEW b, Good(b), NEW t \in TaskId, NEW o \in Entry
  PROVE  Good(Write(b, t, o))
  <1> DEFINE c == Write(b, t, o)
  <1>1. b.mem \in [TaskId -> Entry \cup {NoTask}] /\ b.rows \in [TaskId -> Row \cup {NoTask}]
    BY DEF Good, Board
  <1>2. c.mem = [b.mem EXCEPT ![t] = o] /\ c.rows = [b.rows EXCEPT ![t] = Columns(o)]
        /\ c.counter = b.counter /\ c \in Board
    BY ConversionTypes DEF Good, Board, Write
  <1>3. ASSUME NEW u \in TaskId PROVE CoherentAt(c, u)
    <2>1. CASE u = t
      BY <2>1, <1>1, <1>2, ConversionTypes, NoTaskIsNone DEF CoherentAt, Loaded
    <2>2. CASE u # t
      BY <2>2, <1>1, <1>2 DEF CoherentAt, Loaded, Good, Coherent
    <2> QED BY <2>1, <2>2
  <1> QED BY <1>2, <1>3 DEF Good, Coherent

\* The two maps of a board.
LEMMA BoardMaps ==
  ASSUME NEW b \in Board
  PROVE  /\ b.mem \in [TaskId -> Entry \cup {NoTask}]
         /\ b.rows \in [TaskId -> Row \cup {NoTask}]
         /\ b.counter \in 0..MaxTasks
         /\ \A t \in TaskId : Loaded(b, t) => b.mem[t] \in Entry
         /\ \A t \in TaskId : b.rows[t] # NoTask => b.rows[t] \in Row
  BY DEF Board, Loaded

\* bumpRunGeneration counts an undefined generation as 0.
LEMMA BumpType ==
  ASSUME NEW o \in Entry
  PROVE  /\ BumpRunGeneration(o) \in Entry
         /\ BumpRunGeneration(o).gen # NoGen
  BY DEF BumpRunGeneration, Entry, NoGen

-----------------------------------------------------------------------------
(* The methods that write one task *)

\* updateTaskStatus keeps the board good, refused transitions included.
LEMMA UpdateTaskStatusGood ==
  ASSUME NEW b, Good(b), NEW t \in TaskId, NEW status \in Statuses,
         NEW exit \in Exits, NEW hasResult \in BOOLEAN
  PROVE  Good(UpdateTaskStatus(b, t, status, exit, hasResult))
  <1>1. CASE ~Loaded(b, t)
    BY <1>1 DEF UpdateTaskStatus
  <1>2. CASE Loaded(b, t)
    <2>1. b.mem[t] \in Entry
      BY <1>2, BoardMaps DEF Good
    <2>2. [b.mem[t] EXCEPT !.status = status, !.exit = exit] \in Entry
      BY <2>1 DEF Entry
    <2>3. /\ Good(Write(b, t, b.mem[t]))
          /\ Good(Write(b, t, [b.mem[t] EXCEPT !.status = status, !.exit = exit]))
      BY <2>1, <2>2, WriteGood
    <2> QED BY <1>2, <2>3 DEF UpdateTaskStatus
  <1> QED BY <1>1, <1>2

\* assignTask keeps the board good.
LEMMA AssignTaskGood ==
  ASSUME NEW b, Good(b), NEW t \in TaskId, NEW a \in Agents \cup {NoAgent}
  PROVE  Good(AssignTask(b, t, a))
  <1>1. CASE ~Loaded(b, t) \/ ~TransitionAllowed(b.mem[t].status, "running")
    BY <1>1 DEF AssignTask
  <1>2. CASE Loaded(b, t) /\ TransitionAllowed(b.mem[t].status, "running")
    <2> DEFINE o == [b.mem[t] EXCEPT !.agent = a, !.status = "running",
                                     !.exit = "none"]
    <2>1. b.mem[t] \in Entry
      BY <1>2, BoardMaps DEF Good
    <2>2. o \in Entry
      BY <2>1 DEF Entry, Statuses, Exits
    <2>3. Good(Write(b, t, BumpRunGeneration(o)))
      BY <2>2, BumpType, WriteGood
    <2> QED BY <1>2, <2>3 DEF AssignTask
  <1> QED BY <1>1, <1>2

\* What prepareTaskForRedispatch, blockTask and reopenTask make of an object.
LEMMA OpenedType ==
  ASSUME NEW o \in Entry, NEW x \in BOOLEAN
  PROVE  /\ [o EXCEPT !.agent = NoAgent, !.exit = "none", !.ext = x,
                      !.status = "dispatchable"] \in Entry
         /\ [o EXCEPT !.agent = NoAgent, !.exit = "none",
                      !.status = "dispatchable"] \in Entry
  BY DEF Entry, Statuses, Exits

\* prepareTaskForRedispatch keeps the board good.
LEMMA PrepareGood ==
  ASSUME NEW b, Good(b), NEW t \in TaskId
  PROVE  Good(PrepareForRedispatch(b, t))
  <1>1. CASE ~Loaded(b, t)
    BY <1>1 DEF PrepareForRedispatch
  <1>2. CASE Loaded(b, t)
    <2> DEFINE o == [b.mem[t] EXCEPT !.agent = NoAgent, !.exit = "none",
                                     !.ext = FALSE, !.status = "dispatchable"]
    <2>1. o \in Entry
      BY <1>2, BoardMaps, OpenedType DEF Good
    <2>2. Good(Write(b, t, BumpRunGeneration(o)))
      BY <2>1, BumpType, WriteGood
    <2> QED BY <1>2, <2>2 DEF PrepareForRedispatch
  <1> QED BY <1>1, <1>2

\* blockTask keeps the board good.
LEMMA BlockGood ==
  ASSUME NEW b, Good(b), NEW t \in TaskId
  PROVE  Good(BlockTask(b, t))
  <1>1. CASE ~Loaded(b, t) \/ b.mem[t].status = "terminal"
    BY <1>1 DEF BlockTask
  <1>2. CASE Loaded(b, t) /\ b.mem[t].status # "terminal"
    <2> DEFINE o == [b.mem[t] EXCEPT !.agent = NoAgent, !.exit = "none",
                                     !.ext = TRUE, !.status = "dispatchable"]
    <2>1. o \in Entry
      BY <1>2, BoardMaps, OpenedType DEF Good
    <2>2. Good(Write(b, t, BumpRunGeneration(o)))
      BY <2>1, BumpType, WriteGood
    <2> QED BY <1>2, <2>2 DEF BlockTask
  <1> QED BY <1>1, <1>2

\* reopenTask keeps the board good.
LEMMA ReopenGood ==
  ASSUME NEW b, Good(b), NEW t \in TaskId
  PROVE  Good(ReopenTask(b, t))
  <1>1. CASE \/ ~Loaded(b, t) \/ b.mem[t].status # "terminal"
             \/ b.mem[t].exit = "completed"
    BY <1>1 DEF ReopenTask
  <1>2. CASE ~(\/ ~Loaded(b, t) \/ b.mem[t].status # "terminal"
               \/ b.mem[t].exit = "completed")
    <2> DEFINE o == [b.mem[t] EXCEPT !.agent = NoAgent, !.exit = "none",
                                     !.status = "dispatchable"]
    <2>1. o \in Entry
      BY <1>2, BoardMaps, OpenedType DEF Good
    <2>2. Good(Write(b, t, BumpRunGeneration(o)))
      BY <2>1, BumpType, WriteGood
    <2> QED BY <1>2, <2>2 DEF ReopenTask
  <1> QED BY <1>1, <1>2

\* The first half of cancelTask keeps the board good.
LEMMA CancelGood ==
  ASSUME NEW b, Good(b), NEW t \in TaskId, Loaded(b, t)
  PROVE  Good(CancelTask(b, t))
  <1>1. b.mem[t] \in Entry
    BY BoardMaps DEF Good
  <1>2. [b.mem[t] EXCEPT !.status = "terminal", !.exit = "cancelled",
                         !.blocks = {}] \in Entry
    BY <1>1 DEF Entry, Statuses, Exits
  <1> QED BY <1>2, WriteGood DEF CancelTask

-----------------------------------------------------------------------------
(* The methods that change several tasks *)

\* Two objects that differ in their back links agree with the same rows.
SameButBlocks(o, p) == [Columns(o) EXCEPT !.blocks = {}] =
                       [Columns(p) EXCEPT !.blocks = {}]

\* Another set of back links leaves an object an object.
LEMMA BlocksType ==
  ASSUME NEW o \in Entry, NEW S \in SUBSET TaskId
  PROVE  /\ [o EXCEPT !.blocks = S] \in Entry
         /\ SameButBlocks([o EXCEPT !.blocks = S], o)
  BY DEF Entry, SameButBlocks, Columns, ExitColumn, NoGen

\* Another set of dependencies leaves an object an object.
LEMMA DepsType ==
  ASSUME NEW o \in Entry, NEW S \in SUBSET TaskId
  PROVE  [o EXCEPT !.deps = S] \in Entry
  BY DEF Entry

\* rebuildBlocks keeps the objects and changes their back links only.
LEMMA RebuildBlocksType ==
  ASSUME NEW mem \in [TaskId -> Entry \cup {NoTask}]
  PROVE  /\ RebuildBlocks(mem) \in [TaskId -> Entry \cup {NoTask}]
         /\ \A t \in TaskId : mem[t] = NoTask => RebuildBlocks(mem)[t] = NoTask
         /\ \A t \in TaskId : mem[t] # NoTask =>
               /\ RebuildBlocks(mem)[t] \in Entry
               /\ SameButBlocks(RebuildBlocks(mem)[t], mem[t])
  <1>1. ASSUME NEW t \in TaskId, mem[t] # NoTask
        PROVE  /\ RebuildBlocks(mem)[t] \in Entry
               /\ SameButBlocks(RebuildBlocks(mem)[t], mem[t])
    <2> DEFINE S == {u \in TaskId : mem[u] # NoTask /\ t \in mem[u].deps}
    <2>1. mem[t] \in Entry /\ S \in SUBSET TaskId
      BY <1>1
    <2>2. RebuildBlocks(mem)[t] = [mem[t] EXCEPT !.blocks = S]
      BY <1>1 DEF RebuildBlocks
    <2> HIDE DEF S
    <2> QED BY <2>1, <2>2, BlocksType
  <1>2. \A t \in TaskId : mem[t] = NoTask => RebuildBlocks(mem)[t] = NoTask
    BY DEF RebuildBlocks
  <1>3. RebuildBlocks(mem) \in [TaskId -> Entry \cup {NoTask}]
    <2>1. RebuildBlocks(mem) = [t \in TaskId |-> RebuildBlocks(mem)[t]]
      BY DEF RebuildBlocks
    <2> QED BY <1>1, <1>2, <2>1
  <1> QED BY <1>1, <1>2, <1>3

\* A board with new maps of the right type that agree task by task.
LEMMA AssembledGood ==
  ASSUME NEW b \in Board,
         NEW mem \in [TaskId -> Entry \cup {NoTask}],
         NEW rows \in [TaskId -> Row \cup {NoTask}],
         \A t \in TaskId : mem[t] # NoTask =>
           /\ rows[t] # NoTask
           /\ [rows[t] EXCEPT !.blocks = {}] =
              [Columns(mem[t]) EXCEPT !.blocks = {}]
  PROVE  Good([b EXCEPT !.mem = mem, !.rows = rows])
  <1> DEFINE c == [b EXCEPT !.mem = mem, !.rows = rows]
  <1>1. c \in Board /\ c.mem = mem /\ c.rows = rows
    BY DEF Board
  <1> QED BY <1>1 DEF Good, Coherent, CoherentAt, Loaded

\* The object createTask starts from.
LEMMA NewTaskType ==
  ASSUME NEW D \in SUBSET TaskId
  PROVE  NewTask(D) \in Entry
  BY DEF NewTask, Entry, Statuses, Exits, NoGen

\* createTask keeps the board good, the linked dependencies included.
LEMMA CreateTaskGood ==
  ASSUME NEW b, Good(b), NEW t \in TaskId, NEW D \in SUBSET TaskId,
         MayCreate(b, t, D)
  PROVE  Good(CreateTask(b, t, D))
  <1> DEFINE mem == [u \in TaskId |->
               IF u = t THEN NewTask(D)
               ELSE IF u \in D THEN [b.mem[u] EXCEPT !.blocks = @ \cup {t}]
               ELSE b.mem[u]]
             rows == [u \in TaskId |->
               IF u = t \/ (u \in D /\ t \notin b.mem[u].blocks)
               THEN Columns(mem[u]) ELSE b.rows[u]]
  <1>1. b \in Board /\ t \notin D /\ \A u \in D : u \in TaskId /\ Loaded(b, u)
    BY DEF Good, MayCreate, Cached
  <1>2. ASSUME NEW u \in D
        PROVE  mem[u] \in Entry /\ SameButBlocks(mem[u], b.mem[u])
    <2>1. b.mem[u] \in Entry /\ b.mem[u].blocks \cup {t} \in SUBSET TaskId
      BY <1>1, <1>2, BoardMaps DEF Entry
    <2>2. mem[u] = [b.mem[u] EXCEPT !.blocks = b.mem[u].blocks \cup {t}]
      BY <1>1
    <2> QED BY <2>1, <2>2, BlocksType
  <1>3. mem[t] \in Entry /\ mem[t] = NewTask(D)
    BY NewTaskType
  <1>4. mem \in [TaskId -> Entry \cup {NoTask}]
    BY <1>1, <1>2, <1>3, BoardMaps
  <1>5. rows \in [TaskId -> Row \cup {NoTask}]
    BY <1>1, <1>2, <1>3, BoardMaps, ConversionTypes
  <1>6. ASSUME NEW u \in TaskId, mem[u] # NoTask
        PROVE  /\ rows[u] # NoTask
               /\ [rows[u] EXCEPT !.blocks = {}] =
                  [Columns(mem[u]) EXCEPT !.blocks = {}]
    <2>1. CASE u = t \/ (u \in D /\ t \notin b.mem[u].blocks)
      BY <2>1, <1>2, <1>3, ConversionTypes, NoTaskIsNone
    <2>2. CASE u # t /\ u \in D /\ t \in b.mem[u].blocks
      BY <2>2, <1>1, <1>2 DEF Good, Coherent, CoherentAt, SameButBlocks
    <2>3. CASE u # t /\ u \notin D
      BY <2>3, <1>6 DEF Good, Coherent, CoherentAt, Loaded
    <2> QED BY <2>1, <2>2, <2>3
  <1>7. CreateTask(b, t, D) = [b EXCEPT !.mem = mem, !.rows = rows]
    BY DEF CreateTask
  <1> HIDE DEF mem, rows
  <1>8. Good([b EXCEPT !.mem = mem, !.rows = rows])
    BY <1>1, <1>4, <1>5, <1>6, AssembledGood
  <1> QED BY <1>7, <1>8

\* So does nextTaskId followed by createTask.
LEMMA CreateNextGood ==
  ASSUME NEW b, Good(b), NEW D \in SUBSET TaskId, NEW c \in CreateNext(b, D)
  PROVE  Good(c) /\ c.counter \in TaskId /\ c.rows[c.counter] # NoTask
  <1>1. PICK i \in TaskId :
          MayCreate(b, i, D) /\ c = [CreateTask(b, i, D) EXCEPT !.counter = i]
    BY DEF CreateNext, NextTaskId
  <1>2. Good(CreateTask(b, i, D))
    BY <1>1, CreateTaskGood
  <1>3. i \in 0..MaxTasks
    BY BoardAssumption DEF TaskId
  <1>4. c \in Board /\ c.counter = i /\ c.mem = CreateTask(b, i, D).mem
        /\ c.rows = CreateTask(b, i, D).rows
    BY <1>1, <1>2, <1>3 DEF Good, Board
  <1>5. Coherent(c)
    BY <1>2, <1>4 DEF Good, Coherent, CoherentAt, Loaded
  <1>6. CreateTask(b, i, D).rows[i] = Columns(NewTask(D))
    BY DEF CreateTask, Good, Board
  <1>7. c.rows[i] # NoTask
    BY <1>4, <1>6, NewTaskType, ConversionTypes, NoTaskIsNone
  <1> QED BY <1>4, <1>5, <1>7 DEF Good

\* updateTask with blocked_by keeps the board good.
LEMMA UpdateDependenciesGood ==
  ASSUME NEW b, Good(b), NEW t \in TaskId, Loaded(b, t), NEW D \in SUBSET TaskId
  PROVE  Good(UpdateDependencies(b, t, D))
  <1> DEFINE edited == [b.mem EXCEPT ![t].deps = D \ {t}]
             mem == RebuildBlocks(edited)
             rows == [u \in TaskId |-> IF mem[u] = NoTask THEN b.rows[u]
                                       ELSE Columns(mem[u])]
  <1>1. b \in Board
    BY DEF Good
  <1>2. edited \in [TaskId -> Entry \cup {NoTask}]
    <2>1. b.mem[t] \in Entry /\ D \ {t} \in SUBSET TaskId
      BY <1>1, BoardMaps
    <2>2. [b.mem[t] EXCEPT !.deps = D \ {t}] \in Entry
      BY <2>1, DepsType
    <2> QED BY <1>1, <2>2, BoardMaps
  <1> HIDE DEF edited
  <1>3. mem \in [TaskId -> Entry \cup {NoTask}]
    BY <1>2, RebuildBlocksType
  <1> HIDE DEF mem
  <1>4. rows \in [TaskId -> Row \cup {NoTask}]
    BY <1>1, <1>3, BoardMaps, ConversionTypes
  <1>5. \A u \in TaskId : mem[u] # NoTask =>
          rows[u] # NoTask /\ rows[u] = Columns(mem[u])
    BY <1>3, ConversionTypes, NoTaskIsNone
  <1> HIDE DEF rows
  <1>6. Good([b EXCEPT !.mem = mem, !.rows = rows])
    BY <1>1, <1>3, <1>4, <1>5, AssembledGood
  <1> QED BY <1>6 DEF UpdateDependencies, edited, mem, rows

\* deleteTask keeps the board good, the released dependents included.
LEMMA DeleteTaskGood ==
  ASSUME NEW b, Good(b), NEW t \in TaskId
  PROVE  Good(DeleteTask(b, t))
  <1> DEFINE rest     == [b.mem EXCEPT ![t] = NoTask]
             affected == {u \in TaskId : rest[u] # NoTask /\ t \in rest[u].deps}
             edited   == [u \in TaskId |-> IF u \in affected
                            THEN [rest[u] EXCEPT !.deps = @ \ {t}] ELSE rest[u]]
             mem      == RebuildBlocks(edited)
             rows     == [u \in TaskId |-> IF u = t THEN NoTask
                                           ELSE IF u \in affected
                                           THEN Columns(mem[u]) ELSE b.rows[u]]
  <1>1. b \in Board
    BY DEF Good
  <1>2. rest \in [TaskId -> Entry \cup {NoTask}] /\ rest[t] = NoTask
        /\ \A u \in TaskId \ {t} : rest[u] = b.mem[u]
    BY <1>1, BoardMaps
  <1>3. affected \subseteq TaskId \ {t}
    BY <1>2
  <1>4. ASSUME NEW u \in affected PROVE edited[u] \in Entry
    <2>1. rest[u] \in Entry
      BY <1>2
    <2>2. rest[u].deps \ {t} \in SUBSET TaskId
      BY <2>1 DEF Entry
    <2>3. edited[u] = [rest[u] EXCEPT !.deps = rest[u].deps \ {t}]
      BY <1>3
    <2> HIDE DEF edited
    <2> QED BY <2>1, <2>2, <2>3, DepsType
  <1>5. /\ edited = [u \in TaskId |-> edited[u]]
        /\ \A u \in TaskId \ affected : edited[u] = rest[u]
    OBVIOUS
  <1> HIDE DEF rest, affected, edited
  <1>6. /\ edited \in [TaskId -> Entry \cup {NoTask}]
        /\ \A u \in affected : edited[u] # NoTask
    BY <1>2, <1>3, <1>4, <1>5, NoTaskIsNone
  <1>7. /\ mem \in [TaskId -> Entry \cup {NoTask}]
        /\ \A u \in TaskId : edited[u] = NoTask => mem[u] = NoTask
        /\ \A u \in TaskId : edited[u] # NoTask =>
              mem[u] \in Entry /\ SameButBlocks(mem[u], edited[u])
    BY <1>6, RebuildBlocksType
  <1> HIDE DEF mem
  <1>8. rows \in [TaskId -> Row \cup {NoTask}]
    BY <1>1, <1>3, <1>6, <1>7, BoardMaps, ConversionTypes
  <1>9. ASSUME NEW u \in TaskId, mem[u] # NoTask
        PROVE  /\ rows[u] # NoTask
               /\ [rows[u] EXCEPT !.blocks = {}] =
                  [Columns(mem[u]) EXCEPT !.blocks = {}]
    <2>1. u # t
      BY <1>9, <1>2, <1>3, <1>5, <1>7
    <2>2. CASE u \in affected
      BY <2>1, <2>2, <1>6, <1>7, ConversionTypes, NoTaskIsNone
    <2>3. CASE u \notin affected
      <3>1. edited[u] = b.mem[u] /\ b.mem[u] # NoTask
        BY <1>9, <2>1, <2>3, <1>2, <1>5, <1>7
      <3>2. CoherentAt(b, u) /\ SameButBlocks(mem[u], b.mem[u])
        BY <3>1, <1>7 DEF Good, Coherent
      <3> QED BY <2>1, <2>3, <3>1, <3>2 DEF CoherentAt, Loaded, SameButBlocks
    <2> QED BY <2>2, <2>3
  <1> HIDE DEF rows
  <1>10. Good([b EXCEPT !.mem = mem, !.rows = rows])
    BY <1>1, <1>7, <1>8, <1>9, AssembledGood
  <1> QED BY <1>10 DEF DeleteTask, rest, affected, edited, mem, rows

\* The second half of cancelTask keeps the board good.
LEMMA ReleaseDependentsGood ==
  ASSUME NEW b, Good(b), NEW t \in TaskId, NEW oldBlocks \in SUBSET TaskId
  PROVE  Good(ReleaseDependents(b, t, oldBlocks))
  <1> DEFINE released == {u \in oldBlocks : Loaded(b, u) /\ t \in b.mem[u].deps}
             mem  == [u \in TaskId |-> IF u \in released
                       THEN [b.mem[u] EXCEPT !.deps = @ \ {t}] ELSE b.mem[u]]
             rows == [u \in TaskId |-> IF u \in released
                       THEN Columns(mem[u]) ELSE b.rows[u]]
  <1>1. b \in Board
    BY DEF Good
  <1>2. ASSUME NEW u \in released PROVE mem[u] \in Entry
    <2>1. b.mem[u] \in Entry
      BY <1>1, BoardMaps
    <2>2. b.mem[u].deps \ {t} \in SUBSET TaskId
      BY <2>1 DEF Entry
    <2> QED BY <2>1, <2>2, DepsType
  <1>3. mem \in [TaskId -> Entry \cup {NoTask}]
    BY <1>1, <1>2, BoardMaps
  <1>4. rows \in [TaskId -> Row \cup {NoTask}]
    BY <1>1, <1>2, BoardMaps, ConversionTypes
  <1>5. ASSUME NEW u \in TaskId, mem[u] # NoTask
        PROVE  /\ rows[u] # NoTask
               /\ [rows[u] EXCEPT !.blocks = {}] =
                  [Columns(mem[u]) EXCEPT !.blocks = {}]
    <2>1. CASE u \in released
      BY <2>1, <1>2, ConversionTypes, NoTaskIsNone
    <2>2. CASE u \notin released
      BY <2>2, <1>5 DEF Good, Coherent, CoherentAt, Loaded
    <2> QED BY <2>1, <2>2
  <1> HIDE DEF mem, rows
  <1>6. Good([b EXCEPT !.mem = mem, !.rows = rows])
    BY <1>1, <1>3, <1>4, <1>5, AssembledGood
  <1> QED BY <1>6 DEF ReleaseDependents, mem, rows

\* Eviction from the cache keeps the board good.
LEMMA EvictGood ==
  ASSUME NEW b, Good(b), NEW S \in SUBSET TaskId
  PROVE  Good(Evict(b, S))
  <1> DEFINE c == Evict(b, S)
  <1>1. c \in Board /\ c.rows = b.rows
        /\ c.mem = [t \in TaskId |-> IF t \in S THEN NoTask ELSE b.mem[t]]
    BY DEF Good, Board, Evict
  <1> QED BY <1>1 DEF Good, Coherent, CoherentAt, Loaded

\* A new process that loads the rows has a good board.
LEMMA LoadFromDBGood ==
  ASSUME NEW b, Good(b), NEW n \in 0..MaxTasks
  PROVE  Good(LoadFromDB(b, n))
  <1> DEFINE raw == [t \in TaskId |-> IF b.rows[t] = NoTask THEN NoTask
                                      ELSE Raw(b.rows[t])]
             mem == RebuildBlocks(raw)
             c   == LoadFromDB(b, n)
  <1>1. b.rows \in [TaskId -> Row \cup {NoTask}]
    BY BoardMaps DEF Good
  <1>2. raw \in [TaskId -> Entry \cup {NoTask}]
    BY <1>1, ConversionTypes
  <1>3. \A t \in TaskId : raw[t] # NoTask =>
          b.rows[t] # NoTask /\ Columns(raw[t]) = b.rows[t]
    BY <1>1, ConversionTypes
  <1> HIDE DEF raw
  <1>4. /\ mem \in [TaskId -> Entry \cup {NoTask}]
        /\ \A t \in TaskId : raw[t] = NoTask => mem[t] = NoTask
        /\ \A t \in TaskId : raw[t] # NoTask => SameButBlocks(mem[t], raw[t])
    BY <1>2, RebuildBlocksType
  <1>5. c.mem = mem /\ c.rows = b.rows /\ c = [mem |-> mem, rows |-> b.rows, counter |-> n]
    BY DEF LoadFromDB, raw
  <1> HIDE DEF mem, c
  <1>6. c \in Board
    BY <1>1, <1>4, <1>5 DEF Board
  <1>7. ASSUME NEW t \in TaskId PROVE CoherentAt(c, t)
    BY <1>3, <1>4, <1>5 DEF CoherentAt, Loaded, SameButBlocks
  <1> QED BY <1>6, <1>7 DEF Good, Coherent, c

\* A method applied to several tasks: f[t] is the board it makes for t.
LEMMA MergedGood ==
  ASSUME NEW b, Good(b), NEW S \in SUBSET TaskId, NEW f,
         \A t \in S : Good(f[t])
  PROVE  Good([b EXCEPT
                 !.mem  = [t \in TaskId |-> IF t \in S THEN f[t].mem[t] ELSE b.mem[t]],
                 !.rows = [t \in TaskId |-> IF t \in S THEN f[t].rows[t]
                                            ELSE b.rows[t]]])
  <1> DEFINE mem  == [t \in TaskId |-> IF t \in S THEN f[t].mem[t] ELSE b.mem[t]]
             rows == [t \in TaskId |-> IF t \in S THEN f[t].rows[t] ELSE b.rows[t]]
  <1>1. b \in Board /\ \A t \in S : f[t] \in Board
    BY DEF Good
  <1>2. mem \in [TaskId -> Entry \cup {NoTask}]
    BY <1>1, BoardMaps
  <1>3. rows \in [TaskId -> Row \cup {NoTask}]
    BY <1>1, BoardMaps
  <1>4. ASSUME NEW t \in TaskId, mem[t] # NoTask
        PROVE  /\ rows[t] # NoTask
               /\ [rows[t] EXCEPT !.blocks = {}] =
                  [Columns(mem[t]) EXCEPT !.blocks = {}]
    <2>1. CASE t \in S
      BY <2>1, <1>4 DEF Good, Coherent, CoherentAt, Loaded
    <2>2. CASE t \notin S
      BY <2>2, <1>4 DEF Good, Coherent, CoherentAt, Loaded
    <2> QED BY <2>1, <2>2
  <1> HIDE DEF mem, rows
  <1>5. Good([b EXCEPT !.mem = mem, !.rows = rows])
    BY <1>1, <1>2, <1>3, <1>4, AssembledGood
  <1> QED BY <1>5 DEF mem, rows

-----------------------------------------------------------------------------
(* The row of a task survives the methods that write the task *)

\* persistTask leaves a row.
LEMMA WriteRow ==
  ASSUME NEW b, Good(b), NEW t \in TaskId, NEW o \in Entry
  PROVE  Write(b, t, o).rows[t] \in Row /\ Write(b, t, o).rows[t] # NoTask
  <1>1. Write(b, t, o).rows[t] = Columns(o)
    BY DEF Write, Good, Board
  <1> QED BY <1>1, ConversionTypes, NoTaskIsNone

\* Neither a read nor an assignment removes a row.
LEMMA RowSurvives ==
  ASSUME NEW b, Good(b), NEW t \in TaskId, b.rows[t] # NoTask
  PROVE  /\ Read(b, t).rows = b.rows
         /\ Loaded(Read(b, t), t)
         /\ \A a \in Agents \cup {NoAgent} : AssignTask(b, t, a).rows[t] # NoTask
         /\ PrepareForRedispatch(b, t).rows[t] # NoTask
         /\ ReopenTask(b, t).rows[t] # NoTask
  <1>1. Read(b, t).rows = b.rows
    BY DEF Read, Good, Board
  <1>2. Loaded(Read(b, t), t)
    <2>1. Normalized(b.rows[t]) # NoTask
      BY BoardMaps, ConversionTypes, NoTaskIsNone DEF Good
    <2> QED BY <2>1 DEF Read, Loaded, Good, Board
  <1>3. ASSUME NEW a \in Agents \cup {NoAgent}
        PROVE  AssignTask(b, t, a).rows[t] # NoTask
    <2>1. CASE ~Loaded(b, t) \/ ~TransitionAllowed(b.mem[t].status, "running")
      BY <2>1 DEF AssignTask
    <2>2. CASE Loaded(b, t) /\ TransitionAllowed(b.mem[t].status, "running")
      <3> DEFINE o == [b.mem[t] EXCEPT !.agent = a, !.status = "running",
                                       !.exit = "none"]
      <3>1. b.mem[t] \in Entry
        BY <2>2, BoardMaps DEF Good
      <3>2. o \in Entry
        BY <3>1 DEF Entry, Statuses, Exits
      <3>3. Write(b, t, BumpRunGeneration(o)).rows[t] # NoTask
        BY <3>2, BumpType, WriteRow
      <3> QED BY <2>2, <3>3 DEF AssignTask
    <2> QED BY <2>1, <2>2
  <1>4. PrepareForRedispatch(b, t).rows[t] # NoTask
    <2>1. CASE ~Loaded(b, t)
      BY <2>1 DEF PrepareForRedispatch
    <2>2. CASE Loaded(b, t)
      <3> DEFINE o == [b.mem[t] EXCEPT !.agent = NoAgent, !.exit = "none",
                                       !.ext = FALSE, !.status = "dispatchable"]
      <3>1. o \in Entry
        BY <2>2, BoardMaps, OpenedType DEF Good
      <3>2. Write(b, t, BumpRunGeneration(o)).rows[t] # NoTask
        BY <3>1, BumpType, WriteRow
      <3> QED BY <2>2, <3>2 DEF PrepareForRedispatch
    <2> QED BY <2>1, <2>2
  <1>5. ReopenTask(b, t).rows[t] # NoTask
    <2>1. CASE \/ ~Loaded(b, t) \/ b.mem[t].status # "terminal"
               \/ b.mem[t].exit = "completed"
      BY <2>1 DEF ReopenTask
    <2>2. CASE ~(\/ ~Loaded(b, t) \/ b.mem[t].status # "terminal"
                 \/ b.mem[t].exit = "completed")
      <3> DEFINE o == [b.mem[t] EXCEPT !.agent = NoAgent, !.exit = "none",
                                       !.status = "dispatchable"]
      <3>1. o \in Entry
        BY <2>2, BoardMaps, OpenedType DEF Good
      <3>2. Write(b, t, BumpRunGeneration(o)).rows[t] # NoTask
        BY <3>1, BumpType, WriteRow
      <3> QED BY <2>2, <3>2 DEF ReopenTask
    <2> QED BY <2>1, <2>2
  <1> QED BY <1>1, <1>2, <1>3, <1>4, <1>5
-----------------------------------------------------------------------------
(* The runs and the links of a task *)

\* The row s may come after the row r: the same run, which may have ended, or a
\* later one. A row that is not there yet counts as an open one of generation 0.
Follows(r, s) ==
  IF s = NoTask THEN r = NoTask
  ELSE LET gen    == IF r = NoTask THEN 0 ELSE r.gen
           status == IF r = NoTask THEN "dispatchable" ELSE r.status
       IN  \/ s.gen > gen
           \/ s.gen = gen /\ s.status \in {status, "terminal"}

\* The order of rows is a preorder.
LEMMA FollowsIsPreorder ==
  /\ \A r \in Row \cup {NoTask} : Follows(r, r)
  /\ \A r, s, u \in Row \cup {NoTask} :
       Follows(r, s) /\ Follows(s, u) => Follows(r, u)
  <1>1. ASSUME NEW r \in Row \cup {NoTask} PROVE Follows(r, r)
    BY DEF Follows, Row
  <1>2. ASSUME NEW r \in Row \cup {NoTask}, NEW s \in Row \cup {NoTask},
               NEW u \in Row \cup {NoTask}, Follows(r, s), Follows(s, u)
        PROVE  Follows(r, u)
    <2>1. CASE u = NoTask \/ s = NoTask
      BY <1>2, <2>1 DEF Follows
    <2>2. CASE u # NoTask /\ s # NoTask
      <3>1. u.gen \in Nat /\ s.gen \in Nat /\ (r # NoTask => r.gen \in Nat)
        BY <2>2 DEF Row
      <3> QED BY <1>2, <2>2, <3>1 DEF Follows
    <2> QED BY <2>1, <2>2
  <1> QED BY <1>1, <1>2

\* The back links of the cached t are among those of its row.
LinksStored(b, t) ==
  b.rows[t] # NoTask => Loaded(b, t) /\ b.mem[t].blocks \subseteq b.rows[t].blocks

\* From b to c, t depends on the same tasks, loses no back link of the cache and
\* gets none that the row did not have.
LinksKept(b, c, t) ==
  LinksStored(b, t) =>
    /\ LinksStored(c, t)
    /\ b.rows[t] # NoTask =>
         /\ c.rows[t].deps = b.rows[t].deps
         /\ b.mem[t].blocks \subseteq c.mem[t].blocks
         /\ c.rows[t].blocks \subseteq b.rows[t].blocks

\* What a method that works on the one task t may do.
StepOf(b, c, t) ==
  /\ Good(c)
  /\ c.counter = b.counter
  /\ \A u \in TaskId \ {t} : c.mem[u] = b.mem[u] /\ c.rows[u] = b.rows[u]
  /\ c.rows[t] = NoTask <=> b.rows[t] = NoTask
  /\ Follows(b.rows[t], c.rows[t])
  /\ LinksKept(b, c, t)

\* Doing nothing is a step.
LEMMA StepOfItself ==
  ASSUME NEW b, Good(b), NEW t \in TaskId
  PROVE  StepOf(b, b, t)
  <1>1. b.rows[t] \in Row \cup {NoTask}
    BY BoardMaps DEF Good
  <1>2. Follows(b.rows[t], b.rows[t])
    BY <1>1, FollowsIsPreorder
  <1> QED BY <1>2 DEF StepOf, LinksKept

\* Two steps of the same task are a step.
LEMMA StepsCompose ==
  ASSUME NEW b, Good(b), NEW t \in TaskId, NEW c, StepOf(b, c, t),
         NEW d, StepOf(c, d, t)
  PROVE  StepOf(b, d, t)
  <1>1. /\ b.rows[t] \in Row \cup {NoTask} /\ c.rows[t] \in Row \cup {NoTask}
        /\ d.rows[t] \in Row \cup {NoTask}
    BY BoardMaps DEF Good, StepOf
  <1>2. Follows(b.rows[t], d.rows[t])
    BY <1>1, FollowsIsPreorder DEF StepOf
  <1>3. LinksKept(b, d, t)
    BY DEF StepOf, LinksKept
  <1> QED BY <1>2, <1>3 DEF StepOf

\* The generation of a cached object is defined.
Counted(b, t) == Loaded(b, t) => b.mem[t].gen # NoGen

\* getTask is a step, and leaves a generation that is defined.
LEMMA ReadStep ==
  ASSUME NEW b, Good(b), NEW t \in TaskId
  PROVE  StepOf(b, Read(b, t), t) /\ Counted(Read(b, t), t)
  <1> DEFINE m == IF b.rows[t] = NoTask THEN NoTask ELSE Normalized(b.rows[t])
             c == Read(b, t)
  <1>1. b \in Board /\ Good(c)
    BY ReadGood DEF Good
  <1>2. c.mem = [b.mem EXCEPT ![t] = m] /\ c.rows = b.rows /\ c.counter = b.counter
    BY <1>1 DEF Board, Read
  <1>3. b.rows[t] \in Row \cup {NoTask} /\ b.mem[t] \in Entry \cup {NoTask}
    BY <1>1, BoardMaps DEF Loaded
  <1>4. c.mem[t] = m /\ \A u \in TaskId \ {t} : c.mem[u] = b.mem[u]
    BY <1>1, <1>2, BoardMaps
  <1>5. m # NoTask => /\ m.gen \in Nat /\ m.blocks = b.rows[t].blocks
                      /\ b.rows[t] # NoTask
    BY <1>3 DEF Normalized, Row
  <1>6. b.rows[t] # NoTask => m # NoTask
    BY <1>3, ConversionTypes, NoTaskIsNone
  <1> HIDE DEF m, c
  <1>7. LinksKept(b, c, t)
    BY <1>2, <1>4, <1>5, <1>6 DEF LinksKept, LinksStored, Loaded
  <1>8. Follows(b.rows[t], c.rows[t])
    BY <1>2, <1>3, FollowsIsPreorder
  <1>9. StepOf(b, c, t)
    BY <1>1, <1>2, <1>4, <1>7, <1>8 DEF StepOf
  <1>10. Counted(c, t)
    BY <1>4, <1>5 DEF Counted, Loaded, NoGen
  <1> QED BY <1>9, <1>10 DEF c

\* A cached task and its row have the same status, exit and dependencies.
LEMMA SameState ==
  ASSUME NEW b, Good(b), NEW t \in TaskId, Loaded(b, t)
  PROVE  /\ b.rows[t] \in Row /\ b.rows[t] # NoTask
         /\ b.mem[t] \in Entry
         /\ b.rows[t].status = b.mem[t].status
         /\ b.rows[t].agent = b.mem[t].agent
         /\ b.rows[t].deps = b.mem[t].deps
         /\ b.rows[t].gen = Columns(b.mem[t]).gen
  <1>1. b.mem[t] \in Entry /\ b.rows[t] # NoTask /\ b.rows[t] \in Row
    BY BoardMaps DEF Good, Coherent, CoherentAt
  <1>2. [b.rows[t] EXCEPT !.blocks = {}] = [Columns(b.mem[t]) EXCEPT !.blocks = {}]
    BY DEF Good, Coherent, CoherentAt
  <1>3. Columns(b.mem[t]) \in Row
    BY <1>1, ConversionTypes
  <1>4. /\ b.rows[t].status = Columns(b.mem[t]).status
        /\ b.rows[t].agent = Columns(b.mem[t]).agent
        /\ b.rows[t].deps = Columns(b.mem[t]).deps
        /\ b.rows[t].gen = Columns(b.mem[t]).gen
    BY <1>1, <1>2, <1>3 DEF Row
  <1> QED BY <1>1, <1>4 DEF Columns

\* persistTask is a step when it keeps the links and the run goes on.
LEMMA WriteStep ==
  ASSUME NEW b, Good(b), NEW t \in TaskId, Loaded(b, t), NEW o \in Entry,
         o.deps = b.mem[t].deps, o.blocks = b.mem[t].blocks,
         Follows(b.rows[t], Columns(o))
  PROVE  StepOf(b, Write(b, t, o), t) /\ Write(b, t, o).rows[t] = Columns(o)
  <1> DEFINE c == Write(b, t, o)
  <1>1. b \in Board /\ Good(c)
    BY WriteGood DEF Good
  <1>2. c.mem = [b.mem EXCEPT ![t] = o] /\ c.rows = [b.rows EXCEPT ![t] = Columns(o)]
        /\ c.counter = b.counter
    BY <1>1 DEF Board, Write
  <1>3. /\ c.mem[t] = o /\ c.rows[t] = Columns(o)
        /\ \A u \in TaskId \ {t} : c.mem[u] = b.mem[u] /\ c.rows[u] = b.rows[u]
    BY <1>1, <1>2, BoardMaps
  <1>4. Columns(o) # NoTask /\ o # NoTask /\ Columns(o).blocks = o.blocks
        /\ Columns(o).deps = o.deps
    BY ConversionTypes, NoTaskIsNone DEF Columns
  <1>5. b.rows[t] # NoTask /\ b.rows[t].deps = b.mem[t].deps
    BY SameState
  <1> HIDE DEF c
  <1>6. LinksKept(b, c, t)
    BY <1>3, <1>4, <1>5 DEF LinksKept, LinksStored, Loaded
  <1>7. StepOf(b, c, t)
    BY <1>1, <1>2, <1>3, <1>4, <1>5, <1>6 DEF StepOf
  <1> QED BY <1>3, <1>7 DEF c

\* An object that was opened again or assigned, written with the next number:
\* the run that it had, and that may have ended, is over.
LEMMA NextRun ==
  ASSUME NEW b, Good(b), NEW t \in TaskId, Loaded(b, t), Counted(b, t),
         NEW o \in Entry, o.gen = b.mem[t].gen, o.deps = b.mem[t].deps,
         o.blocks = b.mem[t].blocks
  PROVE  /\ StepOf(b, Write(b, t, BumpRunGeneration(o)), t)
         /\ Write(b, t, BumpRunGeneration(o)).rows[t].gen = b.rows[t].gen + 1
         /\ Counted(Write(b, t, BumpRunGeneration(o)), t)
  <1> DEFINE p == BumpRunGeneration(o)
             c == Write(b, t, p)
  <1>1. o.gen \in Nat /\ o.gen # NoGen
    BY DEF Counted, Entry
  <1>2. p.gen = o.gen + 1 /\ p.deps = o.deps /\ p.blocks = o.blocks
    BY <1>1 DEF BumpRunGeneration, Entry
  <1>3. p \in Entry
    BY BumpType
  <1>4. b.rows[t].gen = o.gen /\ b.rows[t] # NoTask
    BY <1>1, SameState DEF Columns
  <1> HIDE DEF p
  <1>5. Columns(p).gen = o.gen + 1 /\ Columns(p) # NoTask
    BY <1>1, <1>2, <1>3, ConversionTypes, NoTaskIsNone DEF Columns, NoGen
  <1>6. Follows(b.rows[t], Columns(p))
    BY <1>1, <1>4, <1>5 DEF Follows
  <1>7. StepOf(b, c, t) /\ c.rows[t] = Columns(p)
    BY <1>2, <1>3, <1>6, WriteStep
  <1>8. c.mem[t] = p
    BY DEF Write, Good, Board
  <1>9. Counted(c, t)
    BY <1>1, <1>2, <1>8 DEF Counted, NoGen
  <1> QED BY <1>4, <1>5, <1>7, <1>9 DEF p

\* assignTask is a step of a task whose generation is defined.
LEMMA AssignStep ==
  ASSUME NEW b, Good(b), NEW t \in TaskId, Counted(b, t),
         NEW a \in Agents \cup {NoAgent}
  PROVE  StepOf(b, AssignTask(b, t, a), t) /\ Counted(AssignTask(b, t, a), t)
  <1>1. CASE ~Loaded(b, t) \/ ~TransitionAllowed(b.mem[t].status, "running")
    BY <1>1, StepOfItself DEF AssignTask
  <1>2. CASE Loaded(b, t) /\ TransitionAllowed(b.mem[t].status, "running")
    <2> DEFINE o == [b.mem[t] EXCEPT !.agent = a, !.status = "running",
                                     !.exit = "none"]
    <2>1. b.mem[t] \in Entry
      BY <1>2, BoardMaps DEF Good
    <2>2. o \in Entry /\ o.gen = b.mem[t].gen /\ o.deps = b.mem[t].deps
          /\ o.blocks = b.mem[t].blocks
      BY <2>1 DEF Entry, Statuses, Exits
    <2> HIDE DEF o
    <2>3. StepOf(b, Write(b, t, BumpRunGeneration(o)), t)
          /\ Counted(Write(b, t, BumpRunGeneration(o)), t)
      BY <1>2, <2>2, NextRun
    <2> QED BY <1>2, <2>3 DEF AssignTask, o
  <1> QED BY <1>1, <1>2

\* What the methods that put a task back make of an object keeps its number and
\* its links.
LEMMA OpenedKeeps ==
  ASSUME NEW o \in Entry, NEW x \in BOOLEAN
  PROVE  LET p == [o EXCEPT !.agent = NoAgent, !.exit = "none", !.ext = x,
                            !.status = "dispatchable"]
             q == [o EXCEPT !.agent = NoAgent, !.exit = "none",
                            !.status = "dispatchable"]
         IN  /\ p.gen = o.gen /\ p.deps = o.deps /\ p.blocks = o.blocks
             /\ q.gen = o.gen /\ q.deps = o.deps /\ q.blocks = o.blocks
  BY DEF Entry

\* prepareTaskForRedispatch is a step that starts a new run, from any status.
LEMMA PrepareStep ==
  ASSUME NEW b, Good(b), NEW t \in TaskId, Counted(b, t)
  PROVE  /\ StepOf(b, PrepareForRedispatch(b, t), t)
         /\ Counted(PrepareForRedispatch(b, t), t)
         /\ Loaded(b, t) =>
              PrepareForRedispatch(b, t).rows[t].gen = b.rows[t].gen + 1
  <1>1. CASE ~Loaded(b, t)
    BY <1>1, StepOfItself DEF PrepareForRedispatch
  <1>2. CASE Loaded(b, t)
    <2> DEFINE o == [b.mem[t] EXCEPT !.agent = NoAgent, !.exit = "none",
                                     !.ext = FALSE, !.status = "dispatchable"]
    <2>1. b.mem[t] \in Entry
      BY <1>2, BoardMaps DEF Good
    <2>2. o \in Entry /\ o.gen = b.mem[t].gen /\ o.deps = b.mem[t].deps
          /\ o.blocks = b.mem[t].blocks
      BY <2>1, OpenedType, OpenedKeeps
    <2> HIDE DEF o
    <2>3. /\ StepOf(b, Write(b, t, BumpRunGeneration(o)), t)
          /\ Counted(Write(b, t, BumpRunGeneration(o)), t)
          /\ Write(b, t, BumpRunGeneration(o)).rows[t].gen = b.rows[t].gen + 1
      BY <1>2, <2>2, NextRun
    <2> QED BY <1>2, <2>3 DEF PrepareForRedispatch, o
  <1> QED BY <1>1, <1>2

\* blockTask is a step that starts a new run.
LEMMA BlockStep ==
  ASSUME NEW b, Good(b), NEW t \in TaskId, Counted(b, t)
  PROVE  StepOf(b, BlockTask(b, t), t)
  <1>1. CASE ~Loaded(b, t) \/ b.mem[t].status = "terminal"
    BY <1>1, StepOfItself DEF BlockTask
  <1>2. CASE Loaded(b, t) /\ b.mem[t].status # "terminal"
    <2> DEFINE o == [b.mem[t] EXCEPT !.agent = NoAgent, !.exit = "none",
                                     !.ext = TRUE, !.status = "dispatchable"]
    <2>1. b.mem[t] \in Entry
      BY <1>2, BoardMaps DEF Good
    <2>2. o \in Entry /\ o.gen = b.mem[t].gen /\ o.deps = b.mem[t].deps
          /\ o.blocks = b.mem[t].blocks
      BY <2>1, OpenedType, OpenedKeeps
    <2> HIDE DEF o
    <2>3. StepOf(b, Write(b, t, BumpRunGeneration(o)), t)
      BY <1>2, <2>2, NextRun
    <2> QED BY <1>2, <2>3 DEF BlockTask, o
  <1> QED BY <1>1, <1>2

\* reopenTask is a step that starts a new run.
LEMMA ReopenStep ==
  ASSUME NEW b, Good(b), NEW t \in TaskId, Counted(b, t)
  PROVE  StepOf(b, ReopenTask(b, t), t)
  <1>1. CASE \/ ~Loaded(b, t) \/ b.mem[t].status # "terminal"
             \/ b.mem[t].exit = "completed"
    BY <1>1, StepOfItself DEF ReopenTask
  <1>2. CASE ~(\/ ~Loaded(b, t) \/ b.mem[t].status # "terminal"
               \/ b.mem[t].exit = "completed")
    <2> DEFINE o == [b.mem[t] EXCEPT !.agent = NoAgent, !.exit = "none",
                                     !.status = "dispatchable"]
    <2>1. b.mem[t] \in Entry
      BY <1>2, BoardMaps DEF Good
    <2>2. o \in Entry /\ o.gen = b.mem[t].gen /\ o.deps = b.mem[t].deps
          /\ o.blocks = b.mem[t].blocks
      BY <2>1, OpenedType, OpenedKeeps
    <2> HIDE DEF o
    <2>3. StepOf(b, Write(b, t, BumpRunGeneration(o)), t)
      BY <1>2, <2>2, NextRun
    <2> QED BY <1>2, <2>3 DEF ReopenTask, o
  <1> QED BY <1>1, <1>2

\* updateTaskStatus to a final status is a step that ends the run of a cached
\* task, from whatever status it has.
LEMMA EndStep ==
  ASSUME NEW b, Good(b), NEW t \in TaskId, NEW exit \in Exits,
         NEW hasResult \in BOOLEAN
  PROVE  LET c == UpdateTaskStatus(b, t, "terminal", exit, hasResult)
         IN  /\ StepOf(b, c, t)
             /\ Loaded(b, t) => /\ c.rows[t].status = "terminal"
                                /\ c.rows[t].gen = b.rows[t].gen
                                /\ c.rows[t] # NoTask
  <1> DEFINE c == UpdateTaskStatus(b, t, "terminal", exit, hasResult)
             m == b.mem[t]
             o == [m EXCEPT !.status = "terminal", !.exit = exit]
  <1>1. CASE ~Loaded(b, t)
    BY <1>1, StepOfItself DEF UpdateTaskStatus
  <1>2. CASE Loaded(b, t)
    <2>1. /\ m \in Entry /\ b.rows[t].gen = Columns(m).gen /\ b.rows[t] # NoTask
          /\ b.rows[t].status = m.status /\ b.rows[t] \in Row
      BY <1>2, SameState
    <2>2. /\ o \in Entry /\ o.deps = m.deps /\ o.blocks = m.blocks
          /\ Columns(o).gen = Columns(m).gen /\ Columns(o).status = "terminal"
      BY <2>1 DEF Entry, Statuses, Columns
    <2>3. /\ Columns(m) # NoTask /\ Columns(o) # NoTask
          /\ Columns(m).status = m.status
      BY <2>1, <2>2, ConversionTypes, NoTaskIsNone DEF Columns
    <2>4. Follows(b.rows[t], Columns(o)) /\ Follows(b.rows[t], Columns(m))
      BY <2>1, <2>2, <2>3 DEF Follows
    <2> HIDE DEF o, m
    <2>5. StepOf(b, Write(b, t, o), t) /\ Write(b, t, o).rows[t] = Columns(o)
      BY <1>2, <2>2, <2>4, WriteStep DEF m
    <2>6. StepOf(b, Write(b, t, m), t) /\ Write(b, t, m).rows[t] = Columns(m)
      BY <1>2, <2>1, <2>4, WriteStep DEF m
    <2>7. StepOf(b, b, t)
      BY StepOfItself
    <2>8. TransitionAllowed(m.status, "terminal")
      BY <2>1 DEF TransitionAllowed, Entry, Statuses
    <2>9. \/ c = Write(b, t, o)
          \/ c \in {b, Write(b, t, m)} /\ m.status = "terminal"
      BY <1>2, <2>8 DEF UpdateTaskStatus, m, o
    <2> HIDE DEF c
    <2>10. StepOf(b, c, t)
      BY <2>5, <2>6, <2>7, <2>9
    <2>11. c.rows[t].status = "terminal" /\ c.rows[t].gen = b.rows[t].gen
           /\ c.rows[t] # NoTask
      BY <2>1, <2>2, <2>3, <2>5, <2>6, <2>9
    <2> QED BY <2>10, <2>11 DEF c
  <1> QED BY <1>1, <1>2

\* A task that the tool update_task_status marks running first is ended all the
\* same, and nobody saw it running.
LEMMA BeginAndEndStep ==
  ASSUME NEW b, Good(b), NEW t \in TaskId, NEW exit \in Exits \ {"none"},
         Loaded(b, t), b.rows[t].status = "dispatchable"
  PROVE  StepOf(b, UpdateTaskStatus(UpdateTaskStatus(b, t, "running", "none", FALSE),
                                    t, "terminal", exit, TRUE), t)
  <1> DEFINE m == b.mem[t]
             o == [m EXCEPT !.status = "running", !.exit = "none"]
             p == [o EXCEPT !.status = "terminal", !.exit = exit]
             d == Write(b, t, o)
             c == Write(d, t, p)
  <1>1. /\ m \in Entry /\ b.rows[t].gen = Columns(m).gen /\ b.rows[t] # NoTask
        /\ m.status = "dispatchable" /\ b.rows[t] \in Row
    BY SameState
  <1>2. o \in Entry /\ o.status = "running"
    BY <1>1 DEF Entry, Statuses, Exits
  <1>3. /\ p \in Entry /\ p.deps = m.deps /\ p.blocks = m.blocks
        /\ Columns(p).gen = Columns(m).gen /\ Columns(p).status = "terminal"
    BY <1>1 DEF Entry, Statuses, Exits, Columns
  <1>4. Columns(p) # NoTask
    BY <1>3, ConversionTypes, NoTaskIsNone
  <1>5. Follows(b.rows[t], Columns(p))
    BY <1>1, <1>3, <1>4 DEF Follows
  <1>6. UpdateTaskStatus(b, t, "running", "none", FALSE) = d
    BY <1>1 DEF UpdateTaskStatus, TransitionAllowed
  <1>7. d.mem[t] = o /\ Loaded(d, t)
    BY <1>2, NoTaskIsNone DEF Write, Good, Board, Loaded
  <1>8. UpdateTaskStatus(d, t, "terminal", exit, TRUE) = c
    <2>1. d.mem[t].status = "running"
      BY <1>2, <1>7
    <2>2. p = [d.mem[t] EXCEPT !.status = "terminal", !.exit = exit]
      BY <1>7
    <2> HIDE DEF d, p, o, m
    <2> QED BY <1>7, <2>1, <2>2 DEF UpdateTaskStatus, TransitionAllowed
  <1>9. c = Write(b, t, p)
    <2> HIDE DEF p, o, m
    <2> QED BY DEF Write, Good, Board
  <1> HIDE DEF p, o
  <1>10. StepOf(b, Write(b, t, p), t)
    BY <1>3, <1>5, WriteStep
  <1> QED BY <1>6, <1>8, <1>9, <1>10

-----------------------------------------------------------------------------
(* What a handler does to the whole board *)

\* Links that are complete but for the pairs <<t, u>> of M: every task is cached,
\* and a task that waits for t is in the cached back links of t, and in its row.
LinkedBut(b, M) ==
  /\ \A t \in TaskId : LinksStored(b, t)
  /\ \A t, u \in TaskId :
       (b.rows[u] # NoTask /\ t \in b.rows[u].deps) =>
         /\ b.rows[t] # NoTask
         /\ u \in b.mem[t].blocks \/ <<t, u>> \in M

Linked(b) == LinkedBut(b, {})

\* Each row comes after what it was, and a new one has a new id.
RowsFollow(b, c) == \A t \in TaskId : Follows(b.rows[t], c.rows[t])

NewIds(b, c) ==
  /\ b.counter <= c.counter
  /\ \A t \in TaskId : c.rows[t] # NoTask =>
       b.rows[t] # NoTask \/ (b.counter < t /\ t <= c.counter)

\* What a handler does that deletes nothing.
Advances(b, c) ==
  /\ Good(c) /\ RowsFollow(b, c) /\ NewIds(b, c)
  /\ Linked(b) => Linked(c)

\* No task has an id that the counter has still to give.
Numbered(b) == \A t \in TaskId : b.rows[t] # NoTask => t <= b.counter

\* The counter of a board is a number.
LEMMA CounterIsNat ==
  ASSUME NEW b, Good(b)
  PROVE  b.counter \in Nat /\ \A t \in TaskId : t \in Nat
  BY BoardAssumption DEF Good, Board, TaskId

\* Rows that follow rows that follow are rows that follow; likewise new ids.
LEMMA RunsCompose ==
  ASSUME NEW b, Good(b), NEW c, Good(c), NEW d, Good(d),
         RowsFollow(b, c), RowsFollow(c, d), NewIds(b, c), NewIds(c, d)
  PROVE  RowsFollow(b, d) /\ NewIds(b, d)
  <1>1. ASSUME NEW t \in TaskId PROVE Follows(b.rows[t], d.rows[t])
    <2>1. /\ b.rows[t] \in Row \cup {NoTask} /\ c.rows[t] \in Row \cup {NoTask}
          /\ d.rows[t] \in Row \cup {NoTask}
      BY BoardMaps DEF Good
    <2>2. Follows(b.rows[t], c.rows[t]) /\ Follows(c.rows[t], d.rows[t])
      BY DEF RowsFollow
    <2> QED BY <2>1, <2>2, FollowsIsPreorder
  <1>2. NewIds(b, d)
    <2>1. /\ b.counter \in Nat /\ c.counter \in Nat /\ d.counter \in Nat
          /\ \A t \in TaskId : t \in Nat
      BY CounterIsNat
    <2> QED BY <2>1 DEF NewIds
  <1> QED BY <1>1, <1>2 DEF RowsFollow

\* Two handlers in a row advance the board.
LEMMA AdvancesCompose ==
  ASSUME NEW b, Good(b), NEW c, Advances(b, c), NEW d, Advances(c, d)
  PROVE  Advances(b, d)
  BY RunsCompose DEF Advances

\* The ids stay behind the counter.
LEMMA AdvancesNumbered ==
  ASSUME NEW b, Good(b), Numbered(b), NEW c, Advances(b, c)
  PROVE  Numbered(c)
  <1>1. b.counter \in Nat /\ c.counter \in Nat /\ \A t \in TaskId : t \in Nat
    BY CounterIsNat DEF Advances
  <1> QED BY <1>1 DEF Numbered, Advances, NewIds

\* Boards whose tasks keep their links task by task stay linked.
LEMMA KeptLinked ==
  ASSUME NEW b, Linked(b), NEW c,
         \A t \in TaskId : LinksKept(b, c, t),
         \A t \in TaskId : c.rows[t] = NoTask <=> b.rows[t] = NoTask
  PROVE  Linked(c)
  <1>1. \A t \in TaskId : LinksStored(b, t) /\ LinksStored(c, t)
    BY DEF Linked, LinkedBut, LinksKept
  <1>2. ASSUME NEW t \in TaskId, NEW u \in TaskId,
               c.rows[u] # NoTask, t \in c.rows[u].deps
        PROVE  c.rows[t] # NoTask /\ u \in c.mem[t].blocks
    <2>1. b.rows[u] # NoTask /\ t \in b.rows[u].deps
      BY <1>1, <1>2 DEF LinksKept
    <2>2. b.rows[t] # NoTask /\ u \in b.mem[t].blocks
      BY <2>1 DEF Linked, LinkedBut
    <2> QED BY <1>1, <2>2 DEF LinksKept
  <1> QED BY <1>1, <1>2 DEF Linked, LinkedBut

\* A step of one task advances the board.
LEMMA StepAdvances ==
  ASSUME NEW b, Good(b), NEW t \in TaskId, NEW c, StepOf(b, c, t)
  PROVE  Advances(b, c)
  <1>1. Good(c)
    BY DEF StepOf
  <1>2. ASSUME NEW u \in TaskId
        PROVE  /\ Follows(b.rows[u], c.rows[u])
               /\ LinksKept(b, c, u)
               /\ c.rows[u] = NoTask <=> b.rows[u] = NoTask
    <2>1. CASE u = t
      BY <2>1 DEF StepOf
    <2>2. CASE u # t
      <3>1. c.mem[u] = b.mem[u] /\ c.rows[u] = b.rows[u]
        BY <2>2 DEF StepOf
      <3>2. b.rows[u] \in Row \cup {NoTask}
        BY BoardMaps DEF Good
      <3>3. Follows(b.rows[u], b.rows[u])
        BY <3>2, FollowsIsPreorder
      <3> QED BY <3>1, <3>3 DEF LinksKept, LinksStored, Loaded
    <2> QED BY <2>1, <2>2
  <1>3. NewIds(b, c)
    BY <1>2, CounterIsNat DEF NewIds, StepOf
  <1>4. Linked(b) => Linked(c)
    BY <1>2, KeptLinked
  <1> QED BY <1>1, <1>2, <1>3, <1>4 DEF Advances, RowsFollow

\* A method applied to several tasks, f[t] being the board it makes for t.
LEMMA MergedAdvances ==
  ASSUME NEW b, Good(b), NEW S \in SUBSET TaskId, NEW f,
         \A t \in S : StepOf(b, f[t], t)
  PROVE  Advances(b, [b EXCEPT
           !.mem  = [t \in TaskId |-> IF t \in S THEN f[t].mem[t] ELSE b.mem[t]],
           !.rows = [t \in TaskId |-> IF t \in S THEN f[t].rows[t] ELSE b.rows[t]]])
  <1> DEFINE mem  == [t \in TaskId |-> IF t \in S THEN f[t].mem[t] ELSE b.mem[t]]
             rows == [t \in TaskId |-> IF t \in S THEN f[t].rows[t] ELSE b.rows[t]]
             c    == [b EXCEPT !.mem = mem, !.rows = rows]
  <1>1. Good(c)
    BY MergedGood DEF StepOf
  <1>2. c.mem = mem /\ c.rows = rows /\ c.counter = b.counter
    BY DEF Good, Board
  <1> HIDE DEF c
  <1>3. ASSUME NEW t \in TaskId
        PROVE  /\ Follows(b.rows[t], c.rows[t])
               /\ LinksKept(b, c, t)
               /\ c.rows[t] = NoTask <=> b.rows[t] = NoTask
    <2>1. CASE t \in S
      BY <2>1, <1>2 DEF StepOf, LinksKept, LinksStored, Loaded
    <2>2. CASE t \notin S
      <3>1. c.mem[t] = b.mem[t] /\ c.rows[t] = b.rows[t]
        BY <1>2, <2>2
      <3>2. b.rows[t] \in Row \cup {NoTask}
        BY BoardMaps DEF Good
      <3>3. Follows(b.rows[t], b.rows[t])
        BY <3>2, FollowsIsPreorder
      <3> QED BY <3>1, <3>3 DEF LinksKept, LinksStored, Loaded
    <2> QED BY <2>1, <2>2
  <1>4. NewIds(b, c)
    BY <1>2, <1>3, CounterIsNat DEF NewIds
  <1>5. Linked(b) => Linked(c)
    BY <1>3, KeptLinked
  <1>6. Advances(b, c)
    BY <1>1, <1>3, <1>4, <1>5 DEF Advances, RowsFollow
  <1> QED BY <1>6 DEF c

\* createTask of a new id: the other tasks keep their runs and dependencies, the
\* new one is open, and no back link is lost or missing.
LEMMA CreateTaskEffect ==
  ASSUME NEW b, Good(b), NEW t \in TaskId, NEW D \in SUBSET TaskId,
         MayCreate(b, t, D), b.rows[t] = NoTask
  PROVE  LET c == CreateTask(b, t, D)
         IN  /\ c.mem[t] = NewTask(D) /\ c.rows[t] = Columns(NewTask(D))
             /\ \A u \in TaskId \ {t} :
                  /\ c.rows[u] = NoTask <=> b.rows[u] = NoTask
                  /\ b.rows[u] # NoTask => /\ c.rows[u].gen = b.rows[u].gen
                                           /\ c.rows[u].status = b.rows[u].status
                                           /\ c.rows[u].deps = b.rows[u].deps
                  /\ Loaded(b, u) => /\ Loaded(c, u)
                                     /\ c.mem[u].gen = b.mem[u].gen
             /\ \A M : LinkedBut(b, M) => LinkedBut(c, M)
  <1> DEFINE c == CreateTask(b, t, D)
             linked(u) == [b.mem[u] EXCEPT !.blocks = @ \cup {t}]
  <1>1. b \in Board /\ t \notin D /\ \A u \in D : u \in TaskId /\ Loaded(b, u)
    BY DEF Good, MayCreate, Cached
  <1>2. /\ c.mem[t] = NewTask(D) /\ c.rows[t] = Columns(NewTask(D))
        /\ \A u \in D : /\ c.mem[u] = linked(u)
                        /\ c.rows[u] = IF t \notin b.mem[u].blocks
                                       THEN Columns(linked(u)) ELSE b.rows[u]
        /\ \A u \in TaskId \ ({t} \cup D) :
             c.mem[u] = b.mem[u] /\ c.rows[u] = b.rows[u]
    BY <1>1 DEF CreateTask, Board
  <1>3. ASSUME NEW u \in D
        PROVE  /\ linked(u) \in Entry /\ linked(u) # NoTask
               /\ linked(u).gen = b.mem[u].gen
               /\ linked(u).blocks = b.mem[u].blocks \cup {t}
               /\ Columns(linked(u)) # NoTask
               /\ Columns(linked(u)).gen = b.rows[u].gen
               /\ Columns(linked(u)).status = b.rows[u].status
               /\ Columns(linked(u)).deps = b.rows[u].deps
               /\ Columns(linked(u)).blocks = linked(u).blocks
               /\ b.rows[u] # NoTask
    <2>1. /\ b.mem[u] \in Entry /\ b.rows[u] # NoTask
          /\ b.rows[u].status = b.mem[u].status
          /\ b.rows[u].deps = b.mem[u].deps
          /\ b.rows[u].gen = Columns(b.mem[u]).gen
      BY <1>1, <1>3, SameState
    <2>2. /\ linked(u) \in Entry /\ linked(u).gen = b.mem[u].gen
          /\ linked(u).genCol = b.mem[u].genCol
          /\ linked(u).status = b.mem[u].status
          /\ linked(u).deps = b.mem[u].deps
          /\ linked(u).blocks = b.mem[u].blocks \cup {t}
      BY <2>1 DEF Entry
    <2> HIDE DEF linked
    <2>3. linked(u) # NoTask /\ Columns(linked(u)) # NoTask
      BY <2>2, ConversionTypes, NoTaskIsNone
    <2> QED BY <2>1, <2>2, <2>3 DEF Columns
  <1>4. NewTask(D) # NoTask /\ Columns(NewTask(D)) # NoTask
        /\ Columns(NewTask(D)).deps = D /\ NewTask(D).blocks = {}
        /\ Columns(NewTask(D)).blocks = {}
    BY NewTaskType, ConversionTypes, NoTaskIsNone DEF NewTask, Columns
  <1> HIDE DEF c, linked
  <1>5. ASSUME NEW u \in TaskId \ {t}
        PROVE  /\ c.rows[u] = NoTask <=> b.rows[u] = NoTask
               /\ b.rows[u] # NoTask => /\ c.rows[u].gen = b.rows[u].gen
                                        /\ c.rows[u].status = b.rows[u].status
                                        /\ c.rows[u].deps = b.rows[u].deps
               /\ Loaded(b, u) => Loaded(c, u) /\ c.mem[u].gen = b.mem[u].gen
               /\ Loaded(b, u) => b.mem[u].blocks \subseteq c.mem[u].blocks
               /\ LinksStored(b, u) => LinksStored(c, u)
    <2>1. CASE u \in D
      <3>1. /\ c.mem[u] = linked(u)
            /\ c.rows[u] = IF t \notin b.mem[u].blocks
                           THEN Columns(linked(u)) ELSE b.rows[u]
        BY <1>2, <2>1
      <3> QED BY <2>1, <3>1, <1>3 DEF Loaded, LinksStored
    <2>2. CASE u \notin D
      BY <1>2, <1>5, <2>2 DEF Loaded, LinksStored
    <2> QED BY <2>1, <2>2
  <1>6. ASSUME NEW M, LinkedBut(b, M) PROVE LinkedBut(c, M)
    <2>1. ASSUME NEW u \in TaskId PROVE LinksStored(c, u)
      <3>1. CASE u = t
        BY <3>1, <1>2, <1>4 DEF LinksStored, Loaded
      <3>2. CASE u # t
        BY <3>2, <1>5, <1>6 DEF LinkedBut
      <3> QED BY <3>1, <3>2
    <2>2. ASSUME NEW x \in TaskId, NEW u \in TaskId,
                 c.rows[u] # NoTask, x \in c.rows[u].deps
          PROVE  c.rows[x] # NoTask /\ (u \in c.mem[x].blocks \/ <<x, u>> \in M)
      <3>1. CASE u = t
        <4>1. x \in D
          BY <2>2, <3>1, <1>2, <1>4
        <4>2. c.rows[x] # NoTask /\ c.mem[x] = linked(x)
          BY <1>1, <1>2, <1>3, <1>5, <4>1
        <4> QED BY <1>3, <3>1, <4>1, <4>2
      <3>2. CASE u # t
        <4>1. b.rows[u] # NoTask /\ x \in b.rows[u].deps
          BY <1>5, <2>2, <3>2
        <4>2. b.rows[x] # NoTask /\ (u \in b.mem[x].blocks \/ <<x, u>> \in M)
          BY <1>6, <4>1 DEF LinkedBut
        <4>3. x # t /\ Loaded(b, x)
          BY <1>6, <4>2 DEF LinkedBut, LinksStored
        <4> QED BY <1>5, <4>2, <4>3
      <3> QED BY <3>1, <3>2
    <2> QED BY <2>1, <2>2 DEF LinkedBut
  <1> QED BY <1>2, <1>5, <1>6 DEF c

\* nextTaskId and createTask: the same, under an id above all others.
LEMMA CreateNextEffect ==
  ASSUME NEW b, Good(b), Numbered(b), NEW D \in SUBSET TaskId,
         NEW c \in CreateNext(b, D)
  PROVE  /\ Advances(b, c)
         /\ Counted(c, c.counter)
         /\ \A u \in TaskId : b.rows[u] # NoTask =>
              /\ c.rows[u] # NoTask
              /\ c.rows[u].gen = b.rows[u].gen
              /\ c.rows[u].status = b.rows[u].status
              /\ c.rows[u].deps = b.rows[u].deps
              /\ Loaded(b, u) => Loaded(c, u) /\ c.mem[u].gen = b.mem[u].gen
         /\ \A M : LinkedBut(b, M) => LinkedBut(c, M)
  <1>1. PICK i \in TaskId :
          /\ i > b.counter /\ MayCreate(b, i, D)
          /\ c = [CreateTask(b, i, D) EXCEPT !.counter = i]
    BY DEF CreateNext, NextTaskId
  <1> DEFINE d == CreateTask(b, i, D)
  <1>2. Good(c) /\ Good(d)
    BY <1>1, CreateTaskGood, CreateNextGood
  <1>3. c.mem = d.mem /\ c.rows = d.rows /\ c.counter = i
    BY <1>1, <1>2 DEF Good, Board
  <1>4. b.counter \in Nat /\ \A u \in TaskId : u \in Nat
    BY CounterIsNat
  <1>5. b.rows[i] = NoTask
    BY <1>1, <1>4 DEF Numbered
  <1>6. /\ d.mem[i] = NewTask(D) /\ d.rows[i] = Columns(NewTask(D))
        /\ \A u \in TaskId \ {i} :
             /\ d.rows[u] = NoTask <=> b.rows[u] = NoTask
             /\ b.rows[u] # NoTask => /\ d.rows[u].gen = b.rows[u].gen
                                      /\ d.rows[u].status = b.rows[u].status
                                      /\ d.rows[u].deps = b.rows[u].deps
             /\ Loaded(b, u) => Loaded(d, u) /\ d.mem[u].gen = b.mem[u].gen
        /\ \A M : LinkedBut(b, M) => LinkedBut(d, M)
    BY <1>1, <1>5, CreateTaskEffect
  <1> HIDE DEF d
  <1>7. \A M : LinkedBut(b, M) => LinkedBut(c, M)
    <2>1. \A M : LinkedBut(d, M) => LinkedBut(c, M)
      BY <1>3 DEF LinkedBut, LinksStored, Loaded
    <2> QED BY <1>6, <2>1
  <1>8. ASSUME NEW u \in TaskId
        PROVE  Follows(b.rows[u], c.rows[u])
    <2>1. CASE u = i
      <3>1. /\ Columns(NewTask(D)).gen = 0
            /\ Columns(NewTask(D)).status = "dispatchable"
        BY DEF NewTask, Columns, NoGen
      <3> QED BY <1>3, <1>5, <1>6, <2>1, <3>1 DEF Follows
    <2>2. CASE u # i
      BY <1>3, <1>6, <2>2 DEF Follows
    <2> QED BY <2>1, <2>2
  <1>9. NewIds(b, c)
    BY <1>1, <1>3, <1>4, <1>6 DEF NewIds
  <1>10. Counted(c, c.counter)
    BY <1>3, <1>6 DEF Counted, NewTask, NoGen
  <1> QED BY <1>2, <1>3, <1>5, <1>6, <1>7, <1>8, <1>9, <1>10
          DEF Advances, RowsFollow, Linked, Loaded

\* updateTask with blocked_by rebuilds all back links from the dependencies.
LEMMA UpdateDependenciesAdvances ==
  ASSUME NEW b, Good(b), NEW t \in TaskId, Loaded(b, t),
         NEW D \in SUBSET TaskId, D \subseteq Cached(b)
  PROVE  Advances(b, UpdateDependencies(b, t, D))
  <1> DEFINE edited == [b.mem EXCEPT ![t].deps = D \ {t}]
             S(u)   == {v \in TaskId : edited[v] # NoTask /\ u \in edited[v].deps}
             c      == UpdateDependencies(b, t, D)
  <1>1. b \in Board /\ Good(c)
    BY UpdateDependenciesGood DEF Good
  <1>2. /\ \A u \in TaskId : edited[u] = NoTask <=> b.mem[u] = NoTask
        /\ \A u \in TaskId : Loaded(b, u) => edited[u] \in Entry
        /\ \A u \in TaskId \ {t} : edited[u] = b.mem[u]
        /\ edited[t] = [b.mem[t] EXCEPT !.deps = D \ {t}]
    <2>1. b.mem[t] \in Entry /\ D \ {t} \in SUBSET TaskId
      BY <1>1, BoardMaps
    <2>2. [b.mem[t] EXCEPT !.deps = D \ {t}] \in Entry
      BY <2>1, DepsType
    <2>3. edited[t] = [b.mem[t] EXCEPT !.deps = D \ {t}]
          /\ \A u \in TaskId \ {t} : edited[u] = b.mem[u]
      BY <1>1, BoardMaps
    <2> HIDE DEF edited
    <2> QED BY <1>1, <2>2, <2>3, BoardMaps, NoTaskIsNone DEF Loaded
  <1>3. /\ edited[t].gen = b.mem[t].gen /\ edited[t].genCol = b.mem[t].genCol
        /\ edited[t].status = b.mem[t].status /\ edited[t].deps \subseteq D
    <2>1. b.mem[t] \in Entry
      BY <1>1, BoardMaps
    <2> QED BY <1>2, <2>1 DEF Entry
  <1> HIDE DEF edited
  <1>4. ASSUME NEW u \in TaskId
        PROVE  /\ ~Loaded(b, u) => c.mem[u] = NoTask /\ c.rows[u] = b.rows[u]
               /\ Loaded(b, u) => /\ c.mem[u] = [edited[u] EXCEPT !.blocks = S(u)]
                                  /\ c.rows[u] = Columns(c.mem[u])
    <2>1. /\ c.mem = RebuildBlocks(edited)
          /\ c.rows[u] = IF c.mem[u] = NoTask THEN b.rows[u] ELSE Columns(c.mem[u])
      BY <1>1 DEF UpdateDependencies, Board, edited
    <2>2. c.mem[u] = IF edited[u] = NoTask THEN NoTask
                     ELSE [edited[u] EXCEPT !.blocks = S(u)]
      BY <2>1 DEF RebuildBlocks
    <2>3. Loaded(b, u) => c.mem[u] # NoTask
      <3> SUFFICES ASSUME Loaded(b, u) PROVE c.mem[u] # NoTask
        OBVIOUS
      <3>1. edited[u] \in Entry /\ S(u) \in SUBSET TaskId /\ edited[u] # NoTask
        BY <1>2, NoTaskIsNone
      <3> HIDE DEF S
      <3>2. [edited[u] EXCEPT !.blocks = S(u)] \in Entry
        BY <3>1, BlocksType
      <3> QED BY <2>2, <3>1, <3>2, NoTaskIsNone
    <2> HIDE DEF c, S
    <2> QED BY <1>2, <2>1, <2>2, <2>3 DEF Loaded
  <1>5. ASSUME NEW u \in TaskId, Loaded(b, u)
        PROVE  /\ c.mem[u] # NoTask /\ c.rows[u] # NoTask /\ b.rows[u] # NoTask
               /\ c.rows[u].gen = b.rows[u].gen
               /\ c.rows[u].status = b.rows[u].status
               /\ c.rows[u].deps = edited[u].deps
               /\ c.rows[u].blocks = S(u) /\ c.mem[u].blocks = S(u)
    <2>1. edited[u] \in Entry
      BY <1>2, <1>5
    <2>2. /\ b.rows[u] # NoTask /\ b.mem[u] \in Entry
          /\ b.rows[u].status = b.mem[u].status
          /\ b.rows[u].gen = Columns(b.mem[u]).gen
      BY <1>5, SameState
    <2> DEFINE o == [edited[u] EXCEPT !.blocks = S(u)]
    <2>3. S(u) \in SUBSET TaskId
      OBVIOUS
    <2>4. c.mem[u] = o /\ c.rows[u] = Columns(o)
      BY <1>4, <1>5
    <2> HIDE DEF S, c
    <2>5. o \in Entry
      BY <2>1, <2>3, BlocksType
    <2>6. /\ o.gen = edited[u].gen /\ o.genCol = edited[u].genCol
          /\ o.status = edited[u].status /\ o.deps = edited[u].deps
          /\ o.blocks = S(u)
      BY <2>1 DEF Entry
    <2>7. /\ edited[u].gen = b.mem[u].gen /\ edited[u].genCol = b.mem[u].genCol
          /\ edited[u].status = b.mem[u].status
      BY <1>2, <1>3
    <2> HIDE DEF o
    <2> QED BY <2>2, <2>4, <2>5, <2>6, <2>7, ConversionTypes, NoTaskIsNone
            DEF Columns
  <1>6. ASSUME NEW u \in TaskId
        PROVE  /\ c.rows[u] = NoTask <=> b.rows[u] = NoTask
               /\ Follows(b.rows[u], c.rows[u])
    <2>1. CASE Loaded(b, u)
      BY <1>5, <2>1 DEF Follows
    <2>2. CASE ~Loaded(b, u)
      <3>1. b.rows[u] \in Row \cup {NoTask}
        BY <1>1, BoardMaps
      <3> QED BY <1>4, <2>2, <3>1, FollowsIsPreorder
    <2> QED BY <2>1, <2>2
  <1>7. c.counter = b.counter
    BY <1>1 DEF UpdateDependencies, Board
  <1>8. ASSUME Linked(b) PROVE Linked(c)
    <2>1. ASSUME NEW u \in TaskId PROVE LinksStored(c, u)
      BY <1>5, <1>6, <1>8 DEF LinksStored, Linked, LinkedBut, Loaded
    <2>2. ASSUME NEW x \in TaskId, NEW u \in TaskId,
                 c.rows[u] # NoTask, x \in c.rows[u].deps
          PROVE  c.rows[x] # NoTask /\ u \in c.mem[x].blocks
      <3>1. Loaded(b, u) /\ b.rows[u] # NoTask
        BY <1>6, <1>8, <2>2 DEF Linked, LinkedBut, LinksStored
      <3>2. x \in edited[u].deps /\ edited[u] # NoTask
        BY <1>2, <1>5, <2>2, <3>1 DEF Loaded
      <3>3. Loaded(b, x)
        <4>1. CASE u = t
          BY <1>3, <3>2, <4>1 DEF Cached
        <4>2. CASE u # t
          <5>1. x \in b.rows[u].deps
            BY <1>2, <3>1, <3>2, <4>2, SameState
          <5> QED BY <1>8, <3>1, <5>1 DEF Linked, LinkedBut, LinksStored
        <4> QED BY <4>1, <4>2
      <3>4. c.rows[x] # NoTask /\ c.mem[x].blocks = S(x)
        BY <1>5, <3>3
      <3> QED BY <3>2, <3>4
    <2> HIDE DEF c
    <2> QED BY <2>1, <2>2 DEF Linked, LinkedBut
  <1>9. NewIds(b, c)
    BY <1>6, <1>7, CounterIsNat DEF NewIds
  <1> HIDE DEF c
  <1>10. Advances(b, c)
    BY <1>1, <1>6, <1>8, <1>9 DEF Advances, RowsFollow
  <1> QED BY <1>10 DEF c

\* The first half of cancelTask ends the run and forgets the back links.
LEMMA CancelEffect ==
  ASSUME NEW b, Good(b), NEW t \in TaskId, Loaded(b, t)
  PROVE  LET c == CancelTask(b, t)
         IN  /\ Good(c) /\ RowsFollow(b, c) /\ NewIds(b, c)
             /\ c.counter = b.counter
             /\ \A u \in TaskId : c.rows[u] = NoTask <=> b.rows[u] = NoTask
             /\ \A u \in TaskId : Loaded(b, u) => Loaded(c, u)
             /\ \A u \in TaskId : b.rows[u] # NoTask => c.rows[u].deps = b.rows[u].deps
             /\ Linked(b) => LinkedBut(c, {t} \X b.mem[t].blocks)
  <1> DEFINE c == CancelTask(b, t)
             m == b.mem[t]
             o == [m EXCEPT !.status = "terminal", !.exit = "cancelled", !.blocks = {}]
  <1>1. b \in Board /\ Good(c)
    BY CancelGood DEF Good
  <1>2. /\ m \in Entry /\ b.rows[t] # NoTask /\ b.rows[t] \in Row
        /\ b.rows[t].gen = Columns(m).gen /\ b.rows[t].deps = m.deps
    BY SameState
  <1>3. /\ o \in Entry /\ o.status = "terminal" /\ o.gen = m.gen
        /\ o.genCol = m.genCol /\ o.deps = m.deps /\ o.blocks = {}
    BY <1>2 DEF Entry, Statuses, Exits
  <1>4. c.mem = [b.mem EXCEPT ![t] = o] /\ c.rows = [b.rows EXCEPT ![t] = Columns(o)]
        /\ c.counter = b.counter
    BY <1>1 DEF CancelTask, Write, Board
  <1>5. /\ c.mem[t] = o /\ c.rows[t] = Columns(o)
        /\ \A u \in TaskId \ {t} : c.mem[u] = b.mem[u] /\ c.rows[u] = b.rows[u]
    BY <1>1, <1>4, BoardMaps
  <1> HIDE DEF o
  <1>6. /\ o # NoTask /\ Columns(o) # NoTask
        /\ Columns(o).gen = Columns(m).gen /\ Columns(o).status = "terminal"
        /\ Columns(o).deps = m.deps /\ Columns(o).blocks = {}
    BY <1>3, ConversionTypes, NoTaskIsNone DEF Columns
  <1> HIDE DEF c, m
  <1>7. ASSUME NEW u \in TaskId
        PROVE  /\ Follows(b.rows[u], c.rows[u])
               /\ c.rows[u] = NoTask <=> b.rows[u] = NoTask
               /\ Loaded(b, u) => Loaded(c, u)
               /\ b.rows[u] # NoTask => c.rows[u].deps = b.rows[u].deps
    <2>1. CASE u = t
      BY <1>2, <1>5, <1>6, <2>1 DEF Follows, Loaded
    <2>2. CASE u # t
      <3>1. b.rows[u] \in Row \cup {NoTask}
        BY <1>1, BoardMaps
      <3>2. Follows(b.rows[u], b.rows[u])
        BY <3>1, FollowsIsPreorder
      <3> QED BY <1>5, <2>2, <3>2 DEF Loaded
    <2> QED BY <2>1, <2>2
  <1>8. ASSUME Linked(b) PROVE LinkedBut(c, {t} \X m.blocks)
    <2>1. ASSUME NEW u \in TaskId PROVE LinksStored(c, u)
      <3>1. CASE u = t
        BY <1>3, <1>5, <1>6, <3>1 DEF LinksStored, Loaded
      <3>2. CASE u # t
        BY <1>5, <1>8, <3>2 DEF LinksStored, Loaded, Linked, LinkedBut
      <3> QED BY <3>1, <3>2
    <2>2. ASSUME NEW x \in TaskId, NEW u \in TaskId,
                 c.rows[u] # NoTask, x \in c.rows[u].deps
          PROVE  /\ c.rows[x] # NoTask
                 /\ u \in c.mem[x].blocks \/ <<x, u>> \in {t} \X m.blocks
      <3>1. b.rows[x] # NoTask /\ u \in b.mem[x].blocks
        BY <1>7, <1>8, <2>2 DEF Linked, LinkedBut
      <3>2. CASE x = t
        BY <1>7, <3>1, <3>2 DEF m
      <3>3. CASE x # t
        BY <1>5, <1>7, <3>1, <3>3
      <3> QED BY <3>2, <3>3
    <2> QED BY <2>1, <2>2 DEF LinkedBut
  <1>9. NewIds(b, c)
    BY <1>4, <1>7, CounterIsNat DEF NewIds
  <1> QED BY <1>1, <1>4, <1>7, <1>8, <1>9 DEF RowsFollow, c, m

\* The second half releases every cached task of the old back links, and so puts
\* the links in order.
LEMMA ReleaseEffect ==
  ASSUME NEW b, Good(b), NEW t \in TaskId, NEW S \in SUBSET TaskId
  PROVE  LET c == ReleaseDependents(b, t, S)
         IN  /\ Good(c) /\ RowsFollow(b, c) /\ NewIds(b, c)
             /\ LinkedBut(b, {t} \X S) => Linked(c)
             /\ \A u \in TaskId : b.rows[u] # NoTask =>
                  /\ c.rows[u].deps \subseteq b.rows[u].deps
                  /\ u \in S /\ Loaded(b, u) => t \notin c.rows[u].deps
  <1> DEFINE c == ReleaseDependents(b, t, S)
             released == {u \in S : Loaded(b, u) /\ t \in b.mem[u].deps}
             freed(u) == [b.mem[u] EXCEPT !.deps = @ \ {t}]
  <1>1. b \in Board /\ Good(c)
    BY ReleaseDependentsGood DEF Good
  <1>2. /\ c.counter = b.counter
        /\ \A u \in released : c.mem[u] = freed(u) /\ c.rows[u] = Columns(freed(u))
        /\ \A u \in TaskId \ released :
             c.mem[u] = b.mem[u] /\ c.rows[u] = b.rows[u]
    BY <1>1 DEF ReleaseDependents, Board
  <1>3. ASSUME NEW u \in released
        PROVE  /\ b.rows[u] # NoTask /\ freed(u) # NoTask
               /\ Columns(freed(u)) # NoTask
               /\ Columns(freed(u)).gen = b.rows[u].gen
               /\ Columns(freed(u)).status = b.rows[u].status
               /\ Columns(freed(u)).deps = b.rows[u].deps \ {t}
               /\ Columns(freed(u)).blocks = b.mem[u].blocks
               /\ freed(u).blocks = b.mem[u].blocks
    <2>1. /\ b.mem[u] \in Entry /\ b.rows[u] # NoTask
          /\ b.rows[u].status = b.mem[u].status
          /\ b.rows[u].deps = b.mem[u].deps
          /\ b.rows[u].gen = Columns(b.mem[u]).gen
      BY SameState
    <2>2. /\ freed(u).gen = b.mem[u].gen
          /\ freed(u).genCol = b.mem[u].genCol
          /\ freed(u).status = b.mem[u].status
          /\ freed(u).deps = b.mem[u].deps \ {t}
          /\ freed(u).blocks = b.mem[u].blocks
      BY <2>1 DEF Entry
    <2>3. freed(u) \in Entry
      <3>1. b.mem[u].deps \ {t} \in SUBSET TaskId
        BY <2>1 DEF Entry
      <3> QED BY <2>1, <3>1, DepsType
    <2> HIDE DEF freed
    <2> QED BY <2>1, <2>2, <2>3, ConversionTypes, NoTaskIsNone DEF Columns
  <1>4. ASSUME NEW u \in S, Loaded(b, u), u \notin released
        PROVE  b.rows[u] # NoTask => t \notin b.rows[u].deps
    BY <1>4, SameState
  <1>5. released \subseteq S
    OBVIOUS
  <1> HIDE DEF c, freed, released
  <1>6. ASSUME NEW u \in TaskId
        PROVE  /\ Follows(b.rows[u], c.rows[u])
               /\ c.rows[u] = NoTask <=> b.rows[u] = NoTask
               /\ LinksStored(b, u) => /\ LinksStored(c, u)
                                       /\ b.rows[u] # NoTask =>
                                            c.mem[u].blocks = b.mem[u].blocks
               /\ b.rows[u] # NoTask =>
                    /\ c.rows[u].deps \subseteq b.rows[u].deps
                    /\ u \in S /\ Loaded(b, u) => t \notin c.rows[u].deps
    <2>1. CASE u \in released
      BY <1>2, <1>3, <2>1 DEF Follows, LinksStored, Loaded
    <2>2. CASE u \notin released
      <3>1. b.rows[u] \in Row \cup {NoTask}
        BY <1>1, BoardMaps
      <3>2. Follows(b.rows[u], b.rows[u])
        BY <3>1, FollowsIsPreorder
      <3> QED BY <1>2, <1>4, <2>2, <3>2 DEF LinksStored, Loaded
    <2> QED BY <2>1, <2>2
  <1>7. ASSUME LinkedBut(b, {t} \X S) PROVE Linked(c)
    <2>1. ASSUME NEW u \in TaskId PROVE LinksStored(c, u)
      BY <1>6, <1>7 DEF LinkedBut
    <2>2. ASSUME NEW x \in TaskId, NEW u \in TaskId,
                 c.rows[u] # NoTask, x \in c.rows[u].deps
          PROVE  c.rows[x] # NoTask /\ u \in c.mem[x].blocks
      <3>1. b.rows[u] # NoTask /\ x \in b.rows[u].deps
        BY <1>6, <2>2
      <3>2. b.rows[x] # NoTask /\ (u \in b.mem[x].blocks \/ <<x, u>> \in {t} \X S)
        BY <1>7, <3>1 DEF LinkedBut
      <3>3. LinksStored(b, x) /\ Loaded(b, u)
        BY <1>7, <3>1 DEF LinkedBut, LinksStored
      <3>4. <<x, u>> \notin {t} \X S
        BY <1>6, <2>2, <3>1, <3>3
      <3> QED BY <1>6, <3>2, <3>3, <3>4
    <2> QED BY <2>1, <2>2 DEF Linked, LinkedBut
  <1>8. NewIds(b, c)
    BY <1>2, <1>6, CounterIsNat DEF NewIds
  <1> QED BY <1>1, <1>6, <1>7, <1>8 DEF RowsFollow, c

\* deleteTask removes one row and its links; the other runs go on.
LEMMA DeleteEffect ==
  ASSUME NEW b, Good(b), NEW t \in TaskId
  PROVE  LET c == DeleteTask(b, t)
         IN  /\ c.counter = b.counter
             /\ c.rows[t] = NoTask
             /\ \A u \in TaskId \ {t} : /\ Follows(b.rows[u], c.rows[u])
                                        /\ c.rows[u] = NoTask <=> b.rows[u] = NoTask
             /\ Linked(b) => Linked(c)
  <1> DEFINE rest     == [b.mem EXCEPT ![t] = NoTask]
             affected == {u \in TaskId : rest[u] # NoTask /\ t \in rest[u].deps}
             edited   == [u \in TaskId |-> IF u \in affected
                            THEN [rest[u] EXCEPT !.deps = @ \ {t}] ELSE rest[u]]
             S(u)     == {v \in TaskId : edited[v] # NoTask /\ u \in edited[v].deps}
             c        == DeleteTask(b, t)
  <1>1. b \in Board /\ Good(c)
    BY DeleteTaskGood DEF Good
  <1>2. /\ c.mem = RebuildBlocks(edited)
        /\ c.rows = [u \in TaskId |-> IF u = t THEN NoTask
                                      ELSE IF u \in affected THEN Columns(c.mem[u])
                                      ELSE b.rows[u]]
        /\ c.counter = b.counter
    BY <1>1 DEF DeleteTask, Board
  <1>3. rest[t] = NoTask /\ \A u \in TaskId \ {t} : rest[u] = b.mem[u]
    BY <1>1, BoardMaps
  <1>4. t \notin affected /\ affected \subseteq TaskId
    BY <1>3
  <1>5. ASSUME NEW u \in TaskId \ {t}, Loaded(b, u)
        PROVE  /\ edited[u] \in Entry /\ edited[u] # NoTask
               /\ edited[u].gen = b.mem[u].gen /\ edited[u].genCol = b.mem[u].genCol
               /\ edited[u].status = b.mem[u].status
               /\ edited[u].deps = b.rows[u].deps \ {t}
               /\ u \notin affected => t \notin b.rows[u].deps
    <2>1. b.mem[u] \in Entry /\ b.rows[u].deps = b.mem[u].deps
      BY <1>5, SameState
    <2>2. rest[u] = b.mem[u] /\ (u \in affected <=> t \in b.mem[u].deps)
      BY <1>3, <1>5 DEF Loaded
    <2>3. edited[u] = IF u \in affected THEN [b.mem[u] EXCEPT !.deps = @ \ {t}]
                      ELSE b.mem[u]
      BY <2>2
    <2>4. b.mem[u].deps \ {t} \in SUBSET TaskId
      BY <2>1 DEF Entry
    <2>5. [b.mem[u] EXCEPT !.deps = @ \ {t}] \in Entry
      BY <2>1, <2>4, DepsType
    <2> HIDE DEF edited, affected, rest
    <2>6. /\ edited[u].gen = b.mem[u].gen /\ edited[u].genCol = b.mem[u].genCol
          /\ edited[u].status = b.mem[u].status
          /\ edited[u].deps = b.mem[u].deps \ {t}
      BY <2>1, <2>2, <2>3 DEF Entry
    <2> QED BY <2>1, <2>2, <2>3, <2>5, <2>6, NoTaskIsNone
  <1>6. ASSUME NEW u \in TaskId, edited[u] # NoTask PROVE u # t /\ Loaded(b, u)
    BY <1>3, <1>4, <1>6 DEF Loaded
  <1> HIDE DEF edited, affected, rest
  <1>7. ASSUME NEW u \in TaskId \ {t}, Loaded(b, u)
        PROVE  /\ c.mem[u] # NoTask /\ c.mem[u].blocks = S(u)
               /\ c.rows[u] # NoTask /\ b.rows[u] # NoTask
               /\ c.rows[u].gen = b.rows[u].gen
               /\ c.rows[u].status = b.rows[u].status
               /\ c.rows[u].deps = b.rows[u].deps \ {t}
               /\ c.rows[u].blocks \in {b.rows[u].blocks, S(u)}
    <2> DEFINE o == [edited[u] EXCEPT !.blocks = S(u)]
    <2>1. c.mem[u] = o
      BY <1>2, <1>5, <1>7 DEF RebuildBlocks
    <2>2. c.rows[u] = IF u \in affected THEN Columns(c.mem[u]) ELSE b.rows[u]
      BY <1>2, <1>7
    <2>3. S(u) \in SUBSET TaskId
      OBVIOUS
    <2> HIDE DEF S, c
    <2>4. edited[u] \in Entry
      BY <1>5, <1>7
    <2>5. o \in Entry
      BY <2>3, <2>4, BlocksType
    <2>6. /\ o.gen = edited[u].gen /\ o.genCol = edited[u].genCol
          /\ o.status = edited[u].status /\ o.deps = edited[u].deps
          /\ o.blocks = S(u)
      BY <2>4 DEF Entry
    <2>7. /\ b.mem[u] \in Entry /\ b.rows[u] # NoTask
          /\ b.rows[u].status = b.mem[u].status
          /\ b.rows[u].gen = Columns(b.mem[u]).gen
      BY <1>7, SameState
    <2> HIDE DEF o
    <2>8. /\ o # NoTask /\ Columns(o) # NoTask
          /\ Columns(o).gen = b.rows[u].gen /\ Columns(o).status = b.rows[u].status
          /\ Columns(o).deps = b.rows[u].deps \ {t} /\ Columns(o).blocks = S(u)
      BY <1>5, <1>7, <2>5, <2>6, <2>7, ConversionTypes, NoTaskIsNone DEF Columns
    <2>9. u \notin affected => b.rows[u].deps = b.rows[u].deps \ {t}
      BY <1>5, <1>7
    <2> QED BY <2>1, <2>2, <2>6, <2>7, <2>8, <2>9
  <1>8. ASSUME NEW u \in TaskId \ {t}, ~Loaded(b, u) PROVE c.rows[u] = b.rows[u]
    BY <1>2, <1>3, <1>8 DEF affected, Loaded
  <1>9. c.rows[t] = NoTask
    BY <1>2
  <1> HIDE DEF c
  <1>10. ASSUME NEW u \in TaskId \ {t}
         PROVE  /\ Follows(b.rows[u], c.rows[u])
                /\ c.rows[u] = NoTask <=> b.rows[u] = NoTask
    <2>1. CASE Loaded(b, u)
      BY <1>7, <2>1 DEF Follows
    <2>2. CASE ~Loaded(b, u)
      <3>1. b.rows[u] \in Row \cup {NoTask}
        BY <1>1, BoardMaps
      <3> QED BY <1>8, <2>2, <3>1, FollowsIsPreorder
    <2> QED BY <2>1, <2>2
  <1>11. ASSUME Linked(b) PROVE Linked(c)
    <2>1. ASSUME NEW u \in TaskId, c.rows[u] # NoTask
          PROVE  u \in TaskId \ {t} /\ Loaded(b, u) /\ b.rows[u] # NoTask
      BY <1>9, <1>10, <1>11, <2>1 DEF Linked, LinkedBut, LinksStored
    <2>2. ASSUME NEW u \in TaskId PROVE LinksStored(c, u)
      <3> SUFFICES ASSUME c.rows[u] # NoTask
                   PROVE  Loaded(c, u) /\ c.mem[u].blocks \subseteq c.rows[u].blocks
        BY DEF LinksStored
      <3>1. u \in TaskId \ {t} /\ Loaded(b, u) /\ b.rows[u] # NoTask
        BY <2>1
      <3>2. ASSUME NEW v \in S(u) PROVE v \in b.rows[u].blocks
        <4>1. v \in TaskId /\ edited[v] # NoTask /\ u \in edited[v].deps
          BY <3>2
        <4>2. v # t /\ Loaded(b, v)
          BY <1>6, <4>1
        <4>3. b.rows[v] # NoTask /\ u \in b.rows[v].deps
          BY <1>5, <1>7, <4>1, <4>2
        <4> QED BY <1>11, <3>1, <4>1, <4>3 DEF Linked, LinkedBut, LinksStored
      <3> HIDE DEF S
      <3> QED BY <1>7, <3>1, <3>2 DEF Loaded
    <2>3. ASSUME NEW x \in TaskId, NEW u \in TaskId,
                 c.rows[u] # NoTask, x \in c.rows[u].deps
          PROVE  c.rows[x] # NoTask /\ u \in c.mem[x].blocks
      <3>1. u \in TaskId \ {t} /\ Loaded(b, u) /\ b.rows[u] # NoTask
        BY <2>1, <2>3
      <3>2. x \in b.rows[u].deps /\ x # t
        BY <1>7, <2>3, <3>1
      <3>3. b.rows[x] # NoTask /\ Loaded(b, x)
        BY <1>11, <3>1, <3>2 DEF Linked, LinkedBut, LinksStored
      <3>4. edited[u] # NoTask /\ x \in edited[u].deps
        BY <1>5, <3>1, <3>2
      <3>5. u \in S(x)
        BY <3>4
      <3> QED BY <1>7, <3>2, <3>3, <3>5
    <2> QED BY <2>2, <2>3 DEF Linked, LinkedBut
  <1> QED BY <1>2, <1>9, <1>10, <1>11 DEF c

\* A new process that loads the rows has the same rows, their links, and a
\* counter that is behind none of them.
LEMMA LoadEffect ==
  ASSUME NEW b, Good(b), NEW n \in 0..MaxTasks, IsHighestId(b, n)
  PROVE  LET c == LoadFromDB(b, n)
         IN  /\ c.rows = b.rows /\ Numbered(c)
             /\ Linked(b) => Linked(c)
  <1> DEFINE c == LoadFromDB(b, n)
             raw == [t \in TaskId |-> IF b.rows[t] = NoTask THEN NoTask
                                      ELSE Raw(b.rows[t])]
             S(u) == {v \in TaskId : raw[v] # NoTask /\ u \in raw[v].deps}
  <1>1. c.rows = b.rows /\ c.counter = n /\ c.mem = RebuildBlocks(raw)
    BY DEF LoadFromDB
  <1>2. Numbered(c)
    BY <1>1 DEF Numbered, IsHighestId
  <1>3. ASSUME NEW u \in TaskId, b.rows[u] # NoTask
        PROVE  /\ raw[u] = Raw(b.rows[u]) /\ raw[u] \in Entry /\ raw[u] # NoTask
               /\ raw[u].deps = b.rows[u].deps
    <2>1. b.rows[u] \in Row
      BY <1>3, BoardMaps DEF Good
    <2>2. raw[u] = Raw(b.rows[u]) /\ raw[u] \in Entry /\ raw[u] # NoTask
      BY <1>3, <2>1, ConversionTypes, NoTaskIsNone
    <2>3. Raw(b.rows[u]).deps = b.rows[u].deps
      BY DEF Raw, Normalized
    <2> QED BY <2>2, <2>3
  <1>4. \A u \in TaskId : raw[u] # NoTask => b.rows[u] # NoTask
    OBVIOUS
  <1> HIDE DEF raw
  <1>5. ASSUME NEW u \in TaskId, b.rows[u] # NoTask
        PROVE  c.mem[u] # NoTask /\ c.mem[u].blocks = S(u)
    <2> DEFINE o == [raw[u] EXCEPT !.blocks = S(u)]
    <2>1. c.mem[u] = o
      BY <1>1, <1>3, <1>5 DEF RebuildBlocks
    <2>2. S(u) \in SUBSET TaskId /\ raw[u] \in Entry
      BY <1>3, <1>5
    <2> HIDE DEF S, c
    <2>3. o \in Entry /\ o.blocks = S(u)
      BY <2>2, BlocksType DEF Entry
    <2> QED BY <2>1, <2>3, NoTaskIsNone
  <1>6. ASSUME Linked(b) PROVE Linked(c)
    <2>1. ASSUME NEW u \in TaskId, b.rows[u] # NoTask, NEW v \in S(u)
          PROVE  v \in b.rows[u].blocks
      <3>1. b.rows[v] # NoTask /\ u \in b.rows[v].deps /\ v \in TaskId
        BY <1>3, <1>4, <2>1
      <3> QED BY <1>6, <2>1, <3>1 DEF Linked, LinkedBut, LinksStored
    <2>2. ASSUME NEW u \in TaskId PROVE LinksStored(c, u)
      <3> HIDE DEF c, S
      <3> QED BY <1>1, <1>5, <2>1 DEF LinksStored, Loaded
    <2>3. ASSUME NEW x \in TaskId, NEW u \in TaskId,
                 b.rows[u] # NoTask, x \in b.rows[u].deps
          PROVE  b.rows[x] # NoTask /\ u \in c.mem[x].blocks
      <3>1. b.rows[x] # NoTask
        BY <1>6, <2>3 DEF Linked, LinkedBut
      <3>2. u \in S(x)
        BY <1>3, <2>3
      <3> HIDE DEF c, S
      <3> QED BY <1>5, <3>1, <3>2
    <2> HIDE DEF c
    <2> QED BY <1>1, <2>2, <2>3 DEF Linked, LinkedBut
  <1> QED BY <1>1, <1>2, <1>6
=============================================================================
