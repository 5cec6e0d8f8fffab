---------------------------- MODULE WorkerReporting ----------------------------
(***************************************************************************)
(* One worker name of the pool: its child processes, one after the other,   *)
(* the pipe and the queue their messages come through, the entry of         *)
(* core/WorkerProcessRunner.ts, and the AgentHandle that                    *)
(* agents/pool/WorkerEventHandlerBinder.ts moves on the runner's events.    *)
(*                                                                         *)
(* The parent is one thread with Node's event loop: events of processes in  *)
(* the poll phase, then the immediates, then the timers that are due. A     *)
(* drain is split into its messages, with nothing of the parent between     *)
(* them (turn); processes speak and die at any time.                        *)
(***************************************************************************)
EXTENDS IpcQueue

CONSTANTS
  MaxProcs,         \* bound: processes started under the name
  MaxChatter,       \* bound: heartbeats sent
  AutoRetry         \* config.autoRetryRecoveries

ASSUME WorkerAssumption ==
  MaxProcs \in Nat \ {0} /\ MaxChatter \in Nat /\ AutoRetry \in BOOLEAN

VARIABLES
  procs,    \* the processes, by the order of their start
  child,    \* the last of them: the one whose events are listened to
  pipe,     \* its messages that the parent has not read
  chatter,  \* heartbeats sent so far
  entry,    \* the WorkerHandle in the map of the runner
  timers,   \* the timers of 5 s, in the order in which they expire
  queue,    \* the queue of IPCDrainQueue
  sched,    \* the drain of setImmediate: this round of the loop, the next
  agent,    \* the AgentHandle
  call,     \* the call of dispatchAgent or respawnAgent in progress
  turn      \* the callback of the parent that is running

vars == <<procs, child, pipe, chatter, entry, timers, queue, sched, agent,
          call, turn>>

Proc == 1..MaxProcs

\* told: the strongest signal sent. seen: the exit event was delivered.
Process == [life : {"unborn", "up", "dead"}, told : {"none", "term", "kill"},
            said : {"nothing", "started", "ended"},
            code : {"none", "zero", "crash", "sigterm"}, seen : BOOLEAN]
Unborn == [life |-> "unborn", told |-> "none", said |-> "nothing",
           code |-> "none", seen |-> FALSE]

\* ended: endTime is set.
EntryStates == {"none", "starting", "running", "completed", "failed",
                "timeout", "crashed", "terminated"}
Entry == [status : EntryStates, ended : BOOLEAN]
NoEntry == [status |-> "none", ended |-> FALSE]

\* exit: exitReason; recovering stands for crashed and timeout. barrier:
\* completionReceived, as the process it came from. attached: workerHandle is
\* set.
Agent == [status : {"none", "starting", "running", "stopped"},
          exit : {"none", "completed", "failed", "recovering", "terminated"},
          barrier : 0..MaxProcs, attached : BOOLEAN]
NewAgent == [status |-> "starting", exit |-> "none", barrier |-> 0,
             attached |-> FALSE]

\* mode: failureMode of respawnAgent.
Call == [at : {"none", "await_exit", "loading", "preparing", "waiting",
               "resolved", "rejected"},
         mode : {"fail", "recover"}]
NoCall == [at |-> "none", mode |-> "fail"]

Turn == [doing : {"nothing", "drain", "exit"}, left : 0..BatchSize]
NoTurn == [doing |-> "nothing", left |-> 0]

Msg == [kind : Kinds, from : Proc]
Timers == {"kill", "gc"}

\* The types, and the bound that the back-pressure keeps.
TypeOK ==
  /\ procs \in [Proc -> Process] /\ child \in 0..MaxProcs
  /\ pipe \in Seq(Msg) /\ chatter \in 0..MaxChatter
  /\ entry \in Entry /\ timers \in Seq(Timers)
  /\ queue \in [Tiers -> Seq(Msg)] /\ Bounded(queue)
  /\ sched \in {"none", "soon", "later"}
  /\ agent \in Agent /\ call \in Call /\ turn \in Turn

-----------------------------------------------------------------------------
(* What a handler changes: a world to a world *)

Now == [procs |-> procs, entry |-> entry, timers |-> timers, agent |-> agent,
        call |-> call]

Becomes(w) ==
  /\ procs' = w.procs /\ entry' = w.entry /\ timers' = w.timers
  /\ agent' = w.agent /\ call' = w.call

EntryActive(e) == e.status \in {"starting", "running"}
EntryTerminal(e) ==
  e.status \in {"completed", "failed", "timeout", "crashed", "terminated"}
AgentActive(a) == a.status \in {"starting", "running"}

\* clearTimeout: the timer x, of which s holds one at most, is gone.
Without(s, x) ==
  LET at == {i \in 1..Len(s) : s[i] = x}
  IN  IF at = {} THEN s
      ELSE LET i == CHOOSE i \in at : TRUE
           IN  SubSeq(s, 1, i - 1) \o SubSeq(s, i + 1, Len(s))

\* A signal to the process of the entry; a dead one does not mind.
Signalled(P, sig) ==
  IF child # 0 /\ P[child].life = "up" /\ P[child].told # "kill"
  THEN [P EXCEPT ![child].told = sig] ELSE P

\* killWorker: SIGTERM, and a timer for SIGKILL in 5 s.
Kill(w) ==
  IF w.entry.status = "none" THEN w
  ELSE [w EXCEPT !.procs = Signalled(@, "term"),
                 !.timers = Append(Without(@, "kill"), "kill")]

\* forceStopAgent, and the release of the heavy resources.
Stop(w, reason) ==
  [w EXCEPT !.agent.status = "stopped", !.agent.exit = reason,
            !.agent.attached = FALSE]

MarkAgentFailed(w) == Stop(Kill(w), "failed")

\* markRecovering: an automatic retry keeps the resources.
MarkAgentRecovering(w) ==
  [w EXCEPT !.agent.status = "stopped", !.agent.exit = "recovering",
            !.agent.attached = @ /\ AutoRetry]

\* The promise of waitForWorkerStart, or of awaitWorkerExit.
Settle(w, from, to) ==
  IF w.call.at = from THEN [w EXCEPT !.call.at = to] ELSE w

\* The listener of worker:started throws when the agent was stopped, and then
\* the one of waitForWorkerStart is not called.
OnStarted(w) ==
  IF AgentActive(w.agent)
  THEN Settle([w EXCEPT !.agent.status = "running"], "waiting", "resolved")
  ELSE w

\* The barrier comes before the payload is parsed.
OnComplete(w, p, parses) ==
  IF ~AgentActive(w.agent) THEN w
  ELSE LET b == [w EXCEPT !.agent.barrier = p]
       IN  IF parses THEN Stop(b, "completed") ELSE MarkAgentFailed(b)

OnFailed(w, recoverable) ==
  IF ~AgentActive(w.agent) THEN w
  ELSE IF recoverable THEN MarkAgentRecovering(w) ELSE MarkAgentFailed(w)

Completed(w) == w.agent.barrier # 0 \/ w.agent.exit = "completed"

\* Mutant of ExitOfAgent: an agent that was stopped is not left alone.
ExitOfStoppedAgent(w) ==
  IF Completed(w) \/ w.entry.status \notin {"crashed", "timeout", "terminated"}
  THEN w ELSE MarkAgentRecovering(w)

ExitOfAgent(w) ==
  IF Completed(w) \/ ~AgentActive(w.agent) \/ ~EntryTerminal(w.entry) THEN w
  ELSE IF w.entry.status \in {"crashed", "timeout", "terminated"}
       THEN MarkAgentRecovering(w)
  ELSE IF w.entry.status = "failed" THEN MarkAgentFailed(w) ELSE w

\* The listeners of worker:exit in their order.
OnExit(w) ==
  Settle(Settle(ExitOfAgent(w), "waiting", "rejected"),
         "await_exit", "loading")

\* Mutant of OnTimeout: the recovery is left to the exit event.
OnTimeoutWaitsForExit(w) == w

\* No test that the agent is still active.
OnTimeout(w) == IF Completed(w) THEN w ELSE MarkAgentRecovering(w)

MarkWorkerTimeout(w) ==
  IF EntryActive(w.entry)
  THEN OnTimeout([w EXCEPT !.entry = [status |-> "timeout", ended |-> TRUE]])
  ELSE w

\* handleWorkerMessage; what a message carries is chosen here (fine).
HandleWorkerMessage(w, m, fine) ==
  IF ~EntryActive(w.entry) THEN w
  ELSE CASE m.kind = "started" ->
              OnStarted([w EXCEPT !.entry.status = "running"])
         [] m.kind = "complete" ->
              OnComplete([w EXCEPT !.entry = [status |-> "completed",
                                              ended |-> TRUE]],
                         m.from, fine)
         [] m.kind = "failed" ->
              OnFailed([w EXCEPT !.entry = [status |-> "failed",
                                            ended |-> TRUE]], fine)
         [] OTHER -> w

-----------------------------------------------------------------------------
(* The processes *)

Speaks == child # 0 /\ procs[child].life = "up" /\ procs[child].told # "kill"

Send(kind) == pipe' = Append(pipe, [kind |-> kind, from |-> child])

SayStarted ==
  /\ Speaks /\ procs[child].said = "nothing"
  /\ procs' = [procs EXCEPT ![child].said = "started"]
  /\ Send("started")
  /\ UNCHANGED <<child, chatter, entry, timers, queue, sched, agent, call,
                 turn>>

\* Heartbeats stand for all that moves neither the entry nor the agent.
Chat ==
  /\ Speaks /\ procs[child].said = "started" /\ chatter < MaxChatter
  /\ chatter' = chatter + 1 /\ Send("beat")
  /\ UNCHANGED <<procs, child, entry, timers, queue, sched, agent, call, turn>>

\* sendMessageAndDrain gives up after a second: the end may not arrive.
SayEnd(kind, arrives) ==
  /\ Speaks /\ procs[child].said = "started"
  /\ procs' = [procs EXCEPT ![child].said = "ended"]
  /\ IF arrives THEN Send(kind) ELSE pipe' = pipe
  /\ UNCHANGED <<child, chatter, entry, timers, queue, sched, agent, call,
                 turn>>

\* zero: the end of main, or the graceful shutdown on a SIGTERM. sigterm: a
\* SIGTERM before the handlers were installed. crash: the rest, SIGKILL too.
Die(p, code) ==
  /\ procs[p].life = "up"
  /\ procs[p].told = "kill" => code = "crash"
  /\ code = "sigterm" => procs[p].said = "nothing"
  /\ procs' = [procs EXCEPT ![p].life = "dead", ![p].code = code]
  /\ UNCHANGED <<child, pipe, chatter, entry, timers, queue, sched, agent,
                 call, turn>>

-----------------------------------------------------------------------------
(* The event loop of the parent *)

\* Promises that are settled go first.
Idle == turn = NoTurn /\ call.at \notin {"resolved", "rejected"}

\* The immediates of a poll phase come before the timers, and the poll phase
\* reads what a process wrote before its exit was reported.
TimersRun ==
  /\ Idle /\ sched # "soon"
  /\ child # 0 /\ procs[child].seen => pipe = <<>>

ReceiveMessage ==
  /\ Idle /\ pipe # <<>>
  /\ pipe' = Tail(pipe) /\ queue' = Push(queue, Head(pipe))
  /\ sched' = "soon"
  /\ UNCHANGED <<procs, child, chatter, entry, timers, agent, call, turn>>

DrainBegins ==
  /\ Idle /\ sched # "none"
  /\ turn' = [doing |-> "drain", left |-> BatchSize]
  /\ UNCHANGED <<procs, child, pipe, chatter, entry, timers, queue, sched,
                 agent, call>>

\* One round of the loop of drain or of drainAllSync.
Consume ==
  /\ turn.doing = "exit" \/ (turn.doing = "drain" /\ turn.left > 0)
  /\ Backlog(queue) > 0
  /\ \E fine \in BOOLEAN :
       Becomes(HandleWorkerMessage(Now, Next1(queue), fine))
  /\ queue' = Shifted(queue)
  /\ turn' = IF turn.doing = "drain" THEN [turn EXCEPT !.left = @ - 1]
             ELSE turn
  /\ UNCHANGED <<child, pipe, chatter, sched>>

DrainEnds ==
  /\ turn.doing = "drain" /\ (turn.left = 0 \/ Backlog(queue) = 0)
  /\ turn' = NoTurn
  /\ sched' = IF Backlog(queue) > 0 THEN "later" ELSE "none"
  /\ UNCHANGED <<procs, child, pipe, chatter, entry, timers, queue, agent,
                 call>>

\* Mutant of ExitEvent: the queue is removed with what is in it.
ExitEventForgets ==
  /\ Idle /\ child # 0 /\ procs[child].life = "dead" /\ ~procs[child].seen
  /\ procs' = [procs EXCEPT ![child].seen = TRUE]
  /\ entry' = [entry EXCEPT !.ended = TRUE]
  /\ timers' = Without(timers, "kill")
  /\ turn' = [doing |-> "exit", left |-> 0]
  /\ sched' = "none" /\ queue' = EmptyQueue
  /\ UNCHANGED <<child, pipe, chatter, agent, call>>

\* handleWorkerExit up to drainAllSync. The entry is still there: only the
\* timer that this handler starts removes it.
ExitEvent ==
  /\ Idle /\ child # 0 /\ procs[child].life = "dead" /\ ~procs[child].seen
  /\ procs' = [procs EXCEPT ![child].seen = TRUE]
  /\ entry' = [entry EXCEPT !.ended = TRUE]
  /\ timers' = Without(timers, "kill")
  /\ turn' = [doing |-> "exit", left |-> 0]
  /\ sched' = "none"
  /\ UNCHANGED <<child, pipe, chatter, queue, agent, call>>

\* A status that is still active follows the way the process ended; an exit
\* with code 0 leaves it.
ExitStatus(e, code) ==
  IF ~EntryActive(e) \/ code = "zero" THEN e
  ELSE [e EXCEPT !.status = IF code = "sigterm" THEN "terminated"
                            ELSE "crashed"]

\* handleWorkerExit after drainAllSync.
ExitHandled ==
  /\ turn.doing = "exit" /\ Backlog(queue) = 0
  /\ LET w == OnExit([Now EXCEPT !.entry = ExitStatus(@, procs[child].code)])
     IN  Becomes([w EXCEPT !.timers = Append(@, "gc")])
  /\ turn' = NoTurn
  /\ UNCHANGED <<child, pipe, chatter, queue, sched>>

-----------------------------------------------------------------------------
(* The timers *)

\* The heartbeat monitor finds an exit code: the process ended with 0 and the
\* entry is still running.
ZombieFound ==
  /\ TimersRun /\ entry.status = "running" /\ procs[child].seen
  /\ Becomes(OnExit([Now EXCEPT !.entry = [status |-> "crashed",
                                           ended |-> TRUE]]))
  /\ UNCHANGED <<child, pipe, chatter, queue, sched, turn>>

\* The heartbeat monitor finds a worker that is silent, too old or too large.
Watchdog ==
  /\ TimersRun /\ entry.status = "running" /\ ~procs[child].seen
  /\ Becomes(Kill(MarkWorkerTimeout(Now)))
  /\ UNCHANGED <<child, pipe, chatter, queue, sched, turn>>

SpawnTimeout ==
  /\ TimersRun /\ call.at = "waiting"
  /\ Becomes(Settle(Kill(MarkWorkerTimeout(Now)), "waiting", "rejected"))
  /\ UNCHANGED <<child, pipe, chatter, queue, sched, turn>>

AwaitTimeout ==
  /\ TimersRun /\ call.at = "await_exit"
  /\ call' = [call EXCEPT !.at = "loading"]
  /\ UNCHANGED <<procs, child, pipe, chatter, entry, timers, queue, sched,
                 agent, turn>>

\* The end of killWorker's 5 s: whoever is the process of the name by now.
KillTimer ==
  /\ TimersRun /\ timers # <<>> /\ Head(timers) = "kill"
  /\ timers' = Tail(timers)
  /\ procs' = IF entry.status = "none" \/ entry.ended THEN procs
              ELSE Signalled(procs, "kill")
  /\ UNCHANGED <<child, pipe, chatter, entry, queue, sched, agent, call, turn>>

\* Mutant of CleanupTimer: it may overtake the monitor.
CleanupAtOnce ==
  /\ TimersRun /\ timers # <<>> /\ Head(timers) = "gc"
  /\ timers' = Tail(timers) /\ entry' = NoEntry
  /\ UNCHANGED <<procs, child, pipe, chatter, queue, sched, agent, call, turn>>

\* The cleanup timer. The monitor's interval is 5 s too and began earlier, so
\* it has looked at the entry since the exit.
CleanupTimer ==
  /\ TimersRun /\ timers # <<>> /\ Head(timers) = "gc"
  /\ entry.status # "running"
  /\ timers' = Tail(timers) /\ entry' = NoEntry
  /\ UNCHANGED <<procs, child, pipe, chatter, queue, sched, agent, call, turn>>

-----------------------------------------------------------------------------
(* The pool *)

\* register and dispatchAgent: a new handle, no wait for the old process.
Register ==
  /\ Idle /\ call.at = "none" /\ agent.status \in {"none", "stopped"}
  /\ child < MaxProcs
  /\ agent' = NewAgent
  /\ call' = [at |-> "preparing", mode |-> "fail"]
  /\ UNCHANGED <<procs, child, pipe, chatter, entry, timers, queue, sched,
                 turn>>

\* respawnAgent up to awaitWorkerExit.
RespawnBegins(mode) ==
  /\ Idle /\ call.at = "none" /\ agent.status = "stopped" /\ child < MaxProcs
  /\ mode = "recover" => AutoRetry
  /\ call' = [at |-> IF entry.status = "none" \/ entry.ended THEN "loading"
                     ELSE "await_exit",
              mode |-> mode]
  /\ UNCHANGED <<procs, child, pipe, chatter, entry, timers, queue, sched,
                 agent, turn>>

\* The history is loaded; the handle is reset.
RespawnResets ==
  /\ Idle /\ call.at = "loading"
  /\ agent' = NewAgent /\ call' = [call EXCEPT !.at = "preparing"]
  /\ UNCHANGED <<procs, child, pipe, chatter, entry, timers, queue, sched,
                 turn>>

\* spawnWorker refuses the name: call.at becomes "rejected".
SpawnRefused ==
  /\ Idle /\ call.at = "preparing"
  /\ EntryActive(entry) /\ ~entry.ended
  /\ call' = [call EXCEPT !.at = "rejected"]
  /\ UNCHANGED <<procs, child, pipe, chatter, entry, timers, queue, sched,
                 agent, turn>>

\* removeAllListeners: what the old process said no longer matters.
Forgotten(r) == [Unborn EXCEPT !.life = r.life, !.told = r.told]

\* Mutant of Reaped: an old process that is still there is left alone.
NotReaped(P) == [p \in Proc |-> IF p = child THEN Forgotten(P[p]) ELSE P[p]]

\* The SIGKILL for an old process that is still there.
Reaped(P) ==
  LET K == IF entry.status = "none" THEN P ELSE Signalled(P, "kill")
  IN  [p \in Proc |-> IF p = child THEN Forgotten(K[p]) ELSE K[p]]

\* spawnWorker: the listeners and the timers of the old entry go. The queue
\* stays, and so does a kill timer of a name without an entry.
SpawnWorker ==
  /\ Idle /\ call.at = "preparing"
  /\ entry.ended \/ ~EntryActive(entry)
  /\ child < MaxProcs /\ child' = child + 1 /\ pipe' = <<>>
  /\ procs' = [Reaped(procs) EXCEPT ![child + 1].life = "up"]
  /\ timers' = IF entry.status = "none" THEN timers ELSE <<>>
  /\ entry' = [status |-> "starting", ended |-> FALSE]
  /\ call' = [call EXCEPT !.at = "waiting"]
  /\ UNCHANGED <<chatter, queue, sched, agent, turn>>

\* After waitForWorkerStart: stopped to running is an illegal transition.
SpawnResolved ==
  /\ turn = NoTurn /\ call.at = "resolved"
  /\ agent' = [agent EXCEPT !.attached = TRUE,
                            !.status = IF @ = "stopped" THEN @ ELSE "running"]
  /\ call' = NoCall
  /\ UNCHANGED <<procs, child, pipe, chatter, entry, timers, queue, sched,
                 turn>>

SpawnRejected ==
  /\ turn = NoTurn /\ call.at = "rejected"
  /\ LET w == [Now EXCEPT !.call = NoCall]
     IN  Becomes(IF call.mode = "fail" THEN MarkAgentFailed(w)
                 ELSE Stop(w, "recovering"))
  /\ UNCHANGED <<child, pipe, chatter, queue, sched, turn>>

\* stopAgent and terminateAgent.
StopAgent ==
  /\ Idle /\ agent.status # "none"
  /\ Becomes(Stop(IF agent.attached THEN Kill(Now) ELSE Now, "terminated"))
  /\ UNCHANGED <<child, pipe, chatter, queue, sched, turn>>

\* stopAll: handles first, then every entry of the runner.
StopAll ==
  /\ Idle /\ agent.status # "none"
  /\ Becomes(Kill(IF AgentActive(agent) THEN Stop(Now, "terminated") ELSE Now))
  /\ UNCHANGED <<child, pipe, chatter, queue, sched, turn>>

\* handleWorkerError while the process lives; nothing sets endTime.
ChannelError ==
  /\ Idle /\ EntryActive(entry) /\ procs[child].life = "up"
  /\ Becomes(Settle([Now EXCEPT !.entry.status = "failed"],
                    "waiting", "rejected"))
  /\ UNCHANGED <<child, pipe, chatter, queue, sched, turn>>

-----------------------------------------------------------------------------
Init ==
  /\ procs = [p \in Proc |-> Unborn] /\ child = 0 /\ pipe = <<>>
  /\ chatter = 0 /\ entry = NoEntry /\ timers = <<>>
  /\ queue = EmptyQueue /\ sched = "none"
  /\ agent = [NewAgent EXCEPT !.status = "none"]
  /\ call = NoCall /\ turn = NoTurn

Processes ==
  \/ SayStarted \/ Chat
  \/ \E kind \in {"complete", "failed"}, arrives \in BOOLEAN :
       SayEnd(kind, arrives)
  \/ \E p \in Proc, code \in {"zero", "crash", "sigterm"} : Die(p, code)

EventLoop ==
  ReceiveMessage \/ DrainBegins \/ Consume \/ DrainEnds \/ ExitEvent
    \/ ExitHandled

TimerPhase ==
  ZombieFound \/ Watchdog \/ SpawnTimeout \/ AwaitTimeout \/ KillTimer
    \/ CleanupTimer

Starting ==
  RespawnResets \/ SpawnRefused \/ SpawnWorker \/ SpawnResolved
    \/ SpawnRejected

Commands ==
  \/ Register
  \/ \E mode \in {"fail", "recover"} : RespawnBegins(mode)
  \/ StopAgent \/ StopAll \/ ChannelError

Next == Processes \/ EventLoop \/ TimerPhase \/ Starting \/ Commands

\* The loop of the parent turns, its timers expire, a process that was sent
\* SIGKILL dies. Nothing obliges a worker to speak or to end.
Fairness ==
  /\ WF_vars(EventLoop) /\ WF_vars(Starting)
  /\ WF_vars(ZombieFound \/ Watchdog) /\ WF_vars(SpawnTimeout)
  /\ WF_vars(AwaitTimeout)
  /\ WF_vars(\E p \in Proc : procs[p].told = "kill" /\ Die(p, "crash"))

Spec == Init /\ [][Next]_vars /\ Fairness

-----------------------------------------------------------------------------
(* Properties *)

\* Two processes of one name never work side by side: every process but the
\* last is dead or was sent SIGKILL (spawnWorker reaps what it replaces).
OneWorkerProcess ==
  \A p \in Proc : p < child => procs[p].life = "dead" \/ procs[p].told = "kill"

\* An error of the channel has set the status and no endTime: nobody watches
\* the process, only its exit will be noticed.
ChannelLost == entry.status = "failed" /\ ~entry.ended

\* Else an agent that is not stopped has somebody who will report its end: the
\* call that starts it, an entry in the state that the monitor watches, or the
\* exit being handled.
ActiveIsWatched ==
  AgentActive(agent) =>
    \/ call.at # "none" \/ entry.status = "running"
    \/ ChannelLost \/ turn.doing = "exit"

\* The completion of the process that runs for the agent is queued.
CompletionQueued ==
  /\ AgentActive(agent) /\ call.at \in {"none", "waiting", "resolved"}
  /\ EntryActive(entry)
  /\ \E i \in 1..Len(queue["p0"]) :
       queue["p0"][i] = [kind |-> "complete", from |-> child]

\* A report that an earlier process of the name left in the queue is taken. The
\* handlers know the name only, and believe that the child has spoken.
LeftoverReport ==
  /\ Next1(queue).from # child /\ Next1(queue).kind \in {"complete", "failed"}
  /\ queue' = Shifted(queue)

\* Once the parent has read a completion, the exit event, the monitor and the
\* back-pressure leave it there; only the completion itself, a stop of the pool
\* or the report of an earlier process ends the run, or an error of the channel,
\* whose handler does not drain. A finished worker is never recovered as crashed.
QueuedCompletionWins ==
  [][CompletionQueued =>
       \/ CompletionQueued' \/ ChannelLost' \/ LeftoverReport
       \/ agent'.exit \in {"completed", "terminated"} \/ agent'.barrier = child]_vars

\* A completed agent is not made failed or recovering by what its process
\* still causes: the exit event, the promise of the start, a timer.
CompletedStays ==
  [][agent.exit = "completed" /\ agent.barrier = child =>
       agent'.exit \in {"completed", "terminated"}
         \/ agent'.status = "starting"]_vars

\* A run comes to an end although its process may hang, die without a word or
\* have its last message lost.
RunSettles == AgentActive(agent) ~> (agent.status = "stopped" \/ ChannelLost)

\* What the process of a stopped agent said, and its exit, change nothing: the
\* agent stays stopped until it is started. Two ways remain that the handlers
\* leave open: a time-out, whose handler does not look at the agent, and the
\* call that was starting it.
StopSilencesWorker ==
  [][agent.exit = "terminated" =>
       \/ agent'.exit = "terminated" \/ agent'.status = "starting"
       \/ entry.status # "timeout" /\ entry'.status = "timeout"
       \/ call.at = "rejected"]_vars
=============================================================================
