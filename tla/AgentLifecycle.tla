--------------------------- MODULE AgentLifecycle ---------------------------
(***************************************************************************)
(* The life of one managed agent: the durable record meta.json, the CLI    *)
(* commands that change it (packages/cli/src/agent.ts), the detached       *)
(* runner each accepted run spawns (packages/agent-runtime/src/runner.ts)  *)
(* and the model invocation a runner launches.  The record's operations    *)
(* are those of packages/agent-runtime/src/lifecycle.ts.                   *)
(*                                                                         *)
(* An updateMeta is one step (module MetadataLock says why), and so is a   *)
(* readMeta together with the local decision it feeds; everything between  *)
(* two of them interleaves with every other process.                       *)
(*                                                                         *)
(* Each client issues one command.  A client that reserves a generation    *)
(* spawns the one runner of it, so the client names the prompt, the        *)
(* generation, its owner token and its runner.                             *)
(***************************************************************************)
EXTENDS Naturals, Sequences, FiniteSets

CONSTANTS Clients,      \* CLI processes
          Commands,     \* the commands they may issue
          Chances,      \* what may happen around them
          MaxLaunch,    \* bound: invocations one runner launches
          None

AllCommands == {"run", "steer", "stop", "kill", "delete", "clean"}
AllChances == {"cliCrash",     \* a CLI process is killed between two steps
               "runnerCrash",  \* a runner is killed between two steps
               "launch",       \* cwd, configuration or spawn refuses a launch
               "identity",     \* /proc does not name the spawned child
               "store",        \* the write of recordSpawned fails
               "model",        \* the backend fails in a recoverable way
               "stall",        \* the backend goes silent
               "signal",       \* something else kills the invocation
               "time",         \* the startup windows pass before the start
               "late",         \* a session appears some time after the spawn
               "detach"}       \* agent run --detach

Invocations == Clients \X (1..MaxLaunch)

ASSUME LifecycleAssumption == /\ Commands \subseteq AllCommands
                              /\ Chances \subseteq AllChances
                              /\ MaxLaunch \in Nat \ {0}
                              /\ None \notin Clients \cup Invocations

VARIABLES
  exists,     \* the agent's directory is there
  meta,       \* its durable record
  runner,     \* the runner each client spawned
  child,      \* the latest invocation of each runner
  cli,        \* each client's command
  native,     \* the backend has a session that can be resumed
  accepted,   \* history: prompts accepted, in order
  taken,      \* history: prompts handed to a launch, in order
  cancelled,  \* history: prompts a stop, kill or delete erased
  failed      \* history: prompts still owed when the record became "failed"

vars == <<exists, meta, runner, child, cli, native, accepted, taken, cancelled,
          failed>>
history == <<accepted, taken, cancelled, failed>>

-----------------------------------------------------------------------------
(* The durable record and the states of the processes around it *)

Intents    == {"none", "steer", "stop", "kill"}
Terminal   == {"clearexit", "failed", "stopped", "killed"}
Lifecycles == Terminal \cup {"idle", "running"}

\* The fields of AgentMetadata that decide the lifecycle.  runner_pid is the
\* client whose runner published it; pid stands for the invocation identity.
Meta == [state : Lifecycles, intent : Intents, stop_reason : Intents,
         active_runner : BOOLEAN, delete_pending : BOOLEAN,
         res : {"absent", "reserved", "claimed"},  \* runner_reservation.state
         gen : Clients \cup {None},                \* runner_reservation.gen
         mode : {"new", "continue"},               \* runner_reservation.mode
         resFresh : BOOLEAN,    \* within RUNNER_RESERVATION_GRACE_SECONDS
         startFresh : BOOLEAN,  \* within PID_START_WINDOW_SECONDS
         pid : Invocations \cup {None}, runner_pid : Clients \cup {None},
         pending_prompt : Clients \cup {None}, steer_queue : Seq(Clients),
         native_session_id : BOOLEAN]

IdleMeta == [state |-> "idle", intent |-> "none", stop_reason |-> "none",
             active_runner |-> FALSE, delete_pending |-> FALSE,
             res |-> "absent", gen |-> None, mode |-> "new",
             resFresh |-> FALSE, startFresh |-> FALSE,
             pid |-> None, runner_pid |-> None,
             pending_prompt |-> None, steer_queue |-> <<>>,
             native_session_id |-> FALSE]

RunnerLabels == {"unborn", "claim", "loop", "take", "release", "gate", "spawn",
                 "abort", "record", "unrecord", "reject", "watch", "cool",
                 "plan", "planFail", "wait", "waitStop", "waitSteer",
                 "remember", "final", "drain", "exited", "crashed"}

\* asked, sent and stalled are operatorSignalled, operatorSignalDelivered and
\* livenessTriggered of childResult; after is where waitForRecovery returns to.
Runner == [pc : RunnerLabels, isContinue : BOOLEAN,
           prompt : Clients \cup {None}, after : {"gate", "spawn", "plan"},
           asked : BOOLEAN, sent : BOOLEAN, stalled : BOOLEAN]

\* Before it is spawned; a runner that ends leaves nothing of its own behind.
NoRunner == [pc |-> "unborn", isContinue |-> FALSE, prompt |-> None,
             after |-> "gate", asked |-> FALSE, sent |-> FALSE,
             stalled |-> FALSE]

Child == [n : 0..MaxLaunch, status : {"none", "live", "term", "clean",
                                      "error", "signalled", "reaped"}]

CliLabels == {"idle", "accept", "spawn", "ack", "unclaimed", "report",
              "follow", "interrupt", "cancel", "mark", "signal", "await",
              "settle", "reap", "tombstone", "stopDeleted", "reapDeleted",
              "remove", "done", "crashed"}
Results   == {"none", "ok", "busy", "unready", "already", "failed", "notfound"}

\* snap is what the command remembers of an earlier read: the invocation that
\* stop signals, the session a steer probed, whether delete saw owned work.
Cli == [cmd : AllCommands \cup {"none"}, pc : CliLabels,
        snap : Invocations \cup {None}, probe : BOOLEAN,
        mode : {"new", "continue"},
        recoverBusy : BOOLEAN, ownsWork : BOOLEAN, result : Results]

NoCli == [cmd |-> "none", pc |-> "idle", snap |-> None, probe |-> FALSE,
          mode |-> "new", recoverBusy |-> FALSE, ownsWork |-> FALSE,
          result |-> "none"]

RunnerAlive(r) == /\ r # None
                  /\ runner[r].pc \notin {"unborn", "exited", "crashed"}

InvocationAlive(i) == /\ i # None
                      /\ child[i[1]].n = i[2]
                      /\ child[i[1]].status \in {"live", "term"}

CliAlive(c) == cli[c].pc \notin {"idle", "done", "crashed"}

Invocation(r) == <<r, child[r].n>>
-----------------------------------------------------------------------------
(* lifecycle.ts: predicates of the record, and what its operations return *)

StopLike(m) == {m.intent, m.stop_reason} \cap {"stop", "kill"} # {}

\* Faulty: a reservation counts as owned because it is there.
OwnerAssumedAlive(m) == m.res = "reserved"

ReservationOwnerAlive(m) == m.res = "reserved" /\ CliAlive(m.gen)

\* Faulty: a claimed reservation is nobody's any more.
InFlightReservedOnly(m) ==
  m.active_runner /\ m.res = "reserved" /\ (m.resFresh \/ ReservationOwnerAlive(m))

ReservationInFlight(m) ==
  /\ m.active_runner
  /\ \/ RunnerAlive(m.runner_pid)
     \/ m.res = "reserved" /\ (m.resFresh \/ ReservationOwnerAlive(m))

\* deriveState(m) = "running"
DerivesRunning(m) ==
  /\ m.state = "running"
  /\ InvocationAlive(m.pid) \/ (m.pid = None /\ m.startFresh)

\* Faulty: a record whose runner is gone is dead.
DeadRunner(m) ==
  /\ m.state = "running"
  /\ ~RunnerAlive(m.runner_pid) /\ ~ReservationInFlight(m)
  /\ m.pid # None \/ ~m.startFresh

\* Faulty: a record without a pid is always still starting.
DeadWithPid(m) ==
  /\ m.state = "running"
  /\ ~InvocationAlive(m.pid) /\ ~RunnerAlive(m.runner_pid)
  /\ ~ReservationInFlight(m)
  /\ m.pid # None

\* The guards of reconcileDeadMeta: both startup windows have passed.
DeadMeta(m) ==
  /\ m.state = "running"
  /\ ~InvocationAlive(m.pid) /\ ~RunnerAlive(m.runner_pid)
  /\ ~ReservationInFlight(m)
  /\ \/ m.pid # None
     \/ m.res = "reserved" /\ ~ReservationOwnerAlive(m) /\ ~m.resFresh
     \/ ~m.startFresh

\* setActiveRunner(meta, false)
SetInactive(m) == [m EXCEPT !.active_runner = FALSE, !.res = "absent",
                            !.gen = None, !.mode = "new", !.resFresh = FALSE]

Reserve(m, c, mode) == [m EXCEPT !.active_runner = TRUE, !.res = "reserved",
                                 !.gen = c, !.mode = mode, !.resFresh = TRUE]

BeginInvocation(m, prompt) ==
  [m EXCEPT !.state = "running", !.startFresh = TRUE, !.intent = "none",
            !.stop_reason = "none", !.pid = None, !.pending_prompt = prompt]

FinalizeTerminal(m, state) == [m EXCEPT !.state = state, !.intent = "none"]

QueueSteer(m, prompt) == [m EXCEPT !.steer_queue = Append(@, prompt)]

\* Faulty: the newest steer goes first.
PopNewest(m) ==
  LET last == Len(m.steer_queue)
  IN  BeginInvocation([m EXCEPT !.steer_queue = SubSeq(@, 1, last - 1)],
                      m.steer_queue[last])

PopSteerIntoPending(m) ==
  BeginInvocation([m EXCEPT !.steer_queue = Tail(@)], Head(m.steer_queue))

BeginStopLike(m, intent) ==
  [m EXCEPT !.intent = intent, !.steer_queue = <<>>, !.pending_prompt = None]

\* What an update of the record writes; once the directory is gone it is a
\* no-op (AgentStateMissingError).
Update(m) == meta' = IF exists THEN m ELSE meta

\* The prompts the record still owes the session.
Owed(m) == {m.steer_queue[i] : i \in DOMAIN m.steer_queue}
             \cup ({m.pending_prompt} \ {None})

\* finalizeTerminal(meta, "failed") and setActiveRunner(meta, false): what is
\* still owed stays in the record.
RecordFailure == /\ Update(SetInactive(FinalizeTerminal(meta, "failed")))
                 /\ failed' = failed \cup Owed(meta)

-----------------------------------------------------------------------------
(* The initial state: the record cmdNew wrote *)

Init ==
  /\ exists = TRUE
  /\ meta = IdleMeta
  /\ runner = [r \in Clients |-> NoRunner]
  /\ child = [r \in Clients |-> [n |-> 0, status |-> "none"]]
  /\ cli = [c \in Clients |-> NoCli]
  /\ native = FALSE
  /\ accepted = <<>>
  /\ taken = <<>>
  /\ cancelled = {}
  /\ failed = {}

-----------------------------------------------------------------------------
(* The model invocation *)

Ended == {"clean", "error", "signalled"}

Signalled(kids, i, status) ==
  IF InvocationAlive(i) THEN [kids EXCEPT ![i[1]].status = status] ELSE kids

Kill(r) == child' = Signalled(child, Invocation(r), "signalled")

ChildSession(r) == /\ "late" \in Chances
                   /\ InvocationAlive(Invocation(r))
                   /\ ~native
                   /\ native' = TRUE
                   /\ UNCHANGED <<exists, meta, runner, child, cli, history>>

\* It exits on its own, or of the SIGTERM it was sent.
ChildEnds(r) ==
  /\ InvocationAlive(Invocation(r))
  /\ \E status \in Ended : /\ status = "signalled" => child[r].status = "term"
                          /\ child' = [child EXCEPT ![r].status = status]
  /\ UNCHANGED <<exists, meta, runner, cli, native, history>>

\* The kernel, or an operator's shell, kills it.
ChildKilled(r) == /\ "signal" \in Chances
                  /\ InvocationAlive(Invocation(r))
                  /\ Kill(r)
                  /\ UNCHANGED <<exists, meta, runner, cli, native, history>>

-----------------------------------------------------------------------------
(* The runner: runManagedRunner and the functions it calls *)

RAt(r, label)   == runner[r].pc = label
RGoto(r, label) == runner' = [runner EXCEPT ![r].pc = label]
Crashed  == [NoRunner EXCEPT !.pc = "crashed"]
RExit(r) == runner' = [runner EXCEPT ![r] = [NoRunner EXCEPT !.pc = "exited"]]
ROnly == UNCHANGED <<exists, child, cli, native, history>>

\* claimRunner: the reservation must be this runner's own, by generation,
\* mode and owner token.
ClaimRunner(r) ==
  /\ RAt(r, "claim")
  /\ IF /\ exists /\ ~meta.delete_pending
        /\ meta.res = "reserved" /\ meta.gen = r
        /\ (meta.mode = "continue") = runner[r].isContinue
       THEN /\ RGoto(r, "loop")
            /\ meta' = [meta EXCEPT !.runner_pid = r, !.res = "claimed",
                                   !.active_runner = TRUE, !.state = "running"]
       ELSE RExit(r) /\ UNCHANGED meta
  /\ ROnly

\* buildAgentCommand returns null for a continuation without a session.
Resumable(r) == runner[r].isContinue => meta.native_session_id \/ native

\* The head of the loop of runManagedRunner and of runInvocation: which prompt
\* to launch, and whether a command can be built for it.
NextPrompt(r) ==
  /\ RAt(r, "loop")
  /\ IF ~exists \/ meta.delete_pending \/ ~meta.active_runner
       THEN RExit(r)
       ELSE IF meta.pending_prompt = None THEN RGoto(r, "drain")
       ELSE \E label \in {"take", "abort"} :
              /\ CASE label = "take"  -> Resumable(r)
                   [] label = "abort" -> ~Resumable(r) \/ "launch" \in Chances
              /\ runner' = [runner EXCEPT ![r].pc = label,
                                         ![r].prompt = meta.pending_prompt]
  /\ UNCHANGED meta /\ ROnly

\* Faulty: the prompt stays in the record.
ClaimKeepsPending(r) ==
  /\ RAt(r, "take")
  /\ IF /\ exists /\ ~meta.delete_pending /\ ~StopLike(meta)
        /\ meta.pending_prompt = runner[r].prompt
       THEN /\ taken' = Append(taken, runner[r].prompt)
            /\ runner' = [runner EXCEPT ![r].pc = "gate", ![r].prompt = None]
       ELSE RGoto(r, "release") /\ UNCHANGED taken
  /\ UNCHANGED <<exists, meta, child, cli, native, accepted, cancelled, failed>>

\* Faulty: what was read before is launched, whatever happened since.
ClaimStale(r) ==
  /\ RAt(r, "take")
  /\ Update([meta EXCEPT !.pending_prompt = None])
  /\ taken' = Append(taken, runner[r].prompt)
  /\ runner' = [runner EXCEPT ![r].pc = "gate", ![r].prompt = None]
  /\ UNCHANGED <<exists, child, cli, native, accepted, cancelled, failed>>

\* claimPendingPrompt, its first update
ClaimPendingPrompt(r) ==
  /\ RAt(r, "take")
  /\ IF /\ exists /\ ~meta.delete_pending /\ ~StopLike(meta)
        /\ meta.pending_prompt = runner[r].prompt
       THEN /\ meta' = [meta EXCEPT !.pending_prompt = None]
            /\ taken' = Append(taken, runner[r].prompt)
            /\ runner' = [runner EXCEPT ![r].pc = "gate", ![r].prompt = None]
       ELSE RGoto(r, "release") /\ UNCHANGED <<meta, taken>>
  /\ UNCHANGED <<exists, child, cli, native, accepted, cancelled, failed>>

\* claimPendingPrompt, its second update: nothing was claimed
ReleaseUnclaimed(r) == /\ RAt(r, "release")
                       /\ Update(SetInactive(meta))
                       /\ RExit(r)
                       /\ ROnly

\* The head of the launch loop: a model that failed recently makes it wait.
Gate(r) == /\ RAt(r, "gate")
           /\ \/ RGoto(r, "spawn")
              \/ /\ "model" \in Chances
                 /\ runner' = [runner EXCEPT ![r].pc = "wait",
                                            ![r].after = "spawn"]
           /\ UNCHANGED meta /\ ROnly

\* The directory is gone, authorizeLaunch refuses, or spawn throws.
LaunchRefused(r) == /\ "launch" \in Chances
                    /\ RAt(r, "spawn")
                    /\ RGoto(r, "abort")
                    /\ UNCHANGED meta /\ ROnly

\* spawn(command, ...): the invocation runs before the record knows of it.
Spawn(r) ==
  /\ RAt(r, "spawn")
  /\ child[r].n < MaxLaunch
  /\ child' = [child EXCEPT ![r] = [n |-> @.n + 1, status |-> "live"]]
  /\ runner' = [runner EXCEPT ![r].pc = "record", ![r].asked = FALSE,
                             ![r].sent = FALSE, ![r].stalled = FALSE]
  /\ native' = (native \/ "late" \notin Chances)
  /\ UNCHANGED <<exists, meta, cli, history>>

\* The launch refusals of runInvocation: finalizeTerminal without a guard.
Abort(r) == /\ RAt(r, "abort")
            /\ RecordFailure
            /\ RExit(r)
            /\ UNCHANGED <<exists, child, cli, native, accepted, taken, cancelled>>

\* Faulty: only a stop refuses the spawned invocation.
RecordDespiteTombstone(r) ==
  /\ RAt(r, "record")
  /\ IF ~exists \/ StopLike(meta)
       THEN RGoto(r, "reject") /\ UNCHANGED meta
       ELSE /\ RGoto(r, "watch")
            /\ meta' = [meta EXCEPT !.pid = Invocation(r), !.runner_pid = r,
                                   !.state = "running", !.startFresh = TRUE,
                                   !.active_runner = TRUE]
  /\ ROnly

RecordSpawned(r) ==
  /\ RAt(r, "record")
  /\ IF ~exists \/ meta.delete_pending \/ StopLike(meta)
       THEN RGoto(r, "reject") /\ UNCHANGED meta
       ELSE /\ RGoto(r, "watch")
            /\ meta' = [meta EXCEPT !.pid = Invocation(r), !.runner_pid = r,
                                   !.state = "running", !.startFresh = TRUE,
                                   !.active_runner = TRUE]
  /\ ROnly

\* recordSpawned returned false: a control path owns the record.
RejectSpawn(r) == /\ RAt(r, "reject")
                  /\ Kill(r)
                  /\ RExit(r)
                  /\ UNCHANGED <<exists, meta, cli, native, history>>

\* Faulty: the invocation that could not be recorded is left alone.
RecordThrowsAway(r) == /\ RAt(r, "record")
                       /\ "store" \in Chances
                       /\ RGoto(r, "unrecord")
                       /\ UNCHANGED <<exists, meta, child, cli, native, history>>

\* recordSpawned threw.
RecordThrows(r) == /\ RAt(r, "record")
                   /\ "store" \in Chances
                   /\ Kill(r)
                   /\ RGoto(r, "unrecord")
                   /\ UNCHANGED <<exists, meta, cli, native, history>>

\* releaseUnrecordedSpawn, which may throw in its turn; the runner dies of it.
ReleaseUnrecordedSpawn(r) ==
  /\ RAt(r, "unrecord")
  /\ RExit(r)
  /\ \/ UNCHANGED <<meta, failed>>
     \/ StopLike(meta) /\ Update(SetInactive(meta)) /\ UNCHANGED failed
     \/ /\ ~StopLike(meta) /\ meta.state = "running" /\ meta.pid = None
        /\ RecordFailure
  /\ UNCHANGED <<exists, child, cli, native, accepted, taken, cancelled>>

\* The identity of the child cannot be read: it has ended, or is killed.
Unidentified(r) ==
  /\ RAt(r, "record")
  /\ "identity" \in Chances
  /\ IF InvocationAlive(Invocation(r))
       THEN Kill(r) /\ RGoto(r, "abort")
       ELSE UNCHANGED child /\ RGoto(r, "watch")
  /\ UNCHANGED <<exists, meta, cli, native, history>>

-----------------------------------------------------------------------------
(* childResult: the poll while the invocation runs *)

\* The timer of childResult runs from the spawn until the child closes.
Polls(r) == /\ exists
            /\ runner[r].pc \in {"record", "watch"}
            /\ InvocationAlive(Invocation(r))

\* It signals the invocation the record names, and only that one.
SignalFromPoll(r, status) ==
  /\ runner' = [runner EXCEPT ![r].asked = TRUE,
                             ![r].sent = @ \/ InvocationAlive(meta.pid)]
  /\ child' = Signalled(child, meta.pid, status)
  /\ UNCHANGED <<exists, meta, cli, native, history>>

PollKill(r) == Polls(r) /\ meta.intent = "kill" /\ SignalFromPoll(r, "signalled")

PollControl(r) == /\ Polls(r)
                  /\ meta.intent \in {"stop", "steer"}
                  /\ SignalFromPoll(r, "term")

\* Faulty: only a stop is escalated.
EscalateStop(r) == /\ Polls(r)
                   /\ meta.intent = "stop"
                   /\ runner[r].asked
                   /\ SignalFromPoll(r, "signalled")

\* CONTROL_GRACE_MS after the first signal.
PollEscalate(r) == /\ Polls(r)
                   /\ meta.intent \in {"stop", "steer"}
                   /\ runner[r].asked
                   /\ SignalFromPoll(r, "signalled")

\* A retry must leave room in the bound for prompts that are still to come.
RoomToRetry(r) ==
  child[r].n + Cardinality(Clients) - Len(taken) < MaxLaunch

\* stallCandidate: silent, resumable and still the recorded invocation.
PollStalled(r) ==
  /\ "stall" \in Chances
  /\ Polls(r) /\ RAt(r, "watch") /\ RoomToRetry(r)
  /\ meta.intent = "none" /\ meta.state = "running"
  /\ meta.pid = Invocation(r) /\ meta.native_session_id
  /\ ~runner[r].stalled
  /\ runner' = [runner EXCEPT ![r].stalled = TRUE]
  /\ child' = Signalled(child, meta.pid, "term")
  /\ UNCHANGED <<exists, meta, cli, native, history>>

PollStallKill(r) == /\ Polls(r)
                    /\ runner[r].stalled /\ meta.intent = "none"
                    /\ child' = Signalled(child, meta.pid, "signalled")
                    /\ UNCHANGED <<exists, meta, runner, cli, native, history>>

\* checkpointSession: the session shows in the log before any tool runs.
CheckpointSession(r) ==
  /\ Polls(r) /\ RAt(r, "watch")
  /\ ~runner[r].isContinue /\ native
  /\ meta.state = "running" /\ ~meta.delete_pending
  /\ ~meta.native_session_id
  /\ meta' = [meta EXCEPT !.native_session_id = TRUE]
  /\ UNCHANGED runner /\ ROnly

-----------------------------------------------------------------------------
(* After the invocation: recovery, the terminal record, the next prompt *)

\* The child closed.  A stall that no operator asked for, or a failure the
\* backend may recover from, is retried as a reconciliation turn.
Reap(r) ==
  /\ RAt(r, "watch")
  /\ child[r].status \in Ended
  /\ LET stalled == runner[r].stalled /\ ~runner[r].asked
                      /\ child[r].status # "clean"
         recoverable == /\ child[r].status = "error" /\ ~runner[r].asked
                        /\ "model" \in Chances /\ RoomToRetry(r)
     IN  \/ (stalled \/ recoverable) /\ RGoto(r, "cool")
         \/ ~stalled /\ RGoto(r, "remember")
  /\ UNCHANGED meta /\ ROnly

\* rememberFreshSession
RememberFreshSession(r) ==
  /\ runner[r].pc \in {"cool", "remember"}
  /\ RGoto(r, IF RAt(r, "cool") THEN "plan" ELSE "final")
  /\ Update([meta EXCEPT !.native_session_id =
                @ \/ (~runner[r].isContinue /\ native)])
  /\ ROnly

\* The failover loop of runInvocation: give up, wait for a model, or wait out
\* the retry delay, in the recorded session if there is one.
PlanRecovery(r) ==
  /\ RAt(r, "plan")
  /\ IF ~exists \/ meta.state # "running" THEN RExit(r)
     ELSE \/ "launch" \in Chances /\ RGoto(r, "planFail")
          \/ RGoto(r, "remember")
          \/ runner' = [runner EXCEPT ![r].pc = "wait", ![r].after = "plan"]
          \/ runner' = [runner EXCEPT
               ![r].pc = "wait", ![r].after = "gate",
               ![r].isContinue = /\ @ \/ meta.native_session_id
                                 /\ meta.native_session_id \/ native]
  /\ UNCHANGED meta /\ ROnly

PlanFails(r) ==
  /\ RAt(r, "planFail")
  /\ IF meta.state = "running" THEN RecordFailure ELSE UNCHANGED <<meta, failed>>
  /\ RExit(r)
  /\ UNCHANGED <<exists, child, cli, native, accepted, taken, cancelled>>

\* waitForRecovery, each look at the record
WaitForRecovery(r) ==
  /\ RAt(r, "wait")
  /\ IF ~exists \/ meta.state # "running" THEN RExit(r)
     ELSE runner' = [runner EXCEPT ![r].after = "gate",
            ![r].pc = CASE meta.intent \in {"stop", "kill"} -> "waitStop"
                        [] meta.intent = "steer" -> "waitSteer"
                        [] OTHER -> runner[r].after]
  /\ UNCHANGED meta /\ ROnly

Outcome(intent) == IF intent = "kill" THEN "killed" ELSE "stopped"

WaitStopped(r) ==
  /\ RAt(r, "waitStop")
  /\ Update(IF meta.state = "running" /\ meta.intent \in {"stop", "kill"}
               THEN [SetInactive(FinalizeTerminal(meta, Outcome(meta.intent)))
                       EXCEPT !.stop_reason = meta.intent]
               ELSE meta)
  /\ RExit(r)
  /\ ROnly

WaitSteered(r) ==
  /\ RAt(r, "waitSteer")
  /\ Update(IF meta.state = "running" /\ meta.intent = "steer"
               THEN [meta EXCEPT !.intent = "none", !.stop_reason = "steer"]
               ELSE meta)
  /\ runner' = [runner EXCEPT ![r].pc = "drain", ![r].isContinue = TRUE]
  /\ ROnly

FinalizeInvocation(r) ==
  /\ RAt(r, "final")
  /\ LET status == child[r].status
         state == IF meta.intent \in {"stop", "kill"} THEN Outcome(meta.intent)
                  ELSE IF status = "clean" THEN "clearexit"
                  ELSE IF status = "signalled" /\ runner[r].sent THEN "stopped"
                  ELSE "failed"
     IN  Update(IF meta.state = "running"
                  THEN [FinalizeTerminal(meta, state)
                          EXCEPT !.stop_reason = meta.intent]
                  ELSE meta)
  /\ runner' = [runner EXCEPT ![r] = [NoRunner EXCEPT !.pc = "drain",
                                                   !.isContinue = TRUE]]
  /\ child' = [child EXCEPT ![r].status = "reaped"]
  /\ UNCHANGED <<exists, cli, native, history>>

\* Faulty: a drain that looks at the pending prompt only.
ReclaimPending(r) ==
  /\ RAt(r, "drain")
  /\ IF exists /\ ~StopLike(meta) /\ meta.pending_prompt # None
       THEN Update([meta EXCEPT !.active_runner = TRUE]) /\ RGoto(r, "loop")
       ELSE Update(SetInactive(meta)) /\ RExit(r)
  /\ ROnly

\* reclaimOrStop
ReclaimOrStop(r) ==
  /\ RAt(r, "drain")
  /\ IF ~exists \/ StopLike(meta)
       THEN Update(SetInactive(meta)) /\ RExit(r)
     ELSE IF meta.pending_prompt # None
       THEN Update([meta EXCEPT !.active_runner = TRUE]) /\ RGoto(r, "loop")
     ELSE IF meta.steer_queue # <<>>
       THEN /\ Update([PopSteerIntoPending(meta) EXCEPT !.active_runner = TRUE])
            /\ RGoto(r, "loop")
       ELSE Update(SetInactive(meta)) /\ RExit(r)
  /\ ROnly

RunnerCrash(r) == /\ "runnerCrash" \in Chances
                  /\ RunnerAlive(r)
                  /\ runner' = [runner EXCEPT ![r] = Crashed]
                  /\ UNCHANGED meta /\ ROnly
-----------------------------------------------------------------------------
(* The CLI: agent run, with and without --steer *)

CAt(c, label)   == cli[c].pc = label
CGoto(c, label) == cli' = [cli EXCEPT ![c].pc = label]
Done(cmd, result) == [NoCli EXCEPT !.cmd = cmd, !.pc = "done", !.result = result]
Finish(c, result) ==
  cli' = [cli EXCEPT ![c] = Done(cli[c].cmd, result)]
COnly == UNCHANGED <<exists, runner, child, native, history>>

Steers(c) == cli[c].cmd = "steer"

\* The first read of cmdRun: an early refusal, and the session of a live front.
RunReads(c) ==
  /\ CAt(c, "idle")
  /\ \E cmd \in Commands \cap {"run", "steer"} :
       cli' = IF ~exists
                THEN [cli EXCEPT ![c] = Done(cmd, "notfound")]
              ELSE IF /\ cmd = "run" /\ DerivesRunning(meta)
                      /\ InvocationAlive(meta.pid) \/ ReservationInFlight(meta)
                THEN [cli EXCEPT ![c] = Done(cmd, "busy")]
              ELSE [cli EXCEPT ![c].cmd = cmd, ![c].pc = "accept",
                      ![c].probe = /\ cmd = "steer" /\ InvocationAlive(meta.pid)
                                   /\ meta.native_session_id \/ native]
  /\ UNCHANGED meta /\ COnly

Accepting(c) == /\ CAt(c, "accept")
                /\ exists /\ ~meta.delete_pending

Accepts(c) == /\ accepted' = Append(accepted, c)
              /\ UNCHANGED <<exists, runner, child, native, taken, cancelled,
                             failed>>

\* The record belongs to somebody, or is going, or is gone: nothing is written.
RunRefused(c) ==
  /\ CAt(c, "accept")
  /\ \/ /\ ~exists \/ meta.delete_pending
        /\ Finish(c, "busy")
     \/ /\ Accepting(c) /\ InvocationAlive(meta.pid)
        /\ \/ ~Steers(c) /\ Finish(c, "busy")
           \/ /\ Steers(c) /\ ~meta.native_session_id /\ ~cli[c].probe
              /\ Finish(c, "unready")
     \/ /\ Accepting(c) /\ ~InvocationAlive(meta.pid)
        /\ ReservationInFlight(meta)
        /\ ~Steers(c) /\ meta.pending_prompt # None
        /\ Finish(c, "busy")
  /\ UNCHANGED meta /\ COnly

\* A live invocation with a session: the steer is queued and interrupts it.
RunPreempts(c) ==
  /\ Accepting(c) /\ Steers(c) /\ InvocationAlive(meta.pid)
  /\ meta.native_session_id \/ cli[c].probe
  /\ meta' = [QueueSteer(meta, c) EXCEPT !.intent = "steer",
                                        !.native_session_id = TRUE]
  /\ CGoto(c, "interrupt")
  /\ Accepts(c)

\* Faulty: a plain run replaces the prompt that is waiting.
ReuseOverwrites(c) ==
  /\ Accepting(c) /\ ~InvocationAlive(meta.pid) /\ ReservationInFlight(meta)
  /\ meta' = IF Steers(c) THEN QueueSteer(meta, c)
             ELSE [meta EXCEPT !.pending_prompt = c, !.state = "running"]
  /\ Finish(c, "ok")
  /\ Accepts(c)

\* A runner is there, or is coming, and takes the prompt along.
RunReuses(c) ==
  /\ Accepting(c) /\ ~InvocationAlive(meta.pid) /\ ReservationInFlight(meta)
  /\ \/ Steers(c) /\ meta' = QueueSteer(meta, c)
     \/ /\ ~Steers(c) /\ meta.pending_prompt = None
        /\ meta' = [meta EXCEPT !.pending_prompt = c, !.state = "running"]
  /\ Finish(c, "ok")
  /\ Accepts(c)

\* An abandoned reservation still holds an accepted prompt: a new generation
\* delivers that one first, and a plain run is turned away.
RunRecovers(c) ==
  /\ Accepting(c) /\ ~InvocationAlive(meta.pid) /\ ~ReservationInFlight(meta)
  /\ meta.active_runner /\ meta.res # "absent" /\ meta.pending_prompt # None
  /\ meta' = Reserve(IF Steers(c) THEN QueueSteer(meta, c) ELSE meta,
                    c, meta.mode)
  /\ cli' = [cli EXCEPT ![c].pc = "spawn", ![c].mode = meta.mode,
                       ![c].recoverBusy = ~Steers(c)]
  /\ IF Steers(c) THEN Accepts(c) ELSE UNCHANGED <<exists, runner, child,
                                                   native, history>>

\* Nobody owns work: a fresh invocation, in the session there is.
RunBegins(c) ==
  /\ Accepting(c) /\ ~InvocationAlive(meta.pid) /\ ~ReservationInFlight(meta)
  /\ ~(meta.active_runner /\ meta.res # "absent" /\ meta.pending_prompt # None)
  /\ LET fresh   == meta.state = "idle"
         session == meta.native_session_id \/ (~fresh /\ native)
         mode    == IF session THEN "continue" ELSE "new"
     IN  /\ meta' = [Reserve(BeginInvocation(SetInactive(meta), c), c, mode)
                       EXCEPT !.native_session_id = session]
         /\ cli' = [cli EXCEPT ![c].pc = "spawn", ![c].mode = mode]
  /\ Accepts(c)

\* spawnRunner, then either the detached acknowledgement or followAttached.
SpawnRunner(c) ==
  /\ CAt(c, "spawn")
  /\ runner' = [runner EXCEPT ![c].pc = "claim",
                             ![c].isContinue = cli[c].mode = "continue"]
  /\ \/ "detach" \in Chances /\ CGoto(c, "ack")
     \/ ~cli[c].recoverBusy /\ CGoto(c, "follow")
     \/ cli[c].recoverBusy /\ Finish(c, "busy")
  /\ UNCHANGED <<exists, meta, child, native, history>>

\* The pid that is reported is not part of the model.
Acknowledge(c) == Finish(c, IF cli[c].recoverBusy THEN "busy" ELSE "ok")

\* awaitRunnerClaim, each look at the record; the deadline may pass.
AwaitClaim(c) ==
  /\ CAt(c, "ack")
  /\ LET own     == exists /\ meta.runner_pid = c
         claimed == /\ exists /\ meta.state = "running" /\ meta.res = "claimed"
                    /\ meta.gen = c /\ meta.runner_pid # None
     IN  \/ (own \/ claimed) /\ Acknowledge(c)
         \/ ~own /\ ~claimed /\ CGoto(c, "unclaimed")
  /\ UNCHANGED meta /\ COnly

FailUnclaimedRunner(c) ==
  /\ CAt(c, "unclaimed")
  /\ IF /\ exists /\ meta.state = "running" /\ ~StopLike(meta)
        /\ meta.res = "reserved" /\ meta.gen = c /\ meta.runner_pid = None
       THEN RecordFailure /\ Finish(c, "failed")
       ELSE CGoto(c, "report") /\ UNCHANGED <<meta, failed>>
  /\ UNCHANGED <<exists, runner, child, native, accepted, taken, cancelled>>

\* The fail-write lost a race: report what the record says.
ReportRunner(c) ==
  /\ CAt(c, "report")
  /\ IF /\ exists /\ meta.runner_pid # None
        /\ meta.runner_pid = c \/ meta.state = "running"
       THEN Acknowledge(c)
       ELSE Finish(c, "failed")
  /\ UNCHANGED meta /\ COnly

Follow(c) == /\ CAt(c, "follow")
             /\ ~exists \/ (meta.state \in Terminal /\ ~meta.active_runner)
             /\ Finish(c, "ok")
             /\ UNCHANGED meta /\ COnly

\* The steer's own SIGTERM, to whatever invocation the record names by now.
Interrupt(c) ==
  /\ CAt(c, "interrupt")
  /\ child' = IF exists THEN Signalled(child, meta.pid, "term") ELSE child
  /\ Finish(c, "ok")
  /\ UNCHANGED <<exists, meta, runner, native, history>>
-----------------------------------------------------------------------------
(* The CLI: agent stop, agent kill *)

Cancels == cancelled' = cancelled \cup Owed(meta)

\* What stopLike("stop" | "kill") was called for; delete calls it with kill.
StopCommand(c) == IF cli[c].cmd = "stop" THEN "stop" ELSE "kill"

\* The end of stopLike: delete goes on to wait for the runner.
StopReturns(c, result) ==
  IF cli[c].cmd = "delete" /\ result # "notfound"
    THEN CGoto(c, "reapDeleted") ELSE Finish(c, result)

\* The first read of stopLike decides between the two ways to stop.
StopLooks(c, entry) ==
  cli' = IF ~exists THEN [entry EXCEPT ![c] = Done(entry[c].cmd, "notfound")]
         ELSE IF InvocationAlive(meta.pid) THEN [entry EXCEPT ![c].pc = "mark"]
         ELSE IF \/ meta.active_runner \/ meta.pending_prompt # None
                 \/ ReservationInFlight(meta) THEN [entry EXCEPT ![c].pc = "cancel"]
         ELSE IF entry[c].cmd = "delete"
                THEN [entry EXCEPT ![c].pc = "reapDeleted"]
         ELSE [entry EXCEPT ![c] = Done(entry[c].cmd, "already")]

StopReads(c) ==
  /\ \/ /\ CAt(c, "idle")
        /\ \E cmd \in Commands \cap {"stop", "kill"} :
             StopLooks(c, [cli EXCEPT ![c].cmd = cmd])
     \/ CAt(c, "stopDeleted") /\ StopLooks(c, cli)
  /\ UNCHANGED meta /\ COnly

\* Work is owned but nothing is live: the record ends in one update.
CancelReserved(c) ==
  /\ CAt(c, "cancel")
  /\ Update([SetInactive(FinalizeTerminal(BeginStopLike(meta, StopCommand(c)),
                                         Outcome(StopCommand(c))))
               EXCEPT !.stop_reason = StopCommand(c)])
  /\ StopReturns(c, "ok")
  /\ Cancels
  /\ UNCHANGED <<exists, runner, child, native, accepted, taken, failed>>

MarkStop(c) ==
  /\ CAt(c, "mark")
  /\ IF exists
       THEN /\ meta' = BeginStopLike(meta, StopCommand(c))
            /\ cli' = [cli EXCEPT ![c].pc = "signal", ![c].snap = meta.pid]
            /\ Cancels
       ELSE Finish(c, "notfound") /\ UNCHANGED <<meta, cancelled>>
  /\ UNCHANGED <<exists, runner, child, native, accepted, taken, failed>>

StopSignals(c) ==
  /\ CAt(c, "signal")
  /\ child' = Signalled(child, cli[c].snap,
                       IF StopCommand(c) = "stop" THEN "term" ELSE "signalled")
  /\ CGoto(c, "await")
  /\ UNCHANGED <<exists, meta, runner, native, history>>

\* waitForInvocationGone sees the invocation it signalled gone.
StopSeesGone(c) == /\ CAt(c, "await")
                   /\ ~InvocationAlive(cli[c].snap)
                   /\ cli' = [cli EXCEPT ![c].pc = "settle", ![c].snap = None]
                   /\ UNCHANGED meta /\ COnly

\* Its first wait ran out.
StopEscalates(c) == /\ CAt(c, "await")
                    /\ InvocationAlive(cli[c].snap)
                    /\ child' = Signalled(child, cli[c].snap, "signalled")
                    /\ UNCHANGED <<exists, meta, runner, cli, native, history>>

SettleStop(c) ==
  /\ CAt(c, "settle")
  /\ Update([SetInactive(FinalizeTerminal(meta, Outcome(StopCommand(c))))
               EXCEPT !.stop_reason = StopCommand(c)])
  /\ CGoto(c, "reap")
  /\ UNCHANGED <<exists, runner, child, native, history>>

RunnerGone == ~exists \/ ~RunnerAlive(meta.runner_pid)

\* reapRunnerBeforeReturn; in delete, its own waitForRunnerGone as well.
SeesRunnerGone(c) ==
  /\ cli[c].pc \in {"reap", "reapDeleted"}
  /\ RunnerGone
  /\ IF CAt(c, "reapDeleted") THEN CGoto(c, "remove") ELSE StopReturns(c, "ok")
  /\ UNCHANGED meta /\ COnly

\* The wait ran out: the recorded runner is signalled, and dies of it.
SignalsRunner(c) ==
  /\ cli[c].pc \in {"reap", "reapDeleted"}
  /\ ~RunnerGone
  /\ runner' = [runner EXCEPT ![meta.runner_pid] = Crashed]
  /\ UNCHANGED <<exists, meta, child, cli, native, history>>

-----------------------------------------------------------------------------
(* The CLI: agent delete --force, agent clean, and the sweep of list *)

DeleteReads(c) ==
  /\ CAt(c, "idle") /\ "delete" \in Commands
  /\ cli' = IF exists
              THEN [cli EXCEPT ![c].cmd = "delete", ![c].pc = "tombstone",
                               ![c].ownsWork = \/ DerivesRunning(meta)
                                               \/ InvocationAlive(meta.pid)
                                               \/ meta.active_runner
                                               \/ meta.pending_prompt # None]
              ELSE [cli EXCEPT ![c] = Done("delete", "notfound")]
  /\ UNCHANGED meta /\ COnly

Tombstone(c) ==
  /\ CAt(c, "tombstone")
  /\ Update([meta EXCEPT !.delete_pending = TRUE])
  /\ IF ~exists THEN Finish(c, "notfound")
     ELSE CGoto(c, IF cli[c].ownsWork THEN "stopDeleted" ELSE "remove")
  /\ COnly

\* The candidate read of cmdClean is repeated under the lock, where it counts.
MarkExpired(c) ==
  /\ CAt(c, "idle") /\ "clean" \in Commands
  /\ exists
  /\ meta.state \in Terminal
  /\ ~InvocationAlive(meta.pid) /\ ~meta.active_runner
  /\ meta.pending_prompt = None /\ ~meta.delete_pending
  /\ meta' = [meta EXCEPT !.delete_pending = TRUE]
  /\ cli' = [cli EXCEPT ![c].cmd = "clean", ![c].pc = "remove"]
  /\ COnly

\* removeAgentDirectory; a record that is gone is the idle one from here on.
Remove(c) ==
  /\ CAt(c, "remove")
  /\ exists' = FALSE
  /\ meta' = IdleMeta
  /\ Cancels
  /\ Finish(c, "ok")
  /\ UNCHANGED <<runner, child, native, accepted, taken, failed>>

\* reconcileMeta, from status, list and wait
Reconcile ==
  /\ exists /\ DeadMeta(meta)
  /\ RecordFailure
  /\ UNCHANGED <<exists, runner, child, cli, native, accepted, taken, cancelled>>

CliCrash(c) == /\ "cliCrash" \in Chances
               /\ CliAlive(c)
               /\ cli' = [cli EXCEPT ![c] = [NoCli EXCEPT !.cmd = cli[c].cmd,
                                                          !.pc = "crashed"]]
               /\ UNCHANGED meta /\ COnly

-----------------------------------------------------------------------------
(* Time: the five seconds of a reservation, the sixty of a start *)

ReservationGraceEnds == /\ "time" \in Chances
                        /\ exists /\ meta.resFresh
                        /\ meta' = [meta EXCEPT !.resFresh = FALSE]
                        /\ UNCHANGED <<exists, runner, child, cli, native, history>>

StartWindowEnds == /\ "time" \in Chances
                   /\ exists /\ meta.startFresh /\ ~meta.resFresh
                   /\ meta' = [meta EXCEPT !.startFresh = FALSE]
                   /\ UNCHANGED <<exists, runner, child, cli, native, history>>

-----------------------------------------------------------------------------

ChildStep(r) == ChildSession(r) \/ ChildEnds(r) \/ ChildKilled(r)

RunnerAct(r) ==
  \/ ClaimRunner(r) \/ NextPrompt(r) \/ ClaimPendingPrompt(r)
  \/ ReleaseUnclaimed(r) \/ Gate(r) \/ LaunchRefused(r) \/ Spawn(r) \/ Abort(r)
  \/ RecordSpawned(r) \/ RejectSpawn(r) \/ RecordThrows(r)
  \/ ReleaseUnrecordedSpawn(r) \/ Unidentified(r) \/ Reap(r)
  \/ RememberFreshSession(r) \/ PlanRecovery(r) \/ PlanFails(r)
  \/ WaitForRecovery(r) \/ WaitStopped(r) \/ WaitSteered(r)
  \/ FinalizeInvocation(r) \/ ReclaimOrStop(r)

Poll(r) == \/ PollKill(r) \/ PollControl(r) \/ PollEscalate(r) \/ PollStalled(r)
           \/ PollStallKill(r) \/ CheckpointSession(r)

RunStep(c) ==
  \/ RunReads(c) \/ RunRefused(c) \/ RunPreempts(c) \/ RunReuses(c)
  \/ RunRecovers(c) \/ RunBegins(c) \/ SpawnRunner(c) \/ AwaitClaim(c)
  \/ FailUnclaimedRunner(c) \/ ReportRunner(c) \/ Follow(c) \/ Interrupt(c)

StopStep(c) ==
  \/ StopReads(c) \/ CancelReserved(c) \/ MarkStop(c) \/ StopSignals(c)
  \/ StopSeesGone(c) \/ StopEscalates(c) \/ SettleStop(c) \/ SeesRunnerGone(c)
  \/ SignalsRunner(c)

RemovalStep(c) == DeleteReads(c) \/ Tombstone(c) \/ MarkExpired(c) \/ Remove(c)

Next ==
  \/ \E c \in Clients : \/ RunStep(c) \/ StopStep(c) \/ RemovalStep(c)
                       \/ RunnerAct(c) \/ Poll(c) \/ ChildStep(c)
                       \/ CliCrash(c) \/ RunnerCrash(c)
  \/ Reconcile \/ ReservationGraceEnds \/ StartWindowEnds

Spec == Init /\ [][Next]_vars

\* The code's own scheduling: event loops and timers run on.  Nothing obliges a
\* client to issue its command, or the process to die of a SIGTERM.
Fairness ==
  /\ \A c \in Clients :
       /\ WF_vars(RunnerAct(c))
       /\ WF_vars(PollKill(c))
       /\ WF_vars(PollControl(c))
       /\ WF_vars(PollEscalate(c))
       /\ WF_vars(PollStallKill(c))
       /\ WF_vars(CliAlive(c) /\ (RunStep(c) \/ StopStep(c) \/ RemovalStep(c)))
  /\ WF_vars(Reconcile)
  /\ WF_vars(ReservationGraceEnds)
  /\ WF_vars(StartWindowEnds)

FairSpec == Spec /\ Fairness

\* The model's turns come to an end, with an answer or without.
EndingSpec == FairSpec /\ \A r \in Clients : WF_vars(ChildEnds(r))
-----------------------------------------------------------------------------
(* Properties *)

TypeOK == /\ exists \in BOOLEAN
          /\ meta \in Meta
          /\ runner \in [Clients -> Runner]
          /\ child \in [Clients -> Child]
          /\ cli \in [Clients -> Cli]
          /\ native \in BOOLEAN
          /\ accepted \in Seq(Clients)
          /\ taken \in Seq(Clients)
          /\ cancelled \in SUBSET Clients
          /\ failed \in SUBSET Clients

Elements(seq) == {seq[i] : i \in DOMAIN seq}
Live == {r \in Clients : InvocationAlive(Invocation(r))}
Working == \E r \in Clients : RunnerAlive(r) \/ CAt(r, "spawn")

\* An accepted prompt is handed to a launch at most once, and no other prompt
\* is: claimPendingPrompt consumes it in the update that checks it, whichever
\* runners, recoveries and crashes there are around it.
TakenAtMostOnce ==
  /\ Elements(taken) \subseteq Elements(accepted)
  /\ \A i, j \in DOMAIN taken : taken[i] = taken[j] => i = j

\* Steers are delivered in the order in which cmdRun accepted them, through
\* the pending prompt and the queue ("every accepted steer is durable work in
\* arrival order", docs/adr-0002-steering-is-hard-preemption.md).
SteersInOrder ==
  \A i, j \in DOMAIN taken :
    i < j /\ Steers(taken[i]) /\ Steers(taken[j]) =>
      \E k, l \in DOMAIN accepted :
        k < l /\ accepted[k] = taken[i] /\ accepted[l] = taken[j]

\* No accepted prompt vanishes: until it is handed to a launch it is in the
\* record, unless a stop, kill or delete erased it or the record it was in
\* became "failed".  Handing over, queueing, recovering a reservation and
\* finalizing never drop one.
NothingLost ==
  Elements(accepted) \subseteq Elements(taken) \cup cancelled \cup failed
                                 \cup Owed(meta)

\* A prompt that a stop, kill or delete erased is not started later by
\* a runner that had read the record before.
CancelledNotTaken ==
  [][\A c \in cancelled : c \in Elements(taken') => c \in Elements(taken)]_vars

\* A session has one model invocation at a time, however steers, retries,
\* abandoned reservations and late runners overlap.
AtMostOneLive == Cardinality(Live) <= 1

\* No invocation runs on unseen: its runner is alive, or the record names it
\* and status, stop and steer can find it.
LiveIsOwned ==
  \A r \in Live : RunnerAlive(r) \/ (exists /\ meta.pid = Invocation(r))

\* An invocation that the record names is not written off while it is alive:
\* reconcileDeadMeta, the refusals and the failed writes of the runner do not
\* overrule recordSpawned (a stop or kill may be ahead of the invocation).
LiveNotWrittenOff ==
  \A r \in Live :
    exists /\ meta.pid = Invocation(r) => meta.state \notin {"clearexit", "failed"}

\* As long as the record owes the session a prompt it has not reported as
\* failed, some runner is at work or about to be spawned, or the reservation of
\* a client that died before its spawn says so, which the next run recovers: no
\* drain, retry or release leaves a prompt behind.
OwedHasWorker ==
  \/ Owed(meta) \subseteq failed
  \/ Working
  \/ meta.active_runner /\ meta.res = "reserved" /\ meta.state = "running"

\* A tombstone is final: once delete or clean has written it, no prompt is
\* accepted or started and no invocation is recorded until the directory goes.
TombstoneFinal ==
  [][meta.delete_pending =>
       /\ accepted' = accepted /\ taken' = taken
       /\ meta'.pid \in {meta.pid, None}
       /\ exists' => meta'.delete_pending]_vars

\* A steer that interrupts an invocation ends it, even one that ignores
\* SIGTERM, as long as its runner is there to insist: the superseded invocation
\* is not "allowed to continue indefinitely while the steer merely waits behind
\* it" (ADR 0002, Supersession).
SteerConverges ==
  \A i \in Invocations :
    (exists /\ meta.intent = "steer" /\ meta.pid = i)
      ~> ~InvocationAlive(i) \/ ~RunnerAlive(i[1])

\* stop, kill and delete come to an end, whatever the invocation does.
StopEnds ==
  \A c \in Clients :
    cli[c].cmd \in {"stop", "kill", "delete"} ~> ~CliAlive(c)

\* Every control converges, whatever the invocation it is about makes of its
\* signals: a steer to the end of what it supersedes, the others to their own.
ControlsConverge == SteerConverges /\ StopEnds

\* A record whose runner and invocation are gone does not stay "running", once
\* the process that reserved it is gone too: reconcileDeadMeta ends it.
OrphanReconciled ==
  (exists /\ meta.state = "running") ~>
    (meta.state # "running" \/ Live # {} \/ ReservationOwnerAlive(meta))

\* Every accepted prompt is eventually handed to a launch, ended by a control
\* or reported as failed, if each invocation comes to an end and no runner is
\* killed.
AcceptedIsSettled ==
  \A c \in Clients :
    c \in Elements(accepted) ~>
      c \in Elements(taken) \cup cancelled \cup failed

-----------------------------------------------------------------------------
(* What the repository's documents say, and the code does not do *)

\* "A stop/kill command is complete only when both the invocation and its
\* detached runner are gone" (packages/cli/src/agent.ts, before
\* reapRunnerBeforeReturn): a record that says stopped or killed, and is not
\* run again, does at least not keep a live invocation.
StopKills ==
  meta.state \in {"stopped", "killed"} ~>
    (Live = {} \/ meta.state \notin {"stopped", "killed"})

\* "An accepted stop or kill cannot be overwritten by a later steer" (ADR 0002,
\* Lifecycle priority).
StopIntentKept ==
  [][meta.intent \in {"stop", "kill"} => meta'.intent # "steer"]_vars
=============================================================================
