-------------------------- MODULE ProcessIdentity --------------------------
(***************************************************************************)
(* Which process a signal reaches (packages/agent-runtime/src/process.ts,  *)
(* the identities lifecycle.ts takes from a record, and the spawns that    *)
(* give a process its markers).  The kernel uses a pid again once the      *)
(* process that had it is reaped, commands keep a record they read some    *)
(* time ago, and a tool of one agent may launch the runner of another,     *)
(* which inherits its environment.  When a record changes, and who signals *)
(* when, is AgentLifecycle; here any caller may signal whatever a record   *)
(* it once read names.                                                     *)
(*                                                                         *)
(* A check and the signal it licenses are one step: a process that ends in *)
(* between makes the signal fail, and a pid is not used again within that  *)
(* time.  Nor is it within the clock tick that its process began in, so no *)
(* two processes that had one pid began in the same tick.  A pid that is   *)
(* the number of a process group in use is not given out.                  *)
(***************************************************************************)
EXTENDS Naturals, FiniteSets

CONSTANTS MaxPid,     \* pid_max: 1..MaxPid are used again and again
          Runs,       \* agents
          Watchers,   \* callers that hold a record
          NoProcess,
          MaxStarts   \* bound: processes started

Pids == 1..MaxPid

\* What the kernel knows of a process, and a runner of its backend.
\* agent and invocation are the markers in its environment, "none" and 0 without;
\* for is what it really works for: the invocation it is part of, and 0 of a
\* runner or a stranger.  child is what a runner remembers of its backend.
\* A zombie has no environment left, but a start time.
Process == [kind : {"runner", "backend", "tool", "stranger"}, start : Nat, zombie : BOOLEAN,
            agent : Runs \cup {"none"}, invocation : Nat, for : Nat, group : Pids,
            child : Pids \cup {NoProcess}, childInvocation : Nat, sweep : BOOLEAN]

ASSUME IdentityAssumption == /\ {MaxPid, MaxStarts} \subseteq Nat /\ Runs # {}
                             /\ NoProcess \notin Pids /\ NoProcess \notin Process

VARIABLES
  process,  \* what the kernel knows of each pid, and NoProcess of a free one
  named,    \* the identities of each agent's record
  snapshot, \* the record each watcher has read
  latestPid, \* the pid given out last
  starts    \* processes started, and the start tick of the last

identityVars == <<process, named, snapshot, latestPid, starts>>

\* The fields of a record an identity is made of; 0 is null.  pgid is pid.
Nobody == [pid |-> NoProcess, start_time |-> 0, invocation_id |-> 0,
           runner_pid |-> NoProcess, runner_start_time |-> 0]

IdentityInit ==
    /\ process = [p \in Pids |-> NoProcess]
    /\ named = [a \in Runs |-> Nobody]
    /\ snapshot = [w \in Watchers |-> [agent |-> CHOOSE a \in Runs : TRUE, record |-> Nobody]]
    /\ latestPid = MaxPid
    /\ starts = 0

-----------------------------------------------------------------------------
(* The kernel *)

Present(p) == process[p] # NoProcess
Living(p)   == Present(p) /\ ~process[p].zombie
Is(p, kind) == Living(p) /\ process[p].kind = kind

IsFree(p) == ~Present(p) /\ \A q \in Pids : Present(q) => process[q].group # p

Started(kind, agent, invocation, for, group) ==
    [kind |-> kind, start |-> starts + 1, zombie |-> FALSE, agent |-> agent,
     invocation |-> invocation, for |-> for, group |-> group,
     child |-> NoProcess, childInvocation |-> 0, sweep |-> FALSE]

\* The next free pid after the last, in a circle.
After(p) == (p + MaxPid - latestPid - 1) % MaxPid
Gives(p) == /\ IsFree(p)
            /\ \A q \in Pids : IsFree(q) => After(p) <= After(q)
            /\ latestPid' = p
            /\ starts < MaxStarts
            /\ starts' = starts + 1

\* A process that ends stays as a zombie while its parent may wait for it,
\* which only a runner does for long; the children of one that ends are
\* reaped by init.
Ended(ends) ==
    [p \in Pids |->
        IF ~Present(p) THEN NoProcess
        ELSE LET parents == {r \in Pids \ ends : Is(r, "runner") /\ process[r].child = p}
             IN  IF p \notin ends /\ ~process[p].zombie THEN process[p]
                 ELSE IF parents = {} THEN NoProcess
                 ELSE [process[p] EXCEPT !.zombie = TRUE, !.agent = "none", !.invocation = 0]]

-----------------------------------------------------------------------------
(* process.ts, lifecycle.ts: whom an identity stands for *)

\* envHasAgentMarker, envHasInvocationMarker; both are false of a process
\* whose environment cannot be read.
HasAgentMarker(p, a)      == Present(p) /\ process[p].agent = a
HasInvocationMarker(p, i) == Present(p) /\ process[p].invocation = i

\* Faulty: a pid with the marker of the agent is the runner.
MatchesByMarker(p, start, a) == p # NoProcess /\ HasAgentMarker(p, a)

\* identityMatches, without an invocation.
Matches(p, start, a) ==
    p # NoProcess /\ Present(p) /\ process[p].start = start /\ HasAgentMarker(p, a)

\* runnerIdentity, signalIdentityChecked
RunnerTargets(a, record) ==
    IF Matches(record.runner_pid, record.runner_start_time, a) THEN {record.runner_pid} ELSE {}

\* invocationIdentity, signalGroupChecked: a leader that is known stands for
\* its group.
InvocationTargets(a, record) ==
    IF /\ Matches(record.pid, record.start_time, a)
       /\ HasInvocationMarker(record.pid, record.invocation_id)
    THEN {p \in Pids : Present(p) /\ process[p].group = record.pid}
    ELSE {}

\* signalMarkedInvocationProcesses: descendants that left the group, too.
MarkedTargets(a, i) == {p \in Pids : HasAgentMarker(p, a) /\ HasInvocationMarker(p, i)}

-----------------------------------------------------------------------------
(* The spawns *)

\* spawnRunner, by somebody's shell or by a tool, whose environment it gets
\* with the agent replaced; while no run of the agent is in flight.
SpawnRunner ==
    \E a \in Runs, p \in Pids :
        /\ Gives(p)
        /\ ~\E r \in Pids : /\ Is(r, "runner") /\ process[r].agent = a
                            /\ process[r].child # NoProcess \/ process[r].sweep
        /\ \E inherited \in {0} \cup {process[q].invocation : q \in {t \in Pids : Is(t, "tool")}} :
             process' = [process EXCEPT ![p] = Started("runner", a, inherited, 0, p)]
        /\ UNCHANGED <<named, snapshot>>

\* claimReservation: by a process that names itself.
Claim(r) == /\ Is(r, "runner")
            /\ LET a == process[r].agent
               IN  named' = [named EXCEPT ![a].runner_pid = r,
                                          ![a].runner_start_time = process[r].start]
            /\ UNCHANGED <<process, snapshot, latestPid, starts>>

\* The backend of one invocation, in a group of its own, under both markers.
\* Its start time is read before the runner could have reaped it.
SpawnBackend(r) ==
    /\ Is(r, "runner") /\ process[r].child = NoProcess /\ ~process[r].sweep
    /\ named[process[r].agent].runner_start_time = process[r].start
    /\ \E p \in Pids :
         /\ Gives(p)
         /\ process' = [process EXCEPT
                          ![p] = Started("backend", process[r].agent, starts + 1, starts + 1, p),
                          ![r].child = p, ![r].childInvocation = starts + 1]
    /\ UNCHANGED <<named, snapshot>>

\* recordSpawned
RecordSpawned(r) ==
    /\ Is(r, "runner") /\ process[r].child # NoProcess
    /\ LET p == process[r].child
       IN  named' = [named EXCEPT ![process[r].agent] =
                       [pid |-> p, start_time |-> process[p].start,
                        invocation_id |-> process[r].childInvocation,
                        runner_pid |-> r, runner_start_time |-> process[r].start]]
    /\ UNCHANGED <<process, snapshot, latestPid, starts>>

\* A backend or a tool starts another tool, in its group or in a new one.
SpawnTool(q) ==
    /\ Is(q, "backend") \/ Is(q, "tool")
    /\ \E p \in Pids, own \in BOOLEAN :
         /\ Gives(p)
         /\ process' = [process EXCEPT ![p] =
                          Started("tool", process[q].agent, process[q].invocation, process[q].for,
                                IF own THEN p ELSE process[q].group)]
    /\ UNCHANGED <<named, snapshot>>

SpawnStranger == /\ \E p \in Pids :
                      /\ Gives(p)
                      /\ process' = [process EXCEPT ![p] = Started("stranger", "none", 0, 0, p)]
                 /\ UNCHANGED <<named, snapshot>>

-----------------------------------------------------------------------------
(* Ends and signals *)

Exit(p) == /\ Living(p)
           /\ process' = Ended({p})
           /\ UNCHANGED <<named, snapshot, latestPid, starts>>

\* childResult: the runner reaps its backend ...
Reap(r) == /\ Is(r, "runner") /\ process[r].child # NoProcess
           /\ process[process[r].child].zombie
           /\ process' = [process EXCEPT ![process[r].child] = NoProcess,
                                         ![r].child = NoProcess, ![r].sweep = TRUE]
           /\ UNCHANGED <<named, snapshot, latestPid, starts>>

\* ... and then scans for what is left of the invocation, killing each it
\* finds.  Of those started during the scan it may miss some, and there is a
\* deadline; the next step of the runner, a retry's spawn too, is after it.
Sweep(r) == /\ Is(r, "runner") /\ process[r].sweep
            /\ \E p \in MarkedTargets(process[r].agent, process[r].childInvocation) :
                  process' = Ended({p})
            /\ UNCHANGED <<named, snapshot, latestPid, starts>>

EndSweep(r) == /\ Is(r, "runner") /\ process[r].sweep
               /\ process' = [process EXCEPT ![r].sweep = FALSE, ![r].childInvocation = 0]
               /\ UNCHANGED <<named, snapshot, latestPid, starts>>

\* A command, or the poll of a runner, reads a record ...
ReadRecord(w) == /\ \E a \in Runs :
                      /\ snapshot[w] # [agent |-> a, record |-> named[a]]
                      /\ snapshot' = [snapshot EXCEPT ![w] = [agent |-> a, record |-> named[a]]]
                 /\ UNCHANGED <<process, named, latestPid, starts>>

\* ... and signals what it names, at any time from then on.
SignalRunner(w) == LET targets == RunnerTargets(snapshot[w].agent, snapshot[w].record)
                   IN  /\ targets # {}
                       /\ process' = Ended(targets)
                       /\ UNCHANGED <<named, snapshot, latestPid, starts>>

SignalInvocation(w) == LET targets == InvocationTargets(snapshot[w].agent, snapshot[w].record)
                       IN  /\ targets # {}
                           /\ process' = Ended(targets)
                           /\ UNCHANGED <<named, snapshot, latestPid, starts>>

Starting == SpawnRunner \/ SpawnStranger
              \/ \E p \in Pids : Claim(p) \/ SpawnBackend(p) \/ RecordSpawned(p) \/ SpawnTool(p)
Signals  == \E w \in Watchers : ReadRecord(w) \/ SignalRunner(w) \/ SignalInvocation(w)

IdentityNext == Starting \/ Signals \/ \E p \in Pids : Exit(p) \/ Reap(p) \/ Sweep(p) \/ EndSweep(p)

IdentitySpec == IdentityInit /\ [][IdentityNext]_identityVars

-----------------------------------------------------------------------------
\* Whatever pids have been used again, whichever record a caller still holds
\* and whoever launched whom, a signal reaches only the runner that wrote the
\* record or processes of the invocation the record names, and the sweep after
\* an invocation only what that invocation started: never a stranger, another
\* agent's runner that a tool launched, or the agent's next invocation.
SignalsReachTheirOwn ==
    /\ \A w \in Watchers :
         LET a == snapshot[w].agent
             record == snapshot[w].record
         IN  /\ \A p \in RunnerTargets(a, record) :
                  process[p].kind = "runner" /\ process[p].start = record.runner_start_time
             /\ \A p \in InvocationTargets(a, record) : process[p].for = record.invocation_id
    /\ \A r \in Pids : Is(r, "runner") /\ process[r].sweep =>
         \A p \in MarkedTargets(process[r].agent, process[r].childInvocation) :
             process[p].for = process[r].childInvocation
=============================================================================
