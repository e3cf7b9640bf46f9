---------------------------- MODULE ModelFailover ----------------------------
(***************************************************************************)
(* Which model an agent is launched on: the cooldowns of its record        *)
(* (agent-runtime/src/model-failover.ts), the failures all agents share    *)
(* (model-health.ts), the operator's ordered list (model-config.ts) and    *)
(* the failover loop of runner.ts that reads them between two launches.    *)
(* Time is in units of the shortest penalty; the jitter is left out.       *)
(***************************************************************************)
EXTENDS Naturals, Sequences, FiniteSets

CONSTANTS Agents,       \* agents whose runners are followed
          Others,       \* agents of whom only the shared failures are seen
          Models,
          Provider,     \* the provider of each model
          Configs,      \* lists of models the operator may write
          Failures,     \* the kinds of failure that happen
          MaxEdits,     \* bound: times the operator rewrites the list
          MaxPrompts,   \* bound: prompts given to each agent
          MaxShared,    \* bound: failures the others share at a time
          MaxTime,      \* bound: the last instant of the clock
          Transient, RateLimit, Quota,  \* how long each penalty lasts
          Window,       \* MODEL_HEALTH_WINDOW_SECONDS
          Retention     \* MODEL_HEALTH_RETENTION_SECONDS

Forever == MaxTime + Quota + 1          \* PERMANENT_EXCLUSION_UNTIL
Hard    == {"quota", "rate", "unavailable", "provider"}
Reasons == Hard \cup {"transient"}     \* MODEL_FAILURE_REASONS

ASSUME FailoverAssumption ==
    /\ Configs \subseteq Seq(Models) \ {<< >>}
    /\ Failures \subseteq Reasons
    /\ {MaxEdits, MaxPrompts, MaxShared, MaxTime, Transient, RateLimit, Quota, Window, Retention} \subseteq Nat
    /\ Transient <= Quota /\ RateLimit <= Quota

VARIABLES
  config,     \* configuredModels
  edits,      \* rewrites of it
  phase,      \* where the runner of each agent is
  open,       \* state is still running in the agent's record
  active,     \* activeModel
  tried,      \* failedModelsThisRun
  cooldowns,  \* model_failover.cooldowns of each agent
  events,     \* the files under model-health
  prompts,    \* prompts given
  barred,     \* history: until when each agent recorded a hard exclusion
  clock

failoverVars == <<config, edits, phase, open, active, tried, cooldowns, events, prompts, barred, clock>>
record == <<config, edits, cooldowns, events, barred, clock>>

Phases == {"idle", "ready", "run", "plan", "wait", "backoff"}
Configured == {config[i] : i \in 1..Len(config)}
NoCooldown == [reason |-> "transient", until |-> 0]

FailoverInit == /\ config \in Configs
                /\ edits = 0
                /\ phase = [a \in Agents |-> "idle"]
                /\ open = [a \in Agents |-> FALSE]
                /\ active \in [Agents -> {config[1]}]
                /\ tried = [a \in Agents |-> {}]
                /\ cooldowns = [a \in Agents |-> [m \in Models |-> NoCooldown]]
                /\ events = {}
                /\ prompts = [a \in Agents |-> 0]
                /\ barred = [a \in Agents |-> [m \in Models |-> 0]]
                /\ clock = 0

-----------------------------------------------------------------------------
(* Selection *)

Cooling(a, m) == cooldowns[a][m].until > clock

\* sharedUnreliableModels: two distinct agents failed on it within the window.
SharedUnreliable ==
    {m \in Models : \E e, f \in events : /\ e.model = m /\ f.model = m
                                         /\ e.agent # f.agent
                                         /\ e.at + Window >= clock /\ f.at + Window >= clock}

Healthy(a, excluded) == {i \in 1..Len(config) : /\ config[i] \notin excluded \cup SharedUnreliable
                                                /\ ~Cooling(a, config[i])}

\* The pool that is drawn from when no model is healthy.
Soft(a, excluded) ==
    {m \in Configured \ excluded : IF Cooling(a, m) THEN cooldowns[a][m].reason = "transient"
                                                    ELSE m \in SharedUnreliable}

\* eligibleAgentModel: the first healthy model, else any of the soft pool.
Eligible(a, excluded) ==
    LET healthy == Healthy(a, excluded)
    IN  IF healthy = {} THEN Soft(a, excluded)
                        ELSE {config[CHOOSE i \in healthy : \A j \in healthy : i <= j]}

\* modelCooldownSeconds: until when.
Until(reason) == CASE reason = "transient" -> clock + Transient
                   [] reason = "rate"      -> clock + RateLimit
                   [] reason = "quota"     -> clock + Quota
                   [] OTHER                -> Forever

\* coolDownAgentModel for one model, excludeAgentProvider for the configured
\* models of a provider.
Affected(m, reason) == IF reason = "provider"
                       THEN {n \in Configured : Provider[n] = Provider[m]}
                       ELSE {m}

\* Faulty: the entries of the other models are dropped.
CoolDownOnly(a, m, reason) ==
    cooldowns' = [cooldowns EXCEPT ![a] =
        [n \in Models |-> IF n \in Affected(m, reason)
                          THEN [reason |-> reason, until |-> Until(reason)]
                          ELSE NoCooldown]]

CoolDown(a, m, reason) ==
    cooldowns' = [cooldowns EXCEPT ![a] =
        [n \in Models |-> IF n \in Affected(m, reason)
                          THEN [reason |-> reason, until |-> Until(reason)]
                          ELSE IF Cooling(a, n) THEN @[n] ELSE NoCooldown]]

\* Faulty: a penalty that never ends is waited for too.
RecheckAlways(a) == Configured # {}

\* nextModelRecheckMs is not null: some exclusion will end.
Recheck(a) == \E m \in Configured : \/ ~Cooling(a, m)
                                    \/ cooldowns[a][m].reason = "transient"
                                    \/ cooldowns[a][m].until # Forever

\* recordUnrecognizedBackendFailure: old files are pruned, one is added.
WithEvent(a, m) == {e \in events : e.at + Retention >= clock}
                     \cup {[agent |-> a, model |-> m, at |-> clock]}

-----------------------------------------------------------------------------
(* The runner *)

Step(a, from, to) == phase[a] = from /\ phase' = [phase EXCEPT ![a] = to]

\* runInvocation: a prompt is accepted, and its first command is built.
BeginPrompt(a) == /\ prompts[a] < MaxPrompts
            /\ prompts' = [prompts EXCEPT ![a] = @ + 1]
            /\ tried' = [tried EXCEPT ![a] = {}]
            /\ \/ \E m \in Eligible(a, {}) : /\ active' = [active EXCEPT ![a] = m]
                                             /\ open' = [open EXCEPT ![a] = TRUE]
                                             /\ Step(a, "idle", "ready")
               \/ /\ Eligible(a, {}) = {}
                  /\ Step(a, "idle", "idle")
                  /\ UNCHANGED <<active, open>>
            /\ UNCHANGED record

\* The soft penalty has been waited for and the launch authorised: spawn.
Launch(a) == /\ Step(a, "ready", "run")
             /\ UNCHANGED <<open, active, tried, prompts, record>>

\* A stop or a steer is seen while waiting, or a gate refuses: no launch.
Ends(a) == /\ phase[a] \in {"ready", "backoff", "wait"}
           /\ phase' = [phase EXCEPT ![a] = "idle"]
           /\ open' = [open EXCEPT ![a] = FALSE]
           /\ UNCHANGED <<active, tried, prompts, record>>

\* The invocation ends with nothing to recover from.
Finishes(a) == /\ Step(a, "run", "idle")
               /\ open' = [open EXCEPT ![a] = FALSE]
               /\ UNCHANGED <<active, tried, prompts, record>>

\* Someone else finalizes the record meanwhile.
Withdraw(a) == /\ open[a]
               /\ phase[a] \in {"run", "plan"}
               /\ open' = [open EXCEPT ![a] = FALSE]
               /\ UNCHANGED <<phase, active, tried, prompts, record>>

\* recoverableModelFailure: the failure cools the model or its provider, if the
\* record is still running; an unrecognized one is shared with other agents.
Fails(a) ==
    \E reason \in Failures, unrecognized \in BOOLEAN :
        /\ Step(a, "run", "plan")
        /\ unrecognized => reason = "transient"
        /\ tried' = [tried EXCEPT ![a] = @ \cup {active[a]}]
        /\ IF open[a]
           THEN /\ CoolDown(a, active[a], reason)
                /\ barred' = [barred EXCEPT ![a] = [m \in Models |->
                       IF /\ reason \in Hard
                          /\ m \in Affected(active[a], reason)
                          /\ Until(reason) > @[m] THEN Until(reason)
                       ELSE IF @[m] > clock THEN @[m] ELSE 0]]
           ELSE UNCHANGED <<cooldowns, barred>>
        /\ events' = IF unrecognized THEN WithEvent(a, active[a]) ELSE events
        /\ UNCHANGED <<config, edits, open, active, prompts, clock>>

\* The planning loop: an eligible model, else a new round, else a pause while
\* some exclusion is going to end, else the failure is final.
Plan(a) ==
    /\ phase[a] = "plan"
    /\ \/ /\ ~open[a]
          /\ Step(a, "plan", "idle")
          /\ UNCHANGED <<open, active, tried>>
       \/ /\ open[a]
          /\ \E m \in Eligible(a, tried[a]) : active' = [active EXCEPT ![a] = m]
          /\ Step(a, "plan", "backoff")
          /\ UNCHANGED <<open, tried>>
       \/ /\ open[a]
          /\ Eligible(a, tried[a]) = {} /\ tried[a] # {}
          /\ tried' = [tried EXCEPT ![a] = {}]
          /\ UNCHANGED <<phase, open, active>>
       \/ /\ open[a]
          /\ Eligible(a, tried[a]) = {} /\ tried[a] = {}
          /\ Recheck(a)
          /\ Step(a, "plan", "wait")
          /\ UNCHANGED <<open, active, tried>>
       \/ /\ open[a]
          /\ Eligible(a, tried[a]) = {} /\ tried[a] = {}
          /\ ~Recheck(a)
          /\ Step(a, "plan", "idle")
          /\ open' = [open EXCEPT ![a] = FALSE]
          /\ UNCHANGED <<active, tried>>
    /\ UNCHANGED <<prompts, record>>

\* waitForRecovery returns retry.
Resume(a) == /\ Step(a, "wait", "plan") \/ Step(a, "backoff", "ready")
             /\ UNCHANGED <<open, active, tried, prompts, record>>

\* Another agent shares a failure of a model.
OthersFail(o) == /\ Cardinality({e \in events : e.agent \in Others}) < MaxShared
                 /\ \E m \in Models : events' = WithEvent(o, m)
                 /\ UNCHANGED <<config, edits, phase, open, active, tried, cooldowns,
                                prompts, barred, clock>>

\* The operator rewrites config.json.
Edit == /\ edits < MaxEdits
        /\ edits' = edits + 1
        /\ config' \in Configs \ {config}
        /\ UNCHANGED <<phase, open, active, tried, cooldowns, events, prompts, barred, clock>>

FailoverTick == /\ clock < MaxTime
                /\ clock' = clock + 1
                /\ UNCHANGED <<config, edits, phase, open, active, tried, cooldowns, events, prompts, barred>>

Run(a) == BeginPrompt(a) \/ Launch(a) \/ Ends(a) \/ Finishes(a) \/ Withdraw(a) \/ Fails(a) \/ Plan(a) \/ Resume(a)

FailoverNext == (\E a \in Agents : Run(a)) \/ (\E o \in Others : OthersFail(o)) \/ Edit \/ FailoverTick

\* The runner is a loop: it plans, and its sleeps end.
FailoverFairness == \A a \in Agents : WF_failoverVars(Plan(a)) /\ WF_failoverVars(Resume(a))

FailoverSpec == FailoverInit /\ [][FailoverNext]_failoverVars /\ FailoverFairness

-----------------------------------------------------------------------------
\* An agent is never launched on a model while an exclusion it recorded against
\* it for a quota, a rate limit, a missing model or its provider is in force,
\* whatever failed, cooled down, was waited for or reconfigured since.
NoBarredLaunch == [][\A a \in Agents :
                        phase[a] = "ready" /\ phase'[a] = "run" => barred[a][active[a]] <= clock]_failoverVars

AllBarred(a) == /\ open[a]
                /\ \A m \in Configured : cooldowns[a][m].until = Forever

\* A prompt whose every configured model is excluded for good does not wait for
\* ever for one of them: its failure is reported, unless the list changes.
FailoverEnds == \A a \in Agents :
                    phase[a] = "plan" /\ AllBarred(a) ~> phase[a] = "idle" \/ ~AllBarred(a)
=============================================================================
