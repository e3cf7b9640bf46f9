------------------------ MODULE AgentLifecycleProofs ------------------------
(***************************************************************************)
(* Theorems about the life of one agent, for any number of clients, any    *)
(* commands and any of the chances around them: its record and processes   *)
(* keep their types; an accepted prompt is started at most once, never     *)
(* after it was cancelled, and none after the tombstone.                   *)
(*                                                                         *)
(* As long as nobody stops or kills the agent, one runner owns the record, *)
(* so that no accepted prompt vanishes, no live invocation is written off, *)
(* the session has one invocation at a time and no owed prompt waits for   *)
(* nobody, whatever the clients run, steer, clean or, where it says so,    *)
(* delete.  With a stop they do not: a runner that lost its prompt to the  *)
(* stop may end the reservation of the run after it.                       *)
(***************************************************************************)
EXTENDS AgentLifecycle, SequenceTheorems, FiniteSetTheorems, TLAPS

-----------------------------------------------------------------------------
(* The operations of the record return records *)

\* Each operation of lifecycle.ts on a record returns a record.
LEMMA RecordOperations ==
  ASSUME NEW m \in Meta
  PROVE  /\ SetInactive(m) \in Meta
         /\ \A c \in Clients, mode \in {"new", "continue"} : Reserve(m, c, mode) \in Meta
         /\ \A prompt \in Clients \cup {None} : BeginInvocation(m, prompt) \in Meta
         /\ \A state \in Lifecycles : FinalizeTerminal(m, state) \in Meta
         /\ \A c \in Clients : QueueSteer(m, c) \in Meta
         /\ \A intent \in {"stop", "kill"} : BeginStopLike(m, intent) \in Meta
<1>1. SetInactive(m) \in Meta
  BY DEF Meta, SetInactive
<1>2. \A c \in Clients, mode \in {"new", "continue"} : Reserve(m, c, mode) \in Meta
  BY DEF Meta, Reserve
<1>3. \A prompt \in Clients \cup {None} : BeginInvocation(m, prompt) \in Meta
  BY DEF Meta, BeginInvocation, Lifecycles, Intents
<1>4. \A state \in Lifecycles : FinalizeTerminal(m, state) \in Meta
  BY DEF Meta, FinalizeTerminal, Intents
<1>5. \A c \in Clients : QueueSteer(m, c) \in Meta
  BY DEF Meta, QueueSteer
<1>6. \A intent \in {"stop", "kill"} : BeginStopLike(m, intent) \in Meta
  <2>1. <<>> \in Seq(Clients)
    OBVIOUS
  <2>. QED BY <2>1 DEF Meta, BeginStopLike, Intents
<1>. QED BY <1>1, <1>2, <1>3, <1>4, <1>5, <1>6

\* popSteerIntoPending: the head of a queue that is not empty is a prompt.
LEMMA PopType ==
  ASSUME NEW m \in Meta, m.steer_queue # <<>>
  PROVE  PopSteerIntoPending(m) \in Meta
<1>1. Head(m.steer_queue) \in Clients /\ Tail(m.steer_queue) \in Seq(Clients)
  BY DEF Meta
<1>2. [m EXCEPT !.steer_queue = Tail(@)] \in Meta
  BY <1>1 DEF Meta
<1>. QED BY <1>1, <1>2, RecordOperations DEF PopSteerIntoPending

\* What a record owes are prompts of clients.
LEMMA OwedType == ASSUME NEW m \in Meta PROVE Owed(m) \subseteq Clients
BY DEF Owed, Meta

\* An update of the record writes a record, or nothing.
LEMMA UpdateType ==
  ASSUME TypeOK, NEW m \in Meta, Update(m) PROVE meta' \in Meta
BY DEF TypeOK, Update

\* A failure keeps the types of the record and of the history.
LEMMA RecordFailureType ==
  ASSUME TypeOK, RecordFailure
  PROVE  meta' \in Meta /\ failed' \in SUBSET Clients
<1>1. FinalizeTerminal(meta, "failed") \in Meta
  BY RecordOperations DEF TypeOK, Lifecycles, Terminal
<1>2. SetInactive(FinalizeTerminal(meta, "failed")) \in Meta
  BY <1>1, RecordOperations
<1>. QED BY <1>2, OwedType, UpdateType DEF RecordFailure, TypeOK

\* A signal changes no more than the status of one invocation.
LEMMA SignalledType ==
  ASSUME TypeOK, NEW i \in (Clients \X Nat) \cup {None},
         NEW status \in {"term", "signalled"}
  PROVE  /\ Signalled(child, i, status) \in [Clients -> Child]
         /\ \A c \in Clients : Signalled(child, i, status)[c].n = child[c].n
BY DEF TypeOK, Signalled, InvocationAlive, Child

\* Whatever names an invocation names a runner and a count.
LEMMA InvocationType ==
  ASSUME TypeOK
  PROVE  /\ \A r \in Clients : Invocation(r) \in Clients \X Nat
         /\ meta.pid \in (Clients \X Nat) \cup {None}
         /\ \A c \in Clients : cli[c].snap \in (Clients \X Nat) \cup {None}
BY LifecycleAssumption DEF TypeOK, Invocation, Invocations, Child, Meta, Cli

\* A record stays one when a single field is assigned.
LEMMA FieldTypes ==
  ASSUME NEW m \in Meta
  PROVE  /\ \A b \in BOOLEAN : /\ [m EXCEPT !.active_runner = b] \in Meta
                               /\ [m EXCEPT !.delete_pending = b] \in Meta
                               /\ [m EXCEPT !.native_session_id = b] \in Meta
                               /\ [m EXCEPT !.resFresh = b] \in Meta
                               /\ [m EXCEPT !.startFresh = b] \in Meta
         /\ \A i \in Intents : /\ [m EXCEPT !.intent = i] \in Meta
                               /\ [m EXCEPT !.stop_reason = i] \in Meta
         /\ \A c \in Clients \cup {None} : [m EXCEPT !.pending_prompt = c] \in Meta
<1>1. \A b \in BOOLEAN : /\ [m EXCEPT !.active_runner = b] \in Meta
                         /\ [m EXCEPT !.delete_pending = b] \in Meta
                         /\ [m EXCEPT !.native_session_id = b] \in Meta
  BY DEF Meta
<1>2. \A b \in BOOLEAN : /\ [m EXCEPT !.resFresh = b] \in Meta
                         /\ [m EXCEPT !.startFresh = b] \in Meta
  BY DEF Meta
<1>3. \A i \in Intents : /\ [m EXCEPT !.intent = i] \in Meta
                         /\ [m EXCEPT !.stop_reason = i] \in Meta
  BY DEF Meta
<1>4. \A c \in Clients \cup {None} : [m EXCEPT !.pending_prompt = c] \in Meta
  BY DEF Meta
<1>. QED BY <1>1, <1>2, <1>3, <1>4

\* What stop and kill leave behind.
LEMMA StoppedType ==
  ASSUME NEW m \in Meta, NEW c \in Clients, NEW intent \in {"stop", "kill"}
  PROVE  [SetInactive(FinalizeTerminal(m, Outcome(intent)))
            EXCEPT !.stop_reason = intent] \in Meta
<1>1. Outcome(intent) \in Lifecycles /\ intent \in Intents
  BY DEF Outcome, Lifecycles, Terminal, Intents
<1>2. FinalizeTerminal(m, Outcome(intent)) \in Meta
  BY <1>1, RecordOperations
<1>3. SetInactive(FinalizeTerminal(m, Outcome(intent))) \in Meta
  BY <1>2, RecordOperations
<1>. QED BY <1>1, <1>3, FieldTypes

-----------------------------------------------------------------------------
(* Type correctness *)

\* A runner that is about to claim a prompt has read one, and one that has
\* spawned an invocation can name it.
RunnerInv == /\ runner \in [Clients -> Runner]
             /\ \A r \in Clients :
                  /\ runner[r].pc = "take" => runner[r].prompt \in Clients
                  /\ runner[r].pc = "record" => child[r].n # 0
ChildOK == child \in [Clients -> Child]
RestOK == /\ exists \in BOOLEAN
          /\ native \in BOOLEAN
          /\ accepted \in Seq(Clients)
          /\ taken \in Seq(Clients)
          /\ cancelled \in SUBSET Clients
          /\ failed \in SUBSET Clients
TypeInv == meta \in Meta /\ RunnerInv /\ ChildOK /\ cli \in [Clients -> Cli] /\ RestOK

\* The strengthening is the type invariant, and more.
LEMMA TypeInvOK == TypeInv => TypeOK
BY DEF TypeInv, TypeOK, RunnerInv, ChildOK, RestOK

\* The record that cmdNew writes, before any command.
LEMMA TypeInit == Init => TypeInv
<1>. SUFFICES ASSUME Init PROVE TypeInv
  OBVIOUS
<1>1. <<>> \in Seq(Clients)
  OBVIOUS
<1>2. IdleMeta \in Meta
  BY <1>1 DEF IdleMeta, Meta, Lifecycles, Intents
<1>3. NoRunner \in Runner /\ NoRunner.pc = "unborn"
  BY DEF NoRunner, Runner, RunnerLabels
<1>4. NoCli \in Cli
  BY DEF NoCli, Cli, CliLabels, Results
<1>5. [n |-> 0, status |-> "none"] \in Child
  BY LifecycleAssumption DEF Child
<1>. QED BY <1>1, <1>2, <1>3, <1>4, <1>5
         DEF Init, TypeInv, RunnerInv, ChildOK, RestOK

\* A runner moves, and no invocation is forgotten.
SameCounts == \A c \in Clients : child'[c].n = child[c].n

\* One runner moves to a new record of its own.
LEMMA RunnerMoves ==
  ASSUME RunnerInv, NEW r \in Clients, NEW x \in Runner,
         runner' = [runner EXCEPT ![r] = x], SameCounts,
         x.pc = "take" => x.prompt \in Clients,
         x.pc = "record" => child[r].n # 0
  PROVE  RunnerInv'
BY DEF RunnerInv, SameCounts

\* No runner moves.
LEMMA RunnerStays ==
  ASSUME RunnerInv, UNCHANGED runner, SameCounts PROVE RunnerInv'
BY DEF RunnerInv, SameCounts

\* A runner goes on, except to claim a prompt or to record an invocation.
LEMMA RunnerGoes ==
  ASSUME RunnerInv, NEW r \in Clients, NEW l \in RunnerLabels \ {"take", "record"},
         RGoto(r, l), SameCounts
  PROVE  RunnerInv'
<1>1. /\ [runner[r] EXCEPT !.pc = l] \in Runner
      /\ [runner[r] EXCEPT !.pc = l].pc = l
  BY DEF RunnerInv, Runner
<1>. QED BY <1>1, RunnerMoves DEF RGoto

\* A runner ends or is killed.
LEMMA RunnerExits ==
  ASSUME RunnerInv, NEW r \in Clients, SameCounts,
         RExit(r) \/ runner' = [runner EXCEPT ![r] = Crashed]
  PROVE  RunnerInv'
<1>1. \A l \in {"exited", "crashed"} : /\ [NoRunner EXCEPT !.pc = l] \in Runner
                                       /\ [NoRunner EXCEPT !.pc = l].pc = l
  BY DEF NoRunner, Runner, RunnerLabels
<1>. QED BY <1>1, RunnerMoves DEF RExit, Crashed

\* The steps of a runner
LEMMA RunnerType ==
  ASSUME TypeInv, NEW r \in Clients, RunnerAct(r)
  PROVE  TypeInv'
<1>. USE DEF RAt
<1>0. TypeOK /\ RunnerInv /\ meta \in Meta /\ runner[r] \in Runner
  BY TypeInvOK DEF TypeInv, RunnerInv
<1>a. ASSUME UNCHANGED <<exists, child, cli, native, history>>, meta' \in Meta, RunnerInv'
      PROVE  TypeInv'
  BY <1>a DEF TypeInv, ChildOK, RestOK, history
<1>b. UNCHANGED child => SameCounts
  BY DEF SameCounts
<1>1. CASE ClaimRunner(r)
  <2>1. [meta EXCEPT !.runner_pid = r, !.res = "claimed",
                     !.active_runner = TRUE, !.state = "running"] \in Meta
    BY <1>0 DEF Meta, Lifecycles
  <2>2. meta' \in Meta
    BY <1>0, <1>1, <2>1 DEF ClaimRunner
  <2>3. RunnerInv'
    BY <1>0, <1>1, <1>b, RunnerGoes, RunnerExits DEF ClaimRunner, ROnly, RunnerLabels
  <2>. QED BY <1>1, <1>a, <2>2, <2>3 DEF ClaimRunner, ROnly
<1>2. CASE NextPrompt(r)
  <2>1. CASE RExit(r) \/ RGoto(r, "drain")
    BY <1>0, <1>2, <1>a, <1>b, <2>1, RunnerGoes, RunnerExits DEF NextPrompt, ROnly, RunnerLabels
  <2>2. ASSUME NEW label \in {"take", "abort"}, meta.pending_prompt # None,
               runner' = [runner EXCEPT ![r].pc = label,
                                        ![r].prompt = meta.pending_prompt]
        PROVE  RunnerInv'
    <3>. DEFINE x == [runner[r] EXCEPT !.pc = label, !.prompt = meta.pending_prompt]
    <3>1. meta.pending_prompt \in Clients
      BY <1>0, <2>2 DEF Meta
    <3>2. x \in Runner /\ x.pc = label /\ x.prompt \in Clients
      BY <1>0, <3>1 DEF Runner, RunnerLabels
    <3>3. runner' = [runner EXCEPT ![r] = x] /\ SameCounts
      BY <1>2, <1>b, <2>2 DEF NextPrompt, ROnly
    <3>. QED BY <1>0, <3>2, <3>3, RunnerMoves
  <2>. QED BY <1>0, <1>2, <1>a, <2>1, <2>2 DEF NextPrompt, ROnly
<1>3. CASE ClaimPendingPrompt(r)
  <2>1. CASE RGoto(r, "release") /\ UNCHANGED <<meta, taken>>
    BY <1>0, <1>3, <1>a, <1>b, <2>1, RunnerGoes DEF ClaimPendingPrompt, RunnerLabels, history
  <2>2. CASE /\ meta' = [meta EXCEPT !.pending_prompt = None]
             /\ taken' = Append(taken, runner[r].prompt)
             /\ runner' = [runner EXCEPT ![r].pc = "gate", ![r].prompt = None]
    <3>. DEFINE x == [runner[r] EXCEPT !.pc = "gate", !.prompt = None]
    <3>1. x \in Runner /\ x.pc = "gate"
      BY <1>0 DEF Runner, RunnerLabels
    <3>2. runner[r].prompt \in Clients /\ meta' \in Meta
      BY <1>0, <1>3, <2>2, FieldTypes DEF ClaimPendingPrompt, RunnerInv
    <3>3. runner' = [runner EXCEPT ![r] = x] /\ SameCounts
      BY <1>3, <1>b, <2>2 DEF ClaimPendingPrompt
    <3>4. RunnerInv'
      BY <1>0, <3>1, <3>3, RunnerMoves
    <3>. QED BY <1>3, <2>2, <3>2, <3>4 DEF ClaimPendingPrompt, TypeInv, ChildOK, RestOK
  <2>. QED BY <1>3, <2>1, <2>2 DEF ClaimPendingPrompt
<1>4. CASE ReleaseUnclaimed(r)
  BY <1>0, <1>4, <1>a, <1>b, RunnerExits, RecordOperations, UpdateType
  DEF ReleaseUnclaimed, ROnly
<1>5. CASE Gate(r)
  <2>. DEFINE x == [runner[r] EXCEPT !.pc = "wait", !.after = "spawn"]
  <2>1. x \in Runner /\ x.pc = "wait"
    BY <1>0 DEF Runner, RunnerLabels
  <2>2. RGoto(r, "spawn") \/ runner' = [runner EXCEPT ![r] = x]
    BY <1>5 DEF Gate
  <2>3. SameCounts
    BY <1>5, <1>b DEF Gate, ROnly
  <2>4. RunnerInv'
    BY <1>0, <2>1, <2>2, <2>3, RunnerGoes, RunnerMoves DEF RunnerLabels
  <2>. QED BY <1>0, <1>5, <1>a, <2>4 DEF Gate, ROnly
<1>6. CASE LaunchRefused(r)
  BY <1>0, <1>6, <1>a, <1>b, RunnerGoes DEF LaunchRefused, ROnly, RunnerLabels
<1>7. CASE Spawn(r)
  <2>. DEFINE x == [runner[r] EXCEPT !.pc = "record", !.asked = FALSE,
                                     !.sent = FALSE, !.stalled = FALSE]
  <2>1. x \in Runner /\ x.pc = "record"
    BY <1>0 DEF Runner, RunnerLabels
  <2>2. ChildOK' /\ child'[r].n # 0 /\ \A c \in Clients \ {r} : child'[c] = child[c]
    BY <1>7, LifecycleAssumption DEF Spawn, TypeInv, ChildOK, Child
  <2>3. RunnerInv'
    BY <1>0, <1>7, <2>1, <2>2 DEF Spawn, RunnerInv
  <2>. QED BY <1>7, <2>2, <2>3 DEF Spawn, TypeInv, RestOK, history
<1>8. CASE Abort(r) \/ PlanFails(r)
  <2>1. RunnerInv'
    BY <1>0, <1>8, <1>b, RunnerExits DEF Abort, PlanFails
  <2>. QED BY <1>0, <1>8, <2>1, RecordFailureType
           DEF Abort, PlanFails, TypeInv, ChildOK, RestOK
<1>9. CASE RecordSpawned(r)
  <2>1. Invocation(r) \in Invocations
    BY <1>0, <1>9 DEF RecordSpawned, TypeInv, RunnerInv, ChildOK, Child,
                      Invocation, Invocations
  <2>2. [meta EXCEPT !.pid = Invocation(r), !.runner_pid = r,
                     !.state = "running", !.startFresh = TRUE,
                     !.active_runner = TRUE] \in Meta
    BY <1>0, <2>1 DEF Meta, Lifecycles
  <2>3. meta' \in Meta
    BY <1>0, <1>9, <2>2 DEF RecordSpawned
  <2>4. RunnerInv'
    BY <1>0, <1>9, <1>b, RunnerGoes DEF RecordSpawned, ROnly, RunnerLabels
  <2>. QED BY <1>9, <1>a, <2>3, <2>4 DEF RecordSpawned, ROnly
<1>10. CASE RejectSpawn(r) \/ RecordThrows(r) \/ Unidentified(r)
  <2>1. ChildOK' /\ SameCounts
    BY <1>0, <1>10, SignalledType, InvocationType
    DEF RejectSpawn, RecordThrows, Unidentified, Kill, TypeInv, ChildOK, SameCounts
  <2>2. RunnerInv'
    BY <1>0, <1>10, <2>1, RunnerExits, RunnerGoes
    DEF RejectSpawn, RecordThrows, Unidentified, RunnerLabels
  <2>. QED BY <1>10, <2>1, <2>2
           DEF RejectSpawn, RecordThrows, Unidentified, TypeInv, RestOK, history
<1>11. CASE ReleaseUnrecordedSpawn(r)
  <2>1. RunnerInv'
    BY <1>0, <1>11, <1>b, RunnerExits DEF ReleaseUnrecordedSpawn
  <2>2. meta' \in Meta /\ failed' \in SUBSET Clients
    BY <1>0, <1>11, RecordFailureType, RecordOperations, UpdateType
    DEF ReleaseUnrecordedSpawn, TypeInv, RestOK
  <2>. QED BY <1>11, <2>1, <2>2 DEF ReleaseUnrecordedSpawn, TypeInv, ChildOK, RestOK
<1>12. CASE Reap(r)
  BY <1>0, <1>12, <1>a, <1>b, RunnerGoes DEF Reap, ROnly, RunnerLabels
<1>13. CASE RememberFreshSession(r)
  <2>. DEFINE found == meta.native_session_id \/ (~runner[r].isContinue /\ native)
  <2>1. [meta EXCEPT !.native_session_id = found] \in Meta
    BY <1>0, FieldTypes
  <2>2. meta' \in Meta
    BY <1>0, <1>13, <2>1, UpdateType DEF RememberFreshSession
  <2>3. RunnerInv'
    BY <1>0, <1>13, <1>b, RunnerGoes DEF RememberFreshSession, ROnly, RunnerLabels
  <2>. QED BY <1>13, <1>a, <2>2, <2>3 DEF RememberFreshSession, ROnly
<1>14. CASE PlanRecovery(r)
  <2>1. CASE RExit(r) \/ RGoto(r, "planFail") \/ RGoto(r, "remember")
    BY <1>0, <1>14, <1>a, <1>b, <2>1, RunnerExits, RunnerGoes
    DEF PlanRecovery, ROnly, RunnerLabels
  <2>2. CASE runner' = [runner EXCEPT ![r].pc = "wait", ![r].after = "plan"]
    <3>. DEFINE x == [runner[r] EXCEPT !.pc = "wait", !.after = "plan"]
    <3>1. x \in Runner /\ x.pc = "wait"
      BY <1>0 DEF Runner, RunnerLabels
    <3>2. runner' = [runner EXCEPT ![r] = x] /\ SameCounts
      BY <1>14, <1>b, <2>2 DEF PlanRecovery, ROnly
    <3>3. RunnerInv'
      BY <1>0, <3>1, <3>2, RunnerMoves
    <3>. QED BY <1>0, <1>14, <1>a, <3>3 DEF PlanRecovery, ROnly
  <2>3. ASSUME NEW b \in BOOLEAN,
               runner' = [runner EXCEPT ![r].pc = "wait", ![r].after = "gate",
                                        ![r].isContinue = b]
        PROVE  TypeInv'
    <3>. DEFINE x == [runner[r] EXCEPT !.pc = "wait", !.after = "gate",
                                       !.isContinue = b]
    <3>1. x \in Runner /\ x.pc = "wait"
      BY <1>0 DEF Runner, RunnerLabels
    <3>2. runner' = [runner EXCEPT ![r] = x] /\ SameCounts
      BY <1>14, <1>b, <2>3 DEF PlanRecovery, ROnly
    <3>3. RunnerInv'
      BY <1>0, <3>1, <3>2, RunnerMoves
    <3>. QED BY <1>0, <1>14, <1>a, <3>3 DEF PlanRecovery, ROnly
  <2>. DEFINE resumes == /\ runner[r].isContinue \/ meta.native_session_id
                         /\ meta.native_session_id \/ native
  <2>4. resumes \in BOOLEAN
    OBVIOUS
  <2>. QED BY <1>14, <2>1, <2>2, <2>3, <2>4 DEF PlanRecovery
<1>15. CASE WaitForRecovery(r)
  <2>. DEFINE next == CASE meta.intent \in {"stop", "kill"} -> "waitStop"
                        [] meta.intent = "steer" -> "waitSteer"
                        [] OTHER -> runner[r].after
              x    == [runner[r] EXCEPT !.after = "gate", !.pc = next]
  <2>1. next \in RunnerLabels \ {"take", "record"}
    BY <1>0 DEF Runner, RunnerLabels
  <2>. HIDE DEF next
  <2>2. x \in Runner /\ x.pc = next
    BY <1>0, <2>1 DEF Runner
  <2>3. RExit(r) \/ runner' = [runner EXCEPT ![r] = x]
    BY <1>15 DEF WaitForRecovery, next
  <2>4. SameCounts
    BY <1>15, <1>b DEF WaitForRecovery, ROnly
  <2>5. RunnerInv'
    BY <1>0, <2>1, <2>2, <2>3, <2>4, RunnerExits, RunnerMoves
  <2>. QED BY <1>0, <1>15, <1>a, <2>5 DEF WaitForRecovery, ROnly
<1>16. CASE WaitStopped(r)
  <2>1. meta' \in Meta
    BY <1>0, <1>16, StoppedType DEF WaitStopped, Update
  <2>. QED BY <1>0, <1>16, <1>a, <1>b, <2>1, RunnerExits DEF WaitStopped, ROnly
<1>17. CASE WaitSteered(r)
  <2>. DEFINE x == [runner[r] EXCEPT !.pc = "drain", !.isContinue = TRUE]
  <2>1. x \in Runner /\ x.pc = "drain"
    BY <1>0 DEF Runner, RunnerLabels
  <2>2. [meta EXCEPT !.intent = "none", !.stop_reason = "steer"] \in Meta
    BY <1>0 DEF Meta, Intents
  <2>3. meta' \in Meta
    BY <1>0, <1>17, <2>2 DEF WaitSteered, Update
  <2>4. RunnerInv'
    BY <1>0, <1>17, <1>b, <2>1, RunnerMoves DEF WaitSteered, ROnly
  <2>. QED BY <1>17, <1>a, <2>3, <2>4 DEF WaitSteered, ROnly
<1>18. CASE FinalizeInvocation(r)
  <2>. DEFINE x == [NoRunner EXCEPT !.pc = "drain", !.isContinue = TRUE]
  <2>1. x \in Runner /\ x.pc = "drain"
    BY DEF NoRunner, Runner, RunnerLabels
  <2>2. ChildOK' /\ SameCounts
    BY <1>18 DEF FinalizeInvocation, TypeInv, ChildOK, Child, SameCounts
  <2>3. RunnerInv'
    BY <1>0, <1>18, <2>1, <2>2, RunnerMoves DEF FinalizeInvocation
  <2>4. \A state \in Lifecycles :
          [FinalizeTerminal(meta, state) EXCEPT !.stop_reason = meta.intent] \in Meta
    <3>1. meta.intent \in Intents
      BY <1>0 DEF Meta
    <3>. QED BY <1>0, <3>1, RecordOperations, FieldTypes
  <2>5. meta' \in Meta
    BY <1>0, <1>18, <2>4 DEF FinalizeInvocation, Update, Outcome, Lifecycles, Terminal
  <2>. QED BY <1>18, <2>2, <2>3, <2>5 DEF FinalizeInvocation, TypeInv, RestOK, history
<1>19. CASE ReclaimOrStop(r)
  <2>1. meta.steer_queue # <<>> => PopSteerIntoPending(meta) \in Meta
    BY <1>0, PopType
  <2>2. meta' \in Meta
    BY <1>0, <1>19, <2>1, RecordOperations, FieldTypes DEF ReclaimOrStop, Update
  <2>3. RunnerInv'
    BY <1>0, <1>19, <1>b, RunnerExits, RunnerGoes DEF ReclaimOrStop, ROnly, RunnerLabels
  <2>. QED BY <1>19, <1>a, <2>2, <2>3 DEF ReclaimOrStop, ROnly
<1>. QED BY <1>1, <1>2, <1>3, <1>4, <1>5, <1>6, <1>7, <1>8, <1>9, <1>10,
            <1>11, <1>12, <1>13, <1>14, <1>15, <1>16, <1>17, <1>18, <1>19
         DEF RunnerAct

\* The poll of childResult, the invocation itself and the end of a runner
LEMMA ChildType ==
  ASSUME TypeInv, NEW r \in Clients,
         Poll(r) \/ ChildStep(r) \/ RunnerCrash(r)
  PROVE  TypeInv'
<1>. USE DEF RAt
<1>0. TypeOK /\ RunnerInv /\ meta \in Meta /\ runner[r] \in Runner
  BY TypeInvOK DEF TypeInv, RunnerInv
<1>a. ASSUME UNCHANGED <<exists, meta, cli, history>>, native' \in BOOLEAN,
             ChildOK', RunnerInv'
      PROVE  TypeInv'
  BY <1>a DEF TypeInv, RestOK, history
<1>b. ASSUME NEW status \in {"term", "signalled"}, NEW i \in {meta.pid, Invocation(r)},
             child' = Signalled(child, i, status)
      PROVE  ChildOK' /\ SameCounts
  BY <1>0, <1>b, SignalledType, InvocationType DEF ChildOK, SameCounts
<1>c. native \in BOOLEAN /\ ChildOK
  BY DEF TypeInv, RestOK
<1>1. ASSUME NEW status \in {"term", "signalled"}, SignalFromPoll(r, status)
      PROVE  TypeInv'
  <2>. DEFINE x == [runner[r] EXCEPT !.asked = TRUE,
                                     !.sent = @ \/ InvocationAlive(meta.pid)]
  <2>1. (runner[r].sent \/ InvocationAlive(meta.pid)) \in BOOLEAN
    BY <1>0 DEF InvocationAlive
  <2>2. x \in Runner /\ x.pc = runner[r].pc /\ x.prompt = runner[r].prompt
    BY <1>0, <2>1 DEF Runner
  <2>3. runner' = [runner EXCEPT ![r] = x]
    BY <1>1 DEF SignalFromPoll
  <2>4. ChildOK' /\ SameCounts
    BY <1>1, <1>b DEF SignalFromPoll
  <2>5. RunnerInv'
    BY <1>0, <2>2, <2>3, <2>4, RunnerMoves DEF RunnerInv
  <2>. QED BY <1>1, <1>a, <1>c, <2>4, <2>5 DEF SignalFromPoll
<1>2. CASE PollKill(r) \/ PollControl(r) \/ PollEscalate(r)
  BY <1>1, <1>2 DEF PollKill, PollControl, PollEscalate
<1>3. CASE PollStalled(r)
  <2>. DEFINE x == [runner[r] EXCEPT !.stalled = TRUE]
  <2>1. x \in Runner /\ x.pc = "watch"
    BY <1>0, <1>3 DEF Runner, PollStalled
  <2>2. runner' = [runner EXCEPT ![r] = x]
    BY <1>3 DEF PollStalled
  <2>3. ChildOK' /\ SameCounts
    BY <1>3, <1>b DEF PollStalled
  <2>4. RunnerInv'
    BY <1>0, <2>1, <2>2, <2>3, RunnerMoves
  <2>. QED BY <1>3, <1>a, <1>c, <2>3, <2>4 DEF PollStalled
<1>4. CASE PollStallKill(r)
  BY <1>0, <1>4, <1>a, <1>b, <1>c, RunnerStays DEF PollStallKill
<1>5. CASE CheckpointSession(r)
  <2>1. meta' \in Meta
    BY <1>0, <1>5, FieldTypes DEF CheckpointSession
  <2>2. RunnerInv'
    BY <1>0, <1>5, RunnerStays DEF CheckpointSession, ROnly, SameCounts
  <2>. QED BY <1>5, <2>1, <2>2 DEF CheckpointSession, ROnly, TypeInv, ChildOK, RestOK, history
<1>6. CASE ChildSession(r)
  BY <1>0, <1>6, <1>a, <1>c, RunnerStays DEF ChildSession, ChildOK, SameCounts
<1>7. CASE ChildEnds(r)
  <2>1. ChildOK' /\ SameCounts
    BY <1>7, <1>c DEF ChildEnds, Ended, ChildOK, Child, SameCounts
  <2>. QED BY <1>0, <1>7, <1>a, <1>c, <2>1, RunnerStays DEF ChildEnds
<1>8. CASE ChildKilled(r)
  BY <1>0, <1>8, <1>a, <1>b, <1>c, RunnerStays DEF ChildKilled, Kill
<1>9. CASE RunnerCrash(r)
  <2>1. RunnerInv' /\ ChildOK'
    BY <1>0, <1>9, <1>c, RunnerExits DEF RunnerCrash, ROnly, SameCounts, ChildOK
  <2>. QED BY <1>9, <1>a, <1>c, <2>1 DEF RunnerCrash, ROnly
<1>. QED BY <1>2, <1>3, <1>4, <1>5, <1>6, <1>7, <1>8, <1>9 DEF Poll, ChildStep

\* A command moves on, or ends.
LEMMA CliMoves ==
  ASSUME cli \in [Clients -> Cli], NEW c \in Clients
  PROVE  /\ \A l \in CliLabels : CGoto(c, l) => cli' \in [Clients -> Cli]
         /\ \A x \in Results : Finish(c, x) => cli' \in [Clients -> Cli]
         /\ \A cmd \in AllCommands \cup {"none"}, x \in Results : Done(cmd, x) \in Cli
<1>1. ASSUME NEW l \in CliLabels PROVE [cli[c] EXCEPT !.pc = l] \in Cli
  BY DEF Cli
<1>2. \A cmd \in AllCommands \cup {"none"}, x \in Results : Done(cmd, x) \in Cli
  BY DEF Done, NoCli, Cli, CliLabels
<1>3. cli[c].cmd \in AllCommands \cup {"none"}
  BY DEF Cli
<1>4. \A l \in CliLabels : CGoto(c, l) => cli' \in [Clients -> Cli]
  BY <1>1 DEF CGoto
<1>5. \A x \in Results : Finish(c, x) => cli' \in [Clients -> Cli]
  BY <1>2, <1>3 DEF Finish
<1>. QED BY <1>2, <1>4, <1>5

\* The steps of agent run
LEMMA RunType ==
  ASSUME TypeInv, NEW c \in Clients, RunStep(c)
  PROVE  TypeInv'
<1>. USE DEF CAt
<1>0. /\ TypeOK /\ RunnerInv /\ ChildOK /\ meta \in Meta
      /\ cli \in [Clients -> Cli] /\ cli[c] \in Cli
  BY TypeInvOK DEF TypeInv
<1>a. ASSUME UNCHANGED <<exists, child, native, taken, cancelled, failed>>,
             accepted' = accepted \/ accepted' = Append(accepted, c),
             meta' \in Meta, cli' \in [Clients -> Cli], UNCHANGED runner
      PROVE  TypeInv'
  BY <1>0, <1>a, RunnerStays DEF TypeInv, RestOK, ChildOK, SameCounts
<1>b. \A l \in {"ack", "follow", "unclaimed", "report", "interrupt"} :
        CGoto(c, l) => cli' \in [Clients -> Cli]
  BY <1>0, CliMoves DEF CliLabels
<1>c. \A x \in {"ok", "busy", "unready", "failed"} :
        Finish(c, x) => cli' \in [Clients -> Cli]
  BY <1>0, CliMoves DEF Results
<1>1. CASE RunReads(c)
  <2>1. ASSUME NEW cmd \in {"run", "steer"}, NEW b \in BOOLEAN
        PROVE  [cli[c] EXCEPT !.cmd = cmd, !.pc = "accept", !.probe = b] \in Cli
    BY <1>0 DEF Cli, CliLabels, AllCommands
  <2>2. ASSUME NEW cmd \in {"run", "steer"}, NEW x \in {"notfound", "busy"}
        PROVE  Done(cmd, x) \in Cli
    BY <1>0, CliMoves DEF Results, AllCommands
  <2>3. ASSUME NEW cmd \in {"run", "steer"}, NEW x \in {"notfound", "busy"},
               cli' = [cli EXCEPT ![c] = Done(cmd, x)]
        PROVE  cli' \in [Clients -> Cli]
    BY <1>0, <2>2, <2>3
  <2>4. ASSUME NEW cmd \in {"run", "steer"}, NEW b \in BOOLEAN,
               cli' = [cli EXCEPT ![c].cmd = cmd, ![c].pc = "accept", ![c].probe = b]
        PROVE  cli' \in [Clients -> Cli]
    BY <1>0, <2>1, <2>4
  <2>. DEFINE probe(cmd) == /\ cmd = "steer" /\ InvocationAlive(meta.pid)
                            /\ meta.native_session_id \/ native
  <2>5. \A cmd : probe(cmd) \in BOOLEAN
    OBVIOUS
  <2>6. PICK cmd \in Commands \cap {"run", "steer"} :
          \/ \E x \in {"notfound", "busy"} : cli' = [cli EXCEPT ![c] = Done(cmd, x)]
          \/ cli' = [cli EXCEPT ![c].cmd = cmd, ![c].pc = "accept",
                                ![c].probe = probe(cmd)]
    BY <1>1 DEF RunReads
  <2>. HIDE DEF probe
  <2>7. cli' \in [Clients -> Cli]
    BY <2>3, <2>4, <2>5, <2>6
  <2>. QED BY <1>0, <1>1, <1>a, <2>7 DEF RunReads, COnly, history
<1>2. CASE RunRefused(c)
  BY <1>0, <1>2, <1>a, <1>c DEF RunRefused, COnly, history
<1>3. CASE RunPreempts(c)
  <2>1. QueueSteer(meta, c) \in Meta
    BY <1>0, RecordOperations
  <2>2. [QueueSteer(meta, c) EXCEPT !.intent = "steer",
                                    !.native_session_id = TRUE] \in Meta
    BY <2>1 DEF Meta, Intents
  <2>. QED BY <1>3, <1>a, <1>b, <2>2 DEF RunPreempts, Accepts
<1>4. CASE RunReuses(c)
  <2>1. QueueSteer(meta, c) \in Meta
    BY <1>0, RecordOperations
  <2>2. [meta EXCEPT !.pending_prompt = c, !.state = "running"] \in Meta
    BY <1>0 DEF Meta, Lifecycles
  <2>3. meta' \in Meta
    BY <1>4, <2>1, <2>2 DEF RunReuses
  <2>. QED BY <1>4, <1>a, <1>c, <2>3 DEF RunReuses, Accepts
<1>5. CASE RunRecovers(c)
  <2>. DEFINE m == IF Steers(c) THEN QueueSteer(meta, c) ELSE meta
              x == [cli[c] EXCEPT !.pc = "spawn", !.mode = meta.mode,
                                  !.recoverBusy = ~Steers(c)]
  <2>1. m \in Meta /\ meta.mode \in {"new", "continue"}
    BY <1>0, RecordOperations DEF Meta
  <2>2. Reserve(m, c, meta.mode) \in Meta
    BY <2>1, RecordOperations
  <2>3. x \in Cli
    BY <1>0, <2>1 DEF Cli, CliLabels
  <2>4. cli' = [cli EXCEPT ![c] = x] /\ meta' = Reserve(m, c, meta.mode)
    BY <1>5 DEF RunRecovers
  <2>5. cli' \in [Clients -> Cli]
    BY <1>0, <2>3, <2>4
  <2>6. /\ UNCHANGED <<exists, child, native, taken, cancelled, failed, runner>>
        /\ accepted' = accepted \/ accepted' = Append(accepted, c)
    BY <1>5 DEF RunRecovers, Accepts, history
  <2>. QED BY <1>a, <2>2, <2>4, <2>5, <2>6
<1>6. CASE RunBegins(c)
  <2>. DEFINE session == meta.native_session_id \/ (meta.state # "idle" /\ native)
              mode    == IF session THEN "continue" ELSE "new"
              x       == [cli[c] EXCEPT !.pc = "spawn", !.mode = mode]
              m       == Reserve(BeginInvocation(SetInactive(meta), c), c, mode)
  <2>1. session \in BOOLEAN /\ mode \in {"new", "continue"}
    BY <1>0 DEF Meta, TypeOK
  <2>2. /\ meta' = [m EXCEPT !.native_session_id = session]
        /\ cli' = [cli EXCEPT ![c] = x]
    BY <1>6 DEF RunBegins
  <2>. HIDE DEF session, mode
  <2>3. SetInactive(meta) \in Meta
    BY <1>0, RecordOperations
  <2>4. BeginInvocation(SetInactive(meta), c) \in Meta
    BY <2>3, RecordOperations
  <2>5. m \in Meta
    BY <2>1, <2>4, RecordOperations
  <2>6. meta' \in Meta
    BY <2>1, <2>2, <2>5, FieldTypes
  <2>7. x \in Cli
    BY <1>0, <2>1 DEF Cli, CliLabels
  <2>8. cli' \in [Clients -> Cli]
    BY <1>0, <2>2, <2>7
  <2>. QED BY <1>6, <1>a, <2>6, <2>8 DEF RunBegins, Accepts
<1>7. CASE SpawnRunner(c)
  <2>. DEFINE b == cli[c].mode = "continue"
              x == [runner[c] EXCEPT !.pc = "claim", !.isContinue = b]
  <2>0. b \in BOOLEAN /\ runner[c] \in Runner
    BY <1>0 DEF RunnerInv
  <2>2. runner' = [runner EXCEPT ![c] = x] /\ SameCounts
    BY <1>7 DEF SpawnRunner, SameCounts
  <2>. HIDE DEF b
  <2>1. x \in Runner /\ x.pc = "claim"
    BY <2>0 DEF Runner, RunnerLabels
  <2>3. RunnerInv'
    BY <1>0, <2>1, <2>2, RunnerMoves
  <2>4. cli' \in [Clients -> Cli]
    BY <1>7, <1>b, <1>c DEF SpawnRunner
  <2>. QED BY <1>0, <1>7, <2>3, <2>4 DEF SpawnRunner, TypeInv, RestOK, ChildOK, history
<1>8. CASE AwaitClaim(c) \/ ReportRunner(c)
  <2>1. cli' \in [Clients -> Cli]
    BY <1>8, <1>b, <1>c DEF AwaitClaim, ReportRunner, Acknowledge
  <2>. QED BY <1>0, <1>8, <1>a, <2>1 DEF AwaitClaim, ReportRunner, COnly, history
<1>9. CASE FailUnclaimedRunner(c)
  <2>1. meta' \in Meta /\ failed' \in SUBSET Clients
    BY <1>0, <1>9, RecordFailureType DEF FailUnclaimedRunner, TypeOK
  <2>2. cli' \in [Clients -> Cli]
    BY <1>9, <1>b, <1>c DEF FailUnclaimedRunner
  <2>3. RunnerInv' /\ ChildOK'
    BY <1>0, <1>9, RunnerStays DEF FailUnclaimedRunner, ChildOK, SameCounts
  <2>. QED BY <1>9, <2>1, <2>2, <2>3 DEF FailUnclaimedRunner, TypeInv, RestOK
<1>10. CASE Follow(c)
  BY <1>0, <1>10, <1>a, <1>c DEF Follow, COnly, history
<1>11. CASE Interrupt(c)
  <2>1. ChildOK' /\ SameCounts
    BY <1>0, <1>11, SignalledType, InvocationType DEF Interrupt, ChildOK, SameCounts
  <2>2. RunnerInv'
    BY <1>0, <1>11, <2>1, RunnerStays DEF Interrupt
  <2>. QED BY <1>11, <1>c, <2>1, <2>2 DEF Interrupt, TypeInv, RestOK, history
<1>. QED BY <1>1, <1>2, <1>3, <1>4, <1>5, <1>6, <1>7, <1>8, <1>9, <1>10, <1>11
         DEF RunStep

\* The steps of agent stop and kill, which delete goes through as well
LEMMA StopType ==
  ASSUME TypeInv, NEW c \in Clients, StopStep(c)
  PROVE  TypeInv'
<1>. USE DEF CAt
<1>0. /\ TypeOK /\ RunnerInv /\ ChildOK /\ meta \in Meta
      /\ cli \in [Clients -> Cli] /\ cli[c] \in Cli
  BY TypeInvOK DEF TypeInv
<1>a. ASSUME UNCHANGED <<exists, child, native, accepted, taken, failed>>,
             cancelled' \in SUBSET Clients,
             meta' \in Meta, cli' \in [Clients -> Cli], UNCHANGED runner
      PROVE  TypeInv'
  BY <1>0, <1>a, RunnerStays DEF TypeInv, RestOK, ChildOK, SameCounts
<1>b. \A l \in {"cancel", "mark", "signal", "await", "reap", "reapDeleted", "remove"} :
        CGoto(c, l) => cli' \in [Clients -> Cli]
  BY <1>0, CliMoves DEF CliLabels
<1>c. \A x \in {"ok", "already", "notfound"} : Finish(c, x) => cli' \in [Clients -> Cli]
  BY <1>0, CliMoves DEF Results
<1>d. \A x \in {"ok", "already", "notfound"} :
        StopReturns(c, x) => cli' \in [Clients -> Cli]
  BY <1>b, <1>c DEF StopReturns
<1>e. StopCommand(c) \in {"stop", "kill"} /\ cancelled \in SUBSET Clients
  BY DEF StopCommand, TypeInv, RestOK
<1>f. Cancels => cancelled' \in SUBSET Clients
  BY <1>0, <1>e, OwedType DEF Cancels
<1>1. CASE StopReads(c)
  <2>1. ASSUME NEW e \in [Clients -> Cli], StopLooks(c, e)
        PROVE  cli' \in [Clients -> Cli]
    <3>1. /\ Done(e[c].cmd, "notfound") \in Cli /\ Done(e[c].cmd, "already") \in Cli
      BY <1>0, CliMoves DEF Results, Cli
    <3>2. \A l \in {"mark", "cancel", "reapDeleted"} : [e[c] EXCEPT !.pc = l] \in Cli
      BY DEF Cli, CliLabels
    <3>. QED BY <2>1, <3>1, <3>2 DEF StopLooks
  <2>2. \A cmd \in {"stop", "kill"} : [cli EXCEPT ![c].cmd = cmd] \in [Clients -> Cli]
    <3>1. \A cmd \in {"stop", "kill"} : [cli[c] EXCEPT !.cmd = cmd] \in Cli
      BY <1>0 DEF Cli, AllCommands
    <3>. QED BY <1>0, <3>1
  <2>3. cli' \in [Clients -> Cli]
    BY <1>0, <1>1, <2>1, <2>2 DEF StopReads
  <2>. QED BY <1>0, <1>1, <1>a, <1>e, <2>3 DEF StopReads, COnly, history
<1>2. CASE CancelReserved(c)
  <2>1. BeginStopLike(meta, StopCommand(c)) \in Meta
    BY <1>0, <1>e, RecordOperations
  <2>2. meta' \in Meta
    BY <1>0, <1>2, <1>e, <2>1, StoppedType, UpdateType DEF CancelReserved
  <2>. QED BY <1>2, <1>a, <1>d, <1>f, <2>2 DEF CancelReserved
<1>3. CASE MarkStop(c)
  <2>1. BeginStopLike(meta, StopCommand(c)) \in Meta
    BY <1>0, <1>e, RecordOperations
  <2>. DEFINE x == [cli[c] EXCEPT !.pc = "signal", !.snap = meta.pid]
  <2>2. x \in Cli
    BY <1>0 DEF Cli, CliLabels, Meta
  <2>3. Finish(c, "notfound") \/ cli' = [cli EXCEPT ![c] = x]
    BY <1>3 DEF MarkStop
  <2>4. cli' \in [Clients -> Cli]
    BY <1>0, <1>c, <2>2, <2>3
  <2>. QED BY <1>0, <1>3, <1>a, <1>e, <1>f, <2>1, <2>4 DEF MarkStop
<1>4. CASE StopSignals(c) \/ StopEscalates(c)
  <2>1. ChildOK' /\ SameCounts
    BY <1>0, <1>4, SignalledType, InvocationType
    DEF StopSignals, StopEscalates, ChildOK, SameCounts
  <2>2. RunnerInv'
    BY <1>0, <1>4, <2>1, RunnerStays DEF StopSignals, StopEscalates
  <2>3. cli' \in [Clients -> Cli]
    BY <1>0, <1>4, <1>b DEF StopSignals, StopEscalates
  <2>. QED BY <1>4, <2>1, <2>2, <2>3
           DEF StopSignals, StopEscalates, TypeInv, RestOK, history
<1>5. CASE StopSeesGone(c)
  <2>. DEFINE x == [cli[c] EXCEPT !.pc = "settle", !.snap = None]
  <2>1. x \in Cli
    BY <1>0 DEF Cli, CliLabels
  <2>2. cli' = [cli EXCEPT ![c] = x]
    BY <1>5 DEF StopSeesGone
  <2>3. cli' \in [Clients -> Cli]
    BY <1>0, <2>1, <2>2
  <2>. QED BY <1>0, <1>5, <1>a, <1>e, <2>3 DEF StopSeesGone, COnly, history
<1>6. CASE SettleStop(c)
  <2>1. meta' \in Meta
    BY <1>0, <1>6, <1>e, StoppedType, UpdateType DEF SettleStop
  <2>. QED BY <1>6, <1>a, <1>b, <1>e, <2>1 DEF SettleStop, history
<1>7. CASE SeesRunnerGone(c)
  BY <1>0, <1>7, <1>a, <1>b, <1>d, <1>e DEF SeesRunnerGone, COnly, history
<1>8. CASE SignalsRunner(c)
  <2>1. meta.runner_pid \in Clients
    BY <1>0, <1>8 DEF SignalsRunner, RunnerGone, RunnerAlive, Meta
  <2>2. RunnerInv' /\ ChildOK'
    BY <1>0, <1>8, <2>1, RunnerExits DEF SignalsRunner, ChildOK, SameCounts
  <2>. QED BY <1>8, <2>2 DEF SignalsRunner, TypeInv, RestOK, history
<1>. QED BY <1>1, <1>2, <1>3, <1>4, <1>5, <1>6, <1>7, <1>8 DEF StopStep

\* The steps of agent delete and clean, and a command that is killed
LEMMA RemovalType ==
  ASSUME TypeInv, NEW c \in Clients, RemovalStep(c) \/ CliCrash(c)
  PROVE  TypeInv'
<1>. USE DEF CAt
<1>0. /\ TypeOK /\ RunnerInv /\ ChildOK /\ meta \in Meta
      /\ cli \in [Clients -> Cli] /\ cli[c] \in Cli
  BY TypeInvOK DEF TypeInv
<1>a. ASSUME exists' \in BOOLEAN, cancelled' \in SUBSET Clients,
             UNCHANGED <<child, native, accepted, taken, failed, runner>>,
             meta' \in Meta, cli' \in [Clients -> Cli]
      PROVE  TypeInv'
  BY <1>0, <1>a, RunnerStays DEF TypeInv, RestOK, ChildOK, SameCounts
<1>b. exists \in BOOLEAN /\ cancelled \in SUBSET Clients
  BY DEF TypeInv, RestOK
<1>c. [meta EXCEPT !.delete_pending = TRUE] \in Meta
  BY <1>0, FieldTypes
<1>1. CASE DeleteReads(c)
  <2>. DEFINE owns == \/ DerivesRunning(meta)
                      \/ InvocationAlive(meta.pid)
                      \/ meta.active_runner
                      \/ meta.pending_prompt # None
              x    == [cli[c] EXCEPT !.cmd = "delete", !.pc = "tombstone",
                                     !.ownsWork = owns]
  <2>1. owns \in BOOLEAN
    BY <1>0 DEF Meta
  <2>2. \/ cli' = [cli EXCEPT ![c] = Done("delete", "notfound")]
        \/ cli' = [cli EXCEPT ![c] = x]
    BY <1>1 DEF DeleteReads
  <2>. HIDE DEF owns
  <2>3. x \in Cli
    BY <1>0, <2>1 DEF Cli, CliLabels, AllCommands
  <2>4. Done("delete", "notfound") \in Cli
    BY <1>0, CliMoves DEF AllCommands, Results
  <2>5. cli' \in [Clients -> Cli]
    BY <1>0, <2>2, <2>3, <2>4
  <2>. QED BY <1>0, <1>1, <1>a, <1>b, <2>5 DEF DeleteReads, COnly, history
<1>2. CASE Tombstone(c)
  <2>1. cli' \in [Clients -> Cli]
    BY <1>0, <1>2, CliMoves DEF Tombstone, CliLabels, Results
  <2>. QED BY <1>0, <1>2, <1>a, <1>b, <1>c, <2>1, UpdateType
           DEF Tombstone, COnly, history
<1>3. CASE MarkExpired(c)
  <2>. DEFINE x == [cli[c] EXCEPT !.cmd = "clean", !.pc = "remove"]
  <2>1. x \in Cli
    BY <1>0 DEF Cli, CliLabels, AllCommands
  <2>2. cli' = [cli EXCEPT ![c] = x]
    BY <1>3 DEF MarkExpired
  <2>3. cli' \in [Clients -> Cli]
    BY <1>0, <2>1, <2>2
  <2>. QED BY <1>3, <1>a, <1>b, <1>c, <2>3 DEF MarkExpired, COnly, history
<1>4. CASE Remove(c)
  <2>1. <<>> \in Seq(Clients)
    OBVIOUS
  <2>2. IdleMeta \in Meta
    BY <2>1 DEF IdleMeta, Meta, Lifecycles, Intents
  <2>3. cli' \in [Clients -> Cli]
    BY <1>0, <1>4, CliMoves DEF Remove, Results
  <2>4. cancelled' \in SUBSET Clients
    BY <1>0, <1>4, <1>b, OwedType DEF Remove, Cancels
  <2>. QED BY <1>4, <1>a, <2>2, <2>3, <2>4 DEF Remove
<1>5. CASE CliCrash(c)
  <2>. DEFINE x == [NoCli EXCEPT !.cmd = cli[c].cmd, !.pc = "crashed"]
  <2>1. x \in Cli
    BY <1>0 DEF NoCli, Cli, CliLabels, Results
  <2>2. cli' = [cli EXCEPT ![c] = x]
    BY <1>5 DEF CliCrash
  <2>3. cli' \in [Clients -> Cli]
    BY <1>0, <2>1, <2>2
  <2>. QED BY <1>0, <1>5, <1>a, <1>b, <2>3 DEF CliCrash, COnly, history
<1>. QED BY <1>1, <1>2, <1>3, <1>4, <1>5 DEF RemovalStep

\* Every step of the specification keeps the types.
LEMMA TypeStep == TypeInv /\ [Next]_vars => TypeInv'
<1>. SUFFICES ASSUME TypeInv, [Next]_vars PROVE TypeInv'
  OBVIOUS
<1>0. TypeOK /\ RunnerInv /\ ChildOK /\ meta \in Meta
  BY TypeInvOK DEF TypeInv
<1>a. ASSUME UNCHANGED <<exists, runner, child, cli, native, accepted, taken, cancelled>>,
             meta' \in Meta, failed' \in SUBSET Clients
      PROVE  TypeInv'
  BY <1>0, <1>a, RunnerStays DEF TypeInv, RestOK, ChildOK, SameCounts
<1>b. failed \in SUBSET Clients
  BY DEF TypeInv, RestOK
<1>1. ASSUME NEW c \in Clients,
             \/ RunStep(c) \/ StopStep(c) \/ RemovalStep(c) \/ RunnerAct(c)
             \/ Poll(c) \/ ChildStep(c) \/ CliCrash(c) \/ RunnerCrash(c)
      PROVE  TypeInv'
  BY <1>1, RunType, StopType, RemovalType, RunnerType, ChildType
<1>2. CASE Reconcile
  BY <1>0, <1>2, <1>a, RecordFailureType DEF Reconcile
<1>3. CASE ReservationGraceEnds \/ StartWindowEnds
  <2>1. meta' \in Meta
    BY <1>0, <1>3, FieldTypes DEF ReservationGraceEnds, StartWindowEnds
  <2>. QED BY <1>3, <1>a, <1>b, <2>1 DEF ReservationGraceEnds, StartWindowEnds, history
<1>4. CASE UNCHANGED vars
  BY <1>0, <1>4, <1>a, <1>b DEF vars
<1>. QED BY <1>1, <1>2, <1>3, <1>4 DEF Next

\* The record, the processes around it and the history have their types, at
\* any number of clients and under any chances: every update of the record in
\* lifecycle.ts, agent.ts and runner.ts writes a record that validates.
THEOREM AgentTypeCorrect == Spec => []TypeOK
<1>. QED BY TypeInit, TypeStep, TypeInvOK, PTL DEF Spec

-----------------------------------------------------------------------------
(* The accepted prompts *)

\* A command that has not had its prompt accepted yet.
Early == {"idle", "accept"}

Distinct(seq) == \A i, j \in DOMAIN seq : seq[i] = seq[j] => i = j

\* The record and the histories keep one account of the prompts: those the
\* record owes are accepted, neither taken nor cancelled, and each is in it once;
\* no client has a prompt accepted twice; and a removed record owes nothing.
Ledger ==
  /\ Owed(meta) \subseteq Elements(accepted) \ (Elements(taken) \cup cancelled)
  /\ Distinct(meta.steer_queue)
  /\ meta.pending_prompt \notin Elements(meta.steer_queue)
  /\ Distinct(taken)
  /\ Elements(taken) \subseteq Elements(accepted)
  /\ cancelled \subseteq Elements(accepted)
  /\ \A c \in Elements(accepted) : cli[c].pc \notin Early
  /\ exists \/ meta = IdleMeta

\* What CancelledNotTaken and TombstoneFinal ask of one step.
StartsNoCancelled ==
  \A c \in cancelled : c \in Elements(taken') => c \in Elements(taken)
RespectsTombstone ==
  meta.delete_pending =>
    /\ accepted' = accepted /\ taken' = taken
    /\ meta'.pid \in {meta.pid, None}
    /\ exists' => meta'.delete_pending

\* A step that leaves the prompts where they are.
CliKept == \A c \in Clients : cli[c].pc \notin Early => cli'[c].pc \notin Early
Keeps(m) == /\ m.pending_prompt = meta.pending_prompt
            /\ m.steer_queue = meta.steer_queue
            /\ meta.delete_pending => m.delete_pending /\ m.pid \in {meta.pid, None}
Quiet == /\ UNCHANGED <<exists, accepted, taken, cancelled>>
         /\ exists \/ meta' = meta
         /\ Keeps(meta')
         /\ CliKept

\* The prompts reported as failed stay reported.
FailedKept == failed \subseteq failed'

\* The pending prompt may be replaced: there is none, or it has been reported.
Replaceable == meta.pending_prompt \in {None} \cup failed

\* A step drops no prompt, unless it is a run that begins a fresh invocation in
\* a record that still has a pending prompt ("Who is at work" says when not).
DropsNone == NothingLost /\ (\A c \in Clients : RunBegins(c) => Replaceable) => NothingLost'

\* What every step does to the account.
KeepsAccount == Ledger' /\ StartsNoCancelled /\ RespectsTombstone /\ DropsNone

-----------------------------------------------------------------------------
(* Sequences of prompts *)

\* The elements of a sequence with one more at its end.
LEMMA AppendElements ==
  ASSUME NEW S, NEW s \in Seq(S), NEW x \in S
  PROVE  /\ Elements(Append(s, x)) = Elements(s) \cup {x}
         /\ Distinct(s) /\ x \notin Elements(s) => Distinct(Append(s, x))
<1>1. /\ DOMAIN Append(s, x) = 1..(Len(s) + 1) /\ DOMAIN s = 1..Len(s)
      /\ \A i \in 1..Len(s) : Append(s, x)[i] = s[i]
      /\ Append(s, x)[Len(s) + 1] = x
      /\ Len(s) \in Nat
  OBVIOUS
<1>2. Elements(Append(s, x)) = Elements(s) \cup {x}
  BY <1>1 DEF Elements
<1>3. ASSUME Distinct(s), x \notin Elements(s),
             NEW i \in 1..(Len(s) + 1), NEW j \in 1..(Len(s) + 1),
             Append(s, x)[i] = Append(s, x)[j]
      PROVE  i = j
  BY <1>1, <1>3 DEF Distinct, Elements
<1>. QED BY <1>1, <1>2, <1>3 DEF Distinct

\* The elements of a sequence without its head.
LEMMA TailElements ==
  ASSUME NEW S, NEW s \in Seq(S), s # <<>>
  PROVE  /\ Elements(s) = Elements(Tail(s)) \cup {Head(s)}
         /\ Distinct(s) => Distinct(Tail(s)) /\ Head(s) \notin Elements(Tail(s))
<1>1. /\ Len(s) \in Nat \ {0} /\ DOMAIN s = 1..Len(s)
      /\ DOMAIN Tail(s) = 1..(Len(s) - 1)
      /\ \A i \in 1..(Len(s) - 1) : Tail(s)[i] = s[i + 1]
      /\ Head(s) = s[1]
  OBVIOUS
<1>2. \A i \in DOMAIN Tail(s) : i + 1 \in DOMAIN s /\ i + 1 # 1 /\ Tail(s)[i] = s[i + 1]
  BY <1>1
<1>3. \A i \in DOMAIN s : i = 1 \/ (i - 1 \in DOMAIN Tail(s) /\ Tail(s)[i - 1] = s[i])
  BY <1>1
<1>4. Elements(s) \subseteq Elements(Tail(s)) \cup {Head(s)}
  BY <1>1, <1>3 DEF Elements
<1>5. Elements(Tail(s)) \cup {Head(s)} \subseteq Elements(s)
  BY <1>1, <1>2 DEF Elements
<1>6. ASSUME Distinct(s) PROVE Distinct(Tail(s)) /\ Head(s) \notin Elements(Tail(s))
  <2>1. \A i, j \in DOMAIN Tail(s) : i + 1 = j + 1 => i = j
    BY <1>1
  <2>. QED BY <1>1, <1>2, <1>6, <2>1 DEF Elements, Distinct
<1>. QED BY <1>4, <1>5, <1>6

\* The empty sequence has no elements.
LEMMA EmptyElements == Elements(<<>>) = {} /\ Distinct(<<>>)
BY DEF Elements, Distinct

\* What a record owes: the elements of its queue, and its pending prompt.
LEMMA OwedIs ==
  ASSUME NEW m \in Meta
  PROVE  Owed(m) = Elements(m.steer_queue) \cup ({m.pending_prompt} \ {None})
BY DEF Owed, Elements

\* No prompt vanishes in a step that moves the owed ones only within the record,
\* to a launch or to the cancelled, and accepts only into the record.
LEMMA Carried ==
  ASSUME NothingLost, FailedKept, cancelled \subseteq cancelled',
         Elements(taken) \subseteq Elements(taken'),
         Elements(accepted') \subseteq Elements(accepted) \cup Owed(meta'),
         Owed(meta) \subseteq Owed(meta') \cup Elements(taken') \cup cancelled' \cup failed
  PROVE  NothingLost'
BY DEF NothingLost, FailedKept

-----------------------------------------------------------------------------
(* Quiet steps *)

\* A step that leaves the prompts where they are keeps their account.
LEMMA QuietStep ==
  ASSUME TypeInv, Ledger, FailedKept, Quiet
  PROVE  KeepsAccount
<1>1. Owed(meta') = Owed(meta)
  BY DEF Quiet, Keeps, Owed
<1>2. Elements(accepted) \subseteq Clients
  BY DEF TypeInv, RestOK, Elements
<1>3. \A c \in Elements(accepted) : cli'[c].pc \notin Early
  BY <1>2 DEF Ledger, Quiet, CliKept
<1>4. DropsNone
  BY <1>1, Carried DEF DropsNone, Quiet
<1>5. Ledger'
  BY <1>1, <1>3 DEF Ledger, Quiet, Keeps
<1>. QED BY <1>4, <1>5 DEF KeepsAccount, Quiet, Keeps, StartsNoCancelled, RespectsTombstone

\* The operations that end or reserve an invocation move no prompt.
LEMMA KeepingOperations ==
  ASSUME NEW m \in Meta
  PROVE  /\ \A x \in {"clearexit", "failed", "stopped", "killed"} :
              LET n == FinalizeTerminal(m, x)
              IN  /\ n.pending_prompt = m.pending_prompt /\ n.steer_queue = m.steer_queue
                  /\ n.delete_pending = m.delete_pending /\ n.pid = m.pid
         /\ LET n == SetInactive(m)
            IN  /\ n.pending_prompt = m.pending_prompt /\ n.steer_queue = m.steer_queue
                /\ n.delete_pending = m.delete_pending /\ n.pid = m.pid
         /\ \A c \in Clients, mode \in {"new", "continue"} :
              LET n == Reserve(m, c, mode)
              IN  /\ n.pending_prompt = m.pending_prompt /\ n.steer_queue = m.steer_queue
                  /\ n.delete_pending = m.delete_pending /\ n.pid = m.pid
<1>1. \A x \in {"clearexit", "failed", "stopped", "killed"} :
        LET n == FinalizeTerminal(m, x)
        IN  /\ n.pending_prompt = m.pending_prompt /\ n.steer_queue = m.steer_queue
            /\ n.delete_pending = m.delete_pending /\ n.pid = m.pid
  BY DEF Meta, FinalizeTerminal
<1>2. LET n == SetInactive(m)
      IN  /\ n.pending_prompt = m.pending_prompt /\ n.steer_queue = m.steer_queue
          /\ n.delete_pending = m.delete_pending /\ n.pid = m.pid
  BY DEF Meta, SetInactive
<1>3. \A c \in Clients, mode \in {"new", "continue"} :
        LET n == Reserve(m, c, mode)
        IN  /\ n.pending_prompt = m.pending_prompt /\ n.steer_queue = m.steer_queue
            /\ n.delete_pending = m.delete_pending /\ n.pid = m.pid
  BY DEF Meta, Reserve
<1>. QED BY <1>1, <1>2, <1>3

\* A failure, and what stop and kill leave behind, move no prompt.
LEMMA EndingsKeep ==
  ASSUME TypeInv
  PROVE  /\ Keeps(SetInactive(meta))
         /\ RecordFailure => (exists \/ meta' = meta) /\ Keeps(meta')
         /\ \A intent \in {"stop", "kill"} :
              Keeps([SetInactive(FinalizeTerminal(meta, Outcome(intent)))
                       EXCEPT !.stop_reason = intent])
<1>0. meta \in Meta
  BY DEF TypeInv
<1>1. Keeps(meta) /\ Keeps(SetInactive(meta))
  BY <1>0, KeepingOperations DEF Keeps
<1>2. ASSUME NEW x \in {"clearexit", "failed", "stopped", "killed"}
      PROVE  /\ SetInactive(FinalizeTerminal(meta, x)) \in Meta
             /\ Keeps(SetInactive(FinalizeTerminal(meta, x)))
  <2>1. FinalizeTerminal(meta, x) \in Meta
    BY <1>0, RecordOperations DEF Lifecycles, Terminal
  <2>2. Keeps(FinalizeTerminal(meta, x))
    BY <1>0, KeepingOperations DEF Keeps
  <2>. QED BY <2>1, <2>2, KeepingOperations, RecordOperations DEF Keeps
<1>3. ASSUME NEW m \in Meta, NEW i \in Intents, Keeps(m)
      PROVE  Keeps([m EXCEPT !.stop_reason = i])
  BY <1>3 DEF Keeps, Meta
<1>4. \A intent \in {"stop", "kill"} :
        Keeps([SetInactive(FinalizeTerminal(meta, Outcome(intent)))
                 EXCEPT !.stop_reason = intent])
  BY <1>2, <1>3, RecordOperations DEF Outcome, Intents
<1>5. RecordFailure => (exists \/ meta' = meta) /\ Keeps(meta')
  BY <1>1, <1>2 DEF RecordFailure, Update
<1>. QED BY <1>1, <1>4, <1>5

-----------------------------------------------------------------------------
(* The steps *)

\* Most steps of a runner, and all of its poll and of the invocation, are quiet.
LEMMA RunnerQuiet ==
  ASSUME TypeInv, Ledger, NEW r \in Clients,
         \/ RunnerAct(r) /\ ~ClaimPendingPrompt(r) /\ ~ReclaimOrStop(r)
         \/ Poll(r) \/ ChildStep(r) \/ RunnerCrash(r)
  PROVE  Quiet
<1>0. meta \in Meta /\ Keeps(meta)
  BY DEF TypeInv, Keeps
<1>a. ASSUME UNCHANGED <<exists, cli, accepted, taken, cancelled>>,
             exists \/ meta' = meta, Keeps(meta')
      PROVE  Quiet
  BY <1>a DEF Quiet, CliKept
<1>b. ASSUME NEW m, Update(m), Keeps(m)
      PROVE  (exists \/ meta' = meta) /\ Keeps(meta')
  BY <1>0, <1>b DEF Update
<1>1. CASE ClaimRunner(r)
  <2>1. Keeps(meta') /\ (exists \/ meta' = meta)
    BY <1>0, <1>1 DEF ClaimRunner, Keeps, Meta
  <2>. QED BY <1>1, <1>a, <2>1 DEF ClaimRunner, ROnly, history
<1>2. CASE NextPrompt(r) \/ Gate(r) \/ LaunchRefused(r) \/ Reap(r) \/ PlanRecovery(r)
           \/ WaitForRecovery(r) \/ RunnerCrash(r)
  BY <1>0, <1>2, <1>a
  DEF NextPrompt, Gate, LaunchRefused, Reap, PlanRecovery, WaitForRecovery,
      RunnerCrash, ROnly, history
<1>3. CASE ReleaseUnclaimed(r)
  BY <1>3, <1>a, <1>b, EndingsKeep DEF ReleaseUnclaimed, ROnly, history
<1>4. CASE Spawn(r) \/ RejectSpawn(r) \/ RecordThrows(r) \/ Unidentified(r)
  BY <1>0, <1>4, <1>a DEF Spawn, RejectSpawn, RecordThrows, Unidentified, history
<1>5. CASE Abort(r) \/ PlanFails(r)
  BY <1>0, <1>5, <1>a, EndingsKeep DEF Abort, PlanFails
<1>6. CASE RecordSpawned(r)
  <2>1. Keeps(meta') /\ (exists \/ meta' = meta)
    BY <1>0, <1>6 DEF RecordSpawned, Keeps, Meta
  <2>. QED BY <1>6, <1>a, <2>1 DEF RecordSpawned, ROnly, history
<1>7. CASE ReleaseUnrecordedSpawn(r)
  <2>1. Keeps(meta') /\ (exists \/ meta' = meta)
    BY <1>0, <1>7, <1>b, EndingsKeep DEF ReleaseUnrecordedSpawn
  <2>. QED BY <1>7, <1>a, <2>1 DEF ReleaseUnrecordedSpawn
<1>8. CASE RememberFreshSession(r)
  <2>. DEFINE found == meta.native_session_id \/ (~runner[r].isContinue /\ native)
  <2>1. Keeps([meta EXCEPT !.native_session_id = found])
    BY <1>0 DEF Keeps, Meta
  <2>2. Keeps(meta') /\ (exists \/ meta' = meta)
    BY <1>8, <1>b, <2>1 DEF RememberFreshSession
  <2>. QED BY <1>8, <1>a, <2>2 DEF RememberFreshSession, ROnly, history
<1>9. CASE WaitStopped(r)
  <2>1. Keeps(meta') /\ (exists \/ meta' = meta)
    BY <1>0, <1>9, EndingsKeep DEF WaitStopped, Update
  <2>. QED BY <1>9, <1>a, <2>1 DEF WaitStopped, ROnly, history
<1>10. CASE WaitSteered(r)
  <2>1. Keeps([meta EXCEPT !.intent = "none", !.stop_reason = "steer"])
    BY <1>0 DEF Keeps, Meta
  <2>2. Keeps(meta') /\ (exists \/ meta' = meta)
    BY <1>0, <1>10, <2>1 DEF WaitSteered, Update
  <2>. QED BY <1>10, <1>a, <2>2 DEF WaitSteered, ROnly, history
<1>11. CASE FinalizeInvocation(r)
  <2>1. ASSUME NEW x \in {"clearexit", "failed", "stopped", "killed"}
        PROVE  Keeps([FinalizeTerminal(meta, x) EXCEPT !.stop_reason = meta.intent])
    <3>1. FinalizeTerminal(meta, x) \in Meta /\ Keeps(FinalizeTerminal(meta, x))
      BY <1>0, KeepingOperations, RecordOperations DEF Keeps, Lifecycles, Terminal
    <3>. HIDE DEF FinalizeTerminal
    <3>. QED BY <3>1 DEF Keeps, Meta
  <2>2. Keeps(meta') /\ (exists \/ meta' = meta)
    BY <1>0, <1>11, <2>1 DEF FinalizeInvocation, Update, Outcome
  <2>. QED BY <1>11, <1>a, <2>2 DEF FinalizeInvocation, history
<1>12. CASE CheckpointSession(r)
  <2>1. Keeps(meta') /\ (exists \/ meta' = meta)
    BY <1>0, <1>12 DEF CheckpointSession, Polls, Keeps, Meta
  <2>. QED BY <1>12, <1>a, <2>1 DEF CheckpointSession, ROnly, history
<1>13. CASE \/ PollKill(r) \/ PollControl(r) \/ PollEscalate(r) \/ PollStalled(r)
            \/ PollStallKill(r) \/ ChildStep(r)
  BY <1>0, <1>13, <1>a
  DEF PollKill, PollControl, PollEscalate, PollStalled, PollStallKill,
      SignalFromPoll, ChildStep, ChildSession, ChildEnds, ChildKilled, history
<1>. QED BY <1>1, <1>2, <1>3, <1>4, <1>5, <1>6, <1>7, <1>8, <1>9, <1>10,
            <1>11, <1>12, <1>13 DEF RunnerAct, Poll

\* claimPendingPrompt moves a prompt from the record to the launch.
LEMMA ClaimStep ==
  ASSUME TypeInv, Ledger, FailedKept, NEW r \in Clients, ClaimPendingPrompt(r)
  PROVE  KeepsAccount
<1>. DEFINE p == runner[r].prompt
<1>0. meta \in Meta /\ meta' \in Meta /\ taken \in Seq(Clients) /\ accepted' = accepted
      /\ cancelled' = cancelled /\ cli' = cli /\ exists' = exists
  <2>1. TypeInv'
    BY RunnerType DEF RunnerAct
  <2>. QED BY <2>1 DEF TypeInv, RestOK, ClaimPendingPrompt
<1>1. CASE meta' = meta /\ taken' = taken
  <2>1. Quiet
    BY <1>0, <1>1 DEF Quiet, Keeps, CliKept
  <2>. QED BY <2>1, QuietStep
<1>2. CASE /\ exists /\ ~meta.delete_pending /\ meta.pending_prompt = p
           /\ meta' = [meta EXCEPT !.pending_prompt = None]
           /\ taken' = Append(taken, p)
           /\ p \in Clients
  <2>1. /\ p \in Elements(accepted) /\ p \notin Elements(taken) /\ p \notin cancelled
        /\ p \notin Elements(meta.steer_queue)
    <3>1. p \in Owed(meta)
      BY <1>0, <1>2, OwedIs, LifecycleAssumption
    <3>. QED BY <1>2, <3>1 DEF Ledger
  <2>2. Elements(taken') = Elements(taken) \cup {p} /\ Distinct(taken')
    BY <1>0, <1>2, <2>1, AppendElements DEF Ledger
  <2>3. meta'.steer_queue = meta.steer_queue /\ meta'.pending_prompt = None
        /\ meta'.pid = meta.pid
    BY <1>0, <1>2 DEF Meta
  <2>4. Owed(meta') = Elements(meta.steer_queue)
    BY <1>0, <2>3, OwedIs
  <2>5. /\ Owed(meta') \subseteq Owed(meta) \ {p}
        /\ Owed(meta) \subseteq Owed(meta') \cup {p}
    BY <1>0, <1>2, <2>1, <2>4, OwedIs
  <2>6. None \notin Elements(meta'.steer_queue)
    BY <1>0, LifecycleAssumption DEF Meta, Elements
  <2>7. DropsNone
    BY <1>0, <2>2, <2>5, Carried DEF DropsNone
  <2>8. Ledger'
    BY <1>0, <1>2, <2>1, <2>2, <2>3, <2>5, <2>6 DEF Ledger
  <2>. QED BY <1>2, <2>1, <2>2, <2>7, <2>8 DEF KeepsAccount, StartsNoCancelled, RespectsTombstone
<1>3. RAt(r, "take") /\ (RAt(r, "take") => p \in Clients)
  BY DEF ClaimPendingPrompt, TypeInv, RunnerInv, RAt
<1>. QED BY <1>1, <1>2, <1>3 DEF ClaimPendingPrompt

\* reclaimOrStop moves a prompt from the queue to the front, or none.
LEMMA ReclaimStep ==
  ASSUME TypeInv, Ledger, FailedKept, NEW r \in Clients, ReclaimOrStop(r)
  PROVE  KeepsAccount
<1>0. meta \in Meta /\ accepted' = accepted /\ taken' = taken
      /\ cancelled' = cancelled /\ cli' = cli /\ exists' = exists
  BY DEF TypeInv, ReclaimOrStop, ROnly, history
<1>1. CASE exists \/ meta' = meta
  <2>1. CASE Keeps(meta')
    BY <1>0, <1>1, <2>1, QuietStep DEF Quiet, CliKept
  <2>2. CASE /\ meta.pending_prompt = None /\ meta.steer_queue # <<>> /\ exists
             /\ meta' = [PopSteerIntoPending(meta) EXCEPT !.active_runner = TRUE]
    <3>. DEFINE q == meta.steer_queue
    <3>1. q \in Seq(Clients)
      BY <1>0 DEF Meta
    <3>2. /\ Elements(q) = Elements(Tail(q)) \cup {Head(q)}
          /\ Distinct(Tail(q)) /\ Head(q) \notin Elements(Tail(q))
      BY <2>2, <3>1, TailElements DEF Ledger
    <3>3. /\ meta'.steer_queue = Tail(q) /\ meta'.pending_prompt = Head(q)
          /\ meta'.delete_pending = meta.delete_pending /\ meta'.pid = None
      BY <1>0, <2>2 DEF Meta, PopSteerIntoPending, BeginInvocation
    <3>4. PopSteerIntoPending(meta) \in Meta
      BY <1>0, <2>2, PopType
    <3>5. meta' \in Meta
      BY <2>2, <3>4, FieldTypes
    <3>6. Owed(meta') = Owed(meta)
      <4>1. Head(q) # None
        BY <3>1, <3>2, LifecycleAssumption DEF Elements
      <4>. QED BY <1>0, <2>2, <3>2, <3>3, <3>5, <4>1, OwedIs
    <3>7. Ledger'
      BY <1>0, <2>2, <3>2, <3>3, <3>6 DEF Ledger
    <3>8. DropsNone
      BY <1>0, <3>6, Carried DEF DropsNone
    <3>. QED BY <1>0, <3>3, <3>7, <3>8 DEF KeepsAccount, StartsNoCancelled, RespectsTombstone
  <2>3. Keeps([meta EXCEPT !.active_runner = TRUE]) /\ Keeps(meta)
    BY <1>0 DEF Keeps, Meta
  <2>. QED BY <1>0, <2>1, <2>2, <2>3, EndingsKeep DEF ReclaimOrStop, Update
<1>. QED BY <1>1 DEF ReclaimOrStop, Update

\* A command that moves on does not go back to before its acceptance.
LEMMA CliSteps ==
  ASSUME TypeInv, NEW c \in Clients
  PROVE  /\ \A l \in CliLabels \ Early : CGoto(c, l) => CliKept
         /\ \A x : Finish(c, x) => CliKept
         /\ \A x \in Cli : cli' = [cli EXCEPT ![c] = x] =>
              /\ cli[c].pc \in Early \/ x.pc \notin Early => CliKept
              /\ cli'[c] = x
<1>0. cli \in [Clients -> Cli]
  BY DEF TypeInv
<1>1. ASSUME NEW l \in CliLabels \ Early, CGoto(c, l) PROVE CliKept
  BY <1>0, <1>1 DEF CGoto, CliKept, Cli
<1>2. ASSUME NEW x, Finish(c, x) PROVE CliKept
  <2>1. Done(cli[c].cmd, x).pc = "done"
    BY DEF Done, NoCli
  <2>. QED BY <1>0, <1>2, <2>1 DEF Finish, CliKept, Early
<1>3. ASSUME NEW x \in Cli, cli' = [cli EXCEPT ![c] = x]
      PROVE  /\ cli[c].pc \in Early \/ x.pc \notin Early => CliKept
             /\ cli'[c] = x
  BY <1>0, <1>3 DEF CliKept
<1>. QED BY <1>1, <1>2, <1>3

\* An accepted prompt is new to the account: at the end of the queue, or as the
\* pending prompt.
LEMMA AcceptStep ==
  ASSUME TypeInv, Ledger, FailedKept, NEW c \in Clients, Accepting(c), meta' \in Meta,
         accepted' = Append(accepted, c), UNCHANGED <<exists, taken, cancelled>>,
         CliKept, cli'[c].pc \notin Early,
         \/ /\ meta'.steer_queue = Append(meta.steer_queue, c)
            /\ meta'.pending_prompt = meta.pending_prompt
         \/ /\ meta'.steer_queue = meta.steer_queue
            /\ meta'.pending_prompt = c
            /\ Replaceable \/ RunBegins(c)
  PROVE  KeepsAccount
<1>0. meta \in Meta /\ accepted \in Seq(Clients) /\ meta.steer_queue \in Seq(Clients)
  BY DEF TypeInv, RestOK, Meta
<1>1. c \notin Elements(accepted)
  BY DEF Ledger, Accepting, CAt, Early
<1>2. /\ Elements(accepted') = Elements(accepted) \cup {c}
      /\ Elements(accepted) \subseteq Clients
  BY <1>0, AppendElements DEF Elements
<1>3. c \notin Owed(meta) /\ c \notin Elements(taken) /\ c \notin cancelled
  BY <1>1 DEF Ledger
<1>4. /\ c # None /\ c \notin Elements(meta.steer_queue) /\ c # meta.pending_prompt
      /\ None \notin Elements(meta.steer_queue)
  BY <1>0, <1>3, OwedIs, LifecycleAssumption DEF Elements
<1>5. /\ Owed(meta') \subseteq Owed(meta) \cup {c}
      /\ c \in Owed(meta')
      /\ Owed(meta) \subseteq Owed(meta') \cup {meta.pending_prompt}
      /\ meta'.pending_prompt # c => Owed(meta) \subseteq Owed(meta')
      /\ Distinct(meta'.steer_queue)
      /\ meta'.pending_prompt \notin Elements(meta'.steer_queue)
  <2>1. /\ Elements(Append(meta.steer_queue, c)) = Elements(meta.steer_queue) \cup {c}
        /\ Distinct(Append(meta.steer_queue, c))
    BY <1>0, <1>4, AppendElements DEF Ledger
  <2>2. /\ Owed(meta) = Elements(meta.steer_queue) \cup ({meta.pending_prompt} \ {None})
        /\ Owed(meta') = Elements(meta'.steer_queue) \cup ({meta'.pending_prompt} \ {None})
    BY <1>0, OwedIs
  <2>3. CASE /\ meta'.steer_queue = Append(meta.steer_queue, c)
             /\ meta'.pending_prompt = meta.pending_prompt
    BY <1>4, <2>1, <2>2, <2>3 DEF Ledger
  <2>4. CASE /\ meta'.steer_queue = meta.steer_queue
             /\ meta'.pending_prompt = c
    BY <1>4, <2>2, <2>4 DEF Ledger
  <2>. QED BY <2>3, <2>4
<1>6. Owed(meta') \subseteq Elements(accepted') \ (Elements(taken') \cup cancelled')
  BY <1>2, <1>3, <1>5 DEF Ledger
<1>7. \A d \in Elements(accepted') : cli'[d].pc \notin Early
  BY <1>2 DEF Ledger, CliKept
<1>8. DropsNone
  <2>. SUFFICES ASSUME NothingLost, \A d \in Clients : RunBegins(d) => Replaceable
                PROVE  NothingLost'
    BY DEF DropsNone
  <2>1. None \notin Owed(meta)
    BY <1>0, <1>4, OwedIs
  <2>2. Replaceable \/ meta'.pending_prompt # c
    BY <1>4
  <2>3. Owed(meta) \subseteq Owed(meta') \cup failed
    BY <1>5, <2>1, <2>2 DEF Replaceable
  <2>. QED BY <1>2, <1>5, <2>3, Carried
<1>9. Ledger'
  BY <1>2, <1>5, <1>6, <1>7 DEF Ledger, Accepting
<1>. QED BY <1>8, <1>9 DEF KeepsAccount, StartsNoCancelled, RespectsTombstone, Accepting

\* A control empties the record, and its prompts are cancelled.
LEMMA CancelStep ==
  ASSUME TypeInv, Ledger, FailedKept, Cancels, meta' \in Meta, UNCHANGED <<accepted, taken>>,
         meta'.steer_queue = <<>>, meta'.pending_prompt = None, CliKept,
         exists' \/ meta' = IdleMeta,
         meta.delete_pending => /\ meta'.pid \in {meta.pid, None}
                                /\ exists' => meta'.delete_pending
  PROVE  KeepsAccount
<1>1. Owed(meta') = {}
  BY OwedIs, EmptyElements
<1>2. Distinct(meta'.steer_queue) /\ Elements(meta'.steer_queue) = {}
  BY EmptyElements
<1>3. cancelled' \subseteq Elements(accepted)
  BY DEF Ledger, Cancels
<1>4. \A c \in Elements(accepted) : cli'[c].pc \notin Early
  BY DEF Ledger, CliKept, TypeInv, RestOK, Elements
<1>5. DropsNone
  BY <1>1, Carried DEF DropsNone, Cancels
<1>6. Ledger'
  BY <1>1, <1>2, <1>3, <1>4 DEF Ledger
<1>. QED BY <1>5, <1>6 DEF KeepsAccount, StartsNoCancelled, RespectsTombstone

\* The steps of agent run
LEMMA RunLedger ==
  ASSUME TypeInv, Ledger, FailedKept, NEW c \in Clients, RunStep(c)
  PROVE  KeepsAccount
<1>0. /\ meta \in Meta /\ meta' \in Meta /\ Keeps(meta)
      /\ cli \in [Clients -> Cli] /\ cli[c] \in Cli
  BY RunType DEF TypeInv, Keeps
<1>a. ASSUME UNCHANGED <<exists, accepted, taken, cancelled>>,
             exists \/ meta' = meta, Keeps(meta'), CliKept
      PROVE  KeepsAccount
  BY <1>a, QuietStep DEF Quiet
<1>b. \A l \in {"ack", "follow", "unclaimed", "report", "interrupt"} :
        CGoto(c, l) => CliKept /\ cli'[c].pc \notin Early
  <2>1. {"ack", "follow", "unclaimed", "report", "interrupt"} \subseteq CliLabels \ Early
    BY DEF CliLabels, Early
  <2>2. ASSUME NEW l, CGoto(c, l) PROVE cli'[c].pc = l
    BY <1>0, <2>2 DEF CGoto, Cli
  <2>. QED BY <2>1, <2>2, CliSteps
<1>c. \A x : Finish(c, x) => CliKept /\ cli'[c].pc \notin Early
  <2>1. \A x : Done(cli[c].cmd, x).pc = "done"
    BY DEF Done, NoCli
  <2>. QED BY <1>0, <2>1, CliSteps DEF Finish, Early
<1>1. CASE RunReads(c)
  <2>1. cli[c].pc \in Early /\ \A d \in Clients \ {c} : cli'[d] = cli[d]
    BY <1>0, <1>1 DEF RunReads, CAt, Early
  <2>2. CliKept
    BY <2>1 DEF CliKept
  <2>. QED BY <1>0, <1>1, <1>a, <2>2 DEF RunReads, COnly, history
<1>2. CASE RunRefused(c)
  BY <1>0, <1>2, <1>a, <1>c DEF RunRefused, COnly, history
<1>3. CASE RunPreempts(c)
  <2>1. /\ meta'.steer_queue = Append(meta.steer_queue, c)
        /\ meta'.pending_prompt = meta.pending_prompt
    BY <1>0, <1>3 DEF RunPreempts, QueueSteer, Meta
  <2>. QED BY <1>0, <1>3, <1>b, <2>1, AcceptStep DEF RunPreempts, Accepts
<1>4. CASE RunReuses(c)
  <2>1. \/ /\ meta'.steer_queue = Append(meta.steer_queue, c)
           /\ meta'.pending_prompt = meta.pending_prompt
        \/ /\ meta'.steer_queue = meta.steer_queue
           /\ meta'.pending_prompt = c
           /\ Replaceable
    BY <1>0, <1>4 DEF RunReuses, QueueSteer, Meta, Replaceable
  <2>. QED BY <1>0, <1>4, <1>c, <2>1, AcceptStep DEF RunReuses, Accepts
<1>5. CASE RunRecovers(c)
  <2>. DEFINE m == IF Steers(c) THEN QueueSteer(meta, c) ELSE meta
              x == [cli[c] EXCEPT !.pc = "spawn", !.mode = meta.mode,
                                  !.recoverBusy = ~Steers(c)]
  <2>1. m \in Meta /\ meta.mode \in {"new", "continue"}
    BY <1>0, RecordOperations DEF Meta
  <2>2. cli' = [cli EXCEPT ![c] = x] /\ meta' = Reserve(m, c, meta.mode)
    BY <1>5 DEF RunRecovers
  <2>3a. x \in Cli
    BY <1>0, <2>1 DEF Cli, CliLabels
  <2>3. x \in Cli /\ x.pc = "spawn"
    BY <1>0, <2>3a DEF Cli
  <2>4. CliKept /\ cli'[c].pc \notin Early
    BY <2>2, <2>3, CliSteps DEF Early
  <2>5. /\ meta'.steer_queue = m.steer_queue
        /\ meta'.pending_prompt = m.pending_prompt
        /\ meta'.delete_pending = m.delete_pending
        /\ meta'.pid = m.pid
    BY <2>1, <2>2, KeepingOperations
  <2>6. CASE Steers(c)
    <3>1. /\ m.steer_queue = Append(meta.steer_queue, c)
          /\ m.pending_prompt = meta.pending_prompt
      BY <1>0, <2>6 DEF QueueSteer, Meta
    <3>. QED BY <1>0, <1>5, <2>4, <2>5, <2>6, <3>1, AcceptStep DEF RunRecovers, Accepts
  <2>7. CASE ~Steers(c)
    <3>1. Keeps(meta') /\ exists
      BY <1>0, <1>5, <2>5, <2>7 DEF Keeps, RunRecovers, Accepting
    <3>. QED BY <1>5, <1>a, <2>4, <2>7, <3>1 DEF RunRecovers, Accepts, history
  <2>. QED BY <2>6, <2>7
<1>6. CASE RunBegins(c)
  <2>. DEFINE session == meta.native_session_id \/ (meta.state # "idle" /\ native)
              mode    == IF session THEN "continue" ELSE "new"
              x       == [cli[c] EXCEPT !.pc = "spawn", !.mode = mode]
              begun   == BeginInvocation(SetInactive(meta), c)
              m       == Reserve(begun, c, mode)
  <2>1. session \in BOOLEAN /\ mode \in {"new", "continue"}
    BY <1>0 DEF Meta, TypeInv, RestOK
  <2>2. /\ meta' = [m EXCEPT !.native_session_id = session]
        /\ cli' = [cli EXCEPT ![c] = x]
    BY <1>6 DEF RunBegins
  <2>. HIDE DEF session, mode
  <2>3. SetInactive(meta) \in Meta /\ SetInactive(meta).steer_queue = meta.steer_queue
    BY <1>0, RecordOperations, KeepingOperations
  <2>4. /\ begun \in Meta
        /\ begun.steer_queue = meta.steer_queue /\ begun.pending_prompt = c
    <3>1. begun \in Meta
      BY <2>3, RecordOperations
    <3>. QED BY <2>3, <3>1 DEF BeginInvocation, Meta
  <2>5. /\ m \in Meta
        /\ m.steer_queue = meta.steer_queue /\ m.pending_prompt = c
    BY <2>1, <2>4, RecordOperations, KeepingOperations
  <2>. HIDE DEF m
  <2>6. meta'.steer_queue = meta.steer_queue /\ meta'.pending_prompt = c
    BY <2>2, <2>5 DEF Meta
  <2>7a. x \in Cli
    BY <1>0, <2>1 DEF Cli, CliLabels
  <2>7. x \in Cli /\ x.pc = "spawn"
    BY <1>0, <2>7a DEF Cli
  <2>8. CliKept /\ cli'[c].pc \notin Early
    BY <2>2, <2>7, CliSteps DEF Early
  <2>. QED BY <1>0, <1>6, <2>6, <2>8, AcceptStep DEF RunBegins, Accepts
<1>7. CASE \/ SpawnRunner(c) \/ AwaitClaim(c) \/ ReportRunner(c) \/ Follow(c)
           \/ Interrupt(c)
  <2>1. CliKept
    BY <1>7, <1>b, <1>c
    DEF SpawnRunner, AwaitClaim, ReportRunner, Follow, Interrupt, Acknowledge
  <2>. QED BY <1>0, <1>7, <1>a, <2>1
           DEF SpawnRunner, AwaitClaim, ReportRunner, Follow, Interrupt, COnly, history
<1>8. CASE FailUnclaimedRunner(c)
  <2>1. CliKept /\ Keeps(meta') /\ (exists \/ meta' = meta)
    BY <1>0, <1>8, <1>b, <1>c, EndingsKeep DEF FailUnclaimedRunner
  <2>. QED BY <1>8, <1>a, <2>1 DEF FailUnclaimedRunner
<1>. QED BY <1>1, <1>2, <1>3, <1>4, <1>5, <1>6, <1>7, <1>8 DEF RunStep

\* The steps of agent stop and kill, which delete goes through as well
LEMMA StopLedger ==
  ASSUME TypeInv, Ledger, FailedKept, NEW c \in Clients, StopStep(c)
  PROVE  KeepsAccount
<1>0. /\ meta \in Meta /\ meta' \in Meta /\ Keeps(meta)
      /\ cli \in [Clients -> Cli] /\ cli[c] \in Cli
      /\ StopCommand(c) \in {"stop", "kill"}
  BY StopType DEF TypeInv, Keeps, StopCommand
<1>a. ASSUME UNCHANGED <<exists, accepted, taken, cancelled>>,
             exists \/ meta' = meta, Keeps(meta'), CliKept
      PROVE  KeepsAccount
  BY <1>a, QuietStep DEF Quiet
<1>b. \A l \in {"await", "reap", "reapDeleted", "remove"} : CGoto(c, l) => CliKept
  <2>1. {"await", "reap", "reapDeleted", "remove"} \subseteq CliLabels \ Early
    BY DEF CliLabels, Early
  <2>. QED BY <2>1, CliSteps
<1>c. \A x : StopReturns(c, x) => CliKept
  BY <1>b, CliSteps DEF StopReturns
<1>1. CASE StopReads(c)
  <2>1. ASSUME CAt(c, "idle") PROVE CliKept
    <3>1. \A d \in Clients \ {c} : cli'[d] = cli[d]
      BY <1>0, <1>1, <2>1 DEF StopReads, StopLooks, CAt
    <3>. QED BY <2>1, <3>1 DEF CliKept, CAt, Early
  <2>2. ASSUME StopLooks(c, cli) PROVE CliKept
    <3>1. {"mark", "cancel", "reapDeleted"} \subseteq CliLabels \ Early
      BY DEF CliLabels, Early
    <3>. QED BY <2>2, <3>1, CliSteps DEF StopLooks, CGoto, Finish
  <2>3. CliKept
    BY <1>1, <2>1, <2>2 DEF StopReads
  <2>. QED BY <1>0, <1>1, <1>a, <2>3 DEF StopReads, COnly, history
<1>2. CASE CancelReserved(c)
  <2>. DEFINE i == StopCommand(c)
              b == BeginStopLike(meta, i)
              f == FinalizeTerminal(b, Outcome(i))
              s == SetInactive(f)
  <2>1. /\ b \in Meta /\ b.steer_queue = <<>> /\ b.pending_prompt = None
        /\ b.pid = meta.pid /\ b.delete_pending = meta.delete_pending
    <3>1. b \in Meta
      BY <1>0, RecordOperations
    <3>. QED BY <1>0, <3>1 DEF BeginStopLike, Meta
  <2>2. Outcome(i) \in {"stopped", "killed"} /\ i \in Intents
    BY <1>0 DEF Outcome, Intents
  <2>. HIDE DEF b
  <2>3. /\ f \in Meta /\ f.steer_queue = <<>> /\ f.pending_prompt = None
        /\ f.pid = meta.pid /\ f.delete_pending = meta.delete_pending
    <3>1. \A l \in {"clearexit", "failed", "stopped", "killed"} :
            /\ FinalizeTerminal(b, l) \in Meta
            /\ FinalizeTerminal(b, l).steer_queue = <<>>
            /\ FinalizeTerminal(b, l).pending_prompt = None
            /\ FinalizeTerminal(b, l).pid = meta.pid
            /\ FinalizeTerminal(b, l).delete_pending = meta.delete_pending
      BY <2>1, RecordOperations, KeepingOperations DEF Lifecycles, Terminal
    <3>. QED BY <2>2, <3>1
  <2>. HIDE DEF f
  <2>4. /\ s \in Meta /\ s.steer_queue = <<>> /\ s.pending_prompt = None
        /\ s.pid = meta.pid /\ s.delete_pending = meta.delete_pending
    BY <2>3, RecordOperations, KeepingOperations
  <2>5. meta' = IF exists THEN [s EXCEPT !.stop_reason = i] ELSE meta
    BY <1>2 DEF CancelReserved, Update, b, f
  <2>. HIDE DEF s, i
  <2>6. CASE exists
    <3>1. /\ meta'.steer_queue = <<>> /\ meta'.pending_prompt = None
          /\ meta'.pid = meta.pid /\ meta'.delete_pending = meta.delete_pending
      BY <2>2, <2>4, <2>5, <2>6 DEF Meta
    <3>. QED BY <1>0, <1>2, <1>c, <2>6, <3>1, CancelStep DEF CancelReserved
  <2>7. CASE ~exists
    <3>1. meta' = IdleMeta /\ meta = IdleMeta
      BY <2>5, <2>7 DEF Ledger
    <3>. QED BY <1>0, <1>2, <1>c, <3>1, CancelStep DEF CancelReserved, IdleMeta
  <2>. QED BY <2>6, <2>7
<1>3. CASE MarkStop(c)
  <2>. DEFINE x == [cli[c] EXCEPT !.pc = "signal", !.snap = meta.pid]
  <2>1. CASE exists
    <3>1. meta' = BeginStopLike(meta, StopCommand(c)) /\ cli' = [cli EXCEPT ![c] = x]
      BY <1>3, <2>1 DEF MarkStop
    <3>2. x \in Cli
      BY <1>0 DEF Cli, CliLabels, Meta
    <3>3. x.pc = "signal"
      BY <1>0, <3>2 DEF Cli
    <3>4. CliKept
      BY <3>1, <3>2, <3>3, CliSteps DEF Early
    <3>5. /\ meta'.steer_queue = <<>> /\ meta'.pending_prompt = None
          /\ meta'.pid = meta.pid /\ meta'.delete_pending = meta.delete_pending
      BY <1>0, <3>1 DEF BeginStopLike, Meta
    <3>. QED BY <1>0, <1>3, <2>1, <3>4, <3>5, CancelStep DEF MarkStop
  <2>2. CASE ~exists
    BY <1>0, <1>3, <1>a, <2>2, CliSteps DEF MarkStop
  <2>. QED BY <2>1, <2>2
<1>4. CASE StopSignals(c) \/ StopEscalates(c) \/ SignalsRunner(c)
  <2>1. CliKept
    BY <1>4, <1>b DEF StopSignals, StopEscalates, SignalsRunner, CliKept
  <2>. QED BY <1>0, <1>4, <1>a, <2>1 DEF StopSignals, StopEscalates, SignalsRunner, history
<1>5. CASE StopSeesGone(c)
  <2>. DEFINE x == [cli[c] EXCEPT !.pc = "settle", !.snap = None]
  <2>1. x \in Cli
    BY <1>0 DEF Cli, CliLabels
  <2>2. x.pc = "settle" /\ cli' = [cli EXCEPT ![c] = x]
    BY <1>0, <1>5, <2>1 DEF StopSeesGone, Cli
  <2>3. CliKept
    BY <2>1, <2>2, CliSteps DEF Early
  <2>. QED BY <1>0, <1>5, <1>a, <2>3 DEF StopSeesGone, COnly, history
<1>6. CASE SettleStop(c)
  <2>1. Keeps(meta') /\ (exists \/ meta' = meta)
    BY <1>0, <1>6, EndingsKeep DEF SettleStop, Update
  <2>. QED BY <1>6, <1>a, <1>b, <2>1 DEF SettleStop, history
<1>7. CASE SeesRunnerGone(c)
  <2>1. CliKept
    BY <1>7, <1>b, <1>c DEF SeesRunnerGone
  <2>. QED BY <1>0, <1>7, <1>a, <2>1 DEF SeesRunnerGone, COnly, history
<1>. QED BY <1>1, <1>2, <1>3, <1>4, <1>5, <1>6, <1>7 DEF StopStep

\* The steps of agent delete and clean, and a command that is killed
LEMMA RemovalLedger ==
  ASSUME TypeInv, Ledger, FailedKept, NEW c \in Clients, RemovalStep(c) \/ CliCrash(c)
  PROVE  KeepsAccount
<1>0. /\ meta \in Meta /\ meta' \in Meta /\ Keeps(meta)
      /\ cli \in [Clients -> Cli] /\ cli[c] \in Cli
  BY RemovalType DEF TypeInv, Keeps
<1>a. ASSUME UNCHANGED <<exists, accepted, taken, cancelled>>,
             exists \/ meta' = meta, Keeps(meta'), CliKept
      PROVE  KeepsAccount
  BY <1>a, QuietStep DEF Quiet
<1>b. \A l \in {"stopDeleted", "remove"} : CGoto(c, l) => CliKept
  <2>1. {"stopDeleted", "remove"} \subseteq CliLabels \ Early
    BY DEF CliLabels, Early
  <2>. QED BY <2>1, CliSteps
<1>c. ASSUME CAt(c, "idle"), \A d \in Clients \ {c} : cli'[d] = cli[d]
      PROVE  CliKept
  BY <1>c DEF CliKept, CAt, Early
<1>d. Keeps([meta EXCEPT !.delete_pending = TRUE])
  BY <1>0 DEF Keeps, Meta
<1>1. CASE DeleteReads(c)
  <2>1. CliKept
    BY <1>0, <1>1, <1>c DEF DeleteReads
  <2>. QED BY <1>0, <1>1, <1>a, <2>1 DEF DeleteReads, COnly, history
<1>2. CASE Tombstone(c)
  <2>1. CliKept
    BY <1>2, <1>b, CliSteps DEF Tombstone
  <2>2. Keeps(meta') /\ (exists \/ meta' = meta)
    BY <1>0, <1>2, <1>d DEF Tombstone, Update
  <2>. QED BY <1>2, <1>a, <2>1, <2>2 DEF Tombstone, COnly, history
<1>3. CASE MarkExpired(c)
  <2>1. CliKept
    BY <1>0, <1>3, <1>c DEF MarkExpired
  <2>. QED BY <1>3, <1>a, <1>d, <2>1 DEF MarkExpired, COnly, history
<1>4. CASE Remove(c)
  <2>1. CliKept
    BY <1>4, CliSteps DEF Remove
  <2>2. /\ meta'.steer_queue = <<>> /\ meta'.pending_prompt = None
        /\ meta'.pid = None
    BY <1>4 DEF Remove, IdleMeta
  <2>. QED BY <1>0, <1>4, <2>1, <2>2, CancelStep DEF Remove
<1>5. CASE CliCrash(c)
  <2>. DEFINE x == [NoCli EXCEPT !.cmd = cli[c].cmd, !.pc = "crashed"]
  <2>1. x \in Cli
    BY <1>0 DEF NoCli, Cli, CliLabels, Results
  <2>2. x.pc = "crashed" /\ cli' = [cli EXCEPT ![c] = x]
    BY <1>5 DEF CliCrash, NoCli
  <2>3. CliKept
    BY <2>1, <2>2, CliSteps DEF Early
  <2>. QED BY <1>0, <1>5, <1>a, <2>3 DEF CliCrash, COnly, history
<1>. QED BY <1>1, <1>2, <1>3, <1>4, <1>5 DEF RemovalStep

-----------------------------------------------------------------------------
(* The theorems *)

\* Nothing is accepted yet.
LEMMA LedgerInit == Init => Ledger
<1>. SUFFICES ASSUME Init PROVE Ledger
  OBVIOUS
<1>1. /\ meta.steer_queue = <<>> /\ meta.pending_prompt = None
      /\ taken = <<>> /\ accepted = <<>> /\ cancelled = {} /\ exists
  BY DEF Init, IdleMeta
<1>2. meta \in Meta
  BY TypeInit DEF TypeInv
<1>3. Owed(meta) = {}
  BY <1>1, <1>2, OwedIs, EmptyElements
<1>. QED BY <1>1, <1>3, EmptyElements DEF Ledger

\* Nothing takes back a report of failure.
LEMMA FailuresKept == [Next]_vars => FailedKept
<1>. SUFFICES ASSUME [Next]_vars PROVE failed \subseteq failed'
  BY DEF FailedKept
<1>1. ASSUME NEW c \in Clients, RunStep(c) PROVE failed \subseteq failed'
  BY <1>1
  DEF RunStep, RunReads, RunRefused, RunPreempts, RunReuses, RunRecovers, RunBegins,
      SpawnRunner, AwaitClaim, FailUnclaimedRunner, ReportRunner, Follow, Interrupt,
      COnly, Accepts, RecordFailure, history
<1>2. ASSUME NEW c \in Clients, StopStep(c) \/ RemovalStep(c) \/ CliCrash(c)
      PROVE  failed \subseteq failed'
  BY <1>2
  DEF StopStep, StopReads, CancelReserved, MarkStop, StopSignals, StopSeesGone,
      StopEscalates, SettleStop, SeesRunnerGone, SignalsRunner, RemovalStep, DeleteReads,
      Tombstone, MarkExpired, Remove, CliCrash, COnly, history
<1>3. ASSUME NEW r \in Clients, RunnerAct(r) PROVE failed \subseteq failed'
  BY <1>3
  DEF RunnerAct, ClaimRunner, NextPrompt, ClaimPendingPrompt, ReleaseUnclaimed, Gate,
      LaunchRefused, Spawn, Abort, RecordSpawned, RejectSpawn, RecordThrows,
      ReleaseUnrecordedSpawn, Unidentified, Reap, RememberFreshSession, PlanRecovery,
      PlanFails, WaitForRecovery, WaitStopped, WaitSteered, FinalizeInvocation,
      ReclaimOrStop, ROnly, RecordFailure, history
<1>4. ASSUME NEW r \in Clients, Poll(r) \/ ChildStep(r) \/ RunnerCrash(r)
      PROVE  failed \subseteq failed'
  BY <1>4
  DEF Poll, PollKill, PollControl, PollEscalate, PollStalled, PollStallKill,
      CheckpointSession, SignalFromPoll, ChildStep, ChildSession, ChildEnds, ChildKilled,
      RunnerCrash, ROnly, history
<1>5. CASE Reconcile \/ ReservationGraceEnds \/ StartWindowEnds \/ UNCHANGED vars
  BY <1>5 DEF Reconcile, ReservationGraceEnds, StartWindowEnds, RecordFailure, history, vars
<1>. QED BY <1>1, <1>2, <1>3, <1>4, <1>5 DEF Next

\* Every step keeps the account, starts nothing that was cancelled and nothing
\* after a tombstone.
LEMMA LedgerStep ==
  TypeInv /\ Ledger /\ [Next]_vars => KeepsAccount
<1>. SUFFICES ASSUME TypeInv, Ledger, [Next]_vars
              PROVE  KeepsAccount
  OBVIOUS
<1>0. meta \in Meta /\ Keeps(meta) /\ FailedKept
  BY FailuresKept DEF TypeInv, Keeps
<1>a. ASSUME UNCHANGED <<exists, cli, accepted, taken, cancelled>>,
             exists \/ meta' = meta, Keeps(meta')
      PROVE  KeepsAccount
  BY <1>0, <1>a, QuietStep DEF Quiet, CliKept
<1>1. ASSUME NEW c \in Clients, RunStep(c) \/ StopStep(c) \/ RemovalStep(c) \/ CliCrash(c)
      PROVE  KeepsAccount
  BY <1>0, <1>1, RunLedger, StopLedger, RemovalLedger
<1>2. ASSUME NEW r \in Clients, RunnerAct(r) \/ Poll(r) \/ ChildStep(r) \/ RunnerCrash(r)
      PROVE  KeepsAccount
  BY <1>0, <1>2, ClaimStep, ReclaimStep, RunnerQuiet, QuietStep
<1>3. CASE Reconcile
  BY <1>3, <1>a, EndingsKeep DEF Reconcile
<1>4. CASE ReservationGraceEnds \/ StartWindowEnds
  <2>1. Keeps(meta')
    BY <1>0, <1>4 DEF ReservationGraceEnds, StartWindowEnds, Keeps, Meta
  <2>. QED BY <1>4, <1>a, <2>1 DEF ReservationGraceEnds, StartWindowEnds, history
<1>5. CASE UNCHANGED vars
  BY <1>0, <1>5, <1>a DEF vars
<1>. QED BY <1>1, <1>2, <1>3, <1>4, <1>5 DEF Next

\* An accepted prompt is handed to a launch at most once, and no other prompt
\* is, for any number of clients, runners, crashes and recoveries: the update of
\* claimPendingPrompt that hands one over also takes it from the record, and
\* nothing puts it back.
THEOREM PromptTakenAtMostOnce == Spec => []TakenAtMostOnce
<1>1. Ledger => TakenAtMostOnce
  BY DEF Ledger, TakenAtMostOnce, Distinct
<1>. QED BY <1>1, TypeInit, TypeStep, LedgerInit, LedgerStep, PTL DEF Spec, KeepsAccount

\* A prompt that stop, kill or delete erased is never handed to a launch by
\* a runner that read the record before: claimPendingPrompt looks again.
THEOREM CancelledStaysUntaken == Spec => CancelledNotTaken
<1>1. TypeInv /\ Ledger /\ [Next]_vars =>
        [\A c \in cancelled : c \in Elements(taken') => c \in Elements(taken)]_vars
  BY LedgerStep DEF KeepsAccount, StartsNoCancelled
<1>. QED BY <1>1, TypeInit, TypeStep, LedgerInit, LedgerStep, PTL
         DEF Spec, KeepsAccount, CancelledNotTaken

\* After the tombstone of delete or clean no prompt is accepted or started and
\* no invocation is recorded until the directory goes: cmdRun, claimRunner,
\* claimPendingPrompt and recordSpawned all look for it, and nothing lifts it.
THEOREM TombstoneIsFinal == Spec => TombstoneFinal
<1>1. TypeInv /\ Ledger /\ [Next]_vars =>
        [meta.delete_pending =>
           /\ accepted' = accepted /\ taken' = taken
           /\ meta'.pid \in {meta.pid, None}
           /\ exists' => meta'.delete_pending]_vars
  BY LedgerStep DEF KeepsAccount, RespectsTombstone
<1>. QED BY <1>1, TypeInit, TypeStep, LedgerInit, LedgerStep, PTL
         DEF Spec, KeepsAccount, TombstoneFinal

-----------------------------------------------------------------------------
(* Who is at work *)

\* Nobody stops or kills the agent, other than to delete it.
Unstopped == Commands \cap {"stop", "kill"} = {}

\* The record may still be run: it is there, and it has no tombstone.
Open == exists /\ ~meta.delete_pending

\* The invocation the record names is alive.
Alive == InvocationAlive(meta.pid)

\* A runner is at work once it has claimed its reservation.
Holding == RunnerLabels \ {"unborn", "claim", "exited", "crashed"}
Holds(r) == runner[r].pc \in Holding

\* What a command does before it spawns its runner, and as a control.
Unspawning == {"idle", "accept", "spawn"}
Controls   == {"stopDeleted", "cancel", "mark", "signal", "await", "settle", "reap",
               "reapDeleted", "remove"}

\* The parts of the invariant.  A client that has spawned no runner has none;
\* controls come after the tombstone; the record names runners that claimed it.
Unspawned  == \A c \in Clients : cli[c].pc \in Unspawning => runner[c].pc = "unborn"
Controlled == \A c \in Clients : cli[c].pc \in Controls => ~Open
Published  == \A r \in Clients : meta.runner_pid = r => runner[r].pc \notin {"unborn", "claim"}

\* Until the tombstone no control is recorded, and the runner at work owns the
\* record, takes the prompt it has read and is refused nothing.
NoIntent  == Open => ~StopLike(meta)
OneOwner  == Open => \A r \in Clients : Holds(r) =>
                /\ meta.active_runner
                /\ meta.res = "claimed"
                /\ meta.runner_pid = r
Unrefused == Open => \A r \in Clients :
                /\ runner[r].pc \notin {"release", "reject", "waitStop"}
                /\ runner[r].pc = "take" => /\ meta.pending_prompt = runner[r].prompt
                                            /\ meta.pending_prompt # None

\* A prompt waits in a record that somebody owns, or has been reported.
Waiting == Open => \/ Replaceable
                   \/ meta.active_runner /\ meta.res # "absent"

\* A live invocation that the record names is watched by the runner at work, if
\* there is one; nothing is reserved beside it, and it is not written off.
Named     == exists /\ Alive => \A r \in Clients : Holds(r) =>
                meta.pid[1] = r /\ runner[r].pc = "watch"
Counted   == meta.pid # None => meta.pid[2] <= child[meta.pid[1]].n
Unstarted == exists /\ meta.res = "reserved" => ~Alive
Standing  == exists /\ Alive => meta.state \notin {"clearexit", "failed"}

CliPart    == Unspawned /\ Controlled /\ Published
RecordPart == NoIntent /\ OneOwner /\ Unrefused /\ Waiting
NamePart   == Named /\ Counted /\ Unstarted /\ Standing
Ownership  == CliPart /\ RecordPart /\ NamePart

-----------------------------------------------------------------------------
(* Steps that bring no new owner *)

\* What such a step may do to the record and the invocations.  It may end the
\* ownership of the record, or reserve it where nobody holds it.
RecordMoves ==
  /\ exists' => exists
  /\ Open' => Open
  /\ Alive' => Alive
  /\ \A c \in Clients : child[c].n <= child'[c].n
  /\ meta'.pid \in {meta.pid, None}
  /\ meta'.runner_pid \in {meta.runner_pid, None}
  /\ exists' /\ meta'.res = "reserved" => meta.res = "reserved" \/ ~Alive'
  /\ exists' /\ meta'.state \in {"clearexit", "failed"} =>
       meta.state \in {"clearexit", "failed"} \/ ~Alive
  /\ Open' => /\ StopLike(meta') => StopLike(meta)
              /\ \/ /\ meta'.active_runner = meta.active_runner
                    /\ meta'.res = meta.res
                    /\ meta'.runner_pid = meta.runner_pid
                 \/ \A r \in Clients : ~Holds(r)'
              /\ \/ Replaceable'
                 \/ meta'.active_runner /\ meta'.res # "absent"

\* A runner moves on: it has claimed, or not, as before; it does not leave a
\* live invocation; and what it takes is the pending prompt.
Moved(r) ==
  LET from == runner[r].pc
      to   == runner'[r].pc
  IN  /\ to \in {"unborn", "claim"} => from \in {"unborn", "claim"}
      /\ to \in Holding => from \in Holding
      /\ to \in {"release", "reject", "waitStop"} => ~Open'
      /\ to = "take" => /\ meta'.pending_prompt = runner'[r].prompt
                        /\ meta'.pending_prompt # None
                     \/ ~Open'
      /\ exists /\ Alive' /\ to \in Holding /\ from = "watch" => to = "watch"

\* A command moves on: it becomes a control only after the tombstone, and its
\* runner begins no earlier than its spawn.
CliMoved(c) ==
  /\ cli'[c].pc \in Controls => cli[c].pc \in Controls \/ ~Open'
  /\ cli'[c].pc \in Unspawning => /\ cli[c].pc \in Unspawning
                                  /\ runner[c].pc = "unborn" => runner'[c].pc = "unborn"

\* Such steps keep the invariant.
LEMMA OwnerKept ==
  ASSUME TypeInv, TypeInv', Ownership, RecordMoves,
         \A r \in Clients : Moved(r), \A c \in Clients : CliMoved(c)
  PROVE  Ownership'
<1>1. CliPart'
  <2>1. Unspawned'
    BY DEF Ownership, CliPart, Unspawned, CliMoved
  <2>2. Controlled'
    BY DEF Ownership, CliPart, Controlled, CliMoved, RecordMoves
  <2>3. Published'
    BY LifecycleAssumption DEF Ownership, CliPart, Published, Moved, RecordMoves
  <2>. QED BY <2>1, <2>2, <2>3 DEF CliPart
<1>2. RecordPart'
  <2>1. NoIntent'
    BY DEF RecordPart, NoIntent, Ownership, RecordMoves
  <2>2. OneOwner'
    BY DEF RecordPart, OneOwner, Ownership, Moved, Holds, RecordMoves
  <2>3. Unrefused'
    BY DEF RecordPart, Unrefused, Ownership, Moved
  <2>4. Waiting'
    BY DEF Waiting, RecordMoves
  <2>. QED BY <2>1, <2>2, <2>3, <2>4 DEF RecordPart
<1>3. NamePart'
  <2>0. Alive' => meta'.pid = meta.pid
    BY DEF RecordMoves, Alive, InvocationAlive
  <2>1. Named'
    BY <2>0 DEF NamePart, Named, Ownership, RecordMoves, Moved, Holds, Holding
  <2>2. Counted'
    <3>1. meta.pid # None => meta.pid[1] \in Clients /\ meta.pid[2] \in Nat
      BY InvocationType, TypeInvOK
    <3>2. \A c \in Clients : child[c].n \in Nat /\ child'[c].n \in Nat
      BY DEF TypeInv, ChildOK, Child
    <3>. QED BY <3>1, <3>2 DEF NamePart, Counted, Ownership, RecordMoves
  <2>3. Unstarted' /\ Standing'
    BY DEF NamePart, Unstarted, Standing, Ownership, RecordMoves
  <2>. QED BY <2>1, <2>2, <2>3 DEF NamePart
<1>. QED BY <1>1, <1>2, <1>3 DEF Ownership

\* A step that leaves the fields alone that the invariant is about.
SameRecord ==
  /\ exists' = exists
  /\ meta'.state = meta.state /\ meta'.active_runner = meta.active_runner
  /\ meta'.res = meta.res /\ meta'.intent = meta.intent
  /\ meta'.stop_reason = meta.stop_reason
  /\ meta'.delete_pending = meta.delete_pending
  /\ meta'.pid = meta.pid /\ meta'.runner_pid = meta.runner_pid
  /\ meta'.pending_prompt = meta.pending_prompt

\* A step that leaves the record as it was only moves processes.
LEMMA SameMoves ==
  ASSUME Ownership, FailedKept, SameRecord,
         Alive' => Alive, \A c \in Clients : child[c].n <= child'[c].n
  PROVE  RecordMoves
BY DEF SameRecord, RecordMoves, Ownership, RecordPart, Waiting, Open, Replaceable,
       FailedKept, StopLike

\* Invocations that do not change, or get a signal.
LEMMA SignalsOnly ==
  ASSUME TypeInv, meta'.pid \in {meta.pid, None},
         \/ child' = child
         \/ \E i \in (Clients \X Nat) \cup {None}, status \in {"term", "signalled"} :
               child' = Signalled(child, i, status)
  PROVE  (Alive' => Alive) /\ \A c \in Clients : child[c].n <= child'[c].n
<1>1. child \in [Clients -> Child] /\ TypeOK
  BY TypeInvOK DEF TypeInv, ChildOK
<1>2. \A c \in Clients : child[c].n \in Nat
  BY <1>1 DEF Child
<1>3. CASE child' = child
  BY <1>2, <1>3 DEF Alive, InvocationAlive
<1>4. ASSUME NEW i \in (Clients \X Nat) \cup {None}, NEW status \in {"term", "signalled"},
             child' = Signalled(child, i, status)
      PROVE  (Alive' => Alive) /\ \A c \in Clients : child[c].n <= child'[c].n
  <2>1. \A c \in Clients : child'[c].n = child[c].n
    BY <1>1, <1>4, SignalledType
  <2>2. Alive' => Alive
    <3>1. CASE child' = child
      BY <3>1 DEF Alive, InvocationAlive
    <3>2. CASE InvocationAlive(i)
      <4>1. i[1] \in Clients /\ child' = [child EXCEPT ![i[1]].status = status]
        BY <1>4, <3>2, LifecycleAssumption DEF Signalled, InvocationAlive
      <4>2. meta.pid # None => meta.pid[1] \in Clients
        BY <1>1, InvocationType
      <4>3. child[i[1]].status \in {"live", "term"}
        BY <3>2 DEF InvocationAlive
      <4>. QED BY <1>1, <4>1, <4>2, <4>3 DEF Alive, InvocationAlive, Child
    <3>. QED BY <1>4, <3>1, <3>2 DEF Signalled
  <2>. QED BY <1>2, <2>1, <2>2
<1>. QED BY <1>3, <1>4

-----------------------------------------------------------------------------
(* The moves of runners and commands *)

OtherRunners(r) == \A s \in Clients \ {r} : runner'[s] = runner[s]
OtherCommands(c) == \A d \in Clients \ {c} : cli'[d] = cli[d]

\* The runner at work is the only one, while the record is open.
LEMMA OnlyHolder ==
  ASSUME Ownership, NEW r \in Clients, Holds(r)
  PROVE  /\ Open => \A s \in Clients : Holds(s) => s = r
         /\ Open => meta.active_runner /\ meta.res = "claimed" /\ meta.runner_pid = r
         /\ exists /\ Alive => meta.pid[1] = r /\ runner[r].pc = "watch"
BY DEF Ownership, RecordPart, OneOwner, NamePart, Named

\* The runner at work moves, and the others stay where they are.
LEMMA HolderMoves ==
  ASSUME Ownership, Open' => Open, Alive' => Alive,
         NEW r \in Clients, Holds(r), OtherRunners(r),
         runner'[r].pc \in Holding \cup {"exited", "crashed"},
         runner'[r].pc \in {"release", "reject", "waitStop"} => ~Open',
         runner'[r].pc = "take" => /\ meta'.pending_prompt = runner'[r].prompt
                                   /\ meta'.pending_prompt # None,
         runner[r].pc = "watch" /\ runner'[r].pc \in Holding \ {"watch"} => ~(exists /\ Alive)
  PROVE  \A s \in Clients : Moved(s)
<1>1. Moved(r)
  BY DEF Moved, Holds, Holding
<1>2. ASSUME NEW s \in Clients, s # r PROVE Moved(s)
  <2>1. runner'[s] = runner[s]
    BY <1>2 DEF OtherRunners
  <2>2. Open => ~Holds(s)
    BY <1>2, OnlyHolder
  <2>. QED BY <2>1, <2>2 DEF Moved, Holds, Holding, RunnerLabels
<1>. QED BY <1>1, <1>2

\* A runner ends, begins, or stays where it is, and so do the others.
LEMMA OthersMove ==
  ASSUME Ownership, Open' => Open, meta'.pending_prompt = meta.pending_prompt \/ ~Open',
         \A r \in Clients :
           \/ runner'[r].pc = runner[r].pc /\ runner'[r].prompt = runner[r].prompt
           \/ runner'[r].pc \in {"exited", "crashed"}
           \/ runner[r].pc = "unborn" /\ runner'[r].pc = "claim"
  PROVE  \A r \in Clients : Moved(r)
BY DEF Moved, Ownership, RecordPart, Unrefused, Holding

\* One command moves.
LEMMA CommandMoves ==
  ASSUME NEW c \in Clients, OtherCommands(c),
         \A d \in Clients \ {c} : runner[d].pc = "unborn" => runner'[d].pc = "unborn",
         cli'[c].pc \in Controls => cli[c].pc \in Controls \/ ~Open',
         cli'[c].pc \in Unspawning => cli[c].pc \in Unspawning /\ runner'[c] = runner[c]
  PROVE  \A d \in Clients : CliMoved(d)
BY DEF CliMoved, OtherCommands

\* No command moves.
LEMMA CommandsStay ==
  ASSUME UNCHANGED cli, \A r \in Clients : runner[r].pc = "unborn" => runner'[r].pc = "unborn"
  PROVE  \A c \in Clients : CliMoved(c)
BY DEF CliMoved

\* What the label of a runner becomes.
LEMMA RunnerTo ==
  ASSUME TypeInv, NEW r \in Clients
  PROVE  /\ \A l : RGoto(r, l) => /\ runner'[r].pc = l /\ OtherRunners(r)
                                  /\ runner'[r].prompt = runner[r].prompt
         /\ RExit(r) => runner'[r].pc = "exited" /\ OtherRunners(r)
<1>1. runner \in [Clients -> Runner] /\ runner[r] \in Runner
  BY DEF TypeInv, RunnerInv
<1>2. ASSUME NEW l, RGoto(r, l)
      PROVE  runner'[r].pc = l /\ OtherRunners(r) /\ runner'[r].prompt = runner[r].prompt
  BY <1>1, <1>2 DEF RGoto, OtherRunners, Runner
<1>3. RExit(r) => runner'[r].pc = "exited" /\ OtherRunners(r)
  BY <1>1 DEF RExit, OtherRunners, NoRunner
<1>. QED BY <1>2, <1>3

\* What the label of a command becomes.
LEMMA CommandTo ==
  ASSUME TypeInv, NEW c \in Clients
  PROVE  /\ \A l : CGoto(c, l) => cli'[c].pc = l /\ OtherCommands(c)
         /\ \A x : Finish(c, x) => cli'[c].pc = "done" /\ OtherCommands(c)
<1>1. cli \in [Clients -> Cli] /\ cli[c] \in Cli
  BY DEF TypeInv
<1>2. ASSUME NEW l, CGoto(c, l) PROVE cli'[c].pc = l /\ OtherCommands(c)
  BY <1>1, <1>2 DEF CGoto, OtherCommands, Cli
<1>3. ASSUME NEW x, Finish(c, x) PROVE cli'[c].pc = "done" /\ OtherCommands(c)
  BY <1>1, <1>3 DEF Finish, OtherCommands, Done, NoCli
<1>. QED BY <1>2, <1>3

-----------------------------------------------------------------------------
(* The steps of a runner *)

\* The runner at work moves and leaves the record's owner as it is.
LEMMA HolderStep ==
  ASSUME TypeInv, TypeInv', Ownership, FailedKept, SameRecord, UNCHANGED cli,
         Alive' => Alive, \A c \in Clients : child[c].n <= child'[c].n,
         NEW r \in Clients, Holds(r), OtherRunners(r),
         runner'[r].pc \in Holding \cup {"exited", "crashed"},
         runner'[r].pc \in {"release", "reject", "waitStop"} => ~Open,
         runner'[r].pc = "take" => /\ meta'.pending_prompt = runner'[r].prompt
                                   /\ meta'.pending_prompt # None,
         runner[r].pc = "watch" /\ runner'[r].pc \in Holding \ {"watch"} => ~(exists /\ Alive)
  PROVE  Ownership'
<1>1. RecordMoves
  BY SameMoves
<1>2. (Open' => Open) /\ (~Open => ~Open')
  BY DEF SameRecord, Open
<1>3. \A s \in Clients : Moved(s)
  BY <1>2, HolderMoves
<1>4. \A c \in Clients : CliMoved(c)
  BY CommandsStay DEF OtherRunners, Holds, Holding
<1>. QED BY <1>1, <1>3, <1>4, OwnerKept

\* Steps of a runner that look at the record and leave it.
LooksOn(r) == \/ NextPrompt(r) \/ Gate(r) \/ LaunchRefused(r) \/ Reap(r)
              \/ RememberFreshSession(r) \/ PlanRecovery(r) \/ WaitForRecovery(r)

\* A runner that reads or waits (runner.ts) leaves its ownership as it was.
LEMMA RunnerLooksOn ==
  ASSUME TypeInv, TypeInv', Ownership, FailedKept, NEW r \in Clients, LooksOn(r)
  PROVE  Ownership'
<1>. USE DEF RAt
<1>0. /\ meta \in Meta /\ runner \in [Clients -> Runner] /\ runner[r] \in Runner
      /\ child \in [Clients -> Child]
  BY DEF TypeInv, RunnerInv, ChildOK
<1>1. UNCHANGED <<exists, child, cli>> /\ SameRecord
  <2>1. SameRecord \/ meta' = meta
    <3>1. CASE RememberFreshSession(r)
      BY <1>0, <3>1 DEF RememberFreshSession, Update, SameRecord, Meta, ROnly
    <3>. QED BY <3>1 DEF LooksOn, NextPrompt, Gate, LaunchRefused, Reap, PlanRecovery,
                         WaitForRecovery
  <2>2. UNCHANGED <<exists, child, cli>>
    BY DEF LooksOn, NextPrompt, Gate, LaunchRefused, Reap, RememberFreshSession,
           PlanRecovery, WaitForRecovery, ROnly
  <2>. QED BY <2>1, <2>2 DEF SameRecord
<1>2. (Alive' => Alive) /\ \A c \in Clients : child[c].n <= child'[c].n
  BY <1>1, SignalsOnly DEF SameRecord
<1>3. Holds(r)
  BY DEF LooksOn, NextPrompt, Gate, LaunchRefused, Reap, RememberFreshSession,
         PlanRecovery, WaitForRecovery, Holds, Holding, RunnerLabels
<1>a. ASSUME NEW l \in Holding \cup {"exited", "crashed"}, OtherRunners(r),
             runner'[r].pc = l, l \notin {"take", "release", "reject", "waitStop"},
             runner[r].pc # "watch" \/ ~(exists /\ Alive)
      PROVE  Ownership'
  BY <1>1, <1>2, <1>3, <1>a, HolderStep
<1>4. CASE NextPrompt(r)
  <2>1. CASE RExit(r) \/ RGoto(r, "drain")
    <3>1. OtherRunners(r) /\ runner'[r].pc \in {"exited", "drain"}
      BY <2>1, RunnerTo
    <3>. QED BY <1>4, <1>a, <3>1 DEF NextPrompt, Holding, RunnerLabels
  <2>2. ASSUME NEW label \in {"take", "abort"}, meta.pending_prompt # None,
               runner' = [runner EXCEPT ![r].pc = label,
                                        ![r].prompt = meta.pending_prompt]
        PROVE  Ownership'
    <3>1. /\ OtherRunners(r) /\ runner'[r].pc = label
          /\ runner'[r].prompt = meta.pending_prompt
      BY <1>0, <2>2 DEF OtherRunners, Runner
    <3>2. meta'.pending_prompt = meta.pending_prompt /\ runner[r].pc # "watch"
      BY <1>1, <1>4 DEF SameRecord, NextPrompt
    <3>. QED BY <1>1, <1>2, <1>3, <2>2, <3>1, <3>2, HolderStep DEF Holding, RunnerLabels
  <2>. QED BY <1>4, <2>1, <2>2 DEF NextPrompt
<1>5. CASE Gate(r) \/ LaunchRefused(r)
  <2>1. OtherRunners(r) /\ runner'[r].pc \in {"spawn", "wait", "abort"}
    BY <1>0, <1>5, RunnerTo DEF Gate, LaunchRefused, OtherRunners, Runner
  <2>. QED BY <1>5, <1>a, <2>1 DEF Gate, LaunchRefused, Holding, RunnerLabels
<1>6. CASE Reap(r)
  <2>1. OtherRunners(r) /\ runner'[r].pc \in {"cool", "remember"}
    BY <1>6, RunnerTo DEF Reap
  <2>2. ~(exists /\ Alive)
    BY <1>3, <1>6, OnlyHolder DEF Reap, Ended, Alive, InvocationAlive
  <2>. QED BY <1>a, <2>1, <2>2 DEF Holding, RunnerLabels
<1>7. CASE RememberFreshSession(r)
  <2>1. OtherRunners(r) /\ runner'[r].pc \in {"plan", "final"}
    BY <1>7, RunnerTo DEF RememberFreshSession
  <2>. QED BY <1>7, <1>a, <2>1 DEF RememberFreshSession, Holding, RunnerLabels
<1>8. CASE PlanRecovery(r)
  <2>1. OtherRunners(r) /\ runner'[r].pc \in {"exited", "planFail", "remember", "wait"}
    BY <1>0, <1>8, RunnerTo DEF PlanRecovery, OtherRunners, Runner
  <2>. QED BY <1>8, <1>a, <2>1 DEF PlanRecovery, Holding, RunnerLabels
<1>9. CASE WaitForRecovery(r)
  <2>1. CASE RExit(r)
    BY <1>9, <1>a, <2>1, RunnerTo DEF WaitForRecovery
  <2>2. CASE runner' = [runner EXCEPT ![r].after = "gate",
               ![r].pc = CASE meta.intent \in {"stop", "kill"} -> "waitStop"
                           [] meta.intent = "steer" -> "waitSteer"
                           [] OTHER -> runner[r].after]
    <3>1. /\ OtherRunners(r)
          /\ \/ runner'[r].pc = "waitStop" /\ meta.intent \in {"stop", "kill"}
             \/ runner'[r].pc \in {"waitSteer", "gate", "spawn", "plan"}
      BY <1>0, <2>2 DEF OtherRunners, Runner
    <3>2. meta.intent \in {"stop", "kill"} => ~Open
      BY DEF Ownership, RecordPart, NoIntent, StopLike
    <3>3. runner[r].pc # "watch"
      BY <1>9 DEF WaitForRecovery
    <3>4. runner'[r].pc \in Holding
      BY <3>1 DEF Holding, RunnerLabels
    <3>. QED BY <1>1, <1>2, <1>3, <3>1, <3>2, <3>3, <3>4, HolderStep
  <2>. QED BY <1>9, <2>1, <2>2 DEF WaitForRecovery
<1>. QED BY <1>4, <1>5, <1>6, <1>7, <1>8, <1>9 DEF LooksOn

\* Steps of a runner about its invocation.
Invokes(r) == Spawn(r) \/ RejectSpawn(r) \/ RecordThrows(r) \/ Unidentified(r)

\* A runner that spawns or fails to record its invocation owns the record still.
LEMMA RunnerInvokes ==
  ASSUME TypeInv, TypeInv', Ownership, FailedKept, NEW r \in Clients, Invokes(r)
  PROVE  Ownership'
<1>. USE DEF RAt
<1>0. /\ runner \in [Clients -> Runner] /\ runner[r] \in Runner
      /\ child \in [Clients -> Child] /\ \A c \in Clients : child[c].n \in Nat
      /\ Invocation(r) \in Clients \X Nat
  BY DEF TypeInv, RunnerInv, ChildOK, Child, Invocation
<1>1. UNCHANGED <<exists, cli, meta>> /\ SameRecord
  BY DEF Invokes, Spawn, RejectSpawn, RecordThrows, Unidentified, SameRecord
<1>2. Holds(r) /\ runner[r].pc # "watch"
  BY DEF Invokes, Spawn, RejectSpawn, RecordThrows, Unidentified, Holds, Holding,
         RunnerLabels
<1>3. (Alive' => Alive) /\ \A c \in Clients : child[c].n <= child'[c].n
  <2>1. CASE Spawn(r)
    <3>1. child'[r].n = child[r].n + 1 /\ \A c \in Clients \ {r} : child'[c] = child[c]
      BY <1>0, <2>1 DEF Spawn
    <3>2. meta.pid # None =>
            meta.pid[1] \in Clients /\ meta.pid[2] \in Nat /\ meta.pid[2] <= child[meta.pid[1]].n
      BY InvocationType, TypeInvOK DEF Ownership, NamePart, Counted
    <3>3. Alive' => Alive
      BY <1>0, <1>1, <3>1, <3>2 DEF Alive, InvocationAlive
    <3>. QED BY <1>0, <3>1, <3>3
  <2>2. CASE ~Spawn(r)
    <3>1. child' = child \/ child' = Signalled(child, Invocation(r), "signalled")
      BY <2>2 DEF Invokes, RejectSpawn, RecordThrows, Unidentified, Kill
    <3>. QED BY <1>0, <1>1, <3>1, SignalsOnly
  <2>. QED BY <2>1, <2>2
<1>4. /\ OtherRunners(r)
      /\ runner'[r].pc \in {"record", "exited", "unrecord", "abort", "watch"}
  BY <1>0, RunnerTo
  DEF Invokes, Spawn, RejectSpawn, RecordThrows, Unidentified, OtherRunners, Runner
<1>. QED BY <1>1, <1>2, <1>3, <1>4, HolderStep DEF Holding, RunnerLabels

\* The record is released: as failed, with what it owed reported, or as it is.
LEMMA ReleaseMoves ==
  ASSUME TypeInv, Ownership, FailedKept, UNCHANGED <<exists, child>>,
         Open => \A r \in Clients : ~Holds(r)',
         \/ RecordFailure /\ ~(exists /\ Alive)
         \/ Update(SetInactive(meta)) /\ (Open => Replaceable)
  PROVE  RecordMoves /\ (Open' => Open) /\ (Alive' => Alive)
         /\ meta'.pending_prompt = meta.pending_prompt
<1>0. meta \in Meta /\ FinalizeTerminal(meta, "failed") \in Meta
  BY RecordOperations DEF TypeInv, Lifecycles, Terminal
<1>. DEFINE Inactive(m) == /\ m.pid = meta.pid /\ m.runner_pid = meta.runner_pid
                           /\ m.pending_prompt = meta.pending_prompt
                           /\ m.delete_pending = meta.delete_pending
                           /\ StopLike(m) => StopLike(meta)
                           /\ m.res = "absent" /\ ~m.active_runner
<1>a. Inactive(SetInactive(meta)) /\ SetInactive(meta).state = meta.state
  BY <1>0 DEF SetInactive, Meta, StopLike
<1>b. Inactive(SetInactive(FinalizeTerminal(meta, "failed")))
  BY <1>0 DEF SetInactive, FinalizeTerminal, Meta, StopLike
<1>c. exists => Inactive(meta') /\ (meta'.state = meta.state \/ ~Alive)
  BY <1>a, <1>b DEF Update, RecordFailure
<1>d. ~exists => meta' = meta
  BY DEF Update, RecordFailure
<1>1. /\ meta'.pid = meta.pid /\ meta'.runner_pid = meta.runner_pid
      /\ meta'.pending_prompt = meta.pending_prompt
      /\ meta'.delete_pending = meta.delete_pending
      /\ StopLike(meta') => StopLike(meta)
      /\ exists => meta'.res = "absent" /\ ~meta'.active_runner
      /\ exists => meta'.state = meta.state \/ ~Alive
  BY <1>c, <1>d
<1>2. (Alive' => Alive) /\ \A c \in Clients : child[c].n <= child'[c].n
  BY <1>1, SignalsOnly
<1>3. Open' = Open
  BY <1>1 DEF Open
<1>4. Open => Replaceable'
  <2>1. CASE RecordFailure
    BY <1>1, <2>1 DEF Open, Replaceable, RecordFailure, Owed
  <2>2. CASE Open => Replaceable
    BY <1>1, <2>2 DEF Replaceable, FailedKept
  <2>. QED BY <2>1, <2>2
<1>5. RecordMoves
  BY <1>1, <1>2, <1>3, <1>4 DEF RecordMoves, Open
<1>. QED BY <1>1, <1>2, <1>3, <1>5

\* claimRunner: the reservation gets the one runner that holds the record.
LEMMA RunnerClaims ==
  ASSUME TypeInv, TypeInv', Ownership, FailedKept, NEW r \in Clients, ClaimRunner(r)
  PROVE  Ownership'
<1>0. meta \in Meta /\ UNCHANGED <<exists, child, cli>> /\ runner[r].pc = "claim"
  BY DEF TypeInv, ClaimRunner, ROnly, RAt
<1>a. (Alive' => Alive) /\ \A c \in Clients : child[c].n <= child'[c].n
  BY <1>0, SignalsOnly DEF ClaimRunner, Meta
<1>b. \A c \in Clients : CliMoved(c)
  BY <1>0, CommandsStay, RunnerTo DEF ClaimRunner, OtherRunners
<1>1. CASE RExit(r) /\ UNCHANGED meta
  <2>1. SameRecord
    BY <1>0, <1>1 DEF SameRecord
  <2>2. \A s \in Clients : Moved(s)
    BY <1>0, <1>1, <2>1, RunnerTo, OthersMove DEF SameRecord, Open, OtherRunners
  <2>. QED BY <1>a, <1>b, <2>1, <2>2, SameMoves, OwnerKept
<1>2. CASE /\ exists /\ ~meta.delete_pending /\ meta.res = "reserved"
           /\ RGoto(r, "loop")
           /\ meta' = [meta EXCEPT !.runner_pid = r, !.res = "claimed",
                                   !.active_runner = TRUE, !.state = "running"]
  <2>1. /\ Open /\ Open'
        /\ meta'.runner_pid = r /\ meta'.res = "claimed" /\ meta'.active_runner
        /\ meta'.state = "running" /\ meta'.pid = meta.pid
        /\ meta'.intent = meta.intent /\ meta'.stop_reason = meta.stop_reason
        /\ meta'.pending_prompt = meta.pending_prompt
    BY <1>0, <1>2 DEF Open, Meta
  <2>2. OtherRunners(r) /\ runner'[r].pc = "loop"
    BY <1>2, RunnerTo
  <2>3. ~Alive /\ ~Alive'
    BY <1>2, <1>a DEF Ownership, NamePart, Unstarted
  <2>4. \A s \in Clients : ~Holds(s)
    BY <1>2, <2>1 DEF Ownership, RecordPart, OneOwner
  <2>5. CliPart'
    BY <1>0, <1>b, <2>1, <2>2
    DEF Ownership, CliPart, Unspawned, Controlled, Published, CliMoved, OtherRunners
  <2>6. RecordPart'
    BY <1>0, <2>1, <2>2, <2>4
    DEF Ownership, RecordPart, NoIntent, OneOwner, Unrefused, Waiting, StopLike, Holds,
        OtherRunners
  <2>7. NamePart'
    BY <1>0, <2>1, <2>3 DEF Ownership, NamePart, Named, Counted, Unstarted, Standing
  <2>. QED BY <2>5, <2>6, <2>7 DEF Ownership
<1>. QED BY <1>1, <1>2 DEF ClaimRunner

\* recordSpawned: the runner at work names its invocation in the record.
LEMMA RunnerRecords ==
  ASSUME TypeInv, TypeInv', Ownership, FailedKept, NEW r \in Clients, RecordSpawned(r)
  PROVE  Ownership'
<1>0. /\ meta \in Meta /\ UNCHANGED <<exists, child, cli>> /\ runner[r].pc = "record"
      /\ Holds(r) /\ \A c \in Clients : child[c].n \in Nat
  BY DEF TypeInv, RecordSpawned, ROnly, RAt, Holds, Holding, RunnerLabels, ChildOK, Child
<1>1. CASE RGoto(r, "reject") /\ UNCHANGED meta
           /\ (~exists \/ meta.delete_pending \/ StopLike(meta))
  <2>1. SameRecord /\ ~Open
    BY <1>0, <1>1 DEF SameRecord, Open, Ownership, RecordPart, NoIntent
  <2>2. (Alive' => Alive) /\ \A c \in Clients : child[c].n <= child'[c].n
    BY <1>0, <1>1, SignalsOnly
  <2>3. OtherRunners(r) /\ runner'[r].pc = "reject"
    BY <1>1, RunnerTo
  <2>. QED BY <1>0, <2>1, <2>2, <2>3, HolderStep DEF Holding, RunnerLabels
<1>2. CASE /\ exists /\ ~meta.delete_pending
           /\ RGoto(r, "watch")
           /\ meta' = [meta EXCEPT !.pid = Invocation(r), !.runner_pid = r,
                                   !.state = "running", !.startFresh = TRUE,
                                   !.active_runner = TRUE]
  <2>1. /\ Open /\ Open'
        /\ meta'.runner_pid = r /\ meta'.active_runner
        /\ meta'.state = "running" /\ meta'.pid = <<r, child[r].n>>
        /\ meta'.intent = meta.intent /\ meta'.stop_reason = meta.stop_reason
        /\ meta'.pending_prompt = meta.pending_prompt /\ meta'.res = meta.res
    BY <1>0, <1>2 DEF Open, Meta, Invocation
  <2>2. OtherRunners(r) /\ runner'[r].pc = "watch"
    BY <1>2, RunnerTo
  <2>3. meta.res = "claimed" /\ \A s \in Clients : Holds(s) => s = r
    BY <1>0, <2>1, OnlyHolder
  <2>4. \A s \in Clients : Holds(s)' => s = r
    BY <2>2, <2>3 DEF OtherRunners, Holds
  <2>5. CliPart'
    BY <1>0, <2>1, <2>2
    DEF Ownership, CliPart, Unspawned, Controlled, Published, OtherRunners
  <2>6. RecordPart'
    BY <1>0, <2>1, <2>2, <2>3, <2>4
    DEF Ownership, RecordPart, NoIntent, OneOwner, Unrefused, Waiting, StopLike,
        OtherRunners
  <2>7. NamePart'
    BY <1>0, <2>1, <2>2, <2>3, <2>4
    DEF NamePart, Named, Counted, Unstarted, Standing
  <2>. QED BY <2>5, <2>6, <2>7 DEF Ownership
<1>. QED BY <1>1, <1>2 DEF RecordSpawned

\* The runner at work releases the record and exits.
LEMMA RunnerReleases ==
  ASSUME TypeInv, TypeInv', Ownership, FailedKept, UNCHANGED <<exists, child, cli>>,
         NEW r \in Clients, Holds(r), runner[r].pc # "watch", RExit(r),
         RecordFailure \/ (Update(SetInactive(meta)) /\ (Open => Replaceable))
  PROVE  Ownership'
<1>1. OtherRunners(r) /\ runner'[r].pc = "exited"
  BY RunnerTo
<1>2. Open => \A s \in Clients : ~Holds(s)'
  BY <1>1, OnlyHolder DEF OtherRunners, Holds, Holding
<1>3. ~(exists /\ Alive)
  BY OnlyHolder
<1>4. /\ RecordMoves /\ (Open' => Open) /\ (Alive' => Alive)
  BY <1>2, <1>3, ReleaseMoves
<1>5. \A s \in Clients : Moved(s)
  BY <1>1, <1>4, HolderMoves
<1>6. \A c \in Clients : CliMoved(c)
  BY <1>1, CommandsStay DEF OtherRunners, Holds, Holding
<1>. QED BY <1>4, <1>5, <1>6, OwnerKept

\* Runners that give up.
GivesUp(r) == \/ Abort(r) \/ PlanFails(r) \/ ReleaseUnclaimed(r)
              \/ ReleaseUnrecordedSpawn(r) \/ WaitStopped(r)

\* A runner that gives up lets its reservation go.
LEMMA RunnerGivesUp ==
  ASSUME TypeInv, TypeInv', Ownership, FailedKept, NEW r \in Clients, GivesUp(r)
  PROVE  Ownership'
<1>. USE DEF RAt
<1>0. /\ UNCHANGED <<exists, child, cli>> /\ RExit(r)
      /\ Holds(r) /\ runner[r].pc # "watch"
  BY DEF GivesUp, Abort, PlanFails, ReleaseUnclaimed, ReleaseUnrecordedSpawn, WaitStopped,
         ROnly, Holds, Holding, RunnerLabels
<1>1. meta \in Meta
  BY DEF TypeInv
<1>2. OtherRunners(r) /\ runner'[r].pc = "exited"
  BY <1>0, RunnerTo
<1>3. CASE RecordFailure
  BY <1>0, <1>3, RunnerReleases
<1>4. CASE UNCHANGED meta
  <2>1. SameRecord
    BY <1>0, <1>4 DEF SameRecord
  <2>2. (Alive' => Alive) /\ \A c \in Clients : child[c].n <= child'[c].n
    BY <1>0, <1>4, SignalsOnly
  <2>. QED BY <1>0, <1>2, <2>1, <2>2, HolderStep
<1>5. CASE Update(SetInactive(meta)) /\ (StopLike(meta) \/ runner[r].pc = "release")
  <2>1. ~Open
    BY <1>5 DEF Ownership, RecordPart, NoIntent, Unrefused
  <2>. QED BY <1>0, <1>5, <2>1, RunnerReleases
<1>6. CASE WaitStopped(r)
  <2>. DEFINE state == Outcome(meta.intent)
              m     == [SetInactive(FinalizeTerminal(meta, state))
                          EXCEPT !.stop_reason = meta.intent]
  <2>1. ~Open
    BY <1>6 DEF WaitStopped, Ownership, RecordPart, Unrefused
  <2>2. state \in {"stopped", "killed"}
    BY DEF Outcome
  <2>. HIDE DEF state
  <2>3. /\ m.pid = meta.pid /\ m.runner_pid = meta.runner_pid /\ m.res = "absent"
        /\ m.delete_pending = meta.delete_pending /\ m.state = state
    BY <1>1 DEF SetInactive, FinalizeTerminal, Meta
  <2>4. meta' = meta \/ meta' = m
    BY <1>6 DEF WaitStopped, Update, state
  <2>. HIDE DEF m
  <2>5. /\ meta'.pid = meta.pid /\ meta'.runner_pid = meta.runner_pid
        /\ meta'.res \in {meta.res, "absent"} /\ meta'.delete_pending = meta.delete_pending
        /\ meta'.state \in {meta.state, "stopped", "killed"}
    BY <2>2, <2>3, <2>4
  <2>6. (Alive' => Alive) /\ \A c \in Clients : child[c].n <= child'[c].n
    BY <1>0, <2>5, SignalsOnly
  <2>7. ~Open'
    BY <1>0, <2>1, <2>5 DEF Open
  <2>8. RecordMoves
    BY <1>0, <2>2, <2>5, <2>6, <2>7 DEF RecordMoves
  <2>9. \A s \in Clients : Moved(s)
    BY <1>0, <1>2, <2>6, <2>7, HolderMoves
  <2>10. \A c \in Clients : CliMoved(c)
    BY <1>0, <1>2, CommandsStay DEF OtherRunners, Holds, Holding
  <2>. QED BY <2>8, <2>9, <2>10, OwnerKept
<1>. QED BY <1>3, <1>4, <1>5, <1>6
         DEF GivesUp, Abort, PlanFails, ReleaseUnclaimed, ReleaseUnrecordedSpawn

\* Steps that write the record on the way to the next prompt.
Proceeds(r) == ClaimPendingPrompt(r) \/ WaitSteered(r) \/ FinalizeInvocation(r)

\* A runner that claims its prompt or ends an invocation stays the one owner.
LEMMA RunnerProceeds ==
  ASSUME TypeInv, TypeInv', Ownership, FailedKept, NEW r \in Clients, Proceeds(r)
  PROVE  Ownership'
<1>. USE DEF RAt
<1>0. /\ UNCHANGED <<exists, cli>> /\ Holds(r) /\ runner[r].pc # "watch"
      /\ meta \in Meta /\ meta' \in Meta /\ runner[r] \in Runner
      /\ runner \in [Clients -> Runner] /\ child \in [Clients -> Child]
      /\ \A c \in Clients : child[c].n \in Nat
  BY DEF Proceeds, ClaimPendingPrompt, WaitSteered, FinalizeInvocation, ROnly, Holds,
         Holding, RunnerLabels, TypeInv, RunnerInv, ChildOK, Child
<1>1. ~(exists /\ Alive)
  BY <1>0, OnlyHolder
<1>2. /\ meta'.pid = meta.pid /\ meta'.runner_pid = meta.runner_pid
      /\ meta'.res = meta.res /\ meta'.active_runner = meta.active_runner
      /\ meta'.delete_pending = meta.delete_pending
      /\ StopLike(meta') => StopLike(meta)
      /\ meta'.pending_prompt \in {meta.pending_prompt, None}
  <2>1. CASE ClaimPendingPrompt(r)
    BY <1>0, <2>1 DEF ClaimPendingPrompt, Meta, StopLike
  <2>2. CASE WaitSteered(r)
    BY <1>0, <2>2 DEF WaitSteered, Update, Meta, StopLike
  <2>3. CASE FinalizeInvocation(r)
    BY <1>0, <2>3 DEF FinalizeInvocation, FinalizeTerminal, Update, Meta, StopLike
  <2>. QED BY <2>1, <2>2, <2>3 DEF Proceeds
<1>3. (Alive' => Alive) /\ \A c \in Clients : child[c].n <= child'[c].n
  <2>1. CASE child' = child
    BY <1>2, <2>1, SignalsOnly
  <2>2. CASE child' = [child EXCEPT ![r].status = "reaped"]
    <3>1. meta.pid # None => meta.pid[1] \in Clients
      BY InvocationType, TypeInvOK
    <3>. QED BY <1>0, <1>2, <2>2, <3>1 DEF Alive, InvocationAlive, Child
  <2>. QED BY <2>1, <2>2
           DEF Proceeds, ClaimPendingPrompt, WaitSteered, FinalizeInvocation, ROnly
<1>4. Open' = Open
  BY <1>0, <1>2 DEF Open
<1>5. RecordMoves
  BY <1>0, <1>1, <1>2, <1>3, <1>4, OnlyHolder DEF RecordMoves, Open
<1>6. \A s \in Clients : Moved(s)
  <2>1. CASE ClaimPendingPrompt(r)
    <3>1. CASE RGoto(r, "release") /\ ~(/\ exists /\ ~meta.delete_pending
                                       /\ ~StopLike(meta)
                                       /\ meta.pending_prompt = runner[r].prompt)
      <4>1. OtherRunners(r) /\ runner'[r].pc = "release"
        BY <3>1, RunnerTo
      <4>2. ~Open
        BY <2>1, <3>1 DEF ClaimPendingPrompt, Ownership, RecordPart, NoIntent, Unrefused, Open
      <4>. QED BY <1>0, <1>3, <1>4, <4>1, <4>2, HolderMoves DEF Holding, RunnerLabels
    <3>2. CASE runner' = [runner EXCEPT ![r].pc = "gate", ![r].prompt = None]
      <4>1. OtherRunners(r) /\ runner'[r].pc = "gate"
        BY <1>0, <3>2 DEF OtherRunners, Runner
      <4>. QED BY <1>0, <1>3, <1>4, <4>1, HolderMoves DEF Holding, RunnerLabels
    <3>. QED BY <2>1, <3>1, <3>2 DEF ClaimPendingPrompt
  <2>2. CASE WaitSteered(r) \/ FinalizeInvocation(r)
    <3>1. OtherRunners(r) /\ runner'[r].pc = "drain"
      <4>1. CASE WaitSteered(r)
        BY <1>0, <4>1 DEF WaitSteered, OtherRunners, Runner
      <4>2. CASE FinalizeInvocation(r)
        BY <1>0, <4>2 DEF FinalizeInvocation, OtherRunners, NoRunner
      <4>. QED BY <2>2, <4>1, <4>2
    <3>. QED BY <1>0, <1>3, <1>4, <3>1, HolderMoves DEF Holding, RunnerLabels
  <2>. QED BY <2>1, <2>2 DEF Proceeds
<1>7. \A c \in Clients : CliMoved(c)
  <2>1. OtherRunners(r)
    BY <1>0, RunnerTo
    DEF Proceeds, ClaimPendingPrompt, WaitSteered, FinalizeInvocation, OtherRunners, Runner
  <2>. QED BY <1>0, <2>1, CommandsStay DEF OtherRunners, Holds, Holding
<1>. QED BY <1>5, <1>6, <1>7, OwnerKept

\* reclaimOrStop: the runner goes on to the next prompt, or lets the record go.
LEMMA RunnerReclaims ==
  ASSUME TypeInv, TypeInv', Ownership, FailedKept, NEW r \in Clients, ReclaimOrStop(r)
  PROVE  Ownership'
<1>0. /\ UNCHANGED <<exists, child, cli>> /\ Holds(r) /\ runner[r].pc = "drain"
      /\ meta \in Meta /\ meta' \in Meta
  BY DEF ReclaimOrStop, RAt, ROnly, Holds, Holding, RunnerLabels, TypeInv
<1>1. ~(exists /\ Alive)
  BY <1>0, OnlyHolder
<1>2. CASE Update(SetInactive(meta)) /\ RExit(r)
           /\ (~exists \/ StopLike(meta) \/ meta.pending_prompt = None)
  <2>1. Open => Replaceable
    BY <1>2 DEF Ownership, RecordPart, NoIntent, Replaceable, Open
  <2>. QED BY <1>0, <1>2, <2>1, RunnerReleases
<1>3. CASE RGoto(r, "loop")
           /\ \/ meta' = [meta EXCEPT !.active_runner = TRUE]
              \/ /\ meta.steer_queue # <<>>
                 /\ meta' = [PopSteerIntoPending(meta) EXCEPT !.active_runner = TRUE]
  <2>1. OtherRunners(r) /\ runner'[r].pc = "loop"
    BY <1>3, RunnerTo
  <2>2. /\ meta'.pid \in {meta.pid, None} /\ meta'.runner_pid = meta.runner_pid
        /\ meta'.res = meta.res /\ meta'.active_runner
        /\ meta'.delete_pending = meta.delete_pending
        /\ meta'.state \in {meta.state, "running"}
        /\ StopLike(meta') => StopLike(meta)
    <3>1. CASE meta' = [meta EXCEPT !.active_runner = TRUE]
      BY <1>0, <3>1 DEF Meta, StopLike
    <3>2. CASE meta' = [PopSteerIntoPending(meta) EXCEPT !.active_runner = TRUE]
      BY <1>0, <3>2 DEF PopSteerIntoPending, BeginInvocation, Meta, StopLike
    <3>. QED BY <1>3, <3>1, <3>2
  <2>3. (Alive' => Alive) /\ \A c \in Clients : child[c].n <= child'[c].n
    BY <1>0, <2>2, SignalsOnly
  <2>4. Open' = Open
    BY <1>0, <2>2 DEF Open
  <2>5. Open => meta.active_runner /\ meta.res = "claimed"
    BY <1>0, OnlyHolder
  <2>6. RecordMoves
    BY <1>0, <2>2, <2>3, <2>4, <2>5 DEF RecordMoves
  <2>7. \A s \in Clients : Moved(s)
    BY <1>0, <2>1, <2>3, <2>4, HolderMoves DEF Holding, RunnerLabels
  <2>8. \A c \in Clients : CliMoved(c)
    BY <1>0, <2>1, CommandsStay DEF OtherRunners
  <2>. QED BY <2>6, <2>7, <2>8, OwnerKept
<1>. QED BY <1>2, <1>3 DEF ReclaimOrStop, Update

\* The steps of a runner
LEMMA RunnerOwns ==
  ASSUME TypeInv, TypeInv', Ownership, FailedKept, NEW r \in Clients, RunnerAct(r)
  PROVE  Ownership'
BY RunnerLooksOn, RunnerInvokes, RunnerClaims, RunnerRecords, RunnerGivesUp,
   RunnerProceeds, RunnerReclaims
DEF RunnerAct, LooksOn, Invokes, GivesUp, Proceeds

\* The poll of childResult, the invocation itself and the end of a runner
LEMMA ChildOwns ==
  ASSUME TypeInv, TypeInv', Ownership, FailedKept, NEW r \in Clients,
         Poll(r) \/ ChildStep(r) \/ RunnerCrash(r)
  PROVE  Ownership'
<1>0. /\ runner \in [Clients -> Runner] /\ child \in [Clients -> Child] /\ meta \in Meta
      /\ Invocation(r) \in Clients \X Nat /\ \A c \in Clients : child[c].n \in Nat
      /\ meta.pid \in (Clients \X Nat) \cup {None}
  <2>1. meta.pid \in (Clients \X Nat) \cup {None}
    BY InvocationType, TypeInvOK
  <2>. QED BY <2>1 DEF TypeInv, RunnerInv, ChildOK, Child, Invocation
<1>1. UNCHANGED cli /\ SameRecord
  <2>1. CASE CheckpointSession(r)
    BY <1>0, <2>1 DEF CheckpointSession, ROnly, SameRecord, Meta
  <2>2. CASE ~CheckpointSession(r)
    BY <2>2 DEF Poll, PollKill, PollControl, PollEscalate, PollStalled, PollStallKill,
                SignalFromPoll, ChildStep, ChildSession, ChildEnds, ChildKilled,
                RunnerCrash, ROnly, SameRecord
  <2>. QED BY <2>1, <2>2
<1>2. (Alive' => Alive) /\ \A c \in Clients : child[c].n <= child'[c].n
  <2>1. CASE ChildEnds(r)
    <3>1. PICK status \in Ended : child' = [child EXCEPT ![r].status = status]
      BY <2>1 DEF ChildEnds
    <3>2. meta.pid # None => meta.pid[1] \in Clients
      BY InvocationType, TypeInvOK
    <3>. QED BY <1>0, <1>1, <3>1, <3>2 DEF Alive, InvocationAlive, Child, Ended, SameRecord
  <2>2. CASE ~ChildEnds(r)
    <3>1. \/ child' = child
          \/ \E i \in {meta.pid, Invocation(r)}, status \in {"term", "signalled"} :
               child' = Signalled(child, i, status)
      BY <2>2 DEF Poll, PollKill, PollControl, PollEscalate, PollStalled, PollStallKill,
                  CheckpointSession, SignalFromPoll, ChildStep, ChildSession, ChildKilled,
                  Kill, RunnerCrash, ROnly
    <3>. QED BY <1>0, <1>1, <3>1, SignalsOnly DEF SameRecord
  <2>. QED BY <2>1, <2>2
<1>3. RecordMoves
  BY <1>1, <1>2, SameMoves
<1>4. \A s \in Clients :
        \/ runner'[s].pc = runner[s].pc /\ runner'[s].prompt = runner[s].prompt
        \/ runner[s].pc # "unborn" /\ runner'[s].pc = "crashed"
  <2>1. CASE RunnerCrash(r)
    BY <1>0, <2>1 DEF RunnerCrash, RunnerAlive, Crashed, NoRunner
  <2>2. CASE \/ runner' = runner
             \/ SignalFromPoll(r, "term") \/ SignalFromPoll(r, "signalled")
             \/ runner' = [runner EXCEPT ![r].stalled = TRUE]
    BY <1>0, <2>2 DEF SignalFromPoll, Runner
  <2>. QED BY <2>1, <2>2
           DEF Poll, PollKill, PollControl, PollEscalate, PollStalled, PollStallKill,
               CheckpointSession, ChildStep, ChildSession, ChildEnds, ChildKilled
<1>5. \A s \in Clients : Moved(s)
  BY <1>1, <1>4, OthersMove DEF SameRecord, Open
<1>6. \A c \in Clients : CliMoved(c)
  BY <1>1, <1>4, CommandsStay
<1>. QED BY <1>3, <1>5, <1>6, OwnerKept

-----------------------------------------------------------------------------
(* The steps of the CLI *)

\* A command looks at the record, or signals an invocation.
LEMMA CommandStep ==
  ASSUME TypeInv, TypeInv', Ownership, FailedKept, UNCHANGED <<exists, meta, runner>>,
         \/ child' = child
         \/ \E i \in (Clients \X Nat) \cup {None}, status \in {"term", "signalled"} :
               child' = Signalled(child, i, status),
         NEW c \in Clients, OtherCommands(c),
         cli'[c].pc \in Controls => cli[c].pc \in Controls,
         cli'[c].pc \in Unspawning => cli[c].pc \in Unspawning
  PROVE  Ownership'
<1>1. SameRecord /\ (Open' => Open)
  BY DEF SameRecord, Open
<1>2. RecordMoves
  BY <1>1, SignalsOnly, SameMoves
<1>3. \A s \in Clients : Moved(s)
  BY <1>1, OthersMove
<1>4. \A d \in Clients : CliMoved(d)
  BY CommandMoves
<1>. QED BY <1>2, <1>3, <1>4, OwnerKept

\* A command writes the record, to bring in a prompt or to end it.
LEMMA CommandWrites ==
  ASSUME TypeInv, TypeInv', Ownership, UNCHANGED <<exists, runner, child>>, RecordMoves,
         Open' => \/ meta'.pending_prompt = meta.pending_prompt
                  \/ meta.pending_prompt = None
                  \/ \A r \in Clients : ~Holds(r),
         NEW c \in Clients, OtherCommands(c),
         cli'[c].pc \in Controls => cli[c].pc \in Controls \/ ~Open',
         cli'[c].pc \in Unspawning => cli[c].pc \in Unspawning
  PROVE  Ownership'
<1>1. \A r \in Clients : Moved(r)
  <2>1. Open' => Open
    BY DEF RecordMoves
  <2>2. Open' => \A r \in Clients :
          runner[r].pc = "take" => meta'.pending_prompt = meta.pending_prompt
    BY <2>1 DEF Ownership, RecordPart, Unrefused, Holds, Holding, RunnerLabels
  <2>. QED BY <2>1, <2>2 DEF Moved, Ownership, RecordPart, Unrefused
<1>2. \A d \in Clients : CliMoved(d)
  BY CommandMoves
<1>. QED BY <1>1, <1>2, OwnerKept

\* A record that is open and that nobody owns has no runner at work; one whose
\* runner is alive has a runner that claimed it.
LEMMA InFlightHeld ==
  ASSUME TypeInv, Ownership, Open
  PROVE  /\ ~ReservationInFlight(meta) => \A r \in Clients : ~Holds(r)
         /\ ReservationInFlight(meta) => meta.active_runner /\ meta.res # "absent"
<1>1. \A r \in Clients : runner[r].pc \in RunnerLabels
  BY DEF TypeInv, RunnerInv, Runner
<1>2. meta.runner_pid \in Clients \cup {None}
  BY DEF TypeInv, Meta
<1>3. \A r \in Clients : Holds(r) => RunnerAlive(r)
  BY LifecycleAssumption DEF Holds, Holding, RunnerAlive
<1>4. RunnerAlive(meta.runner_pid) => meta.runner_pid \in Clients /\ Holds(meta.runner_pid)
  BY <1>1, <1>2 DEF RunnerAlive, Holds, Holding, Ownership, CliPart, Published
<1>5. \A r \in Clients : Holds(r) => meta.active_runner /\ meta.res = "claimed"
                                      /\ meta.runner_pid = r
  BY DEF Ownership, RecordPart, OneOwner
<1>. QED BY <1>3, <1>4, <1>5 DEF ReservationInFlight

\* cmdRun accepts a prompt, or reserves the record for one that waits in it.
Accepted(c) == RunPreempts(c) \/ RunReuses(c) \/ RunRecovers(c) \/ RunBegins(c)

\* cmdRun hands the record to one runner only.
LEMMA RunAccepts ==
  ASSUME TypeInv, TypeInv', Ownership, FailedKept, NEW c \in Clients, Accepted(c)
  PROVE  Ownership'
<1>. USE DEF CAt
<1>0. /\ UNCHANGED <<exists, runner, child>> /\ cli[c].pc = "accept" /\ Open
      /\ meta \in Meta /\ meta' \in Meta /\ cli \in [Clients -> Cli] /\ cli[c] \in Cli
  BY DEF Accepted, RunPreempts, RunReuses, RunRecovers, RunBegins, Accepting, Accepts,
         TypeInv, Open
<1>1. OtherCommands(c) /\ cli'[c].pc \in {"interrupt", "done", "spawn"}
  BY <1>0, CommandTo
  DEF Accepted, RunPreempts, RunReuses, RunRecovers, RunBegins, OtherCommands, Cli
<1>2. /\ cli'[c].pc \notin Controls
      /\ cli'[c].pc \in Unspawning => cli[c].pc \in Unspawning
  BY <1>0, <1>1 DEF Controls, Unspawning
<1>3. ~StopLike(meta) /\ Waiting
  BY <1>0 DEF Ownership, RecordPart, NoIntent
<1>4. CASE RunPreempts(c) \/ RunReuses(c)
  <2>1. /\ meta'.pid = meta.pid /\ meta'.runner_pid = meta.runner_pid
        /\ meta'.res = meta.res /\ meta'.active_runner = meta.active_runner
        /\ meta'.delete_pending = meta.delete_pending
        /\ meta'.state \in {meta.state, "running"}
        /\ ~StopLike(meta')
        /\ \/ meta'.pending_prompt = meta.pending_prompt
           \/ meta.pending_prompt = None /\ ReservationInFlight(meta)
    <3>1. CASE RunPreempts(c)
      BY <1>0, <1>3, <3>1 DEF RunPreempts, QueueSteer, Meta, StopLike
    <3>2. CASE RunReuses(c)
      BY <1>0, <1>3, <3>2 DEF RunReuses, QueueSteer, Meta, StopLike
    <3>. QED BY <1>4, <3>1, <3>2
  <2>2. (Alive' => Alive) /\ \A d \in Clients : child[d].n <= child'[d].n
    BY <1>0, <2>1, SignalsOnly
  <2>3. Replaceable' \/ (meta'.active_runner /\ meta'.res # "absent")
    BY <1>0, <1>3, <2>1, InFlightHeld DEF Waiting, Replaceable, FailedKept
  <2>4. RecordMoves
    BY <1>0, <2>1, <2>2, <2>3 DEF RecordMoves
  <2>. QED BY <1>0, <1>1, <1>2, <2>1, <2>4, CommandWrites
<1>5. CASE RunRecovers(c) \/ RunBegins(c)
  <2>1. ~Alive /\ \A r \in Clients : ~Holds(r)
    BY <1>0, <1>5, InFlightHeld DEF RunRecovers, RunBegins, Alive
  <2>2. /\ meta'.pid \in {meta.pid, None} /\ meta'.runner_pid = meta.runner_pid
        /\ meta'.res = "reserved" /\ meta'.active_runner
        /\ meta'.delete_pending = meta.delete_pending
        /\ ~StopLike(meta')
    <3>1. CASE RunRecovers(c)
      BY <1>0, <1>3, <3>1 DEF RunRecovers, Reserve, QueueSteer, Meta, StopLike
    <3>2. CASE RunBegins(c)
      <4>1. PICK session, mode :
              meta' = [Reserve(BeginInvocation(SetInactive(meta), c), c, mode)
                         EXCEPT !.native_session_id = session]
        BY <3>2 DEF RunBegins
      <4>. DEFINE b == BeginInvocation(SetInactive(meta), c)
      <4>2. /\ SetInactive(meta) \in Meta
            /\ SetInactive(meta).runner_pid = meta.runner_pid
            /\ SetInactive(meta).delete_pending = meta.delete_pending
        <5>1. SetInactive(meta) \in Meta
          BY <1>0, RecordOperations
        <5>. QED BY <1>0, <5>1 DEF SetInactive, Meta
      <4>3. b \in Meta
        BY <4>2, RecordOperations
      <4>4. /\ b.pid = None /\ b.runner_pid = meta.runner_pid
            /\ b.delete_pending = meta.delete_pending /\ ~StopLike(b)
        BY <4>2 DEF BeginInvocation, Meta, StopLike
      <4>. HIDE DEF b
      <4>. QED BY <4>1, <4>3, <4>4 DEF Reserve, Meta, StopLike, b
    <3>. QED BY <1>5, <3>1, <3>2
  <2>3. (Alive' => Alive) /\ \A d \in Clients : child[d].n <= child'[d].n
    BY <1>0, <2>2, SignalsOnly
  <2>4. \A r \in Clients : ~Holds(r)'
    BY <1>0, <2>1 DEF Holds
  <2>5. RecordMoves
    BY <1>0, <2>1, <2>2, <2>3, <2>4 DEF RecordMoves
  <2>. QED BY <1>0, <1>1, <1>2, <2>1, <2>5, CommandWrites
<1>. QED BY <1>4, <1>5 DEF Accepted

\* spawnRunner, and the write of a client whose runner claimed nothing
LEMMA RunSpawns ==
  ASSUME TypeInv, TypeInv', Ownership, FailedKept, NEW c \in Clients,
         SpawnRunner(c) \/ FailUnclaimedRunner(c)
  PROVE  Ownership'
<1>. USE DEF CAt
<1>0. /\ UNCHANGED <<exists, child>> /\ runner \in [Clients -> Runner]
      /\ \A r \in Clients : runner[r] \in Runner
  BY DEF SpawnRunner, FailUnclaimedRunner, TypeInv, RunnerInv
<1>1. /\ OtherCommands(c) /\ cli'[c].pc \notin Unspawning \cup Controls
  BY CommandTo DEF SpawnRunner, FailUnclaimedRunner, Unspawning, Controls
<1>2. CASE SpawnRunner(c)
  <2>1. UNCHANGED meta /\ SameRecord /\ (Open' => Open)
    BY <1>2 DEF SpawnRunner, SameRecord, Open
  <2>2. RecordMoves
    BY <1>0, <2>1, SignalsOnly, SameMoves
  <2>3. runner[c].pc = "unborn"
    BY <1>2 DEF SpawnRunner, Ownership, CliPart, Unspawned, Unspawning
  <2>4. runner'[c].pc = "claim" /\ OtherRunners(c)
    BY <1>0, <1>2 DEF SpawnRunner, OtherRunners, Runner
  <2>5. \A s \in Clients : Moved(s)
    BY <2>1, <2>3, <2>4, OthersMove DEF OtherRunners
  <2>6. \A d \in Clients : CliMoved(d)
    BY <1>1, <2>4, CommandMoves DEF OtherRunners
  <2>. QED BY <2>2, <2>5, <2>6, OwnerKept
<1>3. CASE FailUnclaimedRunner(c) /\ UNCHANGED meta
  BY <1>0, <1>1, <1>3, CommandStep DEF FailUnclaimedRunner
<1>4. CASE FailUnclaimedRunner(c) /\ RecordFailure /\ exists /\ meta.res = "reserved"
  <2>1. UNCHANGED runner /\ ~Alive /\ (Open => \A r \in Clients : ~Holds(r)')
    BY <1>4 DEF FailUnclaimedRunner, Ownership, RecordPart, OneOwner, NamePart, Unstarted,
                Holds
  <2>2. RecordMoves /\ meta'.pending_prompt = meta.pending_prompt
    BY <1>0, <1>4, <2>1, ReleaseMoves
  <2>. QED BY <1>0, <1>1, <2>1, <2>2, CommandWrites
<1>. QED BY <1>2, <1>3, <1>4 DEF FailUnclaimedRunner

\* The steps of agent run
LEMMA RunOwns ==
  ASSUME TypeInv, TypeInv', Ownership, FailedKept, NEW c \in Clients, RunStep(c)
  PROVE  Ownership'
<1>. USE DEF CAt
<1>0. /\ cli \in [Clients -> Cli] /\ cli[c] \in Cli
      /\ meta.pid \in (Clients \X Nat) \cup {None}
  BY InvocationType, TypeInvOK DEF TypeInv
<1>1. CASE RunReads(c)
  <2>1. cli[c].pc = "idle" /\ OtherCommands(c) /\ cli'[c].pc \in {"done", "accept"}
    BY <1>0, <1>1 DEF RunReads, OtherCommands, Done, NoCli, Cli
  <2>. QED BY <1>1, <2>1, CommandStep DEF RunReads, COnly, Controls, Unspawning
<1>2. CASE \/ RunRefused(c) \/ AwaitClaim(c) \/ ReportRunner(c) \/ Follow(c)
           \/ Interrupt(c)
  <2>1. OtherCommands(c) /\ cli'[c].pc \in {"done", "unclaimed"}
    BY <1>2, CommandTo
    DEF RunRefused, AwaitClaim, ReportRunner, Follow, Interrupt, Acknowledge
  <2>2. /\ UNCHANGED <<exists, meta, runner>>
        /\ child' = child \/ child' = Signalled(child, meta.pid, "term")
    BY <1>2 DEF RunRefused, AwaitClaim, ReportRunner, Follow, Interrupt, COnly
  <2>. QED BY <1>0, <2>1, <2>2, CommandStep DEF Controls, Unspawning
<1>3. CASE FailUnclaimedRunner(c) \/ SpawnRunner(c)
  BY <1>3, RunSpawns
<1>4. CASE Accepted(c)
  BY <1>4, RunAccepts
<1>. QED BY <1>1, <1>2, <1>3, <1>4 DEF RunStep, Accepted

\* The end of a record that is going: a stop, kill or delete writes it.
LEMMA ClosedWrites ==
  ASSUME TypeInv, TypeInv', Ownership, UNCHANGED <<runner, child>>,
         exists' => exists, ~Open',
         \/ ~exists' /\ meta'.pid = None /\ meta'.runner_pid = None
         \/ /\ meta'.pid = meta.pid /\ meta'.runner_pid = meta.runner_pid
            /\ meta'.res \in {meta.res, "absent"}
            /\ meta'.state \in {meta.state, "stopped", "killed"},
         NEW c \in Clients, OtherCommands(c), cli'[c].pc \notin Unspawning
  PROVE  Ownership'
<1>1. (Alive' => Alive) /\ \A d \in Clients : child[d].n <= child'[d].n
  BY SignalsOnly
<1>2. RecordMoves
  BY <1>1 DEF RecordMoves
<1>3. \A s \in Clients : Moved(s)
  BY OthersMove
<1>4. \A d \in Clients : CliMoved(d)
  BY CommandMoves
<1>. QED BY <1>2, <1>3, <1>4, OwnerKept

\* The steps of stopLike, which only delete takes here
LEMMA StopOwns ==
  ASSUME TypeInv, TypeInv', Ownership, FailedKept, Unstopped, NEW c \in Clients, StopStep(c)
  PROVE  Ownership'
<1>. USE DEF CAt
<1>0. /\ cli \in [Clients -> Cli] /\ cli[c] \in Cli /\ meta \in Meta
      /\ runner \in [Clients -> Runner]
      /\ cli[c].snap \in (Clients \X Nat) \cup {None}
  BY DEF TypeInv, RunnerInv, Cli, Invocations
<1>1. cli[c].pc \in Controls
  BY DEF StopStep, StopReads, CancelReserved, MarkStop, StopSignals, StopSeesGone,
         StopEscalates, SettleStop, SeesRunnerGone, SignalsRunner, Controls, Unstopped
<1>2. ~Open
  BY <1>1 DEF Ownership, CliPart, Controlled
<1>3. OtherCommands(c) /\ cli'[c].pc \notin Unspawning
  <2>1. CASE StopReads(c)
    <3>1. StopLooks(c, cli)
      BY <1>1, <2>1 DEF StopReads, Controls
    <3>. QED BY <1>0, <3>1 DEF StopLooks, Unspawning, OtherCommands, Done, NoCli, Cli
  <2>2. CASE MarkStop(c) \/ StopSeesGone(c)
    BY <1>0, <2>2, CommandTo DEF MarkStop, StopSeesGone, OtherCommands, Unspawning, Cli
  <2>3. CASE StopEscalates(c) \/ SignalsRunner(c)
    BY <2>3 DEF StopEscalates, SignalsRunner, OtherCommands, Unspawning
  <2>4. CASE CancelReserved(c) \/ StopSignals(c) \/ SettleStop(c) \/ SeesRunnerGone(c)
    BY <2>4, CommandTo
    DEF CancelReserved, StopSignals, SettleStop, SeesRunnerGone, StopReturns, Unspawning
  <2>. QED BY <2>1, <2>2, <2>3, <2>4 DEF StopStep
<1>4. CASE StopReads(c) \/ StopSignals(c) \/ StopSeesGone(c) \/ StopEscalates(c)
           \/ SeesRunnerGone(c)
  <2>1. /\ UNCHANGED <<exists, meta, runner>>
        /\ \/ child' = child
           \/ \E status \in {"term", "signalled"} :
                child' = Signalled(child, cli[c].snap, status)
    BY <1>4 DEF StopReads, StopSignals, StopSeesGone, StopEscalates, SeesRunnerGone, COnly
  <2>. QED BY <1>0, <1>1, <1>3, <2>1, CommandStep
<1>5. CASE CancelReserved(c) \/ MarkStop(c) \/ SettleStop(c)
  <2>1. Outcome(StopCommand(c)) \in {"stopped", "killed"}
    BY DEF Outcome, StopCommand
  <2>2. /\ meta'.pid = meta.pid /\ meta'.runner_pid = meta.runner_pid
        /\ meta'.res \in {meta.res, "absent"}
        /\ meta'.delete_pending = meta.delete_pending
        /\ meta'.state \in {meta.state, Outcome(StopCommand(c))}
    <3>1. CASE CancelReserved(c)
      BY <1>0, <3>1
      DEF CancelReserved, Update, SetInactive, FinalizeTerminal, BeginStopLike, Meta
    <3>2. CASE MarkStop(c)
      BY <1>0, <3>2 DEF MarkStop, BeginStopLike, Meta
    <3>3. CASE SettleStop(c)
      BY <1>0, <3>3 DEF SettleStop, Update, SetInactive, FinalizeTerminal, Meta
    <3>. QED BY <1>5, <3>1, <3>2, <3>3
  <2>3. UNCHANGED <<exists, runner, child>>
    BY <1>5 DEF CancelReserved, MarkStop, SettleStop
  <2>4. ~Open'
    BY <1>2, <2>2, <2>3 DEF Open
  <2>5. meta'.state \in {meta.state, "stopped", "killed"}
    BY <2>1, <2>2
  <2>. QED BY <1>3, <2>2, <2>3, <2>4, <2>5, ClosedWrites
<1>6. CASE SignalsRunner(c)
  <2>1. UNCHANGED <<exists, meta, child, cli>> /\ SameRecord /\ ~Open'
    BY <1>2, <1>6 DEF SignalsRunner, SameRecord, Open
  <2>2. \A s \in Clients :
          \/ runner'[s].pc = runner[s].pc /\ runner'[s].prompt = runner[s].prompt
          \/ runner[s].pc # "unborn" /\ runner'[s].pc = "crashed"
    BY <1>0, <1>6 DEF SignalsRunner, RunnerGone, RunnerAlive, Crashed, NoRunner
  <2>3. RecordMoves
    BY <2>1, SignalsOnly, SameMoves
  <2>4. \A s \in Clients : Moved(s)
    BY <2>1, <2>2, OthersMove
  <2>5. \A d \in Clients : CliMoved(d)
    BY <2>1, <2>2, CommandsStay
  <2>. QED BY <2>3, <2>4, <2>5, OwnerKept
<1>. QED BY <1>4, <1>5, <1>6 DEF StopStep

\* The steps of agent delete and clean, and a command that is killed
LEMMA RemovalOwns ==
  ASSUME TypeInv, TypeInv', Ownership, FailedKept, NEW c \in Clients,
         RemovalStep(c) \/ CliCrash(c)
  PROVE  Ownership'
<1>. USE DEF CAt
<1>0. cli \in [Clients -> Cli] /\ cli[c] \in Cli /\ meta \in Meta
  BY DEF TypeInv
<1>1. CASE DeleteReads(c) \/ CliCrash(c)
  <2>1. OtherCommands(c) /\ cli'[c].pc \in {"done", "tombstone", "crashed"}
    <3>1. CASE DeleteReads(c)
      BY <1>0, <3>1 DEF DeleteReads, OtherCommands, Done, NoCli, Cli
    <3>2. CASE CliCrash(c)
      BY <1>0, <3>2 DEF CliCrash, OtherCommands, NoCli
    <3>. QED BY <1>1, <3>1, <3>2
  <2>. QED BY <1>1, <2>1, CommandStep
           DEF DeleteReads, CliCrash, COnly, Controls, Unspawning
<1>2. CASE Tombstone(c) \/ MarkExpired(c)
  <2>1. OtherCommands(c) /\ cli'[c].pc \in {"done", "stopDeleted", "remove"}
    BY <1>0, <1>2, CommandTo DEF Tombstone, MarkExpired, OtherCommands, Cli
  <2>2. meta' = IF exists THEN [meta EXCEPT !.delete_pending = TRUE] ELSE meta
    BY <1>2 DEF Tombstone, MarkExpired, Update
  <2>3. /\ meta'.pid = meta.pid /\ meta'.runner_pid = meta.runner_pid
        /\ meta'.res = meta.res /\ meta'.state = meta.state
        /\ exists => meta'.delete_pending
    BY <1>0, <2>2 DEF Meta
  <2>4. UNCHANGED <<exists, runner, child>> /\ ~Open'
    BY <1>2, <2>3 DEF Tombstone, MarkExpired, COnly, Open
  <2>. QED BY <2>1, <2>3, <2>4, ClosedWrites DEF Unspawning
<1>3. CASE Remove(c)
  <2>1. OtherCommands(c) /\ cli'[c].pc = "done"
    BY <1>3, CommandTo DEF Remove
  <2>2. ~exists' /\ ~Open' /\ meta'.pid = None /\ meta'.runner_pid = None
    BY <1>3 DEF Remove, IdleMeta, Open
  <2>. QED BY <1>3, <2>1, <2>2, ClosedWrites DEF Remove, Unspawning
<1>. QED BY <1>1, <1>2, <1>3 DEF RemovalStep

-----------------------------------------------------------------------------
(* The invariant *)

\* Nobody is at work yet.
LEMMA OwnershipInit == Init => Ownership
<1>. SUFFICES ASSUME Init PROVE Ownership
  OBVIOUS
<1>1. /\ \A r \in Clients : runner[r].pc = "unborn" /\ ~Holds(r)
      /\ \A c \in Clients : cli[c].pc = "idle"
      /\ meta.pid = None /\ meta.runner_pid = None /\ meta.pending_prompt = None
      /\ ~StopLike(meta)
  BY DEF Init, NoRunner, NoCli, IdleMeta, StopLike, Holds, Holding
<1>2. \A r \in Clients : r # None
  BY LifecycleAssumption
<1>3. CliPart
  BY <1>1, <1>2 DEF CliPart, Unspawned, Controlled, Published, Controls
<1>4. RecordPart
  BY <1>1 DEF RecordPart, NoIntent, OneOwner, Unrefused, Waiting, Replaceable
<1>5. NamePart
  BY <1>1 DEF NamePart, Named, Counted, Unstarted, Standing, Alive, InvocationAlive
<1>. QED BY <1>3, <1>4, <1>5 DEF Ownership

\* Every step leaves the record to one runner.
LEMMA OwnershipStep ==
  ASSUME Unstopped, TypeInv, Ownership, [Next]_vars
  PROVE  Ownership'
<1>0. TypeInv' /\ FailedKept /\ meta \in Meta
  BY TypeStep, FailuresKept DEF TypeInv
<1>1. ASSUME NEW c \in Clients, RunStep(c) \/ StopStep(c) \/ RemovalStep(c) \/ CliCrash(c)
      PROVE  Ownership'
  BY <1>0, <1>1, RunOwns, StopOwns, RemovalOwns
<1>2. ASSUME NEW r \in Clients, RunnerAct(r) \/ Poll(r) \/ ChildStep(r) \/ RunnerCrash(r)
      PROVE  Ownership'
  BY <1>0, <1>2, RunnerOwns, ChildOwns
<1>a. ASSUME UNCHANGED <<exists, runner, child, cli>>, RecordMoves,
             meta'.pending_prompt = meta.pending_prompt
      PROVE  Ownership'
  <2>1. \A r \in Clients : Moved(r)
    BY <1>a, OthersMove DEF RecordMoves
  <2>2. \A c \in Clients : CliMoved(c)
    BY <1>a, CommandsStay
  <2>. QED BY <1>0, <1>a, <2>1, <2>2, OwnerKept
<1>3. CASE Reconcile
  <2>1. /\ UNCHANGED <<exists, runner, child, cli>> /\ RecordFailure
        /\ ~Alive /\ ~ReservationInFlight(meta)
    BY <1>3 DEF Reconcile, DeadMeta, Alive
  <2>2. Open => \A r \in Clients : ~Holds(r)'
    BY <2>1, InFlightHeld DEF Holds
  <2>. QED BY <1>0, <1>a, <2>1, <2>2, ReleaseMoves
<1>4. CASE ReservationGraceEnds \/ StartWindowEnds \/ UNCHANGED vars
  <2>1. SameRecord /\ UNCHANGED <<exists, runner, child, cli>>
    BY <1>0, <1>4 DEF ReservationGraceEnds, StartWindowEnds, SameRecord, Meta, vars
  <2>2. RecordMoves
    BY <1>0, <2>1, SignalsOnly, SameMoves DEF SameRecord
  <2>. QED BY <1>a, <2>1, <2>2 DEF SameRecord
<1>. QED BY <1>1, <1>2, <1>3, <1>4 DEF Next

\* The invariant holds throughout, with the types and the account of prompts.
LEMMA OwnershipHolds == Unstopped => (Spec => [](TypeInv /\ Ledger /\ Ownership))
<1>. SUFFICES ASSUME Unstopped PROVE Spec => [](TypeInv /\ Ledger /\ Ownership)
  OBVIOUS
<1>1. Init => TypeInv /\ Ledger /\ Ownership
  BY TypeInit, LedgerInit, OwnershipInit
<1>2. TypeInv /\ Ledger /\ Ownership /\ [Next]_vars => (TypeInv /\ Ledger /\ Ownership)'
  BY TypeStep, LedgerStep, OwnershipStep DEF KeepsAccount
<1>. QED BY <1>1, <1>2, PTL DEF Spec

\* No accepted prompt vanishes, for any number of runs, steers, cleans and
\* deletes, crashes of clients and runners, failures and recoveries: as long as
\* nobody stops or kills the agent, cmdRun finds no prompt to overwrite, because a
\* record that holds one is in flight or is recovered.
THEOREM NoPromptVanishes == Unstopped => (Spec => []NothingLost)
<1>. SUFFICES ASSUME Unstopped PROVE Spec => []NothingLost
  OBVIOUS
<1>1. Ownership => \A c \in Clients : RunBegins(c) => Replaceable
  BY DEF Ownership, RecordPart, Waiting, RunBegins, Accepting, Open, Replaceable
<1>2. Init => NothingLost
  BY DEF Init, NothingLost, Elements
<1>3. TypeInv /\ Ledger /\ Ownership /\ NothingLost /\ [Next]_vars => NothingLost'
  BY <1>1, LedgerStep DEF KeepsAccount, DropsNone
<1>. QED BY <1>2, <1>3, OwnershipHolds, PTL DEF Spec

\* An invocation that the record names is not written off while it is alive, as
\* long as nobody stops or kills the agent: reconcileDeadMeta, the refusals of the
\* runner and the failed write of the client all find it ended or not started.
THEOREM LiveIsNotWrittenOff == Unstopped => (Spec => []LiveNotWrittenOff)
<1>. SUFFICES ASSUME Unstopped PROVE Spec => []LiveNotWrittenOff
  OBVIOUS
<1>1. Ownership => LiveNotWrittenOff
  BY DEF Ownership, NamePart, Standing, LiveNotWrittenOff, Live, Alive
<1>. QED BY <1>1, OwnershipHolds, PTL

-----------------------------------------------------------------------------
(* One invocation at a time *)

\* Nobody stops or kills the agent, and no runner is killed from outside.
Calm == Unstopped /\ "runnerCrash" \notin Chances

\* A runner that has an invocation to look after.
Watching == {"record", "watch", "reject"}
Busy(r)  == Holds(r) \/ r \in Live

\* A live invocation is watched by its runner, unless a delete has killed that
\* one; one runner at a time is busy; and controls come from a delete.
Watched   == \A r \in Live : \/ runner[r].pc \in Watching
                             \/ ~Open /\ "delete" \in Commands
OneBusy   == \A r, s \in Clients : Busy(r) /\ Busy(s) => r = s
Undeleted == "delete" \notin Commands =>
               \A c \in Clients : cli[c].pc \notin (Controls \ {"remove"}) \cup {"tombstone"}
Attended  == Watched /\ OneBusy /\ Undeleted

\* Nothing opens a record again.
LEMMA OpenShrinks ==
  ASSUME TypeInv, Ledger, [Next]_vars PROVE (exists' => exists) /\ (Open' => Open)
<1>1. exists' \in {exists, FALSE}
  <2>1. ASSUME NEW c \in Clients, RunStep(c) PROVE exists' = exists
    BY <2>1
    DEF RunStep, RunReads, RunRefused, RunPreempts, RunReuses, RunRecovers, RunBegins,
        SpawnRunner, AwaitClaim, FailUnclaimedRunner, ReportRunner, Follow, Interrupt,
        COnly, Accepts, history
  <2>2. ASSUME NEW c \in Clients, StopStep(c) \/ RemovalStep(c) \/ CliCrash(c)
        PROVE  exists' \in {exists, FALSE}
    BY <2>2
    DEF StopStep, StopReads, CancelReserved, MarkStop, StopSignals, StopSeesGone,
        StopEscalates, SettleStop, SeesRunnerGone, SignalsRunner, RemovalStep,
        DeleteReads, Tombstone, MarkExpired, Remove, CliCrash, COnly, history
  <2>3. ASSUME NEW r \in Clients, RunnerAct(r) PROVE exists' = exists
    BY <2>3
    DEF RunnerAct, ClaimRunner, NextPrompt, ClaimPendingPrompt, ReleaseUnclaimed, Gate,
        LaunchRefused, Spawn, Abort, RecordSpawned, RejectSpawn, RecordThrows,
        ReleaseUnrecordedSpawn, Unidentified, Reap, RememberFreshSession, PlanRecovery,
        PlanFails, WaitForRecovery, WaitStopped, WaitSteered, FinalizeInvocation,
        ReclaimOrStop, ROnly, history
  <2>4. ASSUME NEW r \in Clients, Poll(r) \/ ChildStep(r) \/ RunnerCrash(r)
        PROVE  exists' = exists
    BY <2>4
    DEF Poll, PollKill, PollControl, PollEscalate, PollStalled, PollStallKill,
        CheckpointSession, SignalFromPoll, ChildStep, ChildSession, ChildEnds, ChildKilled,
        RunnerCrash, ROnly, history
  <2>5. CASE Reconcile \/ ReservationGraceEnds \/ StartWindowEnds \/ UNCHANGED vars
    BY <2>5 DEF Reconcile, ReservationGraceEnds, StartWindowEnds, history, vars
  <2>. QED BY <2>1, <2>2, <2>3, <2>4, <2>5 DEF Next
<1>2. meta.delete_pending => (exists' => meta'.delete_pending)
  BY LedgerStep DEF KeepsAccount, RespectsTombstone
<1>3. exists' => exists
  BY <1>1 DEF TypeInv, RestOK
<1>. QED BY <1>2, <1>3 DEF Open

\* Which invocations are alive after a signal.
LEMMA SignalledLive ==
  ASSUME TypeInv,
         \/ child' = child
         \/ \E i \in (Clients \X Nat) \cup {None}, status \in {"term", "signalled"} :
               child' = Signalled(child, i, status)
  PROVE  Live' \subseteq Live
<1>1. child \in [Clients -> Child]
  BY DEF TypeInv, ChildOK
<1>2. CASE child' = child
  BY <1>2 DEF Live, InvocationAlive, Invocation
<1>3. ASSUME NEW i \in (Clients \X Nat) \cup {None}, NEW status \in {"term", "signalled"},
             child' = [child EXCEPT ![i[1]].status = status], InvocationAlive(i)
      PROVE  Live' \subseteq Live
  <2>1. /\ i[1] \in Clients
        /\ child[i[1]].status \in {"live", "term"}
    BY <1>3 DEF InvocationAlive
  <2>2. \A c \in Clients : child'[c].n = child[c].n
    BY <1>1, <1>3 DEF Child
  <2>3. \A c \in Clients \ {i[1]} : child'[c] = child[c]
    BY <1>1, <1>3
  <2>. QED BY <2>1, <2>2, <2>3 DEF Live, InvocationAlive, Invocation
<1>. QED BY <1>2, <1>3 DEF Signalled

\* A kill ends the invocation of the runner.
LEMMA KillEnds ==
  ASSUME TypeInv, NEW r \in Clients, Kill(r) PROVE r \notin Live'
<1>1. child \in [Clients -> Child]
  BY DEF TypeInv, ChildOK
<1>2. CASE InvocationAlive(Invocation(r))
  <2>1. child' = [child EXCEPT ![r].status = "signalled"]
    BY <1>2 DEF Kill, Signalled, Invocation
  <2>2. child'[r].status = "signalled"
    BY <1>1, <2>1 DEF Child
  <2>. QED BY <2>2 DEF Live, InvocationAlive, Invocation
<1>3. CASE ~InvocationAlive(Invocation(r))
  BY <1>3 DEF Kill, Signalled, Live, InvocationAlive, Invocation
<1>. QED BY <1>2, <1>3

\* A step that brings no new owner and no new invocation.
LEMMA AttendedKept ==
  ASSUME Attended, Undeleted', Open' => Open, Live' \subseteq Live,
         \A r \in Clients : Holds(r)' => Holds(r),
         \A r \in Live' : runner[r].pc \in Watching =>
           runner'[r].pc \in Watching \/ (~Open' /\ "delete" \in Commands)
  PROVE  Attended'
<1>1. Watched'
  BY DEF Attended, Watched
<1>2. OneBusy'
  BY DEF Attended, OneBusy, Busy
<1>. QED BY <1>1, <1>2 DEF Attended

\* Controls come from a delete.
LEMMA UndeletedStep ==
  ASSUME TypeInv, Unstopped, Undeleted, [Next]_vars PROVE Undeleted'
<1>. DEFINE Own(c) == cli[c].pc \notin (Controls \ {"remove"}) \cup {"tombstone"}
<1>. USE DEF CAt
<1>. SUFFICES ASSUME "delete" \notin Commands, \A c \in Clients : Own(c)
              PROVE  \A c \in Clients : Own(c)'
  BY DEF Undeleted
<1>0. cli \in [Clients -> Cli]
  BY DEF TypeInv
<1>a. ASSUME UNCHANGED cli PROVE \A c \in Clients : Own(c)'
  BY <1>a
<1>b. ASSUME NEW c \in Clients, OtherCommands(c), Own(c)' PROVE \A d \in Clients : Own(d)'
  BY <1>b DEF OtherCommands
<1>1. ASSUME NEW c \in Clients, RunStep(c) PROVE \A d \in Clients : Own(d)'
  <2>1. CASE RunReads(c)
    <3>1. OtherCommands(c) /\ cli'[c].pc \in {"done", "accept"}
      BY <1>0, <2>1 DEF RunReads, OtherCommands, Done, NoCli, Cli
    <3>. QED BY <1>b, <3>1 DEF Controls
  <2>2. CASE Accepted(c)
    <3>1. OtherCommands(c) /\ cli'[c].pc \in {"interrupt", "done", "spawn"}
      BY <1>0, <2>2, CommandTo
      DEF Accepted, RunPreempts, RunReuses, RunRecovers, RunBegins, OtherCommands, Cli
    <3>. QED BY <1>b, <3>1 DEF Controls
  <2>3. CASE \/ RunRefused(c) \/ SpawnRunner(c) \/ AwaitClaim(c) \/ FailUnclaimedRunner(c)
             \/ ReportRunner(c) \/ Follow(c) \/ Interrupt(c)
    <3>1. OtherCommands(c)
          /\ cli'[c].pc \in {"done", "ack", "follow", "unclaimed", "report"}
      BY <2>3, CommandTo
      DEF RunRefused, SpawnRunner, AwaitClaim, FailUnclaimedRunner, ReportRunner, Follow,
          Interrupt, Acknowledge
    <3>. QED BY <1>b, <3>1 DEF Controls
  <2>. QED BY <1>1, <2>1, <2>2, <2>3 DEF RunStep, Accepted
<1>2. ASSUME NEW c \in Clients PROVE ~StopStep(c)
  BY DEF StopStep, StopReads, CancelReserved, MarkStop, StopSignals, StopSeesGone,
         StopEscalates, SettleStop, SeesRunnerGone, SignalsRunner, Controls, Unstopped
<1>3. ASSUME NEW c \in Clients, RemovalStep(c) \/ CliCrash(c) PROVE \A d \in Clients : Own(d)'
  <2>1. OtherCommands(c) /\ cli'[c].pc \in {"done", "remove", "crashed"}
    <3>1. CASE MarkExpired(c)
      BY <1>0, <3>1 DEF MarkExpired, OtherCommands, Cli
    <3>2. CASE CliCrash(c)
      BY <1>0, <3>2 DEF CliCrash, OtherCommands, NoCli
    <3>3. CASE Remove(c)
      BY <3>3, CommandTo DEF Remove
    <3>. QED BY <1>3, <3>1, <3>2, <3>3 DEF RemovalStep, DeleteReads, Tombstone
  <2>. QED BY <1>b, <2>1 DEF Controls
<1>4. ASSUME NEW r \in Clients, RunnerAct(r) PROVE UNCHANGED cli
  BY <1>4
  DEF RunnerAct, ClaimRunner, NextPrompt, ClaimPendingPrompt, ReleaseUnclaimed, Gate,
      LaunchRefused, Spawn, Abort, RecordSpawned, RejectSpawn, RecordThrows,
      ReleaseUnrecordedSpawn, Unidentified, Reap, RememberFreshSession, PlanRecovery,
      PlanFails, WaitForRecovery, WaitStopped, WaitSteered, FinalizeInvocation,
      ReclaimOrStop, ROnly
<1>5. ASSUME NEW r \in Clients, Poll(r) \/ ChildStep(r) \/ RunnerCrash(r)
      PROVE  UNCHANGED cli
  BY <1>5
  DEF Poll, PollKill, PollControl, PollEscalate, PollStalled, PollStallKill,
      CheckpointSession, SignalFromPoll, ChildStep, ChildSession, ChildEnds, ChildKilled,
      RunnerCrash, ROnly
<1>6. CASE Reconcile \/ ReservationGraceEnds \/ StartWindowEnds \/ UNCHANGED vars
  BY <1>6, <1>a DEF Reconcile, ReservationGraceEnds, StartWindowEnds, vars
<1>. QED BY <1>a, <1>1, <1>2, <1>3, <1>4, <1>5, <1>6 DEF Next

\* A runner acts alone, and only a claim makes it the one at work.
LEMMA RunnerAlone ==
  ASSUME TypeInv, NEW r \in Clients, RunnerAct(r)
  PROVE  /\ UNCHANGED cli /\ OtherRunners(r)
         /\ Holds(r) \/ ClaimRunner(r)
<1>0. runner \in [Clients -> Runner]
  BY DEF TypeInv, RunnerInv
<1>1. UNCHANGED cli
  BY DEF RunnerAct, ClaimRunner, NextPrompt, ClaimPendingPrompt, ReleaseUnclaimed, Gate,
         LaunchRefused, Spawn, Abort, RecordSpawned, RejectSpawn, RecordThrows,
         ReleaseUnrecordedSpawn, Unidentified, Reap, RememberFreshSession, PlanRecovery,
         PlanFails, WaitForRecovery, WaitStopped, WaitSteered, FinalizeInvocation,
         ReclaimOrStop, ROnly
<1>2. Holds(r) \/ ClaimRunner(r)
  BY DEF RunnerAct, NextPrompt, ClaimPendingPrompt, ReleaseUnclaimed, Gate,
         LaunchRefused, Spawn, Abort, RecordSpawned, RejectSpawn, RecordThrows,
         ReleaseUnrecordedSpawn, Unidentified, Reap, RememberFreshSession, PlanRecovery,
         PlanFails, WaitForRecovery, WaitStopped, WaitSteered, FinalizeInvocation,
         ReclaimOrStop, RAt, Holds, Holding, RunnerLabels
<1>3. OtherRunners(r)
  <2>1. ASSUME NEW x, runner' = [runner EXCEPT ![r] = x] PROVE OtherRunners(r)
    BY <1>0, <2>1 DEF OtherRunners
  <2>2. \E x : runner' = [runner EXCEPT ![r] = x]
    BY DEF RunnerAct, ClaimRunner, NextPrompt, ClaimPendingPrompt, ReleaseUnclaimed, Gate,
           LaunchRefused, Spawn, Abort, RecordSpawned, RejectSpawn, RecordThrows,
           ReleaseUnrecordedSpawn, Unidentified, Reap, RememberFreshSession, PlanRecovery,
           PlanFails, WaitForRecovery, WaitStopped, WaitSteered, FinalizeInvocation,
           ReclaimOrStop, RGoto, RExit
  <2>. QED BY <2>1, <2>2
<1>. QED BY <1>1, <1>2, <1>3

\* A runner does not leave a live invocation of its own, except to spawn one or
\* to claim a record while it has none.
LEMMA RunnerWatches ==
  ASSUME TypeInv, NEW r \in Clients, RunnerAct(r), ~Spawn(r), ~ClaimRunner(r)
  PROVE  /\ Live' \subseteq Live
         /\ r \in Live' => (runner[r].pc \in Watching => runner'[r].pc \in Watching)
<1>. USE DEF RAt
<1>0. /\ child \in [Clients -> Child] /\ Invocation(r) \in Clients \X Nat
  BY DEF TypeInv, ChildOK, Child, Invocation
<1>1. CASE RejectSpawn(r) \/ RecordThrows(r)
  <2>1. Kill(r)
    BY <1>1 DEF RejectSpawn, RecordThrows
  <2>2. child' = Signalled(child, Invocation(r), "signalled")
    BY <2>1 DEF Kill
  <2>. QED BY <1>0, <2>1, <2>2, KillEnds, SignalledLive
<1>2. CASE Unidentified(r)
  <2>1. CASE Kill(r)
    <3>1. child' = Signalled(child, Invocation(r), "signalled")
      BY <2>1 DEF Kill
    <3>. QED BY <1>0, <2>1, <3>1, KillEnds, SignalledLive
  <2>2. CASE UNCHANGED child /\ RGoto(r, "watch")
    BY <2>2, RunnerTo, SignalledLive DEF Watching
  <2>. QED BY <1>2, <2>1, <2>2 DEF Unidentified
<1>3. CASE RecordSpawned(r)
  <2>1. child' = child /\ runner'[r].pc \in {"reject", "watch"}
    BY <1>3, RunnerTo DEF RecordSpawned, ROnly
  <2>. QED BY <2>1, SignalledLive DEF Watching
<1>4. CASE Reap(r)
  <2>1. child' = child /\ r \notin Live
    BY <1>4 DEF Reap, ROnly, Live, InvocationAlive, Invocation, Ended
  <2>. QED BY <2>1, SignalledLive
<1>5. CASE FinalizeInvocation(r)
  <2>1. child' = [child EXCEPT ![r].status = "reaped"] /\ runner[r].pc = "final"
    BY <1>5 DEF FinalizeInvocation
  <2>2. Live' \subseteq Live
    BY <1>0, <2>1 DEF Live, InvocationAlive, Invocation, Child
  <2>. QED BY <2>1, <2>2 DEF Watching
<1>6. CASE runner[r].pc \notin Watching /\ child' = child
  BY <1>6, SignalledLive
<1>. QED BY <1>1, <1>2, <1>3, <1>4, <1>5, <1>6
     DEF RunnerAct, NextPrompt, ClaimPendingPrompt, ReleaseUnclaimed, Gate,
         LaunchRefused, Abort, ReleaseUnrecordedSpawn, RememberFreshSession, PlanRecovery,
         PlanFails, WaitForRecovery, WaitStopped, WaitSteered, ReclaimOrStop, ROnly, Watching

\* The poll and the invocation bring none to life, and leave runners where they are.
LEMMA ChildWatches ==
  ASSUME TypeInv, NEW r \in Clients, Poll(r) \/ ChildStep(r)
  PROVE  /\ UNCHANGED cli /\ Live' \subseteq Live
         /\ \A s \in Clients : runner'[s].pc = runner[s].pc
<1>0. /\ runner \in [Clients -> Runner] /\ child \in [Clients -> Child]
      /\ Invocation(r) \in Clients \X Nat /\ meta.pid \in (Clients \X Nat) \cup {None}
  <2>1. meta.pid \in (Clients \X Nat) \cup {None}
    BY InvocationType, TypeInvOK
  <2>. QED BY <2>1 DEF TypeInv, RunnerInv, ChildOK, Child, Invocation
<1>1. UNCHANGED cli
  BY DEF Poll, PollKill, PollControl, PollEscalate, PollStalled, PollStallKill,
         CheckpointSession, SignalFromPoll, ChildStep, ChildSession, ChildEnds, ChildKilled,
         ROnly
<1>2. Live' \subseteq Live
  <2>1. CASE ChildEnds(r)
    <3>1. PICK status \in Ended : child' = [child EXCEPT ![r].status = status]
      BY <2>1 DEF ChildEnds
    <3>. QED BY <1>0, <3>1 DEF Live, InvocationAlive, Invocation, Child, Ended
  <2>2. CASE ~ChildEnds(r)
    <3>1. \/ child' = child
          \/ \E i \in {meta.pid, Invocation(r)}, status \in {"term", "signalled"} :
               child' = Signalled(child, i, status)
      BY <2>2 DEF Poll, PollKill, PollControl, PollEscalate, PollStalled, PollStallKill,
                  CheckpointSession, SignalFromPoll, ChildStep, ChildSession, ChildKilled,
                  Kill, ROnly
    <3>. QED BY <1>0, <3>1, SignalledLive
  <2>. QED BY <2>1, <2>2
<1>3. \A s \in Clients : runner'[s].pc = runner[s].pc
  <2>1. CASE \/ runner' = runner
             \/ SignalFromPoll(r, "term") \/ SignalFromPoll(r, "signalled")
             \/ runner' = [runner EXCEPT ![r].stalled = TRUE]
    BY <1>0, <2>1 DEF SignalFromPoll, Runner
  <2>. QED BY <2>1
           DEF Poll, PollKill, PollControl, PollEscalate, PollStalled, PollStallKill,
               CheckpointSession, ChildStep, ChildSession, ChildEnds, ChildKilled
<1>. QED BY <1>1, <1>2, <1>3

\* The commands bring no invocation to life; only spawnRunner and the end of a
\* delete move a runner.
LEMMA CommandWatches ==
  ASSUME TypeInv, NEW c \in Clients,
         RunStep(c) \/ StopStep(c) \/ RemovalStep(c) \/ CliCrash(c)
  PROVE  /\ Live' \subseteq Live
         /\ UNCHANGED runner \/ SpawnRunner(c) \/ SignalsRunner(c)
<1>1. meta.pid \in (Clients \X Nat) \cup {None} /\ cli[c].snap \in (Clients \X Nat) \cup {None}
  <2>1. meta.pid \in (Clients \X Nat) \cup {None}
    BY InvocationType, TypeInvOK
  <2>. QED BY <2>1 DEF TypeInv, Cli, Invocations
<1>2. \/ child' = child
      \/ \E i \in {meta.pid, cli[c].snap}, status \in {"term", "signalled"} :
           child' = Signalled(child, i, status)
  BY DEF RunStep, RunReads, RunRefused, RunPreempts, RunReuses, RunRecovers, RunBegins,
         SpawnRunner, AwaitClaim, FailUnclaimedRunner, ReportRunner, Follow, Interrupt,
         COnly, Accepts, StopStep, StopReads, CancelReserved, MarkStop, StopSignals,
         StopSeesGone, StopEscalates, SettleStop, SeesRunnerGone, SignalsRunner, RemovalStep,
         DeleteReads, Tombstone, MarkExpired, Remove, CliCrash
<1>3. UNCHANGED runner \/ SpawnRunner(c) \/ SignalsRunner(c)
  BY DEF RunStep, RunReads, RunRefused, RunPreempts, RunReuses, RunRecovers, RunBegins,
         AwaitClaim, FailUnclaimedRunner, ReportRunner, Follow, Interrupt,
         COnly, Accepts, StopStep, StopReads, CancelReserved, MarkStop, StopSignals,
         StopSeesGone, StopEscalates, SettleStop, SeesRunnerGone, RemovalStep,
         DeleteReads, Tombstone, MarkExpired, Remove, CliCrash
<1>. QED BY <1>1, <1>2, <1>3, SignalledLive

\* Every step keeps the record attended.
LEMMA AttendedStep ==
  ASSUME Calm, TypeInv, Ledger, Ownership, Attended, [Next]_vars
  PROVE  Attended'
<1>. USE DEF RAt, CAt
<1>0. /\ Open' => Open
      /\ Undeleted'
      /\ runner \in [Clients -> Runner] /\ child \in [Clients -> Child]
  BY OpenShrinks, UndeletedStep DEF Calm, Attended, TypeInv, RunnerInv, ChildOK
<1>a. ASSUME \A s \in Clients : runner'[s].pc = runner[s].pc, Live' \subseteq Live
      PROVE  Attended'
  BY <1>0, <1>a, AttendedKept DEF Holds, Live
<1>1. ASSUME NEW c \in Clients, RunStep(c) \/ StopStep(c) \/ RemovalStep(c) \/ CliCrash(c)
      PROVE  Attended'
  <2>1. Live' \subseteq Live
    BY <1>1, CommandWatches
  <2>2. CASE UNCHANGED runner
    BY <1>a, <2>1, <2>2
  <2>3. CASE SpawnRunner(c)
    <3>1. runner[c].pc = "unborn"
      BY <2>3 DEF SpawnRunner, Ownership, CliPart, Unspawned, Unspawning
    <3>2. runner'[c].pc = "claim" /\ OtherRunners(c)
      BY <1>0, <2>3 DEF SpawnRunner, OtherRunners, Runner
    <3>. QED BY <1>0, <2>1, <3>1, <3>2, AttendedKept
             DEF Holds, Holding, OtherRunners, Watching, Live
  <2>4. CASE SignalsRunner(c)
    <3>1. cli[c].pc \in Controls \ {"remove"}
      BY <2>4 DEF SignalsRunner, Controls
    <3>2. ~Open /\ "delete" \in Commands
      BY <3>1 DEF Ownership, CliPart, Controlled, Attended, Undeleted
    <3>3. \A s \in Clients : runner'[s] = runner[s] \/ runner'[s].pc = "crashed"
      BY <1>0, <2>4 DEF SignalsRunner, Crashed, NoRunner
    <3>. QED BY <1>0, <2>1, <3>2, <3>3, AttendedKept DEF Holds, Holding
  <2>. QED BY <1>1, <2>2, <2>3, <2>4, CommandWatches
<1>2. ASSUME NEW r \in Clients, RunnerAct(r), ~Spawn(r), ~ClaimRunner(r)
      PROVE  Attended'
  <2>1. OtherRunners(r) /\ Holds(r)
    BY <1>2, RunnerAlone
  <2>2. /\ Live' \subseteq Live
        /\ r \in Live' => (runner[r].pc \in Watching => runner'[r].pc \in Watching)
    BY <1>2, RunnerWatches
  <2>. QED BY <1>0, <2>1, <2>2, AttendedKept DEF OtherRunners, Holds, Live
<1>3. ASSUME NEW r \in Clients, Spawn(r) PROVE Attended'
  <2>1. /\ runner'[r].pc = "record" /\ OtherRunners(r) /\ UNCHANGED meta
        /\ \A s \in Clients \ {r} : child'[s] = child[s]
    BY <1>0, <1>3 DEF Spawn, OtherRunners, Runner
  <2>2. Live' \subseteq Live \cup {r}
    BY <2>1 DEF Live, InvocationAlive, Invocation
  <2>3. Holds(r)
    BY <1>3 DEF Spawn, Holds, Holding, RunnerLabels
  <2>4. Watched'
    BY <1>0, <2>1, <2>2 DEF Attended, Watched, Watching, OtherRunners, Live
  <2>5. OneBusy'
    BY <2>1, <2>2, <2>3 DEF Attended, OneBusy, Busy, Holds, OtherRunners
  <2>. QED BY <1>0, <2>4, <2>5 DEF Attended
<1>4. ASSUME NEW r \in Clients, ClaimRunner(r) PROVE Attended'
  <2>1. OtherRunners(r) /\ runner'[r].pc \in {"loop", "exited"} /\ runner[r].pc = "claim"
    BY <1>4, RunnerTo DEF ClaimRunner
  <2>2. Live' \subseteq Live
    BY <1>4, SignalledLive DEF ClaimRunner, ROnly
  <2>3. CASE runner'[r].pc = "exited"
    BY <1>0, <2>1, <2>2, <2>3, AttendedKept
    DEF OtherRunners, Holds, Holding, Live, Watching
  <2>4. CASE Open /\ meta.res = "reserved"
    <3>1. \A s \in Clients : ~Holds(s)
      BY <2>4 DEF Ownership, RecordPart, OneOwner
    <3>2. Live = {}
      BY <2>4, <3>1 DEF Attended, Watched, Watching, Holds, Holding, RunnerLabels, Live
    <3>3. \A s \in Clients : Busy(s)' => s = r
      BY <2>1, <2>2, <3>1, <3>2 DEF Busy, Holds, OtherRunners
    <3>4. Watched' /\ OneBusy'
      BY <2>2, <3>2, <3>3 DEF Watched, OneBusy
    <3>. QED BY <1>0, <3>4 DEF Attended
  <2>5. runner'[r].pc = "exited" \/ (Open /\ meta.res = "reserved")
    BY <1>4, RunnerTo DEF ClaimRunner, Open
  <2>. QED BY <2>3, <2>4, <2>5
<1>5. ASSUME NEW r \in Clients, Poll(r) \/ ChildStep(r) PROVE Attended'
  BY <1>5, <1>a, ChildWatches
<1>6. ASSUME NEW r \in Clients PROVE ~RunnerCrash(r)
  BY DEF RunnerCrash, Calm
<1>7. CASE Reconcile \/ ReservationGraceEnds \/ StartWindowEnds \/ UNCHANGED vars
  <2>1. UNCHANGED <<runner, child>>
    BY <1>7 DEF Reconcile, ReservationGraceEnds, StartWindowEnds, vars
  <2>. QED BY <1>a, <2>1, SignalledLive
<1>. QED BY <1>1, <1>2, <1>3, <1>4, <1>5, <1>6, <1>7 DEF Next

\* The invariant holds throughout.
LEMMA AttendedHolds == Calm => (Spec => []Attended)
<1>. SUFFICES ASSUME Calm PROVE Spec => []Attended
  OBVIOUS
<1>1. Init => Attended
  <2>. SUFFICES ASSUME Init PROVE Attended
    OBVIOUS
  <2>1. /\ \A r \in Clients : runner[r].pc = "unborn" /\ child[r].status = "none"
        /\ \A c \in Clients : cli[c].pc = "idle"
    BY DEF Init, NoRunner, NoCli
  <2>2. Live = {}
    BY <2>1 DEF Live, InvocationAlive, Invocation
  <2>. QED BY <2>1, <2>2 DEF Attended, Watched, OneBusy, Busy, Undeleted, Holds, Holding,
                             Controls
<1>2. TypeInv /\ Ledger /\ Ownership /\ Attended /\ [Next]_vars => Attended'
  BY AttendedStep
<1>3. Spec => [](TypeInv /\ Ledger /\ Ownership)
  BY OwnershipHolds DEF Calm
<1>. QED BY <1>1, <1>2, <1>3, PTL DEF Spec

\* The session has one model invocation at a time, for any number of runs, steers,
\* cleans and deletes, failures and recoveries: as long as nobody stops or kills
\* the agent and no runner is killed from outside, a runner claims a reservation
\* only after the one before it is done with its invocation.
THEOREM OneInvocationAtATime == Calm => (Spec => []AtMostOneLive)
<1>. SUFFICES ASSUME Calm PROVE Spec => []AtMostOneLive
  OBVIOUS
<1>1. Attended => AtMostOneLive
  <2>. SUFFICES ASSUME Attended PROVE Cardinality(Live) <= 1
    BY DEF AtMostOneLive
  <2>1. \A r, s \in Live : r = s
    BY DEF Attended, OneBusy, Busy, Live
  <2>2. CASE Live = {}
    BY <2>2, FS_EmptySet
  <2>3. ASSUME NEW r \in Live PROVE Cardinality(Live) <= 1
    <3>1. Live = {r}
      BY <2>1
    <3>2. Cardinality({r}) = 1
      BY FS_Singleton
    <3>. QED BY <3>1, <3>2
  <2>. QED BY <2>2, <2>3
<1>. QED BY <1>1, AttendedHolds, PTL

\* No invocation runs on unseen, if nobody deletes the agent either: its runner
\* stays with it until it has ended, through failed writes, unreadable identities
\* and refused records.
THEOREM LiveInvocationIsOwned ==
  Calm /\ "delete" \notin Commands => (Spec => []LiveIsOwned)
<1>. SUFFICES ASSUME Calm, "delete" \notin Commands PROVE Spec => []LiveIsOwned
  OBVIOUS
<1>1. Attended => LiveIsOwned
  BY LifecycleAssumption DEF Attended, Watched, Watching, LiveIsOwned, RunnerAlive, Live
<1>. QED BY <1>1, AttendedHolds, PTL

-----------------------------------------------------------------------------
(* Owed prompts have a worker *)

\* Nobody deletes the agent either, the backend does not fail in a way that is
\* retried, and the write of recordSpawned does not throw.
Steady == Calm /\ "delete" \notin Commands /\ Chances \cap {"model", "store"} = {}

\* A runner that will retry what it had launched.
Recovering(r) ==
  \/ runner[r].pc \in {"cool", "plan", "planFail", "wait", "waitSteer"}
  \/ runner[r].pc \in {"record", "watch"} /\ runner[r].stalled

\* A claimed record has its runner, a reserved one is active; what is owed and
\* not reported belongs to such a record; and a runner that retries finds the
\* record running.
Manned  == Open => /\ meta.res = "claimed" => \E r \in Clients : Holds(r)
                   /\ meta.res = "reserved" => meta.active_runner /\ meta.state = "running"
Worked  == Owed(meta) \subseteq failed \/ (Open /\ meta.res # "absent")
Ongoing == \A r \in Clients : /\ runner[r].pc # "unrecord"
                              /\ Open /\ Recovering(r) => meta.state = "running"
Manning == Manned /\ Worked /\ Ongoing

\* A step of the one at work, or of nobody, that leaves the record its owner.
LEMMA ManningKept ==
  ASSUME Manning, FailedKept, Open' = Open, Owed(meta') \subseteq Owed(meta),
         Open => /\ meta'.res = meta.res /\ meta'.active_runner = meta.active_runner
                 /\ \A r \in Clients : Holds(r) => Holds(r)'
                 /\ \/ meta'.state \in {meta.state, "running"}
                    \/ meta.res # "reserved" /\ \A r \in Clients : ~Recovering(r)',
         \A r \in Clients : runner'[r].pc # "unrecord",
         Open => \A r \in Clients : Recovering(r)' => Recovering(r) \/ meta'.state = "running"
  PROVE  Manning'
<1>1. Manned'
  BY DEF Manning, Manned
<1>2. Worked'
  BY DEF Manning, Worked, FailedKept
<1>3. Ongoing'
  BY DEF Manning, Ongoing
<1>. QED BY <1>1, <1>2, <1>3 DEF Manning

\* A step that lets the record go, with nothing owed or all of it reported.
LEMMA ManningEnds ==
  ASSUME TypeInv, Manning, FailedKept, UNCHANGED exists,
         \/ RecordFailure
         \/ Update(SetInactive(meta)) /\ (Open => Owed(meta) = {}),
         \A r \in Clients : runner'[r].pc # "unrecord" /\ (Open => ~Recovering(r)')
  PROVE  Manning'
<1>0. meta \in Meta /\ FinalizeTerminal(meta, "failed") \in Meta
  BY RecordOperations DEF TypeInv, Lifecycles, Terminal
<1>1. CASE ~exists
  <2>1. meta' = meta /\ ~Open /\ ~Open'
    BY <1>1 DEF Update, RecordFailure, Open
  <2>. QED BY <2>1 DEF Manning, Manned, Worked, Ongoing, FailedKept
<1>2. CASE exists
  <2>1. /\ SetInactive(meta).res = "absent"
        /\ SetInactive(meta).delete_pending = meta.delete_pending
        /\ Owed(SetInactive(meta)) = Owed(meta)
    BY <1>0 DEF SetInactive, Owed, Meta
  <2>2. LET m == SetInactive(FinalizeTerminal(meta, "failed"))
        IN  /\ m.res = "absent" /\ m.delete_pending = meta.delete_pending
            /\ Owed(m) = Owed(meta)
    BY <1>0 DEF SetInactive, FinalizeTerminal, Owed, Meta
  <2>3. /\ meta'.res = "absent" /\ meta'.delete_pending = meta.delete_pending
        /\ Owed(meta') = Owed(meta)
    <3>1. CASE RecordFailure
      BY <1>2, <2>2, <3>1 DEF Update, RecordFailure
    <3>2. CASE Update(SetInactive(meta))
      BY <1>2, <2>1, <3>2 DEF Update
    <3>. QED BY <3>1, <3>2
  <2>4. Open' = Open
    BY <2>3 DEF Open
  <2>5. Owed(meta') \subseteq failed'
    BY <2>3 DEF Manning, Worked, FailedKept, RecordFailure
  <2>. QED BY <2>3, <2>4, <2>5 DEF Manning, Manned, Worked, Ongoing
<1>. QED BY <1>1, <1>2

\* Nobody stops anything.
LEMMA SteadyMeans ==
  ASSUME Steady, Ownership, Attended, NEW c \in Clients
  PROVE  ~StopStep(c) /\ ~DeleteReads(c) /\ ~Tombstone(c) /\ ~RunnerCrash(c)
         /\ ~RecordThrows(c)
BY DEF Steady, Calm, Unstopped, Attended, Undeleted, StopStep, StopReads, CancelReserved,
       MarkStop, StopSignals, StopSeesGone, StopEscalates, SettleStop, SeesRunnerGone,
       SignalsRunner, DeleteReads, Tombstone, RunnerCrash, RecordThrows, Controls, CAt

\* While the record is open, runners that retry are at work, and the one at work
\* is alone.
LEMMA RecoveringHolds ==
  ASSUME TypeInv, NEW r \in Clients PROVE Recovering(r) => Holds(r)
BY DEF Recovering, Holds, Holding, RunnerLabels

\* The steps of a runner that leave the record.
LEMMA LookingMans ==
  ASSUME Steady, TypeInv, Ownership, Manning, FailedKept, NEW r \in Clients,
         LooksOn(r) \/ Spawn(r) \/ RejectSpawn(r) \/ Unidentified(r)
  PROVE  Manning'
<1>. USE DEF RAt
<1>0. /\ meta \in Meta /\ runner \in [Clients -> Runner] /\ runner[r] \in Runner
      /\ Holds(r) /\ OtherRunners(r) /\ UNCHANGED exists
  <2>1. RunnerAct(r) /\ ~ClaimRunner(r)
    BY DEF LooksOn, RunnerAct, ClaimRunner, NextPrompt, Gate, LaunchRefused, Reap,
           RememberFreshSession, PlanRecovery, WaitForRecovery, Spawn, RejectSpawn,
           Unidentified
  <2>2. UNCHANGED exists
    BY DEF LooksOn, NextPrompt, Gate, LaunchRefused, Reap, RememberFreshSession,
           PlanRecovery, WaitForRecovery, Spawn, RejectSpawn, Unidentified, ROnly
  <2>. QED BY <2>1, <2>2, RunnerAlone DEF TypeInv, RunnerInv
<1>1. /\ meta'.state = meta.state /\ meta'.active_runner = meta.active_runner
      /\ meta'.res = meta.res /\ meta'.delete_pending = meta.delete_pending
      /\ Owed(meta') = Owed(meta)
  <2>1. CASE RememberFreshSession(r)
    BY <1>0, <2>1 DEF RememberFreshSession, Update, Meta, Owed
  <2>2. CASE UNCHANGED meta
    BY <2>2
  <2>. QED BY <2>1, <2>2
           DEF LooksOn, NextPrompt, Gate, LaunchRefused, Reap, PlanRecovery,
               WaitForRecovery, Spawn, RejectSpawn, Unidentified, ROnly
<1>2. Open' = Open
  BY <1>0, <1>1 DEF Open
<1>3. Open => meta.active_runner
  BY <1>0, OnlyHolder
<1>a. ASSUME runner'[r].pc # "unrecord", Open => runner'[r].pc \in Holding,
             Open => (Recovering(r)' => Recovering(r))
      PROVE  Manning'
  <2>1. \A s \in Clients : runner'[s].pc # "unrecord"
    BY <1>0, <1>a DEF OtherRunners, Manning, Ongoing
  <2>2. Open => \A s \in Clients : Holds(s) => Holds(s)'
    BY <1>0, <1>a DEF OtherRunners, Holds
  <2>3. Open => \A s \in Clients : Recovering(s)' => Recovering(s)
    BY <1>0, <1>a DEF OtherRunners, Recovering
  <2>. QED BY <1>1, <1>2, <2>1, <2>2, <2>3, ManningKept
<1>4. CASE NextPrompt(r)
  <2>1. runner'[r].pc \in {"exited", "drain", "take", "abort"}
        /\ (Open => runner'[r].pc # "exited")
    BY <1>0, <1>3, <1>4, RunnerTo DEF NextPrompt, Open, Runner
  <2>. QED BY <1>a, <2>1 DEF Recovering, Holding, RunnerLabels
<1>5. CASE Gate(r) \/ LaunchRefused(r)
  <2>1. runner'[r].pc \in {"spawn", "abort"}
    BY <1>5, RunnerTo DEF Gate, LaunchRefused, Steady
  <2>. QED BY <1>a, <2>1 DEF Recovering, Holding, RunnerLabels
<1>6. CASE Reap(r)
  <2>1. \/ runner'[r].pc = "cool" /\ runner[r].stalled
        \/ runner'[r].pc = "remember"
    BY <1>6, RunnerTo DEF Reap, Steady
  <2>. QED BY <1>6, <1>a, <2>1 DEF Reap, Recovering, Holding, RunnerLabels
<1>7. CASE RememberFreshSession(r)
  <2>1. runner'[r].pc = IF runner[r].pc = "cool" THEN "plan" ELSE "final"
    BY <1>7, RunnerTo DEF RememberFreshSession
  <2>. QED BY <1>7, <1>a, <2>1 DEF RememberFreshSession, Recovering, Holding, RunnerLabels
<1>8. CASE PlanRecovery(r)
  <2>1. Open => exists /\ meta.state = "running"
    BY <1>8 DEF PlanRecovery, Manning, Ongoing, Recovering, Open
  <2>2. runner'[r].pc \in {"exited", "planFail", "remember", "wait"}
        /\ (Open => runner'[r].pc # "exited")
    BY <1>0, <1>8, <2>1, RunnerTo DEF PlanRecovery, Runner
  <2>. QED BY <1>8, <1>a, <2>2 DEF PlanRecovery, Recovering, Holding, RunnerLabels
<1>9. CASE WaitForRecovery(r)
  <2>1. Open => exists /\ meta.state = "running"
    BY <1>9 DEF WaitForRecovery, Manning, Ongoing, Recovering, Open
  <2>2. /\ runner'[r].pc \in {"exited", "gate", "spawn", "plan", "waitStop", "waitSteer"}
        /\ Open => runner'[r].pc # "exited"
    BY <1>0, <1>9, <2>1, RunnerTo DEF WaitForRecovery, Runner
  <2>. QED BY <1>9, <1>a, <2>2 DEF WaitForRecovery, Recovering, Holding, RunnerLabels
<1>10. CASE Spawn(r)
  <2>1. runner'[r].pc = "record" /\ ~runner'[r].stalled
    BY <1>0, <1>10 DEF Spawn, Runner
  <2>. QED BY <1>a, <2>1 DEF Recovering, Holding, RunnerLabels
<1>11. CASE RejectSpawn(r)
  <2>1. ~Open /\ runner'[r].pc = "exited"
    BY <1>11, RunnerTo DEF RejectSpawn, Ownership, RecordPart, Unrefused
  <2>. QED BY <1>a, <2>1
<1>12. CASE Unidentified(r)
  <2>1. runner'[r].pc \in {"abort", "watch"} /\ runner[r].pc = "record"
    BY <1>12, RunnerTo DEF Unidentified
  <2>2. runner'[r].stalled = runner[r].stalled
    BY <1>0, <1>12 DEF Unidentified, RGoto, Runner
  <2>. QED BY <1>a, <2>1, <2>2 DEF Recovering, Holding, RunnerLabels
<1>. QED BY <1>4, <1>5, <1>6, <1>7, <1>8, <1>9, <1>10, <1>11, <1>12 DEF LooksOn

\* The steps of a runner that write the record.
LEMMA WritingMans ==
  ASSUME Steady, TypeInv, Ownership, Manning, FailedKept, NEW r \in Clients,
         \/ ClaimRunner(r) \/ RecordSpawned(r) \/ Proceeds(r) \/ GivesUp(r)
         \/ ReclaimOrStop(r)
  PROVE  Manning'
<1>. USE DEF RAt
<1>0. /\ meta \in Meta /\ runner \in [Clients -> Runner] /\ runner[r] \in Runner
      /\ OtherRunners(r) /\ (Holds(r) \/ ClaimRunner(r)) /\ UNCHANGED exists
  <2>1. RunnerAct(r)
    BY DEF Proceeds, GivesUp, RunnerAct
  <2>2. UNCHANGED exists
    BY DEF ClaimRunner, RecordSpawned, Proceeds, ClaimPendingPrompt, WaitSteered,
           FinalizeInvocation, GivesUp, Abort, PlanFails, ReleaseUnclaimed,
           ReleaseUnrecordedSpawn, WaitStopped, ReclaimOrStop, ROnly
  <2>. QED BY <2>1, <2>2, RunnerAlone DEF TypeInv, RunnerInv
<1>1. Holds(r) /\ Open => \A s \in Clients \ {r} : ~Recovering(s) /\ ~Recovering(s)'
  BY <1>0, OnlyHolder, RecoveringHolds DEF OtherRunners, Recovering
<1>2. \A s \in Clients \ {r} : runner'[s].pc # "unrecord"
  BY <1>0 DEF OtherRunners, Manning, Ongoing
<1>3. CASE ClaimRunner(r)
  <2>1. CASE RExit(r) /\ UNCHANGED meta
    <3>1. runner'[r].pc = "exited" /\ ~Holds(r)
      BY <1>3, <2>1, RunnerTo DEF ClaimRunner, Holds, Holding
    <3>2. \A s \in Clients : /\ Holds(s) => Holds(s)'
                             /\ Recovering(s)' => Recovering(s)
      BY <1>0, <3>1 DEF OtherRunners, Holds, Recovering
    <3>. QED BY <1>0, <1>2, <2>1, <3>1, <3>2, ManningKept DEF Open
  <2>2. CASE /\ exists /\ ~meta.delete_pending /\ meta.res = "reserved"
             /\ RGoto(r, "loop")
             /\ meta' = [meta EXCEPT !.runner_pid = r, !.res = "claimed",
                                     !.active_runner = TRUE, !.state = "running"]
    <3>1. /\ meta'.res = "claimed" /\ meta'.state = "running" /\ Owed(meta') = Owed(meta)
          /\ meta'.delete_pending = meta.delete_pending
      BY <1>0, <2>2 DEF Meta, Owed
    <3>2. runner'[r].pc = "loop"
      BY <2>2, RunnerTo
    <3>3. Holds(r)'
      BY <3>2 DEF Holds, Holding, RunnerLabels
    <3>4. Open' /\ Open
      BY <1>0, <2>2, <3>1 DEF Open
    <3>. QED BY <1>2, <3>1, <3>2, <3>3, <3>4
             DEF Manning, Manned, Worked, Ongoing, FailedKept
  <2>. QED BY <1>3, <2>1, <2>2 DEF ClaimRunner
<1>a. ASSUME Open' = Open, Owed(meta') \subseteq Owed(meta), Holds(r),
             Open => /\ meta'.res = meta.res /\ meta'.active_runner = meta.active_runner
                     /\ runner'[r].pc \in Holding
                     /\ Recovering(r)' => meta'.state = "running",
             runner'[r].pc # "unrecord"
      PROVE  Manning'
  <2>1. Open => \A s \in Clients : Holds(s) => Holds(s)'
    BY <1>0, <1>a DEF OtherRunners, Holds
  <2>2. Open => meta.res # "reserved"
    BY <1>a, OnlyHolder
  <2>3. \/ ~Open
        \/ meta'.state = "running"
        \/ \A s \in Clients : ~Recovering(s)'
    BY <1>1, <1>a
  <2>4. Open => \A s \in Clients : Recovering(s)' => Recovering(s) \/ meta'.state = "running"
    BY <2>3
  <2>. QED BY <1>2, <1>a, <2>1, <2>2, <2>3, <2>4, ManningKept
<1>4. CASE RecordSpawned(r)
  <2>1. /\ OtherRunners(r) /\ runner[r].pc = "record"
        /\ \/ runner'[r].pc = "reject" /\ UNCHANGED meta
           \/ /\ runner'[r].pc = "watch"
              /\ meta' = [meta EXCEPT !.pid = Invocation(r), !.runner_pid = r,
                                      !.state = "running", !.startFresh = TRUE,
                                      !.active_runner = TRUE]
    BY <1>4, RunnerTo DEF RecordSpawned
  <2>2. Holds(r)
    BY <2>1 DEF Holds, Holding, RunnerLabels
  <2>3. Open => meta.active_runner
    BY <2>2, OnlyHolder
  <2>4. CASE runner'[r].pc = "reject" /\ UNCHANGED meta
    BY <1>0, <1>a, <2>2, <2>4 DEF Recovering, Holding, RunnerLabels, Open
  <2>5. CASE /\ runner'[r].pc = "watch"
             /\ meta' = [meta EXCEPT !.pid = Invocation(r), !.runner_pid = r,
                                      !.state = "running", !.startFresh = TRUE,
                                      !.active_runner = TRUE]
    <3>1. /\ meta'.res = meta.res /\ meta'.active_runner /\ meta'.state = "running"
          /\ meta'.delete_pending = meta.delete_pending /\ Owed(meta') = Owed(meta)
      BY <1>0, <2>5 DEF Meta, Owed
    <3>2. meta.active_runner = TRUE => meta'.active_runner = meta.active_runner
      BY <1>0, <2>5 DEF Meta
    <3>3. Open => meta.active_runner = TRUE
      BY <1>0, <2>3 DEF Meta
    <3>. QED BY <1>0, <1>a, <2>2, <2>5, <3>1, <3>2, <3>3
             DEF Holding, RunnerLabels, Open
  <2>. QED BY <2>1, <2>4, <2>5
<1>5. CASE Proceeds(r)
  <2>1. Holds(r)
    BY <1>5 DEF Proceeds, ClaimPendingPrompt, WaitSteered, FinalizeInvocation, Holds, Holding,
                RunnerLabels
  <2>2. /\ meta'.res = meta.res /\ meta'.active_runner = meta.active_runner
        /\ meta'.delete_pending = meta.delete_pending /\ Owed(meta') \subseteq Owed(meta)
    <3>1. CASE ClaimPendingPrompt(r)
      BY <1>0, <3>1 DEF ClaimPendingPrompt, Meta, Owed
    <3>2. CASE WaitSteered(r)
      BY <1>0, <3>2 DEF WaitSteered, Update, Meta, Owed
    <3>3. CASE FinalizeInvocation(r)
      BY <1>0, <3>3 DEF FinalizeInvocation, FinalizeTerminal, Update, Meta, Owed
    <3>. QED BY <1>5, <3>1, <3>2, <3>3 DEF Proceeds
  <2>3. runner'[r].pc \in {"gate", "release", "drain"}
    <3>1. CASE ClaimPendingPrompt(r)
      BY <1>0, <3>1, RunnerTo DEF ClaimPendingPrompt, Runner
    <3>2. CASE WaitSteered(r)
      BY <1>0, <3>2 DEF WaitSteered, Runner
    <3>3. CASE FinalizeInvocation(r)
      BY <1>0, <3>3 DEF FinalizeInvocation, NoRunner
    <3>. QED BY <1>5, <3>1, <3>2, <3>3 DEF Proceeds
  <2>. QED BY <1>0, <1>a, <2>1, <2>2, <2>3 DEF Recovering, Holding, RunnerLabels, Open
<1>b. ASSUME runner'[r].pc = "exited", Holds(r),
             \/ RecordFailure
             \/ Update(SetInactive(meta)) /\ (Open => Owed(meta) = {})
      PROVE  Manning'
  <2>1. ~Recovering(r)'
    BY <1>b DEF Recovering
  <2>2. \A s \in Clients : runner'[s].pc # "unrecord" /\ (Open => ~Recovering(s)')
    BY <1>1, <1>2, <1>b, <2>1
  <2>. QED BY <1>0, <1>b, <2>2, ManningEnds
<1>6. CASE GivesUp(r)
  <2>1. /\ runner'[r].pc = "exited" /\ Holds(r) /\ runner[r].pc # "unrecord"
    BY <1>6, RunnerTo
    DEF GivesUp, Abort, PlanFails, ReleaseUnclaimed, ReleaseUnrecordedSpawn, WaitStopped,
        Holds, Holding, RunnerLabels, Manning, Ongoing
  <2>2. CASE Abort(r) \/ PlanFails(r)
    <3>1. CASE RecordFailure
      BY <1>b, <2>1, <3>1
    <3>2. CASE PlanFails(r) /\ meta.state # "running" /\ UNCHANGED meta
      <4>1. ~Open
        BY <3>2 DEF PlanFails, Manning, Ongoing, Recovering
      <4>. QED BY <1>0, <1>a, <2>1, <3>2, <4>1 DEF Open
    <3>. QED BY <2>2, <3>1, <3>2 DEF Abort, PlanFails
  <2>3. CASE ReleaseUnclaimed(r)
    <3>1. ~Open
      BY <2>3 DEF ReleaseUnclaimed, Ownership, RecordPart, Unrefused
    <3>. QED BY <1>b, <2>1, <2>3, <3>1 DEF ReleaseUnclaimed
  <2>4. CASE WaitStopped(r)
    <3>1. ~Open
      BY <2>4 DEF WaitStopped, Ownership, RecordPart, Unrefused
    <3>2. meta'.delete_pending = meta.delete_pending /\ Owed(meta') = Owed(meta)
      BY <1>0, <2>4 DEF WaitStopped, Update, SetInactive, FinalizeTerminal, Meta, Owed
    <3>. QED BY <1>0, <1>a, <2>1, <3>1, <3>2 DEF Open
  <2>. QED BY <1>6, <2>1, <2>2, <2>3, <2>4 DEF GivesUp, ReleaseUnrecordedSpawn
<1>7. CASE ReclaimOrStop(r)
  <2>1. Holds(r) /\ runner[r].pc = "drain"
    BY <1>7 DEF ReclaimOrStop, Holds, Holding, RunnerLabels
  <2>2. CASE /\ Update(SetInactive(meta)) /\ RExit(r)
             /\ \/ ~exists \/ StopLike(meta)
                \/ meta.pending_prompt = None /\ meta.steer_queue = <<>>
    <3>1. Open => Owed(meta) = {}
      BY <2>2 DEF Ownership, RecordPart, NoIntent, Open, Owed
    <3>. QED BY <1>b, <2>1, <2>2, <3>1, RunnerTo
  <2>3. CASE RGoto(r, "loop")
             /\ \/ meta' = [meta EXCEPT !.active_runner = TRUE]
                \/ /\ meta.steer_queue # <<>>
                   /\ meta' = [PopSteerIntoPending(meta) EXCEPT !.active_runner = TRUE]
    <3>1. runner'[r].pc = "loop"
      BY <2>3, RunnerTo
    <3>2. /\ meta'.res = meta.res /\ meta'.active_runner = TRUE
          /\ meta'.delete_pending = meta.delete_pending
          /\ Owed(meta') \subseteq Owed(meta)
      <4>1. CASE meta' = [meta EXCEPT !.active_runner = TRUE]
        BY <1>0, <4>1 DEF Meta, Owed
      <4>2. CASE /\ meta.steer_queue # <<>>
                 /\ meta' = [PopSteerIntoPending(meta) EXCEPT !.active_runner = TRUE]
        <5>1. /\ meta'.res = meta.res /\ meta'.active_runner = TRUE
              /\ meta'.delete_pending = meta.delete_pending
              /\ meta'.steer_queue = Tail(meta.steer_queue)
              /\ meta'.pending_prompt = Head(meta.steer_queue)
          BY <1>0, <4>2 DEF PopSteerIntoPending, BeginInvocation, Meta
        <5>2. meta.steer_queue \in Seq(Clients)
          BY <1>0 DEF Meta
        <5>3. Elements(meta.steer_queue)
                = Elements(Tail(meta.steer_queue)) \cup {Head(meta.steer_queue)}
          BY <4>2, <5>2, TailElements
        <5>. QED BY <5>1, <5>3 DEF Owed, Elements
      <4>. QED BY <2>3, <4>1, <4>2
    <3>3. Open => meta.active_runner = TRUE
      <4>1. Open => meta.active_runner
        BY <2>1, OnlyHolder
      <4>. QED BY <1>0, <4>1 DEF Meta
    <3>. QED BY <1>0, <1>a, <2>1, <3>1, <3>2, <3>3 DEF Recovering, Holding, RunnerLabels, Open
  <2>. QED BY <1>7, <2>2, <2>3 DEF ReclaimOrStop, Update
<1>. QED BY <1>3, <1>4, <1>5, <1>6, <1>7

\* The poll and the invocation. A stall is noticed only in a record that runs.
LEMMA ChildMans ==
  ASSUME TypeInv, Manning, FailedKept, NEW r \in Clients, Poll(r) \/ ChildStep(r)
  PROVE  Manning'
<1>0. meta \in Meta /\ runner \in [Clients -> Runner] /\ UNCHANGED exists
  BY DEF TypeInv, RunnerInv, Poll, PollKill, PollControl, PollEscalate, PollStalled,
         PollStallKill, CheckpointSession, SignalFromPoll, ChildStep, ChildSession, ChildEnds,
         ChildKilled, ROnly
<1>1. /\ meta'.state = meta.state /\ meta'.active_runner = meta.active_runner
      /\ meta'.res = meta.res /\ meta'.delete_pending = meta.delete_pending
      /\ Owed(meta') = Owed(meta)
  <2>1. CASE CheckpointSession(r)
    BY <1>0, <2>1 DEF CheckpointSession, Meta, Owed
  <2>2. CASE UNCHANGED meta
    BY <2>2
  <2>. QED BY <2>1, <2>2
           DEF Poll, PollKill, PollControl, PollEscalate, PollStalled, PollStallKill,
               SignalFromPoll, ChildStep, ChildSession, ChildEnds, ChildKilled
<1>2. \A s \in Clients : runner'[s].pc = runner[s].pc
  BY ChildWatches
<1>3. \A s \in Clients : runner'[s].stalled => runner[s].stalled \/ meta.state = "running"
  <2>1. CASE PollStalled(r)
    BY <1>0, <2>1 DEF PollStalled
  <2>2. CASE \/ runner' = runner
             \/ SignalFromPoll(r, "term") \/ SignalFromPoll(r, "signalled")
    BY <1>0, <2>2 DEF SignalFromPoll, Runner
  <2>. QED BY <2>1, <2>2
           DEF Poll, PollKill, PollControl, PollEscalate, PollStallKill,
               CheckpointSession, ChildStep, ChildSession, ChildEnds, ChildKilled
<1>4. /\ \A s \in Clients : Recovering(s)' => Recovering(s) \/ meta'.state = "running"
      /\ \A s \in Clients : Holds(s) => Holds(s)'
      /\ \A s \in Clients : runner'[s].pc # "unrecord"
  BY <1>1, <1>2, <1>3 DEF Recovering, Holds, Manning, Ongoing
<1>5. Open' = Open
  BY <1>0, <1>1 DEF Open
<1>. QED BY <1>1, <1>4, <1>5, ManningKept

\* An accepted prompt comes into a record with a worker.
LEMMA AcceptingMans ==
  ASSUME Steady, TypeInv, Ownership, Attended, Manning, FailedKept, NEW c \in Clients,
         Accepted(c)
  PROVE  Manning'
<1>0. /\ meta \in Meta /\ UNCHANGED <<exists, runner, child, failed>> /\ Open
  BY DEF Accepted, RunPreempts, RunReuses, RunRecovers, RunBegins, Accepting, Accepts,
         TypeInv, Open, history
<1>1. \A r \in Clients : /\ Holds(r)' <=> Holds(r)
                         /\ Recovering(r)' <=> Recovering(r)
                         /\ runner'[r].pc # "unrecord"
  BY <1>0 DEF Holds, Recovering, Manning, Ongoing
<1>a. ASSUME meta'.res # "absent", meta'.delete_pending = meta.delete_pending,
             meta'.res = "claimed" => \E r \in Clients : Holds(r),
             meta'.res = "reserved" => meta'.active_runner /\ meta'.state = "running",
             \A r \in Clients : Recovering(r) => meta'.state = "running"
      PROVE  Manning'
  <2>1. Open'
    BY <1>0, <1>a DEF Open
  <2>. QED BY <1>1, <1>a, <2>1 DEF Manning, Manned, Worked, Ongoing
<1>2. CASE RunPreempts(c) \/ RunReuses(c)
  <2>1. /\ meta'.res = meta.res /\ meta'.active_runner = meta.active_runner
        /\ meta'.delete_pending = meta.delete_pending
        /\ meta'.state \in {meta.state, "running"}
    <3>1. CASE RunPreempts(c)
      BY <1>0, <3>1 DEF RunPreempts, QueueSteer, Meta
    <3>2. CASE RunReuses(c)
      BY <1>0, <3>2 DEF RunReuses, QueueSteer, Meta
    <3>. QED BY <1>2, <3>1, <3>2
  <2>2. meta.res # "absent"
    <3>1. CASE RunPreempts(c)
      <4>1. meta.pid \in Clients \X Nat /\ Alive
        BY <3>1, InvocationType, TypeInvOK DEF RunPreempts, Alive, InvocationAlive
      <4>2. meta.pid[1] \in Live
        BY <4>1 DEF Alive, Live, InvocationAlive, Invocation
      <4>3. Holds(meta.pid[1]) /\ meta.pid[1] \in Clients
        BY <1>0, <4>1, <4>2
        DEF Attended, Watched, Watching, Holds, Holding, RunnerLabels
      <4>. QED BY <1>0, <4>3, OnlyHolder
    <3>2. CASE RunReuses(c)
      BY <1>0, <3>2, InFlightHeld DEF RunReuses
    <3>. QED BY <1>2, <3>1, <3>2
  <2>. QED BY <1>0, <1>a, <2>1, <2>2 DEF Manning, Manned, Ongoing
<1>3. CASE RunRecovers(c)
  <2>1. \A r \in Clients : ~Holds(r) /\ ~Recovering(r)
    BY <1>0, <1>3, InFlightHeld, RecoveringHolds DEF RunRecovers
  <2>2. meta.res = "reserved" /\ meta.state = "running"
    BY <1>0, <1>3, <2>1 DEF RunRecovers, Manning, Manned, Meta
  <2>3. /\ meta'.res = "reserved" /\ meta'.active_runner
        /\ meta'.delete_pending = meta.delete_pending /\ meta'.state = meta.state
    BY <1>0, <1>3 DEF RunRecovers, Reserve, QueueSteer, Meta
  <2>. QED BY <1>a, <2>1, <2>2, <2>3
<1>4. CASE RunBegins(c)
  <2>1. PICK session, mode :
          meta' = [Reserve(BeginInvocation(SetInactive(meta), c), c, mode)
                     EXCEPT !.native_session_id = session]
    BY <1>4 DEF RunBegins
  <2>. DEFINE b == BeginInvocation(SetInactive(meta), c)
  <2>2. SetInactive(meta) \in Meta /\ SetInactive(meta).delete_pending = meta.delete_pending
    <3>1. SetInactive(meta) \in Meta
      BY <1>0, RecordOperations
    <3>. QED BY <1>0, <3>1 DEF SetInactive, Meta
  <2>3. b \in Meta
    BY <2>2, RecordOperations
  <2>4. b.state = "running" /\ b.delete_pending = meta.delete_pending
    BY <2>2 DEF BeginInvocation, Meta
  <2>. HIDE DEF b
  <2>5. /\ meta'.res = "reserved" /\ meta'.active_runner
        /\ meta'.delete_pending = meta.delete_pending /\ meta'.state = "running"
    BY <2>1, <2>3, <2>4 DEF Reserve, Meta, b
  <2>. QED BY <1>a, <2>5
<1>. QED BY <1>2, <1>3, <1>4 DEF Accepted

\* The other steps of the CLI.
LEMMA CommandMans ==
  ASSUME Steady, TypeInv, Ownership, Attended, Manning, FailedKept, NEW c \in Clients,
         RunStep(c) \/ RemovalStep(c) \/ CliCrash(c)
  PROVE  Manning'
<1>0. meta \in Meta /\ runner \in [Clients -> Runner]
  BY DEF TypeInv, RunnerInv
<1>a. ASSUME UNCHANGED <<exists, meta, runner>> PROVE Manning'
  <2>1. \A r \in Clients : /\ Holds(r)' <=> Holds(r)
                           /\ Recovering(r)' <=> Recovering(r)
                           /\ runner'[r].pc # "unrecord"
    BY <1>a DEF Holds, Recovering, Manning, Ongoing
  <2>. QED BY <1>a, <2>1, ManningKept DEF Open
<1>1. CASE Accepted(c)
  BY <1>1, AcceptingMans
<1>2. CASE SpawnRunner(c)
  <2>1. runner[c].pc = "unborn" /\ UNCHANGED <<exists, meta>>
    BY <1>2 DEF SpawnRunner, Ownership, CliPart, Unspawned, Unspawning, CAt
  <2>2. runner'[c].pc = "claim" /\ OtherRunners(c)
    BY <1>0, <1>2 DEF SpawnRunner, OtherRunners, Runner
  <2>3. \A r \in Clients : /\ Holds(r) => Holds(r)'
                           /\ Recovering(r)' => Recovering(r)
                           /\ runner'[r].pc # "unrecord"
    BY <2>1, <2>2 DEF Holds, Holding, Recovering, OtherRunners, Manning, Ongoing
  <2>. QED BY <2>1, <2>3, ManningKept DEF Open
<1>3. CASE FailUnclaimedRunner(c) /\ RecordFailure /\ exists /\ meta.res = "reserved"
  <2>1. exists /\ meta.res = "reserved" /\ UNCHANGED <<exists, runner>>
    BY <1>3 DEF FailUnclaimedRunner
  <2>2. Open => \A r \in Clients : ~Recovering(r)
    BY <2>1, RecoveringHolds DEF Ownership, RecordPart, OneOwner
  <2>3. \A r \in Clients : runner'[r].pc # "unrecord" /\ (Open => ~Recovering(r)')
    BY <2>1, <2>2 DEF Recovering, Manning, Ongoing
  <2>. QED BY <1>3, <2>1, <2>3, ManningEnds
<1>4. CASE MarkExpired(c)
  <2>1. Open /\ ~meta.active_runner /\ UNCHANGED <<exists, runner, failed>>
    BY <1>4 DEF MarkExpired, Open, COnly, history
  <2>2. meta.res = "absent"
    BY <1>0, <2>1, OnlyHolder DEF Manning, Manned, Meta
  <2>3. Owed(meta) \subseteq failed
    BY <2>2 DEF Manning, Worked
  <2>4. Owed(meta') = Owed(meta) /\ ~Open'
    BY <1>0, <1>4 DEF MarkExpired, Owed, Open, Meta
  <2>. QED BY <2>1, <2>3, <2>4 DEF Manning, Manned, Worked, Ongoing
<1>5. CASE Remove(c)
  <2>1. Owed(meta') = {} /\ ~Open' /\ UNCHANGED runner
    BY <1>5 DEF Remove, Owed, IdleMeta, Open
  <2>. QED BY <2>1 DEF Manning, Manned, Worked, Ongoing
<1>6. CASE \/ RunReads(c) \/ RunRefused(c) \/ AwaitClaim(c) \/ ReportRunner(c) \/ Follow(c)
           \/ Interrupt(c) \/ CliCrash(c) \/ (FailUnclaimedRunner(c) /\ UNCHANGED meta)
  BY <1>6, <1>a
  DEF RunReads, RunRefused, AwaitClaim, ReportRunner, Follow, Interrupt, CliCrash,
      FailUnclaimedRunner, COnly
<1>. QED BY <1>1, <1>2, <1>3, <1>4, <1>5, <1>6, SteadyMeans
     DEF RunStep, RemovalStep, Accepted, FailUnclaimedRunner

\* Every step leaves the record manned.
LEMMA ManningStep ==
  ASSUME Steady, TypeInv, Ownership, Attended, Manning, [Next]_vars
  PROVE  Manning'
<1>0. FailedKept /\ meta \in Meta
  BY FailuresKept DEF TypeInv
<1>1. ASSUME NEW c \in Clients, RunStep(c) \/ RemovalStep(c) \/ CliCrash(c)
      PROVE  Manning'
  BY <1>0, <1>1, CommandMans
<1>2. ASSUME NEW r \in Clients, RunnerAct(r) PROVE Manning'
  BY <1>0, <1>2, LookingMans, WritingMans, SteadyMeans
  DEF RunnerAct, LooksOn, Proceeds, GivesUp
<1>3. ASSUME NEW r \in Clients, Poll(r) \/ ChildStep(r) PROVE Manning'
  BY <1>0, <1>3, ChildMans
<1>4. CASE Reconcile
  <2>1. RecordFailure /\ UNCHANGED <<exists, runner>> /\ ~ReservationInFlight(meta)
    BY <1>4 DEF Reconcile, DeadMeta
  <2>2. \A r \in Clients : runner'[r].pc # "unrecord" /\ (Open => ~Recovering(r)')
    BY <2>1, InFlightHeld, RecoveringHolds DEF Recovering, Manning, Ongoing
  <2>. QED BY <1>0, <2>1, <2>2, ManningEnds
<1>5. CASE ReservationGraceEnds \/ StartWindowEnds \/ UNCHANGED vars
  <2>1. /\ meta'.state = meta.state /\ meta'.active_runner = meta.active_runner
        /\ meta'.res = meta.res /\ meta'.delete_pending = meta.delete_pending
        /\ Owed(meta') = Owed(meta) /\ UNCHANGED <<exists, runner>>
    BY <1>0, <1>5 DEF ReservationGraceEnds, StartWindowEnds, Meta, Owed, vars
  <2>2. \A r \in Clients : /\ Holds(r) => Holds(r)'
                           /\ Recovering(r)' => Recovering(r)
                           /\ runner'[r].pc # "unrecord"
    BY <2>1 DEF Holds, Recovering, Manning, Ongoing
  <2>3. Open' = Open
    BY <2>1 DEF Open
  <2>. QED BY <1>0, <2>1, <2>2, <2>3, ManningKept
<1>. QED BY <1>1, <1>2, <1>3, <1>4, <1>5, SteadyMeans DEF Next

\* As long as the record owes a prompt that it has not reported as failed, a runner
\* is at work or about to be, or the reservation of a client that died says so,
\* for any number of runs, steers and cleans, crashes of clients, refused launches,
\* stalls and killed invocations.  Two hazards of the code break it, which the
\* hypotheses leave out: the backend's own retries end in a record that another
\* run has ended, and a failed write of recordSpawned leaves the prompts behind.
THEOREM OwedPromptHasWorker == Steady => (Spec => []OwedHasWorker)
<1>. SUFFICES ASSUME Steady PROVE Spec => []OwedHasWorker
  OBVIOUS
<1>1. Init => Manning
  <2>. SUFFICES ASSUME Init PROVE Manning
    OBVIOUS
  <2>1. /\ \A r \in Clients : runner[r].pc = "unborn"
        /\ meta.res = "absent" /\ meta.steer_queue = <<>> /\ meta.pending_prompt = None
    BY DEF Init, NoRunner, IdleMeta
  <2>. QED BY <2>1 DEF Manning, Manned, Worked, Ongoing, Recovering, Owed
<1>2. TypeInv /\ Ownership /\ Attended /\ Manning /\ [Next]_vars => Manning'
  BY ManningStep
<1>3. TypeInv /\ Ownership /\ Manning => OwedHasWorker
  <2>. SUFFICES ASSUME TypeInv, Ownership, Manning, ~(Owed(meta) \subseteq failed)
                PROVE  \/ Working
                       \/ meta.active_runner /\ meta.res = "reserved" /\ meta.state = "running"
    BY DEF OwedHasWorker
  <2>1. Open /\ meta.res \in {"reserved", "claimed"}
    BY DEF Manning, Worked, TypeInv, Meta
  <2>2. \A r \in Clients : Holds(r) => RunnerAlive(r)
    BY LifecycleAssumption DEF Holds, Holding, RunnerAlive
  <2>. QED BY <2>1, <2>2 DEF Manning, Manned, Working
<1>4. (Spec => [](TypeInv /\ Ledger /\ Ownership)) /\ (Spec => []Attended)
  BY OwnershipHolds, AttendedHolds DEF Steady, Calm
<1>. QED BY <1>1, <1>2, <1>3, <1>4, PTL DEF Spec
=============================================================================
