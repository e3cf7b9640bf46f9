--------------------------- MODULE RuntimeProofs ---------------------------
(***************************************************************************)
(* Theorems about five parts of a host, which share no state: the daemon,  *)
(* for any number of processes started over any stale lock and killed at   *)
(* any step; the choice of models, for any agents, lists and failures, and *)
(* penalties of any length; whom a signal reaches, for any number of pids, *)
(* agents, callers and processes started; the state root that many agents  *)
(* share; and the watchdog of a backend, for any rows and silences.        *)
(***************************************************************************)
EXTENDS HostDaemon, ModelFailover, ProcessIdentity, AgentStorage, LivenessWatch, Iteration

-----------------------------------------------------------------------------
(* HostDaemon *)

\* Every step keeps every variable in its type.
LEMMA DaemonTypeStep == TypeOK /\ [DaemonNext]_daemonVars => TypeOK'
<1>. SUFFICES ASSUME TypeOK, [DaemonNext]_daemonVars PROVE TypeOK'
  OBVIOUS
<1>. USE DaemonAssumption DEF TypeOK, Labels, Owning, To, lockVars, reportVars
<1>0. LockRecord \in Daemons \cup {None}
  BY DEF LockRecord
<1>1. ASSUME NEW d \in Daemons, Starts(d) PROVE TypeOK'
  <2>1. CASE StartDaemon(d) BY <2>1 DEF StartDaemon
  <2>2. CASE Open(d) BY <2>2 DEF Open
  <2>3. CASE Record(d) BY <2>3 DEF Record
  <2>4. CASE Judge(d) BY <1>0, <2>4 DEF Judge
  <2>5. CASE Reread(d) BY <1>0, <2>5 DEF Reread
  <2>6. CASE Unlink(d)
    <3>1. raced' \in BOOLEAN BY <2>6 DEF Unlink
    <3>. QED BY <2>6, <3>1 DEF Unlink
  <2>7. CASE Reopen(d) BY <2>7 DEF Reopen
  <2>. QED BY <1>1, <2>1, <2>2, <2>3, <2>4, <2>5, <2>6, <2>7 DEF Starts
<1>2. ASSUME NEW d \in Daemons, Publishes(d) PROVE TypeOK'
  <2>1. ASSUME NEW from \in Labels, NEW to \in Labels, WriteDraft(d, from, to) PROVE TypeOK'
    BY <2>1 DEF WriteDraft, Reports
  <2>2. ASSUME NEW from \in Labels, NEW to \in Labels, Rename(d, from, to) PROVE TypeOK'
    <3>1. draft.at \in 0..LastInstant
      BY <2>2 DEF Rename, Reports
    <3>. QED BY <2>2, <3>1 DEF Rename, Reports
  <2>3. CASE FirstReportFails(d) \/ BeatFails(d)
    BY <2>3 DEF FirstReportFails, BeatFails
  <2>. QED BY <1>2, <2>1, <2>2, <2>3 DEF Publishes, FirstReport, Beat
<1>3. ASSUME NEW d \in Daemons, Stops(d) PROVE TypeOK'
  BY <1>3 DEF Stops, Stop, Clear, ReleaseRead, ReleaseUnlink, Reports
<1>4. ASSUME NEW d \in Daemons, Crash(d) PROVE TypeOK'
  BY <1>4 DEF Crash
<1>5. CASE DaemonTick BY <1>5 DEF DaemonTick
<1>6. CASE UNCHANGED daemonVars BY <1>6 DEF daemonVars
<1>. QED BY <1>1, <1>2, <1>3, <1>4, <1>5, <1>6 DEF DaemonNext

\* The types hold with or without a lock left over.
LEMMA DaemonTypeInit == DaemonInit => TypeOK
<1>. SUFFICES ASSUME DaemonInit PROVE TypeOK
  OBVIOUS
<1>. USE DaemonAssumption DEF DaemonInit
<1>1. report \in Reports
  BY DEF Reports
<1>2. stage \in [Daemons -> Labels]
  BY DEF Labels
<1>3. draft \in Reports /\ written \in SUBSET Daemons
  BY DEF Reports
<1>4. now \in 0..LastInstant /\ last \in [Daemons -> 0..LastInstant]
  OBVIOUS
<1>5. /\ lock \in Daemons \cup {None} /\ raced \in BOOLEAN /\ uncleared \in SUBSET Daemons
      /\ judged \in [Daemons -> Daemons \cup {None}] /\ seen \in [Daemons -> Daemons \cup {None}]
  OBVIOUS
<1>. QED BY <1>1, <1>2, <1>3, <1>4, <1>5, Zenon DEF TypeOK

-----------------------------------------------------------------------------
Over      == {"off", "dead"}
Unstarted == {"idle", "open", "judge", "reread", "unlink", "reopen"}

\* A lock file and a record are of a process that has come to create the file.
Created == /\ lock # None => stage[lock] \in Owning \cup Over
           /\ \A d \in written : stage[d] \in (Owning \ {"record"}) \cup Over

\* A record that was judged stale is of a process that is gone for good, and
\* what is to be unlinked is the file of that record.
JudgedStale == \A d \in Daemons :
    /\ stage[d] \in {"reread", "unlink"} /\ judged[d] # None => stage[judged[d]] \in Over
    /\ stage[d] = "unlink" /\ judged[d] # None => seen[d] = judged[d]

\* A process between the create and the release has the lock.
Locked == ~raced => \A d \in Daemons : stage[d] \in Owning => lock = d

LockInv == TypeOK /\ Created /\ JudgedStale /\ Locked

LEMMA LockInit == DaemonInit => LockInv
BY DaemonTypeInit, DaemonAssumption
DEF DaemonInit, LockInv, Created, JudgedStale, Locked, Owning, Over

\* A process that only moves, without touching the lock or leaving what it owns.
LEMMA LockMove ==
  ASSUME LockInv, NEW d \in Daemons, NEW to \in Labels, To(d, to), UNCHANGED lockVars,
         stage[d] \in Owning \/ (stage[d] \in Unstarted /\ to \in Unstarted \ {"reread", "unlink"}),
         to \in (Owning \ {"record"}) \cup Over \/ stage[d] \in Unstarted
  PROVE  Created' /\ JudgedStale' /\ Locked'
BY DaemonAssumption
DEF LockInv, TypeOK, Created, JudgedStale, Locked, Labels, Owning, Over, Unstarted, To, lockVars

\* No step of any process takes the lock from one that holds it.
LEMMA LockStep == LockInv /\ [DaemonNext]_daemonVars => LockInv'
<1>. SUFFICES ASSUME LockInv, [DaemonNext]_daemonVars PROVE LockInv'
  OBVIOUS
<1>0. TypeOK' BY DaemonTypeStep DEF LockInv
<1>. USE DaemonAssumption
<1>1. ASSUME NEW d \in Daemons, Starts(d) PROVE LockInv'
  <2>. USE <1>0 DEF LockInv, TypeOK, Created, JudgedStale, Locked, Labels, Owning, Over, To, LockRecord, Alive
  <2>1. CASE StartDaemon(d) BY <2>1 DEF StartDaemon, lockVars
  <2>2. CASE Open(d) BY <2>2 DEF Open
  <2>3. CASE Record(d) BY <2>3 DEF Record
  <2>4. CASE Judge(d) BY <2>4 DEF Judge
  <2>5. CASE Reread(d) BY <2>5 DEF Reread
  <2>6. CASE Unlink(d)
    <3>1. CASE lock = None
      BY <2>6, <3>1 DEF Unlink
    <3>2. CASE lock # None /\ stage[lock] \in Over
      BY <2>6, <3>2 DEF Unlink
    <3>3. CASE lock # None /\ stage[lock] \in Owning
      <4>1. raced'
        BY <2>6, <3>3 DEF Unlink
      <4>. QED BY <2>6, <3>3, <4>1 DEF Unlink
    <3>. QED BY <3>1, <3>2, <3>3
  <2>7. CASE Reopen(d) BY <2>7 DEF Reopen
  <2>. QED BY <1>1, <2>1, <2>2, <2>3, <2>4, <2>5, <2>6, <2>7 DEF Starts
<1>2. ASSUME NEW d \in Daemons, Publishes(d) PROVE LockInv'
  BY <1>0, <1>2, LockMove
  DEF LockInv, Publishes, FirstReport, FirstReportFails, Beat, BeatFails, WriteDraft, Rename, Labels, Owning
<1>3. ASSUME NEW d \in Daemons, Stops(d) PROVE LockInv'
  <2>1. CASE Stop(d) \/ Clear(d) \/ ReleaseRead(d)
    BY <1>0, <2>1, LockMove DEF LockInv, Stop, Clear, ReleaseRead, lockVars, reportVars, Labels, Owning, Over
  <2>2. CASE ReleaseUnlink(d)
    BY <1>0, <2>2 DEF LockInv, TypeOK, Created, JudgedStale, Locked, Labels, Owning, Over, To, ReleaseUnlink
  <2>. QED BY <1>3, <2>1, <2>2 DEF Stops
<1>4. ASSUME NEW d \in Daemons, Crash(d) PROVE LockInv'
  BY <1>0, <1>4 DEF LockInv, TypeOK, Created, JudgedStale, Locked, Labels, Owning, Over, To, Crash, Alive, lockVars
<1>5. CASE DaemonTick
  BY <1>0, <1>5 DEF DaemonTick, LockInv, Created, JudgedStale, Locked, lockVars
<1>6. CASE UNCHANGED daemonVars
  BY <1>0, <1>6 DEF daemonVars, LockInv, Created, JudgedStale, Locked
<1>. QED BY <1>1, <1>2, <1>3, <1>4, <1>5, <1>6 DEF DaemonNext

\* Two daemons run together only over a lock removed unjudged, in daemons
\* started by any number of processes over any lock left behind.
THEOREM OneDaemonRuns == DaemonSpec => []OneDaemon
<1>1. LockInv => OneDaemon
  BY DEF LockInv, Locked, OneDaemon, Running, Owning
<1>. QED BY LockInit, LockStep, <1>1, PTL DEF DaemonSpec

-----------------------------------------------------------------------------
\* The stages of a process that has not yet published a report.
Unpublished == Unstarted \cup {"record", "first", "firstRename"}

\* Who writes has written the temporary file, who runs the report, and there is
\* none of a process that has not published or has removed its own.
Published == ~raced => \A d \in Daemons :
    /\ stage[d] \in {"firstRename", "rename"} => draft # None /\ draft.by = d
    /\ Running(d) => report = [by |-> d, at |-> last[d]]
    /\ stage[d] \in Unpublished => report = None \/ report.by # d
    /\ stage[d] \in {"release", "releaseUnlink", "off"} /\ d \notin uncleared
         => report = None \/ report.by # d

ReportInv == LockInv /\ Published

LEMMA ReportInit == DaemonInit => ReportInv
<1>. SUFFICES ASSUME DaemonInit PROVE Published
  BY LockInit DEF ReportInv
<1>. QED
  BY DaemonAssumption DEF DaemonInit, Published, Running, Unpublished, Unstarted

\* Only the process that has the lock touches the report, so that each of them
\* leaves the account of the others as it is.
LEMMA ReportStep == ReportInv /\ [DaemonNext]_daemonVars => ReportInv'
<1>. SUFFICES ASSUME ReportInv, [DaemonNext]_daemonVars PROVE ReportInv'
  OBVIOUS
<1>0. LockInv' /\ TypeOK /\ (~raced' => ~raced)
  <2>1. raced => raced'
    BY DEF DaemonNext, Starts, StartDaemon, Open, Record, Judge, Reread, Unlink, Reopen,
           Publishes, FirstReport, FirstReportFails, Beat, BeatFails, WriteDraft, Rename,
           Stops, Stop, Clear, ReleaseRead, ReleaseUnlink, Crash, DaemonTick,
           daemonVars, lockVars
  <2>. QED BY <2>1, LockStep DEF ReportInv, LockInv
<1>. SUFFICES ASSUME ~raced' PROVE Published'
  BY <1>0 DEF ReportInv, Published
<1>a. /\ ~raced
      /\ \A d, e \in Daemons : stage[d] \in Owning /\ stage[e] \in Owning => d = e
  BY <1>0 DEF ReportInv, LockInv, Locked
<1>. USE DEF Labels, Owning, Unpublished, Unstarted, Running, To
<1>1. ASSUME NEW d \in Daemons, Starts(d) PROVE Published'
  <2>1. UNCHANGED reportVars
    BY <1>1 DEF Starts, StartDaemon, Open, Record, Judge, Reread, Unlink, Reopen
  <2>2. /\ \A e \in Daemons \ {d} : stage'[e] = stage[e]
        /\ stage[d] \in Unpublished
        /\ stage'[d] \in Unpublished \cup {"off"}
        /\ stage'[d] # "firstRename"
    BY <1>0, <1>1 DEF TypeOK, Starts, StartDaemon, Open, Record, Judge, Reread, Unlink, Reopen
  <2>. QED BY <1>a, <2>1, <2>2 DEF ReportInv, Published, reportVars
<1>2. ASSUME NEW d \in Daemons, Publishes(d) PROVE Published'
  <2>0. \A e \in Daemons \ {d} : stage'[e] = stage[e] /\ stage[e] \notin Owning
    BY <1>0, <1>a, <1>2 DEF TypeOK, Publishes, FirstReport, FirstReportFails, Beat, BeatFails,
                           WriteDraft, Rename
  <2>1. CASE WriteDraft(d, "first", "firstRename") \/ WriteDraft(d, "running", "rename")
    <3>0. now \in 0..LastInstant /\ stage \in [Daemons -> Labels]
      BY <1>0 DEF TypeOK
    <3>1. draft' = [by |-> d, at |-> now] /\ UNCHANGED <<report, uncleared, last>>
      BY <2>1 DEF WriteDraft
    <3>2. draft'.by = d /\ draft' # None
      BY <3>0, <3>1, DaemonAssumption
    <3>3. \/ stage[d] = "first" /\ stage' = [stage EXCEPT ![d] = "firstRename"]
          \/ stage[d] = "running" /\ stage' = [stage EXCEPT ![d] = "rename"]
      BY <2>1 DEF WriteDraft
    <3>4. \/ stage[d] = "first" /\ stage'[d] = "firstRename"
          \/ stage[d] = "running" /\ stage'[d] = "rename"
      BY <3>0, <3>3
    <3>. QED BY <1>a, <2>0, <3>1, <3>2, <3>4 DEF ReportInv, Published
  <2>2. CASE Rename(d, "firstRename", "running") \/ Rename(d, "rename", "running")
    <3>0. draft # None /\ draft.by = d
      BY <1>a, <2>2 DEF Rename, ReportInv, Published
    <3>1. report' = draft /\ stage'[d] = "running" /\ last'[d] = draft.at
      BY <1>0, <2>2 DEF Rename, TypeOK
    <3>2. draft = [by |-> d, at |-> draft.at]
      <4>1. draft \in [by : Daemons, at : 0..LastInstant]
        BY <1>0, <3>0 DEF TypeOK, Reports
      <4>. QED BY <3>0, <4>1
    <3>. QED BY <2>0, <3>1, <3>2 DEF Published
  <2>3. CASE FirstReportFails(d) \/ BeatFails(d)
    <3>1. UNCHANGED reportVars
      BY <2>3 DEF FirstReportFails, BeatFails
    <3>2. \/ stage[d] \in {"first", "firstRename"} /\ stage'[d] = "release"
          \/ stage[d] = "rename" /\ stage'[d] = "running"
      BY <1>0, <2>3 DEF FirstReportFails, BeatFails, TypeOK
    <3>. QED BY <1>a, <2>0, <3>1, <3>2 DEF ReportInv, Published, reportVars
  <2>. QED BY <1>2, <2>1, <2>2, <2>3 DEF Publishes, FirstReport, Beat
<1>3. ASSUME NEW d \in Daemons, Stops(d) PROVE Published'
  <2>0. \A e \in Daemons \ {d} : stage'[e] = stage[e] /\ stage[e] \notin Owning
    BY <1>0, <1>a, <1>3 DEF TypeOK, Stops, Stop, Clear, ReleaseRead, ReleaseUnlink
  <2>1. CASE Stop(d)
    BY <1>0, <1>a, <2>0, <2>1 DEF Stop, TypeOK, ReportInv, Published, reportVars
  <2>2. CASE Clear(d)
    <3>1. stage'[d] = "release" /\ UNCHANGED <<last, draft>>
      BY <1>0, <2>2 DEF Clear, TypeOK
    <3>2. \/ report' = None /\ UNCHANGED uncleared
          \/ d \in uncleared' /\ uncleared \subseteq uncleared' /\ UNCHANGED report
      BY <2>2 DEF Clear
    <3>. QED BY <1>a, <2>0, <3>1, <3>2 DEF ReportInv, Published
  <2>3. CASE ReleaseRead(d) \/ ReleaseUnlink(d)
    <3>1. /\ stage[d] \in {"release", "releaseUnlink"}
          /\ stage'[d] \in {"releaseUnlink", "off"}
          /\ UNCHANGED reportVars
      BY <1>0, <2>3 DEF ReleaseRead, ReleaseUnlink, TypeOK
    <3>. QED BY <1>a, <2>0, <3>1 DEF ReportInv, Published, reportVars
  <2>. QED BY <1>3, <2>1, <2>2, <2>3 DEF Stops
<1>4. ASSUME NEW d \in Daemons, Crash(d) PROVE Published'
  <2>1. /\ \A e \in Daemons \ {d} : stage'[e] = stage[e]
        /\ stage'[d] = "dead"
        /\ UNCHANGED reportVars
    BY <1>0, <1>4 DEF Crash, TypeOK
  <2>. QED BY <1>a, <2>1 DEF ReportInv, Published, reportVars
<1>5. CASE DaemonTick
  BY <1>a, <1>5 DEF DaemonTick, ReportInv, Published, reportVars
<1>6. CASE UNCHANGED daemonVars
  BY <1>a, <1>6 DEF daemonVars, ReportInv, Published
<1>. QED BY <1>1, <1>2, <1>3, <1>4, <1>5, <1>6 DEF DaemonNext

\* A reader of the report concludes what is true: online of a daemon that
\* published within the threshold, and nothing of one that has stopped.
THEOREM ReportIsTrue == DaemonSpec => []HostReadsTruly
<1>1. ReportInv => HostReadsTruly
  <2>. SUFFICES ASSUME ReportInv, ~raced, NEW d \in Daemons,
                       Running(d), now - last[d] <= StaleAfter
                PROVE  Liveness = "online" /\ report = [by |-> d, at |-> last[d]]
    BY DEF HostReadsTruly, ReportInv, Published
  <2>1. report = [by |-> d, at |-> last[d]]
    BY DEF ReportInv, Published
  <2>2. report # None /\ report.at = last[d]
    <3>1. last[d] \in 0..LastInstant
      BY DEF ReportInv, LockInv, TypeOK
    <3>. QED BY <2>1, <3>1, DaemonAssumption
  <2>3. now - report.at <= StaleAfter /\ now - report.at \in Int
    BY <2>2 DEF ReportInv, LockInv, TypeOK
  <2>. QED BY <2>1, <2>2, <2>3, DaemonAssumption DEF Liveness
<1>. QED BY ReportInit, ReportStep, <1>1, PTL DEF DaemonSpec

-----------------------------------------------------------------------------
(* ModelFailover *)

Entries == [reason : Reasons, until : Nat]

\* What the choice of a model depends on.
FailoverType == /\ config \in Configs
                /\ phase \in [Agents -> Phases]
                /\ active \in [Agents -> Models]
                /\ cooldowns \in [Agents -> [Models -> Entries]]
                /\ barred \in [Agents -> [Models -> 0..Forever]]
                /\ clock \in 0..MaxTime

\* An exclusion that is in force is in the record, and lasts there as long.
Recorded == \A a \in Agents : \A m \in Models :
                barred[a][m] > clock => /\ cooldowns[a][m].until >= barred[a][m]
                                        /\ cooldowns[a][m].reason # "transient"

\* The model an agent is to be launched on, or runs on, is not barred.
NotBarred == \A a \in Agents :
                phase[a] \in {"ready", "run", "backoff"} => barred[a][active[a]] <= clock

FailoverInv == FailoverType /\ Recorded /\ NotBarred

\* The bounds are numbers, and a penalty that ends does so before Forever.
LEMMA Bounds ==
  /\ MaxTime \in Nat /\ Transient \in Nat /\ RateLimit \in Nat /\ Quota \in Nat
  /\ Transient <= Quota /\ RateLimit <= Quota
  /\ Forever \in Nat /\ Forever = MaxTime + Quota + 1
BY FailoverAssumption DEF Forever

\* What is drawn of the list is a model of the list that is not barred.
LEMMA EligibleNotBarred ==
  ASSUME FailoverType, Recorded, NEW a \in Agents, NEW X, NEW m \in Eligible(a, X)
  PROVE  m \in Models /\ barred[a][m] <= clock
<1>1. config \in Seq(Models) /\ clock \in Nat
  BY Bounds, FailoverAssumption DEF FailoverType
<1>2. \A i \in 1..Len(config) : config[i] \in Models
  BY <1>1
<1>3. \A n \in Models : barred[a][n] \in Nat /\ cooldowns[a][n].until \in Nat
  BY Bounds DEF FailoverType, Entries
<1>4. CASE m \in Soft(a, X)
  <2>1. m \in Models
    BY <1>2, <1>4 DEF Soft, Configured
  <2>. QED BY <1>1, <1>3, <1>4, <2>1 DEF Soft, Cooling, Recorded
<1>5. CASE m \notin Soft(a, X)
  <2>1. PICK i \in Healthy(a, X) : m = config[i]
    <3>1. Healthy(a, X) # {}
      BY <1>5 DEF Eligible
    <3>2. m = config[CHOOSE i \in Healthy(a, X) : \A j \in Healthy(a, X) : i <= j]
      BY <3>1 DEF Eligible
    <3>3. \E i \in Healthy(a, X) : \A j \in Healthy(a, X) : i <= j
      <4>1. Healthy(a, X) \subseteq 1..Len(config) /\ Len(config) \in Nat
        BY <1>1 DEF Healthy
      <4>. QED BY <3>1, <4>1, LeastElement
    <3>. QED BY <3>2, <3>3
  <2>2. m \in Models /\ ~Cooling(a, m)
    BY <1>2, <2>1 DEF Healthy
  <2>. QED BY <1>1, <1>3, <2>2 DEF Cooling, Recorded
<1>. QED BY <1>4, <1>5

\* How long a penalty lasts.
LEMMA UntilType ==
  ASSUME clock \in 0..MaxTime, NEW reason \in Reasons
  PROVE  Until(reason) \in 0..Forever
BY Bounds DEF Until

\* A failure of the model that runs excludes what it excludes, for as long as it
\* excludes it, and ends no exclusion that is in force.
LEMMA FailsKeeps ==
  ASSUME FailoverInv, NEW a \in Agents, NEW reason \in Reasons,
         phase[a] = "run",
         CoolDown(a, active[a], reason),
         barred' = [barred EXCEPT ![a] = [m \in Models |->
             IF /\ reason \in Hard
                /\ m \in Affected(active[a], reason)
                /\ Until(reason) > @[m] THEN Until(reason)
             ELSE IF @[m] > clock THEN @[m] ELSE 0]],
         UNCHANGED clock
  PROVE  /\ cooldowns' \in [Agents -> [Models -> Entries]]
         /\ barred' \in [Agents -> [Models -> 0..Forever]]
         /\ Recorded'
<1>. DEFINE until == Until(reason)
            hit(n) == n \in Affected(active[a], reason)
            after(n) == IF hit(n) THEN [reason |-> reason, until |-> until]
                        ELSE IF Cooling(a, n) THEN cooldowns[a][n] ELSE NoCooldown
            bar(n) == IF reason \in Hard /\ hit(n) /\ until > barred[a][n] THEN until
                      ELSE IF barred[a][n] > clock THEN barred[a][n] ELSE 0
<1>1. /\ clock \in 0..MaxTime /\ clock \in Nat /\ until \in 0..Forever /\ Forever \in Nat
      /\ cooldowns \in [Agents -> [Models -> Entries]]
      /\ barred \in [Agents -> [Models -> 0..Forever]]
      /\ \A n \in Models : barred[a][n] \in 0..Forever /\ cooldowns[a][n] \in Entries
      /\ active[a] \in Models
  BY UntilType, Bounds DEF FailoverInv, FailoverType
<1>2. NoCooldown \in Entries /\ NoCooldown.until = 0
  BY DEF NoCooldown, Entries, Reasons
<1>3. [reason |-> reason, until |-> until] \in Entries
  BY <1>1 DEF Entries
<1>4. \A n \in Models : after(n) \in Entries
  BY <1>1, <1>2, <1>3, Zenon
<1>5. \A n \in Models : bar(n) \in 0..Forever
  BY <1>1
<1>6. cooldowns' = [cooldowns EXCEPT ![a] = [n \in Models |-> after(n)]]
  BY DEF CoolDown
<1>7. barred' = [barred EXCEPT ![a] = [n \in Models |-> bar(n)]]
  BY <1>1
<1>8. ASSUME NEW n \in Models, bar(n) > clock
      PROVE  after(n).until >= bar(n) /\ after(n).reason # "transient"
  <2>1. CASE ~hit(n)
    <3>1. barred[a][n] > clock /\ bar(n) = barred[a][n]
      BY <1>1, <1>8, <2>1
    <3>2. cooldowns[a][n].until >= barred[a][n] /\ cooldowns[a][n].reason # "transient"
      BY <3>1 DEF FailoverInv, Recorded
    <3>3. Cooling(a, n)
      BY <1>1, <3>1, <3>2 DEF Cooling, Entries
    <3>. QED BY <2>1, <3>1, <3>2, <3>3
  <2>2. CASE hit(n) /\ reason \in Hard
    <3>1. after(n).until = until /\ after(n).reason = reason
      BY <2>2
    <3>2. reason # "transient"
      BY <2>2 DEF Hard
    <3>3. bar(n) <= until
      <4>1. CASE until > barred[a][n] BY <1>1, <2>2, <4>1
      <4>2. CASE reason \in {"unavailable", "provider"}
        <5>1. until = Forever BY <4>2 DEF Until
        <5>. QED BY <1>1, <5>1, <1>5
      <4>3. CASE reason \in {"quota", "rate"} /\ ~(until > barred[a][n])
        <5>1. n = active[a] BY <2>2, <4>3 DEF Affected
        <5>2. barred[a][n] <= clock BY <5>1 DEF FailoverInv, NotBarred
        <5>3. bar(n) = 0 BY <1>1, <4>3, <5>2
        <5>. QED BY <1>1, <5>3
      <4>. QED BY <2>2, <4>1, <4>2, <4>3 DEF Hard
    <3>. QED BY <3>1, <3>2, <3>3
  <2>3. CASE hit(n) /\ reason = "transient"
    <3>1. n = active[a] BY <2>3 DEF Affected
    <3>2. barred[a][n] <= clock BY <3>1 DEF FailoverInv, NotBarred
    <3>3. bar(n) = 0 BY <1>1, <2>3, <3>2 DEF Hard
    <3>. QED BY <1>1, <1>8, <3>3
  <2>. QED BY <2>1, <2>2, <2>3 DEF Reasons
<1>. HIDE DEF after, bar, hit, until
<1>9. cooldowns' \in [Agents -> [Models -> Entries]] /\ barred' \in [Agents -> [Models -> 0..Forever]]
  BY <1>1, <1>4, <1>5, <1>6, <1>7
<1>10. Recorded'
  <2>. SUFFICES ASSUME NEW b \in Agents, NEW n \in Models, barred'[b][n] > clock
                PROVE  cooldowns'[b][n].until >= barred'[b][n] /\ cooldowns'[b][n].reason # "transient"
    BY DEF Recorded
  <2>1. CASE b = a
    <3>1. cooldowns'[b][n] = after(n) /\ barred'[b][n] = bar(n)
      BY <1>1, <1>6, <1>7, <2>1
    <3>. QED BY <1>8, <3>1
  <2>2. CASE b # a
    <3>1. cooldowns'[b][n] = cooldowns[b][n] /\ barred'[b][n] = barred[b][n]
      BY <1>1, <1>6, <1>7, <2>2
    <3>. QED BY <3>1 DEF FailoverInv, Recorded
  <2>. QED BY <2>1, <2>2
<1>. QED BY <1>9, <1>10
-----------------------------------------------------------------------------
\* No step of a runner, of another agent or of the operator launches a barred
\* model, and the clock only ends exclusions.
LEMMA FailoverStep == FailoverInv /\ [FailoverNext]_failoverVars => FailoverInv'
<1>. SUFFICES ASSUME FailoverInv, [FailoverNext]_failoverVars PROVE FailoverInv'
  OBVIOUS
<1>0. FailoverType /\ Recorded /\ NotBarred
  BY DEF FailoverInv
<1>a. ASSUME NEW a \in Agents, NEW m \in Models, barred[a][m] <= clock,
             UNCHANGED record, phase' \in [Agents -> Phases],
             \A b \in Agents \ {a} : phase'[b] = phase[b],
             active' = [active EXCEPT ![a] = m]
      PROVE  FailoverInv'
  BY <1>0, <1>a DEF FailoverInv, FailoverType, Recorded, NotBarred, record
<1>b. ASSUME UNCHANGED <<record, active>>, phase' \in [Agents -> Phases],
             \A b \in Agents : phase'[b] \in {"ready", "run", "backoff"}
                                 => phase[b] \in {"ready", "run", "backoff"}
      PROVE  FailoverInv'
  BY <1>0, <1>b DEF FailoverInv, FailoverType, Recorded, NotBarred, record
<1>1. ASSUME NEW a \in Agents, Run(a) PROVE FailoverInv'
  <2>. USE <1>0
  <2>0. phase \in [Agents -> Phases]
    BY DEF FailoverType
  <2>1. CASE BeginPrompt(a)
    <3>1. CASE \E m \in Eligible(a, {}) : /\ active' = [active EXCEPT ![a] = m]
                                          /\ Step(a, "idle", "ready")
      <4>1. PICK m \in Eligible(a, {}) : active' = [active EXCEPT ![a] = m] /\ Step(a, "idle", "ready")
        BY <3>1
      <4>2. m \in Models /\ barred[a][m] <= clock
        BY <4>1, EligibleNotBarred
      <4>3. phase' \in [Agents -> Phases] /\ \A b \in Agents \ {a} : phase'[b] = phase[b]
        BY <2>0, <4>1 DEF Step, Phases
      <4>. QED BY <1>a, <2>1, <4>1, <4>2, <4>3 DEF BeginPrompt
    <3>2. CASE Step(a, "idle", "idle") /\ UNCHANGED active
      BY <1>b, <2>0, <2>1, <3>2 DEF BeginPrompt, Step, Phases
    <3>. QED BY <2>1, <3>1, <3>2 DEF BeginPrompt
  <2>2. CASE Plan(a)
    <3>1. CASE /\ \E m \in Eligible(a, tried[a]) : active' = [active EXCEPT ![a] = m]
               /\ Step(a, "plan", "backoff")
      <4>1. PICK m \in Eligible(a, tried[a]) : active' = [active EXCEPT ![a] = m]
        BY <3>1
      <4>2. m \in Models /\ barred[a][m] <= clock
        BY <4>1, EligibleNotBarred
      <4>3. phase' \in [Agents -> Phases] /\ \A b \in Agents \ {a} : phase'[b] = phase[b]
        BY <2>0, <3>1 DEF Step, Phases
      <4>. QED BY <1>a, <2>2, <4>1, <4>2, <4>3 DEF Plan
    <3>2. CASE UNCHANGED active /\ (Step(a, "plan", "idle") \/ UNCHANGED phase \/ Step(a, "plan", "wait"))
      BY <1>b, <2>0, <2>2, <3>2 DEF Plan, Step, Phases
    <3>. QED BY <2>2, <3>1, <3>2 DEF Plan
  <2>3. CASE Launch(a) \/ Finishes(a) \/ Withdraw(a) \/ Ends(a)
    BY <1>b, <2>0, <2>3 DEF Launch, Finishes, Withdraw, Ends, Step, Phases
  <2>4. CASE Resume(a)
    BY <1>b, <2>0, <2>4 DEF Resume, Step, Phases
  <2>5. CASE Fails(a)
    <3>1. PICK reason \in Failures, unrecognized \in BOOLEAN :
             /\ Step(a, "run", "plan")
             /\ IF open[a]
                THEN /\ CoolDown(a, active[a], reason)
                     /\ barred' = [barred EXCEPT ![a] = [m \in Models |->
                            IF /\ reason \in Hard
                               /\ m \in Affected(active[a], reason)
                               /\ Until(reason) > @[m] THEN Until(reason)
                            ELSE IF @[m] > clock THEN @[m] ELSE 0]]
                ELSE UNCHANGED <<cooldowns, barred>>
             /\ UNCHANGED <<config, active, clock>>
      BY <2>5 DEF Fails
    <3>2. reason \in Reasons
      BY FailoverAssumption
    <3>3. /\ cooldowns' \in [Agents -> [Models -> Entries]]
          /\ barred' \in [Agents -> [Models -> 0..Forever]]
          /\ Recorded'
      <4>1. CASE open[a]
        <5>1. phase[a] = "run" /\ UNCHANGED clock
          BY <3>1 DEF Step
        <5>. QED BY <3>1, <3>2, <4>1, <5>1, FailsKeeps
      <4>2. CASE ~open[a]
        BY <3>1, <4>2 DEF FailoverType, Recorded
      <4>. QED BY <4>1, <4>2
    <3>4. /\ phase' \in [Agents -> Phases] /\ phase'[a] = "plan"
          /\ \A b \in Agents \ {a} : phase'[b] = phase[b] /\ barred'[b] = barred[b]
      BY <2>0, <3>1 DEF Step, Phases, FailoverType
    <3>5. NotBarred'
      BY <3>1, <3>4 DEF NotBarred
    <3>. QED BY <3>1, <3>3, <3>4, <3>5 DEF FailoverInv, FailoverType
  <2>. QED BY <1>1, <2>1, <2>2, <2>3, <2>4, <2>5 DEF Run
<1>2. ASSUME NEW o \in Others, OthersFail(o) PROVE FailoverInv'
  BY <1>0, <1>2 DEF OthersFail, FailoverInv, FailoverType, Recorded, NotBarred
<1>3. CASE Edit
  BY <1>0, <1>3 DEF Edit, FailoverInv, FailoverType, Recorded, NotBarred
<1>4. CASE FailoverTick
  <2>1. clock' \in 0..MaxTime /\ clock' = clock + 1 /\ clock \in Nat
    BY <1>0, <1>4, Bounds DEF FailoverTick, FailoverType
  <2>2. \A a \in Agents : active[a] \in Models /\ \A m \in Models : barred[a][m] \in Nat
    BY <1>0, Bounds DEF FailoverType
  <2>3. FailoverType'
    BY <1>0, <1>4, <2>1 DEF FailoverTick, FailoverType
  <2>4. Recorded'
    BY <1>0, <1>4, <2>1, <2>2 DEF FailoverTick, Recorded
  <2>5. NotBarred'
    BY <1>0, <1>4, <2>1, <2>2 DEF FailoverTick, NotBarred
  <2>. QED BY <2>3, <2>4, <2>5 DEF FailoverInv
<1>5. CASE UNCHANGED failoverVars
  BY <1>0, <1>5 DEF failoverVars, FailoverInv, FailoverType, Recorded, NotBarred
<1>. QED BY <1>1, <1>2, <1>3, <1>4, <1>5 DEF FailoverNext

\* No exclusion and no launch.
LEMMA FailoverInitially == FailoverInit => FailoverInv
<1>. SUFFICES ASSUME FailoverInit PROVE FailoverInv
  OBVIOUS
<1>1. config \in Configs /\ config \in Seq(Models) /\ config # << >>
  BY FailoverAssumption DEF FailoverInit
<1>2. config[1] \in Models
  BY <1>1
<1>3. NoCooldown \in Entries
  BY DEF NoCooldown, Entries, Reasons
<1>4. /\ phase = [a \in Agents |-> "idle"]
      /\ active \in [Agents -> {config[1]}]
      /\ cooldowns = [a \in Agents |-> [m \in Models |-> NoCooldown]]
      /\ barred = [a \in Agents |-> [m \in Models |-> 0]]
      /\ clock = 0
  BY DEF FailoverInit
<1>5. FailoverType
  BY <1>1, <1>2, <1>3, <1>4, Bounds DEF FailoverType, Phases
<1>6. Recorded /\ NotBarred
  BY <1>4 DEF Recorded, NotBarred
<1>. QED BY <1>5, <1>6 DEF FailoverInv

\* An agent is never launched on a model it has excluded, while the exclusion
\* lasts, whatever the list, the failures and the penalties are.
THEOREM NeverBarred == FailoverSpec => NoBarredLaunch
<1>1. FailoverInv /\ [FailoverNext]_failoverVars
        => [\A a \in Agents : phase[a] = "ready" /\ phase'[a] = "run"
              => barred[a][active[a]] <= clock]_failoverVars
  BY DEF FailoverInv, NotBarred
<1>. QED BY FailoverInitially, FailoverStep, <1>1, PTL DEF FailoverSpec, NoBarredLaunch

-----------------------------------------------------------------------------
(* Which process a signal reaches *)

Identities == [pid : Pids \cup {NoProcess}, start_time : Nat, invocation_id : Nat,
               runner_pid : Pids \cup {NoProcess}, runner_start_time : Nat]

IdentityType == /\ process \in [Pids -> Process \cup {NoProcess}]
                /\ named \in [Runs -> Identities]
                /\ snapshot \in [Watchers -> [agent : Runs, record : Identities]]
                /\ starts \in Nat

\* The start tick tells all processes apart, the dead ones too.  What bears
\* the marker of an invocation works for it, but a runner that inherited it;
\* a backend is named by its own tick and leads its group; and a group, whose
\* number is not given out again while it has members, works for one.
Bears(p) ==
    /\ process[p].start \in 1..starts /\ process[p].invocation <= starts
    /\ process[p].zombie => process[p].invocation = 0
    /\ process[p].kind # "runner" /\ process[p].invocation # 0
         => process[p].invocation = process[p].for
    /\ process[p].kind = "backend" => process[p].for = process[p].start /\ process[p].group = p
Apart(p, q) == /\ process[q].start = process[p].start => q = p
               /\ process[q].group = process[p].group => process[q].for = process[p].for
ToldApart == \A p \in Pids : Present(p) =>
                 Bears(p) /\ \A q \in Pids : Present(q) => Apart(p, q)

InFlight(r) == Is(r, "runner") /\ (process[r].child # NoProcess \/ process[r].sweep)

\* A runner remembers a backend of its own, which it has not reaped, by the
\* invocation; and no runner of the agent inherited that one, since none is
\* started while a run of the agent is in flight.
Owns(r) == /\ process[r].childInvocation \in 1..starts
           /\ process[r].sweep => process[r].child = NoProcess
           /\ process[r].child # NoProcess =>
                /\ Present(process[r].child)
                /\ process[process[r].child].kind = "backend"
                /\ process[process[r].child].start = process[r].childInvocation
AloneOwns(r, q) ==
    /\ InFlight(q) /\ q # r /\ process[r].child # NoProcess
         => process[q].child # process[r].child
    /\ Is(q, "runner") /\ process[q].agent = process[r].agent
         => process[q].invocation # process[r].childInvocation
RunsOwn == \A r \in Pids : InFlight(r) => Owns(r) /\ \A q \in Pids : AloneOwns(r, q)

\* Of the ticks a record names, now or when it was read, one is that of a
\* backend and one that of a runner, whoever has their pids by now.
Names(ids) ==
    /\ ids.pid # NoProcess =>
         /\ ids.start_time = ids.invocation_id /\ ids.start_time <= starts
         /\ \A p \in Pids : Present(p) /\ process[p].start = ids.start_time
              => process[p].kind = "backend"
    /\ ids.runner_pid # NoProcess =>
         /\ ids.runner_start_time <= starts
         /\ \A p \in Pids : Present(p) /\ process[p].start = ids.runner_start_time
              => process[p].kind = "runner"

RecordsName == /\ \A a \in Runs : Names(named[a])
               /\ \A w \in Watchers : Names(snapshot[w].record)

IdentityInv == IdentityType /\ ToldApart /\ RunsOwn /\ RecordsName

LEMMA IdentityStarts == IdentityInit => IdentityInv
<1>. SUFFICES ASSUME IdentityInit PROVE IdentityInv
  OBVIOUS
<1>1. Nobody \in Identities
  BY DEF Nobody, Identities
<1>2. (CHOOSE a \in Runs : TRUE) \in Runs
  BY IdentityAssumption
<1>3. IdentityType
  BY <1>1, <1>2 DEF IdentityInit, IdentityType
<1>4. \A p \in Pids : ~Present(p)
  BY DEF IdentityInit, Present
<1>5. \A w \in Watchers : snapshot[w].record = Nobody
  BY DEF IdentityInit
<1>6. Names(Nobody) /\ \A a \in Runs : named[a] = Nobody
  BY DEF IdentityInit, Names, Nobody
<1>. QED BY <1>3, <1>4, <1>5, <1>6
     DEF IdentityInv, ToldApart, RunsOwn, InFlight, Is, Living, RecordsName

\* What is left of a process in a step that starts none: all there was to it,
\* or a zombie, or nothing; and a runner may have forgotten its backend.
Remains(p) == Present(p)' =>
    /\ Present(p)
    /\ process'[p].kind = process[p].kind /\ process'[p].start = process[p].start
    /\ process'[p].for = process[p].for /\ process'[p].group = process[p].group
    /\ process'[p].zombie => process'[p].invocation = 0
    /\ ~process'[p].zombie => /\ ~process[p].zombie
                              /\ process'[p].agent = process[p].agent
                              /\ process'[p].invocation = process[p].invocation
    /\ InFlight(p)' => /\ InFlight(p)
                       /\ process'[p].childInvocation = process[p].childInvocation
                       /\ process'[p].sweep => process[p].sweep \/ process'[p].child = NoProcess
                       /\ process'[p].child # NoProcess
                            => process'[p].child = process[p].child /\ Present(process[p].child)'

LEMMA NobodyStarts ==
  ASSUME IdentityInv, IdentityType', UNCHANGED starts, \A p \in Pids : Remains(p),
         \A a \in Runs : Names(named'[a]), \A w \in Watchers : Names(snapshot'[w].record)
  PROVE  IdentityInv'
<1>0. /\ \A p \in Pids : Present(p) => process[p] \in Process
      /\ \A p \in Pids : Present(p)' => process'[p] \in Process
  BY DEF IdentityInv, IdentityType, Present
<1>1. ToldApart'
  <2>. SUFFICES ASSUME NEW p \in Pids, Present(p)', NEW q \in Pids, Present(q)'
                PROVE  Bears(p)' /\ Apart(p, q)'
    BY DEF ToldApart
  <2>1. Present(p) /\ Present(q) /\ Bears(p) /\ Apart(p, q)
    BY DEF Remains, IdentityInv, ToldApart
  <2>2. process[p] \in Process /\ process'[p] \in Process /\ Remains(p) /\ Remains(q)
    BY <1>0, <2>1
  <2>3. Bears(p)'
    <3>1. starts \in Nat /\ process[p].invocation <= starts /\ 0 <= starts
      BY <2>1, <2>2 DEF Bears, IdentityInv, IdentityType
    <3>2. process'[p].zombie \/ process'[p].invocation = process[p].invocation
      BY <2>2 DEF Remains
    <3>3. process'[p].zombie => process'[p].invocation = 0
      BY <2>2 DEF Remains
    <3>4. process'[p].invocation <= starts'
      BY <3>1, <3>2, <3>3
    <3>. QED BY <2>1, <2>2, <3>2, <3>3, <3>4 DEF Bears, Remains
  <2>4. Apart(p, q)'
    BY <2>1, <2>2 DEF Apart, Remains
  <2>. QED BY <2>3, <2>4
<1>2. RunsOwn'
  <2>. SUFFICES ASSUME NEW r \in Pids, InFlight(r)', NEW q \in Pids
                PROVE  Owns(r)' /\ AloneOwns(r, q)'
    BY DEF RunsOwn
  <2>1. InFlight(r) /\ Owns(r) /\ AloneOwns(r, q)
    BY DEF Remains, InFlight, Is, Living, IdentityInv, RunsOwn
  <2>2. Present(r)' /\ Remains(r) /\ Remains(q) /\ ~process'[r].zombie
    BY DEF InFlight, Is, Living
  <2>3. Owns(r)'
    <3>1. process'[r].childInvocation \in 1..starts'
      BY <2>1, <2>2 DEF Owns, Remains
    <3>2. ASSUME process'[r].child # NoProcess
          PROVE  /\ process'[r].child = process[r].child /\ Remains(process[r].child)
                 /\ Present(process[r].child)'
      <4>1. process[r].child \in Pids \cup {NoProcess}
        BY <1>0, <2>1 DEF Process, InFlight, Is, Living
      <4>2. process'[r].child = process[r].child /\ Present(process[r].child)'
        BY <2>2, <3>2 DEF Remains
      <4>. QED BY <3>2, <4>1, <4>2
    <3>. QED BY <2>1, <2>2, <3>1, <3>2 DEF Owns, Remains
  <2>4. AloneOwns(r, q)'
    BY <2>1, <2>2 DEF AloneOwns, Remains, Is, Living, InFlight
  <2>. QED BY <2>3, <2>4
<1>3. ASSUME NEW ids \in Identities, Names(ids) PROVE Names(ids)'
  BY <1>3 DEF Names, Remains
<1>4. RecordsName'
  BY <1>3 DEF RecordsName, IdentityType
<1>. QED BY <1>1, <1>2, <1>4 DEF IdentityInv

\* A process that starts: its tick and its pid are new, and no group has its
\* number.  Of the others a runner may come to remember it.
Joins(p, new) ==
    /\ IsFree(p) /\ starts' = starts + 1
    /\ process'[p] = new /\ new \in Process
    /\ new.start = starts + 1 /\ ~new.zombie
    /\ new.invocation <= starts \/ (new.kind = "backend" /\ new.invocation = starts + 1)
    /\ new.kind # "runner" /\ new.invocation # 0 => new.invocation = new.for
    /\ new.kind = "backend" => new.for = new.start /\ new.group = p
    /\ new.kind = "runner" => new.child = NoProcess /\ ~new.sweep
    /\ \/ new.group = p
       \/ \E q \in Pids : Present(q) /\ process[q].group = new.group /\ process[q].for = new.for

LEMMA SomebodyStarts ==
  ASSUME IdentityInv, IdentityType', NEW p \in Pids, NEW new, Joins(p, new),
         UNCHANGED <<named, snapshot>>,
         \A q \in Pids \ {p} : 
            /\ Present(q)' <=> Present(q)
            /\ Present(q) => 
                 /\ process'[q].kind = process[q].kind /\ process'[q].start = process[q].start
                 /\ process'[q].for = process[q].for /\ process'[q].group = process[q].group
                 /\ process'[q].zombie = process[q].zombie
                 /\ process'[q].invocation = process[q].invocation
  PROVE  ToldApart' /\ RecordsName'
<1>0. /\ \A q \in Pids : Present(q) => process[q] \in Process
      /\ \A q \in Pids : Present(q)' => process'[q] \in Process
      /\ ~Present(p) /\ Present(p)' /\ starts \in Nat
  BY IdentityAssumption DEF IdentityInv, IdentityType, Present, Joins, IsFree
<1>1. ASSUME NEW q \in Pids \ {p}, NEW r \in Pids \ {p}, Present(q)', Present(r)'
      PROVE  Bears(q)' /\ Apart(q, r)'
  <2>1. Present(q) /\ Present(r) /\ Bears(q) /\ Apart(q, r)
    BY <1>1 DEF IdentityInv, ToldApart
  <2>2. process[q] \in Process /\ process'[q] \in Process
    BY <1>0, <1>1, <2>1
  <2>3. process[q].start \in Nat /\ process[q].invocation \in Nat
    BY <2>2 DEF Process
  <2>4. Apart(q, r)'
    BY <2>1 DEF Apart
  <2>. QED BY <1>0, <2>1, <2>3, <2>4 DEF Bears, Joins
<1>2. Bears(p)'
  <2>1. process'[p] = new /\ new.invocation \in Nat
    BY DEF Joins, Process
  <2>. QED BY <1>0, <2>1 DEF Bears, Joins
<1>3. ASSUME NEW q \in Pids, Present(q)'
      PROVE  Apart(p, q)' /\ Apart(q, p)'
  <2>1. CASE q = p
    BY <2>1 DEF Apart
  <2>2. CASE q # p
    <3>1. Present(q) /\ Bears(q) /\ process[q].group # p /\ process[q] \in Process
      BY <1>0, <1>3, <2>2 DEF IdentityInv, ToldApart, Joins, IsFree
    <3>2. process'[q].start # process'[p].start
      BY <1>0, <2>2, <3>1 DEF Bears, Joins
    <3>3. process'[q].group = process'[p].group => process'[q].for = process'[p].for
      BY <2>2, <3>1 DEF Joins, IdentityInv, ToldApart, Apart
    <3>. QED BY <3>2, <3>3 DEF Apart
  <2>. QED BY <2>1, <2>2
<1>4. ToldApart'
  BY <1>1, <1>2, <1>3 DEF ToldApart
<1>5. ASSUME NEW ids \in Identities, Names(ids) PROVE Names(ids)'
  BY <1>0, <1>5 DEF Names, Joins, Identities
<1>6. RecordsName'
  BY <1>5 DEF RecordsName, IdentityInv, IdentityType
<1>. QED BY <1>4, <1>6

\* A process that ends, by itself or by a signal.
LEMMA SomeEnd ==
  ASSUME IdentityInv, NEW ends \in SUBSET Pids, process' = Ended(ends)
  PROVE  process' \in [Pids -> Process \cup {NoProcess}] /\ \A p \in Pids : Remains(p)
<1>0. \A p \in Pids : Present(p) => process[p] \in Process
  BY DEF IdentityInv, IdentityType, Present
<1>1. ASSUME NEW p \in Pids
      PROVE  \/ process'[p] = NoProcess
             \/ Present(p) /\ process'[p] = process[p] /\ p \notin ends
             \/ /\ Present(p)
                /\ process'[p] = [process[p] EXCEPT !.zombie = TRUE, !.agent = "none",
                                                   !.invocation = 0]
  BY DEF Ended
<1>2. process' \in [Pids -> Process \cup {NoProcess}]
  <2>1. process' = [p \in Pids |-> process'[p]]
    BY DEF Ended
  <2>2. ASSUME NEW p \in Pids PROVE process'[p] \in Process \cup {NoProcess}
    <3>1. ASSUME process[p] \in Process
          PROVE  [process[p] EXCEPT !.zombie = TRUE, !.agent = "none", !.invocation = 0] \in Process
      BY <3>1 DEF Process
    <3>. QED BY <1>0, <1>1, <3>1
  <2>. QED BY <2>1, <2>2
<1>3. ASSUME NEW r \in Pids, InFlight(r)', process'[r].child # NoProcess
      PROVE  process'[process'[r].child] # NoProcess
  <2>1. Present(r) /\ process'[r] = process[r] /\ r \notin ends
    BY <1>0, <1>1, <1>3 DEF InFlight, Is, Living, Present, Process
  <2>2. InFlight(r) /\ Present(process[r].child) /\ process[r].child \in Pids
    <3>1. InFlight(r)
      BY <1>3, <2>1 DEF InFlight, Is, Living
    <3>. QED BY <1>0, <1>3, <2>1, <3>1 DEF IdentityInv, RunsOwn, Owns, Process
  <2>3. r \in {q \in Pids \ ends : Is(q, "runner") /\ process[q].child = process[r].child}
    BY <2>1, <2>2 DEF InFlight
  <2>4. process[r].child # NoProcess /\ process[process[r].child] \in Process
    BY <1>0, <1>3, <2>1, <2>2
  <2>5. process'[process[r].child] # NoProcess
    <3>. DEFINE p == process[r].child
                Z == [process[p] EXCEPT !.zombie = TRUE, !.agent = "none", !.invocation = 0]
    <3>1. Z \in Process
      BY <2>4 DEF Process
    <3>2. process'[p] \in {process[p], Z}
      BY <2>2, <2>3 DEF Ended
    <3>. QED BY <2>4, <3>1, <3>2, IdentityAssumption
  <2>. QED BY <2>1, <2>5
<1>4. ASSUME NEW p \in Pids PROVE Remains(p)
  <2>. SUFFICES ASSUME Present(p)' PROVE Remains(p)
    BY DEF Remains
  <2>1. CASE Present(p) /\ process'[p] = process[p]
    <3>1. process[p].zombie => process[p].invocation = 0
      BY <2>1 DEF IdentityInv, ToldApart, Bears
    <3>2. InFlight(p)' => /\ InFlight(p)
                          /\ process'[p].child # NoProcess => Present(process[p].child)'
      BY <1>3, <2>1 DEF InFlight, Is, Living, Present
    <3>. QED BY <2>1, <3>1, <3>2 DEF Remains
  <2>2. CASE /\ Present(p)
             /\ process'[p] = [process[p] EXCEPT !.zombie = TRUE, !.agent = "none",
                                                !.invocation = 0]
    <3>1. process[p] \in Process
      BY <1>0, <2>2
    <3>2. /\ process'[p].zombie /\ process'[p].invocation = 0
          /\ process'[p].kind = process[p].kind /\ process'[p].start = process[p].start
          /\ process'[p].for = process[p].for /\ process'[p].group = process[p].group
      BY <2>2, <3>1 DEF Process
    <3>. QED BY <2>2, <3>2 DEF Remains, InFlight, Is, Living
  <2>. QED BY <1>1, <2>1, <2>2 DEF Present
<1>. QED BY <1>2, <1>4

\* A process that is given a free pid.
LEMMA StartedType ==
  ASSUME IdentityType, NEW kind \in {"runner", "backend", "tool", "stranger"},
         NEW name \in Runs \cup {"none"}, NEW invocation \in Nat, NEW work \in Nat,
         NEW group \in Pids
  PROVE  Started(kind, name, invocation, work, group) \in Process
<1>1. starts + 1 \in Nat /\ 0 \in Nat
  BY DEF IdentityType
<1>. QED BY <1>1, Zenon DEF Started, Process

LEMMA SpawnRunnerKeeps == IdentityInv /\ SpawnRunner => IdentityInv'
<1>. SUFFICES ASSUME IdentityInv, SpawnRunner PROVE IdentityInv'
  OBVIOUS
<1>1. PICK a \in Runs, p \in Pids :
        /\ Gives(p)
        /\ ~\E r \in Pids : InFlight(r) /\ process[r].agent = a
        /\ \E inherited \in {0} \cup {process[q].invocation : q \in {t \in Pids : Is(t, "tool")}} :
             process' = [process EXCEPT ![p] = Started("runner", a, inherited, 0, p)]
        /\ UNCHANGED <<named, snapshot>>
  BY DEF SpawnRunner, InFlight
<1>2. PICK inherited \in 0..starts :
        process' = [process EXCEPT ![p] = Started("runner", a, inherited, 0, p)]
  <2>1. ASSUME NEW q \in Pids, Is(q, "tool") PROVE process[q].invocation \in 0..starts
    <3>1. process[q] \in Process /\ Bears(q) /\ starts \in Nat
      BY <2>1 DEF Is, Living, Present, IdentityInv, IdentityType, ToldApart
    <3>2. process[q].invocation \in Nat
      BY <3>1 DEF Process
    <3>. QED BY <3>1, <3>2 DEF Bears
  <2>2. 0 \in 0..starts
    BY DEF IdentityInv, IdentityType
  <2>. QED BY <1>1, <2>1, <2>2
<1>. DEFINE new == Started("runner", a, inherited, 0, p)
<1>3. new \in Process
  <2>1. a \in Runs \cup {"none"} /\ inherited \in Nat /\ 0 \in Nat
    BY DEF IdentityInv, IdentityType
  <2>. QED BY <2>1, StartedType DEF IdentityInv
<1>4. IdentityType'
  BY <1>1, <1>2, <1>3 DEF IdentityInv, IdentityType, Gives
<1>5. Joins(p, new)
  <2>1. /\ new.start = starts + 1 /\ ~new.zombie /\ new.invocation = inherited
        /\ new.kind = "runner" /\ new.child = NoProcess /\ ~new.sweep /\ new.group = p
        /\ new.agent = a
    BY DEF Started
  <2>2. inherited <= starts /\ process'[p] = new
    BY <1>2 DEF IdentityInv, IdentityType
  <2>. QED BY <1>1, <1>3, <2>1, <2>2 DEF Joins, Gives
<1>6. \A q \in Pids \ {p} : process'[q] = process[q]
  BY <1>2 DEF IdentityInv, IdentityType
<1>7. ToldApart' /\ RecordsName'
  BY <1>1, <1>4, <1>5, <1>6, SomebodyStarts DEF Present
<1>8. RunsOwn'
  <2>. SUFFICES ASSUME NEW r \in Pids, InFlight(r)', NEW q \in Pids
                PROVE  Owns(r)' /\ AloneOwns(r, q)'
    BY DEF RunsOwn
  <2>0. /\ process'[p].child = NoProcess /\ ~process'[p].sweep
        /\ process'[p].agent = a /\ ~Present(p) /\ ~InFlight(p)'
    BY <1>5 DEF Joins, Started, InFlight, IsFree
  <2>1. r # p /\ InFlight(r) /\ Owns(r) /\ AloneOwns(r, q) /\ process'[r] = process[r]
    BY <1>6, <2>0 DEF InFlight, Is, Living, Present, IdentityInv, RunsOwn
  <2>2. Owns(r)'
    <3>1. process[r].childInvocation \in 1..starts'
      BY <1>5, <2>1 DEF Owns, Joins, IdentityInv, IdentityType
    <3>2. process[r].child \in Pids \cup {NoProcess}
      BY <2>1 DEF InFlight, Is, Living, Present, IdentityInv, IdentityType, Process
    <3>. QED BY <1>6, <2>0, <2>1, <3>1, <3>2 DEF Owns, Present
  <2>3. AloneOwns(r, q)'
    <3>1. CASE q = p
      BY <1>1, <2>0, <2>1, <3>1 DEF AloneOwns
    <3>2. CASE q # p
      BY <1>6, <2>1, <3>2 DEF AloneOwns, InFlight, Is, Living, Present
    <3>. QED BY <3>1, <3>2
  <2>. QED BY <2>2, <2>3
<1>. QED BY <1>4, <1>7, <1>8 DEF IdentityInv

\* A stranger, or a tool in the group of who started it or in its own: the
\* runners have nothing to do with it.
LEMMA OthersJoin ==
  ASSUME IdentityInv, NEW p \in Pids, NEW new, Joins(p, new), new.kind \in {"tool", "stranger"},
         process' = [process EXCEPT ![p] = new], UNCHANGED <<named, snapshot>>
  PROVE  IdentityInv'
<1>1. IdentityType'
  BY DEF IdentityInv, IdentityType, Joins
<1>2. \A q \in Pids \ {p} : process'[q] = process[q]
  BY DEF IdentityInv, IdentityType
<1>3. ToldApart' /\ RecordsName'
  BY <1>1, <1>2, SomebodyStarts DEF Present
<1>4. RunsOwn'
  <2>. SUFFICES ASSUME NEW r \in Pids, InFlight(r)', NEW q \in Pids
                PROVE  Owns(r)' /\ AloneOwns(r, q)'
    BY DEF RunsOwn
  <2>0. process'[p].kind \in {"tool", "stranger"} /\ ~Present(p)
    BY DEF Joins, IsFree
  <2>1. r # p /\ InFlight(r) /\ Owns(r) /\ AloneOwns(r, q) /\ process'[r] = process[r]
    BY <1>2, <2>0 DEF InFlight, Is, Living, Present, IdentityInv, RunsOwn
  <2>2. Owns(r)'
    <3>1. process[r].childInvocation \in 1..starts'
      BY <2>1 DEF Owns, Joins, IdentityInv, IdentityType
    <3>2. process[r].child \in Pids \cup {NoProcess}
      BY <2>1 DEF InFlight, Is, Living, Present, IdentityInv, IdentityType, Process
    <3>. QED BY <1>2, <2>0, <2>1, <3>1, <3>2 DEF Owns, Present
  <2>3. AloneOwns(r, q)'
    <3>1. CASE q = p
      BY <2>0, <3>1 DEF AloneOwns, InFlight, Is
    <3>2. CASE q # p
      BY <1>2, <2>1, <3>2 DEF AloneOwns, InFlight, Is, Living, Present
    <3>. QED BY <3>1, <3>2
  <2>. QED BY <2>2, <2>3
<1>. QED BY <1>1, <1>3, <1>4 DEF IdentityInv

LEMMA SpawnBackendKeeps ==
  ASSUME IdentityInv, NEW r \in Pids, SpawnBackend(r)
  PROVE  IdentityInv'
<1>1. PICK p \in Pids :
        /\ Gives(p)
        /\ process' = [process EXCEPT
                         ![p] = Started("backend", process[r].agent, starts + 1, starts + 1, p),
                         ![r].child = p, ![r].childInvocation = starts + 1]
  BY DEF SpawnBackend
<1>. DEFINE new == Started("backend", process[r].agent, starts + 1, starts + 1, p)
            remembers == [process[r] EXCEPT !.child = p, !.childInvocation = starts + 1]
<1>2. /\ Is(r, "runner") /\ process[r].child = NoProcess /\ ~process[r].sweep
      /\ process[r] \in Process /\ r # p /\ ~Present(p) /\ starts \in Nat
      /\ UNCHANGED <<named, snapshot>>
  BY <1>1 DEF SpawnBackend, Is, Living, Present, IdentityInv, IdentityType, Gives, IsFree
<1>3. new \in Process /\ remembers \in Process
  <2>1. process[r].agent \in Runs \cup {"none"} /\ starts + 1 \in Nat
    BY <1>2 DEF Process
  <2>2. new \in Process
    BY <2>1, StartedType DEF IdentityInv
  <2>. QED BY <1>2, <2>1, <2>2 DEF Process
<1>4. /\ process'[p] = new /\ process'[r] = remembers
      /\ \A q \in Pids \ {p, r} : process'[q] = process[q]
  BY <1>1, <1>2 DEF IdentityInv, IdentityType
<1>5. IdentityType'
  BY <1>1, <1>2, <1>3 DEF IdentityInv, IdentityType, Gives
<1>6. /\ remembers.kind = process[r].kind /\ remembers.start = process[r].start
      /\ remembers.for = process[r].for /\ remembers.group = process[r].group
      /\ remembers.zombie = process[r].zombie /\ remembers.invocation = process[r].invocation
      /\ remembers.agent = process[r].agent /\ remembers.sweep = process[r].sweep
      /\ remembers.child = p /\ remembers.childInvocation = starts + 1
  BY <1>2 DEF Process
<1>7. /\ new.start = starts + 1 /\ ~new.zombie /\ new.invocation = starts + 1
      /\ new.for = starts + 1 /\ new.kind = "backend" /\ new.group = p
  BY DEF Started
<1>8. Joins(p, new)
  BY <1>1, <1>3, <1>4, <1>7 DEF Joins, Gives
<1>. HIDE DEF new, remembers
<1>9. /\ Present(r) /\ Present(r)' /\ Present(p)'
      /\ \A q \in Pids \ {p, r} : Present(q)' <=> Present(q)
  BY <1>2, <1>3, <1>4, IdentityAssumption DEF Present, Is, Living
<1>10. ToldApart' /\ RecordsName'
  BY <1>2, <1>4, <1>5, <1>6, <1>8, <1>9, SomebodyStarts
<1>11. RunsOwn'
  <2>. SUFFICES ASSUME NEW s \in Pids, InFlight(s)', NEW q \in Pids
                PROVE  Owns(s)' /\ AloneOwns(s, q)'
    BY DEF RunsOwn
  <2>0. s # p /\ starts' = starts + 1
    BY <1>4, <1>7, <1>8 DEF InFlight, Is, Joins
  <2>1. CASE s = r
    <3>1. Owns(s)'
      BY <1>2, <1>4, <1>6, <1>7, <1>9, <2>0, <2>1 DEF Owns
    <3>2. AloneOwns(s, q)'
      <4>1. CASE q \in {p, r}
        <5>1. Is(q, "runner")' => q = r /\ process'[q].invocation <= starts
          BY <1>2, <1>4, <1>6, <1>7, <4>1 DEF Is, Living, IdentityInv, ToldApart, Bears
        <5>. QED BY <1>2, <1>4, <1>6, <2>1, <5>1 DEF AloneOwns, InFlight
      <4>2. CASE q \notin {p, r}
        <5>1. process'[q] = process[q]
          BY <1>4, <4>2
        <5>2. ASSUME Is(q, "runner")' PROVE process'[q].invocation # starts + 1
          <6>1. process[q] \in Process /\ Bears(q)
            BY <5>1, <5>2 DEF Is, Living, Present, IdentityInv, IdentityType, ToldApart
          <6>2. process[q].invocation \in Nat
            BY <6>1 DEF Process
          <6>. QED BY <1>2, <5>1, <6>1, <6>2 DEF Bears
        <5>3. InFlight(q)' => process'[q].child # p
          <6>1. InFlight(q)' => Owns(q) /\ InFlight(q)
            BY <5>1 DEF InFlight, Is, Living, Present, IdentityInv, RunsOwn
          <6>. QED BY <1>2, <5>1, <6>1, IdentityAssumption DEF Owns
        <5>. QED BY <1>4, <1>6, <2>1, <5>2, <5>3 DEF AloneOwns
      <4>. QED BY <4>1, <4>2
    <3>. QED BY <3>1, <3>2
  <2>2. CASE s # r
    <3>1. process'[s] = process[s] /\ InFlight(s) /\ Owns(s) /\ AloneOwns(s, q) /\ AloneOwns(s, r)
      BY <1>4, <2>0, <2>2 DEF InFlight, Is, Living, Present, IdentityInv, RunsOwn
    <3>2. process[s].child # NoProcess => process[s].child \in Pids \ {p, r}
      <4>1. process[s].child \in Pids \cup {NoProcess}
        BY <3>1 DEF InFlight, Is, Living, Present, IdentityInv, IdentityType, Process
      <4>. QED BY <1>2, <3>1, <4>1 DEF Owns, Is
    <3>3. Owns(s)'
      BY <1>2, <1>4, <1>9, <2>0, <3>1, <3>2 DEF Owns
    <3>4. AloneOwns(s, q)'
      <4>1. CASE q = p
        BY <1>4, <1>7, <4>1 DEF AloneOwns, InFlight, Is
      <4>2. CASE q = r
        BY <1>2, <1>4, <1>6, <1>9, <3>1, <3>2, <4>2 DEF AloneOwns, InFlight, Is, Living
      <4>3. CASE q \notin {p, r}
        BY <1>4, <3>1, <4>3 DEF AloneOwns, InFlight, Is, Living, Present
      <4>. QED BY <4>1, <4>2, <4>3
    <3>. QED BY <3>3, <3>4
  <2>. QED BY <2>1, <2>2
<1>. QED BY <1>5, <1>10, <1>11 DEF IdentityInv

LEMMA OthersStart ==
  ASSUME IdentityInv, SpawnStranger \/ \E q \in Pids : SpawnTool(q)
  PROVE  IdentityInv'
<1>0. starts \in Nat /\ IdentityType
  BY DEF IdentityInv, IdentityType
<1>1. CASE SpawnStranger
  <2>1. PICK p \in Pids : /\ Gives(p)
                          /\ process' = [process EXCEPT ![p] = Started("stranger", "none", 0, 0, p)]
    BY <1>1 DEF SpawnStranger
  <2>. DEFINE new == Started("stranger", "none", 0, 0, p)
  <2>2. new \in Process
    BY <1>0, StartedType
  <2>3. process'[p] = new
    BY <2>1 DEF IdentityInv, IdentityType
  <2>4. Joins(p, new)
    BY <1>0, <2>1, <2>2, <2>3 DEF Joins, Gives, Started
  <2>5. new.kind = "stranger"
    BY DEF Started
  <2>. QED BY <1>1, <2>1, <2>4, <2>5, OthersJoin DEF SpawnStranger
<1>2. ASSUME NEW q \in Pids, SpawnTool(q) PROVE IdentityInv'
  <2>1. PICK p \in Pids, own \in BOOLEAN :
          /\ Gives(p)
          /\ process' = [process EXCEPT ![p] =
                           Started("tool", process[q].agent, process[q].invocation,
                                   process[q].for, IF own THEN p ELSE process[q].group)]
    BY <1>2 DEF SpawnTool
  <2>. DEFINE group == IF own THEN p ELSE process[q].group
              new == Started("tool", process[q].agent, process[q].invocation,
                             process[q].for, group)
  <2>2. /\ Present(q) /\ process[q] \in Process /\ Bears(q)
        /\ process[q].kind \in {"backend", "tool"} /\ UNCHANGED <<named, snapshot>>
    BY <1>2 DEF SpawnTool, Is, Living, Present, IdentityInv, IdentityType, ToldApart
  <2>3. /\ process[q].agent \in Runs \cup {"none"} /\ process[q].invocation \in Nat
        /\ process[q].for \in Nat /\ group \in Pids
    BY <2>2 DEF Process
  <2>4. new \in Process
    <3>. HIDE DEF group
    <3>. QED BY <1>0, <2>3, StartedType
  <2>5. process'[p] = new
    BY <2>1 DEF IdentityInv, IdentityType
  <2>6. /\ new.start = starts + 1 /\ ~new.zombie /\ new.invocation = process[q].invocation
        /\ new.for = process[q].for /\ new.kind = "tool" /\ new.group \in {p, process[q].group}
    BY DEF Started
  <2>7. process[q].invocation # 0 => process[q].invocation = process[q].for
    BY <2>2 DEF Bears
  <2>8. Joins(p, new)
    <3>. HIDE DEF new
    <3>. QED BY <2>1, <2>2, <2>4, <2>5, <2>6, <2>7 DEF Joins, Gives, Bears
  <2>. QED BY <2>1, <2>2, <2>6, <2>8, OthersJoin
<1>. QED BY <1>1, <1>2

\* A runner reaps its backend and sweeps up after it.
LEMMA ReapKeeps ==
  ASSUME IdentityInv, NEW r \in Pids, Reap(r) \/ EndSweep(r)
  PROVE  IdentityInv'
<1>0. /\ Is(r, "runner") /\ Present(r) /\ process[r] \in Process
      /\ UNCHANGED <<named, snapshot, starts>>
  BY DEF Reap, EndSweep, Is, Living, Present, IdentityInv, IdentityType
<1>. DEFINE gone == IF Reap(r) THEN {process[r].child} ELSE {}
<1>1. Reap(r) => /\ process[r].child \in Pids /\ InFlight(r)
                 /\ process[process[r].child].kind = "backend" /\ process[r].child # r
  BY <1>0 DEF Reap, InFlight, Is, IdentityInv, RunsOwn, Owns, Process
<1>2. PICK after \in Process :
        /\ process'[r] = after /\ process' \in [Pids -> Process \cup {NoProcess}]
        /\ after.kind = process[r].kind /\ after.start = process[r].start
        /\ after.for = process[r].for /\ after.group = process[r].group
        /\ after.zombie = process[r].zombie /\ after.invocation = process[r].invocation
        /\ after.agent = process[r].agent
        /\ \/ /\ after.child = NoProcess /\ InFlight(r)
              /\ after.childInvocation = process[r].childInvocation
           \/ after.child = NoProcess /\ ~after.sweep
        /\ \A p \in Pids \ {r} : process'[p] = IF p \in gone THEN NoProcess ELSE process[p]
  <2>1. CASE Reap(r)
    <3>. DEFINE after == [process[r] EXCEPT !.child = NoProcess, !.sweep = TRUE]
    <3>1. after \in Process
      BY <1>0 DEF Process
    <3>2. /\ process'[r] = after /\ process' \in [Pids -> Process \cup {NoProcess}]
          /\ \A p \in Pids \ {r} : process'[p] = IF p \in gone THEN NoProcess ELSE process[p]
      BY <1>0, <1>1, <2>1, <3>1 DEF Reap, IdentityInv, IdentityType
    <3>3. /\ after.kind = process[r].kind /\ after.start = process[r].start
          /\ after.for = process[r].for /\ after.group = process[r].group
          /\ after.zombie = process[r].zombie /\ after.invocation = process[r].invocation
          /\ after.agent = process[r].agent /\ after.child = NoProcess
          /\ after.childInvocation = process[r].childInvocation
      BY <1>0 DEF Process
    <3>. QED BY <1>1, <2>1, <3>1, <3>2, <3>3
  <2>2. CASE EndSweep(r) /\ ~Reap(r)
    <3>. DEFINE after == [process[r] EXCEPT !.sweep = FALSE, !.childInvocation = 0]
    <3>1. after \in Process
      BY <1>0 DEF Process
    <3>2. /\ process'[r] = after /\ process' \in [Pids -> Process \cup {NoProcess}]
          /\ \A p \in Pids \ {r} : process'[p] = IF p \in gone THEN NoProcess ELSE process[p]
      BY <1>0, <2>2, <3>1 DEF EndSweep, IdentityInv, IdentityType
    <3>3. /\ after.kind = process[r].kind /\ after.start = process[r].start
          /\ after.for = process[r].for /\ after.group = process[r].group
          /\ after.zombie = process[r].zombie /\ after.invocation = process[r].invocation
          /\ after.agent = process[r].agent /\ after.child = NoProcess /\ ~after.sweep
      BY <1>0, <2>2 DEF Process, EndSweep, InFlight, IdentityInv, RunsOwn, Owns
    <3>. QED BY <2>2, <3>1, <3>2, <3>3
  <2>. QED BY <2>1, <2>2
<1>. HIDE DEF gone
<1>3. IdentityType'
  BY <1>0, <1>2 DEF IdentityInv, IdentityType
<1>4. ASSUME NEW p \in Pids, InFlight(p), p # r, process[p].child # NoProcess
      PROVE  process[p].child \notin gone /\ process[p].child # r
  BY <1>0, <1>1, <1>4 DEF gone, IdentityInv, RunsOwn, Owns, AloneOwns, Is
<1>5. ASSUME NEW p \in Pids PROVE Remains(p)
  <2>1. CASE p = r
    BY <1>0, <1>2, <2>1 DEF Remains, InFlight, Is, Living, IdentityInv, ToldApart, Bears
  <2>2. CASE p # r
    <3>1. CASE p \in gone
      BY <1>2, <2>2, <3>1 DEF Remains, Present
    <3>2. CASE p \notin gone
      <4>1. process'[p] = process[p]
        BY <1>2, <2>2, <3>2
      <4>2. InFlight(p)' => InFlight(p)
        BY <4>1 DEF InFlight, Is, Living, Present
      <4>3. ASSUME InFlight(p), process[p].child # NoProcess PROVE Present(process[p].child)'
        <5>1. /\ process[p].child \in Pids /\ Present(process[p].child)
              /\ process[p].child \notin gone \cup {r}
          BY <1>4, <2>2, <4>3
             DEF InFlight, Is, Living, Present, IdentityInv, IdentityType, RunsOwn, Owns, Process
        <5>. QED BY <1>2, <4>1, <5>1 DEF Present
      <4>4. Present(p) => (process[p].zombie => process[p].invocation = 0)
        BY DEF IdentityInv, ToldApart, Bears
      <4>5. Present(p)' => Present(p)
        BY <4>1 DEF Present
      <4>6. process'[p].child # NoProcess /\ InFlight(p)' => Present(process[p].child)'
        BY <4>1, <4>2, <4>3
      <4>. QED BY <4>1, <4>2, <4>4, <4>5, <4>6 DEF Remains
    <3>. QED BY <3>1, <3>2
  <2>. QED BY <2>1, <2>2
<1>6. ASSUME NEW ids, Names(ids) PROVE Names(ids)'
  BY <1>0, <1>5, <1>6 DEF Names, Remains
<1>. QED BY <1>0, <1>3, <1>5, <1>6, NobodyStarts DEF IdentityInv, RecordsName

\* A runner writes its identities into the record, and others read it.
LEMMA RecordsKeep ==
  ASSUME IdentityInv, UNCHANGED <<process, starts>>,
         \/ \E r \in Pids : Claim(r) \/ RecordSpawned(r)
         \/ \E w \in Watchers : ReadRecord(w)
  PROVE  IdentityInv'
<1>0. \A ids : Names(ids) => Names(ids)'
  BY DEF Names, Present
<1>1. ASSUME IdentityType', RecordsName' PROVE IdentityInv'
  BY <1>1 DEF IdentityInv, ToldApart, Bears, Apart, RunsOwn, Owns, AloneOwns, InFlight,
              Is, Living, Present
<1>2. ASSUME NEW a \in Runs, NEW ids \in Identities, Names(ids), named' = [named EXCEPT ![a] = ids],
             UNCHANGED snapshot
      PROVE  IdentityInv'
  <2>1. IdentityType'
    BY <1>2 DEF IdentityInv, IdentityType
  <2>2. RecordsName'
    BY <1>0, <1>2 DEF IdentityInv, IdentityType, RecordsName
  <2>. QED BY <1>1, <2>1, <2>2
<1>3. ASSUME NEW r \in Pids, Is(r, "runner")
      PROVE  /\ process[r] \in Process /\ Bears(r) /\ \A p \in Pids : Present(p) => Apart(r, p)
             /\ Present(r)
  BY <1>3 DEF IdentityInv, IdentityType, ToldApart, Is, Living, Present
<1>4. ASSUME NEW r \in Pids, Claim(r) PROVE IdentityInv'
  <2>. DEFINE a == process[r].agent
              ids == [named[a] EXCEPT !.runner_pid = r, !.runner_start_time = process[r].start]
  <2>1. /\ Is(r, "runner") /\ UNCHANGED snapshot
        /\ named' = [named EXCEPT ![a].runner_pid = r, ![a].runner_start_time = process[r].start]
    BY <1>4 DEF Claim
  <2>2. CASE a \in Runs
    <3>1. named' = [named EXCEPT ![a] = ids]
      BY <2>1
    <3>2. named[a] \in Identities /\ Names(named[a])
      BY <2>2 DEF IdentityInv, IdentityType, RecordsName
    <3>3. /\ ids \in Identities /\ ids.pid = named[a].pid /\ ids.start_time = named[a].start_time
          /\ ids.invocation_id = named[a].invocation_id
          /\ ids.runner_pid = r /\ ids.runner_start_time = process[r].start
      BY <1>3, <2>1, <3>2 DEF Identities, Process
    <3>4. process[r].start <= starts /\ \A p \in Pids : Present(p) /\ process[p].start = process[r].start
                                       => process[p].kind = "runner"
      BY <1>3, <2>1 DEF Bears, Apart, Is
    <3>5. Names(ids)
      <4>. HIDE DEF ids
      <4>. QED BY <3>2, <3>3, <3>4 DEF Names
    <3>. QED BY <1>2, <2>1, <2>2, <3>1, <3>3, <3>5
  <2>3. CASE a \notin Runs
    <3>1. UNCHANGED named
      BY <2>1, <2>3 DEF IdentityInv, IdentityType
    <3>. QED BY <1>0, <1>1, <2>1, <3>1 DEF IdentityInv, IdentityType, RecordsName
  <2>. QED BY <2>2, <2>3
<1>5. ASSUME NEW r \in Pids, RecordSpawned(r) PROVE IdentityInv'
  <2>. DEFINE a == process[r].agent
              p == process[r].child
              ids == [pid |-> p, start_time |-> process[p].start,
                      invocation_id |-> process[r].childInvocation,
                      runner_pid |-> r, runner_start_time |-> process[r].start]
  <2>1. Is(r, "runner") /\ UNCHANGED snapshot /\ named' = [named EXCEPT ![a] = ids] /\ p # NoProcess
    BY <1>5 DEF RecordSpawned
  <2>2. Owns(r) /\ InFlight(r)
    BY <2>1 DEF InFlight, IdentityInv, RunsOwn
  <2>3. /\ p \in Pids /\ Present(p) /\ process[p] \in Process /\ process[r] \in Process
        /\ \A q \in Pids : Present(q) => Apart(p, q)
    BY <1>3, <2>1, <2>2 DEF Owns, Process, Present, IdentityInv, IdentityType, ToldApart
  <2>4. ids \in Identities
    BY <2>3 DEF Identities, Process
  <2>5. Names(ids)
    <3>1. process[p].start = process[r].childInvocation /\ process[p].start <= starts
      BY <2>1, <2>2 DEF Owns, IdentityInv, IdentityType
    <3>2. \A q \in Pids : Present(q) /\ process[q].start = process[p].start
                           => process[q].kind = "backend"
      BY <2>1, <2>2, <2>3 DEF Owns, Apart
    <3>3. process[r].start <= starts /\ \A q \in Pids : Present(q) /\ process[q].start = process[r].start
                                       => process[q].kind = "runner"
      BY <1>3, <2>1 DEF Bears, Apart, Is
    <3>. QED BY <3>1, <3>2, <3>3 DEF Names
  <2>6. CASE a \in Runs
    BY <1>2, <2>1, <2>4, <2>5, <2>6
  <2>7. CASE a \notin Runs
    <3>1. UNCHANGED named
      BY <2>1, <2>7 DEF IdentityInv, IdentityType
    <3>. QED BY <1>0, <1>1, <2>1, <3>1 DEF IdentityInv, IdentityType, RecordsName
  <2>. QED BY <2>6, <2>7
<1>6. ASSUME NEW w \in Watchers, ReadRecord(w) PROVE IdentityInv'
  <2>1. PICK a \in Runs : snapshot' = [snapshot EXCEPT ![w] = [agent |-> a, record |-> named[a]]]
    BY <1>6 DEF ReadRecord
  <2>2. UNCHANGED named
    BY <1>6 DEF ReadRecord
  <2>3. IdentityType'
    BY <2>1, <2>2 DEF IdentityInv, IdentityType
  <2>4. RecordsName'
    BY <1>0, <2>1, <2>2 DEF IdentityInv, IdentityType, RecordsName
  <2>. QED BY <1>1, <2>3, <2>4
<1>. QED BY <1>4, <1>5, <1>6

\* Whoever is signalled, and whoever ends: nobody starts.
LEMMA EndsKeep ==
  ASSUME IdentityInv, NEW ends \in SUBSET Pids, process' = Ended(ends),
         UNCHANGED <<named, snapshot, starts>>
  PROVE  IdentityInv'
<1>1. process' \in [Pids -> Process \cup {NoProcess}] /\ \A p \in Pids : Remains(p)
  BY SomeEnd
<1>2. IdentityType'
  BY <1>1 DEF IdentityInv, IdentityType
<1>3. ASSUME NEW ids, Names(ids) PROVE Names(ids)'
  BY <1>1, <1>3 DEF Names, Remains
<1>. QED BY <1>1, <1>2, <1>3, NobodyStarts DEF IdentityInv, RecordsName

LEMMA IdentityStep == IdentityInv /\ [IdentityNext]_identityVars => IdentityInv'
<1>. SUFFICES ASSUME IdentityInv, [IdentityNext]_identityVars PROVE IdentityInv'
  OBVIOUS
<1>1. CASE Starting
  <2>1. ASSUME NEW p \in Pids, Claim(p) \/ RecordSpawned(p) PROVE IdentityInv'
    BY <2>1, RecordsKeep DEF Claim, RecordSpawned
  <2>. QED BY <1>1, <2>1, SpawnRunnerKeeps, SpawnBackendKeeps, OthersStart DEF Starting
<1>2. ASSUME NEW w \in Watchers, ReadRecord(w) PROVE IdentityInv'
  BY <1>2, RecordsKeep DEF ReadRecord
<1>3. ASSUME NEW w \in Watchers, SignalRunner(w) \/ SignalInvocation(w) PROVE IdentityInv'
  <2>1. ASSUME NEW a, NEW ids \in Identities
        PROVE  RunnerTargets(a, ids) \in SUBSET Pids /\ InvocationTargets(a, ids) \in SUBSET Pids
    BY DEF RunnerTargets, InvocationTargets, Matches, Identities
  <2>2. snapshot[w].record \in Identities
    BY DEF IdentityInv, IdentityType
  <2>. QED BY <2>2, <1>3, <2>1, EndsKeep DEF SignalRunner, SignalInvocation
<1>4. ASSUME NEW p \in Pids, Exit(p) \/ Sweep(p) PROVE IdentityInv'
  BY <1>4, EndsKeep DEF Exit, Sweep, MarkedTargets
<1>5. ASSUME NEW r \in Pids, Reap(r) \/ EndSweep(r) PROVE IdentityInv'
  BY <1>5, ReapKeeps
<1>6. CASE UNCHANGED identityVars
  BY <1>6 DEF identityVars, IdentityInv, IdentityType, ToldApart, Bears, Apart, RunsOwn, Owns,
              AloneOwns, InFlight, Is, Living, Present, RecordsName, Names
<1>. QED BY <1>1, <1>2, <1>3, <1>4, <1>5, <1>6 DEF IdentityNext, Signals

\* However pids are used again, and whatever record a caller still holds, it
\* signals only the runner and the invocation the record names, and the sweep
\* after an invocation reaches only what it started.
THEOREM SignalsReachNoOther == IdentitySpec => []SignalsReachTheirOwn
<1>1. IdentityInv => SignalsReachTheirOwn
  <2>. SUFFICES ASSUME IdentityInv PROVE SignalsReachTheirOwn
    OBVIOUS
  <2>1. ASSUME NEW w \in Watchers, NEW p \in RunnerTargets(snapshot[w].agent, snapshot[w].record)
        PROVE  process[p].kind = "runner" /\ process[p].start = snapshot[w].record.runner_start_time
    <3>. DEFINE ids == snapshot[w].record
    <3>1. ids \in Identities /\ Names(ids)
      BY DEF IdentityInv, IdentityType, RecordsName
    <3>2. /\ p = ids.runner_pid /\ p # NoProcess /\ Present(p)
          /\ process[p].start = ids.runner_start_time
      BY <2>1 DEF RunnerTargets, Matches
    <3>. QED BY <3>1, <3>2 DEF Identities, Names
  <2>2. ASSUME NEW w \in Watchers, NEW p \in InvocationTargets(snapshot[w].agent, snapshot[w].record)
        PROVE  process[p].for = snapshot[w].record.invocation_id
    <3>. DEFINE ids == snapshot[w].record
                leader == ids.pid
    <3>1. ids \in Identities /\ Names(ids)
      BY DEF IdentityInv, IdentityType, RecordsName
    <3>2. /\ leader # NoProcess /\ Present(leader) /\ process[leader].start = ids.start_time
          /\ p \in Pids /\ Present(p) /\ process[p].group = leader
      BY <2>2 DEF InvocationTargets, Matches
    <3>3. leader \in Pids /\ process[leader].kind = "backend" /\ ids.start_time = ids.invocation_id
      BY <3>1, <3>2 DEF Identities, Names
    <3>4. Bears(leader) /\ Apart(leader, p)
      BY <3>2, <3>3 DEF IdentityInv, ToldApart
    <3>. QED BY <3>2, <3>3, <3>4 DEF Bears, Apart
  <2>3. ASSUME NEW r \in Pids, Is(r, "runner"), process[r].sweep,
               NEW p \in MarkedTargets(process[r].agent, process[r].childInvocation)
        PROVE  process[p].for = process[r].childInvocation
    <3>1. Owns(r) /\ AloneOwns(r, p) /\ process[r].childInvocation # 0
      <4>1. Owns(r) /\ AloneOwns(r, p)
        BY <2>3 DEF MarkedTargets, InFlight, IdentityInv, RunsOwn
      <4>. QED BY <4>1 DEF Owns, IdentityInv, IdentityType
    <3>2. /\ p \in Pids /\ Present(p) /\ process[p].agent = process[r].agent
          /\ process[p].invocation = process[r].childInvocation /\ Bears(p)
      BY <2>3 DEF MarkedTargets, HasAgentMarker, HasInvocationMarker, IdentityInv, ToldApart
    <3>3. ~process[p].zombie
      BY <3>1, <3>2 DEF Bears
    <3>4. process[p].kind # "runner"
      BY <3>1, <3>2, <3>3 DEF AloneOwns, Is, Living
    <3>. QED BY <3>1, <3>2, <3>4 DEF Bears
  <2>. QED BY <2>1, <2>2, <2>3 DEF SignalsReachTheirOwn
<1>. QED BY IdentityStarts, IdentityStep, <1>1, PTL DEF IdentitySpec
-----------------------------------------------------------------------------
(* AgentStorage: the state root many agents share, for any number of       *)
(* callers, commands, failures and crashes.  No conversation is taken from *)
(* an agent that stood when the inventory was listed, and a record that    *)
(* was published is never undone.                                          *)

\* A caller that has a directory and has not published its record.
Creating(p) == at[p] \in {"write", "rename"}

\* An agent that was never drawn is nowhere.
FreshIsNowhere ==
    /\ \A p \in Callers : agent[p] \in drawn
    /\ \A a \in Identifiers \ drawn : meta[a] = NoRecord /\ temp[a] = NoTemp

\* Nobody else is about an agent that is being created, whose record is not
\* there and whose temporary file is its creator's.
CreatedAlone == \A p \in Callers : Creating(p) =>
    /\ meta[agent[p]] = NoRecord
    /\ at[p] = "write" => temp[agent[p]] = NoTemp
    /\ at[p] = "rename" => temp[agent[p]].by = p
    /\ \A q \in Callers \ {p} : agent[q] = agent[p] => at[q] \in {"idle", "claim"}

\* Both files of an agent name one database.
OneKey == \A a \in Identifiers :
    meta[a] # NoRecord /\ temp[a] # NoTemp => temp[a].meta.key = meta[a].key

CreationInv == StorageTypeOK /\ FreshIsNowhere /\ CreatedAlone /\ OneKey

\* What may name a key: the record, the file it is recovered from, and the
\* record a creator is about to publish.
Unborn(a)   == \E p \in Callers : Creating(p) /\ agent[p] = a
Cites(a, k) == \/ meta[a] # NoRecord /\ meta[a].key = k
               \/ temp[a] # NoTemp /\ temp[a].meta.key = k

\* An agent that was read names nothing the inventory does not have.
InventoryCovers == \A p \in Callers : at[p] = "read" /\ complete[p] =>
    \A a \in listed[p] \ toRead[p] :
        ~Unborn(a) /\ \A k \in Identifiers : Cites(a, k) => k \in found[p]

\* An agent of an inventory that freed a key does not name it.
PartedForGood == \A k \in Identifiers : \A a \in parted[k] : ~Unborn(a) /\ ~Cites(a, k)

ListedWasDrawn == /\ \A p \in Callers : listed[p] \subseteq drawn
                  /\ \A k \in Identifiers : parted[k] \subseteq drawn

InventoryInv == ListedWasDrawn /\ InventoryCovers /\ PartedForGood

-----------------------------------------------------------------------------
\* What a run, a tombstone and a fork make of a record: one of the same key.
LEMMA SameKey == ASSUME NEW m \in StoredRecord
                 PROVE  /\ [m EXCEPT !.session = TRUE] \in StoredRecord
                        /\ [m EXCEPT !.session = TRUE].key = m.key
                        /\ [m EXCEPT !.doomed = TRUE] \in StoredRecord
                        /\ [m EXCEPT !.doomed = TRUE].key = m.key
                        /\ ForkMetaSnapshot(m) \in StoredRecord
                        /\ m.key \in Identifiers
  BY DEF StoredRecord, ForkMetaSnapshot

\* A readable agent has a record of its type.
LEMMA ReadableRecord == ASSUME StorageTypeOK, NEW a, Readable(a)
                        PROVE  a \in Identifiers /\ meta[a] \in StoredRecord
  BY DEF StorageTypeOK, Readable

\* Every step keeps every variable in its type.
LEMMA StorageTypeStep == StorageTypeOK /\ [StorageNext]_storageVars => StorageTypeOK'
<1>. SUFFICES ASSUME StorageTypeOK, [StorageNext]_storageVars PROVE StorageTypeOK'
  OBVIOUS
<1>. USE StorageAssumption DEF StorageTypeOK, StoredRecord, Temporary, NoTemp, SetTemp, GoOn, Hold,
     Finish, Begin, IdleRecord, CreateAgentDirectory
<1>1. ASSUME NEW p \in Callers, New(p) PROVE StorageTypeOK'
  BY <1>1 DEF New, treeVars, callerVars, listVars, boundVars
<1>2. ASSUME NEW p \in Callers, ForkRead(p) PROVE StorageTypeOK'
  <2>1. PICK a \in Identifiers : Readable(a) /\ Hold(p, ForkMetaSnapshot(meta[a]))
    BY <1>2 DEF ForkRead
  <2>2. ForkMetaSnapshot(meta[a]) \in StoredRecord
    BY <2>1, ReadableRecord, SameKey
  <2>. QED
    BY <1>2, <2>1, <2>2 DEF ForkRead, treeVars, callerVars, listVars, boundVars
<1>3. ASSUME NEW p \in Callers, ForkClaim(p) PROVE StorageTypeOK'
  BY <1>3 DEF ForkClaim, treeVars, callerVars, listVars, boundVars
<1>4. ASSUME NEW p \in Callers, WriteTemp(p) PROVE StorageTypeOK'
  <2>1. Temporary(p, held[p])
          \in [by : Callers \cup {NoRecord}, meta : StoredRecord \cup {NoRecord}]
    OBVIOUS
  <2>2. temp' \in [Identifiers -> [by : Callers \cup {NoRecord},
                                  meta : StoredRecord \cup {NoRecord}]]
    BY <1>4, <2>1 DEF WriteTemp
  <2>. QED
    BY <1>4, <2>2 DEF WriteTemp, treeVars, callerVars, listVars, boundVars
<1>5. ASSUME NEW p \in Callers, RenameTemp(p) PROVE StorageTypeOK'
  BY <1>5 DEF RenameTemp, treeVars, callerVars, listVars, boundVars
<1>6. ASSUME NEW p \in Callers, Sync(p) PROVE StorageTypeOK'
  BY <1>6 DEF Sync, treeVars, callerVars, listVars, boundVars
<1>7. ASSUME NEW p \in Callers, Delete(p) PROVE StorageTypeOK'
  BY <1>7 DEF Delete, treeVars, callerVars, listVars, boundVars
<1>8. ASSUME NEW p \in Callers, Tombstone(p) PROVE StorageTypeOK'
  <2>1. CASE ~Readable(agent[p])
    BY <1>8, <2>1 DEF Tombstone, treeVars, callerVars, listVars, boundVars
  <2>2. CASE Readable(agent[p])
    <3>1. meta' \in [Identifiers -> StoredRecord \cup {NoRecord}]
      <4>1. [meta[agent[p]] EXCEPT !.doomed = TRUE] \in StoredRecord
        BY <2>2, ReadableRecord, SameKey
      <4>. QED
        BY <1>8, <2>2, <4>1 DEF Tombstone
    <3>. QED
      BY <1>8, <2>2, <3>1 DEF Tombstone, treeVars, callerVars, listVars, boundVars
  <2>. QED
    BY <2>1, <2>2
<1>9. ASSUME NEW p \in Callers, Doom(p) PROVE StorageTypeOK'
  BY <1>9 DEF Doom, treeVars, callerVars, listVars, boundVars
<1>10. ASSUME NEW p \in Callers, Empty(p) PROVE StorageTypeOK'
  BY <1>10 DEF Empty, treeVars, callerVars, listVars, boundVars
<1>11. ASSUME NEW p \in Callers, RemoveDirectory(p) PROVE StorageTypeOK'
  BY <1>11 DEF RemoveDirectory, treeVars, callerVars, listVars, boundVars
<1>12. ASSUME NEW p \in Callers, List(p) PROVE StorageTypeOK'
  BY <1>12 DEF List, treeVars, callerVars, listVars, boundVars
<1>13. ASSUME NEW p \in Callers, Read(p) PROVE StorageTypeOK'
  <2>1. PICK a \in toRead[p] :
          /\ toRead' = [toRead EXCEPT ![p] = @ \ {a}]
          /\ \/ /\ Readable(a)
                /\ found' = [found EXCEPT ![p] = @ \cup {meta[a].key}]
                /\ UNCHANGED complete
             \/ /\ complete' = [complete EXCEPT ![p] = FALSE]
                /\ UNCHANGED found
    BY <1>13 DEF Read
  <2>2. a \in Identifiers /\ (Readable(a) => meta[a].key \in Identifiers)
    BY ReadableRecord, SameKey
  <2>3. /\ toRead' \in [Callers -> SUBSET Identifiers]
        /\ found' \in [Callers -> SUBSET Identifiers]
        /\ complete' \in [Callers -> BOOLEAN]
    <3>1. CASE Readable(a) /\ found' = [found EXCEPT ![p] = @ \cup {meta[a].key}]
                           /\ UNCHANGED complete
      <4>1. found[p] \cup {meta[a].key} \in SUBSET Identifiers
        BY <3>1, <2>2
      <4>. QED
        BY <2>1, <3>1, <4>1
    <3>2. CASE complete' = [complete EXCEPT ![p] = FALSE] /\ UNCHANGED found
      BY <2>1, <3>2
    <3>. QED
      BY <2>1, <3>1, <3>2
  <2>. QED
    BY <1>13, <2>3 DEF Read, treeVars, callerVars, listVars, boundVars
<1>14. ASSUME NEW p \in Callers, UnlinkDatabase(p) PROVE StorageTypeOK'
  BY <1>14 DEF UnlinkDatabase, treeVars, callerVars, listVars, boundVars
<1>15. ASSUME NEW p \in Callers, Recover(p) PROVE StorageTypeOK'
  BY <1>15 DEF Recover, treeVars, callerVars, listVars, boundVars
<1>16. ASSUME NEW p \in Callers, Link(p) PROVE StorageTypeOK'
  BY <1>16 DEF Link, treeVars, callerVars, listVars, boundVars
<1>17. ASSUME NEW p \in Callers, UnlinkTemp(p) PROVE StorageTypeOK'
  BY <1>17 DEF UnlinkTemp, treeVars, callerVars, listVars, boundVars
<1>18. ASSUME NEW p \in Callers, Killed(p) PROVE StorageTypeOK'
  BY <1>18 DEF Killed, treeVars, callerVars, listVars, boundVars
<1>19. ASSUME NEW a \in Identifiers, LaunchAgent(a) PROVE StorageTypeOK'
  <2>1. [meta[a] EXCEPT !.session = TRUE] \in StoredRecord /\ meta[a].key \in Identifiers
    BY <1>19, ReadableRecord, SameKey DEF LaunchAgent
  <2>2. meta' \in [Identifiers -> StoredRecord \cup {NoRecord}]
    BY <1>19, <2>1 DEF LaunchAgent
  <2>3. databases' \subseteq Identifiers
    BY <1>19, <2>1 DEF LaunchAgent
  <2>. QED
    BY <1>19, <2>2, <2>3 DEF LaunchAgent, callerVars, listVars, boundVars
<1>20. CASE UNCHANGED storageVars
  BY <1>20 DEF storageVars, treeVars, callerVars, listVars, boundVars
<1>. QED
  BY <1>1, <1>2, <1>3, <1>4, <1>5, <1>6, <1>7, <1>8, <1>9, <1>10, <1>11, <1>12, <1>13,
     <1>14, <1>15, <1>16, <1>17, <1>18, <1>19, <1>20
  DEF StorageNext, CreateAgent, Discard, Repair

-----------------------------------------------------------------------------
\* Who creates an agent is alone with it.
LEMMA CreationStep ==
    CreationInv /\ StorageTypeOK' /\ [StorageNext]_storageVars =>
        FreshIsNowhere' /\ CreatedAlone' /\ OneKey'
<1>. SUFFICES ASSUME CreationInv, StorageTypeOK', [StorageNext]_storageVars
              PROVE  FreshIsNowhere' /\ CreatedAlone' /\ OneKey'
  OBVIOUS
<1>. DEFINE Kept == FreshIsNowhere' /\ CreatedAlone' /\ OneKey'
<1>. USE StorageAssumption DEF CreationInv, StorageTypeOK, FreshIsNowhere, CreatedAlone, OneKey,
     Creating, Temporary, NoTemp, SetTemp, GoOn, Hold, Finish, Begin, Readable,
     CreateAgentDirectory
<1>1. ASSUME NEW p \in Callers, New(p) PROVE Kept
  BY <1>1 DEF New, treeVars, callerVars
<1>2. ASSUME NEW p \in Callers, ForkRead(p) PROVE Kept
  BY <1>2 DEF ForkRead, treeVars, callerVars
<1>3. ASSUME NEW p \in Callers, ForkClaim(p) PROVE Kept
  BY <1>3 DEF ForkClaim, treeVars, callerVars
<1>4. ASSUME NEW p \in Callers, WriteTemp(p) PROVE Kept
  <2>. USE <1>4 DEF WriteTemp, treeVars, callerVars
  <2>1. agent' = agent /\ drawn' = drawn /\ agent[p] \in Identifiers \cap drawn
    OBVIOUS
  <2>2. FreshIsNowhere'
    BY <2>1
  <2>3. ASSUME NEW r \in Callers, Creating(r)'
        PROVE  /\ meta'[agent[r]] = NoRecord
               /\ at'[r] = "write" => temp'[agent[r]] = NoTemp
               /\ at'[r] = "rename" => temp'[agent[r]].by = r
               /\ \A q \in Callers \ {r} : agent[q] = agent[r] => at'[q] \in {"idle", "claim"}
    <3>1. CASE r = p
      BY <2>1, <2>3, <3>1
    <3>2. CASE r # p
      <4>1. Creating(r) /\ agent[r] # agent[p]
        BY <2>3, <3>2
      <4>. QED
        BY <2>1, <3>2, <4>1
    <3>. QED
      BY <3>1, <3>2
  <2>4. OneKey'
    BY <2>1
  <2>. QED
    BY <2>1, <2>2, <2>3, <2>4
<1>5. ASSUME NEW p \in Callers, RenameTemp(p) PROVE Kept
  <2>. USE <1>5 DEF RenameTemp, treeVars, callerVars
  <2>1. agent' = agent /\ drawn' = drawn /\ agent[p] \in Identifiers \cap drawn
    OBVIOUS
  <2>2. FreshIsNowhere'
    BY <2>1
  <2>3. ASSUME NEW r \in Callers, Creating(r)'
        PROVE  /\ meta'[agent[r]] = NoRecord
               /\ at'[r] = "write" => temp'[agent[r]] = NoTemp
               /\ at'[r] = "rename" => temp'[agent[r]].by = r
               /\ \A q \in Callers \ {r} : agent[q] = agent[r] => at'[q] \in {"idle", "claim"}
    <3>1. CASE r = p
      BY <2>1, <2>3, <3>1
    <3>2. CASE r # p
      <4>1. Creating(r) /\ agent[r] # agent[p]
        BY <2>3, <3>2
      <4>2. agent[r] \in Identifiers /\ at'[r] = at[r]
        BY <3>2
      <4>3. meta'[agent[r]] = meta[agent[r]] /\ temp'[agent[r]] = temp[agent[r]]
        BY <4>1, <4>2
      <4>4. ASSUME NEW q \in Callers \ {r}, agent[q] = agent[r]
            PROVE  at'[q] \in {"idle", "claim"}
        BY <4>1, <4>4
      <4>. QED
        BY <2>1, <4>1, <4>2, <4>3, <4>4
    <3>. QED
      BY <3>1, <3>2
  <2>4. OneKey'
    <3>1. temp'[agent[p]] = NoTemp
      OBVIOUS
    <3>2. \A a \in Identifiers \ {agent[p]} : meta'[a] = meta[a] /\ temp'[a] = temp[a]
      OBVIOUS
    <3>. QED
      BY <3>1, <3>2
  <2>. QED
    BY <2>1, <2>2, <2>3, <2>4
<1>6. ASSUME NEW p \in Callers, Sync(p) PROVE Kept
  <2>. USE <1>6 DEF Sync, treeVars, callerVars
  <2>1. agent' = agent /\ drawn' = drawn /\ agent[p] \in Identifiers \cap drawn
    OBVIOUS
  <2>2. FreshIsNowhere'
    BY <2>1
  <2>3. ASSUME NEW r \in Callers, Creating(r)'
        PROVE  /\ meta'[agent[r]] = NoRecord
               /\ at'[r] = "write" => temp'[agent[r]] = NoTemp
               /\ at'[r] = "rename" => temp'[agent[r]].by = r
               /\ \A q \in Callers \ {r} : agent[q] = agent[r] => at'[q] \in {"idle", "claim"}
    <3>1. CASE r = p
      BY <2>1, <2>3, <3>1
    <3>2. CASE r # p
      <4>1. Creating(r) /\ agent[r] # agent[p]
        BY <2>3, <3>2
      <4>. QED
        BY <2>1, <3>2, <4>1
    <3>. QED
      BY <3>1, <3>2
  <2>4. OneKey'
    BY <2>1
  <2>. QED
    BY <2>1, <2>2, <2>3, <2>4
<1>7. ASSUME NEW p \in Callers, Delete(p) PROVE Kept
  BY <1>7 DEF Delete, treeVars, callerVars
<1>8. ASSUME NEW p \in Callers, Tombstone(p) PROVE Kept
  <2>. USE <1>8 DEF Tombstone, treeVars, callerVars
  <2>1. agent' = agent /\ drawn' = drawn /\ agent[p] \in Identifiers \cap drawn
    OBVIOUS
  <2>2. FreshIsNowhere'
    BY <2>1
  <2>3. ASSUME NEW r \in Callers, Creating(r)'
        PROVE  /\ meta'[agent[r]] = NoRecord
               /\ at'[r] = "write" => temp'[agent[r]] = NoTemp
               /\ at'[r] = "rename" => temp'[agent[r]].by = r
               /\ \A q \in Callers \ {r} : agent[q] = agent[r] => at'[q] \in {"idle", "claim"}
    <3>1. CASE r = p
      BY <2>1, <2>3, <3>1
    <3>2. CASE r # p
      <4>1. Creating(r) /\ agent[r] # agent[p]
        BY <2>3, <3>2
      <4>. QED
        BY <2>1, <3>2, <4>1
    <3>. QED
      BY <3>1, <3>2
  <2>4. OneKey'
    <3>1. CASE ~Readable(agent[p])
      BY <3>1
    <3>2. CASE Readable(agent[p])
      <4>1. meta[agent[p]] \in StoredRecord
        BY <3>2, ReadableRecord
      <4>2. meta'[agent[p]] = [meta[agent[p]] EXCEPT !.doomed = TRUE]
        BY <3>2
      <4>3. meta'[agent[p]].key = meta[agent[p]].key
        BY <4>1, <4>2, SameKey
      <4>4. \A a \in Identifiers \ {agent[p]} : meta'[a] = meta[a]
        BY <3>2
      <4>. QED
        BY <3>2, <4>3, <4>4
    <3>. QED
      BY <3>1, <3>2
  <2>. QED
    BY <2>1, <2>2, <2>3, <2>4
<1>9. ASSUME NEW p \in Callers, Doom(p) PROVE Kept
  BY <1>9 DEF Doom, treeVars, callerVars
<1>10. ASSUME NEW p \in Callers, Empty(p) PROVE Kept
  <2>. USE <1>10 DEF Empty, treeVars, callerVars
  <2>1. agent' = agent /\ drawn' = drawn /\ agent[p] \in Identifiers \cap drawn
    OBVIOUS
  <2>2. FreshIsNowhere'
    BY <2>1
  <2>3. ASSUME NEW r \in Callers, Creating(r)'
        PROVE  /\ meta'[agent[r]] = NoRecord
               /\ at'[r] = "write" => temp'[agent[r]] = NoTemp
               /\ at'[r] = "rename" => temp'[agent[r]].by = r
               /\ \A q \in Callers \ {r} : agent[q] = agent[r] => at'[q] \in {"idle", "claim"}
    <3>1. CASE r = p
      BY <2>1, <2>3, <3>1
    <3>2. CASE r # p
      <4>1. Creating(r) /\ agent[r] # agent[p]
        BY <2>3, <3>2
      <4>. QED
        BY <2>1, <3>2, <4>1
    <3>. QED
      BY <3>1, <3>2
  <2>4. OneKey'
    BY <2>1
  <2>. QED
    BY <2>1, <2>2, <2>3, <2>4
<1>11. ASSUME NEW p \in Callers, RemoveDirectory(p) PROVE Kept
  BY <1>11 DEF RemoveDirectory, treeVars, callerVars
<1>12. ASSUME NEW p \in Callers, List(p) PROVE Kept
  BY <1>12 DEF List, treeVars, callerVars
<1>13. ASSUME NEW p \in Callers, Read(p) PROVE Kept
  BY <1>13 DEF Read, treeVars, callerVars
<1>14. ASSUME NEW p \in Callers, UnlinkDatabase(p) PROVE Kept
  BY <1>14 DEF UnlinkDatabase, treeVars, callerVars
<1>15. ASSUME NEW p \in Callers, Recover(p) PROVE Kept
  BY <1>15 DEF Recover, treeVars, callerVars
<1>16. ASSUME NEW p \in Callers, Link(p) PROVE Kept
  <2>. USE <1>16 DEF Link, treeVars, callerVars
  <2>1. agent' = agent /\ drawn' = drawn /\ agent[p] \in Identifiers \cap drawn
    OBVIOUS
  <2>2. FreshIsNowhere'
    BY <2>1
  <2>3. ASSUME NEW r \in Callers, Creating(r)'
        PROVE  /\ meta'[agent[r]] = NoRecord
               /\ at'[r] = "write" => temp'[agent[r]] = NoTemp
               /\ at'[r] = "rename" => temp'[agent[r]].by = r
               /\ \A q \in Callers \ {r} : agent[q] = agent[r] => at'[q] \in {"idle", "claim"}
    <3>1. CASE r = p
      BY <2>1, <2>3, <3>1
    <3>2. CASE r # p
      <4>1. at'[r] = at[r] /\ at[p] = "link" /\ agent'[r] = agent[r]
        BY <2>3, <3>2
      <4>2. Creating(r)
        BY <2>3, <4>1 DEF Creating
      <4>3. agent[r] # agent[p]
        BY <3>2, <4>1, <4>2
      <4>4. agent[r] \in Identifiers
        BY <3>2
      <4>5. meta'[agent[r]] = meta[agent[r]] /\ temp'[agent[r]] = temp[agent[r]]
        BY <4>3, <4>4
      <4>6. ASSUME NEW q \in Callers \ {r}, agent[q] = agent[r]
            PROVE  at'[q] \in {"idle", "claim"}
        BY <4>2, <4>3, <4>6
      <4>. QED
        BY <2>1, <4>1, <4>2, <4>3, <4>5, <4>6
    <3>. QED
      BY <3>1, <3>2
  <2>4. OneKey'
    BY <2>1
  <2>. QED
    BY <2>1, <2>2, <2>3, <2>4
<1>17. ASSUME NEW p \in Callers, UnlinkTemp(p) PROVE Kept
  <2>. USE <1>17 DEF UnlinkTemp, treeVars, callerVars
  <2>1. agent' = agent /\ drawn' = drawn /\ agent[p] \in Identifiers \cap drawn
    OBVIOUS
  <2>2. FreshIsNowhere'
    BY <2>1
  <2>3. ASSUME NEW r \in Callers, Creating(r)'
        PROVE  /\ meta'[agent[r]] = NoRecord
               /\ at'[r] = "write" => temp'[agent[r]] = NoTemp
               /\ at'[r] = "rename" => temp'[agent[r]].by = r
               /\ \A q \in Callers \ {r} : agent[q] = agent[r] => at'[q] \in {"idle", "claim"}
    <3>1. CASE r = p
      BY <2>1, <2>3, <3>1
    <3>2. CASE r # p
      <4>1. Creating(r) /\ agent[r] # agent[p]
        BY <2>3, <3>2
      <4>. QED
        BY <2>1, <3>2, <4>1
    <3>. QED
      BY <3>1, <3>2
  <2>4. OneKey'
    BY <2>1
  <2>. QED
    BY <2>1, <2>2, <2>3, <2>4
<1>18. ASSUME NEW p \in Callers, Killed(p) PROVE Kept
  BY <1>18 DEF Killed, treeVars, callerVars
<1>19. ASSUME NEW a \in Identifiers, LaunchAgent(a) PROVE Kept
  BY <1>19 DEF LaunchAgent, treeVars, callerVars
<1>20. CASE UNCHANGED storageVars
  BY <1>20 DEF storageVars, treeVars, callerVars, Creating
<1>. QED
  BY <1>1, <1>2, <1>3, <1>4, <1>5, <1>6, <1>7, <1>8, <1>9, <1>10, <1>11, <1>12, <1>13,
     <1>14, <1>15, <1>16, <1>17, <1>18, <1>19, <1>20
  DEF StorageNext, CreateAgent, Discard, Repair

-----------------------------------------------------------------------------
\* An agent that exists comes to name a key only by the publication of its
\* creator.
LEMMA NothingNew ==
    CreationInv /\ [StorageNext]_storageVars =>
        \A a \in drawn, k \in Identifiers : /\ Unborn(a)' => Unborn(a)
                                            /\ Cites(a, k)' => Cites(a, k) \/ Unborn(a)
<1>. SUFFICES ASSUME CreationInv, [StorageNext]_storageVars,
                     NEW a \in drawn, NEW k \in Identifiers
              PROVE  /\ Unborn(a)' => Unborn(a)
                     /\ Cites(a, k)' => Cites(a, k) \/ Unborn(a)
  OBVIOUS
<1>. DEFINE Kept == /\ Unborn(a)' => Unborn(a)
                    /\ Cites(a, k)' => Cites(a, k) \/ Unborn(a)
<1>. USE StorageAssumption DEF CreationInv, StorageTypeOK, Unborn, Cites,
     Creating, Temporary, NoTemp, SetTemp, GoOn, Hold, Finish, Begin,
     CreateAgentDirectory
<1>1. ASSUME NEW p \in Callers, New(p) PROVE Kept
  BY <1>1 DEF New, treeVars, callerVars
<1>2. ASSUME NEW p \in Callers, ForkRead(p) PROVE Kept
  BY <1>2 DEF ForkRead, treeVars, callerVars
<1>3. ASSUME NEW p \in Callers, ForkClaim(p) PROVE Kept
  BY <1>3 DEF ForkClaim, treeVars, callerVars
<1>4. ASSUME NEW p \in Callers, WriteTemp(p) PROVE Kept
  BY <1>4 DEF WriteTemp, treeVars, callerVars
<1>5. ASSUME NEW p \in Callers, RenameTemp(p) PROVE Kept
  BY <1>5 DEF RenameTemp, treeVars, callerVars
<1>6. ASSUME NEW p \in Callers, Sync(p) PROVE Kept
  BY <1>6 DEF Sync, treeVars, callerVars
<1>7. ASSUME NEW p \in Callers, Delete(p) PROVE Kept
  BY <1>7 DEF Delete, treeVars, callerVars
<1>8. ASSUME NEW p \in Callers, Tombstone(p) PROVE Kept
  <2>1. at'[p] # "write" /\ at'[p] # "rename" /\ Unborn(a)' => Unborn(a)
    BY <1>8 DEF Tombstone, treeVars
  <2>2. Unborn(a)' => Unborn(a)
    BY <1>8, <2>1 DEF Tombstone, treeVars
  <2>3. CASE ~Readable(agent[p])
    BY <1>8, <2>2, <2>3 DEF Tombstone, treeVars
  <2>4. CASE Readable(agent[p])
    <3>1. meta' = [meta EXCEPT ![agent[p]].doomed = TRUE] /\ temp' = temp
      BY <1>8, <2>4 DEF Tombstone
    <3>2. meta[agent[p]] \in StoredRecord /\ meta[agent[p]] # NoRecord
      BY <2>4, ReadableRecord DEF Readable
    <3>3. meta'[agent[p]] = [meta[agent[p]] EXCEPT !.doomed = TRUE]
      BY <3>1, <1>8
    <3>4. meta'[agent[p]].key = meta[agent[p]].key
      BY <3>2, <3>3, SameKey
    <3>. QED
      BY <2>2, <3>1, <3>2, <3>4
  <2>. QED
    BY <2>3, <2>4
<1>9. ASSUME NEW p \in Callers, Doom(p) PROVE Kept
  BY <1>9 DEF Doom, treeVars, callerVars
<1>10. ASSUME NEW p \in Callers, Empty(p) PROVE Kept
  BY <1>10 DEF Empty, treeVars, callerVars
<1>11. ASSUME NEW p \in Callers, RemoveDirectory(p) PROVE Kept
  BY <1>11 DEF RemoveDirectory, treeVars, callerVars
<1>12. ASSUME NEW p \in Callers, List(p) PROVE Kept
  BY <1>12 DEF List, treeVars, callerVars
<1>13. ASSUME NEW p \in Callers, Read(p) PROVE Kept
  BY <1>13 DEF Read, treeVars, callerVars
<1>14. ASSUME NEW p \in Callers, UnlinkDatabase(p) PROVE Kept
  BY <1>14 DEF UnlinkDatabase, treeVars, callerVars
<1>15. ASSUME NEW p \in Callers, Recover(p) PROVE Kept
  BY <1>15 DEF Recover, treeVars, callerVars
<1>16. ASSUME NEW p \in Callers, Link(p) PROVE Kept
  BY <1>16 DEF Link, treeVars, callerVars
<1>17. ASSUME NEW p \in Callers, UnlinkTemp(p) PROVE Kept
  BY <1>17 DEF UnlinkTemp, treeVars, callerVars
<1>18. ASSUME NEW p \in Callers, Killed(p) PROVE Kept
  BY <1>18 DEF Killed, treeVars, callerVars
<1>19. ASSUME NEW x \in Identifiers, LaunchAgent(x) PROVE Kept
  <2>1. Unborn(a)' => Unborn(a)
    BY <1>19 DEF LaunchAgent, callerVars
  <2>2. meta' = [meta EXCEPT ![x].session = TRUE] /\ temp' = temp
    BY <1>19 DEF LaunchAgent
  <2>3. meta[x] \in StoredRecord /\ meta[x] # NoRecord
    BY <1>19, ReadableRecord DEF LaunchAgent, Readable
  <2>4. meta'[x] = [meta[x] EXCEPT !.session = TRUE]
    BY <2>2, <1>19
  <2>5. meta'[x].key = meta[x].key
    BY <2>3, <2>4, SameKey
  <2>. QED
    BY <2>1, <2>2, <2>3, <2>5
<1>20. CASE UNCHANGED storageVars
  BY <1>20 DEF storageVars, treeVars, callerVars
<1>. QED
  BY <1>1, <1>2, <1>3, <1>4, <1>5, <1>6, <1>7, <1>8, <1>9, <1>10, <1>11, <1>12, <1>13,
     <1>14, <1>15, <1>16, <1>17, <1>18, <1>19, <1>20
  DEF StorageNext, CreateAgent, Discard, Repair

\* What a step that leaves the inventories alone makes of them.
LEMMA InventoryStands ==
    ASSUME CreationInv, [StorageNext]_storageVars, InventoryInv, drawn \subseteq drawn',
           parted' = parted,
           \A p \in Callers : /\ at'[p] = "read" =>
                                    /\ at[p] = "read"
                                    /\ complete'[p] = complete[p] /\ found'[p] = found[p]
                                    /\ listed'[p] = listed[p] /\ toRead'[p] = toRead[p]
                              /\ listed'[p] \in {listed[p], {}}
    PROVE  InventoryInv'
<1>0. \A a \in drawn, k \in Identifiers : /\ Unborn(a)' => Unborn(a)
                                          /\ Cites(a, k)' => Cites(a, k) \/ Unborn(a)
  BY NothingNew
<1>. USE DEF InventoryInv
<1>1. ListedWasDrawn'
  BY DEF ListedWasDrawn
<1>2. InventoryCovers'
  <2>. SUFFICES ASSUME NEW p \in Callers, at'[p] = "read", complete'[p],
                       NEW a \in listed'[p] \ toRead'[p]
                PROVE  ~Unborn(a)' /\ \A k \in Identifiers : Cites(a, k)' => k \in found'[p]
    BY DEF InventoryCovers
  <2>1. at[p] = "read" /\ complete[p] /\ a \in listed[p] \ toRead[p] /\ found'[p] = found[p]
    OBVIOUS
  <2>2. a \in drawn
    BY <2>1 DEF ListedWasDrawn
  <2>3. ~Unborn(a) /\ \A k \in Identifiers : Cites(a, k) => k \in found[p]
    BY <2>1 DEF InventoryCovers
  <2>4. \A k \in Identifiers : /\ Unborn(a)' => Unborn(a)
                               /\ Cites(a, k)' => Cites(a, k) \/ Unborn(a)
    BY <1>0, <2>2
  <2>5. a \in Identifiers
    BY <2>2 DEF CreationInv, StorageTypeOK
  <2>. QED
    BY <2>1, <2>3, <2>4, <2>5
<1>3. PartedForGood'
  <2>. SUFFICES ASSUME NEW k \in Identifiers, NEW a \in parted'[k]
                PROVE  ~Unborn(a)' /\ ~Cites(a, k)'
    BY DEF PartedForGood
  <2>1. a \in parted[k] /\ a \in drawn
    BY DEF ListedWasDrawn
  <2>. QED
    BY <1>0, <2>1 DEF PartedForGood
<1>. QED
  BY <1>1, <1>2, <1>3

\* Every step keeps the inventories true.
LEMMA InventoryStep ==
    CreationInv /\ InventoryInv /\ [StorageNext]_storageVars => InventoryInv'
<1>. SUFFICES ASSUME CreationInv, InventoryInv, [StorageNext]_storageVars
              PROVE  InventoryInv'
  OBVIOUS
<1>1. StorageTypeOK
  BY DEF CreationInv
<1>2. ASSUME NEW p \in Callers,
             \/ New(p) \/ ForkRead(p) \/ ForkClaim(p) \/ WriteTemp(p) \/ RenameTemp(p) \/ Sync(p)
             \/ Delete(p) \/ Tombstone(p) \/ Doom(p) \/ Empty(p) \/ RemoveDirectory(p)
             \/ Recover(p) \/ Link(p) \/ UnlinkTemp(p)
      PROVE  InventoryInv'
  <2>1. drawn \subseteq drawn' /\ UNCHANGED <<listVars, parted>>
    BY <1>2 DEF New, ForkRead, ForkClaim, WriteTemp, RenameTemp, Sync, Delete, Tombstone,
       Doom, Empty, RemoveDirectory, Recover, Link, UnlinkTemp,
                CreateAgentDirectory, treeVars
  <2>2. \E step \in {"idle", "claim", "write", "rename", "sync", "tombstone", "doom", "empty",
                     "rmdir", "list", "link", "unlink"} : at' = [at EXCEPT ![p] = step]
    BY <1>2, SMTT(30) DEF New, ForkRead, ForkClaim, WriteTemp, RenameTemp, Sync, Delete, Tombstone,
       Doom, Empty, RemoveDirectory, Recover, Link, UnlinkTemp, GoOn, Finish
  <2>3. \A q \in Callers : at'[q] = "read" => at[q] = "read"
    BY <1>1, <2>2 DEF StorageTypeOK
  <2>. QED
    BY <2>1, <2>3, InventoryStands DEF listVars
<1>3. ASSUME NEW p \in Callers, Killed(p) PROVE InventoryInv'
  <2>1. drawn \subseteq drawn' /\ parted' = parted
    BY <1>3 DEF Killed
  <2>2. ASSUME NEW q \in Callers
        PROVE  /\ at'[q] = "read" =>
                      /\ at[q] = "read"
                      /\ complete'[q] = complete[q] /\ found'[q] = found[q]
                      /\ listed'[q] = listed[q] /\ toRead'[q] = toRead[q]
               /\ listed'[q] \in {listed[q], {}}
    BY <1>1, <1>3 DEF Killed, Finish, GoOn, StorageTypeOK
  <2>. QED
    BY <2>1, <2>2, InventoryStands
<1>4. ASSUME NEW x \in Identifiers, LaunchAgent(x) PROVE InventoryInv'
  BY <1>4, InventoryStands DEF LaunchAgent, callerVars, listVars
<1>5. CASE UNCHANGED storageVars
  BY <1>5, InventoryStands DEF storageVars, treeVars, callerVars, listVars
<1>6. ASSUME NEW p \in Callers, List(p) PROVE InventoryInv'
  <2>. USE <1>1, <1>6 DEF List, GoOn, treeVars, StorageTypeOK
  <2>1. ListedWasDrawn'
    BY DEF InventoryInv, ListedWasDrawn
  <2>2. \A a \in drawn, k \in Identifiers : Unborn(a)' => Unborn(a)
    BY NothingNew DEF Unborn, Creating
  <2>3. \A a, k : Cites(a, k)' <=> Cites(a, k)
    BY DEF Cites
  <2>4. InventoryCovers'
    <3>. SUFFICES ASSUME NEW q \in Callers, at'[q] = "read", complete'[q],
                         NEW a \in listed'[q] \ toRead'[q]
                  PROVE  ~Unborn(a)' /\ \A k \in Identifiers : Cites(a, k)' => k \in found'[q]
      BY DEF InventoryCovers
    <3>1. q # p /\ at[q] = "read" /\ complete[q] /\ a \in listed[q] \ toRead[q]
                /\ found'[q] = found[q]
      OBVIOUS
    <3>2. a \in drawn
      BY <3>1 DEF InventoryInv, ListedWasDrawn
    <3>. QED
      BY <2>2, <2>3, <3>1, <3>2 DEF InventoryInv, InventoryCovers
  <2>5. PartedForGood'
    BY <2>2, <2>3 DEF InventoryInv, PartedForGood, ListedWasDrawn
  <2>. QED
    BY <2>1, <2>4, <2>5 DEF InventoryInv
<1>7. ASSUME NEW p \in Callers, Read(p) PROVE InventoryInv'
  <2>. USE <1>1 DEF StorageTypeOK
  <2>1. PICK b \in toRead[p] :
          /\ toRead' = [toRead EXCEPT ![p] = @ \ {b}]
          /\ \/ /\ Readable(b)
                /\ found' = [found EXCEPT ![p] = @ \cup {meta[b].key}]
                /\ UNCHANGED complete
             \/ /\ complete' = [complete EXCEPT ![p] = FALSE]
                /\ UNCHANGED found
    BY <1>7 DEF Read
  <2>2. UNCHANGED <<meta, temp, drawn, at, agent, listed, parted>>
    BY <1>7 DEF Read, treeVars, callerVars
  <2>3. \A a, k : (Cites(a, k)' <=> Cites(a, k)) /\ (Unborn(a)' <=> Unborn(a))
    BY <2>2 DEF Cites, Unborn, Creating
  <2>4. ListedWasDrawn' /\ PartedForGood'
    BY <2>2, <2>3 DEF InventoryInv, ListedWasDrawn, PartedForGood
  <2>5. Readable(b) => ~Unborn(b) /\ \A k : Cites(b, k) => k = meta[b].key
    BY DEF CreationInv, CreatedAlone, OneKey, Readable, Unborn, Cites
  <2>6. InventoryCovers'
    <3>. SUFFICES ASSUME NEW q \in Callers, at[q] = "read", complete'[q],
                         NEW a \in listed[q] \ toRead'[q]
                  PROVE  ~Unborn(a) /\ \A k \in Identifiers : Cites(a, k) => k \in found'[q]
      BY <2>2, <2>3 DEF InventoryCovers
    <3>1. CASE q = p /\ a = b
      <4>1. Readable(b) /\ found'[q] = found[p] \cup {meta[b].key}
        BY <2>1, <3>1
      <4>. QED
        BY <2>5, <3>1, <4>1
    <3>2. CASE ~(q = p /\ a = b)
      <4>1. complete[q] /\ a \in listed[q] \ toRead[q] /\ found[q] \subseteq found'[q]
        BY <2>1, <3>2
      <4>. QED
        BY <4>1 DEF InventoryInv, InventoryCovers
    <3>. QED
      BY <3>1, <3>2
  <2>. QED
    BY <2>4, <2>6 DEF InventoryInv
<1>8. ASSUME NEW p \in Callers, UnlinkDatabase(p) PROVE InventoryInv'
  <2>. USE <1>1, <1>8 DEF UnlinkDatabase, StorageTypeOK, GoOn, Finish
  <2>1. UNCHANGED <<meta, temp, drawn, agent>>
    OBVIOUS
  <2>2. \A a, k : (Cites(a, k)' <=> Cites(a, k)) /\ (Unborn(a)' <=> Unborn(a))
    BY <2>1 DEF Cites, Unborn, Creating
  <2>3. ListedWasDrawn'
    <3>1. \A k \in Identifiers : parted'[k] \subseteq parted[k] \cup listed[p]
      OBVIOUS
    <3>2. \A q \in Callers : listed'[q] \subseteq listed[q]
      OBVIOUS
    <3>. QED
      BY <3>1, <3>2 DEF InventoryInv, ListedWasDrawn
  <2>4. InventoryCovers'
    <3>. SUFFICES ASSUME NEW q \in Callers, at'[q] = "read", complete'[q],
                         NEW a \in listed'[q] \ toRead'[q]
                  PROVE  ~Unborn(a) /\ \A k \in Identifiers : Cites(a, k) => k \in found'[q]
      BY <2>2 DEF InventoryCovers
    <3>1. /\ q # p /\ at[q] = "read" /\ complete[q] /\ a \in listed[q] \ toRead[q]
          /\ found'[q] = found[q]
      OBVIOUS
    <3>. QED
      BY <3>1 DEF InventoryInv, InventoryCovers
  <2>5. PartedForGood'
    <3>. SUFFICES ASSUME NEW k \in Identifiers, NEW a \in parted'[k]
                  PROVE  ~Unborn(a) /\ ~Cites(a, k)
      BY <2>2 DEF PartedForGood
    <3>1. CASE a \in parted[k]
      BY <3>1 DEF InventoryInv, PartedForGood
    <3>2. CASE a \notin parted[k]
      <4>1. complete[p] /\ toRead[p] = {} /\ a \in listed[p]
        BY <3>2
      <4>2. k = held[p].key /\ k \notin found[p]
        BY <3>2
      <4>. QED
        BY <4>1, <4>2 DEF InventoryInv, InventoryCovers
    <3>. QED
      BY <3>1, <3>2
  <2>. QED
    BY <2>3, <2>4, <2>5 DEF InventoryInv
<1>. QED
  BY <1>2, <1>3, <1>4, <1>5, <1>6, <1>7, <1>8 DEF StorageNext, CreateAgent, Discard, Repair

-----------------------------------------------------------------------------
\* Everything holds of a state root with one agent and no command.
LEMMA StorageBegins == StorageInit => CreationInv /\ InventoryInv
<1>. SUFFICES ASSUME StorageInit PROVE CreationInv /\ InventoryInv
  OBVIOUS
<1>. USE StorageAssumption DEF StorageInit, NoTemp, Temporary
<1>1. StorageTypeOK
  BY DEF StorageTypeOK, StoredRecord, IdleRecord
<1>2. FreshIsNowhere /\ CreatedAlone /\ OneKey
  BY DEF FreshIsNowhere, CreatedAlone, Creating, OneKey
<1>3. InventoryInv
  BY DEF InventoryInv, ListedWasDrawn, InventoryCovers, PartedForGood
<1>. QED
  BY <1>1, <1>2, <1>3 DEF CreationInv

\* The whole invariant, of every behaviour.
LEMMA StorageInvariant == StorageSpec => [](CreationInv /\ InventoryInv)
<1>1. CreationInv /\ InventoryInv /\ [StorageNext]_storageVars => (CreationInv /\ InventoryInv)'
  BY StorageTypeStep, CreationStep, InventoryStep DEF CreationInv
<1>. QED
  BY <1>1, StorageBegins, PTL DEF StorageSpec

\* Every variable keeps its type, with any callers, commands and crashes.
THEOREM StorageTypeCorrect == StorageSpec => []StorageTypeOK
<1>1. CreationInv => StorageTypeOK
  BY DEF CreationInv
<1>. QED
  BY <1>1, StorageInvariant, PTL

\* removeOpencodeDatabase takes no conversation from an agent that stood when
\* its inventory was listed, for any number of agents, forks, removals,
\* failures and crashes.
THEOREM ConversationsKept == StorageSpec => []ConversationKept
<1>1. InventoryInv => ConversationKept
  BY DEF InventoryInv, PartedForGood, ConversationKept, Cites, Readable
<1>. QED
  BY <1>1, StorageInvariant, PTL

\* A run or a tombstone of a published record is never undone by whoever
\* completes an interrupted creation.
THEOREM PublishedForGood == StorageSpec => NeverUnpublished
<1>. DEFINE Undone(a) == /\ meta[a] # NoRecord /\ meta'[a] # NoRecord
                         /\ ~(/\ meta[a].session => meta'[a].session
                              /\ meta[a].doomed => meta'[a].doomed)
<1>1. ASSUME CreationInv, [StorageNext]_storageVars, NEW a \in Identifiers
      PROVE  ~Undone(a)
  <2>. USE StorageAssumption
  <2>1. ASSUME NEW p \in Callers, RenameTemp(p) PROVE ~Undone(a)
    BY <1>1, <2>1 DEF RenameTemp, CreationInv, CreatedAlone, Creating, StorageTypeOK
  <2>2. ASSUME NEW p \in Callers, Tombstone(p) PROVE ~Undone(a)
    <3>1. CASE meta' = meta
      BY <3>1
    <3>2. CASE Readable(agent[p]) /\ meta' = [meta EXCEPT ![agent[p]].doomed = TRUE]
      <4>1. meta[agent[p]] \in StoredRecord
        BY <1>1, <3>2, ReadableRecord DEF CreationInv
      <4>2. meta'[agent[p]] = [meta[agent[p]] EXCEPT !.doomed = TRUE]
        BY <1>1, <3>2 DEF CreationInv, StorageTypeOK
      <4>3. meta'[agent[p]].doomed /\ meta'[agent[p]].session = meta[agent[p]].session
        BY <4>1, <4>2 DEF StoredRecord
      <4>4. a # agent[p] => meta'[a] = meta[a]
        BY <1>1, <3>2 DEF CreationInv, StorageTypeOK
      <4>. QED
        BY <4>3, <4>4
    <3>. QED
      BY <2>2, <3>1, <3>2 DEF Tombstone
  <2>3. ASSUME NEW p \in Callers, Empty(p) PROVE ~Undone(a)
    BY <1>1, <2>3 DEF Empty, CreationInv, StorageTypeOK
  <2>4. ASSUME NEW p \in Callers, Link(p) PROVE ~Undone(a)
    BY <1>1, <2>4 DEF Link, CreationInv, StorageTypeOK
  <2>5. ASSUME NEW x \in Identifiers, LaunchAgent(x) PROVE ~Undone(a)
    <3>1. meta[x] \in StoredRecord
      BY <1>1, <2>5, ReadableRecord DEF CreationInv, LaunchAgent
    <3>2. meta'[x] = [meta[x] EXCEPT !.session = TRUE] /\ (a # x => meta'[a] = meta[a])
      BY <1>1, <2>5 DEF LaunchAgent, CreationInv, StorageTypeOK
    <3>3. meta'[x].session /\ meta'[x].doomed = meta[x].doomed
      BY <3>1, <3>2 DEF StoredRecord
    <3>. QED
      BY <3>2, <3>3
  <2>6. CASE meta' = meta
    BY <2>6
  <2>7. ASSUME NEW p \in Callers,
               \/ New(p) \/ ForkRead(p) \/ ForkClaim(p) \/ WriteTemp(p) \/ Sync(p) \/ Delete(p)
               \/ Doom(p) \/ RemoveDirectory(p) \/ List(p) \/ Read(p) \/ UnlinkDatabase(p)
               \/ Recover(p) \/ UnlinkTemp(p) \/ Killed(p)
        PROVE  meta' = meta
    BY <2>7 DEF New, ForkRead, ForkClaim, WriteTemp, Sync, Delete, Doom, RemoveDirectory, List,
                Read, UnlinkDatabase, Recover, UnlinkTemp, Killed, treeVars
  <2>. QED
    BY <1>1, <2>1, <2>2, <2>3, <2>4, <2>5, <2>6, <2>7
    DEF StorageNext, CreateAgent, Discard, Repair, storageVars, treeVars
<1>2. CreationInv /\ [StorageNext]_storageVars =>
        [\A a \in Identifiers : meta[a] # NoRecord /\ meta'[a] # NoRecord =>
             /\ meta[a].session => meta'[a].session
             /\ meta[a].doomed => meta'[a].doomed]_storageVars
  BY <1>1
<1>. QED
  BY <1>2, StorageInvariant, PTL DEF StorageSpec, NeverUnpublished

-----------------------------------------------------------------------------
(* The watchdog of a backend *)

\* What a backend writes, and what a scan of it shows.
Rows == {"step_start", "tool_use", "step_finish", "garbage", "text"} \cup Classes
Activities == {"startup", "model_step", "tool_running", "step_finished", "backend_error", "unknown"}
Seen == [activity : Activities, failure : {"none"} \cup Classes]

\* A row leaves something that can be shown.
LEMMA AcceptLineType ==
  ASSUME NEW shown \in Seen, NEW row \in Rows
  PROVE  AcceptLine(shown, row) \in Seen
BY DEF AcceptLine, Seen, Rows, Activities, Classes

\* The rows of a scan, one by one.
Accepts(v, known, lines) ==
  /\ v[0] = known
  /\ \A n \in 1..Len(lines) : v[n] = AcceptLine(v[n - 1], lines[n])

\* A scan of any rows has something to show after each.
LEMMA AcceptsExist ==
  ASSUME NEW known \in Seen, NEW lines \in Seq(Rows)
  PROVE  \E v \in [0..Len(lines) -> Seen] : Accepts(v, known, lines)
<1>1. PICK N \in Nat : N = Len(lines)
  OBVIOUS
<1>. DEFINE T == Seen
            Turn == [p \in (1..N) \X T |-> AcceptLine(p[2], lines[p[1]])]
<1>2. \A n \in 1..N : \A s \in T : AcceptLine(s, lines[n]) \in T
  BY <1>1, AcceptLineType
<1>3. Turn \in [(1..N) \X T -> T]
  BY <1>2
<1>4. \A n \in 1..N : \A s \in T : Turn[<<n, s>>] = AcceptLine(s, lines[n])
  OBVIOUS
<1>5. known \in T
  OBVIOUS
<1>. HIDE DEF T, Turn
<1>6. PICK v \in [0..N -> T] : Turns(v, N, known, Turn)
  BY <1>3, <1>5, IterationExists
<1>7. ASSUME NEW n \in 1..N PROVE v[n] = AcceptLine(v[n - 1], lines[n])
  <2>1. v[n - 1] \in T OBVIOUS
  <2>. QED BY <2>1, <1>4, <1>6 DEF Turns
<1>8. v[0] = known
  BY <1>6 DEF Turns
<1>. QED BY <1>1, <1>7, <1>8 DEF Accepts, T

\* Scans of two stretches show the same as far as those are the same.
LEMMA AcceptsAreOne ==
  ASSUME NEW known, NEW lines, NEW longer, NEW v, NEW w, NEW N \in Nat
  PROVE  /\ Len(lines) = N /\ Len(longer) \in Nat /\ N <= Len(longer)
         /\ \A n \in 1..N : lines[n] = longer[n]
         /\ Accepts(v, known, lines) /\ Accepts(w, known, longer)
         => v[N] = w[N]
<1>1. SUFFICES ASSUME /\ Len(lines) = N /\ Len(longer) \in Nat /\ N <= Len(longer)
                      /\ \A n \in 1..N : lines[n] = longer[n]
                      /\ Accepts(v, known, lines) /\ Accepts(w, known, longer)
               PROVE  v[N] = w[N]
  OBVIOUS
<1>2. v[0] = w[0]
  BY <1>1 DEF Accepts
<1>3. \A n \in 1..N : v[n - 1] = w[n - 1] => v[n] = w[n]
  BY <1>1 DEF Accepts
<1>4. \A n \in 0..N : v[n] = w[n]
  BY <1>2, <1>3, IterationIsOne
<1>. QED BY <1>4

\* A scan shows what its last row leaves.
LEMMA AcceptLinesAccepts ==
  ASSUME NEW known \in Seen, NEW lines \in Seq(Rows), NEW v, Accepts(v, known, lines)
  PROVE  AcceptLines(known, lines) = v[Len(lines)]
<1>. DEFINE Pass(f) == [n \in 0..Len(lines) |->
                          IF n = 0 THEN known ELSE AcceptLine(f[n - 1], lines[n])]
            looped == CHOOSE f : f = Pass(f)
<1>1. AcceptLines(known, lines) = looped[Len(lines)]
  BY DEF AcceptLines
<1>2. PICK w \in [0..Len(lines) -> Seen] : Accepts(w, known, lines)
  BY AcceptsExist
<1>3. w = Pass(w)
  <2>1. ASSUME NEW n \in 0..Len(lines) PROVE w[n] = Pass(w)[n]
    BY <1>2 DEF Accepts
  <2>. QED BY <2>1
<1>4. looped = Pass(looped)
  BY <1>3
<1>5. ASSUME NEW f, f = Pass(f) PROVE Accepts(f, known, lines)
  <2>1. PICK N \in Nat : N = Len(lines)
    OBVIOUS
  <2>2. \A n \in 0..N : f[n] = IF n = 0 THEN known ELSE AcceptLine(f[n - 1], lines[n])
    BY <1>5, <2>1
  <2>3. f[0] = known
    BY <2>2, 0 \in 0..N
  <2>4. ASSUME NEW n \in 1..N PROVE f[n] = AcceptLine(f[n - 1], lines[n])
    BY <2>2, n \in 0..N, n # 0
  <2>. QED BY <2>1, <2>3, <2>4 DEF Accepts
<1>6. Accepts(looped, known, lines)
  BY <1>4, <1>5
<1>. HIDE DEF looped
<1>7. looped[Len(lines)] = v[Len(lines)]
  BY <1>6, AcceptsAreOne, Len(lines) \in Nat
<1>. QED BY <1>1, <1>7

\* A scan of nothing shows what was known, and one row more changes what it
\* shows as acceptLine says.
LEMMA ScanGoesOn ==
  ASSUME NEW known \in Seen, NEW lines \in Seq(Rows), NEW row \in Rows
  PROVE  /\ AcceptLines(known, << >>) = known
         /\ AcceptLines(known, lines) \in Seen
         /\ AcceptLines(known, Append(lines, row)) = AcceptLine(AcceptLines(known, lines), row)
<1>. DEFINE longer == Append(lines, row)
<1>1. PICK v \in [0..Len(lines) -> Seen] : Accepts(v, known, lines)
  BY AcceptsExist
<1>2. longer \in Seq(Rows) /\ Len(longer) = Len(lines) + 1
  OBVIOUS
<1>3. PICK w \in [0..Len(longer) -> Seen] : Accepts(w, known, longer)
  BY <1>2, AcceptsExist
<1>4. AcceptLines(known, lines) = v[Len(lines)] /\ AcceptLines(known, longer) = w[Len(longer)]
  BY <1>1, <1>2, <1>3, AcceptLinesAccepts
<1>5. v[Len(lines)] = w[Len(lines)]
  <2>1. /\ Len(lines) \in Nat /\ Len(longer) \in Nat /\ Len(lines) <= Len(longer)
        /\ \A n \in 1..Len(lines) : lines[n] = longer[n]
    OBVIOUS
  <2>. HIDE DEF longer
  <2>. QED BY <1>1, <1>3, <2>1, AcceptsAreOne
<1>6. longer[Len(lines) + 1] = row /\ Len(lines) + 1 \in 1..Len(longer) /\ (Len(lines) + 1) - 1 = Len(lines)
  OBVIOUS
<1>. HIDE DEF longer
<1>7. w[Len(lines) + 1] = AcceptLine(w[Len(lines)], row)
  BY <1>3, <1>6 DEF Accepts
<1>8. AcceptLines(known, << >>) = known
  <2>1. << >> \in Seq(Rows) /\ Len(<< >>) = 0
    OBVIOUS
  <2>2. Accepts([n \in 0..0 |-> known], known, << >>)
    BY DEF Accepts
  <2>. QED BY <2>1, <2>2, AcceptLinesAccepts
<1>. QED BY <1>1, <1>2, <1>4, <1>5, <1>7, <1>8 DEF longer

\* What a backend may be doing.
Deeds == {"starting", "between", "model", "tools", "error", "exited"}

\* The backend, its log and what the watchdog remembers.
WatchType ==
  /\ doing \in Deeds
  /\ unread \in Seq(Rows)
  /\ torn \in Rows \cup {Whole}
  /\ fresh \in BOOLEAN /\ lost \in BOOLEAN /\ partial \in BOOLEAN /\ reported \in BOOLEAN
  /\ Known \in Seen

\* A tool of the step that is open has been reported.
InTools == doing = "tools" /\ reported = TRUE

\* Then the log shows a tool, or will when its last row is complete, or nothing
\* can be known of it.
ToolShows == InTools => \/ lost = TRUE
                        \/ Skips
                        \/ torn = "tool_use"
                        \/ AcceptLines(Known, unread).activity \in {"tool_running", "unknown"}

\* Nothing but what a running tool may write follows it.
OnlyChatter == InTools => torn \in {Whole, "tool_use", "text", "garbage"}

\* A poll has read all there is, or remembers that it has not.
PollRemembers == fresh = FALSE => /\ unread = << >> /\ lost = FALSE
                                  /\ torn # Whole => partial = TRUE \/ activity = "unknown"

\* What the next poll will find of the backend.
WatchInv == /\ WatchType
            /\ ToolShows
            /\ OnlyChatter
            /\ PollRemembers
            /\ doing = "model" => reported = FALSE

\* A tool's row shows the tool, a broken one nothing, and text what was shown.
LEMMA RowsShow ==
  ASSUME NEW shown
  PROVE  /\ AcceptLine(shown, "tool_use").activity = "tool_running"
         /\ AcceptLine(shown, "garbage").activity = "unknown"
         /\ AcceptLine(shown, "text") = shown
BY DEF AcceptLine, Classes

\* A watch begins with a backend that starts and nothing read.
LEMMA WatchInitially == WatchInit => WatchInv
<1>. SUFFICES ASSUME WatchInit PROVE WatchInv
  OBVIOUS
<1>1. /\ doing = "starting" /\ reported = FALSE /\ unread = << >> /\ torn = Whole
      /\ fresh = FALSE /\ lost = FALSE /\ partial = FALSE
  BY DEF WatchInit
<1>2. Known \in Seen
  BY DEF WatchInit, Known, Seen, Activities
<1>3. << >> \in Seq(Rows)
  OBVIOUS
<1>. QED BY <1>1, <1>2, <1>3 DEF WatchInv, WatchType, ToolShows, InTools, OnlyChatter, PollRemembers, Deeds

\* One row more, or the beginning of one.
LEMMA WriteShows ==
  ASSUME WatchInv, NEW row \in Rows, Write(row), UNCHANGED <<activity, failure, partial>>
  PROVE  /\ unread' \in Seq(Rows) /\ torn' \in Rows \cup {Whole}
         /\ fresh' \in BOOLEAN /\ lost' \in BOOLEAN /\ partial' \in BOOLEAN /\ Known' \in Seen
         /\ PollRemembers'
         /\ torn = Whole /\ torn' \in {Whole, row}
         /\ lost' = lost
         /\ Skips => Skips'
         /\ Known' = Known
         /\ \/ /\ torn' = row
               /\ AcceptLines(Known, unread)' = AcceptLines(Known, unread)
            \/ AcceptLines(Known, unread)' = AcceptLine(AcceptLines(Known, unread), row)
<1>1. Known' = Known
  BY DEF Known
<1>2. /\ unread \in Seq(Rows) /\ Known \in Seen
      /\ MaxScan \in Nat
  BY WatchAssumption DEF WatchInv, WatchType
<1>3. CASE unread' = Append(unread, row) /\ torn' = Whole
  <2>1. unread' \in Seq(Rows) /\ Len(unread') = Len(unread) + 1
    BY <1>2, <1>3
  <2>2. AcceptLines(Known, unread)' = AcceptLine(AcceptLines(Known, unread), row)
    BY <1>1, <1>2, <1>3, ScanGoesOn
  <2>3. Skips => Skips' BY <1>2, <2>1 DEF Skips
  <2>. QED BY <1>1, <1>2, <1>3, <2>1, <2>2, <2>3 DEF Write, WatchInv, WatchType, PollRemembers
<1>4. CASE torn' = row /\ UNCHANGED unread
  BY <1>1, <1>2, <1>4 DEF Write, WatchInv, WatchType, PollRemembers, Skips
<1>. QED BY <1>3, <1>4 DEF Write

\* No poll, row or accident disturbs it.
LEMMA WatchStep == WatchInv /\ [WatchNext]_watchVars => WatchInv'
<1>. SUFFICES ASSUME WatchInv, [WatchNext]_watchVars PROVE WatchInv'
  OBVIOUS
<1>. USE DEF backend, file, watch
<1>1. CASE Poll
  <2>. DEFINE torn_ == ~lost /\ ~Skips /\ IF fresh THEN torn # Whole ELSE partial
  <2>0. "text" \in Rows /\ << >> \in Seq(Rows)
    BY DEF Rows
  <2>1. /\ activity' = Scan.activity /\ failure' = Scan.failure
        /\ partial' = torn_
        /\ unread' = << >> /\ fresh' = FALSE /\ lost' = FALSE
        /\ torn' = IF Skips THEN Rest ELSE torn
        /\ UNCHANGED <<doing, reported>>
    BY <1>1 DEF Poll
  <2>2. Scan \in Seen
    BY <2>0, ScanGoesOn DEF Scan, Unknown, Seen, Activities, WatchInv, WatchType, Rows
  <2>3. Known' = Scan
    BY <2>1, <2>2 DEF Known, Seen
  <2>4. AcceptLines(Known, unread)' = Scan
    BY <2>0, <2>1, <2>2, <2>3, ScanGoesOn
  <2>5. Rest \in {Whole, "garbage"} /\ Rest \in Rows \cup {Whole}
    BY DEF Rest, Rows
  <2>6. lost = TRUE \/ Skips => Scan.activity = "unknown"
    BY DEF Scan, Unknown
  <2>7. lost = FALSE /\ ~Skips => Scan = AcceptLines(Known, unread)
    BY DEF Scan
  <2>8. lost \in BOOLEAN /\ fresh \in BOOLEAN /\ partial \in BOOLEAN
    BY DEF WatchInv, WatchType
  <2>9. torn_ \in BOOLEAN
    BY <2>8
  <2>10. ASSUME torn' # Whole PROVE partial' = TRUE \/ activity' = "unknown"
    <3>1. CASE lost = TRUE \/ Skips
      BY <2>1, <2>6, <3>1
    <3>2. CASE lost = FALSE /\ ~Skips /\ fresh = TRUE
      BY <2>1, <2>10, <3>2
    <3>3. CASE lost = FALSE /\ ~Skips /\ fresh = FALSE
      <4>1. torn # Whole /\ (partial = TRUE \/ activity = "unknown")
        BY <2>1, <2>10, <3>3 DEF WatchInv, PollRemembers
      <4>2. Scan = Known
        BY <2>7, <3>3, <2>0, ScanGoesOn
           DEF WatchInv, WatchType, PollRemembers
      <4>3. Scan.activity = activity BY <4>2 DEF Known
      <4>. QED BY <2>1, <3>3, <4>1, <4>3
    <3>. QED BY <2>8, <3>1, <3>2, <3>3
  <2>. HIDE DEF torn_
  <2>11. ASSUME InTools' PROVE torn' = "tool_use" \/ Scan.activity \in {"tool_running", "unknown"}
    <3>1. InTools BY <2>1, <2>11 DEF InTools
    <3>2. CASE lost = TRUE \/ Skips BY <2>6, <3>2
    <3>3. CASE lost = FALSE /\ ~Skips
      BY <2>1, <2>7, <3>1, <3>3 DEF WatchInv, ToolShows
    <3>. QED BY <2>8, <3>2, <3>3
  <2>12. ToolShows' BY <2>4, <2>11 DEF ToolShows
  <2>13. OnlyChatter' BY <2>1, <2>5 DEF WatchInv, OnlyChatter, InTools
  <2>14. WatchType'
    <3>1. torn' \in Rows \cup {Whole} BY <2>1, <2>5 DEF WatchInv, WatchType
    <3>2. doing' \in Deeds /\ reported' \in BOOLEAN BY <2>1 DEF WatchInv, WatchType
    <3>. QED BY <2>0, <2>1, <2>2, <2>3, <2>9, <3>1, <3>2 DEF WatchType
  <2>15. PollRemembers' BY <2>1, <2>10 DEF PollRemembers
  <2>. QED BY <2>1, <2>12, <2>13, <2>14, <2>15 DEF WatchInv
<1>2. CASE SessionFound \/ WatchTick \/ ToolsStart \/ Exits
  BY <1>2 DEF WatchInv, WatchType, ToolShows, InTools, OnlyChatter, PollRemembers, Known, Skips,
     SessionFound, WatchTick, ToolsStart, Exits, Deeds
<1>3. CASE Complete
  <2>1. /\ unread \in Seq(Rows) /\ torn \in Rows /\ Known \in Seen /\ MaxScan \in Nat
        /\ Known' = Known
        /\ unread' = Append(unread, torn)
    BY <1>3, WatchAssumption DEF Complete, WatchInv, WatchType, Known
  <2>2. unread' \in Seq(Rows) /\ Len(unread') = Len(unread) + 1
    BY <2>1
  <2>3. AcceptLines(Known, unread)' = AcceptLine(AcceptLines(Known, unread), torn)
    BY <2>1, ScanGoesOn
  <2>4. Skips => Skips' BY <2>1, <2>2 DEF Skips
  <2>5. AcceptLines(Known, unread) \in Seen BY <2>1, ScanGoesOn
  <2>6. ASSUME InTools' PROVE lost' = TRUE \/ Skips' \/ AcceptLines(Known, unread)'.activity \in {"tool_running", "unknown"}
    <3>1. InTools /\ torn \in {"tool_use", "text", "garbage"}
      BY <1>3, <2>6 DEF Complete, InTools, WatchInv, OnlyChatter
    <3>2. torn = "text" => AcceptLines(Known, unread)' = AcceptLines(Known, unread)
      BY <2>3, RowsShow
    <3>3. torn # "text" => AcceptLines(Known, unread)'.activity \in {"tool_running", "unknown"}
      BY <2>3, <3>1, RowsShow
    <3>4. lost' = lost
      BY <1>3 DEF Complete
    <3>. QED BY <2>4, <3>1, <3>2, <3>3, <3>4 DEF WatchInv, ToolShows
  <2>. QED BY <1>3, <2>1, <2>2, <2>6 DEF Complete, WatchInv, WatchType, ToolShows, InTools, OnlyChatter,
        PollRemembers
<1>4. CASE ToolReported
  <2>1. Write("tool_use") /\ "tool_use" \in Rows /\ UNCHANGED <<activity, failure, partial>>
    BY <1>4 DEF ToolReported, Rows
  <2>2. doing' = doing /\ reported' = TRUE /\ doing = "tools"
    BY <1>4 DEF ToolReported
  <2>3. \/ torn' = "tool_use"
        \/ AcceptLines(Known, unread)'.activity \in {"tool_running", "unknown"}
    BY <2>1, WriteShows, RowsShow
  <2>4. torn' \in {Whole, "tool_use"}
    BY <2>1, WriteShows
  <2>. QED BY <2>1, <2>2, <2>3, <2>4, WriteShows
        DEF WatchInv, WatchType, ToolShows, OnlyChatter
<1>5. CASE Chatter
  <2>1. PICK row \in {"text", "garbage"} : Write(row)
    BY <1>5 DEF Chatter
  <2>2. row \in Rows /\ UNCHANGED <<activity, failure, partial, doing, reported>>
    BY <1>5 DEF Chatter, Rows
  <2>3. ASSUME InTools'
        PROVE  \/ lost' = TRUE
               \/ Skips'
               \/ torn' = "tool_use"
               \/ AcceptLines(Known, unread)'.activity \in {"tool_running", "unknown"}
    <3>1. InTools BY <2>2, <2>3 DEF InTools
    <3>2. torn = Whole /\ lost' = lost /\ (Skips => Skips')
      BY <2>1, <2>2, WriteShows
    <3>3. lost = TRUE \/ Skips \/ AcceptLines(Known, unread).activity \in {"tool_running", "unknown"}
      BY <3>1, <3>2 DEF WatchInv, ToolShows, Whole
    <3>4. \/ AcceptLines(Known, unread)' = AcceptLines(Known, unread)
          \/ AcceptLines(Known, unread)'.activity = "unknown"
      BY <2>1, <2>2, WriteShows, RowsShow
    <3>. QED BY <3>2, <3>3, <3>4
  <2>4. torn' \in {Whole, "text", "garbage"}
    BY <2>1, <2>2, WriteShows
  <2>. QED BY <2>1, <2>2, <2>3, <2>4, WriteShows
        DEF WatchInv, WatchType, ToolShows, OnlyChatter
<1>6. CASE StepStarts \/ StepFinishes \/ RequestFails
  <2>1. PICK row \in Rows : Write(row)
    BY <1>6 DEF StepStarts, StepFinishes, RequestFails, Rows
  <2>2. /\ UNCHANGED <<activity, failure, partial>>
        /\ doing' \in Deeds /\ reported' \in BOOLEAN
        /\ doing' # "tools" /\ (doing' = "model" => reported' = FALSE)
    BY <1>6 DEF StepStarts, StepFinishes, RequestFails, WatchInv, WatchType, Deeds
  <2>. QED BY <2>1, <2>2, WriteShows
        DEF WatchInv, WatchType, ToolShows, OnlyChatter, InTools
<1>7. CASE LogCut
  <2>1. /\ lost' = TRUE /\ unread' = << >> /\ torn' = Rest /\ fresh' = TRUE
        /\ UNCHANGED <<doing, reported, partial, activity, failure>>
    BY <1>7 DEF LogCut
  <2>2. Rest \in {Whole, "garbage"} /\ Rest \in Rows \cup {Whole}
    BY DEF Rest, Rows
  <2>. QED BY <2>1, <2>2 DEF WatchInv, WatchType, ToolShows, OnlyChatter, InTools, PollRemembers, Known
<1>8. CASE UNCHANGED watchVars
  BY <1>8 DEF watchVars, WatchInv, WatchType, ToolShows, OnlyChatter, InTools, PollRemembers, Known, Skips
<1>. QED BY <1>1, <1>2, <1>3, <1>4, <1>5, <1>6, <1>7, <1>8 DEF WatchNext, Backend

\* Whatever rows are torn, skipped, cut off or still to come, and however long
\* nothing is written: stallCandidate ends no batch of tools one of which has been
\* reported, no tool that has a process, and nothing that has no session.
THEOREM ToolsGoOn == WatchSpec => NoToolInterrupted
<1>1. ASSUME WatchInv, [WatchNext]_watchVars, ended = "no", ended' # "no"
      PROVE  session /\ ~child /\ ~(doing = "tools" /\ reported)
  <2>1. Poll
    BY <1>1 DEF WatchNext, Backend, SessionFound, WatchTick, StepStarts, ToolsStart, ToolReported,
       StepFinishes, RequestFails, Chatter, Complete, Exits, LogCut, watchVars, watch
  <2>. DEFINE torn_ == ~lost /\ ~Skips /\ IF fresh THEN torn # Whole ELSE partial
              since == IF fresh THEN 0 ELSE silent
  <2>2. PICK stat \in {"S", "D", "R"} :
          /\ Diagnosis(stat, Scan, torn_, since) \in Verified
          /\ session /\ ~child
    BY <1>1, <2>1 DEF Poll
  <2>3. ~torn_ /\ Scan.activity \notin {"tool_running", "unknown"}
    BY <2>2 DEF Diagnosis, Verified
  <2>4. ASSUME InTools PROVE FALSE
    <3>1. lost = FALSE /\ ~Skips
      BY <2>3 DEF Scan, Unknown, WatchInv, WatchType
    <3>2. torn = "tool_use"
      BY <1>1, <2>3, <2>4, <3>1 DEF Scan, WatchInv, ToolShows
    <3>3. fresh = FALSE /\ partial = FALSE
      BY <1>1, <2>3, <3>1, <3>2 DEF WatchInv, WatchType, Whole
    <3>4. activity = "unknown" /\ unread = << >>
      BY <1>1, <3>2, <3>3 DEF WatchInv, PollRemembers, Whole
    <3>5. Scan = Known
      <4>1. "text" \in Rows /\ << >> \in Seq(Rows) BY DEF Rows
      <4>. QED BY <1>1, <3>1, <3>4, <4>1, ScanGoesOn DEF Scan, WatchInv, WatchType
    <3>. QED BY <2>3, <3>4, <3>5 DEF Known
  <2>5. reported \in BOOLEAN BY <1>1 DEF WatchInv, WatchType
  <2>. QED BY <2>2, <2>4, <2>5 DEF InTools
<1>2. WatchInv /\ [WatchNext]_watchVars =>
        [ended = "no" /\ ended' # "no" => session /\ ~child /\ ~(doing = "tools" /\ reported)]_watchVars
  BY <1>1
<1>. QED BY <1>2, WatchInitially, WatchStep, PTL DEF WatchSpec, NoToolInterrupted
=============================================================================
