----------------------------- MODULE HostDaemon -----------------------------
(***************************************************************************)
(* The host daemon of packages/host-daemon/src: the lock that keeps one    *)
(* daemon per host (lock.ts), the report it publishes through a temporary  *)
(* file (state.ts), the start, heartbeat and stop of service.ts, and what  *)
(* a reader makes of the report (core/src/host-daemon.ts hostLiveness).    *)
(* Node runs each of these functions without interruption, but not against *)
(* other processes: every file system call they can observe is a step.     *)
(***************************************************************************)
EXTENDS Integers

CONSTANTS Daemons,     \* processes (pid and start time) that start the daemon
          MayCrash,    \* those that may be killed at any step
          Leftover,    \* one that died before, its lock and report left; or None
          StaleAfter,  \* staleAfterMs
          LastInstant, \* bound: the last instant of the clock
          None         \* no lock file, no record, no report

ASSUME DaemonAssumption == /\ None \notin Daemons \cup [by : Daemons, at : 0..LastInstant]
                           /\ MayCrash \subseteq Daemons
                           /\ Leftover \in Daemons \cup {None}
                           /\ StaleAfter \in Nat
                           /\ LastInstant \in Nat

VARIABLES
  lock,     \* the process that created the file at paths.lock, or None
  written,  \* processes whose lock file holds its complete record
  stage,    \* where each process is
  judged,   \* the record readDaemonLock returned to each
  seen,     \* history: the file each process read the second time
  raced,    \* history: the lock of a living process was removed unjudged
  draft,    \* who wrote host.json.tmp, and when
  report,   \* who wrote host.json, and when
  uncleared, \* history: those whose clearHostReport failed
  last,     \* the time of the last report each process published
  now       \* the clock

daemonVars == <<lock, written, stage, judged, seen, raced, draft, report, uncleared, last, now>>
lockVars   == <<lock, written, judged, seen, raced>>
reportVars == <<draft, report, uncleared, last>>

\* Between the exclusive create of its lock file and the end of its release.
Owning == {"record", "first", "firstRename", "running", "rename",
           "clear", "release", "releaseUnlink"}
Labels == Owning \cup {"idle", "open", "judge", "reread", "unlink", "reopen", "off", "dead"}

Reports == [by : Daemons, at : 0..LastInstant] \cup {None}

TypeOK == /\ lock \in Daemons \cup {None}
          /\ written \in SUBSET Daemons
          /\ stage \in [Daemons -> Labels]
          /\ judged \in [Daemons -> Daemons \cup {None}]
          /\ seen \in [Daemons -> Daemons \cup {None}]
          /\ raced \in BOOLEAN
          /\ draft \in Reports
          /\ report \in Reports
          /\ uncleared \in SUBSET Daemons
          /\ last \in [Daemons -> 0..LastInstant]
          /\ now \in 0..LastInstant

DaemonInit == /\ lock = Leftover
              /\ written = {Leftover} \ {None}
              /\ stage = [d \in Daemons |-> IF d = Leftover THEN "dead" ELSE "idle"]
              /\ judged = [d \in Daemons |-> None]
              /\ seen = [d \in Daemons |-> None]
              /\ raced = FALSE
              /\ draft = None
              /\ report = IF Leftover = None THEN None ELSE [by |-> Leftover, at |-> 0]
              /\ uncleared = {}
              /\ last = [d \in Daemons |-> 0]
              /\ now = 0

To(d, label) == stage' = [stage EXCEPT ![d] = label]

\* procStartTicks and signal 0: the process is there, whatever it is doing.
Alive(d) == stage[d] \notin {"idle", "off", "dead"}

\* readDaemonLock: nothing for a file that is missing or has no full record.
LockRecord == IF lock \in written THEN lock ELSE None

-----------------------------------------------------------------------------
(* acquireDaemonLock *)

\* startDaemon: the identity and the start time of the process are known.
StartDaemon(d) == /\ stage[d] = "idle"
                  /\ To(d, "open")
                  /\ UNCHANGED <<lockVars, reportVars, now>>

\* openSync(lock, 'wx'): the file is created, still empty, or EEXIST.
Open(d) == /\ stage[d] = "open"
           /\ \/ /\ lock = None
                 /\ lock' = d
                 /\ To(d, "record")
              \/ /\ lock # None
                 /\ To(d, "judge")
                 /\ UNCHANGED lock
           /\ UNCHANGED <<written, judged, seen, raced, reportVars, now>>

\* The record and its fsync; a failure leaves the file as it is.
Record(d) == /\ stage[d] = "record"
             /\ \/ /\ written' = written \cup {d}
                   /\ To(d, "first")
                \/ /\ To(d, "off")
                   /\ UNCHANGED written
             /\ UNCHANGED <<lock, judged, seen, raced, reportVars, now>>

\* readDaemonLock, daemonLockVerdict: a live owner is DaemonAlreadyRunningError.
Judge(d) == /\ stage[d] = "judge"
            /\ judged' = [judged EXCEPT ![d] = LockRecord]
            /\ To(d, IF LockRecord # None /\ Alive(LockRecord) THEN "off" ELSE "reread")
            /\ UNCHANGED <<lock, written, seen, raced, reportVars, now>>

\* Faulty: the record that was judged is not compared with the one there now.
RereadTrusts(d) == /\ stage[d] = "reread"
                   /\ seen' = [seen EXCEPT ![d] = lock]
                   /\ To(d, "unlink")
                   /\ UNCHANGED <<lock, written, judged, raced, reportVars, now>>

\* The second read: a record other than the judged one stops the reclaim.
Reread(d) == /\ stage[d] = "reread"
             /\ seen' = [seen EXCEPT ![d] = lock]
             /\ To(d, IF LockRecord = judged[d] THEN "unlink" ELSE "off")
             /\ UNCHANGED <<lock, written, judged, raced, reportVars, now>>

\* unlinkSync: whatever is at the path now; ENOENT is DaemonLockError.  The
\* history remembers that the file belonged to a living process, when it came
\* after the second read or had no record to judge.
Unlink(d) == /\ stage[d] = "unlink"
             /\ To(d, IF lock = None THEN "off" ELSE "reopen")
             /\ lock' = None
             /\ raced' = \/ raced
                         \/ /\ lock # None
                            /\ Alive(lock)
                            /\ lock # seen[d] \/ judged[d] = None
             /\ UNCHANGED <<written, judged, seen, reportVars, now>>

\* The second openSync(lock, 'wx'): EEXIST is an error here.
Reopen(d) == /\ stage[d] = "reopen"
             /\ \/ /\ lock = None
                   /\ lock' = d
                   /\ To(d, "record")
                \/ /\ lock # None
                   /\ To(d, "off")
                   /\ UNCHANGED lock
             /\ UNCHANGED <<written, judged, seen, raced, reportVars, now>>

-----------------------------------------------------------------------------
(* publish, beat and stop *)

\* writeHostReport: the temporary file is written ...
WriteDraft(d, from, to) == /\ stage[d] = from
                           /\ draft' = [by |-> d, at |-> now]
                           /\ To(d, to)
                           /\ UNCHANGED <<lockVars, report, uncleared, last, now>>

\* ... and renamed over the report.
Rename(d, from, to) == /\ stage[d] = from
                       /\ draft # None
                       /\ report' = draft
                       /\ draft' = None
                       /\ last' = [last EXCEPT ![d] = draft.at]
                       /\ To(d, to)
                       /\ UNCHANGED <<lockVars, uncleared, now>>

\* The first report, before the timer is armed.
FirstReport(d) == WriteDraft(d, "first", "firstRename") \/ Rename(d, "firstRename", "running")

\* It cannot be written or renamed: the lock is released and the start fails.
FirstReportFails(d) == /\ stage[d] \in {"first", "firstRename"}
                       /\ To(d, "release")
                       /\ UNCHANGED <<lockVars, reportVars, now>>

\* Faulty: the timer is not cancelled and beat does not look at stopped.
BeatAfterStop(d) == \/ WriteDraft(d, "running", "rename")
                    \/ WriteDraft(d, "release", "rename")
                    \/ Rename(d, "rename", "running")

\* beat: not when stopped; stop cannot run inside it.
Beat(d) == WriteDraft(d, "running", "rename") \/ Rename(d, "rename", "running")

\* A report that cannot be written or renamed is not a reason to exit.
BeatFails(d) == /\ stage[d] = "rename"
                /\ To(d, "running")
                /\ UNCHANGED <<lockVars, reportVars, now>>

\* stop: stopped is set and the timer cancelled.
Stop(d) == /\ stage[d] = "running"
           /\ To(d, "clear")
           /\ UNCHANGED <<lockVars, reportVars, now>>

\* clearHostReport: whosever report it is; its failure does not stop the release.
Clear(d) == /\ stage[d] = "clear"
            /\ \/ /\ report' = None
                  /\ UNCHANGED uncleared
               \/ /\ uncleared' = uncleared \cup {d}
                  /\ UNCHANGED report
            /\ To(d, "release")
            /\ UNCHANGED <<lockVars, draft, last, now>>

\* releaseDaemonLock: the record is read and must be its own ...
ReleaseRead(d) == /\ stage[d] = "release"
                  /\ To(d, IF LockRecord = d THEN "releaseUnlink" ELSE "off")
                  /\ UNCHANGED <<lockVars, reportVars, now>>

\* ... and the file is removed.
ReleaseUnlink(d) == /\ stage[d] = "releaseUnlink"
                    /\ lock' = None
                    /\ To(d, "off")
                    /\ UNCHANGED <<written, judged, seen, raced, reportVars, now>>

\* The process is killed at any step.
Crash(d) == /\ d \in MayCrash
            /\ Alive(d)
            /\ To(d, "dead")
            /\ UNCHANGED <<lockVars, reportVars, now>>

DaemonTick == /\ now < LastInstant
              /\ now' = now + 1
              /\ UNCHANGED <<lockVars, reportVars, stage>>

-----------------------------------------------------------------------------
Starts(d)  == StartDaemon(d) \/ Open(d) \/ Record(d) \/ Judge(d) \/ Reread(d) \/ Unlink(d) \/ Reopen(d)
Publishes(d) == FirstReport(d) \/ FirstReportFails(d) \/ Beat(d) \/ BeatFails(d)
Stops(d)   == Stop(d) \/ Clear(d) \/ ReleaseRead(d) \/ ReleaseUnlink(d)

DaemonNext == \/ \E d \in Daemons : Starts(d) \/ Publishes(d) \/ Stops(d) \/ Crash(d)
              \/ DaemonTick

DaemonSpec == DaemonInit /\ [][DaemonNext]_daemonVars

-----------------------------------------------------------------------------
Running(d) == stage[d] \in {"running", "rename"}

\* Two daemons run together only if one of them removed, unjudged, the lock of
\* a living process: a lock still without its record, or one installed between
\* the second read and the unlink.  With every record complete and the re-read
\* in force the takeover of a stale lock never costs a live daemon its lock.
OneDaemon == ~raced => \A d, e \in Daemons : Running(d) /\ Running(e) => d = e

\* hostLiveness: by the age of the report and nothing else.
Liveness == CASE report = None -> "offline"
              [] report # None /\ now - report.at > StaleAfter -> "stale"
              [] OTHER -> "online"

\* What a reader of host.json concludes is true of the host: a daemon that
\* published within the threshold is read online from its own report, however
\* the shutdown of its predecessor was timed, and once a daemon has stopped no
\* report of it is left to read, unless the file could not be removed.
HostReadsTruly ==
    ~raced => \A d \in Daemons :
        /\ Running(d) /\ now - last[d] <= StaleAfter
             => Liveness = "online" /\ report = [by |-> d, at |-> last[d]]
        /\ stage[d] \in {"release", "releaseUnlink", "off"} /\ d \notin uncleared
             => report = None \/ report.by # d
=============================================================================
