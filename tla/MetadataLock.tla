---------------------------- MODULE MetadataLock ----------------------------
(***************************************************************************)
(* The per-agent metadata lock of packages/agent-runtime/src/store.ts:     *)
(* acquireLock, releaseLock and the read-modify-write of updateMeta that   *)
(* runs between them.  Every file system call another process can observe  *)
(* is a step of its own: the exclusive create and the write of the owner   *)
(* record are two steps, and so are the two reads and the unlink of a      *)
(* reclaim, and the read-back and the unlink of a release.                 *)
(***************************************************************************)
EXTENDS Naturals

CONSTANTS Procs,        \* operating system processes (pid and start time)
          MayCrash,     \* those that may be killed at any step
          MaxAcq,       \* bound: acquisitions each process makes
          MaxAttempts,  \* LOCK_ATTEMPTS
          IoErrors,     \* TRUE when a file system call may fail
          MayDelete,    \* TRUE when the agent may be deleted meanwhile
          None          \* no lock file, no token

Tokens == Procs \X (1..MaxAcq)   \* one per acquisition, as randomBytes makes

ASSUME LockAssumption == /\ MayCrash \subseteq Procs
                         /\ MaxAcq \in Nat
                         /\ MaxAttempts \in Nat \ {0}
                         /\ IoErrors \in BOOLEAN
                         /\ MayDelete \in BOOLEAN
                         /\ None \notin Tokens

VARIABLES
  dirExists,  \* agentDir is there
  lock,       \* the acquisition whose file is at the lock path, or None
  written,    \* acquisitions whose file holds its complete owner record
  alive,      \* processes that are alive
  pc,         \* where each process is
  acq,        \* acquisitions each process has begun
  attempts,   \* attempts left out of LOCK_ATTEMPTS
  obs,        \* the acquisition judged from the first parseLockOwner
  seen,       \* what readMeta returned under the lock
  meta        \* the updates the durable record reflects

vars == <<dirExists, lock, written, alive, pc, acq, attempts, obs, seen, meta>>

Token(p) == <<p, acq[p]>>
Owner(t) == t[1]

\* Where a process holds what it believes is its lock, and may still touch meta.
Body    == {"read", "write"}
Holding == Body \cup {"close", "readback", "releaseUnlink"}

Labels == {"idle", "open", "observe", "probe", "reread", "unlink", "record",
           "cleanup", "cleanupUnlink", "dead"} \cup Holding

TypeOK == /\ dirExists \in BOOLEAN
          /\ lock \in Tokens \cup {None}
          /\ written \in SUBSET Tokens
          /\ alive \in SUBSET Procs
          /\ pc \in [Procs -> Labels]
          /\ acq \in [Procs -> 0..MaxAcq]
          /\ attempts \in [Procs -> 0..MaxAttempts]
          /\ obs \in [Procs -> Tokens \cup {None}]
          /\ seen \in [Procs -> SUBSET Tokens]
          /\ meta \in SUBSET Tokens

Init == /\ dirExists = TRUE
        /\ lock = None
        /\ written = {}
        /\ alive = Procs
        /\ pc = [p \in Procs |-> "idle"]
        /\ acq = [p \in Procs |-> 0]
        /\ attempts = [p \in Procs |-> 0]
        /\ obs = [p \in Procs |-> None]
        /\ seen = [p \in Procs |-> {}]
        /\ meta = {}

At(p, label)   == p \in alive /\ pc[p] = label
Goto(p, label) == pc' = [pc EXCEPT ![p] = label]

-----------------------------------------------------------------------------
(* acquireLock *)

\* updateMeta calls withAgentLock; the token of this acquisition is fresh.
Start(p) == /\ At(p, "idle")
            /\ acq[p] < MaxAcq
            /\ acq' = [acq EXCEPT ![p] = @ + 1]
            /\ attempts' = [attempts EXCEPT ![p] = MaxAttempts]
            /\ obs' = [obs EXCEPT ![p] = None]
            /\ seen' = [seen EXCEPT ![p] = {}]
            /\ Goto(p, "open")
            /\ UNCHANGED <<dirExists, lock, written, alive, meta>>

\* The loop has used up LOCK_ATTEMPTS: MetadataLockError.
TimeOut(p) == /\ At(p, "open")
              /\ attempts[p] = 0
              /\ Goto(p, "idle")
              /\ UNCHANGED <<dirExists, lock, written, alive, acq, attempts,
                             obs, seen, meta>>

\* Faulty: openSync without O_EXCL adopts the file that is there.
OpenShared(p) == /\ At(p, "open")
                 /\ attempts[p] > 0
                 /\ dirExists
                 /\ attempts' = [attempts EXCEPT ![p] = @ - 1]
                 /\ lock' = Token(p)
                 /\ Goto(p, "record")
                 /\ UNCHANGED <<dirExists, written, alive, acq, obs, seen, meta>>

\* Faulty: a retry does not count as an attempt.
OpenForever(p) == /\ At(p, "open")
                  /\ attempts[p] > 0
                  /\ UNCHANGED attempts
                  /\ \/ /\ lock # None
                        /\ Goto(p, "observe")
                        /\ UNCHANGED lock
                     \/ /\ lock = None
                        /\ lock' = Token(p)
                        /\ Goto(p, "record")
                  /\ UNCHANGED <<dirExists, written, alive, acq, obs, seen, meta>>

\* openSync(path, 'wx'): ENOENT, EEXIST, or the file is created empty.
Open(p) == /\ At(p, "open")
           /\ attempts[p] > 0
           /\ attempts' = [attempts EXCEPT ![p] = @ - 1]
           /\ \/ /\ ~dirExists
                 /\ Goto(p, "idle")
                 /\ UNCHANGED lock
              \/ /\ dirExists /\ lock # None
                 /\ Goto(p, "observe")
                 /\ UNCHANGED lock
              \/ /\ dirExists /\ lock = None
                 /\ lock' = Token(p)
                 /\ Goto(p, "record")
           /\ UNCHANGED <<dirExists, written, alive, acq, obs, seen, meta>>

\* Faulty: an empty record is taken for that of a dead owner.
ObserveMalformed(p) == /\ At(p, "observe")
                       /\ obs' = [obs EXCEPT ![p] = lock]
                       /\ Goto(p, IF lock = None THEN "open"
                                  ELSE IF lock \in written THEN "probe"
                                  ELSE "unlink")
                       /\ UNCHANGED <<dirExists, lock, written, alive, acq,
                                      attempts, seen, meta>>

\* The first parseLockOwner: missing and malformed records go round again.
Observe(p) == /\ At(p, "observe")
              /\ IF lock # None /\ lock \in written
                   THEN obs' = [obs EXCEPT ![p] = lock] /\ Goto(p, "probe")
                   ELSE UNCHANGED obs /\ Goto(p, "open")
              /\ UNCHANGED <<dirExists, lock, written, alive, acq, attempts,
                             seen, meta>>

\* Faulty: no owner is ever judged dead.
ProbeAlive(p) == /\ At(p, "probe")
                 /\ Goto(p, "open")
                 /\ UNCHANGED <<dirExists, lock, written, alive, acq, attempts,
                                obs, seen, meta>>

\* lockOwnerAlive: pid and start time of the owner that was read.
Probe(p) == /\ At(p, "probe")
            /\ Goto(p, IF Owner(obs[p]) \in alive THEN "open" ELSE "reread")
            /\ UNCHANGED <<dirExists, lock, written, alive, acq, attempts,
                           obs, seen, meta>>

\* The second parseLockOwner: the very acquisition judged dead, or not at all.
Reread(p) == /\ At(p, "reread")
             /\ Goto(p, IF lock = obs[p] /\ lock \in written THEN "unlink"
                                                             ELSE "open")
             /\ UNCHANGED <<dirExists, lock, written, alive, acq, attempts,
                            obs, seen, meta>>

\* unlinkSync(path) removes whatever file is at the path by now.
ReclaimUnlink(p) == /\ At(p, "unlink")
                    /\ lock' = None
                    /\ Goto(p, "open")
                    /\ UNCHANGED <<dirExists, written, alive, acq, attempts,
                                   obs, seen, meta>>

\* writeFileSync(fd, raw) goes to the file this process created, wherever the
\* path leads by now.
Record(p) == /\ At(p, "record")
             /\ written' = written \cup {Token(p)}
             /\ Goto(p, "read")
             /\ UNCHANGED <<dirExists, lock, alive, acq, attempts, obs, seen,
                            meta>>

\* The write or the fsync failed; the record may have reached the file.
RecordFails(p) == /\ At(p, "record")
                  /\ IoErrors
                  /\ written' \in {written, written \cup {Token(p)}}
                  /\ Goto(p, "cleanup")
                  /\ UNCHANGED <<dirExists, lock, alive, acq, attempts, obs,
                                 seen, meta>>

Mine(p) == lock = Token(p) /\ lock \in written

\* Only this acquisition's own record is cleaned up after the failure.
Cleanup(p) == /\ At(p, "cleanup")
              /\ Goto(p, IF Mine(p) THEN "cleanupUnlink" ELSE "idle")
              /\ UNCHANGED <<dirExists, lock, written, alive, acq, attempts,
                             obs, seen, meta>>

CleanupUnlink(p) == /\ At(p, "cleanupUnlink")
                    /\ lock' = None
                    /\ Goto(p, "idle")
                    /\ UNCHANGED <<dirExists, written, alive, acq, attempts,
                                   obs, seen, meta>>

-----------------------------------------------------------------------------
(* updateMeta: readMeta, mutate, writeMeta; the mutation is the token *)

\* Faulty: the record is read before the lock is taken, in an earlier update.
ReadMetaEarly(p) == /\ At(p, "read")
                    /\ UNCHANGED seen
                    /\ Goto(p, IF dirExists THEN "write" ELSE "close")
                    /\ UNCHANGED <<dirExists, lock, written, alive, acq,
                                   attempts, obs, meta>>

ReadMeta(p) == /\ At(p, "read")
               /\ seen' = [seen EXCEPT ![p] = meta]
               /\ Goto(p, IF dirExists THEN "write" ELSE "close")
               /\ UNCHANGED <<dirExists, lock, written, alive, acq, attempts,
                              obs, meta>>

\* The rename of the temporary file publishes the whole record at once.
WriteMeta(p) == /\ At(p, "write")
                /\ meta' = IF dirExists THEN seen[p] \cup {Token(p)} ELSE meta
                /\ Goto(p, "close")
                /\ UNCHANGED <<dirExists, lock, written, alive, acq, attempts,
                               obs, seen>>

\* readMeta, mutate or writeMeta throws: the finally block still releases.
BodyFails(p) == /\ pc[p] \in Body /\ p \in alive
                /\ Goto(p, "close")
                /\ UNCHANGED <<dirExists, lock, written, alive, acq, attempts,
                               obs, seen, meta>>

-----------------------------------------------------------------------------
(* releaseLock *)

Close(p) == /\ At(p, "close")
            /\ Goto(p, "readback")
            /\ UNCHANGED <<dirExists, lock, written, alive, acq, attempts,
                           obs, seen, meta>>

ReadBack(p) == /\ At(p, "readback")
               /\ Goto(p, IF Mine(p) THEN "releaseUnlink" ELSE "idle")
               /\ UNCHANGED <<dirExists, lock, written, alive, acq, attempts,
                              obs, seen, meta>>

ReleaseUnlink(p) == /\ At(p, "releaseUnlink")
                    /\ lock' = None
                    /\ Goto(p, "idle")
                    /\ UNCHANGED <<dirExists, written, alive, acq, attempts,
                                   obs, seen, meta>>

-----------------------------------------------------------------------------
(* What happens around the protocol *)

\* An open, read, close or unlink throws MetadataLockError.
IoError(p) == /\ IoErrors
              /\ p \in alive
              /\ pc[p] \in {"open", "observe", "reread", "unlink", "cleanup",
                            "cleanupUnlink", "close", "readback",
                            "releaseUnlink"}
              /\ Goto(p, "idle")
              /\ UNCHANGED <<dirExists, lock, written, alive, acq, attempts,
                             obs, seen, meta>>

Crash(p) == /\ p \in MayCrash /\ p \in alive
            /\ alive' = alive \ {p}
            /\ Goto(p, "dead")
            /\ UNCHANGED <<dirExists, lock, written, acq, attempts, obs, seen,
                           meta>>

\* removeAgentDirectory does not take the lock.
RemoveDirectory == /\ MayDelete
                   /\ dirExists
                   /\ dirExists' = FALSE
                   /\ lock' = None
                   /\ meta' = {}
                   /\ UNCHANGED <<written, alive, pc, acq, attempts, obs, seen>>

Acquire(p) == \/ Start(p) \/ TimeOut(p) \/ Open(p) \/ Observe(p) \/ Probe(p)
              \/ Reread(p) \/ ReclaimUnlink(p) \/ Record(p) \/ RecordFails(p)
              \/ Cleanup(p) \/ CleanupUnlink(p)
Update(p)  == ReadMeta(p) \/ WriteMeta(p) \/ BodyFails(p)
Release(p) == Close(p) \/ ReadBack(p) \/ ReleaseUnlink(p)

Next == \/ \E p \in Procs : \/ Acquire(p) \/ Update(p) \/ Release(p)
                            \/ IoError(p) \/ Crash(p)
        \/ RemoveDirectory

Spec == Init /\ [][Next]_vars

\* Each process runs its own synchronous code and its own retry timer.
FairSpec == Spec /\ \A p \in Procs : WF_vars(Acquire(p) \/ Update(p) \/ Release(p))
-----------------------------------------------------------------------------
(* Properties *)

\* Two processes never read and write the record at the same time: the lock
\* of acquireLock excludes them, whatever fails, times out or is deleted.
MutualExclusion ==
  \A p, q \in alive : pc[p] \in Body /\ pc[q] \in Body => p = q

\* updateMeta loses no update: the read and the write under the lock act as
\* one atomic step, although the directory can go at any moment.
Atomic == INSTANCE AtomicUpdate WITH Updates <- Tokens
ImplementsAtomicUpdate == Atomic!Spec

\* A failed or interrupted acquisition gives its caller an answer: neither the
\* retry loop of acquireLock nor a lock that nobody releases holds it forever.
EveryUpdateEnds ==
  \A p \in Procs : pc[p] # "idle" ~> pc[p] \in {"idle", "dead"}

\* No file is removed from the lock path while its owner is alive, except by
\* its owner ("never steal it", on malformed locks), and except in the interval
\* that docs/intent-records/hosts.md says cannot be closed: between the read
\* that judged another acquisition and the unlink, which takes what is there.
JudgedAnother(p, t) == \/ pc[p] = "unlink" /\ obs[p] # t
                       \/ pc[p] \in {"cleanupUnlink", "releaseUnlink"} /\ Token(p) # t
LiveLockKept ==
  [][\A t \in Tokens :
       lock = t /\ lock' # t /\ Owner(t) \in alive /\ dirExists' =>
         \/ pc[Owner(t)] \in {"cleanupUnlink", "releaseUnlink"}
         \/ \E p \in alive : JudgedAnother(p, t)]_vars

\* The complete record of a dead owner does not block the agent: a process
\* that comes to take the lock reclaims it within its attempts.
StaleLockReclaimed ==
  \A t \in Tokens :
    (/\ lock = t /\ t \in written /\ Owner(t) \notin alive
     /\ \E p \in alive \ MayCrash : pc[p] = "open" /\ attempts[p] = MaxAttempts)
    ~> lock # t
=============================================================================
