------------------------- MODULE MetadataLockProofs -------------------------
(***************************************************************************)
(* Theorems about the metadata lock, for any number of processes,          *)
(* acquisitions and attempts, with failing file system calls and a         *)
(* directory that may be deleted.  Mutual exclusion and the atomicity of   *)
(* updateMeta are proved for processes that do not crash: a crash opens    *)
(* the interval of a reclaim that docs/intent-records/hosts.md describes.  *)
(***************************************************************************)
EXTENDS MetadataLock, TLAPS

\* Where an acquisition has been begun, so that Token(p) names one.
Begun == Labels \ {"idle", "dead"}
TypeInv == /\ TypeOK
           /\ \A p \in Procs : pc[p] \in Begun => acq[p] # 0

\* An acquisition that has been begun has a token.
LEMMA TokenType ==
  ASSUME TypeInv, NEW p \in Procs, pc[p] \in Begun
  PROVE  Token(p) \in Tokens /\ Token(p) # None
<1>1. acq[p] \in 1..MaxAcq
  BY LockAssumption DEF TypeInv, TypeOK
<1>. QED
  BY <1>1, LockAssumption DEF Token, Tokens

\* Every step keeps every variable in its type.
LEMMA TypeStep == TypeInv /\ [Next]_vars => TypeInv'
<1>. SUFFICES ASSUME TypeInv, [Next]_vars PROVE TypeInv'
  OBVIOUS
<1>. USE LockAssumption DEF TypeInv, TypeOK, Labels, Begun, Holding, Body, At, Goto
<1>1. ASSUME NEW p \in Procs, Acquire(p) PROVE TypeInv'
  <2>1. CASE Start(p) BY <2>1 DEF Start
  <2>2. CASE TimeOut(p) BY <2>2 DEF TimeOut
  <2>3. CASE Open(p) BY <2>3, TokenType DEF Open
  <2>4. CASE Observe(p) BY <2>4 DEF Observe
  <2>5. CASE Probe(p) BY <2>5 DEF Probe
  <2>6. CASE Reread(p) BY <2>6 DEF Reread
  <2>7. CASE ReclaimUnlink(p) BY <2>7 DEF ReclaimUnlink
  <2>8. CASE Record(p) BY <2>8, TokenType DEF Record
  <2>9. CASE RecordFails(p) BY <2>9, TokenType DEF RecordFails
  <2>10. CASE Cleanup(p) BY <2>10 DEF Cleanup
  <2>11. CASE CleanupUnlink(p) BY <2>11 DEF CleanupUnlink
  <2>. QED BY <1>1, <2>1, <2>2, <2>3, <2>4, <2>5, <2>6, <2>7, <2>8, <2>9,
              <2>10, <2>11 DEF Acquire
<1>2. ASSUME NEW p \in Procs, Update(p) PROVE TypeInv'
  <2>1. CASE ReadMeta(p) BY <2>1 DEF ReadMeta
  <2>2. CASE WriteMeta(p) BY <2>2, TokenType DEF WriteMeta
  <2>3. CASE BodyFails(p) BY <2>3 DEF BodyFails
  <2>. QED BY <1>2, <2>1, <2>2, <2>3 DEF Update
<1>3. ASSUME NEW p \in Procs, Release(p) PROVE TypeInv'
  BY <1>3 DEF Release, Close, ReadBack, ReleaseUnlink
<1>4. ASSUME NEW p \in Procs, IoError(p) PROVE TypeInv'
  BY <1>4 DEF IoError
<1>5. ASSUME NEW p \in Procs, Crash(p) PROVE TypeInv'
  BY <1>5 DEF Crash
<1>6. CASE RemoveDirectory BY <1>6 DEF RemoveDirectory
<1>7. CASE UNCHANGED vars BY <1>7 DEF vars
<1>. QED BY <1>1, <1>2, <1>3, <1>4, <1>5, <1>6, <1>7 DEF Next

\* The types hold before any process takes the lock.
LEMMA TypeInit == Init => TypeInv
BY LockAssumption DEF Init, TypeInv, TypeOK, Labels, Begun

\* Type correctness of the lock, crashes included.
THEOREM TypeCorrect == Spec => []TypeOK
<1>1. TypeInv => TypeOK BY DEF TypeInv
<1>. QED BY TypeInit, TypeStep, <1>1, PTL DEF Spec

-----------------------------------------------------------------------------
\* Where a process owns the lock file, as long as the directory is there.
Owning == Holding \cup {"record", "cleanup", "cleanupUnlink"}

\* Nothing is ever reclaimed: every owner that is observed is alive.
NoReclaim == /\ alive = Procs
             /\ \A p \in Procs : /\ pc[p] \notin {"reread", "unlink", "dead"}
                                 /\ pc[p] = "probe" => obs[p] \in Tokens

\* The lock path holds the file of the process that owns it, and one does.
Held == \A p \in Procs : pc[p] \in Owning /\ dirExists => lock = Token(p)
Exclusive == \A p, q \in Procs : pc[p] \in Owning /\ pc[q] \in Owning => p = q

\* What a process read under the lock is what the record still holds.
Fresh == \A p \in Procs : pc[p] = "write" /\ dirExists => seen[p] = meta

LockInv == TypeInv /\ NoReclaim /\ Held /\ Exclusive /\ Fresh

\* A lock that nobody has taken yet.
LEMMA LockInit == Init => LockInv
BY TypeInit DEF Init, LockInv, NoReclaim, Held, Exclusive, Fresh, Owning, Holding, Body

\* With no crash, no step of any process lets two of them own the lock.
LEMMA LockStep ==
  ASSUME MayCrash = {}
  PROVE  LockInv /\ [Next]_vars => LockInv'
<1>. SUFFICES ASSUME LockInv, [Next]_vars PROVE LockInv'
  OBVIOUS
<1>0. TypeInv'
  BY TypeStep DEF LockInv
<1>. USE DEF LockInv, TypeInv, TypeOK, NoReclaim, Held, Exclusive, Fresh,
             Owning, Holding, Body, At, Goto, Token
<1>1. ASSUME NEW p \in Procs, Acquire(p) PROVE LockInv'
  <2>1. CASE Start(p) BY <1>0, <2>1 DEF Start
  <2>2. CASE TimeOut(p) BY <1>0, <2>2 DEF TimeOut
  <2>3. CASE Open(p)
    <3>1. CASE ~dirExists \/ lock # None BY <1>0, <2>3, <3>1 DEF Open
    <3>2. CASE dirExists /\ lock = None
      <4>1. \A q \in Procs : pc[q] \notin Owning
        BY <3>2, TokenType DEF Begun, Labels
      <4>. QED BY <1>0, <2>3, <3>2, <4>1 DEF Open
    <3>. QED BY <3>1, <3>2
  <2>4. CASE Observe(p) BY <1>0, <2>4 DEF Observe
  <2>5. CASE Probe(p)
    <3>1. Owner(obs[p]) \in alive BY <2>5 DEF Probe, Owner, Tokens
    <3>. QED BY <1>0, <2>5, <3>1 DEF Probe
  <2>6. CASE Reread(p) \/ ReclaimUnlink(p) BY <2>6 DEF Reread, ReclaimUnlink
  <2>7. CASE Record(p) BY <1>0, <2>7 DEF Record
  <2>8. CASE RecordFails(p) BY <1>0, <2>8 DEF RecordFails
  <2>9. CASE Cleanup(p) BY <1>0, <2>9 DEF Cleanup
  <2>10. CASE CleanupUnlink(p) BY <1>0, <2>10 DEF CleanupUnlink
  <2>. QED BY <1>1, <2>1, <2>2, <2>3, <2>4, <2>5, <2>6, <2>7, <2>8, <2>9,
              <2>10 DEF Acquire
<1>2. ASSUME NEW p \in Procs, Update(p) PROVE LockInv'
  <2>1. CASE ReadMeta(p) BY <1>0, <2>1 DEF ReadMeta
  <2>2. CASE WriteMeta(p) BY <1>0, <2>2 DEF WriteMeta
  <2>3. CASE BodyFails(p) BY <1>0, <2>3 DEF BodyFails
  <2>. QED BY <1>2, <2>1, <2>2, <2>3 DEF Update
<1>3. ASSUME NEW p \in Procs, Release(p) PROVE LockInv'
  BY <1>0, <1>3 DEF Release, Close, ReadBack, ReleaseUnlink
<1>4. ASSUME NEW p \in Procs, IoError(p) PROVE LockInv'
  BY <1>0, <1>4 DEF IoError
<1>5. ASSUME NEW p \in Procs, Crash(p) PROVE LockInv'
  BY <1>5 DEF Crash
<1>6. CASE RemoveDirectory BY <1>0, <1>6 DEF RemoveDirectory
<1>7. CASE UNCHANGED vars BY <1>0, <1>7 DEF vars
<1>. QED BY <1>1, <1>2, <1>3, <1>4, <1>5, <1>6, <1>7 DEF Next

\* Two processes never read and write the record at the same time: acquireLock
\* excludes them, at any number of processes, attempts and failures.
THEOREM LockExcludes ==
  ASSUME MayCrash = {}
  PROVE  Spec => []MutualExclusion
<1>1. LockInv => MutualExclusion
  BY DEF LockInv, NoReclaim, Exclusive, MutualExclusion, Owning, Holding
<1>. QED BY LockInit, LockStep, <1>1, PTL DEF Spec

-----------------------------------------------------------------------------
\* Every step of the lock is a step of the atomic update, or changes nothing
\* that the callers of updateMeta see.
LEMMA AtomicStep ==
  LockInv /\ [Next]_vars => [Atomic!Next]_Atomic!vars
<1>. SUFFICES ASSUME LockInv, [Next]_vars
              PROVE  [Atomic!Next]_Atomic!vars
  OBVIOUS
<1>1. ASSUME NEW p \in Procs, WriteMeta(p) PROVE [Atomic!Next]_Atomic!vars
  <2>1. Token(p) \in Tokens
    BY <1>1, TokenType DEF WriteMeta, At, LockInv, Begun, Labels, Holding, Body
  <2>2. CASE dirExists
    <3>1. meta' = meta \cup {Token(p)} /\ UNCHANGED dirExists
      BY <1>1, <2>2 DEF WriteMeta, At, LockInv, Fresh
    <3>2. CASE Token(p) \in meta
      BY <3>1, <3>2 DEF Atomic!vars
    <3>3. CASE Token(p) \notin meta
      BY <2>1, <2>2, <3>1, <3>3 DEF Atomic!Next, Atomic!Apply
    <3>. QED BY <3>2, <3>3
  <2>3. CASE ~dirExists
    BY <1>1, <2>3 DEF WriteMeta, Atomic!vars
  <2>. QED BY <2>2, <2>3
<1>2. CASE RemoveDirectory
  BY <1>2 DEF RemoveDirectory, Atomic!Next, Atomic!Remove
<1>3. ASSUME NEW p \in Procs,
             \/ Acquire(p) \/ ReadMeta(p) \/ BodyFails(p) \/ Release(p)
             \/ IoError(p) \/ Crash(p)
      PROVE  UNCHANGED Atomic!vars
  BY <1>3 DEF Acquire, Start, TimeOut, Open, Observe, Probe, Reread,
              ReclaimUnlink, Record, RecordFails, Cleanup, CleanupUnlink,
              ReadMeta, BodyFails, Release, Close, ReadBack, ReleaseUnlink,
              IoError, Crash, Atomic!vars
<1>4. CASE UNCHANGED vars BY <1>4 DEF vars, Atomic!vars
<1>. QED BY <1>1, <1>2, <1>3, <1>4 DEF Next, Update

\* updateMeta is atomic: the lock, with all its steps, implements an update
\* of one step, on top of every update committed before it.
THEOREM UpdateIsAtomic ==
  ASSUME MayCrash = {}
  PROVE  Spec => ImplementsAtomicUpdate
<1>1. Init => Atomic!Init
  BY DEF Init, Atomic!Init
<1>. QED
  BY LockInit, LockStep, AtomicStep, <1>1, PTL
  DEF Spec, ImplementsAtomicUpdate, Atomic!Spec
-----------------------------------------------------------------------------
\* An owner that was judged dead stays dead, since no process comes back: what
\* a reclaim is about to remove is not the lock of the living process it read.
JudgedDead == \A p \in Procs :
  /\ pc[p] \in {"probe", "reread", "unlink"} => obs[p] \in Tokens
  /\ pc[p] \in {"reread", "unlink"} => Owner(obs[p]) \notin alive
JudgedInv == TypeInv /\ JudgedDead

\* Every step keeps the judgement, a crash between the reads included.
LEMMA JudgedStep == JudgedInv /\ [Next]_vars => JudgedInv'
<1>. SUFFICES ASSUME JudgedInv, [Next]_vars PROVE JudgedInv'
  OBVIOUS
<1>0. TypeInv'
  BY TypeStep DEF JudgedInv
<1>. USE DEF JudgedInv, TypeInv, TypeOK, JudgedDead, At, Goto
<1>1. ASSUME NEW p \in Procs, Acquire(p) PROVE JudgedInv'
  <2>1. CASE Start(p) \/ TimeOut(p) BY <1>0, <2>1 DEF Start, TimeOut
  <2>2. CASE Open(p) BY <1>0, <2>2 DEF Open
  <2>3. CASE Observe(p) BY <1>0, <2>3 DEF Observe
  <2>4. CASE Probe(p) BY <1>0, <2>4 DEF Probe
  <2>5. CASE Reread(p) \/ ReclaimUnlink(p) BY <1>0, <2>5 DEF Reread, ReclaimUnlink
  <2>6. CASE Record(p) \/ RecordFails(p) BY <1>0, <2>6 DEF Record, RecordFails
  <2>7. CASE Cleanup(p) \/ CleanupUnlink(p) BY <1>0, <2>7 DEF Cleanup, CleanupUnlink
  <2>. QED BY <1>1, <2>1, <2>2, <2>3, <2>4, <2>5, <2>6, <2>7 DEF Acquire
<1>2. ASSUME NEW p \in Procs, Update(p) PROVE JudgedInv'
  BY <1>0, <1>2 DEF Update, ReadMeta, WriteMeta, BodyFails
<1>3. ASSUME NEW p \in Procs, Release(p) PROVE JudgedInv'
  BY <1>0, <1>3 DEF Release, Close, ReadBack, ReleaseUnlink
<1>4. ASSUME NEW p \in Procs, IoError(p) \/ Crash(p) PROVE JudgedInv'
  BY <1>0, <1>4 DEF IoError, Crash
<1>5. CASE RemoveDirectory BY <1>0, <1>5 DEF RemoveDirectory
<1>6. CASE UNCHANGED vars BY <1>0, <1>6 DEF vars
<1>. QED BY <1>1, <1>2, <1>3, <1>4, <1>5, <1>6 DEF Next

\* Who takes the file of a living process off the lock path: its owner, or a
\* process whose last look at the path showed it another acquisition.
LiveLockStays ==
  \A t \in Tokens :
    lock = t /\ lock' # t /\ Owner(t) \in alive /\ dirExists' =>
      \/ pc[Owner(t)] \in {"cleanupUnlink", "releaseUnlink"}
      \/ \E p \in alive : JudgedAnother(p, t)

\* Only three steps empty the lock path of a directory that stays.
LEMMA LiveLockStep == JudgedInv /\ [Next]_vars => LiveLockStays
<1>. SUFFICES ASSUME JudgedInv, [Next]_vars, NEW t \in Tokens,
                     lock = t, lock' # t, Owner(t) \in alive, dirExists'
              PROVE  \/ pc[Owner(t)] \in {"cleanupUnlink", "releaseUnlink"}
                     \/ \E p \in alive : JudgedAnother(p, t)
  BY DEF LiveLockStays
<1>0. lock # None
  BY LockAssumption
<1>1. PICK p \in Procs : ReclaimUnlink(p) \/ CleanupUnlink(p) \/ ReleaseUnlink(p)
  <2>1. ~RemoveDirectory /\ ~UNCHANGED vars
    BY DEF RemoveDirectory, vars
  <2>2. PICK p \in Procs : \/ Acquire(p) \/ Update(p) \/ Release(p)
                           \/ IoError(p) \/ Crash(p)
    BY <2>1 DEF Next
  <2>3. ~(Update(p) \/ IoError(p) \/ Crash(p))
    BY DEF Update, ReadMeta, WriteMeta, BodyFails, IoError, Crash
  <2>4. ~(Start(p) \/ TimeOut(p) \/ Open(p) \/ Observe(p) \/ Probe(p) \/ Reread(p)
          \/ Record(p) \/ RecordFails(p) \/ Cleanup(p) \/ Close(p) \/ ReadBack(p))
    BY <1>0 DEF Start, TimeOut, Open, Observe, Probe, Reread, Record, RecordFails,
                Cleanup, Close, ReadBack
  <2>. QED BY <2>2, <2>3, <2>4 DEF Acquire, Release
<1>2. CASE ReclaimUnlink(p)
  <2>1. p \in alive /\ pc[p] = "unlink" BY <1>2 DEF ReclaimUnlink, At
  <2>2. obs[p] # t BY <2>1 DEF JudgedInv, JudgedDead
  <2>. QED BY <2>1, <2>2 DEF JudgedAnother
<1>3. CASE CleanupUnlink(p) \/ ReleaseUnlink(p)
  <2>1. p \in alive /\ pc[p] \in {"cleanupUnlink", "releaseUnlink"}
    BY <1>3 DEF CleanupUnlink, ReleaseUnlink, At
  <2>2. CASE Token(p) = t BY <2>1, <2>2 DEF Token, Owner
  <2>3. CASE Token(p) # t BY <2>1, <2>3 DEF JudgedAnother
  <2>. QED BY <2>2, <2>3
<1>. QED BY <1>1, <1>2, <1>3

\* No process takes the lock of a living one, crashes of the others included,
\* but for the interval of an unlink that removes what is at the path by then.
THEOREM LiveLockIsKept == Spec => LiveLockKept
<1>1. Init => JudgedInv
  BY TypeInit DEF Init, JudgedInv, JudgedDead
<1>2. JudgedInv /\ [Next]_vars => [LiveLockStays]_vars
  BY LiveLockStep
<1>3. LiveLockKept <=> [][LiveLockStays]_vars
  BY DEF LiveLockKept, LiveLockStays
<1>. QED BY <1>1, <1>2, <1>3, JudgedStep, PTL DEF Spec
=============================================================================
