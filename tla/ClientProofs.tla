---------------------------- MODULE ClientProofs ----------------------------
(***************************************************************************)
(* Theorems about those who use a board from outside.  Before it is        *)
(* sharded: the key a board is found at, for any number of clients that    *)
(* create it, migrate it and append to it, of calls and of restores; the   *)
(* replay of the signed log of an older build, for any keys and logs of    *)
(* any length; and the threads of a board of any format, whatever the      *)
(* clocks of the clients that append to it.  In a browser: the shell, for  *)
(* any number of issues, of reads under way together, of acts of the user  *)
(* and of changes by others; the keys, for any number of tabs and of calls *)
(* under way in each; and the feed, for a log and pages of any size.       *)
(***************************************************************************)
EXTENDS SignedStore, LogReplay, BoardFormats, WebBoard, BoardSession, WebFeed, Iteration

-----------------------------------------------------------------------------
(* SignedStore *)

Op    == [kind : Kinds, by : {Root}, key : {Root}, id : Nat]
Cells == [kind : {"absent", "bootstrap", "log", "board"}, root : Initializers \cup {Root},
          ops : Seq(Op), tag : Nat]

Stages == {"idle", "post", "token", "create", "created", "failed",
           "pointer", "fetch", "verify", "migrate", "serve"}

\* What is at the key and what each client holds of it.
StoreType == /\ cell \in Cells
             /\ got \in [Everyone -> Cells]
             /\ key \in [Clients -> Initializers \cup {Root}]
             /\ pc \in [Everyone -> Stages]
             /\ cell.tag = 0 => cell = Absent
             /\ ops \in Nat

\* A tag names one object: what a client fetched is older than what is there
\* now, or is that.
Dated == \A c \in Everyone : /\ got[c].tag <= cell.tag
                             /\ got[c].tag = cell.tag => got[c] = cell

\* The log of the older build is the backup's root's.
LogIsRoots == cell.kind = "log" => cell.root = Root

\* An initializer whose bootstrap was created finds it there until it replaces
\* it itself, and from then on its board.
Mine == \A i \in Initializers :
          /\ pc[i] \in {"token", "create"} => cell.kind = "bootstrap" /\ cell.root = i
          /\ pc[i] = "created" => cell.kind = "board" /\ cell.root = i

\* A client migrates a log of the root it holds that was not deleted.
Verified == \A c \in Clients : pc[c] = "migrate" => /\ got[c].kind = "log"
                                                   /\ got[c].root = key[c]
                                                   /\ ~Replay(got[c].ops).deleted

StoreInv == StoreType /\ Dated /\ LogIsRoots /\ Mine /\ Verified

\* What one step may make of the object at the key: leave it, begin it, replace
\* the bootstrap of an initializer or the log by a pointer, or extend what is
\* there.
Begins     == cell.kind = "absent" /\ cell'.kind = "bootstrap"
Promotes   == /\ cell.kind = "bootstrap" \/ (cell.kind = "log" /\ ~Replay(cell.ops).deleted)
              /\ cell'.kind = "board"
              /\ cell.kind = "log" => cell'.ops = cell.ops
              /\ cell'.root = cell.root
Extends    == /\ cell.kind \in {"log", "board"} /\ cell'.kind = cell.kind
              /\ cell'.root = cell.root
              /\ \E op \in Op : cell'.ops = Append(cell.ops, op)
RolledBack == cell.kind \in {"log", "board"} /\ cell'.kind = "log" /\ cell.root = Root /\ cell'.root = Root
Dates == cell' \in Cells /\ cell'.tag = cell.tag + 1
Changes == Dates /\ (Begins \/ Promotes \/ Extends \/ RolledBack)

-----------------------------------------------------------------------------
(* Objects and logs *)

\* An operation of the log.
LEMMA OperationType ==
  ASSUME NEW kind \in Kinds, NEW id \in Nat
  PROVE  Operation(kind, id) \in Op
BY DEF Operation, Op

\* The objects that are written.
LEMMA ReplaceType ==
  ASSUME cell \in Cells, NEW kind \in {"bootstrap", "log", "board"},
         NEW root \in Initializers \cup {Root}, NEW past \in Seq(Op), Replace(kind, root, past)
  PROVE  /\ cell' \in Cells
         /\ cell'.kind = kind /\ cell'.root = root /\ cell'.ops = past /\ cell'.tag = cell.tag + 1
<1>1. cell.tag \in Nat
  BY DEF Cells
<1>2. cell' = [kind |-> kind, root |-> root, ops |-> past, tag |-> cell.tag + 1]
  BY DEF Replace
<1>3. cell.tag + 1 \in Nat
  BY <1>1
<1>. QED BY <1>2, <1>3 DEF Cells

\* The log of a backup.
LEMMA BackupType == Backup \in Seq(Op) /\ NoLog \in Seq(Op) /\ Absent \in Cells
<1>1. Operation("initialize", 1) \in Op
  BY OperationType DEF Kinds
<1>2. Backup \in Seq(Op)
  BY <1>1 DEF Backup
<1>3. NoLog \in Seq(Op)
  BY DEF NoLog
<1>. QED BY <1>2, <1>3 DEF Absent, Cells

\* A log is a prefix of itself and of itself with one operation more.
LEMMA PrefixOfAppend ==
  ASSUME NEW S, NEW s \in Seq(S), NEW x \in S
  PROVE  IsPrefix(s, s) /\ IsPrefix(s, Append(s, x))
<1>1. IsPrefix(s, s)
  BY DEF IsPrefix
<1>2. IsPrefix(s, Append(s, x))
  BY DEF IsPrefix
<1>. QED BY <1>1, <1>2

-----------------------------------------------------------------------------
(* One step *)

\* Every step that touches the key changes what is there in one of four ways.
LEMMA CellStep ==
  ASSUME StoreInv, StoreNext
  PROVE  UNCHANGED cell \/ Changes
<1>. USE DEF Changes, Dates
<1>0. /\ cell \in Cells /\ cell.ops \in Seq(Op) /\ cell.root \in Initializers \cup {Root}
      /\ cell.kind \in {"absent", "bootstrap", "log", "board"}
      /\ ops \in Nat
  BY DEF StoreInv, StoreType, Cells
<1>1. ASSUME NEW i \in Initializers, PostBootstrap(i) PROVE UNCHANGED cell \/ Changes
  <2>1. CASE cell.kind = "absent" /\ Replace("bootstrap", i, NoLog)
    BY <1>0, <2>1, ReplaceType, BackupType DEF Begins
  <2>. QED BY <1>1, <2>1 DEF PostBootstrap
<1>2. ASSUME NEW i \in Initializers, Create(i) PROVE UNCHANGED cell \/ Changes
  <2>1. CASE Replace("board", i, NoLog)
    <3>1. cell.kind = "bootstrap" /\ cell.root = i
      BY <1>2 DEF Create, StoreInv, Mine
    <3>. QED BY <1>0, <2>1, <3>1, ReplaceType, BackupType DEF Promotes
  <2>. QED BY <1>2, <2>1 DEF Create
<1>3. ASSUME NEW c \in Clients, Migrate(c) PROVE UNCHANGED cell \/ Changes
  <2>1. CASE cell.tag = got[c].tag /\ Replace("board", key[c], got[c].ops)
    <3>1. cell = got[c]
      BY <2>1 DEF StoreInv, Dated, Everyone
    <3>2. cell.kind = "log" /\ cell.root = key[c] /\ ~Replay(cell.ops).deleted
      BY <1>3, <3>1 DEF Migrate, StoreInv, Verified
    <3>. QED BY <1>0, <2>1, <3>1, <3>2, ReplaceType DEF Promotes
  <2>. QED BY <1>3, <2>1 DEF Migrate
<1>4. ASSUME NEW c \in Clients, Serve(c) PROVE UNCHANGED cell \/ Changes
  <2>1. CASE /\ cell.kind = "board"
             /\ Replace("board", cell.root, Append(cell.ops, Operation("edit", ops + 1)))
    <3>1. Operation("edit", ops + 1) \in Op
      BY <1>0, OperationType DEF Kinds
    <3>2. Append(cell.ops, Operation("edit", ops + 1)) \in Seq(Op)
      BY <1>0, <3>1
    <3>3. /\ cell' \in Cells /\ cell'.tag = cell.tag + 1
          /\ cell'.kind = "board" /\ cell'.root = cell.root
          /\ cell'.ops = Append(cell.ops, Operation("edit", ops + 1))
      BY <1>0, <2>1, <3>2, ReplaceType
    <3>. QED BY <2>1, <3>1, <3>3 DEF Extends
  <2>. QED BY <1>4, <2>1 DEF Serve
<1>5. CASE OlderBuildAppends
  <2>1. PICK kind \in {"edit", "delete"} : Replace("log", Root, Append(cell.ops, Operation(kind, ops + 1)))
    BY <1>5 DEF OlderBuildAppends
  <2>2. Operation(kind, ops + 1) \in Op
    BY <1>0, OperationType DEF Kinds
  <2>3. cell.kind = "log" /\ cell.root = Root
    BY <1>5 DEF OlderBuildAppends, StoreInv, LogIsRoots
  <2>4. Append(cell.ops, Operation(kind, ops + 1)) \in Seq(Op)
    BY <1>0, <2>2
  <2>5. /\ cell' \in Cells /\ cell'.tag = cell.tag + 1
        /\ cell'.kind = "log" /\ cell'.root = Root
        /\ cell'.ops = Append(cell.ops, Operation(kind, ops + 1))
    BY <1>0, <2>1, <2>4, ReplaceType
  <2>. QED BY <2>2, <2>3, <2>5 DEF Extends
<1>6. CASE Restore
  <2>1. cell.root = Root /\ cell.kind \in {"log", "board"} /\ Replace("log", Root, Backup)
    BY <1>6 DEF Restore
  <2>. QED BY <1>0, <2>1, ReplaceType, BackupType DEF RolledBack
<1>7. ASSUME NEW i \in Initializers, CheckAbsent(i) \/ Token(i) PROVE UNCHANGED cell \/ Changes
  BY <1>7 DEF CheckAbsent, Token
<1>8. ASSUME NEW c \in Clients, BeginCall(c) \/ Pointer(c) \/ Fetch(c) \/ VerifyLog(c)
      PROVE UNCHANGED cell \/ Changes
  BY <1>8 DEF BeginCall, Pointer, Fetch, VerifyLog
<1>. QED BY <1>1, <1>2, <1>3, <1>4, <1>5, <1>6, <1>7, <1>8 DEF StoreNext, Initializes, Calls

\* What a client holds is what it held, what is there now, or nothing.
LEMMA GotStep ==
  ASSUME StoreInv, StoreNext
  PROVE  /\ got' \in [Everyone -> Cells]
         /\ \A c \in Everyone : \/ got'[c] = got[c]
                                \/ got'[c] = Absent
                                \/ got'[c] = cell /\ UNCHANGED cell
<1>0. got \in [Everyone -> Cells] /\ cell \in Cells /\ Absent \in Cells
  BY BackupType DEF StoreInv, StoreType
<1>1. \/ UNCHANGED got
      \/ \E c \in Everyone : got' = [got EXCEPT ![c] = Absent]
      \/ UNCHANGED cell /\ \E c \in Everyone : got' = [got EXCEPT ![c] = cell]
  <2>1. ASSUME NEW i \in Initializers, Initializes(i)
        PROVE  \/ UNCHANGED got
               \/ UNCHANGED cell /\ got' = [got EXCEPT ![i] = cell]
    BY <2>1 DEF Initializes, CheckAbsent, PostBootstrap, Token, Create
  <2>2. ASSUME NEW c \in Clients, Calls(c)
        PROVE  \/ UNCHANGED got
               \/ got' = [got EXCEPT ![c] = Absent]
               \/ UNCHANGED cell /\ got' = [got EXCEPT ![c] = cell]
    BY <2>2 DEF Calls, BeginCall, Pointer, Fetch, VerifyLog, Migrate, Serve, Return
  <2>3. CASE OlderBuildAppends \/ Restore
    BY <2>3 DEF OlderBuildAppends, Restore
  <2>. QED BY <2>1, <2>2, <2>3 DEF StoreNext, Everyone
<1>. QED BY <1>0, <1>1

\* Where each client is, and which root it holds.
LEMMA PlaceStep ==
  ASSUME StoreInv, StoreNext
  PROVE  /\ pc' \in [Everyone -> Stages]
         /\ key' \in [Clients -> Initializers \cup {Root}]
         /\ ops' \in Nat
<1>. USE DEF StoreInv, StoreType, Stages, Goto, Everyone, callVars, worldVars, kept
<1>1. ASSUME NEW i \in Initializers, Initializes(i)
      PROVE  pc' \in [Everyone -> Stages] /\ UNCHANGED <<key, ops>>
  BY <1>1 DEF Initializes, CheckAbsent, PostBootstrap, Token, Create
<1>2. ASSUME NEW c \in Clients, Calls(c)
      PROVE  /\ pc' \in [Everyone -> Stages]
             /\ UNCHANGED key \/ \E i \in Initializers : key' = [key EXCEPT ![c] = i]
             /\ ops' \in {ops, ops + 1}
  <2>1. CASE BeginCall(c) BY <2>1 DEF BeginCall
  <2>2. CASE Pointer(c) BY <2>2 DEF Pointer
  <2>3. CASE Fetch(c) BY <2>3 DEF Fetch, Return
  <2>4. CASE VerifyLog(c) BY <2>4 DEF VerifyLog, Return
  <2>5. CASE Migrate(c) BY <2>5 DEF Migrate, Return
  <2>6. CASE Serve(c) BY <2>6 DEF Serve, Return
  <2>. QED BY <1>2, <2>1, <2>2, <2>3, <2>4, <2>5, <2>6 DEF Calls
<1>3. CASE OlderBuildAppends \/ Restore
  BY <1>3 DEF OlderBuildAppends, Restore
<1>. QED BY <1>1, <1>2, <1>3 DEF StoreNext

\* An initializer moves on only past its own bootstrap and its own pointer.
LEMMA MineStep ==
  ASSUME StoreInv, StoreNext
  PROVE  Mine'
<1>. USE StoreAssumption DEF Everyone
<1>0. /\ pc \in [Everyone -> Stages] /\ cell.root \in Initializers \cup {Root}
      /\ UNCHANGED cell \/ Changes
  BY CellStep DEF StoreInv, StoreType, Cells
<1>1. ASSUME NEW i \in Initializers, UNCHANGED <<cell, pc>>
      PROVE  Mine'
  BY <1>1 DEF StoreInv, Mine
<1>2. ASSUME NEW i \in Initializers, Initializes(i)
      PROVE  Mine'
  <2>1. CASE CheckAbsent(i) BY <1>0, <2>1 DEF CheckAbsent, StoreInv, Mine, Goto
  <2>2. CASE PostBootstrap(i)
    <3>1. CASE cell.kind = "absent" /\ Replace("bootstrap", i, NoLog)
      <4>1. cell'.kind = "bootstrap" /\ cell'.root = i
        BY <3>1, ReplaceType, BackupType DEF StoreInv, StoreType
      <4>2. \A j \in Initializers \ {i} : pc'[j] = pc[j]
        BY <1>0, <2>2 DEF PostBootstrap, Goto
      <4>3. \A j \in Initializers : pc[j] \notin {"token", "create", "created"}
        BY <3>1 DEF StoreInv, Mine
      <4>4. pc'[i] \in {"token", "failed"}
        BY <1>0, <2>2, <3>1 DEF PostBootstrap, Goto
      <4>. QED BY <4>1, <4>2, <4>3, <4>4 DEF Mine
    <3>2. CASE UNCHANGED cell /\ Goto(i, "idle")
      BY <1>0, <3>2 DEF StoreInv, Mine, Goto
    <3>. QED BY <2>2, <3>1, <3>2 DEF PostBootstrap
  <2>3. CASE Token(i) BY <1>0, <2>3 DEF Token, StoreInv, Mine, Goto
  <2>4. CASE Create(i)
    <3>0. /\ cell.kind = "bootstrap" /\ cell.root = i
          /\ \A j \in Initializers \ {i} : /\ pc'[j] = pc[j]
                                           /\ pc[j] \notin {"token", "create", "created"}
      BY <1>0, <2>4 DEF Create, StoreInv, Mine, Goto
    <3>1. CASE Replace("board", i, NoLog)
      <4>1. cell'.kind = "board" /\ cell'.root = i
        BY <3>1, ReplaceType, BackupType DEF StoreInv, StoreType
      <4>2. pc'[i] \in {"created", "failed"}
        BY <1>0, <2>4 DEF Create, Goto
      <4>. QED BY <3>0, <4>1, <4>2 DEF Mine
    <3>2. CASE UNCHANGED cell /\ Goto(i, "failed")
      BY <1>0, <3>0, <3>2 DEF Mine, Goto
    <3>. QED BY <2>4, <3>1, <3>2 DEF Create
  <2>. QED BY <1>2, <2>1, <2>2, <2>3, <2>4 DEF Initializes
<1>3. ASSUME \A i \in Initializers : pc'[i] = pc[i],
             UNCHANGED cell \/ cell.kind \in {"log", "board"}
      PROVE  Mine'
  <2>1. CASE UNCHANGED cell BY <1>3, <2>1 DEF StoreInv, Mine
  <2>2. CASE cell.kind = "log" BY <1>3, <2>2, <1>0 DEF StoreInv, Mine
  <2>3. CASE cell.kind = "board" /\ Changes
    BY <1>3, <2>3 DEF StoreInv, Mine, Changes, Begins, Promotes, Extends, RolledBack
  <2>. QED BY <1>0, <1>3, <2>1, <2>2, <2>3
<1>4. ASSUME NEW c \in Clients, Calls(c)
      PROVE  Mine'
  <2>1. \A i \in Initializers : pc'[i] = pc[i]
    BY <1>0, <1>4 DEF Calls, BeginCall, Pointer, Fetch, VerifyLog, Migrate, Serve, Return, Goto
  <2>2. UNCHANGED cell \/ cell.kind \in {"log", "board"}
    <3>1. CASE Migrate(c) /\ cell.tag = got[c].tag
      BY <3>1 DEF Migrate, StoreInv, Dated, Verified
    <3>2. CASE Migrate(c) /\ cell.tag # got[c].tag
      BY <3>2 DEF Migrate
    <3>3. CASE Serve(c)
      BY <3>3 DEF Serve
    <3>. QED BY <1>4, <3>1, <3>2, <3>3 DEF Calls, BeginCall, Pointer, Fetch, VerifyLog
  <2>. QED BY <1>3, <2>1, <2>2
<1>5. CASE OlderBuildAppends \/ Restore
  <2>1. UNCHANGED pc /\ cell.kind \in {"log", "board"}
    BY <1>5 DEF OlderBuildAppends, Restore
  <2>. QED BY <1>3, <2>1
<1>. QED BY <1>2, <1>4, <1>5 DEF StoreNext

\* A client comes to migrate only what it has verified, and holds it meanwhile.
LEMMA VerifiedStep ==
  ASSUME StoreInv, StoreNext
  PROVE  Verified'
<1>. USE StoreAssumption DEF Everyone
<1>0. pc \in [Everyone -> Stages] /\ got \in [Everyone -> Cells]
  BY DEF StoreInv, StoreType
<1>1. ASSUME NEW i \in Initializers, Initializes(i)
      PROVE  Verified'
  <2>1. \A c \in Clients : pc'[c] = pc[c] /\ got'[c] = got[c]
    BY <1>0, <1>1 DEF Initializes, CheckAbsent, PostBootstrap, Token, Create, Goto
  <2>2. UNCHANGED key
    BY <1>1 DEF Initializes, CheckAbsent, PostBootstrap, Token, Create, callVars
  <2>. QED BY <2>1, <2>2 DEF StoreInv, Verified
<1>2. ASSUME NEW c \in Clients, Calls(c)
      PROVE  Verified'
  <2>1. \A d \in Clients \ {c} : pc'[d] = pc[d] /\ got'[d] = got[d] /\ key'[d] = key[d]
    <3>1. UNCHANGED key \/ \E i \in Initializers : key' = [key EXCEPT ![c] = i]
      BY <1>2 DEF Calls, BeginCall, Pointer, Fetch, VerifyLog, Migrate, Serve, callVars, kept
    <3>2. \A d \in Clients \ {c} : key'[d] = key[d]
      BY <3>1 DEF StoreInv, StoreType
    <3>3. \A d \in Clients \ {c} : pc'[d] = pc[d] /\ got'[d] = got[d]
      BY <1>0, <1>2 DEF Calls, BeginCall, Pointer, Fetch, VerifyLog, Migrate, Serve, Return, Goto
    <3>. QED BY <3>2, <3>3
  <2>2. pc'[c] = "migrate" => VerifyLog(c) /\ Trusts(c) /\ UNCHANGED <<got, key>>
    <3>1. CASE VerifyLog(c)
      BY <1>0, <3>1 DEF VerifyLog, Return, Goto, kept
    <3>2. CASE BeginCall(c) \/ Pointer(c) \/ Fetch(c) \/ Migrate(c) \/ Serve(c)
      BY <1>0, <3>2 DEF BeginCall, Pointer, Fetch, Migrate, Serve, Return, Goto
    <3>. QED BY <1>2, <3>1, <3>2 DEF Calls
  <2>. QED BY <2>1, <2>2 DEF StoreInv, Verified, Trusts
<1>3. CASE OlderBuildAppends \/ Restore
  BY <1>3 DEF OlderBuildAppends, Restore, callVars, StoreInv, Verified
<1>. QED BY <1>1, <1>2, <1>3 DEF StoreNext

\* A step keeps the invariant.
LEMMA StoreStep == StoreInv /\ [StoreNext]_storeVars => StoreInv'
<1>1. ASSUME StoreInv, StoreNext PROVE StoreInv'
  <2>1. UNCHANGED cell \/ Changes BY <1>1, CellStep
  <2>2. cell \in Cells /\ cell.tag \in Nat BY <1>1 DEF StoreInv, StoreType, Cells
  <2>3. cell' \in Cells /\ (cell'.tag = 0 => cell' = Absent)
    BY <1>1, <2>1, <2>2 DEF StoreInv, StoreType, Changes, Dates
  <2>4. StoreType'
    BY <1>1, <2>3, GotStep, PlaceStep DEF StoreType
  <2>5. Dated'
    <3>. SUFFICES ASSUME NEW c \in Everyone
                  PROVE  got'[c].tag <= cell'.tag /\ (got'[c].tag = cell'.tag => got'[c] = cell')
      BY DEF Dated
    <3>1. got[c].tag <= cell.tag /\ (got[c].tag = cell.tag => got[c] = cell) /\ got[c].tag \in Nat
      BY <1>1 DEF StoreInv, StoreType, Dated, Cells
    <3>2. CASE got'[c] = got[c]
      BY <2>1, <2>2, <3>1, <3>2 DEF Changes, Dates
    <3>3. CASE got'[c] = Absent
      <4>1. Absent.tag = 0 BY DEF Absent
      <4>2. cell'.tag \in Nat BY <2>3 DEF Cells
      <4>. QED BY <2>3, <3>3, <4>1, <4>2
    <3>4. CASE got'[c] = cell /\ UNCHANGED cell
      BY <2>2, <3>4
    <3>. QED BY <1>1, <3>2, <3>3, <3>4, GotStep
  <2>6. LogIsRoots'
    BY <1>1, <2>1 DEF StoreInv, LogIsRoots, Changes, Begins, Promotes, Extends, RolledBack
  <2>. QED BY <1>1, <2>4, <2>5, <2>6, MineStep, VerifiedStep DEF StoreInv
<1>2. ASSUME StoreInv, UNCHANGED storeVars PROVE StoreInv'
  BY <1>2 DEF storeVars, StoreInv, StoreType, Dated, LogIsRoots, Mine, Verified
<1>. QED BY <1>1, <1>2

\* An absent board, or one of the older build, with every client idle.
LEMMA StoreInitially == StoreInit => StoreInv
<1>. SUFFICES ASSUME StoreInit PROVE StoreInv
  OBVIOUS
<1>1. cell \in {Absent, Legacy(Backup, 1)}
  BY DEF StoreInit
<1>2. /\ Absent.tag = 0 /\ Absent.kind = "absent"
      /\ Legacy(Backup, 1).tag = 1 /\ Legacy(Backup, 1).kind = "log" /\ Legacy(Backup, 1).root = Root
  BY DEF Absent, Legacy
<1>3. cell \in Cells
  BY <1>1, BackupType DEF Legacy, Cells
<1>4. pc = [c \in Everyone |-> "idle"] /\ got = [c \in Everyone |-> Absent]
  BY DEF StoreInit
<1>5. StoreType
  BY <1>1, <1>2, <1>3, <1>4, BackupType DEF StoreInit, StoreType, Stages
<1>6. Dated
  BY <1>1, <1>2, <1>4 DEF Dated
<1>7. LogIsRoots
  BY <1>1, <1>2 DEF LogIsRoots
<1>8. Mine /\ Verified
  BY <1>4 DEF Mine, Verified, Everyone
<1>. QED BY <1>5, <1>6, <1>7, <1>8 DEF StoreInv

-----------------------------------------------------------------------------
\* A board has one trust root for ever, whoever creates, migrates, restores or
\* appends to it, and the credential an initializer returns opens it.
THEOREM TrustRootIsFixed == StoreSpec => OneTrustRoot
<1>1. ASSUME StoreInv, StoreNext
      PROVE  /\ cell.kind # "absent" => cell'.root = cell.root
             /\ \A i \in Initializers : pc'[i] = "created" => cell'.kind = "board" /\ cell'.root = i
  <2>1. StoreInv' BY <1>1, StoreStep
  <2>2. UNCHANGED cell \/ Changes BY <1>1, CellStep
  <2>. QED BY <2>1, <2>2 DEF StoreInv, Mine, Changes, Begins, Promotes, Extends, RolledBack
<1>2. ASSUME StoreInv, [StoreNext]_storeVars
      PROVE  [/\ cell.kind # "absent" => cell'.root = cell.root
              /\ \A i \in Initializers : pc'[i] = "created" => cell'.kind = "board" /\ cell'.root = i]_storeVars
  BY <1>1, <1>2
<1>. QED BY StoreInitially, StoreStep, <1>2, PTL DEF StoreSpec, OneTrustRoot

\* A migration loses nothing: the pointer replaces the log it was made from,
\* and a sharded board only ever grows.
THEOREM MigrationIsWhole == StoreSpec => MigratedWhole
<1>1. ASSUME StoreInv, StoreNext, cell'.kind = "board"
      PROVE  /\ cell.kind = "log" => cell'.ops = cell.ops /\ ~Replay(cell.ops).deleted
             /\ cell.kind = "board" => IsPrefix(cell.ops, cell'.ops)
  <2>1. UNCHANGED cell \/ Changes BY <1>1, CellStep
  <2>2. cell.ops \in Seq(Op) BY <1>1 DEF StoreInv, StoreType, Cells
  <2>3. cell.kind = "log" => cell'.ops = cell.ops /\ ~Replay(cell.ops).deleted
    BY <1>1, <2>1 DEF Changes, Begins, Promotes, Extends, RolledBack
  <2>4. cell.kind = "board" => IsPrefix(cell.ops, cell'.ops)
    <3>1. CASE UNCHANGED cell
      <4>1. Operation("edit", 1) \in Op
        BY OperationType DEF Kinds
      <4>. QED BY <2>2, <3>1, <4>1, PrefixOfAppend
    <3>2. CASE \E op \in Op : cell'.ops = Append(cell.ops, op)
      BY <2>2, <3>2, PrefixOfAppend
    <3>. QED BY <1>1, <2>1, <3>1, <3>2 DEF Changes, Begins, Promotes, Extends, RolledBack
  <2>. QED BY <2>3, <2>4
<1>2. ASSUME StoreInv, [StoreNext]_storeVars
      PROVE  [cell'.kind = "board" =>
                /\ cell.kind = "log" => cell'.ops = cell.ops /\ ~Replay(cell.ops).deleted
                /\ cell.kind = "board" => IsPrefix(cell.ops, cell'.ops)]_storeVars
  BY <1>1, <1>2
<1>. QED BY StoreInitially, StoreStep, <1>2, PTL DEF StoreSpec, MigratedWhole
-----------------------------------------------------------------------------
(* The history a client has accepted *)

\* Every log there is: the one at the key, the backup, what a client holds of
\* the key and what it has accepted.
Logs == {cell.ops, Backup, NoLog} \cup {got[c].ops : c \in Everyone}
          \cup {accepted[c] : c \in Clients}

\* Logs that hold one operation hold the same ones up to it, so that a head
\* stands for a whole history: an operation is written once, after the others.
Agree(s, t) == \A m \in 1..Len(s), n \in 1..Len(t) :
                 s[m].id = t[n].id => m = n /\ \A k \in 1..m : s[k] = t[k]
Chronicle(logs, last) ==
  /\ \A past \in logs : past \in Seq(Op) /\ \A n \in 1..Len(past) : past[n].id \in 1..last
  /\ \A s, t \in logs : Agree(s, t)

\* The head of a log, as a client remembers it.
HeadOf(past)    == IF past = NoLog THEN 0 ELSE Head_(past)
Holds(past, id) == id = 0 \/ \E n \in 1..Len(past) : past[n].id = id

\* Where the head a call began with is still to be looked for.
Reading == {"pointer", "fetch", "verify", "migrate"}

AcceptedType == /\ accepted \in [Clients -> Seq(Op)]
                /\ remembered \in [Clients -> Nat]
                /\ floor \in [Clients -> Nat]

\* BoardApi remembers the head of what it accepted last ...
Remembers == \A c \in Clients : remembered[c] = HeadOf(accepted[c])

\* ... and a log that has the head the call asks for has all of it.
Floors == \A c \in Clients : pc[c] \in Reading =>
            /\ floor[c] <= ops
            /\ \A past \in Logs : Holds(past, floor[c]) => IsPrefix(accepted[c], past)
            /\ pc[c] = "migrate" => got[c].ops # NoLog /\ Holds(got[c].ops, floor[c])

RollInv == /\ StoreInv
           /\ AcceptedType
           /\ Chronicle(Logs, ops)
           /\ Remembers
           /\ Floors

\* The head of a log is the operation appended last.
LEMMA HeadOfAppend ==
  ASSUME NEW past \in Seq(Op), NEW op \in Op
  PROVE  Append(past, op) # NoLog /\ Head_(Append(past, op)) = op.id
<1>1. /\ Len(Append(past, op)) = Len(past) + 1 /\ Len(past) \in Nat
      /\ Append(past, op)[Len(past) + 1] = op
  OBVIOUS
<1>2. Len(NoLog) = 0
  BY DEF NoLog
<1>. QED BY <1>1, <1>2 DEF Head_

\* The head of a log is the identity of an operation.
LEMMA HeadType ==
  ASSUME NEW past \in Seq(Op)
  PROVE  HeadOf(past) \in Nat /\ (past # NoLog => HeadOf(past) = Head_(past))
<1>1. CASE past # NoLog
  <2>1. past[Len(past)] \in Op
    BY <1>1 DEF NoLog
  <2>2. past[Len(past)].id \in Nat
    BY <2>1 DEF Op
  <2>. QED BY <1>1, <2>2 DEF HeadOf, Head_
<1>. QED BY <1>1 DEF HeadOf

\* A log that holds the head of another has the other as a prefix.
LEMMA HeadIsHistory ==
  ASSUME NEW s \in Seq(Op), NEW t \in Seq(Op), Agree(s, t), s # NoLog,
         NEW n \in 1..Len(t), t[n].id = Head_(s)
  PROVE  IsPrefix(s, t)
<1>1. Len(s) \in 1..Len(s)
  BY DEF NoLog
<1>2. Len(s) = n /\ \A k \in 1..Len(s) : s[k] = t[k]
  BY <1>1 DEF Agree, Head_
<1>3. Len(s) <= Len(t)
  BY <1>2
<1>4. SubSeq(s, 1, Len(s)) = SubSeq(t, 1, Len(s))
  BY <1>2, <1>3
<1>. QED BY <1>3, <1>4 DEF IsPrefix

\* A prefix of a prefix.
LEMMA PrefixOfPrefix ==
  ASSUME NEW s \in Seq(Op), NEW t \in Seq(Op), NEW u \in Seq(Op),
         IsPrefix(s, t), IsPrefix(t, u)
  PROVE  IsPrefix(s, u)
<1>1. Len(s) <= Len(t) /\ Len(t) <= Len(u)
  BY DEF IsPrefix
<1>2. \A k \in 1..Len(s) : s[k] = t[k]
  <2>1. \A k \in 1..Len(s) : SubSeq(s, 1, Len(s))[k] = s[k] /\ SubSeq(t, 1, Len(s))[k] = t[k]
    BY <1>1
  <2>. QED BY <2>1 DEF IsPrefix
<1>3. \A k \in 1..Len(t) : t[k] = u[k]
  <2>1. \A k \in 1..Len(t) : SubSeq(t, 1, Len(t))[k] = t[k] /\ SubSeq(u, 1, Len(t))[k] = u[k]
    BY <1>1
  <2>. QED BY <2>1 DEF IsPrefix
<1>4. Len(s) <= Len(u) /\ \A k \in 1..Len(s) : s[k] = u[k]
  BY <1>1, <1>2, <1>3
<1>5. SubSeq(s, 1, Len(s)) = SubSeq(u, 1, Len(s))
  BY <1>4
<1>. QED BY <1>4, <1>5 DEF IsPrefix

\* The empty log is a prefix of every log.
LEMMA NothingIsPrefix ==
  ASSUME NEW s \in Seq(Op)
  PROVE  IsPrefix(NoLog, s)
<1>1. Len(NoLog) = 0 /\ Len(NoLog) <= Len(s)
  BY DEF NoLog
<1>2. SubSeq(NoLog, 1, 0) = << >> /\ SubSeq(s, 1, 0) = << >>
  BY DEF NoLog
<1>. QED BY <1>1, <1>2 DEF IsPrefix

\* An operation of its own identity, written after a log, keeps the chronicle.
LEMMA ChronicleGrows ==
  ASSUME NEW logs, NEW last \in Nat, Chronicle(logs, last),
         NEW past \in logs, NEW op \in Op, op.id = last + 1,
         NEW more, more \subseteq logs \cup {Append(past, op)}
  PROVE  Chronicle(more, last + 1)
<1>. DEFINE new == Append(past, op)
<1>1. /\ past \in Seq(Op) /\ new \in Seq(Op) /\ Len(new) = Len(past) + 1
      /\ \A n \in 1..Len(past) : new[n] = past[n]
      /\ new[Len(past) + 1].id = last + 1
  BY DEF Chronicle
<1>2. \A s \in more : s \in Seq(Op) /\ \A n \in 1..Len(s) : s[n].id \in 1..(last + 1)
  <2>1. \A n \in 1..Len(new) : new[n].id \in 1..(last + 1)
    <3>1. \A n \in 1..Len(past) : new[n].id \in 1..last
      BY <1>1 DEF Chronicle
    <3>. QED BY <1>1, <3>1
  <2>2. \A s \in logs : s \in Seq(Op) /\ \A n \in 1..Len(s) : s[n].id \in 1..(last + 1)
    BY DEF Chronicle
  <2>. QED BY <1>1, <2>1, <2>2
<1>3. ASSUME NEW s \in logs PROVE Agree(s, new) /\ Agree(new, s)
  <2>1. /\ s \in Seq(Op)
        /\ \A m \in 1..Len(s) : s[m].id \in 1..last
        /\ Agree(s, past) /\ Agree(past, s)
    BY DEF Chronicle
  <2>2. ASSUME NEW m \in 1..Len(s), NEW n \in 1..Len(new), s[m].id = new[n].id
        PROVE  m = n /\ \A k \in 1..m : s[k] = new[k]
    <3>1. n # Len(past) + 1 BY <1>1, <2>1, <2>2
    <3>2. n \in 1..Len(past) /\ new[n] = past[n] BY <1>1, <3>1
    <3>3. m = n /\ \A k \in 1..m : s[k] = past[k] BY <2>1, <2>2, <3>2 DEF Agree
    <3>. QED BY <1>1, <3>2, <3>3
  <2>. QED BY <2>2 DEF Agree
<1>4. Agree(new, new)
  <2>1. ASSUME NEW m \in 1..Len(new), NEW n \in 1..Len(new), new[m].id = new[n].id PROVE m = n
    <3>1. CASE m = Len(past) + 1 \/ n = Len(past) + 1
      BY <1>1, <2>1, <3>1 DEF Chronicle
    <3>2. CASE m \in 1..Len(past) /\ n \in 1..Len(past)
      BY <1>1, <2>1, <3>2 DEF Chronicle, Agree
    <3>. QED BY <1>1, <3>1, <3>2
  <2>. QED BY <2>1 DEF Agree
<1>5. \A s, t \in more : Agree(s, t)
  BY <1>3, <1>4 DEF Chronicle
<1>. QED BY <1>2, <1>5 DEF Chronicle

\* What a step writes is an operation of its own identity after the log there.
Appends == /\ ops' = ops + 1
           /\ \E op \in Op : op.id = ops + 1 /\ cell'.ops = Append(cell.ops, op)
Keeps   == ops' = ops /\ cell'.ops \in Logs

\* The log at the key is one there was, or that with one operation more.
LEMMA WriteStep ==
  ASSUME RollInv, StoreNext
  PROVE  Appends \/ Keeps
<1>0. /\ cell \in Cells /\ cell.ops \in Seq(Op) /\ ops \in Nat /\ ops + 1 \in Nat
      /\ cell.root \in Initializers \cup {Root}
      /\ cell.ops \in Logs /\ Backup \in Logs /\ NoLog \in Logs
      /\ \A c \in Everyone : got[c].ops \in Logs /\ got[c].ops \in Seq(Op)
      /\ key \in [Clients -> Initializers \cup {Root}]
  BY DEF RollInv, StoreInv, StoreType, Cells, Logs
<1>1. ASSUME NEW i \in Initializers, Initializes(i) PROVE Keeps
  <2>1. ops' = ops
    BY <1>1 DEF Initializes, CheckAbsent, PostBootstrap, Token, Create, worldVars
  <2>2. UNCHANGED cell \/ \E kind \in {"bootstrap", "board"} : Replace(kind, i, NoLog)
    BY <1>1 DEF Initializes, CheckAbsent, PostBootstrap, Token, Create
  <2>. QED BY <1>0, <2>1, <2>2, ReplaceType, BackupType DEF Keeps
<1>2. ASSUME NEW c \in Clients, Migrate(c) PROVE Keeps
  <2>1. ops' = ops BY <1>2 DEF Migrate, worldVars
  <2>2. UNCHANGED cell \/ Replace("board", key[c], got[c].ops) BY <1>2 DEF Migrate
  <2>. QED BY <1>0, <2>1, <2>2, ReplaceType DEF Keeps, Everyone
<1>3. ASSUME NEW c \in Clients, Serve(c) PROVE Appends \/ Keeps
  <2>1. CASE UNCHANGED <<cell, ops>> BY <1>0, <2>1 DEF Keeps
  <2>2. CASE /\ ops' = ops + 1
             /\ Replace("board", cell.root, Append(cell.ops, Operation("edit", ops + 1)))
    <3>1. Operation("edit", ops + 1) \in Op /\ Operation("edit", ops + 1).id = ops + 1
      BY <1>0, OperationType DEF Kinds, Operation
    <3>2. Append(cell.ops, Operation("edit", ops + 1)) \in Seq(Op)
      BY <1>0, <3>1
    <3>3. cell'.ops = Append(cell.ops, Operation("edit", ops + 1))
      BY <1>0, <2>2, <3>2, ReplaceType
    <3>. QED BY <2>2, <3>1, <3>3 DEF Appends
  <2>. QED BY <1>3, <2>1, <2>2 DEF Serve
<1>4. CASE OlderBuildAppends
  <2>1. PICK kind \in {"edit", "delete"} :
            Replace("log", Root, Append(cell.ops, Operation(kind, ops + 1)))
    BY <1>4 DEF OlderBuildAppends
  <2>2. Operation(kind, ops + 1) \in Op /\ Operation(kind, ops + 1).id = ops + 1
    BY <1>0, OperationType DEF Kinds, Operation
  <2>3. Append(cell.ops, Operation(kind, ops + 1)) \in Seq(Op)
    BY <1>0, <2>2
  <2>4. cell'.ops = Append(cell.ops, Operation(kind, ops + 1))
    BY <1>0, <2>1, <2>3, ReplaceType
  <2>. QED BY <1>4, <2>2, <2>4 DEF OlderBuildAppends, Appends
<1>5. CASE Restore
  <2>1. ops' = ops /\ Replace("log", Root, Backup) BY <1>5 DEF Restore
  <2>. QED BY <1>0, <2>1, ReplaceType, BackupType DEF Keeps
<1>6. ASSUME NEW c \in Clients, BeginCall(c) \/ Pointer(c) \/ Fetch(c) \/ VerifyLog(c) PROVE Keeps
  BY <1>0, <1>6 DEF BeginCall, Pointer, Fetch, VerifyLog, worldVars, Keeps
<1>. QED BY <1>1, <1>2, <1>3, <1>4, <1>5, <1>6 DEF StoreNext, Calls

\* A client accepts what it holds, or what is at the key afterwards, with its
\* head; nobody else does then.
AcceptsOne == \E c \in Clients : \E past \in {got[c].ops, cell'.ops} : Accept(c, past, HeadOf(past))
LEMMA AcceptStep ==
  ASSUME RollInv, StoreNext
  PROVE  UNCHANGED <<accepted, remembered>> \/ AcceptsOne
<1>0. /\ accepted \in [Clients -> Seq(Op)] /\ remembered \in [Clients -> Nat]
      /\ cell.ops \in Seq(Op) /\ ops \in Nat /\ cell \in Cells /\ cell.root \in Initializers \cup {Root}
  BY DEF RollInv, AcceptedType, StoreInv, StoreType, Cells
<1>4. ASSUME NEW d \in Clients, Migrate(d)
      PROVE  UNCHANGED <<accepted, remembered>> \/ Accept(d, got[d].ops, HeadOf(got[d].ops))
  <2>1. got[d].ops # NoLog BY <1>4 DEF Migrate, RollInv, Floors, Reading
  <2>. QED BY <1>4, <2>1 DEF Migrate, HeadOf
<1>5. ASSUME NEW d \in Clients, Serve(d)
      PROVE  UNCHANGED <<accepted, remembered>> \/ Accept(d, cell'.ops, HeadOf(cell'.ops))
  <2>1. CASE /\ UNCHANGED cell
             /\ Accept(d, cell.ops, IF cell.ops = NoLog THEN 0 ELSE Head_(cell.ops))
    BY <2>1 DEF HeadOf
  <2>2. CASE /\ Replace("board", cell.root, Append(cell.ops, Operation("edit", ops + 1)))
             /\ Accept(d, cell'.ops, ops + 1)
    <3>1. Operation("edit", ops + 1) \in Op /\ Operation("edit", ops + 1).id = ops + 1
      BY <1>0, OperationType DEF Kinds, Operation
    <3>2. Append(cell.ops, Operation("edit", ops + 1)) \in Seq(Op)
      BY <1>0, <3>1
    <3>3. cell'.ops = Append(cell.ops, Operation("edit", ops + 1))
      BY <1>0, <2>2, <3>2, ReplaceType
    <3>4. cell'.ops # NoLog /\ Head_(cell'.ops) = ops + 1
      BY <1>0, <3>1, <3>3, HeadOfAppend
    <3>. QED BY <2>2, <3>4 DEF HeadOf
  <2>. QED BY <1>5, <2>1, <2>2 DEF Serve
<1>6. ASSUME NEW d \in Clients, BeginCall(d) \/ Pointer(d) \/ Fetch(d) \/ VerifyLog(d)
      PROVE  UNCHANGED <<accepted, remembered>>
  BY <1>6 DEF BeginCall, Pointer, Fetch, VerifyLog, callVars, kept
<1>7. ASSUME NEW i \in Initializers, Initializes(i) PROVE UNCHANGED <<accepted, remembered>>
  BY <1>7 DEF Initializes, CheckAbsent, PostBootstrap, Token, Create, callVars
<1>8. CASE OlderBuildAppends \/ Restore
  BY <1>8 DEF OlderBuildAppends, Restore, callVars
<1>. QED BY <1>4, <1>5, <1>6, <1>7, <1>8 DEF StoreNext, Calls, AcceptsOne

\* The head a call asks for is the one remembered, or one just verified.
FloorOf(c) == \/ floor'[c] = floor[c]
              \/ floor'[c] = 0 /\ pc'[c] = "idle"
              \/ floor'[c] = remembered[c] /\ pc[c] = "idle"
              \/ floor'[c] = Head_(got[c].ops) /\ pc[c] = "migrate"
LEMMA FloorStep ==
  ASSUME RollInv, StoreNext
  PROVE  /\ floor' \in [Clients -> Nat]
         /\ \A c \in Clients : FloorOf(c)
<1>0. /\ floor \in [Clients -> Nat] /\ remembered \in [Clients -> Nat]
      /\ pc \in [Everyone -> Stages]
  BY DEF RollInv, AcceptedType, StoreInv, StoreType
<1>1. ASSUME UNCHANGED floor
      PROVE  floor' \in [Clients -> Nat] /\ \A c \in Clients : FloorOf(c)
  BY <1>0, <1>1 DEF FloorOf
<1>2. ASSUME NEW c \in Clients, NEW head \in Nat, floor' = [floor EXCEPT ![c] = head], FloorOf(c)
      PROVE  floor' \in [Clients -> Nat] /\ \A d \in Clients : FloorOf(d)
  <2>1. \A d \in Clients \ {c} : floor'[d] = floor[d]
    BY <1>0, <1>2
  <2>. QED BY <1>0, <1>2, <2>1 DEF FloorOf
<1>3. ASSUME NEW c \in Clients, Return(c)
      PROVE  floor' \in [Clients -> Nat] /\ \A d \in Clients : FloorOf(d)
  <2>1. pc'[c] = "idle" /\ floor'[c] = 0 BY <1>0, <1>3 DEF Return, Goto, Everyone
  <2>2. FloorOf(c) BY <2>1 DEF FloorOf
  <2>3. floor' = [floor EXCEPT ![c] = 0] BY <1>3 DEF Return
  <2>. QED BY <1>2, <2>2, <2>3
<1>4. ASSUME NEW c \in Clients, BeginCall(c)
      PROVE  floor' \in [Clients -> Nat] /\ \A d \in Clients : FloorOf(d)
  <2>1. floor' = [floor EXCEPT ![c] = remembered[c]] /\ pc[c] = "idle" BY <1>4 DEF BeginCall
  <2>2. floor'[c] = remembered[c] /\ remembered[c] \in Nat BY <1>0, <2>1
  <2>3. FloorOf(c) BY <2>1, <2>2 DEF FloorOf
  <2>. QED BY <1>2, <2>1, <2>2, <2>3
<1>5. ASSUME NEW c \in Clients, Migrate(c)
      PROVE  floor' \in [Clients -> Nat] /\ \A d \in Clients : FloorOf(d)
  <2>1. got[c].ops # NoLog /\ got[c].ops \in Seq(Op)
    BY <1>5 DEF Migrate, RollInv, Floors, Reading, StoreInv, StoreType, Cells, Everyone
  <2>2. Head_(got[c].ops) \in Nat
    BY <2>1, HeadType
  <2>3. CASE floor' = [floor EXCEPT ![c] = Head_(got[c].ops)]
    <3>1. floor'[c] = Head_(got[c].ops) /\ pc[c] = "migrate" BY <1>0, <1>5, <2>3 DEF Migrate
    <3>2. FloorOf(c) BY <3>1 DEF FloorOf
    <3>. QED BY <1>2, <2>2, <2>3, <3>2
  <2>4. CASE UNCHANGED floor \/ Return(c) BY <1>1, <1>3, <2>4
  <2>. QED BY <1>5, <2>3, <2>4 DEF Migrate, Within
<1>6. ASSUME NEW c \in Clients, Pointer(c) \/ Fetch(c) \/ VerifyLog(c) \/ Serve(c)
      PROVE  UNCHANGED floor \/ Return(c)
  BY <1>6 DEF Pointer, Fetch, VerifyLog, Serve, callVars, Within
<1>7. ASSUME NEW i \in Initializers, Initializes(i) PROVE UNCHANGED floor
  BY <1>7 DEF Initializes, CheckAbsent, PostBootstrap, Token, Create, callVars
<1>8. CASE OlderBuildAppends \/ Restore
  BY <1>1, <1>8 DEF OlderBuildAppends, Restore, callVars
<1>. QED BY <1>1, <1>3, <1>4, <1>5, <1>6, <1>7, <1>8 DEF StoreNext, Calls

\* Every log after a step is one there was, or what the step wrote, and a head
\* that is remembered is that of what was accepted.
LEMMA LogsStep ==
  ASSUME RollInv, StoreNext
  PROVE  /\ Logs' \subseteq Logs \cup {cell'.ops}
         /\ AcceptedType' /\ Remembers'
<1>0. /\ got \in [Everyone -> Cells] /\ cell'.ops \in Seq(Op)
      /\ accepted \in [Clients -> Seq(Op)] /\ remembered \in [Clients -> Nat]
      /\ \A c \in Everyone : got[c].ops \in Logs /\ got[c].ops \in Seq(Op)
      /\ \A c \in Clients : accepted[c] \in Logs
      /\ cell.ops \in Logs /\ Backup \in Logs /\ NoLog \in Logs
  <2>1. StoreInv' BY StoreStep DEF RollInv
  <2>. QED BY <2>1 DEF RollInv, AcceptedType, StoreInv, StoreType, Cells, Logs
<1>1. \A c \in Everyone : got'[c].ops \in Logs
  <2>1. Absent.ops = NoLog BY DEF Absent
  <2>2. StoreInv BY DEF RollInv
  <2>. QED BY <1>0, <2>1, <2>2, GotStep
<1>2. /\ accepted' \in [Clients -> Seq(Op)] /\ remembered' \in [Clients -> Nat]
      /\ \A c \in Clients : /\ accepted'[c] \in Logs \cup {cell'.ops}
                            /\ remembered'[c] = HeadOf(accepted'[c])
  <2>1. CASE UNCHANGED <<accepted, remembered>>
    BY <1>0, <2>1 DEF RollInv, Remembers
  <2>2. ASSUME NEW c \in Clients, NEW past \in {got[c].ops, cell'.ops}, Accept(c, past, HeadOf(past))
        PROVE  /\ accepted' \in [Clients -> Seq(Op)] /\ remembered' \in [Clients -> Nat]
               /\ \A d \in Clients : /\ accepted'[d] \in Logs \cup {cell'.ops}
                                     /\ remembered'[d] = HeadOf(accepted'[d])
    <3>1. past \in Seq(Op) /\ past \in Logs \cup {cell'.ops}
      BY <1>0 DEF Everyone
    <3>2. HeadOf(past) \in Nat
      BY <3>1, HeadType
    <3>3. accepted' = [accepted EXCEPT ![c] = past] /\ remembered' = [remembered EXCEPT ![c] = HeadOf(past)]
      BY <2>2 DEF Accept
    <3>4. \A d \in Clients : /\ accepted'[d] = IF d = c THEN past ELSE accepted[d]
                             /\ remembered'[d] = IF d = c THEN HeadOf(past) ELSE remembered[d]
      BY <1>0, <3>3
    <3>5. accepted' \in [Clients -> Seq(Op)] /\ remembered' \in [Clients -> Nat]
      BY <1>0, <3>1, <3>2, <3>3
    <3>. QED BY <1>0, <3>1, <3>4, <3>5 DEF RollInv, Remembers
  <2>. QED BY <2>1, <2>2, AcceptStep DEF AcceptsOne
<1>3. Logs' \subseteq Logs \cup {cell'.ops}
  <2>. SUFFICES ASSUME NEW past \in Logs' PROVE past \in Logs \cup {cell'.ops}
    OBVIOUS
  <2>1. \/ past \in {cell'.ops, Backup, NoLog}
        \/ \E c \in Everyone : past = got'[c].ops
        \/ \E c \in Clients : past = accepted'[c]
    BY DEF Logs
  <2>. QED BY <1>0, <1>1, <1>2, <2>1
<1>. QED BY <1>2, <1>3, FloorStep DEF AcceptedType, Remembers
\* How a client comes to look for a head: the call goes on, begins, or reads the
\* log again; while it does, it accepts nothing.
ReadsOn(c) == /\ pc[c] \in Reading
              /\ floor'[c] = floor[c]
              /\ pc'[c] = "migrate" =>
                   /\ got'[c] = got[c]
                   /\ pc[c] = "migrate" \/ Accepted(got[c].ops, floor[c])
ReadsThrough(c)   == /\ accepted'[c] = accepted[c]
              /\ \/ ReadsOn(c)
                 \/ floor'[c] = remembered[c] /\ pc'[c] # "migrate"
                 \/ /\ pc[c] = "migrate" /\ pc'[c] # "migrate"
                    /\ floor'[c] = Head_(got[c].ops)
LEMMA ReadStep ==
  ASSUME RollInv, StoreNext, NEW c \in Clients, pc'[c] \in Reading
  PROVE  ReadsThrough(c)
<1>0. /\ floor \in [Clients -> Nat] /\ remembered \in [Clients -> Nat]
      /\ accepted \in [Clients -> Seq(Op)]
      /\ pc \in [Everyone -> Stages] /\ got \in [Everyone -> Cells]
  BY DEF RollInv, AcceptedType, StoreInv, StoreType
<1>1. ASSUME pc'[c] = pc[c], got'[c] = got[c], floor'[c] = floor[c], accepted'[c] = accepted[c]
      PROVE  ReadsThrough(c)
  BY <1>1 DEF ReadsThrough, ReadsOn
<1>2. ASSUME NEW i \in Initializers, Initializes(i) PROVE ReadsThrough(c)
  <2>1. pc'[c] = pc[c] /\ got'[c] = got[c]
    BY <1>0, <1>2, StoreAssumption
    DEF Everyone, Initializes, CheckAbsent, PostBootstrap, Token, Create, Goto
  <2>2. UNCHANGED <<floor, accepted>>
    BY <1>2 DEF Initializes, CheckAbsent, PostBootstrap, Token, Create, callVars
  <2>. QED BY <1>1, <2>1, <2>2
<1>3. ASSUME NEW d \in Clients, d # c, Calls(d) PROVE ReadsThrough(c)
  <2>1. pc'[c] = pc[c] /\ got'[c] = got[c]
    BY <1>0, <1>3
    DEF Everyone, Calls, BeginCall, Pointer, Fetch, VerifyLog, Migrate, Serve, Return, Goto
  <2>2. floor'[c] = floor[c]
    BY <1>0, <1>3
    DEF Calls, BeginCall, Pointer, Fetch, VerifyLog, Migrate, Serve, Return, Within, callVars
  <2>3. accepted'[c] = accepted[c]
    BY <1>0, <1>3
    DEF Calls, BeginCall, Pointer, Fetch, VerifyLog, Migrate, Serve, Accept, callVars, kept
  <2>. QED BY <1>1, <2>1, <2>2, <2>3
<1>4. ~Return(c)
  BY <1>0 DEF Return, Goto, Everyone, Reading
<1>5. CASE BeginCall(c)
  BY <1>0, <1>5 DEF BeginCall, Goto, Everyone, ReadsThrough
<1>6. CASE Pointer(c)
  BY <1>0, <1>6 DEF Pointer, Goto, Everyone, ReadsThrough, ReadsOn, Reading, callVars
<1>7. CASE Fetch(c)
  BY <1>0, <1>4, <1>7 DEF Fetch, Goto, Everyone, ReadsThrough, ReadsOn, Reading, Within, kept
<1>8. CASE VerifyLog(c)
  BY <1>0, <1>4, <1>8 DEF VerifyLog, Trusts, Goto, Everyone, ReadsThrough, ReadsOn, Reading, Within, kept
<1>9. CASE Migrate(c)
  BY <1>0, <1>4, <1>9 DEF Migrate, Goto, Everyone, ReadsThrough, Reading
<1>10. CASE Serve(c)
  BY <1>4, <1>10 DEF Serve
<1>11. CASE OlderBuildAppends \/ Restore
  BY <1>1, <1>11 DEF OlderBuildAppends, Restore, callVars
<1>. QED BY <1>2, <1>3, <1>5, <1>6, <1>7, <1>8, <1>9, <1>10, <1>11 DEF StoreNext, Calls

\* A head that a call looks for stands for all that the client has accepted, in
\* every log there is.
LEMMA FloorsStep ==
  ASSUME RollInv, StoreNext
  PROVE  Floors'
<1>. SUFFICES ASSUME NEW c \in Clients, pc'[c] \in Reading
              PROVE  /\ floor'[c] <= ops'
                     /\ \A past \in Logs' : Holds(past, floor'[c]) => IsPrefix(accepted'[c], past)
                     /\ pc'[c] = "migrate" => got'[c].ops # NoLog /\ Holds(got'[c].ops, floor'[c])
  BY DEF Floors
<1>0. /\ ops \in Nat /\ ops' \in {ops, ops + 1}
      /\ c \in Everyone /\ accepted[c] \in Seq(Op) /\ got[c].ops \in Seq(Op)
      /\ cell.ops \in Logs /\ accepted[c] \in Logs /\ got[c].ops \in Logs
      /\ \A past \in Logs : past \in Seq(Op) /\ \A n \in 1..Len(past) : past[n].id \in 1..ops
      /\ \A s, t \in Logs : Agree(s, t)
      /\ accepted'[c] = accepted[c]
  BY WriteStep, ReadStep
  DEF Appends, Keeps, RollInv, Chronicle, AcceptedType, StoreInv, StoreType, Cells, Everyone,
      Logs, ReadsThrough
<1>1. ASSUME NEW s \in Logs, s # NoLog
      PROVE  /\ Head_(s) \in 1..ops
             /\ \A past \in Logs : Holds(past, Head_(s)) => IsPrefix(s, past)
  <2>1. Head_(s) \in 1..ops
    <3>1. Len(s) \in 1..Len(s) BY <1>0, <1>1 DEF NoLog
    <3>. QED BY <1>0, <3>1 DEF Head_
  <2>2. ASSUME NEW past \in Logs, Holds(past, Head_(s)) PROVE IsPrefix(s, past)
    <3>1. PICK n \in 1..Len(past) : past[n].id = Head_(s) BY <2>1, <2>2 DEF Holds
    <3>. QED BY <1>0, <1>1, <3>1, HeadIsHistory
  <2>. QED BY <2>1, <2>2
<1>2. /\ floor'[c] <= ops
      /\ \A past \in Logs : Holds(past, floor'[c]) => IsPrefix(accepted[c], past)
  <2>1. CASE ReadsOn(c)
    BY <2>1 DEF ReadsOn, RollInv, Floors
  <2>2. CASE floor'[c] = remembered[c]
    <3>1. CASE accepted[c] = NoLog
      <4>1. floor'[c] = 0 BY <2>2, <3>1 DEF RollInv, Remembers, HeadOf
      <4>. QED BY <1>0, <3>1, <4>1, NothingIsPrefix
    <3>2. CASE accepted[c] # NoLog
      <4>1. floor'[c] = Head_(accepted[c]) BY <2>2, <3>2 DEF RollInv, Remembers, HeadOf
      <4>. QED BY <1>0, <1>1, <3>2, <4>1
    <3>. QED BY <3>1, <3>2
  <2>3. CASE pc[c] = "migrate" /\ floor'[c] = Head_(got[c].ops)
    <3>1. got[c].ops # NoLog /\ IsPrefix(accepted[c], got[c].ops)
      BY <1>0, <2>3 DEF RollInv, Floors, Reading
    <3>2. floor'[c] \in 1..ops /\ \A past \in Logs : Holds(past, floor'[c]) => IsPrefix(got[c].ops, past)
      BY <1>0, <1>1, <2>3, <3>1
    <3>. QED BY <1>0, <3>1, <3>2, PrefixOfPrefix
  <2>. QED BY <2>1, <2>2, <2>3, ReadStep DEF ReadsThrough
<1>3. ASSUME NEW past \in Logs', Holds(past, floor'[c]) PROVE IsPrefix(accepted[c], past)
  <2>1. CASE past \in Logs BY <1>2, <1>3, <2>1
  <2>2. CASE past = cell'.ops /\ Appends
    <3>1. PICK op \in Op : op.id = ops + 1 /\ past = Append(cell.ops, op) BY <2>2 DEF Appends
    <3>2. /\ cell.ops \in Seq(Op) /\ Len(past) = Len(cell.ops) + 1 /\ past[Len(past)].id = ops + 1
          /\ \A n \in 1..Len(cell.ops) : past[n] = cell.ops[n]
      BY <1>0, <3>1
    <3>3. Holds(cell.ops, floor'[c])
      BY <1>0, <1>2, <1>3, <3>2 DEF Holds
    <3>4. IsPrefix(accepted[c], cell.ops) /\ IsPrefix(cell.ops, past)
      BY <1>0, <1>2, <3>1, <3>3, PrefixOfAppend
    <3>5. past \in Seq(Op) BY <1>0, <3>1
    <3>. QED BY <1>0, <3>4, <3>5, PrefixOfPrefix
  <2>. QED BY <1>3, <2>1, <2>2, LogsStep, WriteStep DEF Keeps
<1>4. ASSUME pc'[c] = "migrate" PROVE got'[c].ops # NoLog /\ Holds(got'[c].ops, floor'[c])
  <2>1. ReadsOn(c) BY <1>4, ReadStep DEF ReadsThrough
  <2>2. CASE pc[c] = "migrate" BY <1>4, <2>1, <2>2 DEF ReadsOn, RollInv, Floors, Reading
  <2>3. CASE Accepted(got[c].ops, floor[c])
    <3>1. DOMAIN got[c].ops = 1..Len(got[c].ops) BY <1>0
    <3>. QED BY <1>4, <2>1, <2>3, <3>1 DEF ReadsOn, Accepted, Holds, NoLog
  <2>. QED BY <1>4, <2>1, <2>2, <2>3 DEF ReadsOn
<1>5. floor'[c] \in Nat
  BY FloorStep
<1>. QED BY <1>0, <1>2, <1>3, <1>4, <1>5

\* A step keeps the histories.
LEMMA RollStep == RollInv /\ [StoreNext]_storeVars => RollInv'
<1>1. ASSUME RollInv, StoreNext PROVE RollInv'
  <2>1. Chronicle(Logs', ops')
    <3>0. ops \in Nat /\ cell.ops \in Logs /\ Chronicle(Logs, ops)
      BY <1>1 DEF RollInv, StoreInv, StoreType, Logs
    <3>1. CASE Appends
      <4>1. PICK op \in Op : op.id = ops + 1 /\ cell'.ops = Append(cell.ops, op)
        BY <3>1 DEF Appends
      <4>2. Logs' \subseteq Logs \cup {Append(cell.ops, op)} /\ ops' = ops + 1
        BY <1>1, <3>1, <4>1, LogsStep DEF Appends
      <4>. QED BY <3>0, <4>1, <4>2, ChronicleGrows
    <3>2. CASE Keeps
      <4>1. Logs' \subseteq Logs /\ ops' = ops BY <1>1, <3>2, LogsStep DEF Keeps
      <4>. QED BY <3>0, <4>1 DEF Chronicle
    <3>. QED BY <1>1, <3>1, <3>2, WriteStep
  <2>2. StoreInv' BY <1>1, StoreStep DEF RollInv
  <2>. QED BY <1>1, <2>1, <2>2, LogsStep, FloorsStep DEF RollInv
<1>2. ASSUME RollInv, UNCHANGED storeVars PROVE RollInv'
  <2>1. UNCHANGED <<cell, got, accepted, remembered, floor, ops, pc>> BY <1>2 DEF storeVars
  <2>2. StoreInv' BY <1>2, StoreStep DEF RollInv
  <2>3. Logs' = Logs BY <2>1 DEF Logs
  <2>. QED BY <1>2, <2>1, <2>2, <2>3 DEF RollInv, AcceptedType, Remembers, Floors
<1>. QED BY <1>1, <1>2

\* Nothing has been accepted, and all there may be is the backup.
LEMMA RollInitially == StoreInit => RollInv
<1>. SUFFICES ASSUME StoreInit PROVE RollInv
  OBVIOUS
<1>1. /\ cell \in {Absent, Legacy(Backup, 1)} /\ ops = 1
      /\ got = [c \in Everyone |-> Absent] /\ pc = [c \in Everyone |-> "idle"]
      /\ accepted = [c \in Clients |-> NoLog]
      /\ remembered = [c \in Clients |-> 0] /\ floor = [c \in Clients |-> 0]
  BY DEF StoreInit
<1>2. Absent.ops = NoLog /\ Legacy(Backup, 1).ops = Backup
  BY DEF Absent, Legacy
<1>3. Logs \subseteq {NoLog, Backup}
  BY <1>1, <1>2 DEF Logs
<1>4. Chronicle(Logs, ops)
  <2>1. Len(NoLog) = 0 /\ NoLog \in Seq(Op) BY BackupType DEF NoLog
  <2>2. Len(Backup) = 1 /\ Backup[1].id = 1 /\ Backup \in Seq(Op)
    BY BackupType DEF Backup, Operation
  <2>3. \A s, t \in {NoLog, Backup} : Agree(s, t) BY <2>1, <2>2 DEF Agree
  <2>4. \A s \in {NoLog, Backup} : s \in Seq(Op) /\ \A n \in 1..Len(s) : s[n].id \in 1..1
    <3>1. \A n \in 1..Len(Backup) : n = 1 /\ Backup[n].id = 1 BY <2>2
    <3>2. \A n \in 1..Len(NoLog) : FALSE BY <2>1
    <3>. QED BY <2>1, <2>2, <3>1, <3>2
  <2>. QED BY <1>1, <1>3, <2>3, <2>4 DEF Chronicle
<1>5. AcceptedType /\ Remembers
  BY <1>1, BackupType DEF AcceptedType, Remembers, HeadOf
<1>6. Floors
  BY <1>1 DEF Floors, Reading, Everyone
<1>. QED BY <1>4, <1>5, <1>6, StoreInitially DEF RollInv

\* No client migrates a log that has lost what it accepted before: a log that
\* was rolled back, restored or extended by others meanwhile is refused unless
\* all of that history is in it.
THEOREM NoRollbackMigrated == StoreSpec => RollbackRefused
<1>. DEFINE Refuses ==
       \A c \in Clients :
          pc[c] = "migrate" /\ cell.kind = "log" /\ cell'.kind = "board" /\ got[c].tag = cell.tag
          => /\ IsPrefix(accepted[c], cell'.ops)
             /\ floor[c] = 0 \/ \E n \in DOMAIN cell'.ops : cell'.ops[n].id = floor[c]
<1>1. ASSUME RollInv, StoreNext PROVE Refuses
  <2>. SUFFICES ASSUME NEW c \in Clients, pc[c] = "migrate", cell.kind = "log",
                       cell'.kind = "board", got[c].tag = cell.tag
                PROVE  /\ IsPrefix(accepted[c], cell'.ops)
                       /\ floor[c] = 0 \/ \E n \in DOMAIN cell'.ops : cell'.ops[n].id = floor[c]
    OBVIOUS
  <2>1. cell'.ops = cell.ops
    BY <1>1, CellStep DEF RollInv, Changes, Begins, Promotes, Extends, RolledBack
  <2>2. got[c] = cell
    BY <1>1 DEF RollInv, StoreInv, Dated, Everyone
  <2>3. Holds(cell.ops, floor[c]) /\ IsPrefix(accepted[c], cell.ops)
    BY <1>1, <2>2 DEF RollInv, Floors, Reading, Logs
  <2>4. DOMAIN cell.ops = 1..Len(cell.ops)
    BY <1>1 DEF RollInv, StoreInv, StoreType, Cells
  <2>. QED BY <2>1, <2>3, <2>4 DEF Holds
<1>2. RollInv /\ [StoreNext]_storeVars => [Refuses]_storeVars
  BY <1>1
<1>3. RollbackRefused <=> [][Refuses]_storeVars
  BY DEF RollbackRefused
<1>. QED BY RollInitially, RollStep, <1>2, <1>3, PTL DEF StoreSpec

-----------------------------------------------------------------------------
(* The replay of the log of an older build *)

\* What the replay carries.
AuthState == [ok : BOOLEAN, authorities : SUBSET AllKeys, parent : [Keys -> AllKeys],
              revoked : SUBSET AllKeys, deleted : BOOLEAN, begun : BOOLEAN]

\* The authorities whose parent is among some.
Children(s, X) == {k \in s.authorities \ {Root} : s.parent[k] \in X}

\* What a search finds pass by pass.
Passes(v, s, target) ==
  /\ v[0] = {target}
  /\ \A n \in 1..Cardinality(Keys) : v[n] = v[n - 1] \cup Children(s, v[n - 1])

\* There are so many keys.
LEMMA KeysAreFinite == Cardinality(Keys) \in Nat
BY KeysAssumption, FS_CardinalityType

\* A search has values, pass by pass, which are sets of keys.
LEMMA PassesExist ==
  ASSUME NEW s \in AuthState, NEW target \in AllKeys
  PROVE  \E v \in [0..Cardinality(Keys) -> SUBSET AllKeys] : Passes(v, s, target)
<1>. DEFINE T == SUBSET AllKeys
<1>1. PICK N \in Nat : N = Cardinality(Keys)
  BY KeysAreFinite
<1>. DEFINE Step == [p \in (1..N) \X T |-> p[2] \cup Children(s, p[2])]
<1>2. \A X : Children(s, X) \in T
  BY DEF AuthState, Children
<1>3. {target} \in T
  OBVIOUS
<1>5. Step \in [(1..N) \X T -> T]
  BY <1>2
<1>6. \A n \in 1..N : \A X \in T : Step[<<n, X>>] = X \cup Children(s, X)
  OBVIOUS
<1>. HIDE DEF T, Step
<1>7. PICK v \in [0..N -> T] : Turns(v, N, {target}, Step)
  BY <1>3, <1>5, IterationExists
<1>8. ASSUME NEW n \in 1..N PROVE v[n] = v[n - 1] \cup Children(s, v[n - 1])
  <2>1. v[n - 1] \in T OBVIOUS
  <2>. QED BY <2>1, <1>6, <1>7 DEF Turns
<1>9. Passes(v, s, target)
  BY <1>1, <1>7, <1>8 DEF Passes, Turns
<1>. QED BY <1>1, <1>9 DEF T

\* Two searches of one target end in one set.
LEMMA PassesAreOne ==
  ASSUME NEW s, NEW target, NEW v, NEW w, Passes(v, s, target), Passes(w, s, target)
  PROVE  v[Cardinality(Keys)] = w[Cardinality(Keys)]
<1>1. PICK N \in Nat : N = Cardinality(Keys)
  BY KeysAreFinite
<1>2. v[0] = w[0] /\ \A n \in 1..N : v[n - 1] = w[n - 1] => v[n] = w[n]
  BY <1>1 DEF Passes
<1>3. \A n \in 0..N : v[n] = w[n]
  BY <1>2, IterationIsOne
<1>. QED BY <1>1, <1>3

\* What descendantsOf returns is where such a search ends.
LEMMA DescendantsArePasses ==
  ASSUME NEW s \in AuthState, NEW target \in AllKeys
  PROVE  \E v \in [0..Cardinality(Keys) -> SUBSET AllKeys] :
            Passes(v, s, target) /\ DescendantsOf(s, target) = v[Cardinality(Keys)]
<1>. DEFINE Pass(f) == [n \in 0..Cardinality(Keys) |->
                          IF n = 0 THEN {target}
                          ELSE f[n - 1] \cup {k \in s.authorities \ {Root} : s.parent[k] \in f[n - 1]}]
            found == CHOOSE f : f = Pass(f)
<1>1. DescendantsOf(s, target) = found[Cardinality(Keys)]
  BY DEF DescendantsOf
<1>2. PICK v \in [0..Cardinality(Keys) -> SUBSET AllKeys] : Passes(v, s, target)
  BY PassesExist
<1>3. v = Pass(v)
  <2>1. ASSUME NEW n \in 0..Cardinality(Keys) PROVE v[n] = Pass(v)[n]
    BY <1>2, KeysAreFinite DEF Passes, Children
  <2>. QED BY <2>1
<1>4. found = Pass(found)
  BY <1>3
<1>5. ASSUME NEW f, f = Pass(f) PROVE Passes(f, s, target)
  <2>1. PICK N \in Nat : N = Cardinality(Keys)
    BY KeysAreFinite
  <2>2. \A n \in 0..N : f[n] = IF n = 0 THEN {target} ELSE f[n - 1] \cup Children(s, f[n - 1])
    BY <1>5, <2>1 DEF Children
  <2>3. f[0] = {target}
    BY <2>2, 0 \in 0..N
  <2>4. ASSUME NEW n \in 1..N PROVE f[n] = f[n - 1] \cup Children(s, f[n - 1])
    BY <2>2, n \in 0..N, n # 0
  <2>. QED BY <2>1, <2>3, <2>4 DEF Passes
<1>6. Passes(found, s, target)
  BY <1>4, <1>5
<1>. HIDE DEF found
<1>7. found[Cardinality(Keys)] = v[Cardinality(Keys)]
  BY <1>2, <1>6, PassesAreOne
<1>. QED BY <1>1, <1>2, <1>7

\* A set that a search may come to rest in.
Closed(s, X) == Children(s, X) \subseteq X

\* descendantsOf comes to rest: what it returns holds the target and every
\* child of what it holds, and whatever does so holds all of it.
LEMMA DescendantsAreLeast ==
  ASSUME NEW s \in AuthState, NEW target \in AllKeys
  PROVE  /\ target \in DescendantsOf(s, target)
         /\ DescendantsOf(s, target) \subseteq s.authorities \cup {target}
         /\ Closed(s, DescendantsOf(s, target))
         /\ \A S : target \in S /\ Closed(s, S) => DescendantsOf(s, target) \subseteq S
<1>1. PICK N \in Nat : N = Cardinality(Keys)
  BY KeysAreFinite
<1>2. PICK v \in [0..N -> SUBSET AllKeys] :
         Passes(v, s, target) /\ DescendantsOf(s, target) = v[N]
  BY <1>1, DescendantsArePasses
<1>3. v[0] = {target} /\ \A n \in 1..N : v[n] = v[n - 1] \cup Children(s, v[n - 1])
  BY <1>1, <1>2 DEF Passes
<1>4. ASSUME NEW S, target \in S, Closed(s, S) PROVE v[N] \subseteq S
  <2>. DEFINE Turned == {n \in 0..N : v[n] \subseteq S}
  <2>1. 0 \in Turned BY <1>3, <1>4
  <2>2. ASSUME NEW n \in 1..N, n - 1 \in Turned PROVE n \in Turned
    BY <1>3, <1>4, <2>2 DEF Closed, Children
  <2>. HIDE DEF Turned
  <2>3. N \in Turned BY <2>1, <2>2, EveryTurn
  <2>. QED BY <2>3 DEF Turned
<1>5. target \in v[N]
  <2>. DEFINE Turned == {n \in 0..N : target \in v[n]}
  <2>1. 0 \in Turned BY <1>3
  <2>2. \A n \in 1..N : n - 1 \in Turned => n \in Turned BY <1>3
  <2>. HIDE DEF Turned
  <2>3. N \in Turned BY <2>1, <2>2, EveryTurn
  <2>. QED BY <2>3 DEF Turned
<1>6. Closed(s, s.authorities \cup {target})
  BY DEF Closed, Children
<1>7. IsFiniteSet(AllKeys) /\ Cardinality(AllKeys) = N + 1
  BY <1>1, KeysAssumption, FS_AddElement DEF AllKeys
<1>8. Closed(s, v[N])
  <2>. DEFINE Turned == {n \in 0..N : Closed(s, v[n]) \/ Cardinality(v[n]) >= n + 1}
  <2>1. 0 \in Turned
    <3>1. Cardinality(v[0]) = 1 BY <1>3, FS_Singleton
    <3>. QED BY <3>1
  <2>2. ASSUME NEW n \in 1..N, n - 1 \in Turned PROVE n \in Turned
    <3>1. CASE Closed(s, v[n - 1])
      <4>1. v[n] = v[n - 1] BY <1>3, <3>1 DEF Closed
      <4>. QED BY <3>1, <4>1
    <3>2. CASE ~Closed(s, v[n - 1])
      <4>1. v[n - 1] \subseteq v[n] /\ v[n - 1] # v[n] BY <1>3, <3>2 DEF Closed
      <4>2. v[n] \subseteq AllKeys OBVIOUS
      <4>3. IsFiniteSet(v[n]) BY <4>2, <1>7, FS_Subset
      <4>4. /\ Cardinality(v[n - 1]) \in Nat /\ Cardinality(v[n]) \in Nat
            /\ Cardinality(v[n - 1]) < Cardinality(v[n])
        BY <4>1, <4>3, FS_Subset, FS_CardinalityType
      <4>5. Cardinality(v[n - 1]) >= (n - 1) + 1 BY <2>2, <3>2
      <4>. QED BY <4>4, <4>5
    <3>. QED BY <3>1, <3>2
  <2>. HIDE DEF Turned
  <2>3. N \in Turned BY <2>1, <2>2, EveryTurn
  <2>4. CASE Cardinality(v[N]) >= N + 1
    <3>1. v[N] \subseteq AllKeys OBVIOUS
    <3>2. v[N] = AllKeys
      BY <1>1, <1>7, <2>4, <3>1, FS_Subset, FS_CardinalityType
    <3>. QED BY <3>2 DEF Closed, Children, AuthState
  <2>. QED BY <2>3, <2>4 DEF Turned
<1>. QED BY <1>2, <1>4, <1>5, <1>6, <1>8

\* The replay of a log, turn by turn.
Replays(v, past) ==
  /\ v[0] = Fresh
  /\ \A n \in 1..Len(past) : v[n] = Verify(v[n - 1], past[n])

\* An operation there can be: a key that is delegated is not the root's.
LogOp == {op \in [kind : Kinds, by : AllKeys, key : AllKeys, id : Nat] :
            op.kind = "delegate" => op.key \in Keys}

\* A refusal changes nothing else.
LEMMA RefuseType ==
  ASSUME NEW s \in AuthState
  PROVE  Refuse(s) \in AuthState
BY DEF Refuse, AuthState

\* A turn of the loop leaves a state.
LEMMA VerifyType ==
  ASSUME NEW s \in AuthState, NEW op \in LogOp
  PROVE  Verify(s, op) \in AuthState
<1>1. op.by \in AllKeys /\ op.key \in AllKeys /\ (op.kind = "delegate" => op.key \in Keys)
  BY DEF LogOp
<1>2. DescendantsOf(s, op.key) \subseteq AllKeys
  BY <1>1, DescendantsAreLeast DEF AuthState
<1>3. Refuse(s) \in AuthState BY RefuseType
<1>4. [s EXCEPT !.begun = TRUE] \in AuthState BY DEF AuthState
<1>5. ASSUME op.kind = "delegate"
      PROVE  [s EXCEPT !.authorities = @ \cup {op.key}, !.parent[op.key] = op.by] \in AuthState
  BY <1>1, <1>5 DEF AuthState
<1>6. [s EXCEPT !.revoked = @ \cup DescendantsOf(s, op.key)] \in AuthState
  BY <1>2 DEF AuthState
<1>7. [s EXCEPT !.deleted = TRUE] \in AuthState BY DEF AuthState
<1>. QED BY <1>3, <1>4, <1>5, <1>6, <1>7, Zenon DEF Verify

\* The loop starts from a state.
LEMMA FreshType == Fresh \in AuthState
BY DEF Fresh, AuthState, AllKeys

\* The replay of a log there can be has a state after each operation.
LEMMA ReplaysExist ==
  ASSUME NEW past \in Seq(LogOp)
  PROVE  \E v \in [0..Len(past) -> AuthState] : Replays(v, past)
<1>. DEFINE T == AuthState
            N == Len(past)
            Step == [p \in (1..N) \X T |-> Verify(p[2], past[p[1]])]
<1>1. N \in Nat
  OBVIOUS
<1>2. \A n \in 1..N : \A s \in T : Verify(s, past[n]) \in T
  BY VerifyType
<1>3. Step \in [(1..N) \X T -> T]
  BY <1>2
<1>4. \A n \in 1..N : \A s \in T : Step[<<n, s>>] = Verify(s, past[n])
  OBVIOUS
<1>5. Fresh \in T
  BY FreshType
<1>. HIDE DEF T, Step, N
<1>6. PICK v \in [0..N -> T] : Turns(v, N, Fresh, Step)
  BY <1>1, <1>3, <1>5, IterationExists
<1>7. ASSUME NEW n \in 1..N PROVE v[n] = Verify(v[n - 1], past[n])
  <2>1. v[n - 1] \in T BY <1>1
  <2>. QED BY <2>1, <1>4, <1>6 DEF Turns
<1>8. v[0] = Fresh
  BY <1>6 DEF Turns
<1>. QED BY <1>7, <1>8 DEF Replays, T, N

\* Replays of two logs go the same way as far as the logs are the same.
LEMMA ReplaysAreOne ==
  ASSUME NEW past, NEW longer, NEW v, NEW w, NEW N \in Nat
  PROVE  /\ Len(past) = N /\ Len(longer) \in Nat /\ N <= Len(longer)
         /\ \A n \in 1..N : past[n] = longer[n]
         /\ Replays(v, past) /\ Replays(w, longer)
         => v[N] = w[N]
<1>1. SUFFICES ASSUME /\ Len(past) = N /\ Len(longer) \in Nat /\ N <= Len(longer)
                      /\ \A n \in 1..N : past[n] = longer[n]
                      /\ Replays(v, past) /\ Replays(w, longer)
               PROVE  v[N] = w[N]
  OBVIOUS
<1>2. v[0] = w[0]
  BY <1>1 DEF Replays
<1>3. \A n \in 1..N : v[n - 1] = w[n - 1] => v[n] = w[n]
  BY <1>1 DEF Replays
<1>4. \A n \in 0..N : v[n] = w[n]
  BY <1>2, <1>3, IterationIsOne
<1>. QED BY <1>4

\* verifyAndReplayOperationLog returns where its loop ends.
LEMMA ReplayIsReplays ==
  ASSUME NEW past \in Seq(LogOp), NEW v, Replays(v, past)
  PROVE  Replay(past) = v[Len(past)]
<1>. DEFINE Pass(f) == [n \in 0..Len(past) |->
                          IF n = 0 THEN Fresh ELSE Verify(f[n - 1], past[n])]
            found == CHOOSE f : f = Pass(f)
<1>1. Replay(past) = found[Len(past)]
  BY DEF Replay
<1>2. PICK w \in [0..Len(past) -> AuthState] : Replays(w, past)
  BY ReplaysExist
<1>3. w = Pass(w)
  <2>1. ASSUME NEW n \in 0..Len(past) PROVE w[n] = Pass(w)[n]
    BY <1>2 DEF Replays
  <2>. QED BY <2>1
<1>4. found = Pass(found)
  BY <1>3
<1>5. ASSUME NEW f, f = Pass(f) PROVE Replays(f, past)
  <2>1. PICK N \in Nat : N = Len(past)
    OBVIOUS
  <2>2. \A n \in 0..N : f[n] = IF n = 0 THEN Fresh ELSE Verify(f[n - 1], past[n])
    BY <1>5, <2>1
  <2>3. f[0] = Fresh
    BY <2>2, 0 \in 0..N
  <2>4. ASSUME NEW n \in 1..N PROVE f[n] = Verify(f[n - 1], past[n])
    BY <2>2, n \in 0..N, n # 0
  <2>. QED BY <2>1, <2>3, <2>4 DEF Replays
<1>6. Replays(found, past)
  BY <1>4, <1>5
<1>. HIDE DEF found
<1>7. found[Len(past)] = v[Len(past)]
  BY <1>6, ReplaysAreOne, Len(past) \in Nat
<1>. QED BY <1>1, <1>7

\* One operation more is one turn more.
LEMMA ReplayAppend ==
  ASSUME NEW past \in Seq(LogOp), NEW op \in LogOp
  PROVE  /\ Replay(Append(past, op)) = Verify(Replay(past), op)
         /\ Replay(past) \in AuthState
<1>. DEFINE longer == Append(past, op)
<1>1. PICK v \in [0..Len(past) -> AuthState] : Replays(v, past)
  BY ReplaysExist
<1>2. longer \in Seq(LogOp) /\ Len(longer) = Len(past) + 1
  OBVIOUS
<1>3. PICK w \in [0..Len(longer) -> AuthState] : Replays(w, longer)
  BY <1>2, ReplaysExist
<1>4. Replay(past) = v[Len(past)] /\ Replay(longer) = w[Len(longer)]
  BY <1>1, <1>2, <1>3, ReplayIsReplays
<1>5. v[Len(past)] = w[Len(past)]
  <2>1. /\ Len(past) \in Nat /\ Len(longer) \in Nat /\ Len(past) <= Len(longer)
        /\ \A n \in 1..Len(past) : past[n] = longer[n]
    OBVIOUS
  <2>. HIDE DEF longer
  <2>. QED BY <1>1, <1>3, <2>1, ReplaysAreOne
<1>6. longer[Len(past) + 1] = op /\ Len(past) + 1 \in 1..Len(longer) /\ (Len(past) + 1) - 1 = Len(past)
  OBVIOUS
<1>. HIDE DEF longer
<1>7. w[Len(past) + 1] = Verify(w[Len(past)], op)
  BY <1>3, <1>6 DEF Replays
<1>8. Replay(past) \in AuthState
  BY <1>1, <1>4
<1>. QED BY <1>2, <1>4, <1>5, <1>7, <1>8 DEF longer

\* Of an empty log the loop makes no turn.
LEMMA ReplayOfNothing == Replay(<< >>) = Fresh
<1>1. << >> \in Seq(LogOp) /\ Len(<< >>) = 0
  OBVIOUS
<1>2. Replays([n \in 0..0 |-> Fresh], << >>)
  BY DEF Replays
<1>. QED BY <1>1, <1>2, ReplayIsReplays

-----------------------------------------------------------------------------
(* What the replay has come to *)

\* The state after a log that replays is what the log says as a whole.
Accounts(s, n) ==
  /\ s.begun = TRUE <=> n > 0
  /\ s.deleted = TRUE <=> \E i \in 1..n : history[i].kind = "delete"
  /\ s.authorities = {k \in AllKeys : Authority(k, n)}
  /\ \A i \in 1..n : history[i].kind = "delegate" => s.parent[history[i].key] = history[i].by
  /\ s.revoked = {k \in AllKeys : Revoked(k, n)}

\* A replay refuses what is unlawful, and comes to what the log says otherwise.
ReplayInv ==
  /\ history \in Seq(LogOp)
  /\ Replay(history).ok = TRUE <=> \A n \in 1..Len(history) : Lawful(n)
  /\ Replay(history).ok = TRUE => Accounts(Replay(history), Len(history))

\* The keys a revocation reaches, as it finds them, are those that stem from
\* its target.
LEMMA StemsAreDescendants ==
  ASSUME NEW s \in AuthState, NEW n \in Nat, NEW target \in AllKeys, NEW k \in AllKeys,
         history \in Seq(LogOp), n <= Len(history),
         Accounts(s, n), target \in s.authorities
  PROVE  k \in DescendantsOf(s, target) <=> Authority(k, n) /\ Stems(k, target, n)
<1>. DEFINE D == DescendantsOf(s, target)
<1>1. /\ target \in D
      /\ D \subseteq s.authorities
      /\ Closed(s, D)
      /\ \A S : target \in S /\ Closed(s, S) => D \subseteq S
  BY DescendantsAreLeast
<1>. HIDE DEF D
<1>2. \A i \in 1..n : history[i] \in LogOp
  OBVIOUS
<1>3. ASSUME k \in D PROVE Authority(k, n) /\ Stems(k, target, n)
  <2>1. Authority(k, n) BY <1>1, <1>3 DEF Accounts
  <2>2. ASSUME NEW S \in SUBSET AllKeys, target \in S,
               \A i \in 1..n : history[i].kind = "delegate" /\ history[i].by \in S => history[i].key \in S
        PROVE  Closed(s, S)
    <3>1. ASSUME NEW c \in s.authorities \ {Root}, s.parent[c] \in S PROVE c \in S
      <4>1. PICK i \in 1..n : history[i].kind = "delegate" /\ history[i].key = c
        BY <3>1 DEF Accounts, Authority, Delegated
      <4>2. s.parent[c] = history[i].by
        BY <4>1 DEF Accounts
      <4>. QED BY <2>2, <3>1, <4>1, <4>2
    <3>. QED BY <3>1 DEF Closed, Children
  <2>. QED BY <1>1, <1>3, <2>1, <2>2 DEF Stems
<1>4. ASSUME Stems(k, target, n) PROVE k \in D
  <2>1. D \in SUBSET AllKeys
    BY <1>1 DEF AuthState
  <2>2. ASSUME NEW i \in 1..n, history[i].kind = "delegate", history[i].by \in D
        PROVE  history[i].key \in D
    <3>1. history[i].key \in Keys /\ history[i].key \in AllKeys
      BY <1>2, <2>2 DEF LogOp
    <3>2. history[i].key \in s.authorities \ {Root}
      BY <2>2, <3>1, KeysAssumption DEF Accounts, Authority, Delegated
    <3>3. s.parent[history[i].key] = history[i].by
      BY <2>2 DEF Accounts
    <3>. QED BY <1>1, <2>2, <3>2, <3>3 DEF Closed, Children
  <2>. QED BY <1>1, <1>4, <2>1, <2>2 DEF Stems
<1>. QED BY <1>3, <1>4 DEF D

\* What the log says of its beginning it goes on saying when it grows.
LEMMA PastStays ==
  ASSUME history \in Seq(LogOp), NEW op \in LogOp, history' = Append(history, op)
  PROVE  /\ history' \in Seq(LogOp) /\ Len(history') = Len(history) + 1
         /\ history'[Len(history) + 1] = op
         /\ \A i \in 1..Len(history) : history'[i] = history[i]
         /\ \A n \in 0..Len(history) : \A k :
               /\ Authority(k, n)' <=> Authority(k, n)
               /\ Revoked(k, n)' <=> Revoked(k, n)
         /\ \A n \in 1..Len(history) : Lawful(n)' <=> Lawful(n)
<1>1. /\ history' \in Seq(LogOp) /\ Len(history') = Len(history) + 1
      /\ history'[Len(history) + 1] = op
      /\ Len(history) \in Nat
      /\ \A i \in 1..Len(history) : history'[i] = history[i]
  OBVIOUS
<1>2. ASSUME NEW n \in 0..Len(history) PROVE \A i \in 1..n : history'[i] = history[i]
  BY <1>1
<1>3. ASSUME NEW n \in 0..Len(history), NEW k PROVE Authority(k, n)' <=> Authority(k, n)
  BY <1>2 DEF Authority, Delegated
<1>4. ASSUME NEW n \in 0..Len(history), NEW k, NEW from PROVE Stems(k, from, n)' <=> Stems(k, from, n)
  BY <1>2 DEF Stems
<1>5. ASSUME NEW n \in 0..Len(history), NEW k PROVE Revoked(k, n)' <=> Revoked(k, n)
  <2>1. ASSUME NEW i \in 1..n
        PROVE  /\ history'[i] = history[i]
               /\ Authority(k, i)' <=> Authority(k, i)
               /\ Stems(k, history[i].key, i)' <=> Stems(k, history[i].key, i)
    <3>1. i \in 0..Len(history) BY <1>1
    <3>. QED BY <1>2, <1>3, <1>4, <3>1
  <2>. QED BY <2>1 DEF Revoked
<1>6. ASSUME NEW n \in 1..Len(history) PROVE Lawful(n)' <=> Lawful(n)
  <2>1. /\ n - 1 \in 0..Len(history)
        /\ history'[n] = history[n]
        /\ \A i \in 1..n - 1 : history'[i] = history[i]
    BY <1>1
  <2>2. \A k : (Authority(k, n - 1)' <=> Authority(k, n - 1)) /\ (Revoked(k, n - 1)' <=> Revoked(k, n - 1))
    BY <1>3, <1>5, <2>1
  <2>. QED BY <2>1, <2>2 DEF Lawful
<1>. QED BY <1>1, <1>3, <1>5, <1>6

\* The state after one operation, field by field.
LEMMA VerifyOutcome ==
  ASSUME NEW s \in AuthState, NEW op \in LogOp
  PROVE  /\ s.ok = FALSE => Verify(s, op).ok = FALSE
         /\ s.ok = TRUE /\ Refused(s, op) => Verify(s, op).ok = FALSE
         /\ s.ok = TRUE /\ ~Refused(s, op) =>
              /\ Verify(s, op).ok = TRUE
              /\ Verify(s, op).begun = (IF op.kind = "initialize" THEN TRUE ELSE s.begun)
              /\ Verify(s, op).deleted = (IF op.kind = "delete" THEN TRUE ELSE s.deleted)
              /\ Verify(s, op).authorities =
                    (IF op.kind = "delegate" THEN s.authorities \cup {op.key} ELSE s.authorities)
              /\ Verify(s, op).parent =
                    (IF op.kind = "delegate" THEN [s.parent EXCEPT ![op.key] = op.by] ELSE s.parent)
              /\ Verify(s, op).revoked =
                    (IF op.kind = "revoke" THEN s.revoked \cup DescendantsOf(s, op.key) ELSE s.revoked)
<1>1. /\ s.ok \in BOOLEAN /\ s.begun \in BOOLEAN /\ s.deleted \in BOOLEAN
      /\ s = [ok |-> s.ok, authorities |-> s.authorities, parent |-> s.parent,
              revoked |-> s.revoked, deleted |-> s.deleted, begun |-> s.begun]
  BY DEF AuthState
<1>2. Refuse(s).ok = FALSE
  BY DEF AuthState, Refuse
<1>3. ASSUME s.ok = FALSE \/ Refused(s, op) PROVE Verify(s, op) = Refuse(s)
  <2>1. ~s.ok \/ Refused(s, op)
    BY <1>3
  <2>. QED BY <2>1, Zenon DEF Verify
<1>. DEFINE D == DescendantsOf(s, op.key)
<1>4. ASSUME s.ok = TRUE, ~Refused(s, op)
      PROVE  /\ op.kind = "initialize" => Verify(s, op) = [s EXCEPT !.begun = TRUE]
             /\ op.kind = "delegate" => Verify(s, op) = [s EXCEPT !.authorities = @ \cup {op.key},
                                                                  !.parent[op.key] = op.by]
             /\ op.kind = "revoke" => Verify(s, op) = [s EXCEPT !.revoked = @ \cup D]
             /\ op.kind = "delete" => Verify(s, op) = [s EXCEPT !.deleted = TRUE]
             /\ op.kind = "edit" => Verify(s, op) = s
  <2>1. ~(~s.ok \/ Refused(s, op))
    BY <1>4
  <2>. HIDE DEF D
  <2>. QED BY <2>1, Zenon DEF Verify, D
<1>. HIDE DEF D
<1>5. op.kind \in {"initialize", "edit", "delegate", "revoke", "delete"} /\ (op.kind = "delegate" => op.key \in Keys)
  BY DEF LogOp, Kinds
<1>6. ASSUME s.ok = FALSE \/ Refused(s, op) PROVE Verify(s, op).ok = FALSE
  BY <1>2, <1>3, <1>6
<1>7. ASSUME s.ok = TRUE, ~Refused(s, op)
      PROVE  /\ Verify(s, op).ok = TRUE
             /\ Verify(s, op).begun = (IF op.kind = "initialize" THEN TRUE ELSE s.begun)
             /\ Verify(s, op).deleted = (IF op.kind = "delete" THEN TRUE ELSE s.deleted)
             /\ Verify(s, op).authorities =
                   (IF op.kind = "delegate" THEN s.authorities \cup {op.key} ELSE s.authorities)
             /\ Verify(s, op).parent =
                   (IF op.kind = "delegate" THEN [s.parent EXCEPT ![op.key] = op.by] ELSE s.parent)
             /\ Verify(s, op).revoked =
                   (IF op.kind = "revoke" THEN s.revoked \cup D ELSE s.revoked)
  <2>1. CASE op.kind = "initialize"
    BY <1>1, <1>4, <1>7, <2>1
  <2>2. CASE op.kind = "delegate"
    BY <1>1, <1>4, <1>7, <2>2
  <2>3. CASE op.kind = "revoke"
    BY <1>1, <1>4, <1>7, <2>3
  <2>4. CASE op.kind = "delete"
    BY <1>1, <1>4, <1>7, <2>4
  <2>5. CASE op.kind = "edit"
    BY <1>1, <1>4, <1>7, <2>5
  <2>. QED BY <1>5, <2>1, <2>2, <2>3, <2>4, <2>5
<1>. QED BY <1>6, <1>7 DEF D

\* What the replay refuses next is what would not be lawful.
LEMMA RefusedIsUnlawful ==
  ASSUME history \in Seq(LogOp), NEW n \in Nat, n = Len(history),
         NEW op \in LogOp, history' = Append(history, op),
         NEW s \in AuthState, Accounts(s, n)
  PROVE  Lawful(n + 1)' <=> ~Refused(s, op)
<1>1. /\ n \in Nat /\ Len(history') = n + 1 /\ history'[n + 1] = op /\ (n + 1) - 1 = n
      /\ \A i \in 1..n : history'[i] = history[i]
      /\ \A k : (Authority(k, n)' <=> Authority(k, n)) /\ (Revoked(k, n)' <=> Revoked(k, n))
  <2>1. n \in Nat /\ n \in 0..n /\ (n + 1) - 1 = n OBVIOUS
  <2>. QED BY <2>1, PastStays
<1>2. op.by \in AllKeys /\ op.key \in AllKeys
  BY DEF LogOp
<1>3. /\ s.begun \in BOOLEAN /\ s.deleted \in BOOLEAN
  BY DEF AuthState
<1>4. Accounts(s, n)
  OBVIOUS
<1>5. /\ s.begun = TRUE <=> n > 0
      /\ s.deleted = TRUE <=> \E i \in 1..n : history'[i].kind = "delete"
      /\ op.by \in s.authorities <=> Authority(op.by, n)'
      /\ op.key \in s.authorities <=> Authority(op.key, n)'
      /\ op.key \in s.revoked <=> Revoked(op.key, n)'
  BY <1>1, <1>2, <1>4 DEF Accounts
<1>6. Lawful(n + 1)' <=> /\ (n + 1 = 1) = (op.kind = "initialize")
                         /\ n + 1 = 1 => op.by = Root
                         /\ Authority(op.by, n)'
                         /\ \A i \in 1..n : history'[i].kind # "delete"
                         /\ op.kind = "delegate" => ~Authority(op.key, n)'
                         /\ op.kind = "revoke" => /\ op.key # Root
                                                  /\ Authority(op.key, n)'
                                                  /\ ~Revoked(op.key, n)'
  BY <1>1 DEF Lawful
<1>7. Refused(s, op) <=>
        \/ op.by \notin s.authorities
        \/ s.begun = FALSE /\ (op.kind # "initialize" \/ op.by # Root)
        \/ s.begun = TRUE /\ op.kind = "initialize"
        \/ s.deleted = TRUE
        \/ op.kind = "delegate" /\ op.key \in s.authorities
        \/ op.kind = "revoke" /\ op.key \notin s.authorities \ ({Root} \cup s.revoked)
  BY <1>3 DEF Refused
<1>8. (n + 1 = 1 <=> ~(n > 0)) /\ (n + 1 = 1) \in BOOLEAN
  BY <1>1
<1>9. Lawful(n + 1)' <=> ~Refused(s, op)
  BY <1>3, <1>5, <1>6, <1>7, <1>8
<1>. QED BY <1>9

\* The account goes on with every operation that is not refused.
LEMMA AccountsGoOn ==
  ASSUME history \in Seq(LogOp), NEW n \in Nat, n = Len(history),
         NEW op \in LogOp, history' = Append(history, op),
         NEW s \in AuthState, s.ok = TRUE, ~Refused(s, op), Accounts(s, n)
  PROVE  Accounts(Verify(s, op), n + 1)'
<1>. DEFINE t == Verify(s, op)
<1>1. /\ n \in Nat /\ Len(history') = n + 1 /\ history'[n + 1] = op
      /\ \A i \in 1..n : history'[i] = history[i]
      /\ \A k : (Authority(k, n)' <=> Authority(k, n)) /\ (Revoked(k, n)' <=> Revoked(k, n))
  <2>1. n \in Nat /\ n \in 0..n OBVIOUS
  <2>. QED BY <2>1, PastStays
<1>2. /\ t.begun = (IF op.kind = "initialize" THEN TRUE ELSE s.begun)
      /\ t.deleted = (IF op.kind = "delete" THEN TRUE ELSE s.deleted)
      /\ t.authorities = (IF op.kind = "delegate" THEN s.authorities \cup {op.key} ELSE s.authorities)
      /\ t.parent = (IF op.kind = "delegate" THEN [s.parent EXCEPT ![op.key] = op.by] ELSE s.parent)
      /\ t.revoked = (IF op.kind = "revoke" THEN s.revoked \cup DescendantsOf(s, op.key) ELSE s.revoked)
  BY VerifyOutcome
<1>3. /\ op.by \in AllKeys /\ op.key \in AllKeys /\ (op.kind = "delegate" => op.key \in Keys)
      /\ \A i \in 1..n : history[i] \in LogOp
  BY DEF LogOp
<1>4. Accounts(s, n)
  OBVIOUS
<1>5. /\ s.begun \in BOOLEAN /\ s.deleted \in BOOLEAN /\ s.parent \in [Keys -> AllKeys]
  BY DEF AuthState
<1>6. /\ s.begun = FALSE => op.kind = "initialize"
      /\ op.kind = "delegate" => op.key \notin s.authorities
      /\ op.kind = "revoke" => op.key \in s.authorities
  BY <1>5 DEF Refused
<1>. HIDE DEF t
<1>7. \A i \in 1..n + 1 : i = n + 1 \/ i \in 1..n
  BY <1>1
<1>8. n + 1 \in 1..n + 1 /\ \A i \in 1..n : i \in 1..n + 1
  BY <1>1
<1>9. t.begun = TRUE <=> n + 1 > 0
  BY <1>1, <1>2, <1>5, <1>6
<1>10. t.deleted = TRUE <=> \E i \in 1..n + 1 : history'[i].kind = "delete"
  BY <1>1, <1>2, <1>4, <1>5, <1>7, <1>8 DEF Accounts
<1>11. ASSUME NEW k
       PROVE  Authority(k, n + 1)' <=> Authority(k, n) \/ (op.kind = "delegate" /\ op.key = k)
  BY <1>1, <1>7, <1>8 DEF Authority, Delegated
<1>12. t.authorities = {k \in AllKeys : Authority(k, n + 1)'}
  BY <1>2, <1>3, <1>4, <1>11 DEF Accounts
<1>13. ASSUME NEW i \in 1..n + 1, history'[i].kind = "delegate"
       PROVE  t.parent[history'[i].key] = history'[i].by
  <2>1. CASE i = n + 1
    BY <1>1, <1>2, <1>3, <1>5, <1>13, <2>1
  <2>2. CASE i # n + 1
    <3>1. i \in 1..n /\ history'[i] = history[i] BY <1>1, <1>7, <2>2
    <3>2. history[i].key \in Keys /\ s.parent[history[i].key] = history[i].by
      BY <1>3, <1>4, <1>13, <3>1 DEF Accounts, LogOp
    <3>3. history[i].key \in s.authorities
      <4>1. history[i].key \in AllKeys BY <3>2 DEF AllKeys
      <4>2. Authority(history[i].key, n) BY <1>13, <3>1 DEF Authority, Delegated
      <4>. QED BY <1>4, <4>1, <4>2 DEF Accounts
    <3>4. op.kind = "delegate" => history[i].key # op.key
      BY <1>6, <3>3
    <3>. QED BY <1>2, <1>5, <3>1, <3>2, <3>4
  <2>. QED BY <2>1, <2>2
<1>14. t.revoked = {k \in AllKeys : Revoked(k, n + 1)'}
  <2>1. ASSUME NEW k
        PROVE  Revoked(k, n + 1)' <=>
                 \/ Revoked(k, n)
                 \/ op.kind = "revoke" /\ Authority(k, n + 1)' /\ Stems(k, op.key, n + 1)'
    <3>1. Revoked(k, n + 1)' <=>
            \/ \E i \in 1..n : history'[i].kind = "revoke" /\ Authority(k, i)' /\ Stems(k, history[i].key, i)'
            \/ op.kind = "revoke" /\ Authority(k, n + 1)' /\ Stems(k, op.key, n + 1)'
      BY <1>1, <1>7, <1>8 DEF Revoked
    <3>2. Revoked(k, n)' <=>
            \E i \in 1..n : history'[i].kind = "revoke" /\ Authority(k, i)' /\ Stems(k, history[i].key, i)'
      BY DEF Revoked
    <3>. QED BY <1>1, <3>1, <3>2
  <2>2. CASE op.kind = "revoke"
    <3>1. ASSUME NEW k PROVE Stems(k, op.key, n + 1)' <=> Stems(k, op.key, n)
      <4>1. ASSUME NEW S
            PROVE  (\A i \in 1..n + 1 : history'[i].kind = "delegate" /\ history'[i].by \in S
                                           => history'[i].key \in S)
                   <=> (\A i \in 1..n : history[i].kind = "delegate" /\ history[i].by \in S
                                           => history[i].key \in S)
        BY <1>1, <1>7, <1>8, <2>2
      <4>. QED BY <4>1 DEF Stems
    <3>2. ASSUME NEW k \in AllKeys
          PROVE  k \in DescendantsOf(s, op.key) <=> Authority(k, n) /\ Stems(k, op.key, n)
      BY <1>1, <1>3, <1>4, <1>6, <2>2, StemsAreDescendants
    <3>3. DescendantsOf(s, op.key) \subseteq AllKeys
      BY <1>3, DescendantsAreLeast DEF AuthState
    <3>4. s.revoked = {k \in AllKeys : Revoked(k, n)} BY <1>4 DEF Accounts
    <3>5. t.revoked = s.revoked \cup DescendantsOf(s, op.key) BY <1>2, <2>2
    <3>. QED BY <1>11, <2>1, <2>2, <3>1, <3>2, <3>3, <3>4, <3>5
  <2>3. CASE op.kind # "revoke"
    BY <1>2, <1>4, <2>1, <2>3 DEF Accounts
  <2>. QED BY <2>2, <2>3
<1>15. Accounts(t, n + 1)'
  BY <1>9, <1>10, <1>12, <1>13, <1>14 DEF Accounts
<1>. QED BY <1>15 DEF t

\* An empty log is lawful.
LEMMA ReplayInit == LogInit => ReplayInv
<1>. SUFFICES ASSUME LogInit PROVE ReplayInv
  OBVIOUS
<1>1. history = << >> /\ history \in Seq(LogOp) /\ Len(history) = 0
  BY DEF LogInit
<1>2. Replay(history) = Fresh
  BY <1>1, ReplayOfNothing
<1>3. /\ Fresh.ok = TRUE /\ Fresh.begun = FALSE /\ Fresh.deleted = FALSE
      /\ Fresh.authorities = {Root} /\ Fresh.revoked = {}
  BY DEF Fresh
<1>4. Accounts(Fresh, 0)
  <2>1. {k \in AllKeys : Authority(k, 0)} = {Root}
    BY DEF Authority, Delegated, AllKeys
  <2>2. {k \in AllKeys : Revoked(k, 0)} = {}
    BY DEF Revoked
  <2>. QED BY <1>3, <2>1, <2>2 DEF Accounts
<1>. QED BY <1>1, <1>2, <1>3, <1>4 DEF ReplayInv

\* Every operation appended keeps it so.
LEMMA ReplayStep == ReplayInv /\ [LogNext]_history => ReplayInv'
<1>. SUFFICES ASSUME ReplayInv, [LogNext]_history PROVE ReplayInv'
  OBVIOUS
<1>1. CASE LogNext
  <2>1. PICK op \in LogOp : history' = Append(history, op)
    <3>1. PICK kind \in Kinds, by \in AllKeys :
            \E about \in CASE kind = "delegate" -> Keys [] kind = "revoke" -> AllKeys [] OTHER -> {Root} :
                  history' = Append(history, [kind |-> kind, by |-> by, key |-> about, id |-> 0])
      BY <1>1 DEF LogNext
    <3>2. PICK about \in CASE kind = "delegate" -> Keys [] kind = "revoke" -> AllKeys [] OTHER -> {Root} :
                  history' = Append(history, [kind |-> kind, by |-> by, key |-> about, id |-> 0])
      BY <3>1
    <3>3. about \in AllKeys /\ (kind = "delegate" => about \in Keys)
      BY DEF AllKeys
    <3>. QED BY <3>2, <3>3 DEF LogOp
  <2>2. PICK s \in AuthState : s = Replay(history)
    BY <2>1, ReplayAppend DEF ReplayInv
  <2>3. PICK n \in Nat : n = Len(history)
    BY DEF ReplayInv
  <2>4. history \in Seq(LogOp) /\ s.ok = TRUE /\ Accounts(s, n)
    <3>1. Replay(history).ok BY <1>1 DEF LogNext
    <3>2. s.ok = TRUE BY <2>2, <3>1 DEF AuthState
    <3>. QED BY <2>2, <2>3, <3>2 DEF ReplayInv, Accounts
  <2>5. PICK t \in AuthState : t = Verify(s, op)
    BY VerifyType
  <2>6. Replay(history') = t
    BY <2>1, <2>2, <2>4, <2>5, ReplayAppend
  <2>7. /\ history' \in Seq(LogOp) /\ Len(history') = n + 1
        /\ \A i \in 1..n : Lawful(i)' <=> Lawful(i)
    BY <2>1, <2>3, <2>4, PastStays
  <2>8. Lawful(n + 1)' <=> ~Refused(s, op)
    BY <2>1, <2>3, <2>4, RefusedIsUnlawful
  <2>9. t.ok = TRUE <=> ~Refused(s, op)
    BY <2>4, <2>5, VerifyOutcome
  <2>10. \A i \in 1..n : Lawful(i)
    BY <2>2, <2>3, <2>4 DEF ReplayInv
  <2>11. t.ok = TRUE <=> \A i \in 1..n + 1 : Lawful(i)'
    <3>1. \A i \in 1..n + 1 : i = n + 1 \/ i \in 1..n
      OBVIOUS
    <3>2. n + 1 \in 1..n + 1
      OBVIOUS
    <3>. QED BY <2>7, <2>8, <2>9, <2>10, <3>1, <3>2
  <2>12. ASSUME t.ok = TRUE PROVE Accounts(t, n + 1)'
    <3>1. ~Refused(s, op) BY <2>9, <2>12
    <3>2. Accounts(Verify(s, op), n + 1)'
      BY <2>1, <2>3, <2>4, <3>1, AccountsGoOn
    <3>. QED BY <2>5, <3>2 DEF Accounts
  <2>13. (Replay(history).ok = TRUE <=> \A i \in 1..Len(history) : Lawful(i))'
    BY <2>6, <2>7, <2>11
  <2>14. (Replay(history).ok = TRUE => Accounts(Replay(history), Len(history)))'
    BY <2>6, <2>7, <2>12 DEF Accounts
  <2>. QED BY <2>7, <2>13, <2>14 DEF ReplayInv
<1>2. CASE UNCHANGED history
  <2>1. history' = history
    BY <1>2
  <2>2. \A k, n : Authority(k, n)' <=> Authority(k, n)
    BY <2>1 DEF Authority, Delegated
  <2>3. \A k, n : Revoked(k, n)' <=> Revoked(k, n)
    <3>1. \A k, from, n : Stems(k, from, n)' <=> Stems(k, from, n)
      BY <2>1 DEF Stems
    <3>. QED BY <2>1, <2>2, <3>1 DEF Revoked
  <2>4. \A n : Lawful(n)' <=> Lawful(n)
    BY <2>1, <2>2, <2>3 DEF Lawful
  <2>5. Accounts(Replay(history), Len(history))' <=> Accounts(Replay(history), Len(history))
    BY <2>1, <2>2, <2>3 DEF Accounts
  <2>. QED BY <2>1, <2>4, <2>5 DEF ReplayInv
<1>. QED BY <1>1, <1>2

\* What the loop of verifyAndReplayOperationLog accepts is the rule of the log
\* as a whole, for any set of keys and logs of any length: the authorities it
\* collects, the parents it follows and the revocations it spreads say the same
\* as the history does.
THEOREM ReplayEnforcesTheRule == LogSpec => []ReplayIsTheRule
<1>1. ReplayInv => ReplayIsTheRule
  <2>. SUFFICES ASSUME ReplayInv PROVE ReplayIsTheRule
    OBVIOUS
  <2>1. history \in Seq(LogOp) /\ DOMAIN history = 1..Len(history)
    BY DEF ReplayInv
  <2>2. Replay(history).ok \in BOOLEAN
    <3>1. PICK op \in LogOp : TRUE
      <4>1. [kind |-> "edit", by |-> Root, key |-> Root, id |-> 0] \in LogOp
        BY DEF LogOp, Kinds, AllKeys
      <4>. QED BY <4>1
    <3>. QED BY <2>1, <3>1, ReplayAppend DEF AuthState
  <2>3. Accepted(history, 0) <=> history # << >> /\ Replay(history).ok = TRUE
    BY <2>2 DEF Accepted
  <2>. QED BY <2>1, <2>3 DEF ReplayInv, ReplayIsTheRule
<1>. QED BY <1>1, ReplayInit, ReplayStep, PTL DEF LogSpec
-----------------------------------------------------------------------------
(* Boards of every format: no client is locked out by its clock.  The least *)
(* that has to hold is that no message is later than the floor the next     *)
(* operation is put above, and of a board somebody persisted that is what   *)
(* its parsers and the first floor establish.                               *)

\* The messages of a thread are in order, and none is later than a time.
ThreadInOrder(comments, time) ==
    \A i, j \in DOMAIN comments : /\ comments[i].at <= time
                                  /\ i <= j => comments[i].at <= comments[j].at

Message == [id : Nat, at : Nat]
StoredIssue == [state : {"open", "closed"}, body : {"text"}, createdAt : Nat, updatedAt : Nat,
                comments : Seq(Message), review : {NoReview}, blocks : {{}}]

IssuesStored(board) == board.issues \in [DOMAIN board.issues -> StoredIssue]
Floored(board, time) == \A i \in DOMAIN board.issues : ThreadInOrder(board.issues[i].comments, time)

FormatInv == /\ rejected = FALSE
             /\ format # "refused" => /\ latest \in Nat
                                      /\ IssuesStored(boardNow)
                                      /\ Floored(boardNow, latest)

\* Max is the latest of some times that are bounded.
LEMMA LatestOfTimes ==
  ASSUME NEW N \in Nat, NEW S, S \subseteq 0..N, S # {}
  PROVE  Max(S) \in S /\ \A time \in S : time <= Max(S)
<1>. DEFINE Before == {N - time : time \in S}
<1>1. Before \subseteq Nat /\ Before # {}
  <2>1. ASSUME NEW time \in S PROVE N - time \in Nat
    BY time \in 0..N
  <2>2. PICK time : time \in S
    OBVIOUS
  <2>3. N - time \in Before
    BY <2>2
  <2>. QED BY <2>1, <2>3
<1>2. PICK least \in Before : \A time \in Before : least <= time
  <2>. HIDE DEF Before
  <2>. QED BY <1>1, LeastElement
<1>3. N - least \in S
  BY <1>2
<1>4. ASSUME NEW time \in S PROVE N - least >= time
  <2>1. N - time \in Before OBVIOUS
  <2>2. least <= N - time BY <1>2, <2>1
  <2>. QED BY <2>2, <1>1, <1>2
<1>5. \E latestTime \in S : \A time \in S : latestTime >= time
  BY <1>3, <1>4
<1>6. Max(S) \in S /\ \A time \in S : Max(S) >= time
  BY <1>5 DEF Max
<1>. QED BY <1>6

\* A board as a migration may leave it: the messages of its threads are as
\* they were.
Alike(persisted) ==
    {board \in PersistedBoard :
        /\ DOMAIN board.issues = DOMAIN persisted.issues
        /\ \A i \in DOMAIN board.issues : board.issues[i].messages = persisted.issues[i].messages}

\* No migration touches a message.
LEMMA LiftKeepsMessages ==
  ASSUME NEW persisted, NEW board \in Alike(persisted), NEW version \in Nat
  PROVE  Lift(board, version) \in Alike(persisted)
<1>1. board \in PersistedBoard
  BY DEF Alike
<1>2. board.issues \in Seq(PersistedIssue)
  BY <1>1 DEF PersistedBoard
<1>3. CASE version = 4
  <2>. DEFINE text == [i \in DOMAIN board.issues |-> [board.issues[i] EXCEPT !.number.form = "text"]]
  <2>1. Lift(board, version) = [board EXCEPT !.version = 5, !.places = << >>, !.issues = text]
    BY <1>1, <1>3 DEF Lift, PersistedBoard
  <2>2. ASSUME NEW i \in DOMAIN board.issues
        PROVE  text[i] \in PersistedIssue /\ text[i].messages = board.issues[i].messages
    <3>1. board.issues[i] \in PersistedIssue
      BY <1>2
    <3>2. [board.issues[i] EXCEPT !.number.form = "text"] \in PersistedIssue
      BY <3>1 DEF PersistedIssue, Wire, Forms
    <3>3. [board.issues[i] EXCEPT !.number.form = "text"].messages = board.issues[i].messages
      BY <3>1 DEF PersistedIssue
    <3>. QED BY <3>2, <3>3
  <2>3. text \in Seq(PersistedIssue) /\ DOMAIN text = DOMAIN board.issues
    <3>1. PICK n \in Nat : DOMAIN board.issues = 1..n
      BY <1>2
    <3>2. text \in [1..n -> PersistedIssue]
      BY <2>2, <3>1
    <3>. QED BY <3>1, <3>2
  <2>. HIDE DEF text
  <2>. DEFINE none == << >>
  <2>4. none \in Seq(Resource)
    OBVIOUS
  <2>. HIDE DEF none
  <2>5. Lift(board, version) = [board EXCEPT !.version = 5, !.places = none, !.issues = text]
    BY <2>1 DEF none
  <2>6. Lift(board, version) \in PersistedBoard /\ Lift(board, version).issues = text
    <3>1. Lift(board, version) = [version |-> 5, next |-> board.next, issues |-> text, places |-> none]
      BY <1>1, <2>5, Zenon DEF PersistedBoard
    <3>2. board.next \in Nat
      BY <1>1 DEF PersistedBoard
    <3>3. text \in Seq(PersistedIssue)
      BY <2>3
    <3>. QED BY <3>1, <3>2, <3>3, <2>4 DEF PersistedBoard
  <2>. QED BY <2>2, <2>3, <2>6 DEF Alike
<1>4. CASE version # 4
  <2>1. Lift(board, version) = [board EXCEPT !.version = version + 1]
    BY <1>4 DEF Lift
  <2>2. Lift(board, version) \in PersistedBoard /\ Lift(board, version).issues = board.issues
    BY <1>1, <2>1 DEF PersistedBoard
  <2>. QED BY <2>2 DEF Alike
<1>. QED BY <1>3, <1>4

\* migratePersistedBoard leaves every message where it was, whatever the
\* version it begins from.
LEMMA MigratedKeepsMessages ==
  ASSUME NEW persisted \in PersistedBoard
  PROVE  Migrated(persisted).board \in Alike(persisted)
<1>. DEFINE chain == Chain(persisted.version)
            T == [ok : BOOLEAN, board : Alike(persisted)]
            Opening == [ok |-> HasPath(persisted.version), board |-> persisted]
            LiftTurn(lifted, version) == [ok |-> lifted.ok /\ ParsePersisted(lifted.board),
                                      board |-> Lift(lifted.board, version)]
<1>1. chain \in Seq(Nat)
  <2>1. persisted.version \in Nat
    BY DEF PersistedBoard
  <2>2. CASE persisted.version \in OldestFormat..CurrentFormat
    <3>1. chain = [i \in 1..(CurrentFormat - persisted.version) |-> persisted.version + i - 1]
      BY <2>2 DEF Chain
    <3>2. CurrentFormat - persisted.version \in Nat
      BY <2>2 DEF OldestFormat, CurrentFormat
    <3>3. chain \in [1..(CurrentFormat - persisted.version) -> Nat]
      BY <2>1, <3>1, <3>2
    <3>. HIDE DEF chain
    <3>. QED BY <3>2, <3>3
  <2>3. CASE persisted.version \notin OldestFormat..CurrentFormat
    BY <2>3 DEF Chain
  <2>. QED BY <2>2, <2>3
<1>. HIDE DEF chain
<1>2. PICK N \in Nat : N = Len(chain) /\ \A n \in 1..N : chain[n] \in Nat
  BY <1>1
<1>2a. ASSUME NEW f, NEW g, f[0] = g[0], \A n \in 1..N : f[n - 1] = g[n - 1] => f[n] = g[n]
      PROVE  \A n \in 0..N : f[n] = g[n]
  BY <1>2a, IterationIsOne
<1>3. Opening \in T
  <2>1. persisted \in Alike(persisted)
    BY DEF Alike
  <2>2. HasPath(persisted.version) \in BOOLEAN
    BY DEF HasPath
  <2>. QED BY <2>1, <2>2, Zenon
<1>4. ASSUME NEW lifted \in T, NEW version \in Nat PROVE LiftTurn(lifted, version) \in T
  <2>1. lifted.board \in Alike(persisted)
    BY Zenon
  <2>2. Lift(lifted.board, version) \in Alike(persisted)
    BY <2>1, LiftKeepsMessages
  <2>3. (lifted.ok /\ ParsePersisted(lifted.board)) \in BOOLEAN
    OBVIOUS
  <2>. QED BY <2>2, <2>3, Zenon
<1>. DEFINE Step == [p \in (1..N) \X T |-> LiftTurn(p[2], chain[p[1]])]
            Body(f) == [n \in 0..N |-> IF n = 0 THEN Opening ELSE LiftTurn(f[n - 1], chain[n])]
            found == CHOOSE f : f = Body(f)
<1>5. Migrated(persisted) = found[N]
  BY <1>2, Zenon DEF Migrated, chain
<1>. HIDE DEF T, Opening, LiftTurn
<1>6. Step \in [(1..N) \X T -> T] /\ \A n \in 1..N : \A lifted \in T : Step[<<n, lifted>>] = LiftTurn(lifted, chain[n])
  BY <1>2, <1>4
<1>. HIDE DEF Step
<1>7. PICK v \in [0..N -> T] : Turns(v, N, Opening, Step)
  BY <1>2, <1>3, <1>6, IterationExists
<1>8. v = Body(v)
  <2>1. ASSUME NEW n \in 0..N PROVE v[n] = Body(v)[n]
    <3>1. CASE n = 0
      BY <1>7, <3>1 DEF Turns
    <3>2. CASE n # 0
      <4>1. n \in 1..N /\ n - 1 \in 0..N BY <1>2, <3>2
      <4>2. v[n] = LiftTurn(v[n - 1], chain[n]) BY <1>6, <1>7, <4>1 DEF Turns
      <4>. QED BY <3>2, <4>2
    <3>. QED BY <3>1, <3>2
  <2>. QED BY <2>1
<1>9. found = Body(found)
  BY <1>8
<1>. HIDE DEF found
<1>10. /\ found[0] = Opening
       /\ \A n \in 1..N : found[n] = LiftTurn(found[n - 1], chain[n])
  <2>1. \A n \in 0..N : found[n] = IF n = 0 THEN Opening ELSE LiftTurn(found[n - 1], chain[n])
    BY <1>9
  <2>. QED BY <2>1, <1>2
<1>11. \A n \in 1..N : found[n - 1] = v[n - 1] => found[n] = v[n]
  <2>1. \A n \in 1..N : v[n] = LiftTurn(v[n - 1], chain[n])
    <3>1. ASSUME NEW n \in 1..N PROVE v[n] = LiftTurn(v[n - 1], chain[n])
      <4>1. v[n - 1] \in T BY <1>2
      <4>. QED BY <4>1, <1>6, <1>7 DEF Turns
    <3>. QED BY <3>1
  <2>. QED BY <1>10, <2>1
<1>12. found[0] = v[0]
  BY <1>7, <1>10 DEF Turns
<1>13. found[N] = v[N]
  <2>1. \A n \in 0..N : found[n] = v[n]
    BY <1>11, <1>12, <1>2a
  <2>. QED BY <2>1
<1>14. found[N] \in T
  BY <1>2, <1>13
<1>. QED BY <1>5, <1>14, Zenon DEF T

\* A board that opens had its messages in order as it was persisted.
LEMMA OpenedInOrder ==
  ASSUME NEW persisted \in PersistedBoard, Opens(persisted)
  PROVE  MessagesInOrder(persisted)
<1>1. Migrated(persisted).board \in Alike(persisted)
  BY MigratedKeepsMessages
<1>2. MessagesInOrder(Migrated(persisted).board)
  BY DEF Opens, ParsesAsCurrent
<1>. QED BY <1>1, <1>2 DEF MessagesInOrder, Alike

\* The issues of the board it becomes are its issues, their messages with the
\* times they had.
LEMMA BoardOfIssues ==
  ASSUME NEW persisted \in PersistedBoard, LastTime \in Nat
  PROVE  LET board == BoardOf(persisted)
         IN  /\ IssuesStored(board)
             /\ \A i \in DOMAIN board.issues :
                    /\ board.issues[i].createdAt \in Times
                    /\ board.issues[i].updatedAt \in Times
                    /\ \E n \in DOMAIN persisted.issues :
                         LET messages == persisted.issues[n].messages
                         IN  /\ messages \in Seq(Times)
                             /\ board.issues[i].comments = [j \in DOMAIN messages |-> [id |-> 0, at |-> messages[j]]]
<1>. DEFINE board == BoardOf(persisted)
            list == persisted.issues
            Ids == {w.id : w \in Wires(persisted)}
            place(i) == CHOOSE n \in DOMAIN list : list[n].number.id = i
<1>1. list \in Seq(PersistedIssue)
  BY DEF PersistedBoard
<1>2. board.issues = [i \in Ids |-> IssueOf(list[place(i)])]
  BY Zenon DEF BoardOf
<1>3. ASSUME NEW i \in Ids
      PROVE  place(i) \in DOMAIN list
  BY DEF Wires
<1>. HIDE DEF board, list, place, Ids
<1>4. ASSUME NEW i \in Ids
      PROVE  LET messages == list[place(i)].messages
             IN  /\ messages \in Seq(Times)
                 /\ board.issues[i] \in StoredIssue
                 /\ board.issues[i].createdAt \in Times
                 /\ board.issues[i].updatedAt \in Times
                 /\ board.issues[i].comments = [j \in DOMAIN messages |-> [id |-> 0, at |-> messages[j]]]
  <2>. DEFINE issue == list[place(i)]
              comments == [j \in DOMAIN issue.messages |-> [id |-> 0, at |-> issue.messages[j]]]
  <2>1. issue \in PersistedIssue
    BY <1>1, <1>3
  <2>2. issue.messages \in Seq(Times) /\ issue.state \in {"open", "closed"}
        /\ issue.createdAt \in Times /\ issue.updatedAt \in Times
    BY <2>1 DEF PersistedIssue
  <2>3. board.issues[i] = IssueOf(issue)
    BY <1>2, Zenon
  <2>. HIDE DEF issue
  <2>4. IssueOf(issue) = [state |-> issue.state, body |-> "text", createdAt |-> issue.createdAt,
                          updatedAt |-> issue.updatedAt, comments |-> comments,
                          review |-> NoReview, blocks |-> {}]
    BY Zenon DEF IssueOf
  <2>5. comments \in Seq(Message)
    <3>1. PICK n \in Nat : DOMAIN issue.messages = 1..n
      BY <2>2
    <3>2. ASSUME NEW j \in 1..n PROVE issue.messages[j] \in Nat
      BY <2>2, <3>1 DEF Times
    <3>3. comments \in [1..n -> Message]
      BY <3>1, <3>2 DEF Message
    <3>. HIDE DEF comments
    <3>. QED BY <3>3
  <2>. HIDE DEF comments
  <2>6. issue.createdAt \in Nat /\ issue.updatedAt \in Nat
    BY <2>2 DEF Times
  <2>7. IssueOf(issue) \in StoredIssue
    BY <2>2, <2>4, <2>5, <2>6 DEF StoredIssue
  <2>8. /\ IssueOf(issue).comments = comments
        /\ IssueOf(issue).createdAt = issue.createdAt
        /\ IssueOf(issue).updatedAt = issue.updatedAt
    BY <2>4
  <2>. QED BY <2>2, <2>3, <2>7, <2>8 DEF issue, comments
<1>5. DOMAIN board.issues = Ids
  BY <1>2
<1>6. board.issues \in [Ids -> StoredIssue]
  <2>1. \A i \in Ids : board.issues[i] \in StoredIssue
    BY <1>4
  <2>2. board.issues = [i \in Ids |-> board.issues[i]]
    BY <1>2
  <2>. QED BY <2>1, <2>2
<1>7. IssuesStored(board)
  BY <1>5, <1>6 DEF IssuesStored
<1>. QED BY <1>3, <1>4, <1>5, <1>7, Zenon DEF board, list

\* initialize, and the first operation of a log, begin above every message.
LEMMA FloorsBegin ==
  ASSUME NEW persisted \in PersistedBoard, Opens(persisted), LastTime \in Nat, NEW now \in Times
  PROVE  LET board == BoardOf(persisted)
         IN  /\ IssuesStored(board)
             /\ LatestBoardTimestamp(board, now) \in Times
             /\ Floored(board, LatestBoardTimestamp(board, now))
<1>. DEFINE board == BoardOf(persisted)
            S(issue) == {issue.createdAt, issue.updatedAt} \cup {comment.at : comment \in ToSet(issue.comments)}
            All == {now} \cup UNION {S(issue) : issue \in Range(board.issues)}
<1>1. LatestBoardTimestamp(board, now) = Max(All)
  BY Zenon DEF LatestBoardTimestamp
<1>2. IssuesStored(board) /\ \A i \in DOMAIN board.issues :
                    /\ board.issues[i].createdAt \in Times
                    /\ board.issues[i].updatedAt \in Times
                    /\ \E n \in DOMAIN persisted.issues :
                         LET messages == persisted.issues[n].messages
                         IN  /\ messages \in Seq(Times)
                             /\ board.issues[i].comments = [j \in DOMAIN messages |-> [id |-> 0, at |-> messages[j]]]
  BY BoardOfIssues, Zenon
<1>3. MessagesInOrder(persisted)
  BY OpenedInOrder
<1>. HIDE DEF board
<1>4. ASSUME NEW i \in DOMAIN board.issues
      PROVE  LET comments == board.issues[i].comments
             IN  /\ \A j \in DOMAIN comments : comments[j].at \in Times
                 /\ \A j, k \in DOMAIN comments : j <= k => comments[j].at <= comments[k].at
  <2>1. PICK n \in DOMAIN persisted.issues :
                LET messages == persisted.issues[n].messages
                IN  /\ messages \in Seq(Times)
                    /\ board.issues[i].comments = [j \in DOMAIN messages |-> [id |-> 0, at |-> messages[j]]]
    BY <1>2
  <2>2. PICK messages \in Seq(Times) : messages = persisted.issues[n].messages
    BY <2>1
  <2>3. Chronological(messages)
    BY <1>3, <2>2 DEF MessagesInOrder
  <2>4. board.issues[i].comments = [j \in DOMAIN messages |-> [id |-> 0, at |-> messages[j]]]
    BY <2>1, <2>2
  <2>. QED BY <2>3, <2>4 DEF Chronological
<1>5. All \subseteq Times
  <2>1. ASSUME NEW i \in DOMAIN board.issues
        PROVE  S(board.issues[i]) \subseteq Times
    BY <1>2, <1>4 DEF ToSet
  <2>. HIDE DEF S
  <2>. QED BY <2>1 DEF Range
<1>6. ASSUME NEW i \in DOMAIN board.issues, NEW j \in DOMAIN board.issues[i].comments
      PROVE  board.issues[i].comments[j].at \in All
  <2>1. board.issues[i].comments[j].at \in S(board.issues[i])
    BY DEF ToSet
  <2>. HIDE DEF S
  <2>. QED BY <2>1 DEF Range
<1>7. All # {}
  OBVIOUS
<1>. HIDE DEF All, S
<1>8. Max(All) \in All /\ \A time \in All : time <= Max(All)
  BY <1>5, <1>7, LatestOfTimes DEF Times
<1>9. Floored(board, Max(All))
  BY <1>4, <1>6, <1>8 DEF Floored, ThreadInOrder
<1>. QED BY <1>1, <1>2, <1>5, <1>8, <1>9 DEF board

\* The message of an operation is one.
LEMMA NewMessage ==
  ASSUME NEW time \in Nat
  PROVE  [id |-> 1, at |-> time] \in Message /\ [id |-> 1, at |-> time].at = time
BY DEF Message

\* A message at the end of a thread, or none, leaves it in order.
LEMMA StaysInOrder ==
  ASSUME NEW comments \in Seq(Message), NEW time \in Nat, NEW later \in Nat, time <= later,
         ThreadInOrder(comments, time)
  PROVE  /\ ThreadInOrder(comments, later)
         /\ ThreadInOrder(Append(comments, [id |-> 1, at |-> later]), later)
         /\ Append(comments, [id |-> 1, at |-> later]) \in Seq(Message)
<1>1. PICK message \in Message : message = [id |-> 1, at |-> later] /\ message.at = later
  BY NewMessage
<1>2. \A j \in DOMAIN comments : comments[j].at \in Nat
  <2>1. \A j \in DOMAIN comments : comments[j] \in Message
    OBVIOUS
  <2>. QED BY <2>1 DEF Message
<1>3. ThreadInOrder(comments, later)
  BY <1>2 DEF ThreadInOrder
<1>4. Append(comments, message) \in Seq(Message)
  OBVIOUS
<1>5. ThreadInOrder(Append(comments, message), later)
  <2>. DEFINE longer == Append(comments, message)
  <2>1. /\ DOMAIN longer = 1..(Len(comments) + 1) /\ Len(comments) \in Nat
        /\ longer[Len(comments) + 1] = message
        /\ \A j \in DOMAIN comments : longer[j] = comments[j]
        /\ DOMAIN comments = 1..Len(comments)
    OBVIOUS
  <2>. HIDE DEF longer
  <2>2. ASSUME NEW j \in DOMAIN longer, NEW k \in DOMAIN longer
        PROVE  longer[j].at <= later /\ (j <= k => longer[j].at <= longer[k].at)
    <3>1. CASE j \in DOMAIN comments /\ k \in DOMAIN comments
      BY <1>3, <2>1, <3>1 DEF ThreadInOrder
    <3>2. CASE j \in DOMAIN comments /\ k = Len(comments) + 1
      BY <1>1, <1>3, <2>1, <3>2 DEF ThreadInOrder
    <3>3. CASE j = Len(comments) + 1
      <4>1. j <= k => k = Len(comments) + 1 BY <2>1, <3>3
      <4>. QED BY <1>1, <2>1, <3>3, <4>1
    <3>. QED BY <2>1, <3>1, <3>2, <3>3
  <2>. QED BY <2>2 DEF ThreadInOrder, longer
<1>. QED BY <1>1, <1>3, <1>4, <1>5

\* What an operation of a client looks like once it is parsed.
Parsed(op, time) == /\ op.kind \in Numbered \cup {"reorder"}
                    /\ op.at = time
                    /\ op.id = 1
                    /\ op.body = "text"

\* The issue an operation is on stays one, its thread in order.
LEMMA IssueAfterFloored ==
  ASSUME NEW op, NEW time \in Nat, NEW later \in Nat, time <= later,
         Parsed(op, later), op.kind \in {"edit", "comment", "close", "reopen"},
         NEW issue \in StoredIssue, ThreadInOrder(issue.comments, time)
  PROVE  IssueAfter(op, issue) \in StoredIssue /\ ThreadInOrder(IssueAfter(op, issue).comments, later)
<1>. DEFINE touched == [issue EXCEPT !.updatedAt = op.at]
<1>1. touched \in StoredIssue /\ touched.comments = issue.comments
  BY DEF StoredIssue, Parsed
<1>2. issue.comments \in Seq(Message)
  BY DEF StoredIssue
<1>. HIDE DEF touched
<1>3. CASE op.kind = "edit"
  <2>1. IssueAfter(op, issue) = [touched EXCEPT !.body = op.body]
    BY <1>3 DEF IssueAfter, touched
  <2>. QED BY <1>1, <1>2, <2>1, StaysInOrder DEF Parsed, StoredIssue
<1>4. CASE op.kind = "comment"
  <2>1. IssueAfter(op, issue) = [touched EXCEPT !.comments = Append(@, [id |-> op.id, at |-> op.at])]
    BY <1>4, Zenon DEF IssueAfter, touched
  <2>2. PICK comments : comments = Append(touched.comments, [id |-> 1, at |-> later])
    OBVIOUS
  <2>3. comments \in Seq(Message) /\ ThreadInOrder(comments, later)
    BY <1>1, <1>2, <2>2, StaysInOrder
  <2>4. IssueAfter(op, issue) = [touched EXCEPT !.comments = comments]
    BY <2>1, <2>2 DEF Parsed
  <2>. QED BY <1>1, <2>3, <2>4 DEF StoredIssue
<1>5. CASE op.kind = "close"
  <2>1. IssueAfter(op, issue) = [touched EXCEPT !.state = "closed"]
    BY <1>5 DEF IssueAfter, touched
  <2>. QED BY <1>1, <1>2, <2>1, StaysInOrder DEF StoredIssue
<1>6. CASE op.kind = "reopen"
  <2>1. IssueAfter(op, issue) = [touched EXCEPT !.state = "open"]
    BY <1>6 DEF IssueAfter, touched
  <2>. QED BY <1>1, <1>2, <2>1, StaysInOrder DEF StoredIssue
<1>. QED BY <1>3, <1>4, <1>5, <1>6

\* applyBoardMutation of an operation that is not before the floor leaves a
\* board whose every thread is in order, up to its own timestamp.
LEMMA MutationFloored ==
  ASSUME NEW op, NEW board, NEW time \in Nat, NEW later \in Nat, time <= later,
         Parsed(op, later), Applicable(op, board),
         IssuesStored(board), Floored(board, time)
  PROVE  LET after == ApplyBoardMutation(op, board)
         IN  IssuesStored(after) /\ Floored(after, later)
<1>. DEFINE after == ApplyBoardMutation(op, board)
            old == board.issues
            new == IssuesAfter(op, old)
<1>1. after.issues = new
  BY DEF ApplyBoardMutation
<1>2. old \in [DOMAIN old -> StoredIssue] /\ \A i \in DOMAIN old : ThreadInOrder(old[i].comments, time)
  BY DEF IssuesStored, Floored
<1>3. \A i \in DOMAIN old : ThreadInOrder(old[i].comments, later)
  <2>1. ASSUME NEW i \in DOMAIN old PROVE ThreadInOrder(old[i].comments, later)
    <3>1. old[i].comments \in Seq(Message)
      BY <1>2 DEF StoredIssue
    <3>. QED BY <1>2, <3>1, StaysInOrder
  <2>. QED BY <2>1
<1>4. new \in [DOMAIN new -> StoredIssue] /\ \A i \in DOMAIN new : ThreadInOrder(new[i].comments, later)
  <2>1. CASE op.kind = "create"
    <3>1. NewIssue(op) \in StoredIssue /\ NewIssue(op).comments = << >>
      <4>1. << >> \in Seq(Message) OBVIOUS
      <4>. QED BY <4>1 DEF NewIssue, StoredIssue, Parsed
    <3>2. new = [i \in DOMAIN old \union {op.number} |-> IF i = op.number THEN NewIssue(op) ELSE old[i]]
      BY <2>1, Zenon DEF IssuesAfter
    <3>3. ThreadInOrder(NewIssue(op).comments, later)
      BY <3>1 DEF ThreadInOrder
    <3>. HIDE DEF new, old
    <3>. QED BY <1>2, <1>3, <3>1, <3>2, <3>3
  <2>2. CASE op.kind \in {"edit", "comment", "close", "reopen"}
    <3>1. op.number \in DOMAIN old
      BY <2>2 DEF Applicable
    <3>2. new = [old EXCEPT ![op.number] = IssueAfter(op, @)]
      BY <2>2 DEF IssuesAfter
    <3>3. PICK issue \in StoredIssue : issue = old[op.number] /\ ThreadInOrder(issue.comments, time)
      BY <1>2, <3>1
    <3>4. PICK next : next = IssueAfter(op, issue)
      OBVIOUS
    <3>5. next \in StoredIssue /\ ThreadInOrder(next.comments, later)
      BY <2>2, <3>3, <3>4, IssueAfterFloored
    <3>6. new = [old EXCEPT ![op.number] = next]
      BY <3>2, <3>3, <3>4
    <3>. HIDE DEF new, old
    <3>. QED BY <1>2, <1>3, <3>1, <3>5, <3>6
  <2>3. CASE op.kind = "delete"
    <3>1. new = [i \in DOMAIN old \ {op.number} |-> old[i]]
      BY <2>3 DEF IssuesAfter
    <3>. HIDE DEF new, old
    <3>. QED BY <1>2, <1>3, <3>1
  <2>4. CASE op.kind = "reorder"
    <3>1. new = old
      BY <2>4 DEF IssuesAfter
    <3>. HIDE DEF new, old
    <3>. QED BY <1>2, <1>3, <3>1
  <2>. QED BY <2>1, <2>2, <2>3, <2>4 DEF Parsed, Numbered
<1>. QED BY <1>1, <1>4 DEF IssuesStored, Floored

\* A board whose threads are in order is parsed again.
LEMMA FlooredParses ==
  ASSUME NEW board, NEW time \in Nat, IssuesStored(board), Floored(board, time)
  PROVE  ParsesAgain(board)
BY DEF ParsesAgain, Floored, ThreadInOrder, Chronological

\* So no operation the rules allow is refused, and the floor rises with it.
LEMMA ApplyFloored ==
  ASSUME NEW op, NEW later \in Nat, latest <= later,
         op.kind \in Numbered \cup {"reorder"}, op.at = later, op.id = 1,
         FormatInv, format # "refused", Apply(op), format' # "refused"
  PROVE  FormatInv'
<1>1. PICK plain : plain = Plain(op)
  OBVIOUS
<1>2. Parsed(plain, later)
  BY <1>1, Zenon DEF Parsed, Plain
<1>3. Applicable(plain, boardNow)
  BY <1>1 DEF Apply, Allowed
<1>4. PICK after : after = ApplyBoardMutation(plain, boardNow)
  OBVIOUS
<1>5. latest \in Nat /\ IssuesStored(boardNow) /\ Floored(boardNow, latest) /\ rejected = FALSE
  BY DEF FormatInv
<1>6. IssuesStored(after) /\ Floored(after, later)
  <2>1. PICK time \in Nat : time = latest
    BY <1>5
  <2>2. PICK board : board = boardNow
    OBVIOUS
  <2>. QED BY <1>2, <1>3, <1>4, <1>5, <2>1, <2>2, MutationFloored
<1>7. ParsesAgain(after)
  BY <1>6, FlooredParses
<1>8. boardNow' = after /\ latest' = later /\ rejected' = rejected
  BY <1>1, <1>4, <1>7 DEF Apply
<1>. QED BY <1>5, <1>6, <1>8 DEF FormatInv, IssuesStored, Floored

\* The operations looked at have the time they are given.
LEMMA OperationsAt ==
  ASSUME NEW now, NEW forms, NEW op \in Operations(now, forms)
  PROVE  op.kind \in Numbered \cup {"reorder"} /\ op.at = now /\ op.id = 1
BY DEF Operations

LEMMA FormatInitially == FormatInit => FormatInv
<1>1. SUFFICES ASSUME NEW persisted \in Persisted, NEW now \in Times, BeginsFrom(persisted, now)
               PROVE  FormatInv
  BY DEF FormatInit
<1>2. persisted \in PersistedBoard /\ LastTime \in Nat
  BY FormatsAssumption
<1>3. rejected = FALSE /\ (format # "refused" => Opens(persisted))
  BY <1>1, Zenon DEF BeginsFrom
<1>4. SUFFICES ASSUME Opens(persisted)
               PROVE  latest \in Nat /\ IssuesStored(boardNow) /\ Floored(boardNow, latest)
  BY <1>3, Zenon DEF FormatInv
<1>5. PICK board : board = BoardOf(persisted)
  OBVIOUS
<1>6. /\ boardNow = board
      /\ \/ latest = AtOrAfter(now, LatestBoardTimestamp(board, 0))
         \/ latest = LatestBoardTimestamp(board, now)
  BY <1>1, <1>4, <1>5, Zenon DEF BeginsFrom
<1>7. CASE latest = LatestBoardTimestamp(board, now)
  BY <1>2, <1>4, <1>5, <1>6, <1>7, FloorsBegin DEF Times
<1>8. CASE latest = AtOrAfter(now, LatestBoardTimestamp(board, 0))
  <2>1. 0 \in Times
    BY <1>2 DEF Times
  <2>2. PICK level \in Times : level = LatestBoardTimestamp(board, 0) /\ IssuesStored(board) /\ Floored(board, level)
    BY <1>2, <1>4, <1>5, <2>1, FloorsBegin
  <2>3. latest \in Nat /\ level <= latest
    BY <1>2, <1>8, <2>2, LatestOfTimes, {now, level} \subseteq 0..LastTime DEF AtOrAfter, Times
  <2>4. Floored(board, latest)
    <3>1. ASSUME NEW i \in DOMAIN board.issues
          PROVE  ThreadInOrder(board.issues[i].comments, latest)
      <4>1. board.issues[i].comments \in Seq(Message) /\ ThreadInOrder(board.issues[i].comments, level)
        BY <2>2 DEF IssuesStored, Floored, StoredIssue
      <4>2. PICK comments \in Seq(Message), later \in Nat : comments = board.issues[i].comments /\ later = latest
        BY <2>3, <4>1
      <4>3. ThreadInOrder(comments, later)
        <5>1. level \in Nat /\ level <= later
          BY <2>3, <4>2 DEF Times
        <5>. QED BY <4>1, <4>2, <5>1, StaysInOrder
      <4>. QED BY <4>2, <4>3
    <3>. QED BY <3>1 DEF Floored
  <2>. QED BY <1>6, <2>2, <2>3, <2>4
<1>. QED BY <1>6, <1>7, <1>8

LEMMA FormatStep == FormatInv /\ [FormatNext]_formatVars => FormatInv'
<1>1. SUFFICES ASSUME FormatInv, [FormatNext]_formatVars
               PROVE  FormatInv'
  OBVIOUS
<1>2. CASE LogAppend
  <2>1. PICK now \in Times : now >= latest /\ \E op \in Operations(now, Forms) : Apply(op)
    BY <1>2 DEF LogAppend
  <2>2. PICK op \in Operations(now, Forms) : Apply(op)
    BY <2>1
  <2>3. op.kind \in Numbered \cup {"reorder"} /\ op.at = now /\ op.id = 1
    BY OperationsAt
  <2>4. format = "log" /\ format' = format /\ now \in Nat
    BY <1>2 DEF LogAppend, Times
  <2>5. latest \in Nat /\ latest <= now
    BY <1>1, <2>1, <2>4 DEF FormatInv
  <2>. QED BY <1>1, <2>2, <2>3, <2>4, <2>5, ApplyFloored
<1>3. CASE Shard
  BY <1>1, <1>3 DEF Shard, FormatInv, IssuesStored, Floored
<1>4. CASE ShardAppend
  <2>1. PICK now \in Times : \E op \in Operations(AtOrAfter(now, latest), {"text"}) : Apply(op)
    BY <1>4 DEF ShardAppend
  <2>2. format = "sharded" /\ format' = format /\ now \in Nat
    BY <1>4 DEF ShardAppend, Times
  <2>3. latest \in Nat
    BY <1>1, <2>2 DEF FormatInv
  <2>4. PICK time : time = AtOrAfter(now, latest)
    OBVIOUS
  <2>5. time \in Nat /\ latest <= time
    <3>1. PICK level \in Nat : level = latest
      BY <2>3
    <3>2. {now, level} \subseteq 0..(now + level) /\ now + level \in Nat
      BY <2>2
    <3>3. Max({now, level}) \in {now, level} /\ level <= Max({now, level})
      BY <3>2, LatestOfTimes
    <3>. QED BY <2>2, <2>4, <3>1, <3>3 DEF AtOrAfter
  <2>6. PICK op \in Operations(time, {"text"}) : Apply(op)
    BY <2>1, <2>4
  <2>7. op.kind \in Numbered \cup {"reorder"} /\ op.at = time /\ op.id = 1
    BY OperationsAt
  <2>. QED BY <1>1, <2>2, <2>5, <2>6, <2>7, ApplyFloored
<1>5. CASE UNCHANGED formatVars
  BY <1>1, <1>5 DEF formatVars, FormatInv, IssuesStored, Floored
<1>. QED BY <1>1, <1>2, <1>3, <1>4, <1>5 DEF FormatNext

\* No client is locked out by its clock: whatever boards of whatever versions
\* were persisted, whatever the clocks of the clients that append to them say,
\* applyBoardMutation never leaves a board parseBoard refuses for its order.
THEOREM NoClockLocksOut == FormatSpec => []NoneLockedOut
<1>1. FormatInv => NoneLockedOut
  BY DEF FormatInv, NoneLockedOut
<1>. QED BY <1>1, FormatInitially, FormatStep, PTL DEF FormatSpec

-----------------------------------------------------------------------------
(* WebBoard *)

Boards == [head : Nat, issues : SUBSET Issues, count : [Issues -> Int]]
Places == [selected : Issues \cup {NoIssue}, page : Int]
Pieces == [issue : Issues \cup {NoIssue}, page : Int, total : Int, head : Nat]

\* The board, the address and the pages that were read of it.
WebType == /\ srv \in Boards
           /\ address \in Places
           /\ conv \in Pieces
           /\ reads \in [Reads -> [asked : BOOLEAN, seen : Pieces]]
           /\ live \in Reads \cup {0}

\* No page is of a board to come, and the read that may still reach the screen
\* is of one no older than what is there.
InOrder == /\ conv.head <= srv.head
           /\ \A r \in Reads : reads[r].seen.head <= srv.head
           /\ live # 0 /\ reads[live].seen.head # 0 => reads[live].seen.head >= conv.head

WebInv == WebType /\ InOrder

\* What a step does to the pages: nothing; one more is asked for, what is on
\* screen staying there or leaving it; one is read from the board; one is over,
\* and reaches the screen if it is the live one.
Unread == UNCHANGED <<conv, reads, live>>
PageAsked  == /\ conv' \in {conv, NoPage}
          /\ \/ /\ live' = 0
                /\ UNCHANGED reads
             \/ \E r \in Reads, i \in Issues \cup {NoIssue}, p \in Int :
                   /\ live' = r
                   /\ reads' = [reads EXCEPT ![r] =
                         [asked |-> TRUE, seen |-> [NoPage EXCEPT !.issue = i, !.page = p]]]
Resolves == /\ UNCHANGED <<conv, live, srv>>
            /\ \E r \in Reads, n \in Int :
                  reads' = [reads EXCEPT ![r].seen = [@ EXCEPT !.head = srv.head, !.total = n]]
Closes   == \E r \in Reads :
                /\ reads' = [reads EXCEPT ![r] = FreeRead]
                /\ live' = IF r = live THEN 0 ELSE live
                /\ conv' = conv \/ (r = live /\ reads[r].seen.head # 0 /\ conv' = reads[r].seen)
Board == /\ srv' \in Boards
         /\ srv'.head \in {srv.head, srv.head + 1}
Place == address' \in Places

\* Page numbers stay integers.
LEMMA ClampType ==
  ASSUME NEW p \in Int, NEW n \in Int
  PROVE  Clamp(p, n) \in Int
BY WebAssumption DEF Clamp, Pages

LEMMA CommitType ==
  ASSUME srv \in Boards, NEW issues \in SUBSET Issues, NEW count \in [Issues -> Int], Commit(issues, count)
  PROVE  Board
<1>1. srv.head \in Nat
  BY DEF Boards
<1>2. srv' = [head |-> srv.head + 1, issues |-> issues, count |-> count]
  BY DEF Commit
<1>3. srv.head + 1 \in Nat
  BY <1>1
<1>. QED BY <1>2, <1>3 DEF Boards, Board

\* Every step is one of these.
LEMMA PageStep ==
  ASSUME WebType, WebNext
  PROVE  Board /\ Place /\ (Unread \/ PageAsked \/ Resolves \/ Closes)
<1>0. /\ UNCHANGED srv => Board
      /\ UNCHANGED address => Place
      /\ srv.issues \in SUBSET Issues
      /\ srv.count \in [Issues -> Int]
      /\ address.page \in Int /\ address.selected \in Issues \cup {NoIssue}
      /\ conv.page \in Int /\ conv.total \in Int
  BY DEF WebType, Board, Place, Boards, Places, Pieces
<1>a. \A i \in Issues : [srv.count EXCEPT ![i] = @ + 1] \in [Issues -> Int]
  BY <1>0
<1>b. \A p \in Int : [address EXCEPT !.page = p] \in Places
  BY DEF WebType, Places
<1>1. CASE OtherComments
  <2>1. Board BY <1>0, <1>1, <1>a, CommitType DEF OtherComments, WebType
  <2>. QED BY <1>0, <1>1, <2>1 DEF OtherComments, Unread
<1>2. CASE OtherDeletes
  <2>1. Board BY <1>0, <1>2, CommitType DEF OtherDeletes, WebType
  <2>. QED BY <1>0, <1>2, <2>1 DEF OtherDeletes, Unread
<1>3. CASE CorrectPage
  BY <1>0, <1>3, <1>b, ClampType DEF CorrectPage, Place, Unread
<1>4. CASE ClearMissing
  <2>1. Place BY <1>4 DEF ClearMissing, Place, WebType, Places
  <2>. QED BY <1>0, <1>4, <2>1 DEF ClearMissing, Unread
<1>5. CASE ReadConversation
  <2>1. UNCHANGED <<srv, address>> BY <1>5 DEF ReadConversation
  <2>2. PageAsked
    <3>1. conv' \in {conv, NoPage} BY <1>5 DEF ReadConversation
    <3>2. CASE live' = 0 /\ UNCHANGED reads BY <3>1, <3>2 DEF PageAsked
    <3>3. CASE \E r \in Reads :
                 /\ live' = r
                 /\ reads' = [reads EXCEPT ![r] =
                       [asked |-> TRUE, seen |-> [NoPage EXCEPT !.issue = address.selected,
                                                                !.page = address.page]]]
      BY <1>0, <3>1, <3>3 DEF PageAsked
    <3>. QED BY <1>5, <3>2, <3>3 DEF ReadConversation
  <2>. QED BY <1>0, <2>1, <2>2
<1>6. ASSUME NEW r \in Reads, Landing(r) PROVE Board /\ Place /\ (Resolves \/ Closes)
  <2>1. UNCHANGED <<srv, address>> BY <1>6 DEF Landing, ResolveRead, ReadLands, ReadFails
  <2>2. CASE ResolveRead(r)
    <3>1. srv.count[reads[r].seen.issue] \in Int
      BY <1>0, <2>2 DEF ResolveRead
    <3>. QED BY <1>0, <2>1, <2>2, <3>1 DEF ResolveRead, Resolves
  <2>3. CASE ReadLands(r) BY <1>0, <2>1, <2>3 DEF ReadLands, Closes
  <2>4. CASE ReadFails(r) BY <1>0, <2>1, <2>4 DEF ReadFails, Closes
  <2>. QED BY <1>6, <2>2, <2>3, <2>4 DEF Landing
<1>7. ASSUME NEW r \in Refreshes, AskRefresh(r) \/ Answer(r) PROVE Board /\ Place /\ Unread
  <2>1. address' \in {address, [address EXCEPT !.page = 1]}
    BY <1>7 DEF AskRefresh, Answer, ResolveRefresh, RefreshLands, RefreshFails, AfterReload
  <2>2. Place BY <1>0, <1>b, <2>1 DEF Place
  <2>. QED BY <1>0, <1>7, <2>2 DEF AskRefresh, Answer, ResolveRefresh, RefreshLands, RefreshFails, Unread
<1>8. ASSUME NEW r \in Refreshes, PostAnswered(r) PROVE Board /\ Place /\ Unread
  <2>1. CASE UNCHANGED srv BY <1>0, <1>8, <2>1 DEF PostAnswered, Unread
  <2>2. CASE /\ writing.issue \in srv.issues
             /\ Commit(srv.issues, [srv.count EXCEPT ![writing.issue] = @ + 1])
    <3>1. Board BY <1>0, <1>a, <2>2, CommitType DEF WebType
    <3>. QED BY <1>0, <1>8, <3>1 DEF PostAnswered, Unread
  <2>. QED BY <1>8, <2>1, <2>2 DEF PostAnswered
<1>9. CASE Navigate
  <2>1. Place
    <3>1. address' \in [selected : Issues \cup {NoIssue}, page : 1..MaxPage]
      BY <1>9 DEF Navigate
    <3>. QED BY <3>1 DEF Place, Places
  <2>. QED BY <1>0, <1>9, <2>1 DEF Navigate, Unread
<1>10. CASE PostComment
  BY <1>0, <1>10 DEF PostComment, Unread
<1>. QED BY <1>1, <1>2, <1>3, <1>4, <1>5, <1>6, <1>7, <1>8, <1>9, <1>10 DEF WebNext, Effects

\* None of them lets an older page overtake a newer one.
LEMMA WebStep ==
  ASSUME WebInv, WebNext
  PROVE  /\ WebInv'
         /\ conv.issue # NoIssue /\ conv'.issue = conv.issue /\ conv'.page = conv.page
              => conv'.head >= conv.head
<1>. USE WebAssumption
<1>1. Board /\ Place /\ (Unread \/ PageAsked \/ Resolves \/ Closes)
  BY PageStep DEF WebInv
<1>2. /\ srv.head \in Nat /\ srv'.head \in Nat /\ srv'.head >= srv.head
      /\ srv' \in Boards /\ address' \in Places
      /\ conv \in Pieces /\ conv.head \in Nat
      /\ reads \in [Reads -> [asked : BOOLEAN, seen : Pieces]]
      /\ \A r \in Reads : reads[r].seen \in Pieces /\ reads[r].seen.head \in Nat
      /\ live \in Reads \cup {0} /\ 0 \notin Reads
      /\ InOrder
  BY <1>1 DEF WebInv, WebType, Boards, Board, Place, Pieces
<1>3. NoPage \in Pieces /\ NoPage.head = 0 /\ NoPage.issue = NoIssue
  BY DEF NoPage, Pieces
<1>4. FreeRead \in [asked : BOOLEAN, seen : Pieces] /\ FreeRead.seen.head = 0
  BY <1>3 DEF FreeRead
<1>5. CASE Unread
  BY <1>2, <1>5 DEF Unread, WebInv, WebType, InOrder
<1>6. CASE PageAsked
  <2>1. conv' = conv \/ conv' = NoPage BY <1>6 DEF PageAsked
  <2>2. conv' \in Pieces /\ conv'.head <= srv'.head BY <1>2, <1>3, <2>1 DEF InOrder
  <2>3. CASE live' = 0 /\ UNCHANGED reads
    BY <1>2, <1>3, <2>1, <2>2, <2>3 DEF WebInv, WebType, InOrder
  <2>4. CASE live' # 0 \/ ~UNCHANGED reads
    <3>1. PICK r \in Reads, i \in Issues \cup {NoIssue}, p \in Int :
             /\ live' = r
             /\ reads' = [reads EXCEPT ![r] =
                   [asked |-> TRUE, seen |-> [NoPage EXCEPT !.issue = i, !.page = p]]]
      BY <1>6, <2>4 DEF PageAsked
    <3>. DEFINE piece == [NoPage EXCEPT !.issue = i, !.page = p]
    <3>2. piece \in Pieces /\ piece.head = 0 BY <1>3 DEF Pieces, NoPage
    <3>3. reads' = [reads EXCEPT ![r] = [asked |-> TRUE, seen |-> piece]] BY <3>1
    <3>. HIDE DEF piece
    <3>4. reads' \in [Reads -> [asked : BOOLEAN, seen : Pieces]]
      BY <1>2, <3>2, <3>3
    <3>5. \A q \in Reads : reads'[q].seen.head = IF q = r THEN 0 ELSE reads[q].seen.head
      BY <1>2, <3>2, <3>3
    <3>6. InOrder'
      BY <1>2, <2>2, <3>1, <3>5 DEF InOrder
    <3>7. WebInv'
      BY <1>2, <2>2, <3>1, <3>4, <3>6 DEF WebInv, WebType
    <3>. QED BY <1>2, <1>3, <2>1, <3>7
  <2>. QED BY <2>3, <2>4
<1>7. CASE Resolves
  <2>1. PICK r \in Reads, n \in Int :
           reads' = [reads EXCEPT ![r].seen = [@ EXCEPT !.head = srv.head, !.total = n]]
    BY <1>7 DEF Resolves
  <2>. DEFINE piece == [reads[r].seen EXCEPT !.head = srv.head, !.total = n]
  <2>a. piece \in Pieces /\ piece.head = srv.head
    <3>1. reads[r].seen \in Pieces BY <1>2
    <3>. QED BY <1>2, <3>1 DEF Pieces
  <2>b. reads' = [reads EXCEPT ![r] = [asked |-> reads[r].asked, seen |-> piece]]
    <3>1. reads' = [reads EXCEPT ![r].seen = piece]
      BY <2>1, <1>2
    <3>. HIDE DEF piece
    <3>2. reads' = [reads EXCEPT ![r] = [reads[r] EXCEPT !.seen = piece]]
      BY <3>1
    <3>3. reads[r] \in [asked : BOOLEAN, seen : Pieces]
      BY <1>2
    <3>4. [reads[r] EXCEPT !.seen = piece] = [asked |-> reads[r].asked, seen |-> piece]
      BY <3>3
    <3>. QED BY <3>2, <3>4
  <2>. HIDE DEF piece
  <2>2. reads' \in [Reads -> [asked : BOOLEAN, seen : Pieces]]
    BY <1>2, <2>a, <2>b
  <2>3. \A q \in Reads : reads'[q].seen.head = IF q = r THEN srv.head ELSE reads[q].seen.head
    BY <1>2, <2>a, <2>b
  <2>4. UNCHANGED <<conv, live, srv>> BY <1>7 DEF Resolves
  <2>5. InOrder' BY <1>2, <2>3, <2>4 DEF InOrder
  <2>. QED BY <1>2, <2>2, <2>4, <2>5 DEF WebInv, WebType
<1>8. CASE Closes
  <2>1. PICK r \in Reads :
           /\ reads' = [reads EXCEPT ![r] = FreeRead]
           /\ live' = IF r = live THEN 0 ELSE live
           /\ conv' = conv \/ (r = live /\ reads[r].seen.head # 0 /\ conv' = reads[r].seen)
    BY <1>8 DEF Closes
  <2>2. reads' \in [Reads -> [asked : BOOLEAN, seen : Pieces]]
    BY <1>2, <1>4, <2>1
  <2>3. \A q \in Reads : reads'[q].seen.head = IF q = r THEN 0 ELSE reads[q].seen.head
    BY <1>2, <1>4, <2>1
  <2>4. conv' \in Pieces /\ conv'.head <= srv'.head /\ conv'.head >= conv.head
    BY <1>2, <2>1 DEF InOrder
  <2>5. live' \in Reads \cup {0} /\ (live' # 0 => live' = live /\ live # r /\ conv' = conv)
    BY <1>2, <2>1
  <2>6. InOrder' BY <1>2, <2>3, <2>4, <2>5 DEF InOrder
  <2>. QED BY <1>2, <2>2, <2>4, <2>5, <2>6 DEF WebInv, WebType
<1>. QED BY <1>1, <1>5, <1>6, <1>7, <1>8

\* Nothing has been read.
LEMMA WebInitially == WebInit => WebInv
<1>. SUFFICES ASSUME WebInit PROVE WebInv
  OBVIOUS
<1>1. srv \in Boards /\ srv.head = 1
  <2>1. srv = [head |-> 1, issues |-> Start, count |-> [i \in Issues |-> 1]]
    BY DEF WebInit
  <2>. QED BY <2>1, WebAssumption DEF Boards
<1>2. address \in Places
  <2>1. address \in [selected : Issues \cup {NoIssue}, page : 1..MaxPage]
    BY DEF WebInit
  <2>. QED BY <2>1 DEF Places
<1>3. conv = NoPage /\ live = 0 /\ reads = [r \in Reads |-> FreeRead]
  BY DEF WebInit
<1>4. NoPage \in Pieces /\ NoPage.head = 0
  BY DEF NoPage, Pieces
<1>5. FreeRead \in [asked : BOOLEAN, seen : Pieces] /\ FreeRead.seen.head = 0
  BY <1>4 DEF FreeRead
<1>. QED BY <1>1, <1>2, <1>3, <1>4, <1>5 DEF WebInv, WebType, InOrder

\* A thread on screen never goes back in time, whatever order the reads of it
\* are answered in, and whatever is asked, posted or deleted meanwhile.
THEOREM ThreadGoesForward == WebSpec => ThreadNeverBack
<1>1. WebInv /\ [WebNext]_webVars => WebInv'
  BY WebStep DEF webVars, WebInv, WebType, InOrder
<1>2. WebInv /\ [WebNext]_webVars
        => [conv.issue # NoIssue /\ conv'.issue = conv.issue /\ conv'.page = conv.page
              => conv'.head >= conv.head]_webVars
  BY WebStep
<1>. QED BY WebInitially, <1>1, <1>2, PTL DEF WebSpec, ThreadNeverBack

-----------------------------------------------------------------------------
(* BoardSession *)

SessionKeys == {NoKey} \cup [root : Roots, fit : Fits]
AnyRoot     == Roots \cup {NoRoot}
Waiting     == {"idle", "verify", "anchor", "open", "read", "write", "create"}
CallRecords == [op : BoardCalls \cup {"none", "enable"}, tab : Tabs \cup {NoRoot}, at : Waiting,
          key : SessionKeys, answer : Nat]

Apis  == [key : SessionKeys, anchor : AnyRoot, head : Nat,
          accepted : BOOLEAN, rejected : BOOLEAN]

SessionType ==
    /\ site \in [root : AnyRoot, head : Nat, deleted : BOOLEAN]
    /\ tabs \in [Tabs -> Apis]
    /\ browser \in [key : SessionKeys, trust : AnyRoot, head : Nat]
    /\ slots \in [Slots -> CallRecords]

\* What the browser keeps is of the board, which is there by then.
Kept == /\ browser.key # NoKey => KeyOpens(browser.key)
        /\ browser.trust \in {NoRoot, site.root}

\* A tab has no key of another root than the one it trusts.
Trusted == \A t \in Tabs : tabs[t].key # NoKey => tabs[t].anchor = tabs[t].key.root

\* A call the store has answered is of the board; one that uses a key is of a
\* tab that trusts its root, unless the tab has since come to trust the board
\* itself, by creating it; the key cannot have been answered then.
AnsweredTruly(s) == slots[s].answer > 0 => KeyOpens(slots[s].key)
OfItsTab(s) ==
    /\ slots[s].at # "idle" => slots[s].tab \in Tabs
    /\ slots[s].at \in {"verify", "open", "read", "write"} => slots[s].key # NoKey
    /\ slots[s].at \in {"open", "read", "write"} =>
         \/ tabs[slots[s].tab].anchor = slots[s].key.root
         \/ tabs[slots[s].tab].anchor = site.root /\ site.root # NoRoot

SessionInv == /\ SessionType /\ Kept /\ Trusted
              /\ \A s \in Slots : AnsweredTruly(s) /\ OfItsTab(s)

\* A key that opens the board names its root.
LEMMA KeyOpensMeans ==
  ASSUME SessionType, NEW k \in SessionKeys, KeyOpens(k)
  PROVE  k # NoKey /\ k.root \in Roots /\ site.root = k.root /\ site.root # NoRoot
BY SessionAssumption DEF KeyOpens, SessionKeys, NoKey, KeyOf

\* How a step leaves the root a tab trusts, and the root of the board: each is
\* set once, but that a tab that creates the board goes over to it.
RootKept  == site'.root = site.root \/ site.root = NoRoot
TrustGoes == \A t \in Tabs : \/ tabs'[t].anchor = tabs[t].anchor
                             \/ tabs[t].anchor = NoRoot
                             \/ tabs'[t].anchor = site'.root /\ site'.root # NoRoot
Stays(s) == slots'[s] = slots[s] \/ (AnsweredTruly(s)' /\ OfItsTab(s)')

LEMMA SessionMoves ==
  ASSUME SessionInv, SessionType', Kept', Trusted', RootKept, TrustGoes,
         \A s \in Slots : Stays(s)
  PROVE  SessionInv'
<1>. SUFFICES ASSUME NEW s \in Slots, slots'[s] = slots[s]
              PROVE  AnsweredTruly(s)' /\ OfItsTab(s)'
  BY DEF SessionInv, Stays
<1>0. slots[s] \in CallRecords /\ slots[s].key \in SessionKeys /\ AnsweredTruly(s) /\ OfItsTab(s)
  BY DEF SessionInv, SessionType, CallRecords
<1>1. AnsweredTruly(s)'
  <2>. SUFFICES ASSUME slots[s].answer > 0 PROVE KeyOpens(slots[s].key)'
    BY DEF AnsweredTruly
  <2>1. KeyOpens(slots[s].key) /\ site.root # NoRoot
    BY <1>0, KeyOpensMeans DEF AnsweredTruly, SessionInv
  <2>. QED BY <2>1 DEF KeyOpens, RootKept
<1>2. OfItsTab(s)'
  <2>1. slots[s].key # NoKey => slots[s].key.root # NoRoot
    BY <1>0, SessionAssumption DEF SessionKeys
  <2>. QED BY <1>0, <2>1 DEF OfItsTab, RootKept, TrustGoes
<1>. QED BY <1>1, <1>2

LEMMA SessionStarts == SessionInit => SessionInv
<1>. SUFFICES ASSUME SessionInit PROVE SessionInv
  OBVIOUS
<1>1. NoKey \in SessionKeys /\ NoRoot \in AnyRoot /\ OldRoot \in AnyRoot /\ 0 \in Nat /\ 1 \in Nat
  BY DEF SessionKeys, AnyRoot, Roots
<1>2. NoCall \in CallRecords
  BY <1>1 DEF NoCall, CallRecords, BoardCalls, Waiting
<1>3. site \in [root : AnyRoot, head : Nat, deleted : BOOLEAN]
  <2>1. /\ [root |-> NoRoot, head |-> 0, deleted |-> FALSE]
             \in [root : AnyRoot, head : Nat, deleted : BOOLEAN]
        /\ [root |-> OldRoot, head |-> 1, deleted |-> FALSE]
             \in [root : AnyRoot, head : Nat, deleted : BOOLEAN]
    BY <1>1, Zenon
  <2>. QED BY <2>1, Zenon DEF SessionInit
<1>4. /\ browser \in [key : SessionKeys, trust : AnyRoot, head : Nat]
      /\ tabs \in [Tabs -> Apis]
  BY <1>1 DEF SessionInit, NothingKept, Apis
<1>5. Kept /\ Trusted
  BY DEF SessionInit, NothingKept, Kept, Trusted
<1>6. \A s \in Slots : AnsweredTruly(s) /\ OfItsTab(s)
  BY DEF SessionInit, NoCall, AnsweredTruly, OfItsTab
<1>. QED BY <1>2, <1>3, <1>4, <1>5, <1>6 DEF SessionInv, SessionType, SessionInit

\* A call begins.
LEMMA AsksKeep ==
  ASSUME SessionInv, NEW t \in Tabs, Asks(t)
  PROVE  SessionInv'
<1>1. PICK s \in Slots, call \in CallRecords :
        /\ slots' = [slots EXCEPT ![s] = call]
        /\ call.answer = 0 /\ call.tab = t
        /\ call.key # NoKey \/ call.at \notin {"verify", "open", "read", "write"}
        /\ tabs[t].anchor = call.key.root \/ call.at \notin {"open", "read", "write"}
        /\ UNCHANGED <<site, tabs, browser>>
  <2>0. tabs[t].key \in SessionKeys
    BY DEF SessionInv, SessionType, Apis
  <2>1. ASSUME NEW op \in BoardCalls, Ask(t, op)
        PROVE  \E s \in Slots, call \in CallRecords :
                 /\ slots' = [slots EXCEPT ![s] = call]
                 /\ call.answer = 0 /\ call.tab = t
                 /\ call.key # NoKey \/ call.at \notin {"verify", "open", "read", "write"}
                 /\ tabs[t].anchor = call.key.root \/ call.at \notin {"open", "read", "write"}
                 /\ UNCHANGED <<site, tabs, browser>>
    <3>. DEFINE call == [op |-> op, tab |-> t, at |-> StartOf(op, tabs[t]),
                         key |-> tabs[t].key, answer |-> 0]
    <3>1. StartOf(op, tabs[t]) \in Waiting
      BY DEF StartOf, Waiting, BoardCalls
    <3>2. call \in CallRecords
      BY <2>0, <3>1 DEF CallRecords
    <3>3. /\ call.key # NoKey \/ call.at = "create"
          /\ tabs[t].anchor = call.key.root \/ call.key = NoKey
      BY <2>1 DEF Ask, StartOf, SessionInv, Trusted
    <3>. QED BY <2>1, <3>2, <3>3 DEF Ask
  <2>2. ASSUME EnableEditing(t)
        PROVE  \E s \in Slots, call \in CallRecords :
                 /\ slots' = [slots EXCEPT ![s] = call]
                 /\ call.answer = 0 /\ call.tab = t /\ call.at = "verify" /\ call.key # NoKey
                 /\ UNCHANGED <<site, tabs, browser>>
    <3>1. PICK s \in Slots, root \in {site.root, Foreign} \ {NoRoot}, fit \in Fits :
            slots' = [slots EXCEPT ![s] = [op |-> "enable", tab |-> t, at |-> "verify",
                                           key |-> KeyOf(root, fit), answer |-> 0]]
      BY <2>2 DEF EnableEditing
    <3>2. KeyOf(root, fit) \in SessionKeys
      BY DEF KeyOf, SessionKeys, Roots, AnyRoot, SessionInv, SessionType
    <3>3. [op |-> "enable", tab |-> t, at |-> "verify", key |-> KeyOf(root, fit),
           answer |-> 0] \in CallRecords
      BY <3>2 DEF CallRecords, Waiting
    <3>4. KeyOf(root, fit) # NoKey
      BY DEF KeyOf, NoKey
    <3>. QED BY <2>2, <3>1, <3>3, <3>4 DEF EnableEditing
  <2>. QED BY <2>1, <2>2 DEF Asks
<1>2. SessionType'
  BY <1>1 DEF SessionInv, SessionType
<1>3. \A r \in Slots : Stays(r)
  <2>1. slots'[s] = call /\ \A r \in Slots \ {s} : slots'[r] = slots[r]
    BY <1>1 DEF SessionInv, SessionType
  <2>2. AnsweredTruly(s)' /\ OfItsTab(s)'
    BY <1>1, <2>1 DEF AnsweredTruly, OfItsTab
  <2>. QED BY <2>1, <2>2 DEF Stays
<1>. QED BY <1>1, <1>2, <1>3, SessionMoves
     DEF SessionInv, Kept, KeyOpens, Trusted, RootKept, TrustGoes

\* A step of one call, which leaves `call` of it and `api` of its tab.
CallGoes(s, call, api) ==
    /\ slots[s].tab \in Tabs /\ call \in CallRecords /\ api \in Apis
    /\ slots' = [slots EXCEPT ![s] = call]
    /\ tabs' = [tabs EXCEPT ![slots[s].tab] = api]
    /\ site' \in [root : AnyRoot, head : Nat, deleted : BOOLEAN] /\ RootKept
    /\ browser' \in [key : SessionKeys, trust : AnyRoot, head : Nat] /\ Kept'
    /\ api.key # NoKey => api.anchor = api.key.root
    /\ \/ api.anchor = Api(s).anchor
       \/ Api(s).anchor = NoRoot
       \/ api.anchor = site'.root /\ site'.root # NoRoot
    /\ call.at # "idle" => call.tab = slots[s].tab
    /\ call.answer > 0 => call.key.root = site'.root /\ call.key.fit # "stale"
    /\ call.at \in {"verify", "open", "read", "write"} => call.key # NoKey
    /\ call.at \in {"open", "read", "write"} =>
         \/ api.anchor = call.key.root
         \/ api.anchor = site'.root /\ site'.root # NoRoot

LEMMA CallStep ==
  ASSUME SessionInv, NEW s \in Slots, NEW call, NEW api, CallGoes(s, call, api)
  PROVE  SessionInv'
<1>. USE DEF CallGoes
<1>1. SessionType'
  BY DEF SessionInv, SessionType
<1>2. /\ slots'[s] = call /\ \A r \in Slots \ {s} : slots'[r] = slots[r]
      /\ tabs'[slots[s].tab] = api
      /\ \A t \in Tabs \ {slots[s].tab} : tabs'[t] = tabs[t]
  BY DEF SessionInv, SessionType
<1>3. Trusted'
  BY <1>2 DEF Trusted, SessionInv
<1>4. TrustGoes
  BY <1>2 DEF TrustGoes, Api
<1>5. AnsweredTruly(s)' /\ OfItsTab(s)'
  BY <1>2 DEF AnsweredTruly, OfItsTab, KeyOpens
<1>6. \A r \in Slots : Stays(r)
  BY <1>2, <1>5 DEF Stays
<1>. QED BY <1>1, <1>3, <1>4, <1>6, SessionMoves

\* What is known of a call that is under way.
UnderWay(s) ==
    /\ slots[s] \in CallRecords /\ slots[s].tab \in Tabs /\ slots[s].key \in SessionKeys
    /\ Api(s) \in Apis /\ Api(s).key \in SessionKeys /\ Api(s).anchor \in AnyRoot
    /\ Api(s).key # NoKey => Api(s).anchor = Api(s).key.root
    /\ site \in [root : AnyRoot, head : Nat, deleted : BOOLEAN]
    /\ browser \in [key : SessionKeys, trust : AnyRoot, head : Nat]
    /\ tabs = [tabs EXCEPT ![slots[s].tab] = Api(s)]
    /\ Kept /\ NoCall \in CallRecords /\ AnsweredTruly(s) /\ OfItsTab(s)

LEMMA CallUnderWay ==
  ASSUME SessionInv, NEW s \in Slots, slots[s].at # "idle"
  PROVE  UnderWay(s)
<1>1. slots[s].tab \in Tabs
  BY DEF SessionInv, OfItsTab
<1>2. NoCall \in CallRecords
  BY DEF NoCall, CallRecords, BoardCalls, Waiting, SessionKeys
<1>3. Api(s) \in Apis /\ slots[s] \in CallRecords /\ tabs = [tabs EXCEPT ![slots[s].tab] = Api(s)]
  BY <1>1 DEF SessionInv, SessionType, Api
<1>4. slots[s].key \in SessionKeys /\ Api(s).key \in SessionKeys /\ Api(s).anchor \in AnyRoot
  BY <1>3 DEF CallRecords, Apis
<1>5. Api(s).key # NoKey => Api(s).anchor = Api(s).key.root
  BY <1>1 DEF SessionInv, Trusted, Api
<1>. QED BY <1>1, <1>2, <1>3, <1>4, <1>5 DEF UnderWay, SessionInv, SessionType

\* A call that only ends.
LEMMA CallEnds ==
  ASSUME SessionInv, NEW s \in Slots, slots[s].at # "idle", Over(s), UNCHANGED <<site, browser, tabs>>
  PROVE  SessionInv'
<1>1. UnderWay(s)
  BY CallUnderWay
<1>2. Kept' /\ RootKept
  BY DEF SessionInv, Kept, KeyOpens, RootKept
<1>3. NoCall.at = "idle" /\ NoCall.answer = 0
  BY DEF NoCall
<1>4. CallGoes(s, NoCall, Api(s))
  BY <1>1, <1>2, <1>3 DEF CallGoes, Over, UnderWay
<1>. QED BY <1>4, CallStep

\* A call goes on: its key is verified, or the anchor it is to trust is.
LEMMA GoesKeep ==
  ASSUME SessionInv, NEW s \in Slots, Goes(s)
  PROVE  SessionInv'
<1>0. slots[s].at \in {"verify", "anchor"} /\ UNCHANGED <<site, browser>>
  BY DEF Goes, VerifyKey, CheckAnchor
<1>u. UnderWay(s)
  BY <1>0, CallUnderWay
<1>1. Kept' /\ RootKept
  BY <1>0 DEF SessionInv, Kept, KeyOpens, RootKept
<1>2. CASE Over(s) /\ UNCHANGED tabs
  BY <1>0, <1>2, CallEnds
<1>3. CASE VerifyKey(s) /\ SameAnchor(Api(s), slots[s].key.root) /\ Awaits(s, "open", slots[s].key)
  <2>. DEFINE api == [Api(s) EXCEPT !.anchor = slots[s].key.root, !.key = slots[s].key]
              call == [slots[s] EXCEPT !.at = "open", !.key = slots[s].key, !.answer = 0]
  <2>1. slots' = [slots EXCEPT ![s] = call] /\ tabs' = [tabs EXCEPT ![slots[s].tab] = api]
    BY <1>3 DEF Awaits, VerifyKey, SetApi, SessionInv, SessionType
  <2>2. slots[s].key # NoKey /\ slots[s].key.root \in AnyRoot
    BY <1>u, <1>3 DEF UnderWay, OfItsTab, VerifyKey, SessionKeys, AnyRoot
  <2>3. /\ api \in Apis /\ api.key = slots[s].key /\ api.anchor = slots[s].key.root
        /\ call \in CallRecords /\ call.tab = slots[s].tab /\ call.answer = 0 /\ call.key = slots[s].key
    BY <1>u, <2>2 DEF UnderWay, Apis, CallRecords, Waiting
  <2>4. Api(s).anchor \in {NoRoot, slots[s].key.root}
    BY <1>3 DEF SameAnchor
  <2>. HIDE DEF api, call
  <2>5. CallGoes(s, call, api)
    BY <1>0, <1>u, <1>1, <2>1, <2>2, <2>3, <2>4 DEF CallGoes, UnderWay
  <2>. QED BY <2>5, CallStep
<1>4. CASE CheckAnchor(s) /\ Api(s).key # NoKey /\ Awaits(s, "read", Api(s).key)
  <2>. DEFINE call == [slots[s] EXCEPT !.at = "read", !.key = Api(s).key, !.answer = 0]
  <2>1. slots' = [slots EXCEPT ![s] = call] /\ tabs' = [tabs EXCEPT ![slots[s].tab] = Api(s)]
    BY <1>u, <1>4 DEF Awaits, CheckAnchor, UnderWay
  <2>2. call \in CallRecords /\ call.tab = slots[s].tab /\ call.answer = 0 /\ call.key = Api(s).key
    BY <1>u DEF UnderWay, CallRecords, Waiting
  <2>. HIDE DEF call
  <2>3. CallGoes(s, call, Api(s))
    BY <1>0, <1>u, <1>1, <1>4, <2>1, <2>2 DEF CallGoes, UnderWay
  <2>. QED BY <2>3, CallStep
<1>. QED BY <1>2, <1>3, <1>4 DEF Goes, VerifyKey, CheckAnchor

\* The store answers: what it lets a key do, or a new board; or the call fails.
LEMMA AnswersKeep ==
  ASSUME SessionInv, NEW s \in Slots, Answers(s)
  PROVE  SessionInv'
<1>0. slots[s].at # "idle" /\ UNCHANGED browser
  BY DEF Answers, AnswerRead, AnswerWrite, AnswerCreate, RefuseWrite, Fail
<1>u. UnderWay(s)
  BY <1>0, CallUnderWay
<1>r. /\ slots[s].at \in {"open", "read", "write"} =>
           \/ Api(s).anchor = slots[s].key.root
           \/ Api(s).anchor = site.root /\ site.root # NoRoot
      /\ slots[s].at \in {"open", "read", "write"} => slots[s].key # NoKey
  BY <1>u DEF UnderWay, OfItsTab, Api
<1>1. CASE Fail(s)
  BY <1>0, <1>1, CallEnds DEF Fail
<1>2. CASE RefuseWrite(s)
  <2>. DEFINE api == [Api(s) EXCEPT !.rejected = TRUE]
  <2>1. api \in Apis /\ api.key = Api(s).key /\ api.anchor = Api(s).anchor
    BY <1>u DEF UnderWay, Apis
  <2>2. /\ slots' = [slots EXCEPT ![s] = NoCall] /\ tabs' = [tabs EXCEPT ![slots[s].tab] = api]
        /\ NoCall.at = "idle" /\ NoCall.answer = 0 /\ UNCHANGED site
    BY <1>2 DEF RefuseWrite, SetApi, Over, NoCall
  <2>3. Kept' /\ RootKept
    BY <1>0, <1>u, <2>2 DEF UnderWay, Kept, KeyOpens, RootKept
  <2>4. CallGoes(s, NoCall, api)
    <3>. HIDE DEF api
    <3>. QED BY <1>0, <1>u, <2>1, <2>2, <2>3 DEF CallGoes, UnderWay
  <2>. QED BY <2>4, CallStep
<1>3. CASE AnswerRead(s) \/ AnswerWrite(s)
  <2>1. PICK n \in Nat : slots' = [slots EXCEPT ![s].answer = n]
    BY <1>u, <1>3 DEF AnswerRead, AnswerWrite, UnderWay
  <2>. DEFINE call == [slots[s] EXCEPT !.answer = n]
  <2>2. slots' = [slots EXCEPT ![s] = call]
    BY <2>1
  <2>3. /\ call \in CallRecords /\ call.key = slots[s].key /\ call.tab = slots[s].tab
        /\ call.at = slots[s].at
    BY <1>u DEF UnderWay, CallRecords
  <2>4. /\ UNCHANGED tabs /\ site'.root = site.root
        /\ site' \in [root : AnyRoot, head : Nat, deleted : BOOLEAN]
    <3>1. CASE AnswerRead(s)
      BY <1>u, <3>1 DEF AnswerRead, UnderWay
    <3>2. CASE AnswerWrite(s)
      <4>. DEFINE n1 == site.head + 1
                  deletes == slots[s].op = "delete"
      <4>1. UNCHANGED tabs /\ site' = [site EXCEPT !.head = n1, !.deleted = deletes]
        BY <3>2 DEF AnswerWrite
      <4>2. n1 \in Nat
        BY <1>u DEF UnderWay
      <4>3. deletes \in BOOLEAN
        OBVIOUS
      <4>4. site \in [root : AnyRoot, head : Nat, deleted : BOOLEAN]
        BY <1>u DEF UnderWay
      <4>. HIDE DEF deletes, n1
      <4>. QED BY <4>1, <4>2, <4>3, <4>4
    <3>. QED BY <1>3, <3>1, <3>2
  <2>5. slots[s].at # "create" /\ KeyOpens(slots[s].key)
    BY <1>3 DEF AnswerRead, AnswerWrite, KeyWrites
  <2>6. Kept' /\ RootKept
    BY <1>0, <1>u, <2>4 DEF UnderWay, Kept, KeyOpens, RootKept
  <2>7. CallGoes(s, call, Api(s))
    <3>. HIDE DEF call
    <3>. QED BY <1>0, <1>u, <1>r, <2>2, <2>3, <2>4, <2>5, <2>6
         DEF CallGoes, UnderWay, KeyOpens, OfItsTab
  <2>. QED BY <2>7, CallStep
<1>4. CASE AnswerCreate(s)
  <2>. DEFINE made == KeyOf(slots[s].tab, "opens")
              call == [slots[s] EXCEPT !.key = made, !.answer = 1]
  <2>1. /\ slots[s].at = "create" /\ site.root = NoRoot /\ UNCHANGED tabs
        /\ site' = [root |-> slots[s].tab, head |-> 1, deleted |-> FALSE]
        /\ slots' = [slots EXCEPT ![s] = call]
    BY <1>4 DEF AnswerCreate
  <2>2. made \in SessionKeys /\ made.root = slots[s].tab /\ made.fit = "opens" /\ made # NoKey
    BY <1>u DEF UnderWay, SessionKeys, KeyOf, NoKey, Roots, Fits
  <2>3. call \in CallRecords /\ call.key = made /\ call.tab = slots[s].tab /\ call.at = "create"
    BY <1>u, <2>1, <2>2 DEF UnderWay, CallRecords
  <2>4. /\ site'.root = slots[s].tab /\ RootKept
        /\ site' \in [root : AnyRoot, head : Nat, deleted : BOOLEAN]
    <3>1. slots[s].tab \in AnyRoot
      BY <1>u DEF UnderWay, AnyRoot, Roots
    <3>2. site' \in [root : AnyRoot, head : Nat, deleted : BOOLEAN]
      BY <2>1, <3>1, Zenon
    <3>. QED BY <2>1, <3>2 DEF RootKept
  <2>5. Kept'
    <3>1. browser.key \in SessionKeys
      BY <1>u DEF UnderWay
    <3>2. browser.key = NoKey
      BY <1>u, <2>1, <3>1, KeyOpensMeans DEF UnderWay, Kept, SessionInv
    <3>. QED BY <1>0, <1>u, <2>1, <3>2 DEF Kept, UnderWay
  <2>6. CallGoes(s, call, Api(s))
    <3>. HIDE DEF call, made
    <3>. QED BY <1>0, <1>u, <2>1, <2>2, <2>3, <2>4, <2>5 DEF CallGoes, UnderWay
  <2>. QED BY <2>6, CallStep
<1>. QED BY <1>1, <1>2, <1>3, <1>4 DEF Answers

\* An answer lands: it is of the board, and so is what its tab trusts.
LEMMA LandsKeep ==
  ASSUME SessionInv, NEW s \in Slots, Lands(s)
  PROVE  SessionInv'
<1>0. slots[s].at \in {"open", "read", "write", "create"} /\ slots[s].answer > 0 /\ UNCHANGED site
  BY DEF Lands, LandOpened, LandOverview, LandState, LandWrite, LandCreate
<1>u. UnderWay(s) /\ slots[s].answer \in Nat
  <2>1. UnderWay(s)
    BY <1>0, CallUnderWay
  <2>. QED BY <2>1 DEF UnderWay, CallRecords
<1>r. /\ KeyOpens(slots[s].key) /\ site.root = slots[s].key.root /\ site.root # NoRoot
      /\ slots[s].at # "create" => Api(s).anchor = site.root
      /\ slots[s].key.root \in AnyRoot
  <2>1. KeyOpens(slots[s].key)
    BY <1>0, <1>u DEF UnderWay, AnsweredTruly
  <2>2. site.root = slots[s].key.root /\ site.root # NoRoot /\ slots[s].key.root \in AnyRoot
    BY <1>u, <2>1, KeyOpensMeans DEF UnderWay, SessionInv, AnyRoot
  <2>. QED BY <1>0, <1>u, <2>1, <2>2 DEF UnderWay, OfItsTab, Api
<1>n. NoCall.at = "idle" /\ NoCall.answer = 0
  BY DEF NoCall
<1>. DEFINE Landed(call, api) ==
        /\ call \in CallRecords /\ api \in Apis
        /\ slots' = [slots EXCEPT ![s] = call]
        /\ tabs' = [tabs EXCEPT ![slots[s].tab] = api]
        /\ browser' \in [key : SessionKeys, trust : AnyRoot, head : Nat]
        /\ browser'.key \in {browser.key, slots[s].key}
        /\ browser'.trust \in {browser.trust, slots[s].key.root}
        /\ api.key # NoKey => api.anchor = api.key.root
        /\ api.anchor \in {Api(s).anchor, site.root}
        /\ call.answer = 0
        /\ call.at # "idle" => /\ call.tab = slots[s].tab
                               /\ call.key = Api(s).key /\ call.key # NoKey
                               /\ api.anchor = call.key.root
<1>1. ASSUME NEW call, NEW api, Landed(call, api) PROVE SessionInv'
  <2>1. Kept' /\ RootKept
    BY <1>0, <1>u, <1>r, <1>1 DEF UnderWay, Kept, KeyOpens, RootKept
  <2>2. CallGoes(s, call, api)
    BY <1>0, <1>u, <1>r, <1>1, <2>1 DEF UnderWay, CallGoes
  <2>. QED BY <2>2, CallStep
<1>2. CASE LandOpened(s)
  <2>. DEFINE api == [Api(s) EXCEPT !.head = slots[s].answer, !.accepted = TRUE, !.rejected = FALSE]
              goesOn == [slots[s] EXCEPT !.at = IF slots[s].op \in {"append", "delete"}
                                               THEN "write" ELSE "read",
                                        !.key = Api(s).key, !.answer = 0]
              call == IF slots[s].op = "enable" \/ Api(s).key = NoKey THEN NoCall ELSE goesOn
  <2>1. api \in Apis /\ api.key = Api(s).key /\ api.anchor = Api(s).anchor
    BY <1>u DEF UnderWay, Apis
  <2>2. /\ goesOn \in CallRecords /\ goesOn.tab = slots[s].tab /\ goesOn.answer = 0
        /\ goesOn.key = Api(s).key
    BY <1>u DEF UnderWay, CallRecords, Waiting
  <2>3. slots' = [slots EXCEPT ![s] = call]
    BY <1>2 DEF LandOpened, Over, Awaits
  <2>4. /\ browser' \in [key : SessionKeys, trust : AnyRoot, head : Nat]
        /\ browser'.key \in {browser.key, slots[s].key} /\ browser'.trust = browser.trust
    BY <1>u, <1>2 DEF LandOpened, UnderWay
  <2>5. tabs' = [tabs EXCEPT ![slots[s].tab] = api]
    BY <1>2 DEF LandOpened, SetApi
  <2>6. Landed(call, api)
    <3>1. /\ call \in CallRecords /\ call.answer = 0
          /\ call.at # "idle" => call = goesOn /\ Api(s).key # NoKey
      <4>. HIDE DEF goesOn
      <4>. QED BY <1>u, <1>n, <2>2 DEF UnderWay
    <3>. HIDE DEF api, goesOn, call
    <3>. QED BY <1>u, <2>1, <2>2, <2>3, <2>4, <2>5, <3>1 DEF UnderWay
  <2>. QED BY <1>1, <2>6
<1>3. CASE LandOverview(s)
  <2>1. CASE slots[s].op = "overview"
    <3>. DEFINE api == [Api(s) EXCEPT !.head = slots[s].answer, !.accepted = TRUE]
    <3>1. api \in Apis /\ api.key = Api(s).key /\ api.anchor = Api(s).anchor
      BY <1>u DEF UnderWay, Apis
    <3>2. /\ browser' \in [key : SessionKeys, trust : AnyRoot, head : Nat]
          /\ browser'.key = browser.key /\ browser'.trust = browser.trust
      BY <1>u, <1>3, <2>1 DEF LandOverview, Remember, UnderWay
    <3>3. tabs' = [tabs EXCEPT ![slots[s].tab] = api] /\ slots' = [slots EXCEPT ![s] = NoCall]
      BY <1>3, <2>1 DEF LandOverview, SetApi, Over
    <3>4. Landed(NoCall, api)
      <4>. HIDE DEF api
      <4>. QED BY <1>u, <1>n, <3>1, <3>2, <3>3 DEF UnderWay
    <3>. QED BY <1>1, <3>4
  <2>2. CASE slots[s].op # "overview"
    BY <1>0, <1>3, <2>2, CallEnds DEF LandOverview
  <2>. QED BY <2>1, <2>2
<1>4. CASE LandState(s)
  <2>. DEFINE trusts == slots[s].op = "trust"
              stored == AcceptStored(Api(s), slots[s].answer)
              api == IF trusts THEN [stored EXCEPT !.anchor = slots[s].key.root] ELSE stored
  <2>1. stored \in Apis /\ stored.key = Api(s).key /\ stored.anchor = Api(s).anchor
    <3>1. (Api(s).key # NoKey) \in BOOLEAN
      OBVIOUS
    <3>. QED BY <1>u, <3>1, Zenon DEF UnderWay, AcceptStored, Apis
  <2>2. api \in Apis /\ api.key = Api(s).key /\ api.anchor \in {Api(s).anchor, slots[s].key.root}
    <3>. HIDE DEF stored, trusts
    <3>. QED BY <1>r, <2>1 DEF Apis
  <2>3. /\ browser' \in [key : SessionKeys, trust : AnyRoot, head : Nat]
        /\ browser'.key = browser.key /\ browser'.trust \in {browser.trust, slots[s].key.root}
    BY <1>u, <1>r, <1>4 DEF LandState, UnderWay
  <2>4. tabs' = [tabs EXCEPT ![slots[s].tab] = api] /\ slots' = [slots EXCEPT ![s] = NoCall]
    BY <1>4 DEF LandState, SetApi, Over
  <2>5. slots[s].at # "create"
    BY <1>4 DEF LandState
  <2>6. Landed(NoCall, api)
    <3>. HIDE DEF api
    <3>. QED BY <1>u, <1>n, <1>r, <2>2, <2>3, <2>4, <2>5 DEF UnderWay
  <2>. QED BY <1>1, <2>6
<1>5. CASE LandWrite(s)
  <2>. DEFINE stored == AcceptStored(Api(s), slots[s].answer)
              api == [stored EXCEPT !.rejected = FALSE]
  <2>1. stored \in Apis /\ stored.key = Api(s).key /\ stored.anchor = Api(s).anchor
    <3>1. (Api(s).key # NoKey) \in BOOLEAN
      OBVIOUS
    <3>. QED BY <1>u, <3>1, Zenon DEF UnderWay, AcceptStored, Apis
  <2>2. api \in Apis /\ api.key = Api(s).key /\ api.anchor = Api(s).anchor
    <3>. HIDE DEF stored
    <3>. QED BY <2>1 DEF Apis
  <2>3. /\ tabs' = [tabs EXCEPT ![slots[s].tab] = api] /\ slots' = [slots EXCEPT ![s] = NoCall]
        /\ UNCHANGED browser
    BY <1>5 DEF LandWrite, SetApi, Over
  <2>4. Landed(NoCall, api)
    <3>. HIDE DEF api
    <3>. QED BY <1>u, <1>n, <1>r, <2>2, <2>3 DEF UnderWay
  <2>. QED BY <1>1, <2>4
<1>6. CASE LandCreate(s)
  <2>. DEFINE api == [key |-> slots[s].key, anchor |-> slots[s].key.root, head |-> slots[s].answer,
                      accepted |-> TRUE, rejected |-> FALSE]
  <2>1. api \in Apis /\ api.key = slots[s].key /\ api.anchor = slots[s].key.root
    <3>1. slots[s].key \in SessionKeys /\ slots[s].key.root \in AnyRoot
      BY <1>u, <1>r DEF UnderWay
    <3>. QED BY <1>u, <3>1, Zenon DEF Apis
  <2>2. /\ browser' \in [key : SessionKeys, trust : AnyRoot, head : Nat]
        /\ browser'.key = slots[s].key /\ browser'.trust = slots[s].key.root
    BY <1>u, <1>r, <1>6 DEF LandCreate, UnderWay
  <2>3. tabs' = [tabs EXCEPT ![slots[s].tab] = api] /\ slots' = [slots EXCEPT ![s] = NoCall]
    BY <1>6 DEF LandCreate, SetApi, Over
  <2>4. Landed(NoCall, api)
    <3>. HIDE DEF api
    <3>. QED BY <1>u, <1>n, <1>r, <2>1, <2>2, <2>3 DEF UnderWay
  <2>. QED BY <1>1, <2>4
<1>. QED BY <1>2, <1>3, <1>4, <1>5, <1>6 DEF Lands

\* The user clears a key or loads the page again, or others write to the board.
LEMMA SessionStep == SessionInv /\ [SessionNext]_sessionVars => SessionInv'
<1>. SUFFICES ASSUME SessionInv, [SessionNext]_sessionVars PROVE SessionInv'
  OBVIOUS
<1>1. ASSUME NEW t \in Tabs, Asks(t) PROVE SessionInv'
  BY <1>1, AsksKeep
<1>2. ASSUME NEW t \in Tabs, ClearCredential(t) PROVE SessionInv'
  <2>. DEFINE api == [tabs[t] EXCEPT !.key = NoKey, !.accepted = FALSE, !.rejected = FALSE]
  <2>1. /\ UNCHANGED <<site, slots>> /\ tabs' = [tabs EXCEPT ![t] = api]
        /\ browser' = [browser EXCEPT !.key = NoKey]
    BY <1>2 DEF ClearCredential
  <2>2. api \in Apis /\ api.key = NoKey /\ api.anchor = tabs[t].anchor
    BY DEF SessionInv, SessionType, Apis, SessionKeys
  <2>3. /\ browser' \in [key : SessionKeys, trust : AnyRoot, head : Nat]
        /\ browser'.key = NoKey /\ browser'.trust = browser.trust
    BY <2>1 DEF SessionInv, SessionType, SessionKeys
  <2>. HIDE DEF api
  <2>4. SessionType' /\ Kept' /\ Trusted' /\ RootKept /\ TrustGoes /\ \A s \in Slots : Stays(s)
    BY <2>1, <2>2, <2>3
    DEF SessionInv, SessionType, Kept, Trusted, RootKept, TrustGoes, Stays
  <2>. QED BY <2>4, SessionMoves
<1>3. ASSUME NEW t \in Tabs, Reload(t) PROVE SessionInv'
  <2>1. /\ UNCHANGED <<site, browser>> /\ tabs' = [tabs EXCEPT ![t] = Loaded]
        /\ slots' = [s \in Slots |-> IF slots[s].tab = t THEN NoCall ELSE slots[s]]
        /\ browser.key = NoKey \/ browser.trust \in {NoRoot, browser.key.root}
    BY <1>3 DEF Reload, PageStarts
  <2>2. /\ browser.key \in SessionKeys /\ browser.trust \in AnyRoot /\ browser.head \in Nat
        /\ browser.key.root \in AnyRoot
    BY DEF SessionInv, SessionType, SessionKeys, AnyRoot, NoKey, KeyOf
  <2>3. /\ Loaded.key = browser.key /\ Loaded \in Apis
        /\ Loaded.key # NoKey => Loaded.anchor = Loaded.key.root
    <3>1. (IF browser.trust # NoRoot THEN browser.trust ELSE browser.key.root) \in AnyRoot
      BY <2>2
    <3>2. Loaded \in Apis
      BY <2>2, <3>1, Zenon DEF Loaded, Apis
    <3>. QED BY <2>1, <3>2 DEF Loaded
  <2>4. NoCall \in CallRecords
    BY DEF NoCall, CallRecords, BoardCalls, Waiting, SessionKeys
  <2>5. SessionType'
    BY <2>1, <2>3, <2>4 DEF SessionInv, SessionType
  <2>6. Kept' /\ Trusted'
    BY <2>1, <2>3 DEF SessionInv, SessionType, Kept, KeyOpens, Trusted
  <2>7. ASSUME NEW s \in Slots PROVE AnsweredTruly(s)' /\ OfItsTab(s)'
    <3>1. CASE slots[s].tab = t
      BY <2>1, <3>1 DEF AnsweredTruly, OfItsTab, NoCall
    <3>2. CASE slots[s].tab # t
      <4>1. slots'[s] = slots[s] /\ UNCHANGED site
        BY <2>1, <3>2
      <4>2. \A u \in Tabs \ {t} : tabs'[u] = tabs[u]
        BY <2>1 DEF SessionInv, SessionType
      <4>3. AnsweredTruly(s) /\ OfItsTab(s)
        BY DEF SessionInv
      <4>. QED BY <3>2, <4>1, <4>2, <4>3 DEF AnsweredTruly, OfItsTab, KeyOpens
    <3>. QED BY <3>1, <3>2
  <2>. QED BY <2>5, <2>6, <2>7 DEF SessionInv
<1>4. ASSUME NEW s \in Slots, Goes(s) \/ Answers(s) \/ Lands(s) PROVE SessionInv'
  BY <1>4, GoesKeep, AnswersKeep, LandsKeep
<1>5. CASE OthersWrite \/ UNCHANGED sessionVars
  <2>1. /\ site'.root = site.root /\ UNCHANGED <<tabs, browser, slots>>
        /\ site' \in [root : AnyRoot, head : Nat, deleted : BOOLEAN]
    <3>0. site \in [root : AnyRoot, head : Nat, deleted : BOOLEAN]
      BY DEF SessionInv, SessionType
    <3>1. CASE OthersWrite
      <4>1. PICK deleted \in BOOLEAN : site' = [site EXCEPT !.head = @ + 1, !.deleted = deleted]
        BY <3>1 DEF OthersWrite
      <4>. DEFINE n == site.head + 1
      <4>2. n \in Nat
        BY <3>0
      <4>3. site' = [site EXCEPT !.head = n, !.deleted = deleted]
        BY <4>1
      <4>4. UNCHANGED <<tabs, browser, slots>>
        BY <3>1 DEF OthersWrite
      <4>. HIDE DEF n
      <4>. QED BY <3>0, <4>2, <4>3, <4>4
    <3>2. CASE UNCHANGED sessionVars
      BY <3>0, <3>2 DEF sessionVars
    <3>. QED BY <1>5, <3>1, <3>2
  <2>2. SessionType' /\ Kept' /\ Trusted' /\ RootKept /\ TrustGoes /\ \A s \in Slots : Stays(s)
    BY <2>1
    DEF SessionInv, SessionType, Kept, KeyOpens, Trusted, RootKept, TrustGoes, Stays
  <2>. QED BY <2>2, SessionMoves
<1>. QED BY <1>1, <1>2, <1>3, <1>4, <1>5 DEF SessionNext

\* Whatever keys are entered in however many tabs, and however late the calls
\* that use them are answered, the browser keeps only keys of the one board,
\* and no tab uses a key of another root than it trusts.
THEOREM KeysOpenOneBoard == SessionSpec => []KeysAreOfOneBoard
<1>1. SessionInv => KeysAreOfOneBoard
  BY DEF SessionInv, Kept, KeyOpens, Trusted, KeysAreOfOneBoard
<1>. QED BY SessionStarts, SessionStep, <1>1, PTL DEF SessionSpec

-----------------------------------------------------------------------------
(* WebFeed *)

WalkStates == [page : Nat, number : Nat, first : Nat, total : Nat, entries : SUBSET Nat,
               more : BOOLEAN]

FeedType == /\ log \in Nat /\ page \in Nat \ {0}
            /\ known \in Nat /\ effect \in Nat \X Nat
            /\ walks \in [Walks -> WalkStates]
            /\ current \in Walks \cup {0}
            /\ read \in [page : Nat, first : Nat, total : Nat, entries : SUBSET Nat]
            /\ error \in BOOLEAN

\* What a walk that has read `number` pages holds: the last of them, of the log
\* it began on, which it has not passed, and whether there is one behind it.
WalkHolds(walk) ==
    /\ walk # NoWalk => walk.page > 0
    /\ walk.number > 0 =>
         /\ walk.first <= log
         /\ walk.number <= ClampFeed(walk.page, walk.first)
         /\ walk.entries = SliceOf(walk.first, walk.number)
         /\ walk.more <=> walk.number * FeedPageSize < walk.first

\* The walk that is to reach the screen is of the page the effect ran for; when
\* it has, that page is there.
WalkOwed == /\ current # 0 => walks[current] # NoWalk /\ walks[current].page = effect[2]
            /\ current = 0 /\ ~error => read.page = effect[2]

ScreenHolds == read # Nothing =>
                 read.entries = SliceOf(read.first, ClampFeed(read.page, read.first))

FeedInv == FeedType /\ (\A w \in Walks : WalkHolds(walks[w])) /\ WalkOwed /\ ScreenHolds

\* A log that is not empty has a first page, and the last page is reached only
\* by what is more than the pages before it.
LEMMA PageBounds ==
  ASSUME NEW n \in Nat
  PROVE  /\ FeedPages(n) \in Nat \ {0}
         /\ \A k \in Nat \ {0} : k < FeedPages(n) => k * FeedPageSize < n
<1>. USE FeedAssumption
<1>. DEFINE a == n + FeedPageSize - 1
            d == a \div FeedPageSize
<1>1. CASE n = 0
  BY <1>1 DEF FeedPages
<1>2. CASE n # 0
  <2>1. a \in Nat /\ a >= FeedPageSize /\ FeedPages(n) = d
    BY <1>2 DEF FeedPages
  <2>2. d \in Nat /\ d >= 1
    <3>. HIDE DEF a
    <3>. QED BY <2>1
  <2>3. ASSUME NEW k \in Nat, k < d PROVE k * FeedPageSize < n
    <3>1. (k + 1) * FeedPageSize <= a
      <4>1. k + 1 \in Nat /\ k + 1 <= d
        BY <2>2, <2>3
      <4>. HIDE DEF a
      <4>. QED BY <2>1, <4>1
    <3>2. (k + 1) * FeedPageSize = k * FeedPageSize + FeedPageSize /\ k * FeedPageSize \in Nat
      OBVIOUS
    <3>. QED BY <3>1, <3>2
  <2>. QED BY <2>1, <2>2, <2>3
<1>. QED BY <1>1, <1>2

\* The newest entries of a beginning of the log are its last ones.
LEMMA NewestAre ==
  ASSUME NEW n \in Nat
  PROVE  Newest(0..n - 1) = {p \in 0..n - 1 : p + FeedPageSize >= n}
<1>1. ASSUME NEW p \in 0..n - 1 PROVE Cardinality({q \in 0..n - 1 : q > p}) = n - 1 - p
  <2>1. {q \in 0..n - 1 : q > p} = (p + 1)..(n - 1)
    OBVIOUS
  <2>2. p + 1 \in Int /\ n - 1 \in Int
    OBVIOUS
  <2>3. Cardinality((p + 1)..(n - 1)) = IF p + 1 > n - 1 THEN 0 ELSE n - 1 - (p + 1) + 1
    BY <2>2, FS_Interval
  <2>4. (IF p + 1 > n - 1 THEN 0 ELSE n - 1 - (p + 1) + 1) = n - 1 - p
    OBVIOUS
  <2>. QED BY <2>1, <2>3, <2>4, Zenon
<1>. QED BY <1>1, FeedAssumption DEF Newest

\* The first page of a log, and the page behind a page that is not the last.
LEMMA FirstSlice ==
  ASSUME NEW n \in Nat
  PROVE  /\ Newest(0..n - 1) = SliceOf(n, 1)
         /\ Cardinality(0..n - 1) > FeedPageSize <=> 1 * FeedPageSize < n
<1>. USE FeedAssumption
<1>1. Cardinality(0..n - 1) = n
  <2>1. PICK top \in Int : top = n - 1 OBVIOUS
  <2>2. Cardinality(0..top) = IF 0 > top THEN 0 ELSE top - 0 + 1
    BY FS_Interval
  <2>. QED BY <2>1, <2>2
<1>2. SliceOf(n, 1) = {p \in 0..n - 1 : p + FeedPageSize >= n}
  BY DEF SliceOf
<1>3. Newest(0..n - 1) = SliceOf(n, 1)
  BY <1>2, NewestAre, Zenon
<1>4. Cardinality(0..n - 1) > FeedPageSize <=> 1 * FeedPageSize < n
  BY <1>1
<1>. QED BY <1>3, <1>4

LEMMA NextSlice ==
  ASSUME NEW n \in Nat, n <= log, log \in Nat, NEW k \in Nat \ {0}, k * FeedPageSize < n
  PROVE  LET behind == BehindCursor(SliceOf(n, k))
         IN  /\ Newest(behind) = SliceOf(n, k + 1)
             /\ Cardinality(behind) > FeedPageSize <=> (k + 1) * FeedPageSize < n
<1>. USE FeedAssumption
<1>. DEFINE m == n - k * FeedPageSize
<1>1. /\ k * FeedPageSize \in Nat /\ (k + 1) * FeedPageSize = k * FeedPageSize + FeedPageSize
      /\ (k - 1) * FeedPageSize = k * FeedPageSize - FeedPageSize
      /\ m \in Nat \ {0} /\ m <= log
  OBVIOUS
<1>2. m \in SliceOf(n, k) /\ \A p \in SliceOf(n, k) : m <= p /\ p \in Nat
  BY <1>1 DEF SliceOf
<1>3. Min(SliceOf(n, k)) = m
  <2>. HIDE DEF m
  <2>1. Min(SliceOf(n, k)) \in SliceOf(n, k) /\ \A p \in SliceOf(n, k) : Min(SliceOf(n, k)) <= p
    BY <1>2, Zenon DEF Min
  <2>2. Min(SliceOf(n, k)) <= m /\ m <= Min(SliceOf(n, k)) /\ Min(SliceOf(n, k)) \in Nat
    BY <1>2, <2>1
  <2>3. m \in Nat
    BY <1>1
  <2>. QED BY <2>2, <2>3
<1>4. BehindCursor(SliceOf(n, k)) = 0..m - 1
  <2>. HIDE DEF m
  <2>. QED BY <1>1, <1>3 DEF BehindCursor
<1>5. Newest(0..m - 1) = {p \in 0..m - 1 : p + FeedPageSize >= m}
  BY <1>1, NewestAre
<1>6. {p \in 0..m - 1 : p + FeedPageSize >= m} = SliceOf(n, k + 1)
  <2>1. k + 1 - 1 = k
    OBVIOUS
  <2>. QED BY <1>1, <2>1 DEF SliceOf
<1>7. Cardinality(0..m - 1) = m
  <2>1. Cardinality(0..m - 1) = IF 0 > m - 1 THEN 0 ELSE m - 1 - 0 + 1
    BY <1>1, FS_Interval
  <2>. QED BY <1>1, <2>1
<1>8. Newest(0..m - 1) = SliceOf(n, k + 1)
  BY <1>5, <1>6, Zenon
<1>9. Cardinality(0..m - 1) > FeedPageSize <=> (k + 1) * FeedPageSize < n
  BY <1>1, <1>7
<1>. HIDE DEF m
<1>. QED BY <1>4, <1>8, <1>9, Zenon

LEMMA ClampBounds ==
  ASSUME NEW p \in Nat \ {0}, NEW n \in Nat
  PROVE  /\ ClampFeed(p, n) \in Nat \ {0}
         /\ \A k \in Nat \ {0} : k < ClampFeed(p, n) => k * FeedPageSize < n
BY PageBounds DEF ClampFeed

LEMMA FeedStarts == FeedInit => FeedInv
<1>. SUFFICES ASSUME FeedInit PROVE FeedInv
  OBVIOUS
<1>1. NoWalk \in WalkStates
  BY Zenon DEF NoWalk, WalkStates
<1>2. FeedType
  <2>1. error \in BOOLEAN
    BY Zenon DEF FeedInit
  <2>2. /\ log \in Nat /\ page \in Nat \ {0} /\ known \in Nat /\ effect \in Nat \X Nat
        /\ walks \in [Walks -> WalkStates] /\ current \in Walks \cup {0}
        /\ read \in [page : Nat, first : Nat, total : Nat, entries : SUBSET Nat]
    BY <1>1, FeedAssumption DEF FeedInit, Nothing
  <2>. QED BY <2>1, <2>2 DEF FeedType
<1>3. \A w \in Walks : WalkHolds(walks[w])
  BY DEF FeedInit, NoWalk, WalkHolds
<1>4. WalkOwed /\ ScreenHolds
  BY DEF FeedInit, Nothing, WalkOwed, ScreenHolds
<1>. QED BY <1>2, <1>3, <1>4 DEF FeedInv

\* A walk that asks for its first page or the next one holds that page.
LEMMA AnswerHolds ==
  ASSUME FeedInv, NEW w \in Walks, StepWalk(w)
  PROVE  /\ walks' \in [Walks -> WalkStates] /\ walks'[w].page = walks[w].page
         /\ walks'[w] # NoWalk /\ WalkHolds(walks'[w])
         /\ \A v \in Walks \ {w} : walks'[v] = walks[v]
<1>0. /\ walks[w] \in WalkStates /\ walks[w] # NoWalk /\ WalkHolds(walks[w]) /\ log \in Nat
      /\ walks \in [Walks -> WalkStates]
  BY DEF FeedInv, FeedType, StepWalk
<1>. DEFINE walk == walks[w]
<1>1. /\ walk.page \in Nat \ {0} /\ walk.number \in Nat /\ walk.first \in Nat
      /\ walk.entries \subseteq Nat
  BY <1>0 DEF WalkHolds, WalkStates
<1>2. PICK candidates \in SUBSET Nat :
        /\ walks' = [walks EXCEPT ![w] = Answered(walk, candidates)]
        /\ \/ walk.number = 0 /\ candidates = 0..log - 1
           \/ /\ walk.number > 0 /\ ~Arrived(walk) /\ walk.more
              /\ candidates = BehindCursor(walk.entries)
  <2>1. 0..log - 1 \subseteq Nat /\ BehindCursor(walk.entries) \subseteq Nat
    BY <1>0 DEF BehindCursor
  <2>. QED BY <2>1 DEF StepWalk
<1>. DEFINE k == walk.number + 1
            n == IF walk.number = 0 THEN log ELSE walk.first
            entries == Newest(candidates)
            more == Cardinality(candidates) > FeedPageSize
            next == [walk EXCEPT !.number = k, !.first = n, !.total = log,
                                !.entries = entries, !.more = more]
<1>3. walks' = [walks EXCEPT ![w] = next]
  BY <1>2 DEF Answered
<1>4. n \in Nat /\ n <= log /\ k \in Nat \ {0} /\ more \in BOOLEAN /\ entries \in SUBSET Nat
  <2>1. more \in BOOLEAN
    OBVIOUS
  <2>2. entries \in SUBSET Nat
    BY <1>2 DEF Newest
  <2>. QED BY <1>0, <1>1, <2>1, <2>2 DEF WalkHolds
<1>5. k <= ClampFeed(walk.page, n) /\ entries = SliceOf(n, k) /\ (more <=> k * FeedPageSize < n)
  <2>1. CASE walk.number = 0
    <3>1. n = log /\ k = 1 /\ candidates = 0..log - 1
      BY <1>2, <2>1
    <3>2. ClampFeed(walk.page, log) \in Nat \ {0}
      <4>. HIDE DEF walk
      <4>. QED BY <1>0, <1>1, ClampBounds
    <3>. QED BY <1>0, <3>1, <3>2, FirstSlice
  <2>2. CASE walk.number > 0
    <3>1. /\ n = walk.first /\ candidates = BehindCursor(SliceOf(n, walk.number))
          /\ walk.number * FeedPageSize < n
          /\ walk.number <= ClampFeed(walk.page, n) /\ walk.number # ClampFeed(walk.page, n)
      BY <1>0, <1>2, <2>2 DEF WalkHolds, Arrived
    <3>2. ClampFeed(walk.page, n) \in Nat
      <4>. HIDE DEF walk, n
      <4>. QED BY <1>1, <1>4, ClampBounds
    <3>5. k <= ClampFeed(walk.page, n)
      BY <1>1, <3>1, <3>2
    <3>3. walk.number \in Nat \ {0}
      BY <1>1, <2>2
    <3>4. entries = SliceOf(n, k) /\ (more <=> k * FeedPageSize < n)
      <4>. HIDE DEF n, walk
      <4>. QED BY <1>0, <1>4, <3>1, <3>3, NextSlice
    <3>. QED BY <3>4, <3>5
  <2>. QED BY <1>1, <2>1, <2>2
<1>. HIDE DEF n, k, entries, more
<1>6. /\ next \in WalkStates /\ next.page = walk.page /\ next.number = k /\ next.first = n
      /\ next.entries = entries /\ next.more = more
  BY <1>0, <1>4 DEF WalkStates
<1>. HIDE DEF next
<1>7. next # NoWalk /\ WalkHolds(next)
  BY <1>1, <1>4, <1>5, <1>6 DEF NoWalk, WalkHolds
<1>. QED BY <1>0, <1>3, <1>6, <1>7

LEMMA WalksGo ==
  ASSUME FeedInv, NEW w \in Walks, StepWalk(w) \/ LandWalk(w) \/ FailWalk(w)
  PROVE  FeedInv'
<1>0. FeedType /\ walks[w] \in WalkStates /\ WalkHolds(walks[w]) /\ UNCHANGED <<log, page, known, effect>>
  BY DEF FeedInv, FeedType, StepWalk, LandWalk, FailWalk
<1>1. CASE StepWalk(w)
  <2>1. UNCHANGED <<log, page, known, effect, current, read, error>>
    BY <1>1 DEF StepWalk
  <2>2. /\ walks' \in [Walks -> WalkStates] /\ walks'[w].page = walks[w].page
        /\ walks'[w] # NoWalk /\ WalkHolds(walks'[w])
        /\ \A v \in Walks \ {w} : walks'[v] = walks[v]
    BY <1>1, AnswerHolds
  <2>3. FeedType' /\ ScreenHolds'
    BY <2>1, <2>2 DEF FeedInv, FeedType, ScreenHolds
  <2>4. WalkOwed'
    BY <1>0, <2>1, <2>2 DEF FeedInv, FeedType, WalkOwed
  <2>5. \A v \in Walks : WalkHolds(walks'[v])
    BY <2>2 DEF FeedInv
  <2>6. \A v \in Walks : WalkHolds(walks[v])'
    BY <2>1, <2>5 DEF WalkHolds
  <2>. QED BY <2>3, <2>4, <2>6 DEF FeedInv
<1>2. ASSUME walks' = [walks EXCEPT ![w] = NoWalk], FeedType', ScreenHolds', WalkOwed'
      PROVE  FeedInv'
  <2>1. \A v \in Walks : walks'[v] \in {walks[v], NoWalk}
    BY <1>0, <1>2 DEF FeedType
  <2>2. WalkHolds(NoWalk)
    BY DEF WalkHolds, NoWalk
  <2>3. \A v \in Walks : WalkHolds(walks'[v])
    BY <2>1, <2>2 DEF FeedInv
  <2>4. \A v \in Walks : WalkHolds(walks[v])'
    BY <1>0, <2>3 DEF WalkHolds
  <2>. QED BY <1>2, <2>4 DEF FeedInv
<1>3. NoWalk \in WalkStates
  BY Zenon DEF NoWalk, WalkStates
<1>4. CASE LandWalk(w)
  <2>0. walks' = [walks EXCEPT ![w] = NoWalk] /\ walks[w] # NoWalk
    BY <1>4 DEF LandWalk, NoWalk
  <2>1. Arrived(walks[w])
    <3>1. /\ walks[w].number \in Nat \ {0} /\ walks[w].first \in Nat
          /\ walks[w].page \in Nat \ {0}
      BY <1>0, <1>4, <2>0 DEF LandWalk, WalkHolds, WalkStates
    <3>2. ~(walks[w].number < ClampFeed(walks[w].page, walks[w].first)) \/ walks[w].more
      BY <1>0, <3>1, ClampBounds DEF WalkHolds
    <3>3. walks[w].number <= ClampFeed(walks[w].page, walks[w].first)
      BY <1>0, <3>1 DEF WalkHolds
    <3>4. ClampFeed(walks[w].page, walks[w].first) \in Nat
      BY <3>1, ClampBounds
    <3>. QED BY <1>4, <3>1, <3>2, <3>3, <3>4 DEF LandWalk, Arrived
  <2>2. CASE w = current
    <3>1. /\ read' = [page |-> walks[w].page, first |-> walks[w].first, total |-> walks[w].total,
                      entries |-> walks[w].entries]
          /\ ~error' /\ error' \in BOOLEAN /\ current' = 0
      BY <1>4, <2>1, <2>2 DEF LandWalk
    <3>2. walks[w].entries = SliceOf(walks[w].first, ClampFeed(walks[w].page, walks[w].first))
      BY <1>0, <2>1 DEF WalkHolds, Arrived
    <3>3. ScreenHolds'
      BY <3>1, <3>2 DEF ScreenHolds, SliceOf, ClampFeed, FeedPages
    <3>4. walks[w].page = effect[2]
      BY <2>2, FeedAssumption DEF FeedInv, WalkOwed
    <3>5. WalkOwed'
      BY <1>0, <3>1, <3>4 DEF WalkOwed
    <3>6. FeedType'
      BY <1>0, <1>3, <2>0, <3>1 DEF FeedType, WalkStates
    <3>. QED BY <1>2, <2>0, <3>3, <3>5, <3>6
  <2>3. CASE w # current
    <3>1. UNCHANGED <<read, error, current>>
      BY <1>4, <2>3 DEF LandWalk
    <3>2. FeedType' /\ ScreenHolds' /\ WalkOwed'
      BY <1>0, <1>3, <2>0, <2>3, <3>1
      DEF FeedInv, FeedType, ScreenHolds, SliceOf, ClampFeed, FeedPages, WalkOwed
    <3>. QED BY <1>2, <2>0, <3>2
  <2>. QED BY <2>2, <2>3
<1>5. CASE FailWalk(w)
  <2>0. walks' = [walks EXCEPT ![w] = NoWalk] /\ UNCHANGED read
    BY <1>5 DEF FailWalk
  <2>1. \/ w = current /\ current' = 0 /\ error'
        \/ w # current /\ current' = current /\ error' = error
    BY <1>0, <1>5, Zenon DEF FailWalk, FeedType
  <2>2. error' \in BOOLEAN
    BY <1>5, Zenon DEF FailWalk
  <2>3. FeedType' /\ ScreenHolds' /\ WalkOwed'
    BY <1>0, <1>3, <2>0, <2>1, <2>2
    DEF FeedInv, FeedType, ScreenHolds, SliceOf, ClampFeed, FeedPages, WalkOwed
  <2>. QED BY <1>2, <2>0, <2>3
<1>. QED BY <1>1, <1>4, <1>5

LEMMA FeedStep == FeedInv /\ [FeedNext]_feedVars => FeedInv'
<1>. SUFFICES ASSUME FeedInv, [FeedNext]_feedVars PROVE FeedInv'
  OBVIOUS
<1>1. CASE Grow \/ Learn \/ Turn \/ UNCHANGED feedVars
  <2>1. log' \in Nat /\ log <= log' /\ known' \in Nat /\ page' \in Nat \ {0}
    BY <1>1, FeedAssumption DEF Grow, Learn, Turn, feedVars, FeedInv, FeedType
  <2>2. UNCHANGED <<effect, walks, current, read, error>>
    BY <1>1 DEF Grow, Learn, Turn, feedVars
  <2>3. FeedType' /\ ScreenHolds' /\ WalkOwed'
    BY <2>1, <2>2 DEF FeedInv, FeedType, ScreenHolds, SliceOf, ClampFeed, FeedPages, WalkOwed
  <2>4. ASSUME NEW w \in Walks PROVE WalkHolds(walks[w])'
    <3>1. WalkHolds(walks[w]) /\ walks[w].first \in Nat /\ log \in Nat
      BY DEF FeedInv, FeedType, WalkStates
    <3>. QED BY <2>1, <2>2, <3>1 DEF WalkHolds, SliceOf, ClampFeed, FeedPages
  <2>. QED BY <2>3, <2>4 DEF FeedInv
<1>2. CASE Walk
  <2>1. PICK w \in Walks : /\ walks[w] = NoWalk
                           /\ walks' = [walks EXCEPT ![w].page = page] /\ current' = w
    BY <1>2 DEF Walk
  <2>. DEFINE walk == [NoWalk EXCEPT !.page = page]
  <2>2. walks' = [walks EXCEPT ![w] = walk]
    BY <2>1
  <2>3. /\ UNCHANGED <<log, page, known, read, error>> /\ effect' = <<known, page>>
        /\ FeedType
    BY <1>2 DEF Walk, FeedInv
  <2>4. page \in Nat \ {0} /\ NoWalk \in WalkStates /\ NoWalk.page = 0 /\ NoWalk.number = 0
    <3>1. NoWalk \in WalkStates
      BY Zenon DEF NoWalk, WalkStates
    <3>. QED BY <2>3, <3>1 DEF FeedType, NoWalk
  <2>5. walk \in WalkStates /\ walk # NoWalk /\ walk.page = page /\ walk.number = 0
    BY <2>4 DEF WalkStates
  <2>. HIDE DEF walk
  <2>6. FeedType' /\ ScreenHolds' /\ WalkOwed'
    BY <2>1, <2>2, <2>3, <2>4, <2>5, FeedAssumption
    DEF FeedInv, FeedType, ScreenHolds, SliceOf, ClampFeed, FeedPages, WalkOwed
  <2>7. \A v \in Walks : walks'[v] \in {walks[v], walk}
    BY <2>2, <2>3 DEF FeedType
  <2>8. WalkHolds(walk)
    BY <2>4, <2>5 DEF WalkHolds
  <2>9. \A v \in Walks : WalkHolds(walks'[v])
    BY <2>7, <2>8 DEF FeedInv
  <2>10. \A v \in Walks : WalkHolds(walks[v])'
    BY <2>3, <2>9 DEF WalkHolds, SliceOf, ClampFeed, FeedPages
  <2>. QED BY <2>6, <2>10 DEF FeedInv
<1>. QED BY <1>1, <1>2, WalksGo DEF FeedNext, Walking

\* However long the log, the pages and the walks, and however the log grows
\* between the requests of a walk, what reaches the screen is one page of the
\* log the walk began on, and the page the address names once nothing is asked.
THEOREM FeedShowsOneSlice == FeedSpec => []FeedPageIsOneSlice
<1>1. FeedInv => FeedPageIsOneSlice
  BY DEF FeedInv, FeedType, ScreenHolds, WalkOwed, FeedPageIsOneSlice
<1>. QED BY FeedStarts, FeedStep, <1>1, PTL DEF FeedSpec
=============================================================================
