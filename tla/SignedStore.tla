---------------------------- MODULE SignedStore ----------------------------
(***************************************************************************)
(* The one key a board is found at, core/src/board-store.ts: absent, then  *)
(* a bootstrap record and a pointer (initialize), or the signed log of an  *)
(* older build and the pointer it is migrated to by the first client that  *)
(* reads it (readWithCredential).  BoardStore begins where this ends: here *)
(* one step appends to a sharded board, and its shards are left out.       *)
(* BoardApi (core/src/api.ts) adds the check before initialize and the     *)
(* head a client remembers.                                                *)
(***************************************************************************)
EXTENDS SignedLog, SequencesExt

CONSTANTS Initializers, \* clients that create the board; each is its own root
          Clients,      \* clients that read and append with a credential
          MaxAttempts,  \* maxAttempts
          MaxCalls,     \* bound: calls of each client
          MaxOps,       \* bound: operations ever written
          MaxRestores   \* bound: times the storage is restored

ASSUME StoreAssumption == /\ Initializers \cap Clients = {}
                          /\ Root \notin Initializers
                          /\ MaxAttempts \in Nat \ {0}
                          /\ {MaxCalls, MaxOps, MaxRestores} \subseteq Nat

VARIABLES
  cell,       \* the object at antonina/board-v2, and its ETag
  pc,         \* where each client is
  key,        \* the root of the credential each client holds
  got,        \* the object each client last fetched
  floor,      \* previouslyAcceptedHead of the read under way
  attempt,    \* attempts of the migration
  appends,    \* the call under way appends
  remembered, \* rememberedHead
  accepted,   \* history: the operations of the last state each client accepted
  calls,      \* calls made
  ops,        \* operations ever written
  restores

storeVars == <<cell, pc, key, got, floor, attempt, appends, remembered, accepted, calls, ops, restores>>

Everyone == Initializers \cup Clients
NoLog    == << >>
Absent   == [kind |-> "absent", root |-> Root, ops |-> NoLog, tag |-> 0]
Operation(kind, id) == [kind |-> kind, by |-> Root, key |-> Root, id |-> id]
Backup   == <<Operation("initialize", 1)>>
Legacy(log, tag) == [kind |-> "log", root |-> Root, ops |-> log, tag |-> tag]

StoreInit == /\ cell \in {Absent, Legacy(Backup, 1)}
             /\ pc = [c \in Everyone |-> "idle"]
             /\ key = [c \in Clients |-> Root]
             /\ got = [c \in Everyone |-> Absent]
             /\ floor = [c \in Clients |-> 0]
             /\ attempt = [c \in Clients |-> 0]
             /\ appends = [c \in Clients |-> FALSE]
             /\ remembered = [c \in Clients |-> 0]
             /\ accepted = [c \in Clients |-> NoLog]
             /\ calls = [c \in Clients |-> 0]
             /\ ops = 1
             /\ restores = 0

Goto(c, label) == pc' = [pc EXCEPT ![c] = label]
Head_(log)     == log[Len(log)].id

\* The object at the key is replaced, or not touched.
Replace(kind, root, log) == cell' = [kind |-> kind, root |-> root, ops |-> log, tag |-> cell.tag + 1]

callVars == <<key, floor, attempt, appends, remembered, accepted, calls>>
worldVars == <<ops, restores>>

\* A call returns; nothing of it is kept but what BoardApi remembers.
Return(c) == /\ Goto(c, "idle")
             /\ got' = [got EXCEPT ![c] = Absent]
             /\ floor' = [floor EXCEPT ![c] = 0]
             /\ attempt' = [attempt EXCEPT ![c] = 0]
             /\ appends' = [appends EXCEPT ![c] = FALSE]
Within == UNCHANGED <<floor, attempt, appends>>
kept   == <<key, remembered, accepted, calls>>

-----------------------------------------------------------------------------
(* initialize *)

\* BoardApi.initialize: signedBoardExists; a refused call may be made again.
CheckAbsent(i) == /\ pc[i] = "idle"
                  /\ Goto(i, IF cell.kind = "absent" THEN "post" ELSE "idle")
                  /\ UNCHANGED <<cell, got, callVars, worldVars>>

\* Faulty: what is at the key is replaced, the check having found nothing.
PostReplaces(i) == /\ pc[i] = "post"
                   /\ Replace("bootstrap", i, NoLog)
                   /\ Goto(i, "token")
                   /\ UNCHANGED <<got, callVars, worldVars>>

\* POST of the bootstrap record: 409 if there is anything at the key.  It may
\* be created and its answer lost, with the capability in it.
PostBootstrap(i) == /\ pc[i] = "post"
                    /\ \/ /\ cell.kind = "absent"
                          /\ Replace("bootstrap", i, NoLog)
                          /\ Goto(i, "token") \/ Goto(i, "failed")
                       \/ /\ cell.kind # "absent"
                          /\ Goto(i, "idle")
                          /\ UNCHANGED cell
                    /\ UNCHANGED <<got, callVars, worldVars>>

\* The bootstrap is fetched for its ETag ...
Token(i) == /\ pc[i] = "token"
            /\ got' = [got EXCEPT ![i] = cell]
            /\ Goto(i, "create")
            /\ UNCHANGED <<cell, callVars, worldVars>>

\* ... and replaced by the pointer of generation 1; a lost answer, or another
\* object than the one fetched, fails the call.
Create(i) == /\ pc[i] = "create"
             /\ \/ /\ cell.tag = got[i].tag
                   /\ Replace("board", i, NoLog)
                   /\ Goto(i, "created") \/ Goto(i, "failed")
                \/ /\ Goto(i, "failed")
                   /\ UNCHANGED cell
             /\ UNCHANGED <<got, callVars, worldVars>>

-----------------------------------------------------------------------------
(* readWithCredential, append *)

\* A call begins, with the credential of the older build's board or, before the
\* first, the one an initializer has returned.
BeginCall(c) == /\ pc[c] = "idle"
                /\ calls[c] < MaxCalls
                /\ \/ UNCHANGED key
                   \/ /\ calls[c] = 0
                      /\ \E i \in Initializers : pc[i] = "created" /\ key' = [key EXCEPT ![c] = i]
                /\ calls' = [calls EXCEPT ![c] = @ + 1]
                /\ appends' \in {[appends EXCEPT ![c] = b] : b \in BOOLEAN}
                /\ floor' = [floor EXCEPT ![c] = remembered[c]]
                /\ Goto(c, "pointer")
                /\ UNCHANGED <<cell, got, attempt, remembered, accepted, worldVars>>

\* readPointer: a pointer is served, anything else looked for as a log.
Pointer(c) == /\ pc[c] = "pointer"
              /\ Goto(c, IF cell.kind = "board" THEN "serve" ELSE "fetch")
              /\ UNCHANGED <<cell, got, callVars, worldVars>>

\* readLegacy: GET; 404 is a missing board.
Fetch(c) == /\ pc[c] = "fetch"
            /\ \/ /\ cell.kind # "absent"
                  /\ got' = [got EXCEPT ![c] = cell]
                  /\ Goto(c, "verify")
                  /\ Within
               \/ /\ cell.kind = "absent"
                  /\ Return(c)
            /\ UNCHANGED <<cell, kept, worldVars>>

\* Faulty: a log is verified without the head that was accepted before.
TrustsAny(c) == /\ got[c].kind = "log"
                /\ got[c].root = key[c]
                /\ Accepted(got[c].ops, 0)
                /\ ~Replay(got[c].ops).deleted

\* The log as it was fetched is of this root, replays, holds the accepted head
\* and ends with no deletion.
Trusts(c) == /\ got[c].kind = "log"
             /\ got[c].root = key[c]
             /\ Accepted(got[c].ops, floor[c])
             /\ ~Replay(got[c].ops).deleted

\* readLegacy refuses what it fetched if there is a pointer by now; the loop
\* ends with its attempts.
VerifyLog(c) == /\ pc[c] = "verify"
                /\ IF cell.kind # "board" /\ Trusts(c) /\ attempt[c] < MaxAttempts
                   THEN Goto(c, "migrate") /\ Within /\ UNCHANGED got
                   ELSE Return(c)
                /\ UNCHANGED <<cell, kept, worldVars>>

\* A call returns the state it verified, and BoardApi remembers its head.
Accept(c, log, head) == /\ remembered' = [remembered EXCEPT ![c] = head]
                        /\ accepted' = [accepted EXCEPT ![c] = log]

\* Faulty: the pointer is written over whatever is there.
MigrateAnyway(c) ==
    /\ pc[c] = "migrate"
    /\ Replace("board", key[c], got[c].ops)
    /\ Return(c)
    /\ Accept(c, got[c].ops, Head_(got[c].ops))
    /\ UNCHANGED <<key, calls, worldVars>>

\* sharded.migrate: the pointer replaces the log that was read, or the log is
\* read again with the head just verified.  The answer may be lost.
Migrate(c) ==
    /\ pc[c] = "migrate"
    /\ \/ /\ cell.tag = got[c].tag
          /\ Replace("board", key[c], got[c].ops)
          /\ \/ /\ IF appends[c] THEN Goto(c, "serve") /\ Within /\ UNCHANGED got ELSE Return(c)
                /\ Accept(c, got[c].ops, Head_(got[c].ops))
             \/ /\ Return(c)
                /\ UNCHANGED <<remembered, accepted>>
       \/ /\ cell.tag # got[c].tag
          /\ floor' = [floor EXCEPT ![c] = Head_(got[c].ops)]
          /\ attempt' = [attempt EXCEPT ![c] = @ + 1]
          /\ Goto(c, "fetch")
          /\ UNCHANGED <<cell, got, appends, remembered, accepted>>
    /\ UNCHANGED <<key, calls, worldVars>>

\* The sharded board answers: a read, or an append to it.  The head a client
\* remembers is of no account here.
Serve(c) ==
    /\ pc[c] = "serve"
    /\ Return(c)
    /\ \/ /\ cell.kind # "board" \/ cell.root # key[c]
          /\ UNCHANGED <<cell, ops, remembered, accepted>>
       \/ /\ cell.kind = "board" /\ cell.root = key[c]
          /\ ~appends[c]
          /\ Accept(c, cell.ops, IF cell.ops = NoLog THEN 0 ELSE Head_(cell.ops))
          /\ UNCHANGED <<cell, ops>>
       \/ /\ cell.kind = "board" /\ cell.root = key[c]
          /\ appends[c] /\ ops < MaxOps
          /\ ops' = ops + 1
          /\ Replace("board", cell.root, Append(cell.ops, Operation("edit", ops + 1)))
          /\ Accept(c, cell'.ops, ops + 1)
    /\ UNCHANGED <<key, calls, restores>>

-----------------------------------------------------------------------------
(* Around this build *)

\* A client of the older build appends to the log it has verified.
OlderBuildAppends ==
    /\ cell.kind = "log"
    /\ ops < MaxOps
    /\ ~Replay(cell.ops).deleted
    /\ ops' = ops + 1
    /\ \E kind \in {"edit", "delete"} :
           Replace("log", Root, Append(cell.ops, Operation(kind, ops + 1)))
    /\ UNCHANGED <<pc, got, callVars, restores>>

\* The storage is restored to a log it held before.
Restore == /\ restores < MaxRestores
           /\ cell.root = Root /\ cell.kind \in {"log", "board"}
           /\ cell.ops # Backup \/ cell.kind = "board"
           /\ restores' = restores + 1
           /\ Replace("log", Root, Backup)
           /\ UNCHANGED <<pc, got, callVars, ops>>

Initializes(i) == CheckAbsent(i) \/ PostBootstrap(i) \/ Token(i) \/ Create(i)
Calls(c) == BeginCall(c) \/ Pointer(c) \/ Fetch(c) \/ VerifyLog(c) \/ Migrate(c) \/ Serve(c)

StoreNext == \/ \E i \in Initializers : Initializes(i)
             \/ \E c \in Clients : Calls(c)
             \/ OlderBuildAppends
             \/ Restore

StoreSpec == StoreInit /\ [][StoreNext]_storeVars

-----------------------------------------------------------------------------
\* A board has one trust root for ever: nothing replaces a bootstrap, a log or
\* a pointer of another root, and an initialize that returns a credential
\* leaves the board that this credential opens.
OneTrustRoot ==
    [][/\ cell.kind # "absent" => cell'.root = cell.root
       /\ \A i \in Initializers : pc'[i] = "created" => cell'.kind = "board" /\ cell'.root = i]_storeVars

\* The pointer replaces exactly the log it was made from: no operation an older
\* client appended meanwhile is lost, no board already sharded is overwritten,
\* and a deleted one does not come back.
MigratedWhole ==
    [][cell'.kind = "board" =>
          /\ cell.kind = "log" => cell'.ops = cell.ops /\ ~Replay(cell.ops).deleted
          /\ cell.kind = "board" => IsPrefix(cell.ops, cell'.ops)]_storeVars

\* A client does not migrate a log that has lost what it accepted before: the
\* history it remembered the head of, or read in an earlier attempt, is there.
RollbackRefused ==
    [][\A c \in Clients :
          pc[c] = "migrate" /\ cell.kind = "log" /\ cell'.kind = "board" /\ got[c].tag = cell.tag
          => /\ IsPrefix(accepted[c], cell'.ops)
             /\ floor[c] = 0 \/ \E n \in DOMAIN cell'.ops : cell'.ops[n].id = floor[c]]_storeVars
=============================================================================
