-------------------------- MODULE BoardStoreProofs --------------------------
(***************************************************************************)
(* Theorems about the sharded board, for any number of clients, calls,     *)
(* requests, attempts, faults and page sizes, and any retention window.    *)
(***************************************************************************)
EXTENDS BoardStore, BoardShardsProofs

-----------------------------------------------------------------------------
(* Stored objects *)

\* What Put makes of a function.
LEMMA PutFacts ==
  ASSUME NEW f, NEW n, NEW v
  PROVE  /\ DOMAIN Put(f, n, v) = DOMAIN f \cup {n}
         /\ Put(f, n, v)[n] = v
         /\ \A x \in DOMAIN f : x # n => Put(f, n, v)[x] = f[x]
BY DEF Put

-----------------------------------------------------------------------------
(* Logs and generations *)

Ids == (Clients \cup {"legacy"}) \X Nat
LogOK(log) == IsSeq(log) /\ \A i \in 1..Len(log) : log[i].id \in Ids

\* A generation is that of its log, and names the one it was derived from.
LEMMA NextLog ==
  ASSUME NEW op, NEW meta, NEW cards
  PROVE  /\ NextGeneration(op, meta, cards).log = Append(meta.log, op)
         /\ NextGeneration(op, meta, cards).updatedAt = op.at
         /\ NextGeneration(op, meta, cards).retainsMetaRef = {meta.log}
BY DEF NextGeneration

\* An import is of its log, and names no earlier generation.
LEMMA ImportedLog ==
  ASSUME NEW log
  PROVE  Imported(log).log = log /\ Imported(log).retainsMetaRef = {}
BY DEF Imported, FirstGeneration

\* A log with one more operation of the board is a log.
LEMMA LogGrows ==
  ASSUME NEW log, LogOK(log), NEW op, op.id \in Ids
  PROVE  LogOK(Append(log, op))
<1>1. /\ IsSeq(Append(log, op)) /\ Len(Append(log, op)) = Len(log) + 1 /\ Len(log) \in Nat
      /\ \A i \in 1..Len(log) : Append(log, op)[i] = log[i]
      /\ Append(log, op)[Len(log) + 1] = op
  BY AppendFacts, SeqFacts DEF LogOK
<1>2. ASSUME NEW i \in 1..Len(Append(log, op)) PROVE Append(log, op)[i].id \in Ids
  <2>1. CASE i = Len(log) + 1 BY <1>1, <2>1
  <2>2. CASE i \in 1..Len(log) BY <1>1, <2>2 DEF LogOK
  <2>. QED BY <1>1, <1>2, <2>1, <2>2
<1>. QED BY <1>1, <1>2 DEF LogOK

-----------------------------------------------------------------------------
(* What a client holds *)

Places    == {"idle", "pointer", "legacy", "meta", "bundle", "post", "describe",
              "commit", "sweep"}
Drafting  == {"post", "describe", "commit"}
Resolved  == {"legacy", "meta", "bundle", "sweep"} \cup Drafting

Shape ==
  /\ pc \in [Clients -> Places]
  /\ calls \in [Clients -> Nat]
  /\ DOMAIN call = Clients /\ DOMAIN base = Clients /\ DOMAIN held = Clients
  /\ DOMAIN draft = Clients /\ DOMAIN cursor = Clients /\ DOMAIN again = Clients
  /\ pointer = [format |-> pointer.format, log |-> pointer.log]
  /\ pointer.format \in {"compact", "legacy"}
  /\ LogOK(pointer.log)

\* A meta is stored under its own log.
Stored == \A log \in DOMAIN metas : LogOK(log) /\ metas[log].log = log

Imports(c) == call[c].kind = "import"

\* An import works on the old format, everybody else on the new one, and what
\* is drafted is the log resolved, with the call's operation at its end.
Working(c) ==
  /\ pc[c] \in Resolved => LogOK(base[c].log)
  /\ pc[c] = "legacy" => Imports(c)
  /\ pc[c] \in {"pointer", "meta", "bundle", "sweep"} => ~Imports(c)
  /\ pc[c] # "idle" /\ ~Imports(c) => pointer.format = "compact"
  /\ pc[c] \in {"meta", "bundle"} \cup Drafting /\ ~Imports(c) => base[c].format = "compact"
  /\ pc[c] = "bundle" => held[c].log = base[c].log
  /\ pc[c] \in Drafting /\ Imports(c) => draft[c].log = base[c].log
  /\ pc[c] \in Drafting /\ ~Imports(c) =>
       \E op : op.id = Id(c) /\ draft[c].log = Append(base[c].log, op)

WorkInv == Shape /\ Stored /\ \A c \in Clients : Working(c)

\* A step of one client leaves what the others hold.
Alone(c) ==
  /\ DOMAIN call' = Clients /\ DOMAIN base' = Clients /\ DOMAIN held' = Clients
  /\ DOMAIN draft' = Clients /\ DOMAIN cursor' = Clients /\ DOMAIN again' = Clients
  /\ pc' \in [Clients -> Places] /\ calls' \in [Clients -> Nat]
  /\ \A d \in Clients \ {c} :
       /\ pc'[d] = pc[d] /\ call'[d] = call[d] /\ calls'[d] = calls[d]
       /\ base'[d] = base[d] /\ held'[d] = held[d] /\ draft'[d] = draft[d]
       /\ cursor'[d] = cursor[d] /\ again'[d] = again[d]

\* The steps of a client.
Steps(c) ==
  \/ Call(c) \/ ReadPointer(c) \/ ReadMeta(c) \/ ReadBundle(c) \/ ReadLegacy(c)
  \/ PostShards(c) \/ PostMeta(c) \/ Commit(c) \/ CommitUnanswered(c)
  \/ Sweep(c) \/ SweepRefused(c) \/ SweepEnds(c) \/ Crash(c)

\* A client that returns is idle and holds nothing.
LEMMA ReturnAlone ==
  ASSUME Shape, NEW c \in Clients, NEW answer, Return(c, answer), UNCHANGED calls
  PROVE  /\ Alone(c)
         /\ pc'[c] = "idle"
         /\ answers' = Put(answers, Id(c), answer)
BY DEF Shape, Alone, Return, Places

\* A client that goes on holds what it held, but for what the step says.
LEMMA GotoAlone ==
  ASSUME Shape, NEW c \in Clients, NEW place \in Places, Goto(c, place)
  PROVE  /\ pc' \in [Clients -> Places] /\ pc'[c] = place
         /\ \A d \in Clients \ {c} : pc'[d] = pc[d]
BY DEF Shape, Goto

\* No call writes what another call of the same process holds.
LEMMA StepAlone ==
  ASSUME Shape, NEW c \in Clients, Steps(c)
  PROVE  Alone(c)
<1>. USE DEF Shape
<1>1. CASE Call(c)
  <2>1. calls' \in [Clients -> Nat] /\ \A d \in Clients \ {c} : calls'[d] = calls[d]
    BY <1>1 DEF Call
  <2>2. PICK req \in Requests[c][calls[c] + 1] :
          \/ UNCHANGED <<pc, call, attempts, base>>
          \/ call' = [call EXCEPT ![c] = req] /\ Resolve(c, req.kind)
    BY <1>1 DEF Call
  <2>3. CASE UNCHANGED <<pc, call, attempts, base>>
    BY <1>1, <2>1, <2>3 DEF Call, Alone
  <2>4. CASE call' = [call EXCEPT ![c] = req] /\ Resolve(c, req.kind)
    <3>1. PICK place \in Places : Goto(c, place)
      BY <2>4 DEF Resolve, Places
    <3>. QED BY <1>1, <2>1, <2>4, <3>1, GotoAlone DEF Call, Resolve, Alone
  <2>. QED BY <2>2, <2>3, <2>4
<1>2. CASE ReadPointer(c)
  <2>1. PICK place \in Places : Goto(c, place)
    BY <1>2 DEF ReadPointer, Resolve, Places
  <2>. QED BY <1>2, <2>1, GotoAlone DEF ReadPointer, Resolve, Alone
<1>3. CASE ReadMeta(c)
  <2>1. CASE Return(c, "failed") /\ UNCHANGED calls BY <2>1, ReturnAlone
  <2>2. CASE Goto(c, "bundle") /\ ~Return(c, "failed")
    BY <1>3, <2>2, GotoAlone DEF ReadMeta, Alone, Places
  <2>. QED BY <1>3, <2>1, <2>2 DEF ReadMeta
<1>4. CASE ReadBundle(c)
  <2>1. ASSUME NEW answer, Return(c, answer) PROVE Alone(c)
    BY <1>4, <2>1, ReturnAlone DEF ReadBundle
  <2>2. ASSUME Goto(c, "post"), NEW g, draft' = [draft EXCEPT ![c] = g],
               UNCHANGED <<call, base, held, cursor, again, calls>>
        PROVE Alone(c)
    BY <2>2, GotoAlone DEF Alone, Places
  <2>. QED BY <1>4, <2>1, <2>2 DEF ReadBundle
<1>5. CASE ReadLegacy(c) \/ PostShards(c)
  BY <1>5, GotoAlone DEF ReadLegacy, PostShards, Alone, Places
<1>6. CASE PostMeta(c)
  <2>1. CASE Return(c, "failed") BY <1>6, <2>1, ReturnAlone DEF PostMeta
  <2>2. CASE Goto(c, "commit") /\ ~Return(c, "failed")
    BY <1>6, <2>2, GotoAlone DEF PostMeta, Alone, Places
  <2>. QED BY <1>6, <2>1, <2>2 DEF PostMeta
<1>7. CASE Commit(c)
  <2>1. CASE Return(c, "done") \/ Return(c, "changed")
    BY <1>7, <2>1, ReturnAlone DEF Commit
  <2>2. CASE Goto(c, "sweep") \/ Goto(c, "pointer")
    BY <1>7, <2>2, GotoAlone DEF Commit, Return, Alone, Places
  <2>. QED BY <1>7, <2>1, <2>2 DEF Commit
<1>8. CASE CommitUnanswered(c) \/ SweepEnds(c) \/ Crash(c)
  BY <1>8, ReturnAlone DEF CommitUnanswered, SweepEnds, Crash
<1>9. CASE Sweep(c) \/ SweepRefused(c)
  <2>1. PICK refused \in BOOLEAN : SweepGeneration(c, refused)
    BY <1>9 DEF Sweep, SweepRefused
  <2>2. CASE Return(c, "committed")
    BY <2>1, <2>2, ReturnAlone DEF SweepGeneration
  <2>3. CASE UNCHANGED <<pc, call, base, held, draft>>
    BY <2>1, <2>3 DEF SweepGeneration, Alone, Return
  <2>. QED BY <2>1, <2>2, <2>3 DEF SweepGeneration
<1>. QED BY <1>1, <1>2, <1>3, <1>4, <1>5, <1>6, <1>7, <1>8, <1>9 DEF Steps

-----------------------------------------------------------------------------
(* The pointer *)

\* What one step makes of the pointer: nothing, the log a client drafted from
\* it, the new format with the same log, or one more operation of an old build.
Committed_(c) == /\ pc[c] = "commit" /\ ~Imports(c)
                 /\ pointer' = [format |-> "compact", log |-> draft[c].log]
                 /\ \E op : op.id = Id(c) /\ draft[c].log = Append(pointer.log, op)
                 /\ pointer.format = "compact" /\ pointer = base[c]
CutOver(c)    == /\ pc[c] = "commit" /\ Imports(c)
                 /\ pointer' = [format |-> "compact", log |-> pointer.log]
                 /\ draft[c].log = pointer.log /\ pointer = base[c]
OldAccepts(op) == /\ op.id = <<"legacy", Len(pointer.log)>>
                  /\ op.kind = "close" /\ op.number = 1 /\ op.at = now /\ op.numbers = << >>
                  /\ ~Replay(pointer.log).board.deleted
                  /\ Applicable(op, Replay(pointer.log).board)
OldAppends    == /\ pointer.format = "legacy"
                 /\ \E op : /\ OldAccepts(op)
                            /\ pointer' = [format |-> "legacy", log |-> Append(pointer.log, op)]

\* An old build appends what its board accepts.
LEMMA OldStep ==
  ASSUME Shape, LegacyAppend
  PROVE  OldAppends
<1>1. PICK op : op = [id |-> <<"legacy", Len(pointer.log)>>, kind |-> "close", number |-> 1,
                      at |-> now, body |-> "", review |-> NoReview, numbers |-> << >>]
  OBVIOUS
<1>2. /\ pointer.format = "legacy"
      /\ ~Replay(pointer.log).board.deleted /\ Applicable(op, Replay(pointer.log).board)
      /\ pointer' = [pointer EXCEPT !.log = Append(@, op)]
  BY <1>1, Zenon DEF LegacyAppend
<1>3. OldAccepts(op)
  BY <1>1, <1>2 DEF OldAccepts
<1>4. pointer = [format |-> pointer.format, log |-> pointer.log]
  BY DEF Shape
<1>5. pointer' = [format |-> "legacy", log |-> Append(pointer.log, op)]
  BY <1>2, <1>4
<1>. QED BY <1>2, <1>3, <1>5 DEF OldAppends

\* commitPointer: a PUT that matches publishes a log drafted from the pointer.
LEMMA PublishStep ==
  ASSUME WorkInv, NEW c \in Clients, pc[c] = "commit", IfMatch(c), pointer' = Published(c)
  PROVE  Committed_(c) \/ CutOver(c)
<1>1. Working(c) /\ pointer = base[c] /\ pc[c] \in Drafting
  BY DEF WorkInv, IfMatch, Drafting
<1>2. CASE Imports(c)
  BY <1>1, <1>2 DEF Working, CutOver, Published
<1>3. CASE ~Imports(c)
  <2>1. base[c].format = "compact" /\ \E op : op.id = Id(c) /\ draft[c].log = Append(base[c].log, op)
    BY <1>1, <1>3 DEF Working
  <2>. QED BY <1>1, <1>3, <2>1 DEF Committed_, Published
<1>. QED BY <1>2, <1>3

\* Nothing but a client's commit, or an append in the old format, replaces the
\* pointer.
LEMMA PublishedBy ==
  ASSUME WorkInv, [Next]_vars
  PROVE  \/ UNCHANGED pointer
         \/ \E c \in Clients : Steps(c) /\ (Committed_(c) \/ CutOver(c))
         \/ OldAppends
<1>1. ASSUME NEW c \in Clients, Steps(c)
      PROVE  UNCHANGED pointer \/ Committed_(c) \/ CutOver(c)
  <2>1. CASE Commit(c) \/ CommitUnanswered(c)
    <3>1. pc[c] = "commit" /\ (UNCHANGED pointer \/ (IfMatch(c) /\ pointer' = Published(c)))
      BY <2>1 DEF Commit, CommitUnanswered
    <3>. QED BY <3>1, PublishStep
  <2>2. CASE ~(Commit(c) \/ CommitUnanswered(c))
    BY <1>1, <2>2 DEF Steps, Call, ReadPointer, ReadMeta, ReadBundle, ReadLegacy, PostShards, PostMeta,
                Sweep, SweepRefused, SweepGeneration, SweepEnds, Crash, object
  <2>. QED BY <2>1, <2>2
<1>2. CASE LegacyAppend
  BY <1>2, OldStep DEF WorkInv
<1>3. CASE Tick \/ UNCHANGED vars
  BY <1>3 DEF Tick, vars, object
<1>. QED BY <1>1, <1>2, <1>3, Zenon DEF Next, Steps

\* The same, whoever took the step.
LEMMA PointerStep ==
  ASSUME WorkInv, [Next]_vars
  PROVE  \/ UNCHANGED pointer
         \/ \E c \in Clients : Committed_(c) \/ CutOver(c)
         \/ OldAppends
<1>. QED BY PublishedBy

\* The pointer stays a pointer: its log only grows, by operations of the board.
LEMMA PointerKept ==
  ASSUME WorkInv, [Next]_vars
  PROVE  /\ pointer' = [format |-> pointer'.format, log |-> pointer'.log]
         /\ pointer'.format \in {"compact", "legacy"}
         /\ LogOK(pointer'.log)
         /\ pointer.format = "compact" => pointer'.format = "compact"
<1>0. /\ LogOK(pointer.log) /\ Len(pointer.log) \in Nat
      /\ pointer = [format |-> pointer.format, log |-> pointer.log]
      /\ pointer.format \in {"compact", "legacy"}
      /\ calls \in [Clients -> Nat]
  BY SeqFacts DEF WorkInv, Shape, LogOK
<1>1. ASSUME NEW c \in Clients, Committed_(c) PROVE LogOK(pointer'.log)
  <2>1. PICK op : op.id = Id(c) /\ pointer'.log = Append(pointer.log, op)
    BY <1>1 DEF Committed_
  <2>2. op.id \in Ids BY <1>0, <2>1 DEF Id, Ids
  <2>. QED BY <1>0, <2>1, <2>2, LogGrows
<1>2. CASE OldAppends
  <2>1. PICK op : /\ op.id = <<"legacy", Len(pointer.log)>>
                  /\ pointer' = [format |-> "legacy", log |-> Append(pointer.log, op)]
    BY <1>2 DEF OldAppends, OldAccepts
  <2>2. op.id \in Ids BY <1>0, <2>1 DEF Ids
  <2>3. LogOK(Append(pointer.log, op)) BY <1>0, <2>2, LogGrows
  <2>. QED BY <1>2, <2>1, <2>3 DEF OldAppends
<1>. QED BY <1>0, <1>1, <1>2, PointerStep DEF Committed_, CutOver

-----------------------------------------------------------------------------
(* The work of a client, step by step *)

\* Where a client comes from the pointer.
LEMMA ResolveWorks ==
  ASSUME WorkInv, NEW c \in Clients, Resolve(c, call'[c].kind),
         (call'[c].kind = "import") = (pointer.format = "legacy"),
         UNCHANGED pointer
  PROVE  Working(c)'
<1>1. pc'[c] = (IF call'[c].kind = "import" THEN "legacy" ELSE "meta") /\ base'[c] = pointer
  BY DEF Resolve, Goto, WorkInv, Shape
<1>. QED BY <1>1 DEF Working, Imports, WorkInv, Shape, Drafting, Resolved

\* The log a client drafts is one.
LEMMA DraftLog ==
  ASSUME WorkInv, NEW c \in Clients, pc[c] \in Drafting
  PROVE  LogOK(draft[c].log)
<1>1. Working(c) /\ LogOK(base[c].log) /\ calls \in [Clients -> Nat]
  BY DEF WorkInv, Working, Shape, Resolved
<1>2. CASE Imports(c) BY <1>1, <1>2 DEF Working
<1>3. CASE ~Imports(c)
  <2>1. PICK op : op.id = Id(c) /\ draft[c].log = Append(base[c].log, op)
    BY <1>1, <1>3 DEF Working
  <2>2. op.id \in Ids BY <1>1, <2>1 DEF Id, Ids
  <2>. QED BY <1>1, <2>1, <2>2, LogGrows
<1>. QED BY <1>2, <1>3

\* What is stored of generations: one more, one less, or the same.
LEMMA MetasStep ==
  ASSUME [Next]_vars
  PROVE  \/ UNCHANGED metas
         \/ \E c \in Clients : pc[c] = "describe" /\ metas' = Put(metas, draft[c].log, draft[c])
         \/ \E c \in Clients, log \in DOMAIN metas :
              /\ pc[c] = "sweep" /\ log \in cursor[c]
              /\ metas' = [l \in DOMAIN metas \ {log} |-> metas[l]]
<1>1. ASSUME NEW c \in Clients, PostMeta(c)
      PROVE  pc[c] = "describe" /\ metas' = Put(metas, draft[c].log, draft[c])
  BY <1>1 DEF PostMeta
<1>2. ASSUME NEW c \in Clients, Sweep(c) \/ SweepRefused(c)
      PROVE  \/ UNCHANGED metas
             \/ \E log \in DOMAIN metas :
                  /\ pc[c] = "sweep" /\ log \in cursor[c]
                  /\ metas' = [l \in DOMAIN metas \ {log} |-> metas[l]]
  BY <1>2 DEF Sweep, SweepRefused, SweepGeneration
<1>3. ASSUME NEW c \in Clients, Steps(c), ~(PostMeta(c) \/ Sweep(c) \/ SweepRefused(c))
      PROVE  UNCHANGED metas
  BY <1>3 DEF Steps, Call, ReadPointer, ReadMeta, ReadBundle, ReadLegacy, PostShards,
              Commit, CommitUnanswered, SweepEnds, Crash, object
<1>4. CASE LegacyAppend \/ Tick \/ UNCHANGED vars
  BY <1>4 DEF LegacyAppend, Tick, vars, object
<1>. QED BY <1>1, <1>2, <1>3, <1>4 DEF Next, Steps

\* Every stored generation is under its own log.
LEMMA StoredStep ==
  ASSUME WorkInv, [Next]_vars
  PROVE  Stored'
<1>1. ASSUME NEW c \in Clients, pc[c] = "describe", metas' = Put(metas, draft[c].log, draft[c])
      PROVE  Stored'
  <2>1. LogOK(draft[c].log) BY <1>1, DraftLog DEF Drafting
  <2>2. DOMAIN metas' = DOMAIN metas \cup {draft[c].log}
    BY <1>1 DEF Put
  <2>3. metas'[draft[c].log] = draft[c]
    BY <1>1 DEF Put
  <2>4. \A log \in DOMAIN metas : log # draft[c].log => metas'[log] = metas[log]
    BY <1>1 DEF Put
  <2>. QED BY <2>1, <2>2, <2>3, <2>4 DEF WorkInv, Stored
<1>2. ASSUME NEW log, metas' = [l \in DOMAIN metas \ {log} |-> metas[l]] PROVE Stored'
  BY <1>2 DEF WorkInv, Stored
<1>3. CASE UNCHANGED metas BY <1>3 DEF WorkInv, Stored
<1>. QED BY <1>1, <1>2, <1>3, MetasStep

\* The client that takes a step works on.
LEMMA OwnWork ==
  ASSUME WorkInv, NEW c \in Clients, Steps(c)
  PROVE  Working(c)'
<1>0. Shape /\ Working(c) /\ Alone(c) /\ Stored
  BY StepAlone DEF WorkInv
<1>1. ASSUME pc'[c] = "idle" PROVE Working(c)'
  BY <1>1 DEF Working, Drafting, Resolved
<1>2. ASSUME NEW answer, Return(c, answer) PROVE pc'[c] = "idle"
  BY <1>0, <1>2 DEF Return, Shape
<1>3. CASE Call(c)
  <2>1. PICK req \in Requests[c][calls[c] + 1] :
          \/ UNCHANGED <<pc, call, attempts, base>>
          \/ /\ (pointer.format = "legacy") = (req.kind = "import")
             /\ call' = [call EXCEPT ![c] = req] /\ Resolve(c, req.kind)
    BY <1>3 DEF Call
  <2>2. CASE UNCHANGED pc BY <1>1, <1>3, <2>2 DEF Call
  <2>3. CASE /\ (pointer.format = "legacy") = (req.kind = "import")
             /\ call' = [call EXCEPT ![c] = req] /\ Resolve(c, req.kind)
    <3>1. call'[c].kind = req.kind BY <1>0, <2>3 DEF Shape
    <3>. QED BY <1>3, <2>3, <3>1, ResolveWorks DEF Call, object
  <2>. QED BY <2>1, <2>2, <2>3
<1>4. CASE ReadPointer(c)
  <2>1. ~Imports(c) /\ pointer.format = "compact" /\ call' = call
    BY <1>0, <1>4 DEF ReadPointer, Working
  <2>. QED BY <1>4, <2>1, ResolveWorks DEF ReadPointer, object, Imports
<1>5. CASE ReadMeta(c)
  <2>1. CASE /\ held' = [held EXCEPT ![c] = metas[base[c].log]] /\ base[c].log \in DOMAIN metas
             /\ Goto(c, "bundle") /\ UNCHANGED <<call, base>>
    <3>1. held'[c].log = base'[c].log BY <1>0, <2>1 DEF Shape, Stored
    <3>. QED BY <1>0, <1>5, <2>1, <3>1
         DEF ReadMeta, Goto, Working, Imports, Shape, Drafting, Resolved, object
  <2>. QED BY <1>1, <1>2, <1>5, <2>1 DEF ReadMeta
<1>6. CASE ReadBundle(c)
  <2>1. CASE /\ draft' = [draft EXCEPT ![c] = NextGeneration(OperationOf(c), held[c], CardsOf(c))]
             /\ Goto(c, "post") /\ UNCHANGED <<call, base>>
    <3>1. OperationOf(c).id = Id(c) BY DEF OperationOf
    <3>2. draft'[c].log = Append(base[c].log, OperationOf(c))
      BY <1>0, <1>6, <2>1, NextLog DEF Shape, ReadBundle, Working
    <3>3. pc[c] = "bundle" /\ UNCHANGED <<calls, pointer>>
      BY <1>6 DEF ReadBundle, object
    <3>4. Id(c)' = Id(c) BY <3>3 DEF Id
    <3>5. \E op : op.id = Id(c)' /\ draft'[c].log = Append(base'[c].log, op)
      BY <2>1, <3>1, <3>2, <3>4
    <3>. QED BY <1>0, <2>1, <3>3, <3>5
         DEF Goto, Working, Imports, Shape, Drafting, Resolved
  <2>. QED BY <1>1, <1>2, <1>6, <2>1 DEF ReadBundle
<1>7. CASE ReadLegacy(c)
  <2>1. draft'[c].log = base[c].log
    BY <1>0, <1>7, ImportedLog DEF ReadLegacy, Shape
  <2>. QED BY <1>0, <1>7, <2>1
       DEF ReadLegacy, Goto, Working, Imports, Shape, Drafting, Resolved, object
<1>8. ASSUME pc[c] \in Drafting, pc'[c] \in Drafting, UNCHANGED <<call, base, draft, calls, pointer>>
      PROVE  Working(c)'
  <2>1. Id(c)' = Id(c) BY <1>8 DEF Id
  <2>. QED BY <1>0, <1>8, <2>1 DEF Working, Imports, Drafting, Resolved
<1>9. CASE PostShards(c)
  BY <1>0, <1>8, <1>9 DEF PostShards, Goto, Shape, Drafting
<1>10. CASE PostMeta(c)
  <2>1. CASE Goto(c, "commit") /\ UNCHANGED <<call, base, draft>>
    BY <1>0, <1>8, <1>10, <2>1 DEF PostMeta, Goto, Shape, Drafting
  <2>. QED BY <1>1, <1>2, <1>10, <2>1 DEF PostMeta
<1>11. CASE Commit(c)
  <2>1. CASE /\ ~Imports(c) /\ UNCHANGED call
             /\ Goto(c, "sweep") /\ pointer' = Published(c) /\ UNCHANGED base
    BY <1>0, <1>11, <2>1
    DEF Commit, Goto, Working, Imports, Shape, Drafting, Resolved, Published
  <2>2. CASE ~Imports(c) /\ UNCHANGED call /\ Goto(c, "pointer") /\ pointer' = pointer
    BY <1>0, <1>11, <2>2 DEF Commit, Goto, Working, Imports, Shape, Drafting, Resolved
  <2>. QED BY <1>1, <1>2, <1>11, <2>1, <2>2 DEF Commit, Imports, GivesUp
<1>12. CASE CommitUnanswered(c) \/ SweepEnds(c) \/ Crash(c)
  BY <1>1, <1>2, <1>12 DEF CommitUnanswered, SweepEnds, Crash
<1>13. CASE Sweep(c) \/ SweepRefused(c)
  <2>1. PICK refused \in BOOLEAN : SweepGeneration(c, refused)
    BY <1>13 DEF Sweep, SweepRefused
  <2>2. CASE UNCHANGED <<pc, call, base>>
    BY <1>0, <2>1, <2>2
    DEF SweepGeneration, Working, Imports, Drafting, Resolved
  <2>. QED BY <1>1, <1>2, <2>1, <2>2 DEF SweepGeneration
<1>. QED BY <1>3, <1>4, <1>5, <1>6, <1>7, <1>9, <1>10, <1>11, <1>12, <1>13 DEF Steps

\* What a client works on is out of the reach of the others.
LEMMA WorkStep == WorkInv /\ [Next]_vars => WorkInv'
<1>. SUFFICES ASSUME WorkInv, [Next]_vars PROVE WorkInv'
  OBVIOUS
<1>1. /\ pointer' = [format |-> pointer'.format, log |-> pointer'.log]
      /\ pointer'.format \in {"compact", "legacy"} /\ LogOK(pointer'.log)
      /\ pointer.format = "compact" => pointer'.format = "compact"
  BY PointerKept
<1>2. ASSUME NEW d \in Clients, pc'[d] = pc[d], call'[d] = call[d], calls'[d] = calls[d],
             base'[d] = base[d], held'[d] = held[d], draft'[d] = draft[d]
      PROVE  Working(d)'
  <2>1. Working(d) BY DEF WorkInv
  <2>2. Id(d)' = Id(d) BY <1>2 DEF Id
  <2>. QED BY <1>1, <1>2, <2>1, <2>2 DEF Working, Imports
<1>3. CASE UNCHANGED client
  <2>1. Shape' BY <1>1, <1>3 DEF WorkInv, Shape, client
  <2>. QED BY <1>2, <1>3, <2>1, StoredStep DEF WorkInv, client
<1>4. ASSUME NEW c \in Clients, Steps(c) PROVE WorkInv'
  <2>1. Alone(c) BY <1>4, StepAlone DEF WorkInv
  <2>2. Shape' BY <1>1, <2>1 DEF Shape, Alone
  <2>3. Working(c)' BY <1>4, OwnWork
  <2>4. \A d \in Clients \ {c} : Working(d)' BY <1>2, <2>1 DEF Alone
  <2>. QED BY <2>2, <2>3, <2>4, StoredStep DEF WorkInv
<1>. QED BY <1>3, <1>4 DEF Next, Steps, LegacyAppend, Tick, vars

\* A board of either format, and clients that have called nothing yet.
LEMMA WorkInit == Init => WorkInv
<1>. SUFFICES ASSUME Init PROVE WorkInv
  OBVIOUS
<1>1. IsSeq(<< >>) /\ Len(<< >>) = 0
  <2>1. << >> \in Seq({}) OBVIOUS
  <2>. QED BY <2>1 DEF IsSeq
<1>2. LogOK(<< >>) BY <1>1 DEF LogOK
<1>3. /\ pointer = [format |-> pointer.format, log |-> << >>]
      /\ pointer.format \in {"compact", "legacy"}
  BY DEF Init
<1>4. Shape
  <2>1. /\ DOMAIN call = Clients /\ DOMAIN base = Clients /\ DOMAIN held = Clients
        /\ DOMAIN draft = Clients /\ DOMAIN cursor = Clients /\ DOMAIN again = Clients
        /\ pc \in [Clients -> Places] /\ calls \in [Clients -> Nat]
    BY DEF Init, Places
  <2>2. pointer.log = << >> BY <1>3
  <2>. QED BY <1>2, <1>3, <2>1, <2>2 DEF Shape
<1>5. Stored
  <2>1. CASE metas = [log \in {<< >>} |-> Imported(log)]
    BY <1>2, <2>1, ImportedLog DEF Stored
  <2>2. CASE metas = [log \in {} |-> NoMeta]
    BY <2>2 DEF Stored
  <2>. QED BY <2>1, <2>2 DEF Init
<1>6. \A c \in Clients : pc[c] = "idle" BY DEF Init
<1>. QED BY <1>4, <1>5, <1>6 DEF WorkInv, Working, Drafting, Resolved

-----------------------------------------------------------------------------
(* What a caller is told *)

\* A call that has an answer is over, and one that has published is over or
\* sweeping.
Known ==
  /\ \A id \in DOMAIN answers : \E c \in Clients, k \in Nat :
       id = <<c, k>> /\ k <= calls[c] /\ (k = calls[c] => pc[c] = "idle")
  /\ \A c \in Clients, k \in Nat : <<c, k>> \in Committed =>
       k <= calls[c] /\ (k = calls[c] => pc[c] \in {"idle", "sweep"})

AnswersInv == WorkInv /\ Known /\ AnswersTruthful

\* One more operation in the log is one more call in what it holds.
LEMMA Recorded ==
  ASSUME NEW log, IsSeq(log), NEW op
  PROVE  {Append(log, op)[i].id : i \in DOMAIN Append(log, op)}
           = {log[i].id : i \in DOMAIN log} \cup {op.id}
<1>1. /\ Len(log) \in Nat /\ DOMAIN log = 1..Len(log)
      /\ DOMAIN Append(log, op) = 1..(Len(log) + 1)
      /\ \A i \in 1..Len(log) : Append(log, op)[i] = log[i]
      /\ Append(log, op)[Len(log) + 1] = op
  BY AppendFacts, SeqFacts
<1>2. 1..(Len(log) + 1) = 1..Len(log) \cup {Len(log) + 1}
  BY <1>1
<1>. QED BY <1>1, <1>2

\* What a step adds to what the log holds.
LEMMA CommittedStep ==
  ASSUME WorkInv
  PROVE  /\ UNCHANGED pointer => Committed' = Committed
         /\ \A c \in Clients : Committed_(c) => Committed' = Committed \cup {Id(c)}
         /\ \A c \in Clients : CutOver(c) => Committed' = Committed
         /\ OldAppends => \E n : Committed' = Committed \cup {<<"legacy", n>>}
<1>0. IsSeq(pointer.log) BY DEF WorkInv, Shape, LogOK
<1>1. ASSUME NEW op, pointer'.log = Append(pointer.log, op)
      PROVE  Committed' = Committed \cup {op.id}
  BY <1>0, <1>1, Recorded DEF Committed
<1>2. ASSUME NEW c \in Clients, Committed_(c) PROVE Committed' = Committed \cup {Id(c)}
  <2>1. PICK op : op.id = Id(c) /\ pointer'.log = Append(pointer.log, op)
    BY <1>2 DEF Committed_
  <2>. QED BY <1>1, <2>1
<1>3. ASSUME NEW c \in Clients, CutOver(c) PROVE Committed' = Committed
  BY <1>3 DEF CutOver, Committed
<1>4. ASSUME OldAppends PROVE \E n : Committed' = Committed \cup {<<"legacy", n>>}
  <2>1. PICK op : op.id = <<"legacy", Len(pointer.log)>> /\ pointer'.log = Append(pointer.log, op)
    BY <1>4 DEF OldAppends, OldAccepts
  <2>. QED BY <1>1, <2>1
<1>. QED BY <1>2, <1>3, <1>4 DEF Committed

\* A call goes on, and is in the log exactly when it sweeps.
LEMMA GoesOn ==
  ASSUME AnswersInv, NEW c \in Clients, Alone(c), UNCHANGED <<calls, answers>>,
         pc[c] # "idle", pc'[c] # "idle",
         Committed' \subseteq Committed \cup {Id(c)}, Committed \subseteq Committed',
         (Id(c) \in Committed') = (pc'[c] = "sweep")
  PROVE  Known' /\ AnswersTruthful'
<1>0. calls \in [Clients -> Nat] /\ \A d \in Clients : Id(d)' = Id(d)
  BY DEF AnswersInv, WorkInv, Shape, Id
<1>1. \A d \in Clients \ {c} : pc'[d] = pc[d] BY DEF Alone
<1>2. Id(c) \notin DOMAIN answers
  BY <1>0 DEF AnswersInv, Known, Id
<1>3. Known'
  <2>1. ASSUME NEW id \in DOMAIN answers'
        PROVE  \E d \in Clients, k \in Nat :
                 id = <<d, k>> /\ k <= calls'[d] /\ (k = calls'[d] => pc'[d] = "idle")
    <3>1. PICK d \in Clients, k \in Nat :
            id = <<d, k>> /\ k <= calls[d] /\ (k = calls[d] => pc[d] = "idle")
      BY <2>1 DEF AnswersInv, Known
    <3>. QED BY <1>1, <3>1
  <2>2. ASSUME NEW d \in Clients, NEW k \in Nat, <<d, k>> \in Committed'
        PROVE  k <= calls'[d] /\ (k = calls'[d] => pc'[d] \in {"idle", "sweep"})
    <3>1. CASE <<d, k>> = Id(c) BY <1>0, <2>2, <3>1 DEF Id
    <3>2. CASE <<d, k>> # Id(c) BY <1>0, <1>1, <2>2, <3>2 DEF AnswersInv, Known, Id
    <3>. QED BY <3>1, <3>2
  <2>. QED BY <2>1, <2>2 DEF Known
<1>4. AnswersTruthful'
  <2>1. ASSUME NEW id \in DOMAIN answers'
        PROVE  /\ answers'[id] = "committed" => id \in Committed'
               /\ id \in Committed' => answers'[id] \in {"committed", "unknown"}
    BY <1>2, <2>1 DEF AnswersInv, AnswersTruthful
  <2>2. \A d \in Clients : pc'[d] = "sweep" => Id(d)' \in Committed'
    BY <1>0, <1>1 DEF AnswersInv, AnswersTruthful
  <2>. QED BY <2>1, <2>2 DEF AnswersTruthful
<1>. QED BY <1>3, <1>4

\* A call is told what the log says, or nothing.
LEMMA Told ==
  ASSUME AnswersInv, NEW c \in Clients, Alone(c), UNCHANGED calls,
         pc[c] # "idle", pc'[c] = "idle",
         NEW answer, answers' = Put(answers, Id(c), answer),
         Committed' \subseteq Committed \cup {Id(c)}, Committed \subseteq Committed',
         answer = "committed" => Id(c) \in Committed',
         Id(c) \in Committed' => answer \in {"committed", "unknown"}
  PROVE  Known' /\ AnswersTruthful'
<1>0. calls \in [Clients -> Nat] /\ \A d \in Clients : Id(d)' = Id(d)
  BY DEF AnswersInv, WorkInv, Shape, Id
<1>1. \A d \in Clients \ {c} : pc'[d] = pc[d] BY DEF Alone
<1>2. Id(c) \notin DOMAIN answers
  BY <1>0 DEF AnswersInv, Known, Id
<1>a. /\ DOMAIN answers' = DOMAIN answers \cup {Id(c)}
      /\ answers'[Id(c)] = answer
      /\ \A id \in DOMAIN answers : answers'[id] = answers[id]
  BY <1>2 DEF Put
<1>3. Known'
  <2>1. ASSUME NEW id \in DOMAIN answers'
        PROVE  \E d \in Clients, k \in Nat :
                 id = <<d, k>> /\ k <= calls'[d] /\ (k = calls'[d] => pc'[d] = "idle")
    <3>1. CASE id = Id(c) BY <1>0, <3>1 DEF Id
    <3>2. CASE id \in DOMAIN answers
      <4>1. PICK d \in Clients, k \in Nat :
              id = <<d, k>> /\ k <= calls[d] /\ (k = calls[d] => pc[d] = "idle")
        BY <3>2 DEF AnswersInv, Known
      <4>. QED BY <1>1, <4>1
    <3>. QED BY <1>a, <2>1, <3>1, <3>2
  <2>2. ASSUME NEW d \in Clients, NEW k \in Nat, <<d, k>> \in Committed'
        PROVE  k <= calls'[d] /\ (k = calls'[d] => pc'[d] \in {"idle", "sweep"})
    <3>1. CASE <<d, k>> = Id(c) BY <1>0, <2>2, <3>1 DEF Id
    <3>2. CASE <<d, k>> # Id(c) BY <1>0, <1>1, <2>2, <3>2 DEF AnswersInv, Known, Id
    <3>. QED BY <3>1, <3>2
  <2>. QED BY <2>1, <2>2 DEF Known
<1>4. AnswersTruthful'
  <2>1. ASSUME NEW id \in DOMAIN answers'
        PROVE  /\ answers'[id] = "committed" => id \in Committed'
               /\ id \in Committed' => answers'[id] \in {"committed", "unknown"}
    BY <1>2, <1>a, <2>1 DEF AnswersInv, AnswersTruthful
  <2>2. \A d \in Clients : pc'[d] = "sweep" => Id(d)' \in Committed'
    BY <1>0, <1>1 DEF AnswersInv, AnswersTruthful
  <2>. QED BY <2>1, <2>2 DEF AnswersTruthful
<1>. QED BY <1>3, <1>4

\* A new call is in nobody's log, whether it is refused at once or begins.
LEMMA Asked ==
  ASSUME AnswersInv, NEW c \in Clients, Alone(c), UNCHANGED pointer,
         calls' = [calls EXCEPT ![c] = @ + 1], pc[c] = "idle",
         \/ /\ pc'[c] = "idle"
            /\ \E answer : /\ answer \in {"done", "refused"}
                           /\ answers' = Put(answers, <<c, calls[c] + 1>>, answer)
         \/ pc'[c] \in {"legacy", "meta"} /\ answers' = answers
  PROVE  Known' /\ AnswersTruthful'
<1>0. /\ calls \in [Clients -> Nat] /\ Committed' = Committed
      /\ \A d \in Clients \ {c} : Id(d)' = Id(d) /\ pc'[d] = pc[d] /\ calls'[d] = calls[d]
      /\ calls'[c] = calls[c] + 1 /\ calls[c] \in Nat
  BY CommittedStep DEF AnswersInv, WorkInv, Shape, Id, Alone
<1>1. <<c, calls[c] + 1>> \notin DOMAIN answers /\ <<c, calls[c] + 1>> \notin Committed
  BY <1>0 DEF AnswersInv, Known
<1>2. \A id \in DOMAIN answers' : \/ id \in DOMAIN answers /\ answers'[id] = answers[id]
                                  \/ /\ id = <<c, calls[c] + 1>> /\ pc'[c] = "idle"
                                     /\ answers'[id] \in {"done", "refused"}
  BY <1>1 DEF Put
<1>3. Known'
  <2>1. ASSUME NEW id \in DOMAIN answers'
        PROVE  \E d \in Clients, k \in Nat :
                 id = <<d, k>> /\ k <= calls'[d] /\ (k = calls'[d] => pc'[d] = "idle")
    <3>1. CASE id = <<c, calls[c] + 1>> /\ pc'[c] = "idle" BY <1>0, <3>1
    <3>2. CASE id \in DOMAIN answers
      <4>1. PICK d \in Clients, k \in Nat :
              id = <<d, k>> /\ k <= calls[d] /\ (k = calls[d] => pc[d] = "idle")
        BY <3>2 DEF AnswersInv, Known
      <4>2. CASE d = c BY <1>0, <4>1, <4>2
      <4>3. CASE d # c BY <1>0, <4>1, <4>3
      <4>. QED BY <4>2, <4>3
    <3>. QED BY <1>2, <2>1, <3>1, <3>2
  <2>2. ASSUME NEW d \in Clients, NEW k \in Nat, <<d, k>> \in Committed'
        PROVE  k <= calls'[d] /\ (k = calls'[d] => pc'[d] \in {"idle", "sweep"})
    <3>1. k <= calls[d] /\ (k = calls[d] => pc[d] \in {"idle", "sweep"})
      BY <1>0, <2>2 DEF AnswersInv, Known
    <3>2. CASE d = c BY <1>0, <3>1, <3>2
    <3>3. CASE d # c BY <1>0, <3>1, <3>3
    <3>. QED BY <3>2, <3>3
  <2>. QED BY <2>1, <2>2 DEF Known
<1>4. AnswersTruthful'
  <2>1. ASSUME NEW id \in DOMAIN answers'
        PROVE  /\ answers'[id] = "committed" => id \in Committed'
               /\ id \in Committed' => answers'[id] \in {"committed", "unknown"}
    BY <1>0, <1>1, <1>2, <2>1 DEF AnswersInv, AnswersTruthful
  <2>2. \A d \in Clients : pc'[d] = "sweep" => Id(d)' \in Committed'
    BY <1>0 DEF AnswersInv, AnswersTruthful
  <2>. QED BY <2>1, <2>2 DEF AnswersTruthful
<1>. QED BY <1>3, <1>4

\* Nothing a call learns or is told contradicts the log, whatever it does next.
LEMMA OwnAnswer ==
  ASSUME AnswersInv, NEW c \in Clients, Steps(c)
  PROVE  Known' /\ AnswersTruthful'
<1>0. /\ WorkInv /\ Shape /\ Alone(c)
      /\ calls \in [Clients -> Nat] /\ pc \in [Clients -> Places]
  BY StepAlone DEF AnswersInv, WorkInv, Shape
<1>1. /\ pc[c] \notin {"idle", "sweep"} => Id(c) \notin Committed
      /\ pc[c] = "sweep" => Id(c) \in Committed
      /\ UNCHANGED pointer => Committed' = Committed
  BY <1>0, CommittedStep DEF AnswersInv, Known, AnswersTruthful, Id
<1>2. ASSUME NEW answer, Return(c, answer)
      PROVE  pc'[c] = "idle" /\ answers' = Put(answers, Id(c), answer)
  BY <1>0, <1>2 DEF Return, Shape
\* A call that returns before it published anything, or after.
<1>3. ASSUME NEW answer, Return(c, answer), UNCHANGED <<calls, pointer>>, pc[c] # "idle",
             answer = "committed" => pc[c] = "sweep",
             pc[c] = "sweep" => answer \in {"committed", "unknown"}
      PROVE  Known' /\ AnswersTruthful'
  <2>1. Committed' = Committed BY <1>1, <1>3
  <2>2. answer = "committed" => Id(c) \in Committed' BY <1>1, <1>3, <2>1
  <2>3. Id(c) \in Committed' => answer \in {"committed", "unknown"} BY <1>1, <1>3, <2>1
  <2>. QED BY <1>0, <1>2, <1>3, <2>1, <2>2, <2>3, Told
<1>4. ASSUME NEW place \in Places \ {"idle", "sweep"}, Goto(c, place),
             UNCHANGED <<calls, answers, pointer>>, pc[c] \notin {"idle", "sweep"}
      PROVE  Known' /\ AnswersTruthful'
  <2>1. pc'[c] = place BY <1>0, <1>4, GotoAlone
  <2>2. Committed' = Committed BY <1>1, <1>4
  <2>. QED BY <1>0, <1>1, <1>4, <2>1, <2>2, GoesOn
<1>5. CASE Call(c)
  <2>1. PICK req \in Requests[c][calls[c] + 1] :
          \/ /\ UNCHANGED pc
             /\ \E answer \in {"done", "refused"} :
                  answers' = Put(answers, <<c, calls[c] + 1>>, answer)
          \/ Resolve(c, req.kind) /\ UNCHANGED answers
    BY <1>5 DEF Call
  <2>2. UNCHANGED pc \/ pc'[c] \in {"legacy", "meta"}
    BY <1>0, <2>1 DEF Resolve, Goto, Shape
  <2>3. /\ UNCHANGED pointer /\ pc[c] = "idle" /\ calls' = [calls EXCEPT ![c] = @ + 1]
    BY <1>5 DEF Call, object
  <2>4. CASE UNCHANGED pc /\ \E answer \in {"done", "refused"} :
                  answers' = Put(answers, <<c, calls[c] + 1>>, answer)
    BY <1>0, <2>3, <2>4, Asked
  <2>5. CASE Resolve(c, req.kind) /\ UNCHANGED answers
    <3>1. pc'[c] \in {"legacy", "meta"} BY <1>0, <2>5 DEF Resolve, Goto, Shape
    <3>. QED BY <1>0, <2>3, <2>5, <3>1, Asked
  <2>. QED BY <2>1, <2>4, <2>5
<1>6. CASE ReadPointer(c)
  <2>1. PICK place \in Places \ {"idle", "sweep"} : Goto(c, place)
    BY <1>6 DEF ReadPointer, Resolve, Places
  <2>. QED BY <1>4, <1>6, <2>1 DEF ReadPointer, object
<1>7. CASE ReadMeta(c)
  <2>1. CASE Return(c, "failed") /\ UNCHANGED calls
    BY <1>3, <1>7, <2>1 DEF ReadMeta, object
  <2>2. CASE Goto(c, "bundle") /\ UNCHANGED <<calls, answers>>
    BY <1>4, <1>7, <2>2 DEF ReadMeta, object, Places
  <2>. QED BY <1>7, <2>1, <2>2 DEF ReadMeta
<1>8. CASE ReadBundle(c)
  <2>1. ASSUME NEW answer \in {"failed", "done", "refused"}, Return(c, answer)
        PROVE  Known' /\ AnswersTruthful'
    BY <1>3, <1>8, <2>1 DEF ReadBundle, object
  <2>2. CASE Goto(c, "post") /\ UNCHANGED answers
    BY <1>4, <1>8, <2>2 DEF ReadBundle, object, Places
  <2>. QED BY <1>8, <2>1, <2>2 DEF ReadBundle
<1>9. CASE ReadLegacy(c) \/ PostShards(c)
  BY <1>4, <1>9 DEF ReadLegacy, PostShards, object, Places
<1>10. CASE PostMeta(c)
  <2>1. CASE Return(c, "failed") BY <1>3, <1>10, <2>1 DEF PostMeta
  <2>2. CASE Goto(c, "commit") /\ UNCHANGED answers
    BY <1>4, <1>10, <2>2 DEF PostMeta, Places
  <2>. QED BY <1>10, <2>1, <2>2 DEF PostMeta
<1>11. ASSUME pc[c] = "commit", IfMatch(c), pointer' = Published(c)
       PROVE  \/ Committed' = Committed \cup {Id(c)} /\ ~Imports(c)
              \/ Committed' = Committed /\ Imports(c)
  BY <1>0, <1>11, PublishStep, CommittedStep DEF Committed_, CutOver
<1>12. CASE Commit(c)
  <2>1. pc[c] = "commit" /\ UNCHANGED calls BY <1>12 DEF Commit
  <2>2. CASE IfMatch(c) /\ pointer' = Published(c) /\ Imports(c) /\ Return(c, "done")
    <3>1. Committed' = Committed /\ Id(c) \notin Committed BY <1>1, <1>11, <2>1, <2>2
    <3>. QED BY <1>0, <1>2, <2>1, <2>2, <3>1, Told
  <2>3. CASE /\ IfMatch(c) /\ pointer' = Published(c) /\ ~Imports(c)
             /\ Goto(c, "sweep") /\ UNCHANGED answers
    <3>1. Committed' = Committed \cup {Id(c)} BY <1>11, <2>1, <2>3
    <3>2. pc'[c] = "sweep" BY <1>0, <2>3, GotoAlone DEF Places
    <3>. QED BY <1>0, <2>1, <2>3, <3>1, <3>2, GoesOn
  <2>4. CASE pointer' = pointer /\ Return(c, "changed")
    BY <1>3, <2>1, <2>4
  <2>5. CASE pointer' = pointer /\ Goto(c, "pointer") /\ UNCHANGED answers
    BY <1>4, <2>1, <2>5 DEF Places
  <2>. QED BY <1>12, <2>2, <2>3, <2>4, <2>5 DEF Commit, Imports
<1>13. CASE CommitUnanswered(c)
  <2>1. pc[c] = "commit" /\ UNCHANGED calls /\ Return(c, "unknown")
    BY <1>13 DEF CommitUnanswered
  <2>2. CASE pointer' = pointer BY <1>3, <2>1, <2>2
  <2>3. CASE IfMatch(c) /\ pointer' = Published(c)
    <3>1. Committed' \in {Committed, Committed \cup {Id(c)}} BY <1>11, <2>1, <2>3
    <3>. QED BY <1>0, <1>2, <2>1, <3>1, Told
  <2>. QED BY <1>13, <2>2, <2>3 DEF CommitUnanswered
<1>14. CASE Sweep(c) \/ SweepRefused(c)
  <2>1. PICK refused \in BOOLEAN : SweepGeneration(c, refused)
    BY <1>14 DEF Sweep, SweepRefused
  <2>2. pc[c] = "sweep" /\ UNCHANGED <<calls, pointer>>
    BY <2>1 DEF SweepGeneration
  <2>3. CASE Return(c, "committed") BY <1>3, <2>2, <2>3
  <2>4. CASE UNCHANGED <<pc, answers>>
    <3>1. Committed' = Committed BY <1>1, <2>2
    <3>. QED BY <1>0, <1>1, <2>2, <2>4, <3>1, GoesOn
  <2>. QED BY <2>1, <2>3, <2>4 DEF SweepGeneration
<1>15. CASE SweepEnds(c) BY <1>3, <1>15 DEF SweepEnds, object
<1>16. CASE Crash(c) BY <1>3, <1>16 DEF Crash, object
<1>. QED BY <1>5, <1>6, <1>7, <1>8, <1>9, <1>10, <1>12, <1>13, <1>14, <1>15, <1>16 DEF Steps

\* No step breaks what is known of answers.
LEMMA AnswersStep == AnswersInv /\ [Next]_vars => AnswersInv'
<1>. SUFFICES ASSUME AnswersInv, [Next]_vars PROVE AnswersInv'
  OBVIOUS
<1>1. WorkInv' BY WorkStep DEF AnswersInv
<1>2. ASSUME NEW c \in Clients, Steps(c) PROVE AnswersInv'
  BY <1>1, <1>2, OwnAnswer DEF AnswersInv
<1>3. CASE LegacyAppend \/ Tick \/ UNCHANGED vars
  <2>1. UNCHANGED client /\ UNCHANGED answers
    BY <1>3 DEF LegacyAppend, Tick, vars
  <2>2. UNCHANGED <<pc, calls, answers>> /\ \A c \in Clients : Id(c)' = Id(c)
    BY <2>1 DEF client, Id
  <2>3. UNCHANGED pointer \/ OldAppends
    <3>1. CASE LegacyAppend
      BY <3>1, OldStep DEF AnswersInv, WorkInv
    <3>. QED BY <1>3, <3>1 DEF Tick, vars, object
  <2>4. \A c \in Clients, k \in Nat : <<c, k>> \in Committed' <=> <<c, k>> \in Committed
    <3>1. \A n : \A c \in Clients, k \in Nat : <<c, k>> # <<"legacy", n>>
      BY StoreAssumption
    <3>2. CASE UNCHANGED pointer BY <3>2, CommittedStep DEF AnswersInv
    <3>3. CASE OldAppends
      <4>1. PICK n : Committed' = Committed \cup {<<"legacy", n>>}
        BY <3>3, CommittedStep DEF AnswersInv
      <4>. QED BY <3>1, <4>1
    <3>. QED BY <2>3, <3>2, <3>3
  <2>5. Known' BY <2>2, <2>4 DEF AnswersInv, Known
  <2>6. AnswersTruthful'
    <3>1. \A id \in DOMAIN answers : id \in Committed' <=> id \in Committed
      BY <2>4 DEF AnswersInv, Known
    <3>2. \A c \in Clients : Id(c) \in Committed' <=> Id(c) \in Committed
      BY <2>4 DEF AnswersInv, WorkInv, Shape, Id
    <3>. QED BY <2>2, <3>1, <3>2 DEF AnswersInv, AnswersTruthful
  <2>. QED BY <1>1, <2>5, <2>6 DEF AnswersInv
<1>. QED BY <1>2, <1>3 DEF Next, Steps

\* Nobody has been told anything yet.
LEMMA AnswersInit == Init => AnswersInv
<1>. SUFFICES ASSUME Init PROVE AnswersInv
  OBVIOUS
<1>1. pointer.log = << >> /\ DOMAIN answers = {} /\ \A c \in Clients : pc[c] = "idle"
  BY DEF Init
<1>2. Committed = {} BY <1>1 DEF Committed
<1>. QED BY <1>1, <1>2, WorkInit DEF AnswersInv, Known, AnswersTruthful

\* What a writer is told is true for good, however many clients race for the
\* pointer, whatever answers are lost and wherever a client dies: an append that
\* reports success is in the published log, and one that reports a refusal, too
\* many changes or an unreadable board never will be.
THEOREM AnswersAreTrue == Spec => []AnswersTruthful
<1>1. AnswersInv => AnswersTruthful BY DEF AnswersInv
<1>. QED BY AnswersInit, AnswersStep, <1>1, PTL DEF Spec
-----------------------------------------------------------------------------
(* The replay of a log *)

\* The states a replay passes.
Passes(f, log) ==
  f = [n \in 0..Len(log) |-> IF n = 0 THEN ReplayedNothing ELSE ReplayedOne(log[n], f[n - 1])]

\* What Passes says turn by turn.
LEMMA PassesTurns ==
  ASSUME NEW log, NEW N \in Nat, N = Len(log), NEW f
  PROVE  Passes(f, log) <=> /\ f = [n \in 0..N |-> f[n]]
                            /\ f[0] = ReplayedNothing
                            /\ \A n \in 1..N : f[n] = ReplayedOne(log[n], f[n - 1])
<1>1. ASSUME Passes(f, log)
      PROVE  /\ f = [n \in 0..N |-> f[n]]
             /\ f[0] = ReplayedNothing
             /\ \A n \in 1..N : f[n] = ReplayedOne(log[n], f[n - 1])
  <2>1. f = [n \in 0..N |-> IF n = 0 THEN ReplayedNothing ELSE ReplayedOne(log[n], f[n - 1])]
    BY <1>1, Zenon DEF Passes
  <2>2. f = [n \in 0..N |-> f[n]]
    BY <2>1
  <2>3. \A n \in 0..N : f[n] = IF n = 0 THEN ReplayedNothing ELSE ReplayedOne(log[n], f[n - 1])
    BY <2>1
  <2>4. f[0] = ReplayedNothing
    BY <2>3
  <2>5. \A n \in 1..N : n \in 0..N /\ n # 0
    OBVIOUS
  <2>. QED BY <2>2, <2>3, <2>4, <2>5
<1>2. ASSUME f = [n \in 0..N |-> f[n]], f[0] = ReplayedNothing,
             \A n \in 1..N : f[n] = ReplayedOne(log[n], f[n - 1])
      PROVE  Passes(f, log)
  <2>1. ASSUME NEW n \in 0..N
        PROVE  f[n] = IF n = 0 THEN ReplayedNothing ELSE ReplayedOne(log[n], f[n - 1])
    <3>1. CASE n = 0 BY <1>2, <3>1
    <3>2. CASE n # 0
      <4>1. n \in 1..N BY <3>2
      <4>. QED BY <1>2, <3>2, <4>1
    <3>. QED BY <3>1, <3>2
  <2>2. f = [n \in 0..N |-> IF n = 0 THEN ReplayedNothing ELSE ReplayedOne(log[n], f[n - 1])]
    BY <1>2, <2>1
  <2>. QED BY <2>2 DEF Passes
<1>. QED BY <1>1, <1>2

\* A replay passes them, and ends with the last.
LEMMA ReplayPasses ==
  ASSUME NEW log, IsSeq(log)
  PROVE  \E f : Passes(f, log) /\ Replay(log) = f[Len(log)]
<1>1. PICK N \in Nat : N = Len(log)
  BY SeqFacts
<1>. DEFINE Upto(f, m) == /\ f[0] = ReplayedNothing
                          /\ \A n \in 1..m : f[n] = ReplayedOne(log[n], f[n - 1])
            Holds == {m \in 0..N : \E f : Upto(f, m)}
<1>2. 0 \in Holds
  <2>1. PICK f : f = [n \in 0..0 |-> ReplayedNothing] OBVIOUS
  <2>2. f[0] = ReplayedNothing BY <2>1
  <2>3. \A n \in 1..0 : f[n] = ReplayedOne(log[n], f[n - 1]) OBVIOUS
  <2>4. Upto(f, 0) BY <2>2, <2>3
  <2>. QED BY <2>4
<1>3. ASSUME NEW m \in 1..N, m - 1 \in Holds PROVE m \in Holds
  <2>1. PICK f : Upto(f, m - 1)
    BY <1>3
  <2>2. PICK g : g = [n \in 0..m |-> IF n = m THEN ReplayedOne(log[m], f[m - 1]) ELSE f[n]]
    OBVIOUS
  <2>3. g[m] = ReplayedOne(log[m], f[m - 1]) /\ \A n \in 0..(m - 1) : g[n] = f[n]
    BY <2>2
  <2>4. g[0] = ReplayedNothing
    <3>1. 0 \in 0..(m - 1) OBVIOUS
    <3>. QED BY <2>1, <2>3, <3>1
  <2>5. ASSUME NEW n \in 1..m PROVE g[n] = ReplayedOne(log[n], g[n - 1])
    <3>1. CASE n = m
      <4>1. n - 1 \in 0..(m - 1) BY <3>1
      <4>. QED BY <2>3, <3>1, <4>1
    <3>2. CASE n # m
      <4>1. n \in 1..(m - 1) /\ n \in 0..(m - 1) /\ n - 1 \in 0..(m - 1) BY <3>2
      <4>2. f[n] = ReplayedOne(log[n], f[n - 1]) BY <2>1, <4>1
      <4>. QED BY <2>3, <4>1, <4>2
    <3>. QED BY <3>1, <3>2
  <2>. QED BY <2>4, <2>5
<1>. HIDE DEF Holds
<1>4. 0..N \subseteq Holds
  BY <1>2, <1>3, EveryTurn
<1>5. PICK h : Upto(h, N)
  <2>1. N \in Holds BY <1>4
  <2>. QED BY <2>1 DEF Holds
<1>6. PICK v : v = [n \in 0..N |-> h[n]]
  OBVIOUS
<1>7. Passes(v, log)
  <2>1. v = [n \in 0..N |-> v[n]] BY <1>6
  <2>2. v[0] = ReplayedNothing BY <1>5, <1>6
  <2>3. ASSUME NEW n \in 1..N PROVE v[n] = ReplayedOne(log[n], v[n - 1])
    <3>1. n \in 0..N /\ n - 1 \in 0..N OBVIOUS
    <3>2. v[n] = h[n] /\ v[n - 1] = h[n - 1] BY <1>6, <3>1
    <3>. QED BY <1>5, <3>2
  <2>. QED BY <1>1, <2>1, <2>2, <2>3, PassesTurns
<1>8. PICK w : w = CHOOSE f : Passes(f, log)
  OBVIOUS
<1>9. Passes(w, log)
  BY <1>7, <1>8
<1>10. Replay(log) = w[N]
  BY <1>1, <1>8 DEF Replay, Passes
<1>. QED BY <1>1, <1>9, <1>10

\* Two replays of one log pass the same states.
LEMMA ReplayIsOne ==
  ASSUME NEW log, IsSeq(log), NEW f, Passes(f, log)
  PROVE  Replay(log) = f[Len(log)]
<1>1. PICK N \in Nat : N = Len(log)
  BY SeqFacts
<1>2. PICK g : Passes(g, log) /\ Replay(log) = g[N]
  BY <1>1, ReplayPasses
<1>3. /\ f[0] = ReplayedNothing /\ \A n \in 1..N : f[n] = ReplayedOne(log[n], f[n - 1])
      /\ g[0] = ReplayedNothing /\ \A n \in 1..N : g[n] = ReplayedOne(log[n], g[n - 1])
  BY <1>1, <1>2, PassesTurns
<1>4. \A n \in 1..N : f[n - 1] = g[n - 1] => f[n] = g[n]
  BY <1>3
<1>5. \A n \in 0..N : f[n] = g[n]
  BY ONLY <1>3, <1>4, N \in Nat, IterationIsOne
<1>. QED BY <1>1, <1>2, <1>5

\* One operation more is replayed after the others.
LEMMA ReplayAppend ==
  ASSUME NEW log, IsSeq(log), NEW op
  PROVE  Replay(Append(log, op)) = ReplayedOne(op, Replay(log))
<1>1. PICK N \in Nat : N = Len(log)
  BY SeqFacts
<1>2. PICK more : more = Append(log, op)
  OBVIOUS
<1>3. /\ IsSeq(more) /\ Len(more) = N + 1 /\ more[N + 1] = op
      /\ \A i \in 1..N : more[i] = log[i]
  BY <1>1, <1>2, AppendFacts
<1>4. PICK f : Passes(f, log) /\ Replay(log) = f[N]
  BY <1>1, ReplayPasses
<1>5. f[0] = ReplayedNothing /\ \A n \in 1..N : f[n] = ReplayedOne(log[n], f[n - 1])
  BY <1>1, <1>4, PassesTurns
<1>6. PICK g : g = [n \in 0..(N + 1) |-> IF n = N + 1 THEN ReplayedOne(op, f[N]) ELSE f[n]]
  OBVIOUS
<1>7. /\ g = [n \in 0..(N + 1) |-> g[n]]
      /\ g[N + 1] = ReplayedOne(op, f[N]) /\ \A n \in 0..N : g[n] = f[n]
  BY <1>6
<1>8. ASSUME NEW n \in 1..(N + 1) PROVE g[n] = ReplayedOne(more[n], g[n - 1])
  <2>1. CASE n = N + 1
    <3>1. n - 1 = N /\ N \in 0..N BY <2>1
    <3>. QED BY <1>3, <1>7, <2>1, <3>1
  <2>2. CASE n # N + 1
    <3>1. n \in 1..N /\ n \in 0..N /\ n - 1 \in 0..N BY <2>2
    <3>2. f[n] = ReplayedOne(log[n], f[n - 1]) /\ more[n] = log[n] BY <1>3, <1>5, <3>1
    <3>3. g[n] = f[n] /\ g[n - 1] = f[n - 1] BY <1>7, <3>1
    <3>. QED BY <3>2, <3>3
  <2>. QED BY <2>1, <2>2
<1>9. g[0] = ReplayedNothing
  BY <1>5, <1>7
<1>10. Passes(g, more)
  BY <1>3, <1>7, <1>8, <1>9, N + 1 \in Nat, PassesTurns
<1>11. Replay(more) = g[N + 1]
  BY <1>3, <1>10, ReplayIsOne
<1>. QED BY <1>2, <1>4, <1>7, <1>11

\* No operation makes nothing of the board.
LEMMA ReplayEmpty == Replay(<< >>) = ReplayedNothing
<1>1. IsSeq(<< >>) /\ Len(<< >>) = 0
  BY DEF IsSeq
<1>2. PICK f : Passes(f, << >>) /\ Replay(<< >>) = f[0]
  BY <1>1, ReplayPasses
<1>3. f[0] = ReplayedNothing
  BY <1>1, <1>2, PassesTurns
<1>. QED BY <1>2, <1>3

-----------------------------------------------------------------------------
(* The board and the feed of a log *)

\* A log whose replay is a board, a feed and closing times.
Replayable(log) ==
  /\ IsSeq(log)
  /\ IsBoard(Replay(log).board) /\ IsSeq(Replay(log).feed)
  /\ Replay(log).closedAt \in [DOMAIN Replay(log).board.issues -> Nat]

\* The board a log makes accepts an operation, and nothing in it is newer.
Accepts(log, op) ==
  /\ IsOperation(op)
  /\ ~Replay(log).board.deleted /\ Applicable(op, Replay(log).board)
  /\ \A i \in 1..Len(log) : log[i].at <= op.at

\* What replaying one operation more makes.
LEMMA ReplayedOneIs ==
  ASSUME NEW op, NEW s
  PROVE  /\ ReplayedOne(op, s).board = ApplyBoardMutation(op, s.board)
         /\ ReplayedOne(op, s).feed
              = FeedAfter(op, s.board, ApplyBoardMutation(op, s.board), s.feed)
         /\ ReplayedOne(op, s).closedAt
              = [n \in DOMAIN ApplyBoardMutation(op, s.board).issues |->
                   IF n = op.number /\ op.kind = "close" THEN op.at
                   ELSE IF n = op.number /\ op.kind \in {"reopen", "create"} THEN Never
                   ELSE s.closedAt[n]]
<1>1. PICK after : after = ApplyBoardMutation(op, s.board)
  OBVIOUS
<1>2. PICK r : r = ReplayedOne(op, s)
  OBVIOUS
<1>3. r = [board |-> after, feed |-> FeedAfter(op, s.board, after, s.feed),
           closedAt |-> [n \in DOMAIN after.issues |->
             CASE n = op.number /\ op.kind = "close" -> op.at
               [] n = op.number /\ op.kind \in {"reopen", "create"} -> Never
               [] OTHER -> s.closedAt[n]]]
  BY <1>1, <1>2, Zenon DEF ReplayedOne
<1>4. ASSUME NEW n
      PROVE  (CASE n = op.number /\ op.kind = "close" -> op.at
                [] n = op.number /\ op.kind \in {"reopen", "create"} -> Never
                [] OTHER -> s.closedAt[n])
             = (IF n = op.number /\ op.kind = "close" THEN op.at
                ELSE IF n = op.number /\ op.kind \in {"reopen", "create"} THEN Never
                ELSE s.closedAt[n])
  <2>1. op.kind = "close" => op.kind \notin {"reopen", "create"} OBVIOUS
  <2>. QED BY <2>1
<1>5. r.closedAt = [n \in DOMAIN after.issues |->
                      IF n = op.number /\ op.kind = "close" THEN op.at
                      ELSE IF n = op.number /\ op.kind \in {"reopen", "create"} THEN Never
                      ELSE s.closedAt[n]]
  BY <1>3, <1>4
<1>. QED BY <1>1, <1>2, <1>3, <1>5

\* An accepted operation keeps a log replayable: its board is that of the
\* operation applied, and its feed has the entry.
LEMMA ReplayStep ==
  ASSUME NEW log, Replayable(log), NEW op, IsOperation(op), Applicable(op, Replay(log).board)
  PROVE  /\ Replayable(Append(log, op))
         /\ Replay(Append(log, op)).board = ApplyBoardMutation(op, Replay(log).board)
         /\ Replay(Append(log, op)).feed
              = FeedAfter(op, Replay(log).board, Replay(Append(log, op)).board, Replay(log).feed)
<1>1. PICK s : s = Replay(log)
  OBVIOUS
<1>2. PICK t : t = Replay(Append(log, op))
  OBVIOUS
<1>3. IsSeq(log) /\ IsBoard(s.board) /\ IsSeq(s.feed) /\ s.closedAt \in [DOMAIN s.board.issues -> Nat]
  BY <1>1 DEF Replayable
<1>4. t = ReplayedOne(op, s)
  BY <1>1, <1>2, <1>3, ReplayAppend
<1>5. PICK after : after = ApplyBoardMutation(op, s.board)
  OBVIOUS
<1>6. /\ t.board = after /\ t.feed = FeedAfter(op, s.board, after, s.feed)
      /\ t.closedAt = [n \in DOMAIN after.issues |->
                   IF n = op.number /\ op.kind = "close" THEN op.at
                   ELSE IF n = op.number /\ op.kind \in {"reopen", "create"} THEN Never
                   ELSE s.closedAt[n]]
  BY <1>4, <1>5, ReplayedOneIs
<1>7. op.at \in Nat /\ op.number \in Nat /\ IsSeq(op.numbers) /\ Applicable(op, s.board)
  BY <1>1 DEF IsOperation
<1>8. IsBoard(t.board)
  BY <1>3, <1>5, <1>6, <1>7, BoardStays
<1>9. IsSeq(t.feed)
  <2>1. t.feed = IF op.kind \in DOMAIN FeedKind
                 THEN Append(s.feed, FeedEntry(op, s.board, after, Len(s.feed))) ELSE s.feed
    BY <1>6, Zenon DEF FeedAfter
  <2>. QED BY <1>3, <2>1, AppendFacts
<1>10. t.closedAt \in [DOMAIN t.board.issues -> Nat]
  <2>1. IssuesMade(op, s.board.issues, after.issues)
    BY <1>5, <1>7, IssuesLeft
  <2>2. ASSUME NEW n \in DOMAIN after.issues PROVE t.closedAt[n] \in Nat
    <3>1. CASE n = op.number /\ op.kind = "close" BY <1>6, <1>7, <3>1
    <3>2. CASE n = op.number /\ op.kind \in {"reopen", "create"} BY <1>6, <3>2 DEF Never
    <3>3. CASE /\ ~(n = op.number /\ op.kind = "close")
               /\ ~(n = op.number /\ op.kind \in {"reopen", "create"})
      <4>1. n \in DOMAIN s.board.issues
        <5>1. DOMAIN after.issues = (IF op.kind = "create" THEN DOMAIN s.board.issues \cup {op.number}
                         ELSE IF op.kind = "delete" THEN DOMAIN s.board.issues \ {op.number}
                         ELSE DOMAIN s.board.issues)
          BY <2>1 DEF IssuesMade
        <5>2. CASE op.kind = "create" BY <3>3, <5>1, <5>2
        <5>3. CASE op.kind # "create" BY <5>1, <5>3
        <5>. QED BY <5>2, <5>3
      <4>2. t.closedAt[n] = s.closedAt[n] BY <1>6, <3>3
      <4>. QED BY <1>3, <4>1, <4>2
    <3>. QED BY <3>1, <3>2, <3>3
  <2>3. t.closedAt = [n \in DOMAIN after.issues |-> t.closedAt[n]]
    BY <1>6
  <2>. QED BY <1>6, <2>2, <2>3
<1>11. IsSeq(Append(log, op))
  BY <1>3, AppendFacts
<1>. QED BY <1>1, <1>2, <1>5, <1>6, <1>8, <1>9, <1>10, <1>11 DEF Replayable

\* The log begins with a board.
LEMMA ReplayBegins ==
  /\ Replayable(<< >>) /\ Replay(<< >>).board = StartBoard
  /\ IsSeq(Replay(<< >>).feed) /\ Len(Replay(<< >>).feed) = 0 /\ Replay(<< >>).feed = << >>
<1>1. PICK s : s = Replay(<< >>)
  OBVIOUS
<1>2. /\ s.board = StartBoard /\ s.feed = << >>
      /\ s.closedAt = [n \in DOMAIN StartBoard.issues |-> Never]
  BY <1>1, ReplayEmpty DEF ReplayedNothing
<1>3. IsSeq(<< >>) /\ Len(<< >>) = 0
  BY DEF IsSeq
<1>4. IsBoard(StartBoard)
  BY StoreAssumption
<1>5. s.closedAt \in [DOMAIN s.board.issues -> Nat]
  BY <1>2 DEF Never
<1>. QED BY <1>1, <1>2, <1>3, <1>4, <1>5 DEF Replayable

-----------------------------------------------------------------------------
(* A generation says what its log says *)

\* The generation of a log: it stands for the board and the feed the log makes,
\* is no older than any operation, and was derived from a shorter log.
Generation(meta) ==
  /\ Replayable(meta.log)
  /\ \E closedAt : Represents(meta, Replay(meta.log).board, Replay(meta.log).feed, closedAt)
  /\ meta.updatedAt \in Nat
  /\ \A i \in 1..Len(meta.log) : meta.log[i].at \in Nat /\ meta.log[i].at <= meta.updatedAt
  /\ \A log \in meta.retainsMetaRef : Len(log) \in Nat /\ Len(log) < Len(meta.log)

\* A log of an old build: every operation of it has an entry in the feed.
OldLog(log) ==
  /\ Replayable(log)
  /\ Len(Replay(log).feed) = Len(log)
  /\ \A i \in 1..Len(log) : log[i].at \in Nat /\ Replay(log).feed[i].at = log[i].at

\* appendInternal: a client that accepts an operation on what it read of a
\* generation derives the generation of the log with the operation, which the
\* board of that log accepts too.
LEMMA GenerationStep ==
  ASSUME NEW meta, Generation(meta), NEW op, IsOperation(op), meta.updatedAt <= op.at,
         ~meta.deleted, NEW cards,
         \A board, closedAt, feed : Represents(meta, board, feed, closedAt)
            => Held(cards, CardsAre(board.issues, closedAt), op.kind, op.number),
         Applicable(op, BoardOf(cards, meta))
  PROVE  Accepts(meta.log, op) /\ Generation(NextGeneration(op, meta, cards))
<1>1. PICK log : log = meta.log
  OBVIOUS
<1>2. PICK s : s = Replay(log)
  OBVIOUS
<1>3. /\ Replayable(log) /\ meta.updatedAt \in Nat
      /\ \A i \in 1..Len(log) : log[i].at \in Nat /\ log[i].at <= meta.updatedAt
  BY <1>1 DEF Generation
<1>4. PICK closedAt : Represents(meta, s.board, s.feed, closedAt)
  BY <1>1, <1>2 DEF Generation
<1>5. Held(cards, CardsAre(s.board.issues, closedAt), op.kind, op.number)
  BY <1>4
<1>6. PICK real : real = ApplyBoardMutation(op, s.board)
  OBVIOUS
<1>7. PICK made : made = NextGeneration(op, meta, cards)
  OBVIOUS
<1>8. /\ Applicable(op, s.board)
      /\ \E at : Represents(made, real, FeedAfter(op, s.board, real, s.feed), at)
  BY <1>4, <1>5, <1>6, <1>7, NextRepresents
<1>9. op.at \in Nat /\ IsSeq(log)
  BY <1>3 DEF IsOperation, Replayable
<1>10. Accepts(log, op)
  <2>1. ~s.board.deleted BY <1>4 DEF Represents
  <2>2. \A i \in 1..Len(log) : log[i].at <= op.at BY <1>3, <1>9
  <2>. QED BY <1>2, <1>8, <2>1, <2>2 DEF Accepts
<1>11. PICK next : next = Append(log, op)
  OBVIOUS
<1>12. /\ Replayable(next) /\ Replay(next).board = real
       /\ Replay(next).feed = FeedAfter(op, s.board, real, s.feed)
  <2>1. Applicable(op, Replay(log).board) BY <1>2, <1>8
  <2>2. /\ Replayable(Append(log, op))
        /\ Replay(Append(log, op)).board = ApplyBoardMutation(op, Replay(log).board)
        /\ Replay(Append(log, op)).feed
             = FeedAfter(op, Replay(log).board, Replay(Append(log, op)).board, Replay(log).feed)
    BY <1>3, <2>1, ReplayStep
  <2>. QED BY <1>2, <1>6, <1>11, <2>2, Zenon
<1>13. made.log = next /\ made.updatedAt = op.at /\ made.retainsMetaRef = {log}
  BY <1>1, <1>7, <1>11, NextLog
<1>14. \E at : Represents(made, Replay(made.log).board, Replay(made.log).feed, at)
  BY <1>8, <1>12, <1>13, Zenon
<1>15. PICK N \in Nat : N = Len(log)
  BY <1>9, SeqFacts
<1>16. Len(next) = N + 1 /\ next[N + 1] = op /\ \A i \in 1..N : next[i] = log[i]
  BY <1>9, <1>11, <1>15, AppendFacts
<1>17. \A i \in 1..Len(next) : next[i].at \in Nat /\ next[i].at <= op.at
  <2>1. ASSUME NEW i \in 1..(N + 1) PROVE next[i].at \in Nat /\ next[i].at <= op.at
    <3>1. CASE i = N + 1 BY <1>9, <1>16, <3>1
    <3>2. CASE i # N + 1
      <4>1. i \in 1..N BY <3>2
      <4>2. next[i] = log[i] BY <1>16, <4>1
      <4>3. log[i].at \in Nat /\ log[i].at <= meta.updatedAt BY <1>3, <1>15, <4>1
      <4>. QED BY <1>3, <1>9, <4>2, <4>3
    <3>. QED BY <3>1, <3>2
  <2>. QED BY <1>16, <2>1
<1>18. \A l \in made.retainsMetaRef : Len(l) \in Nat /\ Len(l) < Len(made.log)
  BY <1>13, <1>15, <1>16
<1>19. Generation(made)
  BY <1>9, <1>12, <1>13, <1>14, <1>17, <1>18, Zenon DEF Generation
<1>. QED BY <1>1, <1>7, <1>10, <1>19

\* A finite set of times that is not empty has a latest.
LEMMA LatestTime ==
  ASSUME NEW S, IsFiniteSet(S), S \subseteq Nat, S # {}
  PROVE  \E t \in S : \A u \in S : u <= t
<1>1. PICK n \in Nat : \E f : f \in Surjection(1..n, S)
  BY FS_NatSurjection DEF ExistsSurjection
<1>2. PICK f : f \in Surjection(1..n, S)
  BY <1>1
<1>3. f \in [1..n -> S] /\ \A u \in S : \E i \in 1..n : f[i] = u
  BY <1>2 DEF Surjection
<1>. DEFINE Holds == {k \in 0..n : \E b \in Nat : \A i \in 1..k : f[i] <= b}
<1>4. 0 \in Holds
  <2>1. \A i \in 1..0 : f[i] <= 0 OBVIOUS
  <2>. QED BY <2>1
<1>5. ASSUME NEW k \in 1..n, k - 1 \in Holds PROVE k \in Holds
  <2>1. PICK b \in Nat : \A i \in 1..(k - 1) : f[i] <= b
    BY <1>5
  <2>2. PICK e \in Nat : e = f[k]
    BY <1>3
  <2>3. PICK m \in Nat : m >= b /\ m >= e
    <3>1. b + e \in Nat /\ b + e >= b /\ b + e >= e OBVIOUS
    <3>. QED BY <3>1
  <2>4. ASSUME NEW i \in 1..k PROVE f[i] <= m
    <3>0. i \in 1..n OBVIOUS
    <3>1. f[i] \in Nat BY <1>3, <3>0
    <3>2. CASE i = k BY <2>2, <2>3, <3>2
    <3>3. CASE i # k
      <4>1. f[i] <= b BY <2>1, <3>3
      <4>. QED BY <2>3, <3>1, <4>1
    <3>. QED BY <3>2, <3>3
  <2>. QED BY <2>4
<1>. HIDE DEF Holds
<1>6. n \in Holds
  <2>1. 0..n \subseteq Holds BY <1>4, <1>5, EveryTurn
  <2>. QED BY <2>1
<1>7. PICK b \in Nat : \A i \in 1..n : f[i] <= b
  BY <1>6 DEF Holds
<1>8. S \subseteq 0..b
  <2>1. ASSUME NEW u \in S PROVE u \in 0..b
    <3>1. PICK i \in 1..n : f[i] = u BY <1>3
    <3>. QED BY <1>7, <3>1
  <2>. QED BY <2>1
<1>. QED BY <1>8, LargestElement

\* latestBoardTimestamp: an import is no older than anything in the feed.
LEMMA ImportTime ==
  ASSUME NEW s, IsBoard(s.board), IsSeq(s.feed),
         \A i \in 1..Len(s.feed) : s.feed[i].at \in Nat
  PROVE  ImportedAt(s) \in Nat /\ \A i \in 1..Len(s.feed) : s.feed[i].at <= ImportedAt(s)
<1>1. PICK board : board = s.board
  OBVIOUS
<1>2. PICK feed : feed = s.feed
  OBVIOUS
<1>3. PICK N \in Nat : N = Len(feed) /\ DOMAIN feed = 1..N
  BY <1>2, SeqFacts
<1>. DEFINE changes == {board.issues[n].updatedAt : n \in DOMAIN board.issues}
            events == {feed[i].at : i \in 1..N}
            times == changes \cup events
<1>4. IsFiniteSet(changes) /\ changes \subseteq Nat
  <2>1. IsFiniteSet(DOMAIN board.issues) /\ \A n \in DOMAIN board.issues : board.issues[n].updatedAt \in Nat
    BY <1>1 DEF IsBoard, IsIssue
  <2>2. PICK f : f = [n \in DOMAIN board.issues |-> board.issues[n].updatedAt]
    OBVIOUS
  <2>3. IsFiniteSet({f[n] : n \in DOMAIN board.issues})
    BY <2>1, ImageFinite
  <2>4. {f[n] : n \in DOMAIN board.issues} = changes
    BY <2>2
  <2>5. changes \subseteq Nat
    BY <2>1
  <2>. QED BY <2>3, <2>4, <2>5
<1>5. IsFiniteSet(events) /\ events \subseteq Nat
  <2>1. IsFiniteSet(1..N) BY FS_Interval
  <2>2. PICK f : f = [i \in 1..N |-> feed[i].at]
    OBVIOUS
  <2>3. IsFiniteSet({f[i] : i \in 1..N})
    BY <2>1, ImageFinite
  <2>4. {f[i] : i \in 1..N} = events
    BY <2>2
  <2>5. events \subseteq Nat
    BY <1>2, <1>3
  <2>. QED BY <2>3, <2>4, <2>5
<1>6. ImportedAt(s) = CHOOSE t \in times \cup {1} : \A u \in times : u <= t
  <2>1. events = {s.feed[i].at : i \in DOMAIN s.feed}
    BY <1>2, <1>3, Zenon
  <2>2. changes = {s.board.issues[n].updatedAt : n \in DOMAIN s.board.issues}
    BY <1>1, Zenon
  <2>. HIDE DEF changes, events
  <2>. QED BY <2>1, <2>2, Zenon DEF ImportedAt
<1>. HIDE DEF changes, events
<1>7. PICK T : T = times \cup {1}
  OBVIOUS
<1>8. IsFiniteSet(T) /\ T \subseteq Nat /\ T # {}
  <2>1. IsFiniteSet(times) BY <1>4, <1>5, FS_Union
  <2>2. IsFiniteSet(times \cup {1}) BY <2>1, FS_AddElement
  <2>. QED BY <1>4, <1>5, <1>7, <2>2
<1>9. \E t \in T : \A u \in T : u <= t
  BY <1>8, LatestTime
<1>10. ImportedAt(s) \in T /\ \A u \in times : u <= ImportedAt(s)
  BY <1>6, <1>7, <1>9
<1>11. \A i \in 1..N : feed[i].at \in times
  BY DEF events
<1>. QED BY <1>2, <1>3, <1>8, <1>10, <1>11

\* migrate: the import of a log of an old build is the generation of that log.
LEMMA ImportedIs ==
  ASSUME NEW log, OldLog(log)
  PROVE  Generation(Imported(log))
<1>1. PICK s : s = Replay(log)
  OBVIOUS
<1>2. /\ Replayable(log) /\ IsBoard(s.board) /\ IsSeq(s.feed) /\ Len(s.feed) = Len(log)
      /\ s.closedAt \in [DOMAIN s.board.issues -> Nat]
      /\ \A i \in 1..Len(log) : log[i].at \in Nat /\ s.feed[i].at = log[i].at
  BY <1>1 DEF OldLog, Replayable
<1>3. PICK S : S = DOMAIN s.board.issues
  OBVIOUS
<1>4. S \in SUBSET Nat /\ IsFiniteSet(S)
  BY <1>2, <1>3 DEF IsBoard
<1>5. PICK order : order = InOrder(S, NumberOrder(S))
  OBVIOUS
<1>6. Orders(NumberOrder(S), S)
  BY <1>4, NumbersOrdered DEF NumberOrder
<1>7. /\ IsSeq(order) /\ Len(order) = Cardinality(S)
      /\ \A i \in 1..Cardinality(S) : order[i] \in S
      /\ \A x \in S : \E i \in 1..Cardinality(S) : order[i] = x
      /\ \A i, j \in 1..Cardinality(S) : order[i] = order[j] => i = j
  BY <1>4, <1>5, <1>6, InOrderFacts
<1>8. ToSet(order) = S
  <2>1. ToSet(order) = {order[i] : i \in 1..Len(order)}
    BY <1>7, SeqOfEntries
  <2>. QED BY <1>7, <2>1
<1>9. PICK at : at = ImportedAt(s)
  OBVIOUS
<1>10. at \in Nat /\ \A i \in 1..Len(log) : log[i].at <= at
  BY <1>2, <1>9, ImportTime
<1>11. PICK meta : meta = Imported(log)
  OBVIOUS
<1>12. meta = FirstGeneration(log, s.board, s.closedAt, s.feed, at, order)
  BY <1>1, <1>3, <1>5, <1>9, <1>11, Zenon DEF Imported
<1>13. meta.log = log /\ meta.retainsMetaRef = {}
  BY <1>11, ImportedLog
<1>14. meta.updatedAt = at
  BY <1>12 DEF FirstGeneration
<1>15. Represents(meta, s.board, s.feed, s.closedAt)
  BY <1>2, <1>3, <1>7, <1>8, <1>12, FirstRepresents
<1>16. Generation(meta)
  BY <1>1, <1>2, <1>10, <1>13, <1>14, <1>15 DEF Generation
<1>. QED BY <1>11, <1>16

-----------------------------------------------------------------------------
(* The published log *)

\* The pointer names a log whose generation is stored, or the log of an old
\* build, whose operations come in its name and in time order.
PointerIs ==
  /\ now \in Nat
  /\ Replayable(pointer.log)
  /\ pointer.format = "compact" => pointer.log \in DOMAIN metas
  /\ pointer.format = "legacy" =>
       /\ OldLog(pointer.log)
       /\ \A i \in 1..Len(pointer.log) :
            pointer.log[i].at <= now /\ pointer.log[i].id = <<"legacy", i - 1>>

\* Every stored meta is the generation of its log.
Generations == \A log \in DOMAIN metas : Generation(metas[log])

\* What a client asks for, once it has asked.
Asks(c) == pc[c] # "idle" => call[c].number \in Nat /\ IsSeq(call[c].numbers)

\* A client works on a pointer there was: the log has only grown since.
Behind(c) ==
  pc[c] \in Resolved =>
    /\ Len(base[c].log) <= Len(pointer.log)
    /\ base[c].format = "compact" => pointer.format = "compact"

\* What it read and what it drafts are generations of the logs they say, and the
\* operation it appends is one the board it resolved accepts.
Derives(c) ==
  /\ pc[c] = "legacy" => OldLog(base[c].log)
  /\ pc[c] = "bundle" => Generation(held[c])
  /\ pc[c] \in Drafting => Generation(draft[c])
  /\ pc[c] \in Drafting /\ ~Imports(c) =>
       \E op : /\ op.id = Id(c) /\ draft[c].log = Append(base[c].log, op)
               /\ Accepts(base[c].log, op)

\* What a client may still publish is stored.
Described(c) == pc[c] = "commit" /\ pointer = base[c] => draft[c].log \in DOMAIN metas

\* A sweep visits only what came before the published generation.
Trails(c) ==
  pc[c] = "sweep" =>
    \A log \in cursor[c] : Len(log) \in Nat /\ Len(log) < Len(pointer.log)

Course(c) == Asks(c) /\ Behind(c) /\ Derives(c) /\ Described(c) /\ Trails(c)

LogInv == AnswersInv /\ PointerIs /\ Generations /\ \A c \in Clients : Course(c)

\* The clock only goes on.
LEMMA NowStep ==
  ASSUME [Next]_vars
  PROVE  now' = now \/ now' = now + 1
<1>1. ASSUME NEW c \in Clients, Steps(c) PROVE now' = now
  <2>1. CASE \/ Call(c) \/ ReadPointer(c) \/ ReadMeta(c) \/ ReadBundle(c) \/ ReadLegacy(c)
             \/ PostShards(c) \/ PostMeta(c)
    BY <2>1 DEF Call, ReadPointer, ReadMeta, ReadBundle, ReadLegacy, PostShards, PostMeta
  <2>2. CASE \/ Commit(c) \/ CommitUnanswered(c) \/ Sweep(c) \/ SweepRefused(c) \/ SweepEnds(c)
             \/ Crash(c)
    BY <2>2 DEF Commit, CommitUnanswered, Sweep, SweepRefused, SweepGeneration, SweepEnds, Crash
  <2>. QED BY <1>1, <2>1, <2>2 DEF Steps
<1>2. CASE LegacyAppend \/ Tick \/ UNCHANGED vars
  BY <1>2 DEF LegacyAppend, Tick, vars
<1>. QED BY <1>1, <1>2 DEF Next, Steps

\* No step shortens the log, and a pointer that changes is longer or newly in
\* the new format.
LEMMA PointerGrows ==
  ASSUME WorkInv, [Next]_vars
  PROVE  /\ Len(pointer.log) \in Nat /\ Len(pointer'.log) \in Nat
         /\ Len(pointer.log) <= Len(pointer'.log)
         /\ pointer.format = "compact" => pointer'.format = "compact"
         /\ pointer' # pointer =>
              \/ Len(pointer.log) < Len(pointer'.log)
              \/ pointer.format # "compact" /\ pointer'.format = "compact"
<1>1. /\ IsSeq(pointer.log) /\ pointer = [format |-> pointer.format, log |-> pointer.log]
      /\ IsSeq(pointer'.log)
      /\ pointer.format = "compact" => pointer'.format = "compact"
  BY PointerKept DEF WorkInv, Shape, LogOK
<1>2. Len(pointer.log) \in Nat /\ Len(pointer'.log) \in Nat
  BY <1>1, SeqFacts
<1>3. ASSUME NEW op, pointer'.log = Append(pointer.log, op)
      PROVE  Len(pointer'.log) = Len(pointer.log) + 1
  BY <1>1, <1>3, AppendFacts
<1>4. ASSUME NEW c \in Clients, CutOver(c)
      PROVE  pointer' = pointer \/ (pointer.format # "compact" /\ pointer'.format = "compact")
  BY <1>1, <1>4 DEF CutOver
<1>5. \A c \in Clients : CutOver(c) => pointer'.log = pointer.log
  BY DEF CutOver
<1>6. \A c \in Clients : Committed_(c) => \E op : pointer'.log = Append(pointer.log, op)
  BY DEF Committed_
<1>7. OldAppends => \E op : pointer'.log = Append(pointer.log, op)
  BY DEF OldAppends
<1>8. CASE pointer' = pointer
  BY <1>1, <1>2, <1>8
<1>9. CASE \E op : pointer'.log = Append(pointer.log, op)
  BY <1>1, <1>2, <1>3, <1>9
<1>10. CASE \E c \in Clients : CutOver(c)
  <2>1. pointer'.log = pointer.log BY <1>5, <1>10
  <2>. QED BY <1>1, <1>2, <1>4, <1>10, <2>1
<1>. QED BY <1>6, <1>7, <1>8, <1>9, <1>10, PointerStep

\* A pointer that is what a client resolved has been that ever since.
LEMMA SameBase ==
  ASSUME WorkInv, [Next]_vars, NEW d \in Clients, pc[d] \in Resolved, Behind(d),
         pointer' = base[d]
  PROVE  pointer = base[d]
<1>1. Len(base[d].log) <= Len(pointer.log) /\ (base[d].format = "compact" => pointer.format = "compact")
  BY DEF Behind
<1>2. /\ Len(pointer.log) \in Nat /\ Len(pointer'.log) \in Nat
      /\ pointer' # pointer =>
              \/ Len(pointer.log) < Len(pointer'.log)
              \/ pointer.format # "compact" /\ pointer'.format = "compact"
  BY PointerGrows
<1>. QED BY <1>1, <1>2

\* A draft is no shorter than the log it was drafted from.
LEMMA DraftLonger ==
  ASSUME WorkInv, NEW c \in Clients, pc[c] \in Drafting
  PROVE  Len(base[c].log) \in Nat /\ Len(draft[c].log) \in Nat /\ Len(base[c].log) <= Len(draft[c].log)
<1>1. Working(c) /\ IsSeq(base[c].log)
  BY DEF WorkInv, Working, LogOK, Resolved
<1>2. Len(base[c].log) \in Nat
  BY <1>1, SeqFacts
<1>3. CASE Imports(c)
  BY <1>1, <1>2, <1>3 DEF Working
<1>4. CASE ~Imports(c)
  <2>1. PICK op : draft[c].log = Append(base[c].log, op)
    BY <1>1, <1>4 DEF Working
  <2>2. Len(draft[c].log) = Len(base[c].log) + 1
    BY <1>1, <2>1, AppendFacts
  <2>. QED BY <1>2, <2>2
<1>. QED BY <1>3, <1>4

\* A stored generation no older than the published one stays stored.
LEMMA StaysStored ==
  ASSUME [Next]_vars, \A c \in Clients : Trails(c), NEW log \in DOMAIN metas,
         Len(log) \in Nat, Len(pointer.log) \in Nat, Len(pointer.log) <= Len(log)
  PROVE  log \in DOMAIN metas'
<1>1. ASSUME NEW c \in Clients, metas' = Put(metas, draft[c].log, draft[c])
      PROVE  log \in DOMAIN metas'
  BY <1>1 DEF Put
<1>2. ASSUME NEW c \in Clients, NEW old, pc[c] = "sweep", old \in cursor[c],
             metas' = [l \in DOMAIN metas \ {old} |-> metas[l]]
      PROVE  log \in DOMAIN metas'
  <2>1. Len(old) \in Nat /\ Len(old) < Len(pointer.log)
    BY <1>2 DEF Trails
  <2>2. old # log
    BY <2>1
  <2>. QED BY <1>2, <2>2
<1>. QED BY <1>1, <1>2, MetasStep

-----------------------------------------------------------------------------
(* The published log is kept *)

\* What a client resolved stays behind the pointer.
LEMMA StaysBehind ==
  ASSUME WorkInv, [Next]_vars, NEW d \in Clients, pc[d] \in Resolved, Behind(d),
         base'[d] = base[d]
  PROVE  Behind(d)'
<1>1. Working(d) /\ IsSeq(base[d].log)
  BY DEF WorkInv, Working, LogOK, Resolved
<1>2. Len(base[d].log) \in Nat
  BY <1>1, SeqFacts
<1>3. Len(base[d].log) <= Len(pointer.log) /\ (base[d].format = "compact" => pointer.format = "compact")
  BY DEF Behind
<1>4. /\ Len(pointer.log) \in Nat /\ Len(pointer'.log) \in Nat
      /\ Len(pointer.log) <= Len(pointer'.log)
      /\ pointer.format = "compact" => pointer'.format = "compact"
  BY PointerGrows
<1>5. Len(base'[d].log) <= Len(pointer'.log) /\ (base'[d].format = "compact" => pointer'.format = "compact")
  BY <1>2, <1>3, <1>4
<1>. QED BY <1>5 DEF Behind

\* A client that takes no step keeps its course.
LEMMA OtherCourse ==
  ASSUME LogInv, [Next]_vars, NEW d \in Clients,
         pc'[d] = pc[d], call'[d] = call[d], calls'[d] = calls[d],
         base'[d] = base[d], held'[d] = held[d], draft'[d] = draft[d], cursor'[d] = cursor[d]
  PROVE  Course(d)'
<1>1. WorkInv /\ Course(d) /\ \A c \in Clients : Trails(c)
  BY DEF LogInv, AnswersInv, Course
<1>2. /\ Len(pointer.log) \in Nat /\ Len(pointer'.log) \in Nat
      /\ Len(pointer.log) <= Len(pointer'.log)
  BY <1>1, PointerGrows
<1>3. Asks(d)'
  BY <1>1 DEF Course, Asks
<1>4. Behind(d)'
  <2>1. CASE pc[d] \in Resolved
    BY <1>1, <2>1, StaysBehind DEF Course
  <2>2. CASE pc[d] \notin Resolved
    BY <2>2 DEF Behind
  <2>. QED BY <2>1, <2>2
<1>5. Derives(d)'
  <2>1. Id(d)' = Id(d) /\ Imports(d)' = Imports(d)
    BY DEF Id, Imports
  <2>. QED BY <1>1, <2>1 DEF Course, Derives
<1>6. Described(d)'
  <2>1. SUFFICES ASSUME pc[d] = "commit", pointer' = base[d] PROVE draft[d].log \in DOMAIN metas'
    BY DEF Described
  <2>2. pc[d] \in Resolved /\ pc[d] \in Drafting
    BY <2>1 DEF Resolved, Drafting
  <2>3. pointer = base[d]
    BY <1>1, <2>1, <2>2, SameBase DEF Course
  <2>4. draft[d].log \in DOMAIN metas
    BY <1>1, <2>1, <2>3 DEF Course, Described
  <2>5. Len(draft[d].log) \in Nat /\ Len(pointer.log) <= Len(draft[d].log)
    BY <1>1, <2>2, <2>3, DraftLonger
  <2>. QED BY <1>1, <1>2, <2>4, <2>5, StaysStored
<1>7. Trails(d)'
  <2>1. SUFFICES ASSUME pc[d] = "sweep", NEW log \in cursor[d]
                 PROVE  Len(log) \in Nat /\ Len(log) < Len(pointer'.log)
    BY DEF Trails
  <2>2. Len(log) \in Nat /\ Len(log) < Len(pointer.log)
    BY <1>1, <2>1 DEF Course, Trails
  <2>. QED BY <1>2, <2>2
<1>. QED BY <1>3, <1>4, <1>5, <1>6, <1>7 DEF Course

\* What a client reads of a generation is enough for what it asks.
LEMMA ReadHeld ==
  ASSUME NEW c \in Clients
  PROVE  \A board, closedAt, feed : Represents(held[c], board, feed, closedAt)
            => Held(CardsOf(c), CardsAre(board.issues, closedAt), OperationOf(c).kind,
                    OperationOf(c).number)
<1>1. OperationOf(c).kind = call[c].kind /\ OperationOf(c).number = call[c].number
  BY DEF OperationOf
<1>2. PICK meta : meta = held[c]
  OBVIOUS
<1>3. PICK req : req = call[c]
  OBVIOUS
<1>4. ASSUME NEW board, NEW closedAt, NEW feed, Represents(meta, board, feed, closedAt)
      PROVE  Held(CardsOf(c), CardsAre(board.issues, closedAt), req.kind, req.number)
  <2>1. CASE req.compact
    <3>1. CardsOf(c) = CompactCards(meta, req)
      BY <1>2, <1>3, <2>1 DEF CardsOf
    <3>2. Held(CompactCards(meta, req), CardsAre(board.issues, closedAt), req.kind, req.number)
      BY <1>4, CompactHeld
    <3>. QED BY <3>1, <3>2
  <2>2. CASE ~req.compact
    <3>1. CardsOf(c) = FullCards(meta)
      BY <1>2, <1>3, <2>2 DEF CardsOf
    <3>2. Held(FullCards(meta), CardsAre(board.issues, closedAt), req.kind, req.number)
      BY <1>4, FullHeld
    <3>. QED BY <3>1, <3>2
  <2>. QED BY <2>1, <2>2
<1>. QED BY <1>1, <1>2, <1>3, <1>4

\* A client derives the generation of the log it resolved and its operation.
LEMMA Drafts ==
  ASSUME LogInv, NEW c \in Clients, pc[c] = "bundle", ~held[c].deleted,
         Applicable(OperationOf(c), BoardOf(CardsOf(c), held[c]))
  PROVE  /\ Generation(NextGeneration(OperationOf(c), held[c], CardsOf(c)))
         /\ Accepts(held[c].log, OperationOf(c))
<1>1. PICK op : op = OperationOf(c)
  OBVIOUS
<1>2. Generation(held[c]) /\ Asks(c) /\ now \in Nat
  BY DEF LogInv, Course, Derives, PointerIs
<1>3. held[c].updatedAt \in Nat
  BY <1>2 DEF Generation
<1>4. op.at = Larger(now, held[c].updatedAt) /\ op.number = call[c].number /\ op.numbers = call[c].numbers
  BY <1>1 DEF OperationOf
<1>5. op.at \in Nat /\ held[c].updatedAt <= op.at
  BY <1>2, <1>3, <1>4 DEF Larger
<1>6. IsOperation(op)
  BY <1>2, <1>4, <1>5 DEF IsOperation, Asks
<1>7. PICK cards : cards = CardsOf(c)
  OBVIOUS
<1>8. PICK meta : meta = held[c]
  OBVIOUS
<1>9. \A board, closedAt, feed : Represents(meta, board, feed, closedAt)
            => Held(cards, CardsAre(board.issues, closedAt), op.kind, op.number)
  BY <1>1, <1>7, <1>8, ReadHeld
<1>10. /\ Generation(meta) /\ meta.updatedAt <= op.at /\ ~meta.deleted
       /\ Applicable(op, BoardOf(cards, meta))
  BY <1>1, <1>2, <1>5, <1>7, <1>8
<1>11. Accepts(meta.log, op) /\ Generation(NextGeneration(op, meta, cards))
  BY <1>6, <1>9, <1>10, GenerationStep
<1>. QED BY <1>1, <1>7, <1>8, <1>11

\* The client that takes a step keeps its course.
LEMMA OwnCourse ==
  ASSUME LogInv, NEW c \in Clients, Steps(c)
  PROVE  Course(c)'
<1>0. /\ WorkInv /\ Shape /\ Stored /\ Working(c) /\ Course(c) /\ Alone(c) /\ [Next]_vars
      /\ \A d \in Clients : Trails(d)
  BY StepAlone DEF LogInv, AnswersInv, WorkInv, Course, Next, Steps
<1>1. /\ Len(pointer.log) \in Nat /\ Len(pointer'.log) \in Nat
      /\ Len(pointer.log) <= Len(pointer'.log)
  BY <1>0, PointerGrows
<1>2. ASSUME pc'[c] = "idle" PROVE Course(c)'
  BY <1>2 DEF Course, Asks, Behind, Derives, Described, Trails, Resolved, Drafting
<1>3. ASSUME NEW answer, Return(c, answer) PROVE Course(c)'
  <2>1. pc'[c] = "idle" BY <1>0, <1>3 DEF Return, Shape
  <2>. QED BY <1>2, <2>1
<1>4. ASSUME NEW place \in Places, Goto(c, place) PROVE pc'[c] = place
  BY <1>0, <1>4, GotoAlone
\* A client that resolves the pointer.
<1>5. ASSUME NEW req, call'[c] = req, Resolve(c, req.kind), UNCHANGED pointer,
             req.number \in Nat, IsSeq(req.numbers),
             req.kind = "import" => pointer.format = "legacy"
      PROVE  Course(c)'
  <2>1. base'[c] = pointer
    BY <1>0, <1>5 DEF Resolve, Shape
  <2>2. pc'[c] = IF req.kind = "import" THEN "legacy" ELSE "meta"
    BY <1>0, <1>5 DEF Resolve, Goto, Shape
  <2>3. Asks(c)' BY <1>5 DEF Asks
  <2>4. Behind(c)' BY <1>1, <1>5, <2>1 DEF Behind
  <2>5. Derives(c)'
    <3>1. CASE req.kind = "import"
      <4>1. OldLog(pointer.log) BY <1>5, <3>1 DEF LogInv, PointerIs
      <4>. QED BY <2>1, <2>2, <3>1, <4>1 DEF Derives, Drafting
    <3>2. CASE req.kind # "import"
      BY <2>2, <3>2 DEF Derives, Drafting
    <3>. QED BY <3>1, <3>2
  <2>6. Described(c)' /\ Trails(c)'
    BY <2>2 DEF Described, Trails
  <2>. QED BY <2>3, <2>4, <2>5, <2>6 DEF Course
<1>6. CASE Call(c)
  <2>1. UNCHANGED pointer /\ pc[c] = "idle" /\ calls[c] < MaxCalls[c]
    BY <1>6 DEF Call, object
  <2>2. PICK req \in Requests[c][calls[c] + 1] :
          \/ UNCHANGED pc
          \/ /\ (pointer.format = "legacy") = (req.kind = "import")
             /\ call' = [call EXCEPT ![c] = req] /\ Resolve(c, req.kind)
    BY <1>6 DEF Call
  <2>3. calls[c] + 1 \in 1..MaxCalls[c]
    BY <1>0, <2>1, StoreAssumption DEF Shape
  <2>4. req.number \in Nat /\ IsSeq(req.numbers)
    <3>1. req.number \in Nat /\ IsSequence(req.numbers)
      BY <2>3, StoreAssumption
    <3>. QED BY <3>1, SequencesAgree
  <2>5. CASE UNCHANGED pc
    BY <1>2, <2>1, <2>5
  <2>6. CASE /\ (pointer.format = "legacy") = (req.kind = "import")
             /\ call' = [call EXCEPT ![c] = req] /\ Resolve(c, req.kind)
    <3>1. call'[c] = req BY <1>0, <2>6 DEF Shape
    <3>. QED BY <1>5, <2>1, <2>4, <2>6, <3>1
  <2>. QED BY <2>2, <2>5, <2>6
<1>7. CASE ReadPointer(c)
  <2>1. UNCHANGED pointer /\ pc[c] = "pointer" /\ Resolve(c, call[c].kind) /\ call' = call
    BY <1>7 DEF ReadPointer, object
  <2>2. call[c].kind # "import" /\ call[c].number \in Nat /\ IsSeq(call[c].numbers)
    BY <1>0, <2>1 DEF Working, Imports, Course, Asks
  <2>. QED BY <1>5, <2>1, <2>2
\* A client that goes on from what it resolved.
<1>8. ASSUME pc[c] \in Resolved, pc'[c] \notin {"commit", "sweep"}, base'[c] = base[c],
             call'[c] = call[c], Derives(c)'
      PROVE  Course(c)'
  <2>1. pc[c] # "idle" BY <1>8 DEF Resolved, Drafting
  <2>2. Asks(c)' BY <1>0, <1>8, <2>1 DEF Course, Asks
  <2>3. Behind(c)' BY <1>0, <1>8, StaysBehind DEF Course
  <2>4. Described(c)' /\ Trails(c)' BY <1>8 DEF Described, Trails
  <2>. QED BY <1>8, <2>2, <2>3, <2>4 DEF Course
<1>9. CASE ReadMeta(c)
  <2>1. pc[c] = "meta" BY <1>9 DEF ReadMeta
  <2>2. CASE /\ base[c].log \in DOMAIN metas /\ held' = [held EXCEPT ![c] = metas[base[c].log]]
             /\ Goto(c, "bundle") /\ UNCHANGED <<call, base>>
    <3>1. pc'[c] = "bundle" BY <1>4, <2>2 DEF Places
    <3>2. Generation(metas[base[c].log]) BY <2>2 DEF LogInv, Generations
    <3>3. held'[c] = metas[base[c].log] BY <1>0, <2>2 DEF Shape
    <3>4. Derives(c)' BY <3>1, <3>2, <3>3 DEF Derives, Drafting
    <3>. QED BY <1>8, <2>1, <2>2, <3>1, <3>4 DEF Resolved
  <2>. QED BY <1>3, <1>9, <2>2 DEF ReadMeta
<1>10. CASE ReadBundle(c)
  <2>1. pc[c] = "bundle" /\ UNCHANGED calls BY <1>10 DEF ReadBundle
  <2>2. CASE /\ ~held[c].deleted /\ Applicable(OperationOf(c), BoardOf(CardsOf(c), held[c]))
             /\ draft' = [draft EXCEPT ![c] = NextGeneration(OperationOf(c), held[c], CardsOf(c))]
             /\ Goto(c, "post") /\ UNCHANGED <<call, base>>
    <3>1. pc'[c] = "post" BY <1>4, <2>2 DEF Places
    <3>2. PICK op : op = OperationOf(c)
      OBVIOUS
    <3>3. Generation(NextGeneration(op, held[c], CardsOf(c))) /\ Accepts(held[c].log, op)
      BY <2>1, <2>2, <3>2, Drafts
    <3>4. draft'[c] = NextGeneration(op, held[c], CardsOf(c))
      BY <1>0, <2>2, <3>2 DEF Shape
    <3>5. held[c].log = base[c].log
      BY <1>0, <2>1 DEF Working
    <3>6. draft'[c].log = Append(base[c].log, op)
      BY <3>4, <3>5, NextLog
    <3>7. op.id = Id(c) /\ Id(c)' = Id(c)
      BY <2>1, <3>2 DEF OperationOf, Id
    <3>8. Derives(c)'
      BY <2>2, <3>1, <3>3, <3>4, <3>5, <3>6, <3>7 DEF Derives, Drafting
    <3>. QED BY <1>8, <2>1, <2>2, <3>1, <3>8 DEF Resolved
  <2>3. \/ \E answer : Return(c, answer)
        \/ /\ ~held[c].deleted /\ Applicable(OperationOf(c), BoardOf(CardsOf(c), held[c]))
           /\ draft' = [draft EXCEPT ![c] = NextGeneration(OperationOf(c), held[c], CardsOf(c))]
           /\ Goto(c, "post") /\ UNCHANGED <<call, base>>
    BY <1>10 DEF ReadBundle
  <2>. QED BY <1>3, <2>2, <2>3
<1>11. CASE ReadLegacy(c)
  <2>1. /\ pc[c] = "legacy" /\ Goto(c, "post") /\ UNCHANGED <<call, base>>
        /\ draft' = [draft EXCEPT ![c] = Imported(base[c].log)]
    BY <1>11 DEF ReadLegacy
  <2>2. pc'[c] = "post" BY <1>4, <2>1 DEF Places
  <2>3. OldLog(base[c].log) BY <1>0, <2>1 DEF Course, Derives
  <2>4. Generation(draft'[c])
    <3>1. draft'[c] = Imported(base[c].log) BY <1>0, <2>1 DEF Shape
    <3>. QED BY <2>3, <3>1, ImportedIs
  <2>5. Imports(c)' BY <1>0, <2>1 DEF Working, Imports
  <2>6. Derives(c)' BY <2>2, <2>4, <2>5 DEF Derives
  <2>. QED BY <1>8, <2>1, <2>2, <2>6 DEF Resolved
\* A client that goes on with its draft.
<1>12. ASSUME pc[c] \in Drafting, UNCHANGED <<call, calls, base, draft>>, pc'[c] \in Drafting
       PROVE  Asks(c)' /\ Behind(c)' /\ Derives(c)' /\ Trails(c)'
  <2>1. pc[c] # "idle" /\ pc[c] \in Resolved BY <1>12 DEF Resolved, Drafting
  <2>2. Asks(c)' BY <1>0, <1>12, <2>1 DEF Course, Asks
  <2>3. Behind(c)' BY <1>0, <1>12, <2>1, StaysBehind DEF Course
  <2>4. Id(c)' = Id(c) /\ Imports(c)' = Imports(c) BY <1>12 DEF Id, Imports
  <2>5. pc'[c] \notin {"legacy", "bundle", "sweep"} BY <1>12 DEF Drafting
  <2>6. Derives(c)' BY <1>0, <1>12, <2>4, <2>5 DEF Course, Derives
  <2>7. Trails(c)' BY <2>5 DEF Trails
  <2>. QED BY <2>2, <2>3, <2>6, <2>7
<1>13. CASE PostShards(c)
  <2>1. /\ pc[c] = "post" /\ Goto(c, "describe") /\ UNCHANGED <<call, calls, base, draft>>
    BY <1>13 DEF PostShards
  <2>2. pc'[c] = "describe" BY <1>4, <2>1 DEF Places
  <2>3. Described(c)' BY <2>2 DEF Described
  <2>. QED BY <1>12, <2>1, <2>2, <2>3 DEF Course, Drafting
<1>14. CASE PostMeta(c)
  <2>1. pc[c] = "describe" /\ metas' = Put(metas, draft[c].log, draft[c]) /\ UNCHANGED calls
    BY <1>14 DEF PostMeta
  <2>2. CASE Goto(c, "commit") /\ UNCHANGED <<call, base, draft>>
    <3>1. pc'[c] = "commit" BY <1>4, <2>2 DEF Places
    <3>2. draft[c].log \in DOMAIN metas'
      <4>1. DOMAIN metas' = DOMAIN metas \cup {draft[c].log} BY <2>1 DEF Put
      <4>. QED BY <4>1
    <3>3. Described(c)' BY <2>2, <3>2 DEF Described
    <3>. QED BY <1>12, <2>1, <2>2, <3>1, <3>3 DEF Course, Drafting
  <2>. QED BY <1>3, <1>14, <2>2 DEF PostMeta
<1>15. CASE Commit(c)
  <2>1. pc[c] = "commit" /\ UNCHANGED calls
    BY <1>15 DEF Commit
  <2>2. CASE /\ pointer' = Published(c) /\ cursor' = [cursor EXCEPT ![c] = draft[c].retainsMetaRef]
             /\ Goto(c, "sweep") /\ UNCHANGED <<call, base, draft>>
    <3>1. pc'[c] = "sweep" BY <1>4, <2>2 DEF Places
    <3>2. cursor'[c] = draft[c].retainsMetaRef BY <1>0, <2>2 DEF Shape
    <3>3. Generation(draft[c]) BY <1>0, <2>1 DEF Course, Derives, Drafting
    <3>4. pointer'.log = draft[c].log BY <2>2 DEF Published
    <3>5. \A log \in cursor'[c] : Len(log) \in Nat /\ Len(log) < Len(pointer'.log)
      BY <3>2, <3>3, <3>4 DEF Generation
    <3>6. Trails(c)' BY <3>5 DEF Trails
    <3>7. Behind(c)' BY <1>0, <2>1, <2>2, StaysBehind DEF Course, Resolved, Drafting
    <3>8. Asks(c)' BY <1>0, <2>1, <2>2 DEF Course, Asks
    <3>9. Derives(c)' /\ Described(c)' BY <3>1 DEF Derives, Described, Drafting
    <3>. QED BY <3>6, <3>7, <3>8, <3>9 DEF Course
  <2>3. CASE Goto(c, "pointer") /\ UNCHANGED call
    <3>1. pc'[c] = "pointer" BY <1>4, <2>3 DEF Places
    <3>2. Asks(c)' BY <1>0, <2>1, <2>3 DEF Course, Asks
    <3>3. Behind(c)' /\ Derives(c)' /\ Described(c)' /\ Trails(c)'
      BY <3>1 DEF Behind, Derives, Described, Trails, Resolved, Drafting
    <3>. QED BY <3>2, <3>3 DEF Course
  <2>. QED BY <1>3, <1>15, <2>2, <2>3 DEF Commit
<1>16. CASE CommitUnanswered(c) \/ SweepEnds(c) \/ Crash(c)
  BY <1>3, <1>16 DEF CommitUnanswered, SweepEnds, Crash
<1>17. CASE Sweep(c) \/ SweepRefused(c)
  <2>1. PICK refused \in BOOLEAN : SweepGeneration(c, refused)
    BY <1>17 DEF Sweep, SweepRefused
  <2>2. pc[c] = "sweep" /\ UNCHANGED <<pointer, calls>>
    BY <2>1 DEF SweepGeneration
  <2>3. PICK log \in cursor[c] :
          \/ Return(c, "committed")
          \/ /\ log \in DOMAIN metas /\ cursor' = [cursor EXCEPT ![c] = metas[log].retainsMetaRef]
             /\ UNCHANGED <<pc, call, base>>
    BY <2>1 DEF SweepGeneration
  <2>4. CASE /\ log \in DOMAIN metas /\ cursor' = [cursor EXCEPT ![c] = metas[log].retainsMetaRef]
             /\ UNCHANGED <<pc, call, base>>
    <3>1. cursor'[c] = metas[log].retainsMetaRef BY <1>0, <2>4 DEF Shape
    <3>2. Generation(metas[log]) /\ metas[log].log = log
      BY <1>0, <2>4 DEF LogInv, Generations, Stored
    <3>3. Len(log) \in Nat /\ Len(log) < Len(pointer.log)
      BY <1>0, <2>2, <2>3 DEF Course, Trails
    <3>4. \A old \in cursor'[c] : Len(old) \in Nat /\ Len(old) < Len(pointer'.log)
      BY <1>1, <2>2, <3>1, <3>2, <3>3 DEF Generation
    <3>5. Trails(c)' BY <3>4 DEF Trails
    <3>6. Behind(c)' BY <1>0, <2>2, <2>4, StaysBehind DEF Course, Resolved
    <3>7. Asks(c)' BY <1>0, <2>2, <2>4 DEF Course, Asks
    <3>8. Derives(c)' /\ Described(c)' BY <2>2, <2>4 DEF Derives, Described, Drafting
    <3>. QED BY <3>5, <3>6, <3>7, <3>8 DEF Course
  <2>. QED BY <1>3, <2>3, <2>4
<1>. QED BY <1>0, <1>6, <1>7, <1>9, <1>10, <1>11, <1>13, <1>14, <1>15, <1>16, <1>17 DEF Steps

\* The pointer names a log of the board, whatever step is taken.
LEMMA PointerIsStep ==
  ASSUME LogInv, [Next]_vars
  PROVE  PointerIs'
<1>0. /\ WorkInv /\ PointerIs /\ \A c \in Clients : Course(c) /\ Trails(c)
      /\ IsSeq(pointer.log) /\ Len(pointer.log) \in Nat
      /\ pointer.format \in {"compact", "legacy"}
  BY SeqFacts DEF LogInv, AnswersInv, Course, WorkInv, Shape, LogOK
<1>1. now' \in Nat /\ now <= now'
  BY <1>0, NowStep DEF PointerIs
\* The log of a generation that stays stored.
<1>2. ASSUME NEW c \in Clients, pc[c] = "commit", pointer = base[c],
             pointer' = [format |-> "compact", log |-> draft[c].log]
      PROVE  PointerIs'
  <2>1. Generation(draft[c]) /\ draft[c].log \in DOMAIN metas
    BY <1>0, <1>2 DEF Course, Derives, Described, Drafting
  <2>2. Len(draft[c].log) \in Nat /\ Len(pointer.log) <= Len(draft[c].log)
    BY <1>0, <1>2, DraftLonger DEF Drafting
  <2>3. draft[c].log \in DOMAIN metas'
    BY <1>0, <2>1, <2>2, StaysStored
  <2>4. Replayable(draft[c].log)
    BY <2>1 DEF Generation
  <2>. QED BY <1>1, <1>2, <2>3, <2>4 DEF PointerIs
<1>3. CASE UNCHANGED pointer
  <2>1. pointer.format = "compact" => pointer.log \in DOMAIN metas'
    BY <1>0, StaysStored DEF PointerIs
  <2>2. pointer.format = "legacy" =>
          \A i \in 1..Len(pointer.log) : pointer.log[i].at <= now'
    <3>1. SUFFICES ASSUME pointer.format = "legacy", NEW i \in 1..Len(pointer.log)
                   PROVE  pointer.log[i].at <= now'
      OBVIOUS
    <3>2. pointer.log[i].at <= now /\ pointer.log[i].at \in Nat
      BY <1>0, <3>1 DEF PointerIs, OldLog
    <3>. QED BY <1>0, <1>1, <3>2 DEF PointerIs
  <2>. QED BY <1>0, <1>1, <1>3, <2>1, <2>2 DEF PointerIs
<1>4. CASE OldAppends
  <2>1. PICK op : OldAccepts(op) /\ pointer' = [format |-> "legacy", log |-> Append(pointer.log, op)]
    BY <1>4 DEF OldAppends
  <2>2. PICK log : log = pointer.log
    OBVIOUS
  <2>3. PICK time : time = now
    OBVIOUS
  <2>4. /\ Replayable(log) /\ OldLog(log) /\ time \in Nat
        /\ \A i \in 1..Len(log) : log[i].at <= time /\ log[i].id = <<"legacy", i - 1>>
    BY <1>0, <1>4, <2>2, <2>3 DEF PointerIs, OldAppends
  <2>5. /\ op.id = <<"legacy", Len(log)>> /\ op.kind = "close" /\ op.number = 1
        /\ op.at = time /\ op.numbers = << >> /\ Applicable(op, Replay(log).board)
    BY <2>1, <2>2, <2>3 DEF OldAccepts
  <2>6. IsOperation(op)
    BY <2>4, <2>5, ReplayBegins DEF IsOperation, Replayable
  <2>7. PICK next : next = Append(log, op)
    OBVIOUS
  <2>8. /\ Replayable(next)
        /\ Replay(next).feed = FeedAfter(op, Replay(log).board, Replay(next).board, Replay(log).feed)
    BY <2>4, <2>5, <2>6, <2>7, ReplayStep
  <2>9. PICK N \in Nat : N = Len(log)
    BY <1>0, <2>2
  <2>10. /\ Len(next) = N + 1 /\ next[N + 1] = op
         /\ \A i \in 1..N : next[i] = log[i]
    BY <1>0, <2>2, <2>7, <2>9, AppendFacts
  <2>11. PICK feed : feed = Replay(log).feed
    OBVIOUS
  <2>12. /\ IsSeq(feed) /\ Len(feed) = N
         /\ \A i \in 1..N : log[i].at \in Nat /\ feed[i].at = log[i].at
    BY <2>4, <2>9, <2>11 DEF OldLog, Replayable
  <2>13. PICK entry : entry = FeedEntry(op, Replay(log).board, Replay(next).board, Len(feed))
    OBVIOUS
  <2>14. Replay(next).feed = Append(feed, entry)
    <3>1. op.kind \in DOMAIN FeedKind
      BY <2>5 DEF FeedKind
    <3>. QED BY <2>8, <2>11, <2>13, <3>1, Zenon DEF FeedAfter
  <2>15. entry.at = op.at
    BY <2>13 DEF FeedEntry
  <2>16. PICK more : more = Append(feed, entry)
    OBVIOUS
  <2>17. Len(more) = N + 1 /\ more[N + 1] = entry /\ \A i \in 1..N : more[i] = feed[i]
    BY <2>12, <2>16, AppendFacts
  <2>18. ASSUME NEW i \in 1..(N + 1)
         PROVE  /\ next[i].at \in Nat /\ more[i].at = next[i].at
                /\ next[i].at <= time /\ next[i].id = <<"legacy", i - 1>>
    <3>1. CASE i = N + 1
      <4>1. i - 1 = N BY <3>1
      <4>. QED BY <2>4, <2>5, <2>9, <2>10, <2>15, <2>17, <3>1, <4>1
    <3>2. CASE i # N + 1
      <4>1. i \in 1..N BY <3>2
      <4>. QED BY <2>4, <2>9, <2>10, <2>12, <2>17, <4>1
    <3>. QED BY <3>1, <3>2
  <2>19. OldLog(next)
    BY <2>8, <2>10, <2>14, <2>16, <2>17, <2>18 DEF OldLog
  <2>20. pointer'.log = next /\ pointer'.format = "legacy"
    BY <2>1, <2>2, <2>7
  <2>21. \A i \in 1..Len(next) : next[i].at <= now' /\ next[i].id = <<"legacy", i - 1>>
    BY <1>1, <2>3, <2>4, <2>10, <2>18
  <2>. QED BY <1>1, <2>8, <2>19, <2>20, <2>21 DEF PointerIs
<1>5. ASSUME NEW c \in Clients, Committed_(c) \/ CutOver(c)
      PROVE  PointerIs'
  <2>1. /\ pc[c] = "commit" /\ pointer = base[c]
        /\ pointer' = [format |-> "compact", log |-> draft[c].log]
    BY <1>5 DEF Committed_, CutOver
  <2>. QED BY <1>2, <2>1
<1>. QED BY <1>0, <1>3, <1>4, <1>5, PointerStep

\* Every stored meta is the generation of its log, whatever step is taken.
LEMMA GenerationsStep ==
  ASSUME LogInv, [Next]_vars
  PROVE  Generations'
<1>1. ASSUME NEW c \in Clients, pc[c] = "describe", metas' = Put(metas, draft[c].log, draft[c])
      PROVE  Generations'
  <2>1. Generation(draft[c])
    BY <1>1 DEF LogInv, Course, Derives, Drafting
  <2>2. /\ DOMAIN metas' = DOMAIN metas \cup {draft[c].log}
        /\ \A n \in DOMAIN metas' : metas'[n] = IF n = draft[c].log THEN draft[c] ELSE metas[n]
    BY <1>1 DEF Put
  <2>. QED BY <2>1, <2>2 DEF LogInv, Generations
<1>2. ASSUME NEW log, metas' = [l \in DOMAIN metas \ {log} |-> metas[l]]
      PROVE  Generations'
  BY <1>2 DEF LogInv, Generations
<1>3. CASE UNCHANGED metas
  BY <1>3 DEF LogInv, Generations
<1>. QED BY <1>1, <1>2, <1>3, MetasStep

\* The inductive invariant of the published log.
LEMMA LogStep == LogInv /\ [Next]_vars => LogInv'
<1>. SUFFICES ASSUME LogInv, [Next]_vars PROVE LogInv'
  OBVIOUS
<1>1. AnswersInv' /\ WorkInv
  BY AnswersStep DEF LogInv, AnswersInv
<1>2. PointerIs' /\ Generations'
  BY PointerIsStep, GenerationsStep
<1>3. ASSUME NEW d \in Clients PROVE Course(d)'
  <2>1. CASE UNCHANGED <<pc, call, calls, base, held, draft, cursor>>
    BY <2>1, OtherCourse
  <2>2. ASSUME NEW c \in Clients, Steps(c) PROVE Course(d)'
    <3>1. Alone(c) BY <1>1, <2>2, StepAlone DEF WorkInv
    <3>2. CASE d = c BY <2>2, <3>2, OwnCourse
    <3>3. CASE d # c BY <3>1, <3>3, OtherCourse DEF Alone
    <3>. QED BY <3>2, <3>3
  <2>3. CASE LegacyAppend \/ Tick \/ UNCHANGED vars
    <3>1. UNCHANGED <<pc, call, calls, base, held, draft, cursor>>
      BY <2>3 DEF LegacyAppend, Tick, vars, client
    <3>. QED BY <2>1, <3>1
  <2>. QED BY <2>2, <2>3 DEF Next, Steps
<1>4. (\A d \in Clients : Course(d))'
  BY <1>3
<1>. QED BY <1>1, <1>2, <1>4 DEF LogInv

\* A board begins with one generation, or with the empty log of an old build.
LEMMA LogInit == Init => LogInv
<1>. SUFFICES ASSUME Init PROVE LogInv
  OBVIOUS
<1>1. AnswersInv
  BY AnswersInit
<1>2. /\ pointer.log = << >> /\ now = 1 /\ \A c \in Clients : pc[c] = "idle"
      /\ \/ pointer.format = "compact" /\ metas = [log \in {<< >>} |-> Imported(log)]
         \/ pointer.format = "legacy" /\ metas = [log \in {} |-> NoMeta]
  BY DEF Init
<1>3. PICK none : none = << >>
  OBVIOUS
<1>4. OldLog(none) /\ Replayable(none) /\ Len(none) = 0
  <2>1. Len(none) = 0 BY <1>3
  <2>2. Replayable(none) /\ Len(Replay(none).feed) = 0 BY <1>3, ReplayBegins
  <2>. QED BY <2>1, <2>2 DEF OldLog
<1>5. PointerIs
  <2>1. pointer.log = none BY <1>2, <1>3
  <2>2. pointer.format = "compact" => none \in DOMAIN metas BY <1>2, <1>3
  <2>. QED BY <1>2, <1>4, <2>1, <2>2 DEF PointerIs
<1>6. Generations
  <2>1. Generation(Imported(none)) BY <1>4, ImportedIs
  <2>2. \A log \in DOMAIN metas : log = none /\ metas[log] = Imported(none) BY <1>2, <1>3
  <2>. QED BY <2>1, <2>2 DEF Generations
<1>7. \A c \in Clients : Course(c)
  BY <1>2 DEF Course, Asks, Behind, Derives, Described, Trails, Resolved, Drafting
<1>. QED BY <1>1, <1>5, <1>6, <1>7 DEF LogInv

-----------------------------------------------------------------------------
(* The projections of a generation *)

\* The list pages of one state hold its rows in order, as full as they can be.
LEMMA ListPages ==
  ASSUME NEW refs, NEW state, NEW rows, IsSeq(rows), Lists(refs, state, rows)
  PROVE  /\ FlattenSeq([p \in DOMAIN refs |-> refs[p].rows]) = rows
         /\ \A p \in DOMAIN refs :
              /\ refs[p].page = p
              /\ p < Len(refs) => Len(refs[p].rows) = IssuePageSize
<1>1. PICK pages : pages = Paginate(rows, IssuePageSize)
  OBVIOUS
<1>2. PICK size \in Nat \ {0} : size = IssuePageSize
  BY PageSizes
<1>3. PICK L \in Nat, n \in Nat : PagesOf(pages, rows, size, L, n)
  <2>1. PICK L \in Nat, n \in Nat : \E ps : PagesOf(ps, rows, size, L, n)
    BY PaginateFacts
  <2>2. PICK ps : PagesOf(ps, rows, size, L, n)
    BY <2>1
  <2>3. ps = pages
    BY <1>1, <1>2, <2>2 DEF PagesOf
  <2>. QED BY <2>2, <2>3
<1>4. IsSeq(pages) /\ Len(pages) = n /\ DOMAIN pages = 1..n
  BY <1>3, SeqFacts DEF PagesOf
<1>5. refs = [p \in 1..n |-> ListShard(state, p, refs[p].total, pages[p])]
  BY <1>1, <1>4 DEF Lists
<1>6. refs = [p \in 1..n |-> refs[p]] /\ DOMAIN refs = 1..n
  BY <1>5
<1>7. Len(refs) = n
  BY <1>6, MadeSeq
<1>8. \A p \in 1..n : refs[p].rows = pages[p] /\ refs[p].page = p
  BY <1>5 DEF ListShard
<1>9. FlattenSeq([p \in DOMAIN refs |-> refs[p].rows]) = rows
  <2>1. [p \in DOMAIN refs |-> refs[p].rows] = [p \in DOMAIN pages |-> pages[p]]
    BY <1>4, <1>6, <1>8
  <2>2. FlattenSeq([p \in DOMAIN pages |-> pages[p]]) = rows
    BY <1>1, <1>2, PagesRead
  <2>. QED BY <2>1, <2>2
<1>10. ASSUME NEW p \in 1..n, p < n PROVE Len(pages[p]) = size
  <2>1. p + 1 \in 1..n
    BY <1>10
  <2>2. /\ Len(pages[p + 1]) \in 1..size
        /\ \A i \in 1..Len(pages[p + 1]) : ((p + 1) - 1) * size + i \in 1..L
    BY <1>3, <2>1 DEF PagesOf
  <2>3. 1 \in 1..Len(pages[p + 1])
    BY <2>2
  <2>4. ((p + 1) - 1) * size + 1 \in 1..L
    BY <2>2, <2>3
  <2>5. (p + 1) - 1 = p /\ p * size \in Nat
    OBVIOUS
  <2>6. p * size <= L
    BY <2>4, <2>5
  <2>7. Len(pages[p]) = IF p * size <= L THEN size ELSE L - (p - 1) * size
    BY <1>3 DEF PagesOf
  <2>. QED BY <2>6, <2>7
<1>. QED BY <1>2, <1>6, <1>7, <1>8, <1>9, <1>10

\* What is read of a generation is the board and the feed it stands for.
LEMMA GenerationRead ==
  ASSUME NEW meta, NEW board, NEW feed, NEW closedAt, Represents(meta, board, feed, closedAt)
  PROVE  /\ FullCards(meta) = CardsAre(board.issues, closedAt)
         /\ BoardOf(FullCards(meta), meta) = board
         /\ FeedOf(meta) = feed
<1>1. PICK cards : cards = CardsAre(board.issues, closedAt)
  OBVIOUS
<1>2. PICK place : Directory(meta.directoryRefs, cards, place)
  BY <1>1 DEF Represents
<1>3. IsBoard(board) /\ IsSeq(feed)
  BY DEF Represents
<1>4. FullCards(meta) = cards
  BY <1>1, <1>2, <1>3, FullCardsRead
<1>5. BoardOf(cards, meta) = board
  <2>1. DOMAIN cards = DOMAIN board.issues /\ \A n \in DOMAIN cards : cards[n].issue = board.issues[n]
    BY <1>1 DEF CardsAre, CardOf
  <2>2. [n \in DOMAIN cards |-> cards[n].issue] = [n \in DOMAIN board.issues |-> board.issues[n]]
    BY <2>1
  <2>3. meta.queueRef.numbers = board.queue /\ meta.deleted = board.deleted
    BY DEF Represents, QueueShard
  <2>4. board = [issues |-> [n \in DOMAIN board.issues |-> board.issues[n]],
                 queue |-> board.queue, deleted |-> board.deleted]
    BY <1>3 DEF IsBoard
  <2>. QED BY <2>2, <2>3, <2>4, Zenon DEF BoardOf
<1>6. FeedOf(meta) = feed
  <2>1. PICK refs : refs = meta.feedPageRefs
    OBVIOUS
  <2>2. PICK pages : pages = Paginate(feed, FeedPageSize)
    OBVIOUS
  <2>3. refs = [p \in DOMAIN pages |-> [type |-> "feed", page |-> p, entries |-> pages[p]]]
    BY <2>1, <2>2 DEF Represents, Feeds
  <2>4. [p \in DOMAIN refs |-> refs[p].entries] = [p \in DOMAIN pages |-> pages[p]]
    BY <2>3
  <2>5. FlattenSeq([p \in DOMAIN pages |-> pages[p]]) = feed
    BY <1>3, <2>2, PageSizes, PagesRead
  <2>6. FlattenSeq([p \in DOMAIN refs |-> refs[p].entries]) = feed
    BY <2>4, <2>5
  <2>. QED BY <2>1, <2>6 DEF FeedOf
<1>. QED BY <1>1, <1>4, <1>5, <1>6

\* The directory has one entry for each card.
LEMMA DirectoryCount ==
  ASSUME NEW meta, NEW cards, NEW place, Directory(meta.directoryRefs, cards, place),
         IsFiniteSet(DOMAIN cards)
  PROVE  Cardinality(DirectoryEntries(meta)) = Cardinality(DOMAIN cards)
<1>1. PICK S : S = DOMAIN cards
  OBVIOUS
<1>2. PICK T : T = DirectoryEntries(meta)
  OBVIOUS
<1>3. T = {EntryFor(n, cards[n]) : n \in S}
  <2>1. DirectoryEntries(meta) = {EntryFor(n, cards[n]) : n \in DOMAIN cards}
    BY DirectoryRead
  <2>. QED BY <1>1, <1>2, <2>1, Zenon
<1>4. PICK f : f = [n \in S |-> EntryFor(n, cards[n])]
  OBVIOUS
<1>5. f \in [S -> T] /\ \A e \in T : \E n \in S : f[n] = e
  BY <1>3, <1>4
<1>6. \A n \in S : f[n].number = n
  BY <1>4 DEF EntryFor
<1>7. \A m, n \in S : f[m] = f[n] => m = n
  BY <1>6
<1>8. f \in Bijection(S, T)
  <2>1. DOMAIN f = S BY <1>5
  <2>2. IsInjective(f) BY <1>7, <2>1, Zenon DEF IsInjective
  <2>. QED BY <1>5, <2>2, Zenon DEF Bijection, Injection, Surjection
<1>9. ExistsBijection(S, T)
  BY <1>8 DEF ExistsBijection
<1>. QED BY <1>1, <1>2, <1>9, FS_Bijection

\* The projections of a generation agree.
LEMMA Agreeing ==
  ASSUME NEW meta, NEW board, NEW feed, NEW closedAt, Represents(meta, board, feed, closedAt),
         NEW cards, cards = FullCards(meta)
  PROVE  /\ FlattenSeq([p \in DOMAIN meta.openPageRefs |-> meta.openPageRefs[p].rows])
              = OrderedSummaries(cards, meta.queueRef.numbers, "open")
         /\ FlattenSeq([p \in DOMAIN meta.closedPageRefs |-> meta.closedPageRefs[p].rows])
              = OrderedSummaries(cards, meta.queueRef.numbers, "closed")
         /\ \A refs \in {meta.openPageRefs, meta.closedPageRefs} : \A p \in DOMAIN refs :
              /\ refs[p].page = p
              /\ p < Len(refs) => Len(refs[p].rows) = IssuePageSize
         /\ meta.openIssueCount = CountOf(BoardOf(cards, meta), "open")
         /\ meta.closedIssueCount = CountOf(BoardOf(cards, meta), "closed")
         /\ meta.feedCount = Len(FeedOf(meta))
         /\ Cardinality(DirectoryEntries(meta)) = Cardinality(DOMAIN cards)
<1>1. cards = CardsAre(board.issues, closedAt) /\ BoardOf(cards, meta) = board /\ FeedOf(meta) = feed
  BY GenerationRead
<1>2. /\ Orderly(cards) /\ IsSeq(board.queue) /\ ToSet(board.queue) = InState(cards, "open")
      /\ IsFiniteSet(DOMAIN cards)
  BY <1>1, BoardOrderly DEF Represents, Orderly
<1>3. PICK opened : opened = OrderedSummaries(cards, board.queue, "open")
  OBVIOUS
<1>4. PICK closed : closed = OrderedSummaries(cards, board.queue, "closed")
  OBVIOUS
<1>5. IsSeq(opened) /\ IsSeq(closed)
  BY <1>2, <1>3, <1>4, OrderedRows
<1>6. Lists(meta.openPageRefs, "open", opened) /\ Lists(meta.closedPageRefs, "closed", closed)
  BY <1>1, <1>3, <1>4 DEF Represents
<1>7. /\ FlattenSeq([p \in DOMAIN meta.openPageRefs |-> meta.openPageRefs[p].rows]) = opened
      /\ \A p \in DOMAIN meta.openPageRefs :
              /\ meta.openPageRefs[p].page = p
              /\ p < Len(meta.openPageRefs) => Len(meta.openPageRefs[p].rows) = IssuePageSize
  BY <1>5, <1>6, ListPages
<1>8. /\ FlattenSeq([p \in DOMAIN meta.closedPageRefs |-> meta.closedPageRefs[p].rows]) = closed
      /\ \A p \in DOMAIN meta.closedPageRefs :
              /\ meta.closedPageRefs[p].page = p
              /\ p < Len(meta.closedPageRefs) => Len(meta.closedPageRefs[p].rows) = IssuePageSize
  BY <1>5, <1>6, ListPages
<1>9. meta.queueRef.numbers = board.queue
  BY DEF Represents, QueueShard
<1>10. /\ meta.openIssueCount = CountOf(board, "open") /\ meta.closedIssueCount = CountOf(board, "closed")
       /\ meta.feedCount = Len(feed)
  BY DEF Represents
<1>11. Cardinality(DirectoryEntries(meta)) = Cardinality(DOMAIN cards)
  <2>1. PICK place : Directory(meta.directoryRefs, cards, place)
    BY <1>1 DEF Represents
  <2>. QED BY <1>2, <2>1, DirectoryCount
<1>. QED BY <1>1, <1>3, <1>4, <1>7, <1>8, <1>9, <1>10, <1>11

\* The four projections of the published generation agree, however it was
\* derived: list pages in queue and closing order, full but for the last,
\* counters, directory and feed are what the issue snapshots say, although each
\* mutation rewrites only the pages it touched (appendInternal, migrate).
THEOREM ProjectionsHold == Spec => []ProjectionsAgree
<1>1. ASSUME LogInv PROVE ProjectionsAgree
  <2>1. SUFFICES ASSUME pointer.format = "compact" PROVE ProjectionsAgree
    BY Zenon DEF ProjectionsAgree
  <2>2. PICK meta : meta = metas[pointer.log]
    OBVIOUS
  <2>3. Generation(meta)
    BY <1>1, <2>1, <2>2 DEF LogInv, PointerIs, Generations
  <2>4. PICK board, feed, closedAt : Represents(meta, board, feed, closedAt)
    BY <2>3 DEF Generation
  <2>5. PICK cards : cards = FullCards(meta)
    OBVIOUS
  <2>6. PublishedCards = cards
    BY <2>1, <2>2, <2>5 DEF PublishedCards
  <2>7. /\ FlattenSeq([p \in DOMAIN meta.openPageRefs |-> meta.openPageRefs[p].rows])
              = OrderedSummaries(cards, meta.queueRef.numbers, "open")
        /\ FlattenSeq([p \in DOMAIN meta.closedPageRefs |-> meta.closedPageRefs[p].rows])
              = OrderedSummaries(cards, meta.queueRef.numbers, "closed")
        /\ \A refs \in {meta.openPageRefs, meta.closedPageRefs} : \A p \in DOMAIN refs :
              /\ refs[p].page = p
              /\ p < Len(refs) => Len(refs[p].rows) = IssuePageSize
        /\ meta.openIssueCount = CountOf(BoardOf(cards, meta), "open")
        /\ meta.closedIssueCount = CountOf(BoardOf(cards, meta), "closed")
        /\ meta.feedCount = Len(FeedOf(meta))
        /\ Cardinality(DirectoryEntries(meta)) = Cardinality(DOMAIN cards)
    BY <2>4, <2>5, Agreeing
  <2>. QED BY <2>2, <2>6, <2>7, ZenonT(60) DEF ProjectionsAgree
<1>. QED BY LogInit, LogStep, <1>1, PTL DEF Spec

-----------------------------------------------------------------------------
(* The promise *)

\* What is read of the published generation is what its log makes.
ReadsLog == ReadBoard = Replay(pointer.log).board /\ ReadFeed = Replay(pointer.log).feed

\* readBundle of the published generation: the board and the feed of its log.
LEMMA LogRead == LogInv => ReadsLog
<1>. SUFFICES ASSUME LogInv PROVE ReadsLog
  OBVIOUS
<1>1. CASE pointer.format = "legacy"
  BY <1>1 DEF ReadsLog, ReadBoard, ReadFeed
<1>2. CASE pointer.format # "legacy"
  <2>1. pointer.format = "compact" /\ Stored
    BY <1>2 DEF LogInv, AnswersInv, WorkInv, Shape
  <2>2. PICK log : log = pointer.log
    OBVIOUS
  <2>3. PICK meta : meta = metas[log]
    OBVIOUS
  <2>4. Generation(meta) /\ meta.log = log
    BY <2>1, <2>2, <2>3 DEF LogInv, PointerIs, Generations, Stored
  <2>5. PICK closedAt : Represents(meta, Replay(log).board, Replay(log).feed, closedAt)
    BY <2>4 DEF Generation
  <2>6. BoardOf(FullCards(meta), meta) = Replay(log).board /\ FeedOf(meta) = Replay(log).feed
    BY <2>5, GenerationRead
  <2>7. ReadBoard = BoardOf(FullCards(meta), meta) /\ ReadFeed = FeedOf(meta)
    BY <1>2, <2>2, <2>3 DEF ReadBoard, ReadFeed, PublishedCards
  <2>. QED BY <2>2, <2>6, <2>7 DEF ReadsLog
<1>. QED BY <1>1, <1>2

\* The promise is stated in the same rules (applyBoardMutation) as the store.
LEMMA SameRules ==
  ASSUME NEW op, NEW board, NEW after, NEW feed
  PROVE  /\ Promise!Applicable(op, board) <=> Applicable(op, board)
         /\ Promise!ApplyBoardMutation(op, board) = ApplyBoardMutation(op, board)
         /\ Promise!FeedAfter(op, board, after, feed) = FeedAfter(op, board, after, feed)
         /\ Promise!QueueIsOpen(board) <=> QueueIsOpen(board)
<1>1. Promise!QueueIsOpen(board) <=> QueueIsOpen(board)
  BY DEF Promise!QueueIsOpen, QueueIsOpen, Promise!ExactOpenIssueQueue, ExactOpenIssueQueue,
         Promise!OpenIssues, OpenIssues, Promise!ToSet, ToSet, Promise!IsInjective, IsInjective
<1>2. Promise!Applicable(op, board) <=> Applicable(op, board)
  BY Zenon DEF Promise!Applicable, Applicable, Promise!ExactOpenIssueQueue, ExactOpenIssueQueue,
         Promise!OpenIssues, OpenIssues, Promise!ToSet, ToSet, Promise!IsInjective, IsInjective,
         Promise!ReviewBlocksCompletion, ReviewBlocksCompletion, Promise!ReviewMayReplace,
         ReviewMayReplace, Promise!Unnamed, Unnamed
<1>3. Promise!FeedAfter(op, board, after, feed) = FeedAfter(op, board, after, feed)
  BY Zenon DEF Promise!FeedAfter, FeedAfter, Promise!FeedEntry, FeedEntry, Promise!FeedKind, FeedKind
<1>4. Promise!IssuesAfter(op, board.issues) = IssuesAfter(op, board.issues)
  BY Zenon DEF Promise!IssuesAfter, IssuesAfter, Promise!IssueAfter, IssueAfter, Promise!NewIssue,
         NewIssue, Promise!NoReview, NoReview, Promise!Unnamed, Unnamed,
         Promise!OutstandingBlocksAfter, OutstandingBlocksAfter
<1>5. Promise!QueueAfter(op, board.queue) = QueueAfter(op, board.queue)
  BY Zenon DEF Promise!QueueAfter, QueueAfter, Promise!Without, Without, Promise!OnlyIn, OnlyIn,
         Promise!ToSet, ToSet
<1>6. Promise!ApplyBoardMutation(op, board) = ApplyBoardMutation(op, board)
  BY <1>4, <1>5, Zenon DEF Promise!ApplyBoardMutation, ApplyBoardMutation
<1>. QED BY <1>1, <1>2, <1>3, <1>6

\* An operation more in the log is a commit of the promised board.
LEMMA CommitStep ==
  ASSUME LogInv, ReadsLog, ReadsLog', NEW op, pointer'.log = Append(pointer.log, op),
         IsOperation(op), ~Replay(pointer.log).board.deleted,
         Applicable(op, Replay(pointer.log).board),
         \A i \in 1..Len(pointer.log) : pointer.log[i].id # op.id /\ pointer.log[i].at <= op.at
  PROVE  Promise!Commit
<1>1. PICK log : log = pointer.log
  OBVIOUS
<1>2. PICK more : more = Append(log, op)
  OBVIOUS
<1>3. PICK next : next = pointer'.log
  OBVIOUS
<1>4. Replayable(log) /\ IsSeq(log)
  BY <1>1 DEF LogInv, PointerIs, Replayable
<1>5. PICK N \in Nat : N = Len(log) /\ DOMAIN log = 1..N
  BY <1>4, SeqFacts
<1>6. /\ IsSeq(more) /\ Len(more) = N + 1 /\ more[N + 1] = op
      /\ \A i \in 1..N : more[i] = log[i]
  BY <1>2, <1>4, <1>5, AppendFacts
<1>7. SubSeq(more, 1, N) = log
  <2>1. PICK S : more \in Seq(S) BY <1>6 DEF IsSeq
  <2>2. /\ SubSeq(more, 1, N) \in Seq(S) /\ Len(SubSeq(more, 1, N)) = N
        /\ \A i \in 1..N : SubSeq(more, 1, N)[i] = more[i]
    BY <1>6, <2>1
  <2>3. IsSeq(SubSeq(more, 1, N)) BY <2>2 DEF IsSeq
  <2>. QED BY <1>4, <1>5, <1>6, <2>2, <2>3, SameSeq
<1>8. PICK board : board = Replay(log).board
  OBVIOUS
<1>9. PICK feed : feed = Replay(log).feed
  OBVIOUS
<1>10. /\ Replay(more).board = ApplyBoardMutation(op, board)
       /\ Replay(more).feed = FeedAfter(op, board, Replay(more).board, feed)
  BY <1>1, <1>2, <1>4, <1>8, <1>9, ReplayStep
<1>11. next = more /\ ReadBoard = board /\ ReadFeed = feed
  BY <1>1, <1>2, <1>3, <1>8, <1>9 DEF ReadsLog
<1>12. ReadBoard' = Replay(more).board /\ ReadFeed' = Replay(more).feed
  BY <1>3, <1>11 DEF ReadsLog
<1>13. ReadBoard' = Promise!ApplyBoardMutation(op, ReadBoard)
  <2>1. Promise!ApplyBoardMutation(op, board) = ApplyBoardMutation(op, board)
    BY SameRules
  <2>. QED BY <1>10, <1>11, <1>12, <2>1, Zenon
<1>14. ReadFeed' = Promise!FeedAfter(op, ReadBoard, ReadBoard', ReadFeed)
  <2>1. PICK after : after = Replay(more).board
    OBVIOUS
  <2>2. Promise!FeedAfter(op, board, after, feed) = FeedAfter(op, board, after, feed)
    BY SameRules
  <2>. QED BY <1>10, <1>11, <1>12, <2>1, <2>2, Zenon
<1>15. ~ReadBoard.deleted /\ Promise!Applicable(op, ReadBoard)
  <2>1. Promise!Applicable(op, board) <=> Applicable(op, board)
    BY SameRules
  <2>. QED BY <1>1, <1>8, <1>11, <2>1
<1>16. pointer'.log[Len(pointer.log) + 1] = op
  BY <1>1, <1>3, <1>5, <1>6, <1>11
<1>17. Len(pointer'.log) = Len(pointer.log) + 1 /\ SubSeq(pointer'.log, 1, Len(pointer.log)) = pointer.log
  BY <1>1, <1>3, <1>5, <1>6, <1>7, <1>11
<1>18. \A i \in DOMAIN pointer.log : pointer.log[i].id # op.id /\ pointer.log[i].at <= op.at
  BY <1>1, <1>5
<1>. QED BY <1>13, <1>14, <1>15, <1>16, <1>17, <1>18, Zenon DEF Promise!Commit

\* However writers race, lose answers, crash or sweep, and across the cutover,
\* what the published shards say is one log of accepted operations, appended to
\* once per call and in time order, and exactly the board and the feed that log
\* makes.
THEOREM LogImplemented == Spec => ImplementsLog
<1>1. LogInv => ReadsLog
  BY LogRead
<1>2. Init => Promise!Init
  <2>. SUFFICES ASSUME Init PROVE Promise!Init
    OBVIOUS
  <2>1. LogInv BY LogInit
  <2>2. ReadsLog BY <2>1, <1>1
  <2>3. pointer.log = << >> BY DEF Init
  <2>4. ReadBoard = StartBoard /\ ReadFeed = << >>
    BY <2>2, <2>3, ReplayBegins DEF ReadsLog
  <2>5. QueueIsOpen(StartBoard) /\ ~StartBoard.deleted
    BY StoreAssumption
  <2>6. Promise!QueueIsOpen(StartBoard)
    BY <2>5, SameRules
  <2>. QED BY <2>3, <2>4, <2>5, <2>6, Zenon DEF Promise!Init
<1>3. LogInv /\ LogInv' /\ ReadsLog /\ ReadsLog' /\ [Next]_vars
        => [Promise!Next]_<<pointer.log, ReadBoard, ReadFeed>>
  <2>. SUFFICES ASSUME LogInv, LogInv', ReadsLog, ReadsLog', [Next]_vars
                PROVE  [Promise!Next]_<<pointer.log, ReadBoard, ReadFeed>>
    OBVIOUS
  <2>1. ASSUME pointer'.log = pointer.log
        PROVE  UNCHANGED <<pointer.log, ReadBoard, ReadFeed>>
    BY <2>1 DEF ReadsLog
  <2>2. ASSUME NEW c \in Clients, Committed_(c)
        PROVE  Promise!Commit
    <3>1. /\ pc[c] = "commit" /\ ~Imports(c) /\ pointer = base[c]
          /\ pointer'.log = draft[c].log
      BY <2>2 DEF Committed_
    <3>2. PICK op : /\ op.id = Id(c) /\ draft[c].log = Append(base[c].log, op)
                    /\ Accepts(base[c].log, op)
      BY <3>1 DEF LogInv, Course, Derives, Drafting
    <3>3. Id(c) \notin Committed
      BY <3>1 DEF LogInv, AnswersInv, Known, WorkInv, Shape, Id
    <3>4. IsSeq(pointer.log) /\ DOMAIN pointer.log = 1..Len(pointer.log)
      BY SeqFacts DEF LogInv, PointerIs, Replayable
    <3>5. ASSUME NEW i \in 1..Len(pointer.log)
          PROVE  pointer.log[i].id # op.id /\ pointer.log[i].at <= op.at
      <4>1. pointer.log[i].id \in Committed
        BY <3>4 DEF Committed
      <4>2. pointer.log[i].at <= op.at
        BY <3>1, <3>2 DEF Accepts
      <4>. QED BY <3>2, <3>3, <4>1, <4>2
    <3>6. /\ pointer'.log = Append(pointer.log, op) /\ IsOperation(op)
          /\ ~Replay(pointer.log).board.deleted /\ Applicable(op, Replay(pointer.log).board)
      BY <3>1, <3>2 DEF Accepts
    <3>. QED BY <3>5, <3>6, CommitStep
  <2>3. ASSUME OldAppends
        PROVE  Promise!Commit
    <3>1. PICK op : OldAccepts(op) /\ pointer'.log = Append(pointer.log, op)
      BY <2>3 DEF OldAppends
    <3>2. PICK N \in Nat : N = Len(pointer.log)
      BY SeqFacts DEF LogInv, PointerIs, Replayable
    <3>3. op.id = <<"legacy", N>> /\ op.at = now /\ op.number = 1 /\ op.numbers = << >>
      BY <3>1, <3>2 DEF OldAccepts
    <3>4. now \in Nat /\ \A i \in 1..N : pointer.log[i].at <= now /\ pointer.log[i].id = <<"legacy", i - 1>>
      BY <2>3, <3>2 DEF LogInv, PointerIs, OldAppends
    <3>5. ASSUME NEW i \in 1..N
          PROVE  pointer.log[i].id # op.id /\ pointer.log[i].at <= op.at
      <4>1. i - 1 # N OBVIOUS
      <4>. QED BY <3>3, <3>4, <4>1
    <3>6. IsOperation(op)
      BY <3>3, <3>4, ReplayBegins DEF IsOperation, Replayable
    <3>7. ~Replay(pointer.log).board.deleted /\ Applicable(op, Replay(pointer.log).board)
      BY <3>1 DEF OldAccepts
    <3>. QED BY <3>1, <3>2, <3>5, <3>6, <3>7, CommitStep
  <2>4. \A c \in Clients : CutOver(c) => pointer'.log = pointer.log
    BY DEF CutOver
  <2>5. WorkInv BY DEF LogInv, AnswersInv
  <2>6. CASE UNCHANGED pointer BY <2>1, <2>6
  <2>. QED BY <2>1, <2>2, <2>3, <2>4, <2>5, <2>6, PointerStep DEF Promise!Next
<1>. QED BY LogInit, LogStep, <1>1, <1>2, <1>3, PTL DEF Spec, ImplementsLog, Promise!Spec
=============================================================================
