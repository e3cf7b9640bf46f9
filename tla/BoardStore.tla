----------------------------- MODULE BoardStore -----------------------------
(***************************************************************************)
(* The sharded board of packages/core/src/board-v3-store.ts under several  *)
(* clients.  The object store (Skrynia, external) holds shards and metas   *)
(* written once and deleted by anybody, and one pointer replaced under     *)
(* If-Match.  A client reads the pointer, its meta and the shards it needs,*)
(* posts the next generation, replaces the pointer, and after the commit   *)
(* walks the chain of superseded generations deleting what is older than   *)
(* the retention window.                                                   *)
(***************************************************************************)
EXTENDS BoardShards

CONSTANTS Clients,
          Requests,      \* the requests a client may make, per client and call
          MaxCalls,      \* bound: calls of each client
          MaxAttempts,   \* DEFAULT_MAX_ATTEMPTS
          Window,        \* RETENTION_MIN_AGE_MS
          MaxTime,       \* bound: the clock
          Faults,        \* bound: failed or lost commits, refused deletes, crashes
          LegacyCalls,   \* bound: operations an old build still appends
          LegacyStart,   \* whether the pointer may be in the pre-cutover format
          StartBoard     \* the board the log begins with

\* An old build appends in nobody's name; a client makes a bounded number of
\* calls, each about an issue and, for a reorder, a sequence of them; and the
\* board begins as a board there can be.
ASSUME StoreAssumption ==
    /\ "legacy" \notin Clients
    /\ MaxCalls \in [Clients -> Nat]
    /\ {MaxAttempts, Window, MaxTime, Faults, LegacyCalls} \subseteq Nat
    /\ \A c \in Clients : \A k \in 1..MaxCalls[c] : \A req \in Requests[c][k] :
          req.number \in Nat /\ IsSequence(req.numbers)
    /\ IsBoard(StartBoard) /\ QueueIsOpen(StartBoard) /\ ~StartBoard.deleted

NoMeta == [log |-> << >>, updatedAt |-> Never]

\* An object stored under a name, whatever was there.
Put(objects, name, value) ==
    [n \in DOMAIN objects \union {name} |-> IF n = name THEN value ELSE objects[n]]

VARIABLES pointer,   \* [format, log]: its ETag is its value
          metas,     \* the stored meta objects, by the log they stand for
          shards,    \* the stored shards
          now,       \* the clock
          pc,        \* where each client's call stands: idle, pointer, legacy, meta,
                     \* bundle, post, describe, commit or sweep
          call,      \* its request
          calls,     \* how many calls it has made
          attempts,  \* attempts of the current call
          base,      \* the pointer it resolved
          held,      \* the meta it read
          draft,     \* the generation it is publishing
          cursor,    \* the next generation its sweep visits ({} at the end)
          again,     \* pinnedAgain of its sweep
          answers,   \* history: what each call was told: done, committed, refused,
                     \* changed, failed or unknown
          lost,      \* history: refs a sweep took from a newer generation
          faults     \* history: faults so far

object == <<pointer, metas, shards>>
client == <<pc, call, calls, attempts, base, held, draft, cursor, again>>
vars == <<object, now, client, answers, lost, faults>>

Id(c) == <<c, calls[c]>>

\* The logical board, closing times and feed of a pre-cutover log.  The old
\* store (external) keeps them as snapshots; a replay of the log says the same.
ReplayedNothing ==
    [board |-> StartBoard, feed |-> << >>,
     closedAt |-> [n \in DOMAIN StartBoard.issues |-> Never]]

ReplayedOne(op, s) ==
    LET after == ApplyBoardMutation(op, s.board)
    IN  [board |-> after,
         feed |-> FeedAfter(op, s.board, after, s.feed),
         closedAt |-> [n \in DOMAIN after.issues |->
             CASE n = op.number /\ op.kind = "close" -> op.at
               [] n = op.number /\ op.kind \in {"reopen", "create"} -> Never
               [] OTHER -> s.closedAt[n]]]

Replay(log) ==
    LET replayed[n \in 0..Len(log)] ==
            IF n = 0 THEN ReplayedNothing ELSE ReplayedOne(log[n], replayed[n - 1])
    IN  replayed[Len(log)]

\* latestBoardTimestamp: nothing on the board is newer than its import.
ImportedAt(s) ==
    LET times == {s.board.issues[n].updatedAt : n \in DOMAIN s.board.issues}
                 \union {s.feed[i].at : i \in DOMAIN s.feed}
    IN  CHOOSE t \in times \union {1} : \A u \in times : u <= t

NumberOrder(numbers) == {pair \in numbers \X numbers : pair[1] < pair[2]}

Imported(log) ==
    LET s == Replay(log)
    IN  FirstGeneration(log, s.board, s.closedAt, s.feed, ImportedAt(s),
                        InOrder(DOMAIN s.board.issues, NumberOrder(DOMAIN s.board.issues)))

\* Every shard an import posts.
Posted(meta) ==
    IF meta.retainsMetaRef = {} THEN PinnedRefs(meta) ELSE meta.introducedRefs

-----------------------------------------------------------------------------
Init ==
    /\ now = 1
    /\ \/ /\ pointer = [format |-> "compact", log |-> << >>]
          /\ metas = [log \in {<< >>} |-> Imported(log)]
       \/ /\ LegacyStart
          /\ pointer = [format |-> "legacy", log |-> << >>]
          /\ metas = [log \in {} |-> NoMeta]
    /\ shards = UNION {PinnedRefs(metas[log]) : log \in DOMAIN metas}
    /\ pc = [c \in Clients |-> "idle"]
    /\ call = [c \in Clients |-> [kind |-> "none"]]
    /\ calls = [c \in Clients |-> 0]
    /\ attempts = [c \in Clients |-> 0]
    /\ base = [c \in Clients |-> [format |-> "none", log |-> << >>]]
    /\ held = [c \in Clients |-> NoMeta]
    /\ draft = [c \in Clients |-> NoMeta]
    /\ cursor = [c \in Clients |-> {}]
    /\ again = [c \in Clients |-> {}]
    /\ answers = [id \in {} |-> "done"]
    /\ lost = {}
    /\ faults = 0

\* The call returns or throws: what it held is gone.
Return(c, answer) ==
    /\ answers' = Put(answers, Id(c), answer)
    /\ pc' = [pc EXCEPT ![c] = "idle"]
    /\ call' = [call EXCEPT ![c] = [kind |-> "none"]]
    /\ attempts' = [attempts EXCEPT ![c] = 0]
    /\ base' = [base EXCEPT ![c] = [format |-> "none", log |-> << >>]]
    /\ held' = [held EXCEPT ![c] = NoMeta]
    /\ draft' = [draft EXCEPT ![c] = NoMeta]
    /\ cursor' = [cursor EXCEPT ![c] = {}]
    /\ again' = [again EXCEPT ![c] = {}]

Goto(c, place) == pc' = [pc EXCEPT ![c] = place]

\* readPointer at the start of an attempt.
Resolve(c, kind) ==
    /\ base' = [base EXCEPT ![c] = pointer]
    /\ attempts' = [attempts EXCEPT ![c] = @ + 1]
    /\ Goto(c, IF kind = "import" THEN "legacy" ELSE "meta")

\* A client calls append, appendFast, importBoard or a read and resolves the
\* pointer.  requireCurrentPointer refuses a pre-cutover pointer to everybody
\* but the import, and the import reports a board already cut over.
Call(c) ==
    /\ pc[c] = "idle"
    /\ calls[c] < MaxCalls[c]
    /\ calls' = [calls EXCEPT ![c] = @ + 1]
    /\ \E req \in Requests[c][calls[c] + 1] :
          IF (pointer.format = "legacy") # (req.kind = "import")
          THEN /\ answers' = Put(answers, <<c, calls[c] + 1>>,
                                 IF req.kind = "import" THEN "done" ELSE "refused")
               /\ UNCHANGED <<pc, call, attempts, base>>
          ELSE /\ call' = [call EXCEPT ![c] = req]
               /\ Resolve(c, req.kind)
               /\ UNCHANGED answers
    /\ UNCHANGED <<object, now, held, draft, cursor, again, lost, faults>>

\* The pointer of a later attempt.  No pointer goes back to the old format.
ReadPointer(c) ==
    /\ pc[c] = "pointer"
    /\ Resolve(c, call[c].kind)
    /\ UNCHANGED <<object, now, call, calls, held, draft, cursor, again, answers,
                   lost, faults>>

\* readMeta: the meta the pointer names must be there; the failure is thrown,
\* not retried.
ReadMeta(c) ==
    /\ pc[c] = "meta"
    /\ IF base[c].log \in DOMAIN metas
       THEN /\ held' = [held EXCEPT ![c] = metas[base[c].log]]
            /\ Goto(c, "bundle")
            /\ UNCHANGED <<call, calls, attempts, base, draft, cursor, again, answers>>
       ELSE Return(c, "failed") /\ UNCHANGED calls
    /\ UNCHANGED <<object, now, lost, faults>>

\* canonicalTimestampAtOrAfter: the client's clock, never before the board's.
OperationOf(c) ==
    [id |-> Id(c), kind |-> call[c].kind, number |-> call[c].number,
     at |-> Larger(now, held[c].updatedAt), body |-> call[c].body,
     review |-> call[c].review, numbers |-> call[c].numbers]

\* The shards the call reads of the generation it resolved.
Needed(c) ==
    IF call[c].kind = "read" \/ ~call[c].compact THEN PinnedRefs(held[c])
    ELSE CompactRefs(held[c], call[c])

CardsOf(c) ==
    IF call[c].compact THEN CompactCards(held[c], call[c]) ELSE FullCards(held[c])

\* The bundle is read: a read returns, an append validates its operation
\* against it and derives the next generation.
ReadBundle(c) ==
    /\ pc[c] = "bundle"
    /\ LET op == OperationOf(c)
       IN  IF ~(Needed(c) \subseteq shards) THEN Return(c, "failed")
           ELSE IF call[c].kind = "read" THEN Return(c, "done")
           ELSE IF held[c].deleted \/ ~Applicable(op, BoardOf(CardsOf(c), held[c]))
           THEN Return(c, "refused")
           ELSE /\ draft' = [draft EXCEPT ![c] = NextGeneration(op, held[c], CardsOf(c))]
                /\ Goto(c, "post")
                /\ UNCHANGED <<call, attempts, base, held, cursor, again, answers>>
    /\ UNCHANGED <<object, now, calls, lost, faults>>

\* readLegacyBoard and materializeLogical.
ReadLegacy(c) ==
    /\ pc[c] = "legacy"
    /\ draft' = [draft EXCEPT ![c] = Imported(base[c].log)]
    /\ Goto(c, "post")
    /\ UNCHANGED <<object, now, call, calls, attempts, base, held, cursor, again,
                   answers, lost, faults>>

\* writeShard for every new shard.  A ref already stored is answered 409 and
\* confirmed, not written again.
PostShards(c) ==
    /\ pc[c] = "post"
    /\ shards' = shards \union Posted(draft[c])
    /\ lost' = lost \ Posted(draft[c])
    /\ Goto(c, "describe")
    /\ UNCHANGED <<pointer, metas, now, call, calls, attempts, base, held, draft,
                   cursor, again, answers, faults>>

\* writeMeta.  An import then reads the candidate back (verifyImport) and
\* publishes only what its readers can open.
PostMeta(c) ==
    /\ pc[c] = "describe"
    /\ metas' = Put(metas, draft[c].log, draft[c])
    /\ IF call[c].kind = "import" /\ ~(PinnedRefs(draft[c]) \subseteq shards)
       THEN Return(c, "failed")
       ELSE /\ Goto(c, "commit")
            /\ UNCHANGED <<call, attempts, base, held, draft, cursor, again, answers>>
    /\ UNCHANGED <<pointer, shards, now, calls, lost, faults>>

Published(c) == [format |-> "compact", log |-> draft[c].log]

\* Faulty: the pointer is replaced whatever it says now.
IfAny(c) == TRUE

\* The ETag the pointer was read with is still its own.
IfMatch(c) == pointer = base[c]

\* An import and the last attempt do not try again.
GivesUp(c) == call[c].kind = "import" \/ attempts[c] = MaxAttempts

\* commitPointer: PUT If-Match.  A 412 starts the next attempt from the pointer.
Commit(c) ==
    /\ pc[c] = "commit"
    /\ IF IfMatch(c)
       THEN /\ pointer' = Published(c)
            /\ IF call[c].kind = "import"
               THEN Return(c, "done")
               ELSE /\ cursor' = [cursor EXCEPT ![c] = draft[c].retainsMetaRef]
                    /\ again' = [again EXCEPT ![c] = draft[c].introducedRefs]
                    /\ Goto(c, "sweep")
                    /\ UNCHANGED <<call, attempts, base, held, draft, answers>>
       ELSE /\ pointer' = pointer
            /\ IF GivesUp(c)
               THEN Return(c, "changed")
               ELSE /\ Goto(c, "pointer")
                    /\ base' = [base EXCEPT ![c] = [format |-> "none", log |-> << >>]]
                    /\ held' = [held EXCEPT ![c] = NoMeta]
                    /\ draft' = [draft EXCEPT ![c] = NoMeta]
                    /\ UNCHANGED <<call, attempts, cursor, again, answers>>
    /\ UNCHANGED <<metas, shards, now, calls, lost, faults>>

\* The PUT fails, or is applied and its answer is lost: the call throws either
\* way and nothing is swept.
CommitUnanswered(c) ==
    /\ pc[c] = "commit"
    /\ faults < Faults
    /\ faults' = faults + 1
    /\ \/ pointer' = pointer
       \/ IfMatch(c) /\ pointer' = Published(c)
    /\ Return(c, "unknown")
    /\ UNCHANGED <<metas, shards, now, calls, lost>>

\* Faulty: everything the published generation replaced is outside the window.
OutsideAtOnce(meta) == now >= meta.updatedAt

\* A generation is outside the window by the age of its own meta.
OutsideRetentionWindow(meta) == now - meta.updatedAt >= Window

\* Refs the sweep of c must not take but does: a newer generation, published,
\* being written or being read, has put them back, or the generation that
\* replaced them wrote them itself.
Taken(c, meta, refs) ==
    refs \intersect
        ((UNION {draft[d].introducedRefs :
                 d \in {d \in Clients \ {c} : pc[d] \in {"describe", "commit"}
                                            /\ call[d].kind # "import"}})
         \union (UNION {PinnedRefs(metas[l]) :
                        l \in {l \in DOMAIN metas : Len(l) > Len(draft[c].log)}})
         \union (UNION {PinnedRefs(held[d]) :
                        d \in {d \in Clients : pc[d] = "bundle"
                                               /\ Len(held[d].log) > Len(draft[c].log)}})
         \union meta.introducedRefs)

\* Faulty: the walk protects only what the commit itself introduced.
AgainInCommit(c, meta) == again[c]

\* pinnedAgain grows by what each generation of the walk introduced.
AgainAfter(c, meta) == again[c] \union meta.introducedRefs

\* One generation of reclaimOutsideWindow: the shards it replaced that nothing
\* newer on the chain has put back, then its meta.  A missing meta ends the walk.
SweepGeneration(c, refused) ==
    /\ pc[c] = "sweep"
    /\ \E log \in cursor[c] :
       IF log \notin DOMAIN metas
       THEN /\ ~refused
            /\ Return(c, "committed")
            /\ UNCHANGED <<metas, shards, lost>>
       ELSE LET meta    == metas[log]
                targets == meta.supersededRefs \ again[c]
            IN  /\ refused => OutsideRetentionWindow(meta)
                /\ IF OutsideRetentionWindow(meta) /\ ~refused
                   THEN /\ shards' = shards \ targets
                        /\ metas' = [l \in DOMAIN metas \ {log} |-> metas[l]]
                        /\ lost' = lost \union Taken(c, meta, targets)
                   ELSE UNCHANGED <<metas, shards, lost>>
                /\ again' = [again EXCEPT ![c] = AgainAfter(c, meta)]
                /\ cursor' = [cursor EXCEPT ![c] = meta.retainsMetaRef]
                /\ UNCHANGED <<pc, call, attempts, base, held, draft, answers>>
    /\ UNCHANGED <<pointer, now, calls>>

Sweep(c) == SweepGeneration(c, FALSE) /\ UNCHANGED faults

\* The server refuses every DELETE of a generation: counted, never retried.
SweepRefused(c) ==
    /\ faults < Faults
    /\ faults' = faults + 1
    /\ SweepGeneration(c, TRUE)

\* The walk reached the first generation: the call returns what it committed.
SweepEnds(c) ==
    /\ pc[c] = "sweep"
    /\ cursor[c] = {}
    /\ Return(c, "committed")
    /\ UNCHANGED <<object, now, calls, lost, faults>>

\* The client's process dies in its sweep.  (A death before the PUT leaves what
\* a failed PUT leaves, or less.)
Crash(c) ==
    /\ pc[c] = "sweep"
    /\ faults < Faults
    /\ faults' = faults + 1
    /\ Return(c, "unknown")
    /\ UNCHANGED <<object, now, calls, lost>>

\* An old build (external) still appends to the pre-cutover board what its
\* board accepts.
LegacyAppend ==
    /\ pointer.format = "legacy"
    /\ Len(pointer.log) < LegacyCalls
    /\ LET op == [id |-> <<"legacy", Len(pointer.log)>>, kind |-> "close", number |-> 1,
                  at |-> now, body |-> "", review |-> NoReview, numbers |-> << >>]
           board == Replay(pointer.log).board
       IN  /\ ~board.deleted /\ Applicable(op, board)
           /\ pointer' = [pointer EXCEPT !.log = Append(@, op)]
    /\ UNCHANGED <<metas, shards, now, client, answers, lost, faults>>

Tick ==
    /\ now < MaxTime
    /\ now' = now + 1
    /\ UNCHANGED <<object, client, answers, lost, faults>>

Next ==
    \/ \E c \in Clients :
          \/ Call(c) \/ ReadPointer(c) \/ ReadMeta(c) \/ ReadBundle(c)
          \/ ReadLegacy(c) \/ PostShards(c) \/ PostMeta(c) \/ Commit(c)
          \/ CommitUnanswered(c) \/ Sweep(c) \/ SweepRefused(c) \/ SweepEnds(c) \/ Crash(c)
    \/ LegacyAppend
    \/ Tick

Spec == Init /\ [][Next]_vars
-----------------------------------------------------------------------------
(* Properties *)

\* What a client reads of the published generation.
PublishedCards ==
    IF pointer.format = "legacy" THEN << >> ELSE FullCards(metas[pointer.log])

ReadBoard ==
    IF pointer.format = "legacy" THEN Replay(pointer.log).board
    ELSE BoardOf(PublishedCards, metas[pointer.log])

ReadFeed ==
    IF pointer.format = "legacy" THEN Replay(pointer.log).feed
    ELSE FeedOf(metas[pointer.log])

Promise == INSTANCE BoardLog WITH log <- pointer.log, board <- ReadBoard,
                                  feed <- ReadFeed

\* However writers race, lose answers, crash or sweep, and across the cutover,
\* what the published shards say is one log of accepted operations, appended
\* to once per call and in time order, and exactly the board and the feed that
\* log makes: the incremental writes of appendInternal lose and invent nothing.
ImplementsLog == Promise!Spec

\* The object store still holds everything the published pointer leads to,
\* except a shard a sweep took from a writer that had just put it back (or from
\* a rewrite with the same timestamp): nothing else a sweep deletes is needed.
PublishedReadable ==
    pointer.format = "compact" =>
        /\ pointer.log \in DOMAIN metas
        /\ PinnedRefs(metas[pointer.log]) \subseteq shards \union lost

\* The generation a client resolved is within the retention window while it is
\* the published one or its successor is younger than the window.
WithinWindow(c) ==
    \/ base[c].log = pointer.log
    \/ now < pointer.log[Len(base[c].log) + 1].at + Window

\* A client that has read its meta finds every shard that meta pins for as long
\* as the window lasts, whatever commits and sweeps happen meanwhile.
ReaderWithinWindow ==
    \A c \in Clients :
        pc[c] = "bundle" /\ WithinWindow(c)
            => PinnedRefs(held[c]) \subseteq shards \union lost

\* A client that resolved the pointer can fetch the meta it names, for as long
\* as the window lasts (what reclaimOutsideWindow's comment requires of it).
ResolvedMetaReadable ==
    \A c \in Clients :
        pc[c] = "meta" /\ WithinWindow(c) => base[c].log \in DOMAIN metas

\* The four projections of one generation agree: list pages in queue and closing
\* order, counters, and the summaries of the compact path, are what the issue
\* snapshots say, although each mutation rewrites only the pages it touched.
ProjectionsAgree ==
    pointer.format = "compact" =>
        LET meta  == metas[pointer.log]
            cards == PublishedCards
            rows(refs) == FlattenSeq([p \in DOMAIN refs |-> refs[p].rows])
            board == BoardOf(cards, meta)
        IN  /\ rows(meta.openPageRefs) = OrderedSummaries(cards, meta.queueRef.numbers, "open")
            /\ rows(meta.closedPageRefs) = OrderedSummaries(cards, meta.queueRef.numbers, "closed")
            /\ \A refs \in {meta.openPageRefs, meta.closedPageRefs} : \A p \in DOMAIN refs :
                   /\ refs[p].page = p
                   /\ p < Len(refs) => Len(refs[p].rows) = IssuePageSize
            /\ meta.openIssueCount = CountOf(board, "open")
            /\ meta.closedIssueCount = CountOf(board, "closed")
            /\ meta.feedCount = Len(FeedOf(meta))
            /\ Cardinality(DirectoryEntries(meta)) = Cardinality(DOMAIN cards)

Committed == {pointer.log[i].id : i \in DOMAIN pointer.log}

\* What a writer is told is true for good: an append that reports success is in
\* the published log, one that reports a refusal, too many changes or an
\* unreadable board is not; only a lost answer leaves its caller unsure.
AnswersTruthful ==
    /\ \A id \in DOMAIN answers :
          /\ answers[id] = "committed" => id \in Committed
          /\ id \in Committed => answers[id] \in {"committed", "unknown"}
    /\ \A c \in Clients : pc[c] = "sweep" => Id(c) \in Committed

Prefix(log, n) == SubSeq(log, 1, n)

\* The stored generations a walk that starts at a log passes.
Chain(log) ==
    {Prefix(log, n) : n \in {n \in 0..Len(log) :
        \A m \in n..Len(log) : Prefix(log, m) \in DOMAIN metas}}

Walked == Chain(pointer.log)
    \union UNION {UNION {Chain(log) : log \in cursor[c]} : c \in Clients}

\* The operations the board had before the cutover.
CutoverAt == Cardinality({i \in DOMAIN pointer.log : pointer.log[i].id[1] = "legacy"})

\* Generations an attempt or an import described without publishing them.
Orphans ==
    {l \in DOMAIN metas : \/ ~IsPrefix(l, pointer.log)
                          \/ Len(l) < CutoverAt
                          \/ pointer.format = "legacy"}

NamedBy(log) == PinnedRefs(metas[log]) \union metas[log].supersededRefs

\* An import is at work, or gave up, beside the one that published: stalled
\* past the window, it writes what the cutover wrote anew after a sweep took it.
SecondImport ==
    \/ \E c \in Clients : call[c].kind = "import"
    \/ \E id \in DOMAIN answers :
          /\ answers[id] \in {"changed", "failed", "unknown"}
          /\ \E req \in Requests[id[1]][id[2]] : req.kind = "import"

\* The log whose generation a second import may leave behind.
LeftBehind == IF SecondImport THEN {Prefix(pointer.log, CutoverAt)} ELSE {}

\* Reclamation forgets nothing: short of a fault, every stored meta is on the
\* chain a sweep walks or belongs to a lost attempt; and, faults or not, every
\* stored shard is named by a stored meta, by a generation still being
\* published, or by what a second import left behind.
NothingForgotten ==
    /\ faults = 0 => DOMAIN metas \ LeftBehind = (Walked \union Orphans) \ LeftBehind
    /\ shards \subseteq
          (UNION {NamedBy(log) : log \in DOMAIN metas})
          \union (UNION {Posted(draft[c]) : c \in {c \in Clients : pc[c] = "describe"}})
          \union (UNION {PinnedRefs(Imported(log)) : log \in LeftBehind})
=============================================================================
