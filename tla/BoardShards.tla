---------------------------- MODULE BoardShards ----------------------------
(***************************************************************************)
(* The data of packages/core/src/board-v3-store.ts: what a board looks     *)
(* like as shards, and how one mutation derives the next generation from   *)
(* the one it read.                                                        *)
(*                                                                         *)
(* A ref is the digest of the shard's own bytes, so a ref is modelled by   *)
(* the shard's value: the same content is the same ref, and what is stored *)
(* is a set of shards.  The meta object of a generation is named by its    *)
(* head, and a head by the operations it was hashed from: the log.         *)
(***************************************************************************)
EXTENDS BoardRules, FiniteSets

CONSTANTS IssuePageSize,      \* V3_ISSUE_PAGE_SIZE
          CommentPageSize,    \* V3_COMMENT_PAGE_SIZE
          FeedPageSize,       \* V3_FEED_PAGE_SIZE
          DirectoryPageSize   \* DIRECTORY_PAGE_SIZE

ASSUME PageSizes ==
    {IssuePageSize, CommentPageSize, FeedPageSize, DirectoryPageSize}
        \subseteq Nat \ {0}

\* A missing time (null); real times are positive.
Never == 0

\* A directory page that holds nothing (null).
NoRef == [type |-> "none"]

\* A sequence, in a form TLC can evaluate.
IsSequence(s) == Len(s) \in Nat /\ s = [i \in 1..Len(s) |-> s[i]]

\* The record of an issue (BoardIssue) and a board of such records (Board).
IsIssue(issue) ==
    /\ issue = [state |-> issue.state, body |-> issue.body,
                createdAt |-> issue.createdAt, updatedAt |-> issue.updatedAt,
                comments |-> issue.comments, review |-> issue.review,
                blocks |-> issue.blocks]
    /\ issue.state \in {"open", "closed"}
    /\ issue.updatedAt \in Nat
    /\ IsSequence(issue.comments)

IsBoard(board) ==
    /\ board = [issues |-> [n \in DOMAIN board.issues |-> board.issues[n]],
                queue |-> board.queue, deleted |-> board.deleted]
    /\ DOMAIN board.issues \subseteq Nat
    /\ IsFiniteSet(DOMAIN board.issues)
    /\ \A n \in DOMAIN board.issues : IsIssue(board.issues[n])
    /\ IsSequence(board.queue)
    /\ ToSet(board.queue) = OpenIssues(board)

Larger(a, b) == IF a >= b THEN a ELSE b

\* paginate: consecutive pages of "size" entries, the last one possibly shorter.
Paginate(entries, size) ==
    [p \in 1..((Len(entries) + size - 1) \div size) |->
        SubSeq(entries, (p - 1) * size + 1,
               IF p * size <= Len(entries) THEN p * size ELSE Len(entries))]

-----------------------------------------------------------------------------
(* The bundle: the board as a writer or a reader holds it, one card for    *)
(* each issue (the record and what the summaries remember of it).          *)

\* newestCommentAt: the maximum over the whole thread.
NewestComment(messages) ==
    FoldSeq(LAMBDA m, newest : Larger(m.at, newest), Never, messages)

CommentPageShard(number, page, messages) ==
    [type |-> "comments", number |-> number, page |-> page, messages |-> messages]

\* coreOf: the issue without its thread.
CoreOf(issue) == [issue EXCEPT !.comments = << >>]

SnapshotShard(number, card, commentRefs) ==
    [type |-> "issue", number |-> number, core |-> CoreOf(card.issue),
     closedAt |-> card.closedAt, messageCount |-> Len(card.issue.comments),
     lastActivityAt |-> NewestComment(card.issue.comments),
     commentRefs |-> commentRefs]

Thread(snapshot) ==
    FlattenSeq([p \in DOMAIN snapshot.commentRefs |-> snapshot.commentRefs[p].messages])

\* readIssueSnapshot: the stored issue with its thread.
CardOfSnapshot(snapshot) ==
    [issue    |-> [snapshot.core EXCEPT !.comments = Thread(snapshot)],
     closedAt |-> snapshot.closedAt,
     count    |-> snapshot.messageCount,
     activity |-> snapshot.lastActivityAt]

\* One row of a list page.
Summary(number, card) ==
    [number |-> number, state |-> card.issue.state,
     createdAt |-> card.issue.createdAt, updatedAt |-> card.issue.updatedAt,
     closedAt |-> IF card.issue.state # "closed" THEN Never
                  ELSE IF card.closedAt # Never THEN card.closedAt
                  ELSE card.issue.updatedAt,
     messageCount |-> card.count, lastActivityAt |-> card.activity,
     hasBody |-> card.issue.body # "",
     review |-> card.issue.review, blocks |-> card.issue.blocks]

\* issueFromSummary: a row is enough for an issue the mutation does not touch.
CardOfSummary(row) ==
    [issue    |-> [state |-> row.state,
                   body |-> IF row.hasBody THEN "materialized" ELSE "",
                   createdAt |-> row.createdAt, updatedAt |-> row.updatedAt,
                   comments |-> << >>, review |-> row.review, blocks |-> row.blocks],
     closedAt |-> row.closedAt,
     count    |-> row.messageCount,
     activity |-> row.lastActivityAt]

DirectoryEntries(meta) ==
    UNION {ref.named : ref \in ToSet(meta.directoryRefs) \ {NoRef}}

SnapshotsOf(meta) == {e.ref : e \in DirectoryEntries(meta)}

EntryOf(meta, number) ==
    CHOOSE e \in DirectoryEntries(meta) : e.number = number

ListRefs(meta) == ToSet(meta.openPageRefs) \union ToSet(meta.closedPageRefs)

Rows(meta) == UNION {ToSet(ref.rows) : ref \in ListRefs(meta)}

\* readBundle: every directory page and every snapshot.
FullCards(meta) ==
    [n \in {e.number : e \in DirectoryEntries(meta)} |->
        CardOfSnapshot(EntryOf(meta, n).ref)]

TouchesIssue(kind) ==
    kind \in {"create", "edit", "comment", "close", "reopen", "delete", "review"}

\* Faulty: the touched issue is taken from its summary too.
SummaryCards(meta, req) ==
    [n \in {row.number : row \in Rows(meta)} |->
        CardOfSummary(CHOOSE r \in Rows(meta) : r.number = n)]

\* readMutationBundle: the rows of the list pages, and the snapshot of the one
\* issue the mutation touches.
CompactCards(meta, req) ==
    [n \in {row.number : row \in Rows(meta)} |->
        LET row  == CHOOSE r \in Rows(meta) : r.number = n
            card == CardOfSummary(row)
        IN  IF n = req.number /\ TouchesIssue(req.kind)
            THEN [card EXCEPT !.issue = CardOfSnapshot(EntryOf(meta, n).ref).issue]
            ELSE card]

BoardOf(cards, meta) ==
    [issues |-> [n \in DOMAIN cards |-> cards[n].issue],
     queue |-> meta.queueRef.numbers, deleted |-> meta.deleted]

\* The feed of a generation, oldest entry first.
FeedOf(meta) ==
    FlattenSeq([p \in DOMAIN meta.feedPageRefs |-> meta.feedPageRefs[p].entries])

\* pinnedRefs: every shard a generation needs.
PinnedRefs(meta) ==
    ListRefs(meta) \union ToSet(meta.feedPageRefs)
        \union {meta.queueRef, meta.catalogRef}
        \union (ToSet(meta.directoryRefs) \ {NoRef})
        \union SnapshotsOf(meta)
        \union UNION {ToSet(s.commentRefs) : s \in SnapshotsOf(meta)}

\* findDirectoryEntry, or destinationDirectoryPage for a new issue.
DirectoryPageFor(meta, number) ==
    LET holds(p) == meta.directoryRefs[p] # NoRef
                    /\ \E e \in meta.directoryRefs[p].named : e.number = number
        count    == Len(meta.directoryRefs)
    IN  IF \E p \in 1..count : holds(p) THEN CHOOSE p \in 1..count : holds(p)
        ELSE IF count = 0 THEN 1
        ELSE IF Cardinality(meta.directoryRefs[count].named) < DirectoryPageSize
             THEN count ELSE count + 1

\* What the compact path reads of a generation.
CompactRefs(meta, req) ==
    ListRefs(meta) \union {meta.queueRef, meta.catalogRef}
        \union (IF TouchesIssue(req.kind)
                THEN {meta.directoryRefs[p] : p \in {p \in DOMAIN meta.directoryRefs :
                          meta.directoryRefs[p] # NoRef
                          /\ p <= DirectoryPageFor(meta, req.number)}}
                     \union UNION {{s} \union (IF req.kind = "delete" THEN {}
                                               ELSE ToSet(s.commentRefs)) :
                                   s \in {s \in SnapshotsOf(meta) : s.number = req.number}}
                ELSE {})
        \union (IF meta.feedPageRefs = << >> \/ req.kind \notin DOMAIN FeedKind
                   \/ meta.feedCount % FeedPageSize = 0
                THEN {} ELSE {Last(meta.feedPageRefs)})

-----------------------------------------------------------------------------
(* The writes.  Each returns its new refs, the refs it replaced and the    *)
(* refs it wrote.                                                          *)

\* The cards after the operation: closing and reopening move closedAt, an
\* issue operation recounts the thread it has read.
NextCards(op, cards, after) ==
    [n \in DOMAIN after.issues |->
        IF n # op.number \/ ~TouchesIssue(op.kind) THEN cards[n]
        ELSE [issue    |-> after.issues[n],
              closedAt |-> CASE op.kind = "close" -> op.at
                             [] op.kind \in {"reopen", "create"} -> Never
                             [] OTHER -> cards[n].closedAt,
              count    |-> IF op.kind = "review" THEN cards[n].count
                           ELSE Len(after.issues[n].comments),
              activity |-> IF op.kind = "review" THEN cards[n].activity
                           ELSE NewestComment(after.issues[n].comments)]]

\* materializeIssue.  Only the tail page of the thread is ever rewritten.
MaterializeIssue(op, card, commentRefs) ==
    LET messages == card.issue.comments
        page     == ((Len(messages) - 1) \div CommentPageSize) + 1
        tail     == CommentPageShard(op.number, page,
                        SubSeq(messages, (page - 1) * CommentPageSize + 1, Len(messages)))
        refs     == IF op.kind # "comment" THEN commentRefs
                    ELSE IF Len(commentRefs) < page THEN Append(commentRefs, tail)
                    ELSE [commentRefs EXCEPT ![page] = tail]
        snapshot == SnapshotShard(op.number, card, refs)
    IN  [ref |-> snapshot,
         superseded |-> IF op.kind = "comment" /\ Len(commentRefs) >= page
                        THEN {commentRefs[page]} ELSE {},
         written |-> {snapshot} \union (IF op.kind = "comment" THEN {tail} ELSE {})]

DirectoryShard(page, entries) ==
    [type |-> "directory", page |-> page, named |-> entries]

\* Trailing pages that hold nothing are dropped.
DropEmptyTail(refs) ==
    LET kept == {p \in DOMAIN refs : refs[p] # NoRef}
    IN  SubSeq(refs, 1, IF kept = {} THEN 0 ELSE CHOOSE p \in kept : \A q \in kept : q <= p)

\* The issue snapshot and the directory page that names it.
WriteIssue(op, meta, cards) ==
    IF ~TouchesIssue(op.kind)
    THEN [refs |-> meta.directoryRefs, superseded |-> {}, written |-> {}]
    ELSE
    LET page     == DirectoryPageFor(meta, op.number)
        present  == page <= Len(meta.directoryRefs) /\ meta.directoryRefs[page] # NoRef
        before   == IF present THEN meta.directoryRefs[page].named ELSE {}
        previous == {e \in before : e.number = op.number}
        threads  == {e.ref.commentRefs : e \in previous}
        made     == MaterializeIssue(op, cards[op.number],
                        IF threads = {} THEN << >> ELSE CHOOSE t \in threads : TRUE)
        entries  == IF op.kind = "delete" THEN before \ previous
                    ELSE (before \ previous) \union {[number |-> op.number, ref |-> made.ref]}
        ref      == IF entries = {} THEN NoRef ELSE DirectoryShard(page, entries)
        refs     == IF page <= Len(meta.directoryRefs)
                    THEN [meta.directoryRefs EXCEPT ![page] = ref]
                    ELSE Append(meta.directoryRefs, ref)
    IN  [refs |-> DropEmptyTail(refs),
         superseded |-> {e.ref : e \in previous}
                        \union (IF op.kind = "delete" THEN UNION {ToSet(t) : t \in threads}
                                ELSE made.superseded)
                        \union (IF present THEN {meta.directoryRefs[page]} ELSE {}),
         written |-> ({ref} \ {NoRef})
                     \union (IF op.kind = "delete" THEN {} ELSE made.written)]

\* The members of a set in the order of a relation: the one that i - 1 others
\* precede is the i-th.
InOrder(S, precedes) ==
    [i \in 1..Cardinality(S) |->
        CHOOSE x \in S : Cardinality({y \in S : <<y, x>> \in precedes}) = i - 1]

\* The closed order: latest closing first, then the higher identifier.
ClosesBefore(a, b) ==
    \/ a.closedAt > b.closedAt
    \/ a.closedAt = b.closedAt /\ a.number > b.number

\* orderedSummaries: the queue's order for open issues, the closing order for
\* closed ones.
OrderedSummaries(cards, queue, state) ==
    LET rows == {Summary(n, cards[n]) : n \in {n \in DOMAIN cards : cards[n].issue.state = state}}
    IN  IF state = "closed" THEN InOrder(rows, {pair \in rows \X rows : ClosesBefore(pair[1], pair[2])})
        ELSE LET open == OnlyIn(queue, {n \in DOMAIN cards : cards[n].issue.state = "open"})
             IN  [i \in DOMAIN open |-> Summary(open[i], cards[open[i]])]

ListShard(state, page, total, entries) ==
    [type |-> "list", state |-> state, page |-> page, total |-> total, rows |-> entries]

\* Faulty: a page of the same length is taken for the same page.
CarriedByLength(next, previous, previousRefs) ==
    {p \in DOMAIN next : /\ p \in DOMAIN previous /\ p \in DOMAIN previousRefs
                         /\ Len(previous[p]) = Len(next[p])}

\* A page whose rows did not change is carried forward.
Carried(next, previous, previousRefs) ==
    {p \in DOMAIN next : /\ p \in DOMAIN previous /\ p \in DOMAIN previousRefs
                         /\ previous[p] = next[p]}

\* Faulty: pages past the new end are forgotten.
ReplacedPages(next, carried, previousRefs) ==
    {previousRefs[p] : p \in (DOMAIN previousRefs \intersect DOMAIN next) \ carried}

\* Pages past the new end are replaced by nothing.
SupersededPages(next, carried, previousRefs) ==
    {previousRefs[p] : p \in DOMAIN previousRefs \ carried}

\* writeIssueListPages.
WriteListPages(state, nextRows, previousRows, previousRefs) ==
    LET next    == Paginate(nextRows, IssuePageSize)
        carried == Carried(next, Paginate(previousRows, IssuePageSize), previousRefs)
        refs    == [p \in DOMAIN next |->
                       IF p \in carried THEN previousRefs[p]
                       ELSE ListShard(state, p, Len(nextRows), next[p])]
    IN  [refs |-> refs,
         superseded |-> SupersededPages(next, carried, previousRefs),
         written |-> {refs[p] : p \in DOMAIN next \ carried}]

\* appendFeed: only the tail page is rewritten.
AppendFeed(meta, entry) ==
    LET page    == (meta.feedCount \div FeedPageSize) + 1
        tail    == meta.feedCount % FeedPageSize # 0
        entries == IF tail THEN meta.feedPageRefs[page].entries ELSE << >>
        shard   == [type |-> "feed", page |-> page, entries |-> Append(entries, entry)]
    IN  [refs |-> IF tail THEN [meta.feedPageRefs EXCEPT ![page] = shard]
                  ELSE Append(meta.feedPageRefs, shard),
         superseded |-> IF tail THEN {meta.feedPageRefs[page]} ELSE {},
         written |-> {shard}]

WriteFeed(op, meta, before, after) ==
    IF op.kind \in DOMAIN FeedKind
    THEN AppendFeed(meta, FeedEntry(op, before, after, meta.feedCount))
    ELSE [refs |-> meta.feedPageRefs, superseded |-> {}, written |-> {}]

QueueShard(numbers) == [type |-> "queue", numbers |-> numbers]

WriteQueue(meta, numbers) ==
    IF meta.queueRef.numbers = numbers
    THEN [ref |-> meta.queueRef, superseded |-> {}, written |-> {}]
    ELSE [ref |-> QueueShard(numbers), superseded |-> {meta.queueRef},
          written |-> {QueueShard(numbers)}]

CatalogShard(legacy) == [type |-> "catalog", legacy |-> legacy]

\* The catalog of a board written before the host registry was retired is
\* replaced once.
WriteCatalog(meta) ==
    IF meta.catalogRef.legacy
    THEN [ref |-> CatalogShard(FALSE), superseded |-> {meta.catalogRef},
          written |-> {CatalogShard(FALSE)}]
    ELSE [ref |-> meta.catalogRef, superseded |-> {}, written |-> {}]

-----------------------------------------------------------------------------
\* Count of the issues in one state.
CountOf(board, state) ==
    Cardinality({n \in DOMAIN board.issues : board.issues[n].state = state})

\* The generation appendInternal derives from the one it read.
NextGeneration(op, meta, cards) ==
    LET before    == BoardOf(cards, meta)
        after     == ApplyBoardMutation(op, before)
        next      == NextCards(op, cards, after)
        issue     == WriteIssue(op, meta, next)
        queue     == WriteQueue(meta, after.queue)
        catalog   == WriteCatalog(meta)
        pages(s, refs) == WriteListPages(s,
                              OrderedSummaries(next, after.queue, s),
                              OrderedSummaries(cards, before.queue, s), refs)
        open      == pages("open", meta.openPageRefs)
        closed    == pages("closed", meta.closedPageRefs)
        feed      == WriteFeed(op, meta, before, after)
        parts     == {issue, queue, catalog, open, closed, feed}
    IN  [log |-> Append(meta.log, op), updatedAt |-> op.at,
         directoryRefs |-> issue.refs, openPageRefs |-> open.refs,
         closedPageRefs |-> closed.refs, queueRef |-> queue.ref,
         catalogRef |-> catalog.ref, feedPageRefs |-> feed.refs,
         feedCount |-> IF op.kind \in DOMAIN FeedKind
                       THEN meta.feedCount + 1 ELSE meta.feedCount,
         openIssueCount |-> CountOf(after, "open"),
         closedIssueCount |-> CountOf(after, "closed"),
         deleted |-> after.deleted,
         retainsMetaRef |-> {meta.log},
         supersededRefs |-> UNION {p.superseded : p \in parts},
         introducedRefs |-> UNION {p.written : p \in parts}]

\* materializeLogical and migrate: the first generation, written from a whole
\* board.  It replaces nothing and records nothing it wrote.
FirstGeneration(log, board, closedAt, feed, at, order) ==
    LET cards == [n \in DOMAIN board.issues |->
                    [issue |-> board.issues[n], closedAt |-> closedAt[n],
                     count |-> Len(board.issues[n].comments),
                     activity |-> NewestComment(board.issues[n].comments)]]
        threads(n) ==
            LET pages == Paginate(board.issues[n].comments, CommentPageSize)
            IN  [p \in DOMAIN pages |-> CommentPageShard(n, p, pages[p])]
        chunks == Paginate(order, DirectoryPageSize)
        rows(s) == OrderedSummaries(cards, board.queue, s)
        feeds == Paginate(feed, FeedPageSize)
    IN  [log |-> log, updatedAt |-> at,
         directoryRefs |-> [p \in DOMAIN chunks |-> DirectoryShard(p,
             {[number |-> n, ref |-> SnapshotShard(n, cards[n], threads(n))] :
                 n \in ToSet(chunks[p])})],
         openPageRefs |-> WriteListPages("open", rows("open"), << >>, << >>).refs,
         closedPageRefs |-> WriteListPages("closed", rows("closed"), << >>, << >>).refs,
         queueRef |-> QueueShard(board.queue), catalogRef |-> CatalogShard(FALSE),
         feedPageRefs |-> [p \in DOMAIN feeds |->
             [type |-> "feed", page |-> p, entries |-> feeds[p]]],
         feedCount |-> Len(feed),
         openIssueCount |-> CountOf(board, "open"),
         closedIssueCount |-> CountOf(board, "closed"),
         deleted |-> board.deleted, retainsMetaRef |-> {},
         supersededRefs |-> {}, introducedRefs |-> {}]
=============================================================================
