------------------------------ MODULE WebFeed ------------------------------
(***************************************************************************)
(* The feed tab of the web client: FeedView of web/src/App.tsx reads the   *)
(* numbered page the address names through readFeedPage of ui-state.ts,    *)
(* which walks there from the newest page, one request at a time, over a   *)
(* log that readFeedFrom of core/src/board-v3-store.ts projects and that   *)
(* grows meanwhile.  An entry is its position in the log.                  *)
(***************************************************************************)
EXTENDS Naturals, FiniteSets, FiniteSetsExt

CONSTANTS FeedStart,   \* entries of the log when the tab is opened
          FeedPageSize, \* FEED_PAGE_SIZE
          Walks,        \* slots: walks that may be under way together
          MaxLog,      \* bound: entries of the log
          MaxFeedPage, \* bound: pages an address names
          MaxMoves,    \* bound: times the reader turns to another page
          MaxFailed    \* bound: requests that fail

ASSUME FeedAssumption == /\ Walks \subseteq Nat \ {0}
                         /\ FeedPageSize \in Nat \ {0}
                         /\ {FeedStart, MaxLog, MaxFeedPage, MaxMoves, MaxFailed} \subseteq Nat

VARIABLES
  log,      \* how many entries the log has: positions 0 to log - 1
  page,     \* the page the address names
  known,    \* generation: the log the loaded board was read from
  effect,   \* the dependencies the effect last ran with
  walks,    \* the walks of readFeedPage under way
  current,  \* the walk whose effect has not been cleaned up, or 0
  read,     \* the page on screen, or Nothing
  error,    \* the last walk failed
  moves, failures

feedVars == <<log, page, known, effect, walks, current, read, error, moves, failures>>

Nothing == [page |-> 0, first |-> 0, total |-> 0, entries |-> {}]
NoWalk  == [page |-> 0, number |-> 0, first |-> 0, total |-> 0, entries |-> {}, more |-> FALSE]

FeedInit == /\ log = FeedStart
            /\ page \in 1..MaxFeedPage
            /\ known = FeedStart
            /\ effect = <<0, 0>>
            /\ walks = [w \in Walks |-> NoWalk]
            /\ current = 0
            /\ read = Nothing
            /\ error = FALSE
            /\ moves = 0
            /\ failures = 0

-----------------------------------------------------------------------------
\* feedPageCount, clampFeedPage.
FeedPages(total) == IF total = 0 THEN 1 ELSE (total + FeedPageSize - 1) \div FeedPageSize
ClampFeed(p, total) == IF p > FeedPages(total) THEN FeedPages(total) ELSE p

\* The newest `FeedPageSize` of some positions.
Newest(positions) == {p \in positions : Cardinality({q \in positions : q > p}) < FeedPageSize}

\* Faulty: the entry the cursor names is returned again.
FromCursor(entries) == {p \in 0..log - 1 : p <= Min(entries)}

\* The entries behind the cursor of a page, the position of its last entry.
BehindCursor(entries) == {p \in 0..log - 1 : p < Min(entries)}

\* One answer of readFeedFrom to a walk: the next of its pages.
Answered(walk, candidates) ==
    [walk EXCEPT !.number  = @ + 1,
                 !.first   = IF walk.number = 0 THEN log ELSE @,
                 !.total   = log,
                 !.entries = Newest(candidates),
                 !.more    = Cardinality(candidates) > FeedPageSize]

Arrived(walk) == walk.number > 0 /\ walk.number = ClampFeed(walk.page, walk.first)

-----------------------------------------------------------------------------
\* An operation is committed: every one of them adds an entry to the log.
Grow == /\ log < MaxLog
        /\ log' = log + 1
        /\ UNCHANGED <<page, known, effect, walks, current, read, error, moves, failures>>

\* The shell has read the board again: a new generation.
Learn == /\ known # log
         /\ known' = log
         /\ UNCHANGED <<log, page, effect, walks, current, read, error, moves, failures>>

\* Previous, Next, a link or Back.
Turn == /\ moves < MaxMoves
        /\ moves' = moves + 1
        /\ page' \in (1..MaxFeedPage) \ {page}
        /\ UNCHANGED <<log, known, effect, walks, current, read, error, failures>>

\* The effect: the previous walk is cleaned up and another one begins.
Walk == /\ effect # <<known, page>>
        /\ effect' = <<known, page>>
        /\ \E w \in Walks : /\ walks[w] = NoWalk
                            /\ \A v \in Walks : v < w => walks[v] # NoWalk
                            /\ walks' = [walks EXCEPT ![w].page = page]
                            /\ current' = w
        /\ UNCHANGED <<log, page, known, read, error, moves, failures>>

\* The newest page is asked for, or the page behind the last cursor.
StepWalk(w) ==
    /\ walks[w] # NoWalk
    /\ \/ /\ walks[w].number = 0
          /\ walks' = [walks EXCEPT ![w] = Answered(@, 0..log - 1)]
       \/ /\ walks[w].number > 0 /\ ~Arrived(walks[w])
          /\ walks[w].more
          /\ walks' = [walks EXCEPT ![w] = Answered(@, BehindCursor(@.entries))]
    /\ UNCHANGED <<log, page, known, effect, current, read, error, moves, failures>>

\* The walk ends on its page, or on an empty one where the log gives no cursor;
\* it reaches the screen unless it has been cleaned up.
LandWalk(w) ==
    /\ walks[w].number > 0
    /\ Arrived(walks[w]) \/ ~walks[w].more
    /\ walks' = [walks EXCEPT ![w] = NoWalk]
    /\ \/ /\ w = current
          /\ read' = [page |-> walks[w].page, first |-> walks[w].first, total |-> walks[w].total,
                      entries |-> IF Arrived(walks[w]) THEN walks[w].entries ELSE {}]
          /\ error' = FALSE
          /\ current' = 0
       \/ /\ w # current
          /\ UNCHANGED <<read, error, current>>
    /\ UNCHANGED <<log, page, known, effect, moves, failures>>

\* A request fails: the page on screen stays there.
FailWalk(w) ==
    /\ walks[w] # NoWalk
    /\ failures < MaxFailed
    /\ failures' = failures + 1
    /\ walks' = [walks EXCEPT ![w] = NoWalk]
    /\ error' = (error \/ w = current)
    /\ current' = IF w = current THEN 0 ELSE current
    /\ UNCHANGED <<log, page, known, effect, read, moves>>

Walking == \E w \in Walks : StepWalk(w) \/ LandWalk(w) \/ FailWalk(w)

FeedNext == Grow \/ Learn \/ Turn \/ Walk \/ Walking

FeedSpec == FeedInit /\ [][FeedNext]_feedVars

-----------------------------------------------------------------------------
\* The k-th page of a log of n entries, counted from the newest.
SliceOf(n, k) == {p \in 0..n - 1 : /\ p + (k - 1) * FeedPageSize < n
                                   /\ p + k * FeedPageSize >= n}

\* The page on screen is one page of the log as it was when the walk began:
\* no entry is skipped, repeated or taken from another page, although the log
\* grew between the requests.  When no walk is under way and none failed it is
\* the page the address names, or the last one there was.
FeedPageIsOneSlice ==
    /\ read # Nothing => read.entries = SliceOf(read.first, ClampFeed(read.page, read.first))
    /\ effect = <<known, page>> /\ current = 0 /\ ~error => read.page = page
=============================================================================
