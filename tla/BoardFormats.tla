---------------------------- MODULE BoardFormats ----------------------------
(***************************************************************************)
(* The board a board begins from, in any of the formats it may have been   *)
(* persisted in (the parsers of core/src/model.ts, the migration chain of  *)
(* core/src/migrations.ts), and the operations appended to it by clients   *)
(* whose clocks disagree (parsePayload of core/src/operations.ts, the      *)
(* timestamp floors of core/src/board-store.ts and board-v3-store.ts).     *)
(* Every board is parsed again after every operation, and a message older  *)
(* than the one before it makes a board that no build opens: it is the     *)
(* floors that keep a slow clock from being locked out.                    *)
(*                                                                         *)
(* An identifier on the wire is [form, id]: a number, as older builds      *)
(* wrote it, or text.  What the operations do is BoardRules; how the       *)
(* result is published is BoardStore.                                      *)
(***************************************************************************)
EXTENDS BoardRules, FiniteSets

CONSTANTS Persisted,  \* boards found in a log, or given to initialize
          Idents,     \* identifiers, as they are once they are text
          LastTime,   \* bound: the latest reading of a clock
          MaxAppends  \* bound: operations

VARIABLES
  format,   \* "log", "sharded", or "refused": no build of this version opens it
  boardNow, \* the board
  counter,  \* nextIssueNumber
  latest,   \* the timestamp of the last operation; meta.updatedAt
  rejected, \* history: an operation the rules allow has been refused
  appended  \* operations appended

formatVars == <<format, boardNow, counter, latest, rejected, appended>>

Forms == {"number", "text"}
Wire  == [form : Forms, id : Idents]
Times == 0..LastTime

\* Any of the shapes a board is persisted in; "places" are its resources.
PersistedIssue == [number : Wire, state : {"open", "closed"}, createdAt : Times, updatedAt : Times,
                   messages : Seq(Times)]
Resource       == [place : STRING, numbers : Seq(Wire)]
PersistedBoard == [version : Nat, next : Nat, issues : Seq(PersistedIssue), places : Seq(Resource)]

ASSUME FormatsAssumption ==
    /\ Idents \subseteq Nat
    /\ {LastTime, MaxAppends} \subseteq Nat
    /\ Persisted \subseteq PersistedBoard

OldestFormat == 2     \* LEGACY_BOARD_SCHEMA_VERSION
CurrentFormat == 5     \* BOARD_SCHEMA_VERSION

Wires(persisted) == {persisted.issues[i].number : i \in DOMAIN persisted.issues}

-----------------------------------------------------------------------------
(* model.ts: what each version's parser accepts *)

\* oldNumericMaximum: of the identifiers that are numbers.
OldNumericMaximum(persisted) ==
    Max({0} \cup {w.id : w \in {v \in Wires(persisted) : v.form = "number"}})

\* normalizePersistedIdentifiers, and the check that no two are one.
IdentifiersDiffer(persisted) ==
    \A i, j \in DOMAIN persisted.issues :
        persisted.issues[i].number.id = persisted.issues[j].number.id => i = j

\* isResource, of identifiers made text and sorted.
IsResource(resource, persisted) ==
    /\ resource.numbers # << >>
    /\ \A w \in ToSet(resource.numbers) : \E v \in Wires(persisted) : v.id = w.id
    /\ \A i, j \in DOMAIN resource.numbers :
           resource.numbers[i].id = resource.numbers[j].id => i = j

CounterExceeds(persisted) == persisted.next > OldNumericMaximum(persisted)

Chronological(times) == \A i, j \in DOMAIN times : i <= j => times[i] <= times[j]

MessagesInOrder(persisted) ==
    \A i \in DOMAIN persisted.issues : Chronological(persisted.issues[i].messages)

\* parseLegacyBoardV2, and parseLegacyBoardV3 of what it shares with it.
ParsesAsOld(persisted) ==
    /\ IdentifiersDiffer(persisted)
    /\ CounterExceeds(persisted)
    /\ \A i \in DOMAIN persisted.places : IsResource(persisted.places[i], persisted)

\* parseLegacyBoardV4
ParsesAsRetired(persisted) ==
    /\ ParsesAsOld(persisted)
    /\ MessagesInOrder(persisted)
    /\ \A i, j \in DOMAIN persisted.places :
           persisted.places[i].place = persisted.places[j].place => i = j

\* parseCanonicalBoard: a current board has no resources.
ParsesAsCurrent(persisted) ==
    /\ persisted.places = << >>
    /\ IdentifiersDiffer(persisted)
    /\ CounterExceeds(persisted)
    /\ MessagesInOrder(persisted)

\* parsePersistedBoard: the parser its own version has.
ParsePersisted(persisted) ==
    CASE persisted.version \in {2, 3} -> ParsesAsOld(persisted)
      [] persisted.version = 4        -> ParsesAsRetired(persisted)
      [] persisted.version = 5        -> ParsesAsCurrent(persisted)
      [] OTHER                        -> FALSE

-----------------------------------------------------------------------------
(* migrations.ts *)

\* persistedBoardMigrationChain: from each superseded version to the next.
Chain(version) == IF version \in OldestFormat..CurrentFormat
                  THEN [i \in 1..(CurrentFormat - version) |-> version + i - 1]
                  ELSE << >>

HasPath(version) == version \in OldestFormat..CurrentFormat

\* A step of the registry: each parses what it lifts; the last drops the
\* resources, and the identifiers are text from there on.
Lift(persisted, version) ==
    IF version = 4
    THEN [persisted EXCEPT !.version = 5, !.places = << >>,
                           !.issues = [i \in DOMAIN @ |-> [@[i] EXCEPT !.number.form = "text"]]]
    ELSE [persisted EXCEPT !.version = version + 1]

\* migratePersistedBoard: each step refuses what its parser does.
Migrated(persisted) ==
    LET chain == Chain(persisted.version)
        lifted[n \in 0..Len(chain)] ==
            IF n = 0 THEN [ok |-> HasPath(persisted.version), board |-> persisted]
            ELSE [ok    |-> lifted[n - 1].ok /\ ParsePersisted(lifted[n - 1].board),
                  board |-> Lift(lifted[n - 1].board, chain[n])]
    IN  lifted[Len(chain)]

\* The gate of verifyAndReplayOperationLog.
Opens(persisted) == /\ ParsePersisted(persisted)
                    /\ Migrated(persisted).ok
                    /\ ParsesAsCurrent(Migrated(persisted).board)

\* The issues of a current board, by identifier; the queue is the open ones.
IssueOf(issue) == [state |-> issue.state, body |-> "text", createdAt |-> issue.createdAt,
                   updatedAt |-> issue.updatedAt,
                   comments |-> [i \in DOMAIN issue.messages |-> [id |-> 0, at |-> issue.messages[i]]],
                   review |-> NoReview, blocks |-> {}]
BoardOf(persisted) ==
    LET list == persisted.issues
        open == SelectSeq(list, LAMBDA issue : issue.state = "open")
    IN  [issues |-> [i \in {w.id : w \in Wires(persisted)} |->
                        IssueOf(list[CHOOSE n \in DOMAIN list : list[n].number.id = i])],
         queue |-> [n \in DOMAIN open |-> open[n].number.id],
         deleted |-> FALSE]

-----------------------------------------------------------------------------
(* Timestamps *)

\* canonicalTimestampAtOrAfter
AtOrAfter(now, floor) == Max({now, floor})

\* Faulty: an issue is as old as its last change.
LatestOfIssues(board, fallback) ==
    Max({fallback} \cup UNION {{issue.createdAt, issue.updatedAt} : issue \in Range(board.issues)})

\* latestBoardTimestamp, and boardTimestampFloor of a board with issues.
LatestBoardTimestamp(board, fallback) ==
    Max({fallback} \cup UNION {{issue.createdAt, issue.updatedAt}
                                 \cup {comment.at : comment \in ToSet(issue.comments)} :
                               issue \in Range(board.issues)})

-----------------------------------------------------------------------------
(* operations.ts: an operation, parsed, applied and parsed again *)

Numbered == {"create", "edit", "comment", "close", "reopen", "delete"}

\* parsePayload: an identifier of either form; a reordering without repeats,
\* of what was written rather than of what it names.
WellFormed(op) == /\ op.kind \in Numbered => op.wire \in Wire
                  /\ op.kind = "reorder" => IsInjective(op.wires)

\* String(payload.number), of every identifier of the operation.
Plain(op) == [id |-> op.id, kind |-> op.kind, number |-> op.wire.id, at |-> op.at, body |-> "text",
              review |-> NoReview, numbers |-> [i \in DOMAIN op.wires |-> op.wires[i].id]]

\* A legacy create draws the ordinals in sequence.
InSequence(op, next) == op.kind = "create" /\ op.wire.form = "number" => op.wire.id = next
CounterAfter(op, next) == IF op.kind = "create" /\ op.wire.form = "number" THEN next + 1 ELSE next

Allowed(op) == /\ WellFormed(op)
               /\ InSequence(op, counter)
               /\ Applicable(Plain(op), boardNow)

\* parseBoard of the result.
ParsesAgain(board) ==
    \A i \in DOMAIN board.issues :
        LET comments == board.issues[i].comments
        IN  Chronological([n \in DOMAIN comments |-> comments[n].at])

\* The operations looked at; one that may be numbered is about any issue.
Operations(now, forms) ==
    [id : {1}, kind : Numbered, at : {now}, wire : [form : forms, id : Idents], wires : {<< >>}]
      \cup [id : {1}, kind : {"reorder"}, at : {now}, wire : {[form |-> "text", id |-> 0]},
            wires : [1..Cardinality(OpenIssues(boardNow)) -> [form : forms, id : Idents]]]

\* applyBoardMutation, and what an operation it refuses leaves.
Apply(op) ==
    LET after == ApplyBoardMutation(Plain(op), boardNow)
    IN  /\ Allowed(op)
        /\ appended' = appended + 1
        /\ IF ParsesAgain(after)
           THEN /\ boardNow' = after
                /\ counter' = CounterAfter(op, counter)
                /\ latest' = op.at
                /\ UNCHANGED rejected
           ELSE /\ rejected' = TRUE
                /\ UNCHANGED <<boardNow, counter, latest>>

-----------------------------------------------------------------------------
\* The log of an older build, whose first operation carries the board under a
\* timestamp not before anything in it; or initialize, of a current board.
BeginsFrom(persisted, now) ==
    LET board == BoardOf(persisted)
    IN  /\ IF Opens(persisted)
           THEN /\ boardNow = board
                /\ counter = persisted.next
                /\ \/ /\ format = "log"
                      /\ latest = AtOrAfter(now, LatestBoardTimestamp(board, 0))
                   \/ /\ persisted.version = CurrentFormat
                      /\ format = "sharded"
                      /\ latest = LatestBoardTimestamp(board, now)
           ELSE /\ format = "refused"
                /\ boardNow = [issues |-> << >>, queue |-> << >>, deleted |-> FALSE]
                /\ counter = 1
                /\ latest = 0
        /\ rejected = FALSE
        /\ appended = 0

FormatInit == \E persisted \in Persisted, now \in Times : BeginsFrom(persisted, now)

\* The older build appends to its log, and the replay takes it: timestamps do
\* not decrease.
LogAppend == /\ format = "log"
             /\ appended < MaxAppends
             /\ \E now \in Times : now >= latest /\ \E op \in Operations(now, Forms) : Apply(op)
             /\ UNCHANGED format

\* migrate: meta.updatedAt is the timestamp of the last operation.
Shard == /\ format = "log"
         /\ format' = "sharded"
         /\ UNCHANGED <<boardNow, counter, latest, rejected, appended>>

\* append: of text, and never before what is there.
ShardAppend == /\ format = "sharded"
               /\ appended < MaxAppends
               /\ \E now \in Times :
                    \E op \in Operations(AtOrAfter(now, latest), {"text"}) : Apply(op)
               /\ UNCHANGED format

FormatNext == LogAppend \/ Shard \/ ShardAppend

FormatSpec == FormatInit /\ [][FormatNext]_formatVars

-----------------------------------------------------------------------------
\* No client is locked out by its clock: an operation the rules of the board
\* allow is never refused because the board it leaves cannot be parsed, from
\* whatever board of whatever version things began.
NoneLockedOut == ~rejected
=============================================================================
