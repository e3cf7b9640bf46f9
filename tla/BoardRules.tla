----------------------------- MODULE BoardRules -----------------------------
(***************************************************************************)
(* What one operation does to a board: packages/core/src/operations.ts     *)
(* (applyBoardMutation) and the review rules of packages/core/src/model.ts.*)
(* The sharded store applies it to the bundle it read, the verified replay *)
(* of a signed log applies it to every operation of the log.               *)
(*                                                                         *)
(* A board is [issues, queue, deleted]: "issues" maps the identifier of    *)
(* each existing issue to its record, "queue" is the sequence of open      *)
(* identifiers.  A title travels exactly as the state does and is left out;*)
(* a message is the identifier and the time of the operation that wrote    *)
(* it.  An operation is [id, kind, number, at, body, review, numbers]:     *)
(* "body" is read by create and edit, "review" ([commit, verdict]) by      *)
(* review.record and "numbers" by queue.reorder.                           *)
(***************************************************************************)
EXTENDS Naturals, Sequences, SequencesExt

\* The commit id a verdict that names no commit carries.
Unnamed == ""

NoReview == [commit |-> Unnamed, verdict |-> "none"]

\* Only a request-changes verdict blocks the completion of an issue.
ReviewBlocksCompletion(issue) == issue.review.verdict = "request-changes"

\* An approval may follow outstanding blocks only by naming a commit no block
\* on the issue has named.
ReviewMayReplace(issue, next) ==
    \/ next.verdict # "approve"
    \/ issue.blocks = {}
    \/ next.commit # Unnamed /\ next.commit \notin issue.blocks

\* A block adds its commit; an approval that names a commit drops the block
\* that named none.
OutstandingBlocksAfter(issue, next) ==
    IF next.verdict = "request-changes"
    THEN issue.blocks \union {next.commit}
    ELSE {c \in issue.blocks : c # next.commit
                                /\ ~(c = Unnamed /\ next.commit # Unnamed)}

-----------------------------------------------------------------------------
NewIssue(op) ==
    [state |-> "open", body |-> op.body, createdAt |-> op.at, updatedAt |-> op.at,
     comments |-> << >>, review |-> NoReview, blocks |-> {}]

OpenIssues(board) ==
    {i \in DOMAIN board.issues : board.issues[i].state = "open"}

\* Queue reorder must contain every open issue exactly once.
ExactOpenIssueQueue(board, numbers) ==
    /\ ToSet(numbers) = OpenIssues(board)
    /\ IsInjective(numbers)

\* The refusals of applyBoardMutation: the operation is rejected unless this.
Applicable(op, board) ==
    LET exists == op.number \in DOMAIN board.issues
        issue  == board.issues[op.number]
    IN  CASE op.kind = "create"  -> ~exists
          [] op.kind = "edit"    -> exists /\ issue.state # "closed"
          [] op.kind = "close"   -> exists /\ ~ReviewBlocksCompletion(issue)
          [] op.kind \in {"comment", "reopen", "delete"} -> exists
          [] op.kind = "review"  -> exists /\ issue.state = "open"
                                           /\ ReviewMayReplace(issue, op.review)
          [] op.kind = "reorder" -> ExactOpenIssueQueue(board, op.numbers)
          [] OTHER               -> TRUE

\* The touched issue after an operation on it.
IssueAfter(op, issue) ==
    LET touched == [issue EXCEPT !.updatedAt = op.at]
    IN  CASE op.kind = "edit"    -> [touched EXCEPT !.body = op.body]
          [] op.kind = "comment" -> [touched EXCEPT !.comments =
                                       Append(@, [id |-> op.id, at |-> op.at])]
          [] op.kind = "close"   -> [touched EXCEPT !.state = "closed"]
          [] op.kind = "reopen"  -> [touched EXCEPT !.state = "open"]
          [] op.kind = "review"  -> [touched EXCEPT
                                       !.review = op.review,
                                       !.blocks = OutstandingBlocksAfter(issue, op.review)]

IssuesAfter(op, issues) ==
    CASE op.kind = "create" ->
           [i \in DOMAIN issues \union {op.number} |->
               IF i = op.number THEN NewIssue(op) ELSE issues[i]]
      [] op.kind \in {"edit", "comment", "close", "reopen", "review"} ->
           [issues EXCEPT ![op.number] = IssueAfter(op, @)]
      [] op.kind = "delete" ->
           [i \in DOMAIN issues \ {op.number} |-> issues[i]]
      [] OTHER -> issues

\* The entries of a sequence that are in a set, in their order (what SelectSeq
\* selects, in a form the proofs can expand).
OnlyIn(s, S) ==
    LET kept[i \in 0..Len(s)] ==
            IF i = 0 THEN << >>
            ELSE IF s[i] \in S THEN Append(kept[i - 1], s[i]) ELSE kept[i - 1]
    IN  kept[Len(s)]

Without(queue, number) == OnlyIn(queue, ToSet(queue) \ {number})

QueueAfter(op, queue) ==
    CASE op.kind = "create" -> Append(queue, op.number)
      [] op.kind \in {"close", "delete"} -> Without(queue, op.number)
      [] op.kind = "reopen" -> IF op.number \in ToSet(queue) THEN queue
                               ELSE Append(queue, op.number)
      [] op.kind = "reorder" -> op.numbers
      [] OTHER -> queue

ApplyBoardMutation(op, board) ==
    [issues  |-> IssuesAfter(op, board.issues),
     queue   |-> QueueAfter(op, board.queue),
     deleted |-> board.deleted \/ op.kind = "boardDelete"]

-----------------------------------------------------------------------------
FeedKind == [create |-> "issue-created", edit |-> "issue-edited",
             comment |-> "comment-added", close |-> "issue-closed",
             reopen |-> "issue-reopened", delete |-> "issue-deleted"]

\* The feed entry of an operation: the issue as the operation left it, or as
\* it was before it was deleted.
FeedEntry(op, before, after, position) ==
    [id |-> op.id, kind |-> FeedKind[op.kind], at |-> op.at,
     position |-> position, number |-> op.number,
     state |-> IF op.number \in DOMAIN after.issues
               THEN after.issues[op.number].state
               ELSE before.issues[op.number].state]

FeedAfter(op, before, after, entries) ==
    IF op.kind \in DOMAIN FeedKind
    THEN Append(entries, FeedEntry(op, before, after, Len(entries)))
    ELSE entries

-----------------------------------------------------------------------------
\* The queue holds exactly the open issues, each once.
QueueIsOpen(board) == ExactOpenIssueQueue(board, board.queue)
=============================================================================
