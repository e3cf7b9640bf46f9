---------------------------- MODULE MCBoardStore ----------------------------
(* Instances of BoardStore for TLC. *)
EXTENDS BoardStore, TLC

CONSTANTS w1, w2

Issue(i) == [state |-> "open", body |-> "", createdAt |-> 1, updatedAt |-> 1,
             comments |-> << >>, review |-> NoReview, blocks |-> {}]

\* Two open issues, the second one first in the queue.
TwoIssues == [issues |-> [i \in 1..2 |-> Issue(i)], queue |-> <<2, 1>>, deleted |-> FALSE]

Request(kind, number, compact) ==
    [kind |-> kind, number |-> number, compact |-> compact,
     body |-> "", review |-> NoReview, numbers |-> << >>]

Read    == Request("read", 0, FALSE)
Import  == Request("import", 0, FALSE)
Block   == [Request("review", 1, TRUE) EXCEPT
               !.review = [commit |-> "a", verdict |-> "request-changes"]]
Reorder == [Request("reorder", 0, FALSE) EXCEPT !.numbers = <<1, 2>>]

\* One client closes, reopens and comments on the first issue, through the
\* compact and the full path; the other reads, imports, or changes the board in
\* every other way, a block that the close has to respect among them.
MCRequests ==
    (w1 :> << {Request("close", 1, TRUE), Request("comment", 1, TRUE)},
              {Request("reopen", 1, FALSE), Request("comment", 1, TRUE)} >>)
 @@ (w2 :> << {Read, Import, Block, Reorder, Request("create", 3, TRUE),
               Request("delete", 2, TRUE)} >>)

MCCalls == (w1 :> 2) @@ (w2 :> 1)
=============================================================================
