------------------------------ MODULE BoardLog ------------------------------
(***************************************************************************)
(* What the board promises its clients, whatever holds it: one log of      *)
(* operations that only grows, at its end, by operations the board accepts,*)
(* each call at most once and in time order, and a board and a feed that   *)
(* are what those operations make of the board the log began with.         *)
(***************************************************************************)
EXTENDS BoardRules

VARIABLES log,      \* the committed operations
          board,    \* the board a client reads
          feed      \* the feed a client reads, oldest entry first

Init ==
    /\ log = << >>
    /\ feed = << >>
    /\ QueueIsOpen(board)
    /\ ~board.deleted

Commit ==
    /\ Len(log') = Len(log) + 1
    /\ SubSeq(log', 1, Len(log)) = log
    /\ LET op == log'[Len(log) + 1]
       IN  /\ ~board.deleted
           /\ Applicable(op, board)
           /\ \A i \in DOMAIN log : log[i].id # op.id /\ log[i].at <= op.at
           /\ board' = ApplyBoardMutation(op, board)
           /\ feed' = FeedAfter(op, board, board', feed)

Next == Commit

Spec == Init /\ [][Next]_<<log, board, feed>>
=============================================================================
