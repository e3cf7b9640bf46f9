----------------------------- MODULE LogReplay -----------------------------
(***************************************************************************)
(* The replay of SignedLog against the rule it enforces, stated of a log   *)
(* as a whole.  A log grows by any operation there can be for as long as   *)
(* it replays.                                                             *)
(***************************************************************************)
EXTENDS SignedLog

CONSTANT MaxHistory    \* bound: operations of a log

ASSUME HistoryAssumption == MaxHistory \in Nat

VARIABLE history

LogInit == history = << >>

LogNext == /\ Len(history) < MaxHistory
           /\ Replay(history).ok
           /\ \E kind \in Kinds, by \in AllKeys :
              \E key \in CASE kind = "delegate" -> Keys [] kind = "revoke" -> AllKeys [] OTHER -> {Root} :
                  history' = Append(history, [kind |-> kind, by |-> by, key |-> key, id |-> 0])

LogSpec == LogInit /\ [][LogNext]_history

-----------------------------------------------------------------------------
\* Among the first n operations.
Delegated(k, n) == \E i \in 1..n : history[i].kind = "delegate" /\ history[i].key = k
Authority(k, n) == k = Root \/ Delegated(k, n)

\* The keys that stem from one: the least set that holds it and every key
\* delegated by a key of the set.
Stems(k, from, n) ==
    \A S \in SUBSET AllKeys :
        /\ from \in S
        /\ \A i \in 1..n : history[i].kind = "delegate" /\ history[i].by \in S => history[i].key \in S
        => k \in S

\* Revoked with a key it stemmed from at that time.
Revoked(k, n) == \E i \in 1..n : /\ history[i].kind = "revoke"
                                 /\ Authority(k, i)
                                 /\ Stems(k, history[i].key, i)

Lawful(n) == LET op == history[n]
             IN  /\ (n = 1) = (op.kind = "initialize")
                 /\ n = 1 => op.by = Root
                 /\ Authority(op.by, n - 1)
                 /\ \A i \in 1..n - 1 : history[i].kind # "delete"
                 /\ op.kind = "delegate" => ~Authority(op.key, n - 1)
                 /\ op.kind = "revoke" => /\ op.key # Root
                                          /\ Authority(op.key, n - 1)
                                          /\ ~Revoked(op.key, n - 1)

\* The replay accepts exactly the logs that begin with their initialization by
\* the root, whose every signer and target had been delegated before and not
\* twice, whose revocations reach all that stemmed from their target, and that
\* go on no further than a deletion.
ReplayIsTheRule == Accepted(history, 0) <=> history # << >> /\ \A n \in DOMAIN history : Lawful(n)
=============================================================================
