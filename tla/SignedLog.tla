----------------------------- MODULE SignedLog -----------------------------
(***************************************************************************)
(* The replay of the signed operation log a board was kept in before it    *)
(* was sharded: verifyAndReplayOperationLog of core/src/operations.ts.     *)
(* Identities, signatures, timestamps and capabilities are left out: an    *)
(* operation is its kind, its signer, the key it is about and its         *)
(* identity, and its predecessor is the one before it.  What a mutation    *)
(* does to the board is BoardRules; here all of them are "edit".           *)
(***************************************************************************)
EXTENDS Naturals, Sequences, FiniteSets

CONSTANTS Root,       \* anchor.rootKeyId
          Keys        \* the other keys that may appear

ASSUME KeysAssumption == Root \notin Keys /\ IsFiniteSet(Keys)

AllKeys == Keys \cup {Root}
Kinds   == {"initialize", "edit", "delegate", "revoke", "delete"}

\* What the replay carries: the authorities, by parent, and what became of them.
Fresh == [ok |-> TRUE, authorities |-> {Root}, parent |-> [k \in Keys |-> Root],
          revoked |-> {}, deleted |-> FALSE, begun |-> FALSE]

\* Faulty: what the target delegated stays in force.
TargetOnly(state, target) == {target}

\* descendantsOf: the target and every authority that stems from it.  A pass of
\* its loop adds the children of what is there, and a pass that adds nothing
\* changes nothing.
DescendantsOf(state, target) ==
    LET found[n \in 0..Cardinality(Keys)] ==
            IF n = 0 THEN {target}
            ELSE found[n - 1] \cup {k \in state.authorities \ {Root} : state.parent[k] \in found[n - 1]}
    IN  found[Cardinality(Keys)]

Refuse(state) == [state EXCEPT !.ok = FALSE]

\* What the loop throws on; a revoked authority still signs.
Refused(state, op) ==
    \/ op.by \notin state.authorities
    \/ ~state.begun /\ (op.kind # "initialize" \/ op.by # Root)
    \/ state.begun /\ op.kind = "initialize"
    \/ state.deleted
    \/ op.kind = "delegate" /\ op.key \in state.authorities
    \/ op.kind = "revoke" /\ op.key \notin state.authorities \ ({Root} \cup state.revoked)

\* One turn of the loop; after a refusal nothing more is looked at.
Verify(state, op) ==
    IF ~state.ok \/ Refused(state, op) THEN Refuse(state)
    ELSE CASE op.kind = "initialize" -> [state EXCEPT !.begun = TRUE]
           [] op.kind = "delegate"   -> [state EXCEPT !.authorities = @ \cup {op.key},
                                                      !.parent[op.key] = op.by]
           [] op.kind = "revoke"     -> [state EXCEPT !.revoked = @ \cup DescendantsOf(state, op.key)]
           [] op.kind = "delete"     -> [state EXCEPT !.deleted = TRUE]
           [] OTHER                  -> state

Replay(log) ==
    LET verified[n \in 0..Len(log)] ==
            IF n = 0 THEN Fresh ELSE Verify(verified[n - 1], log[n])
    IN  verified[Len(log)]

\* remembered is the previously accepted head, or 0 for none.
Accepted(log, remembered) == /\ log # << >>
                             /\ Replay(log).ok
                             /\ remembered = 0 \/ \E i \in DOMAIN log : log[i].id = remembered
=============================================================================
