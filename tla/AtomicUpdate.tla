---------------------------- MODULE AtomicUpdate ----------------------------
(***************************************************************************)
(* What updateMeta (packages/agent-runtime/src/store.ts) promises to its   *)
(* callers: each update of an agent's record is one atomic step that is    *)
(* applied on top of every update committed before it, until the agent's   *)
(* directory is removed; nothing brings a removed record back.             *)
(***************************************************************************)

CONSTANT Updates        \* the updates that may be applied, each at most once

VARIABLES meta,         \* the updates the durable record reflects
          dirExists     \* the agent's directory is there

vars == <<meta, dirExists>>

Init == meta = {} /\ dirExists = TRUE

Apply(u) == /\ dirExists
            /\ u \notin meta
            /\ meta' = meta \cup {u}
            /\ UNCHANGED dirExists

Remove == /\ dirExists
          /\ dirExists' = FALSE
          /\ meta' = {}

Next == Remove \/ \E u \in Updates : Apply(u)

Spec == Init /\ [][Next]_vars
=============================================================================
