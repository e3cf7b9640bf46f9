------------------------- MODULE BoardReclaimProofs -------------------------
(***************************************************************************)
(* Theorems about the reclamation of superseded generations of the sharded *)
(* board, for any number of clients, calls, requests, attempts, faults and *)
(* page sizes, and any retention window: what is needed is never deleted,  *)
(* and what is not needed any more is not forgotten.                       *)
(***************************************************************************)
EXTENDS BoardStoreProofs

-----------------------------------------------------------------------------
(* The history of the published generations *)

\* What the generation of an appended operation is to the one it was derived
\* from.
Succeeds(next, meta) ==
  /\ PinnedRefs(next) \subseteq PinnedRefs(meta) \cup next.introducedRefs
  /\ next.supersededRefs \cap PinnedRefs(next) \subseteq next.introducedRefs
  /\ PinnedRefs(meta) \subseteq PinnedRefs(next) \cup next.supersededRefs
  /\ next.introducedRefs \subseteq PinnedRefs(next)
  /\ meta.updatedAt <= next.updatedAt
  /\ next.retainsMetaRef = {meta.log}
  /\ \E op : next.log = Append(meta.log, op) /\ next.updatedAt = op.at

\* A shard a generation pins is pinned since an earlier one, or was written on
\* the way.
Inherited(hist, m, n) ==
  \A x \in PinnedRefs(hist[n]) :
    x \in PinnedRefs(hist[m]) \/ \E j \in (m + 1)..n : x \in hist[j].introducedRefs

\* The generations of a published log, from the import of its first "cut"
\* operations on: hist[n] is that of n operations.
History(log, cut, hist) ==
  /\ Len(log) \in Nat /\ cut \in 0..Len(log)
  /\ hist[Len(log)].log = log
  /\ hist[cut] = Imported(hist[cut].log)
  /\ \A n \in cut..Len(log) : IsSeq(hist[n].log) /\ Len(hist[n].log) = n
  /\ \A n \in (cut + 1)..Len(log) :
       /\ Succeeds(hist[n], hist[n - 1])
       /\ hist[n].log = Append(hist[n - 1].log, log[n])
       /\ hist[n].updatedAt = log[n].at /\ log[n].at \in Nat
  /\ \A m \in (cut + 1)..Len(log) : \A n \in m..Len(log) : log[m].at <= log[n].at
  /\ \A m \in cut..Len(log) : \A n \in m..Len(log) : Inherited(hist, m, n)

\* An import replaces nothing.
LEMMA ImportedNothing ==
  ASSUME NEW log
  PROVE  /\ Imported(log).supersededRefs = {} /\ Imported(log).introducedRefs = {}
         /\ Imported(log).log = log /\ Imported(log).retainsMetaRef = {}
BY DEF Imported, FirstGeneration

\* Two sequences with one more element each that are one sequence.
LEMMA SameAppend ==
  ASSUME NEW s, NEW t, IsSeq(s), IsSeq(t), NEW a, NEW b, Append(s, a) = Append(t, b)
  PROVE  s = t /\ a = b
<1>1. PICK u : u = Append(s, a)
  OBVIOUS
<1>2. /\ Len(s) \in Nat /\ Len(u) = Len(s) + 1 /\ u[Len(s) + 1] = a
      /\ \A i \in 1..Len(s) : u[i] = s[i]
  BY <1>1, AppendFacts, SeqFacts
<1>3. /\ Len(t) \in Nat /\ Len(u) = Len(t) + 1 /\ u[Len(t) + 1] = b
      /\ \A i \in 1..Len(t) : u[i] = t[i]
  BY <1>1, AppendFacts, SeqFacts
<1>4. Len(s) = Len(t) /\ a = b
  BY <1>2, <1>3
<1>5. \A i \in 1..Len(s) : s[i] = t[i]
  BY <1>2, <1>3, <1>4
<1>. QED BY <1>4, <1>5, SameSeq

\* The history of a log that was only imported.
LEMMA HistoryBegins ==
  ASSUME NEW log, IsSeq(log), NEW hist, hist[Len(log)] = Imported(log)
  PROVE  History(log, Len(log), hist)
<1>1. PICK N \in Nat : N = Len(log)
  BY SeqFacts
<1>2. hist[N].log = log
  BY <1>1, ImportedLog
<1>3. \A n \in N..N : n = N
  OBVIOUS
<1>4. \A n \in (N + 1)..N : FALSE
  OBVIOUS
<1>5. Inherited(hist, N, N)
  BY DEF Inherited
<1>. QED BY <1>1, <1>2, <1>3, <1>4, <1>5 DEF History

\* commitPointer: the history of a log goes on with the generation that is
\* published.
LEMMA HistoryGrows ==
  ASSUME NEW log, NEW cut, NEW hist, IsSeq(log), History(log, cut, hist), NEW op,
         NEW next, Succeeds(next, hist[Len(log)]), next.log = Append(log, op),
         next.updatedAt \in Nat, \A i \in 1..Len(log) : log[i].at <= next.updatedAt,
         NEW hist2, hist2[Len(log) + 1] = next,
         \A n \in cut..Len(log) : hist2[n] = hist[n]
  PROVE  History(Append(log, op), cut, hist2)
<1>1. PICK N \in Nat : N = Len(log)
  BY SeqFacts
<1>2. PICK more : more = Append(log, op)
  OBVIOUS
<1>3. /\ IsSeq(more) /\ Len(more) = N + 1 /\ more[N + 1] = op
      /\ \A i \in 1..N : more[i] = log[i]
  BY <1>1, <1>2, AppendFacts
<1>4. /\ cut \in 0..N /\ hist[N].log = log /\ hist[cut] = Imported(hist[cut].log)
      /\ \A n \in cut..N : IsSeq(hist[n].log) /\ Len(hist[n].log) = n
      /\ \A n \in (cut + 1)..N :
           /\ Succeeds(hist[n], hist[n - 1])
           /\ hist[n].log = Append(hist[n - 1].log, log[n])
           /\ hist[n].updatedAt = log[n].at /\ log[n].at \in Nat
      /\ \A m \in (cut + 1)..N : \A n \in m..N : log[m].at <= log[n].at
      /\ \A m \in cut..N : \A n \in m..N : Inherited(hist, m, n)
  BY <1>1 DEF History
<1>5. hist2[N + 1] = next /\ next.log = more /\ \A n \in cut..N : hist2[n] = hist[n]
  BY <1>1, <1>2
<1>6. op.at = next.updatedAt
  <2>1. PICK o : next.log = Append(hist[N].log, o) /\ next.updatedAt = o.at
    BY <1>1 DEF Succeeds
  <2>2. Append(log, o) = Append(log, op)
    BY <1>4, <2>1
  <2>3. o = op
    BY <2>2, SameAppend
  <2>. QED BY <2>1, <2>3
<1>7. ASSUME NEW n \in (cut + 1)..(N + 1)
      PROVE  /\ Succeeds(hist2[n], hist2[n - 1])
             /\ hist2[n].log = Append(hist2[n - 1].log, more[n])
             /\ hist2[n].updatedAt = more[n].at /\ more[n].at \in Nat
  <2>1. CASE n = N + 1
    <3>1. n - 1 = N /\ N \in cut..N BY <1>4, <2>1
    <3>2. hist2[n] = next /\ hist2[n - 1] = hist[N] BY <1>5, <2>1, <3>1
    <3>3. Succeeds(next, hist[N]) BY <1>1
    <3>. QED BY <1>2, <1>3, <1>4, <1>6, <2>1, <3>2, <3>3
  <2>2. CASE n # N + 1
    <3>1. n \in (cut + 1)..N /\ n \in cut..N /\ n - 1 \in cut..N /\ n \in 1..N BY <1>4, <2>2
    <3>2. hist2[n] = hist[n] /\ hist2[n - 1] = hist[n - 1] /\ more[n] = log[n] BY <1>3, <1>5, <3>1
    <3>. QED BY <1>4, <3>1, <3>2
  <2>. QED BY <2>1, <2>2
<1>8. ASSUME NEW n \in cut..(N + 1) PROVE IsSeq(hist2[n].log) /\ Len(hist2[n].log) = n
  <2>1. CASE n = N + 1 BY <1>3, <1>5, <2>1
  <2>2. CASE n # N + 1
    <3>1. n \in cut..N BY <1>4, <2>2
    <3>. QED BY <1>4, <1>5, <3>1
  <2>. QED BY <2>1, <2>2
<1>9. ASSUME NEW m \in (cut + 1)..(N + 1), NEW n \in m..(N + 1)
      PROVE  more[m].at <= more[n].at
  <2>1. CASE n = N + 1
    <3>1. CASE m = N + 1
      BY <1>3, <1>6, <2>1, <3>1
    <3>2. CASE m # N + 1
      <4>1. m \in 1..N BY <1>4, <3>2
      <4>. QED BY <1>1, <1>3, <1>6, <2>1, <4>1
    <3>. QED BY <3>1, <3>2
  <2>2. CASE n # N + 1
    <3>1. m \in (cut + 1)..N /\ n \in m..N /\ m \in 1..N /\ n \in 1..N BY <1>4, <2>2
    <3>. QED BY <1>3, <1>4, <3>1
  <2>. QED BY <2>1, <2>2
<1>10. ASSUME NEW m \in cut..(N + 1), NEW n \in m..(N + 1)
       PROVE  Inherited(hist2, m, n)
  <2>1. CASE m = N + 1
    <3>1. n = m BY <2>1
    <3>. QED BY <3>1 DEF Inherited
  <2>2. CASE m # N + 1 /\ n = N + 1
    <3>1. m \in cut..N /\ N \in m..N /\ N \in cut..N BY <1>4, <2>2
    <3>2. hist2[m] = hist[m] /\ hist2[n] = next BY <1>5, <2>2, <3>1
    <3>3. ASSUME NEW x \in PinnedRefs(next)
          PROVE  x \in PinnedRefs(hist[m]) \/ \E j \in (m + 1)..n : x \in hist2[j].introducedRefs
      <4>1. x \in PinnedRefs(hist[N]) \/ x \in next.introducedRefs BY <1>1, <3>3 DEF Succeeds
      <4>2. CASE x \in next.introducedRefs
        <5>1. n \in (m + 1)..n BY <2>2, <3>1
        <5>. QED BY <3>2, <4>2, <5>1
      <4>3. CASE x \in PinnedRefs(hist[N])
        <5>1. Inherited(hist, m, N) BY <1>4, <3>1
        <5>2. x \in PinnedRefs(hist[m]) \/ \E j \in (m + 1)..N : x \in hist[j].introducedRefs
          BY <4>3, <5>1 DEF Inherited
        <5>3. ASSUME NEW j \in (m + 1)..N PROVE j \in (m + 1)..n /\ hist2[j] = hist[j]
          <6>1. j \in cut..N BY <1>4, <3>1
          <6>. QED BY <1>5, <2>2, <6>1
        <5>. QED BY <5>2, <5>3
      <4>. QED BY <4>1, <4>2, <4>3
    <3>. QED BY <3>2, <3>3 DEF Inherited
  <2>3. CASE m # N + 1 /\ n # N + 1
    <3>1. m \in cut..N /\ n \in m..N /\ n \in cut..N BY <1>4, <2>3
    <3>2. hist2[m] = hist[m] /\ hist2[n] = hist[n] BY <1>5, <3>1
    <3>3. Inherited(hist, m, n) BY <1>4, <3>1
    <3>4. \A j \in (m + 1)..n : hist2[j] = hist[j]
      <4>1. \A j \in (m + 1)..n : j \in cut..N BY <1>4, <3>1
      <4>. QED BY <1>5, <4>1
    <3>. QED BY <3>2, <3>3, <3>4 DEF Inherited
  <2>. QED BY <2>1, <2>2, <2>3
<1>11. hist2[cut] = Imported(hist2[cut].log)
  <2>1. cut \in cut..N BY <1>4
  <2>. QED BY <1>4, <1>5, <2>1
<1>12. cut \in 0..(N + 1) /\ hist2[N + 1].log = more
  BY <1>4, <1>5
<1>13. /\ \A n \in cut..Len(more) : IsSeq(hist2[n].log) /\ Len(hist2[n].log) = n
       /\ \A m \in (cut + 1)..Len(more) : \A n \in m..Len(more) : more[m].at <= more[n].at
       /\ \A m \in cut..Len(more) : \A n \in m..Len(more) : Inherited(hist2, m, n)
  BY <1>3, <1>8, <1>9, <1>10
<1>14. \A n \in (cut + 1)..Len(more) :
         /\ Succeeds(hist2[n], hist2[n - 1])
         /\ hist2[n].log = Append(hist2[n - 1].log, more[n])
         /\ hist2[n].updatedAt = more[n].at /\ more[n].at \in Nat
  BY <1>3, <1>7
<1>15. Len(more) \in Nat /\ cut \in 0..Len(more) /\ hist2[Len(more)].log = more
  BY <1>3, <1>12
<1>16. History(more, cut, hist2)
  BY <1>11, <1>13, <1>14, <1>15, Zenon DEF History
<1>. QED BY <1>2, <1>16

\* appendInternal: what a client derives from the generation it holds succeeds
\* that generation.
LEMMA DraftSucceeds ==
  ASSUME LogInv, NEW c \in Clients, pc[c] = "bundle", ~held[c].deleted,
         Applicable(OperationOf(c), BoardOf(CardsOf(c), held[c]))
  PROVE  Succeeds(NextGeneration(OperationOf(c), held[c], CardsOf(c)), held[c])
<1>1. PICK op : op = OperationOf(c)
  OBVIOUS
<1>2. PICK meta : meta = held[c]
  OBVIOUS
<1>3. PICK cards : cards = CardsOf(c)
  OBVIOUS
<1>4. PICK made : made = NextGeneration(op, meta, cards)
  OBVIOUS
<1>5. Generation(meta) /\ Accepts(meta.log, op)
  BY <1>1, <1>2, Drafts DEF LogInv, Course, Derives
<1>6. PICK closedAt : Represents(meta, Replay(meta.log).board, Replay(meta.log).feed, closedAt)
  BY <1>5 DEF Generation
<1>7. PICK board : board = Replay(meta.log).board
  OBVIOUS
<1>8. PICK feed : feed = Replay(meta.log).feed
  OBVIOUS
<1>9. Represents(meta, board, feed, closedAt)
  BY <1>6, <1>7, <1>8
<1>10. Held(cards, CardsAre(board.issues, closedAt), op.kind, op.number)
  BY <1>1, <1>2, <1>3, <1>9, ReadHeld
<1>11. IsOperation(op) /\ Applicable(op, BoardOf(cards, meta))
  BY <1>1, <1>2, <1>3, <1>5 DEF Accepts
<1>12. /\ PinnedRefs(made) \subseteq PinnedRefs(meta) \cup made.introducedRefs
       /\ made.supersededRefs \cap PinnedRefs(made) \subseteq made.introducedRefs
       /\ PinnedRefs(meta) \subseteq PinnedRefs(made) \cup made.supersededRefs
       /\ made.introducedRefs \subseteq PinnedRefs(made)
       /\ made.retainsMetaRef = {meta.log} /\ made.updatedAt = op.at
  BY <1>4, <1>9, <1>10, <1>11, Inherits
<1>13. made.log = Append(meta.log, op)
  BY <1>4, NextLog
<1>15. meta.updatedAt <= made.updatedAt
  <2>1. op.at = Larger(now, meta.updatedAt) BY <1>1, <1>2 DEF OperationOf
  <2>2. now \in Nat /\ meta.updatedAt \in Nat BY <1>5 DEF LogInv, PointerIs, Generation
  <2>. QED BY <1>12, <2>1, <2>2 DEF Larger
<1>14. Succeeds(made, meta)
  BY <1>12, <1>13, <1>15, Zenon DEF Succeeds
<1>. QED BY <1>1, <1>2, <1>3, <1>4, <1>14

\* An import works on a log of the old format, and drafts what it makes.
Importing(c) ==
  pc[c] \in {"legacy"} \cup Drafting /\ Imports(c) =>
    /\ base[c].format = "legacy"
    /\ pc[c] \in Drafting => draft[c] = Imported(base[c].log)
    /\ pc[c] = "commit" /\ pointer.format = "legacy" => PinnedRefs(draft[c]) \subseteq shards

\* Every shard of an append that has posted them is stored, or was taken.
Filled(c) ==
  pc[c] \in {"describe", "commit"} /\ ~Imports(c)
    => draft[c].introducedRefs \subseteq shards \cup lost

\* The meta a client may still publish is stored as it drafted it.
Ready(c) == pc[c] = "commit" /\ pointer = base[c] => metas[draft[c].log] = draft[c]

\* Where a client stands in the history of the published log: the generation it
\* resolved, holds, writes after or sweeps behind.
Stands(c, cut, top, hist) ==
  /\ pc[c] \in {"meta", "bundle"} \cup Drafting /\ ~Imports(c) =>
       /\ Len(base[c].log) \in cut..top
       /\ base[c].log = hist[Len(base[c].log)].log
  /\ pc[c] \in {"legacy"} \cup Drafting /\ Imports(c) => Len(base[c].log) <= cut
  /\ pc[c] = "bundle" => held[c] = hist[Len(base[c].log)]
  /\ pc[c] \in Drafting /\ ~Imports(c) => Succeeds(draft[c], hist[Len(base[c].log)])
  /\ pc[c] = "sweep" =>
       \E k \in (cut + 1)..top :
         /\ draft[c] = hist[k]
         /\ \/ cursor[c] = {}
            \/ \E m \in cut..(k - 1) :
                 /\ cursor[c] = {hist[m].log}
                 /\ \A j \in (m + 1)..k : hist[j].introducedRefs \subseteq again[c]

\* A generation is within the retention window until its successor leaves it.
Within(n) == n = Len(pointer.log) \/ now < pointer.log[n + 1].at + Window

\* Somebody may still read a generation: it is the import, its meta is stored,
\* or a reader holds it.
Reachable(n, cut, hist) ==
  \/ n = cut
  \/ hist[n].log \in DOMAIN metas
  \/ \E c \in Clients : pc[c] = "bundle" /\ Len(base[c].log) = n

\* Reclamation spares what can still be read within the window.
Spared(cut, top, hist) ==
  \A n \in cut..top :
    Within(n) /\ Reachable(n, cut, hist) => PinnedRefs(hist[n]) \subseteq shards \cup lost

\* What is stored under a log of the history is its generation.
StoredAre(cut, top, hist) ==
  \A n \in cut..top : hist[n].log \in DOMAIN metas => metas[hist[n].log] = hist[n]

Tells(cut, top, hist) ==
  /\ top = Len(pointer.log)
  /\ History(pointer.log, cut, hist)
  /\ StoredAre(cut, top, hist)
  /\ Spared(cut, top, hist)
  /\ \A c \in Clients : Stands(c, cut, top, hist)

ReclaimInv ==
  /\ LogInv
  /\ \A c \in Clients : Importing(c) /\ Filled(c) /\ Ready(c)
  /\ pointer.format = "compact" => \E cut, top, hist : Tells(cut, top, hist)

-----------------------------------------------------------------------------
(* What a step does to the stored shards *)

\* One generation of a sweep: it takes what the generation replaced, but for
\* what the sweep has seen put back, and the meta.
Swept(c, log, targets) ==
  /\ pc[c] = "sweep" /\ log \in cursor[c] /\ log \in DOMAIN metas
  /\ OutsideRetentionWindow(metas[log])
  /\ targets = metas[log].supersededRefs \ again[c]
  /\ shards' = shards \ targets
  /\ metas' = [l \in DOMAIN metas \ {log} |-> metas[l]]
  /\ lost' = lost \cup Taken(c, metas[log], targets)

\* A client posts the shards of its draft.
PostedBy(c) ==
  /\ pc[c] = "post" /\ pc'[c] = "describe" /\ draft'[c] = draft[c]
  /\ shards' = shards \cup Posted(draft[c])
  /\ lost' = lost \ Posted(draft[c])

\* A step of a client posts its shards, sweeps, or leaves the stored shards.
LEMMA OwnShards ==
  ASSUME Shape, NEW c \in Clients, Steps(c)
  PROVE  \/ UNCHANGED <<shards, lost>>
         \/ PostedBy(c)
         \/ \E log, targets : Swept(c, log, targets)
<1>1. CASE PostShards(c)
  <2>1. pc'[c] = "describe" BY <1>1 DEF Shape, PostShards, Goto
  <2>. QED BY <1>1, <2>1 DEF PostShards, PostedBy
<1>2. CASE Sweep(c) \/ SweepRefused(c)
  <2>1. PICK refused \in BOOLEAN : SweepGeneration(c, refused)
    BY <1>2 DEF Sweep, SweepRefused
  <2>2. PICK log \in cursor[c] :
          \/ UNCHANGED <<shards, lost>>
          \/ /\ log \in DOMAIN metas /\ OutsideRetentionWindow(metas[log])
             /\ shards' = shards \ (metas[log].supersededRefs \ again[c])
             /\ metas' = [l \in DOMAIN metas \ {log} |-> metas[l]]
             /\ lost' = lost \cup Taken(c, metas[log], metas[log].supersededRefs \ again[c])
    BY <2>1 DEF SweepGeneration
  <2>3. PICK targets : targets = metas[log].supersededRefs \ again[c]
    OBVIOUS
  <2>4. pc[c] = "sweep" BY <2>1 DEF SweepGeneration
  <2>5. CASE /\ log \in DOMAIN metas /\ OutsideRetentionWindow(metas[log])
             /\ shards' = shards \ (metas[log].supersededRefs \ again[c])
             /\ metas' = [l \in DOMAIN metas \ {log} |-> metas[l]]
             /\ lost' = lost \cup Taken(c, metas[log], metas[log].supersededRefs \ again[c])
    <3>1. Swept(c, log, targets)
      BY <2>3, <2>4, <2>5 DEF Swept
    <3>. QED BY <3>1
  <2>. QED BY <2>2, <2>5
<1>3. ASSUME Steps(c), ~(PostShards(c) \/ Sweep(c) \/ SweepRefused(c))
      PROVE  UNCHANGED <<shards, lost>>
  BY <1>3 DEF Steps, Call, ReadPointer, ReadMeta, ReadBundle, ReadLegacy, PostMeta,
              Commit, CommitUnanswered, SweepEnds, Crash, object
<1>. QED BY <1>1, <1>2, <1>3

\* What is stored or taken is so after any step, but for what a sweep takes and
\* may take.
LEMMA ShardsStay ==
  ASSUME Shape, [Next]_vars, NEW x, x \in shards \cup lost,
         \A c \in Clients : \A log, targets :
            Swept(c, log, targets) /\ x \in targets => x \in Taken(c, metas[log], targets)
  PROVE  x \in shards' \cup lost'
<1>1. ASSUME NEW c \in Clients, Steps(c) PROVE x \in shards' \cup lost'
  <2>1. CASE UNCHANGED <<shards, lost>> BY <2>1
  <2>2. CASE PostedBy(c) BY <2>2 DEF PostedBy
  <2>3. ASSUME NEW log, NEW targets, Swept(c, log, targets) PROVE x \in shards' \cup lost'
    <3>1. shards' = shards \ targets /\ lost' = lost \cup Taken(c, metas[log], targets)
      BY <2>3 DEF Swept
    <3>. QED BY <2>3, <3>1
  <2>. QED BY <1>1, <2>1, <2>2, <2>3, OwnShards
<1>2. CASE LegacyAppend \/ Tick \/ UNCHANGED vars
  BY <1>2 DEF LegacyAppend, Tick, vars, object
<1>. QED BY <1>1, <1>2 DEF Next, Steps

\* What a client has posted is stored or was taken, whatever step another takes.
LEMMA FilledStays ==
  ASSUME Shape, [Next]_vars, NEW d \in Clients, Filled(d),
         pc'[d] = pc[d], call'[d] = call[d], draft'[d] = draft[d]
  PROVE  Filled(d)'
<1>. SUFFICES ASSUME pc[d] \in {"describe", "commit"}, ~Imports(d), NEW x \in draft[d].introducedRefs
              PROVE  x \in shards' \cup lost'
  BY DEF Filled, Imports
<1>1. x \in shards \cup lost
  BY DEF Filled
<1>2. ASSUME NEW c \in Clients, NEW log, NEW targets, Swept(c, log, targets), x \in targets
      PROVE  x \in Taken(c, metas[log], targets)
  <2>1. d \in Clients \ {c} /\ call[d].kind # "import"
    BY <1>2 DEF Swept, Imports
  <2>. QED BY <1>2, <2>1 DEF Taken
<1>. QED BY <1>1, <1>2, ShardsStay

\* The client that takes a step has its shards stored once it has posted them.
LEMMA OwnFilled ==
  ASSUME LogInv, NEW c \in Clients, Filled(c), Steps(c),
         pc[c] = "post" /\ ~Imports(c) => draft[c].retainsMetaRef # {}
  PROVE  Filled(c)'
<1>0. Shape /\ Alone(c) /\ [Next]_vars
  BY StepAlone DEF LogInv, AnswersInv, WorkInv, Next, Steps
<1>. SUFFICES ASSUME pc'[c] \in {"describe", "commit"}, ~Imports(c)'
              PROVE  draft'[c].introducedRefs \subseteq shards' \cup lost'
  BY DEF Filled
<1>1. CASE PostShards(c)
  <2>1. ~Imports(c) /\ pc[c] = "post" /\ draft'[c] = draft[c]
    BY <1>1 DEF PostShards, Imports
  <2>2. Posted(draft[c]) = draft[c].introducedRefs
    BY <2>1 DEF Posted
  <2>. QED BY <1>1, <2>1, <2>2 DEF PostShards
<1>2. CASE PostMeta(c)
  <2>1. /\ pc[c] = "describe" /\ shards' = shards /\ lost' = lost
    BY <1>2 DEF PostMeta
  <2>2. CASE Return(c, "failed")
    BY <1>0, <2>2 DEF Return, Shape
  <2>3. CASE UNCHANGED <<call, draft>>
    BY <2>1, <2>3 DEF Filled, Imports
  <2>. QED BY <1>2, <2>2, <2>3 DEF PostMeta
<1>3. CASE Call(c) \/ ReadPointer(c) \/ ReadMeta(c) \/ ReadBundle(c) \/ ReadLegacy(c)
  BY <1>0, <1>3 DEF Call, Resolve, Goto, Return, Shape, ReadPointer, ReadMeta, ReadBundle, ReadLegacy
<1>4. CASE Commit(c) \/ CommitUnanswered(c)
  BY <1>0, <1>4 DEF Goto, Return, Shape, Commit, CommitUnanswered
<1>5. CASE Sweep(c) \/ SweepRefused(c) \/ SweepEnds(c) \/ Crash(c)
  BY <1>0, <1>5 DEF Return, Shape, Sweep, SweepRefused, SweepGeneration, SweepEnds, Crash
<1>. QED BY <1>1, <1>2, <1>3, <1>4, <1>5 DEF Steps

\* What two clients describe under one log is one generation, when one of them
\* may still publish it.
LEMMA SameDraft ==
  ASSUME LogInv, \A e \in Clients : Importing(e), NEW c \in Clients, NEW d \in Clients,
         pc[c] = "describe", pc[d] = "commit", pointer = base[d], draft[c].log = draft[d].log
  PROVE  draft[c] = draft[d]
<1>0. /\ WorkInv /\ Working(c) /\ Working(d) /\ Behind(c) /\ Behind(d) /\ Importing(c) /\ Importing(d)
      /\ IsSeq(base[c].log) /\ IsSeq(base[d].log) /\ Len(pointer.log) \in Nat
      /\ pc[c] \in Drafting /\ pc[d] \in Drafting
  BY SeqFacts DEF LogInv, AnswersInv, WorkInv, Shape, Course, Working, LogOK, Resolved, Drafting
<1>1. Len(base[c].log) \in Nat /\ Len(base[d].log) \in Nat /\ Len(base[c].log) <= Len(base[d].log)
  BY <1>0, SeqFacts DEF Behind, Resolved
<1>2. CASE Imports(c) /\ Imports(d)
  BY <1>0, <1>2 DEF Working, Importing
<1>3. CASE Imports(c) /\ ~Imports(d)
  <2>1. PICK op : draft[d].log = Append(base[d].log, op)
    BY <1>0, <1>3 DEF Working
  <2>2. Len(draft[d].log) = Len(base[d].log) + 1
    BY <1>0, <2>1, AppendFacts
  <2>3. draft[c].log = base[c].log
    BY <1>0, <1>3 DEF Working
  <2>. QED BY <1>1, <2>2, <2>3
<1>4. CASE ~Imports(c) /\ Imports(d)
  <2>1. pointer.format = "compact"
    BY <1>0, <1>4 DEF Working, Drafting
  <2>2. base[d].format = "legacy"
    BY <1>0, <1>4 DEF Importing
  <2>. QED BY <2>1, <2>2
<1>5. CASE ~Imports(c) /\ ~Imports(d)
  <2>1. PICK a : a.id = Id(c) /\ draft[c].log = Append(base[c].log, a)
    BY <1>0, <1>5 DEF Working
  <2>2. PICK b : b.id = Id(d) /\ draft[d].log = Append(base[d].log, b)
    BY <1>0, <1>5 DEF Working
  <2>3. a = b
    <3>1. PICK s : s = base[c].log OBVIOUS
    <3>2. PICK t : t = base[d].log OBVIOUS
    <3>3. IsSeq(s) /\ IsSeq(t) /\ Append(s, a) = Append(t, b)
      BY <1>0, <2>1, <2>2, <3>1, <3>2
    <3>. QED BY <3>3, SameAppend
  <2>4. c = d
    BY <2>1, <2>2, <2>3 DEF Id
  <2>. QED BY <2>4
<1>. QED BY <1>2, <1>3, <1>4, <1>5

\* What a client may still publish stays as it described it, whatever step
\* another takes.
LEMMA ReadyStays ==
  ASSUME LogInv, [Next]_vars, \A e \in Clients : Importing(e), NEW d \in Clients, Ready(d),
         pc'[d] = pc[d], base'[d] = base[d], draft'[d] = draft[d]
  PROVE  Ready(d)'
<1>. SUFFICES ASSUME pc[d] = "commit", pointer' = base[d]
              PROVE  metas'[draft[d].log] = draft[d]
  BY DEF Ready
<1>0. WorkInv /\ Behind(d) /\ Described(d) /\ \A e \in Clients : Trails(e)
  BY DEF LogInv, AnswersInv, Course
<1>1. pc[d] \in Resolved /\ pc[d] \in Drafting
  BY DEF Resolved, Drafting
<1>2. pointer = base[d]
  BY <1>0, <1>1, SameBase
<1>3. draft[d].log \in DOMAIN metas /\ metas[draft[d].log] = draft[d]
  BY <1>0, <1>2 DEF Ready, Described
<1>4. Len(pointer.log) \in Nat /\ Len(draft[d].log) \in Nat /\ Len(pointer.log) <= Len(draft[d].log)
  BY <1>0, <1>1, <1>2, DraftLonger
<1>5. ASSUME NEW c \in Clients, pc[c] = "describe", metas' = Put(metas, draft[c].log, draft[c])
      PROVE  metas'[draft[d].log] = draft[d]
  <2>0. /\ DOMAIN metas' = DOMAIN metas \cup {draft[c].log}
        /\ \A n \in DOMAIN metas' : metas'[n] = IF n = draft[c].log THEN draft[c] ELSE metas[n]
    BY <1>5 DEF Put
  <2>1. CASE draft[c].log = draft[d].log
    <3>1. draft[c] = draft[d] BY <1>2, <1>5, <2>1, SameDraft
    <3>2. metas'[draft[c].log] = draft[c] BY <2>0
    <3>. QED BY <2>1, <3>1, <3>2
  <2>2. CASE draft[c].log # draft[d].log
    <3>1. metas'[draft[d].log] = metas[draft[d].log] BY <1>3, <2>0, <2>2
    <3>. QED BY <1>3, <3>1
  <2>. QED BY <2>1, <2>2
<1>6. ASSUME NEW c \in Clients, NEW log \in DOMAIN metas, pc[c] = "sweep", log \in cursor[c],
             metas' = [l \in DOMAIN metas \ {log} |-> metas[l]]
      PROVE  metas'[draft[d].log] = draft[d]
  <2>1. Len(log) \in Nat /\ Len(log) < Len(pointer.log)
    BY <1>0, <1>6 DEF Trails
  <2>2. draft[d].log # log
    BY <1>4, <2>1
  <2>. QED BY <1>3, <1>6, <2>2
<1>7. CASE UNCHANGED metas
  BY <1>3, <1>7
<1>. QED BY <1>5, <1>6, <1>7, MetasStep

\* The client that takes a step.
LEMMA OwnReady ==
  ASSUME LogInv, NEW c \in Clients, Steps(c)
  PROVE  Ready(c)'
<1>0. Shape
  BY DEF LogInv, AnswersInv, WorkInv
<1>1. CASE PostMeta(c)
  <2>1. metas' = Put(metas, draft[c].log, draft[c])
    BY <1>1 DEF PostMeta
  <2>2. metas'[draft[c].log] = draft[c]
    BY <2>1 DEF Put
  <2>3. CASE Return(c, "failed")
    <3>1. pc'[c] = "idle" BY <1>0, <2>3 DEF Return, Shape
    <3>. QED BY <3>1 DEF Ready
  <2>4. CASE draft' = draft
    BY <2>2, <2>4 DEF Ready
  <2>. QED BY <1>1, <2>3, <2>4 DEF PostMeta
<1>2. CASE ~PostMeta(c)
  <2>1. pc'[c] # "commit"
    BY <1>0, <1>2 DEF Steps, Call, Resolve, Goto, Return, Shape, ReadPointer, ReadMeta, ReadBundle, ReadLegacy,
         PostShards, Commit, CommitUnanswered, Sweep, SweepRefused, SweepGeneration, SweepEnds, Crash
  <2>. QED BY <2>1 DEF Ready
<1>. QED BY <1>1, <1>2

\* While the pointer is in the old format nobody sweeps.
LEMMA NoSweeps ==
  ASSUME WorkInv, [Next]_vars, pointer.format = "legacy"
  PROVE  shards \subseteq shards'
<1>1. ASSUME NEW c \in Clients, NEW log, NEW targets, Swept(c, log, targets) PROVE FALSE
  <2>1. pc[c] = "sweep" /\ Working(c) BY <1>1 DEF Swept, WorkInv
  <2>. QED BY <2>1 DEF Working
<1>2. ASSUME NEW c \in Clients, Steps(c) PROVE shards \subseteq shards'
  BY <1>1, <1>2, OwnShards DEF WorkInv, PostedBy
<1>3. CASE LegacyAppend \/ Tick \/ UNCHANGED vars
  BY <1>3 DEF LegacyAppend, Tick, vars, object
<1>. QED BY <1>2, <1>3 DEF Next, Steps

\* An import goes on as it was, whatever step another takes.
LEMMA ImportingStays ==
  ASSUME WorkInv, [Next]_vars, NEW d \in Clients, Importing(d),
         pc'[d] = pc[d], call'[d] = call[d], base'[d] = base[d], draft'[d] = draft[d]
  PROVE  Importing(d)'
<1>1. pointer'.format = "legacy" => pointer.format = "legacy"
  BY PointerKept DEF WorkInv, Shape
<1>2. pointer'.format = "legacy" => shards \subseteq shards'
  BY <1>1, NoSweeps
<1>. QED BY <1>1, <1>2 DEF Importing, Imports

\* verifyImport: the client that takes a step publishes only what is stored.
LEMMA OwnImporting ==
  ASSUME LogInv, NEW c \in Clients, Importing(c), Steps(c)
  PROVE  Importing(c)'
<1>0. /\ Shape /\ WorkInv /\ [Next]_vars /\ Working(c)
  BY DEF LogInv, AnswersInv, WorkInv, Next, Steps
<1>1. ASSUME pc'[c] \notin {"legacy"} \cup Drafting PROVE Importing(c)'
  BY <1>1 DEF Importing
<1>2. ASSUME NEW answer, Return(c, answer) PROVE Importing(c)'
  <2>1. pc'[c] = "idle" BY <1>0, <1>2 DEF Return, Shape
  <2>. QED BY <1>1, <2>1 DEF Drafting
<1>3. CASE Call(c)
  <2>1. PICK req \in Requests[c][calls[c] + 1] :
          \/ UNCHANGED <<pc, call, attempts, base>>
          \/ /\ (pointer.format = "legacy") = (req.kind = "import")
             /\ call' = [call EXCEPT ![c] = req] /\ Resolve(c, req.kind)
    BY <1>3 DEF Call
  <2>2. CASE UNCHANGED pc
    <3>1. pc'[c] = "idle" BY <1>3, <2>2 DEF Call
    <3>. QED BY <1>1, <3>1 DEF Drafting
  <2>3. CASE /\ (pointer.format = "legacy") = (req.kind = "import")
             /\ call' = [call EXCEPT ![c] = req] /\ Resolve(c, req.kind)
    <3>1. call'[c] = req /\ base'[c] = pointer
      BY <1>0, <2>3 DEF Shape, Resolve
    <3>2. pc'[c] \in {"legacy", "meta"}
      BY <1>0, <2>3 DEF Shape, Resolve, Goto
    <3>3. Imports(c)' => base'[c].format = "legacy"
      BY <2>3, <3>1 DEF Imports
    <3>. QED BY <3>2, <3>3 DEF Importing, Drafting
  <2>. QED BY <2>1, <2>2, <2>3
<1>4. CASE ReadPointer(c)
  <2>1. call[c].kind # "import" /\ Resolve(c, call[c].kind)
    BY <1>0, <1>4 DEF ReadPointer, Working, Imports
  <2>2. pc'[c] = "meta"
    BY <1>0, <2>1 DEF Resolve, Goto, Shape
  <2>. QED BY <1>1, <2>2 DEF Drafting
<1>5. CASE ReadMeta(c)
  <2>1. CASE Goto(c, "bundle")
    <3>1. pc'[c] = "bundle" BY <1>0, <2>1 DEF Goto, Shape
    <3>. QED BY <1>1, <3>1 DEF Drafting
  <2>. QED BY <1>2, <1>5, <2>1 DEF ReadMeta
<1>6. CASE ReadBundle(c)
  <2>1. CASE UNCHANGED call
    <3>1. ~Imports(c)' BY <1>0, <1>6, <2>1 DEF ReadBundle, Working, Imports
    <3>. QED BY <3>1 DEF Importing
  <2>. QED BY <1>2, <1>6, <2>1 DEF ReadBundle
<1>7. CASE ReadLegacy(c)
  <2>1. pc[c] = "legacy" /\ pc'[c] = "post" /\ UNCHANGED <<base, call>>
    BY <1>0, <1>7 DEF ReadLegacy, Goto, Shape
  <2>2. draft'[c] = Imported(base[c].log)
    BY <1>0, <1>7 DEF ReadLegacy, Shape
  <2>3. Imports(c) BY <1>0, <2>1 DEF Working
  <2>. QED BY <2>1, <2>2, <2>3 DEF Importing
<1>8. CASE PostShards(c)
  <2>1. pc[c] = "post" /\ pc'[c] = "describe" /\ UNCHANGED <<base, call, draft>>
    BY <1>0, <1>8 DEF PostShards, Goto, Shape
  <2>. QED BY <2>1 DEF Importing, Drafting, Imports
<1>9. CASE PostMeta(c)
  <2>1. CASE Return(c, "failed") BY <1>2, <2>1
  <2>2. CASE ~(call[c].kind = "import" /\ ~(PinnedRefs(draft[c]) \subseteq shards))
    <3>1. /\ pc[c] = "describe" /\ pc'[c] = "commit" /\ UNCHANGED <<base, call, draft, shards>>
      BY <1>0, <1>9, <2>2 DEF PostMeta, Goto, Shape
    <3>. QED BY <2>2, <3>1 DEF Importing, Drafting, Imports
  <2>. QED BY <1>9, <2>1, <2>2 DEF PostMeta
<1>10. CASE Commit(c)
  <2>1. CASE Goto(c, "sweep") \/ Goto(c, "pointer")
    <3>1. pc'[c] \in {"sweep", "pointer"} BY <1>0, <2>1 DEF Goto, Shape
    <3>. QED BY <1>1, <3>1 DEF Drafting
  <2>. QED BY <1>2, <1>10, <2>1 DEF Commit
<1>11. CASE CommitUnanswered(c) \/ SweepEnds(c) \/ Crash(c)
  BY <1>2, <1>11 DEF CommitUnanswered, SweepEnds, Crash
<1>12. CASE Sweep(c) \/ SweepRefused(c)
  <2>1. PICK refused \in BOOLEAN : SweepGeneration(c, refused)
    BY <1>12 DEF Sweep, SweepRefused
  <2>2. CASE UNCHANGED pc
    <3>1. pc'[c] = "sweep" BY <2>1, <2>2 DEF SweepGeneration
    <3>. QED BY <1>1, <3>1 DEF Drafting
  <2>. QED BY <1>2, <2>1, <2>2 DEF SweepGeneration
<1>. QED BY <1>3, <1>4, <1>5, <1>6, <1>7, <1>8, <1>9, <1>10, <1>11, <1>12 DEF Steps

\* What the history says of a log, by its parts.
LEMMA HistorySays ==
  ASSUME NEW cut, NEW top, NEW hist, Tells(cut, top, hist)
  PROVE  /\ top \in Nat /\ cut \in 0..top /\ top = Len(pointer.log)
         /\ hist[top].log = pointer.log
         /\ hist[cut] = Imported(hist[cut].log)
         /\ \A n \in cut..top : IsSeq(hist[n].log) /\ Len(hist[n].log) = n
         /\ \A n \in (cut + 1)..top :
              /\ Succeeds(hist[n], hist[n - 1])
              /\ hist[n].log = Append(hist[n - 1].log, pointer.log[n])
              /\ hist[n].updatedAt = pointer.log[n].at /\ pointer.log[n].at \in Nat
         /\ \A m \in (cut + 1)..top : \A n \in m..top : pointer.log[m].at <= pointer.log[n].at
         /\ \A m \in cut..top : \A n \in m..top : Inherited(hist, m, n)
BY DEF Tells, History

\* writeMeta: what is described under a log of the history is its import again.
LEMMA PutAgain ==
  ASSUME LogInv, NEW cut, NEW top, NEW hist, Tells(cut, top, hist),
         NEW c \in Clients, Importing(c), pc[c] = "describe",
         NEW n \in cut..top, draft[c].log = hist[n].log
  PROVE  n = cut /\ draft[c] = hist[n] /\ Imports(c)
<1>0. /\ Working(c) /\ IsSeq(base[c].log) /\ pc[c] \in Drafting /\ Stands(c, cut, top, hist)
      /\ calls \in [Clients -> Nat]
  BY DEF LogInv, AnswersInv, WorkInv, Shape, Working, LogOK, Resolved, Drafting, Tells
<1>1. /\ top \in Nat /\ cut \in 0..top /\ top = Len(pointer.log)
      /\ hist[cut] = Imported(hist[cut].log)
      /\ \A k \in cut..top : IsSeq(hist[k].log) /\ Len(hist[k].log) = k
      /\ \A k \in (cut + 1)..top : hist[k].log = Append(hist[k - 1].log, pointer.log[k])
  BY HistorySays
<1>2. n \in Nat /\ Len(draft[c].log) = n
  BY <1>1
<1>3. CASE Imports(c)
  <2>1. draft[c].log = base[c].log /\ draft[c] = Imported(base[c].log) /\ Len(base[c].log) <= cut
    BY <1>0, <1>3 DEF Working, Importing, Stands
  <2>2. n = cut
    BY <1>1, <1>2, <2>1
  <2>3. draft[c] = Imported(draft[c].log)
    BY <2>1
  <2>. QED BY <1>1, <1>3, <2>2, <2>3
<1>4. CASE ~Imports(c)
  <2>1. PICK op : op.id = Id(c) /\ draft[c].log = Append(base[c].log, op)
    BY <1>0, <1>4 DEF Working
  <2>2. Len(base[c].log) \in cut..top
    BY <1>0, <1>4 DEF Stands
  <2>3. n = Len(base[c].log) + 1
    BY <1>0, <1>2, <2>1, AppendFacts
  <2>4. n \in (cut + 1)..top /\ n - 1 \in cut..top
    BY <1>1, <2>2, <2>3
  <2>5. hist[n].log = Append(hist[n - 1].log, pointer.log[n]) /\ IsSeq(hist[n - 1].log)
    BY <1>1, <2>4
  <2>6. op = pointer.log[n]
    <3>1. PICK s : s = base[c].log OBVIOUS
    <3>2. PICK t : t = hist[n - 1].log OBVIOUS
    <3>3. PICK b : b = pointer.log[n] OBVIOUS
    <3>4. IsSeq(s) /\ IsSeq(t) /\ Append(s, op) = Append(t, b)
      BY <1>0, <2>1, <2>5, <3>1, <3>2, <3>3
    <3>5. op = b BY <3>4, SameAppend
    <3>. QED BY <3>3, <3>5
  <2>7. n \in DOMAIN pointer.log
    <3>1. DOMAIN pointer.log = 1..top
      BY <1>1, SeqFacts DEF LogInv, AnswersInv, WorkInv, Shape, LogOK
    <3>. QED BY <1>1, <2>4, <3>1
  <2>8. Id(c) \in Committed
    BY <2>1, <2>6, <2>7 DEF Committed
  <2>9. pc[c] \in {"idle", "sweep"}
    <3>1. <<c, calls[c]>> \in Committed /\ calls[c] \in Nat BY <1>0, <2>8 DEF Id
    <3>. QED BY <3>1 DEF LogInv, AnswersInv, Known
  <2>. QED BY <1>0, <2>9
<1>. QED BY <1>3, <1>4

\* What is stored under a log of the history stays its generation.
LEMMA StoredStays ==
  ASSUME LogInv, NEW cut, NEW top, NEW hist, Tells(cut, top, hist),
         \A c \in Clients : Importing(c), [Next]_vars
  PROVE  StoredAre(cut, top, hist)'
<1>. SUFFICES ASSUME NEW n \in cut..top, hist[n].log \in DOMAIN metas'
              PROVE  metas'[hist[n].log] = hist[n]
  BY DEF StoredAre
<1>0. hist[n].log \in DOMAIN metas => metas[hist[n].log] = hist[n]
  BY DEF Tells, StoredAre
<1>1. ASSUME NEW c \in Clients, pc[c] = "describe", metas' = Put(metas, draft[c].log, draft[c])
      PROVE  metas'[hist[n].log] = hist[n]
  <2>0. /\ DOMAIN metas' = DOMAIN metas \cup {draft[c].log}
        /\ \A l \in DOMAIN metas' : metas'[l] = IF l = draft[c].log THEN draft[c] ELSE metas[l]
    BY <1>1 DEF Put
  <2>1. CASE draft[c].log = hist[n].log
    <3>1. draft[c] = hist[n] BY <1>1, <2>1, PutAgain
    <3>2. metas'[hist[n].log] = draft[c] BY <2>0, <2>1
    <3>. QED BY <3>1, <3>2
  <2>2. CASE draft[c].log # hist[n].log
    BY <1>0, <2>0, <2>2
  <2>. QED BY <2>1, <2>2
<1>2. ASSUME NEW log, metas' = [l \in DOMAIN metas \ {log} |-> metas[l]]
      PROVE  metas'[hist[n].log] = hist[n]
  BY <1>0, <1>2
<1>3. CASE UNCHANGED metas
  BY <1>0, <1>3
<1>. QED BY <1>1, <1>2, <1>3, MetasStep

\* A generation that may be read after a step could be read before it.
LEMMA ReachableBefore ==
  ASSUME LogInv, NEW cut, NEW top, NEW hist, Tells(cut, top, hist),
         \A c \in Clients : Importing(c), [Next]_vars,
         NEW n \in cut..top, Reachable(n, cut, hist)'
  PROVE  Reachable(n, cut, hist)
<1>0. /\ Shape /\ \A c \in Clients : Working(c)
      /\ \A c \in Clients : Stands(c, cut, top, hist)
  BY DEF LogInv, AnswersInv, WorkInv, Tells
<1>1. CASE n = cut
  BY <1>1 DEF Reachable
<1>2. CASE hist[n].log \in DOMAIN metas' /\ hist[n].log \notin DOMAIN metas
  <2>1. PICK c \in Clients : pc[c] = "describe" /\ metas' = Put(metas, draft[c].log, draft[c])
    BY <1>2, MetasStep
  <2>2. DOMAIN metas' = DOMAIN metas \cup {draft[c].log}
    BY <2>1 DEF Put
  <2>3. draft[c].log = hist[n].log
    BY <1>2, <2>2
  <2>4. n = cut
    BY <2>1, <2>3, PutAgain
  <2>. QED BY <1>1, <2>4
<1>3. CASE hist[n].log \in DOMAIN metas
  BY <1>3 DEF Reachable
<1>4. ASSUME NEW d \in Clients, pc'[d] = "bundle", Len(base'[d].log) = n
      PROVE  Reachable(n, cut, hist)
  <2>1. CASE pc[d] = "bundle" /\ base'[d] = base[d]
    BY <1>4, <2>1 DEF Reachable
  <2>2. CASE ReadMeta(d)
    <3>1. base[d].log \in DOMAIN metas /\ base' = base /\ pc[d] = "meta"
      <4>1. CASE Return(d, "failed")
        BY <1>0, <1>4, <4>1 DEF Return, Shape
      <4>. QED BY <2>2, <4>1 DEF ReadMeta
    <3>2. base[d].log = hist[Len(base[d].log)].log
      BY <1>0, <3>1 DEF Stands, Working
    <3>. QED BY <1>4, <3>1, <3>2 DEF Reachable
  <2>3. ASSUME NEW c \in Clients, Steps(c), ~(c = d /\ ReadMeta(d))
        PROVE  pc[d] = "bundle" /\ base'[d] = base[d]
    <3>1. CASE c # d
      BY <1>0, <1>4, <2>3, <3>1, StepAlone DEF Alone
    <3>2. CASE c = d
      <4>1. CASE Call(d) \/ ReadPointer(d) \/ ReadBundle(d) \/ ReadLegacy(d)
        BY <1>0, <1>4, <4>1 DEF Call, Resolve, Goto, Return, Shape, ReadPointer, ReadBundle, ReadLegacy
      <4>2. CASE PostShards(d) \/ PostMeta(d) \/ Commit(d) \/ CommitUnanswered(d)
        BY <1>0, <1>4, <4>2 DEF Goto, Return, Shape, PostShards, PostMeta, Commit, CommitUnanswered
      <4>3. CASE Sweep(d) \/ SweepRefused(d) \/ SweepEnds(d) \/ Crash(d)
        BY <1>0, <1>4, <4>3 DEF Return, Shape, Sweep, SweepRefused, SweepGeneration, SweepEnds, Crash
      <4>. QED BY <2>3, <3>2, <4>1, <4>2, <4>3 DEF Steps
    <3>. QED BY <3>1, <3>2
  <2>4. CASE LegacyAppend \/ Tick \/ UNCHANGED vars
    <3>1. pc' = pc /\ base' = base BY <2>4 DEF LegacyAppend, Tick, vars, client
    <3>. QED BY <1>4, <2>1, <3>1
  <2>. QED BY <2>1, <2>2, <2>3, <2>4 DEF Next, Steps
<1>. QED BY <1>1, <1>2, <1>3, <1>4 DEF Reachable

\* What a sweep may not take but takes.
LEMMA TakenIs ==
  ASSUME NEW c, NEW meta, NEW refs, NEW x
  PROVE  x \in Taken(c, meta, refs) <=>
           /\ x \in refs
           /\ \/ \E d \in Clients \ {c} : /\ pc[d] \in {"describe", "commit"}
                                        /\ call[d].kind # "import"
                                        /\ x \in draft[d].introducedRefs
              \/ \E l \in DOMAIN metas : Len(l) > Len(draft[c].log) /\ x \in PinnedRefs(metas[l])
              \/ \E d \in Clients : /\ pc[d] = "bundle" /\ Len(held[d].log) > Len(draft[c].log)
                                   /\ x \in PinnedRefs(held[d])
              \/ x \in meta.introducedRefs
<1>1. PICK A : A = UNION {draft[d].introducedRefs :
                d \in {d \in Clients \ {c} : pc[d] \in {"describe", "commit"}
                                           /\ call[d].kind # "import"}}
  OBVIOUS
<1>2. PICK B : B = UNION {PinnedRefs(metas[l]) :
                       l \in {l \in DOMAIN metas : Len(l) > Len(draft[c].log)}}
  OBVIOUS
<1>3. PICK C : C = UNION {PinnedRefs(held[d]) :
                       d \in {d \in Clients : pc[d] = "bundle"
                                              /\ Len(held[d].log) > Len(draft[c].log)}}
  OBVIOUS
<1>4. Taken(c, meta, refs) = refs \cap (((A \cup B) \cup C) \cup meta.introducedRefs)
  BY <1>1, <1>2, <1>3, Zenon DEF Taken
<1>5. x \in A <=> \E d \in Clients \ {c} : /\ pc[d] \in {"describe", "commit"}
                                          /\ call[d].kind # "import"
                                          /\ x \in draft[d].introducedRefs
  BY <1>1
<1>6. x \in B <=> \E l \in DOMAIN metas : Len(l) > Len(draft[c].log) /\ x \in PinnedRefs(metas[l])
  BY <1>2
<1>7. x \in C <=> \E d \in Clients : /\ pc[d] = "bundle" /\ Len(held[d].log) > Len(draft[c].log)
                                    /\ x \in PinnedRefs(held[d])
  BY <1>3
<1>. QED BY <1>4, <1>5, <1>6, <1>7

\* reclaimOutsideWindow: what a sweep takes of a generation that can still be
\* read within the window, it takes from a writer that has just put it back.
LEMMA SweepSpares ==
  ASSUME LogInv, NEW cut, NEW top, NEW hist, Tells(cut, top, hist),
         NEW c \in Clients, NEW log, NEW targets, Swept(c, log, targets),
         NEW n \in cut..top, Within(n), Reachable(n, cut, hist),
         NEW x \in PinnedRefs(hist[n]), x \in targets
  PROVE  x \in Taken(c, metas[log], targets)
<1>1. /\ top \in Nat /\ cut \in 0..top /\ top = Len(pointer.log)
      /\ hist[cut] = Imported(hist[cut].log)
      /\ \A i \in cut..top : IsSeq(hist[i].log) /\ Len(hist[i].log) = i
      /\ \A i \in (cut + 1)..top :
           /\ Succeeds(hist[i], hist[i - 1])
           /\ hist[i].updatedAt = pointer.log[i].at /\ pointer.log[i].at \in Nat
  BY HistorySays
<1>0. /\ \A i \in (cut + 1)..top : \A j \in i..top : pointer.log[i].at <= pointer.log[j].at
      /\ \A i \in cut..top : \A j \in i..top : Inherited(hist, i, j)
  BY HistorySays
<1>2. /\ pc[c] = "sweep" /\ log \in cursor[c] /\ log \in DOMAIN metas
      /\ OutsideRetentionWindow(metas[log])
      /\ targets = metas[log].supersededRefs \ again[c]
  BY DEF Swept
<1>3. PICK k \in (cut + 1)..top :
         /\ draft[c] = hist[k]
         /\ \/ cursor[c] = {}
            \/ \E m \in cut..(k - 1) :
                 /\ cursor[c] = {hist[m].log}
                 /\ \A j \in (m + 1)..k : hist[j].introducedRefs \subseteq again[c]
  BY <1>2 DEF Tells, Stands
<1>4. PICK m \in cut..(k - 1) :
         /\ cursor[c] = {hist[m].log}
         /\ \A j \in (m + 1)..k : hist[j].introducedRefs \subseteq again[c]
  BY <1>2, <1>3
<1>5. log = hist[m].log /\ m \in cut..top /\ k \in cut..top /\ m < k /\ m \in Nat /\ n \in Nat /\ k \in Nat
  BY <1>1, <1>2, <1>4
<1>6. metas[log] = hist[m]
  BY <1>2, <1>5 DEF Tells, StoredAre
<1>7. x \in hist[m].supersededRefs /\ x \notin again[c]
  BY <1>2, <1>6
<1>8. m # cut
  <2>1. hist[cut].supersededRefs = {} BY <1>1, ImportedNothing
  <2>. QED BY <1>7, <2>1
<1>9. m \in (cut + 1)..top
  BY <1>1, <1>5, <1>8
<1>10. CASE n < m
  <2>1. now < pointer.log[n + 1].at + Window
    BY <1>1, <1>5, <1>10 DEF Within
  <2>2. n + 1 \in (cut + 1)..top /\ m \in (n + 1)..top
    BY <1>1, <1>5, <1>10
  <2>3. /\ pointer.log[n + 1].at \in Nat /\ pointer.log[m].at \in Nat
        /\ pointer.log[n + 1].at <= pointer.log[m].at /\ hist[m].updatedAt = pointer.log[m].at
    BY <1>0, <1>1, <1>9, <2>2
  <2>4. now - pointer.log[m].at >= Window
    BY <1>2, <1>6, <2>3 DEF OutsideRetentionWindow
  <2>5. now \in Nat /\ Window \in Nat
    BY StoreAssumption DEF LogInv, PointerIs
  <2>. QED BY <2>1, <2>3, <2>4, <2>5
<1>11. CASE m <= n /\ n <= k
  <2>1. Inherited(hist, m, n)
    <3>1. n \in m..top BY <1>1, <1>5, <1>11
    <3>. QED BY <1>0, <1>5, <3>1
  <2>2. ASSUME NEW j \in (m + 1)..n PROVE x \notin hist[j].introducedRefs
    <3>1. j \in (m + 1)..k BY <1>5, <1>11
    <3>. QED BY <1>4, <1>7, <3>1
  <2>3. x \in PinnedRefs(hist[m])
    BY <2>1, <2>2 DEF Inherited
  <2>4. x \in hist[m].introducedRefs
    <3>1. Succeeds(hist[m], hist[m - 1])
      BY <1>1, <1>9
    <3>2. hist[m].supersededRefs \cap PinnedRefs(hist[m]) \subseteq hist[m].introducedRefs
      BY <3>1 DEF Succeeds
    <3>. QED BY <1>7, <2>3, <3>2
  <2>. QED BY <1>6, <2>4, TakenIs
<1>12. CASE k < n
  <2>1. n # cut /\ Len(draft[c].log) = k
    BY <1>1, <1>3, <1>5, <1>12
  <2>2. CASE hist[n].log \in DOMAIN metas
    <3>1. metas[hist[n].log] = hist[n]
      BY <2>2 DEF Tells, StoredAre
    <3>2. PICK l : l = hist[n].log OBVIOUS
    <3>3. Len(l) = n
      BY <1>1, <3>2
    <3>4. Len(l) > Len(draft[c].log)
      BY <1>5, <1>12, <2>1, <3>3
    <3>5. l \in DOMAIN metas /\ Len(l) > Len(draft[c].log) /\ x \in PinnedRefs(metas[l])
      BY <2>2, <3>1, <3>2, <3>4
    <3>. QED BY <3>5, TakenIs
  <2>3. ASSUME NEW d \in Clients, pc[d] = "bundle", Len(base[d].log) = n
        PROVE  x \in Taken(c, metas[log], targets)
    <3>1. held[d] = hist[n]
      BY <2>3 DEF Tells, Stands
    <3>2. Len(held[d].log) = n
      BY <1>1, <3>1
    <3>3. Len(held[d].log) > Len(draft[c].log) /\ x \in PinnedRefs(held[d])
      BY <1>5, <1>12, <2>1, <3>1, <3>2
    <3>. QED BY <2>3, <3>3, TakenIs
  <2>. QED BY <2>1, <2>2, <2>3 DEF Reachable
<1>. QED BY <1>5, <1>10, <1>11, <1>12

\* No step takes what can still be read within the window.
LEMMA SparedStays ==
  ASSUME LogInv, NEW cut, NEW top, NEW hist, Tells(cut, top, hist),
         \A c \in Clients : Importing(c), [Next]_vars,
         NEW n \in cut..top, Within(n), Reachable(n, cut, hist)'
  PROVE  PinnedRefs(hist[n]) \subseteq shards' \cup lost'
<1>1. Reachable(n, cut, hist)
  BY ReachableBefore
<1>2. ASSUME NEW x \in PinnedRefs(hist[n]) PROVE x \in shards' \cup lost'
  <2>1. x \in shards \cup lost
    BY <1>1, <1>2 DEF Tells, Spared
  <2>2. ASSUME NEW c \in Clients, NEW log, NEW targets, Swept(c, log, targets), x \in targets
        PROVE  x \in Taken(c, metas[log], targets)
    BY <1>1, <1>2, <2>2, SweepSpares
  <2>3. Shape BY DEF LogInv, AnswersInv, WorkInv
  <2>. QED BY <2>1, <2>2, <2>3, ShardsStay
<1>. QED BY <1>2

\* A client that takes no step stands where it stood, in a history that only
\* goes on.
LEMMA StandsStays ==
  ASSUME NEW cut, NEW top, NEW hist, NEW top2, NEW hist2,
         top \in Nat, cut \in 0..top, top2 \in Nat, top <= top2,
         \A n \in cut..top : hist2[n] = hist[n],
         NEW d \in Clients, Stands(d, cut, top, hist),
         pc'[d] = pc[d], call'[d] = call[d], base'[d] = base[d], held'[d] = held[d],
         draft'[d] = draft[d], cursor'[d] = cursor[d], again'[d] = again[d],
         pc[d] = "bundle" => ~Imports(d)
  PROVE  Stands(d, cut, top2, hist2)'
<1>1. ASSUME pc[d] \in {"meta", "bundle"} \cup Drafting, ~Imports(d)
      PROVE  /\ Len(base[d].log) \in cut..top2
             /\ base[d].log = hist2[Len(base[d].log)].log
             /\ hist2[Len(base[d].log)] = hist[Len(base[d].log)]
  BY <1>1 DEF Stands
<1>2. ASSUME pc[d] = "sweep"
      PROVE  \E k \in (cut + 1)..top2 :
               /\ draft[d] = hist2[k]
               /\ \/ cursor[d] = {}
                  \/ \E m \in cut..(k - 1) :
                       /\ cursor[d] = {hist2[m].log}
                       /\ \A j \in (m + 1)..k : hist2[j].introducedRefs \subseteq again[d]
  <2>1. PICK k \in (cut + 1)..top :
         /\ draft[d] = hist[k]
         /\ \/ cursor[d] = {}
            \/ \E m \in cut..(k - 1) :
                 /\ cursor[d] = {hist[m].log}
                 /\ \A j \in (m + 1)..k : hist[j].introducedRefs \subseteq again[d]
    BY <1>2 DEF Stands
  <2>2. k \in (cut + 1)..top2 /\ k \in cut..top
    OBVIOUS
  <2>3. draft[d] = hist2[k]
    BY <2>1, <2>2
  <2>4. CASE cursor[d] = {}
    BY <2>2, <2>3, <2>4
  <2>5. ASSUME NEW m \in cut..(k - 1), cursor[d] = {hist[m].log},
               \A j \in (m + 1)..k : hist[j].introducedRefs \subseteq again[d]
        PROVE  /\ cursor[d] = {hist2[m].log}
               /\ \A j \in (m + 1)..k : hist2[j].introducedRefs \subseteq again[d]
    <3>1. m \in cut..top /\ \A j \in (m + 1)..k : j \in cut..top
      BY <2>2
    <3>. QED BY <2>5, <3>1
  <2>. QED BY <2>1, <2>2, <2>3, <2>4, <2>5
<1>3. /\ Imports(d)' = Imports(d)
      /\ pc[d] \in {"legacy"} \cup Drafting /\ Imports(d) => Len(base[d].log) <= cut
      /\ pc[d] = "bundle" => held[d] = hist[Len(base[d].log)]
      /\ pc[d] \in Drafting /\ ~Imports(d) => Succeeds(draft[d], hist[Len(base[d].log)])
  BY DEF Stands, Imports
<1>4. pc[d] = "bundle" => held[d] = hist2[Len(base[d].log)]
  BY <1>1, <1>3
<1>5. pc[d] \in Drafting /\ ~Imports(d) => Succeeds(draft[d], hist2[Len(base[d].log)])
  BY <1>1, <1>3
<1>. QED BY <1>1, <1>2, <1>3, <1>4, <1>5 DEF Stands

\* A client that goes on stands in the history of the published log.
LEMMA OwnStands ==
  ASSUME LogInv, NEW cut, NEW top, NEW hist, Tells(cut, top, hist), pointer.format = "compact",
         NEW c \in Clients, Steps(c), UNCHANGED pointer
  PROVE  Stands(c, cut, top, hist)'
<1>0. /\ Shape /\ Working(c) /\ WorkInv /\ Stands(c, cut, top, hist) /\ StoredAre(cut, top, hist)
  BY DEF LogInv, AnswersInv, WorkInv, Tells
<1>1. /\ top \in Nat /\ cut \in 0..top /\ top = Len(pointer.log)
      /\ hist[top].log = pointer.log
      /\ hist[cut] = Imported(hist[cut].log)
      /\ \A n \in cut..top : IsSeq(hist[n].log) /\ Len(hist[n].log) = n
      /\ \A n \in (cut + 1)..top : Succeeds(hist[n], hist[n - 1])
  BY HistorySays
<1>2. ASSUME pc'[c] \in {"idle", "pointer"} PROVE Stands(c, cut, top, hist)'
  BY <1>2 DEF Stands, Drafting
<1>3. ASSUME NEW answer, Return(c, answer) PROVE Stands(c, cut, top, hist)'
  <2>1. pc'[c] = "idle" BY <1>0, <1>3 DEF Return, Shape
  <2>. QED BY <1>2, <2>1
<1>4. ASSUME NEW place \in Places, Goto(c, place) PROVE pc'[c] = place
  BY <1>0, <1>4, GotoAlone
<1>5. ASSUME pc'[c] = "meta", base'[c] = pointer
      PROVE  Stands(c, cut, top, hist)'
  <2>1. Len(base'[c].log) = top /\ top \in cut..top /\ base'[c].log = hist[top].log
    BY <1>1, <1>5
  <2>. QED BY <1>5, <2>1 DEF Stands, Drafting
<1>6. CASE Call(c)
  <2>1. PICK req \in Requests[c][calls[c] + 1] :
          \/ UNCHANGED <<pc, call, attempts, base>>
          \/ /\ (pointer.format = "legacy") = (req.kind = "import")
             /\ Resolve(c, req.kind)
    BY <1>6 DEF Call
  <2>2. CASE UNCHANGED pc
    <3>1. pc'[c] = "idle" BY <1>6, <2>2 DEF Call
    <3>. QED BY <1>2, <3>1
  <2>3. CASE (pointer.format = "legacy") = (req.kind = "import") /\ Resolve(c, req.kind)
    <3>1. pc'[c] = "meta" /\ base'[c] = pointer
      BY <1>0, <2>3 DEF Shape, Resolve, Goto
    <3>. QED BY <1>5, <3>1
  <2>. QED BY <2>1, <2>2, <2>3
<1>7. CASE ReadPointer(c)
  <2>1. call[c].kind # "import" /\ Resolve(c, call[c].kind)
    BY <1>0, <1>7 DEF ReadPointer, Working, Imports
  <2>2. pc'[c] = "meta" /\ base'[c] = pointer
    BY <1>0, <2>1 DEF Resolve, Goto, Shape
  <2>. QED BY <1>5, <2>2
<1>8. CASE ReadMeta(c)
  <2>1. CASE /\ base[c].log \in DOMAIN metas /\ held' = [held EXCEPT ![c] = metas[base[c].log]]
             /\ Goto(c, "bundle") /\ UNCHANGED <<call, base>>
    <3>1. pc[c] = "meta" /\ pc'[c] = "bundle" /\ held'[c] = metas[base[c].log] /\ ~Imports(c)
      BY <1>0, <1>4, <1>8, <2>1 DEF ReadMeta, Shape, Working, Places
    <3>2. Len(base[c].log) \in cut..top /\ base[c].log = hist[Len(base[c].log)].log
      BY <1>0, <3>1 DEF Stands
    <3>3. metas[base[c].log] = hist[Len(base[c].log)]
      BY <1>0, <2>1, <3>2 DEF StoredAre
    <3>. QED BY <2>1, <3>1, <3>2, <3>3 DEF Stands, Drafting, Imports
  <2>. QED BY <1>3, <1>8, <2>1 DEF ReadMeta
<1>9. CASE ReadBundle(c)
  <2>1. pc[c] = "bundle" BY <1>9 DEF ReadBundle
  <2>2. CASE /\ ~held[c].deleted /\ Applicable(OperationOf(c), BoardOf(CardsOf(c), held[c]))
             /\ draft' = [draft EXCEPT ![c] = NextGeneration(OperationOf(c), held[c], CardsOf(c))]
             /\ Goto(c, "post") /\ UNCHANGED <<call, base>>
    <3>1. pc'[c] = "post" /\ ~Imports(c)
      BY <1>0, <1>4, <2>1, <2>2 DEF Working, Places
    <3>2. /\ Len(base[c].log) \in cut..top /\ base[c].log = hist[Len(base[c].log)].log
          /\ held[c] = hist[Len(base[c].log)]
      BY <1>0, <2>1, <3>1 DEF Stands
    <3>3. draft'[c] = NextGeneration(OperationOf(c), held[c], CardsOf(c))
      BY <1>0, <2>2 DEF Shape
    <3>4. Succeeds(draft'[c], held[c])
      BY <2>1, <2>2, <3>3, DraftSucceeds
    <3>. QED BY <2>2, <3>1, <3>2, <3>4 DEF Stands, Drafting, Imports
  <2>3. \/ \E answer : Return(c, answer)
        \/ /\ ~held[c].deleted /\ Applicable(OperationOf(c), BoardOf(CardsOf(c), held[c]))
           /\ draft' = [draft EXCEPT ![c] = NextGeneration(OperationOf(c), held[c], CardsOf(c))]
           /\ Goto(c, "post") /\ UNCHANGED <<call, base>>
    BY <1>9 DEF ReadBundle
  <2>. QED BY <1>3, <2>2, <2>3
\* A client that goes on with its draft.
<1>10. ASSUME pc[c] \in {"legacy"} \cup Drafting, UNCHANGED <<call, base>>, pc'[c] \in Drafting,
              pc[c] = "legacy" \/ draft' = draft
       PROVE  Stands(c, cut, top, hist)'
  <2>1. pc[c] = "legacy" => Imports(c) BY <1>0 DEF Working
  <2>2. Imports(c)' = Imports(c) BY <1>10 DEF Imports
  <2>3. Imports(c) => Len(base[c].log) <= cut BY <1>0, <1>10 DEF Stands
  <2>4. ~Imports(c) => /\ Len(base[c].log) \in cut..top
                       /\ base[c].log = hist[Len(base[c].log)].log
                       /\ Succeeds(draft[c], hist[Len(base[c].log)])
                       /\ draft' = draft
    BY <1>0, <1>10, <2>1 DEF Stands
  <2>5. pc'[c] \notin {"bundle", "sweep", "legacy"} BY <1>10 DEF Drafting
  <2>. QED BY <1>10, <2>2, <2>3, <2>4, <2>5 DEF Stands
<1>11. CASE ReadLegacy(c)
  <2>1. pc[c] = "legacy" /\ Goto(c, "post") /\ UNCHANGED <<call, base>>
    BY <1>11 DEF ReadLegacy
  <2>. QED BY <1>4, <1>10, <2>1 DEF Places, Drafting
<1>12. CASE PostShards(c)
  <2>1. pc[c] = "post" /\ Goto(c, "describe") /\ UNCHANGED <<call, base, draft>>
    BY <1>12 DEF PostShards
  <2>. QED BY <1>4, <1>10, <2>1 DEF Places, Drafting
<1>13. CASE PostMeta(c)
  <2>1. pc[c] = "describe" BY <1>13 DEF PostMeta
  <2>2. CASE Goto(c, "commit") /\ UNCHANGED <<call, base, draft>>
    BY <1>4, <1>10, <2>1, <2>2 DEF Places, Drafting
  <2>. QED BY <1>3, <1>13, <2>2 DEF PostMeta
<1>14. CASE Commit(c)
  <2>1. CASE Goto(c, "pointer")
    <3>1. pc'[c] = "pointer" BY <1>4, <2>1 DEF Places
    <3>. QED BY <1>2, <3>1
  <2>2. ASSUME IfMatch(c), ~Imports(c) PROVE FALSE
    <3>1. pc[c] = "commit" /\ pointer' = Published(c) BY <1>14, <2>2 DEF Commit
    <3>2. pointer = base[c] /\ Len(base[c].log) = top BY <1>1, <2>2 DEF IfMatch
    <3>3. PICK op : draft[c].log = Append(base[c].log, op) /\ IsSeq(base[c].log)
      BY <1>0, <2>2, <3>1 DEF Working, Drafting, Resolved, LogOK
    <3>4. Len(draft[c].log) = top + 1 BY <3>2, <3>3, AppendFacts
    <3>5. draft[c].log = pointer.log BY <3>1 DEF Published
    <3>. QED BY <1>1, <3>4, <3>5
  <2>. QED BY <1>3, <1>14, <2>1, <2>2 DEF Commit, Imports
<1>15. CASE CommitUnanswered(c) \/ SweepEnds(c) \/ Crash(c)
  BY <1>3, <1>15 DEF CommitUnanswered, SweepEnds, Crash
<1>16. CASE Sweep(c) \/ SweepRefused(c)
  <2>1. PICK refused \in BOOLEAN : SweepGeneration(c, refused)
    BY <1>16 DEF Sweep, SweepRefused
  <2>2. PICK log \in cursor[c] :
          \/ Return(c, "committed")
          \/ /\ log \in DOMAIN metas
             /\ cursor' = [cursor EXCEPT ![c] = metas[log].retainsMetaRef]
             /\ again' = [again EXCEPT ![c] = again[c] \cup metas[log].introducedRefs]
             /\ UNCHANGED <<pc, draft>>
    BY <2>1 DEF SweepGeneration, AgainAfter
  <2>3. CASE /\ log \in DOMAIN metas
             /\ cursor' = [cursor EXCEPT ![c] = metas[log].retainsMetaRef]
             /\ again' = [again EXCEPT ![c] = again[c] \cup metas[log].introducedRefs]
             /\ UNCHANGED <<pc, draft>>
    <3>1. pc[c] = "sweep" BY <2>1 DEF SweepGeneration
    <3>2. PICK k \in (cut + 1)..top :
            /\ draft[c] = hist[k]
            /\ \/ cursor[c] = {}
               \/ \E m \in cut..(k - 1) :
                    /\ cursor[c] = {hist[m].log}
                    /\ \A j \in (m + 1)..k : hist[j].introducedRefs \subseteq again[c]
      BY <1>0, <3>1 DEF Stands
    <3>3. PICK m \in cut..(k - 1) :
            /\ cursor[c] = {hist[m].log}
            /\ \A j \in (m + 1)..k : hist[j].introducedRefs \subseteq again[c]
      BY <3>2
    <3>4. log = hist[m].log /\ m \in cut..top
      BY <1>1, <3>3
    <3>5. metas[log] = hist[m]
      BY <1>0, <2>3, <3>4 DEF StoredAre
    <3>6. cursor'[c] = hist[m].retainsMetaRef /\ again'[c] = again[c] \cup hist[m].introducedRefs
      BY <1>0, <2>3, <3>5 DEF Shape
    <3>7. CASE m = cut
      <4>1. cursor'[c] = {} BY <1>1, <3>6, <3>7, ImportedNothing
      <4>. QED BY <2>3, <3>1, <3>2, <4>1 DEF Stands, Drafting
    <3>8. CASE m # cut
      <4>1. m \in (cut + 1)..top /\ m - 1 \in cut..(k - 1) /\ (m - 1) + 1 = m
        BY <1>1, <3>3, <3>4, <3>8
      <4>2. Succeeds(hist[m], hist[m - 1])
        BY <1>1, <4>1
      <4>3. cursor'[c] = {hist[m - 1].log}
        BY <3>6, <4>2 DEF Succeeds
      <4>4. ASSUME NEW j \in m..k PROVE hist[j].introducedRefs \subseteq again'[c]
        <5>1. CASE j = m BY <3>6, <5>1
        <5>2. CASE j # m
          <6>1. j \in (m + 1)..k BY <1>1, <4>1, <5>2
          <6>. QED BY <3>3, <3>6, <6>1
        <5>. QED BY <5>1, <5>2
      <4>5. \E i \in cut..(k - 1) :
               /\ cursor'[c] = {hist[i].log}
               /\ \A j \in (i + 1)..k : hist[j].introducedRefs \subseteq again'[c]
        BY <4>1, <4>3, <4>4
      <4>. QED BY <2>3, <3>1, <3>2, <4>5 DEF Stands, Drafting
    <3>. QED BY <3>7, <3>8
  <2>. QED BY <1>3, <2>2, <2>3
<1>. QED BY <1>6, <1>7, <1>8, <1>9, <1>11, <1>12, <1>13, <1>14, <1>15, <1>16 DEF Steps

\* commitPointer: a client that has published begins its sweep with the
\* generation before, or is gone.
LEMMA OwnPublishes ==
  ASSUME LogInv, NEW cut, NEW top, NEW hist, Tells(cut, top, hist),
         NEW c \in Clients, Steps(c), Committed_(c),
         NEW hist2, hist2[top + 1] = draft[c], \A n \in cut..top : hist2[n] = hist[n]
  PROVE  Stands(c, cut, top + 1, hist2)'
<1>0. /\ Shape /\ Working(c) /\ Stands(c, cut, top, hist)
      /\ pc[c] = "commit" /\ ~Imports(c) /\ pointer = base[c] /\ pointer' # pointer
  <2>1. pc[c] = "commit" /\ ~Imports(c) /\ pointer = base[c]
    BY DEF Committed_
  <2>2. PICK op : pointer'.log = Append(pointer.log, op)
    BY DEF Committed_
  <2>3. Len(pointer'.log) = Len(pointer.log) + 1 /\ Len(pointer.log) \in Nat
    BY <2>2, AppendFacts, SeqFacts DEF LogInv, AnswersInv, WorkInv, Shape, LogOK
  <2>4. pointer' # pointer
    BY <2>3
  <2>. QED BY <2>1, <2>4 DEF LogInv, AnswersInv, WorkInv, Tells
<1>1. /\ top \in Nat /\ cut \in 0..top /\ top = Len(pointer.log)
  BY HistorySays
<1>2. ASSUME NEW answer, Return(c, answer) PROVE Stands(c, cut, top + 1, hist2)'
  <2>1. pc'[c] = "idle" BY <1>0, <1>2 DEF Return, Shape
  <2>. QED BY <2>1 DEF Stands, Drafting
<1>3. CASE CommitUnanswered(c)
  BY <1>2, <1>3 DEF CommitUnanswered
<1>4. CASE Commit(c)
  <2>1. CASE /\ cursor' = [cursor EXCEPT ![c] = draft[c].retainsMetaRef]
             /\ again' = [again EXCEPT ![c] = draft[c].introducedRefs]
             /\ Goto(c, "sweep") /\ UNCHANGED draft
    <3>1. /\ pc'[c] = "sweep" /\ cursor'[c] = draft[c].retainsMetaRef
          /\ again'[c] = draft[c].introducedRefs
      BY <1>0, <2>1 DEF Shape, Goto
    <3>2. Succeeds(draft[c], hist[top])
      BY <1>0, <1>1 DEF Stands, Drafting
    <3>3. cursor'[c] = {hist[top].log}
      BY <3>1, <3>2 DEF Succeeds
    <3>4. top \in cut..top /\ hist2[top] = hist[top]
      BY <1>1
    <3>5. top \in cut..((top + 1) - 1) /\ top + 1 \in (cut + 1)..(top + 1)
      BY <1>1
    <3>6. \A j \in (top + 1)..(top + 1) : hist2[j].introducedRefs \subseteq again'[c]
      BY <1>1, <3>1
    <3>7. draft'[c] = hist2[top + 1] /\ cursor'[c] = {hist2[top].log}
      BY <2>1, <3>3, <3>4
    <3>8. \E k \in (cut + 1)..(top + 1) :
            /\ draft'[c] = hist2[k]
            /\ \/ cursor'[c] = {}
               \/ \E m \in cut..(k - 1) :
                    /\ cursor'[c] = {hist2[m].log}
                    /\ \A j \in (m + 1)..k : hist2[j].introducedRefs \subseteq again'[c]
      BY <3>5, <3>6, <3>7
    <3>. QED BY <3>1, <3>8 DEF Stands, Drafting
  <2>2. call[c].kind # "import" /\ pointer' # pointer
    BY <1>0 DEF Imports
  <2>. QED BY <1>2, <1>4, <2>1, <2>2 DEF Commit
<1>5. CASE ~(Commit(c) \/ CommitUnanswered(c))
  BY <1>0, <1>5
  DEF Steps, Call, ReadPointer, ReadMeta, ReadBundle, ReadLegacy, PostShards, PostMeta,
      Sweep, SweepRefused, SweepGeneration, SweepEnds, Crash, object
<1>. QED BY <1>3, <1>4, <1>5

\* A generation that is within the window after a step was so before it.
LEMMA WithinBefore ==
  ASSUME LogInv, NEW cut, NEW top, NEW hist, Tells(cut, top, hist), [Next]_vars,
         NEW n \in cut..top, Within(n)',
         \A i \in (cut + 1)..top : pointer'.log[i] = pointer.log[i],
         Len(pointer'.log) \in Nat, top <= Len(pointer'.log)
  PROVE  Within(n)
<1>1. /\ top \in Nat /\ cut \in 0..top /\ top = Len(pointer.log)
      /\ \A k \in (cut + 1)..top : pointer.log[k].at \in Nat
  BY HistorySays
<1>2. now \in Nat /\ Window \in Nat /\ now <= now'  /\ now' \in Nat
  BY StoreAssumption, NowStep DEF LogInv, PointerIs
<1>3. CASE n = top
  BY <1>1, <1>3 DEF Within
<1>4. CASE n # top
  <2>1. n + 1 \in (cut + 1)..top /\ n # Len(pointer'.log)
    BY <1>1, <1>4
  <2>2. now' < pointer.log[n + 1].at + Window
    BY <2>1 DEF Within
  <2>3. now < pointer.log[n + 1].at + Window
    BY <1>1, <1>2, <2>1, <2>2
  <2>. QED BY <2>3 DEF Within
<1>. QED BY <1>3, <1>4

\* What is told of the published log stays true while the pointer stays.
LEMMA TellsStays ==
  ASSUME LogInv, NEW cut, NEW top, NEW hist, Tells(cut, top, hist),
         \A c \in Clients : Importing(c), [Next]_vars, pointer.format = "compact",
         UNCHANGED pointer
  PROVE  Tells(cut, top, hist)'
<1>0. Shape /\ \A c \in Clients : Working(c)
  BY DEF LogInv, AnswersInv, WorkInv
<1>1. /\ top \in Nat /\ cut \in 0..top /\ top = Len(pointer.log)
  BY HistorySays
<1>2. (top = Len(pointer.log))' /\ History(pointer.log, cut, hist)'
  BY DEF Tells
<1>3. StoredAre(cut, top, hist)'
  BY StoredStays
<1>4. Spared(cut, top, hist)'
  <2>1. ASSUME NEW n \in cut..top, Within(n)', Reachable(n, cut, hist)'
        PROVE  PinnedRefs(hist[n]) \subseteq shards' \cup lost'
    <3>1. Within(n) BY <1>1, <2>1, WithinBefore
    <3>. QED BY <2>1, <3>1, SparedStays
  <2>. QED BY <2>1 DEF Spared
<1>5. ASSUME NEW d \in Clients PROVE Stands(d, cut, top, hist)'
  <2>0. Stands(d, cut, top, hist) /\ (pc[d] = "bundle" => ~Imports(d))
    BY <1>0 DEF Tells, Working
  <2>00. top <= top /\ \A n \in cut..top : hist[n] = hist[n]
    BY <1>1
  <2>01. ASSUME pc'[d] = pc[d], call'[d] = call[d], base'[d] = base[d], held'[d] = held[d],
               draft'[d] = draft[d], cursor'[d] = cursor[d], again'[d] = again[d]
        PROVE  Stands(d, cut, top, hist)'
    BY <1>1, <2>0, <2>00, <2>01, StandsStays
  <2>1. CASE UNCHANGED <<pc, call, base, held, draft, cursor, again>>
    BY <2>1, <2>01
  <2>2. ASSUME NEW c \in Clients, Steps(c) PROVE Stands(d, cut, top, hist)'
    <3>1. CASE d = c BY <2>2, <3>1, OwnStands
    <3>2. CASE d # c
      <4>1. Alone(c) BY <1>0, <2>2, StepAlone
      <4>. QED BY <2>01, <3>2, <4>1 DEF Alone
    <3>. QED BY <3>1, <3>2
  <2>3. CASE LegacyAppend \/ Tick \/ UNCHANGED vars
    <3>1. UNCHANGED <<pc, call, base, held, draft, cursor, again>>
      BY <2>3 DEF LegacyAppend, Tick, vars, client
    <3>. QED BY <2>1, <3>1
  <2>. QED BY <2>2, <2>3 DEF Next, Steps
<1>6. (\A d \in Clients : Stands(d, cut, top, hist))'
  BY <1>5
<1>. QED BY <1>2, <1>3, <1>4, <1>6 DEF Tells

\* A client that publishes does nothing else to what is stored.
LEMMA PublishesOnly ==
  ASSUME LogInv, NEW c \in Clients, Steps(c), pointer' # pointer
  PROVE  UNCHANGED <<metas, shards, lost, now>> /\ pc'[c] # "bundle" /\ (pc'[c] = "idle" \/ pc'[c] = "sweep" \/ pc'[c] = "pointer")
<1>0. Shape
  BY DEF LogInv, AnswersInv, WorkInv
<1>1. CASE Commit(c) \/ CommitUnanswered(c)
  BY <1>0, <1>1 DEF Commit, CommitUnanswered, Shape, Goto, Return
<1>2. CASE ~(Commit(c) \/ CommitUnanswered(c))
  BY <1>2 DEF Steps, Call, ReadPointer, ReadMeta, ReadBundle, ReadLegacy, PostShards, PostMeta,
              Sweep, SweepRefused, SweepGeneration, SweepEnds, Crash, object
<1>. QED BY <1>1, <1>2

\* commitPointer: what is told of the published log is told of the log with one
\* operation more.
LEMMA TellsGrows ==
  ASSUME LogInv, NEW cut, NEW top, NEW hist, Tells(cut, top, hist),
         \A d \in Clients : Importing(d) /\ Filled(d) /\ Ready(d), [Next]_vars,
         NEW c \in Clients, Steps(c), Committed_(c),
         NEW hist2, hist2[top + 1] = draft[c], \A n \in cut..top : hist2[n] = hist[n]
  PROVE  Tells(cut, top + 1, hist2)'
<1>0. /\ Shape /\ (\A d \in Clients : Working(d)) /\ Course(c)
      /\ pc[c] = "commit" /\ ~Imports(c) /\ pointer = base[c] /\ pointer.format = "compact"
      /\ Stands(c, cut, top, hist) /\ IsSeq(pointer.log)
  BY DEF LogInv, AnswersInv, WorkInv, Committed_, Tells, Shape, LogOK
<1>1. /\ top \in Nat /\ cut \in 0..top /\ top = Len(pointer.log)
      /\ \A n \in cut..top : IsSeq(hist[n].log) /\ Len(hist[n].log) = n
      /\ hist[top].log = pointer.log
      /\ \A k \in (cut + 1)..top : pointer.log[k].at \in Nat
  BY HistorySays
<1>2. PICK op : draft[c].log = Append(pointer.log, op) /\ pointer'.log = Append(pointer.log, op)
  BY DEF Committed_
<1>3. /\ Len(pointer'.log) = top + 1 /\ pointer'.log[top + 1] = op
      /\ \A i \in 1..top : pointer'.log[i] = pointer.log[i]
  BY <1>0, <1>1, <1>2, AppendFacts
<1>5. hist2[top + 1] = draft[c] /\ \A n \in cut..top : hist2[n] = hist[n]
  OBVIOUS
<1>6. Succeeds(draft[c], hist[top])
  BY <1>0, <1>1 DEF Stands, Drafting
<1>7. /\ draft[c].updatedAt \in Nat
      /\ \A i \in 1..top : pointer.log[i].at <= draft[c].updatedAt
  <2>1. Generation(draft[c])
    BY <1>0 DEF Course, Derives, Drafting
  <2>2. /\ draft[c].updatedAt \in Nat
        /\ \A i \in 1..Len(draft[c].log) : draft[c].log[i].at <= draft[c].updatedAt
    BY <2>1 DEF Generation
  <2>3. Len(draft[c].log) = top + 1 /\ \A i \in 1..top : draft[c].log[i] = pointer.log[i]
    BY <1>2, <1>3
  <2>4. ASSUME NEW i \in 1..top PROVE pointer.log[i].at <= draft[c].updatedAt
    <3>1. i \in 1..(top + 1) BY <1>1
    <3>. QED BY <2>2, <2>3, <3>1
  <2>. QED BY <2>2, <2>4
<1>8. History(pointer'.log, cut, hist2)
  <2>1. PICK log : log = pointer.log OBVIOUS
  <2>2. PICK next : next = draft[c] OBVIOUS
  <2>3. /\ IsSeq(log) /\ History(log, cut, hist) /\ Succeeds(next, hist[Len(log)])
        /\ next.log = Append(log, op) /\ next.updatedAt \in Nat
        /\ \A i \in 1..Len(log) : log[i].at <= next.updatedAt
        /\ hist2[Len(log) + 1] = next /\ \A n \in cut..Len(log) : hist2[n] = hist[n]
    BY <1>0, <1>1, <1>2, <1>5, <1>6, <1>7, <2>1, <2>2 DEF Tells
  <2>4. History(Append(log, op), cut, hist2)
    BY <2>3, HistoryGrows
  <2>. QED BY <1>2, <2>1, <2>4
<1>9. pointer' # pointer
  <2>1. Len(pointer'.log) # Len(pointer.log) BY <1>1, <1>3
  <2>. QED BY <2>1
<1>10. UNCHANGED <<metas, shards, lost, now>> /\ pc'[c] # "bundle"
  BY <1>9, PublishesOnly
<1>11. StoredAre(cut, top + 1, hist2)'
  <2>1. ASSUME NEW n \in cut..(top + 1), hist2[n].log \in DOMAIN metas
        PROVE  metas[hist2[n].log] = hist2[n]
    <3>1. CASE n = top + 1
      BY <1>0, <1>5, <3>1 DEF Ready
    <3>2. CASE n # top + 1
      <4>1. n \in cut..top BY <1>1, <3>2
      <4>. QED BY <1>5, <2>1, <4>1 DEF Tells, StoredAre
    <3>. QED BY <3>1, <3>2
  <2>. QED BY <1>10, <2>1 DEF StoredAre
<1>12. ASSUME NEW n \in cut..top, Within(n)', Reachable(n, cut, hist2)'
       PROVE  PinnedRefs(hist[n]) \subseteq shards' \cup lost'
  <2>1. Within(n)
    <3>1. \A i \in (cut + 1)..top : pointer'.log[i] = pointer.log[i] BY <1>1, <1>3
    <3>2. Len(pointer'.log) \in Nat /\ top <= Len(pointer'.log) BY <1>1, <1>3
    <3>. QED BY <1>12, <3>1, <3>2, WithinBefore
  <2>2. Reachable(n, cut, hist)
    <3>1. CASE n = cut \/ hist2[n].log \in DOMAIN metas
      BY <1>5, <3>1 DEF Reachable
    <3>2. ASSUME NEW d \in Clients, pc'[d] = "bundle", Len(base'[d].log) = n
          PROVE  Reachable(n, cut, hist)
      <4>1. d # c BY <1>10, <3>2
      <4>2. pc[d] = "bundle" /\ base'[d] = base[d] BY <1>0, <3>2, <4>1, StepAlone DEF Alone
      <4>. QED BY <3>2, <4>2 DEF Reachable
    <3>. QED BY <1>10, <1>12, <3>1, <3>2 DEF Reachable
  <2>. QED BY <1>10, <2>1, <2>2 DEF Tells, Spared
<1>13. PinnedRefs(draft[c]) \subseteq shards' \cup lost'
  <2>1. Within(top) BY <1>1 DEF Within
  <2>2. Reachable(top, cut, hist)
    <3>1. pointer.log \in DOMAIN metas BY <1>0 DEF LogInv, PointerIs
    <3>. QED BY <1>1, <3>1 DEF Reachable
  <2>3. PinnedRefs(hist[top]) \subseteq shards \cup lost
    BY <1>1, <2>1, <2>2 DEF Tells, Spared
  <2>4. draft[c].introducedRefs \subseteq shards \cup lost
    BY <1>0 DEF Filled
  <2>5. PinnedRefs(draft[c]) \subseteq PinnedRefs(hist[top]) \cup draft[c].introducedRefs
    BY <1>6 DEF Succeeds
  <2>. QED BY <1>10, <2>3, <2>4, <2>5
<1>14. Spared(cut, top + 1, hist2)'
  <2>1. ASSUME NEW n \in cut..(top + 1), Within(n)', Reachable(n, cut, hist2)'
        PROVE  PinnedRefs(hist2[n]) \subseteq shards' \cup lost'
    <3>1. CASE n = top + 1 BY <1>5, <1>13, <3>1
    <3>2. CASE n # top + 1
      <4>1. n \in cut..top BY <1>1, <3>2
      <4>. QED BY <1>5, <1>12, <2>1, <4>1
    <3>. QED BY <3>1, <3>2
  <2>. QED BY <2>1 DEF Spared
<1>15. ASSUME NEW d \in Clients PROVE Stands(d, cut, top + 1, hist2)'
  <2>1. CASE d = c BY <1>5, <2>1, OwnPublishes
  <2>2. CASE d # c
    <3>1. Alone(c) BY <1>0, StepAlone
    <3>2. Stands(d, cut, top, hist) /\ (pc[d] = "bundle" => ~Imports(d))
      BY <1>0 DEF Tells, Working
    <3>3. top + 1 \in Nat /\ top <= top + 1 BY <1>1
    <3>4. /\ pc'[d] = pc[d] /\ call'[d] = call[d] /\ base'[d] = base[d] /\ held'[d] = held[d]
          /\ draft'[d] = draft[d] /\ cursor'[d] = cursor[d] /\ again'[d] = again[d]
      BY <2>2, <3>1 DEF Alone
    <3>. QED BY <1>1, <1>5, <3>2, <3>3, <3>4, StandsStays
  <2>. QED BY <2>1, <2>2
<1>16. (\A d \in Clients : Stands(d, cut, top + 1, hist2))' /\ (top + 1 = Len(pointer.log))'
  BY <1>3, <1>15
<1>. QED BY <1>8, <1>11, <1>14, <1>16 DEF Tells

\* The history of a log with one generation more.
Longer(cut, top, hist, next) == [n \in cut..(top + 1) |-> IF n = top + 1 THEN next ELSE hist[n]]

\* It ends with that generation and is the history there was before.
LEMMA LongerIs ==
  ASSUME NEW top \in Nat, NEW cut \in 0..top, NEW hist, NEW next,
         NEW hist2, hist2 = Longer(cut, top, hist, next)
  PROVE  hist2[top + 1] = next /\ \A n \in cut..top : hist2[n] = hist[n]
BY DEF Longer

\* migrate: an import that is published begins the history.
LEMMA TellsBegins ==
  ASSUME LogInv, \A d \in Clients : Importing(d) /\ Filled(d) /\ Ready(d), [Next]_vars,
         NEW c \in Clients, Steps(c), CutOver(c), pointer.format = "legacy",
         NEW top \in Nat, top = Len(pointer.log), NEW hist, hist[top] = draft[c]
  PROVE  Tells(top, top, hist)'
<1>0. /\ Shape /\ (\A d \in Clients : Working(d) /\ Behind(d)) /\ Importing(c) /\ Ready(c)
      /\ pc[c] = "commit" /\ Imports(c) /\ pointer = base[c]
      /\ pointer' = [format |-> "compact", log |-> pointer.log]
      /\ draft[c].log = pointer.log /\ IsSeq(pointer.log)
  BY DEF LogInv, AnswersInv, WorkInv, Course, CutOver, Shape, LogOK
<1>1. top \in Nat /\ top = Len(pointer.log)
  OBVIOUS
<1>2. pointer' # pointer
  BY <1>0
<1>3. UNCHANGED <<metas, shards, lost, now>> /\ pc'[c] \in {"idle", "sweep", "pointer"}
  BY <1>2, PublishesOnly
<1>5. hist[top] = draft[c] /\ draft[c] = Imported(pointer.log)
  BY <1>0 DEF Importing, Drafting
<1>6. History(pointer'.log, top, hist)
  <2>1. PICK log : log = pointer.log OBVIOUS
  <2>2. IsSeq(log) /\ hist[Len(log)] = Imported(log) BY <1>0, <1>1, <1>5, <2>1
  <2>3. History(log, Len(log), hist) BY <2>2, HistoryBegins
  <2>. QED BY <1>0, <1>1, <2>1, <2>3
<1>7. \A n \in top..top : n = top
  BY <1>1
<1>8. StoredAre(top, top, hist)'
  <2>1. metas'[hist[top].log] = hist[top]
    BY <1>0, <1>3, <1>5 DEF Ready
  <2>. QED BY <1>7, <2>1 DEF StoredAre
<1>9. Spared(top, top, hist)'
  <2>1. PinnedRefs(hist[top]) \subseteq shards'
    BY <1>0, <1>3, <1>5 DEF Importing, Drafting
  <2>. QED BY <1>7, <2>1 DEF Spared
<1>10. ASSUME NEW d \in Clients PROVE Stands(d, top, top, hist)'
  <2>1. CASE d = c
    <3>1. pc'[c] # "sweep"
      BY <1>0, <1>3 DEF Steps, Commit, CommitUnanswered, Return, Shape, Imports, Goto, Call, ReadPointer, ReadMeta, ReadBundle,
         ReadLegacy, PostShards, PostMeta, Sweep, SweepRefused, SweepGeneration, SweepEnds, Crash
    <3>. QED BY <1>3, <2>1, <3>1 DEF Stands, Drafting
  <2>2. CASE d # c
    <3>1. Alone(c) BY <1>0, StepAlone
    <3>2. pc'[d] = pc[d] /\ call'[d] = call[d] /\ base'[d] = base[d]
      BY <2>2, <3>1 DEF Alone
    <3>3. pc[d] # "idle" => Imports(d)
      BY <1>0 DEF Working
    <3>4. pc[d] \notin {"pointer", "meta", "bundle", "sweep"}
      BY <1>0, <3>3 DEF Working
    <3>5. pc[d] \in {"legacy"} \cup Drafting => Len(base[d].log) <= top
      BY <1>0, <1>1 DEF Behind, Resolved
    <3>6. Imports(d)' = Imports(d) BY <3>2 DEF Imports
    <3>7. pc[d] \in {"meta", "bundle"} \cup Drafting => Imports(d)
      BY <3>3 DEF Drafting
    <3>. QED BY <3>2, <3>4, <3>5, <3>6, <3>7 DEF Stands
  <2>. QED BY <2>1, <2>2
<1>11. (\A d \in Clients : Stands(d, top, top, hist))' /\ (top = Len(pointer.log))'
  BY <1>0, <1>1, <1>10
<1>. QED BY <1>6, <1>8, <1>9, <1>11 DEF Tells

\* Each step keeps the inductive invariant of reclamation.
LEMMA ReclaimStep == ReclaimInv /\ [Next]_vars => ReclaimInv'
<1>. SUFFICES ASSUME ReclaimInv, [Next]_vars PROVE ReclaimInv'
  OBVIOUS
<1>0. /\ LogInv /\ WorkInv /\ Shape /\ (\A c \in Clients : Working(c))
      /\ \A c \in Clients : Importing(c) /\ Filled(c) /\ Ready(c)
      /\ pointer.format \in {"compact", "legacy"}
  BY DEF ReclaimInv, LogInv, AnswersInv, WorkInv, Shape
<1>1. LogInv'
  BY <1>0, LogStep
<1>2. ASSUME NEW d \in Clients, UNCHANGED <<pc, call, base, draft>>
      PROVE  Importing(d)' /\ Filled(d)' /\ Ready(d)'
  BY <1>0, <1>2, ImportingStays, FilledStays, ReadyStays
<1>3. ASSUME NEW d \in Clients PROVE Importing(d)' /\ Filled(d)' /\ Ready(d)'
  <2>1. ASSUME NEW c \in Clients, Steps(c), d # c
        PROVE  Importing(d)' /\ Filled(d)' /\ Ready(d)'
    <3>1. pc'[d] = pc[d] /\ call'[d] = call[d] /\ base'[d] = base[d] /\ draft'[d] = draft[d]
      BY <1>0, <2>1, StepAlone DEF Alone
    <3>. QED BY <1>0, <3>1, ImportingStays, FilledStays, ReadyStays
  <2>2. ASSUME Steps(d)
        PROVE  Importing(d)' /\ Filled(d)' /\ Ready(d)'
    <3>1. Importing(d)' /\ Ready(d)'
      BY <1>0, <2>2, OwnImporting, OwnReady
    <3>2. pc[d] = "post" /\ ~Imports(d) => draft[d].retainsMetaRef # {}
      <4>1. SUFFICES ASSUME pc[d] = "post", ~Imports(d) PROVE draft[d].retainsMetaRef # {}
        OBVIOUS
      <4>2. pointer.format = "compact" BY <1>0, <4>1 DEF Working
      <4>3. PICK cut, top, hist : Tells(cut, top, hist) BY <4>2 DEF ReclaimInv
      <4>4. Succeeds(draft[d], hist[Len(base[d].log)]) BY <4>1, <4>3 DEF Tells, Stands, Drafting
      <4>. QED BY <4>4 DEF Succeeds
    <3>3. Filled(d)'
      BY <1>0, <2>2, <3>2, OwnFilled
    <3>. QED BY <3>1, <3>3
  <2>3. CASE LegacyAppend \/ Tick \/ UNCHANGED vars
    <3>1. UNCHANGED <<pc, call, base, draft>>
      BY <2>3 DEF LegacyAppend, Tick, vars, client
    <3>. QED BY <1>2, <3>1
  <2>. QED BY <2>1, <2>2, <2>3 DEF Next, Steps
<1>4. ASSUME pointer'.format = "compact" PROVE \E cut, top, hist : Tells(cut, top, hist)'
  <2>1. CASE UNCHANGED pointer
    <3>1. PICK cut, top, hist : Tells(cut, top, hist) BY <1>4, <2>1 DEF ReclaimInv
    <3>2. Tells(cut, top, hist)' BY <1>0, <1>4, <2>1, <3>1, TellsStays
    <3>. QED BY <3>2
  <2>2. ASSUME NEW c \in Clients, Steps(c), Committed_(c)
        PROVE  \E cut, top, hist : Tells(cut, top, hist)'
    <3>1. PICK cut, top, hist : Tells(cut, top, hist) BY <2>2 DEF ReclaimInv, Committed_
    <3>2. top \in Nat /\ cut \in 0..top BY <3>1, HistorySays
    <3>3. PICK hist2 : hist2 = Longer(cut, top, hist, draft[c]) OBVIOUS
    <3>4. hist2[top + 1] = draft[c] /\ \A n \in cut..top : hist2[n] = hist[n]
      BY <3>2, <3>3, LongerIs
    <3>5. Tells(cut, top + 1, hist2)' BY <1>0, <2>2, <3>1, <3>4, TellsGrows
    <3>. QED BY <3>5
  <2>3. ASSUME NEW c \in Clients, Steps(c), CutOver(c), ~UNCHANGED pointer
        PROVE  \E cut, top, hist : Tells(cut, top, hist)'
    <3>1. pointer.format = "legacy" BY <1>0, <2>3 DEF CutOver, Importing, Drafting
    <3>2. PICK top \in Nat : top = Len(pointer.log) BY <1>0, SeqFacts DEF Shape, LogOK
    <3>3. PICK hist : hist = [n \in top..top |-> draft[c]] OBVIOUS
    <3>4. hist[top] = draft[c] BY <3>3
    <3>5. Tells(top, top, hist)' BY <1>0, <2>3, <3>1, <3>2, <3>4, TellsBegins
    <3>. QED BY <3>5
  <2>4. ~OldAppends BY <1>4 DEF OldAppends
  <2>. QED BY <1>0, <2>1, <2>2, <2>3, <2>4, PublishedBy
<1>. QED BY <1>1, <1>3, <1>4, Zenon DEF ReclaimInv

\* A store of the new format begins with one generation.
LEMMA TellsFirst ==
  ASSUME Init, pointer.format = "compact", NEW hist, hist[0] = Imported(<< >>)
  PROVE  Tells(0, 0, hist)
<1>1. /\ pointer.log = << >> /\ metas = [log \in {<< >>} |-> Imported(log)]
      /\ shards = UNION {PinnedRefs(metas[log]) : log \in DOMAIN metas}
      /\ \A c \in Clients : pc[c] = "idle"
  BY DEF Init
<1>2. PICK first : first = Imported(<< >>)
  OBVIOUS
<1>3. metas[<< >>] = first /\ DOMAIN metas = {<< >>} /\ first.log = << >>
  BY <1>1, <1>2, ImportedNothing
<1>4. PinnedRefs(first) \subseteq shards
  BY <1>1, <1>3
<1>5. hist[0] = first /\ \A n \in 0..0 : n = 0
  BY <1>2
<1>6. Len(<< >>) = 0 /\ IsSeq(<< >>)
  BY SeqFacts DEF IsSeq
<1>7. History(pointer.log, 0, hist)
  <2>1. History(<< >>, Len(<< >>), hist) BY <1>2, <1>5, <1>6, HistoryBegins
  <2>. QED BY <1>1, <1>6, <2>1
<1>8. StoredAre(0, 0, hist)
  BY <1>3, <1>5 DEF StoredAre
<1>9. Spared(0, 0, hist)
  BY <1>4, <1>5 DEF Spared
<1>10. \A c \in Clients : Stands(c, 0, 0, hist)
  BY <1>1 DEF Stands, Drafting
<1>11. 0 = Len(pointer.log)
  BY <1>1, <1>6
<1>. QED BY <1>7, <1>8, <1>9, <1>10, <1>11 DEF Tells

\* A store begins with one generation, or with no compact log.
LEMMA ReclaimInit == Init => ReclaimInv
<1>. SUFFICES ASSUME Init PROVE ReclaimInv
  OBVIOUS
<1>1. LogInv /\ \A c \in Clients : pc[c] = "idle"
  BY LogInit DEF Init
<1>2. \A c \in Clients : Importing(c) /\ Filled(c) /\ Ready(c)
  BY <1>1 DEF Importing, Filled, Ready, Drafting
<1>3. ASSUME pointer.format = "compact" PROVE \E cut, top, hist : Tells(cut, top, hist)
  <2>1. PICK hist : hist = [n \in 0..0 |-> Imported(<< >>)]
    OBVIOUS
  <2>2. hist[0] = Imported(<< >>)
    BY <2>1
  <2>3. Tells(0, 0, hist)
    BY <1>3, <2>2, TellsFirst
  <2>. QED BY <2>3
<1>. QED BY <1>1, <1>2, <1>3, Zenon DEF ReclaimInv

\* BoardStore.PublishedReadable: what a reader of the pointer is told to fetch is
\* there: the meta of the published log, and every shard it pins but those a
\* sweep takes for want of knowing who put them back.
THEOREM PublishedStaysReadable == Spec => []PublishedReadable
<1>1. ReclaimInv => PublishedReadable
  <2>1. SUFFICES ASSUME ReclaimInv, pointer.format = "compact"
                 PROVE  /\ pointer.log \in DOMAIN metas
                        /\ PinnedRefs(metas[pointer.log]) \subseteq shards \cup lost
    BY DEF PublishedReadable
  <2>2. LogInv /\ pointer.log \in DOMAIN metas
    BY <2>1 DEF ReclaimInv, LogInv, PointerIs
  <2>3. PICK cut, top, hist : Tells(cut, top, hist)
    BY <2>1 DEF ReclaimInv
  <2>4. /\ top \in Nat /\ cut \in 0..top /\ top = Len(pointer.log)
        /\ hist[top].log = pointer.log
    BY <2>2, <2>3, HistorySays
  <2>5. top \in cut..top /\ Within(top) /\ Reachable(top, cut, hist)
    BY <2>2, <2>4 DEF Within, Reachable
  <2>6. metas[pointer.log] = hist[top]
    BY <2>2, <2>3, <2>4, <2>5 DEF Tells, StoredAre
  <2>7. PinnedRefs(hist[top]) \subseteq shards \cup lost
    BY <2>3, <2>5 DEF Tells, Spared
  <2>. QED BY <2>2, <2>6, <2>7
<1>. QED BY ReclaimInit, ReclaimStep, <1>1, PTL DEF Spec

\* BoardStore.ReaderWithinWindow: a reader that has the meta of a generation finds
\* every shard it pins as long as the window of that generation lasts, whatever
\* is published and swept meanwhile, but for the shards just named.
THEOREM ReadersFindTheirShards == Spec => []ReaderWithinWindow
<1>1. ReclaimInv => ReaderWithinWindow
  <2>1. SUFFICES ASSUME ReclaimInv, NEW c \in Clients, pc[c] = "bundle", WithinWindow(c)
                 PROVE  PinnedRefs(held[c]) \subseteq shards \cup lost
    BY DEF ReaderWithinWindow
  <2>2. LogInv /\ Working(c)
    BY <2>1 DEF ReclaimInv, LogInv, AnswersInv, WorkInv
  <2>3. ~Imports(c) /\ pointer.format = "compact"
    BY <2>1, <2>2 DEF Working
  <2>4. PICK cut, top, hist : Tells(cut, top, hist)
    BY <2>1, <2>3 DEF ReclaimInv
  <2>5. PICK n : n = Len(base[c].log)
    OBVIOUS
  <2>6. n \in cut..top /\ held[c] = hist[n]
    BY <2>1, <2>3, <2>4, <2>5 DEF Tells, Stands
  <2>7. Within(n) /\ Reachable(n, cut, hist)
    BY <2>1, <2>5 DEF WithinWindow, Within, Reachable
  <2>8. PinnedRefs(hist[n]) \subseteq shards \cup lost
    BY <2>4, <2>6, <2>7 DEF Tells, Spared
  <2>. QED BY <2>6, <2>8
<1>. QED BY ReclaimInit, ReclaimStep, <1>1, PTL DEF Spec

-----------------------------------------------------------------------------
(* What a call works on *)

\* A log of old builds only.
AllOld(log) == \A i \in 1..Len(log) : log[i].id[1] = "legacy"

\* The last operation of a log is that of a call.
LastBy(log, id) == Len(log) > 0 /\ log[Len(log)].id = id

\* A call that goes on is one its client may make.
Requested(c) == IF pc[c] = "idle" THEN ~Imports(c) ELSE call[c] \in Requests[c][calls[c]]

\* An import works on what old builds wrote.
FromOld(c) == pc[c] \in Resolved /\ Imports(c) => AllOld(base[c].log)

\* A call that has lost the pointer has lost it to a longer log.
Outrun(c) ==
  pc[c] \in Resolved /\ ~Imports(c) /\ base[c] # pointer => Len(base[c].log) < Len(pointer.log)

\* What an append has described in earlier attempts is no longer than what it
\* works on now.
Fresh(c) ==
  \A log \in DOMAIN metas : LastBy(log, Id(c)) =>
    /\ pc[c] = "pointer" => Len(log) <= Len(pointer.log)
    /\ pc[c] \in {"meta", "bundle", "post", "describe"} /\ ~Imports(c)
         => Len(log) <= Len(base[c].log)
    /\ pc[c] = "commit" /\ ~Imports(c) => Len(log) <= Len(base[c].log) + 1

\* A stored generation of an old log is its import.
StoredOld == \A log \in DOMAIN metas : AllOld(log) => metas[log] = Imported(log)

\* Nothing is stored of a call that has not been made.
NoneAhead ==
  \A log \in DOMAIN metas : \A c \in Clients, k \in Nat : LastBy(log, <<c, k>>) => k <= calls[c]

CallsInv ==
  /\ ReclaimInv /\ StoredOld /\ NoneAhead /\ faults \in Nat
  /\ \A c \in Clients : Requested(c) /\ FromOld(c) /\ Outrun(c) /\ Fresh(c)

\* What one step makes of a call: it is over, begins, begins another attempt,
\* has to, or goes on with what it resolved.
Leaves(c) == /\ pc'[c] = "idle"
             /\ call'[c].kind = "none" \/ (pc[c] = "idle" /\ call'[c] = call[c])
Begins(c) == /\ pc[c] = "idle" /\ pc'[c] \in {"legacy", "meta"}
             /\ calls'[c] = calls[c] + 1 /\ call'[c] \in Requests[c][calls'[c]]
             /\ base'[c] = pointer /\ UNCHANGED <<pointer, metas>>
Retries(c) == /\ pc[c] = "pointer" /\ pc'[c] \in {"legacy", "meta"}
              /\ calls'[c] = calls[c] /\ call'[c] = call[c]
              /\ base'[c] = pointer /\ UNCHANGED <<pointer, metas>>
Loses(c) == /\ pc[c] = "commit" /\ pc'[c] = "pointer"
            /\ calls'[c] = calls[c] /\ call'[c] = call[c]
            /\ pointer # base[c] /\ UNCHANGED <<pointer, metas>>
Continues(c) == /\ pc[c] \in Resolved /\ pc'[c] \in Resolved
                /\ calls'[c] = calls[c] /\ call'[c] = call[c] /\ base'[c] = base[c]
                /\ pc'[c] \in {"meta", "bundle", "post", "describe"} =>
                     pc[c] \in {"legacy", "meta", "bundle", "post"} /\ UNCHANGED metas
                /\ pc'[c] = "commit" =>
                     pc[c] = "describe" /\ metas' = Put(metas, draft[c].log, draft[c])

\* A client that returns leaves its call.
LEMMA ReturnLeaves ==
  ASSUME Shape, NEW c \in Clients, NEW answer, Return(c, answer)
  PROVE  Leaves(c)
<1>1. pc'[c] = "idle" /\ call'[c] = [kind |-> "none"]
  BY DEF Shape, Return
<1>. QED BY <1>1 DEF Leaves

\* Each step of a client is one of these.
LEMMA CallMoves ==
  ASSUME Shape, NEW c \in Clients, Steps(c)
  PROVE  Leaves(c) \/ Begins(c) \/ Retries(c) \/ Loses(c) \/ Continues(c)
<1>1. ASSUME NEW answer, Return(c, answer) PROVE Leaves(c)
  BY <1>1, ReturnLeaves
<1>2. CASE Call(c)
  <2>1. PICK req \in Requests[c][calls[c] + 1] :
          \/ UNCHANGED <<pc, call, attempts, base>>
          \/ call' = [call EXCEPT ![c] = req] /\ Resolve(c, req.kind)
    BY <1>2 DEF Call
  <2>2. pc[c] = "idle" /\ calls'[c] = calls[c] + 1 /\ UNCHANGED <<pointer, metas>>
    BY <1>2 DEF Call, Shape, object
  <2>3. CASE UNCHANGED <<pc, call, attempts, base>>
    BY <2>2, <2>3 DEF Leaves
  <2>4. CASE call' = [call EXCEPT ![c] = req] /\ Resolve(c, req.kind)
    <3>1. call'[c] = req /\ base'[c] = pointer /\ pc'[c] \in {"legacy", "meta"}
      BY <2>4 DEF Shape, Resolve, Goto
    <3>. QED BY <2>1, <2>2, <3>1 DEF Begins
  <2>. QED BY <2>1, <2>3, <2>4
<1>3. CASE ReadPointer(c)
  <2>1. /\ pc[c] = "pointer" /\ UNCHANGED <<pointer, metas, call, calls>>
        /\ base'[c] = pointer /\ pc'[c] \in {"legacy", "meta"}
    BY <1>3 DEF ReadPointer, Shape, Resolve, Goto, object
  <2>. QED BY <2>1 DEF Retries
<1>4. CASE ReadMeta(c)
  <2>1. CASE Goto(c, "bundle") /\ UNCHANGED <<call, calls, base>>
    <3>1. pc[c] = "meta" /\ pc'[c] = "bundle" /\ UNCHANGED <<metas, call, calls, base>>
      BY <1>4, <2>1 DEF ReadMeta, Shape, Goto, object
    <3>. QED BY <3>1 DEF Continues, Resolved, Drafting
  <2>. QED BY <1>1, <1>4, <2>1 DEF ReadMeta
<1>5. CASE ReadBundle(c)
  <2>1. CASE Goto(c, "post") /\ UNCHANGED <<call, base>>
    <3>1. pc[c] = "bundle" /\ pc'[c] = "post" /\ UNCHANGED <<metas, call, calls, base>>
      BY <1>5, <2>1 DEF ReadBundle, Shape, Goto, object
    <3>. QED BY <3>1 DEF Continues, Resolved, Drafting
  <2>. QED BY <1>1, <1>5, <2>1 DEF ReadBundle
<1>6. CASE ReadLegacy(c)
  <2>1. pc[c] = "legacy" /\ pc'[c] = "post" /\ UNCHANGED <<metas, call, calls, base>>
    BY <1>6 DEF ReadLegacy, Shape, Goto, object
  <2>. QED BY <2>1 DEF Continues, Resolved, Drafting
<1>7. CASE PostShards(c)
  <2>1. pc[c] = "post" /\ pc'[c] = "describe" /\ UNCHANGED <<metas, call, calls, base>>
    BY <1>7 DEF PostShards, Shape, Goto
  <2>. QED BY <2>1 DEF Continues, Resolved, Drafting
<1>8. CASE PostMeta(c)
  <2>1. CASE Goto(c, "commit") /\ UNCHANGED <<call, base>>
    <3>1. /\ pc[c] = "describe" /\ pc'[c] = "commit" /\ UNCHANGED <<call, calls, base>>
          /\ metas' = Put(metas, draft[c].log, draft[c])
      BY <1>8, <2>1 DEF PostMeta, Shape, Goto
    <3>. QED BY <3>1 DEF Continues, Resolved, Drafting
  <2>. QED BY <1>1, <1>8, <2>1 DEF PostMeta
<1>9. CASE Commit(c)
  <2>0. pc[c] = "commit" /\ UNCHANGED <<metas, calls>>
    BY <1>9 DEF Commit
  <2>1. CASE Goto(c, "sweep") /\ UNCHANGED <<call, base>>
    <3>1. pc'[c] = "sweep"
      BY <2>1 DEF Shape, Goto
    <3>. QED BY <2>0, <2>1, <3>1 DEF Continues, Resolved, Drafting
  <2>2. CASE ~IfMatch(c) /\ Goto(c, "pointer") /\ UNCHANGED <<pointer, call>>
    <3>1. pc'[c] = "pointer" /\ pointer # base[c]
      BY <2>2 DEF Shape, Goto, IfMatch
    <3>. QED BY <2>0, <2>2, <3>1 DEF Loses
  <2>. QED BY <1>1, <1>9, <2>1, <2>2 DEF Commit
<1>10. CASE CommitUnanswered(c) \/ SweepEnds(c) \/ Crash(c)
  BY <1>1, <1>10 DEF CommitUnanswered, SweepEnds, Crash
<1>11. CASE Sweep(c) \/ SweepRefused(c)
  <2>1. PICK refused \in BOOLEAN : SweepGeneration(c, refused)
    BY <1>11 DEF Sweep, SweepRefused
  <2>2. CASE UNCHANGED <<pc, call, base>>
    <3>1. pc[c] = "sweep" /\ pc'[c] = "sweep" /\ UNCHANGED <<call, calls, base>>
      BY <2>1, <2>2 DEF SweepGeneration
    <3>. QED BY <3>1 DEF Continues, Resolved, Drafting
  <2>. QED BY <1>1, <2>1, <2>2 DEF SweepGeneration
<1>. QED BY <1>2, <1>3, <1>4, <1>5, <1>6, <1>7, <1>8, <1>9, <1>10, <1>11 DEF Steps

\* A call that goes on stays one its client may make.
LEMMA RequestedStays ==
  ASSUME Shape, NEW c \in Clients, Requested(c), Steps(c)
  PROVE  Requested(c)'
<1>1. CASE Leaves(c) BY <1>1 DEF Leaves, Requested, Imports
<1>2. CASE Begins(c) BY <1>2 DEF Begins, Requested
<1>3. CASE Retries(c) BY <1>3 DEF Retries, Requested
<1>4. CASE Loses(c) BY <1>4 DEF Loses, Requested
<1>5. CASE Continues(c) BY <1>5 DEF Continues, Requested, Resolved, Drafting
<1>. QED BY <1>1, <1>2, <1>3, <1>4, <1>5, CallMoves

\* readLegacyBoard: an import resolves a pointer of old builds.
LEMMA FromOldStays ==
  ASSUME ReclaimInv, ReclaimInv', NEW c \in Clients, FromOld(c), Steps(c)
  PROVE  FromOld(c)'
<1>0. Shape /\ PointerIs /\ Importing(c)' /\ Working(c)'
  BY DEF ReclaimInv, LogInv, AnswersInv, WorkInv
<1>1. ASSUME base'[c] = pointer, pc'[c] \in {"legacy", "meta"} PROVE FromOld(c)'
  <2>1. SUFFICES ASSUME Imports(c)' PROVE AllOld(pointer.log)
    BY <1>1 DEF FromOld
  <2>2. pc'[c] = "legacy"
    BY <1>0, <1>1, <2>1 DEF Working
  <2>3. pointer.format = "legacy"
    BY <1>0, <1>1, <2>1, <2>2 DEF Importing
  <2>4. ASSUME NEW i \in 1..Len(pointer.log) PROVE pointer.log[i].id[1] = "legacy"
    <3>1. pointer.log[i].id = <<"legacy", i - 1>> BY <1>0, <2>3 DEF PointerIs
    <3>. QED BY <3>1
  <2>. QED BY <2>4 DEF AllOld
<1>2. CASE Leaves(c) BY <1>2 DEF Leaves, FromOld, Resolved, Drafting
<1>3. CASE Begins(c) BY <1>1, <1>3 DEF Begins
<1>4. CASE Retries(c) BY <1>1, <1>4 DEF Retries
<1>5. CASE Loses(c) BY <1>5 DEF Loses, FromOld, Resolved, Drafting
<1>6. CASE Continues(c) BY <1>6 DEF Continues, FromOld, Imports
<1>. QED BY <1>0, <1>2, <1>3, <1>4, <1>5, <1>6, CallMoves

\* Whatever replaces the pointer a client resolved has a longer log.
LEMMA OutrunKept ==
  ASSUME LogInv, [Next]_vars, NEW d \in Clients, Outrun(d), pc[d] \in Resolved,
         base'[d] = base[d], call'[d] = call[d]
  PROVE  Outrun(d)'
<1>0. /\ WorkInv /\ Working(d) /\ Behind(d) /\ Len(base[d].log) \in Nat
  BY SeqFacts DEF LogInv, AnswersInv, WorkInv, Course, Working, LogOK
<1>. SUFFICES ASSUME ~Imports(d), base[d] # pointer'
              PROVE  Len(base[d].log) < Len(pointer'.log)
  BY DEF Outrun, Imports
<1>1. /\ Len(pointer.log) \in Nat /\ Len(pointer'.log) \in Nat
      /\ Len(pointer.log) <= Len(pointer'.log)
      /\ pointer' # pointer =>
              \/ Len(pointer.log) < Len(pointer'.log)
              \/ pointer.format # "compact" /\ pointer'.format = "compact"
  BY <1>0, PointerGrows
<1>2. pointer.format = "compact" /\ Len(base[d].log) <= Len(pointer.log)
  BY <1>0 DEF Working, Behind, Resolved, Drafting
<1>3. CASE base[d] # pointer
  <2>1. Len(base[d].log) < Len(pointer.log) BY <1>3 DEF Outrun
  <2>. QED BY <1>0, <1>1, <2>1
<1>4. CASE base[d] = pointer
  <2>1. Len(pointer.log) < Len(pointer'.log) BY <1>1, <1>2, <1>4
  <2>. QED BY <1>4, <2>1
<1>. QED BY <1>3, <1>4

\* The client that takes a step has lost its pointer to a longer log, or not.
LEMMA OutrunStays ==
  ASSUME LogInv, NEW c \in Clients, Outrun(c), Steps(c)
  PROVE  Outrun(c)'
<1>0. Shape /\ [Next]_vars
  BY DEF LogInv, AnswersInv, WorkInv, Next, Steps
<1>1. CASE Leaves(c) BY <1>1 DEF Leaves, Outrun, Resolved, Drafting
<1>2. CASE Begins(c) BY <1>2 DEF Begins, Outrun
<1>3. CASE Retries(c) BY <1>3 DEF Retries, Outrun
<1>4. CASE Loses(c) BY <1>4 DEF Loses, Outrun, Resolved, Drafting
<1>5. CASE Continues(c)
  <2>1. pc[c] \in Resolved /\ base'[c] = base[c] /\ call'[c] = call[c]
    BY <1>5 DEF Continues
  <2>. QED BY <1>0, <2>1, OutrunKept
<1>. QED BY <1>0, <1>1, <1>2, <1>3, <1>4, <1>5, CallMoves

\* What a client describes ends with its operation and is one longer than the
\* log it works on, or is an old log and its import.
LEMMA DescribedIs ==
  ASSUME ReclaimInv, NEW c \in Clients, pc[c] \in Drafting, FromOld(c)
  PROVE  /\ Imports(c) => AllOld(draft[c].log) /\ draft[c] = Imported(draft[c].log)
         /\ ~Imports(c) => /\ LastBy(draft[c].log, Id(c))
                           /\ Len(base[c].log) \in Nat
                           /\ Len(draft[c].log) = Len(base[c].log) + 1
         /\ \A id : LastBy(draft[c].log, id) /\ Imports(c) => id[1] = "legacy"
         /\ AllOld(draft[c].log) => Imports(c)
<1>0. Working(c) /\ Importing(c) /\ LogOK(draft[c].log) /\ LogOK(base[c].log)
  BY DraftLog DEF ReclaimInv, LogInv, AnswersInv, WorkInv, Working, Resolved
<1>1. ASSUME Imports(c)
      PROVE  AllOld(draft[c].log) /\ draft[c] = Imported(draft[c].log)
  BY <1>0, <1>1 DEF Working, Importing, FromOld, Resolved
<1>2. ASSUME ~Imports(c)
      PROVE  /\ LastBy(draft[c].log, Id(c)) /\ Len(base[c].log) \in Nat
             /\ Len(draft[c].log) = Len(base[c].log) + 1
  <2>1. PICK op : op.id = Id(c) /\ draft[c].log = Append(base[c].log, op)
    BY <1>0, <1>2 DEF Working
  <2>2. /\ Len(base[c].log) \in Nat /\ Len(draft[c].log) = Len(base[c].log) + 1
        /\ draft[c].log[Len(base[c].log) + 1] = op
    BY <1>0, <2>1, AppendFacts, SeqFacts DEF LogOK
  <2>. QED BY <2>1, <2>2 DEF LastBy
<1>3. Len(draft[c].log) \in Nat
  BY <1>0, SeqFacts DEF LogOK
<1>4. ASSUME NEW id, LastBy(draft[c].log, id), AllOld(draft[c].log) PROVE id[1] = "legacy"
  <2>1. Len(draft[c].log) \in 1..Len(draft[c].log)
    BY <1>3, <1>4 DEF LastBy
  <2>. QED BY <1>4, <2>1 DEF LastBy, AllOld
<1>5. ASSUME AllOld(draft[c].log), ~Imports(c) PROVE FALSE
  <2>1. Id(c)[1] = "legacy" BY <1>2, <1>4, <1>5
  <2>. QED BY <2>1, StoreAssumption DEF Id
<1>. QED BY <1>1, <1>2, <1>4, <1>5

\* What is stored after a step was stored before it, or is a draft.
LEMMA StoredBefore ==
  ASSUME [Next]_vars, NEW log \in DOMAIN metas'
  PROVE  \/ log \in DOMAIN metas /\ metas'[log] = metas[log]
         \/ \E c \in Clients : /\ Steps(c) /\ pc[c] = "describe" /\ log = draft[c].log
                               /\ metas'[log] = draft[c]
<1>1. ASSUME NEW c \in Clients, PostMeta(c)
      PROVE  pc[c] = "describe" /\ metas' = Put(metas, draft[c].log, draft[c])
  BY <1>1 DEF PostMeta
<1>2. ASSUME NEW c \in Clients, PostMeta(c)
      PROVE  \/ log \in DOMAIN metas /\ metas'[log] = metas[log]
             \/ /\ Steps(c) /\ pc[c] = "describe" /\ log = draft[c].log
                /\ metas'[log] = draft[c]
  <2>1. PICK name : name = draft[c].log OBVIOUS
  <2>2. PICK value : value = draft[c] OBVIOUS
  <2>3. metas' = Put(metas, name, value) BY <1>1, <1>2, <2>1, <2>2
  <2>4. CASE log = name
    BY <1>1, <1>2, <2>1, <2>2, <2>3, <2>4 DEF Put, Steps
  <2>5. CASE log # name
    BY <2>3, <2>5 DEF Put
  <2>. QED BY <2>4, <2>5
<1>3. ASSUME NEW c \in Clients, Steps(c), ~PostMeta(c)
      PROVE  log \in DOMAIN metas /\ metas'[log] = metas[log]
  <2>1. CASE Sweep(c) \/ SweepRefused(c)
    <3>1. UNCHANGED metas \/ \E old : metas' = [l \in DOMAIN metas \ {old} |-> metas[l]]
      BY <2>1 DEF Sweep, SweepRefused, SweepGeneration
    <3>. QED BY <3>1
  <2>2. CASE ~(Sweep(c) \/ SweepRefused(c))
    BY <1>3, <2>2 DEF Steps, Call, ReadPointer, ReadMeta, ReadBundle, ReadLegacy, PostShards,
                Commit, CommitUnanswered, SweepEnds, Crash, object
  <2>. QED BY <2>1, <2>2
<1>4. CASE LegacyAppend \/ Tick \/ UNCHANGED vars
  BY <1>4 DEF LegacyAppend, Tick, vars, object
<1>. QED BY <1>2, <1>3, <1>4 DEF Next, Steps

\* A client that takes no step stays fresh: nobody describes in its name.
LEMMA FreshKept ==
  ASSUME CallsInv, [Next]_vars, NEW d \in Clients,
         pc'[d] = pc[d], call'[d] = call[d], calls'[d] = calls[d], base'[d] = base[d],
         \A c \in Clients : Steps(c) => c # d
  PROVE  Fresh(d)'
<1>0. /\ ReclaimInv /\ WorkInv /\ Fresh(d) /\ Id(d)' = Id(d) /\ Imports(d)' = Imports(d)
      /\ \A c \in Clients : FromOld(c)
  BY DEF CallsInv, ReclaimInv, LogInv, AnswersInv, Id, Imports
<1>1. ASSUME NEW log \in DOMAIN metas', LastBy(log, Id(d)) PROVE log \in DOMAIN metas
  <2>1. ASSUME NEW c \in Clients, Steps(c), pc[c] = "describe", log = draft[c].log PROVE FALSE
    <3>1. pc[c] \in Drafting BY <2>1 DEF Drafting
    <3>2. CASE Imports(c)
      <4>1. Id(d)[1] = "legacy" BY <1>0, <1>1, <2>1, <3>1, <3>2, DescribedIs
      <4>. QED BY <4>1, StoreAssumption DEF Id
    <3>3. CASE ~Imports(c)
      <4>1. LastBy(log, Id(c)) BY <1>0, <2>1, <3>1, <3>3, DescribedIs
      <4>2. Id(c) = Id(d) BY <1>1, <4>1 DEF LastBy
      <4>. QED BY <2>1, <4>2 DEF Id
    <3>. QED BY <3>2, <3>3
  <2>. QED BY <1>1, <2>1, StoredBefore
<1>2. /\ Len(pointer.log) \in Nat /\ Len(pointer'.log) \in Nat
      /\ Len(pointer.log) <= Len(pointer'.log)
  BY <1>0, PointerGrows
<1>3. \A log \in DOMAIN metas : Len(log) \in Nat
  BY <1>0, SeqFacts DEF WorkInv, Stored, LogOK
<1>4. ASSUME NEW log \in DOMAIN metas, LastBy(log, Id(d)), pc[d] = "pointer"
      PROVE  Len(log) <= Len(pointer'.log)
  <2>1. Len(log) <= Len(pointer.log) BY <1>0, <1>4 DEF Fresh
  <2>. QED BY <1>2, <1>3, <2>1
<1>. QED BY <1>0, <1>1, <1>4 DEF Fresh

\* The client that takes a step describes what is longer than all it described
\* before.
LEMMA FreshStays ==
  ASSUME CallsInv, NEW c \in Clients, Steps(c)
  PROVE  Fresh(c)'
<1>0. /\ ReclaimInv /\ LogInv /\ WorkInv /\ Shape /\ Working(c) /\ Fresh(c) /\ NoneAhead
      /\ FromOld(c) /\ Outrun(c) /\ [Next]_vars
      /\ \A log \in DOMAIN metas : Len(log) \in Nat
  BY SeqFacts DEF CallsInv, ReclaimInv, LogInv, AnswersInv, WorkInv, Stored, LogOK, Next, Steps
<1>1. CASE Leaves(c) BY <1>1 DEF Leaves, Fresh
<1>2. CASE Begins(c)
  <2>1. ASSUME NEW log \in DOMAIN metas, LastBy(log, Id(c)') PROVE FALSE
    <3>1. calls[c] \in Nat /\ calls[c] + 1 \in Nat /\ Id(c)' = <<c, calls[c] + 1>>
      BY <1>0, <1>2 DEF Shape, Begins, Id
    <3>2. calls[c] + 1 <= calls[c] BY <1>0, <2>1, <3>1 DEF NoneAhead
    <3>. QED BY <3>1, <3>2
  <2>. QED BY <1>2, <2>1 DEF Begins, Fresh
<1>3. CASE Retries(c)
  <2>1. Id(c)' = Id(c) BY <1>3 DEF Retries, Id
  <2>. QED BY <1>0, <1>3, <2>1 DEF Retries, Fresh
<1>4. CASE Loses(c)
  <2>1. Id(c)' = Id(c) /\ pc[c] = "commit" /\ pc'[c] = "pointer" /\ UNCHANGED <<pointer, metas>>
        /\ pointer # base[c] /\ call'[c] = call[c]
    BY <1>4 DEF Loses, Id
  <2>2. ~Imports(c)
    <3>1. Working(c)' BY <1>0, OwnWork
    <3>. QED BY <2>1, <3>1 DEF Working, Imports
  <2>3. Len(base[c].log) < Len(pointer.log)
    BY <1>0, <2>1, <2>2 DEF Outrun, Resolved, Drafting
  <2>4. Len(base[c].log) \in Nat /\ Len(pointer.log) \in Nat
    BY <1>0, <2>1, SeqFacts DEF Working, Shape, LogOK, Resolved, Drafting
  <2>5. ASSUME NEW log \in DOMAIN metas, LastBy(log, Id(c)) PROVE Len(log) <= Len(pointer.log)
    <3>1. Len(log) <= Len(base[c].log) + 1 BY <1>0, <2>1, <2>2, <2>5 DEF Fresh
    <3>. QED BY <1>0, <2>3, <2>4, <3>1
  <2>. QED BY <2>1, <2>5 DEF Fresh
<1>5. CASE Continues(c)
  <2>1. /\ Id(c)' = Id(c) /\ Imports(c)' = Imports(c) /\ base'[c] = base[c] /\ pc'[c] # "pointer"
    BY <1>5 DEF Continues, Id, Imports, Resolved, Drafting
  <2>2. CASE pc'[c] \in {"meta", "bundle", "post", "describe"}
    <3>1. pc[c] \in {"legacy", "meta", "bundle", "post"} /\ UNCHANGED metas
      BY <1>5, <2>2 DEF Continues
    <3>2. ASSUME NEW log \in DOMAIN metas, LastBy(log, Id(c)), ~Imports(c)
          PROVE  Len(log) <= Len(base[c].log)
      BY <1>0, <3>1, <3>2 DEF Fresh, Working
    <3>. QED BY <2>1, <2>2, <3>1, <3>2 DEF Fresh
  <2>3. CASE pc'[c] = "commit"
    <3>1. pc[c] = "describe" /\ metas' = Put(metas, draft[c].log, draft[c])
      BY <1>5, <2>3 DEF Continues
    <3>2. ASSUME NEW log \in DOMAIN metas', LastBy(log, Id(c)), ~Imports(c)
          PROVE  Len(log) <= Len(base[c].log) + 1
      <4>1. Len(draft[c].log) = Len(base[c].log) + 1 /\ Len(base[c].log) \in Nat
        BY <1>0, <3>1, <3>2, DescribedIs DEF Drafting
      <4>2. CASE log = draft[c].log BY <4>1, <4>2
      <4>3. CASE log # draft[c].log
        <5>1. log \in DOMAIN metas BY <3>1, <3>2, <4>3 DEF Put
        <5>2. Len(log) <= Len(base[c].log) BY <1>0, <3>1, <3>2, <5>1 DEF Fresh
        <5>. QED BY <1>0, <4>1, <5>1, <5>2
      <4>. QED BY <4>2, <4>3
    <3>. QED BY <2>1, <2>3, <3>2 DEF Fresh
  <2>4. CASE pc'[c] \notin {"meta", "bundle", "post", "describe", "commit"}
    BY <2>1, <2>4 DEF Fresh
  <2>. QED BY <2>2, <2>3, <2>4
<1>. QED BY <1>0, <1>1, <1>2, <1>3, <1>4, <1>5, CallMoves

\* A client's calls are counted up.
LEMMA CallsCount ==
  ASSUME Shape, [Next]_vars, NEW d \in Clients
  PROVE  calls[d] \in Nat /\ calls'[d] \in Nat /\ calls[d] <= calls'[d]
<1>0. calls[d] \in Nat
  BY DEF Shape
<1>1. ASSUME NEW c \in Clients, Steps(c) PROVE calls'[d] = calls[d] \/ calls'[d] = calls[d] + 1
  <2>1. CASE c # d BY <1>1, <2>1, StepAlone DEF Alone
  <2>2. CASE c = d
    <3>1. CASE Call(c) BY <2>2, <3>1 DEF Call, Shape
    <3>2. CASE ~Call(c)
      <4>1. UNCHANGED calls
        BY <1>1, <3>2 DEF Steps, ReadPointer, ReadMeta, ReadBundle, ReadLegacy, PostShards, PostMeta,
                    Commit, CommitUnanswered, Sweep, SweepRefused, SweepGeneration, SweepEnds, Crash
      <4>. QED BY <4>1
    <3>. QED BY <3>1, <3>2
  <2>. QED BY <2>1, <2>2
<1>2. ASSUME LegacyAppend \/ Tick \/ UNCHANGED vars PROVE UNCHANGED calls
  BY <1>2 DEF LegacyAppend, Tick, vars, client
<1>3. calls'[d] = calls[d] \/ calls'[d] = calls[d] + 1
  <2>1. CASE \E c \in Clients : Steps(c) BY <1>1, <2>1
  <2>2. CASE LegacyAppend \/ Tick \/ UNCHANGED vars BY <1>2, <2>2
  <2>. QED BY <2>1, <2>2 DEF Next, Steps
<1>. QED BY <1>0, <1>3

\* Nothing comes to be stored of a call that has not been made.
LEMMA NoneAheadStays ==
  ASSUME CallsInv, [Next]_vars
  PROVE  NoneAhead'
<1>0. ReclaimInv /\ Shape /\ NoneAhead /\ \A c \in Clients : FromOld(c)
  BY DEF CallsInv, ReclaimInv, LogInv, AnswersInv, WorkInv
<1>. SUFFICES ASSUME NEW log \in DOMAIN metas', NEW d \in Clients, NEW k \in Nat,
                     LastBy(log, <<d, k>>)
              PROVE  k <= calls'[d]
  BY DEF NoneAhead
<1>1. calls[d] \in Nat /\ calls'[d] \in Nat /\ calls[d] <= calls'[d]
  BY <1>0, CallsCount
<1>2. CASE log \in DOMAIN metas
  <2>1. k <= calls[d] BY <1>0, <1>2 DEF NoneAhead
  <2>. QED BY <1>1, <2>1
<1>3. ASSUME NEW c \in Clients, pc[c] = "describe", log = draft[c].log PROVE k <= calls'[d]
  <2>1. pc[c] \in Drafting BY <1>3 DEF Drafting
  <2>2. CASE Imports(c)
    <3>1. <<d, k>>[1] = "legacy" BY <1>0, <1>3, <2>1, <2>2, DescribedIs
    <3>. QED BY <3>1, StoreAssumption
  <2>3. CASE ~Imports(c)
    <3>1. LastBy(log, Id(c)) BY <1>0, <1>3, <2>1, <2>3, DescribedIs
    <3>2. <<d, k>> = <<c, calls[c]>> BY <3>1 DEF LastBy, Id
    <3>. QED BY <1>1, <3>2
  <2>. QED BY <2>2, <2>3
<1>. QED BY <1>2, <1>3, StoredBefore

\* A stored generation of an old log stays its import.
LEMMA StoredOldStays ==
  ASSUME CallsInv, [Next]_vars
  PROVE  StoredOld'
<1>0. ReclaimInv /\ StoredOld /\ \A c \in Clients : FromOld(c)
  BY DEF CallsInv
<1>. SUFFICES ASSUME NEW log \in DOMAIN metas', AllOld(log) PROVE metas'[log] = Imported(log)
  BY DEF StoredOld
<1>1. CASE log \in DOMAIN metas /\ metas'[log] = metas[log]
  BY <1>0, <1>1 DEF StoredOld
<1>2. ASSUME NEW c \in Clients, pc[c] = "describe", log = draft[c].log, metas'[log] = draft[c]
      PROVE  metas'[log] = Imported(log)
  <2>1. pc[c] \in Drafting BY <1>2 DEF Drafting
  <2>2. Imports(c) BY <1>0, <1>2, <2>1, DescribedIs
  <2>3. draft[c] = Imported(draft[c].log) BY <1>0, <2>1, <2>2, DescribedIs
  <2>. QED BY <1>2, <2>3
<1>. QED BY <1>1, <1>2, StoredBefore

\* Faults are counted up.
LEMMA FaultsCount ==
  ASSUME faults \in Nat, [Next]_vars
  PROVE  faults' \in Nat /\ faults <= faults'
<1>1. faults' = faults \/ faults' = faults + 1
  <2>1. ASSUME NEW c \in Clients, Steps(c) PROVE faults' = faults \/ faults' = faults + 1
    BY <2>1 DEF Steps, Call, ReadPointer, ReadMeta, ReadBundle, ReadLegacy, PostShards, PostMeta,
                    Commit, CommitUnanswered, Sweep, SweepRefused, SweepEnds, Crash
  <2>2. CASE LegacyAppend \/ Tick \/ UNCHANGED vars
    BY <2>2 DEF LegacyAppend, Tick, vars
  <2>. QED BY <2>1, <2>2 DEF Next, Steps
<1>. QED BY <1>1

\* Each step keeps what is said of the calls.
LEMMA CallsStep == CallsInv /\ [Next]_vars => CallsInv'
<1>. SUFFICES ASSUME CallsInv, [Next]_vars PROVE CallsInv'
  OBVIOUS
<1>0. /\ ReclaimInv /\ LogInv /\ Shape /\ faults \in Nat
      /\ \A c \in Clients : Requested(c) /\ FromOld(c) /\ Outrun(c) /\ Fresh(c)
  BY DEF CallsInv, ReclaimInv, LogInv, AnswersInv, WorkInv
<1>1. ReclaimInv'
  BY <1>0, ReclaimStep
<1>2. ASSUME NEW d \in Clients,
             pc'[d] = pc[d], call'[d] = call[d], calls'[d] = calls[d], base'[d] = base[d],
             \A c \in Clients : Steps(c) => c # d
      PROVE  Requested(d)' /\ FromOld(d)' /\ Outrun(d)' /\ Fresh(d)'
  <2>1. Requested(d)' /\ FromOld(d)'
    BY <1>0, <1>2 DEF Requested, FromOld, Imports
  <2>2. Outrun(d)'
    <3>1. CASE pc[d] \in Resolved BY <1>0, <1>2, <3>1, OutrunKept
    <3>2. CASE pc[d] \notin Resolved BY <1>2, <3>2 DEF Outrun
    <3>. QED BY <3>1, <3>2
  <2>. QED BY <1>2, <2>1, <2>2, FreshKept
<1>3. ASSUME NEW d \in Clients, Steps(d)
      PROVE  Requested(d)' /\ FromOld(d)' /\ Outrun(d)' /\ Fresh(d)'
  BY <1>0, <1>1, <1>3, RequestedStays, FromOldStays, OutrunStays, FreshStays
<1>4. ASSUME NEW d \in Clients PROVE Requested(d)' /\ FromOld(d)' /\ Outrun(d)' /\ Fresh(d)'
  <2>1. CASE \A c \in Clients : ~Steps(c)
    <3>1. LegacyAppend \/ Tick \/ UNCHANGED vars BY <2>1 DEF Next, Steps
    <3>2. UNCHANGED <<pc, call, calls, base>> BY <3>1 DEF LegacyAppend, Tick, vars, client
    <3>. QED BY <1>2, <2>1, <3>2
  <2>2. ASSUME NEW c \in Clients, Steps(c), ~Steps(d)
        PROVE  Requested(d)' /\ FromOld(d)' /\ Outrun(d)' /\ Fresh(d)'
    <3>1. c # d BY <2>2
    <3>2. pc'[d] = pc[d] /\ call'[d] = call[d] /\ calls'[d] = calls[d] /\ base'[d] = base[d]
      BY <1>0, <2>2, <3>1, StepAlone DEF Alone
    <3>. QED BY <1>2, <2>2, <3>2
  <2>. QED BY <1>3, <2>1, <2>2
<1>5. StoredOld' /\ NoneAhead' /\ faults' \in Nat
  BY <1>0, StoredOldStays, NoneAheadStays, FaultsCount
<1>. QED BY <1>1, <1>4, <1>5 DEF CallsInv

\* A store begins with no calls, and with its import or nothing.
LEMMA CallsInit == Init => CallsInv
<1>. SUFFICES ASSUME Init PROVE CallsInv
  OBVIOUS
<1>1. ReclaimInv /\ faults = 0 /\ \A c \in Clients : pc[c] = "idle" /\ call[c].kind = "none"
  BY ReclaimInit DEF Init
<1>2. DOMAIN metas \subseteq {<< >>} /\ \A log \in DOMAIN metas : metas[log] = Imported(log)
  BY DEF Init
<1>3. \A log \in DOMAIN metas : Len(log) = 0
  BY <1>2
<1>4. StoredOld /\ NoneAhead
  BY <1>2, <1>3 DEF StoredOld, NoneAhead, LastBy
<1>5. ASSUME NEW c \in Clients PROVE Requested(c) /\ FromOld(c) /\ Outrun(c) /\ Fresh(c)
  BY <1>1, <1>3 DEF Requested, Imports, FromOld, Outrun, Fresh, Resolved, Drafting, LastBy
<1>. QED BY <1>1, <1>4, <1>5 DEF CallsInv

\* An import that is beside the one that published stays so: it cannot publish
\* any more, and what it is told is kept.
LEMMA SecondImportStays ==
  ASSUME CallsInv, [Next]_vars, pointer.format = "compact", SecondImport
  PROVE  SecondImport'
<1>0. /\ ReclaimInv /\ WorkInv /\ Shape /\ Known
      /\ \A c \in Clients : Requested(c) /\ Importing(c) /\ Working(c)
  BY DEF CallsInv, ReclaimInv, LogInv, AnswersInv, WorkInv
<1>1. ASSUME NEW id \in DOMAIN answers
      PROVE  id \in DOMAIN answers' /\ answers'[id] = answers[id]
  <2>1. PICK d \in Clients, k \in Nat : id = <<d, k>> /\ k <= calls[d] /\ (k = calls[d] => pc[d] = "idle")
    BY <1>0, <1>1 DEF Known
  <2>2. ASSUME NEW c \in Clients, NEW answer, Return(c, answer), pc[c] # "idle"
        PROVE  id \in DOMAIN answers' /\ answers'[id] = answers[id]
    <3>1. answers' = Put(answers, Id(c), answer) BY <2>2 DEF Return
    <3>2. id # Id(c) BY <2>1, <2>2 DEF Id
    <3>. QED BY <1>1, <3>1, <3>2 DEF Put
  <2>3. ASSUME NEW c \in Clients, Call(c)
        PROVE  id \in DOMAIN answers' /\ answers'[id] = answers[id]
    <3>1. \/ UNCHANGED answers
          \/ \E answer : answers' = Put(answers, <<c, calls[c] + 1>>, answer)
      BY <2>3 DEF Call
    <3>2. id # <<c, calls[c] + 1>> /\ calls[c] \in Nat
      BY <1>0, <2>1 DEF Shape
    <3>. QED BY <1>1, <3>1, <3>2 DEF Put
  <2>4. ASSUME NEW c \in Clients, Steps(c), ~Call(c)
        PROVE  UNCHANGED answers \/ (pc[c] # "idle" /\ \E answer : Return(c, answer))
    <3>1. CASE ReadPointer(c) \/ ReadMeta(c) \/ ReadBundle(c) \/ ReadLegacy(c) \/ PostShards(c) \/ PostMeta(c)
      BY <3>1 DEF ReadPointer, ReadMeta, ReadBundle, ReadLegacy, PostShards, PostMeta
    <3>2. CASE Commit(c) \/ CommitUnanswered(c) \/ SweepEnds(c) \/ Crash(c)
      BY <3>2 DEF Commit, CommitUnanswered, SweepEnds, Crash
    <3>3. CASE Sweep(c) \/ SweepRefused(c)
      BY <3>3 DEF Sweep, SweepRefused, SweepGeneration
    <3>. QED BY <2>4, <3>1, <3>2, <3>3 DEF Steps
  <2>5. CASE LegacyAppend \/ Tick \/ UNCHANGED vars
    BY <1>1, <2>5 DEF LegacyAppend, Tick, vars
  <2>6. CASE UNCHANGED answers BY <1>1, <2>6
  <2>. QED BY <2>2, <2>3, <2>4, <2>5, <2>6 DEF Next, Steps
<1>2. CASE \E id \in DOMAIN answers :
          /\ answers[id] \in {"changed", "failed", "unknown"}
          /\ \E req \in Requests[id[1]][id[2]] : req.kind = "import"
  BY <1>1, <1>2 DEF SecondImport
<1>3. ASSUME NEW c \in Clients, Imports(c) PROVE SecondImport'
  <2>1. pc[c] # "idle" /\ call[c] \in Requests[c][calls[c]] /\ pc[c] \notin {"pointer", "meta", "bundle", "sweep"}
    BY <1>0, <1>3 DEF Requested, Working
  <2>2. CASE call'[c] = call[c] BY <1>3, <2>2 DEF SecondImport, Imports
  <2>3. ASSUME NEW answer \in {"changed", "failed", "unknown"}, Return(c, answer)
        PROVE  SecondImport'
    <3>1. answers' = Put(answers, Id(c), answer) BY <2>3 DEF Return
    <3>2. Id(c) \in DOMAIN answers' /\ answers'[Id(c)] = answer BY <3>1 DEF Put
    <3>3. Id(c)[1] = c /\ Id(c)[2] = calls[c] BY DEF Id
    <3>. QED BY <1>3, <2>1, <3>2, <3>3 DEF SecondImport, Imports
  <2>4. ASSUME Steps(c) PROVE call'[c] = call[c] \/ \E answer \in {"changed", "failed", "unknown"} : Return(c, answer)
    <3>1. CASE ReadLegacy(c) \/ PostShards(c) BY <3>1 DEF ReadLegacy, PostShards
    <3>2. CASE PostMeta(c) BY <3>2 DEF PostMeta
    <3>3. CASE Commit(c)
      <4>1. pc[c] = "commit" BY <3>3 DEF Commit
      <4>2. base[c].format = "legacy" BY <1>0, <1>3, <4>1 DEF Importing, Drafting
      <4>3. ~IfMatch(c) BY <4>2 DEF IfMatch
      <4>. QED BY <3>3, <4>3 DEF Commit
    <3>4. CASE CommitUnanswered(c) BY <3>4 DEF CommitUnanswered
    <3>5. CASE \/ Call(c) \/ ReadPointer(c) \/ ReadMeta(c) \/ ReadBundle(c)
               \/ Sweep(c) \/ SweepRefused(c) \/ SweepEnds(c) \/ Crash(c)
      BY <2>1, <3>5 DEF Call, ReadPointer, ReadMeta, ReadBundle, Sweep, SweepRefused, SweepGeneration,
                  SweepEnds, Crash
    <3>. QED BY <2>4, <3>1, <3>2, <3>3, <3>4, <3>5 DEF Steps
  <2>5. ASSUME NEW d \in Clients, Steps(d), d # c PROVE call'[c] = call[c]
    BY <1>0, <2>5, StepAlone DEF Alone
  <2>6. CASE LegacyAppend \/ Tick \/ UNCHANGED vars
    <3>1. UNCHANGED call BY <2>6 DEF LegacyAppend, Tick, vars, client
    <3>. QED BY <2>2, <3>1
  <2>. QED BY <2>2, <2>3, <2>4, <2>5, <2>6 DEF Next, Steps
<1>. QED BY <1>2, <1>3 DEF SecondImport, Imports

-----------------------------------------------------------------------------
(* What the stored shards are for *)

\* A shard somebody has posted and has yet to describe.
Loose(x) == \E c \in Clients : pc[c] = "describe" /\ x \in Posted(draft[c])

\* Before the cutover every shard is loose or pinned by a stored generation.
OldKeeps == \A x \in shards : Loose(x) \/ \E log \in DOMAIN metas : x \in PinnedRefs(metas[log])

\* The generations of the history are those of the prefixes of the log, of
\* which the imported operations are those of old builds, and in time order.
Past(cut, top, hist) ==
  /\ \A n \in cut..top : \A i \in 1..n : hist[n].log[i] = pointer.log[i]
  /\ \A i \in 1..cut : pointer.log[i].id[1] = "legacy"
  /\ \A i \in (cut + 1)..top : pointer.log[i].id[1] # "legacy"
  /\ \A n \in cut..top : hist[n].updatedAt \in Nat
  /\ \A m \in cut..top : \A n \in m..top : hist[m].updatedAt <= hist[n].updatedAt

\* A shard that is loose, pinned by a generation outside the history, or left
\* behind by a second import.
Extra(x, cut, top, hist) ==
  \/ Loose(x)
  \/ \E log \in DOMAIN metas :
       (\A n \in cut..top : log # hist[n].log) /\ x \in PinnedRefs(metas[log])
  \/ SecondImport /\ x \in PinnedRefs(hist[cut])

\* A shard of the k-th generation that somebody needs, or whose replacement is
\* still on record.
OnRecord(x, k, cut, top, hist) ==
  \/ Extra(x, cut, top, hist)
  \/ x \in PinnedRefs(hist[top])
  \/ \E i \in (k + 1)..top : hist[i].log \in DOMAIN metas /\ x \in hist[i].supersededRefs

Accounted(cut, top, hist) ==
  \A x \in shards :
    /\ Extra(x, cut, top, hist) \/ \E k \in cut..top : x \in PinnedRefs(hist[k])
    /\ \A k \in cut..top : x \in PinnedRefs(hist[k]) => OnRecord(x, k, cut, top, hist)

\* A generation younger than the window is stored.
Young(cut, top, hist) ==
  \A n \in cut..top : now - hist[n].updatedAt < Window => hist[n].log \in DOMAIN metas

\* Short of a fault, a stored generation is reached by a walk from the published
\* one or from where a sweep stands.
Linked(cut, top, hist) ==
  faults = 0 => \A n \in cut..top :
    hist[n].log \in DOMAIN metas /\ ~(n = cut /\ SecondImport) =>
      \E t \in n..top :
        /\ \A i \in n..t : hist[i].log \in DOMAIN metas
        /\ t = top \/ \E c \in Clients : pc[c] = "sweep" /\ cursor[c] = {hist[t].log}

\* What a sweep has seen put back was put back by what it has passed.
Seen(cut, top, hist) ==
  \A c \in Clients : \A m \in cut..top :
    pc[c] = "sweep" /\ cursor[c] = {hist[m].log} =>
      \A x \in again[c] : \E j \in (m + 1)..top : x \in hist[j].introducedRefs

Keeps(cut, top, hist) ==
  /\ Past(cut, top, hist) /\ Accounted(cut, top, hist)
  /\ Young(cut, top, hist) /\ Linked(cut, top, hist) /\ Seen(cut, top, hist)

ForgetInv ==
  /\ CallsInv
  /\ pointer.format = "legacy" => OldKeeps
  /\ pointer.format = "compact" => \E cut, top, hist : Tells(cut, top, hist) /\ Keeps(cut, top, hist)

\* An append posts only what its generation pins, an import all of it.
LEMMA PostedPinned ==
  ASSUME ReclaimInv, NEW c \in Clients, pc[c] \in Drafting
  PROVE  Posted(draft[c]) \subseteq PinnedRefs(draft[c])
<1>0. Working(c) /\ Importing(c)
  BY DEF ReclaimInv, LogInv, AnswersInv, WorkInv
<1>1. CASE Imports(c)
  <2>1. draft[c] = Imported(base[c].log) BY <1>0, <1>1 DEF Importing
  <2>2. draft[c].retainsMetaRef = {} BY <2>1, ImportedLog
  <2>. QED BY <2>2 DEF Posted
<1>2. CASE ~Imports(c)
  <2>1. pointer.format = "compact" BY <1>0, <1>2 DEF Working, Drafting
  <2>2. PICK cut, top, hist : Tells(cut, top, hist) BY <2>1 DEF ReclaimInv
  <2>3. Succeeds(draft[c], hist[Len(base[c].log)]) BY <1>2, <2>2 DEF Tells, Stands
  <2>. QED BY <2>3 DEF Succeeds, Posted
<1>. QED BY <1>1, <1>2

\* writeMeta writes a log that is stored only as it is stored.
LEMMA OverwritesSame ==
  ASSUME CallsInv, NEW c \in Clients, pc[c] = "describe", draft[c].log \in DOMAIN metas
  PROVE  metas[draft[c].log] = draft[c]
<1>0. ReclaimInv /\ StoredOld /\ Fresh(c) /\ FromOld(c) /\ pc[c] \in Drafting
  BY DEF CallsInv, Drafting
<1>1. CASE Imports(c)
  BY <1>0, <1>1, DescribedIs DEF StoredOld
<1>2. CASE ~Imports(c)
  <2>1. /\ LastBy(draft[c].log, Id(c)) /\ Len(base[c].log) \in Nat
        /\ Len(draft[c].log) = Len(base[c].log) + 1
    BY <1>0, <1>2, DescribedIs
  <2>2. Len(draft[c].log) <= Len(base[c].log) BY <1>0, <1>2, <2>1 DEF Fresh
  <2>. QED BY <2>1, <2>2
<1>. QED BY <1>1, <1>2

\* What is stored stays as it is but for what a sweep takes.
LEMMA StoredAfter ==
  ASSUME CallsInv, [Next]_vars, NEW log \in DOMAIN metas
  PROVE  \/ log \in DOMAIN metas' /\ metas'[log] = metas[log]
         \/ \E c \in Clients : \E targets : Steps(c) /\ Swept(c, log, targets)
<1>1. ASSUME NEW c \in Clients, PostMeta(c) PROVE log \in DOMAIN metas' /\ metas'[log] = metas[log]
  <2>1. pc[c] = "describe" /\ metas' = Put(metas, draft[c].log, draft[c])
    BY <1>1 DEF PostMeta
  <2>2. CASE log = draft[c].log
    <3>1. PICK value : value = draft[c] OBVIOUS
    <3>2. metas[log] = value BY <2>1, <2>2, <3>1, OverwritesSame
    <3>3. metas' = Put(metas, log, value) BY <2>1, <2>2, <3>1
    <3>. QED BY <3>2, <3>3 DEF Put
  <2>3. CASE log # draft[c].log
    <3>1. PICK value : value = draft[c] OBVIOUS
    <3>2. PICK name : name = draft[c].log OBVIOUS
    <3>3. metas' = Put(metas, name, value) /\ log # name BY <2>1, <2>3, <3>1, <3>2
    <3>. QED BY <3>3 DEF Put
  <2>. QED BY <2>2, <2>3
<1>2. ASSUME NEW c \in Clients, Sweep(c) \/ SweepRefused(c)
      PROVE  \/ log \in DOMAIN metas' /\ metas'[log] = metas[log]
             \/ \E targets : Swept(c, log, targets)
  <2>1. PICK refused \in BOOLEAN : SweepGeneration(c, refused)
    BY <1>2 DEF Sweep, SweepRefused
  <2>2. PICK old \in cursor[c] :
          \/ UNCHANGED metas
          \/ /\ old \in DOMAIN metas /\ OutsideRetentionWindow(metas[old])
             /\ shards' = shards \ (metas[old].supersededRefs \ again[c])
             /\ metas' = [l \in DOMAIN metas \ {old} |-> metas[l]]
             /\ lost' = lost \cup Taken(c, metas[old], metas[old].supersededRefs \ again[c])
    BY <2>1 DEF SweepGeneration
  <2>3. PICK targets : targets = metas[old].supersededRefs \ again[c]
    OBVIOUS
  <2>4. pc[c] = "sweep" BY <2>1 DEF SweepGeneration
  <2>5. CASE UNCHANGED metas BY <2>5
  <2>6. CASE /\ old \in DOMAIN metas /\ OutsideRetentionWindow(metas[old])
             /\ shards' = shards \ (metas[old].supersededRefs \ again[c])
             /\ metas' = [l \in DOMAIN metas \ {old} |-> metas[l]]
             /\ lost' = lost \cup Taken(c, metas[old], metas[old].supersededRefs \ again[c])
    <3>1. Swept(c, old, targets) BY <2>3, <2>4, <2>6 DEF Swept
    <3>2. CASE log = old BY <3>1, <3>2
    <3>3. CASE log # old BY <2>6, <3>3
    <3>. QED BY <3>2, <3>3
  <2>. QED BY <2>2, <2>5, <2>6
<1>3. ASSUME NEW c \in Clients, Steps(c), ~(PostMeta(c) \/ Sweep(c) \/ SweepRefused(c))
      PROVE  UNCHANGED metas
  BY <1>3 DEF Steps, Call, ReadPointer, ReadMeta, ReadBundle, ReadLegacy, PostShards,
              Commit, CommitUnanswered, SweepEnds, Crash, object
<1>4. ASSUME LegacyAppend \/ Tick \/ UNCHANGED vars PROVE UNCHANGED metas
  BY <1>4 DEF LegacyAppend, Tick, vars, object
<1>5. ASSUME NEW c \in Clients, Steps(c)
      PROVE  \/ log \in DOMAIN metas' /\ metas'[log] = metas[log]
             \/ \E targets : Swept(c, log, targets)
  BY <1>1, <1>2, <1>3, <1>5
<1>6. CASE \E c \in Clients : Steps(c) BY <1>5, <1>6
<1>7. CASE LegacyAppend \/ Tick \/ UNCHANGED vars BY <1>4, <1>7
<1>. QED BY <1>6, <1>7 DEF Next, Steps

\* What is stored after a step was stored before it, or has just been posted.
LEMMA ShardsBefore ==
  ASSUME Shape, [Next]_vars, NEW x \in shards'
  PROVE  x \in shards \/ Loose(x)'
<1>1. ASSUME NEW c \in Clients, Steps(c) PROVE x \in shards \/ Loose(x)'
  <2>1. CASE UNCHANGED <<shards, lost>> BY <2>1
  <2>2. CASE PostedBy(c) BY <2>2 DEF PostedBy, Loose
  <2>3. ASSUME NEW log, NEW targets, Swept(c, log, targets) PROVE x \in shards
    BY <2>3 DEF Swept
  <2>. QED BY <1>1, <2>1, <2>2, <2>3, OwnShards
<1>2. ASSUME LegacyAppend \/ Tick \/ UNCHANGED vars PROVE UNCHANGED shards
  BY <1>2 DEF LegacyAppend, Tick, vars, object
<1>3. CASE LegacyAppend \/ Tick \/ UNCHANGED vars BY <1>2, <1>3
<1>. QED BY <1>1, <1>3 DEF Next, Steps

\* What is loose stays so until it is described.
LEMMA LooseStays ==
  ASSUME Shape, [Next]_vars, NEW x, Loose(x)
  PROVE  \/ Loose(x)'
         \/ \E c \in Clients : /\ PostMeta(c) /\ pc[c] = "describe" /\ x \in Posted(draft[c])
                               /\ draft[c].log \in DOMAIN metas' /\ metas'[draft[c].log] = draft[c]
<1>1. PICK d \in Clients : pc[d] = "describe" /\ x \in Posted(draft[d])
  BY DEF Loose
<1>2. ASSUME pc'[d] = pc[d], draft'[d] = draft[d] PROVE Loose(x)'
  BY <1>1, <1>2 DEF Loose
<1>3. CASE PostMeta(d)
  <2>1. metas' = Put(metas, draft[d].log, draft[d]) BY <1>3 DEF PostMeta
  <2>2. draft[d].log \in DOMAIN metas' /\ metas'[draft[d].log] = draft[d]
    <3>1. PICK name : name = draft[d].log OBVIOUS
    <3>2. PICK value : value = draft[d] OBVIOUS
    <3>3. metas' = Put(metas, name, value) BY <2>1, <3>1, <3>2
    <3>4. name \in DOMAIN metas' /\ metas'[name] = value BY <3>3 DEF Put
    <3>. QED BY <3>1, <3>2, <3>4
  <2>. QED BY <1>1, <1>3, <2>2
<1>4. ASSUME Steps(d), ~PostMeta(d) PROVE FALSE
  <2>1. pc[d] = "describe" BY <1>1
  <2>. QED BY <1>4, <2>1 DEF Steps, Call, ReadPointer, ReadMeta, ReadBundle, ReadLegacy, PostShards,
              Commit, CommitUnanswered, Sweep, SweepRefused, SweepGeneration, SweepEnds, Crash
<1>5. ASSUME NEW c \in Clients, Steps(c), c # d PROVE Loose(x)'
  <2>1. pc'[d] = pc[d] /\ draft'[d] = draft[d] BY <1>5, StepAlone DEF Alone
  <2>. QED BY <1>2, <2>1
<1>6. ASSUME LegacyAppend \/ Tick \/ UNCHANGED vars PROVE UNCHANGED <<pc, draft>>
  BY <1>6 DEF LegacyAppend, Tick, vars, client
<1>7. CASE LegacyAppend \/ Tick \/ UNCHANGED vars BY <1>2, <1>6, <1>7
<1>. QED BY <1>3, <1>4, <1>5, <1>7 DEF Next, Steps

\* Before the cutover nothing is taken, and what is described is pinned.
LEMMA OldKeepsStays ==
  ASSUME CallsInv, [Next]_vars, pointer.format = "legacy", OldKeeps
  PROVE  OldKeeps'
<1>0. /\ ReclaimInv /\ Shape /\ \A c \in Clients : Working(c)
  BY DEF CallsInv, ReclaimInv, LogInv, AnswersInv, WorkInv
<1>1. ASSUME NEW log \in DOMAIN metas PROVE log \in DOMAIN metas' /\ metas'[log] = metas[log]
  <2>1. ASSUME NEW c \in Clients, NEW targets, Swept(c, log, targets) PROVE FALSE
    <3>1. pc[c] = "sweep" BY <2>1 DEF Swept
    <3>. QED BY <1>0, <3>1 DEF Working
  <2>. QED BY <2>1, StoredAfter
<1>. SUFFICES ASSUME NEW x \in shards'
              PROVE  Loose(x)' \/ \E log \in DOMAIN metas' : x \in PinnedRefs(metas'[log])
  BY DEF OldKeeps
<1>2. CASE Loose(x)
  <2>1. ASSUME NEW c \in Clients, pc[c] = "describe", x \in Posted(draft[c]),
               draft[c].log \in DOMAIN metas', metas'[draft[c].log] = draft[c]
        PROVE  \E log \in DOMAIN metas' : x \in PinnedRefs(metas'[log])
    <3>1. x \in PinnedRefs(draft[c]) BY <1>0, <2>1, PostedPinned DEF Drafting
    <3>. QED BY <2>1, <3>1
  <2>. QED BY <1>0, <1>2, <2>1, LooseStays
<1>3. ASSUME NEW log \in DOMAIN metas, x \in PinnedRefs(metas[log])
      PROVE  \E l \in DOMAIN metas' : x \in PinnedRefs(metas'[l])
  BY <1>1, <1>3
<1>. QED BY <1>0, <1>2, <1>3, ShardsBefore DEF OldKeeps

-----------------------------------------------------------------------------
(* The history is kept *)

\* Two generations of the history with the same log are one.
LEMMA OneGeneration ==
  ASSUME NEW cut, NEW top, NEW hist, Tells(cut, top, hist),
         NEW m \in cut..top, NEW n \in cut..top, hist[m].log = hist[n].log
  PROVE  m = n
<1>1. \A k \in cut..top : Len(hist[k].log) = k
  BY HistorySays
<1>2. Len(hist[m].log) = m /\ Len(hist[n].log) = n
  BY <1>1
<1>. QED BY <1>2

\* A sweep visits generations of the history before the one it published.
LEMMA SweepVisits ==
  ASSUME NEW cut, NEW top, NEW hist, Tells(cut, top, hist),
         NEW c \in Clients, pc[c] = "sweep", NEW log \in cursor[c]
  PROVE  \E m \in cut..top :
           /\ m < top /\ log = hist[m].log /\ cursor[c] = {hist[m].log}
           /\ log \in DOMAIN metas => metas[log] = hist[m]
<1>1. PICK k \in (cut + 1)..top :
         \/ cursor[c] = {}
         \/ \E m \in cut..(k - 1) : cursor[c] = {hist[m].log}
  BY DEF Tells, Stands
<1>2. PICK m \in cut..(k - 1) : cursor[c] = {hist[m].log}
  BY <1>1
<1>3. top \in Nat /\ cut \in 0..top
  BY HistorySays
<1>4. m \in cut..top /\ m < top
  BY <1>1, <1>2, <1>3
<1>5. log \in DOMAIN metas => metas[log] = hist[m]
  BY <1>2, <1>4 DEF Tells, StoredAre
<1>. QED BY <1>2, <1>4, <1>5

\* What a generation of the history goes back to.
LEMMA RetainsIs ==
  ASSUME NEW cut, NEW top, NEW hist, Tells(cut, top, hist), NEW m \in cut..top
  PROVE  /\ m = cut => hist[m].retainsMetaRef = {} /\ hist[m].supersededRefs = {}
                       /\ hist[m].introducedRefs = {}
         /\ m # cut => /\ m - 1 \in cut..top /\ m \in (cut + 1)..top
                       /\ hist[m].retainsMetaRef = {hist[m - 1].log}
<1>1. /\ top \in Nat /\ cut \in 0..top /\ hist[cut] = Imported(hist[cut].log)
      /\ \A n \in (cut + 1)..top : Succeeds(hist[n], hist[n - 1])
  BY HistorySays
<1>2. CASE m = cut
  BY <1>1, <1>2, ImportedNothing
<1>3. CASE m # cut
  <2>1. m - 1 \in cut..top /\ m \in (cut + 1)..top BY <1>1, <1>3
  <2>. QED BY <1>1, <1>3, <2>1 DEF Succeeds
<1>. QED BY <1>2, <1>3

\* What the generations of the history introduce they pin.
LEMMA IntroducedPinned ==
  ASSUME NEW cut, NEW top, NEW hist, Tells(cut, top, hist), NEW m \in cut..top
  PROVE  hist[m].introducedRefs \subseteq PinnedRefs(hist[m])
<1>1. CASE m = cut
  BY <1>1, RetainsIs
<1>2. CASE m # cut
  <2>1. m \in (cut + 1)..top BY <1>2, RetainsIs
  <2>2. Succeeds(hist[m], hist[m - 1]) BY <2>1, HistorySays
  <2>. QED BY <2>2 DEF Succeeds
<1>. QED BY <1>1, <1>2

\* What is extra stays so while the pointer stays.
LEMMA ExtraStays ==
  ASSUME CallsInv, NEW cut, NEW top, NEW hist, Tells(cut, top, hist), [Next]_vars,
         pointer.format = "compact", NEW x, Extra(x, cut, top, hist)
  PROVE  Extra(x, cut, top, hist)'
<1>0. /\ ReclaimInv /\ LogInv /\ Shape /\ \A c \in Clients : Importing(c)
  BY DEF CallsInv, ReclaimInv, LogInv, AnswersInv, WorkInv
<1>1. SecondImport => SecondImport'
  BY SecondImportStays
<1>2. CASE Loose(x)
  <2>1. ASSUME NEW c \in Clients, PostMeta(c), pc[c] = "describe", x \in Posted(draft[c]),
               draft[c].log \in DOMAIN metas', metas'[draft[c].log] = draft[c]
        PROVE  Extra(x, cut, top, hist)'
    <3>1. x \in PinnedRefs(draft[c]) BY <1>0, <2>1, PostedPinned DEF Drafting
    <3>2. CASE \A n \in cut..top : draft[c].log # hist[n].log
      BY <2>1, <3>1, <3>2 DEF Extra
    <3>3. ASSUME NEW n \in cut..top, draft[c].log = hist[n].log PROVE Extra(x, cut, top, hist)'
      <4>1. n = cut /\ draft[c] = hist[n] /\ Imports(c)
        BY <1>0, <2>1, <3>3, PutAgain
      <4>2. SecondImport BY <4>1 DEF SecondImport, Imports
      <4>. QED BY <1>1, <3>1, <4>1, <4>2 DEF Extra
    <3>. QED BY <3>2, <3>3
  <2>2. CASE Loose(x)' BY <2>2 DEF Extra
  <2>. QED BY <1>0, <1>2, <2>1, <2>2, LooseStays
<1>3. ASSUME NEW log \in DOMAIN metas, \A n \in cut..top : log # hist[n].log,
             x \in PinnedRefs(metas[log])
      PROVE  Extra(x, cut, top, hist)'
  <2>1. ASSUME NEW c \in Clients, NEW targets, Swept(c, log, targets) PROVE FALSE
    <3>1. pc[c] = "sweep" /\ log \in cursor[c] BY <2>1 DEF Swept
    <3>. QED BY <1>3, <3>1, SweepVisits
  <2>2. log \in DOMAIN metas' /\ metas'[log] = metas[log]
    BY <2>1, StoredAfter
  <2>. QED BY <1>3, <2>2 DEF Extra
<1>4. CASE SecondImport /\ x \in PinnedRefs(hist[cut])
  BY <1>1, <1>4 DEF Extra
<1>. QED BY <1>2, <1>3, <1>4 DEF Extra

\* What a generation of the history has put back since a sweep passed it is not
\* what the sweep takes: what stays of a swept generation is named further on.
LEMMA OnRecordStays ==
  ASSUME CallsInv, NEW cut, NEW top, NEW hist, Tells(cut, top, hist), Keeps(cut, top, hist),
         [Next]_vars, pointer.format = "compact",
         NEW x \in shards, x \in shards', NEW k \in cut..top, x \in PinnedRefs(hist[k])
  PROVE  OnRecord(x, k, cut, top, hist)'
<1>0. /\ top \in Nat /\ cut \in 0..top
      /\ Accounted(cut, top, hist) /\ Seen(cut, top, hist)
  BY HistorySays DEF Keeps
<1>1. OnRecord(x, k, cut, top, hist)
  BY <1>0 DEF Accounted
<1>2. CASE Extra(x, cut, top, hist)
  <2>1. Extra(x, cut, top, hist)' BY <1>2, ExtraStays
  <2>. QED BY <2>1 DEF OnRecord
<1>3. CASE x \in PinnedRefs(hist[top])
  BY <1>3 DEF OnRecord
<1>4. ASSUME NEW i \in (k + 1)..top, hist[i].log \in DOMAIN metas, x \in hist[i].supersededRefs
      PROVE  OnRecord(x, k, cut, top, hist)'
  <2>0. i \in cut..top BY <1>0
  <2>1. CASE hist[i].log \in DOMAIN metas'
    BY <1>4, <2>1 DEF OnRecord
  <2>2. ASSUME NEW c \in Clients, NEW targets, Steps(c), Swept(c, hist[i].log, targets)
        PROVE  OnRecord(x, k, cut, top, hist)'
    <3>1. /\ pc[c] = "sweep" /\ hist[i].log \in cursor[c] /\ hist[i].log \in DOMAIN metas
          /\ targets = metas[hist[i].log].supersededRefs \ again[c]
          /\ shards' = shards \ targets
          /\ metas' = [l \in DOMAIN metas \ {hist[i].log} |-> metas[l]]
      BY <2>2 DEF Swept
    <3>2. PICK m \in cut..top : /\ hist[i].log = hist[m].log /\ cursor[c] = {hist[m].log}
                                /\ metas[hist[i].log] = hist[m]
      BY <3>1, SweepVisits
    <3>3. m = i BY <2>0, <3>2, OneGeneration
    <3>4. x \in again[c] BY <1>4, <3>1, <3>2, <3>3
    <3>5. PICK j \in (i + 1)..top : x \in hist[j].introducedRefs
      BY <1>0, <2>0, <3>1, <3>2, <3>3, <3>4 DEF Seen
    <3>6. j \in cut..top /\ j > i BY <1>0, <2>0, <3>5
    <3>7. x \in PinnedRefs(hist[j]) BY <3>5, <3>6, IntroducedPinned
    <3>8. OnRecord(x, j, cut, top, hist) BY <1>0, <3>6, <3>7 DEF Accounted
    <3>9. ASSUME NEW h \in (j + 1)..top, hist[h].log \in DOMAIN metas, x \in hist[h].supersededRefs
          PROVE  OnRecord(x, k, cut, top, hist)'
      <4>1. h \in cut..top /\ h # i /\ h \in (k + 1)..top BY <1>0, <2>0, <3>6
      <4>2. hist[h].log # hist[i].log BY <2>0, <4>1, OneGeneration
      <4>3. hist[h].log \in DOMAIN metas' BY <3>1, <3>9, <4>2
      <4>. QED BY <3>9, <4>1, <4>3 DEF OnRecord
    <3>. QED BY <1>2, <1>3, <3>8, <3>9 DEF OnRecord
  <2>. QED BY <1>4, <2>1, <2>2, StoredAfter
<1>. QED BY <1>1, <1>2, <1>3, <1>4 DEF OnRecord

\* Every stored shard stays accounted for while the pointer stays.
LEMMA AccountedStays ==
  ASSUME CallsInv, NEW cut, NEW top, NEW hist, Tells(cut, top, hist), Keeps(cut, top, hist),
         [Next]_vars, pointer.format = "compact"
  PROVE  Accounted(cut, top, hist)'
<1>0. Shape /\ Accounted(cut, top, hist)
  BY DEF CallsInv, ReclaimInv, LogInv, AnswersInv, WorkInv, Keeps
<1>. SUFFICES ASSUME NEW x \in shards'
              PROVE  /\ Extra(x, cut, top, hist)' \/ \E k \in cut..top : x \in PinnedRefs(hist[k])
                     /\ \A k \in cut..top : x \in PinnedRefs(hist[k]) => OnRecord(x, k, cut, top, hist)'
  BY DEF Accounted
<1>1. CASE Loose(x)'
  BY <1>1 DEF Extra, OnRecord
<1>2. CASE x \in shards
  <2>1. Extra(x, cut, top, hist)' \/ \E k \in cut..top : x \in PinnedRefs(hist[k])
    <3>1. CASE Extra(x, cut, top, hist) BY <3>1, ExtraStays
    <3>. QED BY <1>0, <1>2, <3>1 DEF Accounted
  <2>. QED BY <1>2, <2>1, OnRecordStays
<1>. QED BY <1>0, <1>1, <1>2, ShardsBefore

\* A sweep that goes on has visited a stored generation, and taken it unless it
\* is within the window or the server refuses.
LEMMA SweepMoves ==
  ASSUME WorkInv, NEW c \in Clients, Steps(c), pc'[c] = "sweep", UNCHANGED pointer
  PROVE  /\ pc[c] = "sweep"
         /\ \E log \in cursor[c] :
              /\ log \in DOMAIN metas
              /\ again'[c] = again[c] \cup metas[log].introducedRefs
              /\ cursor'[c] = metas[log].retainsMetaRef
              /\ \/ metas' = [l \in DOMAIN metas \ {log} |-> metas[l]]
                 \/ ~OutsideRetentionWindow(metas[log]) /\ UNCHANGED metas
                 \/ faults' = faults + 1
<1>0. Shape
  BY DEF WorkInv
<1>1. CASE Sweep(c) \/ SweepRefused(c)
  <2>1. PICK refused \in BOOLEAN : SweepGeneration(c, refused) /\ (refused => faults' = faults + 1)
    BY <1>1 DEF Sweep, SweepRefused
  <2>2. ASSUME NEW answer, Return(c, answer) PROVE FALSE
    BY <1>0, <2>2 DEF Return, Shape
  <2>3. PICK log \in cursor[c] :
          /\ log \in DOMAIN metas
          /\ \/ metas' = [l \in DOMAIN metas \ {log} |-> metas[l]]
             \/ ~OutsideRetentionWindow(metas[log]) /\ UNCHANGED metas
             \/ refused
          /\ again' = [again EXCEPT ![c] = AgainAfter(c, metas[log])]
          /\ cursor' = [cursor EXCEPT ![c] = metas[log].retainsMetaRef]
    BY <2>1, <2>2 DEF SweepGeneration
  <2>4. again'[c] = again[c] \cup metas[log].introducedRefs /\ cursor'[c] = metas[log].retainsMetaRef
    BY <1>0, <2>3 DEF Shape, AgainAfter
  <2>5. pc[c] = "sweep"
    BY <2>1 DEF SweepGeneration
  <2>. QED BY <2>1, <2>3, <2>4, <2>5
<1>2. CASE Commit(c)
  <2>1. ASSUME NEW answer, Return(c, answer) PROVE FALSE
    BY <1>0, <2>1 DEF Return, Shape
  <2>2. ASSUME Goto(c, "pointer") PROVE FALSE
    BY <1>0, <2>2 DEF Goto, Shape
  <2>3. pc[c] = "commit" /\ IfMatch(c) /\ pointer' = Published(c) /\ call[c].kind # "import"
    BY <1>2, <2>1, <2>2 DEF Commit
  <2>4. Committed_(c)
    BY <2>3, PublishStep DEF CutOver, Imports
  <2>5. PICK op : pointer'.log = Append(pointer.log, op)
    BY <2>4 DEF Committed_
  <2>6. Len(pointer'.log) = Len(pointer.log) + 1 /\ Len(pointer.log) \in Nat
    BY <1>0, <2>5, AppendFacts, SeqFacts DEF Shape, LogOK
  <2>. QED BY <2>6
<1>3. ASSUME Steps(c), ~(Sweep(c) \/ SweepRefused(c) \/ Commit(c)) PROVE FALSE
  BY <1>0, <1>3 DEF Steps, Call, Resolve, ReadPointer, ReadMeta, ReadBundle, ReadLegacy, PostShards, PostMeta,
              CommitUnanswered, SweepEnds, Crash, Return, Goto, Shape
<1>. QED BY <1>1, <1>2, <1>3

\* A sweep ends at the first generation or at a missing one, short of a fault.
LEMMA SweepLeaves ==
  ASSUME NEW c \in Clients, Steps(c), pc[c] = "sweep", pc'[c] # "sweep"
  PROVE  \/ cursor[c] = {} \/ (\E log \in cursor[c] : log \notin DOMAIN metas)
         \/ faults' = faults + 1
<1>1. CASE SweepEnds(c) \/ Crash(c) \/ SweepRefused(c)
  BY <1>1 DEF SweepEnds, Crash, SweepRefused
<1>2. CASE Sweep(c)
  BY <1>2 DEF Sweep, SweepGeneration
<1>3. CASE ~(Sweep(c) \/ SweepEnds(c) \/ Crash(c) \/ SweepRefused(c))
  BY <1>3 DEF Steps, Call, ReadPointer, ReadMeta, ReadBundle, ReadLegacy, PostShards, PostMeta,
              Commit, CommitUnanswered
<1>. QED BY <1>1, <1>2, <1>3

\* A sweep that has taken a generation goes on to the one before.
LEMMA SweptMoves ==
  ASSUME Shape, NEW c \in Clients, Steps(c), NEW log, NEW targets, Swept(c, log, targets),
         cursor[c] = {log}
  PROVE  pc'[c] = "sweep" /\ cursor'[c] = metas[log].retainsMetaRef
<1>1. /\ pc[c] = "sweep" /\ log \in DOMAIN metas
      /\ metas' = [l \in DOMAIN metas \ {log} |-> metas[l]]
  BY DEF Swept
<1>2. metas' # metas
  BY <1>1
<1>3. CASE Sweep(c) \/ SweepRefused(c)
  <2>1. PICK refused \in BOOLEAN : SweepGeneration(c, refused)
    BY <1>3 DEF Sweep, SweepRefused
  <2>2. UNCHANGED pc /\ cursor' = [cursor EXCEPT ![c] = metas[log].retainsMetaRef]
    BY <1>1, <2>1 DEF SweepGeneration
  <2>. QED BY <1>1, <2>2 DEF Shape
<1>4. CASE ~(Sweep(c) \/ SweepRefused(c))
  BY <1>1, <1>2, <1>4 DEF Steps, Call, ReadPointer, ReadMeta, ReadBundle, ReadLegacy, PostShards, PostMeta,
              Commit, CommitUnanswered, SweepEnds, Crash, object
<1>. QED BY <1>3, <1>4

\* A generation within the window stays stored.
LEMMA YoungStays ==
  ASSUME CallsInv, NEW cut, NEW top, NEW hist, Tells(cut, top, hist), Keeps(cut, top, hist),
         [Next]_vars
  PROVE  Young(cut, top, hist)'
<1>0. /\ Young(cut, top, hist) /\ \A n \in cut..top : hist[n].updatedAt \in Nat
      /\ now \in Nat /\ (now' = now \/ now' = now + 1) /\ Window \in Nat
  BY NowStep, StoreAssumption DEF Keeps, Past, CallsInv, ReclaimInv, LogInv, PointerIs
<1>. SUFFICES ASSUME NEW n \in cut..top, now' - hist[n].updatedAt < Window
              PROVE  hist[n].log \in DOMAIN metas'
  BY DEF Young
<1>1. PICK at \in Nat : at = hist[n].updatedAt
  BY <1>0
<1>2. now - at < Window
  BY <1>0, <1>1
<1>3. hist[n].log \in DOMAIN metas
  BY <1>0, <1>1, <1>2 DEF Young
<1>4. metas[hist[n].log] = hist[n]
  BY <1>3 DEF Tells, StoredAre
<1>5. ASSUME NEW c \in Clients, NEW targets, Swept(c, hist[n].log, targets) PROVE FALSE
  <2>1. OutsideRetentionWindow(hist[n]) BY <1>4, <1>5 DEF Swept
  <2>. QED BY <1>0, <1>1, <1>2, <2>1 DEF OutsideRetentionWindow
<1>. QED BY <1>3, <1>5, StoredAfter

\* What is still stored is still reached while the pointer stays.
LEMMA LinkedStays ==
  ASSUME CallsInv, NEW cut, NEW top, NEW hist, Tells(cut, top, hist), Keeps(cut, top, hist),
         [Next]_vars, pointer.format = "compact", UNCHANGED pointer
  PROVE  Linked(cut, top, hist)'
<1>0. /\ ReclaimInv /\ LogInv /\ WorkInv /\ Shape /\ (\A c \in Clients : Importing(c))
      /\ faults \in Nat /\ faults' \in Nat /\ faults <= faults'
      /\ top \in Nat /\ cut \in 0..top
      /\ Linked(cut, top, hist) /\ Young(cut, top, hist) /\ Past(cut, top, hist)
      /\ now \in Nat /\ Window \in Nat
  BY FaultsCount, HistorySays, StoreAssumption
  DEF CallsInv, ReclaimInv, LogInv, AnswersInv, WorkInv, Keeps, PointerIs
<1>. SUFFICES ASSUME faults' = 0, NEW n \in cut..top, hist[n].log \in DOMAIN metas',
                     ~(n = cut /\ SecondImport')
              PROVE  \E t \in n..top :
                       /\ \A i \in n..t : hist[i].log \in DOMAIN metas'
                       /\ t = top \/ \E c \in Clients : pc'[c] = "sweep" /\ cursor'[c] = {hist[t].log}
  BY DEF Linked
<1>1. faults = 0 /\ faults' # faults + 1
  BY <1>0
<1>2. SecondImport => SecondImport'
  BY SecondImportStays
<1>3. hist[n].log \in DOMAIN metas
  <2>1. ASSUME NEW c \in Clients, pc[c] = "describe", hist[n].log = draft[c].log PROVE FALSE
    <3>1. n = cut /\ Imports(c) BY <1>0, <2>1, PutAgain
    <3>2. SecondImport BY <3>1 DEF SecondImport, Imports
    <3>. QED BY <1>2, <3>1, <3>2
  <2>. QED BY <2>1, StoredBefore
<1>4. PICK t \in n..top :
        /\ \A i \in n..t : hist[i].log \in DOMAIN metas
        /\ t = top \/ \E c \in Clients : pc[c] = "sweep" /\ cursor[c] = {hist[t].log}
  BY <1>0, <1>1, <1>2, <1>3 DEF Linked
<1>5. n \in Nat /\ t \in cut..top /\ t \in n..t /\ \A i \in n..t : i \in cut..top
  BY <1>0
<1>6. CASE \A i \in n..t : hist[i].log \in DOMAIN metas'
  <2>1. CASE t = top BY <1>6, <2>1
  <2>2. ASSUME NEW d \in Clients, pc[d] = "sweep", cursor[d] = {hist[t].log}
        PROVE  \E u \in n..top :
                 /\ \A i \in n..u : hist[i].log \in DOMAIN metas'
                 /\ u = top \/ \E c \in Clients : pc'[c] = "sweep" /\ cursor'[c] = {hist[u].log}
    <3>1. CASE pc'[d] = pc[d] /\ cursor'[d] = cursor[d] BY <1>6, <2>2, <3>1
    <3>2. CASE Steps(d)
      <4>1. pc'[d] = "sweep"
        BY <1>1, <1>4, <1>5, <2>2, <3>2, SweepLeaves
      <4>2. \/ metas' = [l \in DOMAIN metas \ {hist[t].log} |-> metas[l]]
            \/ ~OutsideRetentionWindow(metas[hist[t].log]) /\ UNCHANGED metas
        BY <1>0, <1>1, <2>2, <3>2, <4>1, SweepMoves
      <4>3. ~OutsideRetentionWindow(metas[hist[t].log]) /\ UNCHANGED metas
        BY <1>5, <1>6, <4>2
      <4>4. metas[hist[t].log] = hist[t]
        BY <1>4, <1>5 DEF Tells, StoredAre
      <4>5. ~(now - hist[t].updatedAt >= Window)
        BY <4>3, <4>4 DEF OutsideRetentionWindow
      <4>6. ASSUME NEW i \in t..top PROVE hist[i].log \in DOMAIN metas
        <5>1. i \in cut..top BY <1>5, <1>0
        <5>2. /\ hist[t].updatedAt \in Nat /\ hist[i].updatedAt \in Nat
              /\ hist[t].updatedAt <= hist[i].updatedAt
          BY <1>0, <1>5, <5>1 DEF Past
        <5>3. now - hist[i].updatedAt < Window BY <1>0, <4>5, <5>2
        <5>. QED BY <1>0, <5>1, <5>3 DEF Young
      <4>7. ASSUME NEW i \in n..top PROVE hist[i].log \in DOMAIN metas'
        <5>1. i \in n..t \/ i \in t..top BY <1>5
        <5>. QED BY <1>6, <4>3, <4>6, <5>1
      <4>8. top \in n..top BY <1>0, <1>5
      <4>. QED BY <4>7, <4>8
    <3>3. ASSUME NEW c \in Clients, Steps(c), c # d PROVE pc'[d] = pc[d] /\ cursor'[d] = cursor[d]
      BY <1>0, <3>3, StepAlone DEF Alone
    <3>4. ASSUME LegacyAppend \/ Tick \/ UNCHANGED vars PROVE UNCHANGED <<pc, cursor>>
      BY <3>4 DEF LegacyAppend, Tick, vars, client
    <3>5. CASE LegacyAppend \/ Tick \/ UNCHANGED vars BY <3>1, <3>4, <3>5
    <3>. QED BY <3>1, <3>2, <3>3, <3>5 DEF Next, Steps
  <2>. QED BY <1>4, <2>1, <2>2
<1>7. ASSUME NEW i \in n..t, hist[i].log \notin DOMAIN metas'
      PROVE  \E u \in n..top :
               /\ \A h \in n..u : hist[h].log \in DOMAIN metas'
               /\ u = top \/ \E c \in Clients : pc'[c] = "sweep" /\ cursor'[c] = {hist[u].log}
  <2>1. i \in cut..top /\ hist[i].log \in DOMAIN metas BY <1>4, <1>5
  <2>0. PICK c \in Clients : Steps(c) /\ \E targets : Swept(c, hist[i].log, targets)
    BY <1>7, <2>1, StoredAfter
  <2>2. PICK targets : Steps(c) /\ Swept(c, hist[i].log, targets)
    BY <2>0
  <2>3. /\ pc[c] = "sweep" /\ hist[i].log \in cursor[c]
        /\ metas' = [l \in DOMAIN metas \ {hist[i].log} |-> metas[l]]
    BY <2>2 DEF Swept
  <2>4. cursor[c] = {hist[i].log} /\ metas[hist[i].log] = hist[i]
    <3>1. PICK m \in cut..top : hist[i].log = hist[m].log /\ cursor[c] = {hist[m].log}
      BY <2>3, SweepVisits
    <3>2. metas[hist[i].log] = hist[i] BY <2>1 DEF Tells, StoredAre
    <3>. QED BY <3>1, <3>2
  <2>5. pc'[c] = "sweep" /\ cursor'[c] = hist[i].retainsMetaRef
    BY <1>0, <2>2, <2>4, SweptMoves
  <2>6. i # n /\ i # cut
    BY <1>0, <1>5, <1>7
  <2>7. i - 1 \in n..top /\ cursor'[c] = {hist[i - 1].log}
    BY <1>0, <1>5, <2>1, <2>5, <2>6, RetainsIs
  <2>8. ASSUME NEW h \in n..(i - 1) PROVE hist[h].log \in DOMAIN metas'
    <3>1. h \in n..t /\ h \in cut..top /\ h # i BY <1>0, <1>5
    <3>2. hist[h].log \in DOMAIN metas /\ hist[h].log # hist[i].log
      BY <1>4, <2>1, <3>1, OneGeneration
    <3>. QED BY <2>3, <3>2
  <2>. QED BY <2>5, <2>7, <2>8
<1>. QED BY <1>6, <1>7

\* What a sweep has seen put back was put back by what it has passed, while the
\* pointer stays.
LEMMA SeenStays ==
  ASSUME CallsInv, NEW cut, NEW top, NEW hist, Tells(cut, top, hist), Keeps(cut, top, hist),
         [Next]_vars, UNCHANGED pointer
  PROVE  Seen(cut, top, hist)'
<1>0. WorkInv /\ Shape /\ Seen(cut, top, hist) /\ top \in Nat /\ cut \in 0..top
  BY HistorySays DEF CallsInv, ReclaimInv, LogInv, AnswersInv, WorkInv, Keeps
<1>. SUFFICES ASSUME NEW d \in Clients, NEW m \in cut..top, pc'[d] = "sweep",
                     cursor'[d] = {hist[m].log}, NEW x \in again'[d]
              PROVE  \E j \in (m + 1)..top : x \in hist[j].introducedRefs
  BY DEF Seen
<1>1. CASE pc'[d] = pc[d] /\ cursor'[d] = cursor[d] /\ again'[d] = again[d]
  BY <1>0, <1>1 DEF Seen
<1>2. CASE Steps(d)
  <2>1. PICK log \in cursor[d] :
          /\ pc[d] = "sweep" /\ log \in DOMAIN metas
          /\ again'[d] = again[d] \cup metas[log].introducedRefs
          /\ cursor'[d] = metas[log].retainsMetaRef
    BY <1>0, <1>2, SweepMoves
  <2>2. PICK i \in cut..top : log = hist[i].log /\ cursor[d] = {hist[i].log} /\ metas[log] = hist[i]
    BY <2>1, SweepVisits
  <2>3. {hist[m].log} = hist[i].retainsMetaRef
    BY <2>1, <2>2
  <2>4. i # cut BY <2>2, <2>3, RetainsIs
  <2>5. i - 1 \in cut..top /\ hist[m].log = hist[i - 1].log BY <2>2, <2>3, <2>4, RetainsIs
  <2>6. m = i - 1 BY <2>5, OneGeneration
  <2>7. CASE x \in again[d]
    <3>1. PICK j \in (i + 1)..top : x \in hist[j].introducedRefs
      BY <1>0, <2>1, <2>2, <2>7 DEF Seen
    <3>2. j \in (m + 1)..top BY <1>0, <2>6, <3>1
    <3>. QED BY <3>1, <3>2
  <2>8. CASE x \in hist[i].introducedRefs
    <3>1. i \in (m + 1)..top BY <1>0, <2>6
    <3>. QED BY <2>8, <3>1
  <2>. QED BY <2>1, <2>2, <2>7, <2>8
<1>3. ASSUME NEW c \in Clients, Steps(c), c # d
      PROVE  pc'[d] = pc[d] /\ cursor'[d] = cursor[d] /\ again'[d] = again[d]
  BY <1>0, <1>3, StepAlone DEF Alone
<1>4. ASSUME LegacyAppend \/ Tick \/ UNCHANGED vars PROVE UNCHANGED <<pc, cursor, again>>
  BY <1>4 DEF LegacyAppend, Tick, vars, client
<1>5. CASE LegacyAppend \/ Tick \/ UNCHANGED vars BY <1>1, <1>4, <1>5
<1>. QED BY <1>1, <1>2, <1>3, <1>5 DEF Next, Steps

\* What the history keeps it keeps while the pointer stays.
LEMMA KeepsStays ==
  ASSUME CallsInv, NEW cut, NEW top, NEW hist, Tells(cut, top, hist), Keeps(cut, top, hist),
         [Next]_vars, pointer.format = "compact", UNCHANGED pointer
  PROVE  Keeps(cut, top, hist)'
<1>1. Past(cut, top, hist)'
  BY DEF Keeps, Past
<1>2. Accounted(cut, top, hist)' /\ Young(cut, top, hist)'
  BY AccountedStays, YoungStays
<1>3. Linked(cut, top, hist)' /\ Seen(cut, top, hist)'
  BY LinkedStays, SeenStays
<1>. QED BY <1>1, <1>2, <1>3 DEF Keeps

\* commitPointer: the sweep of a client that has published begins with what its
\* generation wrote and the generation before.
LEMMA PublisherSweeps ==
  ASSUME Shape, NEW c \in Clients, Steps(c), pc[c] = "commit", pc'[c] = "sweep"
  PROVE  cursor'[c] = draft[c].retainsMetaRef /\ again'[c] = draft[c].introducedRefs
<1>1. ASSUME NEW answer, Return(c, answer) PROVE FALSE
  BY <1>1 DEF Return, Shape
<1>2. ASSUME Goto(c, "pointer") PROVE FALSE
  BY <1>2 DEF Goto, Shape
<1>3. CASE Commit(c)
  BY <1>1, <1>2, <1>3 DEF Commit, Shape
<1>4. CASE ~Commit(c)
  BY <1>1, <1>4 DEF Steps, Call, ReadPointer, ReadMeta, ReadBundle, ReadLegacy, PostShards, PostMeta,
              CommitUnanswered, Sweep, SweepRefused, SweepGeneration, SweepEnds, Crash
<1>. QED BY <1>3, <1>4

\* What a client publishes by appending: the generation it has described, which
\* succeeds the published one.
LEMMA PublishedIs ==
  ASSUME CallsInv, NEW cut, NEW top, NEW hist, Tells(cut, top, hist), [Next]_vars,
         NEW c \in Clients, Steps(c), Committed_(c)
  PROVE  /\ UNCHANGED <<metas, shards, now>> /\ pointer' # pointer
         /\ draft[c].log \in DOMAIN metas /\ metas[draft[c].log] = draft[c]
         /\ Succeeds(draft[c], hist[top]) /\ draft[c].updatedAt \in Nat
         /\ Len(draft[c].log) = top + 1 /\ draft[c].log = pointer'.log
         /\ \A i \in 1..top : pointer'.log[i] = pointer.log[i]
         /\ pointer'.log[top + 1].id = Id(c)
<1>0. /\ LogInv /\ Shape /\ Working(c) /\ Course(c) /\ Ready(c) /\ Stands(c, cut, top, hist)
      /\ pc[c] = "commit" /\ ~Imports(c) /\ pointer = base[c] /\ IsSeq(pointer.log)
      /\ top = Len(pointer.log) /\ top \in Nat
      /\ pointer' = [format |-> "compact", log |-> draft[c].log]
  BY HistorySays DEF CallsInv, ReclaimInv, LogInv, AnswersInv, WorkInv, Committed_, Tells, Shape, LogOK
<1>1. PICK op : op.id = Id(c) /\ pointer'.log = Append(pointer.log, op)
  BY DEF Committed_
<1>2. /\ Len(pointer'.log) = top + 1 /\ pointer'.log[top + 1] = op
      /\ \A i \in 1..top : pointer'.log[i] = pointer.log[i]
  BY <1>0, <1>1, AppendFacts
<1>3. pointer' # pointer
  <2>1. Len(pointer'.log) # Len(pointer.log) BY <1>0, <1>2
  <2>. QED BY <2>1
<1>4. UNCHANGED <<metas, shards, now>>
  BY <1>0, <1>3, PublishesOnly
<1>5. draft[c].log \in DOMAIN metas /\ metas[draft[c].log] = draft[c]
  BY <1>0 DEF Course, Described, Ready
<1>6. Succeeds(draft[c], hist[top])
  BY <1>0 DEF Stands, Drafting
<1>7. draft[c].updatedAt \in Nat
  BY <1>0 DEF Course, Derives, Drafting, Generation
<1>8. draft[c].log = pointer'.log
  BY <1>0
<1>. QED BY <1>1, <1>2, <1>3, <1>4, <1>5, <1>6, <1>7, <1>8

\* What is extra stays so, or the published generation pins it.
LEMMA ExtraGrows ==
  ASSUME CallsInv, NEW cut, NEW top, NEW hist, Tells(cut, top, hist), [Next]_vars,
         NEW c \in Clients, Steps(c), Committed_(c),
         NEW hist2, hist2[top + 1] = draft[c], \A n \in cut..top : hist2[n] = hist[n],
         NEW x, Extra(x, cut, top, hist)
  PROVE  Extra(x, cut, top + 1, hist2)' \/ x \in PinnedRefs(draft[c])
<1>0. /\ Shape /\ pointer.format = "compact" /\ top \in Nat /\ cut \in 0..top
      /\ UNCHANGED metas /\ pointer' # pointer /\ metas[draft[c].log] = draft[c]
  BY PublishedIs, HistorySays DEF CallsInv, ReclaimInv, LogInv, AnswersInv, WorkInv, Committed_
<1>1. CASE Loose(x)
  <2>1. ASSUME NEW d \in Clients, PostMeta(d) PROVE FALSE
    BY <1>0, <2>1 DEF PostMeta
  <2>2. Loose(x)' BY <1>0, <1>1, <2>1, LooseStays
  <2>. QED BY <2>2 DEF Extra
<1>2. ASSUME NEW log \in DOMAIN metas, \A n \in cut..top : log # hist[n].log,
             x \in PinnedRefs(metas[log])
      PROVE  Extra(x, cut, top + 1, hist2)' \/ x \in PinnedRefs(draft[c])
  <2>1. CASE log = draft[c].log BY <1>0, <1>2, <2>1
  <2>2. CASE log # draft[c].log
    <3>1. ASSUME NEW n \in cut..(top + 1) PROVE log # hist2[n].log
      <4>1. CASE n = top + 1 BY <2>2, <4>1
      <4>2. CASE n # top + 1
        <5>1. n \in cut..top BY <1>0, <4>2
        <5>. QED BY <1>2, <5>1
      <4>. QED BY <4>1, <4>2
    <3>. QED BY <1>0, <1>2, <3>1 DEF Extra
  <2>. QED BY <2>1, <2>2
<1>3. CASE SecondImport /\ x \in PinnedRefs(hist[cut])
  <2>1. SecondImport' BY <1>0, <1>3, SecondImportStays
  <2>2. hist2[cut] = hist[cut] BY <1>0
  <2>. QED BY <1>3, <2>1, <2>2 DEF Extra
<1>. QED BY <1>1, <1>2, <1>3 DEF Extra

\* What the history keeps it keeps with one generation more.
LEMMA PastGrows ==
  ASSUME CallsInv, NEW cut, NEW top, NEW hist, Tells(cut, top, hist), Past(cut, top, hist),
         [Next]_vars, NEW c \in Clients, Steps(c), Committed_(c),
         NEW hist2, hist2[top + 1] = draft[c], \A n \in cut..top : hist2[n] = hist[n]
  PROVE  Past(cut, top + 1, hist2)'
<1>0. /\ top \in Nat /\ cut \in 0..top
  BY HistorySays
<1>1. /\ draft[c].updatedAt \in Nat /\ Succeeds(draft[c], hist[top])
      /\ draft[c].log = pointer'.log
      /\ \A i \in 1..top : pointer'.log[i] = pointer.log[i]
      /\ pointer'.log[top + 1].id = Id(c)
  BY PublishedIs
<1>2. ASSUME NEW n \in cut..(top + 1), NEW i \in 1..n PROVE hist2[n].log[i] = pointer'.log[i]
  <2>1. CASE n = top + 1 BY <1>1, <2>1
  <2>2. CASE n # top + 1
    <3>1. n \in cut..top /\ i \in 1..top BY <1>0, <2>2
    <3>2. hist[n].log[i] = pointer.log[i] BY <3>1 DEF Past
    <3>. QED BY <1>1, <3>1, <3>2
  <2>. QED BY <2>1, <2>2
<1>3. \A i \in 1..cut : pointer'.log[i].id[1] = "legacy"
  <2>1. ASSUME NEW i \in 1..cut PROVE pointer'.log[i].id[1] = "legacy"
    <3>1. i \in 1..top BY <1>0
    <3>. QED BY <1>1, <3>1 DEF Past
  <2>. QED BY <2>1
<1>4. ASSUME NEW i \in (cut + 1)..(top + 1) PROVE pointer'.log[i].id[1] # "legacy"
  <2>1. CASE i = top + 1
    <3>1. Id(c)[1] # "legacy" BY StoreAssumption DEF Id
    <3>. QED BY <1>1, <2>1, <3>1
  <2>2. CASE i # top + 1
    <3>1. i \in (cut + 1)..top /\ i \in 1..top BY <1>0, <2>2
    <3>. QED BY <1>1, <3>1 DEF Past
  <2>. QED BY <2>1, <2>2
<1>5. ASSUME NEW n \in cut..(top + 1) PROVE hist2[n].updatedAt \in Nat
  <2>1. CASE n = top + 1 BY <1>1, <2>1
  <2>2. CASE n # top + 1
    <3>1. n \in cut..top BY <1>0, <2>2
    <3>. QED BY <3>1 DEF Past
  <2>. QED BY <2>1, <2>2
<1>6. ASSUME NEW m \in cut..(top + 1), NEW n \in m..(top + 1)
      PROVE  hist2[m].updatedAt <= hist2[n].updatedAt
  <2>1. CASE m = n
    <3>1. hist2[m].updatedAt \in Nat BY <1>5
    <3>. QED BY <2>1, <3>1
  <2>2. CASE n # top + 1
    <3>1. m \in cut..top /\ n \in cut..top /\ n \in m..top BY <1>0, <2>2
    <3>2. hist[m].updatedAt <= hist[n].updatedAt BY <3>1 DEF Past
    <3>. QED BY <3>1, <3>2
  <2>3. CASE n = top + 1 /\ m # n
    <3>1. m \in cut..top /\ top \in m..top /\ top \in cut..top BY <1>0, <2>3
    <3>2. hist[m].updatedAt <= hist[top].updatedAt BY <3>1 DEF Past
    <3>3. hist[top].updatedAt <= draft[c].updatedAt BY <1>1 DEF Succeeds
    <3>4. hist[m].updatedAt \in Nat /\ hist[top].updatedAt \in Nat BY <3>1 DEF Past
    <3>5. hist2[m] = hist[m] /\ hist2[n] = draft[c] BY <2>3, <3>1
    <3>6. hist[m].updatedAt <= draft[c].updatedAt BY <1>1, <3>2, <3>3, <3>4
    <3>. QED BY <3>5, <3>6
  <2>. QED BY <2>1, <2>2, <2>3
<1>. QED BY <1>2, <1>3, <1>4, <1>5, <1>6 DEF Past

\* Every stored shard stays accounted for: what the published generation does
\* not pin any more it has on record.
LEMMA AccountedGrows ==
  ASSUME CallsInv, NEW cut, NEW top, NEW hist, Tells(cut, top, hist), Accounted(cut, top, hist),
         [Next]_vars, NEW c \in Clients, Steps(c), Committed_(c),
         NEW hist2, hist2[top + 1] = draft[c], \A n \in cut..top : hist2[n] = hist[n]
  PROVE  Accounted(cut, top + 1, hist2)'
<1>0. /\ top \in Nat /\ cut \in 0..top
  BY HistorySays
<1>1. /\ UNCHANGED <<metas, shards>> /\ draft[c].log \in DOMAIN metas
      /\ Succeeds(draft[c], hist[top])
  BY PublishedIs
<1>. SUFFICES ASSUME NEW x \in shards
              PROVE  /\ \/ Extra(x, cut, top + 1, hist2)'
                        \/ \E k \in cut..(top + 1) : x \in PinnedRefs(hist2[k])
                     /\ \A k \in cut..(top + 1) : x \in PinnedRefs(hist2[k])
                          => OnRecord(x, k, cut, top + 1, hist2)'
  BY <1>1 DEF Accounted
<1>2. top + 1 \in cut..(top + 1) /\ \A k \in cut..top : k \in cut..(top + 1)
  BY <1>0
<1>3. CASE x \in PinnedRefs(draft[c])
  <2>1. x \in PinnedRefs(hist2[top + 1]) BY <1>3
  <2>2. \A k \in cut..(top + 1) : OnRecord(x, k, cut, top + 1, hist2)' BY <2>1 DEF OnRecord
  <2>. QED BY <1>2, <2>1, <2>2
<1>4. CASE x \notin PinnedRefs(draft[c])
  <2>1. Extra(x, cut, top, hist) => Extra(x, cut, top + 1, hist2)'
    BY <1>4, ExtraGrows
  <2>2. Extra(x, cut, top + 1, hist2)' \/ \E k \in cut..(top + 1) : x \in PinnedRefs(hist2[k])
    <3>1. Extra(x, cut, top, hist) \/ \E k \in cut..top : x \in PinnedRefs(hist[k])
      BY DEF Accounted
    <3>. QED BY <1>2, <2>1, <3>1
  <2>3. ASSUME NEW k \in cut..(top + 1), x \in PinnedRefs(hist2[k])
        PROVE  OnRecord(x, k, cut, top + 1, hist2)'
    <3>1. k # top + 1 BY <1>4, <2>3
    <3>2. k \in cut..top BY <1>0, <3>1
    <3>3. OnRecord(x, k, cut, top, hist) BY <2>3, <3>2 DEF Accounted
    <3>4. CASE Extra(x, cut, top, hist) BY <2>1, <3>4 DEF OnRecord
    <3>5. CASE x \in PinnedRefs(hist[top])
      <4>1. x \in draft[c].supersededRefs BY <1>1, <1>4, <3>5 DEF Succeeds
      <4>2. top + 1 \in (k + 1)..(top + 1) BY <1>0, <3>2
      <4>3. hist2[top + 1].log \in DOMAIN metas' /\ x \in hist2[top + 1].supersededRefs
        BY <1>1, <4>1
      <4>. QED BY <4>2, <4>3 DEF OnRecord
    <3>6. ASSUME NEW i \in (k + 1)..top, hist[i].log \in DOMAIN metas, x \in hist[i].supersededRefs
          PROVE  OnRecord(x, k, cut, top + 1, hist2)'
      <4>1. i \in cut..top /\ i \in (k + 1)..(top + 1) BY <1>0, <3>2
      <4>2. hist2[i].log \in DOMAIN metas' /\ x \in hist2[i].supersededRefs BY <1>1, <3>6, <4>1
      <4>. QED BY <4>1, <4>2 DEF OnRecord
    <3>. QED BY <3>3, <3>4, <3>5, <3>6 DEF OnRecord
  <2>. QED BY <2>2, <2>3
<1>. QED BY <1>3, <1>4

\* What is stored is reached, young generations are stored, and sweeps have seen
\* what they passed, with one generation more.
LEMMA KeepsGrows ==
  ASSUME CallsInv, NEW cut, NEW top, NEW hist, Tells(cut, top, hist), Keeps(cut, top, hist),
         [Next]_vars, NEW c \in Clients, Steps(c), Committed_(c),
         NEW hist2, hist2[top + 1] = draft[c], \A n \in cut..top : hist2[n] = hist[n]
  PROVE  Keeps(cut, top + 1, hist2)'
<1>0. /\ Shape /\ top \in Nat /\ cut \in 0..top /\ faults \in Nat /\ faults' \in Nat
      /\ faults <= faults' /\ pc[c] = "commit" /\ pointer.format = "compact"
  BY HistorySays, FaultsCount DEF CallsInv, ReclaimInv, LogInv, AnswersInv, WorkInv, Committed_
<1>1. /\ UNCHANGED <<metas, now>> /\ draft[c].log \in DOMAIN metas
      /\ Succeeds(draft[c], hist[top])
  BY PublishedIs
<1>2. Past(cut, top + 1, hist2)' /\ Accounted(cut, top + 1, hist2)'
  BY PastGrows, AccountedGrows DEF Keeps
<1>3. ASSUME NEW n \in cut..(top + 1) PROVE n = top + 1 \/ n \in cut..top
  BY <1>0
<1>4. Young(cut, top + 1, hist2)'
  <2>1. ASSUME NEW n \in cut..(top + 1), now - hist2[n].updatedAt < Window
        PROVE  hist2[n].log \in DOMAIN metas
    <3>1. CASE n = top + 1 BY <1>1, <3>1
    <3>2. CASE n \in cut..top BY <2>1, <3>2 DEF Keeps, Young
    <3>. QED BY <1>3, <3>1, <3>2
  <2>. QED BY <1>1, <2>1 DEF Young
<1>5. Linked(cut, top + 1, hist2)'
  <2>1. SUFFICES ASSUME faults' = 0, NEW n \in cut..(top + 1), hist2[n].log \in DOMAIN metas,
                        ~(n = cut /\ SecondImport')
                 PROVE  \E t \in n..(top + 1) :
                          /\ \A i \in n..t : hist2[i].log \in DOMAIN metas
                          /\ \/ t = top + 1
                             \/ \E d \in Clients : pc'[d] = "sweep" /\ cursor'[d] = {hist2[t].log}
    BY <1>1 DEF Linked
  <2>2. CASE n = top + 1
    <3>1. n \in n..(top + 1) /\ \A i \in n..n : i = n BY <1>0, <2>2
    <3>. QED BY <2>1, <2>2, <3>1
  <2>3. CASE n \in cut..top
    <3>1. faults = 0 /\ ~(n = cut /\ SecondImport) /\ hist[n].log \in DOMAIN metas
      BY <1>0, <2>1, <2>3, SecondImportStays
    <3>2. PICK t \in n..top :
            /\ \A i \in n..t : hist[i].log \in DOMAIN metas
            /\ t = top \/ \E d \in Clients : pc[d] = "sweep" /\ cursor[d] = {hist[t].log}
      BY <2>3, <3>1 DEF Keeps, Linked
    <3>3. t \in cut..top /\ t \in n..(top + 1) /\ \A i \in n..t : i \in cut..top
      BY <1>0, <2>3
    <3>4. CASE t = top
      <4>1. ASSUME NEW i \in n..(top + 1) PROVE hist2[i].log \in DOMAIN metas
        <5>1. i = top + 1 \/ (i \in n..t /\ i \in cut..top) BY <1>0, <2>3, <3>4
        <5>. QED BY <1>1, <3>2, <5>1
      <4>2. top + 1 \in n..(top + 1) BY <1>0, <2>3
      <4>. QED BY <4>1, <4>2
    <3>5. ASSUME NEW d \in Clients, pc[d] = "sweep", cursor[d] = {hist[t].log}
          PROVE  pc'[d] = "sweep" /\ cursor'[d] = {hist2[t].log}
      <4>1. d # c BY <1>0, <3>5
      <4>. QED BY <1>0, <3>3, <3>5, <4>1, StepAlone DEF Alone
    <3>6. \A i \in n..t : hist2[i].log \in DOMAIN metas
      BY <3>2, <3>3
    <3>. QED BY <3>2, <3>3, <3>4, <3>5, <3>6
  <2>. QED BY <1>3, <2>2, <2>3
<1>6. Seen(cut, top + 1, hist2)'
  <2>1. SUFFICES ASSUME NEW d \in Clients, NEW m \in cut..(top + 1), pc'[d] = "sweep",
                        cursor'[d] = {hist2[m].log}, NEW x \in again'[d]
                 PROVE  \E j \in (m + 1)..(top + 1) : x \in hist2[j].introducedRefs
    BY DEF Seen
  <2>2. top \in cut..top /\ hist2[top] = hist[top] BY <1>0
  <2>3. CASE d = c
    <3>1. cursor'[c] = draft[c].retainsMetaRef /\ again'[c] = draft[c].introducedRefs
      BY <1>0, <2>1, <2>3, PublisherSweeps
    <3>2. cursor'[c] = {hist[top].log} BY <1>1, <3>1 DEF Succeeds
    <3>3. hist2[m].log = hist[top].log BY <2>1, <2>3, <3>2
    <3>4. m # top + 1
      <4>1. Len(draft[c].log) = top + 1 /\ Len(hist[top].log) = top
        BY <2>2, PublishedIs, HistorySays
      <4>. QED BY <1>0, <3>3, <4>1
    <3>5. m \in cut..top BY <1>3, <3>4
    <3>6. m = top BY <2>2, <3>3, <3>5, OneGeneration
    <3>7. top + 1 \in (m + 1)..(top + 1) BY <1>0, <3>6
    <3>. QED BY <2>1, <2>3, <3>1, <3>7
  <2>4. CASE d # c
    <3>1. pc[d] = "sweep" /\ cursor[d] = {hist2[m].log} /\ x \in again[d]
      BY <1>0, <2>1, <2>4, StepAlone DEF Alone
    <3>2. PICK i \in cut..top : hist2[m].log = hist[i].log
      BY <3>1, SweepVisits
    <3>3. m # top + 1
      <4>1. Len(draft[c].log) = top + 1 /\ Len(hist[i].log) = i
        BY PublishedIs, HistorySays
      <4>. QED BY <1>0, <3>2, <4>1
    <3>4. m \in cut..top BY <1>3, <3>3
    <3>5. PICK j \in (m + 1)..top : x \in hist[j].introducedRefs
      BY <3>1, <3>4 DEF Keeps, Seen
    <3>6. j \in cut..top /\ j \in (m + 1)..(top + 1) BY <1>0, <3>4
    <3>. QED BY <3>5, <3>6
  <2>. QED BY <2>3, <2>4
<1>. QED BY <1>2, <1>4, <1>5, <1>6 DEF Keeps

\* migrate: nobody sweeps when an import is published.
LEMMA NobodySweeps ==
  ASSUME LogInv, [Next]_vars, NEW c \in Clients, Steps(c), CutOver(c),
         pointer.format = "legacy", pointer' # pointer, NEW d \in Clients
  PROVE  pc'[d] # "sweep"
<1>0. /\ Shape /\ Working(d) /\ pc[c] = "commit" /\ Imports(c)
  BY DEF LogInv, AnswersInv, WorkInv, CutOver
<1>1. CASE d = c
  <2>1. pc'[c] \in {"idle", "sweep", "pointer"} BY PublishesOnly
  <2>2. pc'[c] # "sweep"
    BY <1>0, <2>1 DEF Steps, Commit, CommitUnanswered, Return, Shape, Imports, Goto, Call, ReadPointer, ReadMeta, ReadBundle,
       ReadLegacy, PostShards, PostMeta, Sweep, SweepRefused, SweepGeneration, SweepEnds, Crash
  <2>. QED BY <1>1, <2>2
<1>2. CASE d # c
  <2>1. pc'[d] = pc[d] BY <1>0, <1>2, StepAlone DEF Alone
  <2>2. pc[d] = "sweep" => FALSE BY <1>0 DEF Working
  <2>. QED BY <2>1, <2>2
<1>. QED BY <1>1, <1>2

\* migrate: an import that is published begins a history that keeps what there
\* was.
LEMMA KeepsBegins ==
  ASSUME CallsInv, OldKeeps, [Next]_vars, NEW c \in Clients, Steps(c), CutOver(c),
         pointer.format = "legacy", NEW top \in Nat, top = Len(pointer.log),
         NEW hist, hist[top] = draft[c]
  PROVE  Keeps(top, top, hist)'
<1>0. /\ LogInv /\ Shape /\ PointerIs /\ Course(c) /\ Ready(c) /\ Importing(c) /\ Working(c)
      /\ pc[c] = "commit" /\ Imports(c) /\ pointer = base[c]
      /\ pointer' = [format |-> "compact", log |-> pointer.log]
      /\ draft[c].log = pointer.log
  BY DEF CallsInv, ReclaimInv, LogInv, AnswersInv, WorkInv, CutOver
<1>1. pointer' # pointer
  BY <1>0
<1>2. UNCHANGED <<metas, shards, now>>
  BY <1>0, <1>1, PublishesOnly
<1>3. /\ draft[c].log \in DOMAIN metas /\ metas[draft[c].log] = draft[c]
      /\ draft[c].updatedAt \in Nat
  BY <1>0 DEF Course, Described, Ready, Derives, Drafting, Generation
<1>4. /\ \A n \in top..top : n = top
      /\ \A i \in (top + 1)..top : FALSE
      /\ top \in top..top
  OBVIOUS
<1>5. Past(top, top, hist)'
  <2>1. \A i \in 1..top : pointer.log[i].id = <<"legacy", i - 1>>
    BY <1>0 DEF PointerIs
  <2>2. \A i \in 1..top : pointer'.log[i].id[1] = "legacy"
    BY <1>0, <2>1
  <2>3. pointer'.log = hist[top].log
    BY <1>0
  <2>. QED BY <1>3, <1>4, <2>2, <2>3 DEF Past
<1>6. Accounted(top, top, hist)'
  <2>1. ASSUME NEW x \in shards
        PROVE  Extra(x, top, top, hist)' \/ x \in PinnedRefs(hist[top])
    <3>1. CASE Loose(x)
      <4>1. ASSUME NEW d \in Clients, PostMeta(d) PROVE FALSE
        BY <1>1, <4>1 DEF PostMeta
      <4>2. Loose(x)' BY <1>0, <3>1, <4>1, LooseStays
      <4>. QED BY <4>2 DEF Extra
    <3>2. ASSUME NEW log \in DOMAIN metas, x \in PinnedRefs(metas[log])
          PROVE  Extra(x, top, top, hist)' \/ x \in PinnedRefs(hist[top])
      <4>1. CASE log = hist[top].log BY <1>3, <3>2, <4>1
      <4>2. CASE log # hist[top].log BY <1>2, <1>4, <3>2, <4>2 DEF Extra
      <4>. QED BY <4>1, <4>2
    <3>. QED BY <2>1, <3>1, <3>2 DEF OldKeeps
  <2>2. ASSUME NEW x \in shards'
        PROVE  /\ Extra(x, top, top, hist)' \/ \E k \in top..top : x \in PinnedRefs(hist[k])
               /\ \A k \in top..top : x \in PinnedRefs(hist[k]) => OnRecord(x, k, top, top, hist)'
    <3>1. Extra(x, top, top, hist)' \/ x \in PinnedRefs(hist[top])
      BY <1>2, <2>1, <2>2
    <3>2. x \in PinnedRefs(hist[top]) => OnRecord(x, top, top, top, hist)'
      BY DEF OnRecord
    <3>. QED BY <1>4, <3>1, <3>2
  <2>. QED BY <2>2 DEF Accounted
<1>7. hist[top].log \in DOMAIN metas'
  BY <1>2, <1>3
<1>8. Young(top, top, hist)'
  BY <1>4, <1>7 DEF Young
<1>9. Linked(top, top, hist)'
  BY <1>4, <1>7 DEF Linked
<1>10. Seen(top, top, hist)'
  BY <1>0, <1>1, NobodySweeps DEF Seen
<1>. QED BY <1>5, <1>6, <1>8, <1>9, <1>10 DEF Keeps

\* A store begins with one generation and what it pins.
LEMMA KeepsFirst ==
  ASSUME Init, pointer.format = "compact", NEW hist, hist[0] = Imported(<< >>)
  PROVE  Keeps(0, 0, hist)
<1>1. /\ pointer.log = << >> /\ metas = [log \in {<< >>} |-> Imported(log)]
      /\ shards = UNION {PinnedRefs(metas[log]) : log \in DOMAIN metas}
      /\ \A c \in Clients : pc[c] = "idle"
  BY DEF Init
<1>2. PICK first : first = Imported(<< >>)
  OBVIOUS
<1>3. metas[<< >>] = first /\ DOMAIN metas = {<< >>} /\ first.log = << >>
  BY <1>1, <1>2, ImportedNothing
<1>4. hist[0] = first /\ (\A n \in 0..0 : n = 0) /\ 0 \in 0..0
  BY <1>2
<1>5. first.updatedAt \in Nat
  <2>1. Generations BY LogInit DEF LogInv
  <2>. QED BY <1>3, <2>1 DEF Generations, Generation
<1>6. Past(0, 0, hist)
  BY <1>4, <1>5 DEF Past
<1>7. \A x \in shards : x \in PinnedRefs(first)
  BY <1>1, <1>3
<1>8. Accounted(0, 0, hist)
  BY <1>4, <1>7 DEF Accounted, OnRecord
<1>9. hist[0].log \in DOMAIN metas
  BY <1>3, <1>4
<1>10. Young(0, 0, hist) /\ Linked(0, 0, hist)
  BY <1>4, <1>9 DEF Young, Linked
<1>11. Seen(0, 0, hist)
  BY <1>1 DEF Seen
<1>. QED BY <1>6, <1>8, <1>10, <1>11 DEF Keeps

\* Each step keeps the inductive invariant of what is kept.
LEMMA ForgetStep == ForgetInv /\ [Next]_vars => ForgetInv'
<1>. SUFFICES ASSUME ForgetInv, [Next]_vars PROVE ForgetInv'
  OBVIOUS
<1>0. /\ CallsInv /\ ReclaimInv /\ LogInv /\ WorkInv /\ Shape
      /\ (\A c \in Clients : Importing(c) /\ Filled(c) /\ Ready(c))
      /\ pointer.format \in {"compact", "legacy"}
  BY DEF ForgetInv, CallsInv, ReclaimInv, LogInv, AnswersInv, WorkInv, Shape
<1>1. CallsInv'
  BY <1>0, CallsStep
<1>2. ASSUME pointer'.format = "legacy" PROVE OldKeeps'
  <2>1. pointer.format = "legacy"
    BY <1>0, <1>2, PublishedBy DEF Committed_, CutOver, OldAppends
  <2>. QED BY <1>0, <2>1, OldKeepsStays DEF ForgetInv
<1>3. ASSUME pointer'.format = "compact"
      PROVE  \E cut, top, hist : Tells(cut, top, hist)' /\ Keeps(cut, top, hist)'
  <2>1. CASE UNCHANGED pointer
    <3>1. pointer.format = "compact" BY <1>3, <2>1
    <3>2. PICK cut, top, hist : Tells(cut, top, hist) /\ Keeps(cut, top, hist)
      BY <3>1 DEF ForgetInv
    <3>3. Tells(cut, top, hist)' BY <1>0, <2>1, <3>1, <3>2, TellsStays
    <3>4. Keeps(cut, top, hist)' BY <1>0, <2>1, <3>1, <3>2, KeepsStays
    <3>. QED BY <3>3, <3>4
  <2>2. ASSUME NEW c \in Clients, Steps(c), Committed_(c)
        PROVE  \E cut, top, hist : Tells(cut, top, hist)' /\ Keeps(cut, top, hist)'
    <3>1. PICK cut, top, hist : Tells(cut, top, hist) /\ Keeps(cut, top, hist)
      BY <2>2 DEF ForgetInv, Committed_
    <3>2. top \in Nat /\ cut \in 0..top BY <3>1, HistorySays
    <3>3. PICK hist2 : hist2 = Longer(cut, top, hist, draft[c]) OBVIOUS
    <3>4. hist2[top + 1] = draft[c] /\ \A n \in cut..top : hist2[n] = hist[n]
      BY <3>2, <3>3, LongerIs
    <3>5. Tells(cut, top + 1, hist2)' BY <1>0, <2>2, <3>1, <3>4, TellsGrows
    <3>6. Keeps(cut, top + 1, hist2)' BY <1>0, <2>2, <3>1, <3>4, KeepsGrows
    <3>. QED BY <3>5, <3>6
  <2>3. ASSUME NEW c \in Clients, Steps(c), CutOver(c), ~UNCHANGED pointer
        PROVE  \E cut, top, hist : Tells(cut, top, hist)' /\ Keeps(cut, top, hist)'
    <3>1. pointer.format = "legacy" BY <1>0, <2>3 DEF CutOver, Importing, Drafting
    <3>2. PICK top \in Nat : top = Len(pointer.log) BY <1>0, SeqFacts DEF Shape, LogOK
    <3>3. PICK hist : hist = [n \in top..top |-> draft[c]] OBVIOUS
    <3>4. hist[top] = draft[c] BY <3>3
    <3>5. Tells(top, top, hist)' BY <1>0, <2>3, <3>1, <3>2, <3>4, TellsBegins
    <3>6. OldKeeps BY <3>1 DEF ForgetInv
    <3>7. Keeps(top, top, hist)' BY <1>0, <2>3, <3>1, <3>2, <3>4, <3>6, KeepsBegins
    <3>. QED BY <3>5, <3>7
  <2>4. ~OldAppends BY <1>3 DEF OldAppends
  <2>. QED BY <1>0, <2>1, <2>2, <2>3, <2>4, PublishedBy
<1>. QED BY <1>1, <1>2, <1>3, Zenon DEF ForgetInv

\* A store begins with what its first generation pins, or with nothing.
LEMMA ForgetInit == Init => ForgetInv
<1>. SUFFICES ASSUME Init PROVE ForgetInv
  OBVIOUS
<1>1. CallsInv
  BY CallsInit
<1>2. OldKeeps
  <2>1. shards = UNION {PinnedRefs(metas[log]) : log \in DOMAIN metas} BY DEF Init
  <2>. QED BY <2>1 DEF OldKeeps
<1>3. ASSUME pointer.format = "compact"
      PROVE  \E cut, top, hist : Tells(cut, top, hist) /\ Keeps(cut, top, hist)
  <2>1. PICK hist : hist = [n \in 0..0 |-> Imported(<< >>)]
    OBVIOUS
  <2>2. hist[0] = Imported(<< >>)
    BY <2>1
  <2>3. Tells(0, 0, hist) /\ Keeps(0, 0, hist)
    BY <1>3, <2>2, TellsFirst, KeepsFirst
  <2>. QED BY <2>3
<1>. QED BY <1>1, <1>2, <1>3, Zenon DEF ForgetInv

-----------------------------------------------------------------------------
(* What is stored is not forgotten *)

\* The first entries of a sequence.
LEMMA PrefixIs ==
  ASSUME NEW s, IsSeq(s), NEW n \in 0..Len(s)
  PROVE  /\ IsSeq(Prefix(s, n)) /\ Len(Prefix(s, n)) = n
         /\ \A i \in 1..n : Prefix(s, n)[i] = s[i]
<1>1. PICK S : s \in Seq(S) BY DEF IsSeq
<1>2. Len(s) \in Nat BY <1>1
<1>3. SubSeq(s, 1, n) \in Seq(S) /\ Len(SubSeq(s, 1, n)) = n
      /\ \A i \in 1..n : SubSeq(s, 1, n)[i] = s[i]
  BY <1>1, <1>2
<1>. QED BY <1>3 DEF IsSeq, Prefix

\* The logs of the history are the prefixes of its later logs.
LEMMA HistoryPrefixes ==
  ASSUME NEW cut, NEW top, NEW hist, Tells(cut, top, hist), Past(cut, top, hist),
         NEW t \in cut..top, NEW m \in cut..t
  PROVE  Prefix(hist[t].log, m) = hist[m].log
<1>1. /\ top \in Nat /\ cut \in 0..top
      /\ \A n \in cut..top : IsSeq(hist[n].log) /\ Len(hist[n].log) = n
  BY HistorySays
<1>2. m \in cut..top /\ m \in 0..t
  BY <1>1
<1>3. /\ IsSeq(hist[t].log) /\ Len(hist[t].log) = t
      /\ IsSeq(hist[m].log) /\ Len(hist[m].log) = m
  BY <1>1, <1>2
<1>4. PICK p : p = Prefix(hist[t].log, m)
  OBVIOUS
<1>5. IsSeq(p) /\ Len(p) = m /\ \A i \in 1..m : p[i] = hist[t].log[i]
  BY <1>2, <1>3, <1>4, PrefixIs
<1>6. ASSUME NEW i \in 1..m PROVE p[i] = hist[m].log[i]
  <2>1. i \in 1..t BY <1>1
  <2>2. hist[t].log[i] = pointer.log[i] /\ hist[m].log[i] = pointer.log[i]
    BY <1>2, <2>1 DEF Past
  <2>. QED BY <1>5, <2>2
<1>7. p = hist[m].log
  BY <1>3, <1>5, <1>6, SameSeq
<1>. QED BY <1>4, <1>7

\* The operations the board had before the cutover are those of its import.
LEMMA CutoverIs ==
  ASSUME NEW cut, NEW top, NEW hist, Tells(cut, top, hist), Past(cut, top, hist)
  PROVE  CutoverAt = cut
<1>1. /\ top \in Nat /\ cut \in 0..top /\ top = Len(pointer.log)
      /\ hist[top].log = pointer.log
      /\ \A n \in cut..top : IsSeq(hist[n].log)
  BY HistorySays
<1>2. DOMAIN pointer.log = 1..top
  <2>1. IsSeq(pointer.log) BY <1>1
  <2>. QED BY <1>1, <2>1, SeqFacts
<1>3. {i \in DOMAIN pointer.log : pointer.log[i].id[1] = "legacy"} = 1..cut
  <2>1. ASSUME NEW i \in 1..top, pointer.log[i].id[1] = "legacy" PROVE i \in 1..cut
    <3>1. i \in 1..cut \/ i \in (cut + 1)..top BY <1>1
    <3>. QED BY <2>1, <3>1 DEF Past
  <2>2. ASSUME NEW i \in 1..cut PROVE i \in 1..top /\ pointer.log[i].id[1] = "legacy"
    BY <1>1 DEF Past
  <2>. QED BY <1>2, <2>1, <2>2
<1>4. Cardinality(1..cut) = cut
  <2>1. cut \in Int /\ cut >= 0 BY <1>1
  <2>2. Cardinality(1..cut) = IF 1 > cut THEN 0 ELSE cut - 1 + 1
    BY <2>1, FS_Interval
  <2>. QED BY <2>1, <2>2
<1>. QED BY <1>3, <1>4 DEF CutoverAt

\* A walk passes stored generations.
LEMMA ChainStored ==
  ASSUME NEW log
  PROVE  Chain(log) \subseteq DOMAIN metas
<1>1. ASSUME NEW n \in 0..Len(log), \A m \in n..Len(log) : Prefix(log, m) \in DOMAIN metas
      PROVE  Prefix(log, n) \in DOMAIN metas
  <2>1. n \in n..Len(log) OBVIOUS
  <2>. QED BY <1>1, <2>1
<1>. QED BY <1>1 DEF Chain

\* A walk from a generation of the history reaches the stored ones before it.
LEMMA ChainReaches ==
  ASSUME NEW cut, NEW top, NEW hist, Tells(cut, top, hist), Past(cut, top, hist),
         NEW n \in cut..top, NEW t \in n..top, \A i \in n..t : hist[i].log \in DOMAIN metas
  PROVE  hist[n].log \in Chain(hist[t].log)
<1>1. /\ top \in Nat /\ cut \in 0..top
      /\ \A k \in cut..top : Len(hist[k].log) = k
  BY HistorySays
<1>2. t \in cut..top /\ n \in 0..t /\ n \in cut..t /\ \A i \in n..t : i \in cut..t
  BY <1>1
<1>3. PICK log : log = hist[t].log
  OBVIOUS
<1>4. Len(log) = t
  BY <1>1, <1>2, <1>3
<1>5. \A i \in n..t : Prefix(log, i) = hist[i].log
  BY <1>2, <1>3, HistoryPrefixes
<1>6. Prefix(log, n) = hist[n].log
  BY <1>2, <1>3, HistoryPrefixes
<1>7. n \in 0..Len(log) /\ \A i \in n..Len(log) : Prefix(log, i) \in DOMAIN metas
  BY <1>2, <1>4, <1>5
<1>8. Prefix(log, n) \in Chain(log)
  BY <1>7 DEF Chain
<1>. QED BY <1>3, <1>6, <1>8

\* Short of a fault, what is stored and no orphan is walked, or left behind.
LEMMA StoredWalked ==
  ASSUME ForgetInv, faults = 0, NEW l \in DOMAIN metas, l \notin Orphans, l \notin LeftBehind
  PROVE  l \in Walked
<1>1. pointer.format # "legacy" /\ IsPrefix(l, pointer.log) /\ ~(Len(l) < CutoverAt)
  BY DEF Orphans
<1>2. LogInv /\ IsSeq(l) /\ pointer.format = "compact"
  BY <1>1 DEF ForgetInv, CallsInv, ReclaimInv, LogInv, AnswersInv, WorkInv, Shape, Stored, LogOK
<1>3. PICK cut, top, hist : Tells(cut, top, hist) /\ Keeps(cut, top, hist)
  BY <1>2 DEF ForgetInv
<1>4. /\ top \in Nat /\ cut \in 0..top /\ top = Len(pointer.log) /\ hist[top].log = pointer.log
      /\ top \in cut..top /\ IsSeq(pointer.log)
  <2>1. /\ top \in Nat /\ cut \in 0..top /\ top = Len(pointer.log) /\ hist[top].log = pointer.log
        /\ \A n \in cut..top : IsSeq(hist[n].log)
    BY <1>3, HistorySays
  <2>2. top \in cut..top BY <2>1
  <2>. QED BY <2>1, <2>2
<1>5. Past(cut, top, hist) /\ CutoverAt = cut
  BY <1>3, CutoverIs DEF Keeps
<1>6. PICK n : n = Len(l)
  OBVIOUS
<1>7. n \in cut..top /\ n \in 0..top /\ n \in Nat
  BY <1>1, <1>2, <1>4, <1>5, <1>6, SeqFacts DEF IsPrefix
<1>8. l = Prefix(pointer.log, n)
  <2>1. PICK p : p = Prefix(pointer.log, n) OBVIOUS
  <2>2. Prefix(l, n) = p BY <1>1, <1>6, <2>1 DEF IsPrefix, Prefix
  <2>3. n \in 0..Len(l) BY <1>6, <1>7
  <2>4. IsSeq(p) /\ Len(p) = n /\ \A i \in 1..n : p[i] = l[i]
    BY <1>2, <2>2, <2>3, PrefixIs
  <2>5. l = p BY <1>2, <1>6, <2>4, SameSeq
  <2>. QED BY <2>1, <2>5
<1>9. l = hist[n].log
  BY <1>3, <1>4, <1>5, <1>7, <1>8, HistoryPrefixes
<1>10. ~(n = cut /\ SecondImport)
  BY <1>5, <1>8 DEF LeftBehind
<1>11. PICK t \in n..top :
         /\ \A i \in n..t : hist[i].log \in DOMAIN metas
         /\ t = top \/ \E c \in Clients : pc[c] = "sweep" /\ cursor[c] = {hist[t].log}
  BY <1>3, <1>7, <1>9, <1>10 DEF Keeps, Linked
<1>12. l \in Chain(hist[t].log)
  BY <1>3, <1>5, <1>7, <1>9, <1>11, ChainReaches
<1>13. CASE t = top
  BY <1>4, <1>12, <1>13 DEF Walked
<1>14. ASSUME NEW c \in Clients, cursor[c] = {hist[t].log} PROVE l \in Walked
  <2>1. l \in UNION {Chain(log) : log \in cursor[c]} BY <1>12, <1>14
  <2>. QED BY <2>1 DEF Walked
<1>. QED BY <1>11, <1>13, <1>14

\* Every stored shard is named, being published, or left behind.
LEMMA ShardsNamed ==
  ASSUME ForgetInv, NEW x \in shards
  PROVE  \/ \E log \in DOMAIN metas : x \in NamedBy(log)
         \/ Loose(x)
         \/ \E log \in LeftBehind : x \in PinnedRefs(Imported(log))
<1>0. LogInv /\ pointer.format \in {"compact", "legacy"}
  BY DEF ForgetInv, CallsInv, ReclaimInv, LogInv, AnswersInv, WorkInv, Shape
<1>1. CASE pointer.format = "legacy"
  BY <1>1 DEF ForgetInv, OldKeeps, NamedBy
<1>2. CASE pointer.format = "compact"
  <2>1. PICK cut, top, hist : Tells(cut, top, hist) /\ Keeps(cut, top, hist)
    BY <1>2 DEF ForgetInv
  <2>2. /\ top \in Nat /\ cut \in 0..top /\ top = Len(pointer.log) /\ hist[top].log = pointer.log
        /\ hist[cut] = Imported(hist[cut].log) /\ top \in cut..top /\ cut \in cut..top
    <3>1. /\ top \in Nat /\ cut \in 0..top /\ top = Len(pointer.log) /\ hist[top].log = pointer.log
          /\ hist[cut] = Imported(hist[cut].log)
      BY <2>1, HistorySays
    <3>2. top \in cut..top /\ cut \in cut..top BY <3>1
    <3>. QED BY <3>1, <3>2
  <2>3. Past(cut, top, hist) /\ CutoverAt = cut
    BY <2>1, CutoverIs DEF Keeps
  <2>4. ASSUME SecondImport, x \in PinnedRefs(hist[cut])
        PROVE  \E log \in LeftBehind : x \in PinnedRefs(Imported(log))
    <3>1. Prefix(pointer.log, cut) = hist[cut].log
      BY <2>1, <2>2, <2>3, HistoryPrefixes
    <3>2. hist[cut].log \in LeftBehind BY <2>3, <2>4, <3>1 DEF LeftBehind
    <3>. QED BY <2>2, <2>4, <3>2
  <2>5. ASSUME Extra(x, cut, top, hist)
        PROVE  \/ \E log \in DOMAIN metas : x \in NamedBy(log)
               \/ Loose(x)
               \/ \E log \in LeftBehind : x \in PinnedRefs(Imported(log))
    BY <2>4, <2>5 DEF Extra, NamedBy
  <2>6. ASSUME NEW i \in cut..top, hist[i].log \in DOMAIN metas,
               x \in PinnedRefs(hist[i]) \cup hist[i].supersededRefs
        PROVE  \E log \in DOMAIN metas : x \in NamedBy(log)
    <3>1. metas[hist[i].log] = hist[i] BY <2>1, <2>6 DEF Tells, StoredAre
    <3>. QED BY <2>6, <3>1 DEF NamedBy
  <2>7. hist[top].log \in DOMAIN metas
    BY <1>0, <1>2, <2>2 DEF LogInv, PointerIs
  <2>8. ASSUME NEW k \in cut..top, x \in PinnedRefs(hist[k]), ~Extra(x, cut, top, hist)
        PROVE  \E log \in DOMAIN metas : x \in NamedBy(log)
    <3>1. OnRecord(x, k, cut, top, hist) BY <2>1, <2>8 DEF Keeps, Accounted
    <3>2. CASE x \in PinnedRefs(hist[top]) BY <2>2, <2>6, <2>7, <3>2
    <3>3. ASSUME NEW i \in (k + 1)..top, hist[i].log \in DOMAIN metas, x \in hist[i].supersededRefs
          PROVE  \E log \in DOMAIN metas : x \in NamedBy(log)
      <4>1. i \in cut..top BY <2>2
      <4>. QED BY <2>6, <3>3, <4>1
    <3>. QED BY <2>8, <3>1, <3>2, <3>3 DEF OnRecord
  <2>9. Extra(x, cut, top, hist) \/ \E k \in cut..top : x \in PinnedRefs(hist[k])
    BY <2>1 DEF Keeps, Accounted
  <2>. QED BY <2>5, <2>8, <2>9
<1>. QED BY <1>0, <1>1, <1>2

\* BoardStore.NothingForgotten: reclamation loses track of nothing: short of a
\* fault, a stored generation is walked from the pointer or from where a sweep
\* stands, or belongs to a lost attempt; and every stored shard is named by a
\* stored generation, by one on its way, or by what a second import left behind.
THEOREM NothingIsForgotten == Spec => []NothingForgotten
<1>1. ForgetInv => NothingForgotten
  <2>. SUFFICES ASSUME ForgetInv PROVE NothingForgotten
    OBVIOUS
  <2>1. Walked \subseteq DOMAIN metas
    BY ChainStored DEF Walked
  <2>2. Orphans \subseteq DOMAIN metas
    BY DEF Orphans
  <2>3. faults = 0 => DOMAIN metas \ LeftBehind = (Walked \cup Orphans) \ LeftBehind
    <3>1. ASSUME faults = 0, NEW l \in DOMAIN metas \ LeftBehind PROVE l \in Walked \cup Orphans
      BY <3>1, StoredWalked
    <3>. QED BY <2>1, <2>2, <3>1
  <2>4. ASSUME NEW x \in shards
        PROVE  \/ x \in UNION {NamedBy(log) : log \in DOMAIN metas}
               \/ x \in UNION {Posted(draft[c]) : c \in {c \in Clients : pc[c] = "describe"}}
               \/ x \in UNION {PinnedRefs(Imported(log)) : log \in LeftBehind}
    <3>1. \/ \E log \in DOMAIN metas : x \in NamedBy(log)
          \/ Loose(x)
          \/ \E log \in LeftBehind : x \in PinnedRefs(Imported(log))
      BY ShardsNamed
    <3>. QED BY <3>1 DEF Loose
  <2>. QED BY <2>3, <2>4 DEF NothingForgotten
<1>. QED BY ForgetInit, ForgetStep, <1>1, PTL DEF Spec
=============================================================================
