---------------------------- MODULE BoardSession ----------------------------
(***************************************************************************)
(* The keys of a browser: BoardApi (core/src/api.ts) of each open tab, the *)
(* browser storage the tabs share (BrowserBoardSession, web/src/api.ts),   *)
(* and the calls under way.  Every call awaits the store one to three      *)
(* times, and whatever the user does meanwhile, in this tab or in another, *)
(* finds the fields as the call has left them so far.                      *)
(*                                                                         *)
(* The board behind the store is its trust root, which never changes (that *)
(* is SignedStore), a generation and a tombstone.  A key is the root it    *)
(* names and what it is fit for: it opens the board, it opens it while the *)
(* store refuses its writes, or its shared key is stale.  Issues, queue    *)
(* and feed travel with a read and are left out.                           *)
(***************************************************************************)
EXTENDS Naturals

CONSTANTS Tabs,          \* tabs of one browser; a board a tab creates has the tab as its root
          OldRoot,       \* the root of a board that is there to begin with
          Foreign,       \* the root of another board, somewhere else
          NoRoot,
          Slots,         \* calls that may be under way together
          MaxAsked,      \* bound: calls
          MaxGeneration  \* bound: generations of the board

Roots == Tabs \cup {OldRoot, Foreign}
Fits  == {"opens", "reads", "stale"}
KeyOf(root, fit) == [root |-> root, fit |-> fit]
NoKey == KeyOf(NoRoot, "stale")

ASSUME SessionAssumption == /\ NoRoot \notin Roots
                            /\ {MaxAsked, MaxGeneration} \subseteq Nat

VARIABLES
  site,   \* the board behind the store
  tabs,   \* the BoardApi of each tab; head 0 is null
  browser,   \* the browser storage; head 0 is absent
  slots,  \* the calls under way: op, the tab, where it waits, the key it uses, what was answered
  asked

sessionVars == <<site, tabs, browser, slots, asked>>

NoCall == [op |-> "none", tab |-> NoRoot, at |-> "idle", key |-> NoKey, answer |-> 0]

\* The constructor of BoardApi, from what the browser has kept.
Loaded == [key |-> browser.key,
           anchor |-> IF browser.trust # NoRoot THEN browser.trust ELSE browser.key.root,
           head |-> browser.head, accepted |-> FALSE, rejected |-> FALSE]

NothingKept == [key |-> NoKey, trust |-> NoRoot, head |-> 0]

SessionInit ==
    /\ site \in {[root |-> NoRoot, head |-> 0, deleted |-> FALSE],
                 [root |-> OldRoot, head |-> 1, deleted |-> FALSE]}
    /\ browser = NothingKept
    /\ tabs = [t \in Tabs |-> [key |-> NoKey, anchor |-> NoRoot, head |-> 0,
                               accepted |-> FALSE, rejected |-> FALSE]]
    /\ slots = [s \in Slots |-> NoCall]
    /\ asked = 0

-----------------------------------------------------------------------------
\* A call goes on to its next await, or is over.
Awaits(s, at, key) == slots' = [slots EXCEPT ![s].at = at, ![s].key = key, ![s].answer = 0]
Over(s) == slots' = [slots EXCEPT ![s] = NoCall]

Api(s) == tabs[slots[s].tab]
SetApi(s, api) == tabs' = [tabs EXCEPT ![slots[s].tab] = api]

\* What the store lets a key do.
KeyOpens(key)  == key.root = site.root /\ key.fit # "stale"
KeyWrites(key) == KeyOpens(key) /\ key.fit = "opens" /\ ~site.deleted

\* Where a call of a tab begins: loadState and trustBoard read with the key
\* there is; the other reads and the writes verify it first, once.
StartOf(op, api) == CASE op = "initialize" -> "create"
                      [] op = "state" -> "read"
                      [] op = "trust" -> "anchor"
                      [] op \in {"overview", "feed"} -> IF api.accepted THEN "read" ELSE "verify"
                      [] op \in {"append", "delete"} -> IF api.accepted THEN "write" ELSE "verify"

\* A call that needs a key and finds none throws, after a look at the store
\* that changes nothing.
Ask(t, op) ==
    /\ asked < MaxAsked
    /\ op = "initialize" \/ tabs[t].key # NoKey
    /\ \E s \in Slots :
          /\ slots[s] = NoCall
          /\ slots' = [slots EXCEPT ![s] = [op |-> op, tab |-> t, at |-> StartOf(op, tabs[t]),
                                            key |-> tabs[t].key, answer |-> 0]]
    /\ asked' = asked + 1
    /\ UNCHANGED <<site, tabs, browser>>

\* enableEditing: the user enters a key, of this board or of another.
EnableEditing(t) ==
    /\ asked < MaxAsked
    /\ \E s \in Slots, root \in {site.root, Foreign} \ {NoRoot}, fit \in Fits :
          /\ slots[s] = NoCall
          /\ slots' = [slots EXCEPT ![s] = [op |-> "enable", tab |-> t, at |-> "verify",
                                            key |-> KeyOf(root, fit), answer |-> 0]]
    /\ asked' = asked + 1
    /\ UNCHANGED <<site, tabs, browser>>

SameAnchor(api, root) == api.anchor \in {NoRoot, root}

\* Faulty: the key is kept before the board was opened with it.
VerifyKeyKeeps(s) ==
    /\ slots[s].at = "verify"
    /\ IF SameAnchor(Api(s), slots[s].key.root)
       THEN /\ SetApi(s, [Api(s) EXCEPT !.anchor = slots[s].key.root, !.key = slots[s].key])
            /\ Awaits(s, "open", slots[s].key)
            /\ browser' = [browser EXCEPT !.key = slots[s].key]
       ELSE Over(s) /\ UNCHANGED <<tabs, browser>>
    /\ UNCHANGED <<site, asked>>

\* verifyCredential, after verifyBoardCredential: a key of another root than
\* the one the tab trusts is refused, any other takes the place of the key
\* before the board has been opened with it.
VerifyKey(s) ==
    /\ slots[s].at = "verify"
    /\ IF SameAnchor(Api(s), slots[s].key.root)
       THEN /\ SetApi(s, [Api(s) EXCEPT !.anchor = slots[s].key.root, !.key = slots[s].key])
            /\ Awaits(s, "open", slots[s].key)
       ELSE Over(s) /\ UNCHANGED tabs
    /\ UNCHANGED <<site, browser, asked>>

\* trustBoard, after verifyBoardTrustAnchor.  A key there is has made the tab
\* trust its root, so an anchor that goes on is of that root too.
CheckAnchor(s) ==
    /\ slots[s].at = "anchor"
    /\ \E root \in Roots :
          IF SameAnchor(Api(s), root) /\ Api(s).key # NoKey
          THEN Awaits(s, "read", Api(s).key)
          ELSE Over(s)
    /\ UNCHANGED <<site, tabs, browser, asked>>

-----------------------------------------------------------------------------
(* The store answers *)

\* A read, of the board as it is now.
AnswerRead(s) ==
    /\ slots[s].at \in {"open", "read"} /\ slots[s].answer = 0
    /\ KeyOpens(slots[s].key) /\ ~site.deleted
    /\ slots' = [slots EXCEPT ![s].answer = site.head]
    /\ UNCHANGED <<site, tabs, browser, asked>>

\* A write that is committed.
AnswerWrite(s) ==
    /\ slots[s].at = "write" /\ slots[s].answer = 0
    /\ KeyWrites(slots[s].key) /\ site.head < MaxGeneration
    /\ site' = [site EXCEPT !.head = @ + 1, !.deleted = slots[s].op = "delete"]
    /\ slots' = [slots EXCEPT ![s].answer = site.head + 1]
    /\ UNCHANGED <<tabs, browser, asked>>

\* initialize of a store that holds no board; the key names the new root.
AnswerCreate(s) ==
    /\ slots[s].at = "create" /\ slots[s].answer = 0
    /\ site.root = NoRoot
    /\ site' = [root |-> slots[s].tab, head |-> 1, deleted |-> FALSE]
    /\ slots' = [slots EXCEPT ![s].key = KeyOf(slots[s].tab, "opens"), ![s].answer = 1]
    /\ UNCHANGED <<tabs, browser, asked>>

\* The call throws: there is no board, it is deleted, the key does not open it,
\* or an answer is lost, that of a committed write or creation among them.
Fail(s) ==
    /\ slots[s].at \in {"open", "read", "write", "create"}
    /\ Over(s)
    /\ UNCHANGED <<site, tabs, browser, asked>>

\* append: the store refuses to replace the pointer (403).
RefuseWrite(s) ==
    /\ slots[s].at = "write" /\ slots[s].answer = 0
    /\ KeyOpens(slots[s].key) /\ slots[s].key.fit = "reads" /\ ~site.deleted
    /\ SetApi(s, [Api(s) EXCEPT !.rejected = TRUE])
    /\ Over(s)
    /\ UNCHANGED <<site, browser, asked>>

-----------------------------------------------------------------------------
(* An answer lands *)

\* rememberHead
Remember(head) == browser' = [browser EXCEPT !.head = head]

\* verifyCredential ends; enableEditing keeps the key, the others go on with
\* the key there is by then.
LandOpened(s) ==
    /\ slots[s].at = "open" /\ slots[s].answer > 0
    /\ SetApi(s, [Api(s) EXCEPT !.head = slots[s].answer, !.accepted = TRUE, !.rejected = FALSE])
    /\ IF slots[s].op = "enable" \/ Api(s).key = NoKey
       THEN Over(s)
       ELSE Awaits(s, IF slots[s].op \in {"append", "delete"} THEN "write" ELSE "read", Api(s).key)
    /\ browser' = IF slots[s].op = "enable" THEN [browser EXCEPT !.key = slots[s].key] ELSE browser
    /\ UNCHANGED <<site, asked>>

\* loadOverview, readFeed
LandOverview(s) ==
    /\ slots[s].at = "read" /\ slots[s].answer > 0
    /\ slots[s].op \in {"overview", "feed"}
    /\ IF slots[s].op = "overview"
       THEN /\ SetApi(s, [Api(s) EXCEPT !.head = slots[s].answer, !.accepted = TRUE])
            /\ Remember(slots[s].answer)
       ELSE UNCHANGED <<tabs, browser>>
    /\ Over(s)
    /\ UNCHANGED <<site, asked>>

\* acceptStored
AcceptStored(api, head) == [api EXCEPT !.head = head, !.accepted = api.key # NoKey]

\* readState and trust, after readStored.
LandState(s) ==
    /\ slots[s].at = "read" /\ slots[s].answer > 0
    /\ slots[s].op \in {"state", "trust"}
    /\ LET api == AcceptStored(Api(s), slots[s].answer)
           trusts == slots[s].op = "trust"
       IN  /\ SetApi(s, IF trusts THEN [api EXCEPT !.anchor = slots[s].key.root] ELSE api)
           /\ browser' = [browser EXCEPT !.head = slots[s].answer,
                                         !.trust = IF trusts THEN slots[s].key.root ELSE @]
    /\ Over(s)
    /\ UNCHANGED <<site, asked>>

\* append
LandWrite(s) ==
    /\ slots[s].at = "write" /\ slots[s].answer > 0
    /\ SetApi(s, [AcceptStored(Api(s), slots[s].answer) EXCEPT !.rejected = FALSE])
    /\ Over(s)
    /\ UNCHANGED <<site, browser, asked>>

\* initialize: the one place a tab changes the root it trusts.
LandCreate(s) ==
    /\ slots[s].at = "create" /\ slots[s].answer > 0
    /\ SetApi(s, [key |-> slots[s].key, anchor |-> slots[s].key.root, head |-> slots[s].answer,
                  accepted |-> TRUE, rejected |-> FALSE])
    /\ browser' = [key |-> slots[s].key, trust |-> slots[s].key.root, head |-> slots[s].answer]
    /\ Over(s)
    /\ UNCHANGED <<site, asked>>

-----------------------------------------------------------------------------
\* clearCredential
ClearCredential(t) ==
    /\ tabs' = [tabs EXCEPT ![t].key = NoKey, ![t].accepted = FALSE, ![t].rejected = FALSE]
    /\ browser' = [browser EXCEPT !.key = NoKey]
    /\ UNCHANGED <<site, slots, asked>>

\* The constructor throws when the keys it finds are of two roots.
PageStarts == browser.key = NoKey \/ browser.trust \in {NoRoot, browser.key.root}

\* The page is loaded again: its calls are gone, a write may have been
\* committed.
Reload(t) ==
    /\ PageStarts
    /\ tabs' = [tabs EXCEPT ![t] = Loaded]
    /\ slots' = [s \in Slots |-> IF slots[s].tab = t THEN NoCall ELSE slots[s]]
    /\ UNCHANGED <<site, browser, asked>>

\* Another client writes to the board, or deletes it.
OthersWrite ==
    /\ site.root # NoRoot /\ ~site.deleted /\ site.head < MaxGeneration
    /\ \E deleted \in BOOLEAN : site' = [site EXCEPT !.head = @ + 1, !.deleted = deleted]
    /\ UNCHANGED <<tabs, browser, slots, asked>>

BoardCalls == {"initialize", "state", "trust", "overview", "feed", "append", "delete"}

Asks(t) == \/ \E op \in BoardCalls : Ask(t, op)
           \/ EnableEditing(t)
Goes(s) == VerifyKey(s) \/ CheckAnchor(s)
Answers(s) == AnswerRead(s) \/ AnswerWrite(s) \/ AnswerCreate(s) \/ RefuseWrite(s) \/ Fail(s)
Lands(s) == LandOpened(s) \/ LandOverview(s) \/ LandState(s) \/ LandWrite(s) \/ LandCreate(s)

SessionNext == \/ \E t \in Tabs : Asks(t) \/ ClearCredential(t) \/ Reload(t)
               \/ \E s \in Slots : Goes(s) \/ Answers(s) \/ Lands(s)
               \/ OthersWrite

SessionSpec == SessionInit /\ [][SessionNext]_sessionVars

-----------------------------------------------------------------------------
\* Whatever keys are entered, cleared, refused or answered late in whichever
\* tab, the browser keeps only keys of the board behind the store, with which
\* it has been opened or created, so that the constructor never finds two that
\* are at odds and the page can always be loaded; and a tab never uses a key of
\* another root than the one it trusts.
KeysAreOfOneBoard ==
    /\ browser.key # NoKey => browser.key.root = site.root /\ browser.key.fit # "stale"
    /\ browser.trust \in {NoRoot, site.root}
    /\ \A t \in Tabs : tabs[t].key # NoKey => tabs[t].anchor = tabs[t].key.root
=============================================================================
