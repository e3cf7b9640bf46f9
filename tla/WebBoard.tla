------------------------------ MODULE WebBoard ------------------------------
(***************************************************************************)
(* The shell of the web client, web/src/App.tsx: the address of the screen *)
(* (board-url.ts), the board it loaded (ui-state.ts), the conversation it  *)
(* reads, and the effects that keep the three together.  Reads of the      *)
(* board are answered, in any order, by a board that other clients change  *)
(* meanwhile.  An effect is a step of its own: React runs it after the     *)
(* render its dependencies changed in, and the next event of the user      *)
(* finds every effect run, but an answer may land before.  The filter, the *)
(* page of the list, the feed (WebFeed) and the credential are left out.   *)
(***************************************************************************)
EXTENDS Integers, FiniteSets

CONSTANTS Issues,      \* numbers issues may have, naturals above 0
          Start,       \* those the board holds when the page is loaded
          PageSize,    \* COMMENT_PAGE_SIZE
          Refreshes,   \* slots: overview reads that may be under way together
          Reads,       \* slots: conversation reads that may be under way together
          MaxHead,     \* bound: generations of the board
          MaxPage,     \* bound: pages an address names
          MaxActs,     \* bound: acts of the user
          MaxFaults    \* bound: reads that fail

NoIssue == 0              \* no issue is selected

ASSUME WebAssumption == /\ Issues \subseteq Nat \ {0}
                        /\ Start \subseteq Issues
                        /\ {Refreshes, Reads} \subseteq SUBSET (Nat \ {0})
                        /\ PageSize \in Nat \ {0}
                        /\ {MaxHead, MaxPage, MaxActs, MaxFaults} \subseteq Nat

VARIABLES
  srv,       \* the board: its head, its issues, the messages of each
  address,   \* selectedId and commentPage of the location
  load,      \* the overview on screen, [head, issues], or Loading
  refreshes, \* the overview reads under way
  conv,      \* conversation: the page of messages last read, or NoPage
  reads,     \* the conversation reads under way
  live,      \* the read whose effect has not been cleaned up, or 0
  deps,      \* the dependencies the conversation effect last ran with
  writing,   \* the comment that is being posted
  failed,    \* history: the last conversation read failed
  acts, faults

webVars == <<srv, address, load, refreshes, conv, reads, live, deps, writing, failed, acts, faults>>

Loading  == [head |-> 0, issues |-> {}]     \* heads count from 1
NoPage   == [issue |-> NoIssue, page |-> 1, total |-> 0, head |-> 0]
Idle     == [issue |-> NoIssue, slot |-> 0, ok |-> FALSE]
Free     == [asked |-> FALSE, seen |-> Loading]
FreeRead == [asked |-> FALSE, seen |-> NoPage]

WebInit == /\ srv = [head |-> 1, issues |-> Start, count |-> [i \in Issues |-> 1]]
           /\ address \in [selected : Issues \cup {NoIssue}, page : 1..MaxPage]
           /\ load = Loading
           /\ refreshes = [r \in Refreshes |-> Free]
           /\ conv = NoPage
           /\ reads = [r \in Reads |-> FreeRead]
           /\ live = 0
           /\ deps = <<NoIssue, 1, 0>>
           /\ writing = Idle
           /\ failed = FALSE
           /\ acts = 0
           /\ faults = 0

-----------------------------------------------------------------------------
Ready == load # Loading

\* issuePageCount, clampCommentPage.
Pages(total)       == IF total = 0 THEN 1 ELSE (total + PageSize - 1) \div PageSize
Clamp(page, total) == IF page > Pages(total) THEN Pages(total) ELSE page

\* selected: the conversation only if it is of the issue the address names.
Selected == conv.issue # NoIssue /\ conv.issue = address.selected

\* The address is corrected only from a read of the page it names.
MustCorrect == /\ Selected
               /\ conv.page = address.page
               /\ Clamp(conv.page, conv.total) # address.page

MustClear == Ready /\ address.selected # NoIssue /\ address.selected \notin load.issues

Deps     == <<address.selected, address.page, load.head>>
MustRead == deps # Deps

\* Slots are taken in order, which one being of no consequence.
NextFree(r, slots) == /\ ~slots[r].asked
                      /\ \A q \in DOMAIN slots : q < r => slots[q].asked

Settled == ~MustCorrect /\ ~MustClear /\ ~MustRead

Act == acts < MaxActs /\ acts' = acts + 1 /\ Settled

-----------------------------------------------------------------------------
(* The board, changed by anyone *)

Commit(issues, count) == /\ srv.head < MaxHead
                         /\ srv' = [head |-> srv.head + 1, issues |-> issues, count |-> count]

OtherComments == /\ \E i \in srv.issues : Commit(srv.issues, [srv.count EXCEPT ![i] = @ + 1])
                 /\ UNCHANGED <<address, load, refreshes, conv, reads, live, deps, writing,
                                failed, acts, faults>>

OtherDeletes == /\ \E i \in srv.issues : Commit(srv.issues \ {i}, srv.count)
                /\ UNCHANGED <<address, load, refreshes, conv, reads, live, deps, writing,
                               failed, acts, faults>>

-----------------------------------------------------------------------------
(* refresh *)

\* On mount, on the interval once there is a board, or on request: never twice
\* from the same source at once, but in any number of turns.
AskRefresh(r) == /\ NextFree(r, refreshes)
                 /\ refreshes' = [refreshes EXCEPT ![r].asked = TRUE]
                 /\ UNCHANGED <<srv, address, load, conv, reads, live, deps, writing,
                                failed, acts, faults>>

\* The pointer is resolved: the overview is of that generation.
ResolveRefresh(r) == /\ refreshes[r].asked
                     /\ refreshes[r].seen = Loading
                     /\ refreshes' = [refreshes EXCEPT ![r].seen =
                                         [head |-> srv.head, issues |-> srv.issues]]
                     /\ UNCHANGED <<srv, address, load, conv, reads, live, deps, writing,
                                    failed, acts, faults>>

\* A comment that waited for this reload is followed to the first page, of the
\* issue that is open by now.
AfterReload(r) ==
    /\ address' = IF writing.slot = r /\ writing.ok THEN [address EXCEPT !.page = 1] ELSE address
    /\ writing' = IF writing.slot = r THEN Idle ELSE writing

\* overviewLoaded, whatever is on screen by now; a failure keeps a ready board.
RefreshLands(r) == /\ refreshes[r].seen # Loading
                   /\ load' = refreshes[r].seen
                   /\ refreshes' = [refreshes EXCEPT ![r] = Free]
                   /\ AfterReload(r)
                   /\ UNCHANGED <<srv, conv, reads, live, deps, failed, acts, faults>>

RefreshFails(r) == /\ refreshes[r].asked
                   /\ faults < MaxFaults
                   /\ faults' = faults + 1
                   /\ refreshes' = [refreshes EXCEPT ![r] = Free]
                   /\ AfterReload(r)
                   /\ UNCHANGED <<srv, load, conv, reads, live, deps, failed, acts>>

-----------------------------------------------------------------------------
(* The effects *)

\* Faulty: a read of any page corrects the address.
CorrectAnyway ==
    /\ Selected
    /\ Clamp(conv.page, conv.total) # address.page
    /\ address' = [address EXCEPT !.page = Clamp(conv.page, conv.total)]
    /\ UNCHANGED <<srv, load, refreshes, conv, reads, live, deps, writing, failed, acts, faults>>

\* The page on screen is written back to the address.
CorrectPage ==
    /\ MustCorrect
    /\ address' = [address EXCEPT !.page = Clamp(conv.page, conv.total)]
    /\ UNCHANGED <<srv, load, refreshes, conv, reads, live, deps, writing, failed, acts, faults>>

\* An issue the loaded board does not hold is not selected.
ClearMissing ==
    /\ MustClear
    /\ address' = [address EXCEPT !.selected = NoIssue]
    /\ UNCHANGED <<srv, load, refreshes, conv, reads, live, deps, writing, failed, acts, faults>>

\* The conversation effect: the previous read is cleaned up; a page of another
\* issue leaves the screen; the page the address names is asked for.
ReadConversation ==
    /\ MustRead
    /\ deps' = Deps
    /\ failed' = FALSE
    /\ \/ /\ ~Ready \/ address.selected \notin load.issues
          /\ conv' = NoPage
          /\ live' = 0
          /\ UNCHANGED reads
       \/ /\ Ready /\ address.selected \in load.issues
          /\ conv' = IF Selected THEN conv ELSE NoPage
          /\ \E r \in Reads :
               /\ NextFree(r, reads)
               /\ live' = r
               /\ reads' = [reads EXCEPT ![r] =
                     [asked |-> TRUE, seen |-> [NoPage EXCEPT !.issue = address.selected,
                                                              !.page = address.page]]]
    /\ UNCHANGED <<srv, address, load, refreshes, writing, acts, faults>>

\* getIssueCommentPage resolves the pointer: the page as asked, of that board.
ResolveRead(r) ==
    /\ reads[r].asked
    /\ reads[r].seen.head = 0
    /\ reads[r].seen.issue \in srv.issues
    /\ reads' = [reads EXCEPT ![r].seen =
                     [@ EXCEPT !.head = srv.head, !.total = srv.count[reads[r].seen.issue]]]
    /\ UNCHANGED <<srv, address, load, refreshes, conv, live, deps, writing, failed, acts, faults>>

\* Faulty: neither the cleanup flag nor the number of the request is looked at.
ReadLandsLate(r) ==
    /\ reads[r].seen.head # 0
    /\ reads' = [reads EXCEPT ![r] = FreeRead]
    /\ conv' = reads[r].seen
    /\ live' = IF r = live THEN 0 ELSE live
    /\ UNCHANGED <<srv, address, load, refreshes, deps, writing, failed, acts, faults>>

\* Only the last read asked for, and not cleaned up, reaches the screen.
ReadLands(r) ==
    /\ reads[r].seen.head # 0
    /\ reads' = [reads EXCEPT ![r] = FreeRead]
    /\ conv' = IF r = live THEN reads[r].seen ELSE conv
    /\ live' = IF r = live THEN 0 ELSE live
    /\ UNCHANGED <<srv, address, load, refreshes, deps, writing, failed, acts, faults>>

\* The read fails, or the issue has been deleted: an error, and nothing retries.
ReadFails(r) ==
    /\ reads[r].asked
    /\ IF reads[r].seen.issue \in srv.issues THEN /\ faults < MaxFaults
                                                  /\ faults' = faults + 1
                                             ELSE UNCHANGED faults
    /\ reads[r].seen.head = 0
    /\ reads' = [reads EXCEPT ![r] = FreeRead]
    /\ failed' = (failed \/ r = live)
    /\ live' = IF r = live THEN 0 ELSE live
    /\ UNCHANGED <<srv, address, load, refreshes, conv, deps, writing, acts>>

-----------------------------------------------------------------------------
(* The user *)

\* A link or Back opens any address; a row of the list keeps the page number;
\* openIssue starts at the first page; the thread's controls change the page.
Navigate == /\ Act
            /\ address' \in [selected : Issues \cup {NoIssue}, page : 1..MaxPage]
            /\ address' # address
            /\ UNCHANGED <<srv, load, refreshes, conv, reads, live, deps, writing, failed, faults>>

\* postComment: commitWrite sends the comment ...
PostComment == /\ Act
               /\ writing = Idle
               /\ Selected
               /\ writing' = [issue |-> conv.issue, slot |-> 0, ok |-> FALSE]
               /\ UNCHANGED <<srv, address, load, refreshes, conv, reads, live, deps, failed, faults>>

\* ... it is committed, or refused, and the board is read again.
PostAnswered(r) ==
    /\ writing # Idle /\ writing.slot = 0
    /\ NextFree(r, refreshes)
    /\ \/ /\ writing.issue \in srv.issues
          /\ Commit(srv.issues, [srv.count EXCEPT ![writing.issue] = @ + 1])
          /\ writing' = [writing EXCEPT !.slot = r, !.ok = TRUE]
       \/ /\ writing' = [writing EXCEPT !.slot = r]
          /\ UNCHANGED srv
    /\ refreshes' = [refreshes EXCEPT ![r].asked = TRUE]
    /\ UNCHANGED <<address, load, conv, reads, live, deps, failed, acts, faults>>

-----------------------------------------------------------------------------
Effects == CorrectPage \/ ClearMissing \/ ReadConversation
Landing(r) == ResolveRead(r) \/ ReadLands(r) \/ ReadFails(r)
Answer(r)  == ResolveRefresh(r) \/ RefreshLands(r) \/ RefreshFails(r)

WebNext == \/ OtherComments \/ OtherDeletes
           \/ Effects
           \/ \E r \in Reads : Landing(r)
           \/ \E r \in Refreshes : AskRefresh(r) \/ Answer(r) \/ PostAnswered(r)
           \/ Navigate \/ PostComment

\* React runs the effects, reads are answered, and the interval asks again.
WebFairness == /\ WF_webVars(Effects)
               /\ \A r \in Reads : WF_webVars(Landing(r))
               /\ \A r \in Refreshes : WF_webVars(Answer(r)) /\ WF_webVars(AskRefresh(r))

WebSpec == WebInit /\ [][WebNext]_webVars /\ WebFairness

-----------------------------------------------------------------------------
\* A thread on screen never goes back in time: a page of an issue is only
\* replaced by the same page read from a board at least as new, although the
\* reads of it are answered in any order.
ThreadNeverBack ==
    [][conv.issue # NoIssue /\ conv'.issue = conv.issue /\ conv'.page = conv.page
         => conv'.head >= conv.head]_webVars

\* Once the board and the user are quiet the screen settles: the address names
\* an issue the board holds and a page it has, and that page is what is shown,
\* or the address names no issue, or the read of it failed.
ScreenSettles ==
    <>[](\/ address.selected = NoIssue
         \/ failed
         \/ /\ address.selected \in srv.issues
            /\ address.page <= Pages(srv.count[address.selected])
            /\ Selected /\ conv.page = address.page)
=============================================================================
