---------------------------- MODULE MCComponents ----------------------------
(***************************************************************************)
(* The components that share no state with one another, checked side by    *)
(* side: a behaviour is one of one of them, `focus`, and the others stand  *)
(* still where they begin.  Each is checked over its own reachable states, *)
(* exactly as alone.                                                       *)
(***************************************************************************)
EXTENDS HostDaemon, ModelFailover, WebBoard, WebFeed, SignedStore, LogReplay, LivenessWatch,
        AgentStorage, BoardFormats, ProcessIdentity, BoardSession

VARIABLE focus

\* Two models of one provider, and two lists the operator may write of them.
MCProvider == [m \in Models |-> "provider"]
MCConfigs  == {<<"large", "small">>, <<"small">>}

\* Boards of every version, one a build never knew of among them: up to two
\* issues, whose messages may be out of order and identifiers the same, and
\* resources that may be repeated.
WireOf(form, id) == [form |-> form, id |-> id]
MCFirst  == [number : {WireOf("number", 1), WireOf("text", 1), WireOf("text", 2)},
             state : {"open", "closed"}, createdAt : {0}, updatedAt : {0},
             messages : {<< >>, <<1>>, <<0, 1>>, <<1, 0>>}]
MCSecond == [number : {WireOf("number", 2), WireOf("text", 1)},
             state : {"open"}, createdAt : {0}, updatedAt : {1}, messages : {<< >>}]
MCPlace  == [place |-> "p", numbers |-> <<WireOf("number", 1)>>]
MCPersisted ==
    [version : 1..6, next : 1..3,
     issues : {<< >>} \cup {<<i>> : i \in MCFirst} \cup (MCFirst \X MCSecond),
     places : {<< >>, <<MCPlace>>, <<MCPlace, MCPlace>>}]

\* One that none of them can open.
MCUnknown == [version |-> 6, next |-> 1, issues |-> << >>, places |-> << >>]

\* What each begins with, when it is another that is looked at.
Still == /\ focus # "failover" => /\ config = <<"large", "small">>
         /\ focus # "board" => /\ address = [selected |-> 0, page |-> 1]
         /\ focus # "feed" => page = 1
         /\ focus # "store" => cell = Absent
         /\ focus # "watch" => session
         /\ focus # "session" => site.root = NoRoot

Init == /\ focus \in {"daemon", "failover", "board", "feed", "store", "log", "watch",
                      "storage", "formats", "process", "session"}
        /\ DaemonInit /\ FailoverInit /\ WebInit /\ FeedInit /\ StoreInit /\ LogInit /\ WatchInit
        /\ StorageInit /\ IdentityInit /\ SessionInit
        /\ Still
        /\ IF focus = "formats" THEN FormatInit ELSE BeginsFrom(MCUnknown, 0)

vars == <<focus, daemonVars, failoverVars, webVars, feedVars, storeVars, history, watchVars,
          storageVars, formatVars, identityVars, sessionVars>>

Next ==
    /\ UNCHANGED focus
    /\ \/ /\ focus = "daemon" /\ DaemonNext
          /\ UNCHANGED <<failoverVars, webVars, feedVars, storeVars, history,
                         watchVars, storageVars, formatVars, identityVars, sessionVars>>
       \/ /\ focus = "failover" /\ FailoverNext
          /\ UNCHANGED <<daemonVars, webVars, feedVars, storeVars, history,
                         watchVars, storageVars, formatVars, identityVars, sessionVars>>
       \/ /\ focus = "board" /\ WebNext
          /\ UNCHANGED <<daemonVars, failoverVars, feedVars, storeVars, history,
                         watchVars, storageVars, formatVars, identityVars, sessionVars>>
       \/ /\ focus = "feed" /\ FeedNext
          /\ UNCHANGED <<daemonVars, failoverVars, webVars, storeVars, history,
                         watchVars, storageVars, formatVars, identityVars, sessionVars>>
       \/ /\ focus = "store" /\ StoreNext
          /\ UNCHANGED <<daemonVars, failoverVars, webVars, feedVars, history,
                         watchVars, storageVars, formatVars, identityVars, sessionVars>>
       \/ /\ focus = "log" /\ LogNext
          /\ UNCHANGED <<daemonVars, failoverVars, webVars, feedVars, storeVars,
                         watchVars, storageVars, formatVars, identityVars, sessionVars>>
       \/ /\ focus = "watch" /\ WatchNext
          /\ UNCHANGED <<daemonVars, failoverVars, webVars, feedVars, storeVars,
                         history, storageVars, formatVars, identityVars, sessionVars>>
       \/ /\ focus = "storage" /\ StorageNext
          /\ UNCHANGED <<daemonVars, failoverVars, webVars, feedVars, storeVars,
                         history, watchVars, formatVars, identityVars, sessionVars>>
       \/ /\ focus = "formats" /\ FormatNext
          /\ UNCHANGED <<daemonVars, failoverVars, webVars, feedVars, storeVars,
                         history, watchVars, storageVars, identityVars, sessionVars>>
       \/ /\ focus = "process" /\ IdentityNext
          /\ UNCHANGED <<daemonVars, failoverVars, webVars, feedVars, storeVars,
                         history, watchVars, storageVars, formatVars, sessionVars>>
       \/ /\ focus = "session" /\ SessionNext
          /\ UNCHANGED <<daemonVars, failoverVars, webVars, feedVars, storeVars,
                         history, watchVars, storageVars, formatVars, identityVars>>

\* The fairness of the two components that state some.  A runner that has not
\* begun owes no step; WebFairness is that of a page that is open.
Spec == /\ Init
        /\ [][Next]_vars
        /\ FailoverFairness
        /\ WF_webVars(focus = "board" /\ Effects)
        /\ \A r \in Reads : WF_webVars(focus = "board" /\ Landing(r))
        /\ \A r \in Refreshes : /\ WF_webVars(focus = "board" /\ Answer(r))
                                /\ WF_webVars(focus = "board" /\ AskRefresh(r))
=============================================================================
