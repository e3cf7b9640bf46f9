--------------------------- MODULE LivenessWatch ---------------------------
(***************************************************************************)
(* The watchdog of a running backend: InvocationActivity of                *)
(* agent-runtime/src/liveness.ts follows the rows the backend appends to   *)
(* its log, and stallCandidate with the poll of childResult (runner.ts)    *)
(* decides whether a silence is a hung model step that may be ended.  A    *)
(* row is its type; a poll is one synchronous turn of the runner.          *)
(***************************************************************************)
EXTENDS Naturals, Sequences

CONSTANTS Grace,     \* BACKEND_ERROR_GRACE_MS and STARTUP_SILENCE_MS, in turns of the clock
          Quiet,     \* MODEL_STEP_SILENCE_MS
          MaxScan,   \* rows in MAX_SCAN_BYTES_PER_POLL
          MaxUnread, \* bound: rows written between two polls
          MaxRows    \* bound: rows the backend writes

ASSUME WatchAssumption == /\ {Grace, Quiet, MaxScan, MaxUnread, MaxRows} \subseteq Nat
                          /\ Grace < Quiet

VARIABLES
  doing,    \* what the backend is really doing
  child,    \* a process of a tool is running under it
  reported, \* a tool of the step has been reported while the step is open
  unread,   \* the complete rows written since the last poll
  torn,     \* the row the log ends in the middle of, or Whole
  fresh,    \* the size of the log is not the one observed last
  lost,     \* the log has been cut short
  activity, failure, partial, \* InvocationActivity
  silent,   \* how long no output has been seen, at most Quiet
  session,  \* native_session_id is in the record
  ended,    \* the watchdog has sent SIGTERM, and the diagnosis it did it for
  warned,   \* record.error names a silence that is not acted on
  rows

watchVars == <<doing, child, reported, unread, torn, fresh, lost, activity, failure, partial,
          silent, session, ended, warned, rows>>
backend == <<doing, child, reported, rows>>
file    == <<unread, torn, fresh, lost>>
watch   == <<activity, failure, partial, silent, ended, warned>>

Whole == "whole"
Classes == {"model", "provider"}       \* of RecoverableBackendClassification, by scope

WatchInit == /\ doing = "starting"
             /\ child = FALSE
             /\ reported = FALSE
             /\ unread = << >>
             /\ torn = Whole
             /\ fresh = FALSE
             /\ lost = FALSE
             /\ activity = "startup"
             /\ failure = "none"
             /\ partial = FALSE
             /\ silent = 0
             /\ session \in BOOLEAN
             /\ ended = "no"
             /\ warned = FALSE
             /\ rows = 0

-----------------------------------------------------------------------------
(* InvocationActivity *)

\* acceptLine: only the rows that bound a step or report an error count.
AcceptLine(seen, row) ==
    CASE row = "step_start"  -> [activity |-> "model_step", failure |-> "none"]
      [] row = "tool_use"    -> [activity |-> "tool_running", failure |-> "none"]
      [] row = "step_finish" -> [activity |-> "step_finished", failure |-> "none"]
      [] row \in Classes     -> [activity |-> "backend_error", failure |-> row]
      [] row = "garbage"     -> [activity |-> "unknown", failure |-> "none"]
      [] OTHER               -> seen             \* text, or the footer

Unknown == [activity |-> "unknown", failure |-> "none"]
Known   == [activity |-> activity, failure |-> failure]

Skips   == Len(unread) > MaxScan

\* Rows accepted one after the other, by an activity that knew something.
AcceptLines(known, lines) ==
    LET seen[n \in 0..Len(lines)] ==
            IF n = 0 THEN known ELSE AcceptLine(seen[n - 1], lines[n])
    IN  seen[Len(lines)]

\* Faulty: a scan that stops at its budget leaves the state it came to.
ScanOfBudget == IF lost THEN Unknown
                ELSE AcceptLines(Known, SubSeq(unread, 1, IF Skips THEN MaxScan ELSE Len(unread)))

\* pollLog: a log that shrank, or has more rows than are scanned, says nothing.
Scan == IF lost \/ Skips THEN Unknown ELSE AcceptLines(Known, unread)

\* observe, of a backend whose process is there in a state of /proc.
Diagnosis(stat, seen, torn_, since) ==
    IF stat # "S" THEN IF stat = "D" /\ since >= Grace THEN "host_io_blocked" ELSE "uncertain"
    ELSE IF torn_ \/ seen.activity = "unknown"
         THEN IF since >= Quiet THEN "unverifiable_silent" ELSE "uncertain"
    ELSE CASE seen.activity = "backend_error" /\ since >= Grace -> "backend_error_silent"
           [] seen.activity = "startup" /\ since >= Grace -> "startup_silent"
           [] seen.activity = "model_step" /\ since >= Quiet -> "model_step_silent"
           [] seen.activity = "step_finished" /\ since >= Quiet -> "step_finished_silent"
           [] seen.activity = "tool_running" /\ since >= Quiet -> "tool_running_silent"
           [] OTHER -> "uncertain"

Verified == {"model_step_silent", "startup_silent", "step_finished_silent", "backend_error_silent"}
Withheld == {"unverifiable_silent", "tool_running_silent", "host_io_blocked"}

\* Another model is required only of a failure of the provider.
MayEnd(diagnosis, seen, other) ==
    diagnosis = "backend_error_silent" /\ seen.failure = "provider" => other

\* The rest of a row whose beginning was skipped is no row.
Rest == IF torn = Whole THEN Whole ELSE "garbage"

\* stallCandidate, and the SIGTERM of childResult in the same turn: a verified
\* silence of a checkpointed session with no process under the backend.  An
\* uncheckpointed one is looked for in the databases (SessionFound).  The state
\* of the process and whether safeAlternativeModel finds one are read afresh.
Poll ==
    /\ ended = "no" /\ doing # "exited"
    /\ \E stat \in {"S", "D", "R"}, other \in BOOLEAN :
       LET seen == Scan
           open == ~lost /\ ~Skips /\ IF fresh THEN torn # Whole ELSE partial
           since == IF fresh THEN 0 ELSE silent
           diagnosis == Diagnosis(stat, seen, open, since)
           acts == /\ diagnosis \in Verified
                   /\ session
                   /\ MayEnd(diagnosis, seen, other)
                   /\ ~child
       IN  /\ activity' = seen.activity
           /\ failure' = seen.failure
           /\ partial' = open
           /\ silent' = since
           /\ ended' = IF acts THEN diagnosis ELSE "no"
           /\ warned' = (warned \/ (~acts /\ diagnosis \in Verified \cup Withheld))
    /\ unread' = << >>
    /\ torn' = IF Skips THEN Rest ELSE torn
    /\ fresh' = FALSE
    /\ lost' = FALSE
    /\ UNCHANGED <<backend, session>>

\* discoverSessionId, at most every 30 seconds, of a verified silence.
SessionFound == /\ warned /\ ~session
                /\ session' = TRUE
                /\ UNCHANGED <<backend, file, watch>>

WatchTick == /\ silent < Quiet
             /\ silent' = silent + 1
             /\ UNCHANGED <<backend, file, activity, failure, partial, ended, warned, session>>

-----------------------------------------------------------------------------
(* The backend, its log and its host *)

\* A row is appended whole, or as far as the buffer went.
Write(row) == /\ doing # "exited"
              /\ torn = Whole
              /\ Len(unread) < MaxUnread
              /\ rows < MaxRows
              /\ rows' = rows + 1
              /\ fresh' = TRUE
              /\ \/ unread' = Append(unread, row) /\ torn' = Whole
                 \/ torn' = row /\ UNCHANGED unread
              /\ UNCHANGED lost

Complete == /\ torn # Whole
            /\ unread' = Append(unread, torn)
            /\ torn' = Whole
            /\ fresh' = TRUE
            /\ UNCHANGED <<lost, backend, watch, session>>

StepStarts == /\ doing \in {"starting", "between", "error"}
              /\ doing' = "model"
              /\ reported' = FALSE
              /\ Write("step_start")
              /\ UNCHANGED <<child, watch, session>>

\* Tools run before anything is written of them, with a process or without.
ToolsStart == /\ doing = "model"
              /\ doing' = "tools"
              /\ child' \in BOOLEAN
              /\ UNCHANGED <<reported, rows, file, watch, session>>

\* One of them is over; others may go on.
ToolReported == /\ doing = "tools"
                /\ reported' = TRUE
                /\ child' \in {FALSE, child}
                /\ Write("tool_use")
                /\ UNCHANGED <<doing, watch, session>>

StepFinishes == /\ doing = "model" \/ (doing = "tools" /\ reported)
                /\ doing' = "between"
                /\ child' = FALSE
                /\ reported' = FALSE
                /\ Write("step_finish")
                /\ UNCHANGED <<watch, session>>

RequestFails == /\ doing \in {"starting", "model"}
                /\ doing' = "error"
                /\ \E class \in Classes : Write(class)
                /\ UNCHANGED <<child, reported, watch, session>>

Chatter == /\ \E row \in {"text", "garbage"} : Write(row)
           /\ UNCHANGED <<doing, child, reported, watch, session>>

\* Somebody truncates the log, or it is gone for a while.
LogCut == /\ rows > 0 /\ ~lost
          /\ lost' = TRUE
          /\ unread' = << >>
          /\ torn' = Rest
          /\ fresh' = TRUE
          /\ UNCHANGED <<backend, watch, session>>

Exits == /\ doing # "exited"
         /\ doing' = "exited"
         /\ child' = FALSE
         /\ UNCHANGED <<reported, rows, file, watch, session>>

Backend == StepStarts \/ ToolsStart \/ ToolReported \/ StepFinishes \/ RequestFails
             \/ Chatter \/ Complete \/ Exits

WatchNext == Poll \/ SessionFound \/ WatchTick \/ Backend \/ LogCut

WatchSpec == WatchInit /\ [][WatchNext]_watchVars

-----------------------------------------------------------------------------
\* The watchdog never ends an invocation whose record has no session to resume,
\* nor one in the middle of a batch of tools one of which has been reported,
\* nor one whose tool still has a process, however rows were torn, skipped or
\* lost between the polls.
NoToolInterrupted ==
    [][ended = "no" /\ ended' # "no" => session /\ ~child /\ ~(doing = "tools" /\ reported)]_watchVars
=============================================================================
