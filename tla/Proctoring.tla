----------------------------- MODULE Proctoring -----------------------------
(***************************************************************************)
(* internal/service/proctor_service.go and results_export_service.go:      *)
(* candidates report incidents while they sit the exam, and an             *)
(* administrator downloads the results of a delivery as CSV.  Neither      *)
(* takes a lock or a transaction, so every statement is a step of its own. *)
(* The exam itself is ExamLedger, which SessionService implements.         *)
(*                                                                         *)
(* Faults: a statement fails, or the download breaks off.                  *)
(***************************************************************************)
EXTENDS ExamData, Sequences

CONSTANTS
    Reporter,    \* goroutines serving RecordEvent
    Report,      \* the events that candidates may report
    MaxEvents,   \* bound on the calls of RecordEvent
    MaxFaults    \* bound on the faults of a behaviour

\* FULLSCREEN_EXIT is stored and left out of the analysis; "OTHER" is no type.
Kind == {"TAB_SWITCH", "FOCUS_LOST", "SCREENSHOT_ATTEMPT", "COPY_ATTEMPT",
         "FULLSCREEN_EXIT", "OTHER"}

ASSUME ReportAssumption ==
    /\ Report \subseteq [type: Kind, seconds: Int]
    /\ MaxEvents \in Nat /\ MaxFaults \in Nat

VARIABLES
    sess, resp, calls,   \* the exam
    events,    \* proctor_events by session
    record,    \* record[w]: the event that call w is about to insert
    export,    \* the locals of ExportDeliveryResultsCSV
    csv,       \* csv[s]: the row of session s in the last download
    taken,     \* calls of RecordEvent so far
    faults     \* faults so far

exam == <<sess, resp, calls>>
proctor == <<events, record, taken>>
download == <<export, csv>>
vars == <<exam, proctor, download, faults>>

Exam == INSTANCE ExamLedger WITH sess <- sess, resp <- resp, calls <- calls

NoExport ==
    [at |-> "idle", rows |-> [s \in {} |-> Nil], answers |-> [s \in {} |-> 0],
     log |-> [s \in {} |-> << >>]]

NoFile == [s \in SessionId |-> Nil]

Init ==
    /\ Exam!Init
    /\ events = [s \in SessionId |-> << >>]
    /\ record = [w \in Reporter |-> Nil]
    /\ export = NoExport
    /\ csv = NoFile
    /\ taken = 0
    /\ faults = 0

Fault == faults < MaxFaults /\ faults' = faults + 1

-----------------------------------------------------------------------------
(* The exam goes on.                                                       *)

Sit ==
    /\ \E s \in SessionId :
        \/ \E d \in Delivery, u \in User : Exam!Open(s, d, u)
        \/ Exam!Begin(s)
        \/ \E i \in Item, a \in Answer : Exam!Answers(s, i, a)
        \/ Exam!Complete(s)
    /\ UNCHANGED <<proctor, download, faults>>

-----------------------------------------------------------------------------
(* RecordEvent.                                                            *)

ValidReport(e) ==
    e.type \in Kind \ {"OTHER"} /\ 0 <= e.seconds /\ e.seconds <= 86400

\* Mutant: any session of the candidate will do.
RecordCheckOwner(w, s, e) ==
    /\ record[w] = Nil /\ taken < MaxEvents
    /\ sess[s] # Nil
    /\ ValidReport(e)
    /\ record' = [record EXCEPT ![w] = [session |-> s, event |-> e]]
    /\ taken' = taken + 1
    /\ UNCHANGED <<exam, events, download, faults>>

\* The candidate's own session is in progress when it is read; a refusal
\* changes nothing.
RecordCheck(w, s, e) ==
    /\ record[w] = Nil /\ taken < MaxEvents
    /\ sess[s] # Nil /\ Active(sess[s])
    /\ ValidReport(e)
    /\ record' = [record EXCEPT ![w] = [session |-> s, event |-> e]]
    /\ taken' = taken + 1
    /\ UNCHANGED <<exam, events, download, faults>>

RecordInsert(w) ==
    /\ record[w] # Nil
    /\ events' = [events EXCEPT ![record[w].session] = Append(@, record[w].event)]
    /\ record' = [record EXCEPT ![w] = Nil]
    /\ UNCHANGED <<exam, taken, download, faults>>

RecordFails(w) ==
    /\ record[w] # Nil
    /\ Fault
    /\ record' = [record EXCEPT ![w] = Nil]
    /\ UNCHANGED <<exam, events, taken, download>>

-----------------------------------------------------------------------------
(* GetProctorAnalytics: one pass over the log of a session, in which each  *)
(* event counts by its type.                                               *)

Places(log, types) == {k \in DOMAIN log : log[k].type \in types}

Switches(log) == Places(log, {"TAB_SWITCH", "FOCUS_LOST"})

TotalTabSwitches(log) == Cardinality(Switches(log))

TotalFocusLostSeconds(log) ==
    LET seconds(k) == log[k].seconds IN MapThenSumSet(seconds, Switches(log))

Attempts(log, type) == Cardinality(Places(log, {type}))

\* At least one of the four totals reaches its threshold.
Reaches(log, switches, seconds, copies, shots) ==
    \/ TotalTabSwitches(log) >= switches
    \/ TotalFocusLostSeconds(log) >= seconds
    \/ Attempts(log, "COPY_ATTEMPT") >= copies
    \/ Attempts(log, "SCREENSHOT_ATTEMPT") >= shots

\* Mutant: the first copy or screenshot is forgiven.
RiskLevelLenient(log) ==
    IF Reaches(log, 5, 120, 3, 3) THEN "HIGH"
    ELSE IF Reaches(log, 2, 30, 2, 2) THEN "MEDIUM" ELSE "LOW"

RiskLevel(log) ==
    IF Reaches(log, 5, 120, 3, 3) THEN "HIGH"
    ELSE IF Reaches(log, 2, 30, 1, 1) THEN "MEDIUM" ELSE "LOW"

-----------------------------------------------------------------------------
(* ExportDeliveryResultsCSV.                                               *)

DeliveryRows(d) == {s \in Rows(sess) : sess[s].delivery = d}

\* SELECT ... FROM test_sessions.  What the log holds by now is kept for
\* RiskNotUnderstated.
ExportSessions(d) ==
    /\ export.at = "idle"
    /\ export' = [at |-> "responses",
                  rows |-> [s \in DeliveryRows(d) |-> sess[s]],
                  answers |-> [s \in {} |-> 0],
                  log |-> [s \in DeliveryRows(d) |-> events[s]]]
    /\ csv' = NoFile
    /\ UNCHANGED <<exam, proctor, faults>>

\* Preload: SELECT ... FROM item_responses WHERE session_id IN (...).
ExportResponses ==
    /\ export.at = "responses"
    /\ export' = [export EXCEPT
           !.at = "rows",
           !.answers = [s \in DOMAIN export.rows |-> Cardinality(Answered(resp[s]))]]
    /\ UNCHANGED <<exam, proctor, csv, faults>>

Row(s, risk, switches, blind) ==
    [status |-> export.rows[s].status, total |-> export.rows[s].total,
     risk |-> risk, switches |-> switches, answers |-> export.answers[s],
     blind |-> blind]

ToWrite == {s \in DOMAIN export.rows : csv[s] = Nil}

\* Mutant: the status and the score are read when the row is written.
ExportRowLate(s) ==
    /\ export.at = "rows" /\ s \in ToWrite
    /\ csv' = [csv EXCEPT ![s] =
           [Row(s, RiskLevel(events[s]), TotalTabSwitches(events[s]), FALSE)
               EXCEPT !.status = sess[s].status, !.total = sess[s].total]]
    /\ UNCHANGED <<exam, proctor, export, faults>>

ExportRow(s) ==
    /\ export.at = "rows" /\ s \in ToWrite
    /\ csv' = [csv EXCEPT ![s] =
           Row(s, RiskLevel(events[s]), TotalTabSwitches(events[s]), FALSE)]
    /\ UNCHANGED <<exam, proctor, export, faults>>

\* The error of the analysis is dropped: the row says LOW and 0.
ExportRowBlind(s) ==
    /\ export.at = "rows" /\ s \in ToWrite
    /\ Fault
    /\ csv' = [csv EXCEPT ![s] = Row(s, "LOW", 0, TRUE)]
    /\ UNCHANGED <<exam, proctor, export>>

\* The last row is written.
ExportDone ==
    /\ export.at = "rows" /\ ToWrite = {}
    /\ export' = NoExport
    /\ UNCHANGED <<exam, proctor, csv, faults>>

\* A query fails before the first row, or the client is gone: what was sent
\* stays sent.
ExportFails ==
    /\ export.at # "idle"
    /\ Fault
    /\ export' = NoExport
    /\ UNCHANGED <<exam, proctor, csv>>

Next ==
    \/ Sit
    \/ \E w \in Reporter :
        \/ \E s \in SessionId, e \in Report : RecordCheck(w, s, e)
        \/ RecordInsert(w) \/ RecordFails(w)
    \/ \E d \in Delivery : ExportSessions(d)
    \/ ExportResponses \/ ExportDone \/ ExportFails
    \/ \E s \in SessionId : ExportRow(s) \/ ExportRowBlind(s)

Spec == Init /\ [][Next]_vars

-----------------------------------------------------------------------------
(* Properties.                                                             *)

\* RecordEvent looks at the status and inserts later, so an incident can
\* still be stored after the submission; but only by a call that had passed
\* the check before it: the log of a completed session is final once those
\* calls are through.
LogSettles ==
    [][\A s \in SessionId :
          /\ sess[s] # Nil /\ Done(sess[s])
          /\ \A w \in Reporter : record[w] = Nil \/ record[w].session # s
          => events'[s] = events[s] /\ \A w \in Reporter :
                 record'[w] = Nil \/ record'[w].session # s]_vars

\* A row of the download that says COMPLETED shows the final score and all
\* the answers it is made of, now and ever after, although the sessions and
\* the answers are read in two statements while candidates submit.
CompletedRowsFinal ==
    \A s \in SessionId :
        csv[s] # Nil /\ csv[s].status = "COMPLETED" =>
            /\ csv[s].total = TotalScore(resp[s])
            /\ csv[s].answers = Cardinality(Answered(resp[s]))

\* A session with a copy or a screenshot attempt, a second tab switch or half
\* a minute of absence on record when the download began is not shown as LOW,
\* whatever is reported meanwhile, unless the analysis of that row failed.
RiskNotUnderstated ==
    \A s \in DOMAIN export.log :
        csv[s] # Nil /\ ~csv[s].blind /\ csv[s].risk = "LOW" =>
            LET log == export.log[s] IN
            /\ Places(log, {"COPY_ATTEMPT", "SCREENSHOT_ATTEMPT"}) = {}
            /\ Cardinality(Switches(log)) <= 1
            /\ \A k \in Switches(log) : log[k].seconds < 30
=============================================================================
