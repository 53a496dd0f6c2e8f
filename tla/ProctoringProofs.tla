-------------------------- MODULE ProctoringProofs --------------------------
(***************************************************************************)
(* CompletedRowsFinal, RiskNotUnderstated and LogSettles for any number of *)
(* sessions, reporters and events.                                         *)
(*                                                                         *)
(* The argument: a completed session and its sheet never change again      *)
(* (Final).  A row that the first query of the download reads as COMPLETED *)
(* is therefore still the row of the table when the second query counts    *)
(* the answers and when the row is written, and every later step keeps     *)
(* both what was written and what it was written from.  The log of a       *)
(* session only grows, so what a download finds when it begins is the      *)
(* beginning of what the analysis of the row counts later.                 *)
(***************************************************************************)
EXTENDS Proctoring, FiniteSetTheorems, TLAPS

\* The tables of the exam; a completed session has the score of its sheet.
ExamInv ==
    /\ sess \in [SessionId -> SessionRow \cup {Nil}]
    /\ resp \in [SessionId -> Sheet]
    /\ \A s \in SessionId :
           sess[s] # Nil /\ Done(sess[s]) => sess[s].total = TotalScore(resp[s])

LogType ==
    /\ record \in [Reporter -> [session: SessionId, event: Report] \cup {Nil}]
    /\ events \in [SessionId -> Seq(Report)]

AnswersGiven(s) == Cardinality(Answered(resp[s]))

\* What the locals of a download still say of the tables: a row that was read
\* as completed is the row of the table, and so is the number of its answers.
ExportInv ==
    /\ export = [at |-> export.at, rows |-> export.rows,
                 answers |-> export.answers, log |-> export.log]
    /\ \A s \in DOMAIN export.rows :
        /\ s \in SessionId
        /\ Done(export.rows[s]) => sess[s] # Nil /\ sess[s] = export.rows[s]
        /\ export.at = "rows" /\ Done(export.rows[s]) =>
               export.answers[s] = AnswersGiven(s)

\* A row of the file that says COMPLETED is a completed session of the table.
FileInv ==
    /\ csv = [s \in SessionId |-> csv[s]]
    /\ \A s \in SessionId : csv[s] # Nil /\ csv[s].status = "COMPLETED" =>
        /\ sess[s] # Nil /\ Done(sess[s])
        /\ csv[s].total = sess[s].total
        /\ csv[s].answers = AnswersGiven(s)

\* The log that a download found when it began is the beginning of the log.
Begins(log, full) ==
    /\ log \in Seq(Report) /\ full \in Seq(Report)
    /\ DOMAIN log \subseteq DOMAIN full
    /\ \A k \in DOMAIN log : log[k] = full[k]

RiskInv ==
    /\ \A s \in DOMAIN export.log : s \in SessionId /\ Begins(export.log[s], events[s])
    /\ RiskNotUnderstated

Inv == ExamInv /\ LogType /\ ExportInv /\ FileInv /\ RiskInv

\* What a step leaves alone: completed sessions and their sheets.
Final ==
    \A s \in SessionId : sess[s] # Nil /\ Done(sess[s]) =>
        sess'[s] = sess[s] /\ resp'[s] = resp[s]

-----------------------------------------------------------------------------
(* The exam.                                                               *)

\* The queries mean the same in the ledger.
LEMMA ExamQueries ==
    /\ Exam!Time = Time
    /\ \A T, d, u : Exam!Count(T, d, u) = Count(T, d, u)
    /\ \A row : Exam!Active(row) <=> Active(row)
<1>1. \A T, d, u : Exam!RowsOf(T, d, u) = RowsOf(T, d, u)
  BY DEF RowsOf, Rows, Exam!RowsOf, Exam!Rows
<1>2. \A T, d, u : Exam!Count(T, d, u) = Count(T, d, u)
  BY <1>1 DEF Count, Cardinality, Exam!Count, Exam!Cardinality
<1> QED
  BY <1>2 DEF Time, Active, Exam!Time, Exam!Active

\* The row operations mean the same in the ledger.
LEMMA ExamRows ==
    /\ \A d, u, n, now : Exam!NewRow(d, u, n, now) = NewRow(d, u, n, now)
    /\ \A row, now : Exam!BegunRow(row, now) = BegunRow(row, now)
    /\ \A sheet : Exam!Data(sheet) = Data(sheet)
    /\ \A d, a : Exam!Scored(d, a) = Scored(d, a)
    /\ \A row, now, sheet :
           Exam!CompletedRow(row, now, sheet) = CompletedRow(row, now, sheet)
<1>1. \A d, u, n, now : Exam!NewRow(d, u, n, now) = NewRow(d, u, n, now)
  BY DEF NewRow, Exam!NewRow
<1>2. \A row, now : Exam!BegunRow(row, now) = BegunRow(row, now)
  BY DEF BegunRow, Exam!BegunRow
<1>3. \A sheet : Exam!Data(sheet) = Data(sheet)
  BY DEF Data, Exam!Data
<1>4. \A d, i, a : Exam!WeightedScore(d, i, a) = WeightedScore(d, i, a)
  BY DEF WeightedScore, ScoreItem, ValidMark, ScoreLimit, Exam!WeightedScore,
         Exam!ScoreItem, Exam!ValidMark, Exam!ScoreLimit
<1>5. \A d, a : Exam!Scored(d, a) = Scored(d, a)
  BY <1>4 DEF Scored, Exam!Scored
<1>6. \A sheet : Exam!TotalScore(sheet) = TotalScore(sheet)
  BY DEF TotalScore, Answered, MapThenSumSet, MapThenFoldSet,
         Exam!TotalScore, Exam!Answered, Exam!MapThenSumSet,
         Exam!MapThenFoldSet
<1>7. \A row, now : Exam!TimeSpent(row, now) = TimeSpent(row, now)
  BY DEF TimeSpent, NoTime, Exam!TimeSpent, Exam!NoTime
<1>8. \A row, now, sheet :
          Exam!CompletedRow(row, now, sheet) = CompletedRow(row, now, sheet)
  BY <1>6, <1>7 DEF CompletedRow, Exam!CompletedRow
<1> QED BY <1>1, <1>2, <1>3, <1>5, <1>8

\* The COUNT of StartSession is a natural number.
LEMMA CountType ==
    ASSUME NEW table, NEW d, NEW u PROVE Count(table, d, u) \in Nat
<1>1. IsFiniteSet(RowsOf(table, d, u))
  BY TablesAssumption, FS_Subset DEF RowsOf, Rows
<1> QED BY <1>1, FS_CardinalityType DEF Count

\* Scoring a sheet gives a sheet.
LEMMA ScoredType ==
    ASSUME NEW d \in Delivery, NEW sheet \in Sheet
    PROVE  /\ Scored(d, Data(sheet)) \in Sheet
           /\ TotalScore(Scored(d, Data(sheet))) \in Totals
<1> DEFINE a == Data(sheet)
<1>1. a \in [Item -> Answer \cup {Nil}]
  BY DEF Data, Sheet, Response
<1> HIDE DEF a
<1>2. \A i \in Item : WeightedScore(d, i, a[i]) \in Int
  BY TablesAssumption DEF WeightedScore, ScoreItem, ItemRow
<1>3. \A i \in Item : a[i] # Nil =>
        [data |-> a[i], score |-> WeightedScore(d, i, a[i])] \in Response
  BY <1>1, <1>2 DEF Response
<1>4. Scored(d, a) \in Sheet
  BY <1>3 DEF Scored, Sheet
<1>5. TotalScore(Scored(d, a)) \in Totals
  BY <1>1 DEF Totals
<1> QED BY <1>4, <1>5 DEF a

\* A session is opened.
LEMMA OpenStep ==
    ASSUME ExamInv, NEW s \in SessionId, NEW d \in Delivery, NEW u \in User,
           Exam!Open(s, d, u)
    PROVE  ExamInv' /\ Final
<1>1. PICK now \in Time :
        sess' = [sess EXCEPT ![s] = NewRow(d, u, Count(sess, d, u), now)]
  BY ExamQueries, ExamRows DEF Exam!Open
<1>2. sess[s] = Nil /\ resp' = resp
  BY DEF Exam!Open
<1> DEFINE row == NewRow(d, u, Count(sess, d, u), now)
<1>3. row \in SessionRow /\ ~Done(row)
  BY CountType DEF NewRow, SessionRow, Status, Totals, Done
<1> HIDE DEF row
<1> QED BY <1>1, <1>2, <1>3 DEF ExamInv, Final, row

\* A provisioned session is begun.
LEMMA BeginStep ==
    ASSUME ExamInv, NEW s \in SessionId, Exam!Begin(s)
    PROVE  ExamInv' /\ Final
<1>1. PICK now \in Time : sess' = [sess EXCEPT ![s] = BegunRow(sess[s], now)]
  BY ExamQueries, ExamRows DEF Exam!Begin
<1>2. sess[s] # Nil /\ sess[s].status = "NOT_STARTED" /\ resp' = resp
  BY DEF Exam!Begin
<1> DEFINE row == BegunRow(sess[s], now)
<1>3. row \in SessionRow /\ ~Done(row)
  BY <1>2 DEF ExamInv, BegunRow, SessionRow, Status, Done
<1> HIDE DEF row
<1> QED BY <1>1, <1>2, <1>3 DEF ExamInv, Final, Done, row

\* An answer is saved.
LEMMA AnswerStep ==
    ASSUME ExamInv, NEW s \in SessionId, NEW i \in Item, NEW a \in Answer,
           Exam!Answers(s, i, a)
    PROVE  ExamInv' /\ Final
<1>1. /\ sess[s] # Nil /\ Active(sess[s]) /\ sess' = sess
      /\ resp' = [resp EXCEPT ![s][i] = [data |-> a, score |-> 0]]
  BY ExamQueries DEF Exam!Answers
<1>2. [data |-> a, score |-> 0] \in Response
  BY DEF Response
<1>3. resp' \in [SessionId -> Sheet]
  BY <1>1, <1>2 DEF ExamInv, Sheet
<1>4. \A t \in SessionId : t # s => resp'[t] = resp[t]
  BY <1>1 DEF ExamInv
<1>5. ~Done(sess[s])
  BY <1>1 DEF Active, Done
<1> QED BY <1>1, <1>3, <1>4, <1>5 DEF ExamInv, Final

\* A session is submitted.
LEMMA CompleteStep ==
    ASSUME ExamInv, NEW s \in SessionId, Exam!Complete(s)
    PROVE  ExamInv' /\ Final
<1> DEFINE sheet == Scored(sess[s].delivery, Data(resp[s]))
<1>1. PICK now \in Time :
        sess' = [sess EXCEPT ![s] = CompletedRow(sess[s], now, sheet)]
  BY ExamQueries, ExamRows DEF Exam!Complete
<1>2. sess[s] # Nil /\ Active(sess[s]) /\ resp' = [resp EXCEPT ![s] = sheet]
  BY ExamQueries, ExamRows DEF Exam!Complete
<1>3. sess[s] \in SessionRow /\ sess[s].delivery \in Delivery /\ resp[s] \in Sheet
  BY <1>2 DEF ExamInv, SessionRow
<1>4. sheet \in Sheet /\ TotalScore(sheet) \in Totals
  BY <1>3, ScoredType
<1>5. TimeSpent(sess[s], now) \in Nat
  BY <1>3, TablesAssumption DEF TimeSpent, SessionRow, Time, NoTime
<1> HIDE DEF sheet
<1> DEFINE row == CompletedRow(sess[s], now, sheet)
<1>6. row \in SessionRow /\ row.total = TotalScore(sheet)
  BY <1>3, <1>4, <1>5 DEF CompletedRow, SessionRow, Status
<1> HIDE DEF row
<1>7. /\ sess' \in [SessionId -> SessionRow \cup {Nil}] /\ sess'[s] = row
      /\ \A t \in SessionId : t # s => sess'[t] = sess[t]
  BY <1>1, <1>6 DEF ExamInv, row
<1>8. /\ resp' \in [SessionId -> Sheet] /\ resp'[s] = sheet
      /\ \A t \in SessionId : t # s => resp'[t] = resp[t]
  BY <1>2, <1>4 DEF ExamInv
<1>9. ExamInv'
  <2> SUFFICES ASSUME NEW t \in SessionId, sess'[t] # Nil, Done(sess'[t])
               PROVE  sess'[t].total = TotalScore(resp'[t])
    BY <1>7, <1>8 DEF ExamInv, Done
  <2>1. CASE t = s
    BY <1>6, <1>7, <1>8, <2>1
  <2>2. CASE t # s
    BY <1>7, <1>8, <2>2 DEF ExamInv
  <2> QED BY <2>1, <2>2
<1>10. Final
  BY <1>2, <1>7, <1>8 DEF Final, Active, Done
<1> QED BY <1>9, <1>10

\* Whatever a step does, the score of a completed session is that of its
\* sheet, and neither changes any more.
LEMMA ExamStep ==
    ASSUME ExamInv, Sit \/ UNCHANGED exam PROVE ExamInv' /\ Final
<1>1. CASE Sit
  BY <1>1, OpenStep, BeginStep, AnswerStep, CompleteStep DEF Sit
<1>2. CASE UNCHANGED exam
  BY <1>2 DEF exam, ExamInv, Final
<1> QED BY <1>1, <1>2

-----------------------------------------------------------------------------
(* The analysis of a log.                                                  *)

\* The sum over one place.
LEMMA OneTerm ==
    ASSUME NEW log, NEW k, Switches(log) = {k}, log[k].seconds \in Int
    PROVE  TotalFocusLostSeconds(log) = log[k].seconds
<1> DEFINE v == log[k].seconds
           Turn(g) == [s \in SUBSET {k} |->
                         IF s = {} THEN 0
                         ELSE LET x == CHOOSE x \in s : TRUE IN log[x].seconds + g[s \ {x}]]
           f == [s \in SUBSET {k} |-> IF s = {} THEN 0 ELSE v]
<1>1. TotalFocusLostSeconds(log) = (CHOOSE g : g = Turn(g))[{k}]
  BY DEF TotalFocusLostSeconds, MapThenSumSet, MapThenFoldSet
<1>2. f = Turn(f)
  <2>1. \A s \in SUBSET {k} : s = {} \/ s = {k}
    OBVIOUS
  <2>2. (CHOOSE x \in {k} : TRUE) = k
    OBVIOUS
  <2>3. \A s \in SUBSET {k} : f[s] = Turn(f)[s]
    BY <2>1, <2>2
  <2> QED BY <2>3
<1> HIDE DEF Turn, f
<1>3. \E h : h = Turn(h)
  BY <1>2
<1>4. PICK g : g = (CHOOSE h : h = Turn(h))
  OBVIOUS
<1>5. g = Turn(g)
  BY <1>3, <1>4, Zenon
<1>6. g[{}] = 0
  BY <1>5 DEF Turn
<1>7. g[{k}] = v
  <2>1. (CHOOSE x \in {k} : TRUE) = k /\ {k} \ {k} = {} /\ {k} # {} /\ {k} \in SUBSET {k}
    OBVIOUS
  <2>2. Turn(g)[{k}] = log[k].seconds + g[{}]
    BY <2>1 DEF Turn
  <2> QED BY <1>5, <1>6, <2>2
<1> QED BY <1>1, <1>4, <1>7

\* The incidents of a log are counted: there are finitely many.
LEMMA PlacesFinite ==
    ASSUME NEW log \in Seq(Report), NEW types
    PROVE  IsFiniteSet(Places(log, types)) /\ Cardinality(Places(log, types)) \in Nat
<1>1. DOMAIN log = 1 .. Len(log) /\ Len(log) \in Nat
  OBVIOUS
<1>2. IsFiniteSet(1 .. Len(log))
  BY <1>1, FS_Interval
<1>3. Places(log, types) \in SUBSET (1 .. Len(log))
  BY <1>1 DEF Places
<1>4. IsFiniteSet(Places(log, types))
  BY <1>2, <1>3, FS_Subset
<1> QED BY <1>4, FS_CardinalityType

\* The incidents at the beginning of a log are incidents of the log.
LEMMA PlacesGrow ==
    ASSUME NEW log, NEW full, Begins(log, full), NEW types
    PROVE  Places(log, types) \subseteq Places(full, types)
  BY DEF Begins, Places

\* A log that counts as LOW shows no copy, no screenshot, at most one tab
\* switch and less than half a minute of absence from its beginning on.
LEMMA LowIsMild ==
    ASSUME NEW log, NEW full, Begins(log, full), RiskLevel(full) = "LOW"
    PROVE  /\ Places(log, {"COPY_ATTEMPT", "SCREENSHOT_ATTEMPT"}) = {}
           /\ Cardinality(Switches(log)) <= 1
           /\ \A k \in Switches(log) : log[k].seconds < 30
<1>1. ~Reaches(full, 2, 30, 1, 1)
  BY DEF RiskLevel
<1>2. log \in Seq(Report) /\ full \in Seq(Report)
  BY DEF Begins
<1>3. \A type \in {"COPY_ATTEMPT", "SCREENSHOT_ATTEMPT"} : Places(full, {type}) = {}
  <2> SUFFICES ASSUME NEW type \in {"COPY_ATTEMPT", "SCREENSHOT_ATTEMPT"}
               PROVE  Places(full, {type}) = {}
    OBVIOUS
  <2>1. IsFiniteSet(Places(full, {type})) /\ Cardinality(Places(full, {type})) \in Nat
    BY <1>2, PlacesFinite
  <2>2. ~(Cardinality(Places(full, {type})) >= 1)
    BY <1>1 DEF Reaches, Attempts
  <2>3. Cardinality(Places(full, {type})) = 0
    BY <2>1, <2>2
  <2> QED BY <2>1, <2>3, FS_EmptySet
<1>4. Places(log, {"COPY_ATTEMPT", "SCREENSHOT_ATTEMPT"}) = {}
  <2>1. Places(full, {"COPY_ATTEMPT", "SCREENSHOT_ATTEMPT"}) = {}
    BY <1>3 DEF Places
  <2> QED BY <2>1, PlacesGrow
<1>5. /\ IsFiniteSet(Switches(full)) /\ Cardinality(Switches(full)) \in Nat
      /\ IsFiniteSet(Switches(log)) /\ Cardinality(Switches(log)) \in Nat
  BY <1>2, PlacesFinite DEF Switches
<1>6. Cardinality(Switches(full)) <= 1
  BY <1>1, <1>5 DEF Reaches, TotalTabSwitches
<1>7. Switches(log) \subseteq Switches(full)
  BY PlacesGrow DEF Switches
<1>8. Cardinality(Switches(log)) <= Cardinality(Switches(full))
  BY <1>5, <1>7, FS_Subset
<1>9. ASSUME NEW k \in Switches(log) PROVE log[k].seconds < 30
  <2>1. k \in Switches(full)
    BY <1>7, <1>9
  <2>2. Cardinality(Switches(full)) # 0
    BY <1>5, <2>1, FS_EmptySet
  <2>3. \E x : Switches(full) = {x}
    <3>1. Cardinality(Switches(full)) = 1
      BY <1>5, <1>6, <2>2
    <3> QED BY <1>5, <3>1, FS_Singleton
  <2>4. Switches(full) = {k}
    BY <2>1, <2>3
  <2>5. log[k] = full[k] /\ full[k] \in Report
    BY <1>9, <1>2 DEF Begins, Switches, Places
  <2>6. full[k].seconds \in Int
    BY <2>5, ReportAssumption
  <2>7. TotalFocusLostSeconds(full) = full[k].seconds
    BY <2>4, <2>6, OneTerm
  <2>8. ~(TotalFocusLostSeconds(full) >= 30)
    BY <1>1 DEF Reaches
  <2> QED BY <2>5, <2>6, <2>7, <2>8
<1> QED BY <1>4, <1>5, <1>6, <1>8, <1>9

\* A log begins with itself, and with what it began with before an incident
\* is added.
LEMMA BeginsGrows ==
    ASSUME NEW full \in Seq(Report)
    PROVE  /\ Begins(full, full)
           /\ \A log : \A e \in Report :
                  Begins(log, full) => Begins(log, Append(full, e))
<1>1. Begins(full, full)
  BY DEF Begins
<1>2. ASSUME NEW log, NEW e \in Report, Begins(log, full)
      PROVE  Begins(log, Append(full, e))
  <2>1. /\ Append(full, e) \in Seq(Report) /\ DOMAIN full \subseteq DOMAIN Append(full, e)
        /\ \A k \in DOMAIN full : Append(full, e)[k] = full[k]
    OBVIOUS
  <2> QED BY <1>2, <2>1 DEF Begins
<1> QED BY <1>1, <1>2

-----------------------------------------------------------------------------
(* The log and the download.                                               *)

\* Steps that leave the export and its file alone keep what they say, since
\* completed sessions are final.
LEMMA DownloadKeeps ==
    ASSUME ExamInv, ExportInv, FileInv, Final, UNCHANGED download
    PROVE  ExportInv' /\ FileInv'
<1>1. export' = export /\ csv' = csv
  BY DEF download
<1>2. \A s \in SessionId : sess[s] # Nil /\ Done(sess[s]) =>
        sess'[s] = sess[s] /\ AnswersGiven(s)' = AnswersGiven(s)
  BY DEF Final, AnswersGiven
<1> QED BY <1>1, <1>2 DEF ExportInv, FileInv

\* Steps that leave the export and its file alone keep the promise of the
\* file as long as they do not shorten a log.
LEMMA RiskKeeps ==
    ASSUME RiskInv, UNCHANGED download,
           \A s \in SessionId : \A log : Begins(log, events[s]) => Begins(log, events'[s])
    PROVE  RiskInv'
<1>1. export' = export /\ csv' = csv
  BY DEF download
<1>2. RiskNotUnderstated'
  BY <1>1 DEF RiskInv, RiskNotUnderstated
<1> QED BY <1>1, <1>2 DEF RiskInv

\* The exam goes on.
LEMMA SitStep == ASSUME Inv, Sit PROVE Inv'
<1>1. ExamInv' /\ Final
  BY ExamStep DEF Inv
<1>2. UNCHANGED <<proctor, download>>
  BY DEF Sit
<1>3. LogType'
  BY <1>2 DEF Inv, LogType, proctor
<1>4. RiskInv'
  BY <1>2, RiskKeeps DEF Inv, proctor
<1> QED BY <1>1, <1>2, <1>3, <1>4, DownloadKeeps DEF Inv

\* RecordEvent.
LEMMA RecordStep ==
    ASSUME Inv, NEW w \in Reporter,
           \/ \E s \in SessionId, e \in Report : RecordCheck(w, s, e)
           \/ RecordInsert(w) \/ RecordFails(w)
    PROVE  Inv'
<1>1. UNCHANGED <<exam, download>>
  BY DEF RecordCheck, RecordInsert, RecordFails
<1>2. LogType'
  <2>1. CASE \E s \in SessionId, e \in Report : RecordCheck(w, s, e)
    BY <2>1 DEF Inv, LogType, RecordCheck
  <2>2. CASE RecordInsert(w)
    <3>1. /\ record[w].session \in SessionId /\ record[w].event \in Report
          /\ events[record[w].session] \in Seq(Report)
      BY <2>2 DEF Inv, LogType, RecordInsert
    <3>2. Append(events[record[w].session], record[w].event) \in Seq(Report)
      BY <3>1
    <3> QED BY <2>2, <3>1, <3>2 DEF Inv, LogType, RecordInsert
  <2>3. CASE RecordFails(w)
    BY <2>3 DEF Inv, LogType, RecordFails
  <2> QED BY <2>1, <2>2, <2>3
<1>3. ExamInv' /\ Final
  BY <1>1, ExamStep DEF Inv
<1>4. ASSUME NEW s \in SessionId, NEW log, Begins(log, events[s])
      PROVE  Begins(log, events'[s])
  <2>1. CASE events' = events
    BY <1>4, <2>1
  <2>2. CASE RecordInsert(w)
    <3>1. /\ record[w].session \in SessionId /\ record[w].event \in Report
          /\ events[s] \in Seq(Report)
      BY <2>2 DEF Inv, LogType, RecordInsert
    <3>2. events'[s] = events[s] \/ events'[s] = Append(events[s], record[w].event)
      BY <2>2 DEF Inv, LogType, RecordInsert
    <3> QED BY <1>4, <3>1, <3>2, BeginsGrows
  <2> QED BY <2>1, <2>2 DEF RecordCheck, RecordFails
<1>5. RiskInv'
  BY <1>1, <1>4, RiskKeeps DEF Inv
<1> QED BY <1>1, <1>2, <1>3, <1>5, DownloadKeeps DEF Inv

\* The first query of the download.
LEMMA ExportSessionsStep ==
    ASSUME Inv, NEW d \in Delivery, ExportSessions(d) PROVE Inv'
<1>1. UNCHANGED <<exam, proctor>> /\ csv' = NoFile
  BY DEF ExportSessions
<1>2. ExamInv' /\ LogType'
  BY <1>1, ExamStep DEF Inv, LogType, proctor
<1>3. DeliveryRows(d) \subseteq SessionId /\ \A s \in DeliveryRows(d) : sess[s] # Nil
  BY DEF DeliveryRows, Rows
<1>4. ExportInv'
  BY <1>1, <1>3 DEF ExportInv, ExportSessions, exam
<1>5. FileInv'
  BY <1>1 DEF FileInv, NoFile
<1>6. \A s \in SessionId : Begins(events[s], events[s])
  BY BeginsGrows DEF Inv, LogType
<1>7. RiskInv'
  BY <1>1, <1>3, <1>6 DEF RiskInv, RiskNotUnderstated, ExportSessions, NoFile, proctor
<1> QED BY <1>2, <1>4, <1>5, <1>7 DEF Inv

\* The second query of the download.
LEMMA ExportResponsesStep ==
    ASSUME Inv, ExportResponses PROVE Inv'
<1>1. UNCHANGED <<exam, proctor>> /\ csv' = csv
  BY DEF ExportResponses
<1>2. ExamInv' /\ LogType'
  BY <1>1, ExamStep DEF Inv, LogType, proctor
<1>3. /\ export'.at = "rows" /\ export'.rows = export.rows
      /\ export'.answers = [s \in DOMAIN export.rows |-> AnswersGiven(s)]
      /\ export' = [at |-> export'.at, rows |-> export'.rows,
                    answers |-> export'.answers, log |-> export'.log]
  BY DEF Inv, ExportInv, ExportResponses, AnswersGiven
<1>4. \A s \in SessionId : AnswersGiven(s)' = AnswersGiven(s)
  BY <1>1 DEF AnswersGiven, exam
<1>5. ExportInv'
  BY <1>1, <1>3, <1>4 DEF Inv, ExportInv, exam
<1>6. FileInv'
  BY <1>1, <1>4 DEF Inv, FileInv, exam
<1>7. export'.log = export.log
  BY DEF Inv, ExportInv, ExportResponses
<1>8. RiskInv'
  BY <1>1, <1>7 DEF Inv, RiskInv, RiskNotUnderstated, proctor
<1> QED BY <1>2, <1>5, <1>6, <1>8 DEF Inv

\* A row is written, with the analysis or without.
LEMMA ExportRowStep ==
    ASSUME Inv, NEW s \in SessionId, ExportRow(s) \/ ExportRowBlind(s)
    PROVE  Inv'
<1>1. UNCHANGED <<exam, proctor, export>> /\ export.at = "rows" /\ s \in DOMAIN export.rows
  BY DEF ExportRow, ExportRowBlind, ToWrite
<1>2. ExamInv' /\ LogType'
  BY <1>1, ExamStep DEF Inv, LogType, proctor
<1>3. PICK risk, switches, blind :
        csv' = [csv EXCEPT ![s] = Row(s, risk, switches, blind)]
  BY DEF ExportRow, ExportRowBlind
<1>4. \A t \in SessionId : AnswersGiven(t)' = AnswersGiven(t)
  BY <1>1 DEF AnswersGiven, exam
<1>5. ExportInv'
  BY <1>1, <1>4 DEF Inv, ExportInv, exam
<1>6. /\ csv' = [t \in SessionId |-> csv'[t]]
      /\ csv'[s] = Row(s, risk, switches, blind)
      /\ \A t \in SessionId : t # s => csv'[t] = csv[t]
  BY <1>3 DEF Inv, FileInv
<1>7. /\ csv'[s].status = export.rows[s].status /\ csv'[s].total = export.rows[s].total
      /\ csv'[s].answers = export.answers[s]
  BY <1>6 DEF Row
<1>8. csv'[s].status = "COMPLETED" =>
        /\ sess[s] # Nil /\ Done(sess[s])
        /\ csv'[s].total = sess[s].total
        /\ csv'[s].answers = AnswersGiven(s)
  BY <1>1, <1>7 DEF Inv, ExportInv, Done
<1>9. FileInv'
  BY <1>1, <1>4, <1>6, <1>8 DEF Inv, FileInv, exam
<1>10. csv'[s].blind \/ csv'[s].risk = RiskLevel(events[s])
  BY DEF Inv, FileInv, ExportRow, ExportRowBlind, Row
<1>11. RiskInv'
  <2>1. \A t \in DOMAIN export.log : t \in SessionId /\ Begins(export.log[t], events[t])
    BY DEF Inv, RiskInv
  <2>2. RiskNotUnderstated'
    <3> SUFFICES ASSUME NEW t \in DOMAIN export.log,
                        csv'[t] # Nil, ~csv'[t].blind, csv'[t].risk = "LOW"
                 PROVE  /\ Places(export.log[t], {"COPY_ATTEMPT", "SCREENSHOT_ATTEMPT"}) = {}
                        /\ Cardinality(Switches(export.log[t])) <= 1
                        /\ \A k \in Switches(export.log[t]) : export.log[t][k].seconds < 30
      BY <1>1 DEF RiskNotUnderstated
    <3>1. CASE t = s
      BY <1>10, <2>1, <3>1, LowIsMild
    <3>2. CASE t # s
      BY <1>6, <2>1, <3>2 DEF Inv, RiskInv, RiskNotUnderstated
    <3> QED BY <3>1, <3>2
  <2> QED BY <1>1, <2>1, <2>2 DEF RiskInv, proctor
<1> QED BY <1>2, <1>5, <1>9, <1>11 DEF Inv

\* The download ends or breaks off.
LEMMA ExportEndStep ==
    ASSUME Inv, ExportDone \/ ExportFails PROVE Inv'
<1>1. UNCHANGED <<exam, proctor>> /\ csv' = csv /\ export' = NoExport
  BY DEF ExportDone, ExportFails
<1>2. ExamInv' /\ LogType'
  BY <1>1, ExamStep DEF Inv, LogType, proctor
<1>3. ExportInv'
  BY <1>1 DEF ExportInv, NoExport
<1>4. FileInv'
  BY <1>1 DEF Inv, FileInv, AnswersGiven, exam
<1>5. RiskInv'
  BY <1>1 DEF RiskInv, RiskNotUnderstated, NoExport
<1> QED BY <1>2, <1>3, <1>4, <1>5 DEF Inv

\* Before the first request there is no completed session and no download.
LEMMA Initial == ASSUME Init PROVE Inv
<1>1. sess = seed /\ resp = [s \in SessionId |-> Blank]
  BY DEF Init, Exam!Init, Exam!Blank, Blank
<1>2. ExamInv
  BY <1>1, SeedAssumption DEF ExamInv, Sheet, Blank, Rows
<1>3. LogType
  BY DEF Init, LogType
<1>4. ExportInv /\ FileInv /\ RiskInv
  BY DEF Init, ExportInv, FileInv, RiskInv, RiskNotUnderstated, NoExport, NoFile
<1> QED BY <1>2, <1>3, <1>4 DEF Inv

\* Every step keeps the invariant.
LEMMA Inductive == ASSUME Inv, [Next]_vars PROVE Inv'
<1>1. CASE UNCHANGED vars
  BY <1>1, ExamStep, DownloadKeeps, RiskKeeps DEF vars, Inv, LogType, proctor
<1>2. CASE Next
  BY <1>2, SitStep, RecordStep, ExportSessionsStep, ExportResponsesStep,
     ExportRowStep, ExportEndStep DEF Next
<1> QED BY <1>1, <1>2

\* The inductive invariant holds throughout: what a download has read of a
\* completed session is what the tables say.
THEOREM Invariance == Spec => []Inv
  BY Initial, Inductive, PTL DEF Spec

\* A row of ExportDeliveryResultsCSV that says COMPLETED shows the final score
\* and all the answers, although it is put together from two queries.
THEOREM DownloadsFinal == Spec => []CompletedRowsFinal
<1>1. Inv => CompletedRowsFinal
  BY DEF Inv, ExamInv, FileInv, CompletedRowsFinal, AnswersGiven
<1> QED BY <1>1, Invariance, PTL

\* A row of ExportDeliveryResultsCSV whose analysis did not fail says LOW only
\* of a session that had neither a copy nor a screenshot attempt, at most one
\* tab switch and less than half a minute of absence when the download began.
THEOREM RisksShown == Spec => []RiskNotUnderstated
<1>1. Inv => RiskNotUnderstated
  BY DEF Inv, RiskInv
<1> QED BY <1>1, Invariance, PTL

\* Once the calls of RecordEvent that had passed the check are through, no
\* incident is added to the log of a completed session.
THEOREM LogsSettle == Spec => LogSettles
<1> DEFINE Quiet(s) == \A w \in Reporter : record[w] = Nil \/ record[w].session # s
<1>1. ASSUME Inv, Next, NEW s \in SessionId, sess[s] # Nil, Done(sess[s]), Quiet(s)
      PROVE  events'[s] = events[s] /\ Quiet(s)'
  <2>1. CASE UNCHANGED proctor
    BY <1>1, <2>1 DEF proctor
  <2>2. ASSUME NEW w \in Reporter, NEW t \in SessionId, NEW e \in Report,
               RecordCheck(w, t, e)
        PROVE  events'[s] = events[s] /\ Quiet(s)'
    <3>1. t # s
      BY <1>1, <2>2 DEF RecordCheck, Active, Done
    <3> QED BY <1>1, <2>2, <3>1 DEF RecordCheck, Inv, LogType
  <2>3. ASSUME NEW w \in Reporter, RecordInsert(w) \/ RecordFails(w)
        PROVE  events'[s] = events[s] /\ Quiet(s)'
    <3>1. record[w] # Nil /\ record[w].session # s
      BY <1>1, <2>3 DEF RecordInsert, RecordFails
    <3>2. events'[s] = events[s]
      BY <1>1, <2>3, <3>1 DEF RecordInsert, RecordFails, Inv, LogType
    <3>3. record' = [record EXCEPT ![w] = Nil]
      BY <2>3 DEF RecordInsert, RecordFails
    <3> QED BY <1>1, <3>2, <3>3 DEF Inv, LogType
  <2> QED
    BY <1>1, <2>1, <2>2, <2>3
    DEF Next, Sit, ExportSessions, ExportResponses, ExportDone, ExportFails,
        ExportRow, ExportRowBlind
<1>2. Inv /\ [Next]_vars =>
      [\A s \in SessionId :
          /\ sess[s] # Nil /\ Done(sess[s])
          /\ \A w \in Reporter : record[w] = Nil \/ record[w].session # s
          => events'[s] = events[s] /\ \A w \in Reporter :
                 record'[w] = Nil \/ record'[w].session # s]_vars
  BY <1>1
<1> QED BY <1>2, Invariance, PTL DEF Spec, LogSettles
=============================================================================
