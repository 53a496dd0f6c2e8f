------------------------------ MODULE ExamData ------------------------------
(***************************************************************************)
(* The assessment tables that session handling only reads (deliveries,     *)
(* tests, items, groups), the rows it writes (test_sessions and            *)
(* item_responses), and the functions of session_service.go and            *)
(* scoring_service.go that depend on nothing else.                         *)
(*                                                                         *)
(* Times are whole seconds; NoTime is a NULL column.  Answers are already  *)
(* classified: itemRow[i].right is the set of response texts that          *)
(* ScoreItem accepts for item i.                                           *)
(***************************************************************************)
EXTENDS Integers, FiniteSets, FiniteSetsExt

CONSTANTS
    User, Delivery, Group, Item, Answer, SessionId,
    Nil,          \* absent row, absent reference
    deliveryRow,  \* deliveries joined with tests
    itemRow,      \* items
    weight,       \* weight[d][i]: test_items.weight of item i in delivery d
    memberOf,     \* user_groups
    seed,         \* test_sessions when the process starts
    MaxTime       \* bound on the wall clock

NoTime == -1
Time == 0 .. MaxTime
ScoreLimit == 1000000

Status == {"NOT_STARTED", "IN_PROGRESS", "PAUSED", "COMPLETED"}

DeliveryRow ==
    [active: BOOLEAN, start: Time \cup {NoTime}, end: Time \cup {NoTime},
     maxAttempts: Int, timeLimit: Int, groups: SUBSET Group,
     items: SUBSET Item]

ItemRow == [right: SUBSET Answer, maxScore: Int]

ASSUME TablesAssumption ==
    /\ IsFiniteSet(SessionId)
    /\ MaxTime \in Nat
    /\ deliveryRow \in [Delivery -> DeliveryRow]
    /\ itemRow \in [Item -> ItemRow]
    /\ weight \in [Delivery -> [Item -> Int]]
    /\ memberOf \in [User -> SUBSET Group]

-----------------------------------------------------------------------------
(* Scoring.                                                                *)

\* A weight or a maximum score that SubmitSession accepts.
ValidMark(x) == 0 < x /\ x <= ScoreLimit

\* ScoreItem: all or nothing.
ScoreItem(i, data) ==
    IF ValidMark(itemRow[i].maxScore) /\ data \in itemRow[i].right
    THEN itemRow[i].maxScore ELSE 0

\* A response row and the answers of one session, Nil where there is none.
Response == [data: Answer, score: Int]
Sheet == [Item -> Response \cup {Nil}]
Blank == [i \in Item |-> Nil]

Answered(sheet) == {i \in Item : sheet[i] # Nil}

\* Every answered item still belongs to the delivery and has usable marks.
Scorable(d, sheet) ==
    \A i \in Answered(sheet) :
        /\ i \in deliveryRow[d].items
        /\ ValidMark(weight[d][i])
        /\ ValidMark(itemRow[i].maxScore)

WeightedScore(d, i, data) == ScoreItem(i, data) * weight[d][i]

Data(sheet) == [i \in Item |-> IF sheet[i] = Nil THEN Nil ELSE sheet[i].data]

\* The scoring loop of SubmitSession: the response rows it leaves behind.
Scored(d, answers) ==
    [i \in Item |->
        IF answers[i] = Nil THEN Nil
        ELSE [data |-> answers[i],
              score |-> WeightedScore(d, i, answers[i])]]

TotalScore(sheet) ==
    LET score(i) == sheet[i].score IN MapThenSumSet(score, Answered(sheet))

\* What total_score can hold: the column default or the sum of a scored sheet.
Totals ==
    {0} \cup {TotalScore(Scored(d, a)) :
                  d \in Delivery, a \in [Item -> Answer \cup {Nil}]}

-----------------------------------------------------------------------------
(* Session rows and the queries of StartSession on a session table tbl.    *)

SessionRow ==
    [delivery: Delivery, user: User, attempt: Nat \ {0}, status: Status,
     startedAt: Time \cup {NoTime}, spent: Nat, total: Totals]

Active(row) == row.status = "IN_PROGRESS"
Done(row) == row.status = "COMPLETED"

\* status IN (NOT_STARTED, IN_PROGRESS, PAUSED)
IsOpen(row) == row.status \in {"NOT_STARTED", "IN_PROGRESS", "PAUSED"}

Rows(tbl) == {s \in SessionId : tbl[s] # Nil}

RowsOf(tbl, d, u) ==
    {s \in Rows(tbl) : tbl[s].delivery = d /\ tbl[s].user = u}

OpenRows(tbl, d, u) == {s \in RowsOf(tbl, d, u) : IsOpen(tbl[s])}

Count(tbl, d, u) == Cardinality(RowsOf(tbl, d, u))

AttemptsOf(tbl, d, u) == {tbl[s].attempt : s \in RowsOf(tbl, d, u)}

AttemptLimit(d) ==
    IF deliveryRow[d].maxAttempts <= 0 THEN 1 ELSE deliveryRow[d].maxAttempts

\* Mutant: one attempt too many.
AttemptsLeftOrEqual(d, n) == n <= AttemptLimit(d)

AttemptsLeft(d, n) == n < AttemptLimit(d)

DeliveryOpen(d, now) ==
    LET row == deliveryRow[d] IN
    /\ row.active
    /\ row.start # NoTime => row.start <= now
    /\ row.end # NoTime => now <= row.end

\* A delivery with no groups is open to everyone.
Permitted(d, u) ==
    deliveryRow[d].groups # {} => deliveryRow[d].groups \cap memberOf[u] # {}

Expired(row, now) ==
    LET limit == deliveryRow[row.delivery].timeLimit IN
    limit > 0 /\ now > row.startedAt + limit

NewRow(d, u, n, now) ==
    [delivery |-> d, user |-> u, attempt |-> n + 1, status |-> "IN_PROGRESS",
     startedAt |-> now, spent |-> 0, total |-> 0]

BegunRow(row, now) ==
    [row EXCEPT !.status = "IN_PROGRESS", !.startedAt = now]

\* Mutant: no max(0, ...).
TimeSpentSigned(row, now) ==
    IF row.startedAt = NoTime THEN row.spent ELSE now - row.startedAt

\* max(0, now - started_at); the column keeps its value without a start time.
TimeSpent(row, now) ==
    IF row.startedAt = NoTime THEN row.spent
    ELSE IF now < row.startedAt THEN 0 ELSE now - row.startedAt

\* Mutant: total_score is missing from the update.
CompletedRowNoTotal(row, now, sheet) ==
    [row EXCEPT !.status = "COMPLETED", !.spent = TimeSpent(row, now)]

CompletedRow(row, now, sheet) ==
    [row EXCEPT !.status = "COMPLETED", !.total = TotalScore(sheet),
                !.spent = TimeSpent(row, now)]

-----------------------------------------------------------------------------
(* The session table at process start.  Rows in the statuses NOT_STARTED   *)
(* and PAUSED are never written by this program; whoever provisions them   *)
(* is assumed to number attempts as StartSession does and to leave at most *)
(* one open session to a user.                                             *)

OneOpen(tbl) ==
    \A d \in Delivery, u \in User :
        \A s, t \in OpenRows(tbl, d, u) : s = t

AttemptsNumbered(tbl) ==
    \A d \in Delivery, u \in User :
        /\ AttemptsOf(tbl, d, u) = 1 .. Count(tbl, d, u)
        /\ Count(tbl, d, u) <= AttemptLimit(d)

ASSUME NilAssumption ==
    /\ Nil \notin User \cup Delivery \cup Item \cup Answer \cup SessionId
    /\ Nil \notin Response
    /\ Nil \notin SessionRow

ASSUME SeedAssumption ==
    /\ seed \in [SessionId -> SessionRow \cup {Nil}]
    /\ \A s \in Rows(seed) : ~Done(seed[s]) /\ seed[s].total = 0
    /\ \A s \in Rows(seed) : Active(seed[s]) => seed[s].startedAt # NoTime
    /\ OneOpen(seed)
    /\ AttemptsNumbered(seed)
=============================================================================
