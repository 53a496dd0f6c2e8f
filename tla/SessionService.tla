--------------------------- MODULE SessionService ---------------------------
(***************************************************************************)
(* internal/service/session_service.go: StartSession, SaveResponse,        *)
(* SubmitSession and GetSession, each run by its own request goroutine     *)
(* against a database with READ COMMITTED transactions and row locks       *)
(* (SELECT ... FOR UPDATE).  A step is one statement that can wait for a   *)
(* lock, read what others may change, or commit; the writes of a           *)
(* transaction become visible at its commit step.  A refusal (an error of  *)
(* the service) rolls back and answers at once.                            *)
(*                                                                         *)
(* Faults: a statement fails and the transaction rolls back (Abort), the   *)
(* commit of a submission succeeds but its acknowledgement is lost         *)
(* (SubmitCommitLost), the process dies and restarts (Crash).              *)
(***************************************************************************)
EXTENDS ExamData

CONSTANTS
    Request,     \* goroutines serving requests
    MaxFaults    \* bound on the faults of a behaviour

ASSUME RequestAssumption == Nil \notin Request /\ MaxFaults \in Nat

VARIABLES
    sess,      \* test_sessions, committed
    resp,      \* item_responses, committed
    lockD,     \* lockD[d]: transaction holding the lock on delivery d
    lockS,     \* lockS[s]: transaction holding the lock on session s
    pc,        \* where each request is
    ctx,       \* the locals of each request
    calls,     \* calls[c][s]: how often channel c was called for session s
    clock,     \* wall clock
    faults     \* faults so far

db == <<sess, resp>>
locks == <<lockD, lockS>>
vars == <<sess, resp, lockD, lockS, pc, ctx, calls, clock, faults>>

\* Who hears of a completed session: EventBus, webhook queue, LTI grade sync.
Channel == {"publish", "dispatch", "grade"}

-----------------------------------------------------------------------------
(* Requests.                                                               *)

\* The arguments of the request and the Go variables now, session (row),
\* session.Responses (sheet) and attempts (count).
Locals ==
    [delivery: Delivery \cup {Nil}, user: User \cup {Nil},
     id: SessionId \cup {Nil}, item: Item \cup {Nil},
     data: Answer \cup {Nil}, now: Time, count: Nat,
     row: SessionRow \cup {Nil}, sheet: Sheet \cup {Nil}]

NoLocals ==
    [delivery |-> Nil, user |-> Nil, id |-> Nil, item |-> Nil, data |-> Nil,
     now |-> 0, count |-> 0, row |-> Nil, sheet |-> Nil]

StartTx == {"start.find", "start.resume", "start.count", "start.create"}
SaveTx == {"save.write"}
SubmitTx == {"submit.load", "submit.write"}
Notifying == {"submit.publish", "submit.dispatch", "submit.grade"}
Waiting == {"start.lock", "save.lock", "submit.lock"}
Reading == {"get.row", "get.responses"}
Replied == {"start.ok", "submit.ok", "get.ok"}

Label == {"idle"} \cup StartTx \cup SaveTx \cup SubmitTx \cup Notifying
             \cup Waiting \cup Reading \cup Replied

Goto(r, l, c) ==
    /\ pc' = [pc EXCEPT ![r] = l]
    /\ ctx' = [ctx EXCEPT ![r] = c]

Return(r) == Goto(r, "idle", NoLocals)

\* Rollback or commit of the transactions of r.
Unlock(lock, r) == [k \in DOMAIN lock |-> IF lock[k] = r THEN Nil ELSE lock[k]]

Release(r) == lockD' = Unlock(lockD, r) /\ lockS' = Unlock(lockS, r)

\* WHERE id = ? AND user_id = ?
Owned(s, u) == sess[s] # Nil /\ sess[s].user = u

Init ==
    /\ sess = seed
    /\ resp = [s \in SessionId |-> Blank]
    /\ lockD = [d \in Delivery |-> Nil]
    /\ lockS = [s \in SessionId |-> Nil]
    /\ pc = [r \in Request |-> "idle"]
    /\ ctx = [r \in Request |-> NoLocals]
    /\ calls = [c \in Channel |-> [s \in SessionId |-> 0]]
    /\ clock = 0
    /\ faults = 0

Receive(r, l, c) ==
    /\ pc[r] = "idle"
    /\ Goto(r, l, c)
    /\ UNCHANGED <<db, locks, calls, clock, faults>>

-----------------------------------------------------------------------------
(* StartSession.                                                           *)

ReceiveStart(r, d, u) ==
    Receive(r, "start.lock", [NoLocals EXCEPT !.delivery = d, !.user = u])

\* Mutant: the delivery is read without FOR UPDATE.
DeliveryUnlocked(d) == TRUE

DeliveryFree(d) == lockD[d] = Nil

SessionFree(s) == lockS[s] = Nil

Admitted(d, u) == DeliveryOpen(d, clock) /\ Permitted(d, u)

\* The delivery row is locked before the clock is read.
StartLock(r) ==
    LET d == ctx[r].delivery IN
    /\ pc[r] = "start.lock"
    /\ DeliveryFree(d)
    /\ Admitted(d, ctx[r].user)
    /\ lockD' = [lockD EXCEPT ![d] = r]
    /\ Goto(r, "start.find", [ctx[r] EXCEPT !.now = clock])
    /\ UNCHANGED <<db, lockS, calls, clock, faults>>

StartRefused(r) ==
    LET d == ctx[r].delivery IN
    /\ pc[r] = "start.lock"
    /\ DeliveryFree(d)
    /\ ~Admitted(d, ctx[r].user)
    /\ Return(r)
    /\ UNCHANGED <<db, locks, calls, clock, faults>>

\* Mutant: a session in progress is begun again.
StartFindOpenRestarts(r) ==
    LET open == OpenRows(sess, ctx[r].delivery, ctx[r].user) IN
    /\ pc[r] = "start.find"
    /\ \E s \in open :
        Goto(r, "start.resume", [ctx[r] EXCEPT !.id = s, !.row = sess[s]])
    /\ UNCHANGED <<db, locks, calls, clock, faults>>

\* The newest open session, read without a lock on it.
StartFindOpen(r) ==
    LET open == OpenRows(sess, ctx[r].delivery, ctx[r].user) IN
    /\ pc[r] = "start.find"
    /\ \E s \in open :
        /\ \A t \in open : sess[t].attempt <= sess[s].attempt
        /\ LET c == [ctx[r] EXCEPT !.id = s, !.row = sess[s]] IN
           IF sess[s].status = "NOT_STARTED"
           THEN Goto(r, "start.resume", c) /\ UNCHANGED locks
           ELSE Goto(r, "start.ok", c) /\ Release(r)
    /\ UNCHANGED <<db, calls, clock, faults>>

StartFindNone(r) ==
    /\ pc[r] = "start.find"
    /\ OpenRows(sess, ctx[r].delivery, ctx[r].user) = {}
    /\ Goto(r, "start.count", ctx[r])
    /\ UNCHANGED <<db, locks, calls, clock, faults>>

\* Mutant: the begun session is answered and not saved.
StartResumeUnsaved(r) ==
    LET row == BegunRow(ctx[r].row, ctx[r].now) IN
    /\ pc[r] = "start.resume"
    /\ SessionFree(ctx[r].id)
    /\ Goto(r, "start.ok", [ctx[r] EXCEPT !.row = row])
    /\ Release(r)
    /\ UNCHANGED <<db, calls, clock, faults>>

\* tx.Save writes every column of the row as it was read.
StartResume(r) ==
    LET row == BegunRow(ctx[r].row, ctx[r].now) IN
    /\ pc[r] = "start.resume"
    /\ SessionFree(ctx[r].id)
    /\ sess' = [sess EXCEPT ![ctx[r].id] = row]
    /\ Goto(r, "start.ok", [ctx[r] EXCEPT !.row = row])
    /\ Release(r)
    /\ UNCHANGED <<resp, calls, clock, faults>>

StartCount(r) ==
    LET n == Count(sess, ctx[r].delivery, ctx[r].user) IN
    /\ pc[r] = "start.count"
    /\ IF AttemptsLeft(ctx[r].delivery, n)
       THEN /\ Goto(r, "start.create", [ctx[r] EXCEPT !.count = n])
            /\ UNCHANGED locks
       ELSE Return(r) /\ Release(r)
    /\ UNCHANGED <<db, calls, clock, faults>>

\* The insert fails on the unique index (delivery_id, user_id, attempt) when
\* the number is taken; uuid.New never repeats an id.
StartCreate(r) ==
    LET c == ctx[r]
        row == NewRow(c.delivery, c.user, c.count, c.now)
    IN
    /\ pc[r] = "start.create"
    /\ \E s \in SessionId :
        /\ sess[s] = Nil
        /\ IF row.attempt \in AttemptsOf(sess, c.delivery, c.user)
           THEN Return(r) /\ UNCHANGED sess
           ELSE /\ sess' = [sess EXCEPT ![s] = row]
                /\ Goto(r, "start.ok", [c EXCEPT !.id = s, !.row = row])
    /\ Release(r)
    /\ UNCHANGED <<resp, calls, clock, faults>>

-----------------------------------------------------------------------------
(* SaveResponse.                                                           *)

ReceiveSave(r, u, s, i, a) ==
    Receive(r, "save.lock",
            [NoLocals EXCEPT !.user = u, !.id = s, !.item = i, !.data = a])

\* Mutant: the time limit is not checked.
InTimeAlways(row, now) == row.startedAt # NoTime

InTime(row, now) == row.startedAt # NoTime /\ ~Expired(row, now)

\* Mutant: the status of the session is not checked.
AcceptedAnyStatus(c) ==
    /\ Owned(c.id, c.user)
    /\ InTime(sess[c.id], clock)
    /\ c.item \in deliveryRow[sess[c.id].delivery].items

Accepted(c) ==
    /\ Owned(c.id, c.user)
    /\ Active(sess[c.id])
    /\ InTime(sess[c.id], clock)
    /\ c.item \in deliveryRow[sess[c.id].delivery].items

\* The time limit is checked after the row lock is granted.
SaveLock(r) ==
    /\ pc[r] = "save.lock"
    /\ SessionFree(ctx[r].id)
    /\ Accepted(ctx[r])
    /\ lockS' = [lockS EXCEPT ![ctx[r].id] = r]
    /\ Goto(r, "save.write", ctx[r])
    /\ UNCHANGED <<db, lockD, calls, clock, faults>>

SaveRefused(r) ==
    /\ pc[r] = "save.lock"
    /\ SessionFree(ctx[r].id)
    /\ ~Accepted(ctx[r])
    /\ Return(r)
    /\ UNCHANGED <<db, locks, calls, clock, faults>>

\* Upsert on (session_id, item_id), and the row is read back.  saved.ID is
\* still the new uuid and GORM makes it a condition of the query, while the
\* upsert keeps the id of a row that exists: for an item that was answered
\* before nothing is found, and the transaction is rolled back.
SaveWrite(r) ==
    LET c == ctx[r] IN
    /\ pc[r] = "save.write"
    /\ resp' = IF resp[c.id][c.item] = Nil
               THEN [resp EXCEPT ![c.id][c.item] = [data |-> c.data, score |-> 0]]
               ELSE resp
    /\ Return(r)
    /\ Release(r)
    /\ UNCHANGED <<sess, calls, clock, faults>>

-----------------------------------------------------------------------------
(* SubmitSession.                                                          *)

ReceiveSubmit(r, u, s) ==
    Receive(r, "submit.lock", [NoLocals EXCEPT !.user = u, !.id = s])

SubmitLock(r) ==
    LET s == ctx[r].id IN
    /\ pc[r] = "submit.lock"
    /\ SessionFree(s)
    /\ IF Owned(s, ctx[r].user)
       THEN /\ lockS' = [lockS EXCEPT ![s] = r]
            /\ Goto(r, "submit.load", [ctx[r] EXCEPT !.row = sess[s]])
       ELSE Return(r) /\ UNCHANGED lockS
    /\ UNCHANGED <<db, lockD, calls, clock, faults>>

\* Mutant: the transaction stays open when the session cannot be completed.
SubmitLoadLeaks(r) ==
    LET c == [ctx[r] EXCEPT !.sheet = resp[ctx[r].id]] IN
    /\ pc[r] = "submit.load"
    /\ \/ Done(c.row) /\ Goto(r, "submit.ok", c) /\ Release(r)
       \/ /\ Active(c.row) /\ Scorable(c.row.delivery, c.sheet)
          /\ Goto(r, "submit.write", c) /\ UNCHANGED locks
       \/ /\ ~Done(c.row)
          /\ ~(Active(c.row) /\ Scorable(c.row.delivery, c.sheet))
          /\ Return(r) /\ UNCHANGED locks
    /\ UNCHANGED <<db, calls, clock, faults>>

\* Preload("Responses"), then the checks on status and marks.  A completed
\* session is the answer as it stands and nobody is notified again.
SubmitLoad(r) ==
    LET c == [ctx[r] EXCEPT !.sheet = resp[ctx[r].id]] IN
    /\ pc[r] = "submit.load"
    /\ \/ Done(c.row) /\ Goto(r, "submit.ok", c) /\ Release(r)
       \/ /\ Active(c.row) /\ Scorable(c.row.delivery, c.sheet)
          /\ Goto(r, "submit.write", c) /\ UNCHANGED locks
       \/ /\ ~Done(c.row)
          /\ ~(Active(c.row) /\ Scorable(c.row.delivery, c.sheet))
          /\ Return(r) /\ Release(r)
    /\ UNCHANGED <<db, calls, clock, faults>>

\* Mutant: the scores of the responses are not written.
SubmitCommitRowOnly(r) ==
    LET c == ctx[r]
        sheet == Scored(c.row.delivery, Data(c.sheet))
    IN
    /\ sess' = [sess EXCEPT ![c.id] = CompletedRow(@, clock, sheet)]
    /\ UNCHANGED resp

\* The scores and the commit: the new sheet and row.
SubmitCommit(r) ==
    LET c == ctx[r]
        sheet == Scored(c.row.delivery, Data(c.sheet))
    IN
    /\ resp' = [resp EXCEPT ![c.id] = sheet]
    /\ sess' = [sess EXCEPT ![c.id] = CompletedRow(@, clock, sheet)]

\* Mutant: the row is not read back after the update.
SubmitWriteStale(r) ==
    LET s == ctx[r].id IN
    /\ pc[r] = "submit.write"
    /\ IF Active(sess[s])
       THEN /\ SubmitCommit(r)
            /\ Goto(r, "submit.publish", ctx[r])
       ELSE Return(r) /\ UNCHANGED db
    /\ Release(r)
    /\ UNCHANGED <<calls, clock, faults>>

\* UPDATE ... WHERE status = 'IN_PROGRESS' must change the row; the row and
\* the responses are read back before the commit.
SubmitWrite(r) ==
    LET s == ctx[r].id IN
    /\ pc[r] = "submit.write"
    /\ IF Active(sess[s])
       THEN /\ SubmitCommit(r)
            /\ Goto(r, "submit.publish",
                    [ctx[r] EXCEPT !.row = sess'[s], !.sheet = resp'[s]])
       ELSE Return(r) /\ UNCHANGED db
    /\ Release(r)
    /\ UNCHANGED <<calls, clock, faults>>

Call(r, channel, next) ==
    /\ calls' = [calls EXCEPT ![channel][ctx[r].id] = @ + 1]
    /\ Goto(r, next, ctx[r])
    /\ UNCHANGED <<db, locks, clock, faults>>

SubmitPublish(r) ==
    pc[r] = "submit.publish" /\ Call(r, "publish", "submit.dispatch")

\* Mutant: the grade is not sent when a webhook was.
SubmitDispatchOnly(r) ==
    pc[r] = "submit.dispatch" /\ Call(r, "dispatch", "submit.ok")

SubmitDispatch(r) ==
    pc[r] = "submit.dispatch" /\ Call(r, "dispatch", "submit.grade")

SubmitGrade(r) ==
    pc[r] = "submit.grade" /\ Call(r, "grade", "submit.ok")

-----------------------------------------------------------------------------
(* GetSession: two statements and no transaction around them.              *)

ReceiveGet(r, u, s) ==
    Receive(r, "get.row", [NoLocals EXCEPT !.user = u, !.id = s])

GetRow(r) ==
    LET s == ctx[r].id IN
    /\ pc[r] = "get.row"
    /\ IF Owned(s, ctx[r].user)
       THEN Goto(r, "get.responses", [ctx[r] EXCEPT !.row = sess[s]])
       ELSE Return(r)
    /\ UNCHANGED <<db, locks, calls, clock, faults>>

GetResponses(r) ==
    /\ pc[r] = "get.responses"
    /\ Goto(r, "get.ok", [ctx[r] EXCEPT !.sheet = resp[ctx[r].id]])
    /\ UNCHANGED <<db, locks, calls, clock, faults>>

-----------------------------------------------------------------------------
(* Replies, time and faults.                                               *)

Reply(r) ==
    /\ pc[r] \in Replied
    /\ Return(r)
    /\ UNCHANGED <<db, locks, calls, clock, faults>>

Tick ==
    /\ clock < MaxTime
    /\ clock' = clock + 1
    /\ UNCHANGED <<db, locks, pc, ctx, calls, faults>>

\* A statement fails: the handler answers 500 and the transaction is undone.
Abort(r) ==
    /\ faults < MaxFaults
    /\ pc[r] \in StartTx \cup SaveTx \cup SubmitTx \cup Waiting \cup Reading
    /\ Return(r)
    /\ Release(r)
    /\ faults' = faults + 1
    /\ UNCHANGED <<db, calls, clock>>

\* The commit reached the database, its acknowledgement did not come back.
SubmitCommitLost(r) ==
    /\ faults < MaxFaults
    /\ pc[r] = "submit.write"
    /\ Active(sess[ctx[r].id])
    /\ SubmitCommit(r)
    /\ Return(r)
    /\ Release(r)
    /\ faults' = faults + 1
    /\ UNCHANGED <<calls, clock>>

\* Requests in flight are lost; the database rolls their transactions back.
Crash ==
    /\ faults < MaxFaults
    /\ \E r \in Request : pc[r] # "idle"
    /\ pc' = [r \in Request |-> "idle"]
    /\ ctx' = [r \in Request |-> NoLocals]
    /\ lockD' = [d \in Delivery |-> Nil]
    /\ lockS' = [s \in SessionId |-> Nil]
    /\ faults' = faults + 1
    /\ UNCHANGED <<db, calls, clock>>

-----------------------------------------------------------------------------
(* The specification.                                                      *)

Arrive(r) ==
    \E u \in User :
        \/ \E d \in Delivery : ReceiveStart(r, d, u)
        \/ \E s \in SessionId :
            \/ \E i \in Item, a \in Answer : ReceiveSave(r, u, s, i, a)
            \/ ReceiveSubmit(r, u, s)
            \/ ReceiveGet(r, u, s)

\* What the service and the database do for a request on their own.
Step(r) ==
    \/ StartLock(r) \/ StartRefused(r) \/ StartFindOpen(r) \/ StartFindNone(r)
    \/ StartResume(r) \/ StartCount(r) \/ StartCreate(r)
    \/ SaveLock(r) \/ SaveRefused(r) \/ SaveWrite(r)
    \/ SubmitLock(r) \/ SubmitLoad(r) \/ SubmitWrite(r)
    \/ SubmitPublish(r) \/ SubmitDispatch(r) \/ SubmitGrade(r)
    \/ GetRow(r) \/ GetResponses(r)
    \/ Reply(r)

Fault == Crash \/ \E r \in Request : Abort(r) \/ SubmitCommitLost(r)

Next == Tick \/ Fault \/ \E r \in Request : Arrive(r) \/ Step(r)

Spec == Init /\ [][Next]_vars

\* Goroutines are scheduled, and a lock that is released again and again is
\* granted to each waiter in the end (PostgreSQL queues them).
FairSpec == Spec /\ \A r \in Request : SF_vars(Step(r))

-----------------------------------------------------------------------------
(* Properties.                                                             *)

\* Every variable has its type.
TypeOK ==
    /\ sess \in [SessionId -> SessionRow \cup {Nil}]
    /\ resp \in [SessionId -> Sheet]
    /\ lockD \in [Delivery -> Request \cup {Nil}]
    /\ lockS \in [SessionId -> Request \cup {Nil}]
    /\ pc \in [Request -> Label]
    /\ ctx \in [Request -> Locals]
    /\ calls \in [Channel -> [SessionId -> Nat]]
    /\ clock \in Time
    /\ faults \in 0 .. MaxFaults

\* However many StartSession calls race for a candidate, at most one session
\* of a delivery is open to that candidate.
OneOpenSession == OneOpen(sess)

\* The attempts of a candidate are numbered 1, 2, ... without gap or repeat
\* and never exceed max_attempts, whatever starts and submissions race.
AttemptsBounded == AttemptsNumbered(sess)

\* Every response of a completed session carries its score, the row their sum.
Graded(table, sheets) ==
    \A s \in Rows(table) : Done(table[s]) =>
        /\ sheets[s] = Scored(table[s].delivery, Data(sheets[s]))
        /\ table[s].total = TotalScore(sheets[s])

\* The grade on record is the grade of the answers on record, whatever saves
\* race the submission: SubmitSession scores exactly the responses that the
\* completed session keeps.
GradeMatchesAnswers == Graded(sess, resp)

\* No channel is called twice for a session, nor for one that is not complete.
HeardOnce(table, called) ==
    \A c \in Channel, s \in SessionId :
        /\ called[c][s] <= 1
        /\ called[c][s] = 1 => table[s] # Nil /\ Done(table[s])

\* EventBus, webhook queue and LTI hear of a session at most once, and only
\* when its completion is committed, however often and by however many
\* concurrent SubmitSession calls it is submitted.
NotifiedAtMostOnce == HeardOnce(sess, calls)

\* A request past the commit holds the final row and sheet.
ShowsFinalGrade(table, sheets, l, c) ==
    l \in Notifying \cup {"submit.ok"} =>
        /\ c.row = table[c.id] /\ c.row # Nil /\ Done(c.row)
        /\ c.sheet = sheets[c.id]

\* What SubmitSession hands to the listeners and to the candidate is the
\* committed final row and sheet, for the first submission and for repeats.
SubmitAnswersFinalGrade ==
    \A r \in Request : ShowsFinalGrade(sess, resp, pc[r], ctx[r])

\* GetSession reads the row and the responses in two statements; a reply
\* that says COMPLETED nevertheless shows the scores that add up to its total,
\* and a time spent that is not negative though the clock of the process that
\* started the session may have been ahead.
ReadIsConsistent ==
    \A r \in Request : pc[r] = "get.ok" /\ Done(ctx[r].row) =>
        /\ ctx[r].row.total = TotalScore(ctx[r].sheet)
        /\ ctx[r].row.spent >= 0

\* The row of a start reply is the caller's and is or was the stored one.
ShowsOwnSession(table, l, c) ==
    l = "start.ok" =>
        /\ c.id \in RowsOf(table, c.delivery, c.user)
        /\ c.row.status \in {"IN_PROGRESS", "PAUSED"}
        /\ \/ table[c.id] = c.row
           \/ /\ Active(c.row) /\ Done(table[c.id])
              /\ table[c.id].attempt = c.row.attempt

\* StartSession hands out the caller's own session of that delivery, and the
\* row it shows is the stored one unless that session was completed since.
StartAnswersOwnSession ==
    \A r \in Request : ShowsOwnSession(sess, pc[r], ctx[r])

\* Once completed, neither the row nor the responses of a session change.
CompletedIsFinal ==
    [][\A s \in SessionId : sess[s] # Nil /\ Done(sess[s]) =>
           sess'[s] = sess[s] /\ resp'[s] = resp[s]]_vars

Saving(s) == \E r \in Request : pc[r] = "save.write" /\ ctx[r].id = s

Overdue(s) == sess[s] # Nil /\ Active(sess[s]) /\ Expired(sess[s], clock)

\* Past the time limit the answers are sealed: once no save that was admitted
\* in time is still writing, no save is admitted and no answer changes.
SealedAfterDeadline ==
    [][\A s \in SessionId : Overdue(s) /\ ~Saving(s) =>
           Data(resp'[s]) = Data(resp[s]) /\ ~Saving(s)']_vars

\* The upsert of SaveResponse keeps the latest answer of an item: a save that
\* was admitted and met no fault leaves its answer on record.
LatestAnswerKept ==
    [][\A r \in Request :
          pc[r] = "save.write" /\ pc'[r] = "idle" /\ faults' = faults =>
              Data(resp'[ctx[r].id])[ctx[r].item] = ctx[r].data]_vars

(* Why it works: the facts that hold between the statements of a request.  *)

\* A lock is held exactly by the transaction that is between locking the row
\* and its commit or rollback.
LockInv ==
    /\ \A d \in Delivery : lockD[d] # Nil =>
           pc[lockD[d]] \in StartTx /\ ctx[lockD[d]].delivery = d
    /\ \A s \in SessionId : lockS[s] # Nil =>
           pc[lockS[s]] \in SaveTx \cup SubmitTx /\ ctx[lockS[s]].id = s
    /\ \A r \in Request : pc[r] \in StartTx => lockD[ctx[r].delivery] = r
    /\ \A r \in Request :
           pc[r] \in SaveTx \cup SubmitTx => lockS[ctx[r].id] = r

\* The arguments of a request at label l survive until its reply.
ArgsKept(l, c) ==
    /\ l \in {"start.lock", "start.ok"} \cup StartTx =>
           c.delivery \in Delivery /\ c.user \in User
    /\ l \in {"save.lock"} \cup SaveTx => c.item \in Item /\ c.data \in Answer
    /\ l \in {"start.resume", "start.ok", "save.lock", "submit.lock",
              "submit.ok", "get.ok"}
             \cup SaveTx \cup SubmitTx \cup Notifying \cup Reading =>
           c.id \in SessionId

\* What StartSession has read is still true while it holds the delivery.
StartKnows(table, l, c) ==
    /\ l \in {"start.count", "start.create"} =>
           OpenRows(table, c.delivery, c.user) = {}
    /\ l = "start.create" =>
           /\ c.count = Count(table, c.delivery, c.user)
           /\ AttemptsLeft(c.delivery, c.count)
    /\ l = "start.resume" =>
           /\ c.id \in RowsOf(table, c.delivery, c.user)
           /\ table[c.id] = c.row
           /\ c.row.status = "NOT_STARTED"

\* What SaveResponse and SubmitSession have read is still true while they
\* hold the session.
SessionKnows(table, sheets, l, c) ==
    /\ l = "save.write" =>
           /\ table[c.id] # Nil /\ Active(table[c.id])
           /\ c.item \in deliveryRow[table[c.id].delivery].items
    /\ l \in SubmitTx => table[c.id] # Nil /\ table[c.id] = c.row
    /\ l = "submit.write" => Active(c.row) /\ c.sheet = sheets[c.id]

\* A row read as COMPLETED is final, and so are the responses read after it.
ReadKnows(table, sheets, l, c) ==
    l \in {"get.responses", "get.ok"} =>
        /\ c.row # Nil
        /\ Done(c.row) => /\ c.row = table[c.id]
                          /\ l = "get.ok" => c.sheet = sheets[c.id]

\* The channels that a request at label l has yet to call.
CallsDue(l) ==
    IF l = "submit.publish" THEN Channel
    ELSE IF l = "submit.dispatch" THEN {"dispatch", "grade"}
    ELSE IF l = "submit.grade" THEN {"grade"} ELSE {}

NotifierKnows(called, l, c) == \A ch \in CallsDue(l) : called[ch][c.id] = 0

Knows(table, sheets, called, l, c) ==
    /\ ArgsKept(l, c)
    /\ StartKnows(table, l, c)
    /\ SessionKnows(table, sheets, l, c)
    /\ ReadKnows(table, sheets, l, c)
    /\ NotifierKnows(called, l, c)
    /\ ShowsFinalGrade(table, sheets, l, c)
    /\ ShowsOwnSession(table, l, c)

RequestInv ==
    \A r \in Request : Knows(sess, resp, calls, pc[r], ctx[r])

\* Only the request that completed a session notifies of it.
OneNotifier ==
    \A q, r \in Request :
        /\ pc[q] \in Notifying /\ pc[r] \in Notifying
        /\ ctx[q].id = ctx[r].id
        => q = r

\* The inductive invariant.
Inv ==
    /\ TypeOK /\ LockInv /\ RequestInv /\ OneNotifier
    /\ OneOpenSession /\ AttemptsBounded
    /\ GradeMatchesAnswers /\ NotifiedAtMostOnce

-----------------------------------------------------------------------------
(* Refinement and liveness.                                                *)

\* Session handling implements the ledger.
Ledger == INSTANCE ExamLedger WITH sess <- sess, resp <- resp, calls <- calls
LedgerSpec == Ledger!Spec

\* Every request is answered: no lock is leaked or waited for in a circle.
RequestsFinish ==
    \A r \in Request : pc[r] # "idle" ~> pc[r] = "idle"

\* Without faults, a completed session is announced on every channel.
CompletionAnnounced ==
    \A c \in Channel, s \in SessionId :
        (sess[s] # Nil /\ Done(sess[s])) ~> calls[c][s] = 1
=============================================================================
