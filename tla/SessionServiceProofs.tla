------------------------ MODULE SessionServiceProofs ------------------------
(***************************************************************************)
(* Inv of SessionService is inductive; the safety properties follow from   *)
(* it, and so does that the service implements ExamLedger.                 *)
(*                                                                         *)
(* The argument: a request between two statements of a transaction relies  *)
(* on what it has read (Knows).  Others can disturb that only by writing a *)
(* row it holds the lock of, or by moving a session forward, which every   *)
(* unlocked read tolerates (OthersKnow).  So each action is proved once,   *)
(* for the request that takes it, and the others follow from one lemma.    *)
(***************************************************************************)
EXTENDS SessionService, FiniteSetTheorems, TLAPS

InTx == StartTx \cup SaveTx \cup SubmitTx

\* A candidate has finitely many sessions, so the COUNT of StartSession is a
\* number.
LEMMA RowsFinite ==
    ASSUME NEW table, NEW d, NEW u
    PROVE  IsFiniteSet(RowsOf(table, d, u))
  BY TablesAssumption, FS_Subset DEF RowsOf, Rows

\* The COUNT of StartSession is a natural number.
LEMMA CountType ==
    ASSUME NEW table, NEW d, NEW u
    PROVE  Count(table, d, u) \in Nat
  BY RowsFinite, FS_CardinalityType DEF Count

\* Updating a row without changing its delivery or user leaves every query for
\* the rows, the count and the attempt numbers of a candidate as it was.
LEMMA SameRows ==
    ASSUME NEW T, NEW U, NEW s \in SessionId,
           \A t \in SessionId : t # s => U[t] = T[t],
           T[s] # Nil, U[s] # Nil,
           U[s].delivery = T[s].delivery, U[s].user = T[s].user,
           U[s].attempt = T[s].attempt
    PROVE  /\ \A d, u : RowsOf(U, d, u) = RowsOf(T, d, u)
           /\ \A d, u : Count(U, d, u) = Count(T, d, u)
           /\ \A d, u : AttemptsOf(U, d, u) = AttemptsOf(T, d, u)
<1>1. \A d, u : RowsOf(U, d, u) = RowsOf(T, d, u)
  BY DEF RowsOf, Rows
<1>2. \A t \in SessionId : U[t].attempt = T[t].attempt
  OBVIOUS
<1>3. \A d, u : AttemptsOf(U, d, u) = AttemptsOf(T, d, u)
  BY <1>1, <1>2 DEF AttemptsOf, RowsOf, Rows
<1> QED BY <1>1, <1>3 DEF Count

\* An insert adds the row to the result of its own candidate's query and to no
\* other.
LEMMA NewRows ==
    ASSUME NEW T, NEW U, NEW s \in SessionId,
           \A t \in SessionId : t # s => U[t] = T[t],
           T[s] = Nil, U[s] # Nil, NEW d, NEW u
    PROVE  /\ s \notin RowsOf(T, d, u)
           /\ RowsOf(U, d, u) =
                IF U[s].delivery = d /\ U[s].user = u
                THEN RowsOf(T, d, u) \cup {s} ELSE RowsOf(T, d, u)
           /\ Count(U, d, u) =
                IF U[s].delivery = d /\ U[s].user = u
                THEN Count(T, d, u) + 1 ELSE Count(T, d, u)
<1>1. s \notin RowsOf(T, d, u)
  BY DEF RowsOf, Rows
<1>2. CASE U[s].delivery = d /\ U[s].user = u
  <2>1. RowsOf(U, d, u) = RowsOf(T, d, u) \cup {s}
    BY <1>2 DEF RowsOf, Rows
  <2>2. Count(U, d, u) = Count(T, d, u) + 1
    BY <1>1, <2>1, RowsFinite, FS_AddElement DEF Count
  <2> QED BY <1>1, <1>2, <2>1, <2>2
<1>3. CASE ~(U[s].delivery = d /\ U[s].user = u)
  <2>1. RowsOf(U, d, u) = RowsOf(T, d, u)
    BY <1>3 DEF RowsOf, Rows
  <2> QED BY <1>1, <1>3, <2>1 DEF Count
<1> QED BY <1>2, <1>3

\* How one session may move: it is created, begun, or completed.
Moves(T, U, s) ==
    /\ \A t \in SessionId : t # s => U[t] = T[t]
    /\ U[s] # Nil
    /\ \/ T[s] = Nil
       \/ /\ T[s] # Nil
          /\ U[s].delivery = T[s].delivery /\ U[s].user = T[s].user
          /\ U[s].attempt = T[s].attempt
          /\ \/ U[s] = T[s] /\ ~Done(T[s])
             \/ T[s].status = "NOT_STARTED" /\ Active(U[s])
             \/ Active(T[s]) /\ Done(U[s])

\* What a request has read stays true when another request, under the lock of
\* a session, moves that session's row forward.
LEMMA OthersKnow ==
    ASSUME NEW T, NEW U, NEW A, NEW B, NEW K, NEW s \in SessionId,
           NEW l, NEW c,
           Moves(T, U, s),
           \A t \in SessionId : t # s => B[t] = A[t],
           Knows(T, A, K, l, c),
           l \in SaveTx \cup SubmitTx => c.id # s,
           l \in StartTx =>
               \/ U[s].delivery # c.delivery
               \/ T[s] # Nil /\ Active(T[s])
    PROVE  Knows(U, B, K, l, c)
<1>1. ArgsKept(l, c) /\ NotifierKnows(K, l, c)
  BY DEF Knows
<1>2. StartKnows(U, l, c)
  <2>1. \A t \in SessionId : T[t] # Nil => U[t] # Nil
    BY DEF Moves
  <2>2. l \in StartTx => RowsOf(U, c.delivery, c.user) = RowsOf(T, c.delivery, c.user)
    BY DEF Moves, RowsOf, Rows
  <2>3. l \in StartTx => OpenRows(U, c.delivery, c.user) \subseteq OpenRows(T, c.delivery, c.user)
    BY <2>2 DEF Moves, OpenRows, IsOpen, Active, Done, RowsOf, Rows
  <2>4. l = "start.resume" => c.id \in SessionId
    BY <1>1 DEF ArgsKept
  <2>5. l = "start.resume" => U[c.id] = T[c.id]
    BY <2>4 DEF Knows, StartKnows, StartTx, Moves, Active, RowsOf, Rows
  <2> QED
    BY <2>2, <2>3, <2>5 DEF Knows, StartKnows, StartTx, Count
<1>3. SessionKnows(U, B, l, c)
  BY <1>1 DEF Knows, ArgsKept, SessionKnows, Moves, SaveTx, SubmitTx
<1>4. ReadKnows(U, B, l, c)
  BY <1>1 DEF Knows, ArgsKept, ReadKnows, Moves, Reading, Done, Active
<1>5. ShowsFinalGrade(U, B, l, c)
  BY <1>1 DEF Knows, ArgsKept, ShowsFinalGrade, Moves, Done, Active
<1>6. ShowsOwnSession(U, l, c)
  BY <1>1 DEF Knows, ArgsKept, ShowsOwnSession, Moves, Done, Active, RowsOf, Rows
<1> QED BY <1>1, <1>2, <1>3, <1>4, <1>5, <1>6 DEF Knows

\* A step of one request leaves the label and the locals of the others alone.
LEMMA GotoEffect ==
    ASSUME TypeOK, NEW r \in Request, NEW l, NEW c, Goto(r, l, c)
    PROVE  /\ pc'[r] = l /\ ctx'[r] = c
           /\ \A q \in Request : q # r => pc'[q] = pc[q] /\ ctx'[q] = ctx[q]
  BY DEF TypeOK, Goto

\* A step to a label with well-typed locals keeps pc and ctx well typed.
LEMMA GotoType ==
    ASSUME TypeOK, NEW r \in Request, NEW l \in Label, NEW c \in Locals,
           Goto(r, l, c)
    PROVE  pc' \in [Request -> Label] /\ ctx' \in [Request -> Locals]
  BY DEF TypeOK, Goto

\* The locals of an idle request are well typed.
LEMMA NoLocalsType == NoLocals \in Locals
  BY TablesAssumption DEF NoLocals, Locals, Time

\* Commit and rollback keep the lock tables well typed.
LEMMA UnlockType ==
    ASSUME TypeOK, NEW r \in Request, Release(r)
    PROVE  /\ lockD' \in [Delivery -> Request \cup {Nil}]
           /\ lockS' \in [SessionId -> Request \cup {Nil}]
           /\ \A d \in Delivery : lockD'[d] = IF lockD[d] = r THEN Nil ELSE lockD[d]
           /\ \A s \in SessionId : lockS'[s] = IF lockS[s] = r THEN Nil ELSE lockS[s]
  BY DEF TypeOK, Release, Unlock

\* Leaving a transaction with its locks released keeps the lock discipline.
LEMMA LockRelease ==
    ASSUME TypeOK, LockInv, RequestInv, NEW r \in Request, NEW l \in Label \ InTx,
           NEW c, Goto(r, l, c), Release(r)
    PROVE  LockInv'
<1>1. \A q \in Request : q # r => pc'[q] = pc[q] /\ ctx'[q] = ctx[q]
  BY GotoEffect
<1>2. pc'[r] = l
  BY GotoEffect
<1>3. \A q \in Request : ArgsKept(pc[q], ctx[q])
  BY DEF RequestInv, Knows
<1>4. \A d \in Delivery : lockD'[d] # Nil =>
          pc'[lockD'[d]] \in StartTx /\ ctx'[lockD'[d]].delivery = d
  BY <1>1, UnlockType DEF LockInv, TypeOK
<1>5. \A s \in SessionId : lockS'[s] # Nil =>
          pc'[lockS'[s]] \in SaveTx \cup SubmitTx /\ ctx'[lockS'[s]].id = s
  BY <1>1, UnlockType DEF LockInv, TypeOK
<1>6. \A q \in Request : pc'[q] \in StartTx => lockD'[ctx'[q].delivery] = q
  <2> SUFFICES ASSUME NEW q \in Request, pc'[q] \in StartTx
               PROVE  lockD'[ctx'[q].delivery] = q
    OBVIOUS
  <2>1. q # r /\ pc[q] \in StartTx /\ ctx'[q] = ctx[q]
    BY <1>1, <1>2 DEF InTx
  <2>2. ctx[q].delivery \in Delivery
    BY <1>3, <2>1 DEF ArgsKept
  <2> QED BY <2>1, <2>2, UnlockType DEF LockInv
<1>7. \A q \in Request :
          pc'[q] \in SaveTx \cup SubmitTx => lockS'[ctx'[q].id] = q
  <2> SUFFICES ASSUME NEW q \in Request, pc'[q] \in SaveTx \cup SubmitTx
               PROVE  lockS'[ctx'[q].id] = q
    OBVIOUS
  <2>1. q # r /\ pc[q] \in SaveTx \cup SubmitTx /\ ctx'[q] = ctx[q]
    BY <1>1, <1>2 DEF InTx
  <2>2. ctx[q].id \in SessionId
    BY <1>3, <2>1 DEF ArgsKept
  <2> QED BY <2>1, <2>2, UnlockType DEF LockInv
<1> QED BY <1>4, <1>5, <1>6, <1>7 DEF LockInv

\* A step inside a transaction, or outside of any, that touches no lock keeps
\* the lock discipline.
LEMMA LockKeep ==
    ASSUME TypeOK, LockInv, NEW r \in Request, NEW l \in Label,
           NEW c, Goto(r, l, c), UNCHANGED <<lockD, lockS>>,
           pc[r] \in StartTx <=> l \in StartTx,
           pc[r] \in SaveTx \cup SubmitTx <=> l \in SaveTx \cup SubmitTx,
           l \in StartTx => c.delivery = ctx[r].delivery,
           l \in SaveTx \cup SubmitTx => c.id = ctx[r].id
    PROVE  LockInv'
<1>1. \A q \in Request : q # r => pc'[q] = pc[q] /\ ctx'[q] = ctx[q]
  BY GotoEffect
<1>2. pc'[r] = l /\ ctx'[r] = c
  BY GotoEffect
<1>3. \A d \in Delivery : lockD[d] # Nil =>
          pc'[lockD[d]] \in StartTx /\ ctx'[lockD[d]].delivery = d
  BY <1>1, <1>2 DEF LockInv, TypeOK
<1>4. \A s \in SessionId : lockS[s] # Nil =>
          pc'[lockS[s]] \in SaveTx \cup SubmitTx /\ ctx'[lockS[s]].id = s
  BY <1>1, <1>2 DEF LockInv, TypeOK
<1>5. \A q \in Request : pc'[q] \in StartTx => lockD[ctx'[q].delivery] = q
  BY <1>1, <1>2 DEF LockInv
<1>6. \A q \in Request :
          pc'[q] \in SaveTx \cup SubmitTx => lockS[ctx'[q].id] = q
  BY <1>1, <1>2 DEF LockInv
<1> QED BY <1>3, <1>4, <1>5, <1>6 DEF LockInv

\* Granting the delivery lock to StartSession keeps the lock discipline.
LEMMA LockDelivery ==
    ASSUME TypeOK, LockInv, RequestInv, NEW r \in Request, NEW l \in StartTx,
           NEW c, NEW d \in Delivery, Goto(r, l, c), pc[r] \notin InTx,
           c.delivery = d, lockD[d] = Nil,
           lockD' = [lockD EXCEPT ![d] = r], lockS' = lockS
    PROVE  LockInv' /\ lockD' \in [Delivery -> Request \cup {Nil}]
<1>1. \A q \in Request : q # r => pc'[q] = pc[q] /\ ctx'[q] = ctx[q]
  BY GotoEffect
<1>2. pc'[r] = l /\ ctx'[r] = c
  BY GotoEffect
<1>3. l \notin SaveTx \cup SubmitTx
  BY DEF StartTx, SaveTx, SubmitTx
<1>4. lockD' \in [Delivery -> Request \cup {Nil}]
  BY DEF TypeOK
<1>5. \A e \in Delivery : lockD'[e] # Nil =>
          pc'[lockD'[e]] \in StartTx /\ ctx'[lockD'[e]].delivery = e
  BY <1>1, <1>2 DEF LockInv, TypeOK, InTx
<1>6. \A s \in SessionId : lockS[s] # Nil =>
          pc'[lockS[s]] \in SaveTx \cup SubmitTx /\ ctx'[lockS[s]].id = s
  BY <1>1 DEF LockInv, TypeOK, InTx
<1>7. \A q \in Request : pc'[q] \in StartTx => lockD'[ctx'[q].delivery] = q
  BY <1>1, <1>2, RequestAssumption DEF LockInv, TypeOK
<1>8. \A q \in Request :
          pc'[q] \in SaveTx \cup SubmitTx => lockS[ctx'[q].id] = q
  BY <1>1, <1>2, <1>3 DEF LockInv
<1> QED BY <1>4, <1>5, <1>6, <1>7, <1>8 DEF LockInv

\* Granting a session lock to SaveResponse or SubmitSession keeps the lock
\* discipline.
LEMMA LockSession ==
    ASSUME TypeOK, LockInv, RequestInv, NEW r \in Request,
           NEW l \in SaveTx \cup SubmitTx,
           NEW c, NEW s \in SessionId, Goto(r, l, c), pc[r] \notin InTx,
           c.id = s, lockS[s] = Nil,
           lockS' = [lockS EXCEPT ![s] = r], lockD' = lockD
    PROVE  LockInv' /\ lockS' \in [SessionId -> Request \cup {Nil}]
<1>1. \A q \in Request : q # r => pc'[q] = pc[q] /\ ctx'[q] = ctx[q]
  BY GotoEffect
<1>2. pc'[r] = l /\ ctx'[r] = c
  BY GotoEffect
<1>3. l \notin StartTx
  BY DEF StartTx, SaveTx, SubmitTx
<1>4. lockS' \in [SessionId -> Request \cup {Nil}]
  BY DEF TypeOK
<1>5. \A d \in Delivery : lockD[d] # Nil =>
          pc'[lockD[d]] \in StartTx /\ ctx'[lockD[d]].delivery = d
  BY <1>1 DEF LockInv, TypeOK, InTx
<1>6. \A t \in SessionId : lockS'[t] # Nil =>
          pc'[lockS'[t]] \in SaveTx \cup SubmitTx /\ ctx'[lockS'[t]].id = t
  BY <1>1, <1>2 DEF LockInv, TypeOK, InTx
<1>7. \A q \in Request : pc'[q] \in StartTx => lockD[ctx'[q].delivery] = q
  BY <1>1, <1>2, <1>3 DEF LockInv
<1>8. \A q \in Request :
          pc'[q] \in SaveTx \cup SubmitTx => lockS'[ctx'[q].id] = q
  BY <1>1, <1>2, RequestAssumption DEF LockInv, TypeOK
<1> QED BY <1>4, <1>5, <1>6, <1>7, <1>8 DEF LockInv

\* A step that reads and writes nothing in the database preserves the
\* invariant when the request itself knows what its new label requires.
LEMMA QuietStep ==
    ASSUME Inv, NEW r \in Request, NEW l \in Label \ Notifying, NEW c \in Locals,
           Goto(r, l, c), UNCHANGED <<sess, resp, calls>>,
           Knows(sess, resp, calls, l, c), LockInv',
           lockD' \in [Delivery -> Request \cup {Nil}],
           lockS' \in [SessionId -> Request \cup {Nil}],
           clock' \in Time, faults' \in 0 .. MaxFaults
    PROVE  Inv'
<1> USE DEF Inv
<1>1. \A q \in Request : q # r => pc'[q] = pc[q] /\ ctx'[q] = ctx[q]
  BY GotoEffect
<1>2. pc'[r] = l /\ ctx'[r] = c
  BY GotoEffect
<1>3. TypeOK'
  BY GotoType DEF TypeOK
<1>4. RequestInv'
  BY <1>1, <1>2 DEF RequestInv
<1>5. OneNotifier'
  BY <1>1, <1>2 DEF OneNotifier
<1>6. OneOpenSession' /\ AttemptsBounded'
  BY DEF OneOpenSession, AttemptsBounded
<1>7. GradeMatchesAnswers' /\ NotifiedAtMostOnce'
  BY DEF GradeMatchesAnswers, NotifiedAtMostOnce
<1> QED BY <1>3, <1>4, <1>5, <1>6, <1>7

-----------------------------------------------------------------------------

\* A request that knows nothing yet has nothing to get wrong.
LEMMA IdleKnows == Knows(sess, resp, calls, "idle", NoLocals)
  BY DEF Knows, ArgsKept, StartKnows, SessionKnows, ReadKnows, NotifierKnows,
         CallsDue, ShowsFinalGrade, ShowsOwnSession, StartTx, SaveTx, SubmitTx,
         Notifying, Reading

\* Answering a request, with its transaction closed, preserves the invariant.
LEMMA ReturnStep ==
    ASSUME Inv, NEW r \in Request, Return(r), UNCHANGED <<sess, resp, calls>>,
           \/ Release(r)
           \/ pc[r] \notin InTx /\ UNCHANGED <<lockD, lockS>>,
           clock' \in Time, faults' \in 0 .. MaxFaults
    PROVE  Inv'
<1> USE DEF Inv
<1>1. Goto(r, "idle", NoLocals)
  BY DEF Return
<1>2. "idle" \in Label \ InTx /\ "idle" \notin Notifying
  BY DEF Label, InTx, StartTx, SaveTx, SubmitTx, Notifying
<1>3. LockInv' /\ lockD' \in [Delivery -> Request \cup {Nil}]
               /\ lockS' \in [SessionId -> Request \cup {Nil}]
  <2>1. CASE Release(r)
    BY <1>1, <1>2, <2>1, LockRelease, UnlockType
  <2>2. CASE pc[r] \notin InTx /\ UNCHANGED <<lockD, lockS>>
    BY <1>1, <1>2, <2>2, LockKeep DEF InTx, TypeOK
  <2> QED BY <2>1, <2>2
<1> QED BY <1>1, <1>2, <1>3, NoLocalsType, IdleKnows, QuietStep

\* A new request preserves the invariant.
LEMMA ReceiveStep ==
    ASSUME Inv, NEW r \in Request, NEW l \in Waiting \cup {"get.row"},
           NEW c \in Locals, ArgsKept(l, c), Receive(r, l, c)
    PROVE  Inv'
<1> USE DEF Inv
<1>1. l \in Label \ Notifying /\ l \notin InTx /\ pc[r] \notin InTx
  BY DEF Label, Waiting, Reading, Notifying, InTx, StartTx, SaveTx, SubmitTx,
         Receive
<1>2. Knows(sess, resp, calls, l, c)
  BY DEF Knows, StartKnows, SessionKnows, ReadKnows, NotifierKnows, CallsDue,
         ShowsFinalGrade, ShowsOwnSession, SubmitTx, Notifying, Waiting
<1>3. Goto(r, l, c) /\ UNCHANGED <<sess, resp, calls, lockD, lockS, clock, faults>>
  BY DEF Receive, db, locks
<1>4. LockInv'
  BY <1>1, <1>3, LockKeep DEF InTx
<1> QED BY <1>1, <1>2, <1>3, <1>4, QuietStep DEF TypeOK

\* Each of the four kinds of request may arrive.
LEMMA ArriveStep ==
    ASSUME Inv, NEW r \in Request, Arrive(r) PROVE Inv'
<1>1. ASSUME NEW u \in User, NEW d \in Delivery, ReceiveStart(r, d, u)
      PROVE  Inv'
  <2> DEFINE c == [NoLocals EXCEPT !.delivery = d, !.user = u]
  <2>1. c \in Locals /\ c.delivery = d /\ c.user = u
    BY NoLocalsType DEF Locals
  <2>2. ArgsKept("start.lock", c)
    BY <2>1 DEF ArgsKept, StartTx, SaveTx, SubmitTx, Notifying, Reading
  <2> QED BY <1>1, <2>1, <2>2, ReceiveStep DEF ReceiveStart, Waiting
<1>2. ASSUME NEW u \in User, NEW s \in SessionId, NEW i \in Item,
             NEW a \in Answer, ReceiveSave(r, u, s, i, a)
      PROVE  Inv'
  <2> DEFINE c == [NoLocals EXCEPT !.user = u, !.id = s, !.item = i, !.data = a]
  <2>1. c \in Locals /\ c.user = u /\ c.id = s /\ c.item = i /\ c.data = a
    BY NoLocalsType DEF Locals
  <2>2. ArgsKept("save.lock", c)
    BY <2>1 DEF ArgsKept, StartTx, SaveTx, SubmitTx, Notifying, Reading
  <2> QED BY <1>2, <2>1, <2>2, ReceiveStep DEF ReceiveSave, Waiting
<1>3. ASSUME NEW u \in User, NEW s \in SessionId,
             ReceiveSubmit(r, u, s) \/ ReceiveGet(r, u, s)
      PROVE  Inv'
  <2> DEFINE c == [NoLocals EXCEPT !.user = u, !.id = s]
  <2>1. c \in Locals /\ c.user = u /\ c.id = s
    BY NoLocalsType DEF Locals
  <2>2. ArgsKept("submit.lock", c) /\ ArgsKept("get.row", c)
    BY <2>1 DEF ArgsKept, StartTx, SaveTx, SubmitTx, Notifying, Reading
  <2> QED BY <1>3, <2>1, <2>2, ReceiveStep DEF ReceiveSubmit, ReceiveGet, Waiting
<1> QED BY <1>1, <1>2, <1>3 DEF Arrive

\* StartSession: the delivery lock is granted and the checks pass.
LEMMA StartLockStep ==
    ASSUME Inv, NEW r \in Request, StartLock(r) PROVE Inv'
<1> USE DEF Inv
<1> DEFINE d == ctx[r].delivery
           c == [ctx[r] EXCEPT !.now = clock]
<1>1. pc[r] = "start.lock" /\ ArgsKept("start.lock", ctx[r])
  BY DEF StartLock, RequestInv, Knows
<1>2. d \in Delivery /\ ctx[r].user \in User
  BY <1>1 DEF ArgsKept
<1>3. c \in Locals /\ c.delivery = d /\ c.user = ctx[r].user
  BY DEF TypeOK, Locals
<1>4. Goto(r, "start.find", c) /\ UNCHANGED <<sess, resp, calls, lockS, clock, faults>>
  BY DEF StartLock, db
<1> HIDE DEF c
<1>5. Knows(sess, resp, calls, "start.find", c)
  BY <1>2, <1>3
  DEF Knows, ArgsKept, StartKnows, SessionKnows, ReadKnows, NotifierKnows,
      CallsDue, ShowsFinalGrade, ShowsOwnSession, StartTx, SaveTx, SubmitTx,
      Notifying, Reading
<1>6. LockInv' /\ lockD' \in [Delivery -> Request \cup {Nil}]
  BY <1>1, <1>2, <1>3, <1>4, LockDelivery
  DEF StartLock, DeliveryFree, InTx, StartTx, SaveTx, SubmitTx
<1> QED
  BY <1>3, <1>4, <1>5, <1>6, QuietStep DEF TypeOK, Label, StartTx, Notifying

\* StartSession: an open session is found.
LEMMA StartFindOpenStep ==
    ASSUME Inv, NEW r \in Request, StartFindOpen(r) PROVE Inv'
<1> USE DEF Inv
<1>1. pc[r] = "start.find" /\ Knows(sess, resp, calls, "start.find", ctx[r])
  BY DEF StartFindOpen, RequestInv
<1>2. ctx[r].delivery \in Delivery /\ ctx[r].user \in User
  BY <1>1 DEF Knows, ArgsKept, StartTx
<1>3. PICK s \in OpenRows(sess, ctx[r].delivery, ctx[r].user) :
        LET c == [ctx[r] EXCEPT !.id = s, !.row = sess[s]] IN
        IF sess[s].status = "NOT_STARTED"
        THEN Goto(r, "start.resume", c) /\ UNCHANGED locks
        ELSE Goto(r, "start.ok", c) /\ Release(r)
  BY DEF StartFindOpen
<1> DEFINE c == [ctx[r] EXCEPT !.id = s, !.row = sess[s]]
<1>4. /\ s \in SessionId /\ s \in RowsOf(sess, ctx[r].delivery, ctx[r].user)
      /\ sess[s] \in SessionRow /\ IsOpen(sess[s])
  BY DEF OpenRows, RowsOf, Rows, TypeOK
<1>5. /\ c \in Locals /\ c.delivery = ctx[r].delivery /\ c.user = ctx[r].user
      /\ c.id = s /\ c.row = sess[s]
  BY <1>4 DEF TypeOK, Locals
<1>6. UNCHANGED <<sess, resp, calls, clock, faults>>
  BY DEF StartFindOpen, db
<1>7. IF sess[s].status = "NOT_STARTED"
      THEN Goto(r, "start.resume", c) /\ UNCHANGED <<lockD, lockS>>
      ELSE Goto(r, "start.ok", c) /\ Release(r)
  BY <1>3 DEF locks
<1> HIDE DEF c
<1>8. CASE sess[s].status = "NOT_STARTED"
  <2>1. Knows(sess, resp, calls, "start.resume", c)
    BY <1>2, <1>4, <1>5, <1>8
    DEF Knows, ArgsKept, StartKnows, SessionKnows, ReadKnows, NotifierKnows,
        CallsDue, ShowsFinalGrade, ShowsOwnSession, StartTx, SaveTx, SubmitTx,
        Notifying, Reading
  <2>2. LockInv'
    BY <1>1, <1>5, <1>7, <1>8, LockKeep DEF Label, StartTx, SaveTx, SubmitTx
  <2> QED
    BY <1>5, <1>6, <1>7, <1>8, <2>1, <2>2, QuietStep
    DEF TypeOK, Label, StartTx, Notifying
<1>9. CASE sess[s].status # "NOT_STARTED"
  <2>1. Knows(sess, resp, calls, "start.ok", c)
    BY <1>2, <1>4, <1>5, <1>9
    DEF IsOpen, Knows, ArgsKept, StartKnows, SessionKnows, ReadKnows, NotifierKnows,
        CallsDue, ShowsFinalGrade, ShowsOwnSession, StartTx, SaveTx, SubmitTx,
        Notifying, Reading
  <2>2. "start.ok" \in Label \ InTx /\ "start.ok" \notin Notifying
    BY DEF Label, InTx, StartTx, SaveTx, SubmitTx, Notifying, Replied
  <2>3. LockInv'
    BY <1>7, <1>9, <2>2, LockRelease
  <2> QED
    BY <1>5, <1>6, <1>7, <1>9, <2>1, <2>2, <2>3, UnlockType, QuietStep DEF TypeOK
<1> QED BY <1>8, <1>9

\* StartSession: no open session is found.
LEMMA StartFindNoneStep ==
    ASSUME Inv, NEW r \in Request, StartFindNone(r) PROVE Inv'
<1> USE DEF Inv
<1>1. pc[r] = "start.find" /\ Knows(sess, resp, calls, "start.find", ctx[r])
  BY DEF StartFindNone, RequestInv
<1>2. Goto(r, "start.count", ctx[r])
      /\ UNCHANGED <<sess, resp, calls, lockD, lockS, clock, faults>>
  BY DEF StartFindNone, db, locks
<1>3. Knows(sess, resp, calls, "start.count", ctx[r])
  BY <1>1
  DEF StartFindNone, Knows, ArgsKept, StartKnows, SessionKnows, ReadKnows,
      NotifierKnows, CallsDue, ShowsFinalGrade, ShowsOwnSession, StartTx,
      SaveTx, SubmitTx, Notifying, Reading
<1>4. LockInv'
  BY <1>1, <1>2, LockKeep DEF Label, StartTx, SaveTx, SubmitTx
<1> QED
  BY <1>2, <1>3, <1>4, QuietStep DEF TypeOK, Label, StartTx, Notifying

\* StartSession: the attempts are counted.
LEMMA StartCountStep ==
    ASSUME Inv, NEW r \in Request, StartCount(r) PROVE Inv'
<1> USE DEF Inv
<1> DEFINE n == Count(sess, ctx[r].delivery, ctx[r].user)
           c == [ctx[r] EXCEPT !.count = n]
<1>1. pc[r] = "start.count" /\ Knows(sess, resp, calls, "start.count", ctx[r])
  BY DEF StartCount, RequestInv
<1>2. UNCHANGED <<sess, resp, calls, clock, faults>>
  BY DEF StartCount, db
<1>3. CASE AttemptsLeft(ctx[r].delivery, n)
  <2>1. n \in Nat
    BY CountType DEF TypeOK
  <2>2. Goto(r, "start.create", c) /\ UNCHANGED <<lockD, lockS>>
    BY <1>3 DEF StartCount, locks
  <2>3. /\ c \in Locals /\ c.delivery = ctx[r].delivery
        /\ c.user = ctx[r].user /\ c.count = n
    BY <2>1 DEF TypeOK, Locals
  <2> HIDE DEF c
  <2>4. Knows(sess, resp, calls, "start.create", c)
    BY <1>1, <1>3, <2>3
    DEF Knows, ArgsKept, StartKnows, SessionKnows, ReadKnows, NotifierKnows,
        CallsDue, ShowsFinalGrade, ShowsOwnSession, StartTx, SaveTx, SubmitTx,
        Notifying, Reading
  <2>5. LockInv'
    BY <1>1, <2>2, <2>3, LockKeep DEF Label, StartTx, SaveTx, SubmitTx
  <2> QED
    BY <1>2, <2>2, <2>3, <2>4, <2>5, QuietStep
    DEF TypeOK, Label, StartTx, Notifying
<1>4. CASE ~AttemptsLeft(ctx[r].delivery, n)
  BY <1>2, <1>4, ReturnStep DEF StartCount, TypeOK
<1> QED BY <1>3, <1>4

\* SaveResponse: the session lock is granted and the checks pass.
LEMMA SaveLockStep ==
    ASSUME Inv, NEW r \in Request, SaveLock(r) PROVE Inv'
<1> USE DEF Inv
<1>1. pc[r] = "save.lock" /\ Knows(sess, resp, calls, "save.lock", ctx[r])
  BY DEF SaveLock, RequestInv
<1>2. ctx[r].id \in SessionId
  BY <1>1 DEF Knows, ArgsKept
<1>3. Goto(r, "save.write", ctx[r])
      /\ UNCHANGED <<sess, resp, calls, lockD, clock, faults>>
  BY DEF SaveLock, db
<1>4. Knows(sess, resp, calls, "save.write", ctx[r])
  BY <1>1
  DEF SaveLock, Accepted, Owned, Knows, ArgsKept, StartKnows, SessionKnows, ReadKnows, NotifierKnows,
        CallsDue, ShowsFinalGrade, ShowsOwnSession, StartTx, SaveTx, SubmitTx,
        Notifying, Reading
<1>5. LockInv' /\ lockS' \in [SessionId -> Request \cup {Nil}]
  BY <1>1, <1>2, <1>3, LockSession
  DEF SaveLock, SessionFree, InTx, StartTx, SaveTx, SubmitTx
<1> QED
  BY <1>3, <1>4, <1>5, QuietStep DEF TypeOK, Label, SaveTx, Notifying

\* SubmitSession: the session lock is granted.
LEMMA SubmitLockStep ==
    ASSUME Inv, NEW r \in Request, SubmitLock(r) PROVE Inv'
<1> USE DEF Inv
<1> DEFINE s == ctx[r].id
           c == [ctx[r] EXCEPT !.row = sess[s]]
<1>1. pc[r] = "submit.lock" /\ Knows(sess, resp, calls, "submit.lock", ctx[r])
  BY DEF SubmitLock, RequestInv
<1>2. s \in SessionId
  BY <1>1 DEF Knows, ArgsKept
<1>3. UNCHANGED <<sess, resp, calls, lockD, clock, faults>>
  BY DEF SubmitLock, db
<1>4. CASE Owned(s, ctx[r].user)
  <2>1. Goto(r, "submit.load", c) /\ lockS' = [lockS EXCEPT ![s] = r]
    BY <1>4 DEF SubmitLock
  <2>2. sess[s] \in SessionRow
    BY <1>2, <1>4 DEF TypeOK, Owned
  <2>3. c \in Locals /\ c.id = s /\ c.row = sess[s]
    BY <2>2 DEF TypeOK, Locals
  <2> HIDE DEF c
  <2>4. Knows(sess, resp, calls, "submit.load", c)
    BY <1>2, <1>4, <2>3
    DEF Owned, Knows, ArgsKept, StartKnows, SessionKnows, ReadKnows, NotifierKnows,
        CallsDue, ShowsFinalGrade, ShowsOwnSession, StartTx, SaveTx, SubmitTx,
        Notifying, Reading
  <2>5. LockInv' /\ lockS' \in [SessionId -> Request \cup {Nil}]
    BY <1>1, <1>2, <1>3, <2>1, <2>3, LockSession
    DEF SubmitLock, SessionFree, InTx, StartTx, SaveTx, SubmitTx
  <2> QED
    BY <1>3, <2>1, <2>3, <2>4, <2>5, QuietStep
    DEF TypeOK, Label, SubmitTx, Notifying
<1>5. CASE ~Owned(s, ctx[r].user)
  BY <1>1, <1>3, <1>5, ReturnStep
  DEF SubmitLock, TypeOK, InTx, StartTx, SaveTx, SubmitTx
<1> QED BY <1>4, <1>5

\* SubmitSession: the responses are loaded and checked.
LEMMA SubmitLoadStep ==
    ASSUME Inv, NEW r \in Request, SubmitLoad(r) PROVE Inv'
<1> USE DEF Inv
<1> DEFINE s == ctx[r].id
           c == [ctx[r] EXCEPT !.sheet = resp[s]]
<1>1. pc[r] = "submit.load" /\ Knows(sess, resp, calls, "submit.load", ctx[r])
  BY DEF SubmitLoad, RequestInv
<1>2. s \in SessionId /\ sess[s] # Nil /\ sess[s] = ctx[r].row
  BY <1>1 DEF Knows, ArgsKept, SessionKnows, SubmitTx
<1>3. UNCHANGED <<sess, resp, calls, clock, faults>>
  BY DEF SubmitLoad, db
<1>4. resp[s] \in Sheet
  BY <1>2 DEF TypeOK
<1>5. c \in Locals /\ c.id = s /\ c.row = sess[s] /\ c.sheet = resp[s]
  BY <1>2, <1>4 DEF TypeOK, Locals
<1>6. \/ Done(c.row) /\ Goto(r, "submit.ok", c) /\ Release(r)
      \/ Active(c.row) /\ Goto(r, "submit.write", c) /\ UNCHANGED <<lockD, lockS>>
      \/ Return(r) /\ Release(r)
  BY DEF SubmitLoad, locks
<1> HIDE DEF c
<1>7. CASE Done(c.row) /\ Goto(r, "submit.ok", c) /\ Release(r)
  <2>1. Knows(sess, resp, calls, "submit.ok", c)
    BY <1>2, <1>5, <1>7
    DEF Knows, ArgsKept, StartKnows, SessionKnows, ReadKnows, NotifierKnows,
        CallsDue, ShowsFinalGrade, ShowsOwnSession, StartTx, SaveTx, SubmitTx,
        Notifying, Reading
  <2>2. "submit.ok" \in Label \ InTx /\ "submit.ok" \notin Notifying
    BY DEF Label, InTx, StartTx, SaveTx, SubmitTx, Notifying, Replied
  <2>3. LockInv'
    BY <1>7, <2>2, LockRelease
  <2> QED
    BY <1>3, <1>5, <1>7, <2>1, <2>2, <2>3, UnlockType, QuietStep DEF TypeOK
<1>8. CASE Active(c.row) /\ Goto(r, "submit.write", c) /\ UNCHANGED <<lockD, lockS>>
  <2>1. Knows(sess, resp, calls, "submit.write", c)
    BY <1>2, <1>5, <1>8
    DEF Knows, ArgsKept, StartKnows, SessionKnows, ReadKnows, NotifierKnows,
        CallsDue, ShowsFinalGrade, ShowsOwnSession, StartTx, SaveTx, SubmitTx,
        Notifying, Reading
  <2>2. LockInv'
    BY <1>1, <1>5, <1>8, LockKeep DEF Label, StartTx, SaveTx, SubmitTx
  <2> QED
    BY <1>3, <1>5, <1>8, <2>1, <2>2, QuietStep
    DEF TypeOK, Label, SubmitTx, Notifying
<1>9. CASE Return(r) /\ Release(r)
  BY <1>3, <1>9, ReturnStep DEF TypeOK
<1> QED BY <1>6, <1>7, <1>8, <1>9

\* GetSession: the row is read.
LEMMA GetRowStep ==
    ASSUME Inv, NEW r \in Request, GetRow(r) PROVE Inv'
<1> USE DEF Inv
<1> DEFINE s == ctx[r].id
           c == [ctx[r] EXCEPT !.row = sess[s]]
<1>1. pc[r] = "get.row" /\ Knows(sess, resp, calls, "get.row", ctx[r])
  BY DEF GetRow, RequestInv
<1>2. s \in SessionId
  BY <1>1 DEF Knows, ArgsKept, Reading
<1>3. UNCHANGED <<sess, resp, calls, lockD, lockS, clock, faults>>
  BY DEF GetRow, db, locks
<1>4. CASE Owned(s, ctx[r].user)
  <2>1. Goto(r, "get.responses", c)
    BY <1>4 DEF GetRow
  <2>2. sess[s] \in SessionRow
    BY <1>2, <1>4 DEF TypeOK, Owned
  <2>3. c \in Locals /\ c.id = s /\ c.row = sess[s]
    BY <2>2 DEF TypeOK, Locals
  <2> HIDE DEF c
  <2>4. Knows(sess, resp, calls, "get.responses", c)
    BY <1>2, <1>4, <2>3
    DEF Owned, Knows, ArgsKept, StartKnows, SessionKnows, ReadKnows, NotifierKnows,
        CallsDue, ShowsFinalGrade, ShowsOwnSession, StartTx, SaveTx, SubmitTx,
        Notifying, Reading
  <2>5. LockInv'
    BY <1>1, <1>3, <2>1, <2>3, LockKeep
    DEF Label, StartTx, SaveTx, SubmitTx, Reading
  <2> QED
    BY <1>3, <2>1, <2>3, <2>4, <2>5, QuietStep
    DEF TypeOK, Label, Reading, Notifying
<1>5. CASE ~Owned(s, ctx[r].user)
  BY <1>1, <1>3, <1>5, ReturnStep
  DEF GetRow, TypeOK, InTx, StartTx, SaveTx, SubmitTx
<1> QED BY <1>4, <1>5

\* GetSession: the responses are read after the row.
LEMMA GetResponsesStep ==
    ASSUME Inv, NEW r \in Request, GetResponses(r) PROVE Inv'
<1> USE DEF Inv
<1> DEFINE s == ctx[r].id
           c == [ctx[r] EXCEPT !.sheet = resp[s]]
<1>1. pc[r] = "get.responses"
      /\ Knows(sess, resp, calls, "get.responses", ctx[r])
  BY DEF GetResponses, RequestInv
<1>2. s \in SessionId /\ resp[s] \in Sheet
  BY <1>1 DEF Knows, ArgsKept, Reading, TypeOK
<1>3. Goto(r, "get.ok", c)
      /\ UNCHANGED <<sess, resp, calls, lockD, lockS, clock, faults>>
  BY DEF GetResponses, db, locks
<1>4. c \in Locals /\ c.id = s /\ c.row = ctx[r].row /\ c.sheet = resp[s]
  BY <1>2 DEF TypeOK, Locals
<1> HIDE DEF c
<1>5. Knows(sess, resp, calls, "get.ok", c)
  BY <1>1, <1>2, <1>4
  DEF Knows, ArgsKept, StartKnows, SessionKnows, ReadKnows, NotifierKnows,
        CallsDue, ShowsFinalGrade, ShowsOwnSession, StartTx, SaveTx, SubmitTx,
        Notifying, Reading
<1>6. LockInv'
  BY <1>1, <1>3, LockKeep DEF Label, StartTx, SaveTx, SubmitTx, Replied
<1> QED
  BY <1>3, <1>4, <1>5, <1>6, QuietStep DEF TypeOK, Label, Replied, Notifying

\* Refusals, replies and failed statements change nothing in the database.
LEMMA RefusalStep ==
    ASSUME Inv, NEW r \in Request,
           StartRefused(r) \/ SaveRefused(r) \/ Reply(r) \/ Abort(r)
    PROVE  Inv'
<1> USE DEF Inv
<1>1. CASE StartRefused(r) \/ SaveRefused(r) \/ Reply(r)
  <2>1. /\ Return(r) /\ pc[r] \notin InTx
        /\ UNCHANGED <<sess, resp, calls, lockD, lockS, clock, faults>>
    BY <1>1 DEF StartRefused, SaveRefused, Reply, db, locks, InTx, StartTx,
                SaveTx, SubmitTx, Replied
  <2> QED BY <2>1, ReturnStep DEF TypeOK
<1>2. CASE Abort(r)
  <2>1. /\ Return(r) /\ Release(r) /\ UNCHANGED <<sess, resp, calls, clock>>
        /\ faults' \in 0 .. MaxFaults
    BY <1>2, RequestAssumption DEF Abort, db, TypeOK
  <2> QED BY <2>1, ReturnStep DEF TypeOK
<1> QED BY <1>1, <1>2

\* The clock moves.
LEMMA TickStep == ASSUME Inv, Tick PROVE Inv'
<1> USE DEF Inv
<1>1. /\ UNCHANGED <<sess, resp, lockD, lockS, pc, ctx, calls, faults>>
      /\ clock' \in Time
  BY TablesAssumption DEF Tick, db, locks, TypeOK, Time
<1>2. TypeOK' BY <1>1 DEF TypeOK
<1>3. LockInv' /\ RequestInv' /\ OneNotifier'
  BY <1>1 DEF LockInv, RequestInv, OneNotifier
<1>4. OneOpenSession' /\ AttemptsBounded' /\ GradeMatchesAnswers' /\ NotifiedAtMostOnce'
  BY <1>1 DEF OneOpenSession, AttemptsBounded, GradeMatchesAnswers, NotifiedAtMostOnce
<1> QED BY <1>2, <1>3, <1>4

\* The process dies; the database keeps what was committed.
LEMMA CrashStep == ASSUME Inv, Crash PROVE Inv'
<1> USE DEF Inv
<1>1. /\ UNCHANGED <<sess, resp, calls, clock>>
      /\ faults' \in 0 .. MaxFaults
      /\ \A r \in Request : pc'[r] = "idle" /\ ctx'[r] = NoLocals
      /\ \A d \in Delivery : lockD'[d] = Nil
      /\ \A s \in SessionId : lockS'[s] = Nil
  BY RequestAssumption DEF Crash, db, TypeOK
<1>2. TypeOK'
  BY <1>1, NoLocalsType DEF Crash, TypeOK, Label
<1>3. LockInv'
  BY <1>1 DEF LockInv, StartTx, SaveTx, SubmitTx
<1>4. RequestInv'
  BY <1>1, IdleKnows DEF RequestInv
<1>5. OneNotifier'
  BY <1>1 DEF OneNotifier, Notifying
<1>6. OneOpenSession' /\ AttemptsBounded' /\ GradeMatchesAnswers' /\ NotifiedAtMostOnce'
  BY <1>1 DEF OneOpenSession, AttemptsBounded, GradeMatchesAnswers, NotifiedAtMostOnce
<1> QED BY <1>2, <1>3, <1>4, <1>5, <1>6

-----------------------------------------------------------------------------

\* A row that moves forward does not disturb the count of notifications.
LEMMA MovesHeard ==
    ASSUME NEW T, NEW U, NEW K, NEW s \in SessionId, Moves(T, U, s),
           HeardOnce(T, K)
    PROVE  HeardOnce(U, K)
  BY DEF Moves, HeardOnce, Done, Active

\* A row that moves forward and is graded itself does not disturb the grades
\* of the others.
LEMMA MovesGraded ==
    ASSUME NEW T, NEW U, NEW A, NEW B, NEW s \in SessionId, Moves(T, U, s),
           \A t \in SessionId : t # s => B[t] = A[t],
           Graded(T, A),
           Done(U[s]) => /\ B[s] = Scored(U[s].delivery, Data(B[s]))
                         /\ U[s].total = TotalScore(B[s])
    PROVE  Graded(U, B)
  BY DEF Moves, Graded, Rows

\* A commit that moves one session forward under its lock preserves the
\* invariant: the proof shared by StartResume, SaveWrite and the submission.
LEMMA DbStep ==
    ASSUME Inv, NEW r \in Request, NEW l \in Label, NEW c \in Locals,
           NEW s \in SessionId,
           Goto(r, l, c), Release(r), l \notin InTx, calls' = calls,
           sess' \in [SessionId -> SessionRow \cup {Nil}],
           resp' \in [SessionId -> Sheet],
           clock' \in Time, faults' \in 0 .. MaxFaults,
           Moves(sess, sess', s),
           \A t \in SessionId : t # s => resp'[t] = resp[t],
           lockS[s] \in {r, Nil},
           \A q \in Request \ {r} : pc[q] \in StartTx =>
               \/ sess'[s].delivery # ctx[q].delivery
               \/ sess[s] # Nil /\ Active(sess[s]),
           l \in Notifying => c.id = s /\ Active(sess[s]),
           Knows(sess', resp', calls, l, c),
           OneOpen(sess'), AttemptsNumbered(sess'), Graded(sess', resp')
    PROVE  Inv'
<1> USE DEF Inv
<1>1. \A q \in Request : q # r => pc'[q] = pc[q] /\ ctx'[q] = ctx[q]
  BY GotoEffect
<1>2. pc'[r] = l /\ ctx'[r] = c
  BY GotoEffect
<1>3. LockInv'
  BY LockRelease
<1>4. TypeOK'
  BY GotoType, UnlockType DEF TypeOK
<1>5. RequestInv'
  <2> SUFFICES ASSUME NEW q \in Request
               PROVE  Knows(sess', resp', calls, pc'[q], ctx'[q])
    BY DEF RequestInv
  <2>1. CASE q = r
    BY <1>2, <2>1
  <2>2. CASE q # r
    <3>1. pc[q] \in SaveTx \cup SubmitTx => ctx[q].id # s
      BY <2>2, RequestAssumption DEF LockInv
    <3>2. Knows(sess, resp, calls, pc[q], ctx[q])
      BY DEF RequestInv
    <3>3. Knows(sess', resp', calls, pc[q], ctx[q])
      BY <2>2, <3>1, <3>2, OthersKnow
    <3> QED BY <1>1, <2>2, <3>3
  <2> QED BY <2>1, <2>2
<1>6. OneNotifier'
  <2>1. \A q \in Request : pc[q] \in Notifying => Done(sess[ctx[q].id])
    BY DEF RequestInv, Knows, ShowsFinalGrade
  <2> QED
    BY <1>1, <1>2, <2>1 DEF OneNotifier, Done, Active
<1>7. OneOpenSession' /\ AttemptsBounded' /\ GradeMatchesAnswers'
  BY DEF OneOpenSession, AttemptsBounded, GradeMatchesAnswers
<1>8. NotifiedAtMostOnce'
  BY MovesHeard DEF NotifiedAtMostOnce
<1> QED BY <1>3, <1>4, <1>5, <1>6, <1>7, <1>8

\* StartSession: a provisioned session is begun.
LEMMA StartResumeStep ==
    ASSUME Inv, NEW r \in Request, StartResume(r) PROVE Inv'
<1> USE DEF Inv
<1> DEFINE s == ctx[r].id
           row == BegunRow(ctx[r].row, ctx[r].now)
           c == [ctx[r] EXCEPT !.row = row]
<1>1. pc[r] = "start.resume" /\ Knows(sess, resp, calls, "start.resume", ctx[r])
  BY DEF StartResume, RequestInv
<1>2. /\ s \in SessionId /\ ctx[r].delivery \in Delivery /\ ctx[r].user \in User
      /\ s \in RowsOf(sess, ctx[r].delivery, ctx[r].user)
      /\ sess[s] = ctx[r].row /\ ctx[r].row.status = "NOT_STARTED"
  BY <1>1 DEF Knows, ArgsKept, StartKnows, StartTx
<1>3. /\ ctx[r].row \in SessionRow /\ ctx[r].row # Nil
      /\ ctx[r].row.delivery = ctx[r].delivery /\ ctx[r].row.user = ctx[r].user
      /\ ctx[r].now \in Time
  BY <1>2 DEF RowsOf, Rows, TypeOK, Locals
<1>4. /\ row \in SessionRow /\ Active(row)
      /\ row.delivery = ctx[r].row.delivery /\ row.user = ctx[r].row.user
      /\ row.attempt = ctx[r].row.attempt
  BY <1>3 DEF BegunRow, SessionRow, Active, Status
<1>5. row # Nil
  BY <1>4, NilAssumption
<1>6. /\ sess' = [sess EXCEPT ![s] = row]
      /\ Goto(r, "start.ok", c) /\ Release(r) /\ lockS[s] = Nil
      /\ UNCHANGED <<resp, calls, clock, faults>>
  BY DEF StartResume, SessionFree
<1> HIDE DEF row
<1>7. /\ c \in Locals /\ c.id = s /\ c.row = row
      /\ c.delivery = ctx[r].delivery /\ c.user = ctx[r].user
  <2>1. ctx[r] \in Locals
    BY DEF TypeOK
  <2>2. PICK x, y, v, n : x = c /\ y = ctx[r] /\ v = row /\ n = s
    OBVIOUS
  <2>3. y \in Locals /\ v \in SessionRow /\ n \in SessionId /\ y.id = n
    BY <1>2, <1>4, <2>1, <2>2
  <2>4. x = [y EXCEPT !.row = v]
    BY <2>2
  <2>5. /\ x \in Locals /\ x.id \in {y.id, n}
        /\ x.row = v /\ x.delivery = y.delivery /\ x.user = y.user
    BY <2>3, <2>4 DEF Locals
  <2> HIDE DEF c
  <2> QED BY <2>2, <2>3, <2>5
<1> HIDE DEF c
<1>8. /\ sess' \in [SessionId -> SessionRow \cup {Nil}]
      /\ sess'[s] = row /\ \A t \in SessionId : t # s => sess'[t] = sess[t]
  BY <1>2, <1>4, <1>6 DEF TypeOK
<1>9. Moves(sess, sess', s)
  BY <1>2, <1>3, <1>4, <1>5, <1>8 DEF Moves
<1>10. /\ \A d, u : RowsOf(sess', d, u) = RowsOf(sess, d, u)
       /\ \A d, u : Count(sess', d, u) = Count(sess, d, u)
       /\ \A d, u : AttemptsOf(sess', d, u) = AttemptsOf(sess, d, u)
  BY <1>2, <1>3, <1>4, <1>5, <1>8, SameRows
<1>11. OneOpen(sess')
  <2>1. \A d, u : OpenRows(sess', d, u) = OpenRows(sess, d, u)
    BY <1>2, <1>4, <1>8, <1>10 DEF OpenRows, IsOpen, Active, RowsOf, Rows
  <2> QED BY <2>1 DEF OneOpenSession, OneOpen
<1>12. AttemptsNumbered(sess')
  BY <1>10 DEF AttemptsBounded, AttemptsNumbered
<1>13. Graded(sess', resp')
  BY <1>2, <1>4, <1>6, <1>8, <1>9, MovesGraded DEF GradeMatchesAnswers, Active, Done
<1>14. Knows(sess', resp', calls, "start.ok", c)
  BY <1>2, <1>3, <1>4, <1>7, <1>8, <1>10
  DEF Active, Knows, ArgsKept, StartKnows, SessionKnows, ReadKnows,
      NotifierKnows, CallsDue, ShowsFinalGrade, ShowsOwnSession, StartTx,
      SaveTx, SubmitTx, Notifying, Reading
<1>15. \A q \in Request \ {r} :
           pc[q] \in StartTx => sess'[s].delivery # ctx[q].delivery
  BY <1>1, <1>3, <1>4, <1>8 DEF LockInv, StartTx
<1>16. "start.ok" \in Label /\ "start.ok" \notin InTx /\ "start.ok" \notin Notifying
  BY DEF Label, InTx, StartTx, SaveTx, SubmitTx, Notifying, Replied
<1>17. /\ resp' \in [SessionId -> Sheet] /\ \A t \in SessionId : t # s => resp'[t] = resp[t]
       /\ clock' \in Time /\ faults' \in 0 .. MaxFaults /\ calls' = calls
  BY <1>6 DEF TypeOK
<1>18. /\ s \in SessionId /\ lockS[s] \in {r, Nil}
       /\ Goto(r, "start.ok", c) /\ Release(r)
  BY <1>2, <1>6
<1> HIDE DEF s, Inv
<1> QED
  BY <1>7, <1>8, <1>9, <1>11, <1>12, <1>13, <1>14, <1>15, <1>16, <1>17, <1>18,
     DbStep

\* StartSession: the insert.  The attempt number is free because the count was
\* taken under the delivery lock.
LEMMA StartCreateStep ==
    ASSUME Inv, NEW r \in Request, StartCreate(r) PROVE Inv'
<1> USE DEF Inv
<1> DEFINE d == ctx[r].delivery
           u == ctx[r].user
           n == ctx[r].count
           row == NewRow(d, u, n, ctx[r].now)
<1>1. pc[r] = "start.create" /\ Knows(sess, resp, calls, "start.create", ctx[r])
  BY DEF StartCreate, RequestInv
<1>2. /\ d \in Delivery /\ u \in User /\ OpenRows(sess, d, u) = {}
      /\ n = Count(sess, d, u) /\ AttemptsLeft(d, n)
  BY <1>1 DEF Knows, ArgsKept, StartKnows, StartTx
<1>3. n \in Nat /\ ctx[r].now \in Time
  BY DEF TypeOK, Locals
<1>4. /\ row \in SessionRow /\ Active(row) /\ row.delivery = d /\ row.user = u
      /\ row.attempt = n + 1
  BY <1>2, <1>3 DEF NewRow, SessionRow, Active, Status, Totals
<1>5. row # Nil
  BY <1>4, NilAssumption
<1> HIDE DEF row
<1>6. PICK s \in SessionId :
        /\ sess[s] = Nil
        /\ IF row.attempt \in AttemptsOf(sess, d, u)
           THEN Return(r) /\ UNCHANGED sess
           ELSE /\ sess' = [sess EXCEPT ![s] = row]
                /\ Goto(r, "start.ok", [ctx[r] EXCEPT !.id = s, !.row = row])
  BY DEF StartCreate, row
<1>7. Release(r) /\ UNCHANGED <<resp, calls, clock, faults>>
  BY DEF StartCreate
<1>8. CASE row.attempt \in AttemptsOf(sess, d, u)
  BY <1>6, <1>7, <1>8, ReturnStep DEF TypeOK
<1>9. CASE row.attempt \notin AttemptsOf(sess, d, u)
  <2> DEFINE c == [ctx[r] EXCEPT !.id = s, !.row = row]
  <2>1. sess' = [sess EXCEPT ![s] = row] /\ Goto(r, "start.ok", c)
    BY <1>6, <1>9
  <2>2. /\ c \in Locals /\ c.id = s /\ c.row = row
        /\ c.delivery = d /\ c.user = u
    <3>1. ctx[r] \in Locals
      BY DEF TypeOK
    <3>2. PICK x, y, v : x = c /\ y = ctx[r] /\ v = row
      OBVIOUS
    <3>3. x = [y EXCEPT !.id = s, !.row = v] /\ y \in Locals /\ v \in SessionRow
      BY <1>4, <3>1, <3>2
    <3>4. x.id = s
      BY <3>3 DEF Locals
    <3>5. /\ x \in Locals
          /\ x.row = v /\ x.delivery = y.delivery /\ x.user = y.user
      BY <3>3 DEF Locals
    <3> HIDE DEF c
    <3> QED BY <3>2, <3>4, <3>5
  <2> HIDE DEF c
  <2>3. /\ sess' \in [SessionId -> SessionRow \cup {Nil}]
        /\ sess'[s] = row /\ \A t \in SessionId : t # s => sess'[t] = sess[t]
    BY <1>4, <2>1 DEF TypeOK
  <2>4. Moves(sess, sess', s)
    BY <1>5, <1>6, <2>3 DEF Moves
  <2>5. \A e, v :
          /\ s \notin RowsOf(sess, e, v)
          /\ RowsOf(sess', e, v) = IF d = e /\ u = v
                THEN RowsOf(sess, e, v) \cup {s} ELSE RowsOf(sess, e, v)
          /\ Count(sess', e, v) = IF d = e /\ u = v
                THEN Count(sess, e, v) + 1 ELSE Count(sess, e, v)
    BY <1>4, <1>5, <1>6, <2>3, NewRows
  <2>6. OneOpen(sess')
    <3>1. \A e, v : OpenRows(sess', e, v) \subseteq
                       IF d = e /\ u = v THEN {s} ELSE OpenRows(sess, e, v)
      BY <1>2, <2>3, <2>5 DEF OpenRows, RowsOf, Rows
    <3> QED BY <3>1 DEF OneOpenSession, OneOpen
  <2>7. AttemptsNumbered(sess')
    <3> SUFFICES ASSUME NEW e \in Delivery, NEW v \in User
                 PROVE  /\ AttemptsOf(sess', e, v) = 1 .. Count(sess', e, v)
                        /\ Count(sess', e, v) <= AttemptLimit(e)
      BY DEF AttemptsNumbered
    <3>1. /\ AttemptsOf(sess, e, v) = 1 .. Count(sess, e, v)
          /\ Count(sess, e, v) <= AttemptLimit(e)
      BY DEF AttemptsBounded, AttemptsNumbered
    <3>2. CASE d = e /\ u = v
      <4>1. AttemptsOf(sess', e, v) = AttemptsOf(sess, e, v) \cup {n + 1}
        BY <1>4, <2>3, <2>5, <3>2 DEF AttemptsOf, RowsOf, Rows
      <4>2. Count(sess', e, v) = n + 1 /\ Count(sess, e, v) = n
        BY <1>2, <2>5, <3>2
      <4>3. AttemptLimit(e) \in Int
        BY TablesAssumption DEF AttemptLimit, DeliveryRow
      <4>4. n + 1 <= AttemptLimit(e)
        BY <1>2, <1>3, <3>2, <4>3 DEF AttemptsLeft
      <4> QED BY <1>3, <3>1, <4>1, <4>2, <4>4
    <3>3. CASE ~(d = e /\ u = v)
      <4>1. RowsOf(sess', e, v) = RowsOf(sess, e, v)
        BY <2>5, <3>3
      <4>2. AttemptsOf(sess', e, v) = AttemptsOf(sess, e, v)
        BY <2>3, <2>5, <4>1 DEF AttemptsOf, RowsOf, Rows
      <4> QED BY <2>5, <3>1, <3>3, <4>2
    <3> QED BY <3>2, <3>3
  <2>8. Graded(sess', resp')
    BY <1>4, <1>7, <2>3, <2>4, MovesGraded DEF GradeMatchesAnswers, Active, Done
  <2>9. Knows(sess', resp', calls, "start.ok", c)
    BY <1>2, <1>4, <2>2, <2>3, <2>5
    DEF Active, Knows, ArgsKept, StartKnows, SessionKnows, ReadKnows,
        NotifierKnows, CallsDue, ShowsFinalGrade, ShowsOwnSession, StartTx,
        SaveTx, SubmitTx, Notifying, Reading
  <2>10. \A q \in Request \ {r} :
             pc[q] \in StartTx => sess'[s].delivery # ctx[q].delivery
    BY <1>1, <1>4, <2>3 DEF LockInv, StartTx
  <2>11. lockS[s] = Nil
    <3>1. \A q \in Request : pc[q] \in SaveTx \cup SubmitTx => sess[ctx[q].id] # Nil
      BY DEF RequestInv, Knows, SessionKnows, SaveTx
    <3> QED BY <1>6, <3>1 DEF LockInv, TypeOK
  <2>12. "start.ok" \in Label /\ "start.ok" \notin InTx /\ "start.ok" \notin Notifying
    BY DEF Label, InTx, StartTx, SaveTx, SubmitTx, Notifying, Replied
  <2>13. /\ resp' \in [SessionId -> Sheet] /\ \A t \in SessionId : t # s => resp'[t] = resp[t]
         /\ clock' \in Time /\ faults' \in 0 .. MaxFaults /\ calls' = calls
    BY <1>7 DEF TypeOK
  <2>14. lockS[s] \in {r, Nil} /\ Goto(r, "start.ok", c) /\ Release(r)
    BY <1>7, <2>1, <2>11
  <2> HIDE DEF Inv, d, u, n
  <2> QED
    BY <2>2, <2>3, <2>4, <2>6, <2>7, <2>8, <2>9, <2>10, <2>12, <2>13, <2>14,
       DbStep
<1> QED BY <1>8, <1>9

\* SaveResponse: the upsert and the commit.
LEMMA SaveWriteStep ==
    ASSUME Inv, NEW r \in Request, SaveWrite(r) PROVE Inv'
<1> USE DEF Inv
<1> DEFINE s == ctx[r].id
           i == ctx[r].item
           ans == [data |-> ctx[r].data, score |-> 0]
<1>1. pc[r] = "save.write" /\ Knows(sess, resp, calls, "save.write", ctx[r])
  BY DEF SaveWrite, RequestInv
<1>2. /\ s \in SessionId /\ i \in Item /\ ctx[r].data \in Answer
      /\ sess[s] # Nil /\ Active(sess[s])
  BY <1>1 DEF Knows, ArgsKept, SessionKnows, SaveTx
<1>3. /\ resp' = [resp EXCEPT ![s][i] = ans] \/ resp' = resp
      /\ Goto(r, "idle", NoLocals) /\ Release(r)
      /\ UNCHANGED <<sess, calls, clock, faults>>
  BY DEF SaveWrite, Return
<1>4. ans \in Response
  BY <1>2 DEF Response
<1> HIDE DEF ans
<1>5. /\ resp' \in [SessionId -> Sheet]
      /\ \A t \in SessionId : t # s => resp'[t] = resp[t]
  <2>1. CASE resp' = [resp EXCEPT ![s][i] = ans]
    BY <1>2, <1>4, <2>1 DEF TypeOK, Sheet
  <2>2. CASE resp' = resp
    BY <2>2 DEF TypeOK
  <2> QED BY <1>3, <2>1, <2>2
<1>6. Moves(sess, sess', s)
  BY <1>2, <1>3 DEF Moves, Active, Done
<1>7. Graded(sess', resp')
  <2>1. Graded(sess, resp)
    BY DEF GradeMatchesAnswers
  <2>2. ~Done(sess'[s])
    BY <1>2, <1>3 DEF Active, Done
  <2> HIDE DEF s
  <2> QED BY <1>2, <1>5, <1>6, <2>1, <2>2, MovesGraded
<1>8. Knows(sess', resp', calls, "idle", NoLocals)
  BY DEF Knows, ArgsKept, StartKnows, SessionKnows, ReadKnows, NotifierKnows,
         CallsDue, ShowsFinalGrade, ShowsOwnSession, StartTx, SaveTx, SubmitTx,
         Notifying, Reading
<1>9. lockS[s] = r
  BY <1>1 DEF LockInv, SaveTx
<1>10. "idle" \in Label /\ "idle" \notin InTx /\ "idle" \notin Notifying
  BY DEF Label, InTx, StartTx, SaveTx, SubmitTx, Notifying
<1>11. OneOpen(sess') /\ AttemptsNumbered(sess')
  BY <1>3 DEF OneOpenSession, AttemptsBounded
<1> HIDE DEF s, i
<1> QED
  BY <1>2, <1>3, <1>5, <1>6, <1>7, <1>8, <1>9, <1>10, <1>11, NoLocalsType,
     DbStep DEF TypeOK

\* The answers on a sheet, without their scores.
LEMMA DataType ==
    ASSUME NEW sheet \in Sheet
    PROVE  Data(sheet) \in [Item -> Answer \cup {Nil}]
  BY DEF Data, Sheet, Response

\* Scoring gives a sheet with the same answers.
LEMMA ScoredType ==
    ASSUME NEW d \in Delivery, NEW a \in [Item -> Answer \cup {Nil}]
    PROVE  Scored(d, a) \in Sheet /\ Data(Scored(d, a)) = a
<1>1. \A i \in Item : WeightedScore(d, i, a[i]) \in Int
  BY TablesAssumption DEF WeightedScore, ScoreItem, ItemRow
<1>2. \A i \in Item : a[i] # Nil =>
        [data |-> a[i], score |-> WeightedScore(d, i, a[i])] \in Response
  BY <1>1 DEF Response
<1>3. Scored(d, a) \in Sheet
  BY <1>2 DEF Scored, Sheet
<1>4. \A i \in Item : Data(Scored(d, a))[i] = a[i]
  BY <1>2, NilAssumption DEF Data, Scored
<1> QED BY <1>3, <1>4 DEF Data

\* What the commit of SubmitSession leaves in the tables.
LEMMA CommitEffect ==
    ASSUME Inv, NEW r \in Request, pc[r] = "submit.write", SubmitCommit(r)
    PROVE  LET s == ctx[r].id IN
           /\ s \in SessionId /\ lockS[s] = r
           /\ sess[s] \in SessionRow /\ sess[s] # Nil /\ Active(sess[s])
           /\ sess' \in [SessionId -> SessionRow \cup {Nil}]
           /\ resp' \in [SessionId -> Sheet]
           /\ resp' = [resp EXCEPT ![s] = Scored(sess[s].delivery, Data(resp[s]))]
           /\ resp'[s] = Scored(sess[s].delivery, Data(resp[s]))
           /\ sess' = [sess EXCEPT ![s] = CompletedRow(@, clock, resp'[s])]
           /\ sess'[s] \in SessionRow /\ Done(sess'[s])
           /\ Moves(sess, sess', s)
           /\ \A t \in SessionId : t # s => resp'[t] = resp[t]
           /\ OneOpen(sess') /\ AttemptsNumbered(sess') /\ Graded(sess', resp')
<1> USE DEF Inv
<1> DEFINE s == ctx[r].id
           d == sess[s].delivery
           sheet == Scored(d, Data(resp[s]))
           row == CompletedRow(sess[s], clock, sheet)
<1>1. Knows(sess, resp, calls, "submit.write", ctx[r])
  BY DEF RequestInv
<1>2. /\ s \in SessionId /\ sess[s] # Nil /\ sess[s] = ctx[r].row
      /\ Active(sess[s]) /\ ctx[r].sheet = resp[s]
  BY <1>1 DEF Knows, ArgsKept, SessionKnows, SubmitTx
<1>3. lockS[s] = r
  BY DEF LockInv, SubmitTx
<1>4. sess[s] \in SessionRow /\ d \in Delivery /\ resp[s] \in Sheet
  BY <1>2 DEF TypeOK, SessionRow
<1>5. /\ Data(resp[s]) \in [Item -> Answer \cup {Nil}]
      /\ sheet \in Sheet /\ Data(sheet) = Data(resp[s])
  BY <1>4, DataType, ScoredType
<1>6. resp' = [resp EXCEPT ![s] = sheet] /\ sess' = [sess EXCEPT ![s] = row]
  BY <1>2 DEF SubmitCommit
<1>7. TotalScore(sheet) \in Totals
  BY <1>4, <1>5 DEF Totals
<1>8. TimeSpent(sess[s], clock) \in Nat
  BY <1>4, TablesAssumption DEF TimeSpent, SessionRow, TypeOK, Time, NoTime
<1>9. /\ row \in SessionRow /\ Done(row) /\ row.total = TotalScore(sheet)
      /\ row.delivery = d /\ row.user = sess[s].user
      /\ row.attempt = sess[s].attempt
  BY <1>4, <1>7, <1>8 DEF CompletedRow, SessionRow, Done, Status
<1>10. row # Nil
  BY <1>9, NilAssumption
<1> HIDE DEF row
<1>11. /\ sess' \in [SessionId -> SessionRow \cup {Nil}] /\ sess'[s] = row
       /\ \A t \in SessionId : t # s => sess'[t] = sess[t]
  BY <1>2, <1>6, <1>9 DEF TypeOK
<1>12. /\ resp' \in [SessionId -> Sheet] /\ resp'[s] = sheet
       /\ \A t \in SessionId : t # s => resp'[t] = resp[t]
  BY <1>2, <1>5, <1>6 DEF TypeOK
<1>13. Moves(sess, sess', s)
  BY <1>2, <1>9, <1>10, <1>11 DEF Moves
<1>14. /\ \A e, u : RowsOf(sess', e, u) = RowsOf(sess, e, u)
       /\ \A e, u : Count(sess', e, u) = Count(sess, e, u)
       /\ \A e, u : AttemptsOf(sess', e, u) = AttemptsOf(sess, e, u)
  BY <1>2, <1>9, <1>10, <1>11, SameRows, SMTT(30)
<1>15. OneOpen(sess')
  <2>1. \A e, u : OpenRows(sess', e, u) \subseteq OpenRows(sess, e, u)
    BY <1>2, <1>9, <1>11, <1>14 DEF OpenRows, IsOpen, Active, Done, RowsOf, Rows
  <2> QED BY <2>1 DEF OneOpenSession, OneOpen
<1>16. AttemptsNumbered(sess')
  BY <1>14 DEF AttemptsBounded, AttemptsNumbered
<1>17. Graded(sess', resp')
  BY <1>2, <1>5, <1>9, <1>11, <1>12, <1>13, MovesGraded DEF GradeMatchesAnswers
<1> QED
  BY <1>2, <1>3, <1>4, <1>6, <1>9, <1>11, <1>12, <1>13, <1>15, <1>16, <1>17
  DEF row

\* SubmitSession: the conditional update, the read back and the commit.
LEMMA SubmitWriteStep ==
    ASSUME Inv, NEW r \in Request, SubmitWrite(r) PROVE Inv'
<1> USE DEF Inv
<1> DEFINE s == ctx[r].id
           c == [ctx[r] EXCEPT !.row = sess'[s], !.sheet = resp'[s]]
<1>1. pc[r] = "submit.write" /\ Knows(sess, resp, calls, "submit.write", ctx[r])
  BY DEF SubmitWrite, RequestInv
<1>2. s \in SessionId /\ Active(sess[s])
  BY <1>1 DEF Knows, ArgsKept, SessionKnows, SubmitTx
<1>3. /\ SubmitCommit(r) /\ Goto(r, "submit.publish", c) /\ Release(r)
      /\ UNCHANGED <<calls, clock, faults>>
  BY <1>2 DEF SubmitWrite
<1>4. /\ s \in SessionId /\ lockS[s] = r
      /\ sess[s] \in SessionRow /\ sess[s] # Nil /\ Active(sess[s])
      /\ sess' \in [SessionId -> SessionRow \cup {Nil}]
      /\ resp' \in [SessionId -> Sheet]
      /\ sess'[s] \in SessionRow /\ Done(sess'[s])
      /\ Moves(sess, sess', s)
      /\ \A t \in SessionId : t # s => resp'[t] = resp[t]
      /\ OneOpen(sess') /\ AttemptsNumbered(sess') /\ Graded(sess', resp')
  BY <1>1, <1>3, CommitEffect
<1>5. c \in Locals /\ c.id = s /\ c.row = sess'[s] /\ c.sheet = resp'[s]
  <2> DEFINE v == sess'[s]
             w == resp'[s]
  <2>1. v \in SessionRow /\ w \in Sheet
    BY <1>4
  <2> HIDE DEF v, w
  <2>2. [ctx[r] EXCEPT !.row = v, !.sheet = w] \in Locals
        /\ [ctx[r] EXCEPT !.row = v, !.sheet = w].id = s
        /\ [ctx[r] EXCEPT !.row = v, !.sheet = w].row = v
        /\ [ctx[r] EXCEPT !.row = v, !.sheet = w].sheet = w
    BY <2>1 DEF TypeOK, Locals
  <2> QED BY <2>2 DEF v, w
<1> HIDE DEF c
<1>6. \A ch \in Channel : calls[ch][s] = 0
  <2> SUFFICES ASSUME NEW ch \in Channel PROVE calls[ch][s] = 0
    OBVIOUS
  <2>1. calls[ch][s] \in Nat
    BY <1>2 DEF TypeOK
  <2>2. calls[ch][s] <= 1 /\ calls[ch][s] # 1
    BY <1>2 DEF NotifiedAtMostOnce, HeardOnce, Done, Active
  <2> QED BY <2>1, <2>2
<1>7. sess'[s] # Nil
  BY <1>4, NilAssumption
<1>8. Knows(sess', resp', calls, "submit.publish", c)
  BY <1>2, <1>4, <1>5, <1>6, <1>7
  DEF Knows, ArgsKept, StartKnows, SessionKnows, ReadKnows, NotifierKnows,
      CallsDue, ShowsFinalGrade, ShowsOwnSession, StartTx, SaveTx, SubmitTx,
      Notifying, Reading
<1>9. "submit.publish" \in Label /\ "submit.publish" \notin InTx
  BY DEF Label, InTx, StartTx, SaveTx, SubmitTx, Notifying
<1> HIDE DEF s
<1> QED
  BY <1>3, <1>4, <1>5, <1>8, <1>9, DbStep DEF TypeOK

\* SubmitSession: the commit whose acknowledgement is lost.
LEMMA SubmitCommitLostStep ==
    ASSUME Inv, NEW r \in Request, SubmitCommitLost(r) PROVE Inv'
<1> USE DEF Inv
<1> DEFINE s == ctx[r].id
<1>1. /\ pc[r] = "submit.write" /\ SubmitCommit(r) /\ Release(r)
      /\ Goto(r, "idle", NoLocals) /\ UNCHANGED <<calls, clock>>
  BY DEF SubmitCommitLost, Return
<1>2. faults' \in 0 .. MaxFaults
  BY RequestAssumption DEF SubmitCommitLost, TypeOK
<1>3. /\ s \in SessionId /\ lockS[s] = r /\ sess[s] # Nil /\ Active(sess[s])
      /\ sess' \in [SessionId -> SessionRow \cup {Nil}]
      /\ resp' \in [SessionId -> Sheet]
      /\ Moves(sess, sess', s)
      /\ \A t \in SessionId : t # s => resp'[t] = resp[t]
      /\ OneOpen(sess') /\ AttemptsNumbered(sess') /\ Graded(sess', resp')
  BY <1>1, CommitEffect
<1>4. Knows(sess', resp', calls, "idle", NoLocals)
  BY DEF Knows, ArgsKept, StartKnows, SessionKnows, ReadKnows, NotifierKnows,
         CallsDue, ShowsFinalGrade, ShowsOwnSession, StartTx, SaveTx, SubmitTx,
         Notifying, Reading
<1>5. "idle" \in Label /\ "idle" \notin InTx /\ "idle" \notin Notifying
  BY DEF Label, InTx, StartTx, SaveTx, SubmitTx, Notifying
<1> HIDE DEF s
<1> QED
  BY <1>1, <1>2, <1>3, <1>4, <1>5, NoLocalsType, DbStep DEF TypeOK

\* SubmitSession: the three notifications.  Each is the first on its channel
\* because only one request ever notifies of a session.
LEMMA CallStep ==
    ASSUME Inv, NEW r \in Request,
           SubmitPublish(r) \/ SubmitDispatch(r) \/ SubmitGrade(r)
    PROVE  Inv'
<1> USE DEF Inv
<1> DEFINE s == ctx[r].id
<1>1. PICK ch \in Channel, l \in Label :
        /\ pc[r] \in Notifying /\ ch \in CallsDue(pc[r])
        /\ CallsDue(l) \subseteq CallsDue(pc[r]) \ {ch}
        /\ l \in Notifying \cup {"submit.ok"} /\ Call(r, ch, l)
  <2>1. CASE SubmitPublish(r)
    <3>1. /\ "publish" \in Channel /\ "submit.dispatch" \in Label
          /\ pc[r] \in Notifying /\ "publish" \in CallsDue(pc[r])
          /\ CallsDue("submit.dispatch") \subseteq CallsDue(pc[r]) \ {"publish"}
          /\ "submit.dispatch" \in Notifying
      BY <2>1 DEF SubmitPublish, Notifying, CallsDue, Channel, Label
    <3> QED BY <2>1, <3>1 DEF SubmitPublish
  <2>2. CASE SubmitDispatch(r)
    <3>1. /\ "dispatch" \in Channel /\ "submit.grade" \in Label
          /\ pc[r] \in Notifying /\ "dispatch" \in CallsDue(pc[r])
          /\ CallsDue("submit.grade") \subseteq CallsDue(pc[r]) \ {"dispatch"}
          /\ "submit.grade" \in Notifying
      BY <2>2 DEF SubmitDispatch, Notifying, CallsDue, Channel, Label
    <3> QED BY <2>2, <3>1 DEF SubmitDispatch
  <2>3. CASE SubmitGrade(r)
    <3>1. /\ "grade" \in Channel /\ "submit.ok" \in Label
          /\ pc[r] \in Notifying /\ "grade" \in CallsDue(pc[r])
          /\ CallsDue("submit.ok") \subseteq CallsDue(pc[r]) \ {"grade"}
      BY <2>3 DEF SubmitGrade, Notifying, CallsDue, Channel, Label, Replied
    <3> QED BY <2>3, <3>1 DEF SubmitGrade
  <2> QED BY <2>1, <2>2, <2>3
<1>2. /\ Goto(r, l, ctx[r]) /\ calls' = [calls EXCEPT ![ch][s] = @ + 1]
      /\ UNCHANGED <<sess, resp, lockD, lockS, clock, faults>>
  BY <1>1 DEF Call, db, locks
<1>3. Knows(sess, resp, calls, pc[r], ctx[r])
  BY DEF RequestInv
<1>4. /\ s \in SessionId /\ sess[s] # Nil /\ Done(sess[s])
      /\ \A x \in CallsDue(pc[r]) : calls[x][s] = 0
  BY <1>1, <1>3 DEF Knows, ArgsKept, ShowsFinalGrade, NotifierKnows
<1>5. /\ calls' \in [Channel -> [SessionId -> Nat]] /\ calls'[ch][s] = 1
      /\ \A x \in Channel, t \in SessionId :
             x # ch \/ t # s => calls'[x][t] = calls[x][t]
  BY <1>1, <1>2, <1>4 DEF TypeOK
<1>6. /\ \A q \in Request : q # r => pc'[q] = pc[q] /\ ctx'[q] = ctx[q]
      /\ pc'[r] = l /\ ctx'[r] = ctx[r]
  BY <1>2, GotoEffect
<1>7. TypeOK'
  <2>1. ctx[r] \in Locals
    BY DEF TypeOK
  <2> QED BY <1>1, <1>2, <1>5, <2>1, GotoType DEF TypeOK
<1>8. LockInv'
  BY <1>1, <1>2, LockKeep DEF Notifying, StartTx, SaveTx, SubmitTx
<1>9. NotifiedAtMostOnce'
  BY <1>2, <1>4, <1>5 DEF NotifiedAtMostOnce, HeardOnce
<1>10. RequestInv'
  <2> SUFFICES ASSUME NEW q \in Request
               PROVE  Knows(sess, resp, calls', pc'[q], ctx'[q])
    BY <1>2 DEF RequestInv
  <2>1. CASE q = r
    <3>1. NotifierKnows(calls', l, ctx[r])
      <4> SUFFICES ASSUME NEW x \in CallsDue(l) PROVE calls'[x][s] = 0
        BY DEF NotifierKnows
      <4>1. x \in CallsDue(pc[r]) /\ x # ch /\ x \in Channel
        BY <1>1 DEF CallsDue, Channel
      <4> QED BY <1>4, <1>5, <4>1
    <3>2. Knows(sess, resp, calls', l, ctx[r])
      BY <1>1, <1>3, <1>4, <3>1
      DEF Knows, ArgsKept, StartKnows, SessionKnows, ReadKnows,
          ShowsFinalGrade, ShowsOwnSession, StartTx, SaveTx, SubmitTx,
          Notifying, Reading
    <3> QED BY <1>6, <2>1, <3>2
  <2>2. CASE q # r
    <3>1. Knows(sess, resp, calls, pc[q], ctx[q])
      BY DEF RequestInv
    <3>2. NotifierKnows(calls', pc[q], ctx[q])
      <4> SUFFICES ASSUME NEW x \in CallsDue(pc[q])
                   PROVE  calls'[x][ctx[q].id] = 0
        BY DEF NotifierKnows
      <4>1. pc[q] \in Notifying /\ x \in Channel
        BY DEF CallsDue, Notifying, Channel
      <4>2. ctx[q].id # s
        BY <1>1, <2>2, <4>1 DEF OneNotifier
      <4>3. ctx[q].id \in SessionId /\ calls[x][ctx[q].id] = 0
        BY <3>1, <4>1 DEF Knows, ArgsKept, NotifierKnows
      <4> QED BY <1>5, <4>1, <4>2, <4>3
    <3> QED BY <1>6, <2>2, <3>1, <3>2 DEF Knows
  <2> QED BY <2>1, <2>2
<1>11. OneNotifier'
  BY <1>1, <1>6 DEF OneNotifier
<1>12. OneOpenSession' /\ AttemptsBounded' /\ GradeMatchesAnswers'
  BY <1>2 DEF OneOpenSession, AttemptsBounded, GradeMatchesAnswers
<1> QED BY <1>7, <1>8, <1>9, <1>10, <1>11, <1>12

-----------------------------------------------------------------------------

\* The tables at process start satisfy the invariant.
LEMMA InitInv == Init => Inv
<1> SUFFICES ASSUME Init PROVE Inv
  OBVIOUS
<1> USE DEF Init
<1>1. Blank \in Sheet
  BY DEF Blank, Sheet
<1>2. TypeOK
  BY <1>1, SeedAssumption, TablesAssumption, NoLocalsType, RequestAssumption
  DEF TypeOK, Label, Time
<1>3. LockInv
  BY DEF LockInv, StartTx, SaveTx, SubmitTx
<1>4. RequestInv
  BY IdleKnows DEF RequestInv
<1>5. OneNotifier
  BY DEF OneNotifier, Notifying
<1>6. OneOpenSession /\ AttemptsBounded
  BY SeedAssumption DEF OneOpenSession, AttemptsBounded
<1>7. GradeMatchesAnswers
  BY SeedAssumption DEF GradeMatchesAnswers, Graded
<1>8. NotifiedAtMostOnce
  BY DEF NotifiedAtMostOnce, HeardOnce
<1> QED BY <1>2, <1>3, <1>4, <1>5, <1>6, <1>7, <1>8 DEF Inv

\* Every step of the service preserves the invariant.
LEMMA StepInv == ASSUME Inv, NEW r \in Request, Step(r) PROVE Inv'
  BY StartLockStep, RefusalStep, StartFindOpenStep, StartFindNoneStep,
     StartResumeStep, StartCountStep, StartCreateStep, SaveLockStep,
     SaveWriteStep, SubmitLockStep, SubmitLoadStep, SubmitWriteStep, CallStep,
     GetRowStep, GetResponsesStep
  DEF Step

\* The invariant is inductive.
LEMMA NextInv == Inv /\ [Next]_vars => Inv'
<1> SUFFICES ASSUME Inv, [Next]_vars PROVE Inv'
  OBVIOUS
<1>1. CASE Tick
  BY <1>1, TickStep
<1>2. CASE Fault
  BY <1>2, CrashStep, RefusalStep, SubmitCommitLostStep DEF Fault
<1>3. ASSUME NEW r \in Request, Arrive(r) \/ Step(r) PROVE Inv'
  BY <1>3, ArriveStep, StepInv
<1>4. CASE UNCHANGED vars
  <2> USE <1>4 DEF vars, Inv
  <2>1. TypeOK' /\ LockInv' BY DEF TypeOK, LockInv
  <2>2. RequestInv' /\ OneNotifier' BY DEF RequestInv, OneNotifier
  <2>3. OneOpenSession' /\ AttemptsBounded' BY DEF OneOpenSession, AttemptsBounded
  <2>4. GradeMatchesAnswers' /\ NotifiedAtMostOnce'
    BY DEF GradeMatchesAnswers, NotifiedAtMostOnce
  <2> QED BY <2>1, <2>2, <2>3, <2>4
<1> QED BY <1>1, <1>2, <1>3, <1>4 DEF Next

\* The inductive invariant holds in every reachable state, for any number of
\* concurrent requests, candidates, deliveries, items and faults.
THEOREM Invariance == Spec => []Inv
  BY InitInv, NextInv, PTL DEF Spec

\* Every variable keeps its type; in particular time_spent_seconds is never
\* negative and total_score is always the sum of a scored sheet or zero.
THEOREM TypeCorrect == Spec => []TypeOK
<1>1. Inv => TypeOK
  BY DEF Inv
<1> QED BY <1>1, Invariance, PTL

\* StartSession never gives a candidate two open sessions of one delivery.
THEOREM SingleOpenSession == Spec => []OneOpenSession
<1>1. Inv => OneOpenSession
  BY DEF Inv
<1> QED BY <1>1, Invariance, PTL

\* StartSession numbers attempts without gap or repeat, within max_attempts.
THEOREM AttemptsWithinLimit == Spec => []AttemptsBounded
<1>1. Inv => AttemptsBounded
  BY DEF Inv
<1> QED BY <1>1, Invariance, PTL

\* SubmitSession's grade on record is the grade of the answers on record.
THEOREM GradesCorrect == Spec => []GradeMatchesAnswers
<1>1. Inv => GradeMatchesAnswers
  BY DEF Inv
<1> QED BY <1>1, Invariance, PTL

\* SubmitSession calls each channel at most once for a session, and only after
\* its completion was committed, across retries, lost commits and crashes.
THEOREM NotifiedOnce == Spec => []NotifiedAtMostOnce
<1>1. Inv => NotifiedAtMostOnce
  BY DEF Inv
<1> QED BY <1>1, Invariance, PTL

\* The reply of SubmitSession, and what its listeners hear, is the final row
\* and sheet, although both were read before.
THEOREM SubmitReplies == Spec => []SubmitAnswersFinalGrade
<1>1. Inv => SubmitAnswersFinalGrade
  BY DEF Inv, RequestInv, Knows, SubmitAnswersFinalGrade
<1> QED BY <1>1, Invariance, PTL

\* The reply of StartSession is the caller's own session, as it is stored or
\* was before it was completed.
THEOREM StartReplies == Spec => []StartAnswersOwnSession
<1>1. Inv => StartAnswersOwnSession
  BY DEF Inv, RequestInv, Knows, StartAnswersOwnSession
<1> QED BY <1>1, Invariance, PTL

\* The reply of GetSession about a completed session is consistent, although
\* row and responses are read in two statements.
THEOREM ReadReplies == Spec => []ReadIsConsistent
<1>1. Inv => ReadIsConsistent
  <2> SUFFICES ASSUME Inv, NEW r \in Request, pc[r] = "get.ok", Done(ctx[r].row)
               PROVE  /\ ctx[r].row.total = TotalScore(ctx[r].sheet)
                      /\ ctx[r].row.spent >= 0
    BY DEF ReadIsConsistent
  <2>1. /\ ctx[r].id \in SessionId /\ ctx[r].row # Nil
        /\ ctx[r].row = sess[ctx[r].id] /\ ctx[r].sheet = resp[ctx[r].id]
    BY DEF Inv, RequestInv, Knows, ArgsKept, ReadKnows
  <2>2. ctx[r].row.total = TotalScore(ctx[r].sheet)
    BY <2>1 DEF Inv, GradeMatchesAnswers, Graded, Rows
  <2>3. sess[ctx[r].id] \in SessionRow
    BY <2>1 DEF Inv, TypeOK
  <2>4. ctx[r].row.spent \in Nat
    BY <2>1, <2>3 DEF SessionRow
  <2> QED BY <2>2, <2>4
<1> QED BY <1>1, Invariance, PTL

-----------------------------------------------------------------------------

\* The queries mean the same in the ledger.
LEMMA LedgerQueries ==
    /\ Ledger!Time = Time /\ Ledger!Channel = Channel
    /\ \A T, d, u : Ledger!RowsOf(T, d, u) = RowsOf(T, d, u)
    /\ \A T, d, u : Ledger!OpenRows(T, d, u) = OpenRows(T, d, u)
    /\ \A T, d, u : Ledger!Count(T, d, u) = Count(T, d, u)
    /\ \A d, n : Ledger!AttemptsLeft(d, n) <=> AttemptsLeft(d, n)
    /\ \A row : Ledger!Active(row) <=> Active(row)
    /\ \A row : Ledger!Done(row) <=> Done(row)
<1>1. \A T, d, u : Ledger!RowsOf(T, d, u) = RowsOf(T, d, u)
  BY DEF RowsOf, Rows, Ledger!RowsOf, Ledger!Rows
<1>2. \A T, d, u : Ledger!OpenRows(T, d, u) = OpenRows(T, d, u)
  BY <1>1 DEF OpenRows, IsOpen, Ledger!OpenRows, Ledger!IsOpen
<1>3. \A T, d, u : Ledger!Count(T, d, u) = Count(T, d, u)
  BY <1>1 DEF Count, Cardinality, Ledger!Count, Ledger!Cardinality
<1>4. \A d, n : Ledger!AttemptsLeft(d, n) <=> AttemptsLeft(d, n)
  BY DEF AttemptsLeft, AttemptLimit, Ledger!AttemptsLeft, Ledger!AttemptLimit
<1> QED
  BY <1>1, <1>2, <1>3, <1>4
  DEF Time, Channel, Active, Done, Ledger!Time, Ledger!Channel, Ledger!Active,
      Ledger!Done

\* The row operations mean the same in the ledger.
LEMMA LedgerRows ==
    /\ \A d, u, n, now : Ledger!NewRow(d, u, n, now) = NewRow(d, u, n, now)
    /\ \A row, now : Ledger!BegunRow(row, now) = BegunRow(row, now)
    /\ \A sheet : Ledger!Data(sheet) = Data(sheet)
    /\ \A d, a : Ledger!Scored(d, a) = Scored(d, a)
    /\ \A row, now, sheet :
           Ledger!CompletedRow(row, now, sheet) = CompletedRow(row, now, sheet)
<1>1. \A d, u, n, now : Ledger!NewRow(d, u, n, now) = NewRow(d, u, n, now)
  BY DEF NewRow, Ledger!NewRow
<1>2. \A row, now : Ledger!BegunRow(row, now) = BegunRow(row, now)
  BY DEF BegunRow, Ledger!BegunRow
<1>3. \A sheet : Ledger!Data(sheet) = Data(sheet)
  BY DEF Data, Ledger!Data
<1>4. \A d, i, a : Ledger!WeightedScore(d, i, a) = WeightedScore(d, i, a)
  BY DEF WeightedScore, ScoreItem, ValidMark, ScoreLimit, Ledger!WeightedScore,
         Ledger!ScoreItem, Ledger!ValidMark, Ledger!ScoreLimit
<1>5. \A d, a : Ledger!Scored(d, a) = Scored(d, a)
  BY <1>4 DEF Scored, Ledger!Scored
<1>6. \A sheet : Ledger!TotalScore(sheet) = TotalScore(sheet)
  BY DEF TotalScore, Answered, MapThenSumSet, MapThenFoldSet,
         Ledger!TotalScore, Ledger!Answered, Ledger!MapThenSumSet,
         Ledger!MapThenFoldSet
<1>7. \A row, now : Ledger!TimeSpent(row, now) = TimeSpent(row, now)
  BY DEF TimeSpent, NoTime, Ledger!TimeSpent, Ledger!NoTime
<1>8. \A row, now, sheet :
          Ledger!CompletedRow(row, now, sheet) = CompletedRow(row, now, sheet)
  BY <1>6, <1>7 DEF CompletedRow, Ledger!CompletedRow
<1> QED BY <1>1, <1>2, <1>3, <1>5, <1>8

\* The insert of StartSession is Open.
LEMMA LedgerOpen ==
    ASSUME Inv, NEW r \in Request, StartCreate(r)
    PROVE  Ledger!Next \/ UNCHANGED <<sess, resp, calls>>
<1> DEFINE d == ctx[r].delivery
           u == ctx[r].user
<1>1. pc[r] = "start.create" /\ UNCHANGED <<resp, calls>>
  BY DEF StartCreate
<1>2. /\ d \in Delivery /\ u \in User /\ OpenRows(sess, d, u) = {}
      /\ ctx[r].count = Count(sess, d, u) /\ AttemptsLeft(d, ctx[r].count)
  BY <1>1 DEF Inv, RequestInv, Knows, ArgsKept, StartKnows, StartTx
<1>3. ctx[r].now \in Time
  BY DEF Inv, TypeOK, Locals
<1>4. CASE UNCHANGED sess
  BY <1>1, <1>4
<1>5. CASE ~UNCHANGED sess
  <2>1. PICK s \in SessionId :
          /\ sess[s] = Nil
          /\ sess' = [sess EXCEPT ![s] = NewRow(d, u, ctx[r].count, ctx[r].now)]
    BY <1>5 DEF StartCreate
  <2>2. Ledger!Open(s, d, u)
    BY <1>1, <1>2, <1>3, <2>1, LedgerQueries, LedgerRows DEF Ledger!Open
  <2> QED BY <1>2, <2>2 DEF Ledger!Next
<1> QED BY <1>4, <1>5

\* Beginning a provisioned session is Begin.
LEMMA LedgerBegin ==
    ASSUME Inv, NEW r \in Request, StartResume(r) PROVE Ledger!Next
<1> DEFINE s == ctx[r].id
<1>1. /\ pc[r] = "start.resume" /\ UNCHANGED <<resp, calls>>
      /\ sess' = [sess EXCEPT ![s] = BegunRow(ctx[r].row, ctx[r].now)]
  BY DEF StartResume
<1>2. /\ s \in SessionId /\ sess[s] = ctx[r].row /\ sess[s] # Nil
      /\ sess[s].status = "NOT_STARTED"
  BY <1>1 DEF Inv, RequestInv, Knows, ArgsKept, StartKnows, RowsOf, Rows
<1>3. ctx[r].now \in Time
  BY DEF Inv, TypeOK, Locals
<1>4. sess' = [sess EXCEPT ![s] = BegunRow(sess[s], ctx[r].now)]
  BY <1>1, <1>2
<1> HIDE DEF s
<1>5. Ledger!Begin(s)
  BY <1>1, <1>2, <1>3, <1>4, LedgerQueries, LedgerRows DEF Ledger!Begin
<1> QED BY <1>2, <1>5 DEF Ledger!Next

\* The upsert of SaveResponse is Answers; one that is rolled back changes nothing.
LEMMA LedgerAnswers ==
    ASSUME Inv, NEW r \in Request, SaveWrite(r)
    PROVE  Ledger!Next \/ UNCHANGED <<sess, resp, calls>>
<1> DEFINE s == ctx[r].id
           i == ctx[r].item
           a == ctx[r].data
<1>1. /\ pc[r] = "save.write" /\ UNCHANGED <<sess, calls>>
      /\ \/ resp' = [resp EXCEPT ![s][i] = [data |-> a, score |-> 0]]
         \/ resp' = resp
  BY DEF SaveWrite
<1>2. /\ s \in SessionId /\ i \in Item /\ a \in Answer
      /\ sess[s] # Nil /\ Active(sess[s])
      /\ i \in deliveryRow[sess[s].delivery].items
  BY <1>1 DEF Inv, RequestInv, Knows, ArgsKept, SessionKnows, SaveTx
<1> HIDE DEF s, i, a
<1>3. Ledger!Answers(s, i, a) \/ resp' = resp
  BY <1>1, <1>2, LedgerQueries DEF Ledger!Answers
<1> QED BY <1>1, <1>2, <1>3 DEF Ledger!Next

\* The commit of SubmitSession is Complete.
LEMMA LedgerComplete ==
    ASSUME Inv, NEW r \in Request, pc[r] = "submit.write", SubmitCommit(r),
           UNCHANGED calls
    PROVE  Ledger!Next
<1> DEFINE s == ctx[r].id
           sheet == Scored(sess[s].delivery, Data(resp[s]))
<1>1. /\ s \in SessionId /\ sess[s] # Nil /\ Active(sess[s])
      /\ resp' = [resp EXCEPT ![s] = sheet] /\ resp'[s] = sheet
      /\ sess' = [sess EXCEPT ![s] = CompletedRow(@, clock, resp'[s])]
  BY CommitEffect
<1>2. sess' = [sess EXCEPT ![s] = CompletedRow(@, clock, sheet)]
  BY <1>1
<1>3. clock \in Time
  BY DEF Inv, TypeOK
<1> HIDE DEF s
<1>4. Ledger!Complete(s)
  BY <1>1, <1>2, <1>3, LedgerQueries, LedgerRows DEF Ledger!Complete
<1> QED BY <1>1, <1>4 DEF Ledger!Next

\* Each notification is Tell.
LEMMA LedgerTell ==
    ASSUME Inv, NEW r \in Request, NEW ch \in Channel, NEW l,
           pc[r] \in Notifying, ch \in CallsDue(pc[r]), Call(r, ch, l)
    PROVE  Ledger!Next
<1> DEFINE s == ctx[r].id
<1>1. /\ s \in SessionId /\ sess[s] # Nil /\ Done(sess[s])
      /\ calls[ch][s] = 0
  BY DEF Inv, RequestInv, Knows, ArgsKept, ShowsFinalGrade, NotifierKnows
<1>2. calls' = [calls EXCEPT ![ch][s] = @ + 1] /\ UNCHANGED <<sess, resp>>
  BY DEF Call, db
<1>3. calls' = [calls EXCEPT ![ch][s] = 1]
  BY <1>1, <1>2 DEF Inv, TypeOK
<1> HIDE DEF s
<1>4. Ledger!Tell(ch, s)
  BY <1>1, <1>2, <1>3, LedgerQueries DEF Ledger!Tell
<1> QED BY <1>1, <1>4, LedgerQueries DEF Ledger!Next

\* Every step of the service is a step of the ledger or leaves it alone.
LEMMA LedgerStep ==
    ASSUME Inv, [Next]_vars
    PROVE  [Ledger!Next]_(Ledger!vars)
<1> SUFFICES Ledger!Next \/ UNCHANGED <<sess, resp, calls>>
  BY DEF Ledger!vars
<1>1. CASE Tick \/ Crash \/ UNCHANGED vars
  BY <1>1 DEF Tick, Crash, vars, db
<1>2. ASSUME NEW r \in Request, Arrive(r) \/ Abort(r)
      PROVE  UNCHANGED <<sess, resp, calls>>
  BY <1>2 DEF Arrive, ReceiveStart, ReceiveSave, ReceiveSubmit, ReceiveGet,
              Receive, Abort, db
<1>3. ASSUME NEW r \in Request,
             \/ StartLock(r) \/ StartRefused(r) \/ StartFindOpen(r)
             \/ StartFindNone(r) \/ StartCount(r) \/ SaveLock(r)
             \/ SaveRefused(r) \/ SubmitLock(r) \/ SubmitLoad(r)
             \/ GetRow(r) \/ GetResponses(r) \/ Reply(r)
      PROVE  UNCHANGED <<sess, resp, calls>>
  BY <1>3 DEF StartLock, StartRefused, StartFindOpen, StartFindNone,
              StartCount, SaveLock, SaveRefused, SubmitLock, SubmitLoad,
              GetRow, GetResponses, Reply, db
<1>4. ASSUME NEW r \in Request, SubmitWrite(r) \/ SubmitCommitLost(r)
      PROVE  Ledger!Next \/ UNCHANGED <<sess, resp, calls>>
  BY <1>4, LedgerComplete DEF SubmitWrite, SubmitCommitLost, db
<1>5. ASSUME NEW r \in Request,
             SubmitPublish(r) \/ SubmitDispatch(r) \/ SubmitGrade(r)
      PROVE  Ledger!Next
  <2>1. \/ pc[r] = "submit.publish" /\ Call(r, "publish", "submit.dispatch")
        \/ pc[r] = "submit.dispatch" /\ Call(r, "dispatch", "submit.grade")
        \/ pc[r] = "submit.grade" /\ Call(r, "grade", "submit.ok")
    BY <1>5 DEF SubmitPublish, SubmitDispatch, SubmitGrade
  <2>2. /\ "publish" \in CallsDue("submit.publish")
        /\ "dispatch" \in CallsDue("submit.dispatch")
        /\ "grade" \in CallsDue("submit.grade")
        /\ {"publish", "dispatch", "grade"} = Channel
        /\ {"submit.publish", "submit.dispatch", "submit.grade"} = Notifying
    BY DEF CallsDue, Channel, Notifying
  <2> QED BY <2>1, <2>2, LedgerTell
<1>6. ASSUME NEW r \in Request, StartCreate(r) \/ StartResume(r) \/ SaveWrite(r)
      PROVE  Ledger!Next \/ UNCHANGED <<sess, resp, calls>>
  BY <1>6, LedgerOpen, LedgerBegin, LedgerAnswers
<1> QED
  BY <1>1, <1>2, <1>3, <1>4, <1>5, <1>6 DEF Next, Fault, Step

\* The service with its locks, reads and faults implements the ledger, in
\* which each operation is one atomic step.
THEOREM ImplementsLedger == Spec => LedgerSpec
<1>1. Init => Ledger!Init
  BY DEF Init, Blank, Channel, Ledger!Init, Ledger!Blank, Ledger!Channel
<1>2. Inv /\ [Next]_vars => [Ledger!Next]_(Ledger!vars)
  BY LedgerStep
<1> QED BY <1>1, <1>2, Invariance, PTL DEF Spec, LedgerSpec, Ledger!Spec

\* No step of the service changes the row or the responses of a completed
\* session.
THEOREM CompletionFinal == Spec => CompletedIsFinal
<1> DEFINE Final == \A s \in SessionId : sess[s] # Nil /\ Done(sess[s]) =>
                        sess'[s] = sess[s] /\ resp'[s] = resp[s]
<1>1. ASSUME TypeOK, Ledger!Next PROVE Final
  <2> SUFFICES ASSUME NEW t \in SessionId, sess[t] # Nil, Done(sess[t])
               PROVE  sess'[t] = sess[t] /\ resp'[t] = resp[t]
    OBVIOUS
  <2>1. PICK s \in SessionId :
          \/ \E d \in Delivery, u \in User : Ledger!Open(s, d, u)
          \/ Ledger!Begin(s)
          \/ \E i \in Item, a \in Answer : Ledger!Answers(s, i, a)
          \/ Ledger!Complete(s)
          \/ \E c \in Ledger!Channel : Ledger!Tell(c, s)
    BY <1>1 DEF Ledger!Next
  <2>2. CASE \E d \in Delivery, u \in User : Ledger!Open(s, d, u)
    BY <1>1, <2>2 DEF Ledger!Open, TypeOK
  <2>3. CASE Ledger!Begin(s)
    BY <1>1, <2>3 DEF Ledger!Begin, TypeOK, Done
  <2>4. CASE \E i \in Item, a \in Answer : Ledger!Answers(s, i, a)
    BY <1>1, <2>4 DEF Ledger!Answers, Ledger!Active, TypeOK, Done
  <2>5. CASE Ledger!Complete(s)
    BY <1>1, <2>5 DEF Ledger!Complete, Ledger!Active, TypeOK, Done
  <2>6. CASE \E c \in Ledger!Channel : Ledger!Tell(c, s)
    BY <2>6 DEF Ledger!Tell
  <2> QED BY <2>1, <2>2, <2>3, <2>4, <2>5, <2>6
<1>2. Inv /\ [Next]_vars => [Final]_vars
  BY <1>1, LedgerStep DEF Inv, Ledger!vars
<1> QED BY <1>2, Invariance, PTL DEF Spec, CompletedIsFinal

-----------------------------------------------------------------------------

\* A step to another label does not make its request a writer of answers.
LEMMA NotSaving ==
    ASSUME TypeOK, NEW r \in Request, NEW l, NEW c, Goto(r, l, c),
           l # "save.write", NEW s, ~Saving(s)
    PROVE  ~Saving(s)'
<1>1. \A q \in Request : q # r => pc'[q] = pc[q] /\ ctx'[q] = ctx[q]
  BY GotoEffect
<1>2. pc'[r] = l
  BY GotoEffect
<1> QED BY <1>1, <1>2 DEF Saving

\* No step admits a save, or changes an answer, past the time limit.
LEMMA SealedStep ==
    ASSUME Inv, [Next]_vars, NEW s \in SessionId, Overdue(s), ~Saving(s)
    PROVE  Data(resp'[s]) = Data(resp[s]) /\ ~Saving(s)'
<1>0. TypeOK
  BY DEF Inv
<1>1. CASE Tick \/ UNCHANGED vars
  BY <1>1 DEF Tick, vars, db, Saving
<1>2. CASE Crash
  BY <1>2 DEF Crash, db, Saving
<1>3. ASSUME NEW r \in Request,
             Arrive(r) \/ StartFindOpen(r) \/ StartLock(r) \/ StartRefused(r)
             \/ StartFindNone(r) \/ StartResume(r) \/ StartCount(r)
             \/ StartCreate(r) \/ SaveRefused(r) \/ SubmitLock(r)
             \/ SubmitLoad(r) \/ SubmitPublish(r) \/ SubmitDispatch(r)
             \/ SubmitGrade(r) \/ GetRow(r) \/ GetResponses(r) \/ Reply(r)
             \/ Abort(r)
      PROVE  Data(resp'[s]) = Data(resp[s]) /\ ~Saving(s)'
  <2>1. CASE Arrive(r)
    <3>1. \E l, c : l # "save.write" /\ Goto(r, l, c) /\ UNCHANGED resp
      BY <2>1 DEF Arrive, ReceiveStart, ReceiveSave, ReceiveSubmit, ReceiveGet,
                  Receive, db
    <3> QED BY <1>0, <3>1, NotSaving
  <2>2. CASE StartFindOpen(r)
    <3>1. \E l, c : l # "save.write" /\ Goto(r, l, c) /\ UNCHANGED resp
      BY <2>2 DEF StartFindOpen, db
    <3> QED BY <1>0, <3>1, NotSaving
  <2>3. CASE StartLock(r) \/ StartRefused(r) \/ StartFindNone(r)
    <3>1. \E l, c : l # "save.write" /\ Goto(r, l, c) /\ UNCHANGED resp
      BY <2>3 DEF StartLock, StartRefused, StartFindNone, Return, db
    <3> QED BY <1>0, <3>1, NotSaving
  <2>4. CASE StartResume(r) \/ StartCount(r) \/ StartCreate(r)
    <3>1. \E l, c : l # "save.write" /\ Goto(r, l, c) /\ UNCHANGED resp
      BY <2>4 DEF StartResume, StartCount, StartCreate, Return, db
    <3> QED BY <1>0, <3>1, NotSaving
  <2>5. CASE SaveRefused(r) \/ Reply(r) \/ Abort(r)
    <3>1. \E l, c : l # "save.write" /\ Goto(r, l, c) /\ UNCHANGED resp
      BY <2>5 DEF SaveRefused, Reply, Abort, Return, db
    <3> QED BY <1>0, <3>1, NotSaving
  <2>6. CASE SubmitLock(r) \/ SubmitLoad(r)
    <3>1. \E l, c : l # "save.write" /\ Goto(r, l, c) /\ UNCHANGED resp
      BY <2>6 DEF SubmitLock, SubmitLoad, Return, db
    <3> QED BY <1>0, <3>1, NotSaving
  <2>7. CASE SubmitPublish(r) \/ SubmitDispatch(r) \/ SubmitGrade(r)
    <3>1. \E l, c : l # "save.write" /\ Goto(r, l, c) /\ UNCHANGED resp
      BY <2>7 DEF SubmitPublish, SubmitDispatch, SubmitGrade, Call, db
    <3> QED BY <1>0, <3>1, NotSaving
  <2>8. CASE GetRow(r) \/ GetResponses(r)
    <3>1. \E l, c : l # "save.write" /\ Goto(r, l, c) /\ UNCHANGED resp
      BY <2>8 DEF GetRow, GetResponses, Return, db
    <3> QED BY <1>0, <3>1, NotSaving
  <2> QED BY <1>3, <2>1, <2>2, <2>3, <2>4, <2>5, <2>6, <2>7, <2>8
<1>4. ASSUME NEW r \in Request, SaveLock(r)
      PROVE  Data(resp'[s]) = Data(resp[s]) /\ ~Saving(s)'
  <2>1. pc[r] = "save.lock" /\ Goto(r, "save.write", ctx[r]) /\ UNCHANGED resp
    BY <1>4 DEF SaveLock, db
  <2>2. ctx[r].id # s
    BY <1>4 DEF SaveLock, Accepted, InTime, Overdue
  <2>3. \A q \in Request : q # r => pc'[q] = pc[q] /\ ctx'[q] = ctx[q]
    BY <1>0, <2>1, GotoEffect
  <2>4. ctx'[r] = ctx[r]
    BY <1>0, <2>1, GotoEffect
  <2> QED BY <2>1, <2>2, <2>3, <2>4 DEF Saving
<1>5. ASSUME NEW r \in Request, SaveWrite(r)
      PROVE  Data(resp'[s]) = Data(resp[s]) /\ ~Saving(s)'
  <2>1. pc[r] = "save.write" /\ Goto(r, "idle", NoLocals)
    BY <1>5 DEF SaveWrite, Return
  <2>2. ctx[r].id # s
    BY <2>1 DEF Saving
  <2>3. resp'[s] = resp[s]
    BY <1>0, <1>5, <2>2 DEF SaveWrite, TypeOK
  <2> QED BY <1>0, <2>1, <2>3, NotSaving
<1>6. ASSUME NEW r \in Request, SubmitWrite(r) \/ SubmitCommitLost(r)
      PROVE  Data(resp'[s]) = Data(resp[s]) /\ ~Saving(s)'
  <2>1. \E l, c : l # "save.write" /\ Goto(r, l, c)
    BY <1>6 DEF SubmitWrite, SubmitCommitLost, Return
  <2>2. CASE UNCHANGED resp
    BY <1>0, <2>1, <2>2, NotSaving
  <2>3. CASE pc[r] = "submit.write" /\ SubmitCommit(r)
    <3> DEFINE t == ctx[r].id
    <3>1. /\ t \in SessionId /\ sess[t] \in SessionRow
          /\ resp'[t] = Scored(sess[t].delivery, Data(resp[t]))
          /\ \A x \in SessionId : x # t => resp'[x] = resp[x]
      BY <2>3, CommitEffect
    <3>2. /\ sess[t].delivery \in Delivery
          /\ Data(resp[t]) \in [Item -> Answer \cup {Nil}]
      BY <1>0, <3>1, DataType DEF TypeOK, SessionRow
    <3>3. Data(resp'[t]) = Data(resp[t])
      BY <3>1, <3>2, ScoredType
    <3> HIDE DEF t
    <3>4. Data(resp'[s]) = Data(resp[s])
      BY <3>1, <3>3
    <3> QED BY <1>0, <2>1, <3>4, NotSaving
  <2> QED BY <1>6, <2>2, <2>3 DEF SubmitWrite, SubmitCommitLost, db
<1> QED
  BY <1>1, <1>2, <1>3, <1>4, <1>5, <1>6 DEF Next, Fault, Step

\* SaveResponse's check of the time limit seals the answers of an overdue
\* session once the saves admitted before the deadline have been written.
THEOREM DeadlineSeals == Spec => SealedAfterDeadline
<1> DEFINE Sealed == \A s \in SessionId : Overdue(s) /\ ~Saving(s) =>
                         Data(resp'[s]) = Data(resp[s]) /\ ~Saving(s)'
<1>1. Inv /\ [Next]_vars => [Sealed]_vars
  BY SealedStep
<1> QED BY <1>1, Invariance, PTL DEF Spec, SealedAfterDeadline
=============================================================================
