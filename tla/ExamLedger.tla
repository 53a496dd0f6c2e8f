----------------------------- MODULE ExamLedger -----------------------------
(***************************************************************************)
(* What session handling promises to candidates and to the systems that    *)
(* are told about results, each operation in one atomic step: attempts are *)
(* opened one at a time and numbered, answers change only while the        *)
(* session is in progress, completion scores exactly the answers on the    *)
(* sheet and is final, and each channel hears of it at most once.          *)
(*                                                                         *)
(* The ledger does not promise that answers stop at the time limit (see    *)
(* SealedAfterDeadline in SessionService) nor that a notification is made. *)
(***************************************************************************)
EXTENDS ExamData

\* Who hears of a completed session: EventBus, webhook queue, LTI grade sync.
Channel == {"publish", "dispatch", "grade"}

VARIABLES
    sess,    \* test_sessions
    resp,    \* item_responses, one sheet per session
    calls    \* calls[c][s]: how often channel c was called for session s

vars == <<sess, resp, calls>>

Init ==
    /\ sess = seed
    /\ resp = [s \in SessionId |-> Blank]
    /\ calls = [c \in Channel |-> [s \in SessionId |-> 0]]

Open(s, d, u) ==
    /\ sess[s] = Nil
    /\ OpenRows(sess, d, u) = {}
    /\ AttemptsLeft(d, Count(sess, d, u))
    /\ \E now \in Time :
           sess' = [sess EXCEPT ![s] = NewRow(d, u, Count(sess, d, u), now)]
    /\ UNCHANGED <<resp, calls>>

Begin(s) ==
    /\ sess[s] # Nil /\ sess[s].status = "NOT_STARTED"
    /\ \E now \in Time : sess' = [sess EXCEPT ![s] = BegunRow(@, now)]
    /\ UNCHANGED <<resp, calls>>

Answers(s, i, a) ==
    /\ sess[s] # Nil /\ Active(sess[s])
    /\ i \in deliveryRow[sess[s].delivery].items
    /\ resp' = [resp EXCEPT ![s][i] = [data |-> a, score |-> 0]]
    /\ UNCHANGED <<sess, calls>>

Complete(s) ==
    /\ sess[s] # Nil /\ Active(sess[s])
    /\ LET sheet == Scored(sess[s].delivery, Data(resp[s])) IN
       /\ resp' = [resp EXCEPT ![s] = sheet]
       /\ \E now \in Time :
              sess' = [sess EXCEPT ![s] = CompletedRow(@, now, sheet)]
    /\ UNCHANGED calls

Tell(c, s) ==
    /\ sess[s] # Nil /\ Done(sess[s])
    /\ calls[c][s] = 0
    /\ calls' = [calls EXCEPT ![c][s] = 1]
    /\ UNCHANGED <<sess, resp>>

Next ==
    \/ \E s \in SessionId :
        \/ \E d \in Delivery, u \in User : Open(s, d, u)
        \/ Begin(s)
        \/ \E i \in Item, a \in Answer : Answers(s, i, a)
        \/ Complete(s)
        \/ \E c \in Channel : Tell(c, s)

Spec == Init /\ [][Next]_vars
=============================================================================
