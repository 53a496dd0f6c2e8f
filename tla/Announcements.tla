--------------------------- MODULE Announcements ----------------------------
(***************************************************************************)
(* What the webhook service promises to receivers: an event that was       *)
(* taken on is announced to each of them at most once, and never after it  *)
(* was given up or finished.  It does not promise that it is announced at  *)
(* all: the queue is not durable.                                          *)
(***************************************************************************)
EXTENDS Naturals

CONSTANTS Event, Config

VARIABLES
    stage,    \* stage[e]: "new", "open" or "closed"
    told      \* told[e][c]: requests about e that reached receiver c

vars == <<stage, told>>

Init ==
    /\ stage = [e \in Event |-> "new"]
    /\ told = [e \in Event |-> [c \in Config |-> 0]]

\* The event is taken on, or turned away for good.
Accept(e) ==
    /\ stage[e] = "new"
    /\ \E s \in {"open", "closed"} : stage' = [stage EXCEPT ![e] = s]
    /\ UNCHANGED told

Tell(e, c) ==
    /\ stage[e] = "open"
    /\ told[e][c] = 0
    /\ told' = [told EXCEPT ![e][c] = 1]
    /\ UNCHANGED stage

\* One event is finished, or all of them are lost with the process.
Close(E) ==
    /\ \A e \in E : stage[e] = "open"
    /\ stage' = [e \in Event |-> IF e \in E THEN "closed" ELSE stage[e]]
    /\ UNCHANGED told

Next ==
    \/ \E e \in Event : Accept(e) \/ \E c \in Config : Tell(e, c)
    \/ \E E \in SUBSET Event : Close(E)

Spec == Init /\ [][Next]_vars
=============================================================================
