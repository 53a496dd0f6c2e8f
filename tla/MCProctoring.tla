---------------------------- MODULE MCProctoring ----------------------------
(***************************************************************************)
(* One delivery with one item; one candidate's session waits to be begun,  *)
(* the other candidate opens a session of their own.                       *)
(***************************************************************************)
EXTENDS Proctoring, TLC

CONSTANTS u1, u2, d1, i1, i2, yes, s1, s2

Deliveries ==
    (d1 :> [active |-> TRUE, start |-> NoTime, end |-> NoTime,
            maxAttempts |-> 1, timeLimit |-> 0, groups |-> {},
            items |-> Item])

Items == [i \in Item |-> [right |-> {yes}, maxScore |-> 2]]
Weights == [d \in Delivery |-> [i \in Item |-> 3]]
Members == [u \in User |-> {}]

Waits ==
    [s \in SessionId |->
        IF s = s1
        THEN [delivery |-> d1, user |-> u1, attempt |-> 1,
              status |-> "NOT_STARTED", startedAt |-> NoTime, spent |-> 0,
              total |-> 0]
        ELSE Nil]

Reports ==
    {[type |-> "TAB_SWITCH", seconds |-> 29], [type |-> "COPY_ATTEMPT", seconds |-> 0],
     [type |-> "FULLSCREEN_EXIT", seconds |-> 86401]}

ReporterSymmetry == Permutations(Reporter)
=============================================================================
