-------------------------- MODULE MCSessionService --------------------------
(***************************************************************************)
(* Small instances of SessionService, each with one delivery.              *)
(***************************************************************************)
EXTENDS SessionService, TLC

CONSTANTS u1, u2, d1, d2, g1, g2, i1, yes, s1, s2, s3

\* Two attempts, no time bounds: the instance for three racing requests.
Retakable ==
    (d1 :> [active |-> TRUE, start |-> NoTime, end |-> NoTime,
            maxAttempts |-> 2, timeLimit |-> 1, groups |-> {},
            items |-> {i1}])

\* Open at 1 for the members of a group, one attempt (max_attempts is left at
\* zero) of one second.
TimedFor(g) ==
    [active |-> TRUE, start |-> 1, end |-> 1, maxAttempts |-> 0,
     timeLimit |-> 1, groups |-> {g}, items |-> {i1}]

Timed == (d1 :> TimedFor(g1) @@ d2 :> TimedFor(g2))

Items == [i \in Item |-> [right |-> {yes}, maxScore |-> 2]]

\* The weight of the item is unusable in d2: its answer cannot be scored there.
Weights == [d \in Delivery |-> [i \in Item |-> IF d = d1 THEN 3 ELSE 0]]

Members == [u \in User |-> IF u = u2 THEN {g2} ELSE {}]

SeedRow(d, u, status, startedAt) ==
    [delivery |-> d, user |-> u, attempt |-> 1, status |-> status,
     startedAt |-> startedAt, spent |-> 0, total |-> 0]

NoSeed == [s \in SessionId |-> Nil]

\* A first attempt that waits to be begun.
Waits == [NoSeed EXCEPT ![s1] = SeedRow(d1, u1, "NOT_STARTED", NoTime)]

\* s1 was started by a server whose clock is ahead, and its owner has left the
\* group; s2 waits to be begun.
Running ==
    [NoSeed EXCEPT ![s1] = SeedRow(d1, u1, "IN_PROGRESS", 1),
                   ![s2] = SeedRow(d2, u2, "NOT_STARTED", NoTime)]

\* Requests, and the identifiers that a new session may draw.
RaceSymmetry == Permutations(Request) \cup Permutations({s2, s3})
=============================================================================
