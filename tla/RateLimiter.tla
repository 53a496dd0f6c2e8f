---------------------------- MODULE RateLimiter ----------------------------
(***************************************************************************)
(* internal/middleware/rate_limit.go: a fixed-window counter per client    *)
(* address in a map of bounded size.  The mutex makes each request and     *)
(* each cleanup one atomic step; the clock is read inside it.              *)
(***************************************************************************)
EXTENDS Integers, FiniteSets, FiniteSetsExt, Sequences

CONSTANTS
    Client,        \* client addresses
    Limit,         \* requests per window
    Window,        \* window length in clock ticks
    MaxTracked,    \* maxTrackedRateLimitClients
    MaxTime,       \* bound on the clock
    MaxPassed,     \* bound on the requests let through in a behaviour
    MaxCount       \* bound on the counter of a window

ASSUME LimiterAssumption ==
    /\ IsFiniteSet(Client)
    /\ Limit \in Nat \ {0} /\ Window \in Nat \ {0} /\ MaxTracked \in Nat \ {0}
    /\ MaxTime \in Nat /\ MaxPassed \in Nat /\ MaxCount \in Nat

VARIABLES
    visitors,   \* the map: lastSeen and count of the tracked clients
    now,        \* clock
    passed,     \* passed[c]: the times at which requests of c were let through
    evicted     \* clients whose entry was evicted while its window was open

vars == <<visitors, now, passed, evicted>>

Time == 0 .. MaxTime
Tracked == DOMAIN visitors

Init ==
    /\ visitors = << >>
    /\ now = 0
    /\ passed = [c \in Client |-> << >>]
    /\ evicted = {}

WindowOver(v) == now - v.lastSeen > Window

Fresh == [lastSeen |-> now, count |-> 1]
Counted(v) == [v EXCEPT !.count = @ + 1]

Put(map, c, v) == [k \in DOMAIN map \cup {c} |-> IF k = c THEN v ELSE map[k]]
Without(map, K) == [k \in DOMAIN map \ K |-> map[k]]

AllPassed == MapThenSumSet(LAMBDA k : Len(passed[k]), Client)

Pass(c) ==
    /\ AllPassed < MaxPassed
    /\ passed' = [passed EXCEPT ![c] = Append(@, now)]

SameWindow(c) == c \in Tracked /\ ~WindowOver(visitors[c])

Full == Cardinality(Tracked) >= MaxTracked

\* A new client, or one whose window is over, opens a window.
NewWindow(c) ==
    /\ ~SameWindow(c)
    /\ c \in Tracked \/ ~Full
    /\ visitors' = Put(visitors, c, Fresh)
    /\ Pass(c)
    /\ UNCHANGED <<now, evicted>>

\* A new client in a full map takes the place of an arbitrary entry.
Evict(c) ==
    /\ c \notin Tracked /\ Full
    /\ \E victim \in Tracked :
        /\ visitors' = Put(Without(visitors, {victim}), c, Fresh)
        /\ evicted' = evicted \cup ({victim} \cap {k \in Client : SameWindow(k)})
    /\ Pass(c)
    /\ UNCHANGED now

\* Within the window every request counts, refused or not.
InWindow(c) ==
    /\ SameWindow(c)
    /\ visitors[c].count < Limit
    /\ visitors' = Put(visitors, c, Counted(visitors[c]))
    /\ Pass(c)
    /\ UNCHANGED <<now, evicted>>

\* Mutant: a refused request renews the window.
RefuseRenewing(c) ==
    /\ SameWindow(c)
    /\ visitors[c].count >= Limit
    /\ visitors[c].count < MaxCount
    /\ visitors' = Put(visitors, c, [Counted(visitors[c]) EXCEPT !.lastSeen = now])
    /\ UNCHANGED <<now, passed, evicted>>

Refuse(c) ==
    /\ SameWindow(c)
    /\ visitors[c].count >= Limit
    /\ visitors[c].count < MaxCount
    /\ visitors' = Put(visitors, c, Counted(visitors[c]))
    /\ UNCHANGED <<now, passed, evicted>>

\* Mutant: the cleanup drops open windows too.
CleanupAll ==
    /\ visitors' = << >>
    /\ UNCHANGED <<now, passed, evicted>>

\* The minute ticker: every entry whose window is over goes.
Cleanup ==
    /\ \E c \in Tracked : WindowOver(visitors[c])
    /\ visitors' = Without(visitors, {c \in Tracked : WindowOver(visitors[c])})
    /\ UNCHANGED <<now, passed, evicted>>

Tick == now < MaxTime /\ now' = now + 1 /\ UNCHANGED <<visitors, passed, evicted>>

-----------------------------------------------------------------------------

\* A client that was never evicted from the map gets fewer than twice the
\* limit through in any interval as long as the window: of any 2 * Limit
\* requests that pass in a row, the last comes more than a window after the
\* first.  The interval meets two fixed windows at most, and the request that
\* opened the first lies outside.
BurstBounded ==
    \A c \in Client \ evicted : \A i, j \in DOMAIN passed[c] :
        j = i + 2 * Limit - 1 => passed[c][j] - passed[c][i] > Window

\* A 429 is deserved: the middleware refuses a client only when it let Limit
\* of its requests through during the window length before, so refused
\* requests do not postpone the client's next window.
RefusedOnlyOverLimit ==
    [][\A c \in Client : Refuse(c) =>
           \E i \in DOMAIN passed[c] :
               i = Len(passed[c]) - Limit + 1 /\ now - passed[c][i] <= Window]_vars
=============================================================================
