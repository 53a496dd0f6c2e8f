---------------------------- MODULE GatewayProofs ---------------------------
(***************************************************************************)
(* BurstBounded, RefusedOnlyOverLimit and TokenHonoured for any number of  *)
(* clients, any limit, window, map size and token lifetime.                *)
(*                                                                         *)
(* The argument for the limiter: the counter of a tracked client says how  *)
(* many of its requests passed last, up to the limit, and lastSeen is when *)
(* the first of them did.  As long as a client is not evicted, the request *)
(* that passed Limit places before the window opened lies more than a      *)
(* window before it, because it belongs to an earlier window.  So the      *)
(* request 2 * Limit - 1 places before the latest one lies outside too.    *)
(***************************************************************************)
EXTENDS Gateway, SequenceTheorems, TLAPS

Visitor == [lastSeen: Time, count: Nat \ {0}]

LimiterType ==
    /\ now \in Time
    /\ passed \in [Client -> Seq(Time)]
    /\ DOMAIN visitors \subseteq Client
    /\ \A c \in DOMAIN visitors : visitors[c] \in Visitor

\* Requests pass in the order of the clock.
InOrder(c) ==
    /\ \A i, j \in DOMAIN passed[c] : i <= j => passed[c][i] <= passed[c][j]
    /\ \A i \in DOMAIN passed[c] : passed[c][i] <= now

\* The place in passed[c] of the request that opened the window of c.
Opened(c) ==
    Len(passed[c]) + 1 - (IF visitors[c].count < Limit THEN visitors[c].count ELSE Limit)

\* The counter and lastSeen of a tracked client agree with what passed.
Counter(c) ==
    c \in Tracked =>
        Opened(c) \in DOMAIN passed[c] /\ passed[c][Opened(c)] = visitors[c].lastSeen

\* What lies Limit places before an open window is older than a window, and so
\* is what lies Limit places before the next request of an untracked client.
Apart(c) ==
    /\ c \in Tracked => \A i \in DOMAIN passed[c] :
           i <= Opened(c) - Limit => visitors[c].lastSeen - passed[c][i] > Window
    /\ c \notin Tracked => \A i \in DOMAIN passed[c] :
           i <= Len(passed[c]) + 1 - Limit => now - passed[c][i] > Window

Spread(c) ==
    \A i, j \in DOMAIN passed[c] :
        j = i + 2 * Limit - 1 => passed[c][j] - passed[c][i] > Window

ClientInv(c) ==
    InOrder(c) /\ Counter(c) /\ (c \notin evicted => Apart(c) /\ Spread(c))

LimiterInv == LimiterType /\ \A c \in Client : ClientInv(c)

\* The token of a launch is the one that GenerateJWT made then.
TokenInv ==
    /\ token = [c \in Client |-> token[c]] /\ launched = [c \in Client |-> launched[c]]
    /\ \A c \in Client : token[c] # Nil =>
        /\ launched[c] \in Time /\ launched[c] <= now
        /\ token[c].roles = {"STUDENT"} /\ token[c].proper
        /\ token[c].iat = launched[c] /\ token[c].exp = launched[c] + TTL

Inv == LimiterInv /\ TokenInv

-----------------------------------------------------------------------------
(* One client.                                                             *)

\* The ranges that the arithmetic below is about.
LEMMA Ranges ==
    ASSUME LimiterType, NEW c \in Client
    PROVE  /\ now \in Int /\ Limit \in Nat \ {0} /\ Window \in Nat \ {0}
           /\ Len(passed[c]) \in Nat /\ DOMAIN passed[c] = 1 .. Len(passed[c])
           /\ \A i \in DOMAIN passed[c] : passed[c][i] \in Int
           /\ c \in Tracked => /\ visitors[c].lastSeen \in Int
                              /\ visitors[c].count \in Nat \ {0}
                              /\ Opened(c) \in Int
                              /\ Opened(c) >= Len(passed[c]) + 1 - Limit
<1>1. passed[c] \in Seq(Time)
  BY DEF LimiterType
<1>2. /\ Len(passed[c]) \in Nat /\ DOMAIN passed[c] = 1 .. Len(passed[c])
      /\ \A i \in DOMAIN passed[c] : passed[c][i] \in Time
  BY <1>1
<1>3. now \in Int /\ Limit \in Nat \ {0} /\ Window \in Nat \ {0} /\ Time \subseteq Int
  BY LimiterAssumption DEF LimiterType, Time
<1>4. c \in Tracked => visitors[c].lastSeen \in Time /\ visitors[c].count \in Nat \ {0}
  BY DEF LimiterType, Tracked, Visitor
<1>5. c \in Tracked => Opened(c) \in Int /\ Opened(c) >= Len(passed[c]) + 1 - Limit
  BY <1>2, <1>3, <1>4 DEF Opened
<1> QED BY <1>2, <1>3, <1>4, <1>5

\* A request of c passes.
LEMMA PassEffect ==
    ASSUME LimiterType, NEW c \in Client, Pass(c)
    PROVE  /\ passed' \in [Client -> Seq(Time)]
           /\ Len(passed'[c]) = Len(passed[c]) + 1
           /\ DOMAIN passed'[c] = 1 .. Len(passed[c]) + 1
           /\ passed'[c][Len(passed[c]) + 1] = now
           /\ \A i \in DOMAIN passed[c] : passed'[c][i] = passed[c][i]
           /\ \A k \in Client : k # c => passed'[k] = passed[k]
<1>1. passed[c] \in Seq(Time) /\ now \in Time
  BY DEF LimiterType
<1>2. PICK Q : Q = Append(passed[c], now)
  OBVIOUS
<1>3. /\ Q \in Seq(Time) /\ Len(Q) = Len(passed[c]) + 1
      /\ DOMAIN Q = 1 .. Len(passed[c]) + 1
      /\ Q[Len(passed[c]) + 1] = now
      /\ \A i \in DOMAIN passed[c] : Q[i] = passed[c][i]
  BY <1>1, <1>2
<1>4. passed' = [passed EXCEPT ![c] = Q]
  BY <1>2 DEF Pass
<1> QED BY <1>3, <1>4 DEF LimiterType

\* Nothing happens to client k.
LEMMA Frame ==
    ASSUME NEW k \in Client, ClientInv(k), now' = now, passed'[k] = passed[k],
           k \in Tracked' <=> k \in Tracked,
           k \in Tracked => visitors'[k] = visitors[k],
           k \notin evicted' => k \notin evicted
    PROVE  ClientInv(k)'
<1>1. k \in Tracked => Opened(k)' = Opened(k)
  BY DEF Opened
<1> QED
  BY <1>1 DEF ClientInv, InOrder, Counter, Apart, Spread

\* The entry of k goes, its window being over or the client being counted as
\* evicted.
LEMMA Dropped ==
    ASSUME LimiterType, NEW k \in Client, ClientInv(k), now' = now,
           passed'[k] = passed[k], k \in Tracked, k \notin Tracked',
           k \in evicted' \/ (k \notin evicted /\ WindowOver(visitors[k]))
    PROVE  ClientInv(k)'
<1>1. InOrder(k)' /\ Counter(k)'
  BY DEF ClientInv, InOrder, Counter
<1>2. ASSUME k \notin evicted' PROVE Apart(k)' /\ Spread(k)'
  <2>1. /\ Spread(k) /\ InOrder(k) /\ Opened(k) \in DOMAIN passed[k]
        /\ passed[k][Opened(k)] = visitors[k].lastSeen
    BY <1>2 DEF ClientInv, Counter
  <2>2. now - passed[k][Opened(k)] > Window
    BY <1>2, <2>1 DEF WindowOver
  <2>3. ASSUME NEW i \in DOMAIN passed[k], i <= Len(passed[k]) + 1 - Limit
        PROVE  now - passed[k][i] > Window
    <3>1. i <= Opened(k)
      BY <2>3, Ranges
    <3>2. passed[k][i] <= passed[k][Opened(k)]
      BY <2>1, <3>1 DEF InOrder
    <3> QED BY <2>1, <2>2, <3>2, Ranges
  <2> QED BY <2>1, <2>3 DEF Apart, Spread
<1> QED BY <1>1, <1>2 DEF ClientInv

\* What lies Limit places before a request that opens a window is older than
\* the window.
LEMMA BeforeWindow ==
    ASSUME LimiterType, NEW c \in Client, ClientInv(c), ~SameWindow(c),
           c \notin evicted, NEW i \in DOMAIN passed[c],
           i <= Len(passed[c]) + 1 - Limit
    PROVE  now - passed[c][i] > Window
<1>1. CASE c \notin Tracked
  BY <1>1 DEF ClientInv, Apart
<1>2. CASE c \in Tracked
  <2>1. /\ InOrder(c) /\ Opened(c) \in DOMAIN passed[c]
        /\ now - passed[c][Opened(c)] > Window
    BY <1>2 DEF ClientInv, Counter, SameWindow, WindowOver
  <2>2. i <= Opened(c)
    BY <1>2, Ranges
  <2>3. passed[c][i] <= passed[c][Opened(c)]
    BY <2>1, <2>2 DEF InOrder
  <2> QED BY <2>1, <2>3, Ranges, SMTT(30)
<1> QED BY <1>1, <1>2

\* A request that passes comes last.
LEMMA PassInOrder ==
    ASSUME LimiterType, NEW c \in Client, InOrder(c), Pass(c), now' = now
    PROVE  InOrder(c)'
<1> DEFINE n == Len(passed[c])
<1>1. /\ n \in Nat /\ DOMAIN passed[c] = 1 .. n /\ now \in Int
      /\ \A i \in DOMAIN passed[c] : passed[c][i] \in Int
  BY Ranges
<1>2. /\ DOMAIN passed'[c] = 1 .. n + 1 /\ passed'[c][n + 1] = now
      /\ \A i \in DOMAIN passed[c] : passed'[c][i] = passed[c][i]
  BY PassEffect
<1> HIDE DEF n
<1>3. \A i \in DOMAIN passed'[c] : passed'[c][i] <= now
  BY <1>1, <1>2 DEF InOrder
<1>4. \A i, j \in DOMAIN passed'[c] : i <= j => passed'[c][i] <= passed'[c][j]
  <2> SUFFICES ASSUME NEW i \in 1 .. n + 1, NEW j \in 1 .. n + 1, i <= j
               PROVE  passed'[c][i] <= passed'[c][j]
    BY <1>2
  <2>1. CASE j = n + 1
    BY <1>2, <1>3, <2>1
  <2>2. CASE j # n + 1
    <3>1. i \in DOMAIN passed[c] /\ j \in DOMAIN passed[c]
      BY <1>1, <2>2
    <3> QED BY <1>2, <3>1 DEF InOrder
  <2> QED BY <2>1, <2>2
<1> QED BY <1>3, <1>4 DEF InOrder

\* A new request does not crowd those before it when the one that lies
\* 2 * Limit - 1 places before it is older than the window.
LEMMA PassSpread ==
    ASSUME LimiterType, NEW c \in Client, Pass(c), Spread(c),
           \A i \in DOMAIN passed[c] :
               i = Len(passed[c]) + 2 - 2 * Limit => now - passed[c][i] > Window
    PROVE  Spread(c)'
<1> DEFINE n == Len(passed[c])
<1>1. /\ n \in Nat /\ DOMAIN passed[c] = 1 .. n /\ Limit \in Nat \ {0}
  BY Ranges
<1>2. /\ DOMAIN passed'[c] = 1 .. n + 1 /\ passed'[c][n + 1] = now
      /\ \A i \in DOMAIN passed[c] : passed'[c][i] = passed[c][i]
  BY PassEffect
<1>3. \A i \in DOMAIN passed[c] : i = n + 2 - 2 * Limit => now - passed[c][i] > Window
  OBVIOUS
<1> HIDE DEF n
<1> SUFFICES ASSUME NEW i \in 1 .. n + 1, NEW j \in 1 .. n + 1, j = i + 2 * Limit - 1
             PROVE  passed'[c][j] - passed'[c][i] > Window
  BY <1>2 DEF Spread
<1>4. i \in DOMAIN passed[c]
  BY <1>1
<1>5. CASE j = n + 1
  <2>1. i = n + 2 - 2 * Limit
    BY <1>1, <1>5
  <2> QED BY <1>2, <1>3, <1>4, <1>5, <2>1
<1>6. CASE j # n + 1
  <2>1. j \in DOMAIN passed[c]
    BY <1>1, <1>6
  <2> QED BY <1>2, <1>4, <2>1 DEF Spread
<1> QED BY <1>5, <1>6

\* A request opens a window.
LEMMA OpensWindow ==
    ASSUME LimiterType, NEW c \in Client, ClientInv(c), ~SameWindow(c), Pass(c),
           now' = now, c \in Tracked', visitors'[c] = Fresh,
           c \notin evicted' => c \notin evicted
    PROVE  ClientInv(c)'
<1> DEFINE n == Len(passed[c])
<1>1. /\ n \in Nat /\ DOMAIN passed[c] = 1 .. n /\ Limit \in Nat \ {0} /\ now \in Int
  BY Ranges
<1>2. /\ Len(passed'[c]) = n + 1
      /\ DOMAIN passed'[c] = 1 .. n + 1 /\ passed'[c][n + 1] = now
      /\ \A i \in DOMAIN passed[c] : passed'[c][i] = passed[c][i]
  BY PassEffect
<1>3. visitors'[c].lastSeen = now /\ visitors'[c].count = 1
  BY DEF Fresh
<1>4. Opened(c)' = n + 1
  <2>1. (IF 1 < Limit THEN 1 ELSE Limit) = 1
    BY <1>1
  <2> HIDE DEF n
  <2> QED BY <1>1, <1>2, <1>3, <2>1 DEF Opened
<1>5. InOrder(c)'
  BY PassInOrder DEF ClientInv
<1>6. Counter(c)'
  BY <1>1, <1>2, <1>3, <1>4 DEF Counter
<1>7. ASSUME c \notin evicted' PROVE Apart(c)' /\ Spread(c)'
  <2>1. \A i \in DOMAIN passed[c] : i <= n + 1 - Limit => now - passed[c][i] > Window
    BY <1>7, BeforeWindow
  <2>2. \A i \in DOMAIN passed[c] :
          i = n + 2 - 2 * Limit => now - passed[c][i] > Window
    BY <1>1, <2>1
  <2>3. Spread(c)'
    BY <1>7, <2>2, PassSpread DEF ClientInv
  <2>4. ASSUME NEW i \in 1 .. n + 1, i <= n + 1 - Limit
        PROVE  now - passed'[c][i] > Window
    BY <1>1, <1>2, <2>1, <2>4, SMTT(30)
  <2>5. n + 1 - Limit \in Int /\ Opened(c)' - Limit = n + 1 - Limit
    BY <1>1, <1>4
  <2> HIDE DEF n
  <2>6. Apart(c)'
    BY <1>2, <1>3, <2>4, <2>5 DEF Apart
  <2> QED BY <2>3, <2>6
<1> QED BY <1>5, <1>6, <1>7 DEF ClientInv

\* A request passes in an open window.
LEMMA PassesInWindow ==
    ASSUME LimiterType, NEW c \in Client, ClientInv(c), InWindow(c)
    PROVE  ClientInv(c)'
<1> DEFINE n == Len(passed[c])
           m == visitors[c].count
<1>1. /\ c \in Tracked /\ m < Limit /\ Pass(c) /\ now' = now /\ evicted' = evicted
      /\ visitors' = Put(visitors, c, Counted(visitors[c]))
  BY DEF InWindow, SameWindow
<1>2. /\ n \in Nat /\ DOMAIN passed[c] = 1 .. n /\ Limit \in Nat \ {0} /\ now \in Int
      /\ Window \in Nat /\ visitors[c].lastSeen \in Int /\ m \in Nat \ {0}
      /\ \A i \in DOMAIN passed[c] : passed[c][i] \in Int
  BY <1>1, Ranges
<1>3. /\ Len(passed'[c]) = n + 1
      /\ DOMAIN passed'[c] = 1 .. n + 1 /\ passed'[c][n + 1] = now
      /\ \A i \in DOMAIN passed[c] : passed'[c][i] = passed[c][i]
  BY <1>1, PassEffect
<1>4. visitors[c] \in Visitor
  BY <1>1 DEF LimiterType, Tracked
<1>5. /\ c \in Tracked' /\ visitors'[c].lastSeen = visitors[c].lastSeen
      /\ visitors'[c].count = m + 1
  BY <1>1, <1>4 DEF Put, Counted, Visitor, Tracked
<1>6. Opened(c) = n + 1 - m /\ Opened(c)' = n + 1 - m
  <2>1. /\ (IF m < Limit THEN m ELSE Limit) = m
        /\ (IF m + 1 < Limit THEN m + 1 ELSE Limit) = m + 1
    BY <1>1, <1>2
  <2>2. Opened(c) = n + 1 - m
    BY <2>1 DEF Opened
  <2>3. Opened(c)' = n + 1 + 1 - (m + 1)
    BY <1>3, <1>5, <2>1 DEF Opened
  <2> HIDE DEF n, m
  <2> QED BY <1>2, <2>2, <2>3
<1> HIDE DEF n, m
<1>7. InOrder(c)'
  BY <1>1, PassInOrder DEF ClientInv
<1>8. n + 1 - m \in DOMAIN passed[c] /\ passed[c][n + 1 - m] = visitors[c].lastSeen
  BY <1>1, <1>6 DEF ClientInv, Counter
<1>9. Counter(c)'
  <2>1. n + 1 - m \in 1 .. n + 1
    BY <1>2, <1>8
  <2> QED BY <1>3, <1>5, <1>6, <1>8, <2>1 DEF Counter
<1>10. ASSUME c \notin evicted' PROVE Apart(c)' /\ Spread(c)'
  <2>1. \A i \in DOMAIN passed[c] :
          i <= n + 1 - m - Limit => visitors[c].lastSeen - passed[c][i] > Window
    <3>1. Apart(c)
      BY <1>1, <1>10 DEF ClientInv
    <3>2. Opened(c) - Limit = n + 1 - m - Limit
      BY <1>2, <1>6
    <3> QED BY <1>1, <3>1, <3>2 DEF Apart
  <2>2. ASSUME NEW i \in DOMAIN passed[c], i = n + 2 - 2 * Limit
        PROVE  now - passed[c][i] > Window
    <3>1. i <= n + 1 - m - Limit
      BY <1>1, <1>2, <2>2 DEF m
    <3>2. visitors[c].lastSeen <= now
      BY <1>8 DEF ClientInv, InOrder
    <3> QED BY <1>2, <2>1, <3>1, <3>2
  <2>3. Spread(c)'
    BY <1>1, <1>10, <2>2, PassSpread DEF ClientInv, n
  <2>4. ASSUME NEW i \in 1 .. n + 1, i <= n + 1 - m - Limit
        PROVE  visitors[c].lastSeen - passed'[c][i] > Window
    <3>1. i \in DOMAIN passed[c]
      BY <1>2, <1>3, <2>4
    <3>2. passed'[c][i] = passed[c][i]
      BY <1>3, <3>1
    <3> QED BY <2>1, <2>4, <3>1, <3>2
  <2>5. Opened(c)' - Limit = n + 1 - m - Limit
    BY <1>2, <1>6
  <2>6. Apart(c)'
    BY <1>3, <1>5, <2>4, <2>5 DEF Apart
  <2> QED BY <2>3, <2>6
<1> QED BY <1>7, <1>9, <1>10 DEF ClientInv

\* A refused request raises the counter over the limit and changes nothing
\* that the limiter goes by.
LEMMA Refused ==
    ASSUME LimiterType, NEW c \in Client, ClientInv(c), Refuse(c)
    PROVE  ClientInv(c)'
<1>1. /\ c \in Tracked /\ visitors[c].count >= Limit /\ UNCHANGED <<now, passed, evicted>>
      /\ visitors' = Put(visitors, c, Counted(visitors[c]))
  BY DEF Refuse, SameWindow
<1>2. visitors[c] \in Visitor /\ Limit \in Nat
  BY <1>1, Ranges DEF LimiterType, Tracked
<1>3. /\ c \in Tracked' /\ visitors'[c].lastSeen = visitors[c].lastSeen
      /\ visitors'[c].count = visitors[c].count + 1
  BY <1>1, <1>2 DEF Put, Counted, Visitor, Tracked
<1>4. Opened(c)' = Opened(c)
  BY <1>1, <1>2, <1>3 DEF Opened, Visitor
<1> QED
  BY <1>1, <1>3, <1>4 DEF ClientInv, InOrder, Counter, Apart, Spread

-----------------------------------------------------------------------------
(* Steps of the limiter.                                                   *)

\* The entry of c is written and a request of c passes.
LEMMA PutType ==
    ASSUME LimiterType, NEW c \in Client, NEW v \in Visitor, NEW map,
           DOMAIN map \subseteq Client, \A k \in DOMAIN map : map[k] \in Visitor,
           visitors' = Put(map, c, v), now' = now,
           passed' \in [Client -> Seq(Time)]
    PROVE  /\ LimiterType' /\ c \in Tracked' /\ visitors'[c] = v
           /\ \A k \in Client : k # c =>
                  (k \in Tracked' <=> k \in DOMAIN map)
                  /\ (k \in DOMAIN map => visitors'[k] = map[k])
<1>1. /\ DOMAIN visitors' = DOMAIN map \cup {c} /\ visitors'[c] = v
      /\ \A k \in DOMAIN map : k # c => visitors'[k] = map[k]
  BY DEF Put
<1>2. \A k \in DOMAIN visitors' : visitors'[k] \in Visitor
  BY <1>1
<1> QED BY <1>1, <1>2 DEF LimiterType, Tracked

\* The entry of a request that opens a window.
LEMMA FreshType == ASSUME LimiterType PROVE Fresh \in Visitor
  BY DEF LimiterType, Fresh, Visitor

\* The entry of one more request.
LEMMA CountedType == ASSUME NEW v \in Visitor PROVE Counted(v) \in Visitor
  BY DEF Counted, Visitor

\* Requests that open a window, without evicting anyone.
LEMMA NewWindowStep ==
    ASSUME LimiterInv, NEW c \in Client, NewWindow(c) PROVE LimiterInv'
<1> USE DEF LimiterInv
<1>1. /\ ~SameWindow(c) /\ Pass(c) /\ now' = now /\ evicted' = evicted
      /\ visitors' = Put(visitors, c, Fresh)
  BY DEF NewWindow
<1>2. PICK v : v = Fresh
  OBVIOUS
<1>3. PICK map : map = visitors
  OBVIOUS
<1>4. /\ passed' \in [Client -> Seq(Time)]
      /\ \A k \in Client : k # c => passed'[k] = passed[k]
  BY <1>1, PassEffect
<1>5. v \in Visitor /\ visitors' = Put(map, c, v)
  BY <1>1, <1>2, <1>3, FreshType
<1>6. DOMAIN map \subseteq Client /\ \A k \in DOMAIN map : map[k] \in Visitor
  BY <1>3 DEF LimiterType
<1>7. /\ LimiterType' /\ c \in Tracked' /\ visitors'[c] = Fresh
      /\ \A k \in Client : k # c =>
             (k \in Tracked' <=> k \in Tracked) /\ (k \in Tracked => visitors'[k] = visitors[k])
  BY <1>1, <1>2, <1>3, <1>4, <1>5, <1>6, PutType DEF Tracked
<1>8. ClientInv(c)'
  BY <1>1, <1>7, OpensWindow
<1>9. \A k \in Client : k # c => ClientInv(k)'
  BY <1>1, <1>4, <1>7, Frame
<1> QED BY <1>7, <1>8, <1>9

\* A new client takes the place of another.
LEMMA EvictStep ==
    ASSUME LimiterInv, NEW c \in Client, Evict(c) PROVE LimiterInv'
<1> USE DEF LimiterInv
<1>1. c \notin Tracked /\ ~SameWindow(c) /\ Pass(c) /\ now' = now
  BY DEF Evict, SameWindow
<1>2. PICK victim \in Tracked :
        /\ visitors' = Put(Without(visitors, {victim}), c, Fresh)
        /\ evicted' = evicted \cup ({victim} \cap {k \in Client : SameWindow(k)})
  BY DEF Evict
<1>3. PICK v : v = Fresh
  OBVIOUS
<1>4. PICK map : map = Without(visitors, {victim})
  OBVIOUS
<1>5. /\ DOMAIN map = Tracked \ {victim} /\ \A k \in DOMAIN map : map[k] = visitors[k]
  BY <1>4 DEF Without, Tracked
<1>6. /\ passed' \in [Client -> Seq(Time)]
      /\ \A k \in Client : k # c => passed'[k] = passed[k]
  BY <1>1, PassEffect
<1>7. v \in Visitor /\ visitors' = Put(map, c, v)
  BY <1>2, <1>3, <1>4, FreshType
<1>8. DOMAIN map \subseteq Client /\ \A k \in DOMAIN map : map[k] \in Visitor
  BY <1>5 DEF LimiterType, Tracked
<1>9. /\ LimiterType' /\ c \in Tracked' /\ visitors'[c] = Fresh
      /\ \A k \in Client : k # c =>
             (k \in Tracked' <=> k \in DOMAIN map)
             /\ (k \in DOMAIN map => visitors'[k] = map[k])
  BY <1>1, <1>3, <1>6, <1>7, <1>8, PutType
<1>10. victim \in Client /\ victim # c
  BY <1>1, <1>2 DEF LimiterType, Tracked
<1>11. ClientInv(c)'
  BY <1>1, <1>2, <1>9, OpensWindow
<1>12. ClientInv(victim)'
  <2>1. passed'[victim] = passed[victim] /\ victim \notin Tracked'
    BY <1>5, <1>6, <1>9, <1>10
  <2>2. victim \in evicted' \/ (victim \notin evicted /\ WindowOver(visitors[victim]))
    BY <1>2, <1>10 DEF SameWindow
  <2> QED BY <1>1, <1>2, <1>10, <2>1, <2>2, Dropped
<1>13. ASSUME NEW k \in Client, k # c, k # victim PROVE ClientInv(k)'
  <2>1. /\ k \in Tracked' <=> k \in Tracked
        /\ k \in Tracked => visitors'[k] = visitors[k]
    BY <1>5, <1>9, <1>13
  <2>2. passed'[k] = passed[k] /\ (k \notin evicted' => k \notin evicted)
    BY <1>2, <1>6, <1>13
  <2> QED BY <1>1, <2>1, <2>2, Frame
<1> QED BY <1>9, <1>11, <1>12, <1>13

\* Requests within a window, let through or refused.
LEMMA WindowStep ==
    ASSUME LimiterInv, NEW c \in Client, InWindow(c) \/ Refuse(c) PROVE LimiterInv'
<1> USE DEF LimiterInv
<1>1. /\ c \in Tracked /\ now' = now /\ evicted' = evicted
      /\ visitors' = Put(visitors, c, Counted(visitors[c]))
  BY DEF InWindow, Refuse, SameWindow
<1>2. PICK v : v = Counted(visitors[c])
  OBVIOUS
<1>3. PICK map : map = visitors
  OBVIOUS
<1>4. /\ passed' \in [Client -> Seq(Time)]
      /\ \A k \in Client : k # c => passed'[k] = passed[k]
  BY PassEffect DEF InWindow, Refuse, LimiterType
<1>5. v \in Visitor /\ visitors' = Put(map, c, v)
  BY <1>1, <1>2, <1>3, CountedType DEF LimiterType, Tracked
<1>6. DOMAIN map \subseteq Client /\ \A k \in DOMAIN map : map[k] \in Visitor
  BY <1>3 DEF LimiterType
<1>7. /\ LimiterType'
      /\ \A k \in Client : k # c =>
             (k \in Tracked' <=> k \in Tracked) /\ (k \in Tracked => visitors'[k] = visitors[k])
  BY <1>1, <1>3, <1>4, <1>5, <1>6, PutType DEF Tracked
<1>8. ClientInv(c)'
  BY PassesInWindow, Refused
<1>9. \A k \in Client : k # c => ClientInv(k)'
  BY <1>1, <1>4, <1>7, Frame
<1> QED BY <1>7, <1>8, <1>9

\* The ticker drops the entries whose window is over.
LEMMA CleanupStep == ASSUME LimiterInv, Cleanup PROVE LimiterInv'
<1> USE DEF LimiterInv
<1> DEFINE Over == {c \in Tracked : WindowOver(visitors[c])}
<1>1. visitors' = Without(visitors, Over) /\ UNCHANGED <<now, passed, evicted>>
  BY DEF Cleanup
<1>2. Tracked' = Tracked \ Over /\ \A k \in Tracked' : visitors'[k] = visitors[k]
  BY <1>1 DEF Without, Tracked
<1>3. LimiterType'
  BY <1>1, <1>2 DEF LimiterType, Tracked
<1>4. ASSUME NEW k \in Client PROVE ClientInv(k)'
  <2>1. CASE k \in Over
    BY <1>1, <1>2, <2>1, Dropped, Frame DEF ClientInv, InOrder, Counter
  <2>2. CASE k \notin Over
    BY <1>1, <1>2, <2>2, Frame
  <2> QED BY <2>1, <2>2
<1> QED BY <1>3, <1>4

\* Time passes.
LEMMA TickStep == ASSUME LimiterInv, Tick PROVE LimiterInv'
<1> USE DEF LimiterInv
<1>1. now' = now + 1 /\ now' \in Time /\ UNCHANGED <<visitors, passed, evicted>>
  BY LimiterAssumption DEF Tick, LimiterType, Time
<1>2. LimiterType'
  BY <1>1 DEF LimiterType
<1>3. ASSUME NEW k \in Client PROVE ClientInv(k)'
  <2>1. /\ now \in Int /\ Window \in Nat
        /\ \A i \in DOMAIN passed[k] : passed[k][i] \in Int
    BY Ranges
  <2>2. InOrder(k)'
    BY <1>1, <2>1 DEF ClientInv, InOrder
  <2>3. Tracked' = Tracked /\ Opened(k)' = Opened(k)
    BY <1>1 DEF Tracked, Opened
  <2>4. Counter(k)' /\ (k \notin evicted => Spread(k)')
    BY <1>1, <2>3 DEF ClientInv, Counter, Spread
  <2>5. k \notin evicted => Apart(k)'
    BY <1>1, <2>1, <2>3 DEF ClientInv, Apart
  <2> QED BY <1>1, <2>2, <2>4, <2>5 DEF ClientInv
<1> QED BY <1>2, <1>3

-----------------------------------------------------------------------------
(* Steps of the gateway.                                                   *)

\* A restart empties the map and counts everyone as evicted.
LEMMA RestartStep == ASSUME Inv, Restart PROVE Inv'
<1>1. visitors' = << >> /\ evicted' = Client /\ UNCHANGED <<now, passed, token, launched>>
  BY DEF Restart
<1>2. Tracked' = {}
  BY <1>1 DEF Tracked
<1>3. LimiterType'
  BY <1>1, <1>2 DEF Inv, LimiterInv, LimiterType, Tracked
<1>4. \A k \in Client : ClientInv(k)'
  BY <1>1, <1>2 DEF Inv, LimiterInv, ClientInv, InOrder, Counter
<1>5. TokenInv'
  BY <1>1 DEF Inv, TokenInv
<1> QED BY <1>3, <1>4, <1>5 DEF Inv, LimiterInv

\* The clock never goes back, and the middleware leaves tokens alone.
LEMMA TokensKept ==
    ASSUME Inv, LimiterType', now' \in {now, now + 1}, UNCHANGED session
    PROVE  TokenInv'
<1>1. token' = token /\ launched' = launched
  BY DEF session
<1>2. Time \subseteq Int /\ now \in Time
  BY LimiterAssumption DEF Time, Inv, LimiterInv, LimiterType
<1> QED BY <1>1, <1>2 DEF Inv, TokenInv

\* The limiter lets a request through.
LEMMA AdmitStep ==
    ASSUME LimiterInv, NEW c \in Client, LimiterAdmits(c)
    PROVE  LimiterInv' /\ now' = now
<1>1. now' = now
  BY DEF LimiterAdmits, NewWindow, Evict, InWindow
<1>2. LimiterInv'
  BY NewWindowStep, EvictStep, WindowStep DEF LimiterAdmits
<1> QED BY <1>1, <1>2

\* A launch hands out a new token.
LEMMA LaunchStep == ASSUME Inv, NEW c \in Client, Launch(c) PROVE Inv'
<1>1. LimiterInv' /\ now' = now
  BY AdmitStep DEF Inv, Launch
<1>2. /\ token' = [token EXCEPT ![c] = GenerateJWT({"STUDENT"})]
      /\ launched' = [launched EXCEPT ![c] = now]
  BY DEF Launch
<1>3. now \in Time /\ now <= now
  BY LimiterAssumption DEF Inv, LimiterInv, LimiterType, Time
<1>4. /\ token' = [k \in Client |-> token'[k]] /\ launched' = [k \in Client |-> launched'[k]]
      /\ token'[c] = GenerateJWT({"STUDENT"}) /\ launched'[c] = now
      /\ \A k \in Client : k # c => token'[k] = token[k] /\ launched'[k] = launched[k]
  BY <1>2 DEF Inv, TokenInv
<1>5. /\ token'[c].roles = {"STUDENT"} /\ token'[c].proper
      /\ token'[c].iat = now /\ token'[c].exp = now + TTL
  BY <1>4 DEF GenerateJWT
<1>6. TokenInv'
  BY <1>1, <1>3, <1>4, <1>5 DEF Inv, TokenInv
<1> QED BY <1>1, <1>6 DEF Inv

\* Before the first request.
LEMMA Initial == ASSUME GatewayInit PROVE Inv
<1>1. /\ visitors = << >> /\ now = 0 /\ passed = [c \in Client |-> << >>]
      /\ token = [c \in Client |-> Nil] /\ launched = [c \in Client |-> NoTime]
  BY DEF GatewayInit, Init
<1>2. 0 \in Time
  BY LimiterAssumption DEF Time
<1>3. LimiterType
  BY <1>1, <1>2 DEF LimiterType
<1>4. \A c \in Client : ClientInv(c)
  BY <1>1 DEF ClientInv, InOrder, Counter, Apart, Spread, Tracked
<1>5. TokenInv
  BY <1>1 DEF TokenInv
<1> QED BY <1>3, <1>4, <1>5 DEF Inv, LimiterInv

\* Every step keeps the invariant.
LEMMA Inductive == ASSUME Inv, [GatewayNext]_gateway PROVE Inv'
<1>1. CASE UNCHANGED gateway
  <2>1. UNCHANGED <<visitors, now, passed, evicted, token, launched>>
    BY <1>1 DEF gateway, vars, session
  <2>2. LimiterType'
    BY <2>1 DEF Inv, LimiterInv, LimiterType
  <2>3. \A k \in Client : ClientInv(k)'
    BY <2>1, Frame DEF Inv, LimiterInv, Tracked
  <2> QED BY <2>1, <2>2, <2>3 DEF Inv, LimiterInv, TokenInv
<1>2. CASE (Tick \/ Cleanup) /\ UNCHANGED session
  <2>1. LimiterInv'
    BY <1>2, TickStep, CleanupStep DEF Inv
  <2>2. now' \in {now, now + 1}
    BY <1>2 DEF Tick, Cleanup
  <2> QED BY <1>2, <2>1, <2>2, TokensKept DEF Inv, LimiterInv
<1>3. ASSUME NEW c \in Client, LimiterAdmits(c) \/ Refuse(c),
             UNCHANGED session
      PROVE  Inv'
  <2>1. LimiterInv' /\ now' = now
    BY <1>3, AdmitStep, WindowStep DEF Inv, Refuse
  <2> QED BY <1>3, <2>1, TokensKept DEF Inv, LimiterInv
<1>4. ASSUME NEW c \in Client, NEW route \in Route, NEW t \in {token[c], Nil} \cup Minted,
             Handle(c, route, t) \/ Unauthorised(c, route, t) \/ TooManyRequests(c, route, t)
      PROVE  Inv'
  <2>1. CASE UNCHANGED gateway
    BY <1>1, <2>1
  <2>2. CASE ~UNCHANGED gateway
    <3>1. (LimiterAdmits(c) \/ Refuse(c)) /\ UNCHANGED session
      BY <1>4, <2>2 DEF Handle, Unauthorised, TooManyRequests, gateway
    <3> QED BY <1>3, <3>1
  <2> QED BY <2>1, <2>2
<1> QED BY <1>1, <1>2, <1>4, LaunchStep, RestartStep DEF GatewayNext

\* The inductive invariant holds throughout: the limiter's counters agree with
\* the requests that passed.
THEOREM Invariance == GatewaySpec => []Inv
  BY Initial, Inductive, PTL DEF GatewaySpec

\* The rate limiter lets fewer than twice its limit through in any interval as
\* long as its window, for every client that it did not evict.
THEOREM BurstsBounded == GatewaySpec => []BurstBounded
<1>1. Inv => BurstBounded
  BY DEF Inv, LimiterInv, ClientInv, Spread, BurstBounded
<1> QED BY <1>1, Invariance, PTL

\* A 429 is only given to a client of whom Limit requests passed during the
\* window length before.
THEOREM RefusalsDeserved == GatewaySpec => RefusedOnlyOverLimit
<1>1. ASSUME Inv, NEW c \in Client, Refuse(c)
      PROVE  \E i \in DOMAIN passed[c] :
                 i = Len(passed[c]) - Limit + 1 /\ now - passed[c][i] <= Window
  <2>1. c \in Tracked /\ ~(now - visitors[c].lastSeen > Window) /\ visitors[c].count >= Limit
    BY <1>1 DEF Refuse, SameWindow, WindowOver
  <2>2. LimiterType /\ ClientInv(c)
    BY <1>1 DEF Inv, LimiterInv
  <2>3. /\ Len(passed[c]) \in Nat /\ Limit \in Nat /\ visitors[c].count \in Nat
        /\ now \in Int /\ Window \in Nat /\ visitors[c].lastSeen \in Int
    BY <2>1, <2>2, Ranges
  <2>4. Opened(c) = Len(passed[c]) + 1 - Limit
    BY <2>1, <2>3 DEF Opened
  <2>5. Opened(c) \in DOMAIN passed[c] /\ passed[c][Opened(c)] = visitors[c].lastSeen
    BY <2>1, <2>2 DEF ClientInv, Counter
  <2>6. Opened(c) = Len(passed[c]) - Limit + 1 /\ now - passed[c][Opened(c)] <= Window
    BY <2>1, <2>3, <2>4, <2>5
  <2> QED BY <2>5, <2>6
<1>2. Inv =>
      [\A c \in Client : Refuse(c) =>
           \E i \in DOMAIN passed[c] :
               i = Len(passed[c]) - Limit + 1 /\ now - passed[c][i] <= Window]_vars
  BY <1>1
<1> QED BY <1>2, Invariance, PTL DEF RefusedOnlyOverLimit

\* A token opens the candidate's routes from its launch until its time is up,
\* under the secret it was signed with, and never an administrator's.
THEOREM TokensHonoured == GatewaySpec => []TokenHonoured
<1>1. ASSUME Inv, NEW c \in Client, token[c] # Nil
      PROVE  LET inTime == now < launched[c] + TTL /\ token[c].secret = secret IN
             /\ Admitted("save", token[c]) <=> inTime
             /\ ~Admitted("admin", token[c])
  <2>1. /\ launched[c] \in Time /\ launched[c] <= now
        /\ token[c].roles = {"STUDENT"} /\ token[c].proper
        /\ token[c].iat = launched[c] /\ token[c].exp = launched[c] + TTL
    BY <1>1 DEF Inv, TokenInv
  <2>2. launched[c] # NoTime /\ launched[c] + TTL # NoTime
    BY <2>1, LimiterAssumption, GatewayAssumption DEF Time, NoTime
  <2>3. Valid(token[c]) <=> (now < launched[c] + TTL /\ token[c].secret = secret)
    BY <1>1, <2>1, <2>2 DEF Valid
  <2> QED BY <2>1, <2>3 DEF Admitted
<1>2. Inv => TokenHonoured
  BY <1>1 DEF TokenHonoured
<1> QED BY <1>2, Invariance, PTL
=============================================================================
