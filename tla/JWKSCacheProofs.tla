--------------------------- MODULE JWKSCacheProofs ---------------------------
(***************************************************************************)
(* What signingKey decides is never based on keys older than TTL plus      *)
(* Timeout, for any number of goroutines and keys, however the platform    *)
(* rotates them and however the downloads overlap.                         *)
(*                                                                         *)
(* The argument: an answer shows the platform at one moment after the      *)
(* download began, and is stored within Timeout of that; so the cache is   *)
(* right about some moment at most TTL plus Timeout before it expires, no  *)
(* matter which of several answers was stored last.                        *)
(***************************************************************************)
EXTENDS JWKSCache, TLAPS

TypeInv ==
    /\ published \in SUBSET Key
    /\ seen \in [Key -> Int] /\ since \in [Key -> Int]
    /\ cache \in [keys: SUBSET Key, expiresAt: Int]
    /\ job \in [Launch -> Job]
    /\ clock \in Time

\* The platform was like keys at some moment not before t: each of them has
\* been published since, and what is missing was added since.
ShownAfter(keys, t) ==
    /\ \A k \in keys : seen[k] >= t
    /\ \A k \in published \ keys : since[k] >= t

Inv ==
    /\ TypeInv
    /\ \A k \in published : seen[k] = clock
    /\ cache.expiresAt <= clock + TTL
    /\ ShownAfter(cache.keys, cache.expiresAt - TTL - Timeout)
    /\ \A l \in Launch :
        /\ job[l].start <= clock
        /\ job[l].at = "answer" => ShownAfter(job[l].keys, job[l].start)

\* What the proofs use of the assumption on the constants.
LEMMA Constants ==
    TTL \in Nat /\ TTL > 0 /\ Timeout \in Nat /\ MaxTime \in Nat /\ Time \subseteq Nat
  BY CacheAssumption DEF Time

\* No goroutine has asked yet, and the cache is empty and expired.
LEMMA InitInv == Init => Inv
<1> SUFFICES ASSUME Init PROVE Inv
  OBVIOUS
<1>1. TypeInv
  BY Constants DEF Init, TypeInv, Empty, LongAgo, Time
<1> QED BY <1>1, Constants DEF Init, Inv, Empty, ShownAfter

\* The platform rotates its keys: what it adds counts from now, and what it
\* withdraws was published until now.
LEMMA RotateStep == ASSUME Inv, Rotate PROVE Inv'
<1> USE DEF Inv
<1>1. PICK keys \in SUBSET Key :
        /\ published' = keys
        /\ since' = [k \in Key |-> IF k \in keys \ published THEN clock ELSE since[k]]
        /\ seen' = [k \in Key |-> IF k \in keys \cup published THEN clock ELSE seen[k]]
  BY DEF Rotate
<1>2. UNCHANGED <<cache, job, clock>>
  BY DEF Rotate
<1>3. clock \in Int /\ TTL \in Int /\ Timeout \in Int /\ TTL >= 0 /\ Timeout >= 0
  BY Constants DEF TypeInv
<1>4. TypeInv'
  BY <1>1, <1>2, <1>3 DEF TypeInv
<1>5. ASSUME NEW S \in SUBSET Key, NEW t \in Int, t <= clock, ShownAfter(S, t)
      PROVE  ShownAfter(S, t)'
  BY <1>1, <1>3, <1>5 DEF ShownAfter, TypeInv
<1>6. ShownAfter(cache.keys, cache.expiresAt - TTL - Timeout)'
  <2>1. /\ cache.keys \in SUBSET Key /\ cache.expiresAt - TTL - Timeout \in Int
        /\ cache.expiresAt - TTL - Timeout <= clock
    BY <1>3 DEF TypeInv
  <2> QED BY <1>2, <1>5, <2>1
<1>7. ASSUME NEW l \in Launch, job[l].at = "answer" PROVE ShownAfter(job[l].keys, job[l].start)'
  <2>1. job[l].keys \in SUBSET Key /\ job[l].start \in Int /\ job[l].start <= clock
    BY Constants DEF TypeInv, Job, Time
  <2> QED BY <1>2, <1>5, <1>7, <2>1
<1>8. \A k \in published' : seen'[k] = clock'
  BY <1>1, <1>2 DEF TypeInv
<1> QED BY <1>2, <1>4, <1>6, <1>7, <1>8

\* Time passes: what is published is seen a moment later.
LEMMA TickStep == ASSUME Inv, Tick PROVE Inv'
<1> USE DEF Inv
<1>1. /\ clock' = clock + 1 /\ UNCHANGED <<published, since, cache, job>>
      /\ seen' = [k \in Key |-> IF k \in published THEN clock + 1 ELSE seen[k]]
  BY DEF Tick
<1>2. clock \in Nat /\ clock' \in Time
  BY Constants DEF TypeInv, Tick, Time
<1>3. TypeInv' /\ \A k \in published' : seen'[k] = clock'
  BY <1>1, <1>2 DEF TypeInv
<1>4. \A k \in Key : seen'[k] >= seen[k]
  BY <1>1, <1>2 DEF TypeInv
<1>5. ASSUME NEW S \in SUBSET Key, NEW t \in Int, ShownAfter(S, t)
      PROVE  ShownAfter(S, t)'
  BY <1>1, <1>3, <1>4, <1>5 DEF ShownAfter, TypeInv
<1>6. ShownAfter(cache.keys, cache.expiresAt - TTL - Timeout)'
  <2>1. cache.keys \in SUBSET Key /\ cache.expiresAt - TTL - Timeout \in Int
    BY Constants DEF TypeInv
  <2> QED BY <1>1, <1>5, <2>1
<1>7. ASSUME NEW l \in Launch, job[l].at = "answer" PROVE ShownAfter(job[l].keys, job[l].start)'
  <2>1. job[l].keys \in SUBSET Key /\ job[l].start \in Int
    BY Constants DEF TypeInv, Job, Time
  <2> QED BY <1>1, <1>5, <1>7, <2>1
<1>8. cache.expiresAt <= clock' + TTL /\ \A l \in Launch : job[l].start <= clock'
  <2>1. \A l \in Launch : job[l].start \in Int
    BY Constants DEF TypeInv, Job, Time
  <2> QED BY <1>1, <1>2, <2>1, Constants DEF TypeInv
<1> QED BY <1>1, <1>3, <1>6, <1>7, <1>8

\* A step of one goroutine: the platform and the clock stand still, its own
\* locals and the cache it leaves behind are what is to be shown.
LEMMA LaunchStep ==
    ASSUME Inv, NEW l \in Launch, UNCHANGED <<published, seen, since, clock>>,
           \A m \in Launch : m # l => job'[m] = job[m],
           job' \in [Launch -> Job], job'[l].start <= clock,
           job'[l].at = "answer" => ShownAfter(job'[l].keys, job'[l].start),
           cache' \in [keys: SUBSET Key, expiresAt: Int],
           cache'.expiresAt <= clock + TTL,
           ShownAfter(cache'.keys, cache'.expiresAt - TTL - Timeout)
    PROVE  Inv'
<1>1. TypeInv'
  BY DEF Inv, TypeInv
<1>3. ASSUME NEW m \in Launch
      PROVE  /\ job'[m].start <= clock
             /\ job'[m].at = "answer" => ShownAfter(job'[m].keys, job'[m].start)
  BY DEF Inv
<1> QED BY <1>1, <1>3 DEF Inv, ShownAfter

\* signingKey up to the decision.
LEMMA GoroutineStep ==
    ASSUME Inv, NEW l \in Launch,
           \/ LookupFresh(l) \/ LookupStale(l) \/ Answer(l) \/ Store(l)
           \/ FetchFails(l) \/ NextLaunch(l)
    PROVE  Inv'
<1>0. /\ job \in [Launch -> Job] /\ job[l] \in Job /\ clock \in Time /\ clock \in Nat
      /\ cache \in [keys: SUBSET Key, expiresAt: Int] /\ published \in SUBSET Key
      /\ job[l].start \in Nat /\ job[l].start <= clock
      /\ TTL \in Nat /\ Timeout \in Nat /\ 0 \in Time
  BY Constants DEF Inv, TypeInv, Job, Time
<1>1. CASE LookupFresh(l) \/ FetchFails(l)
  <2>1. /\ UNCHANGED <<published, seen, since, cache, clock>>
        /\ \E v \in {"accepted", "unknown", "failed"} : job' = [job EXCEPT ![l].at = v]
    BY <1>1 DEF LookupFresh, FetchFails, Verdict, platform
  <2>2. job' \in [Launch -> Job] /\ job'[l].at # "answer" /\ job'[l].start = job[l].start
    BY <1>0, <2>1 DEF Job
  <2>3. \A m \in Launch : m # l => job'[m] = job[m]
    BY <1>0, <2>1
  <2> QED BY <1>0, <2>1, <2>2, <2>3, LaunchStep DEF Inv
<1>2. CASE LookupStale(l)
  <2>1. /\ UNCHANGED <<published, seen, since, cache, clock>>
        /\ job' = [job EXCEPT ![l].at = "fetch", ![l].start = clock]
    BY <1>2 DEF LookupStale, platform
  <2>2. job' \in [Launch -> Job] /\ job'[l].at # "answer" /\ job'[l].start = clock
    BY <1>0, <2>1 DEF Job
  <2>3. \A m \in Launch : m # l => job'[m] = job[m]
    BY <1>0, <2>1
  <2> QED BY <1>0, <2>1, <2>2, <2>3, LaunchStep DEF Inv
<1>3. CASE Answer(l)
  <2>1. /\ UNCHANGED <<published, seen, since, cache, clock>>
        /\ job' = [job EXCEPT ![l].at = "answer", ![l].keys = published]
    BY <1>3 DEF Answer, platform
  <2>2. job' \in [Launch -> Job] /\ job'[l].keys = published /\ job'[l].start = job[l].start
    BY <1>0, <2>1 DEF Job
  <2>3. \A m \in Launch : m # l => job'[m] = job[m]
    BY <1>0, <2>1
  <2>4. ShownAfter(published, job[l].start)
    BY <1>0 DEF ShownAfter, Inv
  <2> QED BY <1>0, <2>1, <2>2, <2>3, <2>4, LaunchStep DEF Inv
<1>4. CASE Store(l)
  <2>1. /\ UNCHANGED <<published, seen, since, clock>>
        /\ cache' = [keys |-> job[l].keys, expiresAt |-> clock + TTL]
        /\ clock - job[l].start <= Timeout
        /\ \E v \in {"accepted", "unknown"} : job' = [job EXCEPT ![l].at = v]
    BY <1>4 DEF Store, Verdict, InTime, platform
  <2>2. job' \in [Launch -> Job] /\ job'[l].at # "answer" /\ job'[l].start = job[l].start
    BY <1>0, <2>1 DEF Job
  <2>3. \A m \in Launch : m # l => job'[m] = job[m]
    BY <1>0, <2>1
  <2>4. /\ cache'.keys = job[l].keys /\ cache'.expiresAt = clock + TTL
        /\ cache' \in [keys: SUBSET Key, expiresAt: Int]
    BY <1>0, <2>1 DEF Job
  <2>5. ShownAfter(job[l].keys, job[l].start)
    BY <1>4 DEF Inv, Store
  <2>6. cache'.expiresAt - TTL - Timeout <= job[l].start
    BY <1>0, <2>1, <2>4
  <2>7. seen \in [Key -> Int] /\ since \in [Key -> Int] /\ job[l].keys \subseteq Key
    BY <1>0 DEF Inv, TypeInv, Job
  <2>8. ShownAfter(cache'.keys, cache'.expiresAt - TTL - Timeout)
    BY <1>0, <2>4, <2>5, <2>6, <2>7 DEF ShownAfter
  <2> QED BY <1>0, <2>1, <2>2, <2>3, <2>4, <2>8, LaunchStep
<1>5. CASE NextLaunch(l)
  <2>1. /\ UNCHANGED <<published, seen, since, cache, clock>>
        /\ \E k \in Key :
               job' = [job EXCEPT ![l] = [at |-> "idle", kid |-> k, keys |-> {}, start |-> 0]]
    BY <1>5 DEF NextLaunch, platform
  <2>2. job' \in [Launch -> Job] /\ job'[l].at # "answer" /\ job'[l].start <= clock
    BY <1>0, <2>1 DEF Job
  <2>3. \A m \in Launch : m # l => job'[m] = job[m]
    BY <1>0, <2>1
  <2> QED BY <1>0, <2>1, <2>2, <2>3, LaunchStep DEF Inv
<1> QED BY <1>1, <1>2, <1>3, <1>4, <1>5

\* Inv is inductive.
LEMMA NextInv == Inv /\ [Next]_vars => Inv'
<1> SUFFICES ASSUME Inv, [Next]_vars PROVE Inv'
  OBVIOUS
<1>1. CASE UNCHANGED vars
  BY <1>1 DEF vars, Inv, TypeInv, ShownAfter
<1>2. CASE Rotate \/ Tick
  BY <1>2, RotateStep, TickStep
<1> QED BY <1>1, <1>2, GoroutineStep DEF Next

\* The inductive invariant of the key cache.
THEOREM Invariance == Spec => []Inv
  BY InitInv, NextInv, PTL DEF Spec

\* What a goroutine decides, it decides on keys that the platform showed less
\* than TTL plus Timeout ago: those of the fresh cache or of the answer.
LEMMA Decision ==
    ASSUME Inv, [Next]_vars, NEW l \in Launch, NEW v \in {"accepted", "unknown"},
           Reaches(l, v)
    PROVE  \E S \in SUBSET Key, t \in Int :
               /\ v = Verdict(job[l].kid, S)
               /\ ShownAfter(S, t) /\ clock - t < TTL + Timeout
<1>0. /\ job \in [Launch -> Job] /\ job[l] \in Job /\ clock \in Nat
      /\ cache \in [keys: SUBSET Key, expiresAt: Int]
      /\ job[l].start \in Nat /\ job[l].keys \in SUBSET Key
      /\ TTL \in Nat /\ TTL > 0 /\ Timeout \in Nat
  BY Constants DEF Inv, TypeInv, Job, Time
<1>2. CASE LookupFresh(l)
  <2>1. v = Verdict(job[l].kid, cache.keys) /\ clock < cache.expiresAt
    BY <1>0, <1>2 DEF LookupFresh, Reaches, Fresh, Job
  <2>2. /\ cache.keys \in SUBSET Key /\ cache.expiresAt - TTL - Timeout \in Int
        /\ clock - (cache.expiresAt - TTL - Timeout) < TTL + Timeout
    BY <1>0, <2>1
  <2> QED BY <2>1, <2>2 DEF Inv
<1>3. CASE Store(l)
  <2>1. v = Verdict(job[l].kid, job[l].keys) /\ clock - job[l].start <= Timeout
    BY <1>0, <1>3 DEF Store, Reaches, InTime, Job
  <2>2. ShownAfter(job[l].keys, job[l].start)
    BY <1>3 DEF Store, Inv
  <2>3. job[l].start \in Int /\ clock - job[l].start < TTL + Timeout
    BY <1>0, <2>1
  <2> QED BY <1>0, <2>1, <2>2, <2>3
<1>4. CASE UNCHANGED job
  BY <1>4 DEF Reaches
<1>5. CASE LookupStale(l) \/ Answer(l) \/ FetchFails(l) \/ NextLaunch(l)
  <2>1. job'[l].at \in {"fetch", "answer", "failed", "idle"}
    BY <1>0, <1>5 DEF LookupStale, Answer, FetchFails, NextLaunch, Job
  <2> QED BY <2>1 DEF Reaches
<1>6. ASSUME NEW m \in Launch, m # l,
             \/ LookupFresh(m) \/ LookupStale(m) \/ Answer(m) \/ Store(m)
             \/ FetchFails(m) \/ NextLaunch(m)
      PROVE  FALSE
  <2>1. job'[l] = job[l]
    BY <1>0, <1>6 DEF LookupFresh, LookupStale, Answer, Store, FetchFails, NextLaunch
  <2> QED BY <2>1 DEF Reaches
<1>7. CASE Rotate \/ Tick \/ UNCHANGED vars
  BY <1>4, <1>7 DEF Rotate, Tick, vars
<1> QED BY <1>2, <1>3, <1>5, <1>6, <1>7 DEF Next

\* A key that signingKey accepts was published within the last TTL plus Timeout.
THEOREM AcceptedRecent == Spec => AcceptedKeyRecent
<1> DEFINE Recent == \A l \in Launch : Reaches(l, "accepted") =>
                         clock - seen[job[l].kid] < TTL + Timeout
<1>1. ASSUME Inv, [Next]_vars PROVE Recent
  <2> SUFFICES ASSUME NEW l \in Launch, Reaches(l, "accepted")
               PROVE  clock - seen[job[l].kid] < TTL + Timeout
    OBVIOUS
  <2>1. PICK S \in SUBSET Key, t \in Int :
          /\ "accepted" = Verdict(job[l].kid, S)
          /\ ShownAfter(S, t) /\ clock - t < TTL + Timeout
    BY <1>1, Decision
  <2>2. job[l].kid \in S
    BY <2>1 DEF Verdict
  <2>3. seen[job[l].kid] \in Int /\ clock \in Int /\ seen[job[l].kid] >= t
    BY <1>1, <2>1, <2>2, Constants DEF ShownAfter, Inv, TypeInv
  <2> QED BY <2>1, <2>3, Constants
<1> QED BY <1>1, Invariance, PTL DEF Spec, AcceptedKeyRecent

\* A key that has been published for TTL plus Timeout is not refused as unknown.
THEOREM PublishedKnown == Spec => PublishedKeyKnown
<1> DEFINE Known == \A l \in Launch : Reaches(l, "unknown") /\ job[l].kid \in published =>
                        clock - since[job[l].kid] < TTL + Timeout
<1>1. ASSUME Inv, [Next]_vars PROVE Known
  <2> SUFFICES ASSUME NEW l \in Launch, Reaches(l, "unknown"), job[l].kid \in published
               PROVE  clock - since[job[l].kid] < TTL + Timeout
    OBVIOUS
  <2>1. PICK S \in SUBSET Key, t \in Int :
          /\ "unknown" = Verdict(job[l].kid, S)
          /\ ShownAfter(S, t) /\ clock - t < TTL + Timeout
    BY <1>1, Decision
  <2>2. job[l].kid \notin S
    BY <2>1 DEF Verdict
  <2>3. since[job[l].kid] \in Int /\ clock \in Int /\ since[job[l].kid] >= t
    BY <1>1, <2>1, <2>2, Constants DEF ShownAfter, Inv, TypeInv
  <2> QED BY <2>1, <2>3, Constants
<1> QED BY <1>1, Invariance, PTL DEF Spec, PublishedKeyKnown
=============================================================================
