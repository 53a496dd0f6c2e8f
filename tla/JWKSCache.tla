----------------------------- MODULE JWKSCache -----------------------------
(***************************************************************************)
(* signingKey of internal/service/lti_service.go: the cached key set of    *)
(* one platform, read and replaced under a mutex that is not held during   *)
(* the download, by any number of concurrent launches.                     *)
(*                                                                         *)
(* The platform is external: it publishes and withdraws keys at will, and  *)
(* answers with the keys of one moment of the download.  The client gives  *)
(* up after Timeout; parsing and storing the answer take no time.          *)
(***************************************************************************)
EXTENDS Integers, FiniteSets

CONSTANTS
    Key,        \* keys, each with its own kid
    Launch,     \* goroutines that verify an id_token
    TTL,        \* 15 minutes
    Timeout,    \* 10 seconds
    MaxTime     \* bound on the clock

ASSUME CacheAssumption ==
    TTL \in Nat \ {0} /\ Timeout \in Nat /\ MaxTime \in Nat

VARIABLES
    published,   \* keys the platform serves now
    seen,        \* seen[k]: when k was last published
    since,       \* since[k]: when k was last added
    cache,       \* keys and expiresAt
    job,         \* the locals of each goroutine
    clock        \* wall clock

platform == <<published, seen, since>>
vars == <<published, seen, since, cache, job, clock>>

Time == 0 .. MaxTime

\* Before any time that matters.
LongAgo == -(TTL + Timeout)

\* A missing entry behaves like an expired one.
Empty == [keys |-> {}, expiresAt |-> 0]

Fresh == clock < cache.expiresAt

\* Where a goroutine is, the kid it looks for, the keys of the answer and when
\* it asked.
Job ==
    [at: {"idle", "fetch", "answer", "accepted", "unknown", "failed"},
     kid: Key, keys: SUBSET Key, start: Time]

\* The cached or downloaded keys decide on the kid.
Verdict(k, keys) == IF k \in keys THEN "accepted" ELSE "unknown"

Init ==
    /\ published \in SUBSET Key
    /\ seen = [k \in Key |-> IF k \in published THEN 0 ELSE LongAgo]
    /\ since = [k \in Key |-> 0]
    /\ cache = Empty
    /\ job \in [Launch -> {j \in Job : j.at = "idle" /\ j.keys = {} /\ j.start = 0}]
    /\ clock = 0

-----------------------------------------------------------------------------
(* The platform and time.                                                  *)

Rotate ==
    /\ \E keys \in SUBSET Key :
        /\ published' = keys
        /\ since' = [k \in Key |->
                        IF k \in keys \ published THEN clock ELSE since[k]]
        /\ seen' = [k \in Key |->
                        IF k \in keys \cup published THEN clock ELSE seen[k]]
    /\ UNCHANGED <<cache, job, clock>>

Tick ==
    /\ clock < MaxTime
    /\ clock' = clock + 1
    /\ seen' = [k \in Key |-> IF k \in published THEN clock + 1 ELSE seen[k]]
    /\ UNCHANGED <<published, since, cache, job>>

-----------------------------------------------------------------------------
(* signingKey.                                                             *)

\* A fresh entry decides at once, also against an unknown kid.
LookupFresh(l) ==
    /\ job[l].at = "idle"
    /\ Fresh
    /\ job' = [job EXCEPT ![l].at = Verdict(job[l].kid, cache.keys)]
    /\ UNCHANGED <<platform, cache, clock>>

LookupStale(l) ==
    /\ job[l].at = "idle"
    /\ ~Fresh
    /\ job' = [job EXCEPT ![l].at = "fetch", ![l].start = clock]
    /\ UNCHANGED <<platform, cache, clock>>

InTime(l) == clock - job[l].start <= Timeout

\* External: the platform answers with what it publishes.
Answer(l) ==
    /\ job[l].at = "fetch"
    /\ InTime(l)
    /\ job' = [job EXCEPT ![l].at = "answer", ![l].keys = published]
    /\ UNCHANGED <<platform, cache, clock>>

\* Mutant: the keys of the answer are added to the cached ones.
StoreMerged(l) ==
    /\ job[l].at = "answer"
    /\ InTime(l)
    /\ cache' = [keys |-> cache.keys \cup job[l].keys, expiresAt |-> clock + TTL]
    /\ job' = [job EXCEPT ![l].at = Verdict(job[l].kid, job[l].keys)]
    /\ UNCHANGED <<platform, clock>>

\* The answer replaces the entry, also one that was stored in the meantime.
Store(l) ==
    /\ job[l].at = "answer"
    /\ InTime(l)
    /\ cache' = [keys |-> job[l].keys, expiresAt |-> clock + TTL]
    /\ job' = [job EXCEPT ![l].at = Verdict(job[l].kid, job[l].keys)]
    /\ UNCHANGED <<platform, clock>>

\* Mutant: a failure is cached as an empty key set.
FetchFailsCached(l) ==
    /\ job[l].at \in {"fetch", "answer"}
    /\ cache' = [keys |-> {}, expiresAt |-> clock + TTL]
    /\ job' = [job EXCEPT ![l].at = "failed"]
    /\ UNCHANGED <<platform, clock>>

\* The timeout, a refused URL, a bad status or an unreadable body: nothing is
\* stored.
FetchFails(l) ==
    /\ job[l].at \in {"fetch", "answer"}
    /\ job' = [job EXCEPT ![l].at = "failed"]
    /\ UNCHANGED <<platform, cache, clock>>

\* The goroutine takes the next launch.
NextLaunch(l) ==
    /\ job[l].at \in {"accepted", "unknown", "failed"}
    /\ \E k \in Key :
           job' = [job EXCEPT ![l] = [at |-> "idle", kid |-> k, keys |-> {}, start |-> 0]]
    /\ UNCHANGED <<platform, cache, clock>>

Next ==
    \/ Rotate \/ Tick
    \/ \E l \in Launch :
        \/ LookupFresh(l) \/ LookupStale(l) \/ Answer(l) \/ Store(l)
        \/ FetchFails(l) \/ NextLaunch(l)

Spec == Init /\ [][Next]_vars

-----------------------------------------------------------------------------

Reaches(l, verdict) == job[l].at # verdict /\ job'[l].at = verdict

\* However downloads overlap, and although a slow answer may overwrite a newer
\* one, signingKey accepts a key only if the platform published it within the
\* last TTL plus Timeout: a withdrawn key dies out.
AcceptedKeyRecent ==
    [][\A l \in Launch : Reaches(l, "accepted") =>
           clock - seen[job[l].kid] < TTL + Timeout]_vars

\* signingKey does not go on refusing a new key as unknown: one that has been
\* published for TTL plus Timeout is found, or the download fails.
PublishedKeyKnown ==
    [][\A l \in Launch : Reaches(l, "unknown") /\ job[l].kid \in published =>
           clock - since[job[l].kid] < TTL + Timeout]_vars
=============================================================================
