--------------------------- MODULE WebhookService ---------------------------
(***************************************************************************)
(* internal/service/webhook_service.go: Dispatch puts events on a bounded  *)
(* channel without waiting; a pool of workers takes them off and, one      *)
(* configuration after the other, posts the event and logs the outcome.    *)
(*                                                                         *)
(* An event is one call of Dispatch (SessionService makes at most one for  *)
(* a session).  Faults: the configurations cannot be read, a log entry     *)
(* cannot be written, the process ends with its channel and workers and is *)
(* started again, possibly with another allowlist or encryption key.  The  *)
(* receivers are external: a request may not arrive, and an answer may get *)
(* lost or come after the 10 s timeout.                                    *)
(***************************************************************************)
EXTENDS Integers, FiniteSets, OutboundPolicy

CONSTANTS
    Event, Config, Worker,
    url,          \* url[c]: target_url of configuration c
    Env,          \* WEBHOOK_ALLOWED_HOSTS and APP_ENCRYPTION_KEY that the
                  \* process may be started with, as [allow, key]
    Before,       \* webhook_configs when the process starts
    Capacity,     \* make(chan WebhookEvent, 100)
    Nil,
    MaxFaults     \* bound on the faults of a behaviour

ASSUME WebhookAssumption ==
    /\ \A v \in Env : v.allow # {} /\ v.key # Nil
    /\ Before = [c \in Config |-> Before[c]]
    /\ Capacity \in Nat
    /\ Nil \notin Event \cup Config
    /\ MaxFaults \in Nat

VARIABLES
    queue,       \* eventChan
    configs,     \* webhook_configs: the key that sealed the secret of c, or Nil
    env,         \* the settings of the running process
    work,        \* the locals of each worker
    logs,        \* logs[e][c]: is_success of the webhook_logs entries
    posts,       \* posts[e][c]: requests that reached the receiver
    accepted,    \* <<e, c>>: the receiver answered 2xx
    fate,        \* what became of each event
    due,         \* due[e]: the configurations when e was dispatched
    under,       \* under[e]: the settings when e was dispatched
    unlogged,    \* <<e, c>>: the log entry could not be written
    faults       \* faults so far

receivers == <<posts, accepted>>
history == <<fate, due, under>>
settings == <<configs, env>>
vars == <<queue, settings, work, logs, receivers, history, unlogged, faults>>

Fate == {"new", "pending", "dropped", "done", "lost"}

\* range configs (todo) and the entry to be logged (config, ok).
Locals ==
    [at: {"idle", "load", "send", "log"}, event: Event \cup {Nil},
     todo: SUBSET Config, config: Config \cup {Nil}, ok: BOOLEAN]

Idle == [at |-> "idle", event |-> Nil, todo |-> {}, config |-> Nil, ok |-> FALSE]

Registered == {c \in Config : configs[c] # Nil}

None == [e \in Event |-> [c \in Config |-> 0]]

Init ==
    /\ queue = << >>
    /\ env \in Env
    /\ configs = Before
    /\ work = [w \in Worker |-> Idle]
    /\ logs = [e \in Event |-> [c \in Config |-> << >>]]
    /\ posts = None
    /\ accepted = {}
    /\ fate = [e \in Event |-> "new"]
    /\ due = [e \in Event |-> {}]
    /\ under = [e \in Event |-> env]
    /\ unlogged = {}
    /\ faults = 0

-----------------------------------------------------------------------------

\* The select with a default: a full channel drops the event.
Dispatch(e) ==
    /\ fate[e] = "new"
    /\ due' = [due EXCEPT ![e] = Registered]
    /\ under' = [under EXCEPT ![e] = env]
    /\ IF Len(queue) < Capacity
       THEN /\ queue' = Append(queue, e)
            /\ fate' = [fate EXCEPT ![e] = "pending"]
       ELSE /\ fate' = [fate EXCEPT ![e] = "dropped"]
            /\ UNCHANGED queue
    /\ UNCHANGED <<settings, work, logs, receivers, unlogged, faults>>

\* Configurations are only ever added, and always active.
RegisterConfig(c) ==
    /\ configs[c] = Nil
    /\ ValidateURL(env.allow, url[c])
    /\ configs' = [configs EXCEPT ![c] = env.key]
    /\ UNCHANGED <<queue, env, work, logs, receivers, history, unlogged, faults>>

Take(w) ==
    /\ work[w].at = "idle"
    /\ queue # << >>
    /\ work' = [work EXCEPT ![w] = [Idle EXCEPT !.at = "load", !.event = Head(queue)]]
    /\ queue' = Tail(queue)
    /\ UNCHANGED <<settings, logs, receivers, history, unlogged, faults>>

LoadConfigs(w) ==
    /\ work[w].at = "load"
    /\ work' = [work EXCEPT ![w].at = "send", ![w].todo = Registered]
    /\ UNCHANGED <<queue, settings, logs, receivers, history, unlogged, faults>>

\* continue: the event is given up without a trace in the log.
LoadFails(w) ==
    /\ work[w].at = "load"
    /\ faults < MaxFaults
    /\ faults' = faults + 1
    /\ fate' = [fate EXCEPT ![work[w].event] = "lost"]
    /\ work' = [work EXCEPT ![w] = Idle]
    /\ UNCHANGED <<queue, settings, logs, receivers, due, under, unlogged>>

\* Mutant: a configuration without success is tried again.
ToLogRetrying(w, c, ok) ==
    work' = [work EXCEPT ![w].at = "log", ![w].todo = IF ok THEN @ \ {c} ELSE @,
                         ![w].config = c, ![w].ok = ok]

\* The entry that logWebhookResult is going to write.
ToLog(w, c, ok) ==
    work' = [work EXCEPT ![w].at = "log", ![w].todo = @ \ {c},
                         ![w].config = c, ![w].ok = ok]

\* The URL is checked and the secret opened again before every request.
Sendable(c) ==
    ValidateURL(env.allow, url[c]) /\ Decrypts(env.key, configs[c])

Sending(w, c) == work[w].at = "send" /\ c \in work[w].todo

\* Mutant: the first failure ends the loop over the configurations.
SendNothingStops(w, c) ==
    /\ Sending(w, c)
    /\ work' = [work EXCEPT ![w].at = "log", ![w].todo = {},
                            ![w].config = c, ![w].ok = FALSE]
    /\ UNCHANGED <<queue, settings, logs, receivers, history, unlogged, faults>>

\* The URL is refused, the secret unreadable or the receiver out of reach.
SendNothing(w, c) ==
    /\ Sending(w, c)
    /\ ToLog(w, c, FALSE)
    /\ UNCHANGED <<queue, settings, logs, receivers, history, unlogged, faults>>

\* Mutant: any answer is a success.
PostAnyStatus(w, c, accept, answered) ==
    LET e == work[w].event IN
    /\ Sending(w, c)
    /\ Sendable(c)
    /\ posts' = [posts EXCEPT ![e][c] = @ + 1]
    /\ accepted' = IF accept THEN accepted \cup {<<e, c>>} ELSE accepted
    /\ ToLog(w, c, answered)
    /\ UNCHANGED <<queue, settings, logs, history, unlogged, faults>>

\* Mutant: without an answer the event goes back to the channel.
PostRequeues(w, c, accept, answered) ==
    LET e == work[w].event IN
    /\ Sending(w, c)
    /\ Sendable(c)
    /\ posts' = [posts EXCEPT ![e][c] = @ + 1]
    /\ accepted' = IF accept THEN accepted \cup {<<e, c>>} ELSE accepted
    /\ ToLog(w, c, accept /\ answered)
    /\ queue' = IF answered THEN queue ELSE Append(queue, e)
    /\ UNCHANGED <<settings, logs, history, unlogged, faults>>

\* The request arrives; answered tells whether the answer came in time and
\* accept whether its status is 2xx.
Post(w, c, accept, answered) ==
    LET e == work[w].event IN
    /\ Sending(w, c)
    /\ Sendable(c)
    /\ posts' = [posts EXCEPT ![e][c] = @ + 1]
    /\ accepted' = IF accept THEN accepted \cup {<<e, c>>} ELSE accepted
    /\ ToLog(w, c, accept /\ answered)
    /\ UNCHANGED <<queue, settings, logs, history, unlogged, faults>>

\* Mutant: the worker goes on only after a success.
LogSuccess(w) ==
    LET l == work[w] IN
    /\ l.at = "log" /\ l.ok
    /\ logs' = [logs EXCEPT ![l.event][l.config] = Append(@, l.ok)]
    /\ work' = [work EXCEPT ![w].at = "send"]
    /\ UNCHANGED <<queue, settings, receivers, history, unlogged, faults>>

Log(w) ==
    LET l == work[w] IN
    /\ l.at = "log"
    /\ logs' = [logs EXCEPT ![l.event][l.config] = Append(@, l.ok)]
    /\ work' = [work EXCEPT ![w].at = "send"]
    /\ UNCHANGED <<queue, settings, receivers, history, unlogged, faults>>

LogFails(w) ==
    LET l == work[w] IN
    /\ l.at = "log"
    /\ faults < MaxFaults
    /\ faults' = faults + 1
    /\ unlogged' = unlogged \cup {<<l.event, l.config>>}
    /\ work' = [work EXCEPT ![w].at = "send"]
    /\ UNCHANGED <<queue, settings, logs, receivers, history>>

Finish(w) ==
    /\ work[w].at = "send"
    /\ work[w].todo = {}
    /\ fate' = [fate EXCEPT ![work[w].event] = "done"]
    /\ work' = [work EXCEPT ![w] = Idle]
    /\ UNCHANGED <<queue, settings, logs, receivers, due, under, unlogged, faults>>

\* Mutant: the channel survives a restart.
RestartResumes ==
    /\ faults < MaxFaults
    /\ faults' = faults + 1
    /\ env' \in Env
    /\ UNCHANGED queue
    /\ work' = [w \in Worker |-> Idle]
    /\ fate' = [e \in Event |-> IF fate[e] = "pending" /\ e \notin Range(queue)
                               THEN "lost" ELSE fate[e]]
    /\ UNCHANGED <<configs, logs, receivers, due, under, unlogged>>

\* A crash, or SIGTERM: server.Shutdown waits for requests, not for workers.
\* Nothing of the channel or of the workers survives.
Restart ==
    /\ faults < MaxFaults
    /\ faults' = faults + 1
    /\ env' \in Env
    /\ queue' = << >>
    /\ work' = [w \in Worker |-> Idle]
    /\ fate' = [e \in Event |-> IF fate[e] = "pending" THEN "lost" ELSE fate[e]]
    /\ UNCHANGED <<configs, logs, receivers, due, under, unlogged>>

WorkerStep(w) ==
    \/ Take(w) \/ LoadConfigs(w) \/ Log(w) \/ Finish(w)
    \/ \E c \in Config :
        \/ SendNothing(w, c)
        \/ \E accept, answered \in BOOLEAN : Post(w, c, accept, answered)

Next ==
    \/ \E e \in Event : Dispatch(e)
    \/ \E c \in Config : RegisterConfig(c)
    \/ \E w \in Worker : WorkerStep(w) \/ LoadFails(w) \/ LogFails(w)
    \/ Restart

Spec == Init /\ [][Next]_vars

\* Goroutines are scheduled and the timeout of the client ends every request.
FairSpec == Spec /\ \A w \in Worker : WF_vars(WorkerStep(w))

-----------------------------------------------------------------------------
(* Properties.                                                             *)

Holders(e) == {w \in Worker : work[w].event = e}
Places(e) == {i \in 1 .. Len(queue) : queue[i] = e}

\* No event is duplicated or forgotten by the workers: until its fate is
\* sealed it is in exactly one place, in the channel, which never holds more
\* than its capacity, or with one worker.
EventsAccounted ==
    /\ Len(queue) <= Capacity
    /\ \A e \in Event :
           Cardinality(Places(e)) + Cardinality(Holders(e)) =
               IF fate[e] = "pending" THEN 1 ELSE 0

\* Receivers hear of an event at most once, and never after it was given up,
\* also when the answer was lost, a log entry failed or the process was
\* restarted: sendWebhook never retries.
Promise ==
    INSTANCE Announcements WITH
        stage <- [e \in Event |-> CASE fate[e] = "new" -> "new"
                                    [] fate[e] = "pending" -> "open"
                                    [] OTHER -> "closed"],
        told <- posts
AnnouncementSpec == Promise!Spec

\* An event reaches only receivers that the process which accepted it could
\* call: its allowlist admits them and its key opens their secrets, whatever an
\* earlier process registered and whatever a later one would allow.
PolicyOfDispatch ==
    \A e \in Event, c \in Config : posts[e][c] > 0 =>
        ValidateURL(under[e].allow, url[c]) /\ Decrypts(under[e].key, configs[c])

\* webhook_logs tells the truth: one entry at most per event and receiver,
\* and an entry says success only when the receiver has accepted the event.
LogTruthful ==
    \A e \in Event, c \in Config :
        /\ Len(logs[e][c]) <= 1
        /\ TRUE \in Range(logs[e][c]) => <<e, c>> \in accepted

\* When a worker is done with an event, every configuration that existed when
\* it was dispatched has its log entry, whatever happened to the others, or
\* the entry itself could not be written.
EveryConfigServed ==
    \A e \in Event : fate[e] = "done" =>
        \A c \in due[e] : logs[e][c] # << >> \/ <<e, c>> \in unlogged

\* An accepted event is worked off in the end, however slow receivers are.
EventsFinish ==
    \A e \in Event : fate[e] = "pending" ~> fate[e] \in {"done", "lost"}
=============================================================================
