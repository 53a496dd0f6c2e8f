------------------------ MODULE WebhookServiceProofs ------------------------
(***************************************************************************)
(* Inv is inductive for WebhookService; its safety properties follow, and  *)
(* so does that the service implements Announcements, for any number of    *)
(* workers, events and receivers, any channel and any number of restarts.  *)
(*                                                                         *)
(* The argument: an event is in one place at a time (OnePlace), so the     *)
(* worker that holds it is the only one that posts and logs for it; that   *)
(* worker strikes a configuration off its list before it goes on, so what  *)
(* is still on the list has been neither posted nor logged (Unserved).     *)
(***************************************************************************)
EXTENDS WebhookService, FiniteSetTheorems, SequenceTheorems, TLAPS

InQueue(e) == \E i \in 1 .. Len(queue) : queue[i] = e
Held(e) == \E w \in Worker : work[w].event = e

TypeInv ==
    /\ queue \in Seq(Event)
    /\ env \in Env
    /\ configs = [c \in Config |-> configs[c]]
    /\ work \in [Worker -> Locals]
    /\ logs \in [Event -> [Config -> Seq(BOOLEAN)]]
    /\ posts \in [Event -> [Config -> Nat]]
    /\ fate \in [Event -> Fate]
    /\ due \in [Event -> SUBSET Config]

\* A worker has an event exactly while it is busy, and the configuration to be
\* logged is no longer on its list.
WorkerInv ==
    \A w \in Worker :
        /\ work[w].at = "idle" <=> work[w].event = Nil
        /\ work[w].at = "log" => work[w].config \in Config \ work[w].todo

\* Channel and workers hold an event once, and pending events are the ones
\* they hold.
OnePlace ==
    /\ Len(queue) <= Capacity
    /\ \A i, j \in 1 .. Len(queue) : queue[i] = queue[j] => i = j
    /\ \A v, w \in Worker : work[v].event = work[w].event /\ work[v].event # Nil => v = w
    /\ \A w \in Worker, i \in 1 .. Len(queue) : work[w].event # queue[i]
    /\ \A e \in Event : fate[e] = "pending" <=> InQueue(e) \/ Held(e)

\* Receiver c is still to be served with event e.
Ahead(e, c) ==
    \/ fate[e] = "new" \/ InQueue(e)
    \/ \E w \in Worker : work[w].event = e /\ (work[w].at = "load" \/ c \in work[w].todo)

Unserved ==
    \A e \in Event, c \in Config :
        /\ posts[e][c] <= 1
        /\ Ahead(e, c) => posts[e][c] = 0 /\ logs[e][c] = << >>

\* The entry that a worker is about to write is the first, and true.
NextEntry ==
    \A w \in Worker : work[w].at = "log" =>
        /\ logs[work[w].event][work[w].config] = << >>
        /\ work[w].ok => <<work[w].event, work[w].config>> \in accepted

\* Worker w has c on its list, or is about to log it, or has done so.
Covered(w, c) ==
    \/ c \in work[w].todo
    \/ work[w].at = "log" /\ c = work[w].config
    \/ logs[work[w].event][c] # << >>
    \/ <<work[w].event, c>> \in unlogged

\* What was registered at the dispatch is registered still when the event is
\* taken up, and covered from then on.
DueKept ==
    /\ \A e \in Event : InQueue(e) => due[e] \subseteq Registered
    /\ \A w \in Worker :
        /\ work[w].at = "load" => due[work[w].event] \subseteq Registered
        /\ work[w].at \in {"send", "log"} => \A c \in due[work[w].event] : Covered(w, c)

Inv ==
    /\ TypeInv /\ WorkerInv /\ OnePlace /\ Unserved /\ NextEntry /\ DueKept
    /\ LogTruthful /\ EveryConfigServed

\* What the proofs use of the assumption on the constants.
LEMMA Constants == Nil \notin Event /\ Nil \notin Config /\ Capacity \in Nat
  BY WebhookAssumption

\* A busy worker has an event.
LEMMA BusyEvent ==
    ASSUME TypeInv, WorkerInv
    PROVE  \A w \in Worker : work[w].at # "idle" => work[w].event \in Event
  BY DEF TypeInv, WorkerInv, Locals

\* The initial state: nothing sent, nothing logged, everybody idle.
LEMMA InitInv == Init => Inv
<1> SUFFICES ASSUME Init PROVE Inv
  OBVIOUS
<1> USE DEF Init
<1>1. TypeInv
  BY WebhookAssumption DEF TypeInv, Idle, Locals, None, Fate
<1>2. WorkerInv /\ OnePlace
  BY Constants DEF WorkerInv, OnePlace, Idle, InQueue, Held
<1>3. Unserved
  BY DEF Unserved, None
<1>4. NextEntry /\ DueKept
  BY DEF NextEntry, DueKept, Idle, InQueue
<1>5. LogTruthful /\ EveryConfigServed
  BY DEF LogTruthful, EveryConfigServed, Range
<1> QED BY <1>1, <1>2, <1>3, <1>4, <1>5 DEF Inv

-----------------------------------------------------------------------------
(* The steps that do not concern a worker.                                 *)

\* Dispatch, into the channel or dropped: the event is nowhere yet.
LEMMA DispatchStep ==
    ASSUME Inv, NEW e \in Event, Dispatch(e)
    PROVE  Inv'
<1> USE DEF Inv, Dispatch, settings, receivers
<1>1. CASE Len(queue) < Capacity
  <2>1. /\ Len(queue) \in Nat
        /\ queue' \in Seq(Event) /\ Len(queue') = Len(queue) + 1
        /\ \A i \in 1 .. Len(queue) : queue'[i] = queue[i]
        /\ queue'[Len(queue) + 1] = e
    <3> HIDE DEF Inv, Dispatch
    <3>1. queue \in Seq(Event) /\ queue' = Append(queue, e)
      BY <1>1 DEF Inv, TypeInv, Dispatch
    <3> QED BY <3>1, AppendProperties, LenProperties
  <2>2. \A x \in Event : InQueue(x)' <=> InQueue(x) \/ x = e
    <3> HIDE DEF Inv, Dispatch
    <3>1. 1 .. Len(queue') = (1 .. Len(queue)) \cup {Len(queue) + 1}
      BY <2>1
    <3> QED BY <2>1, <3>1 DEF InQueue
  <2>3. TypeInv' /\ WorkerInv'
    BY <1>1, <2>1 DEF TypeInv, WorkerInv, Fate, Registered
  <2>4. ~InQueue(e) /\ ~Held(e)
    BY DEF OnePlace, TypeInv
  <2>5. OnePlace'
    <3>1. UNCHANGED work /\ fate' = [fate EXCEPT ![e] = "pending"]
      BY <1>1
    <3>2. \A x \in Event : Held(x)' <=> Held(x)
      BY <3>1 DEF Held
    <3>3. /\ \A i \in 1 .. Len(queue) : queue[i] # e
          /\ \A v \in Worker : work[v].event # e
      BY <2>4 DEF InQueue, Held
    <3>4. \A i \in 1 .. Len(queue') : i \in 1 .. Len(queue) \/ i = Len(queue) + 1
      BY <2>1
    <3>5. Len(queue') <= Capacity
      BY <1>1, <2>1, Constants
    <3> HIDE DEF Dispatch
    <3>6. \A i, j \in 1 .. Len(queue') : queue'[i] = queue'[j] => i = j
      BY <2>1, <3>3, <3>4 DEF OnePlace
    <3>7. \A v \in Worker, i \in 1 .. Len(queue') : work[v].event # queue'[i]
      BY <2>1, <3>3, <3>4 DEF OnePlace
    <3>8. \A x \in Event : fate'[x] = "pending" <=> InQueue(x)' \/ Held(x)'
      BY <2>2, <3>1, <3>2 DEF OnePlace, TypeInv
    <3> QED BY <3>1, <3>5, <3>6, <3>7, <3>8 DEF OnePlace
  <2>6. Unserved'
    BY <1>1, <2>2 DEF Unserved, Ahead, TypeInv
  <2>7. NextEntry'
    BY DEF NextEntry
  <2>8. DueKept'
    <3>1. UNCHANGED <<configs, work, logs, unlogged>> /\ due' = [due EXCEPT ![e] = Registered]
      OBVIOUS
    <3>2. \A v \in Worker : work[v].event # e
      BY <2>4 DEF Held
    <3> HIDE DEF Dispatch
    <3> QED BY <2>2, <3>1, <3>2, BusyEvent DEF DueKept, Covered, Registered, TypeInv
  <2>9. LogTruthful' /\ EveryConfigServed'
    BY <1>1 DEF LogTruthful, EveryConfigServed, TypeInv
  <2> QED BY <2>3, <2>5, <2>6, <2>7, <2>8, <2>9
<1>2. CASE ~(Len(queue) < Capacity)
  <2>1. \A x \in Event : InQueue(x)' <=> InQueue(x)
    BY <1>2 DEF InQueue
  <2>2. ~InQueue(e) /\ ~Held(e)
    BY DEF OnePlace, TypeInv
  <2>3. TypeInv' /\ WorkerInv'
    BY <1>2 DEF TypeInv, WorkerInv, Fate, Registered
  <2>4. OnePlace'
    BY <1>2, <2>1, <2>2 DEF OnePlace, TypeInv, Held
  <2>5. Unserved'
    BY <1>2, <2>1 DEF Unserved, Ahead, TypeInv
  <2>6. NextEntry'
    BY DEF NextEntry
  <2>7. DueKept'
    <3>1. UNCHANGED <<configs, work, logs, unlogged>> /\ due' = [due EXCEPT ![e] = Registered]
      OBVIOUS
    <3>2. \A v \in Worker : work[v].event # e
      BY <2>2 DEF Held
    <3> HIDE DEF Dispatch
    <3> QED BY <2>1, <2>2, <3>1, <3>2, BusyEvent DEF DueKept, Covered, Registered, TypeInv
  <2>8. LogTruthful' /\ EveryConfigServed'
    BY <1>2 DEF LogTruthful, EveryConfigServed, TypeInv
  <2> QED BY <2>3, <2>4, <2>5, <2>6, <2>7, <2>8
<1> QED BY <1>1, <1>2

\* A new configuration: what was registered stays registered.
LEMMA RegisterStep ==
    ASSUME Inv, NEW c \in Config, RegisterConfig(c)
    PROVE  Inv'
<1> USE DEF Inv, RegisterConfig, receivers, history
<1>1. TypeInv' /\ WorkerInv'
  BY DEF TypeInv, WorkerInv
<1>2. Registered \subseteq Registered'
  BY DEF Registered, TypeInv
<1>3. OnePlace' /\ Unserved' /\ NextEntry'
  BY DEF OnePlace, Unserved, NextEntry, Ahead, InQueue, Held
<1>4. DueKept'
  BY <1>2 DEF DueKept, Covered, InQueue
<1>5. LogTruthful' /\ EveryConfigServed'
  BY DEF LogTruthful, EveryConfigServed
<1> QED BY <1>1, <1>3, <1>4, <1>5

\* A restart: what was pending is lost and held nowhere.
LEMMA RestartStep ==
    ASSUME Inv, Restart
    PROVE  Inv'
<1> USE DEF Inv, Restart, receivers
<1>1. \A e \in Event : ~InQueue(e)' /\ ~Held(e)'
  BY Constants DEF InQueue, Held, Idle
<1>2. TypeInv' /\ WorkerInv'
  BY DEF TypeInv, WorkerInv, Idle, Locals, Fate
<1>3. OnePlace'
  BY <1>1, Constants DEF OnePlace, Idle, TypeInv
<1>4. Unserved'
  BY <1>1 DEF Unserved, Ahead, Held, TypeInv
<1>5. NextEntry' /\ DueKept'
  BY <1>1 DEF NextEntry, DueKept, Idle
<1>6. LogTruthful' /\ EveryConfigServed'
  BY DEF LogTruthful, EveryConfigServed, TypeInv
<1> QED BY <1>2, <1>3, <1>4, <1>5, <1>6

-----------------------------------------------------------------------------
(* The steps of a worker.                                                  *)

\* A worker takes the head of the channel.
LEMMA TakeStep ==
    ASSUME Inv, NEW w \in Worker, Take(w)
    PROVE  Inv'
<1> USE DEF Inv, Take, settings, receivers, history
<1> DEFINE e == Head(queue)
<1>1. /\ e \in Event /\ e = queue[1] /\ Len(queue) \in Nat \ {0}
      /\ queue' \in Seq(Event) /\ Len(queue') = Len(queue) - 1
      /\ \A i \in 1 .. Len(queue') : queue'[i] = queue[i + 1]
  BY HeadTailProperties, EmptySeq DEF TypeInv
<1>2. /\ work'[w] = [at |-> "load", event |-> e, todo |-> {}, config |-> Nil, ok |-> FALSE]
      /\ \A v \in Worker : v # w => work'[v] = work[v]
  BY DEF TypeInv, Idle
<1>3. work[w].event = Nil /\ work[w] \in Locals
  BY DEF WorkerInv, TypeInv
<1>4. TypeInv'
  BY <1>1 DEF TypeInv, Locals, Idle, Registered
<1>5. WorkerInv'
  BY <1>1, <1>2, Constants DEF WorkerInv
<1>6. InQueue(e)
  BY <1>1 DEF InQueue
<1>7. \A x \in Event : InQueue(x)' <=> InQueue(x) /\ x # e
  <2> SUFFICES ASSUME NEW x \in Event PROVE InQueue(x)' <=> InQueue(x) /\ x # e
    OBVIOUS
  <2>1. ASSUME NEW i \in 1 .. Len(queue), queue[i] = x, x # e PROVE InQueue(x)'
    <3>1. i # 1 /\ i - 1 \in 1 .. Len(queue') /\ queue'[i - 1] = x
      BY <1>1, <2>1
    <3> QED BY <3>1 DEF InQueue
  <2>2. ASSUME NEW i \in 1 .. Len(queue'), queue'[i] = x PROVE InQueue(x) /\ x # e
    <3>1. i + 1 \in 1 .. Len(queue) /\ queue[i + 1] = x /\ i + 1 # 1
      BY <1>1, <2>2
    <3> QED BY <1>1, <3>1 DEF InQueue, OnePlace
  <2> QED BY <2>1, <2>2 DEF InQueue
<1>8. \A x \in Event : Held(x)' <=> Held(x) \/ x = e
  BY <1>2, <1>3, Constants DEF Held
<1>9. OnePlace'
  <2> HIDE DEF Take, e
  <2>1. fate' = fate /\ OnePlace
    BY DEF Take
  <2>2. \A i \in 1 .. Len(queue') : i + 1 \in 1 .. Len(queue) /\ i \in Nat
    BY <1>1
  <2>3. Len(queue') <= Capacity
    BY <1>1, <2>1, Constants DEF OnePlace
  <2>4. \A i, j \in 1 .. Len(queue') : queue'[i] = queue'[j] => i = j
    BY <1>1, <2>1, <2>2 DEF OnePlace
  <2>5. \A v \in Worker : v # w => work[v].event # e
    BY <1>1, <2>1 DEF OnePlace
  <2>6. \A v, x \in Worker :
            work'[v].event = work'[x].event /\ work'[v].event # Nil => v = x
    BY <1>2, <2>1, <2>5 DEF OnePlace
  <2>7. \A i \in 1 .. Len(queue') : queue'[i] # e
    BY <1>1, <2>1, <2>2 DEF OnePlace
  <2>8. \A v \in Worker, i \in 1 .. Len(queue') : work'[v].event # queue'[i]
    BY <1>1, <1>2, <2>1, <2>2, <2>7 DEF OnePlace
  <2>9. \A x \in Event : fate'[x] = "pending" <=> InQueue(x)' \/ Held(x)'
    BY <1>6, <1>7, <1>8, <2>1 DEF OnePlace
  <2> QED BY <2>3, <2>4, <2>6, <2>8, <2>9 DEF OnePlace
<1>10. Unserved'
  BY <1>2, <1>3, <1>6, <1>7 DEF Unserved, Ahead
<1>11. NextEntry'
  BY <1>2 DEF NextEntry
<1>12. DueKept'
  <2>1. UNCHANGED <<configs, logs, unlogged, due>>
    OBVIOUS
  <2> HIDE DEF Take
  <2> QED BY <1>1, <1>2, <1>6, <1>7, <2>1 DEF DueKept, Covered, Registered
<1>13. LogTruthful' /\ EveryConfigServed'
  BY DEF LogTruthful, EveryConfigServed
<1> QED BY <1>4, <1>5, <1>9, <1>10, <1>11, <1>12, <1>13

\* A worker that goes on with the same event leaves OnePlace alone.
LEMMA SameEvent ==
    ASSUME TypeInv, OnePlace, NEW w \in Worker,
           UNCHANGED <<queue, fate>>,
           work'[w].event = work[w].event,
           \A v \in Worker : v # w => work'[v] = work[v]
    PROVE  /\ OnePlace'
           /\ \A e \in Event : (InQueue(e)' <=> InQueue(e)) /\ (Held(e)' <=> Held(e))
<1>1. \A e \in Event : (InQueue(e)' <=> InQueue(e)) /\ (Held(e)' <=> Held(e))
  BY DEF InQueue, Held
<1>2. \A v \in Worker : work'[v].event = work[v].event
  OBVIOUS
<1> QED BY <1>1, <1>2 DEF OnePlace

\* The list of a worker is what is registered, all of what was due included.
LEMMA LoadStep ==
    ASSUME Inv, NEW w \in Worker, LoadConfigs(w)
    PROVE  Inv'
<1> USE DEF Inv
<1>1. work[w] \in Locals /\ work[w].at = "load" /\ work[w].event \in Event
  BY DEF TypeInv, WorkerInv, Locals, LoadConfigs
<1>2. /\ work'[w].at = "send" /\ work'[w].event = work[w].event
      /\ work'[w].todo = Registered
      /\ \A v \in Worker : v # w => work'[v] = work[v]
  BY <1>1 DEF TypeInv, LoadConfigs, Locals
<1>3. UNCHANGED <<queue, configs, env, logs, posts, accepted, fate, due, unlogged>>
  BY DEF LoadConfigs, settings, receivers, history
<1>4. TypeInv' /\ WorkerInv'
  <2>1. work' \in [Worker -> Locals]
    BY <1>1 DEF TypeInv, LoadConfigs, Locals, Registered
  <2>2. TypeInv'
    BY <1>3, <2>1 DEF TypeInv
  <2>3. WorkerInv'
    BY <1>1, <1>2, Constants DEF WorkerInv
  <2> QED BY <2>2, <2>3
<1>5. OnePlace' /\ \A e \in Event : InQueue(e)' <=> InQueue(e)
  BY <1>2, <1>3, SameEvent
<1>6. Unserved'
  BY <1>1, <1>2, <1>3, <1>5 DEF Unserved, Ahead
<1>7. NextEntry'
  BY <1>2, <1>3 DEF NextEntry
<1>8. DueKept'
  BY <1>1, <1>2, <1>3, <1>5 DEF DueKept, Covered, Registered
<1>9. LogTruthful' /\ EveryConfigServed'
  BY <1>3 DEF LogTruthful, EveryConfigServed
<1> QED BY <1>4, <1>5, <1>6, <1>7, <1>8, <1>9

\* A worker that is through with its event, for better or worse, is idle again
\* and the event is nowhere.
LEMMA ReleaseStep ==
    ASSUME Inv, NEW w \in Worker, work[w].at \in {"load", "send"},
           NEW f \in {"done", "lost"},
           fate' = [fate EXCEPT ![work[w].event] = f],
           work' = [work EXCEPT ![w] = Idle],
           UNCHANGED <<queue, configs, env, logs, posts, accepted, due, unlogged>>,
           f = "done" => work[w].at = "send" /\ work[w].todo = {}
    PROVE  Inv'
<1> USE DEF Inv
<1>1. work[w] \in Locals /\ work[w].event \in Event
  BY BusyEvent DEF TypeInv
<1> DEFINE e == work[w].event
<1>2. /\ work'[w].at = "idle" /\ work'[w].event = Nil /\ work'[w].todo = {}
      /\ \A v \in Worker : v # w => work'[v] = work[v]
  BY DEF TypeInv, Idle
<1>3. TypeInv' /\ WorkerInv'
  <2>1. work' \in [Worker -> Locals] /\ fate' \in [Event -> Fate]
    BY <1>1 DEF TypeInv, Locals, Idle, Fate
  <2>2. WorkerInv'
    BY <1>2 DEF WorkerInv
  <2> QED BY <2>1, <2>2 DEF TypeInv, Registered
<1>4. \A x \in Event : InQueue(x)' <=> InQueue(x)
  BY DEF InQueue
<1>5. \A x \in Event : Held(x)' <=> Held(x) /\ x # e
  BY <1>1, <1>2, Constants DEF Held, OnePlace
<1>6. ~InQueue(e)
  BY DEF InQueue, OnePlace
<1>7. \A x \in Event : fate'[x] = IF x = e THEN f ELSE fate[x]
  BY DEF TypeInv
<1>8. OnePlace'
  <2>1. \A i \in 1 .. Len(queue) : queue[i] # Nil
    BY Constants DEF TypeInv
  <2> QED BY <1>2, <1>4, <1>5, <1>6, <1>7, <2>1 DEF OnePlace
<1>9. Unserved'
  BY <1>2, <1>4, <1>7 DEF Unserved, Ahead
<1>10. NextEntry'
  BY <1>2 DEF NextEntry
<1>11. DueKept'
  BY <1>2, <1>4 DEF DueKept, Covered, Registered
<1>12. LogTruthful'
  BY DEF LogTruthful
<1>13. EveryConfigServed'
  <2>1. f = "done" => \A c \in due[e] : logs[e][c] # << >> \/ <<e, c>> \in unlogged
    BY DEF DueKept, Covered
  <2> QED BY <1>7, <2>1 DEF EveryConfigServed
<1> QED BY <1>3, <1>8, <1>9, <1>10, <1>11, <1>12, <1>13

\* The event is given up because the configurations cannot be read.
LEMMA LoadFailsStep ==
    ASSUME Inv, NEW w \in Worker, LoadFails(w)
    PROVE  Inv'
  BY ReleaseStep DEF LoadFails, settings, receivers

\* The event is done: the list is empty, so what was due has been served.
LEMMA FinishStep ==
    ASSUME Inv, NEW w \in Worker, Finish(w)
    PROVE  Inv'
  BY ReleaseStep DEF Finish, settings, receivers

\* A worker strikes configuration c off its list and is going to log a success
\* only if the receiver has accepted the event.
LEMMA StrikeStep ==
    ASSUME Inv, NEW w \in Worker, NEW c \in Config, Sending(w, c),
           work' \in [Worker -> Locals],
           work'[w].at = "log", work'[w].event = work[w].event,
           work'[w].todo = work[w].todo \ {c}, work'[w].config = c,
           \A v \in Worker : v # w => work'[v] = work[v],
           UNCHANGED <<queue, configs, env, logs, fate, due, unlogged>>,
           posts' \in [Event -> [Config -> Nat]],
           \A x \in Event, d \in Config :
               posts'[x][d] = posts[x][d]
               \/ (x = work[w].event /\ d = c /\ posts'[x][d] = posts[x][d] + 1),
           accepted \subseteq accepted',
           work'[w].ok => <<work[w].event, c>> \in accepted'
    PROVE  Inv'
<1> USE DEF Inv
<1>1. /\ work[w] \in Locals /\ work[w].at = "send" /\ work[w].event \in Event
      /\ c \in work[w].todo
  BY BusyEvent DEF TypeInv, Sending
<1>4. TypeInv' /\ WorkerInv'
  <2>2. WorkerInv'
    BY <1>1, Constants DEF WorkerInv
  <2> QED BY <2>2 DEF TypeInv
<1>5. OnePlace' /\ \A e \in Event : InQueue(e)' <=> InQueue(e)
  BY SameEvent
<1>6. posts[work[w].event][c] = 0 /\ logs[work[w].event][c] = << >>
  BY <1>1 DEF Unserved, Ahead
<1>7. \A e \in Event, d \in Config :
          Ahead(e, d)' => Ahead(e, d) /\ ~(e = work[w].event /\ d = c)
  <2> SUFFICES ASSUME NEW e \in Event, NEW d \in Config, Ahead(e, d)'
               PROVE  Ahead(e, d) /\ ~(e = work[w].event /\ d = c)
    OBVIOUS
  <2>1. Ahead(e, d)
    BY <1>1, <1>5 DEF Ahead
  <2>2. CASE e = work[w].event
    <3>1. ~InQueue(e) /\ fate[e] # "new"
      BY <1>1, <2>2 DEF OnePlace, InQueue, Held
    <3>2. \A v \in Worker : work'[v].event = e => v = w
      BY <1>1, <2>2, Constants DEF OnePlace
    <3> QED BY <1>5, <2>1, <3>1, <3>2 DEF Ahead
  <2> QED BY <2>1, <2>2
<1>8. Unserved'
  <2> SUFFICES ASSUME NEW e \in Event, NEW d \in Config
               PROVE  /\ posts'[e][d] <= 1
                      /\ Ahead(e, d)' => posts'[e][d] = 0 /\ logs'[e][d] = << >>
    BY DEF Unserved
  <2>1. CASE posts'[e][d] = posts[e][d]
    BY <1>7, <2>1 DEF Unserved
  <2>2. CASE e = work[w].event /\ d = c /\ posts'[e][d] = posts[e][d] + 1
    BY <1>6, <1>7, <2>2
  <2> QED BY <2>1, <2>2
<1>9. NextEntry'
  BY <1>6 DEF NextEntry
<1>10. DueKept'
  <2>1. ASSUME NEW v \in Worker, work'[v].at \in {"send", "log"}, NEW d \in due[work'[v].event]
        PROVE  Covered(v, d)'
    <3>1. CASE v = w
      <4>1. d \in due[work[w].event] /\ Covered(w, d)
        BY <1>1, <2>1, <3>1 DEF DueKept
      <4> QED BY <1>1, <3>1, <4>1 DEF Covered
    <3>2. CASE v # w
      <4>1. Covered(v, d)
        BY <2>1, <3>2 DEF DueKept
      <4> QED BY <3>2, <4>1 DEF Covered
    <3> QED BY <3>1, <3>2
  <2> QED BY <1>1, <1>5, <2>1 DEF DueKept, Registered
<1>11. LogTruthful' /\ EveryConfigServed'
  BY DEF LogTruthful, EveryConfigServed
<1> QED BY <1>4, <1>5, <1>8, <1>9, <1>10, <1>11

\* What ToLog does to the locals of a worker that is sending.
LEMMA ToLogStep ==
    ASSUME TypeInv, NEW w \in Worker, NEW c \in Config, Sending(w, c),
           NEW ok \in BOOLEAN, ToLog(w, c, ok)
    PROVE  /\ work' \in [Worker -> Locals]
           /\ work'[w].at = "log" /\ work'[w].event = work[w].event
           /\ work'[w].todo = work[w].todo \ {c} /\ work'[w].config = c
           /\ \A v \in Worker : v # w => work'[v] = work[v]
           /\ work'[w].ok = ok
<1>1. work[w] \in Locals
  BY DEF TypeInv
<1> QED BY <1>1 DEF TypeInv, ToLog, Locals

\* A configuration for which nothing is sent: the receivers hear nothing.
LEMMA SendNothingStep ==
    ASSUME Inv, NEW w \in Worker, NEW c \in Config, SendNothing(w, c)
    PROVE  Inv'
<1>1. /\ Sending(w, c) /\ ToLog(w, c, FALSE)
      /\ UNCHANGED <<queue, configs, env, logs, posts, accepted, fate, due, unlogged>>
  BY DEF SendNothing, settings, receivers, history
<1>2. posts' \in [Event -> [Config -> Nat]]
  BY <1>1 DEF Inv, TypeInv
<1>3. /\ work' \in [Worker -> Locals]
      /\ work'[w].at = "log" /\ work'[w].event = work[w].event
      /\ work'[w].todo = work[w].todo \ {c} /\ work'[w].config = c
      /\ \A v \in Worker : v # w => work'[v] = work[v]
  BY <1>1, ToLogStep DEF Inv
<1>4. work'[w].ok = FALSE
  BY <1>1, ToLogStep DEF Inv
<1> QED BY <1>1, <1>2, <1>3, <1>4, StrikeStep

\* A request that arrives: the receiver has one more, and has accepted the
\* event when success is going to be logged.
LEMMA PostStep ==
    ASSUME Inv, NEW w \in Worker, NEW c \in Config, NEW accept \in BOOLEAN,
           NEW answered \in BOOLEAN, Post(w, c, accept, answered)
    PROVE  Inv'
<1> DEFINE e == work[w].event
<1>1. e \in Event
  BY BusyEvent DEF Post, Sending, Inv
<1>2. posts' = [posts EXCEPT ![e][c] = @ + 1] /\ posts \in [Event -> [Config -> Nat]]
  BY DEF Post, Inv, TypeInv
<1>3. posts[e] \in [Config -> Nat] /\ posts[e][c] + 1 \in Nat
  BY <1>1, <1>2
<1>4. posts' \in [Event -> [Config -> Nat]]
  BY <1>1, <1>2, <1>3
<1>5. \A x \in Event, d \in Config :
          posts'[x][d] = posts[x][d] \/ (x = e /\ d = c /\ posts'[x][d] = posts[x][d] + 1)
  <2> SUFFICES ASSUME NEW x \in Event, NEW d \in Config
               PROVE  \/ posts'[x][d] = posts[x][d]
                      \/ x = e /\ d = c /\ posts'[x][d] = posts[x][d] + 1
    OBVIOUS
  <2>1. CASE x = e
    BY <1>1, <1>2, <1>3, <2>1
  <2>2. CASE x # e
    BY <1>2, <2>2
  <2> QED BY <2>1, <2>2
<1>6. /\ Sending(w, c) /\ ToLog(w, c, accept /\ answered)
      /\ UNCHANGED <<queue, configs, env, logs, fate, due, unlogged>>
  BY DEF Post, settings, history
<1>7. /\ work' \in [Worker -> Locals]
      /\ work'[w].at = "log" /\ work'[w].event = e
      /\ work'[w].todo = work[w].todo \ {c} /\ work'[w].config = c
      /\ \A v \in Worker : v # w => work'[v] = work[v]
      /\ work'[w].ok = (accept /\ answered)
  <2>1. (accept /\ answered) \in BOOLEAN
    OBVIOUS
  <2> QED BY <1>6, <2>1, ToLogStep DEF Inv
<1>8. accepted \subseteq accepted' /\ (work'[w].ok => <<e, c>> \in accepted')
  BY <1>7 DEF Post
<1> QED BY <1>4, <1>5, <1>6, <1>7, <1>8, StrikeStep

\* A configuration stays covered when its entry is written, or cannot be.
LEMMA CoveredKept ==
    ASSUME NEW v \in Worker, NEW c \in Config, Covered(v, c),
           work'[v].event = work[v].event, work'[v].todo = work[v].todo,
           \/ work'[v] = work[v]
           \/ logs'[work[v].event][work[v].config] # << >>
           \/ <<work[v].event, work[v].config>> \in unlogged',
           logs[work[v].event][c] # << >> => logs'[work[v].event][c] # << >>,
           unlogged \subseteq unlogged'
    PROVE  Covered(v, c)'
  BY DEF Covered

\* The first entry of a log is the only one.
LEMMA FirstEntry == ASSUME NEW ok PROVE Append(<< >>, ok) = <<ok>>
  OBVIOUS

\* The log entry of a worker, written or not.
LEMMA LoggedStep ==
    ASSUME Inv, NEW w \in Worker, work[w].at = "log",
           work' = [work EXCEPT ![w].at = "send"],
           UNCHANGED <<queue, configs, env, posts, accepted, fate, due>>,
           \/ /\ logs' = [logs EXCEPT ![work[w].event][work[w].config] = Append(@, work[w].ok)]
              /\ UNCHANGED unlogged
           \/ /\ unlogged' = unlogged \cup {<<work[w].event, work[w].config>>}
              /\ UNCHANGED logs
    PROVE  Inv'
<1> USE DEF Inv
<1> DEFINE e == work[w].event
           k == work[w].config
<1>1. /\ work[w] \in Locals /\ e \in Event /\ k \in Config /\ k \notin work[w].todo
      /\ work[w].ok \in BOOLEAN
  BY BusyEvent DEF TypeInv, WorkerInv, Locals
<1>2. /\ work'[w].at = "send" /\ work'[w].event = e /\ work'[w].todo = work[w].todo
      /\ \A v \in Worker : v # w => work'[v] = work[v]
  BY <1>1 DEF TypeInv, Locals
<1>3. /\ unlogged \subseteq unlogged'
      /\ \A x \in Event, d \in Config : x # e \/ d # k => logs'[x][d] = logs[x][d]
      /\ \/ logs'[e][k] = Append(logs[e][k], work[w].ok)
         \/ logs'[e][k] = logs[e][k] /\ <<e, k>> \in unlogged'
      /\ logs' \in [Event -> [Config -> Seq(BOOLEAN)]]
  <2>1. CASE /\ logs' = [logs EXCEPT ![e][k] = Append(@, work[w].ok)]
             /\ UNCHANGED unlogged
    <3>1. logs \in [Event -> [Config -> Seq(BOOLEAN)]] /\ logs[e][k] \in Seq(BOOLEAN)
      BY <1>1 DEF TypeInv
    <3>2. Append(logs[e][k], work[w].ok) \in Seq(BOOLEAN)
      BY <1>1, <3>1, AppendProperties
    <3> QED BY <1>1, <2>1, <3>1, <3>2
  <2>2. CASE unlogged' = unlogged \cup {<<e, k>>} /\ UNCHANGED logs
    BY <2>2 DEF TypeInv
  <2> QED BY <2>1, <2>2
<1>4. logs[e][k] = << >> /\ (work[w].ok => <<e, k>> \in accepted)
  BY DEF NextEntry
<1>5. TypeInv' /\ WorkerInv'
  <2>1. work' \in [Worker -> Locals]
    BY <1>1 DEF TypeInv, Locals
  <2>2. WorkerInv'
    BY <1>1, <1>2, Constants DEF WorkerInv
  <2> QED BY <1>3, <2>1, <2>2 DEF TypeInv
<1>6. OnePlace' /\ \A x \in Event : InQueue(x)' <=> InQueue(x)
  BY <1>2, SameEvent
<1>7. \A x \in Event, d \in Config : Ahead(x, d)' => Ahead(x, d) /\ ~(x = e /\ d = k)
  <2> SUFFICES ASSUME NEW x \in Event, NEW d \in Config, Ahead(x, d)'
               PROVE  Ahead(x, d) /\ ~(x = e /\ d = k)
    OBVIOUS
  <2>1. Ahead(x, d)
    BY <1>1, <1>2, <1>6 DEF Ahead
  <2>2. CASE x = e
    <3>1. ~InQueue(x) /\ fate[x] # "new"
      BY <1>1, <2>2 DEF OnePlace, InQueue, Held
    <3>2. \A v \in Worker : work'[v].event = x => v = w
      BY <1>1, <1>2, <2>2, Constants DEF OnePlace
    <3> QED BY <1>1, <1>2, <1>6, <2>1, <3>1, <3>2 DEF Ahead
  <2> QED BY <2>1, <2>2
<1>8. Unserved'
  <2> HIDE DEF e, k
  <2> SUFFICES ASSUME NEW x \in Event, NEW d \in Config
               PROVE  /\ posts[x][d] <= 1
                      /\ Ahead(x, d)' => posts[x][d] = 0 /\ logs'[x][d] = << >>
    BY DEF Unserved
  <2>1. posts[x][d] <= 1 /\ (Ahead(x, d) => posts[x][d] = 0 /\ logs[x][d] = << >>)
    BY DEF Unserved
  <2>2. Ahead(x, d)' => Ahead(x, d) /\ logs'[x][d] = logs[x][d]
    BY <1>3, <1>7
  <2> QED BY <2>1, <2>2
<1>9. NextEntry'
  <2>1. \A v \in Worker : v # w /\ work[v].at # "idle" => work[v].event # e
    BY <1>1, Constants DEF OnePlace
  <2>2. \A v \in Worker : work[v].at = "log" => work[v].config \in Config
    BY DEF WorkerInv
  <2> SUFFICES ASSUME NEW v \in Worker, work'[v].at = "log"
               PROVE  /\ logs'[work'[v].event][work'[v].config] = << >>
                      /\ work'[v].ok => <<work'[v].event, work'[v].config>> \in accepted
    BY DEF NextEntry
  <2>3. v # w /\ work'[v] = work[v] /\ work[v].at = "log"
    BY <1>2
  <2>4. work[v].event \in Event /\ work[v].event # e /\ work[v].config \in Config
    BY <2>1, <2>2, <2>3, BusyEvent
  <2>5. logs'[work[v].event][work[v].config] = logs[work[v].event][work[v].config]
    BY <1>3, <2>4
  <2> QED BY <2>3, <2>5 DEF NextEntry
<1>10. DueKept'
  <2>1. \A x \in Event, d \in Config :
            logs[x][d] # << >> => logs'[x][d] # << >>
    <3> SUFFICES ASSUME NEW x \in Event, NEW d \in Config, logs[x][d] # << >>
                 PROVE  logs'[x][d] # << >>
      OBVIOUS
    <3>1. x # e \/ d # k
      BY <1>4
    <3> QED BY <1>3, <3>1
  <2>2. logs'[e][k] # << >> \/ <<e, k>> \in unlogged'
    <3>1. Append(logs[e][k], work[w].ok) # << >>
      BY <1>4
    <3> QED BY <1>3, <3>1
  <2>3. \A x \in Event : due[x] \subseteq Config
    BY DEF TypeInv
  <2>4. ASSUME NEW v \in Worker, work'[v].at \in {"send", "log"}, NEW c \in due[work'[v].event]
        PROVE  Covered(v, c)'
    <3>1. CASE v = w
      <4>1. c \in due[e] /\ c \in Config /\ Covered(w, c)
        BY <1>1, <1>2, <2>3, <2>4, <3>1 DEF DueKept
      <4>2. logs[e][c] # << >> => logs'[e][c] # << >>
        BY <1>1, <2>1, <4>1
      <4> QED BY <1>2, <1>3, <2>2, <3>1, <4>1, <4>2, CoveredKept
    <3>2. CASE v # w
      <4>1. work'[v] = work[v] /\ work[v].event \in Event
        BY <1>2, <2>4, <3>2, BusyEvent
      <4>2. c \in Config /\ Covered(v, c)
        BY <2>3, <2>4, <4>1 DEF DueKept
      <4>3. logs[work[v].event][c] # << >> => logs'[work[v].event][c] # << >>
        BY <2>1, <4>1, <4>2
      <4> QED BY <1>3, <4>1, <4>2, <4>3, CoveredKept
    <3> QED BY <3>1, <3>2
  <2> QED BY <1>2, <1>6, <2>4 DEF DueKept, Registered
<1>11. LogTruthful'
  <2> SUFFICES ASSUME NEW x \in Event, NEW d \in Config
               PROVE  /\ Len(logs'[x][d]) <= 1
                      /\ TRUE \in Range(logs'[x][d]) => <<x, d>> \in accepted
    BY DEF LogTruthful
  <2>1. CASE logs'[x][d] = logs[x][d]
    BY <2>1 DEF LogTruthful
  <2>2. CASE x = e /\ d = k /\ logs'[x][d] = Append(logs[x][d], work[w].ok)
    <3>1. logs'[x][d] = <<work[w].ok>>
      BY <1>4, <2>2, FirstEntry
    <3>2. Len(logs'[x][d]) <= 1 /\ Range(logs'[x][d]) = {work[w].ok}
      BY <3>1 DEF Range
    <3> QED BY <1>4, <2>2, <3>2
  <2> QED BY <1>3, <2>1, <2>2
<1>12. EveryConfigServed'
  <2>1. fate[e] = "pending"
    BY <1>1 DEF OnePlace, Held
  <2> QED BY <1>3, <2>1 DEF EveryConfigServed, TypeInv
<1> QED BY <1>5, <1>6, <1>8, <1>9, <1>10, <1>11, <1>12

\* Log and LogFails.
LEMMA LogStep ==
    ASSUME Inv, NEW w \in Worker, Log(w) \/ LogFails(w)
    PROVE  Inv'
  BY LoggedStep DEF Log, LogFails, settings, receivers, history

-----------------------------------------------------------------------------

\* Inv is inductive.
LEMMA NextInv == Inv /\ [Next]_vars => Inv'
<1> SUFFICES ASSUME Inv, [Next]_vars PROVE Inv'
  OBVIOUS
<1>1. ASSUME NEW e \in Event, Dispatch(e) PROVE Inv'
  BY <1>1, DispatchStep
<1>2. ASSUME NEW c \in Config, RegisterConfig(c) PROVE Inv'
  BY <1>2, RegisterStep
<1>3. ASSUME NEW w \in Worker, WorkerStep(w) \/ LoadFails(w) \/ LogFails(w) PROVE Inv'
  <2>1. CASE Take(w) \/ LoadConfigs(w)
    BY <2>1, TakeStep, LoadStep
  <2>2. CASE Log(w) \/ LogFails(w)
    BY <2>2, LogStep
  <2>3. CASE Finish(w) \/ LoadFails(w)
    BY <2>3, FinishStep, LoadFailsStep
  <2>4. ASSUME NEW c \in Config, SendNothing(w, c) PROVE Inv'
    BY <2>4, SendNothingStep
  <2>5. ASSUME NEW c \in Config, NEW accept \in BOOLEAN, NEW answered \in BOOLEAN,
               Post(w, c, accept, answered)
        PROVE  Inv'
    BY <2>5, PostStep
  <2> QED BY <1>3, <2>1, <2>2, <2>3, <2>4, <2>5 DEF WorkerStep
<1>4. CASE Restart
  BY <1>4, RestartStep
<1>5. CASE UNCHANGED vars
  <2> USE <1>5 DEF vars, settings, receivers, history, Inv
  <2>1. TypeInv' /\ WorkerInv' /\ OnePlace'
    BY DEF TypeInv, WorkerInv, OnePlace, InQueue, Held
  <2>2. Unserved' /\ NextEntry' /\ DueKept'
    BY DEF Unserved, NextEntry, DueKept, Ahead, Covered, InQueue, Registered
  <2>3. LogTruthful' /\ EveryConfigServed'
    BY DEF LogTruthful, EveryConfigServed
  <2> QED BY <2>1, <2>2, <2>3
<1> QED BY <1>1, <1>2, <1>3, <1>4, <1>5 DEF Next

\* The inductive invariant of webhook delivery.
THEOREM Invariance == Spec => []Inv
  BY InitInv, NextInv, PTL DEF Spec

\* Every event that Dispatch took on is in the channel or with one worker until
\* its fate is sealed, and the channel never holds more than its capacity.
THEOREM EventsNeverLostTrackOf == Spec => []EventsAccounted
<1>1. ASSUME Inv PROVE EventsAccounted
  <2> USE <1>1 DEF Inv
  <2> SUFFICES ASSUME NEW e \in Event
               PROVE  Cardinality(Places(e)) + Cardinality(Holders(e)) =
                          IF fate[e] = "pending" THEN 1 ELSE 0
    BY DEF EventsAccounted, OnePlace
  <2>1. Cardinality({}) = 0 /\ \A x : Cardinality({x}) = 1
    BY FS_EmptySet, FS_Singleton
  <2>2. CASE InQueue(e)
    <3>1. PICK i \in 1 .. Len(queue) : queue[i] = e
      BY <2>2 DEF InQueue
    <3>2. Places(e) = {i}
      BY <3>1 DEF Places, OnePlace
    <3>3. Holders(e) = {}
      BY <3>1 DEF Holders, OnePlace
    <3>4. fate[e] = "pending"
      BY <2>2 DEF OnePlace
    <3>5. Cardinality(Places(e)) = 1 /\ Cardinality(Holders(e)) = 0
      BY <3>2, <3>3, FS_EmptySet, FS_Singleton
    <3> QED BY <3>4, <3>5
  <2>3. CASE ~InQueue(e) /\ Held(e)
    <3>1. PICK w \in Worker : work[w].event = e
      BY <2>3 DEF Held
    <3>2. Places(e) = {}
      BY <2>3 DEF Places, InQueue
    <3>3. Holders(e) = {w}
      BY <3>1, Constants DEF Holders, OnePlace
    <3>4. fate[e] = "pending"
      BY <2>3 DEF OnePlace
    <3>5. Cardinality(Places(e)) = 0 /\ Cardinality(Holders(e)) = 1
      BY <3>2, <3>3, FS_EmptySet, FS_Singleton
    <3> QED BY <3>4, <3>5
  <2>4. CASE ~InQueue(e) /\ ~Held(e)
    <3>1. Places(e) = {} /\ Holders(e) = {}
      BY <2>4 DEF Places, Holders, InQueue, Held
    <3>2. fate[e] # "pending"
      BY <2>4 DEF OnePlace
    <3> QED BY <2>1, <3>1, <3>2
  <2> QED BY <2>2, <2>3, <2>4
<1> QED BY <1>1, Invariance, PTL

\* webhook_logs has one entry at most per event and receiver, and says success
\* only when the receiver has accepted the event.
THEOREM LogsTellTheTruth == Spec => []LogTruthful
  BY Invariance, PTL DEF Inv

\* A worker that is done with an event has served every configuration that
\* existed when the event was dispatched.
THEOREM DueConfigsServed == Spec => []EveryConfigServed
  BY Invariance, PTL DEF Inv

-----------------------------------------------------------------------------
(* Only a request that arrives changes posts, and it is the first.         *)

\* What a request does to posts, seen from the receiver.
LEMMA FirstPost ==
    ASSUME Inv, NEW w \in Worker, NEW c \in Config, NEW accept, NEW answered,
           Post(w, c, accept, answered)
    PROVE  /\ work[w].event \in Event /\ fate[work[w].event] = "pending"
           /\ posts[work[w].event][c] = 0
           /\ posts' = [posts EXCEPT ![work[w].event][c] = 1]
           /\ Sendable(c)
           /\ UNCHANGED fate
<1> USE DEF Inv
<1>1. work[w].event \in Event /\ work[w].at = "send" /\ c \in work[w].todo
  BY BusyEvent DEF Post, Sending
<1>2. fate[work[w].event] = "pending"
  BY <1>1 DEF OnePlace, Held
<1>3. posts[work[w].event][c] = 0
  BY <1>1 DEF Unserved, Ahead
<1>4. /\ posts' = [posts EXCEPT ![work[w].event][c] = posts[work[w].event][c] + 1]
      /\ Sendable(c) /\ UNCHANGED fate
  BY DEF Post, history
<1> QED BY <1>1, <1>2, <1>3, <1>4

\* A pending event was dispatched by the running process.
SettingsInv ==
    /\ under \in [Event -> Env]
    /\ \A e \in Event : fate[e] = "pending" => under[e] = env
    /\ PolicyOfDispatch

\* The settings of a dispatched event stay, and so does what they allow: a
\* registered configuration is never changed.
LEMMA SettingsStep ==
    ASSUME Inv, SettingsInv, [Next]_vars
    PROVE  SettingsInv'
<1> DEFINE Allows(v, c) == ValidateURL(v.allow, url[c]) /\ Decrypts(v.key, configs[c])
<1>1. /\ under \in [Event -> Env] /\ env \in Env
      /\ fate \in [Event -> Fate] /\ posts \in [Event -> [Config -> Nat]]
      /\ configs = [c \in Config |-> configs[c]]
      /\ \A v \in Env : v.key # Nil
  BY WebhookAssumption DEF Inv, TypeInv, SettingsInv
<1>2. ASSUME UNCHANGED <<under, env, posts, configs>>,
             \A e \in Event : fate'[e] = "pending" => fate[e] = "pending"
      PROVE  SettingsInv'
  BY <1>1, <1>2 DEF SettingsInv, PolicyOfDispatch
<1>3. ASSUME NEW e \in Event, Dispatch(e) PROVE SettingsInv'
  <2>1. /\ under' = [under EXCEPT ![e] = env] /\ UNCHANGED <<env, configs, posts>>
        /\ fate[e] = "new" /\ \E f \in Fate : fate' = [fate EXCEPT ![e] = f]
    BY <1>3 DEF Dispatch, settings, receivers, Fate
  <2>2. \A c \in Config : posts[e][c] = 0
    BY <2>1 DEF Inv, Unserved, Ahead
  <2>3. under' \in [Event -> Env] /\ \A x \in Event : x # e => under'[x] = under[x]
    BY <1>1, <2>1
  <2>4. \A x \in Event : fate'[x] = "pending" => under'[x] = env
    BY <1>1, <2>1 DEF SettingsInv
  <2>5. PolicyOfDispatch'
    BY <2>1, <2>2, <2>3 DEF SettingsInv, PolicyOfDispatch
  <2> QED BY <2>1, <2>3, <2>4, <2>5 DEF SettingsInv
<1>4. ASSUME NEW k \in Config, RegisterConfig(k) PROVE SettingsInv'
  <2>1. /\ configs[k] = Nil /\ configs' = [configs EXCEPT ![k] = env.key]
        /\ UNCHANGED <<under, env, posts, fate>>
    BY <1>4 DEF RegisterConfig, receivers, history
  <2>2. \A e \in Event : under[e].key # Nil
    BY <1>1
  <2>3. \A e \in Event, c \in Config : posts[e][c] > 0 => configs[c] # Nil
    BY <2>2 DEF SettingsInv, PolicyOfDispatch, Decrypts
  <2>4. \A c \in Config : c # k => configs'[c] = configs[c]
    BY <1>1, <2>1
  <2>5. \A e \in Event, c \in Config : posts[e][c] > 0 => configs'[c] = configs[c]
    BY <2>1, <2>3, <2>4
  <2>6. PolicyOfDispatch'
    BY <2>1, <2>5 DEF SettingsInv, PolicyOfDispatch, Decrypts
  <2> QED BY <1>1, <2>1, <2>6 DEF SettingsInv
<1>5. ASSUME NEW w \in Worker, NEW k \in Config, NEW accept \in BOOLEAN,
             NEW answered \in BOOLEAN, Post(w, k, accept, answered)
      PROVE  SettingsInv'
  <2>0. PICK x \in Event : x = work[w].event
    BY <1>5, FirstPost
  <2>1. /\ fate[x] = "pending" /\ posts' = [posts EXCEPT ![x][k] = 1]
        /\ Sendable(k) /\ UNCHANGED fate
    BY <1>5, <2>0, FirstPost
  <2>2. UNCHANGED <<under, env, configs>>
    BY <1>5 DEF Post, settings, history
  <2>3. Allows(under[x], k)
    BY <2>1 DEF SettingsInv, Sendable
  <2>4. \A e \in Event, c \in Config : posts'[e][c] = posts[e][c] \/ (e = x /\ c = k)
    BY <1>1, <2>1
  <2>5. PolicyOfDispatch'
    BY <2>2, <2>3, <2>4 DEF SettingsInv, PolicyOfDispatch
  <2> QED BY <1>1, <2>1, <2>2, <2>5 DEF SettingsInv
<1>6. CASE Restart
  <2>1. /\ UNCHANGED <<under, posts, configs>> /\ env' \in Env
        /\ \A e \in Event : fate'[e] # "pending"
    BY <1>6 DEF Restart, receivers
  <2>2. PolicyOfDispatch'
    BY <2>1 DEF SettingsInv, PolicyOfDispatch
  <2> QED BY <1>1, <2>1, <2>2 DEF SettingsInv
<1>7. ASSUME NEW w \in Worker, Finish(w) \/ LoadFails(w) PROVE SettingsInv'
  <2>1. /\ UNCHANGED <<under, env, posts, configs>>
        /\ \E f \in {"done", "lost"} : fate' = [fate EXCEPT ![work[w].event] = f]
    BY <1>7 DEF Finish, LoadFails, settings, receivers
  <2> QED BY <1>1, <1>2, <2>1
<1>8. ASSUME NEW w \in Worker,
             \/ Take(w) \/ LoadConfigs(w) \/ Log(w) \/ LogFails(w)
             \/ \E c \in Config : SendNothing(w, c)
      PROVE  SettingsInv'
  <2>1. UNCHANGED <<under, env, posts, configs, fate>>
    BY <1>8 DEF Take, LoadConfigs, Log, LogFails, SendNothing, settings, receivers, history
  <2> QED BY <1>2, <2>1
<1>9. CASE UNCHANGED vars
  <2>1. UNCHANGED <<under, env, posts, configs, fate>>
    BY <1>9 DEF vars, settings, receivers, history
  <2> QED BY <1>2, <2>1
<1> QED BY <1>3, <1>4, <1>5, <1>6, <1>7, <1>8, <1>9 DEF Next, WorkerStep

\* An event reaches only receivers that the process which accepted it could
\* call, across any number of restarts with other settings.
THEOREM PolicyKept == Spec => []PolicyOfDispatch
<1>1. Init => SettingsInv
  <2> SUFFICES ASSUME Init PROVE SettingsInv
    OBVIOUS
  <2>1. \A e \in Event, c \in Config : posts[e][c] = 0
    BY DEF Init, None
  <2>2. under \in [Event -> Env] /\ \A e \in Event : under[e] = env
    BY DEF Init
  <2> QED BY <2>1, <2>2 DEF SettingsInv, PolicyOfDispatch
<1>2. SettingsInv => PolicyOfDispatch
  BY DEF SettingsInv
<1> QED BY <1>1, <1>2, SettingsStep, Invariance, PTL DEF Spec

-----------------------------------------------------------------------------
(* The refinement.                                                         *)

\* Stage of an event in the announcements, as Promise maps its fate.
Stage(f) == CASE f = "new" -> "new" [] f = "pending" -> "open" [] OTHER -> "closed"

\* A dispatched event is taken on, or turned away for good.
LEMMA PromiseAccept ==
    ASSUME Inv, NEW e \in Event, Dispatch(e)
    PROVE  Promise!Accept(e)
<1>1. fate \in [Event -> Fate] /\ fate[e] = "new" /\ UNCHANGED posts
  BY DEF Inv, TypeInv, Dispatch, receivers
<1>2. PICK f \in {"pending", "dropped"} : fate' = [fate EXCEPT ![e] = f]
  BY DEF Dispatch
<1>3. Stage(f) \in {"open", "closed"}
  BY DEF Stage
<1>4. \A x \in Event : Stage(fate'[x]) = IF x = e THEN Stage(f) ELSE Stage(fate[x])
  BY <1>1, <1>2
<1> QED BY <1>1, <1>3, <1>4 DEF Promise!Accept, Stage

\* A request that arrives is the one announcement to its receiver.
LEMMA PromiseTell ==
    ASSUME Inv, NEW w \in Worker, NEW c \in Config, NEW accept, NEW answered,
           Post(w, c, accept, answered)
    PROVE  Promise!Tell(work[w].event, c)
  BY FirstPost DEF Promise!Tell

\* Closing a set of events is a step of the announcements.
LEMMA PromiseClose ==
    ASSUME NEW E, E \subseteq Event, Promise!Close(E)
    PROVE  Promise!Next
<1> SUFFICES \E X \in SUBSET Event : Promise!Close(X)
  BY Zenon DEF Promise!Next
<1>1. E \in SUBSET Event
  OBVIOUS
<1> WITNESS E \in SUBSET Event
<1> QED OBVIOUS

\* Every step of the service is a step of the announcements, or none.
LEMMA PromiseStep ==
    ASSUME Inv, [Next]_vars
    PROVE  [Promise!Next]_(Promise!vars)
<1>1. CASE UNCHANGED <<fate, posts>>
  BY <1>1 DEF Promise!vars
<1>2. ASSUME NEW e \in Event, Dispatch(e) PROVE Promise!Next
  BY <1>2, PromiseAccept DEF Promise!Next
<1>3. ASSUME NEW c \in Config, RegisterConfig(c) PROVE UNCHANGED <<fate, posts>>
  BY <1>3 DEF RegisterConfig, receivers, history
<1>4. CASE Restart
  <2>0. PICK E : E = {e \in Event : fate[e] = "pending"}
    OBVIOUS
  <2>1. /\ E \subseteq Event /\ \A e \in E : fate[e] = "pending"
        /\ \A e \in Event : IF e \in E THEN fate'[e] \in {"done", "lost"}
                                      ELSE fate'[e] = fate[e]
        /\ UNCHANGED posts
    BY <1>4, <2>0 DEF Restart, receivers
  <2>2. Promise!Close(E)
    BY <2>1 DEF Promise!Close
  <2> QED BY <2>1, <2>2, PromiseClose
<1>5. ASSUME NEW w \in Worker, NEW c \in Config, NEW accept \in BOOLEAN,
             NEW answered \in BOOLEAN, Post(w, c, accept, answered)
      PROVE  Promise!Next
  <2>1. work[w].event \in Event /\ Promise!Tell(work[w].event, c)
    BY <1>5, FirstPost, PromiseTell
  <2> QED BY <2>1 DEF Promise!Next
<1>6. ASSUME NEW w \in Worker, Finish(w) \/ LoadFails(w) PROVE Promise!Next
  <2> DEFINE e == work[w].event
  <2>1. e \in Event /\ fate[e] = "pending" /\ fate \in [Event -> Fate]
    BY <1>6, BusyEvent DEF Inv, TypeInv, OnePlace, Held, Finish, LoadFails
  <2>2. UNCHANGED posts /\ \E f \in {"done", "lost"} : fate' = [fate EXCEPT ![e] = f]
    BY <1>6 DEF Finish, LoadFails, receivers
  <2>0. PICK E : E = {e}
    OBVIOUS
  <2>3. /\ E \subseteq Event /\ \A x \in E : fate[x] = "pending"
        /\ \A x \in Event : IF x \in E THEN fate'[x] \in {"done", "lost"}
                                      ELSE fate'[x] = fate[x]
        /\ UNCHANGED posts
    BY <2>0, <2>1, <2>2
  <2>4. Promise!Close(E)
    BY <2>3 DEF Promise!Close
  <2> QED BY <2>3, <2>4, PromiseClose
<1>7. ASSUME NEW w \in Worker,
             \/ Take(w) \/ LoadConfigs(w) \/ Log(w) \/ LogFails(w)
             \/ \E c \in Config : SendNothing(w, c)
      PROVE  UNCHANGED <<fate, posts>>
  BY <1>7 DEF Take, LoadConfigs, Log, LogFails, SendNothing, receivers, history
<1>8. CASE UNCHANGED vars
  BY <1>1, <1>8 DEF vars, receivers, history
<1> QED BY <1>1, <1>2, <1>3, <1>4, <1>5, <1>6, <1>7, <1>8 DEF Next, WorkerStep

\* Receivers hear of an event at most once, and never after it was given up or
\* finished: the service implements Announcements.
THEOREM ImplementsAnnouncements == Spec => AnnouncementSpec
<1>1. Init => Promise!Init
  BY DEF Init, None, Promise!Init
<1>2. Inv /\ [Next]_vars => [Promise!Next]_(Promise!vars)
  BY PromiseStep
<1> QED BY <1>1, <1>2, Invariance, PTL DEF Spec, AnnouncementSpec, Promise!Spec
=============================================================================
