--------------------------- MODULE LTILaunchProofs ---------------------------
(***************************************************************************)
(* The invariants of LTILaunch, for any number of requests, platforms,     *)
(* tokens and sessions.                                                    *)
(*                                                                         *)
(* The argument for launches (Doors): the conditional update lets one      *)
(* request through per state, and that request holds the only right to     *)
(* start (Doorkeeper) until it has used it.  For grades (Books): a session  *)
(* belongs to the account for which it was created, every link was saved   *)
(* by a launch of that account, and the goroutine of SubmitSession, which  *)
(* exists once per session, posts at most once (Scores).                   *)
(***************************************************************************)
EXTENDS LTILaunch, SequenceTheorems, TLAPS

UserOf(t) == ltiUserID(t.platform.issuer, t.subject)
Row == [delivery: Delivery, user: {UserOf(t) : t \in Token}, done: BOOLEAN]
LinkRow == {LinkOf(t) : t \in Token}

Busy == {"read", "verify", "consume", "start", "link"}

Locals ==
    [at: {"idle", "cleanup"} \cup Busy, state: State \cup {Nil}, token: Token \cup {Nil},
     now: Nat, session: SessionId \cup {Nil}]

DoorsType ==
    /\ mapping \in [Platform \X Link -> Delivery \cup {Nil}]
    /\ states \in [State -> [status: {"new", "stored", "used", "deleted"},
                             platform: Platform \cup {Nil}, expiresAt: Nat]]
    /\ req \in [Request -> Locals]
    /\ launched \in [State -> Nat]
    /\ clock \in Nat

BooksType ==
    /\ sess \in [SessionId -> Row \cup {Nil}]
    /\ links \in [SessionId -> LinkRow \cup {Nil}]
    /\ grade \in [SessionId -> [at: {"none", "due", "ready", "skipped", "failed", "posted"},
                                link: LinkRow \cup {Nil}]]
    /\ posted \in [SessionId -> Seq(LinkRow)]
    /\ linked \subseteq SessionId \X Token
    /\ early \subseteq SessionId

\* What a launch has established by the time it is at a step.
LaunchInv ==
    \A r \in Request :
        /\ req[r].at \in Busy => req[r].state \in State /\ req[r].token \in Token
        /\ req[r].at \in {"consume", "start"} => DeliveryOf(req[r].token) # Nil
        /\ req[r].at = "link" =>
               /\ req[r].session \in SessionId
               /\ sess[req[r].session] # Nil
               /\ sess[req[r].session].user = UserOf(req[r].token)

\* The request that consumed a state is the only one that may start with it.
Doorkeeper ==
    /\ \A x \in State : launched[x] > 0 => states[x].status \in {"used", "deleted"}
    /\ \A r \in Request : req[r].at = "start" =>
           /\ states[req[r].state].status \in {"used", "deleted"}
           /\ launched[req[r].state] = 0
           /\ \A q \in Request : req[q].at = "start" /\ req[q].state = req[r].state => q = r

Doors == DoorsType /\ LaunchInv /\ Doorkeeper /\ StateUsedOnce

\* A session belongs to the account of every launch that was linked to it, and
\* its link is that of one of them.
Accounts ==
    /\ \A s \in SessionId, t \in Token : <<s, t>> \in linked =>
           sess[s] # Nil /\ sess[s].user = UserOf(t)
    /\ \A s \in SessionId : links[s] # Nil =>
           \E t \in Token : <<s, t>> \in linked /\ LinkOf(t) = links[s]
    /\ \A s \in early : links[s] # Nil

\* The goroutine of a session exists once it is completed, and only its last
\* step posts.
Scores ==
    \A s \in SessionId :
        /\ grade[s].at # "none" => sess[s] # Nil /\ sess[s].done
        /\ grade[s].at = "ready" =>
               \E t \in Token : <<s, t>> \in linked /\ LinkOf(t) = grade[s].link
        /\ grade[s].at # "posted" => posted[s] = << >>

Books == BooksType /\ Accounts /\ Scores /\ GradePostedOnce /\ GradeNotPassedOver

Inv == Doors /\ Books

\* What the proofs use of the assumptions on the constants.
LEMMA Constants ==
    /\ \A t \in Token : t.platform \in Platform /\ t.link \in Link
    /\ Nil \notin SessionId /\ Nil \notin Delivery
    /\ Lifetime \in Nat
  BY TokenAssumption

\* Nil is no row of test_sessions and none of lti_link_sessions.
LEMMA NilNoRow == Nil \notin Row /\ Nil \notin LinkRow
<1>1. ASSUME NEW t \in Token, NEW d \in Delivery, NEW b \in BOOLEAN
      PROVE  Nil # [delivery |-> d, user |-> UserOf(t), done |-> b]
  BY RowAssumption DEF UserOf
<1>2. ASSUME NEW t \in Token PROVE Nil # LinkOf(t)
  BY RowAssumption DEF LinkOf
<1> QED BY <1>1, <1>2 DEF Row, LinkRow

\* A session that is created is a row.
LEMMA RowIn ==
    ASSUME NEW d \in Delivery, NEW t \in Token, NEW b \in BOOLEAN
    PROVE  [delivery |-> d, user |-> UserOf(t), done |-> b] \in Row
  BY DEF Row

\* Nothing has been registered, launched or graded.
LEMMA InitInv == Init => Inv
<1> SUFFICES ASSUME Init PROVE Inv
  OBVIOUS
<1> USE DEF Init
<1>1. DoorsType
  BY DEF DoorsType, Idle, Locals
<1>2. LaunchInv /\ Doorkeeper /\ StateUsedOnce
  BY DEF LaunchInv, Busy, Idle, Doorkeeper, StateUsedOnce
<1>3. BooksType
  BY DEF BooksType
<1>4. Accounts /\ Scores /\ GradePostedOnce /\ GradeNotPassedOver
  BY DEF Accounts, Scores, GradePostedOnce, GradeNotPassedOver
<1> QED BY <1>1, <1>2, <1>3, <1>4 DEF Inv, Doors, Books

-----------------------------------------------------------------------------
(* Doors: logins and launches up to StartSession.                          *)

\* Requests that are turned away, or get no further than the conditional
\* update; mappings are never taken back.
LEMMA DoorsQuiet ==
    ASSUME Doors, UNCHANGED <<states, launched>>,
           mapping' \in [Platform \X Link -> Delivery \cup {Nil}],
           \A k \in Platform \X Link : mapping[k] # Nil => mapping'[k] # Nil,
           clock' \in Nat,
           req' \in [Request -> Locals],
           \A s \in SessionId : sess[s] # Nil => sess'[s] # Nil /\ sess'[s].user = sess[s].user,
           \A q \in Request :
               \/ req'[q] = req[q]
               \/ req'[q].at \in {"idle", "cleanup"}
               \/ /\ req'[q].at \in {"read", "verify", "consume"}
                  /\ req'[q].state \in State /\ req'[q].token \in Token
                  /\ req'[q].at = "consume" => DeliveryOf(req'[q].token) # Nil
    PROVE  Doors'
<1> USE DEF Doors
<1>1. DoorsType'
  BY DEF DoorsType
<1>2. \A t \in Token : DeliveryOf(t) # Nil => mapping'[<<t.platform, t.link>>] # Nil
  BY Constants DEF DeliveryOf
<1>3. LaunchInv'
  <2> SUFFICES ASSUME NEW q \in Request
               PROVE  /\ req'[q].at \in Busy => req'[q].state \in State /\ req'[q].token \in Token
                      /\ req'[q].at \in {"consume", "start"} =>
                             mapping'[<<req'[q].token.platform, req'[q].token.link>>] # Nil
                      /\ req'[q].at = "link" =>
                             /\ req'[q].session \in SessionId
                             /\ sess'[req'[q].session] # Nil
                             /\ sess'[req'[q].session].user = UserOf(req'[q].token)
    BY DEF LaunchInv, DeliveryOf, UserOf, ltiUserID
  <2>1. CASE req'[q] = req[q]
    BY <1>2, <2>1 DEF LaunchInv, Busy
  <2>2. CASE req'[q].at \in {"idle", "cleanup"}
    BY <2>2 DEF Busy
  <2>3. CASE /\ req'[q].at \in {"read", "verify", "consume"}
             /\ req'[q].state \in State /\ req'[q].token \in Token
             /\ req'[q].at = "consume" => DeliveryOf(req'[q].token) # Nil
    BY <1>2, <2>3
  <2> QED BY <2>1, <2>2, <2>3
<1>4. \A q \in Request : req'[q].at = "start" => req'[q] = req[q]
  OBVIOUS
<1>5. Doorkeeper' /\ StateUsedOnce'
  BY <1>4 DEF Doorkeeper, StateUsedOnce
<1> QED BY <1>1, <1>3, <1>5

\* A request goes on, or is over; the others stay where they are.
LEMMA ReqStep ==
    ASSUME DoorsType, NEW r \in Request,
           \/ Return(r)
           \/ \E l \in {"idle", "cleanup"} \cup Busy, n \in Nat :
                  req' = [req EXCEPT ![r].at = l, ![r].now = n]
           \/ \E l \in {"idle", "cleanup"} \cup Busy : Goto(r, l)
    PROVE  /\ req' \in [Request -> Locals]
           /\ \A q \in Request : q # r => req'[q] = req[q]
<1>1. Idle \in Locals /\ req[r] \in Locals
  BY DEF DoorsType, Idle, Locals
<1>2. CASE Return(r)
  BY <1>1, <1>2 DEF DoorsType, Return
<1>3. ASSUME NEW l \in {"idle", "cleanup"} \cup Busy, NEW n \in Nat,
             req' = [req EXCEPT ![r].at = l, ![r].now = n]
      PROVE  /\ req' \in [Request -> Locals]
             /\ \A q \in Request : q # r => req'[q] = req[q]
  BY <1>1, <1>3 DEF DoorsType, Locals
<1>4. ASSUME NEW l \in {"idle", "cleanup"} \cup Busy, Goto(r, l)
      PROVE  /\ req' \in [Request -> Locals]
             /\ \A q \in Request : q # r => req'[q] = req[q]
  BY <1>1, <1>4 DEF DoorsType, Locals, Goto
<1> QED BY <1>2, <1>3, <1>4

\* A login stores a state that is new, so no launch has used it.
LEMMA LoginCreateStep ==
    ASSUME Inv, NEW r \in Request, NEW x \in State, NEW p \in Platform, LoginCreate(r, x, p)
    PROVE  Doors'
<1> USE DEF Inv, Doors
<1>1. /\ states[x].status = "new" /\ UNCHANGED <<mapping, sess, launched, clock>>
      /\ states' = [states EXCEPT ![x] =
                       [status |-> "stored", platform |-> p, expiresAt |-> clock + Lifetime]]
      /\ req' = [req EXCEPT ![r].at = "cleanup", ![r].now = clock]
  BY DEF LoginCreate, platforms, history
<1>2. req' \in [Request -> Locals] /\ req'[r].at = "cleanup"
  <2>1. req[r] \in Locals /\ clock \in Nat
    BY DEF DoorsType
  <2> QED BY <1>1, <2>1 DEF DoorsType, Locals
<1>3. \A q \in Request : q # r => req'[q] = req[q]
  BY <1>1 DEF DoorsType
<1>4. /\ states' \in [State -> [status: {"new", "stored", "used", "deleted"},
                                platform: Platform \cup {Nil}, expiresAt: Nat]]
      /\ \A y \in State : y # x => states'[y] = states[y]
  BY <1>1, Constants DEF DoorsType
<1>5. DoorsType'
  BY <1>1, <1>2, <1>4 DEF DoorsType
<1>6. LaunchInv'
  BY <1>1, <1>2, <1>3 DEF LaunchInv, Busy, DeliveryOf, UserOf, ltiUserID
<1>7. launched[x] = 0
  BY <1>1 DEF Doorkeeper, DoorsType
<1>8. \A q \in Request : req[q].at = "start" => req[q].state \in State /\ req[q].state # x
  BY <1>1 DEF Doorkeeper, LaunchInv, Busy
<1>9. Doorkeeper' /\ StateUsedOnce'
  BY <1>1, <1>2, <1>3, <1>4, <1>7, <1>8 DEF Doorkeeper, StateUsedOnce
<1> QED BY <1>5, <1>6, <1>9

\* The clean-up deletes states, used ones included, and brings none back.
LEMMA LoginCleanupStep ==
    ASSUME Inv, NEW r \in Request, LoginCleanup(r)
    PROVE  Doors'
<1> USE DEF Inv, Doors
<1>1. /\ UNCHANGED <<mapping, sess, launched, clock>> /\ Return(r)
      /\ states' = [x \in State |->
                     IF states[x].status \in {"stored", "used"}
                        /\ states[x].expiresAt < req[r].now
                     THEN [states[x] EXCEPT !.status = "deleted"]
                     ELSE states[x]]
  BY DEF LoginCleanup, platforms, history
<1>2. req' \in [Request -> Locals] /\ \A q \in Request : q # r => req'[q] = req[q]
  BY <1>1, ReqStep
<1>3. req'[r].at = "idle"
  BY <1>1 DEF DoorsType, Return, Idle
<1>4. \A x \in State :
        /\ states'[x] \in [status: {"new", "stored", "used", "deleted"},
                           platform: Platform \cup {Nil}, expiresAt: Nat]
        /\ states'[x].status = states[x].status \/ states'[x].status = "deleted"
  BY <1>1 DEF DoorsType
<1>5. DoorsType'
  <2>1. states' \in [State -> [status: {"new", "stored", "used", "deleted"},
                               platform: Platform \cup {Nil}, expiresAt: Nat]]
    BY <1>1, <1>4
  <2> QED BY <1>1, <1>2, <2>1 DEF DoorsType
<1>6. LaunchInv'
  BY <1>1, <1>2, <1>3 DEF LaunchInv, Busy, DeliveryOf, UserOf, ltiUserID
<1>7. \A q \in Request : req[q].at = "start" => req[q].state \in State
  BY DEF LaunchInv, Busy
<1>8. Doorkeeper' /\ StateUsedOnce'
  BY <1>1, <1>2, <1>3, <1>4, <1>7 DEF Doorkeeper, StateUsedOnce
<1> QED BY <1>5, <1>6, <1>8

\* The conditional update: the state was stored, so nobody has started with it.
LEMMA ConsumeStep ==
    ASSUME Inv, NEW r \in Request, LaunchConsume(r)
    PROVE  Doors'
<1> USE DEF Inv, Doors
<1> DEFINE x == req[r].state
<1>0. /\ req[r].at = "consume" /\ UNCHANGED <<mapping, sess, launched, clock>>
      /\ x \in State /\ req[r].token \in Token /\ DeliveryOf(req[r].token) # Nil
  BY DEF LaunchConsume, LaunchInv, Busy, platforms, history
<1>1. CASE Usable(x, req[r].now)
  <2>1. /\ states[x].status = "stored" /\ states' = [states EXCEPT ![x].status = "used"]
        /\ req' = [req EXCEPT ![r].at = "start"]
    BY <1>1 DEF LaunchConsume, Usable, Goto
  <2>2. /\ req' \in [Request -> Locals] /\ \A q \in Request : q # r => req'[q] = req[q]
        /\ req'[r].at = "start" /\ req'[r].state = x /\ req'[r].token = req[r].token
    <3>1. req[r] \in Locals
      BY DEF DoorsType
    <3> QED BY <2>1, <3>1 DEF DoorsType, Locals, Busy
  <2>3. /\ states' \in [State -> [status: {"new", "stored", "used", "deleted"},
                                  platform: Platform \cup {Nil}, expiresAt: Nat]]
        /\ states'[x].status = "used" /\ \A y \in State : y # x => states'[y] = states[y]
    <3>1. states[x] \in [status: {"new", "stored", "used", "deleted"},
                         platform: Platform \cup {Nil}, expiresAt: Nat]
      BY <1>0 DEF DoorsType
    <3> QED BY <1>0, <2>1, <3>1 DEF DoorsType
  <2>4. DoorsType'
    BY <1>0, <2>2, <2>3 DEF DoorsType
  <2>5. LaunchInv'
    BY <1>0, <2>2 DEF LaunchInv, Busy, DeliveryOf, UserOf, ltiUserID
  <2>6. launched[x] = 0
    BY <1>0, <2>1 DEF Doorkeeper, DoorsType
  <2>7. \A q \in Request : req[q].at = "start" => req[q].state \in State /\ req[q].state # x
    BY <2>1 DEF Doorkeeper, LaunchInv, Busy
  <2>8. Doorkeeper' /\ StateUsedOnce'
    BY <1>0, <2>2, <2>3, <2>6, <2>7 DEF Doorkeeper, StateUsedOnce
  <2> QED BY <2>4, <2>5, <2>8
<1>2. CASE ~Usable(x, req[r].now)
  <2>1. Return(r) /\ UNCHANGED states
    BY <1>2 DEF LaunchConsume
  <2>2. req' \in [Request -> Locals] /\ \A q \in Request : q # r => req'[q] = req[q]
    BY <2>1, ReqStep
  <2>3. req'[r].at = "idle"
    BY <2>1 DEF DoorsType, Return, Idle
  <2>4. /\ mapping' \in [Platform \X Link -> Delivery \cup {Nil}] /\ clock' \in Nat
        /\ \A s \in SessionId : sess[s] # Nil => sess'[s] # Nil /\ sess'[s].user = sess[s].user
        /\ \A k \in Platform \X Link : mapping[k] # Nil => mapping'[k] # Nil
    BY <1>0 DEF DoorsType
  <2> QED BY <1>0, <2>1, <2>2, <2>3, <2>4, DoorsQuiet
<1> QED BY <1>1, <1>2

\* StartSession for a launch: the request gives up its right to start, and the
\* session it goes on with is one of its account.
LEMMA StartDoors ==
    ASSUME Inv, NEW r \in Request, req[r].at = "start",
           launched' = [launched EXCEPT ![req[r].state] = @ + 1],
           UNCHANGED <<mapping, states, clock>>,
           \A s \in SessionId : sess[s] # Nil => sess'[s] = sess[s],
           \/ Return(r)
           \/ \E s \in SessionId :
                  /\ req' = [req EXCEPT ![r].at = "link", ![r].session = s]
                  /\ sess'[s] # Nil /\ sess'[s].user = UserOf(req[r].token)
    PROVE  Doors'
<1> USE DEF Inv, Doors
<1> DEFINE x == req[r].state
<1>0. req[r] \in Locals /\ x \in State /\ req[r].token \in Token
  BY DEF DoorsType, LaunchInv, Busy
<1>1. /\ req' \in [Request -> Locals]
      /\ \A q \in Request : q # r => req'[q] = req[q]
  <2>1. CASE Return(r)
    BY <2>1, ReqStep
  <2>2. ASSUME NEW s \in SessionId, req' = [req EXCEPT ![r].at = "link", ![r].session = s]
        PROVE  /\ req' \in [Request -> Locals]
               /\ \A q \in Request : q # r => req'[q] = req[q]
    BY <1>0, <2>2 DEF DoorsType, Locals, Busy
  <2> QED BY <2>1, <2>2
<1>2. \/ req'[r].at = "idle"
      \/ /\ req'[r].at = "link" /\ req'[r].state = x /\ req'[r].token = req[r].token
         /\ req'[r].session \in SessionId
         /\ sess'[req'[r].session] # Nil /\ sess'[req'[r].session].user = UserOf(req[r].token)
  <2>1. CASE Return(r)
    BY <2>1 DEF DoorsType, Return, Idle
  <2>2. ASSUME NEW s \in SessionId, req' = [req EXCEPT ![r].at = "link", ![r].session = s],
               sess'[s] # Nil, sess'[s].user = UserOf(req[r].token)
        PROVE  /\ req'[r].at = "link" /\ req'[r].state = x /\ req'[r].token = req[r].token
               /\ req'[r].session \in SessionId
               /\ sess'[req'[r].session] # Nil
               /\ sess'[req'[r].session].user = UserOf(req[r].token)
    BY <1>0, <2>2 DEF DoorsType, Locals
  <2> QED BY <2>1, <2>2
<1>3. /\ launched' \in [State -> Nat] /\ launched[x] = 0 /\ launched'[x] = 1
      /\ \A y \in State : y # x => launched'[y] = launched[y]
  BY <1>0 DEF DoorsType, Doorkeeper
<1>4. DoorsType'
  BY <1>1, <1>3 DEF DoorsType
<1>5. LaunchInv'
  <2> SUFFICES ASSUME NEW q \in Request
               PROVE  /\ req'[q].at \in Busy => req'[q].state \in State /\ req'[q].token \in Token
                      /\ req'[q].at \in {"consume", "start"} => DeliveryOf(req'[q].token) # Nil
                      /\ req'[q].at = "link" =>
                             /\ req'[q].session \in SessionId
                             /\ sess'[req'[q].session] # Nil
                             /\ sess'[req'[q].session].user = UserOf(req'[q].token)
    BY DEF LaunchInv, DeliveryOf, UserOf, ltiUserID
  <2>1. CASE q = r
    BY <1>0, <1>2, <2>1 DEF Busy
  <2>2. CASE q # r
    BY <1>1, <2>2 DEF LaunchInv
  <2> QED BY <2>1, <2>2
<1>6. states[x].status \in {"used", "deleted"}
  BY DEF Doorkeeper
<1>7. \A q \in Request : q # r /\ req[q].at = "start" => req[q].state \in State /\ req[q].state # x
  BY DEF Doorkeeper, LaunchInv, Busy
<1>8. Doorkeeper' /\ StateUsedOnce'
  BY <1>1, <1>2, <1>3, <1>6, <1>7 DEF Doorkeeper, StateUsedOnce
<1> QED BY <1>4, <1>5, <1>8

\* New sessions do not concern the books on old ones.
LEMMA BooksKept ==
    ASSUME Books, UNCHANGED <<links, grade, posted, linked, early>>,
           sess' \in [SessionId -> Row \cup {Nil}],
           \A s \in SessionId : sess[s] # Nil => sess'[s] = sess[s]
    PROVE  Books'
<1> USE DEF Books
<1>1. BooksType' /\ Accounts' /\ GradeNotPassedOver'
  BY DEF BooksType, Accounts, GradeNotPassedOver
<1>2. Scores'
  BY DEF Scores
<1>3. GradePostedOnce'
  <2>1. \A s \in SessionId : posted[s] # << >> => sess'[s] = sess[s]
    BY DEF Scores
  <2> QED BY <2>1 DEF GradePostedOnce
<1> QED BY <1>1, <1>2, <1>3

\* LaunchStart, in its three outcomes.
LEMMA StartStep ==
    ASSUME Inv, NEW r \in Request, LaunchStart(r)
    PROVE  Inv'
<1> DEFINE t == req[r].token
           u == UserOf(t)
           mine == SessionsOf(DeliveryOf(t), u)
           open == {s \in mine : ~sess[s].done}
<1>1. /\ req[r].at = "start" /\ launched' = [launched EXCEPT ![req[r].state] = @ + 1]
      /\ UNCHANGED <<mapping, states, clock, links, grade, posted, linked, early>>
  BY DEF LaunchStart, platforms
<1>2. t \in Token /\ DeliveryOf(t) \in Delivery
  BY <1>1, Constants DEF Inv, Doors, LaunchInv, Busy, DoorsType, DeliveryOf
<1>3. \/ Return(r) /\ UNCHANGED sess
      \/ /\ \E s \in open : req' = [req EXCEPT ![r].at = "link", ![r].session = s]
         /\ UNCHANGED sess
      \/ \E s \in SessionId :
             /\ sess[s] = Nil
             /\ sess' = [sess EXCEPT ![s] =
                           [delivery |-> DeliveryOf(t), user |-> u, done |-> FALSE]]
             /\ req' = [req EXCEPT ![r].at = "link", ![r].session = s]
  BY DEF LaunchStart, UserOf
<1>4. sess \in [SessionId -> Row \cup {Nil}]
  BY DEF Inv, Books, BooksType
<1>5. CASE UNCHANGED sess
  <2>1. Books'
    BY <1>1, <1>4, <1>5, BooksKept DEF Inv
  <2>2. \/ Return(r)
        \/ \E s \in SessionId :
               /\ req' = [req EXCEPT ![r].at = "link", ![r].session = s]
               /\ sess'[s] # Nil /\ sess'[s].user = u
    <3>1. \A s \in open : s \in SessionId /\ sess[s] # Nil /\ sess[s].user = u
      BY DEF SessionsOf
    <3>2. ASSUME NEW s \in SessionId, sess[s] = Nil,
                 sess' = [sess EXCEPT ![s] =
                            [delivery |-> DeliveryOf(t), user |-> u, done |-> FALSE]]
          PROVE  FALSE
      <4>1. sess'[s] = [delivery |-> DeliveryOf(t), user |-> u, done |-> FALSE]
        BY <1>4, <3>2
      <4>2. sess'[s] \in Row
        BY <1>2, <4>1, RowIn
      <4> QED BY <1>5, <3>2, <4>2, NilNoRow
    <3> QED BY <1>3, <1>5, <3>1, <3>2
  <2>3. \A s \in SessionId : sess[s] # Nil => sess'[s] = sess[s]
    BY <1>5
  <2>4. Doors'
    BY <1>1, <2>2, <2>3, StartDoors
  <2> QED BY <2>1, <2>4 DEF Inv
<1>6. ASSUME NEW s \in SessionId, sess[s] = Nil,
             sess' = [sess EXCEPT ![s] =
                        [delivery |-> DeliveryOf(t), user |-> u, done |-> FALSE]],
             req' = [req EXCEPT ![r].at = "link", ![r].session = s]
      PROVE  Inv'
  <2>1. [delivery |-> DeliveryOf(t), user |-> u, done |-> FALSE] \in Row
    BY <1>2, RowIn
  <2>2. /\ sess' \in [SessionId -> Row \cup {Nil}]
        /\ \A z \in SessionId : sess[z] # Nil => sess'[z] = sess[z]
    BY <1>4, <1>6, <2>1
  <2>3. sess'[s] # Nil /\ sess'[s].user = u
    BY <1>4, <1>6, <2>1, NilNoRow
  <2>4. Books'
    BY <1>1, <2>2, BooksKept DEF Inv
  <2>5. Doors'
    BY <1>1, <1>6, <2>2, <2>3, StartDoors
  <2> QED BY <2>4, <2>5 DEF Inv
<1> QED BY <1>3, <1>5, <1>6

-----------------------------------------------------------------------------
(* Books: links and grades.                                                *)

\* The launch saves its link: the session is one of its account.
LEMMA SaveLinkStep ==
    ASSUME Inv, NEW r \in Request, LaunchSaveLink(r)
    PROVE  Books'
<1> USE DEF Inv, Books
<1> DEFINE k == req[r].session
           t == req[r].token
<1>1. /\ k \in SessionId /\ t \in Token /\ sess[k] # Nil /\ sess[k].user = UserOf(t)
  BY DEF LaunchSaveLink, Doors, LaunchInv, Busy
<1>2. /\ links' = [links EXCEPT ![k] = LinkOf(t)] /\ linked' = linked \cup {<<k, t>>}
      /\ UNCHANGED <<sess, grade, posted, early>>
  BY DEF LaunchSaveLink, Saved
<1>3. LinkOf(t) \in LinkRow /\ LinkOf(t) # Nil
  BY <1>1, NilNoRow DEF LinkRow
<1>4. links'[k] = LinkOf(t) /\ \A s \in SessionId : s # k => links'[s] = links[s]
  BY <1>1, <1>2 DEF BooksType
<1>5. BooksType'
  <2>1. links' \in [SessionId -> LinkRow \cup {Nil}] /\ linked' \subseteq SessionId \X Token
    BY <1>1, <1>2, <1>3 DEF BooksType
  <2> QED BY <1>2, <2>1 DEF BooksType
<1>6. Accounts'
  <2>1. \A s \in SessionId, z \in Token : <<s, z>> \in linked' =>
            sess'[s] # Nil /\ sess'[s].user = UserOf(z)
    BY <1>1, <1>2 DEF Accounts
  <2>2. \A s \in SessionId : links'[s] # Nil =>
            \E z \in Token : <<s, z>> \in linked' /\ LinkOf(z) = links'[s]
    <3> SUFFICES ASSUME NEW s \in SessionId, links'[s] # Nil
                 PROVE  \E z \in Token : <<s, z>> \in linked' /\ LinkOf(z) = links'[s]
      OBVIOUS
    <3>1. CASE s = k
      BY <1>1, <1>2, <1>4, <3>1
    <3>2. CASE s # k
      <4>1. links'[s] = links[s] /\ linked \subseteq linked'
        BY <1>2, <1>4, <3>2
      <4>2. PICK z \in Token : <<s, z>> \in linked /\ LinkOf(z) = links[s]
        BY <4>1 DEF Accounts
      <4> QED BY <4>1, <4>2
    <3> QED BY <3>1, <3>2
  <2>3. \A s \in early' : links'[s] # Nil
    BY <1>2, <1>3, <1>4 DEF Accounts, BooksType
  <2> QED BY <2>1, <2>2, <2>3 DEF Accounts, UserOf, ltiUserID, LinkOf
<1>7. Scores' /\ GradePostedOnce' /\ GradeNotPassedOver'
  BY <1>2 DEF Scores, GradePostedOnce, GradeNotPassedOver, LinkOf
<1> QED BY <1>5, <1>6, <1>7

\* SubmitSession completes a session that no goroutine has taken up.
LEMMA SubmitStep ==
    ASSUME Inv, NEW s \in SessionId, Submit(s)
    PROVE  Inv'
<1> USE DEF Inv, Books
<1>1. /\ sess[s] # Nil /\ ~sess[s].done /\ sess' = [sess EXCEPT ![s].done = TRUE]
      /\ grade' = [grade EXCEPT ![s] = [at |-> "due", link |-> Nil]]
      /\ early' = IF links[s] # Nil THEN early \cup {s} ELSE early
      /\ UNCHANGED <<mapping, states, links, req, posted, launched, linked, clock>>
  BY DEF Submit, Grading, platforms
<1>2. sess[s] \in Row
  BY <1>1 DEF BooksType
<1>3. sess'[s] \in Row /\ sess'[s].user = sess[s].user /\ sess'[s].done = TRUE
  BY <1>1, <1>2 DEF BooksType, Row
<1>4. /\ sess' \in [SessionId -> Row \cup {Nil}]
      /\ \A z \in SessionId : z # s => sess'[z] = sess[z] /\ grade'[z] = grade[z]
      /\ sess'[s] # Nil /\ sess'[s].user = sess[s].user /\ sess'[s].done
      /\ grade'[s].at = "due"
  <2>1. \A z \in SessionId : z # s => sess'[z] = sess[z] /\ grade'[z] = grade[z]
    BY <1>1 DEF BooksType
  <2>2. sess' \in [SessionId -> Row \cup {Nil}]
    BY <1>1, <1>3, <2>1 DEF BooksType
  <2>3. sess'[s] # Nil
    BY <1>3, NilNoRow
  <2>4. grade'[s].at = "due"
    BY <1>1 DEF BooksType
  <2> QED BY <1>3, <2>1, <2>2, <2>3, <2>4
<1>5. grade[s].at = "none" /\ posted[s] = << >>
  BY <1>1 DEF Scores
<1>6. BooksType'
  <2>1. grade' \in [SessionId -> [at: {"none", "due", "ready", "skipped", "failed", "posted"},
                                  link: LinkRow \cup {Nil}]]
    BY <1>1 DEF BooksType
  <2> QED BY <1>1, <1>4, <2>1 DEF BooksType
<1>7. Accounts'
  <2>1. \A z \in SessionId : sess[z] # Nil => sess'[z] # Nil /\ sess'[z].user = sess[z].user
    BY <1>4
  <2>2. \A z \in early' : links[z] # Nil
    BY <1>1 DEF Accounts
  <2> QED BY <1>1, <2>1, <2>2 DEF Accounts, UserOf, ltiUserID, LinkOf
<1>8. Scores' /\ GradePostedOnce' /\ GradeNotPassedOver'
  <2>1. Scores'
    <3> SUFFICES ASSUME NEW z \in SessionId
                 PROVE  /\ grade'[z].at # "none" => sess'[z] # Nil /\ sess'[z].done
                        /\ grade'[z].at = "ready" =>
                               \E y \in Token : <<z, y>> \in linked /\ LinkOf(y) = grade'[z].link
                        /\ grade'[z].at # "posted" => posted[z] = << >>
      BY <1>1 DEF Scores, LinkOf
    <3>1. CASE z = s
      BY <1>4, <1>5, <3>1
    <3>2. CASE z # s
      BY <1>4, <3>2 DEF Scores
    <3> QED BY <3>1, <3>2
  <2>2. \A z \in SessionId : posted[z] # << >> => z # s /\ sess'[z] = sess[z]
    BY <1>4, <1>5
  <2>3. GradePostedOnce'
    BY <1>1, <2>2 DEF GradePostedOnce, LinkOf
  <2>4. GradeNotPassedOver'
    <3> SUFFICES ASSUME NEW z \in early', grade'[z].at = "skipped"
                 PROVE  \E t \in Token : <<z, t>> \in linked /\ t.item = Nil
      BY <1>1 DEF GradeNotPassedOver
    <3>1. z # s
      BY <1>4
    <3>2. z \in early /\ z \in SessionId
      BY <1>1, <3>1 DEF BooksType
    <3>3. grade[z].at = "skipped"
      BY <1>4, <3>1, <3>2
    <3> QED BY <3>2, <3>3 DEF GradeNotPassedOver
  <2> QED BY <2>1, <2>3, <2>4
<1>9. Doors'
  <2>1. /\ mapping' \in [Platform \X Link -> Delivery \cup {Nil}] /\ clock' \in Nat
        /\ \A k \in Platform \X Link : mapping[k] # Nil => mapping'[k] # Nil
        /\ req' \in [Request -> Locals] /\ \A q \in Request : req'[q] = req[q]
    BY <1>1 DEF Doors, DoorsType
  <2>2. \A z \in SessionId : sess[z] # Nil => sess'[z] # Nil /\ sess'[z].user = sess[z].user
    BY <1>4
  <2> QED BY <1>1, <2>1, <2>2, DoorsQuiet
<1> QED BY <1>6, <1>7, <1>8, <1>9

\* The goroutine of a completed session moves on: it is ready only with the
\* link of a launch, skips only without a line item, and posts as its last step.
LEMMA GradeStep ==
    ASSUME Inv, NEW s \in SessionId, GradeRead(s) \/ GradePost(s) \/ GradeFails(s)
    PROVE  Books'
<1> USE DEF Inv, Books
<1>0. /\ grade[s].at \in {"due", "ready"} /\ UNCHANGED <<sess, links, linked, early>>
      /\ sess[s] # Nil /\ sess[s].done /\ posted[s] = << >>
  BY DEF GradeRead, GradePost, GradeFails, tables, history, Scores
<1>1. ASSUME NEW at \in {"skipped", "failed", "ready"}, NEW link \in LinkRow \cup {Nil},
             Grading(s, at, link), UNCHANGED posted,
             at = "ready" => \E t \in Token : <<s, t>> \in linked /\ LinkOf(t) = link,
             at = "skipped" /\ s \in early => \E t \in Token : <<s, t>> \in linked /\ t.item = Nil
      PROVE  Books'
  <2>1. /\ grade'[s].at = at /\ grade'[s].link = link
        /\ \A z \in SessionId : z # s => grade'[z] = grade[z]
    BY <1>1 DEF Grading, BooksType
  <2>2. BooksType'
    <3>1. grade' \in [SessionId -> [at: {"none", "due", "ready", "skipped", "failed", "posted"},
                                    link: LinkRow \cup {Nil}]]
      BY <1>1 DEF BooksType, Grading
    <3> QED BY <1>0, <1>1, <3>1 DEF BooksType
  <2>3. Accounts'
    BY <1>0 DEF Accounts, UserOf, ltiUserID, LinkOf
  <2>4. Scores' /\ GradePostedOnce'
    <3>1. ASSUME NEW z \in SessionId
          PROVE  /\ grade'[z].at # "none" => sess[z] # Nil /\ sess[z].done
                 /\ grade'[z].at = "ready" =>
                        \E y \in Token : <<z, y>> \in linked /\ LinkOf(y) = grade'[z].link
                 /\ grade'[z].at # "posted" => posted[z] = << >>
      <4>1. CASE z = s
        BY <1>0, <1>1, <2>1, <4>1
      <4>2. CASE z # s
        BY <2>1, <4>2 DEF Scores
      <4> QED BY <4>1, <4>2
    <3>2. Scores'
      BY <1>0, <1>1, <3>1 DEF Scores, LinkOf
    <3>3. GradePostedOnce'
      BY <1>0, <1>1 DEF GradePostedOnce, LinkOf
    <3> QED BY <3>2, <3>3
  <2>5. GradeNotPassedOver'
    BY <1>0, <1>1, <2>1, ZenonT(60) DEF GradeNotPassedOver, BooksType
  <2> QED BY <2>2, <2>3, <2>4, <2>5
<1>2. CASE GradeRead(s)
  <2>1. UNCHANGED posted
    BY <1>2 DEF GradeRead, history
  <2>2. CASE links[s] = Nil \/ links[s].item = Nil
    <3>1. Grading(s, "skipped", Nil)
      BY <1>2, <2>2 DEF GradeRead
    <3>2. s \in early => \E t \in Token : <<s, t>> \in linked /\ t.item = Nil
      <4>1. ASSUME s \in early PROVE \E t \in Token : <<s, t>> \in linked /\ t.item = Nil
        <5>1. links[s] # Nil
          BY <4>1 DEF Accounts
        <5>2. PICK t \in Token : <<s, t>> \in linked /\ LinkOf(t) = links[s]
          BY <5>1 DEF Accounts
        <5>3. LinkOf(t).item = t.item
          BY DEF LinkOf
        <5> QED BY <2>2, <5>1, <5>2, <5>3
      <4> QED BY <4>1
    <3> QED BY <1>1, <2>1, <3>1, <3>2
  <2>3. CASE /\ ~(links[s] = Nil \/ links[s].item = Nil) /\ links[s].platform.key
    <3>1. Grading(s, "ready", links[s])
      BY <1>2, <2>3 DEF GradeRead
    <3>2. links[s] \in LinkRow \cup {Nil}
      BY DEF BooksType
    <3>3. \E t \in Token : <<s, t>> \in linked /\ LinkOf(t) = links[s]
      BY <2>3 DEF Accounts
    <3> QED BY <1>1, <2>1, <3>1, <3>2, <3>3
  <2>4. CASE /\ ~(links[s] = Nil \/ links[s].item = Nil) /\ ~links[s].platform.key
    <3>1. Grading(s, "failed", Nil)
      BY <1>2, <2>4 DEF GradeRead
    <3> QED BY <1>1, <2>1, <3>1
  <2> QED BY <2>2, <2>3, <2>4
<1>3. CASE GradeFails(s)
  BY <1>1, <1>3 DEF GradeFails, history
<1>4. CASE GradePost(s)
  <2>1. /\ grade[s].at = "ready" /\ Grading(s, "posted", Nil)
        /\ posted' = [posted EXCEPT ![s] = Append(@, grade[s].link)]
    BY <1>4 DEF GradePost
  <2>2. PICK t \in Token : <<s, t>> \in linked /\ LinkOf(t) = grade[s].link
    BY <2>1 DEF Scores
  <2>3. /\ grade' \in [SessionId -> [at: {"none", "due", "ready", "skipped", "failed", "posted"},
                                     link: LinkRow \cup {Nil}]]
        /\ grade'[s].at = "posted" /\ \A z \in SessionId : z # s => grade'[z] = grade[z]
    BY <2>1 DEF BooksType, Grading
  <2>4. grade[s].link \in LinkRow
    BY <2>2 DEF LinkRow
  <2>5. /\ posted' \in [SessionId -> Seq(LinkRow)] /\ posted'[s] = <<LinkOf(t)>>
        /\ \A z \in SessionId : z # s => posted'[z] = posted[z]
    <3>1. Append(posted[s], grade[s].link) = <<LinkOf(t)>>
      BY <1>0, <2>2
    <3>2. <<LinkOf(t)>> \in Seq(LinkRow)
      BY <2>2, <2>4
    <3>3. posted' = [posted EXCEPT ![s] = <<LinkOf(t)>>] /\ posted \in [SessionId -> Seq(LinkRow)]
      BY <2>1, <3>1 DEF BooksType
    <3> QED BY <3>2, <3>3
  <2>6. BooksType'
    BY <1>0, <2>3, <2>5 DEF BooksType
  <2>7. Accounts'
    BY <1>0 DEF Accounts, UserOf, ltiUserID, LinkOf
  <2>8. Scores'
    <3>1. ASSUME NEW z \in SessionId
          PROVE  /\ grade'[z].at # "none" => sess[z] # Nil /\ sess[z].done
                 /\ grade'[z].at = "ready" =>
                        \E y \in Token : <<z, y>> \in linked /\ LinkOf(y) = grade'[z].link
                 /\ grade'[z].at # "posted" => posted'[z] = << >>
      <4>1. CASE z = s
        BY <1>0, <2>3, <4>1
      <4>2. CASE z # s
        <5>1. grade'[z] = grade[z] /\ posted'[z] = posted[z]
          BY <2>3, <2>5, <4>2
        <5>2. /\ grade[z].at # "none" => sess[z] # Nil /\ sess[z].done
              /\ grade[z].at = "ready" =>
                     \E y \in Token : <<z, y>> \in linked /\ LinkOf(y) = grade[z].link
              /\ grade[z].at # "posted" => posted[z] = << >>
          BY DEF Scores
        <5> QED BY <5>1, <5>2, Zenon
      <4> QED BY <4>1, <4>2
    <3> QED BY <1>0, <3>1 DEF Scores, LinkOf
  <2>9. GradePostedOnce'
    <3>1. ASSUME NEW z \in SessionId, posted'[z] # << >>
          PROVE  /\ Len(posted'[z]) = 1 /\ sess[z].done
                 /\ \E y \in Token : <<z, y>> \in linked /\ LinkOf(y) = posted'[z][1]
      <4>1. CASE z = s
        <5>1. Len(<<LinkOf(t)>>) = 1 /\ <<LinkOf(t)>>[1] = LinkOf(t)
          OBVIOUS
        <5> QED BY <1>0, <2>2, <2>5, <4>1, <5>1
      <4>2. CASE z # s
        <5>1. posted'[z] = posted[z] /\ posted[z] # << >>
          BY <2>5, <3>1, <4>2
        <5>2. /\ Len(posted[z]) = 1 /\ sess[z].done
              /\ \E y \in Token : <<z, y>> \in linked /\ LinkOf(y) = posted[z][1]
          BY <5>1 DEF GradePostedOnce
        <5> QED BY <5>1, <5>2, Zenon
      <4> QED BY <4>1, <4>2
    <3> QED BY <1>0, <3>1 DEF GradePostedOnce, LinkOf
  <2>10. GradeNotPassedOver'
    BY <1>0, <2>3 DEF GradeNotPassedOver, BooksType
  <2> QED BY <2>6, <2>7, <2>8, <2>9, <2>10
<1> QED BY <1>2, <1>3, <1>4

-----------------------------------------------------------------------------
(* All steps together.                                                     *)

\* A step that leaves sessions, links and grades alone.
LEMMA BooksUnchanged ==
    ASSUME Inv, UNCHANGED <<sess, links, grade, posted, linked, early>>
    PROVE  Books'
  BY BooksKept DEF Inv, Books, BooksType

\* Registration, the steps of a launch before the update, and its end.
LEMMA QuietStep ==
    ASSUME Inv,
           \/ \E p \in Platform : \/ RegisterPlatform(p)
                                  \/ \E l \in Link, d \in Delivery : RegisterResourceLink(p, l, d)
           \/ \E r \in Request : \/ \E x \in State, t \in Token : ReceiveLaunch(r, x, t)
                                 \/ LaunchRead(r) \/ LaunchVerify(r)
                                 \/ LaunchRejected(r) \/ Abort(r)
           \/ Tick \/ UNCHANGED vars
    PROVE  Inv'
<1> USE DEF tables, platforms, history
<1>0. /\ DoorsType /\ LaunchInv /\ mapping \in [Platform \X Link -> Delivery \cup {Nil}]
      /\ req \in [Request -> Locals] /\ clock \in Nat
  BY DEF Inv, Doors, DoorsType
<1>1. CASE (\E p \in Platform : RegisterPlatform(p)) \/ UNCHANGED vars \/ Tick
  <2>1. /\ UNCHANGED <<mapping, states, sess, links, req, grade, posted, launched, linked, early>>
        /\ clock' \in Nat
    BY <1>0, <1>1 DEF RegisterPlatform, Tick, vars
  <2>2. Doors'
    BY <1>0, <2>1, DoorsQuiet DEF Inv
  <2> QED BY <2>1, <2>2, BooksUnchanged DEF Inv
<1>2. ASSUME NEW p \in Platform, NEW l \in Link, NEW d \in Delivery, RegisterResourceLink(p, l, d)
      PROVE  Inv'
  <2>1. /\ UNCHANGED <<states, sess, links, req, grade, posted, launched, linked, early, clock>>
        /\ mapping' = [mapping EXCEPT ![<<p, l>>] = d]
    BY <1>2 DEF RegisterResourceLink
  <2>2. /\ mapping' \in [Platform \X Link -> Delivery \cup {Nil}]
        /\ \A k \in Platform \X Link : mapping[k] # Nil => mapping'[k] # Nil
    BY <1>0, <2>1, Constants
  <2>3. Doors'
    BY <1>0, <2>1, <2>2, DoorsQuiet DEF Inv
  <2> QED BY <2>1, <2>3, BooksUnchanged DEF Inv
<1>3. ASSUME NEW r \in Request,
             UNCHANGED <<mapping, states, sess, links, grade, posted, launched, linked, early, clock>>,
             req' \in [Request -> Locals], \A q \in Request : q # r => req'[q] = req[q],
             \/ req'[r].at = "idle"
             \/ /\ req'[r].at \in {"read", "verify", "consume"}
                /\ req'[r].state \in State /\ req'[r].token \in Token
                /\ req'[r].at = "consume" => DeliveryOf(req'[r].token) # Nil
      PROVE  Inv'
  <2>1. \A q \in Request :
            \/ req'[q] = req[q]
            \/ req'[q].at \in {"idle", "cleanup"}
            \/ /\ req'[q].at \in {"read", "verify", "consume"}
               /\ req'[q].state \in State /\ req'[q].token \in Token
               /\ req'[q].at = "consume" => DeliveryOf(req'[q].token) # Nil
    BY <1>3
  <2>2. /\ mapping' \in [Platform \X Link -> Delivery \cup {Nil}] /\ clock' \in Nat
        /\ \A k \in Platform \X Link : mapping[k] # Nil => mapping'[k] # Nil
        /\ \A s \in SessionId : sess[s] # Nil => sess'[s] # Nil /\ sess'[s].user = sess[s].user
    BY <1>0, <1>3
  <2>3. Doors'
    BY <1>3, <2>1, <2>2, DoorsQuiet DEF Inv
  <2> QED BY <1>3, <2>3, BooksUnchanged DEF Inv
<1>4. ASSUME NEW r \in Request, Return(r),
             UNCHANGED <<mapping, states, sess, links, grade, posted, launched, linked, early, clock>>
      PROVE  Inv'
  <2>1. req' \in [Request -> Locals] /\ \A q \in Request : q # r => req'[q] = req[q]
    BY <1>0, <1>4, ReqStep
  <2>2. req'[r].at = "idle"
    BY <1>0, <1>4 DEF Return, Idle
  <2> QED BY <1>3, <1>4, <2>1, <2>2
<1>5. ASSUME NEW r \in Request, LaunchRejected(r) \/ Abort(r) PROVE Inv'
  BY <1>4, <1>5 DEF LaunchRejected, Abort
<1>6. ASSUME NEW r \in Request, NEW x \in State, NEW t \in Token, ReceiveLaunch(r, x, t)
      PROVE  Inv'
  <2> DEFINE m == [Idle EXCEPT !.at = "read", !.state = x, !.token = t]
  <2>1. /\ req' = [req EXCEPT ![r] = m]
        /\ UNCHANGED <<mapping, states, sess, links, grade, posted, launched, linked, early, clock>>
    BY <1>6 DEF ReceiveLaunch
  <2>0. m \in Locals /\ m.at = "read" /\ m.state = x /\ m.token = t
    BY DEF Idle, Locals, Busy
  <2> HIDE DEF m
  <2>2. req' \in [Request -> Locals] /\ \A q \in Request : q # r => req'[q] = req[q]
    BY <1>0, <2>0, <2>1
  <2>3. req'[r].at = "read" /\ req'[r].state = x /\ req'[r].token = t
    BY <1>0, <2>0, <2>1
  <2> QED BY <1>3, <2>1, <2>2, <2>3
<1>7. ASSUME NEW r \in Request, LaunchRead(r) PROVE Inv'
  <2>1. UNCHANGED <<mapping, states, sess, links, grade, posted, launched, linked, early, clock>>
    BY <1>7 DEF LaunchRead
  <2>2. CASE Return(r)
    BY <1>4, <2>1, <2>2
  <2>3. CASE req' = [req EXCEPT ![r].at = "verify", ![r].now = clock]
    <3>1. req[r] \in Locals /\ req[r].state \in State /\ req[r].token \in Token
      BY <1>0, <1>7 DEF LaunchRead, LaunchInv, Busy
    <3>2. req' \in [Request -> Locals] /\ \A q \in Request : q # r => req'[q] = req[q]
      BY <1>0, <2>3, <3>1 DEF Locals, Busy
    <3>3. req'[r].at = "verify" /\ req'[r].state = req[r].state /\ req'[r].token = req[r].token
      BY <1>0, <2>3, <3>1 DEF Locals
    <3> QED BY <1>3, <2>1, <3>1, <3>2, <3>3
  <2> QED BY <1>7, <2>2, <2>3 DEF LaunchRead
<1>8. ASSUME NEW r \in Request, LaunchVerify(r) PROVE Inv'
  <2>1. /\ UNCHANGED <<mapping, states, sess, links, grade, posted, launched, linked, early, clock>>
        /\ DeliveryOf(req[r].token) # Nil /\ req' = [req EXCEPT ![r].at = "consume"]
    BY <1>8 DEF LaunchVerify, Goto
  <2>2. req[r] \in Locals /\ req[r].state \in State /\ req[r].token \in Token
    BY <1>0, <1>8 DEF LaunchVerify, LaunchInv, Busy
  <2>3. req' \in [Request -> Locals] /\ \A q \in Request : q # r => req'[q] = req[q]
    BY <1>0, <2>1, <2>2 DEF Locals, Busy
  <2>4. req'[r].at = "consume" /\ req'[r].state = req[r].state /\ req'[r].token = req[r].token
    BY <1>0, <2>1, <2>2 DEF Locals
  <2> QED BY <1>3, <2>1, <2>2, <2>3, <2>4
<1> QED BY <1>1, <1>2, <1>5, <1>6, <1>7, <1>8

\* The last step of a launch lets go of its request.
LEMMA SaveLinkDoors ==
    ASSUME Inv, NEW r \in Request, LaunchSaveLink(r)
    PROVE  Doors'
<1>1. Return(r) /\ UNCHANGED <<mapping, states, sess, launched, clock>>
  BY DEF LaunchSaveLink, platforms
<1>2. /\ DoorsType /\ mapping \in [Platform \X Link -> Delivery \cup {Nil}]
      /\ req \in [Request -> Locals] /\ clock \in Nat
  BY DEF Inv, Doors, DoorsType
<1>3. req' \in [Request -> Locals] /\ \A q \in Request : q # r => req'[q] = req[q]
  BY <1>1, <1>2, ReqStep
<1>4. req'[r].at = "idle"
  BY <1>1, <1>2 DEF Return, Idle
<1>5. \A q \in Request : req'[q] = req[q] \/ req'[q].at \in {"idle", "cleanup"}
  BY <1>3, <1>4
<1> QED BY <1>1, <1>2, <1>3, <1>5, DoorsQuiet DEF Inv

\* A crash ends all requests, and the goroutines that have not posted.
LEMMA CrashStep == ASSUME Inv, Crash PROVE Inv'
<1>1. /\ UNCHANGED <<mapping, states, sess, links, posted, launched, linked, early, clock>>
      /\ req' = [r \in Request |-> Idle]
      /\ grade' = [s \in SessionId |->
                      IF grade[s].at \in {"due", "ready"}
                      THEN [at |-> "failed", link |-> Nil] ELSE grade[s]]
  BY DEF Crash, tables, platforms, history
<1>2. Doors'
  <2>1. /\ mapping \in [Platform \X Link -> Delivery \cup {Nil}] /\ clock \in Nat
    BY DEF Inv, Doors, DoorsType
  <2>2. req' \in [Request -> Locals] /\ \A q \in Request : req'[q].at = "idle"
    BY <1>1 DEF Idle, Locals
  <2> QED BY <1>1, <2>1, <2>2, DoorsQuiet DEF Inv
<1>3. Books'
  <2> USE DEF Inv, Books
  <2>1. /\ grade' \in [SessionId -> [at: {"none", "due", "ready", "skipped", "failed", "posted"},
                                     link: LinkRow \cup {Nil}]]
        /\ \A s \in SessionId : \/ grade'[s] = grade[s]
                                \/ grade[s].at \in {"due", "ready"} /\ grade'[s].at = "failed"
    BY <1>1 DEF BooksType
  <2>2. BooksType' /\ Accounts'
    <3>1. BooksType'
      BY <1>1, <2>1 DEF BooksType
    <3>2. Accounts'
      BY <1>1 DEF Accounts, UserOf, ltiUserID, LinkOf
    <3> QED BY <3>1, <3>2
  <2>3. ASSUME NEW z \in SessionId
        PROVE  /\ grade'[z].at # "none" => sess[z] # Nil /\ sess[z].done
               /\ grade'[z].at = "ready" =>
                      \E y \in Token : <<z, y>> \in linked /\ LinkOf(y) = grade'[z].link
               /\ grade'[z].at # "posted" => posted[z] = << >>
    <3>1. CASE grade'[z] = grade[z]
      BY <3>1 DEF Scores
    <3>2. CASE grade[z].at \in {"due", "ready"} /\ grade'[z].at = "failed"
      BY <3>2 DEF Scores
    <3> QED BY <2>1, <3>1, <3>2
  <2>4. Scores'
    BY <1>1, <2>3 DEF Scores, LinkOf
  <2>5. GradePostedOnce'
    BY <1>1 DEF GradePostedOnce, LinkOf
  <2>6. GradeNotPassedOver'
    BY <1>1, <2>1 DEF GradeNotPassedOver, BooksType
  <2> QED BY <2>2, <2>4, <2>5, <2>6
<1> QED BY <1>2, <1>3 DEF Inv

\* Inv is inductive.
LEMMA NextInv == Inv /\ [Next]_vars => Inv'
<1> SUFFICES ASSUME Inv, [Next]_vars PROVE Inv'
  OBVIOUS
<1>1. ASSUME NEW r \in Request, LoginCleanup(r) \/ LaunchConsume(r) PROVE Inv'
  <2>1. Doors'
    BY <1>1, LoginCleanupStep, ConsumeStep
  <2>2. UNCHANGED <<sess, links, grade, posted, linked, early>>
    BY <1>1 DEF LoginCleanup, LaunchConsume, history
  <2> QED BY <2>1, <2>2, BooksUnchanged DEF Inv
<1>2. ASSUME NEW r \in Request, NEW x \in State, NEW p \in Platform, LoginCreate(r, x, p)
      PROVE  Inv'
  <2>1. Doors'
    BY <1>2, LoginCreateStep
  <2>2. UNCHANGED <<sess, links, grade, posted, linked, early>>
    BY <1>2 DEF LoginCreate, history
  <2> QED BY <2>1, <2>2, BooksUnchanged DEF Inv
<1>3. ASSUME NEW r \in Request, LaunchStart(r) PROVE Inv'
  BY <1>3, StartStep
<1>4. ASSUME NEW r \in Request, LaunchSaveLink(r) PROVE Inv'
  BY <1>4, SaveLinkStep, SaveLinkDoors DEF Inv
<1>5. ASSUME NEW s \in SessionId, Submit(s) PROVE Inv'
  BY <1>5, SubmitStep
<1>6. ASSUME NEW s \in SessionId, GradeRead(s) \/ GradePost(s) \/ GradeFails(s) PROVE Inv'
  <2>1. Books'
    BY <1>6, GradeStep
  <2>2. UNCHANGED <<mapping, states, sess, req, launched, clock>>
    BY <1>6 DEF GradeRead, GradePost, GradeFails, tables, platforms, history
  <2>3. /\ mapping \in [Platform \X Link -> Delivery \cup {Nil}]
        /\ req \in [Request -> Locals] /\ clock \in Nat
    BY DEF Inv, Doors, DoorsType
  <2>4. Doors'
    BY <2>2, <2>3, DoorsQuiet DEF Inv
  <2> QED BY <2>1, <2>4 DEF Inv
<1> QED BY <1>1, <1>2, <1>3, <1>4, <1>5, <1>6, CrashStep, QuietStep DEF Next

\* The inductive invariant of launches and grades.
THEOREM Invariance == Spec => []Inv
  BY InitInv, NextInv, PTL DEF Spec

\* Of any number of concurrent launches with one state, HandleLaunch lets one
\* at most through to StartSession.
THEOREM StatesUsedOnce == Spec => []StateUsedOnce
  BY Invariance, PTL DEF Inv, Doors

\* HandleLaunch never lets two LMS accounts into one session.
THEOREM OneAccountPerSession == Spec => []SessionOfOneAccount
<1>1. ASSUME Inv PROVE SessionOfOneAccount
  <2> SUFFICES ASSUME NEW a \in linked, NEW b \in linked, a[1] = b[1]
               PROVE  /\ a[2].platform.issuer = b[2].platform.issuer
                      /\ a[2].subject = b[2].subject
    BY DEF SessionOfOneAccount
  <2>1. /\ a[1] \in SessionId /\ a[2] \in Token /\ a = <<a[1], a[2]>>
        /\ b[2] \in Token /\ b = <<b[1], b[2]>>
    BY <1>1 DEF Inv, Books, BooksType
  <2>2. UserOf(a[2]) = UserOf(b[2])
    BY <1>1, <2>1 DEF Inv, Books, Accounts
  <2> QED BY <2>2 DEF UserOf, ltiUserID
<1> QED BY <1>1, Invariance, PTL

\* SubmitGradeToLMS posts a score once at most, for a completed session, to a
\* line item under which that session was launched.
THEOREM GradesPostedOnce == Spec => []GradePostedOnce
  BY Invariance, PTL DEF Inv, Books

\* A session that was linked to a line item when it was submitted is not passed
\* over, unless a launch without one replaced the link.
THEOREM GradesNotPassedOver == Spec => []GradeNotPassedOver
  BY Invariance, PTL DEF Inv, Books
=============================================================================
