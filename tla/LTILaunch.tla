----------------------------- MODULE LTILaunch -----------------------------
(***************************************************************************)
(* internal/service/lti_service.go: the registration of platforms and      *)
(* resource links, InitiateLogin, HandleLaunch and SubmitGradeToLMS, run   *)
(* concurrently by request goroutines and by the goroutine that            *)
(* SubmitSession starts.  Every statement is a transaction of its own;     *)
(* nothing is locked between them.                                         *)
(*                                                                         *)
(* StartSession and SubmitSession appear as the atomic operations that     *)
(* SessionService is shown to implement (ExamLedger), reduced to who owns  *)
(* a session and whether it is completed.  The verdict of signature and    *)
(* JWKS (JWKSCache) is a free choice, like the length and URL checks that  *)
(* turn a registration away before it touches a table.                     *)
(***************************************************************************)
EXTENDS Integers, Sequences, FiniteSets, Functions

CONSTANTS
    Platform,     \* registrations: issuer, client and whether there is a key
    Link,         \* deployment and resource link of a platform
    Delivery,
    State,        \* state values, each with its nonce
    Request,      \* goroutines serving logins and launches
    Token,        \* id_tokens that the platforms issue
    SessionId,
    MaxAttempts,  \* deliveries.max_attempts
    Lifetime,     \* 5 minutes
    MaxTime,      \* bound on the clock
    MaxFaults,    \* bound on the faults of a behaviour
    Nil

\* A token has a nonce, the platform that signed it, subject, resource link
\* and the AGS line item, Nil where there is none.
ASSUME TokenAssumption ==
    /\ \A t \in Token : t.nonce \in State /\ t.platform \in Platform /\ t.link \in Link
    /\ Nil \notin Request \cup SessionId \cup Delivery
    /\ MaxAttempts \in Nat \ {0} /\ Lifetime \in Nat /\ MaxTime \in Nat
    /\ MaxFaults \in Nat

VARIABLES
    registered, \* lti_platforms
    mapping,    \* lti_resource_links; Nil for none
    states,     \* lti_oidc_states: status, platform and expires_at
    sess,       \* test_sessions
    links,      \* lti_link_sessions
    req,        \* the locals of each request
    grade,      \* the goroutine of SubmitGradeToLMS for each session
    posted,     \* posted[s]: the links whose line item got the score of s
    launched,   \* launched[x]: how often StartSession was called for state x
    linked,     \* every <<s, token>> whose link was saved
    early,      \* sessions with a saved link when they were submitted
    clock, faults

platforms == <<registered, mapping>>
tables == <<platforms, states, sess, links>>
history == <<posted, launched, linked, early>>
vars == <<tables, req, grade, history, clock, faults>>

Time == 0 .. MaxTime

\* The arguments state and token, and the Go variables now and session.
Idle == [at |-> "idle", state |-> Nil, token |-> Nil, now |-> 0, session |-> Nil]

Init ==
    /\ registered = {}
    /\ mapping = [k \in Platform \X Link |-> Nil]
    /\ states = [x \in State |-> [status |-> "new", platform |-> Nil, expiresAt |-> 0]]
    /\ sess = [s \in SessionId |-> Nil]
    /\ links = [s \in SessionId |-> Nil]
    /\ req = [r \in Request |-> Idle]
    /\ grade = [s \in SessionId |-> [at |-> "none", link |-> Nil]]
    /\ posted = [s \in SessionId |-> << >>]
    /\ launched = [x \in State |-> 0]
    /\ linked = {}
    /\ early = {}
    /\ clock = 0
    /\ faults = 0

Goto(r, l) == req' = [req EXCEPT ![r].at = l]
Return(r) == req' = [req EXCEPT ![r] = Idle]

-----------------------------------------------------------------------------
(* Registration by an administrator.  Unique indexes keep a second row of  *)
(* the same issuer and client, or of the same link, out.                   *)

RegisterPlatform(p) ==
    /\ p \notin registered
    /\ registered' = registered \cup {p}
    /\ UNCHANGED <<mapping, states, sess, links, req, grade, history, clock, faults>>

RegisterResourceLink(p, l, d) ==
    /\ p \in registered
    /\ mapping[<<p, l>>] = Nil
    /\ mapping' = [mapping EXCEPT ![<<p, l>>] = d]
    /\ UNCHANGED <<registered, states, sess, links, req, grade, history, clock, faults>>

-----------------------------------------------------------------------------
(* InitiateLogin.                                                          *)

\* uuid.NewString: the state is new.
LoginCreate(r, x, p) ==
    /\ req[r].at = "idle"
    /\ p \in registered
    /\ states[x].status = "new"
    /\ states' = [states EXCEPT ![x] =
                     [status |-> "stored", platform |-> p, expiresAt |-> clock + Lifetime]]
    /\ req' = [req EXCEPT ![r].at = "cleanup", ![r].now = clock]
    /\ UNCHANGED <<platforms, sess, links, grade, history, clock, faults>>

\* DELETE ... WHERE expires_at < now, with the time of the insert.
LoginCleanup(r) ==
    /\ req[r].at = "cleanup"
    /\ states' = [x \in State |->
                     IF states[x].status \in {"stored", "used"}
                        /\ states[x].expiresAt < req[r].now
                     THEN [states[x] EXCEPT !.status = "deleted"]
                     ELSE states[x]]
    /\ Return(r)
    /\ UNCHANGED <<platforms, sess, links, grade, history, clock, faults>>

-----------------------------------------------------------------------------
(* HandleLaunch.                                                           *)

\* The LMS, or whoever has a token and a state, posts them.
ReceiveLaunch(r, x, t) ==
    /\ req[r].at = "idle"
    /\ req' = [req EXCEPT ![r] = [Idle EXCEPT !.at = "read", !.state = x, !.token = t]]
    /\ UNCHANGED <<tables, grade, history, clock, faults>>

\* used_at IS NULL AND expires_at > now
Usable(x, now) == states[x].status = "stored" /\ states[x].expiresAt > now

LaunchRead(r) ==
    /\ req[r].at = "read"
    /\ IF Usable(req[r].state, clock)
       THEN req' = [req EXCEPT ![r].at = "verify", ![r].now = clock]
       ELSE Return(r)
    /\ UNCHANGED <<tables, grade, history, clock, faults>>

\* The delivery to which the resource link of a token is mapped.
DeliveryOf(t) == mapping[<<t.platform, t.link>>]

\* Platform, key, claims, resource link and AGS checks; the download of the
\* key set lets time pass before this step.
LaunchVerify(r) ==
    LET t == req[r].token IN
    /\ req[r].at = "verify"
    /\ t.nonce = req[r].state
    /\ t.platform = states[req[r].state].platform
    /\ DeliveryOf(t) # Nil
    /\ Goto(r, "consume")
    /\ UNCHANGED <<tables, grade, history, clock, faults>>

LaunchRejected(r) ==
    /\ req[r].at = "verify"
    /\ Return(r)
    /\ UNCHANGED <<tables, grade, history, clock, faults>>

\* Mutant: the update does not ask whether the state was used.
ConsumeAnyway(r) ==
    LET x == req[r].state IN
    /\ req[r].at = "consume"
    /\ states' = [states EXCEPT ![x].status = "used"]
    /\ Goto(r, "start")
    /\ UNCHANGED <<platforms, sess, links, grade, history, clock, faults>>

\* The conditional update decides between concurrent launches; it compares
\* with the time at which the launch was received.
LaunchConsume(r) ==
    LET x == req[r].state IN
    /\ req[r].at = "consume"
    /\ IF Usable(x, req[r].now)
       THEN states' = [states EXCEPT ![x].status = "used"] /\ Goto(r, "start")
       ELSE Return(r) /\ UNCHANGED states
    /\ UNCHANGED <<platforms, sess, links, grade, history, clock, faults>>

\* Mutant: the issuer is left out of the user id.
SubjectOnly(issuer, subject) == <<subject>>

\* SHA-256 of issuer and subject, taken to be injective.
ltiUserID(issuer, subject) == <<issuer, subject>>

\* Nil stands for a missing row and is none of the rows that are written.
ASSUME RowAssumption ==
    \A t \in Token :
        /\ Nil # [platform |-> t.platform, subject |-> t.subject, item |-> t.item]
        /\ \A d \in Delivery, done \in BOOLEAN :
               Nil # [delivery |-> d, done |-> done,
                      user |-> ltiUserID(t.platform.issuer, t.subject)]

SessionsOf(d, u) ==
    {s \in SessionId : sess[s] # Nil /\ sess[s].delivery = d /\ sess[s].user = u}

\* StartSession returns the open session, creates one, or refuses.
LaunchStart(r) ==
    LET t == req[r].token
        u == ltiUserID(t.platform.issuer, t.subject)
        mine == SessionsOf(DeliveryOf(t), u)
        open == {s \in mine : ~sess[s].done}
    IN
    /\ req[r].at = "start"
    /\ launched' = [launched EXCEPT ![req[r].state] = @ + 1]
    /\ \/ /\ open # {}
          /\ \E s \in open : req' = [req EXCEPT ![r].at = "link", ![r].session = s]
          /\ UNCHANGED sess
       \/ /\ open = {} /\ Cardinality(mine) < MaxAttempts
          /\ \E s \in SessionId :
              /\ sess[s] = Nil
              /\ sess' = [sess EXCEPT ![s] =
                            [delivery |-> DeliveryOf(t), user |-> u, done |-> FALSE]]
              /\ req' = [req EXCEPT ![r].at = "link", ![r].session = s]
       \/ /\ open = {} /\ Cardinality(mine) >= MaxAttempts
          /\ Return(r) /\ UNCHANGED sess
    /\ UNCHANGED <<platforms, states, links, grade, posted, linked, early, clock, faults>>

LinkOf(t) == [platform |-> t.platform, subject |-> t.subject, item |-> t.item]

Saved(r) == linked' = linked \cup {<<req[r].session, req[r].token>>}

\* Mutant: the line item is not stored.
SaveLinkNoItem(r) ==
    LET s == req[r].session IN
    /\ req[r].at = "link"
    /\ links' = [links EXCEPT ![s] = [LinkOf(req[r].token) EXCEPT !.item = Nil]]
    /\ Saved(r)
    /\ Return(r)
    /\ UNCHANGED <<platforms, states, sess, grade, posted, launched, early, clock, faults>>

\* db.Save replaces the link of an earlier launch of the same session.
LaunchSaveLink(r) ==
    LET s == req[r].session IN
    /\ req[r].at = "link"
    /\ links' = [links EXCEPT ![s] = LinkOf(req[r].token)]
    /\ Saved(r)
    /\ Return(r)
    /\ UNCHANGED <<platforms, states, sess, grade, posted, launched, early, clock, faults>>

-----------------------------------------------------------------------------
(* SubmitSession and SubmitGradeToLMS.                                     *)

Grading(s, at, link) == grade' = [grade EXCEPT ![s] = [at |-> at, link |-> link]]

\* SubmitSession completes the session and starts the goroutine, once.
Submit(s) ==
    /\ sess[s] # Nil /\ ~sess[s].done
    /\ sess' = [sess EXCEPT ![s].done = TRUE]
    /\ Grading(s, "due", Nil)
    /\ early' = IF links[s] # Nil THEN early \cup {s} ELSE early
    /\ UNCHANGED <<platforms, states, links, req, posted, launched, linked, clock, faults>>

\* Without a link or a line item there is nothing to report; without the
\* private key of the platform the report fails.
GradeRead(s) ==
    /\ grade[s].at = "due"
    /\ IF links[s] = Nil \/ links[s].item = Nil THEN Grading(s, "skipped", Nil)
       ELSE IF links[s].platform.key THEN Grading(s, "ready", links[s])
       ELSE Grading(s, "failed", Nil)
    /\ UNCHANGED <<tables, req, history, clock, faults>>

\* Mutant: the score is posted again when the platform does not confirm it.
GradePostRepeated(s) ==
    /\ grade[s].at = "ready" /\ Len(posted[s]) < 2
    /\ posted' = [posted EXCEPT ![s] = Append(@, grade[s].link)]
    /\ Grading(s, "posted", Nil) \/ UNCHANGED grade
    /\ UNCHANGED <<tables, req, launched, linked, early, clock, faults>>

\* The request reaches the platform, whatever it answers.
GradePost(s) ==
    /\ grade[s].at = "ready"
    /\ posted' = [posted EXCEPT ![s] = Append(@, grade[s].link)]
    /\ Grading(s, "posted", Nil)
    /\ UNCHANGED <<tables, req, launched, linked, early, clock, faults>>

\* Key, access token, maximum score or connection fail: the error is dropped.
GradeFails(s) ==
    /\ grade[s].at \in {"due", "ready"}
    /\ Grading(s, "failed", Nil)
    /\ UNCHANGED <<tables, req, history, clock, faults>>

-----------------------------------------------------------------------------
(* Time and faults.                                                        *)

Tick ==
    /\ clock < MaxTime
    /\ clock' = clock + 1
    /\ UNCHANGED <<tables, req, grade, history, faults>>

\* A statement of the launch or of the login fails.
Abort(r) ==
    /\ faults < MaxFaults
    /\ req[r].at # "idle"
    /\ Return(r)
    /\ faults' = faults + 1
    /\ UNCHANGED <<tables, grade, history, clock>>

Crash ==
    /\ faults < MaxFaults
    /\ faults' = faults + 1
    /\ req' = [r \in Request |-> Idle]
    /\ grade' = [s \in SessionId |->
                    IF grade[s].at \in {"due", "ready"}
                    THEN [at |-> "failed", link |-> Nil] ELSE grade[s]]
    /\ UNCHANGED <<tables, history, clock>>

Next ==
    \/ Tick \/ Crash
    \/ \E p \in Platform :
        RegisterPlatform(p) \/ \E l \in Link, d \in Delivery : RegisterResourceLink(p, l, d)
    \/ \E r \in Request :
        \/ \E x \in State : (\E p \in Platform : LoginCreate(r, x, p))
                          \/ (\E t \in Token : ReceiveLaunch(r, x, t))
        \/ LoginCleanup(r) \/ LaunchRead(r) \/ LaunchVerify(r) \/ LaunchRejected(r)
        \/ LaunchConsume(r) \/ LaunchStart(r) \/ LaunchSaveLink(r) \/ Abort(r)
    \/ \E s \in SessionId :
        Submit(s) \/ GradeRead(s) \/ GradePost(s) \/ GradeFails(s)

Spec == Init /\ [][Next]_vars

-----------------------------------------------------------------------------
(* Properties.                                                             *)

\* A state opens the door once: of any number of launches that were received
\* with it at the same time, one at most reaches StartSession.
StateUsedOnce == \A x \in State : launched[x] <= 1

\* HandleLaunch never lets two LMS accounts into one session, even if two
\* platforms use the same subject.
SessionOfOneAccount ==
    \A a, b \in linked : a[1] = b[1] =>
        a[2].platform.issuer = b[2].platform.issuer /\ a[2].subject = b[2].subject

\* A score goes out once at most, for a completed session, and to a line item
\* under which that very session was launched.
GradePostedOnce ==
    \A s \in SessionId : posted[s] # << >> =>
        /\ Len(posted[s]) = 1
        /\ sess[s].done
        /\ \E t \in Token : <<s, t>> \in linked /\ LinkOf(t) = posted[s][1]

\* A session that was launched with a line item before it was submitted is
\* not passed over by SubmitGradeToLMS, unless a launch without one replaced
\* the link.
GradeNotPassedOver ==
    \A s \in early : grade[s].at = "skipped" =>
        \E t \in Token : <<s, t>> \in linked /\ t.item = Nil
=============================================================================
