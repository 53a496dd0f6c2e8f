------------------------------ MODULE Gateway -------------------------------
(***************************************************************************)
(* The way of a request through the middleware that registerProtectedRoutes*)
(* puts in front of the handlers: JWTAuthMiddleware and RequireRole for    *)
(* most routes, and one rate limiter that the LTI entry points share with  *)
(* the saving of answers.  A launch hands out the candidate's token; a     *)
(* restart empties the limiter and may bring another JWT secret.           *)
(*                                                                         *)
(* passed counts the requests whose handler runs behind the limiter.       *)
(***************************************************************************)
EXTENDS RateLimiter

CONSTANTS
    Secret,       \* values of JWT_SECRET
    TTL,          \* jwt.expire_hours in clock ticks
    Nil,
    Minted,       \* tokens signed elsewhere with the same configuration
    MaxRestarts   \* bound on the restarts of a behaviour

NoTime == -1

\* proper: Bearer, HS256, issuer and audience are in order, user_id is usable.
Token == [roles: SUBSET {"STUDENT", "ADMIN"}, iat: Time \cup {NoTime}, exp: Int,
          proper: BOOLEAN, secret: Secret]

ASSUME GatewayAssumption ==
    /\ TTL \in Nat \ {0} /\ MaxRestarts \in Nat
    /\ Minted \subseteq Token /\ Nil \notin Token

VARIABLES
    secret,     \* JWT_SECRET of the running process
    token,      \* token[c]: handed out by the last launch of client c
    launched,   \* launched[c]: when that was
    restarts    \* restarts so far

session == <<secret, token, launched, restarts>>
gateway == <<vars, session>>

GatewayInit ==
    /\ Init
    /\ secret \in Secret
    /\ token = [c \in Client |-> Nil]
    /\ launched = [c \in Client |-> NoTime]
    /\ restarts = 0

-----------------------------------------------------------------------------

\* The routes by the middleware in front of their handlers: /health and the
\* like, LTI login and launch, the response route, other routes of
\* candidates (and media), and those of administrators.
Route == {"open", "lti", "save", "candidate", "admin"}

\* Mutant: a token is good from the second after its launch.
ValidLater(t) ==
    /\ t # Nil /\ t.proper /\ t.secret = secret
    /\ t.exp # NoTime /\ now < t.exp
    /\ t.iat # NoTime /\ t.iat < now

\* JWTAuthMiddleware.
Valid(t) ==
    /\ t # Nil /\ t.proper /\ t.secret = secret
    /\ t.exp # NoTime /\ now < t.exp
    /\ t.iat # NoTime /\ t.iat <= now

\* The authentication and, for administrators, RequireRole("ADMIN").
Admitted(route, t) ==
    /\ route \in {"save", "candidate", "admin"} => Valid(t)
    /\ route = "admin" => "ADMIN" \in t.roles

Limited(route) == route \in {"lti", "save"}

\* Mutant: the limiter stands in front of the authentication.
UnauthorisedCounted(c, route, t) ==
    /\ ~Admitted(route, t)
    /\ SameWindow(c) /\ visitors[c].count < MaxCount
    /\ visitors' = Put(visitors, c, Counted(visitors[c]))
    /\ UNCHANGED <<now, passed, evicted, session>>

\* 401 or 403: neither the limiter nor a handler hears of the request.
Unauthorised(c, route, t) ==
    /\ ~Admitted(route, t)
    /\ UNCHANGED gateway

LimiterAdmits(c) == NewWindow(c) \/ Evict(c) \/ InWindow(c)

Handle(c, route, t) ==
    /\ Admitted(route, t)
    /\ IF Limited(route) THEN LimiterAdmits(c) ELSE UNCHANGED vars
    /\ UNCHANGED session

TooManyRequests(c, route, t) ==
    /\ Admitted(route, t)
    /\ Limited(route)
    /\ Refuse(c)
    /\ UNCHANGED session

GenerateJWT(roles) ==
    [roles |-> roles, iat |-> now, exp |-> now + TTL, proper |-> TRUE, secret |-> secret]

\* The handler of a launch that succeeds ends with GenerateJWT.
Launch(c) ==
    /\ LimiterAdmits(c)
    /\ token' = [token EXCEPT ![c] = GenerateJWT({"STUDENT"})]
    /\ launched' = [launched EXCEPT ![c] = now]
    /\ UNCHANGED <<secret, restarts>>

\* The limiter's map is gone, and what it had counted with it.
Restart ==
    /\ restarts < MaxRestarts
    /\ restarts' = restarts + 1
    /\ secret' \in Secret
    /\ visitors' = << >>
    /\ evicted' = Client
    /\ UNCHANGED <<now, passed, token, launched>>

GatewayNext ==
    \/ (Tick \/ Cleanup) /\ UNCHANGED session
    \/ \E c \in Client, route \in Route : \E t \in {token[c], Nil} \cup Minted :
        \/ Handle(c, route, t)
        \/ Unauthorised(c, route, t)
        \/ TooManyRequests(c, route, t)
    \/ \E c \in Client : Launch(c)
    \/ Restart

GatewaySpec == GatewayInit /\ [][GatewayNext]_gateway

-----------------------------------------------------------------------------
(* Properties.  BurstBounded and RefusedOnlyOverLimit of RateLimiter hold  *)
(* for requests that come through the gateway as well: in particular, what *)
(* is turned away with 401 uses nothing of the budget of its address.      *)

\* The token of a launch opens the candidate's routes from that moment until
\* its time is up, as long as the secret stays, and never an administrator's.
TokenHonoured ==
    \A c \in Client : token[c] # Nil =>
        LET inTime == now < launched[c] + TTL /\ token[c].secret = secret IN
        /\ Admitted("save", token[c]) <=> inTime
        /\ ~Admitted("admin", token[c])
=============================================================================
