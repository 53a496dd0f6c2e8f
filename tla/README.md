# A TLA+ development for tao-core-go

tao-core-go is an assessment server: candidates start, answer and submit
tests through an HTTP API, learning platforms launch them through LTI 1.3 and
receive grades back, other systems are told of results by webhooks, and
questions come in as QTI 3.0 packages. It is a Go process in front of a
PostgreSQL database (SQLite in its tests). Everything that is hard about it
happens between two statements: requests of one candidate race each other,
workers and goroutines outlive the request that started them, several
processes share the database, and each can die between a commit and what
follows it.

The modules in this directory model that behaviour statement by statement,
TLC checks them on small instances, and TLAPS proves the safety of every
component but one for every size of the system. Paths below are relative to the
repository.

    tlc -workers 2 -config MCSessionRace.cfg MCSessionService
    tlapm SessionServiceProofs.tla

## 1. The system

| Part | State | Operations | Interacts with |
|---|---|---|---|
| session service (`internal/service/session_service.go`) | `test_sessions`, `item_responses`; row locks | StartSession, SaveResponse, SubmitSession, GetSession | scoring; after a commit: event bus, webhook queue, LTI grade goroutine |
| scoring service (`scoring_service.go`) | none | ScoreItem, BalanceOptionsKey | called by submission and by import |
| webhook service (`webhook_service.go`) | channel of 100 events, worker pool, `webhook_configs`, `webhook_logs` | Dispatch, RegisterConfig, worker loop | external receivers |
| LTI service (`lti_service.go`) | `lti_platforms`, `lti_resource_links`, `lti_oidc_states`, `lti_link_sessions` | RegisterPlatform, RegisterResourceLink, InitiateLogin, HandleLaunch, SubmitGradeToLMS | StartSession; external platforms |
| JWKS cache (`lti_service.go`) | map under a mutex | signingKey | platforms' key sets |
| QTI import (`qti_service.go`, `qti_handler.go`) | `items`, media files, temporary archives | ImportQTIPackage | BalanceOptionsKey |
| rate limiter (`internal/middleware/rate_limit.go`) | map under a mutex | middleware, cleanup goroutine | LTI entry points and the saving of answers share one |
| authentication (`internal/middleware/auth_middleware.go`) | the JWT secret | JWTAuthMiddleware, RequireRole, GenerateJWT | every protected route; a launch hands out a token |
| outbound policy and secret cipher (`internal/security`) | allowlist and key of the process | ValidateURL, Encrypt, Decrypt | webhooks, LTI |
| proctoring (`proctor_service.go`) | `proctor_events` | RecordEvent, GetProctorAnalytics | reads sessions |
| results export (`results_export_service.go`) | none | ExportDeliveryResultsCSV | reads sessions and responses, calls the analysis |
| server, migration and database set-up (`cmd/server`, `cmd/migrate`, `internal/database`) | the schema, the demo rows | Migrate, VerifySchema, seedDemoData, serve, shut down | every table |
| event bus (`event_bus.go`) | subscribers under a mutex | Subscribe, Publish | called by submission; nobody subscribes |
| metrics, security headers, body limit | a request counter | per request | |

What is hard, part by part, and what makes the part correct:

* **Sessions.** Double clicks, several tabs, a launch racing an API call,
  retries of requests whose answer was lost, a save that waits for a lock
  until the time is over, a crash after the commit. Correct means: one open
  session, numbered attempts within the limit, a grade that is the grade of
  the stored answers, nothing changed after completion or after the deadline,
  listeners told at most once.
* **Webhooks.** A full channel, receivers that fail, time out or answer too
  late, two workers, a crash, a restart with another allowlist or encryption
  key while configurations of the old ones are in the table. Correct means: no
  event duplicated or forgotten by the workers, no receiver called twice or
  against the policy, a log that tells the truth, one bad receiver not hurting
  the others.
* **LTI.** A state used by several launches at once or after the cleanup, a
  platform or a mapping registered in between, a link that is saved after the
  session has started, grade goroutines reading it later. Correct means: a
  state works once, accounts do not share sessions, a score goes out once and
  to the right line item.
* **JWKS cache.** Overlapping downloads that finish in the wrong order while
  the platform rotates its keys. Correct means: withdrawn keys die out and new
  keys are found within a bounded time.
* **QTI import.** Files and rows that must appear together without a common
  transaction, imports of the same items at once, deadlocks in the database,
  a media map in random order.
* **Rate limiter and authentication.** Window boundaries, a full map, a token
  used in the second it was issued or expires in, a limiter that several
  routes share behind different checks. Correct means: a bounded burst, no
  refusal below the limit, a launch whose token works at once and to its end.
* **Proctoring and export.** The status is read without a lock and the event
  inserted later; the export reads sessions, responses and events in separate
  statements while candidates submit, and drops the error of the analysis.
  Correct means: a log that settles after completion, and rows that show final
  scores and no less risk than was on record.
* **Server.** Replicas and the migration tool migrate and seed at the same
  time without a lock; probes of the schema return a bool and swallow errors;
  errors of the seeding inserts are ignored. Correct means: nobody serves on
  an incomplete schema, the demo exam is whole, every server comes up.

`PROJECT.json` lists the hazards with the line where each bites.

## 2. Modules

| Module | Models | Role |
|---|---|---|
| `ExamData` | tables that sessions only read, rows, queries, scoring | constants, their assumptions, pure operators |
| `ExamLedger` | what session handling promises, one atomic step per operation | abstract specification |
| `SessionService` | the session service between its statements | detailed specification, implements `ExamLedger` |
| `SessionServiceProofs`, and `...Proofs` for `WebhookService`, `LTILaunch`, `JWKSCache`, `Gateway`, `Proctoring`, `Server`; `QTIProofs` for `QTIImport` and `QTIItem` | | inductive invariants, theorems and proofs |
| `MCSessionService` | | instances for TLC |
| `Announcements` | what the webhook service promises to receivers | abstract specification |
| `OutboundPolicy` | ValidateURL and the cipher as webhooks use them | pure operators |
| `WebhookService`, `MCWebhookService` | queue, workers, registration, settings | detailed specification, implements `Announcements` |
| `LTILaunch`, `MCLTILaunch` | registration, login, launch, grade sync over the ledger's view of sessions | composes LTI with sessions |
| `JWKSCache` | the key cache | |
| `RateLimiter` | the limiter | |
| `Gateway`, `MCGateway` | authentication, roles and routes in front of the handlers | extends `RateLimiter` |
| `Proctoring`, `MCProctoring` | events, analysis and CSV export during an exam | composed with `ExamLedger` |
| `QTIImport`, `MCQTIImport` | concurrent imports: files, rows, replies | |
| `QTIItem`, `MCQTIItem` | one question from the package to its score | |
| `Server`, `MCServer` | processes migrating, seeding and serving | |

Operators named "Mutant: ..." in a comment are not part of any specification.
Each is a plausible bug in the definition that follows it; put in its place,
it makes the property named in `PROJECT.json` fail.

### Sessions

`sess` and `resp` are the committed tables; `lockD` and `lockS` the row locks
taken by `SELECT ... FOR UPDATE`; `pc` and `ctx` the place and the Go variables
of each request; `calls` counts the calls to the three listeners. A step is
one statement that can wait for a lock, read what others may change, or
commit. Writes inside a transaction become visible at its commit step, so they
are part of that step.

| Code | Actions |
|---|---|
| StartSession | `ReceiveStart`, `StartLock`/`StartRefused` (delivery row, window, groups), `StartFindOpen`/`StartFindNone`, `StartResume` (`tx.Save`, which waits for the session row), `StartCount`, `StartCreate` (unique index included) |
| SaveResponse | `ReceiveSave`, `SaveLock`/`SaveRefused` (ownership, status, time limit, item), `SaveWrite` (the upsert and its read-back, which finds no row and rolls back for an item that was answered before) |
| SubmitSession | `ReceiveSubmit`, `SubmitLock`, `SubmitLoad` (completed: early answer; marks invalid: error), `SubmitWrite` (scores, conditional update, commit), `SubmitPublish`, `SubmitDispatch`, `SubmitGrade` |
| GetSession | `ReceiveGet`, `GetRow`, `GetResponses`: two statements and no transaction |
| faults | `Abort` (a statement fails), `SubmitCommitLost` (commit without acknowledgement), `Crash` |

Answers are classified, not compared: `itemRow[i].right` is the set of
response texts that ScoreItem accepts. The program itself only writes the
statuses `IN_PROGRESS` and `COMPLETED`; rows in `NOT_STARTED` or `PAUSED`
exist only if something else provisions them. They are in `seed`, with the
assumption that whoever provisions them numbers attempts as StartSession does
and leaves at most one session open.

The ledger allows an open session's answers to change; the code does so only
for items without an answer, see the findings.

### Webhooks

`queue` is the Go channel, `work` the locals of each worker, `configs` the
table (a configuration is the key its secret was sealed with), `logs` the log
table, `posts` and `accepted` what the receivers saw, `env` the allowlist and
the encryption key of the running process, `under` the settings an event was
dispatched under. `Dispatch` is the select with a
default branch; `Take`, `LoadConfigs`, `SendNothing`/`Post`, `Log`, `Finish`
are the worker loop. RegisterConfig and every sending look at the policy of
`OutboundPolicy`: a host is a sequence of labels, and a wildcard entry admits
what lies strictly below it. `Post` separates what the receiver did from
whether its answer came in time. Faults: configurations or log unreadable, and
a restart, which empties the channel and may bring other settings.

`Announcements` says what that amounts to for a receiver: an event is new, open
or closed, and a receiver hears of an open event at most once. It promises
nothing about being told at all. `AnnouncementSpec` is the refinement.

### LTI and keys

`LTILaunch` makes every statement of InitiateLogin and HandleLaunch a step
(`LoginCreate`, `LoginCleanup`; `LaunchRead`, `LaunchVerify`/`LaunchRejected`,
`LaunchConsume`, `LaunchStart`, `LaunchSaveLink`) and follows the goroutine of
SubmitGradeToLMS (`GradeRead`, `GradePost`, `GradeFails`). `RegisterPlatform`
and `RegisterResourceLink` happen at any time; a state belongs to the platform
it was created for, and a platform without a key gets no grades. StartSession
and SubmitSession are atomic here, as in `ExamLedger`, which `SessionService`
is proved to implement. `ltiUserID` is taken to be injective (it is SHA-256).

`JWKSCache` is signingKey: the mutex is held for the lookup and for the store
but not during the download, so downloads overlap. The platform publishes and
withdraws keys at any time.

### Gateway and rate limiter

In `RateLimiter` each request is one step under the mutex: `NewWindow`,
`Evict`, `InWindow`, `Refuse`; `Cleanup` is the ticker. `passed` keeps the
times at which requests of a client were let through. `Gateway` puts the routes in front of it: a request carries
the token of the last launch, a foreign one or none; `Unauthorised` ends it
before the limiter, `TooManyRequests` at the limiter, `Handle` lets it through.
`Launch` hands out a token by `GenerateJWT`, `Restart` empties the limiter and
may bring another secret. The clock counts seconds, the resolution of `iat`
and `exp`.

### Proctoring and export

`Proctoring` contains `ExamLedger` as an instance: `Sit` is any step of the
exam. `RecordCheck` and `RecordInsert` are the two statements of RecordEvent.
The export is `ExportSessions`, `ExportResponses` (the preload), one
`ExportRow` per session, in any order, and `ExportDone`; `ExportRowBlind` is a
row whose analysis failed, `ExportFails` a query that fails or a client that is
gone. The thresholds of the analysis are the ones of the code.

### QTI import

`QTIImport` follows the handler and ImportQTIPackage entry by entry: a media
file is created, then checked and kept or removed; items are inserted in one
transaction; `Fail` is every early return with its deferred calls. Inserting a
key that another open transaction has inserted waits; the database breaks
circular waits. `QTIItem` follows one question from parseQTIXMLFile
(`Replace` for each name of the media map) over BalanceOptionsKey (`Balance`,
`Shuffle`, `Label`) and the translation of the key (`Translate`) to ScoreItem:
`ScoredAsAuthored` compares the verdict on every selection with what the author
marked as correct. The constant `Question` holds the questions that packages
may bring, with their media; `urls` are the ones that saveMediaFile chose, and
`left` is the index of the shuffle. A prompt is the sequence of its references,
and a reference, a name or a URL a sequence of tokens: strings.ReplaceAll
(`ReplaceIn`) replaces a name wherever it is a part of the text, from left to
right. The identifiers of a package may be the letters that become labels.

### Server

A process is a server, `migrate up` or `migrate verify`, with settings that are
valid or refused early or late. The tables and unique indexes are a sequence of
objects that AutoMigrate probes and creates one by one (`AutoMigrateProbe`,
`AutoMigrateCreate`), followed by the removal of the index of older releases
(`HasLegacyIndex`, `DropLegacyIndex`) and `VerifySchema`. seedDemoData is a
count and seven inserts, each of which may meet a duplicate, miss a parent or
fail, and goes on. Initially the database is empty, partly migrated, or has
rows that violate an index to come. `Signal` and `Exit` are the shutdown; a
process that ended is booted again.

## 3. Runs

| Run | Instance | Shows |
|---|---|---|
| `session_race` | 3 requests, 1 candidate, 2 attempts (one provisioned), 2 answers, 1 fault | `OneOpenSession`, `AttemptsBounded`, `StartAnswersOwnSession`, `GradeMatchesAnswers`, `SubmitAnswersFinalGrade`, `LedgerSpec`, `CompletedIsFinal` |
| `session_exam` | 2 requests, 2 candidates, 2 deliveries (in one of them the marks are unusable), groups, opening hours, a time limit, a session that waits to be begun and one started by a clock that is ahead, whose owner has left the group; 4 clock values, fair, no faults | `ReadIsConsistent`, `SealedAfterDeadline`, `RequestsFinish`, `CompletionAnnounced` |
| `session_answers` | 1 request after the other, 1 item, 2 answers | `LatestAnswerKept` fails, see findings |
| `webhook` | 2 workers, 2 events, 2 receivers, channel of 1, 2 faults, fair; restarts alternate between two settings, and under each only one of the receivers can be called | `EventsAccounted`, `LogTruthful`, `EveryConfigServed`, `PolicyOfDispatch`, `AnnouncementSpec`, `EventsFinish` |
| `lti_launch` | 2 requests, 2 states, 2 platforms with the same subject, one of them without key, with and without line item, 1 fault | `StateUsedOnce`, `SessionOfOneAccount`, `GradePostedOnce`, `GradeNotPassedOver` |
| `jwks_cache` | 2 launches, 1 key that comes and goes, TTL 2, timeout 1, 5 ticks | `AcceptedKeyRecent`, `PublishedKeyKnown` |
| `gateway` | 2 addresses of which 1 is tracked, limit 2, window 1, token lifetime 2, 3 ticks, 2 secrets, 1 restart | `BurstBounded`, `TokenHonoured`, `RefusedOnlyOverLimit` |
| `qti_import` | 2 imports, 7 kinds of package, 2 faults, fair | `ImportAtomic`, `ReplyTruthful`, `MediaOfItemsExist`, `NoStrayFiles`, `IdentifiersUnique`, `ImportsFinish` |
| `qti_item` | all packages of up to 2 media named 1.png, 11.png or 2.png, in the root or a directory, stored under names that end in 1 or f, and prompts of up to 2 references; all questions with up to 4 options over 3 identifiers and 3 keys, of which 3 options and 2 keys are allowed; every shuffle and selection | `ReferencesRewritten`, `ScoredAsAuthored` |
| `qti_prompt` | the same with stored names in which no name occurs | `PromptRewritten` fails, see findings |
| `proctor_export` | 2 reporters, 3 events, 2 candidates, 1 download at a time, 1 fault | `CompletedRowsFinal`, `RiskNotUnderstated`, `LogSettles` |
| `server` | 2 servers that seed (one is refused by its last configuration check and starts over), both modes of the tool, 2 schema objects, 1 fault or signal, fair | `SchemaReady`, `DemoExamComplete`, `ServersComeUp` |

**Why the bounds are enough to be interesting.** Every race in the session
code is between two requests over one row; the third request of `session_race`
lets a read or a retry observe the other two. Two attempts are needed for a
candidate to have a completed and an open session. The one step that waits for
a lock while it holds another is the start that resumes: both session runs have
a session that waits to be begun, and `RequestsFinish` is checked where a save or
a submission holds it. The time limit and the
opening hours lie strictly inside the clock's range. A channel of one event
overflows with two. An event that outlived a restart would be sent to a receiver
that the process which accepted it could not call. Two overlapping downloads are enough for the older answer
to win, and five ticks cover TTL and timeout twice. A limiter that tracks one
of two addresses evicts, and three window lengths hold a burst around each
boundary; the token's life ends within them. Two packages with the same items
in opposite orders deadlock. A name can lie within another name, within a path
and at the end of a URL; `RewriteAssumption` of `MCQTIItem` compares the
replacement with that of the community modules on short texts. With three incidents, one or two copies or two
tab switches make a session MEDIUM and three copies HIGH; a download with two
rows overlaps the submission of either. Two schema objects are a table and an index that
rows may violate; two servers race for each of them and for every demo row,
and one fault puts a crash or an ignored error anywhere. The safety
properties do not rest on these bounds: all of them are proved. Where symmetry is used
(interchangeable requests or reporters, and fresh session ids), no liveness is
checked.

`CHECK_DEADLOCK FALSE` is set where the system really comes to rest: events,
imports and questions are finite in number, the limiter's history and its clock
are bounded, and servers that all serve have nothing left to do.

**Fairness.** `SessionService` assumes strong fairness of each request's own
steps: the Go scheduler runs every goroutine, the database answers, and it
grants a row lock that is released again and again to each waiter in turn,
since PostgreSQL queues them. Faults and arrivals are never fair.
`WebhookService` assumes weak fairness of each worker: the HTTP client's
10-second timeout ends every request. `QTIImport` assumes weak fairness of
each import; deadlock detection is part of its step. `Server` assumes weak
fairness of each process, its start included: `docker-compose.yml` restarts
what has ended. Signals and faults are bounded in number and never fair.

**Findings.**

1. `src/技術報告.md:281` says that an upsert keeps the latest answer per session
   and item. SaveResponse gives the row a new uuid, and the upsert keeps the id
   of a row that exists. The read-back at `session_service.go:176` searches with
   the new uuid, finds nothing and rolls back: a candidate who changes an answer
   gets an error and keeps the first one. Run `session_answers`.
2. `qti_service.go:94` and `README.md:555` say that relative image paths in a
   prompt are replaced by server URLs. The media map holds each medium under
   its path and under its base name, Go ranges over it in random order, and
   strings.ReplaceAll replaces a name wherever it is a part of the text. When
   `2.png` comes before `images/2.png`, the prompt becomes `images/` followed
   by the URL. Run `qti_prompt`. Media in the root are not safe either: with
   `Dir = {}` in its cfg, TLC shows how `11.png` becomes `1` followed by the URL
   of `1.png`. A name such as `a.png` is also replaced at the end of an inserted
   URL whose uuid ends in `a`. A reference is rewritten correctly when no other
   name of the package occurs in it and none in its URL (`ReferencesRewritten`),
   as in the repository's test.

Observations that the properties state as exceptions or bounds:

* `cmd/server/main.go:172` announces a token bucket limited to 10 requests a
  second. The middleware counts in fixed windows that open with a request,
  and lets up to one less than twice the limit pass within a window length
  (`BurstBounded` is tight).
* After a crash, or after a commit whose acknowledgement was lost, nobody is
  notified of a completed session: notifications are at most once, not exactly
  once (`CompletionAnnounced` holds without faults only).
* After a lost acknowledgement an import removes the media of items that are in
  the database (the exception `doubt` in `MediaOfItemsExist`).
* A proctor event can be stored after its session was completed, by a call
  that had read the status before (`LogSettles`).
* A CSV row whose analysis failed shows `LOW` and no tab switches (the exception
  `blind` in `RiskNotUnderstated`).
* A seeding insert that failed leaves a gap in the demo exam that no later start
  fills (the exception `maimed` in `DemoExamComplete`).
* A failed probe for the legacy index leaves that index in place (the exception
  `blind` in `SchemaReady`).

## 4. Proofs

Eight modules hold proofs. Each defines an invariant `Inv` (`ItemInv` for
questions), shows that it holds
initially and is kept by every step (`Invariance`), and derives the properties
of the runs from it. `Inv` was checked by TLC on the instance of the component's
run before it was proved. No constant is bounded in the proofs beyond the named
assumptions: sessions, requests, workers, receivers, packages, processes,
clients and faults are any number.

| Module | Theorems, with the property each one states |
|---|---|
| `SessionServiceProofs` | `TypeCorrect` (`TypeOK`), `SingleOpenSession` (`OneOpenSession`), `AttemptsWithinLimit` (`AttemptsBounded`), `GradesCorrect` (`GradeMatchesAnswers`), `NotifiedOnce` (`NotifiedAtMostOnce`), `SubmitReplies` (`SubmitAnswersFinalGrade`), `StartReplies` (`StartAnswersOwnSession`), `ReadReplies` (`ReadIsConsistent`), `CompletionFinal` (`CompletedIsFinal`), `DeadlineSeals` (`SealedAfterDeadline`), `ImplementsLedger` (`LedgerSpec`) |
| `WebhookServiceProofs` | `EventsNeverLostTrackOf` (`EventsAccounted`), `LogsTellTheTruth` (`LogTruthful`), `DueConfigsServed` (`EveryConfigServed`), `PolicyKept` (`PolicyOfDispatch`), `ImplementsAnnouncements` (`AnnouncementSpec`) |
| `LTILaunchProofs` | `StatesUsedOnce` (`StateUsedOnce`), `OneAccountPerSession` (`SessionOfOneAccount`), `GradesPostedOnce` (`GradePostedOnce`), `GradesNotPassedOver` (`GradeNotPassedOver`) |
| `JWKSCacheProofs` | `AcceptedRecent` (`AcceptedKeyRecent`), `PublishedKnown` (`PublishedKeyKnown`) |
| `GatewayProofs` | `BurstsBounded` (`BurstBounded`), `RefusalsDeserved` (`RefusedOnlyOverLimit`), `TokensHonoured` (`TokenHonoured`) |
| `ProctoringProofs` | `DownloadsFinal` (`CompletedRowsFinal`), `RisksShown` (`RiskNotUnderstated`), `LogsSettle` (`LogSettles`) |
| `QTIProofs` | `ImportsAtomic` (`ImportAtomic`), `RepliesTruthful` (`ReplyTruthful`), `MediaKept` (`MediaOfItemsExist`), `FailuresCleanUp` (`NoStrayFiles`), `IdentifiersStayUnique` (`IdentifiersUnique`); of questions, `PromptsRewritten` (`ReferencesRewritten`), `QuestionsScored` (`ScoredAsAuthored`) |
| `ServerProofs` | `SchemaAlwaysReady` (`SchemaReady`), `DemoExamsComplete` (`DemoExamComplete`) |

The theorems are about `Spec` (`GatewaySpec`, `ItemSpec`), without fairness;
the fair specifications of the runs imply it.

`NotifiedAtMostOnce` is proved and not part of a run: it follows from
`LedgerSpec`, whose `Tell` counts to one.

**Sessions.** None of the properties is inductive by itself: at the insert
of StartSession the property that matters is what the earlier SELECT and COUNT
have seen. `Inv` therefore adds to the properties

* `LockInv`: a lock is held exactly by the transaction between locking and
  commit or rollback;
* `RequestInv`: what each request has read is still true. `StartKnows` says so
  of StartSession while it holds the delivery, `SessionKnows` of a save and a
  submission while they hold the session, `ReadKnows` of a reader that saw a
  completed row, `NotifierKnows` of the listeners still to be called;
* `OneNotifier`: only the request that completed a session notifies of it.

Most steps leave the tables alone and are covered once by `QuietStep`. For the
steps that commit, the lemma `OthersKnow` shows that what another request
knows survives: either that request would hold the same lock, which `LockInv`
excludes, or the change is one its knowledge allows (a session moves forward,
a completed one does not move). Each remaining lemma `...Step` handles one
action. The refinement maps `sess`, `resp` and `calls` to themselves;
`StartCreate` implements `Open`, `StartResume` `Begin`, `SaveWrite` `Answers`
unless it rolls back,
`SubmitWrite` and `SubmitCommitLost` `Complete`, a notification `Tell`, and
everything else stutters.

**Webhooks.** No lock protects an event; what does is that it is in one place:
in the channel once, or with one worker (`OnePlace`). The worker that holds an
event is then the only one to post and log for it, and it strikes a receiver off
its list before it goes on, so receivers still on the list have been neither
called nor logged (`Unserved`), and the entry it writes next is the first
(`NextEntry`). `DueKept` carries what was due at the dispatch through the
loading of the configurations. `SettingsInv` adds that a pending event was
dispatched by the running process, since a restart drops what is pending; as a
registered configuration never changes, what `PolicyOfDispatch` says of a post
stays true. The refinement maps the fate of an event to new,
open or closed.

**LTI.** `Doors` is about launches: the conditional update on the state lets one
request through, and until that request has started its session nobody else
holds the right to (`Doorkeeper`). `Books` is about what launches leave behind:
every link of a session was saved by a launch of the account that owns it
(`Accounts`), and the goroutine of SubmitGradeToLMS exists once per completed
session and posts in its last step only (`Scores`).

**Key cache.** Downloads overlap and may be stored in any order, so the cache
need not be the latest answer. `ShownAfter(keys, t)` says that the platform
looked like `keys` at some moment not before `t`; it holds of every answer since
its download began, and of the cache since TTL plus Timeout before it expires.

**Rate limiter.** `Opened(c)` is the place, among the requests of `c` that
passed, of the one that opened its window; `Counter` says that the entry in the
map agrees with it, up to the limit. `Apart` says that what passed Limit places
before the window was opened lies more than a window before it. When the next
request passes, the one that lies `2 * Limit - 1` places before it is therefore
outside the window length, and `BurstBounded` is kept. For a client that is not
in the map, `Apart` says the same of the present moment, which is why the cleanup
may drop entries whose window is over and no others.

**Proctoring and export.** A completed session and its sheet never change
(`Final`, from the steps of `ExamLedger`). A row that the first query saw as
completed is therefore the row of the table when the second query counts the
answers, when the row is written and ever after (`ExportInv`, `FileInv`).
Logs only grow, so what a download found in a log is the beginning of what the
analysis of a row counts (`RiskInv`). The places of a type in the beginning are
places of it in the whole log; and where a log has one tab switch at most, the
sum of the seconds is that one term (`LowIsMild`).

**QTI import.** An import is followed through its phases: before the commit it
has no items, its files are those of createdMedia and the one being written
(`EarlyInv`), and its transaction holds exactly the readable items before its
place in the package (`LocalsInv`). A commit thus brings in what is wanted and
an early return leaves nothing (`FailEffect`). Files and rows carry the import
that made them, so no step touches what is said of another (`Frame`). An
identifier is in one open transaction, once, or in the table, once (`UniqueInv`):
an insert has waited for the other transactions and met no duplicate.

**Questions.** `PromptInv` says what has become of a reference in the middle of
the loop over the media map, provided that it is `Separate`, that is, no other
name occurs in it and none in its URL: it is the URL once its own name has had
its turn, and untouched before. The turn of its name replaces it as a whole; the
other turns find nothing in it, nor in its URL. Names that overlap are left
out, since for them the claim is false (finding 2). `OptionInv` says that the options
are those of the package in some order (`Permuted`, kept by each exchange of the
shuffle), and after labelling that a label is a place and that the entry of an
identifier is the place of an option that had it (`MapInv`; `LastPlace` finds
the last option of an identifier). The answer therefore consists of the places
of the correct options (`AnswerPlaces`), the texts of the options number their
places one to one, so the right texts are marked exactly if the response and the
answer have the same elements (`MarkedRight`). For sequences without repetitions
that is equality after sorting (`SameElements`), and plain equality for a single
choice (`SameChoice`).

**Server.** Objects are never dropped and the legacy index never comes back, so
what a process has seen at VerifySchema holds while it runs (`SchemaInv`). Each
process seeds a test of its own (`OwnDraft`), whose rows are those before its
place in the list unless an insert failed (`Written`).

**Assumptions**, all named in the modules and evaluated by TLC on the runs:
`TablesAssumption` (the tables have their types, session ids are finite in
number), `NilAssumption`, `SeedAssumption` (provisioned rows),
`RequestAssumption`; `WebhookAssumption` (among others that `Before`, the
configurations of earlier processes, is one value per configuration);
`TokenAssumption` and `RowAssumption` (absent rows differ from rows) of
`LTILaunch`; `CacheAssumption`; `LimiterAssumption` and `GatewayAssumption`
(limit, window, map size and token lifetime are positive); `ReportAssumption`;
`PackageAssumption` (a package is a sequence of entries of the kinds that the
import tells apart); `QuestionAssumption` (names are non-empty and do not begin with a directory, URLs
are text, a question has sequences of references and identifiers);
`ServerAssumption`. In the model itself: READ COMMITTED
with row locks, a clock that never goes back (it may differ from the one that
wrote `seed`), deliveries, items and groups that do not change while sessions
run (no code in the repository changes them then).

**Only model-checked:** the five liveness properties, `RequestsFinish`,
`CompletionAnnounced`, `EventsFinish`, `ImportsFinish` and `ServersComeUp`. They
need fairness and ENABLED, which the prover does not handle. Inductions over
data are avoided: what a loop computes is the invariant of its turns, and where
a least element is needed it comes from the well-foundedness of the naturals
(`LastPlace`).

The sums and products inside a score are not examined by the proofs; they show
that the stored total is the total of the stored sheet.

## 5. Not modelled

* Event bus: the program registers no subscriber, so Publish finds nobody;
  `SessionService` counts the calls.
* Metrics: one request counter that nothing reads but its own route; the other
  counters of the summary are never written. Security headers and the limit on
  JSON bodies keep no state.
* The resolution of host names at dial time, which the outbound dialer checks
  again, and the tables of special-use networks: a request's outcome is free,
  and the address literal of a URL is one flag.
* Signatures, claims and keys: the verdict on an LTI token, a registration's
  URL and key or a platform's OAuth answer is a free choice; AES-GCM opens what
  was sealed with the same key.
* Text: the form of CSV cells and file names, spaces and case around answers,
  XML and media contents, JSON binding, logging, time zones.
* Floating-point rounding of scores: marks are integers in the model.
* The tables of tests, sections, items, groups and users as the program's API
  serves them: no operation changes them while sessions run, except the import,
  which only adds items.

## 6. Plan

Done: sessions with the ledger; webhooks with their abstract promise, outbound
policy and restarts; LTI with registration, the key cache, the gateway with
authentication and limiter, import and scoring of questions, proctoring and
export over the ledger, and the life of the server processes, with their runs,
and proofs of every safety property and both refinements.

What is left: liveness, should the prover learn to handle it, and the parts of
section 5 if the code comes to rest on them.
