------------------------------- MODULE Server -------------------------------
(***************************************************************************)
(* The life of the processes that share the database: cmd/server/main.go   *)
(* from the configuration checks over database.Migrate and seedDemoData to *)
(* serving and shutdown, and cmd/migrate in its two modes.  A process that *)
(* ends (log.Fatal, a crash, SIGTERM) is started again, as in compose.     *)
(*                                                                         *)
(* The 22 tables and 4 unique indexes are a short sequence of objects in   *)
(* the order AutoMigrate creates them.  Probes of the schema return a bool *)
(* only: a failed query reads as "not there".                              *)
(***************************************************************************)
EXTENDS Integers, Sequences, SequencesExt, FiniteSets

CONSTANTS
    Process,
    role,        \* "server", "up" or "verify"
    settings,    \* "valid", or which checks fail: "early" (before the
                 \* database is opened) or "late" (after the migration)
    Seeding,     \* servers with demo.seed_enabled
    Schema,      \* the objects, in order
    ExamId,      \* primary keys that uuid.New may draw for the demo test
    Nil,
    MaxFaults    \* bound on faults and signals of a behaviour

ASSUME ServerAssumption ==
    /\ role \in [Process -> {"server", "up", "verify"}]
    /\ settings \in [Process -> {"valid", "early", "late"}]
    /\ Seeding \subseteq Process
    /\ Schema \in Seq(Range(Schema))
    /\ Nil \notin ExamId
    /\ MaxFaults \in Nat

\* The inserts of seedDemoData, in order, and the rows each refers to.
Seeds == <<"item1", "item2", "test", "section", "link1", "link2", "delivery">>

Parents(x) ==
    CASE x = "section" -> {"test"}
      [] x = "link1" -> {"section", "item1"}
      [] x = "link2" -> {"section", "item2"}
      [] x = "delivery" -> {"test"}
      [] OTHER -> {}

Items == {"item1", "item2"}

VARIABLES
    at,         \* where each process is
    step,       \* its place in Schema or in Seeds
    objects,    \* tables and indexes that exist
    legacy,     \* idx_lti_platforms_issuer exists
    blocked,    \* indexes that the existing rows violate
    items,      \* demo items
    exams,      \* exams[k]: the rows of demo test k
    delivery,   \* test_id of delivery-demo-01
    draft,      \* the test that each process is seeding
    blind,      \* servers whose probe for the legacy index failed
    maimed,     \* tests of which an insert failed
    faults      \* faults so far

schema == <<objects, legacy, blocked>>
demo == <<items, exams, delivery, draft, maimed>>
vars == <<at, step, schema, demo, blind, faults>>

\* Any state that earlier releases, operators and crashes can have left.
Init ==
    /\ at = [p \in Process |-> "down"]
    /\ step = [p \in Process |-> 1]
    /\ objects \in {Range(SubSeq(Schema, 1, n)) : n \in 0 .. Len(Schema)}
    /\ legacy \in IF objects = {} THEN {FALSE} ELSE BOOLEAN
    /\ blocked \in SUBSET (Range(Tail(Schema)) \ objects)
    /\ items = {}
    /\ exams = [k \in ExamId |-> {}]
    /\ delivery = Nil
    /\ draft = [p \in Process |-> Nil]
    /\ blind = {}
    /\ maimed = {}
    /\ faults = 0

Fault == faults < MaxFaults /\ faults' = faults + 1

Goto(p, l, n) == at' = [at EXCEPT ![p] = l] /\ step' = [step EXCEPT ![p] = n]

Fatal(p) == Goto(p, "down", 1)

-----------------------------------------------------------------------------
(* Configuration and migration.                                            *)

\* The modes of cmd/migrate: verify reads only.
FirstStep(p) == IF role[p] = "verify" THEN "verify" ELSE "migrate"

\* ValidateJWTConfig, NewSecretCipher, ValidateTransportSecurity, Open and the
\* pool settings; with invalid ones the process ends before it does anything.
Boot(p) ==
    /\ at[p] = "down"
    /\ settings[p] # "early"
    /\ Goto(p, FirstStep(p), 1)
    /\ blind' = blind \ {p}
    /\ UNCHANGED <<schema, demo, faults>>

Probing(p) == at[p] = "migrate" /\ step[p] <= Len(Schema)

AutoMigrateProbe(p) ==
    /\ Probing(p)
    /\ IF Schema[step[p]] \in objects
       THEN Goto(p, "migrate", step[p] + 1)
       ELSE Goto(p, "create", step[p])
    /\ UNCHANGED <<schema, demo, blind, faults>>

AutoMigrateProbeFails(p) ==
    /\ Probing(p)
    /\ Fault
    /\ Goto(p, "create", step[p])
    /\ UNCHANGED <<schema, demo, blind>>

\* Mutant: a failed CREATE is tried again until it succeeds.
AutoMigrateCreateRetries(p) ==
    LET o == Schema[step[p]] IN
    /\ at[p] = "create"
    /\ o \notin objects \cup blocked
    /\ Goto(p, "migrate", step[p] + 1)
    /\ objects' = objects \cup {o}
    /\ UNCHANGED <<legacy, blocked, demo, blind, faults>>

\* CREATE fails when another process was faster or the rows do not allow it.
AutoMigrateCreate(p) ==
    LET o == Schema[step[p]] IN
    /\ at[p] = "create"
    /\ IF o \in objects \cup blocked
       THEN Fatal(p) /\ UNCHANGED objects
       ELSE Goto(p, "migrate", step[p] + 1) /\ objects' = objects \cup {o}
    /\ UNCHANGED <<legacy, blocked, demo, blind, faults>>

HasLegacyIndex(p) ==
    /\ at[p] = "migrate" /\ step[p] > Len(Schema)
    /\ Goto(p, IF legacy THEN "drop" ELSE "verify", 1)
    /\ UNCHANGED <<schema, demo, blind, faults>>

HasLegacyIndexFails(p) ==
    /\ at[p] = "migrate" /\ step[p] > Len(Schema)
    /\ Fault
    /\ Goto(p, "verify", 1)
    /\ blind' = blind \cup {p}
    /\ UNCHANGED <<schema, demo>>

\* DROP INDEX fails when another process was faster.
DropLegacyIndex(p) ==
    /\ at[p] = "drop"
    /\ IF legacy THEN Goto(p, "verify", 1) ELSE Fatal(p)
    /\ legacy' = FALSE
    /\ UNCHANGED <<objects, blocked, demo, blind, faults>>

\* The tool is done; a server goes on to the demo data or to its services.
Verified(p) ==
    IF role[p] # "server" THEN "verified"
    ELSE IF p \in Seeding THEN "count" ELSE "services"

\* Mutant: only the tables are looked at.
VerifyTables(p) ==
    /\ at[p] = "verify"
    /\ IF Head(Schema) \in objects
       THEN Goto(p, Verified(p), 1)
       ELSE Fatal(p)
    /\ UNCHANGED <<schema, demo, blind, faults>>

VerifySchema(p) ==
    /\ at[p] = "verify"
    /\ IF Range(Schema) \subseteq objects
       THEN Goto(p, Verified(p), 1)
       ELSE Fatal(p)
    /\ UNCHANGED <<schema, demo, blind, faults>>

-----------------------------------------------------------------------------
(* seedDemoData.                                                           *)

\* A key that no row and no process uses.
Unused(k) ==
    exams[k] = {} /\ k \notin maimed /\ \A p \in Process : draft[p] # k

\* uuid.New always finds one (ExamId bounds the attempts to seed); which one
\* does not matter.
BeginSeed(p) ==
    /\ \E k \in ExamId : Unused(k)
    /\ Goto(p, "seed", 1)
    /\ draft' = [draft EXCEPT ![p] = CHOOSE k \in ExamId : Unused(k)]

SeedCount(p) ==
    /\ at[p] = "count"
    /\ IF delivery # Nil
       THEN Goto(p, "services", 1) /\ UNCHANGED draft
       ELSE BeginSeed(p)
    /\ UNCHANGED <<schema, items, exams, delivery, maimed, blind, faults>>

\* The error of the query is ignored and leaves the count at zero.
SeedCountFails(p) ==
    /\ at[p] = "count"
    /\ Fault
    /\ BeginSeed(p)
    /\ UNCHANGED <<schema, items, exams, delivery, maimed, blind>>

AfterInsert(p) ==
    IF step[p] < Len(Seeds) THEN Goto(p, "seed", step[p] + 1)
    ELSE Goto(p, "services", 1)

\* Mutant: the delivery is inserted ahead of the test's content.
DueDeliveryEarly(p) ==
    <<"item1", "item2", "test", "delivery", "section", "link1", "link2">>[step[p]]

\* The row that process p inserts next.
Due(p) == Seeds[step[p]]

\* Rows that p can refer to.
Present(p) == items \cup exams[draft[p]]

Insert(p, x) ==
    /\ items' = IF x \in Items THEN items \cup {x} ELSE items
    /\ exams' = IF x \in Items \cup {"delivery"} THEN exams
                ELSE [exams EXCEPT ![draft[p]] = @ \cup {x}]
    /\ delivery' = IF x = "delivery" THEN draft[p] ELSE delivery
    /\ UNCHANGED maimed

\* A duplicate key (an item or the delivery of another process) and a missing
\* parent are errors, and errors are ignored.
Accepted(p, x) ==
    /\ x \notin items
    /\ x = "delivery" => delivery = Nil
    /\ Parents(x) \subseteq Present(p)

SeedInsert(p) ==
    /\ at[p] = "seed"
    /\ IF Accepted(p, Due(p)) THEN Insert(p, Due(p))
       ELSE UNCHANGED <<items, exams, delivery, maimed>>
    /\ AfterInsert(p)
    /\ UNCHANGED <<schema, draft, blind, faults>>

SeedInsertFails(p) ==
    /\ at[p] = "seed"
    /\ Fault
    /\ maimed' = maimed \cup {draft[p]}
    /\ AfterInsert(p)
    /\ UNCHANGED <<schema, items, exams, delivery, draft, blind>>

-----------------------------------------------------------------------------
(* Serving and the end of a process.                                       *)

\* The allowlist of the webhook service and the trusted proxies are looked at
\* last.
ServicesValid(p) == settings[p] = "valid"

Serve(p) ==
    /\ at[p] = "services"
    /\ IF ServicesValid(p) THEN Goto(p, "serving", 1) ELSE Fatal(p)
    /\ UNCHANGED <<schema, demo, blind, faults>>

\* SIGTERM: no new requests, those in progress get 15 s.
Signal(p) ==
    /\ at[p] = "serving"
    /\ Fault
    /\ Goto(p, "draining", 1)
    /\ UNCHANGED <<schema, demo, blind>>

Exit(p) ==
    /\ at[p] = "draining"
    /\ Fatal(p)
    /\ UNCHANGED <<schema, demo, blind, faults>>

\* A statement fails with an error that is looked at, or the process dies.
Crash(p) ==
    /\ at[p] \notin {"down", "verified"}
    /\ Fault
    /\ Fatal(p)
    /\ UNCHANGED <<schema, demo, blind>>

Step(p) ==
    \/ Boot(p) \/ AutoMigrateProbe(p) \/ AutoMigrateCreate(p)
    \/ HasLegacyIndex(p) \/ DropLegacyIndex(p) \/ VerifySchema(p)
    \/ SeedCount(p) \/ SeedInsert(p) \/ Serve(p) \/ Exit(p)

Disturbance(p) ==
    \/ AutoMigrateProbeFails(p) \/ HasLegacyIndexFails(p)
    \/ SeedCountFails(p) \/ SeedInsertFails(p) \/ Signal(p) \/ Crash(p)

Next == \E p \in Process : Step(p) \/ Disturbance(p)

Spec == Init /\ [][Next]_vars

\* Processes run, and a process that has ended is started again.
FairSpec == Spec /\ \A p \in Process : WF_vars(Step(p))

-----------------------------------------------------------------------------
(* Properties.                                                             *)

\* No server takes requests, and no tool reports success, on a schema without
\* the tables and the unique indexes that the services rely on, whatever the
\* database held before and whoever migrates at the same time.  The index of
\* older releases is gone too, unless the probe for it failed.
SchemaReady ==
    \A p \in Process : at[p] \in {"serving", "verified"} =>
        /\ Range(Schema) \subseteq objects
        /\ legacy => p \in blind \/ role[p] = "verify"

\* A demo delivery, once there, leads to a test with its section and both
\* items, although several servers seed without a transaction and die half
\* way; only an insert that failed can leave a gap (and it is never filled).
DemoExamComplete ==
    delivery # Nil /\ delivery \notin maimed =>
        /\ exams[delivery] = {"test", "section", "link1", "link2"}
        /\ items = Items

\* A server with valid settings serves in the end and goes on serving, unless
\* the rows of an older release violate a unique index: losing the race for a
\* table or an index costs a restart, never more.
ServersComeUp ==
    \A p \in Process :
        role[p] = "server" /\ settings[p] = "valid" =>
            (blocked = {} => <>[](at[p] = "serving"))
=============================================================================
