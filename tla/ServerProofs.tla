---------------------------- MODULE ServerProofs ----------------------------
(***************************************************************************)
(* SchemaReady and DemoExamComplete for any number of processes, any       *)
(* schema and any number of crashes.                                       *)
(*                                                                         *)
(* The argument for the schema: objects are never dropped and the legacy   *)
(* index never comes back, so what one process has seen at VerifySchema    *)
(* holds for as long as it runs.  For the demo data: nobody else writes    *)
(* the test that a process is seeding, so its rows are those before its    *)
(* place in Seeds, and every parent is there unless an insert failed.      *)
(***************************************************************************)
EXTENDS Server, TLAPS

\* Labels of a process that has verified the schema.
Past == {"count", "seed", "services", "serving", "draining", "verified"}

SchemaInv ==
    \A p \in Process :
        /\ at[p] \in Past => Range(Schema) \subseteq objects
        /\ at[p] \in Past \cup {"verify"} => (legacy => p \in blind \/ role[p] = "verify")

\* Rows of the demo test that are there when the process is at step n.
Content(n) == {Seeds[i] : i \in 3 .. n - 1}

DemoType ==
    /\ at \in [Process -> {"down", "migrate", "create", "drop", "verify"} \cup Past]
    /\ step \in [Process -> Nat]
    /\ items \subseteq Items
    /\ exams \in [ExamId -> SUBSET {"test", "section", "link1", "link2"}]
    /\ delivery \in ExamId \cup {Nil}
    /\ draft \in [Process -> ExamId \cup {Nil}]
    /\ maimed \subseteq ExamId

\* Every process seeds a test of its own.
OwnDraft ==
    /\ \A p, q \in Process : draft[p] = draft[q] /\ draft[p] # Nil => p = q
    /\ \A p \in Process : at[p] = "seed" =>
           draft[p] # Nil /\ draft[p] # delivery /\ step[p] \in 1 .. 7

\* Unless an insert failed, the rows before the current step are there.
Written ==
    \A p \in Process : at[p] = "seed" /\ draft[p] \notin maimed =>
        /\ exams[draft[p]] = Content(step[p])
        /\ step[p] > 1 => "item1" \in items
        /\ step[p] > 2 => "item2" \in items

Inv == DemoType /\ SchemaInv /\ OwnDraft /\ Written /\ DemoExamComplete

\* What the proofs use of the assumption on the constants.
LEMMA Constants == Nil \notin ExamId
  BY ServerAssumption

\* The places of the rows in Seeds.
LEMMA SeedOrder ==
    /\ Len(Seeds) = 7
    /\ Seeds[1] = "item1" /\ Seeds[2] = "item2" /\ Seeds[3] = "test" /\ Seeds[4] = "section"
    /\ Seeds[5] = "link1" /\ Seeds[6] = "link2" /\ Seeds[7] = "delivery"
  BY DEF Seeds

\* The rows of a test, step by step.
LEMMA ContentSteps ==
    /\ Content(1) = {} /\ Content(2) = {} /\ Content(3) = {}
    /\ Content(4) = {"test"}
    /\ Content(5) = {"test", "section"}
    /\ Content(6) = {"test", "section", "link1"}
    /\ Content(7) = {"test", "section", "link1", "link2"}
<1>1. 3 .. 0 = {} /\ 3 .. 1 = {} /\ 3 .. 2 = {} /\ 3 .. 3 = {3} /\ 3 .. 4 = {3, 4}
      /\ 3 .. 5 = {3, 4, 5} /\ 3 .. 6 = {3, 4, 5, 6}
  OBVIOUS
<1> QED BY <1>1, SeedOrder DEF Content

\* No process runs, and there is no demo data.
LEMMA InitInv == Init => Inv
  BY DEF Init, Inv, DemoType, SchemaInv, Past, OwnDraft, Written, DemoExamComplete

-----------------------------------------------------------------------------

\* A process goes to label l, and the schema only gains by the step.
LEMMA SchemaStep ==
    ASSUME Inv, NEW p \in Process, NEW l, at' = [at EXCEPT ![p] = l],
           objects \subseteq objects', legacy' => legacy, blind \ {p} \subseteq blind',
           l \in Past => Range(Schema) \subseteq objects',
           l \in Past \cup {"verify"} => (legacy' => p \in blind' \/ role[p] = "verify")
    PROVE  SchemaInv'
<1>1. at'[p] = l /\ \A q \in Process : q # p => at'[q] = at[q]
  BY DEF Inv, DemoType
<1> SUFFICES ASSUME NEW q \in Process
             PROVE  /\ at'[q] \in Past => Range(Schema) \subseteq objects'
                    /\ at'[q] \in Past \cup {"verify"} =>
                           (legacy' => q \in blind' \/ role[q] = "verify")
  BY DEF SchemaInv
<1>2. CASE q = p
  BY <1>1, <1>2
<1>3. CASE q # p
  BY <1>1, <1>3 DEF Inv, SchemaInv
<1> QED BY <1>2, <1>3

\* A process that is not seeding, and does not begin to, leaves the demo alone.
LEMMA DemoStep ==
    ASSUME Inv, NEW p \in Process,
           NEW l \in {"down", "migrate", "create", "drop", "verify", "count", "services",
                      "serving", "draining", "verified"},
           NEW n \in Nat, Goto(p, l, n), UNCHANGED demo
    PROVE  DemoType' /\ OwnDraft' /\ Written' /\ DemoExamComplete'
<1>1. /\ at'[p] = l /\ \A q \in Process : q # p => at'[q] = at[q] /\ step'[q] = step[q]
      /\ at' \in [Process -> {"down", "migrate", "create", "drop", "verify"} \cup Past]
      /\ step' \in [Process -> Nat]
  BY DEF Goto, Inv, DemoType, Past
<1>2. UNCHANGED <<items, exams, delivery, draft, maimed>>
  BY DEF demo
<1>3. DemoType'
  BY <1>1, <1>2 DEF Inv, DemoType
<1>4. \A q \in Process : at'[q] = "seed" => q # p /\ at[q] = "seed" /\ step'[q] = step[q]
  BY <1>1
<1>5. OwnDraft'
  BY <1>2, <1>4 DEF Inv, OwnDraft
<1>6. Written' /\ DemoExamComplete'
  BY <1>2, <1>4 DEF Inv, Written, DemoExamComplete
<1> QED BY <1>3, <1>5, <1>6

\* Boot, migration, verification, serving and the end of a process.
LEMMA PlainStep ==
    ASSUME Inv, NEW p \in Process,
           \/ Boot(p) \/ AutoMigrateProbe(p) \/ AutoMigrateProbeFails(p)
           \/ AutoMigrateCreate(p) \/ HasLegacyIndex(p) \/ HasLegacyIndexFails(p)
           \/ DropLegacyIndex(p) \/ VerifySchema(p) \/ Serve(p) \/ Signal(p)
           \/ Exit(p) \/ Crash(p)
    PROVE  Inv'
<1> DEFINE Plain == {"down", "migrate", "create", "drop", "verify", "count", "services",
                     "serving", "draining", "verified"}
<1>0. step[p] \in Nat /\ step[p] + 1 \in Nat
  BY DEF Inv, DemoType
<1>1. ASSUME NEW l \in Plain, NEW n \in Nat, Goto(p, l, n), UNCHANGED demo,
             objects \subseteq objects', legacy' => legacy, blind \ {p} \subseteq blind',
             l \in Past => Range(Schema) \subseteq objects',
             l \in Past \cup {"verify"} => (legacy' => p \in blind' \/ role[p] = "verify")
      PROVE  Inv'
  <2>1. DemoType' /\ OwnDraft' /\ Written' /\ DemoExamComplete'
    BY <1>1, DemoStep
  <2>2. at' = [at EXCEPT ![p] = l]
    BY <1>1 DEF Goto
  <2>3. SchemaInv'
    BY <1>1, <2>2, SchemaStep
  <2> QED BY <2>1, <2>3 DEF Inv
<1>2. CASE Boot(p)
  BY <1>1, <1>2 DEF Boot, FirstStep, schema, Past
<1>3. CASE AutoMigrateProbe(p) \/ AutoMigrateProbeFails(p)
  <2>1. /\ UNCHANGED <<objects, legacy, demo, blind>>
        /\ \E l \in {"migrate", "create"}, n \in Nat : Goto(p, l, n)
    BY <1>0, <1>3 DEF AutoMigrateProbe, AutoMigrateProbeFails, schema
  <2> QED BY <1>1, <2>1 DEF Past
<1>4. CASE AutoMigrateCreate(p)
  <2>1. /\ UNCHANGED <<legacy, demo, blind>> /\ objects \subseteq objects'
        /\ \E l \in {"migrate", "down"}, n \in Nat : Goto(p, l, n)
    BY <1>0, <1>4 DEF AutoMigrateCreate, Fatal
  <2> QED BY <1>1, <2>1 DEF Past
<1>5. CASE HasLegacyIndex(p)
  <2>1. UNCHANGED <<objects, legacy, demo, blind>>
    BY <1>5 DEF HasLegacyIndex, schema
  <2>2. CASE legacy
    <3>1. Goto(p, "drop", 1)
      BY <1>5, <2>2 DEF HasLegacyIndex
    <3> QED BY <1>1, <2>1, <3>1 DEF Past
  <2>3. CASE ~legacy
    <3>1. Goto(p, "verify", 1)
      BY <1>5, <2>3 DEF HasLegacyIndex
    <3> QED BY <1>1, <2>1, <2>3, <3>1 DEF Past
  <2> QED BY <2>2, <2>3
<1>6. CASE HasLegacyIndexFails(p)
  <2>1. /\ UNCHANGED <<objects, legacy, demo>> /\ blind' = blind \cup {p}
        /\ Goto(p, "verify", 1)
    BY <1>6 DEF HasLegacyIndexFails, schema
  <2> QED BY <1>1, <2>1 DEF Past
<1>7. CASE DropLegacyIndex(p)
  <2>1. /\ UNCHANGED <<objects, demo, blind>> /\ legacy' = FALSE
        /\ \E l \in {"verify", "down"} : Goto(p, l, 1)
    BY <1>7 DEF DropLegacyIndex, Fatal
  <2> QED BY <1>1, <2>1 DEF Past
<1>8. CASE VerifySchema(p)
  <2>1. UNCHANGED <<objects, legacy, demo, blind>> /\ at[p] = "verify"
    BY <1>8 DEF VerifySchema, schema
  <2>2. legacy => p \in blind \/ role[p] = "verify"
    BY <2>1 DEF Inv, SchemaInv
  <2>3. CASE Range(Schema) \subseteq objects
    <3>1. \E l \in {"verified", "count", "services"} : Goto(p, l, 1)
      BY <1>8, <2>3 DEF VerifySchema, Verified
    <3> QED BY <1>1, <2>1, <2>2, <2>3, <3>1
  <2>4. CASE ~(Range(Schema) \subseteq objects)
    <3>1. Goto(p, "down", 1)
      BY <1>8, <2>4 DEF VerifySchema, Fatal
    <3> QED BY <1>1, <2>1, <3>1 DEF Past
  <2> QED BY <2>3, <2>4
<1>9. CASE Serve(p) \/ Signal(p)
  <2>1. UNCHANGED <<objects, legacy, demo, blind>> /\ at[p] \in Past
    BY <1>9 DEF Serve, Signal, schema, Past
  <2>2. \E l \in {"serving", "down", "draining"} : Goto(p, l, 1)
    BY <1>9 DEF Serve, Signal, Fatal
  <2>3. /\ Range(Schema) \subseteq objects
        /\ legacy => p \in blind \/ role[p] = "verify"
    BY <2>1 DEF Inv, SchemaInv
  <2> QED BY <1>1, <2>1, <2>2, <2>3
<1>10. CASE Exit(p) \/ Crash(p)
  <2>1. UNCHANGED <<objects, legacy, demo, blind>> /\ Goto(p, "down", 1)
    BY <1>10 DEF Exit, Crash, schema, Fatal
  <2> QED BY <1>1, <2>1 DEF Past
<1> QED BY <1>2, <1>3, <1>4, <1>5, <1>6, <1>7, <1>8, <1>9, <1>10

-----------------------------------------------------------------------------
(* seedDemoData.                                                           *)

\* A process that is past the verification stays there.
LEMMA StaysPast ==
    ASSUME Inv, NEW p \in Process, at[p] \in Past, NEW l, NEW n, Goto(p, l, n),
           UNCHANGED <<objects, legacy, blind>>
    PROVE  SchemaInv'
<1>1. /\ Range(Schema) \subseteq objects
      /\ legacy => p \in blind \/ role[p] = "verify"
  BY DEF Inv, SchemaInv
<1>2. at' = [at EXCEPT ![p] = l]
  BY DEF Goto
<1> QED BY <1>1, <1>2, SchemaStep

\* A process begins to seed a test that nobody has and that has no rows.
LEMMA BeginSeedStep ==
    ASSUME Inv, NEW p \in Process, at[p] = "count", BeginSeed(p),
           UNCHANGED <<schema, items, exams, delivery, maimed, blind>>
    PROVE  Inv'
<1> DEFINE k == CHOOSE x \in ExamId : Unused(x)
<1>1. k \in ExamId /\ Unused(k)
  BY DEF BeginSeed
<1>2. draft' = [draft EXCEPT ![p] = k] /\ Goto(p, "seed", 1)
  BY DEF BeginSeed
<1> HIDE DEF k
<1>3. UNCHANGED <<objects, legacy, items, exams, delivery, maimed, blind>>
  BY DEF schema
<1>4. SchemaInv'
  BY <1>2, <1>3, StaysPast DEF Past
<1>5. /\ at'[p] = "seed" /\ step'[p] = 1 /\ draft'[p] = k
      /\ \A q \in Process : q # p =>
             at'[q] = at[q] /\ step'[q] = step[q] /\ draft'[q] = draft[q]
  BY <1>2 DEF Inv, DemoType, Goto
<1>6. DemoType'
  <2>1. /\ at' \in [Process -> {"down", "migrate", "create", "drop", "verify"} \cup Past]
        /\ step' \in [Process -> Nat] /\ draft' \in [Process -> ExamId \cup {Nil}]
    BY <1>1, <1>2 DEF Inv, DemoType, Goto, Past
  <2> QED BY <1>3, <2>1 DEF Inv, DemoType
<1>7. k # delivery /\ k # Nil /\ \A q \in Process : draft[q] # k
  <2>1. delivery # Nil => exams[delivery] # {} \/ delivery \in maimed
    BY DEF Inv, DemoExamComplete
  <2> QED BY <1>1, <2>1, Constants DEF Unused
<1>8. OwnDraft'
  <2>1. \A q, r \in Process : draft'[q] = draft'[r] /\ draft'[q] # Nil => q = r
    BY <1>5, <1>7 DEF Inv, OwnDraft
  <2>2. \A q \in Process : at'[q] = "seed" =>
            draft'[q] # Nil /\ draft'[q] # delivery /\ step'[q] \in 1 .. 7
    BY <1>5, <1>7 DEF Inv, OwnDraft
  <2> QED BY <1>3, <2>1, <2>2 DEF OwnDraft
<1>9. Written'
  <2> SUFFICES ASSUME NEW q \in Process, at'[q] = "seed", draft'[q] \notin maimed
               PROVE  /\ exams[draft'[q]] = Content(step'[q])
                      /\ step'[q] > 1 => "item1" \in items
                      /\ step'[q] > 2 => "item2" \in items
    BY <1>3 DEF Written, Content
  <2>1. CASE q = p
    BY <1>1, <1>5, <2>1, ContentSteps DEF Unused
  <2>2. CASE q # p
    BY <1>5, <2>2 DEF Inv, Written
  <2> QED BY <2>1, <2>2
<1>10. DemoExamComplete'
  BY <1>3 DEF Inv, DemoExamComplete
<1> QED BY <1>4, <1>6, <1>8, <1>9, <1>10 DEF Inv

\* What an insert leaves behind: the next step, or the end of the seeding.
LEMMA AfterInsertStep ==
    ASSUME Inv, NEW p \in Process, at[p] = "seed", AfterInsert(p)
    PROVE  /\ \/ step[p] < 7 /\ at'[p] = "seed" /\ step'[p] = step[p] + 1
              \/ step[p] = 7 /\ at'[p] = "services"
           /\ \A q \in Process : q # p => at'[q] = at[q] /\ step'[q] = step[q]
           /\ at' \in [Process -> {"down", "migrate", "create", "drop", "verify"} \cup Past]
           /\ step' \in [Process -> Nat]
           /\ UNCHANGED <<objects, legacy, blind>> => SchemaInv'
<1>1. step[p] \in 1 .. 7 /\ at[p] \in Past /\ Len(Seeds) = 7
  BY SeedOrder DEF Inv, OwnDraft, Past
<1>2. CASE step[p] < 7
  <2>1. Goto(p, "seed", step[p] + 1)
    BY <1>1, <1>2 DEF AfterInsert
  <2>2. /\ at'[p] = "seed" /\ step'[p] = step[p] + 1
        /\ \A q \in Process : q # p => at'[q] = at[q] /\ step'[q] = step[q]
        /\ at' \in [Process -> {"down", "migrate", "create", "drop", "verify"} \cup Past]
        /\ step' \in [Process -> Nat]
    BY <1>1, <2>1 DEF Goto, Inv, DemoType, Past
  <2> QED BY <1>1, <1>2, <2>1, <2>2, StaysPast
<1>3. CASE ~(step[p] < 7)
  <2>1. Goto(p, "services", 1)
    BY <1>1, <1>3 DEF AfterInsert
  <2>2. /\ at'[p] = "services" /\ step[p] = 7
        /\ \A q \in Process : q # p => at'[q] = at[q] /\ step'[q] = step[q]
        /\ at' \in [Process -> {"down", "migrate", "create", "drop", "verify"} \cup Past]
        /\ step' \in [Process -> Nat]
    BY <1>1, <1>3, <2>1 DEF Goto, Inv, DemoType, Past
  <2> QED BY <1>1, <2>1, <2>2, StaysPast
<1> QED BY <1>2, <1>3

\* A failed insert marks the test, of which nothing is claimed any more.
LEMMA SeedInsertFailsStep ==
    ASSUME Inv, NEW p \in Process, SeedInsertFails(p)
    PROVE  Inv'
<1>1. /\ at[p] = "seed" /\ AfterInsert(p) /\ maimed' = maimed \cup {draft[p]}
      /\ UNCHANGED <<objects, legacy, blind, items, exams, delivery, draft>>
  BY DEF SeedInsertFails, schema
<1>2. draft[p] \in ExamId
  BY <1>1 DEF Inv, DemoType, OwnDraft
<1>3. SchemaInv'
  BY <1>1, AfterInsertStep
<1>4. DemoType'
  BY <1>1, <1>2, AfterInsertStep DEF Inv, DemoType
<1>5. \A q \in Process : at'[q] = "seed" =>
          at[q] = "seed" /\ step'[q] \in 1 .. 7 /\ (q # p => step'[q] = step[q])
  BY <1>1, AfterInsertStep DEF Inv, OwnDraft
<1>6. OwnDraft'
  BY <1>1, <1>5 DEF Inv, OwnDraft
<1>7. Written' /\ DemoExamComplete'
  BY <1>1, <1>5 DEF Inv, Written, DemoExamComplete
<1> QED BY <1>3, <1>4, <1>6, <1>7 DEF Inv

\* The effect of an insert, row by row: on a test of which no insert failed it
\* is refused only where the row is there already.
LEMMA InsertEffect ==
    ASSUME Inv, NEW p \in Process, SeedInsert(p), draft[p] \notin maimed
    PROVE  /\ step[p] < 7 => exams'[draft[p]] = Content(step[p] + 1) /\ UNCHANGED delivery
           /\ step[p] = 7 =>
                  /\ exams'[draft[p]] = Content(7)
                  /\ delivery' = IF delivery = Nil THEN draft[p] ELSE delivery
           /\ "item1" \in items' /\ (step[p] >= 2 => "item2" \in items')
<1> DEFINE k == draft[p]
           n == step[p]
<1>1. /\ at[p] = "seed" /\ n \in 1 .. 7 /\ k \in ExamId /\ exams[k] = Content(n)
      /\ n > 1 => "item1" \in items
      /\ n > 2 => "item2" \in items
      /\ items \subseteq Items /\ exams \in [ExamId -> SUBSET {"test", "section", "link1", "link2"}]
  BY DEF Inv, DemoType, OwnDraft, Written, SeedInsert
<1>2. CASE n = 1
  <2>1. Due(p) = "item1"
    BY <1>2, SeedOrder DEF Due
  <2>2. items' = items \cup {"item1"} /\ UNCHANGED <<exams, delivery>>
    BY <1>1, <2>1 DEF SeedInsert, Insert, Accepted, Items, Parents
  <2> QED BY <1>1, <1>2, <2>2, ContentSteps
<1>3. CASE n = 2
  <2>1. Due(p) = "item2"
    BY <1>3, SeedOrder DEF Due
  <2>2. items' = items \cup {"item2"} /\ UNCHANGED <<exams, delivery>>
    BY <1>1, <2>1 DEF SeedInsert, Insert, Accepted, Items, Parents
  <2> QED BY <1>1, <1>3, <2>2, ContentSteps
<1>4. ASSUME NEW x \in {"test", "section", "link1", "link2"}, Due(p) = x,
             Parents(x) \subseteq Present(p)
      PROVE  exams'[k] = exams[k] \cup {x} /\ UNCHANGED <<items, delivery>>
  <2>1. x \notin Items /\ x # "delivery" /\ x \notin items
    BY <1>1 DEF Items
  <2>2. Accepted(p, Due(p))
    BY <1>4, <2>1 DEF Accepted
  <2>3. Insert(p, x)
    BY <1>4, <2>2 DEF SeedInsert
  <2> QED BY <1>1, <2>1, <2>3 DEF Insert
<1>5. CASE n = 3
  <2>1. Due(p) = "test" /\ Parents("test") = {}
    BY <1>5, SeedOrder DEF Due, Parents
  <2>2. exams'[k] = exams[k] \cup {"test"} /\ UNCHANGED <<items, delivery>>
    BY <1>4, <2>1
  <2> QED BY <1>1, <1>5, <2>2, ContentSteps
<1>6. CASE n = 4
  <2>1. Due(p) = "section" /\ Parents("section") = {"test"}
    BY <1>6, SeedOrder DEF Due, Parents
  <2>2. "test" \in Present(p)
    BY <1>1, <1>6, ContentSteps DEF Present
  <2>3. exams'[k] = exams[k] \cup {"section"} /\ UNCHANGED <<items, delivery>>
    BY <1>4, <2>1, <2>2
  <2> QED BY <1>1, <1>6, <2>3, ContentSteps
<1>7. CASE n = 5
  <2>1. Due(p) = "link1" /\ Parents("link1") = {"section", "item1"}
    BY <1>7, SeedOrder DEF Due, Parents
  <2>2. "section" \in Present(p) /\ "item1" \in Present(p)
    BY <1>1, <1>7, ContentSteps DEF Present
  <2>3. exams'[k] = exams[k] \cup {"link1"} /\ UNCHANGED <<items, delivery>>
    BY <1>4, <2>1, <2>2
  <2> QED BY <1>1, <1>7, <2>3, ContentSteps
<1>8. CASE n = 6
  <2>1. Due(p) = "link2" /\ Parents("link2") = {"section", "item2"}
    BY <1>8, SeedOrder DEF Due, Parents
  <2>2. "section" \in Present(p) /\ "item2" \in Present(p)
    BY <1>1, <1>8, ContentSteps DEF Present
  <2>3. exams'[k] = exams[k] \cup {"link2"} /\ UNCHANGED <<items, delivery>>
    BY <1>4, <2>1, <2>2
  <2> QED BY <1>1, <1>8, <2>3, ContentSteps
<1>9. CASE n = 7
  <2>1. Due(p) = "delivery" /\ Parents("delivery") = {"test"} /\ "delivery" \notin items
    BY <1>1, <1>9, SeedOrder DEF Due, Parents, Items
  <2>2. "test" \in Present(p)
    BY <1>1, <1>9, ContentSteps DEF Present
  <2>3. UNCHANGED <<items, exams>> /\ delivery' = IF delivery = Nil THEN k ELSE delivery
    BY <2>1, <2>2 DEF SeedInsert, Insert, Accepted, Items
  <2> QED BY <1>1, <1>9, <2>3
<1> QED BY <1>1, <1>2, <1>3, <1>5, <1>6, <1>7, <1>8, <1>9

\* Inserts touch the test of their own process only, and nothing is deleted.
LEMMA SeedInsertStep ==
    ASSUME Inv, NEW p \in Process, SeedInsert(p)
    PROVE  Inv'
<1> DEFINE k == draft[p]
<1>1. /\ at[p] = "seed" /\ AfterInsert(p) /\ UNCHANGED <<objects, legacy, blind, draft, maimed>>
  BY DEF SeedInsert, Insert, schema
<1>2. /\ k \in ExamId /\ k # delivery /\ step[p] \in 1 .. 7
  BY <1>1 DEF Inv, DemoType, OwnDraft
<1>3. /\ items \subseteq items' /\ items' \subseteq Items
      /\ exams' \in [ExamId -> SUBSET {"test", "section", "link1", "link2"}]
      /\ \A x \in ExamId : x # k => exams'[x] = exams[x]
      /\ delivery' \in {delivery, k}
      /\ delivery' # delivery => delivery = Nil /\ step[p] = 7
  <2>1. CASE UNCHANGED <<items, exams, delivery>>
    BY <2>1 DEF Inv, DemoType
  <2>2. CASE Accepted(p, Due(p)) /\ Insert(p, Due(p))
    <3>1. \/ Due(p) \in Items
          \/ Due(p) \in {"test", "section", "link1", "link2"}
          \/ Due(p) = "delivery" /\ step[p] = 7
      BY <1>2, SeedOrder DEF Due, Items
    <3>2. Items \cap {"test", "section", "link1", "link2", "delivery"} = {}
      BY DEF Items
    <3>3. CASE Due(p) \in Items
      BY <2>2, <3>2, <3>3 DEF Insert, Inv, DemoType
    <3>4. CASE Due(p) \in {"test", "section", "link1", "link2"}
      BY <1>2, <2>2, <3>2, <3>4 DEF Insert, Inv, DemoType
    <3>5. CASE Due(p) = "delivery" /\ step[p] = 7
      BY <2>2, <3>2, <3>5 DEF Insert, Accepted, Inv, DemoType
    <3> QED BY <3>1, <3>3, <3>4, <3>5
  <2> QED BY <2>1, <2>2 DEF SeedInsert
<1>4. SchemaInv'
  BY <1>1, AfterInsertStep
<1>5. DemoType'
  <2>1. delivery' \in ExamId \cup {Nil}
    BY <1>2, <1>3 DEF Inv, DemoType
  <2> QED BY <1>1, <1>3, <2>1, AfterInsertStep DEF Inv, DemoType
<1>6. /\ \A q \in Process : at'[q] = "seed" =>
             at[q] = "seed" /\ step'[q] \in 1 .. 7 /\ (q # p => step'[q] = step[q])
      /\ at'[p] = "seed" => step[p] < 7 /\ step'[p] = step[p] + 1
  BY <1>1, <1>2, AfterInsertStep DEF Inv, OwnDraft
<1>7. \A q \in Process : q # p /\ draft[q] # Nil => draft[q] # k
  BY DEF Inv, OwnDraft
<1>8. OwnDraft'
  <2>1. \A q \in Process : at'[q] = "seed" => draft[q] # Nil /\ draft[q] # delivery'
    BY <1>2, <1>3, <1>6, <1>7, Constants DEF Inv, OwnDraft
  <2> QED BY <1>1, <1>6, <2>1 DEF Inv, OwnDraft
<1>9. Written'
  <2> SUFFICES ASSUME NEW q \in Process, at'[q] = "seed", draft[q] \notin maimed
               PROVE  /\ exams'[draft[q]] = Content(step'[q])
                      /\ step'[q] > 1 => "item1" \in items'
                      /\ step'[q] > 2 => "item2" \in items'
    BY <1>1 DEF Written, Content
  <2>1. CASE q = p
    BY <1>2, <1>6, <2>1, InsertEffect
  <2>2. CASE q # p
    <3>1. at[q] = "seed" /\ step'[q] = step[q] /\ draft[q] \in ExamId /\ draft[q] # k
      BY <1>6, <1>7, <2>2 DEF Inv, OwnDraft, DemoType
    <3> QED BY <1>3, <3>1 DEF Inv, Written
  <2> QED BY <2>1, <2>2
<1>10. DemoExamComplete'
  <2> SUFFICES ASSUME delivery' # Nil, delivery' \notin maimed
               PROVE  /\ exams'[delivery'] = {"test", "section", "link1", "link2"}
                      /\ items' = Items
    BY <1>1 DEF DemoExamComplete
  <2>1. CASE delivery' = delivery
    <3>1. delivery \in ExamId /\ delivery # k
      BY <1>2, <2>1 DEF Inv, DemoType
    <3> QED BY <1>3, <2>1, <3>1 DEF Inv, DemoExamComplete
  <2>2. CASE delivery' # delivery
    <3>1. delivery' = k /\ step[p] = 7 /\ k \notin maimed
      BY <1>3, <2>2
    <3>2. exams'[k] = Content(7) /\ "item1" \in items' /\ "item2" \in items'
      BY <3>1, InsertEffect
    <3>3. exams'[delivery'] = {"test", "section", "link1", "link2"}
      BY <3>1, <3>2, ContentSteps
    <3>4. items' = Items
      BY <1>3, <3>2 DEF Items
    <3> QED BY <3>3, <3>4
  <2> QED BY <2>1, <2>2
<1> QED BY <1>4, <1>5, <1>8, <1>9, <1>10 DEF Inv

\* The count of the deliveries, and its failure.
LEMMA SeedCountStep ==
    ASSUME Inv, NEW p \in Process, SeedCount(p) \/ SeedCountFails(p)
    PROVE  Inv'
<1>1. /\ at[p] = "count"
      /\ UNCHANGED <<schema, items, exams, delivery, maimed, blind>>
      /\ BeginSeed(p) \/ (Goto(p, "services", 1) /\ UNCHANGED draft)
  BY DEF SeedCount, SeedCountFails
<1>2. CASE BeginSeed(p)
  BY <1>1, <1>2, BeginSeedStep
<1>3. CASE Goto(p, "services", 1) /\ UNCHANGED draft
  <2>1. SchemaInv'
    BY <1>1, <1>3, StaysPast DEF schema, Past
  <2>2. UNCHANGED demo
    BY <1>1, <1>3 DEF demo
  <2>3. DemoType' /\ OwnDraft' /\ Written' /\ DemoExamComplete'
    BY <1>3, <2>2, DemoStep
  <2> QED BY <2>1, <2>3 DEF Inv
<1> QED BY <1>1, <1>2, <1>3

\* Inv is inductive.
LEMMA NextInv == Inv /\ [Next]_vars => Inv'
<1> SUFFICES ASSUME Inv, [Next]_vars PROVE Inv'
  OBVIOUS
<1>1. CASE UNCHANGED vars
  <2> USE <1>1 DEF vars, schema, demo, Inv
  <2>1. DemoType' /\ SchemaInv'
    BY DEF DemoType, SchemaInv
  <2>2. OwnDraft' /\ Written' /\ DemoExamComplete'
    BY DEF OwnDraft, Written, DemoExamComplete, Content
  <2> QED BY <2>1, <2>2
<1>2. ASSUME NEW p \in Process, Step(p) \/ Disturbance(p) PROVE Inv'
  BY <1>2, PlainStep, SeedCountStep, SeedInsertStep, SeedInsertFailsStep DEF Step, Disturbance
<1> QED BY <1>1, <1>2 DEF Next

\* The inductive invariant of start-up.
THEOREM Invariance == Spec => []Inv
  BY InitInv, NextInv, PTL DEF Spec

\* No server takes requests and no tool reports success without the schema the
\* services rely on.
THEOREM SchemaAlwaysReady == Spec => []SchemaReady
<1>1. Inv => SchemaReady
  BY DEF Inv, SchemaInv, Past, SchemaReady
<1> QED BY <1>1, Invariance, PTL

\* A demo delivery leads to a complete test, unless an insert failed.
THEOREM DemoExamsComplete == Spec => []DemoExamComplete
  BY Invariance, PTL DEF Inv
=============================================================================
