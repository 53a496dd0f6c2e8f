----------------------------- MODULE QTIProofs -----------------------------
(***************************************************************************)
(* The safety properties of QTIImport for any number of imports, any       *)
(* packages and any number of faults and crashes, and those of QTIItem for *)
(* questions with any number of options and references.                    *)
(*                                                                         *)
(* The first part follows one import through its phases.  Until it commits *)
(* it has no items, its files are exactly those of createdMedia and the    *)
(* one being written, and its transaction holds exactly the readable items *)
(* before its place in the package; so a commit brings in what is Wanted   *)
(* and a failure leaves nothing.  Imports meet only in the identifiers:    *)
(* files and rows carry the import that made them, so no step of one       *)
(* touches what is said of another.  An insert waits until no other        *)
(* transaction has its identifier, so an identifier is in one transaction  *)
(* or in the table, and there once.                                        *)
(*                                                                         *)
(* The second part follows one question.  Its options are the options of   *)
(* the package in another order at any time, and a label is the place of   *)
(* an option; so the translated key consists of the places of the options  *)
(* that are correct, and a selection matches it if it has the same places. *)
(* A reference in the prompt is replaced in the turn of its own name; in   *)
(* the other turns nothing is found in it, nor in the URL it has become.   *)
(***************************************************************************)
EXTENDS QTIImport, QTIItem, FiniteSetTheorems, TLAPS

Files == Import \X Nat

\* Identifiers: those that packages name and those that are made up.
Named == UNION {{p.entries[k].id : k \in DOMAIN p.entries} : p \in Package}
Ident == Named \cup (Import \X Nat)

Row == [id: Ident, import: Import, entry: Nat, media: SUBSET Files]

\* The phases before the commit.
Early == {"idle", "check", "extract", "write", "insert"}

Job ==
    [at: Early \cup {"respond", "done", "dead"}, pkg: Package \cup {Nil},
     pos: Nat \ {0}, media: SUBSET Files, tx: SUBSET Row, skipped: SUBSET Nat,
     reply: {"none", "ok", "error"}]

TypeOK ==
    /\ items \subseteq Row
    /\ disk \subseteq Files
    /\ job \in [Import -> Job]

FilesOf(i) == {f \in disk : f[1] = i}

\* The readable items before the place of import i in its package.
Covered(i) ==
    {RowId(i, k) : k \in {n \in DOMAIN Entries(i) :
                             /\ n < job[i].pos
                             /\ Entries(i)[n].kind = "item" /\ n \notin job[i].skipped}}

\* The locals of an import.
LocalsInv(i) ==
    /\ job[i].at # "idle" => job[i].pkg \in Package
    /\ \A f \in job[i].media : f[1] = i
    /\ \A row \in job[i].tx : row.import = i /\ row.media \subseteq job[i].media
    /\ job[i].at # "insert" => job[i].tx = {}
    /\ job[i].at \in Early \ {"insert"} => job[i].skipped = {}
    /\ job[i].at = "insert" =>
           /\ Ids(job[i].tx) = Covered(i)
           /\ \A k \in job[i].skipped : k < job[i].pos
    /\ job[i].at # "done" => job[i].reply = "none"

\* An import that has not committed: no items, and no files it does not know.
EarlyInv(i) ==
    job[i].at \in Early =>
        /\ RowsOf(i) = {} /\ i \notin doubt
        /\ FilesOf(i) = job[i].media \cup
               (IF job[i].at = "write" THEN {File(i, job[i].pos)} ELSE {})

\* An import that has, or was given up.
LateInv(i) ==
    /\ job[i].at = "respond" => RowsOf(i) # {} /\ i \notin doubt
    /\ job[i].at = "done" =>
           /\ i \notin temp
           /\ \/ job[i].reply = "ok" /\ RowsOf(i) # {}
              \/ /\ job[i].reply = "error" /\ FilesOf(i) = {}
                 /\ i \in doubt \/ RowsOf(i) = {}

\* The items of an import are those of its package, and so are their media.
RowsInv(i) ==
    /\ RowsOf(i) # {} => Ids(RowsOf(i)) = Wanted(i)
    /\ i \notin doubt => \A row \in RowsOf(i) : row.media \subseteq FilesOf(i)

ImportInv(i) == LocalsInv(i) /\ EarlyInv(i) /\ LateInv(i) /\ RowsInv(i)

Inv == TypeOK /\ \A i \in Import : ImportInv(i)

-----------------------------------------------------------------------------
(* What steps have in common.                                              *)

\* Nothing is said of an import that a step could spoil without touching its
\* locals, its rows, its files or its archive.
LEMMA Frame ==
    ASSUME NEW j \in Import, ImportInv(j), job'[j] = job[j],
           RowsOf(j)' = RowsOf(j), FilesOf(j)' = FilesOf(j),
           j \in temp' => j \in temp, j \in doubt' <=> j \in doubt
    PROVE  ImportInv(j)'
<1>1. /\ Wanted(j)' = Wanted(j) /\ Covered(j)' = Covered(j)
      /\ File(j, job[j].pos)' = File(j, job[j].pos)
  BY DEF Wanted, Covered, RowId, Entries, File
<1> QED
  BY <1>1 DEF ImportInv, LocalsInv, EarlyInv, LateInv, RowsInv

\* The package of an import decides the identifiers of its items.
LEMMA SameIds ==
    ASSUME NEW i \in Import, job'[i].pkg = job[i].pkg
    PROVE  /\ Entries(i)' = Entries(i)
           /\ \A k : RowId(i, k)' = RowId(i, k)
  BY DEF Entries, RowId

\* Steps of one import that change nothing but its locals.
LEMMA LocalStep ==
    ASSUME Inv, NEW i \in Import, NEW J \in Job, job' = [job EXCEPT ![i] = J],
           UNCHANGED <<items, disk, doubt>>, temp' \subseteq temp \cup {i},
           LocalsInv(i)', EarlyInv(i)', LateInv(i)',
           (J.pkg = job[i].pkg /\ J.skipped = job[i].skipped) \/ RowsOf(i) = {}
    PROVE  Inv'
<1>1. /\ job' \in [Import -> Job] /\ job'[i] = J
      /\ \A j \in Import : j # i => job'[j] = job[j]
  BY DEF Inv, TypeOK
<1>2. \A j \in Import : RowsOf(j)' = RowsOf(j) /\ FilesOf(j)' = FilesOf(j)
  BY DEF RowsOf, FilesOf
<1>3. \A j \in Import : j # i => ImportInv(j)'
  <2> SUFFICES ASSUME NEW j \in Import, j # i PROVE ImportInv(j)'
    OBVIOUS
  <2>1. ImportInv(j) /\ (j \in temp' => j \in temp)
    BY DEF Inv
  <2> QED BY <1>1, <1>2, <2>1, Frame
<1>4. RowsInv(i)'
  <2>1. RowsInv(i)
    BY DEF Inv, ImportInv
  <2>2. CASE RowsOf(i) = {}
    BY <1>2, <2>2 DEF RowsInv
  <2>3. CASE J.pkg = job[i].pkg /\ J.skipped = job[i].skipped
    <3>1. Wanted(i)' = Wanted(i)
      BY <1>1, <2>3, SameIds DEF Wanted
    <3> QED BY <1>2, <2>1, <3>1 DEF RowsInv
  <2> QED BY <2>2, <2>3
<1>5. TypeOK'
  BY <1>1 DEF Inv, TypeOK
<1> QED BY <1>1, <1>3, <1>4, <1>5 DEF Inv, ImportInv

\* What the deferred calls of an early return leave of an import.
LEMMA FailEffect ==
    ASSUME Inv, NEW i \in Import, job[i].at \in Early \ {"idle"}, Fail(i)
    PROVE  /\ job' \in [Import -> Job]
           /\ job'[i].at = "done" /\ job'[i].tx = {} /\ job'[i].reply = "error"
           /\ job'[i].pkg = job[i].pkg /\ job'[i].skipped = job[i].skipped
           /\ job'[i].media = job[i].media
           /\ \A j \in Import : j # i => job'[j] = job[j]
           /\ disk' \subseteq disk /\ FilesOf(i)' = {}
           /\ \A j \in Import : j # i => FilesOf(j)' = FilesOf(j)
           /\ temp' = temp \ {i}
<1>1. /\ job' = [job EXCEPT ![i].at = "done", ![i].tx = {}, ![i].reply = "error"]
      /\ disk' = disk \ (job[i].media \cup {File(i, job[i].pos)})
      /\ temp' = temp \ {i}
  BY DEF Fail
<1>2. job \in [Import -> Job] /\ job[i] \in Job
  BY DEF Inv, TypeOK
<1>3. /\ job' \in [Import -> Job]
      /\ job'[i].at = "done" /\ job'[i].tx = {} /\ job'[i].reply = "error"
      /\ job'[i].pkg = job[i].pkg /\ job'[i].skipped = job[i].skipped
      /\ job'[i].media = job[i].media
      /\ \A j \in Import : j # i => job'[j] = job[j]
  BY <1>1, <1>2 DEF Job
<1>4. FilesOf(i) \subseteq job[i].media \cup {File(i, job[i].pos)}
  BY DEF Inv, ImportInv, EarlyInv
<1>5. FilesOf(i)' = {}
  BY <1>1, <1>4 DEF FilesOf
<1>6. \A f \in job[i].media \cup {File(i, job[i].pos)} : f[1] = i
  BY DEF Inv, ImportInv, LocalsInv, File
<1>7. \A j \in Import : j # i => FilesOf(j)' = FilesOf(j)
  BY <1>1, <1>6 DEF FilesOf
<1> QED BY <1>1, <1>3, <1>5, <1>7

\* An import that fails before its commit leaves nothing behind.
LEMMA FailStep ==
    ASSUME Inv, NEW i \in Import, job[i].at \in Early \ {"idle"}, Fail(i),
           UNCHANGED <<items, doubt>>
    PROVE  Inv'
<1>1. \A j \in Import : RowsOf(j)' = RowsOf(j)
  BY DEF RowsOf
<1>2. \A j \in Import : j # i => ImportInv(j)'
  <2> SUFFICES ASSUME NEW j \in Import, j # i PROVE ImportInv(j)'
    OBVIOUS
  <2>1. ImportInv(j) /\ job'[j] = job[j] /\ FilesOf(j)' = FilesOf(j)
    BY FailEffect DEF Inv
  <2>2. j \in temp' => j \in temp
    BY FailEffect
  <2> QED BY <1>1, <2>1, <2>2, Frame
<1>3. RowsOf(i) = {} /\ i \notin doubt /\ LocalsInv(i)
  BY DEF Inv, ImportInv, EarlyInv
<1>4. LocalsInv(i)'
  BY <1>3, FailEffect DEF LocalsInv, Early
<1>5. EarlyInv(i)' /\ LateInv(i)' /\ RowsInv(i)'
  BY <1>1, <1>3, FailEffect DEF EarlyInv, LateInv, RowsInv, Early
<1>6. TypeOK'
  BY FailEffect DEF Inv, TypeOK
<1> QED BY <1>2, <1>4, <1>5, <1>6 DEF Inv, ImportInv

-----------------------------------------------------------------------------
(* One lemma per operation.                                                *)

\* The handler stores the archive.
LEMMA UploadStep ==
    ASSUME Inv, NEW i \in Import, NEW p \in Package, Upload(i, p) PROVE Inv'
<1>1. job[i].at = "idle" /\ job[i] \in Job /\ LocalsInv(i) /\ EarlyInv(i)
  BY DEF Upload, Inv, TypeOK, ImportInv
<1>2. PICK J : J = [job[i] EXCEPT !.at = "check", !.pkg = p]
  OBVIOUS
<1>3. /\ J \in Job /\ J.at = "check" /\ J.pkg = p /\ J.media = job[i].media
      /\ J.tx = job[i].tx /\ J.skipped = job[i].skipped /\ J.reply = job[i].reply
  BY <1>1, <1>2 DEF Job, Early
<1>4. job' = [job EXCEPT ![i] = J] /\ job'[i] = J
  BY <1>2 DEF Upload, Inv, TypeOK
<1>5. /\ UNCHANGED <<items, disk, doubt>> /\ temp' \subseteq temp \cup {i}
      /\ RowsOf(i)' = RowsOf(i) /\ FilesOf(i)' = FilesOf(i)
  BY DEF Upload, RowsOf, FilesOf
<1>6. LocalsInv(i)' /\ EarlyInv(i)' /\ LateInv(i)'
  BY <1>1, <1>3, <1>4, <1>5 DEF LocalsInv, EarlyInv, LateInv, Early
<1>7. RowsOf(i) = {}
  BY <1>1 DEF EarlyInv, Early
<1> QED BY <1>3, <1>4, <1>5, <1>6, <1>7, LocalStep

\* The limits on the whole package.
LEMMA CheckStep ==
    ASSUME Inv, NEW i \in Import, Check(i) PROVE Inv'
<1>1. job[i].at = "check" /\ job[i] \in Job /\ LocalsInv(i) /\ EarlyInv(i)
  BY DEF Check, Inv, TypeOK, ImportInv
<1>2. UNCHANGED <<items, doubt>>
  BY DEF Check
<1>3. CASE ~job[i].pkg.fits
  BY <1>1, <1>2, <1>3, FailStep DEF Check, Early
<1>4. CASE job[i].pkg.fits
  <2>1. PICK J : J = [job[i] EXCEPT !.at = "extract"]
    OBVIOUS
  <2>2. /\ J \in Job /\ J.at = "extract" /\ J.pkg = job[i].pkg /\ J.media = job[i].media
        /\ J.tx = job[i].tx /\ J.skipped = job[i].skipped /\ J.reply = job[i].reply
    BY <1>1, <2>1 DEF Job, Early
  <2>3. job' = [job EXCEPT ![i] = J] /\ job'[i] = J
    BY <1>4, <2>1 DEF Check, Inv, TypeOK
  <2>4. /\ UNCHANGED <<disk, temp>>
        /\ RowsOf(i)' = RowsOf(i) /\ FilesOf(i)' = FilesOf(i)
    BY <1>2, <1>4 DEF Check, RowsOf, FilesOf
  <2>5. LocalsInv(i)' /\ EarlyInv(i)' /\ LateInv(i)'
    BY <1>1, <1>2, <2>2, <2>3, <2>4 DEF LocalsInv, EarlyInv, LateInv, Early
  <2> QED BY <1>2, <2>2, <2>3, <2>4, <2>5, LocalStep
<1> QED BY <1>3, <1>4

\* saveMediaFile creates the file.
LEMMA CreateMediaStep ==
    ASSUME Inv, NEW i \in Import, CreateMedia(i) PROVE Inv'
<1>1. job[i].at = "extract" /\ job[i] \in Job /\ ImportInv(i)
  BY DEF CreateMedia, Inv, TypeOK
<1>2. /\ UNCHANGED <<items, temp, doubt>>
      /\ disk' = disk \cup {File(i, job[i].pos)}
      /\ job' = [job EXCEPT ![i].at = "write"]
  BY DEF CreateMedia
<1>3. /\ job' \in [Import -> Job] /\ \A j \in Import : j # i => job'[j] = job[j]
      /\ job'[i].at = "write" /\ job'[i].pkg = job[i].pkg /\ job'[i].media = job[i].media
      /\ job'[i].tx = job[i].tx /\ job'[i].skipped = job[i].skipped
      /\ job'[i].reply = job[i].reply /\ job'[i].pos = job[i].pos
  BY <1>1, <1>2 DEF Inv, TypeOK, Job, Early
<1>4. /\ File(i, job[i].pos) \in Files /\ File(i, job[i].pos)[1] = i
      /\ File(i, job[i].pos)' = File(i, job[i].pos)
  BY <1>1, <1>3 DEF File, Files, Job
<1>5. /\ FilesOf(i)' = FilesOf(i) \cup {File(i, job[i].pos)}
      /\ \A j \in Import : j # i => FilesOf(j)' = FilesOf(j)
      /\ \A j \in Import : RowsOf(j)' = RowsOf(j)
  BY <1>2, <1>4 DEF FilesOf, RowsOf
<1>6. \A j \in Import : j # i => ImportInv(j)'
  <2> SUFFICES ASSUME NEW j \in Import, j # i PROVE ImportInv(j)'
    OBVIOUS
  <2>1. ImportInv(j)
    BY DEF Inv
  <2> QED BY <1>2, <1>3, <1>5, <2>1, Frame
<1>7. LocalsInv(i)' /\ LateInv(i)'
  BY <1>1, <1>3 DEF ImportInv, LocalsInv, LateInv, Early
<1>8. EarlyInv(i)' /\ RowsInv(i)'
  BY <1>1, <1>2, <1>3, <1>4, <1>5 DEF ImportInv, EarlyInv, RowsInv, Early
<1>9. TypeOK'
  BY <1>2, <1>3, <1>4 DEF Inv, TypeOK
<1> QED BY <1>6, <1>7, <1>8, <1>9 DEF Inv, ImportInv

\* saveMediaFile writes the file, or removes it when the content does not fit.
LEMMA WriteMediaStep ==
    ASSUME Inv, NEW i \in Import, WriteMedia(i) PROVE Inv'
<1>1. job[i].at = "write" /\ job[i] \in Job /\ LocalsInv(i) /\ EarlyInv(i)
  BY DEF WriteMedia, Inv, TypeOK, ImportInv
<1>2. UNCHANGED <<items, doubt>>
  BY DEF WriteMedia
<1>3. CASE Entry(i).kind # "media"
  BY <1>1, <1>2, <1>3, FailStep DEF WriteMedia, Early
<1>4. CASE Entry(i).kind = "media"
  <2> DEFINE file == File(i, job[i].pos)
  <2>1. PICK J : J = [job[i] EXCEPT !.at = "extract", !.pos = @ + 1,
                                    !.media = @ \cup {file}]
    OBVIOUS
  <2>2. file \in Files /\ file[1] = i
    BY <1>1 DEF File, Files, Job
  <2> HIDE DEF file
  <2>3. /\ J \in Job /\ J.at = "extract" /\ J.pkg = job[i].pkg
        /\ J.media = job[i].media \cup {file}
        /\ J.tx = job[i].tx /\ J.skipped = job[i].skipped /\ J.reply = job[i].reply
    <3>1. job[i].media \cup {file} \in SUBSET Files /\ job[i].pos + 1 \in Nat \ {0}
      BY <1>1, <2>2 DEF Job
    <3> QED BY <1>1, <2>1, <3>1 DEF Job, Early
  <2>4. job' = [job EXCEPT ![i] = J] /\ job'[i] = J
    BY <1>4, <2>1 DEF WriteMedia, Inv, TypeOK, file
  <2>5. /\ UNCHANGED <<disk, temp>>
        /\ RowsOf(i)' = RowsOf(i) /\ FilesOf(i)' = FilesOf(i)
    BY <1>2, <1>4 DEF WriteMedia, RowsOf, FilesOf
  <2>6. FilesOf(i) = job[i].media \cup {file}
    BY <1>1 DEF EarlyInv, Early, file
  <2>7. LocalsInv(i)' /\ EarlyInv(i)' /\ LateInv(i)'
    BY <1>1, <1>2, <2>2, <2>3, <2>4, <2>5, <2>6 DEF LocalsInv, EarlyInv, LateInv, Early
  <2> QED BY <1>2, <2>3, <2>4, <2>5, <2>7, LocalStep
<1> QED BY <1>3, <1>4

\* The other entries in the first pass.
LEMMA PassOverStep ==
    ASSUME Inv, NEW i \in Import, PassOver(i) PROVE Inv'
<1>1. job[i].at = "extract" /\ job[i] \in Job /\ LocalsInv(i) /\ EarlyInv(i)
  BY DEF PassOver, Inv, TypeOK, ImportInv
<1>2. UNCHANGED <<items, doubt>>
  BY DEF PassOver
<1>3. CASE Entry(i).kind = "refused"
  BY <1>1, <1>2, <1>3, FailStep DEF PassOver, Early
<1>4. CASE Entry(i).kind # "refused"
  <2>1. PICK J : J = [job[i] EXCEPT !.pos = @ + 1]
    OBVIOUS
  <2>2. /\ J \in Job /\ J.at = "extract" /\ J.pkg = job[i].pkg /\ J.media = job[i].media
        /\ J.tx = job[i].tx /\ J.skipped = job[i].skipped /\ J.reply = job[i].reply
    BY <1>1, <2>1 DEF Job
  <2>3. job' = [job EXCEPT ![i] = J] /\ job'[i] = J
    BY <1>4, <2>1 DEF PassOver, Inv, TypeOK
  <2>4. /\ UNCHANGED <<disk, temp>>
        /\ RowsOf(i)' = RowsOf(i) /\ FilesOf(i)' = FilesOf(i)
    BY <1>2, <1>4 DEF PassOver, RowsOf, FilesOf
  <2>5. LocalsInv(i)' /\ EarlyInv(i)' /\ LateInv(i)'
    BY <1>1, <1>2, <2>2, <2>3, <2>4 DEF LocalsInv, EarlyInv, LateInv, Early
  <2> QED BY <1>2, <2>2, <2>3, <2>4, <2>5, LocalStep
<1> QED BY <1>3, <1>4

\* The transaction begins.
LEMMA BeginStep ==
    ASSUME Inv, NEW i \in Import, Begin(i) PROVE Inv'
<1>1. job[i].at = "extract" /\ job[i] \in Job /\ LocalsInv(i) /\ EarlyInv(i)
  BY DEF Begin, Inv, TypeOK, ImportInv
<1>2. PICK J : J = [job[i] EXCEPT !.at = "insert", !.pos = 1]
  OBVIOUS
<1>3. /\ J \in Job /\ J.at = "insert" /\ J.pos = 1
      /\ J.pkg = job[i].pkg /\ J.media = job[i].media
      /\ J.tx = job[i].tx /\ J.skipped = job[i].skipped /\ J.reply = job[i].reply
  <2>1. 1 \in Nat \ {0} /\ "insert" \in Early
    BY DEF Early
  <2> QED BY <1>1, <1>2, <2>1 DEF Job
<1>4. job' = [job EXCEPT ![i] = J] /\ job'[i] = J
  BY <1>2 DEF Begin, Inv, TypeOK
<1>5. /\ UNCHANGED <<items, disk, doubt, temp>>
      /\ RowsOf(i)' = RowsOf(i) /\ FilesOf(i)' = FilesOf(i)
  BY DEF Begin, RowsOf, FilesOf
<1>6. Covered(i)' = {}
  <2>1. job'[i].pkg \in Package
    BY <1>1, <1>3, <1>4 DEF LocalsInv
  <2>2. \A n \in DOMAIN Entries(i)' : ~(n < job'[i].pos)
    BY <1>3, <1>4, <2>1, PackageAssumption DEF Entries
  <2> QED BY <2>2 DEF Covered
<1>7. LocalsInv(i)' /\ EarlyInv(i)' /\ LateInv(i)'
  BY <1>1, <1>3, <1>4, <1>5, <1>6 DEF LocalsInv, EarlyInv, LateInv, Early, Ids
<1> QED BY <1>3, <1>4, <1>5, <1>7, LocalStep

\* The item at the place of import i is inserted: the transaction holds one
\* more of the items that are wanted.
LEMMA InsertStep ==
    ASSUME Inv, NEW i \in Import, Insert(i) PROVE Inv'
<1>1. /\ job[i].at = "insert" /\ More(i) /\ Entry(i).kind = "item"
      /\ job[i] \in Job /\ LocalsInv(i) /\ EarlyInv(i)
  BY DEF Insert, Inserting, Inv, TypeOK, ImportInv
<1>2. UNCHANGED <<items, doubt>>
  BY DEF Insert
<1>3. CASE RowId(i, job[i].pos) \in Ids(items \cup job[i].tx)
  BY <1>1, <1>2, <1>3, FailStep DEF Insert, Early
<1>4. CASE RowId(i, job[i].pos) \notin Ids(items \cup job[i].tx)
  <2> DEFINE n == job[i].pos
             row == NewRow(i)
  <2>1. PICK J : J = [job[i] EXCEPT !.tx = @ \cup {row}, !.pos = @ + 1]
    OBVIOUS
  <2>2. job[i].pkg \in Package /\ n \in DOMAIN Entries(i) /\ n \in Nat \ {0}
    <3>1. job[i].pkg \in Package /\ n \in Nat \ {0}
      BY <1>1 DEF LocalsInv, Job
    <3> QED BY <1>1, <3>1, PackageAssumption DEF More, Entries
  <2>3. RowId(i, n) \in Ident
    <3>1. <<i, n>> \in Import \X Nat
      BY <2>2
    <3>2. \A p \in Package : \A k \in DOMAIN p.entries :
            p.entries[k].id \in Named
      BY DEF Named
    <3>3. Entries(i)[n].id \in Ident
      BY <2>2, <3>2 DEF Ident, Entries
    <3>4. <<i, n>> \in Ident
      BY <3>1 DEF Ident
    <3> QED BY <3>3, <3>4 DEF RowId
  <2>4. row \in Row /\ row.id = RowId(i, n) /\ row.import = i /\ row.media = job[i].media
    BY <1>1, <2>3 DEF NewRow, Row, Job
  <2> HIDE DEF row
  <2>5. /\ J \in Job /\ J.at = "insert" /\ J.pos = n + 1
        /\ J.pkg = job[i].pkg /\ J.media = job[i].media
        /\ J.tx = job[i].tx \cup {row}
        /\ J.skipped = job[i].skipped /\ J.reply = job[i].reply
    <3>1. job[i].tx \cup {row} \in SUBSET Row /\ n + 1 \in Nat \ {0}
      BY <1>1, <2>2, <2>4 DEF Job
    <3> QED BY <1>1, <2>1, <3>1 DEF Job
  <2>6. job' = [job EXCEPT ![i] = J] /\ job'[i] = J
    BY <1>4, <2>1 DEF Insert, Inv, TypeOK, row
  <2>7. /\ UNCHANGED <<disk, temp>>
        /\ RowsOf(i)' = RowsOf(i) /\ FilesOf(i)' = FilesOf(i)
    BY <1>2, <1>4 DEF Insert, RowsOf, FilesOf
  <2>8. /\ Entries(i)' = Entries(i) /\ \A k : RowId(i, k)' = RowId(i, k)
    BY <2>5, <2>6, SameIds
  <2>9. Covered(i)' = Covered(i) \cup {RowId(i, n)}
    <3>1. \A k \in DOMAIN Entries(i) : k < n + 1 <=> (k < n \/ k = n)
      BY <2>2, PackageAssumption DEF Entries
    <3>2. Entries(i)[n].kind = "item" /\ n \notin job[i].skipped
      BY <1>1, <2>2 DEF Entry, LocalsInv
    <3> HIDE DEF n
    <3> QED BY <2>2, <2>5, <2>6, <2>8, <3>1, <3>2 DEF Covered, n
  <2>10. Ids(J.tx) = Ids(job[i].tx) \cup {RowId(i, n)}
    BY <2>4, <2>5 DEF Ids
  <2>11. Ids(job[i].tx) = Covered(i) /\ \A k \in job[i].skipped : k < n + 1
    BY <1>1, <2>2 DEF LocalsInv, Job
  <2> HIDE DEF n
  <2>12. Ids(job'[i].tx) = Covered(i)'
    BY <2>6, <2>9, <2>10, <2>11
  <2>13. LocalsInv(i)'
    BY <1>1, <2>4, <2>5, <2>6, <2>11, <2>12 DEF LocalsInv, Early
  <2>14. EarlyInv(i)' /\ LateInv(i)'
    BY <1>1, <1>2, <2>5, <2>6, <2>7 DEF EarlyInv, LateInv, Early
  <2> QED BY <1>2, <2>5, <2>6, <2>7, <2>13, <2>14, LocalStep
<1> QED BY <1>3, <1>4

\* An entry that is no item, or could not be read, is left out.
LEMMA SkipStep ==
    ASSUME Inv, NEW i \in Import, Skip(i) \/ ReadFails(i) PROVE Inv'
<1>1. /\ job[i].at = "insert" /\ More(i)
      /\ job[i] \in Job /\ LocalsInv(i) /\ EarlyInv(i)
  BY DEF Skip, ReadFails, Inserting, Inv, TypeOK, ImportInv
<1> DEFINE n == job[i].pos
<1>2. PICK lost : /\ lost \subseteq {n}
                  /\ job' = [job EXCEPT ![i].pos = @ + 1, ![i].skipped = @ \cup lost]
                  /\ Entry(i).kind = "item" => lost = {n}
  <2>1. CASE Skip(i)
    <3>1. job[i].skipped \cup {} = job[i].skipped
      OBVIOUS
    <3>2. job' = [job EXCEPT ![i].pos = @ + 1, ![i].skipped = @ \cup {}]
      BY <1>1, <2>1, <3>1 DEF Skip, Inv, TypeOK, Job
    <3>3. {} \subseteq {n} /\ Entry(i).kind # "item"
      BY <2>1 DEF Skip
    <3>4. \E lost : lost = {}
      OBVIOUS
    <3> QED BY <3>2, <3>3, <3>4
  <2>2. CASE ReadFails(i)
    BY <2>2 DEF ReadFails
  <2> QED BY <2>1, <2>2
<1>3. PICK J : J = [job[i] EXCEPT !.pos = @ + 1, !.skipped = @ \cup lost]
  OBVIOUS
<1>4. job[i].pkg \in Package /\ n \in Nat \ {0}
  BY <1>1 DEF LocalsInv, Job
<1>5. /\ J \in Job /\ J.at = "insert" /\ J.pos = n + 1
      /\ J.pkg = job[i].pkg /\ J.media = job[i].media
      /\ J.tx = job[i].tx
      /\ J.skipped = job[i].skipped \cup lost /\ J.reply = job[i].reply
  <2>1. job[i].skipped \cup lost \in SUBSET Nat /\ n + 1 \in Nat \ {0}
    BY <1>1, <1>2, <1>4 DEF Job
  <2> QED BY <1>1, <1>3, <2>1 DEF Job
<1>6. job' = [job EXCEPT ![i] = J] /\ job'[i] = J
  BY <1>2, <1>3 DEF Inv, TypeOK
<1>7. /\ UNCHANGED <<items, disk, temp, doubt>>
      /\ RowsOf(i)' = RowsOf(i) /\ FilesOf(i)' = FilesOf(i)
  BY DEF Skip, ReadFails, RowsOf, FilesOf
<1>8. Entries(i)' = Entries(i) /\ \A k : RowId(i, k)' = RowId(i, k)
  BY <1>5, <1>6, SameIds
<1>9. Covered(i)' = Covered(i)
  <2>0. \A k \in DOMAIN Entries(i) : k \in Nat
    BY <1>4, PackageAssumption DEF Entries
  <2>1. \A k \in DOMAIN Entries(i) : k < n + 1 <=> (k < n \/ k = n)
    BY <1>4, <2>0
  <2>2. Entries(i)[n].kind = "item" => n \in lost
    BY <1>2 DEF Entry
  <2>3. \A k \in DOMAIN Entries(i) : k < n => k # n
    BY <1>4, <2>0
  <2>4. \A k \in DOMAIN Entries(i) :
          (k < n + 1 /\ Entries(i)[k].kind = "item" /\ k \notin job[i].skipped \cup lost)
          <=> (k < n /\ Entries(i)[k].kind = "item" /\ k \notin job[i].skipped)
    BY <1>2, <2>1, <2>2, <2>3
  <2> HIDE DEF n
  <2> QED BY <1>5, <1>6, <1>8, <2>4 DEF Covered, n
<1>10. \A k \in job[i].skipped \cup lost : k < n + 1
  BY <1>1, <1>2, <1>4 DEF LocalsInv, Job
<1>11. Ids(job[i].tx) = Covered(i)
  BY <1>1 DEF LocalsInv
<1> HIDE DEF n
<1>12. LocalsInv(i)'
  BY <1>1, <1>5, <1>6, <1>9, <1>10, <1>11 DEF LocalsInv, Early
<1>13. EarlyInv(i)' /\ LateInv(i)'
  BY <1>1, <1>5, <1>6, <1>7 DEF EarlyInv, LateInv, Early
<1>14. RowsOf(i) = {}
  BY <1>1 DEF EarlyInv, Early
<1> QED BY <1>5, <1>6, <1>7, <1>12, <1>13, <1>14, LocalStep

\* Read errors, failed statements and broken deadlocks.
LEMMA AbortStep ==
    ASSUME Inv, NEW i \in Import, Abort(i) \/ BreakDeadlock(i) PROVE Inv'
<1>1. Fail(i) /\ UNCHANGED <<items, doubt>>
  BY DEF Abort, BreakDeadlock
<1>2. job[i].at \in Early \ {"idle"}
  <2>1. CASE Abort(i)
    BY <2>1 DEF Abort, Running, Inv, TypeOK, Job
  <2>2. CASE BreakDeadlock(i)
    BY <2>2 DEF BreakDeadlock, Waits, Inserting, Early
  <2> QED BY <2>1, <2>2
<1> QED BY <1>1, <1>2, FailStep

\* A commit adds the rows of the transaction: all that is wanted, and nothing
\* to another import.
LEMMA CommitEffect ==
    ASSUME Inv, NEW i \in Import, job[i].at = "insert", ~More(i),
           items' = items \cup job[i].tx, job'[i].pkg = job[i].pkg,
           job'[i].skipped = job[i].skipped
    PROVE  /\ RowsOf(i)' = job[i].tx /\ Ids(job[i].tx) = Wanted(i)'
           /\ \A j \in Import : j # i => RowsOf(j)' = RowsOf(j)
           /\ items' \subseteq Row
<1>1. LocalsInv(i) /\ EarlyInv(i) /\ job[i] \in Job
  BY DEF Inv, ImportInv, TypeOK
<1>2. \A row \in job[i].tx : row.import = i
  BY <1>1 DEF LocalsInv
<1>3. RowsOf(i) = {}
  BY <1>1 DEF EarlyInv, Early
<1>4. RowsOf(i)' = job[i].tx /\ \A j \in Import : j # i => RowsOf(j)' = RowsOf(j)
  BY <1>2, <1>3 DEF RowsOf
<1>5. Covered(i) = Wanted(i)'
  <2>1. job[i].pkg \in Package
    BY <1>1 DEF LocalsInv
  <2>2. \A n \in DOMAIN Entries(i) : n < job[i].pos
    BY <1>1, <2>1, PackageAssumption DEF Entries, More, Job
  <2>3. Entries(i)' = Entries(i) /\ \A k : RowId(i, k)' = RowId(i, k)
    BY SameIds
  <2> QED BY <2>2, <2>3 DEF Covered, Wanted
<1>6. items' \subseteq Row
  BY <1>1 DEF Inv, TypeOK, Job
<1> QED BY <1>1, <1>4, <1>5, <1>6 DEF LocalsInv

\* tx.Commit, or the refusal of a package without items.
LEMMA CommitStep ==
    ASSUME Inv, NEW i \in Import, Commit(i) PROVE Inv'
<1>1. /\ job[i].at = "insert" /\ ~More(i) /\ UNCHANGED doubt
      /\ job[i] \in Job /\ ImportInv(i)
  BY DEF Commit, Inv, TypeOK
<1>2. CASE job[i].tx = {}
  BY <1>1, <1>2, FailStep DEF Commit, Early
<1>3. CASE job[i].tx # {}
  <2>1. /\ items' = items \cup job[i].tx /\ UNCHANGED <<disk, temp>>
        /\ job' = [job EXCEPT ![i].at = "respond", ![i].tx = {}]
    BY <1>3 DEF Commit
  <2>2. /\ job' \in [Import -> Job] /\ \A j \in Import : j # i => job'[j] = job[j]
        /\ job'[i].at = "respond" /\ job'[i].pkg = job[i].pkg
        /\ job'[i].media = job[i].media /\ job'[i].tx = {}
        /\ job'[i].skipped = job[i].skipped /\ job'[i].reply = job[i].reply
    BY <1>1, <2>1 DEF Inv, TypeOK, Job, Early
  <2>3. /\ RowsOf(i)' = job[i].tx /\ Ids(job[i].tx) = Wanted(i)'
        /\ \A j \in Import : j # i => RowsOf(j)' = RowsOf(j)
        /\ items' \subseteq Row
    BY <1>1, <2>1, <2>2, CommitEffect
  <2>4. \A j \in Import : FilesOf(j)' = FilesOf(j)
    BY <2>1 DEF FilesOf
  <2>5. \A j \in Import : j # i => ImportInv(j)'
    <3> SUFFICES ASSUME NEW j \in Import, j # i PROVE ImportInv(j)'
      OBVIOUS
    <3>1. ImportInv(j)
      BY DEF Inv
    <3> QED BY <1>1, <2>1, <2>2, <2>3, <2>4, <3>1, Frame
  <2>6. i \notin doubt /\ \A row \in job[i].tx : row.media \subseteq FilesOf(i)
    BY <1>1 DEF ImportInv, LocalsInv, EarlyInv, Early
  <2>7. LocalsInv(i)'
    BY <1>1, <2>2 DEF ImportInv, LocalsInv, Early
  <2>8. EarlyInv(i)' /\ LateInv(i)' /\ RowsInv(i)'
    BY <1>1, <1>3, <2>2, <2>3, <2>4, <2>6 DEF EarlyInv, LateInv, RowsInv, Early
  <2>9. TypeOK'
    BY <2>1, <2>2, <2>3 DEF Inv, TypeOK
  <2> QED BY <2>5, <2>7, <2>8, <2>9 DEF Inv, ImportInv
<1> QED BY <1>2, <1>3

\* The commit succeeds and its acknowledgement is lost.
LEMMA CommitLostStep ==
    ASSUME Inv, NEW i \in Import, CommitLost(i) PROVE Inv'
<1>1. /\ job[i].at = "insert" /\ ~More(i) /\ Fail(i) /\ doubt' = doubt \cup {i}
      /\ items' = items \cup job[i].tx /\ LocalsInv(i)
  BY DEF CommitLost, Inv, ImportInv
<1>2. job[i].at \in Early \ {"idle"}
  BY <1>1 DEF Early
<1>3. /\ RowsOf(i)' = job[i].tx /\ Ids(job[i].tx) = Wanted(i)'
      /\ \A j \in Import : j # i => RowsOf(j)' = RowsOf(j)
      /\ items' \subseteq Row
  BY <1>1, <1>2, FailEffect, CommitEffect
<1>4. \A j \in Import : j # i => ImportInv(j)'
  <2> SUFFICES ASSUME NEW j \in Import, j # i PROVE ImportInv(j)'
    OBVIOUS
  <2>1. ImportInv(j) /\ job'[j] = job[j] /\ FilesOf(j)' = FilesOf(j)
    BY <1>1, <1>2, FailEffect DEF Inv
  <2>2. (j \in temp' => j \in temp) /\ (j \in doubt' <=> j \in doubt)
    BY <1>1, <1>2, FailEffect
  <2> QED BY <1>3, <2>1, <2>2, Frame
<1>5. LocalsInv(i)'
  BY <1>1, <1>2, FailEffect DEF LocalsInv, Early
<1>6. EarlyInv(i)' /\ LateInv(i)' /\ RowsInv(i)'
  BY <1>1, <1>2, <1>3, FailEffect DEF EarlyInv, LateInv, RowsInv, Early
<1>7. TypeOK'
  BY <1>1, <1>2, <1>3, FailEffect DEF Inv, TypeOK
<1> QED BY <1>4, <1>5, <1>6, <1>7 DEF Inv, ImportInv

\* The handler answers 201.
LEMMA RespondStep ==
    ASSUME Inv, NEW i \in Import, Respond(i) PROVE Inv'
<1>1. job[i].at = "respond" /\ job[i] \in Job /\ LocalsInv(i) /\ LateInv(i)
  BY DEF Respond, Inv, TypeOK, ImportInv
<1>2. PICK J : J = [job[i] EXCEPT !.at = "done", !.reply = "ok"]
  OBVIOUS
<1>3. /\ J \in Job /\ J.at = "done" /\ J.reply = "ok"
      /\ J.pkg = job[i].pkg /\ J.media = job[i].media
      /\ J.tx = job[i].tx /\ J.skipped = job[i].skipped
  BY <1>1, <1>2 DEF Job
<1>4. job' = [job EXCEPT ![i] = J] /\ job'[i] = J
  BY <1>2 DEF Respond, Inv, TypeOK
<1>5. /\ UNCHANGED <<items, disk, doubt>> /\ temp' = temp \ {i}
      /\ RowsOf(i)' = RowsOf(i) /\ FilesOf(i)' = FilesOf(i)
  BY DEF Respond, RowsOf, FilesOf
<1>6. LocalsInv(i)' /\ EarlyInv(i)' /\ LateInv(i)'
  BY <1>1, <1>3, <1>4, <1>5 DEF LocalsInv, EarlyInv, LateInv, Early
<1> QED BY <1>3, <1>4, <1>5, <1>6, LocalStep

\* The process dies: transactions are gone, files and archives stay.
LEMMA CrashStep == ASSUME Inv, Crash PROVE Inv'
<1>1. UNCHANGED <<items, disk, temp, doubt>>
  BY DEF Crash
<1>2. job' = [i \in Import |->
        IF Running(i) THEN [job[i] EXCEPT !.at = "dead", !.tx = {}] ELSE job[i]]
  BY DEF Crash
<1>3. \A i \in Import : RowsOf(i)' = RowsOf(i) /\ FilesOf(i)' = FilesOf(i)
  BY <1>1 DEF RowsOf, FilesOf
<1>4. ASSUME NEW i \in Import PROVE job'[i] \in Job /\ ImportInv(i)'
  <2>1. job[i] \in Job /\ ImportInv(i)
    BY DEF Inv, TypeOK
  <2>2. CASE ~Running(i)
    <3>1. job'[i] = job[i]
      BY <1>2, <2>2
    <3> QED BY <1>1, <1>3, <2>1, <3>1, Frame
  <2>3. CASE Running(i)
    <3>1. job'[i] = [job[i] EXCEPT !.at = "dead", !.tx = {}]
      BY <1>2, <2>3
    <3>2. /\ job'[i] \in Job /\ job'[i].at = "dead" /\ job'[i].tx = {}
          /\ job'[i].pkg = job[i].pkg /\ job'[i].media = job[i].media
          /\ job'[i].skipped = job[i].skipped /\ job'[i].reply = job[i].reply
      BY <2>1, <3>1 DEF Job
    <3>3. job[i].at \notin {"idle", "done"}
      BY <2>3 DEF Running
    <3>4. LocalsInv(i)' /\ EarlyInv(i)' /\ LateInv(i)'
      BY <2>1, <3>2, <3>3 DEF ImportInv, LocalsInv, EarlyInv, LateInv, Early
    <3>5. Wanted(i)' = Wanted(i)
      BY <3>2, SameIds DEF Wanted
    <3>6. RowsInv(i)'
      BY <1>1, <1>3, <2>1, <3>5 DEF ImportInv, RowsInv
    <3> QED BY <3>2, <3>4, <3>6 DEF ImportInv
  <2> QED BY <2>2, <2>3
<1>5. TypeOK'
  BY <1>1, <1>2, <1>4 DEF Inv, TypeOK
<1> QED BY <1>4, <1>5 DEF Inv

-----------------------------------------------------------------------------

\* Before the first upload there is nothing.
LEMMA Initial == ASSUME Init PROVE Inv
<1>1. Fresh \in Job
  BY DEF Fresh, Job, Early
<1>2. TypeOK
  BY <1>1 DEF Init, TypeOK
<1>3. \A i \in Import : job[i] = Fresh
  BY DEF Init
<1>4. \A i \in Import : RowsOf(i) = {} /\ FilesOf(i) = {} /\ i \notin doubt
  BY DEF Init, RowsOf, FilesOf
<1>5. \A i \in Import : ImportInv(i)
  BY <1>3, <1>4
  DEF ImportInv, LocalsInv, EarlyInv, LateInv, RowsInv, Fresh, Early
<1> QED BY <1>2, <1>5 DEF Inv

\* Every step keeps the invariant.
LEMMA Inductive == ASSUME Inv, [Next]_vars PROVE Inv'
<1>1. CASE UNCHANGED vars
  <2>1. \A i \in Import : RowsOf(i)' = RowsOf(i) /\ FilesOf(i)' = FilesOf(i)
    BY <1>1 DEF vars, RowsOf, FilesOf
  <2>2. \A i \in Import : ImportInv(i)'
    BY <1>1, <2>1, Frame DEF vars, Inv
  <2> QED BY <1>1, <2>2 DEF vars, Inv, TypeOK
<1>2. CASE Next
  BY <1>2, CrashStep, UploadStep, CheckStep, CreateMediaStep, WriteMediaStep,
     PassOverStep, BeginStep, InsertStep, SkipStep, AbortStep, CommitStep,
     CommitLostStep, RespondStep
  DEF Next, Step
<1> QED BY <1>1, <1>2

\* The inductive invariant holds throughout: what an import has on the disk, in
\* its transaction and in the table fits the phase it is in.
THEOREM Invariance == Spec => []Inv
  BY Initial, Inductive, PTL DEF Spec

\* ImportQTIPackage imports all the items it could read or none, whatever
\* fails and whoever imports the same items.
THEOREM ImportsAtomic == Spec => []ImportAtomic
<1>1. Inv => ImportAtomic
  BY DEF Inv, ImportInv, RowsInv, ImportAtomic
<1> QED BY <1>1, Invariance, PTL

\* 201 means that items were imported and an error that none was, unless the
\* acknowledgement of the commit was lost.
THEOREM RepliesTruthful == Spec => []ReplyTruthful
<1>1. Inv => ReplyTruthful
  BY DEF Inv, ImportInv, LocalsInv, LateInv, ReplyTruthful
<1> QED BY <1>1, Invariance, PTL

\* The media of imported items stay on the disk.
THEOREM MediaKept == Spec => []MediaOfItemsExist
<1>1. Inv => MediaOfItemsExist
  <2> SUFFICES ASSUME Inv, NEW row \in items, row.import \notin doubt
               PROVE  row.media \subseteq disk
    BY DEF MediaOfItemsExist
  <2>1. row.import \in Import
    BY DEF Inv, TypeOK, Row
  <2>2. row \in RowsOf(row.import)
    BY DEF RowsOf
  <2>3. row.media \subseteq FilesOf(row.import)
    BY <2>1, <2>2 DEF Inv, ImportInv, RowsInv
  <2> QED BY <2>3 DEF FilesOf
<1> QED BY <1>1, Invariance, PTL

\* A failed import removes its media and its archive.
THEOREM FailuresCleanUp == Spec => []NoStrayFiles
<1>1. Inv => NoStrayFiles
  <2> SUFFICES ASSUME Inv, NEW i \in Import, job[i].at = "done"
               PROVE  i \notin temp /\ (RowsOf(i) = {} => \A f \in disk : f[1] # i)
    BY DEF NoStrayFiles
  <2>1. LateInv(i)
    BY DEF Inv, ImportInv
  <2> QED BY <2>1 DEF LateInv, FilesOf
<1> QED BY <1>1, Invariance, PTL

-----------------------------------------------------------------------------
(* Identifiers.                                                            *)

\* An identifier is in one transaction, once, or in the table, once.
UniqueInv ==
    /\ \A i, j \in Import : \A r \in job[i].tx, s \in job[j].tx :
           r.id = s.id => i = j /\ r = s
    /\ \A i \in Import : \A r \in job[i].tx, s \in items : r.id # s.id
    /\ IdentifiersUnique

\* An insert adds an identifier that is neither in the table nor in a
\* transaction, because it has waited for the other transactions; a commit
\* moves its transaction into the table.
LEMMA UniqueStep ==
    ASSUME Inv, UniqueInv, [Next]_vars
    PROVE  UniqueInv'
<1>0. job \in [Import -> Job]
  BY DEF Inv, TypeOK
<1>1. ASSUME UNCHANGED items, \A j \in Import : job'[j].tx \subseteq job[j].tx
      PROVE  UniqueInv'
  BY <1>1 DEF UniqueInv, IdentifiersUnique
<1>2. ASSUME NEW i \in Import, items' = items \cup job[i].tx, job'[i].tx = {},
             \A j \in Import : j # i => job'[j].tx = job[j].tx
      PROVE  UniqueInv'
  <2>1. IdentifiersUnique'
    BY <1>2 DEF UniqueInv, IdentifiersUnique
  <2>2. \A j \in Import : \A r \in job'[j].tx, s \in items' : r.id # s.id
    BY <1>2 DEF UniqueInv
  <2>3. \A j, k \in Import : \A r \in job'[j].tx, s \in job'[k].tx :
            r.id = s.id => j = k /\ r = s
    BY <1>2 DEF UniqueInv
  <2> QED BY <2>1, <2>2, <2>3 DEF UniqueInv
<1>3. ASSUME NEW i \in Import, Fail(i)
      PROVE  job'[i].tx = {} /\ \A j \in Import : j # i => job'[j].tx = job[j].tx
  BY <1>0, <1>3 DEF Fail, Job
<1>4. ASSUME NEW i \in Import, Insert(i) PROVE UniqueInv'
  <2>1. CASE Fail(i)
    BY <1>1, <1>3, <1>4, <2>1 DEF Insert
  <2>2. CASE ~Fail(i)
    <3>1. PICK row : row = NewRow(i)
      OBVIOUS
    <3>2. /\ row.id \notin Ids(items \cup job[i].tx)
          /\ job' = [job EXCEPT ![i].tx = @ \cup {row}, ![i].pos = @ + 1]
          /\ \A j \in Import : ~Waits(i, j)
          /\ Inserting(i) /\ row.id = RowId(i, job[i].pos) /\ UNCHANGED items
      BY <1>4, <2>2, <3>1 DEF Insert, NewRow
    <3>3. /\ job'[i].tx = job[i].tx \cup {row}
          /\ \A j \in Import : j # i => job'[j].tx = job[j].tx
      BY <1>0, <3>2 DEF Job
    <3>4. \A j \in Import : row.id \notin Ids(job[j].tx)
      BY <3>2 DEF Waits, Ids
    <3>5. (\A s \in items : row.id # s.id) /\ \A j \in Import : \A s \in job[j].tx : row.id # s.id
      BY <3>2, <3>4 DEF Ids
    <3>6. \A j \in Import : \A r \in job'[j].tx :
              r \in job[j].tx \/ (r = row /\ j = i)
      BY <3>3
    <3>7. \A j, k \in Import : \A r \in job'[j].tx, s \in job'[k].tx :
              r.id = s.id => j = k /\ r = s
      BY <3>5, <3>6 DEF UniqueInv
    <3>8. \A j \in Import : \A r \in job'[j].tx, s \in items' : r.id # s.id
      BY <3>2, <3>5, <3>6 DEF UniqueInv
    <3> QED BY <3>2, <3>7, <3>8 DEF UniqueInv, IdentifiersUnique
  <2> QED BY <2>1, <2>2
<1>5. ASSUME NEW i \in Import, Commit(i) \/ CommitLost(i) PROVE UniqueInv'
  <2>1. CASE UNCHANGED items /\ Fail(i)
    BY <1>1, <1>3, <2>1
  <2>2. CASE items' = items \cup job[i].tx /\ Fail(i)
    BY <1>2, <1>3, <2>2
  <2>3. CASE /\ items' = items \cup job[i].tx
             /\ job' = [job EXCEPT ![i].at = "respond", ![i].tx = {}]
    <3>1. job'[i].tx = {} /\ \A j \in Import : j # i => job'[j].tx = job[j].tx
      BY <1>0, <2>3 DEF Job
    <3> QED BY <1>2, <2>3, <3>1
  <2> QED BY <1>5, <2>1, <2>2, <2>3 DEF Commit, CommitLost
<1>6. ASSUME NEW i \in Import,
             Check(i) \/ WriteMedia(i) \/ PassOver(i) \/ BreakDeadlock(i) \/ Abort(i)
      PROVE  UniqueInv'
  <2>1. UNCHANGED items
    BY <1>6 DEF Check, WriteMedia, PassOver, BreakDeadlock, Abort
  <2>2. CASE Fail(i)
    BY <1>1, <1>3, <2>1, <2>2
  <2>3. CASE ~Fail(i)
    <3>1. \A j \in Import : job'[j].tx = job[j].tx
      BY <1>0, <1>6, <2>3 DEF Check, WriteMedia, PassOver, BreakDeadlock, Abort, Job
    <3> QED BY <1>1, <2>1, <3>1
  <2> QED BY <2>2, <2>3
<1>7. ASSUME NEW i \in Import,
             \/ \E p \in Package : Upload(i, p)
             \/ CreateMedia(i) \/ Begin(i) \/ Skip(i) \/ Respond(i) \/ ReadFails(i)
      PROVE  UniqueInv'
  <2>1. UNCHANGED items /\ \A j \in Import : job'[j].tx = job[j].tx
    BY <1>0, <1>7 DEF Upload, CreateMedia, Begin, Skip, Respond, ReadFails, Job
  <2> QED BY <1>1, <2>1
<1>8. CASE Crash
  <2>1. UNCHANGED items /\ \A j \in Import : job'[j].tx \subseteq job[j].tx
    BY <1>0, <1>8 DEF Crash, Job
  <2> QED BY <1>1, <2>1
<1>9. CASE UNCHANGED vars
  BY <1>1, <1>9 DEF vars
<1> QED BY <1>4, <1>5, <1>6, <1>7, <1>8, <1>9 DEF Next, Step

\* No two stored items share an identifier, however imports interleave and
\* whatever a package names twice.
THEOREM IdentifiersStayUnique == Spec => []IdentifiersUnique
<1>1. Init => UniqueInv
  <2> SUFFICES ASSUME Init PROVE UniqueInv
    OBVIOUS
  <2>1. items = {} /\ \A i \in Import : job[i].tx = {}
    BY DEF Init, Fresh
  <2> QED BY <2>1 DEF UniqueInv, IdentifiersUnique
<1>2. UniqueInv => IdentifiersUnique
  BY DEF UniqueInv
<1> QED BY <1>1, <1>2, UniqueStep, Invariance, PTL DEF Spec

-----------------------------------------------------------------------------
(* One question: the prompt.                                               *)

\* A reference that overlaps with no other name is rewritten when its name has
\* its turn, and no other turn touches it or its URL.
PromptInv ==
    /\ files \in Seq(Path) /\ refs \in Seq(Path) /\ urls \in [DOMAIN files -> Url]
    /\ prompt = [n \in DOMAIN refs |-> prompt[n]]
    /\ at # "prompt" => todo = {}
    /\ \A n \in DOMAIN refs : Separate(refs[n]) =>
           prompt[n] = IF refs[n] \in Names \ todo THEN UrlOf(refs[n]) ELSE refs[n]

(* One question: the options.                                              *)

\* The options are those of the package in some order.
Permuted ==
    /\ shuffled = [k \in 1 .. Len(given) |-> shuffled[k]]
    /\ \A k \in 1 .. Len(given) : shuffled[k].text \in 1 .. Len(given)
    /\ \A j, k \in 1 .. Len(given) : shuffled[j].text = shuffled[k].text => j = k
    /\ \A n \in 1 .. Len(given) : \E k \in 1 .. Len(given) : shuffled[k].text = n

\* What the author called the option that is now at place k.
Original(k) == given[shuffled[k].text]

\* The entry of an identifier is the place of an option that had it.
MapInv ==
    \A x \in Identifier :
        \/ idMap[x] = 0
        \/ idMap[x] \in 1 .. Len(given) /\ Original(idMap[x]) = x

OptionInv ==
    /\ given \in Seq(Identifier) /\ key \in Seq(Identifier) /\ multiple \in BOOLEAN
    /\ left \in Int /\ left <= Len(given)
    /\ Permuted
    /\ at \in {"prompt", "shuffle", "translate", "done", "rejected"}
    /\ at \in {"prompt", "shuffle"} =>
           \A k \in 1 .. Len(given) : shuffled[k].identifier = Original(k)
    /\ at \in {"translate", "done"} =>
           /\ \A k \in 1 .. Len(given) : shuffled[k].identifier = k
           /\ MapInv
    /\ at = "done" =>
           /\ answer = [k \in DOMAIN key |-> idMap[key[k]]]
           /\ \A k \in DOMAIN key : idMap[key[k]] # 0

ItemInv == PromptInv /\ OptionInv

-----------------------------------------------------------------------------
(* Operators.                                                              *)

\* A nonempty set of places has a last one.
LEMMA LastPlace ==
    ASSUME NEW n \in Nat, NEW T \in SUBSET (1 .. n), T # {}
    PROVE  Max(T) \in T /\ \A y \in T : Max(T) >= y
<1> DEFINE D == {n - k : k \in T}
<1>1. D \subseteq Nat /\ D # {}
  <2>1. \A k \in T : n - k \in Nat
    OBVIOUS
  <2> QED BY <2>1
<1>2. PICK d \in D : \A e \in D : <<e, d>> \notin OpToRel(<, Nat)
  <2> HIDE DEF D
  <2> QED BY <1>1, NatLessThanWellFounded, WFMin
<1>3. \A e \in D : d <= e
  <2> HIDE DEF D
  <2> SUFFICES ASSUME NEW e \in D PROVE d <= e
    OBVIOUS
  <2>1. e \in Nat /\ d \in Nat
    BY <1>1
  <2>2. ~(e < d)
    BY <1>2, <2>1 DEF OpToRel
  <2> QED BY <2>1, <2>2
<1>4. PICK k \in T : d = n - k
  OBVIOUS
<1>5. \A y \in T : k >= y
  <2> SUFFICES ASSUME NEW y \in T PROVE k >= y
    OBVIOUS
  <2>1. d <= n - y
    BY <1>3
  <2> QED BY <1>4, <2>1
<1> QED BY <1>5 DEF Max

\* A text occurs in itself.
LEMMA OccursInItself ==
    ASSUME NEW s \in Seq(Token)
    PROVE  Occurs(s, s)
<1>1. Len(s) \in Nat /\ 1 \in 1 .. Len(s) - Len(s) + 1 /\ 1 + Len(s) - 1 = Len(s)
  OBVIOUS
<1>2. SubSeq(s, 1, Len(s)) = s
  OBVIOUS
<1>3. SubSeq(s, 1, 1 + Len(s) - 1) = s
  BY <1>1, <1>2
<1> QED BY <1>1, <1>3 DEF Occurs, Matches

\* Every name of mediaMap has a URL.
LEMMA NamedUrl ==
    ASSUME files \in Seq(Path), urls \in [DOMAIN files -> Url], NEW name \in Names
    PROVE  UrlOf(name) \in Seq(Token)
<1> DEFINE T == {k \in DOMAIN files : name \in {files[k], BaseName(files[k])}}
<1>1. T # {}
  BY DEF Names, ToSet
<1>2. PICK m : m = Len(files)
  OBVIOUS
<1>3. m \in Nat /\ DOMAIN files = 1 .. m
  BY <1>2
<1>4. PICK S : S = T
  OBVIOUS
<1>5. S \in SUBSET (1 .. m) /\ S # {}
  BY <1>1, <1>3, <1>4
<1>6. Max(S) \in S
  BY <1>3, <1>5, LastPlace
<1>7. UrlOf(name) = urls[Max(S)]
  BY <1>4 DEF UrlOf
<1> QED BY <1>3, <1>5, <1>6, <1>7, QuestionAssumption

-----------------------------------------------------------------------------
(* The steps and the prompt.                                               *)

\* What depends on the package only.
LEMMA SamePackage ==
    ASSUME UNCHANGED input
    PROVE  /\ Names' = Names
           /\ \A name : UrlOf(name)' = UrlOf(name)
           /\ \A ref : Separate(ref)' <=> Separate(ref)
<1>1. Names' = Names /\ \A name : UrlOf(name)' = UrlOf(name)
  BY DEF input, Names, UrlOf
<1> QED BY <1>1 DEF Separate

\* Steps that leave the prompt alone.
LEMMA PromptKept ==
    ASSUME PromptInv, UNCHANGED <<input, prompt, todo>>, at' # "prompt" => todo = {}
    PROVE  PromptInv'
  BY SamePackage DEF PromptInv, input

\* One turn of the loop over mediaMap.
LEMMA PromptReplaced ==
    ASSUME PromptInv, NEW name \in Names, Replace(name)
    PROVE  PromptInv'
<1>1. /\ UNCHANGED input /\ at' = "prompt" /\ at = "prompt" /\ name \in todo
      /\ todo' = todo \ {name}
      /\ files' = files /\ refs' = refs /\ urls' = urls
  BY DEF Replace, input
<1>2. prompt' = [n \in DOMAIN refs |-> ReplaceIn(prompt[n], name, UrlOf(name))]
  BY DEF Replace, ReplaceEvery, PromptInv
<1>3. ASSUME NEW n \in DOMAIN refs, Separate(refs[n])
      PROVE  prompt'[n] = IF refs[n] \in Names \ todo' THEN UrlOf(refs[n]) ELSE refs[n]
  <2>1. prompt'[n] = ReplaceIn(prompt[n], name, UrlOf(name))
    BY <1>2
  <2>2. prompt[n] = IF refs[n] \in Names \ todo THEN UrlOf(refs[n]) ELSE refs[n]
    BY <1>3 DEF PromptInv
  <2>3. CASE refs[n] \in Names \ todo
    <3>1. prompt[n] = UrlOf(refs[n]) /\ ~Occurs(name, UrlOf(refs[n])) /\ refs[n] # name
      BY <1>1, <1>3, <2>2, <2>3 DEF Separate
    <3>2. UrlOf(refs[n]) # name
      <4>1. UrlOf(refs[n]) \in Seq(Token)
        BY <2>3, NamedUrl DEF PromptInv
      <4> QED BY <3>1, <4>1, OccursInItself
    <3>3. prompt'[n] = UrlOf(refs[n])
      BY <2>1, <3>1, <3>2 DEF ReplaceIn
    <3> QED BY <1>1, <2>3, <3>3
  <2>4. CASE refs[n] = name
    <3>1. prompt[n] = name
      BY <1>1, <2>2, <2>4
    <3>2. prompt'[n] = UrlOf(name)
      BY <2>1, <3>1 DEF ReplaceIn
    <3> QED BY <1>1, <2>4, <3>2
  <2>5. CASE refs[n] \notin Names \ todo /\ refs[n] # name
    <3>1. prompt[n] = refs[n] /\ ~Occurs(name, refs[n])
      BY <1>3, <2>2, <2>5 DEF Separate
    <3>2. prompt'[n] = refs[n]
      BY <2>1, <2>5, <3>1 DEF ReplaceIn
    <3> QED BY <1>1, <2>5, <3>2
  <2> QED BY <2>3, <2>4, <2>5
<1>4. prompt' = [n \in DOMAIN refs |-> prompt'[n]]
  BY <1>2
<1> QED BY <1>1, <1>3, <1>4, SamePackage DEF PromptInv

-----------------------------------------------------------------------------
(* The steps and the options.                                              *)

\* Steps that leave the options alone.
LEMMA OptionsKept ==
    ASSUME OptionInv, UNCHANGED <<input, shuffled, left, idMap, answer>>,
           \/ at' = at
           \/ at = "prompt" /\ at' \in {"shuffle", "rejected"}
    PROVE  OptionInv'
<1>1. /\ given' = given /\ key' = key /\ multiple' = multiple /\ shuffled' = shuffled
      /\ left' = left /\ idMap' = idMap /\ answer' = answer
  BY DEF input
<1>2. Permuted' <=> Permuted
  BY <1>1 DEF Permuted
<1>3. MapInv' <=> MapInv
  BY <1>1 DEF MapInv, Original
<1>4. \A k : Original(k)' = Original(k)
  BY <1>1 DEF Original
<1> QED BY <1>1, <1>2, <1>3, <1>4 DEF OptionInv

\* One turn of the shuffle: two options change places.
LEMMA OptionsSwapped ==
    ASSUME OptionInv, Shuffle
    PROVE  OptionInv'
<1> DEFINE N == 1 .. Len(given)
<1>1. /\ given' = given /\ key' = key /\ multiple' = multiple /\ idMap' = idMap
      /\ answer' = answer /\ at = "shuffle" /\ at' = "shuffle"
      /\ left' = left - 1 /\ left > 1
  BY DEF Shuffle, input
<1>2. PICK j \in 1 .. left : shuffled' = Swap(shuffled, left, j)
  BY DEF Shuffle
<1>3. PICK m : m = left
  OBVIOUS
<1>4. Len(given) \in Nat /\ m \in N /\ j \in N
  BY <1>1, <1>2, <1>3 DEF OptionInv
<1>5. shuffled = [k \in N |-> shuffled[k]]
  BY DEF OptionInv, Permuted
<1> DEFINE p == [k \in N |-> IF k = m THEN j ELSE IF k = j THEN m ELSE k]
<1>6. /\ \A k \in N : p[k] \in N /\ p[p[k]] = k
      /\ \A k, n \in N : p[k] = p[n] => k = n
  BY <1>4
<1>7. shuffled' = [k \in N |-> shuffled'[k]] /\ \A k \in N : shuffled'[k] = shuffled[p[k]]
  <2> HIDE DEF N
  <2>1. shuffled' = [shuffled EXCEPT ![m] = shuffled[j], ![j] = shuffled[m]]
    BY <1>2, <1>3 DEF Swap
  <2> QED BY <1>4, <1>5, <2>1
<1> HIDE DEF p
<1>8. Permuted'
  <2>1. ASSUME NEW k \in N PROVE shuffled'[k].text \in N
    <3>1. p[k] \in N /\ shuffled'[k] = shuffled[p[k]]
      BY <1>6, <1>7
    <3>2. \A n \in N : shuffled[n].text \in N
      BY DEF OptionInv, Permuted
    <3> HIDE DEF N
    <3> QED BY <3>1, <3>2
  <2>2. ASSUME NEW k \in N, NEW n \in N, shuffled'[k].text = shuffled'[n].text
        PROVE  k = n
    <3>1. shuffled[p[k]].text = shuffled[p[n]].text
      BY <1>7, <2>2
    <3>2. p[k] = p[n]
      <4>1. \A i, l \in N : shuffled[i].text = shuffled[l].text => i = l
        BY DEF OptionInv, Permuted
      <4>2. p[k] \in N /\ p[n] \in N
        BY <1>6
      <4> HIDE DEF N
      <4> QED BY <3>1, <4>1, <4>2
    <3> QED BY <1>6, <3>2
  <2>3. ASSUME NEW n \in N PROVE \E k \in N : shuffled'[k].text = n
    <3>1. PICK k \in N : shuffled[k].text = n
      BY DEF OptionInv, Permuted
    <3>2. p[k] \in N /\ shuffled'[p[k]] = shuffled[k]
      BY <1>6, <1>7
    <3> QED BY <3>1, <3>2
  <2> HIDE DEF N
  <2> QED BY <1>1, <1>7, <2>1, <2>2, <2>3 DEF Permuted, N
<1>9. \A k \in N : shuffled'[k].identifier = Original(k)'
  BY <1>1, <1>6, <1>7 DEF OptionInv, Original
<1> QED BY <1>1, <1>4, <1>8, <1>9 DEF OptionInv

\* Labelling: the entry of an identifier becomes the place of an option that has it.
LEMMA OptionsLabelled ==
    ASSUME OptionInv, Label
    PROVE  OptionInv'
<1> DEFINE N == 1 .. Len(given)
<1>1. /\ given' = given /\ key' = key /\ multiple' = multiple /\ left' = left
      /\ at = "shuffle" /\ at' = "translate"
      /\ idMap' = [x \in Identifier |-> LabelOf(x)]
  BY DEF Label, input
<1>2. DOMAIN shuffled = N /\ Len(given) \in Nat
  BY DEF OptionInv, Permuted
<1>3. shuffled' = [k \in N |-> [identifier |-> k, text |-> shuffled[k].text]]
  BY <1>2 DEF Label
<1>4. /\ shuffled' = [k \in N |-> shuffled'[k]]
      /\ \A k \in N : shuffled'[k].identifier = k /\ shuffled'[k].text = shuffled[k].text
  <2> HIDE DEF N
  <2> QED BY <1>3
<1>6. Permuted'
  <2>1. /\ \A k \in N : shuffled[k].text \in N
        /\ \A j, k \in N : shuffled[j].text = shuffled[k].text => j = k
        /\ \A n \in N : \E k \in N : shuffled[k].text = n
    BY DEF OptionInv, Permuted
  <2> HIDE DEF N
  <2>2. /\ \A k \in N : shuffled'[k].text \in N
        /\ \A j, k \in N : shuffled'[j].text = shuffled'[k].text => j = k
        /\ \A n \in N : \E k \in N : shuffled'[k].text = n
    BY <1>4, <2>1
  <2> QED BY <1>1, <1>4, <2>2 DEF Permuted, N
<1>7. ASSUME NEW x \in Identifier, idMap'[x] # 0
      PROVE  idMap'[x] \in N /\ given'[shuffled'[idMap'[x]].text] = x
  <2> DEFINE places == {k \in DOMAIN shuffled : shuffled[k].identifier = x}
  <2>1. places # {} /\ idMap'[x] = Max(places)
    BY <1>1, <1>7 DEF LabelOf
  <2>2. PICK n \in Nat : n = Len(given)
    BY <1>2
  <2>3. PICK T \in SUBSET (1 .. n) : T = places
    BY <1>2, <2>2
  <2>4. PICK m \in places : m = idMap'[x]
    BY <2>1, <2>3, LastPlace
  <2>5. m \in N /\ shuffled[m].identifier = x
    BY <1>2, <2>4
  <2>6. shuffled[m].identifier = Original(m)
    BY <1>1, <2>5 DEF OptionInv
  <2> QED BY <1>1, <1>4, <2>4, <2>5, <2>6 DEF Original
<1>8. MapInv'
  BY <1>1, <1>7 DEF MapInv, Original
<1> QED BY <1>1, <1>4, <1>6, <1>8 DEF OptionInv

\* The key is translated if it names options only.
LEMMA OptionsTranslated ==
    ASSUME OptionInv, Translate
    PROVE  OptionInv'
<1>1. /\ given' = given /\ key' = key /\ multiple' = multiple /\ shuffled' = shuffled
      /\ left' = left /\ idMap' = idMap /\ at = "translate"
  BY DEF Translate, input
<1>2. Permuted' <=> Permuted
  BY <1>1 DEF Permuted
<1>3. MapInv' <=> MapInv
  BY <1>1 DEF MapInv, Original
<1>4. \/ at' = "rejected"
      \/ /\ at' = "done" /\ answer' = [k \in DOMAIN key |-> idMap[key[k]]]
         /\ \A k \in DOMAIN key : idMap[key[k]] # 0
  BY DEF Translate
<1>5. CASE at' = "rejected"
  BY <1>1, <1>2, <1>5 DEF OptionInv
<1>6. CASE at' = "done"
  BY <1>1, <1>2, <1>3, <1>4, <1>6 DEF OptionInv
<1> QED BY <1>4, <1>5, <1>6

-----------------------------------------------------------------------------
(* Invariance.                                                             *)

LEMMA ItemInitial == ItemInit => ItemInv
<1> SUFFICES ASSUME ItemInit PROVE ItemInv
  OBVIOUS
<1>1. /\ files \in Seq(Path) /\ refs \in Seq(Path) /\ given \in Seq(Identifier)
      /\ key \in Seq(Identifier) /\ multiple \in BOOLEAN
  BY QuestionAssumption DEF ItemInit
<1>0. urls \in [DOMAIN files -> Url]
  BY DEF ItemInit, SavedAs
<1>2. PromptInv
  <2>1. prompt = refs /\ todo = Names /\ at = "prompt"
    BY DEF ItemInit
  <2>2. refs = [n \in DOMAIN refs |-> refs[n]]
    BY <1>1
  <2> QED BY <1>0, <1>1, <2>1, <2>2 DEF PromptInv
<1>3. OptionInv
  <2>1. DOMAIN given = 1 .. Len(given) /\ Len(given) \in Nat
    BY <1>1
  <2>2. /\ shuffled = [n \in 1 .. Len(given) |-> [identifier |-> given[n], text |-> n]]
        /\ at = "prompt" /\ left = Len(given)
    BY <2>1 DEF ItemInit
  <2>3. \A n \in 1 .. Len(given) : shuffled[n].identifier = given[n] /\ shuffled[n].text = n
    BY <2>2
  <2>4. Permuted
    BY <2>2, <2>3 DEF Permuted
  <2> QED BY <1>1, <2>1, <2>2, <2>3, <2>4 DEF OptionInv, Original
<1> QED BY <1>2, <1>3 DEF ItemInv

LEMMA ItemInductive == ItemInv /\ [ItemNext]_itemVars => ItemInv'
<1> SUFFICES ASSUME ItemInv, [ItemNext]_itemVars PROVE ItemInv'
  OBVIOUS
<1> USE DEF ItemInv
<1>1. ASSUME NEW name \in Names, Replace(name) PROVE ItemInv'
  <2>1. PromptInv'
    BY <1>1, PromptReplaced
  <2>2. OptionInv'
    BY <1>1, OptionsKept DEF Replace
  <2> QED BY <2>1, <2>2
<1>2. CASE Balance
  <2>1. PromptInv'
    BY <1>2, PromptKept DEF Balance
  <2>2. OptionInv'
    BY <1>2, OptionsKept DEF Balance
  <2> QED BY <2>1, <2>2
<1>3. CASE Shuffle
  <2>1. PromptInv'
    BY <1>3, PromptKept DEF Shuffle, PromptInv
  <2> QED BY <1>3, <2>1, OptionsSwapped
<1>4. CASE Label
  <2>1. PromptInv'
    BY <1>4, PromptKept DEF Label, PromptInv
  <2> QED BY <1>4, <2>1, OptionsLabelled
<1>5. CASE Translate
  <2>1. PromptInv'
    BY <1>5, PromptKept DEF Translate, PromptInv
  <2> QED BY <1>5, <2>1, OptionsTranslated
<1>6. CASE UNCHANGED itemVars
  <2>1. PromptInv'
    BY <1>6, PromptKept DEF itemVars, PromptInv
  <2>2. OptionInv'
    BY <1>6, OptionsKept DEF itemVars
  <2> QED BY <2>1, <2>2
<1> QED BY <1>1, <1>2, <1>3, <1>4, <1>5, <1>6 DEF ItemNext

\* Every question of parseQTIXMLFile keeps ItemInv at every step.
THEOREM ItemInvariance == ItemSpec => []ItemInv
  BY ItemInitial, ItemInductive, PTL DEF ItemSpec

\* A reference to media that overlaps with no other name of the package becomes
\* the URL of its file wherever it occurs, in whatever order parseQTIXMLFile
\* ranges over mediaMap, and whatever becomes of the other references.
THEOREM PromptsRewritten == ItemSpec => []ReferencesRewritten
<1>1. ItemInv => ReferencesRewritten
  <2> SUFFICES ASSUME ItemInv, at = "done", NEW n \in DOMAIN refs, Separate(refs[n])
               PROVE  prompt[n] = IF refs[n] \in Names THEN UrlOf(refs[n]) ELSE refs[n]
    BY DEF ReferencesRewritten
  <2>1. todo = {}
    BY DEF ItemInv, PromptInv
  <2> QED BY <2>1 DEF ItemInv, PromptInv
<1> QED BY <1>1, ItemInvariance, PTL

-----------------------------------------------------------------------------
(* The score.                                                              *)

\* In a sequence without repetitions, what occurs occurs once.
LEMMA CountOnce ==
    ASSUME NEW s, IsInjective(s), NEW x
    PROVE  /\ x \in ToSet(s) => Count(s, x) = 1
           /\ x \notin ToSet(s) => Count(s, x) = 0
<1> DEFINE places == {k \in DOMAIN s : s[k] = x}
<1>1. ASSUME x \in ToSet(s) PROVE Count(s, x) = 1
  <2>1. PICK k \in DOMAIN s : s[k] = x
    BY <1>1 DEF ToSet
  <2>2. places = {k}
    BY <2>1 DEF IsInjective
  <2> QED BY <2>2, FS_Singleton DEF Count
<1>2. ASSUME x \notin ToSet(s) PROVE Count(s, x) = 0
  <2>1. places = {}
    BY <1>2 DEF ToSet
  <2> QED BY <2>1, FS_EmptySet DEF Count
<1> QED BY <1>1, <1>2

\* Sequences without repetitions are equal after sorting if they have the
\* same elements.
LEMMA SameElements ==
    ASSUME NEW s, NEW t, IsInjective(s), IsInjective(t)
    PROVE  SameParts(s, t) <=> ToSet(s) = ToSet(t)
<1>1. ASSUME SameParts(s, t), NEW x PROVE x \in ToSet(s) <=> x \in ToSet(t)
  <2>1. x \in ToSet(s) \cup ToSet(t) => Count(s, x) = Count(t, x)
    BY <1>1 DEF SameParts
  <2>2. /\ x \in ToSet(s) => Count(s, x) = 1
        /\ x \notin ToSet(s) => Count(s, x) = 0
        /\ x \in ToSet(t) => Count(t, x) = 1
        /\ x \notin ToSet(t) => Count(t, x) = 0
    BY CountOnce
  <2> QED BY <2>1, <2>2
<1>2. ASSUME ToSet(s) = ToSet(t), NEW x \in ToSet(s) \cup ToSet(t)
      PROVE  Count(s, x) = Count(t, x)
  <2>1. Count(s, x) = 1 /\ Count(t, x) = 1
    BY <1>2, CountOnce
  <2> QED BY <2>1
<1>3. SameParts(s, t) => ToSet(s) = ToSet(t)
  BY <1>1
<1>4. ToSet(s) = ToSet(t) => SameParts(s, t)
  BY <1>2 DEF SameParts
<1> QED BY <1>3, <1>4

\* A response for one choice is the answer if it has the same element.
LEMMA SameChoice ==
    ASSUME NEW S, NEW r \in Seq(S), NEW a \in Seq(S), IsInjective(r), Len(a) = 1
    PROVE  r = a <=> ToSet(r) = ToSet(a)
<1>1. DOMAIN a = {1} /\ ToSet(a) = {a[1]}
  BY DEF ToSet
<1>2. ASSUME ToSet(r) = ToSet(a) PROVE r = a
  <2>1. \A k \in DOMAIN r : r[k] = a[1]
    BY <1>1, <1>2 DEF ToSet
  <2>2. PICK j \in DOMAIN r : r[j] = a[1]
    BY <1>1, <1>2 DEF ToSet
  <2>3. Len(r) \in Nat /\ DOMAIN r = 1 .. Len(r) /\ 1 \in DOMAIN r
    BY <2>2
  <2>4. \A k \in DOMAIN r : k = 1
    BY <2>1, <2>3 DEF IsInjective
  <2>5. Len(r) = 1
    BY <2>3, <2>4
  <2> QED BY <2>1, <2>3, <2>5
<1> QED BY <1>2

\* The texts of the options are numbered by their places, one to one.
LEMMA MarkedPlaces ==
    ASSUME ItemInv, at = "done", NEW r, ToSet(r) \subseteq DOMAIN given
    PROVE  /\ Marked(r) = {shuffled[k].text : k \in ToSet(r)}
           /\ DOMAIN given = 1 .. Len(given) /\ DOMAIN shuffled = DOMAIN given
<1>1. DOMAIN given = 1 .. Len(given) /\ DOMAIN shuffled = DOMAIN given
  BY DEF ItemInv, OptionInv, Permuted
<1>2. \A k \in DOMAIN given : shuffled[k].identifier = k
  BY <1>1 DEF ItemInv, OptionInv
<1> QED BY <1>1, <1>2 DEF Marked

\* The answer consists of the places of the options that the key names.
LEMMA AnswerPlaces ==
    ASSUME ItemInv, at = "done", IsInjective(given)
    PROVE  /\ answer \in Seq(DOMAIN given) /\ Len(answer) = Len(key)
           /\ ToSet(answer) = {k \in DOMAIN given : Original(k) \in ToSet(key)}
<1>1. /\ DOMAIN given = 1 .. Len(given)
      /\ key \in Seq(Identifier)
      /\ answer = [k \in 1 .. Len(key) |-> idMap[key[k]]]
      /\ \A k \in 1 .. Len(key) : key[k] \in Identifier /\ idMap[key[k]] # 0
  BY DEF ItemInv, OptionInv
<1>2. ASSUME NEW k \in 1 .. Len(key)
      PROVE  answer[k] \in DOMAIN given /\ Original(answer[k]) = key[k]
  <2>1. key[k] \in Identifier /\ idMap[key[k]] # 0 /\ answer[k] = idMap[key[k]]
    BY <1>1
  <2>2. MapInv
    BY DEF ItemInv, OptionInv
  <2>3. PICK x \in Identifier : x = key[k]
    BY <2>1
  <2>4. idMap[x] \in 1 .. Len(given) /\ Original(idMap[x]) = x
    BY <2>1, <2>2, <2>3 DEF MapInv
  <2> QED BY <1>1, <2>1, <2>3, <2>4
<1>3. answer \in Seq(DOMAIN given) /\ Len(answer) = Len(key)
  <2>1. answer \in [1 .. Len(key) -> DOMAIN given]
    BY <1>1, <1>2
  <2>2. Len(key) \in Nat
    BY <1>1
  <2> QED BY <2>1, <2>2
<1>4. ASSUME NEW k \in DOMAIN given, NEW n \in 1 .. Len(key), Original(k) = key[n]
      PROVE  k = answer[n]
  <2>1. PICK m \in DOMAIN given : m = answer[n]
    BY <1>2
  <2>2. given[shuffled[m].text] = given[shuffled[k].text]
    BY <1>2, <1>4, <2>1 DEF Original
  <2>3. shuffled[m].text \in DOMAIN given /\ shuffled[k].text \in DOMAIN given
    BY <1>1 DEF ItemInv, OptionInv, Permuted
  <2>4. shuffled[m].text = shuffled[k].text
    BY <2>2, <2>3 DEF IsInjective
  <2>5. m = k
    <3>1. \A i, j \in DOMAIN given : shuffled[i].text = shuffled[j].text => i = j
      BY <1>1 DEF ItemInv, OptionInv, Permuted
    <3> QED BY <2>4, <3>1
  <2> QED BY <2>1, <2>5
<1>5. DOMAIN key = 1 .. Len(key) /\ DOMAIN answer = 1 .. Len(key)
  BY <1>1
<1>6. \A x : x \in ToSet(answer) <=> \E n \in 1 .. Len(key) : x = answer[n]
  BY <1>5 DEF ToSet
<1>7. \A x : x \in ToSet(key) <=> \E n \in 1 .. Len(key) : x = key[n]
  BY <1>5 DEF ToSet
<1>8. ASSUME NEW x \in ToSet(answer)
      PROVE  x \in DOMAIN given /\ Original(x) \in ToSet(key)
  <2>1. PICK n \in 1 .. Len(key) : x = answer[n]
    BY <1>6
  <2> QED BY <1>2, <1>7, <2>1
<1>9. ASSUME NEW x \in DOMAIN given, Original(x) \in ToSet(key)
      PROVE  x \in ToSet(answer)
  <2>1. PICK n \in 1 .. Len(key) : Original(x) = key[n]
    BY <1>7, <1>9
  <2> QED BY <1>4, <1>6, <2>1
<1> QED BY <1>3, <1>8, <1>9

\* Marking the right texts is marking the places of the answer.
LEMMA MarkedRight ==
    ASSUME ItemInv, at = "done", IsInjective(given), NEW r, ToSet(r) \subseteq DOMAIN given
    PROVE  Marked(r) = {k \in DOMAIN given : given[k] \in ToSet(key)}
               <=> ToSet(r) = ToSet(answer)
<1> DEFINE Right == {k \in DOMAIN given : given[k] \in ToSet(key)}
           Text(k) == shuffled[k].text
           N == DOMAIN given
<1>1. /\ \A k \in N : Text(k) \in N
      /\ \A j, k \in N : Text(j) = Text(k) => j = k
      /\ \A n \in N : \E k \in N : Text(k) = n
  <2>1. N = 1 .. Len(given)
    BY MarkedPlaces
  <2> HIDE DEF N
  <2> QED BY <2>1 DEF ItemInv, OptionInv, Permuted
<1>2. Marked(r) = {Text(k) : k \in ToSet(r)}
  BY MarkedPlaces
<1>3. ToSet(answer) = {k \in N : given[Text(k)] \in ToSet(key)}
  BY AnswerPlaces DEF Original
<1>4. PICK R, A, K : R = ToSet(r) /\ A = ToSet(answer) /\ K = ToSet(key)
  OBVIOUS
<1>5. R \subseteq N /\ Marked(r) = {Text(k) : k \in R} /\ A = {k \in N : given[Text(k)] \in K}
  BY <1>2, <1>3, <1>4
<1>6. Right = {k \in N : given[k] \in K}
  BY <1>4
<1> HIDE DEF Text, N, Right
<1>7. Right = {Text(k) : k \in A}
  <2>1. ASSUME NEW t \in Right PROVE \E k \in A : t = Text(k)
    <3>1. PICK k \in N : Text(k) = t
      BY <1>1, <1>6
    <3> QED BY <1>5, <1>6, <3>1
  <2>2. ASSUME NEW k \in A PROVE Text(k) \in Right
    BY <1>1, <1>5, <1>6
  <2> QED BY <2>1, <2>2
<1>8. ASSUME Marked(r) = Right PROVE R = A
  <2>1. ASSUME NEW k \in R PROVE k \in A
    <3>1. Text(k) \in Right
      BY <1>5, <1>8
    <3> QED BY <1>5, <1>6, <3>1
  <2>2. ASSUME NEW k \in A PROVE k \in R
    <3>1. Text(k) \in Marked(r)
      BY <1>7, <1>8
    <3>2. PICK j \in R : Text(j) = Text(k)
      BY <1>5, <3>1
    <3> QED BY <1>1, <1>5, <3>2
  <2> QED BY <2>1, <2>2
<1>9. ASSUME R = A PROVE Marked(r) = Right
  BY <1>5, <1>7, <1>9
<1>10. Marked(r) = Right <=> ToSet(r) = ToSet(answer)
  BY <1>4, <1>8, <1>9
<1> QED BY <1>10 DEF Right

\* A question that parseQTIXMLFile accepts has a key that names options, and
\* ScoreItem gives its marks for the texts that the package marks as correct,
\* whatever BalanceOptionsKey made of their order.
THEOREM QuestionsScored == ItemSpec => []ScoredAsAuthored
<1>1. ASSUME ItemInv, at = "done" PROVE ToSet(key) \subseteq ToSet(given)
  <2> SUFFICES ASSUME NEW n \in DOMAIN key PROVE key[n] \in ToSet(given)
    BY DEF ToSet
  <2>1. PICK x \in Identifier : x = key[n]
    BY <1>1 DEF ItemInv, OptionInv
  <2>2. MapInv /\ idMap[x] # 0
    BY <1>1, <2>1 DEF ItemInv, OptionInv
  <2>3. PICK m \in 1 .. Len(given) : Original(m) = x
    BY <2>2 DEF MapInv
  <2>4. shuffled[m].text \in DOMAIN given
    BY <1>1 DEF ItemInv, OptionInv, Permuted
  <2> QED BY <2>1, <2>3, <2>4 DEF Original, ToSet
<1>2. ASSUME ItemInv, at = "done", IsInjective(given), IsInjective(key),
             multiple \/ Len(key) <= 1, NEW r \in Selections
      PROVE  Scores(r, FALSE) <=>
                 r # << >> /\ Marked(r) = {k \in DOMAIN given : given[k] \in ToSet(key)}
  <2>1. r \in Seq(DOMAIN given) /\ IsInjective(r)
    BY DEF Selections, BoundedSeq, SeqOf
  <2>2. ToSet(r) \subseteq DOMAIN given
    BY <2>1 DEF ToSet
  <2>3. PICK a \in Seq(DOMAIN given) : a = answer
    BY <1>2, AnswerPlaces
  <2>4. Marked(r) = {k \in DOMAIN given : given[k] \in ToSet(key)} <=> ToSet(r) = ToSet(a)
    BY <1>2, <2>2, <2>3, MarkedRight
  <2>5. IsInjective(a) /\ Len(a) = Len(key)
    <3>1. \A k \in DOMAIN key : a[k] = idMap[key[k]] /\ idMap[key[k]] # 0
      BY <1>2, <2>3 DEF ItemInv, OptionInv
    <3>2. DOMAIN a = DOMAIN key /\ \A k \in DOMAIN key : key[k] \in Identifier
      BY <1>2, <2>3 DEF ItemInv, OptionInv
    <3>3. \A x, y \in Identifier : idMap[x] # 0 /\ idMap[x] = idMap[y] => x = y
      BY <1>2 DEF ItemInv, OptionInv, MapInv
    <3>4. IsInjective(a)
      BY <1>2, <3>1, <3>2, <3>3 DEF IsInjective
    <3> QED BY <1>2, <2>3, <3>4, AnswerPlaces
  <2>6. Scores(r, FALSE) <=>
            r # << >> /\ a # << >> /\ IF multiple THEN SameParts(r, a) ELSE r = a
    BY <2>3 DEF Scores
  <2>7. CASE a = << >>
    <3>1. ToSet(a) = {}
      BY <2>7 DEF ToSet
    <3>2. ASSUME r # << >> PROVE r[1] \in ToSet(r)
      <4>1. 1 \in DOMAIN r
        BY <2>1, <3>2
      <4> QED BY <4>1 DEF ToSet
    <3> QED BY <2>4, <2>6, <2>7, <3>1, <3>2
  <2>8. CASE a # << >> /\ multiple
    <3>1. SameParts(r, a) <=> ToSet(r) = ToSet(a)
      BY <2>1, <2>5, SameElements
    <3> QED BY <2>4, <2>6, <2>8, <3>1
  <2>9. CASE a # << >> /\ ~multiple
    <3>1. Len(a) = 1
      BY <1>2, <2>5, <2>9
    <3>2. r = a <=> ToSet(r) = ToSet(a)
      BY <2>1, <3>1, SameChoice
    <3> QED BY <2>4, <2>6, <2>9, <3>2
  <2> QED BY <2>7, <2>8, <2>9
<1>3. ItemInv => ScoredAsAuthored
  BY <1>1, <1>2 DEF ScoredAsAuthored
<1> QED BY <1>3, ItemInvariance, PTL
=============================================================================
