----------------------------- MODULE QTIImport -----------------------------
(***************************************************************************)
(* internal/handler/qti_handler.go and internal/service/qti_service.go:    *)
(* concurrent imports of packages.  An import writes media files to the    *)
(* disk, then inserts its items in one transaction, and must undo both by  *)
(* itself when anything goes wrong.                                        *)
(*                                                                         *)
(* A package is what the checks tell apart: whether it keeps the limits of *)
(* size, number and compression (fits) and its entries in the order of the *)
(* archive.  The kind of an entry is "media", "mismatch" (media whose      *)
(* content does not fit its name), "refused" (SVG, or XML over the limit), *)
(* "item" (XML that parses to an item; id is Nil when it names none) or    *)
(* "other" (XML that is skipped, and any other file).                      *)
(*                                                                         *)
(* The database is external: inserting a primary key that another open     *)
(* transaction has inserted waits for that transaction, and a circle of    *)
(* such waits is broken by failing one of them.                            *)
(***************************************************************************)
EXTENDS Integers, Sequences, FiniteSets

CONSTANTS
    Import,      \* calls of the handler
    Package,     \* what may be uploaded
    Nil,
    MaxFaults    \* bound on the faults of a behaviour

ASSUME PackageAssumption ==
    /\ MaxFaults \in Nat
    /\ \A p \in Package :
        /\ p.fits \in BOOLEAN
        /\ Len(p.entries) \in Nat /\ DOMAIN p.entries = 1 .. Len(p.entries)
        /\ \A k \in DOMAIN p.entries :
            p.entries[k].kind \in {"media", "mismatch", "refused", "item", "other"}

VARIABLES
    items,     \* items, committed
    disk,      \* media files
    temp,      \* imports whose uploaded archive is in the temporary directory
    job,       \* the locals of each import
    doubt,     \* imports whose commit succeeded without being acknowledged
    faults     \* faults so far

vars == <<items, disk, temp, job, doubt, faults>>

\* createdMedia (media), the rows inserted so far (tx), the XML entries that
\* could not be read (skipped) and the answer (reply).
Fresh ==
    [at |-> "idle", pkg |-> Nil, pos |-> 1, media |-> {}, tx |-> {},
     skipped |-> {}, reply |-> "none"]

Running(i) == job[i].at \notin {"idle", "done", "dead"}

Entries(i) == job[i].pkg.entries
Entry(i) == Entries(i)[job[i].pos]
More(i) == job[i].pos <= Len(Entries(i))

\* uuid.New names the file.
File(i, k) == <<i, k>>

\* The identifier of the item, or a new one.
RowId(i, k) == IF Entries(i)[k].id = Nil THEN <<i, k>> ELSE Entries(i)[k].id

Ids(rows) == {row.id : row \in rows}

Init ==
    /\ items = {}
    /\ disk = {}
    /\ temp = {}
    /\ job = [i \in Import |-> Fresh]
    /\ doubt = {}
    /\ faults = 0

\* Mutant: the media files stay when the import fails.
FailKeepsMedia(i) ==
    /\ job' = [job EXCEPT ![i].at = "done", ![i].tx = {}, ![i].reply = "error"]
    /\ disk' = disk
    /\ temp' = temp \ {i}

\* Mutant: no deferred rollback.
FailOpenTx(i) ==
    /\ job' = [job EXCEPT ![i].at = "done", ![i].reply = "error"]
    /\ disk' = disk \ (job[i].media \cup {File(i, job[i].pos)})
    /\ temp' = temp \ {i}

\* An early return.  The deferred calls roll the transaction back, remove the
\* file being written and the files of createdMedia, and remove the archive.
Fail(i) ==
    /\ job' = [job EXCEPT ![i].at = "done", ![i].tx = {}, ![i].reply = "error"]
    /\ disk' = disk \ (job[i].media \cup {File(i, job[i].pos)})
    /\ temp' = temp \ {i}

-----------------------------------------------------------------------------
(* The handler and the checks on the whole package.                        *)

Upload(i, p) ==
    /\ job[i].at = "idle"
    /\ temp' = temp \cup {i}
    /\ job' = [job EXCEPT ![i].at = "check", ![i].pkg = p]
    /\ UNCHANGED <<items, disk, doubt, faults>>

Check(i) ==
    /\ job[i].at = "check"
    /\ IF job[i].pkg.fits
       THEN job' = [job EXCEPT ![i].at = "extract"] /\ UNCHANGED <<disk, temp>>
       ELSE Fail(i)
    /\ UNCHANGED <<items, doubt, faults>>

-----------------------------------------------------------------------------
(* First pass: media.                                                      *)

\* saveMediaFile creates the file before it looks at the content.
CreateMedia(i) ==
    /\ job[i].at = "extract" /\ More(i)
    /\ Entry(i).kind \in {"media", "mismatch"}
    /\ disk' = disk \cup {File(i, job[i].pos)}
    /\ job' = [job EXCEPT ![i].at = "write"]
    /\ UNCHANGED <<items, temp, doubt, faults>>

WriteMedia(i) ==
    /\ job[i].at = "write"
    /\ IF Entry(i).kind = "media"
       THEN /\ job' = [job EXCEPT ![i].at = "extract", ![i].pos = @ + 1,
                                  ![i].media = @ \cup {File(i, job[i].pos)}]
            /\ UNCHANGED <<disk, temp>>
       ELSE Fail(i)
    /\ UNCHANGED <<items, doubt, faults>>

\* XML is kept for the second pass, other files are ignored.
PassOver(i) ==
    /\ job[i].at = "extract" /\ More(i)
    /\ Entry(i).kind \in {"item", "other", "refused"}
    /\ IF Entry(i).kind = "refused"
       THEN Fail(i)
       ELSE job' = [job EXCEPT ![i].pos = @ + 1] /\ UNCHANGED <<disk, temp>>
    /\ UNCHANGED <<items, doubt, faults>>

Begin(i) ==
    /\ job[i].at = "extract" /\ ~More(i)
    /\ job' = [job EXCEPT ![i].at = "insert", ![i].pos = 1]
    /\ UNCHANGED <<items, disk, temp, doubt, faults>>

-----------------------------------------------------------------------------
(* Second pass: one transaction.                                           *)

Inserting(i) == job[i].at = "insert" /\ More(i) /\ Entry(i).kind = "item"

\* The insert of i waits for the transaction of j.
Waits(i, j) ==
    /\ i # j /\ Inserting(i)
    /\ RowId(i, job[i].pos) \in Ids(job[j].tx)

\* An item whose prompt was rewritten with the URLs of the media files.
NewRow(i) ==
    [id |-> RowId(i, job[i].pos), import |-> i, entry |-> job[i].pos,
     media |-> job[i].media]

\* Mutant: the insert is not part of the transaction.
InsertOutside(i) ==
    /\ Inserting(i)
    /\ IF RowId(i, job[i].pos) \in Ids(items)
       THEN Fail(i) /\ UNCHANGED items
       ELSE /\ items' = items \cup {NewRow(i)}
            /\ job' = [job EXCEPT ![i].tx = @ \cup {NewRow(i)}, ![i].pos = @ + 1]
            /\ UNCHANGED <<disk, temp>>
    /\ UNCHANGED <<doubt, faults>>

\* Mutant: the identifier is looked up among the stored items and no key
\* guards the insert.
InsertLooksUp(i) ==
    /\ Inserting(i)
    /\ IF RowId(i, job[i].pos) \in Ids(items)
       THEN Fail(i)
       ELSE /\ job' = [job EXCEPT ![i].tx = @ \cup {NewRow(i)}, ![i].pos = @ + 1]
            /\ UNCHANGED <<disk, temp>>
    /\ UNCHANGED <<items, doubt, faults>>

\* tx.Create fails on an identifier that is taken, by an earlier import or by
\* an earlier entry of this package.
Insert(i) ==
    /\ Inserting(i)
    /\ \A j \in Import : ~Waits(i, j)
    /\ IF RowId(i, job[i].pos) \in Ids(items \cup job[i].tx)
       THEN Fail(i)
       ELSE /\ job' = [job EXCEPT ![i].tx = @ \cup {NewRow(i)}, ![i].pos = @ + 1]
            /\ UNCHANGED <<disk, temp>>
    /\ UNCHANGED <<items, doubt, faults>>

\* continue: XML that is no item, and everything else.
Skip(i) ==
    /\ job[i].at = "insert" /\ More(i)
    /\ Entry(i).kind # "item"
    /\ job' = [job EXCEPT ![i].pos = @ + 1]
    /\ UNCHANGED <<items, disk, temp, doubt, faults>>

\* External: the database fails an insert that waits in a circle.
BreakDeadlock(i) ==
    /\ \E S \in SUBSET Import :
        /\ i \in S
        /\ \A j \in S : (\E k \in S : Waits(j, k)) /\ (\E k \in S : Waits(k, j))
    /\ Fail(i)
    /\ UNCHANGED <<items, doubt, faults>>

\* Mutant: an import without items succeeds.
CommitEmpty(i) ==
    /\ job[i].at = "insert" /\ ~More(i)
    /\ items' = items \cup job[i].tx
    /\ job' = [job EXCEPT ![i].at = "respond", ![i].tx = {}]
    /\ UNCHANGED <<disk, temp, doubt, faults>>

\* Mutant: committed is never set, so the media files are removed.
CommitUnmarked(i) ==
    /\ job[i].at = "insert" /\ ~More(i) /\ job[i].tx # {}
    /\ items' = items \cup job[i].tx
    /\ job' = [job EXCEPT ![i].at = "respond", ![i].tx = {}]
    /\ disk' = disk \ job[i].media
    /\ UNCHANGED <<temp, doubt, faults>>

Commit(i) ==
    /\ job[i].at = "insert" /\ ~More(i)
    /\ IF job[i].tx = {}
       THEN Fail(i) /\ UNCHANGED items
       ELSE /\ items' = items \cup job[i].tx
            /\ job' = [job EXCEPT ![i].at = "respond", ![i].tx = {}]
            /\ UNCHANGED <<disk, temp>>
    /\ UNCHANGED <<doubt, faults>>

\* The handler removes the archive and answers 201.
Respond(i) ==
    /\ job[i].at = "respond"
    /\ job' = [job EXCEPT ![i].at = "done", ![i].reply = "ok"]
    /\ temp' = temp \ {i}
    /\ UNCHANGED <<items, disk, doubt, faults>>

-----------------------------------------------------------------------------
(* Faults.                                                                 *)

\* A read, a write or a statement fails before the commit.
Abort(i) ==
    /\ faults < MaxFaults
    /\ Running(i) /\ job[i].at # "respond"
    /\ Fail(i)
    /\ faults' = faults + 1
    /\ UNCHANGED <<items, doubt>>

\* An error while an item is read or its options are shuffled is taken for
\* XML that is no item.
ReadFails(i) ==
    /\ faults < MaxFaults
    /\ Inserting(i)
    /\ job' = [job EXCEPT ![i].pos = @ + 1, ![i].skipped = @ \cup {job[i].pos}]
    /\ faults' = faults + 1
    /\ UNCHANGED <<items, disk, temp, doubt>>

\* The commit succeeds and its acknowledgement is lost: an error all the same.
CommitLost(i) ==
    /\ faults < MaxFaults
    /\ job[i].at = "insert" /\ ~More(i) /\ job[i].tx # {}
    /\ items' = items \cup job[i].tx
    /\ doubt' = doubt \cup {i}
    /\ Fail(i)
    /\ faults' = faults + 1

\* The files stay, the transactions do not.
Crash ==
    /\ faults < MaxFaults
    /\ \E i \in Import : Running(i)
    /\ job' = [i \in Import |->
                  IF Running(i) THEN [job[i] EXCEPT !.at = "dead", !.tx = {}] ELSE job[i]]
    /\ faults' = faults + 1
    /\ UNCHANGED <<items, disk, temp, doubt>>

Step(i) ==
    \/ Check(i) \/ CreateMedia(i) \/ WriteMedia(i) \/ PassOver(i) \/ Begin(i)
    \/ Insert(i) \/ Skip(i) \/ BreakDeadlock(i) \/ Commit(i) \/ Respond(i)

Next ==
    \/ Crash
    \/ \E i \in Import :
        \/ \E p \in Package : Upload(i, p)
        \/ Step(i)
        \/ Abort(i) \/ ReadFails(i) \/ CommitLost(i)

Spec == Init /\ [][Next]_vars

\* Goroutines are scheduled; the database answers and breaks deadlocks.
FairSpec == Spec /\ \A i \in Import : WF_vars(Step(i))

-----------------------------------------------------------------------------
(* Properties.                                                             *)

RowsOf(i) == {row \in items : row.import = i}

\* The items that an import should bring in.
Wanted(i) ==
    {RowId(i, k) : k \in {n \in DOMAIN Entries(i) :
                             Entries(i)[n].kind = "item" /\ n \notin job[i].skipped}}

\* A package is imported completely or not at all, whatever fails and whoever
\* imports the same items at the same time: ImportQTIPackage inserts all items
\* that it could read in one transaction.
ImportAtomic ==
    \A i \in Import : RowsOf(i) # {} => Ids(RowsOf(i)) = Wanted(i)

\* The caller learns the truth: 201 means that items were imported, an error
\* that none was, unless the acknowledgement of the commit was lost.
ReplyTruthful ==
    \A i \in Import :
        /\ job[i].reply = "ok" => RowsOf(i) # {}
        /\ job[i].reply = "error" /\ i \notin doubt => RowsOf(i) = {}

\* The media that imported items refer to stay on the disk, whatever other
\* imports fail, unless the acknowledgement of the commit was lost.
MediaOfItemsExist ==
    \A row \in items : row.import \notin doubt => row.media \subseteq disk

\* No failed import leaves media or its archive behind, except one that died
\* with the process.
NoStrayFiles ==
    \A i \in Import : job[i].at = "done" =>
        /\ i \notin temp
        /\ RowsOf(i) = {} => \A f \in disk : f[1] # i

\* However imports of the same items interleave, and also when one package
\* names an item twice, no two stored items share an identifier: deliveries
\* and responses refer to items by it.
IdentifiersUnique == \A r, s \in items : r.id = s.id => r = s

\* Every import is answered or dies with the process: imports that insert the
\* same items in different orders do not block each other for ever.
ImportsFinish == \A i \in Import : Running(i) ~> ~Running(i)
=============================================================================
