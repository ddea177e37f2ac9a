------------------------------- MODULE Budget -------------------------------
(***************************************************************************)
(* The limits of a folder's index in internal/store: the table             *)
(* folder_usage that three triggers keep and a CHECK bounds, its repair by *)
(* Open, checkCapacity before Apply writes a file, the transaction of      *)
(* Scan, and the limits that List applies when it reads the rows back.     *)
(*                                                                         *)
(* The same limits are computed in four places, by increments in one and   *)
(* by sums in the others.  A row is the length of its JSON, 0 for no row.  *)
(***************************************************************************)
EXTENDS Integers, FiniteSets

CONSTANTS
    Folders, Paths,
    MaxLength,         \* bound: JSON of one entry
    MaxEntries,
    MaxManifestBytes,
    MaxCrashes         \* bound: restarts of the daemon

ASSUME BudgetAssumption ==
    /\ IsFiniteSet(Paths)
    /\ MaxLength \in Nat /\ MaxEntries \in Nat /\ MaxCrashes \in Nat
    /\ MaxManifestBytes \in Nat \ {0, 1}

VARIABLES
    opened,    \* Open has returned a Store
    rows,      \* committed rows of the table entries
    usage,     \* committed rows of folder_usage
    tx,        \* what the transaction of Scan sees: rows and usage
    job,       \* who holds Store.mu, and what it is about to write
    refused,   \* ghost: a limit refused rows that had been checked against it
    crashes    \* ghost: restarts so far

vars == <<opened, rows, usage, tx, job, refused, crashes>>

Lengths == 0..MaxLength
Table == [Paths -> Lengths]
Usages == [entries : Int, bytes : Int]
NoUsage == [entries |-> -1, bytes |-> 0]
Nobody == [kind |-> "none"]

Present(t) == {p \in Paths : t[p] > 0}

\* sum(length(entry)+1): a row has its bytes and one to separate it.
Octets(t) == {o \in Paths \X Lengths : t[o[1]] > 0 /\ o[2] <= t[o[1]]}
Bytes(t) == Cardinality(Octets(t))
Usage(t) == [entries |-> Cardinality(Present(t)), bytes |-> Bytes(t)]

\* Variant of Checked: the two bytes around the list are left out.
CheckedList(u) == u.entries \in 0..MaxEntries /\ u.bytes \in 0..MaxManifestBytes

\* CHECK(entries BETWEEN 0 AND ...), CHECK(bytes BETWEEN 0 AND ...)
Checked(u) == u.entries \in 0..MaxEntries /\ u.bytes \in 0..(MaxManifestBytes - 2)

Jobs ==
    {Nobody}
    \cup [kind : {"apply"}, folder : Folders, path : Paths, length : Lengths]
    \cup [kind : {"scan"}, folder : Folders, found : Table, stage : {"walked", "insert"}]

TypeOK ==
    /\ opened \in BOOLEAN /\ refused \in BOOLEAN
    /\ rows \in [Folders -> Table]
    /\ usage \in [Folders -> Usages]
    /\ \A f \in Folders : usage[f] = NoUsage \/ Checked(usage[f])
    /\ job \in Jobs
    /\ crashes \in 0..MaxCrashes

\* A database of an earlier version has rows but neither triggers nor usage.
Init ==
    /\ opened = FALSE
    /\ rows \in [Folders -> Table]
    /\ usage = [f \in Folders |-> NoUsage]
    /\ tx = Nobody
    /\ job = Nobody
    /\ refused = FALSE
    /\ crashes = 0

----------------------------------------------------------------------------
(* The triggers.                                                           *)

\* entries_insert: a first row of the folder or one more.
AfterInsert(u, n) ==
    IF u = NoUsage THEN [entries |-> 1, bytes |-> n + 1]
    ELSE [entries |-> u.entries + 1, bytes |-> u.bytes + n + 1]

\* Variant of AfterUpdate that adds the new length only.
AfterUpdateAdds(u, old, new) == [u EXCEPT !.bytes = @ + new]

\* entries_update; without a usage row it updates nothing.
AfterUpdate(u, old, new) == IF u = NoUsage THEN u ELSE [u EXCEPT !.bytes = @ + new - old]

\* entries_delete for every row of a folder.
AfterDelete(u, t) ==
    IF u = NoUsage THEN u
    ELSE [u EXCEPT !.entries = @ - Cardinality(Present(t)), !.bytes = @ - Bytes(t)]

----------------------------------------------------------------------------
(* Open and Close.                                                         *)

\* The usage Open recomputes for the folders that have rows.
Repaired(f) == IF Present(rows[f]) = {} THEN usage[f] ELSE Usage(rows[f])

Open ==
    /\ ~opened
    /\ \A f \in Folders : Present(rows[f]) # {} => Checked(Repaired(f))
    /\ opened' = TRUE
    /\ usage' = [f \in Folders |-> Repaired(f)]
    /\ UNCHANGED <<rows, tx, job, refused, crashes>>

\* Rows over the limit: the statement fails and Open with it.
OpenFails ==
    /\ ~opened
    /\ \E f \in Folders : Present(rows[f]) # {} /\ ~Checked(Repaired(f))
    /\ UNCHANGED vars

\* The process ends wherever it is; an open transaction is rolled back.
Crash ==
    /\ opened /\ crashes < MaxCrashes
    /\ crashes' = crashes + 1
    /\ opened' = FALSE /\ tx' = Nobody /\ job' = Nobody
    /\ UNCHANGED <<rows, usage, refused>>

----------------------------------------------------------------------------
(* Apply.                                                                  *)

Known(f) == IF usage[f] = NoUsage THEN [entries |-> 0, bytes |-> 0] ELSE usage[f]

\* Variant of HasRoom that counts the entry as new.
HasRoomNew(f, p, n) ==
    /\ Known(f).entries + 1 <= MaxEntries
    /\ Known(f).bytes + n <= MaxManifestBytes - 2

\* checkCapacity
HasRoom(f, p, n) ==
    /\ Known(f).entries + 1 - (IF rows[f][p] > 0 THEN 1 ELSE 0) <= MaxEntries
    /\ Known(f).bytes + n + 1 - (IF rows[f][p] > 0 THEN rows[f][p] + 1 ELSE 0)
           <= MaxManifestBytes - 2

\* Apply takes the mutex and finds room; otherwise it returns at once.
ApplyCheck(f, p, n) ==
    /\ opened /\ job = Nobody
    /\ HasRoom(f, p, n)
    /\ job' = [kind |-> "apply", folder |-> f, path |-> p, length |-> n]
    /\ UNCHANGED <<opened, rows, usage, tx, refused, crashes>>

\* s.put: INSERT ... ON CONFLICT DO UPDATE, with the trigger of its kind.
ApplyPut ==
    /\ job.kind = "apply"
    /\ LET old == rows[job.folder][job.path]
           new == IF old > 0 THEN AfterUpdate(usage[job.folder], old, job.length)
                  ELSE AfterInsert(usage[job.folder], job.length)
       IN  IF Checked(new)
             THEN /\ rows' = [rows EXCEPT ![job.folder][job.path] = job.length]
                  /\ usage' = [usage EXCEPT ![job.folder] = new]
                  /\ UNCHANGED refused
             ELSE refused' = TRUE /\ UNCHANGED <<rows, usage>>
    /\ job' = Nobody
    /\ UNCHANGED <<opened, tx, crashes>>

\* Apply returns before its put: a failed fetch, a local change, ...
ApplyFails ==
    /\ job.kind = "apply"
    /\ job' = Nobody
    /\ UNCHANGED <<opened, rows, usage, tx, refused, crashes>>

----------------------------------------------------------------------------
(* Scan.                                                                   *)

Fits(t) == Cardinality(Present(t)) <= MaxEntries /\ Bytes(t) <= MaxManifestBytes - 2

\* The walk, with its own count of entries and bytes.
ScanWalk(f, t) ==
    /\ opened /\ job = Nobody
    /\ Fits(t)
    /\ job' = [kind |-> "scan", folder |-> f, found |-> t, stage |-> "walked"]
    /\ UNCHANGED <<opened, rows, usage, tx, refused, crashes>>

\* BeginTx and DELETE FROM entries WHERE folder=?
ScanDelete ==
    /\ job.kind = "scan" /\ job.stage = "walked"
    /\ LET new == AfterDelete(usage[job.folder], rows[job.folder]) IN
        IF new = NoUsage \/ Checked(new)
          THEN /\ tx' = [rows |-> [p \in Paths |-> 0], usage |-> new]
               /\ job' = [job EXCEPT !.stage = "insert"]
               /\ UNCHANGED refused
          ELSE refused' = TRUE /\ job' = Nobody /\ UNCHANGED tx
    /\ UNCHANGED <<opened, rows, usage, crashes>>

\* The prepared INSERT for the next entry; a refusal rolls back.
ScanInsert(p) ==
    /\ job.kind = "scan" /\ job.stage = "insert"
    /\ job.found[p] > 0 /\ tx.rows[p] = 0
    /\ LET new == AfterInsert(tx.usage, job.found[p]) IN
        IF Checked(new)
          THEN tx' = [rows |-> [tx.rows EXCEPT ![p] = job.found[p]], usage |-> new]
               /\ UNCHANGED <<refused, job>>
          ELSE refused' = TRUE /\ job' = Nobody /\ tx' = Nobody
    /\ UNCHANGED <<opened, rows, usage, crashes>>

\* tx.Commit()
ScanCommit ==
    /\ job.kind = "scan" /\ job.stage = "insert"
    /\ tx.rows = job.found
    /\ rows' = [rows EXCEPT ![job.folder] = tx.rows]
    /\ usage' = [usage EXCEPT ![job.folder] = tx.usage]
    /\ tx' = Nobody /\ job' = Nobody
    /\ UNCHANGED <<opened, refused, crashes>>

\* The context ends or a statement fails: the deferred Rollback.
ScanFails ==
    /\ job.kind = "scan"
    /\ tx' = Nobody /\ job' = Nobody
    /\ UNCHANGED <<opened, rows, usage, refused, crashes>>

----------------------------------------------------------------------------
Next ==
    \/ Open \/ OpenFails \/ Crash \/ ApplyPut \/ ApplyFails
    \/ \E f \in Folders, p \in Paths, n \in Lengths \ {0} : ApplyCheck(f, p, n)
    \/ \E f \in Folders, t \in Table : ScanWalk(f, t)
    \/ ScanDelete \/ (\E p \in Paths : ScanInsert(p)) \/ ScanCommit \/ ScanFails

Spec == Init /\ [][Next]_vars

----------------------------------------------------------------------------
(* Properties.                                                             *)

AddsUp(u, t) == u = Usage(t) \/ (u = NoUsage /\ Present(t) = {})

\* Only a database that no version with triggers has opened has rows without
\* usage.
UsageInv == \A f \in Folders : AddsUp(usage[f], rows[f]) \/ (~opened /\ usage[f] = NoUsage)

\* The transaction of Scan holds some of the rows it will commit.
TxInv ==
    /\ tx = Nobody \/ (job.kind = "scan" /\ job.stage = "insert")
    /\ (job.kind = "scan" /\ job.stage = "insert") =>
           /\ tx \in [rows : Table, usage : Usages]
           /\ \A p \in Paths : tx.rows[p] \in {0, job.found[p]}
           /\ AddsUp(tx.usage, tx.rows)

\* What was checked when the mutex was taken stays true while it is held.
JobInv ==
    /\ job.kind # "none" => opened
    /\ job.kind = "apply" => job.length > 0 /\ HasRoom(job.folder, job.path, job.length)
    /\ job.kind = "scan" => Fits(job.found)

\* What the triggers have added up is what the rows add up to, after any
\* sequence of replacements, scans, rollbacks and restarts, and inside a
\* transaction of Scan after every statement.
BudgetInv == TypeOK /\ UsageInv /\ TxInv /\ JobInv

\* "A constant-time budget check runs before creating a destination file.
\* SQLite triggers enforce the same limits": a file that was installed after
\* the check, or a tree that was walked within the limits, is never refused
\* its rows afterwards.
NeverRefusedLate == ~refused

\* The index of an open store can always be read back: Store.List, which adds
\* up the rows with limits of its own, accepts every index that was committed.
ListAccepts ==
    opened => \A f \in Folders :
        /\ Cardinality(Present(rows[f])) <= MaxEntries
        /\ 2 + Bytes(rows[f]) <= MaxManifestBytes
============================================================================
