--------------------------- MODULE BudgetProofs ----------------------------
(***************************************************************************)
(* Proofs about Budget: usage adds up to the rows, so what was checked     *)
(* against the limits is never refused and can always be listed.           *)
(***************************************************************************)
EXTENDS Budget, FiniteSetTheorems, TLAPS

Rest(t, p) == {o \in Octets(t) : o[1] # p}
Own(p, n) == {p} \X (0..n)

\* A folder has finitely many rows.
LEMMA PresentFinite ==
  ASSUME NEW t \in Table
  PROVE  IsFiniteSet(Present(t)) /\ Cardinality(Present(t)) \in Nat
<1>1. Present(t) \in SUBSET Paths
  BY DEF Present
<1>2. QED
  BY <1>1, BudgetAssumption, FS_Subset, FS_CardinalityType

\* The octets of its rows are finitely many, so Bytes is a number.
LEMMA OctetsFinite ==
  ASSUME NEW t \in Table
  PROVE  IsFiniteSet(Octets(t)) /\ Bytes(t) \in Nat
<1>1. IsFiniteSet(Lengths)
  BY BudgetAssumption, FS_Interval DEF Lengths
<1>2. IsFiniteSet(Paths \X Lengths)
  BY <1>1, BudgetAssumption, FS_Product
<1>3. Octets(t) \in SUBSET (Paths \X Lengths)
  BY DEF Octets
<1>4. QED
  BY <1>2, <1>3, FS_Subset, FS_CardinalityType DEF Bytes

\* The bytes of one row, with the one that separates it.
LEMMA OwnSize ==
  ASSUME NEW p, NEW n \in Nat
  PROVE  IsFiniteSet(Own(p, n)) /\ Cardinality(Own(p, n)) = n + 1
<1>1. IsFiniteSet({p}) /\ Cardinality({p}) = 1
  BY FS_Singleton
<1>2. IsFiniteSet(0..n) /\ Cardinality(0..n) = n + 1
  BY FS_Interval
<1>3. IsFiniteSet(Own(p, n)) /\ Cardinality(Own(p, n)) = Cardinality({p}) * Cardinality(0..n)
  BY <1>1, <1>2, FS_Product DEF Own
<1>4. QED
  BY <1>1, <1>2, <1>3

\* The bytes of a table are those of one path and those of all others.
LEMMA Split ==
  ASSUME NEW t \in Table, NEW p \in Paths
  PROVE  /\ IsFiniteSet(Rest(t, p)) /\ Cardinality(Rest(t, p)) \in Nat
         /\ Bytes(t) = Cardinality(Rest(t, p)) + (IF t[p] > 0 THEN t[p] + 1 ELSE 0)
<1>1. IsFiniteSet(Rest(t, p)) /\ Cardinality(Rest(t, p)) \in Nat
  <2>1. Rest(t, p) \in SUBSET Octets(t)
    BY DEF Rest
  <2>2. QED
    BY <2>1, OctetsFinite, FS_Subset, FS_CardinalityType
<1>2. t[p] \in Nat /\ t[p] <= MaxLength
  BY BudgetAssumption DEF Table, Lengths
<1>3. CASE t[p] > 0
  <2>1. Octets(t) = Rest(t, p) \cup Own(p, t[p])
    <3>1. ASSUME NEW o \in Octets(t) PROVE o \in Rest(t, p) \cup Own(p, t[p])
      BY <3>1, <1>2, BudgetAssumption DEF Octets, Rest, Own, Lengths
    <3>2. ASSUME NEW o \in Own(p, t[p]) PROVE o \in Octets(t)
      BY <3>2, <1>2, <1>3, BudgetAssumption DEF Octets, Own, Lengths
    <3>3. QED
      BY <3>1, <3>2 DEF Rest
  <2>2. Rest(t, p) \cap Own(p, t[p]) = {}
    BY DEF Rest, Own
  <2>3. Cardinality(Octets(t)) = Cardinality(Rest(t, p)) + Cardinality(Own(p, t[p])) - 0
    BY <1>1, <1>2, <2>1, <2>2, OwnSize, FS_Union, FS_EmptySet
  <2>4. QED
    BY <1>1, <1>2, <1>3, <2>3, OwnSize DEF Bytes
<1>4. CASE ~(t[p] > 0)
  <2>1. Octets(t) = Rest(t, p)
    BY <1>4 DEF Octets, Rest
  <2>2. QED
    BY <1>1, <1>4, <2>1 DEF Bytes
<1>5. QED
  BY <1>1, <1>3, <1>4

\* What one row more, or another row, makes of entries and bytes.
LEMMA PutAdds ==
  ASSUME NEW t \in Table, NEW p \in Paths, NEW n \in Lengths, n > 0
  PROVE  LET u == [t EXCEPT ![p] = n]
         IN  /\ u \in Table
             /\ Cardinality(Present(u)) =
                    Cardinality(Present(t)) + (IF t[p] > 0 THEN 0 ELSE 1)
             /\ Bytes(u) = Bytes(t) + n + 1 - (IF t[p] > 0 THEN t[p] + 1 ELSE 0)
<1>. DEFINE u == [t EXCEPT ![p] = n]
<1>0. n \in Nat /\ t[p] \in Nat
  BY BudgetAssumption DEF Table, Lengths
<1>1. u \in Table /\ u[p] = n /\ \A q \in Paths : q # p => u[q] = t[q]
  BY DEF Table
<1>2. Rest(u, p) = Rest(t, p)
  BY <1>1 DEF Rest, Octets
<1>3. Bytes(u) = Bytes(t) + n + 1 - (IF t[p] > 0 THEN t[p] + 1 ELSE 0)
  <2>1. Bytes(u) = Cardinality(Rest(t, p)) + (n + 1)
    BY <1>1, <1>2, Split
  <2>2. /\ Bytes(t) = Cardinality(Rest(t, p)) + (IF t[p] > 0 THEN t[p] + 1 ELSE 0)
        /\ Cardinality(Rest(t, p)) \in Nat
    BY Split
  <2>3. QED
    BY <1>0, <2>1, <2>2
<1>4. Present(u) = Present(t) \cup {p}
  BY <1>1 DEF Present
<1>5. Cardinality(Present(u)) = Cardinality(Present(t)) + (IF t[p] > 0 THEN 0 ELSE 1)
  <2>1. CASE t[p] > 0
    BY <1>4, <2>1, PresentFinite DEF Present
  <2>2. CASE ~(t[p] > 0)
    <3>1. p \notin Present(t)
      BY <2>2 DEF Present
    <3>2. QED
      BY <1>4, <2>2, <3>1, PresentFinite, FS_AddElement
  <2>3. QED
    BY <2>1, <2>2
<1>6. QED
  BY <1>1, <1>3, <1>5

\* A table with fewer rows, all of them rows of t, fits where t fits.
LEMMA FewerFit ==
  ASSUME NEW t \in Table, NEW u \in Table, \A p \in Paths : u[p] \in {0, t[p]}, Fits(t)
  PROVE  Fits(u)
<1>1. Present(u) \in SUBSET Present(t)
  BY DEF Present
<1>2. Octets(u) \in SUBSET Octets(t)
  BY BudgetAssumption DEF Octets, Table, Lengths
<1>3. Cardinality(Present(u)) <= Cardinality(Present(t))
  BY <1>1, PresentFinite, FS_Subset
<1>4. Bytes(u) <= Bytes(t)
  BY <1>2, OctetsFinite, FS_Subset DEF Bytes
<1>5. QED
  BY <1>3, <1>4, PresentFinite, OctetsFinite, BudgetAssumption DEF Fits

\* A folder without rows uses nothing.
LEMMA EmptyTable ==
  ASSUME NEW t \in Table, Present(t) = {}
  PROVE  /\ Usage(t) = [entries |-> 0, bytes |-> 0] /\ Fits(t)
         /\ Cardinality(Present(t)) = 0 /\ Bytes(t) = 0
<1>1. Octets(t) = {}
  BY DEF Octets, Present
<1>2. Cardinality(Present(t)) = 0 /\ Bytes(t) = 0
  BY <1>1, FS_EmptySet DEF Bytes
<1>3. QED
  BY <1>2, BudgetAssumption DEF Usage, Fits

\* The usage of a table can be written to folder_usage.
LEMMA UsageType ==
  ASSUME NEW t \in Table
  PROVE  /\ Usage(t) \in Usages /\ Usage(t) # NoUsage
         /\ Checked(Usage(t)) <=> Fits(t)
         /\ Usage(t).entries = Cardinality(Present(t)) /\ Usage(t).bytes = Bytes(t)
<1>1. Cardinality(Present(t)) \in Nat /\ Bytes(t) \in Nat
  BY PresentFinite, OctetsFinite
<1>2. Usage(t).entries = Cardinality(Present(t)) /\ Usage(t).bytes = Bytes(t)
  BY DEF Usage
<1>3. NoUsage.entries = -1
  BY DEF NoUsage
<1>4. Usage(t) \in Usages
  BY <1>1 DEF Usage, Usages
<1>5. QED
  BY <1>1, <1>2, <1>3, <1>4, BudgetAssumption DEF Checked, Fits

\* What adds up to a table adds up to the next one after an insert.
LEMMA InsertAddsUp ==
  ASSUME NEW t \in Table, NEW p \in Paths, NEW n \in Lengths, n > 0, t[p] = 0,
         NEW u \in Usages, AddsUp(u, t)
  PROVE  AfterInsert(u, n) = Usage([t EXCEPT ![p] = n])
<1>. DEFINE v == [t EXCEPT ![p] = n]
<1>0. n \in Nat
  BY BudgetAssumption DEF Lengths
<1>1. /\ Cardinality(Present(v)) = Cardinality(Present(t)) + 1
      /\ Bytes(v) = Bytes(t) + n + 1
  BY <1>0, PutAdds, OctetsFinite
<1>2. CASE u = Usage(t)
  <2>1. u # NoUsage /\ u.entries = Cardinality(Present(t)) /\ u.bytes = Bytes(t)
    BY <1>2, UsageType
  <2>2. QED
    BY <1>1, <2>1 DEF AfterInsert, Usage
<1>3. CASE u = NoUsage /\ Present(t) = {}
  <2>1. Cardinality(Present(t)) = 0 /\ Bytes(t) = 0
    BY <1>3, EmptyTable
  <2>2. Cardinality(Present(v)) = 1 /\ Bytes(v) = n + 1
    BY <1>0, <1>1, <2>1
  <2>3. QED
    BY <1>3, <2>2 DEF AfterInsert, Usage
<1>4. QED
  BY <1>2, <1>3 DEF AddsUp

\* And after an update.
LEMMA UpdateAddsUp ==
  ASSUME NEW t \in Table, NEW p \in Paths, NEW n \in Lengths, n > 0, t[p] > 0,
         NEW u \in Usages, AddsUp(u, t)
  PROVE  AfterUpdate(u, t[p], n) = Usage([t EXCEPT ![p] = n])
<1>. DEFINE v == [t EXCEPT ![p] = n]
<1>0. n \in Nat /\ t[p] \in Nat
  BY BudgetAssumption DEF Lengths, Table
<1>1. p \in Present(t)
  BY DEF Present
<1>2. u = Usage(t)
  BY <1>1 DEF AddsUp
<1>3. u # NoUsage /\ u.entries = Cardinality(Present(t)) /\ u.bytes = Bytes(t)
  BY <1>2, UsageType
<1>4. /\ Cardinality(Present(v)) = Cardinality(Present(t))
      /\ Bytes(v) = Bytes(t) + n - t[p]
  BY <1>0, PutAdds, OctetsFinite, PresentFinite
<1>5. AfterUpdate(u, t[p], n) = [u EXCEPT !.bytes = @ + n - t[p]]
  BY <1>3 DEF AfterUpdate
<1>6. QED
  BY <1>2, <1>3, <1>4, <1>5 DEF Usage

----------------------------------------------------------------------------
(* The steps.                                                              *)

Inv == BudgetInv /\ NeverRefusedLate

\* A database without rows, before its first Open.
LEMMA InvInit == Init => Inv
<1>. SUFFICES ASSUME Init PROVE Inv
  OBVIOUS
<1>1. job.kind = "none"
  BY DEF Init, Nobody
<1>2. TypeOK
  <2>1. crashes \in 0..MaxCrashes /\ NoUsage \in Usages
    BY BudgetAssumption DEF Init, NoUsage, Usages
  <2>2. QED
    BY <2>1 DEF Init, TypeOK, Jobs
<1>3. UsageInv
  BY DEF Init, UsageInv
<1>4. TxInv /\ JobInv
  BY <1>1 DEF Init, TxInv, JobInv
<1>5. QED
  BY <1>2, <1>3, <1>4 DEF Init, Inv, BudgetInv, NeverRefusedLate

\* The fields of a job are those of its kind.
LEMMA JobType ==
  ASSUME TypeOK
  PROVE  /\ job.kind = "none" <=> job = Nobody
         /\ job.kind = "apply" =>
                job.folder \in Folders /\ job.path \in Paths /\ job.length \in Lengths
         /\ job.kind = "scan" =>
                /\ job \in [kind : {"scan"}, folder : Folders, found : Table,
                            stage : {"walked", "insert"}]
                /\ job.folder \in Folders /\ job.found \in Table
                /\ job.stage \in {"walked", "insert"}
BY DEF TypeOK, Jobs, Nobody

\* Open: the usage of every folder with rows is counted again.
LEMMA OpenStep ==
  ASSUME Inv, Open PROVE Inv'
<1>. USE DEF Inv, BudgetInv
<1>1. /\ rows \in [Folders -> Table] /\ usage \in [Folders -> Usages]
      /\ usage' = [f \in Folders |-> Repaired(f)]
  BY DEF TypeOK, Open
<1>2. ASSUME NEW f \in Folders
      PROVE  /\ Repaired(f) \in Usages
             /\ Repaired(f) = NoUsage \/ Checked(Repaired(f))
             /\ AddsUp(Repaired(f), rows[f])
  <2>1. CASE Present(rows[f]) = {}
    BY <1>1, <2>1 DEF Repaired, TypeOK, UsageInv, AddsUp
  <2>2. CASE Present(rows[f]) # {}
    BY <1>1, <2>2, UsageType DEF Repaired, AddsUp, Open
  <2>3. QED
    BY <2>1, <2>2
<1>3. TypeOK'
  BY <1>1, <1>2 DEF TypeOK, Open, Checked
<1>4. UsageInv'
  BY <1>1, <1>2 DEF UsageInv, Open, AddsUp, Usage
<1>5. TxInv' /\ JobInv'
  <2>1. job.kind = "none"
    BY DEF JobInv, Open
  <2>2. QED
    BY <2>1 DEF TxInv, JobInv, Open
<1>6. QED
  BY <1>3, <1>4, <1>5 DEF NeverRefusedLate, Open

\* A crash rolls back the open transaction.
LEMMA CrashStep ==
  ASSUME Inv, Crash PROVE Inv'
<1>. USE DEF Inv, BudgetInv
<1>0. job' = Nobody /\ job'.kind = "none"
  BY DEF Crash, Nobody
<1>1. TypeOK'
  <2>1. crashes' \in 0..MaxCrashes
    BY BudgetAssumption DEF TypeOK, Crash
  <2>2. QED
    BY <2>1 DEF TypeOK, Crash, Jobs
<1>2. UsageInv'
  <2>1. ASSUME NEW f \in Folders PROVE AddsUp(usage[f], rows[f])
    BY DEF UsageInv, Crash
  <2>2. QED
    BY <2>1 DEF UsageInv, Crash, AddsUp
<1>3. TxInv' /\ JobInv'
  BY <1>0 DEF TxInv, JobInv, Crash
<1>4. QED
  BY <1>1, <1>2, <1>3 DEF NeverRefusedLate, Crash

\* A step that gives the mutex up and writes nothing.
LEMMA GiveUp ==
  ASSUME Inv, job' = Nobody, tx' = Nobody, UNCHANGED <<opened, rows, usage, refused, crashes>>
  PROVE  Inv'
<1>. USE DEF Inv, BudgetInv
<1>0. job'.kind = "none"
  BY DEF Nobody
<1>1. TypeOK'
  BY DEF TypeOK, Jobs
<1>2. UsageInv'
  BY DEF UsageInv, AddsUp
<1>3. TxInv' /\ JobInv'
  BY <1>0 DEF TxInv, JobInv
<1>4. QED
  BY <1>1, <1>2, <1>3 DEF NeverRefusedLate

\* Apply finds room for its row: the put will not be refused.
LEMMA ApplyCheckStep ==
  ASSUME Inv, NEW f \in Folders, NEW p \in Paths, NEW n \in Lengths \ {0}, ApplyCheck(f, p, n)
  PROVE  Inv'
<1>. USE DEF Inv, BudgetInv
<1>0. /\ job' = [kind |-> "apply", folder |-> f, path |-> p, length |-> n]
      /\ job'.kind = "apply" /\ job'.folder = f /\ job'.path = p /\ job'.length = n
  BY DEF ApplyCheck
<1>1. TypeOK'
  BY <1>0 DEF TypeOK, Jobs, ApplyCheck
<1>2. UsageInv'
  BY DEF UsageInv, AddsUp, ApplyCheck
<1>3. TxInv'
  <2>1. tx = Nobody
    BY DEF TxInv, ApplyCheck, Nobody
  <2>2. QED
    BY <1>0, <2>1 DEF TxInv, ApplyCheck
<1>4. JobInv'
  <2>1. n > 0
    BY BudgetAssumption DEF Lengths
  <2>2. HasRoom(f, p, n)'
    BY DEF ApplyCheck, HasRoom, Known
  <2>3. QED
    BY <1>0, <2>1, <2>2 DEF JobInv, ApplyCheck
<1>5. QED
  BY <1>1, <1>2, <1>3, <1>4 DEF NeverRefusedLate, ApplyCheck

\* The row that checkCapacity found room for passes the CHECK of its trigger.
LEMMA ApplyPutStep ==
  ASSUME Inv, ApplyPut PROVE Inv'
<1>. USE DEF Inv, BudgetInv
<1>. DEFINE f == job.folder
            p == job.path
            n == job.length
            t == rows[f]
            v == [t EXCEPT ![p] = n]
            new == IF t[p] > 0 THEN AfterUpdate(usage[f], t[p], n) ELSE AfterInsert(usage[f], n)
<1>1. /\ f \in Folders /\ p \in Paths /\ n \in Lengths /\ n > 0
      /\ opened /\ HasRoom(f, p, n)
  BY JobType DEF ApplyPut, JobInv
<1>2. t \in Table /\ usage[f] \in Usages /\ AddsUp(usage[f], t) /\ n \in Nat /\ t[p] \in Nat
  BY <1>1, BudgetAssumption DEF TypeOK, UsageInv, Table, Lengths
<1>3. new = Usage(v)
  BY <1>1, <1>2, InsertAddsUp, UpdateAddsUp
<1>4. Known(f).entries = Cardinality(Present(t)) /\ Known(f).bytes = Bytes(t)
  <2>1. CASE usage[f] = NoUsage
    <3>1. Present(t) = {}
      BY <1>2, <2>1, UsageType DEF AddsUp
    <3>2. Cardinality(Present(t)) = 0 /\ Bytes(t) = 0
      BY <1>2, <3>1, EmptyTable
    <3>3. QED
      BY <2>1, <3>2 DEF Known
  <2>2. CASE usage[f] # NoUsage
    BY <1>2, <2>2, UsageType DEF Known, AddsUp
  <2>3. QED
    BY <2>1, <2>2
<1>5. /\ v \in Table
      /\ Cardinality(Present(v)) = Cardinality(Present(t)) + (IF t[p] > 0 THEN 0 ELSE 1)
      /\ Bytes(v) = Bytes(t) + n + 1 - (IF t[p] > 0 THEN t[p] + 1 ELSE 0)
  BY <1>1, <1>2, PutAdds
<1>6. Fits(v)
  BY <1>1, <1>2, <1>4, <1>5, PresentFinite, OctetsFinite, BudgetAssumption DEF HasRoom, Fits
<1>7. Checked(new) /\ new \in Usages
  BY <1>3, <1>5, <1>6, UsageType
<1>8. /\ rows' = [rows EXCEPT ![f] = v]
      /\ usage' = [usage EXCEPT ![f] = new]
      /\ UNCHANGED <<refused, opened, tx, crashes>>
      /\ job' = Nobody
  BY <1>7 DEF ApplyPut
<1>. HIDE DEF f, p, n, t, v, new
<1>9. job'.kind = "none" /\ tx = Nobody
  BY <1>8 DEF Nobody, TxInv, ApplyPut
<1>10. TypeOK'
  BY <1>1, <1>5, <1>7, <1>8 DEF TypeOK, Jobs, Checked
<1>11. UsageInv'
  <2>1. ASSUME NEW g \in Folders PROVE AddsUp(usage'[g], rows'[g])
    <3>1. CASE g = f
      BY <1>1, <1>3, <1>8, <3>1 DEF AddsUp, TypeOK
    <3>2. CASE g # f
      BY <1>1, <1>8, <3>2 DEF AddsUp, TypeOK, UsageInv
    <3>3. QED
      BY <3>1, <3>2
  <2>2. QED
    BY <2>1 DEF UsageInv, AddsUp
<1>12. TxInv' /\ JobInv'
  BY <1>8, <1>9 DEF TxInv, JobInv
<1>13. QED
  BY <1>8, <1>10, <1>11, <1>12 DEF NeverRefusedLate

\* The walk of Scan: what it found fits.
LEMMA ScanWalkStep ==
  ASSUME Inv, NEW f \in Folders, NEW t \in Table, ScanWalk(f, t)
  PROVE  Inv'
<1>. USE DEF Inv, BudgetInv
<1>0. /\ job' = [kind |-> "scan", folder |-> f, found |-> t, stage |-> "walked"]
      /\ job'.kind = "scan" /\ job'.found = t /\ job'.stage = "walked"
  BY DEF ScanWalk
<1>1. TypeOK'
  BY <1>0 DEF TypeOK, Jobs, ScanWalk
<1>2. UsageInv'
  BY DEF UsageInv, AddsUp, ScanWalk
<1>3. TxInv'
  <2>1. tx = Nobody
    BY DEF TxInv, ScanWalk, Nobody
  <2>2. QED
    BY <1>0, <2>1 DEF TxInv, ScanWalk
<1>4. JobInv'
  BY <1>0 DEF JobInv, ScanWalk
<1>5. QED
  BY <1>1, <1>2, <1>3, <1>4 DEF NeverRefusedLate, ScanWalk

\* Deleting all rows leaves nothing, counted or not.
LEMMA ScanDeleteStep ==
  ASSUME Inv, ScanDelete PROVE Inv'
<1>. USE DEF Inv, BudgetInv
<1>. DEFINE f == job.folder
            new == AfterDelete(usage[f], rows[f])
            none == [p \in Paths |-> 0]
<1>1. /\ job \in [kind : {"scan"}, folder : Folders, found : Table, stage : {"walked", "insert"}]
      /\ f \in Folders /\ opened /\ Fits(job.found) /\ job.found \in Table
  BY JobType DEF ScanDelete, JobInv
<1>2. rows[f] \in Table /\ usage[f] \in Usages /\ AddsUp(usage[f], rows[f])
  BY <1>1 DEF TypeOK, UsageInv
<1>3. none \in Table /\ Present(none) = {}
  BY BudgetAssumption DEF Table, Lengths, Present
<1>4. Usage(none) = [entries |-> 0, bytes |-> 0] /\ Fits(none)
  BY <1>3, EmptyTable
<1>5. (new = NoUsage \/ Checked(new)) /\ AddsUp(new, none) /\ new \in Usages
  <2>1. CASE usage[f] = NoUsage
    BY <1>2, <1>3, <2>1 DEF AfterDelete, AddsUp
  <2>2. CASE usage[f] # NoUsage
    <3>1. /\ usage[f] = Usage(rows[f])
          /\ usage[f].entries = Cardinality(Present(rows[f])) /\ usage[f].bytes = Bytes(rows[f])
          /\ usage[f].entries \in Nat /\ usage[f].bytes \in Nat
      BY <1>2, <2>2, UsageType, PresentFinite, OctetsFinite DEF AddsUp
    <3>2. new = [entries |-> 0, bytes |-> 0]
      <4>1. new = [usage[f] EXCEPT !.entries = @ - Cardinality(Present(rows[f])),
                                    !.bytes = @ - Bytes(rows[f])]
        BY <2>2 DEF AfterDelete
      <4>2. new = [entries |-> usage[f].entries - Cardinality(Present(rows[f])),
                   bytes |-> usage[f].bytes - Bytes(rows[f])]
        BY <1>2, <4>1 DEF Usages
      <4>3. /\ usage[f].entries - Cardinality(Present(rows[f])) = 0
            /\ usage[f].bytes - Bytes(rows[f]) = 0
        BY <3>1
      <4>4. QED
        BY <4>2, <4>3
    <3>3. new = Usage(none)
      BY <1>4, <3>2
    <3>4. QED
      BY <1>3, <1>4, <3>3, UsageType DEF AddsUp
  <2>3. QED
    BY <2>1, <2>2
<1>6. /\ tx' = [rows |-> none, usage |-> new]
      /\ job' = [job EXCEPT !.stage = "insert"]
      /\ UNCHANGED <<refused, opened, rows, usage, crashes>>
  BY <1>5 DEF ScanDelete
<1>. HIDE DEF f, new
<1>7. /\ job'.kind = "scan" /\ job'.found = job.found /\ job'.stage = "insert"
      /\ job' \in [kind : {"scan"}, folder : Folders, found : Table, stage : {"walked", "insert"}]
  BY <1>1, <1>6
<1>8. TypeOK'
  BY <1>6, <1>7 DEF TypeOK, Jobs
<1>9. UsageInv'
  BY <1>6 DEF UsageInv, AddsUp
<1>10. TxInv'
  <2>1. tx'.rows = none /\ tx'.usage = new /\ tx' \in [rows : Table, usage : Usages]
    BY <1>3, <1>5, <1>6
  <2>2. \A p \in Paths : tx'.rows[p] \in {0, job'.found[p]}
    BY <2>1
  <2>3. AddsUp(tx.usage, tx.rows)'
    BY <1>5, <2>1 DEF AddsUp
  <2>4. QED
    BY <1>7, <2>1, <2>2, <2>3 DEF TxInv
<1>11. JobInv'
  BY <1>1, <1>6, <1>7 DEF JobInv
<1>12. QED
  BY <1>6, <1>8, <1>9, <1>10, <1>11 DEF NeverRefusedLate

\* A row of a tree that was walked within the limits passes the CHECK,
\* whatever the rows before it.
LEMMA ScanInsertStep ==
  ASSUME Inv, NEW p \in Paths, ScanInsert(p) PROVE Inv'
<1>. USE DEF Inv, BudgetInv
<1>. DEFINE n == job.found[p]
            t == tx.rows
            v == [t EXCEPT ![p] = n]
            new == AfterInsert(tx.usage, n)
<1>1. /\ job.kind = "scan" /\ job.stage = "insert"
      /\ opened /\ Fits(job.found) /\ job.found \in Table
      /\ n > 0 /\ t[p] = 0
  BY JobType DEF ScanInsert, JobInv
<1>2. /\ t \in Table /\ tx.usage \in Usages /\ AddsUp(tx.usage, t)
      /\ \A q \in Paths : t[q] \in {0, job.found[q]}
  BY <1>1 DEF TxInv
<1>3. n \in Lengths
  BY <1>1 DEF Table
<1>4. new = Usage(v)
  BY <1>1, <1>2, <1>3, InsertAddsUp
<1>5. v \in Table /\ \A q \in Paths : v[q] \in {0, job.found[q]}
  BY <1>2, <1>3 DEF Table
<1>6. Checked(new) /\ new \in Usages
  BY <1>1, <1>4, <1>5, FewerFit, UsageType
<1>7. /\ tx' = [rows |-> v, usage |-> new]
      /\ UNCHANGED <<refused, job, opened, rows, usage, crashes>>
  BY <1>6 DEF ScanInsert
<1>. HIDE DEF n, t, v, new
<1>8. TypeOK' /\ UsageInv' /\ JobInv'
  <2>1. TypeOK'
    BY <1>7 DEF TypeOK
  <2>2. UsageInv'
    BY <1>7 DEF UsageInv, AddsUp
  <2>3. JobInv'
    BY <1>7 DEF JobInv, HasRoom, Known
  <2>4. QED
    BY <2>1, <2>2, <2>3
<1>9. TxInv'
  <2>1. tx'.rows = v /\ tx'.usage = new /\ tx' \in [rows : Table, usage : Usages]
    BY <1>5, <1>6, <1>7
  <2>2. AddsUp(tx.usage, tx.rows)'
    BY <1>4, <2>1 DEF AddsUp
  <2>3. QED
    BY <1>1, <1>5, <1>7, <2>1, <2>2 DEF TxInv
<1>10. QED
  BY <1>7, <1>8, <1>9 DEF NeverRefusedLate

\* tx.Commit(): the rows and the usage of the folder change together.
LEMMA ScanCommitStep ==
  ASSUME Inv, ScanCommit PROVE Inv'
<1>. USE DEF Inv, BudgetInv
<1>. DEFINE f == job.folder
<1>1. /\ job.kind = "scan" /\ job.stage = "insert" /\ tx.rows = job.found
      /\ f \in Folders /\ job.found \in Table /\ Fits(job.found)
  BY JobType DEF ScanCommit, JobInv
<1>2. tx.rows \in Table /\ tx.usage \in Usages /\ AddsUp(tx.usage, tx.rows)
  BY <1>1 DEF TxInv
<1>3. tx.usage = NoUsage \/ Checked(tx.usage)
  BY <1>1, <1>2, UsageType DEF AddsUp
<1>4. /\ rows' = [rows EXCEPT ![f] = tx.rows] /\ usage' = [usage EXCEPT ![f] = tx.usage]
      /\ job' = Nobody /\ job'.kind = "none" /\ tx' = Nobody
      /\ UNCHANGED <<opened, refused, crashes>>
  BY DEF ScanCommit, Nobody
<1>. HIDE DEF f
<1>5. TypeOK'
  BY <1>1, <1>2, <1>3, <1>4 DEF TypeOK, Jobs, Checked
<1>6. UsageInv'
  <2>1. ASSUME NEW g \in Folders
        PROVE  AddsUp(usage'[g], rows'[g]) \/ (~opened' /\ usage'[g] = NoUsage)
    <3>1. CASE g = f
      BY <1>1, <1>2, <1>4, <3>1 DEF TypeOK
    <3>2. CASE g # f
      BY <1>1, <1>4, <3>2 DEF TypeOK, UsageInv
    <3>3. QED
      BY <3>1, <3>2
  <2>2. QED
    BY <2>1 DEF UsageInv, AddsUp
<1>7. TxInv' /\ JobInv'
  BY <1>4 DEF TxInv, JobInv
<1>8. QED
  BY <1>4, <1>5, <1>6, <1>7 DEF NeverRefusedLate

\* Every step keeps the invariant.
LEMMA InvNext == Inv /\ [Next]_vars => Inv'
<1>. SUFFICES ASSUME Inv, [Next]_vars PROVE Inv'
  OBVIOUS
<1>1. CASE Open
  BY <1>1, OpenStep
<1>2. CASE OpenFails \/ UNCHANGED vars
  <2>1. UNCHANGED vars
    BY <1>2 DEF OpenFails
  <2>2. QED
    BY <2>1 DEF vars, Inv, BudgetInv, NeverRefusedLate, TypeOK, UsageInv, AddsUp, TxInv, JobInv,
                HasRoom, Known
<1>3. CASE Crash
  BY <1>3, CrashStep
<1>4. CASE ApplyPut
  BY <1>4, ApplyPutStep
<1>5. CASE ApplyFails
  <2>1. tx = Nobody
    BY <1>5 DEF Inv, BudgetInv, TxInv, ApplyFails
  <2>2. QED
    BY <1>5, <2>1, GiveUp DEF ApplyFails
<1>6. CASE \E f \in Folders, p \in Paths, n \in Lengths \ {0} : ApplyCheck(f, p, n)
  BY <1>6, ApplyCheckStep
<1>7. CASE \E f \in Folders, t \in Table : ScanWalk(f, t)
  BY <1>7, ScanWalkStep
<1>8. CASE ScanDelete
  BY <1>8, ScanDeleteStep
<1>9. CASE \E p \in Paths : ScanInsert(p)
  BY <1>9, ScanInsertStep
<1>10. CASE ScanCommit
  BY <1>10, ScanCommitStep
<1>11. CASE ScanFails
  BY <1>11, GiveUp DEF ScanFails
<1>12. QED
  BY <1>1, <1>2, <1>3, <1>4, <1>5, <1>6, <1>7, <1>8, <1>9, <1>10, <1>11 DEF Next

----------------------------------------------------------------------------
\* What the triggers of store.go add up step by step is, after any sequence of
\* puts, scans, rollbacks and restarts, what the rows add up to.
THEOREM BudgetInvHolds == Spec => []BudgetInv
<1>1. Inv => BudgetInv
  BY DEF Inv
<1>2. QED
  BY <1>1, InvInit, InvNext, PTL DEF Spec

\* No CHECK of folder_usage ever refuses a row that checkCapacity or the walk
\* of Scan has found room for.
THEOREM NeverRefusedLateHolds == Spec => []NeverRefusedLate
<1>1. Inv => NeverRefusedLate
  BY DEF Inv
<1>2. QED
  BY <1>1, InvInit, InvNext, PTL DEF Spec

\* Store.List, with limits of its own, accepts every index an open store has
\* committed.
THEOREM ListAcceptsHolds == Spec => []ListAccepts
<1>1. BudgetInv => ListAccepts
  <2>. SUFFICES ASSUME BudgetInv, opened, NEW f \in Folders
                PROVE  Fits(rows[f])
    <3>1. ASSUME NEW f \in Folders, Fits(rows[f]), BudgetInv
          PROVE  /\ Cardinality(Present(rows[f])) <= MaxEntries
                 /\ 2 + Bytes(rows[f]) <= MaxManifestBytes
      <4>1. rows[f] \in Table
        BY <3>1 DEF BudgetInv, TypeOK
      <4>2. QED
        BY <3>1, <4>1, OctetsFinite, BudgetAssumption DEF Fits
    <3>2. QED
      BY <3>1 DEF ListAccepts
  <2>1. /\ rows[f] \in Table /\ AddsUp(usage[f], rows[f])
        /\ usage[f] = NoUsage \/ Checked(usage[f])
    BY DEF BudgetInv, TypeOK, UsageInv
  <2>2. QED
    BY <2>1, EmptyTable, UsageType DEF AddsUp
<1>2. QED
  BY <1>1, BudgetInvHolds, PTL
============================================================================
