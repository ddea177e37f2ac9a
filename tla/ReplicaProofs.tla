--------------------------- MODULE ReplicaProofs ---------------------------
(* Proofs about Replica by itself (Spec) and then together with its source *)
(* (SyncSpec of FolderSync), for every tree of paths, set of contents, set *)
(* of manifests and number of changes, edits and failures.                 *)
EXTENDS FolderSync, FiniteSetTheorems, TLAPS

Statuses == {"none", "ok", "error", "localchange"}

----------------------------------------------------------------------------
(* Lemmas about the operators.                                             *)

\* The manifest in use is well formed, the empty one included.
LEMMA OfferLemma ==
    ASSUME offer \in Manifests \cup {NoManifest}
    PROVE  /\ offer \in [Paths -> Entry]
           /\ \A p \in Paths : offer[p].kind = "directory" => offer[p].hash = <<>>
           /\ \A p \in Paths : offer[p].kind = "file" => offer[p].mode \in Modes
           /\ \A p \in Paths : offer[p].kind # "none" =>
                  \A d \in Above[p] : offer[d].kind # "none"
<1>1. CASE offer \in Manifests
  BY <1>1, ManifestAssumption
<1>2. CASE offer = NoManifest
  <2>1. NoEntry \in Entry /\ NoEntry.kind = "none"
    BY DEF NoEntry, Entry, NoMode
  <2>2. QED
    BY <1>2, <2>1 DEF NoManifest
<1>3. QED
  BY <1>1, <1>2

\* What the constant records are.
LEMMA RecordLemma ==
    /\ Absent \in Object /\ Absent.kind = "absent" /\ Absent.data = <<>>
    /\ Directory \in Object /\ Directory.kind = "directory" /\ Directory.data = <<>>
    /\ Other \in Object /\ Other.kind = "other" /\ Other.data = <<>>
    /\ Nothing \in Shapes /\ Nothing.kind = "absent" /\ Nothing.data = <<>>
    /\ NoEntry \in Entry /\ NoEntry.kind = "none"
    /\ NoTemp \in Temp /\ NoTemp.state = "none"
BY DEF Absent, Directory, Other, Nothing, NoEntry, NoTemp, Object, Shapes, Entry, Temp, NoMode

\* The shape of an object and the claim of a row are shapes.
LEMMA ShapeLemma ==
    /\ \A o \in Object : /\ Shape(o) \in Shapes
                         /\ Shape(o).kind = o.kind
                         /\ Shape(o).data = o.data
    /\ \A e \in Entry : /\ Claim(e) \in Shapes
                        /\ e.kind # "none" => Claim(e).kind = e.kind /\ Claim(e).data = e.hash
                        /\ e.kind = "none" => Claim(e) = Nothing
BY DEF Shape, Claim, Shapes, Object, Entry, Nothing

\* Shapes are equal exactly when their two fields are.
LEMMA ShapeExt ==
    ASSUME NEW s \in Shapes, NEW t \in Shapes, s.kind = t.kind, s.data = t.data
    PROVE  s = t
BY DEF Shapes

\* Objects of equal shape have the same kind and the same content.
LEMMA ShapeFields ==
    ASSUME NEW o \in Object, NEW q \in Object, Shape(o) = Shape(q)
    PROVE  o.kind = q.kind /\ o.data = q.data
BY DEF Shape

\* What a regular file is.
LEMMA FileLemma ==
    ASSUME NEW c \in Seq(Block), NEW m \in Modes
    PROVE  /\ File(c, m) \in Object
           /\ File(c, m).kind = "file" /\ File(c, m).data = c
BY DEF File, Object

\* No ancestor relation is circular.
LEMMA AboveLemma ==
    ASSUME NEW p \in Paths, NEW d \in Above[p]
    PROVE  d \in Paths /\ d # p /\ Rank[d] < Rank[p] /\ Above[d] \subseteq Above[p]
BY TreeAssumption

----------------------------------------------------------------------------
(* The invariant, step by step.                                            *)

\* The invariant holds in a folder just initialised.
LEMMA InvInit == Init => ApplyInv
<1>. SUFFICES ASSUME Init PROVE ApplyInv
  OBVIOUS
<1>0. (CHOOSE p \in Paths : TRUE) \in Paths
  BY TreeAssumption
<1>1. TypeOK
  BY <1>0, RecordLemma, BoundAssumption DEF Init, TypeOK, PCs
<1>2. TreeInv
  BY RecordLemma DEF Init, TreeInv
<1>3. CycleInv /\ DoneInv /\ BuildInv /\ UndoInv
  BY RecordLemma DEF Init, CycleInv, DoneInv, BuildInv, UndoInv, Applying
<1>4. DiskExplained /\ IndexMatchesHeld
  BY DEF Init, DiskExplained, IndexMatchesHeld, Shape, Claim, Absent, Nothing, NoEntry
<1>5. recent \subseteq disturbed
  BY DEF Init
<1>6. QED
  BY <1>1, <1>2, <1>3, <1>4, <1>5 DEF ApplyInv

\* Only the window between a rename and its directory sync can be undone.
LEMMA NoUndo ==
    ASSUME UndoInv, pc # "syncdir"
    PROVE  undo = {}
BY DEF UndoInv

\* The end of a cycle, by an error of Apply or by a restart, when nothing else
\* than the ghosts of looking changes.
LEMMA StopInv ==
    ASSUME ApplyInv,
           pc' = "idle", status' \in Statuses, todo' = {}, current' = Nothing,
           temp' = NoTemp, offer' = offer, cur' = cur,
           UNCHANGED <<disk, index, held, disturbed, lag, edits>>,
           faults' \in 0..MaxFaults, recent' \subseteq recent, undo' = {},
           loose' \subseteq Paths
    PROVE  ApplyInv'
<1>1. TypeOK'
  BY RecordLemma DEF ApplyInv, TypeOK, PCs, Statuses
<1>2. TreeInv'
  BY DEF ApplyInv, TreeInv, ParentsPresent
<1>3. CycleInv' /\ DoneInv' /\ UndoInv'
  BY DEF CycleInv, DoneInv, UndoInv, Applying
<1>4. BuildInv'
  BY RecordLemma DEF BuildInv
<1>5. DiskExplained' /\ IndexMatchesHeld'
  BY DEF ApplyInv, DiskExplained, IndexMatchesHeld
<1>6. (recent \subseteq disturbed)'
  BY DEF ApplyInv
<1>7. QED
  BY <1>1, <1>2, <1>3, <1>4, <1>5, <1>6 DEF ApplyInv

\* Steps that change neither tree nor index nor what is held.
LEMMA QuietInv ==
    ASSUME ApplyInv, UNCHANGED <<disk, index, held, disturbed, lag, counters>>,
           recent' \subseteq recent
    PROVE  /\ TreeInv' /\ DiskExplained' /\ IndexMatchesHeld'
           /\ (recent \subseteq disturbed)'
           /\ UNCHANGED <<disk, index, held, disturbed, lag, edits, faults>>
BY DEF ApplyInv, TreeInv, ParentsPresent, DiskExplained, IndexMatchesHeld, counters

\* A new offer starts a new list of entries to apply.
LEMMA CycleBeginInv ==
    ASSUME ApplyInv, NEW m \in Manifests, CycleBegin(m)
    PROVE  ApplyInv'
<1>. USE DEF CycleBegin, ghosts, counters
<1>1. undo = {}
  BY NoUndo DEF ApplyInv
<1>2. TypeOK'
  BY DEF ApplyInv, TypeOK, PCs
<1>3. CycleInv' /\ DoneInv'
  BY DEF CycleInv, DoneInv, Applying
<1>4. BuildInv'
  BY DEF ApplyInv, BuildInv, ParentsPresent
<1>5. UndoInv'
  BY <1>1 DEF UndoInv
<1>6. QED
  BY <1>2, <1>3, <1>4, <1>5, QuietInv DEF ApplyInv

\* The next entry is the least one: those before it are applied.
LEMMA CycleNextInv ==
    ASSUME ApplyInv, CycleNext
    PROVE  ApplyInv'
<1>. USE DEF CycleNext, ghosts, counters
<1>0. PICK p \in todo : /\ \A q \in todo : Rank[p] <= Rank[q]
                        /\ cur' = p /\ todo' = todo \ {p}
  OBVIOUS
<1>1. undo = {} /\ p \in Paths
  BY NoUndo DEF ApplyInv, TypeOK
<1>2. TypeOK'
  BY <1>0, <1>1 DEF ApplyInv, TypeOK, PCs
<1>3. CycleInv'
  BY <1>0, <1>1 DEF ApplyInv, CycleInv, Applying, entry
<1>4. DoneInv'
  BY <1>0, <1>1 DEF ApplyInv, DoneInv, Applying
<1>5. BuildInv'
  <2>1. temp.state = "none"
    BY DEF ApplyInv, BuildInv
  <2>2. QED
    BY <2>1 DEF BuildInv
<1>6. UndoInv'
  BY <1>1 DEF UndoInv
<1>7. QED
  BY <1>2, <1>3, <1>4, <1>5, <1>6, QuietInv DEF ApplyInv

\* A cycle ends when every listed entry is applied.
LEMMA CycleEndInv ==
    ASSUME ApplyInv, CycleEnd
    PROVE  ApplyInv'
<1>. USE DEF CycleEnd, ghosts, counters, job
<1>1. undo = {}
  BY NoUndo DEF ApplyInv
<1>2. TypeOK'
  BY DEF ApplyInv, TypeOK, PCs
<1>3. CycleInv' /\ DoneInv'
  BY DEF CycleInv, DoneInv, Applying
<1>4. BuildInv'
  BY DEF ApplyInv, BuildInv, ParentsPresent
<1>5. UndoInv'
  BY <1>1 DEF UndoInv
<1>6. QED
  BY <1>2, <1>3, <1>4, <1>5, QuietInv DEF ApplyInv

\* An error return of Apply before any rename or mkdir.
LEMMA AbortInv ==
    ASSUME ApplyInv, pc # "syncdir", NEW why \in {"error", "localchange"}, Abort(why),
           UNCHANGED <<disk, index, undo, loose, counters, held, disturbed, lag>>,
           recent' \subseteq recent
    PROVE  ApplyInv'
<1>1. undo' = {}
  BY NoUndo DEF ApplyInv
<1>2. faults' \in 0..MaxFaults /\ edits' = edits /\ loose' \subseteq Paths
  BY DEF ApplyInv, TypeOK, counters
<1>3. QED
  BY <1>1, <1>2, StopInv DEF Abort, Statuses

\* A step of Apply from one control point to another that leaves the tree and
\* the index alone keeps the parts of the invariant that are not about cur.
LEMMA GotoInv ==
    ASSUME ApplyInv, pc # "syncdir", Applying,
           NEW next \in PCs \ {"idle", "next", "syncdir"}, Goto(next),
           UNCHANGED <<disk, index, undo, loose, counters, held, disturbed, lag>>,
           recent' \subseteq recent, recent \ {cur} \subseteq recent',
           current' \in Shapes, temp' \in Temp
    PROVE  /\ TypeOK' /\ (recent \subseteq disturbed)' /\ TreeInv' /\ DoneInv' /\ UndoInv'
           /\ DiskExplained' /\ IndexMatchesHeld'
<1>. USE DEF Goto
<1>1. undo' = {}
  BY NoUndo DEF ApplyInv
<1>2. TypeOK'
  BY <1>1 DEF ApplyInv, TypeOK, counters
<1>3. DoneInv'
  BY DEF ApplyInv, DoneInv, Applying, PCs
<1>4. UndoInv'
  BY <1>1 DEF UndoInv
<1>5. QED
  BY <1>2, <1>3, <1>4, QuietInv

\* The first look at the path, and its early returns.
LEMMA ApplyOpenInv ==
    ASSUME ApplyInv, ApplyOpen
    PROVE  ApplyInv'
<1>. USE DEF ApplyOpen, Look
<1>1. ASSUME NEW why \in {"error", "localchange"}, Abort(why)
      PROVE  ApplyInv'
  BY <1>1, AbortInv
<1>2. ASSUME ~LocallyChanged, Passable(cur), current' = Shape(object), temp' = temp,
             Goto(IF object.kind = "file" THEN "fingerprint" ELSE "parents")
      PROVE  ApplyInv'
  <2>0. /\ cur \in Paths /\ object \in Object /\ index[cur] \in Entry /\ entry \in Entry
        /\ temp \in Temp /\ temp.state = "none"
        /\ entry.kind # "none"
        /\ entry.kind = "directory" => entry.hash = <<>>
        /\ object.kind # "file" => object.data = <<>>
    BY OfferLemma DEF ApplyInv, TypeOK, BuildInv, CycleInv, TreeInv, Applying, object, entry
  <2>1. object.kind \in {"absent", "directory", "file"}
    BY <1>2, <2>0 DEF Passable, object, Object
  <2>2. /\ object.kind = "absent" => index[cur].kind = "none"
        /\ object.kind # "absent" => entry.kind = object.kind
    BY <1>2, <2>1 DEF LocallyChanged
  <2>3. /\ TypeOK' /\ (recent \subseteq disturbed)' /\ TreeInv' /\ DoneInv' /\ UndoInv'
        /\ DiskExplained' /\ IndexMatchesHeld'
    <3>1. CASE object.kind = "file"
      BY <3>1, <1>2, <2>0, GotoInv, ShapeLemma DEF Applying, PCs
    <3>2. CASE object.kind # "file"
      BY <3>2, <1>2, <2>0, GotoInv, ShapeLemma DEF Applying, PCs
    <3>3. QED
      BY <3>1, <3>2
  <2>4. CycleInv'
    BY <1>2, <2>2 DEF ApplyInv, CycleInv, Applying, entry, Goto
  <2>5. BuildInv'
    <3>1. CASE object.kind = "file"
      BY <3>1, <1>2, <2>0 DEF BuildInv, Goto
    <3>2. CASE object.kind = "absent"
      <4>1. Shape(object) = Nothing /\ Claim(index[cur]) = Nothing
        BY <3>2, <2>0, <2>2, ShapeLemma, ShapeExt, RecordLemma
      <4>2. QED
        BY <3>2, <4>1, <1>2, <2>0 DEF BuildInv, Goto
    <3>3. CASE object.kind = "directory"
      <4>1. Shape(object) = Claim(entry)
        BY <3>3, <2>0, <2>2, ShapeLemma, ShapeExt
      <4>2. Shape(object) # Nothing
        BY <3>3, <2>0, ShapeLemma, RecordLemma
      <4>3. QED
        BY <3>3, <4>1, <4>2, <1>2, <2>0, <2>2 DEF BuildInv, Goto, entry, object
    <3>4. QED
      BY <2>1, <3>1, <3>2, <3>3
  <2>6. QED
    BY <2>3, <2>4, <2>5 DEF ApplyInv
<1>3. QED
  BY <1>1, <1>2

\* The first fingerprint: same content, own content or a local change.
LEMMA ApplyFingerprintInv ==
    ASSUME ApplyInv, ApplyFingerprint
    PROVE  ApplyInv'
<1>. USE DEF ApplyFingerprint, Look
<1>0. /\ cur \in Paths /\ object \in Object /\ index[cur] \in Entry /\ entry \in Entry
      /\ temp \in Temp /\ temp.state = "none" /\ current \in Shapes
      /\ entry.kind = "file"
  BY OfferLemma DEF ApplyInv, TypeOK, BuildInv, CycleInv, object, entry
<1>1. ASSUME NEW why \in {"error", "localchange"}, Abort(why)
      PROVE  ApplyInv'
  BY <1>1, AbortInv
<1>2. ASSUME object.kind = "file", object.data = entry.hash, Goto("chmod"),
             UNCHANGED <<current, temp>>
      PROVE  ApplyInv'
  <2>1. /\ TypeOK' /\ (recent \subseteq disturbed)' /\ TreeInv' /\ DoneInv' /\ UndoInv'
        /\ DiskExplained' /\ IndexMatchesHeld'
    BY <1>0, <1>2, GotoInv DEF Applying, PCs
  <2>2. CycleInv'
    BY <1>2 DEF ApplyInv, CycleInv, Applying, entry, Goto
  <2>3. Shape(object) = Claim(entry)
    BY <1>0, <1>2, ShapeLemma, ShapeExt
  <2>4. BuildInv'
    BY <1>0, <1>2, <2>3 DEF BuildInv, Goto, entry, object
  <2>5. QED
    BY <2>1, <2>2, <2>4 DEF ApplyInv
<1>3. ASSUME ~Diverged, object.data # entry.hash, Goto("parents"),
             current' = Shape(object), temp' = temp
      PROVE  ApplyInv'
  <2>1. /\ TypeOK' /\ (recent \subseteq disturbed)' /\ TreeInv' /\ DoneInv' /\ UndoInv'
        /\ DiskExplained' /\ IndexMatchesHeld'
    BY <1>0, <1>3, GotoInv, ShapeLemma DEF Applying, PCs
  <2>2. CycleInv'
    BY <1>3 DEF ApplyInv, CycleInv, Applying, entry, Goto
  <2>3. Claim(index[cur]) = Shape(object)
    BY <1>3 DEF Diverged
  <2>4. BuildInv'
    BY <1>0, <1>3, <2>3 DEF BuildInv, Goto, entry, object
  <2>5. QED
    BY <2>1, <2>2, <2>4 DEF ApplyInv
<1>4. QED
  BY <1>1, <1>2, <1>3

\* The same-content branch changes permission bits only.
LEMMA ApplyChmodInv ==
    ASSUME ApplyInv, ApplyChmod
    PROVE  ApplyInv'
<1>. USE DEF ApplyChmod, ghosts
<1>0. /\ cur \in Paths /\ object \in Object /\ entry \in Entry
      /\ temp.state = "none" /\ entry.kind = "file" /\ entry.mode \in Modes
      /\ undo = {}
  BY OfferLemma, NoUndo DEF ApplyInv, TypeOK, BuildInv, CycleInv, object, entry
<1>1. ASSUME Abort("error"), UNCHANGED <<disk, disturbed>>
      PROVE  ApplyInv'
  BY <1>1, AbortInv
<1>2. ASSUME disk' \in [Paths -> Object], \A p \in Paths : Shape(disk'[p]) = Shape(disk[p]),
             disturbed \subseteq disturbed', disturbed' \subseteq Paths,
             Goto("put"), UNCHANGED <<current, temp>>
      PROVE  ApplyInv'
  <2>2. \A p \in Paths : disk'[p].kind = disk[p].kind /\ disk'[p].data = disk[p].data
    BY <1>2, ShapeLemma DEF ApplyInv, TypeOK
  <2>3. TypeOK'
    BY <1>2 DEF ApplyInv, TypeOK, PCs, Goto, counters
  <2>4. TreeInv'
    BY <2>2, TreeAssumption DEF ApplyInv, TreeInv, ParentsPresent
  <2>5. CycleInv'
    BY <1>2 DEF ApplyInv, CycleInv, Applying, entry, Goto
  <2>6. DoneInv'
    BY <1>2, <2>2 DEF ApplyInv, DoneInv, Applying, Goto
  <2>7. BuildInv'
    BY <1>0, <1>2 DEF ApplyInv, BuildInv, Goto, object, entry
  <2>8. UndoInv'
    BY <1>0 DEF UndoInv
  <2>9. DiskExplained' /\ IndexMatchesHeld' /\ (recent \subseteq disturbed)'
    BY <1>2 DEF ApplyInv, DiskExplained, IndexMatchesHeld
  <2>10. QED
    BY <2>3, <2>4, <2>5, <2>6, <2>7, <2>8, <2>9 DEF ApplyInv
<1>3. ASSUME NEW q \in Paths, disk' = [disk EXCEPT ![q].mode = entry.mode]
      PROVE  disk' \in [Paths -> Object] /\ \A p \in Paths : Shape(disk'[p]) = Shape(disk[p])
  BY <1>0, <1>3 DEF ApplyInv, TypeOK, Object, Shape
<1>4. CASE UNCHANGED disturbed /\ object.kind \in {"file", "directory"}
  BY <1>0, <1>2, <1>3, <1>4 DEF ApplyInv, TypeOK
<1>5. CASE object.kind = "other"
  BY <1>0, <1>1, <1>2, <1>3, <1>5 DEF ApplyInv, TypeOK
<1>6. QED
  BY <1>1, <1>4, <1>5

\* ensureParents recreates only a path that was applied in this cycle and that
\* another program has removed since.
LEMMA ParentsLemma ==
    ASSUME ApplyInv, pc = "parents", NEW d \in Above[cur], disk[d].kind = "absent"
    PROVE  d \in recent
<1>1. cur \in Paths /\ entry.kind # "none" /\ offer \in Manifests
  BY DEF ApplyInv, TypeOK, CycleInv, Applying
<1>2. d \in Paths /\ d # cur /\ Rank[d] < Rank[cur]
  BY <1>1, AboveLemma
<1>3. offer[d].kind # "none" /\ offer[d] \in Entry
  BY <1>1, <1>2, OfferLemma DEF entry
<1>4. d \notin todo
  BY <1>1, <1>2, TreeAssumption DEF ApplyInv, TypeOK, CycleInv, Applying
<1>5. QED
  BY <1>2, <1>3, <1>4 DEF ApplyInv, DoneInv, Applying, Entry

\* ensureParents recreates only what other programs removed after its turn; the
\* directory it makes may still be lost, with what will be installed in it.
LEMMA ApplyParentsInv ==
    ASSUME ApplyInv, ApplyParents
    PROVE  ApplyInv'
<1>. USE DEF ApplyParents, ghosts
<1>0. /\ cur \in Paths /\ temp.state = "none" /\ undo = {} /\ entry.kind # "none"
      /\ entry \in Entry /\ current \in Shapes /\ cur \notin Above[cur]
      /\ Above[cur] \subseteq Paths
  BY OfferLemma, NoUndo, AboveLemma, TreeAssumption
     DEF ApplyInv, TypeOK, BuildInv, CycleInv, Applying, entry
<1>1. ASSUME Abort("error"), UNCHANGED <<disk, loose>>
      PROVE  ApplyInv'
  BY <1>1, AbortInv
<1>2. ASSUME disk' = [d \in Paths |-> IF d \in Above[cur] THEN Directory ELSE disk[d]],
             Goto(IF entry.kind = "file" THEN "create"
                  ELSE IF current = Nothing THEN "mkdir" ELSE "put"),
             UNCHANGED <<current, temp>>, ParentsPassable(cur),
             loose' = loose \cup {d \in Above[cur] : disk[d].kind = "absent"}
      PROVE  ApplyInv'
  <2>1. /\ disk'[cur] = disk[cur]
        /\ \A d \in Above[cur] : disk'[d] = Directory
        /\ \A d \in Paths \ Above[cur] : disk'[d] = disk[d]
    BY <1>0, <1>2
  <2>2. TypeOK'
    <3>1. disk' \in [Paths -> Object]
      BY <1>2, RecordLemma DEF ApplyInv, TypeOK
    <3>2. loose' \subseteq Paths
      BY <1>0, <1>2 DEF ApplyInv, TypeOK
    <3>3. QED
      BY <1>2, <3>1, <3>2 DEF ApplyInv, TypeOK, PCs, Goto, counters
  <2>3. TreeInv'
    <3>1. SUFFICES ASSUME NEW p \in Paths
                   PROVE  /\ disk'[p].kind # "file" => disk'[p].data = <<>>
                          /\ disk'[p].kind # "absent" =>
                                 \A a \in Above[p] : disk'[a].kind = "directory"
      BY DEF TreeInv, ParentsPresent
    <3>2. CASE p \in Above[cur]
      BY <3>2, <2>1, <1>0, AboveLemma, RecordLemma
    <3>3. CASE p \notin Above[cur]
      <4>1. disk'[p] = disk[p]
        BY <3>3, <2>1
      <4>2. QED
        BY <4>1, <2>1, <1>0, AboveLemma, RecordLemma DEF ApplyInv, TreeInv, ParentsPresent
    <3>4. QED
      BY <3>2, <3>3
  <2>4. CycleInv'
    <3>1. entry.kind \in {"file", "directory"}
      BY <1>0 DEF Entry
    <3>2. QED
      BY <1>0, <1>2, <3>1 DEF ApplyInv, CycleInv, Applying, entry, Goto
  <2>5. DoneInv'
    <3>1. \A d \in Above[cur] : disk'[d].kind = disk[d].kind \/ d \in recent
      BY <1>2, <2>1, RecordLemma, ParentsLemma DEF ParentsPassable
    <3>2. \A d \in Paths : disk'[d].kind = disk[d].kind \/ d \in recent
      BY <2>1, <3>1
    <3>3. QED
      BY <1>0, <1>2, <3>2 DEF ApplyInv, DoneInv, Applying, Goto
  <2>6. BuildInv'
    <3>1. /\ (entry.kind = "file" \/ current = Nothing) => Claim(index[cur]) = current
          /\ (entry.kind = "directory" /\ current # Nothing /\ cur \notin recent) =>
                 Shape(object) = Claim(entry)
      BY DEF ApplyInv, BuildInv
    <3>2. entry.kind \in {"file", "directory"}
      BY <1>0 DEF Entry
    <3>3. object' = object /\ entry' = entry /\ cur' = cur
      BY <1>2, <2>1 DEF object, entry, Goto
    <3>4. QED
      BY <1>0, <1>2, <3>1, <3>2, <3>3 DEF BuildInv, Goto
  <2>7. UndoInv'
    BY <1>0 DEF UndoInv
  <2>8. DiskExplained'
    <3>1. SUFFICES ASSUME NEW p \in Paths, p \notin disturbed
                   PROVE  Shape(disk'[p]) = held[p]
      BY DEF DiskExplained
    <3>2. Shape(disk[p]) = held[p]
      BY <3>1 DEF ApplyInv, DiskExplained
    <3>3. CASE p \in Above[cur]
      <4>1. disk[p].kind = "directory"
        BY <1>2, <3>1, <3>3, ParentsLemma DEF ApplyInv, ParentsPassable
      <4>2. disk[p].data = <<>> /\ disk[p] \in Object
        BY <4>1 DEF ApplyInv, TreeInv, TypeOK
      <4>3. Shape(disk[p]) = Shape(Directory)
        BY <4>1, <4>2, ShapeLemma, ShapeExt, RecordLemma
      <4>4. QED
        BY <3>2, <3>3, <4>3, <2>1
    <3>4. CASE p \notin Above[cur]
      BY <3>2, <3>4, <2>1
    <3>5. QED
      BY <3>3, <3>4
  <2>9. IndexMatchesHeld'
    BY DEF ApplyInv, IndexMatchesHeld
  <2>10. QED
    BY <2>2, <2>3, <2>4, <2>5, <2>6, <2>7, <2>8, <2>9 DEF ApplyInv
<1>3. QED
  BY <1>1, <1>2

\* The temporary file starts under directories that are there.
LEMMA ApplyCreateInv ==
    ASSUME ApplyInv, ApplyCreate
    PROVE  ApplyInv'
<1>. USE DEF ApplyCreate, ghosts
<1>1. ASSUME Abort("error")
      PROVE  ApplyInv'
  BY <1>1, AbortInv
<1>2. ASSUME ParentsPresent(cur), Goto("copy"), current' = current,
             temp' = [state |-> "linked", data |-> <<>>, synced |-> FALSE]
      PROVE  ApplyInv'
  <2>1. temp' \in Temp
    BY <1>2 DEF Temp
  <2>2. /\ TypeOK' /\ (recent \subseteq disturbed)' /\ TreeInv' /\ DoneInv' /\ UndoInv'
        /\ DiskExplained' /\ IndexMatchesHeld'
    BY <1>2, <2>1, GotoInv DEF ApplyInv, TypeOK, Applying, PCs
  <2>3. CycleInv'
    BY <1>2 DEF ApplyInv, CycleInv, Applying, entry, Goto
  <2>4. BuildInv'
    BY <1>2 DEF ApplyInv, BuildInv, Goto, entry, ParentsPresent
  <2>5. QED
    BY <2>2, <2>3, <2>4 DEF ApplyInv
<1>3. QED
  BY <1>1, <1>2

\* A block is appended to the temporary file.
LEMMA ApplyCopyInv ==
    ASSUME ApplyInv, NEW d \in Block, ApplyCopy(d)
    PROVE  ApplyInv'
<1>. USE DEF ApplyCopy, ghosts
<1>1. temp' \in Temp /\ temp'.state = temp.state
  <2>1. temp \in Temp /\ temp.data \in Seq(Block)
    BY DEF ApplyInv, TypeOK, Temp
  <2>2. Append(temp.data, d) \in Seq(Block)
    BY <2>1
  <2>3. temp' = [temp EXCEPT !.data = Append(temp.data, d)]
    OBVIOUS
  <2>4. QED
    BY <2>1, <2>2, <2>3 DEF Temp
<1>2. Goto("copy")
  BY DEF Goto
<1>3. /\ TypeOK' /\ (recent \subseteq disturbed)' /\ TreeInv' /\ DoneInv' /\ UndoInv'
      /\ DiskExplained' /\ IndexMatchesHeld'
  BY <1>1, <1>2, GotoInv DEF ApplyInv, TypeOK, Applying, PCs
<1>4. CycleInv'
  BY DEF ApplyInv, CycleInv, Applying, entry
<1>5. BuildInv'
  BY <1>1 DEF ApplyInv, BuildInv, entry, ParentsPresent
<1>6. QED
  BY <1>3, <1>4, <1>5 DEF ApplyInv

\* Only a file with the offered digest is synced and goes on.
LEMMA ApplyVerifyInv ==
    ASSUME ApplyInv, ApplyVerify
    PROVE  ApplyInv'
<1>. USE DEF ApplyVerify, ghosts
<1>1. ASSUME Abort("error")
      PROVE  ApplyInv'
  BY <1>1, AbortInv
<1>2. ASSUME temp.data = entry.hash, Goto("recheck"), current' = current,
             temp' = [temp EXCEPT !.synced = TRUE]
      PROVE  ApplyInv'
  <2>1. /\ temp' \in Temp /\ temp'.state = temp.state /\ temp'.data = temp.data
        /\ temp'.synced
    BY <1>2 DEF ApplyInv, TypeOK, Temp
  <2>2. /\ TypeOK' /\ (recent \subseteq disturbed)' /\ TreeInv' /\ DoneInv' /\ UndoInv'
        /\ DiskExplained' /\ IndexMatchesHeld'
    BY <1>2, <2>1, GotoInv DEF ApplyInv, TypeOK, Applying, PCs
  <2>3. CycleInv'
    BY <1>2 DEF ApplyInv, CycleInv, Applying, entry, Goto
  <2>4. BuildInv'
    BY <1>2, <2>1 DEF ApplyInv, BuildInv, Goto, entry, ParentsPresent
  <2>5. QED
    BY <2>2, <2>3, <2>4 DEF ApplyInv
<1>3. QED
  BY <1>1, <1>2

\* After the second look the path holds what the first one found.
LEMMA ApplyRecheckInv ==
    ASSUME ApplyInv, ApplyRecheck
    PROVE  ApplyInv'
<1>. USE DEF ApplyRecheck, Look
<1>1. ASSUME NEW why \in {"error", "localchange"}, Abort(why)
      PROVE  ApplyInv'
  BY <1>1, AbortInv
<1>2. ASSUME StillCurrent, Goto("rename"), UNCHANGED <<current, temp>>
      PROVE  ApplyInv'
  <2>1. /\ TypeOK' /\ (recent \subseteq disturbed)' /\ TreeInv' /\ DoneInv' /\ UndoInv'
        /\ DiskExplained' /\ IndexMatchesHeld'
    BY <1>2, GotoInv DEF ApplyInv, TypeOK, Applying, PCs
  <2>2. CycleInv'
    BY <1>2 DEF ApplyInv, CycleInv, Applying, entry, Goto
  <2>3. BuildInv'
    BY <1>2 DEF ApplyInv, BuildInv, Goto, entry, object, ParentsPresent, StillCurrent
  <2>4. QED
    BY <2>1, <2>2, <2>3 DEF ApplyInv
<1>3. QED
  BY <1>1, <1>2

\* A rename or mkdir that puts the offered object in place.
LEMMA InstallInv ==
    ASSUME ApplyInv, pc \in {"mkdir", "rename"}, NEW o \in Object,
           o.kind \in {"file", "directory"}, o.kind # "file" => o.data = <<>>,
           Shape(o) = Claim(entry), ParentsPresent(cur), object.kind # "directory",
           Install(o, TRUE), Goto("syncdir"), UNCHANGED <<index, loose, counters, current>>,
           temp' \in Temp, temp'.state = "none"
    PROVE  ApplyInv'
<1>. USE DEF Install, Goto
<1>0. /\ cur \in Paths /\ object \in Object /\ entry \in Entry /\ undo = {} /\ Applying
      /\ entry' = entry
  BY OfferLemma, NoUndo DEF ApplyInv, TypeOK, object, entry, Applying
<1>1. /\ disk'[cur] = o /\ object' = o
      /\ \A p \in Paths \ {cur} : disk'[p] = disk[p]
      /\ held'[cur] = Claim(entry)
      /\ \A p \in Paths \ {cur} : held'[p] = held[p]
  BY <1>0 DEF ApplyInv, TypeOK, object
<1>2. TypeOK'
  <2>1. disk' \in [Paths -> Object] /\ held' \in [Paths -> Shapes]
    BY <1>0, ShapeLemma DEF ApplyInv, TypeOK
  <2>2. undo' \subseteq Undo
    BY <1>0 DEF ApplyInv, TypeOK, Undo
  <2>3. QED
    BY <2>1, <2>2 DEF ApplyInv, TypeOK, PCs, counters
<1>3. \A p \in Paths : cur \in Above[p] => p # cur /\ disk[p].kind = "absent"
  BY <1>0, AboveLemma DEF ApplyInv, TreeInv, ParentsPresent, object
<1>4. ParentsPresent(cur)'
  BY <1>0, <1>1, AboveLemma DEF ParentsPresent
<1>5. TreeInv'
  <2>1. SUFFICES ASSUME NEW p \in Paths
                 PROVE  /\ disk'[p].kind # "file" => disk'[p].data = <<>>
                        /\ disk'[p].kind # "absent" =>
                               \A a \in Above[p] : disk'[a].kind = "directory"
    BY DEF TreeInv, ParentsPresent
  <2>2. CASE p = cur
    BY <2>2, <1>1, <1>4 DEF ParentsPresent
  <2>3. CASE p # cur
    BY <2>3, <1>1, <1>3, AboveLemma DEF ApplyInv, TreeInv, ParentsPresent
  <2>4. QED
    BY <2>2, <2>3
<1>6. CycleInv'
  BY <1>0 DEF ApplyInv, CycleInv, Applying, entry
<1>7. DoneInv'
  BY <1>0, <1>1 DEF ApplyInv, DoneInv, Applying
<1>8. BuildInv'
  BY <1>0, <1>1 DEF BuildInv
<1>9. UndoInv'
  <2>1. SUFFICES ASSUME NEW u \in undo' PROVE
             /\ u.path = cur /\ u.synced
             /\ ~u.lag => Claim(index[cur]) = u.held
             /\ ~u.disturbed => Shape(u.obj) = u.held
             /\ u.obj = object
             /\ cur \notin recent'
    BY <1>0, <1>1, <1>3, <1>4 DEF UndoInv, ApplyInv, TreeInv, object
  <2>2. u = [path |-> cur, obj |-> object, held |-> held[cur],
             disturbed |-> cur \in disturbed, lag |-> cur \in lag, synced |-> TRUE]
    BY <1>0
  <2>3. QED
    BY <1>0, <2>2 DEF ApplyInv, DiskExplained, IndexMatchesHeld, object
<1>10. DiskExplained'
  BY <1>1 DEF ApplyInv, DiskExplained
<1>11. IndexMatchesHeld'
  BY <1>1 DEF ApplyInv, IndexMatchesHeld
<1>12. (recent \subseteq disturbed)'
  BY DEF ApplyInv
<1>13. QED
  BY <1>2, <1>5, <1>6, <1>7, <1>8, <1>9, <1>10, <1>11, <1>12 DEF ApplyInv

\* A directory is made where nothing was.
LEMMA ApplyMkdirInv ==
    ASSUME ApplyInv, ApplyMkdir
    PROVE  ApplyInv'
<1>. USE DEF ApplyMkdir
<1>1. ASSUME Abort("error"), UNCHANGED <<disk, undo, ghosts>>
      PROVE  ApplyInv'
  BY <1>1, AbortInv DEF ghosts
<1>2. ASSUME ParentsPresent(cur), object.kind = "absent", Install(Directory, TRUE),
             Goto("syncdir"), UNCHANGED <<current, temp>>
      PROVE  ApplyInv'
  <2>1. entry.kind = "directory" /\ entry \in Entry /\ entry.hash = <<>>
        /\ temp \in Temp /\ temp.state = "none"
    BY OfferLemma DEF ApplyInv, TypeOK, CycleInv, BuildInv, entry
  <2>2. Shape(Directory) = Claim(entry)
    BY <2>1, ShapeLemma, ShapeExt, RecordLemma
  <2>3. QED
    BY <1>2, <2>1, <2>2, InstallInv, RecordLemma
<1>3. QED
  BY <1>1, <1>2

\* The verified temporary file takes the place of what was looked at.
LEMMA ApplyRenameInv ==
    ASSUME ApplyInv, ApplyRename
    PROVE  ApplyInv'
<1>. USE DEF ApplyRename
<1>1. ASSUME Abort("error"), UNCHANGED <<disk, undo, ghosts>>
      PROVE  ApplyInv'
  BY <1>1, AbortInv DEF ghosts
<1>2. ASSUME temp.state = "linked", object.kind # "directory",
             Install(File(temp.data, entry.mode), temp.synced), temp' = NoTemp,
             Goto("syncdir"), current' = current
      PROVE  ApplyInv'
  <2>1. /\ entry.kind = "file" /\ entry \in Entry /\ entry.mode \in Modes
        /\ temp.data = entry.hash /\ temp.data \in Seq(Block)
        /\ ParentsPresent(cur)
    BY <1>2, OfferLemma DEF ApplyInv, TypeOK, CycleInv, BuildInv, entry, Temp
  <2>2. temp.synced = TRUE
    <3>1. temp.synced \in BOOLEAN /\ temp.synced
      BY DEF ApplyInv, TypeOK, BuildInv, Temp
    <3>2. QED
      BY <3>1
  <2>3. Shape(File(temp.data, entry.mode)) = Claim(entry)
    BY <2>1, FileLemma, ShapeLemma, ShapeExt
  <2>4. QED
    BY <1>2, <2>1, <2>2, <2>3, InstallInv, FileLemma, RecordLemma
<1>3. QED
  BY <1>1, <1>2

\* Once its directory is synced a rename cannot be undone.
LEMMA ApplySyncDirInv ==
    ASSUME ApplyInv, ApplySyncDir
    PROVE  ApplyInv'
<1>. USE DEF ApplySyncDir, ghosts
<1>1. ASSUME ~ParentsPresent(cur), Abort("error"), UNCHANGED <<undo, loose>>
      PROVE  ApplyInv'
  <2>1. undo = {}
    BY <1>1 DEF ApplyInv, UndoInv
  <2>2. faults' \in 0..MaxFaults /\ edits' = edits /\ loose' \subseteq Paths
    BY <1>1 DEF ApplyInv, TypeOK, counters
  <2>3. QED
    BY <1>1, <2>1, <2>2, StopInv DEF Abort, Statuses
<1>2. ASSUME undo' = {u \in undo : Above[u.path] # Above[cur]}, loose' \subseteq loose, Goto("put"),
             UNCHANGED <<current, temp>>
      PROVE  ApplyInv'
  <2>1. undo' = {}
    BY <1>2 DEF ApplyInv, UndoInv
  <2>2. TypeOK'
    BY <1>2, <2>1 DEF ApplyInv, TypeOK, PCs, Goto, counters
  <2>3. CycleInv' /\ DoneInv'
    BY <1>2 DEF ApplyInv, CycleInv, DoneInv, Applying, entry, Goto
  <2>4. BuildInv'
    BY <1>2 DEF ApplyInv, BuildInv, Goto, entry, object
  <2>5. UndoInv'
    BY <2>1 DEF UndoInv
  <2>6. QED
    BY <2>2, <2>3, <2>4, <2>5, QuietInv DEF ApplyInv
<1>3. QED
  BY <1>1, <1>2

\* The row says what is held at the path.
LEMMA ApplyPutInv ==
    ASSUME ApplyInv, ApplyPut
    PROVE  ApplyInv'
<1>. USE DEF ApplyPut, Goto
<1>0. /\ cur \in Paths /\ entry \in Entry /\ entry.kind # "none" /\ undo = {}
      /\ object \in Object /\ temp.state = "none"
      /\ cur \notin recent => Shape(object) = Claim(entry)
  BY OfferLemma, NoUndo
     DEF ApplyInv, TypeOK, CycleInv, BuildInv, Applying, entry, object
<1>1. /\ index'[cur] = entry /\ held'[cur] = Claim(entry)
      /\ \A p \in Paths \ {cur} : index'[p] = index[p] /\ held'[p] = held[p]
  BY <1>0 DEF ApplyInv, TypeOK
<1>2. TypeOK'
  <2>1. index' \in [Paths -> Entry] /\ held' \in [Paths -> Shapes]
    BY <1>0, ShapeLemma DEF ApplyInv, TypeOK
  <2>2. QED
    BY <2>1, RecordLemma DEF ApplyInv, TypeOK, PCs, counters
<1>3. TreeInv'
  BY DEF ApplyInv, TreeInv, ParentsPresent
<1>4. CycleInv'
  BY DEF ApplyInv, CycleInv, Applying
<1>5. DoneInv'
  <2>1. SUFFICES ASSUME NEW d \in Paths, offer[d].kind # "none", d \notin todo
                 PROVE  disk[d].kind = offer[d].kind \/ d \in recent
    BY DEF DoneInv, Applying
  <2>2. CASE d = cur
    <3>1. cur \notin recent => object.kind = Claim(entry).kind
      BY <1>0, ShapeLemma
    <3>2. Claim(entry).kind = offer[d].kind
      BY <2>1, <2>2, <1>0, ShapeLemma DEF entry
    <3>3. QED
      BY <2>2, <3>1, <3>2 DEF object
  <2>3. CASE d # cur
    BY <2>1, <2>3 DEF ApplyInv, DoneInv, Applying
  <2>4. QED
    BY <2>2, <2>3
<1>6. BuildInv'
  BY <1>0 DEF BuildInv
<1>7. UndoInv'
  BY <1>0 DEF UndoInv
<1>8. DiskExplained'
  BY <1>0, <1>1 DEF ApplyInv, DiskExplained, object
<1>9. IndexMatchesHeld'
  BY <1>1 DEF ApplyInv, IndexMatchesHeld
<1>10. (recent \subseteq disturbed)'
  BY DEF ApplyInv
<1>11. QED
  BY <1>2, <1>3, <1>4, <1>5, <1>6, <1>7, <1>8, <1>9, <1>10 DEF ApplyInv

\* A failed call or a killed process: only in the window after a rename does
\* anything remain to be written back, and the kernel has done it.
LEMMA FaultInv ==
    ASSUME ApplyInv, ~LateWriteback, Fault \/ Crash
    PROVE  ApplyInv'
<1>1. faults' \in 0..MaxFaults /\ undo' = {} /\ loose' \subseteq Paths
  BY BoundAssumption DEF Fault, Crash, AfterFailure, ApplyInv, TypeOK
<1>2. QED
  BY <1>1, StopInv DEF Fault, Crash, Abort, Restarted, Statuses, ghosts

\* A power loss brings back what the ghosts recorded before the rename, and
\* what it takes with a directory of ensureParents counts as disturbed.
LEMMA PowerLossInv ==
    ASSUME ApplyInv, PowerLoss
    PROVE  ApplyInv'
<1>. DEFINE of(L, p) == {u \in L : u.path = p}
            was(L, p) == CHOOSE u \in of(L, p) : TRUE
            torn(L, p) == \E u \in undo \ L : u.path = p /\ ~u.synced
            left(L, p) == IF of(L, p) # {} THEN was(L, p).obj
                          ELSE IF torn(L, p) THEN [disk[p] EXCEPT !.data = <<>>]
                          ELSE disk[p]
            unmade(L, p) == \E u \in L : u.obj = Absent /\ u.path \in Above[p]
            under(D, p) == p \in D \/ \E d \in D : d \in Above[p]
<1>0. PICK L \in SUBSET undo, D \in SUBSET loose :
        /\ disk' = [p \in Paths |-> IF unmade(L, p) \/ under(D, p) THEN Absent ELSE left(L, p)]
        /\ held' = [p \in Paths |-> IF of(L, p) # {} THEN was(L, p).held ELSE held[p]]
        /\ disturbed' =
               {p \in Paths : IF of(L, p) # {} THEN was(L, p).disturbed ELSE p \in disturbed}
               \cup {p \in Paths : under(D, p) /\ left(L, p).kind # "absent"}
        /\ lag' = {p \in Paths : IF of(L, p) # {} THEN was(L, p).lag ELSE p \in lag}
  BY DEF PowerLoss
<1>1. cur \in Paths /\ faults' \in 0..MaxFaults /\ undo \subseteq Undo /\ disk \in [Paths -> Object]
  BY BoundAssumption DEF ApplyInv, TypeOK, PowerLoss
<1>. /\ Restarted /\ undo' = {} /\ loose' = {}
     /\ UNCHANGED <<index, edits, recent>>
  BY DEF PowerLoss
<1>2. \A p \in Paths : ~torn(L, p)
  BY DEF ApplyInv, UndoInv
<1>3. \A p \in Paths : unmade(L, p) => cur \in Above[p] /\ L # {}
  BY <1>0 DEF ApplyInv, UndoInv
<1>4. L # {} => /\ ParentsPresent(cur) /\ cur \notin recent
                /\ \A p \in Paths : cur \in Above[p] => disk[p].kind = "absent"
  BY <1>0 DEF ApplyInv, UndoInv
\* Paths that have an undo record in L: only cur.
<1>5. ASSUME NEW p \in Paths, of(L, p) # {}
      PROVE  /\ p = cur /\ L # {}
             /\ left(L, p) \in Object /\ held'[p] \in Shapes
             /\ left(L, p).kind # "file" => left(L, p).data = <<>>
             /\ left(L, p).kind # "directory"
             /\ p \notin disturbed' => Shape(left(L, p)) = held'[p]
             /\ p \notin lag' => Claim(index[p]) = held'[p]
             /\ p \notin recent
  <2>1. was(L, p) \in L /\ was(L, p).path = p
    BY <1>5
  <2>2. PICK w \in undo : w = was(L, p) /\ w.path = p
    BY <2>1, <1>0
  <2>3. /\ w \in Undo /\ p = cur
        /\ ~w.lag => Claim(index[cur]) = w.held
        /\ ~w.disturbed => Shape(w.obj) = w.held
        /\ w.obj.kind # "file" => w.obj.data = <<>>
        /\ w.obj.kind # "directory"
        /\ cur \notin recent
    BY <2>2, <1>1 DEF ApplyInv, UndoInv
  <2>4. left(L, p) = w.obj /\ held'[p] = w.held
        /\ (w.disturbed => p \in disturbed') /\ (w.lag => p \in lag')
    BY <1>0, <1>5, <2>2
  <2>5. w.obj \in Object /\ w.held \in Shapes
    BY <2>3 DEF Undo
  <2>6. QED
    BY <1>5, <2>3, <2>4, <2>5
\* All other paths.
<1>6. ASSUME NEW p \in Paths, of(L, p) = {}
      PROVE  /\ left(L, p) = disk[p] /\ held'[p] = held[p]
             /\ (p \in disturbed => p \in disturbed') /\ (p \in lag' <=> p \in lag)
  BY <1>0, <1>2, <1>6
<1>. HIDE DEF of, was, torn, left
<1>7. ASSUME NEW p \in Paths
      PROVE  /\ left(L, p) \in Object /\ held'[p] \in Shapes
             /\ left(L, p).kind # "file" => left(L, p).data = <<>>
             /\ p \notin disturbed' => Shape(left(L, p)) = held'[p]
             /\ p \notin lag' => Claim(index[p]) = held'[p]
             /\ p \in recent => p \in disturbed'
  <2>1. CASE of(L, p) # {}
    BY <1>5, <2>1
  <2>2. CASE of(L, p) = {}
    BY <1>1, <1>6, <2>2
       DEF ApplyInv, TypeOK, TreeInv, DiskExplained, IndexMatchesHeld
  <2>3. QED
    BY <2>1, <2>2
<1>8. ASSUME NEW p \in Paths
      PROVE  /\ unmade(L, p) \/ under(D, p) => disk'[p] = Absent
             /\ ~(unmade(L, p) \/ under(D, p)) => disk'[p] = left(L, p)
             /\ p \notin disturbed' => ~under(D, p) \/ left(L, p).kind = "absent"
  BY <1>0
<1>9. TypeOK'
  <2>1. \A p \in Paths : disk'[p] \in Object /\ held'[p] \in Shapes
    BY <1>7, <1>8, RecordLemma
  <2>2. disk' \in [Paths -> Object] /\ held' \in [Paths -> Shapes]
    BY <1>0, <2>1
  <2>3. disturbed' \subseteq Paths /\ lag' \subseteq Paths
    BY <1>0
  <2>4. status' \in Statuses /\ temp' \in Temp /\ current' \in Shapes
    BY RecordLemma DEF Statuses, Restarted
  <2>5. QED
    BY <1>1, <2>2, <2>3, <2>4 DEF ApplyInv, TypeOK, PCs, Statuses, Restarted
<1>10. TreeInv'
  <2>1. SUFFICES ASSUME NEW p \in Paths
                 PROVE  /\ disk'[p].kind # "file" => disk'[p].data = <<>>
                        /\ disk'[p].kind # "absent" =>
                               \A a \in Above[p] : disk'[a].kind = "directory"
    BY DEF TreeInv, ParentsPresent
  <2>2. disk'[p].kind # "file" => disk'[p].data = <<>>
    BY <1>7, <1>8, RecordLemma
  <2>3. ASSUME disk'[p].kind # "absent", NEW a \in Above[p]
        PROVE  disk'[a].kind = "directory"
    <3>1. a \in Paths /\ a # p /\ Above[a] \subseteq Above[p]
      BY <2>3, AboveLemma, TreeAssumption
    <3>2. ~unmade(L, p) /\ ~under(D, p) /\ left(L, p).kind # "absent"
      BY <1>8, <2>3, RecordLemma
    <3>3. ~unmade(L, a) /\ ~under(D, a)
      BY <2>3, <3>1, <3>2
    <3>4. disk[a].kind = "directory" /\ (a = cur => L = {})
      <4>1. CASE of(L, p) # {}
        BY <1>4, <1>5, <3>1, <4>1 DEF ParentsPresent
      <4>2. CASE of(L, p) = {}
        BY <1>4, <1>6, <3>1, <3>2, <4>2 DEF ApplyInv, TreeInv, ParentsPresent
      <4>3. QED
        BY <4>1, <4>2
    <3>5. of(L, a) = {}
      BY <1>5, <3>1, <3>4
    <3>6. QED
      BY <1>6, <1>8, <3>1, <3>3, <3>4, <3>5
  <2>4. QED
    BY <2>2, <2>3
<1>11. DiskExplained'
  <2>1. SUFFICES ASSUME NEW p \in Paths, p \notin disturbed'
                 PROVE  Shape(disk'[p]) = held'[p]
    BY DEF DiskExplained
  <2>2. CASE ~(unmade(L, p) \/ under(D, p))
    BY <1>7, <1>8, <2>1, <2>2
  <2>3. CASE unmade(L, p) \/ under(D, p)
    <3>1. left(L, p).kind = "absent"
      <4>1. CASE under(D, p)
        BY <1>8, <2>1, <4>1
      <4>2. CASE unmade(L, p)
        <5>1. p # cur /\ disk[p].kind = "absent"
          BY <1>3, <1>4, <4>2, AboveLemma
        <5>2. QED
          BY <1>5, <1>6, <5>1
      <4>3. QED
        BY <2>3, <4>1, <4>2
    <3>2. left(L, p).data = <<>> /\ left(L, p) \in Object
      BY <1>7, <3>1
    <3>3. Shape(left(L, p)) = Shape(Absent)
      BY <3>1, <3>2, ShapeLemma, ShapeExt, RecordLemma
    <3>4. QED
      BY <1>7, <1>8, <2>1, <2>3, <3>3
  <2>4. QED
    BY <2>2, <2>3
<1>12. CycleInv' /\ DoneInv' /\ UndoInv'
  BY DEF CycleInv, DoneInv, UndoInv, Applying, Restarted
<1>13. BuildInv'
  BY RecordLemma DEF BuildInv, Restarted
<1>14. IndexMatchesHeld'
  BY <1>7 DEF IndexMatchesHeld
<1>15. (recent \subseteq disturbed)'
  BY <1>7 DEF ApplyInv, TypeOK
<1>16. QED
  BY <1>9, <1>10, <1>11, <1>12, <1>13, <1>14, <1>15 DEF ApplyInv

\* A local change of the paths P.
LEMMA TouchInv ==
    ASSUME ApplyInv, NEW P \in SUBSET Paths, Touch(P),
           disk' \in [Paths -> Object], \A p \in Paths \ P : disk'[p] = disk[p],
           TreeInv',
           temp' \in Temp, temp'.data = temp.data, temp'.synced = temp.synced,
           temp.state = "none" => temp'.state = "none",
           temp'.state = "linked" => ParentsPresent(cur)'
    PROVE  ApplyInv'
<1>. USE DEF Touch
<1>0. cur \in Paths /\ cur' = cur /\ entry' = entry /\ offer' = offer
      /\ (cur \notin P => object' = object)
  BY DEF ApplyInv, TypeOK, entry, object
<1>1. TypeOK'
  BY BoundAssumption DEF ApplyInv, TypeOK
<1>2. CycleInv'
  BY <1>0 DEF ApplyInv, CycleInv, Applying, entry
<1>3. DoneInv'
  BY <1>0 DEF ApplyInv, DoneInv, Applying
<1>4. BuildInv'
  BY <1>0 DEF ApplyInv, BuildInv
<1>5. UndoInv'
  BY DEF UndoInv
<1>6. DiskExplained' /\ IndexMatchesHeld'
  BY DEF ApplyInv, DiskExplained, IndexMatchesHeld
<1>7. (recent \subseteq disturbed)'
  BY DEF ApplyInv
<1>8. QED
  BY <1>1, <1>2, <1>3, <1>4, <1>5, <1>6, <1>7 DEF ApplyInv

\* One path that is no directory changes under its directories.
LEMMA PlaceInv ==
    ASSUME ApplyInv, NEW p \in Paths, NEW o \in Object, ParentsPresent(p),
           disk[p].kind # "directory", o.kind # "file" => o.data = <<>>,
           disk' = [disk EXCEPT ![p] = o], Touch({p}), temp' = temp
    PROVE  ApplyInv'
<1>1. disk' \in [Paths -> Object] /\ disk'[p] = o /\ \A q \in Paths \ {p} : disk'[q] = disk[q]
  BY DEF ApplyInv, TypeOK
<1>2. \A q \in Paths : p \in Above[q] => q # p /\ disk[q].kind = "absent"
  BY AboveLemma DEF ApplyInv, TreeInv, ParentsPresent
<1>3. \A q \in Paths : ParentsPresent(q) => \A a \in Above[q] : disk'[a].kind = "directory"
  BY <1>1, AboveLemma DEF ParentsPresent
<1>4. TreeInv'
  <2>1. SUFFICES ASSUME NEW q \in Paths
                 PROVE  /\ disk'[q].kind # "file" => disk'[q].data = <<>>
                        /\ disk'[q].kind # "absent" =>
                               \A a \in Above[q] : disk'[a].kind = "directory"
    BY DEF TreeInv, ParentsPresent
  <2>2. CASE q = p
    BY <2>2, <1>1, <1>3
  <2>3. CASE q # p
    BY <2>3, <1>1, <1>3 DEF ApplyInv, TreeInv
  <2>4. QED
    BY <2>2, <2>3
<1>5. temp'.state = "linked" => ParentsPresent(cur)'
  BY <1>3 DEF ApplyInv, BuildInv, TypeOK, ParentsPresent, Touch
<1>6. QED
  BY <1>1, <1>4, <1>5, TouchInv DEF ApplyInv, TypeOK

\* Another program removes a tree.
LEMMA UserRemoveInv ==
    ASSUME ApplyInv, NEW p \in Paths, UserRemove(p)
    PROVE  ApplyInv'
<1>. USE DEF UserRemove
<1>0. cur \in Paths /\ temp \in Temp /\ Below(p) \subseteq Paths /\ cur' = cur
  BY DEF ApplyInv, TypeOK, Below, Touch
<1>1. /\ disk' \in [Paths -> Object]
      /\ \A q \in Paths \ Below(p) : disk'[q] = disk[q]
      /\ \A q \in Below(p) : disk'[q] = Absent
  BY <1>0, RecordLemma DEF ApplyInv, TypeOK
<1>2. \A q \in Paths : \A a \in Above[q] : a \in Below(p) => q \in Below(p)
  BY AboveLemma DEF Below
<1>3. TreeInv'
  <2>1. SUFFICES ASSUME NEW q \in Paths
                 PROVE  /\ disk'[q].kind # "file" => disk'[q].data = <<>>
                        /\ disk'[q].kind # "absent" =>
                               \A a \in Above[q] : disk'[a].kind = "directory"
    BY DEF TreeInv, ParentsPresent
  <2>2. CASE q \in Below(p)
    BY <2>2, <1>1, RecordLemma
  <2>3. CASE q \notin Below(p)
    BY <2>3, <1>1, <1>2, AboveLemma DEF ApplyInv, TreeInv, ParentsPresent
  <2>4. QED
    BY <2>2, <2>3
<1>4. /\ temp' \in Temp /\ temp'.data = temp.data /\ temp'.synced = temp.synced
      /\ temp.state = "none" => temp'.state = "none"
  BY <1>0 DEF Temp
<1>5. temp'.state = "linked" => ParentsPresent(cur)'
  <2>1. SUFFICES ASSUME temp'.state = "linked", NEW a \in Above[cur]
                 PROVE  disk'[a].kind = "directory"
    BY <1>0 DEF ParentsPresent
  <2>2. p \notin Above[cur] /\ temp.state = "linked"
    BY <2>1, <1>0 DEF Temp
  <2>3. a \notin Below(p) /\ a \in Paths
    BY <2>2, <1>0, AboveLemma DEF Below
  <2>4. QED
    BY <2>2, <2>3, <1>1 DEF ApplyInv, BuildInv, ParentsPresent
<1>6. QED
  BY <1>0, <1>1, <1>3, <1>4, <1>5, TouchInv

\* Another program changes the tree.
LEMMA UserInv ==
    ASSUME ApplyInv, User
    PROVE  ApplyInv'
<1>1. ASSUME NEW p \in Paths, NEW c \in Contents, NEW m \in Modes, UserWrite(p, c, m)
      PROVE  ApplyInv'
  <2>1. File(c, m) \in Object /\ File(c, m).kind = "file"
    BY FileLemma, DataAssumption
  <2>2. QED
    BY <1>1, <2>1, PlaceInv DEF UserWrite
<1>2. ASSUME NEW p \in Paths, UserMkdir(p)
      PROVE  ApplyInv'
  BY <1>2, PlaceInv, RecordLemma DEF UserMkdir
<1>3. ASSUME NEW p \in Paths, UserPlaceOther(p)
      PROVE  ApplyInv'
  BY <1>3, PlaceInv, RecordLemma DEF UserPlaceOther
<1>4. QED
  BY <1>1, <1>2, <1>3, UserRemoveInv DEF User

\* The invariant is kept by every step.
LEMMA NextInv ==
    ASSUME ApplyInv, ~LateWriteback, [Next]_vars
    PROVE  ApplyInv'
<1>1. ASSUME UNCHANGED vars PROVE ApplyInv'
  <2>1. UNCHANGED <<disk, index, pc, offer, todo, cur, current, temp, undo, loose, status,
                    edits, faults, held, disturbed, recent, lag>>
    BY <1>1 DEF vars, job, counters, ghosts
  <2>2. TypeOK' /\ TreeInv' /\ CycleInv' /\ DoneInv' /\ BuildInv'
    BY <2>1 DEF ApplyInv, TypeOK, TreeInv, CycleInv, DoneInv, BuildInv, Applying,
                entry, object, ParentsPresent
  <2>3. UndoInv' /\ DiskExplained' /\ IndexMatchesHeld' /\ (recent \subseteq disturbed)'
    BY <2>1 DEF ApplyInv, UndoInv, DiskExplained, IndexMatchesHeld, ParentsPresent
  <2>4. QED
    BY <2>2, <2>3 DEF ApplyInv
<1>2. ASSUME Daemon PROVE ApplyInv'
  BY <1>2, CycleBeginInv, CycleNextInv, CycleEndInv, ApplyOpenInv, ApplyFingerprintInv,
     ApplyChmodInv, ApplyParentsInv, ApplyMkdirInv, ApplyCreateInv, ApplyCopyInv,
     ApplyVerifyInv, ApplyRecheckInv, ApplyRenameInv, ApplySyncDirInv, ApplyPutInv
     DEF Daemon, ApplyStep
<1>3. ASSUME Failure PROVE ApplyInv'
  BY <1>3, FaultInv, PowerLossInv DEF Failure
<1>4. QED
  BY <1>1, <1>2, <1>3, UserInv DEF Next

----------------------------------------------------------------------------
(* The theorems.                                                           *)

\* What each control point of Apply has established holds in every state that
\* cycles, local changes, failed calls, crashes and power losses can reach.
LEMMA ApplyInvHolds == ASSUME ~LateWriteback PROVE Spec => []ApplyInv
<1>1. ApplyInv /\ [Next]_vars => ApplyInv'
  BY NextInv
<1>2. QED
  BY <1>1, InvInit, PTL DEF Spec

\* An object installed by a rename or a mkdir, and what undoes it, are typed.
LEMMA InstallType ==
    ASSUME TypeOK, NEW o \in Object, NEW b \in BOOLEAN, Install(o, b)
    PROVE  /\ disk' \in [Paths -> Object] /\ held' \in [Paths -> Shapes]
           /\ undo' \subseteq Undo /\ disturbed' \subseteq Paths
           /\ recent' \subseteq Paths /\ lag' \subseteq Paths
<1>1. /\ cur \in Paths /\ object \in Object /\ held[cur] \in Shapes
      /\ entry \in Entry
  BY OfferLemma DEF TypeOK, object, entry
<1>2. Claim(entry) \in Shapes
  BY <1>1, ShapeLemma
<1>3. [path |-> cur, obj |-> object, held |-> held[cur], disturbed |-> cur \in disturbed,
       lag |-> cur \in lag, synced |-> b] \in Undo
  BY <1>1 DEF Undo
<1>4. disk' \in [Paths -> Object] /\ held' \in [Paths -> Shapes]
  BY <1>1, <1>2 DEF Install, TypeOK
<1>5. undo' \subseteq Undo
  BY <1>3 DEF Install, TypeOK
<1>6. QED
  BY <1>1, <1>4, <1>5 DEF Install, TypeOK

\* A power loss brings back typed objects only, also late ones.
LEMMA PowerLossType ==
    ASSUME TypeOK, PowerLoss
    PROVE  TypeOK'
<1>1. PICK lost \in SUBSET undo, dropped \in SUBSET loose :
        LET of(p) == {u \in lost : u.path = p}
            was(p) == CHOOSE u \in of(p) : TRUE
            torn(p) == \E u \in undo \ lost : u.path = p /\ ~u.synced
            left(p) == IF of(p) # {} THEN was(p).obj
                       ELSE IF torn(p) THEN [disk[p] EXCEPT !.data = <<>>]
                       ELSE disk[p]
            unmade(p) == \E u \in lost : u.obj = Absent /\ u.path \in Above[p]
            under(p) == p \in dropped \/ \E d \in dropped : d \in Above[p]
        IN  /\ disk' = [p \in Paths |-> IF unmade(p) \/ under(p) THEN Absent ELSE left(p)]
            /\ held' = [p \in Paths |-> IF of(p) # {} THEN was(p).held ELSE held[p]]
            /\ disturbed' =
                   {p \in Paths : IF of(p) # {} THEN was(p).disturbed ELSE p \in disturbed}
                   \cup {p \in Paths : under(p) /\ left(p).kind # "absent"}
            /\ lag' = {p \in Paths : IF of(p) # {} THEN was(p).lag ELSE p \in lag}
  BY DEF PowerLoss
<1>. DEFINE of(p) == {u \in lost : u.path = p}
            was(p) == CHOOSE u \in of(p) : TRUE
            torn(p) == \E u \in undo \ lost : u.path = p /\ ~u.synced
            left(p) == IF of(p) # {} THEN was(p).obj
                       ELSE IF torn(p) THEN [disk[p] EXCEPT !.data = <<>>]
                       ELSE disk[p]
            gone(p) == \/ \E u \in lost : u.obj = Absent /\ u.path \in Above[p]
                       \/ p \in dropped \/ \E d \in dropped : d \in Above[p]
<1>2. disk \in [Paths -> Object] /\ held \in [Paths -> Shapes]
  BY DEF TypeOK
<1>3. ASSUME NEW p \in Paths, of(p) # {}
      PROVE  was(p).obj \in Object /\ was(p).held \in Shapes
  <2>1. was(p) \in of(p)
    BY <1>3
  <2>2. was(p) \in Undo
    BY <2>1 DEF TypeOK
  <2>3. QED
    BY <2>2 DEF Undo
<1>4. ASSUME NEW p \in Paths PROVE left(p) \in Object
  <2>1. CASE of(p) # {}
    BY <1>3, <2>1
  <2>2. disk[p] \in Object /\ [disk[p] EXCEPT !.data = <<>>] \in Object
    <3>1. disk[p] \in Object
      BY <1>2
    <3>2. <<>> \in Seq(Block)
      OBVIOUS
    <3>3. QED
      BY <3>1, <3>2 DEF Object
  <2>3. QED
    BY <2>1, <2>2
<1>5. disk' = [p \in Paths |-> IF gone(p) THEN Absent ELSE left(p)]
  BY <1>1
<1>6. held' = [p \in Paths |-> IF of(p) # {} THEN was(p).held ELSE held[p]]
  BY <1>1
<1>7. disturbed' \subseteq Paths /\ lag' \subseteq Paths
  BY <1>1
<1>. HIDE DEF of, was, left, gone
<1>8. disk' \in [Paths -> Object]
  BY <1>4, <1>5, RecordLemma
<1>9. held' \in [Paths -> Shapes]
  BY <1>2, <1>3, <1>6
<1>10. /\ faults' \in 0..MaxFaults /\ undo' = {} /\ loose' = {} /\ pc' = "idle"
       /\ status' = "none" /\ todo' = {} /\ current' = Nothing /\ temp' = NoTemp
       /\ UNCHANGED <<index, edits, recent, offer, cur>>
  BY BoundAssumption DEF TypeOK, PowerLoss, Restarted
<1>11. QED
  BY <1>7, <1>8, <1>9, <1>10, RecordLemma DEF TypeOK, PCs

\* Every step of the system keeps the types.
LEMMA TypeNext ==
    ASSUME TypeOK, [Next]_vars
    PROVE  TypeOK'
<1>0. /\ cur \in Paths /\ object \in Object /\ entry \in Entry /\ temp \in Temp
      /\ current \in Shapes /\ Shape(object) \in Shapes /\ Claim(entry) \in Shapes
      /\ Above[cur] \subseteq Paths
  BY OfferLemma, ShapeLemma, TreeAssumption DEF TypeOK, object, entry
<1>1. CASE UNCHANGED vars
  BY <1>1 DEF vars, job, counters, ghosts, TypeOK
<1>2. ASSUME NEW m \in Manifests, CycleBegin(m) PROVE TypeOK'
  BY <1>2 DEF CycleBegin, TypeOK, PCs, counters, ghosts
<1>3. CASE CycleNext
  BY <1>3 DEF CycleNext, TypeOK, PCs, counters, ghosts
<1>4. CASE CycleEnd
  BY <1>4 DEF CycleEnd, TypeOK, PCs, counters, ghosts, job
<1>5. CASE ApplyOpen
  BY <1>0, <1>5, RecordLemma DEF ApplyOpen, Look, Abort, Goto, TypeOK, PCs, counters
<1>6. CASE ApplyFingerprint
  BY <1>0, <1>6, RecordLemma DEF ApplyFingerprint, Look, Abort, Goto, TypeOK, PCs, counters
<1>7. CASE ApplyChmod
  <2>1. ASSUME NEW q \in Paths PROVE [disk EXCEPT ![q].mode = entry.mode] \in [Paths -> Object]
    <3>1. disk[q] \in Object /\ entry.mode \in Modes \cup {NoMode}
      BY <1>0 DEF TypeOK, Entry
    <3>2. [disk[q] EXCEPT !.mode = entry.mode] \in Object
      BY <3>1 DEF Object
    <3>3. QED
      BY <3>2 DEF TypeOK
  <2>2. disk' \in [Paths -> Object] /\ disturbed' \subseteq Paths
    BY <1>0, <1>7, <2>1 DEF ApplyChmod, TypeOK
  <2>3. QED
    BY <1>7, <2>2, RecordLemma DEF ApplyChmod, Abort, Goto, TypeOK, PCs, counters
<1>8. CASE ApplyParents
  <2>1. disk' \in [Paths -> Object] /\ loose' \subseteq Paths
    BY <1>0, <1>8, RecordLemma DEF ApplyParents, TypeOK
  <2>2. QED
    BY <1>8, <2>1, RecordLemma DEF ApplyParents, Abort, Goto, TypeOK, PCs, counters, ghosts
<1>9. CASE ApplyMkdir
  <2>1. CASE Install(Directory, TRUE) /\ Goto("syncdir") /\ UNCHANGED <<current, temp>>
    BY <1>9, <2>1, InstallType, RecordLemma DEF ApplyMkdir, Goto, TypeOK, PCs, counters
  <2>2. CASE Abort("error") /\ UNCHANGED <<disk, undo, ghosts>>
    BY <1>9, <2>2, RecordLemma DEF ApplyMkdir, Abort, TypeOK, PCs, counters, ghosts
  <2>3. QED
    BY <1>9, <2>1, <2>2 DEF ApplyMkdir
<1>10. CASE ApplyCreate
  <2>1. temp' \in Temp
    <3>1. [state |-> "linked", data |-> <<>>, synced |-> FALSE] \in Temp
      BY DEF Temp
    <3>2. QED
      BY <1>10, <3>1, RecordLemma DEF ApplyCreate, Abort
  <2>2. QED
    BY <1>10, <2>1, RecordLemma DEF ApplyCreate, Abort, Goto, TypeOK, PCs, counters, ghosts
<1>11. ASSUME NEW d \in Block, ApplyCopy(d) PROVE TypeOK'
  <2>1. temp' \in Temp
    <3>1. Append(temp.data, d) \in Seq(Block)
      BY <1>0, <1>11 DEF Temp
    <3>2. [temp EXCEPT !.data = Append(temp.data, d)] \in Temp
      BY <1>0, <3>1 DEF Temp
    <3>3. QED
      BY <1>11, <3>2 DEF ApplyCopy
  <2>2. QED
    BY <1>11, <2>1 DEF ApplyCopy, TypeOK, counters, ghosts
<1>12. CASE ApplyVerify
  <2>1. temp' \in Temp
    BY <1>0, <1>12, RecordLemma DEF ApplyVerify, Abort, Temp
  <2>2. QED
    BY <1>12, <2>1, RecordLemma DEF ApplyVerify, Abort, Goto, TypeOK, PCs, counters, ghosts
<1>13. CASE ApplyRecheck
  BY <1>0, <1>13, RecordLemma DEF ApplyRecheck, Look, Abort, Goto, TypeOK, PCs, counters
<1>14. CASE ApplyRename
  <2>1. File(temp.data, entry.mode) \in Object /\ temp.synced \in BOOLEAN
    BY <1>0 DEF File, Object, Entry, Temp
  <2>2. CASE /\ Install(File(temp.data, entry.mode), temp.synced)
             /\ temp' = NoTemp /\ Goto("syncdir") /\ UNCHANGED current
    BY <1>14, <2>1, <2>2, InstallType, RecordLemma
       DEF ApplyRename, Goto, TypeOK, PCs, counters
  <2>3. CASE Abort("error") /\ UNCHANGED <<disk, undo, ghosts>>
    BY <1>14, <2>3, RecordLemma DEF ApplyRename, Abort, TypeOK, PCs, counters, ghosts
  <2>4. QED
    BY <1>14, <2>2, <2>3 DEF ApplyRename
<1>15. CASE ApplySyncDir
  BY <1>15, RecordLemma DEF ApplySyncDir, Abort, Goto, TypeOK, PCs, counters, ghosts
<1>16. CASE ApplyPut
  BY <1>0, <1>16, RecordLemma DEF ApplyPut, Goto, TypeOK, PCs, counters
<1>17. CASE Fault \/ Crash
  BY <1>17, BoundAssumption, RecordLemma
     DEF Fault, Crash, Abort, Restarted, AfterFailure, TypeOK, PCs, ghosts
<1>18. CASE User
  <2>1. ASSUME NEW T \in SUBSET Paths, Touch(T), disk' \in [Paths -> Object], temp' \in Temp
        PROVE  TypeOK'
    BY <2>1, BoundAssumption DEF Touch, TypeOK
  <2>2. ASSUME NEW p \in Paths, NEW c \in Contents, NEW m \in Modes, UserWrite(p, c, m)
        PROVE  TypeOK'
    <3>1. File(c, m) \in Object
      BY FileLemma, DataAssumption
    <3>2. disk' \in [Paths -> Object]
      BY <2>2, <3>1 DEF UserWrite, TypeOK
    <3>3. QED
      BY <1>0, <2>1, <2>2, <3>2 DEF UserWrite
  <2>3. ASSUME NEW p \in Paths, UserMkdir(p) \/ UserPlaceOther(p) PROVE TypeOK'
    <3>1. disk' \in [Paths -> Object]
      BY <2>3, RecordLemma DEF UserMkdir, UserPlaceOther, TypeOK
    <3>2. QED
      BY <1>0, <2>1, <2>3, <3>1 DEF UserMkdir, UserPlaceOther
  <2>4. ASSUME NEW p \in Paths, UserRemove(p) PROVE TypeOK'
    <3>1. disk' \in [Paths -> Object] /\ Below(p) \subseteq Paths
      BY <2>4, RecordLemma DEF UserRemove, TypeOK, Below
    <3>2. temp' \in Temp
      BY <1>0, <2>4 DEF UserRemove, Temp
    <3>3. QED
      BY <2>1, <2>4, <3>1, <3>2 DEF UserRemove
  <2>5. QED
    BY <1>18, <2>2, <2>3, <2>4 DEF User
<1>19. QED
  BY <1>1, <1>2, <1>3, <1>4, <1>5, <1>6, <1>7, <1>8, <1>9, <1>10, <1>11, <1>12, <1>13,
     <1>14, <1>15, <1>16, <1>17, <1>18, PowerLossType
     DEF Next, Daemon, ApplyStep, Failure

\* Every variable keeps its type, also when the kernel writes a rename back
\* late: a power loss then brings back objects of earlier cycles.
THEOREM TypeCorrect == Spec => []TypeOK
<1>1. Init => TypeOK
  BY InvInit DEF ApplyInv
<1>2. TypeOK /\ [Next]_vars => TypeOK'
  BY TypeNext
<1>3. QED
  BY <1>1, <1>2, PTL DEF Spec

\* A path other programs have not disturbed holds exactly what Apply installed
\* last: failed fetches, crashes and power losses expose no partial file, as
\* long as a rename is written back before the daemon runs again.
THEOREM DiskExplainedHolds == ASSUME ~LateWriteback PROVE Spec => []DiskExplained
<1>1. ApplyInv => DiskExplained
  BY DEF ApplyInv
<1>2. QED
  BY <1>1, ApplyInvHolds, PTL

\* Outside the window between rename and put the index describes what Apply
\* installed.
THEOREM IndexMatchesHeldHolds == ASSUME ~LateWriteback PROVE Spec => []IndexMatchesHeld
<1>1. ApplyInv => IndexMatchesHeld
  BY DEF ApplyInv
<1>2. QED
  BY <1>1, ApplyInvHolds, PTL

\* One step of the system replaces nothing but what Apply itself installed.
LEMMA OwnStep ==
    ASSUME ApplyInv, [Next]_vars, edits' = edits, faults' = faults,
           NEW p \in Paths, Shape(disk'[p]) # Shape(disk[p])
    PROVE  \/ Shape(disk[p]) = held[p]
           \/ p \in lag
           \/ p \in recent /\ p = cur
           \/ /\ p \in recent /\ p \in Above[cur]
              /\ disk[p].kind = "absent" /\ disk'[p].kind = "directory"
<1>0. cur \in Paths /\ disk \in [Paths -> Object] /\ edits \in Nat /\ faults \in Nat
  BY DEF ApplyInv, TypeOK
<1>1. disk' # disk
  OBVIOUS
<1>2. ASSUME ApplyChmod PROVE FALSE
  <2>1. PICK q \in Paths : disk' = [disk EXCEPT ![q].mode = entry.mode]
    BY <1>0, <1>1, <1>2 DEF ApplyChmod
  <2>2. disk[p] \in Object
    BY <1>0
  <2>3. disk'[p].kind = disk[p].kind /\ disk'[p].data = disk[p].data
    BY <1>0, <2>1, <2>2 DEF Object
  <2>4. QED
    BY <2>3 DEF Shape
<1>3. ASSUME ApplyParents
      PROVE  /\ p \in recent /\ p \in Above[cur]
             /\ disk[p].kind = "absent" /\ disk'[p].kind = "directory"
  <2>1. /\ pc = "parents" /\ ParentsPassable(cur)
        /\ disk' = [d \in Paths |-> IF d \in Above[cur] THEN Directory ELSE disk[d]]
    BY <1>1, <1>3 DEF ApplyParents
  <2>2. p \in Above[cur]
    BY <2>1
  <2>3. disk[p].kind = "absent"
    <3>1. SUFFICES ASSUME disk[p].kind = "directory" PROVE FALSE
      BY <2>1, <2>2 DEF ParentsPassable
    <3>2. disk[p].data = <<>> /\ disk[p] \in Object
      BY <1>0, <3>1 DEF ApplyInv, TreeInv
    <3>3. Shape(disk[p]) = Shape(Directory)
      BY <3>1, <3>2, ShapeLemma, ShapeExt, RecordLemma
    <3>4. QED
      BY <2>1, <2>2, <3>3
  <2>4. QED
    BY <2>1, <2>2, <2>3, ParentsLemma, RecordLemma
<1>4. ASSUME NEW o, NEW b, Install(o, b), pc \in {"mkdir", "rename"},
             cur \notin recent => Shape(object) = current,
             entry.kind = "file" \/ current = Nothing
      PROVE  Shape(disk[p]) = held[p] \/ p \in lag \/ (p \in recent /\ p = cur)
  <2>1. p = cur
    BY <1>0, <1>4 DEF Install
  <2>2. Claim(index[cur]) = current
    BY <1>4 DEF ApplyInv, BuildInv
  <2>3. cur \notin lag => held[cur] = current
    BY <1>0, <2>2 DEF ApplyInv, IndexMatchesHeld
  <2>4. QED
    BY <1>4, <2>1, <2>3 DEF object
<1>5. ASSUME ApplyMkdir
      PROVE  Shape(disk[p]) = held[p] \/ p \in lag \/ (p \in recent /\ p = cur)
  <2>1. pc = "mkdir" /\ Install(Directory, TRUE) /\ object.kind = "absent"
    BY <1>1, <1>5 DEF ApplyMkdir
  <2>2. current = Nothing
    BY <2>1 DEF ApplyInv, BuildInv
  <2>3. object \in Object /\ object.data = <<>>
    BY <1>0, <2>1 DEF ApplyInv, TreeInv, object
  <2>4. Shape(object) = current
    BY <2>1, <2>2, <2>3, ShapeLemma, ShapeExt, RecordLemma
  <2>5. QED
    BY <1>4, <2>1, <2>2, <2>4
<1>6. ASSUME ApplyRename
      PROVE  Shape(disk[p]) = held[p] \/ p \in lag \/ (p \in recent /\ p = cur)
  <2>1. pc = "rename" /\ Install(File(temp.data, entry.mode), temp.synced)
    BY <1>1, <1>6 DEF ApplyRename
  <2>2. entry.kind = "file" /\ (cur \notin recent => Shape(object) = current)
    BY <2>1 DEF ApplyInv, BuildInv, CycleInv
  <2>3. QED
    BY <1>4, <2>1, <2>2
<1>7. ASSUME Failure \/ User PROVE FALSE
  BY <1>0, <1>7 DEF Failure, Fault, Crash, PowerLoss, User, UserWrite, UserMkdir,
                    UserPlaceOther, UserRemove, Touch
<1>8. QED
  <2>1. Daemon
    BY <1>1, <1>7 DEF Next, vars
  <2>2. ApplyChmod \/ ApplyParents \/ ApplyMkdir \/ ApplyRename
    BY <1>1, <2>1 DEF Daemon, ApplyStep, CycleBegin, CycleNext, CycleEnd, ApplyOpen,
          ApplyFingerprint, ApplyCreate, ApplyCopy, ApplyVerify, ApplyRecheck,
          ApplySyncDir, ApplyPut
  <2>3. QED
    BY <2>2, <1>2, <1>3, <1>5, <1>6

\* No step of the daemon replaces or recreates what another program left at a
\* path (Apply's comparison with the index and its recheck before the rename),
\* but in the window after the last look at the path being applied, and when
\* ensureParents makes a directory again that was removed after its turn.
THEOREM OnlyOwnReplacedHolds == ASSUME ~LateWriteback PROVE Spec => OnlyOwnReplaced
<1>. DEFINE Own == (edits' = edits /\ faults' = faults) =>
                     \A p \in Paths : Shape(disk'[p]) # Shape(disk[p]) =>
                         \/ Shape(disk[p]) = held[p]
                         \/ p \in lag
                         \/ p \in recent /\ p = cur
                         \/ /\ p \in recent /\ p \in Above[cur]
                            /\ disk[p].kind = "absent" /\ disk'[p].kind = "directory"
<1>1. ApplyInv /\ [Next]_vars => [Own]_vars
  BY OwnStep
<1>2. Spec => [][Own]_vars
  BY <1>1, ApplyInvHolds, PTL DEF Spec
<1>3. QED
  BY <1>2 DEF OnlyOwnReplaced

----------------------------------------------------------------------------
(* What a status tells: SuccessMeansSynced and AlarmExplained.             *)

\* A path keeps its row and its object, or it is known to be disturbed.
LEMMA SyncedKept ==
    ASSUME NEW p \in Paths, Synced(p), index'[p] = index[p], offer' = offer,
           p \in disturbed' \/ (disk'[p] = disk[p] /\ p \notin disturbed)
    PROVE  Synced(p)'
BY DEF Synced

\* A cycle that ends without success says nothing.
LEMMA SyncedStop ==
    ASSUME pc' = "idle", status' # "ok"
    PROVE  SyncedInv' /\ SuccessMeansSynced'
BY DEF SyncedInv, SuccessMeansSynced, Applying

\* Apply goes on with its entry, and the other paths stay as they are.
LEMMA SyncedGoto ==
    ASSUME SyncedInv, Applying, NEW next \in PCs \ {"idle", "next"}, Goto(next),
           \A p \in Paths \ {cur} : (offer[p].kind # "none" /\ p \notin todo /\ Synced(p)) => Synced(p)',
           (next \in {"syncdir", "put"} /\ entry.kind = "file" /\ cur \notin recent') =>
               disk'[cur].mode = entry.mode
    PROVE  SyncedInv' /\ SuccessMeansSynced'
<1>1. pc' = next /\ pc # "idle" /\ Applying' /\ UNCHANGED <<todo, offer, cur>>
  BY DEF Goto, Applying, PCs
<1>2. pc' # "idle"
  BY <1>1 DEF PCs
<1>3. entry' = entry /\ object' = disk'[cur]
  BY <1>1 DEF entry, object
<1>4. QED
  BY <1>1, <1>2, <1>3 DEF SyncedInv, SuccessMeansSynced

\* Directories made on the way to an entry were listed and found in place, or
\* somebody else removed them.
LEMMA SyncedParents ==
    ASSUME ApplyInv, SyncedInv, ApplyParents
    PROVE  SyncedInv' /\ SuccessMeansSynced'
<1>0. disk \in [Paths -> Object] /\ cur \in Paths /\ entry.kind # "none" /\ pc = "parents" /\ Applying
  BY DEF ApplyInv, TypeOK, CycleInv, Applying, ApplyParents
<1>1. CASE ~ParentsPassable(cur)
  BY <1>1, SyncedStop DEF ApplyParents, Abort
<1>2. CASE ParentsPassable(cur)
  <2>1. /\ disk' = [d \in Paths |-> IF d \in Above[cur] THEN Directory ELSE disk[d]]
        /\ UNCHANGED <<index, disturbed, recent, offer>>
        /\ Goto(IF entry.kind = "file" THEN "create" ELSE IF current = Nothing THEN "mkdir" ELSE "put")
    BY <1>2 DEF ApplyParents, ghosts, Goto
  <2>2. ASSUME NEW p \in Paths \ {cur}, offer[p].kind # "none", Synced(p)
        PROVE  Synced(p)'
    <3>1. CASE p \notin Above[cur] \/ p \in disturbed
      BY <2>1, <2>2, <3>1, SyncedKept
    <3>2. CASE p \in Above[cur] /\ p \notin disturbed
      <4>1. offer \in [Paths -> Entry] /\ (offer[p].kind = "directory" => offer[p].hash = <<>>)
        BY OfferLemma DEF ApplyInv, TypeOK
      <4>2. disk[p] \in Object /\ Shape(disk[p]) = Claim(offer[p])
        BY <1>0, <2>2, <3>2 DEF Synced
      <4>3. disk[p].kind = offer[p].kind /\ disk[p].kind \in {"absent", "directory"}
        BY <1>2, <2>2, <3>2, <4>1, <4>2, ShapeLemma DEF ParentsPassable
      <4>4. offer[p].kind = "directory" /\ offer[p].hash = <<>>
        BY <2>2, <4>1, <4>3 DEF Entry
      <4>5. disk'[p] = Directory /\ Shape(Directory) = Claim(offer[p])
        BY <2>1, <3>2, <4>1, <4>4, ShapeLemma, ShapeExt, RecordLemma
      <4>6. QED
        BY <2>1, <2>2, <4>4, <4>5 DEF Synced
    <3>3. QED
      BY <3>1, <3>2
  <2>3. QED
    BY <1>0, <2>1, <2>2, SyncedGoto DEF PCs
<1>3. QED
  BY <1>1, <1>2

\* The object is in place with its permission bits: mkdir, rename and chmod.
LEMMA SyncedPlaced ==
    ASSUME ApplyInv, SyncedInv, ApplyMkdir \/ ApplyRename \/ ApplyChmod
    PROVE  SyncedInv' /\ SuccessMeansSynced'
<1>0. disk \in [Paths -> Object] /\ cur \in Paths /\ Applying
  BY DEF ApplyInv, TypeOK, CycleInv, Applying, ApplyMkdir, ApplyRename, ApplyChmod
<1>1. CASE pc' = "idle"
  BY <1>1, SyncedStop DEF ApplyMkdir, ApplyRename, ApplyChmod, Abort, Goto
<1>2. CASE pc' # "idle"
  <2>1. /\ \A p \in Paths \ {cur} :
               p \in disturbed' \/ (disk'[p] = disk[p] /\ p \notin disturbed)
        /\ UNCHANGED <<index, offer>>
    BY <1>0, <1>2 DEF ApplyMkdir, ApplyRename, ApplyChmod, Abort, Install, Goto, ghosts
  <2>2. ASSUME NEW p \in Paths \ {cur}, Synced(p) PROVE Synced(p)'
    BY <2>1, <2>2, SyncedKept
  <2>3. CASE ApplyMkdir
    <3>1. Goto("syncdir") /\ entry.kind # "file"
      BY <1>2, <2>3 DEF ApplyMkdir, Abort, ApplyInv, CycleInv
    <3>2. QED
      BY <1>0, <2>2, <3>1, SyncedGoto DEF PCs
  <2>4. CASE ApplyRename
    <3>1. Goto("syncdir") /\ Install(File(temp.data, entry.mode), temp.synced)
      BY <1>2, <2>4 DEF ApplyRename, Abort
    <3>2. disk'[cur].mode = entry.mode
      BY <1>0, <3>1 DEF Install, File
    <3>3. QED
      BY <1>0, <2>2, <3>1, <3>2, SyncedGoto DEF PCs
  <2>5. CASE ApplyChmod
    <3>1. Goto("put") /\ entry.kind = "file" /\ UNCHANGED recent /\ pc = "chmod"
      BY <1>2, <2>5 DEF ApplyChmod, Abort, ApplyInv, CycleInv, ghosts
    <3>2. cur \notin recent => object.kind = "file"
      <4>1. object \in Object /\ entry \in Entry
        BY <1>0, OfferLemma DEF ApplyInv, TypeOK, object, entry
      <4>2. QED
        BY <3>1, <4>1, ShapeLemma DEF ApplyInv, BuildInv
    <3>3. cur \notin recent => disk'[cur].mode = entry.mode
      <4>1. disk[cur] \in Object
        BY <1>0
      <4>2. QED
        BY <1>0, <1>2, <2>5, <3>2, <4>1 DEF ApplyChmod, Abort, Object
    <3>4. QED
      BY <1>0, <2>2, <3>1, <3>3, SyncedGoto DEF PCs
  <2>6. QED
    BY <2>3, <2>4, <2>5
<1>3. QED
  BY <1>1, <1>2

\* The steps of Apply that only look, or work on the temporary file.
LEMMA SyncedQuiet ==
    ASSUME ApplyInv, SyncedInv,
           \/ ApplyOpen \/ ApplyFingerprint \/ ApplyCreate \/ ApplyVerify
           \/ ApplyRecheck \/ ApplySyncDir \/ \E d \in Block : ApplyCopy(d)
    PROVE  SyncedInv' /\ SuccessMeansSynced'
<1>. USE DEF ApplyOpen, ApplyFingerprint, ApplyCreate, ApplyVerify, ApplyRecheck, ApplySyncDir, ApplyCopy
<1>1. Applying /\ UNCHANGED <<disk, index, disturbed, offer, cur>> /\ recent' \subseteq recent
      /\ recent \ {cur} \subseteq recent'
  BY DEF Applying, Look, Abort, Goto, ghosts
<1>2. \A p \in Paths \ {cur} : Synced(p) => Synced(p)'
  BY <1>1, SyncedKept
<1>3. CASE pc' = "idle"
  BY <1>3, SyncedStop DEF Abort, Goto
<1>4. CASE pc' # "idle"
  <2>1. CASE ApplySyncDir
    <3>1. Goto("put") /\ UNCHANGED recent /\ pc = "syncdir"
      BY <1>4, <2>1 DEF Abort, ghosts
    <3>2. (entry.kind = "file" /\ cur \notin recent') => disk'[cur].mode = entry.mode
      BY <1>1, <3>1 DEF SyncedInv, object
    <3>3. QED
      BY <1>1, <1>2, <3>1, <3>2, SyncedGoto DEF PCs
  <2>2. CASE ~ApplySyncDir
    <3>1. \E next \in {"fingerprint", "parents", "chmod", "copy", "recheck", "rename"} : Goto(next)
      BY <1>4, <2>2 DEF Abort, Goto
    <3>2. QED
      BY <1>1, <1>2, <3>1, SyncedGoto DEF PCs
  <2>3. QED
    BY <2>1, <2>2
<1>5. QED
  BY <1>3, <1>4

\* The row is written: the entry joins the synced ones.
LEMMA SyncedPut ==
    ASSUME ApplyInv, SyncedInv, ApplyPut
    PROVE  SyncedInv' /\ SuccessMeansSynced'
<1>0. /\ cur \in Paths /\ index \in [Paths -> Entry] /\ recent \subseteq disturbed
      /\ pc = "put" /\ Applying
      /\ cur \notin recent => Shape(object) = Claim(entry)
  BY DEF ApplyInv, TypeOK, BuildInv, Applying, ApplyPut
<1>1. /\ pc' = "next" /\ UNCHANGED <<disk, offer, todo, cur>>
      /\ index' = [index EXCEPT ![cur] = entry]
      /\ disturbed' = IF cur \in recent THEN disturbed ELSE disturbed \ {cur}
  BY DEF ApplyPut, Goto
<1>2. Synced(cur)'
  BY <1>0, <1>1 DEF Synced, SyncedInv, entry, object
<1>3. \A p \in Paths \ {cur} : Synced(p) => Synced(p)'
  BY <1>0, <1>1, SyncedKept
<1>4. QED
  BY <1>0, <1>1, <1>2, <1>3 DEF SyncedInv, SuccessMeansSynced, Applying

\* Other programs change a path only together with its mark.
LEMMA SyncedUser ==
    ASSUME ApplyInv, SyncedInv, SuccessMeansSynced, User
    PROVE  SyncedInv' /\ SuccessMeansSynced'
<1>0. disk \in [Paths -> Object] /\ cur \in Paths
  BY DEF ApplyInv, TypeOK
<1>1. PICK A \in SUBSET Paths :
          /\ \A p \in Paths \ A : disk'[p] = disk[p]
          /\ disturbed' = disturbed \cup A /\ recent' = recent \cup A
          /\ UNCHANGED <<index, pc, offer, todo, cur, status>>
  <2>1. ASSUME NEW p \in Paths, NEW c \in Contents, NEW m \in Modes, UserWrite(p, c, m)
        PROVE  \A q \in Paths \ {p} : disk'[q] = disk[q]
    BY <1>0, <2>1 DEF UserWrite
  <2>2. ASSUME NEW p \in Paths, UserMkdir(p) \/ UserPlaceOther(p)
        PROVE  \A q \in Paths \ {p} : disk'[q] = disk[q]
    BY <1>0, <2>2 DEF UserMkdir, UserPlaceOther
  <2>3. ASSUME NEW p \in Paths, UserRemove(p)
        PROVE  \A q \in Paths \ Below(p) : disk'[q] = disk[q]
    BY <1>0, <2>3 DEF UserRemove
  <2>4. \A p \in Paths : {p} \in SUBSET Paths /\ Below(p) \in SUBSET Paths
    BY DEF Below
  <2>5. \E A \in SUBSET Paths : Touch(A) /\ \A p \in Paths \ A : disk'[p] = disk[p]
    BY <2>1, <2>2, <2>3, <2>4 DEF User, UserWrite, UserMkdir, UserPlaceOther, UserRemove
  <2>6. QED
    BY <2>5 DEF Touch
<1>2. \A p \in Paths : Synced(p) => Synced(p)'
  BY <1>1 DEF Synced
<1>3. cur \notin recent' => cur \notin recent /\ object' = object
  BY <1>0, <1>1 DEF object
<1>4. SyncedInv'
  BY <1>1, <1>2, <1>3 DEF SyncedInv, Applying, entry
<1>5. SuccessMeansSynced'
  BY <1>1, <1>2 DEF SuccessMeansSynced
<1>6. QED
  BY <1>4, <1>5

\* A cycle begins with nothing done, goes on, and ends with everything done.
LEMMA SyncedCycle ==
    ASSUME ApplyInv, SyncedInv, CycleNext \/ CycleEnd \/ \E m \in Manifests : CycleBegin(m)
    PROVE  SyncedInv' /\ SuccessMeansSynced'
<1>1. CASE \E m \in Manifests : CycleBegin(m)
  BY <1>1 DEF CycleBegin, SyncedInv, SuccessMeansSynced, Applying
<1>2. CASE CycleNext
  <2>1. PICK p \in todo : cur' = p /\ todo' = todo \ {p}
    BY <1>2 DEF CycleNext
  <2>2. pc = "next" /\ pc' = "open" /\ UNCHANGED <<disk, index, offer, disturbed>>
    BY <1>2 DEF CycleNext, ghosts
  <2>3. \A q \in Paths : Synced(q) => Synced(q)'
    BY <2>2 DEF Synced
  <2>4. QED
    BY <2>1, <2>2, <2>3 DEF SyncedInv, SuccessMeansSynced, Applying
<1>3. CASE CycleEnd
  <2>1. pc = "next" /\ todo = {} /\ pc' = "idle" /\ UNCHANGED <<disk, index, offer, disturbed>>
    BY <1>3 DEF CycleEnd, ghosts, job
  <2>2. \A q \in Paths : Synced(q) => Synced(q)'
    BY <2>1 DEF Synced
  <2>3. QED
    BY <2>1, <2>2 DEF SyncedInv, SuccessMeansSynced, Applying
<1>4. QED
  BY <1>1, <1>2, <1>3

\* Every step keeps the entries of the cycle synced.
LEMMA SyncedNext ==
    ASSUME ApplyInv, SyncedInv, SuccessMeansSynced, [Next]_vars
    PROVE  SyncedInv' /\ SuccessMeansSynced'
<1>1. ASSUME Daemon PROVE SyncedInv' /\ SuccessMeansSynced'
  BY <1>1, SyncedCycle, SyncedQuiet, SyncedPlaced, SyncedParents, SyncedPut DEF Daemon, ApplyStep
<1>2. ASSUME Failure PROVE SyncedInv' /\ SuccessMeansSynced'
  BY <1>2, SyncedStop DEF Failure, Fault, Crash, PowerLoss, Abort, Restarted
<1>3. ASSUME UNCHANGED vars PROVE SyncedInv' /\ SuccessMeansSynced'
  BY <1>3 DEF vars, job, ghosts, SyncedInv, SuccessMeansSynced, Synced, Applying, entry, object
<1>4. QED
  BY <1>1, <1>2, <1>3, SyncedUser DEF Next

\* ErrLocalChange in a step of Apply: the look compared the object with the
\* row, and both are explained by the ghosts unless somebody else was there.
LEMMA AlarmStep ==
    ASSUME ApplyInv,
           \/ ApplyOpen /\ LocallyChanged
           \/ ApplyFingerprint /\ object.kind = "file" /\ Diverged
           \/ ApplyRecheck /\ ~StillCurrent
    PROVE  cur \in disturbed \/ KindTurned(cur) \/ cur \in lag
<1>0. /\ cur \in Paths /\ object \in Object /\ index[cur] \in Entry
      /\ held[cur] \in Shapes /\ offer[cur] = entry
  BY DEF ApplyInv, TypeOK, object, entry
<1>1. SUFFICES ASSUME cur \notin disturbed, cur \notin lag PROVE KindTurned(cur)
  OBVIOUS
<1>2. Shape(object) = held[cur] /\ Claim(index[cur]) = held[cur]
  BY <1>0, <1>1 DEF ApplyInv, DiskExplained, IndexMatchesHeld, object
<1>3. CASE ApplyOpen /\ LocallyChanged
  <2>1. held[cur].kind = object.kind
    BY <1>0, <1>2, ShapeLemma
  <2>2. index[cur].kind # "none" => held[cur].kind \in {"directory", "file"}
    BY <1>0, <1>2, ShapeLemma DEF Entry
  <2>3. object.kind \in {"directory", "file"} /\ object.kind # entry.kind
    BY <1>3, <2>1, <2>2 DEF LocallyChanged
  <2>4. QED
    BY <1>0, <2>1, <2>3 DEF KindTurned
<1>4. CASE ApplyFingerprint /\ Diverged
  BY <1>2, <1>4 DEF Diverged
<1>5. CASE ApplyRecheck /\ ~StillCurrent
  <2>1. Claim(index[cur]) = current
    BY <1>5 DEF ApplyRecheck, ApplyInv, BuildInv, CycleInv
  <2>2. QED
    BY <1>2, <1>5, <2>1 DEF StillCurrent
<1>6. QED
  BY <1>3, <1>4, <1>5

\* Every step keeps the explanation of a reported local change.
LEMMA AlarmNext ==
    ASSUME ApplyInv, AlarmExplained, [Next]_vars
    PROVE  AlarmExplained'
<1>. SUFFICES ASSUME pc' = "idle", status' = "localchange"
              PROVE  (cur \in disturbed \/ KindTurned(cur) \/ cur \in lag)'
  BY DEF AlarmExplained
<1>1. ASSUME Abort("localchange"), ApplyOpen \/ ApplyFingerprint \/ ApplyRecheck
      PROVE  (cur \in disturbed \/ KindTurned(cur) \/ cur \in lag)'
  <2>1. UNCHANGED <<cur, offer, held, disturbed, lag>>
    BY <1>1 DEF Abort, ApplyOpen, ApplyFingerprint, ApplyRecheck
  <2>2. \/ ApplyOpen /\ LocallyChanged
        \/ ApplyFingerprint /\ object.kind = "file" /\ Diverged
        \/ ApplyRecheck /\ ~StillCurrent
    BY <1>1 DEF Abort, Goto, ApplyOpen, ApplyFingerprint, ApplyRecheck
  <2>3. cur \in disturbed \/ KindTurned(cur) \/ cur \in lag
    BY <2>2, AlarmStep
  <2>4. QED
    BY <2>1, <2>3 DEF KindTurned
<1>2. CASE Daemon
  <2>1. Abort("localchange") /\ (ApplyOpen \/ ApplyFingerprint \/ ApplyRecheck)
    <3>1. ApplyOpen \/ ApplyFingerprint \/ ApplyRecheck
      BY <1>2 DEF Daemon, ApplyStep, CycleBegin, CycleNext, CycleEnd, ApplyChmod, ApplyParents,
                  ApplyMkdir, ApplyCreate, ApplyCopy, ApplyVerify, ApplyRename, ApplySyncDir,
                  ApplyPut, Abort, Goto
    <3>2. Abort("localchange")
      BY <3>1 DEF ApplyOpen, ApplyFingerprint, ApplyRecheck, Abort, Goto
    <3>3. QED
      BY <3>1, <3>2
  <2>2. QED
    BY <1>1, <2>1
<1>3. CASE Failure
  BY <1>3 DEF Failure, Fault, Crash, PowerLoss, Abort, Restarted
<1>4. CASE User
  <2>1. \E A : Touch(A)
    BY <1>4 DEF User, UserWrite, UserMkdir, UserPlaceOther, UserRemove
  <2>2. QED
    BY <2>1 DEF Touch, AlarmExplained, KindTurned
<1>5. CASE UNCHANGED vars
  BY <1>5 DEF vars, job, ghosts, AlarmExplained, KindTurned
<1>6. QED
  BY <1>2, <1>3, <1>4, <1>5 DEF Next

\* The rows of the index, and the entry at work: what the limit is about.  None
\* of it is on the disk that a power loss takes back.
RowInv ==
    /\ DOMAIN index = Paths
    /\ cur \in Paths /\ todo \subseteq Paths
    /\ \A p \in todo : offer[p].kind # "none"
    /\ Applying => entry.kind # "none"

\* A step of Apply stays with its entry, and only put writes a row.
LEMMA ApplyKeepsJob ==
    ASSUME ApplyStep
    PROVE  /\ Applying /\ cur' = cur /\ offer' = offer
           /\ todo' = todo \/ todo' = {}
           /\ ~ApplyPut => index' = index
           /\ ~ApplyOpen => pc # "open"
           /\ ApplyPut => index' = [index EXCEPT ![cur] = entry] /\ pc = "put" /\ pc' = "next"
BY DEF ApplyStep, Applying, ApplyOpen, ApplyFingerprint, ApplyChmod, ApplyParents,
       ApplyMkdir, ApplyCreate, ApplyCopy, ApplyVerify, ApplyRecheck, ApplyRename,
       ApplySyncDir, ApplyPut, Abort, Goto

\* A failure ends the cycle and leaves the rows alone.
LEMMA FailureKeepsRows ==
    ASSUME Failure
    PROVE  pc' = "idle" /\ cur' = cur /\ offer' = offer /\ todo' = {} /\ index' = index
BY DEF Failure, Fault, Crash, PowerLoss, Abort, Restarted

\* Other programs change neither the rows nor the cycle.
LEMMA UserKeepsRows ==
    ASSUME User \/ UNCHANGED vars
    PROVE  UNCHANGED <<pc, cur, offer, todo, index>>
BY DEF User, UserWrite, UserMkdir, UserPlaceOther, UserRemove, Touch, vars, job

\* The entry at work is a listed one, whatever fails.
LEMMA RowNext ==
    ASSUME RowInv, [Next]_vars
    PROVE  RowInv'
<1>1. CASE \E m \in Manifests : CycleBegin(m)
  BY <1>1 DEF CycleBegin, RowInv, Applying
<1>2. CASE CycleNext
  <2>1. PICK p \in todo : cur' = p /\ todo' = todo \ {p} /\ offer' = offer /\ index' = index
    BY <1>2 DEF CycleNext
  <2>2. QED
    BY <2>1 DEF RowInv, entry
<1>3. CASE CycleEnd
  BY <1>3 DEF CycleEnd, RowInv, Applying, job
<1>4. CASE ApplyStep
  <2>1. /\ Applying /\ cur' = cur /\ offer' = offer /\ todo' \subseteq todo
        /\ DOMAIN index' = DOMAIN index
    BY <1>4, ApplyKeepsJob
  <2>2. QED
    BY <2>1 DEF RowInv, entry
<1>5. CASE Failure
  BY <1>5, FailureKeepsRows DEF RowInv, Applying
<1>6. CASE User \/ UNCHANGED vars
  BY <1>6, UserKeepsRows DEF RowInv, Applying, entry
<1>7. QED
  BY <1>1, <1>2, <1>3, <1>4, <1>5, <1>6 DEF Next, Daemon

\* Every step keeps the index within its limit: checkCapacity has counted the
\* row that put writes, and no other step writes one.
LEMMA LimitNext ==
    ASSUME RowInv, LimitInv, IndexWithinLimit, [Next]_vars
    PROVE  LimitInv' /\ IndexWithinLimit'
<1>1. CASE ApplyPut
  <2>1. /\ cur \in Paths /\ entry.kind # "none" /\ DOMAIN index = Paths /\ HasRoom(cur)
        /\ index' = [index EXCEPT ![cur] = entry] /\ pc' = "next"
    BY <1>1, ApplyKeepsJob DEF ApplyStep, RowInv, LimitInv, Applying
  <2>2. Rows' = Rows \cup {cur}
    BY <2>1 DEF Rows
  <2>3. IndexWithinLimit'
    BY <2>1, <2>2 DEF HasRoom, IndexWithinLimit
  <2>4. QED
    BY <2>1, <2>3 DEF LimitInv, Applying
<1>2. CASE ~ApplyPut
  <2>1. index' = index
    BY <1>2, ApplyKeepsJob, FailureKeepsRows, UserKeepsRows
       DEF Next, Daemon, CycleBegin, CycleNext, CycleEnd
  <2>2. Rows' = Rows
    BY <2>1 DEF Rows
  <2>3. Applying' /\ pc' # "open" => cur' = cur /\ HasRoom(cur)
    <3>1. ASSUME ApplyOpen, pc' # "idle" PROVE cur' = cur /\ HasRoom(cur)
      BY <3>1 DEF ApplyOpen, Abort, Goto
    <3>2. ASSUME CycleNext \/ CycleEnd \/ Failure \/ \E m \in Manifests : CycleBegin(m)
          PROVE  pc' \in {"idle", "next", "open"}
      BY <3>2, FailureKeepsRows DEF CycleNext, CycleEnd, CycleBegin
    <3>3. QED
      BY <3>1, <3>2, ApplyKeepsJob, UserKeepsRows DEF Next, Daemon, LimitInv, Applying
  <2>4. QED
    BY <2>2, <2>3 DEF LimitInv, HasRoom, IndexWithinLimit
<1>3. QED
  BY <1>1, <1>2

\* Before the first cycle nothing is claimed, reported or counted.
LEMMA OutcomeInit == Init => SyncedInv /\ SuccessMeansSynced /\ AlarmExplained /\ LimitInv /\ IndexWithinLimit
<1>. SUFFICES ASSUME Init
              PROVE  SyncedInv /\ SuccessMeansSynced /\ AlarmExplained /\ LimitInv /\ IndexWithinLimit
  OBVIOUS
<1>1. SyncedInv /\ SuccessMeansSynced /\ AlarmExplained /\ LimitInv
  BY DEF Init, SyncedInv, SuccessMeansSynced, AlarmExplained, LimitInv, Applying
<1>2. Rows = {}
  BY RecordLemma DEF Init, Rows
<1>3. IndexWithinLimit
  BY <1>2, FS_EmptySet, DataAssumption DEF IndexWithinLimit
<1>4. QED
  BY <1>1, <1>3

----------------------------------------------------------------------------
\* A cycle reported without error has synchronised the folder: every listed
\* path has the offered row, content and permission bits, unless another
\* program disturbed it.
THEOREM SuccessMeansSyncedHolds == ASSUME ~LateWriteback PROVE Spec => []SuccessMeansSynced
<1>1. Init => SyncedInv /\ SuccessMeansSynced
  BY OutcomeInit
<1>2. ApplyInv /\ SyncedInv /\ SuccessMeansSynced /\ [Next]_vars => SyncedInv' /\ SuccessMeansSynced'
  BY SyncedNext
<1>3. QED
  BY <1>1, <1>2, ApplyInvHolds, PTL DEF Spec

\* ErrLocalChange is reported only if another program disturbed the path, its
\* kind changed at the source, or the row was lost between rename and put.
THEOREM AlarmExplainedHolds == ASSUME ~LateWriteback PROVE Spec => []AlarmExplained
<1>1. Init => AlarmExplained
  BY OutcomeInit
<1>2. ApplyInv /\ AlarmExplained /\ [Next]_vars => AlarmExplained'
  BY AlarmNext
<1>3. QED
  BY <1>1, <1>2, ApplyInvHolds, PTL DEF Spec

\* checkCapacity keeps the index small enough to be listed, whatever fails
\* between the check and the put, and however late the kernel writes back.
THEOREM IndexWithinLimitHolds == Spec => []IndexWithinLimit
<1>1. Init => RowInv /\ LimitInv /\ IndexWithinLimit
  <2>1. Init => RowInv
    BY InvInit DEF ApplyInv, TypeOK, CycleInv, RowInv
  <2>2. QED
    BY <2>1, OutcomeInit
<1>2. RowInv /\ LimitInv /\ IndexWithinLimit /\ [Next]_vars => (RowInv /\ LimitInv /\ IndexWithinLimit)'
  BY RowNext, LimitNext
<1>3. QED
  BY <1>1, <1>2, PTL DEF Spec

\* The inductive invariant of the receiver as a whole, as long as a rename is
\* written back before the daemon runs again after a failure.
THEOREM ReplicaInvHolds == ASSUME ~LateWriteback PROVE Spec => []ReplicaInv
<1>1. Init => SyncedInv /\ SuccessMeansSynced /\ LimitInv /\ IndexWithinLimit
  BY OutcomeInit
<1>2. /\ ApplyInv /\ SyncedInv /\ SuccessMeansSynced /\ [Next]_vars => SyncedInv' /\ SuccessMeansSynced'
      /\ ApplyInv /\ LimitInv /\ IndexWithinLimit /\ [Next]_vars => LimitInv' /\ IndexWithinLimit'
  <2>1. ApplyInv => RowInv
    BY DEF ApplyInv, TypeOK, CycleInv, RowInv
  <2>2. QED
    BY <2>1, SyncedNext, LimitNext
<1>3. ApplyInv /\ SyncedInv /\ LimitInv => ReplicaInv
  BY DEF ReplicaInv
<1>4. QED
  BY <1>1, <1>2, <1>3, ApplyInvHolds, PTL DEF Spec

----------------------------------------------------------------------------
(* With a source: what the receiver holds was at the source.  First the    *)
(* lemmas about the source.                                                *)

\* Source and FolderSync speak of the same rows: each reaches them through a
\* copy of module Folder.
LEMMA SameRows ==
    /\ S!NoEntry = NoEntry
    /\ S!Shapes = Shapes
    /\ \A e : S!Claim(e) = Claim(e)
<1>1. S!NoEntry = NoEntry /\ S!Nothing = Nothing /\ S!Shapes = Shapes
  BY DEF S!NoEntry, S!NoMode, NoEntry, NoMode, S!Nothing, Nothing, S!Shapes, Shapes
<1>2. QED
  BY <1>1 DEF S!Claim, Claim

\* An index with rows of shapes that were there is one of the listings.
LEMMA RegularListed ==
    ASSUME OriginInv, NEW m \in S!Regular
    PROVE  m \in Listings /\ \A p \in Paths : Claim(m[p]) \in history[p]
<1>1. \A p \in Paths : swindow[p] \subseteq Possible(p)
  BY DEF OriginInv
<1>2. S!Listable \subseteq UNION {S!RowsFor(s) : s \in UNION {Possible(p) : p \in Paths}}
  BY <1>1 DEF S!Listable, S!Readable
<1>3. m \in [Paths -> S!Listable]
  BY DEF S!Regular
<1>4. m \in [Paths -> UNION {S!RowsFor(s) : s \in UNION {Possible(p) : p \in Paths}}]
  BY <1>2, <1>3
<1>5. \A p \in Paths : /\ Claim(m[p]) \in swindow[p]
                       /\ m[p].kind # "none" => \A d \in Above[p] : m[d].kind # "none"
  BY SameRows DEF S!Regular, S!Readable
<1>6. QED
  BY <1>1, <1>4, <1>5 DEF Listings, OriginInv

\* The empty index is one of them too.
LEMMA EmptyListed == NoManifest \in Listings
<1>1. Nothing.kind = "absent" /\ NoEntry \in S!RowsFor(Nothing)
  BY RecordLemma, SameRows DEF S!RowsFor
<1>2. \A p \in Paths : Nothing \in Possible(p)
  BY DEF Possible
<1>3. NoEntry \in UNION {S!RowsFor(s) : s \in UNION {Possible(p) : p \in Paths}}
  BY <1>1, <1>2, TreeAssumption
<1>4. Claim(NoEntry) = Nothing /\ NoEntry.kind = "none"
  BY RecordLemma, ShapeLemma
<1>5. QED
  BY <1>2, <1>3, <1>4 DEF NoManifest, Listings

----------------------------------------------------------------------------
(* The receiver in the composition keeps its own invariant.                *)

\* A failure of the source costs the receiver nothing but a count.
LEMMA CountInv ==
    ASSUME ApplyInv, faults' \in 0..MaxFaults,
           UNCHANGED <<disk, index, pc, job, undo, loose, status, edits, ghosts>>
    PROVE  ApplyInv'
<1>1. UNCHANGED <<disk, index, pc, offer, todo, cur, current, temp, undo, loose, status,
                  edits, held, disturbed, recent, lag>>
  BY DEF job, ghosts
<1>2. TypeOK'
  BY <1>1 DEF ApplyInv, TypeOK
<1>3. TreeInv' /\ CycleInv' /\ DoneInv' /\ BuildInv'
  BY <1>1 DEF ApplyInv, TreeInv, CycleInv, DoneInv, BuildInv, Applying,
              entry, object, ParentsPresent
<1>4. UndoInv' /\ DiskExplained' /\ IndexMatchesHeld' /\ (recent \subseteq disturbed)'
  BY <1>1 DEF ApplyInv, UndoInv, DiskExplained, IndexMatchesHeld, ParentsPresent
<1>5. QED
  BY <1>2, <1>3, <1>4 DEF ApplyInv

\* The refusals of the source end the cycle like any error of Apply.
LEMMA RefusedInv ==
    ASSUME ApplyInv, SyncRefused \/ FetchRefused
    PROVE  ApplyInv'
<1>1. pc # "syncdir" /\ Abort("error")
      /\ UNCHANGED <<disk, index, undo, loose, counters, held, disturbed, lag>> /\ recent' = recent
  BY DEF SyncRefused, FetchRefused, ghosts
<1>2. QED
  BY <1>1, AbortInv

\* A block that the receiver takes from the source is a step of Apply.
LEMMA FetchIsCopy ==
    ASSUME ApplyInv, FetchNext
    PROVE  \E d \in Block : ApplyCopy(d)
<1>1. offer \in [Paths -> Entry] /\ cur \in Paths /\ temp \in Temp
  BY OfferLemma DEF ApplyInv, TypeOK
<1>2. entry.blocks \in Seq(Block) /\ temp.data \in Seq(Block)
  BY <1>1 DEF entry, Entry, Temp
<1>3. Len(temp.data) + 1 \in 1..Len(entry.blocks)
  BY <1>2 DEF FetchNext
<1>4. wanted \in Block
  BY <1>2, <1>3 DEF wanted
<1>5. QED
  BY <1>4 DEF FetchNext

\* Every step of the receiver is one of Replica or a refusal.
LEMMA ReceiverStep ==
    ASSUME ApplyInv, OriginInv, Receiver
    PROVE  Daemon \/ SyncRefused \/ FetchRefused
<1>1. SyncList => \E m \in Manifests : CycleBegin(m)
  BY ListingAssumption DEF SyncList, OriginInv
<1>2. QED
  BY <1>1, FetchIsCopy DEF Receiver, SyncApply, Daemon, ApplyStep

\* What Apply has established it keeps, whatever the source does meanwhile.
LEMMA ReceiverInv ==
    ASSUME ApplyInv, OriginInv, ~LateWriteback, [SyncNext]_all
    PROVE  ApplyInv'
<1>1. CASE Receiver
  <2>1. Daemon => [Next]_vars
    BY DEF Next
  <2>2. QED
    BY <1>1, <2>1, ReceiverStep, RefusedInv, NextInv
<1>2. CASE SourceFails
  <2>1. faults' \in 0..MaxFaults
    BY <1>2, BoundAssumption DEF SourceFails, ApplyInv, TypeOK
  <2>2. QED
    BY <1>2, <2>1, CountInv DEF SourceFails
<1>3. CASE SourceBegin \/ SourcePublish \/ SourceChange \/ UNCHANGED all
  <2>1. UNCHANGED vars
    BY <1>3 DEF SourceBegin, SourcePublish, SourceChange, all
  <2>2. QED
    BY <2>1, NextInv
<1>4. CASE Failure \/ User
  <2>1. Next
    BY <1>4 DEF Next
  <2>2. QED
    BY <2>1, NextInv
<1>5. QED
  BY <1>1, <1>2, <1>3, <1>4 DEF SyncNext

----------------------------------------------------------------------------
(* What the source publishes it had.                                       *)

\* Whatever the source does, its window and its index say what was true once.
LEMMA OriginStep ==
    ASSUME OriginInv, [SyncNext]_all
    PROVE  /\ OriginInv'
           /\ \A p \in Paths : history[p] \subseteq history'[p]
<1>1. ASSUME UNCHANGED source
      PROVE  /\ OriginInv'
             /\ \A p \in Paths : history[p] \subseteq history'[p]
  BY <1>1 DEF source, OriginInv
<1>2. CASE SourceBegin
  <2>1. UNCHANGED <<history, stree, sindex>>
    BY <1>2 DEF SourceBegin, S!Begin
  <2>2. swindow' = [p \in Paths |-> {stree[p]}]
    BY <1>2 DEF SourceBegin, S!Begin
  <2>3. QED
    BY <2>1, <2>2 DEF OriginInv
<1>3. CASE SourcePublish
  <2>1. UNCHANGED <<history, stree>> /\ swindow' = S!NoScan /\ sindex' \in S!Regular
    BY <1>3 DEF SourcePublish, S!Publish
  <2>2. sindex' \in Listings /\ \A p \in Paths : Claim(sindex'[p]) \in history[p]
    BY <2>1, RegularListed
  <2>3. QED
    BY <2>1, <2>2 DEF OriginInv, S!NoScan
<1>4. CASE SourceFails
  <2>1. UNCHANGED <<history, stree, sindex>> /\ swindow' = S!NoScan
    BY <1>4 DEF SourceFails, S!Fail
  <2>2. QED
    BY <2>1 DEF OriginInv, S!NoScan
<1>5. CASE SourceChange
  <2>1. /\ stree' \in Trees /\ stree' \in [Paths -> Shapes] /\ sindex' = sindex
        /\ history' = [p \in Paths |-> history[p] \cup {stree'[p]}]
    BY <1>5, SameRows DEF SourceChange, S!Change
  <2>2. \A p \in Paths : stree'[p] \in Possible(p) /\ stree'[p] \in Shapes
    BY <2>1 DEF Possible
  <2>3. swindow' = S!NoScan \/ swindow' = [p \in Paths |-> swindow[p] \cup {stree'[p]}]
    BY <1>5 DEF SourceChange, S!Change
  <2>4. QED
    BY <2>1, <2>2, <2>3 DEF OriginInv, S!NoScan
<1>6. CASE Receiver \/ (Failure /\ UNCHANGED source) \/ (User /\ UNCHANGED source)
           \/ UNCHANGED all
  BY <1>1, <1>6 DEF Receiver, all
<1>7. QED
  BY <1>2, <1>3, <1>4, <1>5, <1>6 DEF SyncNext

----------------------------------------------------------------------------
(* What the receiver has was at the source.                                *)

\* Nothing the receiver remembers changes: the history only grows.
LEMMA ArrivedKept ==
    ASSUME ArrivedInv, \A p \in Paths : history[p] \subseteq history'[p],
           undo \subseteq Undo, offer' = offer, held' = held, undo' \subseteq undo
    PROVE  ArrivedInv'
BY DEF ArrivedInv, Undo

\* Apply installs or adopts what was offered.
LEMMA ArrivedHeld ==
    ASSUME ArrivedInv, TypeOK, \A p \in Paths : history[p] \subseteq history'[p],
           offer' = offer, held' = [held EXCEPT ![cur] = Claim(entry)],
           \A u \in undo' : u \in undo \/ (u.path = cur /\ u.held = held[cur])
    PROVE  ArrivedInv'
<1>1. cur \in Paths /\ held \in [Paths -> Shapes] /\ undo \subseteq Undo
  BY DEF TypeOK
<1>2. Claim(entry) \in history[cur]
  BY <1>1 DEF ArrivedInv, entry
<1>3. \A p \in Paths : Claim(offer'[p]) \in history'[p] /\ held'[p] \in history'[p]
  BY <1>1, <1>2 DEF ArrivedInv
<1>4. \A u \in undo' : u.held \in history'[u.path]
  BY <1>1 DEF ArrivedInv, Undo
<1>5. QED
  BY <1>3, <1>4 DEF ArrivedInv

\* A step of the receiver brings nothing that was not at the source.
LEMMA DaemonArrived ==
    ASSUME ArrivedInv, TypeOK, OriginInv, Receiver
    PROVE  ArrivedInv'
<1>0. history' = history /\ undo \subseteq Undo
  BY DEF Receiver, source, TypeOK
<1>1. CASE SyncList
  <2>1. offer' = sindex /\ UNCHANGED <<held, undo>>
    BY <1>1 DEF SyncList, CycleBegin, ghosts
  <2>2. QED
    BY <1>0, <2>1 DEF ArrivedInv, OriginInv
<1>2. CASE SyncRefused \/ FetchRefused \/ CycleNext \/ CycleEnd
  <2>1. UNCHANGED <<offer, held, undo>>
    BY <1>2 DEF SyncRefused, FetchRefused, CycleNext, CycleEnd, Abort, ghosts, job
  <2>2. QED
    BY <1>0, <2>1, ArrivedKept
<1>3. CASE ApplyOpen \/ ApplyFingerprint \/ ApplyRecheck
  <2>1. UNCHANGED <<held, undo>>
    BY <1>3 DEF ApplyOpen, ApplyFingerprint, ApplyRecheck
  <2>2. offer' = offer
    BY <1>3 DEF ApplyOpen, ApplyFingerprint, ApplyRecheck, Abort, Goto
  <2>3. QED
    BY <1>0, <2>1, <2>2, ArrivedKept
<1>4. CASE ApplyChmod \/ ApplyParents \/ ApplyCreate \/ FetchNext \/ ApplyVerify
  <2>1. UNCHANGED <<held, undo, offer>>
    BY <1>4 DEF ApplyChmod, ApplyParents, ApplyCreate, FetchNext, ApplyCopy, ApplyVerify,
                Abort, Goto, ghosts
  <2>2. QED
    BY <1>0, <2>1, ArrivedKept
<1>5. CASE ApplySyncDir
  <2>1. UNCHANGED <<held, offer>> /\ undo' \subseteq undo
    BY <1>5 DEF ApplySyncDir, Abort, Goto, ghosts
  <2>2. QED
    BY <1>0, <2>1, ArrivedKept
<1>6. CASE ApplyMkdir \/ ApplyRename
  <2>1. offer' = offer
    BY <1>6 DEF ApplyMkdir, ApplyRename, Abort, Goto
  <2>2. CASE UNCHANGED <<undo, ghosts>>
    BY <1>0, <2>1, <2>2, ArrivedKept DEF ghosts
  <2>3. CASE \E o, s : Install(o, s)
    <3>1. /\ held' = [held EXCEPT ![cur] = Claim(entry)]
          /\ \A u \in undo' : u \in undo \/ (u.path = cur /\ u.held = held[cur])
      BY <2>3 DEF Install
    <3>2. QED
      BY <1>0, <2>1, <3>1, ArrivedHeld
  <2>4. QED
    BY <1>6, <2>2, <2>3 DEF ApplyMkdir, ApplyRename
<1>7. CASE ApplyPut
  <2>1. offer' = offer /\ undo' = undo /\ held' = [held EXCEPT ![cur] = Claim(entry)]
    BY <1>7 DEF ApplyPut, Goto
  <2>2. QED
    BY <1>0, <2>1, ArrivedHeld
<1>8. QED
  BY <1>1, <1>2, <1>3, <1>4, <1>5, <1>6, <1>7 DEF Receiver, SyncApply

\* A failure brings back nothing that was not at the source.
LEMMA FailureArrived ==
    ASSUME ArrivedInv, TypeOK, history' = history, Failure
    PROVE  ArrivedInv'
<1>0. undo \subseteq Undo /\ held \in [Paths -> Shapes]
  BY DEF TypeOK
<1>1. CASE Fault \/ Crash
  <2>1. UNCHANGED <<held, offer>> /\ undo' \subseteq undo
    BY <1>1 DEF Fault, Crash, Abort, Restarted, AfterFailure, ghosts
  <2>2. QED
    BY <1>0, <2>1, ArrivedKept
<1>2. CASE PowerLoss
  <2>1. offer' = offer /\ undo' = {}
    BY <1>2 DEF PowerLoss, Restarted
  <2>. DEFINE of(lost, p) == {u \in lost : u.path = p}
  <2>2. PICK lost \in SUBSET undo :
            held' = [p \in Paths |-> IF of(lost, p) # {} THEN (CHOOSE u \in of(lost, p) : TRUE).held
                                     ELSE held[p]]
    BY <1>2 DEF PowerLoss
  <2>3. ASSUME NEW p \in Paths
        PROVE  held'[p] \in history[p]
    <3>1. CASE of(lost, p) # {}
      <4>1. PICK u \in of(lost, p) : held'[p] = u.held
        BY <2>2, <3>1
      <4>2. QED
        BY <4>1 DEF ArrivedInv
    <3>2. CASE of(lost, p) = {}
      BY <2>2, <3>2 DEF ArrivedInv
    <3>3. QED
      BY <3>1, <3>2
  <2>4. QED
    BY <2>1, <2>3 DEF ArrivedInv
<1>3. QED
  BY <1>1, <1>2 DEF Failure

\* Every step keeps the origin of what the receiver has.
LEMMA ArrivedStep ==
    ASSUME ArrivedInv, TypeOK, OriginInv, [SyncNext]_all
    PROVE  ArrivedInv'
<1>0. undo \subseteq Undo /\ \A p \in Paths : history[p] \subseteq history'[p]
  BY OriginStep DEF TypeOK
<1>1. CASE SourceBegin \/ SourcePublish \/ SourceFails \/ SourceChange \/ UNCHANGED all
  <2>1. UNCHANGED <<held, offer, undo>>
    BY <1>1 DEF SourceBegin, SourcePublish, SourceFails, SourceChange, all, vars, job, ghosts
  <2>2. QED
    BY <1>0, <2>1, ArrivedKept
<1>2. CASE User /\ UNCHANGED source
  <2>1. UNCHANGED <<held, offer>> /\ undo' = {}
    BY <1>2 DEF User, UserWrite, UserMkdir, UserPlaceOther, UserRemove, Touch
  <2>2. QED
    BY <1>0, <2>1, ArrivedKept
<1>3. CASE Failure /\ UNCHANGED source
  BY <1>3, FailureArrived DEF source
<1>4. QED
  BY <1>1, <1>2, <1>3, DaemonArrived DEF SyncNext

----------------------------------------------------------------------------
(* The theorems.                                                           *)

\* The origin of everything that is listed, offered, installed or still to be
\* undone is known in every state of source and receiver (the same assumption
\* on the kernel).
THEOREM SyncInvHolds == ASSUME ~LateWriteback PROVE SyncSpec => []SyncInv
<1>1. SyncInit => SyncInv
  <2>1. SUFFICES ASSUME SyncInit PROVE SyncInv
    OBVIOUS
  <2>2. ApplyInv
    BY <2>1, InvInit DEF SyncInit
  <2>3. \A p \in Paths : Claim(NoManifest[p]) = Nothing
    BY RecordLemma, ShapeLemma DEF NoManifest
  <2>4. OriginInv
    BY <2>1, <2>3, RecordLemma, EmptyListed DEF SyncInit, OriginInv, S!NoScan, Possible
  <2>5. ArrivedInv
    BY <2>1, <2>3 DEF SyncInit, Init, ArrivedInv
  <2>6. QED
    BY <2>2, <2>4, <2>5 DEF SyncInv
<1>2. SyncInv /\ [SyncNext]_all => SyncInv'
  <2>1. SUFFICES ASSUME SyncInv, [SyncNext]_all PROVE SyncInv'
    OBVIOUS
  <2>2. QED
    BY <2>1, ReceiverInv, OriginStep, ArrivedStep DEF SyncInv, ApplyInv
<1>3. QED
  BY <1>1, <1>2, PTL DEF SyncSpec

\* No file of the receiver mixes two versions: what it holds and other programs
\* have not disturbed was, whole, at the source at some moment.
THEOREM ProvenanceHolds == ASSUME ~LateWriteback PROVE SyncSpec => []Provenance
<1>1. SyncInv => Provenance
  BY DEF SyncInv, ArrivedInv, ApplyInv, DiskExplained, Provenance
<1>2. QED
  BY <1>1, SyncInvHolds, PTL
============================================================================
