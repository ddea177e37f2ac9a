------------------------- MODULE SourceScanProofs -------------------------
(* Proofs about SourceScan, for every tree of paths and number of changes. *)
EXTENDS SourceScan, TLAPS

\* Mere abbreviations.
USE DEF seen, NothingSeen, Seen, IsTree

\* No ancestor relation is circular.
LEMMA AboveLemma ==
    ASSUME NEW p \in Paths, NEW d \in Above[p]
    PROVE  d \in Paths /\ d # p /\ Above[d] \subseteq Above[p]
BY TreeAssumption

\* What the constant records are.
LEMMA RecordLemma ==
    /\ Absent \in Object /\ Directory \in Object /\ Other \in Object
    /\ NoEntry \in Entry /\ NoEntry.kind = "none"
    /\ NoManifest \in [Paths -> Entry]
    /\ \A p \in Paths : NoManifest[p].kind = "none"
    /\ SomePath \in Paths
    /\ NoRequest \in Request /\ NoRequest.stage = "new"
    /\ NoWindow \in [Paths -> SUBSET Shapes]
    /\ Nothing \in Shapes
<1>1. SomePath \in Paths
  BY TreeAssumption DEF SomePath
<1>2. NoEntry \in Entry /\ NoEntry.kind = "none"
  BY DEF NoEntry, Entry
<1>3. NoRequest \in Request /\ NoRequest.stage = "new"
  BY <1>1 DEF NoRequest, Request
<1>4. QED
  BY <1>1, <1>2, <1>3 DEF Absent, Directory, Other, Object, NoManifest, NoWindow, Nothing, Shapes

\* An empty walk is closed.
LEMMA EmptyWalk == Closed(NoManifest)
BY RecordLemma DEF Closed

\* The invariant holds in a folder just initialised.
LEMMA OrderInit == Init => OrderInv
<1>. SUFFICES ASSUME Init PROVE OrderInv
  OBVIOUS
<1>1. TypeOK
  <2>1. NoAnswer \in [given : BOOLEAN, rows : [Paths -> Entry]]
    BY RecordLemma DEF NoAnswer
  <2>2. QED
    BY <2>1, RecordLemma, SourceAssumption DEF Init, TypeOK
<1>2. ParentsListed /\ WalkInv
  BY EmptyWalk, RecordLemma DEF Init, ParentsListed, WalkInv, Closed
<1>3. LiveInv
  BY RecordLemma DEF Init, LiveInv, NoAnswer
<1>4. QED
  BY <1>1, <1>2, <1>3 DEF OrderInv

\* A failed scan leaves no walk behind.
LEMMA ScanFailsInv ==
    ASSUME OrderInv, ScanFails, faults' \in 0..MaxFaults,
           UNCHANGED <<tree, index, answer, request, edits, scanned>>
    PROVE  OrderInv'
<1>1. TypeOK'
  BY RecordLemma DEF OrderInv, TypeOK, ScanFails, tree
<1>2. ParentsListed' /\ WalkInv'
  BY EmptyWalk DEF OrderInv, ParentsListed, WalkInv, Closed, ScanFails
<1>3. LiveInv'
  BY DEF OrderInv, LiveInv, ScanFails
<1>4. QED
  BY <1>1, <1>2, <1>3 DEF OrderInv

----------------------------------------------------------------------------
(* The walk.                                                               *)

\* What ReadDir returns are names of candidates.
LEMMA ReadDirLemma ==
    ASSUME NEW C \in SUBSET Paths
    PROVE  ReadDir(C) \subseteq Name /\ \A n \in ReadDir(C) : n.path \in C
<1>. SUFFICES ASSUME NEW n \in ReadDir(C) PROVE n \in Name /\ n.path \in C
  OBVIOUS
<1>1. PICK q \in C : n = [path |-> q, dir |-> disk[q].kind = "directory"]
  BY DEF ReadDir
<1>2. (disk[q].kind = "directory") \in BOOLEAN
  OBVIOUS
<1>3. QED
  BY <1>1, <1>2 DEF Name

\* The shapes of the tree are shapes.
LEMMA NowLemma ==
    ASSUME TypeOK
    PROVE  Now \in [Paths -> SUBSET Shapes]
BY DEF TypeOK, Now, Shape, Object, Shapes

\* Opening the folder and reading the root starts an empty, closed walk.
LEMMA ScanBeginInv ==
    ASSUME OrderInv, ScanBegin
    PROVE  OrderInv'
<1>1. CASE ~mounted
  BY <1>1, ScanFailsInv DEF ScanBegin, counters, OrderInv, TypeOK
<1>2. CASE mounted
  <2>. DEFINE C == {q \in Paths : Above[q] = {}}
  <2>1. ReadDir(C) \subseteq Name /\ \A n \in ReadDir(C) : n.path \in C
    BY ReadDirLemma
  <2>2. /\ pc' = "walk" /\ pending' = ReadDir(C) /\ found' = NoManifest /\ window' = Now
        /\ UNCHANGED <<status, here, aways>>
        /\ UNCHANGED <<tree, index, answer, request, counters, scanned>>
    BY <1>2 DEF ScanBegin
  <2>3. TypeOK'
    <3>. HIDE DEF C
    <3>1. QED
      BY <2>1, <2>2, NowLemma, RecordLemma DEF OrderInv, TypeOK, tree, counters
  <2>4. WalkInv'
    BY <2>1, <2>2, EmptyWalk DEF WalkInv, Closed
  <2>5. ParentsListed' /\ LiveInv'
    BY <2>2 DEF OrderInv, ParentsListed, LiveInv
  <2>6. QED
    BY <2>3, <2>4, <2>5 DEF OrderInv
<1>3. QED
  BY <1>1, <1>2

\* An object that can be indexed gives an entry.
LEMMA EntryLemma ==
    ASSUME NEW o \in Object, o.kind \in {"directory", "file"}
    PROVE  EntryOf(o) \in Entry /\ EntryOf(o).kind = o.kind
BY DEF EntryOf, Object, Entry

\* A visited name joins the ancestors that the walk has recorded before it.
LEMMA ScanVisitInv ==
    ASSUME OrderInv, ScanVisit
    PROVE  OrderInv'
<1>0. PICK n \in pending :
        \/ ScanFails
        \/ /\ Reachable(n.path)
           /\ found' = [found EXCEPT ![n.path] = EntryOf(disk[n.path])]
           /\ pending' = pending \ {n}
           /\ pc' = IF n.dir THEN "readdir" ELSE "walk"
           /\ here' = n.path
           /\ UNCHANGED <<status, seen>>
  BY DEF ScanVisit
<1>u. UNCHANGED <<tree, index, answer, request, counters, scanned>>
  BY DEF ScanVisit
<1>1. CASE ScanFails
  BY <1>1, <1>u, ScanFailsInv DEF counters, OrderInv, TypeOK
<1>2. CASE /\ Reachable(n.path)
           /\ found' = [found EXCEPT ![n.path] = EntryOf(disk[n.path])]
           /\ pending' = pending \ {n}
           /\ pc' = IF n.dir THEN "readdir" ELSE "walk"
           /\ here' = n.path
           /\ UNCHANGED <<status, seen>>
  <2>1. n.path \in Paths /\ n.dir \in BOOLEAN
    BY DEF OrderInv, TypeOK, Name
  <2>2. EntryOf(disk[n.path]) \in Entry /\ EntryOf(disk[n.path]).kind # "none"
    BY <1>2, <2>1, EntryLemma DEF Reachable, OrderInv, TypeOK
  <2>3. found' \in [Paths -> Entry]
    BY <1>2, <2>2 DEF OrderInv, TypeOK
  <2>4. \A p \in Paths : found'[p].kind = "none" => found[p].kind = "none" /\ p # n.path
    BY <1>2, <2>1, <2>2 DEF OrderInv, TypeOK
  <2>5. \A p \in Paths : p # n.path => found'[p] = found[p]
    BY <1>2, <2>1 DEF OrderInv, TypeOK
  <2>6. TypeOK'
    BY <1>2, <1>u, <2>1, <2>3 DEF OrderInv, TypeOK, tree, counters
  <2>7. Closed(found)'
    <3>1. SUFFICES ASSUME NEW p \in Paths, found'[p].kind # "none", NEW d \in Above[p]
                   PROVE  found'[d].kind # "none"
      BY DEF Closed
    <3>2. d \in Paths
      BY AboveLemma
    <3>3. CASE p = n.path
      BY <2>4, <3>1, <3>2, <3>3 DEF OrderInv, WalkInv
    <3>4. CASE p # n.path
      BY <2>4, <2>5, <3>1, <3>2, <3>4 DEF OrderInv, WalkInv, Closed
    <3>5. QED
      BY <3>3, <3>4
  <2>8. \A k \in pending' : \A d \in Above[k.path] : found'[d].kind # "none"
    <3>1. SUFFICES ASSUME NEW k \in pending', NEW d \in Above[k.path]
                   PROVE  found'[d].kind # "none"
      OBVIOUS
    <3>2. k \in pending /\ k.path \in Paths
      BY <1>2 DEF OrderInv, TypeOK, Name
    <3>3. d \in Paths
      BY <3>2, AboveLemma
    <3>4. QED
      BY <2>4, <3>1, <3>2, <3>3 DEF OrderInv, WalkInv
  <2>9. WalkInv'
    BY <1>2, <2>1, <2>4, <2>7, <2>8 DEF WalkInv
  <2>10. ParentsListed' /\ LiveInv'
    BY <1>2, <1>u DEF OrderInv, ParentsListed, LiveInv
  <2>11. QED
    BY <2>6, <2>9, <2>10 DEF OrderInv
<1>3. QED
  BY <1>0, <1>1, <1>2

\* The names read from a directory have it and its ancestors above them.
LEMMA ScanReadDirInv ==
    ASSUME OrderInv, ScanReadDir
    PROVE  OrderInv'
<1>. DEFINE C == {q \in Paths : Above[q] = Above[here] \cup {here}}
<1>u. UNCHANGED <<tree, index, answer, request, counters, scanned>>
  BY DEF ScanReadDir
<1>1. CASE ScanFails
  BY <1>1, <1>u, ScanFailsInv DEF counters, OrderInv, TypeOK
<1>2. CASE /\ pending' = pending \cup ReadDir(C)
           /\ pc' = "walk"
           /\ UNCHANGED <<found, here, status, seen>>
  <2>1. ReadDir(C) \subseteq Name /\ \A n \in ReadDir(C) : n.path \in C
    BY ReadDirLemma
  <2>2. found[here].kind # "none" /\ \A d \in Above[here] : found[d].kind # "none"
    BY DEF ScanReadDir, OrderInv, WalkInv, Closed, TypeOK
  <2>3. \A n \in ReadDir(C) : \A d \in Above[n.path] : found[d].kind # "none"
    BY <2>1, <2>2
  <2>. HIDE DEF C
  <2>4. TypeOK'
    BY <1>2, <1>u, <2>1 DEF OrderInv, TypeOK, tree, counters
  <2>5. WalkInv'
    BY <1>2, <2>3 DEF OrderInv, WalkInv, Closed
  <2>6. ParentsListed' /\ LiveInv'
    BY <1>2, <1>u DEF OrderInv, ParentsListed, LiveInv
  <2>7. QED
    BY <2>4, <2>5, <2>6 DEF OrderInv
<1>3. QED
  BY <1>1, <1>2 DEF ScanReadDir

\* The end of the walk, the marker check, the transaction and update: the
\* index becomes what the walk recorded.
LEMMA ScanRestInv ==
    ASSUME OrderInv, ScanWalked \/ ScanCheck \/ ScanCommit \/ ScanUpdate
    PROVE  OrderInv'
<1>1. CASE ScanWalked
  BY <1>1 DEF ScanWalked, OrderInv, TypeOK, ParentsListed, WalkInv, Closed, LiveInv,
              tree, walk, counters
<1>2. CASE ScanCheck
  <2>1. CASE ScanFails
    BY <1>2, <2>1, ScanFailsInv DEF ScanCheck, counters, OrderInv, TypeOK
  <2>2. CASE pc' = "commit" /\ UNCHANGED <<walk, status, seen>>
    BY <1>2, <2>2 DEF ScanCheck, OrderInv, TypeOK, ParentsListed, WalkInv, Closed, LiveInv,
                      tree, walk, counters
  <2>3. QED
    BY <1>2, <2>1, <2>2 DEF ScanCheck
<1>3. CASE ScanCommit
  <2>1. TypeOK'
    BY <1>3 DEF ScanCommit, OrderInv, TypeOK, tree, walk, counters
  <2>2. ParentsListed' /\ WalkInv' /\ LiveInv'
    BY <1>3 DEF ScanCommit, OrderInv, ParentsListed, WalkInv, Closed, LiveInv, walk
  <2>3. QED
    BY <2>1, <2>2 DEF OrderInv
<1>4. CASE ScanUpdate
  <2>1. TypeOK'
    BY <1>4, RecordLemma DEF ScanUpdate, OrderInv, TypeOK, tree, counters
  <2>2. ParentsListed' /\ WalkInv' /\ LiveInv'
    BY <1>4, EmptyWalk DEF ScanUpdate, OrderInv, ParentsListed, WalkInv, Closed, LiveInv
  <2>3. QED
    BY <2>1, <2>2 DEF OrderInv
<1>5. QED
  BY <1>1, <1>2, <1>3, <1>4

----------------------------------------------------------------------------
(* The server, the other programs, restarts.                               *)

\* Serving a request leaves index, walk and status alone, and passes the
\* authorization only when the status is that of a scan of this process.
LEMMA ServeInv ==
    ASSUME OrderInv, Server \/ Peer
    PROVE  OrderInv'
<1>1. /\ UNCHANGED <<tree, index, pc, walk, status, counters, seen, scanned>>
  BY DEF Server, Peer, Authorize, ServeList, ServeRow, ServeBlock, RefuseBlock, AskList, AskBlock
<1>2. ParentsListed' /\ WalkInv'
  BY <1>1 DEF OrderInv, ParentsListed, WalkInv, Closed, walk
<1>3. /\ request' \in Request
      /\ answer' \in [given : BOOLEAN, rows : [Paths -> Entry]]
      /\ request'.stage # "new" => scanned.live
      /\ answer'.given => scanned.live
  <2>. USE RecordLemma DEF OrderInv, TypeOK, LiveInv
  <2>1. CASE Authorize
    BY <2>1 DEF Authorize, Authorized, Refuse, Request
  <2>2. CASE ServeList
    BY <2>2 DEF ServeList
  <2>3. CASE ServeRow
    BY <2>3 DEF ServeRow, Refuse, Request
  <2>4. CASE ServeBlock \/ RefuseBlock
    BY <2>4 DEF ServeBlock, RefuseBlock, Refuse
  <2>5. CASE AskList
    BY <2>5 DEF AskList, NoRequest, Request
  <2>6. ASSUME NEW p \in Paths, NEW i \in 1..Len(answer.rows[p].blocks), AskBlock(p, i)
        PROVE  /\ request' \in Request /\ answer' = answer
               /\ request'.stage = "new"
    <3>1. answer.rows[p].hash \in Seq(Block) /\ answer.rows[p].blocks \in Seq(Block)
      BY DEF Entry
    <3>2. i \in Nat
      BY <3>1
    <3>3. QED
      BY <2>6, <3>1, <3>2 DEF AskBlock, Request
  <2>7. QED
    BY <2>1, <2>2, <2>3, <2>4, <2>5, <2>6 DEF Server, Peer
<1>4. TypeOK'
  BY <1>1, <1>3 DEF OrderInv, TypeOK, tree, walk, counters
<1>5. LiveInv'
  BY <1>1, <1>3 DEF OrderInv, LiveInv
<1>6. QED
  BY <1>2, <1>4, <1>5 DEF OrderInv

\* A restart forgets the walk, the status, the request and the answer.
LEMMA RestartInv ==
    ASSUME OrderInv, Restart
    PROVE  OrderInv'
<1>1. NoAnswer \in [given : BOOLEAN, rows : [Paths -> Entry]] /\ ~NoAnswer.given
  BY RecordLemma DEF NoAnswer
<1>2. faults' \in 0..MaxFaults
  BY SourceAssumption DEF Restart, OrderInv, TypeOK
<1>3. TypeOK'
  BY <1>1, <1>2, RecordLemma DEF Restart, OrderInv, TypeOK, tree
<1>4. ParentsListed' /\ WalkInv'
  BY EmptyWalk DEF Restart, OrderInv, ParentsListed, WalkInv, Closed
<1>5. LiveInv'
  BY <1>1, RecordLemma DEF Restart, LiveInv
<1>6. QED
  BY <1>3, <1>4, <1>5 DEF OrderInv

\* Other programs change the tree and the mount, never the daemon's state.
LEMMA UserInv ==
    ASSUME OrderInv, User
    PROVE  OrderInv'
<1>1. /\ Edit /\ disk' \in [Paths -> Object] /\ mounted' \in BOOLEAN
      /\ aside' \subseteq [Paths -> Object]
  <2>1. ASSUME NEW p \in Paths,
               NEW o \in {Directory, Other} \cup {File(c, m) : c \in Contents, m \in Modes},
               UserPut(p, o)
        PROVE  /\ Edit /\ disk' \in [Paths -> Object] /\ mounted' \in BOOLEAN
               /\ aside' \subseteq [Paths -> Object]
    <3>1. o \in Object
      BY RecordLemma, DataAssumption DEF File, Object
    <3>2. QED
      BY <2>1, <3>1 DEF UserPut, OrderInv, TypeOK
  <2>2. ASSUME NEW p \in Paths, UserRemove(p)
        PROVE  /\ Edit /\ disk' \in [Paths -> Object] /\ mounted' \in BOOLEAN
               /\ aside' \subseteq [Paths -> Object]
    BY <2>2, RecordLemma DEF UserRemove, OrderInv, TypeOK
  <2>3. CASE Remount
    <3>1. [p \in Paths |-> Absent] \in [Paths -> Object]
      BY RecordLemma
    <3>2. QED
      BY <2>3, <3>1 DEF Remount, GoAway, ComeBack, OrderInv, TypeOK
  <2>4. QED
    BY <2>1, <2>2, <2>3 DEF User
<1>2. \A p \in Paths : Shape(disk'[p]) \in Shapes
  BY <1>1 DEF Shape, Shapes, Object
<1>3. window' \in [Paths -> SUBSET Shapes] /\ aways' \in [Paths -> SUBSET Shapes]
  BY <1>1, <1>2, RecordLemma DEF Edit, OrderInv, TypeOK
<1>4. edits' \in 0..MaxEdits
  BY <1>1, SourceAssumption DEF Edit, OrderInv, TypeOK
<1>5. TypeOK'
  BY <1>1, <1>3, <1>4 DEF Edit, OrderInv, TypeOK, walk
<1>6. ParentsListed' /\ WalkInv' /\ LiveInv'
  BY <1>1 DEF Edit, OrderInv, ParentsListed, WalkInv, Closed, LiveInv, walk
<1>7. QED
  BY <1>5, <1>6 DEF OrderInv

\* The invariant is kept by every step.
LEMMA OrderStep ==
    ASSUME OrderInv, [Next]_vars
    PROVE  OrderInv'
<1>1. CASE Scanner
  BY <1>1, ScanBeginInv, ScanVisitInv, ScanReadDirInv, ScanRestInv DEF Scanner
<1>2. CASE Server \/ Peer
  BY <1>2, ServeInv
<1>3. CASE ScanFault
  <2>1. faults' \in 0..MaxFaults
    BY <1>3, SourceAssumption DEF ScanFault, OrderInv, TypeOK
  <2>2. QED
    BY <1>3, <2>1, ScanFailsInv DEF ScanFault
<1>4. CASE Restart
  BY <1>4, RestartInv
<1>5. CASE User
  BY <1>5, UserInv
<1>6. CASE UNCHANGED vars
  BY <1>6 DEF vars, OrderInv, TypeOK, ParentsListed, WalkInv, Closed, LiveInv,
              tree, walk, counters
<1>7. QED
  BY <1>1, <1>2, <1>3, <1>4, <1>5, <1>6 DEF Next

----------------------------------------------------------------------------
\* The order of the walk and the life of an answer, in every state.
LEMMA OrderInvHolds == Spec => []OrderInv
<1>1. Init => OrderInv
  BY OrderInit
<1>2. OrderInv /\ [Next]_vars => OrderInv'
  BY OrderStep
<1>3. QED
  BY <1>1, <1>2, PTL DEF Spec

\* Every index a source writes lists the ancestors of the paths it lists, though
\* the tree changes under the walk: what Replica assumes of a manifest.
THEOREM ParentsListedHolds == Spec => []ParentsListed
<1>1. OrderInv => ParentsListed
  BY DEF OrderInv
<1>2. QED
  BY <1>1, OrderInvHolds, PTL

\* List is answered only from an index that the running process has scanned.
THEOREM AnswerIsScannedHolds == Spec => []AnswerIsScanned
<1>1. OrderInv => AnswerIsScanned
  BY DEF OrderInv, LiveInv, AnswerIsScanned
<1>2. QED
  BY <1>1, OrderInvHolds, PTL

----------------------------------------------------------------------------
(* The evidence for what the index says.                                   *)

\* Shapes of objects, and claims of rows.
LEMMA ShapeLemma ==
    /\ \A o \in Object : Shape(o) \in Shapes /\ Shape(o).kind = o.kind /\ Shape(o).data = o.data
    /\ Claim(NoEntry) = Nothing /\ Shape(Absent) = Nothing
    /\ Nothing.kind = "absent" /\ Absent.kind = "absent" /\ Absent.data = <<>>
    /\ \A e \in Entry : e.kind = "none" => Claim(e) = Nothing
BY DEF Shape, Shapes, Object, Claim, NoEntry, Nothing, Absent, Entry

\* A row made of an object claims its shape and is a proper one.
LEMMA EntryClaim ==
    ASSUME NEW o \in Object, o.kind \in {"directory", "file"},
           o.kind # "file" => o.data = <<>>, o.kind = "file" => o.mode \in Modes
    PROVE  /\ Claim(EntryOf(o)) = Shape(o) /\ Proper(EntryOf(o))
           /\ EntryOf(o).kind # "none"
<1>1. CASE o.kind = "directory"
  BY <1>1 DEF EntryOf, Claim, Shape, Proper, Directory
<1>2. CASE o.kind = "file"
  BY <1>2 DEF EntryOf, Claim, Shape, Proper
<1>3. QED
  BY <1>1, <1>2

\* No row is a proper one.
LEMMA ProperNone ==
    /\ Proper(NoEntry) /\ \A p \in Paths : Proper(NoManifest[p]) /\ NoManifest[p] = NoEntry
BY DEF Proper, NoManifest

\* An absent path has no content; where no directory is, nothing is below.
LEMMA TreeLemma ==
    ASSUME TypeOK, TreeInv, NEW p \in Paths
    PROVE  /\ disk[p] \in Object
           /\ disk[p].kind = "absent" => Shape(disk[p]) = Nothing
           /\ \A d \in Above[p] : disk[d].kind # "directory" => Shape(disk[p]) = Nothing
<1>1. disk[p] \in Object
  BY DEF TypeOK
<1>2. disk[p].kind = "absent" => Shape(disk[p]) = Nothing
  BY DEF TreeInv, Shape, Nothing
<1>3. QED
  BY <1>1, <1>2 DEF TreeInv, ParentsPresent

\* The parts of the invariant that are not about the order of the walk.
Evidence == TreeInv /\ RowsInv /\ RequestInv /\ WindowInv /\ IndexIsRegular

\* A folder just initialised.
LEMMA EvidenceInit == Init => Evidence
<1>. SUFFICES ASSUME Init PROVE Evidence
  OBVIOUS
<1>1. TreeInv
  BY ShapeLemma DEF Init, TreeInv
<1>2. RowsInv /\ RequestInv
  BY ProperNone DEF Init, RowsInv, RequestInv, NoAnswer, NoRequest
<1>3. WindowInv
  BY DEF Init, WindowInv
<1>4. IndexIsRegular
  BY ProperNone, ShapeLemma DEF Init, IndexIsRegular
<1>5. QED
  BY <1>1, <1>2, <1>3, <1>4 DEF Evidence

\* No walk runs after the step.
LEMMA WalkEnds ==
    ASSUME Evidence, pc' = "idle", pending' = {}, found' = NoManifest, NothingSeen,
           UNCHANGED <<tree, index>>, scanned'.window = scanned.window,
           RequestInv', \A p \in Paths : Proper(answer'.rows[p])
    PROVE  Evidence'
<1>1. TreeInv' /\ IndexIsRegular' /\ RowsInv'
  BY ProperNone DEF Evidence, TreeInv, IndexIsRegular, RowsInv, tree
<1>2. WindowInv'
  BY DEF WindowInv
<1>3. QED
  BY <1>1, <1>2 DEF Evidence

\* The root is read: what is there is pending, what is not was missing now.
LEMMA BeginEvidence ==
    ASSUME OrderInv, Evidence, ScanBegin
    PROVE  Evidence'
<1>0. TypeOK /\ TreeInv /\ RowsInv /\ RequestInv
  BY DEF OrderInv, Evidence
<1>1. CASE ScanFails
  BY <1>0, <1>1, WalkEnds DEF ScanBegin, ScanFails, tree, RequestInv, RowsInv
<1>2. CASE ~ScanFails
  <2>. DEFINE C == {q \in Paths : Above[q] = {}}
  <2>1. /\ pc' = "walk" /\ pending' = ReadDir(C) /\ found' = NoManifest
        /\ window' = Now /\ aways' = NoWindow
        /\ UNCHANGED <<disk, mounted, aside, index, answer, request, scanned>>
    BY <1>2 DEF ScanBegin, tree, Evidence, WindowInv
  <2>2. TreeInv' /\ RowsInv' /\ RequestInv' /\ IndexIsRegular'
    BY <2>1, ProperNone DEF Evidence, TreeInv, ParentsPresent, RowsInv, RequestInv, IndexIsRegular
  <2>3. ASSUME NEW p \in Paths
        PROVE  /\ Seen(p)' = {Shape(disk[p])}
               /\ Nothing \in Seen(p)' \/ Ahead(p)'
               /\ \A d \in Above[p] : \A s \in Seen(d)' : s.kind # "directory" => Nothing \in Seen(p)'
    <3>1. \A q \in Paths : Seen(q)' = {Shape(disk[q])}
      BY <2>1 DEF Now, NoWindow
    <3>2. PICK r \in Above[p] \cup {p} : Above[r] = {}
      BY ChainAssumption
    <3>3. r \in C /\ r \in Paths
      BY <3>2, AboveLemma
    <3>6. \A d \in Above[p] : d \in Paths /\ disk[d] \in Object
      BY <1>0, AboveLemma DEF TypeOK
    <3>7. \A d \in Above[p] : \A s \in Seen(d)' : s.kind # "directory" => Nothing \in Seen(p)'
      BY <1>0, <3>1, <3>6, TreeLemma, ShapeLemma
    <3>4. CASE disk[r].kind = "absent"
      BY <1>0, <3>1, <3>3, <3>4, <3>7, TreeLemma, ShapeLemma
    <3>5. CASE disk[r].kind # "absent"
      <4>1. [path |-> r, dir |-> disk[r].kind = "directory"] \in pending'
        BY <2>1, <3>3, <3>5 DEF ReadDir
      <4>2. \E n \in pending' : n.path = r
        BY <4>1
      <4>3. QED
        BY <3>1, <3>2, <3>7, <4>2 DEF Ahead
    <3>8. QED
      BY <3>4, <3>5
  <2>4. \A n \in pending' : n.dir \/ \E s \in Seen(n.path)' : s.kind # "directory"
    <3>1. SUFFICES ASSUME NEW n \in ReadDir(C)
                   PROVE  n.dir \/ \E s \in Seen(n.path)' : s.kind # "directory"
      BY <2>1
    <3>2. PICK q \in C : n = [path |-> q, dir |-> disk[q].kind = "directory"]
      BY DEF ReadDir
    <3>3. Shape(disk[q]).kind = disk[q].kind /\ Shape(disk[q]) \in Seen(q)'
      BY <1>0, <2>3, ShapeLemma DEF TypeOK
    <3>4. QED
      BY <3>2, <3>3
  <2>. HIDE DEF C
  <2>5. WindowInv'
    <3>1. \A p \in Paths : found'[p].kind = "none" /\ Shape(disk'[p]) \in Seen(p)'
      BY <2>1, <2>3, RecordLemma
    <3>2. QED
      BY <2>1, <2>3, <2>4, <3>1 DEF WindowInv
  <2>6. QED
    BY <2>2, <2>5 DEF Evidence
<1>3. QED
  BY <1>1, <1>2

\* A name is visited: the object found now is recorded; if it was no directory
\* when its parent was read, nothing below it has to be looked for.
LEMMA VisitEvidence ==
    ASSUME OrderInv, Evidence, ScanVisit
    PROVE  Evidence'
<1>0. TypeOK /\ TreeInv /\ RowsInv /\ RequestInv /\ WindowInv
  BY DEF OrderInv, Evidence
<1>u. pc = "walk" /\ UNCHANGED <<disk, mounted, aside, index, answer, request, scanned>>
  BY DEF ScanVisit, tree
<1>1. CASE ScanFails
  BY <1>0, <1>1, <1>u, WalkEnds DEF ScanFails, RequestInv, RowsInv, tree
<1>2. CASE ~ScanFails
  <2>0. PICK n \in pending :
           /\ Reachable(n.path)
           /\ found' = [found EXCEPT ![n.path] = EntryOf(disk[n.path])]
           /\ pending' = pending \ {n}
           /\ pc' = IF n.dir THEN "readdir" ELSE "walk"
           /\ here' = n.path
           /\ UNCHANGED <<status, seen>>
    BY <1>2 DEF ScanVisit
  <2>1. n.path \in Paths
    BY <1>0 DEF TypeOK, Name
  <2>2. /\ Claim(EntryOf(disk[n.path])) = Shape(disk[n.path])
        /\ Proper(EntryOf(disk[n.path])) /\ EntryOf(disk[n.path]).kind # "none"
    BY <1>0, <2>0, <2>1, EntryClaim DEF TypeOK, TreeInv, Reachable
  <2>3. /\ found'[n.path] = EntryOf(disk[n.path])
        /\ \A p \in Paths \ {n.path} : found'[p] = found[p]
    BY <1>0, <2>0, <2>1 DEF TypeOK
  <2>4. TreeInv' /\ RowsInv' /\ RequestInv' /\ IndexIsRegular'
    BY <1>u, <2>2, <2>3 DEF Evidence, TreeInv, ParentsPresent, RowsInv, RequestInv, IndexIsRegular
  <2>5. ASSUME NEW p \in Paths, found'[p].kind = "none"
        PROVE  Nothing \in Seen(p)' \/ Ahead(p)'
    <3>1. p # n.path /\ found[p].kind = "none"
      BY <2>2, <2>3, <2>5
    <3>2. SUFFICES ASSUME Ahead(p) PROVE Nothing \in Seen(p) \/ Ahead(p)'
      BY <1>0, <1>u, <2>0, <3>1 DEF WindowInv
    <3>3. PICK k \in pending : k.path = p \/ k.path \in Above[p]
      BY <1>u, <3>2 DEF Ahead
    <3>4. CASE k # n
      BY <2>0, <3>3, <3>4 DEF Ahead
    <3>5. CASE k = n
      <4>1. n.path \in Above[p]
        BY <3>1, <3>3, <3>5
      <4>2. CASE n.dir
        BY <2>0, <4>1, <4>2 DEF Ahead
      <4>3. CASE ~n.dir
        BY <1>0, <1>u, <4>1, <4>3 DEF WindowInv
      <4>4. QED
        BY <4>2, <4>3
    <3>6. QED
      BY <3>4, <3>5
  <2>6. \A p \in Paths : found'[p].kind # "none" => Claim(found'[p]) \in Seen(p)'
    BY <1>0, <1>u, <2>0, <2>1, <2>2, <2>3 DEF WindowInv
  <2>7. WindowInv'
    BY <1>0, <1>u, <2>0, <2>5, <2>6 DEF WindowInv
  <2>8. QED
    BY <2>4, <2>7 DEF Evidence
<1>3. QED
  BY <1>1, <1>2

\* A directory is read: each of its candidates is pending or missing now.
LEMMA ReadDirEvidence ==
    ASSUME OrderInv, Evidence, ScanReadDir
    PROVE  Evidence'
<1>0. TypeOK /\ TreeInv /\ RowsInv /\ RequestInv /\ WindowInv
  BY DEF OrderInv, Evidence
<1>u. pc = "readdir" /\ UNCHANGED <<disk, mounted, aside, index, answer, request, scanned>>
  BY DEF ScanReadDir, tree
<1>1. CASE ScanFails
  BY <1>0, <1>1, <1>u, WalkEnds DEF ScanFails, RequestInv, RowsInv, tree
<1>2. CASE ~ScanFails
  <2>. DEFINE C == {q \in Paths : Above[q] = Above[here] \cup {here}}
  <2>1. /\ pending' = pending \cup ReadDir(C) /\ pc' = "walk"
        /\ UNCHANGED <<found, here, seen>>
    BY <1>2 DEF ScanReadDir
  <2>2. TreeInv' /\ RowsInv' /\ RequestInv' /\ IndexIsRegular'
    BY <1>u, <2>1 DEF Evidence, TreeInv, ParentsPresent, RowsInv, RequestInv, IndexIsRegular
  <2>3. ASSUME NEW p \in Paths, found[p].kind = "none"
        PROVE  Nothing \in Seen(p) \/ Ahead(p)'
    <3>1. SUFFICES ASSUME Ahead(p) PROVE Nothing \in Seen(p) \/ Ahead(p)'
      BY <1>0, <1>u, <2>3 DEF WindowInv
    <3>2. CASE \E n \in pending : n.path = p \/ n.path \in Above[p]
      BY <2>1, <3>2 DEF Ahead
    <3>3. CASE here \in Above[p]
      <4>1. PICK c \in Above[p] \cup {p} : Above[c] = Above[here] \cup {here}
        BY <3>3, ChainAssumption
      <4>2. c \in C /\ c \in Paths
        BY <4>1, AboveLemma
      <4>3. CASE disk[c].kind = "absent"
        <5>1. Shape(disk[c]) = Nothing /\ Shape(disk[c]) \in Seen(c) /\ Nothing.kind # "directory"
          BY <1>0, <1>u, <4>2, <4>3, TreeLemma, ShapeLemma DEF WindowInv
        <5>2. c = p \/ c \in Above[p]
          BY <4>1
        <5>3. QED
          BY <1>0, <1>u, <5>1, <5>2 DEF WindowInv
      <4>4. CASE disk[c].kind # "absent"
        <5>1. [path |-> c, dir |-> disk[c].kind = "directory"] \in pending'
          BY <2>1, <4>2, <4>4 DEF ReadDir
        <5>2. \E n \in pending' : n.path = c
          BY <5>1
        <5>3. QED
          BY <4>1, <5>2 DEF Ahead
      <4>5. QED
        BY <4>3, <4>4
    <3>4. QED
      BY <3>1, <3>2, <3>3 DEF Ahead
  <2>4. \A n \in pending' : n.dir \/ \E s \in Seen(n.path) : s.kind # "directory"
    <3>1. SUFFICES ASSUME NEW n \in ReadDir(C)
                   PROVE  n.dir \/ \E s \in Seen(n.path) : s.kind # "directory"
      BY <1>0, <2>1 DEF WindowInv
    <3>2. PICK q \in C : n = [path |-> q, dir |-> disk[q].kind = "directory"]
      BY DEF ReadDir
    <3>3. Shape(disk[q]).kind = disk[q].kind /\ Shape(disk[q]) \in Seen(q)
      BY <1>0, <1>u, ShapeLemma DEF TypeOK, WindowInv
    <3>4. QED
      BY <3>2, <3>3
  <2>. HIDE DEF C
  <2>5. WindowInv'
    BY <1>0, <1>u, <2>1, <2>3, <2>4 DEF WindowInv
  <2>6. QED
    BY <2>2, <2>5 DEF Evidence
<1>3. QED
  BY <1>1, <1>2

\* The walk has ended: nothing is ahead any more.
LEMMA NothingAhead ==
    ASSUME OrderInv, WindowInv, pc \in {"check", "commit", "done"}, NEW p \in Paths
    PROVE  Claim(found[p]) \in Seen(p)
<1>1. ~Ahead(p)
  BY DEF OrderInv, WalkInv, Ahead
<1>2. found[p].kind = "none" => Claim(found[p]) = Nothing
  BY ShapeLemma DEF OrderInv, TypeOK
<1>3. QED
  BY <1>1, <1>2 DEF WindowInv

\* The end of the walk, the marker check, the transaction and update.
LEMMA RestEvidence ==
    ASSUME OrderInv, Evidence, ScanWalked \/ ScanCheck \/ ScanCommit \/ ScanUpdate
    PROVE  Evidence'
<1>0. TypeOK /\ TreeInv /\ RowsInv /\ RequestInv /\ WindowInv /\ WalkInv
  BY DEF OrderInv, Evidence
<1>u. UNCHANGED <<disk, mounted, aside, answer, request>>
  BY DEF ScanWalked, ScanCheck, ScanCommit, ScanUpdate, tree
<1>1. CASE ScanWalked \/ (ScanCheck /\ ~ScanFails)
  <2>1. /\ pc \in {"walk", "check"} /\ pc' \in {"check", "commit"}
        /\ UNCHANGED <<index, pending, here, found, seen, scanned>>
        /\ pc' = "commit" => pc = "check" /\ mounted
    BY <1>1 DEF ScanWalked, ScanCheck, walk
  <2>2. \A p \in Paths : Ahead(p)' <=> Ahead(p)
    BY <1>1, <2>1 DEF Ahead, ScanWalked, ScanCheck
  <2>3. ASSUME pc' = "commit", NEW p \in Paths PROVE Claim(found'[p]) \in window'[p]
    <3>1. aways[p] = {}
      BY <1>0, <2>1, <2>3 DEF WindowInv, NoWindow
    <3>2. QED
      BY <1>0, <2>1, <2>3, <3>1, NothingAhead
  <2>4. WindowInv'
    BY <1>0, <1>u, <2>1, <2>2, <2>3 DEF WindowInv
  <2>5. QED
    BY <1>0, <1>u, <2>1, <2>4 DEF Evidence, TreeInv, RowsInv, RequestInv, IndexIsRegular
<1>2. CASE (ScanCheck /\ ScanFails) \/ ScanUpdate
  <2>1. pending' = {} /\ pc' = "idle" /\ found' = NoManifest /\ NothingSeen
        /\ UNCHANGED <<index, scanned>>
    BY <1>0, <1>2 DEF ScanCheck, ScanFails, ScanUpdate, WalkInv
  <2>2. QED
    BY <1>0, <1>u, <2>1, WalkEnds DEF RequestInv, RowsInv, tree
<1>3. CASE ScanCommit
  <2>1. /\ pc = "commit" /\ pc' = "done" /\ index' = found
        /\ UNCHANGED <<pending, here, found, seen>>
        /\ scanned'.window = window
    BY <1>3 DEF ScanCommit, walk
  <2>2. IndexIsRegular'
    BY <1>0, <2>1 DEF WindowInv, IndexIsRegular
  <2>3. WindowInv'
    BY <1>0, <1>u, <2>1 DEF WindowInv, Ahead
  <2>4. QED
    BY <1>0, <1>u, <2>1, <2>2, <2>3 DEF Evidence, TreeInv, ParentsPresent, RowsInv, RequestInv
<1>4. QED
  BY <1>1, <1>2, <1>3

\* The handlers change the request and the answer only; a block is asked for
\* of the answer that is kept until the request is served.
LEMMA ServeEvidence ==
    ASSUME OrderInv, Evidence, Server \/ Peer
    PROVE  Evidence'
<1>0. TypeOK /\ TreeInv /\ RowsInv /\ RequestInv /\ WindowInv
  BY DEF OrderInv, Evidence
<1>1. UNCHANGED <<disk, mounted, aside, index, pc, pending, here, found, seen, scanned>>
  BY DEF Server, Peer, Authorize, ServeList, ServeRow, ServeBlock, RefuseBlock, AskList, AskBlock,
         tree, walk
<1>2. TreeInv' /\ WindowInv' /\ IndexIsRegular'
  BY <1>1 DEF Evidence, TreeInv, ParentsPresent, WindowInv, Ahead, IndexIsRegular
<1>3. /\ RequestInv'
      /\ answer' = answer \/ answer'.rows = index
  <2>1. CASE Authorize
    BY <1>0, <2>1 DEF Authorize, Refuse, RequestInv, NoRequest, TypeOK, Request
  <2>2. CASE ServeList
    BY <2>2 DEF ServeList, RequestInv, NoRequest
  <2>3. CASE ServeRow
    BY <1>0, <2>3 DEF ServeRow, Refuse, RequestInv, NoRequest, TypeOK, Request
  <2>4. CASE ServeBlock \/ RefuseBlock
    BY <2>4 DEF ServeBlock, RefuseBlock, Refuse, RequestInv, NoRequest
  <2>5. CASE AskList
    BY <2>5 DEF AskList, RequestInv, NoRequest
  <2>6. ASSUME NEW p \in Paths, NEW i \in 1..Len(answer.rows[p].blocks), AskBlock(p, i)
        PROVE  RequestInv' /\ answer' = answer
    BY <2>6 DEF AskBlock, RequestInv
  <2>7. QED
    BY <2>1, <2>2, <2>3, <2>4, <2>5, <2>6 DEF Server, Peer
<1>4. RowsInv'
  BY <1>0, <1>1, <1>3 DEF RowsInv
<1>5. QED
  BY <1>2, <1>3, <1>4 DEF Evidence

\* Other programs change the tree and remain within a tree; the window takes
\* in the new shapes.
LEMMA UserEvidence ==
    ASSUME OrderInv, Evidence, User, TypeOK'
    PROVE  Evidence'
<1>0. TypeOK /\ TreeInv /\ RowsInv /\ RequestInv /\ WindowInv
  BY DEF OrderInv, Evidence
<1>1. Edit
  BY DEF User, UserPut, UserRemove, Remount, GoAway, ComeBack
<1>2. UNCHANGED <<index, pc, pending, here, found, answer, request, scanned>>
  BY <1>1 DEF Edit, walk
<1>3. TreeInv'
  <2>1. ASSUME NEW p \in Paths,
               NEW o \in {Directory, Other} \cup {File(c, m) : c \in Contents, m \in Modes},
               UserPut(p, o)
        PROVE  TreeInv'
    <3>1. /\ o.kind \in {"directory", "file", "other"}
          /\ o.kind # "file" => o.data = <<>>
          /\ o.kind = "file" => o.mode \in Modes
      BY DEF Directory, Other, File
    <3>2. disk'[p] = o /\ \A q \in Paths \ {p} : disk'[q] = disk[q]
      BY <1>0, <2>1 DEF UserPut, TypeOK
    <3>3. \A q \in Paths : p \in Above[q] => disk[q].kind = "absent" /\ q # p
      BY <1>0, <2>1, AboveLemma DEF UserPut, TreeInv, ParentsPresent
    <3>4. ASSUME NEW q \in Paths, disk'[q].kind # "absent", NEW d \in Above[q]
          PROVE  disk'[d].kind = "directory"
      <4>1. d \in Paths /\ d # q
        BY AboveLemma
      <4>2. d # p
        BY <3>2, <3>3, <3>4
      <4>3. disk[d].kind = "directory"
        BY <1>0, <2>1, <3>2, <3>4 DEF UserPut, TreeInv, ParentsPresent
      <4>4. QED
        BY <3>2, <4>1, <4>2, <4>3
    <3>5. aside' = aside
      BY <2>1 DEF UserPut
    <3>6. QED
      BY <1>0, <3>1, <3>2, <3>4, <3>5 DEF TreeInv
  <2>2. ASSUME NEW p \in Paths, UserRemove(p)
        PROVE  TreeInv'
    <3>1. \A q \in Paths : disk'[q] = IF q \in Below(p) THEN Absent ELSE disk[q]
      BY <2>2 DEF UserRemove
    <3>2. ASSUME NEW q \in Paths, disk'[q].kind # "absent", NEW d \in Above[q]
          PROVE  disk'[d].kind = "directory"
      <4>1. d \in Paths /\ Above[d] \subseteq Above[q]
        BY AboveLemma
      <4>2. q \notin Below(p) /\ disk'[q] = disk[q]
        BY <3>1, <3>2, ShapeLemma
      <4>3. d \notin Below(p)
        BY <3>2, <4>1, <4>2 DEF Below
      <4>4. QED
        BY <1>0, <3>1, <3>2, <4>1, <4>2, <4>3 DEF TreeInv, ParentsPresent
    <3>3. aside' = aside
      BY <2>2 DEF UserRemove
    <3>4. QED
      BY <1>0, <3>1, <3>2, <3>3, ShapeLemma DEF TreeInv
  <2>3. CASE Remount
    <3>1. IsTree([p \in Paths |-> Absent])
      BY ShapeLemma
    <3>2. (disk' = disk \/ IsTree(disk')) /\ aside' \subseteq aside \cup {disk}
      BY <1>0, <2>3, <3>1 DEF Remount, GoAway, ComeBack, TreeInv
    <3>3. QED
      BY <1>0, <3>2 DEF TreeInv
  <2>4. QED
    BY <2>1, <2>2, <2>3 DEF User
<1>4. WindowInv'
  <2>1. CASE pc = "idle"
    BY <1>0, <1>1, <1>2, <2>1 DEF Edit, WindowInv, OrderInv, WalkInv
  <2>2. CASE pc # "idle"
    <3>0. /\ mounted' => aways' = NoWindow
          /\ \A p \in Paths : window[p] \subseteq window'[p]
      BY <1>0, <1>1, <2>2 DEF Edit, TypeOK
    <3>1. \A p \in Paths : Seen(p)' = Seen(p) \cup {Shape(disk'[p])}
      BY <1>1, <2>2 DEF Edit, NoWindow
    <3>2. ASSUME NEW p \in Paths, NEW d \in Above[p], NEW s \in Seen(d)', s.kind # "directory"
          PROVE  Nothing \in Seen(p)'
      <4>1. d \in Paths
        BY AboveLemma
      <4>2. CASE s \in Seen(d)
        BY <1>0, <2>2, <3>1, <3>2, <4>2 DEF WindowInv
      <4>3. CASE s = Shape(disk'[d])
        <5>1. disk'[d] \in Object /\ disk'[p] \in Object
          BY <4>1 DEF TypeOK
        <5>2. disk'[p].kind = "absent"
          BY <1>3, <3>2, <4>3, <5>1, ShapeLemma DEF TreeInv, ParentsPresent
        <5>3. Shape(disk'[p]) = Nothing
          BY <1>3, <5>2 DEF TreeInv, Shape, Nothing
        <5>4. QED
          BY <3>1, <5>3
      <4>4. QED
        BY <3>1, <4>1, <4>2, <4>3
    <3>3. \A p \in Paths : Ahead(p) => Ahead(p)'
      BY <1>2 DEF Ahead
    <3>4. \A n \in pending : n.dir \/ \E s \in Seen(n.path)' : s.kind # "directory"
      BY <1>0, <3>1 DEF WindowInv, TypeOK, Name
    <3>5. QED
      BY <1>0, <1>2, <2>2, <3>0, <3>1, <3>2, <3>3, <3>4 DEF WindowInv
  <2>3. QED
    BY <2>1, <2>2
<1>5. QED
  BY <1>0, <1>2, <1>3, <1>4 DEF Evidence, RowsInv, RequestInv, IndexIsRegular

\* Every step keeps the evidence.
LEMMA EvidenceStep ==
    ASSUME OrderInv, Evidence, [Next]_vars, OrderInv'
    PROVE  Evidence'
<1>0. TypeOK' /\ RequestInv /\ RowsInv
  BY DEF OrderInv, Evidence
<1>1. CASE Scanner
  BY <1>1, BeginEvidence, VisitEvidence, ReadDirEvidence, RestEvidence DEF Scanner
<1>2. CASE Server \/ Peer
  BY <1>2, ServeEvidence
<1>3. CASE ScanFault
  BY <1>0, <1>3, WalkEnds DEF ScanFault, ScanFails, tree, RequestInv, RowsInv
<1>4. CASE Restart
  <2>1. RequestInv' /\ \A p \in Paths : Proper(answer'.rows[p])
    BY <1>4, ProperNone DEF Restart, RequestInv, NoRequest, NoAnswer
  <2>2. scanned'.window = scanned.window
    BY <1>4 DEF Restart, OrderInv, TypeOK
  <2>3. QED
    BY <1>4, <2>1, <2>2, WalkEnds DEF Restart, tree
<1>5. CASE User
  BY <1>0, <1>5, UserEvidence
<1>6. CASE UNCHANGED vars
  BY <1>6 DEF vars, tree, walk, Evidence, TreeInv, ParentsPresent, RowsInv, RequestInv, WindowInv,
              Ahead, IndexIsRegular
<1>7. QED
  BY <1>1, <1>2, <1>3, <1>4, <1>5, <1>6 DEF Next

\* The evidence is there in every state.
LEMMA EvidenceHolds == Spec => []Evidence
<1>1. OrderInv /\ OrderInv' /\ Evidence /\ [Next]_vars => Evidence'
  BY EvidenceStep
<1>2. QED
  BY <1>1, EvidenceInit, OrderInvHolds, PTL DEF Spec

----------------------------------------------------------------------------
\* The inductive invariant of the source holds in every state.
THEOREM SourceInvHolds == Spec => []SourceInv
<1>1. OrderInv /\ Evidence => SourceInv
  BY DEF SourceInv, Evidence
<1>2. QED
  BY <1>1, OrderInvHolds, EvidenceHolds, PTL

\* However the tree changes under the walk of Scan, each row of the index, and
\* each path without a row, was true at some moment of that walk.
THEOREM IndexIsRegularHolds == Spec => []IndexIsRegular
<1>1. Evidence => IndexIsRegular
  BY DEF Evidence
<1>2. QED
  BY <1>1, EvidenceHolds, PTL

\* A block of another version of the file than the one listed is never served,
\* though Scan and other programs run between the steps of ReadBlock.
THEOREM ServedIsListedHolds == Spec => ServedIsListed
<1>. DEFINE Served == ServeBlock =>
                        /\ answer.rows[request.path].hash = request.hash
                        /\ disk[request.path].data[request.at] =
                               answer.rows[request.path].blocks[request.at]
<1>1. OrderInv /\ Evidence /\ [Next]_vars => [Served]_vars
  <2>1. SUFFICES ASSUME OrderInv, Evidence, ServeBlock
                 PROVE  /\ answer.rows[request.path].hash = request.hash
                        /\ disk[request.path].data[request.at] =
                               answer.rows[request.path].blocks[request.at]
    OBVIOUS
  <2>2. request.path \in Paths /\ request.kind = "block"
    BY <2>1 DEF OrderInv, TypeOK, Request, ServeBlock
  <2>3. /\ answer.rows[request.path].kind = "file"
        /\ answer.rows[request.path].hash = request.hash
        /\ Proper(answer.rows[request.path])
    BY <2>1, <2>2 DEF Evidence, RequestInv, RowsInv
  <2>4. answer.rows[request.path].blocks = request.hash
    BY <2>3, RecordLemma DEF Proper, EntryOf, Directory
  <2>5. QED
    BY <2>1, <2>3, <2>4 DEF ServeBlock, BlockIntact
<1>2. Spec => [][Served]_vars
  BY <1>1, OrderInvHolds, EvidenceHolds, PTL DEF Spec
<1>3. QED
  BY <1>2 DEF ServedIsListed

----------------------------------------------------------------------------
(* SourceScan implements Source.                                           *)

\* Source and SourceScan speak of the same shapes and rows: each reaches them
\* through a copy of module Folder.
LEMMA SameData ==
    /\ Abstract!NoEntry = NoEntry
    /\ Abstract!Shapes = Shapes
    /\ Abstract!NoManifest = NoManifest
    /\ \A e : Abstract!Claim(e) = Claim(e)
<1>1. Abstract!NoEntry = NoEntry /\ Abstract!Nothing = Nothing /\ Abstract!Shapes = Shapes
  BY DEF Abstract!NoEntry, Abstract!NoMode, NoEntry, NoMode, Abstract!Nothing, Nothing,
         Abstract!Shapes, Shapes
<1>2. QED
  BY <1>1 DEF Abstract!NoManifest, NoManifest, Abstract!Claim, Claim

\* The rows a walk has recorded are rows of shapes that the paths had.
LEMMA RowLemma ==
    ASSUME NEW e \in Entry, Proper(e)
    PROVE  e \in Abstract!RowsFor(Claim(e))
<1>1. CASE e = NoEntry
  BY <1>1, ShapeLemma, SameData DEF Abstract!RowsFor, Claim, Nothing, NoEntry
<1>2. CASE e = EntryOf(Directory)
  <2>1. e = [NoEntry EXCEPT !.kind = "directory"]
    BY <1>2 DEF EntryOf, Directory, NoEntry
  <2>2. Claim(e).kind = "directory"
    BY <1>2 DEF EntryOf, Directory, Claim
  <2>3. QED
    BY <2>1, <2>2, SameData DEF Abstract!RowsFor
<1>3. CASE e.kind = "file" /\ e.mode \in Modes /\ e.blocks = e.hash
  <2>1. Claim(e).kind = "file" /\ Claim(e).data = e.hash
    BY <1>3 DEF Claim
  <2>2. e \in [kind : {"file"}, mode : Modes, hash : {Claim(e).data}, blocks : {Claim(e).data}]
    BY <1>3, <2>1 DEF Entry
  <2>3. QED
    BY <2>1, <2>2 DEF Abstract!RowsFor
<1>4. QED
  BY <1>1, <1>2, <1>3 DEF Proper

\* A walk that has ended has found a regular index.
LEMMA FoundRegular ==
    ASSUME OrderInv, Evidence, pc = "commit"
    PROVE  found \in Abstract!Regular
<1>1. \A p \in Paths : found[p] \in Entry /\ Proper(found[p]) /\ Claim(found[p]) \in Seen(p)
  BY NothingAhead DEF OrderInv, TypeOK, Evidence, RowsInv
<1>2. \A p \in Paths : found[p] \in Abstract!Listable
  <2>1. SUFFICES ASSUME NEW p \in Paths PROVE found[p] \in Abstract!Listable
    OBVIOUS
  <2>2. Claim(found[p]) \in UNION {Abstract!Readable(q) : q \in Paths}
    BY <1>1 DEF Abstract!Readable
  <2>3. found[p] \in Abstract!RowsFor(Claim(found[p]))
    BY <1>1, RowLemma
  <2>4. QED
    BY <2>2, <2>3 DEF Abstract!Listable
<1>3. found \in [Paths -> Abstract!Listable]
  BY <1>2 DEF OrderInv, TypeOK
<1>4. Closed(found)
  BY DEF OrderInv, WalkInv
<1>5. QED
  BY <1>1, <1>3, <1>4, SameData DEF Abstract!Regular, Abstract!Readable, Closed

\* What Source knows of a walk, with the moments at which the folder was away.
Sight == [p \in Paths |-> Seen(p)]

\* A walk runs exactly while the window is open.
LEMMA WindowOpen ==
    ASSUME Evidence
    PROVE  pc = "idle" <=> Sight = NoWindow
<1>1. ASSUME pc # "idle" PROVE Sight # NoWindow
  <2>1. PICK p \in Paths : TRUE
    BY TreeAssumption
  <2>2. Shape(disk[p]) \in Sight[p] /\ NoWindow[p] = {}
    BY <1>1, <2>1 DEF Evidence, WindowInv, Sight, NoWindow
  <2>3. QED
    BY <2>2
<1>2. pc = "idle" => Sight = NoWindow
  BY DEF Evidence, WindowInv, NoWindow, Sight
<1>3. QED
  BY <1>1, <1>2

\* Every step of the scanner, the server, the peer and the other programs is a
\* step of Source or leaves its state alone.
LEMMA PromiseStep ==
    ASSUME OrderInv, OrderInv', Evidence, [Next]_vars
    PROVE  [Abstract!Next]_(Abstract!vars)
<1>. USE DEF Abstract!vars
<1>0. TypeOK /\ TypeOK'
  BY DEF OrderInv
<1>n. NoWindow = Abstract!NoScan
  BY DEF NoWindow, Abstract!NoScan
<1>1. ASSUME NothingSeen, UNCHANGED <<disk, index>>
      PROVE  Abstract!Fail
  <2>1. Sight' = NoWindow
    BY <1>1 DEF Sight, NoWindow
  <2>2. QED
    BY <1>1, <1>n, <2>1 DEF Abstract!Fail, Sight
<1>2. ASSUME UNCHANGED <<disk, index, seen>>
      PROVE  UNCHANGED Abstract!vars
  BY <1>2
<1>3. CASE ScanBegin
  <2>1. CASE ScanFails
    BY <1>1, <1>3, <2>1 DEF ScanBegin, ScanFails, tree, Abstract!Next
  <2>2. CASE ~ScanFails
    <3>1. pc = "idle" /\ window' = Now /\ aways' = NoWindow /\ UNCHANGED <<disk, index>>
      BY <1>3, <2>2 DEF ScanBegin, tree, Evidence, WindowInv
    <3>2. Now = [p \in Paths |-> {[q \in Paths |-> Shape(disk[q])][p]}]
      BY DEF Now
    <3>3. Sight = NoWindow /\ Sight' = Now
      BY <3>1, WindowOpen DEF Sight, Now, NoWindow
    <3>5. Abstract!Begin
      BY <1>n, <3>1, <3>2, <3>3 DEF Abstract!Begin, Sight
    <3>4. QED
      BY <3>5 DEF Abstract!Next
  <2>3. QED
    BY <2>1, <2>2
<1>4. CASE ScanVisit \/ ScanReadDir \/ ScanCheck
  <2>1. CASE ScanFails
    BY <1>1, <1>4, <2>1 DEF ScanVisit, ScanReadDir, ScanCheck, ScanFails, tree, Abstract!Next
  <2>2. CASE ~ScanFails
    BY <1>2, <1>4, <2>2 DEF ScanVisit, ScanReadDir, ScanCheck, tree
  <2>3. QED
    BY <2>1, <2>2
<1>5. CASE ScanWalked \/ Server \/ Peer
  BY <1>2, <1>5 DEF ScanWalked, Server, Peer, Authorize, ServeList, ServeRow, ServeBlock,
                    RefuseBlock, AskList, AskBlock, tree
<1>6. CASE ScanCommit
  <2>1. pc = "commit" /\ index' = found /\ UNCHANGED <<disk, seen>>
    BY <1>6 DEF ScanCommit, tree
  <2>2. Sight # Abstract!NoScan /\ index' \in Abstract!Regular /\ Sight' = Sight
    BY <1>n, <2>1, WindowOpen, FoundRegular DEF Sight
  <2>3. Abstract!Publish
    BY <2>1, <2>2 DEF Abstract!Publish, Sight
  <2>4. QED
    BY <2>3 DEF Abstract!Next
<1>7. CASE ScanUpdate \/ ScanFault \/ Restart
  BY <1>1, <1>7 DEF ScanUpdate, ScanFault, ScanFails, Restart, tree, Abstract!Next
<1>8. CASE User
  <2>1. Edit
    BY <1>8 DEF User, UserPut, UserRemove, Remount, GoAway, ComeBack
  <2>2. \A p \in Paths : Shape(disk'[p]) \in Shapes
    BY <1>0, ShapeLemma DEF TypeOK
  <2>3. Sight' = IF Sight = Abstract!NoScan THEN Abstract!NoScan
                 ELSE [p \in Paths |-> Sight[p] \cup {[q \in Paths |-> Shape(disk'[q])][p]}]
    <3>1. CASE pc = "idle"
      BY <1>n, <2>1, <3>1, WindowOpen DEF Edit, Sight, NoWindow
    <3>2. CASE pc # "idle"
      <4>1. \A p \in Paths : Seen(p)' = Seen(p) \cup {Shape(disk'[p])}
        BY <2>1, <3>2 DEF Edit, NoWindow
      <4>2. Sight # Abstract!NoScan
        BY <1>n, <3>2, WindowOpen
      <4>3. QED
        BY <4>1, <4>2 DEF Sight
    <3>3. QED
      BY <3>1, <3>2
  <2>4. Abstract!Change
    BY <2>1, <2>2, <2>3, SameData DEF Abstract!Change, Edit, Sight
  <2>5. QED
    BY <2>4 DEF Abstract!Next
<1>9. CASE UNCHANGED vars
  BY <1>2, <1>9 DEF vars, tree
<1>10. QED
  BY <1>3, <1>4, <1>5, <1>6, <1>7, <1>8, <1>9 DEF Next, Scanner

\* Scan and its handlers keep the promise of Source: the index is replaced as a
\* whole by one that was regular over the scan, and by nothing else.
THEOREM KeepsPromiseHolds == Spec => KeepsPromise
<1>1. Init => Abstract!Init
  <2>1. ASSUME Init PROVE Abstract!Init
    <3>1. \A p \in Paths : Shape(disk[p]) \in Shapes
      BY <2>1, RecordLemma, ShapeLemma DEF Init
    <3>2. QED
      BY <2>1, <3>1, SameData DEF Init, Abstract!Init, NoWindow, Abstract!NoScan
  <2>2. QED
    BY <2>1
<1>2. OrderInv /\ OrderInv' /\ Evidence /\ [Next]_vars => [Abstract!Next]_(Abstract!vars)
  BY PromiseStep
<1>3. QED
  BY <1>1, <1>2, OrderInvHolds, EvidenceHolds, PTL DEF Spec, KeepsPromise, Abstract!Spec
============================================================================
