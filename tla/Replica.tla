------------------------------ MODULE Replica ------------------------------
(***************************************************************************)
(* One receiving folder: the replication cycle of internal/daemon          *)
(* (replicate, the body for one folder) and Store.Apply of internal/store, *)
(* with the SQLite index, the destination tree, local edits made by other  *)
(* programs at any moment, failures of any call, process crashes and power *)
(* losses.                                                                 *)
(*                                                                         *)
(* fingerprint() is atomic here; module Fingerprint says when it is.       *)
(***************************************************************************)
EXTENDS Folder

CONSTANTS
    Manifests,     \* the indexes the source may answer List with
    MaxEdits,      \* bound: changes made by other programs
    MaxFaults,     \* bound: failed calls, crashes and power losses
    LateWriteback  \* FALSE: the kernel has written a rename back before the
                   \* daemon runs again after a failure; TRUE: it may not

ASSUME BoundAssumption ==
    /\ MaxEdits \in Nat
    /\ MaxFaults \in Nat
    /\ LateWriteback \in BOOLEAN

\* A manifest comes from Scan: directories carry no content, and every listed
\* path is listed together with its ancestors (ParentsListed of SourceScan).
ASSUME ManifestAssumption ==
    \A m \in Manifests :
        /\ m \in [Paths -> Entry]
        /\ \A p \in Paths :
               /\ m[p].kind = "none" => m[p] = NoEntry
               /\ m[p].kind = "directory" => m[p].hash = <<>>
               /\ m[p].kind = "file" => m[p].mode \in Modes
               /\ m[p].kind # "none" => \A d \in Above[p] : m[d].kind # "none"

VARIABLES
    disk,      \* the destination tree
    index,     \* the rows of the folder in SQLite
    pc,        \* control point of the cycle
    offer,     \* the manifest List returned in this cycle (or the last one)
    todo,      \* listed paths not yet applied in this cycle
    cur,       \* the path being applied (or the last one)
    current,   \* shape found at cur before a replacement is built
    temp,      \* the temporary file
    undo,      \* renames and mkdirs that a power loss can still take back
    loose,     \* directories made by ensureParents, whose names nothing has synced
    status,    \* FolderStatus: "none" since start, "ok", "error", "localchange"
    edits,     \* ghost: number of changes made by other programs
    faults,    \* ghost: number of failures
    held,      \* ghost: the shape Apply last installed or adopted at a path
    disturbed, \* ghost: paths other programs disturbed since then (below)
    recent,    \* ghost: paths other programs changed since Apply last looked at
               \* them as the path to apply, not merely as a parent of it
    lag        \* ghost: paths installed whose row is not written yet

\* Other programs disturb a path when they change it; when they put a link in
\* the place of another path and ApplyChmod follows it to this one; and when
\* they remove a directory above it, ensureParents makes that directory again,
\* and a power loss takes it with everything installed under it.

job == <<offer, todo, cur, current, temp>>
ghosts == <<held, disturbed, recent, lag>>
counters == <<edits, faults>>
vars == <<disk, index, pc, job, undo, loose, status, counters, ghosts>>

Temp == [state : {"none", "linked", "lost"}, data : Seq(Block), synced : BOOLEAN]
NoTemp == [state |-> "none", data |-> <<>>, synced |-> FALSE]

\* What a power loss brings back at path: the object and the ghosts of before
\* the rename or mkdir.  synced: the data of the new file has reached the disk.
Undo == [path : Paths, obj : Object, held : Shapes,
         disturbed : BOOLEAN, lag : BOOLEAN, synced : BOOLEAN]

PCs == {"idle", "next", "open", "fingerprint", "chmod", "parents", "mkdir", "create",
        "copy", "recheck", "rename", "syncdir", "put"}

TypeOK ==
    /\ disk \in [Paths -> Object]
    /\ index \in [Paths -> Entry]
    /\ pc \in PCs
    /\ offer \in Manifests \cup {NoManifest}
    /\ todo \subseteq Paths
    /\ cur \in Paths
    /\ current \in Shapes
    /\ temp \in Temp
    /\ undo \subseteq Undo
    /\ loose \subseteq Paths
    /\ status \in {"none", "ok", "error", "localchange"}
    /\ edits \in 0..MaxEdits
    /\ faults \in 0..MaxFaults
    /\ held \in [Paths -> Shapes]
    /\ disturbed \subseteq Paths
    /\ recent \subseteq Paths
    /\ lag \subseteq Paths

\* A folder just initialised: nothing but the marker in it.
Init ==
    /\ disk = [p \in Paths |-> Absent]
    /\ index = [p \in Paths |-> NoEntry]
    /\ pc = "idle"
    /\ offer = NoManifest
    /\ todo = {}
    /\ cur = CHOOSE p \in Paths : TRUE
    /\ current = Nothing
    /\ temp = NoTemp
    /\ undo = {}
    /\ loose = {}
    /\ status = "none"
    /\ edits = 0
    /\ faults = 0
    /\ held = [p \in Paths |-> Nothing]
    /\ disturbed = {}
    /\ recent = {}
    /\ lag = {}

----------------------------------------------------------------------------
(* Helpers of Apply.                                                       *)

entry == offer[cur]
object == disk[cur]

Rows == {p \in Paths : index[p].kind # "none"}

\* Variant of HasRoom that leaves the new entry out of the count.
HasRoomBefore(p) == Cardinality(Rows) <= MaxEntries

\* checkCapacity, counting entries; the byte budget is not modelled here.
HasRoom(p) == Cardinality(Rows \cup {p}) <= MaxEntries

\* checkComponents with allowMissing, on the ancestors and on the path itself.
ParentsPassable(p) == \A d \in Above[p] : disk[d].kind \in {"absent", "directory"}
Passable(p) == ParentsPassable(p) /\ disk[p].kind # "other"

ParentsPresent(p) == \A d \in Above[p] : disk[d].kind = "directory"

\* Apply returns an error: the deferred Remove deletes the temporary file,
\* replicate breaks out of the loop and update records the error.
Abort(why) ==
    /\ pc' = "idle"
    /\ status' = why
    /\ todo' = {}
    /\ current' = Nothing
    /\ temp' = NoTemp
    /\ UNCHANGED <<offer, cur>>

Goto(next) == pc' = next /\ UNCHANGED <<status, todo, offer, cur>>

\* Apply looks at the path: a change made from now on comes after the look.
Look(p) == recent' = recent \ {p}

\* A rename or mkdir that leaves o at cur; a power loss may take it back until
\* the directory is synced, and the row is still to be written.
Install(o, synced) ==
    /\ disk' = [disk EXCEPT ![cur] = o]
    /\ held' = [held EXCEPT ![cur] = Claim(entry)]
    /\ disturbed' = disturbed \ {cur}
    /\ recent' = recent \ {cur}
    /\ lag' = lag \cup {cur}
    /\ undo' = {u \in undo : u.path # cur} \cup
               {[path |-> cur, obj |-> object, held |-> held[cur],
                 disturbed |-> cur \in disturbed, lag |-> cur \in lag, synced |-> synced]}

----------------------------------------------------------------------------
(* The replication cycle of the daemon.                                    *)

\* replicate: CheckFolder and Dial pass, List returns m, entries are sorted.
CycleBegin(m) ==
    /\ pc = "idle"
    /\ pc' = "next"
    /\ offer' = m
    /\ todo' = {p \in Paths : m[p].kind # "none"}
    /\ UNCHANGED <<disk, index, cur, current, temp, undo, loose, status, counters, ghosts>>

\* The next entry in the order of paths is handed to Apply.
CycleNext ==
    /\ pc = "next"
    /\ \E p \in todo :
        /\ \A q \in todo : Rank[p] <= Rank[q]
        /\ cur' = p
        /\ todo' = todo \ {p}
    /\ pc' = "open"
    /\ UNCHANGED <<disk, index, offer, current, temp, undo, loose, status, counters, ghosts>>

\* Every entry was applied: update(folder, n, total, nil).
CycleEnd ==
    /\ pc = "next"
    /\ todo = {}
    /\ pc' = "idle"
    /\ status' = "ok"
    /\ UNCHANGED <<disk, index, job, undo, loose, counters, ghosts>>

----------------------------------------------------------------------------
(* Store.Apply.                                                            *)

\* Variant of LocallyChanged that takes a missing path for a new one.
LocallyChangedKind == object.kind \in {"directory", "file"} /\ object.kind # entry.kind

\* The path is missing although it has a row, or it holds an object of the
\* other kind: ErrLocalChange.
LocallyChanged ==
    \/ object.kind = "absent" /\ index[cur].kind # "none"
    \/ object.kind \in {"directory", "file"} /\ object.kind # entry.kind

\* From the first line to the decisions taken on the first Lstat.
ApplyOpen ==
    /\ pc = "open"
    /\ Look(cur)
    /\ \/ /\ ~(HasRoom(cur) /\ Passable(cur))
          /\ Abort("error")
       \/ /\ HasRoom(cur) /\ Passable(cur)
          /\ LocallyChanged
          /\ Abort("localchange")
       \/ /\ HasRoom(cur) /\ Passable(cur)
          /\ ~LocallyChanged
          /\ Goto(IF object.kind = "file" THEN "fingerprint" ELSE "parents")
          /\ current' = Shape(object)
          /\ UNCHANGED temp
    /\ UNCHANGED <<disk, index, undo, loose, counters, held, disturbed, lag>>

\* Variant of Diverged that does not ask the index.
DivergedFromOffer == object.data # entry.hash

\* The bytes on disk are neither the offered ones nor the indexed ones.
Diverged == object.data # entry.hash /\ Claim(index[cur]) # Shape(object)

\* fingerprint of the existing file, and the comparison with the offered and
\* the indexed hash.
ApplyFingerprint ==
    /\ pc = "fingerprint"
    /\ Look(cur)
    /\ \/ /\ \/ object.kind # "file"
             \/ object.data = entry.hash /\ object.data # entry.blocks
          /\ Abort("error")
       \/ /\ object.kind = "file"
          /\ object.data = entry.hash /\ object.data = entry.blocks
          /\ Goto("chmod")
          /\ UNCHANGED <<current, temp>>
       \/ /\ object.kind = "file"
          /\ Diverged
          /\ Abort("localchange")
       \/ /\ object.kind = "file"
          /\ object.data # entry.hash /\ ~Diverged
          /\ Goto("parents")
          /\ current' = Shape(object)
          /\ UNCHANGED temp
    /\ UNCHANGED <<disk, index, undo, loose, counters, held, disturbed, lag>>

\* Variant of ApplyChmod that leaves the permission bits alone.
ApplyChmodSkipped ==
    /\ pc = "chmod"
    /\ Goto("put")
    /\ UNCHANGED <<disk, index, current, temp, undo, loose, counters, ghosts>>

\* Variant of ApplyChmod that returns without writing the row.
ApplyChmodReturns ==
    /\ pc = "chmod"
    /\ disk' = IF object.kind = "file" THEN [disk EXCEPT ![cur].mode = entry.mode] ELSE disk
    /\ Goto("next")
    /\ current' = Nothing
    /\ UNCHANGED <<index, temp, undo, loose, counters, ghosts>>

\* The same-content branch: open by name and set the permission bits.  Open
\* follows a symbolic link that stays inside the root: the bits of another
\* file are set, one of Paths or one that no manifest lists.
ApplyChmod ==
    /\ pc = "chmod"
    /\ \/ /\ object.kind \in {"absent", "other"}
          /\ Abort("error")
          /\ UNCHANGED <<disk, disturbed>>
       \/ /\ object.kind \in {"file", "directory"}
          /\ disk' = IF object.kind = "file"
                       THEN [disk EXCEPT ![cur].mode = entry.mode] ELSE disk
          /\ Goto("put")
          /\ UNCHANGED <<current, temp, disturbed>>
       \/ /\ object.kind = "other"
          /\ \/ UNCHANGED <<disk, disturbed>>
             \/ \E q \in Paths :
                    /\ disk[q].kind = "file"
                    /\ disk' = [disk EXCEPT ![q].mode = entry.mode]
                    /\ disturbed' = disturbed \cup {q}
          /\ Goto("put")
          /\ UNCHANGED <<current, temp>>
    /\ UNCHANGED <<index, undo, loose, counters, held, recent, lag>>

\* ensureParents: checkComponents, then MkdirAll.  Nothing syncs the directory
\* above the one it makes: syncDir is for the names inside path.Dir(e.Path).
ApplyParents ==
    /\ pc = "parents"
    /\ \/ /\ ~ParentsPassable(cur)
          /\ Abort("error")
          /\ UNCHANGED <<disk, loose>>
       \/ /\ ParentsPassable(cur)
          /\ disk' = [d \in Paths |-> IF d \in Above[cur] THEN Directory ELSE disk[d]]
          /\ loose' = loose \cup {d \in Above[cur] : disk[d].kind = "absent"}
          /\ Goto(IF entry.kind = "file" THEN "create"
                  ELSE IF current = Nothing THEN "mkdir" ELSE "put")
          /\ UNCHANGED <<current, temp>>
    /\ UNCHANGED <<index, undo, counters, ghosts>>

\* r.Mkdir of an offered directory.
ApplyMkdir ==
    /\ pc = "mkdir"
    /\ \/ /\ ~ParentsPresent(cur) \/ object.kind # "absent"
          /\ Abort("error")
          /\ UNCHANGED <<disk, undo, ghosts>>
       \/ /\ ParentsPresent(cur) /\ object.kind = "absent"
          /\ Install(Directory, TRUE)
          /\ Goto("syncdir")
          /\ UNCHANGED <<current, temp>>
    /\ UNCHANGED <<index, loose, counters>>

\* The temporary file is created next to the destination.
ApplyCreate ==
    /\ pc = "create"
    /\ \/ /\ ~ParentsPresent(cur)
          /\ Abort("error")
       \/ /\ ParentsPresent(cur)
          /\ temp' = [state |-> "linked", data |-> <<>>, synced |-> FALSE]
          /\ Goto("copy")
          /\ UNCHANGED current
    /\ UNCHANGED <<disk, index, undo, loose, counters, ghosts>>

\* Bytes read from the old file, or fetched, stand for block b only if their
\* digest is the one of b.
Accepted(d, b) == d = b

\* One turn of the block loop; d is what the old handle or the peer delivered.
ApplyCopy(d) ==
    /\ pc = "copy"
    /\ Len(temp.data) < Len(entry.blocks)
    /\ Accepted(d, entry.blocks[Len(temp.data) + 1])
    /\ temp' = [temp EXCEPT !.data = Append(@, d)]
    /\ UNCHANGED <<disk, index, pc, offer, todo, cur, current, undo, loose, status, counters,
                   ghosts>>

\* Variant of ApplyVerify that does not sync the temporary file.
ApplyVerifyUnsynced ==
    /\ pc = "copy"
    /\ Len(temp.data) = Len(entry.blocks)
    /\ \/ temp.data # entry.hash /\ Abort("error")
       \/ temp.data = entry.hash /\ Goto("recheck") /\ UNCHANGED <<current, temp>>
    /\ UNCHANGED <<disk, index, undo, loose, counters, ghosts>>

\* The digest of the whole file, then Chmod, Sync and Close of the temporary.
ApplyVerify ==
    /\ pc = "copy"
    /\ Len(temp.data) = Len(entry.blocks)
    /\ \/ /\ temp.data # entry.hash
          /\ Abort("error")
       \/ /\ temp.data = entry.hash
          /\ temp' = [temp EXCEPT !.synced = TRUE]
          /\ Goto("recheck")
          /\ UNCHANGED current
    /\ UNCHANGED <<disk, index, undo, loose, counters, ghosts>>

\* Variant of StillCurrent: no second look.
StillCurrentAssumed == TRUE

\* What the last look before the rename finds at cur: the file of before, or
\* still nothing.
StillCurrent == Shape(object) = current

\* checkComponents again, then fingerprint or Lstat again.
ApplyRecheck ==
    /\ pc = "recheck"
    /\ Look(cur)
    /\ \/ /\ ~Passable(cur) \/ (current.kind = "file" /\ object.kind # "file")
          /\ Abort("error")
       \/ /\ Passable(cur) /\ (current.kind = "file" => object.kind = "file")
          /\ ~StillCurrent
          /\ Abort("localchange")
       \/ /\ Passable(cur)
          /\ StillCurrent
          /\ Goto("rename")
          /\ UNCHANGED <<current, temp>>
    /\ UNCHANGED <<disk, index, undo, loose, counters, held, disturbed, lag>>

\* r.Rename(tmp, e.Path); it cannot replace a directory.
ApplyRename ==
    /\ pc = "rename"
    /\ \/ /\ temp.state # "linked" \/ object.kind = "directory"
          /\ Abort("error")
          /\ UNCHANGED <<disk, undo, ghosts>>
       \/ /\ temp.state = "linked" /\ object.kind # "directory"
          /\ Install(File(temp.data, entry.mode), temp.synced)
          /\ temp' = NoTemp
          /\ Goto("syncdir")
          /\ UNCHANGED current
    /\ UNCHANGED <<index, loose, counters>>

\* Variant of ApplySyncDir that syncs nothing.
ApplySyncDirSkipped ==
    /\ pc = "syncdir"
    /\ Goto("put")
    /\ UNCHANGED <<disk, index, current, temp, undo, loose, counters, ghosts>>

\* syncDir(path.Dir(e.Path)): what was renamed or made in that directory stays.
ApplySyncDir ==
    /\ pc = "syncdir"
    /\ \/ /\ ~ParentsPresent(cur)
          /\ Abort("error")
          /\ UNCHANGED <<undo, loose>>
       \/ /\ ParentsPresent(cur)
          /\ undo' = {u \in undo : Above[u.path] # Above[cur]}
          /\ loose' = {d \in loose : Above[d] # Above[cur]}
          /\ Goto("put")
          /\ UNCHANGED <<current, temp>>
    /\ UNCHANGED <<disk, index, counters, ghosts>>

\* s.put: the row is written and Apply returns nil.
ApplyPut ==
    /\ pc = "put"
    /\ index' = [index EXCEPT ![cur] = entry]
    /\ held' = [held EXCEPT ![cur] = Claim(entry)]
    /\ disturbed' = IF cur \in recent THEN disturbed ELSE disturbed \ {cur}
    /\ lag' = lag \ {cur}
    /\ Goto("next")
    /\ current' = Nothing
    /\ UNCHANGED <<disk, temp, undo, loose, counters, recent>>

----------------------------------------------------------------------------
(* Failures.                                                               *)

\* Unless LateWriteback, the kernel has written back by the next cycle.
AfterFailure == undo' = IF LateWriteback THEN undo ELSE {}

\* A call fails: context cancelled, marker missing, session lost, block
\* refused, disk full, SQLite busy.
Fault ==
    /\ faults < MaxFaults
    /\ faults' = faults + 1
    /\ Abort("error")
    /\ AfterFailure
    /\ UNCHANGED <<disk, index, loose, edits, ghosts>>

\* The process is killed and started again; no deferred call runs, but the
\* orphan temporary file has a name nothing else uses.
Restarted == pc' = "idle" /\ status' = "none" /\ todo' = {} /\ current' = Nothing
             /\ temp' = NoTemp /\ UNCHANGED <<offer, cur>>

Crash ==
    /\ faults < MaxFaults
    /\ faults' = faults + 1
    /\ Restarted
    /\ AfterFailure
    /\ UNCHANGED <<disk, index, loose, edits, ghosts>>

\* The machine stops: of the renames and mkdirs not synced any may be taken
\* back, and a file renamed into place before its data was synced is empty.
\* What lies in a directory that is taken back goes with it.
PowerLoss ==
    /\ faults < MaxFaults
    /\ faults' = faults + 1
    /\ \E lost \in SUBSET undo, dropped \in SUBSET loose :
        LET of(p) == {u \in lost : u.path = p}
            was(p) == CHOOSE u \in of(p) : TRUE
            torn(p) == \E u \in undo \ lost : u.path = p /\ ~u.synced
            left(p) == IF of(p) # {} THEN was(p).obj
                       ELSE IF torn(p) THEN [disk[p] EXCEPT !.data = <<>>]
                       ELSE disk[p]
            unmade(p) == \E u \in lost : u.obj = Absent /\ u.path \in Above[p]
            under(p) == p \in dropped \/ \E d \in dropped : d \in Above[p]
        IN  /\ disk' = [p \in Paths |-> IF unmade(p) \/ under(p) THEN Absent ELSE left(p)]
            /\ held' = [p \in Paths |-> IF of(p) # {} THEN was(p).held ELSE held[p]]
            /\ disturbed' =
                   {p \in Paths : IF of(p) # {} THEN was(p).disturbed ELSE p \in disturbed}
                   \cup {p \in Paths : under(p) /\ left(p).kind # "absent"}
            /\ lag' = {p \in Paths : IF of(p) # {} THEN was(p).lag ELSE p \in lag}
    /\ undo' = {}
    /\ loose' = {}
    /\ Restarted
    /\ UNCHANGED <<index, edits, recent>>

----------------------------------------------------------------------------
(* Other programs on the receiving machine.                                *)

\* The paths S change; what the journal held is committed with the change.
Touch(S) ==
    /\ edits < MaxEdits
    /\ edits' = edits + 1
    /\ disturbed' = disturbed \cup S
    /\ recent' = recent \cup S
    /\ undo' = {}
    /\ loose' = {}
    /\ UNCHANGED <<index, pc, offer, todo, cur, current, status, faults, held, lag>>

UserWrite(p, c, m) ==
    /\ ParentsPresent(p)
    /\ \/ disk[p].kind = "absent"
       \/ disk[p].kind = "file" /\ disk[p].data # c /\ disk[p].mode = m
    /\ disk' = [disk EXCEPT ![p] = File(c, m)]
    /\ Touch({p})
    /\ UNCHANGED temp

UserMkdir(p) ==
    /\ ParentsPresent(p) /\ disk[p].kind = "absent"
    /\ disk' = [disk EXCEPT ![p] = Directory]
    /\ Touch({p})
    /\ UNCHANGED temp

UserPlaceOther(p) ==
    /\ ParentsPresent(p) /\ disk[p].kind \in {"absent", "file"}
    /\ disk' = [disk EXCEPT ![p] = Other]
    /\ Touch({p})
    /\ UNCHANGED temp

\* rm -r: a temporary file inside the tree goes with it.
UserRemove(p) ==
    /\ disk[p].kind # "absent"
    /\ disk' = [q \in Paths |-> IF q \in Below(p) THEN Absent ELSE disk[q]]
    /\ Touch(Below(p))
    /\ temp' = IF p \in Above[cur] /\ temp.state = "linked"
                 THEN [temp EXCEPT !.state = "lost"] ELSE temp

User ==
    \E p \in Paths :
        \/ \E c \in Contents, m \in Modes : UserWrite(p, c, m)
        \/ UserMkdir(p)
        \/ UserPlaceOther(p)
        \/ UserRemove(p)

----------------------------------------------------------------------------
ApplyStep ==
    \/ ApplyOpen \/ ApplyFingerprint \/ ApplyChmod \/ ApplyParents \/ ApplyMkdir
    \/ ApplyCreate \/ (\E d \in Block : ApplyCopy(d)) \/ ApplyVerify \/ ApplyRecheck
    \/ ApplyRename \/ ApplySyncDir \/ ApplyPut

Daemon == (\E m \in Manifests : CycleBegin(m)) \/ CycleNext \/ CycleEnd \/ ApplyStep

Failure == Fault \/ Crash \/ PowerLoss

Next == Daemon \/ Failure \/ User

Spec == Init /\ [][Next]_vars

----------------------------------------------------------------------------
(* Properties.  Two of them, SuccessMeansSynced and IndexWithinLimit, do   *)
(* not depend on when the kernel writes back; the others are meant without *)
(* LateWriteback.                                                          *)

\* No step of the daemon replaces or recreates what another program left at a
\* path: the object it changes is the one it installed itself.  Exempt are a
\* path whose row was lost between rename and put; the path being applied, in
\* the window between the last look at it and the system call, which the
\* README admits; and a directory above that path which another program
\* removed after its own turn in the cycle.  Apply finds such a directory
\* missing and makes it again (ensureParents), although "a local deletion is
\* also a local edit, not permission to restore it": a removal before its turn
\* is respected, one after it is not.
OnlyOwnReplaced ==
    [][(edits' = edits /\ faults' = faults) =>
         \A p \in Paths : Shape(disk'[p]) # Shape(disk[p]) =>
             \/ Shape(disk[p]) = held[p]
             \/ p \in lag
             \/ p \in recent /\ p = cur
             \/ /\ p \in recent /\ p \in Above[cur]
                /\ disk[p].kind = "absent" /\ disk'[p].kind = "directory"]_vars

\* Through failed calls, kills and power losses, every path that other
\* programs have not disturbed holds exactly what Apply installed last: no
\* partial file, no empty file after a power loss, no content other than the
\* one whose digest was offered.  (Disturbed is a path other programs changed,
\* and one that a power loss took with a directory they had removed: see the
\* ghost.  With LateWriteback it does not hold.)
DiskExplained == \A p \in Paths : p \notin disturbed => Shape(disk[p]) = held[p]

\* The row of a path describes what Apply installed there, except between a
\* rename and its put, or when that put was lost.
IndexMatchesHeld == \A p \in Paths : p \notin lag => Claim(index[p]) = held[p]

\* The index never outgrows the limit that List enforces: an index that did
\* could not be listed any more.
IndexWithinLimit == Cardinality(Rows) <= MaxEntries

\* The path has the offered row and, unless disturbed since, the offered
\* object with its permission bits.
Synced(p) ==
    /\ index[p] = offer[p]
    /\ p \notin disturbed =>
           /\ Shape(disk[p]) = Claim(offer[p])
           /\ offer[p].kind = "file" => disk[p].mode = offer[p].mode

\* A status without error after a cycle means that every listed path has the
\* offered row and, unless disturbed since, the offered object.
SuccessMeansSynced ==
    (pc = "idle" /\ status = "ok") => \A p \in Paths : offer[p].kind # "none" => Synced(p)

\* The source turned a file into a directory or a directory into a file.
KindTurned(p) == held[p].kind \notin {"absent", offer[p].kind}

\* ErrLocalChange is reported only for a path other programs disturbed, whose
\* kind changed at the source, or whose row was lost between rename and put.
AlarmExplained ==
    (pc = "idle" /\ status = "localchange") =>
        cur \in disturbed \/ KindTurned(cur) \/ cur \in lag

\* The same without the lost row: a crash by itself never makes Apply report
\* a local change that nobody made.
AlarmGenuine ==
    (pc = "idle" /\ status = "localchange") => cur \in disturbed \/ KindTurned(cur)

----------------------------------------------------------------------------
(* The inductive invariant: ApplyInv is behind DiskExplained,              *)
(* IndexMatchesHeld and OnlyOwnReplaced, the rest of ReplicaInv behind     *)
(* SuccessMeansSynced and IndexWithinLimit.                                *)

Applying == pc \notin {"idle", "next"}

\* The tree is one: an object lies under directories, and only files have data.
TreeInv ==
    \A p \in Paths :
        /\ disk[p].kind # "file" => disk[p].data = <<>>
        /\ disk[p].kind # "absent" => ParentsPresent(p)

\* The cycle works through the listed paths in order.
CycleInv ==
    /\ pc # "idle" => offer \in Manifests
    /\ \A p \in todo : offer[p].kind # "none"
    /\ Applying => /\ entry.kind # "none"
                   /\ \A q \in todo : Rank[cur] <= Rank[q]
    /\ pc \in {"fingerprint", "chmod", "create", "copy", "recheck", "rename"} =>
           entry.kind = "file"
    /\ pc = "mkdir" => entry.kind = "directory"

\* An entry applied earlier in the cycle is still there, or it was removed
\* after its turn.
DoneInv ==
    pc # "idle" =>
        \A d \in Paths :
            (offer[d].kind # "none" /\ d \notin todo /\ (Applying => d # cur)) =>
                disk[d].kind = offer[d].kind \/ d \in recent

\* What Apply has established about the path it works on.
BuildInv ==
    /\ (pc \in {"parents", "mkdir", "create", "copy", "recheck", "rename"} /\
        (entry.kind = "file" \/ current = Nothing)) => Claim(index[cur]) = current
    /\ pc = "mkdir" => current = Nothing
    /\ pc \in {"recheck", "rename"} => temp.data = entry.hash /\ temp.synced
    /\ (pc = "rename" /\ cur \notin recent) => Shape(object) = current
    /\ (pc \in {"chmod", "syncdir", "put"} /\ cur \notin recent) =>
           Shape(object) = Claim(entry)
    /\ (pc = "parents" /\ entry.kind = "directory" /\ current # Nothing /\ cur \notin recent) =>
           Shape(object) = Claim(entry)
    /\ temp.state = "linked" => ParentsPresent(cur)
    /\ pc \notin {"copy", "recheck", "rename"} => temp.state = "none"

\* What a power loss may bring back is what the ghosts say it is.
UndoInv ==
    \A u \in undo :
        /\ pc = "syncdir"
        /\ u.path = cur
        /\ u.synced
        /\ ~u.lag => Claim(index[cur]) = u.held
        /\ ~u.disturbed => Shape(u.obj) = u.held
        /\ u.obj.kind # "file" => u.obj.data = <<>>
        /\ u.obj.kind # "directory"
        /\ ParentsPresent(cur)
        /\ \A p \in Paths : cur \in Above[p] => disk[p].kind = "absent"
        /\ cur \notin recent

\* What the control points of Apply establish.
ApplyInv ==
    /\ TypeOK
    /\ recent \subseteq disturbed
    /\ TreeInv
    /\ CycleInv
    /\ DoneInv
    /\ BuildInv
    /\ UndoInv
    /\ DiskExplained
    /\ IndexMatchesHeld

\* The entries behind the one at work are synced, and a file that is in place
\* has the offered permission bits.
SyncedInv ==
    /\ pc # "idle" =>
           \A p \in Paths :
               (offer[p].kind # "none" /\ p \notin todo /\ (Applying => p # cur)) => Synced(p)
    /\ (pc \in {"syncdir", "put"} /\ entry.kind = "file" /\ cur \notin recent) =>
           object.mode = entry.mode

\* After the first look there is room for the row that Apply will write.
LimitInv == Applying /\ pc # "open" => HasRoom(cur)

ReplicaInv == ApplyInv /\ SyncedInv /\ LimitInv
============================================================================
