----------------------------- MODULE Provision -----------------------------
(***************************************************************************)
(* The state directory and the marker of a folder: the commands init, run  *)
(* and id (cmd/backuply), the lock, the device identity (LoadOrCreate,     *)
(* writeExclusive, Load) and InitFolder, run by several processes and      *)
(* interrupted at any step by an error, a kill or a power loss.            *)
(*                                                                         *)
(* An identity is a number: GenerateKey never returns the same one twice.  *)
(* The state directory itself exists and is on disk before init runs.      *)
(***************************************************************************)
EXTENDS Naturals

CONSTANTS
    Procs,       \* processes that run backuply commands
    NoProc,      \* the lock is free
    MaxKeys      \* bound: key pairs generated

ASSUME ProvisionAssumption == NoProc \notin Procs /\ MaxKeys \in Nat

VARIABLES
    lock,      \* the process that holds daemon.lock
    key, cert, \* key.pem and cert.pem: the identity, 0 for no file
    kept,      \* those of the two whose directory entry is on disk for good
    root,      \* the folder's root: "none", "made" by init and its name not
               \* synced in the directory above, or "kept" on disk for good
    marker,    \* .backuply-folder in it: "absent", "empty" or "full"
    fixed,     \* what is on disk of the marker for good, if the root is
    proc,      \* per process: command, control point, identity generated
    made,      \* ghost: key pairs generated so far
    revealed,  \* ghost: identities shown to the user or to a peer
    done,      \* ghost: an init has succeeded
    torn,      \* ghost: the marker was left unsynced by an interrupted init
    forfeit    \* ghost: since the last success a power loss took the root that
               \* init had made, or the torn marker that init had only checked

files == <<key, cert, kept>>
marks == <<root, marker, fixed>>
ghosts == <<made, revealed, done, torn, forfeit>>
vars == <<lock, files, marks, proc, ghosts>>

Markers == {"absent", "empty", "full"}

Proc == [cmd : {"init", "run", "id"},
         pc : {"idle", "lock", "stat", "key", "synckey", "cert", "synccert",
               "load", "root", "marker", "write", "syncmarker", "print", "running"},
         id : 0..MaxKeys]

TypeOK ==
    /\ lock \in Procs \cup {NoProc}
    /\ key \in 0..MaxKeys /\ cert \in 0..MaxKeys
    /\ kept \subseteq {"key", "cert"}
    /\ root \in {"none", "made", "kept"}
    /\ marker \in Markers /\ fixed \in Markers
    /\ proc \in [Procs -> Proc]
    /\ made \in 0..MaxKeys
    /\ revealed \subseteq 1..MaxKeys
    /\ done \in BOOLEAN /\ torn \in BOOLEAN /\ forfeit \in BOOLEAN

Idle == [cmd |-> "id", pc |-> "idle", id |-> 0]

Init ==
    /\ lock = NoProc
    /\ key = 0 /\ cert = 0 /\ kept = {}
    /\ root \in {"none", "kept"}
    /\ marker = "absent" /\ fixed = "absent"
    /\ proc = [p \in Procs |-> Idle]
    /\ made = 0
    /\ revealed = {}
    /\ done = FALSE /\ torn = FALSE /\ forfeit = FALSE

----------------------------------------------------------------------------
At(p, pc) == proc[p].pc = pc
Goto(p, pc) == proc' = [proc EXCEPT ![p].pc = pc] /\ UNCHANGED lock

\* The command returns: its lock file is closed.
Finish(p) ==
    /\ proc' = [proc EXCEPT ![p] = Idle]
    /\ lock' = IF lock = p THEN NoProc ELSE lock

Start(p, cmd) ==
    /\ At(p, "idle")
    /\ proc' = [proc EXCEPT ![p] = [cmd |-> cmd, pc |-> IF cmd = "id" THEN "load" ELSE "lock",
                                    id |-> 0]]
    /\ UNCHANGED <<lock, files, marks, ghosts>>

\* LockState; init goes on with LoadOrCreate, run (daemon.New) with Load.
LockState(p) ==
    /\ At(p, "lock")
    /\ \/ /\ lock = NoProc
          /\ lock' = p
          /\ proc' = [proc EXCEPT ![p].pc = IF proc[p].cmd = "init" THEN "stat" ELSE "load"]
       \/ /\ lock # NoProc
          /\ Finish(p)
    /\ UNCHANGED <<files, marks, ghosts>>

\* LoadOrCreate: Lstat of both files.
Stat(p) ==
    /\ At(p, "stat")
    /\ Goto(p, IF key # 0 \/ cert # 0 THEN "load" ELSE "key")
    /\ UNCHANGED <<files, marks, ghosts>>

\* GenerateKey and CreateCertificate, then writeExclusive(keyPath) up to Link.
LinkKey(p) ==
    /\ At(p, "key")
    /\ made < MaxKeys
    /\ made' = made + 1
    /\ \/ /\ key = 0
          /\ key' = made'
          /\ kept' = kept \ {"key"}
          /\ proc' = [proc EXCEPT ![p].pc = "synckey", ![p].id = made']
          /\ UNCHANGED lock
       \/ /\ key # 0
          /\ Finish(p)
          /\ UNCHANGED <<key, kept>>
    /\ UNCHANGED <<cert, marks, revealed, done, torn, forfeit>>

\* dir.Sync() of the state directory.
Synced == kept' = (IF key # 0 THEN {"key"} ELSE {}) \cup (IF cert # 0 THEN {"cert"} ELSE {})

\* Variant of SyncKey without the sync.
SyncKeySkipped(p) ==
    /\ At(p, "synckey")
    /\ Goto(p, "cert")
    /\ UNCHANGED <<files, marks, ghosts>>

\* The sync that ends writeExclusive(keyPath).
SyncKey(p) ==
    /\ At(p, "synckey")
    /\ Synced
    /\ Goto(p, "cert")
    /\ UNCHANGED <<key, cert, marks, ghosts>>

\* writeExclusive(certPath) up to Link.
LinkCert(p) ==
    /\ At(p, "cert")
    /\ \/ /\ cert = 0
          /\ cert' = proc[p].id
          /\ kept' = kept \ {"cert"}
          /\ Goto(p, "synccert")
       \/ /\ cert # 0
          /\ Finish(p)
          /\ UNCHANGED <<cert, kept>>
    /\ UNCHANGED <<key, marks, ghosts>>

SyncCert(p) ==
    /\ At(p, "synccert")
    /\ Synced
    /\ Goto(p, "load")
    /\ UNCHANGED <<key, cert, marks, ghosts>>

\* Load: both files are there and belong together.
Loadable == key # 0 /\ cert # 0 /\ key = cert

\* run shows the identity to peers, id prints it, init goes on to the folders.
Load(p) ==
    /\ At(p, "load")
    /\ \/ /\ ~Loadable
          /\ Finish(p)
          /\ UNCHANGED revealed
       \/ /\ Loadable
          /\ CASE proc[p].cmd = "init" -> Goto(p, "root") /\ UNCHANGED revealed
               [] proc[p].cmd = "run"  -> Goto(p, "running") /\ revealed' = revealed \cup {key}
               [] proc[p].cmd = "id"   -> Finish(p) /\ revealed' = revealed \cup {key}
    /\ UNCHANGED <<files, marks, made, done, torn, forfeit>>

\* InitFolder: MkdirAll of the root.  Nothing syncs the directory above it.
MakeRoot(p) ==
    /\ At(p, "root")
    /\ root' = IF root = "none" THEN "made" ELSE root
    /\ Goto(p, "marker")
    /\ UNCHANGED <<files, marker, fixed, ghosts>>

\* Create the marker exclusively, or check the one that is there.
CreateMarker(p) ==
    /\ At(p, "marker")
    /\ \/ /\ marker = "absent"
          /\ marker' = "empty"
          /\ Goto(p, "write")
       \/ /\ marker = "empty"
          /\ Finish(p)
          /\ UNCHANGED marker
       \/ /\ marker = "full"
          /\ Goto(p, "print")
          /\ UNCHANGED marker
    /\ UNCHANGED <<files, root, fixed, ghosts>>

\* WriteString, Sync and Close of the marker.
WriteMarker(p) ==
    /\ At(p, "write")
    /\ marker' = "full"
    /\ Goto(p, "syncmarker")
    /\ UNCHANGED <<files, root, fixed, ghosts>>

\* Variant of SyncMarker without the sync.
SyncMarkerSkipped(p) ==
    /\ At(p, "syncmarker")
    /\ Goto(p, "print")
    /\ UNCHANGED <<files, marks, ghosts>>

\* syncDir(r, "."): the names in the root, not the root's own.
SyncMarker(p) ==
    /\ At(p, "syncmarker")
    /\ fixed' = marker
    /\ Goto(p, "print")
    /\ UNCHANGED <<files, root, marker, ghosts>>

\* init prints the identity it loaded; the files have not changed since.
PrintId(p) ==
    /\ At(p, "print")
    /\ revealed' = revealed \cup {key}
    /\ done' = TRUE
    /\ forfeit' = FALSE
    /\ Finish(p)
    /\ UNCHANGED <<files, marks, made, torn>>

\* run returns after its context was cancelled.
Stop(p) ==
    /\ At(p, "running")
    /\ Finish(p)
    /\ UNCHANGED <<files, marks, ghosts>>

----------------------------------------------------------------------------
(* Failures.                                                               *)

Making(p) == proc[p].pc \in {"write", "syncmarker"}

\* A call fails or the process is killed; closing the lock file or the death
\* of the process releases the lock, and a temporary file is nobody's.
Interrupted(p) ==
    /\ proc[p].pc # "idle"
    /\ Finish(p)
    /\ torn' = (torn \/ Making(p))
    /\ UNCHANGED <<files, marks, made, revealed, done, forfeit>>

\* Links that were not synced may be gone, and so may a root that init made,
\* with the marker in it; the marker may be as it was when the root was last
\* synced, or anything it went through since.
PowerLoss ==
    /\ \E gone \in SUBSET ({"key", "cert"} \ kept) :
        /\ key' = IF "key" \in gone THEN 0 ELSE key
        /\ cert' = IF "cert" \in gone THEN 0 ELSE cert
    /\ kept' = (IF key' # 0 THEN {"key"} ELSE {}) \cup (IF cert' # 0 THEN {"cert"} ELSE {})
    /\ \/ /\ root = "made"
          /\ root' = "none"
          /\ marker' = "absent"
          /\ forfeit' = TRUE
       \/ /\ root' = IF root = "made" THEN "kept" ELSE root
          /\ marker' \in (IF marker = "full" THEN Markers ELSE {"absent", marker})
          /\ fixed = "full" => marker' = "full"
          /\ fixed = "empty" => marker' # "absent"
          /\ forfeit' = (forfeit \/ (torn /\ marker' # marker))
    /\ fixed' = marker'
    /\ proc' = [p \in Procs |-> Idle]
    /\ lock' = NoProc
    /\ torn' = FALSE
    /\ UNCHANGED <<made, revealed, done>>

----------------------------------------------------------------------------
Step(p) ==
    \/ \E cmd \in {"init", "run", "id"} : Start(p, cmd)
    \/ LockState(p) \/ Stat(p) \/ LinkKey(p) \/ SyncKey(p) \/ LinkCert(p) \/ SyncCert(p)
    \/ Load(p) \/ MakeRoot(p) \/ CreateMarker(p) \/ WriteMarker(p) \/ SyncMarker(p) \/ PrintId(p)
    \/ Stop(p) \/ Interrupted(p)

Next == (\E p \in Procs : Step(p)) \/ PowerLoss

Spec == Init /\ [][Next]_vars

----------------------------------------------------------------------------
(* Properties.                                                             *)

\* The device never shows a second identity, whatever interrupts init and
\* however often it is repeated: "An interrupted pair remains an explicit
\* recovery error, never an automatic key rotation".
NoRotation == \A i, j \in revealed : i = j

\* The marker that a successful init leaves behind survives every error, kill
\* and power loss, but for two that the code does not guard against: a power
\* loss may take the root that init made, whose name nothing has synced in the
\* directory above, and a marker that an interrupted init left unsynced and a
\* later init only checked.
MarkerLasts == done /\ ~forfeit => marker = "full"

----------------------------------------------------------------------------
(* The inductive invariant behind NoRotation.                              *)

\* init and run hold the lock from LockState to their end; id never writes.
LockInv ==
    \A p \in Procs :
        /\ proc[p].cmd = "id" => proc[p].pc \in {"idle", "load"}
        /\ (proc[p].cmd # "id" /\ proc[p].pc # "lock") => lock = p

\* How far the identity in the making has got.
MakingInv ==
    \A p \in Procs :
        /\ At(p, "key") => key = 0 /\ cert = 0
        /\ At(p, "synckey") => key = proc[p].id /\ key # 0 /\ cert = 0
        /\ At(p, "cert") => key = proc[p].id /\ "key" \in kept /\ cert = 0
        /\ At(p, "synccert") => key = proc[p].id
        /\ proc[p].pc \in {"root", "marker", "write", "syncmarker", "print"} => Loadable

\* The certificate comes after its key is on disk for good, so an identity
\* that can be loaded cannot be lost altogether.
PairInv ==
    /\ cert # 0 => cert = key /\ "key" \in kept
    /\ "key" \in kept => key # 0
    /\ "cert" \in kept => cert # 0

\* The marker lies in the root, and unless an init is making it or left it
\* torn, it is on disk for good as it is.
MarkerInv ==
    /\ root = "none" => marker = "absent"
    /\ \A p \in Procs : proc[p].pc \in {"marker", "write", "syncmarker"} => root # "none"
    /\ fixed = "full" => marker = "full"
    /\ torn => marker # "absent"
    /\ \A p \in Procs : Making(p) => marker # "absent" /\ ~torn /\ (done => forfeit)
    /\ (~torn /\ \A p \in Procs : ~Making(p)) => fixed = marker
    /\ \A p \in Procs : proc[p].pc \in {"syncmarker", "print"} => marker = "full"
    /\ MarkerLasts

RevealedInv == \A i \in revealed : i = key /\ "key" \in kept

ProvisionInv == TypeOK /\ LockInv /\ MakingInv /\ PairInv /\ RevealedInv /\ MarkerInv
============================================================================
