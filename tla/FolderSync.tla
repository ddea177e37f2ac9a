---------------------------- MODULE FolderSync ----------------------------
(***************************************************************************)
(* A folder from end to end: the source of module Source, which changes    *)
(* and is scanned at any moment, and the receiver of module Replica, whose *)
(* cycle lists the source's index at one moment and fetches its blocks at  *)
(* later ones.                                                             *)
(*                                                                         *)
(* A request and its answer are one step here; module Session says why an  *)
(* answer that arrives is the one of its request.                          *)
(***************************************************************************)
EXTENDS Replica

CONSTANTS
    Trees,         \* the trees other programs make at the source
    MaxChanges     \* bound: changes at the source

ASSUME ChangesAssumption == MaxChanges \in Nat

VARIABLES
    stree,     \* the source: shape of the object at each path
    sindex,    \* its index
    swindow,   \* the shapes each path had since its scan began, if one runs
    ready,     \* its last scan of this run succeeded
    changes,   \* ghost: changes at the source
    history    \* ghost: the shapes each path ever had at the source

S == INSTANCE Source WITH tree <- stree, index <- sindex, window <- swindow

source == <<stree, sindex, swindow, ready, changes, history>>
all == <<vars, source>>

\* The shapes a path has in one of the trees, and the indexes a source of such
\* trees can publish.
Possible(p) == {Nothing} \cup {t[p] : t \in Trees}

Listings ==
    {m \in [Paths -> UNION {S!RowsFor(s) : s \in UNION {Possible(p) : p \in Paths}}] :
        \A p \in Paths :
            /\ Claim(m[p]) \in Possible(p)
            /\ m[p].kind # "none" => \A d \in Above[p] : m[d].kind # "none"}

\* The receiver is ready for whatever the source lists.
ASSUME ListingAssumption == Listings \subseteq Manifests

SyncInit ==
    /\ Init
    /\ stree = [p \in Paths |-> Nothing]
    /\ sindex = NoManifest
    /\ swindow = S!NoScan
    /\ ready = FALSE
    /\ changes = 0
    /\ history = [p \in Paths |-> {Nothing}]

----------------------------------------------------------------------------
(* The source.                                                             *)

SourceBegin == S!Begin /\ UNCHANGED <<ready, changes, history, vars>>

\* The transaction commits and update(folder, n, total, nil) follows.
SourcePublish ==
    /\ S!Publish
    /\ swindow' = S!NoScan
    /\ ready' = TRUE
    /\ UNCHANGED <<changes, history, vars>>

\* A scan fails, or the daemon of the source is started again.
SourceFails ==
    /\ faults < MaxFaults
    /\ faults' = faults + 1
    /\ S!Fail
    /\ ready' = FALSE
    /\ UNCHANGED <<changes, history, disk, index, pc, job, undo, loose, status, edits, ghosts>>

SourceChange ==
    /\ changes < MaxChanges
    /\ changes' = changes + 1
    /\ stree' \in Trees \ {stree}
    /\ S!Change
    /\ history' = [p \in Paths |-> history[p] \cup {stree'[p]}]
    /\ UNCHANGED <<ready, vars>>

----------------------------------------------------------------------------
(* The receiver.                                                           *)

\* replicate: List answers with the index, or refuses.
SyncList == ready /\ CycleBegin(sindex)

SyncRefused ==
    /\ pc = "idle" /\ ~ready
    /\ Abort("error")
    /\ UNCHANGED <<disk, index, undo, loose, counters, ghosts>>

wanted == entry.blocks[Len(temp.data) + 1]

\* The old file had the block somewhere when it was fingerprinted.
Reusable == \E i \in 1..Len(current.data) : current.data[i] = wanted

\* ReadBlock: the row is still the one that was listed, and the file still
\* has its size and, in its place, the block.
Servable ==
    /\ ready
    /\ sindex[cur].kind = "file" /\ sindex[cur].hash = entry.hash
    /\ stree[cur].kind = "file"
    /\ Len(stree[cur].data) = Len(entry.hash)
    /\ stree[cur].data[Len(temp.data) + 1] = wanted

\* A turn of the block loop that ends with the right bytes.
FetchNext ==
    /\ pc = "copy" /\ Len(temp.data) < Len(entry.blocks)
    /\ Reusable \/ Servable
    /\ ApplyCopy(wanted)

\* The peer refuses the block; the old file, if it had it, was overwritten.
FetchRefused ==
    /\ pc = "copy" /\ Len(temp.data) < Len(entry.blocks)
    /\ ~Servable /\ (~Reusable \/ cur \in recent)
    /\ Abort("error")
    /\ UNCHANGED <<disk, index, undo, loose, counters, ghosts>>

SyncApply ==
    \/ ApplyOpen \/ ApplyFingerprint \/ ApplyChmod \/ ApplyParents \/ ApplyMkdir
    \/ ApplyCreate \/ FetchNext \/ FetchRefused \/ ApplyVerify \/ ApplyRecheck
    \/ ApplyRename \/ ApplySyncDir \/ ApplyPut

Receiver == (SyncList \/ SyncRefused \/ CycleNext \/ CycleEnd \/ SyncApply) /\ UNCHANGED source

----------------------------------------------------------------------------
SyncNext ==
    \/ SourceBegin \/ SourcePublish \/ SourceFails \/ SourceChange
    \/ Receiver
    \/ Failure /\ UNCHANGED source
    \/ User /\ UNCHANGED source

\* Both tickers go on, and a goroutine that can run does.
SyncSpec ==
    /\ SyncInit /\ [][SyncNext]_all
    /\ WF_all(SourceBegin) /\ WF_all(SourcePublish)
    /\ WF_all(Receiver)

----------------------------------------------------------------------------
(* Properties.                                                             *)

\* What a receiver holds, unless other programs there disturbed it, was whole
\* at the source at some moment: however the source is rewritten while it is
\* scanned, listed or fetched, and through failed calls, kills and power
\* losses, no file of the receiver mixes two versions.
Provenance ==
    \A p \in Paths : p \notin disturbed => Shape(disk[p]) \in history[p]

\* A path that no cycle can bring up to date: changed locally, turned from a
\* file into a directory or back, or changed at the source after an Apply
\* that lost its row.
Stuck(p) ==
    \/ p \in disturbed
    \/ p \in lag /\ held[p] # stree[p]
    \/ held[p].kind \notin {"absent", stree[p].kind}

\* Once the source is left alone, every object of it is at the receiver with
\* its row, unless a path that is listed no later is stuck: replicate stops at
\* the first error, and nothing after it in the order of paths is applied.
Settles ==
    <>[](\A p \in Paths : stree[p].kind # "absent" =>
            \/ Shape(disk[p]) = stree[p] /\ Claim(index[p]) = stree[p]
            \/ \E q \in Paths : Rank[q] <= Rank[p] /\ stree[q].kind # "absent" /\ Stuck(q))

----------------------------------------------------------------------------
(* The inductive invariant behind Provenance.                              *)

\* What the source has, has seen in its scan and has published it had once.
OriginInv ==
    /\ history \in [Paths -> SUBSET Shapes]
    /\ swindow \in [Paths -> SUBSET Shapes]
    /\ \A p \in Paths :
           /\ history[p] \subseteq Possible(p)
           /\ stree[p] \in history[p]
           /\ swindow[p] \subseteq history[p]
           /\ Claim(sindex[p]) \in history[p]
    /\ sindex \in Listings

\* What was offered, what is installed and what a power loss may bring back
\* was at the source once.
ArrivedInv ==
    /\ \A p \in Paths : Claim(offer[p]) \in history[p] /\ held[p] \in history[p]
    /\ \A u \in undo : u.held \in history[u.path]

SyncInv == ApplyInv /\ OriginInv /\ ArrivedInv
============================================================================
