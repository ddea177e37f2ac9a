---------------------------- MODULE SourceScan ----------------------------
(***************************************************************************)
(* The source of a folder: Store.Scan walks the tree and replaces the      *)
(* index, Daemon.scan records the outcome, and the handlers List and       *)
(* ReadBlock of the daemon answer a peer from the index, all while other   *)
(* programs change the tree, the folder comes and goes with its mount, and *)
(* the process is killed and started again.                                *)
(*                                                                         *)
(* fingerprint() is atomic here; module Fingerprint says when it is.       *)
(***************************************************************************)
EXTENDS Folder

CONSTANTS
    MaxEdits,      \* bound: changes made by other programs, mounts included
    MaxFaults      \* bound: failed calls and restarts

ASSUME SourceAssumption == MaxEdits \in Nat /\ MaxFaults \in Nat

VARIABLES
    disk,      \* the tree that the open root and the configured path lead to
    mounted,   \* the configured path leads to the folder and its marker
    aside,     \* the folder's tree while other contents are in its place
    index,     \* the rows of the folder in SQLite
    pc,        \* control point of the scanner
    pending,   \* names WalkDir has read from a directory and not visited
    here,      \* the directory WalkDir is about to read
    found,     \* entries collected by this walk
    status,    \* FolderStatus: "none" since start, "ok", "error"
    answer,    \* the last answer to List; empty rows before the first
    request,   \* the List or ReadBlock request being served
    edits,     \* ghost: changes made by other programs
    faults,    \* ghost: failures
    window,    \* ghost: the shapes each path had since the walk began, if one
               \* runs, while the folder was in place or until it was back
    aways,     \* ghost: the shapes since the folder went away in the walk
    scanned    \* ghost: window of the walk that wrote the index, and whether
               \* that walk belongs to the running process

tree == <<disk, mounted, aside>>
walk == <<pending, here, found>>
counters == <<edits, faults>>
seen == <<window, aways>>
vars == <<tree, index, pc, walk, status, answer, request, counters, seen, scanned>>

\* A directory entry as ReadDir returned it; dir is DirEntry.IsDir().
Name == [path : Paths, dir : BOOLEAN]

\* kind "none" means no request in progress; want and at name the block asked
\* for, hash the file the peer saw listed.
Request == [kind : {"none", "list", "block"}, stage : {"new", "allowed", "row"},
            path : Paths, hash : Seq(Block), at : Nat]

SomePath == CHOOSE p \in Paths : TRUE
NoRequest == [kind |-> "none", stage |-> "new", path |-> SomePath, hash |-> <<>>, at |-> 0]

TypeOK ==
    /\ disk \in [Paths -> Object]
    /\ mounted \in BOOLEAN
    /\ aside \subseteq [Paths -> Object]
    /\ index \in [Paths -> Entry]
    /\ pc \in {"idle", "walk", "readdir", "check", "commit", "done"}
    /\ pending \subseteq Name
    /\ here \in Paths
    /\ found \in [Paths -> Entry]
    /\ status \in {"none", "ok", "error"}
    /\ answer \in [given : BOOLEAN, rows : [Paths -> Entry]]
    /\ request \in Request
    /\ edits \in 0..MaxEdits
    /\ faults \in 0..MaxFaults
    /\ window \in [Paths -> SUBSET Shapes]
    /\ aways \in [Paths -> SUBSET Shapes]
    /\ scanned \in [live : BOOLEAN, window : [Paths -> SUBSET Shapes]]

NoAnswer == [given |-> FALSE, rows |-> NoManifest]

NoWindow == [p \in Paths |-> {}]
Now == [p \in Paths |-> {Shape(disk[p])}]

\* A folder just initialised, and a daemon just started.
Init ==
    /\ disk = [p \in Paths |-> Absent]
    /\ mounted = TRUE
    /\ aside = {}
    /\ index = NoManifest
    /\ pc = "idle"
    /\ pending = {}
    /\ here = SomePath
    /\ found = NoManifest
    /\ status = "none"
    /\ answer = NoAnswer
    /\ request = NoRequest
    /\ edits = 0
    /\ faults = 0
    /\ window = NoWindow
    /\ aways = NoWindow
    /\ scanned = [live |-> FALSE, window |-> [p \in Paths |-> {Nothing}]]

----------------------------------------------------------------------------
(* Scan.                                                                   *)

ParentsPresent(p) == \A d \in Above[p] : disk[d].kind = "directory"

\* checkComponents without allowMissing, and Lstat.
Reachable(p) == ParentsPresent(p) /\ disk[p].kind \in {"directory", "file"}

\* The names ReadDir finds among the candidates.
ReadDir(candidates) ==
    {[path |-> q, dir |-> disk[q].kind = "directory"] :
        q \in {c \in candidates : disk[c].kind # "absent"}}

Listed(m) == {p \in Paths : m[p].kind # "none"}

\* The entry Scan records for an object.
EntryOf(o) ==
    IF o.kind = "directory"
      THEN [kind |-> "directory", mode |-> NoMode, hash |-> <<>>, blocks |-> <<>>]
      ELSE [kind |-> "file", mode |-> o.mode, hash |-> o.data, blocks |-> o.data]

\* No walk runs.
NothingSeen == window' = NoWindow /\ aways' = NoWindow

\* Scan returns an error and Daemon.update records it; the index is untouched.
ScanFails ==
    /\ pc' = "idle"
    /\ status' = "error"
    /\ pending' = {}
    /\ found' = NoManifest
    /\ NothingSeen
    /\ UNCHANGED here

\* openFolder, then WalkDir reads the root.
ScanBegin ==
    /\ pc = "idle"
    /\ \/ /\ ~mounted
          /\ ScanFails
       \/ /\ mounted
          /\ pc' = "walk"
          /\ pending' = ReadDir({q \in Paths : Above[q] = {}})
          /\ found' = NoManifest
          /\ window' = Now
          /\ UNCHANGED <<status, here, aways>>
    /\ UNCHANGED <<tree, index, answer, request, counters, scanned>>

\* Variant of ScanVisit that records files only.
ScanVisitFiles ==
    /\ pc = "walk"
    /\ \E n \in pending :
        /\ \A k \in pending : Rank[n.path] <= Rank[k.path]
        /\ \/ ~Reachable(n.path) /\ ScanFails
           \/ /\ Reachable(n.path)
              /\ found' = IF n.dir THEN found
                          ELSE [found EXCEPT ![n.path] = EntryOf(disk[n.path])]
              /\ pending' = pending \ {n}
              /\ pc' = IF n.dir THEN "readdir" ELSE "walk"
              /\ here' = n.path
              /\ UNCHANGED <<status, seen>>
    /\ UNCHANGED <<tree, index, answer, request, counters, scanned>>

\* Variant of ScanVisit that passes over what it cannot index.
ScanVisitSkips ==
    /\ pc = "walk"
    /\ \E n \in pending :
        /\ \A k \in pending : Rank[n.path] <= Rank[k.path]
        /\ found' = IF Reachable(n.path)
                      THEN [found EXCEPT ![n.path] = EntryOf(disk[n.path])] ELSE found
        /\ pending' = pending \ {n}
        /\ pc' = IF n.dir /\ Reachable(n.path) THEN "readdir" ELSE "walk"
        /\ here' = n.path
        /\ UNCHANGED <<status, seen>>
    /\ UNCHANGED <<tree, index, answer, request, counters, scanned>>

\* The callback of WalkDir for the next name.
ScanVisit ==
    /\ pc = "walk"
    /\ \E n \in pending :
        /\ \A k \in pending : Rank[n.path] <= Rank[k.path]
        /\ \/ /\ ~Reachable(n.path) \/ Cardinality(Listed(found)) >= MaxEntries
              /\ ScanFails
           \/ /\ Reachable(n.path) /\ Cardinality(Listed(found)) < MaxEntries
              /\ found' = [found EXCEPT ![n.path] = EntryOf(disk[n.path])]
              /\ pending' = pending \ {n}
              /\ pc' = IF n.dir THEN "readdir" ELSE "walk"
              /\ here' = n.path
              /\ UNCHANGED <<status, seen>>
    /\ UNCHANGED <<tree, index, answer, request, counters, scanned>>

\* WalkDir descends into what was a directory when its parent was read; an
\* error here comes back through the callback and ends the scan.
ScanReadDir ==
    /\ pc = "readdir"
    /\ \/ /\ ~ParentsPresent(here) \/ disk[here].kind # "directory"
          /\ ScanFails
       \/ /\ ParentsPresent(here) /\ disk[here].kind = "directory"
          /\ pending' = pending \cup ReadDir({q \in Paths : Above[q] = Above[here] \cup {here}})
          /\ pc' = "walk"
          /\ UNCHANGED <<found, here, status, seen>>
    /\ UNCHANGED <<tree, index, answer, request, counters, scanned>>

\* The walk is complete.
ScanWalked ==
    /\ pc = "walk"
    /\ pending = {}
    /\ pc' = "check"
    /\ UNCHANGED <<tree, index, walk, status, answer, request, counters, seen, scanned>>

\* Variant of ScanCheck that commits without a second look.
ScanCheckSkipped ==
    /\ pc = "check"
    /\ pc' = "commit"
    /\ UNCHANGED <<tree, index, walk, status, answer, request, counters, seen, scanned>>

\* CheckFolder by the configured path and checkMarker by the open root.
ScanCheck ==
    /\ pc = "check"
    /\ \/ ~mounted /\ ScanFails
       \/ mounted /\ pc' = "commit" /\ UNCHANGED <<walk, status, seen>>
    /\ UNCHANGED <<tree, index, answer, request, counters, scanned>>

\* The transaction: DELETE all rows, INSERT the entries found, COMMIT.
ScanCommit ==
    /\ pc = "commit"
    /\ index' = found
    /\ scanned' = [live |-> TRUE, window |-> window]
    /\ pc' = "done"
    /\ UNCHANGED <<tree, walk, status, answer, request, counters, seen>>

\* Variant of ScanUpdate that keeps an error of an earlier scan.
ScanUpdateSticky ==
    /\ pc = "done"
    /\ status' = IF status = "error" THEN "error" ELSE "ok"
    /\ pc' = "idle"
    /\ found' = NoManifest
    /\ NothingSeen
    /\ UNCHANGED <<tree, index, pending, here, answer, request, counters, scanned>>

\* Daemon.update with no error.
ScanUpdate ==
    /\ pc = "done"
    /\ status' = "ok"
    /\ pc' = "idle"
    /\ found' = NoManifest
    /\ NothingSeen
    /\ UNCHANGED <<tree, index, pending, here, answer, request, counters, scanned>>

----------------------------------------------------------------------------
(* The handlers of the server.                                             *)

\* The peer asks for the index, or for a block of a file it saw listed.
AskList ==
    /\ request.kind = "none"
    /\ request' = [NoRequest EXCEPT !.kind = "list"]
    /\ UNCHANGED <<tree, index, pc, walk, status, answer, counters, seen, scanned>>

AskBlock(p, i) ==
    /\ request.kind = "none"
    /\ answer.given /\ answer.rows[p].kind = "file"
    /\ i \in 1..Len(answer.rows[p].blocks)
    /\ request' = [kind |-> "block", stage |-> "new", path |-> p,
                   hash |-> answer.rows[p].hash, at |-> i]
    /\ UNCHANGED <<tree, index, pc, walk, status, answer, counters, seen, scanned>>

\* Variant of Authorized that only asks whether a scan has failed.
AuthorizedUnscanned == mounted /\ status # "error"

\* authorize: the marker is there and the last scan of this run succeeded.
Authorized == mounted /\ status = "ok"

\* The refusal closes the session: the peer starts again with List.
Refuse == request' = NoRequest

Authorize ==
    /\ request.kind # "none" /\ request.stage = "new"
    /\ \/ Authorized /\ request' = [request EXCEPT !.stage = "allowed"]
       \/ ~Authorized /\ Refuse
    /\ UNCHANGED <<tree, index, pc, walk, status, answer, counters, seen, scanned>>

\* Store.List
ServeList ==
    /\ request.kind = "list" /\ request.stage = "allowed"
    /\ answer' = [given |-> TRUE, rows |-> index]
    /\ request' = NoRequest
    /\ UNCHANGED <<tree, index, pc, walk, status, counters, seen, scanned>>

\* Store.ReadBlock up to the row: the file asked for is still the indexed one.
RowMatches(e) == e.kind = "file" /\ e.hash = request.hash

ServeRow ==
    /\ request.kind = "block" /\ request.stage = "allowed"
    /\ \/ RowMatches(index[request.path]) /\ request' = [request EXCEPT !.stage = "row"]
       \/ ~RowMatches(index[request.path]) /\ Refuse
    /\ UNCHANGED <<tree, index, pc, walk, status, answer, counters, seen, scanned>>

\* Variant of BlockIntact that trusts the size.
BlockOfSize ==
    /\ mounted /\ ParentsPresent(request.path)
    /\ disk[request.path].kind = "file"
    /\ Len(disk[request.path].data) = Len(request.hash)

\* The block the file holds now is the one the row promises.
BlockIntact ==
    /\ mounted /\ ParentsPresent(request.path)
    /\ disk[request.path].kind = "file"
    /\ Len(disk[request.path].data) = Len(request.hash)
    /\ disk[request.path].data[request.at] = request.hash[request.at]

\* Store.ReadBlock from openFolder on.
ServeBlock ==
    /\ request.kind = "block" /\ request.stage = "row"
    /\ BlockIntact
    /\ request' = NoRequest
    /\ UNCHANGED <<tree, index, pc, walk, status, answer, counters, seen, scanned>>

RefuseBlock ==
    /\ request.kind = "block" /\ request.stage = "row"
    /\ ~BlockIntact
    /\ Refuse
    /\ UNCHANGED <<tree, index, pc, walk, status, answer, counters, seen, scanned>>

----------------------------------------------------------------------------
(* Failures and other programs.                                            *)

\* A call of Scan fails: I/O, SQLite, unstable file, cancelled context.
ScanFault ==
    /\ faults < MaxFaults
    /\ pc \in {"walk", "readdir", "check", "commit"}
    /\ faults' = faults + 1
    /\ ScanFails
    /\ UNCHANGED <<tree, index, answer, request, edits, scanned>>

\* The process ends and is started again; the index is on disk.
Restart ==
    /\ faults < MaxFaults
    /\ faults' = faults + 1
    /\ pc' = "idle" /\ status' = "none" /\ pending' = {} /\ found' = NoManifest
    /\ NothingSeen
    /\ answer' = NoAnswer
    /\ request' = NoRequest
    /\ scanned' = [scanned EXCEPT !.live = FALSE]
    /\ UNCHANGED <<tree, index, here, edits>>

\* A change by another program.  What a walk sees while the folder is away
\* counts for it only once the folder is back.
Edit ==
    /\ edits < MaxEdits
    /\ edits' = edits + 1
    /\ window' = IF pc = "idle" THEN NoWindow
                 ELSE IF ~mounted' THEN window
                 ELSE [p \in Paths |-> window[p] \cup aways[p] \cup {Shape(disk'[p])}]
    /\ aways' = IF pc = "idle" \/ mounted' THEN NoWindow
                ELSE [p \in Paths |-> aways[p] \cup {Shape(disk'[p])}]
    /\ UNCHANGED <<index, pc, walk, status, answer, request, faults, scanned>>

\* A file is written, or an object is put where nothing or a file was.
UserPut(p, o) ==
    /\ ParentsPresent(p)
    /\ disk[p].kind \in {"absent", "file"} /\ disk[p] # o
    /\ o.kind = "directory" => disk[p].kind = "absent"
    /\ disk' = [disk EXCEPT ![p] = o]
    /\ UNCHANGED <<mounted, aside>>
    /\ Edit

UserRemove(p) ==
    /\ disk[p].kind # "absent"
    /\ disk' = [q \in Paths |-> IF q \in Below(p) THEN Absent ELSE disk[q]]
    /\ UNCHANGED <<mounted, aside>>
    /\ Edit

\* The folder goes away: its marker alone, or the mount under a root that is
\* open and still shows it; or the contents with the marker.
GoAway ==
    /\ mounted
    /\ mounted' = FALSE
    /\ \/ UNCHANGED <<disk, aside>>
       \/ disk' = [p \in Paths |-> Absent] /\ aside' = {disk}
    /\ Edit

\* It comes back as it was; what was in its place meanwhile is no longer seen.
ComeBack ==
    /\ ~mounted
    /\ mounted' = TRUE
    /\ IF aside = {} THEN UNCHANGED disk ELSE disk' \in aside
    /\ aside' = {}
    /\ Edit

Remount == GoAway \/ ComeBack

----------------------------------------------------------------------------
Scanner == ScanBegin \/ ScanVisit \/ ScanReadDir \/ ScanWalked \/ ScanCheck
           \/ ScanCommit \/ ScanUpdate

Server == Authorize \/ ServeList \/ ServeRow \/ ServeBlock \/ RefuseBlock

Peer == AskList \/ \E p \in Paths : \E i \in 1..Len(answer.rows[p].blocks) : AskBlock(p, i)

User ==
    \/ \E p \in Paths : \E o \in {Directory, Other} \cup {File(c, m) : c \in Contents, m \in Modes} :
           UserPut(p, o)
    \/ \E p \in Paths : UserRemove(p)
    \/ Remount

Next == Scanner \/ Server \/ Peer \/ ScanFault \/ Restart \/ User

Spec == Init /\ [][Next]_vars

\* The ticker starts the scan again, and the scanner goroutine runs.
FairSpec == Spec /\ WF_vars(Scanner)

----------------------------------------------------------------------------
(* Properties.                                                             *)

\* The index lists a path only together with its ancestors, however the tree
\* changed under the walk.  Apply relies on it: replicate sorts the entries so
\* that "parents precede children".
ParentsListed ==
    \A p \in Paths : index[p].kind # "none" =>
        \A d \in Above[p] : index[d].kind # "none"

\* What the index says of each path was true at some moment of the walk that
\* wrote it: a path that stayed is listed as it was, and a path that was gone
\* before the walk is not listed.  What the walk met in the place of a folder
\* that had gone away is not published, unless the folder was back by the time
\* of the second look: a mount that goes and returns within one walk is beyond
\* what CheckFolder and checkMarker can tell.
IndexIsRegular == \A p \in Paths : Claim(index[p]) \in scanned.window[p]

\* A peer gets the index only after a complete scan by the running process:
\* what an earlier process left in SQLite is never answered.
AnswerIsScanned == answer.given => scanned.live

\* A block is served only with the bytes of the file that the peer saw listed,
\* though the index and the file may change between the steps of the handler.
ServedIsListed ==
    [][ServeBlock => /\ answer.rows[request.path].hash = request.hash
                     /\ disk[request.path].data[request.at] =
                            answer.rows[request.path].blocks[request.at]]_vars

\* What Scan can index: the folder is mounted, holds nothing but files and
\* directories, and not more of them than the limit.
Indexable ==
    /\ mounted
    /\ \A p \in Paths : disk[p].kind # "other"
    /\ Cardinality({p \in Paths : disk[p].kind # "absent"}) <= MaxEntries

\* Once other programs stop, the index becomes the tree and stays so, if Scan
\* can index it; if not, the status becomes and stays an error.
Publishes ==
    <>[](IF Indexable
           THEN status = "ok" /\ \A p \in Paths : Claim(index[p]) = Shape(disk[p])
           ELSE status = "error")

\* What the walk could meet at p, while the folder was away too.
Seen(p) == window[p] \cup aways[p]

Abstract == INSTANCE Source WITH tree <- [p \in Paths |-> Shape(disk[p])],
                                 window <- [p \in Paths |-> Seen(p)]

\* The scanner keeps the promise of Source: an index is replaced as a whole, at
\* one step, by one that was regular over the scan that found it, and neither a
\* failed scan nor a restart touches it.
KeepsPromise == Abstract!Spec

----------------------------------------------------------------------------
(* The inductive invariant.  OrderInv is behind ParentsListed and          *)
(* AnswerIsScanned.                                                        *)

Closed(m) == \A p \in Paths : m[p].kind # "none" => \A d \in Above[p] : m[d].kind # "none"

\* A name is pending only under directories the walk has recorded.
WalkInv ==
    /\ Closed(found)
    /\ \A n \in pending : \A d \in Above[n.path] : found[d].kind # "none"
    /\ pc = "readdir" => found[here].kind # "none"
    /\ pc \notin {"walk", "readdir"} => pending = {}

\* The status, a passed authorization and an answer all stem from a commit of
\* this process.
LiveInv ==
    status = "ok" \/ pc = "done" \/ request.stage # "new" \/ answer.given => scanned.live

OrderInv == TypeOK /\ ParentsListed /\ WalkInv /\ LiveInv

(* What IndexIsRegular, ServedIsListed and KeepsPromise need besides.      *)

\* The tree is one: an object lies under directories, and only files have data.
IsTree(t) ==
    \A p \in Paths :
        /\ t[p].kind # "file" => t[p].data = <<>>
        /\ t[p].kind = "file" => t[p].mode \in Modes
        /\ t[p].kind # "absent" => \A d \in Above[p] : t[d].kind = "directory"

TreeInv == IsTree(disk) /\ \A t \in aside : IsTree(t)

\* A row is one that Scan makes.
Proper(e) ==
    \/ e = NoEntry \/ e = EntryOf(Directory)
    \/ e.kind = "file" /\ e.mode \in Modes /\ e.blocks = e.hash

RowsInv == \A p \in Paths : Proper(found[p]) /\ Proper(index[p]) /\ Proper(answer.rows[p])

\* A block is asked for of a file in the last answer.
RequestInv ==
    request.kind = "block" =>
        answer.rows[request.path].kind = "file" /\ answer.rows[request.path].hash = request.hash

\* The walk will still come to the path, or to a directory above it.
Ahead(p) ==
    \/ \E n \in pending : n.path = p \/ n.path \in Above[p]
    \/ pc = "readdir" /\ here \in Above[p]

\* The evidence for the rows of a walk: what it recorded was there, what it has
\* passed over was missing at some moment, and what was no directory at some
\* moment had nothing under it then.
WindowInv ==
    /\ pc = "idle" => window = NoWindow
    /\ pc = "idle" \/ mounted => aways = NoWindow
    /\ pc # "idle" =>
           \A p \in Paths :
               /\ Shape(disk[p]) \in Seen(p)
               /\ found[p].kind # "none" => Claim(found[p]) \in Seen(p)
               /\ found[p].kind = "none" => Nothing \in Seen(p) \/ Ahead(p)
               /\ \A d \in Above[p] : \A s \in Seen(d) :
                      s.kind # "directory" => Nothing \in Seen(p)
    /\ \A n \in pending : n.dir \/ \E s \in Seen(n.path) : s.kind # "directory"
    /\ pc \in {"commit", "done"} => \A p \in Paths : Claim(found[p]) \in window[p]

SourceInv == OrderInv /\ TreeInv /\ RowsInv /\ RequestInv /\ WindowInv
============================================================================
