# A TLA+ verification of Backuply

Backuply synchronises folders between devices of a local network: one device is
the *source* of a folder, its peers *receive* it. This directory holds TLA+
modules that model the program, TLC configurations that check them on small
instances, and TLAPS proofs of the properties that matter most. `PROJECT.json`
maps every definition to the source lines it models.

## 1. Inventory

| component | source | state it keeps | operations | what makes it correct |
|---|---|---|---|---|
| fingerprint | `internal/store/files.go` | none; reads a file through one handle | open, stat, read blocks, stat, lstat | a success is a content the file had at one moment; it always answers |
| Apply | `internal/store/apply.go`, `files.go`, `store.go` | destination tree, temporary file, rows in SQLite | one call per entry: look, fingerprint, build, recheck, rename, sync, put | nothing partial is exposed, nothing foreign is replaced, rows describe what was installed |
| replication cycle | `internal/daemon/daemon.go` `replicate` | client session, folder status | CheckFolder, Dial, List, sort, Apply each, update | success means synced; errors are retried; alarms are genuine |
| Scan | `internal/store/scan.go`, `daemon.go` `scan`, `update` | rows in SQLite, folder status | walk, check marker, replace rows, record status | the index was true during the walk, lists parents, is replaced as a whole or not at all |
| handlers | `daemon.go` `authorize`, `List`, `ReadBlock`; `scan.go` `ReadBlock` | none | authorize, read rows, read a block | only scanned state is served; a block is the listed one |
| session | `internal/transport/transport.go` | connection, gate, deadlines | operation, List, ReadBlock, serveConn, handleRequest | answers belong to their requests; every operation returns |
| Serve | `transport.go` `Serve` | table of active connections | accept, limit, sweep, wait | slots are freed; no connection escapes the sweep; shutdown ends |
| Run | `daemon.go` `Run`, `cmd/backuply` | goroutines, listeners, context | start, wait, shut down | SQLite is closed last; shutdown ends although peers are silent |
| identity, marker | `internal/identity`, `files.go` `InitFolder`, `lock_linux.go`, `cmd/backuply` | key.pem, cert.pem, daemon.lock, `.backuply-folder` | init, id, run | one identity for ever; the marker of a successful init stays |
| index budget | `store.go` `Open`, `checkCapacity`, `put`; `scan.go` | `folder_usage`, triggers | insert, update, delete, repair at start | counts agree with rows; the places that compute the limits agree |
| configuration | `internal/config` | none | parse, validate | says what the file says; roots apart; one writer per folder |
| TLS pinning | `identity.go`, `transport.go` | none | certificate checks | delegated to crypto/tls |

How they interact: `Run` starts one scanner, one `replicate` goroutine per peer
and the server. All of them share one `Store`; `Scan` and `Apply` exclude each
other by `Store.mu`, which `Apply` holds while it waits for blocks from the
network; `List` and `ReadBlock` take no lock and read the rows between the steps
of the others, through the one SQLite connection of the pool. A receiver pulls:
`List`, then one `ReadBlock` per missing block, over one session per peer that
all its folders use in turn. The folders themselves are shared with every other
program of the machine.

What is hard: local edits between any two system calls of `Apply` and `Scan`;
the three syncs (data, directory, SQLite) around a rename and a crash between
any two of them; answers to cancelled calls left in the stream; a list and its
blocks read at different moments; a session dropped at one end and noticed much
later at the other; a connection accepted during shutdown; a restart with the
index of an earlier process; a power loss in the middle of `init`. The section
`hazards` of `PROJECT.json` lists them at the lines where they bite, with the
properties that would catch them.

## 2. Modules

```
Fingerprint ── FingerprintProofs          the read of one file
Folder ─┬─ Replica ─┬─ MCReplica          receiver: cycle and Apply
        │           └─ FolderSync ─┬─ MCFolderSync  source and receiver together
        │                          └─ ReplicaProofs  of Replica and of FolderSync
        ├─ Source (abstract) ── used by FolderSync, implemented by SourceScan
        └─ SourceScan ─┬─ MCSourceScan    source: Scan and the handlers
                       └─ SourceScanProofs
Rpc (abstract) ── implemented by Session
Session ─┬─ MCSession                     client, wire, serving goroutine
         └─ SessionProofs
Server ── ServerProofs                    Run, its workers, Serve, shutdown
Cycle ── CycleProofs                      folders of one peer in time
Budget ── BudgetProofs                    folder_usage, triggers, limits
Config ─┬─ MCConfig                       parser, validation, paths
        └─ StartupProofs                  of Config and of Provision
Provision ─┬─ MCProvision                 identity and marker
           └─ StartupProofs
```

Operators whose comment begins with "Variant of" are deliberate mutations of
the definition that follows them. No specification uses them; they serve to
show that the properties notice the corresponding mistake in the code (section
`mutants` of `PROJECT.json`).

**Fingerprint.** `file` and `mtime` are the inode behind the handle, `bound`
says whether the name still leads to it. Each statement of `fingerprint` is an
action; `Write` and `Unbind` are other programs. A block is its own digest. A
write may leave or set any modification time; the ghost `masked` remembers that
one left the time of the first Stat, the one thing that can mislead the call.

**Folder.** Objects of the tree, rows of the index, `Shape` (what a hash
comparison can tell of an object) and `Claim` (what a row claims). Digests are
injective: a digest is the content itself. An entry carries the digest of the
file and those of its blocks separately, as in the code, and the two can
disagree.

**Replica.** `disk` is the tree, `index` the rows, `pc` the control point of the
cycle: `next` between entries, the others inside `Apply`. One action stands for
the statements between two points at which another program, a failure or a
power loss can make a difference:

| action | `apply.go` |
|---|---|
| `ApplyOpen` | up to the first Lstat and its early returns (24-59, 77-80, 117-126) |
| `ApplyFingerprint` | fingerprint and the comparison with offer and row (81-88, 105-116) |
| `ApplyChmod` | the same-content branch (89-102) |
| `ApplyParents` | `ensureParents` (60-62, 127-129) |
| `ApplyMkdir` | 63-68 |
| `ApplyCreate`, `ApplyCopy`, `ApplyVerify` | the temporary file (130-186) |
| `ApplyRecheck`, `ApplyRename` | the last look and the rename (187-216) |
| `ApplySyncDir`, `ApplyPut` | 69-73, 103, 217-224 |

`undo` holds the renames a power loss can still take back, `loose` the
directories made by ensureParents: `syncDir` is called for the directory of the
entry, so nothing syncs the *name* of that directory, and a power loss may take
it with everything under it. `held`, `disturbed`, `recent` and `lag` are ghosts:
what Apply installed last at a path, which paths other programs disturbed since,
which of them changed after Apply last looked at them as the path to apply, and
which installed paths have no row yet. Other programs *disturb* a path when they
change it, when they put a link elsewhere that `ApplyChmod` follows to it, and
when they removed a directory above it that ensureParents made again and a power
loss took. `Fault` is any failing call, `Crash` a kill, `PowerLoss` a loss of what
was not synced. The orphaned temporary file
of a killed process is not in the model: its name is random, and Scan and Apply
ignore it.

**SourceScan.** `pending` and `here` are the state of `fs.WalkDir`, `found` the
entries collected, `window` (ghost) the shapes each path had since the walk
began. `mounted` stands for "the configured path leads to the folder and its
marker". `GoAway` takes the marker alone, or the contents with it: the walk then
reads the empty directory that is left, and `aside` keeps the tree until
`ComeBack`. What a path looks like meanwhile is collected in `aways` and counts
for the window only once the folder is back, so an index walked from an absent
folder is not regular. The request of a peer goes through `Authorize`, `ServeRow`,
`ServeBlock` (or `ServeList`) in separate steps, between which scans commit and
files change. `Abstract` maps its state to Source: the shapes of the tree, the
index, and the window with `aways` (`Seen`).

**Source.** What a receiver may rely on, however a source scans: of every path
the index says something that was true at a moment of one scan, not the same
moment for every path, and it lists a path only with the directories above it.

**FolderSync.** A Source and a Replica that lists its index (`SyncList`) and asks
for blocks while both change (`Servable`, `Reusable`, `FetchNext`,
`FetchRefused`). `history` (ghost) is every shape a path ever had at the source.
A request and its answer are one step: Session justifies that.

**Session.** `up` and `down` are the two directions of the stream. Nothing in it
ties a response to a request; the ghost field `re` does, and no guard reads it.
The gate, the context, the deadline and the AfterFunc of `operation` are
separate steps; `LateClose` is the goroutine of AfterFunc, as late as it likes.
Sizes of frames count only towards the index limit. `Operation` maps a caller to
the state of its operation in Rpc.

**Rpc.** An operation is served at most once, returns what was served for it or
fails, and ends. Of an operation that fails nobody can tell whether it was
served.

**Server.** One daemon's goroutines at the grain of what they share: `stop` (Run's
context) and `halted` (Serve's), `active`, Store.mu (`Locked`), the one SQLite
connection (`PoolBusy`). `RunSelect` to `Close` is the end of Run and of main;
`ServeCancel`, `ServeStopped`, `ServeReturns` are the deferred functions of Serve
in their order; `CloserWakes` and `CloserSweeps` its goroutine; the `Session...`
actions are serveConn with the two deferred functions around it. What a request
or an entry contains is left out.

**Cycle.** `replicate` for all folders of a peer, with a clock. `client` is "dead"
when the other side has closed the session and the client has not noticed;
`quiet` is the time since the serving side began to wait, `work` the time Apply
has spent without a request, `pending` the one tick the ticker's channel holds.
Exchanges with a reachable peer take no time. The ghost `misses` counts turns of
healthy folders that failed since the last outage or change.

**Budget.** A row is the length of its JSON, and `Octets` the bytes of a table. `rows` and `usage` are committed, `tx`
is what the transaction of Scan sees; each trigger is an operator, each
statement of Scan an action, and a CHECK that fails sets the ghost `refused`.
Init is a database of an earlier version: rows without usage.

**Config.** Parse as a machine over lines, each line being what it means; `conf`
gives every field of every possible section a value. Paths are sequences of
components over a file system `fs` with links: `Walk` is what the kernel does with
a raw path, `Clean` and `CanonicalPath` what the code does; each is a recursive
function over the components. `said` (ghost) is what the file said. The module's
specification is called `ParseSpec`, so that one proof module can extend Config
and Provision.

**Provision.** `key` and `cert` are numbers (0: no file), `kept` and `fixed` what
is on disk for good. `root` says whether the folder's root was there before
(`kept`) or was made by `MakeRoot` and is not synced in the directory above it
(`made`). A power loss may drop every link that was not synced, and a made root
with the marker in it. The ghost `torn` marks a marker that an interrupted init
left unsynced, `forfeit` a power loss that took a made root or a torn marker.

## 3. Runs

| run | instance | distinct states | shows |
|---|---|---|---|
| `Fingerprint` | 2 block values, up to 2 blocks, 3 changes | 320 558 | `ReadInv`, `WholeRead`, `Answers` |
| `Replica` | `d`, `d/f`, `g`, room for 2 rows, 4 offers, 2 modes, 2 edits, 1 failure | 286 895 | `ReplicaInv`, `DiskExplained`, `IndexMatchesHeld`, `SuccessMeansSynced`, `AlarmExplained`, `IndexWithinLimit`, `OnlyOwnReplaced` |
| `SourceScan` | `d`, `d/f`, `g`, room for 2 entries, 2 contents, 3 edits, 1 failure | 960 303 | `SourceInv`, `ParentsListed`, `IndexIsRegular`, `AnswerIsScanned`, `ServedIsListed`, `Publishes`, and `KeepsPromise`: it implements Source |
| `FolderSync` | `d`, `d/f`, contents of two blocks, 2 changes at the source, 1 edit, 1 failure | 595 071 | `Provenance`, `Settles` |
| `Session` | 2 callers, 1 block, 4 indexes, 3 operations, 2 connections | 241 333 | `SessionInv`, `OwnAnswer`, and `IsRpc`: it implements Rpc |
| `Server` | 2 connections, 1 slot, a scanner and one replicating worker | 68 579 | `ServerInv`, `StoreOpenWhileUsed`, `SlotsAccounted`, `ShutdownCompletes`, `ReadsAvailable`, `SlotFreed` |
| `Cycle` | 3 folders, interval 2, idle timeout 4, work up to 1, 3 events | 218 614 | `CycleInv`, `OneTurnLost`, `Recovers` |
| `Budget` | 2 folders, 3 paths, rows of 1 to 3 bytes, limits 2 and 8, 1 restart | 426 075 | `BudgetInv`, `NeverRefusedLate`, `ListAccepts` |
| `Config` | 3 peers (one called local), 1 folder, 12 lines, 5 paths, 2 file systems | 920 032 | `Faithful`, `RootsApart`, `OneWriter` |
| `Provision` | 3 interchangeable processes, 3 key pairs, a root that exists or not | 23 440 | `ProvisionInv`, `NoRotation`, `MarkerLasts` |

Why the bounds are enough to be interesting: two blocks are the least with
which a read, or a transfer, can be torn, three writes the least with which one
can be undone. Two edits are a change before and one after the last look; three
changes at the source let a directory be made, removed and replaced by a file
within one walk, or a folder get contents, go away and come back. In FolderSync two changes let a file be rewritten between list
and fetch and again before the next scan. Two callers on one session and two
connections are what a late Close or a left-over answer needs to meet somebody
else's operation; three operations let one be cancelled, one follow and one wait
at the gate. In Server one slot and two connections make every admission a
contest, and a connection is used again when its session is over, so sequences
are unbounded; a scanner and one replicating worker contend for the mutex, and
sessions for the SQLite connection. In Cycle three folders put one before and one
after the folder that fails; work and interval together stay just below the idle
timeout, and three events are an outage, a change of health and another one. In
Budget two of three paths fit, and rows of different length make replacing one a
question of bytes. In Config twelve lines are a complete file with two peers and
a folder received from one of them (`scan_interval` and `listen` have defaults).
Three keys are one for each interrupted attempt. The index limits are chosen so
that one manifest fits and one does not.

Deadlock is checked where the system has no end of its own (Replica, SourceScan,
FolderSync, Cycle, Budget, Provision). A fingerprint, a shutdown and a parse end,
and Session counts its operations, so there the check is off.

### Runs that refute a statement of the repository

| run | statement | what happens |
|---|---|---|
| `ReplicaAlarm` | "the same-content branch repairs that index" (`apply.go:20`) | lost put, then a newer offer: `ErrLocalChange` that nobody caused and nothing clears |
| `CycleIdle` | reconnecting is implemented (`README.md:14`) | the other side drops a session that is quiet for 60 s, and local work, with the wait for the ticker after it, may take that long between two requests in every round; the folder whose request meets the dead session each time is never synchronised |

`AlarmExplained` is what does hold of the first: it exempts exactly the path whose
put was lost (`lag`). So does `OnlyOwnReplaced`, which exempts two more cases: the
path at work in the moment between the last look and the system call, which the
repository's README admits, and a parent directory removed after its turn (below).
`OneTurnLost` and `Recovers` are what does hold of the second, as long as
interval and local work stay below the idle timeout.

### Known disagreements without a run

Met while modelling, stated here so that a reader does not take the exemptions
in the properties for accidents:

- *Modification times.* `fingerprint` recognises an unstable file by size and
  modification time; a same-size write within one tick of the file system clock
  goes unnoticed although `scan.go:14` says an unstable file leaves the index
  untouched. `WholeRead` exempts it (`masked`).
- *Late writeback.* If a kill or a failed `syncDir` comes between rename (214) and
  its sync, the same-content branch later writes a durable row for a rename
  nothing has synced, and a power loss makes it "(locally deleted)". The constant
  `LateWriteback` of Replica enables it; the proofs that need to assume it away say so.
- *Deletions.* `apply.go:118` says a local deletion is no permission to restore. A
  deletion is recognised by the row; if the put was lost, the file is restored.
- *Directories removed after their turn.* A directory removed before its entry is
  applied is reported as a local change. One removed later in the same cycle is
  found missing by checkComponents and made again by ensureParents for the first
  entry under it (`apply.go:127`), although `apply.go:118` and `README.md:143-145`
  admit no restoring. `OnlyOwnReplaced` exempts it, and only it: the step from
  nothing to a directory above the path at work, and `DoneInv` shows that an
  entry applied in this cycle is missing only if it was removed since.
- *Directories made again are not synced.* `syncDir` is called for `path.Dir(e.Path)`
  (`apply.go:69`, `217`), never for the directory above it. If ensureParents made
  that directory (`files.go:237`), a power loss can take it with the files that
  were renamed, synced and recorded under it, and the next cycle reports them as
  local deletions. The paths taken count as disturbed, since it starts with
  another program removing the directory.
- *A root made by init is not synced* in the directory above it (`files.go:75`,
  `100`): a power loss after a successful init can take root and marker.
- *A later init trusts the marker it finds* (`files.go:84-85`): a marker that an
  interrupted init wrote and did not sync is checked and reported as success, and
  a power loss can still take it. `MarkerLasts` exempts these two (`forfeit`).
- *Mode bits through a link.* Between fingerprint and Chmod the path can become a
  link; `r.Open` (`apply.go:90`) follows it inside the root, and the bits of another
  file are set.
- *A mount that comes back.* Scan looks at the marker before and after the walk. A
  folder that goes away and returns in between leaves no trace, and what the walk
  met meanwhile is committed although `scan.go:75` means to prevent it.
  `IndexIsRegular` exempts it: `aways` joins the window on return.
- *Bytes.* `README.md:158` gives 64 MiB of metadata per folder. Store and wire count
  different bytes against it (`store.go:106`, `transport.go:255`), so an index near
  the limit is stored and cut off half-way on every List.
- *Rows that stay.* A path deleted at the source keeps its row and its share of
  the limits at the receiver; a tree whose names change for long enough fills a
  receiver whose source is well below the limits.
- *One path stops a folder.* `replicate` breaks at the first error, so one
  conflicting path keeps everything after it in path order from being applied.
  `Settles` says exactly this, and the README of the repository admits it.
- *Counters.* `update` adds received and reused bytes on success only
  (`daemon.go:99-107`); `README.md:112` promises counters for the current run.
- *".." behind a link.* `Clean` removes `l/..` before links are looked at, the
  kernel does not. `RootsApart` exempts such paths (`Direct`).
- *A peer with one's own id.* `Validate` does not know the device's own identity and
  accepts a peer entry that carries it. `OneWriter` assumes there is none
  (`ValueAssumption`).

## 4. Fairness

Liveness is checked with weak fairness of the daemon's own goroutines
(`Reader`, `Scanner`, `ClientStep`), justified by the Go scheduler and
by the ticker that starts every cycle again. In Session the timers of contexts
are fair as well (`Expire`): `operation` derives its context with a timeout.

In FolderSync both ends run: scans begin and, if they do not fail, publish, and
the receiver's goroutine goes on. In Cycle time passes and an outage ends
(`PeerBack`); how often outages begin is bounded, so "recovers" means "after the
last of them". In Server every goroutine that can run does, and two things need
strong fairness because others can disable them again and again: a session in
the backend waits for the pool's connection, which database/sql hands out first
come first served, and the scan worker's select picks `ctx.Done()` sooner or
later although the ticker may be ready as well. No timeout is used there: a peer
may stay silent for ever.

Other programs, peers and failures are never fair otherwise: nothing is assumed
to happen there, and their number is bounded.

## 5. Proofs

| module | theorems | statement | assumption |
|---|---|---|---|
| `FingerprintProofs` | `ReadInvHolds`, `WholeReadHolds` | `Spec => []...` | none |
| `ReplicaProofs` | `ReplicaInvHolds`, `DiskExplainedHolds`, `IndexMatchesHeldHolds`, `SuccessMeansSyncedHolds`, `AlarmExplainedHolds` | `Spec => []...` | `~LateWriteback` |
| | `TypeCorrect`, `IndexWithinLimitHolds` | `Spec => []...` | none |
| | `OnlyOwnReplacedHolds` | `Spec => OnlyOwnReplaced` | `~LateWriteback` |
| | `SyncInvHolds`, `ProvenanceHolds` | `SyncSpec => []...` | `~LateWriteback` |
| `SourceScanProofs` | `SourceInvHolds`, `ParentsListedHolds`, `IndexIsRegularHolds`, `AnswerIsScannedHolds` | `Spec => []...` | none |
| | `ServedIsListedHolds` | `Spec => ServedIsListed` | none |
| | `KeepsPromiseHolds` | `Spec => KeepsPromise`: it implements Source | none |
| `SessionProofs` | `SessionInvHolds`, `OwnAnswerHolds` | `Spec => []...` | none |
| | `IsRpcSafe` | `Spec => Abstract!Safety`: the safety part of `IsRpc` | none |
| `ServerProofs` | `ServerInvHolds`, `StoreOpenWhileUsedHolds`, `SlotsAccountedHolds` | `Spec => []...` | none |
| `CycleProofs` | `CycleInvHolds`, `OneTurnLostHolds` | `Spec => []...` | `MaxWork + Interval < Idle` |
| `BudgetProofs` | `BudgetInvHolds`, `NeverRefusedLateHolds`, `ListAcceptsHolds` | `Spec => []...` | none |
| `StartupProofs` | `ParseInvHolds`, `FaithfulHolds`, `OneWriterHolds`, `RootsApartHolds` | `ParseSpec => []...` (Config) | none |
| | `ProvisionInvHolds`, `NoRotationHolds`, `MarkerLastsHolds` | `Spec => []...` (Provision) | none |

`~LateWriteback` is an assumption about the kernel: a rename whose directory was
not synced, because the call failed or the process was killed first, has reached
the disk by the time the daemon runs again. The others hold for all values of the
constants. All hold for every tree, every set of contents and manifests, any number of
callers, connections, slots, workers, folders, processes, edits and failures. Of
the constants they use only the named assumptions in the modules, which TLC
evaluates in every run: paths are ordered so that ancestors come first and the
ancestors of an ancestor are ancestors (`ChainAssumption`), contents are
sequences of blocks, manifests are well formed, and in FolderSync every listing a
source can publish is one of the manifests a receiver may be offered
(`ListingAssumption`). In Config the values of path fields are sequences of names
and no peer's identity is "this device" (`ValueAssumption`), and a link of a file
system lies in a directory and leads to a path (`FileSystemAssumption`).

*Fingerprint.* `WholeRead` is not inductive. `PrefixWhileUnstamped` is the
strengthening: as long as the modification time is the one of the first Stat
and no write put it there, the blocks read are a prefix of the file as it is now.

*Replica.* `ReplicaInv` says what each control point has established, in three
parts. `ApplyInv` is about one entry. Its `DoneInv` is the part one would not
guess: ensureParents may create a directory without recording it, and this is
harmless only because entries applied earlier in the cycle are still there or
were removed after their turn (`recent`). A directory made this way is `loose`, and
what a power loss takes with it becomes disturbed: by `DoneInv` there is such a
directory only where another program has removed one. `BuildInv` carries the
result of the first look to the rename: the row claims what was found, so after
the second look the object about to be replaced is the one the row describes. `UndoInv` says that only the window
between a rename and its directory sync can be taken back, and that this restores
tree and ghosts together; it is where `~LateWriteback` is needed. `SyncedInv` is
about the cycle: every listed path that is no longer waiting has the offered row
and object, so when nothing waits the report of success is true. `LimitInv`
carries the answer of checkCapacity, given before the object is built, to the
put that relies on it many steps later: the rows still leave room for this path.
That argument needs no more than `RowInv` (the entry at work is a listed one), in
which nothing lies on a disk that a power loss takes back; so `IndexWithinLimit`
holds with `LateWriteback` too, and so does `TypeOK`, which is inductive by itself
(`TypeNext`). `DiskExplained`, `IndexMatchesHeld`, `AlarmExplained` and
`OnlyOwnReplaced` do not: with two failures TLC finds the late writeback of
section 3.

*SourceScan.* `WalkInv`: a name is pending only under directories already
recorded. `ParentsListed` follows and discharges the part of Replica's
`ManifestAssumption` about ancestors. `LiveInv` ties status, authorization and
answer to a commit of the running process. `IndexIsRegular` rests on `WindowInv`:
what was found of a path is among the shapes it had since the walk began, those
of `aways` included until `ScanCheck` has found the folder in place, and a
path the walk has passed, or has not reached because its parent was no directory,
was absent at some moment of it. That case needs the tree to be closed under
ancestors at every moment (`TreeInv`). `ServedIsListed` needs `RowsInv` and
`RequestInv`: a row names the digests of one content, and a handler keeps the row
it read. The refinement of Source maps each step of the walk to a stutter, a
change of the tree to a change, and the commit to `Publish`, whose guard is what
`WindowInv` and `OrderInv` say of the collected entries.

*FolderSync.* The receiver's part of a step is a step of Replica, so `ApplyInv`
is preserved by the lemmas about Replica. `OriginInv` says that what the
source has, has seen in a scan or has published is in `history`, `ArrivedInv` that
what was offered, is installed or may come back after a power loss is.
Installing a content that Apply verified against the offered digest is then
installing a shape of `history`, whenever its blocks were fetched.

*Session.* Nothing on the wire ties a response to a request, so `OwnAnswer` is a
matter of where the stream stands. `StreamInv` says it: while a call reads and
the connection is open, what is in `down`, followed by what the serving goroutine
has still to write, is exactly what the call has still to read (`Expected`,
`Position`); a request in `up` is the one of the call. `NumberInv` gives requests
distinct numbers and `GivenInv` says what the backend gave for which of them.
`CleanBetweenCalls` is what makes it start right: at the gate the stream is empty
or the connection is closed, because every failing operation closes it. For
`IsRpcSafe` each step of a caller, the wire or the server is mapped to a step of
Rpc or a stutter; serving an operation whose caller is gone is a stutter there.

*Server.* `TableInv` relates the table of active connections, the sessions and
the WaitGroup; `CloserInv` says that the closer sweeps only when the server has
halted, after which nothing is admitted, so no session slips in behind the sweep;
`RunInv` says what has ended at each point of the shutdown. Both safety
properties follow by expanding definitions.

*Cycle.* `Headroom` explains why one lost turn is the worst: a folder that lost
its turn is healthy and sends a request in every round, so the session dialed
after the loss is never quiet for the idle timeout. `ControlInv` ties the control
point to the session. The condition `MaxWork + Interval < Idle` cannot be
dropped: the run `CycleIdle` shows what happens without it.

*Budget.* Bytes are counted, not summed: `Octets(t)` is the set of the bytes of
all rows with their separators, so that a put changes the part of one path and
the library's theorems on cardinalities do the arithmetic (`Split`, `PutAdds`).
`UsageInv` covers a store that is not open, because Open repairs only folders that
have rows; `JobInv` says that what was checked when the mutex was taken is still
true at the put, `TxInv` that a transaction holds some of the rows of a tree that
fits. MaxManifestBytes is assumed to be at least the two bytes of an empty list.

*Provision.* `PairInv`: a certificate is linked only after its key is on disk
for good. So an identity that could be loaded, and thus shown, always leaves its
key behind, and a later `LoadOrCreate` refuses rather than makes another.
`MarkerInv` says that the marker is on disk as it is unless an init is making it or
left it torn, and that one is made after a success only when it was forfeit; with
it `MarkerLasts` is inductive.

*Config.* `ParseInv` has three parts. `ReadInv`: a key is met once and under a
section that was opened, the keys are exactly those of the assignments met, and
a field has its default or a value the file may give it. With `Faithful` it is
inductive: a header resets the fields of its section, which loses nothing
because the section is new, and a new section has no keys. `VerdictInv`: what
Validate found stays true, since nothing is read after it. `OneWriter` follows
from what Validate checks of peers and folders.

`RootsApart` is an argument by induction over paths, which the provers can follow
because it is made first-order: the library's well-founded order of finite sets,
applied to the intervals `0..k`, gives every set of numbers a least element
(`Least`), and from it come the functions inside the recursive definitions
(`Iterates`, `Alike`) and induction over the components of a path
(`PathInduction`). `CleanEquations`, `WalkEquations` and `CanonicalEquations` say
that each of the three takes a path component by component. Then: a clean path
has no ".." (`CleanPlain`); cleaning a path does not change where the kernel ends
unless a ".." leaves a link (`CleanWalk`); and what canonicalPath accepts of a
clean path is the place where the kernel ends (`CanonicalWalk`), because a
component that does not exist cannot be a link. So Validate compares the places
themselves (`ResolvedPlace`), whatever links there are and however long the paths.

What stays with TLC: all liveness (`Answers`, `Publishes`, `Settles`, `Recovers`,
`ShutdownCompletes`, `ReadsAvailable`, `SlotFreed`, and the fairness of `IsRpc`)
and whatever needs ENABLED. Every safety property of a passing run has a theorem.
No module with theorems uses a RECURSIVE operator.

## 6. Limits of the model

- Digests are injective, `GenerateKey` never repeats, SQLite transactions are
  atomic and durable (`synchronous(FULL)`).
- `fingerprint` is atomic in Replica and SourceScan; Fingerprint says when.
- A local change at the receiver commits the journal (`Touch` clears `undo` and
  `loose`).
- Modes of directories are not synchronised by the code and not modelled.
- FolderSync has one folder, one source and one receiver, and its receiver stores
  every manifest: limits are the business of Replica and Budget.
- Server does not know what requests and entries say, Cycle not what Apply does;
  Replica, SourceScan and Session do.
- The early returns of Serve for an unusable TLS configuration or a nil backend
  cannot happen from Run and are left out.
- Config sees the meaning of a line, not its characters.
- The state directory is assumed to exist durably before `init`; Provision has
  one folder.

### Not modelled

- TLS and certificate pinning: stateless checks, the protocol is crypto/tls's.
- The status request and the admin socket's HTTP: a copy of a map under a lock.
- Serving from a receiver (`authorize` without the readiness test), wording of
  errors and logging.
- `lock_other.go`: returns an error.

## 7. Plan

Done: all modules above and the proofs of section 5.

What could follow: `SuccessMeansSynced` without the assumption `~LateWriteback`
(with two failures TLC finds no counterexample; the present argument goes through
`DiskExplained`, which fails there), and a model of serving from a receiver.
