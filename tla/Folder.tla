------------------------------- MODULE Folder -------------------------------
(***************************************************************************)
(* The data of internal/store and internal/model that the source and the   *)
(* receiver of a folder share: objects of the file tree, entries of the    *)
(* index, and the order of paths.                                          *)
(*                                                                         *)
(* A file content is a sequence of blocks, and a digest is the value it is *)
(* computed from: SHA-256 is taken to be injective.                        *)
(***************************************************************************)
EXTENDS Naturals, Sequences, FiniteSets

CONSTANTS
    Paths,         \* relative paths of the folder
    Above,         \* Above[p]: the proper ancestors of p, the root excluded
    Rank,          \* position of a path in the order of the entries' paths
    Block,         \* contents of one block
    Contents,      \* file contents that occur
    Modes,         \* permission bits of files that occur
    MaxEntries     \* store.MaxEntries

NoMode == "-"

\* A node of the tree as Lstat, fingerprint and Chmod see it.  "other" is a
\* symbolic link or a special file.
Object == [kind : {"absent", "directory", "file", "other"},
           data : Seq(Block),
           mode : Modes \cup {NoMode}]

\* model.Entry, a row of the index or of a manifest; "none" stands for no
\* row.  hash is the digest of the whole file, blocks those of its blocks:
\* nothing in ValidateEntry ties one to the other.
Entry == [kind : {"none", "directory", "file"},
          mode : Modes \cup {NoMode},
          hash : Seq(Block),
          blocks : Seq(Block)]

\* What a hash comparison can tell of an object.
Shapes == [kind : {"absent", "directory", "file", "other"}, data : Seq(Block)]

Absent    == [kind |-> "absent", data |-> <<>>, mode |-> NoMode]
Directory == [kind |-> "directory", data |-> <<>>, mode |-> NoMode]
Other     == [kind |-> "other", data |-> <<>>, mode |-> NoMode]
File(c, m) == [kind |-> "file", data |-> c, mode |-> m]

NoEntry == [kind |-> "none", mode |-> NoMode, hash |-> <<>>, blocks |-> <<>>]

Nothing  == [kind |-> "absent", data |-> <<>>]
Shape(o) == [kind |-> o.kind, data |-> o.data]
\* The shape a row of the index claims for its path.
Claim(e) == IF e.kind = "none" THEN Nothing ELSE [kind |-> e.kind, data |-> e.hash]

ASSUME TreeAssumption ==
    /\ Paths # {}
    /\ Above \in [Paths -> SUBSET Paths]
    /\ Rank \in [Paths -> Nat]
    /\ \A p, q \in Paths : Rank[p] = Rank[q] => p = q
    /\ \A p \in Paths : \A d \in Above[p] :
           Rank[d] < Rank[p] /\ Above[d] \subseteq Above[p]

\* The ancestors of a path are the steps of one way down from the root.
ASSUME ChainAssumption ==
    \A p \in Paths :
        /\ \E r \in Above[p] \cup {p} : Above[r] = {}
        /\ \A d \in Above[p] : \E c \in Above[p] \cup {p} : Above[c] = Above[d] \cup {d}

ASSUME DataAssumption ==
    /\ Contents \subseteq Seq(Block)
    /\ NoMode \notin Modes
    /\ MaxEntries \in Nat

NoManifest == [p \in Paths |-> NoEntry]

\* A path and everything under it.
Below(p) == {q \in Paths : q = p \/ p \in Above[q]}
============================================================================
