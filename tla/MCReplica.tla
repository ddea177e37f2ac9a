----------------------------- MODULE MCReplica -----------------------------
(* Instances of Replica for TLC: a small tree, and one file. *)
EXTENDS Replica, TLC

MCBlock == {"x", "y"}

\* Versions of one file: the second shares a block with the first, the third
\* is empty, as a file being rewritten in place can be.
V1 == <<"x">>
V2 == <<"x", "y">>
V3 == <<>>
MCContents == {V1, V3}
MCModes == {"r", "w"}

FileEntry(c, m) == [kind |-> "file", mode |-> m, hash |-> c, blocks |-> c]
DirectoryEntry == [kind |-> "directory", mode |-> NoMode, hash |-> <<>>, blocks |-> <<>>]
\* An entry whose block list is not the one of its file digest.
CrossedEntry == [kind |-> "file", mode |-> "r", hash |-> V1, blocks |-> V2]

(* A directory d, a file d/f in it and a file g beside it; the index has room
   for two of the three. *)
TreePaths == {"d", "d/f", "g"}
TreeAbove == "d" :> {} @@ "d/f" :> {"d"} @@ "g" :> {}
TreeRank == "d" :> 1 @@ "d/f" :> 2 @@ "g" :> 3
Tree(d, f, g) == "d" :> d @@ "d/f" :> f @@ "g" :> g
TreeManifests == {Tree(DirectoryEntry, FileEntry(V1, "r"), NoEntry),
                  Tree(DirectoryEntry, FileEntry(V2, "w"), FileEntry(V1, "r")),
                  Tree(FileEntry(V3, "r"), NoEntry, NoEntry),
                  Tree(NoEntry, NoEntry, CrossedEntry)}

(* One path. *)
FilePaths == {"f"}
FileAbove == "f" :> {}
FileRank == "f" :> 1
FileManifests == {"f" :> e : e \in {FileEntry(V1, "r"), FileEntry(V2, "r")}}
============================================================================
