--------------------------- MODULE MCFolderSync ---------------------------
(* An instance of FolderSync for TLC: a directory and a file in it, or a   *)
(* file in the place of the directory.                                     *)
EXTENDS FolderSync, TLC

MCBlock == {"x", "y"}

\* Two versions of a file that share both blocks, in the other order.
V1 == <<"x", "y">>
V2 == <<"y", "x">>
MCContents == {V1, V2}
MCModes == {"r"}

MCPaths == {"d", "d/f"}
MCAbove == "d" :> {} @@ "d/f" :> {"d"}
MCRank == "d" :> 1 @@ "d/f" :> 2

ShapeOf(c) == [kind |-> "file", data |-> c]
Tree(d, f) == "d" :> d @@ "d/f" :> f
ADirectory == [kind |-> "directory", data |-> <<>>]

MCTrees ==
    {Tree(s, Nothing) : s \in {Nothing, ADirectory} \cup {ShapeOf(c) : c \in MCContents}}
    \cup {Tree(ADirectory, ShapeOf(c)) : c \in MCContents}

RowOf(s) ==
    CASE s.kind = "absent" -> NoEntry
      [] s.kind = "directory" -> [NoEntry EXCEPT !.kind = "directory"]
      [] s.kind = "file" -> [kind |-> "file", mode |-> "r", hash |-> s.data, blocks |-> s.data]

\* Rows of two trees may be listed together, if the parents are.
MCManifests ==
    {m \in {[p \in MCPaths |-> RowOf(IF p = "d" THEN t[p] ELSE u[p])] : t, u \in MCTrees} :
        m["d/f"].kind = "none" \/ m["d"].kind # "none"}
============================================================================
