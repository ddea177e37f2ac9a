--------------------------- MODULE MCSourceScan ---------------------------
(* An instance of SourceScan for TLC: a directory d, a file d/f in it and a file
   g beside it, each of which can also be of another kind, so that kinds change
   under the walk; the index has room for two of the three. *)
EXTENDS SourceScan, TLC

MCBlock == {"x", "y"}
MCContents == {<<"x">>, <<"y">>}
MCModes == {"r"}
MCPaths == {"d", "d/f", "g"}
MCAbove == "d" :> {} @@ "d/f" :> {"d"} @@ "g" :> {}
MCRank == "d" :> 1 @@ "d/f" :> 2 @@ "g" :> 3
============================================================================
