------------------------------- MODULE Source -------------------------------
(***************************************************************************)
(* What a source promises its receivers, however it scans: the index it    *)
(* publishes says of every path something that was true at a moment of one *)
(* scan, not of the same moment for every path, and lists a path only      *)
(* together with the directories above it.                                 *)
(*                                                                         *)
(* SourceScan implements this specification; FolderSync builds on it.      *)
(***************************************************************************)
EXTENDS Folder

VARIABLES
    tree,     \* the shape of the object at each path
    index,    \* the rows that List answers with
    window    \* the shapes each path had since the scan began, if one runs

vars == <<tree, index, window>>

NoScan == [p \in Paths |-> {}]

Init ==
    /\ tree \in [Paths -> Shapes]
    /\ index = NoManifest
    /\ window = NoScan

\* A scan begins; a scan ends without a result.
Begin ==
    /\ window = NoScan
    /\ window' = [p \in Paths |-> {tree[p]}]
    /\ UNCHANGED <<tree, index>>

Fail ==
    /\ window' = NoScan
    /\ UNCHANGED <<tree, index>>

\* Another program changes the tree.
Change ==
    /\ tree' \in [Paths -> Shapes]
    /\ window' = IF window = NoScan THEN NoScan
                 ELSE [p \in Paths |-> window[p] \cup {tree'[p]}]
    /\ UNCHANGED index

\* The rows that can stand for an object of shape s; there are none for a
\* symbolic link or a special file.
RowsFor(s) ==
    CASE s.kind = "absent" -> {NoEntry}
      [] s.kind = "directory" -> {[NoEntry EXCEPT !.kind = "directory"]}
      [] s.kind = "file" -> [kind : {"file"}, mode : Modes, hash : {s.data}, blocks : {s.data}]
      [] s.kind = "other" -> {}

\* Variant of Readable: a file rewritten while it is read yields blocks of both.
ReadableTorn(p) ==
    window[p] \cup
    {[s EXCEPT !.data = [i \in 1..Len(s.data) |-> IF i = 1 THEN t.data[1] ELSE s.data[i]]] :
        s, t \in {u \in window[p] : u.data # <<>>}}

\* What a scan may find at a path: a whole object that was there.
Readable(p) == window[p]

Listable == UNION {RowsFor(s) : s \in UNION {Readable(p) : p \in Paths}}

Regular ==
    {m \in [Paths -> Listable] :
        \A p \in Paths :
            /\ Claim(m[p]) \in Readable(p)
            /\ m[p].kind # "none" => \A d \in Above[p] : m[d].kind # "none"}

\* A scan replaces the index; it ends with that or soon after.
Publish ==
    /\ window # NoScan
    /\ index' \in Regular
    /\ window' \in {window, NoScan}
    /\ UNCHANGED tree

Next == Begin \/ Fail \/ Change \/ Publish

Spec == Init /\ [][Next]_vars
============================================================================
