------------------------------- MODULE Config -------------------------------
(***************************************************************************)
(* internal/config: Parse reads sections and keys line by line, Validate   *)
(* looks at the whole, and the paths it accepts are later opened by name.  *)
(*                                                                         *)
(* A line is what its text means: a section header, a key with a value, or *)
(* something Parse refuses.  An absolute path is the sequence of its       *)
(* components; in a raw one ".." may occur.                                *)
(***************************************************************************)
EXTENDS Naturals, FiniteSets, SequencesExt

CONSTANTS
    Peers, Folders,        \* names that occur in headers
    Values,                \* Values[key]: the values that occur for a key
    FileSystems,           \* the file systems the program may run on
    MaxPeers, MaxFolders,  \* 32 and 128
    MaxLines               \* bound: lines other than comments

Paths == Seq(STRING)

\* An absolute path is a sequence of names, and no identity is "this device".
ASSUME ValueAssumption ==
    /\ \A k \in DOMAIN Values \cap {"state_dir", "path"} : Values[k] \subseteq Paths
    /\ "device_id" \in DOMAIN Values => "this device" \notin Values["device_id"]

\* A link lies in a directory and leads to a place.
ASSUME FileSystemAssumption ==
    \A x \in FileSystems :
        /\ DOMAIN x.links \subseteq Paths \ {<<>>}
        /\ \A l \in DOMAIN x.links : x.links[l] \in Paths /\ Front(l) \in x.dirs

Local == "local"
Unset == "unset"

Sections == {<<"service", "">>} \cup ({"peer"} \X Peers) \cup ({"folder"} \X Folders)
NoSection == <<"", "">>

KeysOf(kind) ==
    CASE kind = "service" -> {"listen", "state_dir", "scan_interval"}
      [] kind = "peer" -> {"address", "device_id"}
      [] kind = "folder" -> {"path", "source", "peers"}
      [] kind = "" -> {}

Fields == UNION {{s} \X KeysOf(s[1]) : s \in Sections}

VARIABLES
    fs,        \* directories, and where symbolic links lead
    section,   \* kind and name of the section being read
    sections,  \* headers met so far
    keys,      \* qualified keys met so far
    conf,      \* the Config being filled in: a value for every field
    verdict,   \* "reading", or what Parse returns
    said       \* ghost: every assignment met so far

parsing == <<fs, section, sections, keys, conf, verdict, said>>

Default(f) ==
    CASE f[2] = "listen" -> "valid"
      [] f[2] = "scan_interval" -> "valid"
      [] f[2] = "peers" -> <<>>
      [] OTHER -> Unset

ParseInit ==
    /\ fs \in FileSystems
    /\ section = NoSection
    /\ sections = {}
    /\ keys = {}
    /\ conf = [f \in Fields |-> Default(f)]
    /\ verdict = "reading"
    /\ said = {}

----------------------------------------------------------------------------
(* Parse.                                                                  *)

Lines == Cardinality(sections) + Cardinality(said)

\* return Config{}, err: what was read is dropped.  The line is a malformed,
\* unknown or repeated header or key, a key outside a section, a broken quote
\* or a bad duration.
Refuse ==
    /\ verdict' = "error"
    /\ section' = NoSection /\ sections' = {} /\ keys' = {} /\ said' = {}
    /\ conf' = [f \in Fields |-> Default(f)]
    /\ UNCHANGED fs

\* Variant of Repeated that lets a section be opened again.
RepeatedNever(s) == FALSE

Repeated(s) == s \in sections

\* A header: the section starts with the default of every field.
ReadHeader(s) ==
    /\ verdict = "reading" /\ Lines < MaxLines
    /\ \/ Repeated(s) /\ Refuse
       \/ /\ ~Repeated(s)
          /\ section' = s
          /\ sections' = sections \cup {s}
          /\ conf' = [f \in Fields |->
                        IF f[1] = s /\ s[1] # "service" THEN Default(f) ELSE conf[f]]
          /\ UNCHANGED <<fs, keys, verdict, said>>

\* key = value
ReadKey(k, v) ==
    /\ verdict = "reading" /\ Lines < MaxLines
    /\ \/ (k \notin KeysOf(section[1]) \/ <<section, k>> \in keys) /\ Refuse
       \/ /\ k \in KeysOf(section[1]) /\ <<section, k>> \notin keys
          /\ keys' = keys \cup {<<section, k>>}
          /\ conf' = [conf EXCEPT ![<<section, k>>] = v]
          /\ said' = said \cup {<<<<section, k>>, v>>}
          /\ UNCHANGED <<fs, section, sections, verdict>>

\* Any other line, or a line longer than the buffer.
ReadOther == verdict = "reading" /\ Refuse

----------------------------------------------------------------------------
(* Paths.                                                                  *)

\* filepath.Clean: ".." takes back the component before it, whatever it is.
CleanStep(path, c) ==
    IF c # ".." THEN Append(path, c) ELSE IF path = <<>> THEN <<>> ELSE Front(path)

Clean(raw) ==
    LET at[n \in 0..Len(raw)] == IF n = 0 THEN <<>> ELSE CleanStep(at[n - 1], raw[n])
    IN  at[Len(raw)]

\* The kernel follows a path: a link is left for its target, and ".." takes
\* back a component of the place reached.  What is missing is as MkdirAll
\* makes it.
WalkStep(at, c) ==
    IF c # ".." /\ Append(at, c) \in DOMAIN fs.links THEN fs.links[Append(at, c)]
    ELSE CleanStep(at, c)

Walk(raw) ==
    LET at[n \in 0..Len(raw)] == IF n = 0 THEN <<>> ELSE WalkStep(at[n - 1], raw[n])
    IN  at[Len(raw)]

\* os.Lstat succeeds: a link counts, whatever it leads to.
Present(path) ==
    \/ path = <<>>
    \/ LET at == Append(Walk(Front(path)), Last(path))
       IN  Walk(Front(path)) \in fs.dirs /\ at \in fs.dirs \cup DOMAIN fs.links

\* No clean path: the error of EvalSymlinks.
Failed == <<"..">>

\* filepath.EvalSymlinks; it fails on a link that leads nowhere.
EvalSymlinks(path) == IF Walk(path) \in fs.dirs THEN Walk(path) ELSE Failed

\* Variant of CanonicalPath that resolves only paths that exist.
CanonicalPathExisting(path) == IF Present(path) THEN EvalSymlinks(path) ELSE path

\* canonicalPath: the longest prefix that exists is resolved, the rest is
\* joined to it as it is written.
CanonicalStep(parent, path) ==
    IF Present(path) THEN EvalSymlinks(path)
    ELSE IF parent = Failed THEN Failed ELSE Append(parent, Last(path))

CanonicalPath(path) ==
    LET at[n \in 0..Len(path)] ==
          IF n = 0 THEN EvalSymlinks(<<>>) ELSE CanonicalStep(at[n - 1], SubSeq(path, 1, n))
    IN  at[Len(path)]

\* containsPath, one way or the other.
Overlap(p, q) == IsPrefix(p, q) \/ IsPrefix(q, p)

----------------------------------------------------------------------------
(* Validate.                                                               *)

ThePeers == {p \in Peers : <<"peer", p>> \in sections}
TheFolders == {d \in Folders : <<"folder", d>> \in sections}

PeerField(p, k) == conf[<<<<"peer", p>>, k>>]
FolderField(d, k) == conf[<<<<"folder", d>>, k>>]
ServiceField(k) == conf[<<<<"service", "">>, k>>]

ServiceValid ==
    /\ ServiceField("listen") = "valid"
    /\ ServiceField("scan_interval") = "valid"
    /\ Cardinality(ThePeers) <= MaxPeers
    /\ Cardinality(TheFolders) <= MaxFolders

\* Variant of Reserved that reserves no name.
ReservedNone(p) == FALSE

\* The name "local" stands for this device in a folder's source.
Reserved(p) == p = Local

PeersValid ==
    /\ \A p \in ThePeers :
        /\ ~Reserved(p)
        /\ PeerField(p, "address") = "valid"
        /\ PeerField(p, "device_id") \notin {Unset, "invalid"}
    /\ \A p, q \in ThePeers : p # q => PeerField(p, "device_id") # PeerField(q, "device_id")

FoldersValid ==
    \A d \in TheFolders :
        LET listed == FolderField(d, "peers")
            named == {listed[i] : i \in DOMAIN listed}
        IN  /\ named \subseteq ThePeers
            /\ Cardinality(named) = Len(listed)
            /\ FolderField(d, "source") \in named \cup {Local}

\* The fields that hold a path; the roots of the program.
Roots == {<<<<"service", "">>, "state_dir">>} \cup {<<<<"folder", d>>, "path">> : d \in TheFolders}

\* "" is not an absolute path, and a link that leads nowhere is an error.
Resolved(f) == conf[f] # Unset /\ CanonicalPath(Clean(conf[f])) # Failed

Collide(f, g) ==
    /\ f # g /\ Resolved(f) /\ Resolved(g)
    /\ Overlap(CanonicalPath(Clean(conf[f])), CanonicalPath(Clean(conf[g])))

\* The end of the file: Validate, whose loops run over maps in any order, so
\* that of several errors any may be the one returned.  The error of an overlap
\* drops the configuration like the others; it is kept here to be looked at.
Validate ==
    /\ verdict = "reading"
    /\ \/ ~(ServiceValid /\ PeersValid /\ FoldersValid) /\ Refuse
       \/ /\ ServiceValid /\ PeersValid /\ FoldersValid
          /\ \E f \in Roots : ~Resolved(f)
          /\ Refuse
       \/ /\ ServiceValid /\ PeersValid /\ FoldersValid
          /\ \/ (\E f, g \in Roots : Collide(f, g)) /\ verdict' = "overlap"
             \/ /\ \A f \in Roots : Resolved(f)
                /\ \A f, g \in Roots : ~Collide(f, g)
                /\ verdict' = "ok"
          /\ UNCHANGED <<fs, section, sections, keys, conf, said>>

----------------------------------------------------------------------------
ParseNext ==
    \/ \E s \in Sections : ReadHeader(s)
    \/ \E k \in DOMAIN Values : \E v \in Values[k] : ReadKey(k, v)
    \/ ReadOther
    \/ Validate

ParseSpec == ParseInit /\ [][ParseNext]_parsing

----------------------------------------------------------------------------
(* Properties.                                                             *)

\* The configuration says what the file says, whatever the order of its lines:
\* no assignment is lost to a later line or to a section opened again, none is
\* filed under another section, and what is not said has its default.
Faithful ==
    \A f \in Fields :
        \/ \E a \in said : a[1] = f /\ conf[f] = a[2] /\ \A b \in said : b[1] = f => b = a
        \/ conf[f] = Default(f) /\ \A a \in said : a[1] # f

\* A ".." of the raw path is taken of the place a link leads to.
LeavesLink(raw) ==
    \E n \in 1..Len(raw) :
        raw[n] = ".." /\ Walk(SubSeq(raw, 1, n)) # Walk(Clean(SubSeq(raw, 1, n)))

Direct(f) == conf[f] # Unset /\ ~LeavesLink(conf[f])

\* No two roots of an accepted configuration share a place, on this file
\* system and with the directories that are created later, and none is refused
\* for an overlap that is none: "a symlink must not conceal overlapping roots"
\* (config.go, canonicalPath).  Exempt is a path with a ".." behind a link:
\* Clean and the kernel disagree about it.
RootsApart ==
    /\ verdict = "ok" =>
        \A f, g \in Roots :
            (f # g /\ Direct(f) /\ Direct(g)) => ~Overlap(Walk(conf[f]), Walk(conf[g]))
    /\ verdict = "overlap" =>
        \E f, g \in Roots :
            f # g /\ (~Direct(f) \/ ~Direct(g) \/ Overlap(Walk(conf[f]), Walk(conf[g])))

\* The devices that may write a folder: this one, and the peers whose
\* certificate is pinned under the name the folder gives as its source.
Writers(d) ==
    {"this device" : x \in {Local} \cap {FolderField(d, "source")}}
    \cup {PeerField(p, "device_id") : p \in {FolderField(d, "source")} \cap ThePeers}

\* An accepted configuration gives every folder exactly one writer, and that
\* device is no other peer under a second name: single-writer-v1.
OneWriter ==
    verdict = "ok" =>
        \A d \in TheFolders :
            /\ Cardinality(Writers(d)) = 1
            /\ \A p \in ThePeers \ {FolderField(d, "source")} :
                   PeerField(p, "device_id") \notin Writers(d)

----------------------------------------------------------------------------
(* The inductive invariants behind them.                                   *)

\* A key is met once, and under a section that was opened.
ReadInv ==
    /\ fs \in FileSystems
    /\ DOMAIN conf = Fields
    /\ sections \subseteq Sections
    /\ section \in sections \cup {NoSection}
    /\ keys = {a[1] : a \in said}
    /\ \A f \in keys : f[1] \in sections
    /\ \A f \in Fields : conf[f] = Default(f) \/ (f[2] \in DOMAIN Values /\ conf[f] \in Values[f[2]])

\* What Validate found stays true: nothing is read after it.
VerdictInv ==
    /\ verdict = "ok" =>
           /\ PeersValid /\ FoldersValid
           /\ \A f \in Roots : Resolved(f)
           /\ \A f, g \in Roots : ~Collide(f, g)
    /\ verdict = "overlap" => \E f, g \in Roots : Collide(f, g)

ParseInv == ReadInv /\ Faithful /\ VerdictInv
============================================================================
