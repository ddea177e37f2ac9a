---------------------------- MODULE Fingerprint ----------------------------
(***************************************************************************)
(* fingerprint() of internal/store/files.go: read a file block by block    *)
(* through one open handle while other programs keep writing, and accept   *)
(* the bytes read only if size, modification time and the identity of the  *)
(* file behind the name are the same after the read as before it.          *)
(*                                                                         *)
(* Scan and Apply of the same package both treat a successful call as an   *)
(* atomic read of the file.  This module says when that is justified.      *)
(*                                                                         *)
(* A file is a sequence of blocks; a block stands for model.BlockSize      *)
(* bytes and is its own SHA-256 digest.                                    *)
(***************************************************************************)
EXTENDS Naturals, Sequences

CONSTANTS
    Block,         \* the possible contents of one block
    MaxBlocks,     \* bound: blocks in a file
    MaxWrites      \* bound: changes other programs make during the call

ASSUME FingerprintAssumption ==
    /\ MaxBlocks \in Nat
    /\ MaxWrites \in Nat

VARIABLES
    file,     \* blocks of the file behind the open handle
    mtime,    \* its modification time
    bound,    \* TRUE while the name still refers to that file (os.SameFile)
    pc,       \* control point of the call
    before,   \* size and modification time from the first Stat
    buf,      \* blocks read and hashed so far
    writes,   \* ghost: number of changes made by other programs
    seen,     \* ghost: every content the file had since it was opened
    masked    \* ghost: a write left the modification time of the first Stat

ghosts == <<writes, seen, masked>>
vars == <<file, mtime, bound, pc, before, buf, ghosts>>

Content == UNION {[1..n -> Block] : n \in 0..MaxBlocks}

Stamp == [size : 0..MaxBlocks, mtime : 0..MaxWrites]

TypeOK ==
    /\ file \in Content
    /\ mtime \in 0..MaxWrites
    /\ bound \in BOOLEAN
    /\ pc \in {"open", "stat", "read", "restat", "lstat", "ok", "failed"}
    /\ before \in Stamp
    /\ buf \in Seq(Block)
    /\ writes \in 0..MaxWrites
    /\ seen \subseteq Content
    /\ masked \in BOOLEAN

Init ==
    /\ file \in Content
    /\ mtime = 0
    /\ bound = TRUE
    /\ pc = "open"
    /\ before = [size |-> 0, mtime |-> 0]
    /\ buf = <<>>
    /\ writes = 0
    /\ seen = {}
    /\ masked = FALSE

----------------------------------------------------------------------------
(* The call.                                                               *)

\* checkComponents and r.Open: from here on the handle pins the file.
Open ==
    /\ pc = "open"
    /\ pc' = "stat"
    /\ seen' = {file}
    /\ UNCHANGED <<file, mtime, bound, before, buf, writes, masked>>

\* before, err := f.Stat()
StatBefore ==
    /\ pc = "stat"
    /\ before' = [size |-> Len(file), mtime |-> mtime]
    /\ pc' = "read"
    /\ UNCHANGED <<file, mtime, bound, buf, ghosts>>

\* One turn of the loop: io.ReadFull of the next block, append its digest.
\* The loop is bounded by the size that the first Stat returned.
ReadNext ==
    /\ pc = "read"
    /\ Len(buf) < before.size
    /\ Len(buf) < Len(file)
    /\ buf' = Append(buf, file[Len(buf) + 1])
    /\ UNCHANGED <<file, mtime, bound, pc, before, ghosts>>

\* Variant of ReadShort that waits for the missing bytes.
ReadShortWaits ==
    /\ pc = "read"
    /\ Len(buf) < before.size
    /\ Len(buf) >= Len(file)
    /\ UNCHANGED vars

\* io.ReadFull meets the end of a file that has shrunk.
ReadShort ==
    /\ pc = "read"
    /\ Len(buf) < before.size
    /\ Len(buf) >= Len(file)
    /\ pc' = "failed"
    /\ UNCHANGED <<file, mtime, bound, before, buf, ghosts>>

ReadDone ==
    /\ pc = "read"
    /\ Len(buf) = before.size
    /\ pc' = "restat"
    /\ UNCHANGED <<file, mtime, bound, before, buf, ghosts>>

\* Variant of Unchanged that compares the size only.
UnchangedIgnoringTime == before.size = Len(file)

Unchanged == before.size = Len(file) /\ before.mtime = mtime

\* after, err := f.Stat(), compared with before.
StatAfter ==
    /\ pc = "restat"
    /\ pc' = IF Unchanged THEN "lstat" ELSE "failed"
    /\ UNCHANGED <<file, mtime, bound, before, buf, ghosts>>

\* current, err := r.Lstat(name), compared with before by os.SameFile.
Lstat ==
    /\ pc = "lstat"
    /\ pc' = IF bound THEN "ok" ELSE "failed"
    /\ UNCHANGED <<file, mtime, bound, before, buf, ghosts>>

\* ctx.Err() or an I/O error ends the call at any step.
Interrupted ==
    /\ pc \in {"open", "stat", "read", "restat", "lstat"}
    /\ pc' = "failed"
    /\ UNCHANGED <<file, mtime, bound, before, buf, ghosts>>

----------------------------------------------------------------------------
(* Other programs.                                                         *)

\* A write through any handle: blocks change in place, the file grows or
\* shrinks.  The modification time moves on, or stays (two writes in one
\* clock tick, data copied after the time was stamped), or is put back.
Write ==
    /\ writes < MaxWrites
    /\ pc \notin {"ok", "failed"}
    /\ writes' = writes + 1
    /\ file' \in Content \ {file}
    /\ mtime' \in 0..MaxWrites
    /\ seen' = IF pc = "open" THEN seen ELSE seen \cup {file'}
    /\ masked' = (masked \/ (pc \in {"read", "restat"} /\ mtime' = before.mtime))
    /\ UNCHANGED <<bound, pc, before, buf>>

\* The name is renamed away, deleted, or replaced by another file.
Unbind ==
    /\ writes < MaxWrites
    /\ pc \notin {"open", "ok", "failed"}
    /\ bound
    /\ writes' = writes + 1
    /\ bound' = FALSE
    /\ UNCHANGED <<file, mtime, pc, before, buf, seen, masked>>

----------------------------------------------------------------------------
Reader == Open \/ StatBefore \/ ReadNext \/ ReadShort \/ ReadDone \/ StatAfter \/ Lstat

Next == Reader \/ Interrupted \/ Write \/ Unbind

Spec == Init /\ [][Next]_vars

FairSpec == Spec /\ WF_vars(Reader)

----------------------------------------------------------------------------
(* Properties.                                                             *)

\* A successful fingerprint names a content the file really had at one moment
\* of the call: no mixture of blocks from before and after a write is ever
\* hashed into an accepted entry (files.go, the comparison that ends
\* fingerprint, and the "unstable file" of Scan's comment).  It can be misled
\* by one thing only: a write that leaves the modification time as the first
\* Stat found it.
WholeRead == (pc = "ok" /\ ~masked) => buf \in seen

\* The call gives an answer however the file changes under it: the loop is
\* bounded by the size of the first Stat, so a file that keeps growing cannot
\* hold the store's mutex for ever.
Answers == <>(pc \in {"ok", "failed"})

(* Why WholeRead holds: as long as the modification time is the one of the
   first Stat and no write put it there, nothing was written since, so the
   blocks read so far are a prefix of the file as it is now; and the file as
   it is now has been seen. *)
PrefixWhileUnstamped ==
    (pc \in {"read", "restat"} /\ mtime = before.mtime /\ ~masked) =>
        /\ before.size = Len(file)
        /\ Len(buf) <= Len(file)
        /\ \A i \in 1..Len(buf) : buf[i] = file[i]

ReadInv ==
    /\ TypeOK
    /\ pc \in {"stat", "read", "restat", "lstat", "ok"} => file \in seen
    /\ pc = "restat" => Len(buf) = before.size
    /\ pc \in {"open", "stat"} => buf = <<>>
    /\ PrefixWhileUnstamped
    /\ (pc \in {"lstat", "ok"} /\ ~masked) => buf \in seen
============================================================================
