------------------------- MODULE FingerprintProofs -------------------------
(* A successful fingerprint is an atomic read, for every block alphabet,   *)
(* file size and number of concurrent writes, unless a write leaves the    *)
(* modification time as the call found it.                                 *)
EXTENDS Fingerprint, TLAPS

\* A content is a sequence of at most MaxBlocks blocks.
LEMMA ContentLemma ==
    ASSUME NEW c \in Content
    PROVE  /\ c \in Seq(Block)
           /\ Len(c) \in 0..MaxBlocks
           /\ c \in [1..Len(c) -> Block]
<1>1. PICK n \in 0..MaxBlocks : c \in [1..n -> Block]
  BY DEF Content
<1>2. n \in Nat
  BY FingerprintAssumption
<1>. QED
  BY <1>1, <1>2

\* ReadInv is kept by every step of the call and of the other programs.
LEMMA ReadInvStep ==
    ASSUME ReadInv, [Next]_vars
    PROVE  ReadInv'
<1>. USE FingerprintAssumption
<1>0. /\ file \in Seq(Block)
      /\ Len(file) \in 0..MaxBlocks
      /\ file \in [1..Len(file) -> Block]
      /\ MaxBlocks \in Nat
      /\ Len(buf) \in Nat
  BY ContentLemma DEF ReadInv, TypeOK
<1>1. CASE Open
  BY <1>0, <1>1 DEF Open, ghosts, ReadInv, TypeOK, PrefixWhileUnstamped
<1>2. CASE StatBefore
  <2>1. TypeOK'
    BY <1>0, <1>2 DEF StatBefore, ghosts, ReadInv, TypeOK, Stamp
  <2>2. PrefixWhileUnstamped'
    BY <1>0, <1>2 DEF StatBefore, ghosts, ReadInv, TypeOK, PrefixWhileUnstamped
  <2>3. QED
    BY <1>2, <2>1, <2>2 DEF StatBefore, ghosts, ReadInv, TypeOK
<1>3. CASE ReadNext
  <2>1. file[Len(buf) + 1] \in Block
    BY <1>0, <1>3 DEF ReadNext
  <2>2. /\ buf' \in Seq(Block)
        /\ Len(buf') = Len(buf) + 1
        /\ \A i \in 1..Len(buf) : buf'[i] = buf[i]
        /\ buf'[Len(buf) + 1] = file[Len(buf) + 1]
    BY <2>1, <1>0, <1>3 DEF ReadNext, ghosts, ReadInv, TypeOK
  <2>3. TypeOK'
    BY <2>2, <1>3 DEF ReadNext, ghosts, ReadInv, TypeOK
  <2>4. PrefixWhileUnstamped'
    BY <2>2, <1>0, <1>3 DEF ReadNext, ghosts, ReadInv, PrefixWhileUnstamped
  <2>5. QED
    BY <2>3, <2>4, <1>3 DEF ReadNext, ghosts, ReadInv
<1>4. CASE ReadShort
  BY <1>4 DEF ReadShort, ghosts, ReadInv, TypeOK, PrefixWhileUnstamped
<1>5. CASE ReadDone
  BY <1>5 DEF ReadDone, ghosts, ReadInv, TypeOK, PrefixWhileUnstamped
<1>6. CASE StatAfter
  <2>1. (Unchanged /\ ~masked) => buf = file
    BY <1>0, <1>6 DEF StatAfter, Unchanged, ReadInv, TypeOK, PrefixWhileUnstamped
  <2>2. (pc' \in {"lstat", "ok"} /\ ~masked') => buf' \in seen'
    BY <2>1, <1>6 DEF StatAfter, ghosts, ReadInv
  <2>3. QED
    BY <2>2, <1>6 DEF StatAfter, ghosts, ReadInv, TypeOK, PrefixWhileUnstamped
<1>7. CASE Lstat
  BY <1>7 DEF Lstat, ghosts, ReadInv, TypeOK, PrefixWhileUnstamped
<1>8. CASE Interrupted
  BY <1>8 DEF Interrupted, ghosts, ReadInv, TypeOK, PrefixWhileUnstamped
<1>9. CASE Write
  <2>1. TypeOK'
    BY <1>9 DEF Write, ReadInv, TypeOK
  <2>2. PrefixWhileUnstamped'
    BY <1>9 DEF Write, PrefixWhileUnstamped
  <2>3. pc' \in {"stat", "read", "restat", "lstat", "ok"} => file' \in seen'
    BY <1>9 DEF Write
  <2>4. pc' = "restat" => Len(buf') = before'.size
    BY <1>9 DEF Write, ReadInv
  <2>5. /\ pc' \in {"open", "stat"} => buf' = <<>>
        /\ (pc' \in {"lstat", "ok"} /\ ~masked') => buf' \in seen'
    BY <1>9 DEF Write, ReadInv
  <2>6. QED
    BY <2>1, <2>2, <2>3, <2>4, <2>5 DEF ReadInv
<1>10. CASE Unbind
  <2>1. writes' \in 0..MaxWrites
    BY <1>10 DEF Unbind, ReadInv, TypeOK
  <2>2. TypeOK'
    BY <2>1, <1>10, Zenon DEF Unbind, ReadInv, TypeOK
  <2>3. PrefixWhileUnstamped'
    BY <1>10 DEF Unbind, ReadInv, PrefixWhileUnstamped
  <2>4. QED
    BY <2>2, <2>3, <1>10 DEF Unbind, ReadInv
<1>11. CASE UNCHANGED vars
  BY <1>11 DEF vars, ghosts, ReadInv, TypeOK, PrefixWhileUnstamped
<1>12. QED
  BY <1>1, <1>2, <1>3, <1>4, <1>5, <1>6, <1>7, <1>8, <1>9, <1>10, <1>11 DEF Next, Reader

\* ReadInv holds in every state: the blocks read are a prefix of the file as
\* long as its modification time is the one the first Stat returned and no
\* write put it back there.
THEOREM ReadInvHolds == Spec => []ReadInv
<1>1. Init => ReadInv
  <2>1. Init => TypeOK
    <3>1. /\ [size |-> 0, mtime |-> 0] \in Stamp /\ 0 \in 0..MaxWrites
          /\ <<>> \in Seq(Block) /\ {} \subseteq Content
      BY FingerprintAssumption DEF Stamp
    <3>2. QED
      BY <3>1, Zenon DEF Init, TypeOK
  <2>2. QED
    BY <2>1 DEF Init, ReadInv, PrefixWhileUnstamped
<1>2. ReadInv /\ [Next]_vars => ReadInv'
  BY ReadInvStep
<1>3. QED
  BY <1>1, <1>2, PTL DEF Spec

\* A successful fingerprint (files.go, fingerprint) returns a content that the
\* file had at one moment of the call, unless a write left the modification
\* time as the call found it.
THEOREM WholeReadHolds == Spec => []WholeRead
<1>1. ReadInv => WholeRead
  BY DEF ReadInv, WholeRead
<1>2. QED
  BY <1>1, ReadInvHolds, PTL
============================================================================
