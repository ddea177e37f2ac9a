---------------------------- MODULE StartupProofs ----------------------------
(***************************************************************************)
(* Proofs about what happens before the daemon runs: the configuration is  *)
(* read and validated (Config), and the identity and the markers of the    *)
(* folders are made (Provision).                                           *)
(***************************************************************************)
EXTENDS Config, Provision, FiniteSetTheorems, SequenceTheorems, TLAPS

\* Induction for lengths: every set of numbers has a least element.  It comes
\* from the order of finite sets, of which the intervals below a number are.
LEMMA Least ==
  ASSUME NEW S \in SUBSET Nat, S # {}
  PROVE  \E m \in S : \A k \in S : m <= k
<1>. DEFINE T == {0..k : k \in S}
<1>1. T \subseteq FiniteSubsetsOf(Nat) /\ T # {}
  <2>1. ASSUME NEW k \in S PROVE 0..k \in FiniteSubsetsOf(Nat)
    <3>1. IsFiniteSet(0..k)
      BY FS_Interval
    <3>2. 0..k \in SUBSET Nat
      OBVIOUS
    <3>3. QED
      BY <3>1, <3>2 DEF FiniteSubsetsOf
  <2>2. QED
    BY <2>1
<1>2. IsWellFoundedOn(StrictSubsetOrdering(Nat), FiniteSubsetsOf(Nat))
  BY FS_StrictSubsetOrderingWellFounded
<1>3. \E x \in T : \A y \in T : ~(<<y, x>> \in StrictSubsetOrdering(Nat))
  <2>. HIDE DEF T
  <2>1. QED
    BY <1>1, <1>2, WFMin
<1>4. PICK m \in S : \A y \in T : ~(<<y, 0..m>> \in StrictSubsetOrdering(Nat))
  BY <1>3
<1>5. ASSUME NEW k \in S, ~(m <= k) PROVE FALSE
  <2>1. 0..k \subseteq 0..m /\ m \in 0..m /\ m \notin 0..k
    BY <1>5
  <2>2. 0..k \in SUBSET Nat /\ 0..m \in SUBSET Nat /\ 0..k # 0..m
    BY <2>1
  <2>3. <<0..k, 0..m>> \in StrictSubsetOrdering(Nat)
    BY <2>1, <2>2 DEF StrictSubsetOrdering
  <2>4. QED
    BY <2>3, <1>4
<1>6. QED
  BY <1>5

\* A process of N steps from x.
Process(g, x, step, N) == g[0] = x /\ \A n \in 1..N : g[n] = step[<<g[n - 1], n>>]

\* A process whose steps stay in X runs to its end.
LEMMA Iterates ==
  ASSUME NEW X, NEW x \in X, NEW N \in Nat, NEW step \in [X \X (1..N) -> X]
  PROVE  \E g \in [0..N -> X] : Process(g, x, step, N)
<1>. DEFINE Runs(k) == \E g \in [0..k -> X] :
                 g[0] = x /\ \A n \in 1..k : g[n] = step[<<g[n - 1], n>>]
            S == {k \in 0..N : ~Runs(k)}
<1>1. Runs(0)
  <2>1. [n \in 0..0 |-> x] \in [0..0 -> X] /\ [n \in 0..0 |-> x][0] = x
    OBVIOUS
  <2>2. 1..0 = {}
    OBVIOUS
  <2>3. QED
    BY <2>1, <2>2
<1>2. ASSUME NEW k \in 0..N, k < N, Runs(k) PROVE Runs(k + 1)
  <2>1. PICK g \in [0..k -> X] : g[0] = x /\ \A n \in 1..k : g[n] = step[<<g[n - 1], n>>]
    BY <1>2
  <2>. DEFINE h == [n \in 0..(k + 1) |-> IF n <= k THEN g[n] ELSE step[<<g[k], k + 1>>]]
  <2>2. step[<<g[k], k + 1>>] \in X
    BY <1>2
  <2>3. h \in [0..(k + 1) -> X]
    BY <2>2
  <2>4. h[0] = x
    BY <2>1
  <2>5. ASSUME NEW n \in 1..(k + 1) PROVE h[n] = step[<<h[n - 1], n>>]
    <3>1. CASE n <= k
      BY <3>1, <2>1
    <3>2. CASE n = k + 1
      <4>1. n - 1 = k /\ k \in 0..(k + 1) /\ n \in 0..(k + 1) /\ ~(n <= k) /\ k <= k
        BY <3>2
      <4>2. h[n] = step[<<g[k], k + 1>>] /\ h[n - 1] = g[k]
        BY <4>1
      <4>3. QED
        BY <3>2, <4>2
    <3>3. QED
      BY <3>1, <3>2
  <2>6. QED
    BY <2>3, <2>4, <2>5
<1>. HIDE DEF Runs
<1>3. S = {}
  <2>1. SUFFICES ASSUME S # {} PROVE FALSE
    OBVIOUS
  <2>2. PICK m \in S : \A k \in S : m <= k
    <3>1. S \in SUBSET Nat
      OBVIOUS
    <3>. HIDE DEF S
    <3>2. QED
      BY <2>1, <3>1, Least
  <2>3. m # 0
    BY <1>1
  <2>4. m - 1 \in 0..N /\ m - 1 < N /\ ~(m <= m - 1)
    BY <2>3
  <2>5. Runs(m - 1)
    BY <2>2, <2>4
  <2>6. Runs(m - 1 + 1)
    BY <1>2, <2>4, <2>5
  <2>7. m - 1 + 1 = m
    OBVIOUS
  <2>8. QED
    BY <2>6, <2>7
<1>4. Runs(N)
  BY <1>3
<1>5. QED
  BY <1>4 DEF Runs, Process

\* Two processes start alike, and take each step alike.
StepAlike(g, h, N) == g[0] = h[0] /\ \A n \in 1..N : g[n - 1] = h[n - 1] => g[n] = h[n]

\* Such processes are alike.
LEMMA Alike ==
  ASSUME NEW N \in Nat, NEW g, NEW h, StepAlike(g, h, N)
  PROVE  \A n \in 0..N : g[n] = h[n]
<1>. DEFINE S == {n \in 0..N : g[n] # h[n]}
<1>1. SUFFICES ASSUME S # {} PROVE FALSE
  OBVIOUS
<1>2. PICK m \in S : \A k \in S : m <= k
  <2>1. S \in SUBSET Nat
    OBVIOUS
  <2>. HIDE DEF S
  <2>2. QED
    BY <1>1, <2>1, Least
<1>3. m \in 1..N /\ m - 1 \in 0..N /\ ~(m <= m - 1)
  BY DEF StepAlike
<1>4. g[m - 1] = h[m - 1]
  BY <1>2, <1>3
<1>5. QED
  BY <1>3, <1>4 DEF StepAlike

----------------------------------------------------------------------------
(* Paths grow by a component at their end.                                 *)

\* The root is a path.
LEMMA EmptyPath == <<>> \in Paths /\ Len(<<>>) = 0
BY DEF Paths

\* A path has a length, names at its positions, and prefixes that are paths.
LEMMA PathType ==
  ASSUME NEW p \in Paths
  PROVE  /\ Len(p) \in Nat
         /\ \A n \in 1..Len(p) : p[n] \in STRING
         /\ \A n \in 0..Len(p) : SubSeq(p, 1, n) \in Paths
BY DEF Paths

\* A sequence with one more element at its end: its length, elements,
\* prefixes, Front and Last.
LEMMA SeqLonger ==
  ASSUME NEW S, NEW p \in Seq(S), NEW c \in S
  PROVE  /\ Append(p, c) \in Seq(S)
         /\ Len(Append(p, c)) = Len(p) + 1
         /\ \A n \in 1..Len(p) : Append(p, c)[n] = p[n]
         /\ Append(p, c)[Len(p) + 1] = c
         /\ Append(p, c) # <<>>
         /\ \A n \in 0..Len(p) : SubSeq(Append(p, c), 1, n) = SubSeq(p, 1, n)
         /\ SubSeq(Append(p, c), 1, Len(p) + 1) = Append(p, c)
         /\ SubSeq(p, 1, Len(p)) = p
         /\ Front(Append(p, c)) = p
         /\ Last(Append(p, c)) = c
<1>. DEFINE q == Append(p, c)
<1>1. p \in Seq(S) /\ Len(p) \in Nat
  OBVIOUS
<1>2. /\ q \in Seq(S) /\ q # <<>> /\ Len(q) = Len(p) + 1
      /\ \A n \in 1..Len(p) : q[n] = p[n]
      /\ q[Len(p) + 1] = c
  BY <1>1, AppendProperties
<1>. HIDE DEF q
<1>3. ASSUME NEW n \in 0..Len(p) PROVE SubSeq(q, 1, n) = SubSeq(p, 1, n)
  <2>1. \A i \in 1..n : q[i] \in S /\ p[i] \in S /\ q[i] = p[i]
    BY <1>1, <1>2
  <2>2. n \in Int /\ 1 \in Int /\ n - 1 + 1 = n
    BY <1>1
  <2>3. /\ SubSeq(q, 1, n) \in Seq(S)
        /\ Len(SubSeq(q, 1, n)) = IF 1 <= n THEN n - 1 + 1 ELSE 0
        /\ \A i \in 1..(n - 1 + 1) : SubSeq(q, 1, n)[i] = q[1 + i - 1]
    BY <2>1, <2>2, SubSeqProperties
  <2>4. /\ SubSeq(p, 1, n) \in Seq(S)
        /\ Len(SubSeq(p, 1, n)) = IF 1 <= n THEN n - 1 + 1 ELSE 0
        /\ \A i \in 1..(n - 1 + 1) : SubSeq(p, 1, n)[i] = p[1 + i - 1]
    BY <2>1, <2>2, SubSeqProperties
  <2>5. Len(SubSeq(q, 1, n)) = n /\ Len(SubSeq(p, 1, n)) = n
    BY <2>3, <2>4
  <2>6. \A i \in 1..n : SubSeq(q, 1, n)[i] = SubSeq(p, 1, n)[i]
    <3>1. \A i \in 1..n : 1 + i - 1 = i
      OBVIOUS
    <3>2. QED
      BY <2>1, <2>2, <2>3, <2>4, <3>1
  <2>7. QED
    BY <2>3, <2>4, <2>5, <2>6, SeqEqual
<1>4. SubSeq(q, 1, Len(q)) = q /\ SubSeq(p, 1, Len(p)) = p
  BY <1>1, <1>2, SubSeqFull
<1>5. Front(q) = p
  <2>1. Len(q) - 1 = Len(p) /\ Len(p) \in 0..Len(p)
    BY <1>1, <1>2
  <2>2. QED
    BY <2>1, <1>3, <1>4 DEF Front
<1>6. Last(q) = c
  BY <1>1, <1>2 DEF Last
<1>7. QED
  BY <1>1, <1>2, <1>3, <1>4, <1>5, <1>6 DEF q

\* The same of paths.
LEMMA Longer ==
  ASSUME NEW p \in Paths, NEW c \in STRING
  PROVE  /\ Append(p, c) \in Paths
         /\ Len(Append(p, c)) = Len(p) + 1
         /\ \A n \in 1..Len(p) : Append(p, c)[n] = p[n]
         /\ Append(p, c)[Len(p) + 1] = c
         /\ Append(p, c) # <<>>
         /\ \A n \in 0..Len(p) : SubSeq(Append(p, c), 1, n) = SubSeq(p, 1, n)
         /\ SubSeq(Append(p, c), 1, Len(p) + 1) = Append(p, c)
         /\ SubSeq(p, 1, Len(p)) = p
         /\ Front(Append(p, c)) = p
         /\ Last(Append(p, c)) = c
BY SeqLonger, Zenon DEF Paths

\* Every path but the root is a path and a component.
LEMMA Shorter ==
  ASSUME NEW p \in Paths, p # <<>>
  PROVE  \E q \in Paths, c \in STRING : p = Append(q, c) /\ Len(p) = Len(q) + 1
<1>1. PICK q \in Seq(STRING), c \in STRING : p = Append(q, c)
  BY SequenceEmptyOrAppend DEF Paths
<1>2. QED
  BY <1>1, Longer DEF Paths

\* Induction over paths.
LEMMA PathInduction ==
  ASSUME NEW S, <<>> \in S,
         \A p \in Paths : \A c \in STRING : p \in S => Append(p, c) \in S
  PROVE  Paths \subseteq S
<1>. DEFINE T == {Len(p) : p \in Paths \ S}
<1>1. SUFFICES ASSUME T # {} PROVE FALSE
  OBVIOUS
<1>2. PICK m \in T : \A k \in T : m <= k
  <2>1. T \in SUBSET Nat
    BY PathType
  <2>. HIDE DEF T
  <2>2. QED
    BY <1>1, <2>1, Least
<1>3. PICK p \in Paths \ S : m = Len(p)
  OBVIOUS
<1>4. PICK q \in Paths, c \in STRING : p = Append(q, c) /\ Len(p) = Len(q) + 1
  BY Shorter
<1>5. q \notin S
  BY <1>4
<1>6. Len(q) \in T /\ Len(q) \in Nat
  BY <1>5, PathType
<1>7. Len(q) + 1 <= Len(q)
  BY <1>2, <1>3, <1>4, <1>6
<1>8. QED
  BY <1>6, <1>7

----------------------------------------------------------------------------
(* Clean, Walk and CanonicalPath take a path component by component.       *)

\* The functions inside their definitions.
CleanAlong(g, raw) ==
    g = [n \in 0..Len(raw) |-> IF n = 0 THEN <<>> ELSE CleanStep(g[n - 1], raw[n])]
WalkAlong(g, raw) ==
    g = [n \in 0..Len(raw) |-> IF n = 0 THEN <<>> ELSE WalkStep(g[n - 1], raw[n])]
CanonicalAlong(g, path) ==
    g = [n \in 0..Len(path) |->
            IF n = 0 THEN EvalSymlinks(<<>>) ELSE CanonicalStep(g[n - 1], SubSeq(path, 1, n))]

\* A component leads from a path to a path.
LEMMA CleanStepType ==
  ASSUME NEW p \in Paths, NEW c \in STRING
  PROVE  CleanStep(p, c) \in Paths
<1>1. CASE p = <<>>
  BY <1>1, EmptyPath, Longer DEF CleanStep
<1>2. CASE p # <<>>
  <2>1. PICK q \in Paths, d \in STRING : p = Append(q, d)
    BY <1>2, Shorter
  <2>2. Front(p) \in Paths
    BY <2>1, Longer
  <2>3. QED
    BY <2>2, EmptyPath, Longer DEF CleanStep
<1>3. QED
  BY <1>1, <1>2

\* So it does for the kernel, since links lead to paths.
LEMMA WalkStepType ==
  ASSUME fs \in FileSystems, NEW p \in Paths, NEW c \in STRING
  PROVE  WalkStep(p, c) \in Paths
BY CleanStepType, FileSystemAssumption DEF WalkStep

\* The function inside Clean exists and is the only one, so that the CHOOSE
\* its definition stands for takes it.
LEMMA CleanExists ==
  ASSUME NEW raw \in Paths
  PROVE  \E g \in [0..Len(raw) -> Paths] :
             /\ CleanAlong(g, raw)
             /\ Clean(raw) = g[Len(raw)]
<1>1. PICK N \in Nat : N = Len(raw)
  BY PathType
<1>. DEFINE step == [a \in Paths \X (1..N) |-> CleanStep(a[1], raw[a[2]])]
<1>2. step \in [Paths \X (1..N) -> Paths]
  <2>1. \A a \in Paths \X (1..N) : a[1] \in Paths /\ raw[a[2]] \in STRING
    BY <1>1, PathType
  <2>2. QED
    BY <2>1, CleanStepType
<1>3. \E g \in [0..N -> Paths] : Process(g, <<>>, step, N)
  <2>. HIDE DEF step
  <2>1. QED
    BY <1>2, EmptyPath, Iterates
<1>4. PICK g \in [0..N -> Paths] : g[0] = <<>> /\ \A n \in 1..N : g[n] = step[<<g[n - 1], n>>]
  <2>. HIDE DEF step
  <2>1. QED
    BY <1>3 DEF Process
<1>5. ASSUME NEW n \in 1..N PROVE g[n] = CleanStep(g[n - 1], raw[n])
  <2>1. n - 1 \in 0..N
    OBVIOUS
  <2>2. <<g[n - 1], n>> \in Paths \X (1..N)
    BY <2>1
  <2>3. step[<<g[n - 1], n>>] = CleanStep(g[n - 1], raw[n])
    BY <2>2
  <2>4. QED
    BY <2>3, <1>4
<1>6. CleanAlong(g, raw)
  <2>. HIDE DEF step
  <2>1. QED
    BY <1>1, <1>4, <1>5 DEF CleanAlong
<1>7. \A h : CleanAlong(h, raw) => h = g
  <2>1. SUFFICES ASSUME NEW h, CleanAlong(h, raw) PROVE h = g
    OBVIOUS
  <2>2. h = [n \in 0..N |-> h[n]] /\ g = [n \in 0..N |-> g[n]]
    BY <1>1, <2>1 DEF CleanAlong
  <2>3. StepAlike(h, g, N)
    BY <1>1, <1>4, <1>5, <2>1 DEF CleanAlong, StepAlike
  <2>4. \A n \in 0..N : h[n] = g[n]
    BY <2>3, Alike
  <2>5. QED
    BY <2>2, <2>4
<1>8. Clean(raw) = (CHOOSE h : CleanAlong(h, raw))[N]
  BY <1>1 DEF Clean, CleanAlong
<1>9. (CHOOSE h : CleanAlong(h, raw)) = g
  BY <1>6, <1>7
<1>10. QED
  BY <1>1, <1>6, <1>8, <1>9

\* filepath.Clean returns a path.
LEMMA CleanType ==
  ASSUME NEW p \in Paths
  PROVE  Clean(p) \in Paths
<1>1. PICK g \in [0..Len(p) -> Paths] : Clean(p) = g[Len(p)]
  BY CleanExists
<1>2. Len(p) \in 0..Len(p)
  BY PathType
<1>3. QED
  BY <1>1, <1>2

\* filepath.Clean looks at one component after the other.
LEMMA CleanEquations ==
  /\ Clean(<<>>) = <<>>
  /\ \A p \in Paths : \A c \in STRING :
         Clean(Append(p, c)) = CleanStep(Clean(p), c)
<1>1. Clean(<<>>) = <<>>
  <2>1. PICK g \in [0..Len(<<>>) -> Paths] : CleanAlong(g, <<>>) /\ Clean(<<>>) = g[Len(<<>>)]
    BY EmptyPath, CleanExists
  <2>2. QED
    BY <2>1, EmptyPath DEF CleanAlong
<1>2. ASSUME NEW p \in Paths, NEW c \in STRING
      PROVE  Clean(Append(p, c)) = CleanStep(Clean(p), c)
  <2>1. PICK N \in Nat : N = Len(p)
    BY PathType
  <2>2. PICK q \in Paths : q = Append(p, c)
    BY Longer
  <2>3. Len(q) = N + 1 /\ q[N + 1] = c /\ \A n \in 1..N : q[n] = p[n]
    BY <2>1, <2>2, Longer
  <2>4. PICK g \in [0..N -> Paths] : CleanAlong(g, p) /\ Clean(p) = g[N]
    BY <2>1, CleanExists
  <2>5. PICK h \in [0..(N + 1) -> Paths] : CleanAlong(h, q) /\ Clean(q) = h[N + 1]
    BY <2>3, CleanExists
  <2>6. g[0] = <<>> /\ \A n \in 1..N : g[n] = CleanStep(g[n - 1], p[n])
    BY <2>1, <2>4 DEF CleanAlong
  <2>7. h[0] = <<>> /\ \A n \in 1..(N + 1) : h[n] = CleanStep(h[n - 1], q[n])
    BY <2>3, <2>5 DEF CleanAlong
  <2>8. StepAlike(g, h, N)
    BY <2>3, <2>6, <2>7 DEF StepAlike
  <2>9. \A n \in 0..N : g[n] = h[n]
    BY <2>8, Alike
  <2>10. h[N + 1] = CleanStep(h[N], c)
    <3>1. PICK m \in 1..(N + 1) : m = N + 1 /\ m - 1 = N
      OBVIOUS
    <3>2. h[m] = CleanStep(h[m - 1], q[m])
      BY <2>7
    <3>3. QED
      BY <2>3, <3>1, <3>2
  <2>11. QED
    BY <2>2, <2>4, <2>5, <2>9, <2>10
<1>3. QED
  BY <1>1, <1>2

\* The same of the function inside Walk.
LEMMA WalkExists ==
  ASSUME fs \in FileSystems, NEW raw \in Paths
  PROVE  \E g \in [0..Len(raw) -> Paths] :
             /\ WalkAlong(g, raw)
             /\ Walk(raw) = g[Len(raw)]
<1>1. PICK N \in Nat : N = Len(raw)
  BY PathType
<1>. DEFINE step == [a \in Paths \X (1..N) |-> WalkStep(a[1], raw[a[2]])]
<1>2. step \in [Paths \X (1..N) -> Paths]
  <2>1. \A a \in Paths \X (1..N) : a[1] \in Paths /\ raw[a[2]] \in STRING
    BY <1>1, PathType
  <2>2. QED
    BY <2>1, WalkStepType
<1>3. \E g \in [0..N -> Paths] : Process(g, <<>>, step, N)
  <2>. HIDE DEF step
  <2>1. QED
    BY <1>2, EmptyPath, Iterates
<1>4. PICK g \in [0..N -> Paths] : g[0] = <<>> /\ \A n \in 1..N : g[n] = step[<<g[n - 1], n>>]
  <2>. HIDE DEF step
  <2>1. QED
    BY <1>3 DEF Process
<1>5. ASSUME NEW n \in 1..N PROVE g[n] = WalkStep(g[n - 1], raw[n])
  <2>1. n - 1 \in 0..N
    OBVIOUS
  <2>2. <<g[n - 1], n>> \in Paths \X (1..N)
    BY <2>1
  <2>3. step[<<g[n - 1], n>>] = WalkStep(g[n - 1], raw[n])
    BY <2>2
  <2>4. QED
    BY <2>3, <1>4
<1>6. WalkAlong(g, raw)
  <2>. HIDE DEF step
  <2>1. QED
    BY <1>1, <1>4, <1>5 DEF WalkAlong
<1>7. \A h : WalkAlong(h, raw) => h = g
  <2>1. SUFFICES ASSUME NEW h, WalkAlong(h, raw) PROVE h = g
    OBVIOUS
  <2>2. h = [n \in 0..N |-> h[n]] /\ g = [n \in 0..N |-> g[n]]
    BY <1>1, <2>1 DEF WalkAlong
  <2>3. StepAlike(h, g, N)
    BY <1>1, <1>4, <1>5, <2>1 DEF WalkAlong, StepAlike
  <2>4. \A n \in 0..N : h[n] = g[n]
    BY <2>3, Alike
  <2>5. QED
    BY <2>2, <2>4
<1>8. Walk(raw) = (CHOOSE h : WalkAlong(h, raw))[N]
  BY <1>1 DEF Walk, WalkAlong
<1>9. (CHOOSE h : WalkAlong(h, raw)) = g
  BY <1>6, <1>7
<1>10. QED
  BY <1>1, <1>6, <1>8, <1>9

\* The kernel finds a path.
LEMMA WalkType ==
  ASSUME fs \in FileSystems, NEW p \in Paths
  PROVE  Walk(p) \in Paths
<1>1. PICK g \in [0..Len(p) -> Paths] : Walk(p) = g[Len(p)]
  BY WalkExists
<1>2. Len(p) \in 0..Len(p)
  BY PathType
<1>3. QED
  BY <1>1, <1>2

\* So does the kernel.
LEMMA WalkEquations ==
  ASSUME fs \in FileSystems
  PROVE  /\ Walk(<<>>) = <<>>
         /\ \A p \in Paths : \A c \in STRING :
                Walk(Append(p, c)) = WalkStep(Walk(p), c)
<1>1. Walk(<<>>) = <<>>
  <2>1. PICK g \in [0..Len(<<>>) -> Paths] : WalkAlong(g, <<>>) /\ Walk(<<>>) = g[Len(<<>>)]
    BY EmptyPath, WalkExists
  <2>2. QED
    BY <2>1, EmptyPath DEF WalkAlong
<1>2. ASSUME NEW p \in Paths, NEW c \in STRING
      PROVE  Walk(Append(p, c)) = WalkStep(Walk(p), c)
  <2>1. PICK N \in Nat : N = Len(p)
    BY PathType
  <2>2. PICK q \in Paths : q = Append(p, c)
    BY Longer
  <2>3. Len(q) = N + 1 /\ q[N + 1] = c /\ \A n \in 1..N : q[n] = p[n]
    BY <2>1, <2>2, Longer
  <2>4. PICK g \in [0..N -> Paths] : WalkAlong(g, p) /\ Walk(p) = g[N]
    BY <2>1, WalkExists
  <2>5. PICK h \in [0..(N + 1) -> Paths] : WalkAlong(h, q) /\ Walk(q) = h[N + 1]
    BY <2>3, WalkExists
  <2>6. g[0] = <<>> /\ \A n \in 1..N : g[n] = WalkStep(g[n - 1], p[n])
    BY <2>1, <2>4 DEF WalkAlong
  <2>7. h[0] = <<>> /\ \A n \in 1..(N + 1) : h[n] = WalkStep(h[n - 1], q[n])
    BY <2>3, <2>5 DEF WalkAlong
  <2>8. StepAlike(g, h, N)
    BY <2>3, <2>6, <2>7 DEF StepAlike
  <2>9. \A n \in 0..N : g[n] = h[n]
    BY <2>8, Alike
  <2>10. h[N + 1] = WalkStep(h[N], c)
    <3>1. PICK m \in 1..(N + 1) : m = N + 1 /\ m - 1 = N
      OBVIOUS
    <3>2. h[m] = WalkStep(h[m - 1], q[m])
      BY <2>7
    <3>3. QED
      BY <2>3, <3>1, <3>2
  <2>11. QED
    BY <2>2, <2>4, <2>5, <2>9, <2>10
<1>3. QED
  BY <1>1, <1>2

\* What canonicalPath returns.
Places == Paths \cup {Failed}

\* EvalSymlinks returns a path or fails.
LEMMA EvalSymlinksType ==
  ASSUME fs \in FileSystems, NEW p \in Paths
  PROVE  EvalSymlinks(p) \in Places
BY WalkType DEF EvalSymlinks, Places

\* So does each round of canonicalPath.
LEMMA CanonicalStepType ==
  ASSUME fs \in FileSystems, NEW p \in Places, NEW q \in Paths \ {<<>>}
  PROVE  CanonicalStep(p, q) \in Places
<1>1. PICK r \in Paths, c \in STRING : q = Append(r, c)
  BY Shorter
<1>2. Last(q) \in STRING
  BY <1>1, Longer
<1>3. QED
  BY <1>2, EvalSymlinksType, Longer DEF CanonicalStep, Places

\* The same of the function inside CanonicalPath.
LEMMA CanonicalExists ==
  ASSUME fs \in FileSystems, NEW raw \in Paths
  PROVE  \E g \in [0..Len(raw) -> Places] :
             /\ CanonicalAlong(g, raw)
             /\ CanonicalPath(raw) = g[Len(raw)]
<1>1. PICK N \in Nat : N = Len(raw)
  BY PathType
<1>. DEFINE step == [a \in Places \X (1..N) |-> CanonicalStep(a[1], SubSeq(raw, 1, a[2]))]
<1>2. step \in [Places \X (1..N) -> Places]
  <2>1. \A a \in Places \X (1..N) : a[1] \in Places /\ SubSeq(raw, 1, a[2]) \in Paths \ {<<>>}
    BY <1>1, PathType
  <2>2. QED
    BY <2>1, CanonicalStepType
<1>3. \E g \in [0..N -> Places] : Process(g, EvalSymlinks(<<>>), step, N)
  <2>. HIDE DEF step
  <2>1. QED
    BY <1>2, EmptyPath, EvalSymlinksType, Iterates
<1>4. PICK g \in [0..N -> Places] :
          g[0] = EvalSymlinks(<<>>) /\ \A n \in 1..N : g[n] = step[<<g[n - 1], n>>]
  <2>. HIDE DEF step
  <2>1. QED
    BY <1>3 DEF Process
<1>5. ASSUME NEW n \in 1..N PROVE g[n] = CanonicalStep(g[n - 1], SubSeq(raw, 1, n))
  <2>1. n - 1 \in 0..N
    OBVIOUS
  <2>2. <<g[n - 1], n>> \in Places \X (1..N)
    BY <2>1
  <2>3. step[<<g[n - 1], n>>] = CanonicalStep(g[n - 1], SubSeq(raw, 1, n))
    BY <2>2
  <2>4. QED
    BY <2>3, <1>4
<1>6. CanonicalAlong(g, raw)
  <2>. HIDE DEF step
  <2>1. QED
    BY <1>1, <1>4, <1>5 DEF CanonicalAlong
<1>7. \A h : CanonicalAlong(h, raw) => h = g
  <2>1. SUFFICES ASSUME NEW h, CanonicalAlong(h, raw) PROVE h = g
    OBVIOUS
  <2>2. h = [n \in 0..N |-> h[n]] /\ g = [n \in 0..N |-> g[n]]
    BY <1>1, <2>1 DEF CanonicalAlong
  <2>3. StepAlike(h, g, N)
    BY <1>1, <1>4, <1>5, <2>1 DEF CanonicalAlong, StepAlike
  <2>4. \A n \in 0..N : h[n] = g[n]
    BY <2>3, Alike
  <2>5. QED
    BY <2>2, <2>4
<1>8. CanonicalPath(raw) = (CHOOSE h : CanonicalAlong(h, raw))[N]
  BY <1>1 DEF CanonicalPath, CanonicalAlong
<1>9. (CHOOSE h : CanonicalAlong(h, raw)) = g
  BY <1>6, <1>7
<1>10. QED
  BY <1>1, <1>6, <1>8, <1>9

\* canonicalPath looks at every prefix.
LEMMA CanonicalEquations ==
  ASSUME fs \in FileSystems
  PROVE  /\ CanonicalPath(<<>>) = EvalSymlinks(<<>>)
         /\ \A p \in Paths : \A c \in STRING :
                CanonicalPath(Append(p, c)) = CanonicalStep(CanonicalPath(p), Append(p, c))
<1>1. CanonicalPath(<<>>) = EvalSymlinks(<<>>)
  <2>1. PICK g \in [0..Len(<<>>) -> Places] :
            CanonicalAlong(g, <<>>) /\ CanonicalPath(<<>>) = g[Len(<<>>)]
    BY EmptyPath, CanonicalExists
  <2>2. QED
    BY <2>1, EmptyPath DEF CanonicalAlong
<1>2. ASSUME NEW p \in Paths, NEW c \in STRING
      PROVE  CanonicalPath(Append(p, c)) = CanonicalStep(CanonicalPath(p), Append(p, c))
  <2>1. PICK N \in Nat : N = Len(p)
    BY PathType
  <2>2. PICK q \in Paths : q = Append(p, c)
    BY Longer
  <2>3. /\ Len(q) = N + 1 /\ SubSeq(q, 1, N + 1) = q
        /\ \A n \in 1..N : SubSeq(q, 1, n) = SubSeq(p, 1, n)
    <3>1. \A n \in 1..N : n \in 0..N
      OBVIOUS
    <3>2. Len(q) = N + 1 /\ SubSeq(q, 1, N + 1) = q
      BY <2>1, <2>2, Longer
    <3>3. \A n \in 0..N : SubSeq(q, 1, n) = SubSeq(p, 1, n)
      BY <2>1, <2>2, Longer
    <3>4. QED
      BY <3>1, <3>2, <3>3
  <2>4. PICK g \in [0..N -> Places] : CanonicalAlong(g, p) /\ CanonicalPath(p) = g[N]
    BY <2>1, CanonicalExists
  <2>5. PICK h \in [0..(N + 1) -> Places] : CanonicalAlong(h, q) /\ CanonicalPath(q) = h[N + 1]
    BY <2>3, CanonicalExists
  <2>6. /\ g[0] = EvalSymlinks(<<>>)
        /\ \A n \in 1..N : g[n] = CanonicalStep(g[n - 1], SubSeq(p, 1, n))
    BY <2>1, <2>4 DEF CanonicalAlong
  <2>7. /\ h[0] = EvalSymlinks(<<>>)
        /\ \A n \in 1..(N + 1) : h[n] = CanonicalStep(h[n - 1], SubSeq(q, 1, n))
    BY <2>3, <2>5 DEF CanonicalAlong
  <2>8. StepAlike(g, h, N)
    <3>1. ASSUME NEW n \in 1..N, g[n - 1] = h[n - 1] PROVE g[n] = h[n]
      <4>1. n \in 1..(N + 1)
        OBVIOUS
      <4>2. h[n] = CanonicalStep(h[n - 1], SubSeq(q, 1, n))
        BY <2>7, <4>1
      <4>3. g[n] = CanonicalStep(g[n - 1], SubSeq(p, 1, n))
        BY <2>6
      <4>4. SubSeq(q, 1, n) = SubSeq(p, 1, n)
        BY <2>3
      <4>5. QED
        BY <3>1, <4>2, <4>3, <4>4
    <3>2. QED
      BY <2>6, <2>7, <3>1 DEF StepAlike
  <2>9. \A n \in 0..N : g[n] = h[n]
    BY <2>8, Alike
  <2>10. h[N + 1] = CanonicalStep(h[N], q)
    <3>1. PICK m \in 1..(N + 1) : m = N + 1 /\ m - 1 = N
      OBVIOUS
    <3>2. h[m] = CanonicalStep(h[m - 1], SubSeq(q, 1, m))
      BY <2>7
    <3>3. QED
      BY <2>3, <3>1, <3>2
  <2>11. QED
    BY <2>2, <2>4, <2>5, <2>9, <2>10
<1>3. QED
  BY <1>1, <1>2

----------------------------------------------------------------------------
(* What the three have to do with each other.                              *)

\* Every component is a name.
Plain(p) == \A n \in 1..Len(p) : p[n] # ".."

\* A component more is plain if it and what is before it are.
LEMMA PlainFacts ==
  ASSUME NEW p \in Paths, NEW c \in STRING
  PROVE  Plain(Append(p, c)) <=> Plain(p) /\ c # ".."
<1>1. PICK N \in Nat : N = Len(p)
  BY PathType
<1>2. PICK q \in Paths : q = Append(p, c)
  BY Longer
<1>3. Len(q) = N + 1 /\ q[N + 1] = c /\ \A n \in 1..N : q[n] = p[n]
  BY <1>1, <1>2, Longer
<1>4. \A n \in 1..(N + 1) : n \in 1..N \/ n = N + 1
  OBVIOUS
<1>5. N + 1 \in 1..(N + 1) /\ \A n \in 1..N : n \in 1..(N + 1)
  OBVIOUS
<1>6. (\A n \in 1..(N + 1) : q[n] # "..") <=> (\A n \in 1..N : p[n] # "..") /\ c # ".."
  BY <1>3, <1>4, <1>5
<1>7. QED
  BY <1>1, <1>2, <1>3, <1>6 DEF Plain

\* A clean path has no ".." left.
LEMMA CleanPlain ==
  ASSUME NEW raw \in Paths
  PROVE  Plain(Clean(raw))
<1>. DEFINE S == {p \in Paths : Plain(Clean(p))}
<1>1. <<>> \in S
  BY EmptyPath, CleanEquations DEF Plain
<1>2. ASSUME NEW p \in Paths, NEW c \in STRING, p \in S PROVE Append(p, c) \in S
  <2>1. Append(p, c) \in Paths /\ Clean(p) \in Paths /\ Plain(Clean(p))
    BY <1>2, Longer, CleanType
  <2>2. Clean(Append(p, c)) = CleanStep(Clean(p), c)
    BY CleanEquations
  <2>3. CASE c # ".."
    BY <2>1, <2>2, <2>3, PlainFacts DEF CleanStep
  <2>4. CASE c = ".." /\ Clean(p) = <<>>
    BY <2>1, <2>2, <2>4 DEF CleanStep
  <2>5. CASE c = ".." /\ Clean(p) # <<>>
    <3>1. PICK q \in Paths, d \in STRING : Clean(p) = Append(q, d)
      BY <2>1, <2>5, Shorter
    <3>2. Front(Clean(p)) = q /\ Plain(q)
      BY <3>1, <2>1, Longer, PlainFacts
    <3>3. QED
      BY <2>1, <2>2, <2>5, <3>2 DEF CleanStep
  <2>6. QED
    BY <2>3, <2>4, <2>5
<1>3. Paths \subseteq S
  <2>. HIDE DEF S
  <2>1. QED
    BY <1>1, <1>2, PathInduction
<1>4. QED
  BY <1>3

\* Clean leads where the kernel is led, unless a ".." leaves a link.
LEMMA CleanWalk ==
  ASSUME fs \in FileSystems, NEW raw \in Paths, ~LeavesLink(raw)
  PROVE  Walk(Clean(raw)) = Walk(raw)
<1>. DEFINE S == {p \in Paths : ~LeavesLink(p) => Walk(Clean(p)) = Walk(p)}
<1>1. <<>> \in S
  BY EmptyPath, CleanEquations
<1>2. ASSUME NEW p \in Paths, NEW c \in STRING, p \in S PROVE Append(p, c) \in S
  <2>1. PICK N \in Nat : N = Len(p)
    BY PathType
  <2>2. PICK q \in Paths : q = Append(p, c)
    BY Longer
  <2>3. /\ Len(q) = N + 1 /\ q[N + 1] = c /\ SubSeq(q, 1, N + 1) = q
        /\ \A n \in 1..N : q[n] = p[n]
        /\ \A n \in 0..N : SubSeq(q, 1, n) = SubSeq(p, 1, n)
    BY <2>1, <2>2, Longer
  <2>4. SUFFICES ASSUME ~LeavesLink(q) PROVE Walk(Clean(q)) = Walk(q)
    BY <2>2
  <2>5. \A n \in 1..(N + 1) : q[n] = ".." => Walk(SubSeq(q, 1, n)) = Walk(Clean(SubSeq(q, 1, n)))
    BY <2>3, <2>4 DEF LeavesLink
  <2>6. ~LeavesLink(p)
    <3>1. \A n \in 1..N : n \in 0..N /\ n \in 1..(N + 1)
      OBVIOUS
    <3>2. QED
      BY <2>1, <2>3, <2>5, <3>1 DEF LeavesLink
  <2>7. Walk(Clean(p)) = Walk(p)
    BY <1>2, <2>6
  <2>8. CASE c = ".."
    <3>1. N + 1 \in 1..(N + 1)
      OBVIOUS
    <3>2. QED
      BY <2>3, <2>5, <2>8, <3>1
  <2>9. CASE c # ".."
    <3>1. Clean(q) = Append(Clean(p), c)
      BY <2>2, <2>9, CleanEquations DEF CleanStep
    <3>2. Walk(Clean(q)) = WalkStep(Walk(Clean(p)), c)
      BY <3>1, CleanType, WalkEquations
    <3>3. Walk(q) = WalkStep(Walk(p), c)
      BY <2>2, WalkEquations
    <3>4. QED
      BY <2>7, <3>2, <3>3
  <2>10. QED
    BY <2>8, <2>9
<1>3. Paths \subseteq S
  <2>. HIDE DEF S
  <2>1. QED
    BY <1>1, <1>2, PathInduction
<1>4. QED
  BY <1>3

\* What canonicalPath accepts of a clean path is the place the kernel finds:
\* a missing component cannot be a link.
LEMMA CanonicalWalk ==
  ASSUME fs \in FileSystems, NEW path \in Paths, Plain(path), CanonicalPath(path) # Failed
  PROVE  CanonicalPath(path) = Walk(path)
<1>. DEFINE S == {p \in Paths : Plain(p) /\ CanonicalPath(p) # Failed => CanonicalPath(p) = Walk(p)}
<1>1. <<>> \in S
  BY EmptyPath, CanonicalEquations DEF EvalSymlinks
<1>2. ASSUME NEW p \in Paths, NEW c \in STRING, p \in S PROVE Append(p, c) \in S
  <2>1. PICK q \in Paths : q = Append(p, c)
    BY Longer
  <2>2. q # <<>> /\ Front(q) = p /\ Last(q) = c
    BY <2>1, Longer
  <2>3. SUFFICES ASSUME Plain(q), CanonicalPath(q) # Failed PROVE CanonicalPath(q) = Walk(q)
    BY <2>1
  <2>4. CanonicalPath(q) = CanonicalStep(CanonicalPath(p), q)
    BY <2>1, CanonicalEquations
  <2>5. Plain(p) /\ c # ".."
    BY <2>1, <2>3, PlainFacts
  <2>6. CASE Present(q)
    BY <2>3, <2>4, <2>6 DEF CanonicalStep, EvalSymlinks
  <2>7. CASE ~Present(q)
    <3>1. CanonicalPath(p) # Failed /\ CanonicalPath(q) = Append(CanonicalPath(p), c)
      BY <2>2, <2>3, <2>4, <2>7 DEF CanonicalStep
    <3>2. CanonicalPath(p) = Walk(p) /\ Walk(p) \in Paths
      BY <1>2, <2>5, <3>1, WalkType
    <3>3. Append(Walk(p), c) \notin DOMAIN fs.links
      <4>1. SUFFICES ASSUME Append(Walk(p), c) \in DOMAIN fs.links PROVE FALSE
        OBVIOUS
      <4>2. Front(Append(Walk(p), c)) \in fs.dirs
        BY <4>1, FileSystemAssumption
      <4>3. Walk(p) \in fs.dirs
        BY <4>2, <3>2, Longer
      <4>4. QED
        BY <2>2, <2>7, <4>1, <4>3 DEF Present
    <3>4. Walk(q) = WalkStep(Walk(p), c)
      BY <2>1, WalkEquations
    <3>5. QED
      BY <2>5, <3>1, <3>2, <3>3, <3>4 DEF WalkStep, CleanStep
  <2>8. QED
    BY <2>6, <2>7
<1>3. Paths \subseteq S
  <2>. HIDE DEF S
  <2>1. QED
    BY <1>1, <1>2, PathInduction
<1>4. QED
  BY <1>3

----------------------------------------------------------------------------
(* The inductive invariant.                                                *)

\* What Validate looks at does not change when its variables do not.
LEMMA ValidSame ==
  ASSUME fs' = fs, conf' = conf, sections' = sections
  PROVE  /\ Roots' = Roots /\ ThePeers' = ThePeers /\ TheFolders' = TheFolders
         /\ \A f : Resolved(f)' <=> Resolved(f)
         /\ \A f, g : Collide(f, g)' <=> Collide(f, g)
         /\ PeersValid' <=> PeersValid
         /\ FoldersValid' <=> FoldersValid
<1>1. Roots' = Roots /\ ThePeers' = ThePeers /\ TheFolders' = TheFolders
  BY DEF Roots, ThePeers, TheFolders
<1>2. ASSUME NEW f PROVE CanonicalPath(Clean(conf[f]))' = CanonicalPath(Clean(conf[f]))
  BY DEF CanonicalPath, CanonicalStep, EvalSymlinks, Present, Walk, WalkStep, CleanStep, Clean
<1>3. ASSUME NEW f PROVE Resolved(f)' <=> Resolved(f)
  BY <1>2 DEF Resolved
<1>4. ASSUME NEW f, NEW g PROVE Collide(f, g)' <=> Collide(f, g)
  BY <1>2, <1>3 DEF Collide, Overlap, IsPrefix
<1>5. PeersValid' <=> PeersValid
  BY <1>1 DEF PeersValid, PeerField, Reserved
<1>6. FoldersValid' <=> FoldersValid
  BY <1>1 DEF FoldersValid, FolderField
<1>7. QED
  BY <1>1, <1>3, <1>4, <1>5, <1>6

\* VerdictInv is about what is not changed.
LEMMA VerdictSame ==
  ASSUME VerdictInv, fs' = fs, conf' = conf, sections' = sections, verdict' = verdict
  PROVE  VerdictInv'
BY ValidSame DEF VerdictInv

\* A field that is a key read is a field of a section that was opened.
LEMMA UnsaidDefault ==
  ASSUME ReadInv, Faithful, NEW f \in Fields, f[1] \notin sections
  PROVE  conf[f] = Default(f)
BY DEF ReadInv, Faithful

\* An empty Config keeps the invariant.
LEMMA InitParse ==
  ASSUME ParseInit
  PROVE  ParseInv
<1>1. ReadInv
  BY DEF ParseInit, ReadInv
<1>2. Faithful
  BY DEF ParseInit, Faithful
<1>3. VerdictInv
  BY DEF ParseInit, VerdictInv
<1>4. QED
  BY <1>1, <1>2, <1>3 DEF ParseInv

\* So does return Config{}, err.
LEMMA RefuseParse ==
  ASSUME ParseInv, Refuse
  PROVE  ParseInv'
<1>1. ReadInv'
  BY DEF ParseInv, ReadInv, Refuse
<1>2. Faithful'
  BY DEF Refuse, Faithful
<1>3. VerdictInv'
  BY DEF Refuse, VerdictInv
<1>4. QED
  BY <1>1, <1>2, <1>3 DEF ParseInv

\* A header: its section is new, so resetting its fields changes nothing.
LEMMA HeaderParse ==
  ASSUME ParseInv, NEW s \in Sections, ReadHeader(s)
  PROVE  ParseInv'
<1>1. CASE Repeated(s) /\ Refuse
  BY <1>1, RefuseParse
<1>2. CASE ~Repeated(s) /\ ~Refuse
  <2>1. /\ verdict = "reading" /\ s \notin sections
        /\ section' = s /\ sections' = sections \cup {s}
        /\ conf' = [f \in Fields |->
                      IF f[1] = s /\ s[1] # "service" THEN Default(f) ELSE conf[f]]
        /\ UNCHANGED <<fs, keys, verdict, said>>
    BY <1>2 DEF ReadHeader, Repeated
  <2>2. \A f \in Fields : conf'[f] = conf[f]
    BY <2>1, UnsaidDefault DEF ParseInv
  <2>3. ReadInv'
    BY <2>1, <2>2 DEF ParseInv, ReadInv
  <2>4. Faithful'
    BY <2>1, <2>2 DEF ParseInv, Faithful
  <2>5. VerdictInv'
    BY <2>1 DEF VerdictInv
  <2>6. QED
    BY <2>3, <2>4, <2>5 DEF ParseInv
<1>3. QED
  BY <1>1, <1>2, RefuseParse DEF ReadHeader

\* A key = value: the key is new in its section, which is open.
LEMMA KeyParse ==
  ASSUME ParseInv, NEW k \in DOMAIN Values, NEW v \in Values[k], ReadKey(k, v)
  PROVE  ParseInv'
<1>1. CASE Refuse
  BY <1>1, RefuseParse
<1>2. CASE ~Refuse
  <2>. DEFINE x == <<section, k>>
  <2>1. /\ verdict = "reading" /\ k \in KeysOf(section[1]) /\ x \notin keys
        /\ keys' = keys \cup {x}
        /\ conf' = [conf EXCEPT ![x] = v]
        /\ said' = said \cup {<<x, v>>}
        /\ UNCHANGED <<fs, section, sections, verdict>>
    BY <1>2 DEF ReadKey
  <2>2. section \in sections /\ section \in Sections
    <3>1. KeysOf(NoSection[1]) = {}
      BY DEF KeysOf, NoSection
    <3>2. section # NoSection
      BY <2>1, <3>1
    <3>3. QED
      BY <3>2 DEF ParseInv, ReadInv
  <2>3. x \in Fields /\ x[1] = section /\ x[2] = k
    BY <2>1, <2>2 DEF Fields
  <2>4. DOMAIN conf = Fields /\ keys = {a[1] : a \in said}
    BY DEF ParseInv, ReadInv
  <2>. HIDE DEF x
  <2>5. DOMAIN conf' = Fields /\ conf'[x] = v /\ \A f \in Fields : f # x => conf'[f] = conf[f]
    BY <2>1, <2>3, <2>4
  <2>6. \A a \in said : a[1] # x
    BY <2>1, <2>4
  <2>7. ReadInv'
    <3>1. keys' = {a[1] : a \in said'}
      <4>1. PICK y : y = <<x, v>>
        OBVIOUS
      <4>2. y[1] = x /\ said' = said \cup {y}
        BY <4>1, <2>1
      <4>3. {a[1] : a \in said \cup {y}} = {a[1] : a \in said} \cup {y[1]}
        OBVIOUS
      <4>4. QED
        BY <2>1, <2>4, <4>2, <4>3
    <3>2. \A f \in Fields :
              conf'[f] = Default(f) \/ (f[2] \in DOMAIN Values /\ conf'[f] \in Values[f[2]])
      BY <2>3, <2>5 DEF ParseInv, ReadInv
    <3>3. QED
      BY <2>1, <2>2, <2>3, <2>5, <3>1, <3>2 DEF ParseInv, ReadInv
  <2>8. Faithful'
    <3>1. SUFFICES ASSUME NEW f \in Fields
          PROVE  \/ \E a \in said' : /\ a[1] = f /\ conf'[f] = a[2]
                                     /\ \A b \in said' : b[1] = f => b = a
                 \/ conf'[f] = Default(f) /\ \A a \in said' : a[1] # f
      BY DEF Faithful
    <3>2. CASE f = x
      BY <3>2, <2>1, <2>5, <2>6
    <3>3. CASE f # x
      <4>1. conf'[f] = conf[f] /\ \A a \in said' : a \in said \/ a[1] # f
        BY <3>3, <2>1, <2>5
      <4>2. \/ \E a \in said : /\ a[1] = f /\ conf[f] = a[2]
                               /\ \A b \in said : b[1] = f => b = a
            \/ conf[f] = Default(f) /\ \A a \in said : a[1] # f
        BY DEF ParseInv, Faithful
      <4>3. QED
        BY <4>1, <4>2, <2>1
    <3>4. QED
      BY <3>2, <3>3
  <2>9. VerdictInv'
    BY <2>1 DEF VerdictInv
  <2>10. QED
    BY <2>7, <2>8, <2>9 DEF ParseInv
<1>3. QED
  BY <1>1, <1>2

\* ReadInv and Faithful do not look at the verdict.
LEMMA ReadSame ==
  ASSUME ReadInv, Faithful, UNCHANGED <<fs, section, sections, keys, conf, said>>
  PROVE  ReadInv' /\ Faithful'
BY DEF ReadInv, Faithful

\* Validate: it records what it looked at.
LEMMA ValidateParse ==
  ASSUME ParseInv, Validate
  PROVE  ParseInv'
<1>1. CASE Refuse
  BY <1>1, RefuseParse
<1>2. CASE ~Refuse
  <2>1. UNCHANGED <<fs, section, sections, keys, conf, said>> /\ PeersValid /\ FoldersValid
    BY <1>2 DEF Validate
  <2>2. ReadInv' /\ Faithful'
    BY <2>1, ReadSame DEF ParseInv
  <2>3. \/ verdict' = "overlap" /\ \E f, g \in Roots : Collide(f, g)
        \/ /\ verdict' = "ok"
           /\ \A f \in Roots : Resolved(f)
           /\ \A f, g \in Roots : ~Collide(f, g)
    BY <1>2 DEF Validate
  <2>4. VerdictInv'
    BY <2>1, <2>3, ValidSame DEF VerdictInv
  <2>5. QED
    BY <2>2, <2>4 DEF ParseInv
<1>3. QED
  BY <1>1, <1>2

\* Every line keeps the invariant.
LEMMA StepParse ==
  ASSUME ParseInv, [ParseNext]_parsing
  PROVE  ParseInv'
<1>1. CASE \E s \in Sections : ReadHeader(s)
  BY <1>1, HeaderParse
<1>2. CASE \E k \in DOMAIN Values : \E v \in Values[k] : ReadKey(k, v)
  BY <1>2, KeyParse
<1>3. CASE ReadOther
  BY <1>3, RefuseParse DEF ReadOther
<1>4. CASE Validate
  BY <1>4, ValidateParse
<1>5. CASE UNCHANGED parsing
  BY <1>5, ReadSame, VerdictSame DEF ParseInv, parsing
<1>6. QED
  BY <1>1, <1>2, <1>3, <1>4, <1>5 DEF ParseNext

\* Parse and Validate keep their inductive invariant: a key is met once and
\* under the section it is filed under, and what Validate found stays true.
THEOREM ParseInvHolds == ParseSpec => []ParseInv
<1>1. ParseInit => ParseInv
  BY InitParse
<1>2. ParseInv /\ [ParseNext]_parsing => ParseInv'
  BY StepParse
<1>3. QED
  BY <1>1, <1>2, PTL DEF ParseSpec

\* What Parse hands on is what the file says, line by line, with the default
\* for what it does not say.
THEOREM FaithfulHolds == ParseSpec => []Faithful
<1>1. ParseInv => Faithful
  BY DEF ParseInv
<1>2. QED
  BY <1>1, ParseInvHolds, PTL

----------------------------------------------------------------------------
(* One writer for every folder.                                            *)

\* The identity of a valid peer is not this device's.
LEMMA PeerIdentity ==
  ASSUME ReadInv, PeersValid, NEW p \in ThePeers
  PROVE  PeerField(p, "device_id") # "this device"
<1>. DEFINE f == <<<<"peer", p>>, "device_id">>
<1>1. f \in Fields
  <2>1. <<"peer", p>> \in Sections /\ "device_id" \in KeysOf("peer") /\ <<"peer", p>>[1] = "peer"
    BY DEF ThePeers, Sections, KeysOf
  <2>2. QED
    BY <2>1 DEF Fields
<1>2. f[2] = "device_id" /\ Default(f) = Unset
  BY DEF Default
<1>3. PeerField(p, "device_id") = conf[f] /\ conf[f] # Unset
  BY DEF PeersValid, PeerField
<1>. HIDE DEF f
<1>4. "device_id" \in DOMAIN Values /\ conf[f] \in Values["device_id"]
  BY <1>1, <1>2, <1>3 DEF ReadInv
<1>5. QED
  BY <1>3, <1>4, ValueAssumption

\* Valid peers and folders make one writer.
LEMMA ValidWriter ==
  ASSUME ReadInv, PeersValid, FoldersValid, NEW d \in TheFolders
  PROVE  /\ Cardinality(Writers(d)) = 1
         /\ \A p \in ThePeers \ {FolderField(d, "source")} :
                PeerField(p, "device_id") \notin Writers(d)
<1>1. FolderField(d, "source") \in ThePeers \cup {Local}
  BY DEF FoldersValid
<1>2. Local \notin ThePeers
  BY DEF PeersValid, Reserved
<1>3. CASE FolderField(d, "source") = Local
  <2>1. Writers(d) = {"this device"}
    BY <1>2, <1>3 DEF Writers
  <2>2. QED
    BY <2>1, FS_Singleton, PeerIdentity
<1>4. CASE FolderField(d, "source") \in ThePeers
  <2>1. PICK q \in ThePeers : q = FolderField(d, "source") /\ q # Local
    BY <1>2, <1>4
  <2>2. Writers(d) = {PeerField(q, "device_id")}
    BY <2>1 DEF Writers
  <2>3. \A p \in ThePeers \ {q} : PeerField(p, "device_id") # PeerField(q, "device_id")
    BY DEF PeersValid
  <2>4. QED
    BY <2>1, <2>2, <2>3, FS_Singleton
<1>5. QED
  BY <1>1, <1>3, <1>4

\* Every folder of an accepted configuration has one writer, this device or one
\* peer, and no other peer is that device under a second name.
THEOREM OneWriterHolds == ParseSpec => []OneWriter
<1>1. ParseInv => OneWriter
  BY ValidWriter DEF ParseInv, VerdictInv, OneWriter
<1>2. QED
  BY <1>1, ParseInvHolds, PTL

----------------------------------------------------------------------------
(* Roots that share no place.                                              *)

\* A key of a section is a field.
LEMMA FieldOf ==
  ASSUME NEW s \in Sections, NEW k \in KeysOf(s[1])
  PROVE  <<s, k>> \in Fields /\ <<s, k>>[2] = k
BY DEF Fields

\* A root that is set is a path.
LEMMA RootPath ==
  ASSUME ReadInv, NEW f \in Roots, conf[f] # Unset
  PROVE  conf[f] \in Paths
<1>1. f \in Fields /\ f[2] \in {"state_dir", "path"}
  <2>1. CASE f = <<<<"service", "">>, "state_dir">>
    <3>1. PICK s \in Sections : s = <<"service", "">>
      BY DEF Sections
    <3>2. s[1] = "service" /\ "state_dir" \in KeysOf("service")
      BY <3>1 DEF KeysOf
    <3>3. f \in Fields /\ f = <<s, "state_dir">>
      BY <2>1, <3>1, <3>2, FieldOf
    <3>4. QED
      BY <3>3
  <2>2. ASSUME NEW d \in TheFolders, f = <<<<"folder", d>>, "path">>
        PROVE  f \in Fields /\ f[2] \in {"state_dir", "path"}
    <3>1. /\ <<"folder", d>> \in Sections /\ <<"folder", d>>[1] = "folder"
          /\ "path" \in KeysOf("folder")
      BY DEF TheFolders, Sections, KeysOf
    <3>2. QED
      BY <2>2, <3>1 DEF Fields
  <2>3. QED
    BY <2>1, <2>2 DEF Roots
<1>2. Default(f) = Unset
  BY <1>1 DEF Default
<1>3. f[2] \in DOMAIN Values /\ conf[f] \in Values[f[2]]
  BY <1>1, <1>2 DEF ReadInv
<1>4. QED
  BY <1>1, <1>3, ValueAssumption

\* What Validate compares is the place the kernel finds.
LEMMA ResolvedPlace ==
  ASSUME ReadInv, NEW f \in Roots, Resolved(f), Direct(f)
  PROVE  CanonicalPath(Clean(conf[f])) = Walk(conf[f])
<1>1. fs \in FileSystems /\ conf[f] \in Paths /\ ~LeavesLink(conf[f])
  BY RootPath DEF ReadInv, Direct
<1>2. PICK p \in Paths : p = conf[f]
  BY <1>1
<1>3. Clean(p) \in Paths /\ Plain(Clean(p)) /\ CanonicalPath(Clean(p)) # Failed
  BY <1>2, CleanType, CleanPlain DEF Resolved
<1>4. CanonicalPath(Clean(p)) = Walk(Clean(p))
  BY <1>1, <1>3, CanonicalWalk
<1>5. Walk(Clean(p)) = Walk(p)
  BY <1>1, <1>2, CleanWalk
<1>6. QED
  BY <1>2, <1>4, <1>5

\* An accepted configuration has no two roots that share a place, whatever
\* links the file system has, and none is refused for an overlap that is none:
\* comparing canonical paths is as good as following them.
THEOREM RootsApartHolds == ParseSpec => []RootsApart
<1>1. ASSUME ParseInv PROVE RootsApart
  <2>1. ASSUME verdict = "ok", NEW f \in Roots, NEW g \in Roots, f # g, Direct(f), Direct(g)
        PROVE  ~Overlap(Walk(conf[f]), Walk(conf[g]))
    <3>1. Resolved(f) /\ Resolved(g) /\ ~Collide(f, g)
      BY <1>1, <2>1 DEF ParseInv, VerdictInv
    <3>2. QED
      BY <1>1, <2>1, <3>1, ResolvedPlace DEF ParseInv, Collide
  <2>2. ASSUME verdict = "overlap"
        PROVE  \E f, g \in Roots :
                   f # g /\ (~Direct(f) \/ ~Direct(g) \/ Overlap(Walk(conf[f]), Walk(conf[g])))
    <3>1. PICK f \in Roots, g \in Roots : Collide(f, g)
      BY <1>1, <2>2 DEF ParseInv, VerdictInv
    <3>2. CASE Direct(f) /\ Direct(g)
      BY <1>1, <3>1, <3>2, ResolvedPlace DEF ParseInv, Collide
    <3>3. QED
      BY <3>1, <3>2 DEF Collide
  <2>3. QED
    BY <2>1, <2>2 DEF RootsApart
<1>2. QED
  BY <1>1, ParseInvHolds, PTL

----------------------------------------------------------------------------
(* Provision: for any number of processes and of key pairs.                *)

\* A process that runs nothing.
LEMMA IdleLemma == Idle \in Proc /\ Idle.pc = "idle" /\ Idle.cmd = "id"
BY ProvisionAssumption DEF Idle, Proc

\* The invariant holds in an empty state directory.
LEMMA ProvisionInit == Init => ProvisionInv
<1>. SUFFICES ASSUME Init PROVE ProvisionInv
  OBVIOUS
<1>1. \A p \in Procs : proc[p].pc = "idle" /\ proc[p].cmd = "id"
  BY IdleLemma DEF Init
<1>2. proc \in [Procs -> Proc]
  BY IdleLemma DEF Init
<1>3. TypeOK
  <2>1. 0 \in 0..MaxKeys
    BY ProvisionAssumption
  <2>2. QED
    BY <1>2, <2>1 DEF Init, TypeOK, Markers
<1>4. LockInv /\ MakingInv /\ MarkerInv
  BY <1>1 DEF Init, LockInv, MakingInv, MarkerInv, MarkerLasts, At, Making
<1>5. PairInv /\ RevealedInv
  BY DEF Init, PairInv, RevealedInv
<1>6. QED
  BY <1>3, <1>4, <1>5 DEF ProvisionInv

\* The ghost torn stays Boolean.
LEMMA TornLemma ==
    ASSUME torn \in BOOLEAN, NEW p \in Procs, torn' = (torn \/ Making(p))
    PROVE  torn' \in BOOLEAN /\ (torn => torn') /\ (Making(p) => torn')
           /\ (torn' => torn \/ Making(p))
BY Zenon DEF Making

\* What is said about the process p and about the others after a step of p.
LEMMA ProcLemma ==
    ASSUME TypeOK, NEW p \in Procs, NEW s \in Proc, proc' = [proc EXCEPT ![p] = s]
    PROVE  /\ proc' \in [Procs -> Proc]
           /\ proc'[p] = s
           /\ \A q \in Procs : q # p => proc'[q] = proc[q]
BY DEF TypeOK

\* The command of p ends, fails or is killed: files stay, the lock is freed.
LEMMA FinishInv ==
    ASSUME ProvisionInv, NEW p \in Procs, Finish(p),
           UNCHANGED <<files, marks, done, forfeit>>,
           made' \in 0..MaxKeys,
           revealed' = revealed \/ (Loadable /\ revealed' = revealed \cup {key}),
           torn' \in BOOLEAN, torn => torn', Making(p) => torn', torn' => torn \/ Making(p)
    PROVE  ProvisionInv'
<1>1. /\ proc' \in [Procs -> Proc]
      /\ proc'[p].pc = "idle" /\ proc'[p].cmd = "id"
      /\ \A q \in Procs : q # p => proc'[q] = proc[q]
  BY IdleLemma, ProcLemma DEF Finish, ProvisionInv
<1>2. TypeOK'
  <2>0. Loadable => key \in 1..MaxKeys
    BY ProvisionAssumption DEF ProvisionInv, TypeOK, Loadable
  <2>1. revealed' \subseteq 1..MaxKeys
    BY <2>0 DEF ProvisionInv, TypeOK
  <2>2. QED
    BY <1>1, <2>1 DEF Finish, ProvisionInv, TypeOK, files, marks
<1>3. LockInv'
  BY <1>1 DEF Finish, ProvisionInv, LockInv
<1>4. MakingInv' /\ PairInv'
  BY <1>1 DEF ProvisionInv, MakingInv, PairInv, At, Loadable, files
<1>5. RevealedInv'
  BY DEF ProvisionInv, RevealedInv, PairInv, Loadable, files
<1>6. MarkerInv'
  <2>1. ASSUME NEW q \in Procs, q # p, Making(p) PROVE ~Making(q)
    BY <2>1 DEF ProvisionInv, LockInv, Making
  <2>2. \A q \in Procs : Making(q)' => q # p /\ Making(q) /\ ~Making(p)
    BY <1>1, <2>1 DEF Making
  <2>3. torn' => marker # "absent"
    BY DEF ProvisionInv, MarkerInv
  <2>4. \A q \in Procs : Making(q)' => marker # "absent" /\ ~torn' /\ (done => forfeit)
    BY <2>2 DEF ProvisionInv, MarkerInv
  <2>5. (~torn' /\ \A q \in Procs : ~Making(q)') => fixed = marker
    <3>1. SUFFICES ASSUME ~torn', \A q \in Procs : ~Making(q)' PROVE fixed = marker
      OBVIOUS
    <3>2. ~torn /\ \A q \in Procs : ~Making(q)
      BY <1>1, <3>1 DEF Making
    <3>3. QED
      BY <3>2 DEF ProvisionInv, MarkerInv
  <2>6. QED
    BY <1>1, <2>3, <2>4, <2>5 DEF ProvisionInv, MarkerInv, MarkerLasts, marks
<1>7. QED
  BY <1>2, <1>3, <1>4, <1>5, <1>6 DEF ProvisionInv

\* A step of p that changes its control point and on disk at most the root.
LEMMA GotoInv ==
    ASSUME ProvisionInv, NEW p \in Procs, NEW s \in Proc,
           proc' = [proc EXCEPT ![p] = s],
           s.pc \in {"lock", "stat", "key", "load", "root", "marker", "print", "running"},
           ~Making(p),
           lock' = lock \/ (lock = NoProc /\ lock' = p),
           s.cmd = "id" => s.pc = "load",
           s.cmd # "id" /\ s.pc # "lock" => lock' = p,
           s.pc = "key" => key = 0 /\ cert = 0,
           s.pc \in {"root", "marker", "print"} => Loadable,
           root' \in {"none", "made", "kept"}, root # "none" => root' # "none",
           s.pc = "marker" => root' # "none",
           root' = "none" => marker = "absent",
           s.pc = "print" => marker = "full",
           UNCHANGED <<files, marker, fixed, made, done, torn, forfeit>>,
           revealed' = revealed \/ (Loadable /\ revealed' = revealed \cup {key})
    PROVE  ProvisionInv'
<1>1. /\ proc' \in [Procs -> Proc]
      /\ proc'[p] = s
      /\ \A q \in Procs : q # p => proc'[q] = proc[q]
  BY ProcLemma DEF ProvisionInv
<1>2. TypeOK'
  <2>0. Loadable => key \in 1..MaxKeys
    BY ProvisionAssumption DEF ProvisionInv, TypeOK, Loadable
  <2>1. revealed' \subseteq 1..MaxKeys
    BY <2>0 DEF ProvisionInv, TypeOK
  <2>2. QED
    BY <1>1, <2>1 DEF ProvisionInv, TypeOK, files
<1>3. LockInv'
  BY <1>1, ProvisionAssumption DEF ProvisionInv, LockInv
<1>4. MakingInv' /\ PairInv'
  BY <1>1 DEF ProvisionInv, MakingInv, PairInv, At, Loadable, files
<1>5. RevealedInv'
  BY DEF ProvisionInv, RevealedInv, PairInv, Loadable, files
<1>6. MarkerInv'
  <2>1. \A q \in Procs : Making(q)' <=> Making(q)
    BY <1>1 DEF Making
  <2>2. QED
    BY <1>1, <2>1 DEF ProvisionInv, MarkerInv, MarkerLasts
<1>7. QED
  BY <1>2, <1>3, <1>4, <1>5, <1>6 DEF ProvisionInv

\* The record of p with another control point.
Moved(p, x) == [proc[p] EXCEPT !.pc = x]

\* A new control point is a new record.
LEMMA MovedLemma ==
    ASSUME TypeOK, NEW p \in Procs,
           NEW x \in {"idle", "lock", "stat", "key", "synckey", "cert", "synccert",
                      "load", "root", "marker", "write", "syncmarker", "print", "running"},
           proc' = [proc EXCEPT ![p].pc = x]
    PROVE  /\ Moved(p, x) \in Proc
           /\ Moved(p, x).pc = x /\ Moved(p, x).id = proc[p].id /\ Moved(p, x).cmd = proc[p].cmd
           /\ proc' = [proc EXCEPT ![p] = Moved(p, x)]
BY DEF TypeOK, Proc, Moved

\* Starting a command, locking, looking at the files, loading, stopping.
LEMMA QuietInv ==
    ASSUME ProvisionInv, NEW p \in Procs,
           \/ \E cmd \in {"init", "run", "id"} : Start(p, cmd)
           \/ LockState(p) \/ Stat(p) \/ Load(p) \/ Stop(p) \/ Interrupted(p)
    PROVE  ProvisionInv'
<1>t. TypeOK /\ torn \in BOOLEAN /\ made \in 0..MaxKeys /\ proc[p].cmd \in {"init", "run", "id"}
  BY DEF ProvisionInv, TypeOK, Proc
<1>r. root \in {"none", "made", "kept"} /\ (root = "none" => marker = "absent")
  BY DEF ProvisionInv, TypeOK, MarkerInv
<1>l. /\ proc[p].cmd = "id" => proc[p].pc \in {"idle", "load"}
      /\ (proc[p].cmd # "id" /\ proc[p].pc # "lock") => lock = p
  BY DEF ProvisionInv, LockInv
<1>1. ASSUME NEW cmd \in {"init", "run", "id"}, Start(p, cmd)
      PROVE  ProvisionInv'
  <2>. DEFINE s == [cmd |-> cmd, pc |-> IF cmd = "id" THEN "load" ELSE "lock", id |-> 0]
  <2>1. s \in Proc /\ s.pc \in {"lock", "load"} /\ (s.cmd = "id" <=> s.pc = "load")
    BY ProvisionAssumption DEF Proc
  <2>2. proc' = [proc EXCEPT ![p] = s] /\ UNCHANGED <<lock, files, marks, ghosts>>
    BY <1>1 DEF Start
  <2>3. ~Making(p)
    BY <1>1 DEF Start, At, Making
  <2>. HIDE DEF s
  <2>4. QED
    BY <1>r, <2>1, <2>2, <2>3, GotoInv DEF ghosts, marks
<1>2. CASE LockState(p)
  <2>1. CASE lock # NoProc
    BY <1>2, <1>t, <2>1, FinishInv DEF LockState, At, Making, ghosts
  <2>2. CASE lock = NoProc
    <3>1. PICK x \in {"stat", "load"} : proc' = [proc EXCEPT ![p].pc = x]
      BY <1>2, <2>2 DEF LockState
    <3>2. /\ Moved(p, x) \in Proc /\ Moved(p, x).pc = x /\ Moved(p, x).cmd = proc[p].cmd
          /\ proc' = [proc EXCEPT ![p] = Moved(p, x)]
      BY <1>t, <3>1 DEF TypeOK, Proc, Moved
    <3>3. proc[p].cmd # "id"
      BY <1>2, <1>l DEF LockState, At
    <3>4. QED
      BY <1>2, <1>r, <2>2, <3>2, <3>3, GotoInv DEF LockState, At, Making, ghosts, marks
  <2>3. QED
    BY <2>1, <2>2
<1>3. CASE Stat(p)
  <2>1. PICK x \in {"load", "key"} : /\ proc' = [proc EXCEPT ![p].pc = x] /\ lock' = lock
                                     /\ x = "key" => key = 0 /\ cert = 0
    BY <1>3 DEF Stat, Goto
  <2>2. /\ Moved(p, x) \in Proc /\ Moved(p, x).pc = x /\ Moved(p, x).cmd = proc[p].cmd
        /\ proc' = [proc EXCEPT ![p] = Moved(p, x)]
    BY <1>t, <2>1 DEF TypeOK, Proc, Moved
  <2>3. lock = p /\ proc[p].cmd # "id"
    BY <1>3, <1>l DEF Stat, At
  <2>4. QED
    BY <1>3, <1>r, <2>1, <2>2, <2>3, GotoInv DEF Stat, At, Making, ghosts, marks
<1>4. CASE Load(p)
  <2>0. /\ ~Making(p) /\ UNCHANGED <<files, marks, made, done, torn, forfeit>>
        /\ revealed' = revealed \/ (Loadable /\ revealed' = revealed \cup {key})
    BY <1>4, <1>t DEF Load, At, Making
  <2>1. CASE Finish(p)
    BY <1>t, <2>0, <2>1, FinishInv
  <2>2. ASSUME NEW x \in {"root", "running"}, Loadable, proc[p].cmd # "id", Goto(p, x)
        PROVE  ProvisionInv'
    <3>1. /\ Moved(p, x) \in Proc /\ Moved(p, x).pc = x /\ Moved(p, x).cmd = proc[p].cmd
          /\ proc' = [proc EXCEPT ![p] = Moved(p, x)]
      BY <1>t, <2>2 DEF Goto, TypeOK, Proc, Moved
    <3>2. lock' = lock /\ lock = p
      BY <1>4, <1>l, <2>2 DEF Load, At, Goto
    <3>3. QED
      BY <1>r, <2>0, <2>2, <3>1, <3>2, GotoInv DEF marks
  <2>3. QED
    BY <1>4, <1>t, <2>1, <2>2 DEF Load
<1>5. CASE Stop(p)
  BY <1>5, <1>t, FinishInv DEF Stop, At, Making, ghosts
<1>6. CASE Interrupted(p)
  BY <1>6, <1>t, FinishInv, TornLemma DEF Interrupted
<1>7. QED
  BY <1>1, <1>2, <1>3, <1>4, <1>5, <1>6

\* The process that makes the identity is alone past the lock.
LEMMA OneMaker ==
    ASSUME ProvisionInv, NEW p \in Procs, proc[p].pc \notin {"idle", "lock", "load"},
           NEW q \in Procs, q # p
    PROVE  proc[q].pc \in {"idle", "lock", "load"} /\ (proc[q].pc = "load" => proc[q].cmd = "id")
BY DEF ProvisionInv, LockInv

\* Making key and certificate: the certificate is linked only after the key is
\* on disk for good.
LEMMA IdentityInv ==
    ASSUME ProvisionInv, NEW p \in Procs,
           LinkKey(p) \/ SyncKey(p) \/ LinkCert(p) \/ SyncCert(p)
    PROVE  ProvisionInv'
<1>t. TypeOK /\ torn \in BOOLEAN /\ made \in 0..MaxKeys /\ proc[p].cmd \in {"init", "run", "id"}
  BY DEF ProvisionInv, TypeOK, Proc
<1>p. /\ proc[p].pc \in {"key", "synckey", "cert", "synccert"}
      /\ ~Making(p)
  BY DEF LinkKey, SyncKey, LinkCert, SyncCert, At, Making
<1>q. \A q \in Procs : q # p => proc[q].pc \in {"idle", "lock", "load"}
  BY <1>p, OneMaker
<1>l. lock = p /\ proc[p].cmd # "id"
  BY <1>p DEF ProvisionInv, LockInv
<1>1. CASE Finish(p) /\ UNCHANGED <<files, marks, revealed, done, torn, forfeit>>
  <2>1. made' \in 0..MaxKeys
    BY <1>t, ProvisionAssumption DEF LinkKey, SyncKey, LinkCert, SyncCert, ghosts
  <2>2. QED
    BY <1>1, <1>t, <1>p, <2>1, FinishInv
<1>2. ASSUME NEW s \in Proc, proc' = [proc EXCEPT ![p] = s], lock' = lock, s.cmd = proc[p].cmd,
             s.pc \in {"synckey", "cert", "synccert", "load"},
             UNCHANGED <<marks, revealed, done, torn, forfeit>>,
             key' \in 0..MaxKeys, cert' \in 0..MaxKeys, kept' \subseteq {"key", "cert"},
             made' \in 0..MaxKeys,
             PairInv', RevealedInv',
             s.pc = "synckey" => key' = s.id /\ key' # 0 /\ cert' = 0,
             s.pc = "cert" => key' = s.id /\ "key" \in kept' /\ cert' = 0,
             s.pc = "synccert" => key' = s.id
      PROVE  ProvisionInv'
  <2>1. /\ proc' \in [Procs -> Proc]
        /\ proc'[p] = s
        /\ \A q \in Procs : q # p => proc'[q] = proc[q]
    BY <1>t, <1>2, ProcLemma
  <2>2. TypeOK'
    BY <1>2, <2>1 DEF ProvisionInv, TypeOK, marks
  <2>3. LockInv'
    BY <1>2, <1>l, <2>1 DEF ProvisionInv, LockInv
  <2>4. MakingInv'
    BY <1>2, <1>q, <2>1 DEF ProvisionInv, MakingInv, At
  <2>5. MarkerInv'
    <3>1. \A q \in Procs : Making(q)' <=> Making(q)
      BY <1>2, <1>p, <2>1 DEF Making
    <3>2. QED
      BY <1>2, <2>1, <3>1 DEF ProvisionInv, MarkerInv, MarkerLasts, marks
  <2>6. QED
    BY <1>2, <2>2, <2>3, <2>4, <2>5 DEF ProvisionInv
<1>3. CASE LinkKey(p) /\ key = 0
  <2>. DEFINE s == [proc[p] EXCEPT !.pc = "synckey", !.id = made']
  <2>1. made' \in 0..MaxKeys /\ made' # 0
    BY <1>3, <1>t, ProvisionAssumption DEF LinkKey
  <2>2. s \in Proc /\ s.pc = "synckey" /\ s.cmd = proc[p].cmd /\ s.id = made'
    BY <2>1, <1>t DEF TypeOK, Proc
  <2>3. proc' = [proc EXCEPT ![p] = s] /\ lock' = lock
    BY <1>3, <1>t DEF LinkKey, TypeOK
  <2>4. cert = 0 /\ key = 0
    BY <1>3 DEF LinkKey, ProvisionInv, MakingInv
  <2>5. PairInv' /\ RevealedInv'
    BY <1>3, <2>1, <2>4 DEF LinkKey, ProvisionInv, PairInv, RevealedInv
  <2>. HIDE DEF s
  <2>6. QED
    BY <1>2, <1>3, <1>t, <2>1, <2>2, <2>3, <2>4, <2>5 DEF LinkKey, TypeOK
<1>4. CASE SyncKey(p)
  <2>1. /\ Moved(p, "cert") \in Proc /\ Moved(p, "cert").pc = "cert"
        /\ Moved(p, "cert").cmd = proc[p].cmd /\ Moved(p, "cert").id = proc[p].id
        /\ proc' = [proc EXCEPT ![p] = Moved(p, "cert")]
    BY <1>4, <1>t, MovedLemma DEF SyncKey, Goto
  <2>2. key = proc[p].id /\ key # 0 /\ cert = 0
    BY <1>4 DEF SyncKey, ProvisionInv, MakingInv
  <2>3. kept' = {"key"} /\ key' = key /\ cert' = cert /\ lock' = lock
    BY <1>4, <2>2 DEF SyncKey, Synced, Goto
  <2>4. PairInv' /\ RevealedInv'
    BY <1>4, <2>2, <2>3 DEF SyncKey, ghosts, ProvisionInv, PairInv, RevealedInv
  <2>5. QED
    BY <1>2, <1>4, <1>t, <2>1, <2>2, <2>3, <2>4 DEF SyncKey, TypeOK, ghosts
<1>5. CASE LinkCert(p) /\ cert = 0
  <2>1. /\ Moved(p, "synccert") \in Proc /\ Moved(p, "synccert").pc = "synccert"
        /\ Moved(p, "synccert").cmd = proc[p].cmd /\ Moved(p, "synccert").id = proc[p].id
        /\ proc' = [proc EXCEPT ![p] = Moved(p, "synccert")] /\ lock' = lock
    BY <1>5, <1>t, MovedLemma DEF LinkCert, Goto
  <2>2. key = proc[p].id /\ "key" \in kept
    BY <1>5 DEF LinkCert, ProvisionInv, MakingInv
  <2>3. cert' = key /\ key' = key /\ kept' = kept \ {"cert"}
    BY <1>5, <2>2 DEF LinkCert
  <2>4. PairInv' /\ RevealedInv'
    BY <1>5, <2>2, <2>3 DEF LinkCert, ghosts, ProvisionInv, PairInv, RevealedInv
  <2>5. QED
    BY <1>2, <1>5, <1>t, <2>1, <2>2, <2>3, <2>4 DEF LinkCert, TypeOK, ghosts
<1>6. CASE SyncCert(p)
  <2>1. /\ Moved(p, "load") \in Proc /\ Moved(p, "load").pc = "load"
        /\ Moved(p, "load").cmd = proc[p].cmd
        /\ proc' = [proc EXCEPT ![p] = Moved(p, "load")] /\ lock' = lock
    BY <1>6, <1>t, MovedLemma DEF SyncCert, Goto
  <2>2. key' = key /\ cert' = cert /\ kept' \subseteq {"key", "cert"}
        /\ ("key" \in kept' <=> key # 0) /\ ("cert" \in kept' <=> cert # 0)
    BY <1>6 DEF SyncCert, Synced
  <2>3. PairInv' /\ RevealedInv'
    BY <1>6, <2>2 DEF SyncCert, ghosts, ProvisionInv, PairInv, RevealedInv
  <2>4. QED
    BY <1>2, <1>6, <1>t, <2>1, <2>2, <2>3 DEF SyncCert, TypeOK, ghosts
<1>7. QED
  BY <1>1, <1>3, <1>4, <1>5, <1>6 DEF LinkKey, LinkCert, files, ghosts

\* Making the root and the marker: the marker's name is synced in the root
\* before init goes on.
LEMMA MarkerStepInv ==
    ASSUME ProvisionInv, NEW p \in Procs,
           \/ MakeRoot(p)
           \/ CreateMarker(p) \/ WriteMarker(p) \/ SyncMarker(p) \/ PrintId(p)
    PROVE  ProvisionInv'
<1>t. TypeOK /\ torn \in BOOLEAN /\ made \in 0..MaxKeys /\ proc[p].cmd \in {"init", "run", "id"}
  BY DEF ProvisionInv, TypeOK, Proc
<1>p. proc[p].pc \in {"root", "marker", "write", "syncmarker", "print"}
  BY DEF MakeRoot, CreateMarker, WriteMarker, SyncMarker, PrintId, At
<1>q. \A q \in Procs : q # p => ~Making(q) /\ proc[q].pc # "print"
  BY <1>p, OneMaker DEF Making
<1>l. lock = p /\ proc[p].cmd # "id"
  BY <1>p DEF ProvisionInv, LockInv
<1>k. Loadable
  BY <1>p DEF ProvisionInv, MakingInv
<1>1. CASE CreateMarker(p) /\ marker = "empty"
  BY <1>1, <1>t, FinishInv DEF CreateMarker, At, Making, marks, ghosts
<1>2. ASSUME NEW x \in {"write", "syncmarker", "print"}, Goto(p, x),
             UNCHANGED <<files, root, ghosts>>, marker' \in Markers, fixed' \in Markers, MarkerInv'
      PROVE  ProvisionInv'
  <2>1. /\ Moved(p, x) \in Proc /\ Moved(p, x).pc = x /\ Moved(p, x).cmd = proc[p].cmd
        /\ proc' = [proc EXCEPT ![p] = Moved(p, x)] /\ lock' = lock
    BY <1>t, <1>2 DEF Goto, TypeOK, Proc, Moved
  <2>2. /\ proc' \in [Procs -> Proc]
        /\ proc'[p] = Moved(p, x)
        /\ \A q \in Procs : q # p => proc'[q] = proc[q]
    BY <1>t, <2>1, ProcLemma
  <2>3. TypeOK'
    BY <1>2, <2>1, <2>2 DEF ProvisionInv, TypeOK, files, ghosts
  <2>4. LockInv'
    BY <1>l, <2>1, <2>2 DEF ProvisionInv, LockInv
  <2>5. MakingInv' /\ PairInv' /\ RevealedInv'
    BY <1>2, <1>k, <2>1, <2>2 DEF ProvisionInv, MakingInv, PairInv, RevealedInv, At, Loadable,
                                  files, ghosts
  <2>6. QED
    BY <1>2, <2>3, <2>4, <2>5 DEF ProvisionInv
<1>3. ASSUME NEW x \in {"write", "syncmarker", "print"}, Goto(p, x)
      PROVE  proc'[p].pc = x /\ \A q \in Procs : q # p => proc'[q] = proc[q]
  BY <1>t, <1>3 DEF Goto, TypeOK, Proc
<1>r. /\ proc[p].pc # "root" => root # "none" \/ proc[p].pc = "print"
      /\ root \in {"none", "made", "kept"}
  BY <1>p DEF ProvisionInv, MarkerInv, TypeOK
<1>4. CASE CreateMarker(p) /\ marker = "absent"
  <2>1. Goto(p, "write") /\ marker' = "empty" /\ fixed' = fixed /\ UNCHANGED <<files, root, ghosts>>
    BY <1>4 DEF CreateMarker
  <2>2. fixed # "full" /\ ~torn /\ (done => forfeit) /\ root # "none"
    BY <1>4 DEF ProvisionInv, MarkerInv, MarkerLasts, CreateMarker, At
  <2>3. MarkerInv'
    BY <1>3, <1>q, <2>1, <2>2 DEF MarkerInv, MarkerLasts, Making, ghosts
  <2>4. QED
    BY <1>2, <1>t, <2>1, <2>3 DEF Markers, TypeOK
<1>5. CASE CreateMarker(p) /\ marker = "full"
  <2>1. Goto(p, "print") /\ marker' = marker /\ fixed' = fixed /\ UNCHANGED <<files, root, ghosts>>
    BY <1>5 DEF CreateMarker
  <2>2. ~Making(p) /\ root # "none"
    BY <1>5 DEF CreateMarker, At, Making, ProvisionInv, MarkerInv
  <2>3. ~torn => fixed = marker
    BY <1>q, <2>2 DEF ProvisionInv, MarkerInv
  <2>4. MarkerInv'
    BY <1>3, <1>5, <1>q, <2>1, <2>2, <2>3 DEF ProvisionInv, MarkerInv, MarkerLasts, Making, ghosts
  <2>5. QED
    BY <1>2, <1>t, <2>1, <2>4 DEF TypeOK
<1>6. CASE WriteMarker(p)
  <2>1. Goto(p, "syncmarker") /\ marker' = "full" /\ fixed' = fixed /\ UNCHANGED <<files, root, ghosts>>
    BY <1>6 DEF WriteMarker
  <2>2. ~torn /\ (done => forfeit) /\ root # "none"
    BY <1>6 DEF WriteMarker, At, Making, ProvisionInv, MarkerInv
  <2>3. MarkerInv'
    BY <1>3, <1>q, <2>1, <2>2 DEF MarkerInv, MarkerLasts, Making, ghosts
  <2>4. QED
    BY <1>2, <1>t, <2>1, <2>3 DEF Markers, TypeOK
<1>7. CASE SyncMarker(p)
  <2>1. Goto(p, "print") /\ marker' = marker /\ fixed' = marker /\ UNCHANGED <<files, root, ghosts>>
    BY <1>7 DEF SyncMarker
  <2>2. marker = "full" /\ root # "none" /\ ~torn
    BY <1>7 DEF SyncMarker, At, Making, ProvisionInv, MarkerInv
  <2>3. MarkerInv'
    BY <1>3, <1>q, <2>1, <2>2 DEF MarkerInv, MarkerLasts, Making, ghosts
  <2>4. QED
    BY <1>2, <1>t, <2>1, <2>3 DEF TypeOK
<1>8. CASE PrintId(p)
  <2>1. marker = "full" /\ ~Making(p)
    BY <1>8 DEF PrintId, At, Making, ProvisionInv, MarkerInv
  <2>2. /\ proc' \in [Procs -> Proc]
        /\ proc'[p].pc = "idle" /\ proc'[p].cmd = "id"
        /\ \A q \in Procs : q # p => proc'[q] = proc[q]
    BY <1>8, <1>t, IdleLemma, ProcLemma DEF PrintId, Finish
  <2>3. revealed' \subseteq 1..MaxKeys
    BY <1>8, <1>k, ProvisionAssumption DEF PrintId, Loadable, ProvisionInv, TypeOK
  <2>4. TypeOK'
    BY <1>8, <2>2, <2>3 DEF PrintId, Finish, ProvisionInv, TypeOK, files, marks
  <2>5. LockInv'
    BY <1>8, <2>2 DEF PrintId, Finish, ProvisionInv, LockInv
  <2>6. MakingInv' /\ PairInv'
    BY <1>8, <2>2 DEF PrintId, ProvisionInv, MakingInv, PairInv, At, Loadable, files
  <2>7. RevealedInv'
    BY <1>8, <1>k DEF PrintId, ProvisionInv, RevealedInv, PairInv, Loadable, files
  <2>8. MarkerInv'
    <3>1. \A q \in Procs : ~Making(q) /\ ~Making(q)'
      BY <1>q, <2>1, <2>2 DEF Making
    <3>2. QED
      BY <1>8, <2>1, <2>2, <3>1 DEF PrintId, ProvisionInv, MarkerInv, MarkerLasts, marks
  <2>9. QED
    BY <2>4, <2>5, <2>6, <2>7, <2>8 DEF ProvisionInv
<1>9. marker \in {"absent", "empty", "full"}
  BY <1>t DEF TypeOK, Markers
<1>10. CASE MakeRoot(p)
  <2>1. /\ Moved(p, "marker") \in Proc /\ Moved(p, "marker").pc = "marker"
        /\ Moved(p, "marker").cmd = proc[p].cmd
        /\ proc' = [proc EXCEPT ![p] = Moved(p, "marker")] /\ lock' = lock
    BY <1>10, <1>t, MovedLemma DEF MakeRoot, Goto
  <2>2. /\ root' \in {"made", "kept"} /\ ~Making(p)
        /\ UNCHANGED <<files, marker, fixed, made, revealed, done, torn, forfeit>>
    BY <1>10, <1>r DEF MakeRoot, At, Making, ghosts
  <2>3. QED
    BY <1>k, <1>l, <2>1, <2>2, GotoInv
<1>11. QED
  BY <1>1, <1>4, <1>5, <1>6, <1>7, <1>8, <1>9, <1>10

\* A power loss takes back only what was not synced: never the key of an
\* identity that could be loaded.
LEMMA PowerLossInv ==
    ASSUME ProvisionInv, PowerLoss
    PROVE  ProvisionInv'
<1>1. proc' \in [Procs -> Proc] /\ \A p \in Procs : proc'[p].pc = "idle" /\ proc'[p].cmd = "id"
  BY IdleLemma DEF PowerLoss
<1>2. /\ key' \in {0, key} /\ cert' \in {0, cert}
      /\ "key" \in kept => key' = key
      /\ "cert" \in kept => cert' = cert
  BY DEF PowerLoss
<1>3. /\ kept' \subseteq {"key", "cert"}
      /\ ("key" \in kept' <=> key' # 0) /\ ("cert" \in kept' <=> cert' # 0)
  BY DEF PowerLoss
<1>4. /\ marker' \in Markers /\ fixed' = marker' /\ torn' = FALSE
      /\ root' \in {"none", "made", "kept"} /\ (root' = "none" => marker' = "absent")
  BY DEF PowerLoss, Markers, ProvisionInv, TypeOK, MarkerInv
<1>5. forfeit' \in BOOLEAN
  <2>1. forfeit' = TRUE \/ forfeit' = (forfeit \/ (torn /\ marker' # marker))
    BY DEF PowerLoss
  <2>2. (forfeit \/ (torn /\ marker' # marker)) \in BOOLEAN
    BY Zenon
  <2>3. QED
    BY <2>1, <2>2, Zenon
<1>6. TypeOK'
  <2>1. lock' = NoProc /\ UNCHANGED <<made, revealed, done>>
    BY DEF PowerLoss
  <2>2. key' \in 0..MaxKeys /\ cert' \in 0..MaxKeys
    BY <1>2, ProvisionAssumption DEF ProvisionInv, TypeOK
  <2>3. QED
    BY <1>1, <1>3, <1>4, <1>5, <2>1, <2>2 DEF ProvisionInv, TypeOK
<1>7. LockInv' /\ MakingInv'
  BY <1>1 DEF LockInv, MakingInv, At
<1>8. PairInv' /\ RevealedInv'
  BY <1>2, <1>3 DEF PowerLoss, ProvisionInv, PairInv, RevealedInv, TypeOK
<1>9. MarkerInv'
  <2>1. ASSUME done, ~forfeit' PROVE marker' = "full"
    <3>1. ~forfeit /\ marker = "full"
      BY <2>1 DEF PowerLoss, ProvisionInv, MarkerInv, MarkerLasts
    <3>2. CASE torn
      BY <2>1, <3>1, <3>2 DEF PowerLoss
    <3>3. CASE ~torn
      <4>1. \A p \in Procs : ~Making(p)
        BY <2>1, <3>1 DEF ProvisionInv, MarkerInv
      <4>2. fixed = "full"
        BY <3>1, <3>3, <4>1 DEF ProvisionInv, MarkerInv
      <4>3. QED
        BY <2>1, <4>2 DEF PowerLoss
    <3>4. QED
      BY <3>2, <3>3
  <2>2. QED
    BY <1>1, <1>4, <2>1 DEF PowerLoss, MarkerInv, MarkerLasts, Making
<1>10. QED
  BY <1>6, <1>7, <1>8, <1>9 DEF ProvisionInv

----------------------------------------------------------------------------
\* The inductive invariant of the state directory holds in every state.
THEOREM ProvisionInvHolds == Spec => []ProvisionInv
<1>1. Init => ProvisionInv
  BY ProvisionInit
<1>2. ProvisionInv /\ [Next]_vars => ProvisionInv'
  <2>. SUFFICES ASSUME ProvisionInv, [Next]_vars PROVE ProvisionInv'
    OBVIOUS
  <2>1. ASSUME NEW p \in Procs, Step(p) PROVE ProvisionInv'
    BY <2>1, QuietInv, IdentityInv, MarkerStepInv DEF Step
  <2>2. CASE PowerLoss
    BY <2>2, PowerLossInv
  <2>3. CASE UNCHANGED vars
    BY <2>3 DEF vars, files, marks, ghosts, ProvisionInv, TypeOK, LockInv, MakingInv, PairInv,
                RevealedInv, MarkerInv, MarkerLasts, At, Loadable, Making
  <2>4. QED
    BY <2>1, <2>2, <2>3 DEF Next
<1>3. QED
  BY <1>1, <1>2, PTL DEF Spec

\* However many inits run, fail, are killed or meet a power loss, the device
\* shows one identity only (LoadOrCreate: never an automatic key rotation).
THEOREM NoRotationHolds == Spec => []NoRotation
<1>1. ProvisionInv => NoRotation
  BY DEF ProvisionInv, RevealedInv, NoRotation
<1>2. QED
  BY <1>1, ProvisionInvHolds, PTL

\* The marker of a successful init survives every error, kill and power loss,
\* but one that takes the root which init had made, or a marker which an
\* interrupted init left unsynced and a later one only checked.
THEOREM MarkerLastsHolds == Spec => []MarkerLasts
<1>1. ProvisionInv => MarkerLasts
  BY DEF ProvisionInv, MarkerInv, MarkerLasts
<1>2. QED
  BY <1>1, ProvisionInvHolds, PTL
=============================================================================
