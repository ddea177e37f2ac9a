----------------------------- MODULE CycleProofs -----------------------------
(* Proofs about Cycle, for any number of folders, blocks and events, and   *)
(* for every timing in which one round of waiting and work stays below the *)
(* idle timeout of the serving side.                                       *)
EXTENDS Cycle, TLAPS

\* scan_interval and the local work of a folder end before idleTimeout does.
InTime == MaxWork + Interval < Idle

\* The invariant holds when replicate starts.
LEMMA CycleInit == Init => CycleInv
<1>. SUFFICES ASSUME Init PROVE CycleInv
  OBVIOUS
<1>1. pending \in BOOLEAN
  BY Zenon DEF Init
<1>2. TypeOK
  BY <1>1, CycleAssumption DEF Init, TypeOK, Folders
<1>3. ControlInv /\ Headroom /\ misses <= 1
  BY DEF Init, ControlInv, Headroom
<1>4. QED
  BY <1>2, <1>3 DEF Init, CycleInv

\* What update does to the control state: the next folder, or the select.
LEMMA UpdateLemma ==
    ASSUME TypeOK, NEW s \in {"ok", "error"}, Update(s)
    PROVE  /\ pc' \in {"folder", "wait"} /\ f' \in Folders
           /\ left' = 0 /\ work' = 0
           /\ status' \in [Folders -> {"none", "ok", "error"}]
           /\ pc' = "wait" <=> f = N
           /\ pc' = "wait" => f' = 1
           /\ pc' = "folder" => f' = f + 1
           /\ misses' \in 0..N + 1
           /\ misses' = misses \/ (misses' = misses + 1 /\ s = "error" /\ peer = "up" /\ health[f] = "ok")
BY CycleAssumption DEF TypeOK, Update, Folders

\* A folder that keeps the session alive keeps its margin when the turn of
\* another folder ends without a request, and when its own ends after one.
LEMMA TurnEnds ==
    ASSUME TypeOK, NEW s \in {"ok", "error"}, Update(s), NEW g \in Folders,
           UNCHANGED clock,
           \/ quiet <= MaxWork
           \/ f # g /\ quiet <= MaxWork + (IF f > g THEN 0 ELSE Interval)
    PROVE  RequestedBy(g)'
<1>1. /\ pc' = "wait" <=> f = N
      /\ pc' = "folder" => f' = f + 1
      /\ pc' \in {"folder", "wait"}
  BY UpdateLemma
<1>2. due' \in 1..Interval /\ quiet' = quiet /\ quiet \in Nat /\ f \in 1..N /\ g \in 1..N
  BY CycleAssumption DEF TypeOK, clock, Folders
<1>3. (IF pending' THEN 0 ELSE due') \in 0..Interval
  <2>1. CASE pending'
    BY <2>1, CycleAssumption
  <2>2. CASE ~pending'
    BY <2>2, <1>2, CycleAssumption
  <2>3. QED
    BY <2>1, <2>2
<1>4. pc' = "wait" => quiet <= MaxWork
  BY <1>1, <1>2, CycleAssumption
<1>5. pc' = "wait" => quiet' + (IF pending' THEN 0 ELSE due') <= MaxWork + Interval
  <2>. DEFINE r == IF pending' THEN 0 ELSE due'
  <2>1. r \in 0..Interval
    BY <1>3
  <2>. HIDE DEF r
  <2>2. pc' = "wait" => quiet' + r <= MaxWork + Interval
    BY <1>2, <1>4, <2>1, CycleAssumption
  <2>. QED
    BY <2>2 DEF r
<1>6. pc' = "folder" => quiet' <= MaxWork + (IF f' > g THEN 0 ELSE Interval)
  BY <1>1, <1>2, CycleAssumption
<1>7. QED
  BY <1>1, <1>5, <1>6 DEF RequestedBy

\* One turn of replicate: the check of the folder and the end of Apply.
LEMMA LocalSteps ==
    ASSUME CycleInv, CheckFolder \/ Finish
    PROVE  CycleInv'
<1>. USE DEF clock, world
<1>0. TypeOK /\ ControlInv /\ Headroom /\ misses <= 1 /\ (peer # "up" \/ client = "dead" => misses = 0)
  BY DEF CycleInv
<1>1. CASE CheckFolder /\ health[f] # "unmounted"
  <2>1. /\ pc = "folder" /\ pc' = IF client = "nil" THEN "dial" ELSE "list"
        /\ UNCHANGED <<f, client, left, work, status, misses, clock, world>>
    BY <1>1 DEF CheckFolder
  <2>2. TypeOK'
    BY <1>0, <2>1 DEF TypeOK
  <2>3. ControlInv'
    BY <1>0, <2>1 DEF ControlInv, TypeOK
  <2>4. Headroom'
    BY <1>0, <2>1 DEF Headroom, Healthy, RequestedBy, TypeOK
  <2>5. QED
    BY <1>0, <2>1, <2>2, <2>3, <2>4 DEF CycleInv
<1>2. CASE CheckFolder /\ health[f] = "unmounted"
  <2>1. pc = "folder" /\ Update("error") /\ UNCHANGED <<client, clock, world>>
    BY <1>2 DEF CheckFolder
  <2>2. misses' = misses
    BY <1>2, <2>1, CycleAssumption DEF Update
  <2>3. TypeOK'
    BY <1>0, <2>1, UpdateLemma, CycleAssumption DEF TypeOK
  <2>4. ControlInv'
    BY <1>0, <2>1, UpdateLemma DEF ControlInv
  <2>5. Headroom'
    <3>1. SUFFICES ASSUME misses > 0 PROVE Headroom'
      BY <2>2 DEF Headroom
    <3>2. PICK g \in Folders : Healthy(g) /\ (client = "live" => RequestedBy(g))
      BY <1>0, <3>1 DEF Headroom
    <3>3. f # g
      BY <1>2, <3>2 DEF Healthy
    <3>4. client' = "live" => RequestedBy(g)'
      BY <1>0, <2>1, <3>2, <3>3, TurnEnds DEF RequestedBy
    <3>5. Healthy(g)'
      BY <2>1, <3>2 DEF Healthy
    <3>6. QED
      BY <3>4, <3>5 DEF Headroom
  <2>6. QED
    BY <1>0, <2>1, <2>2, <2>3, <2>4, <2>5 DEF CycleInv
<1>3. CASE Finish
  <2>1. PICK s \in {"ok", "error"} :
             /\ pc = "apply" /\ Update(s) /\ UNCHANGED <<clock, world>>
             /\ \/ s = "ok" /\ UNCHANGED client
                \/ s = "error" /\ health[f] # "ok" /\ client' = "nil"
    BY <1>3 DEF Finish, AfterError
  <2>2. misses' = misses
    BY <2>1, UpdateLemma, <1>0, CycleAssumption DEF Update
  <2>3. TypeOK'
    BY <1>0, <2>1, UpdateLemma, CycleAssumption DEF TypeOK
  <2>4. ControlInv'
    BY <1>0, <2>1, UpdateLemma DEF ControlInv
  <2>5. Headroom'
    <3>1. SUFFICES ASSUME misses > 0 PROVE Headroom'
      BY <2>2 DEF Headroom
    <3>2. PICK g \in Folders : Healthy(g) /\ (client = "live" => RequestedBy(g))
      BY <1>0, <3>1 DEF Headroom
    <3>3. client = "live" => quiet <= MaxWork
      BY <1>0, <2>1, <3>2, CycleAssumption DEF RequestedBy, TypeOK
    <3>4. client' = "live" => RequestedBy(g)'
      BY <1>0, <2>1, <3>3, TurnEnds
    <3>5. Healthy(g)'
      BY <2>1, <3>2 DEF Healthy
    <3>6. QED
      BY <3>4, <3>5 DEF Headroom
  <2>6. QED
    BY <1>0, <2>1, <2>2, <2>3, <2>4, <2>5 DEF CycleInv
<1>4. QED
  BY <1>1, <1>2, <1>3

\* The exchanges with the peer: an answer restarts the idle timer of the other
\* side, a failure closes the client and may cost this folder its turn.
LEMMA ExchangeSteps ==
    ASSUME CycleInv, Dial \/ List \/ Fetch
    PROVE  CycleInv'
<1>. USE DEF world
<1>0. TypeOK /\ ControlInv /\ Headroom /\ misses <= 1 /\ (peer # "up" \/ client = "dead" => misses = 0)
  BY DEF CycleInv
<1>1. CASE Update("error")
  <2>1. /\ client' = "nil" /\ UNCHANGED <<quiet, due, pending, world>>
        /\ client = "dead" \/ peer # "up"
    <3>1. CASE Dial
      BY <1>0, <1>1, <3>1 DEF Dial, Update, ControlInv
    <3>2. CASE List
      BY <1>0, <1>1, <3>2 DEF List, Update, ControlInv, TypeOK, AfterError
    <3>3. CASE Fetch
      BY <1>0, <1>1, <3>3 DEF Fetch, Update, ControlInv, TypeOK, AfterError
    <3>4. QED
      BY <3>1, <3>2, <3>3
  <2>2. misses = 0 /\ (misses' = 0 \/ (misses' = 1 /\ peer = "up" /\ health[f] = "ok"))
    BY <1>0, <1>1, <2>1, UpdateLemma
  <2>3. TypeOK'
    BY <1>0, <1>1, <2>1, UpdateLemma, CycleAssumption DEF TypeOK
  <2>4. ControlInv'
    BY <1>0, <1>1, <2>1, UpdateLemma DEF ControlInv
  <2>5. Headroom'
    BY <1>0, <2>1, <2>2 DEF Headroom, Healthy, TypeOK
  <2>6. QED
    BY <2>1, <2>2, <2>3, <2>4, <2>5 DEF CycleInv
<1>2. CASE ~Update("error")
  <2>1. /\ client' = "live" /\ quiet' = 0 /\ pc' \in {"list", "apply"}
        /\ pc' = "apply" => work' = 0
        /\ left' \in 0..MaxFetches /\ work' \in 0..MaxWork
        /\ client = "live" \/ peer # "down"
        /\ UNCHANGED <<f, status, misses, due, pending, world>>
    <3>1. CASE Dial
      BY <1>0, <1>2, <3>1 DEF Dial, TypeOK
    <3>2. CASE List
      BY <1>0, <1>2, <3>2, CycleAssumption DEF List, TypeOK
    <3>3. CASE Fetch
      BY <1>0, <1>2, <3>3, CycleAssumption DEF Fetch, TypeOK
    <3>4. QED
      BY <3>1, <3>2, <3>3
  <2>2. TypeOK'
    BY <1>0, <2>1, CycleAssumption DEF TypeOK
  <2>3. ControlInv'
    BY <2>1 DEF ControlInv
  <2>4. Headroom'
    <3>1. SUFFICES ASSUME misses > 0 PROVE Headroom'
      BY <2>1 DEF Headroom
    <3>2. PICK g \in Folders : Healthy(g)
      BY <1>0, <3>1 DEF Headroom
    <3>3. RequestedBy(g)'
      BY <2>1, CycleAssumption DEF RequestedBy
    <3>4. QED
      BY <2>1, <3>2, <3>3 DEF Headroom, Healthy
  <2>5. QED
    BY <1>0, <2>1, <2>2, <2>3, <2>4 DEF CycleInv
<1>3. QED
  BY <1>1, <1>2

\* The ticker wakes the worker for the next round.
LEMMA WakeStep ==
    ASSUME CycleInv, Wake
    PROVE  CycleInv'
<1>. USE DEF world
<1>0. TypeOK /\ ControlInv /\ Headroom /\ misses <= 1 /\ (peer # "up" \/ client = "dead" => misses = 0)
  BY DEF CycleInv
<1>1. pending' \in BOOLEAN
  BY Zenon DEF Wake
<1>2. TypeOK' /\ ControlInv'
  BY <1>0, <1>1 DEF TypeOK, ControlInv, Wake
<1>3. Headroom'
  <2>1. SUFFICES ASSUME misses > 0 PROVE Headroom'
    BY DEF Wake, Headroom
  <2>2. PICK g \in Folders : Healthy(g) /\ (client = "live" => RequestedBy(g))
    BY <1>0, <2>1 DEF Headroom
  <2>3. client = "live" => quiet <= MaxWork + Interval
    BY <1>0, <2>2, CycleAssumption DEF Wake, RequestedBy, TypeOK
  <2>4. f = 1 /\ g \in 1..N
    BY <1>0 DEF ControlInv, Wake, Folders
  <2>5. client' = "live" => RequestedBy(g)'
    BY <2>3, <2>4, CycleAssumption DEF Wake, RequestedBy
  <2>6. QED
    BY <2>2, <2>5 DEF Wake, Headroom, Healthy
<1>4. QED
  BY <1>0, <1>2, <1>3 DEF CycleInv, Wake

\* Time passes.  With the margin of InTime it never reaches the deadline of a
\* session that was dialed after a loss.
LEMMA TickStep ==
    ASSUME InTime, CycleInv, Tick
    PROVE  CycleInv'
<1>. USE DEF world
<1>0. TypeOK /\ ControlInv /\ Headroom /\ misses <= 1 /\ (peer # "up" \/ client = "dead" => misses = 0)
  BY DEF CycleInv
<1>1. pending' \in BOOLEAN
  BY <1>0, Zenon DEF Tick, TypeOK
<1>2. TypeOK'
  <2>1. due' \in 1..Interval /\ work' \in 0..MaxWork
    BY <1>0, CycleAssumption DEF TypeOK, Tick
  <2>2. quiet' \in 0..(Idle - 1) /\ client' \in {"nil", "live", "dead"}
    BY <1>0, CycleAssumption DEF TypeOK, Tick
  <2>3. QED
    BY <1>0, <1>1, <2>1, <2>2 DEF TypeOK, Tick
<1>3. ControlInv'
  BY <1>0 DEF ControlInv, Tick
<1>4. ASSUME misses > 0, client = "live"
      PROVE  \E g \in Folders : Healthy(g)' /\ RequestedBy(g)' /\ client' = "live"
  <2>1. PICK g \in Folders : Healthy(g) /\ RequestedBy(g)
    BY <1>0, <1>4 DEF Headroom
  <2>2. CASE pc = "apply"
    <3>1. quiet = work /\ work < MaxWork /\ work' = work + 1
      BY <2>1, <2>2 DEF RequestedBy, Tick
    <3>2. client' = "live" /\ quiet' = quiet + 1
      BY <1>0, <1>4, <3>1, CycleAssumption DEF Tick, InTime, TypeOK
    <3>3. RequestedBy(g)'
      BY <2>2, <3>1, <3>2 DEF RequestedBy, Tick
    <3>4. QED
      BY <2>1, <3>2, <3>3 DEF Healthy, Tick
  <2>3. CASE pc = "wait"
    <3>1. ~pending /\ quiet + due <= MaxWork + Interval
      BY <2>1, <2>3 DEF RequestedBy, Tick
    <3>2. client' = "live" /\ quiet' = quiet + 1
      BY <1>0, <1>4, <3>1, CycleAssumption DEF Tick, InTime, TypeOK
    <3>3. due = 1 => pending'
      BY Zenon DEF Tick
    <3>4. quiet' + (IF pending' THEN 0 ELSE due') <= MaxWork + Interval
      <4>1. quiet \in Nat /\ due \in 1..Interval
        BY <1>0, CycleAssumption DEF TypeOK
      <4>2. CASE pending'
        BY <3>1, <3>2, <4>1, <4>2, CycleAssumption
      <4>3. CASE ~pending'
        <5>1. due' = due - 1
          BY <3>3, <4>1, <4>3, CycleAssumption DEF Tick
        <5>2. quiet' + due' <= MaxWork + Interval
          BY <3>1, <3>2, <4>1, <5>1, CycleAssumption
        <5>3. QED
          BY <4>3, <5>2
      <4>4. QED
        BY <4>2, <4>3
    <3>5. RequestedBy(g)'
      BY <2>3, <3>4 DEF RequestedBy, Tick
    <3>6. QED
      BY <2>1, <3>2, <3>5 DEF Healthy, Tick
  <2>4. QED
    BY <2>2, <2>3 DEF Tick
<1>5. client' = "dead" => misses = 0
  BY <1>0, <1>4, CycleAssumption DEF TypeOK, Tick
<1>6. Headroom'
  <2>1. SUFFICES ASSUME misses > 0 PROVE Headroom'
    BY DEF Tick, Headroom
  <2>2. CASE client = "live"
    BY <1>4, <2>1, <2>2 DEF Headroom
  <2>3. CASE client # "live"
    BY <1>0, <2>1, <2>3 DEF Headroom, Healthy, Tick
  <2>4. QED
    BY <2>2, <2>3
<1>7. QED
  BY <1>0, <1>2, <1>3, <1>5, <1>6 DEF CycleInv, Tick

\* Outages, repairs and changes of a folder's health.
LEMMA WorldSteps ==
    ASSUME CycleInv, PeerLost \/ PeerRefuses \/ PeerBack \/ FolderChanges
    PROVE  CycleInv'
<1>. USE DEF worker, clock
<1>0. TypeOK /\ ControlInv /\ Headroom /\ misses <= 1 /\ (peer # "up" \/ client = "dead" => misses = 0)
  BY DEF CycleInv
<1>1. CASE PeerBack
  BY <1>0, <1>1 DEF PeerBack, CycleInv, TypeOK, ControlInv, Headroom, Healthy, RequestedBy
<1>2. CASE PeerLost \/ PeerRefuses \/ FolderChanges
  <2>1. misses' = 0 /\ events' \in 0..MaxEvents /\ health' \in Health
    BY <1>0, <1>2, CycleAssumption DEF PeerLost, PeerRefuses, FolderChanges, Event, TypeOK, Health
  <2>2. TypeOK'
    BY <1>0, <1>2, <2>1, CycleAssumption DEF PeerLost, PeerRefuses, FolderChanges, TypeOK
  <2>3. ControlInv'
    BY <1>0, <1>2 DEF PeerLost, PeerRefuses, FolderChanges, ControlInv
  <2>4. QED
    BY <2>1, <2>2, <2>3 DEF CycleInv, Headroom
<1>3. QED
  BY <1>1, <1>2

----------------------------------------------------------------------------
\* The margin of the idle timeout is kept in every round: the invariant holds
\* for any number of folders, outages and changes of health.
THEOREM CycleInvHolds == ASSUME InTime PROVE Spec => []CycleInv
<1>1. Init => CycleInv
  BY CycleInit
<1>2. CycleInv /\ [Next]_vars => CycleInv'
  <2>. SUFFICES ASSUME CycleInv, [Next]_vars PROVE CycleInv'
    OBVIOUS
  <2>1. CASE Worker
    BY <2>1, LocalSteps, ExchangeSteps, WakeStep DEF Worker
  <2>2. CASE Tick
    BY <2>2, TickStep, InTime
  <2>3. CASE PeerLost \/ PeerRefuses \/ PeerBack \/ FolderChanges
    BY <2>3, WorldSteps
  <2>4. CASE UNCHANGED vars
    BY <2>4 DEF vars, worker, clock, world, CycleInv, TypeOK, ControlInv, Headroom, Healthy, RequestedBy
  <2>5. QED
    BY <2>1, <2>2, <2>3, <2>4 DEF Next
<1>3. QED
  BY <1>1, <1>2, PTL DEF Spec

\* A session that died costs one turn of one folder: replicate dials again
\* inside the same round and no second folder meets the dead client.
THEOREM OneTurnLostHolds == ASSUME InTime PROVE Spec => []OneTurnLost
<1>1. CycleInv => OneTurnLost
  BY DEF CycleInv, OneTurnLost
<1>2. QED
  BY <1>1, CycleInvHolds, InTime, PTL
============================================================================
