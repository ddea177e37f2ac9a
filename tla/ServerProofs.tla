---------------------------- MODULE ServerProofs ----------------------------
(* Proofs about Server, for any number of peers, connections and slots.   *)
EXTENDS Server, FiniteSetTheorems, TLAPS

\* The invariant holds before Run has done anything.
LEMMA ServerInit == Init => ServerInv
<1>. SUFFICES ASSUME Init PROVE ServerInv
  OBVIOUS
<1>1. TypeOK
  <2>1. stop \in BOOLEAN /\ halted \in BOOLEAN /\ listening \in BOOLEAN
    BY Zenon DEF Init
  <2>2. QED
    BY <2>1 DEF Init, TypeOK
<1>2. Serving = {} /\ IsFiniteSet({}) /\ Cardinality({}) = 0
  BY FS_EmptySet DEF Init, Serving
<1>3. TableInv
  BY <1>2, ServerAssumption DEF Init, TableInv, SessionsDone
<1>4. CloserInv /\ RunInv
  BY DEF Init, CloserInv, RunInv, NothingStarted
<1>5. QED
  BY <1>1, <1>3, <1>4 DEF ServerInv

----------------------------------------------------------------------------
(* Steps of Run and of the servers' goroutines that leave the sessions and *)
(* the table alone.                                                        *)

\* The table and the sessions are untouched; Serve moves between control
\* points at which it holds no connection and its sessions may be at work.
LEMMA TableKept ==
    ASSUME TableInv, UNCHANGED <<active, session>>,
           serve' \in {"off", "done"} => serve' = serve \/ SessionsDone,
           serve' = "admit" => serve = "admit" /\ UNCHANGED <<hand, conn>>
    PROVE  TableInv'
BY DEF TableInv, Serving, SessionsDone

\* The context never comes back; the closer has not moved.
LEMMA CloserKept ==
    ASSUME CloserInv, UNCHANGED <<closer, active, conn>>,
           stop => stop', halted => halted'
    PROVE  CloserInv'
BY DEF CloserInv, Halted

\* A signal and the steps of Run and main.
LEMMA RunActions ==
    ASSUME ServerInv,
           \/ Signal \/ RunScan \/ RunListen \/ RunListenFails \/ RunSelect
           \/ RunWorkersWait \/ RunDrain \/ Close \/ AdminReturns
    PROVE  ServerInv'
<1>. USE DEF serveVars
<1>0. TypeOK /\ TableInv /\ CloserInv /\ RunInv
  BY DEF ServerInv
<1>1. TypeOK'
  <2>0. stop' \in BOOLEAN /\ halted' \in BOOLEAN /\ listening' \in BOOLEAN
    BY <1>0, Zenon DEF TypeOK, Signal, RunScan, RunListen, RunListenFails, RunSelect, RunWorkersWait,
                       RunDrain, Close, AdminReturns
  <2>1. CASE Signal \/ RunScan \/ RunListen \/ RunListenFails \/ RunWorkersWait \/ Close
    BY <1>0, <2>0, <2>1 DEF TypeOK, Signal, RunScan, RunListen, RunListenFails, RunWorkersWait, Close
  <2>2. CASE RunSelect
    BY <1>0, <2>0, <2>2 DEF TypeOK, RunSelect, RunInv, Owed
  <2>3. CASE RunDrain
    BY <1>0, <2>3 DEF TypeOK, RunDrain, RunInv, Owed, Servers
  <2>4. CASE AdminReturns
    BY <1>0, <2>4 DEF TypeOK, AdminReturns, RunInv, Owed, NothingStarted
  <2>5. QED
    BY <2>1, <2>2, <2>3, <2>4
<1>2. TableInv'
  BY <1>0, TableKept DEF Signal, RunScan, RunListen, RunListenFails, RunSelect, RunWorkersWait,
                         RunDrain, Close, AdminReturns
<1>3. CloserInv'
  <2>1. CASE RunListen
    BY <2>1, <1>0 DEF RunListen, CloserInv
  <2>2. CASE ~RunListen
    BY <1>0, <2>2, CloserKept
      DEF Signal, RunScan, RunListenFails, RunSelect, RunWorkersWait, RunDrain, Close, AdminReturns
  <2>3. QED
    BY <2>1, <2>2
<1>4. RunInv'
  <2>1. CASE Signal \/ RunScan \/ RunListenFails \/ RunWorkersWait \/ Close
    BY <1>0, <2>1 DEF TypeOK, RunInv, Signal, RunScan, RunListenFails, RunWorkersWait, Close,
                      NothingStarted, WorkersDone, Owed
  <2>2. CASE RunListen
    BY <1>0, <2>2 DEF TypeOK, RunInv, RunListen, NothingStarted, Owed
  <2>3. CASE RunSelect
    BY <1>0, <2>3 DEF TypeOK, RunInv, RunSelect, Owed
  <2>4. CASE RunDrain
    BY <1>0, <2>4 DEF TypeOK, RunInv, RunDrain, Servers, Owed, WorkersDone
  <2>5. CASE AdminReturns
    BY <1>0, <2>5 DEF TypeOK, RunInv, AdminReturns, Owed, WorkersDone, NothingStarted
  <2>6. QED
    BY <2>1, <2>2, <2>3, <2>4, <2>5
<1>5. QED
  BY <1>1, <1>2, <1>3, <1>4 DEF ServerInv

\* A step of a worker between two of its control points.
LEMMA WorkerSteps ==
    ASSUME ServerInv, NEW w \in Workers,
           NEW from \in {"idle", "call", "lock", "apply", "query", "fetch"},
           NEW to \in {"idle", "call", "lock", "apply", "query", "fetch", "done"},
           Step(w, from, to)
    PROVE  ServerInv'
<1>. USE DEF serveVars
<1>0. TypeOK /\ TableInv /\ CloserInv /\ RunInv
  BY DEF ServerInv
<1>1. TypeOK'
  BY <1>0 DEF TypeOK, Step
<1>2. TableInv' /\ CloserInv'
  BY <1>0, TableKept, CloserKept DEF Step
<1>3. ~NothingStarted /\ ~WorkersDone
  BY DEF Step, NothingStarted, WorkersDone
<1>4. RunInv'
  BY <1>0, <1>3 DEF RunInv, Step, Owed
<1>5. QED
  BY <1>1, <1>2, <1>4 DEF ServerInv

\* The scan loop and the replicate goroutines.
LEMMA WorkerActions ==
    ASSUME ServerInv, NEW w \in Workers,
           \/ WorkerStep(w) \/ WorkerTick(w) \/ WorkerListed(w) \/ WorkerFetched(w)
           \/ WorkerReturns(w)
    PROVE  ServerInv'
BY WorkerSteps DEF WorkerStep, WorkerTick, WorkerListed, WorkerFetched, WorkerReturns, WorkerLock,
                   WorkerQuery, WorkerQueried, WorkerInterrupted

----------------------------------------------------------------------------
(* Serve, its closer and its sessions.                                     *)

\* The accept loop, admission included, and the way Serve returns.
LEMMA ServeActions ==
    ASSUME ServerInv,
           \/ \E c \in Conns : Accept(c)
           \/ AcceptFails \/ Admit \/ ServeCancel \/ ServeStopped \/ ServeReturns
    PROVE  ServerInv'
<1>. USE DEF daemonVars
<1>0. TypeOK /\ TableInv /\ CloserInv /\ RunInv
  BY DEF ServerInv
<1>1. CASE \E c \in Conns : Accept(c)
  <2>1. PICK c \in Conns : Accept(c)
    BY <1>1
  <2>2. c \notin active
    BY <2>1, <1>0 DEF Accept, TableInv, Serving
  <2>3. TypeOK'
    BY <1>0, <2>1 DEF TypeOK, Accept
  <2>4. TableInv'
    BY <1>0, <2>1 DEF TypeOK, TableInv, Accept, Serving, SessionsDone
  <2>5. CloserInv'
    BY <1>0, <2>1, <2>2 DEF TypeOK, CloserInv, Accept, Halted
  <2>6. RunInv'
    BY <1>0, <2>1 DEF RunInv, Accept, Owed, NothingStarted, WorkersDone
  <2>7. QED
    BY <2>3, <2>4, <2>5, <2>6 DEF ServerInv
<1>2. CASE AcceptFails \/ ServeCancel \/ ServeStopped
  <2>0. halted' \in BOOLEAN
    BY <1>0, <1>2, Zenon DEF TypeOK, AcceptFails, ServeCancel, ServeStopped
  <2>1. TypeOK'
    BY <1>0, <1>2, <2>0 DEF TypeOK, AcceptFails, ServeCancel, ServeStopped
  <2>2. TableInv' /\ CloserInv'
    BY <1>0, <1>2, TableKept, CloserKept DEF AcceptFails, ServeCancel, ServeStopped
  <2>3. RunInv'
    BY <1>0, <1>2 DEF RunInv, AcceptFails, ServeCancel, ServeStopped, Owed, NothingStarted, WorkersDone
  <2>4. QED
    BY <2>1, <2>2, <2>3 DEF ServerInv
<1>3. CASE ServeReturns
  <2>0. listening' \in BOOLEAN
    BY <1>3, Zenon DEF ServeReturns
  <2>1. TypeOK'
    BY <1>0, <1>3, <2>0 DEF TypeOK, ServeReturns, RunInv, Owed, NothingStarted
  <2>2. TableInv' /\ CloserInv'
    BY <1>0, <1>3, TableKept, CloserKept DEF ServeReturns
  <2>3. RunInv'
    BY <1>0, <1>3 DEF TypeOK, RunInv, ServeReturns, Owed, NothingStarted, WorkersDone
  <2>4. QED
    BY <2>1, <2>2, <2>3 DEF ServerInv
<1>4. CASE Admit
  <2>1. TypeOK'
    BY <1>0, <1>4 DEF TypeOK, Admit, TableInv
  <2>2. RunInv'
    BY <1>0, <1>4 DEF RunInv, Admit, Owed, NothingStarted, WorkersDone
  <2>3. hand \in Conns /\ session[hand] = "none" /\ hand \notin active
    BY <1>0, <1>4 DEF Admit, TableInv, Serving
  <2>4. CASE Admissible
    <3>1. /\ active' = active \cup {hand}
          /\ session' = [session EXCEPT ![hand] = "read"]
          /\ UNCHANGED <<conn, closer, halted, stop>> /\ serve' = "accept"
      BY <1>4, <2>4 DEF Admit
    <3>2. Serving' = Serving \cup {hand}
      BY <1>0, <2>3, <3>1 DEF Serving, TypeOK
    <3>3. IsFiniteSet(active') /\ Cardinality(active') = Cardinality(active) + 1
      BY <1>0, <2>3, <3>1, FS_AddElement DEF TableInv
    <3>4. Cardinality(active) \in Nat
      BY <1>0, FS_CardinalityType DEF TableInv
    <3>5. TableInv'
      BY <1>0, <2>4, <3>1, <3>2, <3>3, <3>4, ServerAssumption DEF TableInv, Admissible
    <3>6. CloserInv'
      BY <1>0, <2>4, <3>1 DEF CloserInv, Admissible, Halted
    <3>7. QED
      BY <2>1, <2>2, <3>5, <3>6 DEF ServerInv
  <2>5. CASE ~Admissible
    <3>1. /\ conn' = [conn EXCEPT ![hand] = "none"]
          /\ UNCHANGED <<active, session, closer, halted, stop>> /\ serve' = "accept"
      BY <1>4, <2>5 DEF Admit
    <3>2. TableInv'
      BY <1>0, <3>1, TableKept
    <3>3. CloserInv'
      BY <1>0, <2>3, <3>1 DEF CloserInv, Halted, TypeOK
    <3>4. QED
      BY <2>1, <2>2, <3>2, <3>3 DEF ServerInv
  <2>6. QED
    BY <2>4, <2>5
<1>5. QED
  BY <1>1, <1>2, <1>3, <1>4

\* The goroutine that waits for the context and closes every connection.
LEMMA CloserActions ==
    ASSUME ServerInv, CloserWakes \/ CloserSweeps
    PROVE  ServerInv'
<1>. USE DEF daemonVars
<1>0. TypeOK /\ TableInv /\ CloserInv /\ RunInv
  BY DEF ServerInv
<1>1. TypeOK'
  <2>1. listening' \in BOOLEAN
    BY <1>0, Zenon DEF TypeOK, CloserWakes, CloserSweeps
  <2>2. QED
    BY <1>0, <2>1 DEF TypeOK, CloserWakes, CloserSweeps
<1>2. TableInv'
  <2>1. serve = "admit" => hand \notin active
    BY <1>0 DEF TableInv, Serving
  <2>2. QED
    BY <1>0, <2>1 DEF TypeOK, TableInv, Serving, SessionsDone, CloserWakes, CloserSweeps
<1>3. CloserInv'
  BY <1>0 DEF TypeOK, CloserInv, CloserWakes, CloserSweeps, Halted
<1>4. RunInv'
  BY <1>0 DEF RunInv, CloserWakes, CloserSweeps, Owed, NothingStarted, WorkersDone
<1>5. QED
  BY <1>1, <1>2, <1>3, <1>4 DEF ServerInv

\* A session moves between two control points at which it is in the table, or
\* between two at which it is not.
LEMMA TurnSteps ==
    ASSUME ServerInv, NEW c \in Conns,
           NEW from \in {"read", "backend", "query", "write", "left"},
           NEW to \in {"read", "backend", "query", "write", "leaving", "none"},
           from = "left" <=> to = "none",
           Turn(c, from, to)
    PROVE  ServerInv'
<1>. USE DEF daemonVars, serveVars
<1>0. TypeOK /\ TableInv /\ CloserInv /\ RunInv
  BY DEF ServerInv
<1>1. TypeOK'
  BY <1>0 DEF TypeOK, Turn
<1>2. Serving' = Serving
  BY <1>0 DEF TypeOK, Turn, Serving
<1>3. SessionsDone => FALSE
  BY DEF Turn, SessionsDone
<1>4. TableInv'
  BY <1>0, <1>2, <1>3 DEF TypeOK, TableInv, Turn
<1>5. CloserInv' /\ RunInv'
  BY <1>0 DEF CloserInv, RunInv, Turn, Halted, Owed, NothingStarted, WorkersDone
<1>6. QED
  BY <1>1, <1>4, <1>5 DEF ServerInv

\* serveConn, a hangup, and the deferred function that frees the slot.
LEMMA SessionActions ==
    ASSUME ServerInv, NEW c \in Conns,
           \/ SessionStep(c) \/ SessionRequest(c) \/ Hangup(c)
           \/ SessionRespond(c) \/ SessionFails(c)
    PROVE  ServerInv'
<1>. USE DEF daemonVars, serveVars
<1>0. TypeOK /\ TableInv /\ CloserInv /\ RunInv
  BY DEF ServerInv
<1>1. CASE Hangup(c)
  <2>1. TypeOK'
    BY <1>0, <1>1 DEF TypeOK, Hangup
  <2>2. TableInv'
    BY <1>0, <1>1 DEF TypeOK, TableInv, Hangup, Serving, SessionsDone
  <2>3. CloserInv' /\ RunInv'
    BY <1>0, <1>1 DEF TypeOK, CloserInv, RunInv, Hangup, Halted, Owed, NothingStarted, WorkersDone
  <2>4. QED
    BY <2>1, <2>2, <2>3 DEF ServerInv
<1>2. CASE SessionLeaves(c)
  <2>1. TypeOK'
    BY <1>0, <1>2 DEF TypeOK, SessionLeaves, Released
  <2>2. c \in active /\ active' = active \ {c}
    BY <1>0, <1>2 DEF TableInv, Serving, SessionLeaves, Released
  <2>3. IsFiniteSet(active') /\ Cardinality(active') = Cardinality(active) - 1
    BY <1>0, <2>2, FS_RemoveElement DEF TableInv
  <2>4. Cardinality(active) \in Nat
    BY <1>0, FS_CardinalityType DEF TableInv
  <2>5. Serving' = Serving \ {c}
    BY <1>0, <1>2 DEF TypeOK, SessionLeaves, Serving
  <2>6. serve \notin {"off", "done"}
    BY <1>0, <1>2 DEF TableInv, SessionsDone, SessionLeaves
  <2>7. TableInv'
    BY <1>0, <1>2, <2>2, <2>3, <2>4, <2>5, <2>6, ServerAssumption DEF TypeOK, TableInv, SessionLeaves
  <2>8. CloserInv' /\ RunInv'
    BY <1>0, <1>2, <2>2
      DEF TypeOK, CloserInv, RunInv, SessionLeaves, Halted, Owed, NothingStarted, WorkersDone
  <2>9. QED
    BY <2>1, <2>7, <2>8 DEF ServerInv
<1>3. CASE \/ SessionRequest(c) \/ SessionQuery(c) \/ SessionQueried(c) \/ SessionRespond(c)
           \/ SessionFails(c) \/ SessionDone(c)
  BY <1>3, TurnSteps DEF SessionRequest, SessionQuery, SessionQueried, SessionRespond,
                         SessionFails, SessionDone
<1>4. QED
  BY <1>1, <1>2, <1>3 DEF SessionStep

----------------------------------------------------------------------------
\* The invariant of the daemon's goroutines holds in every state of every run,
\* whatever the peers, the signals and the errors do.
THEOREM ServerInvHolds == Spec => []ServerInv
<1>1. Init => ServerInv
  BY ServerInit
<1>2. ServerInv /\ [Next]_vars => ServerInv'
  <2>. SUFFICES ASSUME ServerInv, [Next]_vars PROVE ServerInv'
    OBVIOUS
  <2>1. CASE Signal \/ RunStep \/ RunListenFails \/ AdminReturns
    BY <2>1, RunActions, CloserActions DEF RunStep
  <2>2. CASE ServeStep \/ AcceptFails
    BY <2>2, ServeActions DEF ServeStep
  <2>3. ASSUME NEW w \in Workers,
               \/ WorkerStep(w) \/ WorkerTick(w) \/ WorkerListed(w) \/ WorkerFetched(w)
               \/ WorkerReturns(w)
        PROVE  ServerInv'
    BY <2>3, WorkerActions
  <2>4. ASSUME NEW c \in Conns,
               \/ SessionStep(c) \/ Accept(c) \/ SessionRequest(c) \/ Hangup(c)
               \/ SessionRespond(c) \/ SessionFails(c)
        PROVE  ServerInv'
    BY <2>4, SessionActions, ServeActions
  <2>5. CASE UNCHANGED vars
    BY <2>5 DEF vars, daemonVars, serveVars, ServerInv, TypeOK, TableInv, CloserInv, RunInv,
                Serving, SessionsDone, Halted, NothingStarted, Owed, WorkersDone
  <2>6. QED
    BY <2>1, <2>2, <2>3, <2>4, <2>5 DEF Next
<1>3. QED
  BY <1>1, <1>2, PTL DEF Spec

\* When main has closed SQLite no session, no worker and no scan can touch it
\* (Run: "Both servers must have stopped before the caller closes SQLite").
THEOREM StoreOpenWhileUsedHolds == Spec => []StoreOpenWhileUsed
<1>1. ServerInv => StoreOpenWhileUsed
  BY DEF ServerInv, TableInv, RunInv, StoreOpenWhileUsed, UsingStore, NothingStarted, WorkersDone,
         SessionsDone
<1>2. QED
  BY <1>1, ServerInvHolds, PTL

\* At most maxSessions sessions are at work, and after the sweep of Serve's
\* closer none of them is left with an open connection.
THEOREM SlotsAccountedHolds == Spec => []SlotsAccounted
<1>1. ServerInv => SlotsAccounted
  BY DEF ServerInv, TableInv, CloserInv, SlotsAccounted
<1>2. QED
  BY <1>1, ServerInvHolds, PTL
============================================================================
