------------------------------- MODULE Server -------------------------------
(***************************************************************************)
(* The goroutines of one daemon: Run of internal/daemon with its workers,  *)
(* Serve of internal/transport with its accept loop, its closer and one    *)
(* goroutine per session, what they share (the context, the table of       *)
(* active connections, Store.mu, the only SQLite connection), and the      *)
(* shutdown that ends with the database closed.                            *)
(*                                                                         *)
(* Peers owe nothing: a connection may stay silent for ever and a fetch    *)
(* may never be answered, so no property below leans on a timeout.         *)
(***************************************************************************)
EXTENDS Naturals, FiniteSets

CONSTANTS
    Conns,         \* connections a peer can have open, each used again later
    Peers,         \* peers this daemon replicates folders from
    MaxSessions,   \* maxSessions of internal/transport
    NoConn

ASSUME ServerAssumption ==
    /\ MaxSessions \in Nat \ {0}
    /\ NoConn \notin Conns
    /\ "scan" \notin Peers

VARIABLES
    run,       \* control point of Run, and of main after it
    stop,      \* Run's context is done
    drained,   \* values Run has received from results
    results,   \* values in the channel
    worker,    \* control points of the scan worker and the replicate workers
    admin,     \* the goroutine of adminServer.Serve
    listening, \* the listener is open
    serve,     \* control point of Serve
    halted,    \* Serve's context is done
    closer,    \* Serve's goroutine that waits for the context
    hand,      \* the connection just accepted
    active,    \* the table of Serve
    conn,      \* state of each connection
    session    \* control point of each session's goroutine

daemonVars == <<run, stop, drained, results, worker, admin>>
serveVars == <<listening, serve, halted, closer, hand, active>>
vars == <<daemonVars, serveVars, conn, session>>

Workers == {"scan"} \cup Peers

TypeOK ==
    /\ run \in {"scan", "listen", "select", "workers", "results", "returned", "closed"}
    /\ stop \in BOOLEAN /\ halted \in BOOLEAN /\ listening \in BOOLEAN
    /\ drained \in 0..2 /\ results \in 0..2
    /\ worker \in [Workers -> {"off", "idle", "call", "lock", "apply", "query", "fetch", "done"}]
    /\ admin \in {"off", "serving", "done"}
    /\ serve \in {"off", "accept", "admit", "cancel", "stopped", "wait", "done"}
    /\ closer \in {"off", "waiting", "sweep", "done"}
    /\ hand \in Conns \cup {NoConn}
    /\ active \subseteq Conns
    /\ conn \in [Conns -> {"none", "open", "closed"}]
    /\ session \in [Conns -> {"none", "read", "backend", "query", "write", "leaving", "left"}]

Init ==
    /\ run = "scan" /\ stop = FALSE /\ drained = 0 /\ results = 0
    /\ worker = [w \in Workers |-> "off"] /\ admin = "off"
    /\ listening = FALSE /\ serve = "off" /\ halted = FALSE /\ closer = "off"
    /\ hand = NoConn /\ active = {}
    /\ conn = [c \in Conns |-> "none"]
    /\ session = [c \in Conns |-> "none"]

\* Store.mu is held by Scan or Apply, Apply keeping it while it fetches.
Locked == \E w \in Workers : worker[w] \in {"apply", "query", "fetch"}

\* db.SetMaxOpenConns(1): one statement or transaction at a time.
PoolBusy ==
    \/ \E w \in Workers : worker[w] = "query"
    \/ \E c \in Conns : session[c] = "query"

\* Who may still touch the database.
UsingStore ==
    \/ run = "scan"
    \/ \E w \in Workers : worker[w] \notin {"off", "done"}
    \/ \E c \in Conns : session[c] \in {"backend", "query"}

----------------------------------------------------------------------------
(* Run.                                                                    *)

\* SIGINT or SIGTERM: signal.NotifyContext ends the context.
Signal ==
    /\ ~stop
    /\ stop' = TRUE
    /\ UNCHANGED <<run, drained, results, worker, admin, serveVars, conn, session>>

\* The first d.scan, before anything listens.
RunScan ==
    /\ run = "scan"
    /\ run' = IF stop THEN "returned" ELSE "listen"
    /\ UNCHANGED <<stop, drained, results, worker, admin, serveVars, conn, session>>

\* A listener, the control socket or its permissions fail: the deferred calls
\* close what was opened, no goroutine has been started.
RunListenFails ==
    /\ run = "listen"
    /\ run' = "returned"
    /\ UNCHANGED <<stop, drained, results, worker, admin, serveVars, conn, session>>

\* Both listeners are open; the servers and the workers are started.
RunListen ==
    /\ run = "listen"
    /\ run' = "select"
    /\ listening' = TRUE /\ serve' = "accept" /\ closer' = "waiting"
    /\ admin' = "serving"
    /\ worker' = [w \in Workers |-> "idle"]
    /\ UNCHANGED <<stop, drained, results, halted, hand, active, conn, session>>

\* The select, then cancel() and the two Close calls.
RunSelect ==
    /\ run = "select"
    /\ \/ stop /\ UNCHANGED <<results, drained>>
       \/ results > 0 /\ results' = results - 1 /\ drained' = drained + 1
    /\ run' = "workers"
    /\ stop' = TRUE
    /\ listening' = FALSE
    /\ UNCHANGED <<worker, admin, serve, halted, closer, hand, active, conn, session>>

RunWorkersWait ==
    /\ run = "workers"
    /\ \A w \in Workers : worker[w] = "done"
    /\ run' = "results"
    /\ UNCHANGED <<stop, drained, results, worker, admin, serveVars, conn, session>>

\* Variant of Servers: Run waits for one of them only.
ServersOne == 1

\* The number of servers Run waits for.
Servers == 2

RunDrain ==
    /\ run = "results"
    /\ IF drained >= Servers
         THEN run' = "returned" /\ UNCHANGED <<results, drained>>
         ELSE results > 0 /\ results' = results - 1 /\ drained' = drained + 1 /\ UNCHANGED run
    /\ UNCHANGED <<stop, worker, admin, serveVars, conn, session>>

\* main: defer d.Close() closes SQLite and the lock of the state directory.
Close ==
    /\ run = "returned"
    /\ run' = "closed"
    /\ UNCHANGED <<stop, drained, results, worker, admin, serveVars, conn, session>>

\* adminServer.Serve returns after adminServer.Close, or by itself on an error.
AdminReturns ==
    /\ admin = "serving"
    /\ admin' = "done"
    /\ results' = results + 1
    /\ UNCHANGED <<run, stop, drained, worker, serveVars, conn, session>>

----------------------------------------------------------------------------
(* The workers: the scan loop, and replicate for each peer.                *)

Step(w, from, to) ==
    /\ worker[w] = from
    /\ worker' = [worker EXCEPT ![w] = to]
    /\ UNCHANGED <<run, stop, drained, results, admin, serveVars, conn, session>>

\* The ticker: a scan begins even if the context is done as well, a cycle with
\* its Dial and List only after a look at the context.
WorkerTick(w) ==
    \/ w = "scan" /\ Step(w, "idle", "lock")
    \/ w # "scan" /\ ~stop /\ Step(w, "idle", "call")

\* The peer answers List; an error or an empty list ends the turn.
WorkerListed(w) == Step(w, "call", "lock") \/ Step(w, "call", "idle")

\* s.mu.Lock() of Scan and Apply.
WorkerLock(w) == ~Locked /\ Step(w, "lock", "apply")

\* A statement or a transaction; an ended context refuses to start one.
WorkerQuery(w) ==
    \/ ~stop /\ ~PoolBusy /\ Step(w, "apply", "query")
    \/ stop /\ Step(w, "apply", "idle")

\* After it: fetch a block, take the next entry, or finish the turn.
WorkerQueried(w) ==
    \/ w \in Peers /\ Step(w, "query", "fetch")
    \/ Step(w, "query", "idle")

\* The block arrives, or the fetch fails; Apply returns and unlocks.
WorkerFetched(w) == Step(w, "fetch", "apply") \/ Step(w, "fetch", "idle")

\* context.AfterFunc closes the client's connection when the context ends.
WorkerInterrupted(w) == stop /\ (Step(w, "call", "idle") \/ Step(w, "fetch", "idle"))

\* case <-ctx.Done(): return
WorkerReturns(w) == stop /\ Step(w, "idle", "done")

----------------------------------------------------------------------------
(* Serve.                                                                  *)

\* Run's context is the parent of Serve's.
Halted == halted \/ stop

\* listener.Accept() returns a connection that a peer has opened.
Accept(c) ==
    /\ serve = "accept" /\ listening
    /\ conn[c] = "none" /\ session[c] = "none"
    /\ conn' = [conn EXCEPT ![c] = "open"]
    /\ hand' = c
    /\ serve' = "admit"
    /\ UNCHANGED <<daemonVars, listening, halted, closer, active, session>>

\* listener.Accept() fails: the listener was closed, or a system error.
\* The deferred functions cancel the context and close the listener.
AcceptFails ==
    /\ serve = "accept"
    /\ serve' = "cancel"
    /\ UNCHANGED <<daemonVars, listening, halted, closer, hand, active, conn, session>>

\* Variant of Admissible without the context.
AdmissibleAlways == Cardinality(active) < MaxSessions

Admissible == Cardinality(active) < MaxSessions /\ ~Halted

\* Under mu: refuse the connection, or enter it and start its goroutine.
Admit ==
    /\ serve = "admit"
    /\ IF Admissible
         THEN /\ active' = active \cup {hand}
              /\ session' = [session EXCEPT ![hand] = "read"]
              /\ UNCHANGED conn
         ELSE /\ conn' = [conn EXCEPT ![hand] = "none"]
              /\ UNCHANGED <<active, session>>
    /\ hand' = NoConn
    /\ serve' = "accept"
    /\ UNCHANGED <<daemonVars, listening, halted, closer>>

\* The deferred cancel(); <-stopped; wg.Wait(), then listener.Close().
ServeCancel ==
    /\ serve = "cancel"
    /\ halted' = TRUE
    /\ serve' = "stopped"
    /\ UNCHANGED <<daemonVars, listening, closer, hand, active, conn, session>>

ServeStopped ==
    /\ serve = "stopped" /\ closer = "done"
    /\ serve' = "wait"
    /\ UNCHANGED <<daemonVars, listening, halted, closer, hand, active, conn, session>>

\* Variant of SessionsDone: Serve does not wait.
SessionsAssumedDone == TRUE

\* The WaitGroup counts the goroutines of the sessions.
SessionsDone == \A c \in Conns : session[c] = "none"

ServeReturns ==
    /\ serve = "wait" /\ SessionsDone
    /\ serve' = "done"
    /\ listening' = FALSE
    /\ results' = results + 1
    /\ UNCHANGED <<run, stop, drained, worker, admin, halted, closer, hand, active, conn, session>>

\* The closer: <-ctx.Done(), listener.Close() ...
CloserWakes ==
    /\ closer = "waiting" /\ Halted
    /\ closer' = "sweep"
    /\ listening' = FALSE
    /\ UNCHANGED <<daemonVars, serve, halted, hand, active, conn, session>>

\* ... then, under mu, every connection of the table is closed.
CloserSweeps ==
    /\ closer = "sweep"
    /\ closer' = "done"
    /\ conn' = [c \in Conns |-> IF c \in active THEN "closed" ELSE conn[c]]
    /\ UNCHANGED <<daemonVars, listening, serve, halted, hand, active, session>>

----------------------------------------------------------------------------
(* A session: serveConn and the deferred function of its goroutine.        *)

Turn(c, from, to) ==
    /\ session[c] = from
    /\ session' = [session EXCEPT ![c] = to]
    /\ UNCHANGED <<daemonVars, serveVars, conn>>

\* The handshake goes on or a request arrives.
SessionRequest(c) == conn[c] = "open" /\ Turn(c, "read", "backend")

\* The peer hangs up, or a deadline of the connection passes.
Hangup(c) ==
    /\ conn[c] = "open" /\ session[c] # "none"
    /\ conn' = [conn EXCEPT ![c] = "closed"]
    /\ UNCHANGED <<daemonVars, serveVars, session>>

\* Variant of BackendReady: ReadBlock waits for Store.mu as well.
BackendReadyLocked(c) == ~PoolBusy /\ ~Locked

\* List and ReadBlock need the connection of the pool and no mutex.
BackendReady(c) == ~PoolBusy

SessionQuery(c) ==
    \/ ~Halted /\ BackendReady(c) /\ Turn(c, "backend", "query")
    \/ Halted /\ Turn(c, "backend", "write")

SessionQueried(c) == Turn(c, "query", "write")

\* The response is written; the peer may be slow to take it.
SessionRespond(c) == conn[c] = "open" /\ Turn(c, "write", "read")

\* Reading from or writing to a closed connection fails, or the session
\* ends itself over an invalid request.
SessionFails(c) == Turn(c, "read", "leaving") \/ Turn(c, "write", "leaving")

\* Variant of Released: the entry stays in the table.
ReleasedNot(c) == active

Released(c) == active \ {c}

\* conn.Close(), and the entry leaves the table under mu ...
SessionLeaves(c) ==
    /\ session[c] = "leaving"
    /\ session' = [session EXCEPT ![c] = "left"]
    /\ conn' = [conn EXCEPT ![c] = "none"]
    /\ active' = Released(c)
    /\ UNCHANGED <<daemonVars, listening, serve, halted, closer, hand>>

\* ... then wg.Done().
SessionDone(c) == Turn(c, "left", "none")

----------------------------------------------------------------------------
(* Fairness.  A goroutine that can run does; the pool of database/sql is   *)
(* first come first served, so a session in the backend is not passed over *)
(* for ever; a select chooses each ready case again and again.  Nothing is *)
(* assumed of peers, of timeouts, or of errors.                            *)

\* Steps taken once in a run: one fairness condition is enough for them all.
RunStep ==
    \/ RunScan \/ RunListen \/ RunSelect \/ RunWorkersWait \/ RunDrain \/ Close
    \/ CloserWakes \/ CloserSweeps \/ (stop /\ AdminReturns)

ServeStep == Admit \/ ServeCancel \/ ServeStopped \/ ServeReturns \/ (~listening /\ AcceptFails)

WorkerStep(w) ==
    \/ WorkerLock(w) \/ WorkerQuery(w) \/ WorkerQueried(w) \/ WorkerInterrupted(w)
    \/ w # "scan" /\ WorkerReturns(w)

SessionStep(c) ==
    \/ SessionQuery(c) \/ SessionQueried(c) \/ SessionLeaves(c) \/ SessionDone(c)
    \/ conn[c] = "closed" /\ SessionFails(c)

Next ==
    \/ Signal \/ RunStep \/ RunListenFails \/ AdminReturns
    \/ ServeStep \/ AcceptFails
    \/ \E w \in Workers :
          \/ WorkerStep(w) \/ WorkerTick(w) \/ WorkerListed(w) \/ WorkerFetched(w)
          \/ WorkerReturns(w)
    \/ \E c \in Conns :
          \/ SessionStep(c) \/ Accept(c) \/ SessionRequest(c) \/ Hangup(c)
          \/ SessionRespond(c) \/ SessionFails(c)

Spec == Init /\ [][Next]_vars

FairSpec ==
    /\ Spec
    /\ WF_vars(RunStep) /\ WF_vars(ServeStep)
    /\ \A w \in Workers : WF_vars(WorkerStep(w))
    /\ SF_vars(WorkerReturns("scan"))
    /\ \A c \in Conns : SF_vars(SessionStep(c))

----------------------------------------------------------------------------
(* Properties.                                                             *)

\* Nobody can touch the database once main has closed it: "Both servers must
\* have stopped before the caller closes SQLite" (Run), and with them every
\* session and every worker.
StoreOpenWhileUsed == run = "closed" => ~UsingStore

\* Never more than MaxSessions sessions at work, and none of them is missed by
\* the closer: after its sweep no session is left with a connection on which
\* it could wait for its peer.
Serving == {c \in Conns : session[c] \notin {"none", "left"}}

SlotsAccounted ==
    /\ Cardinality(Serving) <= MaxSessions
    /\ closer = "done" => \A c \in Serving : conn[c] = "closed"

\* A signal ends the process: with silent peers, sessions in every state and
\* connections arriving meanwhile, Run returns and the database is closed.
ShutdownCompletes == stop ~> run = "closed"

\* "reads remain available" (Store.mu): a request inside the backend gets on,
\* even while Apply holds the mutex and waits for a peer that never answers.
\* Two daemons that replicate from each other therefore never wait for each
\* other in a circle.
ReadsAvailable == \A c \in Conns : session[c] = "backend" ~> session[c] # "backend"

\* Whenever the connection of a session dies, its slot is given back.
SlotFreed == \A c \in Conns : (c \in active /\ conn[c] = "closed") ~> c \notin active

(* The inductive invariant behind StoreOpenWhileUsed and SlotsAccounted.   *)

\* The servers that have not handed in their result.
Owed == (IF serve = "done" THEN 0 ELSE 1) + (IF admin = "done" THEN 0 ELSE 1)

NothingStarted == serve = "off" /\ admin = "off" /\ \A w \in Workers : worker[w] = "off"
WorkersDone == \A w \in Workers : worker[w] = "done"

\* The table lists the sessions at work; the accept loop holds a connection
\* that nobody else knows of; Serve returns after its sessions.
TableInv ==
    /\ active = Serving /\ IsFiniteSet(active)
    /\ Cardinality(active) <= MaxSessions
    /\ serve \in {"off", "done"} => SessionsDone
    /\ serve = "admit" => hand \in Conns /\ session[hand] = "none" /\ conn[hand] = "open"

\* After the sweep nothing is admitted, and every connection listed is closed.
CloserInv ==
    /\ closer \in {"sweep", "done"} => Halted
    /\ closer = "done" => \A c \in active : conn[c] = "closed"

\* Run leaves only when both servers have handed in their result.
RunInv ==
    /\ run \in {"scan", "listen"} => NothingStarted /\ results = 0 /\ drained = 0
    /\ run \in {"select", "workers", "results"} =>
           serve # "off" /\ admin # "off" /\ results + drained + Owed = 2
    /\ run = "results" => WorkersDone
    /\ run \in {"returned", "closed"} =>
           NothingStarted \/ (serve = "done" /\ admin = "done" /\ WorkersDone)

ServerInv == TypeOK /\ TableInv /\ CloserInv /\ RunInv
============================================================================
