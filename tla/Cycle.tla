------------------------------- MODULE Cycle -------------------------------
(***************************************************************************)
(* replicate of internal/daemon in time: the folders of one peer are       *)
(* synchronised one after the other over one client, the ticker starts the *)
(* next round, and the serving side of internal/transport drops a session  *)
(* on which no request arrived for idleTimeout.                            *)
(*                                                                         *)
(* What Apply does to a folder is in Replica, what an operation does on    *)
(* the wire in Session; here an exchange with a reachable peer takes no    *)
(* time and only waiting and local work (hashing files that did not        *)
(* change, waiting for Store.mu) do.                                       *)
(***************************************************************************)
EXTENDS Naturals

CONSTANTS
    N,           \* number of folders received from the peer, in sorted order
    Interval,    \* scan_interval, in ticks of the clock
    Idle,        \* idleTimeout
    MaxWork,     \* bound: local work of Apply without a request
    MaxFetches,  \* bound: blocks fetched for a folder in one round
    MaxEvents    \* bound: outages of the peer and changes of a folder's health

ASSUME CycleAssumption ==
    /\ N \in Nat \ {0} /\ Interval \in Nat \ {0} /\ Idle \in Nat \ {0}
    /\ MaxWork \in Nat /\ MaxFetches \in Nat /\ MaxEvents \in Nat

Folders == 1..N

VARIABLES
    pc,       \* control point of replicate
    f,        \* the folder at work
    client,   \* "nil", "live", or "dead": the other side is gone, unnoticed
    left,     \* blocks still to be fetched for the folder
    work,     \* ticks of local work since the last answer
    status,   \* FolderStatus of each folder
    due,      \* ticks until the ticker fires
    pending,  \* the ticker's channel holds a tick
    quiet,    \* ticks since the serving side began to wait for a request
    peer,     \* "up", "down", or "refusing": its own scan fails
    health,   \* what a folder's own state makes of it
    events,   \* ghost: outages and changes of health so far
    misses    \* ghost: turns of healthy folders that failed since, peer up

worker == <<pc, f, client, left, work, status, misses>>
clock == <<due, pending, quiet>>
world == <<peer, health, events>>
vars == <<worker, clock, world>>

\* "conflict": an entry of the folder is refused with ErrLocalChange.
\* "unmounted": CheckFolder fails.
Health == [Folders -> {"ok", "conflict", "unmounted"}]

TypeOK ==
    /\ pc \in {"folder", "dial", "list", "apply", "wait"}
    /\ f \in Folders
    /\ client \in {"nil", "live", "dead"}
    /\ left \in 0..MaxFetches /\ work \in 0..MaxWork
    /\ status \in [Folders -> {"none", "ok", "error"}]
    /\ due \in 1..Interval /\ pending \in BOOLEAN /\ quiet \in 0..(Idle - 1)
    /\ peer \in {"up", "down", "refusing"} /\ health \in Health /\ events \in 0..MaxEvents
    /\ misses \in 0..N + 1

Init ==
    /\ pc = "folder" /\ f = 1 /\ client = "nil" /\ left = 0 /\ work = 0
    /\ status = [g \in Folders |-> "none"]
    /\ due = Interval /\ pending = FALSE /\ quiet = 0
    /\ peer = "up" /\ health \in Health /\ events = 0 /\ misses = 0

----------------------------------------------------------------------------
(* The worker.                                                             *)

\* Variant of AfterError: the closed client is used again.
AfterErrorKept == client' = "dead"

\* client.Close(); client = nil
AfterError == client' = "nil"

\* d.update(folder.ID, ...), then the next folder of the round or the select.
Update(s) ==
    /\ status' = [status EXCEPT ![f] = s]
    /\ f' = IF f = N THEN 1 ELSE f + 1
    /\ pc' = IF f = N THEN "wait" ELSE "folder"
    /\ left' = 0 /\ work' = 0
    /\ misses' = IF s = "error" /\ peer = "up" /\ health[f] = "ok" /\ misses <= N
                   THEN misses + 1 ELSE misses

\* store.CheckFolder
CheckFolder ==
    /\ pc = "folder"
    /\ IF health[f] = "unmounted"
         THEN Update("error") /\ UNCHANGED client
         ELSE /\ pc' = IF client = "nil" THEN "dial" ELSE "list"
              /\ UNCHANGED <<f, client, left, work, status, misses>>
    /\ UNCHANGED <<clock, world>>

\* transport.Dial; a new session begins to wait for a request.
Dial ==
    /\ pc = "dial"
    /\ IF peer # "down"
         THEN /\ client' = "live" /\ quiet' = 0 /\ pc' = "list"
              /\ UNCHANGED <<f, left, work, status, misses>>
         ELSE Update("error") /\ UNCHANGED <<client, quiet>>
    /\ UNCHANGED <<due, pending, world>>

\* client.List: the answer says how many blocks have changed, or it is an error
\* message, or the session is gone.
List ==
    /\ pc = "list"
    /\ \/ /\ client = "live" /\ peer = "up"
          /\ left' \in 0..MaxFetches
          /\ work' = 0 /\ quiet' = 0 /\ pc' = "apply"
          /\ UNCHANGED <<f, client, status, misses>>
       \/ /\ client # "live" \/ peer # "up"
          /\ Update("error") /\ AfterError /\ UNCHANGED quiet
    /\ UNCHANGED <<due, pending, world>>

\* client.ReadBlock in the middle of Apply.
Fetch ==
    /\ pc = "apply" /\ left > 0
    /\ \/ /\ client = "live" /\ peer = "up"
          /\ left' = left - 1
          /\ work' = 0 /\ quiet' = 0
          /\ UNCHANGED <<pc, f, client, status, misses>>
       \/ /\ client # "live" \/ peer # "up"
          /\ Update("error") /\ AfterError /\ UNCHANGED quiet
    /\ UNCHANGED <<due, pending, world>>

\* Every entry has been applied, or one of them is a conflict.
Finish ==
    /\ pc = "apply"
    /\ \/ /\ health[f] = "ok" /\ left = 0
          /\ Update("ok") /\ UNCHANGED client
       \/ health[f] # "ok" /\ Update("error") /\ AfterError
    /\ UNCHANGED <<clock, world>>

\* case <-ticker.C
Wake ==
    /\ pc = "wait" /\ pending
    /\ pending' = FALSE
    /\ pc' = "folder"
    /\ UNCHANGED <<f, client, left, work, status, misses, due, quiet, world>>

----------------------------------------------------------------------------
(* Time.                                                                   *)

\* One tick passes while the worker waits or works.  The ticker's channel
\* holds one tick, and the serving side closes a session at its deadline.
Tick ==
    /\ \/ pc = "wait" /\ ~pending /\ UNCHANGED work
       \/ pc = "apply" /\ work < MaxWork /\ work' = work + 1
    /\ due' = IF due = 1 THEN Interval ELSE due - 1
    /\ pending' = (pending \/ due = 1)
    /\ IF client = "live" /\ quiet + 1 >= Idle
         THEN client' = "dead" /\ quiet' = 0
         ELSE UNCHANGED client /\ quiet' = IF client = "live" THEN quiet + 1 ELSE 0
    /\ UNCHANGED <<pc, f, left, status, misses, world>>

----------------------------------------------------------------------------
(* The world.                                                              *)

Event == events < MaxEvents /\ events' = events + 1 /\ misses' = 0

\* The peer stops or the network fails, and an open session with it.
PeerLost ==
    /\ peer # "down" /\ Event
    /\ peer' = "down"
    /\ client' = IF client = "live" THEN "dead" ELSE client
    /\ UNCHANGED <<pc, f, left, work, status, clock, health>>

\* The peer's folder is unavailable: it answers every request with an error.
PeerRefuses ==
    /\ peer = "up" /\ Event
    /\ peer' = "refusing"
    /\ UNCHANGED <<pc, f, client, left, work, status, clock, health>>

PeerBack ==
    /\ peer # "up"
    /\ peer' = "up"
    /\ UNCHANGED <<worker, clock, health, events>>

\* Somebody edits, repairs, unmounts or mounts a folder.
FolderChanges ==
    /\ Event
    /\ \E g \in Folders, h \in {"ok", "conflict", "unmounted"} :
          h # health[g] /\ health' = [health EXCEPT ![g] = h]
    /\ UNCHANGED <<pc, f, client, left, work, status, clock, peer>>

----------------------------------------------------------------------------
Worker == CheckFolder \/ Dial \/ List \/ Fetch \/ Finish \/ Wake

Next == Worker \/ Tick \/ PeerLost \/ PeerRefuses \/ PeerBack \/ FolderChanges

Spec == Init /\ [][Next]_vars

\* The goroutine runs, time passes, and an outage ends.
FairSpec == Spec /\ WF_vars(Worker) /\ WF_vars(Tick) /\ WF_vars(PeerBack)

----------------------------------------------------------------------------
(* Properties.                                                             *)

Healthy(g) == health[g] = "ok"

\* Once outages and changes are over, every healthy folder is synchronised in
\* every round, whatever state the other folders of the same peer are in: "an
\* unavailable peer is polled again with scan_interval" (docs/service.md) and
\* "other folders go on working" (README).
Recovers == <>[](\A g \in Folders : Healthy(g) => status[g] = "ok")

\* Reconnecting is cheap: a session that died, in an outage or at the idle
\* timeout, costs one turn of one folder and not one of every folder.
OneTurnLost == misses <= 1

\* A healthy folder of a reachable peer is synchronised again and again.
NoStarvation == \A g \in Folders : []<>(Healthy(g) => status[g] = "ok")

(* Why OneTurnLost holds if work and interval together stay below the idle
   timeout: the folder g that lost its turn is healthy and sends a request in
   every round, so the session dialed after the loss is never quiet for so
   long that the serving side drops it; only an outage could kill it. *)
RequestedBy(g) ==
    /\ pc = "apply" => quiet = work
    /\ pc \in {"folder", "list"} => quiet <= MaxWork + (IF f > g THEN 0 ELSE Interval)
    /\ pc = "wait" => quiet + (IF pending THEN 0 ELSE due) <= MaxWork + Interval

Headroom ==
    misses > 0 => \E g \in Folders : Healthy(g) /\ (client = "live" => RequestedBy(g))

\* A folder is listed over a session, whether it still lives or not; the
\* select is reached after the last folder.
ControlInv ==
    /\ pc = "dial" => client = "nil"
    /\ pc \in {"list", "apply"} => client # "nil"
    /\ pc = "wait" => f = 1

CycleInv ==
    /\ TypeOK
    /\ ControlInv
    /\ peer # "up" \/ client = "dead" => misses = 0
    /\ misses <= 1
    /\ Headroom
============================================================================
