------------------------------ MODULE Session ------------------------------
(***************************************************************************)
(* internal/transport: one client, its persistent connection and the       *)
(* serving goroutine at the other end.  Callers share the client through   *)
(* its gate; contexts expire or are cancelled at any moment; either end    *)
(* may close the connection; a closed client is replaced by dialing again. *)
(*                                                                         *)
(* Nothing on the wire ties a response to its request: a response is the   *)
(* next frames of the stream.  The field re of a frame is a ghost that     *)
(* remembers the request it was written for; no guard reads it.            *)
(***************************************************************************)
EXTENDS Naturals, Sequences

CONSTANTS
    Callers,       \* goroutines that share the client
    NoCaller,      \* the gate is free
    Blocks,        \* blocks that may be requested; a block is its own digest
    Indexes,       \* what Backend.List may return; an entry is its JSON size
    MaxList,       \* maxEntries
    MaxIndexBytes, \* maxIndexBytes
    Envelope,      \* bytes of an "entry" message around the entry's own JSON
    Trailer,       \* bytes of the "end" message
    MaxCalls,      \* bound: operations
    MaxDials       \* bound: connections

ASSUME SessionAssumption ==
    /\ NoCaller \notin Callers
    /\ Indexes \subseteq Seq(Nat)
    /\ MaxList \in Nat /\ MaxIndexBytes \in Nat /\ Envelope \in Nat /\ Trailer \in Nat
    /\ MaxCalls \in Nat /\ MaxDials \in Nat \ {0}
    /\ "list" \notin Blocks

VARIABLES
    open,      \* the client's end of the connection is not closed
    up, down,  \* frames under way to the server and to the client
    gate,      \* the caller that holds Client.gate
    call,      \* per caller: control point, request, context, frames read
    serve,     \* the serving goroutine: control point and frames to write
    closing,   \* callers whose AfterFunc has started and not yet closed
    given,     \* ghost: the last request the backend served, and its answer
    calls,     \* number of operations started; it numbers them
    dials      \* number of connections made

client == <<open, gate, call, closing, calls, dials>>
vars == <<client, up, down, serve, given>>

Wants == {"list"} \cup Blocks
Payload == Nat \cup Blocks
Types == {"entry", "end", "error", "block", "data"}
Frame == [re : Nat, type : Types, val : Seq(Payload)]

Call == [pc : {"idle", "gate", "locked", "send", "recv", "data", "check", "stop"},
         want : Wants, id : Nat, live : BOOLEAN, got : Seq(Payload), total : Nat]

Serve == [pc : {"read", "write", "closed"}, out : Seq(Frame), total : Nat]

TypeOK ==
    /\ open \in BOOLEAN
    /\ up \in Seq([re : Nat, want : Wants])
    /\ down \in Seq(Frame)
    /\ gate \in Callers \cup {NoCaller}
    /\ call \in [Callers -> Call]
    /\ serve \in Serve
    /\ closing \subseteq Callers
    /\ given \in [re : Nat, val : Seq(Payload)]
    /\ calls \in 0..MaxCalls
    /\ dials \in 1..MaxDials

NoCall == [pc |-> "idle", want |-> "list", id |-> 0, live |-> TRUE, got |-> <<>>, total |-> 0]
Listening == [pc |-> "read", out |-> <<>>, total |-> 0]

\* Dial has returned: the handshake and the exchange of hello are done.
Init ==
    /\ open = TRUE
    /\ up = <<>> /\ down = <<>>
    /\ gate = NoCaller
    /\ call = [c \in Callers |-> NoCall]
    /\ serve = Listening
    /\ closing = {}
    /\ given = [re |-> 0, val |-> <<>>]
    /\ calls = 0
    /\ dials = 1

----------------------------------------------------------------------------
(* Client.operation.                                                       *)

Advance(c, pc) == call' = [call EXCEPT ![c].pc = pc]

Done(c) == call' = [call EXCEPT ![c] = NoCall]

\* List or ReadBlock is called; operation derives its context.
CallBegin(c, w) ==
    /\ call[c].pc = "idle"
    /\ calls < MaxCalls
    /\ calls' = calls + 1
    /\ call' = [call EXCEPT ![c] = [NoCall EXCEPT !.pc = "gate", !.want = w, !.id = calls']]
    /\ UNCHANGED <<open, gate, closing, dials, up, down, serve, given>>

\* case c.gate <- struct{}{}
Acquire(c) ==
    /\ call[c].pc = "gate" /\ gate = NoCaller
    /\ gate' = c
    /\ Advance(c, "locked")
    /\ UNCHANGED <<open, closing, calls, dials, up, down, serve, given>>

\* case <-ctx.Done(): the session is left as it is.
GiveUp(c) ==
    /\ call[c].pc = "gate" /\ ~call[c].live
    /\ Done(c)
    /\ UNCHANGED <<open, gate, closing, calls, dials, up, down, serve, given>>

\* The context ended while the caller waited: the gate is released and the
\* session left as it is.  On a closed connection SetDeadline fails.
Refused(c) ==
    /\ call[c].pc = "locked" /\ (~call[c].live \/ ~open)
    /\ gate' = NoCaller
    /\ Done(c)
    /\ UNCHANGED <<open, closing, calls, dials, up, down, serve, given>>

\* SetDeadline and AfterFunc.
Armed(c) ==
    /\ call[c].pc = "locked" /\ call[c].live /\ open
    /\ Advance(c, "send")
    /\ UNCHANGED <<open, gate, closing, calls, dials, up, down, serve, given>>

\* c.w.send of the request.
Send(c) ==
    /\ call[c].pc = "send" /\ open
    /\ up' = Append(up, [re |-> call[c].id, want |-> call[c].want])
    /\ Advance(c, "recv")
    /\ UNCHANGED <<open, gate, closing, calls, dials, down, serve, given>>

\* Variant of Fail that leaves the connection open.
FailOpen(c) ==
    /\ gate' = NoCaller
    /\ Done(c)
    /\ UNCHANGED open

\* fn fails or the context has ended: close, stop, release the gate.
Fail(c) ==
    /\ open' = FALSE
    /\ gate' = NoCaller
    /\ Done(c)

\* The bytes of a control frame that count towards the index limit.
FrameBytes(f) ==
    CASE f.type = "entry" -> f.val[1] + Envelope
      [] f.type = "end" -> Trailer
      [] OTHER -> 0

\* The callback of List or ReadBlock accepts the next frame.
Continues(c, f) ==
    \/ /\ call[c].pc = "recv" /\ call[c].want = "list"
       /\ f.type \in {"entry", "end"}
       /\ call[c].total + FrameBytes(f) <= MaxIndexBytes
       /\ f.type = "entry" => Len(call[c].got) < MaxList
    \/ call[c].pc = "recv" /\ call[c].want # "list" /\ f.type = "block"
    \/ call[c].pc = "data" /\ f.type = "data" /\ f.val = <<call[c].want>>

After(c, f) ==
    CASE f.type = "entry" -> "recv"
      [] f.type = "block" -> "data"
      [] f.type \in {"end", "data"} -> "check"

\* A frame is read and accepted.
Recv(c) ==
    /\ call[c].pc \in {"recv", "data"} /\ open /\ down # <<>>
    /\ Continues(c, Head(down))
    /\ down' = Tail(down)
    /\ call' = [call EXCEPT ![c].pc = After(c, Head(down)),
                            ![c].got = @ \o Head(down).val,
                            ![c].total = @ + FrameBytes(Head(down))]
    /\ UNCHANGED <<open, gate, closing, calls, dials, up, serve, given>>

\* A frame is read and refused: an error response, an unexpected type, a
\* block with another digest, an index over the limit.
RecvRefused(c) ==
    /\ call[c].pc \in {"recv", "data"} /\ open /\ down # <<>>
    /\ ~Continues(c, Head(down))
    /\ down' = Tail(down)
    /\ Fail(c)
    /\ UNCHANGED <<closing, calls, dials, up, serve, given>>

\* Variant of Broken: neither Close nor the deadline ends a read.
BrokenByPeer(c) == serve.pc = "closed" /\ down = <<>>

\* The connection is closed at this end or at the other, or the deadline of
\* the operation has passed.
Broken(c) == ~open \/ ~call[c].live \/ (serve.pc = "closed" /\ down = <<>>)

\* A read or a write fails.
IOFails(c) ==
    /\ call[c].pc \in {"send", "recv", "data"}
    /\ Broken(c)
    /\ Fail(c)
    /\ UNCHANGED <<closing, calls, dials, up, down, serve, given>>

\* if ctx.Err() != nil: an answer that came too late is no answer.
CheckContext(c) ==
    /\ call[c].pc = "check"
    /\ \/ /\ call[c].live
          /\ Advance(c, "stop")
          /\ UNCHANGED <<open, gate>>
       \/ /\ ~call[c].live
          /\ Fail(c)
    /\ UNCHANGED <<closing, calls, dials, up, down, serve, given>>

\* stop(), the gate is released, operation returns nil.
Return(c) ==
    /\ call[c].pc = "stop"
    /\ gate' = NoCaller
    /\ Done(c)
    /\ UNCHANGED <<open, closing, calls, dials, up, down, serve, given>>

\* operationTimeout passes or the parent context is cancelled; from Armed to
\* Return the AfterFunc then runs on a goroutine of its own.
Expire(c) ==
    /\ call[c].pc # "idle" /\ call[c].live
    /\ call' = [call EXCEPT ![c].live = FALSE]
    /\ closing' = IF call[c].pc \in {"gate", "locked"} THEN closing ELSE closing \cup {c}
    /\ UNCHANGED <<open, gate, calls, dials, up, down, serve, given>>

\* The goroutine of AfterFunc, however late, calls Close.
LateClose(c) ==
    /\ c \in closing
    /\ closing' = closing \ {c}
    /\ open' = FALSE
    /\ UNCHANGED <<gate, call, calls, dials, up, down, serve, given>>

\* replicate closes the session after an error of Apply, or on shutdown.
Close ==
    /\ open
    /\ open' = FALSE
    /\ UNCHANGED <<gate, call, closing, calls, dials, up, down, serve, given>>

\* replicate dials again once it has dropped the client.
Dial ==
    /\ ~open /\ dials < MaxDials
    /\ \A c \in Callers : call[c].pc = "idle"
    /\ dials' = dials + 1
    /\ open' = TRUE
    /\ up' = <<>> /\ down' = <<>>
    /\ serve' = Listening
    /\ closing' = {}
    /\ UNCHANGED <<gate, call, calls, given>>

----------------------------------------------------------------------------
(* serveConn and handleRequest.                                            *)

Reply(re, type, val) == [re |-> re, type |-> type, val |-> val]

\* handleRequest "list" after the backend returned the index.
ListReply(re, index) ==
    IF Len(index) > MaxList THEN <<Reply(re, "error", <<>>)>>
    ELSE [i \in 1..Len(index) |-> Reply(re, "entry", <<index[i]>>)]
         \o <<Reply(re, "end", <<>>)>>

BlockReply(re, b) == <<Reply(re, "block", <<>>), Reply(re, "data", <<b>>)>>

\* A request is read; the backend refuses, or answers.
HandleRequest ==
    /\ serve.pc = "read" /\ up # <<>>
    /\ up' = Tail(up)
    /\ LET q == Head(up) IN
        \/ /\ serve' = [pc |-> "write", out |-> <<Reply(q.re, "error", <<>>)>>, total |-> 0]
           /\ UNCHANGED given
        \/ /\ q.want = "list"
           /\ \E index \in Indexes :
                /\ serve' = [pc |-> "write", out |-> ListReply(q.re, index), total |-> 0]
                /\ given' = [re |-> q.re, val |-> index]
        \/ /\ q.want # "list"
           /\ serve' = [pc |-> "write", out |-> BlockReply(q.re, q.want), total |-> 0]
           /\ given' = [re |-> q.re, val |-> <<q.want>>]
    /\ UNCHANGED <<client, down>>

\* The next frame is written; after the last one the loop reads again.
WriteFrame ==
    /\ serve.pc = "write"
    /\ LET f == Head(serve.out)
           n == serve.total + (IF f.type = "entry" THEN FrameBytes(f) ELSE 0)
       IN  /\ down' = Append(down, f)
           /\ serve' = IF n > MaxIndexBytes
                         THEN [pc |-> "closed", out |-> <<>>, total |-> 0]
                         ELSE [pc |-> IF Len(serve.out) = 1 THEN "read" ELSE "write",
                               out |-> Tail(serve.out), total |-> n]
    /\ UNCHANGED <<client, up, given>>

\* The idle or operation deadline, a read error or the shutdown of Serve.
ServerCloses ==
    /\ serve.pc # "closed"
    /\ serve' = [pc |-> "closed", out |-> <<>>, total |-> 0]
    /\ UNCHANGED <<client, up, down, given>>

----------------------------------------------------------------------------
ClientStep(c) ==
    \/ Acquire(c) \/ GiveUp(c) \/ Refused(c) \/ Armed(c) \/ Send(c) \/ Recv(c)
    \/ RecvRefused(c) \/ IOFails(c) \/ CheckContext(c) \/ Return(c)

Next ==
    \/ \E c \in Callers : \/ \E w \in Wants : CallBegin(c, w)
                          \/ ClientStep(c) \/ Expire(c) \/ LateClose(c)
    \/ Close \/ Dial
    \/ HandleRequest \/ WriteFrame \/ ServerCloses

Spec == Init /\ [][Next]_vars

\* Callers run and their timers fire; of the peer nothing is assumed.
FairSpec == Spec /\ \A c \in Callers : WF_vars(ClientStep(c)) /\ WF_vars(Expire(c))

----------------------------------------------------------------------------
(* Properties.                                                             *)

\* A successful operation returns exactly what the backend gave for that very
\* request, whole and in order: an answer that arrives late, or the rest of an
\* answer to a cancelled call, is never taken for another one.  ("Any failed
\* operation closes the session so partial frames cannot be reused.")
OwnAnswer ==
    \A c \in Callers :
        call[c].pc \in {"check", "stop"} =>
            given = [re |-> call[c].id, val |-> call[c].got]

\* The gate is held exactly by the caller between Acquire and its return.
HolderInv ==
    \A c \in Callers : gate = c <=> call[c].pc \notin {"idle", "gate"}

Quiet == up = <<>> /\ down = <<>> /\ serve.pc # "write"

\* A session that can be used and that nobody uses has nothing under way in
\* either direction and no request in service.
CleanBetweenCalls == (open /\ gate = NoCaller) => Quiet

----------------------------------------------------------------------------
(* The inductive invariant behind OwnAnswer and IsRpc.                     *)

Answers(w) == IF w = "list" THEN Indexes ELSE {<<w>>}

Busy(c) == call[c].pc # "idle"
Reading(c) == call[c].pc \in {"recv", "data"}

\* Operations have different numbers, and no later one is known to the server.
NumberInv ==
    /\ \A c \in Callers : Busy(c) => call[c].id \in 1..calls
    /\ \A c, d \in Callers : (c # d /\ Busy(c) /\ Busy(d)) => call[c].id # call[d].id
    /\ given.re <= calls
    /\ \A i \in 1..Len(up) : up[i].re <= calls

\* A request under way, if its operation still runs, is the one it waits for.
RequestInv ==
    /\ Len(up) <= 1
    /\ \A i \in 1..Len(up) : \A c \in Callers :
           (Busy(c) /\ call[c].id = up[i].re) =>
               call[c].pc = "recv" /\ call[c].want = up[i].want

\* What was given for a running operation answers it, and stays.
GivenInv ==
    \A c \in Callers :
        (Busy(c) /\ given.re = call[c].id) =>
            /\ call[c].pc \in {"recv", "data", "check", "stop"}
            /\ up = <<>>
            /\ given.val \in Answers(call[c].want)

\* What has been read so far is a prefix of what was given.
ReadInv ==
    \A c \in Callers :
        /\ call[c].pc \in {"gate", "locked", "send"} => call[c].got = <<>>
        /\ call[c].pc = "data" => call[c].want # "list" /\ given.re = call[c].id
        /\ (Reading(c) /\ call[c].want # "list") => call[c].got = <<>>
        /\ call[c].pc = "recv" =>
               \A i \in 1..Len(call[c].got) :
                   /\ given.re = call[c].id
                   /\ i <= Len(given.val) /\ call[c].got[i] = given.val[i]

\* The frame f is the n-th of the answer to the operation of c.
Expected(c, n, f) ==
    \/ f.type = "error" /\ n = 1
    \/ /\ given.re = call[c].id
       /\ IF call[c].want = "list"
            THEN \/ f.type = "entry" /\ n <= Len(given.val) /\ f.val = <<given.val[n]>>
                 \/ f.type = "end" /\ n = Len(given.val) + 1 /\ f.val = <<>>
            ELSE \/ f.type = "block" /\ n = 1 /\ f.val = <<>>
                 \/ f.type = "data" /\ n = 2 /\ f.val = <<call[c].want>>

\* The number of frames c has read.
Position(c) == IF call[c].pc = "data" THEN 1 ELSE Len(call[c].got)

\* On an open session the stream holds the request of the caller that waits,
\* or what it has still to read of its own answer, and nothing else.
StreamInv ==
    open =>
        /\ up # <<>> => down = <<>> /\ serve.pc # "write"
        /\ \A c \in Callers :
            /\ call[c].pc \in {"locked", "send", "check", "stop"} => Quiet
            /\ Reading(c) =>
                /\ up # <<>> => Head(up).re = call[c].id
                /\ \A i \in 1..Len(down) : Expected(c, Position(c) + i, down[i])
                /\ \A i \in 1..Len(serve.out) :
                       Expected(c, Position(c) + Len(down) + i, serve.out[i])

\* An entry frame carries one entry, and the server writes while it has frames.
WireInv ==
    /\ \A i \in 1..Len(down) :
           down[i].type = "entry" => Len(down[i].val) = 1 /\ down[i].val[1] \in Nat
    /\ \A i \in 1..Len(serve.out) :
           serve.out[i].type = "entry" =>
               Len(serve.out[i].val) = 1 /\ serve.out[i].val[1] \in Nat
    /\ serve.pc = "write" <=> serve.out # <<>>

SessionInv ==
    /\ TypeOK /\ HolderInv /\ CleanBetweenCalls
    /\ NumberInv /\ RequestInv /\ GivenInv /\ ReadInv /\ StreamInv /\ WireInv

----------------------------------------------------------------------------
(* The refinement of Rpc: an operation is served when the backend has been  *)
(* asked for it, and answered when its last frame has been read.           *)

Operation(c) ==
    LET o == call[c] IN
    IF o.pc = "idle" THEN [is |-> "idle"]
    ELSE IF o.pc \in {"check", "stop"} THEN [is |-> "answered", want |-> o.want, val |-> o.got]
    ELSE IF given.re = o.id THEN [is |-> "served", want |-> o.want, val |-> given.val]
    ELSE [is |-> "called", want |-> o.want]

Abstract == INSTANCE Rpc WITH op <- [c \in Callers |-> Operation(c)]

\* A client is a remote procedure call that is served at most once, returns
\* the answer given to it and always ends, with any number of callers on one
\* connection, contexts that end at any moment and a peer that may stop
\* answering for good: Apply, which waits in ReadBlock for a block, holds the
\* mutex of the store only so long.
IsRpc == Abstract!Spec
============================================================================
