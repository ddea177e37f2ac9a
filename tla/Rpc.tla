-------------------------------- MODULE Rpc --------------------------------
(***************************************************************************)
(* What a client of internal/transport promises its callers: an operation  *)
(* is served at most once, and it returns what was served for it or fails. *)
(* Of operations that fail nobody can tell whether they were served.       *)
(*                                                                         *)
(* Session implements this specification.                                  *)
(***************************************************************************)
CONSTANTS
    Callers,
    Wants,      \* what may be asked for
    Answers(_)  \* Answers(w): what the backend may give for w

VARIABLE op     \* per caller: how far its operation is

Idle == [is |-> "idle"]
Called(w) == [is |-> "called", want |-> w]
Served(w, v) == [is |-> "served", want |-> w, val |-> v]
Answered(w, v) == [is |-> "answered", want |-> w, val |-> v]

Init == op = [c \in Callers |-> Idle]

Begin(c) ==
    /\ op[c].is = "idle"
    /\ \E w \in Wants : op' = [op EXCEPT ![c] = Called(w)]

Serve(c) ==
    /\ op[c].is = "called"
    /\ \E v \in Answers(op[c].want) : op' = [op EXCEPT ![c] = Served(op[c].want, v)]

Answer(c) ==
    /\ op[c].is = "served"
    /\ op' = [op EXCEPT ![c] = Answered(op[c].want, op[c].val)]

\* The operation is over: with its answer, or with an error.
End(c) ==
    /\ op[c].is # "idle"
    /\ op' = [op EXCEPT ![c] = Idle]

Next == \E c \in Callers : Begin(c) \/ Serve(c) \/ Answer(c) \/ End(c)

Safety == Init /\ [][Next]_op

\* An operation ends, whatever the peer does.
Spec == Safety /\ \A c \in Callers : WF_op(End(c))
============================================================================
