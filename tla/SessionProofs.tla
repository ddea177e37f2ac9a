--------------------------- MODULE SessionProofs ---------------------------
(* Proofs about Session, for any number of callers, operations and         *)
(* connections, and any set of blocks and indexes.                         *)
EXTENDS Session, SequenceTheorems, TLAPS

AnswerInv == SessionInv /\ OwnAnswer

----------------------------------------------------------------------------
(* Lemmas about the operators.                                             *)

\* An operation that is not running, and a server without work.
LEMMA NothingLemma ==
    /\ NoCall \in Call /\ NoCall.pc = "idle" /\ NoCall.got = <<>>
    /\ Listening \in Serve /\ Listening.pc = "read" /\ Listening.out = <<>>
BY DEF NoCall, Call, Wants, Payload, Listening, Serve, Frame

\* Entries are payload.
LEMMA IndexPayload ==
    ASSUME NEW index \in Indexes
    PROVE  index \in Seq(Nat) /\ index \in Seq(Payload)
BY SessionAssumption DEF Payload

\* A control step changes the control point of one caller.
LEMMA AdvanceLemma ==
    ASSUME call \in [Callers -> Call], NEW c \in Callers, NEW pc, Advance(c, pc),
           pc \in {"locked", "send", "recv", "stop"}
    PROVE  /\ call' \in [Callers -> Call]
           /\ call'[c].pc = pc
           /\ call'[c].want = call[c].want /\ call'[c].id = call[c].id
           /\ call'[c].got = call[c].got
           /\ \A d \in Callers \ {c} : call'[d] = call[d]
BY DEF Advance, Call

\* The end of an operation leaves the other callers alone.
LEMMA DoneLemma ==
    ASSUME call \in [Callers -> Call], NEW c \in Callers, Done(c)
    PROVE  /\ call' \in [Callers -> Call]
           /\ call'[c].pc = "idle"
           /\ \A d \in Callers \ {c} : call'[d] = call[d]
BY NothingLemma DEF Done

\* Operations are numbered by naturals wherever they are mentioned.
LEMMA NumberTypes ==
    ASSUME TypeOK
    PROVE  /\ given.re \in Nat
           /\ \A i \in 1..Len(up) : up[i].re \in Nat /\ up[i].want \in Wants
<1>. DEFINE Requests == [re : Nat, want : Wants]
<1>1. up \in Seq(Requests)
  BY DEF TypeOK
<1>2. \A q \in Requests : q.re \in Nat /\ q.want \in Wants
  OBVIOUS
<1>. HIDE DEF Requests
<1>3. \A i \in 1..Len(up) : up[i] \in Requests
  BY <1>1, ElementOfSeq
<1>4. given.re \in Nat
  BY DEF TypeOK
<1>5. QED
  BY <1>2, <1>3, <1>4

\* The request that is read next.
LEMMA FirstRequest ==
    ASSUME TypeOK, up # <<>>
    PROVE  Head(up) = up[1] /\ 1 \in 1..Len(up)
BY DEF TypeOK

\* Only one caller is past the gate.
LEMMA OneHolder ==
    ASSUME HolderInv, NEW c \in Callers, call[c].pc \notin {"idle", "gate"}
    PROVE  gate = c /\ \A d \in Callers \ {c} : call[d].pc \in {"idle", "gate"}
BY DEF HolderInv

\* The frames handleRequest writes for "list".
LEMMA ListReplyLemma ==
    ASSUME NEW re \in Nat, NEW index \in Indexes
    PROVE  /\ ListReply(re, index) \in Seq(Frame)
           /\ ListReply(re, index) # <<>>
           /\ \A i \in 1..Len(ListReply(re, index)) :
                LET f == ListReply(re, index)[i] IN
                \/ f.type = "error" /\ i = 1
                \/ f.type = "entry" /\ i <= Len(index) /\ f.val = <<index[i]>>
                \/ f.type = "end" /\ i = Len(index) + 1 /\ f.val = <<>>
<1>0. index \in Seq(Nat) /\ MaxList \in Nat
  BY IndexPayload, SessionAssumption
<1>1. CASE Len(index) > MaxList
  <2>1. ListReply(re, index) = <<Reply(re, "error", <<>>)>>
    BY <1>1 DEF ListReply
  <2>2. Reply(re, "error", <<>>) \in Frame /\ Reply(re, "error", <<>>).type = "error"
    BY DEF Reply, Frame, Types
  <2>3. QED
    BY <2>1, <2>2
<1>2. CASE ~(Len(index) > MaxList)
  <2>. DEFINE Rest == [i \in 1..Len(index) |-> Reply(re, "entry", <<index[i]>>)]
              Last == Reply(re, "end", <<>>)
              All == Append(Rest, Last)
  <2>1. ListReply(re, index) = Rest \o <<Last>>
    BY <1>2 DEF ListReply
  <2>2. \A i \in 1..Len(index) : <<index[i]>> \in Seq(Payload)
    BY <1>0 DEF Payload
  <2>3. Rest \in Seq(Frame) /\ Len(Rest) = Len(index)
    <3>1. \A i \in 1..Len(index) : Reply(re, "entry", <<index[i]>>) \in Frame
      BY <2>2 DEF Reply, Frame, Types
    <3>2. QED
      BY <1>0, <3>1
  <2>4. Last \in Frame /\ Last.type = "end" /\ Last.val = <<>>
    BY DEF Reply, Frame, Types
  <2>5. \A i \in 1..Len(Rest) : Rest[i].type = "entry" /\ Rest[i].val = <<index[i]>>
    BY <2>3 DEF Reply
  <2>. HIDE DEF Rest, Last
  <2>6. ListReply(re, index) = All
    BY <2>1, <2>3, <2>4, AppendIsConcat
  <2>7. /\ All \in Seq(Frame) /\ All # <<>> /\ Len(All) = Len(index) + 1
        /\ \A i \in 1..Len(index) : All[i] = Rest[i]
        /\ All[Len(index) + 1] = Last
    BY <2>3, <2>4, AppendProperties
  <2>. HIDE DEF All
  <2>8. ASSUME NEW i \in 1..Len(All)
        PROVE  \/ All[i].type = "entry" /\ i <= Len(index) /\ All[i].val = <<index[i]>>
               \/ All[i].type = "end" /\ i = Len(index) + 1 /\ All[i].val = <<>>
    <3>1. CASE i \in 1..Len(index)
      BY <1>0, <2>3, <2>5, <2>7, <3>1
    <3>2. CASE i = Len(index) + 1
      BY <2>4, <2>7, <3>2
    <3>3. QED
      BY <1>0, <2>7, <3>1, <3>2
  <2>9. QED
    BY <2>6, <2>7, <2>8
<1>3. QED
  BY <1>1, <1>2

\* The frames it writes for a block.
LEMMA BlockReplyLemma ==
    ASSUME NEW re \in Nat, NEW b \in Blocks
    PROVE  /\ BlockReply(re, b) \in Seq(Frame) /\ Len(BlockReply(re, b)) = 2
           /\ BlockReply(re, b)[1].type = "block" /\ BlockReply(re, b)[1].val = <<>>
           /\ BlockReply(re, b)[2].type = "data" /\ BlockReply(re, b)[2].val = <<b>>
BY DEF BlockReply, Reply, Frame, Types, Payload

----------------------------------------------------------------------------
(* The invariant holds at first, and every step keeps it.                  *)

\* A session just dialed.
LEMMA InvInit == Init => AnswerInv
<1>. SUFFICES ASSUME Init PROVE AnswerInv
  OBVIOUS
<1>1. TypeOK
  BY NothingLemma, SessionAssumption DEF Init, TypeOK, Frame, Wants, Payload
<1>2. HolderInv /\ CleanBetweenCalls
  BY NothingLemma, SessionAssumption DEF Init, HolderInv, CleanBetweenCalls, Quiet
<1>3. NumberInv /\ RequestInv /\ GivenInv /\ ReadInv /\ OwnAnswer
  BY NothingLemma DEF Init, NumberInv, RequestInv, GivenInv, ReadInv, OwnAnswer, Busy, Reading
<1>4. StreamInv /\ WireInv
  BY NothingLemma DEF Init, StreamInv, WireInv, Reading
<1>5. QED
  BY <1>1, <1>2, <1>3, <1>4 DEF AnswerInv, SessionInv

\* An operation ends: the caller before the gate gives up, the holder returns
\* from a session at rest, or the session is closed with it.
LEMMA EndInv ==
    ASSUME AnswerInv, NEW c \in Callers, Busy(c), Done(c),
           open' \in BOOLEAN, open' => open,
           \/ call[c].pc = "gate" /\ gate' = gate /\ open' = open /\ down' = down
           \/ call[c].pc # "gate" /\ gate' = NoCaller /\ (open' => Quiet /\ down' = down),
           down' = down \/ (down # <<>> /\ down' = Tail(down)),
           UNCHANGED <<closing, calls, dials, up, serve, given>>
    PROVE  AnswerInv'
<1>0. TypeOK /\ HolderInv /\ WireInv
  BY DEF AnswerInv, SessionInv
<1>1. /\ call' \in [Callers -> Call] /\ call'[c].pc = "idle"
      /\ \A d \in Callers \ {c} : call'[d] = call[d]
  BY <1>0, DoneLemma DEF TypeOK
<1>2. /\ down' \in Seq(Frame)
      /\ \A i \in 1..Len(down') : \E j \in 1..Len(down) : down'[i] = down[j]
  <2>1. down \in Seq(Frame)
    BY <1>0 DEF TypeOK
  <2>2. CASE down' = down
    BY <2>1, <2>2
  <2>3. CASE down # <<>> /\ down' = Tail(down)
    <3>1. /\ down' \in Seq(Frame) /\ Len(down') = Len(down) - 1
          /\ \A i \in 1..Len(down') : down'[i] = down[i + 1]
      BY <2>1, <2>3, HeadTailProperties
    <3>2. QED
      BY <2>1, <3>1
  <2>4. QED
    BY <2>2, <2>3
<1>3. TypeOK'
  BY <1>0, <1>1, <1>2 DEF TypeOK
<1>4. HolderInv'
  <2>1. NoCaller \notin Callers
    BY SessionAssumption
  <2>2. CASE call[c].pc = "gate"
    BY <1>0, <1>1, <2>2 DEF HolderInv
  <2>3. CASE call[c].pc # "gate"
    <3>1. \A d \in Callers \ {c} : call[d].pc \in {"idle", "gate"}
      BY <1>0, <2>3, OneHolder DEF Busy
    <3>2. QED
      BY <1>1, <2>1, <2>3, <3>1 DEF HolderInv
  <2>4. QED
    BY <2>2, <2>3
<1>5. CleanBetweenCalls'
  BY DEF AnswerInv, SessionInv, CleanBetweenCalls, Quiet
<1>6. NumberInv' /\ RequestInv' /\ GivenInv'
  BY <1>1 DEF AnswerInv, SessionInv, NumberInv, RequestInv, GivenInv, Busy
<1>7. ReadInv' /\ OwnAnswer'
  BY <1>1 DEF AnswerInv, SessionInv, ReadInv, OwnAnswer, Reading
<1>8. StreamInv'
  <2>1. SUFFICES ASSUME open' PROVE StreamInv'
    BY DEF StreamInv
  <2>2. down' = down
    BY <2>1
  <2>3. ASSUME NEW d \in Callers, Reading(d)', NEW n, NEW f, Expected(d, n, f)
        PROVE  Expected(d, n, f)'
    BY <1>1, <2>3 DEF Reading, Expected
  <2>4. ASSUME NEW d \in Callers, Reading(d)'
        PROVE  Reading(d) /\ Position(d)' = Position(d) /\ call'[d] = call[d]
    BY <1>1, <2>4 DEF Reading, Position
  <2>5. QED
    BY <1>1, <2>1, <2>2, <2>3, <2>4 DEF AnswerInv, SessionInv, StreamInv, Quiet
<1>9. WireInv'
  BY <1>0, <1>2 DEF WireInv
<1>10. QED
  BY <1>3, <1>4, <1>5, <1>6, <1>7, <1>8, <1>9 DEF AnswerInv, SessionInv

\* A caller starts an operation; the server cannot know its number.
LEMMA CallBeginInv ==
    ASSUME AnswerInv, NEW c \in Callers, NEW w \in Wants, CallBegin(c, w)
    PROVE  AnswerInv'
<1>0. /\ TypeOK /\ HolderInv /\ NumberInv /\ call[c].pc = "idle"
      /\ UNCHANGED <<open, gate, closing, dials, up, down, serve, given>>
  BY DEF AnswerInv, SessionInv, CallBegin
<1>1. calls \in Nat /\ calls' = calls + 1 /\ calls' \in 0..MaxCalls
  BY <1>0, SessionAssumption DEF TypeOK, CallBegin
<1>. DEFINE New == [NoCall EXCEPT !.pc = "gate", !.want = w, !.id = calls']
<1>2. /\ New \in Call /\ New.pc = "gate" /\ New.id = calls' /\ New.got = <<>>
  <2>1. PICK n \in Nat : n = calls'
    BY <1>1
  <2>2. New = [NoCall EXCEPT !.pc = "gate", !.want = w, !.id = n]
    BY <2>1
  <2>. HIDE DEF New
  <2>3. NoCall \in Call /\ NoCall.got = <<>>
    BY NothingLemma
  <2>4. New \in Call /\ New.pc = "gate" /\ New.id = n /\ New.got = NoCall.got
    BY <2>2, <2>3 DEF Call
  <2>5. QED
    BY <2>1, <2>3, <2>4
<1>3. call' = [call EXCEPT ![c] = New]
  BY DEF CallBegin
<1>. HIDE DEF New
<1>4. /\ call' \in [Callers -> Call] /\ call'[c] = New
      /\ \A d \in Callers \ {c} : call'[d] = call[d]
  BY <1>0, <1>2, <1>3 DEF TypeOK
<1>5. TypeOK' /\ HolderInv' /\ CleanBetweenCalls' /\ WireInv'
  <2>1. TypeOK'
    BY <1>0, <1>1, <1>4 DEF TypeOK
  <2>2. HolderInv'
    BY <1>0, <1>2, <1>4 DEF HolderInv
  <2>3. CleanBetweenCalls' /\ WireInv'
    BY <1>0 DEF AnswerInv, SessionInv, CleanBetweenCalls, WireInv, Quiet
  <2>4. QED
    BY <2>1, <2>2, <2>3
<1>6. NumberInv'
  <2>1. \A d \in Callers \ {c} : Busy(d)' => call'[d].id \in 1..calls
    BY <1>0, <1>4 DEF NumberInv, Busy
  <2>2. call'[c].id = calls + 1
    BY <1>1, <1>2, <1>4
  <2>3. given.re \in Nat /\ \A i \in 1..Len(up) : up[i].re \in Nat
    BY <1>0, NumberTypes
  <2>4. \A d \in Callers : Busy(d)' => call'[d].id \in 1..calls'
    BY <1>1, <2>1, <2>2
  <2>5. \A d, e \in Callers : (d # e /\ Busy(d)' /\ Busy(e)') => call'[d].id # call'[e].id
    BY <1>0, <1>1, <1>4, <2>1, <2>2 DEF NumberInv, Busy
  <2>6. given'.re <= calls' /\ \A i \in 1..Len(up') : up'[i].re <= calls'
    BY <1>0, <1>1, <2>3 DEF NumberInv
  <2>7. QED
    BY <2>4, <2>5, <2>6 DEF NumberInv
<1>7. given.re # call'[c].id /\ \A i \in 1..Len(up) : up[i].re # call'[c].id
  <2>1. given.re \in Nat /\ \A i \in 1..Len(up) : up[i].re \in Nat
    BY <1>0, NumberTypes
  <2>2. QED
    BY <1>0, <1>1, <1>2, <1>4, <2>1 DEF NumberInv
<1>8. RequestInv' /\ GivenInv' /\ ReadInv' /\ OwnAnswer'
  <2>1. RequestInv' /\ GivenInv'
    BY <1>0, <1>4, <1>7 DEF AnswerInv, SessionInv, RequestInv, GivenInv, Busy
  <2>2. ReadInv' /\ OwnAnswer'
    BY <1>0, <1>2, <1>4 DEF AnswerInv, SessionInv, ReadInv, OwnAnswer, Reading
  <2>3. QED
    BY <2>1, <2>2
<1>9. StreamInv'
  <2>1. ASSUME NEW d \in Callers, Reading(d)'
        PROVE  Reading(d) /\ d # c /\ Position(d)' = Position(d)
    BY <1>2, <1>4, <2>1 DEF Reading, Position
  <2>2. ASSUME NEW d \in Callers, d # c, NEW n, NEW f, Expected(d, n, f)
        PROVE  Expected(d, n, f)'
    BY <1>0, <1>4, <2>2 DEF Expected
  <2>3. QED
    BY <1>0, <1>2, <1>4, <2>1, <2>2 DEF AnswerInv, SessionInv, StreamInv, Quiet
<1>10. QED
  BY <1>5, <1>6, <1>8, <1>9 DEF AnswerInv, SessionInv

\* A step of a caller that touches neither the stream nor the server.
LEMMA ControlInv ==
    ASSUME AnswerInv, NEW c \in Callers,
           call' \in [Callers -> Call], \A d \in Callers \ {c} : call'[d] = call[d],
           call'[c].want = call[c].want, call'[c].id = call[c].id, call'[c].got = call[c].got,
           \/ call'[c].pc = call[c].pc /\ gate' = gate
           \/ call[c].pc = "gate" /\ call'[c].pc = "locked" /\ gate = NoCaller /\ gate' = c
           \/ call[c].pc = "locked" /\ call'[c].pc = "send" /\ gate' = gate
           \/ call[c].pc = "check" /\ call'[c].pc = "stop" /\ gate' = gate,
           closing' \subseteq Callers,
           UNCHANGED <<open, calls, dials, up, down, serve, given>>
    PROVE  AnswerInv'
<1>0. TypeOK /\ HolderInv /\ CleanBetweenCalls /\ StreamInv
  BY DEF AnswerInv, SessionInv
<1>1. TypeOK'
  BY <1>0 DEF TypeOK
<1>2. HolderInv'
  BY <1>0, SessionAssumption DEF HolderInv
<1>3. CleanBetweenCalls' /\ WireInv'
  BY SessionAssumption DEF AnswerInv, SessionInv, CleanBetweenCalls, WireInv, Quiet
<1>4. NumberInv' /\ RequestInv' /\ GivenInv'
  <2>1. \A d \in Callers : /\ Busy(d)' = Busy(d)
                           /\ call'[d].id = call[d].id /\ call'[d].want = call[d].want
    BY DEF Busy
  <2>2. NumberInv'
    BY <2>1 DEF AnswerInv, SessionInv, NumberInv
  <2>3. RequestInv'
    BY <2>1 DEF AnswerInv, SessionInv, RequestInv
  <2>4. GivenInv'
    BY <2>1 DEF AnswerInv, SessionInv, GivenInv
  <2>5. QED
    BY <2>2, <2>3, <2>4
<1>5. ReadInv' /\ OwnAnswer'
  BY DEF AnswerInv, SessionInv, ReadInv, OwnAnswer, Reading
<1>6. StreamInv'
  <2>1. ASSUME NEW d \in Callers
        PROVE  Reading(d)' = Reading(d) /\ (Reading(d) => Position(d)' = Position(d))
    BY DEF Reading, Position
  <2>2. ASSUME NEW d \in Callers, NEW n, NEW f, Expected(d, n, f)
        PROVE  Expected(d, n, f)'
    BY <2>2 DEF Expected
  <2>3. ASSUME NEW d \in Callers, open, call'[d].pc \in {"locked", "send", "check", "stop"}
        PROVE  Quiet'
    BY <1>0, <2>3 DEF CleanBetweenCalls, StreamInv, Quiet
  <2>4. QED
    BY <1>0, <2>1, <2>2, <2>3 DEF StreamInv
<1>7. QED
  BY <1>1, <1>2, <1>3, <1>4, <1>5, <1>6 DEF AnswerInv, SessionInv

\* The session is closed at this end.
LEMMA CloseInv ==
    ASSUME AnswerInv, open' = FALSE, closing' \subseteq Callers,
           UNCHANGED <<gate, call, calls, dials, up, down, serve, given>>
    PROVE  AnswerInv'
<1>1. TypeOK' /\ HolderInv' /\ CleanBetweenCalls' /\ StreamInv'
  BY DEF AnswerInv, SessionInv, TypeOK, HolderInv, CleanBetweenCalls, StreamInv
<1>2. NumberInv' /\ RequestInv' /\ GivenInv'
  BY DEF AnswerInv, SessionInv, NumberInv, RequestInv, GivenInv, Busy
<1>3. ReadInv' /\ WireInv' /\ OwnAnswer'
  BY DEF AnswerInv, SessionInv, ReadInv, WireInv, OwnAnswer, Reading
<1>4. QED
  BY <1>1, <1>2, <1>3 DEF AnswerInv, SessionInv

\* A new connection has nothing of the old one.
LEMMA DialInv ==
    ASSUME AnswerInv, Dial
    PROVE  AnswerInv'
<1>0. /\ TypeOK /\ HolderInv /\ NumberInv /\ \A c \in Callers : call[c].pc = "idle"
      /\ up' = <<>> /\ down' = <<>> /\ serve' = Listening /\ closing' = {} /\ open' = TRUE
      /\ UNCHANGED <<gate, call, calls, given>> /\ dials' = dials + 1 /\ dials < MaxDials
  BY DEF AnswerInv, SessionInv, Dial
<1>1. TypeOK'
  BY <1>0, NothingLemma, SessionAssumption DEF TypeOK
<1>2. HolderInv' /\ CleanBetweenCalls'
  BY <1>0, NothingLemma DEF HolderInv, CleanBetweenCalls, Quiet
<1>3. NumberInv' /\ RequestInv' /\ GivenInv'
  BY <1>0 DEF NumberInv, RequestInv, GivenInv, Busy
<1>4. ReadInv' /\ WireInv' /\ OwnAnswer' /\ StreamInv'
  BY <1>0, NothingLemma DEF ReadInv, WireInv, OwnAnswer, StreamInv, Reading
<1>5. QED
  BY <1>1, <1>2, <1>3, <1>4 DEF AnswerInv, SessionInv

\* The request goes out on a session at rest.
LEMMA SendInv ==
    ASSUME AnswerInv, NEW c \in Callers, Send(c)
    PROVE  AnswerInv'
<1>0. /\ TypeOK /\ HolderInv /\ NumberInv /\ GivenInv /\ ReadInv /\ StreamInv /\ WireInv
      /\ call[c].pc = "send" /\ open
      /\ UNCHANGED <<open, gate, closing, calls, dials, down, serve, given>>
  BY DEF AnswerInv, SessionInv, Send
<1>1. /\ call' \in [Callers -> Call]
      /\ call'[c].pc = "recv"
      /\ call'[c].want = call[c].want /\ call'[c].id = call[c].id
      /\ call'[c].got = call[c].got
      /\ \A d \in Callers \ {c} : call'[d] = call[d]
  BY <1>0, AdvanceLemma DEF TypeOK, Send
<1>2. call[c].got = <<>> /\ given.re # call[c].id /\ Quiet
  BY <1>0 DEF ReadInv, GivenInv, StreamInv, Busy
<1>3. gate = c /\ \A d \in Callers \ {c} : call[d].pc \in {"idle", "gate"}
  BY <1>0, OneHolder
<1>. DEFINE q == [re |-> call[c].id, want |-> call[c].want]
<1>4. up' = <<q>>
  BY <1>2 DEF Send, Quiet
<1>5. q \in [re : Nat, want : Wants] /\ q.re = call[c].id /\ q.want = call[c].want
  BY <1>0 DEF TypeOK, Call
<1>. HIDE DEF q
<1>6. TypeOK'
  BY <1>0, <1>1, <1>4, <1>5 DEF TypeOK
<1>7. HolderInv' /\ CleanBetweenCalls'
  <2>1. HolderInv'
    BY <1>0, <1>1 DEF HolderInv
  <2>2. gate # NoCaller
    BY <1>3, SessionAssumption
  <2>3. QED
    BY <1>0, <2>1, <2>2 DEF CleanBetweenCalls
<1>8. \A d \in Callers : /\ Busy(d)' = Busy(d)
                         /\ call'[d].id = call[d].id /\ call'[d].want = call[d].want
  BY <1>0, <1>1 DEF Busy
<1>9. NumberInv'
  <2>1. call[c].id <= calls
    BY <1>0 DEF NumberInv, Busy, TypeOK
  <2>2. \A i \in 1..Len(up') : up'[i].re <= calls
    BY <1>4, <1>5, <2>1
  <2>3. QED
    BY <1>0, <1>8, <2>2 DEF NumberInv
<1>10. RequestInv'
  BY <1>0, <1>1, <1>4, <1>5, <1>8 DEF RequestInv, NumberInv, Busy
<1>11. GivenInv'
  BY <1>0, <1>1, <1>2, <1>3, <1>8 DEF GivenInv, Busy
<1>12. ReadInv' /\ OwnAnswer'
  BY <1>0, <1>1, <1>2, <1>3 DEF ReadInv, OwnAnswer, Reading
<1>13. StreamInv'
  <2>1. down' = <<>> /\ serve'.out = <<>> /\ serve'.pc # "write"
    BY <1>0, <1>2 DEF Quiet, WireInv
  <2>2. Head(up').re = call'[c].id
    BY <1>1, <1>4, <1>5
  <2>3. QED
    BY <1>1, <1>3, <2>1, <2>2 DEF StreamInv, Reading
<1>14. WireInv'
  BY <1>0 DEF WireInv
<1>15. QED
  BY <1>6, <1>7, <1>9, <1>10, <1>11, <1>12, <1>13, <1>14 DEF AnswerInv, SessionInv

\* The server closes the connection; what it has written may still be read.
LEMMA ServerClosesInv ==
    ASSUME AnswerInv, ServerCloses
    PROVE  AnswerInv'
<1>0. /\ serve'.pc = "closed" /\ serve'.out = <<>> /\ serve' \in Serve
      /\ UNCHANGED <<open, gate, call, closing, calls, dials, up, down, given>>
  BY DEF ServerCloses, Serve, client
<1>1. TypeOK' /\ HolderInv' /\ CleanBetweenCalls'
  BY <1>0 DEF AnswerInv, SessionInv, TypeOK, HolderInv, CleanBetweenCalls, Quiet
<1>2. NumberInv' /\ RequestInv' /\ GivenInv'
  BY <1>0 DEF AnswerInv, SessionInv, NumberInv, RequestInv, GivenInv, Busy
<1>3. ReadInv' /\ WireInv' /\ OwnAnswer'
  BY <1>0 DEF AnswerInv, SessionInv, ReadInv, WireInv, OwnAnswer, Reading
<1>4. StreamInv'
  <2>1. ASSUME NEW d \in Callers, NEW n, NEW f, Expected(d, n, f)
        PROVE  Expected(d, n, f)'
    BY <1>0, <2>1 DEF Expected
  <2>2. \A d \in Callers : Reading(d)' = Reading(d) /\ Position(d)' = Position(d)
    BY <1>0 DEF Reading, Position
  <2>3. QED
    BY <1>0, <2>1, <2>2 DEF AnswerInv, SessionInv, StreamInv, Quiet
<1>5. QED
  BY <1>1, <1>2, <1>3, <1>4 DEF AnswerInv, SessionInv

\* The server writes the next frame of the answer.
LEMMA WriteFrameInv ==
    ASSUME AnswerInv, WriteFrame
    PROVE  AnswerInv'
<1>0. /\ TypeOK /\ WireInv /\ StreamInv /\ CleanBetweenCalls /\ serve.pc = "write"
      /\ UNCHANGED <<open, gate, call, closing, calls, dials, up, given>>
  BY DEF AnswerInv, SessionInv, WriteFrame, client
<1>. DEFINE f == Head(serve.out)
            n == serve.total + (IF f.type = "entry" THEN FrameBytes(f) ELSE 0)
<1>1. /\ serve.out \in Seq(Frame) /\ serve.out # <<>> /\ serve.total \in Nat
      /\ down \in Seq(Frame)
  BY <1>0 DEF TypeOK, Serve, WireInv
<1>2. /\ f \in Frame /\ f = serve.out[1] /\ Tail(serve.out) \in Seq(Frame)
      /\ Len(Tail(serve.out)) = Len(serve.out) - 1 /\ Len(serve.out) >= 1
      /\ \A i \in 1..Len(Tail(serve.out)) : Tail(serve.out)[i] = serve.out[i + 1]
  BY <1>1, HeadTailProperties
<1>3. n \in Nat
  <2>1. CASE f.type = "entry"
    <3>1. f.val[1] \in Nat
      BY <1>0, <1>1, <1>2, <2>1 DEF WireInv
    <3>2. FrameBytes(f) = f.val[1] + Envelope
      BY <2>1 DEF FrameBytes
    <3>3. QED
      BY <1>1, <2>1, <3>1, <3>2, SessionAssumption
  <2>2. CASE f.type # "entry"
    BY <1>1, <2>2
  <2>3. QED
    BY <2>1, <2>2
<1>4. /\ down' = Append(down, f)
      /\ \/ serve' = [pc |-> "closed", out |-> <<>>, total |-> 0]
         \/ serve' = [pc |-> IF Len(serve.out) = 1 THEN "read" ELSE "write",
                      out |-> Tail(serve.out), total |-> n]
  BY DEF WriteFrame
<1>. HIDE DEF f, n
<1>5. /\ down' \in Seq(Frame) /\ Len(down') = Len(down) + 1
      /\ \A i \in 1..Len(down) : down'[i] = down[i]
      /\ down'[Len(down) + 1] = f
  BY <1>1, <1>2, <1>4, AppendProperties
<1>6. /\ serve' \in Serve /\ (serve'.pc = "write" <=> serve'.out # <<>>)
      /\ serve'.out \in Seq(Frame)
      /\ \A i \in 1..Len(serve'.out) : /\ i + 1 \in 1..Len(serve.out)
                                      /\ serve'.out[i] = serve.out[i + 1]
  <2>1. CASE serve' = [pc |-> "closed", out |-> <<>>, total |-> 0]
    BY <2>1 DEF Serve
  <2>2. CASE serve' = [pc |-> IF Len(serve.out) = 1 THEN "read" ELSE "write",
                       out |-> Tail(serve.out), total |-> n]
    <3>1. Tail(serve.out) # <<>> <=> Len(serve.out) # 1
      <4>1. Len(serve.out) \in Nat /\ Len(Tail(serve.out)) \in Nat
        BY <1>1, <1>2
      <4>2. Tail(serve.out) = <<>> <=> Len(Tail(serve.out)) = 0
        BY <1>2, EmptySeq
      <4>3. QED
        BY <1>2, <4>1, <4>2
    <3>2. serve' \in Serve
      BY <1>2, <1>3, <2>2 DEF Serve
    <3>3. QED
      BY <1>1, <1>2, <2>2, <3>1, <3>2
  <2>3. QED
    BY <1>4, <2>1, <2>2
<1>7. TypeOK' /\ HolderInv' /\ CleanBetweenCalls'
  BY <1>0, <1>5, <1>6 DEF AnswerInv, SessionInv, TypeOK, HolderInv, CleanBetweenCalls, Quiet
<1>8. NumberInv' /\ RequestInv' /\ GivenInv'
  BY <1>0 DEF AnswerInv, SessionInv, NumberInv, RequestInv, GivenInv, Busy
<1>9. ReadInv' /\ OwnAnswer'
  BY <1>0 DEF AnswerInv, SessionInv, ReadInv, OwnAnswer, Reading
<1>10. WireInv'
  <2>1. f.type = "entry" => Len(f.val) = 1 /\ f.val[1] \in Nat
    BY <1>0, <1>1, <1>2 DEF WireInv
  <2>2. \A i \in 1..Len(down') :
            down'[i].type = "entry" => Len(down'[i].val) = 1 /\ down'[i].val[1] \in Nat
    BY <1>0, <1>1, <1>5, <2>1 DEF WireInv
  <2>3. \A i \in 1..Len(serve'.out) : serve'.out[i].type = "entry" =>
            Len(serve'.out[i].val) = 1 /\ serve'.out[i].val[1] \in Nat
    BY <1>0, <1>6 DEF WireInv
  <2>4. QED
    BY <1>6, <2>2, <2>3 DEF WireInv
<1>11. StreamInv'
  <2>1. SUFFICES ASSUME open PROVE StreamInv'
    BY <1>0 DEF StreamInv
  <2>2. up = <<>> /\ ~Quiet
    BY <1>0, <2>1 DEF StreamInv, Quiet
  <2>3. ASSUME NEW d \in Callers, NEW k, NEW g, Expected(d, k, g)
        PROVE  Expected(d, k, g)'
    BY <1>0, <2>3 DEF Expected
  <2>4. \A d \in Callers : Reading(d)' = Reading(d) /\ Position(d)' = Position(d)
    BY <1>0 DEF Reading, Position
  <2>5. \A d \in Callers : Reading(d) => Position(d) \in Nat
    BY <1>0 DEF Position, TypeOK, Call
  <2>6. ASSUME NEW d \in Callers, Reading(d), NEW i \in 1..Len(down')
        PROVE  Expected(d, Position(d) + i, down'[i])
    <3>1. CASE i \in 1..Len(down)
      BY <1>0, <1>5, <2>1, <2>6, <3>1 DEF StreamInv
    <3>2. CASE i = Len(down) + 1
      <4>1. 1 \in 1..Len(serve.out)
        BY <1>1, <1>2
      <4>2. Expected(d, Position(d) + Len(down) + 1, serve.out[1])
        BY <1>0, <2>1, <2>6, <4>1 DEF StreamInv
      <4>3. Position(d) + i = Position(d) + Len(down) + 1
        BY <1>1, <2>5, <2>6, <3>2
      <4>4. QED
        BY <1>2, <1>5, <3>2, <4>2, <4>3
    <3>3. QED
      BY <1>1, <1>5, <3>1, <3>2
  <2>7. ASSUME NEW d \in Callers, Reading(d), NEW i \in 1..Len(serve'.out)
        PROVE  Expected(d, Position(d) + Len(down') + i, serve'.out[i])
    <3>1. Expected(d, Position(d) + Len(down) + (i + 1), serve.out[i + 1])
      BY <1>0, <1>6, <2>1, <2>7 DEF StreamInv
    <3>2. Position(d) + Len(down) + (i + 1) = Position(d) + Len(down') + i
      <4>1. Position(d) \in Nat /\ Len(down) \in Nat /\ i \in Nat
        BY <1>1, <1>6, <2>5, <2>7
      <4>2. QED
        BY <1>5, <4>1
    <3>3. QED
      BY <1>6, <3>1, <3>2
  <2>8. \A d \in Callers : call[d].pc \notin {"locked", "send", "check", "stop"}
    BY <1>0, <2>1, <2>2 DEF StreamInv
  <2>9. QED
    BY <1>0, <2>2, <2>3, <2>4, <2>6, <2>7, <2>8 DEF StreamInv
<1>12. QED
  BY <1>7, <1>8, <1>9, <1>10, <1>11 DEF AnswerInv, SessionInv

\* What handleRequest does with the request q: it begins to write an error, or
\* the answer that the backend gave, and given says which.
Replies(q) ==
    /\ serve'.pc = "write" /\ serve' \in Serve /\ serve'.out # <<>>
    /\ \/ /\ given' = given
          /\ \A i \in 1..Len(serve'.out) : serve'.out[i].type = "error" /\ i = 1
       \/ /\ given'.re = q.re /\ given'.val \in Answers(q.want)
          /\ given' \in [re : Nat, val : Seq(Payload)]
          /\ \A i \in 1..Len(serve'.out) :
                LET f == serve'.out[i] IN
                \/ f.type = "error" /\ i = 1
                \/ IF q.want = "list"
                     THEN \/ /\ f.type = "entry" /\ i <= Len(given'.val)
                             /\ f.val = <<given'.val[i]>> /\ given'.val[i] \in Nat
                          \/ f.type = "end" /\ i = Len(given'.val) + 1 /\ f.val = <<>>
                     ELSE \/ f.type = "block" /\ i = 1 /\ f.val = <<>>
                          \/ f.type = "data" /\ i = 2 /\ f.val = <<q.want>>

\* handleRequest does that with the first request under way.
LEMMA HandleRequestLemma ==
    ASSUME TypeOK, HandleRequest
    PROVE  Replies(Head(up))
<1>. DEFINE q == Head(up)
<1>0. q.re \in Nat /\ q.want \in Wants
  <2>1. q = up[1] /\ 1 \in 1..Len(up)
    BY FirstRequest DEF HandleRequest
  <2>2. QED
    BY <2>1, NumberTypes
<1>4. \/ /\ serve' = [pc |-> "write", out |-> <<Reply(q.re, "error", <<>>)>>, total |-> 0]
         /\ given' = given
      \/ /\ q.want = "list"
         /\ \E index \in Indexes :
              /\ serve' = [pc |-> "write", out |-> ListReply(q.re, index), total |-> 0]
              /\ given' = [re |-> q.re, val |-> index]
      \/ /\ q.want # "list"
         /\ serve' = [pc |-> "write", out |-> BlockReply(q.re, q.want), total |-> 0]
         /\ given' = [re |-> q.re, val |-> <<q.want>>]
  BY DEF HandleRequest
<1>. HIDE DEF q
<1>1. CASE /\ serve' = [pc |-> "write", out |-> <<Reply(q.re, "error", <<>>)>>, total |-> 0]
           /\ given' = given
  <2>1. Reply(q.re, "error", <<>>) \in Frame /\ Reply(q.re, "error", <<>>).type = "error"
    BY <1>0 DEF Reply, Frame, Types
  <2>2. /\ serve'.out = <<Reply(q.re, "error", <<>>)>>
        /\ serve'.pc = "write" /\ serve' \in Serve
    BY <1>1, <2>1 DEF Serve
  <2>3. QED
    BY <1>1, <2>1, <2>2 DEF Replies, q
<1>2. ASSUME q.want = "list", NEW index \in Indexes,
             serve' = [pc |-> "write", out |-> ListReply(q.re, index), total |-> 0],
             given' = [re |-> q.re, val |-> index]
      PROVE  Replies(q)
  <2>1. serve'.out = ListReply(q.re, index) /\ given'.val = index /\ given'.re = q.re
    BY <1>2
  <2>2. index \in Seq(Nat) /\ index \in Seq(Payload)
    BY IndexPayload
  <2>3. /\ ListReply(q.re, index) \in Seq(Frame) /\ ListReply(q.re, index) # <<>>
        /\ \A i \in 1..Len(ListReply(q.re, index)) :
             LET f == ListReply(q.re, index)[i] IN
             \/ f.type = "error" /\ i = 1
             \/ f.type = "entry" /\ i <= Len(index) /\ f.val = <<index[i]>>
             \/ f.type = "end" /\ i = Len(index) + 1 /\ f.val = <<>>
    BY <1>0, ListReplyLemma
  <2>4. serve' \in Serve /\ serve'.pc = "write"
    BY <1>2, <2>3 DEF Serve
  <2>5. given' \in [re : Nat, val : Seq(Payload)]
    BY <1>0, <1>2, <2>2
  <2>6. index \in Answers(q.want)
    BY <1>2 DEF Answers
  <2>7. \A i \in 1..Len(ListReply(q.re, index)) : i <= Len(index) => index[i] \in Nat
    BY <2>2, <2>3
  <2>8. QED
    BY <1>2, <2>1, <2>3, <2>4, <2>5, <2>6, <2>7 DEF Replies
<1>3. CASE /\ q.want # "list"
           /\ serve' = [pc |-> "write", out |-> BlockReply(q.re, q.want), total |-> 0]
           /\ given' = [re |-> q.re, val |-> <<q.want>>]
  <2>1. q.want \in Blocks
    BY <1>0, <1>3 DEF Wants
  <2>2. /\ BlockReply(q.re, q.want) \in Seq(Frame) /\ Len(BlockReply(q.re, q.want)) = 2
        /\ BlockReply(q.re, q.want)[1].type = "block" /\ BlockReply(q.re, q.want)[1].val = <<>>
        /\ BlockReply(q.re, q.want)[2].type = "data"
        /\ BlockReply(q.re, q.want)[2].val = <<q.want>>
    BY <1>0, <2>1, BlockReplyLemma
  <2>3. serve' \in Serve /\ serve'.pc = "write" /\ serve'.out = BlockReply(q.re, q.want)
    BY <1>3, <2>2 DEF Serve
  <2>4. /\ given' \in [re : Nat, val : Seq(Payload)] /\ given'.re = q.re
        /\ given'.val = <<q.want>>
    BY <1>0, <1>3, <2>1 DEF Payload
  <2>5. given'.val \in Answers(q.want)
    BY <1>3, <2>4 DEF Answers
  <2>6. Len(serve'.out) = 2
    BY <2>2, <2>3
  <2>7. serve'.out # <<>> /\ \A i \in 1..Len(serve'.out) : i = 1 \/ i = 2
    BY <2>6
  <2>8. ASSUME NEW i \in 1..Len(serve'.out)
        PROVE  \/ serve'.out[i].type = "block" /\ i = 1 /\ serve'.out[i].val = <<>>
               \/ serve'.out[i].type = "data" /\ i = 2 /\ serve'.out[i].val = <<q.want>>
    BY <2>2, <2>3, <2>7
  <2>9. q.want # "list"
    BY <1>3
  <2>10. \A i \in 1..Len(serve'.out) :
             \/ serve'.out[i].type = "block" /\ i = 1 /\ serve'.out[i].val = <<>>
             \/ serve'.out[i].type = "data" /\ i = 2 /\ serve'.out[i].val = <<q.want>>
    BY <2>8
  <2>11. QED
    BY <2>3, <2>4, <2>5, <2>7, <2>9, <2>10 DEF Replies, q
<1>5. QED
  BY <1>1, <1>2, <1>3, <1>4 DEF q

\* A request is answered: by the only caller that can be waiting.
LEMMA HandleRequestInv ==
    ASSUME AnswerInv, HandleRequest
    PROVE  AnswerInv'
<1>0. /\ TypeOK /\ HolderInv /\ CleanBetweenCalls /\ NumberInv /\ RequestInv /\ GivenInv
      /\ ReadInv /\ StreamInv /\ WireInv /\ OwnAnswer
      /\ UNCHANGED <<open, gate, call, closing, calls, dials, down>>
  BY DEF AnswerInv, SessionInv, HandleRequest, client
<1>. DEFINE q == Head(up)
<1>1. /\ up # <<>> /\ q = up[1] /\ 1 \in 1..Len(up) /\ Len(up') = 0 /\ up' = <<>>
      /\ q.re \in Nat /\ serve.pc = "read"
  <2>1. up # <<>> /\ up' = Tail(up) /\ Len(up) <= 1 /\ serve.pc = "read"
    BY <1>0 DEF HandleRequest, RequestInv
  <2>0. q = up[1]
    BY <1>0, <2>1, FirstRequest
  <2>. HIDE DEF q
  <2>. DEFINE Requests == [re : Nat, want : Wants]
  <2>2. up \in Seq(Requests)
    BY <1>0 DEF TypeOK
  <2>. HIDE DEF Requests
  <2>3. Len(up) = 1 /\ q = up[1]
    <3>1. Len(up) \in Nat /\ Len(up) # 0
      BY <2>1, <2>2, EmptySeq
    <3>2. Len(up) = 1
      <4>1. PICK n \in Nat : n = Len(up)
        BY <3>1
      <4>2. n <= 1 /\ n # 0
        BY <2>1, <3>1, <4>1
      <4>3. n = 1
        BY <4>2
      <4>4. QED
        BY <4>1, <4>3
    <3>3. QED
      BY <2>0, <3>2
  <2>4. up' = <<>>
    <3>1. up' \in Seq(Requests) /\ Len(up') = 0
      BY <2>1, <2>2, <2>3, HeadTailProperties
    <3>2. QED
      BY <3>1, EmptySeq
  <2>5. QED
    BY <1>0, <2>1, <2>3, <2>4, NumberTypes
<1>2. Replies(q)
  BY <1>0, HandleRequestLemma
<1>. HIDE DEF q
<1>3. \A c \in Callers : Busy(c) => given.re # call[c].id
  BY <1>0, <1>1 DEF GivenInv
<1>4. \A c \in Callers : (Busy(c) /\ q.re = call[c].id) =>
          call[c].pc = "recv" /\ call[c].want = q.want
  BY <1>0, <1>1 DEF RequestInv
<1>5. \A c \in Callers : /\ call[c].pc \notin {"data", "check", "stop"}
                         /\ call[c].pc = "recv" => call[c].got = <<>>
  <2>1. SUFFICES ASSUME NEW c \in Callers
                 PROVE  /\ call[c].pc \notin {"data", "check", "stop"}
                        /\ call[c].pc = "recv" => call[c].got = <<>>
    OBVIOUS
  <2>2. call[c].pc \notin {"data", "check", "stop"}
    BY <1>0, <1>3 DEF ReadInv, OwnAnswer, Busy
  <2>3. ASSUME call[c].pc = "recv" PROVE call[c].got = <<>>
    <3>1. \A i \in 1..Len(call[c].got) : FALSE
      BY <1>0, <1>3, <2>3 DEF ReadInv, Busy
    <3>2. call[c].got \in Seq(Payload)
      BY <1>0 DEF TypeOK, Call
    <3>3. QED
      BY <3>1, <3>2, EmptySeq
  <2>4. QED
    BY <2>2, <2>3
<1>6. TypeOK'
  <2>1. up' \in Seq([re : Nat, want : Wants])
    BY <1>1
  <2>2. given' \in [re : Nat, val : Seq(Payload)]
    BY <1>0, <1>2 DEF Replies, TypeOK
  <2>3. serve' \in Serve
    BY <1>2 DEF Replies
  <2>4. QED
    BY <1>0, <2>1, <2>2, <2>3 DEF TypeOK
<1>7. HolderInv' /\ CleanBetweenCalls'
  BY <1>0, <1>1 DEF HolderInv, CleanBetweenCalls, Quiet
<1>8. NumberInv' /\ RequestInv'
  <2>1. given'.re <= calls
    BY <1>0, <1>1, <1>2 DEF Replies, NumberInv
  <2>2. NumberInv'
    BY <1>0, <1>1, <2>1 DEF NumberInv, Busy
  <2>3. QED
    BY <1>1, <2>2 DEF RequestInv
<1>9. GivenInv'
  BY <1>0, <1>1, <1>2, <1>3, <1>4 DEF GivenInv, Replies, Busy
<1>10. ReadInv' /\ OwnAnswer'
  BY <1>0, <1>5 DEF ReadInv, OwnAnswer, Reading
<1>11. WireInv'
  <2>1. \A i \in 1..Len(serve'.out) : serve'.out[i].type = "entry" =>
            Len(serve'.out[i].val) = 1 /\ serve'.out[i].val[1] \in Nat
    <3>1. SUFFICES ASSUME NEW i \in 1..Len(serve'.out), serve'.out[i].type = "entry"
                   PROVE  Len(serve'.out[i].val) = 1 /\ serve'.out[i].val[1] \in Nat
      OBVIOUS
    <3>2. \E v \in Nat : serve'.out[i].val = <<v>>
      BY <1>2, <3>1 DEF Replies
    <3>3. QED
      BY <3>2
  <2>2. QED
    BY <1>0, <1>2, <2>1 DEF Replies, WireInv
<1>12. StreamInv'
  <2>1. SUFFICES ASSUME open PROVE StreamInv'
    BY <1>0 DEF StreamInv
  <2>2. down = <<>> /\ ~Quiet
    BY <1>0, <1>1, <2>1 DEF StreamInv, Quiet
  <2>3. ASSUME NEW c \in Callers, Reading(c), NEW i \in 1..Len(serve'.out)
        PROVE  Expected(c, Position(c) + Len(down) + i, serve.out[i])'
    <3>1. call[c].id = q.re /\ call[c].pc = "recv" /\ call[c].want = q.want
      BY <1>0, <1>1, <1>4, <2>1, <2>3 DEF StreamInv, Reading, Busy, q
    <3>2. Position(c)' = 0 /\ Len(down') = 0
      BY <1>0, <1>5, <2>2, <3>1 DEF Position
    <3>3. serve'.out \in Seq(Frame)
      BY <1>2 DEF Replies, Serve
    <3>4. Position(c)' + Len(down') + i = i
      BY <3>2, <3>3
    <3>5. call' = call
      BY <1>0
    <3>6. Expected(c, i, serve.out[i])'
      BY <1>2, <3>1, <3>5, <2>3 DEF Replies, Expected
    <3>7. QED
      BY <3>4, <3>6
  <2>4. \A c \in Callers : call[c].pc \notin {"locked", "send", "check", "stop"}
    BY <1>0, <2>1, <2>2 DEF StreamInv
  <2>5. \A c \in Callers : Reading(c)' = Reading(c)
    BY <1>0 DEF Reading
  <2>6. QED
    BY <1>0, <1>1, <2>2, <2>3, <2>4, <2>5 DEF StreamInv
<1>13. QED
  BY <1>6, <1>7, <1>8, <1>9, <1>10, <1>11, <1>12 DEF AnswerInv, SessionInv

\* A frame that the callback accepts is the next one of the caller's own answer.
LEMMA OwnFrame ==
    ASSUME AnswerInv, NEW c \in Callers, Recv(c)
    PROVE  LET f == Head(down) IN
           /\ up = <<>> /\ f = down[1] /\ f \in Frame
           /\ given.re = call[c].id
           /\ Expected(c, Position(c) + 1, f)
           /\ \/ f.type \in {"entry", "end"} /\ call[c].pc = "recv" /\ call[c].want = "list"
              \/ f.type = "block" /\ call[c].pc = "recv" /\ call[c].want # "list"
              \/ f.type = "data" /\ call[c].pc = "data" /\ call[c].want # "list"
<1>. DEFINE f == Head(down)
<1>0. TypeOK /\ StreamInv /\ ReadInv /\ open /\ down # <<>> /\ Reading(c)
  BY DEF AnswerInv, SessionInv, Recv, Reading
<1>1. f = down[1] /\ f \in Frame /\ 1 \in 1..Len(down)
  <2>1. down \in Seq(Frame)
    BY <1>0 DEF TypeOK
  <2>2. QED
    BY <1>0, <2>1, HeadTailProperties
<1>2. Continues(c, f)
  BY DEF Recv
<1>. HIDE DEF f
<1>3. up = <<>> /\ Expected(c, Position(c) + 1, f)
  BY <1>0, <1>1 DEF StreamInv
<1>4. \/ f.type \in {"entry", "end"} /\ call[c].pc = "recv" /\ call[c].want = "list"
      \/ f.type = "block" /\ call[c].pc = "recv" /\ call[c].want # "list"
      \/ f.type = "data" /\ call[c].pc = "data" /\ call[c].want # "list"
  BY <1>0, <1>2 DEF Continues, ReadInv
<1>5. given.re = call[c].id
  BY <1>3, <1>4 DEF Expected
<1>6. QED
  BY <1>1, <1>3, <1>4, <1>5 DEF f

\* What the caller has after it: one entry more, the end of the index that was
\* given, the head of the block or the block that was given.
LEMMA ReadNext ==
    ASSUME AnswerInv, NEW c \in Callers, Recv(c)
    PROVE  /\ call' \in [Callers -> Call]
           /\ \A d \in Callers \ {c} : call'[d] = call[d]
           /\ call'[c].want = call[c].want /\ call'[c].id = call[c].id
           /\ \/ /\ call'[c].pc \in {"recv", "data"}
                 /\ Position(c) \in Nat /\ Position(c)' = Position(c) + 1
                 /\ call'[c].pc = "data" => call'[c].got = <<>> /\ call[c].want # "list"
                 /\ call'[c].pc = "recv" =>
                       /\ call[c].want = "list"
                       /\ \A i \in 1..Len(call'[c].got) :
                              i <= Len(given.val) /\ call'[c].got[i] = given.val[i]
              \/ /\ call'[c].pc = "check" /\ call'[c].got = given.val
                 /\ \A n \in Nat : \A g : Expected(c, n, g) => n <= Position(c) + 1
                 /\ Position(c) \in Nat
<1>. DEFINE f == Head(down)
<1>0. TypeOK /\ ReadInv /\ GivenInv /\ WireInv
  BY DEF AnswerInv, SessionInv
<1>1. /\ f = down[1] /\ f \in Frame /\ given.re = call[c].id
      /\ Expected(c, Position(c) + 1, f)
      /\ \/ f.type \in {"entry", "end"} /\ call[c].pc = "recv" /\ call[c].want = "list"
         \/ f.type = "block" /\ call[c].pc = "recv" /\ call[c].want # "list"
         \/ f.type = "data" /\ call[c].pc = "data" /\ call[c].want # "list"
  BY OwnFrame
<1>2. /\ call[c] \in Call /\ call[c].got \in Seq(Payload) /\ given.val \in Seq(Payload)
      /\ Position(c) \in Nat /\ f.val \in Seq(Payload) /\ call[c].total \in Nat
  <2>1. call[c] \in Call /\ given.val \in Seq(Payload)
    BY <1>0 DEF TypeOK
  <2>2. call[c].got \in Seq(Payload) /\ call[c].total \in Nat
    BY <2>1 DEF Call
  <2>3. f.val \in Seq(Payload)
    BY <1>1 DEF Frame
  <2>4. Position(c) \in Nat
    BY <2>2 DEF Position
  <2>5. QED
    BY <2>1, <2>2, <2>3, <2>4
<1>3. FrameBytes(f) \in Nat
  <2>1. CASE f.type = "entry"
    <3>1. down \in Seq(Frame) /\ down # <<>>
      BY <1>0 DEF TypeOK, Recv
    <3>2. 1 \in 1..Len(down)
      BY <3>1
    <3>3. f.val[1] \in Nat
      BY <1>0, <1>1, <2>1, <3>2 DEF WireInv
    <3>4. QED
      BY <2>1, <3>3, SessionAssumption DEF FrameBytes
  <2>2. CASE f.type # "entry"
    BY <2>2, SessionAssumption DEF FrameBytes
  <2>3. QED
    BY <2>1, <2>2
<1>4. call' = [call EXCEPT ![c].pc = After(c, f), ![c].got = call[c].got \o f.val,
                           ![c].total = call[c].total + FrameBytes(f)]
  BY DEF Recv
<1>. HIDE DEF f
<1>5. After(c, f) \in {"recv", "data", "check"}
  BY <1>1 DEF After
<1>6. call[c].got \o f.val \in Seq(Payload) /\ call[c].total + FrameBytes(f) \in Nat
  BY <1>2, <1>3, ConcatProperties
<1>7. /\ call' \in [Callers -> Call]
      /\ \A d \in Callers \ {c} : call'[d] = call[d]
      /\ call'[c].want = call[c].want /\ call'[c].id = call[c].id
      /\ call'[c].pc = After(c, f) /\ call'[c].got = call[c].got \o f.val
  BY <1>0, <1>2, <1>4, <1>5, <1>6 DEF TypeOK, Call
<1>8. CASE f.type = "entry"
  <2>1. call'[c].pc = "recv" /\ call[c].pc = "recv" /\ call[c].want = "list"
    BY <1>1, <1>7, <1>8 DEF After
  <2>2. /\ Position(c) = Len(call[c].got) /\ Position(c) + 1 <= Len(given.val)
        /\ f.val = <<given.val[Position(c) + 1]>>
    BY <1>1, <1>8, <2>1 DEF Position, Expected
  <2>. DEFINE v == given.val[Len(call[c].got) + 1]
  <2>3. call'[c].got = call[c].got \o <<v>> /\ Len(call[c].got) + 1 <= Len(given.val)
    BY <1>7, <2>2
  <2>4. v \in Payload
    BY <1>2, <2>3
  <2>5. call'[c].got = Append(call[c].got, v)
    BY <1>2, <2>3, <2>4, AppendIsConcat
  <2>6. /\ Len(call'[c].got) = Len(call[c].got) + 1
        /\ \A i \in 1..Len(call[c].got) : call'[c].got[i] = call[c].got[i]
        /\ call'[c].got[Len(call[c].got) + 1] = v
    BY <1>2, <2>4, <2>5, AppendProperties
  <2>7. \A i \in 1..Len(call[c].got) : i <= Len(given.val) /\ call[c].got[i] = given.val[i]
    BY <1>0, <2>1 DEF ReadInv
  <2>8. Len(call[c].got) \in Nat
    BY <1>2
  <2>9. ASSUME NEW i \in 1..Len(call'[c].got)
        PROVE  i <= Len(given.val) /\ call'[c].got[i] = given.val[i]
    <3>1. i \in 1..Len(call[c].got) \/ i = Len(call[c].got) + 1
      BY <2>6, <2>8
    <3>2. QED
      BY <2>3, <2>6, <2>7, <3>1
  <2>10. Position(c)' = Position(c) + 1
    BY <2>1, <2>2, <2>6 DEF Position
  <2>11. QED
    BY <1>2, <1>7, <2>1, <2>9, <2>10
<1>9. CASE f.type = "end"
  <2>1. call'[c].pc = "check" /\ call[c].pc = "recv" /\ call[c].want = "list"
    BY <1>1, <1>7, <1>9 DEF After
  <2>2. /\ Position(c) = Len(call[c].got) /\ Position(c) + 1 = Len(given.val) + 1
        /\ f.val = <<>>
    BY <1>1, <1>9, <2>1 DEF Position, Expected
  <2>3. call'[c].got = call[c].got
    BY <1>2, <1>7, <2>2, ConcatEmptySeq
  <2>4. Len(call[c].got) = Len(given.val)
    BY <1>2, <2>2
  <2>5. \A i \in 1..Len(call[c].got) : call[c].got[i] = given.val[i]
    BY <1>0, <2>1 DEF ReadInv
  <2>6. call[c].got = given.val
    BY <1>2, <2>4, <2>5, SeqEqual
  <2>7. \A n \in Nat : \A g : Expected(c, n, g) => n <= Position(c) + 1
    BY <1>2, <2>1, <2>2 DEF Expected
  <2>8. QED
    BY <1>2, <1>7, <2>1, <2>3, <2>6, <2>7
<1>10. CASE f.type = "block"
  <2>1. call'[c].pc = "data" /\ call[c].pc = "recv" /\ call[c].want # "list"
    BY <1>1, <1>7, <1>10 DEF After
  <2>2. call[c].got = <<>> /\ f.val = <<>>
    BY <1>0, <1>1, <1>10, <2>1 DEF ReadInv, Reading, Expected
  <2>3. call'[c].got = <<>>
    BY <1>7, <2>2
  <2>4. Position(c) = 0 /\ Position(c)' = 1
    BY <2>1, <2>2 DEF Position
  <2>5. QED
    BY <1>7, <2>1, <2>3, <2>4
<1>11. CASE f.type = "data"
  <2>1. call'[c].pc = "check" /\ call[c].pc = "data" /\ call[c].want # "list"
    BY <1>1, <1>7, <1>11 DEF After
  <2>2. call[c].got = <<>> /\ f.val = <<call[c].want>> /\ Position(c) = 1
    BY <1>0, <1>1, <1>11, <2>1 DEF ReadInv, Reading, Expected, Position
  <2>3. call'[c].got = <<call[c].want>>
    BY <1>2, <1>7, <2>2, ConcatEmptySeq
  <2>4. given.val = <<call[c].want>>
    BY <1>0, <1>1, <2>1 DEF GivenInv, Busy, Answers
  <2>5. \A n \in Nat : \A g : Expected(c, n, g) => n <= Position(c) + 1
    BY <2>1, <2>2 DEF Expected
  <2>6. QED
    BY <1>7, <2>1, <2>2, <2>3, <2>4, <2>5
<1>12. QED
  BY <1>1, <1>8, <1>9, <1>10, <1>11

\* A frame is read: the session stays aligned, or the whole answer has been read.
LEMMA RecvInv ==
    ASSUME AnswerInv, NEW c \in Callers, Recv(c)
    PROVE  AnswerInv'
<1>0. /\ TypeOK /\ HolderInv /\ NumberInv /\ RequestInv /\ GivenInv /\ ReadInv
      /\ StreamInv /\ WireInv /\ OwnAnswer /\ Reading(c) /\ open
      /\ UNCHANGED <<open, gate, closing, calls, dials, up, serve, given>>
  BY DEF AnswerInv, SessionInv, Recv, Reading
<1>1. up = <<>> /\ given.re = call[c].id
  BY OwnFrame
<1>2. /\ call' \in [Callers -> Call]
      /\ \A d \in Callers \ {c} : call'[d] = call[d]
      /\ call'[c].want = call[c].want /\ call'[c].id = call[c].id
      /\ call'[c].pc \in {"recv", "data", "check"}
  BY ReadNext
<1>3. gate = c /\ \A d \in Callers \ {c} : call[d].pc \in {"idle", "gate"}
  BY <1>0, OneHolder DEF Reading
<1>4. /\ down \in Seq(Frame) /\ down' \in Seq(Frame) /\ Len(down') = Len(down) - 1
      /\ Len(down) \in Nat /\ Len(down') \in Nat
      /\ \A i \in 1..Len(down') : i + 1 \in 1..Len(down) /\ down'[i] = down[i + 1]
  <2>1. down \in Seq(Frame) /\ down # <<>> /\ down' = Tail(down)
    BY <1>0 DEF TypeOK, Recv
  <2>2. /\ down' \in Seq(Frame) /\ Len(down') = Len(down) - 1
        /\ \A i \in 1..Len(down') : down'[i] = down[i + 1]
    BY <2>1, HeadTailProperties
  <2>3. QED
    BY <2>1, <2>2
<1>5. TypeOK'
  BY <1>0, <1>2, <1>4 DEF TypeOK
<1>6. HolderInv' /\ CleanBetweenCalls'
  <2>1. HolderInv'
    BY <1>0, <1>2 DEF HolderInv, Reading
  <2>2. gate # NoCaller
    BY <1>3, SessionAssumption
  <2>3. QED
    BY <1>0, <2>1, <2>2 DEF CleanBetweenCalls
<1>7. \A d \in Callers : /\ Busy(d)' = Busy(d)
                         /\ call'[d].id = call[d].id /\ call'[d].want = call[d].want
  BY <1>0, <1>2 DEF Busy, Reading
<1>8. NumberInv' /\ RequestInv'
  <2>1. NumberInv'
    BY <1>0, <1>7 DEF NumberInv
  <2>2. up' = <<>>
    BY <1>0, <1>1
  <2>3. QED
    BY <2>1, <2>2 DEF RequestInv
<1>9. GivenInv'
  BY <1>0, <1>1, <1>2, <1>7 DEF GivenInv, Busy, Reading
<1>10. WireInv'
  BY <1>0, <1>4 DEF WireInv
<1>11. CASE /\ call'[c].pc \in {"recv", "data"}
            /\ Position(c) \in Nat /\ Position(c)' = Position(c) + 1
            /\ call'[c].pc = "data" => call'[c].got = <<>> /\ call[c].want # "list"
            /\ call'[c].pc = "recv" =>
                  /\ call[c].want = "list"
                  /\ \A i \in 1..Len(call'[c].got) :
                         i <= Len(given.val) /\ call'[c].got[i] = given.val[i]
  <2>1. ReadInv' /\ OwnAnswer'
    BY <1>0, <1>1, <1>2, <1>3, <1>11 DEF ReadInv, OwnAnswer, Reading
  <2>3. ASSUME NEW i \in 1..Len(down')
        PROVE  Expected(c, Position(c) + i, down[i])'
    <3>1. Expected(c, Position(c) + (i + 1), down[i + 1])
      BY <1>0, <1>4 DEF StreamInv
    <3>2. Position(c) + (i + 1) = Position(c)' + i
      BY <1>4, <1>11
    <3>3. Expected(c, Position(c)' + i, down'[i])
      BY <1>4, <3>1, <3>2
    <3>4. QED
      BY <1>0, <1>2, <3>3 DEF Expected
  <2>4. ASSUME NEW i \in 1..Len(serve.out)
        PROVE  Expected(c, Position(c) + Len(down) + i, serve.out[i])'
    <3>1. Expected(c, Position(c) + Len(down) + i, serve.out[i])
      BY <1>0 DEF StreamInv
    <3>2. i \in Int
      BY <1>0 DEF TypeOK, Serve
    <3>3. Position(c) + Len(down) + i = Position(c)' + Len(down') + i
      BY <1>4, <1>11, <3>2
    <3>4. Expected(c, Position(c)' + Len(down') + i, serve'.out[i])
      BY <1>0, <3>1, <3>3
    <3>5. QED
      BY <1>0, <1>2, <3>4 DEF Expected
  <2>5. StreamInv'
    BY <1>0, <1>1, <1>2, <1>3, <1>11, <2>3, <2>4 DEF StreamInv, Reading
  <2>6. QED
    BY <1>5, <1>6, <1>8, <1>9, <1>10, <2>1, <2>5 DEF AnswerInv, SessionInv
<1>12. CASE /\ call'[c].pc = "check" /\ call'[c].got = given.val
            /\ \A n \in Nat : \A g : Expected(c, n, g) => n <= Position(c) + 1
            /\ Position(c) \in Nat
  <2>1. ReadInv'
    BY <1>0, <1>2, <1>3, <1>12 DEF ReadInv, Reading
  <2>2. OwnAnswer'
    <3>1. given = [re |-> given.re, val |-> given.val]
      BY <1>0 DEF TypeOK
    <3>2. given' = [re |-> call'[c].id, val |-> call'[c].got]
      BY <1>0, <1>1, <1>2, <1>12, <3>1
    <3>3. QED
      BY <1>2, <1>3, <3>2 DEF OwnAnswer
  <2>3. Len(down) = 1
    <3>1. ASSUME Len(down) # 1 PROVE FALSE
      <4>1. 2 \in 1..Len(down)
        BY <1>4, <3>1
      <4>2. Expected(c, Position(c) + 2, down[2])
        BY <1>0, <4>1 DEF StreamInv
      <4>3. QED
        BY <1>12, <4>2
    <3>2. QED
      BY <3>1
  <2>4. down' = <<>>
    BY <1>4, <2>3, EmptySeq
  <2>5. serve.out = <<>>
    <3>1. serve.out \in Seq(Frame)
      BY <1>0 DEF TypeOK, Serve
    <3>2. ASSUME serve.out # <<>> PROVE FALSE
      <4>1. Len(serve.out) \in Nat /\ Len(serve.out) # 0
        BY <3>1, <3>2, EmptySeq
      <4>2. 1 \in 1..Len(serve.out)
        BY <4>1
      <4>3. Expected(c, Position(c) + Len(down) + 1, serve.out[1])
        BY <1>0, <4>2 DEF StreamInv
      <4>4. QED
        BY <1>12, <2>3, <4>3
    <3>3. QED
      BY <3>2
  <2>6. Quiet'
    BY <1>0, <1>1, <2>4, <2>5 DEF Quiet, WireInv
  <2>7. StreamInv'
    BY <1>0, <1>1, <1>2, <1>3, <1>12, <2>6 DEF StreamInv, Reading
  <2>8. QED
    BY <1>5, <1>6, <1>8, <1>9, <1>10, <2>1, <2>2, <2>7 DEF AnswerInv, SessionInv
<1>13. QED
  BY <1>11, <1>12, ReadNext

\* The steps after which an operation is over.
Ends(c) ==
    \/ GiveUp(c) \/ Refused(c) \/ RecvRefused(c) \/ IOFails(c) \/ Return(c)
    \/ CheckContext(c) /\ ~call[c].live

\* However an operation ends, it leaves no trace on a session that stays open.
LEMMA EndsInv ==
    ASSUME AnswerInv, NEW c \in Callers, Ends(c)
    PROVE  AnswerInv'
<1>0. TypeOK /\ StreamInv /\ open \in BOOLEAN
  BY DEF AnswerInv, SessionInv, TypeOK
<1>1. CASE GiveUp(c)
  <2>1. Busy(c) /\ call[c].pc = "gate" /\ Done(c)
        /\ UNCHANGED <<open, gate, down, closing, calls, dials, up, serve, given>>
    BY <1>1 DEF GiveUp, Busy
  <2>2. QED
    BY <1>0, <2>1, EndInv
<1>2. CASE Refused(c) \/ Return(c)
  <2>1. Busy(c) /\ call[c].pc \in {"locked", "stop"} /\ gate' = NoCaller /\ Done(c)
        /\ UNCHANGED <<open, down, closing, calls, dials, up, serve, given>>
    BY <1>2 DEF Refused, Return, Busy
  <2>2. open => Quiet
    BY <1>0, <2>1 DEF StreamInv
  <2>3. QED
    BY <1>0, <2>1, <2>2, EndInv
<1>3. CASE RecvRefused(c) \/ IOFails(c) \/ (CheckContext(c) /\ ~call[c].live)
  <2>1. Busy(c) /\ call[c].pc # "gate" /\ gate' = NoCaller /\ open' = FALSE /\ Done(c)
        /\ UNCHANGED <<closing, calls, dials, up, serve, given>>
    BY <1>3 DEF RecvRefused, IOFails, CheckContext, Fail, Busy
  <2>2. down' = down \/ (down # <<>> /\ down' = Tail(down))
    BY <1>3 DEF RecvRefused, IOFails, CheckContext
  <2>3. QED
    BY <2>1, <2>2, EndInv
<1>4. QED
  BY <1>1, <1>2, <1>3 DEF Ends

\* A caller takes the gate, arms its deadline, or sees that its context lives.
Moves(c) == Acquire(c) \/ Armed(c) \/ (CheckContext(c) /\ call[c].live)

\* What it has read and what is under way stay as they are.
LEMMA MovesInv ==
    ASSUME AnswerInv, NEW c \in Callers, Moves(c) \/ Expire(c)
    PROVE  AnswerInv'
<1>0. TypeOK /\ call \in [Callers -> Call] /\ closing \subseteq Callers
  BY DEF AnswerInv, SessionInv, TypeOK
<1>1. CASE Expire(c)
  <2>1. /\ call' = [call EXCEPT ![c].live = FALSE]
        /\ UNCHANGED <<open, gate, calls, dials, up, down, serve, given>>
        /\ closing' \subseteq Callers
    BY <1>0, <1>1 DEF Expire
  <2>2. /\ call' \in [Callers -> Call] /\ \A d \in Callers \ {c} : call'[d] = call[d]
        /\ call'[c].want = call[c].want /\ call'[c].id = call[c].id
        /\ call'[c].got = call[c].got /\ call'[c].pc = call[c].pc
    BY <1>0, <2>1 DEF Call
  <2>3. QED
    BY <2>1, <2>2, ControlInv
<1>2. CASE Moves(c)
  <2>1. UNCHANGED <<open, closing, calls, dials, up, down, serve, given>>
    BY <1>2 DEF Moves, Acquire, Armed, CheckContext
  <2>2. \/ call[c].pc = "gate" /\ Advance(c, "locked") /\ gate = NoCaller /\ gate' = c
        \/ call[c].pc = "locked" /\ Advance(c, "send") /\ gate' = gate
        \/ call[c].pc = "check" /\ Advance(c, "stop") /\ gate' = gate
    BY <1>2 DEF Moves, Acquire, Armed, CheckContext
  <2>3. PICK pc \in {"locked", "send", "stop"} :
            /\ Advance(c, pc)
            /\ \/ call[c].pc = "gate" /\ pc = "locked" /\ gate = NoCaller /\ gate' = c
               \/ call[c].pc = "locked" /\ pc = "send" /\ gate' = gate
               \/ call[c].pc = "check" /\ pc = "stop" /\ gate' = gate
    BY <2>2
  <2>4. /\ call' \in [Callers -> Call] /\ call'[c].pc = pc
        /\ call'[c].want = call[c].want /\ call'[c].id = call[c].id
        /\ call'[c].got = call[c].got
        /\ \A d \in Callers \ {c} : call'[d] = call[d]
    BY <1>0, <2>3, AdvanceLemma
  <2>5. QED
    BY <1>0, <2>1, <2>3, <2>4, ControlInv
<1>3. QED
  BY <1>1, <1>2

\* Every step of callers, timers, connection and server keeps the invariant.
LEMMA NextInv ==
    ASSUME AnswerInv, [Next]_vars
    PROVE  AnswerInv'
<1>1. ASSUME NEW c \in Callers, ClientStep(c)
      PROVE  AnswerInv'
  <2>1. Moves(c) \/ Ends(c) \/ Send(c) \/ Recv(c)
    BY <1>1 DEF ClientStep, Moves, Ends
  <2>2. QED
    BY <2>1, MovesInv, EndsInv, SendInv, RecvInv
<1>2. ASSUME NEW c \in Callers, LateClose(c)
      PROVE  AnswerInv'
  <2>1. closing' \subseteq Callers
    BY <1>2 DEF LateClose, AnswerInv, SessionInv, TypeOK
  <2>2. QED
    BY <1>2, <2>1, CloseInv DEF LateClose
<1>3. CASE Close
  <2>1. closing' \subseteq Callers
    BY <1>3 DEF Close, AnswerInv, SessionInv, TypeOK
  <2>2. QED
    BY <1>3, <2>1, CloseInv DEF Close
<1>4. CASE UNCHANGED vars
  <2>1. UNCHANGED <<open, up, down, gate, call, serve, closing, given, calls, dials>>
    BY <1>4 DEF vars, client
  <2>2. TypeOK' /\ HolderInv' /\ CleanBetweenCalls' /\ NumberInv' /\ RequestInv' /\ GivenInv'
    BY <2>1 DEF AnswerInv, SessionInv, TypeOK, HolderInv, CleanBetweenCalls, Quiet,
                NumberInv, RequestInv, GivenInv, Busy
  <2>3. ReadInv' /\ StreamInv' /\ WireInv' /\ OwnAnswer'
    BY <2>1 DEF AnswerInv, SessionInv, ReadInv, StreamInv, WireInv, OwnAnswer, Quiet,
                Reading, Position, Expected
  <2>4. QED
    BY <2>2, <2>3 DEF AnswerInv, SessionInv
<1>5. QED
  BY <1>1, <1>2, <1>3, <1>4, CallBeginInv, MovesInv, DialInv, HandleRequestInv, WriteFrameInv,
     ServerClosesInv DEF Next

----------------------------------------------------------------------------
(* The theorems.                                                           *)

\* On an open session the stream holds the request of the caller that waits or
\* the rest of its own answer and nothing else; between calls it is empty.
THEOREM SessionInvHolds == Spec => []SessionInv
<1>1. AnswerInv /\ [Next]_vars => AnswerInv'
  BY NextInv
<1>2. AnswerInv => SessionInv
  BY DEF AnswerInv
<1>3. QED
  BY <1>1, <1>2, InvInit, PTL DEF Spec

\* A successful operation returns what the backend gave for that very request,
\* though nothing on the wire says which request a frame answers.
THEOREM OwnAnswerHolds == Spec => []OwnAnswer
<1>1. AnswerInv /\ [Next]_vars => AnswerInv'
  BY NextInv
<1>2. AnswerInv => OwnAnswer
  BY DEF AnswerInv
<1>3. QED
  BY <1>1, <1>2, InvInit, PTL DEF Spec

----------------------------------------------------------------------------
(* Session implements the safety part of Rpc.                              *)

Ops == [c \in Callers |-> Operation(c)]
Over(pc) == pc \in {"check", "stop"}

\* An operation looks the same while it neither starts, nor is served, nor has
\* its whole answer, nor ends.
LEMMA OpSame ==
    ASSUME NEW d \in Callers, given' = given,
           call'[d].want = call[d].want, call'[d].id = call[d].id,
           call'[d].pc = "idle" <=> call[d].pc = "idle",
           Over(call'[d].pc) <=> Over(call[d].pc),
           Over(call[d].pc) => call'[d].got = call[d].got
    PROVE  Operation(d)' = Operation(d)
BY DEF Operation, Over

\* If at most the operation of c changes, the whole changes there.
LEMMA OneChanges ==
    ASSUME NEW c \in Callers, \A d \in Callers \ {c} : Operation(d)' = Operation(d)
    PROVE  /\ Ops[c] = Operation(c)
           /\ Ops' = [Ops EXCEPT ![c] = Operation(c)']
BY DEF Ops

\* If none changes, the step is invisible.
LEMMA NoneChanges ==
    ASSUME \A d \in Callers : Operation(d)' = Operation(d)
    PROVE  Ops' = Ops
BY DEF Ops

\* An operation begins.
LEMMA BeginStep ==
    ASSUME AnswerInv, NEW c \in Callers, NEW w \in Wants, CallBegin(c, w)
    PROVE  Abstract!Begin(c)
<1>0. TypeOK /\ NumberInv /\ call[c].pc = "idle" /\ given' = given
      /\ calls' = calls + 1 /\ call' = [call EXCEPT ![c] = [NoCall EXCEPT !.pc = "gate", !.want = w, !.id = calls']]
  BY DEF AnswerInv, SessionInv, CallBegin
<1>1. /\ call'[c].pc = "gate" /\ call'[c].want = w /\ call'[c].id = calls + 1
      /\ \A d \in Callers \ {c} : call'[d] = call[d]
  BY <1>0 DEF TypeOK, NoCall
<1>2. given'.re # call'[c].id
  <2>1. given.re \in Nat /\ calls \in Nat /\ given.re <= calls
    BY <1>0, NumberTypes DEF TypeOK, NumberInv
  <2>2. QED
    BY <1>0, <1>1, <2>1
<1>3. \A d \in Callers \ {c} : Operation(d)' = Operation(d)
  BY <1>0, <1>1, OpSame
<1>4. Operation(c).is = "idle" /\ Operation(c)' = [is |-> "called", want |-> w]
  BY <1>0, <1>1, <1>2 DEF Operation
<1>5. Ops[c].is = "idle" /\ Ops' = [Ops EXCEPT ![c] = Abstract!Called(w)]
  BY <1>3, <1>4, OneChanges DEF Abstract!Called
<1>6. QED
  BY <1>5 DEF Abstract!Begin, Ops

\* An operation ends.
LEMMA EndStep ==
    ASSUME AnswerInv, NEW c \in Callers, Ends(c)
    PROVE  Abstract!End(c)
<1>0. TypeOK /\ call[c].pc # "idle" /\ given' = given /\ Done(c)
  BY DEF AnswerInv, SessionInv, Ends, GiveUp, Refused, RecvRefused, IOFails, Return,
         CheckContext, Fail
<1>1. call'[c].pc = "idle" /\ \A d \in Callers \ {c} : call'[d] = call[d]
  BY <1>0, DoneLemma DEF TypeOK
<1>2. \A d \in Callers \ {c} : Operation(d)' = Operation(d)
  BY <1>0, <1>1, OpSame
<1>3. Operation(c).is # "idle" /\ Operation(c)' = [is |-> "idle"]
  BY <1>0, <1>1 DEF Operation
<1>4. Ops[c].is # "idle" /\ Ops' = [Ops EXCEPT ![c] = Abstract!Idle]
  BY <1>2, <1>3, OneChanges DEF Abstract!Idle
<1>5. QED
  BY <1>4 DEF Abstract!End, Ops

\* A frame is read: nothing is seen of it until the answer is complete.
LEMMA AnswerStep ==
    ASSUME AnswerInv, NEW c \in Callers, Recv(c)
    PROVE  Abstract!Answer(c) \/ Ops' = Ops
<1>0. given' = given /\ Reading(c) /\ given.re = call[c].id
  BY OwnFrame DEF Recv, Reading
<1>1. /\ \A d \in Callers \ {c} : call'[d] = call[d]
      /\ call'[c].want = call[c].want /\ call'[c].id = call[c].id
      /\ \/ call'[c].pc \in {"recv", "data"}
         \/ call'[c].pc = "check" /\ call'[c].got = given.val
  BY ReadNext
<1>2. \A d \in Callers \ {c} : Operation(d)' = Operation(d)
  BY <1>0, <1>1, OpSame
<1>3. CASE call'[c].pc \in {"recv", "data"}
  <2>1. Operation(c)' = Operation(c)
    BY <1>0, <1>1, <1>3, OpSame DEF Over, Reading
  <2>2. QED
    BY <1>2, <2>1, NoneChanges
<1>4. CASE call'[c].pc = "check" /\ call'[c].got = given.val
  <2>1. Operation(c) = [is |-> "served", want |-> call[c].want, val |-> given.val]
    BY <1>0 DEF Operation, Reading
  <2>2. Operation(c)' = [is |-> "answered", want |-> call[c].want, val |-> given.val]
    BY <1>1, <1>4 DEF Operation
  <2>3. /\ Ops[c].is = "served"
        /\ Ops' = [Ops EXCEPT ![c] = Abstract!Answered(Ops[c].want, Ops[c].val)]
    BY <1>2, <2>1, <2>2, OneChanges DEF Abstract!Answered
  <2>4. QED
    BY <2>3 DEF Abstract!Answer, Ops
<1>5. QED
  BY <1>1, <1>3, <1>4

\* A request reaches the backend: the caller that waits for it is served, once.
LEMMA ServeStep ==
    ASSUME AnswerInv, HandleRequest
    PROVE  (\E c \in Callers : Abstract!Serve(c)) \/ Ops' = Ops
<1>. DEFINE q == Head(up)
<1>0. TypeOK /\ NumberInv /\ RequestInv /\ GivenInv /\ call' = call /\ up # <<>>
  BY DEF AnswerInv, SessionInv, HandleRequest, client
<1>1. q = up[1] /\ 1 \in 1..Len(up)
  BY <1>0, FirstRequest
<1>2. given' = given \/ (given'.re = q.re /\ given'.val \in Answers(q.want))
  BY <1>0, HandleRequestLemma DEF Replies
<1>. HIDE DEF q
<1>3. \A d \in Callers : Busy(d) => given.re # call[d].id
  BY <1>0 DEF GivenInv
<1>4. CASE given' = given
  BY <1>0, <1>4, OpSame, NoneChanges
<1>5. CASE given'.re = q.re /\ given'.val \in Answers(q.want)
  <2>1. ASSUME NEW d \in Callers, Busy(d) => call[d].id # q.re
        PROVE  Operation(d)' = Operation(d)
    BY <1>0, <1>3, <1>5, <2>1 DEF Operation, Busy
  <2>2. CASE \A d \in Callers : Busy(d) => call[d].id # q.re
    BY <2>1, <2>2, NoneChanges
  <2>3. ASSUME NEW c \in Callers, Busy(c), call[c].id = q.re
        PROVE  Abstract!Serve(c)
    <3>1. call[c].pc = "recv" /\ call[c].want = q.want
      BY <1>0, <1>1, <2>3 DEF RequestInv
    <3>2. \A d \in Callers \ {c} : Busy(d) => call[d].id # q.re
      BY <1>0, <2>3 DEF NumberInv
    <3>3. \A d \in Callers \ {c} : Operation(d)' = Operation(d)
      BY <2>1, <3>2
    <3>4. Operation(c) = [is |-> "called", want |-> q.want]
      BY <1>3, <2>3, <3>1 DEF Operation
    <3>5. Operation(c)' = [is |-> "served", want |-> q.want, val |-> given'.val]
      BY <1>0, <1>5, <2>3, <3>1 DEF Operation
    <3>6. /\ Ops[c].is = "called" /\ Ops[c].want = q.want
          /\ Ops' = [Ops EXCEPT ![c] = Abstract!Served(Ops[c].want, given'.val)]
      BY <3>3, <3>4, <3>5, OneChanges DEF Abstract!Served
    <3>7. QED
      BY <1>5, <3>6 DEF Abstract!Serve, Ops
  <2>4. QED
    BY <2>2, <2>3
<1>6. QED
  BY <1>2, <1>4, <1>5

\* All other steps are invisible.
LEMMA HiddenStep ==
    ASSUME AnswerInv,
           \/ \E c \in Callers : Moves(c) \/ Expire(c) \/ Send(c) \/ LateClose(c)
           \/ Close \/ Dial \/ WriteFrame \/ ServerCloses \/ UNCHANGED vars
    PROVE  Ops' = Ops
<1>0. TypeOK /\ call \in [Callers -> Call]
  BY DEF AnswerInv, SessionInv, TypeOK
<1>1. given' = given
  BY DEF Moves, Acquire, Armed, CheckContext, Expire, Send, LateClose, Close, Dial, WriteFrame,
         ServerCloses, vars
<1>2. CASE \/ \E c \in Callers : LateClose(c)
           \/ Close \/ Dial \/ WriteFrame \/ ServerCloses \/ UNCHANGED vars
  <2>1. call' = call
    BY <1>2 DEF LateClose, Close, Dial, WriteFrame, ServerCloses, vars, client
  <2>2. QED
    BY <1>1, <2>1, OpSame, NoneChanges
<1>3. ASSUME NEW c \in Callers, Expire(c)
      PROVE  Ops' = Ops
  <2>1. /\ \A d \in Callers \ {c} : call'[d] = call[d]
        /\ call'[c].want = call[c].want /\ call'[c].id = call[c].id
        /\ call'[c].got = call[c].got /\ call'[c].pc = call[c].pc
    BY <1>0, <1>3 DEF Expire, Call
  <2>2. QED
    BY <1>1, <2>1, OpSame, NoneChanges
<1>4. ASSUME NEW c \in Callers, Moves(c) \/ Send(c)
      PROVE  Ops' = Ops
  <2>1. PICK pc \in {"locked", "send", "recv", "stop"} :
            /\ Advance(c, pc) /\ call[c].pc # "idle"
            /\ Over(pc) <=> Over(call[c].pc)
    BY <1>4 DEF Moves, Acquire, Armed, CheckContext, Send, Over
  <2>2. /\ call'[c].pc = pc
        /\ call'[c].want = call[c].want /\ call'[c].id = call[c].id
        /\ call'[c].got = call[c].got
        /\ \A d \in Callers \ {c} : call'[d] = call[d]
    BY <1>0, <2>1, AdvanceLemma
  <2>3. \A d \in Callers : Operation(d)' = Operation(d)
    BY <1>1, <2>1, <2>2, OpSame
  <2>4. QED
    BY <2>3, NoneChanges
<1>5. QED
  BY <1>2, <1>3, <1>4

\* A client is a remote procedure call that is served at most once and returns
\* the answer given to it, whatever callers, timers, either end of the
\* connection and the server do.
THEOREM IsRpcSafe == Spec => Abstract!Safety
<1>1. Init => Abstract!Init
  <2>1. ASSUME Init PROVE \A c \in Callers : Operation(c) = [is |-> "idle"]
    BY <2>1, NothingLemma DEF Init, Operation
  <2>2. QED
    BY <2>1 DEF Abstract!Init, Abstract!Idle
<1>2. AnswerInv /\ [Next]_vars => [Abstract!Next]_Ops
  <2>1. SUFFICES ASSUME AnswerInv, [Next]_vars PROVE [Abstract!Next]_Ops
    OBVIOUS
  <2>2. ASSUME NEW c \in Callers, ClientStep(c)
        PROVE  Abstract!Answer(c) \/ Abstract!End(c) \/ Ops' = Ops
    <3>1. Moves(c) \/ Ends(c) \/ Send(c) \/ Recv(c)
      BY <2>2 DEF ClientStep, Moves, Ends
    <3>2. QED
      BY <2>1, <3>1, HiddenStep, EndStep, AnswerStep
  <2>3. CASE \/ \E c \in Callers : Expire(c) \/ LateClose(c)
             \/ Close \/ Dial \/ WriteFrame \/ ServerCloses \/ UNCHANGED vars
    BY <2>1, <2>3, HiddenStep
  <2>4. CASE \E c \in Callers : \E w \in Wants : CallBegin(c, w)
    BY <2>1, <2>4, BeginStep DEF Abstract!Next
  <2>5. CASE \E c \in Callers : ClientStep(c)
    BY <2>2, <2>5 DEF Abstract!Next
  <2>6. CASE HandleRequest
    BY <2>1, <2>6, ServeStep DEF Abstract!Next
  <2>7. QED
    BY <2>1, <2>3, <2>4, <2>5, <2>6 DEF Next
<1>3. AnswerInv /\ [Next]_vars => AnswerInv'
  BY NextInv
<1>4. AnswerInv /\ [Next]_vars => [Abstract!Next]_([c \in Callers |-> Operation(c)])
  BY <1>2 DEF Ops
<1>5. QED
  BY <1>1, <1>3, <1>4, InvInit, PTL DEF Spec, Abstract!Safety
============================================================================
