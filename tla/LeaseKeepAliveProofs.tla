------------------------ MODULE LeaseKeepAliveProofs ------------------------
(***************************************************************************)
(* An application that trusts a lease for what a response says, counted from *)
(* the call that the response answers, never trusts it too long: for any     *)
(* duration of the lease and any capacities of the stream's buffers.         *)
(***************************************************************************)
EXTENDS LeaseKeepAlive, RequestStreamProofs

Request == {KeepAlive}

Sending == IF sending = NoRequest THEN 0 ELSE 1

(* TypeOK without the request half. *)
RestOK ==
    /\ left \in 0..TTL /\ renewed \in BOOLEAN
    /\ out \in Seq({0, TTL}) /\ Len(out) <= Unread
    /\ call \in [op : Ops, step : {"sent", "done"}, age : 0..TTL, ttl : 0..TTL] \cup {NoCall}
    /\ late \in Ops \cup {NoCall}
    /\ keeper \in {"none", "held", "failed", "dropped"}
    /\ ages \in Seq(0..TTL)
    /\ trusted \in 0..TTL /\ revoked \in BOOLEAN

(* How the keeper follows the stream. *)
KeeperInv ==
    /\ handled = <<>> => out = <<>>
    /\ stream = "over" => queue = <<>> /\ wire = <<>>
    /\ stream \in {"opening", "refreshing", "reopening"} => Len(ages) = 1
    /\ stream \in {"none", "opening", "refreshing", "reopening"} => keeper = "none"
    /\ keeper = "none" => sending = NoRequest
    /\ keeper = "failed" => stream = "over" /\ sending = NoRequest /\ out = <<>>

(* Every keep-alive that is still to be answered has an age. *)
Counted == Len(ages) >= Len(out) + Len(wire) + Len(queue) + Sending

(* What an answer under way promises has not expired since. *)
Promised ==
    ~revoked =>
        /\ \A k \in 1..Len(out) : out[k] <= left + ages[k]
        /\ call # NoCall /\ call.step = "done" => call.ttl <= left + call.age
        /\ call # NoCall => call.op # "revoke"
        /\ late # "revoke"

Trusted == trusted <= left /\ (revoked => trusted = 0)

RenewedInv ==
    /\ \A k \in 1..Len(out) : out[k] > 0 => renewed
    /\ keeper = "held" => renewed

IInv ==
    /\ StreamInv(Request) /\ RestOK
    /\ KeeperInv /\ Counted /\ Promised /\ Trusted /\ RenewedInv

USE LeaseAssumption

(* The parts of the invariant that speak of the stream, and the others. *)
StreamSide == StreamInv(Request) /\ KeeperInv /\ Counted

LeaseSide == RestOK /\ Promised /\ Trusted /\ RenewedInv

LEMMA Numbers ==
    ASSUME RestOK, StreamTypeOK(Request)
    PROVE  /\ TTL \in Nat \ {0}
           /\ Len(out) \in Nat /\ Len(ages) \in Nat /\ Len(queue) \in Nat /\ Len(wire) \in Nat
           /\ Sending \in {0, 1}
           /\ \A k \in 1..Len(out) : out[k] \in {0, TTL}
           /\ \A k \in 1..Len(ages) : ages[k] \in 0..TTL
<1>1. out \in Seq({0, TTL}) /\ ages \in Seq(0..TTL) /\ queue \in Seq(Request) /\ wire \in Seq(Request)
  BY DEF RestOK, StreamTypeOK
<1>2. Len(out) \in Nat /\ Len(ages) \in Nat /\ Len(queue) \in Nat /\ Len(wire) \in Nat
  BY <1>1, LenProperties
<1>3. (\A k \in 1..Len(out) : out[k] \in {0, TTL}) /\ (\A k \in 1..Len(ages) : ages[k] \in 0..TTL)
  BY <1>1, ElementOfSeq
<1> QED
  BY <1>2, <1>3 DEF Sending

----------------------------------------------------------------------------
(* Time, and the unary calls, leave the stream as it is. *)
UnaryStep ==
    \/ Tick \/ StartGrant \/ StartRevoke \/ StartTimeToLive
    \/ RunUnary \/ UnaryFails \/ RunLate
    \/ GrantReturns \/ RevokeReturns \/ TimeToLiveReturns

LEMMA TickAges ==
    ASSUME RestOK, Tick
    PROVE  /\ ages' \in Seq(0..TTL) /\ Len(ages') = Len(ages)
           /\ \A k \in 1..Len(ages) : ages'[k] = Older(ages[k]) /\ ages[k] \in 0..TTL
<1>1. /\ Len(ages) \in Nat /\ ages' = [k \in 1..Len(ages) |-> Older(ages[k])]
      /\ \A k \in 1..Len(ages) : ages[k] \in 0..TTL
  BY LenProperties, ElementOfSeq DEF RestOK, Tick
<1>2. ages' \in [1..Len(ages) -> 0..TTL]
  BY <1>1 DEF Older
<1>3. ages' \in Seq(0..TTL)
  BY <1>1, <1>2, IsASeq
<1>4. Len(ages') = Len(ages)
  <2>1. DOMAIN ages' = 1..Len(ages) /\ DOMAIN ages' = 1..Len(ages') /\ Len(ages') \in Nat
    BY <1>2, <1>3, LenProperties
  <2> QED
    BY <1>1, <2>1
<1> QED
  BY <1>1, <1>3, <1>4

LEMMA UnaryStepStream ==
    ASSUME StreamSide, RestOK, UnaryStep
    PROVE  StreamSide'
<1>1. UNCHANGED <<streamVars, out, keeper>>
  BY DEF UnaryStep, Tick, StartGrant, StartRevoke, StartTimeToLive, StartUnary, RunUnary,
         UnaryFails, RunLate, Returns, GrantReturns, RevokeReturns, TimeToLiveReturns,
         appVars, leaseVars, unaryVars
<1>2. Len(ages') = Len(ages)
  <2>1. CASE Tick
    BY <2>1, TickAges
  <2>2. CASE ~Tick
    BY <2>2 DEF UnaryStep, StartGrant, StartRevoke, StartTimeToLive, StartUnary, RunUnary,
         UnaryFails, RunLate, Returns, GrantReturns, RevokeReturns, TimeToLiveReturns, appVars
  <2> QED
    BY <2>1, <2>2
<1>3. StreamInv(Request)'
  <2>1. StreamStep(Request)
    BY <1>1 DEF StreamStep
  <2> QED
    BY <2>1, StreamInvStep DEF StreamSide, Request
<1> QED
  BY <1>1, <1>2, <1>3 DEF StreamSide, streamVars, KeeperInv, Counted, Sending

LEMMA UnaryStepLease ==
    ASSUME StreamSide, LeaseSide, UnaryStep
    PROVE  LeaseSide'
<1>1. RestOK /\ Promised /\ Trusted /\ RenewedInv /\ Counted /\ StreamTypeOK(Request)
  BY DEF StreamSide, LeaseSide, StreamInv
<1>2. /\ TTL \in Nat \ {0} /\ Len(out) \in Nat /\ Len(ages) \in Nat /\ Len(out) <= Len(ages)
      /\ \A k \in 1..Len(out) : out[k] \in {0, TTL} /\ ages[k] \in 0..TTL
  <2>1. Len(out) <= Len(ages)
    BY <1>1, Numbers DEF Counted
  <2> QED
    BY <1>1, <2>1, Numbers
<1>3. CASE Tick
  <2>1. /\ ages' \in Seq(0..TTL) /\ out' = out /\ renewed' = renewed /\ late' = late
        /\ keeper' = keeper /\ revoked' = revoked
        /\ left' = (IF left = 0 THEN 0 ELSE left - 1)
        /\ trusted' = (IF trusted = 0 THEN 0 ELSE trusted - 1)
        /\ call' = (IF call = NoCall THEN NoCall ELSE [call EXCEPT !.age = Older(@)])
    BY <1>1, <1>3, TickAges DEF Tick
  <2>2. call # NoCall => /\ call' = [call EXCEPT !.age = Older(@)]
                         /\ call.age \in 0..TTL /\ call.ttl \in 0..TTL
                         /\ call'.age = Older(call.age) /\ call'.ttl = call.ttl
                         /\ call'.op = call.op /\ call'.step = call.step
    BY <1>1, <2>1 DEF RestOK
  <2>3. \A age \in 0..TTL : Older(age) \in 0..TTL /\ (Older(age) = age + 1 \/ Older(age) = TTL)
    BY DEF Older
  <2>4. RestOK'
    <3>1. call' \in [op : Ops, step : {"sent", "done"}, age : 0..TTL, ttl : 0..TTL] \cup {NoCall}
      BY <1>1, <2>1, <2>2, <2>3 DEF RestOK
    <3>2. left' \in 0..TTL /\ trusted' \in 0..TTL
      BY <1>1, <2>1 DEF RestOK
    <3> QED
      BY <1>1, <2>1, <3>1, <3>2 DEF RestOK
  <2>5. Promised'
    <3> SUFFICES ASSUME ~revoked PROVE Promised'
      BY <2>1 DEF Promised
    <3>1. ASSUME NEW k \in 1..Len(out) PROVE out[k] <= left' + ages'[k]
      <4>1. out[k] \in {0, TTL} /\ ages[k] \in 0..TTL /\ out[k] <= left + ages[k]
            /\ ages'[k] = Older(ages[k]) /\ left \in 0..TTL
        BY <1>1, <1>2, <1>3, TickAges DEF Promised, RestOK
      <4> QED
        BY <2>1, <2>3, <4>1
    <3>2. call' # NoCall /\ call'.step = "done" => call'.ttl <= left' + call'.age
      <4>1. left \in 0..TTL /\ (call # NoCall /\ call.step = "done" => call.ttl <= left + call.age)
        BY <1>1 DEF Promised, RestOK
      <4> QED
        BY <2>1, <2>2, <2>3, <4>1
    <3> QED
      BY <1>1, <2>1, <2>2, <3>1, <3>2 DEF Promised
  <2>6. Trusted'
    BY <1>1, <2>1 DEF Trusted, RestOK
  <2> QED
    BY <1>1, <2>1, <2>4, <2>5, <2>6 DEF LeaseSide, RenewedInv
<1>4. CASE StartGrant \/ StartRevoke \/ StartTimeToLive
  <2>1. PICK op \in Ops :
           /\ call' = Call(op, "sent", 0, 0)
           /\ left' = left /\ renewed' = renewed /\ out' = out /\ late' = late
           /\ keeper' = keeper /\ ages' = ages
           /\ \/ op # "revoke" /\ trusted' = trusted /\ revoked' = revoked
              \/ op = "revoke" /\ trusted' = 0 /\ revoked' = TRUE
    BY <1>4 DEF StartGrant, StartRevoke, StartTimeToLive, StartUnary, Ops, leaseVars
  <2>2. RestOK'
    <3>1. call' \in [op : Ops, step : {"sent", "done"}, age : 0..TTL, ttl : 0..TTL]
      BY <1>2, <2>1 DEF Call
    <3>2. trusted' \in 0..TTL
      BY <1>1, <1>2, <2>1 DEF RestOK
    <3>3. revoked' \in BOOLEAN
      BY <1>1, <2>1 DEF RestOK
    <3> QED
      BY <1>1, <2>1, <3>1, <3>2, <3>3 DEF RestOK
  <2>3. Promised'
    BY <1>1, <2>1 DEF Promised, Call
  <2>4. Trusted'
    BY <1>1, <2>1 DEF Trusted, RestOK
  <2> QED
    BY <1>1, <2>1, <2>2, <2>3, <2>4 DEF LeaseSide, RenewedInv
<1>5. CASE RunUnary
  <2>1. /\ call # NoCall /\ call.step = "sent" /\ Run(call.op)
        /\ call' = [call EXCEPT !.step = "done", !.ttl = Answer(call.op)]
        /\ UNCHANGED <<renewed, out, late, keeper, ages, trusted, revoked>>
    BY <1>5 DEF RunUnary, appVars
  <2>2. call \in [op : Ops, step : {"sent", "done"}, age : 0..TTL, ttl : 0..TTL] /\ left \in 0..TTL
    BY <1>1, <2>1 DEF RestOK
  <2>3. /\ call'.op = call.op /\ call'.age = call.age /\ call'.ttl = Answer(call.op)
        /\ Answer(call.op) \in 0..TTL /\ left' \in 0..TTL
        /\ call.op # "revoke" => Answer(call.op) <= left' /\ left <= left'
    BY <2>1, <2>2 DEF Run, Answer, Ops
  <2>4. RestOK'
    BY <1>1, <2>1, <2>2, <2>3 DEF RestOK
  <2>5. Promised'
    <3> SUFFICES ASSUME ~revoked PROVE Promised'
      BY <2>1 DEF Promised
    <3>1. call.op # "revoke" /\ late # "revoke" /\ left <= left' /\ call'.ttl <= left'
      BY <1>1, <2>1, <2>3 DEF Promised
    <3>2. \A k \in 1..Len(out) : out[k] <= left' + ages[k]
      BY <1>1, <1>2, <2>2, <2>3, <3>1 DEF Promised
    <3> QED
      BY <2>1, <2>2, <2>3, <3>1, <3>2 DEF Promised
  <2>6. Trusted'
    BY <1>1, <2>1, <2>2, <2>3 DEF Trusted, Promised, RestOK
  <2> QED
    BY <1>1, <2>1, <2>4, <2>5, <2>6 DEF LeaseSide, RenewedInv
<1>6. CASE RunLate
  <2>1. /\ late # NoCall /\ late' = NoCall /\ Run(late)
        /\ UNCHANGED <<renewed, out, call, keeper, ages, trusted, revoked>>
    BY <1>6 DEF RunLate, appVars
  <2>2. left \in 0..TTL /\ left' \in 0..TTL /\ (late # "revoke" => left <= left')
    BY <1>1, <2>1 DEF Run, RestOK, Ops
  <2>3. RestOK'
    BY <1>1, <2>1, <2>2 DEF RestOK
  <2>4. Promised'
    <3> SUFFICES ASSUME ~revoked PROVE Promised'
      BY <2>1 DEF Promised
    <3>1. late # "revoke" /\ left <= left' /\ NoCall # "revoke"
      BY <1>1, <2>2, NoCallAssumption DEF Promised, Ops
    <3>2. \A k \in 1..Len(out) : out[k] <= left' + ages[k]
      BY <1>1, <1>2, <2>2, <3>1 DEF Promised
    <3>3. call # NoCall /\ call.step = "done" => call.ttl <= left' + call.age
      BY <1>1, <2>2, <3>1 DEF Promised, RestOK
    <3> QED
      BY <1>1, <2>1, <3>1, <3>2, <3>3 DEF Promised
  <2>5. Trusted'
    BY <1>1, <2>1, <2>2 DEF Trusted, Promised, RestOK
  <2> QED
    BY <1>1, <2>1, <2>3, <2>4, <2>5 DEF LeaseSide, RenewedInv
<1>7. CASE GrantReturns \/ RevokeReturns \/ TimeToLiveReturns
  <2>1. /\ call # NoCall /\ call.step = "done" /\ call' = NoCall
        /\ UNCHANGED <<left, renewed, out, late, keeper, ages, revoked>>
        /\ trusted' = trusted \/ Trust(call.ttl, call.age)
    BY <1>7 DEF GrantReturns, RevokeReturns, TimeToLiveReturns, Returns, leaseVars
  <2>2. call.age \in 0..TTL /\ call.ttl \in 0..TTL
    BY <1>1, <2>1 DEF RestOK
  <2>3. trusted' \in 0..TTL
    BY <1>1, <2>1, <2>2 DEF RestOK, Trust
  <2>4. Trusted'
    BY <1>1, <2>1, <2>2 DEF Trusted, Promised, Trust, RestOK
  <2> QED
    BY <1>1, <2>1, <2>3, <2>4 DEF LeaseSide, RestOK, Promised, RenewedInv
<1>8. CASE UnaryFails
  <2>1. /\ call # NoCall /\ call' = NoCall /\ (late' = late \/ late' = call.op)
        /\ UNCHANGED <<left, renewed, out, keeper, ages, trusted, revoked>>
    BY <1>8 DEF UnaryFails, leaseVars, appVars
  <2> QED
    BY <1>1, <2>1 DEF LeaseSide, RestOK, Promised, Trusted, RenewedInv
<1> QED
  BY <1>3, <1>4, <1>5, <1>6, <1>7, <1>8 DEF UnaryStep

----------------------------------------------------------------------------
(* Steps of the stream that leave lease and application as they are; some of   *)
(* the last responses may go.                                              *)
CarryStep ==
    \/ Transport \/ KeepAliveOpened \/ KeepAliveReturns \/ StreamEnds \/ DropKeeper
    \/ KeepAliveFails \/ UNCHANGED vars

LEMMA CarryStepOut ==
    ASSUME RestOK, CarryStep
    PROVE  /\ out' \in Seq({0, TTL}) /\ Len(out') \in Nat /\ Len(out) \in Nat
           /\ Len(out') <= Len(out)
           /\ \A k \in 1..Len(out') : out'[k] = out[k]
<1>1. out \in Seq({0, TTL}) /\ Len(out) \in Nat
  BY LenProperties DEF RestOK
<1>2. CASE StreamEnds
  <2>1. PICK n \in 0..Len(out) : out' = SubSeq(out, 1, n)
    BY <1>2 DEF StreamEnds
  <2>2. \A i \in 1..n : out[i] \in {0, TTL}
    BY <1>1, ElementOfSeq
  <2>3. /\ out' \in Seq({0, TTL}) /\ Len(out') = IF 1 <= n THEN n - 1 + 1 ELSE 0
        /\ \A i \in 1..(n - 1 + 1) : out'[i] = out[1 + i - 1]
    <3>1. 1 \in Int /\ n \in Int
      BY <1>1
    <3> QED
      BY <2>1, <2>2, <3>1, SubSeqProperties
  <2> QED
    BY <1>1, <2>3
<1>3. CASE KeepAliveFails
  BY <1>1, <1>3, EmptySeq DEF KeepAliveFails
<1>4. CASE out' = out
  BY <1>1, <1>4
<1> QED
  BY <1>2, <1>3, <1>4
     DEF CarryStep, Transport, KeepAliveOpened, KeepAliveReturns, DropKeeper, vars

LEMMA CarryStepLease ==
    ASSUME StreamSide, LeaseSide, CarryStep
    PROVE  LeaseSide'
<1>1. RestOK /\ Promised /\ Trusted /\ RenewedInv
  BY DEF LeaseSide
<1>2. /\ UNCHANGED <<leaseVars, unaryVars, ages, trusted, revoked>>
      /\ keeper' \in {keeper, "failed", "dropped"}
  BY DEF CarryStep, Transport, KeepAliveOpened, KeepAliveReturns, StreamEnds, DropKeeper,
         KeepAliveFails, vars, appVars
<1>3. RestOK'
  BY <1>1, <1>2, CarryStepOut DEF RestOK, leaseVars, unaryVars
<1>4. Promised' /\ RenewedInv'
  BY <1>1, <1>2, CarryStepOut DEF Promised, RenewedInv, leaseVars, unaryVars
<1> QED
  BY <1>1, <1>2, <1>3, <1>4 DEF LeaseSide, Trusted, leaseVars

LEMMA CarryStepStream ==
    ASSUME StreamSide, RestOK, CarryStep
    PROVE  StreamSide'
<1>1. StreamInv(Request) /\ KeeperInv /\ Counted /\ StreamTypeOK(Request) /\ Opening
  BY DEF StreamSide, StreamInv
<1>2. StreamInv(Request)'
  <2>1. StreamStep(Request)
    BY DEF CarryStep, Transport, KeepAliveOpened, KeepAliveReturns, StreamEnds, End, DropKeeper,
           KeepAliveFails, OpenFails, vars, streamVars, StreamStep
  <2> QED
    BY <1>1, <2>1, StreamInvStep DEF Request
<1>3. /\ Len(out') \in Nat /\ Len(out') <= Len(out) /\ Len(out) \in Nat
      /\ Len(ages) \in Nat /\ Len(queue) \in Nat /\ Len(wire) \in Nat /\ Sending \in {0, 1}
  BY <1>1, Numbers, CarryStepOut
<1>4. out = <<>> => out' = <<>>
  <2>1. out' \in Seq({0, TTL})
    BY CarryStepOut
  <2> QED
    BY <1>3, <2>1, EmptySeq
<1>5. ages' = ages
  BY DEF CarryStep, Transport, KeepAliveOpened, KeepAliveReturns, StreamEnds, DropKeeper,
         KeepAliveFails, vars, appVars
<1>6. CASE KeepAliveReturns
  <2>1. /\ stream = "open" /\ stream' = "open" /\ sending # NoRequest /\ sending' = NoRequest
        /\ queue' = Append(queue, sending) /\ wire' = wire /\ handled' = handled
        /\ out' = out /\ keeper' = keeper
    BY <1>6 DEF KeepAliveReturns, FinishSend, appVars
  <2>2. Len(queue') = Len(queue) + 1
    BY <1>1, <2>1, AppendProperties DEF StreamTypeOK
  <2>3. KeeperInv'
    BY <1>1, <2>1 DEF KeeperInv
  <2> QED
    BY <1>1, <1>2, <1>3, <1>5, <2>1, <2>2, <2>3 DEF StreamSide, Counted, Sending
<1>7. CASE Transport
  <2>1. out' = out /\ keeper' = keeper /\ sending' = sending /\ handled' = handled
    BY <1>7 DEF Transport, Refused, Retry, Transfer, appVars
  <2>2. CASE Refused
    BY <1>1, <1>2, <1>3, <1>5, <2>1, <2>2, EmptySeq
       DEF Refused, StreamSide, KeeperInv, Counted, Sending
  <2>3. CASE Retry
    <3>1. /\ stream = "refreshing" /\ stream' = "reopening" /\ queue' = sent /\ wire' = wire
          /\ Len(sent) = 1 /\ wire = <<>> /\ queue = <<>> /\ handled = <<>> /\ sending = NoRequest
      BY <1>1, <2>3 DEF Retry, Opening
    <3>2. out = <<>> /\ Len(ages) = 1 /\ Len(out) = 0 /\ Len(wire) = 0
      BY <1>1, <3>1, EmptySeq DEF KeeperInv
    <3> QED
      BY <1>1, <1>2, <1>5, <2>1, <3>1, <3>2 DEF StreamSide, KeeperInv, Counted, Sending
  <2>4. CASE Transfer
    <3>1. /\ queue # <<>> /\ queue' = Tail(queue) /\ wire' = Append(wire, Head(queue))
          /\ stream' = stream /\ Live
      BY <2>4 DEF Transfer
    <3>2. Len(queue') = Len(queue) - 1 /\ Len(wire') = Len(wire) + 1
      BY <1>1, <3>1, HeadTailProperties, AppendProperties DEF StreamTypeOK
    <3>3. KeeperInv'
      BY <1>1, <1>5, <2>1, <3>1 DEF KeeperInv, Live
    <3> QED
      BY <1>1, <1>2, <1>3, <1>5, <2>1, <3>2, <3>3 DEF StreamSide, Counted, Sending
  <2> QED
    BY <1>7, <2>2, <2>3, <2>4 DEF Transport
<1>8. CASE StreamEnds \/ KeepAliveFails
  <2>1. /\ stream' = "over" /\ queue' = <<>> /\ wire' = <<>> /\ sending' = sending /\ handled' = handled
        /\ \/ stream = "open" /\ keeper' = keeper
           \/ stream \in {"opening", "refreshing", "reopening"} /\ keeper' = "failed" /\ out' = <<>>
    BY <1>8 DEF StreamEnds, End, KeepAliveFails, OpenFails, Close, Calling, appVars
  <2>2. KeeperInv'
    BY <1>1, <1>4, <2>1 DEF KeeperInv, Opening
  <2> QED
    BY <1>1, <1>2, <1>3, <1>5, <2>1, <2>2, EmptySeq DEF StreamSide, Counted, Sending
<1>9. CASE KeepAliveOpened \/ DropKeeper \/ UNCHANGED vars
  <2>1. /\ UNCHANGED <<sending, queue, wire, handled, out, ages>>
        /\ \/ UNCHANGED <<stream, keeper>>
           \/ stream' = "open" /\ Calling /\ keeper' = keeper
           \/ stream = "open" /\ stream' = stream /\ keeper = "held" /\ keeper' = "dropped"
    BY <1>9 DEF KeepAliveOpened, Opened, DropKeeper, vars, streamVars, appVars
  <2>2. KeeperInv'
    BY <1>1, <2>1 DEF KeeperInv, Calling
  <2> QED
    BY <1>1, <1>2, <2>1, <2>2 DEF StreamSide, Counted, Sending
<1> QED
  BY <1>6, <1>7, <1>8, <1>9 DEF CarryStep

----------------------------------------------------------------------------
(* Calls to keep_alive: the ages grow by one, or lose the youngest. *)
CallStep ==
    \/ OpenKeepAlive \/ StartKeepAlive \/ KeepAliveGivenUp

LEMMA CallStepStream ==
    ASSUME StreamSide, RestOK, CallStep
    PROVE  /\ StreamSide'
           /\ ages' \in Seq(0..TTL)
           /\ \A k \in 1..Len(out) : ages'[k] = ages[k]
<1>1. StreamInv(Request) /\ KeeperInv /\ Counted /\ StreamTypeOK(Request) /\ Opening
  BY DEF StreamSide, StreamInv
<1>2. StreamInv(Request)'
  <2>1. StreamStep(Request)
    BY DEF CallStep, OpenKeepAlive, StartKeepAlive, KeepAliveGivenUp, StreamStep, Request
  <2> QED
    BY <1>1, <2>1, StreamInvStep DEF Request
<1>3. /\ Len(out) \in Nat /\ Len(ages) \in Nat /\ Len(queue) \in Nat /\ Len(wire) \in Nat
      /\ ages \in Seq(0..TTL) /\ TTL \in Nat \ {0}
      /\ out' = out /\ (keeper = "failed" => sending = NoRequest)
  BY <1>1, Numbers DEF RestOK, KeeperInv, CallStep, OpenKeepAlive, StartKeepAlive, KeepAliveGivenUp
<1>4. CASE OpenKeepAlive
  <2>1. /\ stream = "none" /\ stream' = "opening" /\ queue' = <<KeepAlive>> /\ ages' = <<0>>
        /\ UNCHANGED <<sending, wire, handled, keeper>>
    BY <1>4 DEF OpenKeepAlive, Open
  <2>2. handled = <<>> /\ wire = <<>> /\ sending = NoRequest /\ out = <<>> /\ keeper = "none"
    BY <1>1, <2>1 DEF Opening, KeeperInv
  <2>3. Len(out) = 0 /\ Len(wire) = 0 /\ Len(queue') = 1 /\ Len(ages') = 1 /\ ages' \in Seq(0..TTL)
    BY <1>3, <2>1, <2>2
  <2> QED
    BY <1>2, <1>3, <2>1, <2>2, <2>3 DEF StreamSide, KeeperInv, Counted, Sending
<1>5. CASE StartKeepAlive
  <2>1. /\ stream = "open" /\ sending = NoRequest /\ sending' = KeepAlive /\ keeper = "held"
        /\ ages' = Append(ages, 0) /\ KeepAlive # NoRequest
        /\ UNCHANGED <<stream, queue, wire, handled, keeper>>
    BY <1>5 DEF StartKeepAlive, StartSend
  <2>2. /\ ages' \in Seq(0..TTL) /\ Len(ages') = Len(ages) + 1
        /\ \A k \in 1..Len(ages) : ages'[k] = ages[k]
    <3>1. 0 \in 0..TTL
      BY <1>3
    <3> QED
      BY <1>3, <2>1, <3>1, AppendProperties
  <2>3. Len(ages) >= Len(out) /\ Counted'
    BY <1>1, <1>3, <2>1, <2>2 DEF Counted, Sending
  <2>4. KeeperInv'
    BY <1>1, <1>3, <2>1 DEF KeeperInv
  <2> QED
    BY <1>2, <1>3, <2>2, <2>3, <2>4 DEF StreamSide
<1>6. CASE KeepAliveGivenUp
  <2>1. /\ sending # NoRequest /\ sending' = NoRequest
        /\ ages' = SubSeq(ages, 1, Len(ages) - 1)
        /\ UNCHANGED <<stream, queue, wire, handled, keeper>>
    BY <1>6 DEF KeepAliveGivenUp, DropSend, SendFails
  <2>2. Len(ages) >= Len(out) + Len(wire) + Len(queue) + 1
    BY <1>1, <2>1 DEF Counted, Sending
  <2>3. /\ ages' \in Seq(0..TTL)
        /\ Len(ages') = (IF 1 <= Len(ages) - 1 THEN (Len(ages) - 1) - 1 + 1 ELSE 0)
        /\ \A i \in 1..((Len(ages) - 1) - 1 + 1) : ages'[i] = ages[1 + i - 1]
    <3>1. 1 \in Int /\ Len(ages) - 1 \in Int /\ \A i \in 1..(Len(ages) - 1) : ages[i] \in 0..TTL
      BY <1>3, ElementOfSeq
    <3> QED
      BY <2>1, <3>1, SubSeqProperties
  <2>4. Len(ages') = Len(ages) - 1
    <3>1. CASE Len(ages) = 1
      BY <2>3, <3>1
    <3>2. CASE Len(ages) > 1
      BY <1>3, <2>3, <3>2
    <3>3. Len(ages) = 1 \/ Len(ages) > 1
      <4>1. /\ Len(ages) \in Nat /\ Len(out) \in Nat /\ Len(wire) \in Nat /\ Len(queue) \in Nat
        BY <1>3
      <4>2. \A a, b, c, d \in Nat : a >= b + c + d + 1 => a = 1 \/ a > 1
        OBVIOUS
      <4> QED
        BY <2>2, <4>1, <4>2
    <3> QED
      BY <3>1, <3>2, <3>3
  <2>5. \A k \in 1..Len(out) : ages'[k] = ages[k]
    BY <1>3, <2>2, <2>3
  <2>6. KeeperInv' /\ Counted'
    <3>1. Len(ages) # 1 \/ stream \notin {"opening", "refreshing", "reopening"}
      BY <1>1, <2>1 DEF Opening
    <3>2. KeeperInv'
      BY <1>1, <1>3, <2>1, <3>1 DEF KeeperInv, Opening
    <3> QED
      BY <1>3, <2>1, <2>2, <2>4, <3>2 DEF Counted, Sending
  <2> QED
    BY <1>2, <2>3, <2>5, <2>6 DEF StreamSide
<1> QED
  BY <1>4, <1>5, <1>6 DEF CallStep

LEMMA CallStepLease ==
    ASSUME StreamSide, LeaseSide, CallStep
    PROVE  LeaseSide'
<1>1. RestOK /\ Promised /\ Trusted /\ RenewedInv
  BY DEF LeaseSide
<1>2. UNCHANGED <<leaseVars, out, unaryVars, keeper, trusted, revoked>>
  BY DEF CallStep, OpenKeepAlive, StartKeepAlive, KeepAliveGivenUp
<1>3. ages' \in Seq(0..TTL) /\ \A k \in 1..Len(out) : ages'[k] = ages[k]
  BY <1>1, CallStepStream
<1> QED
  BY <1>1, <1>2, <1>3 DEF LeaseSide, RestOK, Promised, Trusted, RenewedInv, leaseVars, unaryVars

----------------------------------------------------------------------------
(* A response is taken. *)
TakeStep == TakeFirst \/ Message

LEMMA TakeFacts ==
    ASSUME StreamSide, RestOK, TakeStep
    PROVE  /\ out' \in Seq({0, TTL}) /\ Len(out') = Len(out) - 1 /\ Len(out) \in Nat \ {0}
           /\ \A k \in 1..Len(out') : out'[k] = out[k + 1]
           /\ ages' \in Seq(0..TTL) /\ Len(ages') = Len(ages) - 1 /\ Len(ages) \in Nat
           /\ Len(out) <= Len(ages)
           /\ \A k \in 1..Len(ages') : ages'[k] = ages[k + 1]
           /\ out[1] \in {0, TTL} /\ ages[1] \in 0..TTL
           /\ Trust(out[1], ages[1])
<1>1. StreamTypeOK(Request) /\ Counted /\ out # <<>> /\ FirstTaken
  BY DEF StreamSide, StreamInv, TakeStep, TakeFirst, Message
<1>2. /\ out \in Seq({0, TTL}) /\ ages \in Seq(0..TTL) /\ Len(out) \in Nat /\ Len(ages) \in Nat
      /\ Len(out) <= Len(ages)
  BY <1>1, Numbers DEF Counted, RestOK
<1>3. /\ out' \in Seq({0, TTL}) /\ Len(out') = Len(out) - 1 /\ Len(out) # 0
      /\ \A k \in 1..Len(out') : out'[k] = out[k + 1]
      /\ Head(out) = out[1] /\ out[1] \in {0, TTL}
  BY <1>1, <1>2, HeadTailProperties, EmptySeq DEF FirstTaken
<1>4. ages # <<>>
  BY <1>2, <1>3, EmptySeq
<1>5. ages' = Tail(ages)
  BY <1>1, <1>2, <1>4, TailIsSubSeq DEF FirstTaken
<1>6. /\ ages' \in Seq(0..TTL) /\ Len(ages') = Len(ages) - 1 /\ ages[1] \in 0..TTL
      /\ \A k \in 1..Len(ages') : ages'[k] = ages[k + 1]
  BY <1>2, <1>4, <1>5, HeadTailProperties
<1> QED
  BY <1>1, <1>2, <1>3, <1>4, <1>6 DEF FirstTaken

LEMMA TakeStepStream ==
    ASSUME StreamSide, RestOK, TakeStep
    PROVE  StreamSide'
<1>1. StreamInv(Request) /\ KeeperInv /\ Counted /\ StreamTypeOK(Request)
  BY DEF StreamSide, StreamInv
<1>2. /\ UNCHANGED <<stream, sending, queue, wire, sent, handled>>
      /\ stream \in {"open", "over"} /\ out # <<>>
      /\ \/ keeper = "none" /\ keeper' = "held"
         \/ keeper \in {"held", "dropped"} /\ keeper' = keeper
  BY DEF TakeStep, TakeFirst, Message, streamVars
<1>3. StreamInv(Request)'
  <2>1. StreamStep(Request)
    BY <1>2 DEF StreamStep, streamVars
  <2> QED
    BY <1>1, <2>1, StreamInvStep DEF Request
<1>4. KeeperInv'
  BY <1>1, <1>2 DEF KeeperInv
<1>5. Counted'
  BY <1>1, <1>2, Numbers, TakeFacts DEF Counted, Sending
<1> QED
  BY <1>3, <1>4, <1>5 DEF StreamSide

LEMMA TakeStepLease ==
    ASSUME StreamSide, LeaseSide, TakeStep
    PROVE  LeaseSide'
<1>1. RestOK /\ Promised /\ Trusted /\ RenewedInv
  BY DEF LeaseSide
<1>2. /\ UNCHANGED <<left, renewed, call, late, revoked>>
      /\ keeper' = keeper \/ (keeper' = "held" /\ Head(out) > 0)
  BY DEF TakeStep, TakeFirst, Message, leaseVars, unaryVars
<1>3. 1 \in 1..Len(out) /\ left \in 0..TTL /\ trusted \in 0..TTL /\ TTL \in Nat
  BY <1>1, TakeFacts DEF RestOK
<1>4. ~revoked => out[1] <= left + ages[1]
  BY <1>1, <1>3 DEF Promised
<1>5. trusted' \in 0..TTL /\ Trusted'
  BY <1>1, <1>2, <1>3, <1>4, TakeFacts DEF Trust, Trusted
<1>6. RestOK'
  <2>1. out' \in Seq({0, TTL}) /\ ages' \in Seq(0..TTL)
    BY <1>1, TakeFacts
  <2>2. Len(out') <= Unread
    <3>1. Len(out') = Len(out) - 1 /\ Len(out) \in Nat
      BY <1>1, TakeFacts
    <3> QED
      BY <1>1, <3>1, LeaseAssumption DEF RestOK
  <2>3. keeper' \in {"none", "held", "failed", "dropped"}
    BY <1>1, <1>2 DEF RestOK
  <2> QED
    BY <1>1, <1>2, <1>5, <2>1, <2>2, <2>3 DEF RestOK
<1>7. Promised'
  <2> SUFFICES ASSUME ~revoked PROVE Promised'
    BY <1>2 DEF Promised
  <2>1. ASSUME NEW k \in 1..Len(out') PROVE out'[k] <= left + ages'[k]
    <3>1. k + 1 \in 1..Len(out) /\ k \in 1..Len(ages')
      BY TakeFacts, <1>1
    <3>2. out[k + 1] <= left + ages[k + 1]
      BY <1>1, <3>1 DEF Promised
    <3> QED
      BY <1>1, <3>1, <3>2, TakeFacts
  <2> QED
    BY <1>1, <1>2, <2>1 DEF Promised
<1>8. RenewedInv'
  <2>1. ASSUME NEW k \in 1..Len(out'), out'[k] > 0 PROVE renewed
    <3>1. k + 1 \in 1..Len(out) /\ out'[k] = out[k + 1]
      BY TakeFacts, <1>1
    <3> QED
      BY <1>1, <2>1, <3>1 DEF RenewedInv
  <2>2. keeper' = "held" => renewed
    <3>1. Head(out) > 0 => renewed
      BY <1>1, <1>3, TakeFacts DEF RenewedInv, RestOK
    <3> QED
      BY <1>1, <1>2, <3>1 DEF RenewedInv
  <2> QED
    BY <1>2, <2>1, <2>2 DEF RenewedInv
<1> QED
  BY <1>5, <1>6, <1>7, <1>8 DEF LeaseSide

----------------------------------------------------------------------------
(* keep_alive fails without a keeper. *)
LEMMA GoneStepKeeps ==
    ASSUME IInv, TakeFirstGone \/ TakeNone
    PROVE  IInv'
<1>1. /\ StreamInv(Request) /\ RestOK /\ KeeperInv /\ Counted /\ Promised /\ Trusted /\ RenewedInv
      /\ StreamTypeOK(Request)
  BY DEF IInv, StreamInv
<1>2. /\ keeper = "none" /\ keeper' = "failed" /\ ages' = <<>> /\ out' = <<>>
      /\ stream' = "over" /\ queue' = <<>> /\ wire' = <<>>
      /\ UNCHANGED <<sending, handled, left, renewed, call, late, trusted, revoked>>
  BY <1>1 DEF TakeFirstGone, TakeNone, Close, KeeperInv, streamVars, leaseVars, unaryVars
<1>3. StreamInv(Request)'
  <2>1. StreamStep(Request)
    BY DEF TakeFirstGone, TakeNone, StreamStep
  <2> QED
    BY <1>1, <2>1, StreamInvStep DEF Request
<1>4. sending = NoRequest
  BY <1>1, <1>2 DEF KeeperInv
<1>5. /\ out' \in Seq({0, TTL}) /\ ages' \in Seq(0..TTL) /\ Len(out') = 0 /\ Len(ages') = 0
      /\ Len(queue') = 0 /\ Len(wire') = 0
  BY <1>2, EmptySeq
<1>6. KeeperInv' /\ Counted'
  BY <1>2, <1>4, <1>5 DEF KeeperInv, Counted, Sending
<1>7. RestOK'
  BY <1>1, <1>2, <1>5 DEF RestOK
<1>8. Promised' /\ Trusted' /\ RenewedInv'
  BY <1>1, <1>2, <1>5 DEF Promised, Trusted, RenewedInv
<1> QED
  BY <1>3, <1>6, <1>7, <1>8 DEF IInv

(* A new stream for the same lease. *)
LEMMA StartOverKeeps ==
    ASSUME IInv, StartOver
    PROVE  IInv'
<1>1. /\ StreamInv(Request) /\ RestOK /\ KeeperInv /\ Promised /\ Trusted /\ StreamTypeOK(Request)
  BY DEF IInv, StreamInv
<1>2. /\ stream' = "none" /\ queue' = <<>> /\ wire' = <<>> /\ sent' = <<>> /\ handled' = <<>>
      /\ sending = NoRequest /\ sending' = NoRequest
      /\ keeper' = "none" /\ ages' = <<>> /\ renewed' = FALSE /\ out = <<>> /\ out' = <<>>
      /\ UNCHANGED <<left, call, late, trusted, revoked>>
  BY <1>1 DEF StartOver, KeeperInv, unaryVars
<1>3. <<>> \in Seq(Request) /\ <<>> \in Seq({0, TTL}) /\ <<>> \in Seq(0..TTL) /\ Len(<<>>) = 0
      /\ SubSeq(<<>>, 1, 0) = <<>>
  BY EmptySeq, SubSeqEmpty
<1>4. StreamInv(Request)'
  <2>1. StreamTypeOK(Request)' /\ Opening' /\ Whole'
    BY <1>2, <1>3, CapacityAssumption DEF StreamTypeOK, Stages, Opening, Whole, Live
  <2>2. ReadInOrder'
    BY <1>2, <1>3 DEF ReadInOrder, Begins
  <2> QED
    BY <2>1, <2>2 DEF StreamInv
<1>5. KeeperInv' /\ Counted'
  BY <1>2, <1>3 DEF KeeperInv, Counted, Sending
<1>6. RestOK'
  BY <1>1, <1>2, <1>3 DEF RestOK
<1>7. Promised' /\ Trusted' /\ RenewedInv'
  BY <1>1, <1>2, <1>3 DEF Promised, Trusted, RenewedInv
<1> QED
  BY <1>4, <1>5, <1>6, <1>7 DEF IInv

(* The server answers the next keep-alive. *)
LEMMA RenewKeeps ==
    ASSUME IInv, Renew
    PROVE  IInv'
<1>1. /\ StreamInv(Request) /\ RestOK /\ KeeperInv /\ Counted /\ Promised /\ Trusted /\ RenewedInv
      /\ StreamTypeOK(Request)
  BY DEF IInv, StreamInv
<1>2. /\ Len(out) < Unread /\ wire # <<>> /\ wire' = Tail(wire) /\ handled' = Append(handled, Head(wire))
      /\ left' = (IF left > 0 THEN TTL ELSE 0)
      /\ renewed' = (renewed \/ left > 0)
      /\ out' = Append(out, left') /\ Live
      /\ UNCHANGED <<stream, sending, queue, sent, call, late, keeper, ages, trusted, revoked>>
  BY DEF Renew, Receive, unaryVars, appVars
<1>3. StreamInv(Request)'
  <2>1. StreamStep(Request)
    BY DEF Renew, StreamStep
  <2> QED
    BY <1>1, <2>1, StreamInvStep DEF Request
<1>4. /\ out \in Seq({0, TTL}) /\ Len(out) \in Nat /\ Len(ages) \in Nat /\ Len(queue) \in Nat
      /\ Len(wire) \in Nat /\ Sending \in {0, 1} /\ TTL \in Nat \ {0} /\ left \in 0..TTL
      /\ \A k \in 1..Len(out) : out[k] \in {0, TTL}
      /\ \A k \in 1..Len(ages) : ages[k] \in 0..TTL
  BY <1>1, Numbers DEF RestOK
<1>5. left' \in {0, TTL} /\ left <= left' /\ left' \in 0..TTL
  BY <1>2, <1>4
<1>6. /\ out' \in Seq({0, TTL}) /\ Len(out') = Len(out) + 1
      /\ \A k \in 1..Len(out) : out'[k] = out[k]
      /\ out'[Len(out) + 1] = left'
  BY <1>2, <1>4, <1>5, AppendProperties
<1>7. Len(wire') = Len(wire) - 1 /\ handled' # <<>>
  <2>1. Len(handled') = Len(handled) + 1 /\ Len(handled) \in Nat /\ Len(wire') = Len(wire) - 1
    BY <1>1, <1>2, HeadTailProperties, AppendProperties, LenProperties DEF StreamTypeOK
  <2> QED
    BY <2>1, EmptySeq
<1>8. KeeperInv'
  BY <1>1, <1>2, <1>7 DEF KeeperInv, Live
<1>9. Counted'
  BY <1>1, <1>2, <1>4, <1>6, <1>7 DEF Counted, Sending
<1>10. RestOK'
  <2>1. Len(out') <= Unread
    BY <1>2, <1>4, <1>6
  <2>2. renewed' \in BOOLEAN
    BY <1>2
  <2> QED
    BY <1>1, <1>2, <1>5, <1>6, <2>1, <2>2 DEF RestOK
<1>11. Promised'
  <2> SUFFICES ASSUME ~revoked PROVE Promised'
    BY <1>2 DEF Promised
  <2>1. ASSUME NEW k \in 1..Len(out') PROVE out'[k] <= left' + ages'[k]
    <3>1. k \in 1..Len(ages) /\ ages'[k] \in 0..TTL
      BY <1>2, <1>4, <1>6, <1>9 DEF Counted, Sending
    <3>2. CASE k \in 1..Len(out)
      <4>1. out'[k] <= left + ages[k] /\ out'[k] \in {0, TTL}
        BY <1>1, <1>4, <1>6, <3>2 DEF Promised
      <4> QED
        BY <1>2, <1>4, <1>5, <3>1, <4>1
    <3>3. CASE k = Len(out) + 1
      BY <1>4, <1>5, <1>6, <3>1, <3>3
    <3>4. k \in 1..Len(out) \/ k = Len(out) + 1
      BY <1>4, <1>6
    <3> QED
      BY <3>2, <3>3, <3>4
  <2>2. call' # NoCall /\ call'.step = "done" => call'.ttl <= left' + call'.age
    BY <1>1, <1>2, <1>4, <1>5 DEF Promised, RestOK
  <2> QED
    BY <1>1, <1>2, <2>1, <2>2 DEF Promised
<1>12. Trusted'
  BY <1>1, <1>2, <1>4, <1>5 DEF Trusted, RestOK
<1>13. RenewedInv'
  <2>1. ASSUME NEW k \in 1..Len(out'), out'[k] > 0 PROVE renewed'
    <3>1. CASE k \in 1..Len(out)
      BY <1>1, <1>2, <1>6, <2>1, <3>1 DEF RenewedInv
    <3>2. CASE k = Len(out) + 1
      <4>1. left' > 0
        BY <1>6, <2>1, <3>2
      <4>2. left > 0
        BY <1>2, <1>4, <4>1
      <4> QED
        BY <1>2, <4>2
    <3>3. k \in 1..Len(out) \/ k = Len(out) + 1
      BY <1>4, <1>6
    <3> QED
      BY <3>1, <3>2, <3>3
  <2> QED
    BY <1>1, <1>2, <2>1 DEF RenewedInv
<1> QED
  BY <1>3, <1>8, <1>9, <1>10, <1>11, <1>12, <1>13 DEF IInv

----------------------------------------------------------------------------
LEMMA Invariant == Spec => []IInv
<1>1. Init => IInv
  <2> SUFFICES ASSUME Init PROVE IInv
    OBVIOUS
  <2>1. StreamInv(Request)
    BY StreamInvInit DEF Init
  <2>2. out = <<>> /\ ages = <<>> /\ Len(<<>>) = 0 /\ <<>> \in Seq({0, TTL}) /\ <<>> \in Seq(0..TTL)
    BY EmptySeq DEF Init
  <2>3. RestOK
    <3>1. TTL \in Nat /\ Unread \in Nat /\ 0 \in 0..TTL /\ 0 <= Unread
      OBVIOUS
    <3> QED
      BY <2>2, <3>1 DEF Init, RestOK
  <2>4. KeeperInv /\ Counted /\ Promised /\ Trusted /\ RenewedInv
    BY <2>2, NoCallAssumption
       DEF Init, StreamInit, KeeperInv, Counted, Sending, Promised, Trusted, RenewedInv, Ops
  <2> QED
    BY <2>1, <2>3, <2>4 DEF IInv
<1>2. IInv /\ [Next]_vars => IInv'
  <2> SUFFICES ASSUME IInv, [Next]_vars PROVE IInv'
    OBVIOUS
  <2>1. StreamSide /\ LeaseSide /\ RestOK
    BY DEF IInv, StreamSide, LeaseSide
  <2>2. CASE UnaryStep
    BY <2>1, <2>2, UnaryStepStream, UnaryStepLease DEF IInv, StreamSide, LeaseSide
  <2>3. CASE CarryStep
    BY <2>1, <2>3, CarryStepStream, CarryStepLease DEF IInv, StreamSide, LeaseSide
  <2>4. CASE CallStep
    BY <2>1, <2>4, CallStepStream, CallStepLease DEF IInv, StreamSide, LeaseSide
  <2>5. CASE TakeStep
    BY <2>1, <2>5, TakeStepStream, TakeStepLease DEF IInv, StreamSide, LeaseSide
  <2>6. CASE TakeFirstGone \/ TakeNone
    BY <2>6, GoneStepKeeps
  <2>7. CASE StartOver
    BY <2>7, StartOverKeeps
  <2>8. CASE Renew
    BY <2>8, RenewKeeps
  <2> QED
    BY <2>2, <2>3, <2>4, <2>5, <2>6, <2>7, <2>8 DEF Next, UnaryStep, CarryStep, CallStep, TakeStep
<1> QED
  BY <1>1, <1>2, PTL DEF Spec

(* The state of a lease and its stream stays within its types and bounds. *)
THEOREM TypeCorrect == Spec => []TypeOK
<1>1. IInv => TypeOK
  BY DEF IInv, StreamInv, RestOK, TypeOK, Request
<1> QED
  BY <1>1, Invariant, PTL

(* Whoever counts what a response of grant, time_to_live or the keeper's stream *)
(* says from the call it answers never holds an expired lease for alive, though *)
(* responses wait in buffers, calls are given up and streams break.           *)
THEOREM TrustedIsAlive == Spec => []TrustIsSafe
<1>1. IInv => TrustIsSafe
  BY DEF IInv, Trusted, TrustIsSafe
<1> QED
  BY <1>1, Invariant, PTL

(* A keeper is returned only for a lease that the server has found after the   *)
(* call, whenever the first response is read.                                *)
THEOREM KeepersAreOfLeases == Spec => []KeeperWasRenewed
<1>1. IInv => KeeperWasRenewed
  BY DEF IInv, RenewedInv, KeeperWasRenewed
<1> QED
  BY <1>1, Invariant, PTL
=============================================================================
