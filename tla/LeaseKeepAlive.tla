--------------------------- MODULE LeaseKeepAlive ---------------------------
(***************************************************************************)
(* A lease and the stream that keeps it alive (src/rpc/lease.rs):           *)
(* LeaseClient::grant, revoke and time_to_live, LeaseClient::keep_alive,    *)
(* which opens the stream and takes its first response itself, then         *)
(* LeaseKeeper::keep_alive and LeaseKeepAliveStream::message.               *)
(*                                                                         *)
(* The server (external) has one clock for the lease.  The application      *)
(* measures from the moment of a call and pairs responses with calls by     *)
(* counting: that is how long it may hold the lease for alive.              *)
(* The application knows the lease's id, which it may choose (with_id).      *)
(***************************************************************************)
EXTENDS RequestStream

CONSTANTS
    KeepAlive,     \* the request: LeaseKeepAliveRequest with the lease's id
    NoCall,
    TTL,           \* of the lease, in ticks
    Unread,        \* bound: responses the transport holds for the application
    MaxCalls       \* bound: requests on one stream

ASSUME LeaseAssumption ==
    /\ TTL \in Nat \ {0} /\ Unread \in Nat \ {0} /\ MaxCalls \in Nat
    /\ KeepAlive # NoRequest

VARIABLES
    left,      \* server: ticks the lease has left; 0: there is no such lease
    renewed,   \* history: the server has renewed the lease on this stream
    out,       \* the ttls of responses on their way
    call,      \* the grant, revoke or time_to_live under way
    late,      \* the one the client gave up, which the server may still run
    keeper,    \* what keep_alive has returned
    ages,      \* the ages of the keep-alives without response, oldest first
    trusted,   \* how long the application still holds the lease for alive
    revoked    \* the application has asked for the revocation

leaseVars == <<left, renewed>>
unaryVars == <<call, late>>
appVars == <<keeper, ages, trusted, revoked>>
vars == <<streamVars, leaseVars, out, unaryVars, appVars>>

Ops == {"grant", "revoke", "time_to_live"}

ASSUME NoCallAssumption == NoCall \notin Ops

(* A unary call; ttl is the answer, once the server has run it.  An error of  *)
(* the server (the lease exists, or does not) answers with ttl 0.            *)
Call(op, step, age, ttl) == [op |-> op, step |-> step, age |-> age, ttl |-> ttl]

Init ==
    /\ StreamInit
    /\ left = 0 /\ renewed = FALSE /\ out = <<>>
    /\ call = NoCall /\ late = NoCall
    /\ keeper = "none" /\ ages = <<>> /\ trusted = 0 /\ revoked = FALSE

----------------------------------------------------------------------------
(* Trust: the lease was given ttl ticks some time after the call. *)
Older(age) == IF age = TTL THEN TTL ELSE age + 1

Trust(ttl, age) ==
    trusted' = IF ~revoked /\ ttl > age + trusted THEN ttl - age ELSE trusted

(* Time passes for everybody. *)
Tick ==
    /\ left' = IF left = 0 THEN 0 ELSE left - 1
    /\ trusted' = IF trusted = 0 THEN 0 ELSE trusted - 1
    /\ ages' = [k \in 1..Len(ages) |-> Older(ages[k])]
    /\ call' = IF call = NoCall THEN NoCall ELSE [call EXCEPT !.age = Older(@)]
    /\ UNCHANGED <<streamVars, renewed, out, late, keeper, revoked>>

----------------------------------------------------------------------------
(* grant, revoke and time_to_live; grant is for the application's first hold   *)
(* of the lease, revoke for its last.                                      *)
StartUnary(op) ==
    /\ call = NoCall /\ call' = Call(op, "sent", 0, 0)
    /\ UNCHANGED <<streamVars, leaseVars, out, late, keeper, ages>>

StartGrant == StartUnary("grant") /\ ~revoked /\ UNCHANGED <<trusted, revoked>>

StartRevoke == StartUnary("revoke") /\ revoked' = TRUE /\ trusted' = 0

StartTimeToLive == StartUnary("time_to_live") /\ UNCHANGED <<trusted, revoked>>

(* The server runs a call: grant makes the lease unless it exists, revoke     *)
(* ends it, time_to_live looks at it.                                       *)
Run(op) ==
    \/ op = "grant" /\ left' = IF left = 0 THEN TTL ELSE left
    \/ op = "revoke" /\ left' = 0
    \/ op = "time_to_live" /\ UNCHANGED left

Answer(op) ==
    CASE op = "grant" -> IF left = 0 THEN TTL ELSE 0
      [] op = "revoke" -> 0
      [] OTHER -> left

RunUnary ==
    /\ call # NoCall /\ call.step = "sent"
    /\ Run(call.op)
    /\ call' = [call EXCEPT !.step = "done", !.ttl = Answer(call.op)]
    /\ UNCHANGED <<streamVars, renewed, out, late, appVars>>

Returns(op) ==
    /\ call # NoCall /\ call.op = op /\ call.step = "done"
    /\ call' = NoCall
    /\ UNCHANGED <<streamVars, leaseVars, out, late, keeper, ages, revoked>>

GrantReturns == Returns("grant") /\ Trust(call.ttl, call.age)

RevokeReturns == Returns("revoke") /\ UNCHANGED trusted

TimeToLiveReturns == Returns("time_to_live") /\ Trust(call.ttl, call.age)

(* The call fails or is dropped; what the server has not run, it may run yet. *)
UnaryFails ==
    /\ call # NoCall /\ call' = NoCall
    /\ late' \in {late, IF call.step = "sent" THEN call.op ELSE late}
    /\ UNCHANGED <<streamVars, leaseVars, out, appVars>>

RunLate ==
    /\ late # NoCall /\ late' = NoCall
    /\ Run(late)
    /\ UNCHANGED <<streamVars, renewed, out, call, appVars>>

----------------------------------------------------------------------------
(* LeaseClient::keep_alive: the stream is opened with the first request. *)
OpenKeepAlive ==
    /\ Open(KeepAlive)
    /\ ages' = <<0>>
    /\ UNCHANGED <<leaseVars, out, unaryVars, keeper, trusted, revoked>>

KeepAliveOpened ==
    /\ Opened /\ out # <<>>
    /\ UNCHANGED <<leaseVars, out, unaryVars, appVars>>

KeepAliveFails ==
    /\ OpenFails
    /\ out' = <<>> /\ keeper' = "failed"
    /\ UNCHANGED <<leaseVars, unaryVars, ages, trusted, revoked>>

(* A response is taken for the answer to the oldest call; one to no call would *)
(* be worth nothing.                                                       *)
FirstTaken ==
    /\ out' = Tail(out) /\ ages' = SubSeq(ages, 2, Len(ages))
    /\ Trust(Head(out), IF ages = <<>> THEN TTL ELSE ages[1])

(* Mutant: the first response is looked at and left in the stream. *)
TakeFirstPeeks ==
    /\ stream \in {"open", "over"} /\ keeper = "none" /\ out # <<>> /\ Head(out) > 0
    /\ keeper' = "held" /\ ages' = Tail(ages)
    /\ Trust(Head(out), ages[1])
    /\ UNCHANGED <<streamVars, leaseVars, out, unaryVars, revoked>>

(* Mutant: any response will do. *)
TakeFirstUnchecked ==
    /\ stream \in {"open", "over"} /\ keeper = "none" /\ out # <<>>
    /\ keeper' = "held" /\ FirstTaken
    /\ UNCHANGED <<streamVars, leaseVars, unaryVars, revoked>>

(* keep_alive takes the first response: the lease is there ... *)
TakeFirst ==
    /\ stream \in {"open", "over"} /\ keeper = "none" /\ out # <<>> /\ Head(out) > 0
    /\ keeper' = "held" /\ FirstTaken
    /\ UNCHANGED <<streamVars, leaseVars, unaryVars, revoked>>

(* ... or it is not, and the stream is given up ... *)
TakeFirstGone ==
    /\ stream \in {"open", "over"} /\ keeper = "none" /\ out # <<>> /\ Head(out) <= 0
    /\ keeper' = "failed" /\ ages' = <<>> /\ out' = <<>>
    /\ Close
    /\ UNCHANGED <<sending, sent, handled, leaseVars, unaryVars, trusted, revoked>>

(* ... or the stream ends without one. *)
TakeNone ==
    /\ stream = "over" /\ keeper = "none" /\ out = <<>>
    /\ keeper' = "failed" /\ ages' = <<>>
    /\ UNCHANGED <<streamVars, leaseVars, out, unaryVars, trusted, revoked>>

----------------------------------------------------------------------------
(* LeaseKeeper::keep_alive returns Ok when its request is queued. *)
StartKeepAlive ==
    /\ keeper = "held" /\ Len(sent) < MaxCalls
    /\ StartSend(KeepAlive)
    /\ ages' = Append(ages, 0)
    /\ UNCHANGED <<leaseVars, out, unaryVars, keeper, trusted, revoked>>

KeepAliveReturns ==
    /\ FinishSend
    /\ UNCHANGED <<leaseVars, out, unaryVars, appVars>>

(* The stream is over, or the future is dropped: the request is not sent. *)
KeepAliveGivenUp ==
    /\ DropSend \/ SendFails
    /\ ages' = SubSeq(ages, 1, Len(ages) - 1)
    /\ UNCHANGED <<leaseVars, out, unaryVars, keeper, trusted, revoked>>

(* LeaseKeepAliveStream::message *)
Message ==
    /\ stream \in {"open", "over"} /\ keeper \in {"held", "dropped"} /\ out # <<>>
    /\ FirstTaken
    /\ UNCHANGED <<streamVars, leaseVars, unaryVars, keeper, revoked>>

(* Mutant: the requests in the channel go with their sender. *)
DropKeeperClears ==
    /\ stream = "open" /\ keeper = "held" /\ sending = NoRequest
    /\ keeper' = "dropped" /\ queue' = <<>>
    /\ UNCHANGED <<stream, sending, wire, sent, handled>>
    /\ UNCHANGED <<leaseVars, out, unaryVars, ages, trusted, revoked>>

DropKeeper ==
    /\ stream = "open" /\ keeper = "held" /\ sending = NoRequest
    /\ keeper' = "dropped"
    /\ UNCHANGED <<streamVars, leaseVars, out, unaryVars, ages, trusted, revoked>>

(* The application starts over with another stream. *)
StartOver ==
    /\ stream = "over" /\ sending = NoRequest
    /\ keeper = "failed" \/ (keeper # "none" /\ out = <<>>)
    /\ stream' = "none" /\ queue' = <<>> /\ wire' = <<>> /\ sent' = <<>> /\ handled' = <<>>
    /\ keeper' = "none" /\ ages' = <<>> /\ renewed' = FALSE
    /\ UNCHANGED <<sending, left, out, unaryVars, trusted, revoked>>

----------------------------------------------------------------------------
(* The server answers every keep-alive: with the new ttl, or 0 when there is  *)
(* no such lease.                                                          *)
Renew ==
    /\ Len(out) < Unread /\ Receive
    /\ left' = IF left > 0 THEN TTL ELSE 0
    /\ renewed' = (renewed \/ left > 0)
    /\ out' = Append(out, left')
    /\ UNCHANGED <<unaryVars, appVars>>

StreamEnds ==
    /\ End
    /\ \E n \in 0..Len(out) : out' = SubSeq(out, 1, n)
    /\ UNCHANGED <<leaseVars, unaryVars, appVars>>

Transport == (Refused \/ Retry \/ Transfer) /\ UNCHANGED <<leaseVars, out, unaryVars, appVars>>

Next ==
    \/ Tick
    \/ StartGrant \/ StartRevoke \/ StartTimeToLive
    \/ RunUnary \/ UnaryFails \/ RunLate
    \/ GrantReturns \/ RevokeReturns \/ TimeToLiveReturns
    \/ OpenKeepAlive \/ KeepAliveOpened \/ KeepAliveFails
    \/ TakeFirst \/ TakeFirstGone \/ TakeNone
    \/ StartKeepAlive \/ KeepAliveReturns \/ KeepAliveGivenUp \/ Message
    \/ DropKeeper \/ StartOver \/ Renew \/ StreamEnds \/ Transport

Spec == Init /\ [][Next]_vars

(* The runtime polls what can go on, transport and server do their work, and  *)
(* the application reads the responses.  Time need not pass.                 *)
FairSpec ==
    /\ Spec
    /\ WF_vars(Transport) /\ WF_vars(KeepAliveOpened) /\ WF_vars(Renew)
    /\ WF_vars(TakeFirst \/ TakeFirstGone \/ TakeNone)
    /\ WF_vars(KeepAliveReturns) /\ WF_vars(KeepAliveGivenUp /\ stream = "over")
    /\ WF_vars(Message)

----------------------------------------------------------------------------
(* Properties *)

(* The state stays within its types and bounds. *)
TypeOK ==
    /\ StreamTypeOK({KeepAlive})
    /\ left \in 0..TTL /\ renewed \in BOOLEAN
    /\ out \in Seq({0, TTL}) /\ Len(out) <= Unread
    /\ call \in [op : Ops, step : {"sent", "done"}, age : 0..TTL, ttl : 0..TTL] \cup {NoCall}
    /\ late \in Ops \cup {NoCall}
    /\ keeper \in {"none", "held", "failed", "dropped"}
    /\ ages \in Seq(0..TTL)
    /\ trusted \in 0..TTL /\ revoked \in BOOLEAN

(* An application that counts a response from the time of the call it answers *)
(* never holds the lease for alive when it has expired.                      *)
TrustIsSafe == trusted <= left

(* keep_alive returns a keeper only for a lease that was there after the call *)
(* ("lease not found" otherwise), whenever the first response is read.        *)
KeeperWasRenewed == keeper = "held" => renewed

(* How many of the keep-alives on this stream have been answered. *)
Answered == Len(sent) + (IF sending = NoRequest THEN 0 ELSE 1) - Len(ages)

(* Each keep-alive whose call returned Ok is answered, or the stream ends: no  *)
(* number of responses in the buffers holds one up for ever while somebody     *)
(* reads, and a keeper that is dropped takes nothing with it.                  *)
KeepAlivesAreAnswered ==
    \A n \in 1..MaxCalls :
        (stream = "open" /\ Len(sent) >= n) ~> (Answered >= n \/ stream # "open")
============================================================================
