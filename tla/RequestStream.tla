--------------------------- MODULE RequestStream ---------------------------
(***************************************************************************)
(* The request half of a bidirectional stream, which WatchClient::watch and *)
(* LeaseClient::keep_alive (src/rpc/watch.rs, src/rpc/lease.rs) set up in   *)
(* the same way: a bounded channel of requests, the first of them queued    *)
(* before the procedure is called with the receiving end, and a handle that *)
(* keeps the sending end.  The call is made through ClientCaller::do_call,  *)
(* which makes it once more, with a new channel, after Unauthenticated.     *)
(*                                                                         *)
(* The transport (external) takes requests from the channel as flow control *)
(* lets it, and the server reads them in that order.  tonic answers the     *)
(* call when the headers of the response arrive, which a gRPC server sends  *)
(* with its first message.                                                 *)
(***************************************************************************)
EXTENDS Naturals, Sequences

CONSTANTS
    Capacity,    \* of the channel: 100 in the code
    Window,      \* bound: requests the transport holds for the server
    NoRequest

ASSUME CapacityAssumption == Capacity \in Nat \ {0} /\ Window \in Nat \ {0}

VARIABLES
    stream,    \* where the call stands
    sending,   \* the request in the hands of a `send` that has not returned
    queue,     \* the channel
    wire,      \* requests the transport has taken and the server has not read
    sent,      \* history: the requests whose send has returned Ok
    handled    \* history: the requests the server has read

streamVars == <<stream, sending, queue, wire, sent, handled>>

Stages == {"none", "opening", "refreshing", "reopening", "open", "over"}

Calling == stream \in {"opening", "reopening"}
Live == stream \in {"opening", "reopening", "open"}

StreamInit ==
    /\ stream = "none" /\ sending = NoRequest
    /\ queue = <<>> /\ wire = <<>> /\ sent = <<>> /\ handled = <<>>

Close == stream' = "over" /\ queue' = <<>> /\ wire' = <<>>

----------------------------------------------------------------------------
(* Mutant: the first request is left for after the call. *)
OpenEmpty(req) ==
    /\ stream = "none" /\ stream' = "opening"
    /\ queue' = <<>> /\ sent' = <<>>
    /\ UNCHANGED <<sending, wire, handled>>

(* The first request is in the channel before the procedure is called. *)
Open(req) ==
    /\ stream = "none" /\ stream' = "opening"
    /\ queue' = <<req>> /\ sent' = <<req>>
    /\ UNCHANGED <<sending, wire, handled>>

(* Mutant: the retry inherits what the first attempt left on its way. *)
RefusedKeepsWire ==
    /\ stream = "opening" /\ handled = <<>>
    /\ stream' = "refreshing"
    /\ queue' = <<>>
    /\ UNCHANGED <<sending, wire, sent, handled>>

(* Unauthenticated: the server has run nothing.  The channel of this attempt *)
(* is dropped with both its ends.                                           *)
Refused ==
    /\ stream = "opening" /\ handled = <<>>
    /\ stream' = "refreshing"
    /\ queue' = <<>> /\ wire' = <<>>
    /\ UNCHANGED <<sending, sent, handled>>

(* The token has been refreshed; the same arguments, cloned, go into a new   *)
(* channel.                                                                *)
Retry ==
    /\ stream = "refreshing" /\ stream' = "reopening"
    /\ queue' = sent
    /\ UNCHANGED <<sending, wire, sent, handled>>

(* The call ends in an error, or its future is dropped. *)
OpenFails ==
    /\ Calling \/ stream = "refreshing"
    /\ Close
    /\ UNCHANGED <<sending, sent, handled>>

Opened ==
    /\ Calling /\ stream' = "open"
    /\ UNCHANGED <<sending, queue, wire, sent, handled>>

----------------------------------------------------------------------------
(* The handle: a send returns Ok when there was room for the request.        *)
StartSend(req) ==
    /\ stream = "open" /\ sending = NoRequest
    /\ sending' = req
    /\ UNCHANGED <<stream, queue, wire, sent, handled>>

(* Mutant: a channel without bounds. *)
FinishSendUnbounded ==
    /\ stream = "open" /\ sending # NoRequest
    /\ sending' = NoRequest
    /\ queue' = Append(queue, sending) /\ sent' = Append(sent, sending)
    /\ UNCHANGED <<stream, wire, handled>>

FinishSend ==
    /\ stream = "open" /\ sending # NoRequest /\ Len(queue) < Capacity
    /\ sending' = NoRequest
    /\ queue' = Append(queue, sending) /\ sent' = Append(sent, sending)
    /\ UNCHANGED <<stream, wire, handled>>

(* The receiver is gone: the send returns an error. *)
SendFails ==
    /\ stream = "over" /\ sending # NoRequest
    /\ sending' = NoRequest
    /\ UNCHANGED <<stream, queue, wire, sent, handled>>

(* The future of a send that waits for room is dropped, and the request with it. *)
DropSend ==
    /\ stream = "open" /\ sending # NoRequest
    /\ sending' = NoRequest
    /\ UNCHANGED <<stream, queue, wire, sent, handled>>

----------------------------------------------------------------------------
(* The transport polls the ReceiverStream. *)
Transfer ==
    /\ Live /\ queue # <<>> /\ Len(wire) < Window
    /\ queue' = Tail(queue) /\ wire' = Append(wire, Head(queue))
    /\ UNCHANGED <<stream, sending, sent, handled>>

(* The server reads the next request. *)
Receive ==
    /\ Live /\ wire # <<>>
    /\ wire' = Tail(wire) /\ handled' = Append(handled, Head(wire))
    /\ UNCHANGED <<stream, sending, queue, sent>>

(* The server or the network ends the stream, or the application drops it:   *)
(* requests on their way are lost, although their sends returned Ok.        *)
End ==
    /\ stream = "open" /\ Close
    /\ UNCHANGED <<sending, sent, handled>>

----------------------------------------------------------------------------
(* The types of the request half; Request is the set of requests. *)
StreamTypeOK(Request) ==
    /\ stream \in Stages
    /\ sending \in Request \cup {NoRequest}
    /\ queue \in Seq(Request) /\ Len(queue) <= Capacity
    /\ wire \in Seq(Request) /\ Len(wire) <= Window
    /\ sent \in Seq(Request) /\ handled \in Seq(Request)

(* The server reads the requests in the order of their sends, none twice and *)
(* none left out, through the channel, flow control and a retry; when the    *)
(* stream is over, some of the last ones may be missing.                    *)
RequestsInOrder ==
    /\ Live => sent = handled \o wire \o queue
    /\ stream \in {"none", "refreshing"} => queue \o wire \o handled = <<>>
    /\ \E n \in 0..Len(sent) : handled = SubSeq(sent, 1, n)
============================================================================
