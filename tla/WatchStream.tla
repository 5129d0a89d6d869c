---------------------------- MODULE WatchStream ----------------------------
(***************************************************************************)
(* One watch stream (src/rpc/watch.rs): WatchClient::watch opens it, and    *)
(* WatchStream, or its halves WatchRequestSender and WatchResponseStream,   *)
(* create, cancel and ask for progress on it and receive the responses.     *)
(* etcd's watch server is external: it answers requests in their order and  *)
(* sends every watcher the revisions of the store one after the other.      *)
(*                                                                         *)
(* The keys, filters and values of a watch are left out (the key range of   *)
(* WatchOptions is in module Builders): every revision is an event of every *)
(* watch.                                                                  *)
(***************************************************************************)
EXTENDS RequestStream, FiniteSets

CONSTANTS
    WatchIds,      \* bound: the ids of watchers, with 0, one for every watch
    ChosenIds,     \* those an application passes to with_watch_id
    Starts,        \* revisions passed to with_start_revision; 0 means "now"
    Unread,        \* bound: responses the transport holds for the application
    MaxWatches,    \* bound: watches asked for on the stream
    MaxCalls,      \* bound: requests on the stream
    MaxRevision    \* bound: revisions of the store

ASSUME WatchAssumption ==
    /\ WatchIds \subseteq Nat /\ ChosenIds \subseteq WatchIds \ {0} /\ 0 \in WatchIds
    /\ Starts \subseteq 0..(MaxRevision + 1) /\ Unread \in Nat \ {0}
    /\ MaxWatches \in Nat \ {0} /\ MaxCalls \in Nat /\ MaxRevision \in Nat \ {0}
    /\ Cardinality(WatchIds) >= MaxWatches

VARIABLES
    handle,      \* the application's handles: "whole", "halves", or the "reader" alone
    out,         \* responses on their way to the application
    view,        \* the application's book of its watches, from the responses alone
    watchers,    \* server: which call a watcher belongs to, and its next revision
    revision     \* server: the revision of the store

serverVars == <<out, watchers, revision>>
vars == <<streamVars, handle, serverVars, view>>

Watching == INSTANCE Watches WITH Ids <- WatchIds, Revisions <- 0..MaxRevision

----------------------------------------------------------------------------
(* Requests; n is history and names the call. *)
CancelRequest(id) == [op |-> "cancel", id |-> id]

ProgressRequest == [op |-> "progress"]

CreateRequest(n, id, start) == [op |-> "create", n |-> n, id |-> id, start |-> start]

Requests ==
    [op : {"create"}, n : 1..MaxWatches, id : ChosenIds \cup {0}, start : Starts]
        \cup {CancelRequest(id) : id \in WatchIds} \cup {ProgressRequest}

ASSUME NoRequestAssumption == NoRequest \notin Requests

(* Responses; n is history: the call a response belongs to, 0 for progress.  *)
Response(kind, n, id, rev) == [kind |-> kind, n |-> n, id |-> id, rev |-> rev]

Responses ==
    [kind : {"created", "refused", "canceled", "event", "progress"},
     n : 0..MaxWatches, id : WatchIds, rev : 0..MaxRevision]

NoWatcher == [n |-> 0, next |-> 0]

Watcher == [n : 1..MaxWatches, next : 1..(MaxRevision + 1)]

Watched == {id \in WatchIds : watchers[id] # NoWatcher}

Idle == [id \in WatchIds |-> NoWatcher]

Init ==
    /\ StreamInit
    /\ handle = "whole" /\ out = <<>> /\ view = <<>>
    /\ watchers = Idle /\ revision = 1

----------------------------------------------------------------------------
(* The application notes a watch when its request has been accepted. *)
Noted(book, req) ==
    IF req # NoRequest /\ req.op = "create"
    THEN Append(book, Watching!Watch("asked", req.id, 0)) ELSE book

(* WatchClient::watch *)
OpenWatch(id, start) ==
    /\ Open(CreateRequest(1, id, start))
    /\ view' = Noted(view, CreateRequest(1, id, start))
    /\ UNCHANGED <<handle, serverVars>>

(* The headers come with the server's first response. *)
WatchOpened ==
    /\ Opened /\ out # <<>>
    /\ UNCHANGED <<handle, serverVars, view>>

WatchFails ==
    /\ OpenFails
    /\ out' = <<>> /\ watchers' = Idle
    /\ UNCHANGED <<handle, view, revision>>

(* watch, cancel and request_progress, on the stream or on its sender half.   *)
Call(req) ==
    /\ handle # "reader" /\ Len(sent) < MaxCalls
    /\ StartSend(req)
    /\ UNCHANGED <<handle, serverVars, view>>

WatchAgain(id, start) ==
    Len(view) < MaxWatches /\ Call(CreateRequest(Len(view) + 1, id, start))

Cancel(id) == Call(CancelRequest(id))

RequestProgress == Call(ProgressRequest)

CallReturns ==
    /\ FinishSend
    /\ view' = Noted(view, sending)
    /\ UNCHANGED <<handle, serverVars>>

(* Mutant: what has arrived stays behind with the stream that was split. *)
SplitDrops ==
    /\ stream = "open" /\ handle = "whole" /\ sending = NoRequest
    /\ handle' = "halves" /\ out' = <<>>
    /\ UNCHANGED <<streamVars, watchers, revision, view>>

Split ==
    /\ stream = "open" /\ handle = "whole" /\ sending = NoRequest
    /\ handle' = "halves"
    /\ UNCHANGED <<streamVars, serverVars, view>>

(* Mutant: ... and what is in the channel is dropped with it. *)
DropSenderClears ==
    /\ stream = "open" /\ handle = "halves" /\ sending = NoRequest
    /\ handle' = "reader" /\ queue' = <<>>
    /\ UNCHANGED <<stream, sending, wire, sent, handled, serverVars, view>>

(* The sender half is dropped; what is in the channel is still sent. *)
DropSender ==
    /\ stream = "open" /\ handle = "halves" /\ sending = NoRequest
    /\ handle' = "reader"
    /\ UNCHANGED <<streamVars, serverVars, view>>

----------------------------------------------------------------------------
(* What the application makes of a response, by its order and its id: an      *)
(* answer to a creation is for the earliest watch without one, everything    *)
(* else for the live watch with that id.                                    *)
IsFor(resp, n) ==
    CASE resp.kind \in {"created", "refused"} -> Watching!Turn(n)
      [] resp.kind \in {"canceled", "event"} ->
            view[n].status = "live" /\ view[n].id = resp.id
      [] OTHER -> FALSE

After(watch, resp) ==
    CASE resp.kind = "created" -> Watching!Watch("live", resp.id, resp.rev)
      [] resp.kind = "event"   -> [watch EXCEPT !.seen = resp.rev]
      [] OTHER                 -> [watch EXCEPT !.status = "over"]

(* A response is taken from the stream, and noted. *)
Take(resp) ==
    /\ view' = [n \in 1..Len(view) |->
                   IF IsFor(resp, n) THEN After(view[n], resp) ELSE view[n]]
    /\ UNCHANGED <<streamVars, handle, watchers, revision>>

(* Mutant: the halves still borrow the stream from each other. *)
MessageAfterSend ==
    /\ stream \in {"open", "over"} /\ out # <<>> /\ sending = NoRequest
    /\ out' = Tail(out)
    /\ Take(Head(out))

(* message, which borrows a whole stream for as long as it takes.             *)
Message ==
    /\ stream \in {"open", "over"} /\ out # <<>>
    /\ handle = "whole" => sending = NoRequest
    /\ out' = Tail(out)
    /\ Take(Head(out))

----------------------------------------------------------------------------
(* The server *)

Room == Len(out) < Unread

Reply(resp) == out' = Append(out, resp)

(* A chosen id that is in use is refused; for the id 0 an unused one is found. *)
Create(req) ==
    \/ /\ req.id \in Watched
       /\ req.id # 0
       /\ Reply(Response("refused", req.n, 0, 0))
       /\ UNCHANGED watchers
    \/ \E id \in IF req.id = 0 THEN WatchIds ELSE {req.id} :
          LET next == IF req.start = 0 THEN revision + 1 ELSE req.start
          IN  /\ id \notin Watched
              /\ watchers' = [watchers EXCEPT ![id] = [n |-> req.n, next |-> next]]
              /\ Reply(Response("created", req.n, id, next - 1))

CancelWatcher(id) ==
    /\ watchers' = [watchers EXCEPT ![id] = NoWatcher]
    /\ Reply(Response("canceled", watchers[id].n, id, 0))

Handle ==
    /\ Room /\ Receive
    /\ LET req == Head(wire)
       IN  \/ req.op = "create" /\ Create(req)
           \/ req.op = "cancel" /\ req.id \in Watched /\ CancelWatcher(req.id)
           \/ req.op = "cancel" /\ req.id \notin Watched /\ UNCHANGED <<out, watchers>>
           \/ req.op = "progress" /\ Reply(Response("progress", 0, 0, 0)) /\ UNCHANGED watchers
    /\ UNCHANGED <<handle, view, revision>>

Emit(id) ==
    /\ Live /\ Room /\ id \in Watched
    /\ watchers[id].next <= revision
    /\ Reply(Response("event", watchers[id].n, id, watchers[id].next))
    /\ watchers' = [watchers EXCEPT ![id].next = @ + 1]
    /\ UNCHANGED <<streamVars, handle, view, revision>>

(* The server gives up a watcher, for instance at a compacted revision.      *)
GiveUp(id) ==
    /\ Live /\ Room /\ id \in Watched
    /\ CancelWatcher(id)
    /\ UNCHANGED <<streamVars, handle, view, revision>>

Write ==
    /\ revision < MaxRevision /\ revision' = revision + 1
    /\ UNCHANGED <<streamVars, handle, out, view, watchers>>

(* Of the responses on their way, the last ones may be lost. *)
StreamEnds ==
    /\ End
    /\ \E n \in 0..Len(out) : out' = SubSeq(out, 1, n)
    /\ watchers' = Idle
    /\ UNCHANGED <<handle, view, revision>>

----------------------------------------------------------------------------
Transport == (Refused \/ Retry \/ SendFails \/ Transfer) /\ UNCHANGED <<handle, serverVars, view>>

GiveUpCall == DropSend /\ UNCHANGED <<handle, serverVars, view>>

Next ==
    \/ \E id \in ChosenIds \cup {0}, start \in Starts : OpenWatch(id, start) \/ WatchAgain(id, start)
    \/ WatchOpened \/ WatchFails \/ Transport
    \/ RequestProgress \/ CallReturns \/ GiveUpCall \/ Split \/ DropSender \/ Message
    \/ \E id \in WatchIds : Cancel(id) \/ Emit(id) \/ GiveUp(id)
    \/ Handle \/ Write \/ StreamEnds

Spec == Init /\ [][Next]_vars

(* The runtime polls what can go on, transport and server do their work, and  *)
(* an application that has split the stream keeps reading.                  *)
FairSpec ==
    /\ Spec
    /\ WF_vars(Transport) /\ WF_vars(WatchOpened) /\ WF_vars(CallReturns)
    /\ WF_vars(Handle)
    /\ WF_vars(handle # "whole" /\ Message)

----------------------------------------------------------------------------
(* Properties *)

(* The state stays within its types and bounds. *)
TypeOK ==
    /\ StreamTypeOK(Requests)
    /\ handle \in {"whole", "halves", "reader"}
    /\ out \in Seq(Responses) /\ Len(out) <= Unread
    /\ view \in Seq([status : {"asked", "live", "over"}, id : WatchIds, seen : 0..MaxRevision])
    /\ watchers \in [WatchIds -> Watcher \cup {NoWatcher}]
    /\ revision \in 1..MaxRevision

(* Whatever ids are chosen, used again or refused, and whatever is under way  *)
(* when a watch is cancelled: counting creations and going by the id, the    *)
(* application takes a response for the watch it really belongs to.          *)
AnswersFindTheirWatch ==
    out # <<>> => \A n \in 1..Len(view) : IsFor(Head(out), n) <=> Head(out).n = n

(* Every watch is answered in turn, sees each revision once and in order, and *)
(* nothing after it is over ("No further events will be sent to the canceled *)
(* watcher").                                                              *)
ImplementsWatches == Watching!Spec

(* WatchClient::watch returns, although the server says nothing before it has *)
(* read a request.                                                         *)
WatchReturns == stream = "opening" ~> stream \in {"open", "over"}

(* Whoever reads on another task than the one that sends never makes a send   *)
(* wait for ever, however small the channel and the buffers are.             *)
SendsReturn == (sending # NoRequest /\ handle # "whole") ~> sending = NoRequest

Unanswered(n) == n \in 1..Len(view) /\ view[n].status = "asked"

(* A watch that was accepted on a split stream is answered, or the stream     *)
(* ends.                                                                   *)
WatchesAreAnswered ==
    \A n \in 1..MaxWatches :
        (Unanswered(n) /\ handle # "whole") ~> (~Unanswered(n) \/ stream = "over")
============================================================================
