------------------------- MODULE WatchStreamProofs -------------------------
(***************************************************************************)
(* A watch stream, for any channel, any buffers and any number of watches:   *)
(* its state stays within its bounds, the server reads the requests of       *)
(* watch, cancel and request_progress in the order in which they returned,   *)
(* and an application that goes by the order of the answers and by the ids    *)
(* keeps a right book of its watches, so that the stream implements Watches.  *)
(*                                                                         *)
(* The book is right because of the responses still on their way: BookInv    *)
(* says of each place among them what the book will be when all before it     *)
(* have been taken, and of the place after the last that the server's         *)
(* watchers are what it will be then.                                       *)
(***************************************************************************)
EXTENDS WatchStream, RequestStreamProofs

Entries == [status : {"asked", "live", "over"}, id : WatchIds, seen : 0..MaxRevision]

(* TypeOK without the request half. *)
RestOK ==
    /\ handle \in {"whole", "halves", "reader"}
    /\ out \in Seq(Responses) /\ Len(out) <= Unread
    /\ view \in Seq(Entries)
    /\ watchers \in [WatchIds -> Watcher \cup {NoWatcher}]
    /\ revision \in 1..MaxRevision

IInv == StreamInv(Requests) /\ RestOK

----------------------------------------------------------------------------
(* What there is in a request. *)
LEMMA RequestFields ==
    ASSUME NEW req \in Requests
    PROVE  /\ req.op \in {"create", "cancel", "progress"}
           /\ req.op = "create" =>
                req.n \in 1..MaxWatches /\ req.id \in WatchIds /\ req.start \in Starts
           /\ req.op = "cancel" => req.id \in WatchIds
<1>1. CASE req \in [op : {"create"}, n : 1..MaxWatches, id : ChosenIds \cup {0}, start : Starts]
  BY <1>1, WatchAssumption
<1>2. ASSUME NEW id \in WatchIds, req = CancelRequest(id)
      PROVE  req.op = "cancel" /\ req.id \in WatchIds
  BY <1>2 DEF CancelRequest
<1>3. CASE req = ProgressRequest
  BY <1>3 DEF ProgressRequest
<1> QED
  BY <1>1, <1>2, <1>3 DEF Requests

LEMMA CreateIsRequest ==
    ASSUME NEW n \in 1..MaxWatches, NEW id \in ChosenIds \cup {0}, NEW start \in Starts
    PROVE  CreateRequest(n, id, start) \in Requests
  BY DEF Requests, CreateRequest

(* Each step is a step of the request half. *)
LEMMA StepIsStreamStep ==
    ASSUME RestOK, [Next]_vars
    PROVE  StreamStep(Requests)
<1>1. ASSUME NEW id \in ChosenIds \cup {0}, NEW start \in Starts, OpenWatch(id, start)
      PROVE  StreamStep(Requests)
  <2>1. CreateRequest(1, id, start) \in Requests
    BY CreateIsRequest, WatchAssumption
  <2> QED
    BY <1>1, <2>1 DEF OpenWatch, StreamStep
<1>2. ASSUME NEW id \in ChosenIds \cup {0}, NEW start \in Starts, WatchAgain(id, start)
      PROVE  StreamStep(Requests)
  <2>1. Len(view) + 1 \in 1..MaxWatches
    BY <1>2, WatchAssumption, LenProperties DEF WatchAgain, RestOK
  <2>2. CreateRequest(Len(view) + 1, id, start) \in Requests
    BY <2>1, CreateIsRequest
  <2> QED
    BY <1>2, <2>2 DEF WatchAgain, Call, StreamStep
<1>3. ASSUME NEW id \in WatchIds, Cancel(id) PROVE StreamStep(Requests)
  BY <1>3 DEF Cancel, Call, Requests, StreamStep
<1>4. CASE RequestProgress
  BY <1>4 DEF RequestProgress, Call, Requests, StreamStep
<1>5. CASE WatchOpened \/ WatchFails \/ Transport \/ StreamEnds \/ GiveUpCall \/ CallReturns \/ Handle
  BY <1>5 DEF WatchOpened, WatchFails, OpenFails, Transport, StreamEnds, End, GiveUpCall,
              CallReturns, Handle, StreamStep
<1>6. ASSUME NEW id \in WatchIds, Emit(id) \/ GiveUp(id) PROVE StreamStep(Requests)
  BY <1>6 DEF Emit, GiveUp, StreamStep
<1>7. CASE Split \/ DropSender \/ Message \/ Write \/ UNCHANGED vars
  BY <1>7 DEF Split, DropSender, Message, Take, Write, vars, StreamStep, streamVars
<1> QED
  BY <1>1, <1>2, <1>3, <1>4, <1>5, <1>6, <1>7 DEF Next

----------------------------------------------------------------------------
(* A request adds at most one entry to the book. *)
LEMMA NotedIsTyped ==
    ASSUME NEW book \in Seq(Entries), NEW req \in Requests
    PROVE  Noted(book, req) \in Seq(Entries)
<1>1. CASE req.op = "create"
  <2>1. Watching!Watch("asked", req.id, 0) \in Entries
    BY <1>1, RequestFields, WatchAssumption DEF Entries, Watching!Watch
  <2> QED
    BY <1>1, <2>1, AppendProperties, NoRequestAssumption DEF Noted
<1>2. CASE req.op # "create"
  BY <1>2 DEF Noted
<1> QED
  BY <1>1, <1>2

LEMMA ReplyIsTyped ==
    ASSUME RestOK, Room, NEW resp \in Responses, Reply(resp)
    PROVE  out' \in Seq(Responses) /\ Len(out') <= Unread
<1>1. Len(out') = Len(out) + 1 /\ Len(out) \in Nat /\ out' \in Seq(Responses)
  BY AppendProperties, LenProperties DEF RestOK, Reply
<1> QED
  BY <1>1, WatchAssumption DEF Room

LEMMA AfterIsTyped ==
    ASSUME NEW entry \in Entries, NEW resp \in Responses
    PROVE  After(entry, resp) \in Entries
  BY DEF After, Entries, Responses, Watching!Watch

(* A response leaves the book as long as it was. *)
LEMMA TakeIsTyped ==
    ASSUME RestOK, NEW resp \in Responses, Take(resp)
    PROVE  view' \in Seq(Entries)
<1>1. /\ view' = [n \in 1..Len(view) |-> IF IsFor(resp, n) THEN After(view[n], resp) ELSE view[n]]
      /\ Len(view) \in Nat /\ \A n \in 1..Len(view) : view[n] \in Entries
  BY ElementOfSeq, LenProperties DEF Take, RestOK
<1>2. \A n \in 1..Len(view) : view'[n] \in Entries
  BY <1>1, AfterIsTyped
<1>3. view' \in [1..Len(view) -> Entries]
  BY <1>1, <1>2
<1> QED
  BY <1>1, <1>3, IsASeq

LEMMA WatchedIsWatcher ==
    ASSUME RestOK, NEW id \in Watched
    PROVE  /\ id \in WatchIds
           /\ watchers[id].n \in 1..MaxWatches /\ watchers[id].next \in 1..(MaxRevision + 1)
           /\ watchers[id] \in Watcher
  BY DEF RestOK, Watched, Watcher

(* Each step keeps the rest within its types. *)
LEMMA RestStep ==
    ASSUME StreamTypeOK(Requests), RestOK, [Next]_vars
    PROVE  RestOK'
<1> USE WatchAssumption
<1>1. ASSUME NEW id \in ChosenIds \cup {0}, NEW start \in Starts, OpenWatch(id, start)
      PROVE  RestOK'
  <2>1. CreateRequest(1, id, start) \in Requests
    BY CreateIsRequest
  <2>2. view' \in Seq(Entries)
    BY <1>1, <2>1, NotedIsTyped DEF OpenWatch, RestOK
  <2> QED
    BY <1>1, <2>2 DEF OpenWatch, RestOK, serverVars
<1>2. ASSUME NEW req, Call(req) PROVE RestOK'
  BY <1>2 DEF Call, RestOK, serverVars
<1>3. CASE WatchFails \/ StreamEnds
  <2>1. Idle \in [WatchIds -> Watcher \cup {NoWatcher}]
    BY DEF Idle
  <2>2. out' \in Seq(Responses) /\ Len(out') <= Unread
    <3>1. CASE WatchFails
      BY <3>1, EmptySeq DEF WatchFails
    <3>2. CASE StreamEnds
      <4>1. PICK n \in 0..Len(out) : out' = SubSeq(out, 1, n)
        BY <3>2 DEF StreamEnds
      <4>2. out \in Seq(Responses) /\ Len(out) \in Nat /\ Len(out) <= Unread
        BY LenProperties DEF RestOK
      <4>3. \A i \in 1..n : out[i] \in Responses
        BY <4>2, ElementOfSeq
      <4>4. out' \in Seq(Responses) /\ Len(out') = IF 1 <= n THEN n - 1 + 1 ELSE 0
        <5>1. 1 \in Int /\ n \in Int
          BY <4>2
        <5> QED
          BY <4>1, <4>3, <5>1, SubSeqProperties
      <4> QED
        BY <4>2, <4>4
    <3> QED
      BY <1>3, <3>1, <3>2
  <2> QED
    BY <1>3, <2>1, <2>2 DEF WatchFails, StreamEnds, RestOK
<1>4. CASE CallReturns
  <2>1. sending \in Requests
    BY <1>4 DEF CallReturns, FinishSend, StreamTypeOK
  <2>2. view' \in Seq(Entries)
    BY <1>4, <2>1, NotedIsTyped DEF CallReturns, RestOK
  <2> QED
    BY <1>4, <2>2 DEF CallReturns, RestOK, serverVars
<1>5. CASE Message
  <2>1. Head(out) \in Responses /\ out' \in Seq(Responses) /\ Len(out') = Len(out) - 1
        /\ Len(out) \in Nat
    BY <1>5, HeadTailProperties, LenProperties DEF Message, RestOK
  <2>2. view' \in Seq(Entries)
    BY <1>5, <2>1, TakeIsTyped DEF Message
  <2> QED
    BY <1>5, <2>1, <2>2 DEF Message, Take, RestOK
<1>6. CASE Handle
  <2>1. Head(wire) \in Requests
    BY <1>6, HeadTailProperties DEF Handle, Receive, StreamTypeOK
  <2> DEFINE req == Head(wire)
  <2> HIDE DEF req
  <2>2. CASE req.op = "create" /\ Create(req)
    <3>1. req.n \in 1..MaxWatches /\ req.id \in WatchIds /\ req.start \in Starts
      BY <2>1, <2>2, RequestFields DEF req
    <3>2. ASSUME Reply(Response("refused", req.n, 0, 0)), UNCHANGED watchers
          PROVE  RestOK'
      <4>1. Response("refused", req.n, 0, 0) \in Responses
        BY <3>1 DEF Response, Responses
      <4> QED
        BY <1>6, <3>2, <4>1, ReplyIsTyped DEF Handle, RestOK
    <3>3. ASSUME NEW id \in WatchIds, NEW next \in 1..(MaxRevision + 1),
                 watchers' = [watchers EXCEPT ![id] = [n |-> req.n, next |-> next]],
                 Reply(Response("created", req.n, id, next - 1))
          PROVE  RestOK'
      <4>1. Response("created", req.n, id, next - 1) \in Responses
        BY <3>1 DEF Response, Responses
      <4>2. watchers' \in [WatchIds -> Watcher \cup {NoWatcher}]
        BY <3>1, <3>3 DEF RestOK, Watcher
      <4> QED
        BY <1>6, <3>3, <4>1, <4>2, ReplyIsTyped DEF Handle, RestOK
    <3>4. (IF req.start = 0 THEN revision + 1 ELSE req.start) \in 1..(MaxRevision + 1)
      <4>1. req.start \in 0..(MaxRevision + 1)
        BY <3>1
      <4>2. revision + 1 \in 1..(MaxRevision + 1)
        BY DEF RestOK
      <4> QED
        BY <4>1, <4>2
    <3>5. \A id \in IF req.id = 0 THEN WatchIds ELSE {req.id} : id \in WatchIds
      BY <3>1
    <3> QED
      BY <2>2, <3>2, <3>3, <3>4, <3>5 DEF Create
  <2>3. CASE req.op = "cancel" /\ req.id \in Watched /\ CancelWatcher(req.id)
    <3>1. RestOK' \/ (out' \in Seq(Responses) /\ Len(out') <= Unread)
      <4>1. Response("canceled", watchers[req.id].n, req.id, 0) \in Responses
        BY <2>3, WatchedIsWatcher DEF Response, Responses
      <4> QED
        BY <1>6, <2>3, <4>1, ReplyIsTyped DEF Handle, CancelWatcher
    <3>2. watchers' \in [WatchIds -> Watcher \cup {NoWatcher}]
      BY <2>3 DEF CancelWatcher, RestOK
    <3> QED
      BY <1>6, <3>1, <3>2 DEF Handle, RestOK
  <2>4. CASE req.op = "cancel" /\ UNCHANGED <<out, watchers>>
    BY <1>6, <2>4 DEF Handle, RestOK
  <2>5. CASE Reply(Response("progress", 0, 0, 0)) /\ UNCHANGED watchers
    <3>1. Response("progress", 0, 0, 0) \in Responses
      BY DEF Response, Responses
    <3> QED
      BY <1>6, <2>5, <3>1, ReplyIsTyped DEF Handle, RestOK
  <2> QED
    BY <1>6, <2>2, <2>3, <2>4, <2>5 DEF Handle, req
<1>7. ASSUME NEW id \in WatchIds, Emit(id) PROVE RestOK'
  <2>1. /\ id \in Watched /\ watchers[id].next \in 1..MaxRevision
        /\ watchers[id].n \in 1..MaxWatches /\ watchers[id] \in Watcher
    BY <1>7, WatchedIsWatcher DEF Emit, RestOK
  <2>2. Response("event", watchers[id].n, id, watchers[id].next) \in Responses
    BY <2>1 DEF Response, Responses
  <2>3. out' \in Seq(Responses) /\ Len(out') <= Unread
    BY <1>7, <2>2, ReplyIsTyped DEF Emit
  <2>4. watchers' \in [WatchIds -> Watcher \cup {NoWatcher}]
    <3>1. watchers[id].next + 1 \in 1..(MaxRevision + 1)
      BY <2>1
    <3>2. [watchers[id] EXCEPT !.next = @ + 1] \in Watcher
      BY <2>1, <3>1 DEF Watcher
    <3>3. watchers' = [watchers EXCEPT ![id] = [watchers[id] EXCEPT !.next = @ + 1]]
      BY <1>7 DEF Emit
    <3> QED
      BY <3>2, <3>3 DEF RestOK
  <2> QED
    BY <1>7, <2>3, <2>4 DEF Emit, RestOK
<1>8. ASSUME NEW id \in WatchIds, GiveUp(id) PROVE RestOK'
  <2>1. Response("canceled", watchers[id].n, id, 0) \in Responses
    BY <1>8, WatchedIsWatcher DEF GiveUp, Response, Responses
  <2>2. out' \in Seq(Responses) /\ Len(out') <= Unread
    BY <1>8, <2>1, ReplyIsTyped DEF GiveUp, CancelWatcher
  <2>3. watchers' \in [WatchIds -> Watcher \cup {NoWatcher}]
    BY <1>8 DEF GiveUp, CancelWatcher, RestOK
  <2> QED
    BY <1>8, <2>2, <2>3 DEF GiveUp, RestOK
<1>9. CASE WatchOpened \/ Transport \/ GiveUpCall
  BY <1>9 DEF WatchOpened, Transport, GiveUpCall, RestOK, serverVars
<1>10. CASE Split \/ DropSender \/ Write \/ UNCHANGED vars
  BY <1>10 DEF Split, DropSender, Write, vars, RestOK, serverVars
<1> QED
  BY <1>1, <1>2, <1>3, <1>4, <1>5, <1>6, <1>7, <1>8, <1>9, <1>10
     DEF Next, WatchAgain, Cancel, RequestProgress

----------------------------------------------------------------------------
LEMMA Invariant == Spec => []IInv
<1>1. Init => IInv
  <2> SUFFICES ASSUME Init PROVE IInv
    OBVIOUS
  <2>1. StreamInv(Requests)
    BY StreamInvInit DEF Init
  <2> QED
    BY <2>1, EmptySeq, WatchAssumption DEF Init, IInv, RestOK, Idle
<1>2. IInv /\ [Next]_vars => IInv'
  <2> SUFFICES ASSUME IInv, [Next]_vars PROVE IInv'
    OBVIOUS
  <2>1. StreamInv(Requests) /\ RestOK /\ StreamTypeOK(Requests)
    BY DEF IInv, StreamInv
  <2>2. StreamStep(Requests) /\ RestOK'
    BY <2>1, StepIsStreamStep, RestStep
  <2>3. StreamInv(Requests)'
    BY <2>1, <2>2, StreamInvStep, NoRequestAssumption
  <2> QED
    BY <2>2, <2>3 DEF IInv
<1> QED
  BY <1>1, <1>2, PTL DEF Spec

(* The state of a watch stream stays within its types and bounds.             *)
THEOREM TypeCorrect == Spec => []TypeOK
<1>1. IInv => TypeOK
  BY DEF IInv, StreamInv, RestOK, TypeOK, Entries
<1> QED
  BY <1>1, Invariant, PTL

(* The server reads what watch, cancel and request_progress sent in the order  *)
(* in which they returned, none twice and none left out, also when opening the *)
(* stream was refused and made again with a new channel.                      *)
THEOREM OrderKept == Spec => []RequestsInOrder
<1>1. IInv => RequestsInOrder
  BY StreamInvInOrder DEF IInv
<1> QED
  BY <1>1, Invariant, PTL
----------------------------------------------------------------------------
(* The application's book.  It speaks of the past of the responses on their    *)
(* way, so the invariant says, for every place among them, what the book will  *)
(* be when all before have been taken.                                       *)
Going == stream \in {"opening", "refreshing", "reopening", "open"}

(* The requests on their way, as places among those sent. *)
Pending == (Len(handled) + 1)..Len(sent)

Creates(k, n) == sent[k].op = "create" /\ sent[k].n = n

Answers(i, n) == out[i].kind \in {"created", "refused"} /\ out[i].n = n

Asked(n) == n \in 1..Len(view) /\ view[n].status = "asked"

LiveAs(n, id) == n \in 1..Len(view) /\ view[n].status = "live" /\ view[n].id = id

(* Before the j-th response is taken ... *)
CreatedBy(j, n, id) ==
    \E i \in 1..(j - 1) : out[i].kind = "created" /\ out[i].n = n /\ out[i].id = id

CanceledBy(j, n) == \E i \in 1..(j - 1) : out[i].kind = "canceled" /\ out[i].n = n

LiveAt(j, n, id) == (LiveAs(n, id) \/ CreatedBy(j, n, id)) /\ ~CanceledBy(j, n)

(* ... and what the j-th response says of the watch that it is for. *)
Concerns(j, n, id) == out[j].kind \in {"canceled", "event"} /\ out[j].n = n /\ out[j].id = id

Shows(j, n, rev) == out[j].kind = "event" /\ out[j].n = n /\ out[j].rev = rev

Tells(i, n) == out[i].kind \in {"created", "event"} /\ out[i].n = n

SeenAt(j, n, rev) ==
    \/ \E i \in 1..(j - 1) :
          /\ Tells(i, n) /\ out[i].rev = rev
          /\ \A h \in (i + 1)..(j - 1) : ~Tells(h, n)
    \/ /\ \A i \in 1..(j - 1) : ~Tells(i, n)
       /\ n \in 1..Len(view) /\ view[n].seen = rev

(* Answers come in the order of the watches without one. *)
AnswersInv ==
    /\ \A i \in 1..Len(out) : out[i].kind = "progress" => out[i].n = 0
    /\ \A i \in 1..Len(out), n \in Nat : Answers(i, n) =>
          /\ Asked(n)
          /\ \A m \in Nat : m < n /\ Asked(m) => \E h \in 1..(i - 1) : Answers(h, m)
          /\ \A h \in 1..(i - 1), m \in Nat : Answers(h, m) => m < n

(* ... and so do the requests that are still to be answered. *)
PendingInv ==
    Going =>
        /\ \A k \in Pending, n \in Nat : Creates(k, n) =>
              /\ Asked(n)
              /\ \A i \in 1..Len(out), m \in Nat : Answers(i, m) => m < n
              /\ \A l \in Pending, m \in Nat : l < k /\ Creates(l, m) => m < n
              /\ \A m \in Nat : m < n /\ Asked(m) =>
                    \/ \E i \in 1..Len(out) : Answers(i, m)
                    \/ \E l \in Pending : l < k /\ Creates(l, m)
        /\ \A m \in Nat : Asked(m) =>
              \/ \E i \in 1..Len(out) : Answers(i, m)
              \/ \E k \in Pending : Creates(k, m)
        /\ sending # NoRequest /\ sending.op = "create" => sending.n = Len(view) + 1

(* An id means one live watch at a time. *)
IdsInv ==
    /\ \A j \in 1..Len(out), n \in Nat, id \in WatchIds :
          Concerns(j, n, id) => LiveAt(j, n, id)
    /\ \A j \in 1..(Len(out) + 1), id \in WatchIds, n, m \in Nat :
          LiveAt(j, n, id) /\ LiveAt(j, m, id) => n = m
    /\ Going =>
          /\ \A j \in {Len(out) + 1}, id \in WatchIds, n \in Nat \ {0} :
                LiveAt(j, n, id) <=> watchers[id].n = n
          /\ \A id, other \in WatchIds :
                watchers[id].n = watchers[other].n /\ watchers[id].n # 0 => id = other

(* A watcher's next revision follows on what its watch will have seen. *)
SeenInv ==
    /\ \A j \in 1..Len(out), n \in Nat, rev \in Int : Shows(j, n, rev + 1) => SeenAt(j, n, rev)
    /\ Going => \A j \in {Len(out) + 1}, id \in WatchIds, n \in Nat \ {0}, rev \in Int :
          watchers[id].n = n /\ watchers[id].next = rev + 1 => SeenAt(j, n, rev)

Fresh == stream = "none" => view = <<>> /\ out = <<>> /\ watchers = Idle

BookInv == AnswersInv /\ PendingInv /\ IdsInv /\ SeenInv /\ Fresh

----------------------------------------------------------------------------
LEMMA OutFields ==
    ASSUME RestOK
    PROVE  /\ Len(out) \in Nat /\ Len(view) \in Nat
           /\ \A i \in 1..Len(out) :
                 /\ out[i].kind \in {"created", "refused", "canceled", "event", "progress"}
                 /\ out[i].n \in Nat /\ out[i].id \in WatchIds /\ out[i].rev \in Nat
<1>1. out \in Seq(Responses) /\ view \in Seq(Entries)
  BY DEF RestOK
<1>2. \A i \in 1..Len(out) : out[i] \in Responses
  BY <1>1, ElementOfSeq
<1>3. Len(out) \in Nat /\ Len(view) \in Nat
  BY <1>1, LenProperties
<1> QED
  BY <1>2, <1>3, WatchAssumption DEF Responses

(* Nothing comes before the first response. *)
LEMMA AtTheHead ==
    ASSUME RestOK
    PROVE  \A n, id : /\ ~CreatedBy(1, n, id) /\ ~CanceledBy(1, n)
                      /\ LiveAt(1, n, id) <=> LiveAs(n, id)
  BY DEF CreatedBy, CanceledBy, LiveAt

(* The application takes the first response for the watch it belongs to. *)
LEMMA HeadFindsItsWatch ==
    ASSUME RestOK, AnswersInv, IdsInv, out # <<>>
    PROVE  \A n \in 1..Len(view) : IsFor(out[1], n) <=> out[1].n = n
<1>1. 1 \in 1..Len(out)
  BY OutFields, EmptySeq DEF RestOK
<1>2. /\ out[1].kind \in {"created", "refused", "canceled", "event", "progress"}
      /\ out[1].n \in Nat /\ out[1].id \in WatchIds /\ Len(view) \in Nat
  BY <1>1, OutFields
<1>3. CASE out[1].kind \in {"created", "refused"}
  <2>1. Answers(1, out[1].n)
    BY <1>3 DEF Answers
  <2>2. /\ Asked(out[1].n)
        /\ \A m \in Nat : m < out[1].n => ~Asked(m)
    BY <1>1, <1>2, <2>1 DEF AnswersInv
  <2>3. ASSUME NEW n \in 1..Len(view)
        PROVE  Watching!Turn(n) <=> out[1].n = n
    BY <1>2, <2>2 DEF Asked, Watching!Turn
  <2> QED
    BY <1>3, <2>3 DEF IsFor
<1>4. CASE out[1].kind \in {"canceled", "event"}
  <2>1. LiveAs(out[1].n, out[1].id)
    <3>1. Concerns(1, out[1].n, out[1].id)
      BY <1>4 DEF Concerns
    <3> QED
      BY <1>1, <1>2, <3>1, AtTheHead DEF IdsInv
  <2>2. ASSUME NEW n \in 1..Len(view), LiveAs(n, out[1].id) PROVE n = out[1].n
    <3>1. n \in Nat /\ 1 \in 1..(Len(out) + 1)
      BY <1>1, <1>2, OutFields
    <3>2. LiveAt(1, n, out[1].id) /\ LiveAt(1, out[1].n, out[1].id)
      BY <2>1, <2>2, AtTheHead
    <3> QED
      BY <1>2, <3>1, <3>2 DEF IdsInv
  <2>3. ASSUME NEW n \in 1..Len(view) PROVE IsFor(out[1], n) <=> LiveAs(n, out[1].id)
    BY <1>4 DEF IsFor, LiveAs
  <2> QED
    BY <2>1, <2>2, <2>3
<1>5. CASE out[1].kind = "progress"
  BY <1>1, <1>2, <1>5 DEF IsFor, AnswersInv
<1> QED
  BY <1>2, <1>3, <1>4, <1>5

----------------------------------------------------------------------------
(* Where nothing is replied, ids and revisions stay. *)
LEMMA NoReplyKeeps ==
    ASSUME IdsInv, SeenInv, UNCHANGED <<out, view, watchers>>, Going' => Going
    PROVE  IdsInv' /\ SeenInv'
<1>1. IdsInv'
  <2>1. \A j, n, id : /\ Concerns(j, n, id)' <=> Concerns(j, n, id)
                      /\ LiveAs(n, id)' <=> LiveAs(n, id)
                      /\ CreatedBy(j, n, id)' <=> CreatedBy(j, n, id)
                      /\ CanceledBy(j, n)' <=> CanceledBy(j, n)
    BY DEF Concerns, LiveAs, CreatedBy, CanceledBy
  <2>2. \A j, n, id : LiveAt(j, n, id)' <=> LiveAt(j, n, id)
    BY <2>1 DEF LiveAt
  <2> QED
    BY <2>1, <2>2 DEF IdsInv
<1>2. \A j, n, rev : (Shows(j, n, rev)' <=> Shows(j, n, rev)) /\ (Tells(j, n)' <=> Tells(j, n))
  BY DEF Shows, Tells
<1>3. \A j, n, rev : SeenAt(j, n, rev)' <=> SeenAt(j, n, rev)
  BY <1>2 DEF SeenAt
<1>4. SeenInv'
  BY <1>2, <1>3 DEF SeenInv
<1> QED
  BY <1>1, <1>4

(* Steps that touch neither responses nor book nor watchers. *)
LEMMA BookFrame ==
    ASSUME BookInv, UNCHANGED <<out, view, watchers, sent, handled>>,
           Going' => Going, stream' = "none" => stream = "none",
           Going' => \/ sending' \in {sending, NoRequest}
                     \/ sending'.op # "create" \/ sending'.n = Len(view) + 1
    PROVE  BookInv'
<1>1. AnswersInv /\ PendingInv /\ IdsInv /\ SeenInv /\ Fresh
  BY DEF BookInv
<1>2. AnswersInv'
  BY <1>1 DEF AnswersInv, Answers, Asked
<1>3. IdsInv' /\ SeenInv'
  BY <1>1, NoReplyKeeps
<1>4. PendingInv'
  <2>1. Pending' = Pending /\ Len(view') = Len(view)
    BY DEF Pending
  <2>2. \A k, n : (Creates(k, n)' <=> Creates(k, n)) /\ (Answers(k, n)' <=> Answers(k, n))
    BY DEF Creates, Answers
  <2>3. \A n : Asked(n)' <=> Asked(n)
    BY DEF Asked
  <2> QED
    BY <1>1, <2>1, <2>2, <2>3 DEF PendingInv
<1>5. Fresh'
  BY <1>1 DEF Fresh
<1> QED
  BY <1>2, <1>3, <1>4, <1>5 DEF BookInv

(* The end of the stream: some of the last responses go with it. *)
LEMMA BookCut ==
    ASSUME BookInv, RestOK, view' = view, stream' = "over",
           Len(out') \in Nat, Len(out') <= Len(out), \A i \in 1..Len(out') : out'[i] = out[i]
    PROVE  BookInv'
<1>1. AnswersInv /\ IdsInv /\ SeenInv /\ Len(out) \in Nat
  BY OutFields DEF BookInv
<1>2. 1..Len(out') \subseteq 1..Len(out) /\ ~Going'
  BY <1>1 DEF Going
<1>3. \A n, id : (Asked(n)' <=> Asked(n)) /\ (LiveAs(n, id)' <=> LiveAs(n, id))
  BY DEF Asked, LiveAs
<1>4. \A i \in 1..Len(out') : \A n : (Answers(i, n)' <=> Answers(i, n)) /\ (Tells(i, n)' <=> Tells(i, n))
  BY DEF Answers, Tells
<1>5. ASSUME NEW j \in 1..(Len(out') + 1)
      PROVE  /\ 1..(j - 1) \subseteq 1..Len(out') /\ j \in 1..(Len(out) + 1)
             /\ \A n, id : LiveAt(j, n, id)' <=> LiveAt(j, n, id)
             /\ \A n, rev : SeenAt(j, n, rev) => SeenAt(j, n, rev)'
  <2>1. 1..(j - 1) \subseteq 1..Len(out') /\ j \in 1..(Len(out) + 1)
        /\ \A i \in 1..(j - 1) : (i + 1)..(j - 1) \subseteq 1..Len(out')
    BY <1>1
  <2>2. \A n, id : (CreatedBy(j, n, id)' <=> CreatedBy(j, n, id))
                   /\ (CanceledBy(j, n)' <=> CanceledBy(j, n))
    BY <2>1 DEF CreatedBy, CanceledBy
  <2>3. \A n, rev : SeenAt(j, n, rev) => SeenAt(j, n, rev)'
    BY <1>4, <2>1 DEF SeenAt
  <2> QED
    BY <1>3, <2>1, <2>2, <2>3 DEF LiveAt
<1>6. AnswersInv'
  <2>1. \A i \in 1..Len(out') : 1..(i - 1) \subseteq 1..Len(out')
    BY <1>1
  <2>2. \A i \in 1..Len(out') : out'[i].kind = "progress" => out'[i].n = 0
    BY <1>1, <1>2 DEF AnswersInv
  <2> QED
    BY <1>1, <1>2, <1>3, <1>4, <2>1, <2>2 DEF AnswersInv
<1>7. IdsInv'
  <2>1. \A j \in 1..Len(out') : \A n, id : Concerns(j, n, id)' <=> Concerns(j, n, id)
    BY DEF Concerns
  <2>2. 1..Len(out') \subseteq 1..(Len(out') + 1)
    BY <1>1
  <2> QED
    BY <1>1, <1>2, <1>5, <2>1, <2>2 DEF IdsInv
<1>8. SeenInv'
  <2>1. \A j \in 1..Len(out') : \A n, rev : Shows(j, n, rev)' <=> Shows(j, n, rev)
    BY DEF Shows
  <2>2. 1..Len(out') \subseteq 1..(Len(out') + 1)
    BY <1>1
  <2> QED
    BY <1>1, <1>2, <1>5, <2>1, <2>2 DEF SeenInv
<1> QED
  BY <1>2, <1>6, <1>7, <1>8 DEF BookInv, PendingInv, Fresh

(* The first watch is asked for. *)
LEMMA BookOpens ==
    ASSUME BookInv, IInv, NEW id \in ChosenIds \cup {0}, NEW start \in Starts, OpenWatch(id, start)
    PROVE  BookInv'
<1>1. /\ stream = "none" /\ stream' = "opening" /\ out = <<>> /\ out' = <<>> /\ watchers = Idle
      /\ watchers' = Idle /\ handled' = <<>> /\ sending' = NoRequest
      /\ sent' = <<CreateRequest(1, id, start)>> /\ view' = Noted(<<>>, CreateRequest(1, id, start))
  BY DEF BookInv, Fresh, IInv, StreamInv, Opening, OpenWatch, Open, serverVars
<1>2. Len(out') = 0 /\ Len(handled') = 0 /\ Len(sent') = 1 /\ sent'[1].op = "create" /\ sent'[1].n = 1
  BY <1>1, EmptySeq DEF CreateRequest
<1>3. Len(view') = 1 /\ view'[1].status = "asked"
  <2>1. CreateRequest(1, id, start) \in Requests
    BY CreateIsRequest, WatchAssumption
  <2>2. view' = Append(<<>>, Watching!Watch("asked", id, 0))
    BY <1>1, <2>1, NoRequestAssumption DEF Noted, CreateRequest
  <2> QED
    BY <2>2 DEF Watching!Watch
<1>4. AnswersInv'
  BY <1>2 DEF AnswersInv
<1>5. PendingInv'
  BY <1>1, <1>2, <1>3 DEF PendingInv, Pending, Creates, Asked
<1>6. IdsInv'
  <2>1. \A w \in WatchIds : watchers'[w].n = 0
    BY <1>1 DEF Idle, NoWatcher
  <2>2. \A n \in Nat, w \in WatchIds : ~LiveAt(1, n, w)'
    BY <1>2, <1>3 DEF LiveAt, LiveAs, CreatedBy
  <2> QED
    BY <1>2, <2>1, <2>2 DEF IdsInv
<1>7. SeenInv'
  <2>1. \A w \in WatchIds : watchers'[w].n = 0
    BY <1>1 DEF Idle, NoWatcher
  <2> QED
    BY <1>2, <2>1 DEF SeenInv
<1>8. Fresh'
  BY <1>1 DEF Fresh
<1> QED
  BY <1>4, <1>5, <1>6, <1>7, <1>8 DEF BookInv

(* A send returns: a request more is pending, and perhaps a watch is noted. *)
LEMMA BookCallReturns ==
    ASSUME BookInv, IInv, CallReturns
    PROVE  BookInv'
<1>1. /\ AnswersInv /\ PendingInv /\ IdsInv /\ SeenInv
      /\ RestOK /\ StreamTypeOK(Requests) /\ Len(out) \in Nat /\ Len(view) \in Nat
  BY OutFields DEF BookInv, IInv, StreamInv
<1>0. Len(sent) \in Nat
  BY <1>1, LenProperties DEF StreamTypeOK
<1>L. PICK last \in Nat : last = Len(sent) + 1
  BY <1>0
<1>N. PICK new \in Nat : new = Len(view) + 1
  BY <1>1
<1>C. PICK creating \in BOOLEAN : creating <=> sending.op = "create"
  OBVIOUS
<1>2. /\ stream = "open" /\ stream' = "open" /\ sending # NoRequest /\ sending' = NoRequest
      /\ sent' = Append(sent, sending) /\ handled' = handled /\ view' = Noted(view, sending)
      /\ out' = out /\ watchers' = watchers /\ sending \in Requests
  BY <1>1 DEF CallReturns, FinishSend, serverVars, StreamTypeOK
<1>3. /\ Len(sent) \in Nat /\ Len(handled) \in Nat
      /\ \A k \in 1..Len(sent) : sent'[k] = sent[k]
      /\ Len(sent') = last /\ sent'[last] = sending
  BY <1>1, <1>2, <1>L, AppendProperties, LenProperties DEF StreamTypeOK
<1>4. Len(handled) <= Len(sent)
  <2>1. PICK n \in 0..Len(sent) : handled = SubSeq(sent, 1, n)
    BY DEF IInv, StreamInv, ReadInOrder, Begins
  <2>2. \A i \in 1..n : sent[i] \in Requests
    BY <1>1, <1>3, ElementOfSeq DEF StreamTypeOK
  <2>3. 1 \in Int /\ n \in Int
    BY <1>3
  <2>4. Len(handled) = IF 1 <= n THEN n - 1 + 1 ELSE 0
    BY <2>1, <2>2, <2>3, SubSeqProperties
  <2> QED
    BY <1>3, <2>4
<1>5. /\ Pending' = Pending \cup {last} /\ last \notin Pending
      /\ \A k \in Pending : k \in 1..Len(sent) /\ k < last
      /\ last \in Nat
  BY <1>2, <1>3, <1>4, <1>L DEF Pending
<1>6. creating => sending.n = new /\ sending.n \in Nat
  BY <1>1, <1>2, <1>N, <1>C DEF PendingInv, Going
<1>7. /\ \A n \in 1..Len(view) : view'[n] = view[n]
      /\ creating => Len(view') = new /\ view'[new].status = "asked"
      /\ ~creating => Len(view') = Len(view)
  <2>1. CASE ~creating
    BY <1>2, <1>C, <2>1 DEF Noted
  <2>2. CASE creating
    <3>1. sending.id \in WatchIds
      BY <1>2, <1>C, <2>2, RequestFields
    <3>2. Watching!Watch("asked", sending.id, 0) \in Entries
      BY <3>1, WatchAssumption DEF Entries, Watching!Watch
    <3>3. view' = Append(view, Watching!Watch("asked", sending.id, 0))
      BY <1>2, <1>C, <2>2 DEF Noted
    <3>4. Watching!Watch("asked", sending.id, 0).status = "asked"
      BY DEF Watching!Watch
    <3> QED
      BY <1>1, <1>N, <2>2, <3>2, <3>3, <3>4, AppendProperties DEF RestOK
  <2> QED
    BY <2>1, <2>2
<1>8. /\ \A n \in Nat : Asked(n)' <=> Asked(n) \/ (creating /\ n = new)
      /\ \A n \in Nat : Asked(n) => n < new
      /\ new \in Nat
  BY <1>1, <1>7, <1>N DEF Asked
<1>9. \A n, id : LiveAs(n, id)' <=> LiveAs(n, id)
  BY <1>1, <1>7, <1>N DEF LiveAs
<1>10. /\ \A k \in Pending : \A n : Creates(k, n)' <=> Creates(k, n)
       /\ \A n : Creates(last, n)' <=> creating /\ n = new
  BY <1>3, <1>5, <1>6, <1>C DEF Creates
<1>11. \A i, n : Answers(i, n)' <=> Answers(i, n)
  BY <1>2 DEF Answers
<1>12. AnswersInv'
  <2>1. \A i \in 1..Len(out) : out'[i].kind = "progress" => out'[i].n = 0
    BY <1>1, <1>2 DEF AnswersInv
  <2>2. ASSUME NEW i \in 1..Len(out), NEW n \in Nat, Answers(i, n)
        PROVE  /\ Asked(n)'
               /\ \A m \in Nat : m < n /\ Asked(m)' => \E h \in 1..(i - 1) : Answers(h, m)
               /\ \A h \in 1..(i - 1), m \in Nat : Answers(h, m) => m < n
    BY <1>1, <1>8, <2>2 DEF AnswersInv
  <2> QED
    BY <1>2, <1>11, <2>1, <2>2 DEF AnswersInv
<1>13. PendingInv'
  <2>1. /\ \A k \in Pending, n \in Nat : Creates(k, n) =>
              /\ Asked(n)
              /\ \A i \in 1..Len(out), m \in Nat : Answers(i, m) => m < n
              /\ \A l \in Pending, m \in Nat : l < k /\ Creates(l, m) => m < n
              /\ \A m \in Nat : m < n /\ Asked(m) =>
                    \/ \E i \in 1..Len(out) : Answers(i, m)
                    \/ \E l \in Pending : l < k /\ Creates(l, m)
        /\ \A m \in Nat : Asked(m) =>
              \/ \E i \in 1..Len(out) : Answers(i, m)
              \/ \E k \in Pending : Creates(k, m)
    BY <1>1, <1>2 DEF PendingInv, Going
  <2>2. \A i \in 1..Len(out), m \in Nat : Answers(i, m) => Asked(m)
    BY <1>1 DEF AnswersInv
  <2>3. ASSUME NEW k \in Pending, NEW n \in Nat, Creates(k, n)
        PROVE  /\ Asked(n)'
               /\ \A i \in 1..Len(out), m \in Nat : Answers(i, m) => m < n
               /\ \A l \in Pending', m \in Nat : l < k /\ Creates(l, m)' => m < n
               /\ \A m \in Nat : m < n /\ Asked(m)' =>
                     \/ \E i \in 1..Len(out) : Answers(i, m)
                     \/ \E l \in Pending' : l < k /\ Creates(l, m)'
    <3>1. ~(last < k) /\ k \in Nat
      BY <1>3, <1>5
    <3>2. Asked(n) /\ n < new
      BY <1>8, <2>1, <2>3
    <3>3. \A l \in Pending', m \in Nat : l < k /\ Creates(l, m)' => m < n
      BY <1>5, <1>10, <2>1, <2>3, <3>1
    <3>4. \A m \in Nat : m < n /\ Asked(m)' => Asked(m)
      BY <1>8, <3>2
    <3>5. \A m \in Nat : m < n /\ Asked(m)' =>
             \/ \E i \in 1..Len(out) : Answers(i, m)
             \/ \E l \in Pending' : l < k /\ Creates(l, m)'
      BY <1>5, <1>10, <2>1, <2>3, <3>4
    <3> QED
      BY <1>8, <2>1, <2>3, <3>2, <3>3, <3>5
  <2>4. ASSUME creating
        PROVE  /\ Asked(new)'
               /\ \A i \in 1..Len(out), m \in Nat : Answers(i, m) => m < new
               /\ \A l \in Pending', m \in Nat : l < last /\ Creates(l, m)' => m < new
               /\ \A m \in Nat : m < new /\ Asked(m)' =>
                     \/ \E i \in 1..Len(out) : Answers(i, m)
                     \/ \E l \in Pending' : l < last /\ Creates(l, m)'
    <3>1. \A l \in Pending', m \in Nat : l < last /\ Creates(l, m)' => m < new
      BY <1>5, <1>8, <1>10, <2>1
    <3>2. \A m \in Nat : m < new /\ Asked(m)' =>
             \/ \E i \in 1..Len(out) : Answers(i, m)
             \/ \E l \in Pending' : l < last /\ Creates(l, m)'
      BY <1>5, <1>8, <1>10, <2>1
    <3> QED
      BY <1>8, <2>2, <2>4, <3>1, <3>2
  <2>5. \A m \in Nat : Asked(m)' =>
           \/ \E i \in 1..Len(out) : Answers(i, m)
           \/ \E k \in Pending' : Creates(k, m)'
    BY <1>5, <1>8, <1>10, <2>1
  <2>6. \A k \in Pending', n \in Nat : Creates(k, n)' =>
           (k \in Pending /\ Creates(k, n)) \/ (k = last /\ creating /\ n = new)
    BY <1>5, <1>10
  <2> QED
    BY <1>2, <1>11, <2>3, <2>4, <2>5, <2>6 DEF PendingInv
<1>14. IdsInv'
  <2>1. \A j, n, id : (Concerns(j, n, id)' <=> Concerns(j, n, id))
                      /\ (CreatedBy(j, n, id)' <=> CreatedBy(j, n, id))
                      /\ (CanceledBy(j, n)' <=> CanceledBy(j, n))
    BY <1>2 DEF Concerns, CreatedBy, CanceledBy
  <2>2. \A j, n, id : LiveAt(j, n, id)' <=> LiveAt(j, n, id)
    BY <1>9, <2>1 DEF LiveAt
  <2> QED
    BY <1>1, <1>2, <2>1, <2>2 DEF IdsInv, Going
<1>15. SeenInv'
  <2>1. \A j, n, rev : (Shows(j, n, rev)' <=> Shows(j, n, rev)) /\ (Tells(j, n)' <=> Tells(j, n))
    BY <1>2 DEF Shows, Tells
  <2>2. \A n \in 1..Len(view) : n \in 1..Len(view') /\ view'[n] = view[n]
    BY <1>1, <1>7, <1>N
  <2>3. \A j, n, rev : SeenAt(j, n, rev) => SeenAt(j, n, rev)'
    BY <1>2, <2>1, <2>2 DEF SeenAt
  <2> QED
    BY <1>1, <1>2, <2>1, <2>3 DEF SeenInv, Going
<1> QED
  BY <1>2, <1>12, <1>13, <1>14, <1>15 DEF BookInv, Fresh

----------------------------------------------------------------------------
LEMMA AfterFields ==
    ASSUME NEW entry \in Entries, NEW resp
    PROVE  /\ After(entry, resp).status = CASE resp.kind = "created" -> "live"
                                            [] resp.kind = "event" -> entry.status
                                            [] OTHER -> "over"
           /\ After(entry, resp).id = IF resp.kind = "created" THEN resp.id ELSE entry.id
           /\ After(entry, resp).seen =
                 IF resp.kind \in {"created", "event"} THEN resp.rev ELSE entry.seen
<1>1. CASE resp.kind = "created"
  BY <1>1 DEF After, Watching!Watch
<1>2. CASE resp.kind = "event"
  BY <1>2 DEF After, Entries
<1>3. CASE resp.kind \notin {"created", "event"}
  BY <1>3 DEF After, Entries
<1> QED
  BY <1>1, <1>2, <1>3

(* What taking the first response does to the book. *)
LEMMA TakingTheHead ==
    ASSUME RestOK, AnswersInv, IdsInv, Message
    PROVE  /\ out # <<>> /\ Len(out') = Len(out) - 1
           /\ \A i \in 1..Len(out') : out'[i] = out[i + 1]
           /\ Len(view') = Len(view)
           /\ \A n \in 1..Len(view) :
                 view'[n] = IF out[1].n = n THEN After(view[n], out[1]) ELSE view[n]
<1>1. /\ out # <<>> /\ out' = Tail(out) /\ out \in Seq(Responses) /\ Head(out) = out[1]
      /\ view' = [n \in 1..Len(view) |->
                     IF IsFor(Head(out), n) THEN After(view[n], Head(out)) ELSE view[n]]
  BY DEF Message, Take, RestOK
<1>2. Len(out') = Len(out) - 1 /\ \A i \in 1..Len(out') : out'[i] = out[i + 1]
  BY <1>1, HeadTailProperties
<1>3. \A n \in 1..Len(view) :
         view'[n] = IF out[1].n = n THEN After(view[n], out[1]) ELSE view[n]
  BY <1>1, HeadFindsItsWatch
<1>4. Len(view') = Len(view)
  <2>1. DOMAIN view' = 1..Len(view) /\ Len(view) \in Nat
    BY <1>1, OutFields
  <2> QED
    BY <1>1, <2>1
<1> QED
  BY <1>1, <1>2, <1>3, <1>4

(* A status is what the response makes it; the others stay. *)
LEMMA HeadStatuses ==
    ASSUME RestOK, AnswersInv, IdsInv, Message
    PROVE  /\ \A n \in Nat : Asked(n)' <=> Asked(n) /\ ~Answers(1, n)
           /\ \A n \in Nat, id \in WatchIds : LiveAs(n, id)' <=>
                 \/ out[1].kind = "created" /\ out[1].n = n /\ out[1].id = id
                 \/ LiveAs(n, id) /\ ~(out[1].kind = "canceled" /\ out[1].n = n)
           /\ \A n \in 1..Len(view) :
                 view'[n].seen = IF Tells(1, n) THEN out[1].rev ELSE view[n].seen
<1>1. /\ out # <<>> /\ Len(view') = Len(view) /\ Len(view) \in Nat
      /\ \A n \in 1..Len(view) :
            view'[n] = IF out[1].n = n THEN After(view[n], out[1]) ELSE view[n]
  BY TakingTheHead, OutFields
<1>2. 1 \in 1..Len(out)
  BY <1>1, OutFields, EmptySeq DEF RestOK
<1>3. /\ out[1].kind \in {"created", "refused", "canceled", "event", "progress"}
      /\ out[1].n \in Nat /\ out[1].id \in WatchIds
  BY <1>2, OutFields
<1>4. \A n \in 1..Len(view) : view[n] \in Entries
  BY ElementOfSeq DEF RestOK
<1>5. /\ out[1].kind \in {"created", "refused"} => Asked(out[1].n)
      /\ out[1].kind \in {"canceled", "event"} => LiveAs(out[1].n, out[1].id)
      /\ out[1].kind = "progress" => out[1].n = 0
  <2>1. out[1].kind \in {"created", "refused"} => Asked(out[1].n)
    BY <1>2, <1>3 DEF AnswersInv, Answers
  <2>2. out[1].kind \in {"canceled", "event"} => LiveAt(1, out[1].n, out[1].id)
    BY <1>2, <1>3 DEF IdsInv, Concerns
  <2> QED
    BY <1>2, <2>1, <2>2, AtTheHead DEF AnswersInv
<1>6. ASSUME NEW n \in 1..Len(view)
      PROVE  /\ view'[n].status = IF out[1].n # n THEN view[n].status
                                  ELSE CASE out[1].kind = "created" -> "live"
                                         [] out[1].kind = "event" -> view[n].status
                                         [] OTHER -> "over"
             /\ view'[n].id = IF out[1].n = n /\ out[1].kind = "created" THEN out[1].id
                              ELSE view[n].id
             /\ view'[n].seen = IF Tells(1, n) THEN out[1].rev ELSE view[n].seen
  <2>1. CASE out[1].n # n
    BY <1>1, <2>1 DEF Tells
  <2>2. CASE out[1].n = n
    <3>1. view'[n] = After(view[n], out[1])
      BY <1>1, <2>2
    <3> QED
      BY <1>3, <1>4, <2>2, <3>1, AfterFields DEF Tells
  <2> QED
    BY <2>1, <2>2
<1>7. \A n \in Nat : Asked(n)' <=> Asked(n) /\ ~Answers(1, n)
  <2>1. ASSUME NEW n \in 1..Len(view)
        PROVE  view'[n].status = "asked" <=> view[n].status = "asked" /\ ~Answers(1, n)
    BY <1>3, <1>5, <1>6 DEF Asked, LiveAs, Answers
  <2> QED
    BY <1>1, <2>1 DEF Asked
<1>8. \A n \in Nat, id \in WatchIds : LiveAs(n, id)' <=>
                 \/ out[1].kind = "created" /\ out[1].n = n /\ out[1].id = id
                 \/ LiveAs(n, id) /\ ~(out[1].kind = "canceled" /\ out[1].n = n)
  <2>1. ASSUME NEW n \in 1..Len(view), NEW id \in WatchIds
        PROVE  view'[n].status = "live" /\ view'[n].id = id <=>
                 \/ out[1].kind = "created" /\ out[1].n = n /\ out[1].id = id
                 \/ /\ view[n].status = "live" /\ view[n].id = id
                    /\ ~(out[1].kind = "canceled" /\ out[1].n = n)
    BY <1>3, <1>5, <1>6 DEF Asked, LiveAs
  <2>2. out[1].kind = "created" => out[1].n \in 1..Len(view)
    BY <1>5 DEF Asked
  <2> QED
    BY <1>1, <2>1, <2>2 DEF LiveAs
<1> QED
  BY <1>6, <1>7, <1>8

(* What was to be after j + 1 responses is to be after the j that are left. *)
LEMMA ShiftedPlaces ==
    ASSUME RestOK, AnswersInv, IdsInv, Message, NEW j \in 1..(Len(out') + 1)
    PROVE  /\ j + 1 \in 1..(Len(out) + 1)
           /\ \A n \in Nat, id \in WatchIds : LiveAt(j, n, id)' <=> LiveAt(j + 1, n, id)
           /\ \A n \in Nat, rev \in Int : SeenAt(j + 1, n, rev) => SeenAt(j, n, rev)'
<1>1. /\ out # <<>> /\ Len(out') = Len(out) - 1 /\ Len(out) \in Nat /\ Len(view') = Len(view)
      /\ \A i \in 1..Len(out') : out'[i] = out[i + 1]
  BY TakingTheHead, OutFields
<1>2. /\ j + 1 \in 1..(Len(out) + 1) /\ j \in Nat \ {0}
      /\ \A i \in 1..(j - 1) : i \in 1..Len(out') /\ i + 1 \in 1..((j + 1) - 1)
      /\ \A i \in 1..((j + 1) - 1) : i = 1 \/ i - 1 \in 1..(j - 1)
      /\ 1 \in 1..((j + 1) - 1)
  BY <1>1
<1>3. ASSUME NEW n \in Nat, NEW id \in WatchIds
      PROVE  /\ CreatedBy(j + 1, n, id) <=>
                   \/ out[1].kind = "created" /\ out[1].n = n /\ out[1].id = id
                   \/ \E i \in 1..(j - 1) : /\ out'[i].kind = "created"
                                            /\ out'[i].n = n /\ out'[i].id = id
             /\ CanceledBy(j + 1, n) <=>
                   \/ out[1].kind = "canceled" /\ out[1].n = n
                   \/ \E i \in 1..(j - 1) : out'[i].kind = "canceled" /\ out'[i].n = n
  <2>1. \A i \in 1..(j - 1) : out'[i] = out[i + 1] /\ i + 1 \in 1..((j + 1) - 1)
    BY <1>1, <1>2
  <2>2. \A i \in 1..((j + 1) - 1) : i = 1 \/ (i - 1 \in 1..(j - 1) /\ out'[i - 1] = out[i])
    BY <1>1, <1>2
  <2>3. CreatedBy(j + 1, n, id) <=>
           \/ out[1].kind = "created" /\ out[1].n = n /\ out[1].id = id
           \/ \E i \in 1..(j - 1) : /\ out'[i].kind = "created"
                                    /\ out'[i].n = n /\ out'[i].id = id
    BY <1>2, <2>1, <2>2 DEF CreatedBy
  <2>4. CanceledBy(j + 1, n) <=>
           \/ out[1].kind = "canceled" /\ out[1].n = n
           \/ \E i \in 1..(j - 1) : out'[i].kind = "canceled" /\ out'[i].n = n
    BY <1>2, <2>1, <2>2 DEF CanceledBy
  <2> QED
    BY <2>3, <2>4
<1>4. ASSUME NEW n \in Nat, NEW id \in WatchIds
      PROVE  LiveAt(j, n, id)' <=> LiveAt(j + 1, n, id)
  <2>1. LiveAs(n, id)' <=>
                 \/ out[1].kind = "created" /\ out[1].n = n /\ out[1].id = id
                 \/ LiveAs(n, id) /\ ~(out[1].kind = "canceled" /\ out[1].n = n)
    BY HeadStatuses
  <2>2. ASSUME out[1].kind = "canceled", out[1].n = n, CreatedBy(j, n, id)' PROVE FALSE
    <3>1. PICK i \in 1..(j - 1) : out'[i].kind = "created" /\ out'[i].n = n
      BY <2>2 DEF CreatedBy
    <3>2. i + 1 \in 1..Len(out) /\ Answers(i + 1, n)
      BY <1>1, <1>2, <3>1 DEF Answers
    <3>3. Asked(n)
      BY <3>2 DEF AnswersInv
    <3>4. 1 \in 1..Len(out) /\ out[1].id \in WatchIds
      BY <1>1, OutFields
    <3>5. LiveAs(n, out[1].id)
      <4>1. Concerns(1, n, out[1].id)
        BY <2>2 DEF Concerns
      <4> QED
        BY <3>4, <4>1, AtTheHead DEF IdsInv
    <3> QED
      BY <3>3, <3>5 DEF Asked, LiveAs
  <2>3. /\ CreatedBy(j, n, id)' <=> \E i \in 1..(j - 1) : /\ out'[i].kind = "created"
                                            /\ out'[i].n = n /\ out'[i].id = id
        /\ CanceledBy(j, n)' <=> \E i \in 1..(j - 1) : out'[i].kind = "canceled" /\ out'[i].n = n
    BY DEF CreatedBy, CanceledBy
  <2> QED
    BY <1>3, <2>1, <2>2, <2>3 DEF LiveAt
<1>5. ASSUME NEW n \in Nat, NEW rev \in Int, SeenAt(j + 1, n, rev)
      PROVE  SeenAt(j, n, rev)'
  <2>1. \A i \in 1..(j - 1) : Tells(i, n)' <=> Tells(i + 1, n)
    BY <1>1, <1>2 DEF Tells
  <2>2. \A m \in 1..Len(view) : view'[m].seen = IF Tells(1, m) THEN out[1].rev ELSE view[m].seen
    BY HeadStatuses
  <2>3. ASSUME NEW i \in 1..((j + 1) - 1), Tells(i, n), out[i].rev = rev,
               \A h \in (i + 1)..((j + 1) - 1) : ~Tells(h, n)
        PROVE  SeenAt(j, n, rev)'
    <3>1. CASE i = 1
      <4>1. \A h \in 1..(j - 1) : h + 1 \in (i + 1)..((j + 1) - 1)
        BY <1>2, <3>1
      <4>2. \A h \in 1..(j - 1) : ~Tells(h, n)'
        BY <2>1, <2>3, <4>1
      <4>3. n \in 1..Len(view)
        <5>1. 1 \in 1..Len(out) /\ out[1].id \in WatchIds
          BY <1>1, OutFields
        <5>2. CASE out[1].kind = "created"
          <6>1. Answers(1, n)
            BY <2>3, <3>1, <5>2 DEF Tells, Answers
          <6> QED
            BY <5>1, <6>1 DEF AnswersInv, Asked
        <5>3. CASE out[1].kind = "event"
          <6>1. Concerns(1, n, out[1].id)
            BY <2>3, <3>1, <5>3 DEF Tells, Concerns
          <6> QED
            BY <5>1, <6>1, AtTheHead DEF IdsInv, LiveAs
        <5> QED
          BY <2>3, <3>1, <5>2, <5>3 DEF Tells
      <4>4. view'[n].seen = rev
        BY <2>2, <2>3, <3>1, <4>3
      <4> QED
        BY <1>1, <4>2, <4>3, <4>4 DEF SeenAt
    <3>2. CASE i # 1
      <4>1. i - 1 \in 1..(j - 1) /\ (i - 1) + 1 = i /\ \A h \in i..(j - 1) :
               h \in 1..(j - 1) /\ h + 1 \in (i + 1)..((j + 1) - 1)
        BY <1>2, <3>2
      <4>2. PICK k \in 1..(j - 1) : k = i - 1
        BY <4>1
      <4>3. Tells(k, n)' /\ out'[k].rev = rev /\ \A h \in (k + 1)..(j - 1) : ~Tells(h, n)'
        BY <1>1, <1>2, <2>1, <2>3, <4>1, <4>2
      <4> QED
        BY <4>3 DEF SeenAt
    <3> QED
      BY <3>1, <3>2
  <2>4. ASSUME \A i \in 1..((j + 1) - 1) : ~Tells(i, n), n \in 1..Len(view), view[n].seen = rev
        PROVE  SeenAt(j, n, rev)'
    <3>1. ~Tells(1, n) /\ \A i \in 1..(j - 1) : ~Tells(i, n)'
      BY <1>2, <2>1, <2>4
    <3>2. n \in 1..Len(view') /\ view'[n].seen = rev
      BY <1>1, <2>2, <2>4, <3>1
    <3> QED
      BY <3>1, <3>2 DEF SeenAt
  <2> QED
    BY <1>5, <2>3, <2>4 DEF SeenAt
<1> QED
  BY <1>2, <1>4, <1>5

(* A response is taken: it was for the watch that has it noted. *)
LEMMA BookMessage ==
    ASSUME BookInv, RestOK, Message
    PROVE  BookInv'
<1>1. AnswersInv /\ PendingInv /\ IdsInv /\ SeenInv
  BY DEF BookInv
<1>2. /\ out # <<>> /\ Len(out') = Len(out) - 1 /\ Len(out) \in Nat /\ Len(view') = Len(view)
      /\ \A i \in 1..Len(out') : out'[i] = out[i + 1] /\ i + 1 \in 1..Len(out) /\ 1 \in 1..i
      /\ stream \in {"open", "over"} /\ UNCHANGED streamVars /\ watchers' = watchers
  <2>1. /\ out # <<>> /\ Len(out') = Len(out) - 1 /\ Len(view') = Len(view)
        /\ \A i \in 1..Len(out') : out'[i] = out[i + 1]
    BY <1>1, TakingTheHead
  <2>2. Len(out) \in Nat
    BY OutFields
  <2> QED
    BY <2>1, <2>2 DEF Message, Take
<1>3. \A n \in Nat : Asked(n)' <=> Asked(n) /\ ~Answers(1, n)
  BY <1>1, HeadStatuses
<1>4. \A i \in 1..Len(out'), n \in Nat : Answers(i, n)' <=> Answers(i + 1, n)
  BY <1>2 DEF Answers
<1>5. ASSUME NEW i \in 1..Len(out), NEW n \in Nat, Answers(i, n), ~Answers(1, n)
      PROVE  \E h \in 1..Len(out') : h + 1 = i /\ Answers(h, n)'
  <2>1. PICK h \in 1..Len(out') : h + 1 = i
    <3>1. i # 1
      BY <1>5
    <3>2. i - 1 \in 1..Len(out') /\ (i - 1) + 1 = i
      BY <1>2, <3>1
    <3> QED
      BY <3>2
  <2> QED
    BY <1>4, <1>5, <2>1
<1>6. AnswersInv'
  <2>1. ASSUME NEW i \in 1..Len(out'), NEW n \in Nat, Answers(i, n)'
        PROVE  /\ Asked(n)'
               /\ \A m \in Nat : m < n /\ Asked(m)' => \E h \in 1..(i - 1) : Answers(h, m)'
               /\ \A h \in 1..(i - 1), m \in Nat : Answers(h, m)' => m < n
    <3>1. Answers(i + 1, n) /\ i + 1 \in 1..Len(out) /\ i \in Nat
      BY <1>2, <1>4, <2>1
    <3>2. PICK j \in 1..Len(out) : j = i + 1
      BY <3>1
    <3>3. /\ Asked(n)
          /\ \A m \in Nat : m < n /\ Asked(m) => \E h \in 1..(j - 1) : Answers(h, m)
          /\ \A h \in 1..(j - 1), m \in Nat : Answers(h, m) => m < n
      BY <1>1, <3>1, <3>2 DEF AnswersInv
    <3>4. 1 \in 1..(j - 1) /\ \A h \in 1..(i - 1) : h + 1 \in 1..(j - 1) /\ h \in 1..Len(out')
      BY <1>2, <3>2
    <3>5. Asked(n)'
      BY <1>3, <3>3, <3>4
    <3>6. ASSUME NEW m \in Nat, m < n, Asked(m)' PROVE \E h \in 1..(i - 1) : Answers(h, m)'
      <4>1. Asked(m) /\ ~Answers(1, m)
        BY <1>3, <3>6
      <4>2. PICK h \in 1..(j - 1) : Answers(h, m)
        BY <3>3, <3>6, <4>1
      <4>3. h \in 1..Len(out)
        BY <1>2, <3>2
      <4>4. PICK g \in 1..Len(out') : g + 1 = h /\ Answers(g, m)'
        BY <1>5, <4>1, <4>2, <4>3
      <4>5. g \in 1..(i - 1)
        BY <3>2, <4>4
      <4> QED
        BY <4>4, <4>5
    <3>7. ASSUME NEW h \in 1..(i - 1), NEW m \in Nat, Answers(h, m)' PROVE m < n
      BY <1>4, <3>3, <3>4, <3>7
    <3> QED
      BY <3>5, <3>6, <3>7
  <2>2. \A i \in 1..Len(out') : out'[i].kind = "progress" => out'[i].n = 0
    BY <1>1, <1>2 DEF AnswersInv
  <2> QED
    BY <2>1, <2>2 DEF AnswersInv
<1>7. PendingInv'
  <2>1. /\ Going' => Going
        /\ Pending' = Pending
        /\ \A k, n : Creates(k, n)' <=> Creates(k, n)
        /\ sending' = sending
    BY <1>2 DEF streamVars, Going, Pending, Creates
  <2>2. SUFFICES
          ASSUME Going'
          PROVE  /\ \A k \in Pending, n \in Nat : Creates(k, n) =>
                       /\ Asked(n)'
                       /\ \A i \in 1..Len(out'), m \in Nat : Answers(i, m)' => m < n
                       /\ \A l \in Pending, m \in Nat : l < k /\ Creates(l, m) => m < n
                       /\ \A m \in Nat : m < n /\ Asked(m)' =>
                             \/ \E i \in 1..Len(out') : Answers(i, m)'
                             \/ \E l \in Pending : l < k /\ Creates(l, m)
                 /\ \A m \in Nat : Asked(m)' =>
                       \/ \E i \in 1..Len(out') : Answers(i, m)'
                       \/ \E k \in Pending : Creates(k, m)
    <3>1. /\ Going' => Going
          /\ \A k, n : Creates(k, n)' <=> Creates(k, n)
          /\ Len(view') = Len(view)
      BY <1>2, <2>1
    <3>2. Going => (sending # NoRequest /\ sending.op = "create" => sending.n = Len(view) + 1)
      BY <1>1 DEF PendingInv
    <3> QED
      BY <2>1, <3>1, <3>2 DEF PendingInv
  <2>3. Going
    BY <2>1, <2>2
  <2>4. ASSUME NEW m \in Nat, Asked(m)', \E i \in 1..Len(out) : Answers(i, m)
        PROVE  \E i \in 1..Len(out') : Answers(i, m)'
    BY <1>3, <1>5, <2>4
  <2>5. ASSUME NEW k \in Pending, NEW n \in Nat, Creates(k, n)
        PROVE  /\ Asked(n)'
               /\ \A i \in 1..Len(out'), m \in Nat : Answers(i, m)' => m < n
               /\ \A l \in Pending, m \in Nat : l < k /\ Creates(l, m) => m < n
               /\ \A m \in Nat : m < n /\ Asked(m)' =>
                    \/ \E i \in 1..Len(out') : Answers(i, m)'
                    \/ \E l \in Pending : l < k /\ Creates(l, m)
    <3>1. /\ Asked(n)
          /\ \A i \in 1..Len(out), m \in Nat : Answers(i, m) => m < n
          /\ \A l \in Pending, m \in Nat : l < k /\ Creates(l, m) => m < n
          /\ \A m \in Nat : m < n /\ Asked(m) =>
                \/ \E i \in 1..Len(out) : Answers(i, m)
                \/ \E l \in Pending : l < k /\ Creates(l, m)
      BY <1>1, <2>3, <2>5 DEF PendingInv
    <3>2. ~Answers(1, n)
      <4>1. 1 \in 1..Len(out) /\ ~(n < n)
        <5>1. Len(out) # 0
          BY <1>2, EmptySeq DEF RestOK
        <5> QED
          BY <1>2, <5>1
      <4> QED
        BY <3>1, <4>1
    <3>3. \A i \in 1..Len(out'), m \in Nat : Answers(i, m)' => m < n
      BY <1>2, <1>4, <3>1
    <3>4. \A m \in Nat : m < n /\ Asked(m)' =>
                    \/ \E i \in 1..Len(out') : Answers(i, m)'
                    \/ \E l \in Pending : l < k /\ Creates(l, m)
      BY <1>3, <2>4, <3>1
    <3> QED
      BY <1>3, <3>1, <3>2, <3>3, <3>4
  <2>6. \A m \in Nat : Asked(m)' =>
              \/ \E i \in 1..Len(out') : Answers(i, m)'
              \/ \E k \in Pending : Creates(k, m)
    BY <1>1, <1>3, <2>3, <2>4 DEF PendingInv
  <2> QED
    BY <2>5, <2>6
<1>8. IdsInv'
  <2>1. \A j \in 1..Len(out'), n \in Nat, id \in WatchIds :
           Concerns(j, n, id)' => LiveAt(j, n, id)'
    <3>1. ASSUME NEW j \in 1..Len(out'), NEW n \in Nat, NEW id \in WatchIds, Concerns(j, n, id)'
          PROVE  LiveAt(j, n, id)'
      <4>1. Concerns(j + 1, n, id) /\ j + 1 \in 1..Len(out) /\ j \in 1..(Len(out') + 1)
        BY <1>2, <3>1 DEF Concerns
      <4>2. LiveAt(j + 1, n, id)
        BY <1>1, <4>1 DEF IdsInv
      <4> QED
        BY <1>1, <4>1, <4>2, ShiftedPlaces
    <3> QED
      BY <3>1
  <2>2. \A j \in 1..(Len(out') + 1), id \in WatchIds, n, m \in Nat :
           LiveAt(j, n, id)' /\ LiveAt(j, m, id)' => n = m
    <3>1. ASSUME NEW j \in 1..(Len(out') + 1), NEW id \in WatchIds, NEW n \in Nat, NEW m \in Nat,
                 LiveAt(j, n, id)', LiveAt(j, m, id)'
          PROVE  n = m
      <4>1. j + 1 \in 1..(Len(out) + 1) /\ LiveAt(j + 1, n, id) /\ LiveAt(j + 1, m, id)
        BY <1>1, <3>1, ShiftedPlaces
      <4> QED
        BY <1>1, <4>1 DEF IdsInv
    <3> QED
      BY <3>1
  <2>3. \A j \in {Len(out') + 1}, id \in WatchIds, n \in Nat \ {0} :
           Going => (LiveAt(j, n, id)' <=> watchers[id].n = n)
    <3>1. ASSUME NEW j \in {Len(out') + 1}, NEW id \in WatchIds, NEW n \in Nat \ {0}, Going
          PROVE  LiveAt(j, n, id)' <=> watchers[id].n = n
      <4>1. j \in 1..(Len(out') + 1) /\ j + 1 \in {Len(out) + 1}
        BY <1>2
      <4>2. LiveAt(j, n, id)' <=> LiveAt(j + 1, n, id)
        BY <1>1, <4>1, ShiftedPlaces
      <4> QED
        BY <1>1, <3>1, <4>1, <4>2 DEF IdsInv
    <3> QED
      BY <3>1
  <2>4. Going' => Going
    BY <1>2 DEF Going, streamVars
  <2> QED
    BY <1>1, <1>2, <2>1, <2>2, <2>3, <2>4 DEF IdsInv
<1>9. SeenInv'
  <2>1. ASSUME NEW j \in 1..Len(out'), NEW n \in Nat, NEW rev \in Int, Shows(j, n, rev + 1)'
        PROVE  SeenAt(j, n, rev)'
    <3>1. Shows(j + 1, n, rev + 1) /\ j + 1 \in 1..Len(out) /\ j \in 1..(Len(out') + 1)
      BY <1>2, <2>1 DEF Shows
    <3>2. SeenAt(j + 1, n, rev)
      BY <1>1, <3>1 DEF SeenInv
    <3> QED
      BY <1>1, <3>1, <3>2, ShiftedPlaces
  <2>2. ASSUME NEW j \in {Len(out') + 1}, NEW id \in WatchIds, NEW n \in Nat \ {0}, NEW rev \in Int,
               Going, watchers[id].n = n, watchers[id].next = rev + 1
        PROVE  SeenAt(j, n, rev)'
    <3>1. j \in 1..(Len(out') + 1) /\ j + 1 \in {Len(out) + 1}
      BY <1>2
    <3>2. SeenAt(j + 1, n, rev)
      BY <1>1, <2>2, <3>1 DEF SeenInv
    <3> QED
      BY <1>1, <3>1, <3>2, ShiftedPlaces
  <2>3. Going' => Going
    BY <1>2 DEF Going, streamVars
  <2> QED
    BY <1>2, <2>1, <2>2, <2>3 DEF SeenInv
<1> QED
  BY <1>2, <1>6, <1>7, <1>8, <1>9 DEF BookInv, Fresh, streamVars

----------------------------------------------------------------------------
(* A response more is on its way. *)
LEMMA ReplyFacts ==
    ASSUME RestOK, NEW resp \in Responses, Reply(resp), view' = view, NEW l \in Nat, l = Len(out)
    PROVE  /\ Len(out') = l + 1 /\ out'[l + 1] = resp
           /\ \A i \in 1..l : out'[i] = out[i]
           /\ \A n, id : (Asked(n)' <=> Asked(n)) /\ (LiveAs(n, id)' <=> LiveAs(n, id))
           /\ \A j \in 1..(l + 1) : \A n, id :
                 /\ LiveAt(j, n, id)' <=> LiveAt(j, n, id)
                 /\ CanceledBy(j, n)' <=> CanceledBy(j, n)
           /\ \A j \in 1..(l + 1) : \A n, rev : SeenAt(j, n, rev) => SeenAt(j, n, rev)'
<1>1. Len(out') = l + 1 /\ out'[l + 1] = resp /\ \A i \in 1..l : out'[i] = out[i]
  BY AppendProperties DEF Reply, RestOK
<1>2. \A n, id : (Asked(n)' <=> Asked(n)) /\ (LiveAs(n, id)' <=> LiveAs(n, id))
  BY DEF Asked, LiveAs
<1>3. \A i \in 1..l : \A n : Tells(i, n)' <=> Tells(i, n)
  BY <1>1 DEF Tells
<1>4. ASSUME NEW j \in 1..(l + 1)
      PROVE  \A n, id : /\ CreatedBy(j, n, id)' <=> CreatedBy(j, n, id)
                        /\ CanceledBy(j, n)' <=> CanceledBy(j, n)
                        /\ LiveAt(j, n, id)' <=> LiveAt(j, n, id)
  <2>1. 1..(j - 1) \subseteq 1..l
    OBVIOUS
  <2>2. \A n, id : CreatedBy(j, n, id)' <=> CreatedBy(j, n, id)
    BY <1>1, <2>1 DEF CreatedBy
  <2>3. \A n : CanceledBy(j, n)' <=> CanceledBy(j, n)
    BY <1>1, <2>1 DEF CanceledBy
  <2> QED
    BY <1>2, <2>2, <2>3 DEF LiveAt
<1>5. ASSUME NEW j \in 1..(l + 1), NEW n, NEW rev, SeenAt(j, n, rev) PROVE SeenAt(j, n, rev)'
  <2>1. 1..(j - 1) \subseteq 1..l /\ \A i \in 1..(j - 1) : (i + 1)..(j - 1) \subseteq 1..l
    OBVIOUS
  <2> QED
    BY <1>1, <1>3, <1>5, <2>1 DEF SeenAt
<1> QED
  BY <1>1, <1>2, <1>4, <1>5

(* What the book is to be when the new response has been taken, too: at place  *)
(* k, after place j.                                                        *)
LEMMA LastIds ==
    ASSUME RestOK, NEW resp \in Responses, Reply(resp), view' = view, NEW l \in Nat, l = Len(out),
           NEW j \in (l + 1)..(l + 1), NEW k \in (l + 2)..(l + 2), NEW n, NEW id
    PROVE  LiveAt(k, n, id)' <=>
              /\ \/ LiveAs(n, id) \/ CreatedBy(j, n, id)
                 \/ resp.kind = "created" /\ resp.n = n /\ resp.id = id
              /\ ~CanceledBy(j, n)
              /\ ~(resp.kind = "canceled" /\ resp.n = n)
<1>1. Len(out') = l + 1 /\ out'[l + 1] = resp /\ \A i \in 1..l : out'[i] = out[i]
  BY ReplyFacts
<1>2. LiveAs(n, id)' <=> LiveAs(n, id)
  BY DEF LiveAs
<1>3. /\ j \in 1..(k - 1) /\ out'[j] = resp
      /\ \A i \in 1..(k - 1) : i \in 1..(j - 1) \/ i = j
      /\ \A i \in 1..(j - 1) : i \in 1..(k - 1) /\ i \in 1..l
  BY <1>1
<1>4. CreatedBy(k, n, id)' <=>
         CreatedBy(j, n, id) \/ (resp.kind = "created" /\ resp.n = n /\ resp.id = id)
  BY <1>1, <1>3 DEF CreatedBy
<1>5. CanceledBy(k, n)' <=> CanceledBy(j, n) \/ (resp.kind = "canceled" /\ resp.n = n)
  BY <1>1, <1>3 DEF CanceledBy
<1> QED
  BY <1>2, <1>4, <1>5 DEF LiveAt

LEMMA LastSeen ==
    ASSUME RestOK, NEW resp \in Responses, Reply(resp), view' = view, NEW l \in Nat, l = Len(out),
           NEW j \in (l + 1)..(l + 1), NEW k \in (l + 2)..(l + 2), NEW n, NEW rev,
           \/ resp.kind \in {"created", "event"} /\ resp.n = n /\ resp.rev = rev
           \/ ~(resp.kind \in {"created", "event"} /\ resp.n = n) /\ SeenAt(j, n, rev)
    PROVE  SeenAt(k, n, rev)'
<1>1. Len(out') = l + 1 /\ out'[l + 1] = resp /\ \A i \in 1..l : out'[i] = out[i]
  BY ReplyFacts
<1>2. /\ j \in 1..(k - 1) /\ out'[j] = resp /\ (j + 1)..(k - 1) = {}
      /\ \A i \in 1..(k - 1) : i \in 1..(j - 1) \/ i = j
      /\ \A i \in 1..(j - 1) : i \in 1..(k - 1) /\ i \in 1..l
  BY <1>1
<1>3. /\ \A i \in 1..l : Tells(i, n)' <=> Tells(i, n)
      /\ Tells(j, n)' <=> resp.kind \in {"created", "event"} /\ resp.n = n
  BY <1>1, <1>2 DEF Tells
<1>4. CASE resp.kind \in {"created", "event"} /\ resp.n = n /\ resp.rev = rev
  BY <1>2, <1>3, <1>4 DEF SeenAt
<1>5. CASE ~(resp.kind \in {"created", "event"} /\ resp.n = n) /\ SeenAt(j, n, rev)
  <2>1. ASSUME NEW i \in 1..(j - 1), Tells(i, n), out[i].rev = rev,
               \A h \in (i + 1)..(j - 1) : ~Tells(h, n)
        PROVE  SeenAt(k, n, rev)'
    <3>1. \A h \in (i + 1)..(k - 1) : h = j \/ (h \in (i + 1)..(j - 1) /\ h \in 1..l)
      OBVIOUS
    <3>2. \A h \in (i + 1)..(k - 1) : ~Tells(h, n)'
      BY <1>3, <1>5, <2>1, <3>1
    <3>3. i \in 1..(k - 1) /\ Tells(i, n)' /\ out'[i].rev = rev
      BY <1>1, <1>2, <1>3, <2>1
    <3> QED
      BY <3>2, <3>3 DEF SeenAt
  <2>2. ASSUME \A i \in 1..(j - 1) : ~Tells(i, n), n \in 1..Len(view), view[n].seen = rev
        PROVE  SeenAt(k, n, rev)'
    <3>1. \A i \in 1..(k - 1) : ~Tells(i, n)'
      BY <1>2, <1>3, <1>5, <2>2
    <3> QED
      BY <2>2, <3>1 DEF SeenAt
  <2> QED
    BY <1>5, <2>1, <2>2 DEF SeenAt
<1> QED
  BY <1>4, <1>5

(* The request read next is the first that is pending. *)
LEMMA NextRequest ==
    ASSUME StreamInv(Requests), Receive
    PROVE  \E first \in Pending :
              /\ Head(wire) = sent[first] /\ sent[first] \in Requests
              /\ \A k \in Pending : first <= k
              /\ \A k : k \in Pending' <=> k \in Pending /\ k # first
<1>1. /\ handled \in Seq(Requests) /\ wire \in Seq(Requests) /\ queue \in Seq(Requests)
      /\ sent = handled \o wire \o queue /\ wire # <<>>
      /\ handled' = Append(handled, Head(wire)) /\ sent' = sent
  BY DEF StreamInv, StreamTypeOK, Whole, Receive
<1>2. /\ Head(wire) = wire[1] /\ Head(wire) \in Requests /\ Len(wire) \in Nat \ {0}
      /\ Len(handled) \in Nat /\ Len(queue) \in Nat /\ Len(handled') = Len(handled) + 1
  BY <1>1, HeadTailProperties, AppendProperties, LenProperties, EmptySeq
<1>3. PICK first \in Nat \ {0} : first = Len(handled) + 1
  BY <1>2
<1>4. PICK both \in Seq(Requests) : both = handled \o wire
  BY <1>1, ConcatProperties
<1>5. Len(both) = Len(handled) + Len(wire) /\ first \in 1..Len(both) /\ both[first] = wire[1]
  <2>1. first \in 1..(Len(handled) + Len(wire)) /\ first > Len(handled) /\ first - Len(handled) = 1
    BY <1>2, <1>3
  <2>2. Len(both) = Len(handled) + Len(wire)
    BY <1>1, <1>4, ConcatProperties
  <2>3. both[first] = wire[first - Len(handled)]
    BY <1>1, <1>4, <2>1, ConcatProperties
  <2> QED
    BY <2>1, <2>2, <2>3
<1>6. Len(sent) = Len(both) + Len(queue) /\ first \in 1..Len(sent) /\ sent[first] = both[first]
  <2>1. sent = both \o queue
    BY <1>1, <1>4
  <2>2. first \in 1..(Len(both) + Len(queue)) /\ first <= Len(both)
    BY <1>2, <1>5
  <2> QED
    BY <1>1, <2>1, <2>2, ConcatProperties
<1>7. Pending = first..Len(sent) /\ Pending' = (first + 1)..Len(sent) /\ Len(sent) \in Nat
  <2>1. Len(sent) \in Nat
    BY <1>2, <1>5, <1>6
  <2> QED
    BY <1>1, <1>2, <1>3, <2>1 DEF Pending
<1> QED
  BY <1>2, <1>5, <1>6, <1>7

(* A watch that is still pending has neither an answer nor anything else. *)
LEMMA NothingYet ==
    ASSUME RestOK, AnswersInv, PendingInv, IdsInv, Going,
           NEW k \in Pending, NEW n \in Nat, Creates(k, n),
           NEW l \in Nat, l = Len(out), NEW j \in 1..(l + 1)
    PROVE  /\ \A id : ~LiveAs(n, id) /\ ~CreatedBy(j, n, id) /\ ~LiveAt(j, n, id)
           /\ ~CanceledBy(j, n)
<1>1. Asked(n) /\ \A i \in 1..l, m \in Nat : Answers(i, m) => m < n
  BY DEF PendingInv
<1>2. \A i \in 1..l : ~Answers(i, n)
  BY <1>1
<1>3. \A id : ~LiveAs(n, id)
  BY <1>1 DEF Asked, LiveAs
<1>4. \A i \in 1..(l + 1) : \A id : ~CreatedBy(i, n, id)
  BY <1>2 DEF CreatedBy, Answers
<1>5. ~CanceledBy(j, n)
  <2>1. ASSUME NEW i \in 1..(j - 1), out[i].kind = "canceled", out[i].n = n PROVE FALSE
    <3>1. i \in 1..l /\ i \in 1..(l + 1)
      OBVIOUS
    <3>2. out[i].id \in WatchIds /\ Concerns(i, n, out[i].id)
      BY <2>1, <3>1, OutFields DEF Concerns
    <3>3. LiveAt(i, n, out[i].id)
      <4>1. \A h \in 1..Len(out), m \in Nat, w \in WatchIds : Concerns(h, m, w) => LiveAt(h, m, w)
        BY DEF IdsInv
      <4> QED
        BY <3>1, <3>2, <4>1
    <3> QED
      BY <1>3, <1>4, <3>1, <3>3 DEF LiveAt
  <2> QED
    BY <2>1 DEF CanceledBy
<1> QED
  BY <1>3, <1>4, <1>5 DEF LiveAt

(* Only watches that were asked for are live. *)
LEMMA LiveIsAWatch ==
    ASSUME RestOK, AnswersInv, NEW l \in Nat, l = Len(out), NEW j \in 1..(l + 1),
           NEW n \in Nat, NEW id, LiveAt(j, n, id)
    PROVE  n # 0
<1>1. CASE LiveAs(n, id)
  BY <1>1 DEF LiveAs
<1>2. CASE CreatedBy(j, n, id)
  <2>1. PICK i \in 1..l : Answers(i, n)
    BY <1>2 DEF CreatedBy, Answers
  <2> QED
    BY <2>1 DEF AnswersInv, Asked
<1> QED
  BY <1>1, <1>2 DEF LiveAt

(* The places in the book before the last response are as they were. *)
LEMMA EarlierPlaces ==
    ASSUME RestOK, IdsInv, SeenInv, NEW resp \in Responses, Reply(resp), view' = view,
           NEW l \in Nat, l = Len(out)
    PROVE  /\ \A i \in 1..l, n \in Nat, id \in WatchIds : Concerns(i, n, id)' => LiveAt(i, n, id)'
           /\ \A j \in 1..(l + 1), id \in WatchIds, n, m \in Nat :
                 LiveAt(j, n, id)' /\ LiveAt(j, m, id)' => n = m
           /\ \A i \in 1..l, n \in Nat, rev \in Int : Shows(i, n, rev + 1)' => SeenAt(i, n, rev)'
<1>1. /\ \A i \in 1..l : out'[i] = out[i] /\ i \in 1..(l + 1)
      /\ \A j \in 1..(l + 1) : \A n, id : LiveAt(j, n, id)' <=> LiveAt(j, n, id)
      /\ \A j \in 1..(l + 1) : \A n, rev : SeenAt(j, n, rev) => SeenAt(j, n, rev)'
  <2>1. \A i \in 1..l : out'[i] = out[i]
    BY ReplyFacts
  <2>2. \A j \in 1..(l + 1) : \A n, id : LiveAt(j, n, id)' <=> LiveAt(j, n, id)
    BY ReplyFacts
  <2>3. \A j \in 1..(l + 1) : \A n, rev : SeenAt(j, n, rev) => SeenAt(j, n, rev)'
    BY ReplyFacts
  <2> QED
    BY <2>1, <2>2, <2>3
<1>2. \A i \in 1..l, n \in Nat, id \in WatchIds : Concerns(i, n, id)' => LiveAt(i, n, id)'
  <2>1. \A i \in 1..l : \A n, id : Concerns(i, n, id)' <=> Concerns(i, n, id)
    BY <1>1 DEF Concerns
  <2> QED
    BY <1>1, <2>1 DEF IdsInv
<1>3. \A j \in 1..(l + 1), id \in WatchIds, n, m \in Nat :
         LiveAt(j, n, id)' /\ LiveAt(j, m, id)' => n = m
  BY <1>1 DEF IdsInv
<1>4. \A i \in 1..l, n \in Nat, rev \in Int : Shows(i, n, rev + 1)' => SeenAt(i, n, rev)'
  <2>1. \A i \in 1..l : \A n, rev : Shows(i, n, rev)' <=> Shows(i, n, rev)
    BY <1>1 DEF Shows
  <2> QED
    BY <1>1, <2>1 DEF SeenInv
<1> QED
  BY <1>2, <1>3, <1>4

(* What a reply leaves to show of the ids. *)
LEMMA IdsOfReply ==
    ASSUME RestOK, IdsInv, SeenInv, NEW resp \in Responses, Reply(resp), view' = view,
           NEW l \in Nat, l = Len(out),
           \A n \in Nat, id \in WatchIds : resp.kind \in {"canceled", "event"}
               /\ resp.n = n /\ resp.id = id => \A j \in {l + 1} : LiveAt(j, n, id),
           \A k \in {l + 2}, id \in WatchIds, n, m \in Nat :
               LiveAt(k, n, id)' /\ LiveAt(k, m, id)' => n = m,
           \A k \in {l + 2}, id \in WatchIds, n \in Nat \ {0} :
               LiveAt(k, n, id)' <=> watchers'[id].n = n,
           \A id, other \in WatchIds :
               watchers'[id].n = watchers'[other].n /\ watchers'[id].n # 0 => id = other
    PROVE  IdsInv'
<1>1. Len(out') = l + 1 /\ out'[l + 1] = resp
  BY ReplyFacts
<1>2. ASSUME NEW i \in 1..Len(out'), NEW n \in Nat, NEW id \in WatchIds, Concerns(i, n, id)'
      PROVE  LiveAt(i, n, id)'
  <2>1. CASE i \in 1..l
    BY <1>2, <2>1, EarlierPlaces
  <2>2. CASE i = l + 1
    <3>1. i \in {l + 1} /\ i \in 1..(l + 1)
      BY <2>2
    <3>2. LiveAt(i, n, id)
      BY <1>1, <1>2, <2>2, <3>1 DEF Concerns
    <3> QED
      BY <3>1, <3>2, ReplyFacts
  <2> QED
    BY <1>1, <2>1, <2>2
<1>3. ASSUME NEW j \in 1..(Len(out') + 1), NEW id \in WatchIds, NEW n \in Nat, NEW m \in Nat,
             LiveAt(j, n, id)', LiveAt(j, m, id)'
      PROVE  n = m
  <2>1. CASE j \in 1..(l + 1)
    BY <1>3, <2>1, EarlierPlaces
  <2>2. j \in 1..(l + 1) \/ j \in {l + 2}
    BY <1>1
  <2> QED
    BY <1>3, <2>1, <2>2
<1>4. \A j \in {Len(out') + 1}, id \in WatchIds, n \in Nat \ {0} :
         LiveAt(j, n, id)' <=> watchers'[id].n = n
  <2>1. {Len(out') + 1} = {l + 2}
    BY <1>1
  <2> QED
    BY <2>1
<1> QED
  BY <1>2, <1>3, <1>4 DEF IdsInv

(* ... and of the revisions. *)
LEMMA SeenOfReply ==
    ASSUME RestOK, IdsInv, SeenInv, NEW resp \in Responses, Reply(resp), view' = view,
           NEW l \in Nat, l = Len(out),
           \A n \in Nat, rev \in Int : resp.kind = "event" /\ resp.n = n /\ resp.rev = rev + 1
               => \A j \in {l + 1} : SeenAt(j, n, rev),
           \A k \in {l + 2}, id \in WatchIds, n \in Nat \ {0}, rev \in Int :
               watchers'[id].n = n /\ watchers'[id].next = rev + 1 => SeenAt(k, n, rev)'
    PROVE  SeenInv'
<1>1. Len(out') = l + 1 /\ out'[l + 1] = resp
  BY ReplyFacts
<1>2. ASSUME NEW i \in 1..Len(out'), NEW n \in Nat, NEW rev \in Int, Shows(i, n, rev + 1)'
      PROVE  SeenAt(i, n, rev)'
  <2>1. CASE i \in 1..l
    BY <1>2, <2>1, EarlierPlaces
  <2>2. CASE i = l + 1
    <3>1. i \in {l + 1} /\ i \in 1..(l + 1)
      BY <2>2
    <3>2. SeenAt(i, n, rev)
      BY <1>1, <1>2, <2>2, <3>1 DEF Shows
    <3> QED
      BY <3>1, <3>2, ReplyFacts
  <2> QED
    BY <1>1, <2>1, <2>2
<1>3. {Len(out') + 1} = {l + 2}
  BY <1>1
<1> QED
  BY <1>2, <1>3 DEF SeenInv

(* A watcher is made under an unused id. *)
LEMMA CreatedKeeps ==
    ASSUME RestOK, AnswersInv, PendingInv, IdsInv, SeenInv, Going, view' = view,
           NEW k \in Pending, NEW n \in 1..MaxWatches, Creates(k, n),
           NEW id \in WatchIds, id \notin Watched, NEW next \in 1..(MaxRevision + 1),
           Response("created", n, id, next - 1) \in Responses,
           Reply(Response("created", n, id, next - 1)),
           watchers' = [watchers EXCEPT ![id] = [n |-> n, next |-> next]]
    PROVE  IdsInv' /\ SeenInv'
<1>1. PICK l \in Nat : l = Len(out)
  BY OutFields
<1>2. PICK resp \in Responses : resp = Response("created", n, id, next - 1)
  OBVIOUS
<1>3. /\ resp.kind = "created" /\ resp.n = n /\ resp.id = id /\ resp.rev = next - 1
      /\ Reply(resp) /\ n \in Nat \ {0}
  BY <1>2, WatchAssumption DEF Response
<1>4. /\ \A w \in WatchIds : watchers'[w] = IF w = id THEN [n |-> n, next |-> next] ELSE watchers[w]
      /\ watchers[id].n = 0
  BY DEF RestOK, Watched, NoWatcher
<1>5. ASSUME NEW j \in (l + 1)..(l + 1)
      PROVE  /\ j \in 1..(l + 1)
             /\ \A w \in WatchIds, m \in Nat \ {0} : LiveAt(j, m, w) <=> watchers[w].n = m
             /\ \A w \in WatchIds : ~LiveAs(n, w) /\ ~CreatedBy(j, n, w)
             /\ ~CanceledBy(j, n)
             /\ \A w \in WatchIds, m \in Nat : LiveAt(j, m, w) => m # 0
  <2>1. j \in 1..(l + 1) /\ j \in {Len(out) + 1}
    BY <1>1
  <2>2. \A w \in WatchIds, m \in Nat \ {0} : LiveAt(j, m, w) <=> watchers[w].n = m
    BY <2>1 DEF IdsInv
  <2>3. (\A w \in WatchIds : ~LiveAs(n, w) /\ ~CreatedBy(j, n, w)) /\ ~CanceledBy(j, n)
    BY <1>1, <1>3, <2>1, NothingYet
  <2>4. \A w \in WatchIds, m \in Nat : LiveAt(j, m, w) => m # 0
    BY <1>1, <2>1, LiveIsAWatch
  <2> QED
    BY <2>1, <2>2, <2>3, <2>4
<1>6. \A w \in WatchIds : watchers[w].n # n
  <2>1. PICK j \in (l + 1)..(l + 1) : TRUE
    OBVIOUS
  <2> QED
    BY <1>3, <1>5, <2>1 DEF LiveAt
<1>7. ASSUME NEW p \in (l + 2)..(l + 2), NEW w \in WatchIds, NEW m \in Nat
      PROVE  /\ LiveAt(p, m, w)' <=> IF w = id THEN m = n ELSE m # 0 /\ watchers[w].n = m
  <2>1. PICK j \in (l + 1)..(l + 1) : TRUE
    OBVIOUS
  <2>2. LiveAt(p, m, w)' <=>
           /\ LiveAs(m, w) \/ CreatedBy(j, m, w) \/ (resp.kind = "created" /\ resp.n = m /\ resp.id = w)
           /\ ~CanceledBy(j, m) /\ ~(resp.kind = "canceled" /\ resp.n = m)
    BY <1>1, <1>3, LastIds
  <2>3. LiveAt(p, m, w)' <=> LiveAt(j, m, w) \/ (m = n /\ w = id)
    <3>1. PICK after \in BOOLEAN : after <=> LiveAt(p, m, w)'
      OBVIOUS
    <3>2. after <=> (LiveAs(m, w) \/ CreatedBy(j, m, w) \/ (n = m /\ id = w)) /\ ~CanceledBy(j, m)
      BY <1>3, <2>2, <3>1
    <3>3. LiveAt(j, m, w) <=> (LiveAs(m, w) \/ CreatedBy(j, m, w)) /\ ~CanceledBy(j, m)
      BY DEF LiveAt
    <3>4. after <=> LiveAt(j, m, w) \/ (m = n /\ w = id)
      BY <1>5, <3>2, <3>3
    <3> QED
      BY <3>1, <3>4
  <2>4. LiveAt(j, m, w) <=> m # 0 /\ watchers[w].n = m
    BY <1>5
  <2>5. CASE w = id
    BY <1>4, <2>3, <2>4, <2>5
  <2>6. CASE w # id
    BY <2>3, <2>4, <2>6
  <2> QED
    BY <2>5, <2>6
<1>8. IdsInv'
  <2>1. \A w \in WatchIds, m \in Nat : resp.kind \in {"canceled", "event"}
               /\ resp.n = m /\ resp.id = w => \A j \in {l + 1} : LiveAt(j, m, w)
    BY <1>3
  <2>2. \A p \in {l + 2}, w \in WatchIds, a, b \in Nat :
               LiveAt(p, a, w)' /\ LiveAt(p, b, w)' => a = b
    BY <1>7
  <2>3. \A p \in {l + 2}, w \in WatchIds, m \in Nat \ {0} :
               LiveAt(p, m, w)' <=> watchers'[w].n = m
    BY <1>3, <1>4, <1>7
  <2>4. \A w, other \in WatchIds :
               watchers'[w].n = watchers'[other].n /\ watchers'[w].n # 0 => w = other
    <3>1. \A w, other \in WatchIds :
               watchers[w].n = watchers[other].n /\ watchers[w].n # 0 => w = other
      BY DEF IdsInv
    <3> QED
      BY <1>4, <1>6, <3>1
  <2> QED
    BY <1>1, <1>3, <2>1, <2>2, <2>3, <2>4, IdsOfReply
<1>9. SeenInv'
  <2>1. ASSUME NEW p \in (l + 2)..(l + 2), NEW w \in WatchIds, NEW m \in Nat \ {0}, NEW rev \in Int,
               watchers'[w].n = m, watchers'[w].next = rev + 1
        PROVE  SeenAt(p, m, rev)'
    <3>1. PICK j \in (l + 1)..(l + 1) : TRUE
      OBVIOUS
    <3>2. /\ resp.n = m /\ resp.rev = rev => SeenAt(p, m, rev)'
          /\ resp.n # m /\ SeenAt(j, m, rev) => SeenAt(p, m, rev)'
      BY <1>1, <1>3, LastSeen
    <3>3. CASE w = id
      <4>1. m = n /\ next = rev + 1
        BY <1>4, <2>1, <3>3
      <4>2. resp.rev = rev
        BY <1>3, <4>1
      <4> QED
        BY <1>3, <3>2, <4>1, <4>2
    <3>4. CASE w # id
      <4>1. watchers[w].n = m /\ watchers[w].next = rev + 1 /\ m # n
        BY <1>4, <1>6, <2>1, <3>4
      <4>2. SeenAt(j, m, rev)
        BY <1>1, <4>1 DEF SeenInv
      <4> QED
        BY <1>3, <3>2, <4>1, <4>2
    <3> QED
      BY <3>3, <3>4
  <2>2. \A m \in Nat, rev \in Int : resp.kind = "event" /\ resp.n = m /\ resp.rev = rev + 1
               => \A j \in {l + 1} : SeenAt(j, m, rev)
    BY <1>3
  <2> QED
    BY <1>1, <1>3, <2>1, <2>2, SeenOfReply
<1> QED
  BY <1>8, <1>9

(* A refused creation, and progress, leave ids and revisions alone. *)
LEMMA OthersKeep ==
    ASSUME RestOK, AnswersInv, IdsInv, SeenInv, Going, view' = view, watchers' = watchers,
           NEW resp \in Responses, resp.kind \in {"refused", "progress"}, Reply(resp)
    PROVE  IdsInv' /\ SeenInv'
<1>1. PICK l \in Nat : l = Len(out)
  BY OutFields
<1>2. PICK j \in (l + 1)..(l + 1) : j \in 1..(l + 1) /\ j \in {Len(out) + 1}
  BY <1>1
<1>3. ASSUME NEW p \in (l + 2)..(l + 2), NEW w \in WatchIds, NEW m \in Nat
      PROVE  LiveAt(p, m, w)' <=> m # 0 /\ watchers[w].n = m
  <2>1. LiveAt(p, m, w)' <=> LiveAt(j, m, w)
    BY <1>1, LastIds DEF LiveAt
  <2>2. LiveAt(j, m, w) => m # 0
    BY <1>1, <1>2, LiveIsAWatch
  <2>3. m # 0 => (LiveAt(j, m, w) <=> watchers[w].n = m)
    BY <1>2 DEF IdsInv
  <2> QED
    BY <2>1, <2>2, <2>3
<1>4. IdsInv'
  <2>1. \A w \in WatchIds, m \in Nat : resp.kind \in {"canceled", "event"}
               /\ resp.n = m /\ resp.id = w => \A i \in {l + 1} : LiveAt(i, m, w)
    OBVIOUS
  <2>2. \A p \in {l + 2}, w \in WatchIds, a, b \in Nat :
               LiveAt(p, a, w)' /\ LiveAt(p, b, w)' => a = b
    BY <1>3
  <2>3. \A p \in {l + 2}, w \in WatchIds, m \in Nat \ {0} :
               LiveAt(p, m, w)' <=> watchers'[w].n = m
    BY <1>3
  <2>4. \A w, other \in WatchIds :
               watchers'[w].n = watchers'[other].n /\ watchers'[w].n # 0 => w = other
    BY DEF IdsInv
  <2> QED
    BY <1>1, <2>1, <2>2, <2>3, <2>4, IdsOfReply
<1>5. SeenInv'
  <2>1. ASSUME NEW p \in (l + 2)..(l + 2), NEW w \in WatchIds, NEW m \in Nat \ {0}, NEW rev \in Int,
               watchers'[w].n = m, watchers'[w].next = rev + 1
        PROVE  SeenAt(p, m, rev)'
    <3>1. SeenAt(j, m, rev)
      BY <1>2, <2>1 DEF SeenInv
    <3> QED
      BY <1>1, <3>1, LastSeen
  <2>2. \A m \in Nat, rev \in Int : resp.kind = "event" /\ resp.n = m /\ resp.rev = rev + 1
               => \A i \in {l + 1} : SeenAt(i, m, rev)
    OBVIOUS
  <2> QED
    BY <1>1, <2>1, <2>2, SeenOfReply
<1> QED
  BY <1>4, <1>5

(* A watcher is cancelled, by request or by the server. *)
LEMMA CanceledKeeps ==
    ASSUME RestOK, AnswersInv, IdsInv, SeenInv, Going, view' = view,
           NEW id \in Watched, CancelWatcher(id)
    PROVE  IdsInv' /\ SeenInv'
<1>1. PICK l \in Nat : l = Len(out)
  BY OutFields
<1>2. PICK n \in 1..MaxWatches : n = watchers[id].n
  BY WatchedIsWatcher
<1>3. PICK resp \in Responses : resp = Response("canceled", n, id, 0)
  <2>1. Response("canceled", watchers[id].n, id, 0) \in Responses
    BY WatchAssumption, WatchedIsWatcher DEF Response, Responses
  <2> QED
    BY <1>2, <2>1
<1>4. /\ resp.kind = "canceled" /\ resp.n = n /\ resp.id = id /\ Reply(resp)
      /\ n \in Nat \ {0} /\ id \in WatchIds
  BY <1>2, <1>3, WatchAssumption, WatchedIsWatcher DEF Response, CancelWatcher
<1>5. \A w \in WatchIds : watchers'[w] = IF w = id THEN NoWatcher ELSE watchers[w]
  BY DEF RestOK, CancelWatcher
<1>6. PICK j \in (l + 1)..(l + 1) : j \in 1..(l + 1) /\ j \in {Len(out) + 1}
  BY <1>1
<1>7. /\ \A w \in WatchIds, m \in Nat \ {0} : LiveAt(j, m, w) <=> watchers[w].n = m
      /\ \A w \in WatchIds, m \in Nat : LiveAt(j, m, w) => m # 0
      /\ \A w, other \in WatchIds :
            watchers[w].n = watchers[other].n /\ watchers[w].n # 0 => w = other
  <2>1. \A w \in WatchIds, m \in Nat \ {0} : LiveAt(j, m, w) <=> watchers[w].n = m
    BY <1>6 DEF IdsInv
  <2>2. \A w \in WatchIds, m \in Nat : LiveAt(j, m, w) => m # 0
    BY <1>1, <1>6, LiveIsAWatch
  <2>3. \A w, other \in WatchIds :
            watchers[w].n = watchers[other].n /\ watchers[w].n # 0 => w = other
    BY DEF IdsInv
  <2> QED
    BY <2>1, <2>2, <2>3
<1>8. ASSUME NEW p \in (l + 2)..(l + 2), NEW w \in WatchIds, NEW m \in Nat
      PROVE  LiveAt(p, m, w)' <=> m # 0 /\ w # id /\ watchers[w].n = m
  <2>1. LiveAt(p, m, w)' <=> LiveAt(j, m, w) /\ m # n
    BY <1>1, <1>4, LastIds DEF LiveAt
  <2>2. LiveAt(j, m, w) <=> m # 0 /\ watchers[w].n = m
    BY <1>7
  <2>3. m # 0 /\ watchers[w].n = m => (m # n <=> w # id)
    BY <1>2, <1>4, <1>7
  <2> QED
    BY <2>1, <2>2, <2>3
<1>9. IdsInv'
  <2>1. ASSUME NEW w \in WatchIds, NEW m \in Nat, resp.kind \in {"canceled", "event"},
               resp.n = m, resp.id = w, NEW i \in {l + 1}
        PROVE  LiveAt(i, m, w)
    <3>1. i = j /\ m = n /\ w = id
      BY <1>4, <2>1
    <3>2. LiveAt(j, n, id) <=> watchers[id].n = n
      BY <1>4, <1>7
    <3> QED
      BY <1>2, <3>1, <3>2
  <2>2. \A p \in {l + 2}, w \in WatchIds, a, b \in Nat :
               LiveAt(p, a, w)' /\ LiveAt(p, b, w)' => a = b
    BY <1>8
  <2>3. \A p \in {l + 2}, w \in WatchIds, m \in Nat \ {0} :
               LiveAt(p, m, w)' <=> watchers'[w].n = m
    BY <1>5, <1>8 DEF NoWatcher
  <2>4. \A w, other \in WatchIds :
               watchers'[w].n = watchers'[other].n /\ watchers'[w].n # 0 => w = other
    BY <1>5, <1>7 DEF NoWatcher
  <2> QED
    BY <1>1, <1>4, <2>1, <2>2, <2>3, <2>4, IdsOfReply
<1>10. SeenInv'
  <2>1. ASSUME NEW p \in (l + 2)..(l + 2), NEW w \in WatchIds, NEW m \in Nat \ {0}, NEW rev \in Int,
               watchers'[w].n = m, watchers'[w].next = rev + 1
        PROVE  SeenAt(p, m, rev)'
    <3>1. w # id /\ watchers[w].n = m /\ watchers[w].next = rev + 1
      BY <1>5, <2>1 DEF NoWatcher
    <3>2. SeenAt(j, m, rev)
      BY <1>6, <3>1 DEF SeenInv
    <3> QED
      BY <1>1, <1>4, <3>2, LastSeen
  <2>2. \A m \in Nat, rev \in Int : resp.kind = "event" /\ resp.n = m /\ resp.rev = rev + 1
               => \A i \in {l + 1} : SeenAt(i, m, rev)
    BY <1>4
  <2> QED
    BY <1>1, <1>4, <2>1, <2>2, SeenOfReply
<1> QED
  BY <1>9, <1>10

(* A watcher's next event is sent. *)
LEMMA EmittedKeeps ==
    ASSUME RestOK, AnswersInv, IdsInv, SeenInv, Going, NEW id \in WatchIds, Emit(id)
    PROVE  IdsInv' /\ SeenInv'
<1>1. PICK l \in Nat : l = Len(out)
  BY OutFields
<1>2. PICK n \in 1..MaxWatches, next \in 1..MaxRevision :
         n = watchers[id].n /\ next = watchers[id].next /\ watchers[id] \in Watcher
  <2>1. id \in Watched /\ watchers[id].next <= revision /\ revision \in 1..MaxRevision
    BY DEF Emit, RestOK
  <2>2. /\ watchers[id].n \in 1..MaxWatches /\ watchers[id].next \in 1..(MaxRevision + 1)
        /\ watchers[id] \in Watcher
    BY <2>1, WatchedIsWatcher
  <2>3. watchers[id].next \in 1..MaxRevision
    BY <2>1, <2>2, WatchAssumption
  <2> QED
    BY <2>2, <2>3
<1>3. PICK resp \in Responses : resp = Response("event", n, id, next)
  <2>1. Response("event", n, id, next) \in Responses
    BY <1>2, WatchAssumption DEF Response, Responses
  <2> QED
    BY <2>1
<1>4. /\ resp.kind = "event" /\ resp.n = n /\ resp.id = id /\ resp.rev = next /\ Reply(resp)
      /\ n \in Nat \ {0} /\ next \in Int /\ view' = view
  BY <1>2, <1>3, WatchAssumption DEF Response, Emit
<1>5. \A w \in WatchIds : /\ watchers'[w].n = watchers[w].n
                          /\ watchers'[w].next = IF w = id THEN next + 1 ELSE watchers[w].next
  BY <1>2 DEF RestOK, Emit, Watcher
<1>6. PICK j \in (l + 1)..(l + 1) : j \in 1..(l + 1) /\ j \in {Len(out) + 1}
  BY <1>1
<1>7. /\ \A w \in WatchIds, m \in Nat \ {0} : LiveAt(j, m, w) <=> watchers[w].n = m
      /\ \A w \in WatchIds, m \in Nat : LiveAt(j, m, w) => m # 0
      /\ \A w, other \in WatchIds :
            watchers[w].n = watchers[other].n /\ watchers[w].n # 0 => w = other
  <2>1. \A w \in WatchIds, m \in Nat \ {0} : LiveAt(j, m, w) <=> watchers[w].n = m
    BY <1>6 DEF IdsInv
  <2>2. \A w \in WatchIds, m \in Nat : LiveAt(j, m, w) => m # 0
    BY <1>1, <1>6, LiveIsAWatch
  <2>3. \A w, other \in WatchIds :
            watchers[w].n = watchers[other].n /\ watchers[w].n # 0 => w = other
    BY DEF IdsInv
  <2> QED
    BY <2>1, <2>2, <2>3
<1>8. ASSUME NEW p \in (l + 2)..(l + 2), NEW w \in WatchIds, NEW m \in Nat
      PROVE  LiveAt(p, m, w)' <=> m # 0 /\ watchers[w].n = m
  <2>1. LiveAt(p, m, w)' <=> LiveAt(j, m, w)
    BY <1>1, <1>4, LastIds DEF LiveAt
  <2> QED
    BY <1>7, <2>1
<1>9. IdsInv'
  <2>1. ASSUME NEW w \in WatchIds, NEW m \in Nat, resp.kind \in {"canceled", "event"},
               resp.n = m, resp.id = w, NEW i \in {l + 1}
        PROVE  LiveAt(i, m, w)
    <3>1. i = j /\ m = n /\ w = id
      BY <1>4, <2>1
    <3>2. LiveAt(j, n, id) <=> watchers[id].n = n
      BY <1>4, <1>7
    <3> QED
      BY <1>2, <3>1, <3>2
  <2>2. \A p \in {l + 2}, w \in WatchIds, a, b \in Nat :
               LiveAt(p, a, w)' /\ LiveAt(p, b, w)' => a = b
    BY <1>8
  <2>3. \A p \in {l + 2}, w \in WatchIds, m \in Nat \ {0} :
               LiveAt(p, m, w)' <=> watchers'[w].n = m
    BY <1>5, <1>8
  <2>4. \A w, other \in WatchIds :
               watchers'[w].n = watchers'[other].n /\ watchers'[w].n # 0 => w = other
    BY <1>5, <1>7
  <2> QED
    BY <1>1, <1>4, <2>1, <2>2, <2>3, <2>4, IdsOfReply
<1>10. SeenInv'
  <2>1. ASSUME NEW p \in (l + 2)..(l + 2), NEW w \in WatchIds, NEW m \in Nat \ {0}, NEW rev \in Int,
               watchers'[w].n = m, watchers'[w].next = rev + 1
        PROVE  SeenAt(p, m, rev)'
    <3>1. CASE w = id
      <4>1. m = n /\ resp.rev = rev
        BY <1>2, <1>4, <1>5, <2>1, <3>1
      <4> QED
        BY <1>1, <1>4, <4>1, LastSeen
    <3>2. CASE w # id
      <4>1. m # n /\ watchers[w].n = m /\ watchers[w].next = rev + 1
        BY <1>2, <1>4, <1>5, <1>7, <2>1, <3>2
      <4>2. SeenAt(j, m, rev)
        BY <1>6, <4>1 DEF SeenInv
      <4> QED
        BY <1>1, <1>4, <4>1, <4>2, LastSeen
    <3> QED
      BY <3>1, <3>2
  <2>2. \A m \in Nat, rev \in Int : resp.kind = "event" /\ resp.n = m /\ resp.rev = rev + 1
               => \A i \in {l + 1} : SeenAt(i, m, rev)
    <3>1. ASSUME NEW m \in Nat, NEW rev \in Int, resp.n = m, resp.rev = rev + 1, NEW i \in {l + 1}
          PROVE  SeenAt(i, m, rev)
      <4>1. m = n /\ m \in Nat \ {0} /\ watchers[id].n = m /\ watchers[id].next = rev + 1
        BY <1>2, <1>4, <3>1
      <4> QED
        BY <1>1, <3>1, <4>1 DEF SeenInv
    <3> QED
      BY <3>1
  <2>3. \A p \in {l + 2}, w \in WatchIds, m \in Nat \ {0}, rev \in Int :
               watchers'[w].n = m /\ watchers'[w].next = rev + 1 => SeenAt(p, m, rev)'
    BY <2>1
  <2>4. Reply(resp) /\ view' = view
    BY <1>4
  <2> QED
    BY <1>1, <2>2, <2>3, <2>4, SeenOfReply
<1> QED
  BY <1>9, <1>10

----------------------------------------------------------------------------
(* The first pending creation is answered. *)
LEMMA CreationAnswered ==
    ASSUME RestOK, AnswersInv, PendingInv, Going, view' = view, sent' = sent, sending' = sending,
           NEW first \in Pending, NEW n \in 1..MaxWatches, Creates(first, n),
           \A k \in Pending : first <= k, \A k : k \in Pending' <=> k \in Pending /\ k # first,
           NEW resp \in Responses, resp.kind \in {"created", "refused"}, resp.n = n, Reply(resp)
    PROVE  AnswersInv' /\ PendingInv'
<1>1. PICK l \in Nat : l = Len(out)
  BY OutFields
<1>2. PICK last \in Nat : last = l + 1
  OBVIOUS
<1>3. /\ Len(out') = last /\ out'[last] = resp /\ \A i \in 1..l : out'[i] = out[i]
      /\ \A m : Asked(m)' <=> Asked(m)
      /\ n \in Nat
  BY <1>1, <1>2, ReplyFacts, WatchAssumption
<1>4. /\ \A i \in 1..l : \A m : Answers(i, m)' <=> Answers(i, m)
      /\ \A m : Answers(last, m)' <=> m = n
      /\ \A k : \A m : Creates(k, m)' <=> Creates(k, m)
      /\ \A m : Creates(first, m) <=> m = n
  BY <1>3 DEF Answers, Creates
<1>5. /\ \A k \in Pending, m \in Nat : Creates(k, m) =>
              /\ Asked(m)
              /\ \A i \in 1..l, a \in Nat : Answers(i, a) => a < m
              /\ \A p \in Pending, a \in Nat : p < k /\ Creates(p, a) => a < m
              /\ \A a \in Nat : a < m /\ Asked(a) =>
                    \/ \E i \in 1..l : Answers(i, a)
                    \/ \E p \in Pending : p < k /\ Creates(p, a)
      /\ \A a \in Nat : Asked(a) =>
              \/ \E i \in 1..l : Answers(i, a)
              \/ \E k \in Pending : Creates(k, a)
      /\ sending # NoRequest /\ sending.op = "create" => sending.n = Len(view) + 1
  BY <1>1 DEF PendingInv
<1>6. \A k \in Pending : k \in Int /\ ~(k < first) /\ (k # first => first < k)
  BY DEF Pending
<1>7. /\ \A i \in 1..last : i \in 1..l \/ i = last
      /\ \A i \in 1..l : i \in 1..last
      /\ last \in 1..last /\ \A i \in 1..l : 1..(i - 1) \subseteq 1..l
      /\ 1..(last - 1) = 1..l
  BY <1>2
<1>8. AnswersInv'
  <2>1. ASSUME NEW i \in 1..last PROVE out'[i].kind = "progress" => out'[i].n = 0
    BY <1>1, <1>3, <1>7 DEF AnswersInv
  <2>2. ASSUME NEW i \in 1..last, NEW m \in Nat, Answers(i, m)'
        PROVE  /\ Asked(m)
               /\ \A a \in Nat : a < m /\ Asked(a) => \E h \in 1..(i - 1) : Answers(h, a)'
               /\ \A h \in 1..(i - 1), a \in Nat : Answers(h, a)' => a < m
    <3>1. CASE i \in 1..l
      <4>1. /\ Asked(m)
            /\ \A a \in Nat : a < m /\ Asked(a) => \E h \in 1..(i - 1) : Answers(h, a)
            /\ \A h \in 1..(i - 1), a \in Nat : Answers(h, a) => a < m
        BY <1>1, <1>4, <2>2, <3>1 DEF AnswersInv
      <4>2. \A h \in 1..(i - 1) : \A a : Answers(h, a)' <=> Answers(h, a)
        BY <1>4, <1>7, <3>1
      <4> QED
        BY <4>1, <4>2
    <3>2. CASE i = last
      <4>1. m = n
        BY <1>4, <2>2, <3>2
      <4>2. /\ Asked(n)
            /\ \A a \in Nat : a < n /\ Asked(a) => \E h \in 1..l : Answers(h, a)
            /\ \A h \in 1..l, a \in Nat : Answers(h, a) => a < n
        BY <1>3, <1>4, <1>5, <1>6
      <4>3. \A h \in 1..l : \A a : Answers(h, a)' <=> Answers(h, a)
        BY <1>4
      <4> QED
        BY <1>7, <3>2, <4>1, <4>2, <4>3
    <3> QED
      BY <1>7, <3>1, <3>2
  <2> QED
    BY <1>3, <2>1, <2>2 DEF AnswersInv
<1>9. PendingInv'
  <2>1. ASSUME NEW k \in Pending', NEW m \in Nat, Creates(k, m)
        PROVE  /\ \A i \in 1..last, a \in Nat : Answers(i, a)' => a < m
               /\ \A p \in Pending', a \in Nat : p < k /\ Creates(p, a) => a < m
               /\ \A a \in Nat : a < m /\ Asked(a) =>
                     \/ \E i \in 1..last : Answers(i, a)'
                     \/ \E p \in Pending' : p < k /\ Creates(p, a)
    <3>1. k \in Pending /\ first < k
      BY <1>6
    <3>2. n < m
      BY <1>3, <1>4, <1>5, <2>1, <3>1
    <3>3. \A i \in 1..last, a \in Nat : Answers(i, a)' => a < m
      BY <1>4, <1>5, <1>7, <2>1, <3>1, <3>2
    <3>4. \A p \in Pending', a \in Nat : p < k /\ Creates(p, a) => a < m
      BY <1>5, <2>1, <3>1
    <3>5. ASSUME NEW a \in Nat, a < m, Asked(a)
          PROVE  \/ \E i \in 1..last : Answers(i, a)'
                 \/ \E p \in Pending' : p < k /\ Creates(p, a)
      <4>1. CASE a = n
        BY <1>4, <1>7, <4>1
      <4>2. CASE a # n
        BY <1>4, <1>5, <1>7, <2>1, <3>1, <3>5, <4>2
      <4> QED
        BY <4>1, <4>2
    <3> QED
      BY <3>3, <3>4, <3>5
  <2>2. ASSUME NEW a \in Nat, Asked(a)
        PROVE  \/ \E i \in 1..last : Answers(i, a)'
               \/ \E k \in Pending' : Creates(k, a)
    <3>1. CASE a = n
      BY <1>4, <1>7, <3>1
    <3>2. CASE a # n
      BY <1>4, <1>5, <1>7, <2>2, <3>2
    <3> QED
      BY <3>1, <3>2
  <2>3. \A k \in Pending', m \in Nat : Creates(k, m)' => Asked(m)'
    BY <1>3, <1>4, <1>5
  <2> QED
    BY <1>3, <1>4, <1>5, <2>1, <2>2, <2>3 DEF PendingInv
<1> QED
  BY <1>8, <1>9

(* No answer to a creation is added, and no creation goes. *)
LEMMA NoneAnswered ==
    ASSUME RestOK, AnswersInv, PendingInv, view' = view, sent' = sent, sending' = sending,
           Going' => Going, NEW l \in Nat, l = Len(out), NEW last \in l..(l + 1), Len(out') = last,
           \A i \in 1..l : out'[i] = out[i],
           \A i \in (l + 1)..last : /\ out'[i].kind \notin {"created", "refused"}
                                    /\ out'[i].kind = "progress" => out'[i].n = 0,
           \A k : k \in Pending' => k \in Pending,
           \A k \in Pending : k \in Pending' \/ sent[k].op # "create"
    PROVE  AnswersInv' /\ PendingInv'
<1>1. /\ \A i \in 1..last : i \in 1..l \/ i \in (l + 1)..last
      /\ \A i \in 1..l : i \in 1..last /\ 1..(i - 1) \subseteq 1..l
  OBVIOUS
<1>2. /\ \A i \in 1..l : \A n : Answers(i, n)' <=> Answers(i, n)
      /\ \A i \in (l + 1)..last : \A n : ~Answers(i, n)'
      /\ \A k, n : Creates(k, n)' <=> Creates(k, n)
      /\ \A n : Asked(n)' <=> Asked(n)
  BY DEF Answers, Creates, Asked
<1>3. AnswersInv'
  <2>1. ASSUME NEW i \in 1..last PROVE out'[i].kind = "progress" => out'[i].n = 0
    BY <1>1 DEF AnswersInv
  <2>2. ASSUME NEW i \in 1..last, NEW n \in Nat, Answers(i, n)'
        PROVE  /\ Asked(n)
               /\ \A m \in Nat : m < n /\ Asked(m) => \E h \in 1..(i - 1) : Answers(h, m)'
               /\ \A h \in 1..(i - 1), m \in Nat : Answers(h, m)' => m < n
    <3>1. i \in 1..l
      BY <1>1, <1>2, <2>2
    <3>2. /\ Asked(n)
          /\ \A m \in Nat : m < n /\ Asked(m) => \E h \in 1..(i - 1) : Answers(h, m)
          /\ \A h \in 1..(i - 1), m \in Nat : Answers(h, m) => m < n
      BY <1>2, <2>2, <3>1 DEF AnswersInv
    <3>3. \A h \in 1..(i - 1) : \A a : Answers(h, a)' <=> Answers(h, a)
      BY <1>1, <1>2, <3>1
    <3> QED
      BY <3>2, <3>3
  <2> QED
    BY <1>2, <2>1, <2>2 DEF AnswersInv
<1>4. PendingInv'
  <2>1. SUFFICES ASSUME Going' PROVE PendingInv'
    BY DEF PendingInv
  <2>2. /\ \A k \in Pending, m \in Nat : Creates(k, m) =>
              /\ Asked(m)
              /\ \A i \in 1..l, a \in Nat : Answers(i, a) => a < m
              /\ \A p \in Pending, a \in Nat : p < k /\ Creates(p, a) => a < m
              /\ \A a \in Nat : a < m /\ Asked(a) =>
                    \/ \E i \in 1..l : Answers(i, a)
                    \/ \E p \in Pending : p < k /\ Creates(p, a)
        /\ \A a \in Nat : Asked(a) =>
              \/ \E i \in 1..l : Answers(i, a)
              \/ \E k \in Pending : Creates(k, a)
        /\ sending # NoRequest /\ sending.op = "create" => sending.n = Len(view) + 1
    BY <2>1 DEF PendingInv
  <2>3. \A k \in Pending : \A n : Creates(k, n) => k \in Pending'
    BY DEF Creates
  <2>4. \A i \in 1..last : \A n : Answers(i, n)' => i \in 1..l /\ Answers(i, n)
    BY <1>1, <1>2
  <2>5. \A i \in 1..l : \A n : Answers(i, n) => i \in 1..last /\ Answers(i, n)'
    BY <1>1, <1>2
  <2>6. ASSUME NEW k \in Pending', NEW m \in Nat, Creates(k, m)
        PROVE  /\ Asked(m)
               /\ \A i \in 1..last, a \in Nat : Answers(i, a)' => a < m
               /\ \A p \in Pending', a \in Nat : p < k /\ Creates(p, a) => a < m
               /\ \A a \in Nat : a < m /\ Asked(a) =>
                     \/ \E i \in 1..last : Answers(i, a)'
                     \/ \E p \in Pending' : p < k /\ Creates(p, a)
    <3>1. k \in Pending
      OBVIOUS
    <3>2. Asked(m)
      BY <2>2, <2>6, <3>1
    <3>3. \A i \in 1..last, a \in Nat : Answers(i, a)' => a < m
      BY <2>2, <2>4, <2>6, <3>1
    <3>4. \A p \in Pending', a \in Nat : p < k /\ Creates(p, a) => a < m
      BY <2>2, <2>6, <3>1
    <3>5. \A a \in Nat : a < m /\ Asked(a) =>
                     \/ \E i \in 1..last : Answers(i, a)'
                     \/ \E p \in Pending' : p < k /\ Creates(p, a)
      BY <2>2, <2>3, <2>5, <2>6, <3>1
    <3> QED
      BY <3>2, <3>3, <3>4, <3>5
  <2>7. \A a \in Nat : Asked(a) =>
              \/ \E i \in 1..last : Answers(i, a)'
              \/ \E k \in Pending' : Creates(k, a)
    BY <2>2, <2>3, <2>5
  <2> QED
    BY <1>2, <2>2, <2>6, <2>7 DEF PendingInv
<1> QED
  BY <1>3, <1>4

(* A reply that answers no creation. *)
LEMMA OtherReply ==
    ASSUME RestOK, AnswersInv, PendingInv, view' = view, sent' = sent, sending' = sending,
           Going' => Going, NEW resp \in Responses, Reply(resp),
           resp.kind \in {"canceled", "event"} \/ (resp.kind = "progress" /\ resp.n = 0),
           \A k : k \in Pending' => k \in Pending,
           \A k \in Pending : k \in Pending' \/ sent[k].op # "create"
    PROVE  AnswersInv' /\ PendingInv'
<1>1. PICK l \in Nat : l = Len(out)
  BY OutFields
<1>2. PICK last \in l..(l + 1) : last = l + 1
  OBVIOUS
<1>3. Len(out') = last /\ out'[last] = resp /\ \A i \in 1..l : out'[i] = out[i]
  BY <1>1, <1>2, ReplyFacts
<1>4. \A i \in (l + 1)..last : /\ out'[i].kind \notin {"created", "refused"}
                               /\ out'[i].kind = "progress" => out'[i].n = 0
  BY <1>2, <1>3
<1> QED
  BY <1>1, <1>3, <1>4, NoneAnswered

(* The server reads a request and does what it asks. *)
LEMMA BookHandle ==
    ASSUME BookInv, IInv, Handle
    PROVE  BookInv'
<1>1. AnswersInv /\ PendingInv /\ IdsInv /\ SeenInv /\ RestOK /\ StreamInv(Requests)
  BY DEF BookInv, IInv
<1>2. /\ Room /\ Receive /\ view' = view /\ revision' = revision
      /\ sent' = sent /\ sending' = sending /\ stream' = stream /\ Going /\ Fresh'
  BY DEF Handle, Receive, Live, Going, Fresh
<1>3. Going' => Going
  BY <1>2 DEF Going
<1>4. PICK first \in Pending :
         /\ Head(wire) = sent[first] /\ sent[first] \in Requests
         /\ \A k \in Pending : first <= k
         /\ \A k : k \in Pending' <=> k \in Pending /\ k # first
  BY <1>1, <1>2, NextRequest
<1>5. PICK req \in Requests : req = sent[first] /\ req = Head(wire)
  BY <1>4
<1>6. \/ req.op = "create" /\ Create(req)
      \/ req.op = "cancel" /\ req.id \in Watched /\ CancelWatcher(req.id)
      \/ req.op = "cancel" /\ req.id \notin Watched /\ UNCHANGED <<out, watchers>>
      \/ req.op = "progress" /\ Reply(Response("progress", 0, 0, 0)) /\ UNCHANGED watchers
  BY <1>5 DEF Handle
<1>7. ASSUME req.op # "create"
      PROVE  /\ \A k : k \in Pending' => k \in Pending
             /\ \A k \in Pending : k \in Pending' \/ sent[k].op # "create"
  BY <1>4, <1>5, <1>7
<1>8. CASE req.op = "create" /\ Create(req)
  <2>1. req.n \in 1..MaxWatches /\ req.id \in WatchIds /\ req.start \in Starts
    BY <1>8, RequestFields
  <2>2. PICK n \in 1..MaxWatches : n = req.n /\ Creates(first, n)
    BY <1>5, <1>8, <2>1 DEF Creates
  <2>3. ASSUME NEW resp \in Responses, Reply(resp), resp.kind \in {"created", "refused"}, resp.n = n
        PROVE  AnswersInv' /\ PendingInv'
    BY <1>1, <1>2, <1>4, <2>2, <2>3, CreationAnswered
  <2>4. ASSUME Reply(Response("refused", req.n, 0, 0)), watchers' = watchers
        PROVE  BookInv'
    <3>1. Response("refused", n, 0, 0) \in Responses
      BY WatchAssumption DEF Response, Responses
    <3>2. PICK resp \in Responses : resp = Response("refused", n, 0, 0)
      BY <3>1
    <3>3. Reply(resp) /\ resp.kind = "refused" /\ resp.n = n
      BY <2>2, <2>4, <3>2 DEF Response
    <3>4. AnswersInv' /\ PendingInv'
      BY <2>3, <3>3
    <3>5. IdsInv' /\ SeenInv'
      BY <1>1, <1>2, <2>4, <3>3, OthersKeep
    <3> QED
      BY <1>2, <3>4, <3>5 DEF BookInv
  <2>5. ASSUME NEW id \in WatchIds, NEW next \in 1..(MaxRevision + 1), id \notin Watched,
               watchers' = [watchers EXCEPT ![id] = [n |-> req.n, next |-> next]],
               Reply(Response("created", req.n, id, next - 1))
        PROVE  BookInv'
    <3>1. Response("created", n, id, next - 1) \in Responses
      BY WatchAssumption DEF Response, Responses
    <3>2. PICK resp \in Responses : resp = Response("created", n, id, next - 1)
      BY <3>1
    <3>3. Reply(resp) /\ resp.kind = "created" /\ resp.n = n
      BY <2>2, <2>5, <3>2 DEF Response
    <3>4. AnswersInv' /\ PendingInv'
      BY <2>3, <3>3
    <3>5. IdsInv' /\ SeenInv'
      <4>1. /\ Reply(Response("created", n, id, next - 1))
            /\ watchers' = [watchers EXCEPT ![id] = [n |-> n, next |-> next]]
        BY <2>2, <2>5
      <4> QED
        BY <1>1, <1>2, <2>2, <2>5, <3>1, <4>1, CreatedKeeps
    <3> QED
      BY <1>2, <3>4, <3>5 DEF BookInv
  <2>6. (IF req.start = 0 THEN revision + 1 ELSE req.start) \in 1..(MaxRevision + 1)
    <3>1. req.start \in 0..(MaxRevision + 1)
      BY <2>1, WatchAssumption
    <3>2. revision + 1 \in 1..(MaxRevision + 1)
      BY <1>1, WatchAssumption DEF RestOK
    <3> QED
      BY <3>1, <3>2
  <2>7. \A id \in IF req.id = 0 THEN WatchIds ELSE {req.id} : id \in WatchIds
    BY <2>1
  <2> QED
    BY <1>8, <2>4, <2>5, <2>6, <2>7 DEF Create
<1>9. CASE req.op = "cancel" /\ req.id \in Watched /\ CancelWatcher(req.id)
  <2>1. PICK id \in Watched : id = req.id
    BY <1>9
  <2>2. /\ CancelWatcher(id) /\ watchers[id].n \in 1..MaxWatches /\ id \in WatchIds
    BY <1>1, <1>9, <2>1, WatchedIsWatcher
  <2>3. Response("canceled", watchers[id].n, id, 0) \in Responses
    BY <2>2, WatchAssumption DEF Response, Responses
  <2>4. PICK resp \in Responses : resp = Response("canceled", watchers[id].n, id, 0)
    BY <2>3
  <2>5. Reply(resp) /\ resp.kind = "canceled"
    BY <2>2, <2>4 DEF CancelWatcher, Response
  <2>6. AnswersInv' /\ PendingInv'
    BY <1>1, <1>2, <1>3, <1>7, <1>9, <2>5, OtherReply
  <2>7. IdsInv' /\ SeenInv'
    BY <1>1, <1>2, <2>2, CanceledKeeps
  <2> QED
    BY <1>2, <2>6, <2>7 DEF BookInv
<1>10. CASE req.op = "cancel" /\ UNCHANGED <<out, watchers>>
  <2>1. AnswersInv' /\ PendingInv'
    <3>1. PICK l \in Nat : l = Len(out)
      BY <1>1, OutFields
    <3>2. PICK last \in l..(l + 1) : last = l
      OBVIOUS
    <3>3. Len(out') = last /\ \A i \in 1..l : out'[i] = out[i]
      BY <1>10, <3>1, <3>2
    <3>4. \A i \in (l + 1)..last : /\ out'[i].kind \notin {"created", "refused"}
                                   /\ out'[i].kind = "progress" => out'[i].n = 0
      BY <3>2
    <3> QED
      BY <1>1, <1>2, <1>3, <1>7, <1>10, <3>1, <3>3, <3>4, NoneAnswered
  <2>2. IdsInv' /\ SeenInv'
    BY <1>1, <1>2, <1>3, <1>10, NoReplyKeeps
  <2> QED
    BY <1>2, <2>1, <2>2 DEF BookInv
<1>11. CASE req.op = "progress" /\ Reply(Response("progress", 0, 0, 0)) /\ UNCHANGED watchers
  <2>1. Response("progress", 0, 0, 0) \in Responses
    BY WatchAssumption DEF Response, Responses
  <2>2. PICK resp \in Responses : resp = Response("progress", 0, 0, 0)
    BY <2>1
  <2>3. Reply(resp) /\ resp.kind = "progress" /\ resp.n = 0
    BY <1>11, <2>2 DEF Response
  <2>4. AnswersInv' /\ PendingInv'
    BY <1>1, <1>2, <1>3, <1>7, <1>11, <2>3, OtherReply
  <2>5. IdsInv' /\ SeenInv'
    BY <1>1, <1>2, <1>11, <2>3, OthersKeep
  <2> QED
    BY <1>2, <2>4, <2>5 DEF BookInv
<1> QED
  BY <1>6, <1>8, <1>9, <1>10, <1>11

(* The server sends an event, or gives a watcher up. *)
LEMMA BookServer ==
    ASSUME BookInv, IInv, NEW id \in WatchIds, Emit(id) \/ GiveUp(id)
    PROVE  BookInv'
<1>1. AnswersInv /\ PendingInv /\ IdsInv /\ SeenInv /\ RestOK
  BY DEF BookInv, IInv
<1>2. /\ id \in Watched /\ UNCHANGED streamVars /\ view' = view /\ Going
      /\ watchers[id].n \in 1..MaxWatches /\ revision \in 1..MaxRevision
  BY <1>1, WatchedIsWatcher DEF Emit, GiveUp, Live, Going, RestOK
<1>3. sent' = sent /\ sending' = sending /\ stream' = stream /\ Pending' = Pending /\ Fresh'
  BY <1>2 DEF streamVars, Pending, Fresh, Going
<1>4. Going' => Going
  BY <1>2
<1>5. ASSUME NEW resp \in Responses, Reply(resp), resp.kind \in {"canceled", "event"}
      PROVE  AnswersInv' /\ PendingInv'
  BY <1>1, <1>2, <1>3, <1>4, <1>5, OtherReply
<1>6. CASE Emit(id)
  <2>1. watchers[id].next \in 0..MaxRevision
    <3>1. /\ watchers[id].next \in 1..(MaxRevision + 1) /\ watchers[id].next <= revision
          /\ MaxRevision \in Nat
      BY <1>1, <1>2, <1>6, WatchedIsWatcher, WatchAssumption DEF Emit
    <3> QED
      BY <1>2, <3>1
  <2>2. Response("event", watchers[id].n, id, watchers[id].next) \in Responses
    BY <1>2, <2>1, WatchAssumption DEF Response, Responses
  <2>3. PICK resp \in Responses : resp = Response("event", watchers[id].n, id, watchers[id].next)
    BY <2>2
  <2>4. Reply(resp) /\ resp.kind = "event"
    BY <1>6, <2>3 DEF Emit, Response
  <2>5. IdsInv' /\ SeenInv'
    BY <1>1, <1>2, <1>6, EmittedKeeps
  <2> QED
    BY <1>3, <1>5, <2>4, <2>5 DEF BookInv
<1>7. CASE GiveUp(id)
  <2>1. Response("canceled", watchers[id].n, id, 0) \in Responses
    BY <1>2, WatchAssumption DEF Response, Responses
  <2>2. PICK resp \in Responses : resp = Response("canceled", watchers[id].n, id, 0)
    BY <2>1
  <2>3. CancelWatcher(id) /\ Reply(resp) /\ resp.kind = "canceled"
    BY <1>7, <2>2 DEF GiveUp, CancelWatcher, Response
  <2>4. IdsInv' /\ SeenInv'
    BY <1>1, <1>2, <2>3, CanceledKeeps
  <2> QED
    BY <1>3, <1>5, <2>3, <2>4 DEF BookInv
<1> QED
  BY <1>6, <1>7

----------------------------------------------------------------------------
LEMMA BookInit == ASSUME Init PROVE BookInv
<1>1. /\ stream = "none" /\ sending = NoRequest /\ out = <<>> /\ view = <<>> /\ watchers = Idle
      /\ Len(out) = 0 /\ Len(view) = 0
  BY EmptySeq DEF Init, StreamInit
<1>2. AnswersInv
  BY <1>1 DEF AnswersInv
<1>3. PendingInv /\ ~Going
  BY <1>1 DEF PendingInv, Going
<1>4. IdsInv
  <2>1. \A n \in Nat, id \in WatchIds : ~LiveAt(1, n, id)
    BY <1>1 DEF LiveAt, LiveAs, CreatedBy
  <2> QED
    BY <1>1, <1>3, <2>1 DEF IdsInv
<1>5. SeenInv
  BY <1>1, <1>3 DEF SeenInv
<1> QED
  BY <1>1, <1>2, <1>3, <1>4, <1>5 DEF BookInv, Fresh

LEMMA BookStep ==
    ASSUME BookInv, IInv, [Next]_vars
    PROVE  BookInv'
<1>1. RestOK /\ Len(out) \in Nat
  BY OutFields DEF IInv
<1>2. ASSUME NEW id \in ChosenIds \cup {0}, NEW start \in Starts, OpenWatch(id, start)
      PROVE  BookInv'
  BY <1>2, BookOpens
<1>3. ASSUME NEW req, Call(req), req.op # "create" \/ req.n = Len(view) + 1
      PROVE  BookInv'
  BY <1>3, BookFrame DEF Call, StartSend, serverVars, Going
<1>4. ASSUME NEW id \in ChosenIds \cup {0}, NEW start \in Starts, WatchAgain(id, start)
      PROVE  BookInv'
  BY <1>3, <1>4 DEF WatchAgain, CreateRequest
<1>5. ASSUME NEW id \in WatchIds, Cancel(id)
      PROVE  BookInv'
  BY <1>3, <1>5 DEF Cancel, CancelRequest
<1>6. CASE RequestProgress
  BY <1>3, <1>6 DEF RequestProgress, ProgressRequest
<1>7. CASE WatchOpened
  BY <1>7, BookFrame DEF WatchOpened, Opened, Calling, serverVars, Going
<1>8. CASE WatchFails
  <2>1. Len(out') = 0 /\ stream' = "over" /\ view' = view
    BY <1>8, EmptySeq DEF WatchFails, OpenFails, Close
  <2>2. Len(out') \in Nat /\ Len(out') <= Len(out) /\ \A i \in 1..Len(out') : out'[i] = out[i]
    BY <1>1, <2>1
  <2> QED
    BY <1>1, <2>1, <2>2, BookCut
<1>9. CASE StreamEnds
  <2>1. PICK n \in 0..Len(out) : out' = SubSeq(out, 1, n)
    BY <1>9 DEF StreamEnds
  <2>2. \A i \in 1..n : out[i] \in Responses
    BY <1>1, ElementOfSeq DEF RestOK
  <2>3. 1 \in Int /\ n \in Int
    BY <1>1
  <2>4. /\ Len(out') = IF 1 <= n THEN n - 1 + 1 ELSE 0
        /\ \A i \in 1..(n - 1 + 1) : out'[i] = out[1 + i - 1]
    BY <2>1, <2>2, <2>3, SubSeqProperties
  <2>5. /\ Len(out') \in Nat /\ Len(out') <= Len(out)
        /\ \A i \in 1..Len(out') : i \in 1..(n - 1 + 1) /\ 1 + i - 1 = i
    BY <1>1, <2>4
  <2>6. \A i \in 1..Len(out') : out'[i] = out[i]
    BY <2>4, <2>5
  <2>7. stream' = "over" /\ view' = view
    BY <1>9 DEF StreamEnds, End, Close
  <2> QED
    BY <1>1, <2>5, <2>6, <2>7, BookCut
<1>10. CASE Transport
  <2>1. CASE Refused \/ Retry
    BY <1>10, <2>1, BookFrame DEF Transport, Refused, Retry, serverVars, Going
  <2>2. CASE SendFails \/ Transfer
    BY <1>10, <2>2, BookFrame DEF Transport, SendFails, Transfer, serverVars, Going
  <2> QED
    BY <1>10, <2>1, <2>2 DEF Transport
<1>11. CASE CallReturns
  BY <1>11, BookCallReturns
<1>12. CASE GiveUpCall
  BY <1>12, BookFrame DEF GiveUpCall, DropSend, serverVars, Going
<1>13. CASE Split \/ DropSender \/ Write \/ UNCHANGED vars
  BY <1>13, BookFrame DEF Split, DropSender, Write, vars, streamVars, serverVars, Going
<1>14. CASE Message
  BY <1>1, <1>14, BookMessage
<1>15. CASE Handle
  BY <1>15, BookHandle
<1>16. ASSUME NEW id \in WatchIds, Emit(id) \/ GiveUp(id)
       PROVE  BookInv'
  BY <1>16, BookServer
<1> QED
  BY <1>2, <1>4, <1>5, <1>6, <1>7, <1>8, <1>9, <1>10, <1>11, <1>12, <1>13, <1>14, <1>15, <1>16 DEF Next

LEMMA BookIsKept == Spec => []BookInv
<1>1. Init => BookInv
  BY BookInit
<1>2. BookInv /\ IInv /\ [Next]_vars => BookInv'
  BY BookStep
<1> QED
  BY <1>1, <1>2, Invariant, PTL DEF Spec

(* Whatever ids are chosen, used again or refused, and whatever is under way   *)
(* when a watch is cancelled, an application that counts creations and goes by *)
(* the id takes each response for the watch it belongs to.                    *)
THEOREM RightWatch == Spec => []AnswersFindTheirWatch
<1>1. BookInv /\ IInv => AnswersFindTheirWatch
  <2> SUFFICES ASSUME BookInv, IInv, out # <<>>
               PROVE  \A n \in 1..Len(view) : IsFor(Head(out), n) <=> Head(out).n = n
    BY DEF AnswersFindTheirWatch
  <2>1. Head(out) = out[1]
    BY DEF IInv, RestOK
  <2> QED
    BY <2>1, HeadFindsItsWatch DEF BookInv, IInv
<1> QED
  BY <1>1, BookIsKept, Invariant, PTL

----------------------------------------------------------------------------
(* A response that is for the n-th watch changes that entry of the book alone. *)
LEMMA OneEntry ==
    ASSUME RestOK, AnswersInv, IdsInv, Message, NEW n \in 1..Len(view), out[1].n = n
    PROVE  view' = [view EXCEPT ![n] = After(view[n], out[1])]
<1>1. view' = [m \in 1..Len(view) |->
                  IF IsFor(Head(out), m) THEN After(view[m], Head(out)) ELSE view[m]]
      /\ Head(out) = out[1] /\ out # <<>>
  BY DEF Message, Take, RestOK
<1>2. \A m \in 1..Len(view) : IsFor(out[1], m) <=> m = n
  BY <1>1, HeadFindsItsWatch
<1>3. view = [m \in 1..Len(view) |-> view[m]]
  BY LenProperties DEF RestOK
<1>4. \A m \in 1..Len(view) : view'[m] = IF m = n THEN After(view[n], out[1]) ELSE view[m]
  BY <1>1, <1>2
<1>5. view' = [m \in 1..Len(view) |-> IF m = n THEN After(view[n], out[1]) ELSE view[m]]
  BY <1>1, <1>2
<1> QED
  BY <1>3, <1>5

(* Taking a response is what the book allows. *)
LEMMA MessageIsAllowed ==
    ASSUME BookInv, RestOK, Message
    PROVE  [Watching!Next]_view
<1>1. AnswersInv /\ IdsInv /\ SeenInv /\ out # <<>>
  BY DEF BookInv, Message
<1>2. 1 \in 1..Len(out) /\ Len(out) \in Nat /\ Len(view) \in Nat
  BY <1>1, OutFields, EmptySeq DEF RestOK
<1>3. PICK n \in Nat : n = out[1].n
  BY <1>2, OutFields
<1>4. PICK id \in WatchIds, rev \in 0..MaxRevision : id = out[1].id /\ rev = out[1].rev
  <2>1. out[1] \in Responses
    BY <1>2, ElementOfSeq DEF RestOK
  <2> QED
    BY <2>1 DEF Responses
<1>5. out[1].kind \in {"created", "refused", "canceled", "event", "progress"}
  BY <1>2, OutFields
<1>6. CASE out[1].kind \in {"created", "refused"}
  <2>1. Answers(1, n)
    BY <1>3, <1>6 DEF Answers
  <2>2. Asked(n) /\ \A m \in Nat : m < n => ~Asked(m)
    BY <1>1, <1>2, <2>1 DEF AnswersInv
  <2>3. n \in 1..Len(view) /\ Watching!Turn(n)
    BY <1>2, <2>2 DEF Asked, Watching!Turn
  <2>4. view' = [view EXCEPT ![n] = After(view[n], out[1])]
    BY <1>1, <1>3, <2>3, OneEntry
  <2>5. CASE out[1].kind = "refused"
    <3>1. After(view[n], out[1]) = [view[n] EXCEPT !.status = "over"]
      BY <2>5 DEF After
    <3>2. Watching!Finish(n)
      BY <2>3, <2>4, <3>1 DEF Watching!Finish
    <3> QED
      BY <2>3, <3>2 DEF Watching!Next
  <2>6. CASE out[1].kind = "created"
    <3>1. After(view[n], out[1]) = Watching!Watch("live", id, rev)
      BY <1>4, <2>6 DEF After
    <3>2. ASSUME NEW m \in 1..Len(view), view[m].status = "live", view[m].id = id PROVE FALSE
      <4>1. PICK j \in 1..(Len(out) + 1) : j = 2
        BY <1>2
      <4>2. 1 \in 1..(j - 1) /\ \A i \in 1..(j - 1) : i = 1
        BY <4>1
      <4>3. CreatedBy(j, n, id) /\ \A a : ~CanceledBy(j, a)
        BY <1>3, <1>4, <2>6, <4>2 DEF CreatedBy, CanceledBy
      <4>4. LiveAt(j, n, id) /\ LiveAt(j, m, id) /\ m \in Nat
        BY <3>2, <4>3 DEF LiveAt, LiveAs
      <4>5. m = n
        BY <1>1, <4>4 DEF IdsInv
      <4> QED
        BY <2>2, <3>2, <4>5 DEF Asked
    <3>3. Watching!Begin(n)
      BY <2>3, <2>4, <3>1, <3>2 DEF Watching!Begin
    <3> QED
      BY <2>3, <3>3 DEF Watching!Next
  <2> QED
    BY <1>6, <2>5, <2>6
<1>7. CASE out[1].kind \in {"canceled", "event"}
  <2>1. LiveAs(n, id)
    <3>1. Concerns(1, n, id)
      BY <1>3, <1>4, <1>7 DEF Concerns
    <3> QED
      BY <1>1, <1>2, <3>1, AtTheHead DEF IdsInv
  <2>2. n \in 1..Len(view) /\ view[n].status = "live"
    BY <2>1 DEF LiveAs
  <2>3. view' = [view EXCEPT ![n] = After(view[n], out[1])]
    BY <1>1, <1>3, <2>2, OneEntry
  <2>4. CASE out[1].kind = "canceled"
    <3>1. After(view[n], out[1]) = [view[n] EXCEPT !.status = "over"]
      BY <2>4 DEF After
    <3>2. Watching!Finish(n)
      BY <2>2, <2>3, <3>1 DEF Watching!Finish
    <3> QED
      BY <2>2, <3>2 DEF Watching!Next
  <2>5. CASE out[1].kind = "event"
    <3>1. PICK before \in Int : rev = before + 1
      BY WatchAssumption
    <3>2. Shows(1, n, before + 1)
      BY <1>3, <1>4, <2>5, <3>1 DEF Shows
    <3>3. SeenAt(1, n, before)
      BY <1>1, <1>2, <3>2 DEF SeenInv
    <3>4. view[n].seen = before
      BY <3>3 DEF SeenAt
    <3>5. After(view[n], out[1]) = [view[n] EXCEPT !.seen = view[n].seen + 1]
      BY <1>4, <2>5, <3>1, <3>4 DEF After
    <3>6. Watching!See(n)
      BY <2>2, <2>3, <3>5 DEF Watching!See
    <3> QED
      BY <2>2, <3>6 DEF Watching!Next
  <2> QED
    BY <1>7, <2>4, <2>5
<1>8. CASE out[1].kind = "progress"
  <2>1. \A m \in 1..Len(view) : ~IsFor(out[1], m)
    BY <1>8 DEF IsFor
  <2>2. view' = [m \in 1..Len(view) |->
                  IF IsFor(Head(out), m) THEN After(view[m], Head(out)) ELSE view[m]]
        /\ Head(out) = out[1]
    BY DEF Message, Take, RestOK
  <2>3. view' = [m \in 1..Len(view) |-> view[m]]
    BY <2>1, <2>2
  <2>4. view = [m \in 1..Len(view) |-> view[m]]
    BY LenProperties DEF RestOK
  <2> QED
    BY <2>3, <2>4
<1> QED
  BY <1>5, <1>6, <1>7, <1>8

(* Every watch asked for on a stream is answered in turn, then sees each        *)
(* revision from its start on once and in order, and nothing after it is over. *)
THEOREM BookIsRight == Spec => ImplementsWatches
<1>1. Init => Watching!Init
  BY DEF Init, Watching!Init
<1>2. BookInv /\ IInv /\ [Next]_vars => [Watching!Next]_view
  <2> SUFFICES ASSUME BookInv, IInv, [Next]_vars PROVE [Watching!Next]_view
    OBVIOUS
  <2>1. ASSUME NEW req \in Requests, view' = Noted(view, req)
        PROVE  [Watching!Next]_view
    <3>1. CASE req.op = "create"
      <4>1. req.id \in WatchIds /\ view' = Append(view, Watching!Watch("asked", req.id, 0))
        BY <2>1, <3>1, RequestFields, NoRequestAssumption DEF Noted
      <4> QED
        BY <4>1 DEF Watching!Next, Watching!Ask
    <3>2. CASE req.op # "create"
      BY <2>1, <3>2 DEF Noted
    <3> QED
      BY <3>1, <3>2
  <2>2. ASSUME NEW id \in ChosenIds \cup {0}, NEW start \in Starts, OpenWatch(id, start)
        PROVE  [Watching!Next]_view
    <3>1. CreateRequest(1, id, start) \in Requests
      BY CreateIsRequest, WatchAssumption
    <3> QED
      BY <2>1, <2>2, <3>1 DEF OpenWatch
  <2>3. CASE CallReturns
    <3>1. sending \in Requests
      BY <2>3 DEF CallReturns, FinishSend, IInv, StreamInv, StreamTypeOK
    <3> QED
      BY <2>1, <2>3, <3>1 DEF CallReturns
  <2>4. CASE Message
    BY <2>4, MessageIsAllowed DEF IInv
  <2>5. ASSUME NEW req, Call(req) PROVE view' = view
    BY <2>5 DEF Call
  <2>6. ASSUME NEW id \in WatchIds, Emit(id) \/ GiveUp(id) PROVE view' = view
    BY <2>6 DEF Emit, GiveUp
  <2>7. CASE WatchOpened \/ WatchFails \/ Transport \/ GiveUpCall \/ StreamEnds \/ Handle
    BY <2>7 DEF WatchOpened, WatchFails, Transport, GiveUpCall, StreamEnds, Handle
  <2>8. CASE Split \/ DropSender \/ Write \/ UNCHANGED vars
    BY <2>8 DEF Split, DropSender, Write, vars
  <2> QED
    BY <2>2, <2>3, <2>4, <2>5, <2>6, <2>7, <2>8 DEF Next, WatchAgain, Cancel, RequestProgress
<1> QED
  BY <1>1, <1>2, BookIsKept, Invariant, PTL DEF Spec, ImplementsWatches, Watching!Spec
============================================================================
