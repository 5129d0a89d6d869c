------------------------------ MODULE Endpoints ------------------------------
(***************************************************************************)
(* The endpoints of a client (src/client.rs): connect, add_endpoint and     *)
(* remove_endpoint send changes to a bounded channel, whose other end is    *)
(* the discover stream of a balancer.  With OpenSSL a spawned task stands   *)
(* in between, which turns each change into a channel with a back-off load  *)
(* and sends it to a second bounded channel (src/openssl_tls/transport.rs). *)
(*                                                                         *)
(* The balancer and the buffer in front of it (tonic, tower) are external.  *)
(* They look for changes when there is a request to place, and take all     *)
(* there are before they choose an endpoint; a request stays in the buffer  *)
(* while there is none.  Their worker may end at any time, on an error: then *)
(* its receiver is gone, and sends and requests fail from there backwards.   *)
(*                                                                         *)
(* A URL is a scheme, or none, and a host.  An http::Uri is parsed from one  *)
(* and compared by the same two parts.                                     *)
(***************************************************************************)
EXTENDS Naturals, Sequences

CONSTANTS
    Hosts,
    Given,           \* the URLs passed to connect
    Urls,            \* the URLs tasks add and remove
    Tasks,           \* futures running on clones of the client
    Features,        \* which TLS features are compiled in
    Secure,          \* the ConnectOptions have TLS options
    Capacity,        \* of the channel connect makes: 64, with OpenSSL 16
    RelayCapacity,   \* of the channel behind the OpenSSL task: 16
    NoUrl            \* of a task that changes no endpoint

Url == [scheme : {"http", "https", "none"}, host : Hosts]

ASSUME GivenAssumption == Given \in Seq(Url)
ASSUME UrlsAssumption == Urls \subseteq Url /\ NoUrl \notin Url
ASSUME FeaturesAssumption ==
    /\ Features \in {"plain", "tls", "openssl"} /\ Secure \in BOOLEAN
    /\ Secure => Features # "plain"
ASSUME CapacityAssumption == Capacity \in Nat \ {0} /\ RelayCapacity \in Nat \ {0}

VARIABLES
    phase,     \* where connect is
    inserted,  \* how many of the given endpoints it has sent
    queue,     \* the channel whose sender the client keeps
    held,      \* the change the OpenSSL task has in its hands, if any
    feed,      \* the channel behind that task
    balance,   \* the endpoints the balancer has
    task,      \* what each task waits for
    dropped,   \* the channels whose receiver is gone
    wanted     \* history: the URLs connected to or added, and not removed

pipe == <<queue, held, feed>>
vars == <<phase, inserted, queue, held, feed, balance, task, dropped, wanted>>

Insert(uri) == [kind |-> "insert", uri |-> uri]
Remove(uri) == [kind |-> "remove", uri |-> uri]
Change == [kind : {"insert", "remove"}, uri : Url]

Idle == [op |-> "idle", url |-> NoUrl]
Op == {Idle, [op |-> "call", url |-> NoUrl]} \cup [op : {"add", "remove"}, url : Urls]

Init ==
    /\ phase = "start" /\ inserted = 0
    /\ queue = <<>> /\ held = <<>> /\ feed = <<>>
    /\ balance = {}
    /\ task = [t \in Tasks |-> Idle]
    /\ dropped = {} /\ wanted = {}

----------------------------------------------------------------------------
(* build_endpoint *)

Refused(url) ==
    \/ Features = "plain" /\ url.scheme = "https"
    \/ Features = "tls" /\ Secure /\ url.scheme = "http"

EndpointUri(url) ==
    IF url.scheme # "none" THEN url
    ELSE [url EXCEPT !.scheme = IF Secure THEN "https" ELSE "http"]

(* Mutant: a full channel is no reason to wait. *)
EnqueueUnbounded(change) == queue' = Append(queue, change)

(* Sender::send, once there is room. *)
Enqueue(change) ==
    /\ Len(queue) < Capacity
    /\ queue' = Append(queue, change)

----------------------------------------------------------------------------
(* connect *)

(* All endpoints are built before there is a channel. *)
StartConnect ==
    /\ phase = "start"
    /\ phase' = IF Given = <<>> \/ \E i \in DOMAIN Given : Refused(Given[i])
                THEN "failed" ELSE "inserting"
    /\ UNCHANGED <<inserted, pipe, balance, task, dropped, wanted>>

(* One send of the loop; its error ends connect.                             *)
InsertGiven ==
    /\ phase = "inserting" /\ inserted < Len(Given)
    /\ \/ /\ "queue" \notin dropped
          /\ Enqueue(Insert(EndpointUri(Given[inserted + 1])))
          /\ inserted' = inserted + 1
          /\ wanted' = wanted \cup {Given[inserted + 1]}
          /\ UNCHANGED phase
       \/ /\ "queue" \in dropped /\ phase' = "failed"
          /\ UNCHANGED <<inserted, queue, wanted>>
    /\ UNCHANGED <<held, feed, balance, task, dropped>>

(* The client is there, and refresh_token sends its Authenticate if there are *)
(* credentials.                                                             *)
Connected ==
    /\ phase = "inserting" /\ inserted = Len(Given)
    /\ phase' \in {"connected", "authenticating"}
    /\ UNCHANGED <<inserted, pipe, balance, task, dropped, wanted>>

----------------------------------------------------------------------------
(* Operations of the client *)

Start(t, op) ==
    /\ phase = "connected" /\ task[t] = Idle
    /\ task' = [task EXCEPT ![t] = op]
    /\ UNCHANGED <<phase, inserted, pipe, balance, dropped, wanted>>

AddEndpoint(t, url) == ~Refused(url) /\ Start(t, [op |-> "add", url |-> url])

RemoveEndpoint(t, url) == Start(t, [op |-> "remove", url |-> url])

Call(t) == Start(t, [op |-> "call", url |-> NoUrl])

(* Mutant: an endpoint is removed by its authority. *)
ChangeOfAuthority(op) ==
    IF op.op = "add" THEN Insert(EndpointUri(op.url))
    ELSE Remove([op.url EXCEPT !.scheme = "none"])

(* Client::add_endpoint builds an endpoint and sends its URI; remove_endpoint *)
(* sends what the string itself parses to.                                   *)
ChangeOf(op) ==
    IF op.op = "add" THEN Insert(EndpointUri(op.url)) ELSE Remove(op.url)

(* The send of add_endpoint or remove_endpoint completes, or fails. *)
Send(t) ==
    /\ task[t].op \in {"add", "remove"}
    /\ \/ /\ "queue" \notin dropped
          /\ Enqueue(ChangeOf(task[t]))
          /\ wanted' = IF task[t].op = "add" THEN wanted \cup {task[t].url}
                       ELSE wanted \ {task[t].url}
       \/ "queue" \in dropped /\ UNCHANGED <<queue, wanted>>
    /\ task' = [task EXCEPT ![t] = Idle]
    /\ UNCHANGED <<phase, inserted, held, feed, balance, dropped>>

(* The future is dropped while it waits. *)
Cancel(t) ==
    /\ task[t] # Idle
    /\ task' = [task EXCEPT ![t] = Idle]
    /\ UNCHANGED <<phase, inserted, pipe, balance, dropped, wanted>>

----------------------------------------------------------------------------
(* create_openssl_discover *)

(* Mutant: while let Some(Change::Insert(..)) = incoming.recv().await *)
TranslateInserts ==
    /\ Features = "openssl" /\ held = <<>> /\ queue # <<>>
    /\ Head(queue).kind = "insert"
    /\ held' = <<Head(queue)>> /\ queue' = Tail(queue)
    /\ UNCHANGED <<phase, inserted, feed, balance, task, dropped, wanted>>

Translate ==
    /\ Features = "openssl" /\ held = <<>> /\ queue # <<>>
    /\ held' = <<Head(queue)>> /\ queue' = Tail(queue)
    /\ UNCHANGED <<phase, inserted, feed, balance, task, dropped, wanted>>

(* Mutant: a slot of the channel stays empty. *)
PassOnOneShort ==
    /\ held # <<>> /\ "feed" \notin dropped /\ Len(feed) + 1 < RelayCapacity
    /\ feed' = feed \o held /\ held' = <<>>
    /\ UNCHANGED <<phase, inserted, queue, balance, task, dropped, wanted>>

(* Mutant: changes are passed on in batches, the last one when another comes. *)
PassOnWithNext ==
    /\ held # <<>> /\ "feed" \notin dropped /\ Len(feed) < RelayCapacity /\ queue # <<>>
    /\ feed' = feed \o held /\ held' = <<>>
    /\ UNCHANGED <<phase, inserted, queue, balance, task, dropped, wanted>>

(* If nobody receives any more the task ends, and with it the first channel.  *)
PassOn ==
    /\ held # <<>> /\ held' = <<>>
    /\ \/ /\ "feed" \notin dropped /\ Len(feed) < RelayCapacity
          /\ feed' = feed \o held
          /\ UNCHANGED <<queue, dropped>>
       \/ /\ "feed" \in dropped
          /\ queue' = <<>> /\ dropped' = {"queue", "feed"}
          /\ UNCHANGED feed
    /\ UNCHANGED <<phase, inserted, balance, task, wanted>>

----------------------------------------------------------------------------
(* The balancer *)

Waiting == phase = "authenticating" \/ \E t \in Tasks : task[t].op = "call"

(* The endpoints after some changes: for each URI the last change decides.    *)
After(changes, endpoints) ==
    {uri \in Url :
        \/ uri \in endpoints /\ \A i \in DOMAIN changes : changes[i].uri # uri
        \/ \E i \in DOMAIN changes :
              /\ changes[i] = Insert(uri)
              /\ \A j \in DOMAIN changes : j > i => changes[j].uri # uri}

Incoming == IF Features = "openssl" THEN feed ELSE queue

Stopped == (IF Features = "openssl" THEN "feed" ELSE "queue") \in dropped

EmptyIncoming ==
    IF Features = "openssl" THEN feed' = <<>> /\ UNCHANGED queue
    ELSE queue' = <<>> /\ UNCHANGED feed

(* Balance::poll_ready begins with the changes there are. *)
TakeChanges ==
    /\ ~Stopped
    /\ balance' = After(Incoming, balance)
    /\ EmptyIncoming
    /\ UNCHANGED <<inserted, held, dropped, wanted>>

(* There is no endpoint, or no connection yet. *)
Discover ==
    /\ Waiting /\ Incoming # <<>>
    /\ TakeChanges
    /\ UNCHANGED <<phase, task>>

(* A request is placed, and answered, well or badly. *)
Serve(t) ==
    /\ task[t].op = "call" /\ After(Incoming, balance) # {}
    /\ TakeChanges
    /\ task' = [task EXCEPT ![t] = Idle]
    /\ UNCHANGED phase

(* The Authenticate of connect is such a request, and decides about it. *)
Authenticated ==
    /\ phase = "authenticating" /\ After(Incoming, balance) # {}
    /\ TakeChanges
    /\ phase' \in {"connected", "failed"}
    /\ UNCHANGED task

(* The worker of the buffer ends, and drops what it has. *)
Stop ==
    /\ phase \notin {"start", "failed"} /\ ~Stopped
    /\ dropped' = {IF Features = "openssl" THEN "feed" ELSE "queue"}
    /\ EmptyIncoming /\ balance' = {}
    /\ UNCHANGED <<phase, inserted, held, task, wanted>>

(* Then requests end with an error. *)
CallFails(t) ==
    /\ Stopped /\ task[t].op = "call"
    /\ task' = [task EXCEPT ![t] = Idle]
    /\ UNCHANGED <<phase, inserted, pipe, balance, dropped, wanted>>

AuthenticateFails ==
    /\ Stopped /\ phase = "authenticating"
    /\ phase' = "failed"
    /\ UNCHANGED <<inserted, pipe, balance, task, dropped, wanted>>

----------------------------------------------------------------------------
Connect ==
    StartConnect \/ InsertGiven \/ Connected \/ Authenticated \/ AuthenticateFails

Next ==
    \/ Connect
    \/ \E t \in Tasks :
          \/ \E url \in Urls : AddEndpoint(t, url) \/ RemoveEndpoint(t, url)
          \/ Call(t) \/ Send(t) \/ Cancel(t) \/ Serve(t) \/ CallFails(t)
    \/ Translate \/ PassOn \/ Discover \/ Stop

Spec == Init /\ [][Next]_vars

(* Spawned tasks and polled futures go on when they can; a channel lets those *)
(* who wait for room in one by one, in the order they came.                   *)
Fairness ==
    /\ WF_vars(Connect) /\ WF_vars(Translate) /\ WF_vars(PassOn) /\ WF_vars(Discover)
    /\ \A t \in Tasks : SF_vars(Send(t)) /\ WF_vars(Serve(t)) /\ WF_vars(CallFails(t))

FairSpec == Spec /\ Fairness

----------------------------------------------------------------------------
(* Properties *)

(* The state stays within its types and the channels within their capacity. *)
TypeOK ==
    /\ phase \in {"start", "inserting", "authenticating", "connected", "failed"}
    /\ inserted \in 0..Len(Given)
    /\ queue \in Seq(Change) /\ Len(queue) <= Capacity
    /\ held \in Seq(Change) /\ Len(held) <= 1
    /\ feed \in Seq(Change) /\ Len(feed) <= RelayCapacity
    /\ balance \subseteq Url
    /\ task \in [Tasks -> Op]
    /\ dropped \subseteq {"queue", "feed"} /\ wanted \subseteq Url

(* The endpoints once every change under way has arrived. *)
Members == After(feed \o held \o queue, balance)

(* "the endpoint str should be the same as it was added" (remove_endpoint):   *)
(* by the strings connect, add_endpoint and remove_endpoint were called with, *)
(* the client has the endpoints that were added and not removed since, however*)
(* many tasks add and remove, and whatever is still on its way, for as long as *)
(* there is a balancer.                                                      *)
MembersAreWanted == Stopped \/ Members = {EndpointUri(url) : url \in wanted}

(* A request that finds no endpoint waits in the buffer, and is served when   *)
(* one is added for good, for no change is stuck on its way; or it fails, if   *)
(* the balancer has stopped.                                                 *)
RequestsAreServed ==
    (<>Stopped \/ \E uri \in Url : <>[](uri \in Members)) =>
        \A t \in Tasks : task[t].op = "call" ~> task[t].op # "call"

(* add_endpoint and remove_endpoint return as long as requests are served, for *)
(* these are what empties the channels; and if the balancer has stopped, since *)
(* the OpenSSL task then ends with the next change and its channel with it.     *)
ChangesAreAccepted ==
    (<>Stopped \/ []<><<\E t \in Tasks : Serve(t)>>_vars) =>
        \A t \in Tasks : task[t].op \in {"add", "remove"} ~> task[t] = Idle

(* Client::connect returns, with a client or an error.                       *)
ConnectReturns == <>(phase \in {"connected", "failed"})
============================================================================
