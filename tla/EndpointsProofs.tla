--------------------------- MODULE EndpointsProofs ---------------------------
(***************************************************************************)
(* The endpoints of a client are those it was told of, for any number of     *)
(* tasks, any URLs that name their scheme, any capacities and both channels. *)
(* The invariant is the property itself, once the state is known to be well  *)
(* typed: what makes it hold is that After may be split at any point of the  *)
(* pipeline, so that moving a change along changes nothing.                 *)
(***************************************************************************)
EXTENDS Endpoints, SequenceTheorems, TLAPS

LEMMA OneOrNone ==
    ASSUME NEW S, NEW s \in Seq(S), Len(s) <= 1, s # <<>>
    PROVE  Len(s) = 1
<1>1. Len(s) \in Nat \ {0}
  BY EmptySeq
<1> QED
  BY <1>1

LEMMA MoreByOne ==
    ASSUME NEW a \in Nat, NEW b \in Nat, NEW c \in Nat, NEW n, a + b + c = n
    PROVE  (a + 1) + b + c = n + 1
OBVIOUS

USE GivenAssumption, UrlsAssumption, CapacityAssumption

(* Changes may be applied in two portions. *)
LEMMA AfterSplit ==
    ASSUME NEW s \in Seq(Change), NEW u \in Seq(Change), NEW B \in SUBSET Url
    PROVE  After(s \o u, B) = After(u, After(s, B))
<1> DEFINE su == s \o u
<1>1. /\ su \in Seq(Change) /\ Len(su) = Len(s) + Len(u)
      /\ \A i \in 1..Len(s) : su[i] = s[i]
      /\ \A i \in 1..Len(u) : su[Len(s) + i] = u[i]
      /\ DOMAIN su = 1..(Len(s) + Len(u)) /\ DOMAIN s = 1..Len(s) /\ DOMAIN u = 1..Len(u)
      /\ Len(s) \in Nat /\ Len(u) \in Nat
  OBVIOUS
<1> HIDE DEF su
<1>2. ASSUME NEW uri \in Url
      PROVE  uri \in After(su, B) <=> uri \in After(u, After(s, B))
  <2>1. CASE \E i \in DOMAIN u : u[i].uri = uri
    <3>1. uri \in After(u, After(s, B)) <=>
            \E i \in 1..Len(u) :
               u[i] = Insert(uri) /\ \A j \in 1..Len(u) : j > i => u[j].uri # uri
      BY <2>1, <1>1 DEF After
    <3>2. PICK k \in 1..Len(u) : u[k].uri = uri
      BY <2>1, <1>1
    <3>3. Len(s) + k \in 1..(Len(s) + Len(u)) /\ su[Len(s) + k].uri = uri
      BY <3>2, <1>1
    <3>4. uri \in After(su, B) <=>
            \E i \in 1..(Len(s) + Len(u)) :
               su[i] = Insert(uri) /\ \A j \in 1..(Len(s) + Len(u)) : j > i => su[j].uri # uri
      BY <3>3, <1>1 DEF After
    <3>5. ASSUME NEW i \in 1..(Len(s) + Len(u)),
                 su[i] = Insert(uri), \A j \in 1..(Len(s) + Len(u)) : j > i => su[j].uri # uri
          PROVE  \E m \in 1..Len(u) :
                    u[m] = Insert(uri) /\ \A j \in 1..Len(u) : j > m => u[j].uri # uri
      <4>1. i >= Len(s) + k
        BY <3>3, <3>5, <1>1
      <4>2. i - Len(s) \in 1..Len(u) /\ i = Len(s) + (i - Len(s))
        BY <4>1, <1>1
      <4>3. u[i - Len(s)] = Insert(uri)
        BY <4>2, <3>5, <1>1
      <4>4. ASSUME NEW j \in 1..Len(u), j > i - Len(s) PROVE u[j].uri # uri
        <5>1. Len(s) + j \in 1..(Len(s) + Len(u)) /\ Len(s) + j > i
          BY <4>4, <1>1
        <5> QED
          BY <5>1, <3>5, <1>1
      <4> QED
        BY <4>2, <4>3, <4>4
    <3>6. ASSUME NEW m \in 1..Len(u),
                 u[m] = Insert(uri), \A j \in 1..Len(u) : j > m => u[j].uri # uri
          PROVE  \E i \in 1..(Len(s) + Len(u)) :
                    /\ su[i] = Insert(uri)
                    /\ \A j \in 1..(Len(s) + Len(u)) : j > i => su[j].uri # uri
      <4>1. Len(s) + m \in 1..(Len(s) + Len(u)) /\ su[Len(s) + m] = Insert(uri)
        BY <3>6, <1>1
      <4>2. ASSUME NEW j \in 1..(Len(s) + Len(u)), j > Len(s) + m PROVE su[j].uri # uri
        <5>1. j - Len(s) \in 1..Len(u) /\ j - Len(s) > m /\ j = Len(s) + (j - Len(s))
          BY <4>2, <1>1
        <5>2. su[j] = u[j - Len(s)]
          BY <5>1, <1>1
        <5> QED
          BY <5>1, <5>2, <3>6
      <4> QED
        BY <4>1, <4>2
    <3> QED
      BY <3>1, <3>4, <3>5, <3>6
  <2>2. CASE \A i \in DOMAIN u : u[i].uri # uri
    <3>1. uri \in After(u, After(s, B)) <=> uri \in After(s, B)
      <4>1. \A i \in DOMAIN u : u[i] # Insert(uri)
        BY <2>2 DEF Insert
      <4> QED
        BY <2>2, <4>1 DEF After
    <3>2. \A i \in 1..(Len(s) + Len(u)) : i > Len(s) => su[i].uri # uri /\ su[i] # Insert(uri)
      <4> SUFFICES ASSUME NEW i \in 1..(Len(s) + Len(u)), i > Len(s)
                   PROVE  su[i].uri # uri /\ su[i] # Insert(uri)
        OBVIOUS
      <4>1. i - Len(s) \in 1..Len(u) /\ i = Len(s) + (i - Len(s))
        BY <1>1
      <4>2. su[i] = u[i - Len(s)]
        BY <4>1, <1>1
      <4>3. su[i].uri # uri
        BY <4>1, <4>2, <2>2, <1>1
      <4> QED
        BY <4>3 DEF Insert
    <3>3. (\A i \in 1..(Len(s) + Len(u)) : su[i].uri # uri) <=> (\A i \in 1..Len(s) : s[i].uri # uri)
      BY <3>2, <1>1
    <3>4. (\E i \in 1..(Len(s) + Len(u)) :
              su[i] = Insert(uri) /\ \A j \in 1..(Len(s) + Len(u)) : j > i => su[j].uri # uri)
          <=> (\E i \in 1..Len(s) :
                  s[i] = Insert(uri) /\ \A j \in 1..Len(s) : j > i => s[j].uri # uri)
      <4>1. ASSUME NEW i \in 1..(Len(s) + Len(u)),
                   su[i] = Insert(uri), \A j \in 1..(Len(s) + Len(u)) : j > i => su[j].uri # uri
            PROVE  \E m \in 1..Len(s) :
                      s[m] = Insert(uri) /\ \A j \in 1..Len(s) : j > m => s[j].uri # uri
        <5>1. i \in 1..Len(s)
          BY <3>2, <4>1, <1>1
        <5>2. s[i] = Insert(uri) /\ \A j \in 1..Len(s) : j > i => s[j].uri # uri
          BY <5>1, <4>1, <1>1
        <5> QED
          BY <5>1, <5>2
      <4>2. ASSUME NEW m \in 1..Len(s),
                   s[m] = Insert(uri), \A j \in 1..Len(s) : j > m => s[j].uri # uri
            PROVE  \E i \in 1..(Len(s) + Len(u)) :
                      /\ su[i] = Insert(uri)
                      /\ \A j \in 1..(Len(s) + Len(u)) : j > i => su[j].uri # uri
        <5>1. m \in 1..(Len(s) + Len(u)) /\ su[m] = Insert(uri)
          BY <4>2, <1>1
        <5>2. ASSUME NEW j \in 1..(Len(s) + Len(u)), j > m PROVE su[j].uri # uri
          BY <3>2, <4>2, <5>2, <1>1
        <5> QED
          BY <5>1, <5>2
      <4> QED
        BY <4>1, <4>2
    <3> QED
      BY <3>1, <3>3, <3>4, <1>1 DEF After
  <2> QED
    BY <2>1, <2>2
<1>3. After(su, B) \subseteq Url /\ After(u, After(s, B)) \subseteq Url
  BY DEF After
<1> QED
  BY <1>2, <1>3 DEF su

(* No changes, and one change. *)
LEMMA AfterNone ==
    ASSUME NEW B \in SUBSET Url
    PROVE  After(<<>>, B) = B
BY DEF After

LEMMA AfterOne ==
    ASSUME NEW uri \in Url, NEW B \in SUBSET Url
    PROVE  /\ After(<<Insert(uri)>>, B) = B \cup {uri}
           /\ After(<<Remove(uri)>>, B) = B \ {uri}
<1>1. Insert(uri).uri = uri /\ Remove(uri).uri = uri
      /\ \A v : Remove(uri) # Insert(v) /\ (Insert(uri) = Insert(v) <=> uri = v)
  BY DEF Insert, Remove
<1>2. ASSUME NEW c PROVE DOMAIN <<c>> = {1} /\ <<c>>[1] = c
  OBVIOUS
<1> QED
  BY <1>1, <1>2 DEF After

----------------------------------------------------------------------------
LEMMA ChangeTypes ==
    /\ \A url \in Url : /\ EndpointUri(url) \in Url
                        /\ Insert(url) \in Change /\ Remove(url) \in Change
    /\ \A op \in Op : op.op \in {"add", "remove"} => op.url \in Url /\ ChangeOf(op) \in Change
BY DEF Url, EndpointUri, Insert, Remove, Change, Op, Idle, ChangeOf

LEMMA TypeStep == TypeOK /\ [Next]_vars => TypeOK'
<1> SUFFICES ASSUME TypeOK, [Next]_vars PROVE TypeOK'
  OBVIOUS
<1>1. ASSUME NEW c \in Change, Enqueue(c)
      PROVE  queue' \in Seq(Change) /\ Len(queue') <= Capacity
  BY <1>1 DEF Enqueue, TypeOK
<1>2. CASE StartConnect
  BY <1>2 DEF StartConnect, pipe, TypeOK
<1>3. CASE InsertGiven
  <2>1. Given[inserted + 1] \in Url /\ inserted' \in 0..Len(Given)
    BY <1>3 DEF InsertGiven, TypeOK
  <2>2. queue' \in Seq(Change) /\ Len(queue') <= Capacity
    BY <1>1, <1>3, <2>1, ChangeTypes DEF InsertGiven, TypeOK
  <2> QED
    BY <1>3, <2>1, <2>2 DEF InsertGiven, TypeOK
<1>4. CASE Connected
  BY <1>4 DEF Connected, pipe, TypeOK
<1>5. ASSUME NEW t \in Tasks, NEW op \in Op, Start(t, op) PROVE TypeOK'
  BY <1>5 DEF Start, pipe, TypeOK
<1>6. ASSUME NEW t \in Tasks, Send(t) PROVE TypeOK'
  <2>1. task[t] \in Op /\ task[t].url \in Url /\ ChangeOf(task[t]) \in Change
    BY <1>6, ChangeTypes DEF Send, TypeOK
  <2>2. queue' \in Seq(Change) /\ Len(queue') <= Capacity
    BY <1>1, <1>6, <2>1 DEF Send, TypeOK
  <2>3. task' \in [Tasks -> Op] /\ wanted' \subseteq Url
    BY <1>6, <2>1 DEF Send, TypeOK, Op
  <2> QED
    BY <1>6, <2>2, <2>3 DEF Send, TypeOK
<1>7. ASSUME NEW t \in Tasks, Cancel(t) PROVE TypeOK'
  BY <1>7 DEF Cancel, pipe, TypeOK, Op
<1>8. CASE Translate
  BY <1>8 DEF Translate, TypeOK
<1>9. CASE PassOn
  <2>1. CASE "feed" \notin dropped
    <3>0. /\ feed' = feed \o held /\ held' = <<>> /\ held # <<>> /\ Len(feed) < RelayCapacity
          /\ UNCHANGED <<phase, inserted, queue, balance, task, dropped, wanted>>
      BY <1>9, <2>1 DEF PassOn
    <3>1. feed' \in Seq(Change) /\ Len(feed') = Len(feed) + Len(held) /\ held' \in Seq(Change)
      BY <3>0 DEF TypeOK
    <3>2. Len(feed') <= RelayCapacity
      BY <3>0, <3>1 DEF TypeOK
    <3> QED
      BY <3>0, <3>1, <3>2 DEF TypeOK
  <2>2. CASE "feed" \in dropped
    <3>1. /\ queue' = <<>> /\ held' = <<>> /\ feed' = feed /\ dropped' = {"queue", "feed"}
          /\ UNCHANGED <<phase, inserted, balance, task, wanted>>
      BY <1>9, <2>2 DEF PassOn
    <3>2. <<>> \in Seq(Change) /\ Len(<<>>) = 0 /\ 0 <= Capacity /\ 0 <= 1
      BY CapacityAssumption
    <3> QED
      BY <3>1, <3>2 DEF TypeOK
  <2> QED
    BY <2>1, <2>2
<1>e. ASSUME EmptyIncoming
      PROVE  /\ queue' \in Seq(Change) /\ Len(queue') <= Capacity
             /\ feed' \in Seq(Change) /\ Len(feed') <= RelayCapacity
  <2>0. <<>> \in Seq(Change) /\ Len(<<>>) = 0 /\ 0 <= Capacity /\ 0 <= RelayCapacity
    BY CapacityAssumption
  <2> QED
    BY <1>e, <2>0 DEF EmptyIncoming, TypeOK
<1>10. ASSUME TakeChanges, task' \in [Tasks -> Op],
              phase' \in {"start", "inserting", "authenticating", "connected", "failed"}
       PROVE  TypeOK'
  <2>1. balance' \subseteq Url
    BY <1>10 DEF TakeChanges, After
  <2> QED
    BY <1>10, <1>e, <2>1 DEF TakeChanges, TypeOK
<1>11. CASE Discover
  BY <1>10, <1>11 DEF Discover, TypeOK
<1>12. ASSUME NEW t \in Tasks, Serve(t) PROVE TypeOK'
  BY <1>10, <1>12 DEF Serve, TypeOK, Op
<1>16. CASE Authenticated
  BY <1>10, <1>16 DEF Authenticated, TypeOK
<1>17. CASE Stop
  BY <1>e, <1>17 DEF Stop, TypeOK
<1>18. ASSUME NEW t \in Tasks, CallFails(t) PROVE TypeOK'
  BY <1>18 DEF CallFails, pipe, TypeOK, Op
<1>19. CASE AuthenticateFails
  BY <1>19 DEF AuthenticateFails, pipe, TypeOK
<1>13. CASE UNCHANGED vars
  BY <1>13 DEF vars, pipe, TypeOK
<1>14. ASSUME NEW t \in Tasks, NEW url \in Urls, AddEndpoint(t, url) \/ RemoveEndpoint(t, url)
       PROVE  TypeOK'
  <2>1. [op |-> "add", url |-> url] \in Op /\ [op |-> "remove", url |-> url] \in Op
    BY DEF Op
  <2> QED
    BY <1>5, <1>14, <2>1 DEF AddEndpoint, RemoveEndpoint
<1>15. ASSUME NEW t \in Tasks, Call(t) PROVE TypeOK'
  <2>1. [op |-> "call", url |-> NoUrl] \in Op
    BY DEF Op
  <2> QED
    BY <1>5, <1>15, <2>1 DEF Call
<1> QED
  BY <1>2, <1>3, <1>4, <1>6, <1>7, <1>8, <1>9, <1>11, <1>12, <1>13, <1>14, <1>15,
     <1>16, <1>17, <1>18, <1>19
  DEF Next, Connect

(* The state stays within its types and the channels within their capacity. *)
THEOREM TypeCorrect == Spec => []TypeOK
<1>1. Init => TypeOK
  BY DEF Init, TypeOK, Op
<1> QED
  BY <1>1, TypeStep, PTL DEF Spec

----------------------------------------------------------------------------
(* The restriction under which remove_endpoint keeps what its documentation   *)
(* says: every URL names its scheme.  Then build_endpoint adds nothing to it, *)
(* and the string of a removal parses to the URI of the endpoint.             *)
SchemesNamed ==
    /\ \A i \in DOMAIN Given : Given[i].scheme # "none"
    /\ \A url \in Urls : url.scheme # "none"

(* The invariant: what is wanted is also named by its URI. *)
MembersInv ==
    /\ TypeOK
    /\ \A url \in wanted : url.scheme # "none"
    /\ ~Stopped => Members = wanted

(* A change that enters the pipeline is the last one to be applied. *)
LEMMA EnqueuedIsLast ==
    ASSUME TypeOK, NEW c \in Change, Enqueue(c), UNCHANGED <<held, feed, balance>>
    PROVE  Members' = After(<<c>>, Members)
<1> DEFINE before == feed \o held \o queue
<1>1. queue' = queue \o <<c>> /\ <<c>> \in Seq(Change)
  BY DEF Enqueue, TypeOK
<1>2. feed \in Seq(Change) /\ held \in Seq(Change) /\ queue \in Seq(Change) /\ balance \in SUBSET Url
  BY DEF TypeOK
<1>3. before \in Seq(Change) /\ feed \o held \o (queue \o <<c>>) = before \o <<c>>
  BY <1>1, <1>2
<1>4. Members' = After(before \o <<c>>, balance)
  BY <1>1, <1>3 DEF Members
<1> HIDE DEF before
<1>5. After(before \o <<c>>, balance) = After(<<c>>, After(before, balance))
  BY <1>1, <1>2, <1>3, AfterSplit
<1> QED
  BY <1>4, <1>5 DEF Members, before

(* Nor does it matter how far the changes have come. *)
LEMMA TakingKeepsMembers ==
    ASSUME TypeOK, TakeChanges, Features # "openssl" => held = <<>> /\ feed = <<>>
    PROVE  Members' = Members
<1>1. feed \in Seq(Change) /\ held \in Seq(Change) /\ queue \in Seq(Change) /\ balance \in SUBSET Url
  BY DEF TypeOK
<1>2. CASE Features = "openssl"
  <2> DEFINE rest == held \o queue
  <2>1. rest \in Seq(Change) /\ feed \o held \o queue = feed \o rest /\ <<>> \o held \o queue = rest
    BY <1>1
  <2>2. Members' = After(rest, After(feed, balance))
    BY <1>2, <2>1 DEF Members, TakeChanges, EmptyIncoming, Incoming
  <2>3. Members = After(feed \o rest, balance)
    BY <2>1 DEF Members
  <2> HIDE DEF rest
  <2> QED
    BY <1>1, <2>1, <2>2, <2>3, AfterSplit
<1>3. CASE Features # "openssl"
  <2>1. feed \o held \o queue = queue /\ <<>> \o <<>> \o <<>> = <<>>
    BY <1>1, <1>3
  <2>2. Members' = After(<<>>, After(queue, balance))
    BY <1>3, <2>1 DEF Members, TakeChanges, EmptyIncoming, Incoming
  <2>3. After(queue, balance) \in SUBSET Url
    BY DEF After
  <2> QED
    BY <2>1, <2>2, <2>3, AfterNone DEF Members
<1> QED
  BY <1>2, <1>3

(* Without OpenSSL the second half of the pipeline is never used.  The first   *)
(* channel is not closed before the balancer has stopped, and then nothing is *)
(* on its way to it any more.                                                *)
Direct ==
    /\ Features # "openssl" => held = <<>> /\ feed = <<>>
    /\ "queue" \in dropped => Stopped
    /\ Stopped => Incoming = <<>>

LEMMA DirectStep == Direct /\ [Next]_vars => Direct'
<1> SUFFICES ASSUME Direct, [Next]_vars PROVE Direct'
  OBVIOUS
<1>1. CASE PassOn
  <2>1. Features = "openssl"
    BY <1>1 DEF Direct, PassOn
  <2> QED
    BY <1>1, <2>1 DEF Direct, PassOn, Stopped, Incoming
<1>2. ASSUME TakeChanges PROVE Direct'
  BY <1>2 DEF Direct, TakeChanges, EmptyIncoming, Stopped, Incoming
<1>3. CASE Stop
  BY <1>3 DEF Direct, Stop, EmptyIncoming, Stopped, Incoming
<1>4. CASE InsertGiven
  BY <1>4 DEF Direct, InsertGiven, Stopped, Incoming
<1>5. ASSUME NEW t \in Tasks, Send(t) PROVE Direct'
  BY <1>5 DEF Direct, Send, Stopped, Incoming
<1>6. CASE Translate
  BY <1>6 DEF Direct, Translate, Stopped, Incoming
<1>7. ASSUME UNCHANGED <<pipe, dropped>> PROVE Direct'
  BY <1>7 DEF Direct, pipe, Stopped, Incoming
<1> QED
  BY <1>1, <1>2, <1>3, <1>4, <1>5, <1>6, <1>7
  DEF Next, Connect, StartConnect, Connected, Authenticated, AuthenticateFails, AddEndpoint,
      RemoveEndpoint, Call, Start, Cancel, Discover, Serve, CallFails, vars, pipe

LEMMA MembersStep ==
    ASSUME SchemesNamed, MembersInv, Direct, [Next]_vars
    PROVE  MembersInv'
<1>1. TypeOK /\ TypeOK'
  BY TypeStep DEF MembersInv
<1>a. UNCHANGED <<dropped>> => Stopped' = Stopped
  BY DEF Stopped
<1>2. \A url \in Url : url.scheme # "none" => EndpointUri(url) = url
  BY DEF EndpointUri
<1>3. CASE InsertGiven /\ "queue" \notin dropped
  <2> DEFINE url == Given[inserted + 1]
  <2>1. url \in Url /\ url.scheme # "none" /\ Insert(url) \in Change
    BY <1>1, <1>3, ChangeTypes DEF InsertGiven, TypeOK, SchemesNamed
  <2>2. /\ Enqueue(Insert(url)) /\ wanted' = wanted \cup {url}
        /\ UNCHANGED <<held, feed, balance, dropped>>
    BY <1>2, <1>3, <2>1 DEF InsertGiven
  <2> HIDE DEF url
  <2>3. Members' = After(<<Insert(url)>>, Members)
    BY <1>1, <2>1, <2>2, EnqueuedIsLast
  <2>4. ~Stopped => Members' = wanted \cup {url}
    BY <1>1, <2>1, <2>3, AfterOne DEF MembersInv, TypeOK
  <2> QED
    BY <1>1, <1>a, <2>1, <2>2, <2>4 DEF MembersInv
<1>4. ASSUME NEW t \in Tasks, Send(t), "queue" \notin dropped PROVE MembersInv'
  <2> DEFINE url == task[t].url
  <2>1. /\ url \in Urls /\ url \in Url /\ url.scheme # "none"
        /\ Insert(url) \in Change /\ Remove(url) \in Change
    BY <1>1, <1>4, ChangeTypes DEF Send, TypeOK, Op, Idle, SchemesNamed
  <2>2. UNCHANGED <<held, feed, balance, dropped>>
    BY <1>4 DEF Send
  <2>3. CASE task[t].op = "add"
    <3>1. Enqueue(Insert(url)) /\ wanted' = wanted \cup {url}
      BY <1>2, <1>4, <2>1, <2>3 DEF Send, ChangeOf
    <3> HIDE DEF url
    <3>2. Members' = After(<<Insert(url)>>, Members)
      BY <1>1, <2>1, <2>2, <3>1, EnqueuedIsLast
    <3>3. ~Stopped => Members' = wanted \cup {url}
      BY <1>1, <2>1, <3>2, AfterOne DEF MembersInv, TypeOK
    <3> QED
      BY <1>1, <1>a, <2>1, <2>2, <3>1, <3>3 DEF MembersInv
  <2>4. CASE task[t].op = "remove"
    <3>1. Enqueue(Remove(url)) /\ wanted' = wanted \ {url}
      BY <1>4, <2>4 DEF Send, ChangeOf
    <3> HIDE DEF url
    <3>2. Members' = After(<<Remove(url)>>, Members)
      BY <1>1, <2>1, <2>2, <3>1, EnqueuedIsLast
    <3>3. ~Stopped => Members' = wanted \ {url}
      BY <1>1, <2>1, <3>2, AfterOne DEF MembersInv, TypeOK
    <3> QED
      BY <1>1, <1>a, <2>2, <3>1, <3>3 DEF MembersInv
  <2> QED
    BY <1>4, <2>3, <2>4 DEF Send
<1>5. ASSUME UNCHANGED <<pipe, balance, dropped, wanted>> PROVE MembersInv'
  BY <1>1, <1>5, <1>a DEF MembersInv, Members, After, pipe
<1>b. ASSUME Stopped', wanted' = wanted PROVE MembersInv'
  BY <1>1, <1>b DEF MembersInv
<1>c. CASE InsertGiven /\ "queue" \in dropped
  BY <1>5, <1>c DEF InsertGiven, pipe
<1>d. ASSUME NEW t \in Tasks, Send(t), "queue" \in dropped PROVE MembersInv'
  BY <1>5, <1>d DEF Send, pipe
<1>f. CASE Stop
  BY <1>b, <1>f DEF Stop, Stopped
<1>6. CASE Translate
  <2>1. feed' \o held' \o queue' = feed \o held \o queue
    BY <1>1, <1>6 DEF Translate, TypeOK
  <2>2. Members' = Members
    BY <1>6, <2>1 DEF Translate, Members
  <2> QED
    BY <1>1, <1>6, <1>a, <2>2 DEF Translate, MembersInv
<1>7. CASE PassOn /\ "feed" \notin dropped
  <2>0. feed' = feed \o held /\ held' = <<>> /\ queue' = queue /\ balance' = balance
    BY <1>7 DEF PassOn
  <2>1. feed' \o held' \o queue' = feed \o held \o queue
    BY <1>1, <2>0 DEF TypeOK
  <2>2. Members' = Members
    BY <2>0, <2>1 DEF Members
  <2> QED
    BY <1>1, <1>7, <1>a, <2>2 DEF PassOn, MembersInv
<1>g. CASE PassOn /\ "feed" \in dropped
  BY <1>b, <1>g DEF PassOn, Stopped
<1>8. ASSUME TakeChanges PROVE MembersInv'
  <2>1. Members' = Members
    BY <1>1, <1>8, TakingKeepsMembers DEF Direct
  <2> QED
    BY <1>1, <1>8, <1>a, <2>1 DEF TakeChanges, MembersInv
<1> QED
  BY <1>3, <1>4, <1>5, <1>6, <1>7, <1>8, <1>c, <1>d, <1>f, <1>g
  DEF Next, Connect, StartConnect, Connected, Authenticated, AuthenticateFails, AddEndpoint,
      RemoveEndpoint, Call, Start, Cancel, Discover, Serve, CallFails, vars, pipe

(* With named schemes, the endpoints that arrive are those that were added and *)
(* not removed: no interleaving of tasks, full channel or relay loses one,    *)
(* brings one back or reorders an addition and a removal.                     *)
THEOREM EndpointsAreWanted == SchemesNamed => (Spec => []MembersAreWanted)
<1> SUFFICES ASSUME SchemesNamed PROVE Spec => []MembersAreWanted
  OBVIOUS
<1>1. Init => MembersInv /\ Direct
  <2> SUFFICES ASSUME Init PROVE MembersInv /\ Direct
    OBVIOUS
  <2>1. TypeOK
    BY DEF Init, TypeOK, Op
  <2>2. <<>> \o <<>> \o <<>> = <<>> /\ {} \in SUBSET Url
    OBVIOUS
  <2>3. Members = {}
    BY <2>2, AfterNone DEF Init, Members
  <2> QED
    BY <2>1, <2>3 DEF Init, MembersInv, Direct, Stopped
<1>2. MembersInv => MembersAreWanted
  BY DEF MembersInv, MembersAreWanted, TypeOK, EndpointUri
<1>3. (MembersInv /\ Direct) /\ [Next]_vars => (MembersInv /\ Direct)'
  BY MembersStep, DirectStep
<1> QED
  BY <1>1, <1>2, <1>3, PTL DEF Spec

----------------------------------------------------------------------------
(* connect and the places its endpoints find *)

(* What the channels take in before anybody reads them: with OpenSSL a change *)
(* may also wait in the hands of the task, and behind it.                     *)
Places == IF Features = "openssl" THEN Capacity + 1 + RelayCapacity ELSE Capacity

(* Nothing can move: the channel is full, and so is what the task passes on to. *)
Blocked ==
    /\ Len(queue) = Capacity
    /\ Features = "openssl" => held # <<>> /\ Len(feed) = RelayCapacity

(* connect, which sends its endpoints before the first request makes the      *)
(* balancer look for them, never waits for room that only a request could     *)
(* make, if it is given no more endpoints than there are places.              *)
ConnectHasRoom ==
    phase = "inserting" /\ inserted < Len(Given) /\ Len(Given) <= Places => ~Blocked

(* While connect sends, nobody takes what it has sent out of the channels:     *)
(* there is no client yet, and so no request.                              *)
ConnectInv ==
    phase \in {"start", "inserting"} =>
        /\ task = [t \in Tasks |-> Idle]
        /\ ~Stopped => Len(queue) + Len(held) + Len(feed) = inserted

LEMMA ConnectStep ==
    ASSUME TypeOK, TypeOK', Direct, ConnectInv, [Next]_vars
    PROVE  ConnectInv'
<1>0. /\ Len(queue) \in Nat /\ Len(held) \in Nat /\ Len(feed) \in Nat /\ inserted \in Nat
      /\ queue \in Seq(Change) /\ held \in Seq(Change) /\ feed \in Seq(Change)
  BY DEF TypeOK
<1>a. UNCHANGED dropped => Stopped' = Stopped
  BY DEF Stopped
<1>1. CASE InsertGiven /\ "queue" \notin dropped
  <2>1. Len(queue') = Len(queue) + 1
    BY <1>0, <1>1 DEF InsertGiven, Enqueue
  <2>2. /\ held' = held /\ feed' = feed /\ task' = task /\ phase' = phase
        /\ inserted' = inserted + 1 /\ Stopped' = Stopped
    BY <1>1, <1>a DEF InsertGiven
  <2>3. /\ task = [t \in Tasks |-> Idle]
        /\ ~Stopped => Len(queue) + Len(held) + Len(feed) = inserted
    BY <1>1 DEF InsertGiven, ConnectInv
  <2>4. ASSUME ~Stopped PROVE Len(queue') + Len(held') + Len(feed') = inserted'
    <3>1. (Len(queue) + 1) + Len(held) + Len(feed) = inserted + 1
      BY <1>0, <2>3, <2>4, MoreByOne
    <3> QED
      BY <2>1, <2>2, <3>1, Zenon
  <2> QED
    BY <2>2, <2>3, <2>4 DEF ConnectInv
<1>2. CASE Translate
  <2>1. Len(held) = 0 /\ Len(held') = 1 /\ Len(queue') = Len(queue) - 1
    BY <1>0, <1>2 DEF Translate
  <2> QED
    BY <1>0, <1>2, <1>a, <2>1 DEF Translate, ConnectInv
<1>3. CASE PassOn /\ "feed" \notin dropped
  <2>0. /\ feed' = feed \o held /\ held' = <<>> /\ UNCHANGED <<phase, inserted, queue, task>>
        /\ Stopped' = Stopped
    BY <1>3, <1>a DEF PassOn
  <2>1. Len(held') = 0 /\ Len(feed') = Len(feed) + Len(held) /\ Len(queue') = Len(queue)
    BY <1>0, <2>0
  <2>2. Len(queue') + Len(held') + Len(feed') = Len(queue) + Len(held) + Len(feed)
    BY <1>0, <2>1
  <2> QED
    BY <2>0, <2>2 DEF ConnectInv
<1>b. ASSUME Stopped', phase' = phase, task' = task PROVE ConnectInv'
  BY <1>b DEF ConnectInv
<1>c. ASSUME phase' \notin {"start", "inserting"} PROVE ConnectInv'
  BY <1>c DEF ConnectInv
<1>4. ASSUME phase \in {"start", "inserting"}, NEW t \in Tasks
      PROVE  task[t].op = "idle" /\ task[t] = Idle
  BY <1>4 DEF ConnectInv, Idle
<1>5. ASSUME NEW t \in Tasks, Send(t) \/ Cancel(t) \/ Serve(t) \/ CallFails(t)
      PROVE  ConnectInv'
  <2>1. phase \notin {"start", "inserting"}
    BY <1>4, <1>5 DEF Send, Cancel, Serve, CallFails
  <2>2. phase' = phase
    BY <1>5 DEF Send, Cancel, Serve, CallFails
  <2> QED
    BY <1>c, <2>1, <2>2
<1>6. CASE Discover
  <2>1. phase \notin {"start", "inserting"} /\ phase' = phase
    BY <1>4, <1>6 DEF Discover, Waiting
  <2> QED
    BY <1>c, <2>1
<1>7. ASSUME NEW t \in Tasks, NEW op, Start(t, op) PROVE ConnectInv'
  BY <1>7 DEF ConnectInv, Start
<1>8. CASE StartConnect \/ UNCHANGED vars
  BY <1>8, <1>a DEF ConnectInv, StartConnect, vars, pipe
<1>9. CASE Connected \/ Authenticated \/ AuthenticateFails
  BY <1>c, <1>9 DEF Connected, Authenticated, AuthenticateFails
<1>10. CASE InsertGiven /\ "queue" \in dropped
  BY <1>c, <1>10 DEF InsertGiven
<1>11. CASE Stop
  BY <1>b, <1>11 DEF Stop, Stopped
<1>12. CASE PassOn /\ "feed" \in dropped
  BY <1>b, <1>12 DEF PassOn, Stopped
<1> QED
  BY <1>1, <1>2, <1>3, <1>5, <1>6, <1>7, <1>8, <1>9, <1>10, <1>11, <1>12
  DEF Next, Connect, AddEndpoint, RemoveEndpoint, Call

LEMMA ConnectInvariant == Spec => [](TypeOK /\ Direct /\ ConnectInv)
<1>1. Init => TypeOK /\ Direct /\ ConnectInv
  BY DEF Init, TypeOK, Op, Direct, ConnectInv, Stopped
<1>2. (TypeOK /\ Direct /\ ConnectInv) /\ [Next]_vars => (TypeOK /\ Direct /\ ConnectInv)'
  BY TypeStep, DirectStep, ConnectStep
<1> QED
  BY <1>1, <1>2, PTL DEF Spec

(* As many endpoints as there are places always find room: connect, or the    *)
(* task behind it, can go on without a request.                             *)
THEOREM GivenEndpointsFit == Spec => []ConnectHasRoom
<1>1. TypeOK /\ Direct /\ ConnectInv => ConnectHasRoom
  <2> SUFFICES ASSUME TypeOK, Direct, ConnectInv, phase = "inserting", inserted < Len(Given),
                      Len(Given) <= Places, Blocked
               PROVE  FALSE
    BY DEF ConnectHasRoom
  <2>0. ~Stopped
    <3>1. CASE Features = "openssl"
      <4> SUFFICES ASSUME feed = <<>> PROVE FALSE
        BY <3>1 DEF Direct, Incoming
      <4>1. Len(feed) = RelayCapacity
        BY <3>1 DEF Blocked
      <4> QED
        BY <4>1
    <3>2. CASE Features # "openssl"
      <4> SUFFICES ASSUME queue = <<>> PROVE FALSE
        BY <3>2 DEF Direct, Incoming
      <4>1. Len(queue) = Capacity
        BY DEF Blocked
      <4> QED
        BY <4>1
    <3> QED
      BY <3>1, <3>2
  <2>1. Len(held) \in Nat /\ Len(held) <= 1
    BY DEF TypeOK
  <2>2. held # <<>> => Len(held) = 1
    <3>1. held \in Seq(Change)
      BY DEF TypeOK
    <3> QED
      BY <2>1, <3>1, OneOrNone, Zenon
  <2>3. Len(queue) + Len(held) + Len(feed) = inserted /\ inserted \in Nat /\ Len(Given) \in Nat
    BY <2>0 DEF ConnectInv, TypeOK
  <2>4. Len(feed) \in Nat /\ Len(queue) \in Nat
    BY DEF TypeOK
  <2> QED
    BY <2>1, <2>2, <2>3, <2>4 DEF Blocked, Places
<1> QED
  BY <1>1, ConnectInvariant, PTL

(* One endpoint more never does: connect with endpoints that can all be built, *)
(* but more of them than there are places, returns neither a client nor an    *)
(* error, whatever is scheduled, unless the balancer stops.                   *)
THEOREM TooManyEndpointsHang ==
    (Len(Given) > Places /\ \A i \in DOMAIN Given : ~Refused(Given[i]))
        => (Spec /\ []~Stopped => ~ConnectReturns)
<1> SUFFICES ASSUME Len(Given) > Places, \A i \in DOMAIN Given : ~Refused(Given[i])
             PROVE  Spec /\ []~Stopped => ~ConnectReturns
  OBVIOUS
<1> DEFINE Connecting == phase \in {"start", "inserting"}
<1>1. Init => Connecting
  BY DEF Init
<1>2. TypeOK /\ Direct /\ ConnectInv /\ ~Stopped /\ Connecting /\ [Next]_vars => Connecting'
  <2> SUFFICES ASSUME TypeOK, Direct, ConnectInv, ~Stopped, Connecting, [Next]_vars
               PROVE  Connecting'
    OBVIOUS
  <2>1. Places \in Nat /\ Places > 0 /\ Len(Given) \in Nat /\ Given # <<>>
    BY DEF Places
  <2>2. ~Connected
    <3> SUFFICES ASSUME phase = "inserting", inserted = Len(Given) PROVE FALSE
      BY DEF Connected
    <3>1. Len(queue) + Len(held) + Len(feed) = inserted
      BY DEF ConnectInv
    <3>2. /\ Len(queue) \in Nat /\ Len(queue) <= Capacity
          /\ Len(held) \in Nat /\ Len(held) <= 1
          /\ Len(feed) \in Nat /\ Len(feed) <= RelayCapacity
      BY DEF TypeOK
    <3>3. Features # "openssl" => Len(held) = 0 /\ Len(feed) = 0
      BY DEF Direct
    <3> QED
      BY <2>1, <3>1, <3>2, <3>3 DEF Places
  <2>3. StartConnect => Connecting'
    BY <2>1 DEF StartConnect
  <2>4. InsertGiven => Connecting'
    BY DEF InsertGiven, Direct
  <2> QED
    BY <2>2, <2>3, <2>4
    DEF Next, Connect, Authenticated, AuthenticateFails, AddEndpoint, RemoveEndpoint, Call,
        Start, Send, Cancel, Translate, PassOn, Discover, Serve, Stop, CallFails, vars
<1>3. Connecting => ~(phase \in {"connected", "failed"})
  OBVIOUS
<1> HIDE DEF Connecting
<1> QED
  BY <1>1, <1>2, <1>3, ConnectInvariant, PTL DEF Spec, ConnectReturns
============================================================================
