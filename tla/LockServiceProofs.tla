-------------------------- MODULE LockServiceProofs --------------------------
(***************************************************************************)
(* Who may act for a lock or a leadership, for any number of clients, keys   *)
(* and late requests.                                                      *)
(*                                                                         *)
(* A key that has been granted stays ahead of all others: they were put      *)
(* later.  So a ticket that names one key only, by its revision or by a      *)
(* lease of its own, is good for ever: the key it names is the holder's, or  *)
(* gone.                                                                   *)
(***************************************************************************)
EXTENDS LockService, FiniteSetTheorems, TLAPS

USE ClientsAssumption, NobodyAssumption, BoundsAssumption

(* The state is well typed, and late is a finite set. *)
TypeInv == TypeOK /\ IsFiniteSet(late)

(* Any request that can be started is a request. *)
LEMMA RequestTypes ==
    ASSUME NEW t \in Tickets
    PROVE  /\ UnlockRequest(t) \in Requests /\ ResignRequest(t) \in Requests
           /\ ProclaimRequest(t) \in Requests /\ GuardedTxn(t) \in Requests
BY DEF UnlockRequest, ResignRequest, ProclaimRequest, GuardedTxn, Requests

LEMMA TicketTypes ==
    ASSUME NEW entry \in Entries
    PROVE  /\ LockKey(entry) \in Tickets /\ LeaderKey(entry) \in Tickets
           /\ TakeBack(entry) \in Requests
BY DEF LockKey, LeaderKey, Ticket, TakeBack, Entries, Tickets, Requests

(* What is still to come is an unlock, an update or a lock call.             *)
LEMMA LateTypes ==
    ASSUME TypeInv, NEW request \in late
    PROVE  /\ request.op # "lock" => request \in Requests
           /\ request.op = "lock" => /\ request.lease \in Clients \cup {NoLease}
                                    /\ request.by \in Clients
BY DEF TypeInv, TypeOK, Requests, LateLocks

(* What a lock call has in its hands when it is no longer waiting for a key. *)
LEMMA LockCallTypes ==
    ASSUME TypeInv, NEW c \in Clients, call[c].op = "lock"
    PROVE  /\ call[c] \in LockCalls
           /\ call[c].step \in {"sent", "waiting", "granted"}
           /\ call[c].lease \in Clients \cup {NoLease}
           /\ call[c].entry \in Entries \cup {Nobody}
BY DEF TypeInv, TypeOK, LockCalls, Requests, Idle

LEMMA RequestCallTypes ==
    ASSUME TypeInv, NEW c \in Clients, call[c].op \in {"unlock", "update"}
    PROVE  call[c] \in Requests /\ call[c].ticket \in Tickets
BY DEF TypeInv, TypeOK, LockCalls, Requests, Idle

(* A lock call that waits, or has been granted, has a key. *)
HasEntry ==
    \A c \in Clients :
        call[c].op = "lock" /\ call[c].step # "sent" => call[c].entry \in Entries

TInv == TypeInv /\ HasEntry

LEMMA InitTyped == Init => TInv
<1> SUFFICES ASSUME Init PROVE TInv
  OBVIOUS
<1>1. IsFiniteSet(late) /\ Cardinality(late) <= MaxLate
  BY FS_EmptySet DEF Init
<1> QED
  BY <1>1 DEF Init, TInv, TypeInv, TypeOK, HasEntry, Idle

(* A new key is one, whoever's call puts it. *)
LEMMA PutTyped ==
    ASSUME TInv, NEW c \in Clients, NEW lease \in Clients \cup {NoLease},
           PutKey(lease, NewKey(lease, c))
    PROVE  /\ NewKey(lease, c) \in Entries
           /\ keys' \subseteq Entries /\ revision' \in 0..MaxRevision
           /\ leases' \subseteq Clients \cup 1..MaxRevision
<1> DEFINE name == IF lease = NoLease THEN revision + 1 ELSE lease
           entry == NewKey(lease, c)
<1>1. name \in Clients \cup 1..MaxRevision /\ revision + 1 \in 1..MaxRevision
  BY DEF PutKey, TInv, TypeInv, TypeOK
<1>2. entry \in Entries /\ entry.lease = name
  BY <1>1 DEF NewKey, Entry, Entries
<1>3. keys' = keys \cup {entry} /\ leases' = leases \cup {entry.lease} /\ revision' = revision + 1
  BY DEF PutKey
<1> HIDE DEF name, entry
<1>4. entry \in Entries /\ keys' \subseteq Entries /\ revision' \in 0..MaxRevision
      /\ leases' \subseteq Clients \cup 1..MaxRevision
  BY <1>1, <1>2, <1>3 DEF TInv, TypeInv, TypeOK
<1> QED
  BY <1>4 DEF entry

(* One more late request, if there is room. *)
LEMMA LateAdded ==
    ASSUME TypeInv, NEW some, some = {} \/ \E request \in Requests \cup LateLocks : some = {request}
    PROVE  IsFiniteSet(late \cup some) /\ late \cup some \subseteq Requests \cup LateLocks
<1>1. CASE some = {}
  BY <1>1 DEF TypeInv, TypeOK
<1>2. CASE some # {}
  <2>1. PICK request \in Requests \cup LateLocks : some = {request}
    BY <1>2
  <2> QED
    BY <2>1, FS_AddElement DEF TypeInv, TypeOK
<1> QED
  BY <1>1, <1>2

LEMMA LateRemoved ==
    ASSUME TypeInv, NEW request \in late
    PROVE  IsFiniteSet(late \ {request}) /\ Cardinality(late \ {request}) <= MaxLate - 1
<1>1. Cardinality(late) \in Nat
  BY FS_CardinalityType DEF TypeInv
<1>2. IsFiniteSet(late \ {request}) /\ Cardinality(late \ {request}) = Cardinality(late) - 1
  BY FS_RemoveElement DEF TypeInv
<1> QED
  BY <1>1, <1>2 DEF TypeInv, TypeOK

(* What is left of a lock call that was given up takes the place of its request. *)
LEMMA AbandonedTyped ==
    ASSUME TypeInv, NEW request \in late, NEW entry \in Entries, Abandoned(request, entry)
    PROVE  IsFiniteSet(late') /\ Cardinality(late') <= MaxLate /\ late' \subseteq Requests \cup LateLocks
<1> DEFINE rest == late \ {request}
<1>1. IsFiniteSet(rest) /\ Cardinality(rest) <= MaxLate - 1
  BY LateRemoved
<1>2. rest \subseteq Requests \cup LateLocks
  BY DEF TypeInv, TypeOK
<1>3. TakeBack(entry) \in Requests
  BY TicketTypes
<1>4. late' = rest \/ late' = rest \cup {TakeBack(entry)}
  BY DEF Abandoned
<1> HIDE DEF rest
<1>5. /\ IsFiniteSet(rest \cup {TakeBack(entry)}) /\ Cardinality(rest) \in Nat
      /\ \/ Cardinality(rest \cup {TakeBack(entry)}) = Cardinality(rest)
         \/ Cardinality(rest \cup {TakeBack(entry)}) = Cardinality(rest) + 1
  BY <1>1, FS_AddElement, FS_CardinalityType
<1>6. CASE late' = rest
  BY <1>1, <1>2, <1>5, <1>6
<1>7. CASE late' = rest \cup {TakeBack(entry)}
  BY <1>1, <1>2, <1>3, <1>5, <1>7
<1> QED
  BY <1>4, <1>6, <1>7

(* The services run a request; its ticket is one. *)
LEMMA RunTyped ==
    ASSUME TInv, NEW request \in Requests, Run(request)
    PROVE  keys' \subseteq Entries /\ keys' \subseteq keys /\ value' \in Entries \cup {Nobody}
BY DEF TInv, TypeInv, TypeOK, Run, Named, Requests

LEMMA StepTyped == TInv /\ [Next]_vars => TInv'
<1> SUFFICES ASSUME TInv, [Next]_vars PROVE TInv'
  OBVIOUS
<1> USE DEF TInv
<1>1. ASSUME NEW c \in Clients, StartLock(c) \/ StartCampaign(c) PROVE TInv'
  <2>1. PICK lease \in Clients \cup {NoLease} : call' = [call EXCEPT ![c] = Acquire(lease)]
    BY <1>1 DEF StartLock, StartCampaign, Start, LockRequest, CampaignRequest
  <2>2. Acquire(lease) \in LockCalls /\ Acquire(lease).op = "lock" /\ Acquire(lease).step = "sent"
    BY DEF Acquire, LockCalls
  <2>3. TypeInv'
    BY <1>1, <2>1, <2>2 DEF StartLock, StartCampaign, Start, TypeInv, TypeOK, kind
  <2> QED
    BY <2>1, <2>2, <2>3 DEF TypeInv, TypeOK, HasEntry
<1>2. ASSUME NEW c \in Clients,
             StartUnlock(c) \/ StartUpdate(c) \/ StartResign(c) \/ StartProclaim(c)
      PROVE  TInv'
  <2>1. ticket[c] \in Tickets
    BY <1>2 DEF StartUnlock, StartUpdate, StartResign, StartProclaim, Holds, TypeInv, TypeOK
  <2>2. PICK request \in Requests : call' = [call EXCEPT ![c] = request]
    BY <1>2, <2>1, RequestTypes DEF StartUnlock, StartUpdate, StartResign, StartProclaim, Start
  <2>3. TypeInv'
    BY <1>2, <2>2 DEF StartUnlock, StartUpdate, StartResign, StartProclaim, Start, Holds,
                      TypeInv, TypeOK, kind
  <2> QED
    BY <2>2, <2>3 DEF TypeInv, TypeOK, HasEntry, Requests
<1>3. ASSUME NEW c \in Clients, LockReturns(c) \/ CampaignReturns(c) PROVE TInv'
  <2>1. call[c].entry \in Entries
    BY <1>3 DEF LockReturns, CampaignReturns, Returns, HasEntry
  <2>2. ticket' \in [Clients -> Tickets \cup {Nobody}]
    BY <1>3, <2>1, TicketTypes DEF LockReturns, CampaignReturns, TypeInv, TypeOK
  <2>3. TypeInv'
    BY <1>3, <2>2 DEF LockReturns, CampaignReturns, Returns, TypeInv, TypeOK, kind
  <2> QED
    BY <1>3, <2>3 DEF LockReturns, CampaignReturns, Returns, TypeInv, TypeOK, HasEntry, Idle
<1>4. ASSUME NEW c \in Clients, GiveUp(c) PROVE TInv'
  <2>1. /\ call' = [call EXCEPT ![c] = Idle] /\ Cardinality(late') <= MaxLate
        /\ UNCHANGED <<kind, keys, revision, leases, ticket, value>>
    BY <1>4 DEF GiveUp
  <2>2. LeftOf(c) = {} \/ \E request \in Requests \cup LateLocks : LeftOf(c) = {request}
    <3>1. CASE call[c].op \in {"unlock", "update"}
      BY <3>1, RequestCallTypes DEF LeftOf
    <3>2. CASE call[c].op = "lock" /\ call[c].step = "sent"
      <4>1. [op |-> "lock", lease |-> call[c].lease, by |-> c] \in LateLocks
        BY <3>2, LockCallTypes DEF LateLocks
      <4> QED
        BY <3>2, <4>1 DEF LeftOf
    <3>3. CASE call[c].op = "lock" /\ call[c].step = "waiting"
      BY <3>3, TicketTypes DEF LeftOf, HasEntry
    <3> QED
      BY <3>1, <3>2, <3>3 DEF LeftOf
  <2>3. IsFiniteSet(late') /\ late' \subseteq Requests \cup LateLocks
    <3>1. late' = late \/ late' = late \cup LeftOf(c)
      BY <1>4 DEF GiveUp
    <3> QED
      BY <2>2, <3>1, LateAdded DEF TypeInv, TypeOK
  <2> QED
    BY <2>1, <2>3 DEF TypeInv, TypeOK, HasEntry, kind, Idle
<1>5. ASSUME NEW c \in Clients, Join(c) \/ Put(c) \/ Grant(c) PROVE TInv'
  <2>1. call[c] \in LockCalls /\ call[c].op = "lock"
    BY <1>5, LockCallTypes DEF Join, Put, Grant, Sent
  <2>2. /\ keys' \subseteq Entries /\ revision' \in 0..MaxRevision
        /\ leases' \subseteq Clients \cup 1..MaxRevision
        /\ \E entry \in Entries : \E step \in {"waiting", "granted"} :
              call' = [call EXCEPT ![c] = [@ EXCEPT !.step = step, !.entry = entry]]
    <3>1. CASE Join(c)
      BY <3>1 DEF Join, KeysOf, Wait, TypeInv, TypeOK
    <3>2. CASE Put(c)
      <4>1. PICK entry : /\ entry = NewKey(call[c].lease, c)
                         /\ PutKey(call[c].lease, entry) /\ Wait(c, entry)
        BY <3>2 DEF Put
      <4>2. call[c].lease \in Clients \cup {NoLease}
        BY <2>1 DEF LockCalls
      <4>3. /\ entry \in Entries /\ keys' \subseteq Entries /\ revision' \in 0..MaxRevision
            /\ leases' \subseteq Clients \cup 1..MaxRevision
        BY <4>1, <4>2, PutTyped
      <4> QED
        BY <4>1, <4>3 DEF Wait
    <3>3. CASE Grant(c)
      <4>1. call[c].entry \in Entries
        BY <3>3 DEF Grant, HasEntry
      <4>2. [call[c] EXCEPT !.step = "granted"]
              = [call[c] EXCEPT !.step = "granted", !.entry = call[c].entry]
        BY <2>1 DEF LockCalls
      <4>3. call' = [call EXCEPT ![c] = [call[c] EXCEPT !.step = "granted"]]
        BY <3>3 DEF Grant
      <4> QED
        BY <3>3, <4>1, <4>2, <4>3 DEF Grant, TypeInv, TypeOK
    <3> QED
      BY <1>5, <3>1, <3>2, <3>3
  <2>3. PICK entry \in Entries, step \in {"waiting", "granted"} :
          call' = [call EXCEPT ![c] = [@ EXCEPT !.step = step, !.entry = entry]]
    BY <2>2
  <2>4. call' \in [Clients -> LockCalls \cup Requests \cup {Idle}] /\ call'[c].entry \in Entries
    BY <2>1, <2>3 DEF TypeInv, TypeOK, LockCalls
  <2>5. UNCHANGED <<kind, late, ticket, value>>
    BY <1>5 DEF Join, Put, Grant
  <2>6. TypeInv'
    BY <2>2, <2>4, <2>5 DEF TypeInv, TypeOK, kind
  <2> QED
    BY <2>3, <2>4, <2>6 DEF TypeInv, TypeOK, HasEntry
<1>6. ASSUME NEW c \in Clients, LockError(c) PROVE TInv'
  BY <1>6 DEF LockError, TypeInv, TypeOK, HasEntry, kind, Idle
<1>7. ASSUME NEW c \in Clients, RunCall(c) PROVE TInv'
  <2>1. keys' \subseteq Entries /\ value' \in Entries \cup {Nobody}
    BY <1>7, RequestCallTypes, RunTyped DEF RunCall
  <2> QED
    BY <1>7, <2>1 DEF RunCall, TypeInv, TypeOK, HasEntry, kind, Idle
<1>8. ASSUME NEW request \in late, RunLate(request) PROVE TInv'
  <2>1. keys' \subseteq Entries /\ value' \in Entries \cup {Nobody}
    BY <1>8, RunTyped, LateTypes DEF RunLate, Run
  <2>2. IsFiniteSet(late') /\ Cardinality(late') <= MaxLate /\ late' \subseteq late
    <3>1. late' = late \ {request} /\ Cardinality(late') <= MaxLate - 1 /\ IsFiniteSet(late')
      BY <1>8, LateRemoved DEF RunLate
    <3>2. Cardinality(late') \in Nat
      BY <3>1, FS_CardinalityType
    <3> QED
      BY <3>1, <3>2
  <2> QED
    BY <1>8, <2>1, <2>2 DEF RunLate, TypeInv, TypeOK, HasEntry, kind
<1>9. ASSUME NEW lease \in leases, Expire(lease) PROVE TInv'
  BY <1>9 DEF Expire, TypeInv, TypeOK, HasEntry, kind
<1>11. ASSUME NEW request \in late, LockLate(request) PROVE TInv'
  <2>1. request.lease \in Clients \cup {NoLease} /\ request.by \in Clients
    BY <1>11, LateTypes DEF LockLate
  <2>2. /\ keys' \subseteq Entries /\ revision' \in 0..MaxRevision
        /\ leases' \subseteq Clients \cup 1..MaxRevision
        /\ late' = late \ {request} \/ \E entry \in Entries : Abandoned(request, entry)
    <3>1. CASE UNCHANGED <<keys, revision, leases>>
      BY <1>11, <2>1, <3>1, PutTyped DEF LockLate, KeysOf, TypeInv, TypeOK
    <3>2. CASE ~UNCHANGED <<keys, revision, leases>>
      <4>1. PICK entry : /\ entry = NewKey(request.lease, request.by)
                         /\ PutKey(request.lease, entry) /\ Abandoned(request, entry)
        BY <1>11, <3>2 DEF LockLate
      <4> QED
        BY <2>1, <4>1, PutTyped
    <3> QED
      BY <3>1, <3>2
  <2>3. IsFiniteSet(late') /\ Cardinality(late') <= MaxLate /\ late' \subseteq Requests \cup LateLocks
    <3>1. CASE late' = late \ {request}
      <4>1. IsFiniteSet(late') /\ Cardinality(late') <= MaxLate - 1
        BY <3>1, LateRemoved
      <4>2. Cardinality(late') \in Nat
        BY <4>1, FS_CardinalityType
      <4> QED
        BY <3>1, <4>1, <4>2 DEF TypeInv, TypeOK
    <3>2. CASE \E entry \in Entries : Abandoned(request, entry)
      BY <3>2, AbandonedTyped
    <3> QED
      BY <2>2, <3>1, <3>2
  <2>4. UNCHANGED <<kind, call, ticket, value>>
    BY <1>11 DEF LockLate
  <2> QED
    BY <2>2, <2>3, <2>4 DEF TypeInv, TypeOK, HasEntry, kind
<1>10. CASE UNCHANGED vars
  BY <1>10 DEF vars, kind, TypeInv, TypeOK, HasEntry
<1> QED
  BY <1>1, <1>2, <1>3, <1>4, <1>5, <1>6, <1>7, <1>8, <1>9, <1>10, <1>11 DEF Next, Serve

(* The state stays within its types, for any number of clients: what the      *)
(* calls of lock.rs and election.rs send, return and leave behind.            *)
THEOREM TypeCorrect == Spec => []TypeOK
<1>1. Spec => []TInv
  BY InitTyped, StepTyped, PTL DEF Spec
<1>2. TInv => TypeOK
  BY DEF TInv, TypeInv
<1> QED
  BY <1>1, <1>2, PTL

----------------------------------------------------------------------------
(* Who is ahead *)

(* No key of a revision before rev is left. *)
Clear(rev) == \A other \in keys : other.rev >= rev

(* The revision a ticket names: a leader key holds it, and a lease that was   *)
(* granted for one key has its name.                                        *)
RevOf(t) == IF service = "election" THEN t.rev ELSE t.lease

(* The ticket has been granted. *)
Good(t) == RevOf(t) \in 1..revision /\ Clear(RevOf(t))

(* A key that has been put: no other one has its revision. *)
Held(entry) ==
    /\ entry.rev \in 1..revision
    /\ ~leased => entry.lease = entry.rev
    /\ \A other \in keys : other.rev = entry.rev => other = entry

(* The ticket has what names its key. *)
Fits(t) ==
    /\ Held(t.of) /\ t.lease = t.of.lease
    /\ service = "election" => t.rev = t.of.rev

KeysInv == \A entry \in keys : Held(entry)

KindInv == service = "election" => leased

CallsInv ==
    \A c \in Clients : call[c].op = "lock" =>
        /\ ~leased => call[c].lease = NoLease
        /\ call[c].step # "sent" => Held(call[c].entry)
        /\ call[c].step = "granted" => Clear(call[c].entry.rev)

(* What is still to come names its key, and for an update that was granted.    *)
Pending(request) ==
    /\ request.op = "update" => Good(request.ticket)
    /\ request.op \in {"unlock", "update"} => Fits(request.ticket)

TicketsInv == \A c \in Clients : ticket[c] # Nobody => Good(ticket[c]) /\ Fits(ticket[c])

(* A late lock call is as leased as the others. *)
LateInv == \A request \in late : request.op = "lock" /\ ~leased => request.lease = NoLease

RequestsInv ==
    /\ \A c \in Clients : Pending(call[c])
    /\ \A request \in late : Pending(request)

IInv == KindInv /\ KeysInv /\ CallsInv /\ LateInv /\ (OnceOnly => TicketsInv /\ RequestsInv)

LEMMA InitAhead == Init => IInv
BY DEF Init, IInv, KindInv, KeysInv, CallsInv, LateInv, TicketsInv, RequestsInv, Pending, Idle, OnceOnly

(* What every step leaves true: later keys have later revisions, and others    *)
(* only go.                                                                 *)
Forward ==
    /\ UNCHANGED kind
    /\ revision' \in Nat /\ revision' >= revision
    /\ \A entry \in keys' : entry \in keys \/ entry.rev = revision + 1

LEMMA StepsGoForward == TInv /\ [Next]_vars => Forward
<1> SUFFICES ASSUME TInv, [Next]_vars PROVE Forward
  OBVIOUS
<1>1. revision \in Nat /\ keys \subseteq Entries
  BY DEF TInv, TypeInv, TypeOK
<1>2. ASSUME NEW c, NEW lease, PutKey(lease, NewKey(lease, c)), UNCHANGED kind PROVE Forward
  BY <1>1, <1>2 DEF PutKey, NewKey, Forward, Entry
<1>3. ASSUME NEW c \in Clients,
             \/ StartLock(c) \/ StartUnlock(c) \/ StartUpdate(c) \/ LockReturns(c)
             \/ StartCampaign(c) \/ StartResign(c) \/ StartProclaim(c) \/ CampaignReturns(c)
             \/ GiveUp(c) \/ Join(c) \/ Grant(c) \/ LockError(c)
      PROVE  Forward
  BY <1>1, <1>3 DEF StartLock, StartUnlock, StartUpdate, LockReturns, StartCampaign,
                    StartResign, StartProclaim, CampaignReturns, Start, Returns, GiveUp,
                    Join, Grant, LockError, Forward, kind
<1>4. ASSUME NEW c \in Clients, RunCall(c) PROVE Forward
  BY <1>1, <1>4 DEF RunCall, Run, Forward, kind
<1>5. ASSUME NEW request \in late, RunLate(request) PROVE Forward
  BY <1>1, <1>5 DEF RunLate, Run, Forward, kind
<1>6. ASSUME NEW lease \in leases, Expire(lease) PROVE Forward
  BY <1>1, <1>6 DEF Expire, Forward, kind
<1>8. ASSUME NEW c \in Clients, Put(c) PROVE Forward
  BY <1>2, <1>8 DEF Put
<1>9. ASSUME NEW request \in late, LockLate(request) PROVE Forward
  BY <1>1, <1>2, <1>9 DEF LockLate, Forward, kind
<1>7. CASE UNCHANGED vars
  BY <1>1, <1>7 DEF vars, Forward, kind
<1> QED
  BY <1>3, <1>4, <1>5, <1>6, <1>7, <1>8, <1>9 DEF Next, Serve

(* What is granted stays granted. *)
LEMMA GrantedForGood ==
    ASSUME TInv, Forward, NEW rev \in 1..revision, Clear(rev)
    PROVE  rev \in 1..revision' /\ Clear(rev)'
<1>1. revision \in Nat /\ keys \subseteq Entries
  BY DEF TInv, TypeInv, TypeOK
<1>2. ASSUME NEW other \in keys' PROVE other.rev >= rev
  BY <1>1, <1>2 DEF Clear, Forward
<1> QED
  BY <1>1, <1>2 DEF Clear, Forward

LEMMA GoodForGood ==
    ASSUME TInv, Forward, NEW t, Good(t)
    PROVE  Good(t)'
<1> DEFINE rev == RevOf(t)
<1>1. rev \in 1..revision /\ Clear(rev) /\ RevOf(t)' = rev
  BY DEF Good, RevOf, kind, Forward
<1> HIDE DEF rev
<1>2. rev \in 1..revision' /\ (\A other \in keys' : other.rev >= rev)
  BY <1>1, GrantedForGood DEF Clear
<1> QED
  BY <1>1, <1>2 DEF Good, Clear

LEMMA HeldForGood ==
    ASSUME TInv, Forward, NEW entry, Held(entry)
    PROVE  Held(entry)'
<1>1. revision \in Nat /\ keys \subseteq Entries
  BY DEF TInv, TypeInv, TypeOK
<1>2. ASSUME NEW other \in keys', other.rev = entry.rev PROVE other = entry
  BY <1>1, <1>2 DEF Forward, Held
<1> QED
  BY <1>1, <1>2 DEF Forward, Held, kind

LEMMA FitsForGood ==
    ASSUME TInv, Forward, NEW t, Fits(t)
    PROVE  Fits(t)'
<1>1. Held(t.of)'
  BY HeldForGood DEF Fits
<1> QED
  BY <1>1 DEF Fits, Forward, kind

(* A key that is put is a new one. *)
LEMMA PutIsHeld ==
    ASSUME TInv, IInv, NEW c, NEW lease, NEW new, new = NewKey(lease, c), PutKey(lease, new),
           ~leased => lease = NoLease, UNCHANGED kind
    PROVE  Held(new)' /\ \A entry \in keys' : entry \in keys \/ entry = new
<1>1. /\ new.rev = revision + 1 /\ (~leased => new.lease = revision + 1)
      /\ revision' = revision + 1 /\ keys' = keys \cup {new} /\ leased' = leased
  BY DEF NewKey, PutKey, Entry, kind
<1>2. revision \in Nat /\ \A other \in keys : other.rev \in 1..revision
  BY DEF TInv, TypeInv, TypeOK, IInv, KeysInv, Held
<1>3. Held(new)'
  BY <1>1, <1>2 DEF Held
<1> QED
  BY <1>1, <1>3

(* A ticket names the key that has been granted. *)
LEMMA GrantedIsGood ==
    ASSUME TInv, IInv, OnceOnly, NEW c \in Clients, Returns(c)
    PROVE  /\ service = "lock" => Good(LockKey(call[c].entry)) /\ Fits(LockKey(call[c].entry))
           /\ service = "election" =>
                  Good(LeaderKey(call[c].entry)) /\ Fits(LeaderKey(call[c].entry))
<1> DEFINE entry == call[c].entry
<1>1. Held(entry) /\ Clear(entry.rev)
  BY DEF Returns, IInv, CallsInv
<1> HIDE DEF entry
<1>2. service = "lock" => ~leased
  BY DEF OnceOnly
<1>3. service = "lock" => Good(LockKey(entry)) /\ Fits(LockKey(entry))
  BY <1>1, <1>2 DEF Good, RevOf, Fits, LockKey, Ticket, Held
<1>4. service = "election" => Good(LeaderKey(entry)) /\ Fits(LeaderKey(entry))
  BY <1>1 DEF Good, RevOf, Fits, LeaderKey, Ticket, Held
<1> QED
  BY <1>3, <1>4 DEF entry

LEMMA StepKeys == TInv /\ IInv /\ [Next]_vars => KeysInv'
<1> SUFFICES ASSUME TInv, IInv, [Next]_vars, Forward PROVE KeysInv'
  BY StepsGoForward
<1>1. ASSUME NEW entry \in keys', entry \in keys PROVE Held(entry)'
  BY <1>1, HeldForGood DEF IInv, KeysInv
<1>2. ASSUME NEW entry \in keys', entry \notin keys PROVE Held(entry)'
  <2>1. (\E c \in Clients : Put(c)) \/ (\E request \in late : LockLate(request))
    <3>1. ~(keys' \subseteq keys)
      BY <1>2
    <3> QED
      BY <3>1 DEF Next, Serve, StartLock, StartUnlock, StartUpdate, LockReturns, StartCampaign,
                  StartResign, StartProclaim, CampaignReturns, Start, Returns, GiveUp, Join,
                  Grant, LockError, RunCall, RunLate, Run, Expire, vars
  <2>2. ASSUME NEW c, NEW lease, PutKey(lease, NewKey(lease, c)), UNCHANGED kind,
               ~leased => lease = NoLease
        PROVE  Held(entry)'
    <3>1. PICK new : new = NewKey(lease, c)
      OBVIOUS
    <3> QED
      BY <1>2, <2>2, <3>1, PutIsHeld
  <2>3. ASSUME NEW c \in Clients, Put(c) PROVE Held(entry)'
    <3>1. ~leased => call[c].lease = NoLease
      BY <2>3 DEF Put, Sent, IInv, CallsInv
    <3> QED
      BY <2>2, <2>3, <3>1 DEF Put
  <2>4. ASSUME NEW request \in late, LockLate(request) PROVE Held(entry)'
    <3>1. ~leased => request.lease = NoLease
      BY <2>4 DEF LockLate, IInv, LateInv
    <3> QED
      BY <1>2, <2>2, <2>4, <3>1 DEF LockLate
  <2> QED
    BY <2>1, <2>3, <2>4
<1> QED
  BY <1>1, <1>2 DEF KeysInv

(* A call that is left alone, or is no lock call. *)
LEMMA CallKept ==
    ASSUME TInv, IInv, Forward, NEW d \in Clients,
           call'[d] = call[d] \/ call'[d].op # "lock"
    PROVE  call'[d].op = "lock" =>
              /\ (~leased => call[d].lease = NoLease)'
              /\ (call[d].step # "sent" => Held(call[d].entry))'
              /\ (call[d].step = "granted" => Clear(call[d].entry.rev))'
<1> SUFFICES ASSUME call'[d] = call[d], call'[d].op = "lock"
             PROVE  /\ (~leased => call[d].lease = NoLease)'
                    /\ (call[d].step # "sent" => Held(call[d].entry))'
                    /\ (call[d].step = "granted" => Clear(call[d].entry.rev))'
  OBVIOUS
<1> DEFINE rev == call[d].entry.rev
           entry == call[d].entry
<1>1. /\ ~leased => call[d].lease = NoLease
      /\ call[d].step # "sent" => Held(entry)
      /\ call[d].step = "granted" => Clear(rev) /\ rev \in 1..revision
  <2>1. call[d].op = "lock"
    OBVIOUS
  <2> QED
    BY <2>1 DEF IInv, CallsInv, Held
<1>2. rev' = rev /\ entry' = entry /\ leased' = leased
  BY DEF Forward, kind
<1>3. call[d].step # "sent" => Held(entry)'
  <2> SUFFICES ASSUME call[d].step # "sent" PROVE Held(entry)'
    OBVIOUS
  <2>1. PICK old : old = entry
    OBVIOUS
  <2>2. Held(old)'
    BY <1>1, <2>1, HeldForGood
  <2> QED
    BY <1>2, <2>1, <2>2
<1>4. call[d].step = "granted" => \A other \in keys' : other.rev >= rev
  <2> HIDE DEF rev
  <2> QED
    BY <1>1, GrantedForGood DEF Clear
<1> QED
  BY <1>1, <1>2, <1>3, <1>4 DEF Held, Clear

LEMMA StepCalls == TInv /\ IInv /\ [Next]_vars => CallsInv'
<1> SUFFICES ASSUME TInv, IInv, [Next]_vars, Forward, NEW d \in Clients,
                    ~(call'[d] = call[d] \/ call'[d].op # "lock")
             PROVE  /\ (~leased => call[d].lease = NoLease)'
                    /\ (call[d].step # "sent" => Held(call[d].entry))'
                    /\ (call[d].step = "granted" => Clear(call[d].entry.rev))'
  BY StepsGoForward, CallKept DEF CallsInv
<1> USE DEF TInv, TypeInv, TypeOK
<1>1. CASE StartLock(d) \/ StartCampaign(d)
  <2>1. call'[d] = Acquire(IF leased THEN d ELSE NoLease)
    BY <1>1 DEF StartLock, StartCampaign, Start, LockRequest, CampaignRequest, IInv, KindInv
  <2> QED
    BY <2>1 DEF Acquire, Forward, kind
<1>2. CASE Join(d)
  <2>1. PICK entry \in KeysOf(call[d].lease) : Wait(d, entry)
    BY <1>2 DEF Join
  <2>2. entry \in keys /\ call[d].op = "lock" /\ Held(entry)
    BY <1>2, <2>1 DEF KeysOf, Join, Sent, IInv, KeysInv
  <2>3. call[d] \in LockCalls
    BY <2>2, LockCallTypes
  <2>4. call'[d].entry = entry /\ call'[d].step = "waiting" /\ call'[d].lease = call[d].lease
    BY <2>1, <2>3 DEF Wait, LockCalls
  <2>5. (~leased => call[d].lease = NoLease) /\ UNCHANGED <<leased, revision, keys>>
    BY <1>2, <2>2 DEF Join, kind, IInv, CallsInv
  <2> QED
    BY <2>2, <2>4, <2>5 DEF Held
<1>3. CASE Put(d)
  <2>1. PICK entry : /\ entry = NewKey(call[d].lease, d) /\ Wait(d, entry)
                     /\ PutKey(call[d].lease, entry)
    BY <1>3 DEF Put
  <2>2. call[d] \in LockCalls /\ (~leased => call[d].lease = NoLease) /\ UNCHANGED kind
    BY <1>3, LockCallTypes DEF Put, Sent, IInv, CallsInv
  <2>3. Held(entry)'
    BY <2>1, <2>2, PutIsHeld
  <2>4. call'[d].entry = entry /\ call'[d].step = "waiting" /\ call'[d].lease = call[d].lease
    BY <2>1, <2>2 DEF Wait, LockCalls
  <2> QED
    BY <2>2, <2>3, <2>4 DEF kind
<1>4. CASE Grant(d)
  <2>1. call[d] \in LockCalls
    BY <1>4, LockCallTypes DEF Grant
  <2>2. /\ call'[d].entry = call[d].entry /\ call'[d].lease = call[d].lease
        /\ UNCHANGED <<leased, revision, keys>>
    BY <1>4, <2>1 DEF Grant, LockCalls, kind
  <2>3. /\ Held(call[d].entry) /\ (~leased => call[d].lease = NoLease)
        /\ Clear(call[d].entry.rev)
    BY <1>4 DEF Grant, First, Clear, IInv, CallsInv
  <2> QED
    BY <2>2, <2>3 DEF Held, Clear
<1>5. StartLock(d) \/ StartCampaign(d) \/ Join(d) \/ Put(d) \/ Grant(d)
  <2>1. ASSUME NEW c \in Clients,
               StartUnlock(c) \/ StartUpdate(c) \/ StartResign(c) \/ StartProclaim(c)
        PROVE  FALSE
    BY <2>1 DEF StartUnlock, StartUpdate, StartResign, StartProclaim, Start, UnlockRequest,
                GuardedTxn, ResignRequest, ProclaimRequest
  <2>2. ASSUME NEW c \in Clients,
               LockReturns(c) \/ CampaignReturns(c) \/ GiveUp(c) \/ LockError(c) \/ RunCall(c)
        PROVE  FALSE
    BY <2>2 DEF LockReturns, CampaignReturns, Returns, GiveUp, LockError, RunCall, Idle
  <2>3. ASSUME NEW c \in Clients, StartLock(c) \/ StartCampaign(c) \/ Join(c) \/ Put(c) \/ Grant(c)
        PROVE  c = d
    BY <2>3 DEF StartLock, StartCampaign, Start, Join, Put, Wait, Grant
  <2>4. ~UNCHANGED call
    OBVIOUS
  <2> QED
    BY <2>1, <2>2, <2>3, <2>4 DEF Next, Serve, RunLate, LockLate, Expire, vars
<1> QED
  BY <1>1, <1>2, <1>3, <1>4, <1>5

LEMMA StepTickets == TInv /\ IInv /\ OnceOnly /\ [Next]_vars => TicketsInv'
<1> SUFFICES ASSUME TInv, IInv, OnceOnly, [Next]_vars, Forward,
                    NEW d \in Clients, (ticket[d] # Nobody)'
             PROVE  Good(ticket[d])' /\ Fits(ticket[d])'
  BY StepsGoForward DEF TicketsInv
<1>3. PICK t : t = ticket'[d]
  OBVIOUS
<1>1. CASE t = ticket[d]
  <2>1. Good(t) /\ Fits(t)
    BY <1>1, <1>3 DEF IInv, TicketsInv
  <2>2. Good(t)' /\ Fits(t)'
    BY <2>1, GoodForGood, FitsForGood
  <2> QED
    BY <2>2, <1>3
<1>2. CASE t # ticket[d]
  <2>1. LockReturns(d) \/ CampaignReturns(d)
    <3>1. ASSUME NEW c \in Clients, LockReturns(c) \/ CampaignReturns(c) PROVE c = d
      BY <1>2, <1>3, <3>1 DEF LockReturns, CampaignReturns, TInv, TypeInv, TypeOK
    <3>2. ASSUME NEW c \in Clients, StartLock(c) \/ StartCampaign(c) PROVE FALSE
      BY <1>2, <1>3, <3>2 DEF StartLock, StartCampaign, TInv, TypeInv, TypeOK
    <3> QED
      BY <1>2, <1>3, <3>1, <3>2 DEF Next, Serve, StartUnlock, StartUpdate, StartResign, StartProclaim,
                  Holds, GiveUp, Join, Put, Grant, LockError, RunCall, RunLate, LockLate, Expire, vars
  <2>2. Returns(d) /\ ticket \in [Clients -> Tickets \cup {Nobody}] /\ UNCHANGED <<keys, revision, kind>>
    BY <2>1 DEF LockReturns, CampaignReturns, Returns, TInv, TypeInv, TypeOK
  <2>3. Good(t) /\ Fits(t)
    BY <1>3, <2>1, <2>2, GrantedIsGood DEF LockReturns, CampaignReturns
  <2> QED
    BY <2>3, <1>3, GoodForGood, FitsForGood
<1> QED
  BY <1>1, <1>2

(* A request that is left alone stays pending. *)
LEMMA PendingForGood ==
    ASSUME TInv, Forward, NEW request, Pending(request)
    PROVE  Pending(request)'
<1>1. request.op = "update" => Good(request.ticket)'
  BY GoodForGood DEF Pending
<1>2. request.op \in {"unlock", "update"} => Fits(request.ticket)'
  BY FitsForGood DEF Pending
<1> QED
  BY <1>1, <1>2 DEF Pending

LEMMA StepRequests == TInv /\ IInv /\ OnceOnly /\ [Next]_vars => RequestsInv'
<1> SUFFICES ASSUME TInv, IInv, OnceOnly, [Next]_vars, Forward PROVE RequestsInv'
  BY StepsGoForward
<1>1. TicketsInv /\ RequestsInv /\ KindInv /\ CallsInv
  BY DEF IInv
<1>2. ASSUME NEW request,
             (\E c \in Clients : request = call[c]) \/ request \in late \/ request.op \notin {"unlock", "update"}
      PROVE  Pending(request)'
  BY <1>1, <1>2, PendingForGood DEF RequestsInv, Pending
<1>3. ASSUME NEW c \in Clients, NEW t, ticket[c] # Nobody, t = ticket[c], NEW op,
             NEW request, request.ticket = t, request.op = op
      PROVE  Pending(request)'
  <2>1. Good(t) /\ Fits(t)
    BY <1>1, <1>3 DEF TicketsInv
  <2>2. Pending(request)
    BY <1>3, <2>1 DEF Pending
  <2> QED
    BY <2>2, PendingForGood
<1>4. ASSUME NEW request \in late' PROVE Pending(request)'
  <2>1. CASE request \in late
    BY <2>1, <1>2
  <2>2. CASE request \notin late
    <3>1. \/ \E c \in Clients : GiveUp(c)
          \/ \E other \in late : LockLate(other)
      BY <2>2, <1>4 DEF Next, Serve, StartLock, StartUnlock, StartUpdate, LockReturns, StartCampaign,
                  StartResign, StartProclaim, CampaignReturns, Start, Returns, Join, Put,
                  Grant, LockError, RunCall, RunLate, Expire, vars
    <3>2. ASSUME NEW entry, Held(entry) \/ Held(entry)', request = TakeBack(entry)
          PROVE  Pending(request)'
      <4>1. Held(entry)'
        BY <3>2, HeldForGood
      <4>2. /\ request.op = "unlock" /\ request.ticket.of = entry
            /\ request.ticket.lease = entry.lease
            /\ service = "election" => request.ticket.rev = entry.rev
        BY <3>2, <1>1 DEF TakeBack, LockKey, LeaderKey, Ticket, KindInv
      <4>3. Fits(request.ticket)'
        BY <4>1, <4>2 DEF Fits, Forward, kind
      <4> QED
        BY <4>2, <4>3 DEF Pending
    <3>3. ASSUME NEW c \in Clients, GiveUp(c) PROVE Pending(request)'
      <4>1. request \in LeftOf(c)
        BY <1>4, <2>2, <3>3 DEF GiveUp
      <4>2. CASE request = call[c] \/ request.op = "lock"
        BY <4>2, <1>2
      <4>3. CASE ~(request = call[c] \/ request.op = "lock")
        <5>1. call[c].op = "lock" /\ call[c].step = "waiting" /\ request = TakeBack(call[c].entry)
          BY <4>1, <4>3 DEF LeftOf
        <5>2. Held(call[c].entry)
          BY <1>1, <5>1 DEF CallsInv
        <5> QED
          BY <3>2, <5>1, <5>2
      <4> QED
        BY <4>2, <4>3
    <3>4. ASSUME NEW other \in late, LockLate(other) PROVE Pending(request)'
      <4>1. PICK entry : Abandoned(other, entry) /\ (Held(entry) \/ Held(entry)')
        <5>1. CASE \E entry \in KeysOf(other.lease) : Abandoned(other, entry)
          BY <5>1 DEF KeysOf, IInv, KeysInv
        <5>2. CASE ~(\E entry \in KeysOf(other.lease) : Abandoned(other, entry))
          <6>1. other.op = "lock" /\ UNCHANGED kind
            BY <3>4 DEF LockLate
          <6>2. PutKey(other.lease, NewKey(other.lease, other.by))
                /\ Abandoned(other, NewKey(other.lease, other.by))
            BY <3>4, <5>2, <1>4, <2>2 DEF LockLate
          <6>3. ~leased => other.lease = NoLease
            BY <6>1 DEF IInv, LateInv
          <6>4. PICK new : /\ new = NewKey(other.lease, other.by)
                           /\ PutKey(other.lease, new) /\ Abandoned(other, new)
            BY <6>2
          <6>5. Held(new)'
            BY <6>1, <6>3, <6>4, PutIsHeld
          <6> QED
            BY <6>4, <6>5
        <5> QED
          BY <5>1, <5>2
      <4>2. request = TakeBack(entry)
        BY <4>1, <1>4, <2>2 DEF Abandoned
      <4> QED
        BY <3>2, <4>1, <4>2
    <3> QED
      BY <3>1, <3>3, <3>4
  <2> QED
    BY <2>1, <2>2
<1>5. ASSUME NEW d \in Clients PROVE Pending(call[d])'
  <2>2. PICK request : request = call'[d]
    OBVIOUS
  <2>1. Pending(request)'
    <3>1. CASE request = call[d] \/ request.op \notin {"unlock", "update"}
      BY <3>1, <1>2
    <3>2. CASE ~(request = call[d] \/ request.op \notin {"unlock", "update"})
      <4>1. StartUnlock(d) \/ StartUpdate(d) \/ StartResign(d) \/ StartProclaim(d)
        <5>1. ASSUME NEW c \in Clients, Join(c) \/ Put(c) \/ Grant(c) PROVE FALSE
          <6>1. call[c] \in LockCalls /\ call[c].op = "lock"
            BY <5>1, LockCallTypes DEF Join, Put, Grant, Sent, TInv
          <6>2. PICK new : new.op = "lock" /\ call' = [call EXCEPT ![c] = new]
            <7>1. ASSUME NEW entry, Wait(c, entry)
                  PROVE  \E new : new.op = "lock" /\ call' = [call EXCEPT ![c] = new]
              BY <7>1, <6>1 DEF Wait, LockCalls
            <7>2. CASE Join(c)
              BY <7>1, <7>2 DEF Join
            <7>3. CASE Put(c)
              BY <7>1, <7>3 DEF Put
            <7>4. CASE Grant(c)
              BY <6>1, <7>4 DEF Grant, LockCalls
            <7> QED
              BY <5>1, <7>2, <7>3, <7>4
          <6> QED
            BY <2>2, <3>2, <6>2 DEF TInv, TypeInv, TypeOK
        <5>2. ASSUME NEW c \in Clients,
                     \/ StartLock(c) \/ StartCampaign(c) \/ LockReturns(c) \/ CampaignReturns(c)
                     \/ GiveUp(c) \/ LockError(c) \/ RunCall(c)
              PROVE  FALSE
          BY <2>2, <3>2, <5>2 DEF StartLock, StartCampaign, Start, LockRequest, CampaignRequest, Acquire,
              LockReturns, CampaignReturns, Returns, GiveUp, LockError, RunCall, Idle,
              TInv, TypeInv, TypeOK
        <5>3. ASSUME NEW c \in Clients,
                     StartUnlock(c) \/ StartUpdate(c) \/ StartResign(c) \/ StartProclaim(c)
              PROVE  c = d
          BY <2>2, <3>2, <5>3 DEF StartUnlock, StartUpdate, StartResign, StartProclaim, Start,
              TInv, TypeInv, TypeOK
        <5> QED
          BY <2>2, <3>2, <5>1, <5>2, <5>3 DEF Next, Serve, RunLate, LockLate, Expire, vars
      <4>2. ticket[d] # Nobody /\ request.ticket = ticket[d]
        BY <2>2, <4>1 DEF StartUnlock, StartUpdate, StartResign, StartProclaim, Start, Holds, UnlockRequest,
              GuardedTxn, ResignRequest, ProclaimRequest, TInv, TypeInv, TypeOK
      <4> QED
        BY <4>2, <1>3
    <3> QED
      BY <3>1, <3>2
  <2> QED
    BY <2>1, <2>2
<1> QED
  BY <1>4, <1>5 DEF RequestsInv

LEMMA StepLate == TInv /\ IInv /\ [Next]_vars => LateInv'
<1> SUFFICES ASSUME TInv, IInv, [Next]_vars, Forward, NEW request \in late', request.op = "lock", ~leased
             PROVE  request.lease = NoLease
  BY StepsGoForward DEF LateInv, Forward, kind
<1>1. CASE request \in late
  BY <1>1 DEF IInv, LateInv
<1>2. CASE request \notin late
  <2>1. \/ \E c \in Clients : GiveUp(c)
        \/ \E other \in late : LockLate(other)
    BY <1>2 DEF Next, Serve, StartLock, StartUnlock, StartUpdate, LockReturns, StartCampaign,
                StartResign, StartProclaim, CampaignReturns, Start, Returns, Join, Put,
                Grant, LockError, RunCall, RunLate, Expire, vars
  <2>2. ASSUME NEW c \in Clients, GiveUp(c) PROVE request.lease = NoLease
    <3>1. request \in LeftOf(c)
      BY <1>2, <2>2 DEF GiveUp
    <3>2. call[c].op = "lock" /\ request.lease = call[c].lease
      BY <3>1 DEF LeftOf, TakeBack
    <3> QED
      BY <3>2 DEF IInv, CallsInv
  <2>3. ASSUME NEW other \in late, LockLate(other) PROVE FALSE
    BY <1>2, <2>3 DEF LockLate, Abandoned, TakeBack
  <2> QED
    BY <2>1, <2>2, <2>3
<1> QED
  BY <1>1, <1>2

LEMMA StepAhead == TInv /\ IInv /\ [Next]_vars => IInv'
<1> SUFFICES ASSUME TInv, IInv, [Next]_vars PROVE IInv'
  OBVIOUS
<1>1. KindInv' /\ (OnceOnly' => OnceOnly)
  BY StepsGoForward DEF IInv, KindInv, Forward, kind, OnceOnly
<1> QED
  BY <1>1, StepKeys, StepCalls, StepLate, StepTickets, StepRequests DEF IInv

LEMMA Ahead == Spec => [](TInv /\ IInv)
<1>1. Init => TInv /\ IInv
  BY InitTyped, InitAhead
<1>2. TInv /\ IInv /\ [Next]_vars => (TInv /\ IInv)'
  BY StepTyped, StepAhead
<1> QED
  BY <1>1, <1>2, PTL DEF Spec

(* The key a pending request names is its own, if that is still there. *)
LEMMA NamedIsOwn ==
    ASSUME TInv, IInv, OnceOnly, NEW request \in Requests, Pending(request)
    PROVE  Named(request.ticket) = keys \cap {request.ticket.of}
<1> DEFINE own == request.ticket.of
<1>1. Fits(request.ticket)
  BY DEF Pending, Requests
<1>2. ASSUME NEW entry \in keys, Names(request.ticket, entry) PROVE entry = own
  <2>1. Held(entry) /\ KindInv
    BY DEF IInv, KeysInv
  <2>2. entry.rev = own.rev
    BY <1>1, <1>2, <2>1 DEF Names, Fits, Held, OnceOnly
  <2> QED
    BY <1>1, <2>2 DEF Fits, Held
<1>3. own \in keys => Names(request.ticket, own)
  BY <1>1 DEF Fits, Names, IInv, KindInv, TInv, TypeInv, TypeOK
<1> QED
  BY <1>2, <1>3 DEF Named

(* A pending update takes effect for the holder. *)
LEMMA UpdateByHolder ==
    ASSUME TInv, IInv, OnceOnly, NEW request \in Requests, Pending(request), Run(request),
           value' # value
    PROVE  value' \in keys /\ keys' = keys /\ First(value')
<1>1. request.op = "update" /\ keys' = keys /\ value' \in Named(request.ticket)
  BY DEF Run
<1>2. value' \in keys /\ value' = request.ticket.of
  BY <1>1, NamedIsOwn
<1>3. Good(request.ticket) /\ Fits(request.ticket) /\ KindInv
  BY <1>1 DEF Pending, IInv
<1>4. value'.rev = RevOf(request.ticket)
  BY <1>2, <1>3 DEF Fits, RevOf, Held, OnceOnly, TInv, TypeInv, TypeOK
<1>5. First(value')
  BY <1>3, <1>4 DEF Good, Clear, First
<1> QED
  BY <1>1, <1>2, <1>5

(* Any request that runs, in time or late, is one that was pending. *)
LEMMA RunsArePending ==
    ASSUME TInv, IInv, OnceOnly
    PROVE  /\ \A c \in Clients :
                 RunCall(c) => call[c] \in Requests /\ Pending(call[c]) /\ Run(call[c])
           /\ \A request \in late :
                 RunLate(request) => request \in Requests /\ Pending(request) /\ Run(request)
<1>1. RequestsInv
  BY DEF IInv
<1>2. ASSUME NEW c \in Clients, RunCall(c)
      PROVE  call[c] \in Requests /\ Pending(call[c]) /\ Run(call[c])
  BY <1>1, <1>2, RequestCallTypes DEF RunCall, RequestsInv, TInv
<1>3. ASSUME NEW request \in late, RunLate(request)
      PROVE  request \in Requests /\ Pending(request) /\ Run(request)
  <2>1. Run(request) /\ request.op # "lock"
    BY <1>3 DEF RunLate, Run
  <2> QED
    BY <1>1, <2>1, LateTypes DEF RequestsInv, TInv
<1> QED
  BY <1>2, <1>3

(* "Safely ensure updates to etcd only occur while holding lock ownership"     *)
(* (lock.rs, proclaim in election.rs): whatever is given up, repeated, lost or  *)
(* late, an update takes effect only for the holder the ticket names.         *)
THEOREM OnlyTheHolderUpdates == Spec => UpdatesOnlyByHolder
<1> DEFINE Step == value' # value /\ OnceOnly => value' \in keys /\ First(value')
<1>1. ASSUME TInv, IInv, [Next]_vars PROVE Step
  <2> SUFFICES ASSUME value' # value, OnceOnly PROVE value' \in keys /\ First(value')
    OBVIOUS
  <2>1. (\E c \in Clients : RunCall(c)) \/ (\E request \in late : RunLate(request))
    BY <1>1 DEF Next, Serve, StartLock, StartUnlock, StartUpdate, LockReturns, StartCampaign,
           StartResign, StartProclaim, CampaignReturns, Start, Returns, GiveUp, Join, Put,
           Grant, LockError, LockLate, Expire, vars
  <2>2. PICK request \in Requests : Pending(request) /\ Run(request)
    BY <1>1, <2>1, RunsArePending
  <2> QED
    BY <1>1, <2>2, UpdateByHolder
<1>2. TInv /\ IInv /\ [Next]_vars => [Step]_vars
  BY <1>1
<1> QED
  BY <1>2, Ahead, PTL DEF Spec, UpdatesOnlyByHolder

(* What lock and campaign return is good for the hold it was returned for, and *)
(* for no other, for any number of clients, keys, leases and late requests    *)
(* (LockResponse::key in lock.rs, LeaderKey in election.rs).                  *)
THEOREM TicketsReachTheirHold == Spec => TicketsNameTheirHold
<1> DEFINE Step == OnceOnly =>
              /\ \A c \in Clients : RunCall(c) => ForItsKey(call[c])
              /\ \A request \in late : RunLate(request) => ForItsKey(request)
<1>1. ASSUME TInv, IInv PROVE Step
  <2>1. ASSUME OnceOnly, NEW request \in Requests, Pending(request), Run(request)
        PROVE  ForItsKey(request)
    <3>1. Named(request.ticket) = keys \cap {request.ticket.of}
      BY <1>1, <2>1, NamedIsOwn
    <3>2. CASE request.op = "unlock"
      BY <2>1, <3>1, <3>2 DEF Run, ForItsKey
    <3>3. CASE request.op = "update"
      BY <2>1, <3>1, <3>3 DEF Run, ForItsKey
    <3> QED
      BY <3>2, <3>3 DEF Requests
  <2> QED
    BY <1>1, <2>1, RunsArePending
<1>2. TInv /\ IInv => [Step]_vars
  BY <1>1
<1> QED
  BY <1>2, Ahead, PTL DEF TicketsNameTheirHold
=============================================================================
