---------------------------- MODULE LockService ----------------------------
(***************************************************************************)
(* Locks and elections (src/rpc/lock.rs, src/rpc/election.rs), for clients  *)
(* that call one service under one name: lock and unlock with the lock's    *)
(* key, or campaign, proclaim and resign with a LeaderKey.                  *)
(*                                                                         *)
(* The services (external) do the same for both.  A call that wants the     *)
(* lock puts a key, named by its lease, unless it exists, and waits until   *)
(* no key of an earlier revision is left.  When its call is cancelled, the  *)
(* service takes the key back.  Without a lease the service grants one.     *)
(*                                                                         *)
(* A call may be given up at any moment (ConnectOptions::with_timeout, a    *)
(* dropped future, a lost connection), and made again; what the client gave *)
(* up the server may still run, at any time.                                *)
(***************************************************************************)
EXTENDS Naturals, FiniteSets

CONSTANTS
    Clients,     \* each of them has a lease of its own, named by the client
    NoLease,     \* lease 0
    Nobody,      \* no key
    MaxRevision, \* bound: keys put for the name
    MaxLate      \* bound: requests given up that the server may still run

ASSUME ClientsAssumption == Clients \cap Nat = {} /\ NoLease \notin Clients \cup Nat
ASSUME NobodyAssumption ==
    Nobody \notin [lease : Clients \cup Nat, rev : Nat]
                 \cup [lease : Clients \cup Nat, rev : Nat, by : Clients]
ASSUME BoundsAssumption == MaxRevision \in Nat /\ MaxLate \in Nat

VARIABLES
    service,    \* "lock" or "election"
    leased,     \* the clients lock with their leases, as they campaign
    keys,       \* the keys under the name
    revision,   \* keys put so far
    leases,     \* the leases that live
    call,       \* the call each client has under way
    late,       \* requests of given-up calls that the server may still run
    ticket,     \* what lock or campaign returned last to each client
    value       \* the key in whose name the last guarded update was made

kind == <<service, leased>>
vars == <<kind, keys, revision, leases, call, late, ticket, value>>

(* A key; leases that the service grants are named by the revision.  by is      *)
(* history: the client whose call put the key.                               *)
Entry(lease, rev, by) == [lease |-> lease, rev |-> rev, by |-> by]

Entries == [lease : Clients \cup 1..MaxRevision, rev : 1..MaxRevision, by : Clients]

Idle == [op |-> "none"]

(* No key of an earlier revision is left. *)
First(entry) == \A other \in keys : other.rev >= entry.rev

(* Mutant: what the service keeps is handed out as it is. *)
LockKeyWhole(entry) == entry

(* What is handed out for a key.  of is history: the key itself. *)
Ticket(entry, rev) == [lease |-> entry.lease, rev |-> rev, of |-> entry]

(* LockResponse::key is the name of the key, which the lease gives it. *)
LockKey(entry) == Ticket(entry, 0)

(* Mutant: the revision is left at 0. *)
LeaderKeyWithoutRev(entry) == Ticket(entry, 0)

(* A LeaderKey holds the key's revision as well. *)
LeaderKey(entry) == Ticket(entry, entry.rev)

(* A request names a key; that of an election compares its revision too.       *)
Names(t, entry) ==
    /\ t.lease = entry.lease
    /\ service = "lock" \/ t.rev = entry.rev

Tickets == [lease : Clients \cup 1..MaxRevision, rev : 0..MaxRevision, of : Entries]

Requests == [op : {"unlock", "update"}, ticket : Tickets]

(* A lock call that was given up before the service looked at it. *)
LateLocks == [op : {"lock"}, lease : Clients \cup {NoLease}, by : Clients]

LockCalls ==
    [op : {"lock"}, lease : Clients \cup {NoLease},
     step : {"sent", "waiting", "granted"}, entry : Entries \cup {Nobody}]

Init ==
    /\ service \in {"lock", "election"} /\ leased \in BOOLEAN
    /\ service = "election" => leased
    /\ keys = {} /\ revision = 0 /\ leases = Clients
    /\ call = [c \in Clients |-> Idle] /\ late = {}
    /\ ticket = [c \in Clients |-> Nobody] /\ value = Nobody

----------------------------------------------------------------------------
(* A request for the lock or the leadership. *)
Acquire(lease) == [op |-> "lock", lease |-> lease, step |-> "sent", entry |-> Nobody]

(* Mutant: the lease of the options does not reach the request. *)
LockRequestWithoutLease(lease) == Acquire(NoLease)

(* LockOptions: the lease is optional. *)
LockRequest(lease) == Acquire(lease)

CampaignRequest(lease) == Acquire(lease)

UnlockRequest(t) == [op |-> "unlock", ticket |-> t]

ResignRequest(t) == [op |-> "unlock", ticket |-> t]

ProclaimRequest(t) == [op |-> "update", ticket |-> t]

(* A transaction guarded by the lock's key. *)
GuardedTxn(t) == [op |-> "update", ticket |-> t]

Start(c, request) ==
    /\ call[c] = Idle
    /\ call' = [call EXCEPT ![c] = request]
    /\ UNCHANGED <<kind, keys, revision, leases, late, value>>

(* Mutant: a lock without a lease takes the one the client has anyway. *)
StartLockSession(c) ==
    /\ service = "lock"
    /\ Start(c, LockRequest(c))
    /\ ticket' = [ticket EXCEPT ![c] = Nobody]

(* lock and campaign, again and again; what was returned before is forgotten. *)
StartLock(c) ==
    /\ service = "lock"
    /\ Start(c, LockRequest(IF leased THEN c ELSE NoLease))
    /\ ticket' = [ticket EXCEPT ![c] = Nobody]

StartCampaign(c) ==
    /\ service = "election"
    /\ Start(c, CampaignRequest(c))
    /\ ticket' = [ticket EXCEPT ![c] = Nobody]

Holds(c, what) == service = what /\ ticket[c] # Nobody /\ UNCHANGED ticket

StartUnlock(c) == Holds(c, "lock") /\ Start(c, UnlockRequest(ticket[c]))

StartUpdate(c) == Holds(c, "lock") /\ Start(c, GuardedTxn(ticket[c]))

StartResign(c) == Holds(c, "election") /\ Start(c, ResignRequest(ticket[c]))

StartProclaim(c) == Holds(c, "election") /\ Start(c, ProclaimRequest(ticket[c]))

Returns(c) ==
    /\ call[c].op = "lock" /\ call[c].step = "granted"
    /\ call' = [call EXCEPT ![c] = Idle]
    /\ UNCHANGED <<kind, keys, revision, leases, late, value>>

LockReturns(c) ==
    /\ service = "lock" /\ Returns(c)
    /\ ticket' = [ticket EXCEPT ![c] = LockKey(call[c].entry)]

CampaignReturns(c) ==
    /\ service = "election" /\ Returns(c)
    /\ ticket' = [ticket EXCEPT ![c] = LeaderKey(call[c].entry)]

(* The service deletes the key of a call by what names it. *)
TakeBack(entry) ==
    [op |-> "unlock",
     ticket |-> IF service = "lock" THEN LockKey(entry) ELSE LeaderKey(entry)]

(* What the server may still run of a call that is given up: a request as it   *)
(* is; a lock call it has not looked at; of one that waits, that the service   *)
(* takes the key back.  Nothing undoes a call whose answer is lost.           *)
LeftOf(c) ==
    CASE call[c].op \in {"unlock", "update"} -> {call[c]}
      [] call[c].op = "lock" /\ call[c].step = "sent" ->
            {[op |-> "lock", lease |-> call[c].lease, by |-> c]}
      [] call[c].op = "lock" /\ call[c].step = "waiting" -> {TakeBack(call[c].entry)}
      [] OTHER -> {}

(* Any call may be given up. *)
GiveUp(c) ==
    /\ call[c] # Idle
    /\ call' = [call EXCEPT ![c] = Idle]
    /\ late' \in {late, late \cup LeftOf(c)}
    /\ Cardinality(late') <= MaxLate
    /\ UNCHANGED <<kind, keys, revision, leases, ticket, value>>

----------------------------------------------------------------------------
(* The services *)

KeysOf(lease) == {entry \in keys : entry.lease = lease}

Wait(c, entry) ==
    call' = [call EXCEPT ![c] = [@ EXCEPT !.step = "waiting", !.entry = entry]]

Sent(c) == call[c].op = "lock" /\ call[c].step = "sent"

(* The lease has a key already: the call joins its wait. *)
Join(c) ==
    /\ Sent(c)
    /\ \E entry \in KeysOf(call[c].lease) : Wait(c, entry)
    /\ UNCHANGED <<kind, keys, revision, leases, late, ticket, value>>

(* The key that a call with the lease puts; without one the service grants it. *)
NewKey(lease, c) ==
    Entry(IF lease = NoLease THEN revision + 1 ELSE lease, revision + 1, c)

PutKey(lease, entry) ==
    /\ revision < MaxRevision
    /\ KeysOf(lease) = {} /\ lease \in leases \cup {NoLease}
    /\ keys' = keys \cup {entry} /\ leases' = leases \cup {entry.lease}
    /\ revision' = revision + 1

Put(c) ==
    /\ Sent(c)
    /\ LET entry == NewKey(call[c].lease, c)
       IN  PutKey(call[c].lease, entry) /\ Wait(c, entry)
    /\ UNCHANGED <<kind, late, ticket, value>>

(* Nothing of an earlier revision is left. *)
Grant(c) ==
    /\ call[c].op = "lock" /\ call[c].step = "waiting"
    /\ First(call[c].entry)
    /\ service = "lock" => call[c].entry \in keys
    /\ call' = [call EXCEPT ![c].step = "granted"]
    /\ UNCHANGED <<kind, keys, revision, leases, late, ticket, value>>

(* The lease is gone, or the key was deleted meanwhile. *)
LockError(c) ==
    /\ call[c].op = "lock"
    /\ \/ call[c].step = "sent" /\ call[c].lease \notin leases \cup {NoLease}
       \/ call[c].step = "waiting" /\ call[c].entry \notin keys
    /\ call' = [call EXCEPT ![c] = Idle]
    /\ UNCHANGED <<kind, keys, revision, leases, late, ticket, value>>

Named(t) == {entry \in keys : Names(t, entry)}

Run(request) ==
    \/ /\ request.op = "unlock"
       /\ keys' = keys \ Named(request.ticket)
       /\ UNCHANGED value
    \/ /\ request.op = "update"
       /\ value' \in IF Named(request.ticket) = {} THEN {value} ELSE Named(request.ticket)
       /\ UNCHANGED keys

RunCall(c) ==
    /\ call[c].op \in {"unlock", "update"} /\ Run(call[c])
    /\ call' = [call EXCEPT ![c] = Idle]
    /\ UNCHANGED <<kind, revision, leases, late, ticket>>

RunLate(request) ==
    /\ Run(request)
    /\ late' = late \ {request}
    /\ UNCHANGED <<kind, revision, leases, call, ticket>>

(* The service finds out that nobody waits any more and takes the key back,   *)
(* unless it has granted the lock before.                                   *)
Abandoned(request, entry) ==
    late' \in {late \ {request}, (late \ {request}) \cup {TakeBack(entry)}}

(* The request of a lock call that was given up arrives.                      *)
LockLate(request) ==
    /\ request.op = "lock"
    /\ \/ LET entry == NewKey(request.lease, request.by)
          IN  PutKey(request.lease, entry) /\ Abandoned(request, entry)
       \/ /\ \E entry \in KeysOf(request.lease) : Abandoned(request, entry)
          /\ UNCHANGED <<keys, revision, leases>>
       \/ /\ request.lease \notin leases \cup {NoLease} /\ late' = late \ {request}
          /\ UNCHANGED <<keys, revision, leases>>
    /\ UNCHANGED <<kind, call, ticket, value>>

(* A lease that nobody keeps alive expires, and its key with it. *)
Expire(lease) ==
    /\ leases' = leases \ {lease}
    /\ keys' = keys \ KeysOf(lease)
    /\ UNCHANGED <<kind, revision, call, late, ticket, value>>

Serve(c) == Join(c) \/ Put(c) \/ Grant(c) \/ LockError(c) \/ RunCall(c)

Next ==
    \/ \E c \in Clients :
          \/ StartLock(c) \/ StartUnlock(c) \/ StartUpdate(c) \/ LockReturns(c)
          \/ StartCampaign(c) \/ StartResign(c) \/ StartProclaim(c) \/ CampaignReturns(c)
          \/ GiveUp(c) \/ Serve(c)
    \/ \E request \in late : RunLate(request) \/ LockLate(request)
    \/ \E lease \in leases : Expire(lease)

Spec == Init /\ [][Next]_vars

(* The services do their work and answers are polled.  Leases need not expire. *)
FairSpec ==
    /\ Spec
    /\ \A c \in Clients : WF_vars(Serve(c)) /\ WF_vars(LockReturns(c) \/ CampaignReturns(c))

----------------------------------------------------------------------------
(* Properties *)

(* The state stays within its types. *)
TypeOK ==
    /\ service \in {"lock", "election"} /\ leased \in BOOLEAN
    /\ keys \subseteq Entries /\ revision \in 0..MaxRevision
    /\ leases \subseteq Clients \cup 1..MaxRevision
    /\ call \in [Clients -> LockCalls \cup Requests \cup {Idle}]
    /\ late \subseteq Requests \cup LateLocks /\ Cardinality(late) <= MaxLate
    /\ ticket \in [Clients -> Tickets \cup {Nobody}]
    /\ value \in Entries \cup {Nobody}

(* A key that names its holder: a leader key by its revision, a lock's key if  *)
(* its lease was granted for it.                                            *)
OnceOnly == service = "election" \/ ~leased

(* "Safely ensure updates to etcd only occur while holding lock ownership":    *)
(* however late a proclamation or a guarded transaction arrives, after        *)
(* timeouts, unlocks, expirations and further calls, it takes effect only     *)
(* while the lock is held under the key it names.                            *)
UpdatesOnlyByHolder ==
    [][value' # value /\ OnceOnly => value' \in keys /\ First(value')]_vars

(* The request took effect for the key it was handed out for, if that was     *)
(* still there, and for no other.                                           *)
ForItsKey(request) ==
    LET own == request.ticket.of
    IN  CASE request.op = "unlock" -> keys' = keys \ {own}
          [] request.op = "update" -> value' = IF own \in keys THEN own ELSE value

(* What lock or campaign returned is good for the very hold it was returned    *)
(* for: a proclamation, a resignation or an unlock that runs in time, late,    *)
(* twice, or after the same lease has won again, reaches the key of that hold  *)
(* as long as it lives, and never another one.                              *)
TicketsNameTheirHold ==
    [][OnceOnly =>
          /\ \A c \in Clients : RunCall(c) => ForItsKey(call[c])
          /\ \A request \in late : RunLate(request) => ForItsKey(request)]_vars

(* "Locking twice with the same lease is a no-op": a client that repeats a call *)
(* with its lease, after a timeout or a lost answer, never waits behind the    *)
(* key of its first attempt.                                                *)
RetryJoinsOwnLock ==
    \A c \in Clients :
        (/\ leased /\ call[c].op = "lock" /\ call[c].step = "waiting"
         /\ \E entry \in keys : entry.by = c /\ First(entry)) ~> call[c] = Idle
============================================================================
