# A TLA+ model of the etcd client

This directory models the etcd v3 client library in `src/` in TLA+. The modules
are written from the Rust code; TLC checks them on small instances and TLAPS
proves the main results for every value of the constants. Line numbers are those
of the files under `src/`; the exact lines of each definition are in
`PROJECT.json` ("map").

## 1. The system

The library is a thin client over `tonic`. It keeps little state, but what it
keeps is shared by every clone of a `Client` and used by futures that interleave
at every `await` and that may be dropped at any of them.

| Component | Code | State | Operations |
|---|---|---|---|
| Session and retry | `src/src/caller.rs` | credentials and token, each behind its own `Arc<RwLock>` | `do_call` (with one retry after `Unauthenticated`), `refresh_token`, `update_user`, `do_authenticate` |
| Interceptor | `src/src/intercept.rs` | the same token | attaches the token to a request as it leaves |
| Sub-clients | `src/src/rpc/*.rs` | none | build requests; seven go through `ClientCaller`, `AuthClient` does not |
| Client | `src/src/client.rs` | options, sender of endpoint changes | `connect`, `add_endpoint`, `remove_endpoint`, forwarding |
| Channel | `src/src/channel.rs` | none | tonic or OpenSSL transport |
| OpenSSL discover | `src/src/openssl_tls/transport.rs` | two bounded channels, one task between them | turns endpoint changes into channels |
| OpenSSL back-off | `src/src/openssl_tls/backoff.rs` | per endpoint: last failure, current and next duration | `fail`, `success`, `failed`, `load` |
| Key ranges | `src/src/rpc/mod.rs` | key, range end, three flags | `with_*` builders, `build`, `get_prefix` |
| Namespaces | `src/src/namespace/`, `src/src/vec.rs` | the prefix | prefix requests, strip responses |
| Transactions | `src/src/rpc/kv.rs` | order flags of the builder | `when`, `and_then`, `or_else` |
| Watch streams | `src/src/rpc/watch.rs` | channel of 100 requests, response stream | `watch`, `cancel`, `request_progress`, `message` |
| Lease keep-alive | `src/src/rpc/lease.rs` | channel of 100 requests, response stream | `keep_alive` |
| Lock, election | `src/src/rpc/lock.rs`, `election.rs` | none in the client | one request each |
| Permissions | `src/src/rpc/auth.rs` | type, key, range end, flag | conversions from and to the wire |
| Maintenance, cluster, errors, generated code | the rest | none | wrappers |

How they interact:

- `connect` makes the transport, wraps it in the interceptor, hands one
  `ClientCallerBuilder` to seven sub-clients and runs `refresh_token`. All
  requests, `Authenticate` included, leave through the interceptor.
- `do_call` on any clone may write the token which the interceptor reads for all.
- `add_endpoint` and `remove_endpoint` talk to the balancer only through bounded
  channels; the balancer reads them only when it has a request to place.
- With OpenSSL every insertion creates a fresh `BackOffStatus`; the futures of
  requests report to the status they started with.
- Namespaced clients wrap `KvClient` and `LeaseClient`, and depend on when
  `KeyRange::build` resolves its flags.
- `watch` and `keep_alive` queue their first request in a channel, hand the
  receiver to a streaming call made through `do_call`, and keep the sender; the
  response stream ends independently of it.

What is hard here, and what makes each component correct:

- **Session.** Two locks, released between the steps of one operation; stale
  credentials across an `await`; a retry of requests that are not idempotent;
  cancellation anywhere. Correct: a call runs at most once and is reported
  truthfully; one expiration never surfaces; token and credentials belong to one
  user; every operation returns.
- **Endpoints.** Bounded channels that nobody reads until there is traffic; the
  identity of an endpoint is recomputed from a string. Correct: the endpoints are
  those added and not removed; nothing waits for ever.
- **Back-off.** Reports arrive in any order, long after the event. Correct: the
  duration stays on its ladder and does not outgrow the outage, whether or not anybody
  asks for the load; endpoints that stay down climb it and recovered ones return.
- **Key ranges, namespaces.** Bytes that wrap, empty keys, flags that outlive
  their selector, prefixing before or after flags are resolved. Correct: a
  request selects the keys asked for; a namespace is a store of its own.
- **Watch streams.** A bounded channel and a response stream that the
  application has to read; ids that may be chosen, refused or used again; watches
  whose answers are still on their way. Correct: requests arrive in order,
  responses find their watch, a watch sees each revision once, and whoever reads
  while sending is never stuck.
- **Lease keep-alive.** A queued keep-alive is not a renewed lease; calls that were
  given up run late; the first response decides about the stream. Correct: an
  application that counts responses from the time of their calls never takes an
  expired lease for alive.
- **Lock, election.** Calls that wait on the server, are given up and repeated;
  keys kept long after they are gone. Correct: what is done in the name of a key
  takes effect only while the key holds the lock.
- **Permissions, transactions.** A permission that is read back guesses its
  selector from a range end; builder methods panic out of order. Correct: what is
  granted can be found and revoked; a transaction is the one asked for.

## 2. The modules

| Module | Models | Uses |
|---|---|---|
| `EtcdRpc` | every remote procedure, which of them carry the token (`TokenAttached`) and which are retried (`ViaCaller`) | |
| `ClientCaller` | the session: shared credentials and token, tasks on clones, the server's tokens | `EtcdRpc`, `Session` |
| `Session` | abstract: one session that changes in one step | |
| `RequestStream` | the request half of a bidirectional stream: channel, transport, the call and its retry | |
| `WatchStream` | one watch stream: handles, responses, the server's watchers, the application's book of its watches | `RequestStream`, `Watches` |
| `Watches` | abstract: what the book of watches may do | |
| `LeaseKeepAlive` | a lease with its clock, the unary calls on it, the keep-alive stream and its keeper | `RequestStream` |
| `LockService` | locks and elections: calls given up, repeated and run late | |
| `KeyRange` | `get_prefix`, the builder and `build` as operators; etcd's reading of a request; the reference `Asked` | |
| `Permissions` | `Permission` and its conversions, the options of a revocation, the range of a `Compare` | `KeyRange` |
| `Builders` | the builders in use: options, permissions, comparisons and transactions, one action per method | `Permissions` |
| `Namespace` | `KvClientPrefix`, `LeaseClientPrefix` on a store shared with others | `KeyRange`, `KvStore` |
| `KvStore` | abstract: a store of one's own | `KeyRange` |
| `BackOff` | `BackOffStatus` of every endpoint, concurrent requests, clocks, failing servers | |
| `Endpoints` | `connect`, `add_endpoint`, `remove_endpoint`, both channels and the OpenSSL task | |
| `MCClientCaller`, `MCNamespace`, `MCEndpoints` | instances for TLC; the other modules are instantiated by their `.cfg` alone | |
| `ClientCallerProofs`, `RequestStreamProofs`, `WatchStreamProofs`, `LeaseKeepAliveProofs`, `LockServiceProofs`, `BackOffProofs`, `EndpointsProofs`, `KeyRangeProofs` | theorems | |

Operators marked "Mutant" in a comment stand before the definition they vary.
Each is a plausible bug of that code; nothing uses them, and `PROJECT.json`
("mutants") says which property notices which.

### ClientCaller

`creds` and `token` are the two `RwLock`s. Each lock is held for a single read
or write, so an access is one action and everything between two accesses may
interleave. `pc[t]` is where the future of task `t` stands, `job[t]` its locals:

| Code | Actions |
|---|---|
| `do_call` (caller.rs 137-159) | `StartCall`, `Send`, `HandleAnswer`, and on the retry `ReadCreds`, ..., `Install`, `Send` again |
| `refresh_token` (93-102) | `ReadCreds`, `AuthGranted`, `Install`, or `Clear` without credentials |
| `update_user` (105-122) | `StartUpdate`, `AuthGranted`, `Install` or `Clear`, `Commit` |
| `connect` (client.rs 119-142) | `StartConnect`, then as `refresh_token`; `Finish` hands out the client |
| `Interceptor::call` | `HeaderFor`, in `Send`, `ReadCreds` and `StartUpdate` |
| a dropped future | `Cancel` |
| the server (external) | `ServerRejects`, `ServerExecutes`, `RequestFails`, `AuthGranted`, `AuthFails`, `AuthAnswerLost`, `Expire` |

`tried` and `runs` in a job are history. The server rejects a forgotten token
with `Unauthenticated` before it runs the request, and answers everything else in
any way it likes. The tokens of a user are numbered in the order of their issue,
which only names them.

`ExclusiveUpdates` is a discipline of the application: `update_user` runs with no
other operation under way. `&mut self` enforces it for one handle, but not across
clones.

### RequestStream

`WatchClient::watch` (watch.rs 63-80) and `LeaseClient::keep_alive` (lease.rs
103-124) set up a stream in the same way, so both modules extend this one. `queue`
is the channel of 100 requests, `wire` what the transport (external) has taken from
it and the server has not read. `sending` is the request of a `send` that waits for
room: `StartSend`, then `FinishSend` when there is room, `SendFails` when the
receiver is gone, `DropSend` when the future is dropped. `Open` puts the first
request into the channel before the call; `Refused` and `Retry` are the retry of
`do_call`, whose closure clones the request into a new channel. `Opened` is the arrival of the
headers. A gRPC server sends them with its first message, so a call whose first
request came after it would wait for ever: the mutant `OpenEmpty`. `End` loses what
is in the channel and on the wire, although the sends of those requests returned
`Ok`. `sent` and `handled` are history.

### WatchStream

| Code | Actions |
|---|---|
| `WatchClient::watch` (watch.rs 57-80) | `OpenWatch`, `Transport` (refusal, retry), `WatchOpened` or `WatchFails` |
| `WatchStream::watch`, `cancel`, `request_progress`, and of `WatchRequestSender` | `WatchAgain`, `Cancel`, `RequestProgress`, then `CallReturns`, `Transport` (a failed send) or `GiveUpCall` |
| `split`, a dropped sender half | `Split`, `DropSender` |
| `message` | `Message`: takes a response, and the application notes it |
| the server (external) | `Handle` (create, refuse, cancel, progress), `Emit`, `GiveUp`, `Write`, `StreamEnds` |

`handle` says which handles the application has. A whole `WatchStream` is borrowed
by `message` for as long as it waits, so it cannot send meanwhile, and a send that
waits for room keeps it from reading: the guard of `Message`. `view` is the
application's book of its watches, kept from the responses alone: an answer to a
creation belongs to the earliest watch without one, everything else to the live watch with
that id. The call numbers `n` in requests and responses are history and say to whom
they really belong.

### LeaseKeepAlive

`left` is the server's clock for the lease and `Tick` lets time pass for everybody.
`call` is the `grant`, `revoke` or `time_to_live` under way; a call that was given up
may stay behind in `late` and run at any time. `OpenKeepAlive` to `TakeNone` are
`LeaseClient::keep_alive`, which takes the first response itself (lease.rs 112-118);
`StartKeepAlive`, `KeepAliveReturns` and `KeepAliveGivenUp` are
`LeaseKeeper::keep_alive`, and `Message` is `LeaseKeepAliveStream::message`. `ages`
and `trusted` are what a careful application computes: the age of each keep-alive
that has no response yet, and how long it may still hold the lease for alive if it
counts a response from the time of the call it answers.

### LockService

The client keeps no state of its own here: `lock` and `campaign` return a key, and
what matters is what the server does with the requests that carry it. Both services
are external and modelled by what they do for one name; `leased` says whether the application
locks with a lease of its own. `ticket[c]` is what the client keeps:
a `LockResponse` key is a name only, a `LeaderKey` also has the revision (`LockKey`,
`LeaderKey`). A request of the lock service is compared with the name alone, one of the
election service with the revision as well (`Names`). `GiveUp` may leave something in
`late` (`LeftOf`): the request of an unlock or update; a lock call that the service has not
looked at yet, which `LockLate` runs later, putting a key that the service takes back when it finds
nobody waiting, or does not; and for a call that waits, that attempt to take the key back
(`TakeBack`). `by` in a key and `of` in a ticket are history.

### KeyRange, Permissions, Builders, Namespace

A byte is `0..ByteMax` and `ByteMax` stands for `0xFF`. `Build` and `GetPrefix`
follow the code; `Asked` says in terms of the keys themselves what the
documentation of a selector promises; `InRequest` is etcd's reading of a key and
a range end. `Builders` calls the methods of a builder in any order: selectors on
options that are then used for a call, or for several; on a permission that may be granted
and read back (`ReadBack`, which guesses its selector from the range end,
auth.rs 755-768); on a comparison; and the lists of a transaction, whose
order assertions panic. `Namespace` runs the operations of `KvClientPrefix`: `get`
and `delete` prefix the options and then build, transactions build and then prefix,
in both branches and in transactions within them. `TimeToLive` is given a lease to which any
keys of the store are attached, those of other clients too. The code takes the prefix off and
filters nothing, so `KvStore` has an exception for it: the answer holds the own keys of the
lease and, beside them, those of strangers. In `Builders`, `key` is the key the application
gave, and `cleared` whether a permission has been asked for all keys, which takes its key
for good.

### BackOff

`Fail`, `Success`, `BackingOff` and `Cleared` are the methods of `BackOffStatus`.
An `Instant` is modelled by its age, which `Tick` lengthens and which stops at
`Horizon`, beyond every back-off. `Send` is one choice of the balancer (external): between
two endpoints that are ready, with the calls of `load` it makes, or of the only ready one, which
is taken without asking, so that a failure that is over stays set. `Report` is
`TraceFailFuture::poll` at the end of a request; `Reinsert` replaces an endpoint
while its requests are under way. `outage` is history.

### Endpoints

`queue` is the channel whose sender the client keeps (64 places, with OpenSSL
16). With OpenSSL, `held` is the change in the hands of the translating task and
`feed` the second channel (16). `Features` is the set of compiled features
(`plain`, `tls`, `openssl`) and `Secure` whether there are TLS options: together
they decide the scheme in `EndpointUri` and what `build_endpoint` refuses.
`Send(t)` is the completion of a `tx.send(..).await`. `connect` ends with `Connected`, or with
the answer to its `Authenticate` if there are credentials (`Authenticated`). `wanted` is
history: the strings connected to or added, and not removed since.

`Stop` is the end of the buffer's worker, for any reason, with the receiver it owns: `dropped`
holds the channels without a receiver. Sends on such a channel fail in `InsertGiven`, `Send` and
`PassOn`; the translating task then ends, but only when it has a change in its hands, and its own
channel goes with it. Requests that wait end with an error (`CallFails`, `AuthenticateFails`).

The buffer and the balancer are external. The one assumption about them is that
they look for changes when a request is to be placed (`Waiting`), all of them,
and keep a request while there is no endpoint. This is how tower's `Buffer` and
`Balance` behave: the worker of the buffer first receives a request, and only
then polls the balancer for readiness.

## 3. The runs

| Run | Bounds | What it shows |
|---|---|---|
| `SharedSession` | 2 tasks, 2 users, 2 tokens each, any interleaving | `RunsAsReported`: a call runs at most once, and as its answer says. `UnauthNeedsTwoExpiries`: a call with automatic refresh that returns `Unauthenticated` carried two tokens and both have expired. `RefreshSurvivesExpiry`: an expired token does not hinder its own replacement |
| `ExclusiveSession` | the same with `ExclusiveUpdates` | `Agreement`, `ImplementsSession` (refinement of `Session`), `EveryOperationReturns` (liveness) |
| `StaleRefresh` | as `SharedSession` | violation, finding 1 |
| `WatchStream` | channel, wire and response buffer of 1; 2 watches, ids 0 and 1, chosen id 1; 4 requests, 2 revisions | `RequestsInOrder`, `AnswersFindTheirWatch`, `ImplementsWatches` (refinement of `Watches`); `WatchReturns`, `SendsReturn`, `WatchesAreAnswered` (liveness) |
| `LeaseKeepAlive` | buffers of 1, a lease of 2 ticks, 3 requests a stream | `TrustIsSafe`, `KeeperWasRenewed`, `KeepAlivesAreAnswered` (liveness) |
| `LockService` | 2 clients, 3 keys put, 1 late call; locks with and without a lease, elections | `UpdatesOnlyByHolder`, `TicketsNameTheirHold` (action properties), `RetryJoinsOwnLock` (liveness) |
| `NamespaceStore` | a prefix of two bytes whose end carries, 3 keys inside, 3 outside; any keys on a lease; get and delete by key, range and prefix, transactions by every selector, one level of nesting | `OutsideUntouched`, `ImplementsKvStore` (refinement of `KvStore`) |
| `NamespaceEscape` | a one-byte prefix, and `get` and `delete` with `with_from_key` and `with_all_keys` | violation, finding 2 |
| `Builders` | bytes 0..2, keys up to 3 bytes, 2 lists | `RequestIsWhatWasAsked`, `RevokeMatchesGrant`, `GrantedIsFound`, `TxnKeepsItsLists` |
| `BackOff` | 2 endpoints, 2 requests, durations 1..3 | `Ladder`, `BackOffWithinOutage`; `OutageClimbsLadder`, `RecoveredEndpointReturns` (liveness) |
| `Endpoints` | OpenSSL, 2 tasks, 2 hosts, channels of 1 and 1, 3 endpoints given to `connect`, with and without credentials; the balancer may stop | `MembersAreWanted`; `RequestsAreServed`, `ChangesAreAccepted`, `ConnectReturns` (liveness) |
| `ConnectHangs` | channel of 2, 3 endpoints given | violation, finding 3 |

Why the bounds are enough. Two tasks show every conflict between two steps of
the session, and two tokens per user are what a call and its retry, or a refresh
and a later one, need to differ. Procedures that carry the token and go through a
caller behave alike, so one stands for all where tasks interleave. Buffers of one
place fill at once, which is when sends wait, and let a request be in every
place of its way. Two watches on ids 0 and 1 are what it takes for an id to be
chosen while it is in use, given up and used again, and for a cancellation to cross
an answer; one more request than watches and their cancellation leaves room for a
progress request or a second cancellation. A lease of two ticks is alive, half gone and gone; three
requests put one behind another that waits. Two clients and three keys let
a lease win, lose and win again while the other waits, and one late call is what each of
the hazards of `LockService` needs. Two
requests report a failure that starts a back-off and one that falls into it, or a
failure after a success; the durations 1, 2, 3 include a doubling and the cap.
Three bytes distinguish 0, 0xFF and the rest, and keys of three bytes let a carry
pass over one byte and stop at another. The keys of other clients lie before
and behind the prefix, and one of them is what a key of the namespace is without its prefix. Three endpoints are exactly what one place, the task's hands
and another place hold. The safety properties are all proved beyond these bounds (section 5).

Symmetry over tasks and users is used in `SharedSession` only, where nothing
temporal is checked. Deadlock is not checked where the bounds or the code end all
work: `WatchStream` and `LeaseKeepAlive` (a stream that is over, an unsplit handle that
neither reads nor sends), `LockService` (no key is left to put), `Builders` (a
transaction that panicked), `Endpoints` (a `connect` that failed), `ConnectHangs` (the finding).

`GrantedIsFound` has a precondition, `EndTellsSelector`: the range end of the
permission is not that of another selector as well. Without it a permission for the
range from `a` to `b` would come back as the prefix `a`, and equality, which looks at the flags
and not at the range end (auth.rs 719-736), would not find it. Both select the same keys,
so `RequestIsWhatWasAsked` and `RevokeMatchesGrant` need no such precondition. They have
another one, `HasItsKey`: a permission that was asked for all keys has lost its key
(auth.rs 649-652), and a selector called after that is for all keys, whatever key was given
(section 6).

`OutageClimbsLadder` supposes that back-offs of the endpoint end and failures are reported again
and again, and that the endpoint is not replaced. It concludes that the longest back-off is
reached for good, which needs every failure after an expired back-off to count, although nobody may have asked
for the load in between.

`UpdatesOnlyByHolder` and `TicketsNameTheirHold` speak of keys that name one hold only (`OnceOnly`): leader keys,
by their revision, and keys of locks whose lease the service granted for the call. The
key of a lock taken with a lease of one's own has the same name at every hold. A
transaction that compares such a key alone may take effect, when it is late, in a later hold of the
same lease, and a late unlock may end that hold. The doc comment of `LockResponse::key` does
not say that the lease matters.

## 4. Fairness

- `ClientCaller`: weak fairness of `Poll(t)` (the runtime polls a task that can go
  on) and of `Serve(t)` (a request that is out ends in an answer, a transport
  error or a timeout: HTTP/2 keep-alive and `ConnectOptions::with_timeout`).
  Nothing is assumed about which answer, or about expirations. Liveness is checked
  under `ExclusiveUpdates`.
- `WatchStream`: transport and server do their work, the runtime polls calls that can go on,
  and an application that has split the stream keeps reading. Nothing
  is assumed of an application with a whole stream: while its send waits for room it
  cannot read, and if the buffers are full of responses it waits until the stream
  ends. That is why `SendsReturn` and `WatchesAreAnswered` speak of a split stream.
- `LeaseKeepAlive`: the same, and the application reads. Time need not pass and
  leases need not be kept.
- `LockService`: the services work and answers are polled. Leases need not expire, and no
  call need be given up.
- `BackOff`: time passes, requests end, and results are polled. No fairness for
  new requests, or for the recovery of a server.
- `Endpoints`: the spawned task and polled futures go on when they can (weak);
  a `send` that waits for room gets its turn (strong), since tokio's semaphore
  is first-in first-out. `ChangesAreAccepted` in addition presupposes that
  requests are served again and again, since nothing else empties the channels, or that
  the balancer stops at some time. Nothing is assumed of when it stops, or whether.

## 5. What is proved

Every safety invariant and action property of the passing runs, and every refinement, is
a theorem. The theorems hold for any tasks, users, endpoints, requests, capacities,
durations, bytes, keys and prefixes that satisfy the named assumptions of the modules.

- `ClientCallerProofs`: `TypeCorrect`, `CallsRunAsReported`,
  `RefreshesSurviveExpiry`, `RefreshOutlivesExpiry`. `RunsAsReported` speaks of
  finished calls only; its inductive form `RunsInv` says for every step of a call
  how often its request has been run so far, in particular never before a retry.
  `RefreshSurvivesExpiry` rests on one lemma: `Authenticate` never carries a token.
  `UnauthNeedsTwoExpiries` needs `FreshInv`: a granted token that is not yet
  installed is nobody's rejected token, and a rejected token is never the one the
  client holds once the retry's own refresh has been granted; so no late
  write by another task can bring back the rejected one unnoticed.
  With `ExclusiveUpdates`, `TokenAgreesWithCredentials` and
  `ClientImplementsSession`. `SessionInv` records the discipline (an update is
  alone, `connect` comes before all) and for every step whose token a task is
  about to write. The refinement maps the session's user to the new user as soon
  as `update_user` has written the token (`SessionUser`).
- `RequestStreamProofs`: no theorem of its own, but the invariant `StreamInv` of the request
  half and the lemmas that each of its steps keeps it, which the next two modules use. While
  the stream lives, what was sent is what was read, then the wire, then the
  channel; afterwards what was read is a beginning of what was sent (`Begins`, which spares the
  prover a quantified length).
- `WatchStreamProofs`: `TypeCorrect`, `OrderKept`, `RightWatch` (`AnswersFindTheirWatch`) and
  `BookIsRight` (the refinement `ImplementsWatches`). What the application has noted says
  nothing of the responses that are still on their way, so the invariant `BookInv` speaks of
  every place among them: `LiveAt(j, n, id)` and `SeenAt(j, n, rev)` are what the book will
  hold when all responses before the j-th have been taken. A response fits the book of its
  place; at the place after the last one the live watches are the server's watchers
  (`IdsInv`), and each of those goes on where its watch will be (`SeenInv`). Answers, then the
  creations that are still pending, come in the order of the watches without an answer
  (`AnswersInv`, `PendingInv`). Taking a response shifts every place by one; a reply adds one.
- `LeaseKeepAliveProofs`: `TypeCorrect`, `TrustedIsAlive`, `KeepersAreOfLeases`. That trust
  is safe is not inductive. `IInv` adds: the application counts the calls it has
  open (`Counted`: as many ages as requests, responses and a send under way), and each of
  them promises what it will bring (`Promised`: a response on its way gave the lease at most
  its ttl no longer ago than the age of the call it will be taken for). A call that runs late
  can only end a lease the application has given up (`Trusted`). `KeeperInv` and `RenewedInv` carry
  the first response from the server to `keep_alive`.
- `LockServiceProofs`: `TypeCorrect`, `OnlyTheHolderUpdates`, `TicketsReachTheirHold`. Keys
  have distinct revisions, up to the counter (`KeysInv`, `Held`), a
  granted call's entry was first when it was granted (`CallsInv`), and, where a key names one hold
  only, what a ticket or a request names, once it was first, stays first for as long as it exists
  (`TicketsInv`, `RequestsInv`): later keys have later revisions, and a revision is never used
  again. For the same reason the key a ticket was handed out for is the only one it can ever
  name (`Fits`, `NamedIsOwn`), which is what `TicketsReachTheirHold` says.
- `BackOffProofs`: `TypeCorrect`, `OnTheLadder`, `NoFloodOutgrowsTheOutage`. The
  invariant `PaidLadder` adds to the ladder that each rung has been paid for by
  time without a success: `next` can only double when `current` has elapsed.
- `EndpointsProofs`: `TypeCorrect` and, if every URL names its scheme
  (`SchemesNamed`), `EndpointsAreWanted`, for as long as there is a balancer. The lemmas say what a list of changes
  makes of a set of endpoints, in pieces (`AfterSplit`) and for the last change,
  so that moving changes from one channel to the next alters nothing.
  `SchemesNamed` is needed: a URL without a scheme cannot be removed (section 6).
  `GivenEndpointsFit` (`ConnectHasRoom`) and `TooManyEndpointsHang` settle when `connect`
  gets through: until it returns nobody takes its endpoints out of the channels, so what
  is in them is what it has sent (`ConnectInv`). Up to `Places` endpoints there is always room, or
  the OpenSSL task can make some; with one more `ConnectReturns` fails in every behaviour in which the balancer goes on, at
  any capacity. They are the two sides of what the runs `Endpoints` and `ConnectHangs` show at
  small capacities; only that the room is used in time is left to fairness and to TLC.

- `KeyRangeProofs`: `KeysAreOrdered` and `PrefixIsARange` are about the operators: keys of
  any length are strictly and totally ordered, and a key has a prefix exactly if it lies
  between the prefix and `GetPrefix` of it, wherever the carry stops.
  `BuildersTypeCorrect`, `RequestsAreWhatWasAsked`, `RevocationsMatchGrants`,
  `GrantsAreFound` and `TxnListsAreKept` follow from the invariant `BuilderInv`, one
  conjunct for each kind of builder: the options show the selector that was called last
  (`OptionsInv`); a permission that was read back may show another one, but what it sends is
  still the revocation of the selector asked for, until it loses its key (`PermissionInv`); every list that was given has
  raised its flag and is in the request (`TxnInv`). That a request selects what was asked
  is then a fact about each selector alone (`RequestMatches`).
  `NamespaceTypeCorrect`, `NamespaceIsAStore` (the refinement `ImplementsKvStore`) and
  `OthersAreUntouched`: a prefixed request selects among the keys of the namespace what
  the request without the prefix selects among the user's, and nothing of other clients (`ExactRequest`).
  `NamespaceIsAStore` is about `KvStore` with its exception: a lease does show the keys of others,
  which the theorem neither hides nor forbids. The last two theorems have the
  hypothesis `Confined`, and fail without either half of it: `get` and `delete` do not use the selectors of
  finding 2, and no other client has a key at the edge (`NoKeyAtTheEdge`, section 6). The
  lemma `UnwrappedEdge` shows that the second half is met, whatever others
  store, by every prefix whose last byte is not 0xFF and by one of 0xFF only. Both
  are restrictions on the application, not on what the client does within them. `MCNamespace`
  assumes the second by name and a run evaluates it.

Only model-checked: liveness (`EveryOperationReturns`, `WatchReturns`,
`SendsReturn`, `WatchesAreAnswered`, `KeepAlivesAreAnswered`, `RetryJoinsOwnLock`,
`OutageClimbsLadder`, `RecoveredEndpointReturns`, `RequestsAreServed`, `ChangesAreAccepted`,
`ConnectReturns`). It needs ENABLED and induction over fair steps, which are beyond
the prover.

## 6. Findings

1. **A refresh undoes `update_user`** (`StaleRefresh`, caller.rs 95-98 and
   114-120). A refresh that read the old credentials and finishes after
   `update_user` leaves the old user's token under the new user's credentials. It
   stays until it expires. With updates run alone this cannot happen
   (`ExclusiveSession`, and proved).
2. **Selectors escape the namespace** (`NamespaceEscape`, namespace/kv.rs 44-46
   and 59-61). `get` and `delete` prefix the range end before `with_from_key` and
   `with_all_keys` are resolved, so a namespaced delete of all keys deletes all
   keys of the store. Inside a transaction the same operation is confined (but for the edge of a prefix
   that ends in 0xFF, below).
3. **`connect` may hang** (`ConnectHangs`, client.rs 130-138). It fills the
   channel before the first request makes anybody read it: with more than 64
   endpoints (33 with OpenSSL: 16, one in the task's hands, 16) it waits for ever
   (`TooManyEndpointsHang`).

Others are plain from the models, or from the code beside them, and have no run:

- `AuthClient` is never refreshed (rpc/auth.rs 54, `ViaCaller`): with automatic refresh
  on, its requests still return `Unauthenticated` after one expiration.
- `LeaseClientPrefix::time_to_live` is documented to show only the keys of the namespace: "Wrap a
  Lease interface to filter for only keys with a prefix and remove that prefix when fetching attached
  keys through TimeToLive" (namespace/lease.rs 10-11). It takes the prefix
  off where there is one and leaves all other keys in the answer (rpc/lease.rs 477-481), where a
  key `a` of another client and a key `a` of the namespace look the same. `Namespace` does what the
  code does, `KvStore` says so as the exception of `time_to_live`, and both kinds of key occur in
  `NamespaceStore`.
- A URL without a scheme cannot be removed (client.rs 308): `remove_endpoint` does not add
  the scheme that `add_endpoint` added. The runs use URLs with a scheme.
- The end of a namespace whose prefix ends in 0xFF keeps the bytes that wrapped to 0
  (vec.rs 54-60; for 01 FF the end is 02 00), so a range to the end of the namespace takes in the key 02: `delete` with the
  range end `\0`, or a transaction that deletes all keys, removes that key of another client.
  `get_prefix` cuts those bytes. The proof of `NamespaceIsAStore` needs this excluded
  (`NoKeyAtTheEdge`), and the run has such a prefix and no key of another client there.
- A whole `WatchStream` can block itself: with the channel and the transport full and
  responses unread, its `watch` or `cancel` waits for room while it cannot read
  (section 4).
- `Permission::with_all_keys` clears the key for good (auth.rs 649-652), so a later `with_prefix`
  on the same permission means all keys, not the prefix that was given. Two properties of
  `Builders` exclude it by `HasItsKey`.
- Two permissions for one key are equal whatever their range ends, if neither has a flag (auth.rs
  719-736): the ranges from `a` to `b` and from `a` to `c` are the same to `==`. No property says otherwise.
- `range_end_str_unchecked` of a permission returns the key (auth.rs 697), and
  `keep_alive` reports a stream that ends as a `WatchError` (lease.rs 119-123).

## 7. Not modelled

- `leader` and `observe` of an election: they change nothing and hand on what the server sends.
- Keys, filters, fragments and previous values of a watch: the key range of its options is
  in `Builders`, the rest is not looked at by the client.
- Values, versions and revisions of keys: the client passes them on.
- OpenSSL and TLS configuration, keep-alive and timeout settings: handed to tonic. A
  timeout is a call that is given up.
- `from_channel`: a client without a sender of changes, whose `add_endpoint` and
  `remove_endpoint` fail at once.
- Maintenance and cluster clients beyond the procedures they call, response
  wrappers, error conversions, generated protobuf code, the build script and examples:
  no state and no decisions.
- The poison-free locks (`src/src/lock.rs`): no critical section of the crate
  leaves a half-written state behind a panic.
- The composition of the streams with the session's interleavings: a stream is opened
  through `do_call`, whose refusal and single retry `RequestStream` has itself; once open, a
  stream never looks at the token again.
- The composition of `Endpoints` with `BackOff`: they share only the fact that an inserted
  endpoint starts afresh, which `Reinsert` models.

What would come next: a fault model of the server's watchers across a reconnection, which the
client leaves to the application, and the balancer's own state (pending and ready services),
which tower keeps.
