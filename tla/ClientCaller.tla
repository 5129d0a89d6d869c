---------------------------- MODULE ClientCaller ----------------------------
(***************************************************************************)
(* The authentication session of a client (src/caller.rs), the interceptor *)
(* that puts its token into requests (src/intercept.rs) and the operations *)
(* of Client that change it (connect, refresh_token, update_user in        *)
(* src/client.rs).                                                         *)
(*                                                                         *)
(* A Client is cloned freely, and every clone and sub-client shares two    *)
(* Arc<RwLock<..>>: the credentials and the token.  A task is one future   *)
(* driven on one clone.  The locks are held for one read or one write, so  *)
(* each such access is an action; whatever lies between two awaits or two  *)
(* lock acquisitions may interleave with the other tasks.                  *)
(*                                                                         *)
(* The server is external: it issues tokens, forgets them whenever it      *)
(* likes (Expire), rejects a request that carries a forgotten token with   *)
(* Code::Unauthenticated before it runs it, and may fail or lose anything. *)
(***************************************************************************)
EXTENDS EtcdRpc, FiniteSets, Naturals

CONSTANTS
    Tasks,             \* futures running on clones of one client
    Users,             \* (name, password) pairs
    Serials,           \* bound: numbers of the tokens the server issues to one user
    Methods,           \* the procedures the tasks call
    NoUser,            \* creds = None
    NoToken,           \* auth_token = None
    RefreshExpired,    \* CallOptions::refresh_expired_token
    ExclusiveUpdates   \* the application runs update_user with no other operation

ASSUME TasksAssumption == IsFiniteSet(Tasks) /\ Tasks # {}
ASSUME MethodsAssumption == Methods \subseteq Rpcs
ASSUME NoUserAssumption == NoUser \notin Users
ASSUME SwitchesAssumption ==
    RefreshExpired \in BOOLEAN /\ ExclusiveUpdates \in BOOLEAN

Token == [user : Users, serial : Serials]
ASSUME NoTokenAssumption == NoToken \notin Token

VARIABLES
    connected,   \* connect returned the Client, so clones of it may exist
    creds,       \* CallOptions::creds, shared
    token,       \* the AuthToken, shared with the interceptor
    issued,      \* server: tokens ever issued
    live,        \* server: tokens it still accepts
    pc,          \* where the future of each task is
    job          \* its locals, and what happened to its request

client == <<connected, creds, token>>
server == <<issued, live>>
vars == <<connected, creds, token, issued, live, pc, job>>

Steps == {"idle", "send", "inflight", "answered",
          "creds", "auth", "install", "clear", "commit", "done"}
Ops == {"call", "refresh", "update", "connect"}
Replies == {"none", "ok", "unauth", "other"}

(* The locals of one operation.  tried and runs are history: the tokens the *)
(* request carried and how often the server ran it.                         *)
Job == [op : Ops, method : Rpcs, user : Users \cup {NoUser}, auto : BOOLEAN,
        retry : BOOLEAN, header : Token \cup {NoToken}, tried : SUBSET Token,
        runs : Nat, reply : Replies, grant : Token \cup {NoToken}]

NoJob == [op |-> "call", method |-> Authenticate, user |-> NoUser, auto |-> FALSE,
          retry |-> FALSE, header |-> NoToken, tried |-> {}, runs |-> 0,
          reply |-> "none", grant |-> NoToken]

Init ==
    /\ connected = FALSE
    /\ creds = NoUser
    /\ token = NoToken
    /\ issued = {}
    /\ live = {}
    /\ pc = [t \in Tasks |-> "idle"]
    /\ job = [t \in Tasks |-> NoJob]

----------------------------------------------------------------------------
(* Helpers *)

Goto(t, step) == pc' = [pc EXCEPT ![t] = step]

Return(t, reply) ==
    /\ Goto(t, "done")
    /\ job' = [job EXCEPT ![t].reply = reply]

Busy(t) == pc[t] \notin {"idle", "done"}

(* The locking discipline of an application with ExclusiveUpdates. *)
MayStart(op) ==
    ExclusiveUpdates =>
        \A t \in Tasks : Busy(t) => op # "update" /\ job[t].op # "update"

(* Interceptor::call on a request of method m: the token as it is now. *)
HeaderFor(m) == IF TokenAttached(m) THEN token ELSE NoToken

----------------------------------------------------------------------------
(* Client::connect and from_channel: fresh Arcs, then refresh_token before  *)
(* anybody else holds the client.                                           *)
StartConnect(t, user) ==
    /\ ~connected /\ \A u \in Tasks : pc[u] = "idle"
    /\ creds' = user
    /\ token' = NoToken
    /\ Goto(t, "creds")
    /\ job' = [job EXCEPT ![t] = [NoJob EXCEPT !.op = "connect"]]
    /\ UNCHANGED <<connected, server>>

(* A sub-client method.  do_call reads creds to choose between passing the  *)
(* request on and keeping a clone of it for a retry; AuthClient has neither.*)
StartCall(t, m) ==
    /\ connected /\ pc[t] = "idle" /\ MayStart("call")
    /\ Goto(t, "send")
    /\ job' = [job EXCEPT ![t] = [NoJob EXCEPT
                 !.op = "call", !.method = m,
                 !.auto = ViaCaller(m) /\ RefreshExpired /\ creds # NoUser]]
    /\ UNCHANGED <<client, server>>

StartRefresh(t) ==
    /\ connected /\ pc[t] = "idle" /\ MayStart("refresh")
    /\ Goto(t, "creds")
    /\ job' = [job EXCEPT ![t] = [NoJob EXCEPT !.op = "refresh"]]
    /\ UNCHANGED <<client, server>>

(* Mutant: the credentials are replaced before they are known to be good. *)
StartUpdateEager(t, user) ==
    /\ connected /\ pc[t] = "idle" /\ MayStart("update")
    /\ Goto(t, IF user = NoUser THEN "clear" ELSE "auth")
    /\ creds' = user
    /\ job' = [job EXCEPT ![t] = [NoJob EXCEPT
                 !.op = "update", !.user = user, !.header = HeaderFor(Authenticate)]]
    /\ UNCHANGED <<connected, token, server>>

(* Client::update_user; the borrow of self ends its concurrency on one handle *)
(* only, so whether it runs alone is up to the application.                   *)
StartUpdate(t, user) ==
    /\ connected /\ pc[t] = "idle" /\ MayStart("update")
    /\ Goto(t, IF user = NoUser THEN "clear" ELSE "auth")
    /\ job' = [job EXCEPT ![t] = [NoJob EXCEPT
                 !.op = "update", !.user = user, !.header = HeaderFor(Authenticate)]]
    /\ UNCHANGED <<client, server>>

----------------------------------------------------------------------------
(* The request itself *)

(* The channel is ready and the interceptor runs. *)
Send(t) ==
    /\ pc[t] = "send"
    /\ Goto(t, "inflight")
    /\ LET header == HeaderFor(job[t].method)
           tried == job[t].tried \cup ({header} \ {NoToken})
       IN  job' = [job EXCEPT ![t].header = header, ![t].tried = tried]
    /\ UNCHANGED <<client, server>>

Answer(t, reply, runs) ==
    /\ pc[t] = "inflight"
    /\ Goto(t, "answered")
    /\ job' = [job EXCEPT ![t].reply = reply, ![t].runs = @ + runs]
    /\ UNCHANGED <<client, server>>

(* The server does not know the token. *)
ServerRejects(t) == job[t].header \in Token \ live /\ Answer(t, "unauth", 0)

(* The server runs the request; the answer may get lost on the way back. *)
ServerExecutes(t) ==
    /\ job[t].header \in live \cup {NoToken}
    /\ \E reply \in {"ok", "other"} : Answer(t, reply, 1)

(* Refused for another reason (permissions, no token at all, bad argument),  *)
(* or the request never arrived.                                             *)
RequestFails(t) == Answer(t, "other", 0)

(* Mutant: any failure is retried. *)
HandleAnswerRetryAll(t) ==
    /\ pc[t] = "answered"
    /\ IF job[t].auto /\ ~job[t].retry /\ job[t].reply # "ok"
       THEN Goto(t, "creds") /\ job' = [job EXCEPT ![t].retry = TRUE, ![t].reply = "none"]
       ELSE Return(t, job[t].reply)
    /\ UNCHANGED <<client, server>>

(* do_call looks at the first answer. *)
HandleAnswer(t) ==
    /\ pc[t] = "answered"
    /\ IF job[t].auto /\ ~job[t].retry /\ job[t].reply = "unauth"
       THEN Goto(t, "creds") /\ job' = [job EXCEPT ![t].retry = TRUE, ![t].reply = "none"]
       ELSE Return(t, job[t].reply)
    /\ UNCHANGED <<client, server>>

----------------------------------------------------------------------------
(* refresh_token and update_user *)

(* refresh_token clones the credentials and releases their lock; the       *)
(* Authenticate request leaves through the interceptor as well.            *)
ReadCreds(t) ==
    /\ pc[t] = "creds"
    /\ Goto(t, IF creds = NoUser THEN "clear" ELSE "auth")
    /\ job' = [job EXCEPT ![t].user = creds, ![t].header = HeaderFor(Authenticate)]
    /\ UNCHANGED <<client, server>>

(* The tokens of a user are numbered in the order the server issues them. *)
IssueTo(user, tok) ==
    /\ tok \in Token \ issued /\ tok.user = user
    /\ \A older \in Token :
          older.user = user /\ older.serial < tok.serial => older \in issued
    /\ issued' = issued \cup {tok}
    /\ live' = live \cup {tok}

AuthGranted(t, tok) ==
    /\ pc[t] = "auth" /\ job[t].header \in live \cup {NoToken}
    /\ IssueTo(job[t].user, tok)
    /\ Goto(t, "install")
    /\ job' = [job EXCEPT ![t].grant = tok]
    /\ UNCHANGED client

(* Mutant: a failed authentication is started again. *)
AuthFailsAgain(t) ==
    /\ pc[t] = "auth"
    /\ Goto(t, "creds")
    /\ UNCHANGED <<client, server, job>>

(* Wrong password, transport error, or a token that is no header value:     *)
(* `?` returns from do_authenticate and from its callers.                   *)
AuthFails(t) ==
    /\ pc[t] = "auth"
    /\ Return(t, IF job[t].header \in Token \ live THEN "unauth" ELSE "other")
    /\ UNCHANGED <<client, server>>

(* The server issued a token, but the answer was lost or did not parse. *)
AuthAnswerLost(t, tok) ==
    /\ pc[t] = "auth" /\ job[t].header \in live \cup {NoToken}
    /\ IssueTo(job[t].user, tok)
    /\ Return(t, "other")
    /\ UNCHANGED client

(* What follows the write of the token, in each caller. *)
AfterToken(t) ==
    CASE job[t].op = "call"   -> Goto(t, "send") /\ UNCHANGED job
      [] job[t].op = "update" -> Goto(t, "commit") /\ UNCHANGED job
      [] OTHER                -> Return(t, "ok")

(* Mutant: only a missing token is filled in. *)
InstallMissing(t) ==
    /\ pc[t] = "install"
    /\ token' = IF token = NoToken THEN job[t].grant ELSE token
    /\ AfterToken(t)
    /\ UNCHANGED <<connected, creds, server>>

Install(t) ==
    /\ pc[t] = "install"
    /\ token' = job[t].grant
    /\ AfterToken(t)
    /\ UNCHANGED <<connected, creds, server>>

Clear(t) ==
    /\ pc[t] = "clear"
    /\ token' = NoToken
    /\ AfterToken(t)
    /\ UNCHANGED <<connected, creds, server>>

(* Mutants: the credentials are not replaced, or by the wrong value. *)
CommitNothing(t) ==
    /\ pc[t] = "commit"
    /\ Return(t, "ok")
    /\ UNCHANGED <<client, server>>

CommitToken(t) ==
    /\ pc[t] = "commit"
    /\ creds' = job[t].grant
    /\ Return(t, "ok")
    /\ UNCHANGED <<connected, token, server>>

(* The second lock of update_user. *)
Commit(t) ==
    /\ pc[t] = "commit"
    /\ creds' = job[t].user
    /\ Return(t, "ok")
    /\ UNCHANGED <<connected, token, server>>

----------------------------------------------------------------------------
(* The caller takes the result.  connect hands out the client only if its   *)
(* refresh_token succeeded.                                                 *)
Finish(t) ==
    /\ pc[t] = "done"
    /\ connected' = (connected \/ (job[t].op = "connect" /\ job[t].reply = "ok"))
    /\ Goto(t, "idle")
    /\ job' = [job EXCEPT ![t] = NoJob]
    /\ UNCHANGED <<creds, token, server>>

(* The future is dropped (select!, a timeout) at one of its awaits: before   *)
(* the request leaves, while it is out, or before the answer is polled.     *)
Cancel(t) ==
    /\ pc[t] \in {"send", "inflight", "answered", "auth", "install"}
    /\ Goto(t, "idle")
    /\ job' = [job EXCEPT ![t] = NoJob]
    /\ UNCHANGED <<client, server>>

(* The server forgets a token: its TTL, a new leader, a changed auth store. *)
Expire(tok) ==
    /\ tok \in live
    /\ live' = live \ {tok}
    /\ UNCHANGED <<client, issued, pc, job>>

----------------------------------------------------------------------------
ServeAuth(t) ==
    \/ AuthFails(t)
    \/ \E tok \in Token : AuthGranted(t, tok) \/ AuthAnswerLost(t, tok)

Serve(t) == ServerRejects(t) \/ ServerExecutes(t) \/ RequestFails(t) \/ ServeAuth(t)

Poll(t) ==
    \/ Send(t) \/ HandleAnswer(t) \/ ReadCreds(t)
    \/ Install(t) \/ Clear(t) \/ Commit(t) \/ Finish(t)

Start(t) ==
    \/ \E user \in Users \cup {NoUser} : StartConnect(t, user) \/ StartUpdate(t, user)
    \/ \E m \in Methods : StartCall(t, m)
    \/ StartRefresh(t)

Next ==
    \/ \E t \in Tasks : Start(t) \/ Poll(t) \/ Serve(t) \/ Cancel(t)
    \/ \E tok \in live : Expire(tok)

Spec == Init /\ [][Next]_vars

(* The runtime polls a task that can go on, and a request that is out ends   *)
(* with an answer, a transport error or a timeout.                           *)
Fairness == \A t \in Tasks : WF_vars(Poll(t)) /\ WF_vars(Serve(t))

FairSpec == Spec /\ Fairness
----------------------------------------------------------------------------
(* Properties *)

(* The state stays within its types. *)
TypeOK ==
    /\ connected \in BOOLEAN
    /\ creds \in Users \cup {NoUser}
    /\ token \in Token \cup {NoToken}
    /\ issued \subseteq Token
    /\ live \subseteq issued
    /\ pc \in [Tasks -> Steps]
    /\ job \in [Tasks -> Job]

(* do_call sends a request twice at most, and the second time only when the *)
(* first was rejected before it ran: whatever expires, and whatever the      *)
(* other tasks do to the session, the server runs a call at most once, runs  *)
(* it if the caller is told Ok, and does not if it is told Unauthenticated.  *)
RunsAsReported ==
    \A t \in Tasks :
        /\ job[t].runs <= 1
        /\ pc[t] = "done" /\ job[t].op = "call" =>
              /\ job[t].reply = "ok" => job[t].runs = 1
              /\ job[t].reply = "unauth" => job[t].runs = 0

(* A client with automatic refresh outlives an expiration: a call of it that  *)
(* still returns Unauthenticated carried two different tokens, both of which *)
(* the server has forgotten.  In particular no refresh of another task, be it*)
(* older, slower or of another user, puts the rejected token back before the *)
(* retry picks it up.                                                        *)
UnauthNeedsTwoExpiries ==
    \A t \in Tasks :
        pc[t] = "done" /\ job[t].op = "call" /\ job[t].auto /\ job[t].reply = "unauth" =>
            /\ \E tok1, tok2 \in job[t].tried : tok1 # tok2
            /\ job[t].tried \subseteq issued \ live

(* An expired token never stands in the way of its own replacement: a        *)
(* refresh_token, update_user or connect is not answered Unauthenticated.    *)
RefreshSurvivesExpiry ==
    \A t \in Tasks :
        pc[t] = "done" /\ job[t].op # "call" => job[t].reply # "unauth"

(* update_user and refresh_token write the token and the credentials apart.  *)
(* When no operation is between its authentication and its last write, the  *)
(* token is one of the user the client would authenticate as, and there is  *)
(* none iff the client has no credentials.                                   *)
Settled == \A t \in Tasks : pc[t] \notin {"auth", "install", "clear", "commit"}

Agreement ==
    connected /\ Settled =>
        IF creds = NoUser THEN token = NoToken ELSE token \in Token /\ token.user = creds

(* The same promise as an abstract specification: under the discipline that *)
(* runs update_user alone, every step of every interleaving is a step of one *)
(* atomic session.  Between the two writes of update_user the session        *)
(* already belongs to the new user.                                          *)
SessionUser ==
    IF \E t \in Tasks : pc[t] = "commit"
    THEN job[CHOOSE t \in Tasks : pc[t] = "commit"].user
    ELSE creds

Abstract == INSTANCE Session WITH open <- connected, user <- SessionUser

ImplementsSession == Abstract!Spec

(* Every operation returns: there is no loop of expirations and refreshes,   *)
(* and a failing authentication ends the operation instead of being repeated.*)
EveryOperationReturns == \A t \in Tasks : Busy(t) ~> ~Busy(t)
============================================================================
