------------------------- MODULE ClientCallerProofs -------------------------
(***************************************************************************)
(* Theorems about ClientCaller, for any finite set of tasks, any users, any *)
(* number of tokens and any mix of procedures.                             *)
(***************************************************************************)
EXTENDS ClientCaller, TLAPS

(* The token, if there is one, is a header of no authentication request.  *)
LEMMA AuthenticateCarriesNoToken == HeaderFor(Authenticate) = NoToken
BY DEF HeaderFor, TokenAttached

LEMMA MethodsAreRpcs == Authenticate \in Rpcs /\ Methods \subseteq Rpcs
BY MethodsAssumption DEF Authenticate, Rpcs, AuthRpcs, Service

LEMMA NoJobType == NoJob \in Job
BY MethodsAreRpcs DEF NoJob, Job, Ops, Replies

(* What the server issues is new, and accepted from then on. *)
LEMMA Issuing ==
    ASSUME NEW user, NEW tok, IssueTo(user, tok)
    PROVE  /\ tok \in Token /\ tok \notin issued /\ tok.user = user
           /\ issued' = issued \cup {tok} /\ live' = live \cup {tok}
BY DEF IssueTo

(* Type correctness, for every step of the client, its tasks and the server. *)
LEMMA TypeStep == TypeOK /\ [Next]_vars => TypeOK'
<1> SUFFICES ASSUME TypeOK, [Next]_vars PROVE TypeOK'
  OBVIOUS
<1> USE DEF TypeOK, Steps, client, server
<1>1. ASSUME NEW t \in Tasks, NEW user \in Users \cup {NoUser}, StartConnect(t, user)
      PROVE TypeOK'
  BY <1>1, NoJobType DEF StartConnect, Goto, Job, Ops
<1>2. ASSUME NEW t \in Tasks, NEW user \in Users \cup {NoUser}, StartUpdate(t, user)
      PROVE TypeOK'
  BY <1>2, NoJobType, AuthenticateCarriesNoToken DEF StartUpdate, Goto, Job, Ops
<1>3. ASSUME NEW t \in Tasks, NEW m \in Methods, StartCall(t, m)
      PROVE TypeOK'
  <2> DEFINE j == [NoJob EXCEPT !.op = "call", !.method = m,
                      !.auto = ViaCaller(m) /\ RefreshExpired /\ creds # NoUser]
  <2>1. j \in Job
    BY NoJobType, MethodsAreRpcs, SwitchesAssumption DEF Job, Ops, ViaCaller
  <2>2. job' = [job EXCEPT ![t] = j] /\ pc' = [pc EXCEPT ![t] = "send"]
    BY <1>3 DEF StartCall, Goto
  <2> HIDE DEF j
  <2>3. job' \in [Tasks -> Job] /\ pc' \in [Tasks -> Steps]
    BY <2>1, <2>2
  <2> QED
    BY <1>3, <2>3 DEF StartCall
<1>4. ASSUME NEW t \in Tasks, StartRefresh(t)
      PROVE TypeOK'
  BY <1>4, NoJobType DEF StartRefresh, Goto, Job, Ops
<1>5. ASSUME NEW t \in Tasks, Send(t)
      PROVE TypeOK'
  <2> DEFINE h == HeaderFor(job[t].method)
             j == [job[t] EXCEPT !.header = h, !.tried = job[t].tried \cup ({h} \ {NoToken})]
  <2>1. h \in Token \cup {NoToken}
    BY DEF HeaderFor
  <2>2. job[t] \in Job
    OBVIOUS
  <2>3. j \in Job
    <3> HIDE DEF h
    <3> QED
      BY <2>1, <2>2 DEF Job
  <2>4. job' = [job EXCEPT ![t] = j] /\ pc' = [pc EXCEPT ![t] = "inflight"]
    BY <1>5 DEF Send, Goto
  <2> HIDE DEF j
  <2>5. job' \in [Tasks -> Job] /\ pc' \in [Tasks -> Steps]
    BY <2>3, <2>4
  <2>6. UNCHANGED <<connected, creds, token, issued, live>>
    BY <1>5 DEF Send
  <2> QED
    BY <2>5, <2>6
<1>6. ASSUME NEW t \in Tasks, HandleAnswer(t)
      PROVE TypeOK'
  BY <1>6 DEF HandleAnswer, Goto, Return, Job, Replies
<1>7. ASSUME NEW t \in Tasks, ReadCreds(t)
      PROVE TypeOK'
  <2> DEFINE j == [job[t] EXCEPT !.user = creds, !.header = NoToken]
  <2>1. job' = [job EXCEPT ![t] = j]
    BY <1>7, AuthenticateCarriesNoToken DEF ReadCreds
  <2>2. job[t] \in Job
    OBVIOUS
  <2>3. j \in Job
    BY <2>2 DEF Job
  <2> HIDE DEF j
  <2>4. job' \in [Tasks -> Job]
    BY <2>1, <2>3
  <2> QED
    BY <1>7, <2>4 DEF ReadCreds, Goto
<1>8. ASSUME NEW t \in Tasks, Install(t) \/ Clear(t) \/ Commit(t)
      PROVE TypeOK'
  BY <1>8 DEF Install, Clear, Commit, AfterToken, Goto, Return, Job, Replies
<1>9. ASSUME NEW t \in Tasks, Finish(t)
      PROVE TypeOK'
  BY <1>9, NoJobType DEF Finish, Goto
<1>10. ASSUME NEW t \in Tasks, Cancel(t)
       PROVE TypeOK'
  BY <1>10, NoJobType DEF Cancel, Goto
<1>11. ASSUME NEW t \in Tasks, ServerRejects(t) \/ ServerExecutes(t) \/ RequestFails(t)
       PROVE TypeOK'
  BY <1>11 DEF ServerRejects, ServerExecutes, RequestFails, Answer, Goto, Job, Replies
<1>12. ASSUME NEW t \in Tasks, AuthFails(t)
       PROVE TypeOK'
  BY <1>12 DEF AuthFails, Goto, Return, Job, Replies
<1>13. ASSUME NEW t \in Tasks, NEW tok \in Token, AuthGranted(t, tok) \/ AuthAnswerLost(t, tok)
       PROVE TypeOK'
  <2>1. issued' \subseteq Token /\ live' \subseteq issued'
    BY <1>13, Issuing DEF AuthGranted, AuthAnswerLost
  <2>2. pc' \in [Tasks -> Steps]
    BY <1>13 DEF AuthGranted, AuthAnswerLost, Goto, Return
  <2>3. job' \in [Tasks -> Job]
    BY <1>13 DEF AuthGranted, AuthAnswerLost, Return, Job, Replies
  <2> QED
    BY <1>13, <2>1, <2>2, <2>3 DEF AuthGranted, AuthAnswerLost
<1>14. ASSUME NEW tok \in live, Expire(tok)
       PROVE TypeOK'
  BY <1>14 DEF Expire
<1>15. CASE UNCHANGED vars
  BY <1>15 DEF vars
<1> QED
  BY <1>1, <1>2, <1>3, <1>4, <1>5, <1>6, <1>7, <1>8, <1>9, <1>10, <1>11, <1>12, <1>13,
     <1>14, <1>15 DEF Next, Start, Poll, Serve, ServeAuth

(* The state stays within its types, whatever the tasks and the server do. *)
THEOREM TypeCorrect == Spec => []TypeOK
<1>1. Init => TypeOK
  BY NoJobType DEF Init, TypeOK, Steps
<1> QED
  BY <1>1, TypeStep, PTL DEF Spec

----------------------------------------------------------------------------
(* Why RunsAsReported is inductive: until the answer to the last attempt is  *)
(* in, the server has not run the request at all, because only an attempt    *)
(* that was rejected unrun leads back to "send".  An authentication request  *)
(* carries no token, so it is never the one that is rejected.                *)
RunsOf(t) ==
    /\ pc[t] \in {"send", "inflight", "answered"} => job[t].op = "call"
    /\ pc[t] = "commit" => job[t].op = "update"
    /\ pc[t] \in {"send", "inflight", "creds", "auth", "install", "clear", "commit"} =>
          job[t].runs = 0
    /\ pc[t] = "answered" \/ (pc[t] = "done" /\ job[t].op = "call") =>
          /\ job[t].reply = "ok" => job[t].runs = 1
          /\ job[t].reply = "unauth" => job[t].runs = 0
    /\ job[t].runs <= 1
    /\ pc[t] = "auth" => job[t].header = NoToken
    /\ pc[t] = "done" /\ job[t].op # "call" => job[t].reply # "unauth"

RunsInv == \A t \in Tasks : RunsOf(t)

LEMMA RunsStep == TypeOK /\ RunsInv /\ [Next]_vars => RunsInv'
<1> SUFFICES ASSUME TypeOK, RunsInv, [Next]_vars, NEW u \in Tasks PROVE RunsOf(u)'
  BY DEF RunsInv
<1> USE DEF RunsOf, Goto, Return
<1>0. RunsOf(u) /\ pc \in [Tasks -> Steps] /\ job \in [Tasks -> Job] /\ NoToken \notin Token
  BY NoTokenAssumption DEF RunsInv, TypeOK
<1>a. job[u] \in Job
  BY <1>0
<1>1. ASSUME NEW t \in Tasks, NEW user \in Users \cup {NoUser}, StartConnect(t, user)
      PROVE RunsOf(u)'
  BY <1>0, <1>a, <1>1 DEF StartConnect, NoJob
<1>2. ASSUME NEW t \in Tasks, NEW user \in Users \cup {NoUser}, StartUpdate(t, user)
      PROVE RunsOf(u)'
  BY <1>0, <1>a, <1>2, AuthenticateCarriesNoToken DEF StartUpdate, NoJob
<1>3. ASSUME NEW t \in Tasks, NEW m \in Methods, StartCall(t, m)
      PROVE RunsOf(u)'
  BY <1>0, <1>a, <1>3 DEF StartCall, NoJob
<1>4. ASSUME NEW t \in Tasks, StartRefresh(t)
      PROVE RunsOf(u)'
  BY <1>0, <1>a, <1>4 DEF StartRefresh, NoJob
<1>5. ASSUME NEW t \in Tasks, Send(t)
      PROVE RunsOf(u)'
  BY <1>0, <1>a, <1>5 DEF Send, Job
<1>6. ASSUME NEW t \in Tasks, HandleAnswer(t)
      PROVE RunsOf(u)'
  BY <1>0, <1>a, <1>6 DEF HandleAnswer, Job
<1>7. ASSUME NEW t \in Tasks, ReadCreds(t)
      PROVE RunsOf(u)'
  BY <1>0, <1>a, <1>7, AuthenticateCarriesNoToken DEF ReadCreds, Job
<1>8. ASSUME NEW t \in Tasks, Install(t) \/ Clear(t) \/ Commit(t)
      PROVE RunsOf(u)'
  BY <1>0, <1>a, <1>8 DEF Install, Clear, Commit, AfterToken, Job
<1>9. ASSUME NEW t \in Tasks, Finish(t) \/ Cancel(t)
      PROVE RunsOf(u)'
  BY <1>0, <1>a, <1>9 DEF Finish, Cancel, NoJob
<1>10. ASSUME NEW t \in Tasks, ServerRejects(t) \/ ServerExecutes(t) \/ RequestFails(t)
       PROVE RunsOf(u)'
  BY <1>0, <1>a, <1>10 DEF ServerRejects, ServerExecutes, RequestFails, Answer, Job
<1>11. ASSUME NEW t \in Tasks, AuthFails(t)
       PROVE RunsOf(u)'
  BY <1>0, <1>a, <1>11 DEF AuthFails, Job
<1>12. ASSUME NEW t \in Tasks, NEW tok \in Token, AuthGranted(t, tok) \/ AuthAnswerLost(t, tok)
       PROVE RunsOf(u)'
  BY <1>0, <1>a, <1>12 DEF AuthGranted, AuthAnswerLost, Job
<1>13. CASE UNCHANGED <<pc, job>>
  BY <1>0, <1>13
<1> QED
  BY <1>1, <1>2, <1>3, <1>4, <1>5, <1>6, <1>7, <1>8, <1>9, <1>10, <1>11, <1>12, <1>13
     DEF Next, Start, Poll, Serve, ServeAuth, Expire, vars

(* Every call runs at most once and as its caller is told. *)
THEOREM CallsRunAsReported == Spec => []RunsAsReported
<1>1. Init => RunsInv
  BY DEF Init, RunsInv, RunsOf, NoJob
<1>2. RunsInv => RunsAsReported
  BY DEF RunsInv, RunsOf, RunsAsReported
<1> QED
  BY <1>1, <1>2, RunsStep, TypeCorrect, PTL DEF Spec

(* No refresh, update or connect fails because the old token has expired. *)
THEOREM RefreshesSurviveExpiry == Spec => []RefreshSurvivesExpiry
<1>1. Init => RunsInv
  BY DEF Init, RunsInv, RunsOf, NoJob
<1>2. RunsInv => RefreshSurvivesExpiry
  BY DEF RunsInv, RunsOf, RefreshSurvivesExpiry
<1> QED
  BY <1>1, <1>2, RunsStep, TypeCorrect, PTL DEF Spec

----------------------------------------------------------------------------
(* Why a retry never carries the token that was rejected: every token the    *)
(* server grants is new, is held by one task, and is written once; so once   *)
(* a refresh has replaced a rejected token no later write can restore it.    *)
GrantsUnused ==
    \A t \in Tasks : pc[t] = "install" =>
        /\ job[t].grant \in issued /\ job[t].grant # token
        /\ \A u \in Tasks :
              /\ job[t].grant \notin job[u].tried
              /\ u # t /\ pc[u] = "install" => job[u].grant # job[t].grant

(* The tokens a call has tried, at each point of its way. *)
TriedOf(t) ==
    LET rejected == job[t].tried # {} /\ job[t].tried \cap live = {}
    IN
    /\ job[t].tried \subseteq issued
    /\ pc[t] \in {"send", "inflight", "answered"} => job[t].op = "call"
    /\ pc[t] = "auth" => job[t].header = NoToken
    /\ pc[t] = "commit" => job[t].op = "update"
    /\ pc[t] = "send" =>
          IF job[t].retry THEN rejected /\ token \notin job[t].tried
                          ELSE job[t].tried = {}
    /\ pc[t] \in {"creds", "auth", "install", "clear"} /\ job[t].op = "call" =>
          job[t].retry /\ rejected
    /\ pc[t] \in {"inflight", "answered"} =>
          /\ job[t].header = NoToken \/ job[t].header \in job[t].tried
          /\ job[t].tried \cap live \subseteq {job[t].header}
          /\ job[t].retry => \E tok \in job[t].tried : tok # job[t].header
    /\ pc[t] = "answered" /\ job[t].reply = "unauth" =>
          job[t].header \in job[t].tried \ live
    /\ (pc[t] = "done" /\ job[t].op = "call" /\ job[t].auto /\ job[t].reply = "unauth") =>
          /\ \E tok1, tok2 \in job[t].tried : tok1 # tok2
          /\ rejected

FreshInv ==
    /\ token \in issued \cup {NoToken}
    /\ GrantsUnused
    /\ \A t \in Tasks : TriedOf(t)

LEMMA FreshStep == TypeOK /\ FreshInv /\ [Next]_vars => FreshInv'
<1> SUFFICES ASSUME TypeOK, FreshInv, [Next]_vars PROVE FreshInv'
  OBVIOUS
<1> USE DEF Goto, Return, client, server
<1>0. /\ pc \in [Tasks -> Steps] /\ job \in [Tasks -> Job]
      /\ \A t \in Tasks : job[t] \in Job
      /\ NoToken \notin Token /\ issued \subseteq Token /\ live \subseteq issued
      /\ token \in issued \cup {NoToken}
      /\ GrantsUnused /\ \A t \in Tasks : TriedOf(t)
  BY NoTokenAssumption DEF TypeOK, FreshInv
<1>1. ASSUME NEW t \in Tasks, NEW user \in Users \cup {NoUser}, StartConnect(t, user)
      PROVE FreshInv'
  BY <1>0, <1>1 DEF StartConnect, NoJob, FreshInv, GrantsUnused, TriedOf
<1>2. ASSUME NEW t \in Tasks, NEW user \in Users \cup {NoUser}, StartUpdate(t, user)
      PROVE FreshInv'
  BY <1>0, <1>2, AuthenticateCarriesNoToken
     DEF StartUpdate, NoJob, FreshInv, GrantsUnused, TriedOf
<1>3. ASSUME NEW t \in Tasks, NEW m \in Methods, StartCall(t, m)
      PROVE FreshInv'
  BY <1>0, <1>3 DEF StartCall, NoJob, FreshInv, GrantsUnused, TriedOf
<1>4. ASSUME NEW t \in Tasks, StartRefresh(t)
      PROVE FreshInv'
  BY <1>0, <1>4 DEF StartRefresh, NoJob, FreshInv, GrantsUnused, TriedOf
<1>5. ASSUME NEW t \in Tasks, Send(t)
      PROVE FreshInv'
  <2> DEFINE h == HeaderFor(job[t].method)
             tried == job[t].tried \cup ({h} \ {NoToken})
  <2>1. h \in {token, NoToken}
    BY DEF HeaderFor
  <2>2. /\ pc[t] = "send" /\ pc' = [pc EXCEPT ![t] = "inflight"]
        /\ job' = [job EXCEPT ![t].header = h, ![t].tried = tried]
        /\ UNCHANGED <<token, issued, live>>
    BY <1>5 DEF Send
  <2> HIDE DEF h
  <2>3. /\ job'[t].header = h /\ job'[t].tried = tried
        /\ job'[t].retry = job[t].retry /\ job'[t].op = job[t].op
        /\ \A u \in Tasks \ {t} : job'[u] = job[u] /\ pc'[u] = pc[u]
        /\ pc'[t] = "inflight"
    BY <1>0, <2>2 DEF Job
  <2>4. GrantsUnused'
    BY <1>0, <2>1, <2>2, <2>3 DEF GrantsUnused
  <2>5. \A u \in Tasks : TriedOf(u)'
    BY <1>0, <2>1, <2>2, <2>3 DEF TriedOf
  <2> QED
    BY <1>0, <2>2, <2>4, <2>5 DEF FreshInv
<1>6. ASSUME NEW t \in Tasks, HandleAnswer(t)
      PROVE FreshInv'
  <2>1. GrantsUnused'
    BY <1>0, <1>6 DEF HandleAnswer, Job, GrantsUnused
  <2>2. \A u \in Tasks : TriedOf(u)'
    BY <1>0, <1>6 DEF HandleAnswer, Job, TriedOf
  <2> QED
    BY <1>0, <1>6, <2>1, <2>2 DEF HandleAnswer, FreshInv
<1>7. ASSUME NEW t \in Tasks, ReadCreds(t)
      PROVE FreshInv'
  BY <1>0, <1>7, AuthenticateCarriesNoToken
     DEF ReadCreds, Job, FreshInv, GrantsUnused, TriedOf
<1>8. ASSUME NEW t \in Tasks, Install(t)
      PROVE FreshInv'
  <2>1. GrantsUnused'
    BY <1>0, <1>8 DEF Install, AfterToken, Job, GrantsUnused
  <2>2. \A u \in Tasks : TriedOf(u)'
    BY <1>0, <1>8 DEF Install, AfterToken, Job, TriedOf, GrantsUnused
  <2>3. token' \in issued' \cup {NoToken}
    BY <1>0, <1>8 DEF Install, GrantsUnused
  <2> QED
    BY <2>1, <2>2, <2>3 DEF FreshInv
<1>9. ASSUME NEW t \in Tasks, Clear(t)
      PROVE FreshInv'
  <2>1. GrantsUnused'
    BY <1>0, <1>9 DEF Clear, AfterToken, Job, GrantsUnused
  <2>2. \A u \in Tasks : TriedOf(u)'
    BY <1>0, <1>9 DEF Clear, AfterToken, Job, TriedOf
  <2> QED
    BY <1>9, <2>1, <2>2 DEF Clear, FreshInv
<1>10. ASSUME NEW t \in Tasks, Commit(t)
       PROVE FreshInv'
  BY <1>0, <1>10 DEF Commit, Job, FreshInv, GrantsUnused, TriedOf
<1>11. ASSUME NEW t \in Tasks, Finish(t) \/ Cancel(t)
       PROVE FreshInv'
  BY <1>0, <1>11 DEF Finish, Cancel, NoJob, FreshInv, GrantsUnused, TriedOf
<1>12. ASSUME NEW t \in Tasks, ServerRejects(t) \/ ServerExecutes(t) \/ RequestFails(t)
       PROVE FreshInv'
  <2>1. GrantsUnused'
    BY <1>0, <1>12 DEF ServerRejects, ServerExecutes, RequestFails, Answer, Job, GrantsUnused
  <2>2. \A u \in Tasks : TriedOf(u)'
    BY <1>0, <1>12 DEF ServerRejects, ServerExecutes, RequestFails, Answer, Job, TriedOf
  <2> QED
    BY <1>0, <1>12, <2>1, <2>2
       DEF ServerRejects, ServerExecutes, RequestFails, Answer, FreshInv
<1>13. ASSUME NEW t \in Tasks, AuthFails(t)
       PROVE FreshInv'
  BY <1>0, <1>13 DEF AuthFails, Job, FreshInv, GrantsUnused, TriedOf
<1>14. ASSUME NEW t \in Tasks, NEW tok \in Token, AuthGranted(t, tok) \/ AuthAnswerLost(t, tok)
       PROVE FreshInv'
  <2>1. GrantsUnused'
    BY <1>0, <1>14, Issuing DEF AuthGranted, AuthAnswerLost, Job, GrantsUnused, TriedOf
  <2>2. \A u \in Tasks : TriedOf(u)'
    BY <1>0, <1>14, Issuing DEF AuthGranted, AuthAnswerLost, Job, TriedOf
  <2> QED
    BY <1>0, <1>14, <2>1, <2>2, Issuing DEF AuthGranted, AuthAnswerLost, FreshInv
<1>15. ASSUME NEW tok \in live, Expire(tok)
       PROVE FreshInv'
  BY <1>0, <1>15 DEF Expire, FreshInv, GrantsUnused, TriedOf
<1>16. CASE UNCHANGED vars
  BY <1>16 DEF vars, FreshInv, GrantsUnused, TriedOf
<1> QED
  BY <1>1, <1>2, <1>3, <1>4, <1>5, <1>6, <1>7, <1>8, <1>9, <1>10, <1>11, <1>12, <1>13,
     <1>14, <1>15, <1>16 DEF Next, Start, Poll, Serve, ServeAuth

(* Automatic refresh outlives an expiration, whatever the other tasks do. *)
THEOREM RefreshOutlivesExpiry == Spec => []UnauthNeedsTwoExpiries
<1>1. Init => FreshInv
  BY DEF Init, FreshInv, GrantsUnused, TriedOf, NoJob
<1>2. TypeOK /\ FreshInv => UnauthNeedsTwoExpiries
  BY DEF FreshInv, TriedOf, TypeOK, UnauthNeedsTwoExpiries
<1> QED
  BY <1>1, <1>2, FreshStep, TypeCorrect, PTL DEF Spec

----------------------------------------------------------------------------
(***************************************************************************)
(* Under the discipline that runs update_user alone, the shared token and   *)
(* credentials behave as one session that changes atomically: ClientCaller  *)
(* implements Session, for any tasks, users, tokens and procedures.         *)
(***************************************************************************)
(* What the discipline and the borrow of a client under construction give.  *)
Alone(t) == \A u \in Tasks \ {t} : ~Busy(u)

Discipline ==
    /\ \A t \in Tasks : Busy(t) /\ job[t].op = "update" => connected /\ Alone(t)
    /\ \A t \in Tasks : pc[t] # "idle" =>
          IF job[t].op = "connect" THEN ~connected /\ \A u \in Tasks \ {t} : pc[u] = "idle"
                                   ELSE connected

(* Whose token a task is about to write: an update its own user's, any other *)
(* operation that of the credentials, which cannot change under its feet.    *)
Writes(t) ==
    /\ pc[t] \in {"send", "inflight", "answered"} => job[t].op = "call"
    /\ pc[t] = "creds" => job[t].op # "update"
    /\ pc[t] \in {"auth", "install", "clear"} /\ job[t].op # "update" => job[t].user = creds
    /\ pc[t] \in {"auth", "install"} => job[t].user \in Users
    /\ pc[t] = "install" => job[t].grant \in Abstract!TokensOf(job[t].user)
    /\ pc[t] = "clear" => job[t].user = NoUser
    /\ pc[t] = "commit" => job[t].op = "update" /\ token \in Abstract!TokensOf(job[t].user)
    /\ pc[t] = "done" /\ job[t].op = "connect" /\ job[t].reply = "ok" =>
          token \in Abstract!TokensOf(creds)

SessionInv ==
    /\ Discipline
    /\ \A t \in Tasks : Writes(t)
    /\ connected /\ (\A t \in Tasks : pc[t] # "commit") => token \in Abstract!TokensOf(creds)

LEMMA SessionStep ==
    ExclusiveUpdates /\ TypeOK /\ SessionInv /\ [Next]_vars => SessionInv'
<1> SUFFICES ASSUME ExclusiveUpdates, TypeOK, SessionInv, [Next]_vars PROVE SessionInv'
  OBVIOUS
<1> USE DEF Goto, Return, client, server
<1>0. /\ pc \in [Tasks -> Steps] /\ job \in [Tasks -> Job]
      /\ \A t \in Tasks : job[t] \in Job
      /\ creds \in Users \cup {NoUser} /\ NoUser \notin Users
      /\ Discipline /\ \A t \in Tasks : Writes(t)
      /\ connected /\ (\A t \in Tasks : pc[t] # "commit") => token \in Abstract!TokensOf(creds)
  BY NoUserAssumption DEF TypeOK, SessionInv
<1>1. ASSUME NEW t \in Tasks, NEW user \in Users \cup {NoUser}, StartConnect(t, user)
      PROVE SessionInv'
  BY <1>0, <1>1 DEF StartConnect, NoJob, SessionInv, Discipline, Alone, Busy, Writes
<1>2. ASSUME NEW t \in Tasks, NEW user \in Users \cup {NoUser}, StartUpdate(t, user)
      PROVE SessionInv'
  BY <1>0, <1>2 DEF StartUpdate, MayStart, NoJob, SessionInv, Discipline, Alone, Busy, Writes
<1>3. ASSUME NEW t \in Tasks, NEW m \in Methods, StartCall(t, m)
      PROVE SessionInv'
  BY <1>0, <1>3 DEF StartCall, MayStart, NoJob, SessionInv, Discipline, Alone, Busy, Writes
<1>4. ASSUME NEW t \in Tasks, StartRefresh(t)
      PROVE SessionInv'
  BY <1>0, <1>4 DEF StartRefresh, MayStart, NoJob, SessionInv, Discipline, Alone, Busy, Writes
<1>5. ASSUME NEW t \in Tasks, Send(t)
      PROVE SessionInv'
  BY <1>0, <1>5 DEF Send, Job, SessionInv, Discipline, Alone, Busy, Writes
<1>6. ASSUME NEW t \in Tasks, HandleAnswer(t)
      PROVE SessionInv'
  <2>1. Discipline'
    BY <1>0, <1>6 DEF HandleAnswer, Job, Discipline, Alone, Busy, Writes
  <2>2. ASSUME NEW u \in Tasks PROVE Writes(u)'
    <3>1. CASE u = t
      <4>1. job[t].op = "call" /\ job'[t].op = "call"
        BY <1>0, <1>6 DEF HandleAnswer, Writes, Job
      <4>2. pc'[t] \in {"creds", "done"}
        BY <1>0, <1>6 DEF HandleAnswer
      <4> QED
        BY <3>1, <4>1, <4>2 DEF Writes
    <3>2. CASE u # t
      <4>1. pc'[u] = pc[u] /\ job'[u] = job[u] /\ creds' = creds
        BY <1>0, <1>6, <3>2 DEF HandleAnswer
      <4>2. token' = token
        BY <1>0, <1>6 DEF HandleAnswer
      <4> QED
        BY <1>0, <4>1, <4>2 DEF Writes
    <3> QED
      BY <3>1, <3>2
  <2>3. (connected /\ (\A u \in Tasks : pc[u] # "commit") => token \in Abstract!TokensOf(creds))'
    BY <1>0, <1>6 DEF HandleAnswer, Job, Writes, Discipline, Alone, Busy, Abstract!TokensOf
  <2> QED
    BY <2>1, <2>2, <2>3 DEF SessionInv
<1>7. ASSUME NEW t \in Tasks, ReadCreds(t)
      PROVE SessionInv'
  BY <1>0, <1>7 DEF ReadCreds, Job, SessionInv, Discipline, Alone, Busy, Writes
<1>8. ASSUME NEW t \in Tasks, Install(t)
      PROVE SessionInv'
  <2>1. Discipline'
    BY <1>0, <1>8 DEF Install, AfterToken, Job, Discipline, Alone, Busy, Writes
  <2>2. ASSUME NEW u \in Tasks PROVE Writes(u)'
    <3>1. CASE u = t
      BY <1>0, <1>8, <3>1 DEF Install, AfterToken, Job, Writes, Discipline, Abstract!TokensOf
    <3>2. CASE u # t
      <4>1. pc'[u] = pc[u] /\ job'[u] = job[u] /\ creds' = creds
        BY <1>0, <1>8, <3>2 DEF Install, AfterToken
      <4>2. pc[u] # "commit" /\ ~(pc[u] = "done" /\ job[u].op = "connect")
        BY <1>0, <1>8, <3>2 DEF Install, AfterToken, Discipline, Alone, Busy, Writes
      <4> QED
        BY <1>0, <4>1, <4>2 DEF Writes
    <3> QED
      BY <3>1, <3>2
  <2>3. (connected /\ (\A u \in Tasks : pc[u] # "commit") => token \in Abstract!TokensOf(creds))'
    BY <1>0, <1>8 DEF Install, AfterToken, Job, Writes, Discipline, Alone, Busy, Abstract!TokensOf
  <2> QED
    BY <2>1, <2>2, <2>3 DEF SessionInv
<1>9. ASSUME NEW t \in Tasks, Clear(t)
      PROVE SessionInv'
  <2>1. Discipline'
    BY <1>0, <1>9 DEF Clear, AfterToken, Job, Discipline, Alone, Busy, Writes
  <2>2. ASSUME NEW u \in Tasks PROVE Writes(u)'
    <3>1. CASE u = t
      BY <1>0, <1>9, <3>1 DEF Clear, AfterToken, Job, Writes, Discipline, Abstract!TokensOf
    <3>2. CASE u # t
      <4>1. pc'[u] = pc[u] /\ job'[u] = job[u] /\ creds' = creds
        BY <1>0, <1>9, <3>2 DEF Clear, AfterToken
      <4>2. pc[u] # "commit" /\ ~(pc[u] = "done" /\ job[u].op = "connect")
        BY <1>0, <1>9, <3>2 DEF Clear, AfterToken, Discipline, Alone, Busy, Writes
      <4> QED
        BY <1>0, <4>1, <4>2 DEF Writes
    <3> QED
      BY <3>1, <3>2
  <2>3. (connected /\ (\A u \in Tasks : pc[u] # "commit") => token \in Abstract!TokensOf(creds))'
    BY <1>0, <1>9 DEF Clear, AfterToken, Job, Writes, Discipline, Alone, Busy, Abstract!TokensOf
  <2> QED
    BY <2>1, <2>2, <2>3 DEF SessionInv
<1>10. ASSUME NEW t \in Tasks, Commit(t)
       PROVE SessionInv'
  BY <1>0, <1>10 DEF Commit, Job, SessionInv, Discipline, Alone, Busy, Writes
<1>11. ASSUME NEW t \in Tasks, Finish(t)
       PROVE SessionInv'
  BY <1>0, <1>11 DEF Finish, NoJob, SessionInv, Discipline, Alone, Busy, Writes
<1>12. ASSUME NEW t \in Tasks, Cancel(t)
       PROVE SessionInv'
  BY <1>0, <1>12 DEF Cancel, NoJob, SessionInv, Discipline, Alone, Busy, Writes
<1>13. ASSUME NEW t \in Tasks, ServerRejects(t) \/ ServerExecutes(t) \/ RequestFails(t)
       PROVE SessionInv'
  BY <1>0, <1>13 DEF ServerRejects, ServerExecutes, RequestFails, Answer, Job,
     SessionInv, Discipline, Alone, Busy, Writes
<1>14. ASSUME NEW t \in Tasks, AuthFails(t)
       PROVE SessionInv'
  BY <1>0, <1>14 DEF AuthFails, Job, SessionInv, Discipline, Alone, Busy, Writes
<1>15. ASSUME NEW t \in Tasks, NEW tok \in Token, AuthGranted(t, tok) \/ AuthAnswerLost(t, tok)
       PROVE SessionInv'
  <2>1. Discipline'
    BY <1>0, <1>15, Issuing DEF AuthGranted, AuthAnswerLost, Job, Discipline, Alone, Busy, Writes
  <2>2. ASSUME NEW u \in Tasks PROVE Writes(u)'
    <3>1. CASE u = t
      <4>1. /\ job'[t].op = job[t].op /\ job'[t].user = job[t].user /\ creds' = creds
            /\ \/ pc'[t] = "install" /\ job'[t].grant = tok
               \/ pc'[t] = "done" /\ job'[t].reply = "other"
        BY <1>0, <1>15 DEF AuthGranted, AuthAnswerLost, Job
      <4>2. /\ job[t].user \in Users /\ tok \in Abstract!TokensOf(job[t].user)
            /\ job[t].op # "update" => job[t].user = creds
        BY <1>0, <1>15, Issuing
           DEF AuthGranted, AuthAnswerLost, Writes, Abstract!TokensOf
      <4> QED
        BY <3>1, <4>1, <4>2 DEF Writes
    <3>2. CASE u # t
      <4>1. pc'[u] = pc[u] /\ job'[u] = job[u] /\ creds' = creds
        BY <1>0, <1>15, <3>2, Issuing DEF AuthGranted, AuthAnswerLost
      <4>2. token' = token
        BY <1>0, <1>15, Issuing DEF AuthGranted, AuthAnswerLost
      <4> QED
        BY <1>0, <4>1, <4>2 DEF Writes
    <3> QED
      BY <3>1, <3>2
  <2>3. (connected /\ (\A u \in Tasks : pc[u] # "commit") => token \in Abstract!TokensOf(creds))'
    <3>1. connected' = connected /\ creds' = creds /\ token' = token
      BY <1>15 DEF AuthGranted, AuthAnswerLost
    <3>2. pc[t] = "auth" /\ \A u \in Tasks \ {t} : pc'[u] = pc[u]
      BY <1>0, <1>15 DEF AuthGranted, AuthAnswerLost
    <3>3. (\A u \in Tasks : pc'[u] # "commit") => \A u \in Tasks : pc[u] # "commit"
      BY <3>2
    <3> QED
      BY <1>0, <3>1, <3>3 DEF Abstract!TokensOf
  <2> QED
    BY <2>1, <2>2, <2>3 DEF SessionInv
<1>16. CASE UNCHANGED <<client, pc, job>>
  BY <1>16 DEF SessionInv, Discipline, Alone, Busy, Writes
<1> QED
  BY <1>1, <1>2, <1>3, <1>4, <1>5, <1>6, <1>7, <1>8, <1>9, <1>10, <1>11, <1>12, <1>13,
     <1>14, <1>15, <1>16 DEF Next, Start, Poll, Serve, ServeAuth, Expire, vars

LEMMA SessionInvariant == ExclusiveUpdates => (Spec => []SessionInv)
<1> SUFFICES ASSUME ExclusiveUpdates PROVE Spec => []SessionInv
  OBVIOUS
<1>1. Init => SessionInv
  BY DEF Init, SessionInv, Discipline, Busy, Writes
<1>2. TypeOK /\ SessionInv /\ [Next]_vars => SessionInv'
  BY SessionStep
<1> QED
  BY <1>1, <1>2, TypeCorrect, PTL DEF Spec

(* Between operations the token is one of the user the client is set to. *)
THEOREM TokenAgreesWithCredentials == ExclusiveUpdates => (Spec => []Agreement)
<1>1. SessionInv => Agreement
  BY NoTokenAssumption DEF SessionInv, Agreement, Settled, Abstract!TokensOf
<1> QED
  BY <1>1, SessionInvariant, PTL

----------------------------------------------------------------------------
(* The refinement: whose session it is, in terms of the commit in progress. *)
UserIs ==
    /\ (\A t \in Tasks : pc[t] # "commit") => SessionUser = creds
    /\ \A t \in Tasks : pc[t] = "commit" => SessionUser = job[t].user

LEMMA SessionUserIs == SessionInv => UserIs
<1> SUFFICES ASSUME SessionInv PROVE UserIs
  OBVIOUS
<1>1. \A t, u \in Tasks : pc[t] = "commit" /\ pc[u] = "commit" => t = u
  BY DEF SessionInv, Discipline, Alone, Busy, Writes
<1>2. ASSUME NEW t \in Tasks, pc[t] = "commit" PROVE SessionUser = job[t].user
  <2>1. (CHOOSE u \in Tasks : pc[u] = "commit") = t
    BY <1>1, <1>2
  <2> QED
    BY <1>2, <2>1 DEF SessionUser
<1> QED
  BY <1>2 DEF SessionUser, UserIs

LEMMA SessionUserIsNext == SessionInv' => UserIs'
BY SessionUserIs, PTL

(* Every step of the client is a step of the session or a stutter.  Install  *)
(* and Clear of an update switch the user, those of any other operation      *)
(* renew the token; Commit, the server and the requests do not show.         *)
LEMMA SessionRefined ==
    ExclusiveUpdates /\ TypeOK /\ SessionInv /\ SessionInv' /\ [Next]_vars
        => [Abstract!Next]_<<connected, SessionUser, token>>
<1> SUFFICES ASSUME ExclusiveUpdates, TypeOK, SessionInv, SessionInv', [Next]_vars
             PROVE  [Abstract!Next]_<<connected, SessionUser, token>>
  OBVIOUS
<1> USE DEF Goto, Return, client, server
<1>0. /\ pc \in [Tasks -> Steps] /\ job \in [Tasks -> Job]
      /\ \A t \in Tasks : job[t] \in Job
      /\ creds \in Users \cup {NoUser} /\ NoUser \notin Users
      /\ Discipline /\ \A t \in Tasks : Writes(t)
      /\ UserIs /\ UserIs'
  BY NoUserAssumption, SessionUserIs, SessionUserIsNext DEF TypeOK, SessionInv
<1>a. ASSUME creds' = creds,
             \A t \in Tasks : pc[t] = "commit" <=> pc'[t] = "commit",
             \A t \in Tasks : pc[t] = "commit" => job'[t] = job[t]
      PROVE  SessionUser' = SessionUser
  BY <1>0, <1>a DEF UserIs
<1>1. ASSUME NEW t \in Tasks, NEW user \in Users \cup {NoUser}, StartConnect(t, user)
      PROVE Abstract!Prepare(user)
  BY <1>0, <1>1 DEF StartConnect, UserIs, Abstract!Prepare
<1>2. ASSUME NEW t \in Tasks, Install(t) \/ Clear(t)
      PROVE Abstract!Next
  <2>1. token' \in Abstract!TokensOf(job[t].user) /\ connected' = connected
    BY <1>0, <1>2 DEF Install, Clear, Writes, Abstract!TokensOf
  <2>2. job'[t].user = job[t].user /\ job[t].user \in Users \cup {NoUser}
    BY <1>0, <1>2 DEF Install, Clear, AfterToken, Job
  <2>3. CASE job[t].op = "update"
    <3>1. connected /\ pc'[t] = "commit"
      BY <1>0, <1>2, <2>3 DEF Install, Clear, AfterToken, Discipline, Busy
    <3>2. SessionUser' = job[t].user
      BY <1>0, <2>2, <3>1 DEF UserIs
    <3>3. Abstract!SwitchTo(job[t].user)
      BY <2>1, <3>1, <3>2 DEF Abstract!SwitchTo
    <3> QED
      BY <2>2, <3>3 DEF Abstract!Next
  <2>4. CASE job[t].op # "update"
    <3>1. /\ job[t].user = creds /\ creds' = creds
          /\ \A u \in Tasks : pc[u] # "commit" /\ pc'[u] # "commit"
      BY <1>0, <1>2, <2>4
         DEF Install, Clear, AfterToken, Discipline, Alone, Busy, Writes
    <3>2. SessionUser = creds /\ SessionUser' = creds
      BY <1>0, <3>1 DEF UserIs
    <3>3. Abstract!Renew
      BY <2>1, <3>1, <3>2 DEF Abstract!Renew
    <3> QED
      BY <3>3 DEF Abstract!Next
  <2> QED
    BY <2>3, <2>4
<1>3. ASSUME NEW t \in Tasks, Commit(t)
      PROVE UNCHANGED <<connected, SessionUser, token>>
  <2>1. \A u \in Tasks : pc'[u] # "commit"
    BY <1>0, <1>3 DEF Commit, Discipline, Alone, Busy, Writes
  <2> QED
    BY <1>0, <1>3, <2>1 DEF Commit, UserIs
<1>4. ASSUME NEW t \in Tasks, Finish(t)
      PROVE [Abstract!Next]_<<connected, SessionUser, token>>
  <2>1. SessionUser' = SessionUser /\ token' = token
    BY <1>0, <1>4, <1>a DEF Finish
  <2>2. CASE connected' = connected
    BY <2>1, <2>2
  <2>3. CASE connected' # connected
    <3>1. /\ ~connected /\ connected' = TRUE
          /\ job[t].op = "connect" /\ job[t].reply = "ok" /\ pc[t] = "done"
      BY <1>4, <2>3 DEF Finish, TypeOK
    <3>2. token \in Abstract!TokensOf(creds)
      BY <1>0, <3>1 DEF Writes
    <3>3. SessionUser = creds
      BY <1>0, <3>1 DEF Discipline, UserIs
    <3> QED
      BY <2>1, <3>1, <3>2, <3>3 DEF Abstract!Open, Abstract!Next
  <2> QED
    BY <2>2, <2>3
<1>5. ASSUME NEW t \in Tasks, NEW user \in Users \cup {NoUser}, StartUpdate(t, user)
      PROVE UNCHANGED <<connected, SessionUser, token>>
  BY <1>0, <1>5, <1>a DEF StartUpdate
<1>6. ASSUME NEW t \in Tasks, (\E m \in Methods : StartCall(t, m)) \/ StartRefresh(t)
      PROVE UNCHANGED <<connected, SessionUser, token>>
  BY <1>0, <1>6, <1>a DEF StartCall, StartRefresh
<1>7. ASSUME NEW t \in Tasks, Send(t) \/ HandleAnswer(t) \/ ReadCreds(t) \/ Cancel(t)
      PROVE UNCHANGED <<connected, SessionUser, token>>
  BY <1>0, <1>7, <1>a DEF Send, HandleAnswer, ReadCreds, Cancel
<1>8. ASSUME NEW t \in Tasks, Serve(t)
      PROVE UNCHANGED <<connected, SessionUser, token>>
  BY <1>0, <1>8, <1>a DEF Serve, ServerRejects, ServerExecutes, RequestFails, Answer,
     ServeAuth, AuthFails, AuthGranted, AuthAnswerLost
<1>9. CASE UNCHANGED <<client, pc, job>>
  BY <1>9, <1>a
<1> QED
  BY <1>1, <1>2, <1>3, <1>4, <1>5, <1>6, <1>7, <1>8, <1>9
     DEF Next, Start, Poll, Expire, vars, Abstract!Next

(* The client implements the atomic session. *)
THEOREM ClientImplementsSession == ExclusiveUpdates => (Spec => ImplementsSession)
<1> SUFFICES ASSUME ExclusiveUpdates PROVE Spec => ImplementsSession
  OBVIOUS
<1>1. Init => Abstract!Init
  BY DEF Init, Abstract!Init, SessionUser
<1>2. TypeOK /\ SessionInv /\ SessionInv' /\ [Next]_vars
        => [Abstract!Next]_<<connected, SessionUser, token>>
  BY SessionRefined
<1>3. Spec => []SessionInv
  BY SessionInvariant
<1> QED
  BY <1>1, <1>2, <1>3, TypeCorrect, PTL DEF Spec, ImplementsSession, Abstract!Spec
============================================================================
