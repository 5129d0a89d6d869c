------------------------------ MODULE BackOff ------------------------------
(***************************************************************************)
(* The back-off load of the OpenSSL channel (src/openssl_tls/backoff.rs):   *)
(* every endpoint carries a BackOffStatus, the futures of its requests      *)
(* report success or failure to it when they are polled to the end, and the *)
(* balancer asks it for the endpoint's load.  Requests are concurrent and   *)
(* report in any order.                                                    *)
(*                                                                         *)
(* The balancer is external (tower's power-of-two-choices over the ready    *)
(* services), and so are the servers, which are up or down.  Instants are   *)
(* modelled by what the code reads of them, the time since the last failure,*)
(* which one Tick lengthens for every endpoint and which stops counting at  *)
(* Horizon, beyond every back-off there is.                                 *)
(***************************************************************************)
EXTENDS Naturals, FiniteSets

CONSTANTS
    Endpoints,   \* endpoints in the balancer
    Requests,    \* bound: requests outstanding at once
    Initial,     \* initial_backoff_dur (1 s)
    Max,         \* max_backoff_dur (256 s)
    Horizon,     \* where clocks stop counting
    NoEndpoint   \* of a request whose endpoint was replaced meanwhile

ASSUME EndpointsAssumption == IsFiniteSet(Endpoints) /\ Endpoints # {}
ASSUME NoEndpointAssumption == NoEndpoint \notin Endpoints
ASSUME DurationsAssumption ==
    /\ Initial \in Nat \ {0} /\ Max \in Nat /\ Horizon \in Nat
    /\ Initial <= Max /\ Max < Horizon

VARIABLES
    status,   \* BackOffStatus of each endpoint
    outage,   \* history: time since the endpoint last reported a success
    up,       \* whether the endpoint's server works
    request   \* where each request is

vars == <<status, outage, up, request>>

(* last_failure is Some(Instant::now() - age) if failed, and None otherwise. *)
Status == [next : Nat, current : Nat, failed : BOOLEAN, age : Nat]

Idle == [at |-> NoEndpoint, step |-> "idle"]
Request == [at : Endpoints \cup {NoEndpoint}, step : {"idle", "out", "ok", "err"}]

(* BackOffStatus::new *)
New == [next |-> Initial, current |-> Initial, failed |-> FALSE, age |-> 0]

Init ==
    /\ status = [e \in Endpoints |-> New]
    /\ outage = [e \in Endpoints |-> 0]
    /\ up \in [Endpoints -> BOOLEAN]
    /\ request = [r \in Requests |-> Idle]

----------------------------------------------------------------------------
(* BackOffStatus *)

(* Mutant: a failure is never forgotten. *)
BackingOffForever(s) == s.failed

(* failed(): the back-off is still in force. *)
BackingOff(s) == s.failed /\ s.age <= s.current

(* ... and clears a failure that is older than the back-off. *)
Cleared(s) ==
    IF BackingOff(s) THEN s
    ELSE [next |-> s.next, current |-> s.current, failed |-> FALSE, age |-> 0]

Smaller(m, n) == IF m < n THEN m ELSE n

(* Mutant: every failure doubles the back-off. *)
FailDoubles(s) ==
    [next |-> Smaller(2 * s.next, Max), current |-> s.next, failed |-> TRUE, age |-> 0]

(* Mutant: a failure that is over, but that nobody has asked for since, still *)
(* counts as a back-off in force.                                           *)
FailStale(s) ==
    IF s.failed
    THEN [s EXCEPT !.age = 0]
    ELSE [next |-> Smaller(2 * s.next, Max), current |-> s.next, failed |-> TRUE, age |-> 0]

(* fail(): only the failure that starts a back-off moves up the ladder; any   *)
(* failure during it restarts its clock.                                    *)
Fail(s) ==
    IF BackingOff(s)
    THEN [s EXCEPT !.age = 0]
    ELSE [next |-> Smaller(2 * s.next, Max), current |-> s.next, failed |-> TRUE, age |-> 0]

(* Mutant: the next back-off is not reset. *)
SuccessKeepsNext(s) ==
    [next |-> s.next, current |-> Initial, failed |-> FALSE, age |-> 0]

(* success() *)
Success(s) == New

----------------------------------------------------------------------------
(* The balancer (external) takes the first of two endpoints unless the load of *)
(* the second is strictly less, FALSE being less than TRUE.                   *)
Lighter(a, b) == IF BackingOff(status[a]) /\ ~BackingOff(status[b]) THEN b ELSE a

(* It samples two of the endpoints that are ready and asks both for their      *)
(* load, which clears failures that are over.  If only one is ready it is      *)
(* taken unasked, and keeps a failure that may be over.                       *)
Send(r) ==
    /\ request[r] = Idle
    /\ \/ \E e \in Endpoints :
             /\ request' = [request EXCEPT ![r] = [at |-> e, step |-> "out"]]
             /\ UNCHANGED status
       \/ \E a, b \in Endpoints :
             /\ a # b
             /\ request' = [request EXCEPT ![r] = [at |-> Lighter(a, b), step |-> "out"]]
             /\ status' = [status EXCEPT ![a] = Cleared(@), ![b] = Cleared(@)]
    /\ UNCHANGED <<outage, up>>

(* The answer of the transport; a gRPC error status is an Ok response to it. *)
Respond(r) ==
    /\ request[r].step = "out"
    /\ IF request[r].at \in Endpoints
       THEN request' = [request EXCEPT ![r].step = IF up[request[r].at] THEN "ok" ELSE "err"]
       ELSE \E result \in {"ok", "err"} : request' = [request EXCEPT ![r].step = result]
    /\ UNCHANGED <<status, outage, up>>

(* TraceFailFuture::poll sees the result and reports it to the handle; the    *)
(* status of a replaced endpoint is nobody's load any more.                   *)
Report(r) ==
    LET e == request[r].at IN
    /\ request[r].step \in {"ok", "err"}
    /\ request' = [request EXCEPT ![r] = Idle]
    /\ IF e \notin Endpoints THEN UNCHANGED <<status, outage>>
       ELSE IF request[r].step = "ok"
            THEN /\ status' = [status EXCEPT ![e] = Success(@)]
                 /\ outage' = [outage EXCEPT ![e] = 0]
            ELSE status' = [status EXCEPT ![e] = Fail(@)] /\ UNCHANGED outage
    /\ UNCHANGED up

(* The future is dropped before its end and reports nothing. *)
Drop(r) ==
    /\ request[r] # Idle
    /\ request' = [request EXCEPT ![r] = Idle]
    /\ UNCHANGED <<status, outage, up>>

(* Change::Insert of a present endpoint: create_openssl_discover wraps a new   *)
(* channel in a new status; requests under way keep the old one.             *)
Reinsert(e) ==
    /\ status' = [status EXCEPT ![e] = New]
    /\ outage' = [outage EXCEPT ![e] = 0]
    /\ request' = [r \in Requests |-> IF request[r].at = e
                                      THEN [request[r] EXCEPT !.at = NoEndpoint] ELSE request[r]]
    /\ UNCHANGED up

(* Mutant: clocks that count beyond the horizon. *)
LaterUnbounded(age) == age + 1

Later(age) == IF age < Horizon THEN age + 1 ELSE age

Tick ==
    /\ status' = [e \in Endpoints |-> IF status[e].failed
                    THEN [status[e] EXCEPT !.age = Later(@)] ELSE status[e]]
    /\ outage' = [e \in Endpoints |-> Later(outage[e])]
    /\ UNCHANGED <<up, request>>

Break(e) == up[e] /\ up' = [up EXCEPT ![e] = FALSE] /\ UNCHANGED <<status, outage, request>>

Recover(e) == ~up[e] /\ up' = [up EXCEPT ![e] = TRUE] /\ UNCHANGED <<status, outage, request>>

Next ==
    \/ \E r \in Requests : Send(r) \/ Respond(r) \/ Report(r) \/ Drop(r)
    \/ \E e \in Endpoints : Reinsert(e) \/ Break(e) \/ Recover(e)
    \/ Tick

Spec == Init /\ [][Next]_vars

(* Time passes, requests end (Endpoint::timeout or the connection), and the   *)
(* runtime polls a future whose result is there.                              *)
Fairness ==
    /\ WF_vars(Tick)
    /\ \A r \in Requests : WF_vars(Respond(r)) /\ WF_vars(Report(r))

FairSpec == Spec /\ Fairness

----------------------------------------------------------------------------
(* Properties *)

(* The state stays within its types and clocks within the horizon. *)
TypeOK ==
    /\ status \in [Endpoints -> Status]
    /\ \A e \in Endpoints : status[e].age <= Horizon
    /\ outage \in [Endpoints -> 0..Horizon]
    /\ up \in [Endpoints -> BOOLEAN]
    /\ request \in [Requests -> Request]

(* The back-off durations are a ladder: from Initial to Max, and the next one *)
(* is twice the current one (or Max), unless there was no failure since the   *)
(* last success.  A late or repeated report never leaves it half reset.       *)
Ladder ==
    \A e \in Endpoints : LET s == status[e] IN
        /\ Initial <= s.current /\ s.current <= s.next /\ s.next <= Max
        /\ \/ s.next = Smaller(2 * s.current, Max)
           \/ s.next = Initial /\ s.current = Initial /\ ~s.failed

(* "a flood of failure ... may make the back off duration too long, even      *)
(* longer than the time it may take to recover" (backoff.rs) is what cannot   *)
(* happen: however many requests fail, and in whatever order they report, an  *)
(* endpoint beyond the first back-off has been without a success for at least *)
(* the time the back-off has grown by.                                       *)
BackOffWithinOutage ==
    \A e \in Endpoints : status[e].current - Initial <= outage[e]

ReportFailure(e) == \E r \in Requests : request[r] = [at |-> e, step |-> "err"] /\ Report(r)

(* A back-off that is over counts for nothing, even if nobody has asked for     *)
(* the load since, so that its failure is still recorded: an endpoint that is   *)
(* down and not replaced, whose back-off ends again and again and whose         *)
(* failures go on, comes to back off for the longest time there is, and stays   *)
(* there.                                                                     *)
OutageClimbsLadder ==
    \A e \in Endpoints :
        (/\ <>[]~up[e] /\ <>[][~Reinsert(e)]_vars
         /\ []<>~BackingOff(status[e]) /\ []<><<ReportFailure(e)>>_vars)
            => <>[](status[e].current = Max)

(* An endpoint that works for good is, from some time on, never avoided: late *)
(* failures of old requests cannot keep it in back-off for ever.              *)
RecoveredEndpointReturns ==
    \A e \in Endpoints : <>[]up[e] => <>[]~BackingOff(status[e])
============================================================================
