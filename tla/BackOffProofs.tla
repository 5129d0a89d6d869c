---------------------------- MODULE BackOffProofs ----------------------------
(***************************************************************************)
(* The ladder of back-off durations, and that no flood of failures drives   *)
(* an endpoint up it faster than time passes: for any number of endpoints   *)
(* and requests and any durations.                                         *)
(***************************************************************************)
EXTENDS BackOff, TLAPS

(* Type correctness needs the durations only to be numbers. *)
LEMMA StatusTypes ==
    ASSUME NEW s \in Status
    PROVE  /\ New \in Status /\ Fail(s) \in Status /\ Success(s) \in Status
           /\ Cleared(s) \in Status
BY DurationsAssumption DEF Status, New, Fail, Success, Cleared, Smaller

LEMMA TypeStep == TypeOK /\ [Next]_vars => TypeOK'
<1> SUFFICES ASSUME TypeOK, [Next]_vars PROVE TypeOK'
  OBVIOUS
<1> USE DurationsAssumption, NoEndpointAssumption
<1>0. \A e \in Endpoints : status[e] \in Status
  BY DEF TypeOK
<1>1. ASSUME NEW r \in Requests, Send(r) PROVE TypeOK'
  <2>1. ASSUME NEW e \in Endpoints
        PROVE  Cleared(status[e]) \in Status /\ Cleared(status[e]).age <= Horizon
    BY <1>0, StatusTypes DEF Cleared, TypeOK, Status
  <2>2. status' \in [Endpoints -> Status] /\ \A e \in Endpoints : status'[e].age <= Horizon
    <3>1. /\ status \in [Endpoints -> Status]
          /\ \A e \in Endpoints : status[e].age <= Horizon
      BY DEF TypeOK
    <3>2. CASE status' = status
      BY <3>1, <3>2
    <3>3. ASSUME NEW a \in Endpoints, NEW b \in Endpoints, a # b,
                 status' = [status EXCEPT ![a] = Cleared(@), ![b] = Cleared(@)]
          PROVE  status' \in [Endpoints -> Status] /\ \A e \in Endpoints : status'[e].age <= Horizon
      <4>1. \A e \in Endpoints : status'[e] = IF e \in {a, b} THEN Cleared(status[e]) ELSE status[e]
        BY <3>1, <3>3
      <4>2. status' \in [Endpoints -> Status]
        BY <2>1, <3>1, <3>3
      <4> QED
        BY <2>1, <3>1, <4>1, <4>2
    <3> QED
      BY <1>1, <3>2, <3>3 DEF Send
  <2>3. request' \in [Requests -> Request]
    BY <1>1 DEF Send, Lighter, TypeOK, Request
  <2> QED
    BY <1>1, <2>2, <2>3 DEF Send, TypeOK
<1>2. ASSUME NEW r \in Requests, Respond(r) PROVE TypeOK'
  BY <1>2 DEF Respond, TypeOK, Request
<1>3. ASSUME NEW r \in Requests, Report(r) PROVE TypeOK'
  <2>1. ASSUME NEW e \in Endpoints
        PROVE  /\ Fail(status[e]) \in Status /\ Fail(status[e]).age <= Horizon
               /\ Success(status[e]) \in Status /\ Success(status[e]).age <= Horizon
    BY <1>0, StatusTypes DEF Fail, Success, New, TypeOK, Status
  <2>2. status' \in [Endpoints -> Status] /\ \A e \in Endpoints : status'[e].age <= Horizon
    <3>1. /\ status \in [Endpoints -> Status]
          /\ \A e \in Endpoints : status[e].age <= Horizon
      BY DEF TypeOK
    <3>2. CASE status' = status
      BY <3>1, <3>2
    <3>3. ASSUME NEW e \in Endpoints, NEW new \in {Fail(status[e]), Success(status[e])},
                 status' = [status EXCEPT ![e] = new]
          PROVE  status' \in [Endpoints -> Status] /\ \A d \in Endpoints : status'[d].age <= Horizon
      BY <2>1, <3>1, <3>3
    <3> QED
      BY <1>3, <3>2, <3>3 DEF Report
  <2>3. request' \in [Requests -> Request]
    BY <1>3 DEF Report, TypeOK, Request, Idle
  <2>4. outage' \in [Endpoints -> 0..Horizon]
    BY <1>3 DEF Report, TypeOK
  <2> QED
    BY <1>3, <2>2, <2>3, <2>4 DEF Report, TypeOK
<1>4. ASSUME NEW r \in Requests, Drop(r) PROVE TypeOK'
  BY <1>4 DEF Drop, TypeOK, Request, Idle
<1>5. ASSUME NEW e \in Endpoints, Reinsert(e) PROVE TypeOK'
  BY <1>5 DEF Reinsert, New, TypeOK, Status, Request
<1>6. CASE Tick
  <2>1. status' \in [Endpoints -> Status] /\ \A e \in Endpoints : status'[e].age <= Horizon
    BY <1>6 DEF Tick, Later, TypeOK, Status
  <2>2. outage' \in [Endpoints -> 0..Horizon]
    BY <1>6 DEF Tick, Later, TypeOK
  <2> QED
    BY <1>6, <2>1, <2>2 DEF Tick, TypeOK
<1>7. ASSUME NEW e \in Endpoints, Break(e) \/ Recover(e) PROVE TypeOK'
  BY <1>7 DEF Break, Recover, TypeOK
<1>8. CASE UNCHANGED vars
  BY <1>8 DEF vars, TypeOK
<1> QED
  BY <1>1, <1>2, <1>3, <1>4, <1>5, <1>6, <1>7, <1>8 DEF Next

(* The state stays within its types. *)
THEOREM TypeCorrect == Spec => []TypeOK
<1>1. Init => TypeOK
  BY DurationsAssumption DEF Init, New, Idle, TypeOK, Status, Request
<1> QED
  BY <1>1, TypeStep, PTL DEF Spec

----------------------------------------------------------------------------
(* What holds of one endpoint: its rung of the ladder, and how long it has    *)
(* been without a success.  A back-off of age a that is in force or over, of  *)
(* duration c, began after an outage of c - Initial; so when it is over and   *)
(* the next failure doubles it, twice c has been paid for.                    *)
Rung(s) ==
    /\ Initial <= s.current /\ s.current <= s.next /\ s.next <= Max
    /\ \/ s.next = Smaller(2 * s.current, Max)
       \/ s.next = Initial /\ s.current = Initial /\ ~s.failed

Paid(s, time) ==
    \/ time = Horizon
    \/ time + Initial >= (IF s.failed THEN s.current + s.age ELSE s.next)

PaidLadder == \A e \in Endpoints : Rung(status[e]) /\ Paid(status[e], outage[e])

LEMMA RungKept ==
    ASSUME NEW s \in Status, NEW time \in 0..Horizon, Rung(s), Paid(s, time)
    PROVE  /\ Rung(New) /\ Paid(New, 0)
           /\ Rung(Fail(s)) /\ Paid(Fail(s), time)
           /\ Rung(Cleared(s)) /\ Paid(Cleared(s), time)
<1> USE DurationsAssumption DEF Status
<1>1. Rung(New) /\ Paid(New, 0)
  BY DEF Rung, Paid, New, Smaller
<1>2. Rung(Fail(s))
  BY DEF Rung, Fail, Smaller
<1>3. Paid(Fail(s), time)
  BY DEF Rung, Paid, Fail, BackingOff, Smaller
<1>4. Rung(Cleared(s)) /\ Paid(Cleared(s), time)
  BY DEF Rung, Paid, Cleared, BackingOff, Smaller
<1> QED
  BY <1>1, <1>2, <1>3, <1>4

LEMMA PaidStep == TypeOK /\ PaidLadder /\ [Next]_vars => PaidLadder'
<1> SUFFICES ASSUME TypeOK, PaidLadder, [Next]_vars, NEW e \in Endpoints
             PROVE  (Rung(status[e]) /\ Paid(status[e], outage[e]))'
  BY DEF PaidLadder
<1>0. /\ status[e] \in Status /\ outage[e] \in 0..Horizon
      /\ Rung(status[e]) /\ Paid(status[e], outage[e])
      /\ status \in [Endpoints -> Status] /\ outage \in [Endpoints -> 0..Horizon]
  BY DEF TypeOK, PaidLadder
<1>a. CASE status'[e] \in {status[e], Cleared(status[e]), Fail(status[e])} /\ outage'[e] = outage[e]
  BY <1>0, <1>a, RungKept
<1>b. CASE status'[e] = New /\ outage'[e] = 0
  BY <1>0, <1>b, RungKept
<1>1. ASSUME NEW r \in Requests, Send(r)
      PROVE  status'[e] \in {status[e], Cleared(status[e])} /\ outage'[e] = outage[e]
  BY <1>0, <1>1 DEF Send
<1>2. ASSUME NEW r \in Requests, Report(r)
      PROVE  \/ status'[e] = New /\ outage'[e] = 0
             \/ status'[e] \in {status[e], Fail(status[e])} /\ outage'[e] = outage[e]
  BY <1>0, <1>2 DEF Report, Success
<1>3. ASSUME NEW f \in Endpoints, Reinsert(f)
      PROVE  \/ status'[e] = New /\ outage'[e] = 0
             \/ status'[e] = status[e] /\ outage'[e] = outage[e]
  BY <1>0, <1>3 DEF Reinsert
<1>4. CASE Tick
  <2>1. /\ status'[e] = IF status[e].failed THEN [status[e] EXCEPT !.age = Later(@)] ELSE status[e]
        /\ outage'[e] = Later(outage[e])
    BY <1>4 DEF Tick
  <2> QED
    BY <1>0, <2>1, DurationsAssumption DEF Rung, Paid, Later, Status
<1>5. CASE UNCHANGED <<status, outage>>
  BY <1>0, <1>5
<1> QED
  BY <1>a, <1>b, <1>1, <1>2, <1>3, <1>4, <1>5 DEF Next, Respond, Drop, Break, Recover, vars

LEMMA PaidInvariant == Spec => []PaidLadder
<1>1. Init => PaidLadder
  BY DurationsAssumption DEF Init, PaidLadder, Rung, Paid, New
<1> QED
  BY <1>1, PaidStep, TypeCorrect, PTL DEF Spec

(* Every endpoint is always on a rung of the ladder. *)
THEOREM OnTheLadder == Spec => []Ladder
<1>1. PaidLadder => Ladder
  BY DEF PaidLadder, Rung, Ladder
<1> QED
  BY <1>1, PaidInvariant, PTL

(* A flood of failures never lengthens a back-off beyond the outage. *)
THEOREM NoFloodOutgrowsTheOutage == Spec => []BackOffWithinOutage
<1>1. TypeOK /\ PaidLadder => BackOffWithinOutage
  BY DurationsAssumption DEF TypeOK, Status, PaidLadder, Rung, Paid, BackOffWithinOutage
<1> QED
  BY <1>1, PaidInvariant, TypeCorrect, PTL

============================================================================
