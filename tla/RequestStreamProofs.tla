------------------------- MODULE RequestStreamProofs -------------------------
(***************************************************************************)
(* The request half of a stream keeps every request in its place, for any    *)
(* capacities and any requests: lemmas for the modules that extend           *)
(* RequestStream, whose steps are StreamStep as far as the requests go.      *)
(***************************************************************************)
EXTENDS RequestStream, SequenceTheorems, TLAPS

USE CapacityAssumption

(* While the stream is being opened there is one request, and no send. *)
Opening ==
    /\ stream \in {"none", "opening", "refreshing", "reopening"} => sending = NoRequest
    /\ stream \in {"opening", "refreshing", "reopening"} => Len(sent) = 1
    /\ stream \in {"none", "refreshing"} => queue = <<>> /\ wire = <<>> /\ handled = <<>>

Whole == Live => sent = handled \o wire \o queue

Begins(first, all) == \E n \in 0..Len(all) : first = SubSeq(all, 1, n)

ReadInOrder == Begins(handled, sent)

StreamInv(Request) == StreamTypeOK(Request) /\ Opening /\ Whole /\ ReadInOrder

StreamStep(Request) ==
    \/ \E req \in Request : Open(req) \/ StartSend(req)
    \/ Refused \/ Retry \/ Opened
    \/ FinishSend \/ SendFails \/ DropSend
    \/ Transfer \/ Receive
    \/ Close /\ UNCHANGED <<sending, sent, handled>>
    \/ UNCHANGED streamVars

LEMMA StreamInvInit == ASSUME NEW Request, StreamInit PROVE StreamInv(Request)
<1>1. <<>> \in Seq(Request) /\ Len(<<>>) = 0 /\ SubSeq(<<>>, 1, 0) = <<>>
  BY EmptySeq, SubSeqEmpty
<1> QED
  BY <1>1 DEF StreamInit, StreamInv, StreamTypeOK, Stages, Opening, Whole, Live, ReadInOrder, Begins

(* Moving the head of one queue to the end of the one before changes nothing. *)
LEMMA MoveHead ==
    ASSUME NEW S, NEW before \in Seq(S), NEW after \in Seq(S), after # <<>>
    PROVE  Append(before, Head(after)) \o Tail(after) = before \o after
<1> DEFINE front == Append(before, Head(after))
           rest == Tail(after)
<1>1. /\ Head(after) \in S /\ rest \in Seq(S) /\ Len(rest) = Len(after) - 1
      /\ \A i \in 1..Len(rest) : rest[i] = after[i + 1]
      /\ Len(after) \in Nat \ {0} /\ Len(before) \in Nat
  BY HeadTailProperties, EmptySeq, LenProperties
<1>2. /\ front \in Seq(S) /\ Len(front) = Len(before) + 1
      /\ \A i \in 1..Len(before) : front[i] = before[i]
      /\ front[Len(before) + 1] = after[1]
  BY <1>1, AppendProperties
<1> HIDE DEF front, rest
<1>3. /\ front \o rest \in Seq(S) /\ Len(front \o rest) = Len(before) + Len(after)
      /\ \A i \in 1..(Len(before) + Len(after)) :
            (front \o rest)[i] = IF i <= Len(front) THEN front[i] ELSE rest[i - Len(front)]
  <2>1. Len(front) + Len(rest) = Len(before) + Len(after)
    BY <1>1, <1>2
  <2>2. /\ front \o rest \in Seq(S) /\ Len(front \o rest) = Len(front) + Len(rest)
        /\ \A i \in 1..(Len(front) + Len(rest)) :
              (front \o rest)[i] = IF i <= Len(front) THEN front[i] ELSE rest[i - Len(front)]
    <3>1. front \in Seq(S) /\ rest \in Seq(S)
      BY <1>1, <1>2
    <3> QED
      BY <3>1, ConcatProperties
  <2> QED
    BY <2>1, <2>2
<1>4. /\ before \o after \in Seq(S) /\ Len(before \o after) = Len(before) + Len(after)
      /\ \A i \in 1..(Len(before) + Len(after)) :
            (before \o after)[i] = IF i <= Len(before) THEN before[i] ELSE after[i - Len(before)]
  BY ConcatProperties
<1>5. ASSUME NEW i \in 1..(Len(before) + Len(after))
      PROVE  (front \o rest)[i] = (before \o after)[i]
  <2>1. CASE i <= Len(before)
    <3>1. i \in 1..Len(before) /\ i <= Len(front)
      BY <2>1, <1>1, <1>2
    <3>2. (front \o rest)[i] = before[i]
      BY <3>1, <1>2, <1>3
    <3> QED
      BY <2>1, <3>2, <1>4
  <2>2. CASE i = Len(before) + 1
    <3>1. (front \o rest)[i] = after[1]
      BY <2>2, <1>2, <1>3
    <3>2. (before \o after)[i] = after[1]
      <4>1. i - Len(before) = 1 /\ ~(i <= Len(before))
        BY <2>2, <1>1
      <4> QED
        BY <4>1, <1>4
    <3> QED
      BY <3>1, <3>2
  <2>3. CASE i > Len(before) + 1
    <3>1. i - Len(front) \in 1..Len(rest) /\ (i - Len(front)) + 1 = i - Len(before)
      BY <2>3, <1>1, <1>2
    <3>2. (front \o rest)[i] = rest[i - Len(front)]
      BY <2>3, <1>1, <1>2, <1>3
    <3>3. (before \o after)[i] = after[i - Len(before)]
      BY <2>3, <1>1, <1>4
    <3> QED
      BY <3>1, <3>2, <3>3, <1>1
  <2>4. i <= Len(before) \/ i = Len(before) + 1 \/ i > Len(before) + 1
    <3>1. i \in Nat /\ Len(before) \in Nat
      BY <1>1
    <3> QED
      BY <3>1
  <2> QED
    BY <2>1, <2>2, <2>3, <2>4
<1>6. front \o rest = before \o after
  BY <1>3, <1>4, <1>5, SeqEqual
<1> QED
  BY <1>6 DEF front, rest

(* A sequence is the beginning of its concatenation with others. *)
LEMMA Beginning ==
    ASSUME NEW S, NEW first \in Seq(S), NEW second \in Seq(S), NEW third \in Seq(S)
    PROVE  Begins(first, first \o second \o third)
<1> DEFINE rest == second \o third
           all == first \o second \o third
<1>1. rest \in Seq(S)
  BY ConcatProperties
<1>2. all = first \o rest
  BY ConcatAssociative
<1> HIDE DEF rest, all
<1>3. /\ Len(all) = Len(first) + Len(rest) /\ Len(first) \in Nat /\ Len(rest) \in Nat
      /\ Len(first) \in 0..Len(all)
  BY <1>1, <1>2, ConcatProperties, LenProperties
<1>4. first = SubSeq(all, 1, Len(first))
  <2>1. CASE first = <<>>
    BY <2>1, SubSeqEmpty, EmptySeq
  <2>2. CASE first # <<>>
    <3>1. Len(first) \in 1..Len(first) /\ 1 \in 1..Len(first)
      BY <2>2, EmptySeq
    <3>2. SubSeq(all, 1, Len(first)) = SubSeq(first, 1, Len(first))
      BY <1>1, <1>2, <3>1, SubSeqOfConcat1
    <3> QED
      BY <3>2, SubSeqFull
  <2> QED
    BY <2>1, <2>2
<1> QED
  BY <1>3, <1>4 DEF all, Begins

(* A step of the stream keeps the requests in their places. *)
LEMMA StreamInvStep ==
    ASSUME NEW Request, NoRequest \notin Request, StreamInv(Request), StreamStep(Request)
    PROVE  StreamInv(Request)'
<1>1. StreamTypeOK(Request) /\ Opening /\ Whole /\ ReadInOrder
  BY DEF StreamInv
<1>S. /\ sent \in Seq(Request) /\ handled \in Seq(Request)
      /\ wire \in Seq(Request) /\ queue \in Seq(Request)
  BY <1>1 DEF StreamTypeOK
<1>E. <<>> \in Seq(Request) /\ Len(<<>>) = 0
  BY EmptySeq
<1>2. ASSUME NEW req \in Request, Open(req) PROVE StreamInv(Request)'
  <2>1. <<req>> \in Seq(Request) /\ Len(<<req>>) = 1 /\ Capacity >= 1
    BY CapacityAssumption
  <2>2. queue' = <<req>> /\ sent' = <<req>> /\ wire' = wire /\ handled' = handled
        /\ stream = "none" /\ stream' = "opening" /\ sending' = sending
    BY <1>2 DEF Open
  <2>3. wire = <<>> /\ handled = <<>> /\ sending = NoRequest
    BY <1>1, <2>2 DEF Opening, StreamTypeOK, Stages
  <2>4. StreamTypeOK(Request)' /\ Opening'
    BY <1>1, <1>E, <2>1, <2>2, <2>3 DEF Opening, StreamTypeOK, Stages
  <2>5. <<>> \o <<>> \o <<req>> = <<req>>
    BY <2>1, ConcatEmptySeq, <1>E
  <2>6. Whole'
    BY <2>2, <2>3, <2>5 DEF Whole
  <2>7. ReadInOrder'
    <3>1. SubSeq(<<req>>, 1, 0) = <<>>
      BY SubSeqEmpty
    <3>2. handled' = SubSeq(sent', 1, 0) /\ 0 \in 0..Len(sent')
      BY <2>1, <2>2, <2>3, <3>1
    <3> QED
      BY <3>2 DEF ReadInOrder, Begins
  <2> QED
    BY <2>4, <2>6, <2>7 DEF StreamInv
<1>3. ASSUME NEW req \in Request, StartSend(req) PROVE StreamInv(Request)'
  BY <1>1, <1>3 DEF StartSend, Opening, Whole, ReadInOrder, Live, StreamInv, StreamTypeOK, Stages
<1>4. CASE Refused
  BY <1>1, <1>4, <1>E DEF Refused, Opening, Whole, ReadInOrder, Live, StreamInv, StreamTypeOK, Stages
<1>5. CASE Retry
  <2>1. /\ stream = "refreshing" /\ stream' = "reopening" /\ queue' = sent
        /\ sending' = sending /\ wire' = wire /\ sent' = sent /\ handled' = handled
    BY <1>5 DEF Retry
  <2>2. wire = <<>> /\ handled = <<>> /\ sending = NoRequest /\ Len(sent) = 1 /\ Capacity >= 1
    BY <1>1, <2>1 DEF Opening, StreamTypeOK, Stages
  <2>3. StreamTypeOK(Request)' /\ Opening'
    BY <1>1, <2>1, <2>2 DEF Opening, StreamTypeOK, Stages
  <2>4. <<>> \o <<>> \o sent = sent
    BY <1>S, <1>E, ConcatEmptySeq
  <2> QED
    BY <1>1, <2>1, <2>2, <2>3, <2>4 DEF Whole, ReadInOrder, StreamInv
<1>6. CASE Opened
  BY <1>1, <1>6 DEF Opened, Opening, Whole, ReadInOrder, Live, Calling, StreamInv, StreamTypeOK, Stages
<1>7. CASE FinishSend
  <2>1. /\ stream = "open" /\ stream' = "open" /\ sending # NoRequest /\ Len(queue) < Capacity
        /\ sending' = NoRequest /\ queue' = Append(queue, sending) /\ sent' = Append(sent, sending)
        /\ wire' = wire /\ handled' = handled /\ stream' = stream /\ sending \in Request
    BY <1>1, <1>7 DEF FinishSend, StreamTypeOK
  <2>2. /\ queue' \in Seq(Request) /\ Len(queue') = Len(queue) + 1
        /\ sent' \in Seq(Request) /\ Len(queue) \in Nat
    BY <1>S, <2>1, AppendProperties, LenProperties
  <2>3. StreamTypeOK(Request)' /\ Opening'
    BY <1>1, <2>1, <2>2 DEF Opening, StreamTypeOK, Stages
  <2>4. sent' = handled \o wire \o queue'
    <3>1. sent = (handled \o wire) \o queue /\ handled \o wire \in Seq(Request)
      BY <1>1, <1>S, <2>1, ConcatProperties DEF Whole, Live
    <3>2. /\ sent' = ((handled \o wire) \o queue) \o <<sending>>
          /\ queue' = queue \o <<sending>> /\ <<sending>> \in Seq(Request)
      BY <1>S, <2>1, <3>1, AppendIsConcat
    <3>3. ((handled \o wire) \o queue) \o <<sending>> = (handled \o wire) \o (queue \o <<sending>>)
      <4>1. PICK front \in Seq(Request) : front = handled \o wire
        BY <3>1
      <4>2. PICK back \in Seq(Request) : back = <<sending>>
        BY <3>2
      <4>3. PICK middle \in Seq(Request) : middle = queue
        BY <1>S
      <4>4. (front \o middle) \o back = front \o (middle \o back)
        BY ConcatAssociative
      <4> QED
        BY <4>1, <4>2, <4>3, <4>4
    <3> QED
      BY <3>2, <3>3
  <2>5. ReadInOrder'
    <3>1. Begins(handled, handled \o wire \o queue')
      <4>1. queue' \in Seq(Request)
        BY <2>2
      <4> QED
        BY <1>S, <4>1, Beginning
    <3> QED
      BY <2>1, <2>4, <3>1 DEF ReadInOrder
  <2> QED
    BY <2>1, <2>3, <2>4, <2>5 DEF StreamInv, Whole
<1>8. CASE SendFails \/ DropSend
  <2>1. /\ sending' = NoRequest /\ stream' = stream /\ queue' = queue /\ wire' = wire
        /\ sent' = sent /\ handled' = handled
    BY <1>8 DEF SendFails, DropSend
  <2>2. StreamTypeOK(Request)' /\ Opening'
    BY <1>1, <2>1 DEF StreamTypeOK, Opening
  <2> QED
    BY <1>1, <2>1, <2>2 DEF StreamInv, Whole, Live, ReadInOrder
<1>9. CASE Transfer
  <2>1. /\ Live /\ queue # <<>> /\ Len(wire) < Window /\ stream' = stream
        /\ queue' = Tail(queue) /\ wire' = Append(wire, Head(queue))
        /\ sending' = sending /\ sent' = sent /\ handled' = handled
    BY <1>9 DEF Transfer
  <2>2. /\ Head(queue) \in Request /\ queue' \in Seq(Request) /\ Len(queue') = Len(queue) - 1
        /\ wire' \in Seq(Request) /\ Len(wire') = Len(wire) + 1
        /\ Len(queue) \in Nat /\ Len(wire) \in Nat
    BY <1>S, <2>1, HeadTailProperties, AppendProperties, LenProperties
  <2>3. StreamTypeOK(Request)' /\ Opening'
    BY <1>1, <2>1, <2>2 DEF Opening, Live, StreamTypeOK, Stages
  <2>4. sent' = handled' \o wire' \o queue'
    <3>1. sent = handled \o (wire \o queue)
      <4>1. (handled \o wire) \o queue = handled \o (wire \o queue)
        BY <1>S, ConcatAssociative
      <4> QED
        BY <1>1, <2>1, <4>1 DEF Whole
    <3>2. wire' \o queue' = wire \o queue
      BY <1>S, <2>1, MoveHead
    <3>3. (handled \o wire') \o queue' = handled \o (wire' \o queue')
      <4>1. wire' \in Seq(Request) /\ queue' \in Seq(Request)
        BY <2>2
      <4>2. \A first, second, third \in Seq(Request) :
                (first \o second) \o third = first \o (second \o third)
        BY ConcatAssociative
      <4> QED
        BY <1>S, <4>1, <4>2
    <3> QED
      BY <2>1, <3>1, <3>2, <3>3
  <2>5. ReadInOrder'
    BY <1>1, <2>1 DEF ReadInOrder
  <2> QED
    BY <2>1, <2>3, <2>4, <2>5 DEF StreamInv, Whole
<1>10. CASE Receive
  <2>1. /\ Live /\ wire # <<>> /\ stream' = stream
        /\ wire' = Tail(wire) /\ handled' = Append(handled, Head(wire))
        /\ sending' = sending /\ sent' = sent /\ queue' = queue
    BY <1>10 DEF Receive
  <2>2. /\ Head(wire) \in Request /\ wire' \in Seq(Request) /\ Len(wire') = Len(wire) - 1
        /\ handled' \in Seq(Request) /\ Len(wire) \in Nat
    BY <1>S, <2>1, HeadTailProperties, AppendProperties, LenProperties
  <2>3. StreamTypeOK(Request)' /\ Opening'
    BY <1>1, <2>1, <2>2 DEF Opening, Live, StreamTypeOK, Stages
  <2>4. sent' = handled' \o wire' \o queue'
    <3>1. handled' \o wire' = handled \o wire
      BY <1>S, <2>1, MoveHead
    <3> QED
      BY <1>1, <2>1, <3>1 DEF Whole
  <2>5. ReadInOrder'
    <3>1. Begins(handled', handled' \o wire' \o queue)
      <4>1. handled' \in Seq(Request) /\ wire' \in Seq(Request)
        BY <2>2
      <4> QED
        BY <1>S, <4>1, Beginning
    <3> QED
      BY <2>1, <2>4, <3>1 DEF ReadInOrder
  <2> QED
    BY <2>1, <2>3, <2>4, <2>5 DEF StreamInv, Whole
<1>11. CASE Close /\ UNCHANGED <<sending, sent, handled>>
  <2>1. /\ stream' = "over" /\ queue' = <<>> /\ wire' = <<>>
        /\ sending' = sending /\ sent' = sent /\ handled' = handled
    BY <1>11 DEF Close
  <2>2. StreamTypeOK(Request)' /\ Opening'
    BY <1>1, <1>E, <2>1 DEF StreamTypeOK, Stages, Opening
  <2> QED
    BY <1>1, <2>1, <2>2 DEF StreamInv, Whole, Live, ReadInOrder
<1>12. CASE UNCHANGED streamVars
  BY <1>1, <1>12 DEF streamVars, Opening, Whole, ReadInOrder, Live, StreamInv, StreamTypeOK, Stages
<1> QED
  BY <1>2, <1>3, <1>4, <1>5, <1>6, <1>7, <1>8, <1>9, <1>10, <1>11, <1>12 DEF StreamStep

(* The invariant says what RequestsInOrder does. *)
LEMMA StreamInvInOrder ==
    ASSUME NEW Request, StreamInv(Request)
    PROVE  RequestsInOrder
<1>1. stream \in {"none", "refreshing"} => queue \o wire \o handled = <<>>
  <2>1. <<>> \in Seq(Request) /\ <<>> \o <<>> = <<>>
    BY EmptySeq, ConcatEmptySeq
  <2> QED
    BY <2>1 DEF StreamInv, Opening
<1> QED
  BY <1>1 DEF RequestsInOrder, StreamInv, Whole, ReadInOrder, Begins
=============================================================================
