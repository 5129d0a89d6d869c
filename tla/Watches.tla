------------------------------ MODULE Watches ------------------------------
(***************************************************************************)
(* What an application may rely on that keeps a book of the watches of one  *)
(* stream: a watch that was asked for is answered in its turn, then sees    *)
(* every revision from its start on, one after the other, until it is over, *)
(* and nothing afterwards.                                                 *)
(***************************************************************************)
EXTENDS Naturals, Sequences

CONSTANTS Ids, Revisions

VARIABLE view    \* the book: the watches in the order they were asked for

Watch(status, id, seen) == [status |-> status, id |-> id, seen |-> seen]

(* The n-th watch is the next to be answered. *)
Turn(n) ==
    /\ view[n].status = "asked"
    /\ \A m \in 1..(n - 1) : view[m].status # "asked"

Init == view = <<>>

Ask == \E id \in Ids : view' = Append(view, Watch("asked", id, 0))

(* No other live watch has the id. *)
Begin(n) ==
    /\ Turn(n)
    /\ \E id \in Ids, seen \in Revisions :
          /\ \A m \in 1..Len(view) : view[m].status = "live" => view[m].id # id
          /\ view' = [view EXCEPT ![n] = Watch("live", id, seen)]

See(n) ==
    /\ view[n].status = "live"
    /\ view' = [view EXCEPT ![n].seen = @ + 1]

Finish(n) ==
    /\ Turn(n) \/ view[n].status = "live"
    /\ view' = [view EXCEPT ![n].status = "over"]

Next == Ask \/ \E n \in 1..Len(view) : Begin(n) \/ See(n) \/ Finish(n)

Spec == Init /\ [][Next]_view
============================================================================
