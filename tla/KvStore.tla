------------------------------ MODULE KvStore ------------------------------
(***************************************************************************)
(* What a client of a key-value store of its own sees: a set of keys, and   *)
(* operations that select keys by what the documentation of the options     *)
(* says (Asked), one key, a range, a prefix, everything from a key on, or   *)
(* all of them.  A transaction runs its operation if its comparison holds.   *)
(* The answer to an operation is the keys it found, replaced or deleted.    *)
(*                                                                         *)
(* A look at a lease is the exception: it shows the keys of the store that  *)
(* are attached to the lease, and beside them whatever strangers have        *)
(* attached to it, under the names it has for them.                          *)
(***************************************************************************)
EXTENDS KeyRange

CONSTANT Operations   \* what the client may do

VARIABLES keys,    \* the keys present
          last,    \* the operation done last
          answer   \* and its answer

vars == <<keys, last, answer>>

Nothing == [type |-> "none"]

Init == keys = {} /\ last = Nothing /\ answer = {}

Selected(key, by) == {k \in keys : Asked(k, key, by)}

(* The keys after operation op, and its answer. *)
After(op) ==
    CASE op.type = "put"    -> keys \cup {op.key}
      [] op.type = "delete" -> keys \ Selected(op.key, op.by)
      [] OTHER              -> keys

Answer(op) ==
    CASE op.type = "put" -> keys \cap {op.key}
      [] op.type = "time_to_live" -> op.keys \cup op.others
      [] OTHER -> Selected(op.key, op.by)

(* The operation of a transaction that is run. *)
Branch(txn) == IF Selected(txn.cmp.key, txn.cmp.by) # {} THEN txn.then ELSE txn.else

Chosen(op) ==
    IF op.type # "txn" THEN op
    ELSE IF Branch(op).type = "txn" THEN Branch(Branch(op)) ELSE Branch(op)

Do(op) ==
    /\ last = Nothing /\ last' = op
    /\ op \in Operations
    /\ op.type = "time_to_live" => op.keys \subseteq keys
    /\ keys' = After(Chosen(op)) /\ answer' = Answer(Chosen(op))

Seen == last' = Nothing /\ answer' = {} /\ UNCHANGED keys

Next == Seen \/ Do(last')

Spec == Init /\ [][Next]_vars
==============================================================================
