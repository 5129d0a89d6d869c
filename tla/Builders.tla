------------------------------ MODULE Builders ------------------------------
(***************************************************************************)
(* The builders of requests in use, in any order and as often as the        *)
(* application likes:                                                      *)
(*   options     the KeyRange of GetOptions, DeleteOptions, WatchOptions    *)
(*               and RoleRevokePermissionOptions (src/rpc/mod.rs); the call *)
(*               that takes the options, or a clone of them, sets the key   *)
(*   permission  Permission (src/rpc/auth.rs), also one that was granted    *)
(*               and has been read back from the server                     *)
(*   compare     Compare, and                                              *)
(*   txn         Txn (src/rpc/kv.rs), which panics when called out of order *)
(***************************************************************************)
EXTENDS Permissions

CONSTANT Lists   \* bound: the lists passed to when, and_then and or_else

VARIABLES
    kind,    \* which builder it is
    value,   \* its struct
    asked,   \* history: the selector called last; for a txn, the lists given
    key,     \* history: the key the application gave
    cleared  \* history: a permission was asked for all keys

builderVars == <<kind, value, asked, key, cleared>>

Ends == Keys \cup {<<>>}
SomeKeys == Keys \cup {<<>>}

NoLists == [compare |-> {}, success |-> {}, failure |-> {}]

NewTxn == [req |-> NoLists, c_when |-> FALSE, c_then |-> FALSE, c_else |-> FALSE]

BuilderInit ==
    /\ cleared = FALSE
    /\ \/ kind = "options" /\ value = NewRange /\ asked = One /\ key = <<>>
       \/ /\ key \in Keys /\ asked = One
          /\ \/ kind = "permission" /\ value = NewPermission(key)
             \/ kind = "compare" /\ value = NewCompare(key)
       \/ kind = "txn" /\ value = NewTxn /\ asked = <<>> /\ key = <<>>

----------------------------------------------------------------------------
(* A selector: what it makes of the struct, and what was asked for.  *)
Asks(new, by) ==
    /\ value' = new /\ asked' = by
    /\ cleared' = (cleared \/ (kind = "permission" /\ by.by = "all_keys"))
    /\ UNCHANGED <<kind, key>>

(* The options before a call. *)
Selecting == kind = "options" /\ value.key = <<>>

SelectRange(end) ==
    LET by == [by |-> "range", end |-> end]
    IN  \/ Selecting /\ Asks(WithRange(value, end), by)
        \/ kind = "permission" /\ Asks(PermissionRangeEnd(value, end), by)
        \/ kind = "compare" /\ Asks(CompareRange(value, end), by)

SelectPrefix ==
    LET by == [by |-> "prefix"]
    IN  \/ Selecting /\ Asks(WithPrefix(value), by)
        \/ kind = "permission" /\ Asks(PermissionPrefix(value), by)
        \/ kind = "compare" /\ Asks(ComparePrefix(value), by)

SelectFromKey ==
    LET by == [by |-> "from_key"]
    IN  \/ Selecting /\ Asks(WithFromKey(value), by)
        \/ kind = "permission" /\ Asks(PermissionFromKey(value), by)

SelectAllKeys ==
    LET by == [by |-> "all_keys"]
    IN  \/ Selecting /\ Asks(WithAllKeys(value), by)
        \/ kind = "permission" /\ Asks(PermissionAllKeys(value), by)

(* A call with options; it may be made with the empty key, and again.         *)
Call(k) ==
    /\ kind = "options"
    /\ value' = WithKey(value, k) /\ key' = k
    /\ UNCHANGED <<kind, asked, cleared>>

(* What the server is sent. *)
Wire ==
    CASE kind = "options" -> Build(value)
      [] kind = "permission" -> ToWire(value)
      [] OTHER -> value

(* The permission is granted, which an empty key is not, and listed again.    *)
ReadBack ==
    /\ kind = "permission" /\ Wire.key # <<>>
    /\ value' = FromWire(Wire)
    /\ UNCHANGED <<kind, asked, key, cleared>>

----------------------------------------------------------------------------
(* Txn: a flag per list guards the order of the calls. *)
(* Mutant: the assertions forget about an earlier call of the same method. *)
WhenAgain(list) ==
    /\ kind = "txn" /\ ~value.c_then /\ ~value.c_else
    /\ value' = [value EXCEPT !.c_when = TRUE, !.req.compare = list]
    /\ asked' = Append(asked, [slot |-> "compare", list |-> list])
    /\ UNCHANGED <<kind, key, cleared>>

When(list) ==
    /\ kind = "txn" /\ ~value.c_when /\ ~value.c_then /\ ~value.c_else
    /\ value' = [value EXCEPT !.c_when = TRUE, !.req.compare = list]
    /\ asked' = Append(asked, [slot |-> "compare", list |-> list])
    /\ UNCHANGED <<kind, key, cleared>>

AndThen(list) ==
    /\ kind = "txn" /\ ~value.c_then /\ ~value.c_else
    /\ value' = [value EXCEPT !.c_then = TRUE, !.req.success = list]
    /\ asked' = Append(asked, [slot |-> "success", list |-> list])
    /\ UNCHANGED <<kind, key, cleared>>

OrElse(list) ==
    /\ kind = "txn" /\ ~value.c_else
    /\ value' = [value EXCEPT !.c_else = TRUE, !.req.failure = list]
    /\ asked' = Append(asked, [slot |-> "failure", list |-> list])
    /\ UNCHANGED <<kind, key, cleared>>

(* An assertion fails, and the transaction is gone. *)
Panic ==
    /\ kind = "txn" /\ (value.c_when \/ value.c_then \/ value.c_else)
    /\ kind' = "panicked"
    /\ UNCHANGED <<value, asked, key, cleared>>

BuilderNext ==
    \/ \E end \in Ends : SelectRange(end)
    \/ SelectFromKey \/ SelectPrefix \/ SelectAllKeys
    \/ \E k \in SomeKeys : Call(k)
    \/ ReadBack
    \/ \E list \in Lists : When(list) \/ AndThen(list) \/ OrElse(list)
    \/ Panic

BuilderSpec == BuilderInit /\ [][BuilderNext]_builderVars

----------------------------------------------------------------------------
(* Properties *)

Ranged == kind \in {"options", "permission", "compare"}

(* Permission::with_all_keys empties the key for good: with_prefix after it,    *)
(* say, is for all keys, whatever key was given.  Only the selector itself     *)
(* can then mean what it says.                                              *)
HasItsKey == cleared => asked.by = "all_keys"

(* Whatever was set before, and however often a permission has been granted   *)
(* and read back, the request selects exactly the keys the last selector      *)
(* promises: no stale flag or range end of an earlier selector, a carry over  *)
(* 0xFF bytes in the prefix end, the prefix without an end, an empty key and  *)
(* a selector guessed from a range end are all accounted for.  A permission    *)
(* must still have the key it was given (HasItsKey).                         *)
RequestIsWhatWasAsked ==
    Ranged /\ HasItsKey => \A k \in Keys : InRequest(k, Wire) <=> Asked(k, key, asked)

(* A permission granted by a selector, and read back or not, is revoked by    *)
(* RoleRevokePermissionOptions with the same key and selector: etcd wants the *)
(* very same pair of keys (tests/client.rs grants and revokes like this).     *)
RevokeMatchesGrant ==
    (kind = "permission" /\ HasItsKey /\ Wire.key # <<>>) => RevokeRequest(key, asked) = Wire

(* The range end belongs to the selector that was called and to no other. *)
EndTellsSelector ==
    CASE value.with_from_key -> TRUE
      [] value.with_prefix -> Wire.range_end # Zero
      [] OTHER -> Wire.range_end \notin {Zero, GetPrefix(Wire.key)}

(* A permission that was granted is among those read back (==), unless its    *)
(* range end is that of another selector as well.                            *)
GrantedIsFound ==
    (kind = "permission" /\ Wire.key # <<>> /\ EndTellsSelector)
        => SamePermission(value, FromWire(Wire))

(* Every list passed to a transaction that did not panic is in its request:   *)
(* none was replaced by a later one.                                        *)
TxnKeepsItsLists ==
    kind = "txn" => \A n \in 1..Len(asked) : value.req[asked[n].slot] = asked[n].list

(* The structs stay within their types, and at most one flag of a range is    *)
(* set.                                                                     *)
BuilderTypeOK ==
    /\ kind \in {"options", "permission", "compare", "txn", "panicked"}
    /\ key \in SomeKeys /\ cleared \in BOOLEAN
    /\ Ranged =>
        /\ value.key \in SomeKeys /\ value.range_end \in Ends
        /\ asked.by \in {"one", "range", "from_key", "prefix", "all_keys"}
    /\ kind = "options" =>
        /\ value.with_prefix => ~value.with_from_key /\ ~value.with_all_keys
        /\ value.with_from_key => ~value.with_all_keys
    /\ kind = "permission" => ~(value.with_prefix /\ value.with_from_key)
    /\ kind \in {"txn", "panicked"} => \A slot \in DOMAIN NoLists : value.req[slot] \in Lists \cup {{}}
============================================================================
