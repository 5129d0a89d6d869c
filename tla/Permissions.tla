----------------------------- MODULE Permissions -----------------------------
(***************************************************************************)
(* Permission and RoleRevokePermissionOptions of src/rpc/auth.rs, and the   *)
(* range of a Compare of src/rpc/kv.rs, on top of KeyRange.                 *)
(*                                                                         *)
(* A role's permission is a request for keys, too: etcd grants (key,        *)
(* range_end) to a role, lists it, and revokes it under exactly that pair.  *)
(* The type of a permission (read, write, both) is left out.                *)
(***************************************************************************)
EXTENDS KeyRange

(* struct Permission *)
NewPermission(key) ==
    [key |-> key, range_end |-> <<>>, with_prefix |-> FALSE, with_from_key |-> FALSE]

PermissionRangeEnd(perm, end) ==
    [perm EXCEPT !.range_end = end, !.with_prefix = FALSE, !.with_from_key = FALSE]

PermissionFromKey(perm) == [perm EXCEPT !.with_from_key = TRUE, !.with_prefix = FALSE]

PermissionPrefix(perm) == [perm EXCEPT !.with_prefix = TRUE, !.with_from_key = FALSE]

(* It forgets the key for good. *)
PermissionAllKeys(perm) == PermissionFromKey([perm EXCEPT !.key = <<>>])

(* Mutant: with_range comes last, and resets the flags. *)
ToWireRangeLast(perm) ==
    LET start == WithKey(NewRange, perm.key)
        selected == IF perm.with_prefix THEN WithPrefix(start)
                    ELSE IF perm.with_from_key THEN WithFromKey(start) ELSE start
    IN  Build(WithRange(selected, perm.range_end))

(* From<Permission> for PbPermission *)
ToWire(perm) ==
    LET start == WithRange(WithKey(NewRange, perm.key), perm.range_end)
    IN  Build(IF perm.with_prefix THEN WithPrefix(start)
              ELSE IF perm.with_from_key THEN WithFromKey(start) ELSE start)

(* From<&PbPermission> for Permission: the selector is guessed from the end.  *)
FromWire(wire) ==
    [key |-> wire.key, range_end |-> wire.range_end,
     with_from_key |-> wire.range_end = Zero,
     with_prefix |-> wire.range_end \notin {<<>>, Zero} /\ wire.range_end = GetPrefix(wire.key)]

(* Mutant: no eye for the key "\0" that stands for an empty one. *)
SamePermissionKeys(a, b) ==
    /\ a.with_prefix = b.with_prefix /\ a.with_from_key = b.with_from_key
    /\ a.key = b.key

(* PartialEq: the range end is not compared. *)
SamePermission(a, b) ==
    /\ a.with_prefix = b.with_prefix /\ a.with_from_key = b.with_from_key
    /\ a.key = b.key \/ {a.key, b.key} = {<<>>, Zero}

(* RoleRevokePermissionOptions: new, one selector, and the key that            *)
(* AuthClient::role_revoke_permission sets.                                  *)
RevokeRequest(key, by) ==
    Build(WithKey(CASE by.by = "one"      -> NewRange
                    [] by.by = "range"    -> WithRange(NewRange, by.end)
                    [] by.by = "from_key" -> WithFromKey(NewRange)
                    [] by.by = "prefix"   -> WithPrefix(NewRange)
                    [] by.by = "all_keys" -> WithAllKeys(NewRange), key))

----------------------------------------------------------------------------
(* The keys a Compare looks at; the rest of it is left out. *)
NewCompare(key) == Request(key, <<>>)

CompareRange(cmp, end) == [cmp EXCEPT !.range_end = end]

ComparePrefix(cmp) == [cmp EXCEPT !.range_end = GetPrefix(cmp.key)]
============================================================================
