----------------------------- MODULE Namespace -----------------------------
(***************************************************************************)
(* KvClientPrefix and LeaseClientPrefix (src/namespace): clients that       *)
(* prepend a prefix to every key and range end of a request (src/vec.rs),   *)
(* pass it to the KvClient or LeaseClient, and strip the prefix from the    *)
(* keys of the response.  etcd's store (external) is one set of keys shared *)
(* with clients that do not use the prefix.                                *)
(*                                                                         *)
(* get and delete prefix the options before KeyRange::build runs, a         *)
(* transaction the requests its operations were built into.  A transaction  *)
(* has one comparison and one operation in each branch, which may be another *)
(* transaction.                                                            *)
(***************************************************************************)
EXTENDS KeyRange

CONSTANTS
    Prefix,       \* pfx
    UserKeys,     \* keys the namespaced client puts
    OutsideKeys,  \* keys other clients put, none of them in the namespace
    GetBy,        \* kinds of selectors used with get and delete
    TxnBy,        \* kinds of selectors used within transactions
    NestedBy      \* and within transactions in transactions

ASSUME PrefixAssumption == Prefix \in Key
ASSUME UserKeysAssumption == UserKeys \subseteq Key \ {<<>>}
ASSUME OutsideAssumption ==
    OutsideKeys \subseteq Key \ {<<>>} /\ \A k \in OutsideKeys : ~StartsWith(k, Prefix)
ASSUME SelectorsAssumption ==
    GetBy \cup TxnBy \cup NestedBy \subseteq {"one", "range", "prefix", "from_key", "all_keys"}

VARIABLES
    store,    \* etcd: the keys present
    last,     \* the namespaced operation done last
    answer,   \* the keys its response shows
    actor     \* whose step the last one was

vars == <<store, last, answer, actor>>

----------------------------------------------------------------------------
(* VecExt *)

StripKeyPrefix(key) ==
    IF StartsWith(key, Prefix) THEN SubSeq(key, Len(Prefix) + 1, Len(key)) ELSE key

PrefixWith(key) == Prefix \o key

(* Mutant: the edge of the keyspace stays what it is. *)
PrefixRangeEndPlain(end) ==
    IF Prefix = <<>> \/ end \in {<<>>, Zero} THEN end ELSE PrefixWith(end)

(* The edge of the keyspace becomes the edge of the namespace: 1 is added to *)
(* the prefix as a number, without cutting the bytes that wrap to 0.         *)
PrefixRangeEndWith(end) ==
    LET below == {i \in 1..Len(Prefix) : Prefix[i] < ByteMax}
        carry == CHOOSE i \in below : \A j \in below : j <= i
    IN  IF Prefix = <<>> \/ end = <<>> THEN end
        ELSE IF end # Zero THEN PrefixWith(end)
        ELSE IF below = {} THEN Zero
        ELSE [i \in 1..Len(Prefix) |->
                CASE i < carry -> Prefix[i]
                  [] i = carry -> Prefix[i] + 1
                  [] OTHER     -> 0]

----------------------------------------------------------------------------
(* Requests *)

(* The options with one selector called on them. *)
Options(by) ==
    CASE by.by = "one"      -> NewRange
      [] by.by = "range"    -> WithRange(NewRange, by.end)
      [] by.by = "prefix"   -> WithPrefix(NewRange)
      [] by.by = "from_key" -> WithFromKey(NewRange)
      [] by.by = "all_keys" -> WithAllKeys(NewRange)

(* KvClientPrefix::get and delete. *)
PrefixedOptions(key, by) ==
    LET options == Options(by)
    IN  Build(WithKey([options EXCEPT !.range_end = PrefixRangeEndWith(@)], PrefixWith(key)))

(* PbTxnRequest::prefix_with, on a request TxnOp::get or delete has built. *)
PrefixedRequest(key, by) ==
    LET req == Build(WithKey(Options(by), key))
    IN  Request(PrefixWith(req.key), PrefixRangeEndWith(req.range_end))

(* Mutant: comparisons are left as they are. *)
PrefixedCompareNot(cmp) ==
    Request(cmp.key, IF cmp.by = One THEN <<>> ELSE GetPrefix(cmp.key))

(* ... and on a Compare, whose with_prefix calls get_prefix itself. *)
PrefixedCompare(cmp) ==
    LET end == IF cmp.by = One THEN <<>> ELSE GetPrefix(cmp.key)
    IN  Request(PrefixWith(cmp.key), PrefixRangeEndWith(end))

Found(req) == {k \in store : InRequest(k, req)}

Stripped(ks) == {StripKeyPrefix(k) : k \in ks}

----------------------------------------------------------------------------
(* The operations, as the client asks for them.  with_range takes an end     *)
(* behind the key or the end of the keyspace; only selectors that mean more  *)
(* than one key are used with the empty key.                                *)
Selectors(kinds) ==
    {[by |-> kind] : kind \in kinds \ {"range"}}
        \cup (IF "range" \in kinds
              THEN {[by |-> "range", end |-> end] : end \in UserKeys \cup {Zero}} ELSE {})

Selections(kinds) ==
    {sel \in [key : UserKeys \cup {<<>>}, by : Selectors(kinds)] :
        /\ sel.key = <<>> => sel.by.by \notin {"one", "range"}
        /\ sel.by.by = "range" => sel.by.end = Zero \/ Less(sel.key, sel.by.end)}

Puts == [type : {"put"}, key : UserKeys]

Finds(kinds) ==
    {[type |-> type, key |-> sel.key, by |-> sel.by] :
        type \in {"get", "delete"}, sel \in Selections(kinds)}

Txns(cmps, thens, elses) == [type : {"txn"}, cmp : cmps, then : thens, else : elses]

Flat == Txns(Selections({"one", "prefix"}), Puts \cup Finds(TxnBy), Puts \cup Finds({"prefix"}))

Inner == Txns(Selections({"prefix"}), Puts \cup Finds(NestedBy), Puts)

Nested == Txns(Selections({"one"}), Inner, Puts) \cup Txns(Selections({"one"}), Puts, Inner)

(* A look at a lease: the namespace's keys attached to it, and those of      *)
(* others.                                                                  *)
Leases == [type : {"time_to_live"}, keys : SUBSET UserKeys, others : SUBSET OutsideKeys]

Operations == Puts \cup Finds(GetBy) \cup Flat \cup Nested \cup Leases

Nothing == [type |-> "none"]

Init ==
    /\ store = {}
    /\ last = Nothing /\ answer = {} /\ actor = "nobody"

----------------------------------------------------------------------------
(* etcd runs a request: the new store, and the keys of the response, which    *)
(* the client strips.                                                       *)
RunPut(key) ==
    /\ store' = store \cup {key}
    /\ answer' = Stripped(store \cap {key})

RunGet(req) == UNCHANGED store /\ answer' = Stripped(Found(req))

RunDelete(req) == store' = store \ Found(req) /\ answer' = Stripped(Found(req))

Done(op) == actor' = "namespace" /\ last' = op

(* The application has seen the response. *)
Seen ==
    /\ last # Nothing /\ last' = Nothing /\ answer' = {}
    /\ UNCHANGED <<store, actor>>

(* Mutant: the key is prefixed here and once more in the KvClient. *)
PutTwicePrefixed(key) ==
    /\ RunPut(PrefixWith(PrefixWith(key)))
    /\ Done([type |-> "put", key |-> key])

Put(key) ==
    /\ RunPut(PrefixWith(key))
    /\ Done([type |-> "put", key |-> key])

Get(key, by) ==
    /\ RunGet(PrefixedOptions(key, by))
    /\ Done([type |-> "get", key |-> key, by |-> by])

Delete(key, by) ==
    /\ RunDelete(PrefixedOptions(key, by))
    /\ Done([type |-> "delete", key |-> key, by |-> by])

(* when(version > 0).and_then([op]).or_else([op]) *)
Branch(txn) == IF Found(PrefixedCompare(txn.cmp)) # {} THEN txn.then ELSE txn.else

(* The operation that is run, in whichever transaction it stands. *)
RunOp(op) ==
    \/ op.type = "put" /\ RunPut(PrefixWith(op.key))
    \/ op.type = "get" /\ RunGet(PrefixedRequest(op.key, op.by))
    \/ op.type = "delete" /\ RunDelete(PrefixedRequest(op.key, op.by))

Txn(txn) ==
    /\ LET branch == Branch(txn)
       IN  IF branch.type = "txn" THEN RunOp(Branch(branch)) ELSE RunOp(branch)
    /\ Done(txn)

(* LeaseClientPrefix::time_to_live, on a lease to which anybody has attached *)
(* keys.  It is documented to filter them, but it only strips: the keys of    *)
(* others stay in the answer as they are, where they may look like its own.  *)
TimeToLive(attached) ==
    /\ UNCHANGED store
    /\ answer' = Stripped(attached)
    /\ Done([type   |-> "time_to_live",
              keys   |-> {k \in UserKeys : PrefixWith(k) \in attached},
              others |-> {k \in attached : ~StartsWith(k, Prefix)}])

(* Clients without the prefix, on keys of their own. *)
Other(key) ==
    /\ store' = IF key \in store THEN store \ {key} ELSE store \cup {key}
    /\ actor' = "other"
    /\ UNCHANGED <<last, answer>>

Inside == {k \in store : StartsWith(k, Prefix)}

Next ==
    \/ /\ last = Nothing
       /\ \/ \E key \in UserKeys : Put(key)
          \/ \E sel \in Selections(GetBy) : Get(sel.key, sel.by) \/ Delete(sel.key, sel.by)
          \/ \E txn \in Flat \cup Nested : Txn(txn)
          \/ \E attached \in SUBSET store : TimeToLive(attached)
    \/ Seen
    \/ \E key \in OutsideKeys : Other(key)

Spec == Init /\ [][Next]_vars

----------------------------------------------------------------------------
(* Properties *)

(* The state stays within its types. *)
TypeOK ==
    /\ store \subseteq {PrefixWith(k) : k \in UserKeys} \cup OutsideKeys
    /\ last \in Operations \cup {Nothing}
    /\ answer \subseteq Key
    /\ actor \in {"nobody", "namespace", "other"}

(* No namespaced operation changes a key outside the namespace. *)
OutsideUntouched ==
    [][actor' = "namespace" => store' \ Inside' = store \ Inside]_vars

(* The namespace is a key-value store of its own: with the prefix taken off,  *)
(* every operation finds, replaces and deletes exactly the keys it asks for,  *)
(* and the keys of other clients neither show nor matter, but for one place:  *)
(* a look at a lease also shows what others have attached to it, unfiltered   *)
(* and unchanged (rpc/lease.rs 477-481, against namespace/lease.rs 10-11).   *)
Own == INSTANCE KvStore WITH keys <- Stripped(Inside)

ImplementsKvStore == Own!Spec

(* The restrictions under which both hold: get and delete are not used with   *)
(* the selectors whose range end build sets behind the prefixing, and no      *)
(* other client has a key between the end of the prefix, which get_prefix     *)
(* cuts behind its carry, and the edge, which keeps the bytes that wrapped.  *)
NoKeyAtTheEdge ==
    \A k \in OutsideKeys : AtLeast(k, GetPrefix(Prefix)) => AtLeast(k, PrefixRangeEndWith(Zero))

Confined == GetBy \subseteq {"one", "range", "prefix"} /\ NoKeyAtTheEdge
==============================================================================
