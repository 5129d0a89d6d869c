------------------------------ MODULE KeyRange ------------------------------
(***************************************************************************)
(* Byte-string keys and the requests for ranges of them: get_prefix and the *)
(* KeyRange builder of src/rpc/mod.rs, which Get, Delete and Watch options  *)
(* share.  A request is a pair (key, range_end), read by etcd (external) as *)
(* InRequest says: no end is one key, the end "\0" is no upper bound.       *)
(*                                                                         *)
(* A byte is 0..ByteMax, so ByteMax stands for 0xFF.                        *)
(***************************************************************************)
EXTENDS Naturals, Sequences

CONSTANTS
    ByteMax,   \* the largest byte
    MaxLen     \* bound: the length of the keys in Keys

ASSUME BytesAssumption == ByteMax \in Nat \ {0} /\ MaxLen \in Nat \ {0}

Byte == 0..ByteMax
Key == Seq(Byte)

(* The keys of up to MaxLen bytes; etcd has no empty key. *)
Keys == UNION {[1..n -> Byte] : n \in 1..MaxLen}

Zero == <<0>>

StartsWith(key, prefix) ==
    Len(prefix) <= Len(key) /\ \A i \in 1..Len(prefix) : key[i] = prefix[i]

(* The byte order of etcd's keys. *)
Less(a, b) ==
    \/ StartsWith(b, a) /\ Len(a) < Len(b)
    \/ \E i \in 1..Len(a) :
          /\ i <= Len(b) /\ a[i] < b[i]
          /\ \A j \in 1..(i - 1) : a[j] = b[j]

AtLeast(a, b) == ~Less(a, b)

InRequest(k, req) ==
    \/ req.range_end = <<>> /\ k = req.key
    \/ req.range_end = Zero /\ AtLeast(k, req.key)
    \/ /\ req.range_end \notin {<<>>, Zero}
       /\ AtLeast(k, req.key) /\ Less(k, req.range_end)

----------------------------------------------------------------------------
(* Mutant: no carry over 0xFF. *)
GetPrefixNoCarry(key) ==
    [key EXCEPT ![Len(key)] = (@ + 1) % (ByteMax + 1)]

(* get_prefix: cut behind the last byte below 0xFF and add one to it. *)
GetPrefix(key) ==
    LET below == {i \in 1..Len(key) : key[i] < ByteMax}
        last == CHOOSE i \in below : \A j \in below : j <= i
    IN  IF below = {} THEN Zero
        ELSE [SubSeq(key, 1, last) EXCEPT ![last] = @ + 1]

(* struct KeyRange *)
NewRange == [key |-> <<>>, range_end |-> <<>>,
             with_prefix |-> FALSE, with_from_key |-> FALSE, with_all_keys |-> FALSE]

Select(kr, prefix, from_key, all_keys) ==
    [kr EXCEPT !.with_prefix = prefix, !.with_from_key = from_key, !.with_all_keys = all_keys]

WithKey(kr, key) == [kr EXCEPT !.key = key]
WithRange(kr, end) == [Select(kr, FALSE, FALSE, FALSE) EXCEPT !.range_end = end]
WithFromKey(kr) == Select(kr, FALSE, TRUE, FALSE)
(* Mutant: an earlier with_all_keys stays in force. *)
WithPrefixKeepsAll(kr) == Select(kr, TRUE, FALSE, kr.with_all_keys)

WithPrefix(kr) == Select(kr, TRUE, FALSE, FALSE)
WithAllKeys(kr) == Select(kr, FALSE, FALSE, TRUE)

Request(key, end) == [key |-> key, range_end |-> end]

(* build() *)
Build(kr) ==
    LET first == IF kr.key = <<>> THEN Zero ELSE kr.key IN
    IF kr.with_all_keys THEN Request(Zero, Zero)
    ELSE IF kr.with_from_key THEN Request(first, Zero)
    ELSE IF kr.with_prefix
         THEN Request(first, IF kr.key = <<>> THEN Zero ELSE GetPrefix(kr.key))
    ELSE Request(kr.key, kr.range_end)

----------------------------------------------------------------------------
(* The reference: what a selector asks for, without any range end. *)
One == [by |-> "one"]

(* What the documentation of the options calls the keys asked for, without   *)
(* any range end: "all keys >= key", "all keys prefixed with key", "all      *)
(* keys", "the keys in the range [key, end_key)".                            *)
Asked(k, key, by) ==
    CASE by.by = "one"      -> k = key
      [] by.by = "range"    -> IF by.end = <<>> THEN k = key
                               ELSE AtLeast(k, key) /\ (by.end = Zero \/ Less(k, by.end))
      [] by.by = "from_key" -> AtLeast(k, key)
      [] by.by = "prefix"   -> StartsWith(k, key)
      [] by.by = "all_keys" -> TRUE
============================================================================
