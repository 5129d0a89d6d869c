----------------------------- MODULE MCNamespace -----------------------------
(***************************************************************************)
(* Instances of Namespace for TLC: three bytes, and keys before, in, behind *)
(* and at the edges of the namespace.  One prefix ends in the largest byte, *)
(* so that its end carries; the other clients have no key at that edge, but    *)
(* one that looks like a key of the namespace whose prefix was taken off.   *)
(***************************************************************************)
EXTENDS Namespace

OneBytePrefix == <<1>>
CarryingPrefix == <<1, 2>>
NamespacedKeys == {<<0>>, <<1, 2>>, <<2>>}
KeysAround == {<<0>>, <<2>>}
KeysBeside == {<<0>>, <<1>>, <<2, 0>>}

ASSUME EdgeAssumption == NoKeyAtTheEdge
============================================================================
