--------------------------- MODULE MCClientCaller ---------------------------
(* Instances of ClientCaller for TLC: the tasks and users are model values   *)
(* and may be permuted.  All procedures that carry the token and go through a *)
(* ClientCaller behave alike, so one of them is enough where tasks interleave.*)
EXTENDS ClientCaller, TLC

OnlyPut == {m \in Rpcs : m.method = "Put"}

Symmetry == Permutations(Tasks) \cup Permutations(Users)
============================================================================
