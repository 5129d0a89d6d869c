----------------------------- MODULE MCEndpoints -----------------------------
(* Instances of Endpoints for TLC: given and changed URLs.                   *)
EXTENDS Endpoints

At(scheme) == [scheme : {scheme}, host : Hosts]

HttpUrls == At("http")

ThreeHttp == [i \in 1..3 |-> [scheme |-> "http", host |-> <<"h1", "h2", "h1">>[i]]]
==============================================================================
