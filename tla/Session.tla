------------------------------ MODULE Session ------------------------------
(***************************************************************************)
(* What the client promises about its session, whatever the tasks on it    *)
(* do: there is one session, of a user or of nobody; it changes in one     *)
(* step, to a token the server issued to the user it then belongs to; and  *)
(* renewing the token never changes whose session it is.  An attempt that  *)
(* fails is no step at all ("Nothing happens if the authentication fails", *)
(* src/client.rs).                                                         *)
(***************************************************************************)
CONSTANTS Users, NoUser, Token, NoToken

VARIABLES open,    \* the client exists
          user,    \* whose session it is
          token    \* the token requests carry

Init == open = FALSE /\ user = NoUser /\ token = NoToken

TokensOf(u) == IF u = NoUser THEN {NoToken} ELSE {tok \in Token : tok.user = u}

(* Before the client exists its options may be anything. *)
Prepare(u) ==
    /\ ~open
    /\ user' = u
    /\ token' = NoToken
    /\ UNCHANGED open

Renew ==
    /\ token' \in TokensOf(user)
    /\ UNCHANGED <<open, user>>

Open ==
    /\ ~open
    /\ token \in TokensOf(user)
    /\ open' = TRUE
    /\ UNCHANGED <<user, token>>

SwitchTo(u) ==
    /\ open
    /\ user' = u
    /\ token' \in TokensOf(u)
    /\ UNCHANGED open

Next ==
    \/ Renew \/ Open
    \/ \E u \in Users \cup {NoUser} : Prepare(u) \/ SwitchTo(u)

Spec == Init /\ [][Next]_<<open, user, token>>
============================================================================
