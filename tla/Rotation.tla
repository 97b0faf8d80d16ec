------------------------------ MODULE Rotation ------------------------------
(***************************************************************************)
(* What the holder of a session is promised about its refresh tokens: a    *)
(* token is granted once, it is exchanged for at most one other token, and *)
(* what was exchanged or revoked never works again.                        *)
(***************************************************************************)
CONSTANT Tokens

VARIABLES
    live,   \* tokens that can still be exchanged
    spent   \* tokens that were exchanged or revoked

vars == <<live, spent>>

Init == live = {} /\ spent = {}

Fresh(t) == t \in Tokens \ (live \union spent)

Grant(t) ==
    /\ Fresh(t)
    /\ live' = live \union {t}
    /\ UNCHANGED spent

Exchange(t, u) ==
    /\ t \in live
    /\ Fresh(u)
    /\ live' = (live \ {t}) \union {u}
    /\ spent' = spent \union {t}

Revoke(S) ==
    /\ live' = live \ S
    /\ spent' = spent \union S

Next ==
    \/ \E t \in Tokens: Grant(t)
    \/ \E t, u \in Tokens: Exchange(t, u)
    \/ \E S \in SUBSET live: Revoke(S)

Spec == Init /\ [][Next]_vars
=============================================================================
