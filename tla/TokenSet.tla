------------------------------ MODULE TokenSet ------------------------------
(***************************************************************************)
(* What the store promises of a user's tokens (store/user_setting.go, the  *)
(* comments of the Add, Remove and Get functions): a set per user.  A      *)
(* token enters it once, because a call asked for it, and leaves it once,  *)
(* because a call named it; a call that answers has had its effect.  What  *)
(* nobody asked to remove is not lost, and what was removed never returns. *)
(***************************************************************************)

CONSTANTS Users, Tokens

VARIABLES
    live,     \* user |-> the tokens that are valid
    issued,   \* user |-> the tokens generated by calls that add one
    doomed,   \* user |-> the tokens that calls were asked to remove
    added,    \* user |-> the tokens whose addition was reported done
    revoked   \* user |-> the tokens whose removal was reported done

vars == <<live, issued, doomed, added, revoked>>

Nothing == [u \in Users |-> {}]

Init == /\ live = Nothing /\ issued = Nothing /\ doomed = Nothing
        /\ added = Nothing /\ revoked = Nothing

With(f, u, t) == [f EXCEPT ![u] = @ \cup {t}]

\* A call is asked to add a token: it generates one nobody has.
Generate(u, t) ==
    /\ \A v \in Users : t \notin issued[v]
    /\ issued' = With(issued, u, t)
    /\ UNCHANGED <<live, doomed, added, revoked>>

\* It adds it, unless its removal has been asked for.
Issue(u, t) ==
    /\ t \in issued[u] \ (doomed[u] \cup live[u])
    /\ live' = With(live, u, t)
    /\ UNCHANGED <<issued, doomed, added, revoked>>

\* It answers, and the token is there.
Issued(u, t) ==
    /\ t \in live[u]
    /\ added' = With(added, u, t)
    /\ UNCHANGED <<live, issued, doomed, revoked>>

\* A call is asked to remove a token of the user.
Doom(u, t) ==
    /\ t \in issued[u]
    /\ doomed' = With(doomed, u, t)
    /\ UNCHANGED <<live, issued, added, revoked>>

\* It removes that token, and no other.
Revoke(u, t) ==
    /\ t \in doomed[u]
    /\ live' = [live EXCEPT ![u] = @ \ {t}]
    /\ UNCHANGED <<issued, doomed, added, revoked>>

\* It answers, and the token is gone.
Revoked(u, t) ==
    /\ t \in doomed[u] \ live[u]
    /\ revoked' = With(revoked, u, t)
    /\ UNCHANGED <<live, issued, doomed, added>>

Next == \E u \in Users, t \in Tokens :
    \/ Generate(u, t) \/ Issue(u, t) \/ Issued(u, t)
    \/ Doom(u, t) \/ Revoke(u, t) \/ Revoked(u, t)

Spec == Init /\ [][Next]_vars
=============================================================================
