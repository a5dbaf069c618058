----------------------------- MODULE MCSession -----------------------------
(* Model values of Session for TLC: one account when the tab is opened,      *)
(* and one request beside the sign-in and sign-out flow.                     *)
EXTENDS Session

CONSTANTS a, b, q1

MCUsers      == {a, b}
MCFounders   == {a}
MCBackground == {q1}
=============================================================================
