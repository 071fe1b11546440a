----------------------------- MODULE MCSession -----------------------------
(***************************************************************************)
(* Values for the constants of Session: two addresses, two names, and      *)
(* enough requests for a second one to be answered late.                   *)
(***************************************************************************)
EXTENDS Session

CONSTANTS ann, bob, anna, rex

TwoAccounts == {ann, bob}
TwoNames == {anna, rex}
TwoRequests == 1..2
=============================================================================
