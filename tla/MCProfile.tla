----------------------------- MODULE MCProfile -----------------------------
(***************************************************************************)
(* Values for the constants of Profile.                                    *)
(***************************************************************************)
EXTENDS Profile, TLC

CONSTANTS phone, tablet, anna, rex, home, work

OneDevice == {phone}
TwoDevices == {phone, tablet}

OneName == {anna}
TwoNames == {anna, rex}

TwoEmails == {home, work}

Symmetry == Permutations(TwoEmails)
=============================================================================
