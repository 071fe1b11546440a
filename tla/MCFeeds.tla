------------------------------ MODULE MCFeeds ------------------------------
(***************************************************************************)
(* Values for the constants of Feeds.                                      *)
(***************************************************************************)
EXTENDS Feeds, TLC

CONSTANTS first, edited

TwoIds == 1..2
TwoTexts == {first, edited}

Symmetry == Permutations(TwoTexts)
=============================================================================
