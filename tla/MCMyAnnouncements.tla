------------------------- MODULE MCMyAnnouncements -------------------------
(***************************************************************************)
(* Values for the constants of MyAnnouncements: two devices of one         *)
(* account, and one of another account that publishes for itself.          *)
(***************************************************************************)
EXTENDS MyAnnouncements, TLC

CONSTANTS ann, bob, phone, tablet, desk, old, new

BothOfAnn == {phone, tablet}
AllThree == BothOfAnn \cup {desk}
SignedIn == [d \in AllThree |-> IF d = desk THEN bob ELSE ann]
AnnAndBob == {ann, bob}

TwoIds == {1, 2}
OneEach == [i \in TwoIds |-> IF i = 1 THEN ann ELSE bob]

OneText == {old}
TwoTexts == {old, new}

Symmetry == Permutations(BothOfAnn)

\* bob has no business with his own list here.
DeskOnlyPublishes == list[desk] = Closed
=============================================================================
