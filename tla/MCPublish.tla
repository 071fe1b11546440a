----------------------------- MODULE MCPublish -----------------------------
(***************************************************************************)
(* Values for the constants of Publish.                                    *)
(***************************************************************************)
EXTENDS Publish, TLC

CONSTANTS ann, bob, form, pic, s1, s2, t1, t2

One == {ann}
Two == {ann, bob}

Forms == {form}

Placeholder == {AddPhotoImage}
Pictures == {AddPhotoImage, pic}

OneScreen == {s1}
TwoScreens == {s1, s2}

TwoTaps == {t1, t2}

Symmetry == Permutations(Two) \cup Permutations(TwoScreens) \cup Permutations(TwoTaps)
=============================================================================
