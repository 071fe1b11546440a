----------------------------- MODULE MCVetsMap -----------------------------
(***************************************************************************)
(* Values for the constants of VetsMap.                                    *)
(***************************************************************************)
EXTENDS VetsMap

CONSTANTS vetdoc, polyvet, trivet

ThreeClinics == {vetdoc, polyvet, trivet}
=============================================================================
