-------------------------- MODULE MCWritePipeline --------------------------
(***************************************************************************)
(* Values for the constants of WritePipeline.                              *)
(***************************************************************************)
EXTENDS WritePipeline

CONSTANTS ann, bob

OneAccount == {ann}
TwoAccounts == {ann, bob}

=============================================================================
