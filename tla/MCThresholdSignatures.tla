------------------------- MODULE MCThresholdSignatures -------------------------
(* A small instance of ThresholdSignatures for TLC.                            *)
EXTENDS ThresholdSignatures, TLC

AddressSymmetry == Permutations(Addresses)
=============================================================================
