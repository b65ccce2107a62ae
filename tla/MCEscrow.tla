------------------------------ MODULE MCEscrow ------------------------------
(* Small instances of Escrow for TLC.                                        *)
EXTENDS EscrowCustody, TLC

\* The accounts play interchangeable roles, and so do the hashes.
Symmetry == Permutations(Accounts) \cup Permutations(IntentHashes)
=============================================================================
