---------------------------- MODULE EscrowCustody ----------------------------
(* Escrow implements Custody: a deposit's liquidity, on offer or under lock, *)
(* is what is held, and its locks are the reservations.                      *)
EXTENDS Escrow

Promise == INSTANCE Custody WITH
    Funds <- DepositIds,
    Claims <- IntentHashes,
    MaxDust <- MaxDustThreshold,
    held <- [d \in DepositIds |-> Value(d)],
    reserved <- [d \in DepositIds |->
                    [h \in IntentHashes |-> depositIntents[d][h].amount]]

\* Every transaction of Escrow.sol is one a custodian may make: no withdrawal
\* digs into funds a live lock reserves, no lock is admitted on funds already
\* locked, a payout ends its lock and takes nothing from another, and a closing
\* sweep keeps no more than MAX_DUST_THRESHOLD.
ImplementsCustody == Promise!Spec
=============================================================================
