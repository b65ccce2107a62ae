----------------------------- MODULE MCSettlement -----------------------------
(* A small instance of Settlement for TLC.                                     *)
EXTENDS Settlement, TLC

CONSTANTS depositor, taker, o1, v1

MCIntentHashes == Orchestrators \X (0 .. MaxIntents - 1)
MCOrchestratorOf == v1 :> o1
PaymentSymmetry == Permutations(PaymentIds)

\* One shape of deposit and no owner but the one who sets the fee.
Opening ==
    /\ \E t \in Tokens, amount, min, max \in Amounts, retain \in BOOLEAN :
            CreateDeposit(depositor, t, amount, min, max, NoAccount, retain)
    /\ UNCHANGED <<orchVars, payVars, log>>

Calls ==
    \/ \E d \in DepositIds : Withdraw(depositor, d)
    \/ \E d \in DepositIds, amount \in Amounts : Remove(depositor, d, amount)
    \/ \E d \in DepositIds : PruneExpired(d)
    \/ IntentCalls

MCSettlementNext ==
    \/ Settle
    \/ HookReturns
    \/ \E amount \in 1 .. MaxHeld : Pull(amount)
    \/ \E o \in Orchestrators, t \in Tokens : Donate(o, t, 1)
    \/ Unguarded(Opening \/ Calls)
    \/ Unguarded(Idle /\ Pass)
    \/ \E o \in Orchestrators, fee \in 0 .. PreciseUnit : SetProtocolFee(o, fee)

MCSettlementSpec == SettlementInit /\ [][MCSettlementNext]_settlementVars
=============================================================================
