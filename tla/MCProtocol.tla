------------------------------ MODULE MCProtocol ------------------------------
(* Small instances of Protocol for TLC.                                      *)
EXTENDS Protocol, TLC

CONSTANTS depositor, taker, o1, o2, v1, v2

\* Payments differ only in their identifiers.
PaymentSymmetry == Permutations(PaymentIds)

MCIntentHashes == Orchestrators \X (0 .. MaxIntents - 1)
MCSuccessorOf == (v1 :> o1) @@ (v2 :> o2)
MCOneVerifier == v1 :> o1
MCOrchestratorOf == (v1 :> o1) @@ (v2 :> o1)

-----------------------------------------------------------------------------
(* Narrower next-state relations: the same transactions with fewer callers   *)
(* and arguments, for the questions that need more time or more intents.     *)

Managing ==
    /\ \/ \E t \in Tokens, amount, min, max \in Amounts :
            CreateDeposit(depositor, t, amount, min, max, depositor, FALSE)
       \/ \E d \in DepositIds, amount \in Amounts : AddFunds(d, amount)
       \/ \E d \in DepositIds, min, max \in Amounts : SetIntentRange(d, min, max)
       \/ \E d \in DepositIds : SetAcceptingIntents(d, TRUE)
    /\ UNCHANGED <<orchVars, payVars, log>>

Reclaiming ==
    \/ \E d \in DepositIds, amount \in Amounts : Remove(depositor, d, amount)
    \/ \E d \in DepositIds : Withdraw(depositor, d)
    \/ \E d \in DepositIds : PruneExpired(d)

Extending ==
    \E d \in DepositIds, h \in IntentHashes :
        Extend(depositor, d, h, 1)

\* On another escrow one taker signals for one amount.
OthersArePlain ==
    \A h \in IntentHashes : Recorded(h) /\ ~Ours(h) =>
        intents[h].owner = taker /\ intents[h].amount = 1 /\ intentMinAtSignal[h] = 0

\* No one intervenes: deposits, intents and the clock.
CoreNext ==
    /\ Managing \/ Reclaiming \/ Extending \/ IntentNext \/ Pass
    /\ OthersArePlain'
CoreSpec == ProtocolInit /\ [][CoreNext]_protocolVars

\* Everything, owners included, with a depositor and a taker who keep to their
\* roles; either may be the guardian.
RolesAreFixed ==
    /\ \A d \in DepositIds : deposits[d].depositor # taker
    /\ \A h \in IntentHashes : intents[h].owner # depositor

GovernedNext == ProtocolNext /\ RolesAreFixed'
FairGovernedSpec == ProtocolInit /\ [][GovernedNext]_protocolVars /\ ProtocolFairness

\* The owners move the escrow to another orchestrator and the registry to that
\* orchestrator's verifier, and take every part of payment verification out of
\* service and put it back, while intents are signaled, paid and reclaimed.
Migrating ==
    \/ /\ \E o \in Orchestrators : SetOrchestrator(o)
       /\ UNCHANGED <<orchVars, payVars, log>>
    \/ Pay!OwnerNext /\ UNCHANGED <<escrowVars, orchVars, log>>

MigrationNext == Managing \/ Reclaiming \/ IntentNext \/ Pass \/ Migrating
MigrationSpec == ProtocolInit /\ [][MigrationNext]_protocolVars
=============================================================================
