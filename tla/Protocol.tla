------------------------------- MODULE Protocol -------------------------------
(* The escrow, the orchestrators and payment verification together: one      *)
(* action per transaction, which runs the handlers of all the contracts it   *)
(* reaches or, if any of them reverts, none.  The escrow calls back into the *)
(* orchestrator it currently trusts to prune the intents whose liquidity it  *)
(* reclaimed, and ignores that call's failure.                               *)
(* Every deposit is taken to list every payment method at a rate the taker   *)
(* meets: the payment tables of a deposit are not modelled here.             *)
(* As in Escrow, the Buggy... operators are mistakes no specification uses.  *)
EXTENDS Escrow

CONSTANTS
    PaymentMethods, NoMethod, PaymentIds, Verifiers, NoVerifier, OrchestratorOf,
    Relayers,
    ThisEscrow,     \* the contract of module Escrow
    OtherEscrows,   \* other contracts that pass for escrows
    MaxIntents,     \* bound: intents each orchestrator ever signals
    PruneMayFail    \* whether pruneIntents can run out of gas inside its try

VARIABLES
    intents, accountIntents, intentMinAtSignal, intentCounter,
    allowMultipleIntents, acceptedEscrows, orchestratorPaused,  \* Orchestrator
    verifierOf, isPaymentMethod, isWriter, isNullified,     \* PaymentVerification
    \* The event log, as far as the properties read it:
    payouts,        \* hash -> tokens released for it so far
    redemptions     \* payment -> intents it has released

Escrows == {ThisEscrow} \cup OtherEscrows

Orch == INSTANCE Orchestrator
Pay == INSTANCE PaymentVerification

ASSUME HashesAreIssued == IntentHashes = Orch!IssuedHashes
ASSUME VerifiersAssumption ==
    /\ NoVerifier \notin Verifiers
    /\ OrchestratorOf \in [Verifiers -> Orchestrators]
ASSUME EscrowsAssumption == ThisEscrow \notin OtherEscrows
ASSUME MaxIntentsAssumption == MaxIntents \in Nat
ASSUME PruneMayFailAssumption == PruneMayFail \in BOOLEAN

orchVars == <<intents, accountIntents, intentMinAtSignal, intentCounter,
              allowMultipleIntents, acceptedEscrows, orchestratorPaused>>
payVars == <<verifierOf, isPaymentMethod, isWriter, isNullified>>
log == <<payouts, redemptions>>
escrowVars == vars
protocolVars == <<escrowVars, orchVars, payVars, log>>

Recorded(h) == intents[h] # Orch!NoIntent
Ours(h) == Recorded(h) /\ intents[h].escrow = ThisEscrow

ProtocolInit ==
    /\ Init
    /\ Orch!Init
    /\ Pay!Init
    /\ payouts = [h \in IntentHashes |-> 0]
    /\ redemptions = [p \in Pay!Nullifiers |-> 0]

-----------------------------------------------------------------------------
(* Transactions that start at the escrow.                                    *)

BuggyTryPrune(hashes) == UNCHANGED orchVars     \* never tells the orchestrator

\* _tryOrchestratorPruneIntents
TryPrune(hashes) ==
    \/ Orch!PruneIntents(orchestrator, ThisEscrow, hashes)
    \/ PruneMayFail /\ UNCHANGED orchVars

Manage == ManageNext /\ UNCHANGED <<orchVars, payVars, log>>

Remove(a, d, amount) ==
    /\ RemoveFunds(a, d, amount)
    /\ TryPrune(ReclaimIfNecessary(d, amount))
    /\ UNCHANGED <<payVars, log>>

Withdraw(a, d) ==
    /\ WithdrawDeposit(a, d)
    /\ TryPrune(ExpiredIntents(d))
    /\ UNCHANGED <<payVars, log>>

PruneExpired(d) ==
    /\ PruneExpiredIntents(d)
    /\ TryPrune(ExpiredIntents(d))
    /\ UNCHANGED <<payVars, log>>

Extend(a, d, h, time) ==
    /\ ExtendIntentExpiry(a, d, h, time)
    /\ UNCHANGED <<orchVars, payVars, log>>

-----------------------------------------------------------------------------
(* Transactions that start at an orchestrator.                               *)

\* What the call of an intent's escrow does here.  Another escrow keeps its own
\* books, may refuse, and what it does while called it may do just after.
At(escrow, step) == IF escrow = ThisEscrow THEN step ELSE UNCHANGED escrowVars

Signal(o, taker, escrow, d, amount, method) ==
    LET ours == escrow = ThisEscrow
        expired == IF ours THEN ReclaimIfNecessary(d, amount) ELSE {}
    IN  /\ verifierOf[method] # NoVerifier
        /\ \E pruned \in IF PruneMayFail THEN {expired, {}} ELSE {expired},
              min \in IF ours THEN {deposits[d].min} ELSE Amounts \cup {0} :
              Orch!SignalIntent(o, taker, escrow, d, amount, method, min, pruned)
        /\ At(escrow, LockFunds(o, d, Orch!NextHash(o), amount))
        /\ UNCHANGED <<payVars, log>>

BuggyCancel(o, taker, h) ==     \* leaves the liquidity locked
    /\ Orch!CancelIntent(o, taker, h)
    /\ UNCHANGED <<escrowVars, payVars, log>>

BuggyPausedCancel(o, taker, h) ==   \* stops with everything else
    /\ ~orchestratorPaused[o]
    /\ Orch!CancelIntent(o, taker, h)
    /\ At(intents[h].escrow, UnlockFunds(o, intents[h].depositId, h))
    /\ UNCHANGED <<payVars, log>>

Cancel(o, taker, h) ==
    /\ Orch!CancelIntent(o, taker, h)
    /\ At(intents[h].escrow, UnlockFunds(o, intents[h].depositId, h))
    /\ UNCHANGED <<payVars, log>>

Fulfill(o, h, att) ==
    LET v == verifierOf[intents[h].paymentMethod]
        release == Pay!ReleaseAmount(att)
    IN  /\ Recorded(h)
        /\ v # NoVerifier
        /\ Pay!VerifyPayment(o, v, h, intents[h], att)
        /\ att.intentHash = h
        /\ Orch!FulfillIntent(o, h, release)
        /\ At(intents[h].escrow, UnlockAndTransferFunds(o, intents[h].depositId, h, release))
        /\ payouts' = [payouts EXCEPT ![h] = @ + release]
        /\ redemptions' = [redemptions EXCEPT ![Pay!Nullifier(att)] = @ + 1]

\* Another escrow may name anyone as the depositor.
Release(o, caller, h) ==
    LET d == intents[h].depositId
    IN  /\ \E depositor \in IF Ours(h) THEN {deposits[d].depositor} ELSE Accounts :
              Orch!ReleaseFundsToPayer(o, caller, h, depositor)
        /\ At(intents[h].escrow, UnlockAndTransferFunds(o, d, h, intents[h].amount))
        /\ payouts' = [payouts EXCEPT ![h] = @ + intents[h].amount]
        /\ UNCHANGED <<payVars, redemptions>>

\* Another escrow reports intents as expired, at any time and any it likes.
PruneFor(o, escrow, hashes) ==
    /\ Orch!PruneIntents(o, escrow, hashes)
    /\ UNCHANGED <<escrowVars, payVars, log>>

-----------------------------------------------------------------------------
EscrowNext ==
    \/ Manage
    \/ \E a \in Accounts, d \in DepositIds, amount \in Amounts : Remove(a, d, amount)
    \/ \E a \in Accounts, d \in DepositIds : Withdraw(a, d)
    \/ \E d \in DepositIds : PruneExpired(d)
    \/ \E a \in Accounts, d \in DepositIds, h \in IntentHashes, time \in 1 .. MaxTime :
            Extend(a, d, h, time)

IntentNext ==
    \E o \in Orchestrators :
        \/ \E a \in Accounts, e \in Escrows, d \in DepositIds, amount \in Amounts,
              m \in PaymentMethods : Signal(o, a, e, d, amount, m)
        \/ \E a \in Accounts, h \in IntentHashes : Cancel(o, a, h)
        \/ \E h \in IntentHashes, att \in Pay!Attestations : Fulfill(o, h, att)
        \/ \E a \in Accounts, h \in IntentHashes : Release(o, a, h)
        \/ \E e \in OtherEscrows, hashes \in SUBSET IntentHashes : PruneFor(o, e, hashes)

GovernanceNext ==
    \/ OwnerNext /\ UNCHANGED <<orchVars, payVars, log>>
    \/ /\ \E o \in Orchestrators :
            \/ \E allow \in BOOLEAN : Orch!SetAllowMultipleIntents(o, allow)
            \/ \E accepted \in SUBSET Escrows : Orch!SetAcceptedEscrows(o, accepted)
            \/ Orch!PauseOrchestrator(o)
            \/ Orch!UnpauseOrchestrator(o)
       /\ UNCHANGED <<escrowVars, payVars, log>>
    \/ Pay!OwnerNext /\ UNCHANGED <<escrowVars, orchVars, log>>

Pass == Tick /\ UNCHANGED <<orchVars, payVars, log>>

ProtocolNext == EscrowNext \/ IntentNext \/ GovernanceNext \/ Pass

ProtocolSpec == ProtocolInit /\ [][ProtocolNext]_protocolVars

-----------------------------------------------------------------------------
\* Every variable holds a value of the Solidity type it stands for.
ProtocolTypeOK ==
    /\ Orch!TypeOK
    /\ verifierOf \in [PaymentMethods -> Verifiers \cup {NoVerifier}]
    /\ isPaymentMethod \in [Verifiers -> SUBSET PaymentMethods]
    /\ isWriter \subseteq Verifiers
    /\ isNullified \subseteq Pay!Nullifiers
    /\ payouts \in [IntentHashes -> Nat]
    /\ redemptions \in [Pay!Nullifiers -> Nat]

\* Liquidity is locked only for an intent its orchestrator still knows, on the
\* same deposit and for the same amount.  This holds across a change of
\* orchestrator, failed pruning calls and whatever another escrow reports as
\* expired, so no lock can outlive the record its taker would need to cancel or
\* fulfill it.
LocksHaveRecords ==
    \A d \in DepositIds, h \in IntentHashes :
        Locked(d, h) => /\ Ours(h)
                        /\ intents[h].depositId = d
                        /\ intents[h].amount = depositIntents[d][h].amount

\* Every intent on this escrow's funds that the orchestrator keeps has its lock
\* in the escrow: whenever the
\* escrow reclaims a lock it also expires the intent "on the orchestrator
\* contract" (the comment on _reclaimLiquidityIfNecessary, Escrow.sol:923-924).
RecordsHaveLocks ==
    \A h \in IntentHashes : Ours(h) => Locked(intents[h].depositId, h)

\* accountIntents, which decides whether a taker may signal again, lists exactly
\* the intents on record, so an array element is never missing when
\* removeStorage looks for it and no stale one blocks its owner.
AccountsListTheirIntents ==
    \A o \in Orchestrators, a \in Accounts :
        accountIntents[o][a] =
            {h \in IntentHashes : h[1] = o /\ intents[h].owner = a}

\* The owner of a recorded intent can cancel it at any time, whatever is paused
\* or expired: cancelIntent "unlocks liquidity for the corresponding deposit"
\* (Orchestrator.sol:156) and unlockFunds never reverts for it.
TakerCanAlwaysCancel ==
    \A h \in IntentHashes :
        Ours(h) => ENABLED Cancel(h[1], intents[h].owner, h)

\* A taker who has paid in full cannot be refused: while the orchestrator runs
\* and its verifier works, a fresh payment of the full amount fulfills the
\* intent, whatever the depositor did to the deposit's range, flags and funds
\* after the intent was signaled.
FullPaymentFulfills ==
    \A h \in IntentHashes, p \in Pay!Nullifiers :
        LET v == verifierOf[intents[h].paymentMethod]
        IN  /\ Ours(h)
            /\ ~orchestratorPaused[h[1]]
            /\ v # NoVerifier
            /\ OrchestratorOf[v] = h[1]
            /\ v \in isWriter
            /\ p[1] \in isPaymentMethod[v]
            /\ p \notin isNullified
            => \E att \in Pay!Attestations :
                  /\ Pay!Nullifier(att) = p
                  /\ att.releaseAmount = intents[h].amount
                  /\ ENABLED Fulfill(h[1], h, att)

\* One payment releases funds for at most one intent, across orchestrators,
\* verifiers replaced in the registry, and methods removed and added again.
PaymentReleasesOnce == \A p \in Pay!Nullifiers : redemptions[p] <= 1

\* Time passes, and someone keeps calling pruneExpiredIntents on each deposit;
\* the call is open to anyone and never paused.
ProtocolFairness ==
    /\ WF_protocolVars(Pass)
    /\ \A d \in DepositIds : WF_protocolVars(PruneExpired(d))

\* No taker is shut out for good: each recorded intent ends, and its owner may
\* signal again, even if the taker never cancels it, nobody pays and the
\* guardian extends it as long as the code allows.
IntentsEventuallyEnd ==
    \A h \in IntentHashes : Ours(h) ~> ~Recorded(h)

\* A depositor who wants out keeps calling withdrawDeposit, and with nothing more
\* to rely on gets out: WithdrawalCompletes, though locks belong to intents.
DepositorsWithdraw ==
    \A d \in DepositIds : WF_protocolVars(\E a \in Accounts : Withdraw(a, d))
WithdrawalsComplete == DepositorsWithdraw => WithdrawalCompletes

\* What an observer can tell of intent h from the records and the event log.
Status(h) ==
    IF intentCounter[h[1]] <= h[2] THEN "unused"
    ELSE IF Recorded(h) THEN "live"
    ELSE IF payouts[h] > 0 THEN "settled"
    ELSE "dropped"

\* Another escrow may give any minimum, and need not keep to it.
Terms(h) == [least |-> IF Ours(h) THEN intentMinAtSignal[h] ELSE 0,
             most |-> intents[h].amount]

Lifecycle == INSTANCE IntentLifecycle WITH
    Intents <- IntentHashes,
    NoTerms <- [least |-> 0, most |-> 0],
    status <- [h \in IntentHashes |-> Status(h)],
    terms <- [h \in IntentHashes |-> Terms(h)],
    paid <- payouts

\* Across every contract an intent is paid at most once, between the minimum
\* recorded at signal time and its own amount, and neither a cancelled, pruned
\* nor settled intent ever comes back.
ImplementsLifecycle == Lifecycle!Spec
=============================================================================
