# Formal model of the ZKP2P contracts

ZKP2P lets a *depositor* offer ERC-20 tokens and a *taker* buy them with an
off-chain payment. `Escrow` holds the tokens, `Orchestrator` keeps the intents
and decides when one is paid, a *payment verifier* accepts signed attestations
of off-chain payments, and small registries say which contracts may take part. A
bridge hook can send what a taker bought to another chain, and a set of scripts
deploys and wires all of it. This directory holds TLA+ modules translated from
`contracts/` and `deploy/`, TLC configurations that check them on small
instances, and TLAPS proofs that hold for every instance.

    tlasany M.tla                               parse
    tlc -workers 2 -config MCX.cfg MCX          check, e.g. MCEscrowLedger.cfg with MCEscrow
    tlapm EscrowTheorems.tla                    prove; likewise the other ...Theorems modules

## 1. The system

| Part (contracts/) | State | Operations that change it | Talks to |
|---|---|---|---|
| `Escrow.sol`, the ledger | deposits, per-deposit array and mapping of locks, each account's deposits, token balance, orchestrator, dust threshold, lock cap, expiration period, pause | createDeposit, addFunds, removeFunds, withdrawDeposit, setIntentRange, setAcceptingIntents, setRetainOnEmpty, pruneExpiredIntents, lockFunds, unlockFunds, unlockAndTransferFunds, extendIntentExpiry, five owner setters | token; calls `orchestrator.pruneIntents` inside `try` |
| `Escrow.sol`, payment tables | per deposit: listed and active methods, currencies, minimum rates, delegate | addPaymentMethods, setPaymentMethodActive, addCurrencies, deactivateCurrency, setCurrencyMinRate, setDelegate, removeDelegate | PaymentVerifierRegistry |
| `Orchestrator.sol`, intents | intent records, each account's intents, minimum at signal, counter, allowMultipleIntents, pause | signalIntent, cancelIntent, fulfillIntent, releaseFundsToPayer, pruneIntents, owner setters | every whitelisted escrow (lock, unlock, pay), verifier, registries |
| `Orchestrator.sol`, settlement | none of its own | fees, post-intent hook | token, hook (arbitrary code) |
| `unifiedVerifier/` | methods accepted, attestation verifier | verifyPayment, add/removePaymentMethod, setAttestationVerifier | Orchestrator.getIntent, NullifierRegistry, attestation verifier |
| `registries/NullifierRegistry.sol` | payments used, writers | addNullifier, add/removeWritePermission | |
| `registries/PaymentVerifierRegistry.sol` | verifier and currencies of each method | add/removePaymentMethod, add/removeCurrencies | |
| three whitelists in `registries/` | mapping and array | add, remove | |
| `SimpleAttestationVerifier`, `ThresholdSigVerifierUtils` | witness, service | setters; a pure count of signatures | |
| `hooks/AcrossBridgeHook.sol` | its token balance | execute, rescueERC20, rescueNative | Across spoke pool, which fills or refunds later |
| `ProtocolViewer.sol` | none | views | |
| `external/` array utilities | | removeStorage: swap and pop | |
| `deploy/`, `deployments/helpers.ts` (TypeScript) | artifacts and snapshots on disk | the scripts' steps, in file order | the chain, the owner's multisig by printed calldata |

On chain everything happens in transactions: a call runs to the end, with every call it
makes, or reverts and changes nothing. What interleaves is whole transactions of
many parties: depositors, takers, payers, guardians, anyone pruning, and four
owners. The difficulties are therefore

* **long sequences**: three records of the same locks (array, mapping, running
  total) and a shared token balance, maintained by a dozen functions;
* **time**: locks expire, and expired ones are reclaimed lazily, by whoever
  next needs the room or the liquidity;
* **contracts that must agree**, joined by a callback that may fail;
* **owners acting in between**: pausing, lowering limits, changing the
  orchestrator, a verifier or the list of escrows with intents open;
* **re-submission**: the same off-chain payment presented again;
* **re-entrance**: the post-intent hook is a foreign contract called in the
  middle of a transaction, the one place where transactions nest;
* **another chain**: a bridged payout is only a request, filled or refunded later;
* **crashes**: a deployment script may die between any two of its steps, with a
  transaction in flight, and is then run again.

`PROJECT.json` lists each of these as a hazard, at its line.

What makes each part correct:

* *Escrow*: it owns exactly what its deposits add up to; the records of locks
  agree; a deposit goes only when empty; the depositor can always get out; a live
  lock is untouchable; expired locks are no obstacle; no lock lasts forever.
* *Orchestrator*: an intent exists exactly while its funds are locked; the taker
  can always cancel, and be paid when a full payment is proved; an intent is
  settled at most once, within its terms, and never returns.
* *Verification*: a payment releases at most one intent.
* *Payment tables, registries*: mappings and arrays agree; deletion is complete.
* *Settlement*: fees never exceed the release; the hook spends exactly the net
  amount; a re-entrant call sees no half-done fulfilment.
* *Bridge hook*: tokens go where the taker committed, on their own account; a
  sound commitment can always be executed.
* *Signatures*: the count succeeds exactly when enough distinct witnesses signed.
* *Deployment*: nothing is given away unwired; a rerun finishes what a crash left.

## 2. The modules

    Custody ......... abstract: what a custodian promises
    Escrow .......... the ledger                       EscrowCustody: Escrow => Custody
      MCEscrow        instances
      CollectionTheorems, EscrowTheorems     proofs
    Orchestrator .... intent records            (operators, no specification of its own)
    PaymentVerification  verifiers, nullifiers  (likewise)
    IntentLifecycle . abstract: the life of one intent
    Protocol ........ Escrow + Orchestrator + PaymentVerification => IntentLifecycle
      MCProtocol      instances
      ProtocolTheorems       proofs
    Market .......... Protocol + DepositOffers + MethodRegistry => Protocol
      MCMarket        instances
      MarketTheorems         proofs
    Settlement ...... Protocol + fees and the hook     => Protocol
      MCSettlement    instances
      SettlementTheorems     proofs
    DepositOffers ... payment tables of a deposit   (operators)
    MethodRegistry .. PaymentVerifierRegistry
    Whitelist ....... the other registries             (proved in MarketTheorems)
    ArrayUtils ...... the storage arrays            (operators)
    ThresholdSignatures   counting witnesses
      MCThresholdSignatures  instances
      ThresholdTheorems      proofs
    AcrossBridge .... the bridge hook and the pool behind it
      MCAcrossBridge  instances
      AcrossBridgeTheorems   proofs
    Deployment ...... the deployment scripts
      DeploymentTheorems     proofs

**Escrow.** One action per external function, a whole transaction each: guards
are the reverts, and a revert is the action not being enabled. `LockFunds` for
instance includes the reclaim of expired locks that the code runs first
(`ReclaimIfNecessary`, `Reclaimed`), the three checks after it, and the new lock.
Arrays without duplicates are sets; `removeStorage`, which reverts when the element
is missing, is set difference guarded by membership. The proofs and runs do not
assume that the guard holds: `NoTrappedFunds` would fail if it could not.
`CanReclaim` and the other guards on subtraction are Solidity's checked
arithmetic. `o = orchestrator` is `onlyOrchestrator`; the installed orchestrator
is otherwise free to lock and unlock as it likes, with any hash, also one it has
used before. So what is shown of Escrow holds for any orchestrator contract.
The prune callback has no effect on the escrow and appears in Protocol.

**Orchestrator, PaymentVerification.** The effects of each contract's functions
on its own storage, for every deployed orchestrator and verifier at once. A hash
names the orchestrator that issued it (`_calculateIntentHash` hashes the address
and a counter).

**Protocol.** One action per transaction, conjoining the handlers of every
contract it reaches in their order of checks; if one reverts, none happens.
`TryPrune` is the callback under `try`: it prunes at the contract that is the
orchestrator *now*, and when `PruneMayFail` holds it may also do nothing (the
callee runs out of gas). `OtherEscrows` are contracts that pass for escrows: an
orchestrator locks and pays through any escrow its registry accepts, and such a
contract may refuse, name any depositor and any minimum, and call `pruneIntents`
with any hashes at any time (`PruneFor`), which is what `setAcceptAllEscrows`
allows. What it does while it is called it may as well do just after. An
attestation is any one the witnesses may have signed.
`payouts` and `redemptions` stand for the event log (`IntentFulfilled`,
`PaymentVerified`), and only properties read them.

**DepositOffers, MethodRegistry, Market.** `DepositOffers` gathers the eight mappings
that describe how a deposit may be paid for in one record per deposit, with one
operator per function; loops over calldata are stated by what they accept
(`MayList`, `MayQuote`: no iteration reverts) and what they leave (`WithMethods`,
`WithQuotes`). `NoPayee` is the payee details 0, which the code refuses. `MethodRegistry` is the registry that says which methods and
currencies exist; Market runs its actions through INSTANCE. `Market` is
Protocol with both: creating a deposit lists its methods, closing it (in whichever
transaction) deletes them (`OffersFollow`), signaling checks method, currency and
rate and copies payee and rate into the intent.

**Settlement.** fulfillIntent with a hook is the one transaction that other calls
interleave with. It is split in two: `CallHook`, up to the call, and `HookReturns`,
from the balance check on. In between the hook may pull from its allowance,
donate, signal and cancel intents and call every function of the escrow;
`MayEnter` is the re-entrance guard of the orchestrator's two settling
functions. A hook that fails the check makes the transaction revert: such an
execution stops before `HookReturns`, and the state it began in is explored
without it. `settling` holds the local variables of the suspended call,
`donated` and `received` are for the properties.

**AcrossBridge.** The one hook in the repository that is not a mock. `Accepts` is
what `execute` asks of the data whoever fulfills supplies, against the commitment
the taker left in `intent.data` at signaling and the pool's clock; `Execute` pulls
the net amount and deposits it in the pool. The pool is external: it moves its clock
(`Tick`), relayers `Fill` up to the deadline, and past it a transfer comes back to its
depositor, which is the hook (`Refund`). The orchestrator is reduced to the life of
an intent. For Settlement, `Execute` is a hook that pulls exactly its allowance.

**Deployment.** The scripts are data, sequences of steps (`Scripts`), and the helpers are
the actions that carry a step out: `deploy()` reuses a saved artifact (`DeployStep`),
a setter's helper reads the chain and skips, sends, or prints calldata when the
owner is not an account of the machine (`Check`), and sends only once no
transaction is pending (`Send`), by which time what it read may be stale.
`Marker` is the artifact whose presence makes a script skip itself. `Crash` ends
a run anywhere and may leave the transaction in flight, which the network later
mines or drops; `Start` runs the scripts again from the first. The nine scripts before the
bridge's that add payment methods are one, since they differ only in what they
name; alipay's stands apart because it comes after the bridge's.

**Whitelist, ArrayUtils.** Here arrays are sequences, since how `removeStorage`
moves entries is the question. `ListStaysExact` is what lets the other modules use
sets. `Whitelist` has no run of its own: its one property is proved for every set of addresses.

**ThresholdSignatures.** A signature is the set of addresses it is valid for; each
turn of the outer loop is a step.

**Custody** and **IntentLifecycle** say what the system promises without saying how.
In Custody an owner takes back what is free, a claim is reserved on free funds
only, is paid at most once and at most in full, and no step touches two
accounts. In IntentLifecycle an intent is signaled once, and is then dropped
unpaid or settled once within the terms fixed at signaling. The refinement
mappings are in `EscrowCustody` and at the end of `Protocol`.

**The `Buggy...` operators** are mistakes the code could plausibly contain, each
placed before the operator it gets wrong. No specification uses them. Substituted
for that operator, each makes TLC report the property that `PROJECT.json` pairs it
with, so every property is known to notice something.

## 3. What TLC checks

| Run | Instance | Question |
|---|---|---|
| `escrow_ledger` | 2 accounts, 1 deposit, 3 hashes, amounts 1-2, 3 tokens, caps 1-2, dust 0-1, time 1-4 | do the books, the records of locks and deletion stay sound under every call and setting; is a live lock safe; do expired ones make room; is the depositor ever trapped; is Custody implemented |
| `escrow_lowered_cap` | 3 hashes, cap 1 or 2 | *violated*, see section 6 |
| `protocol_core` | 1 depositor, 1 taker, 2 intents, 2 payments, amounts 1-2, caps 1-2, time 1-3, a second escrow | do the contracts agree whatever the other escrow reports; can the taker cancel, and be paid; is IntentLifecycle implemented |
| `protocol_governance` | every owner's action, 1 intent, 1 payment, time 1-4, locks placed up to 1 | do the taker's ways out survive the owners; does every lock and intent end; does a withdrawal complete |
| `protocol_migration` | 2 orchestrators and verifiers, replaced and put back, 1 intent each, failing callbacks | does any lock outlive its record; is any intent paid twice; does a payment release two intents |
| `protocol_orphans` | 2 orchestrators | *violated*, see section 6 |
| `market` | 2 methods, 2 payees, 2 currencies (for one of the methods), 1 intent | do arrays and mappings agree; does a taker's payee stand; is a closed deposit gone, and a removed method able to return |
| `threshold_signatures` | 3 addresses, up to 3 witnesses and 3 signatures | does the count succeed exactly when it should |
| `settlement` | 2 intents, amounts 1 and 4, fees of 0 or a quarter each | does anything stick to the orchestrator; what does the taker keep; what does a hook see |
| `across_bridge` | 2 intents, 5 commitments of which 2 sound, amounts and outputs 1-2, buffers 0-1, clock 0-2, 1 token donated | does each bridge go where its taker said; does the hook mix anybody's tokens; can a sound commitment always be executed |
| `deployment` | 4 networks, every script, 1 crash, 1 edit of each list | is anything given away unwired; what can a crash lose; do reruns succeed |
| `deployment_snapshots` | the same | *violated*, see section 6 |

**Bounds**, all of them constants: `MaxDeposits`, `TokenSupply`, `MaxTime`,
`LockDeadline` (the last time a lock is placed), `MaxIntents`, `MaxHeld`,
`MaxLength`, `MaxDonated`, `MaxCrashes`, `MaxEdits` and the sets of
amounts and settings. They are the smallest at which the interesting cases
happen: two locks on one deposit make a reclaim selective; cap 2 with three hashes
makes the array full with some locks alive and some expired; amounts 1 and 2 give
partial payments, ranges, leftover dust and a payment equal to the minimum;
expiration 1 with at most 2 in total lets the guardian extend once and be refused;
time 4 lets a lock expire, be reclaimed, and a hash be used again. Several deposits and
tokens matter only for what they share, the token balance and the account's
list; that one deposit is never paid from another is proved for every number of
them (`Solvent`, `EscrowKeepsCustody`) and not run. On the second escrow one
taker signals for one amount (`OthersArePlain`); what it reports is unrestricted.
Two methods and, for one of them, two currencies
give every order of listing and removal in both of the nested arrays. Three witnesses with arrays of three include every
repetition, and a signature valid for none, some or all of them. With
`PreciseUnit` 4, amount 1 rounds each fee to zero and 4 rounds none. `MaxHeld` 5
admits a donation on top of the largest payout. Quotes and deadlines on the bridge
range over the whole clock and one tick past it, and buffers of 0 and 1 give an
empty and a proper window. One crash is enough for a transaction
in flight to meet a second run, since a helper leaves at most one; one edit makes
a list differ from what was registered.

In the MC modules accounts, hashes and payment identifiers are symmetric in runs
that check safety properties only; no liveness run uses symmetry. Deadlock is
checked except in three runs. A call of ThresholdSignatures ends. In Settlement an
execution stops where a hook that has used up its moves fails the balance check:
that is the revert. In AcrossBridge every intent and transfer ends and the clock
is bounded.

`MCProtocol` narrows callers and arguments (`CoreNext`, `MigrationNext`);
`protocol_governance` runs all of `ProtocolNext` with a depositor and a taker who
keep to their roles (`RolesAreFixed`). `MCMarket` keeps
every action on tables and registry and one way each of closing, paying and
cancelling; `MCSettlement` keeps every settling step, the fee and the calls a
hook can disturb.

**Fairness.** `Pass`: blocks keep coming with later timestamps.
`PruneExpired(d)`: someone keeps pruning; the call is open to
anyone and never paused. A depositor who wants out keeps calling withdrawDeposit:
that is the depositor's to do, so it is the premise of `WithdrawalsComplete` and
not a part of the specification. Weak fairness is enough in each case because the
properties show the call to be enabled until it has done its work. Nothing is
assumed of guardians, owners, takers or payers. `LockDeadline` is below `MaxTime`
in the liveness run so that time does not stop with a young lock in place; the
bound stands for time having no end, not for an assumption on locks.
In `Deployment`: an operator starts the scripts again when a run has ended
(`Start`), a live process makes progress (`RunStep`), and the network in the end mines
or forgets a pending transaction. That `GiveUp` (`waitForAccountNonceSync` runs out of
patience) may happen instead is left open.

**Properties**

| Property | Says | Runs |
|---|---|---|
| `BooksBalance` | each token balance is the sum over the deposits | ledger |
| `OutstandingMatchesLocks` | array, mapping and total of locks agree | ledger |
| `ClosedDepositsHoldNothing` | no lock survives its deposit; account lists are exact | ledger |
| `NoTrappedFunds` | withdrawDeposit never reverts for the depositor | ledger |
| `UnexpiredLocksAreSafe` | only the orchestrator ends a live lock | ledger |
| `ImplementsCustody` | every step is a custodian's | ledger |
| `ExpiredLocksMakeRoom` | expired locks keep no new one out, the cap not lowered | ledger |
| `ExpiredLocksNeverBlock` | the same without that condition | lowered_cap |
| `LocksHaveRecords` | no liquidity is locked for an intent nobody can end | core, migration |
| `RecordsHaveLocks` | no intent is on record without its funds | core, orphans |
| `AccountsListTheirIntents` | the list that limits takers is exact | core |
| `TakerCanAlwaysCancel` | whatever is paused, delisted or expired | core, governance |
| `FullPaymentFulfills` | a taker who paid in full is not refused | core, governance |
| `ImplementsLifecycle` | once, within terms, never back | core, migration |
| `PaymentReleasesOnce` | one payment, one intent | migration |
| `IntentsEventuallyEnd` | no taker is shut out for good | governance |
| `LocksEventuallyExpire` | the guardian cannot hold a lock forever | governance |
| `WithdrawalsComplete` | a depositor who keeps asking gets out whole | governance |
| `RegistryAgrees` | verifiers, arrays and nested mapping agree | market |
| `CanAlwaysReturn` | a deleted method leaves nothing behind | market |
| `TablesAgree` | a deposit's arrays list what its mappings hold | market |
| `ClosedDepositsOfferNothing` | deletion is complete | market |
| `PayeesStand` | an open intent's payee is not replaced | market |
| `WritesInBounds` | the array of seen signers never overflows | threshold_signatures |
| `EachSignatureCountsOnce` | success needs that many distinct signers with a signature each | threshold_signatures |
| `EnoughSignersSucceed` | and that many suffice | threshold_signatures |
| `NothingSticks` | the orchestrator keeps no token and no allowance | settlement |
| `TakersKeepMost` | fees take at most their two limits | settlement |
| `HooksSeeConsistentState` | contracts agree while a hook runs | settlement |
| `BridgedAsCommitted` | a transfer is the one its own taker committed to | across_bridge |
| `HookKeepsOnlyRefunds` | no bridge leaves or spends another's tokens | across_bridge |
| `SoundCommitmentsCanBridge` | the windows are never empty for a sound commitment | across_bridge |
| `WiredBeforeHandover` | what the multisig owns was configured first | deployment |
| `UnfinishedOnlyBehindMarker` | a run that reports success has skipped only steps after a marker, after a crash | deployment |
| `RerunsConverge` | a later run succeeds; on localhost everything gets done | deployment |
| `SnapshotsMatchRegistry` | snapshots say what the registry holds | deployment_snapshots |

`TypeOK` and `ProtocolTypeOK` are the type invariants. That the `Nat` fields of
`TypeOK` never go negative is not by construction: subtractions in the model are
guarded only where the code's own check or arithmetic guards them.

## 4. What is proved

Each theorem holds for every value of the constants that meets the assumptions
its module states: the null account, token, verifier and escrow are not real
ones, hashes and addresses are finitely many, numbers are naturals, settings are in
the range the setters enforce, and fee limits leave something of the amount.

| Theorem | Statement | Module |
|---|---|---|
| `TypeCorrect` | `Spec => []TypeOK` | EscrowTheorems |
| `LocksNeverDrift` | `Spec => []OutstandingMatchesLocks` | |
| `ClosedForGood` | `Spec => []ClosedDepositsHoldNothing` | |
| `Solvent` | `Spec => []BooksBalance` | |
| `LocksArePromises` | `Spec => UnexpiredLocksAreSafe` | |
| `EscrowKeepsCustody` | `Spec => ImplementsCustody` | |
| `WithdrawalsNeverRevert` | every test of withdrawDeposit passes | |
| `RoomIsUsed` | every test of lockFunds passes where expired locks make room, the cap not exceeded | |
| `RoomIsUsedUnderTheCap` | the same while the owner never lowers the cap | |
| `LocksCanAlwaysEnd` | every test of unlockFunds and of a full payment passes | |
| `ExtensionsAreLimited` | `Spec => []TermsAgreed`: no lock outlasts its period or the limit of extensions | |
| `DeadlinesAreFixed` | no step puts off the last block at which a lock can be alive | |
| `LocksExpire` | `Spec /\ <>(now > t)` implies that a lock due by t ends or expires | |
| `EveryLockExpires` | `Spec /\ ClockRuns => LocksEventuallyExpire` if `LocksLeaveTime` | |
| `LocksEnd` | and with fair pruning, a lock due by t ends | |
| `DepositorsGetOut` | `Spec`, `<>(now > t)` and fair withdrawals close a deposit due by t | |
| `EveryDepositorGetsOut` | `Spec`, `ClockRuns` and fair withdrawals imply `WithdrawalCompletes` if `LocksLeaveTime` | |
| `ProtocolImplementsEscrow` | `ProtocolSpec => Spec` | ProtocolTheorems |
| `ProtocolIsSolvent` | `ProtocolSpec => []BooksBalance` | |
| `ArraysListRecords` | `ProtocolSpec => []AccountsListTheirIntents` | |
| `NoLockOutlivesItsRecord` | `ProtocolSpec => []LocksHaveRecords` | |
| `PaymentsReleaseOnce` | `ProtocolSpec => []PaymentReleasesOnce` | |
| `IntentsLiveOnce` | `ProtocolSpec => ImplementsLifecycle` | |
| `ProtocolTypeCorrect` | `ProtocolSpec => []ProtocolTypeOK` | |
| `NoRecordOutlivesItsLock` | `ProtocolSpec /\ OneOrchestrator => []RecordsHaveLocks` if `PruneMayFail = FALSE` | |
| `StandingIntentsCanEnd` | every test of cancelIntent and releaseFundsToPayer passes | |
| `FullPaymentsPass` | every test of fulfillIntent passes for a fresh full payment | |
| `EveryIntentStands` | and under one orchestrator that holds of every intent | |
| `IntentsNeverChange` | no step edits an intent on record | |
| `IntentsEnd` | under one orchestrator, with fair pruning, an intent due by t ends if `PruneMayFail = FALSE` | |
| `EveryIntentEnds` | the same with `ClockRuns` implies `IntentsEventuallyEnd` if `LocksLeaveTime` | |
| `EveryIntentLockExpires` | `ProtocolSpec /\ ClockRuns => LocksEventuallyExpire` if `LocksLeaveTime` | |
| `EveryDepositorGetsOutOfIntents` | `ProtocolSpec`, `ClockRuns` and fair withdrawals imply `WithdrawalCompletes` if `LocksLeaveTime` | |
| `FairDepositorsGetOut` | `ProtocolSpec /\ ClockRuns => WithdrawalsComplete` if `LocksLeaveTime` and withdrawals whose tests pass are `ENABLED` (`WithdrawalIsEnabled`) | |
| `RegistryStaysConsistent` | `MarketSpec => []RegistryAgrees` | MarketTheorems |
| `TablesStayConsistent` | `MarketSpec => []TablesAgree` | |
| `NothingOfferedAfterClosing` | `MarketSpec => []ClosedDepositsOfferNothing` | |
| `RegistryNeverSticks` | every test of removing a method, and of registering it again, passes | |
| `MarketImplementsProtocol` | `MarketSpec => ProtocolSpec` | |
| `MarketImplementsEscrow` | `MarketSpec => Spec` | |
| `MarketKeepsPromises` | `MarketSpec => ImplementsCustody /\ ImplementsLifecycle` | |
| `LocksHoldPayees` | `MarketSpec => []LockedPayeesStand` | |
| `PayeesStandForTakers` | `MarketSpec /\ OneOrchestrator => []PayeesStand` if `PruneMayFail = FALSE` | |
| `ListStaysExact` | `Spec => []ListIsExact` of `Whitelist` | |
| `SettlementImplementsProtocol` | `SettlementSpec => ProtocolSpec` | SettlementTheorems |
| `SettlementKeepsPromises` | `SettlementSpec => ImplementsCustody /\ ImplementsLifecycle` | |
| `OrchestratorsArePipes` | `SettlementSpec => []NothingSticks` | |
| `TakersAreNotShorted` | `SettlementSpec => []TakersKeepMost` | |
| `HooksAreNotMisled` | `SettlementSpec /\ OneOrchestrator => []HooksSeeConsistentState` if `PruneMayFail = FALSE` | |
| `FeesLeaveTheRest` | fees in range leave a natural net amount and the promised share | |
| `BridgesKeepCommitments` | `BridgeSpec => []BridgedAsCommitted` | AcrossBridgeTheorems |
| `HookIsAPipe` | `BridgeSpec => []HookKeepsOnlyRefunds` | |
| `SoundCommitmentsPass` | `BridgeSpec => []SoundCommitmentsCanBridge` | |
| `CountStaysInBounds` | `Spec => []WritesInBounds` | ThresholdTheorems |
| `SuccessIsEarned` | `Spec => []EachSignatureCountsOnce` | |
| `EnoughIsEnough` | `Spec => []EnoughSignersSucceed` | |
| `GivenAwayWired` | `Spec => []WiredBeforeHandover` | DeploymentTheorems |
| `OnlyMarkersHide` | `Spec => []UnfinishedOnlyBehindMarker` | |
| `DeploymentConverges` | fair reruns, `CrashesStop` and a network that settles imply `RerunsConverge` | |

**The ledger.** None of its properties is inductive alone. The invariant that is,
`LedgerInv`, conjoins `TypeOK`; `LocksAgree(d)`: array, mapping and running total
agree, and every lock carries a positive amount and a hash that is listed;
`RecordSound(d)`: an open deposit has a positive minimum and a token, a
deposit not yet created or already deleted is `NoDeposit`; `ListsAgree`: each
account's list is exact; and `BooksBalance`.

The heart of the argument is closing. The code deletes a deposit because its
running total is zero, not because its array is empty. From a zero total to an
empty array one needs that no lock is empty, hence that `lockFunds` refuses the
amount zero, hence that no open deposit has a zero minimum: that is why
`RecordSound` is in the invariant. Once no lock is left, the deletion keeps
`LocksAgree`, and the sweep of the remainder keeps the books.

Sums are `SumFunctionOnSet` of the community modules, a fold. `CollectionTheorems`
derives from its definition what the proofs need: that the sum exists and is
unique, adding and removing an element, splitting over a subset, changing one
term, zero terms and a zero sum of naturals.
`EscrowTheorems` then has one lemma per kind of step (type of a reclaimed deposit, effect
of dropping locks, of adding one, of closing, how the books follow the records)
and the step lemma has one case per action. `LocksArePromises` goes through the same cases
and looks at what each drops: only expired locks, or a lock whose owner, the
orchestrator, asks.

**What can always be done.** Five properties say with `ENABLED` that a call does not
revert, and `ENABLED` is out of the prover's reach. The theorems state the same of
the guards. A transaction is named by the conjunction of the tests it makes (`CanWithdraw`,
`CanLock`, `CanPay`, `CanCancel`, `CanFulfill`, `CanTakeOut`...) and by the state it leaves, a
function of the state it finds (`After...`); a lemma (`WithdrawalIsTested`, `CancelIsTested`,
...) shows that where the tests pass, the step to that state *is* the model's action, so
that the tests are all there is. The theorems then show the tests to pass.
`WithdrawalsNeverRevert` needs the whole of `LedgerInv`: a part of the locks adds up
to at most the running total (`ReclaimNeverFails`), hence no checked subtraction fails,
and the balance covers the deposit with all that others hold (`BalanceCovers`), hence no
transfer does. `RoomIsUsed` has the one condition of `ExpiredLocksMakeRoom`, that the
array is no longer than the cap; `RoomIsUsedUnderTheCap` discharges it from an owner
who never lowers the cap (`CapNeverLowered`), which `escrow_lowered_cap` shows to be needed.

**What must end.** The liveness properties of the runs are proved as well, with two things said
differently from there. *Fairness without `ENABLED`*: `FairWithdrawal(d)` and its like say that the
call happens infinitely often unless its tests fail infinitely often; the same lemmas as
above (`...IsTested`) show that the tests are all there is, and lemmas such as `FairWithdrawalIsWeak`
that `WF_vars` implies the formula wherever a step whose tests pass is `ENABLED`.
`FairDepositorsGetOut` goes that way to the end: `WithdrawalsComplete`, with the `WF` it is stated
with, under that one premise about `ENABLED` (`WithdrawalIsEnabled`). *The clock is a
hypothesis*: that it passes a given t (`<>(now > t)`) or runs to the bound of the model
(`ClockRuns`) follows from fair ticks only by induction over time, which the prover cannot
do; `ClockAdvances` proves the one step of that induction.

What is left is the argument proper. `ExtensionsAreLimited` bounds a lock: it expires at the
end of the period it was placed with, or within `MaxTotalExpiration` of the block that placed it
(`setIntentExpirationPeriod`, Escrow.sol:794, compares the owner's period with no limit, so either may be the later).
`LatestExpiry` is that bound, and `DeadlinesAreFixed` says that no step moves it while the lock lasts:
an extension changes the expiry, not the bound, and may revive a lock that has expired but was
not pruned. So a lock *due by* t has expired once the clock is past t (`LocksExpire`); then
pruning does something and ends it (`LocksEnd`), and a withdrawal from a deposit that takes no
intents, all of whose locks are due, reclaims them all, leaves nothing and closes
it (`DepositorsGetOut`): with every lock expired, the reclaimed sum is the whole running total.
None of these mentions a bound of the model. The runs state their properties without t;
`EveryLockExpires`, `EveryDepositorGetsOut` and their counterparts for the protocol prove those
in every instance whose bounds let locks end before the clock stops (`LocksLeaveTime`; in
`protocol_governance` the deadline for locks is 1, the limit 2, the period 1, and the clock
stops at 4).

`IntentsEnd` needs in addition what `NoRecordOutlivesItsLock` needs, that reports arrive and go to the
installed orchestrator, and `IntentsNeverChange`: an intent on record keeps its deposit, so that
one deposit's pruning ends it. In `EveryIntentEnds` the deposit is the one found when the
intent is signaled; the pruning of all deposits is assumed from every state on, which is the
same as assuming it of each. Withdrawals need neither condition, because the report is made in a
`try`.

**Custody.** `LedgerInv` turns a deposit's running total into the sum of its locks
(`ValueSound`), which is the custodian's reserve. Each action then is one of
Custody's: an owner's deposit or withdrawal of free funds, a reserve, a release
or payment of one claim, or an expiry.

**The protocol.** `ProtocolImplementsEscrow`: what the orchestrators do to the escrow is
what `Escrow` lets any installed orchestrator do. This needs that a fresh hash
is a natural one, `RecordsInv` (records are typed, issued by their counter and
listed by their owner), and it carries every theorem about the ledger over.
`BooksInv` conjoins both invariants. `NoLockOutlivesItsRecord` is inductive on top of it: a
record goes only when its own orchestrator ends it, which unlocks, or when the
escrow, not another, reports it, and then the lock is already gone.
`PaymentsReleaseOnce` rests on `PaymentsInv`: the nullifiers are exactly the payments
counted once. `IntentsLiveOnce` adds `PaidInv`: an intent that was paid has no record and an
issued hash, so it can neither be paid again nor come back, and a recorded minimum
never exceeds the amount.

`NoRecordOutlivesItsLock` is the converse of `NoLockOutlivesItsRecord` and holds only if two things do:
the report of a reclaim arrives (`PruneMayFail = FALSE`: the call is made in a `try`
that ignores its failure), and it goes to the contract that keeps the record
(`OneOrchestrator`: the owner does not call setOrchestrator, as an action property, from the
first step on). `protocol_orphans` shows what happens otherwise, and `protocol_core` checks the
property under the same two conditions. Inductive with it is `RecordsOwned`, that
each record on this escrow's funds is the installed orchestrator's.

Without these conditions an intent can still be ended as long as it is `Standing`: of the
installed orchestrator, with its lock in place. `StandingIntentsCanEnd` and
`FullPaymentsPass` show the ways out open for each such intent, whatever is paused, delisted
or expired (`LocksCanBePaid` of the ledger, `AccountsListTheirIntents`, and for a payment `PaidInv`:
the recorded minimum is at most the amount); `EveryIntentStands` joins the two.

**Market.** `MarketImplementsProtocol`: a deposit is opened and an intent signaled as in Protocol, an
edit of the tables is a stutter there, and a step of the registry's owner registers a method,
unregisters one or is a stutter (`MarketStep`). Everything proved of Protocol therefore holds
with tables, rates and registry, in particular both abstract specifications
(`MarketKeepsPromises`). On top of it stand two invariants of the market's own, side by side. `RegistryInv` is the registry's types and
`RegistryAgrees`; the one hard step is `removeCurrencies`, a loop of removeStorage calls
each of which moves another entry. `RemovalIsExact` shows, by the least index at which it
would fail, that it takes out exactly the given elements; the loop is a fold, whose
recursion is shown to have a solution first (`RemovalExists`). `OffersInv` says that the tables of every
deposit are `Sound` (typed, and what `TablesAgree` says) and those of a deposit that does not exist
empty. Every edit keeps `Sound`: a method or currency is new where it is
listed, so that appending repeats nothing. Deletion needs all of it: it follows the
arrays, so it is complete because nothing is quoted, active or paid to that is not listed
(`DeletedIsEmpty`). MCMarket lists one method or currency per call; the theorems
cover lists of any length.

A removed method can be registered again because its entry in the mapping of currencies, which
`delete` does not reach, was emptied before (`NothingLeftBehind`, inductive with `RegistryInv`): from it
`RegistryNeverSticks`. `PayeesStand` is not inductive, and false of a record whose lock is gone, as
the deposit may be gone too. What holds in every case is `LockedPayeesStand`, the same of intents
that have a lock: a deposit with a lock is not deleted, and no edit of the tables of an existing
deposit replaces a payee or takes a currency off its list. With `NoRecordOutlivesItsLock` it gives
`PayeesStandForTakers`.

**Settlement.** The two halves of fulfilment are a Protocol step and a step that leaves
Protocol alone, so `SettlementImplementsProtocol`, and all of the above holds
while a hook runs, the two abstract specifications included (`SettlementKeepsPromises`). `PurseInv` says that an orchestrator holds what was donated to it plus the
allowance of a running hook, and that the balance noted before the call less the
net amount is at most what was donated by now. The check after the hook, an equality of balances, then
forces the remaining allowance to zero by itself: no donation can make up for a
token not pulled. `TakersAreNotShorted` needs `FeesInv` (the fee is within its limit whenever
it is used) and `SharesInv` (the net amount a suspended call carries is already a
fair share). `HooksAreNotMisled` follows from the refinement and from what Protocol's theorems say.

**The bridge.** `BridgeInv` is the type, `BridgedAsCommitted` and
`HookKeepsOnlyRefunds` together: `Execute` copies the commitment it checks, and what it
pulls is what it deposits. `SoundCommitmentsPass` is a fact of the two windows: now is in
both, whatever the buffers.

**Signatures.** `CountInv`: the seen signers are different witnesses, each seen through a
signature before the current turn and no signature used twice; and if signatures are
owned, every witness who signed so far is seen. Bounds, success and
failure follow by counting (`FS_Injection`).

**Whitelist.** With the type of the variables `ListIsExact` is inductive; the
work is in `RemoveStorageIsExact` of `CollectionTheorems`, that moving the last entry
into the place of another removes exactly that one from an array without duplicates.

**Deployment.** The scripts are five fixed sequences, and the proof first says once what it
needs of them: every step is `WellPlaced` (a contract is deployed in one place, set and handed over
after it, and the handovers of a script follow its sets). The crashes, transactions in flight
and edits are then unbounded. `DeploymentInv` has, besides the types and that a contract has an owner
exactly when it has an artifact, four parts that need each other:

* `PassedIsDone`: what a run went past is finished, or hidden from it behind a marker. This is
  `OnlyMarkersHide` for a run under way; it needs that a helper skips only what is done, that
  nothing done is ever undone (`Kept`), and, where a script skips itself,
* `MarkersAreEarned`: a marker says that its script got that far, since the artifact is
  written when the run arrives at it with everything before it done;
* `SmoothSoFar`: without a crash so far nothing is pending, what a helper is about to send is still
  accepted, and a marker hides nothing. This is where `crashes > 0` in
  `UnfinishedOnlyBehindMarker` comes from;
* `WiredFirst`: `GivenAwayWired`, extended to the handover that a crash left in flight and
  may be mined in any later run, and to calldata: a step of the wiring is never left to the
  multisig, because the contract it sets is still the deployer's when the run gets there.

`DeploymentConverges` is progress on top of it. When crashes have stopped (`CrashesStop`: that a bounded
number of them comes to an end is an induction over that number) the network settles
what the last one left, and at most one more run fails over what it had read too early; from
then on nothing is pending and what is about to be sent is accepted (`Calm`, by `AcceptedStays`: the
multisig cannot touch what is still the deployer's). In calm a run can take a step wherever it
stands (`StepIsTested`), no step fails on a network with a spoke pool, and none goes back
(`OnlyOnward`, `RunsMoveOn`), so each script ends (`SystemEnds`, `ShortScriptsEnd`, place by place) and the run
succeeds. On localhost no script skips, so success means `AllFinished`, and that stays.

Not proved, only model-checked: `NoTrappedFunds`, `ExpiredLocksMakeRoom`,
`TakerCanAlwaysCancel`, `FullPaymentFulfills` and `CanAlwaysReturn` as they stand, since they contain
`ENABLED`; the theorems above prove what they say of the guards. And of liveness, the passage
from `WF_vars` to the fairness of the theorems (that a call whose tests pass is `ENABLED`), and the
two inductions that make `ClockRuns`
follow from fair ticks and `CrashesStop` from `MaxCrashes`: TLC checks the properties under
`WF_vars` and without these hypotheses. The three properties of section 6 are false.

## 5. What is abstracted or left out

* **Donations.** Tokens sent to the escrow outside its functions are not
  modelled; with them `BooksBalance` is "at least".
* **Tokens** are well behaved: a transfer moves exactly the amount or reverts.
  The payers hold what the escrow does not (`TokenSupply`).
* **Constructor values** of `dustThreshold`, `maxIntentsPerDeposit` and
  `intentExpirationPeriod` are taken to be ones the setters would accept; the
  constructor itself does not check them.
* **Numbers** are unbounded naturals; the contracts use checked 256-bit
  arithmetic and their amounts are token balances. `PRUNE_ALL_EXPIRED_INTENTS` is
  above every balance, so the callers that pass it reclaim unconditionally.
* **Delegate**: setters admit the depositor or the delegate; which one calls makes
  no difference to the ledger, so the caller is left out of those actions.
* **Payment tables and rates, fees and hooks** are absent from Protocol, where every
  deposit lists every method at a rate the taker meets; Market and Settlement
  each add their part. Gating signatures are taken to be given when asked for.
* **Fee recipients and `intent.to`** are accounts other than the orchestrator;
  who they are is not represented. The referrer's fee is chosen at settlement,
  the only time it is used. A hook that settles through another orchestrator while
  it runs is left out.
* **Setters that store one address** nothing modelled depends on: setDustRecipient,
  setPaymentVerifierRegistry, setProtocolFeeRecipient, setAttestationVerifier,
  setWitness and the orchestrator's setters of the hook and relayer registries.
* **Witnesses that are contracts** may accept one signature for several of them
  (ERC-1271). The count is then still sound, `EachSignatureCountsOnce`, but may miss
  a valid assignment: a signature good for A and B followed by one good for A
  counts 1. `EnoughSignersSucceed` is therefore stated for externally owned
  witnesses, the kind `SimpleAttestationVerifier` is deployed with.
* **Attestation**: signatures, currency, payee, rate and timestamps are not
  represented; the snapshot keeps the fields the properties can tell apart.
* **Other escrows** keep books of their own, which are not represented; Market and
  Settlement run with none.
* **Bridge**: only the bridged token is counted; rescueNative and rescues of other
  tokens move balances nothing else reads. The empty message and the absent
  exclusive relayer are constants of the call and left out.
* **Deployment**: redeployment when constructor arguments have changed, contracts
  orphaned by a crash between their creation and the saved artifact, mock tokens and pools
  on test networks, and deploy_summary.ts, which only prints. `tasks/`, `utils/` and
  `packages/` hold stateless encoding and copying and are not modelled, nor are
  `ProtocolViewer` (views), the mocks, the tests and `archive/`.
* **Gas**, except that a pruning callback may fail for want of it.

## 6. Where code and comments disagree

*A lowered cap disables the reclaim* (`escrow_lowered_cap`, Escrow.sol:936). The
reclaim for want of room runs when the array's length *equals*
`maxIntentsPerDeposit`. If the owner lowers the cap below the number of locks on a
deposit, the lengths are no longer equal, and `lockFunds` reverts with
`MaxIntentsExceeded` even when every lock has expired, though its comments speak of
counting "after expiring intents" (586) and of reclaiming when "at max intents"
(938). `pruneExpiredIntents` repairs the deposit.

*Orphaned records* (`protocol_orphans`, Escrow.sol:968). Reclaimed intents are
reported to the current orchestrator. After `setOrchestrator`, intents of the
previous one are pruned in the escrow and remain on record there for good, though
the comment at 923-924 says callers "expire the intents on the orchestrator
contract". No funds are at stake: `LocksHaveRecords` holds in `protocol_migration`.

*Snapshots drift* (`deployment_snapshots`, helpers.ts:317).
`addPaymentMethodToRegistry` skips a method that is registered without comparing
its currencies, and prints calldata when the multisig owns the registry; the
script then saves the repository's list all the same. The comment at 278 says
snapshots are there "to avoid drift between code and configured on-chain state".

Smaller ones, which need no run:

* The comment of `setDelegate` (Escrow.sol:283) says
  that address(0) removes the delegate, and line 289 refuses it (`SetDelegate`);
  `removeDelegate` does it.
* A crash after the artifact that makes a script skip itself hides the rest of that
  script from every later run: the handovers of 00 (line 188), the write permission of
  the verifier in 01 (line 74) and the listing of the hook in 10 (line 70), all of which the
  deployment tests (00_system.spec.ts:108-111, 01_unifiedVerifier.spec.ts:107-110,
  10_acrossBridgeHook.spec.ts:63-76) expect. `UnfinishedOnlyBehindMarker` is the
  statement of what else cannot be lost.
* On base_sepolia no spoke pool is configured, 10_deploy_across_bridge_hook.ts throws,
  no run completes there, and 11_add_alipay_payment_method.ts is never reached;
  `RerunsConverge` leaves that network out.
* A bad bridge commitment is noticed only by `execute`, when the taker has paid:
  fulfilment with the hook then always reverts, and the taker is left with
  cancelling or the depositor's release. Refunds of transfers no relayer filled go to the hook,
  and only its owner can pass them on. The intent hash in the hook's event is taken from
  the fulfiller's data, not from the intent.

## 7. Plan

The modules were written in this order: the ledger with its abstract
specification and proofs; orchestrator, verification and their composition; the
registries; Market; Settlement; the signatures; the deployment scripts; the
bridge; other escrows in Protocol; and the proofs, of invariants, refinements and
progress. What is left:

1. **Settlement nested** through two orchestrators, and AcrossBridge as the hook of
   Settlement in place of the arbitrary one.
2. **Owners' addresses**: dust and fee recipients, setWitness,
   setAttestationVerifier, with the attestation's signatures
   taken from ThresholdSignatures; gating signatures.
