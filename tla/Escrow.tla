------------------------------- MODULE Escrow -------------------------------
(* The liquidity ledger of contracts/Escrow.sol: deposits, the locks intents *)
(* place on them, their expiry, and the escrow's own balance of each token.  *)
(* One action per external function that changes this state; an action is a *)
(* whole transaction, so a revert is the action not being enabled.  The      *)
(* caller of lockFunds, unlockFunds and unlockAndTransferFunds is whatever   *)
(* contract the owner has installed as the orchestrator, here free to call   *)
(* them in any order; Protocol constrains it to the code of Orchestrator.sol.*)
(* The payment-method and currency tables of a deposit do not touch this     *)
(* state and are left out.                                                   *)
(* An operator named Buggy... is a mistake the code could have made, beside  *)
(* the operator it gets wrong.  No specification uses one: substituted for   *)
(* that operator, it shows that a property notices the mistake.              *)
EXTENDS Integers, FiniteSets, Functions

CONSTANTS
    Accounts,           \* externally owned accounts
    NoAccount,          \* address(0)
    Tokens,             \* ERC-20 tokens
    NoToken,            \* the zero token of a deleted deposit
    Orchestrators,      \* contracts the owner may install as orchestrator
    IntentHashes,       \* hashes an orchestrator may lock under
    MaxDeposits,        \* bound: deposits ever created
    Amounts,            \* token amounts a caller may pass
    TokenSupply,        \* bound: units of each token in existence
    MaxDustThreshold,   \* MAX_DUST_THRESHOLD
    DustThresholds,     \* values the owner may give dustThreshold
    IntentCaps,         \* values the owner may give maxIntentsPerDeposit
    ExpirationPeriods,  \* values the owner may give intentExpirationPeriod
    MaxTotalExpiration, \* MAX_TOTAL_INTENT_EXPIRATION_PERIOD
    MaxTime,            \* bound: the last block timestamp
    LockDeadline        \* bound: the last timestamp at which locks are placed

ASSUME AccountsAssumption == NoAccount \notin Accounts
ASSUME TokensAssumption == NoToken \notin Tokens
ASSUME HashesAssumption == IsFiniteSet(IntentHashes)
ASSUME NumbersAssumption ==
    /\ MaxDeposits \in Nat
    /\ Amounts \subseteq Nat
    /\ TokenSupply \in Nat
    /\ MaxDustThreshold \in Nat
    /\ DustThresholds \subseteq 0 .. MaxDustThreshold
    /\ IntentCaps \subseteq Nat \ {0}
    /\ ExpirationPeriods \subseteq Nat \ {0}
    /\ MaxTotalExpiration \in Nat
    /\ MaxTime \in Nat \ {0}
    /\ LockDeadline \in Nat

VARIABLES
    now,                    \* block.timestamp
    depositCounter,
    deposits,               \* deposit id -> Deposit struct
    accountDeposits,        \* account -> ids of its deposits (array as a set)
    depositIntentHashes,    \* deposit id -> hashes locked on it (array as a set)
    depositIntents,         \* deposit id -> hash -> Intent struct
    tokenBalance,           \* token.balanceOf(escrow)
    orchestrator,
    dustThreshold,
    maxIntentsPerDeposit,
    intentExpirationPeriod,
    paused

books == <<deposits, accountDeposits, depositIntentHashes, depositIntents,
           tokenBalance>>
settings == <<orchestrator, dustThreshold, maxIntentsPerDeposit,
              intentExpirationPeriod, paused>>
vars == <<now, depositCounter, books, settings>>

DepositIds == 0 .. MaxDeposits - 1

Deposit == [depositor: Accounts \cup {NoAccount},
            token: Tokens \cup {NoToken},
            min: Nat, max: Nat,
            acceptingIntents: BOOLEAN,
            remainingDeposits: Nat,
            outstandingIntentAmount: Nat,
            intentGuardian: Accounts \cup {NoAccount},
            retainOnEmpty: BOOLEAN]

NoDeposit == [depositor |-> NoAccount, token |-> NoToken, min |-> 0, max |-> 0,
              acceptingIntents |-> FALSE, remainingDeposits |-> 0,
              outstandingIntentAmount |-> 0, intentGuardian |-> NoAccount,
              retainOnEmpty |-> FALSE]

Intent == [amount: Nat, timestamp: Nat, expiryTime: Nat]
NoIntent == [amount |-> 0, timestamp |-> 0, expiryTime |-> 0]

Exists(d) == deposits[d].depositor # NoAccount
Locked(d, h) == depositIntents[d][h] # NoIntent

Init ==
    /\ now = 1
    /\ depositCounter = 0
    /\ deposits = [d \in DepositIds |-> NoDeposit]
    /\ accountDeposits = [a \in Accounts |-> {}]
    /\ depositIntentHashes = [d \in DepositIds |-> {}]
    /\ depositIntents = [d \in DepositIds |-> [h \in IntentHashes |-> NoIntent]]
    /\ tokenBalance = [t \in Tokens |-> 0]
    /\ orchestrator \in Orchestrators
    /\ dustThreshold \in DustThresholds
    /\ maxIntentsPerDeposit \in IntentCaps
    /\ intentExpirationPeriod \in ExpirationPeriods
    /\ paused = FALSE

-----------------------------------------------------------------------------
(* Reclaiming the liquidity of expired intents.                              *)

BuggyExpiredIntents(d) ==   \* expires a block too early
    {h \in depositIntentHashes[d] : depositIntents[d][h].expiryTime <= now}

ExpiredIntents(d) ==
    {h \in depositIntentHashes[d] : depositIntents[d][h].expiryTime < now}

BuggyReclaimIfNecessary(d, minRequired) ==  \* ignores a full array
    IF deposits[d].remainingDeposits < minRequired THEN ExpiredIntents(d) ELSE {}

\* PRUNE_ALL_EXPIRED_INTENTS is type(uint256).max, above every balance, so the
\* callers that pass it reclaim ExpiredIntents(d) unconditionally.
ReclaimIfNecessary(d, minRequired) ==
    IF \/ deposits[d].remainingDeposits < minRequired
       \/ Cardinality(depositIntentHashes[d]) = maxIntentsPerDeposit
    THEN ExpiredIntents(d)
    ELSE {}

LockedAmount(d, hashes) ==
    SumFunctionOnSet([h \in IntentHashes |-> depositIntents[d][h].amount], hashes)

\* Checked arithmetic: the reclaim reverts rather than go below zero.
CanReclaim(d, hashes) ==
    LockedAmount(d, hashes) <= deposits[d].outstandingIntentAmount

\* The deposit once the liquidity locked under hashes is available again.
Reclaimed(d, hashes) ==
    [deposits[d] EXCEPT !.remainingDeposits = @ + LockedAmount(d, hashes),
                        !.outstandingIntentAmount = @ - LockedAmount(d, hashes)]

BuggyDropLocks(d, hashes) ==    \* reclaims without pruning
    UNCHANGED <<depositIntentHashes, depositIntents>>

\* _pruneIntent for each of hashes
DropLocks(d, hashes) ==
    /\ depositIntentHashes' = [depositIntentHashes EXCEPT ![d] = @ \ hashes]
    /\ depositIntents' = [depositIntents EXCEPT ![d] =
                            [h \in IntentHashes |->
                                IF h \in hashes THEN NoIntent ELSE @[h]]]

\* _handleAcceptingIntentsState: a deposit below its minimum stops accepting.
Demoted(deposit) ==
    [deposit EXCEPT !.acceptingIntents =
        @ /\ deposit.remainingDeposits >= deposit.min]

BuggyHasLiquidity(deposit, amount) ==   \* counts what is locked as available
    deposit.remainingDeposits + deposit.outstandingIntentAmount >= amount

\* InsufficientDepositLiquidity is not raised.
HasLiquidity(deposit, amount) == deposit.remainingDeposits >= amount

-----------------------------------------------------------------------------
(* Closing an empty deposit.                                                 *)

BuggyIsClosable(deposit) ==     \* forgets the live locks
    /\ deposit.remainingDeposits <= dustThreshold
    /\ ~deposit.retainOnEmpty

BuggyIsClosableAtDust(deposit) ==   \* off by one at the threshold
    /\ deposit.outstandingIntentAmount = 0
    /\ deposit.remainingDeposits < dustThreshold
    /\ ~deposit.retainOnEmpty

IsClosable(deposit) ==
    /\ deposit.outstandingIntentAmount = 0
    /\ deposit.remainingDeposits <= dustThreshold
    /\ ~deposit.retainOnEmpty

BuggySweptDust(deposit) == 0    \* deletes the deposit and keeps its dust

SweptDust(deposit) ==
    IF IsClosable(deposit) THEN deposit.remainingDeposits ELSE 0

\* _closeDepositIfNecessary on deposit d once its record is deposit
CloseIfNecessary(d, deposit) ==
    IF IsClosable(deposit)
    THEN /\ d \in accountDeposits[deposit.depositor]
         /\ accountDeposits' = [accountDeposits EXCEPT ![deposit.depositor] = @ \ {d}]
         /\ deposits' = [deposits EXCEPT ![d] = NoDeposit]
    ELSE /\ deposits' = [deposits EXCEPT ![d] = deposit]
         /\ UNCHANGED accountDeposits

\* safeTransferFrom(caller, escrow, amount): the payers hold what the escrow
\* does not.
TransferIn(token, amount) ==
    /\ tokenBalance[token] + amount <= TokenSupply
    /\ tokenBalance' = [tokenBalance EXCEPT ![token] = @ + amount]

TransferOut(token, amount) ==
    /\ amount <= tokenBalance[token]
    /\ tokenBalance' = [tokenBalance EXCEPT ![token] = @ - amount]

-----------------------------------------------------------------------------
(* Depositors and the accounts acting for them.                              *)

CreateDeposit(caller, token, amount, min, max, guardian, retain) ==
    /\ ~paused
    /\ depositCounter < MaxDeposits
    /\ min # 0 /\ min <= max
    /\ amount >= min
    /\ depositCounter' = depositCounter + 1
    /\ accountDeposits' = [accountDeposits EXCEPT ![caller] = @ \cup {depositCounter}]
    /\ deposits' = [deposits EXCEPT ![depositCounter] =
            [depositor |-> caller, token |-> token, min |-> min, max |-> max,
             acceptingIntents |-> TRUE, remainingDeposits |-> amount,
             outstandingIntentAmount |-> 0, intentGuardian |-> guardian,
             retainOnEmpty |-> retain]]
    /\ TransferIn(token, amount)
    /\ UNCHANGED <<now, depositIntentHashes, depositIntents, settings>>

AddFunds(d, amount) ==
    /\ ~paused
    /\ Exists(d)
    /\ amount # 0
    /\ deposits' = [deposits EXCEPT ![d].remainingDeposits = @ + amount]
    /\ TransferIn(deposits[d].token, amount)
    /\ UNCHANGED <<now, depositCounter, accountDeposits, depositIntentHashes,
                   depositIntents, settings>>

RemoveFunds(caller, d, amount) ==
    LET expired == ReclaimIfNecessary(d, amount)
        deposit == Reclaimed(d, expired)
    IN  /\ ~paused
        /\ deposits[d].depositor = caller
        /\ amount # 0
        /\ CanReclaim(d, expired)
        /\ HasLiquidity(deposit, amount)
        /\ deposits' = [deposits EXCEPT ![d] =
                Demoted([deposit EXCEPT !.remainingDeposits = @ - amount])]
        /\ DropLocks(d, expired)
        /\ TransferOut(deposit.token, amount)
        /\ UNCHANGED <<now, depositCounter, accountDeposits, settings>>

WithdrawDeposit(caller, d) ==
    LET expired == ExpiredIntents(d)
        deposit == Reclaimed(d, expired)
        emptied == [deposit EXCEPT !.remainingDeposits = 0,
                                   !.acceptingIntents = FALSE]
    IN  /\ deposits[d].depositor = caller
        /\ CanReclaim(d, expired)
        /\ DropLocks(d, expired)
        /\ CloseIfNecessary(d, emptied)
        /\ TransferOut(deposit.token,
                       SweptDust(emptied) + deposit.remainingDeposits)
        /\ UNCHANGED <<now, depositCounter, settings>>

\* The three setters below admit the depositor or the delegate; which of the
\* two calls makes no difference to the ledger.
SetIntentRange(d, min, max) ==
    /\ ~paused
    /\ Exists(d)
    /\ min # 0 /\ min <= max
    /\ deposits' = [deposits EXCEPT ![d] =
            Demoted([deposits[d] EXCEPT !.min = min, !.max = max])]
    /\ UNCHANGED <<now, depositCounter, accountDeposits, depositIntentHashes,
                   depositIntents, tokenBalance, settings>>

SetAcceptingIntents(d, accepting) ==
    /\ ~paused
    /\ Exists(d)
    /\ deposits[d].acceptingIntents # accepting
    /\ accepting => deposits[d].remainingDeposits >= deposits[d].min
    /\ deposits' = [deposits EXCEPT ![d].acceptingIntents = accepting]
    /\ UNCHANGED <<now, depositCounter, accountDeposits, depositIntentHashes,
                   depositIntents, tokenBalance, settings>>

SetRetainOnEmpty(d, retain) ==
    /\ ~paused
    /\ Exists(d)
    /\ deposits[d].retainOnEmpty # retain
    /\ deposits' = [deposits EXCEPT ![d].retainOnEmpty = retain]
    /\ UNCHANGED <<now, depositCounter, accountDeposits, depositIntentHashes,
                   depositIntents, tokenBalance, settings>>

PruneExpiredIntents(d) ==
    LET expired == ExpiredIntents(d)
    IN  /\ CanReclaim(d, expired)
        /\ deposits' = [deposits EXCEPT ![d] = Reclaimed(d, expired)]
        /\ DropLocks(d, expired)
        /\ UNCHANGED <<now, depositCounter, accountDeposits, tokenBalance, settings>>

-----------------------------------------------------------------------------
(* The orchestrator: o is the contract that makes the call.                  *)

LockFunds(o, d, h, amount) ==
    LET expired == ReclaimIfNecessary(d, amount)
        deposit == Reclaimed(d, expired)
    IN  /\ o = orchestrator
        /\ now <= LockDeadline
        /\ Exists(d)
        /\ deposits[d].acceptingIntents
        /\ deposits[d].min <= amount /\ amount <= deposits[d].max
        /\ ~Locked(d, h)
        /\ CanReclaim(d, expired)
        /\ HasLiquidity(deposit, amount)
        /\ Cardinality(depositIntentHashes[d] \ expired) + 1 <= maxIntentsPerDeposit
        /\ deposits' = [deposits EXCEPT ![d] =
                [deposit EXCEPT !.remainingDeposits = @ - amount,
                                !.outstandingIntentAmount = @ + amount]]
        /\ depositIntentHashes' = [depositIntentHashes EXCEPT ![d] = (@ \ expired) \cup {h}]
        /\ depositIntents' = [depositIntents EXCEPT ![d] =
                [g \in IntentHashes |->
                    IF g = h
                    THEN [amount |-> amount, timestamp |-> now,
                          expiryTime |-> now + intentExpirationPeriod]
                    ELSE IF g \in expired THEN NoIntent ELSE @[g]]]
        /\ UNCHANGED <<now, depositCounter, accountDeposits, tokenBalance, settings>>

UnlockFunds(o, d, h) ==
    LET amount == depositIntents[d][h].amount
    IN  /\ o = orchestrator
        /\ Exists(d)
        /\ Locked(d, h)
        /\ amount <= deposits[d].outstandingIntentAmount
        /\ h \in depositIntentHashes[d]
        /\ deposits' = [deposits EXCEPT
                ![d].remainingDeposits = @ + amount,
                ![d].outstandingIntentAmount = @ - amount]
        /\ DropLocks(d, {h})
        /\ UNCHANGED <<now, depositCounter, accountDeposits, tokenBalance, settings>>

UnlockAndTransferFunds(o, d, h, transferAmount) ==
    LET amount == depositIntents[d][h].amount
        deposit == [deposits[d] EXCEPT
                        !.remainingDeposits = @ + (amount - transferAmount),
                        !.outstandingIntentAmount = @ - amount]
    IN  /\ o = orchestrator
        /\ Exists(d)
        /\ Locked(d, h)
        /\ transferAmount # 0
        /\ transferAmount <= amount
        /\ amount <= deposits[d].outstandingIntentAmount
        /\ h \in depositIntentHashes[d]
        /\ DropLocks(d, {h})
        /\ CloseIfNecessary(d, deposit)
        /\ TransferOut(deposit.token, SweptDust(deposit) + transferAmount)
        /\ UNCHANGED <<now, depositCounter, settings>>

-----------------------------------------------------------------------------
(* The intent guardian of a deposit.                                         *)

BuggyMayExtend(intent, additionalTime) ==   \* bounds each extension, not their sum
    intent.expiryTime + additionalTime <= now + MaxTotalExpiration

MayExtend(intent, additionalTime) ==
    intent.expiryTime + additionalTime <= intent.timestamp + MaxTotalExpiration

ExtendIntentExpiry(caller, d, h, additionalTime) ==
    /\ Exists(d)
    /\ Locked(d, h)
    /\ deposits[d].intentGuardian = caller
    /\ additionalTime # 0
    /\ MayExtend(depositIntents[d][h], additionalTime)
    /\ depositIntents' = [depositIntents EXCEPT ![d][h].expiryTime = @ + additionalTime]
    /\ UNCHANGED <<now, depositCounter, deposits, accountDeposits,
                   depositIntentHashes, tokenBalance, settings>>

-----------------------------------------------------------------------------
(* The owner.                                                                *)

SetOrchestrator(o) ==
    /\ orchestrator' = o
    /\ UNCHANGED <<now, depositCounter, books, dustThreshold,
                   maxIntentsPerDeposit, intentExpirationPeriod, paused>>

SetDustThreshold(threshold) ==
    /\ dustThreshold' = threshold
    /\ UNCHANGED <<now, depositCounter, books, orchestrator,
                   maxIntentsPerDeposit, intentExpirationPeriod, paused>>

SetMaxIntentsPerDeposit(cap) ==
    /\ maxIntentsPerDeposit' = cap
    /\ UNCHANGED <<now, depositCounter, books, orchestrator, dustThreshold,
                   intentExpirationPeriod, paused>>

SetIntentExpirationPeriod(period) ==
    /\ intentExpirationPeriod' = period
    /\ UNCHANGED <<now, depositCounter, books, orchestrator, dustThreshold,
                   maxIntentsPerDeposit, paused>>

PauseEscrow ==
    /\ ~paused
    /\ paused' = TRUE
    /\ UNCHANGED <<now, depositCounter, books, orchestrator, dustThreshold,
                   maxIntentsPerDeposit, intentExpirationPeriod>>

UnpauseEscrow ==
    /\ paused
    /\ paused' = FALSE
    /\ UNCHANGED <<now, depositCounter, books, orchestrator, dustThreshold,
                   maxIntentsPerDeposit, intentExpirationPeriod>>

-----------------------------------------------------------------------------
\* The chain: the next block carries a later timestamp.
Tick ==
    /\ now < MaxTime
    /\ now' = now + 1
    /\ UNCHANGED <<depositCounter, books, settings>>

\* Transactions that stay inside the escrow and its token ...
ManageNext ==
    \/ \E a \in Accounts, t \in Tokens, amount, min, max \in Amounts,
          guardian \in Accounts \cup {NoAccount}, retain \in BOOLEAN :
            CreateDeposit(a, t, amount, min, max, guardian, retain)
    \/ \E d \in DepositIds, amount \in Amounts : AddFunds(d, amount)
    \/ \E d \in DepositIds, min, max \in Amounts : SetIntentRange(d, min, max)
    \/ \E d \in DepositIds, accepting \in BOOLEAN : SetAcceptingIntents(d, accepting)
    \/ \E d \in DepositIds, retain \in BOOLEAN : SetRetainOnEmpty(d, retain)

\* ... and those that report the locks they reclaimed to the orchestrator.
ReclaimNext ==
    \/ \E a \in Accounts, d \in DepositIds, amount \in Amounts :
            RemoveFunds(a, d, amount)
    \/ \E a \in Accounts, d \in DepositIds : WithdrawDeposit(a, d)
    \/ \E d \in DepositIds : PruneExpiredIntents(d)

OrchestratorNext ==
    \E o \in Orchestrators, d \in DepositIds, h \in IntentHashes :
        \/ \E amount \in Amounts : LockFunds(o, d, h, amount)
        \/ UnlockFunds(o, d, h)
        \/ \E amount \in Amounts : UnlockAndTransferFunds(o, d, h, amount)

GuardianNext ==
    \E a \in Accounts, d \in DepositIds, h \in IntentHashes, time \in 1 .. MaxTime :
        ExtendIntentExpiry(a, d, h, time)

OwnerNext ==
    \/ \E o \in Orchestrators : SetOrchestrator(o)
    \/ \E threshold \in DustThresholds : SetDustThreshold(threshold)
    \/ \E cap \in IntentCaps : SetMaxIntentsPerDeposit(cap)
    \/ \E period \in ExpirationPeriods : SetIntentExpirationPeriod(period)
    \/ PauseEscrow
    \/ UnpauseEscrow

Next == ManageNext \/ ReclaimNext \/ OrchestratorNext \/ GuardianNext \/ OwnerNext \/ Tick

Spec == Init /\ [][Next]_vars

-----------------------------------------------------------------------------
\* Every variable holds a value of the Solidity type it stands for.
TypeOK ==
    /\ now \in 1 .. MaxTime
    /\ depositCounter \in 0 .. MaxDeposits
    /\ deposits \in [DepositIds -> Deposit]
    /\ accountDeposits \in [Accounts -> SUBSET DepositIds]
    /\ depositIntentHashes \in [DepositIds -> SUBSET IntentHashes]
    /\ depositIntents \in [DepositIds -> [IntentHashes -> Intent]]
    /\ tokenBalance \in [Tokens -> Nat]
    /\ orchestrator \in Orchestrators
    /\ dustThreshold \in DustThresholds
    /\ maxIntentsPerDeposit \in IntentCaps
    /\ intentExpirationPeriod \in ExpirationPeriods
    /\ paused \in BOOLEAN

\* What the escrow holds for a deposit: liquidity on offer and under lock.
Value(d) == deposits[d].remainingDeposits + deposits[d].outstandingIntentAmount

\* The part of a token's balance that backs each deposit.
Backing(t) ==
    [d \in DepositIds |-> IF deposits[d].token = t THEN Value(d) ELSE 0]

\* The escrow owns exactly what its deposits add up to, token by token: no
\* operation pays out or sweeps funds that back another deposit, and none
\* strands tokens outside every deposit.
BooksBalance ==
    \A t \in Tokens : tokenBalance[t] = SumFunctionOnSet(Backing(t), DepositIds)

\* The array of hashes, the mapping of locks and the running total kept beside
\* them (lockFunds, unlockFunds, unlockAndTransferFunds and every reclaim write
\* all three) never drift apart.
OutstandingMatchesLocks ==
    \A d \in DepositIds :
        /\ depositIntentHashes[d] = {h \in IntentHashes : Locked(d, h)}
        /\ deposits[d].outstandingIntentAmount = LockedAmount(d, IntentHashes)

\* A deposit is deleted with nothing left in it: no lock survives it, and its
\* depositor's list holds exactly the deposits that are still open.
ClosedDepositsHoldNothing ==
    /\ \A d \in DepositIds :
          ~Exists(d) => deposits[d] = NoDeposit /\ depositIntentHashes[d] = {}
    /\ \A a \in Accounts :
          accountDeposits[a] = {d \in DepositIds : deposits[d].depositor = a}

\* withdrawDeposit never reverts for the depositor of an open deposit, whatever
\* locks, dust, caps or pause are in place: no failed subtraction, missing array
\* element or short balance can trap the funds.
NoTrappedFunds ==
    \A d \in DepositIds :
        Exists(d) => ENABLED WithdrawDeposit(deposits[d].depositor, d)

\* A lock that has not expired is a promise to the taker: only the orchestrator
\* ends it.  The depositor, the guardian, the owner, anyone pruning and locks
\* placed later leave its amount alone and never bring its expiry forward.
UnexpiredLocksAreSafe ==
    [][\A d \in DepositIds, h \in IntentHashes :
        Locked(d, h) /\ depositIntents[d][h].expiryTime >= now =>
            \/ /\ depositIntents'[d][h].amount = depositIntents[d][h].amount
               /\ depositIntents'[d][h].timestamp = depositIntents[d][h].timestamp
               /\ depositIntents'[d][h].expiryTime >= depositIntents[d][h].expiryTime
            \/ UnlockFunds(orchestrator, d, h)
            \/ \E amount \in Amounts :
                  UnlockAndTransferFunds(orchestrator, d, h, amount)]_vars

\* lockFunds may expect to succeed: the deposit's free and expired liquidity
\* covers amount and fewer than maxIntentsPerDeposit locks are still alive.
HasRoom(d, h, amount) ==
    /\ Exists(d) /\ deposits[d].acceptingIntents
    /\ amount \in deposits[d].min .. deposits[d].max
    /\ ~Locked(d, h)
    /\ Reclaimed(d, ExpiredIntents(d)).remainingDeposits >= amount
    /\ Cardinality(depositIntentHashes[d] \ ExpiredIntents(d)) < maxIntentsPerDeposit
    /\ now <= LockDeadline

\* Locks that have expired do not stand in the way of a new one, as the comment
\* of lockFunds at line 586 ("after expiring intents and adding the new intent")
\* says.
ExpiredLocksNeverBlock ==
    \A d \in DepositIds, h \in IntentHashes, amount \in Amounts :
        HasRoom(d, h, amount) => ENABLED LockFunds(orchestrator, d, h, amount)

\* They do not where the owner has left the cap above the locks there are: the
\* equality by which a full array is recognised is then as good as an inequality.
ExpiredLocksMakeRoom ==
    \A d \in DepositIds, h \in IntentHashes, amount \in Amounts :
        /\ HasRoom(d, h, amount)
        /\ Cardinality(depositIntentHashes[d]) <= maxIntentsPerDeposit
        => ENABLED LockFunds(orchestrator, d, h, amount)

-----------------------------------------------------------------------------
\* No lock lasts forever: however often the guardian calls extendIntentExpiry
\* and the owner changes the expiration period, each lock ends or expires.
LocksEventuallyExpire ==
    \A d \in DepositIds, h \in IntentHashes :
        Locked(d, h) ~>
            (~Locked(d, h) \/ depositIntents[d][h].expiryTime < now)

\* Nothing keeps a deposit open against its depositor forever: one that is
\* never put back to accepting intents and not retained on empty is in the end
\* withdrawn whole and closed, whatever was locked in it.
WithdrawalCompletes ==
    \A d \in DepositIds :
        []<>(~Exists(d) \/ deposits[d].acceptingIntents \/ deposits[d].retainOnEmpty)
=============================================================================
