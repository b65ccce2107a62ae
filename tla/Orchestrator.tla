---------------------------- MODULE Orchestrator ----------------------------
(* The intent records of contracts/Orchestrator.sol, for every deployed      *)
(* orchestrator at once: a hash names the orchestrator that issued it.  The  *)
(* operators are the effects of one contract's functions on its own storage; *)
(* the calls they make to the escrow and to the payment verifier are         *)
(* conjoined in Protocol, which composes them into transactions.             *)
(* As in Escrow, the Buggy... operators are mistakes no specification uses.  *)
EXTENDS Integers, FiniteSets

CONSTANTS
    Accounts,       \* externally owned accounts
    NoAccount,      \* address(0)
    Orchestrators,  \* deployed orchestrator contracts
    Escrows,        \* contracts an intent may name as its escrow
    DepositIds,
    PaymentMethods,
    NoMethod,       \* bytes32(0)
    Relayers,       \* accounts whitelisted in the relayer registry
    MaxIntents      \* bound: intents each orchestrator ever signals

VARIABLES
    intents,            \* hash -> Intent struct
    accountIntents,     \* orchestrator -> account -> hashes (array as a set)
    intentMinAtSignal,  \* hash -> the deposit's minimum when it was signaled
    intentCounter,      \* orchestrator -> intents signaled
    allowMultipleIntents,
    acceptedEscrows,    \* orchestrator -> what its escrow registry lets pass
    orchestratorPaused

settings == <<allowMultipleIntents, acceptedEscrows, orchestratorPaused>>
records == <<intents, accountIntents, intentMinAtSignal>>
vars == <<records, intentCounter, settings>>

\* _calculateIntentHash: keccak256(address(this), intentCounter) is injective.
IssuedHashes == Orchestrators \X (0 .. MaxIntents - 1)
NextHash(o) == <<o, intentCounter[o]>>

\* The fields that decide who may end the intent and on what terms; where a
\* payout goes (to, referrer, postIntentHook) and the fiat side of the intent
\* do not change hands here.
Intent == [owner: Accounts, escrow: Escrows, depositId: DepositIds, amount: Nat,
           paymentMethod: PaymentMethods]
NoIntent == [owner |-> NoAccount, escrow |-> NoAccount, depositId |-> 0,
             amount |-> 0, paymentMethod |-> NoMethod]

Recorded(o, h) == h[1] = o /\ intents[h] # NoIntent

Init ==
    /\ intents = [h \in IssuedHashes |-> NoIntent]
    /\ accountIntents = [o \in Orchestrators |-> [a \in Accounts |-> {}]]
    /\ intentMinAtSignal = [h \in IssuedHashes |-> 0]
    /\ intentCounter = [o \in Orchestrators |-> 0]
    /\ allowMultipleIntents \in [Orchestrators -> BOOLEAN]
    /\ acceptedEscrows = [o \in Orchestrators |-> Escrows]
    /\ orchestratorPaused = [o \in Orchestrators |-> FALSE]

BuggyRemaining(o, a, hashes) == accountIntents[o][a]    \* keeps pruned hashes

\* What is left on o of account a's array once hashes are pruned.
Remaining(o, a, hashes) == accountIntents[o][a] \ hashes

BuggyPrune(o, hashes) ==    \* clears the owner and not the whole record
    /\ \A h \in hashes : h \in accountIntents[o][intents[h].owner]
    /\ accountIntents' = [accountIntents EXCEPT ![o] =
                            [a \in Accounts |-> Remaining(o, a, hashes)]]
    /\ intents' = [h \in IssuedHashes |->
                    IF h \in hashes THEN [intents[h] EXCEPT !.owner = NoAccount]
                    ELSE intents[h]]
    /\ UNCHANGED intentMinAtSignal

\* _pruneIntent for each of hashes, which o has recorded.
Prune(o, hashes) ==
    /\ \A h \in hashes : h \in accountIntents[o][intents[h].owner]
    /\ accountIntents' = [accountIntents EXCEPT ![o] =
                            [a \in Accounts |-> Remaining(o, a, hashes)]]
    /\ intents' = [h \in IssuedHashes |->
                    IF h \in hashes THEN NoIntent ELSE intents[h]]
    /\ intentMinAtSignal' = [h \in IssuedHashes |->
                    IF h \in hashes THEN 0 ELSE intentMinAtSignal[h]]

BuggyPrunable(o, escrow, hashes) ==     \* whoever asks
    {h \in hashes : Recorded(o, h)}

\* pruneIntents skips the hashes that o has no record of, and those whose
\* intent names another escrow than the caller.
Prunable(o, escrow, hashes) ==
    {h \in hashes : Recorded(o, h) /\ intents[h].escrow = escrow}

PruneIntents(o, escrow, hashes) ==
    /\ Prune(o, Prunable(o, escrow, hashes))
    /\ UNCHANGED <<intentCounter, settings>>

\* _validateSignalIntent's limit of one intent at a time.
MaySignal(o, a) ==
    a \in Relayers \/ allowMultipleIntents[o] \/ accountIntents[o][a] = {}

\* signalIntent records the new intent, and while it is still running the
\* escrow calls back to prune the hashes whose liquidity it reclaimed.
SignalIntent(o, owner, escrow, d, amount, method, minAmount, hashes) ==
    LET new == NextHash(o)
        pruned == Prunable(o, escrow, hashes)
    IN  /\ ~orchestratorPaused[o]
        /\ MaySignal(o, owner)
        /\ escrow \in acceptedEscrows[o]
        /\ intentCounter[o] < MaxIntents
        /\ \A h \in pruned : h \in accountIntents[o][intents[h].owner]
        /\ intents' = [h \in IssuedHashes |->
                IF h = new
                THEN [owner |-> owner, escrow |-> escrow, depositId |-> d,
                      amount |-> amount, paymentMethod |-> method]
                ELSE IF h \in pruned THEN NoIntent ELSE intents[h]]
        /\ accountIntents' = [accountIntents EXCEPT ![o] =
                [a \in Accounts |-> IF a = owner
                                    THEN Remaining(o, a, pruned) \cup {new}
                                    ELSE Remaining(o, a, pruned)]]
        /\ intentMinAtSignal' = [h \in IssuedHashes |->
                IF h = new THEN minAmount
                ELSE IF h \in pruned THEN 0 ELSE intentMinAtSignal[h]]
        /\ intentCounter' = [intentCounter EXCEPT ![o] = @ + 1]
        /\ UNCHANGED settings

CancelIntent(o, caller, h) ==
    /\ Recorded(o, h)
    /\ intents[h].owner = caller
    /\ Prune(o, {h})
    /\ UNCHANGED <<intentCounter, settings>>

BuggyMeetsMinimum(h, releaseAmount) ==  \* refuses exactly the minimum
    intentMinAtSignal[h] > 0 => releaseAmount > intentMinAtSignal[h]

BuggyMeetsNoMinimum(h, releaseAmount) == TRUE   \* releases any part

MeetsMinimum(h, releaseAmount) ==
    intentMinAtSignal[h] > 0 => releaseAmount >= intentMinAtSignal[h]

\* fulfillIntent, once the verifier has accepted a payment for releaseAmount.
FulfillIntent(o, h, releaseAmount) ==
    /\ ~orchestratorPaused[o]
    /\ Recorded(o, h)
    /\ MeetsMinimum(h, releaseAmount)
    /\ Prune(o, {h})
    /\ UNCHANGED <<intentCounter, settings>>

BuggyReleaseFundsToPayer(o, caller, h, depositor) ==    \* keeps the record
    /\ Recorded(o, h)
    /\ caller = depositor
    /\ UNCHANGED vars

\* releaseFundsToPayer; depositor is what escrow.getDeposit returns.
ReleaseFundsToPayer(o, caller, h, depositor) ==
    /\ Recorded(o, h)
    /\ caller = depositor
    /\ Prune(o, {h})
    /\ UNCHANGED <<intentCounter, settings>>

SetAllowMultipleIntents(o, allow) ==
    /\ allowMultipleIntents' = [allowMultipleIntents EXCEPT ![o] = allow]
    /\ UNCHANGED <<records, intentCounter, acceptedEscrows, orchestratorPaused>>

\* setEscrowRegistry, and the registry's addEscrow, removeEscrow and
\* setAcceptAllEscrows (Whitelist): whatever makes it accept others than before.
SetAcceptedEscrows(o, accepted) ==
    /\ acceptedEscrows' = [acceptedEscrows EXCEPT ![o] = accepted]
    /\ UNCHANGED <<records, intentCounter, allowMultipleIntents, orchestratorPaused>>

PauseOrchestrator(o) ==
    /\ ~orchestratorPaused[o]
    /\ orchestratorPaused' = [orchestratorPaused EXCEPT ![o] = TRUE]
    /\ UNCHANGED <<records, intentCounter, allowMultipleIntents, acceptedEscrows>>

UnpauseOrchestrator(o) ==
    /\ orchestratorPaused[o]
    /\ orchestratorPaused' = [orchestratorPaused EXCEPT ![o] = FALSE]
    /\ UNCHANGED <<records, intentCounter, allowMultipleIntents, acceptedEscrows>>

\* Every variable holds a value of its Solidity type.
TypeOK ==
    /\ intents \in [IssuedHashes -> Intent \cup {NoIntent}]
    /\ accountIntents \in [Orchestrators -> [Accounts -> SUBSET IssuedHashes]]
    /\ intentMinAtSignal \in [IssuedHashes -> Nat]
    /\ intentCounter \in [Orchestrators -> 0 .. MaxIntents]
    /\ allowMultipleIntents \in [Orchestrators -> BOOLEAN]
    /\ acceptedEscrows \in [Orchestrators -> SUBSET Escrows]
    /\ orchestratorPaused \in [Orchestrators -> BOOLEAN]
=============================================================================
