------------------------------ MODULE Settlement ------------------------------
(* Protocol with the money that passes through an orchestrator when an intent  *)
(* is settled: the fees, and the post-intent hook, a contract that is called    *)
(* while fulfillIntent is still running and may call any contract back.  Here   *)
(* fulfillIntent is therefore two steps, with whatever the hook does between    *)
(* them.  If the checks after the hook fail the transaction is undone: such an  *)
(* execution ends before its last step, and the state it started from is        *)
(* explored without it.                                                         *)
(* As in Escrow, the Buggy... operators are mistakes no specification uses.     *)
EXTENDS Protocol

CONSTANTS
    PreciseUnit,        \* a fee of this much is the whole amount
    MaxProtocolFee, MaxReferrerFee,
    MaxHeld             \* bound: tokens of one kind an orchestrator holds

VARIABLES
    protocolFee,        \* orchestrator -> fee; 0 also while no recipient is set
    tokenHeld,          \* orchestrator -> token -> its balance
    allowance,          \* orchestrator -> token -> what the hook may still pull
    settling,           \* the fulfillIntent whose hook is running
    \* For the properties only:
    donated,            \* orchestrator -> token -> sent to it by strangers
    received            \* hash -> tokens released, net of fees

ASSUME FeesAssumption ==
    /\ PreciseUnit \in Nat \ {0}
    /\ MaxProtocolFee \in Nat /\ MaxReferrerFee \in Nat
    /\ MaxProtocolFee + MaxReferrerFee <= PreciseUnit

\* The token of an intent is its deposit's on the one escrow.
ASSUME OneEscrow == OtherEscrows = {}

purse == <<tokenHeld, allowance>>
settlementVars == <<protocolVars, protocolFee, purse, settling, donated, received>>

NoSettlement == [intent |-> "none"]
Idle == settling = NoSettlement

\* nonReentrant: fulfillIntent and releaseFundsToPayer
MayEnter(o) == ~Idle => settling.orchestrator # o

SettlementInit ==
    /\ ProtocolInit
    /\ protocolFee = [o \in Orchestrators |-> 0]
    /\ tokenHeld = [o \in Orchestrators |-> [t \in Tokens |-> 0]]
    /\ allowance = [o \in Orchestrators |-> [t \in Tokens |-> 0]]
    /\ settling = NoSettlement
    /\ donated = [o \in Orchestrators |-> [t \in Tokens |-> 0]]
    /\ received = [h \in IntentHashes |-> 0]

-----------------------------------------------------------------------------
Fee(amount, fee) == (amount * fee) \div PreciseUnit

\* releaseAmount less both fees; below 0 the code reverts
NetAmount(release, fee, referrerFee) ==
    release - (Fee(release, fee) + Fee(release, referrerFee))

TokenOf(h) == deposits[intents[h].depositId].token

\* fulfillIntent of an intent without a hook.  Everything the escrow sends goes
\* on to the fee recipients and intent.to, none of them the orchestrator.
FulfillDirectly(o, h, att, referrerFee) ==
    LET net == NetAmount(Pay!ReleaseAmount(att), protocolFee[o], referrerFee)
    IN  /\ MayEnter(o)
        /\ Fulfill(o, h, att)
        /\ net >= 0
        /\ received' = [received EXCEPT ![h] = @ + net]
        /\ UNCHANGED <<protocolFee, purse, settling, donated>>

ReleaseDirectly(o, caller, h, referrerFee) ==
    LET net == NetAmount(intents[h].amount, protocolFee[o], referrerFee)
    IN  /\ MayEnter(o)
        /\ Release(o, caller, h)
        /\ net >= 0
        /\ received' = [received EXCEPT ![h] = @ + net]
        /\ UNCHANGED <<protocolFee, purse, settling, donated>>

BuggyCallHook(o, h, att, referrerFee) ==    \* unlocks, and prunes after the hook
    LET token == TokenOf(h)
        release == Pay!ReleaseAmount(att)
        net == NetAmount(release, protocolFee[o], referrerFee)
    IN  /\ Idle
        /\ Recorded(h)
        /\ Pay!VerifyPayment(o, verifierOf[intents[h].paymentMethod], h, intents[h], att)
        /\ UnlockAndTransferFunds(o, intents[h].depositId, h, release)
        /\ UNCHANGED <<orchVars, log>>
        /\ tokenHeld' = [tokenHeld EXCEPT ![o][token] = @ + net]
        /\ allowance' = [allowance EXCEPT ![o][token] = net]
        /\ settling' = [intent |-> h, orchestrator |-> o, token |-> token,
                        preBalance |-> tokenHeld[o][token] + net, net |-> net]
        /\ UNCHANGED <<protocolFee, donated, received>>

\* fulfillIntent up to the call of the hook.  The token is read before the
\* escrow may delete the deposit.
CallHook(o, h, att, referrerFee) ==
    LET token == TokenOf(h)
        net == NetAmount(Pay!ReleaseAmount(att), protocolFee[o], referrerFee)
    IN  /\ Idle
        /\ Fulfill(o, h, att)
        /\ net >= 0
        /\ tokenHeld' = [tokenHeld EXCEPT ![o][token] = @ + net]
        /\ allowance' = [allowance EXCEPT ![o][token] = net]
        /\ settling' = [intent |-> h, orchestrator |-> o, token |-> token,
                        preBalance |-> tokenHeld[o][token] + net, net |-> net]
        /\ UNCHANGED <<protocolFee, donated, received>>

BuggyPulledExactly(postBalance) ==      \* lets the hook leave tokens behind
    postBalance <= settling.preBalance

PulledExactly(postBalance) ==
    /\ postBalance <= settling.preBalance
    /\ settling.preBalance - postBalance = settling.net

\* fulfillIntent from the return of the hook.
HookReturns ==
    /\ ~Idle
    /\ PulledExactly(tokenHeld[settling.orchestrator][settling.token])
    /\ allowance' = [allowance EXCEPT ![settling.orchestrator][settling.token] = 0]
    /\ received' = [received EXCEPT ![settling.intent] = @ + settling.net]
    /\ settling' = NoSettlement
    /\ UNCHANGED <<protocolVars, protocolFee, tokenHeld, donated>>

-----------------------------------------------------------------------------
(* What the hook may do; the last three also anyone, at any other time.      *)

Pull(amount) ==
    /\ ~Idle
    /\ LET o == settling.orchestrator
           t == settling.token
       IN  /\ amount <= allowance[o][t]
           /\ amount <= tokenHeld[o][t]
           /\ tokenHeld' = [tokenHeld EXCEPT ![o][t] = @ - amount]
           /\ allowance' = [allowance EXCEPT ![o][t] = @ - amount]
    /\ UNCHANGED <<protocolVars, protocolFee, settling, donated, received>>

\* An ordinary transfer of the token to the orchestrator.
Donate(o, t, amount) ==
    /\ tokenHeld[o][t] + amount <= MaxHeld
    /\ tokenHeld' = [tokenHeld EXCEPT ![o][t] = @ + amount]
    /\ donated' = [donated EXCEPT ![o][t] = @ + amount]
    /\ UNCHANGED <<protocolVars, protocolFee, allowance, settling, received>>

\* Functions without the guard against re-entrance.
Unguarded(step) ==
    /\ step
    /\ UNCHANGED <<protocolFee, purse, settling, donated, received>>

IntentCalls ==
    \E o \in Orchestrators :
        \/ \E a \in Accounts, d \in DepositIds, amount \in Amounts, m \in PaymentMethods :
                Signal(o, a, ThisEscrow, d, amount, m)
        \/ \E a \in Accounts, h \in IntentHashes : Cancel(o, a, h)

-----------------------------------------------------------------------------
BuggySetProtocolFee(o, fee) ==      \* no upper bound
    /\ Idle
    /\ protocolFee' = [protocolFee EXCEPT ![o] = fee]
    /\ UNCHANGED <<protocolVars, purse, settling, donated, received>>

SetProtocolFee(o, fee) ==
    /\ Idle
    /\ fee <= MaxProtocolFee
    /\ protocolFee' = [protocolFee EXCEPT ![o] = fee]
    /\ UNCHANGED <<protocolVars, purse, settling, donated, received>>

\* The referrer's fee is fixed and checked when the intent is signaled, and
\* used here only; an intent is settled once.
ReferrerFees == 0 .. MaxReferrerFee

Settle ==
    \E o \in Orchestrators, h \in IntentHashes, referrerFee \in ReferrerFees :
        \/ \E att \in Pay!Attestations :
                \/ FulfillDirectly(o, h, att, referrerFee)
                \/ CallHook(o, h, att, referrerFee)
        \/ \E a \in Accounts : ReleaseDirectly(o, a, h, referrerFee)

SettlementNext ==
    \/ Settle
    \/ HookReturns
    \/ \E amount \in Amounts : Pull(amount)
    \/ \E o \in Orchestrators, t \in Tokens, amount \in Amounts : Donate(o, t, amount)
    \/ Unguarded(EscrowNext \/ IntentCalls)
    \/ Unguarded(Idle /\ (GovernanceNext \/ Pass))
    \/ \E o \in Orchestrators, fee \in 0 .. PreciseUnit : SetProtocolFee(o, fee)

SettlementSpec == SettlementInit /\ [][SettlementNext]_settlementVars

-----------------------------------------------------------------------------
\* An orchestrator is a pipe: between transactions it holds what strangers sent
\* it and nothing else, so no settlement strands tokens in it ("to prevent
\* stranded funds", Orchestrator.sol:543), and no hook, however it calls back,
\* gets more than its own payout or keeps the right to pull ("prevent residual
\* balance drainage", 549).
NothingSticks ==
    \A o \in Orchestrators, t \in Tokens :
        /\ Idle => tokenHeld[o][t] = donated[o][t] /\ allowance[o][t] = 0
        /\ tokenHeld[o][t] >= donated[o][t]

\* A taker receives what the intent released less at most the two largest fees,
\* and is never settled short: whatever the owner sets the fee to between
\* signaling and settlement, by hook or directly, with either way of releasing.
TakersKeepMost ==
    \A h \in IntentHashes :
        payouts[h] > 0 /\ (Idle \/ settling.intent # h) =>
            received[h] * PreciseUnit >=
                payouts[h] * (PreciseUnit - MaxProtocolFee - MaxReferrerFee)

\* While a hook runs the contracts it can ask agree with each other: the books
\* of the escrow balance, and every lock has its record and every record its
\* lock, the intent being settled included.
HooksSeeConsistentState ==
    /\ BooksBalance
    /\ LocksHaveRecords
    /\ RecordsHaveLocks
=============================================================================
