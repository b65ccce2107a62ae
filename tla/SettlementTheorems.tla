-------------------------- MODULE SettlementTheorems --------------------------
(* What TLAPS proves of Settlement: the arithmetic of the fees, that settling    *)
(* by steps is still settling by Protocol's transactions, and what stays with an *)
(* orchestrator and what goes to a taker, whatever hooks do in the middle.        *)
EXTENDS Settlement, ProtocolTheorems, TLAPS

\* Multiplying is monotonic on naturals.
LEMMA TimesMonotonic ==
    ASSUME NEW a \in Nat, NEW x \in Nat, NEW y \in Nat, x <= y
    PROVE  a * x <= a * y
<1> DEFINE z == y - x
<1>1. z \in Nat /\ y = x + z
  OBVIOUS
<1> HIDE DEF z
<1>2. a * (x + z) = a * x + a * z
  BY <1>1
<1>3. a * z >= 0 /\ a * x \in Nat /\ a * z \in Nat
  BY <1>1
<1> QED
  BY <1>1, <1>2, <1>3

\* A fee is rounded down, so it takes at most its share.
LEMMA FeeAtMostShare ==
    ASSUME NEW amount \in Nat, NEW fee \in Nat
    PROVE  /\ Fee(amount, fee) \in Nat
           /\ Fee(amount, fee) * PreciseUnit <= amount * fee
<1> DEFINE x == amount * fee
           q == x \div PreciseUnit
<1>1. x \in Nat /\ PreciseUnit \in Nat /\ PreciseUnit > 0
  BY FeesAssumption
<1> HIDE DEF x
<1>2. q \in Int /\ q * PreciseUnit <= x /\ q >= 0
  BY <1>1
<1> QED
  BY <1>2 DEF Fee, x

\* Whatever the owner set the protocol fee to and the taker agreed with a
\* referrer, _calculateAndTransferFees leaves the subtraction that follows it
\* with a natural number, so no settlement reverts for its fees, and the taker
\* with at least the amount less the two largest shares.
THEOREM FeesLeaveTheRest ==
    ASSUME NEW release \in Nat, NEW fee \in 0 .. MaxProtocolFee,
           NEW referrerFee \in ReferrerFees
    PROVE  LET net == NetAmount(release, fee, referrerFee)
           IN  /\ net \in Nat
               /\ net * PreciseUnit >=
                    release * (PreciseUnit - MaxProtocolFee - MaxReferrerFee)
<1> DEFINE f == Fee(release, fee)
           g == Fee(release, referrerFee)
           net == NetAmount(release, fee, referrerFee)
           most == MaxProtocolFee + MaxReferrerFee
<1>1. /\ fee \in Nat /\ referrerFee \in Nat
      /\ fee + referrerFee \in Nat /\ fee + referrerFee <= most
      /\ most \in Nat /\ PreciseUnit \in Nat /\ PreciseUnit > 0
      /\ most <= PreciseUnit
  BY FeesAssumption DEF ReferrerFees
<1>2. /\ f \in Nat /\ f * PreciseUnit <= release * fee
      /\ g \in Nat /\ g * PreciseUnit <= release * referrerFee
  BY <1>1, FeeAtMostShare
<1> HIDE DEF f, g
<1>3. (f + g) * PreciseUnit <= release * (fee + referrerFee)
  BY <1>1, <1>2
<1>4. release * (fee + referrerFee) <= release * most
  BY <1>1, TimesMonotonic
<1>5. release * most <= release * PreciseUnit
  BY <1>1, TimesMonotonic
<1>6. (f + g) * PreciseUnit <= release * most
  <2>1. /\ (f + g) * PreciseUnit \in Int
        /\ release * (fee + referrerFee) \in Int /\ release * most \in Int
    BY <1>1, <1>2
  <2> QED
    BY <1>3, <1>4, <2>1
<1>7. f + g <= release
  <2> SUFFICES ASSUME release + 1 <= f + g
               PROVE  FALSE
    BY <1>2
  <2>1. PreciseUnit * (release + 1) <= PreciseUnit * (f + g)
    BY <1>1, <1>2, TimesMonotonic
  <2>2. PreciseUnit * (release + 1) = release * PreciseUnit + PreciseUnit
    BY <1>1
  <2>3. PreciseUnit * (f + g) = (f + g) * PreciseUnit
    BY <1>1, <1>2
  <2>4. /\ release * PreciseUnit \in Int /\ (f + g) * PreciseUnit \in Int
        /\ release * most \in Int
    BY <1>1, <1>2
  <2> HIDE DEF most
  <2> QED
    BY <1>1, <1>5, <1>6, <2>1, <2>2, <2>3, <2>4
<1>8. net = release - (f + g) /\ net \in Nat
  BY <1>2, <1>7 DEF NetAmount, f, g
<1>9. net * PreciseUnit = release * PreciseUnit - (f + g) * PreciseUnit
  BY <1>1, <1>2, <1>8
<1>10. release * (PreciseUnit - MaxProtocolFee - MaxReferrerFee)
        = release * PreciseUnit - release * most
  BY FeesAssumption, <1>1
<1>11. /\ net * PreciseUnit \in Int /\ release * PreciseUnit \in Int
       /\ (f + g) * PreciseUnit \in Int /\ release * most \in Int
  BY <1>1, <1>2, <1>8
<1>12. net * PreciseUnit >=
         release * (PreciseUnit - MaxProtocolFee - MaxReferrerFee)
  <2> HIDE DEF most, net
  <2> QED
    BY <1>6, <1>9, <1>10, <1>11
<1> QED
  BY <1>8, <1>12

-----------------------------------------------------------------------------
(* A fulfillment in two steps is Protocol's in the first and none in the second. *)

LEMMA StepsAreProtocolSteps ==
    [SettlementNext]_settlementVars => [ProtocolNext]_protocolVars
<1> SUFFICES ASSUME [SettlementNext]_settlementVars PROVE [ProtocolNext]_protocolVars
  OBVIOUS
<1>1. ThisEscrow \in Escrows
  BY DEF Escrows
<1>2. CASE Settle
  <2>1. IntentNext
    BY <1>2 DEF Settle, FulfillDirectly, CallHook, ReleaseDirectly, IntentNext
  <2> QED
    BY <2>1 DEF ProtocolNext
<1>3. CASE Unguarded(EscrowNext \/ IntentCalls)
  <2>1. EscrowNext \/ IntentNext
    BY <1>1, <1>3 DEF Unguarded, IntentCalls, IntentNext
  <2> QED
    BY <2>1 DEF ProtocolNext
<1>4. CASE Unguarded(Idle /\ (GovernanceNext \/ Pass))
  BY <1>4 DEF Unguarded, ProtocolNext
<1>5. CASE \/ HookReturns
           \/ \E amount \in Amounts : Pull(amount)
           \/ \E o \in Orchestrators, t \in Tokens, amount \in Amounts : Donate(o, t, amount)
           \/ \E o \in Orchestrators, fee \in 0 .. PreciseUnit : SetProtocolFee(o, fee)
           \/ UNCHANGED settlementVars
  BY <1>5 DEF HookReturns, Pull, Donate, SetProtocolFee, settlementVars
<1> QED
  BY <1>2, <1>3, <1>4, <1>5 DEF SettlementNext

\* Fees and re-entrant hooks let the contracts do nothing that Protocol, whose
\* fulfillIntent is one step, does not do: all that is proved of Protocol, the
\* life of an intent and the books among it, holds while hooks run.
THEOREM SettlementImplementsProtocol == SettlementSpec => ProtocolSpec
<1>1. SettlementInit => ProtocolInit
  BY DEF SettlementInit
<1> QED
  BY <1>1, StepsAreProtocolSteps, PTL DEF SettlementSpec, ProtocolSpec

\* The two abstract specifications hold through settlement, hook and fees
\* included: a hook that deposits, signals, cancels or withdraws while it runs
\* finds a custodian, and makes no intent live, or be paid, twice.
THEOREM SettlementKeepsPromises == SettlementSpec => ImplementsCustody /\ ImplementsLifecycle
BY SettlementImplementsProtocol, ProtocolImplementsEscrow, EscrowKeepsCustody,
   IntentsLiveOnce, PTL

LEMMA LifeWhileSettling == SettlementSpec => [](BooksInv /\ PaidInv)
BY SettlementImplementsProtocol, LifeInvHolds, PTL

-----------------------------------------------------------------------------
(* What one fulfillment does to the records around it.                          *)

LEMMA FulfillFacts ==
    ASSUME BooksInv, PaidInv, PaidInv', NEW o \in Orchestrators, NEW h \in IntentHashes,
           NEW att \in Pay!Attestations, Fulfill(o, h, att)
    PROVE  /\ Recorded(h) /\ payouts[h] = 0
           /\ TokenOf(h) \in Tokens
           /\ Pay!ReleaseAmount(att) \in Nat \ {0}
           /\ payouts' = [payouts EXCEPT ![h] = Pay!ReleaseAmount(att)]
<1> DEFINE d == intents[h].depositId
           release == Pay!ReleaseAmount(att)
<1>1. /\ Recorded(h)
      /\ At(intents[h].escrow, UnlockAndTransferFunds(o, d, h, release))
      /\ payouts' = [payouts EXCEPT ![h] = @ + release]
  BY DEF Fulfill
<1>2. intents[h].escrow = ThisEscrow /\ d \in DepositIds
  BY <1>1, RecordedParts, OneEscrow DEF BooksInv, Escrows
<1>3. Exists(d) /\ release # 0
  BY <1>1, <1>2, Zenon DEF At, UnlockAndTransferFunds
<1>4. TokenOf(h) \in Tokens
  BY <1>2, <1>3 DEF BooksInv, LedgerInv, RecordSound, TokenOf
<1>5. release \in Nat
  BY ReleasesAnAmount, NumbersAssumption
<1>6. payouts[h] = 0 /\ payouts \in [IntentHashes -> Nat]
  BY <1>1 DEF PaidInv
<1>7. payouts' = [payouts EXCEPT ![h] = release]
  <2> HIDE DEF release
  <2> QED
    BY <1>1, <1>5, <1>6
<1> QED
  BY <1>1, <1>3, <1>4, <1>5, <1>6, <1>7

\* The payer's release needs no verifier.
LEMMA ReleaseFacts ==
    ASSUME BooksInv, PaidInv, NEW o \in Orchestrators, NEW a \in Accounts,
           NEW h \in IntentHashes, Release(o, a, h)
    PROVE  /\ Recorded(h) /\ payouts[h] = 0
           /\ intents[h].amount \in Nat \ {0}
           /\ payouts' = [payouts EXCEPT ![h] = intents[h].amount]
<1> DEFINE amount == intents[h].amount
<1>1. /\ Recorded(h)
      /\ At(intents[h].escrow, UnlockAndTransferFunds(o, intents[h].depositId, h, amount))
      /\ payouts' = [payouts EXCEPT ![h] = @ + amount]
  BY DEF Release, Orch!ReleaseFundsToPayer, Orch!Recorded, Recorded
<1>2. intents[h].escrow = ThisEscrow /\ amount \in Nat
  BY <1>1, RecordedParts, OneEscrow, NumbersAssumption DEF BooksInv, Escrows
<1>3. amount # 0
  BY <1>1, <1>2, Zenon DEF At, UnlockAndTransferFunds
<1>4. payouts[h] = 0 /\ payouts \in [IntentHashes -> Nat]
  BY <1>1 DEF PaidInv
<1>5. payouts' = [payouts EXCEPT ![h] = amount]
  <2> HIDE DEF amount
  <2> QED
    BY <1>1, <1>2, <1>4
<1> QED
  BY <1>1, <1>2, <1>3, <1>4, <1>5

\* No other transaction pays.
LEMMA OthersPayNothing ==
    ASSUME EscrowNext \/ IntentCalls \/ GovernanceNext \/ Pass
    PROVE  UNCHANGED payouts
BY DEF EscrowNext, Manage, Remove, Withdraw, PruneExpired, Extend, IntentCalls, Signal,
   Cancel, GovernanceNext, Pass, log

-----------------------------------------------------------------------------
(* An orchestrator is a pipe.                                                   *)

\* At every moment an orchestrator holds what strangers sent it and what the
\* hook may still pull, and only a running hook may.  Since the call of the hook
\* donations can only have grown.
PurseInv ==
    /\ tokenHeld \in [Orchestrators -> [Tokens -> Nat]]
    /\ allowance \in [Orchestrators -> [Tokens -> Nat]]
    /\ donated \in [Orchestrators -> [Tokens -> Nat]]
    /\ \A o \in Orchestrators, t \in Tokens :
          /\ tokenHeld[o][t] = donated[o][t] + allowance[o][t]
          /\ allowance[o][t] # 0 =>
                ~Idle /\ settling.orchestrator = o /\ settling.token = t
    /\ ~Idle => /\ settling.orchestrator \in Orchestrators /\ settling.token \in Tokens
                /\ settling.net \in Nat /\ settling.preBalance \in Nat
                /\ settling.preBalance - settling.net
                        <= donated[settling.orchestrator][settling.token]

LEMMA PurseUntouched ==
    ASSUME PurseInv, UNCHANGED <<tokenHeld, allowance, donated, settling>>
    PROVE  PurseInv'
BY DEF PurseInv, Idle

\* The owner sets no larger fee, for any orchestrator.
FeesInv == protocolFee \in [Orchestrators -> 0 .. MaxProtocolFee]

LEMMA FeesNext == FeesInv /\ [SettlementNext]_settlementVars => FeesInv'
<1> SUFFICES ASSUME FeesInv, [SettlementNext]_settlementVars PROVE FeesInv'
  OBVIOUS
<1>1. ASSUME NEW o \in Orchestrators, NEW fee \in 0 .. PreciseUnit, SetProtocolFee(o, fee)
      PROVE  FeesInv'
  BY <1>1, FeesAssumption DEF SetProtocolFee, FeesInv
<1>2. CASE UNCHANGED protocolFee
  BY <1>2 DEF FeesInv
<1>3. CASE Settle
  BY <1>2, <1>3 DEF Settle, FulfillDirectly, CallHook, ReleaseDirectly
<1>4. CASE \/ HookReturns
           \/ \E amount \in Amounts : Pull(amount)
           \/ \E o \in Orchestrators, t \in Tokens, amount \in Amounts : Donate(o, t, amount)
           \/ Unguarded(EscrowNext \/ IntentCalls)
           \/ Unguarded(Idle /\ (GovernanceNext \/ Pass))
           \/ UNCHANGED settlementVars
  BY <1>2, <1>4 DEF HookReturns, Pull, Donate, Unguarded, settlementVars
<1>5. CASE \E o \in Orchestrators, fee \in 0 .. PreciseUnit : SetProtocolFee(o, fee)
  BY <1>1, <1>5
<1> QED
  BY <1>2, <1>3, <1>4, <1>5 DEF SettlementNext

\* A settlement under way is not none.
LEMMA CallIsNotIdle ==
    ASSUME NEW h, NEW o, NEW t, NEW pre, NEW net
    PROVE  [intent |-> h, orchestrator |-> o, token |-> t, preBalance |-> pre, net |-> net]
                # NoSettlement
<1> DEFINE call == [intent |-> h, orchestrator |-> o, token |-> t,
                    preBalance |-> pre, net |-> net]
<1>1. "net" \in DOMAIN call /\ "net" \notin DOMAIN NoSettlement
  BY DEF NoSettlement
<1> QED
  BY <1>1

\* What the taker is left with is a natural number.
LEMMA NetIsNatural ==
    ASSUME FeesInv, NEW o \in Orchestrators, NEW release \in Nat,
           NEW referrerFee \in ReferrerFees
    PROVE  LET net == NetAmount(release, protocolFee[o], referrerFee)
           IN  /\ net \in Nat
               /\ net * PreciseUnit >=
                    release * (PreciseUnit - MaxProtocolFee - MaxReferrerFee)
BY FeesLeaveTheRest DEF FeesInv

LEMMA PurseCall ==
    ASSUME BooksInv, PaidInv, PaidInv', FeesInv, PurseInv, NEW o \in Orchestrators,
           NEW h \in IntentHashes, NEW att \in Pay!Attestations,
           NEW referrerFee \in ReferrerFees, CallHook(o, h, att, referrerFee)
    PROVE  PurseInv'
<1> DEFINE token == TokenOf(h)
           net == NetAmount(Pay!ReleaseAmount(att), protocolFee[o], referrerFee)
           call == [intent |-> h, orchestrator |-> o, token |-> token,
                    preBalance |-> tokenHeld[o][token] + net, net |-> net]
<1>1. /\ Idle /\ Fulfill(o, h, att)
      /\ tokenHeld' = [tokenHeld EXCEPT ![o][token] = @ + net]
      /\ allowance' = [allowance EXCEPT ![o][token] = net]
      /\ settling' = call
      /\ donated' = donated
  BY DEF CallHook
<1>2. call # NoSettlement
  BY CallIsNotIdle
<1>3. /\ call.intent = h /\ call.orchestrator = o /\ call.token = token
      /\ call.preBalance = tokenHeld[o][token] + net /\ call.net = net
  OBVIOUS
<1>4. token \in Tokens /\ net \in Nat
  BY <1>1, FulfillFacts, NetIsNatural
<1>5. PICK t \in Tokens : t = token
  BY <1>4
<1>6. PICK n \in Nat : n = net
  BY <1>4
<1> HIDE DEF token, net, call
<1>7. \A p \in Orchestrators, u \in Tokens : allowance[p][u] = 0
  BY <1>1 DEF PurseInv
<1>8. /\ tokenHeld' = [tokenHeld EXCEPT ![o][t] = @ + n]
      /\ allowance' = [allowance EXCEPT ![o][t] = n]
      /\ donated' = donated
  BY <1>1, <1>5, <1>6, Zenon
<1>9. /\ tokenHeld' \in [Orchestrators -> [Tokens -> Nat]]
      /\ allowance' \in [Orchestrators -> [Tokens -> Nat]]
      /\ donated' \in [Orchestrators -> [Tokens -> Nat]]
  BY <1>8 DEF PurseInv
<1>10. \A p \in Orchestrators, u \in Tokens :
         /\ tokenHeld'[p][u] = donated'[p][u] + allowance'[p][u]
         /\ allowance'[p][u] # 0 => p = o /\ u = t
  BY <1>1, <1>7, <1>8 DEF PurseInv
<1>11. /\ tokenHeld[o][t] \in Nat /\ tokenHeld[o][t] = donated[o][t]
  BY <1>7 DEF PurseInv
<1> QED
  BY <1>1, <1>2, <1>3, <1>5, <1>6, <1>9, <1>10, <1>11 DEF PurseInv, Idle

LEMMA PurseReturn ==
    ASSUME PurseInv, HookReturns
    PROVE  PurseInv' /\ UNCHANGED allowance
<1>1. PICK o \in Orchestrators, t \in Tokens :
        o = settling.orchestrator /\ t = settling.token
  BY DEF HookReturns, PurseInv
<1>2. /\ ~Idle
      /\ settling.preBalance - tokenHeld[o][t] = settling.net
      /\ allowance' = [allowance EXCEPT ![o][t] = 0]
      /\ settling' = NoSettlement
      /\ UNCHANGED <<tokenHeld, donated>>
  BY <1>1 DEF HookReturns, PulledExactly
<1>3. allowance[o][t] = 0
  <2>1. /\ settling.preBalance \in Nat /\ settling.net \in Nat
        /\ tokenHeld[o][t] \in Nat /\ donated[o][t] \in Nat /\ allowance[o][t] \in Nat
        /\ settling.preBalance - settling.net <= donated[o][t]
        /\ tokenHeld[o][t] = donated[o][t] + allowance[o][t]
    BY <1>1, <1>2 DEF PurseInv
  <2> QED
    BY <1>2, <2>1
<1>4. allowance' = allowance
  BY <1>2, <1>3 DEF PurseInv
<1>5. \A p \in Orchestrators, u \in Tokens : allowance[p][u] = 0
  BY <1>1, <1>3 DEF PurseInv
<1> QED
  BY <1>2, <1>4, <1>5 DEF PurseInv, Idle

LEMMA PursePull ==
    ASSUME PurseInv, NEW amount \in Amounts, Pull(amount)
    PROVE  PurseInv'
<1>1. PICK o \in Orchestrators, t \in Tokens :
        o = settling.orchestrator /\ t = settling.token
  BY DEF Pull, PurseInv
<1>2. /\ ~Idle /\ amount <= allowance[o][t] /\ amount <= tokenHeld[o][t]
      /\ tokenHeld' = [tokenHeld EXCEPT ![o][t] = @ - amount]
      /\ allowance' = [allowance EXCEPT ![o][t] = @ - amount]
      /\ UNCHANGED <<settling, donated>>
  BY <1>1 DEF Pull
<1>3. /\ amount \in Nat /\ allowance[o][t] \in Nat /\ tokenHeld[o][t] \in Nat
      /\ allowance[o][t] - amount \in Nat /\ tokenHeld[o][t] - amount \in Nat
  BY <1>2, NumbersAssumption DEF PurseInv
<1>4. /\ tokenHeld' \in [Orchestrators -> [Tokens -> Nat]]
      /\ allowance' \in [Orchestrators -> [Tokens -> Nat]]
  BY <1>2, <1>3 DEF PurseInv
<1>5. \A p \in Orchestrators, u \in Tokens :
        /\ tokenHeld'[p][u] = donated'[p][u] + allowance'[p][u]
        /\ allowance'[p][u] # 0 => p = o /\ u = t
  BY <1>1, <1>2, <1>3 DEF PurseInv
<1> QED
  BY <1>1, <1>2, <1>4, <1>5 DEF PurseInv, Idle

LEMMA PurseDonate ==
    ASSUME PurseInv, NEW o \in Orchestrators, NEW t \in Tokens, NEW amount \in Amounts,
           Donate(o, t, amount)
    PROVE  PurseInv'
<1>1. /\ tokenHeld' = [tokenHeld EXCEPT ![o][t] = @ + amount]
      /\ donated' = [donated EXCEPT ![o][t] = @ + amount]
      /\ UNCHANGED <<allowance, settling>>
  BY DEF Donate
<1>2. amount \in Nat
  BY NumbersAssumption
<1>3. /\ tokenHeld' \in [Orchestrators -> [Tokens -> Nat]]
      /\ donated' \in [Orchestrators -> [Tokens -> Nat]]
  BY <1>1, <1>2 DEF PurseInv
<1>4. \A p \in Orchestrators, u \in Tokens :
        /\ tokenHeld'[p][u] = donated'[p][u] + allowance'[p][u]
        /\ donated[p][u] <= donated'[p][u]
  BY <1>1, <1>2 DEF PurseInv
<1>5. ~Idle => settling.preBalance - settling.net
                    <= donated'[settling.orchestrator][settling.token]
  <2> SUFFICES ASSUME ~Idle
               PROVE  settling.preBalance - settling.net
                          <= donated'[settling.orchestrator][settling.token]
    OBVIOUS
  <2>1. PICK p \in Orchestrators, u \in Tokens :
          p = settling.orchestrator /\ u = settling.token
    BY DEF PurseInv
  <2>2. /\ settling.preBalance \in Nat /\ settling.net \in Nat
        /\ settling.preBalance - settling.net <= donated[p][u]
        /\ donated[p][u] \in Nat /\ donated'[p][u] \in Nat
    BY <1>3, <2>1 DEF PurseInv
  <2> QED
    BY <1>4, <2>1, <2>2
<1> QED
  BY <1>1, <1>3, <1>4, <1>5 DEF PurseInv, Idle

LEMMA PurseNext ==
    BooksInv /\ PaidInv /\ PaidInv' /\ FeesInv /\ PurseInv
        /\ [SettlementNext]_settlementVars => PurseInv'
<1> SUFFICES ASSUME BooksInv, PaidInv, PaidInv', FeesInv, PurseInv,
                    [SettlementNext]_settlementVars
             PROVE  PurseInv'
  OBVIOUS
<1>1. CASE Settle
  BY <1>1, PurseCall, PurseUntouched
  DEF Settle, FulfillDirectly, ReleaseDirectly, purse
<1>2. CASE \/ HookReturns
           \/ \E amount \in Amounts : Pull(amount)
           \/ \E o \in Orchestrators, t \in Tokens, amount \in Amounts : Donate(o, t, amount)
  BY <1>2, PurseReturn, PursePull, PurseDonate
<1>3. CASE \/ Unguarded(EscrowNext \/ IntentCalls)
           \/ Unguarded(Idle /\ (GovernanceNext \/ Pass))
           \/ \E o \in Orchestrators, fee \in 0 .. PreciseUnit : SetProtocolFee(o, fee)
           \/ UNCHANGED settlementVars
  BY <1>3, PurseUntouched DEF Unguarded, SetProtocolFee, settlementVars, purse
<1> QED
  BY <1>1, <1>2, <1>3 DEF SettlementNext

LEMMA PurseHolds == SettlementSpec => [](FeesInv /\ PurseInv)
<1>1. SettlementInit => FeesInv /\ PurseInv
  BY FeesAssumption DEF SettlementInit, FeesInv, PurseInv, Idle
<1> QED
  BY <1>1, FeesNext, PurseNext, LifeWhileSettling, PTL DEF SettlementSpec

\* Nothing sticks to an orchestrator, whatever hooks do with their allowance,
\* for any number of orchestrators and tokens: its check after the hook makes
\* the allowance it leaves behind zero before it sets it to zero.
THEOREM OrchestratorsArePipes == SettlementSpec => []NothingSticks
<1>1. PurseInv => NothingSticks
  <2> SUFFICES ASSUME PurseInv, NEW o \in Orchestrators, NEW t \in Tokens
               PROVE  /\ Idle => tokenHeld[o][t] = donated[o][t] /\ allowance[o][t] = 0
                      /\ tokenHeld[o][t] >= donated[o][t]
    BY DEF NothingSticks
  <2>1. donated[o][t] \in Nat /\ allowance[o][t] \in Nat
    BY DEF PurseInv
  <2> QED
    BY <2>1 DEF PurseInv
<1> QED
  BY <1>1, PurseHolds, PTL

-----------------------------------------------------------------------------
(* What a taker is left with.                                                   *)

\* At least what the two limits leave of a release.
Fair(net, release) ==
    net * PreciseUnit >= release * (PreciseUnit - MaxProtocolFee - MaxReferrerFee)

\* Each released intent has been settled fairly, or is in the hands of a hook
\* that will have passed on the fair net amount when it returns.
SharesInv ==
    /\ received \in [IntentHashes -> Nat]
    /\ \A h \in IntentHashes : payouts[h] = 0 => received[h] = 0
    /\ TakersKeepMost
    /\ ~Idle => /\ settling.intent \in IntentHashes
                /\ payouts[settling.intent] # 0
                /\ received[settling.intent] = 0
                /\ settling.net \in Nat
                /\ Fair(settling.net, payouts[settling.intent])

LEMMA SharesUntouched ==
    ASSUME SharesInv, UNCHANGED <<payouts, received, settling>>
    PROVE  SharesInv'
BY DEF SharesInv, TakersKeepMost, Idle, Fair

\* Settling h on the spot, also while the hook of another intent runs.
LEMMA SharesDirectly ==
    ASSUME SharesInv, PaidInv, NEW h \in IntentHashes, NEW net \in Nat,
           NEW release \in Nat \ {0}, Fair(net, release), payouts[h] = 0,
           payouts' = [payouts EXCEPT ![h] = release],
           received' = [received EXCEPT ![h] = @ + net], UNCHANGED settling
    PROVE  SharesInv'
<1>1. /\ received \in [IntentHashes -> Nat] /\ received[h] = 0
      /\ payouts \in [IntentHashes -> Nat]
  BY DEF SharesInv, PaidInv
<1>2. /\ received' \in [IntentHashes -> Nat]
      /\ received'[h] = net /\ payouts'[h] = release
      /\ \A g \in IntentHashes \ {h} : received'[g] = received[g] /\ payouts'[g] = payouts[g]
  BY <1>1
<1>3. Idle' <=> Idle
  BY DEF Idle
<1>4. ~Idle => settling.intent # h
  BY DEF SharesInv
<1>5. TakersKeepMost'
  <2> SUFFICES ASSUME NEW g \in IntentHashes,
                      payouts'[g] > 0 /\ (Idle' \/ settling'.intent # g)
               PROVE  Fair(received'[g], payouts'[g])
    BY DEF TakersKeepMost, Fair
  <2>1. CASE g = h
    BY <1>2, <2>1
  <2>2. CASE g # h
    <3>1. payouts[g] > 0 /\ (Idle \/ settling.intent # g)
      BY <1>2, <1>3, <2>2
    <3>2. Fair(received[g], payouts[g])
      BY <3>1 DEF SharesInv, TakersKeepMost, Fair
    <3> QED
      BY <1>2, <2>2, <3>2
  <2> QED
    BY <2>1, <2>2
<1>6. \A g \in IntentHashes : payouts'[g] = 0 => received'[g] = 0
  BY <1>2 DEF SharesInv
<1>7. ~Idle' => /\ settling'.intent \in IntentHashes
                /\ payouts'[settling'.intent] # 0
                /\ received'[settling'.intent] = 0
                /\ settling'.net \in Nat
                /\ Fair(settling'.net, payouts'[settling'.intent])
  BY <1>2, <1>3, <1>4 DEF SharesInv
<1> QED
  BY <1>2, <1>5, <1>6, <1>7 DEF SharesInv, Fair

LEMMA SharesCall ==
    ASSUME SharesInv, PaidInv, Idle, NEW h \in IntentHashes, NEW net \in Nat,
           NEW release \in Nat \ {0}, Fair(net, release), payouts[h] = 0,
           payouts' = [payouts EXCEPT ![h] = release], UNCHANGED received,
           settling' # NoSettlement, settling'.intent = h, settling'.net = net
    PROVE  SharesInv'
<1>1. /\ received[h] = 0 /\ payouts'[h] = release
      /\ \A g \in IntentHashes \ {h} : payouts'[g] = payouts[g]
  BY DEF SharesInv, PaidInv
<1>2. TakersKeepMost'
  <2> SUFFICES ASSUME NEW g \in IntentHashes,
                      payouts'[g] > 0 /\ (Idle' \/ settling'.intent # g)
               PROVE  Fair(received'[g], payouts'[g])
    BY DEF TakersKeepMost, Fair
  <2>1. g # h
    BY DEF Idle
  <2>2. Fair(received[g], payouts[g])
    BY <1>1, <2>1 DEF SharesInv, TakersKeepMost, Fair
  <2> QED
    BY <1>1, <2>1, <2>2
<1> QED
  BY <1>1, <1>2 DEF SharesInv, Idle, Fair

LEMMA SharesReturn ==
    ASSUME SharesInv, PaidInv, HookReturns
    PROVE  SharesInv'
<1>1. PICK h \in IntentHashes : h = settling.intent
  BY DEF HookReturns, SharesInv
<1>2. PICK net \in Nat : net = settling.net
  BY DEF HookReturns, SharesInv
<1>3. /\ ~Idle /\ Idle'
      /\ received' = [received EXCEPT ![h] = @ + net]
      /\ payouts' = payouts
  BY <1>1, <1>2 DEF HookReturns, Idle, protocolVars, log
<1>4. /\ received[h] = 0 /\ payouts[h] # 0 /\ Fair(net, payouts[h])
      /\ received \in [IntentHashes -> Nat]
  BY <1>1, <1>2, <1>3 DEF SharesInv
<1>5. /\ received' \in [IntentHashes -> Nat] /\ received'[h] = net
      /\ \A g \in IntentHashes \ {h} : received'[g] = received[g]
  BY <1>3, <1>4
<1>6. TakersKeepMost'
  <2> SUFFICES ASSUME NEW g \in IntentHashes, payouts[g] > 0
               PROVE  Fair(received'[g], payouts[g])
    BY <1>3 DEF TakersKeepMost, Fair
  <2>1. CASE g = h
    BY <1>4, <1>5, <2>1
  <2>2. CASE g # h
    <3>1. Fair(received[g], payouts[g])
      BY <1>1, <2>2 DEF SharesInv, TakersKeepMost, Fair
    <3> QED
      BY <1>5, <2>2, <3>1
  <2> QED
    BY <2>1, <2>2
<1> QED
  BY <1>3, <1>4, <1>5, <1>6 DEF SharesInv

LEMMA SharesNext ==
    BooksInv /\ PaidInv /\ PaidInv' /\ FeesInv /\ SharesInv
        /\ [SettlementNext]_settlementVars => SharesInv'
<1> SUFFICES ASSUME BooksInv, PaidInv, PaidInv', FeesInv, SharesInv,
                    [SettlementNext]_settlementVars
             PROVE  SharesInv'
  OBVIOUS
<1>1. ASSUME NEW o \in Orchestrators, NEW h \in IntentHashes,
             NEW referrerFee \in ReferrerFees, NEW att \in Pay!Attestations,
             FulfillDirectly(o, h, att, referrerFee)
      PROVE  SharesInv'
  <2> DEFINE release == Pay!ReleaseAmount(att)
             net == NetAmount(release, protocolFee[o], referrerFee)
  <2>1. /\ release \in Nat \ {0} /\ payouts[h] = 0
        /\ payouts' = [payouts EXCEPT ![h] = release]
    BY <1>1, FulfillFacts DEF FulfillDirectly
  <2>2. net \in Nat /\ Fair(net, release)
    BY <2>1, NetIsNatural DEF Fair
  <2>3. received' = [received EXCEPT ![h] = @ + net] /\ UNCHANGED settling
    BY <1>1 DEF FulfillDirectly
  <2> HIDE DEF release, net
  <2> QED
    BY <2>1, <2>2, <2>3, SharesDirectly
<1>2. ASSUME NEW o \in Orchestrators, NEW h \in IntentHashes,
             NEW referrerFee \in ReferrerFees, NEW a \in Accounts,
             ReleaseDirectly(o, a, h, referrerFee)
      PROVE  SharesInv'
  <2> DEFINE release == intents[h].amount
             net == NetAmount(release, protocolFee[o], referrerFee)
  <2>1. /\ release \in Nat \ {0} /\ payouts[h] = 0
        /\ payouts' = [payouts EXCEPT ![h] = release]
    BY <1>2, ReleaseFacts DEF ReleaseDirectly
  <2>2. net \in Nat /\ Fair(net, release)
    BY <2>1, NetIsNatural DEF Fair
  <2>3. received' = [received EXCEPT ![h] = @ + net] /\ UNCHANGED settling
    BY <1>2 DEF ReleaseDirectly
  <2> HIDE DEF release, net
  <2> QED
    BY <2>1, <2>2, <2>3, SharesDirectly
<1>3. ASSUME NEW o \in Orchestrators, NEW h \in IntentHashes,
             NEW referrerFee \in ReferrerFees, NEW att \in Pay!Attestations,
             CallHook(o, h, att, referrerFee)
      PROVE  SharesInv'
  <2> DEFINE token == TokenOf(h)
             release == Pay!ReleaseAmount(att)
             net == NetAmount(release, protocolFee[o], referrerFee)
             call == [intent |-> h, orchestrator |-> o, token |-> token,
                      preBalance |-> tokenHeld[o][token] + net, net |-> net]
  <2>1. /\ release \in Nat \ {0} /\ payouts[h] = 0
        /\ payouts' = [payouts EXCEPT ![h] = release]
    BY <1>3, FulfillFacts DEF CallHook
  <2>2. net \in Nat /\ Fair(net, release)
    BY <2>1, NetIsNatural DEF Fair
  <2>3. Idle /\ settling' = call /\ UNCHANGED received
    BY <1>3 DEF CallHook
  <2>4. call # NoSettlement /\ call.intent = h /\ call.net = net
    BY CallIsNotIdle
  <2> HIDE DEF release, net, call
  <2> QED
    BY <2>1, <2>2, <2>3, <2>4, SharesCall
<1>4. CASE Settle
  BY <1>1, <1>2, <1>3, <1>4 DEF Settle
<1>5. CASE Unguarded(EscrowNext \/ IntentCalls) \/ Unguarded(Idle /\ (GovernanceNext \/ Pass))
  BY <1>5, OthersPayNothing, SharesUntouched DEF Unguarded
<1>6. CASE \/ \E amount \in Amounts : Pull(amount)
           \/ \E o \in Orchestrators, t \in Tokens, amount \in Amounts : Donate(o, t, amount)
           \/ \E o \in Orchestrators, fee \in 0 .. PreciseUnit : SetProtocolFee(o, fee)
           \/ UNCHANGED settlementVars
  BY <1>6, SharesUntouched DEF Pull, Donate, SetProtocolFee, settlementVars, protocolVars, log
<1> QED
  BY <1>4, <1>5, <1>6, SharesReturn DEF SettlementNext

\* A taker receives at least what the two largest fees leave of the release,
\* however the owner moves the fee and whatever the hook of this or another
\* intent does, for every amount, unit and pair of limits.
THEOREM TakersAreNotShorted == SettlementSpec => []TakersKeepMost
<1>1. SettlementInit => SharesInv
  BY HashesAreIssued DEF SettlementInit, ProtocolInit, SharesInv, TakersKeepMost, Idle
<1>2. SharesInv => TakersKeepMost
  BY DEF SharesInv
<1> QED
  BY <1>1, <1>2, SharesNext, LifeWhileSettling, PurseHolds, PTL DEF SettlementSpec

-----------------------------------------------------------------------------
(* What a hook can see.                                                      *)

\* Between the call of a hook and its return, and at any other time, the books
\* of the escrow balance and each lock has its record; that each record has its
\* lock needs what NoRecordOutlivesItsLock needs, and no more.
THEOREM HooksAreNotMisled ==
    ASSUME PruneMayFail = FALSE
    PROVE  SettlementSpec /\ OneOrchestrator => []HooksSeeConsistentState
<1>1. BooksBalance /\ LocksHaveRecords /\ RecordsHaveLocks => HooksSeeConsistentState
  BY DEF HooksSeeConsistentState
<1>2. ProtocolSpec /\ OneOrchestrator => []RecordsHaveLocks
  BY NoRecordOutlivesItsLock
<1> QED
  BY <1>1, <1>2, SettlementImplementsProtocol, ProtocolIsSolvent, NoLockOutlivesItsRecord,
     PTL
=============================================================================
