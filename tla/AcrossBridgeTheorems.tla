------------------------- MODULE AcrossBridgeTheorems -------------------------
(* What TLAPS proves of AcrossBridge for every value of its constants.         *)
EXTENDS AcrossBridge, TLAPS

Intent == [stage: {"open", "cancelled", "released", "bridged"},
           commitment: Commitments, inputToken: BOOLEAN]

Transfer == [status: {"pending", "filled", "refunded"},
             recipient: {c.recipient : c \in Commitments},
             outputToken: {c.outputToken : c \in Commitments},
             chain: {c.chain : c \in Commitments},
             input: Nat, output: Nat, deadline: Nat]

BridgeTypeOK ==
    /\ intents \in [Hashes -> Intent \cup {Unsignaled}]
    /\ now \in Nat /\ quoteBuffer \in Nat /\ fillBuffer \in Nat
    /\ transfers \in [Hashes -> Transfer \cup {NoTransfer}]
    /\ hookBalance \in Nat
    /\ donated \in Nat /\ refunded \in Nat /\ rescued \in Nat

BridgeInv == BridgeTypeOK /\ BridgedAsCommitted /\ HookKeepsOnlyRefunds

LEMMA InvInit == BridgeInit => BridgeInv
BY BridgeAssumption DEF BridgeInit, BridgeInv, BridgeTypeOK, BridgedAsCommitted,
   HookKeepsOnlyRefunds, Unsignaled, NoTransfer

\* Signaling records a commitment on a hash that has no transfer.
LEMMA InvSignal ==
    ASSUME BridgeInv, NEW h \in Hashes, NEW c \in Commitments, NEW t \in BOOLEAN,
           Signal(h, c, t)
    PROVE  BridgeInv'
<1> DEFINE new == [stage |-> "open", commitment |-> c, inputToken |-> t]
<1>1. new \in Intent /\ new.stage = "open"
  BY DEF Intent
<1>2. intents' = [intents EXCEPT ![h] = new]
  BY DEF Signal
<1> HIDE DEF new
<1>3. BridgeTypeOK'
  BY <1>1, <1>2 DEF Signal, BridgeInv, BridgeTypeOK, pool, totals
<1>4. BridgedAsCommitted'
  <2>1. transfers' = transfers /\ transfers[h].status = "none"
    BY DEF Signal, BridgeInv, BridgedAsCommitted, BridgeTypeOK
  <2>2. \A g \in Hashes : intents'[g] = IF g = h THEN new ELSE intents[g]
    BY <1>2 DEF BridgeInv, BridgeTypeOK
  <2> QED
    BY <1>1, <2>1, <2>2 DEF BridgeInv, BridgedAsCommitted
<1>5. HookKeepsOnlyRefunds'
  BY DEF Signal, BridgeInv, HookKeepsOnlyRefunds, totals
<1> QED
  BY <1>3, <1>4, <1>5 DEF BridgeInv

\* Moving an open intent to another stage keeps its commitment.
LEMMA EndEffect ==
    ASSUME BridgeTypeOK, NEW h \in Hashes, Open(h),
           NEW stage \in {"cancelled", "released", "bridged"}, End(h, stage)
    PROVE  /\ intents' \in [Hashes -> Intent \cup {Unsignaled}]
           /\ intents'[h].stage = stage
           /\ intents'[h].commitment = intents[h].commitment
           /\ \A g \in Hashes : g # h => intents'[g] = intents[g]
<1> DEFINE new == [intents[h] EXCEPT !.stage = stage]
<1>1. intents[h] \in Intent
  BY DEF Open, Unsignaled, BridgeTypeOK
<1>2. new \in Intent /\ new.stage = stage /\ new.commitment = intents[h].commitment
  BY <1>1 DEF Intent
<1>3. intents' = [intents EXCEPT ![h] = new]
  BY DEF End
<1> HIDE DEF new
<1> QED
  BY <1>2, <1>3 DEF BridgeTypeOK

LEMMA InvEnd ==
    ASSUME BridgeInv, NEW h \in Hashes, EndWithoutHook(h)
    PROVE  BridgeInv'
<1>1. PICK stage \in {"cancelled", "released"} : Open(h) /\ End(h, stage)
  BY DEF EndWithoutHook
<1>2. /\ intents' \in [Hashes -> Intent \cup {Unsignaled}]
      /\ intents'[h].stage = stage
      /\ \A g \in Hashes : g # h => intents'[g] = intents[g]
  BY <1>1, EndEffect DEF BridgeInv
<1>3. UNCHANGED <<now, quoteBuffer, fillBuffer, transfers, hookBalance, donated,
                  refunded, rescued>>
  BY DEF EndWithoutHook, pool, totals
<1>4. transfers[h].status = "none"
  BY <1>1 DEF Open, BridgeInv, BridgedAsCommitted
<1> QED
  BY <1>1, <1>2, <1>3, <1>4
  DEF BridgeInv, BridgeTypeOK, BridgedAsCommitted, HookKeepsOnlyRefunds

\* execute: the transfer carries the commitment it was checked against.
LEMMA InvExecute ==
    ASSUME BridgeInv, NEW h \in Hashes, NEW data \in FulfillData(Times), Execute(h, data)
    PROVE  BridgeInv'
<1> DEFINE c == intents[h].commitment
           new == [status |-> "pending", recipient |-> c.recipient,
                   outputToken |-> c.outputToken, chain |-> c.chain,
                   input |-> InputAmount(data), output |-> data.output,
                   deadline |-> data.deadline]
<1>1. Open(h) /\ End(h, "bridged")
  BY DEF Execute
<1>2. intents[h] \in Intent /\ c \in Commitments
  BY <1>1 DEF Open, Unsignaled, BridgeInv, BridgeTypeOK, Intent
<1>3. data.net \in Nat /\ data.output \in Nat /\ data.deadline \in Nat
  BY BridgeAssumption DEF FulfillData, Times
<1>4. new \in Transfer
  BY <1>2, <1>3 DEF Transfer, InputAmount
<1>5. transfers' = [transfers EXCEPT ![h] = new]
  BY DEF Execute
<1>6. /\ new.status = "pending" /\ new.output >= c.minOutput
      /\ new.recipient = c.recipient /\ c.recipient # Zero
      /\ new.outputToken = c.outputToken /\ c.outputToken # Zero
      /\ new.chain = c.chain /\ c.chain # 0
  BY DEF Execute, Accepts, ValidCommitment
<1>7. hookBalance' = hookBalance
  BY <1>3 DEF Execute, InputAmount, BridgeInv, BridgeTypeOK
<1>8. UNCHANGED <<now, quoteBuffer, fillBuffer, donated, refunded, rescued>>
  BY DEF Execute, pool, totals
<1>9. /\ intents' \in [Hashes -> Intent \cup {Unsignaled}]
      /\ intents'[h].stage = "bridged" /\ intents'[h].commitment = c
      /\ \A g \in Hashes : g # h => intents'[g] = intents[g]
  BY <1>1, EndEffect DEF BridgeInv
<1> HIDE DEF new, c
<1>10. BridgeTypeOK'
  BY <1>4, <1>5, <1>7, <1>8, <1>9 DEF BridgeInv, BridgeTypeOK
<1>11. \A g \in Hashes : transfers'[g] = IF g = h THEN new ELSE transfers[g]
  BY <1>5 DEF BridgeInv, BridgeTypeOK
<1>12. BridgedAsCommitted'
  BY <1>6, <1>9, <1>11 DEF BridgeInv, BridgedAsCommitted
<1> QED
  BY <1>7, <1>8, <1>10, <1>12 DEF BridgeInv, HookKeepsOnlyRefunds

\* A fill or a refund changes the status of a transfer and nothing else of it.
LEMMA StatusEffect ==
    ASSUME BridgeTypeOK, NEW h \in Hashes, transfers[h].status = "pending",
           NEW s \in {"filled", "refunded"},
           transfers' = [transfers EXCEPT ![h] = [@ EXCEPT !.status = s]]
    PROVE  /\ transfers[h] \in Transfer
           /\ transfers' \in [Hashes -> Transfer \cup {NoTransfer}]
           /\ \A g \in Hashes : g # h => transfers'[g] = transfers[g]
           /\ transfers'[h].status # "none"
           /\ transfers'[h].recipient = transfers[h].recipient
           /\ transfers'[h].outputToken = transfers[h].outputToken
           /\ transfers'[h].chain = transfers[h].chain
           /\ transfers'[h].output = transfers[h].output
<1> DEFINE new == [transfers[h] EXCEPT !.status = s]
<1>1. transfers[h] \in Transfer
  <2>1. transfers[h] \in Transfer \cup {NoTransfer}
    BY DEF BridgeTypeOK
  <2>2. NoTransfer.status # "pending"
    BY DEF NoTransfer
  <2> QED
    BY <2>1, <2>2
<1>2. /\ new \in Transfer /\ new.status = s
      /\ new.recipient = transfers[h].recipient
      /\ new.outputToken = transfers[h].outputToken
      /\ new.chain = transfers[h].chain /\ new.output = transfers[h].output
  BY <1>1 DEF Transfer
<1>3. transfers' = [transfers EXCEPT ![h] = new]
  OBVIOUS
<1> HIDE DEF new
<1> QED
  BY <1>1, <1>2, <1>3 DEF BridgeTypeOK

LEMMA InvFill ==
    ASSUME BridgeInv, NEW h \in Hashes, Fill(h)
    PROVE  BridgeInv'
<1>1. UNCHANGED <<intents, now, quoteBuffer, fillBuffer, hookBalance, donated,
                  refunded, rescued>>
  BY DEF Fill, pool, totals
<1>2. /\ transfers[h].status = "pending"
      /\ transfers' = [transfers EXCEPT ![h] = [@ EXCEPT !.status = "filled"]]
  BY DEF Fill
<1>3. BridgeTypeOK'
  BY <1>1, <1>2, StatusEffect DEF BridgeInv, BridgeTypeOK
<1>4. BridgedAsCommitted'
  BY <1>1, <1>2, StatusEffect DEF BridgeInv, BridgedAsCommitted
<1> QED
  BY <1>1, <1>3, <1>4 DEF BridgeInv, HookKeepsOnlyRefunds

LEMMA InvRefund ==
    ASSUME BridgeInv, NEW h \in Hashes, Refund(h)
    PROVE  BridgeInv'
<1>1. /\ UNCHANGED <<intents, now, quoteBuffer, fillBuffer, donated, rescued>>
      /\ hookBalance' = hookBalance + transfers[h].input
      /\ refunded' = refunded + transfers[h].input
  BY DEF Refund, pool, totals
<1>2. /\ transfers[h].status = "pending"
      /\ transfers' = [transfers EXCEPT ![h] = [@ EXCEPT !.status = "refunded"]]
  BY DEF Refund
<1>3. transfers[h].input \in Nat
  BY <1>2, StatusEffect DEF Transfer, BridgeInv
<1>4. BridgedAsCommitted'
  BY <1>1, <1>2, StatusEffect DEF BridgeInv, BridgedAsCommitted
<1>5. BridgeTypeOK'
  <2>1. transfers' \in [Hashes -> Transfer \cup {NoTransfer}]
    BY <1>2, StatusEffect DEF BridgeInv
  <2>2. hookBalance' \in Nat /\ refunded' \in Nat
    BY <1>1, <1>3 DEF BridgeInv, BridgeTypeOK
  <2> QED
    BY <1>1, <2>1, <2>2 DEF BridgeInv, BridgeTypeOK
<1> QED
  BY <1>1, <1>3, <1>4, <1>5 DEF BridgeInv, BridgeTypeOK, HookKeepsOnlyRefunds

LEMMA InvRest ==
    ASSUME BridgeInv,
           (\E amount \in 1 .. hookBalance : Rescue(amount)) \/ Tick \/ Donate
    PROVE  BridgeInv'
BY DEF Rescue, Tick, Donate, pool, totals, BridgeInv, BridgeTypeOK, BridgedAsCommitted,
   HookKeepsOnlyRefunds

LEMMA InvNext == BridgeInv /\ [BridgeNext(Times)]_vars => BridgeInv'
<1> SUFFICES ASSUME BridgeInv, [BridgeNext(Times)]_vars PROVE BridgeInv'
  OBVIOUS
<1>1. CASE UNCHANGED vars
  BY <1>1 DEF vars, pool, totals, BridgeInv, BridgeTypeOK, BridgedAsCommitted,
     HookKeepsOnlyRefunds
<1>2. CASE BridgeNext(Times)
  BY <1>2, InvSignal, InvEnd, InvExecute, InvFill, InvRefund, InvRest DEF BridgeNext
<1> QED
  BY <1>1, <1>2

LEMMA BridgeInvariant == BridgeSpec => []BridgeInv
BY InvInit, InvNext, PTL DEF BridgeSpec

\* execute sends every intent where its own taker said, and only intents it was
\* called for, whatever the commitments, quotes and buffers.
THEOREM BridgesKeepCommitments == BridgeSpec => []BridgedAsCommitted
<1>1. BridgeInv => BridgedAsCommitted
  BY DEF BridgeInv
<1> QED
  BY <1>1, BridgeInvariant, PTL

\* execute leaves nothing of a bridge in the hook and takes nothing that was there.
THEOREM HookIsAPipe == BridgeSpec => []HookKeepsOnlyRefunds
<1>1. BridgeInv => HookKeepsOnlyRefunds
  BY DEF BridgeInv
<1> QED
  BY <1>1, BridgeInvariant, PTL

\* The timing window is never empty: a quote made now with a deadline now passes
\* for every clock and all buffers, so a sound commitment can be executed.
THEOREM SoundCommitmentsPass == BridgeSpec => []SoundCommitmentsCanBridge
<1>1. BridgeInv => SoundCommitmentsCanBridge
  <2> SUFFICES ASSUME BridgeInv, NEW h \in Hashes, NEW net \in Nets, Open(h),
                      intents[h].inputToken,
                      intents[h].commitment.chain # 0,
                      intents[h].commitment.recipient # Zero,
                      intents[h].commitment.outputToken # Zero,
                      NEW out \in Outputs, out >= intents[h].commitment.minOutput
               PROVE  Accepts(h, [net |-> net, output |-> out, quote |-> now,
                                  deadline |-> now])
    BY DEF SoundCommitmentsCanBridge
  <2>1. now \in Nat /\ quoteBuffer \in Nat /\ fillBuffer \in Nat
    BY DEF BridgeInv, BridgeTypeOK
  <2> QED
    BY <2>1 DEF Accepts, ValidCommitment, ValidTiming
<1> QED
  BY <1>1, BridgeInvariant, PTL
=============================================================================
