---------------------------- MODULE AcrossBridge ----------------------------
(***************************************************************************)
(* AcrossBridgeHook: a post-intent hook that sends a settled intent's      *)
(* tokens to another chain.  The taker commits to the destination in       *)
(* intent.data when signaling; whoever fulfills chooses the rest, bounded  *)
(* by that commitment and by the clock of the Across spoke pool, which is  *)
(* external.  The orchestrator around it is reduced to the life of an      *)
(* intent; for Settlement, execute is a hook that pulls exactly its        *)
(* allowance.                                                              *)
(***************************************************************************)
EXTENDS Integers, FiniteSets

CONSTANTS
    Hashes,         \* intents that name this hook
    Commitments,    \* what a taker may put in intent.data
    Zero,           \* address(0)
    Nets,           \* amounts after fees; at least 1, as fees are below a half
    Outputs,        \* output amounts a fulfiller may ask for
    Buffers,        \* values of the pool's two buffers
    MaxTime,        \* bound: the pool's clock
    MaxDonated      \* bound: tokens strangers send to the hook

ASSUME BridgeAssumption ==
    /\ \A c \in Commitments : c.minOutput \in Nat
    /\ Nets \subseteq Nat \ {0} /\ Outputs \subseteq Nat /\ Buffers \subseteq Nat
    /\ MaxTime \in Nat /\ MaxDonated \in Nat

VARIABLES
    intents,        \* hash -> stage, commitment and whether in inputToken
    now,            \* spokePool.getCurrentTime
    quoteBuffer, fillBuffer,
    transfers,      \* hash -> what the pool recorded for it
    hookBalance,    \* of inputToken
    \* For the properties only:
    donated, refunded, rescued

pool == <<now, quoteBuffer, fillBuffer>>
totals == <<donated, refunded, rescued>>
vars == <<intents, pool, transfers, hookBalance, totals>>

Times == Nat
Unsignaled == [stage |-> "none"]
NoTransfer == [status |-> "none"]

BridgeInit ==
    /\ intents = [h \in Hashes |-> Unsignaled]
    /\ now = 0
    /\ quoteBuffer \in Buffers /\ fillBuffer \in Buffers
    /\ transfers = [h \in Hashes |-> NoTransfer]
    /\ hookBalance = 0
    /\ donated = 0 /\ refunded = 0 /\ rescued = 0

Open(h) == intents[h].stage = "open"
End(h, stage) == intents' = [intents EXCEPT ![h] = [@ EXCEPT !.stage = stage]]

-----------------------------------------------------------------------------
\* signalIntent: nobody looks at the commitment yet, nor at the deposit's token.
Signal(h, c, inputToken) ==
    /\ intents[h].stage = "none"
    /\ intents' = [intents EXCEPT ![h] =
                     [stage |-> "open", commitment |-> c, inputToken |-> inputToken]]
    /\ UNCHANGED <<pool, transfers, hookBalance, totals>>

\* cancelIntent, and releaseFundsToPayer, which pays intent.to on this chain.
EndWithoutHook(h) ==
    /\ Open(h)
    /\ \E stage \in {"cancelled", "released"} : End(h, stage)
    /\ UNCHANGED <<pool, transfers, hookBalance, totals>>

\* A check that measures the output against what goes in, not what was promised.
BuggyValidCommitment(c, data) ==
    c.chain # 0 /\ c.recipient # Zero /\ c.outputToken # Zero /\ data.output <= data.net

\* _validateCommitment
ValidCommitment(c, data) ==
    c.chain # 0 /\ c.recipient # Zero /\ c.outputToken # Zero /\ data.output >= c.minOutput

\* Strict comparisons at the ends of the windows.
BuggyValidTiming(data) ==
    /\ data.quote < now + quoteBuffer /\ now < data.quote + quoteBuffer
    /\ data.deadline > now /\ data.deadline < now + fillBuffer

\* _validateTiming
ValidTiming(data) ==
    /\ data.quote <= now + quoteBuffer /\ now <= data.quote + quoteBuffer
    /\ data.deadline >= now /\ data.deadline <= now + fillBuffer

\* What execute asks of the fulfiller's data.  The orchestrator's allowance is
\* in the deposit's token, so pulling any other reverts.
Accepts(h, data) ==
    /\ ValidCommitment(intents[h].commitment, data)
    /\ ValidTiming(data)
    /\ intents[h].inputToken

\* Sends on the quoted output instead of what came in.
BuggyInputAmount(data) == data.output

\* _deposit: the amount approved to the pool and pulled by it
InputAmount(data) == data.net

\* execute, called by the orchestrator in the middle of fulfillIntent, with the
\* net amount as its allowance; a revert undoes the whole fulfillIntent.
Execute(h, data) ==
    LET c == intents[h].commitment IN
    /\ Open(h)
    /\ Accepts(h, data)
    /\ InputAmount(data) <= hookBalance + data.net
    /\ End(h, "bridged")
    /\ hookBalance' = hookBalance + data.net - InputAmount(data)
    /\ transfers' = [transfers EXCEPT ![h] =
          [status |-> "pending", recipient |-> c.recipient, outputToken |-> c.outputToken,
           chain |-> c.chain, input |-> InputAmount(data), output |-> data.output,
           deadline |-> data.deadline]]
    /\ UNCHANGED <<pool, totals>>

FulfillData(times) == [net : Nets, output : Outputs, quote : times, deadline : times]

\* rescueERC20 of the input token, by the hook's owner
Rescue(amount) ==
    /\ amount <= hookBalance
    /\ hookBalance' = hookBalance - amount /\ rescued' = rescued + amount
    /\ UNCHANGED <<intents, pool, transfers, donated, refunded>>

-----------------------------------------------------------------------------
\* The world around the hook.

Tick ==
    /\ now < MaxTime /\ now' = now + 1
    /\ UNCHANGED <<intents, quoteBuffer, fillBuffer, transfers, hookBalance, totals>>

Donate ==
    /\ donated < MaxDonated
    /\ donated' = donated + 1 /\ hookBalance' = hookBalance + 1
    /\ UNCHANGED <<intents, pool, transfers, refunded, rescued>>

\* A relayer pays the recipient on the other chain, up to the deadline.
Fill(h) ==
    /\ transfers[h].status = "pending" /\ now <= transfers[h].deadline
    /\ transfers' = [transfers EXCEPT ![h] = [@ EXCEPT !.status = "filled"]]
    /\ UNCHANGED <<intents, pool, hookBalance, totals>>

\* Past the deadline the pool returns the input to its depositor: the hook.
Refund(h) ==
    /\ transfers[h].status = "pending" /\ now > transfers[h].deadline
    /\ transfers' = [transfers EXCEPT ![h] = [@ EXCEPT !.status = "refunded"]]
    /\ hookBalance' = hookBalance + transfers[h].input
    /\ refunded' = refunded + transfers[h].input
    /\ UNCHANGED <<intents, pool, donated, rescued>>

BridgeNext(times) ==
    \/ \E h \in Hashes : \/ \E c \in Commitments, t \in BOOLEAN : Signal(h, c, t)
                         \/ EndWithoutHook(h)
                         \/ \E data \in FulfillData(times) : Execute(h, data)
                         \/ Fill(h)
                         \/ Refund(h)
    \/ \E amount \in 1..hookBalance : Rescue(amount)
    \/ Tick
    \/ Donate

BridgeSpec == BridgeInit /\ [][BridgeNext(Times)]_vars

-----------------------------------------------------------------------------
\* What the pool was told to do, and so what any relayer does, is what the taker
\* of that very intent committed to when signaling, at the least output it
\* asked for; the rest of the data is whoever fulfills to choose.  An intent
\* that ended otherwise, paid on this chain or cancelled, is never bridged.
BridgedAsCommitted ==
    \A h \in Hashes :
        /\ transfers[h].status # "none" <=> intents[h].stage = "bridged"
        /\ transfers[h].status # "none" =>
             LET c == intents[h].commitment IN
             /\ transfers[h].recipient = c.recipient /\ c.recipient # Zero
             /\ transfers[h].outputToken = c.outputToken /\ c.outputToken # Zero
             /\ transfers[h].chain = c.chain /\ c.chain # 0
             /\ transfers[h].output >= c.minOutput

\* Executions pass on exactly what they pull: the hook's tokens are the
\* donations and refunds its owner has not rescued, so no bridge is paid for
\* with another taker's refund and nothing of a bridge stays behind.
HookKeepsOnlyRefunds == hookBalance = donated + refunded - rescued

\* A taker who committed soundly, in the token the hook bridges, can be bridged
\* at any moment, whatever the pool's buffers (zero included) and whatever the
\* fees left of the amount: some fulfil data with a generous enough output passes.
SoundCommitmentsCanBridge ==
    \A h \in Hashes : \A net \in Nets :
        LET c == intents[h].commitment IN
        /\ Open(h)
        /\ intents[h].inputToken
        /\ c.chain # 0 /\ c.recipient # Zero /\ c.outputToken # Zero
        /\ \E out \in Outputs : out >= c.minOutput
        => \E out \in Outputs :
             Accepts(h, [net |-> net, output |-> out, quote |-> now, deadline |-> now])
=============================================================================
