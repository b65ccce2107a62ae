----------------------------- MODULE Deployment -----------------------------
(***************************************************************************)
(* The deployment scripts of src/deploy/ and their helpers: hardhat-deploy *)
(* runs the scripts in file order, each step deploys a contract, sends a   *)
(* transaction when the chain still needs it, or saves a snapshot.  A run  *)
(* may crash anywhere, even with a transaction in flight, and is started   *)
(* again; scripts skip themselves once a marker artifact exists.           *)
(***************************************************************************)
EXTENDS Naturals, FiniteSets, Sequences, SequencesExt

CONSTANTS
    Networks,      \* the networks a behaviour may deploy to
    MaxCrashes,    \* bound: crashes of a run
    MaxEdits       \* bound: edits of a method's currencies in the repository

ASSUME DeploymentAssumption ==
    /\ Networks \subseteq {"localhost", "base", "base_staging", "base_sepolia"}
    /\ MaxCrashes \in Nat /\ MaxEdits \in Nat

VARIABLES
    network,     \* where this behaviour deploys
    artifacts,   \* contracts with an address file under deployments/<network>
    owner,       \* owner of each contract; "none" before deployment
    config,      \* what each set-step has configured on chain: 0 nothing, else
                 \* the version of its data (only currency lists have several)
    offered,     \* version of each method's currencies in the repository
    snapshots,   \* version saved for each method under outputs/platforms
    log,         \* calldata printed for the multisig
    pos,         \* <<script, step>> of the run; step 0 is before skip
    sending,     \* a helper has read the chain and waits to send
    mempool,     \* the pending transaction a crashed run left, if any
    outcome,     \* of the current or last run
    crashes

vars == <<network, artifacts, owner, config, offered, snapshots, log, pos,
          sending, mempool, outcome, crashes>>

Methods == {"venmo", "alipay"}

DeployOf(c)   == [kind |-> "deploy", contract |-> c]
Set(c, x)     == [kind |-> "set", contract |-> c, what |-> x]
HandOver(c)   == [kind |-> "handover", contract |-> c]
Save(m)       == [kind |-> "save", method |-> m]

\* A script that hands the escrow over before it wires it.
BuggySystem ==
    << DeployOf("PaymentVerifierRegistry"), DeployOf("PostIntentHookRegistry"),
       DeployOf("RelayerRegistry"), DeployOf("NullifierRegistry"),
       DeployOf("EscrowRegistry"), DeployOf("Escrow"), HandOver("Escrow"),
       Set("EscrowRegistry", "escrow"), DeployOf("Orchestrator"),
       Set("Escrow", "orchestrator"), DeployOf("ProtocolViewer"),
       HandOver("Orchestrator"), HandOver("PaymentVerifierRegistry"),
       HandOver("PostIntentHookRegistry"), HandOver("RelayerRegistry"),
       HandOver("NullifierRegistry"), HandOver("EscrowRegistry") >>

System ==
    << DeployOf("PaymentVerifierRegistry"), DeployOf("PostIntentHookRegistry"),
       DeployOf("RelayerRegistry"), DeployOf("NullifierRegistry"),
       DeployOf("EscrowRegistry"), DeployOf("Escrow"),
       Set("EscrowRegistry", "escrow"), DeployOf("Orchestrator"),
       Set("Escrow", "orchestrator"), DeployOf("ProtocolViewer"),
       HandOver("Escrow"), HandOver("Orchestrator"),
       HandOver("PaymentVerifierRegistry"), HandOver("PostIntentHookRegistry"),
       HandOver("RelayerRegistry"), HandOver("NullifierRegistry"),
       HandOver("EscrowRegistry") >>

UnifiedVerifier ==
    << DeployOf("SimpleAttestationVerifier"), DeployOf("UnifiedPaymentVerifier"),
       Set("NullifierRegistry", "writer"), HandOver("SimpleAttestationVerifier"),
       HandOver("UnifiedPaymentVerifier") >>

AddMethod(m) ==
    << Set("PaymentVerifierRegistry", m), Save(m), Set("UnifiedPaymentVerifier", m) >>

AcrossHook ==
    << DeployOf("AcrossBridgeHook"), Set("PostIntentHookRegistry", "hook"),
       HandOver("AcrossBridgeHook") >>

\* In file order.  "venmo" stands for the scripts 02 to 10_add_n26: they differ
\* in the method they add and in nothing else.
Scripts == << System, UnifiedVerifier, AddMethod("venmo"), AcrossHook,
              AddMethod("alipay") >>

\* The artifact whose presence makes a script skip itself.
Marker == << "ProtocolViewer", "UnifiedPaymentVerifier", "none",
             "AcrossBridgeHook", "none" >>

Steps     == UNION {Range(Scripts[s]) : s \in 1..Len(Scripts)}
SetSteps  == {step \in Steps : step.kind = "set"}
Contracts == {step.contract : step \in {d \in Steps : d.kind = "deploy"}}
Registration(m) == Set("PaymentVerifierRegistry", m)

MultiSig      == IF network = "base" THEN "multisig" ELSE "deployer"
HasSpokePool  == network # "base_sepolia"
SkipsDeployed == network # "localhost"

-----------------------------------------------------------------------------
\* The chain.

\* The version of its data that a set-step carries.
Value(step) ==
    IF \E m \in Methods : step = Registration(m) THEN offered[step.what] ELSE 1

\* What the owned contract answers to a transaction of the deployer or the
\* multisig: every setter is onlyOwner and all but setOrchestrator refuse
\* what is already there.
Accepted(step, from) ==
    /\ owner[step.contract] = from
    /\ \/ step.kind = "handover"
       \/ step = Set("Escrow", "orchestrator")
       \/ config[step] = 0

\* A mined transaction: a rejected one changes nothing.
Execute(tx, from) ==
    IF ~Accepted(tx.step, from) THEN UNCHANGED <<owner, config>>
    ELSE IF tx.step.kind = "handover"
    THEN owner' = [owner EXCEPT ![tx.step.contract] = MultiSig] /\ UNCHANGED config
    ELSE config' = [config EXCEPT ![tx.step] = tx.value] /\ UNCHANGED owner

\* A helper that never looks at what the chain already holds.
BuggyNeeded(step) == TRUE

\* What a helper reads before it decides.
Needed(step) ==
    IF step.kind = "handover" THEN owner[step.contract] # MultiSig ELSE config[step] = 0

-----------------------------------------------------------------------------
Init ==
    /\ network \in Networks
    /\ artifacts = {}
    /\ owner = [c \in Contracts |-> "none"]
    /\ config = [s \in SetSteps |-> 0]
    /\ offered = [m \in Methods |-> 1]
    /\ snapshots = [m \in Methods |-> 0]
    /\ log = {} /\ mempool = {}
    /\ pos = <<1, 0>> /\ sending = FALSE /\ outcome = "none"
    /\ crashes = 0

Running == outcome = "running"
Current == Scripts[pos[1]][pos[2]]
AtStep(kinds) ==
    Running /\ pos[1] <= Len(Scripts) /\ pos[2] > 0 /\ Current.kind \in kinds

\* The position after the current step: the next step, or the next script.
Next1(p) == IF p[2] < Len(Scripts[p[1]]) THEN <<p[1], p[2] + 1>> ELSE <<p[1] + 1, 0>>
Advance  == pos' = Next1(pos)
Fail     == outcome' = "failed" /\ sending' = FALSE /\ UNCHANGED pos

chain == <<owner, config>>
disk  == <<artifacts, snapshots, log>>

\* yarn deploy:<network>
Start ==
    /\ ~Running
    /\ outcome' = "running" /\ pos' = <<1, 0>> /\ sending' = FALSE
    /\ UNCHANGED <<network, chain, disk, offered, mempool, crashes>>

\* hardhat-deploy asks the script's skip function, then calls it.  The bridge
\* script throws where no spoke pool is known, which ends the whole run.
EnterScript ==
    /\ Running /\ pos[1] <= Len(Scripts) /\ pos[2] = 0
    /\ IF SkipsDeployed /\ Marker[pos[1]] \in artifacts
       THEN pos' = <<pos[1] + 1, 0>> /\ UNCHANGED <<outcome, sending>>
       ELSE IF Scripts[pos[1]] = AcrossHook /\ ~HasSpokePool
       THEN Fail
       ELSE pos' = <<pos[1], 1>> /\ UNCHANGED <<outcome, sending>>
    /\ UNCHANGED <<network, chain, disk, offered, mempool, crashes>>

Finish ==
    /\ Running /\ pos[1] > Len(Scripts)
    /\ outcome' = "completed"
    /\ UNCHANGED <<network, chain, disk, offered, pos, sending, mempool, crashes>>

\* deploy() reuses a saved artifact; a new contract belongs to the deployer and
\* its transaction waits behind the account's pending one.
DeployStep ==
    /\ AtStep({"deploy"})
    /\ IF Current.contract \in artifacts THEN UNCHANGED <<artifacts, owner>>
       ELSE /\ mempool = {}
            /\ artifacts' = artifacts \union {Current.contract}
            /\ owner' = [owner EXCEPT ![Current.contract] = "deployer"]
    /\ Advance
    /\ UNCHANGED <<network, config, offered, snapshots, log, sending, mempool, outcome, crashes>>

\* savePaymentMethodSnapshot: whatever the chain holds.
SaveStep ==
    /\ AtStep({"save"})
    /\ snapshots' = [snapshots EXCEPT ![Current.method] = offered[Current.method]]
    /\ Advance
    /\ UNCHANGED <<network, chain, artifacts, log, offered, sending, mempool, outcome, crashes>>

\* A helper that drops the instruction.
BuggyReport(step) == UNCHANGED log

\* The calldata the helper prints.
Report(step) == log' = log \union {[step |-> step, value |-> Value(step)]}

\* The head of every helper: read the chain; nothing to do, go on to send, or
\* print the calldata when the owner is not an account of this machine.
\* setNewOwner does not ask whose account it is.
Check ==
    /\ AtStep({"set", "handover"}) /\ ~sending
    /\ \/ ~Needed(Current) /\ Advance /\ UNCHANGED <<log, sending>>
       \/ /\ Needed(Current)
          /\ Current.kind = "handover" \/ owner[Current.contract] = "deployer"
          /\ sending' = TRUE /\ UNCHANGED <<log, pos>>
       \/ /\ Needed(Current)
          /\ Current.kind = "set" /\ owner[Current.contract] # "deployer"
          /\ Report(Current) /\ Advance /\ UNCHANGED sending
    /\ UNCHANGED <<network, chain, artifacts, snapshots, offered, mempool, outcome, crashes>>

\* sendDeploymentTransaction once the account's nonces agree: what was read may
\* be stale by now, and a transaction the contract rejects throws.
Send ==
    /\ AtStep({"set", "handover"}) /\ sending /\ mempool = {}
    /\ Execute([step |-> Current, value |-> Value(Current)], "deployer")
    /\ IF Accepted(Current, "deployer")
       THEN Advance /\ sending' = FALSE /\ UNCHANGED outcome
       ELSE Fail
    /\ UNCHANGED <<network, disk, offered, mempool, crashes>>

\* waitForAccountNonceSync gives up after 300 looks.
GiveUp ==
    /\ Running /\ sending /\ mempool # {}
    /\ Fail
    /\ UNCHANGED <<network, chain, disk, offered, mempool, crashes>>

\* The process dies; a helper that was sending may have left its transaction.
Crash ==
    /\ Running /\ crashes < MaxCrashes
    /\ crashes' = crashes + 1 /\ outcome' = "crashed" /\ sending' = FALSE
    /\ \/ UNCHANGED mempool
       \/ /\ sending /\ mempool = {}
          /\ mempool' = {[step |-> Current, value |-> Value(Current)]}
    /\ UNCHANGED <<network, chain, disk, offered, pos>>

\* The network includes the orphaned transaction, or forgets it.
Mine ==
    /\ \E tx \in mempool : Execute(tx, "deployer")
    /\ mempool' = {}
    /\ UNCHANGED <<network, disk, offered, pos, sending, outcome, crashes>>

DropTx ==
    /\ mempool # {} /\ mempool' = {}
    /\ UNCHANGED <<network, chain, disk, offered, pos, sending, outcome, crashes>>

\* The multisig signs a printed calldata, at any time and in any order.
ManualSet ==
    /\ \E tx \in log : Accepted(tx.step, "multisig") /\ Execute(tx, "multisig")
    /\ UNCHANGED <<network, disk, offered, pos, sending, mempool, outcome, crashes>>

\* A developer edits a method's currency list between two runs.
Edit ==
    /\ ~Running
    /\ \E m \in Methods : /\ offered[m] <= MaxEdits
                          /\ offered' = [offered EXCEPT ![m] = @ + 1]
    /\ UNCHANGED <<network, chain, disk, pos, sending, mempool, outcome, crashes>>

RunStep == EnterScript \/ Finish \/ DeployStep \/ SaveStep \/ Check \/ Send

Next == Start \/ RunStep \/ GiveUp \/ Crash \/ Mine \/ DropTx \/ ManualSet \/ Edit

\* An operator repeats the deployment, a live process makes progress, and the
\* network settles a pending transaction one way or the other.
Fairness == WF_vars(Start) /\ WF_vars(RunStep) /\ WF_vars(Mine \/ DropTx)

Spec == Init /\ [][Next]_vars /\ Fairness

-----------------------------------------------------------------------------
\* Whatever crashes, retries and stale transactions came before, a contract
\* that belongs to the multisig already holds what the script that deployed it
\* had to set there: the deployer never gives away a contract it still has to
\* wire (the order of 00_deploy_system.ts).
WiredBeforeHandover ==
    \A s \in 1..Len(Scripts) : \A set \in Range(Scripts[s]) :
        /\ set.kind = "set"
        /\ HandOver(set.contract) \in Range(Scripts[s])
        /\ owner[set.contract] = "multisig"
        => config[set] # 0

Finished(step) ==
    CASE step.kind = "deploy"   -> step.contract \in artifacts
      [] step.kind = "handover" -> owner[step.contract] = MultiSig
      [] step.kind = "set"      -> config[step] # 0 \/ \E tx \in log : tx.step = step
      [] step.kind = "save"     -> snapshots[step.method] # 0

\* A run that reports success has done every step or told the multisig to do
\* it, except in one case: on a live network, after a crash, a step that its
\* script takes after it deployed the artifact that makes it skip.
UnfinishedOnlyBehindMarker ==
    outcome = "completed" =>
        \A s \in 1..Len(Scripts) : \A i \in 1..Len(Scripts[s]) :
            Finished(Scripts[s][i])
            \/ /\ SkipsDeployed /\ crashes > 0
               /\ \E j \in 1..(i - 1) : Scripts[s][j] = DeployOf(Marker[s])

AllFinished == \A step \in Steps : Finished(step)

\* Repeating the deployment works: wherever runs crashed, a later one succeeds
\* (on every network whose spoke pool is known), and on localhost, where no
\* script skips, everything is eventually in place.
RerunsConverge ==
    /\ HasSpokePool => []<>(outcome = "completed")
    /\ network = "localhost" => <>[]AllFinished

\* What the comment on savePaymentMethodSnapshot says the snapshots are for:
\* "to avoid drift between code and configured on-chain state".  A snapshot a
\* completed run leaves says what the registry holds.
SnapshotsMatchRegistry ==
    outcome = "completed" =>
        \A m \in Methods : snapshots[m] \in {0, config[Registration(m)]}
=============================================================================
