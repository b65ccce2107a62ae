-------------------------- MODULE DeploymentTheorems --------------------------
(* However many runs of the deployment scripts crash, and whatever happens in  *)
(* between, nothing is given away unwired, a run that reports success has left *)
(* nothing behind that the skip markers do not hide, and once crashes stop,    *)
(* runs succeed again and again.                                               *)
EXTENDS Deployment, TLAPS

(* The scripts.                                                              *)

\* The script and the step that deploy a contract.
PlaceOf(c) ==
    CASE c = "PaymentVerifierRegistry"   -> <<1, 1>>
      [] c = "PostIntentHookRegistry"    -> <<1, 2>>
      [] c = "RelayerRegistry"           -> <<1, 3>>
      [] c = "NullifierRegistry"         -> <<1, 4>>
      [] c = "EscrowRegistry"            -> <<1, 5>>
      [] c = "Escrow"                    -> <<1, 6>>
      [] c = "Orchestrator"              -> <<1, 8>>
      [] c = "ProtocolViewer"            -> <<1, 10>>
      [] c = "SimpleAttestationVerifier" -> <<2, 1>>
      [] c = "UnifiedPaymentVerifier"    -> <<2, 2>>
      [] c = "AcrossBridgeHook"          -> <<4, 1>>

Deployables ==
    {"PaymentVerifierRegistry", "PostIntentHookRegistry", "RelayerRegistry",
     "NullifierRegistry", "EscrowRegistry", "Escrow", "Orchestrator", "ProtocolViewer",
     "SimpleAttestationVerifier", "UnifiedPaymentVerifier", "AcrossBridgeHook"}

\* The script that sets a thing.
ScriptOf(what) ==
    CASE what \in {"escrow", "orchestrator"} -> 1
      [] what = "writer" -> 2
      [] what = "venmo"  -> 3
      [] what = "hook"   -> 4
      [] what = "alipay" -> 5

\* The last step of a script that sets anything.
LastSet == <<9, 3, 3, 2, 3>>

\* Step i of script s is where it should be: a contract has one place, is set
\* and handed over after it, and the handovers of a script come after its sets.
WellPlaced(step, s, i) ==
    \/ /\ step = DeployOf(step.contract)
       /\ step.contract \in Deployables
       /\ PlaceOf(step.contract) = <<s, i>>
    \/ /\ step = HandOver(step.contract)
       /\ step.contract \in Deployables
       /\ PlaceOf(step.contract)[1] = s
       /\ PlaceOf(step.contract)[2] < i
       /\ LastSet[s] < i
    \/ /\ step = Set(step.contract, step.what)
       /\ step.contract \in Deployables
       /\ PlaceOf(step.contract)[1] = s => PlaceOf(step.contract)[2] < i
       /\ i <= LastSet[s]
       /\ ScriptOf(step.what) = s
    \/ /\ step = Save(step.method)
       /\ step.method \in Methods

LEMMA ScriptLengths ==
    /\ Len(Scripts) = 5
    /\ Len(Scripts[1]) = 17 /\ Len(Scripts[2]) = 5 /\ Len(Scripts[3]) = 3
    /\ Len(Scripts[4]) = 3 /\ Len(Scripts[5]) = 3
BY DEF Scripts, System, UnifiedVerifier, AddMethod, AcrossHook

LEMMA LengthsPositive ==
    ASSUME NEW s \in 1 .. 5
    PROVE  Len(Scripts[s]) \in Nat \ {0}
<1>1. s \in {1, 2, 3, 4, 5}
  OBVIOUS
<1>2. PICK n \in {17, 5, 3} : Len(Scripts[s]) = n
  BY <1>1, ScriptLengths, Zenon
<1>3. n \in Nat \ {0}
  OBVIOUS
<1> QED
  BY <1>2, <1>3, Zenon

LEMMA Places ==
    /\ PlaceOf("PaymentVerifierRegistry") = <<1, 1>>
    /\ PlaceOf("PostIntentHookRegistry") = <<1, 2>>
    /\ PlaceOf("RelayerRegistry") = <<1, 3>>
    /\ PlaceOf("NullifierRegistry") = <<1, 4>>
    /\ PlaceOf("EscrowRegistry") = <<1, 5>>
    /\ PlaceOf("Escrow") = <<1, 6>>
    /\ PlaceOf("Orchestrator") = <<1, 8>>
    /\ PlaceOf("ProtocolViewer") = <<1, 10>>
    /\ PlaceOf("SimpleAttestationVerifier") = <<2, 1>>
    /\ PlaceOf("UnifiedPaymentVerifier") = <<2, 2>>
    /\ PlaceOf("AcrossBridgeHook") = <<4, 1>>
BY DEF PlaceOf

LEMMA SystemPlaced == \A i \in 1 .. 17 : WellPlaced(System[i], 1, i)
<1> USE Places DEF WellPlaced, Deployables, ScriptOf, LastSet, System, DeployOf, HandOver, Set
<1>1. WellPlaced(System[1], 1, 1) /\ WellPlaced(System[2], 1, 2)
  OBVIOUS
<1>2. WellPlaced(System[3], 1, 3) /\ WellPlaced(System[4], 1, 4)
  OBVIOUS
<1>3. WellPlaced(System[5], 1, 5) /\ WellPlaced(System[6], 1, 6)
  OBVIOUS
<1>4. WellPlaced(System[7], 1, 7) /\ WellPlaced(System[8], 1, 8)
  OBVIOUS
<1>5. WellPlaced(System[9], 1, 9) /\ WellPlaced(System[10], 1, 10)
  OBVIOUS
<1>6. WellPlaced(System[11], 1, 11) /\ WellPlaced(System[12], 1, 12)
  OBVIOUS
<1>7. WellPlaced(System[13], 1, 13) /\ WellPlaced(System[14], 1, 14)
  OBVIOUS
<1>8. WellPlaced(System[15], 1, 15) /\ WellPlaced(System[16], 1, 16)
  OBVIOUS
<1>9. WellPlaced(System[17], 1, 17)
  OBVIOUS
<1> HIDE DEF WellPlaced, Deployables, ScriptOf, LastSet, System, DeployOf, HandOver, Set
<1> QED
  BY <1>1, <1>2, <1>3, <1>4, <1>5, <1>6, <1>7, <1>8, <1>9

LEMMA OthersPlaced ==
    /\ \A i \in 1 .. 5 : WellPlaced(UnifiedVerifier[i], 2, i)
    /\ \A i \in 1 .. 3 : WellPlaced(AddMethod("venmo")[i], 3, i)
    /\ \A i \in 1 .. 3 : WellPlaced(AcrossHook[i], 4, i)
    /\ \A i \in 1 .. 3 : WellPlaced(AddMethod("alipay")[i], 5, i)
<1> USE Places DEF WellPlaced, Deployables, ScriptOf, LastSet, UnifiedVerifier, AcrossHook,
                   AddMethod, DeployOf, HandOver, Set, Save, Methods
<1>1. /\ WellPlaced(UnifiedVerifier[1], 2, 1) /\ WellPlaced(UnifiedVerifier[2], 2, 2)
      /\ WellPlaced(UnifiedVerifier[3], 2, 3) /\ WellPlaced(UnifiedVerifier[4], 2, 4)
      /\ WellPlaced(UnifiedVerifier[5], 2, 5)
  OBVIOUS
<1>2. /\ WellPlaced(AddMethod("venmo")[1], 3, 1)
      /\ WellPlaced(AddMethod("venmo")[2], 3, 2)
      /\ WellPlaced(AddMethod("venmo")[3], 3, 3)
  OBVIOUS
<1>3. /\ WellPlaced(AcrossHook[1], 4, 1) /\ WellPlaced(AcrossHook[2], 4, 2)
      /\ WellPlaced(AcrossHook[3], 4, 3)
  OBVIOUS
<1>4. /\ WellPlaced(AddMethod("alipay")[1], 5, 1)
      /\ WellPlaced(AddMethod("alipay")[2], 5, 2)
      /\ WellPlaced(AddMethod("alipay")[3], 5, 3)
  OBVIOUS
<1> HIDE DEF WellPlaced, Deployables, ScriptOf, LastSet, UnifiedVerifier, AcrossHook,
             AddMethod, DeployOf, HandOver, Set, Save, Methods
<1> QED
  BY <1>1, <1>2, <1>3, <1>4

StepsIn(s) == 1 .. Len(Scripts[s])

LEMMA ScriptsPlaced ==
    ASSUME NEW s \in 1 .. 5, NEW i \in StepsIn(s)
    PROVE  /\ Scripts[s][i] \in Steps
           /\ WellPlaced(Scripts[s][i], s, i)
           /\ Len(Scripts[s]) \in Nat \ {0} /\ s \in Nat /\ i \in Nat
<1>1. /\ Scripts[1] = System /\ Scripts[2] = UnifiedVerifier
      /\ Scripts[3] = AddMethod("venmo") /\ Scripts[4] = AcrossHook
      /\ Scripts[5] = AddMethod("alipay")
  BY DEF Scripts
<1>2. WellPlaced(Scripts[s][i], s, i)
  <2>1. CASE s = 1
    BY <2>1, <1>1, SystemPlaced, ScriptLengths DEF StepsIn
  <2>2. CASE s = 2
    BY <2>2, <1>1, OthersPlaced, ScriptLengths DEF StepsIn
  <2>3. CASE s = 3
    BY <2>3, <1>1, OthersPlaced, ScriptLengths DEF StepsIn
  <2>4. CASE s = 4
    BY <2>4, <1>1, OthersPlaced, ScriptLengths DEF StepsIn
  <2>5. CASE s = 5
    BY <2>5, <1>1, OthersPlaced, ScriptLengths DEF StepsIn
  <2> QED
    BY <2>1, <2>2, <2>3, <2>4, <2>5
<1>3. DOMAIN Scripts[s] = StepsIn(s)
  BY <1>1, ScriptLengths
     DEF StepsIn, System, UnifiedVerifier, AddMethod, AcrossHook
<1>4. Scripts[s][i] \in Range(Scripts[s])
  BY <1>3 DEF Range
<1>5. Scripts[s][i] \in Steps
  BY <1>4, ScriptLengths DEF Steps
<1> QED
  BY <1>2, <1>5, ScriptLengths DEF StepsIn

\* Each contract is deployed at its place.
LEMMA DeployedAtPlace ==
    ASSUME NEW c \in Deployables
    PROVE  /\ PlaceOf(c)[1] \in 1 .. 5
           /\ PlaceOf(c)[2] \in StepsIn(PlaceOf(c)[1])
           /\ Scripts[PlaceOf(c)[1]][PlaceOf(c)[2]] = DeployOf(c)
<1>1. c \in {"PaymentVerifierRegistry", "PostIntentHookRegistry", "RelayerRegistry",
             "NullifierRegistry", "EscrowRegistry"} =>
        /\ PlaceOf(c)[1] = 1 /\ PlaceOf(c)[2] \in 1 .. 17 /\ System[PlaceOf(c)[2]] = DeployOf(c)
  BY Places DEF System
<1>2. c \in {"Escrow", "Orchestrator", "ProtocolViewer"} =>
        /\ PlaceOf(c)[1] = 1 /\ PlaceOf(c)[2] \in 1 .. 17 /\ System[PlaceOf(c)[2]] = DeployOf(c)
  BY Places DEF System
<1>3. c \in {"SimpleAttestationVerifier", "UnifiedPaymentVerifier"} =>
        /\ PlaceOf(c)[1] = 2 /\ PlaceOf(c)[2] \in 1 .. 5 /\ UnifiedVerifier[PlaceOf(c)[2]] = DeployOf(c)
  BY Places DEF UnifiedVerifier
<1>4. c = "AcrossBridgeHook" =>
        /\ PlaceOf(c)[1] = 4 /\ PlaceOf(c)[2] \in 1 .. 3 /\ AcrossHook[PlaceOf(c)[2]] = DeployOf(c)
  BY Places DEF AcrossHook
<1>5. /\ Scripts[1] = System /\ Scripts[2] = UnifiedVerifier /\ Scripts[4] = AcrossHook
  BY DEF Scripts
<1>6. CASE /\ PlaceOf(c)[1] = 1 /\ PlaceOf(c)[2] \in 1 .. 17
           /\ System[PlaceOf(c)[2]] = DeployOf(c)
  <2>1. Scripts[PlaceOf(c)[1]] = System /\ StepsIn(PlaceOf(c)[1]) = 1 .. 17
    BY <1>5, <1>6, ScriptLengths, Zenon DEF StepsIn
  <2> QED
    BY <1>6, <2>1
<1>7. CASE /\ PlaceOf(c)[1] = 2 /\ PlaceOf(c)[2] \in 1 .. 5
           /\ UnifiedVerifier[PlaceOf(c)[2]] = DeployOf(c)
  <2>1. Scripts[PlaceOf(c)[1]] = UnifiedVerifier /\ StepsIn(PlaceOf(c)[1]) = 1 .. 5
    BY <1>5, <1>7, ScriptLengths, Zenon DEF StepsIn
  <2> QED
    BY <1>7, <2>1
<1>8. CASE /\ PlaceOf(c)[1] = 4 /\ PlaceOf(c)[2] \in 1 .. 3
           /\ AcrossHook[PlaceOf(c)[2]] = DeployOf(c)
  <2>1. Scripts[PlaceOf(c)[1]] = AcrossHook /\ StepsIn(PlaceOf(c)[1]) = 1 .. 3
    BY <1>5, <1>8, ScriptLengths, Zenon DEF StepsIn
  <2> QED
    BY <1>8, <2>1
<1> QED
  BY <1>1, <1>2, <1>3, <1>4, <1>6, <1>7, <1>8 DEF Deployables

\* Every step is one of these, and not two.
LEMMA StepKinds ==
    ASSUME NEW s \in 1 .. 5, NEW i \in StepsIn(s)
    PROVE  LET step == Scripts[s][i]
           IN  /\ step.kind \in {"deploy", "set", "handover", "save"}
               /\ step.kind = "deploy" =>
                     /\ step = DeployOf(step.contract)
                     /\ step.contract \in Deployables
                     /\ PlaceOf(step.contract) = <<s, i>>
               /\ step.kind = "handover" =>
                     /\ step = HandOver(step.contract)
                     /\ step.contract \in Deployables
                     /\ PlaceOf(step.contract)[1] = s
                     /\ PlaceOf(step.contract)[2] < i
                     /\ LastSet[s] < i
               /\ step.kind = "set" =>
                     /\ step = Set(step.contract, step.what)
                     /\ step.contract \in Deployables
                     /\ PlaceOf(step.contract)[1] = s => PlaceOf(step.contract)[2] < i
                     /\ i <= LastSet[s]
                     /\ ScriptOf(step.what) = s
               /\ step.kind = "save" => step.method \in Methods
<1> DEFINE step == Scripts[s][i]
<1>1. WellPlaced(step, s, i)
  BY ScriptsPlaced
<1> HIDE DEF step
<1>2. CASE step = DeployOf(step.contract) /\ step.contract \in Deployables
           /\ PlaceOf(step.contract) = <<s, i>>
  <2>1. step.kind = "deploy"
    BY <1>2 DEF DeployOf
  <2> QED
    BY <1>2, <2>1 DEF step
<1>3. CASE /\ step = HandOver(step.contract) /\ step.contract \in Deployables
           /\ PlaceOf(step.contract)[1] = s /\ PlaceOf(step.contract)[2] < i
           /\ LastSet[s] < i
  <2>1. step.kind = "handover"
    BY <1>3 DEF HandOver
  <2> QED
    BY <1>3, <2>1 DEF step
<1>4. CASE /\ step = Set(step.contract, step.what) /\ step.contract \in Deployables
           /\ PlaceOf(step.contract)[1] = s => PlaceOf(step.contract)[2] < i
           /\ i <= LastSet[s] /\ ScriptOf(step.what) = s
  <2>1. step.kind = "set"
    BY <1>4 DEF Set
  <2> QED
    BY <1>4, <2>1 DEF step
<1>5. CASE step = Save(step.method) /\ step.method \in Methods
  <2>1. step.kind = "save"
    BY <1>5 DEF Save
  <2> QED
    BY <1>5, <2>1 DEF step
<1> QED
  BY <1>1, <1>2, <1>3, <1>4, <1>5 DEF WellPlaced

LEMMA StepPlace ==
    ASSUME NEW step \in Steps
    PROVE  \E s \in 1 .. 5 : \E i \in StepsIn(s) : step = Scripts[s][i]
<1>1. PICK s \in 1 .. 5 : step \in Range(Scripts[s])
  BY ScriptLengths DEF Steps
<1>2. DOMAIN Scripts[s] = StepsIn(s)
  BY ScriptLengths
     DEF StepsIn, Scripts, System, UnifiedVerifier, AddMethod, AcrossHook
<1> QED
  BY <1>1, <1>2 DEF Range

LEMMA ContractsAreDeployables == Contracts = Deployables
<1>1. ASSUME NEW c \in Contracts
      PROVE  c \in Deployables
  <2>1. PICK step \in Steps : step.kind = "deploy" /\ step.contract = c
    BY DEF Contracts
  <2> QED
    BY <2>1, StepPlace, StepKinds
<1>2. ASSUME NEW c \in Deployables
      PROVE  c \in Contracts
  <2>1. DeployOf(c) \in Steps
    BY DeployedAtPlace, ScriptsPlaced
  <2>2. DeployOf(c).kind = "deploy" /\ DeployOf(c).contract = c
    BY DEF DeployOf
  <2> QED
    BY <2>1, <2>2 DEF Contracts
<1> QED
  BY <1>1, <1>2

\* The marker of a script is one of the contracts it deploys.
LEMMA MarkerPlaces ==
    ASSUME NEW s \in 1 .. 5, Marker[s] \in Contracts
    PROVE  /\ PlaceOf(Marker[s])[1] = s
           /\ PlaceOf(Marker[s])[2] \in StepsIn(s)
           /\ Scripts[s][PlaceOf(Marker[s])[2]] = DeployOf(Marker[s])
<1>1. Marker[s] \in Deployables
  BY ContractsAreDeployables
<1>2. PlaceOf(Marker[s])[1] = s
  BY <1>1, Places DEF Marker, Deployables
<1> QED
  BY <1>1, <1>2, DeployedAtPlace

-----------------------------------------------------------------------------
(* The invariant.                                                            *)

SendSteps  == {step \in Steps : step.kind \in {"set", "handover"}}

\* What each variable may hold.
ChainOK ==
    /\ owner \in [Contracts -> {"none", "deployer", MultiSig}]
    /\ config \in [SetSteps -> Nat]

DiskOK ==
    /\ artifacts \subseteq Contracts
    /\ snapshots \in [Methods -> Nat]
    /\ \A tx \in log : tx.step \in SetSteps /\ tx.value \in Nat \ {0}

PositionOK(p) ==
    /\ p = <<p[1], p[2]>>
    /\ p[1] \in 1 .. 6
    /\ p[2] \in IF p[1] = 6 THEN {0} ELSE 0 .. Len(Scripts[p[1]])

RunOK ==
    /\ PositionOK(pos)
    /\ outcome \in {"none", "running", "failed", "crashed", "completed"}
    /\ sending \in BOOLEAN
    /\ sending => AtStep({"set", "handover"})

OutsideOK ==
    /\ network \in Networks
    /\ offered \in [Methods -> Nat \ {0}]
    /\ \A tx \in mempool : tx.step \in SendSteps /\ tx.value \in Nat \ {0}
    /\ crashes \in Nat

DeploymentTypeOK == ChainOK /\ DiskOK /\ RunOK /\ OutsideOK

\* Whatever has an artifact has an owner.
ArtifactsOwned == \A c \in Contracts : c \in artifacts <=> owner[c] # "none"

\* A step that a live network never gets to: a crash came between it and the
\* artifact that makes its script skip.
Hidden(s, i) ==
    /\ SkipsDeployed /\ crashes > 0
    /\ \E j \in 1 .. (i - 1) : Scripts[s][j] = DeployOf(Marker[s])

\* What a run has behind it is done, or hidden from it.
PassedIsDone ==
    /\ outcome \in {"running", "completed"} =>
        \A s \in 1 .. 5 : \A i \in StepsIn(s) :
            /\ s < pos[1] => Finished(Scripts[s][i]) \/ Hidden(s, i)
            /\ s = pos[1] /\ i < pos[2] => Finished(Scripts[s][i])
    /\ outcome = "completed" => pos[1] = 6

\* A marker says that its script got that far.
MarkersAreEarned ==
    \A s \in 1 .. 5 : Marker[s] \in artifacts =>
        \A i \in StepsIn(s) : i <= PlaceOf(Marker[s])[2] => Finished(Scripts[s][i])

\* As long as no run crashed, no transaction is left pending, what a helper is
\* about to send is accepted, and a marker hides nothing.
SmoothSoFar ==
    crashes = 0 =>
        /\ mempool = {}
        /\ sending => Accepted(Current, "deployer")
        /\ \A s \in 1 .. 5 : Marker[s] \in artifacts =>
              \/ \A i \in StepsIn(s) : Finished(Scripts[s][i])
              \/ Running /\ pos[1] = s /\ pos[2] > 0

\* The sets that a script makes on a contract it deploys and hands over.
Wired(c) ==
    {step \in SetSteps : /\ step.contract = c
                         /\ \E s \in 1 .. 5 : /\ step \in Range(Scripts[s])
                                              /\ HandOver(c) \in Range(Scripts[s])}

\* They are made before the contract is given away, and never left to the
\* multisig; nor does a transaction that gives it away come before them.
WiredFirst ==
    \A c \in Contracts : \A step \in Wired(c) :
        /\ owner[c] = "multisig" \/ (\E tx \in mempool : tx.step = HandOver(c))
              => config[step] # 0
        /\ \A tx \in log : tx.step # step

DeploymentInv ==
    /\ DeploymentTypeOK /\ ArtifactsOwned /\ PassedIsDone /\ MarkersAreEarned
    /\ SmoothSoFar /\ WiredFirst
-----------------------------------------------------------------------------
(* Types, and what stays done.                                               *)

LEMMA ValueType ==
    ASSUME offered \in [Methods -> Nat \ {0}], NEW step
    PROVE  Value(step) \in Nat \ {0}
<1>1. CASE \E m \in Methods : step = Registration(m)
  <2>1. PICK m \in Methods : step = Registration(m)
    BY <1>1
  <2>2. step.what = m
    BY <2>1 DEF Registration, Set
  <2> QED
    BY <1>1, <2>2 DEF Value
<1>2. CASE ~\E m \in Methods : step = Registration(m)
  BY <1>2 DEF Value
<1> QED
  BY <1>1, <1>2

LEMMA CurrentIsStep ==
    ASSUME DeploymentTypeOK, NEW kinds, AtStep(kinds)
    PROVE  /\ Running /\ pos[1] \in 1 .. 5 /\ pos[2] \in StepsIn(pos[1])
           /\ Current = Scripts[pos[1]][pos[2]] /\ Current \in Steps
           /\ Current.kind \in kinds
<1>1. pos[1] \in 1 .. 5 /\ pos[2] \in StepsIn(pos[1])
  BY ScriptLengths DEF DeploymentTypeOK, RunOK, PositionOK, AtStep, StepsIn
<1> QED
  BY <1>1, ScriptsPlaced DEF AtStep, Current

LEMMA Positions ==
    ASSUME NEW s \in 1 .. 5
    PROVE  /\ PositionOK(<<s, 0>>) /\ PositionOK(<<s + 1, 0>>)
           /\ \A i \in StepsIn(s) : PositionOK(<<s, i>>)
           /\ 1 \in StepsIn(s) /\ StepsIn(s) \subseteq Nat
<1>1. Len(Scripts[s]) \in Nat \ {0} /\ s # 6
  BY LengthsPositive
<1>2. s + 1 \in 1 .. 5 \/ s + 1 = 6
  OBVIOUS
<1>3. s + 1 # 6 => Len(Scripts[s + 1]) \in Nat
  BY <1>2, LengthsPositive
<1>4. PositionOK(<<s + 1, 0>>)
  BY <1>2, <1>3 DEF PositionOK
<1>5. ASSUME NEW i \in 0 .. Len(Scripts[s])
      PROVE  PositionOK(<<s, i>>)
  BY <1>1 DEF PositionOK
<1> QED
  BY <1>1, <1>4, <1>5 DEF StepsIn

LEMMA AdvanceType ==
    ASSUME DeploymentTypeOK, NEW kinds, AtStep(kinds), Advance
    PROVE  /\ PositionOK(pos')
           /\ \/ pos' = <<pos[1], pos[2] + 1>> /\ pos[2] + 1 \in StepsIn(pos[1])
              \/ pos' = <<pos[1] + 1, 0>> /\ pos[2] = Len(Scripts[pos[1]])
<1>1. /\ pos[1] \in 1 .. 5 /\ pos[2] \in StepsIn(pos[1])
      /\ Len(Scripts[pos[1]]) \in Nat
  BY CurrentIsStep, LengthsPositive
<1>2. CASE pos[2] < Len(Scripts[pos[1]])
  <2>1. pos' = <<pos[1], pos[2] + 1>> /\ pos[2] + 1 \in StepsIn(pos[1])
    BY <1>1, <1>2 DEF Advance, Next1, StepsIn
  <2> QED
    BY <1>1, <2>1, Positions
<1>3. CASE ~(pos[2] < Len(Scripts[pos[1]]))
  <2>1. pos' = <<pos[1] + 1, 0>> /\ pos[2] = Len(Scripts[pos[1]])
    BY <1>1, <1>3 DEF Advance, Next1, StepsIn
  <2> QED
    BY <1>1, <2>1, Positions
<1> QED
  BY <1>2, <1>3

LEMMA SendStepKinds ==
    ASSUME NEW step \in SendSteps
    PROVE  /\ step.contract \in Contracts
           /\ step.kind = "set" => step \in SetSteps
           /\ step.kind \in {"set", "handover"}
           /\ step.kind = "handover" => step = HandOver(step.contract)
BY StepPlace, StepKinds, ContractsAreDeployables DEF SendSteps, SetSteps

LEMMA MultiSigIs == MultiSig \in {"multisig", "deployer"}
BY DEF MultiSig

\* What a transaction does to the chain, accepted or not.
LEMMA ExecuteKeeps ==
    ASSUME owner \in [Contracts -> {"none", "deployer", MultiSig}],
           config \in [SetSteps -> Nat], UNCHANGED network,
           NEW tx, tx.step \in SendSteps, tx.value \in Nat \ {0},
           NEW from \in {"deployer", "multisig"}, Execute(tx, from)
    PROVE  /\ owner' \in [Contracts -> {"none", "deployer", MultiSig}]
           /\ config' \in [SetSteps -> Nat]
           /\ \A c \in Contracts : /\ owner'[c] = "none" <=> owner[c] = "none"
                                   /\ owner'[c] \in {owner[c], MultiSig}
                                   /\ owner'[c] # owner[c] =>
                                         tx.step = HandOver(c) /\ owner[c] = from
           /\ \A step \in SetSteps : /\ config[step] # 0 => config'[step] # 0
                                     /\ config'[step] # config[step] => tx.step = step
<1> DEFINE c == tx.step.contract
<1>0. c \in Contracts /\ (tx.step.kind = "set" => tx.step \in SetSteps)
      /\ tx.step.kind \in {"set", "handover"}
      /\ (tx.step.kind = "handover" => tx.step = HandOver(c))
  BY SendStepKinds
<1> HIDE DEF c
<1>1. CASE UNCHANGED <<owner, config>>
  BY <1>1
<1>2. CASE /\ owner[c] = from /\ tx.step.kind = "handover"
           /\ owner' = [owner EXCEPT ![c] = MultiSig] /\ UNCHANGED config
  BY <1>0, <1>2, MultiSigIs
<1>3. CASE /\ tx.step.kind # "handover"
           /\ config' = [config EXCEPT ![tx.step] = tx.value] /\ UNCHANGED owner
  BY <1>0, <1>3
<1> QED
  BY <1>1, <1>2, <1>3 DEF Execute, Accepted, c

\* Nothing that counts as done is ever undone.
Kept ==
    /\ UNCHANGED network
    /\ artifacts \subseteq artifacts' /\ log \subseteq log' /\ crashes <= crashes'
    /\ \A c \in Contracts : owner[c] = MultiSig => owner'[c] = MultiSig
    /\ \A step \in SetSteps : config[step] # 0 => config'[step] # 0
    /\ \A m \in Methods : snapshots[m] # 0 => snapshots'[m] # 0

\* Most steps leave most of it alone.
LEMMA TypeFrame ==
    ASSUME DeploymentTypeOK, ArtifactsOwned
    PROVE  /\ UNCHANGED <<network, chain>> => ChainOK'
           /\ UNCHANGED disk => DiskOK'
           /\ UNCHANGED <<pos, sending, outcome>> => RunOK'
           /\ UNCHANGED <<network, offered, mempool, crashes>> => OutsideOK'
           /\ UNCHANGED <<chain, disk>> => ArtifactsOwned'
           /\ UNCHANGED <<network, chain, disk, crashes>> => Kept
<1>1. ChainOK /\ DiskOK /\ RunOK /\ OutsideOK
  BY DEF DeploymentTypeOK
<1>2. UNCHANGED <<network, chain>> => ChainOK'
  BY <1>1 DEF ChainOK, chain, MultiSig
<1>3. UNCHANGED <<pos, sending, outcome>> => RunOK'
  BY <1>1 DEF RunOK, AtStep, Current, Running
<1>4. UNCHANGED disk => DiskOK'
  BY <1>1 DEF disk, DiskOK
<1>5. UNCHANGED <<network, offered, mempool, crashes>> => OutsideOK'
  BY <1>1 DEF OutsideOK
<1>6. UNCHANGED <<chain, disk>> => ArtifactsOwned'
  BY DEF chain, disk, ArtifactsOwned
<1>7. crashes <= crashes
  BY <1>1 DEF OutsideOK
<1>8. UNCHANGED <<network, chain, disk, crashes>> => Kept
  BY <1>7 DEF chain, disk, Kept
<1> QED
  BY <1>2, <1>3, <1>4, <1>5, <1>6, <1>8

\* Steps that end a run, or that a run takes without touching chain and disk.
LEMMA WalkType ==
    ASSUME DeploymentTypeOK, ArtifactsOwned,
           Start \/ EnterScript \/ Finish \/ GiveUp \/ Crash
    PROVE  DeploymentTypeOK' /\ ArtifactsOwned' /\ Kept
<1>1. ChainOK /\ DiskOK /\ RunOK /\ OutsideOK
  BY DEF DeploymentTypeOK
<1>2. /\ UNCHANGED <<network, chain, disk, offered>>
      /\ UNCHANGED <<mempool, crashes>> \/ Crash
  BY DEF Start, EnterScript, Finish, GiveUp, Crash
<1>3. ChainOK' /\ DiskOK' /\ ArtifactsOwned'
  BY <1>2, TypeFrame
<1>4. OutsideOK' /\ crashes <= crashes'
  <2>1. CASE UNCHANGED <<mempool, crashes>>
    BY <1>1, <1>2, <2>1, TypeFrame DEF OutsideOK
  <2>2. CASE Crash
    <3>1. \/ UNCHANGED mempool
          \/ sending /\ mempool' = {[step |-> Current, value |-> Value(Current)]}
      BY <2>2 DEF Crash
    <3>2. ASSUME sending
          PROVE  Current \in SendSteps /\ Value(Current) \in Nat \ {0}
      <4>1. AtStep({"set", "handover"})
        BY <1>1, <3>2 DEF RunOK
      <4> QED
        BY <1>1, <4>1, CurrentIsStep, ValueType DEF SendSteps, OutsideOK
    <3>3. \A tx \in mempool' : tx.step \in SendSteps /\ tx.value \in Nat \ {0}
      BY <1>1, <3>1, <3>2 DEF OutsideOK
    <3> QED
      BY <1>1, <1>2, <2>2, <3>3 DEF OutsideOK, Crash
  <2> QED
    BY <1>2, <2>1, <2>2
<1>5. Kept
  BY <1>2, <1>4 DEF Kept, chain, disk
<1>6. RunOK'
  <2>1. CASE Start \/ GiveUp \/ Crash
    <3>1. /\ sending' = FALSE /\ outcome' \in {"running", "failed", "crashed"}
          /\ pos' = pos \/ pos' = <<1, 0>>
      BY <2>1 DEF Start, GiveUp, Crash, Fail
    <3>2. PositionOK(pos')
      BY <1>1, <3>1, Positions DEF RunOK
    <3> QED
      BY <3>1, <3>2 DEF RunOK
  <2>2. CASE Finish
    <3>1. ~sending
      BY <1>1, <2>2, ScriptLengths DEF Finish, RunOK, PositionOK, AtStep
    <3> QED
      BY <1>1, <2>2, <3>1 DEF Finish, RunOK
  <2>3. CASE EnterScript
    <3>1. sending = FALSE /\ pos[1] \in 1 .. 5
      BY <1>1, <2>3, ScriptLengths DEF EnterScript, RunOK, PositionOK, AtStep
    <3>2. /\ sending' = FALSE /\ outcome' \in {outcome, "failed"}
          /\ pos' \in {pos, <<pos[1] + 1, 0>>, <<pos[1], 1>>}
      BY <2>3, <3>1 DEF EnterScript, Fail
    <3>3. PositionOK(pos')
      BY <1>1, <3>1, <3>2, Positions DEF RunOK
    <3>4. outcome' \in {"none", "running", "failed", "crashed", "completed"}
      BY <1>1, <3>2 DEF RunOK
    <3> QED
      BY <3>2, <3>3, <3>4 DEF RunOK
  <2> QED
    BY <2>1, <2>2, <2>3
<1> QED
  BY <1>3, <1>4, <1>5, <1>6 DEF DeploymentTypeOK


\* Steps of a script.
LEMMA WorkType ==
    ASSUME DeploymentTypeOK, ArtifactsOwned, DeployStep \/ SaveStep \/ Check
    PROVE  DeploymentTypeOK' /\ ArtifactsOwned' /\ Kept
<1>1. ChainOK /\ DiskOK /\ RunOK /\ OutsideOK
  BY DEF DeploymentTypeOK
<1>2. UNCHANGED <<network, offered, mempool, crashes>> /\ crashes <= crashes'
  BY <1>1 DEF DeployStep, SaveStep, Check, OutsideOK
<1>3. OutsideOK'
  BY <1>2, TypeFrame
<1>4. CASE DeployStep
  <2> DEFINE c == Current.contract
  <2>1. c \in Contracts
    BY <1>4, CurrentIsStep DEF DeployStep, Contracts
  <2>2. \/ UNCHANGED <<artifacts, owner>>
        \/ /\ c \notin artifacts
           /\ artifacts' = artifacts \cup {c} /\ owner' = [owner EXCEPT ![c] = "deployer"]
    BY <1>4 DEF DeployStep
  <2>3. UNCHANGED <<config, snapshots, log, outcome>>
    BY <1>4 DEF DeployStep
  <2> HIDE DEF c
  <2>4. ChainOK' /\ MultiSig' = MultiSig
    BY <1>1, <1>2, <2>1, <2>2, <2>3 DEF ChainOK, MultiSig
  <2>5. DiskOK' /\ ArtifactsOwned'
    BY <1>1, <2>1, <2>2, <2>3 DEF DiskOK, ArtifactsOwned, ChainOK
  <2>6. Kept
    <3>1. \A b \in Contracts : owner[b] = MultiSig => owner'[b] = MultiSig
      BY <1>1, <2>1, <2>2, MultiSigIs DEF ArtifactsOwned, ChainOK
    <3> QED
      BY <1>2, <2>2, <2>3, <3>1 DEF Kept
  <2>7. RunOK'
    <3>1. ~sending /\ sending' = sending /\ PositionOK(pos')
      BY <1>1, <1>4, AdvanceType DEF DeployStep, RunOK, AtStep
    <3> QED
      BY <1>1, <2>3, <3>1 DEF RunOK
  <2> QED
    BY <1>3, <2>4, <2>5, <2>6, <2>7 DEF DeploymentTypeOK
<1>5. CASE SaveStep
  <2> DEFINE m == Current.method
  <2>1. m \in Methods
    BY <1>5, CurrentIsStep, StepKinds DEF SaveStep
  <2>2. /\ snapshots' = [snapshots EXCEPT ![m] = offered[m]]
        /\ UNCHANGED <<chain, artifacts, log, outcome>>
    BY <1>5 DEF SaveStep
  <2> HIDE DEF m
  <2>3. ChainOK' /\ ArtifactsOwned'
    BY <1>2, <2>2, TypeFrame DEF ArtifactsOwned, chain
  <2>4. DiskOK' /\ Kept
    BY <1>1, <1>2, <2>1, <2>2 DEF DiskOK, OutsideOK, Kept, chain
  <2>5. RunOK'
    <3>1. ~sending /\ sending' = sending /\ PositionOK(pos')
      BY <1>1, <1>5, AdvanceType DEF SaveStep, RunOK, AtStep
    <3> QED
      BY <1>1, <2>2, <3>1 DEF RunOK
  <2> QED
    BY <1>3, <2>3, <2>4, <2>5 DEF DeploymentTypeOK
<1>6. CASE Check
  <2>1. /\ UNCHANGED <<chain, artifacts, snapshots, outcome>>
        /\ \/ UNCHANGED <<log, pos>> /\ sending' = TRUE
           \/ UNCHANGED log /\ Advance /\ sending' = sending
           \/ Current.kind = "set" /\ Report(Current) /\ Advance /\ sending' = sending
        /\ AtStep({"set", "handover"}) /\ ~sending
    BY <1>6 DEF Check
  <2>2. ChainOK' /\ ArtifactsOwned'
    BY <1>2, <2>1, TypeFrame DEF ArtifactsOwned, chain
  <2>3. DiskOK' /\ log \subseteq log'
    <3>1. CASE UNCHANGED log
      BY <1>1, <2>1, <3>1 DEF DiskOK
    <3>2. CASE Current.kind = "set" /\ Report(Current)
      <4>1. Current \in SetSteps /\ Value(Current) \in Nat \ {0}
        BY <1>1, <2>1, <3>2, CurrentIsStep, ValueType DEF SetSteps, OutsideOK
      <4> QED
        BY <1>1, <2>1, <3>2, <4>1 DEF DiskOK, Report
    <3> QED
      BY <2>1, <3>1, <3>2
  <2>4. Kept
    BY <1>2, <2>1, <2>3 DEF Kept, chain
  <2>5. RunOK'
    <3>1. CASE UNCHANGED pos /\ sending' = TRUE
      BY <1>1, <2>1, <3>1 DEF RunOK, AtStep, Current, Running
    <3>2. CASE Advance /\ sending' = sending
      BY <1>1, <2>1, <3>2, AdvanceType DEF RunOK
    <3> QED
      BY <2>1, <3>1, <3>2
  <2> QED
    BY <1>3, <2>2, <2>3, <2>4, <2>5 DEF DeploymentTypeOK
<1> QED
  BY <1>4, <1>5, <1>6

\* Steps of the chain: a transaction carried out.
LEMMA ExecuteType ==
    ASSUME DeploymentTypeOK, ArtifactsOwned, NEW tx, tx.step \in SendSteps,
           tx.value \in Nat \ {0}, NEW from \in {"deployer", "multisig"},
           Execute(tx, from), UNCHANGED <<network, disk, crashes>>
    PROVE  ChainOK' /\ DiskOK' /\ ArtifactsOwned' /\ Kept
<1>1. MultiSig' = MultiSig /\ UNCHANGED <<artifacts, snapshots, log, crashes, network>>
  BY DEF MultiSig, disk
<1>2. DiskOK' /\ ChainOK /\ crashes <= crashes' /\ UNCHANGED network
  BY <1>1, TypeFrame DEF DeploymentTypeOK, OutsideOK
<1>3. /\ owner' \in [Contracts -> {"none", "deployer", MultiSig}]
      /\ config' \in [SetSteps -> Nat]
      /\ \A c \in Contracts : /\ owner'[c] = "none" <=> owner[c] = "none"
                              /\ owner'[c] \in {owner[c], MultiSig}
                              /\ owner'[c] # owner[c] =>
                                    tx.step = HandOver(c) /\ owner[c] = from
      /\ \A step \in SetSteps : /\ config[step] # 0 => config'[step] # 0
                                /\ config'[step] # config[step] => tx.step = step
  <2>1. owner \in [Contracts -> {"none", "deployer", MultiSig}] /\ config \in [SetSteps -> Nat]
    BY <1>2 DEF ChainOK
  <2> QED
    BY <1>2, <2>1, ExecuteKeeps
<1>4. ArtifactsOwned'
  <2>1. \A c \in Contracts : owner'[c] = "none" <=> owner[c] = "none"
    BY <1>3
  <2> QED
    BY <1>1, <2>1 DEF ArtifactsOwned
<1>5. /\ \A c \in Contracts : owner[c] = MultiSig => owner'[c] = MultiSig
      /\ \A step \in SetSteps : config[step] # 0 => config'[step] # 0
  BY <1>3
<1>6. ChainOK'
  BY <1>1, <1>3 DEF ChainOK
<1> QED
  BY <1>1, <1>2, <1>4, <1>5, <1>6 DEF Kept

LEMMA SettleType ==
    ASSUME DeploymentTypeOK, ArtifactsOwned,
           Send \/ Mine \/ DropTx \/ ManualSet \/ Edit
    PROVE  DeploymentTypeOK' /\ ArtifactsOwned' /\ Kept
<1>1. ChainOK /\ DiskOK /\ RunOK /\ OutsideOK
  BY DEF DeploymentTypeOK
<1>2. CASE Send
  <2> DEFINE tx == [step |-> Current, value |-> Value(Current)]
  <2>1. Current \in SendSteps /\ Value(Current) \in Nat \ {0}
    BY <1>1, <1>2, CurrentIsStep, ValueType DEF Send, SendSteps, OutsideOK
  <2>2. ChainOK' /\ DiskOK' /\ ArtifactsOwned' /\ Kept
    <3>1. /\ tx.step \in SendSteps /\ tx.value \in Nat \ {0}
          /\ Execute(tx, "deployer") /\ UNCHANGED <<network, disk, crashes>>
      BY <1>2, <2>1 DEF Send
    <3> HIDE DEF tx
    <3> QED
      BY <3>1, ExecuteType
  <2>3. OutsideOK'
    BY <1>2, TypeFrame DEF Send
  <2>4. RunOK'
    <3>1. /\ sending' = FALSE /\ outcome' \in {outcome, "failed"}
          /\ Advance \/ UNCHANGED pos
      BY <1>2 DEF Send, Fail
    <3>2. PositionOK(pos')
      BY <1>1, <1>2, <3>1, AdvanceType DEF Send, RunOK
    <3> QED
      BY <1>1, <3>1, <3>2 DEF RunOK
  <2> QED
    BY <2>2, <2>3, <2>4 DEF DeploymentTypeOK
<1>3. CASE Mine
  <2>1. PICK tx \in mempool : Execute(tx, "deployer")
    BY <1>3 DEF Mine
  <2>2. /\ UNCHANGED <<network, disk, offered, pos, sending, outcome, crashes>>
        /\ mempool' = {}
    BY <1>3 DEF Mine
  <2>3. ChainOK' /\ DiskOK' /\ ArtifactsOwned' /\ Kept
    BY <1>1, <2>1, <2>2, ExecuteType DEF OutsideOK
  <2>4. RunOK' /\ OutsideOK'
    BY <1>1, <2>2, TypeFrame DEF OutsideOK
  <2> QED
    BY <2>3, <2>4 DEF DeploymentTypeOK
<1>4. CASE DropTx
  <2>1. /\ UNCHANGED <<network, chain, disk, offered, pos, sending, outcome, crashes>>
        /\ mempool' = {}
    BY <1>4 DEF DropTx
  <2>2. OutsideOK'
    BY <1>1, <2>1 DEF OutsideOK
  <2> QED
    BY <2>1, <2>2, TypeFrame DEF DeploymentTypeOK
<1>5. CASE ManualSet
  <2>1. PICK tx \in log : Execute(tx, "multisig")
    BY <1>5 DEF ManualSet
  <2>2. UNCHANGED <<network, disk, offered, pos, sending, mempool, outcome, crashes>>
    BY <1>5 DEF ManualSet
  <2>3. tx.step \in SendSteps /\ tx.value \in Nat \ {0}
    BY <1>1 DEF DiskOK, SetSteps, SendSteps
  <2>4. ChainOK' /\ DiskOK' /\ ArtifactsOwned' /\ Kept
    BY <2>1, <2>2, <2>3, ExecuteType
  <2>5. RunOK' /\ OutsideOK'
    BY <2>2, TypeFrame
  <2> QED
    BY <2>4, <2>5 DEF DeploymentTypeOK
<1>6. CASE Edit
  <2>1. /\ UNCHANGED <<network, chain, disk, pos, sending, mempool, outcome, crashes>>
        /\ \E m \in Methods : offered' = [offered EXCEPT ![m] = @ + 1]
    BY <1>6 DEF Edit
  <2>2. OutsideOK'
    BY <1>1, <2>1 DEF OutsideOK
  <2> QED
    BY <2>1, <2>2, TypeFrame DEF DeploymentTypeOK
<1> QED
  BY <1>2, <1>3, <1>4, <1>5, <1>6

LEMMA TypeNext ==
    ASSUME DeploymentTypeOK, ArtifactsOwned, [Next]_vars
    PROVE  DeploymentTypeOK' /\ ArtifactsOwned' /\ Kept
<1>1. CASE UNCHANGED vars
  BY <1>1, TypeFrame DEF vars, chain, disk, DeploymentTypeOK
<1> QED
  BY <1>1, WalkType, WorkType, SettleType DEF Next, RunStep


LEMMA FinishedStays ==
    ASSUME Kept, DeploymentTypeOK, NEW step \in Steps, Finished(step)
    PROVE  Finished(step)'
<1>0. PICK s \in 1 .. 5 : \E i \in StepsIn(s) : step = Scripts[s][i]
  BY StepPlace
<1>1. PICK i \in StepsIn(s) : step = Scripts[s][i]
  BY <1>0
<1>2. /\ step.kind \in {"deploy", "set", "handover", "save"}
      /\ step.kind = "set" => step \in SetSteps
      /\ step.kind = "handover" => step.contract \in Contracts
      /\ step.kind = "save" => step.method \in Methods
  BY <1>1, StepKinds, ContractsAreDeployables DEF SetSteps
<1>3. MultiSig' = MultiSig
  BY DEF Kept, MultiSig
<1>4. CASE step.kind = "deploy"
  BY <1>4 DEF Finished, Kept
<1>5. CASE step.kind = "set"
  BY <1>2, <1>5 DEF Finished, Kept
<1>6. CASE step.kind = "handover"
  BY <1>2, <1>3, <1>6 DEF Finished, Kept
<1>7. CASE step.kind = "save"
  BY <1>2, <1>7 DEF Finished, Kept
<1> QED
  BY <1>2, <1>4, <1>5, <1>6, <1>7

LEMMA HiddenStays ==
    ASSUME Kept, DeploymentTypeOK, DeploymentTypeOK',
           NEW s \in 1 .. 5, NEW i \in StepsIn(s), Hidden(s, i)
    PROVE  Hidden(s, i)'
<1>1. crashes \in Nat /\ crashes' \in Nat /\ crashes <= crashes'
  BY DEF DeploymentTypeOK, OutsideOK, Kept
<1>2. SkipsDeployed' <=> SkipsDeployed
  BY DEF Kept, SkipsDeployed
<1> QED
  BY <1>1, <1>2 DEF Hidden

\* A step that a run goes past is done.
Worked ==
    \/ DeployStep \/ SaveStep
    \/ Check /\ sending' = FALSE
    \/ Send /\ outcome' = "running"

LEMMA StepFinishes ==
    ASSUME DeploymentTypeOK, ArtifactsOwned, Worked,
           NEW s \in 1 .. 5, NEW p \in StepsIn(s), pos = <<s, p>>
    PROVE  Advance /\ Finished(Scripts[s][p])'
<1> DEFINE step == Scripts[s][p]
<1>1. /\ step \in Steps /\ Current = step
      /\ step.kind \in {"deploy", "set", "handover", "save"}
      /\ step.kind = "set" => step \in SetSteps
      /\ step.kind \in {"set", "handover"} => step \in SendSteps
      /\ step.kind \in {"deploy", "handover"} => step.contract \in Contracts
      /\ step.kind = "save" => step.method \in Methods
  BY ScriptsPlaced, StepKinds, ContractsAreDeployables DEF SetSteps, SendSteps, Current
<1>2. ChainOK /\ DiskOK /\ OutsideOK /\ MultiSig' = MultiSig
  BY DEF DeploymentTypeOK, Worked, DeployStep, SaveStep, Check, Send, MultiSig
<1> HIDE DEF step
<1>3. CASE DeployStep
  <2>1. Advance /\ step.kind = "deploy" /\ step.contract \in artifacts'
    BY <1>1, <1>3 DEF DeployStep, AtStep
  <2> QED
    BY <2>1 DEF Finished, step
<1>4. CASE SaveStep
  <2>1. /\ Advance /\ step.kind = "save"
        /\ snapshots' = [snapshots EXCEPT ![step.method] = offered[step.method]]
    BY <1>1, <1>4 DEF SaveStep, AtStep
  <2>2. snapshots'[step.method] # 0
    BY <1>1, <1>2, <2>1 DEF DiskOK, OutsideOK
  <2> QED
    BY <2>1, <2>2 DEF Finished, step
<1>5. CASE Check /\ sending' = FALSE
  <2>1. /\ Advance /\ UNCHANGED <<owner, config>>
        /\ step.kind \in {"set", "handover"}
        /\ ~Needed(step) \/ (step.kind = "set" /\ Report(step))
    BY <1>1, <1>5 DEF Check, AtStep, chain
  <2>2. CASE step.kind = "set"
    <3>1. config'[step] # 0 \/ \E tx \in log' : tx.step = step
      <4>1. CASE ~Needed(step)
        BY <2>1, <2>2, <4>1 DEF Needed
      <4>2. CASE Report(step)
        <5>1. [step |-> step, value |-> Value(step)] \in log'
          BY <4>2 DEF Report
        <5> QED
          BY <5>1
      <4> QED
        BY <2>1, <4>1, <4>2
    <3> QED
      BY <2>1, <2>2, <3>1 DEF Finished, step
  <2>3. CASE step.kind = "handover"
    BY <1>1, <1>2, <2>1, <2>3 DEF Finished, Needed, step
  <2> QED
    BY <2>1, <2>2, <2>3
<1>6. CASE Send /\ outcome' = "running"
  <2>1. /\ Advance /\ Accepted(step, "deployer")
        /\ step.kind \in {"set", "handover"}
        /\ Execute([step |-> step, value |-> Value(step)], "deployer")
    BY <1>1, <1>6 DEF Send, Fail, AtStep
  <2>2. CASE step.kind = "handover"
    <3>1. owner' = [owner EXCEPT ![step.contract] = MultiSig]
      BY <2>1, <2>2 DEF Execute
    <3>2. owner'[step.contract] = MultiSig
      BY <1>1, <1>2, <2>2, <3>1 DEF ChainOK
    <3> QED
      BY <1>2, <2>1, <2>2, <3>2 DEF Finished, step
  <2>3. CASE step.kind = "set"
    <3>1. config' = [config EXCEPT ![step] = Value(step)]
      BY <2>1, <2>3 DEF Execute
    <3>2. config'[step] # 0
      BY <1>1, <1>2, <2>3, <3>1, ValueType DEF ChainOK, OutsideOK
    <3> QED
      BY <2>1, <2>3, <3>2 DEF Finished, step
  <2> QED
    BY <2>1, <2>2, <2>3
<1> QED
  BY <1>3, <1>4, <1>5, <1>6 DEF Worked, step

LEMMA Moves ==
    ASSUME DeploymentTypeOK, [Next]_vars
    PROVE  \/ outcome' \in {"failed", "crashed"}
           \/ UNCHANGED <<pos, outcome>>
           \/ Start \/ Finish \/ EnterScript \/ Worked
<1>1. CASE Check
  <2>1. sending = FALSE
    BY <1>1 DEF Check, DeploymentTypeOK, RunOK
  <2> QED
    BY <1>1, <2>1 DEF Check, Worked
<1>2. CASE Send
  BY <1>2 DEF Send, Fail, Worked, AtStep, Running
<1>3. CASE DeployStep \/ SaveStep
  BY <1>3 DEF Worked
<1>4. CASE GiveUp \/ Crash
  BY <1>4 DEF GiveUp, Fail, Crash
<1>5. CASE Mine \/ DropTx \/ ManualSet \/ Edit \/ UNCHANGED vars
  BY <1>5 DEF Mine, DropTx, ManualSet, Edit, vars
<1> QED
  BY <1>1, <1>2, <1>3, <1>4, <1>5 DEF Next, RunStep

\* The place where a run stands when it takes a step of a script.
LEMMA WorkedAt ==
    ASSUME DeploymentTypeOK, Worked
    PROVE  /\ pos[1] \in 1 .. 5 /\ pos[2] \in StepsIn(pos[1])
           /\ pos = <<pos[1], pos[2]>> /\ outcome = "running" /\ outcome' = "running"
<1>1. AtStep({"deploy"}) \/ AtStep({"save"}) \/ AtStep({"set", "handover"})
  BY DEF Worked, DeployStep, SaveStep, Check, Send
<1>2. outcome' = outcome \/ outcome' = "running"
  BY DEF Worked, DeployStep, SaveStep, Check
<1>3. pos = <<pos[1], pos[2]>>
  BY DEF DeploymentTypeOK, RunOK, PositionOK
<1> QED
  BY <1>1, <1>2, <1>3, CurrentIsStep DEF Running

LEMMA PassedNext ==
    ASSUME DeploymentTypeOK, ArtifactsOwned, PassedIsDone, MarkersAreEarned, SmoothSoFar,
           [Next]_vars
    PROVE  PassedIsDone'
<1>1. DeploymentTypeOK' /\ Kept
  BY TypeNext
<1>2. ASSUME NEW s \in 1 .. 5, NEW i \in StepsIn(s)
      PROVE  /\ Finished(Scripts[s][i]) => Finished(Scripts[s][i])'
             /\ Hidden(s, i) => Hidden(s, i)'
  BY <1>1, ScriptsPlaced, FinishedStays, HiddenStays
<1>3. CASE outcome' \in {"failed", "crashed"}
  BY <1>3 DEF PassedIsDone
<1>4. CASE UNCHANGED <<pos, outcome>>
  BY <1>2, <1>4 DEF PassedIsDone
<1>5. CASE Start
  <2>1. pos' = <<1, 0>> /\ outcome' = "running"
    BY <1>5 DEF Start
  <2>2. \A s \in 1 .. 5 : \A i \in StepsIn(s) : ~(s < 1) /\ ~(i < 0)
    BY DEF StepsIn
  <2> QED
    BY <2>1, <2>2 DEF PassedIsDone
<1>6. CASE Finish
  <2>1. outcome = "running" /\ pos' = pos /\ pos[1] = 6
    BY <1>6, ScriptLengths DEF Finish, Running, DeploymentTypeOK, RunOK, PositionOK
  <2> QED
    BY <1>2, <2>1 DEF PassedIsDone
<1>7. CASE EnterScript
  <2>1. PICK t \in 1 .. 5 : pos = <<t, 0>>
    <3>1. pos[1] \in 1 .. 5 /\ pos = <<pos[1], 0>>
      BY <1>7, ScriptLengths DEF EnterScript, DeploymentTypeOK, RunOK, PositionOK
    <3> QED
      BY <3>1
  <2>2. outcome = "running"
    BY <1>7 DEF EnterScript, Running
  <2>3. \/ outcome' = "failed"
        \/ pos' = <<t, 1>> /\ outcome' = outcome
        \/ /\ pos' = <<t + 1, 0>> /\ outcome' = outcome
           /\ SkipsDeployed /\ Marker[t] \in artifacts
    BY <1>7, <2>1 DEF EnterScript, Fail
  <2>4. \A s \in 1 .. 5 : \A i \in StepsIn(s) : i \in Nat /\ ~(i < 0) /\ ~(i < 1)
    BY DEF StepsIn
  <2>5. CASE pos' = <<t, 1>> /\ outcome' = outcome
    BY <1>2, <2>1, <2>2, <2>4, <2>5 DEF PassedIsDone
  <2>6. CASE /\ pos' = <<t + 1, 0>> /\ outcome' = outcome
             /\ SkipsDeployed /\ Marker[t] \in artifacts
    <3>1. ASSUME NEW i \in StepsIn(t)
          PROVE  Finished(Scripts[t][i]) \/ Hidden(t, i)
      <4> DEFINE j == PlaceOf(Marker[t])[2]
      <4>1. Marker[t] \in Contracts
        BY <2>6 DEF DeploymentTypeOK, DiskOK
      <4>2. j \in StepsIn(t) /\ Scripts[t][j] = DeployOf(Marker[t])
        BY <4>1, MarkerPlaces
      <4>3. i <= j => Finished(Scripts[t][i])
        BY <2>6 DEF MarkersAreEarned
      <4>4. i > j /\ crashes > 0 => Hidden(t, i)
        BY <2>6, <4>2 DEF Hidden, StepsIn
      <4>5. crashes = 0 => Finished(Scripts[t][i])
        BY <2>1, <2>6 DEF SmoothSoFar
      <4>6. crashes = 0 \/ crashes > 0
        BY DEF DeploymentTypeOK, OutsideOK
      <4>7. i <= j \/ i > j
        BY <4>2 DEF StepsIn
      <4> QED
        BY <4>3, <4>4, <4>5, <4>6, <4>7
    <3>2. ASSUME NEW s \in 1 .. 5, NEW i \in StepsIn(s), s < t + 1
          PROVE  Finished(Scripts[s][i])' \/ Hidden(s, i)'
      BY <1>2, <2>1, <2>2, <3>1, <3>2 DEF PassedIsDone
    <3> QED
      BY <2>2, <2>4, <2>6, <3>2 DEF PassedIsDone
  <2> QED
    BY <2>3, <2>5, <2>6 DEF PassedIsDone
<1>8. CASE Worked
  <2>1. PICK t \in 1 .. 5 : \E p \in StepsIn(t) : pos = <<t, p>>
    BY <1>8, WorkedAt
  <2>2. PICK p \in StepsIn(t) : pos = <<t, p>>
    BY <2>1
  <2>3. Advance /\ Finished(Scripts[t][p])'
    BY <1>8, <2>2, StepFinishes
  <2>4. \/ pos' = <<t, p + 1>>
        \/ pos' = <<t + 1, 0>> /\ p = Len(Scripts[t])
    BY <1>8, <2>2, <2>3, WorkedAt DEF Advance, Next1, StepsIn
  <2>5. outcome = "running" /\ outcome' = "running"
    BY <1>8, WorkedAt
  <2>6. ASSUME NEW i \in StepsIn(t), i <= p
        PROVE  Finished(Scripts[t][i])'
    <3>1. i = p \/ i < p
      BY <2>6 DEF StepsIn
    <3> QED
      BY <1>2, <2>2, <2>3, <2>5, <3>1 DEF PassedIsDone
  <2>7. ASSUME NEW s \in 1 .. 5, NEW i \in StepsIn(s), s < t
        PROVE  Finished(Scripts[s][i])' \/ Hidden(s, i)'
    BY <1>2, <2>2, <2>5, <2>7 DEF PassedIsDone
  <2>8. CASE pos' = <<t, p + 1>>
    BY <2>5, <2>6, <2>7, <2>8 DEF PassedIsDone, StepsIn
  <2>9. CASE pos' = <<t + 1, 0>> /\ p = Len(Scripts[t])
    <3>1. \A i \in StepsIn(t) : i <= p
      BY <2>9 DEF StepsIn
    <3>2. \A s \in 1 .. 5 : s < t + 1 => s = t \/ s < t
      OBVIOUS
    <3>3. \A s \in 1 .. 5 : \A i \in StepsIn(s) : ~(i < 0)
      BY DEF StepsIn
    <3> QED
      BY <2>5, <2>6, <2>7, <2>9, <3>1, <3>2, <3>3 DEF PassedIsDone
  <2> QED
    BY <2>4, <2>8, <2>9
<1> QED
  BY <1>3, <1>4, <1>5, <1>6, <1>7, <1>8, Moves

\* A marker comes with the step that deploys it.
LEMMA NewMarker ==
    ASSUME DeploymentTypeOK, [Next]_vars, NEW s \in 1 .. 5,
           Marker[s] \in artifacts', Marker[s] \notin artifacts
    PROVE  DeployStep /\ pos = <<s, PlaceOf(Marker[s])[2]>>
<1>1. DeployStep
  BY DEF Next, RunStep, Start, EnterScript, Finish, SaveStep, Check, Send, GiveUp,
         Crash, Mine, DropTx, ManualSet, Edit, vars, disk
<1>2. PICK t \in 1 .. 5 : \E p \in StepsIn(t) : pos = <<t, p>>
  BY <1>1, WorkedAt DEF Worked
<1>3. PICK p \in StepsIn(t) : pos = <<t, p>>
  BY <1>2
<1>4. Scripts[t][p].kind = "deploy" /\ Scripts[t][p].contract = Marker[s]
  BY <1>1, <1>3 DEF DeployStep, AtStep, Current
<1>5. Marker[s] \in Contracts /\ PlaceOf(Marker[s]) = <<t, p>>
  BY <1>4, StepKinds, ContractsAreDeployables
<1>6. PlaceOf(Marker[s])[1] = s
  BY <1>5, MarkerPlaces
<1> QED
  BY <1>1, <1>3, <1>5, <1>6

LEMMA MarkersNext ==
    ASSUME DeploymentTypeOK, ArtifactsOwned, PassedIsDone, MarkersAreEarned,
           [Next]_vars
    PROVE  MarkersAreEarned'
<1> SUFFICES ASSUME NEW s \in 1 .. 5, Marker[s] \in artifacts', NEW i \in StepsIn(s),
                    i <= PlaceOf(Marker[s])[2]
             PROVE  Finished(Scripts[s][i])'
  BY DEF MarkersAreEarned
<1>1. Finished(Scripts[s][i]) => Finished(Scripts[s][i])'
  BY TypeNext, ScriptsPlaced, FinishedStays
<1>2. CASE Marker[s] \in artifacts
  BY <1>1, <1>2 DEF MarkersAreEarned
<1>3. CASE Marker[s] \notin artifacts
  <2> DEFINE p == PlaceOf(Marker[s])[2]
  <2>1. DeployStep /\ pos = <<s, p>>
    BY <1>3, NewMarker
  <2>2. /\ p \in StepsIn(s) /\ outcome = "running"
    BY <2>1, WorkedAt DEF Worked
  <2>3. Finished(Scripts[s][p])'
    BY <2>1, <2>2, StepFinishes DEF Worked
  <2>4. i < p => Finished(Scripts[s][i])
    BY <2>1, <2>2 DEF PassedIsDone
  <2>5. i = p \/ i < p
    BY <2>2 DEF StepsIn
  <2> QED
    BY <1>1, <2>3, <2>4, <2>5
<1> QED
  BY <1>2, <1>3

\* A contract is deployed before its script sets it or hands it over.
LEMMA DeployedBefore ==
    ASSUME DeploymentTypeOK, ArtifactsOwned, PassedIsDone, Running,
           NEW s \in 1 .. 5, NEW p \in StepsIn(s), pos = <<s, p>>,
           Scripts[s][p].kind \in {"set", "handover"},
           PlaceOf(Scripts[s][p].contract)[1] = s
    PROVE  owner[Scripts[s][p].contract] \in {"deployer", MultiSig}
<1> DEFINE c == Scripts[s][p].contract
           j == PlaceOf(c)[2]
<1>1. c \in Deployables /\ j < p
  BY StepKinds
<1>2. j \in StepsIn(s) /\ Scripts[s][j] = DeployOf(c)
  BY <1>1, DeployedAtPlace
<1>3. Finished(DeployOf(c))
  BY <1>1, <1>2 DEF PassedIsDone, Running
<1>4. c \in artifacts
  BY <1>3 DEF Finished, DeployOf
<1>5. c \in Contracts
  BY <1>1, ContractsAreDeployables
<1> QED
  BY <1>4, <1>5 DEF ArtifactsOwned, DeploymentTypeOK, ChainOK

\* What a helper decides to send is accepted if nothing intervenes.
LEMMA CheckedIsAccepted ==
    ASSUME DeploymentTypeOK, ArtifactsOwned, PassedIsDone, Check, sending' # FALSE
    PROVE  Accepted(Current, "deployer")
<1>1. PICK s \in 1 .. 5 : \E p \in StepsIn(s) : pos = <<s, p>>
  BY CurrentIsStep DEF Check, DeploymentTypeOK, RunOK, PositionOK
<1>2. PICK p \in StepsIn(s) : pos = <<s, p>>
  BY <1>1
<1>3. /\ Needed(Current) /\ Current = Scripts[s][p] /\ Running
      /\ Current.kind \in {"set", "handover"}
      /\ Current.kind = "handover" \/ owner[Current.contract] = "deployer"
  BY <1>2 DEF Check, AtStep, Current, DeploymentTypeOK, RunOK
<1>4. CASE Current.kind = "handover"
  <2>1. owner[Current.contract] \in {"deployer", MultiSig}
    BY <1>2, <1>3, <1>4, StepKinds, DeployedBefore
  <2> QED
    BY <1>3, <1>4, <2>1 DEF Needed, Accepted
<1>5. CASE Current.kind # "handover"
  BY <1>3, <1>5 DEF Needed, Accepted
<1> QED
  BY <1>4, <1>5

\* It stays so until it is sent, whatever the multisig signs meanwhile.
LEMMA AcceptedStays ==
    ASSUME DeploymentTypeOK, ArtifactsOwned, PassedIsDone, [Next]_vars, ~Crash,
           mempool = {}, sending => Accepted(Current, "deployer"), sending'
    PROVE  Accepted(Current, "deployer")'
<1>1. ~Mine /\ ~DropTx /\ ~GiveUp
  BY DEF Mine, DropTx, GiveUp
<1>2. CASE Check
  <2>1. sending' # FALSE /\ UNCHANGED <<pos, owner, config>>
    BY <1>2 DEF Check, chain
  <2>2. Accepted(Current, "deployer")
    BY <1>2, <2>1, CheckedIsAccepted
  <2> QED
    BY <2>1, <2>2 DEF Accepted, Current
<1>3. CASE ManualSet
  <2>1. UNCHANGED <<pos, sending, outcome, network>>
    BY <1>3 DEF ManualSet
  <2>2. PICK tx \in log : Accepted(tx.step, "multisig") /\ Execute(tx, "multisig")
    BY <1>3 DEF ManualSet
  <2>3. /\ Accepted(Current, "deployer") /\ tx.step \in SetSteps /\ config \in [SetSteps -> Nat]
        /\ Current \in SendSteps
    <3>1. AtStep({"set", "handover"}) /\ Accepted(Current, "deployer")
      BY <2>1 DEF DeploymentTypeOK, RunOK
    <3> QED
      BY <3>1, CurrentIsStep DEF SendSteps, DeploymentTypeOK, DiskOK, ChainOK
  <2>4. tx.step # Current /\ tx.step.kind # "handover"
    BY <2>2, <2>3 DEF Accepted, SetSteps
  <2>5. UNCHANGED owner /\ config' = [config EXCEPT ![tx.step] = tx.value]
    BY <2>2, <2>4 DEF Execute
  <2>6. Current \in SetSteps => config'[Current] = config[Current]
    BY <2>3, <2>4, <2>5
  <2>7. Current.kind = "handover" \/ Current \in SetSteps
    BY <2>3, SendStepKinds
  <2>8. Current' = Current
    BY <2>1 DEF Current
  <2> QED
    BY <2>3, <2>5, <2>6, <2>7, <2>8 DEF Accepted
<1>4. CASE UNCHANGED vars
  BY <1>4 DEF vars, Accepted, Current
<1>5. CASE ~Check /\ ~ManualSet /\ ~(UNCHANGED vars)
  <2>1. sending => Running /\ pos[2] > 0 /\ pos[1] \in 1 .. 5
                   /\ Current.kind \in {"set", "handover"}
    BY CurrentIsStep DEF DeploymentTypeOK, RunOK, AtStep
  <2>2. Start \/ EnterScript \/ Finish \/ DeployStep \/ SaveStep \/ Send \/ Edit
    BY <1>1, <1>5 DEF Next, RunStep
  <2>3. sending' = FALSE \/ sending' = sending
    BY <2>2 DEF Start, EnterScript, Finish, DeployStep, SaveStep, Send, Edit, Fail
  <2>4. sending => ~EnterScript /\ ~Finish /\ ~Edit
    <3>1. /\ EnterScript => pos[2] = 0
          /\ Finish => pos[1] > 5
          /\ Edit => ~Running
      BY ScriptLengths DEF EnterScript, Finish, Edit
    <3> QED
      BY <2>1, <3>1
  <2>5. sending => ~(DeployStep \/ SaveStep)
    BY <2>1 DEF DeployStep, SaveStep, AtStep
  <2>6. Start \/ Send => sending' = FALSE
    BY DEF Start, Send, Fail
  <2> QED
    BY <2>2, <2>3, <2>4, <2>5, <2>6
<1> QED
  BY <1>2, <1>3, <1>4, <1>5

LEMMA SmoothNext ==
    ASSUME DeploymentTypeOK, ArtifactsOwned, PassedIsDone, MarkersAreEarned, SmoothSoFar,
           [Next]_vars
    PROVE  SmoothSoFar'
<1>1. DeploymentTypeOK' /\ Kept /\ PassedIsDone'
  BY TypeNext, PassedNext
<1> SUFFICES ASSUME crashes' = 0
             PROVE  /\ mempool' = {}
                    /\ sending' => Accepted(Current, "deployer")'
                    /\ \A s \in 1 .. 5 : Marker[s] \in artifacts' =>
                          \/ \A i \in StepsIn(s) : Finished(Scripts[s][i])'
                          \/ Running' /\ pos'[1] = s /\ pos'[2] > 0
  BY DEF SmoothSoFar
<1>2. crashes = 0 /\ ~Crash
  BY <1>1 DEF DeploymentTypeOK, OutsideOK, Kept, Crash
<1>3. mempool = {} /\ ~Mine /\ ~DropTx /\ ~GiveUp
  BY <1>2 DEF SmoothSoFar, Mine, DropTx, GiveUp
<1>4. mempool' = {}
  BY <1>2, <1>3
     DEF Next, RunStep, Start, EnterScript, Finish, DeployStep, SaveStep, Check, Send,
         ManualSet, Edit, vars
<1>5. sending => Accepted(Current, "deployer")
  BY <1>2 DEF SmoothSoFar
<1>6. ASSUME sending'
      PROVE  Accepted(Current, "deployer")'
  BY <1>2, <1>3, <1>5, <1>6, AcceptedStays
<1>7. ASSUME NEW s \in 1 .. 5, Marker[s] \in artifacts'
      PROVE  \/ \A i \in StepsIn(s) : Finished(Scripts[s][i])'
             \/ Running' /\ pos'[1] = s /\ pos'[2] > 0
  <2>1. \A i \in StepsIn(s) : Finished(Scripts[s][i]) => Finished(Scripts[s][i])'
    BY <1>1, ScriptsPlaced, FinishedStays
  <2>2. CASE Marker[s] \in artifacts /\ \A i \in StepsIn(s) : Finished(Scripts[s][i])
    BY <2>1, <2>2
  <2>3. CASE Running /\ pos[1] = s /\ pos[2] > 0
    <3>1. CASE UNCHANGED <<pos, outcome>>
      BY <2>3, <3>1 DEF Running
    <3>2. CASE Worked
      <4>1. /\ outcome' = "running" /\ pos[2] \in StepsIn(s) /\ pos = <<s, pos[2]>>
        BY <2>3, <3>2, WorkedAt
      <4>2. Advance
        BY <3>2, <4>1, StepFinishes
      <4>3. pos' = <<s, pos[2] + 1>> \/ pos' = <<s + 1, 0>>
        BY <2>3, <4>2 DEF Advance, Next1
      <4>4. CASE pos' = <<s, pos[2] + 1>>
        BY <4>1, <4>4 DEF Running, StepsIn
      <4>5. CASE pos' = <<s + 1, 0>>
        <5>1. pos'[1] = s + 1 /\ s < s + 1
          BY <4>5
        <5>2. \A i \in StepsIn(s) : Finished(Scripts[s][i])' \/ Hidden(s, i)'
          BY <1>1, <4>1, <5>1 DEF PassedIsDone
        <5>3. \A i \in StepsIn(s) : ~Hidden(s, i)'
          BY DEF Hidden
        <5> QED
          BY <5>2, <5>3
      <4> QED
        BY <4>3, <4>4, <4>5
    <3>3. CASE Start \/ Finish \/ EnterScript
      BY <2>3, <3>3, ScriptLengths DEF Start, Finish, EnterScript
    <3>4. outcome' \notin {"failed", "crashed"} \/ UNCHANGED <<pos, outcome>>
      <4>1. Send => Accepted(Current, "deployer")
        BY <1>5 DEF Send
      <4> QED
        BY <1>2, <1>3, <2>3, <4>1
           DEF Next, RunStep, Start, Finish, EnterScript, DeployStep, SaveStep, Check,
               Send, ManualSet, Edit, vars, Running
    <3> QED
      BY <3>1, <3>2, <3>3, <3>4, Moves
  <2>4. CASE Marker[s] \notin artifacts
    <3>1. DeployStep /\ pos = <<s, PlaceOf(Marker[s])[2]>>
      BY <1>7, <2>4, NewMarker
    <3>2. Running /\ pos[1] = s /\ pos[2] > 0
      BY <3>1 DEF DeployStep, AtStep
    <3> QED
      BY <2>3, <3>2
  <2>5. Marker[s] \in artifacts =>
          \/ \A i \in StepsIn(s) : Finished(Scripts[s][i])
          \/ Running /\ pos[1] = s /\ pos[2] > 0
    BY <1>2 DEF SmoothSoFar
  <2> QED
    BY <2>2, <2>3, <2>4, <2>5
<1> QED
  BY <1>4, <1>6, <1>7


-----------------------------------------------------------------------------
(* Wiring.                                                                   *)

LEMMA WiredPlace ==
    ASSUME NEW c \in Contracts, NEW step \in Wired(c)
    PROVE  LET s == PlaceOf(c)[1]
           IN  /\ s \in 1 .. 5 /\ step.contract = c /\ step \in SetSteps
               /\ ScriptOf(step.what) = s
               /\ \E i \in StepsIn(s) : step = Scripts[s][i]
<1>1. PICK s \in 1 .. 5 : step \in Range(Scripts[s]) /\ HandOver(c) \in Range(Scripts[s])
  BY DEF Wired
<1>2. DOMAIN Scripts[s] = StepsIn(s)
  BY ScriptLengths
     DEF StepsIn, Scripts, System, UnifiedVerifier, AddMethod, AcrossHook
<1>3. PICK i \in StepsIn(s) : step = Scripts[s][i]
  BY <1>1, <1>2 DEF Range
<1>4. PICK k \in StepsIn(s) : HandOver(c) = Scripts[s][k]
  BY <1>1, <1>2 DEF Range
<1>5. HandOver(c).kind = "handover" /\ HandOver(c).contract = c
  BY DEF HandOver
<1>6. PlaceOf(c)[1] = s
  BY <1>4, <1>5, StepKinds
<1>7. step \in SetSteps /\ step.kind = "set" /\ step.contract = c
  BY DEF Wired, SetSteps
<1>8. ScriptOf(step.what) = s
  BY <1>3, <1>7, StepKinds
<1> QED
  BY <1>3, <1>6, <1>7, <1>8

\* A run that is about to hand a contract over has wired it.
LEMMA WiredBefore ==
    ASSUME DeploymentTypeOK, PassedIsDone, WiredFirst, AtStep({"set", "handover"}),
           NEW c \in Contracts, Current = HandOver(c), NEW step \in Wired(c)
    PROVE  config[step] # 0
<1>1. PICK s \in 1 .. 5 : \E p \in StepsIn(s) : pos = <<s, p>>
  BY CurrentIsStep DEF DeploymentTypeOK, RunOK, PositionOK
<1>2. PICK p \in StepsIn(s) : pos = <<s, p>>
  BY <1>1
<1>3. Scripts[s][p] = HandOver(c) /\ outcome = "running"
  BY <1>2 DEF Current, AtStep, Running
<1>4. PlaceOf(c)[1] = s /\ LastSet[s] < p
  <2>1. Scripts[s][p].kind = "handover" /\ Scripts[s][p].contract = c
    BY <1>3 DEF HandOver
  <2> QED
    BY <2>1, StepKinds
<1>5. PICK i \in StepsIn(s) : step = Scripts[s][i]
  BY <1>4, WiredPlace
<1>6. step \in SetSteps /\ step.kind = "set"
  BY WiredPlace DEF SetSteps
<1>7. i <= LastSet[s]
  BY <1>5, <1>6, StepKinds
<1>8. LastSet[s] \in Nat
  <2>1. s = 1 \/ s = 2 \/ s = 3 \/ s = 4 \/ s = 5
    OBVIOUS
  <2> QED
    BY <2>1 DEF LastSet
<1>9. i < p
  BY <1>4, <1>7, <1>8 DEF StepsIn
<1>10. Finished(step)
  BY <1>2, <1>3, <1>5, <1>9 DEF PassedIsDone
<1> QED
  BY <1>6, <1>10 DEF Finished, WiredFirst

LEMMA WiredNext ==
    ASSUME DeploymentTypeOK, ArtifactsOwned, PassedIsDone, WiredFirst, [Next]_vars
    PROVE  WiredFirst'
<1>1. Kept /\ ChainOK /\ DiskOK /\ RunOK /\ OutsideOK
  BY TypeNext DEF DeploymentTypeOK
<1> SUFFICES ASSUME NEW c \in Contracts, NEW step \in Wired(c)
             PROVE  /\ owner'[c] = "multisig" \/ (\E tx \in mempool' : tx.step = HandOver(c))
                          => config'[step] # 0
                    /\ \A tx \in log' : tx.step # step
  BY DEF WiredFirst
<1>2. step \in SetSteps /\ step.contract = c
  BY WiredPlace
<1>3. config[step] # 0 => config'[step] # 0
  BY <1>1, <1>2 DEF Kept
<1>4. HandOver(c).kind = "handover" /\ HandOver(c).contract = c
  BY DEF HandOver
<1>5. ASSUME owner'[c] = "multisig", owner[c] # "multisig"
      PROVE  config'[step] # 0
  <2>1. CASE Send
    <3> DEFINE tx == [step |-> Current, value |-> Value(Current)]
    <3>1. /\ tx.step = Current /\ tx.step \in SendSteps /\ tx.value \in Nat \ {0}
          /\ AtStep({"set", "handover"})
      BY <1>1, <2>1, CurrentIsStep, ValueType DEF Send, SendSteps, OutsideOK
    <3>2. Execute(tx, "deployer") /\ UNCHANGED network
      BY <2>1 DEF Send
    <3> HIDE DEF tx
    <3>3. tx.step = HandOver(c)
      BY <1>1, <1>5, <3>1, <3>2, ExecuteKeeps DEF ChainOK
    <3> QED
      BY <1>3, <3>1, <3>3, WiredBefore
  <2>2. CASE Mine
    <3>1. PICK tx \in mempool : Execute(tx, "deployer")
      BY <2>2 DEF Mine
    <3>2. UNCHANGED network
      BY <2>2 DEF Mine
    <3>3. tx.step = HandOver(c)
      BY <1>1, <1>5, <3>1, <3>2, ExecuteKeeps DEF ChainOK, OutsideOK
    <3> QED
      BY <1>3, <3>3 DEF WiredFirst
  <2>3. CASE ManualSet
    <3>1. PICK tx \in log : Execute(tx, "multisig")
      BY <2>3 DEF ManualSet
    <3>2. tx.step.kind # "handover"
      BY <1>1 DEF DiskOK, SetSteps
    <3>3. UNCHANGED owner
      BY <3>1, <3>2 DEF Execute
    <3> QED
      BY <1>5, <3>3
  <2>4. CASE DeployStep
    <3>1. UNCHANGED owner \/ owner' = [owner EXCEPT ![Current.contract] = "deployer"]
      BY <2>4 DEF DeployStep
    <3> QED
      BY <1>1, <1>5, <3>1 DEF ChainOK
  <2>5. CASE ~Send /\ ~Mine /\ ~ManualSet /\ ~DeployStep
    <3>1. UNCHANGED owner
      BY <2>5 DEF Next, RunStep, Start, EnterScript, Finish, SaveStep, Check, GiveUp,
                  Crash, DropTx, Edit, vars, chain
    <3> QED
      BY <1>5, <3>1
  <2> QED
    BY <2>1, <2>2, <2>3, <2>4, <2>5
<1>6. ASSUME NEW tx \in mempool', tx.step = HandOver(c)
      PROVE  config'[step] # 0
  <2>1. CASE tx \in mempool
    BY <1>3, <1>6, <2>1 DEF WiredFirst
  <2>2. CASE tx \notin mempool
    <3>1. Crash
      BY <2>2, <1>6 DEF Next, RunStep, Start, EnterScript, Finish, DeployStep, SaveStep,
                  Check, Send, GiveUp, Mine, DropTx, ManualSet, Edit, vars
    <3>2. sending /\ tx.step = Current
      BY <1>6, <2>2, <3>1 DEF Crash
    <3>3. AtStep({"set", "handover"})
      BY <1>1, <3>2 DEF RunOK
    <3> QED
      BY <1>3, <1>6, <3>2, <3>3, WiredBefore
  <2> QED
    BY <2>1, <2>2
<1>7. ASSUME NEW tx \in log', tx.step = step
      PROVE  FALSE
  <2>1. tx \notin log
    BY <1>7 DEF WiredFirst
  <2>2. Check
    BY <1>7, <2>1 DEF Next, RunStep, Start, EnterScript, Finish, DeployStep, SaveStep,
                  Send, GiveUp, Crash, Mine, DropTx, ManualSet, Edit, vars, disk
  <2>3. /\ Needed(Current) /\ Current.kind = "set" /\ owner[Current.contract] # "deployer"
        /\ tx.step = Current /\ Running
    BY <1>7, <2>1, <2>2 DEF Check, Report, AtStep
  <2>4. PICK s \in 1 .. 5 : \E p \in StepsIn(s) : pos = <<s, p>>
    BY <2>2, CurrentIsStep DEF Check, DeploymentTypeOK, RunOK, PositionOK
  <2>5. PICK p \in StepsIn(s) : pos = <<s, p>>
    BY <2>4
  <2>6. Scripts[s][p] = step
    BY <1>7, <2>3, <2>5 DEF Current
  <2>7. PlaceOf(c)[1] = s
    BY <2>3, <1>7, <2>6, StepKinds, WiredPlace
  <2>8. owner[c] = MultiSig
    BY <1>2, <1>7, <2>3, <2>5, <2>6, <2>7, DeployedBefore
  <2>9. config[step] # 0
    BY <1>2, <1>7, <2>3, <2>8, MultiSigIs DEF WiredFirst
  <2> QED
    BY <1>7, <2>3, <2>9 DEF Needed
<1> QED
  BY <1>3, <1>5, <1>6, <1>7 DEF WiredFirst

LEMMA DeploymentInit == Init => DeploymentInv
<1> SUFFICES ASSUME Init
             PROVE  DeploymentInv
  OBVIOUS
<1>1. DeploymentTypeOK
  <2>1. PositionOK(pos)
    BY Positions DEF Init
  <2>2. ChainOK /\ DiskOK
    BY DEF Init, ChainOK, DiskOK
  <2>3. OutsideOK
    BY DEF Init, OutsideOK
  <2>4. RunOK
    <3>1. sending = FALSE /\ outcome = "none"
      BY DEF Init
    <3> QED
      BY <2>1, <3>1 DEF RunOK
  <2> QED
    BY <2>2, <2>3, <2>4 DEF DeploymentTypeOK
<1>2. ArtifactsOwned /\ MarkersAreEarned /\ SmoothSoFar /\ PassedIsDone
  BY DEF Init, ArtifactsOwned, MarkersAreEarned, SmoothSoFar, PassedIsDone
<1>3. WiredFirst
  BY DEF Init, WiredFirst
<1> QED
  BY <1>1, <1>2, <1>3 DEF DeploymentInv

LEMMA DeploymentNext == DeploymentInv /\ [Next]_vars => DeploymentInv'
BY TypeNext, PassedNext, MarkersNext, SmoothNext, WiredNext DEF DeploymentInv

LEMMA DeploymentInvAlways == Init /\ [][Next]_vars => []DeploymentInv
BY DeploymentInit, DeploymentNext, PTL

LEMMA DeploymentInvHolds == Spec => []DeploymentInv
BY DeploymentInvAlways, PTL DEF Spec

\* However many runs crash, whatever transaction they leave in flight and
\* whenever the multisig signs: 00_deploy_system.ts gives the escrow and its
\* registry away only when they are wired.
THEOREM GivenAwayWired == Spec => []WiredBeforeHandover
<1>1. DeploymentInv => WiredBeforeHandover
  <2> SUFFICES ASSUME DeploymentInv, NEW s \in 1 .. Len(Scripts),
                      NEW set \in Range(Scripts[s]), set.kind = "set",
                      HandOver(set.contract) \in Range(Scripts[s]),
                      owner[set.contract] = "multisig"
               PROVE  config[set] # 0
    BY DEF WiredBeforeHandover
  <2>1. s \in 1 .. 5 /\ set \in SetSteps
    BY ScriptLengths DEF Steps, SetSteps
  <2>2. set.contract \in Contracts
    BY <2>1, SendStepKinds DEF SetSteps, SendSteps
  <2>3. set \in Wired(set.contract)
    BY <2>1 DEF Wired
  <2> QED
    BY <2>2, <2>3 DEF DeploymentInv, WiredFirst
<1> QED
  BY <1>1, DeploymentInvHolds, PTL

\* And a run that reports success has left undone only what comes, in its script,
\* after the artifact that makes the script skip itself, on a live network and
\* after a crash.
THEOREM OnlyMarkersHide == Spec => []UnfinishedOnlyBehindMarker
<1>1. DeploymentInv => UnfinishedOnlyBehindMarker
  <2> SUFFICES ASSUME DeploymentInv, outcome = "completed", NEW s \in 1 .. Len(Scripts),
                      NEW i \in 1 .. Len(Scripts[s])
               PROVE  Finished(Scripts[s][i]) \/ Hidden(s, i)
    BY DEF UnfinishedOnlyBehindMarker, Hidden
  <2>1. s \in 1 .. 5 /\ i \in StepsIn(s)
    BY ScriptLengths DEF StepsIn
  <2>2. s < pos[1]
    BY <2>1 DEF DeploymentInv, PassedIsDone
  <2> QED
    BY <2>1, <2>2 DEF DeploymentInv, PassedIsDone
<1> QED
  BY <1>1, DeploymentInvHolds, PTL

-----------------------------------------------------------------------------
(* Repeating the deployment works.  RerunsConverge is stated here without     *)
(* ENABLED, as the liveness properties of the escrow are: Fair... is a weak    *)
(* fairness with the tests of the step for what enables it, and "IsTested"     *)
(* says that where they pass the step is there to be taken.  That a bounded    *)
(* number of crashes comes to an end takes an induction over that number: it   *)
(* is the hypothesis CrashesStop.                                              *)

\* Nothing a crash left is pending, and what is about to be sent is accepted.
Calm == mempool = {} /\ (sending => Accepted(Current, "deployer"))

LEMMA StaysSettled ==
    ASSUME [Next]_vars, ~Crash, mempool = {}
    PROVE  mempool' = {}
BY DEF Next, RunStep, Start, EnterScript, Finish, DeployStep, SaveStep, Check, Send,
   GiveUp, Mine, DropTx, ManualSet, Edit, vars

LEMMA CalmStays ==
    ASSUME DeploymentInv, [Next]_vars, ~Crash, Calm
    PROVE  Calm'
<1>1. mempool' = {}
  BY StaysSettled DEF Calm
<1>2. sending' => Accepted(Current, "deployer")'
  BY AcceptedStays DEF Calm, DeploymentInv
<1> QED
  BY <1>1, <1>2 DEF Calm

LEMMA StepOfSending ==
    ASSUME DeploymentInv, sending, RunStep
    PROVE  Send
<1>1. /\ Running /\ pos[2] > 0 /\ pos[1] \in 1 .. 5
      /\ Current.kind \in {"set", "handover"}
  BY CurrentIsStep DEF DeploymentInv, DeploymentTypeOK, RunOK, AtStep
<1>2. /\ EnterScript => pos[2] = 0
      /\ Finish => pos[1] > 5
  BY ScriptLengths DEF EnterScript, Finish
<1>3. ~DeployStep /\ ~SaveStep /\ ~Check
  BY <1>1 DEF DeployStep, SaveStep, Check, AtStep
<1> QED
  BY <1>1, <1>2, <1>3 DEF RunStep

\* The run has got as far as step i of script s, or past it.
From(s, i) == Running /\ pos[1] = s /\ pos[2] >= i
At(s, i) == Running /\ pos = <<s, i>>
Ahead(s, i) == From(s, i + 1) \/ From(s + 1, 0)

LEMMA FromPosition ==
    ASSUME DeploymentTypeOK, NEW s \in 1 .. 5, NEW i \in Nat, From(s, i)
    PROVE  /\ At(s, i) \/ From(s, i + 1)
           /\ i <= Len(Scripts[s])
<1>1. /\ pos = <<s, pos[2]>> /\ pos[2] \in 0 .. Len(Scripts[s])
      /\ Len(Scripts[s]) \in Nat /\ pos[2] >= i /\ Running
  <2>1. s # 6
    OBVIOUS
  <2> QED
    BY <2>1, LengthsPositive DEF DeploymentTypeOK, RunOK, PositionOK, From
<1>2. pos[2] = i \/ pos[2] >= i + 1
  BY <1>1
<1> QED
  BY <1>1, <1>2 DEF At, From

\* In calm a run only moves on ...
LEMMA WorkIsProgress ==
    ASSUME DeploymentInv, NEW s \in 1 .. 5, NEW i \in Nat, At(s, i), Worked
    PROVE  Ahead(s, i)'
<1>1. /\ pos[1] = s /\ pos[2] = i /\ i \in StepsIn(s)
      /\ outcome' = "running" /\ pos = <<s, i>>
  BY WorkedAt DEF At, DeploymentInv
<1>2. Advance
  BY <1>1, StepFinishes DEF DeploymentInv
<1>3. pos' = <<s, i + 1>> \/ pos' = <<s + 1, 0>>
  BY <1>1, <1>2 DEF Advance, Next1
<1>4. s + 1 \in Nat /\ i + 1 \in Nat
  OBVIOUS
<1> QED
  BY <1>1, <1>3, <1>4 DEF Ahead, From, Running

LEMMA OnlyOnward ==
    ASSUME DeploymentInv, DeploymentInv', HasSpokePool, Calm, [Next]_vars, ~Crash,
           NEW s \in 1 .. 5, NEW i \in Nat, At(s, i)
    PROVE  \/ At(s, i)' /\ (sending => sending')
           \/ Ahead(s, i)'
<1>1. /\ Running /\ pos = <<s, i>> /\ pos[1] = s /\ pos[2] = i /\ DeploymentTypeOK
  BY DEF At, DeploymentInv
<1>2. ~GiveUp /\ (Send => Accepted(Current, "deployer"))
  BY DEF GiveUp, Send, Calm
<1>3. outcome' \notin {"failed", "crashed"} \/ UNCHANGED <<pos, outcome, sending>>
  <2>1. EnterScript => outcome' = outcome
    BY DEF EnterScript
  <2> QED
    BY <1>1, <1>2, <2>1 DEF Next, RunStep, Start, Finish, DeployStep, SaveStep, Check,
       Send, Mine, DropTx, ManualSet, Edit, vars, Running
<1>4. CASE UNCHANGED <<pos, outcome>> /\ ~Worked
  <2>1. sending => sending'
    <3>1. Check => ~sending
      BY DEF Check
    <3>2. ~Start /\ (Send => Worked)
      BY <1>1, <1>2 DEF Start, Send, Worked, Running
    <3> QED
      BY <1>1, <1>2, <1>4, <3>1, <3>2 DEF Next, RunStep, EnterScript, Finish, DeployStep,
         SaveStep, Mine, DropTx, ManualSet, Edit, vars, Fail, Running
  <2> QED
    BY <1>1, <1>4, <2>1 DEF At, Running
<1>5. CASE Worked
  BY <1>5, WorkIsProgress
<1>6. CASE EnterScript
  <2>1. i = 0 /\ (pos' = <<s + 1, 0>> \/ pos' = <<s, 1>>) /\ outcome' = "running"
    BY <1>1, <1>6, ScriptLengths DEF EnterScript, Running, Fail
  <2> QED
    BY <2>1 DEF Ahead, From, Running
<1>7. ~Start /\ ~Finish
  BY <1>1, ScriptLengths DEF Start, Finish
<1> QED
  BY <1>1, <1>3, <1>4, <1>5, <1>6, <1>7, Moves DEF At, Running

\* ... and each step of it moves on, though a helper takes two.
LEMMA StepsMoveOn ==
    ASSUME DeploymentInv, HasSpokePool, Calm, RunStep,
           NEW s \in 1 .. 5, NEW i \in Nat, At(s, i)
    PROVE  Ahead(s, i)' \/ (~sending /\ sending' /\ At(s, i)')
<1>1. /\ Running /\ pos = <<s, i>> /\ pos[1] = s /\ pos[2] = i /\ outcome = "running"
  BY DEF At, Running
<1>2. CASE EnterScript
  <2>1. i = 0 /\ (pos' = <<s + 1, 0>> \/ pos' = <<s, 1>>) /\ outcome' = "running"
    BY <1>1, <1>2, ScriptLengths DEF EnterScript, Running, Fail
  <2> QED
    BY <2>1 DEF Ahead, From, Running
<1>3. CASE Worked
  BY <1>3, WorkIsProgress
<1>4. ~Finish
  BY <1>1, ScriptLengths DEF Finish
<1>5. CASE Send
  <2>1. Worked
    BY <1>1, <1>5 DEF Send, Calm, Worked
  <2> QED
    BY <1>3, <2>1
<1>6. CASE Check /\ ~Worked
  BY <1>1, <1>6 DEF Check, Worked, At, Running
<1> QED
  BY <1>2, <1>3, <1>4, <1>5, <1>6 DEF RunStep, Worked

\* What a step of the run takes.
CanStep == Running /\ mempool = {}

FairStart  == []<>Running \/ []<><<Start>>_vars
FairRun    == []<>(~CanStep) \/ []<><<RunStep>>_vars
FairSettle == []<>(mempool = {}) \/ []<><<Mine \/ DropTx>>_vars

\* The state a run leaves by its next step.
Moved(p, isSending, result) ==
    <<network, artifacts, owner, config, offered, snapshots, log, p, isSending,
      mempool, result, crashes>>

AfterEntering ==
    IF SkipsDeployed /\ Marker[pos[1]] \in artifacts
    THEN Moved(<<pos[1] + 1, 0>>, sending, outcome)
    ELSE IF Scripts[pos[1]] = AcrossHook /\ ~HasSpokePool
    THEN Moved(pos, FALSE, "failed")
    ELSE Moved(<<pos[1], 1>>, sending, outcome)

AfterDeploying ==
    LET c == Current.contract
    IN  IF c \in artifacts THEN Moved(Next1(pos), sending, outcome)
        ELSE <<network, artifacts \union {c}, [owner EXCEPT ![c] = "deployer"], config,
               offered, snapshots, log, Next1(pos), sending, mempool, outcome, crashes>>

AfterSaving ==
    <<network, artifacts, owner, config, offered,
      [snapshots EXCEPT ![Current.method] = offered[Current.method]], log,
      Next1(pos), sending, mempool, outcome, crashes>>

AfterChecking ==
    IF ~Needed(Current) THEN Moved(Next1(pos), sending, outcome)
    ELSE IF Current.kind = "handover" \/ owner[Current.contract] = "deployer"
    THEN Moved(pos, TRUE, outcome)
    ELSE <<network, artifacts, owner, config, offered, snapshots,
           log \union {[step |-> Current, value |-> Value(Current)]},
           Next1(pos), sending, mempool, outcome, crashes>>

AfterSending ==
    IF ~Accepted(Current, "deployer") THEN Moved(pos, FALSE, "failed")
    ELSE IF Current.kind = "handover"
    THEN <<network, artifacts, [owner EXCEPT ![Current.contract] = MultiSig], config,
           offered, snapshots, log, Next1(pos), FALSE, mempool, outcome, crashes>>
    ELSE <<network, artifacts, owner, [config EXCEPT ![Current] = Value(Current)],
           offered, snapshots, log, Next1(pos), FALSE, mempool, outcome, crashes>>

AfterStep ==
    IF pos[1] = 6 THEN Moved(pos, sending, "completed")
    ELSE IF pos[2] = 0 THEN AfterEntering
    ELSE IF Current.kind = "deploy" THEN AfterDeploying
    ELSE IF Current.kind = "save" THEN AfterSaving
    ELSE IF sending THEN AfterSending
    ELSE AfterChecking

\* With nothing pending, every place of a run has its next step.
LEMMA StepIsTested ==
    ASSUME DeploymentInv, CanStep, vars' = AfterStep
    PROVE  <<RunStep>>_vars
<1>1. /\ Running /\ outcome = "running" /\ mempool = {} /\ PositionOK(pos)
      /\ sending \in BOOLEAN
      /\ sending => AtStep({"set", "handover"})
  BY DEF CanStep, Running, DeploymentInv, DeploymentTypeOK, RunOK
<1>2. /\ pos = <<pos[1], pos[2]>> /\ pos[1] \in 1 .. 6 /\ pos[2] \in Nat
      /\ pos[1] # 6 => Len(Scripts[pos[1]]) \in Nat /\ pos[2] <= Len(Scripts[pos[1]])
  BY <1>1, LengthsPositive DEF PositionOK
<1>3. CASE pos[1] = 6
  <2>1. vars' = Moved(pos, sending, "completed")
    BY <1>3 DEF AfterStep
  <2>2. /\ pos' = pos /\ outcome' = "completed"
        /\ UNCHANGED <<network, chain, disk, offered, sending, mempool, crashes>>
    BY <2>1 DEF vars, Moved, chain, disk
  <2>3. Finish
    BY <1>1, <1>3, <2>2, ScriptLengths DEF Finish
  <2> QED
    BY <1>1, <2>2, <2>3 DEF RunStep, vars
<1>4. Next1(pos) # pos /\ <<pos[1] + 1, 0>> # pos /\ (pos[2] = 0 => <<pos[1], 1>> # pos)
  BY <1>2 DEF Next1
<1>5. CASE pos[1] # 6 /\ pos[2] = 0
  <2>1. vars' = AfterEntering
    BY <1>5 DEF AfterStep
  <2>2. EnterScript
    <3>1. Running /\ pos[1] <= Len(Scripts) /\ pos[2] = 0
      BY <1>1, <1>2, <1>5, ScriptLengths
    <3>2. CASE SkipsDeployed /\ Marker[pos[1]] \in artifacts
      BY <2>1, <3>1, <3>2 DEF AfterEntering, EnterScript, Moved, vars, chain, disk
    <3>3. CASE ~(SkipsDeployed /\ Marker[pos[1]] \in artifacts)
      BY <2>1, <3>1, <3>3 DEF AfterEntering, EnterScript, Moved, vars, Fail, chain, disk
    <3> QED
      BY <3>2, <3>3
  <2>3. pos' # pos \/ outcome' # outcome
    BY <1>1, <1>4, <1>5, <2>1 DEF AfterEntering, Moved, vars
  <2> QED
    BY <2>2, <2>3 DEF RunStep, vars
<1>6. CASE pos[1] # 6 /\ pos[2] # 0
  <2>1. /\ Current.kind \in {"deploy", "set", "handover", "save"}
        /\ pos[1] <= Len(Scripts) /\ pos[2] > 0
    <3>1. pos[1] \in 1 .. 5 /\ pos[2] \in StepsIn(pos[1])
      BY <1>2, <1>6 DEF StepsIn
    <3> QED
      BY <3>1, StepKinds, ScriptLengths DEF Current, StepsIn
  <2>2. CASE Current.kind = "deploy"
    <3>1. AtStep({"deploy"}) /\ vars' = AfterDeploying
      BY <1>1, <1>6, <2>1, <2>2 DEF AtStep, AfterStep
    <3>2. DeployStep /\ pos' = Next1(pos)
      BY <1>1, <3>1 DEF AfterDeploying, DeployStep, Moved, vars, Advance
    <3> QED
      BY <1>4, <3>2 DEF RunStep, vars
  <2>3. CASE Current.kind = "save"
    <3>1. AtStep({"save"}) /\ vars' = AfterSaving
      BY <1>1, <1>6, <2>1, <2>3 DEF AtStep, AfterStep
    <3>2. SaveStep /\ pos' = Next1(pos)
      BY <1>1, <3>1 DEF AfterSaving, SaveStep, vars, Advance, chain
    <3> QED
      BY <1>4, <3>2 DEF RunStep, vars
  <2>4. CASE Current.kind \in {"set", "handover"} /\ sending
    <3>1. AtStep({"set", "handover"}) /\ vars' = AfterSending
      BY <1>1, <1>6, <2>1, <2>4 DEF AtStep, AfterStep
    <3>2. Send /\ sending' = FALSE
      BY <1>1, <2>4, <3>1 DEF AfterSending, Send, Execute, Fail, Moved, vars, Advance, disk
    <3> QED
      BY <2>4, <3>2 DEF RunStep, vars
  <2>5. CASE Current.kind \in {"set", "handover"} /\ ~sending
    <3>1. AtStep({"set", "handover"}) /\ vars' = AfterChecking
      BY <1>1, <1>6, <2>1, <2>5 DEF AtStep, AfterStep
    <3>2. Check /\ (pos' = Next1(pos) \/ sending')
      BY <1>1, <2>5, <3>1 DEF AfterChecking, Check, Report, Moved, vars, Advance, chain
    <3> QED
      BY <1>4, <2>5, <3>2 DEF RunStep, vars
  <2> QED
    BY <2>1, <2>2, <2>3, <2>4, <2>5
<1> QED
  BY <1>3, <1>5, <1>6

LEMMA StartIsTested ==
    ASSUME ~Running, vars' = Moved(<<1, 0>>, FALSE, "running")
    PROVE  <<Start>>_vars
BY DEF Start, Running, Moved, vars, chain, disk

LEMMA SettlingIsTested ==
    ASSUME mempool # {},
           vars' = <<network, artifacts, owner, config, offered, snapshots, log, pos,
                     sending, {}, outcome, crashes>>
    PROVE  <<Mine \/ DropTx>>_vars
BY DEF DropTx, vars, chain, disk

\* The fairness of the specification is this one, as soon as a step that can be
\* taken is ENABLED.
LEMMA FairnessSuffices ==
    /\ [](~Running => ENABLED <<Start>>_vars)
    /\ [](CanStep => ENABLED <<RunStep>>_vars)
    /\ [](~(mempool = {}) => ENABLED <<Mine \/ DropTx>>_vars)
    => (Fairness => FairStart /\ FairRun /\ FairSettle)
BY PTL DEF Fairness, FairStart, FairRun, FairSettle

\* In the end no process dies any more.
CrashesStop == <>[][~Crash]_vars

\* What holds from some state on.
Settled ==
    /\ [][Next]_vars /\ [][~Crash]_vars
    /\ [](DeploymentInv /\ Calm /\ HasSpokePool)

LEMMA NoCrash == DeploymentTypeOK /\ [~Crash]_vars => ~Crash
BY DEF Crash, vars, DeploymentTypeOK, OutsideOK

\* A run does not stay at one step.
MovesOn(s, i) ==
    Settled /\ FairRun => (From(s, i) ~> Ahead(s, i))

LEMMA RunsMoveOn ==
    ASSUME NEW s \in 1 .. 5, NEW i \in Nat
    PROVE  MovesOn(s, i)
<1> DEFINE Here == At(s, i)
           There == Ahead(s, i)
           Good == DeploymentInv /\ Calm /\ HasSpokePool
           Sends == sending
<1>1. Good /\ Good' /\ [Next]_vars /\ [~Crash]_vars /\ Here
        => (Here' /\ (Sends => Sends')) \/ There'
  BY NoCrash, OnlyOnward DEF DeploymentInv
<1>2. Good /\ Here /\ <<RunStep>>_vars => There' \/ (~Sends /\ Sends' /\ Here')
  BY StepsMoveOn
<1>3. Good /\ Here => CanStep
  BY DEF Calm, At, CanStep
<1>4. Good /\ From(s, i) => Here \/ There
  BY FromPosition DEF DeploymentInv, Ahead
<1>5. /\ DeploymentInv /\ Calm /\ HasSpokePool <=> Good
      /\ Ahead(s, i) <=> There
  OBVIOUS
<1> HIDE DEF Here, There, Good, Sends
<1> QED
  BY <1>1, <1>2, <1>3, <1>4, <1>5, PTL DEF Settled, FairRun, MovesOn

\* A script ends, and the next one begins.
Ends(s) == Settled /\ FairRun => (From(s, 0) ~> From(s + 1, 0))

NothingPast(s, i) == Settled => [](~From(s, i))

LEMMA ScriptIsOver ==
    ASSUME NEW s \in 1 .. 5, NEW i \in Nat, i > Len(Scripts[s])
    PROVE  NothingPast(s, i)
<1>1. Len(Scripts[s]) \in Nat
  BY LengthsPositive
<1>2. DeploymentInv => ~From(s, i)
  BY <1>1, FromPosition DEF DeploymentInv
<1> QED
  BY <1>2, PTL DEF Settled, NothingPast

LEMMA ShortScriptsEnd == Ends(2) /\ Ends(3) /\ Ends(4) /\ Ends(5)
<1>1. ASSUME NEW s \in {3, 4, 5}
      PROVE  Ends(s)
  <2>1. MovesOn(s, 0) /\ MovesOn(s, 1) /\ MovesOn(s, 2) /\ MovesOn(s, 3)
    BY RunsMoveOn
  <2>2. NothingPast(s, 4)
    <3>1. Len(Scripts[s]) = 3
      BY ScriptLengths
    <3>2. 4 \in Nat /\ 4 > Len(Scripts[s]) /\ s \in 1 .. 5
      BY <3>1
    <3> QED
      BY <3>2, ScriptIsOver, Zenon
  <2>3. /\ From(s, 0 + 1) <=> From(s, 1)
        /\ From(s, 1 + 1) <=> From(s, 2)
        /\ From(s, 2 + 1) <=> From(s, 3)
        /\ From(s, 3 + 1) <=> From(s, 4)
    BY DEF From
  <2> QED
    BY <2>1, <2>2, <2>3, PTL DEF MovesOn, Ahead, NothingPast, Ends
<1>2. Ends(2)
  <2>1. /\ MovesOn(2, 0) /\ MovesOn(2, 1) /\ MovesOn(2, 2)
        /\ MovesOn(2, 3) /\ MovesOn(2, 4) /\ MovesOn(2, 5)
    BY RunsMoveOn
  <2>2. NothingPast(2, 6)
    <3>1. 6 \in Nat /\ 6 > Len(Scripts[2]) /\ 2 \in 1 .. 5
      BY ScriptLengths
    <3> QED
      BY <3>1, ScriptIsOver, Zenon
  <2>3. /\ From(2, 0 + 1) <=> From(2, 1)
        /\ From(2, 1 + 1) <=> From(2, 2)
        /\ From(2, 2 + 1) <=> From(2, 3)
        /\ From(2, 3 + 1) <=> From(2, 4)
        /\ From(2, 4 + 1) <=> From(2, 5)
        /\ From(2, 5 + 1) <=> From(2, 6)
    BY DEF From
  <2> QED
    BY <2>1, <2>2, <2>3, PTL DEF MovesOn, Ahead, NothingPast, Ends
<1> QED
  BY <1>1, <1>2

LEMMA SystemEnds == Ends(1)
<1>1. /\ MovesOn(1, 0) /\ MovesOn(1, 1) /\ MovesOn(1, 2) /\ MovesOn(1, 3) /\ MovesOn(1, 4) /\ MovesOn(1, 5)
      /\ MovesOn(1, 6) /\ MovesOn(1, 7) /\ MovesOn(1, 8) /\ MovesOn(1, 9) /\ MovesOn(1, 10) /\ MovesOn(1, 11)
      /\ MovesOn(1, 12) /\ MovesOn(1, 13) /\ MovesOn(1, 14) /\ MovesOn(1, 15) /\ MovesOn(1, 16) /\ MovesOn(1, 17)
  BY RunsMoveOn
<1>2. NothingPast(1, 18)
  <2>1. 18 \in Nat /\ 18 > Len(Scripts[1]) /\ 1 \in 1 .. 5
    BY ScriptLengths
  <2> QED
    BY <2>1, ScriptIsOver, Zenon
<1>3. /\ From(1, 0 + 1) <=> From(1, 1)
      /\ From(1, 1 + 1) <=> From(1, 2)
      /\ From(1, 2 + 1) <=> From(1, 3)
      /\ From(1, 3 + 1) <=> From(1, 4)
      /\ From(1, 4 + 1) <=> From(1, 5)
      /\ From(1, 5 + 1) <=> From(1, 6)
      /\ From(1, 6 + 1) <=> From(1, 7)
      /\ From(1, 7 + 1) <=> From(1, 8)
      /\ From(1, 8 + 1) <=> From(1, 9)
      /\ From(1, 9 + 1) <=> From(1, 10)
      /\ From(1, 10 + 1) <=> From(1, 11)
      /\ From(1, 11 + 1) <=> From(1, 12)
      /\ From(1, 12 + 1) <=> From(1, 13)
      /\ From(1, 13 + 1) <=> From(1, 14)
      /\ From(1, 14 + 1) <=> From(1, 15)
      /\ From(1, 15 + 1) <=> From(1, 16)
      /\ From(1, 16 + 1) <=> From(1, 17)
      /\ From(1, 17 + 1) <=> From(1, 18)
  BY DEF From
<1> QED
  BY <1>1, <1>2, <1>3, PTL DEF MovesOn, Ahead, NothingPast, Ends

\* A run that goes on in calm reports success.
LEMMA RunsSucceed ==
    Settled /\ FairRun => [](Running => <>(outcome = "completed"))
<1> DEFINE Done == outcome = "completed"
           Good == DeploymentInv /\ Calm /\ HasSpokePool
<1>1. Ends(1) /\ Ends(2) /\ Ends(3) /\ Ends(4) /\ Ends(5)
  BY SystemEnds, ShortScriptsEnd
<1>2. /\ From(1 + 1, 0) <=> From(2, 0)
      /\ From(2 + 1, 0) <=> From(3, 0)
      /\ From(3 + 1, 0) <=> From(4, 0)
      /\ From(4 + 1, 0) <=> From(5, 0)
      /\ From(5 + 1, 0) <=> From(6, 0)
  BY DEF From
<1>3. Good /\ Running =>
        From(1, 0) \/ From(2, 0) \/ From(3, 0) \/ From(4, 0) \/ From(5, 0) \/ From(6, 0)
  BY LengthsPositive DEF DeploymentInv, DeploymentTypeOK, RunOK, PositionOK, From
<1>4. Good /\ [Next]_vars /\ [~Crash]_vars /\ From(6, 0) => From(6, 0)' \/ Done'
  <2> SUFFICES ASSUME Good, [Next]_vars, [~Crash]_vars, From(6, 0)
               PROVE  From(6, 0)' \/ outcome' = "completed"
    OBVIOUS
  <2>1. DeploymentTypeOK /\ ~Crash /\ Running /\ pos[1] = 6 /\ pos[2] >= 0
    BY NoCrash DEF DeploymentInv, From
  <2>2. ~EnterScript /\ ~AtStep({"deploy"}) /\ ~AtStep({"save"})
        /\ ~AtStep({"set", "handover"})
    BY <2>1, ScriptLengths DEF EnterScript, AtStep
  <2>3. Finish \/ UNCHANGED <<pos, outcome>>
    BY <2>1, <2>2 DEF Next, RunStep, Start, DeployStep, SaveStep, Check, Send, GiveUp,
       DeploymentTypeOK, RunOK, Mine, DropTx, ManualSet, Edit, vars
  <2> QED
    BY <2>1, <2>3 DEF Finish, From, Running
<1>5. Good /\ From(6, 0) /\ <<RunStep>>_vars => Done'
  BY CurrentIsStep, ScriptLengths DEF RunStep, EnterScript, DeployStep, SaveStep, Check,
     Send, AtStep, Finish, From
<1>6. Good /\ From(6, 0) => CanStep
  BY DEF Calm, From, CanStep
<1>7. /\ DeploymentInv /\ Calm /\ HasSpokePool <=> Good
      /\ outcome = "completed" <=> Done
  OBVIOUS
<1> HIDE DEF Done, Good
<1> QED
  BY <1>1, <1>2, <1>3, <1>4, <1>5, <1>6, <1>7, PTL DEF Ends, Settled, FairRun

\* Where the network settles what is pending, crashes that stop leave calm behind.
LEMMA CalmReturns ==
    /\ Init /\ [][Next]_vars /\ CrashesStop /\ FairRun /\ FairSettle /\ HasSpokePool
    => <>Settled
<1> DEFINE Empty == mempool = {}
           Reads == HasSpokePool
           Quiet == Calm
           Whole == DeploymentInv
<1>1. [Next]_vars /\ [~Crash]_vars /\ Whole /\ Empty => Empty'
  BY StaysSettled, NoCrash DEF DeploymentInv
<1>2. <<Mine \/ DropTx>>_vars => Empty'
  BY DEF Mine, DropTx
<1>3. Whole /\ [Next]_vars /\ [~Crash]_vars /\ Quiet => Quiet'
  BY CalmStays, NoCrash DEF DeploymentInv
<1>4. Whole /\ Empty /\ ~Quiet => CanStep
  BY DEF DeploymentInv, DeploymentTypeOK, RunOK, AtStep, Calm, CanStep
<1>5. Whole /\ Empty /\ ~Quiet /\ <<RunStep>>_vars => Quiet'
  <2>1. Whole /\ Empty /\ ~Quiet /\ RunStep => Send
    BY StepOfSending DEF Calm
  <2>2. Send /\ Empty => ~sending' /\ mempool' = {}
    BY DEF Send, Fail
  <2>3. ~sending' /\ mempool' = {} => Quiet'
    BY DEF Calm
  <2> QED
    BY <2>1, <2>2, <2>3
<1>6. Whole /\ [Next]_vars /\ Reads => Reads'
  BY TypeNext DEF DeploymentInv, Kept, HasSpokePool
<1>7. /\ mempool = {} <=> Empty
      /\ Calm <=> Quiet
      /\ HasSpokePool <=> Reads
      /\ DeploymentInv <=> Whole
  OBVIOUS
<1> HIDE DEF Empty, Quiet, Reads, Whole
<1> QED
  BY <1>1, <1>2, <1>3, <1>4, <1>5, <1>6, <1>7, DeploymentInvAlways, PTL
     DEF CrashesStop, FairRun, FairSettle, Settled

\* RerunsConverge: once crashes stop, an operator who starts the deployment again
\* and again sees a run succeed, and so it goes on; on localhost everything is then
\* in place for good.
THEOREM DeploymentConverges ==
    /\ Init /\ [][Next]_vars /\ CrashesStop
    /\ FairStart /\ FairRun /\ FairSettle
    => RerunsConverge
<1> DEFINE Done == outcome = "completed"
           Reads == HasSpokePool
           Local == network = "localhost"
           All == AllFinished
           Whole == DeploymentInv
<1>1. Start => Running'
  BY DEF Start, Running
<1>2. Whole /\ Local /\ Done => All
  <2> SUFFICES ASSUME Whole, Local, Done, NEW step \in Steps
               PROVE  Finished(step)
    BY DEF AllFinished
  <2>1. PICK s \in 1 .. 5 : \E i \in StepsIn(s) : step = Scripts[s][i]
    BY StepPlace
  <2>2. PICK i \in StepsIn(s) : step = Scripts[s][i]
    BY <2>1
  <2>3. s < pos[1] /\ ~Hidden(s, i)
    BY DEF DeploymentInv, PassedIsDone, Hidden, SkipsDeployed
  <2> QED
    BY <2>2, <2>3 DEF DeploymentInv, PassedIsDone
<1>3. Whole /\ [Next]_vars /\ All => All'
  BY TypeNext, FinishedStays DEF DeploymentInv, AllFinished
<1>4. Whole /\ [Next]_vars /\ Local => Local'
  BY TypeNext DEF DeploymentInv, Kept
<1>5. Local => Reads
  BY DEF HasSpokePool
<1>6. /\ outcome = "completed" <=> Done
      /\ HasSpokePool <=> Reads
      /\ network = "localhost" <=> Local
      /\ AllFinished <=> All
      /\ DeploymentInv <=> Whole
  OBVIOUS
<1> HIDE DEF Done, Reads, Local, All, Whole
<1> QED
  BY <1>1, <1>2, <1>3, <1>4, <1>5, <1>6, CalmReturns, RunsSucceed, DeploymentInvAlways, PTL
     DEF FairStart, FairRun, RerunsConverge
=============================================================================
