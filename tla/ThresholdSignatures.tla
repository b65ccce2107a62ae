-------------------------- MODULE ThresholdSignatures --------------------------
(* contracts/lib/ThresholdSigVerifierUtils.sol: does an attestation carry the  *)
(* signatures of enough distinct witnesses?  A signature is represented by the *)
(* set of addresses isValidSignatureNow accepts it for: at most one when they  *)
(* are externally owned accounts, any number where contracts decide (ERC-1271). *)
(* One step is one turn of the loop over the signatures.                        *)
EXTENDS Integers, Sequences, FiniteSets, Functions

CONSTANTS
    Addresses,
    MaxLength       \* bound: length of either array, and the threshold

ASSUME AddressesAssumption == IsFiniteSet(Addresses)

VARIABLES
    witnesses, signatures, threshold,   \* the arguments of the call
    turn,           \* i, from 1
    seenSigners,    \* its first validWitnessSignatures entries
    outcome

vars == <<witnesses, signatures, threshold, turn, seenSigners, outcome>>

Arrays(S) == UNION {[1 .. k -> S] : k \in 0 .. MaxLength}

\* The requires before the loop.
Init ==
    /\ witnesses \in Arrays(Addresses)
    /\ signatures \in Arrays(SUBSET Addresses)
    /\ threshold \in 0 .. MaxLength
    /\ turn = 1
    /\ seenSigners = <<>>
    /\ outcome = IF /\ threshold > 0
                    /\ threshold <= Len(signatures)
                    /\ threshold <= Len(witnesses)
                 THEN "running" ELSE "revert"

BuggyNewSigners(sig) ==     \* does not look the witness up in seenSigners
    {j \in DOMAIN witnesses : witnesses[j] \in sig}

\* The places of the witnesses that sig is valid for and that are not counted.
NewSigners(sig) ==
    {j \in DOMAIN witnesses : witnesses[j] \in sig \ Range(seenSigners)}

BuggyCount(sig) ==          \* no break: counts every witness sig is valid for
    LET new == {witnesses[j] : j \in NewSigners(sig)}
        order == CHOOSE s \in [1 .. Cardinality(new) -> new] : Range(s) = new
    IN  seenSigners \o order

\* The loop over the witnesses stops at the first one that counts.
Count(sig) ==
    LET new == NewSigners(sig)
        first == CHOOSE j \in new : \A k \in new : j <= k
    IN  IF new = {} THEN seenSigners ELSE Append(seenSigners, witnesses[first])

Turn ==
    /\ outcome = "running"
    /\ turn <= Len(signatures)
    /\ seenSigners' = Count(signatures[turn])
    /\ turn' = turn + 1
    /\ UNCHANGED <<witnesses, signatures, threshold, outcome>>

BuggyEnoughCounted == Len(seenSigners) > threshold

EnoughCounted == Len(seenSigners) >= threshold

\* The last require; the flag set inside the loop agrees with it.
Return ==
    /\ outcome = "running"
    /\ turn > Len(signatures)
    /\ outcome' = IF EnoughCounted THEN "success" ELSE "revert"
    /\ UNCHANGED <<witnesses, signatures, threshold, turn, seenSigners>>

Next == Turn \/ Return

Spec == Init /\ [][Next]_vars

-----------------------------------------------------------------------------
\* seenSigners never outgrows the array allocated for it, one place a witness:
\* the write inside the loop is in bounds.
WritesInBounds == Len(seenSigners) <= Len(witnesses)

\* A call succeeds only if threshold different witnesses each have a signature
\* of their own: repeating a signature, or a witness in the array, or one
\* signature that several contracts accept, never stands in for a second one.
EachSignatureCountsOnce ==
    outcome = "success" =>
        \E W \in SUBSET Range(witnesses), of \in [Addresses -> DOMAIN signatures] :
            /\ Cardinality(W) = threshold
            /\ \A w \in W : w \in signatures[of[w]]
            /\ \A w, x \in W : w # x => of[w] # of[x]

\* With externally owned witnesses the call succeeds whenever enough of them
\* signed: "Returns true if the threshold is met, otherwise reverts"
\* (ThresholdSigVerifierUtils.sol:23), whatever the order of either array and
\* whatever else was signed.
EnoughSignersSucceed ==
    /\ outcome = "revert"
    /\ threshold > 0
    /\ \A i \in DOMAIN signatures : Cardinality(signatures[i]) <= 1
    => Cardinality({w \in Range(witnesses) :
                        \E i \in DOMAIN signatures : w \in signatures[i]}) < threshold
=============================================================================
