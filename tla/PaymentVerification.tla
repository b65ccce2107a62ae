------------------------- MODULE PaymentVerification -------------------------
(* What decides that an off-chain payment releases an intent: the verifier   *)
(* PaymentVerifierRegistry names for a payment method, the unified payment   *)
(* verifiers themselves (contracts/unifiedVerifier), and the registry of     *)
(* nullifiers they share.  Attestations are inputs: any the witnesses may    *)
(* have signed.                                                              *)
(* As in Escrow, the Buggy... operators are mistakes no specification uses.  *)
EXTENDS Integers

CONSTANTS
    Orchestrators,
    IntentHashes,
    PaymentMethods,
    PaymentIds,         \* identifiers a payment service gives its payments
    Amounts,            \* token amounts a witness may attest
    Verifiers,          \* deployed unified payment verifiers
    NoVerifier,         \* address(0)
    OrchestratorOf      \* verifier -> the orchestrator it was deployed for

VARIABLES
    verifierOf,         \* PaymentVerifierRegistry.store[method].verifier
    isPaymentMethod,    \* verifier -> the methods it accepts
    isWriter,           \* verifiers that may write to NullifierRegistry
    isNullified         \* payments recorded as used

vars == <<verifierOf, isPaymentMethod, isWriter, isNullified>>

\* _nullifyPayment: keccak256(paymentMethod, paymentId) is injective.
Nullifiers == PaymentMethods \X PaymentIds

\* The signed payload: the payment, what it releases, and the terms of the
\* intent it was matched with.
Attestations ==
    [intentHash: IntentHashes, releaseAmount: Amounts,
     method: PaymentMethods, paymentId: PaymentIds,
     snapshot: [intentHash: IntentHashes, amount: Amounts,
                paymentMethod: PaymentMethods]]

Nullifier(att) == <<att.method, att.paymentId>>

Init ==
    /\ verifierOf \in [PaymentMethods -> Verifiers \cup {NoVerifier}]
    /\ isPaymentMethod = [v \in Verifiers |-> PaymentMethods]
    /\ isWriter = Verifiers
    /\ isNullified = {}

\* _calculateReleaseAmount: the attested amount, capped at the intent's.
ReleaseAmount(att) ==
    IF att.releaseAmount > att.snapshot.amount
    THEN att.snapshot.amount
    ELSE att.releaseAmount

BuggyIsUnused(att) == TRUE      \* never looks the nullifier up

\* _validateAndAddNullifier does not revert
IsUnused(att) == Nullifier(att) \notin isNullified

\* verifyPayment called by o for the intent h whose record is intent.
VerifyPayment(o, v, h, intent, att) ==
    /\ OrchestratorOf[v] = o
    /\ att.method \in isPaymentMethod[v]
    /\ att.snapshot.intentHash = h
    /\ att.snapshot.amount = intent.amount
    /\ att.snapshot.paymentMethod = intent.paymentMethod
    /\ IsUnused(att)
    /\ v \in isWriter
    /\ isNullified' = isNullified \cup {Nullifier(att)}
    /\ UNCHANGED <<verifierOf, isPaymentMethod, isWriter>>

-----------------------------------------------------------------------------
(* The owners of the three contracts.                                        *)

RegisterMethod(m, v) ==
    /\ verifierOf[m] = NoVerifier
    /\ verifierOf' = [verifierOf EXCEPT ![m] = v]
    /\ UNCHANGED <<isPaymentMethod, isWriter, isNullified>>

UnregisterMethod(m) ==
    /\ verifierOf[m] # NoVerifier
    /\ verifierOf' = [verifierOf EXCEPT ![m] = NoVerifier]
    /\ UNCHANGED <<isPaymentMethod, isWriter, isNullified>>

AddPaymentMethod(v, m) ==
    /\ m \notin isPaymentMethod[v]
    /\ isPaymentMethod' = [isPaymentMethod EXCEPT ![v] = @ \cup {m}]
    /\ UNCHANGED <<verifierOf, isWriter, isNullified>>

RemovePaymentMethod(v, m) ==
    /\ m \in isPaymentMethod[v]
    /\ isPaymentMethod' = [isPaymentMethod EXCEPT ![v] = @ \ {m}]
    /\ UNCHANGED <<verifierOf, isWriter, isNullified>>

AddWritePermission(v) ==
    /\ v \notin isWriter
    /\ isWriter' = isWriter \cup {v}
    /\ UNCHANGED <<verifierOf, isPaymentMethod, isNullified>>

RemoveWritePermission(v) ==
    /\ v \in isWriter
    /\ isWriter' = isWriter \ {v}
    /\ UNCHANGED <<verifierOf, isPaymentMethod, isNullified>>

OwnerNext ==
    \/ \E m \in PaymentMethods, v \in Verifiers : RegisterMethod(m, v)
    \/ \E m \in PaymentMethods : UnregisterMethod(m)
    \/ \E v \in Verifiers, m \in PaymentMethods : AddPaymentMethod(v, m)
    \/ \E v \in Verifiers, m \in PaymentMethods : RemovePaymentMethod(v, m)
    \/ \E v \in Verifiers : AddWritePermission(v)
    \/ \E v \in Verifiers : RemoveWritePermission(v)
=============================================================================
