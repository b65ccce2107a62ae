---------------------------- MODULE MethodRegistry ----------------------------
(* contracts/registries/PaymentVerifierRegistry.sol: the payment methods, the *)
(* verifier of each and the currencies it may be used with.                   *)
EXTENDS ArrayUtils, SequencesExt

CONSTANTS
    PaymentMethods, Verifiers,
    NoVerifier,         \* address(0): the method is not initialized
    Currencies,
    MaxListed           \* bound: currencies in one call

VARIABLES
    verifierOf,         \* store[method].verifier
    isCurrency,         \* store[method].isCurrency, as a set
    currencies,         \* store[method].currencies
    paymentMethods      \* the array of methods

vars == <<verifierOf, isCurrency, currencies, paymentMethods>>

\* The calldata arrays of one call.
Lists == UNION {[1 .. n -> Currencies] : n \in 1 .. MaxListed}

Registered(m) == verifierOf[m] # NoVerifier

Init ==
    /\ verifierOf = [m \in PaymentMethods |-> NoVerifier]
    /\ isCurrency = [m \in PaymentMethods |-> {}]
    /\ currencies = [m \in PaymentMethods |-> <<>>]
    /\ paymentMethods = <<>>

BuggyMayAdd(m, cs) == IsInjective(cs)   \* lists a currency again

\* No iteration of the loop of addCurrencies reverts.
MayAdd(m, cs) ==
    /\ IsInjective(cs)
    /\ Range(cs) \cap isCurrency[m] = {}

\* No iteration of _removeCurrency over cs reverts.
MayRemove(m, cs) ==
    /\ IsInjective(cs)
    /\ Range(cs) \subseteq isCurrency[m] \cap Range(currencies[m])

AddPaymentMethod(m, v, cs) ==
    /\ ~Registered(m)
    /\ MayAdd(m, cs)
    /\ verifierOf' = [verifierOf EXCEPT ![m] = v]
    /\ isCurrency' = [isCurrency EXCEPT ![m] = @ \cup Range(cs)]
    /\ currencies' = [currencies EXCEPT ![m] = @ \o cs]
    /\ paymentMethods' = Append(paymentMethods, m)

BuggyRemovePaymentMethod(m) ==  \* deletes the struct, which spares its mapping
    /\ Registered(m)
    /\ m \in Range(paymentMethods)
    /\ verifierOf' = [verifierOf EXCEPT ![m] = NoVerifier]
    /\ currencies' = [currencies EXCEPT ![m] = <<>>]
    /\ paymentMethods' = RemoveStorage(paymentMethods, m)
    /\ UNCHANGED isCurrency

\* The loop walks a copy of the array while it empties the array itself;
\* deleting the struct clears the rest but not the mapping inside it.
RemovePaymentMethod(m) ==
    /\ Registered(m)
    /\ MayRemove(m, currencies[m])
    /\ m \in Range(paymentMethods)
    /\ verifierOf' = [verifierOf EXCEPT ![m] = NoVerifier]
    /\ isCurrency' = [isCurrency EXCEPT ![m] = @ \ Range(currencies[m])]
    /\ currencies' = [currencies EXCEPT ![m] = <<>>]
    /\ paymentMethods' = RemoveStorage(paymentMethods, m)

AddCurrencies(m, cs) ==
    /\ Registered(m)
    /\ MayAdd(m, cs)
    /\ isCurrency' = [isCurrency EXCEPT ![m] = @ \cup Range(cs)]
    /\ currencies' = [currencies EXCEPT ![m] = @ \o cs]
    /\ UNCHANGED <<verifierOf, paymentMethods>>

\* Unlike addCurrencies this does not ask whether the method is registered.
RemoveCurrencies(m, cs) ==
    /\ MayRemove(m, cs)
    /\ isCurrency' = [isCurrency EXCEPT ![m] = @ \ Range(cs)]
    /\ currencies' = [currencies EXCEPT ![m] = FoldLeft(RemoveStorage, @, cs)]
    /\ UNCHANGED <<verifierOf, paymentMethods>>

Next ==
    \E m \in PaymentMethods :
        \/ \E v \in Verifiers, cs \in Lists : AddPaymentMethod(m, v, cs)
        \/ RemovePaymentMethod(m)
        \/ \E cs \in Lists : AddCurrencies(m, cs) \/ RemoveCurrencies(m, cs)

Spec == Init /\ [][Next]_vars

-----------------------------------------------------------------------------
\* Arrays and mappings agree: the array of methods lists those with a verifier,
\* each array of currencies what isCurrency accepts, nothing twice.
RegistryAgrees ==
    /\ IsInjective(paymentMethods)
    /\ Range(paymentMethods) = {m \in PaymentMethods : Registered(m)}
    /\ \A m \in PaymentMethods :
          IsInjective(currencies[m]) /\ Range(currencies[m]) = isCurrency[m]

\* A method that is taken out leaves nothing behind, so that it can be put back
\* with any verifier and any currencies, ones it had before included.
CanAlwaysReturn ==
    \A m \in PaymentMethods : ~Registered(m) =>
        \A v \in Verifiers, cs \in Lists :
            IsInjective(cs) => ENABLED AddPaymentMethod(m, v, cs)
=============================================================================
