------------------------------- MODULE Whitelist -------------------------------
(* A set of addresses kept by its owner as a mapping, which contracts ask, and *)
(* an array, which clients list: EscrowRegistry, RelayerRegistry,             *)
(* PostIntentHookRegistry, the writers of NullifierRegistry and the payment   *)
(* methods of a unified payment verifier all repeat this code.                *)
EXTENDS ArrayUtils

CONSTANTS Addresses     \* those an owner may add; the first three refuse address(0)

VARIABLES
    isWhitelisted,      \* the mapping, as the set of addresses it is true of
    list,               \* the array
    acceptAll           \* EscrowRegistry.acceptAllEscrows

vars == <<isWhitelisted, list, acceptAll>>

Init ==
    /\ isWhitelisted = {}
    /\ list = <<>>
    /\ acceptAll = FALSE

Add(a) ==
    /\ a \notin isWhitelisted
    /\ isWhitelisted' = isWhitelisted \cup {a}
    /\ list' = Append(list, a)
    /\ UNCHANGED acceptAll

BuggyRemove(a) ==   \* the array is not told
    /\ a \in isWhitelisted
    /\ isWhitelisted' = isWhitelisted \ {a}
    /\ UNCHANGED <<list, acceptAll>>

Remove(a) ==
    /\ a \in isWhitelisted
    /\ a \in Range(list)
    /\ isWhitelisted' = isWhitelisted \ {a}
    /\ list' = RemoveStorage(list, a)
    /\ UNCHANGED acceptAll

SetAcceptAll(accept) ==
    /\ acceptAll' = accept
    /\ UNCHANGED <<isWhitelisted, list>>

Next ==
    \/ \E a \in Addresses : Add(a) \/ Remove(a)
    \/ \E accept \in BOOLEAN : SetAcceptAll(accept)

Spec == Init /\ [][Next]_vars

-----------------------------------------------------------------------------
\* Each variable holds a value of its Solidity type.
TypeOK ==
    /\ isWhitelisted \subseteq Addresses
    /\ list \in Seq(Addresses)
    /\ acceptAll \in BOOLEAN

\* The array a client lists holds exactly the addresses the contracts accept,
\* each once: swapping the last entry into a hole never loses or repeats one.
ListIsExact == Range(list) = isWhitelisted /\ IsInjective(list)
=============================================================================
