------------------------------- MODULE Custody -------------------------------
(* What the escrow promises the people whose tokens it holds, without saying *)
(* how: an account's funds are its owner's to take back unless they are      *)
(* reserved; a reservation is paid out at most once and at most in full; and *)
(* no step touches two accounts.  Escrow implements it (EscrowCustody).      *)
EXTENDS Integers, Functions

CONSTANTS
    Funds,      \* the accounts in custody
    Claims,     \* names a reservation may go by
    MaxDust     \* the most the custodian may keep when an account is settled

VARIABLES
    held,       \* account -> tokens in custody
    reserved    \* account -> claim -> tokens reserved for it, 0 for none

vars == <<held, reserved>>

TotalReserved(claims) == SumFunctionOnSet(claims, Claims)

\* The reservations of claims once those in lapsed are gone.
Without(claims, lapsed) ==
    [c \in Claims |-> IF c \in lapsed THEN 0 ELSE claims[c]]

Init ==
    /\ held = [f \in Funds |-> 0]
    /\ reserved = [f \in Funds |-> [c \in Claims |-> 0]]

PayIn(f) ==
    /\ held'[f] > held[f]
    /\ held' = [held EXCEPT ![f] = held'[f]]
    /\ UNCHANGED reserved

\* Reservations lapse, and the owner takes any part of what is then free.
PayBack(f) ==
    \E lapsed \in SUBSET Claims :
        /\ reserved' = [reserved EXCEPT ![f] = Without(@, lapsed)]
        /\ \E left \in TotalReserved(Without(reserved[f], lapsed)) .. held[f] :
              held' = [held EXCEPT ![f] = left]

\* A claim is admitted only on funds that nothing else reserves.
Reserve(f, c) ==
    \E lapsed \in SUBSET Claims, amount \in 1 .. held[f] :
        LET claims == [Without(reserved[f], lapsed) EXCEPT ![c] = amount]
        IN  /\ reserved[f][c] = 0
            /\ TotalReserved(claims) <= held[f]
            /\ reserved' = [reserved EXCEPT ![f] = claims]
            /\ UNCHANGED held

\* A claim is paid, from its own reservation alone, and ends; when it was the
\* last one the custodian may keep a remainder of at most MaxDust.
PayOut(f, c) ==
    LET claims == Without(reserved[f], {c})
    IN  \E amount \in 1 .. reserved[f][c] :
            /\ reserved' = [reserved EXCEPT ![f] = claims]
            /\ \/ held' = [held EXCEPT ![f] = @ - amount]
               \/ /\ TotalReserved(claims) = 0
                  /\ held[f] - amount <= MaxDust
                  /\ held' = [held EXCEPT ![f] = 0]

Next ==
    \E f \in Funds :
        \/ PayIn(f)
        \/ PayBack(f)
        \/ \E c \in Claims : Reserve(f, c) \/ PayOut(f, c)

Spec == Init /\ [][Next]_vars
=============================================================================
