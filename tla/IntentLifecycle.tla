--------------------------- MODULE IntentLifecycle ---------------------------
(* What becomes of an intent, seen from outside: it is signaled once, then   *)
(* either dropped without any payout or settled by a single payout within    *)
(* the terms fixed when it was signaled, and it never comes back.            *)
EXTENDS Integers

CONSTANTS Intents, NoTerms

VARIABLES
    status,     \* intent -> where it stands
    terms,      \* live intent -> the least and the most it may be paid
    paid        \* intent -> what it has been paid

vars == <<status, terms, paid>>

Live(i) == status[i] = "live"

Init ==
    /\ status = [i \in Intents |-> "unused"]
    /\ terms = [i \in Intents |-> NoTerms]
    /\ paid = [i \in Intents |-> 0]

\* The statuses once the intents of gone are dropped.
Dropping(gone) == [i \in Intents |-> IF i \in gone THEN "dropped" ELSE status[i]]
Forgetting(gone) == [i \in Intents |-> IF i \in gone THEN NoTerms ELSE terms[i]]

Drop(gone) ==
    /\ \A i \in gone : Live(i)
    /\ status' = Dropping(gone)
    /\ terms' = Forgetting(gone)
    /\ UNCHANGED paid

\* Signaling an intent may drop others whose liquidity it needs.
Signal(i, gone) ==
    /\ status[i] = "unused"
    /\ \A j \in gone : Live(j)
    /\ status' = [Dropping(gone) EXCEPT ![i] = "live"]
    /\ terms'[i].least <= terms'[i].most
    /\ terms' = [Forgetting(gone) EXCEPT ![i] = terms'[i]]
    /\ UNCHANGED paid

Settle(i) ==
    /\ Live(i)
    /\ status' = [status EXCEPT ![i] = "settled"]
    /\ terms' = [terms EXCEPT ![i] = NoTerms]
    /\ paid'[i] \in terms[i].least .. terms[i].most
    /\ paid' = [paid EXCEPT ![i] = paid'[i]]

Next ==
    \/ \E gone \in SUBSET Intents : Drop(gone)
    \/ \E i \in Intents, gone \in SUBSET Intents : Signal(i, gone)
    \/ \E i \in Intents : Settle(i)

Spec == Init /\ [][Next]_vars
=============================================================================
