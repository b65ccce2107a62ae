----------------------------- MODULE DepositOffers -----------------------------
(* The part of a deposit in contracts/Escrow.sol that says how it may be paid  *)
(* for: its delegate, its payment methods, the payee of each and the currencies *)
(* it quotes.  One record per deposit gathers the eight mappings the code keeps; *)
(* the actions change offers only, and Market runs them with the rest.          *)
(* As in Escrow, the Buggy... operators are mistakes no specification uses.     *)
EXTENDS Integers, Sequences, SequencesExt

CONSTANTS
    Accounts, NoAccount, DepositIds, PaymentMethods, Verifiers, NoVerifier,
    Currencies,
    Payees,             \* DepositPaymentMethodData: payee details, gating service
    NoPayee,
    Rates,              \* conversion rates, 0 excluded
    MaxListed           \* bound: methods or currencies in one call

VARIABLES
    offers,             \* deposit -> its tables
    verifierOf, isCurrency  \* PaymentVerifierRegistry, read only

Offer == [delegate: Accounts \cup {NoAccount},
          methods: Seq(PaymentMethods),                  \* depositPaymentMethods
          payee: [PaymentMethods -> Payees \cup {NoPayee}],
          listed: SUBSET PaymentMethods,
          active: SUBSET PaymentMethods,
          currencies: [PaymentMethods -> Seq(Currencies)],
          minRate: [PaymentMethods -> [Currencies -> Rates \cup {0}]],
          currencyListed: [PaymentMethods -> SUBSET Currencies]]

NoOffer == [delegate |-> NoAccount, methods |-> <<>>,
            payee |-> [m \in PaymentMethods |-> NoPayee],
            listed |-> {}, active |-> {},
            currencies |-> [m \in PaymentMethods |-> <<>>],
            minRate |-> [m \in PaymentMethods |-> [c \in Currencies |-> 0]],
            currencyListed |-> [m \in PaymentMethods |-> {}]]

\* The calldata of one call: currencies with their rates, methods with theirs.
Lists(S) == UNION {[1 .. n -> S] : n \in 0 .. MaxListed}
Quotes == Lists([code: Currencies, rate: Rates])
Listings == Lists([method: PaymentMethods, payee: Payees, quotes: Quotes])

Codes(quotes) == {quotes[i].code : i \in DOMAIN quotes}
CodeList(quotes) == [i \in DOMAIN quotes |-> quotes[i].code]
RateOf(quotes, c) == (CHOOSE q \in Range(quotes) : q.code = c).rate

Methods(listings) == {listings[i].method : i \in DOMAIN listings}
MethodList(listings) == [i \in DOMAIN listings |-> listings[i].method]
ListingOf(listings, m) == CHOOSE l \in Range(listings) : l.method = m

Init == offers = [d \in DepositIds |-> NoOffer]

-----------------------------------------------------------------------------
\* No call of _addCurrencyToDeposit for quotes reverts.
MayQuote(offer, m, quotes) ==
    /\ IsInjective(CodeList(quotes))
    /\ Codes(quotes) \subseteq isCurrency[m] \ offer.currencyListed[m]

\* _addCurrencyToDeposit for each of quotes[m], for every method m
WithQuotes(offer, quotes) ==
    [offer EXCEPT
        !.currencies = [m \in PaymentMethods |-> @[m] \o CodeList(quotes[m])],
        !.currencyListed = [m \in PaymentMethods |-> @[m] \cup Codes(quotes[m])],
        !.minRate = [m \in PaymentMethods |-> [c \in Currencies |->
            IF c \in Codes(quotes[m]) THEN RateOf(quotes[m], c) ELSE @[m][c]]]]

BuggyMayList(offer, listings) ==    \* refuses active methods, not listed ones
    /\ IsInjective(MethodList(listings))
    /\ \A l \in Range(listings) :
            /\ verifierOf[l.method] # NoVerifier
            /\ l.method \notin offer.active
            /\ MayQuote(offer, l.method, l.quotes)

\* _addPaymentMethodsToDeposit does not revert.
MayList(offer, listings) ==
    /\ IsInjective(MethodList(listings))
    /\ \A l \in Range(listings) :
            /\ verifierOf[l.method] # NoVerifier
            /\ l.method \notin offer.listed
            /\ MayQuote(offer, l.method, l.quotes)

\* _addPaymentMethodsToDeposit
WithMethods(offer, listings) ==
    LET new == Methods(listings)
    IN  WithQuotes(
            [offer EXCEPT
                !.payee = [m \in PaymentMethods |->
                    IF m \in new THEN ListingOf(listings, m).payee ELSE @[m]],
                !.methods = @ \o MethodList(listings),
                !.listed = @ \cup new,
                !.active = @ \cup new],
            [m \in PaymentMethods |->
                IF m \in new THEN ListingOf(listings, m).quotes ELSE <<>>])

\* The tables without the methods in gone: of each, the quotes its array lists.
Without(offer, gone) ==
    [offer EXCEPT
        !.payee = [m \in PaymentMethods |-> IF m \in gone THEN NoPayee ELSE @[m]],
        !.listed = @ \ gone,
        !.active = @ \ gone,
        !.currencies = [m \in PaymentMethods |-> IF m \in gone THEN <<>> ELSE @[m]],
        !.minRate = [m \in PaymentMethods |-> [c \in Currencies |->
            IF m \in gone /\ c \in Range(offer.currencies[m]) THEN 0 ELSE @[m][c]]],
        !.currencyListed = [m \in PaymentMethods |->
            IF m \in gone THEN @[m] \ Range(offer.currencies[m]) ELSE @[m]]]

BuggyDeleted(offer) ==      \* leaves methods that are switched off
    [Without(offer, Range(offer.methods) \cap offer.active) EXCEPT
        !.delegate = NoAccount, !.methods = <<>>]

\* What _closeDeposit and _deleteDepositPaymentMethodAndCurrencyData leave.
Deleted(offer) ==
    [Without(offer, Range(offer.methods)) EXCEPT
        !.delegate = NoAccount, !.methods = <<>>]

-----------------------------------------------------------------------------
(* The functions of the depositor, and of the delegate.                      *)

Set(d, offer) == offers' = [offers EXCEPT ![d] = offer]

\* createDeposit's part: what deposit d offers from the start.
Open(d, delegate, listings) ==
    /\ MayList(offers[d], listings)
    /\ Set(d, WithMethods([offers[d] EXCEPT !.delegate = delegate], listings))

SetDelegate(d, account) ==
    /\ account # NoAccount
    /\ Set(d, [offers[d] EXCEPT !.delegate = account])

RemoveDelegate(d) ==
    /\ offers[d].delegate # NoAccount
    /\ Set(d, [offers[d] EXCEPT !.delegate = NoAccount])

AddPaymentMethods(d, listings) ==
    /\ MayList(offers[d], listings)
    /\ Set(d, WithMethods(offers[d], listings))

SetPaymentMethodActive(d, m, isActive) ==
    /\ m \in offers[d].listed
    /\ (m \in offers[d].active) # isActive
    /\ Set(d, [offers[d] EXCEPT !.active = IF isActive THEN @ \cup {m} ELSE @ \ {m}])

AddCurrencies(d, m, quotes) ==
    /\ m \in offers[d].active
    /\ MayQuote(offers[d], m, quotes)
    /\ Set(d, WithQuotes(offers[d], [n \in PaymentMethods |-> IF n = m THEN quotes ELSE <<>>]))

\* Also puts a deactivated currency back, even where the method is inactive.
SetCurrencyMinRate(d, m, c, rate) ==
    /\ c \in offers[d].currencyListed[m]
    /\ Set(d, [offers[d] EXCEPT !.minRate[m][c] = rate])

BuggyDeactivateCurrency(d, m, c) ==     \* takes the currency off the list
    /\ m \in offers[d].active
    /\ c \in offers[d].currencyListed[m]
    /\ Set(d, [offers[d] EXCEPT !.minRate[m][c] = 0, !.currencyListed[m] = @ \ {c}])

DeactivateCurrency(d, m, c) ==
    /\ m \in offers[d].active
    /\ c \in offers[d].currencyListed[m]
    /\ Set(d, [offers[d] EXCEPT !.minRate[m][c] = 0])

\* onlyDepositorOrDelegate
Edit(d) ==
    \/ \E listings \in Listings : AddPaymentMethods(d, listings)
    \/ \E m \in PaymentMethods, isActive \in BOOLEAN :
            SetPaymentMethodActive(d, m, isActive)
    \/ \E m \in PaymentMethods, quotes \in Quotes : AddCurrencies(d, m, quotes)
    \/ \E m \in PaymentMethods, c \in Currencies :
            \/ \E rate \in Rates : SetCurrencyMinRate(d, m, c, rate)
            \/ DeactivateCurrency(d, m, c)

\* _validateSignalIntent's questions to the deposit.
Accepts(d, m, c, rate) ==
    /\ m \in offers[d].active
    /\ offers[d].minRate[m][c] # 0
    /\ rate >= offers[d].minRate[m][c]
=============================================================================
