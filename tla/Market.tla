-------------------------------- MODULE Market --------------------------------
(* Protocol with what Protocol leaves out of a deposit: how it may be paid for  *)
(* (DepositOffers), which currencies the registry allows (MethodRegistry), and  *)
(* the payee, currency and rate an intent copies when it is signaled.           *)
EXTENDS Protocol

CONSTANTS Currencies, Payees, NoPayee, Rates, MaxListed

VARIABLES
    offers,
    isCurrency, currencies, paymentMethods,     \* with verifierOf: MethodRegistry
    terms               \* hash -> what signalIntent copied into the intent

Tables == INSTANCE DepositOffers
Registry == INSTANCE MethodRegistry

registryLists == <<isCurrency, currencies, paymentMethods>>
\* The tables are those of the one escrow.
ASSUME OneMarket == OtherEscrows = {}
\* EmptyPayeeDetails: no method is listed with the payee details 0.
ASSUME PayeesAssumption == NoPayee \notin Payees
ASSUME MaxListedAssumption == MaxListed \in Nat

marketVars == <<protocolVars, offers, registryLists, terms>>

NoTerms == [payee |-> NoPayee]

MarketInit ==
    /\ Init
    /\ Orch!Init
    /\ Registry!Init
    /\ isPaymentMethod = [v \in Verifiers |-> PaymentMethods]
    /\ isWriter = Verifiers
    /\ isNullified = {}
    /\ payouts = [h \in IntentHashes |-> 0]
    /\ redemptions = [p \in Pay!Nullifiers |-> 0]
    /\ Tables!Init
    /\ terms = [h \in IntentHashes |-> NoTerms]

\* delete intents[hash] deletes the terms with the rest.
TermsFollow == terms' = [h \in IntentHashes |-> IF Recorded(h)' THEN terms[h] ELSE NoTerms]

\* _closeDeposit deletes the tables of the deposit with its record.
OffersFollow ==
    offers' = [d \in DepositIds |->
                IF Exists(d) /\ ~Exists(d)' THEN Tables!Deleted(offers[d]) ELSE offers[d]]

\* createDeposit
OpenDeposit(a, t, amount, min, max, guardian, retain, delegate, listings) ==
    /\ CreateDeposit(a, t, amount, min, max, guardian, retain)
    /\ Tables!Open(depositCounter, delegate, listings)
    /\ UNCHANGED <<orchVars, payVars, log, registryLists, terms>>

\* The functions that change the tables of an open deposit.
Configure(d) ==
    /\ ~paused
    /\ Exists(d)
    /\ \/ Tables!Edit(d)
       \/ Tables!RemoveDelegate(d)
       \/ \E a \in Accounts : Tables!SetDelegate(d, a)
    /\ UNCHANGED <<protocolVars, registryLists, terms>>

\* signalIntent; the gating service of the method, if any, has signed.
SignalAtRate(o, taker, d, amount, m, c, rate) ==
    /\ Tables!Accepts(d, m, c, rate)
    /\ Signal(o, taker, ThisEscrow, d, amount, m)
    /\ terms' = [h \in IntentHashes |->
            IF h = Orch!NextHash(o)
            THEN [payee |-> offers[d].payee[m], currency |-> c, rate |-> rate]
            ELSE IF Recorded(h)' THEN terms[h] ELSE NoTerms]
    /\ UNCHANGED <<offers, registryLists>>

\* The owner of PaymentVerifierRegistry.
Register ==
    /\ Registry!Next
    /\ UNCHANGED <<escrowVars, orchVars, isPaymentMethod, isWriter, isNullified,
                   log, offers, terms>>

\* Every transaction that opens no deposit, signals no intent and is not the
\* registry owner's.
Otherwise(step) ==
    /\ step
    /\ UNCHANGED <<depositCounter, intentCounter, verifierOf, registryLists>>
    /\ OffersFollow
    /\ TermsFollow

MarketNext ==
    \/ \E a \in Accounts, t \in Tokens, amount, min, max \in Amounts,
          guardian, delegate \in Accounts \cup {NoAccount}, retain \in BOOLEAN,
          listings \in Tables!Listings :
            OpenDeposit(a, t, amount, min, max, guardian, retain, delegate, listings)
    \/ \E d \in DepositIds : Configure(d)
    \/ \E o \in Orchestrators, a \in Accounts, d \in DepositIds, amount \in Amounts,
          m \in PaymentMethods, c \in Currencies, rate \in Rates :
            SignalAtRate(o, a, d, amount, m, c, rate)
    \/ Register
    \/ Otherwise(ProtocolNext)

MarketSpec == MarketInit /\ [][MarketNext]_marketVars

-----------------------------------------------------------------------------
\* The arrays of methods and currencies of a deposit list what its mappings
\* hold, each once, so the deletion that follows the arrays misses nothing, and
\* nothing is quoted or active that is not listed.
TablesAgree ==
    \A d \in DepositIds :
        LET o == offers[d]
        IN  /\ Registry!IsInjective(o.methods)
            /\ Registry!Range(o.methods) = o.listed
            /\ o.active \subseteq o.listed
            /\ \A m \in PaymentMethods :
                  /\ o.payee[m] # NoPayee <=> m \in o.listed
                  /\ Registry!IsInjective(o.currencies[m])
                  /\ Registry!Range(o.currencies[m]) = o.currencyListed[m]
                  /\ {c \in Currencies : o.minRate[m][c] # 0} \subseteq o.currencyListed[m]
                  /\ o.currencyListed[m] # {} => m \in o.listed

\* A deposit that is closed, by its depositor or by the payment that empties
\* it, takes no offer with it: no delegate, method, payee or quote stays behind.
ClosedDepositsOfferNothing ==
    \A d \in DepositIds : ~Exists(d) => offers[d] = Tables!NoOffer

\* The payee a taker was told to pay stays the deposit's for as long as the
\* intent is open: methods are switched off and never deleted under it, "to
\* allow existing intents to be fulfilled" (Escrow.sol:398), nor replaced.
PayeesStand ==
    \A h \in IntentHashes : Recorded(h) =>
        LET o == offers[intents[h].depositId]
            m == intents[h].paymentMethod
        IN  /\ m \in o.listed
            /\ o.payee[m] = terms[h].payee
            /\ terms[h].currency \in o.currencyListed[m]

\* PaymentVerifierRegistry's own promises, while deposits and intents use it.
RegistryAgrees == Registry!RegistryAgrees
CanAlwaysReturn == Registry!CanAlwaysReturn
=============================================================================
