---------------------------- MODULE MarketTheorems ----------------------------
(* What TLAPS proves of Market for every value of its constants: any number of *)
(* methods, currencies, payees and rates, and lists of any bounded length; and *)
(* of Whitelist, which repeats the arrays of these registries.                 *)
EXTENDS Market, ProtocolTheorems

-----------------------------------------------------------------------------
(* PaymentVerifierRegistry.                                                  *)

\* Its arrays are those of ArrayUtils.
LEMMA SameArrays ==
    ASSUME NEW A, NEW a
    PROVE  /\ Registry!IsInjective(A) <=> IsInjective(A)
           /\ Registry!Range(A) = Range(A)
           /\ Tables!IsInjective(A) <=> IsInjective(A)
           /\ Tables!Range(A) = Range(A)
           /\ Registry!RemoveStorage(A, a) = RemoveStorage(A, a)
BY DEF Registry!IsInjective, IsInjective, Registry!Range, Range,
   Tables!IsInjective, Tables!Range,
   Registry!RemoveStorage, RemoveStorage, Registry!IndexOf, IndexOf

\* _removeCurrency for each element of cs.
LEMMA RemovesAll ==
    ASSUME NEW S, NEW A \in Seq(S), IsInjective(A),
           NEW cs \in Seq(S), IsInjective(cs), Range(cs) \subseteq Range(A)
    PROVE  LET B == Registry!FoldLeft(Registry!RemoveStorage, A, cs)
           IN  /\ B \in Seq(S)
               /\ IsInjective(B)
               /\ Range(B) = Range(A) \ Range(cs)
<1>1. PICK g : /\ RemovesOn(g, A, cs, SUBSET DOMAIN cs)
               /\ Registry!FoldLeft(Registry!RemoveStorage, A, cs) = g[DOMAIN cs]
  <2> DEFINE f == CHOOSE h : RemovesOn(h, A, cs, SUBSET DOMAIN cs)
  <2>1. Registry!FoldLeft(Registry!RemoveStorage, A, cs) = f[DOMAIN cs]
    BY Zenon DEF Registry!FoldLeft, Registry!MapThenFoldSet, RemovesOn,
       Registry!Max, Last, Registry!RemoveStorage, RemoveStorage, Registry!IndexOf, IndexOf
  <2>2. RemovesOn(f, A, cs, SUBSET DOMAIN cs)
    <3>1. DOMAIN cs = 1 .. Len(cs) /\ Len(cs) \in Nat
      OBVIOUS
    <3> QED BY <3>1, RemovalExists
  <2> HIDE DEF f
  <2> QED BY <2>1, <2>2, Zenon
<1>2. RemovesOn(g, A, cs, SUBSET DOMAIN cs)
  BY <1>1, Zenon
<1>3. /\ g[DOMAIN cs] \in Seq(S)
      /\ IsInjective(g[DOMAIN cs])
      /\ Range(g[DOMAIN cs]) = Range(A) \ Range(cs)
  BY <1>2, RemovalIsExact
<1> QED
  BY <1>1, <1>3, Zenon

RegistryInv ==
    /\ verifierOf \in [PaymentMethods -> Verifiers \cup {NoVerifier}]
    /\ isCurrency \in [PaymentMethods -> SUBSET Currencies]
    /\ currencies \in [PaymentMethods -> Seq(Currencies)]
    /\ paymentMethods \in Seq(PaymentMethods)
    /\ RegistryAgrees

\* Calldata arrays.
LEMMA ListsType ==
    ASSUME NEW cs \in Registry!Lists
    PROVE  cs \in Seq(Currencies)
<1>1. PICK n \in 1 .. MaxListed : cs \in [1 .. n -> Currencies]
  BY DEF Registry!Lists
<1> QED
  BY <1>1

LEMMA RegistryAgreesUnfolds ==
    RegistryAgrees <=>
        /\ IsInjective(paymentMethods)
        /\ Range(paymentMethods) = {m \in PaymentMethods : verifierOf[m] # NoVerifier}
        /\ \A m \in PaymentMethods :
              IsInjective(currencies[m]) /\ Range(currencies[m]) = isCurrency[m]
BY SameArrays, Zenon DEF RegistryAgrees, Registry!RegistryAgrees, Registry!Registered

LEMMA RegistryNext == RegistryInv /\ Registry!Next => RegistryInv'
<1> SUFFICES ASSUME RegistryInv, Registry!Next PROVE RegistryInv'
  OBVIOUS
<1> USE DEF RegistryInv
<1>0. /\ IsInjective(paymentMethods)
      /\ Range(paymentMethods) = {m \in PaymentMethods : verifierOf[m] # NoVerifier}
      /\ \A m \in PaymentMethods :
            IsInjective(currencies[m]) /\ Range(currencies[m]) = isCurrency[m]
  BY RegistryAgreesUnfolds
<1> DEFINE Goal == RegistryInv'
\* It is enough to look at the method concerned.
<1>1. ASSUME NEW m \in PaymentMethods, NEW cs,
             isCurrency' = [isCurrency EXCEPT ![m] = cs],
             cs \in SUBSET Currencies,
             NEW A \in Seq(Currencies), IsInjective(A), Range(A) = cs,
             currencies' = [currencies EXCEPT ![m] = A],
             verifierOf' \in [PaymentMethods -> Verifiers \cup {NoVerifier}],
             paymentMethods' \in Seq(PaymentMethods),
             IsInjective(paymentMethods'),
             Range(paymentMethods') = {n \in PaymentMethods : verifierOf'[n] # NoVerifier}
      PROVE  RegistryInv'
  <2>1. \A n \in PaymentMethods :
            IsInjective(currencies'[n]) /\ Range(currencies'[n]) = isCurrency'[n]
    <3> SUFFICES ASSUME NEW n \in PaymentMethods
                 PROVE  IsInjective(currencies'[n]) /\ Range(currencies'[n]) = isCurrency'[n]
      OBVIOUS
    <3>1. CASE n = m
      BY <3>1, <1>1
    <3>2. CASE n # m
      BY <3>2, <1>0, <1>1
    <3> QED BY <3>1, <3>2
  <2>2. RegistryAgrees'
    <3>1. /\ IsInjective(paymentMethods')
          /\ Range(paymentMethods') = {n \in PaymentMethods : verifierOf'[n] # NoVerifier}
      BY <1>1
    <3> QED BY ONLY <3>1, <2>1, SameArrays, Zenon DEF RegistryAgrees, Registry!RegistryAgrees, Registry!Registered
  <2>3. isCurrency' \in [PaymentMethods -> SUBSET Currencies]
    BY <1>1
  <2>4. currencies' \in [PaymentMethods -> Seq(Currencies)]
    BY <1>1
  <2> QED BY <1>1, <2>2, <2>3, <2>4
\* addCurrencies, as far as the arrays of one method go
<1>2. ASSUME NEW m \in PaymentMethods, NEW cs \in Registry!Lists, Registry!MayAdd(m, cs)
      PROVE  /\ isCurrency[m] \cup Registry!Range(cs) \in SUBSET Currencies
             /\ currencies[m] \o cs \in Seq(Currencies)
             /\ IsInjective(currencies[m] \o cs)
             /\ Range(currencies[m] \o cs) = isCurrency[m] \cup Registry!Range(cs)
  <2>1. /\ IsInjective(cs)
        /\ Range(cs) \cap isCurrency[m] = {}
        /\ Registry!Range(cs) = Range(cs)
    BY <1>2, SameArrays DEF Registry!MayAdd
  <2>2. cs \in Seq(Currencies) /\ currencies[m] \in Seq(Currencies)
    BY ListsType
  <2>3. Range(cs) \subseteq Currencies
    BY <2>2 DEF Range
  <2>4. Range(currencies[m]) \cap Range(cs) = {}
    BY <1>0, <2>1
  <2>5. /\ currencies[m] \o cs \in Seq(Currencies)
        /\ IsInjective(currencies[m] \o cs)
        /\ Range(currencies[m] \o cs) = Range(currencies[m]) \cup Range(cs)
    BY <1>0, <2>1, <2>2, <2>4, ConcatIsExact
  <2> QED BY <1>0, <2>1, <2>3, <2>5
<1>3. ASSUME NEW m \in PaymentMethods, NEW v \in Verifiers, NEW cs \in Registry!Lists,
             Registry!AddPaymentMethod(m, v, cs)
      PROVE  Goal
  <2>1. /\ verifierOf[m] = NoVerifier
        /\ Registry!MayAdd(m, cs)
        /\ verifierOf' = [verifierOf EXCEPT ![m] = v]
        /\ isCurrency' = [isCurrency EXCEPT ![m] = isCurrency[m] \cup Registry!Range(cs)]
        /\ currencies' = [currencies EXCEPT ![m] = currencies[m] \o cs]
        /\ paymentMethods' = Append(paymentMethods, m)
    BY <1>3 DEF Registry!AddPaymentMethod, Registry!Registered
  <2>2. m \notin Range(paymentMethods)
    BY <1>0, <2>1
  <2>3. /\ paymentMethods' \in Seq(PaymentMethods)
        /\ IsInjective(paymentMethods')
        /\ Range(paymentMethods') = Range(paymentMethods) \cup {m}
    BY <1>0, <2>1, <2>2, AppendIsExact
  <2>4. verifierOf' \in [PaymentMethods -> Verifiers \cup {NoVerifier}]
    BY <2>1
  <2>5. Range(paymentMethods') = {n \in PaymentMethods : verifierOf'[n] # NoVerifier}
    BY <1>0, <2>1, <2>3, VerifiersAssumption
  <2> QED BY <1>1, <1>2, <2>1, <2>3, <2>4, <2>5
<1>4. ASSUME NEW m \in PaymentMethods, Registry!RemovePaymentMethod(m)
      PROVE  Goal
  <2>1. /\ m \in Range(paymentMethods)
        /\ verifierOf' = [verifierOf EXCEPT ![m] = NoVerifier]
        /\ isCurrency' = [isCurrency EXCEPT ![m] = isCurrency[m] \ Range(currencies[m])]
        /\ currencies' = [currencies EXCEPT ![m] = <<>>]
        /\ paymentMethods' = RemoveStorage(paymentMethods, m)
    BY <1>4, SameArrays DEF Registry!RemovePaymentMethod
  <2>2. isCurrency[m] \ Range(currencies[m]) = {}
    BY <1>0
  <2>3. /\ paymentMethods' \in Seq(PaymentMethods)
        /\ IsInjective(paymentMethods')
        /\ Range(paymentMethods') = Range(paymentMethods) \ {m}
    BY <1>0, <2>1, RemoveStorageIsExact
  <2>4. verifierOf' \in [PaymentMethods -> Verifiers \cup {NoVerifier}]
    BY <2>1
  <2>5. Range(paymentMethods') = {n \in PaymentMethods : verifierOf'[n] # NoVerifier}
    BY <1>0, <2>1, <2>3
  <2>6. <<>> \in Seq(Currencies) /\ IsInjective(<<>>) /\ Range(<<>>) = {}
    BY DEF IsInjective, Range
  <2> QED BY <1>1, <2>1, <2>2, <2>3, <2>4, <2>5, <2>6
<1>5. ASSUME NEW m \in PaymentMethods, NEW cs \in Registry!Lists,
             Registry!AddCurrencies(m, cs)
      PROVE  Goal
  <2>1. /\ Registry!MayAdd(m, cs)
        /\ isCurrency' = [isCurrency EXCEPT ![m] = isCurrency[m] \cup Registry!Range(cs)]
        /\ currencies' = [currencies EXCEPT ![m] = currencies[m] \o cs]
        /\ UNCHANGED <<verifierOf, paymentMethods>>
    BY <1>5 DEF Registry!AddCurrencies
  <2> QED BY <1>0, <1>1, <1>2, <2>1
<1>6. ASSUME NEW m \in PaymentMethods, NEW cs \in Registry!Lists,
             Registry!RemoveCurrencies(m, cs)
      PROVE  Goal
  <2> DEFINE B == Registry!FoldLeft(Registry!RemoveStorage, currencies[m], cs)
  <2>1. /\ IsInjective(cs)
        /\ Range(cs) \subseteq Range(currencies[m])
        /\ isCurrency' = [isCurrency EXCEPT ![m] = isCurrency[m] \ Range(cs)]
        /\ currencies' = [currencies EXCEPT ![m] = B]
        /\ UNCHANGED <<verifierOf, paymentMethods>>
    BY <1>6, SameArrays DEF Registry!RemoveCurrencies, Registry!MayRemove
  <2>2. cs \in Seq(Currencies) /\ currencies[m] \in Seq(Currencies)
    BY ListsType
  <2>3. /\ B \in Seq(Currencies)
        /\ IsInjective(B)
        /\ Range(B) = Range(currencies[m]) \ Range(cs)
    BY <1>0, <2>1, <2>2, RemovesAll
  <2> HIDE DEF B
  <2>4. Range(B) = isCurrency[m] \ Range(cs) /\ isCurrency[m] \ Range(cs) \in SUBSET Currencies
    BY <1>0, <2>3
  <2> QED BY <1>0, <1>1, <2>1, <2>3, <2>4
<1> QED
  BY <1>3, <1>4, <1>5, <1>6 DEF Registry!Next

\* Nothing but the registry's owner changes the registry.
LEMMA RegistryMoves ==
    [MarketNext]_marketVars =>
        \/ Registry!Next
        \/ UNCHANGED <<verifierOf, isCurrency, currencies, paymentMethods>>
<1> SUFFICES ASSUME [MarketNext]_marketVars
             PROVE  \/ Registry!Next
                    \/ UNCHANGED <<verifierOf, isCurrency, currencies, paymentMethods>>
  OBVIOUS
<1>1. CASE Register
  BY <1>1 DEF Register
<1>2. CASE \E a \in Accounts, t \in Tokens, amount \in Amounts, min \in Amounts, max \in Amounts,
              guardian \in Accounts \cup {NoAccount}, delegate \in Accounts \cup {NoAccount},
              retain \in BOOLEAN, listings \in Tables!Listings :
                OpenDeposit(a, t, amount, min, max, guardian, retain, delegate, listings)
  BY <1>2 DEF OpenDeposit, payVars, registryLists
<1>3. CASE \E d \in DepositIds : Configure(d)
  BY <1>3 DEF Configure, protocolVars, payVars, registryLists
<1>4. CASE \E o \in Orchestrators, a \in Accounts, d \in DepositIds, amount \in Amounts,
              m \in PaymentMethods, c \in Currencies, rate \in Rates :
                SignalAtRate(o, a, d, amount, m, c, rate)
  BY <1>4 DEF SignalAtRate, Signal, payVars, registryLists
<1>5. CASE Otherwise(ProtocolNext)
  BY <1>5 DEF Otherwise, registryLists
<1>6. CASE UNCHANGED marketVars
  BY <1>6 DEF marketVars, protocolVars, payVars, registryLists
<1> QED
  BY <1>1, <1>2, <1>3, <1>4, <1>5, <1>6 DEF MarketNext

LEMMA RegistryStep == RegistryInv /\ [MarketNext]_marketVars => RegistryInv'
<1> SUFFICES ASSUME RegistryInv, [MarketNext]_marketVars PROVE RegistryInv'
  OBVIOUS
<1>1. CASE UNCHANGED <<verifierOf, isCurrency, currencies, paymentMethods>>
  BY <1>1 DEF RegistryInv, RegistryAgrees, Registry!RegistryAgrees, Registry!Registered
<1> QED
  BY <1>1, RegistryMoves, RegistryNext

LEMMA RegistryInit == MarketInit => RegistryInv
<1> SUFFICES ASSUME MarketInit PROVE RegistryInv
  OBVIOUS
<1>1. /\ verifierOf = [m \in PaymentMethods |-> NoVerifier]
      /\ isCurrency = [m \in PaymentMethods |-> {}]
      /\ currencies = [m \in PaymentMethods |-> <<>>]
      /\ paymentMethods = <<>>
  BY DEF MarketInit, Registry!Init
<1>2. IsInjective(<<>>) /\ Range(<<>>) = {}
  BY DEF IsInjective, Range
<1> QED
  BY <1>1, <1>2, RegistryAgreesUnfolds DEF RegistryInv

\* Whatever methods and currencies come and go, the registry's arrays list what
\* its mappings hold, each once: no removal leaves a currency that is refused
\* and cannot be added, nor an accepted one that no view shows.
THEOREM RegistryStaysConsistent == MarketSpec => []RegistryAgrees
<1>1. RegistryInv => RegistryAgrees
  BY DEF RegistryInv
<1> QED
  BY <1>1, RegistryInit, RegistryStep, PTL DEF MarketSpec

-----------------------------------------------------------------------------
(* Methods that come and go.                                                 *)
(* As in EscrowTheorems, Can... are the tests of a transaction and After...  *)
(* is the state it leaves, here of the registry's variables.                 *)

\* removePaymentMethod leaves no currency accepted.
NothingLeftBehind ==
    \A m \in PaymentMethods : verifierOf[m] = NoVerifier => isCurrency[m] = {}

LEMMA RegistryLeavesNothing ==
    RegistryInv /\ NothingLeftBehind /\ Registry!Next => NothingLeftBehind'
<1> SUFFICES ASSUME RegistryInv, NothingLeftBehind, Registry!Next,
                    NEW n \in PaymentMethods, verifierOf'[n] = NoVerifier
             PROVE  isCurrency'[n] = {}
  BY DEF NothingLeftBehind
<1> USE DEF RegistryInv
<1>1. ASSUME NEW m \in PaymentMethods, NEW v \in Verifiers, NEW cs \in Registry!Lists,
             Registry!AddPaymentMethod(m, v, cs)
      PROVE  isCurrency'[n] = {}
  BY <1>1, VerifiersAssumption DEF Registry!AddPaymentMethod, NothingLeftBehind
<1>2. ASSUME NEW m \in PaymentMethods, Registry!RemovePaymentMethod(m)
      PROVE  isCurrency'[n] = {}
  <2>1. /\ verifierOf' = [verifierOf EXCEPT ![m] = NoVerifier]
        /\ isCurrency' = [isCurrency EXCEPT ![m] = isCurrency[m] \ Range(currencies[m])]
    BY <1>2, SameArrays DEF Registry!RemovePaymentMethod
  <2>2. Range(currencies[m]) = isCurrency[m]
    BY RegistryAgreesUnfolds
  <2> QED
    BY <2>1, <2>2 DEF NothingLeftBehind
<1>3. ASSUME NEW m \in PaymentMethods, NEW cs \in Registry!Lists,
             Registry!AddCurrencies(m, cs)
      PROVE  isCurrency'[n] = {}
  BY <1>3 DEF Registry!AddCurrencies, Registry!Registered, NothingLeftBehind
<1>4. ASSUME NEW m \in PaymentMethods, NEW cs \in Registry!Lists,
             Registry!RemoveCurrencies(m, cs)
      PROVE  isCurrency'[n] = {}
  BY <1>4 DEF Registry!RemoveCurrencies, NothingLeftBehind
<1> QED
  BY <1>1, <1>2, <1>3, <1>4 DEF Registry!Next

\* The tests of addPaymentMethod and of removePaymentMethod.
CanAdd(m, cs) == ~Registry!Registered(m) /\ Registry!MayAdd(m, cs)

CanTakeOut(m) ==
    /\ Registry!Registered(m)
    /\ Registry!MayRemove(m, currencies[m])
    /\ m \in Registry!Range(paymentMethods)

AfterAdding(m, v, cs) ==
    <<[verifierOf EXCEPT ![m] = v],
      [isCurrency EXCEPT ![m] = @ \cup Registry!Range(cs)],
      [currencies EXCEPT ![m] = @ \o cs],
      Append(paymentMethods, m)>>

LEMMA AddingIsTested ==
    ASSUME NEW m \in PaymentMethods, NEW v \in Verifiers, NEW cs \in Registry!Lists,
           CanAdd(m, cs),
           <<verifierOf, isCurrency, currencies, paymentMethods>>' = AfterAdding(m, v, cs)
    PROVE  Registry!AddPaymentMethod(m, v, cs)
BY DEF CanAdd, AfterAdding, Registry!AddPaymentMethod

AfterTakingOut(m) ==
    <<[verifierOf EXCEPT ![m] = NoVerifier],
      [isCurrency EXCEPT ![m] = @ \ Registry!Range(currencies[m])],
      [currencies EXCEPT ![m] = <<>>],
      Registry!RemoveStorage(paymentMethods, m)>>

LEMMA TakingOutIsTested ==
    ASSUME NEW m \in PaymentMethods, CanTakeOut(m),
           <<verifierOf, isCurrency, currencies, paymentMethods>>' = AfterTakingOut(m)
    PROVE  Registry!RemovePaymentMethod(m)
BY DEF CanTakeOut, AfterTakingOut, Registry!RemovePaymentMethod

MethodsComeAndGo ==
    \A m \in PaymentMethods :
        IF Registry!Registered(m) THEN CanTakeOut(m)
        ELSE \A cs \in Registry!Lists : Registry!IsInjective(cs) => CanAdd(m, cs)

\* Whatever currencies were added to a method and removed from it, its owner can
\* take it out (TakingOutIsTested), and put it back with any currencies, ones it
\* had before included (AddingIsTested): deleting the struct, which spares the
\* mapping inside it, blocks nothing, for the loop before it has emptied that.
THEOREM RegistryNeverSticks == MarketSpec => []MethodsComeAndGo
<1>1. RegistryInv /\ NothingLeftBehind => MethodsComeAndGo
  <2> SUFFICES ASSUME RegistryInv, NothingLeftBehind, NEW m \in PaymentMethods
               PROVE  /\ Registry!Registered(m) => CanTakeOut(m)
                      /\ ~Registry!Registered(m) =>
                            \A cs \in Registry!Lists :
                                Registry!IsInjective(cs) => CanAdd(m, cs)
    BY DEF MethodsComeAndGo
  <2>1. /\ Registry!Range(paymentMethods) =
                {n \in PaymentMethods : verifierOf[n] # NoVerifier}
        /\ Registry!IsInjective(currencies[m])
        /\ Registry!Range(currencies[m]) = isCurrency[m]
    BY DEF RegistryInv, RegistryAgrees, Registry!RegistryAgrees, Registry!Registered
  <2>2. Registry!Registered(m) => CanTakeOut(m)
    BY <2>1 DEF CanTakeOut, Registry!MayRemove, Registry!Registered
  <2>3. ~Registry!Registered(m) => \A cs \in Registry!Lists :
                                        Registry!IsInjective(cs) => CanAdd(m, cs)
    BY DEF NothingLeftBehind, CanAdd, Registry!MayAdd, Registry!Registered
  <2> QED
    BY <2>2, <2>3
<1>2. RegistryInv /\ NothingLeftBehind /\ [MarketNext]_marketVars => NothingLeftBehind'
  <2> SUFFICES ASSUME RegistryInv, NothingLeftBehind, [MarketNext]_marketVars
               PROVE  NothingLeftBehind'
    OBVIOUS
  <2>1. CASE Registry!Next
    BY <2>1, RegistryLeavesNothing
  <2>2. CASE UNCHANGED <<verifierOf, isCurrency>>
    BY <2>2 DEF NothingLeftBehind
  <2> QED
    BY <2>1, <2>2, RegistryMoves
<1>3. MarketInit => NothingLeftBehind
  BY DEF MarketInit, Registry!Init, NothingLeftBehind
<1> QED
  BY <1>1, <1>2, <1>3, RegistryInit, RegistryStep, PTL DEF MarketSpec

-----------------------------------------------------------------------------
(* The tables of the deposits.                                               *)

\* TablesAgree of one deposit.
OfferSound(o) ==
    /\ IsInjective(o.methods)
    /\ Range(o.methods) = o.listed
    /\ o.active \subseteq o.listed
    /\ \A m \in PaymentMethods :
          /\ o.payee[m] # NoPayee <=> m \in o.listed
          /\ IsInjective(o.currencies[m])
          /\ Range(o.currencies[m]) = o.currencyListed[m]
          /\ {c \in Currencies : o.minRate[m][c] # 0} \subseteq o.currencyListed[m]
          /\ o.currencyListed[m] # {} => m \in o.listed

Sound == {o \in Tables!Offer : OfferSound(o)}

LEMMA TablesAgreeUnfolds == TablesAgree <=> \A d \in DepositIds : OfferSound(offers[d])
BY Zenon DEF TablesAgree, OfferSound, Registry!IsInjective, IsInjective,
   Registry!Range, Range

LEMMA EmptyIsSound == Tables!NoOffer \in Sound
<1>1. IsInjective(<<>>) /\ Range(<<>>) = {}
  BY DEF IsInjective, Range
<1>2. <<>> \in Seq(PaymentMethods) /\ <<>> \in Seq(Currencies)
  OBVIOUS
<1>3. Tables!NoOffer \in Tables!Offer
  BY <1>2 DEF Tables!NoOffer, Tables!Offer
<1>4. OfferSound(Tables!NoOffer)
  BY <1>1 DEF Tables!NoOffer, OfferSound
<1> QED
  BY <1>3, <1>4 DEF Sound

\* What _closeDeposit leaves of sound tables is nothing: the deletion follows
\* the arrays, and they list all there is.
LEMMA DeletedIsEmpty ==
    ASSUME NEW o \in Sound
    PROVE  Tables!Deleted(o) = Tables!NoOffer
<1> DEFINE gone == Range(o.methods)
           payee == [m \in PaymentMethods |-> IF m \in gone THEN NoPayee ELSE o.payee[m]]
           lists == [m \in PaymentMethods |-> IF m \in gone THEN <<>> ELSE o.currencies[m]]
           rates == [m \in PaymentMethods |-> [c \in Currencies |->
                        IF m \in gone /\ c \in Tables!Range(o.currencies[m]) THEN 0
                        ELSE o.minRate[m][c]]]
           listed == [m \in PaymentMethods |->
                        IF m \in gone THEN o.currencyListed[m] \ Tables!Range(o.currencies[m])
                        ELSE o.currencyListed[m]]
<1>1. o \in Tables!Offer /\ OfferSound(o)
  BY DEF Sound
<1>2. Tables!Deleted(o) =
        [delegate |-> NoAccount, methods |-> <<>>, payee |-> payee,
         listed |-> o.listed \ gone, active |-> o.active \ gone,
         currencies |-> lists, minRate |-> rates, currencyListed |-> listed]
  <2>1. Tables!Deleted(o) =
            [[o EXCEPT !.payee = payee, !.listed = o.listed \ gone,
                       !.active = o.active \ gone, !.currencies = lists,
                       !.minRate = rates, !.currencyListed = listed]
                EXCEPT !.delegate = NoAccount, !.methods = <<>>]
    BY SameArrays, Zenon DEF Tables!Deleted, Tables!Without
  <2> HIDE DEF gone, payee, lists, rates, listed
  <2> QED BY <1>1, <2>1 DEF Tables!Offer
<1>4. gone = o.listed /\ o.active \subseteq gone
  BY <1>1 DEF OfferSound
<1>5. \A m \in PaymentMethods :
        /\ payee[m] = NoPayee
        /\ lists[m] = <<>>
        /\ listed[m] = {}
        /\ \A c \in Currencies : rates[m][c] = 0
  <2> SUFFICES ASSUME NEW m \in PaymentMethods
               PROVE  /\ payee[m] = NoPayee
                      /\ lists[m] = <<>>
                      /\ listed[m] = {}
                      /\ \A c \in Currencies : rates[m][c] = 0
    OBVIOUS
  <2>1. /\ o.payee[m] # NoPayee <=> m \in gone
        /\ Range(o.currencies[m]) = o.currencyListed[m]
        /\ \A c \in Currencies : o.minRate[m][c] # 0 => c \in o.currencyListed[m]
        /\ o.currencyListed[m] # {} => m \in gone
    BY <1>1, <1>4 DEF OfferSound
  <2>2. m \notin gone => o.currencies[m] = <<>>
    <3>1. o.currencies[m] \in Seq(Currencies)
      BY <1>1 DEF Tables!Offer
    <3>2. o.currencies[m] # <<>> => 1 \in DOMAIN o.currencies[m]
      BY <3>1
    <3> QED BY <2>1, <3>1, <3>2 DEF Range
  <2>3. Tables!Range(o.currencies[m]) = Range(o.currencies[m])
    BY SameArrays
  <2> HIDE DEF gone
  <2> QED BY <2>1, <2>2, <2>3
<1>6. /\ payee = [m \in PaymentMethods |-> NoPayee]
      /\ lists = [m \in PaymentMethods |-> <<>>]
      /\ rates = [m \in PaymentMethods |-> [c \in Currencies |-> 0]]
      /\ listed = [m \in PaymentMethods |-> {}]
  <2> HIDE DEF gone
  <2> QED BY <1>5
<1> HIDE DEF gone, payee, lists, rates, listed
<1>7. o.listed \ gone = {} /\ o.active \ gone = {}
  BY <1>4
<1> QED
  BY <1>2, <1>6, <1>7, Zenon DEF Tables!NoOffer

\* The codes of quotes, as an array.
LEMMA CodesOfQuotes ==
    ASSUME NEW q \in Tables!Quotes
    PROVE  /\ Tables!CodeList(q) \in Seq(Currencies)
           /\ Range(Tables!CodeList(q)) = Tables!Codes(q)
           /\ Tables!Codes(q) \subseteq Currencies
           /\ \A c \in Tables!Codes(q) : Tables!RateOf(q, c) \in Rates
<1> DEFINE Quote == [code: Currencies, rate: Rates]
<1>1. PICK n \in 0 .. MaxListed : q \in [1 .. n -> Quote]
  BY DEF Tables!Quotes, Tables!Lists
<1>2. /\ DOMAIN q = 1 .. n /\ n \in Nat
      /\ \A i \in 1 .. n : q[i].code \in Currencies /\ q[i].rate \in Rates
  BY <1>1
<1>3. Tables!CodeList(q) = [i \in 1 .. n |-> q[i].code]
  BY <1>2 DEF Tables!CodeList
<1>4. Tables!CodeList(q) \in Seq(Currencies)
  BY <1>2, <1>3
<1>5. Range(Tables!CodeList(q)) = Tables!Codes(q)
  BY <1>2, <1>3 DEF Range, Tables!Codes
<1>6. Tables!Codes(q) \subseteq Currencies
  BY <1>2 DEF Tables!Codes
<1>7. ASSUME NEW c \in Tables!Codes(q) PROVE Tables!RateOf(q, c) \in Rates
  <2>1. \A x \in Tables!Range(q) : x.rate \in Rates
    BY <1>2 DEF Tables!Range
  <2>2. \E x \in Tables!Range(q) : x.code = c
    BY <1>2 DEF Tables!Codes, Tables!Range
  <2> DEFINE x == CHOOSE y \in Tables!Range(q) : y.code = c
  <2>3. x \in Tables!Range(q)
    BY <2>2
  <2> QED BY <2>1, <2>3 DEF Tables!RateOf
<1> QED
  BY <1>4, <1>5, <1>6, <1>7

\* _addCurrencyToDeposit, for quotes it does not refuse.
LEMMA QuotesKeepSound ==
    ASSUME NEW o \in Sound, NEW quotes \in [PaymentMethods -> Tables!Quotes],
           \A m \in PaymentMethods :
              /\ IsInjective(Tables!CodeList(quotes[m]))
              /\ Tables!Codes(quotes[m]) \cap o.currencyListed[m] = {}
              /\ Tables!Codes(quotes[m]) # {} => m \in o.listed
    PROVE  Tables!WithQuotes(o, quotes) \in Sound
<1> DEFINE lists == [m \in PaymentMethods |->
                        o.currencies[m] \o Tables!CodeList(quotes[m])]
           listed == [m \in PaymentMethods |->
                        o.currencyListed[m] \cup Tables!Codes(quotes[m])]
           rates == [m \in PaymentMethods |-> [c \in Currencies |->
                        IF c \in Tables!Codes(quotes[m]) THEN Tables!RateOf(quotes[m], c)
                        ELSE o.minRate[m][c]]]
           x == Tables!WithQuotes(o, quotes)
<1>1. o \in Tables!Offer /\ OfferSound(o)
  BY DEF Sound
<1>2. x = [o EXCEPT !.currencies = lists, !.currencyListed = listed, !.minRate = rates]
  BY Zenon DEF Tables!WithQuotes
<1>3. ASSUME NEW m \in PaymentMethods
      PROVE  /\ lists[m] \in Seq(Currencies)
             /\ IsInjective(lists[m])
             /\ Range(lists[m]) = listed[m]
             /\ listed[m] \subseteq Currencies
             /\ rates[m] \in [Currencies -> Rates \cup {0}]
             /\ \A c \in Currencies : rates[m][c] # 0 => c \in listed[m]
             /\ listed[m] # {} => m \in o.listed
  <2> DEFINE A == o.currencies[m]
             B == Tables!CodeList(quotes[m])
  <2>1. /\ A \in Seq(Currencies)
        /\ o.currencyListed[m] \subseteq Currencies
        /\ o.minRate[m] \in [Currencies -> Rates \cup {0}]
    BY <1>1 DEF Tables!Offer
  <2>2. /\ IsInjective(A)
        /\ Range(A) = o.currencyListed[m]
        /\ \A c \in Currencies : o.minRate[m][c] # 0 => c \in o.currencyListed[m]
        /\ o.currencyListed[m] # {} => m \in o.listed
    BY <1>1 DEF OfferSound
  <2>3. /\ B \in Seq(Currencies)
        /\ Range(B) = Tables!Codes(quotes[m])
        /\ Tables!Codes(quotes[m]) \subseteq Currencies
        /\ \A c \in Tables!Codes(quotes[m]) : Tables!RateOf(quotes[m], c) \in Rates
    BY CodesOfQuotes
  <2>4. IsInjective(B) /\ Range(A) \cap Range(B) = {}
    BY <2>2, <2>3
  <2>5. lists[m] = A \o B /\ listed[m] = o.currencyListed[m] \cup Tables!Codes(quotes[m])
    OBVIOUS
  <2> HIDE DEF A, B
  <2>6. /\ A \o B \in Seq(Currencies)
        /\ IsInjective(A \o B)
        /\ Range(A \o B) = Range(A) \cup Range(B)
    BY <2>1, <2>2, <2>3, <2>4, ConcatIsExact
  <2>7. rates[m] \in [Currencies -> Rates \cup {0}]
    BY <2>1, <2>3
  <2>8. \A c \in Currencies : rates[m][c] # 0 => c \in listed[m]
    BY <2>2
  <2> HIDE DEF lists, listed, rates
  <2> QED BY <2>1, <2>2, <2>3, <2>5, <2>6, <2>7, <2>8
<1>4. /\ lists \in [PaymentMethods -> Seq(Currencies)]
      /\ listed \in [PaymentMethods -> SUBSET Currencies]
      /\ rates \in [PaymentMethods -> [Currencies -> Rates \cup {0}]]
  BY <1>3
<1> HIDE DEF lists, listed, rates, x
<1>5. /\ x \in Tables!Offer
      /\ x.methods = o.methods /\ x.listed = o.listed /\ x.active = o.active
      /\ x.payee = o.payee
      /\ x.currencies = lists /\ x.currencyListed = listed /\ x.minRate = rates
  BY <1>1, <1>2, <1>4 DEF Tables!Offer
<1>6. OfferSound(x)
  BY <1>1, <1>3, <1>5 DEF OfferSound
<1> QED
  BY <1>5, <1>6 DEF Sound, x

LEMMA NoQuotes ==
    /\ <<>> \in Tables!Quotes
    /\ Tables!Codes(<<>>) = {}
    /\ IsInjective(Tables!CodeList(<<>>))
<1>1. 0 \in 0 .. MaxListed /\ <<>> \in [1 .. 0 -> [code: Currencies, rate: Rates]]
  BY MaxListedAssumption
<1>2. <<>> \in Tables!Quotes
  BY <1>1 DEF Tables!Quotes, Tables!Lists
<1>3. Tables!CodeList(<<>>) = <<>>
  BY DEF Tables!CodeList
<1> QED
  BY <1>2, <1>3 DEF Tables!Codes, IsInjective

\* _addPaymentMethodsToDeposit, for methods it does not refuse.
LEMMA MethodsKeepSound ==
    ASSUME NEW o \in Sound, NEW listings \in Tables!Listings,
           Tables!MayList(o, listings)
    PROVE  Tables!WithMethods(o, listings) \in Sound
<1> DEFINE new == Tables!Methods(listings)
           names == Tables!MethodList(listings)
           of(m) == Tables!ListingOf(listings, m)
           payee == [m \in PaymentMethods |-> IF m \in new THEN of(m).payee ELSE o.payee[m]]
           quotes == [m \in PaymentMethods |-> IF m \in new THEN of(m).quotes ELSE <<>>]
           x == [o EXCEPT !.payee = payee, !.methods = o.methods \o names,
                          !.listed = o.listed \cup new, !.active = o.active \cup new]
           Listing == [method: PaymentMethods, payee: Payees, quotes: Tables!Quotes]
<1>1. o \in Tables!Offer /\ OfferSound(o)
  BY DEF Sound
<1>2. PICK n \in 0 .. MaxListed : listings \in [1 .. n -> Listing]
  BY DEF Tables!Listings, Tables!Lists
<1>3. /\ DOMAIN listings = 1 .. n /\ n \in Nat
      /\ \A i \in 1 .. n : listings[i] \in Listing
  BY <1>2
<1>4. /\ names \in Seq(PaymentMethods)
      /\ Range(names) = new
      /\ new \subseteq PaymentMethods
  <2>1. names = [i \in 1 .. n |-> listings[i].method]
    BY <1>3 DEF Tables!MethodList
  <2>2. \A i \in 1 .. n : listings[i].method \in PaymentMethods
    BY <1>3
  <2> HIDE DEF names
  <2>3. names \in Seq(PaymentMethods)
    BY <2>1, <2>2, <1>3
  <2> QED BY <2>1, <2>2, <2>3, <1>3 DEF Range, Tables!Methods
<1>5. /\ IsInjective(names)
      /\ \A l \in Tables!Range(listings) :
            /\ l.method \notin o.listed
            /\ IsInjective(Tables!CodeList(l.quotes))
            /\ Tables!Codes(l.quotes) \cap o.currencyListed[l.method] = {}
  BY SameArrays DEF Tables!MayList, Tables!MayQuote
<1>6. ASSUME NEW m \in new
      PROVE  of(m) \in Tables!Range(listings) /\ of(m) \in Listing /\ of(m).method = m
  <2>1. \E l \in Tables!Range(listings) : l.method = m
    BY <1>3 DEF Tables!Methods, Tables!Range
  <2>2. of(m) \in Tables!Range(listings) /\ of(m).method = m
    BY <2>1 DEF Tables!ListingOf
  <2>3. of(m) \in Listing
    BY <1>3, <2>2 DEF Tables!Range
  <2> QED BY <2>2, <2>3
<1>7. \A m \in new :
        /\ m \notin o.listed
        /\ of(m).payee \in Payees
        /\ of(m).quotes \in Tables!Quotes
        /\ IsInjective(Tables!CodeList(of(m).quotes))
        /\ Tables!Codes(of(m).quotes) \cap o.currencyListed[m] = {}
  <2> HIDE DEF of, new
  <2> QED BY <1>5, <1>6
<1>8. Tables!WithMethods(o, listings) = Tables!WithQuotes(x, quotes)
  BY Zenon DEF Tables!WithMethods
<1> HIDE DEF names, of, new
<1>9. payee \in [PaymentMethods -> Payees \cup {NoPayee}]
  BY <1>1, <1>7 DEF Tables!Offer
<1>10. \A m \in PaymentMethods : payee[m] # NoPayee <=> m \in o.listed \cup new
  <2> SUFFICES ASSUME NEW m \in PaymentMethods
               PROVE  payee[m] # NoPayee <=> m \in o.listed \cup new
    OBVIOUS
  <2>1. o.payee[m] # NoPayee <=> m \in o.listed
    BY <1>1 DEF OfferSound
  <2> QED BY <2>1, <1>7, PayeesAssumption
<1>11. /\ o.methods \o names \in Seq(PaymentMethods)
       /\ IsInjective(o.methods \o names)
       /\ Range(o.methods \o names) = o.listed \cup new
  <2> DEFINE A == o.methods
  <2>1. A \in Seq(PaymentMethods) /\ IsInjective(A) /\ Range(A) = o.listed
    BY <1>1 DEF Tables!Offer, OfferSound
  <2>2. Range(A) \cap Range(names) = {}
    BY <2>1, <1>4, <1>7
  <2> HIDE DEF A
  <2>3. /\ A \o names \in Seq(PaymentMethods)
        /\ IsInjective(A \o names)
        /\ Range(A \o names) = Range(A) \cup Range(names)
    BY <2>1, <2>2, <1>4, <1>5, ConcatIsExact
  <2> QED BY <2>1, <2>3, <1>4 DEF A
<1> DEFINE methods == o.methods \o names
<1> HIDE DEF payee, methods
<1>12. x = [o EXCEPT !.payee = payee, !.methods = methods,
                     !.listed = o.listed \cup new, !.active = o.active \cup new]
  BY DEF methods
<1> HIDE DEF x
<1>13. /\ x \in Tables!Offer
       /\ x.methods = methods /\ x.listed = o.listed \cup new
       /\ x.active = o.active \cup new /\ x.payee = payee
       /\ x.currencies = o.currencies /\ x.currencyListed = o.currencyListed
       /\ x.minRate = o.minRate
  BY <1>1, <1>4, <1>9, <1>11, <1>12 DEF Tables!Offer, methods
<1>14. OfferSound(x)
  BY <1>1, <1>10, <1>11, <1>13 DEF OfferSound, methods
<1>15. x \in Sound
  BY <1>13, <1>14 DEF Sound
<1>16. /\ quotes \in [PaymentMethods -> Tables!Quotes]
       /\ \A m \in PaymentMethods :
            /\ IsInjective(Tables!CodeList(quotes[m]))
            /\ Tables!Codes(quotes[m]) \cap x.currencyListed[m] = {}
            /\ Tables!Codes(quotes[m]) # {} => m \in x.listed
  BY <1>7, <1>13, NoQuotes
<1> HIDE DEF quotes
<1> QED
  BY <1>8, <1>15, <1>16, QuotesKeepSound

\* The other edits of one deposit's tables.
LEMMA DelegateKeepsSound ==
    ASSUME NEW o \in Sound, NEW a \in Accounts \cup {NoAccount}
    PROVE  [o EXCEPT !.delegate = a] \in Sound
<1> DEFINE x == [o EXCEPT !.delegate = a]
<1>1. o \in Tables!Offer /\ OfferSound(o)
  BY DEF Sound
<1>2. /\ x \in Tables!Offer
      /\ x.methods = o.methods /\ x.listed = o.listed /\ x.active = o.active
      /\ x.payee = o.payee /\ x.currencies = o.currencies
      /\ x.currencyListed = o.currencyListed /\ x.minRate = o.minRate
  BY <1>1 DEF Tables!Offer
<1> HIDE DEF x
<1>3. OfferSound(x)
  BY <1>1, <1>2 DEF OfferSound
<1> QED
  BY <1>2, <1>3 DEF Sound, x

LEMMA ActiveKeepsSound ==
    ASSUME NEW o \in Sound, NEW active \in SUBSET o.listed
    PROVE  [o EXCEPT !.active = active] \in Sound
<1> DEFINE x == [o EXCEPT !.active = active]
<1>1. o \in Tables!Offer /\ OfferSound(o)
  BY DEF Sound
<1>2. /\ x \in Tables!Offer
      /\ x.methods = o.methods /\ x.listed = o.listed /\ x.active = active
      /\ x.payee = o.payee /\ x.currencies = o.currencies
      /\ x.currencyListed = o.currencyListed /\ x.minRate = o.minRate
  BY <1>1 DEF Tables!Offer
<1> HIDE DEF x
<1>3. OfferSound(x)
  BY <1>1, <1>2 DEF OfferSound
<1> QED
  BY <1>2, <1>3 DEF Sound, x

LEMMA RateKeepsSound ==
    ASSUME NEW o \in Sound, NEW m \in PaymentMethods, NEW c \in o.currencyListed[m],
           NEW rate \in Rates \cup {0}
    PROVE  [o EXCEPT !.minRate[m][c] = rate] \in Sound
<1> DEFINE x == [o EXCEPT !.minRate[m][c] = rate]
           rates == [o.minRate EXCEPT ![m] = [o.minRate[m] EXCEPT ![c] = rate]]
<1>1. o \in Tables!Offer /\ OfferSound(o)
  BY DEF Sound
<1>2. /\ o.minRate \in [PaymentMethods -> [Currencies -> Rates \cup {0}]]
      /\ c \in Currencies
  BY <1>1 DEF Tables!Offer
<1>3. rates \in [PaymentMethods -> [Currencies -> Rates \cup {0}]]
  BY <1>2
<1>4. \A n \in PaymentMethods, e \in Currencies :
        rates[n][e] = IF n = m /\ e = c THEN rate ELSE o.minRate[n][e]
  BY <1>2
<1>5. x = [o EXCEPT !.minRate = rates]
  BY <1>1 DEF Tables!Offer
<1> HIDE DEF rates
<1>6. /\ x \in Tables!Offer
      /\ x.methods = o.methods /\ x.listed = o.listed /\ x.active = o.active
      /\ x.payee = o.payee /\ x.currencies = o.currencies
      /\ x.currencyListed = o.currencyListed /\ x.minRate = rates
  <2> HIDE DEF x
  <2> QED BY <1>1, <1>3, <1>5 DEF Tables!Offer
<1> HIDE DEF x
<1>7. \A n \in PaymentMethods : {e \in Currencies : rates[n][e] # 0} \subseteq o.currencyListed[n]
  BY <1>1, <1>4 DEF OfferSound
<1>8. OfferSound(x)
  BY <1>1, <1>6, <1>7 DEF OfferSound
<1> QED
  BY <1>6, <1>8 DEF Sound, x

LEMMA EditKeepsSound ==
    ASSUME offers \in [DepositIds -> Sound], NEW d \in DepositIds,
           \/ Tables!Edit(d)
           \/ Tables!RemoveDelegate(d)
           \/ \E a \in Accounts : Tables!SetDelegate(d, a)
    PROVE  \E o \in Sound : offers' = [offers EXCEPT ![d] = o]
<1>1. offers[d] \in Sound /\ offers[d] \in Tables!Offer /\ OfferSound(offers[d])
  BY DEF Sound
<1>2. ASSUME NEW listings \in Tables!Listings, Tables!AddPaymentMethods(d, listings)
      PROVE  \E o \in Sound : offers' = [offers EXCEPT ![d] = o]
  BY <1>1, <1>2, MethodsKeepSound DEF Tables!AddPaymentMethods, Tables!Set
<1>3. ASSUME NEW m \in PaymentMethods, NEW isActive \in BOOLEAN,
             Tables!SetPaymentMethodActive(d, m, isActive)
      PROVE  \E o \in Sound : offers' = [offers EXCEPT ![d] = o]
  <2> DEFINE active == IF isActive THEN offers[d].active \cup {m} ELSE offers[d].active \ {m}
  <2>1. /\ offers' = [offers EXCEPT ![d] = [offers[d] EXCEPT !.active = active]]
        /\ m \in offers[d].listed
    BY <1>3 DEF Tables!SetPaymentMethodActive, Tables!Set
  <2>2. active \in SUBSET offers[d].listed
    BY <1>1, <2>1 DEF OfferSound
  <2> HIDE DEF active
  <2>3. [offers[d] EXCEPT !.active = active] \in Sound
    BY <1>1, <2>2, ActiveKeepsSound
  <2> QED BY <2>1, <2>3
<1>4. ASSUME NEW m \in PaymentMethods, NEW q \in Tables!Quotes, Tables!AddCurrencies(d, m, q)
      PROVE  \E o \in Sound : offers' = [offers EXCEPT ![d] = o]
  <2> DEFINE quotes == [n \in PaymentMethods |-> IF n = m THEN q ELSE <<>>]
  <2>1. /\ offers' = [offers EXCEPT ![d] = Tables!WithQuotes(offers[d], quotes)]
        /\ m \in offers[d].active
        /\ IsInjective(Tables!CodeList(q))
        /\ Tables!Codes(q) \cap offers[d].currencyListed[m] = {}
    BY <1>4, SameArrays DEF Tables!AddCurrencies, Tables!Set, Tables!MayQuote
  <2>2. m \in offers[d].listed
    BY <1>1, <2>1 DEF OfferSound
  <2>3. /\ quotes \in [PaymentMethods -> Tables!Quotes]
        /\ \A n \in PaymentMethods :
              /\ IsInjective(Tables!CodeList(quotes[n]))
              /\ Tables!Codes(quotes[n]) \cap offers[d].currencyListed[n] = {}
              /\ Tables!Codes(quotes[n]) # {} => n \in offers[d].listed
    BY <2>1, <2>2, NoQuotes
  <2> HIDE DEF quotes
  <2>4. Tables!WithQuotes(offers[d], quotes) \in Sound
    BY <1>1, <2>3, QuotesKeepSound
  <2> QED BY <2>1, <2>4
<1>5. ASSUME NEW m \in PaymentMethods, NEW c \in Currencies, NEW rate \in Rates \cup {0},
             c \in offers[d].currencyListed[m],
             Tables!Set(d, [offers[d] EXCEPT !.minRate[m][c] = rate])
      PROVE  \E o \in Sound : offers' = [offers EXCEPT ![d] = o]
  BY <1>1, <1>5, RateKeepsSound DEF Tables!Set
<1>6. ASSUME NEW a \in Accounts \cup {NoAccount},
             Tables!Set(d, [offers[d] EXCEPT !.delegate = a])
      PROVE  \E o \in Sound : offers' = [offers EXCEPT ![d] = o]
  BY <1>1, <1>6, DelegateKeepsSound DEF Tables!Set
<1>7. CASE Tables!Edit(d)
  BY <1>7, <1>2, <1>3, <1>4, <1>5 DEF Tables!Edit, Tables!SetCurrencyMinRate,
     Tables!DeactivateCurrency
<1>8. CASE Tables!RemoveDelegate(d)
  BY <1>8, <1>6 DEF Tables!RemoveDelegate
<1>9. CASE \E a \in Accounts : Tables!SetDelegate(d, a)
  BY <1>9, <1>6 DEF Tables!SetDelegate
<1> QED
  BY <1>7, <1>8, <1>9

-----------------------------------------------------------------------------
(* The market as a whole.                                                    *)

\* What trades is the protocol: a deposit is opened and an intent is signaled as
\* there, tables are what Protocol does not see, and the registry's owner gives a
\* method a verifier, takes it away or changes currencies only.
LEMMA MarketStep == [MarketNext]_marketVars => [ProtocolNext]_protocolVars
<1> SUFFICES ASSUME [MarketNext]_marketVars PROVE [ProtocolNext]_protocolVars
  OBVIOUS
<1>1. CASE \E a \in Accounts, t \in Tokens, amount \in Amounts, min \in Amounts, max \in Amounts,
              guardian \in Accounts \cup {NoAccount}, delegate \in Accounts \cup {NoAccount},
              retain \in BOOLEAN, listings \in Tables!Listings :
                OpenDeposit(a, t, amount, min, max, guardian, retain, delegate, listings)
  BY <1>1 DEF OpenDeposit, ProtocolNext, EscrowNext, Manage, ManageNext
<1>2. CASE \E d \in DepositIds : Configure(d)
  BY <1>2 DEF Configure
<1>3. CASE \E o \in Orchestrators, a \in Accounts, d \in DepositIds, amount \in Amounts,
              m \in PaymentMethods, c \in Currencies, rate \in Rates :
                SignalAtRate(o, a, d, amount, m, c, rate)
  BY <1>3 DEF SignalAtRate, ProtocolNext, IntentNext, Escrows
<1>4. CASE Register
  <2>1. UNCHANGED <<escrowVars, orchVars, isPaymentMethod, isWriter, isNullified, log>>
    BY <1>4 DEF Register
  <2>2. PICK m \in PaymentMethods :
          \/ \E v \in Verifiers, cs \in Registry!Lists : Registry!AddPaymentMethod(m, v, cs)
          \/ Registry!RemovePaymentMethod(m)
          \/ \E cs \in Registry!Lists :
               Registry!AddCurrencies(m, cs) \/ Registry!RemoveCurrencies(m, cs)
    BY <1>4, Zenon DEF Register, Registry!Next
  <2>3. CASE \E v \in Verifiers, cs \in Registry!Lists : Registry!AddPaymentMethod(m, v, cs)
    <3>1. PICK v \in Verifiers : \E cs \in Registry!Lists : Registry!AddPaymentMethod(m, v, cs)
      BY <2>3
    <3>2. Pay!RegisterMethod(m, v)
      BY <2>1, <3>1 DEF Registry!AddPaymentMethod, Registry!Registered, Pay!RegisterMethod
    <3> QED
      BY <2>1, <3>2 DEF Pay!OwnerNext, GovernanceNext, ProtocolNext
  <2>4. CASE Registry!RemovePaymentMethod(m)
    <3>1. Pay!UnregisterMethod(m)
      BY <2>1, <2>4 DEF Registry!RemovePaymentMethod, Registry!Registered, Pay!UnregisterMethod
    <3> QED
      BY <2>1, <3>1 DEF Pay!OwnerNext, GovernanceNext, ProtocolNext
  <2>5. CASE \E cs \in Registry!Lists :
               Registry!AddCurrencies(m, cs) \/ Registry!RemoveCurrencies(m, cs)
    <3>1. UNCHANGED verifierOf
      BY <2>5 DEF Registry!AddCurrencies, Registry!RemoveCurrencies
    <3> QED
      BY <2>1, <3>1 DEF protocolVars, payVars
  <2> QED
    BY <2>2, <2>3, <2>4, <2>5
<1>5. CASE Otherwise(ProtocolNext)
  BY <1>5 DEF Otherwise
<1>6. CASE UNCHANGED marketVars
  BY <1>6 DEF marketVars
<1> QED
  BY <1>1, <1>2, <1>3, <1>4, <1>5, <1>6 DEF MarketNext

LEMMA MarketBooksInit == MarketInit => BooksInv
BY BooksInvInit DEF MarketInit

LEMMA MarketBooks == BooksInv /\ [MarketNext]_marketVars => BooksInv' /\ [Next]_vars
BY MarketStep, BooksInvNext, StepsAreEscrowSteps DEF BooksInv

OffersInv ==
    /\ offers \in [DepositIds -> Sound]
    /\ ClosedDepositsOfferNothing

\* lockFunds opens and closes no deposit.
LEMMA LockKeepsDeposits ==
    ASSUME TypeOK, NEW o, NEW d \in DepositIds, NEW h, NEW amount,
           LockFunds(o, d, h, amount)
    PROVE  \A e \in DepositIds : Exists(e)' <=> Exists(e)
<1> DEFINE r == Reclaimed(d, ReclaimIfNecessary(d, amount))
           new == [r EXCEPT !.remainingDeposits = @ - amount,
                            !.outstandingIntentAmount = @ + amount]
<1>1. /\ CanReclaim(d, ReclaimIfNecessary(d, amount))
      /\ deposits' = [deposits EXCEPT ![d] = new]
  BY DEF LockFunds
<1>2. ReclaimIfNecessary(d, amount) \in SUBSET IntentHashes
  BY ReclaimsOwnLocks
<1>3. r \in Deposit /\ r.depositor = deposits[d].depositor
  BY <1>1, <1>2, ReclaimedType
<1> HIDE DEF r
<1>4. new.depositor = deposits[d].depositor
  BY <1>3 DEF Deposit
<1>5. deposits \in [DepositIds -> Deposit]
  BY DEF TypeOK
<1> HIDE DEF new
<1> QED
  BY <1>1, <1>4, <1>5 DEF Exists

LEMMA OffersNext == OffersInv /\ BooksInv /\ [MarketNext]_marketVars => OffersInv'
<1> SUFFICES ASSUME OffersInv, BooksInv, [MarketNext]_marketVars PROVE OffersInv'
  OBVIOUS
<1>0. TypeOK
  BY DEF BooksInv, LedgerInv
<1>1. /\ offers \in [DepositIds -> Sound]
      /\ \A d \in DepositIds : ~Exists(d) => offers[d] = Tables!NoOffer
  BY DEF OffersInv, ClosedDepositsOfferNothing
\* It is enough that deposits stay what they were, open or closed, and one of
\* those open after the step has other tables.
<1>2. ASSUME NEW d \in DepositIds, NEW o \in Sound, offers' = [offers EXCEPT ![d] = o],
             Exists(d)', \A e \in DepositIds \ {d} : Exists(e)' <=> Exists(e)
      PROVE  OffersInv'
  <2>1. offers' \in [DepositIds -> Sound]
    BY <1>1, <1>2
  <2>2. ASSUME NEW e \in DepositIds, ~Exists(e)' PROVE offers'[e] = Tables!NoOffer
    <3>1. e # d
      BY <1>2, <2>2
    <3> QED BY <3>1, <1>1, <1>2, <2>2
  <2> QED BY <2>1, <2>2 DEF OffersInv, ClosedDepositsOfferNothing
<1>3. ASSUME UNCHANGED offers, \A e \in DepositIds : Exists(e)' <=> Exists(e)
      PROVE  OffersInv'
  BY <1>1, <1>3 DEF OffersInv, ClosedDepositsOfferNothing
<1>4. ASSUME NEW a \in Accounts, NEW t \in Tokens, NEW amount \in Amounts,
             NEW min \in Amounts, NEW max \in Amounts,
             NEW guardian \in Accounts \cup {NoAccount},
             NEW delegate \in Accounts \cup {NoAccount},
             NEW retain \in BOOLEAN, NEW listings \in Tables!Listings,
             OpenDeposit(a, t, amount, min, max, guardian, retain, delegate, listings)
      PROVE  OffersInv'
  <2>1. depositCounter \in DepositIds
    BY <1>0, <1>4, NumbersAssumption DEF OpenDeposit, CreateDeposit, TypeOK, DepositIds
  <2>2. PICK d \in DepositIds : d = depositCounter
    BY <2>1
  <2> DEFINE o == [offers[d] EXCEPT !.delegate = delegate]
  <2>3. /\ Tables!MayList(offers[d], listings)
        /\ offers' = [offers EXCEPT ![d] = Tables!WithMethods(o, listings)]
    BY <1>4, <2>2 DEF OpenDeposit, Tables!Open, Tables!Set
  <2>4. Exists(d)' /\ \A e \in DepositIds \ {d} : Exists(e)' <=> Exists(e)
    <3> DEFINE new == [depositor |-> a, token |-> t, min |-> min, max |-> max,
                       acceptingIntents |-> TRUE, remainingDeposits |-> amount,
                       outstandingIntentAmount |-> 0, intentGuardian |-> guardian,
                       retainOnEmpty |-> retain]
    <3>1. deposits' = [deposits EXCEPT ![d] = new]
      BY <1>4, <2>2, Zenon DEF OpenDeposit, CreateDeposit
    <3>2. new.depositor = a /\ a # NoAccount
      BY AccountsAssumption
    <3>3. deposits \in [DepositIds -> Deposit]
      BY <1>0 DEF TypeOK
    <3> HIDE DEF new
    <3> QED BY <3>1, <3>2, <3>3 DEF Exists
  <2>5. o \in Sound
    BY <1>1, DelegateKeepsSound
  <2>6. o.listed = offers[d].listed /\ o.active = offers[d].active
        /\ o.currencyListed = offers[d].currencyListed
    BY <1>1 DEF Sound, Tables!Offer
  <2> HIDE DEF o
  <2>7. Tables!MayList(o, listings)
    BY <2>3, <2>6 DEF Tables!MayList, Tables!MayQuote
  <2>8. Tables!WithMethods(o, listings) \in Sound
    BY <2>5, <2>7, MethodsKeepSound
  <2> QED BY <1>2, <2>3, <2>4, <2>8
<1>5. ASSUME NEW d \in DepositIds, Configure(d)
      PROVE  OffersInv'
  <2>1. /\ Exists(d)
        /\ \/ Tables!Edit(d)
           \/ Tables!RemoveDelegate(d)
           \/ \E a \in Accounts : Tables!SetDelegate(d, a)
        /\ UNCHANGED deposits
    BY <1>5 DEF Configure, protocolVars, escrowVars, vars, books
  <2>2. PICK o \in Sound : offers' = [offers EXCEPT ![d] = o]
    BY <1>1, <2>1, EditKeepsSound
  <2>3. \A e \in DepositIds : Exists(e)' <=> Exists(e)
    BY <2>1 DEF Exists
  <2> QED BY <1>2, <2>1, <2>2, <2>3
<1>6. ASSUME NEW o \in Orchestrators, NEW a \in Accounts, NEW d \in DepositIds,
             NEW amount \in Amounts, NEW m \in PaymentMethods,
             Signal(o, a, ThisEscrow, d, amount, m), UNCHANGED offers
      PROVE  OffersInv'
  <2>1. LockFunds(o, d, Orch!NextHash(o), amount)
    BY <1>6 DEF Signal, At
  <2>2. \A e \in DepositIds : Exists(e)' <=> Exists(e)
    BY <1>0, <2>1, LockKeepsDeposits
  <2> QED BY <1>3, <1>6, <2>2
<1>7. CASE Register \/ UNCHANGED marketVars
  <2>1. UNCHANGED <<deposits, offers>>
    BY <1>7 DEF Register, marketVars, protocolVars, escrowVars, vars, books
  <2>2. \A e \in DepositIds : Exists(e)' <=> Exists(e)
    BY <2>1 DEF Exists
  <2> QED BY <1>3, <2>1, <2>2
<1>8. CASE Otherwise(ProtocolNext)
  <2>1. offers' = [d \in DepositIds |->
                IF Exists(d) /\ ~Exists(d)' THEN Tables!Deleted(offers[d]) ELSE offers[d]]
    BY <1>8 DEF Otherwise, OffersFollow
  <2>2. \A d \in DepositIds : offers[d] \in Sound /\ Tables!Deleted(offers[d]) = Tables!NoOffer
    BY <1>1, DeletedIsEmpty
  <2>3. offers' \in [DepositIds -> Sound]
    BY <2>1, <2>2, EmptyIsSound
  <2>4. ASSUME NEW d \in DepositIds, ~Exists(d)' PROVE offers'[d] = Tables!NoOffer
    BY <1>1, <2>1, <2>2, <2>4
  <2> QED BY <2>3, <2>4 DEF OffersInv, ClosedDepositsOfferNothing
<1>9. CASE \E o \in Orchestrators, a \in Accounts, d \in DepositIds, amount \in Amounts,
              m \in PaymentMethods, c \in Currencies, rate \in Rates :
                SignalAtRate(o, a, d, amount, m, c, rate)
  BY <1>6, <1>9 DEF SignalAtRate
<1>10. CASE \E a \in Accounts, t \in Tokens, amount \in Amounts, min \in Amounts, max \in Amounts,
              guardian \in Accounts \cup {NoAccount}, delegate \in Accounts \cup {NoAccount},
              retain \in BOOLEAN, listings \in Tables!Listings :
                OpenDeposit(a, t, amount, min, max, guardian, retain, delegate, listings)
  BY <1>4, <1>10
<1>11. CASE \E d \in DepositIds : Configure(d)
  BY <1>5, <1>11
<1> QED
  BY <1>7, <1>8, <1>9, <1>10, <1>11 DEF MarketNext

LEMMA OffersInit == MarketInit => OffersInv
<1> SUFFICES ASSUME MarketInit PROVE OffersInv
  OBVIOUS
<1>1. offers = [d \in DepositIds |-> Tables!NoOffer]
  BY DEF MarketInit, Tables!Init
<1> QED
  BY <1>1, EmptyIsSound DEF OffersInv, ClosedDepositsOfferNothing

LEMMA MarketInvHolds == MarketSpec => [](BooksInv /\ OffersInv)
<1>1. BooksInv /\ [MarketNext]_marketVars => BooksInv'
  BY MarketBooks
<1> QED
  BY <1>1, MarketBooksInit, OffersInit, OffersNext, PTL DEF MarketSpec

\* Whatever is listed, quoted, switched off and deleted, by depositors and their
\* delegates and while the registry changes under them, the arrays of a
\* deposit list what its mappings hold, each once.
THEOREM TablesStayConsistent == MarketSpec => []TablesAgree
<1>1. OffersInv => TablesAgree
  BY TablesAgreeUnfolds DEF OffersInv, Sound
<1> QED
  BY <1>1, MarketInvHolds, PTL

\* However a deposit ends, with however many methods and currencies, nothing of
\* its tables outlives it.
THEOREM NothingOfferedAfterClosing == MarketSpec => []ClosedDepositsOfferNothing
<1>1. OffersInv => ClosedDepositsOfferNothing
  BY DEF OffersInv
<1> QED
  BY <1>1, MarketInvHolds, PTL

\* With rates, tables, methods and the registry in the picture, escrow,
\* orchestrators and verifiers still do what Protocol allows and no more: what is
\* proved of Protocol holds of the market, from an empty registry on.
THEOREM MarketImplementsProtocol == MarketSpec => ProtocolSpec
<1>1. MarketInit => ProtocolInit
  <2> SUFFICES ASSUME MarketInit PROVE ProtocolInit
    OBVIOUS
  <2>1. verifierOf \in [PaymentMethods -> Verifiers \cup {NoVerifier}]
    BY DEF MarketInit, Registry!Init
  <2> QED
    BY <2>1 DEF MarketInit, ProtocolInit, Pay!Init
<1> QED
  BY <1>1, MarketStep, PTL DEF MarketSpec, ProtocolSpec

\* And hence what Escrow allows.
THEOREM MarketImplementsEscrow == MarketSpec => Spec
BY MarketImplementsProtocol, ProtocolImplementsEscrow, PTL

\* The two abstract specifications hold of the market as a whole: tokens move as
\* a custodian's do, and an intent lives once.
THEOREM MarketKeepsPromises == MarketSpec => ImplementsCustody /\ ImplementsLifecycle
BY MarketImplementsProtocol, MarketImplementsEscrow, EscrowKeepsCustody,
   IntentsLiveOnce, PTL

-----------------------------------------------------------------------------
(* A taker's payee stands.                                                   *)

\* Tables x still list what tables o list, under the same payees.
Keeps(o, x) ==
    \A m \in o.listed : /\ m \in x.listed
                        /\ x.payee[m] = o.payee[m]
                        /\ o.currencyListed[m] \subseteq x.currencyListed[m]

LEMMA QuotesKeepListings ==
    ASSUME NEW o \in Tables!Offer, NEW quotes
    PROVE  Keeps(o, Tables!WithQuotes(o, quotes))
<1> DEFINE x == Tables!WithQuotes(o, quotes)
<1>1. /\ x.listed = o.listed
      /\ x.payee = o.payee
      /\ x.currencyListed = [m \in PaymentMethods |->
                                o.currencyListed[m] \cup Tables!Codes(quotes[m])]
  BY DEF Tables!WithQuotes, Tables!Offer
<1>2. o.listed \subseteq PaymentMethods
  BY DEF Tables!Offer
<1> HIDE DEF x
<1>3. Keeps(o, x)
  BY <1>1, <1>2 DEF Keeps
<1> QED
  BY <1>3 DEF x

LEMMA MethodsKeepListings ==
    ASSUME NEW o \in Sound, NEW listings \in Tables!Listings,
           Tables!MayList(o, listings)
    PROVE  Keeps(o, Tables!WithMethods(o, listings))
<1> DEFINE new == Tables!Methods(listings)
           payee == [m \in PaymentMethods |->
                        IF m \in new THEN Tables!ListingOf(listings, m).payee ELSE o.payee[m]]
           quotes == [m \in PaymentMethods |->
                        IF m \in new THEN Tables!ListingOf(listings, m).quotes ELSE <<>>]
           methods == o.methods \o Tables!MethodList(listings)
           x == [o EXCEPT !.payee = payee, !.methods = methods,
                          !.listed = o.listed \cup new, !.active = o.active \cup new]
           y == Tables!WithQuotes(x, quotes)
<1>1. o \in Tables!Offer
  BY DEF Sound
<1>2. new \cap o.listed = {}
  BY DEF Tables!MayList, Tables!Methods, Tables!Range
<1>3. Tables!WithMethods(o, listings) = y
  BY Zenon DEF Tables!WithMethods
<1> HIDE DEF new, payee, methods, quotes
<1>4. /\ x.listed = o.listed \cup new
      /\ x.payee = payee
      /\ x.currencyListed = o.currencyListed
  BY <1>1 DEF Tables!Offer
<1>5. /\ y.listed = x.listed
      /\ y.payee = x.payee
      /\ y.currencyListed = [m \in PaymentMethods |->
                                x.currencyListed[m] \cup Tables!Codes(quotes[m])]
  BY <1>1 DEF Tables!WithQuotes, Tables!Offer
<1>6. o.listed \subseteq PaymentMethods
  BY <1>1 DEF Tables!Offer
<1>7. \A m \in o.listed : payee[m] = o.payee[m]
  BY <1>2, <1>6 DEF payee
<1> HIDE DEF x, y
<1> QED
  BY <1>3, <1>4, <1>5, <1>6, <1>7 DEF Keeps

\* No edit of an open deposit's tables takes a method, a payee or a currency away.
LEMMA EditKeepsListings ==
    ASSUME offers \in [DepositIds -> Sound], NEW d \in DepositIds,
           \/ Tables!Edit(d)
           \/ Tables!RemoveDelegate(d)
           \/ \E a \in Accounts : Tables!SetDelegate(d, a)
    PROVE  \A e \in DepositIds : Keeps(offers[e], offers'[e])
<1>1. offers[d] \in Sound /\ offers[d] \in Tables!Offer
  BY DEF Sound
<1>2. ASSUME NEW x, Tables!Set(d, x), Keeps(offers[d], x)
      PROVE  \A e \in DepositIds : Keeps(offers[e], offers'[e])
  BY <1>2 DEF Tables!Set, Keeps
<1>3. ASSUME NEW listings \in Tables!Listings, Tables!AddPaymentMethods(d, listings)
      PROVE  \A e \in DepositIds : Keeps(offers[e], offers'[e])
  BY <1>1, <1>2, <1>3, MethodsKeepListings DEF Tables!AddPaymentMethods
<1>4. ASSUME NEW m \in PaymentMethods, NEW q \in Tables!Quotes, Tables!AddCurrencies(d, m, q)
      PROVE  \A e \in DepositIds : Keeps(offers[e], offers'[e])
  BY <1>1, <1>2, <1>4, QuotesKeepListings DEF Tables!AddCurrencies
<1>5. ASSUME NEW active, Tables!Set(d, [offers[d] EXCEPT !.active = active])
      PROVE  \A e \in DepositIds : Keeps(offers[e], offers'[e])
  <2> DEFINE x == [offers[d] EXCEPT !.active = active]
  <2>1. /\ x.listed = offers[d].listed /\ x.payee = offers[d].payee
        /\ x.currencyListed = offers[d].currencyListed
    BY <1>1 DEF Tables!Offer
  <2>2. Tables!Set(d, x)
    BY <1>5
  <2> HIDE DEF x
  <2>3. Keeps(offers[d], x)
    BY <2>1 DEF Keeps
  <2> QED
    BY <1>2, <2>2, <2>3
<1>6. ASSUME NEW m, NEW c, NEW rate,
             Tables!Set(d, [offers[d] EXCEPT !.minRate[m][c] = rate])
      PROVE  \A e \in DepositIds : Keeps(offers[e], offers'[e])
  <2> DEFINE x == [offers[d] EXCEPT !.minRate[m][c] = rate]
  <2>1. /\ x.listed = offers[d].listed /\ x.payee = offers[d].payee
        /\ x.currencyListed = offers[d].currencyListed
    BY <1>1 DEF Tables!Offer
  <2>2. Tables!Set(d, x)
    BY <1>6
  <2> HIDE DEF x
  <2>3. Keeps(offers[d], x)
    BY <2>1 DEF Keeps
  <2> QED
    BY <1>2, <2>2, <2>3
<1>7. ASSUME NEW a, Tables!Set(d, [offers[d] EXCEPT !.delegate = a])
      PROVE  \A e \in DepositIds : Keeps(offers[e], offers'[e])
  <2> DEFINE x == [offers[d] EXCEPT !.delegate = a]
  <2>1. /\ x.listed = offers[d].listed /\ x.payee = offers[d].payee
        /\ x.currencyListed = offers[d].currencyListed
    BY <1>1 DEF Tables!Offer
  <2>2. Tables!Set(d, x)
    BY <1>7
  <2> HIDE DEF x
  <2>3. Keeps(offers[d], x)
    BY <2>1 DEF Keeps
  <2> QED
    BY <1>2, <2>2, <2>3
<1> QED
  BY <1>3, <1>4, <1>5, <1>6, <1>7 DEF Tables!Edit, Tables!SetPaymentMethodActive,
     Tables!SetCurrencyMinRate, Tables!DeactivateCurrency, Tables!RemoveDelegate,
     Tables!SetDelegate

PayeeStands(h) ==
    LET o == offers[intents[h].depositId]
        m == intents[h].paymentMethod
    IN  /\ m \in o.listed
        /\ o.payee[m] = terms[h].payee
        /\ terms[h].currency \in o.currencyListed[m]

\* PayeesStand, as far as the escrow can know: of the intents that have a lock.
LockedPayeesStand ==
    \A h \in IntentHashes :
        Recorded(h) /\ Locked(intents[h].depositId, h) => PayeeStands(h)

\* It is enough that no lock and no record is new, that a record that stays
\* keeps its terms, and that the deposit of a lock that stays keeps its tables.
LEMMA StandingIsKept ==
    ASSUME LockedPayeesStand, RecordsInv,
           \A h \in IntentHashes : Recorded(h)' =>
              /\ intents'[h] = intents[h]
              /\ terms'[h] = terms[h]
              /\ \A d \in DepositIds :
                    Locked(d, h)' => Locked(d, h) /\ Keeps(offers[d], offers'[d])
    PROVE  LockedPayeesStand'
<1> SUFFICES ASSUME NEW h \in IntentHashes, Recorded(h)', Locked(intents[h].depositId, h)'
             PROVE  PayeeStands(h)'
  BY DEF LockedPayeesStand
<1>1. Recorded(h) /\ intents'[h] = intents[h] /\ terms'[h] = terms[h]
  BY DEF Recorded
<1>2. PICK d \in DepositIds : d = intents[h].depositId
  BY <1>1, RecordedParts
<1>3. Locked(d, h)'
  BY <1>1, <1>2 DEF Locked
<1>4. Locked(d, h) /\ Keeps(offers[d], offers'[d])
  BY <1>3
<1>5. PayeeStands(h)
  BY <1>1, <1>2, <1>4 DEF LockedPayeesStand
<1> QED
  BY <1>1, <1>2, <1>4, <1>5 DEF PayeeStands, Keeps

\* Where no intent is signaled, none is recorded anew and no lock is.
LEMMA OnlySignalsRecord ==
    ASSUME BooksInv, ProtocolNext, UNCHANGED intentCounter,
           NEW h \in IntentHashes, Recorded(h)'
    PROVE  /\ intents'[h] = intents[h]
           /\ \A d \in DepositIds : Locked(d, h)' => Locked(d, h)
<1>1. TypeOK /\ RecordsInv /\ \A d \in DepositIds : LocksAgree(d)
  BY DEF BooksInv, LedgerInv
<1>2. ASSUME UNCHANGED <<intents, depositIntents>>
      PROVE  /\ intents'[h] = intents[h]
             /\ \A d \in DepositIds : Locked(d, h)' => Locked(d, h)
  BY <1>2 DEF Locked
<1>3. ASSUME NEW o, NEW S, Orch!Prune(o, S)
      PROVE  intents'[h] = intents[h]
  BY <1>3, PrunedRecords DEF Recorded
<1>4. ASSUME NEW d \in DepositIds, NEW S, DropLocks(d, S)
      PROVE  \A e \in DepositIds : Locked(e, h)' => Locked(e, h)
  BY <1>1, <1>4 DEF DropLocks, TypeOK, Locked
<1>5. ASSUME NEW S, TryPrune(S)
      PROVE  intents'[h] = intents[h]
  BY <1>3, <1>5 DEF TryPrune, Orch!PruneIntents, orchVars
<1>6. CASE EscrowNext
  <2>1. CASE Manage
    <3>1. UNCHANGED intents /\ ManageNext
      BY <2>1 DEF Manage, orchVars
    <3>2. UNCHANGED depositIntents
      BY <3>1, ManageKeepsLocks
    <3> QED
      BY <1>2, <3>1, <3>2
  <2>2. ASSUME NEW d \in DepositIds,
               \/ \E a \in Accounts, amount \in Amounts : Remove(a, d, amount)
               \/ \E a \in Accounts : Withdraw(a, d)
               \/ PruneExpired(d)
        PROVE  /\ intents'[h] = intents[h]
               /\ \A e \in DepositIds : Locked(e, h)' => Locked(e, h)
    BY <1>4, <1>5, <2>2 DEF Remove, RemoveFunds, Withdraw, WithdrawDeposit, PruneExpired,
       PruneExpiredIntents
  <2>3. ASSUME NEW a \in Accounts, NEW d \in DepositIds, NEW g \in IntentHashes,
               NEW time \in 1 .. MaxTime, Extend(a, d, g, time)
        PROVE  /\ intents'[h] = intents[h]
               /\ \A e \in DepositIds : Locked(e, h)' => Locked(e, h)
    <3>1. /\ UNCHANGED intents
          /\ depositIntents' = [depositIntents EXCEPT ![d][g].expiryTime = @ + time]
          /\ Locked(d, g)
      BY <2>3 DEF Extend, ExtendIntentExpiry, orchVars
    <3>2. \A e \in DepositIds :
            e # d \/ h # g => depositIntents'[e][h] = depositIntents[e][h]
      BY <1>1, <3>1 DEF TypeOK
    <3> QED
      BY <3>1, <3>2 DEF Locked
  <2> QED
    BY <1>6, <2>1, <2>2, <2>3 DEF EscrowNext
<1>7. ASSUME NEW o \in Orchestrators, NEW g \in IntentHashes,
             \/ \E a \in Accounts : Cancel(o, a, g) \/ Release(o, a, g)
             \/ \E att \in Pay!Attestations : Fulfill(o, g, att)
      PROVE  /\ intents'[h] = intents[h]
             /\ \A d \in DepositIds : Locked(d, h)' => Locked(d, h)
  <2>1. Recorded(g) /\ Orch!Prune(o, {g})
    BY <1>7 DEF Cancel, Release, Fulfill, Orch!CancelIntent, Orch!ReleaseFundsToPayer,
       Orch!FulfillIntent, Orch!Recorded, Recorded
  <2>2. PICK d \in DepositIds : d = intents[g].depositId
    BY <1>1, <2>1, RecordedParts
  <2>3. DropLocks(d, {g}) \/ UNCHANGED depositIntents
    BY <1>7, <2>2 DEF Cancel, Release, Fulfill, At, escrowVars, vars, books, UnlockFunds,
       UnlockAndTransferFunds
  <2> QED
    BY <1>3, <1>4, <2>1, <2>3 DEF Locked
<1>8. CASE IntentNext
  <2>1. ASSUME NEW o \in Orchestrators, NEW a \in Accounts, NEW e \in Escrows,
               NEW d \in DepositIds, NEW amount \in Amounts, NEW m \in PaymentMethods,
               Signal(o, a, e, d, amount, m)
        PROVE  FALSE
    <3>1. PICK min, S : Orch!SignalIntent(o, a, e, d, amount, m, min, S)
      BY <2>1 DEF Signal
    <3>2. intentCounter[o] \in Nat /\ intentCounter'[o] = intentCounter[o] + 1
      BY <1>1, <3>1 DEF Orch!SignalIntent, RecordsInv
    <3> QED
      BY <3>2
  <2>2. ASSUME NEW o \in Orchestrators, NEW e \in OtherEscrows,
               NEW S \in SUBSET IntentHashes, PruneFor(o, e, S)
        PROVE  /\ intents'[h] = intents[h]
               /\ \A d \in DepositIds : Locked(d, h)' => Locked(d, h)
    BY <1>3, <2>2 DEF PruneFor, Orch!PruneIntents, escrowVars, vars, books, Locked
  <2> QED
    BY <1>7, <1>8, <2>1, <2>2 DEF IntentNext
<1>9. CASE GovernanceNext \/ Pass
  <2>1. UNCHANGED <<intents, depositIntents>>
    BY <1>9 DEF GovernanceNext, Pass, Tick, escrowVars, vars, books, orchVars,
       OwnerNext, SetOrchestrator, SetDustThreshold, SetMaxIntentsPerDeposit,
       SetIntentExpirationPeriod, PauseEscrow, UnpauseEscrow,
       Orch!SetAllowMultipleIntents, Orch!SetAcceptedEscrows, Orch!PauseOrchestrator,
       Orch!UnpauseOrchestrator, Orch!records
  <2> QED
    BY <1>2, <2>1
<1> QED
  BY <1>6, <1>8, <1>9 DEF ProtocolNext

LEMMA SignalKeepsPayees ==
    ASSUME LockedPayeesStand, BooksInv, OffersInv, NEW o \in Orchestrators,
           NEW a \in Accounts, NEW d \in DepositIds, NEW amount \in Amounts,
           NEW m \in PaymentMethods, NEW c \in Currencies, NEW rate \in Rates,
           SignalAtRate(o, a, d, amount, m, c, rate)
    PROVE  LockedPayeesStand'
<1>0. PICK new : new = Orch!NextHash(o)
  OBVIOUS
<1>1. TypeOK /\ RecordsInv
  BY DEF BooksInv, LedgerInv
<1>2. PICK min, S : Orch!SignalIntent(o, a, ThisEscrow, d, amount, m, min, S)
  BY DEF SignalAtRate, Signal
<1>3. /\ intentCounter[o] < MaxIntents
      /\ \A h \in IntentHashes : intents'[h] =
            IF h = new
            THEN [owner |-> a, escrow |-> ThisEscrow, depositId |-> d,
                  amount |-> amount, paymentMethod |-> m]
            ELSE IF h \in Orch!Prunable(o, ThisEscrow, S) THEN Orch!NoIntent ELSE intents[h]
  BY <1>0, <1>2, HashesAreIssued DEF Orch!SignalIntent
<1>4. new \in IntentHashes
  BY <1>0, <1>1, <1>3, NextHashIsFresh
<1>5. LockFunds(o, d, new, amount) /\ UNCHANGED offers
  BY <1>0 DEF SignalAtRate, Signal, At
<1>6. /\ intents'[new].depositId = d
      /\ intents'[new].paymentMethod = m
  BY <1>3, <1>4
<1>7. \A h \in IntentHashes : terms'[h] =
        IF h = new THEN [payee |-> offers[d].payee[m], currency |-> c, rate |-> rate]
        ELSE IF Recorded(h)' THEN terms[h] ELSE NoTerms
  BY <1>0 DEF SignalAtRate
<1>8. PayeeStands(new)'
  <2>1. OfferSound(offers[d])
    BY DEF OffersInv, Sound
  <2>2. m \in offers[d].active /\ offers[d].minRate[m][c] # 0
    BY DEF SignalAtRate, Tables!Accepts
  <2>3. m \in offers[d].listed /\ c \in offers[d].currencyListed[m]
    BY <2>1, <2>2 DEF OfferSound
  <2>4. terms'[new].payee = offers[d].payee[m] /\ terms'[new].currency = c
    BY <1>4, <1>7
  <2> QED
    BY <1>5, <1>6, <2>3, <2>4 DEF PayeeStands
<1>9. ASSUME NEW h \in IntentHashes, h # new, Recorded(h)',
             Locked(intents[h].depositId, h)'
      PROVE  PayeeStands(h)'
  <2>1. Recorded(h) /\ intents'[h] = intents[h] /\ terms'[h] = terms[h]
    BY <1>3, <1>7, <1>9 DEF Recorded
  <2>2. PICK e \in DepositIds : e = intents[h].depositId
    BY <1>1, <2>1, RecordedParts
  <2>3. depositIntents' = [depositIntents EXCEPT ![d] =
            [g \in IntentHashes |->
                IF g = new
                THEN [amount |-> amount, timestamp |-> now,
                      expiryTime |-> now + intentExpirationPeriod]
                ELSE IF g \in ReclaimIfNecessary(d, amount) THEN NoIntent ELSE @[g]]]
    BY <1>5 DEF LockFunds
  <2>4. Locked(e, h)' => Locked(e, h)
    BY <1>1, <1>9, <2>3 DEF Locked, TypeOK
  <2>5. Locked(e, h)'
    BY <1>9, <2>1, <2>2 DEF Locked
  <2>6. PayeeStands(h)
    BY <2>1, <2>2, <2>4, <2>5 DEF LockedPayeesStand
  <2> QED
    BY <1>5, <2>1, <2>6 DEF PayeeStands
<1> QED
  BY <1>8, <1>9 DEF LockedPayeesStand

LEMMA PayeesNext ==
    /\ LockedPayeesStand /\ BooksInv /\ BooksInv' /\ OffersInv
    /\ [MarketNext]_marketVars
    => LockedPayeesStand'
<1> SUFFICES ASSUME LockedPayeesStand, BooksInv, BooksInv', OffersInv,
                    [MarketNext]_marketVars
             PROVE  LockedPayeesStand'
  OBVIOUS
<1>1. TypeOK /\ RecordsInv /\ \A d \in DepositIds : LocksAgree(d) /\ RecordSound(d)
  BY DEF BooksInv, LedgerInv
<1>2. \A d \in DepositIds, h \in IntentHashes : Locked(d, h)' => Exists(d)'
  BY DEF BooksInv, LedgerInv, LocksAgree, RecordSound
<1>3. \A d \in DepositIds, h \in IntentHashes : Locked(d, h) => Exists(d)
  BY <1>1 DEF LocksAgree, RecordSound
<1>4. \A d \in DepositIds : Keeps(offers[d], offers[d])
  BY DEF Keeps
<1>5. ASSUME NEW a \in Accounts, NEW t \in Tokens, NEW amount \in Amounts,
             NEW min \in Amounts, NEW max \in Amounts,
             NEW guardian \in Accounts \cup {NoAccount},
             NEW delegate \in Accounts \cup {NoAccount},
             NEW retain \in BOOLEAN, NEW listings \in Tables!Listings,
             OpenDeposit(a, t, amount, min, max, guardian, retain, delegate, listings)
      PROVE  LockedPayeesStand'
  <2>1. UNCHANGED <<intents, depositIntents, terms>>
    BY <1>5 DEF OpenDeposit, CreateDeposit, orchVars
  <2>2. \A d \in DepositIds : Exists(d) => offers'[d] = offers[d]
    <3>1. offers' = [offers EXCEPT ![depositCounter] =
              Tables!WithMethods([offers[depositCounter] EXCEPT !.delegate = delegate],
                                 listings)]
      BY <1>5, Zenon DEF OpenDeposit, Tables!Open, Tables!Set
    <3>2. \A d \in DepositIds : Exists(d) => d # depositCounter
      BY <1>1 DEF RecordSound, TypeOK, DepositIds
    <3> QED
      BY <3>1, <3>2 DEF OffersInv
  <2> QED
    BY <1>1, <1>3, <1>4, <2>1, <2>2, StandingIsKept DEF Recorded, Locked
<1>6. ASSUME NEW d \in DepositIds, Configure(d)
      PROVE  LockedPayeesStand'
  <2>1. UNCHANGED <<intents, depositIntents, terms>>
    BY <1>6 DEF Configure, protocolVars, orchVars, escrowVars, vars, books
  <2>2. \A e \in DepositIds : Keeps(offers[e], offers'[e])
    BY <1>6, EditKeepsListings DEF Configure, OffersInv
  <2> QED
    BY <1>1, <2>1, <2>2, StandingIsKept DEF Recorded, Locked
<1>7. CASE Register \/ UNCHANGED marketVars
  <2>1. UNCHANGED <<intents, depositIntents, terms, offers>>
    BY <1>7 DEF Register, marketVars, protocolVars, orchVars, escrowVars, vars, books
  <2> QED
    BY <1>1, <1>4, <2>1, StandingIsKept DEF Recorded, Locked
<1>8. CASE Otherwise(ProtocolNext)
  <2>1. ProtocolNext /\ UNCHANGED intentCounter
    BY <1>8 DEF Otherwise
  <2>2. \A d \in DepositIds : Exists(d)' => offers'[d] = offers[d]
    BY <1>8 DEF Otherwise, OffersFollow
  <2>3. \A h \in IntentHashes : Recorded(h)' => terms'[h] = terms[h]
    BY <1>8 DEF Otherwise, TermsFollow
  <2> QED
    BY <1>1, <1>2, <1>4, <2>1, <2>2, <2>3, OnlySignalsRecord, StandingIsKept
<1>9. CASE \E o \in Orchestrators, a \in Accounts, d \in DepositIds, amount \in Amounts,
              m \in PaymentMethods, c \in Currencies, rate \in Rates :
                SignalAtRate(o, a, d, amount, m, c, rate)
  BY <1>9, SignalKeepsPayees
<1>10. CASE \E a \in Accounts, t \in Tokens, amount \in Amounts, min \in Amounts, max \in Amounts,
              guardian \in Accounts \cup {NoAccount}, delegate \in Accounts \cup {NoAccount},
              retain \in BOOLEAN, listings \in Tables!Listings :
                OpenDeposit(a, t, amount, min, max, guardian, retain, delegate, listings)
  <2>1. PICK a \in Accounts, t \in Tokens, amount \in Amounts, min \in Amounts, max \in Amounts,
              guardian \in Accounts \cup {NoAccount}, delegate \in Accounts \cup {NoAccount},
              retain \in BOOLEAN, listings \in Tables!Listings :
                OpenDeposit(a, t, amount, min, max, guardian, retain, delegate, listings)
    BY <1>10
  <2> QED
    BY <1>5, <2>1
<1>11. CASE \E d \in DepositIds : Configure(d)
  BY <1>6, <1>11
<1> QED
  BY <1>7, <1>8, <1>9, <1>10, <1>11 DEF MarketNext

LEMMA PayeesInit == Orch!Init => LockedPayeesStand
BY HashesAreIssued DEF Orch!Init, LockedPayeesStand, Recorded

\* Whoever installs what orchestrator and whatever reports of reclaimed locks are
\* lost: as long as an intent's lock stands, so does the payee its taker was told
\* to pay, in a method and a currency the deposit still lists.
THEOREM LocksHoldPayees == MarketSpec => []LockedPayeesStand
<1>1. MarketInit => LockedPayeesStand
  BY PayeesInit DEF MarketInit
<1>2. BooksInv /\ [MarketNext]_marketVars => BooksInv'
  BY MarketBooks
<1> QED
  BY <1>1, <1>2, PayeesNext, MarketInvHolds, PTL DEF MarketSpec

\* Hence PayeesStand, where no record can outlive its lock (NoRecordOutlivesItsLock).
THEOREM PayeesStandForTakers ==
    ASSUME PruneMayFail = FALSE
    PROVE  MarketSpec /\ OneOrchestrator => []PayeesStand
<1>1. BooksInv /\ RecordsHaveLocks /\ LockedPayeesStand => PayeesStand
  <2> SUFFICES ASSUME BooksInv, RecordsHaveLocks, LockedPayeesStand,
                      NEW h \in IntentHashes, Recorded(h)
               PROVE  PayeeStands(h)
    BY DEF PayeesStand, PayeeStands
  <2>1. Ours(h)
    BY RecordedParts, OneMarket DEF Ours, Escrows, BooksInv
  <2> QED
    BY <2>1 DEF RecordsHaveLocks, LockedPayeesStand
<1>2. ProtocolSpec /\ OneOrchestrator => []RecordsHaveLocks
  BY NoRecordOutlivesItsLock
<1> QED
  BY <1>1, <1>2, MarketImplementsProtocol, MarketInvHolds, LocksHoldPayees, PTL

-----------------------------------------------------------------------------
(* The other registries: any of the contracts that keep a Whitelist.         *)

CONSTANT Addresses
VARIABLES isWhitelisted, list, acceptAll
Others == INSTANCE Whitelist

WhitelistInv == Others!TypeOK /\ Others!ListIsExact

LEMMA SameLists ==
    ASSUME NEW A, NEW a
    PROVE  /\ Others!IsInjective(A) <=> IsInjective(A)
           /\ Others!Range(A) = Range(A)
           /\ Others!RemoveStorage(A, a) = RemoveStorage(A, a)
BY DEF Others!IsInjective, IsInjective, Others!Range, Range,
   Others!RemoveStorage, RemoveStorage, Others!IndexOf, IndexOf

LEMMA WhitelistInvUnfolds ==
    WhitelistInv <=> /\ Others!TypeOK
                     /\ Range(list) = isWhitelisted
                     /\ IsInjective(list)
BY SameLists DEF WhitelistInv, Others!ListIsExact

\* The array and the mapping of every whitelist agree for good: through any
\* sequence of additions and removals the list is complete and free of
\* repetitions, so a removal never reverts for want of its entry.
THEOREM ListStaysExact == Others!Spec => []Others!ListIsExact
<1>1. Others!Init => WhitelistInv
  <2> SUFFICES ASSUME Others!Init
               PROVE  WhitelistInv
    OBVIOUS
  <2>1. list \in Seq(Addresses) /\ DOMAIN list = {}
    BY DEF Others!Init
  <2>2. Range(list) = {} /\ IsInjective(list)
    BY <2>1 DEF Range, IsInjective
  <2> QED
    BY <2>1, <2>2, WhitelistInvUnfolds DEF Others!Init, Others!TypeOK
<1>2. WhitelistInv /\ [Others!Next]_(Others!vars) => WhitelistInv'
  <2> SUFFICES ASSUME WhitelistInv, [Others!Next]_(Others!vars)
               PROVE  /\ Others!TypeOK'
                      /\ Range(list') = isWhitelisted'
                      /\ IsInjective(list')
    BY SameLists DEF WhitelistInv, Others!ListIsExact
  <2>0. /\ Others!TypeOK
        /\ Range(list) = isWhitelisted
        /\ IsInjective(list)
    BY WhitelistInvUnfolds
  <2> USE DEF Others!TypeOK
  <2>1. ASSUME NEW a \in Addresses, Others!Add(a)
        PROVE  /\ Others!TypeOK'
               /\ Range(list') = isWhitelisted'
               /\ IsInjective(list')
    <3>1. a \notin Range(list)
      BY <2>0, <2>1 DEF Others!Add
    <3> QED
      BY <2>0, <2>1, <3>1, AppendIsExact DEF Others!Add
  <2>2. ASSUME NEW a \in Addresses, Others!Remove(a)
        PROVE  /\ Others!TypeOK'
               /\ Range(list') = isWhitelisted'
               /\ IsInjective(list')
    <3>1. a \in Range(list) /\ list' = RemoveStorage(list, a)
      BY <2>2, SameLists DEF Others!Remove
    <3> QED
      BY <2>0, <2>2, <3>1, RemoveStorageIsExact DEF Others!Remove
  <2>3. ASSUME NEW accept \in BOOLEAN, Others!SetAcceptAll(accept)
        PROVE  /\ Others!TypeOK'
               /\ Range(list') = isWhitelisted'
               /\ IsInjective(list')
    BY <2>0, <2>3 DEF Others!SetAcceptAll
  <2>4. CASE UNCHANGED Others!vars
    BY <2>0, <2>4 DEF Others!vars
  <2> QED
    BY <2>1, <2>2, <2>3, <2>4 DEF Others!Next
<1>3. WhitelistInv => Others!ListIsExact
  BY DEF WhitelistInv
<1> QED
  BY <1>1, <1>2, <1>3, PTL DEF Others!Spec
=============================================================================
