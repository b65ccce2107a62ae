--------------------------- MODULE ProtocolTheorems ---------------------------
(* What TLAPS proves of Protocol for every value of its constants: any       *)
(* number of accounts, orchestrators, other escrows, verifiers and intents,  *)
(* every interleaving of their transactions, and every change of settings.   *)
EXTENDS Protocol, EscrowTheorems, TLAPS

-----------------------------------------------------------------------------
(* The orchestrators' records.                                               *)

Record == [owner: Accounts, escrow: Escrows, depositId: DepositIds,
           amount: Amounts, paymentMethod: PaymentMethods]

\* What the orchestrators' storage keeps to on its own: a hash not issued yet
\* has no record, and the array of each account lists its recorded intents.
RecordsInv ==
    /\ intents \in [IntentHashes -> Record \cup {Orch!NoIntent}]
    /\ accountIntents \in [Orchestrators -> [Accounts -> SUBSET IntentHashes]]
    /\ intentCounter \in [Orchestrators -> Nat]
    /\ \A h \in IntentHashes : Recorded(h) => h[2] < intentCounter[h[1]]
    /\ AccountsListTheirIntents

\* The hashes issued by an orchestrator are named after it.
LEMMA HashParts ==
    ASSUME NEW h \in IntentHashes
    PROVE  h[1] \in Orchestrators /\ h[2] \in Nat
BY HashesAreIssued, MaxIntentsAssumption DEF Orch!IssuedHashes

\* Deleting records of o's own keeps the arrays in step.
LEMMA PruneKeepsRecords ==
    ASSUME RecordsInv, NEW o \in Orchestrators, NEW S \in SUBSET IntentHashes,
           \A h \in S : h[1] = o,
           Orch!Prune(o, S), UNCHANGED intentCounter
    PROVE  RecordsInv'
<1>1. /\ intents' = [h \in IntentHashes |->
                        IF h \in S THEN Orch!NoIntent ELSE intents[h]]
      /\ accountIntents' = [accountIntents EXCEPT ![o] =
                                [a \in Accounts |-> accountIntents[o][a] \ S]]
  BY HashesAreIssued DEF Orch!Prune, Orch!Remaining
<1>2. /\ intents' \in [IntentHashes -> Record \cup {Orch!NoIntent}]
      /\ accountIntents' \in [Orchestrators -> [Accounts -> SUBSET IntentHashes]]
      /\ intentCounter' \in [Orchestrators -> Nat]
  BY <1>1 DEF RecordsInv
<1>3. \A h \in IntentHashes : Recorded(h)' => h[2] < intentCounter'[h[1]]
  BY <1>1 DEF RecordsInv, Recorded
<1>4. AccountsListTheirIntents'
  <2> SUFFICES ASSUME NEW p \in Orchestrators, NEW a \in Accounts
               PROVE  accountIntents'[p][a] =
                        {h \in IntentHashes : h[1] = p /\ intents'[h].owner = a}
    BY DEF AccountsListTheirIntents
  <2>1. accountIntents[p][a] =
            {h \in IntentHashes : h[1] = p /\ intents[h].owner = a}
    BY DEF RecordsInv, AccountsListTheirIntents
  <2>2. accountIntents'[p][a] =
            IF p = o THEN accountIntents[p][a] \ S ELSE accountIntents[p][a]
    BY <1>1 DEF RecordsInv
  <2>3. \A h \in IntentHashes : h[1] = p =>
            (intents'[h].owner = a <=> h \notin S /\ intents[h].owner = a)
    BY <1>1, AccountsAssumption DEF Orch!NoIntent
  <2>4. p # o => \A h \in IntentHashes : h[1] = p => h \notin S
    OBVIOUS
  <2> QED
    BY <2>1, <2>2, <2>3, <2>4
<1> QED
  BY <1>2, <1>3, <1>4 DEF RecordsInv

\* pruneIntents deletes records of its own only.
LEMMA PrunableIsOwn ==
    ASSUME NEW o, NEW e, NEW S \in SUBSET IntentHashes
    PROVE  /\ Orch!Prunable(o, e, S) \in SUBSET S
           /\ \A h \in Orch!Prunable(o, e, S) :
                 h[1] = o /\ Recorded(h) /\ intents[h].escrow = e
BY DEF Orch!Prunable, Orch!Recorded, Recorded

LEMMA PruneIntentsKeepsRecords ==
    ASSUME RecordsInv, NEW o \in Orchestrators, NEW e, NEW S \in SUBSET IntentHashes,
           Orch!PruneIntents(o, e, S)
    PROVE  RecordsInv'
<1> DEFINE P == Orch!Prunable(o, e, S)
<1>1. P \in SUBSET IntentHashes /\ \A h \in P : h[1] = o
  BY PrunableIsOwn
<1>2. Orch!Prune(o, P) /\ UNCHANGED intentCounter
  BY DEF Orch!PruneIntents
<1> HIDE DEF P
<1> QED
  BY <1>1, <1>2, PruneKeepsRecords

\* Ending one recorded intent.
LEMMA EndingKeepsRecords ==
    ASSUME RecordsInv, NEW o \in Orchestrators, NEW h \in IntentHashes,
           Orch!Recorded(o, h), Orch!Prune(o, {h}), UNCHANGED intentCounter
    PROVE  RecordsInv'
<1>1. {h} \in SUBSET IntentHashes /\ \A g \in {h} : g[1] = o
  BY DEF Orch!Recorded
<1> QED
  BY <1>1, PruneKeepsRecords

\* The hash of the next intent is fresh.
LEMMA NextHashIsFresh ==
    ASSUME RecordsInv, NEW o \in Orchestrators, intentCounter[o] < MaxIntents
    PROVE  /\ Orch!NextHash(o) \in IntentHashes
           /\ ~Recorded(Orch!NextHash(o))
           /\ Orch!NextHash(o)[1] = o
           /\ Orch!NextHash(o)[2] = intentCounter[o]
<1>1. intentCounter[o] \in Nat
  BY DEF RecordsInv
<1>2. /\ Orch!NextHash(o) = <<o, intentCounter[o]>>
      /\ Orch!NextHash(o) \in IntentHashes
  BY <1>1, HashesAreIssued, MaxIntentsAssumption DEF Orch!NextHash, Orch!IssuedHashes
<1> QED
  BY <1>1, <1>2 DEF RecordsInv

LEMMA SignalKeepsRecords ==
    ASSUME RecordsInv, NEW o \in Orchestrators, NEW a \in Accounts, NEW e \in Escrows,
           NEW d \in DepositIds, NEW amount \in Amounts, NEW m \in PaymentMethods,
           NEW min, NEW S \in SUBSET IntentHashes,
           Orch!SignalIntent(o, a, e, d, amount, m, min, S)
    PROVE  RecordsInv'
<1> DEFINE new == Orch!NextHash(o)
           P == Orch!Prunable(o, e, S)
           record == [owner |-> a, escrow |-> e, depositId |-> d,
                      amount |-> amount, paymentMethod |-> m]
<1>1. /\ intentCounter[o] < MaxIntents
      /\ intents' = [h \in IntentHashes |->
            IF h = new THEN record
            ELSE IF h \in P THEN Orch!NoIntent ELSE intents[h]]
      /\ accountIntents' = [accountIntents EXCEPT ![o] =
            [b \in Accounts |-> IF b = a THEN (accountIntents[o][b] \ P) \cup {new}
                                ELSE accountIntents[o][b] \ P]]
      /\ intentCounter' = [intentCounter EXCEPT ![o] = @ + 1]
  BY HashesAreIssued DEF Orch!SignalIntent, Orch!Remaining
<1>2. /\ new \in IntentHashes /\ ~Recorded(new)
      /\ new[1] = o /\ new[2] = intentCounter[o]
  BY <1>1, NextHashIsFresh
<1>3. P \in SUBSET IntentHashes /\ \A h \in P : h[1] = o
  BY PrunableIsOwn
<1>4. record \in Record /\ record.owner = a
  BY DEF Record
<1> HIDE DEF new, P, record
<1>5. /\ intents' \in [IntentHashes -> Record \cup {Orch!NoIntent}]
      /\ accountIntents' \in [Orchestrators -> [Accounts -> SUBSET IntentHashes]]
      /\ intentCounter' \in [Orchestrators -> Nat]
  BY <1>1, <1>2, <1>4 DEF RecordsInv
<1>6. ASSUME NEW h \in IntentHashes, Recorded(h)'
      PROVE  h[2] < intentCounter'[h[1]]
  <2>1. h[1] \in Orchestrators /\ h[2] \in Nat
    BY HashParts
  <2>2. CASE h = new
    BY <1>1, <1>2, <2>1, <2>2 DEF RecordsInv
  <2>3. CASE h # new
    <3>1. Recorded(h)
      BY <1>1, <1>6, <2>3 DEF Recorded
    <3> QED
      BY <1>1, <2>1, <3>1 DEF RecordsInv
  <2> QED
    BY <2>2, <2>3
<1>7. AccountsListTheirIntents'
  <2> SUFFICES ASSUME NEW p \in Orchestrators, NEW b \in Accounts
               PROVE  accountIntents'[p][b] =
                        {h \in IntentHashes : h[1] = p /\ intents'[h].owner = b}
    BY DEF AccountsListTheirIntents
  <2>1. accountIntents[p][b] =
            {h \in IntentHashes : h[1] = p /\ intents[h].owner = b}
    BY DEF RecordsInv, AccountsListTheirIntents
  <2>2. accountIntents'[p][b] =
            IF p # o THEN accountIntents[p][b]
            ELSE IF b = a THEN (accountIntents[p][b] \ P) \cup {new}
            ELSE accountIntents[p][b] \ P
    BY <1>1 DEF RecordsInv
  <2>3. \A h \in IntentHashes : h[1] = p =>
            (intents'[h].owner = b <=>
                IF h = new THEN b = a ELSE h \notin P /\ intents[h].owner = b)
    BY <1>1, <1>4, AccountsAssumption DEF Orch!NoIntent
  <2>4. intents[new].owner # b
    BY <1>2, AccountsAssumption DEF Recorded, Orch!NoIntent
  <2>5. p # o => \A h \in IntentHashes : h[1] = p => h \notin P /\ h # new
    BY <1>2, <1>3
  <2>6. CASE p # o
    BY <2>1, <2>2, <2>3, <2>5, <2>6
  <2>7. CASE p = o
    BY <1>2, <2>1, <2>2, <2>3, <2>4, <2>7
  <2> QED
    BY <2>6, <2>7
<1> QED
  BY <1>5, <1>6, <1>7 DEF RecordsInv

LEMMA UntouchedRecords ==
    ASSUME RecordsInv, UNCHANGED <<intents, accountIntents, intentCounter>>
    PROVE  RecordsInv'
BY DEF RecordsInv, Recorded, AccountsListTheirIntents

\* The escrow reports hashes of its own array, and may fail to.
LEMMA TryPruneKeepsRecords ==
    ASSUME RecordsInv, TypeOK, NEW S \in SUBSET IntentHashes, TryPrune(S)
    PROVE  RecordsInv'
<1>1. orchestrator \in Orchestrators
  BY DEF TypeOK
<1>2. \/ Orch!PruneIntents(orchestrator, ThisEscrow, S)
      \/ UNCHANGED <<intents, accountIntents, intentCounter>>
  BY DEF TryPrune, orchVars
<1> QED
  BY <1>1, <1>2, PruneIntentsKeepsRecords, UntouchedRecords

LEMMA RecordedParts ==
    ASSUME RecordsInv, NEW h \in IntentHashes, Recorded(h)
    PROVE  /\ intents[h] \in Record
           /\ intents[h].owner \in Accounts
           /\ intents[h].escrow \in Escrows
           /\ intents[h].depositId \in DepositIds
           /\ intents[h].amount \in Amounts
           /\ intents[h].paymentMethod \in PaymentMethods
BY DEF RecordsInv, Recorded, Record

LEMMA RecordsNext == RecordsInv /\ TypeOK /\ [ProtocolNext]_protocolVars => RecordsInv'
<1> SUFFICES ASSUME RecordsInv, TypeOK, [ProtocolNext]_protocolVars PROVE RecordsInv'
  OBVIOUS
<1>1. ASSUME NEW a \in Accounts, NEW d \in DepositIds, NEW amount \in Amounts,
             Remove(a, d, amount)
      PROVE  RecordsInv'
  <2>1. TryPrune(ReclaimIfNecessary(d, amount))
    BY <1>1 DEF Remove
  <2>2. ReclaimIfNecessary(d, amount) \in SUBSET IntentHashes
    BY ReclaimsOwnLocks
  <2> QED
    BY <2>1, <2>2, TryPruneKeepsRecords
<1>2. CASE EscrowNext
  <2>1. CASE Manage
    BY <2>1, UntouchedRecords DEF Manage, orchVars
  <2>2. CASE \E a \in Accounts, d \in DepositIds, h \in IntentHashes, time \in 1 .. MaxTime :
                Extend(a, d, h, time)
    BY <2>2, UntouchedRecords DEF Extend, orchVars
  <2>3. ASSUME NEW d \in DepositIds,
               PruneExpired(d) \/ \E a \in Accounts : Withdraw(a, d)
        PROVE  RecordsInv'
    <3>1. TryPrune(ExpiredIntents(d))
      BY <2>3 DEF Withdraw, PruneExpired
    <3>2. ExpiredIntents(d) \in SUBSET IntentHashes
      BY ReclaimsOwnLocks
    <3> QED
      BY <3>1, <3>2, TryPruneKeepsRecords
  <2> QED
    BY <1>1, <1>2, <2>1, <2>2, <2>3 DEF EscrowNext
<1>3. ASSUME NEW o \in Orchestrators, NEW a \in Accounts, NEW e \in Escrows,
             NEW d \in DepositIds, NEW amount \in Amounts, NEW m \in PaymentMethods,
             Signal(o, a, e, d, amount, m)
      PROVE  RecordsInv'
  <2> DEFINE ours == e = ThisEscrow
             expired == IF ours THEN ReclaimIfNecessary(d, amount) ELSE {}
  <2>1. expired \in SUBSET IntentHashes
    BY ReclaimsOwnLocks
  <2>2. \E min : \E pruned \in {expired, {}} :
            Orch!SignalIntent(o, a, e, d, amount, m, min, pruned)
    BY <1>3 DEF Signal
  <2> HIDE DEF expired
  <2> QED
    BY <2>1, <2>2, SignalKeepsRecords
<1>4. ASSUME NEW o \in Orchestrators, NEW h \in IntentHashes,
             \/ \E a \in Accounts : Cancel(o, a, h) \/ Release(o, a, h)
             \/ \E att \in Pay!Attestations : Fulfill(o, h, att)
      PROVE  RecordsInv'
  <2>1. Orch!Recorded(o, h) /\ Orch!Prune(o, {h}) /\ UNCHANGED intentCounter
    BY <1>4 DEF Cancel, Release, Fulfill, Orch!CancelIntent, Orch!FulfillIntent,
       Orch!ReleaseFundsToPayer
  <2> QED
    BY <2>1, EndingKeepsRecords
<1>5. ASSUME NEW o \in Orchestrators, NEW e \in OtherEscrows,
             NEW S \in SUBSET IntentHashes, PruneFor(o, e, S)
      PROVE  RecordsInv'
  BY <1>5, PruneIntentsKeepsRecords DEF PruneFor
<1>6. CASE GovernanceNext \/ Pass \/ UNCHANGED protocolVars
  <2>1. UNCHANGED <<intents, accountIntents, intentCounter>>
    BY <1>6 DEF GovernanceNext, Pass, protocolVars, orchVars,
       Orch!SetAllowMultipleIntents, Orch!SetAcceptedEscrows, Orch!PauseOrchestrator,
       Orch!UnpauseOrchestrator, Orch!records
  <2> QED
    BY <2>1, UntouchedRecords
<1>7. CASE IntentNext
  <2>1. PICK o \in Orchestrators :
        \/ \E a \in Accounts, e \in Escrows, d \in DepositIds, amount \in Amounts,
              m \in PaymentMethods : Signal(o, a, e, d, amount, m)
        \/ \E a \in Accounts, h \in IntentHashes : Cancel(o, a, h)
        \/ \E h \in IntentHashes, att \in Pay!Attestations : Fulfill(o, h, att)
        \/ \E a \in Accounts, h \in IntentHashes : Release(o, a, h)
        \/ \E e \in OtherEscrows, hashes \in SUBSET IntentHashes : PruneFor(o, e, hashes)
    BY <1>7 DEF IntentNext
  <2> QED
    BY <2>1, <1>3, <1>4, <1>5
<1> QED
  BY <1>2, <1>6, <1>7 DEF ProtocolNext

-----------------------------------------------------------------------------
(* What the orchestrators do to the escrow is what Escrow allows them to.    *)

LEMMA ReleasesAnAmount ==
    ASSUME NEW att \in Pay!Attestations
    PROVE  Pay!ReleaseAmount(att) \in Amounts
BY DEF Pay!Attestations, Pay!ReleaseAmount

LEMMA StepsAreEscrowSteps ==
    RecordsInv /\ [ProtocolNext]_protocolVars => [Next]_vars
<1> SUFFICES ASSUME RecordsInv, [ProtocolNext]_protocolVars PROVE [Next]_vars
  OBVIOUS
<1>1. CASE EscrowNext
  <2>1. CASE Manage
    BY <2>1 DEF Manage, Next
  <2>2. CASE \E a \in Accounts, d \in DepositIds, amount \in Amounts : Remove(a, d, amount)
    BY <2>2 DEF Remove, Next, ReclaimNext
  <2>3. CASE \E a \in Accounts, d \in DepositIds : Withdraw(a, d)
    BY <2>3 DEF Withdraw, Next, ReclaimNext
  <2>4. CASE \E d \in DepositIds : PruneExpired(d)
    BY <2>4 DEF PruneExpired, Next, ReclaimNext
  <2>5. CASE \E a \in Accounts, d \in DepositIds, h \in IntentHashes, time \in 1 .. MaxTime :
                Extend(a, d, h, time)
    BY <2>5 DEF Extend, Next, GuardianNext
  <2> QED
    BY <1>1, <2>1, <2>2, <2>3, <2>4, <2>5 DEF EscrowNext
<1>2. ASSUME NEW o \in Orchestrators, NEW a \in Accounts, NEW e \in Escrows,
             NEW d \in DepositIds, NEW amount \in Amounts, NEW m \in PaymentMethods,
             Signal(o, a, e, d, amount, m)
      PROVE  [Next]_vars
  <2> DEFINE new == Orch!NextHash(o)
  <2>1. At(e, LockFunds(o, d, new, amount)) /\ intentCounter[o] < MaxIntents
    BY <1>2 DEF Signal, Orch!SignalIntent
  <2>2. new \in IntentHashes
    BY <2>1, NextHashIsFresh
  <2> HIDE DEF new
  <2>3. LockFunds(o, d, new, amount) \/ UNCHANGED vars
    BY <2>1 DEF At, escrowVars
  <2> QED
    BY <2>2, <2>3 DEF Next, OrchestratorNext
<1>3. ASSUME NEW o \in Orchestrators, NEW h \in IntentHashes,
             \/ \E a \in Accounts : Cancel(o, a, h) \/ Release(o, a, h)
             \/ \E att \in Pay!Attestations : Fulfill(o, h, att)
      PROVE  [Next]_vars
  <2> DEFINE d == intents[h].depositId
  <2>1. Recorded(h)
    BY <1>3 DEF Cancel, Release, Fulfill, Orch!CancelIntent, Orch!ReleaseFundsToPayer,
       Orch!Recorded, Recorded
  <2>2. d \in DepositIds /\ intents[h].amount \in Amounts
    BY <2>1, RecordedParts
  <2>3. \/ UnlockFunds(o, d, h)
        \/ \E amount \in Amounts : UnlockAndTransferFunds(o, d, h, amount)
        \/ UNCHANGED vars
    BY <1>3, <2>2, ReleasesAnAmount DEF Cancel, Release, Fulfill, At, escrowVars
  <2> HIDE DEF d
  <2> QED
    BY <2>2, <2>3 DEF Next, OrchestratorNext
<1>4. CASE IntentNext
  <2>1. PICK o \in Orchestrators :
        \/ \E a \in Accounts, e \in Escrows, d \in DepositIds, amount \in Amounts,
              m \in PaymentMethods : Signal(o, a, e, d, amount, m)
        \/ \E a \in Accounts, h \in IntentHashes : Cancel(o, a, h)
        \/ \E h \in IntentHashes, att \in Pay!Attestations : Fulfill(o, h, att)
        \/ \E a \in Accounts, h \in IntentHashes : Release(o, a, h)
        \/ \E e \in OtherEscrows, hashes \in SUBSET IntentHashes : PruneFor(o, e, hashes)
    BY <1>4 DEF IntentNext
  <2>2. CASE \E e \in OtherEscrows, hashes \in SUBSET IntentHashes : PruneFor(o, e, hashes)
    BY <2>2 DEF PruneFor, escrowVars
  <2> QED
    BY <2>1, <1>2, <1>3, <2>2
<1>5. CASE GovernanceNext \/ Pass \/ UNCHANGED protocolVars
  BY <1>5 DEF GovernanceNext, Pass, protocolVars, escrowVars, Next
<1> QED
  BY <1>1, <1>4, <1>5 DEF ProtocolNext

\* What the two keep to together.
BooksInv == LedgerInv /\ RecordsInv

LEMMA RecordsInit == Orch!Init => RecordsInv
<1> SUFFICES ASSUME Orch!Init PROVE RecordsInv
  OBVIOUS
<1>1. /\ intents = [h \in IntentHashes |-> Orch!NoIntent]
      /\ accountIntents = [o \in Orchestrators |-> [a \in Accounts |-> {}]]
      /\ intentCounter = [o \in Orchestrators |-> 0]
  BY HashesAreIssued DEF Orch!Init
<1>2. AccountsListTheirIntents
  BY <1>1, AccountsAssumption DEF AccountsListTheirIntents, Orch!NoIntent
<1> QED
  BY <1>1, <1>2 DEF RecordsInv, Recorded

LEMMA BooksInvInit == Init /\ Orch!Init => BooksInv
BY LedgerInit, RecordsInit DEF BooksInv

LEMMA BooksInvNext == BooksInv /\ [ProtocolNext]_protocolVars => BooksInv'
<1>1. BooksInv => TypeOK
  BY DEF BooksInv, LedgerInv
<1> QED
  BY <1>1, RecordsNext, StepsAreEscrowSteps, LedgerNext DEF BooksInv

LEMMA BooksInvHolds == ProtocolSpec => []BooksInv
<1>1. ProtocolInit => BooksInv
  BY BooksInvInit DEF ProtocolInit
<1> QED
  BY <1>1, BooksInvNext, PTL DEF ProtocolSpec

\* Driven by the code of the orchestrators, the escrow does nothing that Escrow,
\* with a free hand for whatever contract is installed, does not allow: all that
\* is proved of it alone holds of the whole.
THEOREM ProtocolImplementsEscrow == ProtocolSpec => Spec
<1>1. ProtocolInit => Init
  BY DEF ProtocolInit
<1>2. BooksInv /\ [ProtocolNext]_protocolVars => [Next]_vars
  BY StepsAreEscrowSteps DEF BooksInv
<1> QED
  BY <1>1, <1>2, BooksInvHolds, PTL DEF ProtocolSpec, Spec

\* The escrow stays solvent whatever intents, payments and owners do.
THEOREM ProtocolIsSolvent == ProtocolSpec => []BooksBalance
BY ProtocolImplementsEscrow, Solvent, PTL

\* The array that decides whether a taker may signal again lists exactly the
\* taker's recorded intents, through signals whose call back prunes others,
\* cancellations, payments, and reports of several escrows.
THEOREM ArraysListRecords == ProtocolSpec => []AccountsListTheirIntents
<1>1. BooksInv => AccountsListTheirIntents
  BY DEF BooksInv, RecordsInv
<1> QED
  BY <1>1, BooksInvHolds, PTL

-----------------------------------------------------------------------------
(* A payment releases once.                                                  *)

\* The event log counts what the shared registry of nullifiers has recorded.
PaymentsInv ==
    /\ isNullified \in SUBSET Pay!Nullifiers
    /\ redemptions = [p \in Pay!Nullifiers |-> IF p \in isNullified THEN 1 ELSE 0]

LEMMA PaymentsNext == PaymentsInv /\ [ProtocolNext]_protocolVars => PaymentsInv'
<1> SUFFICES ASSUME PaymentsInv, [ProtocolNext]_protocolVars PROVE PaymentsInv'
  OBVIOUS
<1>1. ASSUME NEW o \in Orchestrators, NEW h \in IntentHashes,
             NEW att \in Pay!Attestations, Fulfill(o, h, att)
      PROVE  PaymentsInv'
  <2>1. /\ Pay!Nullifier(att) \notin isNullified
        /\ isNullified' = isNullified \cup {Pay!Nullifier(att)}
        /\ redemptions' = [redemptions EXCEPT ![Pay!Nullifier(att)] = @ + 1]
    BY <1>1 DEF Fulfill, Pay!VerifyPayment, Pay!IsUnused
  <2>2. Pay!Nullifier(att) \in Pay!Nullifiers
    BY DEF Pay!Nullifier, Pay!Nullifiers, Pay!Attestations
  <2> QED
    BY <2>1, <2>2 DEF PaymentsInv
<1>2. CASE UNCHANGED <<isNullified, redemptions>>
  BY <1>2 DEF PaymentsInv
<1>3. CASE EscrowNext \/ Pass \/ UNCHANGED protocolVars
  BY <1>2, <1>3 DEF EscrowNext, Manage, Remove, Withdraw, PruneExpired, Extend, Pass,
     protocolVars, payVars, log
<1>4. CASE GovernanceNext
  BY <1>2, <1>4 DEF GovernanceNext, Pay!OwnerNext, Pay!RegisterMethod,
     Pay!UnregisterMethod, Pay!AddPaymentMethod, Pay!RemovePaymentMethod,
     Pay!AddWritePermission, Pay!RemoveWritePermission, payVars, log
<1>5. CASE IntentNext
  BY <1>1, <1>2, <1>5 DEF IntentNext, Signal, Cancel, Release, PruneFor, payVars, log
<1> QED
  BY <1>3, <1>4, <1>5 DEF ProtocolNext

\* No payment is ever counted twice, by any verifier for any orchestrator, as
\* owners replace verifiers, drop methods and take them back.
THEOREM PaymentsReleaseOnce == ProtocolSpec => []PaymentReleasesOnce
<1>1. ProtocolInit => PaymentsInv
  BY DEF ProtocolInit, Pay!Init, PaymentsInv
<1>2. PaymentsInv => PaymentReleasesOnce
  BY DEF PaymentsInv, PaymentReleasesOnce
<1> QED
  BY <1>1, <1>2, PaymentsNext, PTL DEF ProtocolSpec

-----------------------------------------------------------------------------
(* No lock outlives its record.                                              *)

\* Locks only go, and no record goes or changes while its lock is kept.
LEMMA LocksKeepRecords ==
    ASSUME LocksHaveRecords,
           \A e \in DepositIds, h \in IntentHashes :
              Locked(e, h)' => /\ Locked(e, h)
                               /\ depositIntents'[e][h].amount = depositIntents[e][h].amount,
           \A d \in DepositIds, h \in IntentHashes :
              Ours(h) /\ intents'[h] # intents[h] /\ intents[h].depositId = d
                => ~Locked(d, h)'
    PROVE  LocksHaveRecords'
<1> SUFFICES ASSUME NEW d \in DepositIds, NEW h \in IntentHashes, Locked(d, h)'
             PROVE  /\ Ours(h)'
                    /\ intents'[h].depositId = d
                    /\ intents'[h].amount = depositIntents'[d][h].amount
  BY DEF LocksHaveRecords
<1>1. /\ Ours(h) /\ intents[h].depositId = d
      /\ intents[h].amount = depositIntents'[d][h].amount
  BY DEF LocksHaveRecords
<1>2. intents'[h] = intents[h]
  BY <1>1
<1> QED
  BY <1>1, <1>2 DEF Ours, Recorded

LEMMA PrunedRecords ==
    ASSUME NEW o, NEW S, Orch!Prune(o, S)
    PROVE  \A h \in IntentHashes :
              intents'[h] = IF h \in S THEN Orch!NoIntent ELSE intents[h]
BY HashesAreIssued DEF Orch!Prune

\* Reclaiming drops the locks before the orchestrator hears of them.
LEMMA ReclaimKeepsRecords ==
    ASSUME BooksInv, LocksHaveRecords, NEW d \in DepositIds,
           NEW S \in SUBSET depositIntentHashes[d], DropLocks(d, S), TryPrune(S)
    PROVE  LocksHaveRecords'
<1>1. TypeOK /\ \A h \in S : Locked(d, h)
  BY DEF BooksInv, LedgerInv, LocksAgree
<1>2. S \in SUBSET IntentHashes
  BY <1>1 DEF TypeOK
<1>3. \A h \in IntentHashes : intents'[h] # intents[h] => h \in S
  BY <1>2, PrunableIsOwn, PrunedRecords DEF TryPrune, Orch!PruneIntents, orchVars
<1>4. \A e \in DepositIds, h \in IntentHashes :
        Locked(e, h)' => /\ Locked(e, h)
                         /\ depositIntents'[e][h] = depositIntents[e][h]
                         /\ ~(e = d /\ h \in S)
  BY <1>1, DroppedLocks
<1>5. \A h \in S : intents[h].depositId = d
  BY <1>1, <1>2 DEF LocksHaveRecords
<1>6. \A e \in DepositIds, h \in IntentHashes :
        intents'[h] # intents[h] /\ intents[h].depositId = e => ~Locked(e, h)'
  BY <1>3, <1>4, <1>5
<1> QED
  BY <1>4, <1>6, LocksKeepRecords

LEMMA EndingKeepsLocks ==
    ASSUME BooksInv, LocksHaveRecords, NEW o \in Orchestrators, NEW h \in IntentHashes,
           \/ \E a \in Accounts : Cancel(o, a, h) \/ Release(o, a, h)
           \/ \E att \in Pay!Attestations : Fulfill(o, h, att)
    PROVE  LocksHaveRecords'
<1> DEFINE d == intents[h].depositId
<1>1. Recorded(h) /\ Orch!Prune(o, {h})
  BY DEF Cancel, Release, Fulfill, Orch!CancelIntent, Orch!ReleaseFundsToPayer,
     Orch!FulfillIntent, Orch!Recorded, Recorded
<1>2. TypeOK /\ d \in DepositIds
  BY <1>1, RecordedParts DEF BooksInv, LedgerInv
<1>3. IF intents[h].escrow = ThisEscrow THEN DropLocks(d, {h}) ELSE UNCHANGED depositIntents
  BY DEF Cancel, Release, Fulfill, At, escrowVars, vars, books, UnlockFunds,
     UnlockAndTransferFunds
<1>4. \A g \in IntentHashes : intents'[g] # intents[g] => g = h
  BY <1>1, PrunedRecords
<1>5. CASE intents[h].escrow = ThisEscrow
  <2> HIDE DEF d
  <2>1. \A e \in DepositIds, g \in IntentHashes :
          Locked(e, g)' => /\ Locked(e, g)
                           /\ depositIntents'[e][g] = depositIntents[e][g]
                           /\ ~(e = d /\ g \in {h})
    BY <1>2, <1>3, <1>5, DroppedLocks
  <2>2. \A e \in DepositIds, g \in IntentHashes :
          intents'[g] # intents[g] /\ intents[g].depositId = e => ~Locked(e, g)'
    BY <1>2, <1>4, <2>1 DEF d
  <2> QED
    BY <2>1, <2>2, LocksKeepRecords
<1>6. CASE intents[h].escrow # ThisEscrow
  BY <1>3, <1>4, <1>6, LocksKeepRecords DEF Ours, Locked
<1> QED
  BY <1>5, <1>6

LEMMA SignalKeepsLocks ==
    ASSUME BooksInv, LocksHaveRecords, NEW o \in Orchestrators, NEW a \in Accounts,
           NEW e \in Escrows, NEW d \in DepositIds, NEW amount \in Amounts,
           NEW m \in PaymentMethods, Signal(o, a, e, d, amount, m)
    PROVE  LocksHaveRecords'
<1> DEFINE new == Orch!NextHash(o)
           expired == IF e = ThisEscrow THEN ReclaimIfNecessary(d, amount) ELSE {}
<1>1. TypeOK /\ RecordsInv /\ LocksAgree(d)
  BY DEF BooksInv, LedgerInv
<1>2. /\ expired \in SUBSET IntentHashes
      /\ \A h \in expired : Locked(d, h)
  BY <1>1, ReclaimsOwnLocks DEF LocksAgree
<1>3. PICK pruned \in {expired, {}} :
        \E min : Orch!SignalIntent(o, a, e, d, amount, m, min, pruned)
  BY DEF Signal
<1>4. /\ intentCounter[o] < MaxIntents
      /\ \A h \in IntentHashes : intents'[h] =
            IF h = new
            THEN [owner |-> a, escrow |-> e, depositId |-> d,
                  amount |-> amount, paymentMethod |-> m]
            ELSE IF h \in Orch!Prunable(o, e, pruned) THEN Orch!NoIntent ELSE intents[h]
  BY <1>3, HashesAreIssued DEF Orch!SignalIntent
<1>5. new \in IntentHashes /\ ~Recorded(new)
  BY <1>1, <1>4, NextHashIsFresh
<1>6. \A h \in IntentHashes \ {new} :
        Ours(h) /\ intents'[h] # intents[h] => h \in expired /\ e = ThisEscrow
  BY <1>2, <1>4, PrunableIsOwn DEF Ours
<1>7. At(e, LockFunds(o, d, new, amount))
  BY DEF Signal
<1> HIDE DEF new
<1>8. CASE e # ThisEscrow
  <2>1. UNCHANGED depositIntents
    BY <1>7, <1>8 DEF At, escrowVars, vars, books
  <2>2. \A h \in IntentHashes : Ours(h) => intents'[h] = intents[h]
    BY <1>5, <1>6, <1>8 DEF Ours
  <2> QED
    BY <2>1, <2>2, LocksKeepRecords DEF Locked
<1>9. CASE e = ThisEscrow
  <2>1. depositIntents' = [depositIntents EXCEPT ![d] =
            [g \in IntentHashes |->
                IF g = new
                THEN [amount |-> amount, timestamp |-> now,
                      expiryTime |-> now + intentExpirationPeriod]
                ELSE IF g \in expired THEN NoIntent ELSE @[g]]]
    BY <1>7, <1>9 DEF At, LockFunds
  <2> HIDE DEF expired
  <2> SUFFICES ASSUME NEW f \in DepositIds, NEW h \in IntentHashes, Locked(f, h)'
               PROVE  /\ Ours(h)'
                      /\ intents'[h].depositId = f
                      /\ intents'[h].amount = depositIntents'[f][h].amount
    BY DEF LocksHaveRecords
  <2>2. CASE h = new
    <3>1. f = d
      <4>1. ~Locked(f, new)
        BY <1>5 DEF LocksHaveRecords, Ours
      <4> QED
        BY <1>1, <2>1, <2>2, <4>1 DEF Locked, TypeOK
    <3>2. intents'[h] # Orch!NoIntent
      BY <1>4, <2>2, AccountsAssumption DEF Orch!NoIntent
    <3>3. depositIntents'[f][h].amount = amount
      BY <1>1, <2>1, <2>2, <3>1 DEF TypeOK
    <3> QED
      BY <1>4, <1>9, <2>2, <3>1, <3>2, <3>3 DEF Ours, Recorded
  <2>3. CASE h # new
    <3>1. /\ Locked(f, h)
          /\ depositIntents'[f][h] = depositIntents[f][h]
          /\ ~(f = d /\ h \in expired)
      BY <1>1, <2>1, <2>3 DEF Locked, TypeOK
    <3>2. /\ Ours(h) /\ intents[h].depositId = f
          /\ intents[h].amount = depositIntents[f][h].amount
      BY <3>1 DEF LocksHaveRecords
    <3>3. intents'[h] = intents[h]
      BY <1>2, <1>6, <2>3, <3>1, <3>2 DEF LocksHaveRecords
    <3> QED
      BY <3>1, <3>2, <3>3 DEF Ours, Recorded
  <2> QED
    BY <2>2, <2>3
<1> QED
  BY <1>8, <1>9

LEMMA LocksNext ==
    BooksInv /\ LocksHaveRecords /\ [ProtocolNext]_protocolVars => LocksHaveRecords'
<1> SUFFICES ASSUME BooksInv, LocksHaveRecords, [ProtocolNext]_protocolVars
             PROVE  LocksHaveRecords'
  OBVIOUS
<1>1. TypeOK
  BY DEF BooksInv, LedgerInv
<1>2. CASE /\ UNCHANGED intents
           /\ \A d \in DepositIds, h \in IntentHashes :
                 Locked(d, h)' => /\ Locked(d, h)
                                  /\ depositIntents'[d][h].amount = depositIntents[d][h].amount
  BY <1>2, LocksKeepRecords
<1>3. CASE UNCHANGED <<intents, depositIntents>>
  BY <1>2, <1>3 DEF Locked
<1>4. CASE EscrowNext
  <2>1. CASE Manage
    <3>1. UNCHANGED intents /\ ManageNext
      BY <2>1 DEF Manage, orchVars
    <3>2. UNCHANGED depositIntents
      BY <3>1, ManageKeepsLocks
    <3> QED
      BY <1>3, <3>1, <3>2
  <2>2. ASSUME NEW a \in Accounts, NEW d \in DepositIds, NEW amount \in Amounts,
               Remove(a, d, amount)
        PROVE  LocksHaveRecords'
    <3>1. ReclaimIfNecessary(d, amount) \in SUBSET depositIntentHashes[d]
      BY <1>1, ReclaimsOwnLocks
    <3> QED
      BY <2>2, <3>1, ReclaimKeepsRecords DEF Remove, RemoveFunds
  <2>3. ASSUME NEW d \in DepositIds,
               PruneExpired(d) \/ \E a \in Accounts : Withdraw(a, d)
        PROVE  LocksHaveRecords'
    <3>1. ExpiredIntents(d) \in SUBSET depositIntentHashes[d]
      BY <1>1, ReclaimsOwnLocks
    <3>2. DropLocks(d, ExpiredIntents(d)) /\ TryPrune(ExpiredIntents(d))
      BY <2>3 DEF PruneExpired, PruneExpiredIntents, Withdraw, WithdrawDeposit
    <3> QED
      BY <3>1, <3>2, ReclaimKeepsRecords
  <2>4. ASSUME NEW a \in Accounts, NEW d \in DepositIds, NEW h \in IntentHashes,
               NEW time \in 1 .. MaxTime, Extend(a, d, h, time)
        PROVE  LocksHaveRecords'
    <3>1. /\ Locked(d, h) /\ UNCHANGED intents
          /\ depositIntents' = [depositIntents EXCEPT ![d][h].expiryTime = @ + time]
      BY <2>4 DEF Extend, ExtendIntentExpiry, orchVars
    <3>2. \A e \in DepositIds, g \in IntentHashes :
            /\ depositIntents'[e][g].amount = depositIntents[e][g].amount
            /\ <<e, g>> # <<d, h>> => depositIntents'[e][g] = depositIntents[e][g]
      BY <1>1, <3>1 DEF TypeOK, Intent
    <3> QED
      BY <1>2, <3>1, <3>2 DEF Locked
  <2> QED
    BY <1>4, <2>1, <2>2, <2>3, <2>4 DEF EscrowNext
<1>5. ASSUME NEW o \in Orchestrators, NEW e \in OtherEscrows,
             NEW S \in SUBSET IntentHashes, PruneFor(o, e, S)
      PROVE  LocksHaveRecords'
  <2>1. Orch!Prune(o, Orch!Prunable(o, e, S)) /\ UNCHANGED depositIntents
    BY <1>5 DEF PruneFor, Orch!PruneIntents, escrowVars, vars, books
  <2>2. \A h \in IntentHashes : intents'[h] # intents[h] => intents[h].escrow = e
    BY <2>1, PrunedRecords, PrunableIsOwn
  <2>3. e # ThisEscrow
    BY EscrowsAssumption
  <2> QED
    BY <2>1, <2>2, <2>3, LocksKeepRecords DEF Ours, Locked
<1>6. CASE IntentNext
  <2>1. PICK o \in Orchestrators :
        \/ \E a \in Accounts, e \in Escrows, d \in DepositIds, amount \in Amounts,
              m \in PaymentMethods : Signal(o, a, e, d, amount, m)
        \/ \E a \in Accounts, h \in IntentHashes : Cancel(o, a, h)
        \/ \E h \in IntentHashes, att \in Pay!Attestations : Fulfill(o, h, att)
        \/ \E a \in Accounts, h \in IntentHashes : Release(o, a, h)
        \/ \E e \in OtherEscrows, hashes \in SUBSET IntentHashes : PruneFor(o, e, hashes)
    BY <1>6 DEF IntentNext
  <2> QED
    BY <2>1, <1>5, SignalKeepsLocks, EndingKeepsLocks
<1>7. CASE GovernanceNext \/ Pass \/ UNCHANGED protocolVars
  <2>1. UNCHANGED <<intents, depositIntents>>
    BY <1>7 DEF GovernanceNext, Pass, Tick, protocolVars, escrowVars, vars, books, orchVars,
       OwnerNext, SetOrchestrator, SetDustThreshold, SetMaxIntentsPerDeposit,
       SetIntentExpirationPeriod, PauseEscrow, UnpauseEscrow,
       Orch!SetAllowMultipleIntents, Orch!SetAcceptedEscrows, Orch!PauseOrchestrator,
       Orch!UnpauseOrchestrator, Orch!records
  <2> QED
    BY <1>3, <2>1
<1> QED
  BY <1>4, <1>6, <1>7 DEF ProtocolNext

\* Liquidity is under lock only for an intent its orchestrator still knows, on
\* that deposit and for that amount, though the escrow ignores the failure of
\* the calls that report what it reclaimed, its owner may replace the
\* orchestrator at any time, and other escrows report what they like.
THEOREM NoLockOutlivesItsRecord == ProtocolSpec => []LocksHaveRecords
<1>1. ProtocolInit => LocksHaveRecords
  BY DEF ProtocolInit, Init, LocksHaveRecords, Locked
<1> QED
  BY <1>1, LocksNext, BooksInvHolds, PTL DEF ProtocolSpec

-----------------------------------------------------------------------------
(* The life of an intent.                                                    *)

\* What the event log and the minimum kept beside a record promise: an intent
\* that was paid is over, and one on this escrow's funds can be paid in full.
PaidInv ==
    /\ payouts \in [IntentHashes -> Nat]
    /\ intentMinAtSignal \in [IntentHashes -> Nat]
    /\ \A h \in IntentHashes :
          payouts[h] # 0 => ~Recorded(h) /\ h[2] < intentCounter[h[1]]
    /\ \A h \in IntentHashes : Ours(h) => intentMinAtSignal[h] <= intents[h].amount

LifeInv == RecordsInv /\ PaidInv

LEMMA PrunedEntries ==
    ASSUME NEW o, NEW S, Orch!Prune(o, S)
    PROVE  /\ intents' = [h \in IntentHashes |->
                            IF h \in S THEN Orch!NoIntent ELSE intents[h]]
           /\ intentMinAtSignal' = [h \in IntentHashes |->
                            IF h \in S THEN 0 ELSE intentMinAtSignal[h]]
BY HashesAreIssued DEF Orch!Prune

\* Records that go take their terms with them.
LEMMA GoneTerms ==
    ASSUME NEW S \in SUBSET IntentHashes,
           intents' = [h \in IntentHashes |->
                            IF h \in S THEN Orch!NoIntent ELSE intents[h]],
           intentMinAtSignal' = [h \in IntentHashes |->
                            IF h \in S THEN 0 ELSE intentMinAtSignal[h]]
    PROVE  /\ \A h \in S : ~Recorded(h)'
           /\ \A h \in IntentHashes \ S : Recorded(h)' = Recorded(h)
           /\ \A h \in IntentHashes :
                Terms(h)' = IF h \in S THEN [least |-> 0, most |-> 0] ELSE Terms(h)
BY DEF Recorded, Ours, Terms, Orch!NoIntent

LEMMA StatusUnfolds ==
    ASSUME LifeInv, NEW h \in IntentHashes
    PROVE  /\ intentCounter[h[1]] \in Nat /\ h[2] \in Nat
           /\ Recorded(h) => Status(h) = "live"
           /\ intentCounter[h[1]] <= h[2] => Status(h) = "unused"
BY HashParts DEF LifeInv, RecordsInv, Status

\* Dropping recorded intents without a payout.
LEMMA DropRefines ==
    ASSUME LifeInv, NEW S \in SUBSET IntentHashes, \A h \in S : Recorded(h),
           intents' = [h \in IntentHashes |->
                            IF h \in S THEN Orch!NoIntent ELSE intents[h]],
           intentMinAtSignal' = [h \in IntentHashes |->
                            IF h \in S THEN 0 ELSE intentMinAtSignal[h]],
           UNCHANGED <<intentCounter, payouts>>
    PROVE  PaidInv' /\ Lifecycle!Drop(S)
<1>1. \A h \in S : Status(h) = "live"
  BY StatusUnfolds
<1>2. \A h \in IntentHashes : Status(h)' = IF h \in S THEN "dropped" ELSE Status(h)
  <2>1. \A h \in S : ~(intentCounter[h[1]] <= h[2]) /\ ~(payouts[h] > 0)
    BY HashParts DEF LifeInv, RecordsInv, PaidInv
  <2> QED
    BY <2>1, GoneTerms DEF Status
<1>3. \A h \in IntentHashes :
        Terms(h)' = IF h \in S THEN [least |-> 0, most |-> 0] ELSE Terms(h)
  BY GoneTerms
<1>4. Lifecycle!Drop(S)
  BY <1>1, <1>2, <1>3 DEF Lifecycle!Drop, Lifecycle!Live, Lifecycle!Dropping,
     Lifecycle!Forgetting
<1>5. PaidInv'
  <2>1. intentMinAtSignal' \in [IntentHashes -> Nat]
    BY DEF LifeInv, PaidInv
  <2>2. \A h \in IntentHashes : Recorded(h)' => Recorded(h) /\ h \notin S
    BY GoneTerms
  <2>3. \A h \in IntentHashes : Ours(h)' => intentMinAtSignal'[h] <= intents'[h].amount
    BY <2>2 DEF LifeInv, PaidInv, Ours
  <2> QED
    BY <2>1, <2>2, <2>3 DEF LifeInv, PaidInv
<1> QED
  BY <1>4, <1>5

\* Paying a recorded intent within its terms.
LEMMA SettleRefines ==
    ASSUME LifeInv, NEW h \in IntentHashes, Recorded(h), NEW x \in Nat,
           Terms(h).least <= x, x <= Terms(h).most,
           intents' = [g \in IntentHashes |->
                            IF g \in {h} THEN Orch!NoIntent ELSE intents[g]],
           intentMinAtSignal' = [g \in IntentHashes |->
                            IF g \in {h} THEN 0 ELSE intentMinAtSignal[g]],
           payouts' = [payouts EXCEPT ![h] = @ + x],
           UNCHANGED intentCounter
    PROVE  PaidInv' /\ Lifecycle!Next
<1>1. payouts[h] = 0 /\ payouts \in [IntentHashes -> Nat]
  BY DEF LifeInv, PaidInv
<1>a. /\ ~Recorded(h)'
      /\ \A g \in IntentHashes \ {h} : Recorded(g)' = Recorded(g)
      /\ \A g \in IntentHashes :
            Terms(g)' = IF g \in {h} THEN [least |-> 0, most |-> 0] ELSE Terms(g)
  <2>1. {h} \in SUBSET IntentHashes
    OBVIOUS
  <2> QED
    BY <2>1, GoneTerms
<1>2. CASE x = 0
  <2>1. payouts' = payouts
    BY <1>1, <1>2
  <2>2. {h} \in SUBSET IntentHashes
    OBVIOUS
  <2>3. PaidInv' /\ Lifecycle!Drop({h})
    BY <2>1, <2>2, DropRefines
  <2> QED
    BY <2>2, <2>3 DEF Lifecycle!Next
<1>3. CASE x # 0
  <2>1. payouts'[h] = x /\ \A g \in IntentHashes \ {h} : payouts'[g] = payouts[g]
    BY <1>1
  <2>2. Status(h) = "live" /\ ~(intentCounter[h[1]] <= h[2])
    BY StatusUnfolds DEF LifeInv, RecordsInv
  <2>3. \A g \in IntentHashes : Status(g)' = IF g = h THEN "settled" ELSE Status(g)
    BY <1>3, <1>a, <2>1, <2>2 DEF Status
  <2>4. \A g \in IntentHashes :
          Terms(g)' = IF g = h THEN [least |-> 0, most |-> 0] ELSE Terms(g)
    BY <1>a
  <2>5. Terms(h).least \in Int /\ Terms(h).most \in Int
    <3>1. intents[h].amount \in Nat
      BY RecordedParts, NumbersAssumption DEF LifeInv
    <3>2. intentMinAtSignal[h] \in Nat
      BY DEF LifeInv, PaidInv
    <3> QED
      BY <3>1, <3>2 DEF Terms
  <2>6. Lifecycle!Settle(h)
    <3>1. x \in Terms(h).least .. Terms(h).most
      BY <2>5
    <3>2. payouts' = [payouts EXCEPT ![h] = payouts'[h]]
      BY <1>1, <2>1
    <3> QED
      BY <2>1, <2>2, <2>3, <2>4, <3>1, <3>2 DEF Lifecycle!Settle, Lifecycle!Live
  <2>7. PaidInv'
    <3>1. /\ payouts' \in [IntentHashes -> Nat]
          /\ intentMinAtSignal' \in [IntentHashes -> Nat]
      BY <1>1 DEF LifeInv, PaidInv
    <3>2. \A g \in IntentHashes : Recorded(g)' => Recorded(g) /\ g # h
      BY <1>a
    <3>3. \A g \in IntentHashes : Ours(g)' => intentMinAtSignal'[g] <= intents'[g].amount
      BY <3>2 DEF LifeInv, PaidInv, Ours
    <3>4. \A g \in IntentHashes :
            payouts'[g] # 0 => ~Recorded(g)' /\ g[2] < intentCounter'[g[1]]
      <4>1. h[2] < intentCounter[h[1]]
        BY DEF LifeInv, RecordsInv
      <4> QED
        BY <2>1, <3>2, <4>1 DEF LifeInv, PaidInv
    <3> QED
      BY <3>1, <3>3, <3>4 DEF PaidInv
  <2> QED
    BY <2>6, <2>7 DEF Lifecycle!Next
<1> QED
  BY <1>2, <1>3

\* Signaling an intent, while the escrow reports the ones it reclaimed for it.
LEMMA SignalRefines ==
    ASSUME BooksInv, LifeInv, NEW o \in Orchestrators, NEW a \in Accounts,
           NEW e \in Escrows, NEW d \in DepositIds, NEW amount \in Amounts,
           NEW m \in PaymentMethods, Signal(o, a, e, d, amount, m)
    PROVE  PaidInv' /\ Lifecycle!Next
<1>0. PICK new : new = Orch!NextHash(o)
  OBVIOUS
<1> DEFINE expired == IF e = ThisEscrow THEN ReclaimIfNecessary(d, amount) ELSE {}
           record == [owner |-> a, escrow |-> e, depositId |-> d,
                      amount |-> amount, paymentMethod |-> m]
<1>1. TypeOK /\ RecordsInv
  BY DEF BooksInv, LedgerInv
<1>2. expired \in SUBSET IntentHashes
  BY <1>1, ReclaimsOwnLocks
<1>3. PICK pruned \in {expired, {}},
           min \in IF e = ThisEscrow THEN {deposits[d].min} ELSE Amounts \cup {0} :
        Orch!SignalIntent(o, a, e, d, amount, m, min, pruned)
  BY DEF Signal
<1> DEFINE P == Orch!Prunable(o, e, pruned)
<1>4. /\ intentCounter[o] < MaxIntents
      /\ intents' = [h \in IntentHashes |->
            IF h = new THEN record
            ELSE IF h \in P THEN Orch!NoIntent ELSE intents[h]]
      /\ intentMinAtSignal' = [h \in IntentHashes |->
            IF h = new THEN min ELSE IF h \in P THEN 0 ELSE intentMinAtSignal[h]]
      /\ intentCounter' = [intentCounter EXCEPT ![o] = @ + 1]
      /\ UNCHANGED payouts
  BY <1>0, <1>3, HashesAreIssued DEF Orch!SignalIntent, Signal, log
<1>5. /\ new \in IntentHashes /\ ~Recorded(new)
      /\ new[1] = o /\ new[2] = intentCounter[o]
      /\ new = <<o, intentCounter[o]>>
  BY <1>0, <1>1, <1>4, NextHashIsFresh DEF Orch!NextHash
<1>6. P \in SUBSET IntentHashes /\ \A h \in P : Recorded(h) /\ h # new
  BY <1>2, <1>3, <1>5, PrunableIsOwn
<1>7. min \in Nat /\ amount \in Nat /\ (e = ThisEscrow => min <= amount)
  <2>1. deposits[d].min \in Nat
    BY <1>1 DEF TypeOK, Deposit
  <2>2. e = ThisEscrow => deposits[d].min <= amount
    BY DEF Signal, At, LockFunds
  <2>3. CASE e = ThisEscrow
    <3>1. min = deposits[d].min
      BY <2>3
    <3> QED
      BY <2>1, <2>2, <2>3, <3>1, NumbersAssumption
  <2>4. CASE e # ThisEscrow
    <3>1. min \in Amounts \cup {0}
      BY <2>4
    <3> QED
      BY <2>4, <3>1, NumbersAssumption
  <2> QED
    BY <2>3, <2>4
<1>8. record # Orch!NoIntent /\ record.escrow = e /\ record.amount = amount
  BY AccountsAssumption DEF Orch!NoIntent
<1> HIDE DEF expired, record, P
<1>9. \A h \in IntentHashes :
        /\ Recorded(h)' <=> h = new \/ (Recorded(h) /\ h \notin P)
        /\ h # new /\ h \notin P => Terms(h)' = Terms(h)
        /\ h # new /\ h \in P => Terms(h)' = [least |-> 0, most |-> 0]
  BY <1>4, <1>8 DEF Recorded, Ours, Terms, Orch!NoIntent
<1>10. \A h \in IntentHashes : h # new =>
         (intentCounter'[h[1]] <= h[2] <=> intentCounter[h[1]] <= h[2])
  <2> SUFFICES ASSUME NEW h \in IntentHashes, h # new
               PROVE  intentCounter'[h[1]] <= h[2] <=> intentCounter[h[1]] <= h[2]
    OBVIOUS
  <2>1. h[1] \in Orchestrators /\ h[2] \in Nat /\ h = <<h[1], h[2]>>
    BY HashesAreIssued, MaxIntentsAssumption DEF Orch!IssuedHashes
  <2>2. intentCounter[h[1]] \in Nat /\ intentCounter \in [Orchestrators -> Nat]
    BY <1>1, <2>1 DEF RecordsInv
  <2>3. CASE h[1] = o
    <3>1. h[2] # intentCounter[o]
      BY <1>5, <2>1, <2>3
    <3>2. intentCounter'[h[1]] = intentCounter[h[1]] + 1
      BY <1>4, <2>2, <2>3
    <3> QED
      BY <2>1, <2>2, <2>3, <3>1, <3>2
  <2>4. CASE h[1] # o
    BY <1>4, <2>1, <2>2, <2>4
  <2> QED
    BY <2>3, <2>4
<1>11. /\ Status(new) = "unused" /\ Status(new)' = "live"
       /\ intentCounter[o] \in Nat /\ intentCounter'[o] = intentCounter[o] + 1
  <2>1. intentCounter[o] \in Nat /\ intentCounter'[o] = intentCounter[o] + 1
    BY <1>1, <1>4 DEF RecordsInv
  <2> QED
    BY <1>5, <1>9, <2>1 DEF Status
<1>12. \A h \in P : Status(h) = "live" /\ Status(h)' = "dropped"
  <2>1. \A h \in P : ~(intentCounter[h[1]] <= h[2]) /\ payouts[h] = 0
    BY <1>6, HashParts DEF LifeInv, RecordsInv, PaidInv
  <2> QED
    BY <1>4, <1>6, <1>9, <1>10, <2>1 DEF Status
<1>13. \A h \in IntentHashes : h # new /\ h \notin P => Status(h)' = Status(h)
  BY <1>4, <1>9, <1>10 DEF Status
<1>14. Terms(new)'.least <= Terms(new)'.most
  BY <1>4, <1>5, <1>7, <1>8 DEF Terms, Ours, Recorded
<1>15. Lifecycle!Signal(new, P)
  BY <1>4, <1>5, <1>6, <1>9, <1>11, <1>12, <1>13, <1>14
  DEF Lifecycle!Signal, Lifecycle!Live, Lifecycle!Dropping, Lifecycle!Forgetting
<1>16. PaidInv'
  <2>1. /\ payouts' \in [IntentHashes -> Nat]
        /\ intentMinAtSignal' \in [IntentHashes -> Nat]
    BY <1>4, <1>7 DEF LifeInv, PaidInv
  <2>2. \A h \in IntentHashes : Ours(h)' => intentMinAtSignal'[h] <= intents'[h].amount
    BY <1>4, <1>7, <1>8, <1>9 DEF LifeInv, PaidInv, Ours
  <2>3. payouts[new] = 0
    <3>1. ~(new[2] < intentCounter[new[1]])
      BY <1>5, <1>11
    <3> QED
      BY <1>5, <3>1 DEF LifeInv, PaidInv
  <2>4. ASSUME NEW h \in IntentHashes, payouts'[h] # 0
        PROVE  ~Recorded(h)' /\ h[2] < intentCounter'[h[1]]
    <3>1. h # new /\ ~Recorded(h) /\ h[2] < intentCounter[h[1]]
      BY <1>4, <2>3, <2>4 DEF LifeInv, PaidInv
    <3>2. h[1] \in Orchestrators /\ h[2] \in Nat
      BY HashParts
    <3> QED
      BY <1>1, <1>4, <1>9, <3>1, <3>2 DEF RecordsInv
  <2> QED
    BY <2>1, <2>2, <2>4 DEF PaidInv
<1> QED
  BY <1>5, <1>6, <1>15, <1>16 DEF Lifecycle!Next

\* Steps after which nothing can be told of any intent that could not before.
LEMMA UntouchedLives ==
    ASSUME LifeInv, UNCHANGED <<intents, intentMinAtSignal, intentCounter, payouts>>
    PROVE  PaidInv' /\ [Lifecycle!Next]_Lifecycle!vars
<1>1. \A h \in IntentHashes : Status(h)' = Status(h) /\ Terms(h)' = Terms(h)
  BY DEF Status, Terms, Recorded, Ours
<1> QED
  BY <1>1 DEF LifeInv, PaidInv, Recorded, Ours, Lifecycle!vars

LEMMA PruneRefines ==
    ASSUME LifeInv, NEW o, NEW e, NEW S \in SUBSET IntentHashes,
           Orch!PruneIntents(o, e, S), UNCHANGED payouts
    PROVE  PaidInv' /\ [Lifecycle!Next]_Lifecycle!vars
<1> DEFINE P == Orch!Prunable(o, e, S)
<1>1. P \in SUBSET IntentHashes /\ \A h \in P : Recorded(h)
  BY PrunableIsOwn
<1>2. Orch!Prune(o, P) /\ UNCHANGED intentCounter
  BY DEF Orch!PruneIntents
<1> HIDE DEF P
<1>3. PaidInv' /\ Lifecycle!Drop(P)
  BY <1>1, <1>2, PrunedEntries, DropRefines
<1> QED
  BY <1>1, <1>3 DEF Lifecycle!Next

LEMMA EndingRefines ==
    ASSUME BooksInv, LifeInv, NEW o \in Orchestrators, NEW h \in IntentHashes,
           \/ \E a \in Accounts : Cancel(o, a, h) \/ Release(o, a, h)
           \/ \E att \in Pay!Attestations : Fulfill(o, h, att)
    PROVE  PaidInv' /\ [Lifecycle!Next]_Lifecycle!vars
<1>1. /\ Recorded(h)
      /\ Orch!Prune(o, {h})
      /\ UNCHANGED intentCounter
  BY DEF Cancel, Release, Fulfill, Orch!CancelIntent, Orch!ReleaseFundsToPayer,
     Orch!FulfillIntent, Orch!Recorded, Recorded
<1>2. RecordsInv /\ PaidInv /\ intents[h].amount \in Nat /\ {h} \in SUBSET IntentHashes
  BY <1>1, RecordedParts, NumbersAssumption DEF BooksInv, LifeInv
<1>3. CASE \E a \in Accounts : Cancel(o, a, h)
  <2>1. UNCHANGED payouts
    BY <1>3 DEF Cancel, log
  <2>2. PaidInv' /\ Lifecycle!Drop({h})
    BY <1>1, <1>2, <2>1, PrunedEntries, DropRefines
  <2> QED
    BY <1>2, <2>2 DEF Lifecycle!Next
<1>4. ASSUME NEW x \in Nat, payouts' = [payouts EXCEPT ![h] = @ + x],
             Terms(h).least <= x, x <= Terms(h).most
      PROVE  PaidInv' /\ Lifecycle!Next
  <2>1. /\ intents' = [g \in IntentHashes |->
                            IF g \in {h} THEN Orch!NoIntent ELSE intents[g]]
        /\ intentMinAtSignal' = [g \in IntentHashes |->
                            IF g \in {h} THEN 0 ELSE intentMinAtSignal[g]]
    BY <1>1, PrunedEntries
  <2> QED
    BY <1>1, <1>4, <2>1, SettleRefines
<1>5. CASE \E a \in Accounts : Release(o, a, h)
  <2>1. payouts' = [payouts EXCEPT ![h] = @ + intents[h].amount]
    BY <1>5 DEF Release
  <2>2. Terms(h).least <= intents[h].amount /\ intents[h].amount <= Terms(h).most
    BY <1>2 DEF Terms, PaidInv
  <2> QED
    BY <1>2, <1>4, <2>1, <2>2
<1>6. CASE \E att \in Pay!Attestations : Fulfill(o, h, att)
  <2>1. PICK att \in Pay!Attestations : Fulfill(o, h, att)
    BY <1>6
  <2> DEFINE x == Pay!ReleaseAmount(att)
  <2>2. /\ payouts' = [payouts EXCEPT ![h] = @ + x]
        /\ att.snapshot.amount = intents[h].amount
        /\ intentMinAtSignal[h] > 0 => x >= intentMinAtSignal[h]
    BY <2>1 DEF Fulfill, Pay!VerifyPayment, Orch!FulfillIntent, Orch!MeetsMinimum
  <2>3. x \in Nat
    BY ReleasesAnAmount, NumbersAssumption
  <2>4. x <= intents[h].amount
    <3>1. att.releaseAmount \in Nat
      BY NumbersAssumption DEF Pay!Attestations
    <3> QED
      BY <1>2, <2>2, <3>1 DEF Pay!ReleaseAmount
  <2>5. intentMinAtSignal[h] \in Nat
    BY <1>2 DEF PaidInv
  <2> HIDE DEF x
  <2>6. Terms(h).least <= x /\ x <= Terms(h).most
    BY <2>2, <2>3, <2>4, <2>5 DEF Terms
  <2> QED
    BY <1>4, <2>2, <2>3, <2>6
<1> QED
  BY <1>3, <1>5, <1>6

LEMMA LifeNext ==
    BooksInv /\ LifeInv /\ [ProtocolNext]_protocolVars =>
        PaidInv' /\ [Lifecycle!Next]_Lifecycle!vars
<1> SUFFICES ASSUME BooksInv, LifeInv, [ProtocolNext]_protocolVars
             PROVE  PaidInv' /\ [Lifecycle!Next]_Lifecycle!vars
  OBVIOUS
<1>1. TypeOK
  BY DEF BooksInv, LedgerInv
<1>2. ASSUME NEW S \in SUBSET IntentHashes, TryPrune(S), UNCHANGED payouts
      PROVE  PaidInv' /\ [Lifecycle!Next]_Lifecycle!vars
  <2>1. CASE UNCHANGED orchVars
    BY <1>2, <2>1, UntouchedLives DEF orchVars
  <2>2. CASE Orch!PruneIntents(orchestrator, ThisEscrow, S)
    BY <1>2, <2>2, PruneRefines
  <2> QED
    BY <1>2, <2>1, <2>2 DEF TryPrune
<1>3. CASE EscrowNext
  <2>1. CASE \/ Manage
             \/ \E a \in Accounts, d \in DepositIds, h \in IntentHashes,
                   time \in 1 .. MaxTime : Extend(a, d, h, time)
    BY <2>1, UntouchedLives DEF Manage, Extend, orchVars, log
  <2>2. ASSUME NEW d \in DepositIds, NEW amount \in Amounts, NEW a \in Accounts,
               Remove(a, d, amount)
        PROVE  PaidInv' /\ [Lifecycle!Next]_Lifecycle!vars
    <3>1. ReclaimIfNecessary(d, amount) \in SUBSET IntentHashes
      BY <1>1, ReclaimsOwnLocks
    <3> QED
      BY <1>2, <2>2, <3>1 DEF Remove, log
  <2>3. ASSUME NEW d \in DepositIds,
               PruneExpired(d) \/ \E a \in Accounts : Withdraw(a, d)
        PROVE  PaidInv' /\ [Lifecycle!Next]_Lifecycle!vars
    <3>1. ExpiredIntents(d) \in SUBSET IntentHashes
      BY <1>1, ReclaimsOwnLocks
    <3> QED
      BY <1>2, <2>3, <3>1 DEF PruneExpired, Withdraw, log
  <2> QED
    BY <1>3, <2>1, <2>2, <2>3 DEF EscrowNext
<1>4. CASE IntentNext
  <2>1. PICK o \in Orchestrators :
        \/ \E a \in Accounts, e \in Escrows, d \in DepositIds, amount \in Amounts,
              m \in PaymentMethods : Signal(o, a, e, d, amount, m)
        \/ \E a \in Accounts, h \in IntentHashes : Cancel(o, a, h)
        \/ \E h \in IntentHashes, att \in Pay!Attestations : Fulfill(o, h, att)
        \/ \E a \in Accounts, h \in IntentHashes : Release(o, a, h)
        \/ \E e \in OtherEscrows, hashes \in SUBSET IntentHashes : PruneFor(o, e, hashes)
    BY <1>4 DEF IntentNext
  <2>2. CASE \E e \in OtherEscrows, hashes \in SUBSET IntentHashes : PruneFor(o, e, hashes)
    BY <2>2, PruneRefines DEF PruneFor, log
  <2> QED
    BY <2>1, <2>2, SignalRefines, EndingRefines
<1>5. CASE GovernanceNext \/ Pass \/ UNCHANGED protocolVars
  <2>1. UNCHANGED <<intents, intentMinAtSignal, intentCounter, payouts>>
    BY <1>5 DEF GovernanceNext, Pass, protocolVars, orchVars, log,
       Orch!SetAllowMultipleIntents, Orch!SetAcceptedEscrows, Orch!PauseOrchestrator,
       Orch!UnpauseOrchestrator, Orch!records
  <2> QED
    BY <2>1, UntouchedLives
<1> QED
  BY <1>3, <1>4, <1>5 DEF ProtocolNext

LEMMA LifeInit == ProtocolInit => LifeInv /\ Lifecycle!Init
<1> SUFFICES ASSUME ProtocolInit PROVE LifeInv /\ Lifecycle!Init
  OBVIOUS
<1>1. /\ intents = [h \in IntentHashes |-> Orch!NoIntent]
      /\ intentMinAtSignal = [h \in IntentHashes |-> 0]
      /\ intentCounter = [o \in Orchestrators |-> 0]
      /\ payouts = [h \in IntentHashes |-> 0]
  BY HashesAreIssued DEF ProtocolInit, Orch!Init
<1>2. PaidInv
  BY <1>1 DEF PaidInv, Ours, Recorded
<1>3. \A h \in IntentHashes :
        Status(h) = "unused" /\ Terms(h) = [least |-> 0, most |-> 0]
  BY <1>1, HashParts DEF Status, Terms, Ours, Recorded, Orch!NoIntent
<1>4. RecordsInv
  BY RecordsInit DEF ProtocolInit
<1> QED
  BY <1>1, <1>2, <1>3, <1>4 DEF LifeInv, Lifecycle!Init

LEMMA LifeInvHolds == ProtocolSpec => [](BooksInv /\ PaidInv)
<1>1. BooksInv /\ PaidInv /\ [ProtocolNext]_protocolVars => PaidInv'
  BY LifeNext DEF BooksInv, LifeInv
<1> QED
  BY <1>1, LifeInit, BooksInvHolds, PTL DEF ProtocolSpec, LifeInv

\* Across the escrow, the orchestrators, the verifiers and other escrows, an
\* intent is signaled once, ends once, and is paid at most once and within the
\* terms it was signaled on.
THEOREM IntentsLiveOnce == ProtocolSpec => ImplementsLifecycle
<1>1. BooksInv /\ PaidInv /\ [ProtocolNext]_protocolVars
        => [Lifecycle!Next]_Lifecycle!vars
  BY LifeNext DEF BooksInv, LifeInv
<1> QED
  BY <1>1, LifeInit, LifeInvHolds, PTL
  DEF ProtocolSpec, ImplementsLifecycle, Lifecycle!Spec

-----------------------------------------------------------------------------
(* No record outlives its lock, under one orchestrator.                      *)
(* The other direction needs two things the code cannot promise: that the    *)
(* call that reports reclaimed locks succeeds, and that it goes to the        *)
(* orchestrator that keeps the record, which is the one installed only as    *)
(* long as the owner does not replace it.  Under these every recorded intent  *)
(* belongs to the installed orchestrator and has its lock.                    *)

\* The owner of the escrow does not call setOrchestrator.
OneOrchestrator == [][orchestrator' = orchestrator]_orchestrator

RecordsOwned == \A h \in IntentHashes : Ours(h) => h[1] = orchestrator

\* No record on this escrow's funds is new, and none that stays loses its lock.
LEMMA RecordsKeepLocks ==
    ASSUME RecordsOwned, RecordsHaveLocks, orchestrator' = orchestrator,
           \A h \in IntentHashes : Ours(h)' =>
              /\ Ours(h) /\ intents'[h] = intents[h]
              /\ \A d \in DepositIds :
                    Locked(d, h) /\ intents[h].depositId = d => Locked(d, h)',
           RecordsInv
    PROVE  RecordsOwned' /\ RecordsHaveLocks'
<1>1. RecordsOwned'
  BY DEF RecordsOwned
<1>2. ASSUME NEW h \in IntentHashes, Ours(h)'
      PROVE  Locked(intents[h].depositId, h)'
  <2>1. PICK d \in DepositIds : d = intents[h].depositId
    BY <1>2, RecordedParts DEF Ours
  <2>2. Locked(d, h) /\ intents'[h].depositId = d
    BY <1>2, <2>1 DEF RecordsHaveLocks
  <2>3. Locked(d, h)'
    BY <1>2, <2>1, <2>2
  <2> QED
    BY <2>2, <2>3 DEF Locked
<1> QED
  BY <1>1, <1>2 DEF RecordsHaveLocks

\* A record and its lock go together when the report arrives.
LEMMA ReclaimKeepsOwned ==
    ASSUME BooksInv, RecordsOwned, RecordsHaveLocks, orchestrator' = orchestrator,
           PruneMayFail = FALSE, NEW d \in DepositIds,
           NEW S \in SUBSET depositIntentHashes[d], DropLocks(d, S), TryPrune(S)
    PROVE  RecordsOwned' /\ RecordsHaveLocks'
<1>1. TypeOK /\ RecordsInv
  BY DEF BooksInv, LedgerInv
<1>2. S \in SUBSET IntentHashes
  BY <1>1 DEF TypeOK
<1>3. Orch!Prune(orchestrator, Orch!Prunable(orchestrator, ThisEscrow, S))
  BY DEF TryPrune, Orch!PruneIntents
<1>4. ASSUME NEW h \in IntentHashes, Ours(h)'
      PROVE  /\ Ours(h) /\ intents'[h] = intents[h]
             /\ h \notin S
  <2>1. /\ h \notin Orch!Prunable(orchestrator, ThisEscrow, S)
        /\ intents'[h] = intents[h]
    BY <1>3, <1>4, PrunedRecords DEF Ours, Recorded
  <2>2. Ours(h)
    BY <1>4, <2>1 DEF Ours, Recorded
  <2>3. h[1] = orchestrator
    BY <2>2 DEF RecordsOwned
  <2> QED
    BY <2>1, <2>2, <2>3 DEF Orch!Prunable, Orch!Recorded, Ours, Recorded
<1>5. \A e \in DepositIds, h \in IntentHashes : h \notin S => (Locked(e, h) => Locked(e, h)')
  BY <1>1, <1>2 DEF DropLocks, TypeOK, Locked
<1> QED
  BY <1>1, <1>4, <1>5, RecordsKeepLocks

LEMMA EndingKeepsOwned ==
    ASSUME BooksInv, RecordsOwned, RecordsHaveLocks, orchestrator' = orchestrator,
           NEW o \in Orchestrators, NEW h \in IntentHashes,
           \/ \E a \in Accounts : Cancel(o, a, h) \/ Release(o, a, h)
           \/ \E att \in Pay!Attestations : Fulfill(o, h, att)
    PROVE  RecordsOwned' /\ RecordsHaveLocks'
<1> DEFINE d == intents[h].depositId
<1>1. Recorded(h) /\ Orch!Prune(o, {h})
  BY DEF Cancel, Release, Fulfill, Orch!CancelIntent, Orch!ReleaseFundsToPayer,
     Orch!FulfillIntent, Orch!Recorded, Recorded
<1>2. TypeOK /\ RecordsInv /\ d \in DepositIds
  BY <1>1, RecordedParts DEF BooksInv, LedgerInv
<1>3. DropLocks(d, {h}) \/ UNCHANGED depositIntents
  BY DEF Cancel, Release, Fulfill, At, escrowVars, vars, books, UnlockFunds,
     UnlockAndTransferFunds
<1> HIDE DEF d
<1>4. \A g \in IntentHashes : intents'[g] = IF g = h THEN Orch!NoIntent ELSE intents[g]
  BY <1>1, PrunedRecords
<1>5. \A e \in DepositIds, g \in IntentHashes : g # h => (Locked(e, g) => Locked(e, g)')
  BY <1>2, <1>3 DEF DropLocks, TypeOK, Locked
<1>6. \A g \in IntentHashes : Ours(g)' => g # h /\ Ours(g) /\ intents'[g] = intents[g]
  BY <1>4 DEF Ours, Recorded
<1> QED
  BY <1>2, <1>5, <1>6, RecordsKeepLocks

LEMMA SignalKeepsOwned ==
    ASSUME BooksInv, RecordsOwned, RecordsHaveLocks, orchestrator' = orchestrator,
           PruneMayFail = FALSE, NEW o \in Orchestrators, NEW a \in Accounts,
           NEW e \in Escrows, NEW d \in DepositIds, NEW amount \in Amounts,
           NEW m \in PaymentMethods, Signal(o, a, e, d, amount, m)
    PROVE  RecordsOwned' /\ RecordsHaveLocks'
<1>0. PICK new : new = Orch!NextHash(o)
  OBVIOUS
<1> DEFINE expired == IF e = ThisEscrow THEN ReclaimIfNecessary(d, amount) ELSE {}
<1>1. TypeOK /\ RecordsInv /\ LocksAgree(d)
  BY DEF BooksInv, LedgerInv
<1>2. expired \in SUBSET IntentHashes
  BY <1>1, ReclaimsOwnLocks
<1>3. \E min : Orch!SignalIntent(o, a, e, d, amount, m, min, expired)
  BY DEF Signal
<1>4. /\ intentCounter[o] < MaxIntents
      /\ \A h \in IntentHashes : intents'[h] =
            IF h = new
            THEN [owner |-> a, escrow |-> e, depositId |-> d,
                  amount |-> amount, paymentMethod |-> m]
            ELSE IF h \in Orch!Prunable(o, e, expired) THEN Orch!NoIntent ELSE intents[h]
  BY <1>0, <1>3, HashesAreIssued DEF Orch!SignalIntent
<1>5. new \in IntentHashes /\ ~Recorded(new) /\ new[1] = o
  BY <1>0, <1>1, <1>4, NextHashIsFresh
<1>6. At(e, LockFunds(o, d, new, amount))
  BY <1>0 DEF Signal
<1>7. \A h \in IntentHashes : h # new /\ Ours(h)' =>
        /\ Ours(h) /\ intents'[h] = intents[h]
        /\ h \notin Orch!Prunable(o, e, expired)
  BY <1>4 DEF Ours, Recorded
<1>8. CASE e # ThisEscrow
  <2>1. UNCHANGED depositIntents
    BY <1>6, <1>8 DEF At, escrowVars, vars, books
  <2>2. ~Ours(new)'
    BY <1>4, <1>5, <1>8 DEF Ours
  <2> QED
    BY <1>1, <1>7, <2>1, <2>2, RecordsKeepLocks DEF Locked
<1>9. CASE e = ThisEscrow
  <2>1. /\ o = orchestrator
        /\ depositIntents' = [depositIntents EXCEPT ![d] =
            [g \in IntentHashes |->
                IF g = new
                THEN [amount |-> amount, timestamp |-> now,
                      expiryTime |-> now + intentExpirationPeriod]
                ELSE IF g \in expired THEN NoIntent ELSE @[g]]]
    BY <1>6, <1>9 DEF At, LockFunds
  <2> HIDE DEF expired
  <2>2. ASSUME NEW h \in IntentHashes, h # new, Ours(h)'
        PROVE  /\ h[1] = orchestrator
               /\ \A f \in DepositIds : Locked(f, h) => Locked(f, h)'
    <3>1. Ours(h) /\ h[1] = orchestrator
      BY <1>7, <2>2 DEF RecordsOwned
    <3>2. h \notin expired
      BY <1>7, <1>9, <2>1, <2>2, <3>1 DEF Orch!Prunable, Orch!Recorded, Ours, Recorded
    <3> QED
      BY <1>1, <2>1, <2>2, <3>1, <3>2 DEF Locked, TypeOK
  <2>3. intents'[new].depositId = d
    BY <1>4, <1>5
  <2>4. Locked(d, new)'
    <3>1. now # 0 /\ depositIntents'[d][new].timestamp = now
      BY <1>1, <1>5, <2>1 DEF TypeOK
    <3> QED
      BY <3>1 DEF Locked, NoIntent
  <2>5. RecordsOwned'
    BY <1>5, <2>1, <2>2 DEF RecordsOwned
  <2>6. ASSUME NEW h \in IntentHashes, Ours(h)'
        PROVE  Locked(intents[h].depositId, h)'
    <3>1. CASE h = new
      BY <2>3, <2>4, <3>1 DEF Locked
    <3>2. CASE h # new
      <4>1. Ours(h) /\ intents'[h] = intents[h]
        BY <1>7, <2>6, <3>2
      <4>2. PICK f \in DepositIds : f = intents[h].depositId
        BY <1>1, <4>1, RecordedParts DEF Ours
      <4>3. Locked(f, h)'
        BY <2>2, <2>6, <3>2, <4>1, <4>2 DEF RecordsHaveLocks
      <4> QED
        BY <4>1, <4>2, <4>3 DEF Locked
    <3> QED
      BY <3>1, <3>2
  <2> QED
    BY <2>5, <2>6 DEF RecordsHaveLocks
<1> QED
  BY <1>8, <1>9

LEMMA OwnedNext ==
    ASSUME PruneMayFail = FALSE
    PROVE  /\ BooksInv /\ RecordsOwned /\ RecordsHaveLocks
           /\ [ProtocolNext]_protocolVars
           /\ [orchestrator' = orchestrator]_orchestrator
           => RecordsOwned' /\ RecordsHaveLocks'
<1> SUFFICES ASSUME BooksInv, RecordsOwned, RecordsHaveLocks,
                    [ProtocolNext]_protocolVars, orchestrator' = orchestrator
             PROVE  RecordsOwned' /\ RecordsHaveLocks'
  OBVIOUS
<1>1. TypeOK /\ RecordsInv /\ \A d \in DepositIds : LocksAgree(d)
  BY DEF BooksInv, LedgerInv
<1>2. CASE UNCHANGED <<intents, depositIntents>>
  BY <1>1, <1>2, RecordsKeepLocks DEF Ours, Recorded, Locked
<1>3. CASE EscrowNext
  <2>1. CASE Manage
    <3>1. UNCHANGED intents /\ ManageNext
      BY <2>1 DEF Manage, orchVars
    <3>2. UNCHANGED depositIntents
      BY <3>1, ManageKeepsLocks
    <3> QED
      BY <1>2, <3>1, <3>2
  <2>2. ASSUME NEW a \in Accounts, NEW d \in DepositIds, NEW amount \in Amounts,
               Remove(a, d, amount)
        PROVE  RecordsOwned' /\ RecordsHaveLocks'
    <3>1. ReclaimIfNecessary(d, amount) \in SUBSET depositIntentHashes[d]
      BY <1>1, ReclaimsOwnLocks
    <3> QED
      BY <2>2, <3>1, ReclaimKeepsOwned DEF Remove, RemoveFunds
  <2>3. ASSUME NEW d \in DepositIds,
               PruneExpired(d) \/ \E a \in Accounts : Withdraw(a, d)
        PROVE  RecordsOwned' /\ RecordsHaveLocks'
    <3>1. ExpiredIntents(d) \in SUBSET depositIntentHashes[d]
      BY <1>1, ReclaimsOwnLocks
    <3>2. DropLocks(d, ExpiredIntents(d)) /\ TryPrune(ExpiredIntents(d))
      BY <2>3 DEF PruneExpired, PruneExpiredIntents, Withdraw, WithdrawDeposit
    <3> QED
      BY <3>1, <3>2, ReclaimKeepsOwned
  <2>4. ASSUME NEW a \in Accounts, NEW d \in DepositIds, NEW h \in IntentHashes,
               NEW time \in 1 .. MaxTime, Extend(a, d, h, time)
        PROVE  RecordsOwned' /\ RecordsHaveLocks'
    <3>1. /\ UNCHANGED intents
          /\ depositIntents' = [depositIntents EXCEPT ![d][h].expiryTime = @ + time]
      BY <2>4 DEF Extend, ExtendIntentExpiry, orchVars
    <3>2. \A e \in DepositIds, g \in IntentHashes :
            depositIntents'[e][g].amount = depositIntents[e][g].amount
      BY <1>1, <3>1 DEF TypeOK, Intent
    <3>3. \A e \in DepositIds, g \in IntentHashes : Locked(e, g) => Locked(e, g)'
      BY <1>1, <3>2 DEF LocksAgree, Locked, NoIntent
    <3> QED
      BY <1>1, <3>1, <3>3, RecordsKeepLocks DEF Ours, Recorded
  <2> QED
    BY <1>3, <2>1, <2>2, <2>3, <2>4 DEF EscrowNext
<1>4. ASSUME NEW o \in Orchestrators, NEW e \in OtherEscrows,
             NEW S \in SUBSET IntentHashes, PruneFor(o, e, S)
      PROVE  RecordsOwned' /\ RecordsHaveLocks'
  <2>1. Orch!Prune(o, Orch!Prunable(o, e, S)) /\ UNCHANGED depositIntents
    BY <1>4 DEF PruneFor, Orch!PruneIntents, escrowVars, vars, books
  <2>2. \A h \in IntentHashes : Ours(h)' => Ours(h) /\ intents'[h] = intents[h]
    BY <2>1, PrunedRecords DEF Ours, Recorded
  <2> QED
    BY <1>1, <2>1, <2>2, RecordsKeepLocks DEF Locked
<1>5. CASE IntentNext
  <2>1. PICK o \in Orchestrators :
        \/ \E a \in Accounts, e \in Escrows, d \in DepositIds, amount \in Amounts,
              m \in PaymentMethods : Signal(o, a, e, d, amount, m)
        \/ \E a \in Accounts, h \in IntentHashes : Cancel(o, a, h)
        \/ \E h \in IntentHashes, att \in Pay!Attestations : Fulfill(o, h, att)
        \/ \E a \in Accounts, h \in IntentHashes : Release(o, a, h)
        \/ \E e \in OtherEscrows, hashes \in SUBSET IntentHashes : PruneFor(o, e, hashes)
    BY <1>5 DEF IntentNext
  <2> QED
    BY <2>1, <1>4, SignalKeepsOwned, EndingKeepsOwned
<1>6. CASE GovernanceNext \/ Pass \/ UNCHANGED protocolVars
  <2>1. UNCHANGED <<intents, depositIntents>>
    BY <1>6 DEF GovernanceNext, Pass, Tick, protocolVars, escrowVars, vars, books, orchVars,
       OwnerNext, SetOrchestrator, SetDustThreshold, SetMaxIntentsPerDeposit,
       SetIntentExpirationPeriod, PauseEscrow, UnpauseEscrow,
       Orch!SetAllowMultipleIntents, Orch!SetAcceptedEscrows, Orch!PauseOrchestrator,
       Orch!UnpauseOrchestrator, Orch!records
  <2> QED
    BY <1>2, <2>1
<1> QED
  BY <1>3, <1>5, <1>6 DEF ProtocolNext

LEMMA OwnedInit == Orch!Init => RecordsOwned /\ RecordsHaveLocks
BY HashesAreIssued DEF Orch!Init, RecordsOwned, RecordsHaveLocks, Ours, Recorded

\* Every intent on record against this escrow has its lock there: whenever the
\* escrow drops one it also deletes the record, "on the orchestrator contract"
\* (_reclaimLiquidityIfNecessary).  Both hypotheses are needed: the call is made
\* in a try whose failure is ignored, and goes to the orchestrator installed at
\* the time, which need not be the one that keeps the record.
THEOREM NoRecordOutlivesItsLock ==
    ASSUME PruneMayFail = FALSE
    PROVE  ProtocolSpec /\ OneOrchestrator => []RecordsHaveLocks
<1>1. ProtocolInit => RecordsOwned /\ RecordsHaveLocks
  BY OwnedInit DEF ProtocolInit
<1> QED
  BY <1>1, OwnedNext, BooksInvHolds, PTL DEF ProtocolSpec, OneOrchestrator

-----------------------------------------------------------------------------
(* An intent can always end.                                                 *)
(* As in EscrowTheorems, Can... are the tests of a transaction and After...  *)
(* is the state it leaves.                                                   *)

\* The array element that _pruneIntent removes is there.
Listed(h) == h \in accountIntents[h[1]][intents[h].owner]

\* The storage of o without the records of hashes: _pruneIntent.
RecordsWithout(o, hashes) ==
    <<[g \in Orch!IssuedHashes |-> IF g \in hashes THEN Orch!NoIntent ELSE intents[g]],
      [accountIntents EXCEPT ![o] = [a \in Accounts |-> Orch!Remaining(o, a, hashes)]],
      [g \in Orch!IssuedHashes |-> IF g \in hashes THEN 0 ELSE intentMinAtSignal[g]],
      intentCounter, allowMultipleIntents, acceptedEscrows, orchestratorPaused>>

LEMMA RemovalIsTested ==
    ASSUME NEW o, NEW hashes, \A g \in hashes : g[1] = o /\ Listed(g),
           orchVars' = RecordsWithout(o, hashes)
    PROVE  Orch!Prune(o, hashes) /\ UNCHANGED <<intentCounter, Orch!settings>>
BY DEF Listed, RecordsWithout, orchVars, Orch!Prune, Orch!settings

\* The tests of cancelIntent called by the intent's owner.
CanCancel(h) ==
    /\ h[1] = orchestrator
    /\ Listed(h)
    /\ CanUnlock(intents[h].depositId, h)

AfterCancel(h) ==
    <<AfterUnlock(intents[h].depositId, h), RecordsWithout(h[1], {h}), payVars, log>>

LEMMA CancelIsTested ==
    ASSUME RecordsInv, NEW h \in IntentHashes, Ours(h), CanCancel(h),
           protocolVars' = AfterCancel(h)
    PROVE  Cancel(h[1], intents[h].owner, h)
<1>1. /\ Recorded(h) /\ intents[h].escrow = ThisEscrow
      /\ intents[h].depositId \in DepositIds
  BY RecordedParts DEF Ours
<1>2. /\ vars' = AfterUnlock(intents[h].depositId, h)
      /\ orchVars' = RecordsWithout(h[1], {h})
      /\ UNCHANGED <<payVars, log>>
  BY DEF AfterCancel, protocolVars, escrowVars
<1>3. At(intents[h].escrow, UnlockFunds(h[1], intents[h].depositId, h))
  BY <1>1, <1>2, UnlockIsTested DEF CanCancel, At
<1>4. Orch!CancelIntent(h[1], intents[h].owner, h)
  BY <1>1, <1>2, RemovalIsTested DEF CanCancel, Orch!CancelIntent, Orch!Recorded, Recorded
<1> QED
  BY <1>2, <1>3, <1>4 DEF Cancel

\* The tests of releaseFundsToPayer called by the depositor.
CanRelease(h) ==
    /\ h[1] = orchestrator
    /\ Listed(h)
    /\ CanPay(intents[h].depositId, h)

AfterRelease(h) ==
    <<AfterPayment(intents[h].depositId, h), RecordsWithout(h[1], {h}), payVars,
      <<[payouts EXCEPT ![h] = @ + intents[h].amount], redemptions>>>>

LEMMA ReleaseIsTested ==
    ASSUME BooksInv, LocksHaveRecords, NEW h \in IntentHashes, Ours(h), CanRelease(h),
           protocolVars' = AfterRelease(h)
    PROVE  Release(h[1], deposits[intents[h].depositId].depositor, h)
<1>1. PICK d \in DepositIds : d = intents[h].depositId
  BY RecordedParts DEF Ours, BooksInv
<1>2. /\ Recorded(h) /\ intents[h].escrow = ThisEscrow
      /\ CanPay(d, h) /\ TypeOK
  BY <1>1 DEF Ours, CanRelease, BooksInv, LedgerInv
<1>3. depositIntents[d][h].amount = intents[h].amount
  BY <1>2 DEF LocksHaveRecords, CanPay, CanUnlock
<1>4. /\ vars' = AfterPayment(d, h)
      /\ orchVars' = RecordsWithout(h[1], {h})
      /\ payouts' = [payouts EXCEPT ![h] = @ + intents[h].amount]
      /\ UNCHANGED <<payVars, redemptions>>
  BY <1>1 DEF AfterRelease, protocolVars, escrowVars, log
<1>5. UnlockAndTransferFunds(h[1], d, h, intents[h].amount)
  BY <1>2, <1>3, <1>4, PaymentIsTested DEF CanRelease
<1>6. Orch!ReleaseFundsToPayer(h[1], deposits[d].depositor, h, deposits[d].depositor)
  BY <1>2, <1>4, RemovalIsTested DEF CanRelease, Orch!ReleaseFundsToPayer, Orch!Recorded,
     Recorded
<1>7. \E depositor \in IF Ours(h) THEN {deposits[d].depositor} ELSE Accounts :
          Orch!ReleaseFundsToPayer(h[1], deposits[d].depositor, h, depositor)
  BY <1>6
<1> QED
  BY <1>1, <1>2, <1>4, <1>5, <1>7 DEF Release, At

\* The tests of fulfillIntent for an attestation of a payment of the full amount.
CanFulfill(h, att) ==
    LET v == verifierOf[intents[h].paymentMethod]
    IN  /\ h[1] = orchestrator
        /\ ~orchestratorPaused[h[1]]
        /\ v # NoVerifier
        /\ OrchestratorOf[v] = h[1]
        /\ v \in isWriter
        /\ att.method \in isPaymentMethod[v]
        /\ att.snapshot = [intentHash |-> h, amount |-> intents[h].amount,
                           paymentMethod |-> intents[h].paymentMethod]
        /\ Pay!IsUnused(att)
        /\ att.intentHash = h
        /\ Pay!ReleaseAmount(att) = intents[h].amount
        /\ Orch!MeetsMinimum(h, intents[h].amount)
        /\ Listed(h)
        /\ CanPay(intents[h].depositId, h)

AfterFulfillment(h, att) ==
    <<AfterPayment(intents[h].depositId, h), RecordsWithout(h[1], {h}),
      <<verifierOf, isPaymentMethod, isWriter, isNullified \cup {Pay!Nullifier(att)}>>,
      <<[payouts EXCEPT ![h] = @ + intents[h].amount],
        [redemptions EXCEPT ![Pay!Nullifier(att)] = @ + 1]>>>>

LEMMA FulfillmentIsTested ==
    ASSUME BooksInv, LocksHaveRecords, NEW h \in IntentHashes, Ours(h),
           NEW att \in Pay!Attestations, CanFulfill(h, att),
           protocolVars' = AfterFulfillment(h, att)
    PROVE  Fulfill(h[1], h, att)
<1> DEFINE v == verifierOf[intents[h].paymentMethod]
<1>1. PICK d \in DepositIds : d = intents[h].depositId
  BY RecordedParts DEF Ours, BooksInv
<1>2. /\ Recorded(h) /\ intents[h].escrow = ThisEscrow
      /\ CanPay(d, h) /\ TypeOK
  BY <1>1 DEF Ours, CanFulfill, BooksInv, LedgerInv
<1>3. depositIntents[d][h].amount = intents[h].amount
  BY <1>2 DEF LocksHaveRecords, CanPay, CanUnlock
<1>4. /\ vars' = AfterPayment(d, h)
      /\ orchVars' = RecordsWithout(h[1], {h})
      /\ isNullified' = isNullified \cup {Pay!Nullifier(att)}
      /\ UNCHANGED <<verifierOf, isPaymentMethod, isWriter>>
      /\ payouts' = [payouts EXCEPT ![h] = @ + intents[h].amount]
      /\ redemptions' = [redemptions EXCEPT ![Pay!Nullifier(att)] = @ + 1]
  BY <1>1 DEF AfterFulfillment, protocolVars, escrowVars, payVars, log
<1>5. UnlockAndTransferFunds(h[1], d, h, intents[h].amount)
  BY <1>2, <1>3, <1>4, PaymentIsTested DEF CanFulfill
<1>6. Orch!FulfillIntent(h[1], h, intents[h].amount)
  <2>1. Listed(h) /\ ~orchestratorPaused[h[1]] /\ Orch!MeetsMinimum(h, intents[h].amount)
    BY DEF CanFulfill
  <2>2. Orch!Prune(h[1], {h}) /\ UNCHANGED <<intentCounter, Orch!settings>>
    BY <1>4, <2>1, RemovalIsTested
  <2> QED
    BY <1>2, <2>1, <2>2 DEF Orch!FulfillIntent, Orch!Recorded, Recorded
<1>7. Pay!VerifyPayment(h[1], v, h, intents[h], att)
  BY <1>4 DEF CanFulfill, Pay!VerifyPayment
<1>8. Pay!ReleaseAmount(att) = intents[h].amount /\ att.intentHash = h /\ v # NoVerifier
  BY DEF CanFulfill
<1> QED
  BY <1>1, <1>2, <1>4, <1>5, <1>6, <1>7, <1>8 DEF Fulfill, At

\* An intent of the installed orchestrator whose lock is in place.
Standing(h) ==
    /\ Ours(h)
    /\ h[1] = orchestrator
    /\ Locked(intents[h].depositId, h)

LEMMA IntentsCanEnd ==
    ASSUME BooksInv, NEW h \in IntentHashes, Standing(h)
    PROVE  CanCancel(h) /\ CanRelease(h)
<1>1. PICK d \in DepositIds : d = intents[h].depositId
  BY RecordedParts DEF Standing, Ours, BooksInv
<1>2. CanPay(d, h) /\ CanUnlock(d, h)
  BY <1>1, LocksCanBePaid DEF Standing, BooksInv, CanPay
<1>3. Listed(h)
  <2>1. PICK a \in Accounts : a = intents[h].owner
    BY RecordedParts DEF Standing, Ours, BooksInv
  <2>2. accountIntents[h[1]][a] =
            {g \in IntentHashes : g[1] = h[1] /\ intents[g].owner = a}
    BY HashParts DEF BooksInv, RecordsInv, AccountsListTheirIntents
  <2> QED
    BY <2>1, <2>2 DEF Listed
<1> QED
  BY <1>1, <1>2, <1>3 DEF CanCancel, CanRelease, Standing

\* The orchestrator and the verifier of h are at work and p is a payment unused.
FreshPayment(h, p) ==
    LET v == verifierOf[intents[h].paymentMethod]
    IN  /\ ~orchestratorPaused[h[1]]
        /\ v # NoVerifier
        /\ OrchestratorOf[v] = h[1]
        /\ v \in isWriter
        /\ p[1] \in isPaymentMethod[v]
        /\ p \notin isNullified

LEMMA FreshPaymentFulfills ==
    ASSUME BooksInv, PaidInv, NEW h \in IntentHashes, Standing(h), NEW p \in Pay!Nullifiers, FreshPayment(h, p)
    PROVE  \E att \in Pay!Attestations :
              /\ Pay!Nullifier(att) = p
              /\ att.releaseAmount = intents[h].amount
              /\ CanFulfill(h, att)
<1>1. /\ intents[h].amount \in Amounts
      /\ intents[h].paymentMethod \in PaymentMethods
  BY RecordedParts DEF Standing, Ours, BooksInv
<1>2. p[1] \in PaymentMethods /\ p[2] \in PaymentIds /\ p = <<p[1], p[2]>>
  BY DEF Pay!Nullifiers
<1> DEFINE snapshot == [intentHash |-> h, amount |-> intents[h].amount,
                        paymentMethod |-> intents[h].paymentMethod]
           att == [intentHash |-> h, releaseAmount |-> intents[h].amount,
                   method |-> p[1], paymentId |-> p[2], snapshot |-> snapshot]
<1>3. att \in Pay!Attestations
  BY <1>1, <1>2 DEF Pay!Attestations
<1>4. Pay!Nullifier(att) = p /\ Pay!IsUnused(att)
  BY <1>2 DEF Pay!Nullifier, Pay!IsUnused, FreshPayment
<1>5. Pay!ReleaseAmount(att) = intents[h].amount
  BY <1>1, NumbersAssumption DEF Pay!ReleaseAmount
<1>6. Orch!MeetsMinimum(h, intents[h].amount)
  BY <1>1, NumbersAssumption DEF PaidInv, Orch!MeetsMinimum, Standing
<1>7. h[1] = orchestrator /\ Listed(h) /\ CanPay(intents[h].depositId, h)
  BY IntentsCanEnd DEF CanRelease
<1>8. CanFulfill(h, att)
  BY <1>4, <1>5, <1>6, <1>7 DEF CanFulfill, FreshPayment
<1> QED
  BY <1>3, <1>4, <1>8

\* An intent of the installed orchestrator that still has its lock can always be
\* cancelled by its owner and released by the depositor: no test of cancelIntent,
\* releaseFundsToPayer or of the escrow they call refuses it (CancelIsTested,
\* ReleaseIsTested), whatever is paused, expired or changed since.
THEOREM StandingIntentsCanEnd ==
    ProtocolSpec => [](\A h \in IntentHashes :
                          Standing(h) => CanCancel(h) /\ CanRelease(h))
<1>1. BooksInv => \A h \in IntentHashes : Standing(h) => CanCancel(h) /\ CanRelease(h)
  BY IntentsCanEnd
<1> QED
  BY <1>1, BooksInvHolds, PTL

FullPaymentPasses ==
    \A h \in IntentHashes, p \in Pay!Nullifiers :
        Standing(h) /\ FreshPayment(h, p) =>
            \E att \in Pay!Attestations :
                /\ Pay!Nullifier(att) = p
                /\ att.releaseAmount = intents[h].amount
                /\ CanFulfill(h, att)

\* And a fresh payment of its full amount is accepted while the orchestrator runs
\* and its verifier works (FulfillmentIsTested): what the depositor did to the
\* range, the flags and the funds of the deposit since it was signaled, and the
\* minimum recorded then, stand in the way of none.
THEOREM FullPaymentsPass == ProtocolSpec => []FullPaymentPasses
<1>1. BooksInv /\ PaidInv => FullPaymentPasses
  BY FreshPaymentFulfills DEF FullPaymentPasses
<1> QED
  BY <1>1, LifeInvHolds, PTL

\* Under one orchestrator, with reports that arrive, every recorded intent stands,
\* so that the three ways out are open to each.
THEOREM EveryIntentStands ==
    ASSUME PruneMayFail = FALSE
    PROVE  ProtocolSpec /\ OneOrchestrator =>
              [](\A h \in IntentHashes : Ours(h) => Standing(h))
<1>1. RecordsOwned /\ RecordsHaveLocks => \A h \in IntentHashes : Ours(h) => Standing(h)
  BY DEF RecordsOwned, RecordsHaveLocks, Standing
<1>2. ProtocolInit => RecordsOwned /\ RecordsHaveLocks
  BY OwnedInit DEF ProtocolInit
<1> QED
  BY <1>1, <1>2, OwnedNext, BooksInvHolds, PTL DEF ProtocolSpec, OneOrchestrator

-----------------------------------------------------------------------------
(* Every variable keeps its type.                                            *)

\* What no transaction of an intent changes but the counter of the one signaled.
SettingsInv ==
    /\ intentCounter \in [Orchestrators -> 0 .. MaxIntents]
    /\ allowMultipleIntents \in [Orchestrators -> BOOLEAN]
    /\ acceptedEscrows \in [Orchestrators -> SUBSET Escrows]
    /\ orchestratorPaused \in [Orchestrators -> BOOLEAN]
    /\ verifierOf \in [PaymentMethods -> Verifiers \cup {NoVerifier}]
    /\ isPaymentMethod \in [Verifiers -> SUBSET PaymentMethods]
    /\ isWriter \in SUBSET Verifiers

LEMMA SettingsUntouched ==
    ASSUME SettingsInv,
           UNCHANGED <<intentCounter, allowMultipleIntents, acceptedEscrows,
                       orchestratorPaused, verifierOf, isPaymentMethod, isWriter>>
    PROVE  SettingsInv'
BY DEF SettingsInv

LEMMA SettingsNext == SettingsInv /\ [ProtocolNext]_protocolVars => SettingsInv'
<1> SUFFICES ASSUME SettingsInv, [ProtocolNext]_protocolVars PROVE SettingsInv'
  OBVIOUS
<1>1. ASSUME NEW o, NEW e, NEW S,
             Orch!PruneIntents(o, e, S) \/ UNCHANGED orchVars,
             UNCHANGED <<verifierOf, isPaymentMethod, isWriter>>
      PROVE  SettingsInv'
  BY <1>1, SettingsUntouched DEF Orch!PruneIntents, Orch!settings, orchVars
<1>2. CASE EscrowNext \/ Pass \/ UNCHANGED protocolVars
  BY <1>1, <1>2 DEF EscrowNext, Manage, Remove, Withdraw, PruneExpired, Extend, Pass,
     TryPrune, protocolVars, payVars
<1>3. ASSUME NEW o \in Orchestrators, NEW a \in Accounts, NEW e \in Escrows,
             NEW d \in DepositIds, NEW amount \in Amounts, NEW m \in PaymentMethods,
             Signal(o, a, e, d, amount, m)
      PROVE  SettingsInv'
  <2>1. PICK min, pruned : Orch!SignalIntent(o, a, e, d, amount, m, min, pruned)
    BY <1>3 DEF Signal
  <2>2. /\ intentCounter[o] < MaxIntents
        /\ intentCounter' = [intentCounter EXCEPT ![o] = @ + 1]
        /\ UNCHANGED <<allowMultipleIntents, acceptedEscrows, orchestratorPaused>>
    BY <2>1 DEF Orch!SignalIntent, Orch!settings
  <2>3. UNCHANGED <<verifierOf, isPaymentMethod, isWriter>>
    BY <1>3 DEF Signal, payVars
  <2>4. intentCounter' \in [Orchestrators -> 0 .. MaxIntents]
    BY <2>2, MaxIntentsAssumption DEF SettingsInv
  <2> QED
    BY <2>2, <2>3, <2>4 DEF SettingsInv
<1>4. CASE IntentNext
  <2>1. ASSUME NEW o \in Orchestrators, NEW h \in IntentHashes,
               \/ \E a \in Accounts : Cancel(o, a, h) \/ Release(o, a, h)
               \/ \E att \in Pay!Attestations : Fulfill(o, h, att)
        PROVE  SettingsInv'
    BY <2>1, SettingsUntouched DEF Cancel, Release, Fulfill, Orch!CancelIntent,
       Orch!ReleaseFundsToPayer, Orch!FulfillIntent, Orch!settings, Pay!VerifyPayment,
       payVars
  <2>2. ASSUME NEW o \in Orchestrators, NEW e \in OtherEscrows,
               NEW S \in SUBSET IntentHashes, PruneFor(o, e, S)
        PROVE  SettingsInv'
    BY <1>1, <2>2 DEF PruneFor, payVars
  <2> QED
    BY <1>3, <1>4, <2>1, <2>2 DEF IntentNext
<1>5. CASE GovernanceNext
  <2>1. CASE OwnerNext /\ UNCHANGED <<orchVars, payVars, log>>
    BY <2>1, SettingsUntouched DEF orchVars, payVars
  <2>2. ASSUME NEW o \in Orchestrators, UNCHANGED payVars,
               \/ \E allow \in BOOLEAN : Orch!SetAllowMultipleIntents(o, allow)
               \/ \E accepted \in SUBSET Escrows : Orch!SetAcceptedEscrows(o, accepted)
               \/ Orch!PauseOrchestrator(o)
               \/ Orch!UnpauseOrchestrator(o)
        PROVE  SettingsInv'
    BY <2>2 DEF SettingsInv, payVars, Orch!SetAllowMultipleIntents,
       Orch!SetAcceptedEscrows, Orch!PauseOrchestrator, Orch!UnpauseOrchestrator
  <2>3. CASE Pay!OwnerNext /\ UNCHANGED <<escrowVars, orchVars, log>>
    <3>1. UNCHANGED <<intentCounter, allowMultipleIntents, acceptedEscrows,
                      orchestratorPaused>>
      BY <2>3 DEF orchVars
    <3> QED
      BY <2>3, <3>1 DEF SettingsInv, Pay!OwnerNext, Pay!RegisterMethod,
         Pay!UnregisterMethod, Pay!AddPaymentMethod, Pay!RemovePaymentMethod,
         Pay!AddWritePermission, Pay!RemoveWritePermission
  <2> QED
    BY <1>5, <2>1, <2>2, <2>3 DEF GovernanceNext
<1> QED
  BY <1>2, <1>4, <1>5 DEF ProtocolNext

LEMMA SettingsInit == ProtocolInit => SettingsInv
BY MaxIntentsAssumption DEF ProtocolInit, Orch!Init, Pay!Init, SettingsInv

\* Through every transaction of every contract each variable holds a value of the
\* Solidity type it stands for; no counter passes its bound.
THEOREM ProtocolTypeCorrect == ProtocolSpec => []ProtocolTypeOK
<1>1. RecordsInv /\ PaidInv /\ PaymentsInv /\ SettingsInv => ProtocolTypeOK
  <2> SUFFICES ASSUME RecordsInv, PaidInv, PaymentsInv, SettingsInv
               PROVE  ProtocolTypeOK
    OBVIOUS
  <2>1. Record \subseteq Orch!Intent
    BY NumbersAssumption DEF Record, Orch!Intent
  <2>2. Orch!TypeOK
    BY <2>1, HashesAreIssued DEF Orch!TypeOK, RecordsInv, PaidInv, SettingsInv
  <2>3. redemptions \in [Pay!Nullifiers -> Nat]
    BY DEF PaymentsInv
  <2> QED
    BY <2>2, <2>3 DEF ProtocolTypeOK, PaymentsInv, PaidInv, SettingsInv
<1>2. ProtocolInit => PaymentsInv
  BY DEF ProtocolInit, Pay!Init, PaymentsInv
<1>3. BooksInv => RecordsInv
  BY DEF BooksInv
<1> QED
  BY <1>1, <1>2, <1>3, SettingsInit, SettingsNext, PaymentsNext, LifeInvHolds, PTL
  DEF ProtocolSpec

-----------------------------------------------------------------------------
(* What must end.                                                            *)

\* Signaling takes a new hash and every other transaction deletes records or leaves
\* them: none edits one.
LEMMA RecordsAreKept ==
    ASSUME BooksInv, [ProtocolNext]_protocolVars, NEW h \in IntentHashes,
           Recorded(h), Recorded(h)'
    PROVE  intents'[h] = intents[h]
<1>1. TypeOK /\ RecordsInv
  BY DEF BooksInv, LedgerInv
<1>2. ASSUME NEW o, NEW S, Orch!Prune(o, S)
      PROVE  intents'[h] = intents[h]
  BY <1>2, PrunedRecords DEF Recorded
<1>3. ASSUME NEW S, TryPrune(S)
      PROVE  intents'[h] = intents[h]
  BY <1>2, <1>3 DEF TryPrune, Orch!PruneIntents, orchVars
<1>4. CASE EscrowNext
  <2>1. UNCHANGED intents \/ \E S : TryPrune(S)
    BY <1>4, Zenon DEF EscrowNext, Manage, Remove, Withdraw, PruneExpired, Extend, orchVars
  <2> QED
    BY <1>3, <2>1
<1>5. ASSUME NEW o \in Orchestrators, NEW a \in Accounts, NEW e \in Escrows,
             NEW d \in DepositIds, NEW amount \in Amounts, NEW m \in PaymentMethods,
             Signal(o, a, e, d, amount, m)
      PROVE  intents'[h] = intents[h]
  <2>1. PICK min, pruned : Orch!SignalIntent(o, a, e, d, amount, m, min, pruned)
    BY <1>5 DEF Signal
  <2>2. h # Orch!NextHash(o)
    BY <1>1, <2>1, NextHashIsFresh DEF Orch!SignalIntent
  <2>3. intents'[h] = Orch!NoIntent \/ intents'[h] = intents[h]
    BY <2>1, <2>2, HashesAreIssued DEF Orch!SignalIntent
  <2> QED
    BY <2>3 DEF Recorded
<1>6. CASE IntentNext
  <2>1. PICK o \in Orchestrators :
        \/ \E a \in Accounts, e \in Escrows, d \in DepositIds, amount \in Amounts,
              m \in PaymentMethods : Signal(o, a, e, d, amount, m)
        \/ \E a \in Accounts, g \in IntentHashes : Cancel(o, a, g)
        \/ \E g \in IntentHashes, att \in Pay!Attestations : Fulfill(o, g, att)
        \/ \E a \in Accounts, g \in IntentHashes : Release(o, a, g)
        \/ \E e \in OtherEscrows, hashes \in SUBSET IntentHashes : PruneFor(o, e, hashes)
    BY <1>6 DEF IntentNext
  <2>2. ASSUME NEW g \in IntentHashes,
               \/ \E a \in Accounts : Cancel(o, a, g) \/ Release(o, a, g)
               \/ \E att \in Pay!Attestations : Fulfill(o, g, att)
        PROVE  Orch!Prune(o, {g})
    BY <2>2 DEF Cancel, Release, Fulfill, Orch!CancelIntent, Orch!ReleaseFundsToPayer,
       Orch!FulfillIntent
  <2>3. ASSUME NEW e, NEW S, PruneFor(o, e, S)
        PROVE  Orch!Prune(o, Orch!Prunable(o, e, S))
    BY <2>3 DEF PruneFor, Orch!PruneIntents
  <2> QED
    BY <1>2, <1>5, <2>1, <2>2, <2>3
<1>7. CASE GovernanceNext \/ Pass \/ UNCHANGED protocolVars
  BY <1>7 DEF GovernanceNext, Pass, protocolVars, orchVars, Orch!SetAllowMultipleIntents,
     Orch!SetAcceptedEscrows, Orch!PauseOrchestrator, Orch!UnpauseOrchestrator, Orch!records
<1> QED
  BY <1>4, <1>6, <1>7 DEF ProtocolNext

\* The terms of an intent are those it was signaled with until its record goes.
THEOREM IntentsNeverChange ==
    ProtocolSpec => [][\A h \in IntentHashes :
                          Recorded(h) /\ Recorded(h)' => intents'[h] = intents[h]]_protocolVars
<1>1. BooksInv /\ [ProtocolNext]_protocolVars =>
        [\A h \in IntentHashes :
            Recorded(h) /\ Recorded(h)' => intents'[h] = intents[h]]_protocolVars
  BY RecordsAreKept
<1> QED
  BY <1>1, BooksInvHolds, PTL DEF ProtocolSpec

\* What the escrow reports to the installed orchestrator is what that one prunes.
Reported(hashes) == Orch!Prunable(orchestrator, ThisEscrow, hashes)

\* No report is refused.
LEMMA ReportIsTested ==
    ASSUME RecordsInv, NEW hashes \in SUBSET IntentHashes,
           orchVars' = RecordsWithout(orchestrator, Reported(hashes))
    PROVE  TryPrune(hashes)
<1>1. ASSUME NEW h \in Reported(hashes)
      PROVE  h[1] = orchestrator /\ Listed(h)
  <2>1. h \in IntentHashes /\ h[1] = orchestrator /\ Recorded(h)
    BY PrunableIsOwn DEF Reported
  <2>2. PICK a \in Accounts : a = intents[h].owner
    BY <2>1, RecordedParts
  <2>3. accountIntents[h[1]][a] =
            {g \in IntentHashes : g[1] = h[1] /\ intents[g].owner = a}
    BY <2>1, HashParts DEF RecordsInv, AccountsListTheirIntents
  <2> QED
    BY <2>1, <2>2, <2>3 DEF Listed
<1>2. Orch!Prune(orchestrator, Reported(hashes)) /\ UNCHANGED <<intentCounter, Orch!settings>>
  BY <1>1, RemovalIsTested
<1> QED
  BY <1>2 DEF TryPrune, Orch!PruneIntents, Reported

\* pruneExpiredIntents, with its report, can be called on d and makes a difference.
AfterPruneExpired(d) ==
    <<AfterPruning(d), RecordsWithout(orchestrator, Reported(ExpiredIntents(d))),
      payVars, log>>

CanPruneExpired(d) ==
    CanReclaim(d, ExpiredIntents(d)) /\ AfterPruneExpired(d) # protocolVars

LEMMA PruneExpiredIsTested ==
    ASSUME BooksInv, NEW d \in DepositIds, CanPruneExpired(d),
           protocolVars' = AfterPruneExpired(d)
    PROVE  <<PruneExpired(d)>>_protocolVars
<1>1. /\ vars' = AfterPruning(d)
      /\ orchVars' = RecordsWithout(orchestrator, Reported(ExpiredIntents(d)))
      /\ UNCHANGED <<payVars, log>>
  BY DEF AfterPruneExpired, protocolVars, escrowVars
<1>2. PruneExpiredIntents(d)
  BY <1>1 DEF CanPruneExpired, AfterPruning, PruneExpiredIntents, DropLocks,
     HashesWithout, LocksWithout, vars, books
<1>3. ExpiredIntents(d) \in SUBSET IntentHashes
  BY ReclaimsOwnLocks DEF BooksInv, LedgerInv, TypeOK
<1>4. TryPrune(ExpiredIntents(d))
  BY <1>1, <1>3, ReportIsTested DEF BooksInv
<1> QED
  BY <1>1, <1>2, <1>4 DEF PruneExpired, CanPruneExpired

LEMMA ExpiredCanBeReported ==
    ASSUME LedgerInv, NEW d \in DepositIds, ExpiredIntents(d) # {}
    PROVE  CanPruneExpired(d)
<1>1. CanReclaim(d, ExpiredIntents(d)) /\ AfterPruning(d) # vars
  BY ExpiredCanBePruned DEF CanPrune
<1> QED
  BY <1>1 DEF CanPruneExpired, AfterPruneExpired, protocolVars, escrowVars

\* Pruning ends the expired intents of the installed orchestrator.
LEMMA PrunedIntentsEnd ==
    ASSUME PruneMayFail = FALSE, NEW d \in DepositIds,
           NEW h \in ExpiredIntents(d), h \in IntentHashes, Ours(h), h[1] = orchestrator,
           PruneExpired(d)
    PROVE  ~Recorded(h)'
<1>1. Orch!Prune(orchestrator, Reported(ExpiredIntents(d)))
  BY DEF PruneExpired, TryPrune, Orch!PruneIntents, Reported
<1>2. h \in Reported(ExpiredIntents(d))
  BY DEF Reported, Orch!Prunable, Orch!Recorded, Ours, Recorded
<1> QED
  BY <1>1, <1>2, PrunedRecords DEF Recorded

\* Someone keeps calling pruneExpiredIntents on d.
FairPruneExpired(d) ==
    []<>(~CanPruneExpired(d)) \/ []<><<PruneExpired(d)>>_protocolVars

\* As for the escrow, the weak fairness of the runs is this one where the step that
\* can be taken is ENABLED.
LEMMA FairPruneExpiredIsWeak ==
    ASSUME NEW d \in DepositIds
    PROVE  [](CanPruneExpired(d) => ENABLED <<PruneExpired(d)>>_protocolVars)
             => (WF_protocolVars(PruneExpired(d)) => FairPruneExpired(d))
BY PTL DEF FairPruneExpired

\* The intent is on record against d and its lock must have expired by t.
IntentDueBy(d, h, t) ==
    /\ Ours(h) /\ intents[h].depositId = d
    /\ LatestExpiry(d, h) <= t

LEMMA IntentDueStays ==
    ASSUME BooksInv, RecordsHaveLocks, RecordsHaveLocks', [ProtocolNext]_protocolVars,
           NEW d \in DepositIds, NEW h \in IntentHashes, NEW t \in Nat,
           IntentDueBy(d, h, t)
    PROVE  ~Recorded(h)' \/ IntentDueBy(d, h, t)'
<1> SUFFICES ASSUME Recorded(h)' PROVE IntentDueBy(d, h, t)'
  OBVIOUS
<1>1. intents'[h] = intents[h]
  BY RecordsAreKept DEF IntentDueBy, Ours
<1>2. Ours(h)' /\ intents'[h].depositId = d
  BY <1>1 DEF IntentDueBy, Ours
<1>3. Locked(d, h) /\ Locked(d, h)'
  BY <1>2 DEF IntentDueBy, RecordsHaveLocks
<1>4. LedgerInv /\ [Next]_vars
  BY StepsAreEscrowSteps DEF BooksInv
<1> QED
  BY <1>2, <1>3, <1>4, DeadlineStays DEF IntentDueBy

LEMMA DueIntentExpires ==
    ASSUME BooksInv, RecordsHaveLocks, NEW d \in DepositIds, NEW h \in IntentHashes,
           NEW t \in Nat, IntentDueBy(d, h, t), now > t
    PROVE  h \in ExpiredIntents(d)
<1>1. Locked(d, h)
  BY DEF IntentDueBy, RecordsHaveLocks
<1>2. TypeOK /\ LocksAgree(d)
  BY DEF BooksInv, LedgerInv
<1> QED
  BY <1>1, <1>2, DeadlineCovers DEF IntentDueBy, LocksAgree, ExpiredIntents

\* What holds from each state on while one orchestrator is installed.
OneClock ==
    /\ [][ProtocolNext]_protocolVars
    /\ [](BooksInv /\ RecordsOwned /\ RecordsHaveLocks)

IntentEndsBy(d, h, t) ==
    OneClock /\ FairPruneExpired(d) /\ <>(now > t) =>
      (IntentDueBy(d, h, t) => <>(~Recorded(h)))

\* From a state in which the intent is due by t, it ends.
LEMMA DueIntentsEnd ==
    ASSUME PruneMayFail = FALSE,
           NEW d \in DepositIds, NEW h \in IntentHashes, NEW t \in Nat
    PROVE  IntentEndsBy(d, h, t)
<1> DEFINE Due == IntentDueBy(d, h, t)
           Past == now > t
           Over == ~Recorded(h)
<1>1. BooksInv /\ RecordsHaveLocks /\ RecordsHaveLocks' /\ [ProtocolNext]_protocolVars /\ Due
        => Due' \/ Over'
  BY IntentDueStays
<1>2. BooksInv /\ [ProtocolNext]_protocolVars /\ Past => Past'
  BY PastStays, StepsAreEscrowSteps DEF BooksInv, LedgerInv
<1>3. BooksInv /\ RecordsHaveLocks /\ Due /\ Past => h \in ExpiredIntents(d)
  BY DueIntentExpires
<1>4. BooksInv /\ RecordsHaveLocks /\ Due /\ Past => CanPruneExpired(d)
  BY <1>3, ExpiredCanBeReported DEF BooksInv
<1>5. /\ BooksInv /\ RecordsHaveLocks /\ RecordsOwned /\ Due /\ Past
      /\ <<PruneExpired(d)>>_protocolVars
      => Over'
  <2>1. RecordsOwned /\ Due => Ours(h) /\ h[1] = orchestrator
    BY DEF RecordsOwned, IntentDueBy
  <2> QED
    BY <1>3, <2>1, PrunedIntentsEnd
<1>6. /\ IntentDueBy(d, h, t) <=> Due
      /\ now > t <=> Past
      /\ ~Recorded(h) <=> Over
  OBVIOUS
<1> HIDE DEF Due, Past, Over
<1> QED
  BY <1>1, <1>2, <1>4, <1>5, <1>6, PTL DEF OneClock, FairPruneExpired, IntentEndsBy

LEMMA OneClockHolds ==
    ASSUME PruneMayFail = FALSE
    PROVE  ProtocolSpec /\ OneOrchestrator => []OneClock
<1>1. ProtocolInit => RecordsOwned /\ RecordsHaveLocks
  BY OwnedInit DEF ProtocolInit
<1> QED
  BY <1>1, OwnedNext, BooksInvHolds, PTL DEF ProtocolSpec, OneOrchestrator, OneClock

\* IntentsEventuallyEnd: no taker is shut out for good by an intent that nobody
\* cancels, pays or releases.  Its deadline passes whatever the guardian does, and
\* the pruning anyone may call then takes its record with its lock.
THEOREM IntentsEnd ==
    ASSUME PruneMayFail = FALSE,
           NEW d \in DepositIds, NEW h \in IntentHashes, NEW t \in Nat
    PROVE  ProtocolSpec /\ OneOrchestrator /\ FairPruneExpired(d) /\ <>(now > t) =>
             (IntentDueBy(d, h, t) ~> ~Recorded(h))
<1> DEFINE Past == now > t
<1>1. IntentEndsBy(d, h, t)
  BY DueIntentsEnd
<1>2. BooksInv /\ [ProtocolNext]_protocolVars /\ Past => Past'
  BY PastStays, StepsAreEscrowSteps DEF BooksInv, LedgerInv
<1>3. now > t <=> Past
  OBVIOUS
<1> HIDE DEF Past
<1> QED
  BY <1>1, <1>2, <1>3, OneClockHolds, BooksInvHolds, PTL
     DEF IntentEndsBy, ProtocolSpec, FairPruneExpired

LEMMA TermsHold == ProtocolSpec => []TermsAgreed
BY ProtocolImplementsEscrow, ExtensionsAreLimited, PTL

\* IntentsEventuallyEnd as the runs check it.  The deposit of an intent is known
\* once it is signaled, so the pruning of every deposit is assumed to go on.
THEOREM EveryIntentEnds ==
    ASSUME PruneMayFail = FALSE, LocksLeaveTime
    PROVE  /\ ProtocolSpec /\ OneOrchestrator /\ ClockRuns
           /\ [](\A d \in DepositIds : FairPruneExpired(d))
           => IntentsEventuallyEnd
<1> DEFINE t == MaxTime - 1
           Pruned == \A d \in DepositIds : FairPruneExpired(d)
           Sound == BooksInv /\ RecordsHaveLocks /\ TermsAgreed
           Past == now > t
<1>1. t \in Nat
  BY NumbersAssumption
<1>2. BooksInv /\ [ProtocolNext]_protocolVars /\ Past => Past'
  BY <1>1, PastStays, StepsAreEscrowSteps DEF BooksInv, LedgerInv
<1>3. now = MaxTime => Past
  BY NumbersAssumption
<1>4. ASSUME NEW h \in IntentHashes
      PROVE  Sound /\ Ours(h) => \E d \in DepositIds : IntentDueBy(d, h, t)
  <2> SUFFICES ASSUME Sound, Ours(h) PROVE \E d \in DepositIds : IntentDueBy(d, h, t)
    OBVIOUS
  <2>1. intents[h].depositId \in DepositIds /\ Locked(intents[h].depositId, h)
    BY RecordedParts DEF BooksInv, Ours, RecordsHaveLocks
  <2>2. DueBy(intents[h].depositId, h, t)
    BY <2>1, LocksAreDue DEF BooksInv, LedgerInv
  <2> QED
    BY <2>1, <2>2 DEF IntentDueBy, DueBy
<1>5. ASSUME NEW h \in IntentHashes
      PROVE  OneClock /\ Sound /\ Pruned /\ <>Past => (Ours(h) => <>(~Recorded(h)))
  <2> DEFINE Passes == <>(now > t)
             Ended == <>(~Recorded(h))
  <2>1. \A d \in DepositIds :
           OneClock /\ FairPruneExpired(d) /\ Passes => (IntentDueBy(d, h, t) => Ended)
    <3>1. \A d \in DepositIds : IntentEndsBy(d, h, t)
      BY <1>1, DueIntentsEnd
    <3> QED
      BY <3>1 DEF IntentEndsBy
  <2>2. <>Past <=> Passes
    OBVIOUS
  <2>3. <>(~Recorded(h)) <=> Ended
    OBVIOUS
  <2> HIDE DEF Passes, Ended, Sound
  <2>4. OneClock /\ Sound /\ Pruned /\ Passes => (Ours(h) => Ended)
    BY <1>4, <2>1
  <2> QED
    BY <2>2, <2>3, <2>4
<1>6. \A h \in IntentHashes :
        /\ ProtocolSpec /\ OneOrchestrator /\ ClockRuns /\ []Pruned
        => (Ours(h) ~> ~Recorded(h))
  <2> SUFFICES ASSUME NEW h \in IntentHashes
               PROVE  ProtocolSpec /\ OneOrchestrator /\ ClockRuns /\ []Pruned
                        => (Ours(h) ~> ~Recorded(h))
    OBVIOUS
  <2>1. OneClock /\ Sound /\ Pruned /\ <>Past => (Ours(h) => <>(~Recorded(h)))
    BY <1>5
  <2>2. BooksInv /\ RecordsHaveLocks /\ TermsAgreed <=> Sound
    OBVIOUS
  <2> HIDE DEF Past, Pruned, Sound
  <2> QED
    BY <1>2, <1>3, <2>1, <2>2, OneClockHolds, TermsHold, PTL
       DEF OneClock, ClockRuns, ProtocolSpec
<1> QED
  BY <1>6 DEF IntentsEventuallyEnd

\* withdrawDeposit, with its report, can be called on d and makes a difference.
AfterWithdraw(d) ==
    <<AfterWithdrawal(d), RecordsWithout(orchestrator, Reported(ExpiredIntents(d))),
      payVars, log>>

CanWithdrawAll(d) ==
    Exists(d) /\ CanWithdraw(d) /\ AfterWithdraw(d) # protocolVars

LEMMA WithdrawIsTested ==
    ASSUME BooksInv, NEW d \in DepositIds, CanWithdrawAll(d),
           protocolVars' = AfterWithdraw(d)
    PROVE  <<\E a \in Accounts : Withdraw(a, d)>>_protocolVars
<1>1. /\ vars' = AfterWithdrawal(d)
      /\ orchVars' = RecordsWithout(orchestrator, Reported(ExpiredIntents(d)))
      /\ UNCHANGED <<payVars, log>>
  BY DEF AfterWithdraw, protocolVars, escrowVars
<1>2. TypeOK /\ RecordsInv
  BY DEF BooksInv, LedgerInv
<1>3. deposits[d].depositor \in Accounts
  BY <1>2 DEF TypeOK, Deposit, CanWithdrawAll, Exists
<1>4. WithdrawDeposit(deposits[d].depositor, d)
  BY <1>1, <1>2, WithdrawalIsTested DEF CanWithdrawAll
<1>5. ExpiredIntents(d) \in SUBSET IntentHashes
  BY <1>2, ReclaimsOwnLocks DEF TypeOK
<1>6. TryPrune(ExpiredIntents(d))
  BY <1>1, <1>2, <1>5, ReportIsTested
<1>7. Withdraw(deposits[d].depositor, d)
  BY <1>1, <1>4, <1>6 DEF Withdraw
<1> QED
  BY <1>3, <1>7 DEF CanWithdrawAll

\* The depositor of d keeps calling withdrawDeposit.
FairWithdraw(d) ==
    []<>(~CanWithdrawAll(d)) \/ []<><<\E a \in Accounts : Withdraw(a, d)>>_protocolVars

LEMMA FairWithdrawIsWeak ==
    ASSUME NEW d \in DepositIds
    PROVE  [](CanWithdrawAll(d) =>
                ENABLED <<\E a \in Accounts : Withdraw(a, d)>>_protocolVars)
             => (WF_protocolVars(\E a \in Accounts : Withdraw(a, d)) => FairWithdraw(d))
BY PTL DEF FairWithdraw

\* WithdrawalsComplete: a depositor who takes no new intents gets out, though the
\* locks belong to intents, the report of what is reclaimed may fail and the owner
\* may change the orchestrator in between.
THEOREM DepositorsGetOutOfIntents ==
    ASSUME NEW d \in DepositIds, NEW t \in Nat
    PROVE  ProtocolSpec /\ FairWithdraw(d) /\ <>(now > t) =>
             (Exists(d) /\ Leaving(d) /\ AllDueBy(d, t) ~> ~Exists(d) \/ ~Leaving(d))
<1> DEFINE Going == Exists(d) /\ Leaving(d) /\ AllDueBy(d, t)
           Past == now > t
           Gone == ~Exists(d) \/ ~Leaving(d)
<1>1. BooksInv /\ [ProtocolNext]_protocolVars => LedgerInv /\ TypeOK /\ [Next]_vars
  BY StepsAreEscrowSteps DEF BooksInv, LedgerInv
<1>2. BooksInv /\ [ProtocolNext]_protocolVars /\ Going => Going' \/ Gone'
  BY <1>1, AllDueStays
<1>3. BooksInv /\ [ProtocolNext]_protocolVars /\ Past => Past'
  BY <1>1, PastStays
<1>4. BooksInv /\ Going /\ Past => IsClosable(Emptied(d))
  BY EmptiedCloses DEF BooksInv
<1>5. BooksInv /\ Going /\ Past => CanWithdrawAll(d)
  BY <1>4, ClosingMakesADifference DEF BooksInv, CanEmpty, CanWithdrawAll, AfterWithdraw,
     protocolVars, escrowVars
<1>6. /\ BooksInv /\ Going /\ Past
      /\ <<\E a \in Accounts : Withdraw(a, d)>>_protocolVars
      => Gone'
  BY <1>4, WithdrawalCloses DEF BooksInv, LedgerInv, Withdraw
<1>7. /\ Exists(d) /\ Leaving(d) /\ AllDueBy(d, t) <=> Going
      /\ now > t <=> Past
      /\ ~Exists(d) \/ ~Leaving(d) <=> Gone
  OBVIOUS
<1> HIDE DEF Going, Past, Gone
<1> QED
  BY <1>2, <1>3, <1>5, <1>6, <1>7, BooksInvHolds, PTL DEF ProtocolSpec, FairWithdraw

\* LocksEventuallyExpire and WithdrawalCompletes as the runs check them of the
\* whole: neither needs the orchestrator to stay or its reports to arrive.
THEOREM EveryIntentLockExpires ==
    ASSUME LocksLeaveTime
    PROVE  ProtocolSpec /\ ClockRuns => LocksEventuallyExpire
BY ProtocolImplementsEscrow, EveryLockExpires, PTL

\* A depositor who keeps calling withdrawDeposit gets out of every deposit, each
\* time it is left closed to intents, though locks belong to intents.
THEOREM EveryDepositorGetsOutOfIntents ==
    ASSUME LocksLeaveTime
    PROVE  ProtocolSpec /\ ClockRuns /\ (\A d \in DepositIds : FairWithdraw(d))
             => WithdrawalCompletes
<1>1. ASSUME NEW d \in DepositIds
      PROVE  ProtocolSpec /\ ClockRuns /\ FairWithdraw(d) =>
               []<>(~Exists(d) \/ deposits[d].acceptingIntents \/ deposits[d].retainOnEmpty)
  <2> DEFINE Going == Exists(d) /\ Leaving(d)
             Past == now = MaxTime
             Gone == ~Exists(d) \/ deposits[d].acceptingIntents \/ deposits[d].retainOnEmpty
  <2>1. BooksInv /\ BooksInv' /\ [ProtocolNext]_protocolVars /\ Past => Past'
    BY ClockStops, StepsAreEscrowSteps DEF BooksInv, LedgerInv
  <2>2. BooksInv /\ TermsAgreed /\ Going /\ Past => IsClosable(Emptied(d))
    <3>1. MaxTime - 1 \in Nat /\ (Past => now > MaxTime - 1)
      BY NumbersAssumption
    <3> QED
      BY <3>1, EmptiedCloses, AllAreDue DEF BooksInv, LedgerInv
  <2>3. BooksInv /\ TermsAgreed /\ Going /\ Past => CanWithdrawAll(d)
    BY <2>2, ClosingMakesADifference DEF BooksInv, CanEmpty, CanWithdrawAll, AfterWithdraw,
       protocolVars, escrowVars
  <2>4. /\ BooksInv /\ TermsAgreed /\ Going /\ Past
        /\ <<\E a \in Accounts : Withdraw(a, d)>>_protocolVars
        => Gone'
    BY <2>2, WithdrawalCloses DEF BooksInv, LedgerInv, Withdraw
  <2>5. ~Going => Gone
    BY DEF Leaving
  <2>6. /\ now = MaxTime <=> Past
        /\ ~Exists(d) \/ deposits[d].acceptingIntents \/ deposits[d].retainOnEmpty <=> Gone
    OBVIOUS
  <2> HIDE DEF Going, Past, Gone
  <2> QED
    BY <2>1, <2>3, <2>4, <2>5, <2>6, BooksInvHolds, TermsHold, PTL
       DEF ProtocolSpec, ClockRuns, FairWithdraw
<1> QED
  BY <1>1 DEF WithdrawalCompletes

\* What WithdrawIsTested says of d, with ENABLED, and the fairness of its withdrawal.
WithdrawalIsEnabled(d) ==
    [](CanWithdrawAll(d) => ENABLED <<\E a \in Accounts : Withdraw(a, d)>>_protocolVars)

WithdrawalIsFair(d) == WF_protocolVars(\E a \in Accounts : Withdraw(a, d))

\* WithdrawalsComplete as the run checks it, weak fairness in its hypothesis.
THEOREM FairDepositorsGetOut ==
    ASSUME LocksLeaveTime
    PROVE  ProtocolSpec /\ ClockRuns /\ (\A d \in DepositIds : WithdrawalIsEnabled(d))
             => WithdrawalsComplete
<1>1. ASSUME NEW d \in DepositIds
      PROVE  WithdrawalIsEnabled(d) /\ WithdrawalIsFair(d) => FairWithdraw(d)
  BY PTL DEF FairWithdraw, WithdrawalIsEnabled, WithdrawalIsFair
<1>2. DepositorsWithdraw => \A d \in DepositIds : WithdrawalIsFair(d)
  BY PTL DEF DepositorsWithdraw, WithdrawalIsFair
<1>3. (\A d \in DepositIds : WithdrawalIsEnabled(d)) /\ DepositorsWithdraw
        => \A d \in DepositIds : FairWithdraw(d)
  BY <1>1, <1>2
<1> QED
  BY <1>3, EveryDepositorGetsOutOfIntents, PTL DEF WithdrawalsComplete
=============================================================================
