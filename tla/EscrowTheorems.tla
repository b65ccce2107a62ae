---------------------------- MODULE EscrowTheorems ----------------------------
(* What TLAPS proves of Escrow for every value of its constants.             *)
EXTENDS EscrowCustody, CollectionTheorems

USE DEF DepositIds

\* The liquidity under any set of a deposit's locks is a natural number.
LEMMA LockedAmountType ==
    ASSUME TypeOK, NEW d \in DepositIds, NEW S \in SUBSET IntentHashes
    PROVE  LockedAmount(d, S) \in Nat
<1>1. IsFiniteSet(S)
  BY HashesAssumption, FS_Subset
<1>2. \A h \in S : [g \in IntentHashes |-> depositIntents[d][g].amount][h] \in Nat
  BY DEF TypeOK, Intent
<1> QED
  BY <1>1, <1>2, SumType DEF LockedAmount

\* A deposit with its two amounts replaced.
LEMMA DepositUpdate ==
    ASSUME NEW deposit \in Deposit, NEW r \in Nat, NEW u \in Nat
    PROVE  LET new == [deposit EXCEPT !.remainingDeposits = r,
                                      !.outstandingIntentAmount = u]
           IN  /\ new \in Deposit
               /\ new.remainingDeposits = r
               /\ new.outstandingIntentAmount = u
               /\ new.depositor = deposit.depositor
               /\ new.token = deposit.token
               /\ new.min = deposit.min
BY DEF Deposit

\* The type of a deposit whose remaining amount alone is replaced.
LEMMA RemainderUpdate ==
    ASSUME NEW deposit \in Deposit, NEW r \in Nat
    PROVE  LET new == [deposit EXCEPT !.remainingDeposits = r]
           IN  /\ new \in Deposit
               /\ new.remainingDeposits = r
               /\ new.outstandingIntentAmount = deposit.outstandingIntentAmount
               /\ new.depositor = deposit.depositor
               /\ new.token = deposit.token
               /\ new.min = deposit.min
BY DEF Deposit

LEMMA ReclaimedType ==
    ASSUME TypeOK, NEW d \in DepositIds, NEW S \in SUBSET IntentHashes,
           CanReclaim(d, S)
    PROVE  /\ Reclaimed(d, S) \in Deposit
           /\ Reclaimed(d, S).depositor = deposits[d].depositor
           /\ Reclaimed(d, S).token = deposits[d].token
           /\ Reclaimed(d, S).min = deposits[d].min
           /\ Reclaimed(d, S).retainOnEmpty = deposits[d].retainOnEmpty
           /\ Reclaimed(d, S).remainingDeposits =
                deposits[d].remainingDeposits + LockedAmount(d, S)
           /\ Reclaimed(d, S).outstandingIntentAmount =
                deposits[d].outstandingIntentAmount - LockedAmount(d, S)
<1> DEFINE old == deposits[d]
           locked == LockedAmount(d, S)
<1>1. old \in Deposit
  BY DEF TypeOK
<1>2. locked \in Nat /\ locked <= old.outstandingIntentAmount
  BY LockedAmountType DEF CanReclaim
<1>3. Reclaimed(d, S) =
        [old EXCEPT !.remainingDeposits = @ + locked,
                    !.outstandingIntentAmount = @ - locked]
  BY DEF Reclaimed
<1> HIDE DEF old, locked
<1>4. /\ old.remainingDeposits + locked \in Nat
      /\ old.outstandingIntentAmount - locked \in Nat
  BY <1>1, <1>2 DEF Deposit
<1>5. Reclaimed(d, S) \in Deposit
  BY <1>1, <1>3, <1>4 DEF Deposit
<1> QED
  BY <1>1, <1>3, <1>5 DEF Deposit, old, locked

\* Only hashes of the deposit's own array are ever reclaimed.
LEMMA ReclaimsOwnLocks ==
    ASSUME TypeOK, NEW d \in DepositIds, NEW amount
    PROVE  /\ ExpiredIntents(d) \in SUBSET depositIntentHashes[d]
           /\ ReclaimIfNecessary(d, amount) \in SUBSET ExpiredIntents(d)
           /\ depositIntentHashes[d] \in SUBSET IntentHashes
BY DEF TypeOK, ExpiredIntents, ReclaimIfNecessary

LEMMA DropLocksType ==
    ASSUME TypeOK, NEW d \in DepositIds, NEW S, DropLocks(d, S)
    PROVE  /\ depositIntentHashes' \in [DepositIds -> SUBSET IntentHashes]
           /\ depositIntents' \in [DepositIds -> [IntentHashes -> Intent]]
BY DEF TypeOK, DropLocks, NoIntent, Intent

LEMMA NoDepositType == NoDeposit \in Deposit
BY DEF NoDeposit, Deposit

LEMMA CloseType ==
    ASSUME TypeOK, NEW d \in DepositIds, NEW deposit \in Deposit,
           CloseIfNecessary(d, deposit)
    PROVE  /\ deposits' \in [DepositIds -> Deposit]
           /\ accountDeposits' \in [Accounts -> SUBSET DepositIds]
<1>1. deposits \in [DepositIds -> Deposit]
      /\ accountDeposits \in [Accounts -> SUBSET DepositIds]
  BY DEF TypeOK
<1>2. deposits' \in [DepositIds -> Deposit]
  <2>1. deposits' = [deposits EXCEPT ![d] = NoDeposit]
        \/ deposits' = [deposits EXCEPT ![d] = deposit]
    BY DEF CloseIfNecessary
  <2> QED
    BY <1>1, <2>1, NoDepositType
<1>3. accountDeposits' \in [Accounts -> SUBSET DepositIds]
  BY <1>1 DEF CloseIfNecessary
<1> QED
  BY <1>2, <1>3

LEMMA TransferType ==
    ASSUME TypeOK, NEW t, NEW amount \in Nat,
           TransferIn(t, amount) \/ TransferOut(t, amount)
    PROVE  tokenBalance' \in [Tokens -> Nat]
BY DEF TypeOK, TransferIn, TransferOut

LEMMA DemotedType ==
    ASSUME NEW deposit \in Deposit
    PROVE  /\ Demoted(deposit) \in Deposit
           /\ Demoted(deposit).depositor = deposit.depositor
           /\ Demoted(deposit).token = deposit.token
           /\ Demoted(deposit).min = deposit.min
           /\ Demoted(deposit).remainingDeposits = deposit.remainingDeposits
           /\ Demoted(deposit).outstandingIntentAmount = deposit.outstandingIntentAmount
BY DEF Demoted, Deposit

\* sweeping pays out at most what the deposit has left
LEMMA SweptType ==
    ASSUME NEW deposit \in Deposit
    PROVE  SweptDust(deposit) \in Nat
BY DEF SweptDust, Deposit

-----------------------------------------------------------------------------
(* Type correctness.                                                         *)

LEMMA TypeInit == Init => TypeOK
<1> SUFFICES ASSUME Init PROVE TypeOK
  OBVIOUS
<1> USE NumbersAssumption
<1>1. deposits \in [DepositIds -> Deposit]
  BY NoDepositType DEF Init
<1>2. depositIntents \in [DepositIds -> [IntentHashes -> Intent]]
  BY DEF Init, NoIntent, Intent
<1>3. /\ now \in 1 .. MaxTime
      /\ depositCounter \in 0 .. MaxDeposits
      /\ tokenBalance \in [Tokens -> Nat]
  BY DEF Init
<1>4. /\ accountDeposits \in [Accounts -> SUBSET DepositIds]
      /\ depositIntentHashes \in [DepositIds -> SUBSET IntentHashes]
      /\ paused \in BOOLEAN
  BY DEF Init
<1> QED
  BY <1>1, <1>2, <1>3, <1>4 DEF Init, TypeOK

LEMMA TypeManage == TypeOK /\ ManageNext => TypeOK'
<1> SUFFICES ASSUME TypeOK, ManageNext PROVE TypeOK'
  OBVIOUS
<1> USE NumbersAssumption
<1>1. ASSUME NEW a \in Accounts, NEW t \in Tokens,
             NEW amount \in Amounts, NEW min \in Amounts, NEW max \in Amounts,
             NEW guardian \in Accounts \cup {NoAccount}, NEW retain \in BOOLEAN,
             CreateDeposit(a, t, amount, min, max, guardian, retain)
      PROVE  TypeOK'
  <2>1. depositCounter \in DepositIds /\ depositCounter' \in 0 .. MaxDeposits
    BY <1>1 DEF TypeOK, CreateDeposit
  <2>2. deposits' \in [DepositIds -> Deposit]
    BY <1>1, <2>1 DEF TypeOK, CreateDeposit, Deposit
  <2>3. accountDeposits' \in [Accounts -> SUBSET DepositIds]
    BY <1>1, <2>1 DEF TypeOK, CreateDeposit
  <2>4. tokenBalance' \in [Tokens -> Nat]
    BY <1>1, TransferType DEF CreateDeposit
  <2> QED
    BY <1>1, <2>1, <2>2, <2>3, <2>4 DEF TypeOK, CreateDeposit, settings
<1>2. ASSUME NEW d \in DepositIds, NEW amount \in Amounts, AddFunds(d, amount)
      PROVE  TypeOK'
  <2> DEFINE funded == [deposits[d] EXCEPT !.remainingDeposits = @ + amount]
  <2>0. deposits[d] \in Deposit /\ deposits[d].remainingDeposits + amount \in Nat
    BY DEF TypeOK, Deposit
  <2>1. deposits' \in [DepositIds -> Deposit]
    <3>1. funded \in Deposit
      BY <2>0, RemainderUpdate
    <3>2. deposits' = [deposits EXCEPT ![d] = funded]
      BY <1>2 DEF AddFunds
    <3> HIDE DEF funded
    <3> QED
      BY <3>1, <3>2 DEF TypeOK
  <2>2. tokenBalance' \in [Tokens -> Nat]
    BY <1>2, TransferType DEF AddFunds
  <2> QED
    BY <1>2, <2>1, <2>2 DEF TypeOK, AddFunds, settings
<1>3. ASSUME NEW d \in DepositIds, NEW min \in Amounts, NEW max \in Amounts,
             SetIntentRange(d, min, max)
      PROVE  TypeOK'
  <2> DEFINE ranged == [deposits[d] EXCEPT !.min = min, !.max = max]
  <2>1. deposits[d] \in Deposit /\ min \in Nat /\ max \in Nat
    BY DEF TypeOK
  <2>2. ranged \in Deposit
    BY <2>1 DEF Deposit
  <2>3. deposits' \in [DepositIds -> Deposit]
    BY <1>3, <2>2, DemotedType DEF TypeOK, SetIntentRange
  <2> QED
    BY <1>3, <2>3 DEF TypeOK, SetIntentRange, settings
<1>4. ASSUME NEW d \in DepositIds, NEW accepting \in BOOLEAN,
             SetAcceptingIntents(d, accepting)
      PROVE  TypeOK'
  <2>1. deposits' \in [DepositIds -> Deposit]
    <3> DEFINE new == [deposits[d] EXCEPT !.acceptingIntents = accepting]
    <3>0. deposits[d] \in Deposit
      BY DEF TypeOK
    <3>1. new \in Deposit
      BY <3>0 DEF Deposit
    <3>2. deposits' = [deposits EXCEPT ![d] = new]
      BY <1>4 DEF SetAcceptingIntents
    <3> HIDE DEF new
    <3> QED
      BY <3>1, <3>2 DEF TypeOK
  <2> QED
    BY <1>4, <2>1 DEF TypeOK, SetAcceptingIntents, settings
<1>5. ASSUME NEW d \in DepositIds, NEW retain \in BOOLEAN,
             SetRetainOnEmpty(d, retain)
      PROVE  TypeOK'
  <2>1. deposits' \in [DepositIds -> Deposit]
    <3> DEFINE new == [deposits[d] EXCEPT !.retainOnEmpty = retain]
    <3>0. deposits[d] \in Deposit
      BY DEF TypeOK
    <3>1. new \in Deposit
      BY <3>0 DEF Deposit
    <3>2. deposits' = [deposits EXCEPT ![d] = new]
      BY <1>5 DEF SetRetainOnEmpty
    <3> HIDE DEF new
    <3> QED
      BY <3>1, <3>2 DEF TypeOK
  <2> QED
    BY <1>5, <2>1 DEF TypeOK, SetRetainOnEmpty, settings
<1>6. CASE \E a \in Accounts, t \in Tokens, amount, min, max \in Amounts,
              guardian \in Accounts \cup {NoAccount}, retain \in BOOLEAN :
                CreateDeposit(a, t, amount, min, max, guardian, retain)
  <2>1. PICK a \in Accounts, t \in Tokens, amount \in Amounts, min \in Amounts,
             max \in Amounts, guardian \in Accounts \cup {NoAccount},
             retain \in BOOLEAN :
               CreateDeposit(a, t, amount, min, max, guardian, retain)
    BY <1>6, Zenon
  <2> QED
    BY <1>1, <2>1, SMT
<1>7. CASE \E d \in DepositIds, min, max \in Amounts : SetIntentRange(d, min, max)
  BY <1>3, <1>7, Zenon
<1>8. CASE \/ \E d \in DepositIds, amount \in Amounts : AddFunds(d, amount)
           \/ \E d \in DepositIds, accepting \in BOOLEAN :
                  SetAcceptingIntents(d, accepting)
           \/ \E d \in DepositIds, retain \in BOOLEAN : SetRetainOnEmpty(d, retain)
  BY <1>2, <1>4, <1>5, <1>8, Zenon
<1> QED
  BY <1>6, <1>7, <1>8, Zenon DEF ManageNext

LEMMA TypeReclaim == TypeOK /\ ReclaimNext => TypeOK'
<1> SUFFICES ASSUME TypeOK, ReclaimNext PROVE TypeOK'
  OBVIOUS
<1> USE NumbersAssumption
<1>1. ASSUME NEW a \in Accounts, NEW d \in DepositIds, NEW amount \in Amounts,
             RemoveFunds(a, d, amount)
      PROVE  TypeOK'
  <2> DEFINE expired == ReclaimIfNecessary(d, amount)
             deposit == Reclaimed(d, expired)
             reduced == [deposit EXCEPT !.remainingDeposits = @ - amount]
  <2>1. expired \in SUBSET IntentHashes
    BY ReclaimsOwnLocks
  <2>2. /\ CanReclaim(d, expired)
        /\ deposit.remainingDeposits >= amount
        /\ deposits' = [deposits EXCEPT ![d] = Demoted(reduced)]
        /\ DropLocks(d, expired)
        /\ TransferOut(deposit.token, amount)
    BY <1>1 DEF RemoveFunds, HasLiquidity
  <2>3. deposit \in Deposit
    BY <2>1, <2>2, ReclaimedType
  <2> HIDE DEF deposit, expired
  <2>4. reduced \in Deposit
    BY <2>2, <2>3 DEF Deposit
  <2>5. deposits' \in [DepositIds -> Deposit]
    BY <2>2, <2>4, DemotedType DEF TypeOK
  <2>6. tokenBalance' \in [Tokens -> Nat]
    BY <2>2, TransferType
  <2> QED
    BY <1>1, <2>2, <2>5, <2>6, DropLocksType DEF TypeOK, RemoveFunds, settings
<1>2. ASSUME NEW a \in Accounts, NEW d \in DepositIds, WithdrawDeposit(a, d)
      PROVE  TypeOK'
  <2> DEFINE expired == ExpiredIntents(d)
             deposit == Reclaimed(d, expired)
             emptied == [deposit EXCEPT !.remainingDeposits = 0,
                                        !.acceptingIntents = FALSE]
  <2>1. expired \in SUBSET IntentHashes
    BY ReclaimsOwnLocks
  <2>2. /\ CanReclaim(d, expired)
        /\ DropLocks(d, expired)
        /\ CloseIfNecessary(d, emptied)
        /\ TransferOut(deposit.token, SweptDust(emptied) + deposit.remainingDeposits)
    BY <1>2 DEF WithdrawDeposit
  <2>3. deposit \in Deposit
    BY <2>1, <2>2, ReclaimedType
  <2> HIDE DEF deposit, expired
  <2>4. emptied \in Deposit
    BY <2>3 DEF Deposit
  <2>5. SweptDust(emptied) + deposit.remainingDeposits \in Nat
    <3>1. SweptDust(emptied) \in Nat
      BY <2>4, SweptType
    <3>2. deposit.remainingDeposits \in Nat
      BY <2>3 DEF Deposit
    <3> QED
      BY <3>1, <3>2
  <2>6. tokenBalance' \in [Tokens -> Nat]
    BY <2>2, <2>5, TransferType
  <2>7. /\ deposits' \in [DepositIds -> Deposit]
        /\ accountDeposits' \in [Accounts -> SUBSET DepositIds]
    BY <2>2, <2>4, CloseType
  <2> QED
    BY <1>2, <2>2, <2>6, <2>7, DropLocksType DEF TypeOK, WithdrawDeposit, settings
<1>3. ASSUME NEW d \in DepositIds, PruneExpiredIntents(d)
      PROVE  TypeOK'
  <2> DEFINE expired == ExpiredIntents(d)
  <2>1. expired \in SUBSET IntentHashes
    BY ReclaimsOwnLocks
  <2>2. /\ CanReclaim(d, expired)
        /\ deposits' = [deposits EXCEPT ![d] = Reclaimed(d, expired)]
        /\ DropLocks(d, expired)
    BY <1>3 DEF PruneExpiredIntents
  <2>3. deposits' \in [DepositIds -> Deposit]
    BY <2>1, <2>2, ReclaimedType DEF TypeOK
  <2> QED
    BY <1>3, <2>2, <2>3, DropLocksType DEF TypeOK, PruneExpiredIntents, settings
<1> QED
  BY <1>1, <1>2, <1>3 DEF ReclaimNext

LEMMA TypeOrchestrator == TypeOK /\ OrchestratorNext => TypeOK'
<1> SUFFICES ASSUME TypeOK, NEW o \in Orchestrators, NEW d \in DepositIds,
                    NEW h \in IntentHashes,
                    \/ \E amount \in Amounts : LockFunds(o, d, h, amount)
                    \/ UnlockFunds(o, d, h)
                    \/ \E amount \in Amounts : UnlockAndTransferFunds(o, d, h, amount)
             PROVE  TypeOK'
  BY DEF OrchestratorNext
<1> USE NumbersAssumption
<1> DEFINE held == depositIntents[d][h].amount
<1>0. held \in Nat /\ deposits[d] \in Deposit
  BY DEF TypeOK, Intent
<1>1. ASSUME NEW amount \in Amounts, LockFunds(o, d, h, amount)
      PROVE  TypeOK'
  <2> DEFINE expired == ReclaimIfNecessary(d, amount)
             deposit == Reclaimed(d, expired)
             locked == [deposit EXCEPT !.remainingDeposits = @ - amount,
                                       !.outstandingIntentAmount = @ + amount]
             lock == [amount |-> amount, timestamp |-> now,
                      expiryTime |-> now + intentExpirationPeriod]
             locks == [g \in IntentHashes |->
                          IF g = h THEN lock
                          ELSE IF g \in expired THEN NoIntent
                          ELSE depositIntents[d][g]]
  <2>1. expired \in SUBSET IntentHashes
    BY ReclaimsOwnLocks
  <2>2. /\ CanReclaim(d, expired)
        /\ deposit.remainingDeposits >= amount
        /\ deposits' = [deposits EXCEPT ![d] = locked]
        /\ depositIntentHashes' =
             [depositIntentHashes EXCEPT ![d] = (@ \ expired) \cup {h}]
        /\ depositIntents' = [depositIntents EXCEPT ![d] = locks]
    BY <1>1 DEF LockFunds, HasLiquidity
  <2>3. deposit \in Deposit
    BY <2>1, <2>2, ReclaimedType
  <2>4. lock \in Intent
    BY DEF TypeOK, Intent
  <2>5. locks \in [IntentHashes -> Intent]
    BY <2>4 DEF TypeOK, NoIntent, Intent
  <2> HIDE DEF deposit, expired, lock
  <2>6. locked \in Deposit
    <3>1. /\ deposit.remainingDeposits - amount \in Nat
          /\ deposit.outstandingIntentAmount + amount \in Nat
      BY <2>2, <2>3 DEF Deposit
    <3> QED
      BY <2>3, <3>1, DepositUpdate
  <2> HIDE DEF locked, locks
  <2>7. /\ deposits' \in [DepositIds -> Deposit]
        /\ depositIntentHashes' \in [DepositIds -> SUBSET IntentHashes]
        /\ depositIntents' \in [DepositIds -> [IntentHashes -> Intent]]
    BY <2>2, <2>5, <2>6 DEF TypeOK
  <2> QED
    BY <1>1, <2>7 DEF TypeOK, LockFunds, settings
<1>2. ASSUME UnlockFunds(o, d, h)
      PROVE  TypeOK'
  <2>1. held <= deposits[d].outstandingIntentAmount /\ DropLocks(d, {h})
    BY <1>2 DEF UnlockFunds
  <2> DEFINE unlocked == [deposits[d] EXCEPT !.remainingDeposits = @ + held,
                                            !.outstandingIntentAmount = @ - held]
  <2>2. deposits' \in [DepositIds -> Deposit]
    <3>1. /\ deposits[d].remainingDeposits + held \in Nat
          /\ deposits[d].outstandingIntentAmount - held \in Nat
      BY <1>0, <2>1 DEF Deposit
    <3>2. unlocked \in Deposit
      BY <1>0, <3>1, DepositUpdate
    <3>3. deposits' = [deposits EXCEPT ![d] = unlocked]
      BY <1>2, Zenon DEF UnlockFunds
    <3> HIDE DEF unlocked
    <3> QED
      BY <3>2, <3>3 DEF TypeOK
  <2> QED
    BY <1>2, <2>1, <2>2, DropLocksType DEF TypeOK, UnlockFunds, settings
<1>3. ASSUME NEW amount \in Amounts, UnlockAndTransferFunds(o, d, h, amount)
      PROVE  TypeOK'
  <2> DEFINE deposit == [deposits[d] EXCEPT
                            !.remainingDeposits = @ + (held - amount),
                            !.outstandingIntentAmount = @ - held]
  <2>1. /\ amount <= held
        /\ held <= deposits[d].outstandingIntentAmount
        /\ DropLocks(d, {h})
        /\ CloseIfNecessary(d, deposit)
        /\ TransferOut(deposit.token, SweptDust(deposit) + amount)
    BY <1>3 DEF UnlockAndTransferFunds
  <2>2. deposit \in Deposit
    <3>1. /\ deposits[d].remainingDeposits + (held - amount) \in Nat
          /\ deposits[d].outstandingIntentAmount - held \in Nat
      BY <1>0, <2>1 DEF Deposit
    <3> QED
      BY <1>0, <3>1, DepositUpdate
  <2> HIDE DEF deposit
  <2>3. tokenBalance' \in [Tokens -> Nat]
    <3>1. SweptDust(deposit) + amount \in Nat
      BY <2>2, SweptType
    <3> QED
      BY <2>1, <3>1, TransferType
  <2>4. /\ deposits' \in [DepositIds -> Deposit]
        /\ accountDeposits' \in [Accounts -> SUBSET DepositIds]
    BY <2>1, <2>2, CloseType
  <2> QED
    BY <1>3, <2>1, <2>3, <2>4, DropLocksType DEF TypeOK, UnlockAndTransferFunds, settings
<1> QED
  BY <1>1, <1>2, <1>3

LEMMA TypeGuardian == TypeOK /\ GuardianNext => TypeOK'
<1> SUFFICES ASSUME TypeOK, NEW a \in Accounts, NEW d \in DepositIds,
                    NEW h \in IntentHashes, NEW time \in 1 .. MaxTime,
                    ExtendIntentExpiry(a, d, h, time)
             PROVE  TypeOK'
  BY DEF GuardianNext
<1>1. depositIntents' \in [DepositIds -> [IntentHashes -> Intent]]
  <2> DEFINE lock == depositIntents[d][h]
             extended == [lock EXCEPT !.expiryTime = @ + time]
             locks == [depositIntents[d] EXCEPT ![h] = extended]
  <2>1. lock \in Intent /\ depositIntents[d] \in [IntentHashes -> Intent]
    BY DEF TypeOK
  <2>2. extended \in Intent
    BY <2>1, NumbersAssumption DEF Intent
  <2>3. depositIntents' = [depositIntents EXCEPT ![d] = locks]
    BY Zenon DEF ExtendIntentExpiry
  <2> HIDE DEF extended
  <2>4. locks \in [IntentHashes -> Intent]
    BY <2>1, <2>2
  <2> HIDE DEF locks
  <2> QED
    BY <2>3, <2>4 DEF TypeOK
<1> QED
  BY <1>1 DEF TypeOK, ExtendIntentExpiry, settings

LEMMA TypeOwner == TypeOK /\ OwnerNext => TypeOK'
BY DEF TypeOK, OwnerNext, SetOrchestrator, SetDustThreshold, SetMaxIntentsPerDeposit,
       SetIntentExpirationPeriod, PauseEscrow, UnpauseEscrow, books

LEMMA TypeNext == TypeOK /\ [Next]_vars => TypeOK'
<1> SUFFICES ASSUME TypeOK, [Next]_vars PROVE TypeOK'
  OBVIOUS
<1>1. CASE Tick
  BY <1>1, NumbersAssumption DEF TypeOK, Tick, books, settings
<1>2. CASE UNCHANGED vars
  BY <1>2 DEF TypeOK, vars, books, settings
<1> QED
  BY <1>1, <1>2, TypeManage, TypeReclaim, TypeOrchestrator, TypeGuardian, TypeOwner
  DEF Next

\* Every reachable state of the escrow is well typed: in particular no checked
\* subtraction of a balance, an amount on offer or an amount under lock ever
\* yields a negative number, whatever orchestrator is installed.
THEOREM TypeCorrect == Spec => []TypeOK
BY TypeInit, TypeNext, PTL DEF Spec

-----------------------------------------------------------------------------
(* The ledger.  The safety invariants of Escrow lean on each other: a lock    *)
(* can be reclaimed because the total covers it, a deposit is deleted with    *)
(* no lock left because the total is the sum of the locks and no lock is      *)
(* empty, no lock is empty because a deposit's minimum is positive, and the   *)
(* balance covers every payment because it is the sum of the deposits.        *)

\* The deposit's array, mapping and running total of locks.
LocksAgree(d) ==
    /\ depositIntentHashes[d] = {h \in IntentHashes : Locked(d, h)}
    /\ \A h \in IntentHashes : Locked(d, h) => depositIntents[d][h].amount # 0
    /\ deposits[d].outstandingIntentAmount = LockedAmount(d, IntentHashes)

RecordSound(d) ==
    /\ Exists(d) => deposits[d].token \in Tokens /\ deposits[d].min # 0
    /\ ~Exists(d) => deposits[d] = NoDeposit /\ depositIntentHashes[d] = {}
    /\ d >= depositCounter => ~Exists(d)

ListsAgree ==
    \A a \in Accounts :
        accountDeposits[a] = {d \in DepositIds : deposits[d].depositor = a}

\* The inductive invariant.
LedgerInv ==
    /\ TypeOK
    /\ \A d \in DepositIds : LocksAgree(d) /\ RecordSound(d)
    /\ ListsAgree
    /\ BooksBalance

LEMMA LedgerInvImplies ==
    LedgerInv => /\ OutstandingMatchesLocks
                 /\ ClosedDepositsHoldNothing
                 /\ BooksBalance
BY Zenon DEF LedgerInv, LocksAgree, RecordSound, ListsAgree, OutstandingMatchesLocks,
       ClosedDepositsHoldNothing

\* What a deposit record contributes to the balance of token t.
Worth(deposit, t) ==
    IF deposit.token = t
    THEN deposit.remainingDeposits + deposit.outstandingIntentAmount
    ELSE 0

LEMMA WorthType ==
    ASSUME NEW deposit \in Deposit, NEW t
    PROVE  Worth(deposit, t) \in Nat
BY DEF Worth, Deposit

LEMMA NoDepositWorth ==
    ASSUME NEW t \in Tokens
    PROVE  Worth(NoDeposit, t) = 0
BY TokensAssumption DEF Worth, NoDeposit

LEMMA DepositIdsFinite == IsFiniteSet(DepositIds)
BY FS_Interval, NumbersAssumption

\* When one deposit changes and the balance follows it, the books still balance.
LEMMA BooksFollow ==
    ASSUME TypeOK, TypeOK', BooksBalance, NEW d \in DepositIds,
           \A e \in DepositIds \ {d} : deposits'[e] = deposits[e],
           \A t \in Tokens : tokenBalance'[t] =
               tokenBalance[t] - Worth(deposits[d], t) + Worth(deposits'[d], t)
    PROVE  BooksBalance'
<1> SUFFICES ASSUME NEW t \in Tokens
             PROVE  tokenBalance'[t] = SumFunctionOnSet(Backing(t)', DepositIds)
  BY DEF BooksBalance
<1> DEFINE before == Backing(t)
           after == Backing(t)'
<1>1. \A e \in DepositIds : before[e] = Worth(deposits[e], t)
  BY DEF Backing, Worth, Value
<1>2. \A e \in DepositIds : after[e] = Worth(deposits'[e], t)
  BY DEF Backing, Worth, Value
<1>3. \A e \in DepositIds : deposits[e] \in Deposit /\ deposits'[e] \in Deposit
  BY DEF TypeOK
<1>4. tokenBalance[t] = SumFunctionOnSet(before, DepositIds)
  BY DEF BooksBalance
<1> HIDE DEF before, after, DepositIds
<1>5. \A e \in DepositIds : before[e] \in Nat /\ after[e] \in Nat
  BY <1>1, <1>2, <1>3, WorthType
<1>6. \A e \in DepositIds \ {d} : before[e] = after[e]
  BY <1>1, <1>2
<1>7. SumFunctionOnSet(after, DepositIds) =
        SumFunctionOnSet(before, DepositIds) - before[d] + after[d]
  BY <1>5, <1>6, SumUpdate, DepositIdsFinite
<1> QED
  BY <1>1, <1>2, <1>4, <1>7 DEF after

\* A step that touches deposit d alone keeps the ledger if it leaves d's own
\* locks and record in order, its id on the right list and the balance in step.
LEMMA LedgerStep ==
    ASSUME LedgerInv, TypeOK', NEW d \in DepositIds,
           /\ \A e \in DepositIds \ {d} :
                 /\ deposits'[e] = deposits[e]
                 /\ depositIntentHashes'[e] = depositIntentHashes[e]
                 /\ depositIntents'[e] = depositIntents[e]
           /\ depositCounter' >= depositCounter,
           LocksAgree(d)', RecordSound(d)', ListsAgree',
           \A t \in Tokens : tokenBalance'[t] =
               tokenBalance[t] - Worth(deposits[d], t) + Worth(deposits'[d], t)
    PROVE  LedgerInv'
<1>1. BooksBalance'
  BY BooksFollow DEF LedgerInv
<1>2. ASSUME NEW e \in DepositIds \ {d}
      PROVE  LocksAgree(e)' /\ RecordSound(e)'
  <2>1. LocksAgree(e) /\ RecordSound(e)
    BY DEF LedgerInv
  <2>2. /\ deposits'[e] = deposits[e]
        /\ depositIntentHashes'[e] = depositIntentHashes[e]
        /\ depositIntents'[e] = depositIntents[e]
    OBVIOUS
  <2>3. LocksAgree(e)'
    BY <2>1, <2>2 DEF LocksAgree, Locked, LockedAmount
  <2>4. RecordSound(e)'
    BY <2>1, <2>2 DEF RecordSound, Exists, LedgerInv, TypeOK
  <2> QED
    BY <2>3, <2>4
<1> QED
  BY <1>1, <1>2 DEF LedgerInv

\* What dropping some of a deposit's locks does to the rest.
LEMMA DropLocksEffect ==
    ASSUME TypeOK, TypeOK', NEW d \in DepositIds, LocksAgree(d),
           NEW S \in SUBSET IntentHashes, S \subseteq depositIntentHashes[d],
           DropLocks(d, S)
    PROVE  /\ depositIntentHashes'[d] = {h \in IntentHashes : Locked(d, h)'}
           /\ \A h \in IntentHashes :
                 Locked(d, h)' => depositIntents'[d][h].amount # 0
           /\ LockedAmount(d, IntentHashes)' =
                LockedAmount(d, IntentHashes) - LockedAmount(d, S)
           /\ \A e \in DepositIds \ {d} :
                 /\ depositIntentHashes'[e] = depositIntentHashes[e]
                 /\ depositIntents'[e] = depositIntents[e]
<1> DEFINE before == [h \in IntentHashes |-> depositIntents[d][h].amount]
           after == [h \in IntentHashes |-> depositIntents'[d][h].amount]
<1>1. /\ depositIntentHashes'[d] = depositIntentHashes[d] \ S
      /\ \A h \in IntentHashes : depositIntents'[d][h] =
            IF h \in S THEN NoIntent ELSE depositIntents[d][h]
      /\ \A e \in DepositIds \ {d} :
            /\ depositIntentHashes'[e] = depositIntentHashes[e]
            /\ depositIntents'[e] = depositIntents[e]
  BY DEF DropLocks, TypeOK
<1>2. /\ depositIntentHashes'[d] = {h \in IntentHashes : Locked(d, h)'}
      /\ \A h \in IntentHashes :
            Locked(d, h)' => depositIntents'[d][h].amount # 0
  BY <1>1 DEF LocksAgree, Locked
<1>3. \A h \in IntentHashes : before[h] \in Nat /\ after[h] \in Nat
  BY DEF TypeOK, Intent
<1>4. \A h \in IntentHashes : after[h] = IF h \in S THEN 0 ELSE before[h]
  BY <1>1 DEF NoIntent
<1>5. /\ LockedAmount(d, IntentHashes) = SumFunctionOnSet(before, IntentHashes)
      /\ LockedAmount(d, S) = SumFunctionOnSet(before, S)
      /\ LockedAmount(d, IntentHashes)' = SumFunctionOnSet(after, IntentHashes)
  BY DEF LockedAmount
<1> HIDE DEF before, after
<1>6. SumFunctionOnSet(after, IntentHashes) =
        SumFunctionOnSet(before, IntentHashes) - SumFunctionOnSet(before, S)
  BY <1>3, <1>4, SumDrop, HashesAssumption
<1> QED
  BY <1>1, <1>2, <1>5, <1>6

\* What placing a lock does to the locks that stay once some are dropped.
LEMMA AddLockEffect ==
    ASSUME TypeOK, TypeOK', NEW d \in DepositIds, LocksAgree(d),
           NEW S \in SUBSET IntentHashes, S \subseteq depositIntentHashes[d],
           NEW h \in IntentHashes, ~Locked(d, h),
           NEW lock \in Intent, lock.amount # 0,
           depositIntentHashes'[d] = (depositIntentHashes[d] \ S) \cup {h},
           \A g \in IntentHashes : depositIntents'[d][g] =
               IF g = h THEN lock
               ELSE IF g \in S THEN NoIntent ELSE depositIntents[d][g]
    PROVE  /\ depositIntentHashes'[d] = {g \in IntentHashes : Locked(d, g)'}
           /\ \A g \in IntentHashes :
                 Locked(d, g)' => depositIntents'[d][g].amount # 0
           /\ LockedAmount(d, IntentHashes)' =
                LockedAmount(d, IntentHashes) - LockedAmount(d, S) + lock.amount
<1> DEFINE before == [g \in IntentHashes |-> depositIntents[d][g].amount]
           between == [g \in IntentHashes |-> IF g \in S THEN 0 ELSE before[g]]
           after == [g \in IntentHashes |-> depositIntents'[d][g].amount]
<1>1. lock # NoIntent /\ NoIntent.amount = 0
  BY DEF NoIntent
<1>2. /\ depositIntentHashes'[d] = {g \in IntentHashes : Locked(d, g)'}
      /\ \A g \in IntentHashes :
            Locked(d, g)' => depositIntents'[d][g].amount # 0
  BY <1>1 DEF LocksAgree, Locked
<1>3. \A g \in IntentHashes :
          before[g] \in Nat /\ between[g] \in Nat /\ after[g] \in Nat
  <2>1. \A g \in IntentHashes :
            depositIntents[d][g] \in Intent /\ depositIntents'[d][g] \in Intent
    BY DEF TypeOK
  <2>2. \A g \in IntentHashes :
            depositIntents[d][g].amount \in Nat /\ depositIntents'[d][g].amount \in Nat
    BY <2>1 DEF Intent
  <2> QED
    BY <2>2
<1>4. \A g \in IntentHashes : between[g] = IF g \in S THEN 0 ELSE before[g]
  OBVIOUS
<1>5. between[h] = 0 /\ after[h] = lock.amount
  BY <1>1 DEF Locked
<1>6. \A g \in IntentHashes \ {h} : between[g] = after[g]
  BY <1>1
<1>7. /\ LockedAmount(d, IntentHashes) = SumFunctionOnSet(before, IntentHashes)
      /\ LockedAmount(d, S) = SumFunctionOnSet(before, S)
      /\ LockedAmount(d, IntentHashes)' = SumFunctionOnSet(after, IntentHashes)
  BY DEF LockedAmount
<1> HIDE DEF before, between, after
<1>8. SumFunctionOnSet(between, IntentHashes) =
        SumFunctionOnSet(before, IntentHashes) - SumFunctionOnSet(before, S)
  BY <1>3, <1>4, SumDrop, HashesAssumption
<1>9. SumFunctionOnSet(after, IntentHashes) =
         SumFunctionOnSet(between, IntentHashes) - between[h] + after[h]
  BY <1>3, <1>6, SumUpdate, HashesAssumption
<1>10. SumFunctionOnSet(between, IntentHashes) \in Nat /\ lock.amount \in Nat
  BY <1>3, SumType, HashesAssumption DEF Intent
<1> QED
  BY <1>2, <1>5, <1>7, <1>8, <1>9, <1>10

\* The amount of one lock.
LEMMA OneLock ==
    ASSUME TypeOK, NEW d \in DepositIds, NEW h \in IntentHashes
    PROVE  LockedAmount(d, {h}) = depositIntents[d][h].amount
<1> DEFINE amounts == [g \in IntentHashes |-> depositIntents[d][g].amount]
<1>1. amounts[h] \in Nat /\ amounts[h] = depositIntents[d][h].amount
  BY DEF TypeOK, Intent
<1>2. LockedAmount(d, {h}) = SumFunctionOnSet(amounts, {h})
  BY DEF LockedAmount
<1> HIDE DEF amounts
<1>3. SumFunctionOnSet(amounts, {} \cup {h}) = amounts[h] + SumFunctionOnSet(amounts, {})
  BY <1>1, SumAdd, FS_EmptySet
<1>4. SumFunctionOnSet(amounts, {}) = 0
  BY SumEmpty
<1>5. {} \cup {h} = {h}
  OBVIOUS
<1> QED
  BY <1>1, <1>2, <1>3, <1>4, <1>5

\* With no amount outstanding there is no lock.
LEMMA NothingOutstanding ==
    ASSUME TypeOK, NEW d \in DepositIds, LocksAgree(d),
           LockedAmount(d, IntentHashes) = 0
    PROVE  depositIntentHashes[d] = {}
<1> DEFINE amounts == [g \in IntentHashes |-> depositIntents[d][g].amount]
<1>1. \A h \in IntentHashes : amounts[h] \in Nat
  BY DEF TypeOK, Intent
<1>2. SumFunctionOnSet(amounts, IntentHashes) = 0
  BY DEF LockedAmount
<1> HIDE DEF amounts
<1>3. \A h \in IntentHashes : amounts[h] = 0
  BY <1>1, <1>2, SumZero, HashesAssumption
<1>4. \A h \in IntentHashes : depositIntents[d][h].amount = 0
  BY <1>3 DEF amounts
<1> QED
  BY <1>4 DEF LocksAgree

\* An open deposit stays open with a new record that agrees with its locks.
LEMMA KeptStep ==
    ASSUME LedgerInv, TypeOK', NEW d \in DepositIds, Exists(d),
           NEW new \in Deposit,
           deposits' = [deposits EXCEPT ![d] = new],
           new.depositor = deposits[d].depositor,
           new.token = deposits[d].token,
           new.min # 0,
           new.outstandingIntentAmount = LockedAmount(d, IntentHashes)',
           depositIntentHashes'[d] = {h \in IntentHashes : Locked(d, h)'},
           \A h \in IntentHashes :
               Locked(d, h)' => depositIntents'[d][h].amount # 0,
           \A e \in DepositIds \ {d} :
               /\ depositIntentHashes'[e] = depositIntentHashes[e]
               /\ depositIntents'[e] = depositIntents[e],
           UNCHANGED <<depositCounter, accountDeposits>>,
           \A t \in Tokens : tokenBalance'[t] =
               tokenBalance[t] - Worth(deposits[d], t) + Worth(new, t)
    PROVE  LedgerInv'
<1>1. /\ deposits'[d] = new
      /\ \A e \in DepositIds \ {d} : deposits'[e] = deposits[e]
  BY DEF LedgerInv, TypeOK
<1>2. LocksAgree(d)'
  BY <1>1 DEF LocksAgree
<1>3. Exists(d)'
  BY <1>1 DEF Exists
<1>4. RecordSound(d)'
  <2>1. RecordSound(d)
    BY DEF LedgerInv
  <2> QED
    BY <1>1, <1>3, <2>1 DEF RecordSound
<1>5. ListsAgree'
  <2>1. \A e \in DepositIds : deposits'[e].depositor = deposits[e].depositor
    BY <1>1
  <2> QED
    BY <2>1 DEF LedgerInv, ListsAgree
<1>6. depositCounter' >= depositCounter
  BY DEF LedgerInv, TypeOK
<1> QED
  BY <1>1, <1>2, <1>4, <1>5, <1>6, LedgerStep

\* Paying out of a deposit what its record gives up keeps the balance in step.
LEMMA PaidOut ==
    ASSUME TypeOK, NEW old \in Deposit, NEW new \in Deposit, NEW out \in Nat,
           old.token \in Tokens, new.token = old.token,
           TransferOut(old.token, out),
           new.remainingDeposits + new.outstandingIntentAmount + out =
               old.remainingDeposits + old.outstandingIntentAmount
    PROVE  \A t \in Tokens : tokenBalance'[t] =
               tokenBalance[t] - Worth(old, t) + Worth(new, t)
BY DEF TypeOK, TransferOut, Worth, Deposit

LEMMA PaidIn ==
    ASSUME TypeOK, NEW old \in Deposit, NEW new \in Deposit, NEW in \in Nat,
           new.token \in Tokens, old.token = new.token \/ old = NoDeposit,
           TransferIn(new.token, in),
           new.remainingDeposits + new.outstandingIntentAmount =
               old.remainingDeposits + old.outstandingIntentAmount + in
    PROVE  \A t \in Tokens : tokenBalance'[t] =
               tokenBalance[t] - Worth(old, t) + Worth(new, t)
<1> SUFFICES ASSUME NEW t \in Tokens
             PROVE  tokenBalance'[t] = tokenBalance[t] - Worth(old, t) + Worth(new, t)
  OBVIOUS
<1>1. /\ tokenBalance[t] \in Nat
      /\ tokenBalance'[t] = tokenBalance[t] + IF t = new.token THEN in ELSE 0
  BY DEF TypeOK, TransferIn
<1>2. Worth(new, t) = Worth(old, t) + IF t = new.token THEN in ELSE 0
  <2>1. CASE old.token = new.token
    BY <2>1 DEF Worth
  <2>2. CASE old = NoDeposit
    <3>1. new.remainingDeposits + new.outstandingIntentAmount = in
      BY <2>2 DEF NoDeposit
    <3>2. Worth(old, t) = 0
      BY <2>2, NoDepositWorth
    <3> QED
      BY <3>1, <3>2 DEF Worth
  <2> QED
    BY <2>1, <2>2
<1>3. Worth(old, t) \in Nat
  BY WorthType
<1> QED
  BY <1>1, <1>2, <1>3

LEMMA NothingPaid ==
    ASSUME TypeOK, NEW old \in Deposit, NEW new \in Deposit,
           new.token = old.token, UNCHANGED tokenBalance,
           new.remainingDeposits + new.outstandingIntentAmount =
               old.remainingDeposits + old.outstandingIntentAmount
    PROVE  \A t \in Tokens : tokenBalance'[t] =
               tokenBalance[t] - Worth(old, t) + Worth(new, t)
BY DEF TypeOK, Worth, Deposit

\* An open deposit settles to a new record and is closed if that is closable.
LEMMA CloseStep ==
    ASSUME LedgerInv, TypeOK', NEW d \in DepositIds, Exists(d),
           NEW new \in Deposit, NEW paid \in Nat,
           CloseIfNecessary(d, new),
           new.depositor = deposits[d].depositor,
           new.token = deposits[d].token,
           new.min # 0,
           new.outstandingIntentAmount = LockedAmount(d, IntentHashes)',
           depositIntentHashes'[d] = {h \in IntentHashes : Locked(d, h)'},
           \A h \in IntentHashes :
               Locked(d, h)' => depositIntents'[d][h].amount # 0,
           \A e \in DepositIds \ {d} :
               /\ depositIntentHashes'[e] = depositIntentHashes[e]
               /\ depositIntents'[e] = depositIntents[e],
           UNCHANGED depositCounter,
           new.remainingDeposits + new.outstandingIntentAmount + paid =
               deposits[d].remainingDeposits + deposits[d].outstandingIntentAmount,
           TransferOut(deposits[d].token, SweptDust(new) + paid)
    PROVE  LedgerInv'
<1> DEFINE old == deposits[d]
<1>1. old \in Deposit /\ old.token \in Tokens /\ TypeOK
  BY DEF LedgerInv, TypeOK, RecordSound
<1>2. CASE ~IsClosable(new)
  <2>1. /\ deposits' = [deposits EXCEPT ![d] = new]
        /\ UNCHANGED accountDeposits
    BY <1>2 DEF CloseIfNecessary
  <2>2. SweptDust(new) + paid = paid
    BY <1>2 DEF SweptDust
  <2>3. \A t \in Tokens : tokenBalance'[t] =
           tokenBalance[t] - Worth(old, t) + Worth(new, t)
    BY <1>1, <2>2, PaidOut
  <2> QED
    BY <2>1, <2>3, KeptStep
<1>3. CASE IsClosable(new)
  <2>1. /\ accountDeposits' =
              [accountDeposits EXCEPT ![new.depositor] = @ \ {d}]
        /\ deposits' = [deposits EXCEPT ![d] = NoDeposit]
    BY <1>3 DEF CloseIfNecessary
  <2>2. /\ deposits'[d] = NoDeposit
        /\ \A e \in DepositIds \ {d} : deposits'[e] = deposits[e]
    BY <2>1 DEF LedgerInv, TypeOK
  <2>3. new.outstandingIntentAmount = 0 /\ SweptDust(new) = new.remainingDeposits
    BY <1>3 DEF IsClosable, SweptDust
  <2>4. LocksAgree(d)'
    BY <2>2, <2>3 DEF LocksAgree, NoDeposit
  <2>5. depositIntentHashes'[d] = {}
    <3>1. LockedAmount(d, IntentHashes)' = 0
      BY <2>3
    <3>2. (TypeOK /\ LocksAgree(d) /\ LockedAmount(d, IntentHashes) = 0
             => depositIntentHashes[d] = {})'
      BY NothingOutstanding, PTL
    <3> QED
      BY <2>4, <3>1, <3>2
  <2>6. RecordSound(d)'
    BY <2>2, <2>5 DEF RecordSound, Exists, NoDeposit
  <2>7. ListsAgree'
    <3>1. NoDeposit.depositor \notin Accounts
      BY AccountsAssumption DEF NoDeposit
    <3> QED
      BY <2>1, <2>2, <3>1 DEF LedgerInv, ListsAgree, TypeOK
  <2>8. \A t \in Tokens : tokenBalance'[t] =
           tokenBalance[t] - Worth(old, t) + Worth(deposits'[d], t)
    <3> SUFFICES ASSUME NEW t \in Tokens
                 PROVE  tokenBalance'[t] = tokenBalance[t] - Worth(old, t)
      BY <1>1, <2>2, NoDepositWorth, WorthType DEF TypeOK
    <3>1. SweptDust(new) + paid = old.remainingDeposits + old.outstandingIntentAmount
      BY <1>1, <2>3 DEF Deposit
    <3>2. tokenBalance[t] \in Nat
          /\ tokenBalance'[t] = IF t = old.token
                THEN tokenBalance[t] - (old.remainingDeposits + old.outstandingIntentAmount)
                ELSE tokenBalance[t]
      BY <1>1, <3>1 DEF TransferOut, TypeOK
    <3> QED
      BY <3>2 DEF Worth
  <2>9. depositCounter' >= depositCounter
    BY DEF LedgerInv, TypeOK
  <2> QED
    BY <2>2, <2>4, <2>6, <2>7, <2>8, <2>9, LedgerStep
<1> QED
  BY <1>2, <1>3

\* Setters that leave the amounts, the locks and the balance alone.
LEMMA EditStep ==
    ASSUME LedgerInv, TypeOK', NEW d \in DepositIds, Exists(d),
           NEW new \in Deposit,
           deposits' = [deposits EXCEPT ![d] = new],
           new.depositor = deposits[d].depositor,
           new.token = deposits[d].token,
           new.min # 0,
           new.outstandingIntentAmount = deposits[d].outstandingIntentAmount,
           UNCHANGED <<depositCounter, accountDeposits, depositIntentHashes,
                       depositIntents>>,
           \A t \in Tokens : tokenBalance'[t] =
               tokenBalance[t] - Worth(deposits[d], t) + Worth(new, t)
    PROVE  LedgerInv'
<1>1. LocksAgree(d)
  BY DEF LedgerInv
<1>2. /\ LockedAmount(d, IntentHashes)' = LockedAmount(d, IntentHashes)
      /\ \A h \in IntentHashes : Locked(d, h)' <=> Locked(d, h)
  BY DEF LockedAmount, Locked
<1>3. /\ new.outstandingIntentAmount = LockedAmount(d, IntentHashes)'
      /\ depositIntentHashes'[d] = {h \in IntentHashes : Locked(d, h)'}
      /\ \A h \in IntentHashes :
            Locked(d, h)' => depositIntents'[d][h].amount # 0
  BY <1>1, <1>2 DEF LocksAgree
<1> QED
  BY <1>3, KeptStep

LEMMA LedgerCreate ==
    ASSUME LedgerInv, TypeOK', NEW a \in Accounts, NEW t \in Tokens,
           NEW amount \in Amounts, NEW min \in Amounts, NEW max \in Amounts,
           NEW guardian \in Accounts \cup {NoAccount}, NEW retain \in BOOLEAN,
           CreateDeposit(a, t, amount, min, max, guardian, retain)
    PROVE  LedgerInv'
<1>0. depositCounter \in DepositIds
  BY NumbersAssumption DEF LedgerInv, TypeOK, CreateDeposit
<1>d. PICK d \in DepositIds : d = depositCounter
  BY <1>0
<1> DEFINE new == [depositor |-> a, token |-> t, min |-> min, max |-> max,
                   acceptingIntents |-> TRUE, remainingDeposits |-> amount,
                   outstandingIntentAmount |-> 0, intentGuardian |-> guardian,
                   retainOnEmpty |-> retain]
<1>1. /\ d \in Nat
      /\ depositCounter' = d + 1
  BY <1>d, NumbersAssumption DEF CreateDeposit
<1>2. /\ ~Exists(d)
      /\ deposits[d] = NoDeposit
      /\ LocksAgree(d)
      /\ depositIntentHashes[d] = {}
  BY <1>1, <1>d DEF LedgerInv, RecordSound
<1>3. /\ deposits' = [deposits EXCEPT ![d] = new]
      /\ accountDeposits' = [accountDeposits EXCEPT ![a] = @ \cup {d}]
      /\ depositIntentHashes' = depositIntentHashes
      /\ depositIntents' = depositIntents
      /\ TransferIn(t, amount)
      /\ min # 0
  BY <1>d DEF CreateDeposit
<1>4. /\ deposits'[d] = new
      /\ \A e \in DepositIds \ {d} : deposits'[e] = deposits[e]
  BY <1>1, <1>3 DEF LedgerInv, TypeOK
<1>5. LocksAgree(d)'
  BY <1>2, <1>3, <1>4 DEF LocksAgree, Locked, LockedAmount, NoDeposit
<1>6. RecordSound(d)'
  BY <1>1, <1>3, <1>4, AccountsAssumption DEF RecordSound, Exists
<1>7. ListsAgree'
  <2>1. NoDeposit.depositor \notin Accounts
    BY AccountsAssumption DEF NoDeposit
  <2>2. new.depositor = a
    OBVIOUS
  <2>3. \A b \in Accounts : accountDeposits'[b] =
            IF b = a THEN accountDeposits[b] \cup {d} ELSE accountDeposits[b]
    BY <1>3 DEF LedgerInv, TypeOK
  <2> HIDE DEF new, DepositIds
  <2> SUFFICES ASSUME NEW b \in Accounts
               PROVE  accountDeposits'[b] =
                        {e \in DepositIds : deposits'[e].depositor = b}
    BY DEF ListsAgree
  <2>4. accountDeposits[b] = {e \in DepositIds : deposits[e].depositor = b}
    BY DEF LedgerInv, ListsAgree
  <2>5. \A e \in DepositIds : deposits'[e].depositor =
            IF e = d THEN a ELSE deposits[e].depositor
    BY <1>4, <2>2
  <2>6. deposits[d].depositor # b
    BY <1>2, <2>1
  <2> QED
    BY <2>3, <2>4, <2>5, <2>6
<1>8. \A u \in Tokens : tokenBalance'[u] =
        tokenBalance[u] - Worth(deposits[d], u) + Worth(deposits'[d], u)
  <2>1. amount \in Nat /\ new \in Deposit /\ NoDeposit \in Deposit
    BY <1>1, <1>4, NoDepositType, NumbersAssumption DEF TypeOK
  <2>2. new.remainingDeposits + new.outstandingIntentAmount =
          NoDeposit.remainingDeposits + NoDeposit.outstandingIntentAmount + amount
    BY <2>1 DEF NoDeposit
  <2>3. new.token = t
    OBVIOUS
  <2> HIDE DEF new
  <2> QED
    BY <1>2, <1>3, <1>4, <2>1, <2>2, <2>3, PaidIn DEF LedgerInv
<1>9. \A e \in DepositIds \ {d} :
         /\ deposits'[e] = deposits[e]
         /\ depositIntentHashes'[e] = depositIntentHashes[e]
         /\ depositIntents'[e] = depositIntents[e]
  BY <1>3, <1>4
<1>10. depositCounter' >= depositCounter
  BY <1>1, <1>d
<1> HIDE DEF new
<1> QED
  BY <1>1, <1>5, <1>6, <1>7, <1>8, <1>9, <1>10, LedgerStep

LEMMA LedgerManage == LedgerInv /\ TypeOK' /\ ManageNext => LedgerInv'
<1> SUFFICES ASSUME LedgerInv, TypeOK', ManageNext PROVE LedgerInv'
  OBVIOUS
<1>0. TypeOK
  BY DEF LedgerInv
<1> USE NumbersAssumption
<1>1. ASSUME NEW d \in DepositIds, NEW amount \in Amounts, AddFunds(d, amount)
      PROVE  LedgerInv'
  <2> DEFINE old == deposits[d]
             new == [old EXCEPT !.remainingDeposits = @ + amount]
  <2>1. old \in Deposit /\ Exists(d) /\ old.token \in Tokens /\ old.min # 0
    BY <1>1 DEF LedgerInv, TypeOK, RecordSound, AddFunds
  <2>2. old.remainingDeposits + amount \in Nat
    BY <2>1 DEF Deposit
  <2>3. /\ new \in Deposit
        /\ new.remainingDeposits = old.remainingDeposits + amount
        /\ new.outstandingIntentAmount = old.outstandingIntentAmount
        /\ new.depositor = old.depositor
        /\ new.token = old.token
        /\ new.min = old.min
    BY <2>1, <2>2, RemainderUpdate
  <2>4. deposits' = [deposits EXCEPT ![d] = new]
    BY <1>1 DEF AddFunds
  <2>5. UNCHANGED <<depositCounter, accountDeposits, depositIntentHashes,
                    depositIntents>>
    BY <1>1 DEF AddFunds
  <2>6. TransferIn(old.token, amount)
    BY <1>1 DEF AddFunds
  <2> HIDE DEF new, old
  <2>7. new.remainingDeposits + new.outstandingIntentAmount =
          old.remainingDeposits + old.outstandingIntentAmount + amount
    BY <2>1, <2>3 DEF Deposit
  <2>8. \A t \in Tokens : tokenBalance'[t] =
           tokenBalance[t] - Worth(old, t) + Worth(new, t)
    BY <1>0, <2>1, <2>3, <2>6, <2>7, PaidIn
  <2> QED
    BY <2>1, <2>3, <2>4, <2>5, <2>8, EditStep DEF old
<1>2. ASSUME NEW d \in DepositIds, Exists(d), NEW new \in Deposit,
             deposits' = [deposits EXCEPT ![d] = new],
             new.depositor = deposits[d].depositor,
             new.token = deposits[d].token,
             new.min # 0,
             new.remainingDeposits = deposits[d].remainingDeposits,
             new.outstandingIntentAmount = deposits[d].outstandingIntentAmount,
             UNCHANGED <<depositCounter, accountDeposits, depositIntentHashes,
                         depositIntents, tokenBalance>>
      PROVE  LedgerInv'
  <2>1. deposits[d] \in Deposit
    BY <1>0 DEF TypeOK
  <2>2. \A t \in Tokens : tokenBalance'[t] =
           tokenBalance[t] - Worth(deposits[d], t) + Worth(new, t)
    BY <1>0, <1>2, <2>1, NothingPaid
  <2> QED
    BY <1>2, <2>2, EditStep
<1>3. ASSUME NEW d \in DepositIds, NEW min \in Amounts, NEW max \in Amounts,
             SetIntentRange(d, min, max)
      PROVE  LedgerInv'
  <2> DEFINE old == deposits[d]
             ranged == [old EXCEPT !.min = min, !.max = max]
             new == Demoted(ranged)
  <2>1. old \in Deposit /\ min \in Nat /\ max \in Nat /\ min # 0 /\ Exists(d)
    BY <1>0, <1>3 DEF TypeOK, SetIntentRange
  <2>2. /\ ranged \in Deposit
        /\ ranged.min = min
        /\ ranged.depositor = old.depositor
        /\ ranged.token = old.token
        /\ ranged.remainingDeposits = old.remainingDeposits
        /\ ranged.outstandingIntentAmount = old.outstandingIntentAmount
    BY <2>1 DEF Deposit
  <2>3. deposits' = [deposits EXCEPT ![d] = new]
    BY <1>3 DEF SetIntentRange
  <2>4. UNCHANGED <<depositCounter, accountDeposits, depositIntentHashes,
                    depositIntents, tokenBalance>>
    BY <1>3 DEF SetIntentRange
  <2> HIDE DEF ranged
  <2>5. /\ new \in Deposit
        /\ new.min # 0
        /\ new.depositor = old.depositor
        /\ new.token = old.token
        /\ new.remainingDeposits = old.remainingDeposits
        /\ new.outstandingIntentAmount = old.outstandingIntentAmount
    BY <2>1, <2>2, DemotedType
  <2> HIDE DEF new
  <2> QED
    BY <1>2, <2>1, <2>3, <2>4, <2>5
<1>4. ASSUME NEW d \in DepositIds, NEW accepting \in BOOLEAN,
             SetAcceptingIntents(d, accepting)
      PROVE  LedgerInv'
  <2> DEFINE old == deposits[d]
             new == [old EXCEPT !.acceptingIntents = accepting]
  <2>1. old \in Deposit /\ Exists(d) /\ old.min # 0
    BY <1>4 DEF LedgerInv, TypeOK, RecordSound, SetAcceptingIntents
  <2>2. deposits' = [deposits EXCEPT ![d] = new]
    BY <1>4 DEF SetAcceptingIntents
  <2>3. UNCHANGED <<depositCounter, accountDeposits, depositIntentHashes,
                    depositIntents, tokenBalance>>
    BY <1>4 DEF SetAcceptingIntents
  <2>4. /\ new \in Deposit
        /\ new.min # 0
        /\ new.depositor = old.depositor
        /\ new.token = old.token
        /\ new.remainingDeposits = old.remainingDeposits
        /\ new.outstandingIntentAmount = old.outstandingIntentAmount
    BY <2>1 DEF Deposit
  <2> HIDE DEF new
  <2> QED
    BY <1>2, <2>1, <2>2, <2>3, <2>4
<1>5. ASSUME NEW d \in DepositIds, NEW retain \in BOOLEAN,
             SetRetainOnEmpty(d, retain)
      PROVE  LedgerInv'
  <2> DEFINE old == deposits[d]
             new == [old EXCEPT !.retainOnEmpty = retain]
  <2>1. old \in Deposit /\ Exists(d) /\ old.min # 0
    BY <1>5 DEF LedgerInv, TypeOK, RecordSound, SetRetainOnEmpty
  <2>2. deposits' = [deposits EXCEPT ![d] = new]
    BY <1>5 DEF SetRetainOnEmpty
  <2>3. UNCHANGED <<depositCounter, accountDeposits, depositIntentHashes,
                    depositIntents, tokenBalance>>
    BY <1>5 DEF SetRetainOnEmpty
  <2>4. /\ new \in Deposit
        /\ new.min # 0
        /\ new.depositor = old.depositor
        /\ new.token = old.token
        /\ new.remainingDeposits = old.remainingDeposits
        /\ new.outstandingIntentAmount = old.outstandingIntentAmount
    BY <2>1 DEF Deposit
  <2> HIDE DEF new
  <2> QED
    BY <1>2, <2>1, <2>2, <2>3, <2>4
<1>6. CASE \E a \in Accounts, t \in Tokens, amount, min, max \in Amounts,
              guardian \in Accounts \cup {NoAccount}, retain \in BOOLEAN :
                CreateDeposit(a, t, amount, min, max, guardian, retain)
  <2>1. PICK a \in Accounts, t \in Tokens, amount \in Amounts, min \in Amounts,
             max \in Amounts, guardian \in Accounts \cup {NoAccount},
             retain \in BOOLEAN :
               CreateDeposit(a, t, amount, min, max, guardian, retain)
    BY <1>6, Zenon
  <2> QED
    BY <2>1, LedgerCreate, SMT
<1>7. CASE \E d \in DepositIds, min, max \in Amounts : SetIntentRange(d, min, max)
  BY <1>3, <1>7, Zenon
<1>8. CASE \/ \E d \in DepositIds, amount \in Amounts : AddFunds(d, amount)
           \/ \E d \in DepositIds, accepting \in BOOLEAN :
                  SetAcceptingIntents(d, accepting)
           \/ \E d \in DepositIds, retain \in BOOLEAN : SetRetainOnEmpty(d, retain)
  BY <1>1, <1>4, <1>5, <1>8, Zenon
<1> QED
  BY <1>6, <1>7, <1>8, Zenon DEF ManageNext

LEMMA LedgerReclaim == LedgerInv /\ TypeOK' /\ ReclaimNext => LedgerInv'
<1> SUFFICES ASSUME LedgerInv, TypeOK', ReclaimNext PROVE LedgerInv'
  OBVIOUS
<1>0. TypeOK
  BY DEF LedgerInv
<1> USE NumbersAssumption
<1>1. ASSUME NEW a \in Accounts, NEW d \in DepositIds, NEW amount \in Amounts,
             RemoveFunds(a, d, amount)
      PROVE  LedgerInv'
  <2> DEFINE old == deposits[d]
             expired == ReclaimIfNecessary(d, amount)
             deposit == Reclaimed(d, expired)
             reduced == [deposit EXCEPT !.remainingDeposits = @ - amount]
             new == Demoted(reduced)
  <2>1. /\ old \in Deposit /\ Exists(d) /\ old.token \in Tokens /\ old.min # 0
        /\ LocksAgree(d)
    BY <1>1, AccountsAssumption DEF LedgerInv, TypeOK, RecordSound, RemoveFunds, Exists
  <2>2. expired \in SUBSET IntentHashes /\ expired \subseteq depositIntentHashes[d]
    BY <1>0, ReclaimsOwnLocks
  <2>3. /\ CanReclaim(d, expired)
        /\ deposit.remainingDeposits >= amount
        /\ deposits' = [deposits EXCEPT ![d] = new]
        /\ DropLocks(d, expired)
        /\ TransferOut(deposit.token, amount)
        /\ UNCHANGED <<depositCounter, accountDeposits>>
    BY <1>1 DEF RemoveFunds, HasLiquidity
  <2>4. /\ deposit \in Deposit
        /\ deposit.depositor = old.depositor
        /\ deposit.token = old.token
        /\ deposit.min = old.min
        /\ deposit.remainingDeposits = old.remainingDeposits + LockedAmount(d, expired)
        /\ deposit.outstandingIntentAmount =
             old.outstandingIntentAmount - LockedAmount(d, expired)
    BY <1>0, <2>2, <2>3, ReclaimedType
  <2>5. LockedAmount(d, expired) \in Nat
    BY <1>0, <2>2, LockedAmountType
  <2>6. /\ depositIntentHashes'[d] = {h \in IntentHashes : Locked(d, h)'}
        /\ \A h \in IntentHashes :
              Locked(d, h)' => depositIntents'[d][h].amount # 0
        /\ LockedAmount(d, IntentHashes)' =
             LockedAmount(d, IntentHashes) - LockedAmount(d, expired)
        /\ \A e \in DepositIds \ {d} :
              /\ depositIntentHashes'[e] = depositIntentHashes[e]
              /\ depositIntents'[e] = depositIntents[e]
    BY <1>0, <2>1, <2>2, <2>3, DropLocksEffect
  <2> HIDE DEF expired, deposit
  <2>7. /\ reduced \in Deposit
        /\ reduced.depositor = old.depositor
        /\ reduced.token = old.token
        /\ reduced.min = old.min
        /\ reduced.remainingDeposits = deposit.remainingDeposits - amount
        /\ reduced.outstandingIntentAmount = deposit.outstandingIntentAmount
    <3>1. deposit.remainingDeposits - amount \in Nat
      BY <2>3, <2>4 DEF Deposit
    <3> QED
      BY <2>4, <3>1, RemainderUpdate
  <2> HIDE DEF reduced
  <2>8. /\ new \in Deposit
        /\ new.depositor = old.depositor
        /\ new.token = old.token
        /\ new.min = old.min
        /\ new.remainingDeposits = deposit.remainingDeposits - amount
        /\ new.outstandingIntentAmount = deposit.outstandingIntentAmount
    BY <2>7, DemotedType
  <2> HIDE DEF new, old
  <2>9. new.outstandingIntentAmount = LockedAmount(d, IntentHashes)'
    BY <2>1, <2>4, <2>6, <2>8 DEF LocksAgree, old
  <2>10. new.remainingDeposits + new.outstandingIntentAmount + amount =
           old.remainingDeposits + old.outstandingIntentAmount
    BY <2>1, <2>4, <2>5, <2>8 DEF Deposit
  <2>11. \A t \in Tokens : tokenBalance'[t] =
            tokenBalance[t] - Worth(old, t) + Worth(new, t)
    BY <1>0, <2>1, <2>3, <2>4, <2>8, <2>10, PaidOut
  <2> QED
    BY <2>1, <2>3, <2>6, <2>8, <2>9, <2>11, KeptStep DEF old
<1>2. ASSUME NEW a \in Accounts, NEW d \in DepositIds, WithdrawDeposit(a, d)
      PROVE  LedgerInv'
  <2> DEFINE old == deposits[d]
             expired == ExpiredIntents(d)
             deposit == Reclaimed(d, expired)
             new == [deposit EXCEPT !.remainingDeposits = 0,
                                    !.acceptingIntents = FALSE]
             paid == deposit.remainingDeposits
  <2>1. /\ old \in Deposit /\ Exists(d) /\ old.token \in Tokens /\ old.min # 0
        /\ LocksAgree(d)
    BY <1>2, AccountsAssumption DEF LedgerInv, TypeOK, RecordSound, WithdrawDeposit, Exists
  <2>2. expired \in SUBSET IntentHashes /\ expired \subseteq depositIntentHashes[d]
    BY <1>0, ReclaimsOwnLocks
  <2>3. /\ CanReclaim(d, expired)
        /\ DropLocks(d, expired)
        /\ CloseIfNecessary(d, new)
        /\ TransferOut(deposit.token, SweptDust(new) + paid)
        /\ UNCHANGED depositCounter
    BY <1>2 DEF WithdrawDeposit
  <2>4. /\ deposit \in Deposit
        /\ deposit.depositor = old.depositor
        /\ deposit.token = old.token
        /\ deposit.min = old.min
        /\ deposit.remainingDeposits = old.remainingDeposits + LockedAmount(d, expired)
        /\ deposit.outstandingIntentAmount =
             old.outstandingIntentAmount - LockedAmount(d, expired)
    BY <1>0, <2>2, <2>3, ReclaimedType
  <2>5. LockedAmount(d, expired) \in Nat
    BY <1>0, <2>2, LockedAmountType
  <2>6. /\ depositIntentHashes'[d] = {h \in IntentHashes : Locked(d, h)'}
        /\ \A h \in IntentHashes :
              Locked(d, h)' => depositIntents'[d][h].amount # 0
        /\ LockedAmount(d, IntentHashes)' =
             LockedAmount(d, IntentHashes) - LockedAmount(d, expired)
        /\ \A e \in DepositIds \ {d} :
              /\ depositIntentHashes'[e] = depositIntentHashes[e]
              /\ depositIntents'[e] = depositIntents[e]
    BY <1>0, <2>1, <2>2, <2>3, DropLocksEffect
  <2> HIDE DEF expired, deposit
  <2>7. /\ new \in Deposit
        /\ new.depositor = old.depositor
        /\ new.token = old.token
        /\ new.min = old.min
        /\ new.remainingDeposits = 0
        /\ new.outstandingIntentAmount = deposit.outstandingIntentAmount
    BY <2>4 DEF Deposit
  <2> HIDE DEF new, old, paid
  <2>8. paid \in Nat
    BY <2>4 DEF Deposit, paid
  <2>9. new.outstandingIntentAmount = LockedAmount(d, IntentHashes)'
    BY <2>1, <2>4, <2>6, <2>7 DEF LocksAgree, old
  <2>10. new.remainingDeposits + new.outstandingIntentAmount + paid =
           old.remainingDeposits + old.outstandingIntentAmount
    BY <2>1, <2>4, <2>5, <2>7 DEF Deposit, paid
  <2> QED
    BY <2>1, <2>3, <2>4, <2>6, <2>7, <2>8, <2>9, <2>10, CloseStep DEF old
<1>3. ASSUME NEW d \in DepositIds, PruneExpiredIntents(d)
      PROVE  LedgerInv'
  <2> DEFINE old == deposits[d]
             expired == ExpiredIntents(d)
             new == Reclaimed(d, expired)
  <2>1. old \in Deposit /\ LocksAgree(d) /\ RecordSound(d)
    BY DEF LedgerInv, TypeOK
  <2>2. expired \in SUBSET IntentHashes /\ expired \subseteq depositIntentHashes[d]
    BY <1>0, ReclaimsOwnLocks
  <2>3. /\ CanReclaim(d, expired)
        /\ deposits' = [deposits EXCEPT ![d] = new]
        /\ DropLocks(d, expired)
        /\ UNCHANGED <<depositCounter, accountDeposits, tokenBalance>>
    BY <1>3 DEF PruneExpiredIntents
  <2>4. /\ new \in Deposit
        /\ new.depositor = old.depositor
        /\ new.token = old.token
        /\ new.min = old.min
        /\ new.remainingDeposits = old.remainingDeposits + LockedAmount(d, expired)
        /\ new.outstandingIntentAmount =
             old.outstandingIntentAmount - LockedAmount(d, expired)
    BY <1>0, <2>2, <2>3, ReclaimedType
  <2>5. LockedAmount(d, expired) \in Nat
    BY <1>0, <2>2, LockedAmountType
  <2>6. /\ depositIntentHashes'[d] = {h \in IntentHashes : Locked(d, h)'}
        /\ \A h \in IntentHashes :
              Locked(d, h)' => depositIntents'[d][h].amount # 0
        /\ LockedAmount(d, IntentHashes)' =
             LockedAmount(d, IntentHashes) - LockedAmount(d, expired)
        /\ \A e \in DepositIds \ {d} :
              /\ depositIntentHashes'[e] = depositIntentHashes[e]
              /\ depositIntents'[e] = depositIntents[e]
    BY <1>0, <2>1, <2>2, <2>3, DropLocksEffect
  <2>7. \A t \in Tokens : tokenBalance'[t] =
           tokenBalance[t] - Worth(old, t) + Worth(new, t)
    <3> HIDE DEF expired, new, old
    <3>1. new.remainingDeposits + new.outstandingIntentAmount =
            old.remainingDeposits + old.outstandingIntentAmount
      BY <2>1, <2>4, <2>5 DEF Deposit
    <3> QED
      BY <1>0, <2>1, <2>3, <2>4, <3>1, NothingPaid
  <2>8. new.outstandingIntentAmount = LockedAmount(d, IntentHashes)'
    <3> HIDE DEF expired, new
    <3> QED
      BY <2>1, <2>4, <2>6 DEF LocksAgree
  <2>9. CASE Exists(d)
    <3>1. new.min # 0
      BY <2>1, <2>4, <2>9 DEF RecordSound
    <3> HIDE DEF expired, new
    <3> QED
      BY <2>3, <2>4, <2>6, <2>7, <2>8, <2>9, <3>1, KeptStep
  <2>10. CASE ~Exists(d)
    <3>1. old = NoDeposit /\ depositIntentHashes[d] = {} /\ expired = {}
      BY <2>1, <2>2, <2>10 DEF RecordSound
    <3>2. LockedAmount(d, {}) = 0
      BY SumEmpty DEF LockedAmount
    <3>3. new = NoDeposit
      <4>1. new = [NoDeposit EXCEPT
                      !.remainingDeposits = @ + LockedAmount(d, {}),
                      !.outstandingIntentAmount = @ - LockedAmount(d, {})]
        BY <3>1, Zenon DEF Reclaimed
      <4>2. new = [NoDeposit EXCEPT
                      !.remainingDeposits = 0 + 0,
                      !.outstandingIntentAmount = 0 - 0]
        BY <4>1, <3>2, Zenon DEF NoDeposit
      <4> HIDE DEF new
      <4>3. 0 + 0 = 0 /\ 0 - 0 = 0
        OBVIOUS
      <4>4. new = [NoDeposit EXCEPT !.remainingDeposits = 0,
                                    !.outstandingIntentAmount = 0]
        BY <4>2, <4>3, Zenon
      <4> QED
        BY <4>4 DEF NoDeposit
    <3>4. /\ deposits'[d] = new
          /\ \A e \in DepositIds \ {d} : deposits'[e] = deposits[e]
      BY <1>0, <2>3 DEF TypeOK
    <3>5. depositIntentHashes'[d] = {}
      BY <1>0, <2>3, <3>1 DEF DropLocks, TypeOK
    <3> HIDE DEF expired, new
    <3>6. LocksAgree(d)'
      BY <2>6, <2>8, <3>4 DEF LocksAgree
    <3>7. RecordSound(d)'
      BY <3>3, <3>4, <3>5 DEF RecordSound, Exists, NoDeposit
    <3>8. ListsAgree'
      <4>1. \A e \in DepositIds : deposits'[e].depositor = deposits[e].depositor
        BY <2>4, <3>4
      <4> QED
        BY <2>3, <4>1 DEF LedgerInv, ListsAgree
    <3>9. depositCounter' >= depositCounter
      BY <1>0, <2>3 DEF TypeOK
    <3> QED
      BY <2>6, <2>7, <3>4, <3>6, <3>7, <3>8, <3>9, LedgerStep
  <2> QED
    BY <2>9, <2>10
<1> QED
  BY <1>1, <1>2, <1>3 DEF ReclaimNext

LEMMA LedgerOrchestrator == LedgerInv /\ TypeOK' /\ OrchestratorNext => LedgerInv'
<1> SUFFICES ASSUME LedgerInv, TypeOK', NEW o \in Orchestrators,
                    NEW d \in DepositIds, NEW h \in IntentHashes,
                    \/ \E amount \in Amounts : LockFunds(o, d, h, amount)
                    \/ UnlockFunds(o, d, h)
                    \/ \E amount \in Amounts : UnlockAndTransferFunds(o, d, h, amount)
             PROVE  LedgerInv'
  BY DEF OrchestratorNext
<1> USE NumbersAssumption
<1> DEFINE old == deposits[d]
           held == depositIntents[d][h].amount
<1>1. /\ TypeOK
      /\ old \in Deposit
      /\ LocksAgree(d)
      /\ Exists(d) => old.token \in Tokens /\ old.min # 0
      /\ held \in Nat
  <2>1. TypeOK /\ LocksAgree(d) /\ RecordSound(d)
    BY DEF LedgerInv
  <2>2. old \in Deposit /\ depositIntents[d][h] \in Intent
    BY <2>1 DEF TypeOK
  <2> QED
    BY <2>1, <2>2 DEF RecordSound, Intent
<1>2. ASSUME NEW amount \in Amounts, LockFunds(o, d, h, amount)
      PROVE  LedgerInv'
  <2> DEFINE expired == ReclaimIfNecessary(d, amount)
             deposit == Reclaimed(d, expired)
             new == [deposit EXCEPT !.remainingDeposits = @ - amount,
                                    !.outstandingIntentAmount = @ + amount]
             lock == [amount |-> amount, timestamp |-> now,
                      expiryTime |-> now + intentExpirationPeriod]
  <2>1. /\ expired \in SUBSET IntentHashes
        /\ expired \subseteq depositIntentHashes[d]
        /\ amount \in Nat
    BY <1>1, ReclaimsOwnLocks
  <2>2. /\ Exists(d) /\ old.min <= amount
        /\ ~Locked(d, h)
        /\ CanReclaim(d, expired)
        /\ deposit.remainingDeposits >= amount
        /\ deposits' = [deposits EXCEPT ![d] = new]
        /\ depositIntentHashes' =
             [depositIntentHashes EXCEPT ![d] = (@ \ expired) \cup {h}]
        /\ depositIntents' = [depositIntents EXCEPT ![d] =
             [g \in IntentHashes |->
                 IF g = h THEN lock ELSE IF g \in expired THEN NoIntent ELSE @[g]]]
        /\ UNCHANGED <<depositCounter, accountDeposits, tokenBalance>>
    BY <1>2 DEF LockFunds, HasLiquidity
  <2>a. /\ depositIntentHashes'[d] = (depositIntentHashes[d] \ expired) \cup {h}
        /\ \A g \in IntentHashes : depositIntents'[d][g] =
              IF g = h THEN lock
              ELSE IF g \in expired THEN NoIntent ELSE depositIntents[d][g]
        /\ \A e \in DepositIds \ {d} :
              /\ depositIntentHashes'[e] = depositIntentHashes[e]
              /\ depositIntents'[e] = depositIntents[e]
    <3> HIDE DEF expired, deposit, lock
    <3> QED
      BY <1>1, <2>2 DEF TypeOK
  <2>3. /\ deposit \in Deposit
        /\ deposit.depositor = old.depositor
        /\ deposit.token = old.token
        /\ deposit.min = old.min
        /\ deposit.remainingDeposits = old.remainingDeposits + LockedAmount(d, expired)
        /\ deposit.outstandingIntentAmount =
             old.outstandingIntentAmount - LockedAmount(d, expired)
    BY <1>1, <2>1, <2>2, ReclaimedType
  <2>4. LockedAmount(d, expired) \in Nat
    BY <1>1, <2>1, LockedAmountType
  <2>5. amount # 0
    BY <1>1, <2>1, <2>2 DEF Deposit
  <2>6. lock \in Intent /\ lock.amount = amount /\ lock.amount # 0
    BY <1>1, <2>1, <2>5 DEF TypeOK, Intent
  <2> HIDE DEF expired, deposit, lock
  <2>7. /\ depositIntentHashes'[d] = {g \in IntentHashes : Locked(d, g)'}
        /\ \A g \in IntentHashes :
              Locked(d, g)' => depositIntents'[d][g].amount # 0
        /\ LockedAmount(d, IntentHashes)' =
             LockedAmount(d, IntentHashes) - LockedAmount(d, expired) + lock.amount
    BY <1>1, <2>1, <2>2, <2>a, <2>6, AddLockEffect
  <2>8. /\ new \in Deposit
        /\ new.depositor = old.depositor
        /\ new.token = old.token
        /\ new.min = old.min
        /\ new.remainingDeposits = deposit.remainingDeposits - amount
        /\ new.outstandingIntentAmount = deposit.outstandingIntentAmount + amount
    <3> DEFINE r == deposit.remainingDeposits - amount
               u == deposit.outstandingIntentAmount + amount
    <3>1. r \in Nat /\ u \in Nat
      BY <2>1, <2>2, <2>3 DEF Deposit
    <3>2. new = [deposit EXCEPT !.remainingDeposits = r,
                           !.outstandingIntentAmount = u]
      OBVIOUS
    <3> HIDE DEF r, u, new
    <3>3. /\ new \in Deposit
          /\ new.depositor = deposit.depositor
          /\ new.token = deposit.token
          /\ new.min = deposit.min
          /\ new.remainingDeposits = r
          /\ new.outstandingIntentAmount = u
      BY <2>3, <3>1, <3>2 DEF Deposit
    <3> QED
      BY <2>3, <3>3 DEF r, u
  <2> HIDE DEF new, old
  <2>9. new.outstandingIntentAmount = LockedAmount(d, IntentHashes)'
    BY <1>1, <2>3, <2>6, <2>7, <2>8 DEF LocksAgree, old
  <2>10. new.remainingDeposits + new.outstandingIntentAmount =
           old.remainingDeposits + old.outstandingIntentAmount
    BY <1>1, <2>1, <2>3, <2>4, <2>8 DEF Deposit
  <2>11. \A t \in Tokens : tokenBalance'[t] =
            tokenBalance[t] - Worth(old, t) + Worth(new, t)
    BY <1>1, <2>2, <2>8, <2>10, NothingPaid
  <2> QED
    BY <1>1, <2>2, <2>a, <2>7, <2>8, <2>9, <2>11, KeptStep DEF old
<1>3. ASSUME DropLocks(d, {h}), h \in depositIntentHashes[d]
      PROVE  /\ depositIntentHashes'[d] = {g \in IntentHashes : Locked(d, g)'}
             /\ \A g \in IntentHashes :
                   Locked(d, g)' => depositIntents'[d][g].amount # 0
             /\ LockedAmount(d, IntentHashes)' = old.outstandingIntentAmount - held
             /\ \A e \in DepositIds \ {d} :
                   /\ depositIntentHashes'[e] = depositIntentHashes[e]
                   /\ depositIntents'[e] = depositIntents[e]
  <2>1. {h} \in SUBSET IntentHashes /\ {h} \subseteq depositIntentHashes[d]
    BY <1>3
  <2>2. LockedAmount(d, {h}) = held
    BY <1>1, OneLock
  <2>3. old.outstandingIntentAmount = LockedAmount(d, IntentHashes)
    BY <1>1 DEF LocksAgree
  <2> QED
    BY <1>1, <1>3, <2>1, <2>2, <2>3, DropLocksEffect
<1>4. ASSUME UnlockFunds(o, d, h)
      PROVE  LedgerInv'
  <2> DEFINE new == [old EXCEPT !.remainingDeposits = @ + held,
                                !.outstandingIntentAmount = @ - held]
  <2>1. /\ Exists(d)
        /\ held <= old.outstandingIntentAmount
        /\ h \in depositIntentHashes[d]
        /\ DropLocks(d, {h})
        /\ UNCHANGED <<depositCounter, accountDeposits, tokenBalance>>
    BY <1>4 DEF UnlockFunds
  <2>2. deposits' = [deposits EXCEPT ![d] = new]
    BY <1>4, Zenon DEF UnlockFunds
  <2>3. /\ new \in Deposit
        /\ new.depositor = old.depositor
        /\ new.token = old.token
        /\ new.min = old.min
        /\ new.remainingDeposits = old.remainingDeposits + held
        /\ new.outstandingIntentAmount = old.outstandingIntentAmount - held
    <3> DEFINE r == old.remainingDeposits + held
               u == old.outstandingIntentAmount - held
    <3>1. r \in Nat /\ u \in Nat
      BY <1>1, <2>1 DEF Deposit
    <3>2. new = [old EXCEPT !.remainingDeposits = r,
                           !.outstandingIntentAmount = u]
      OBVIOUS
    <3> HIDE DEF r, u, new
    <3>3. /\ new \in Deposit
          /\ new.depositor = old.depositor
          /\ new.token = old.token
          /\ new.min = old.min
          /\ new.remainingDeposits = r
          /\ new.outstandingIntentAmount = u
      BY <1>1, <3>1, <3>2 DEF Deposit
    <3> QED
      BY <1>1, <3>3 DEF r, u
  <2> HIDE DEF new, held, old
  <2>4. \A t \in Tokens : tokenBalance'[t] =
           tokenBalance[t] - Worth(old, t) + Worth(new, t)
    <3>1. new.remainingDeposits + new.outstandingIntentAmount =
            old.remainingDeposits + old.outstandingIntentAmount
      BY <1>1, <2>3 DEF Deposit
    <3> QED
      BY <1>1, <2>1, <2>3, <3>1, NothingPaid
  <2> QED
    BY <1>1, <1>3, <2>1, <2>2, <2>3, <2>4, KeptStep DEF old
<1>5. ASSUME NEW amount \in Amounts, UnlockAndTransferFunds(o, d, h, amount)
      PROVE  LedgerInv'
  <2> DEFINE new == [old EXCEPT !.remainingDeposits = @ + (held - amount),
                                !.outstandingIntentAmount = @ - held]
  <2>1. /\ Exists(d)
        /\ amount \in Nat /\ amount <= held
        /\ held <= old.outstandingIntentAmount
        /\ h \in depositIntentHashes[d]
        /\ DropLocks(d, {h})
        /\ CloseIfNecessary(d, new)
        /\ TransferOut(new.token, SweptDust(new) + amount)
        /\ UNCHANGED depositCounter
    BY <1>5 DEF UnlockAndTransferFunds
  <2>2. /\ new \in Deposit
        /\ new.depositor = old.depositor
        /\ new.token = old.token
        /\ new.min = old.min
        /\ new.remainingDeposits = old.remainingDeposits + (held - amount)
        /\ new.outstandingIntentAmount = old.outstandingIntentAmount - held
    <3> DEFINE r == old.remainingDeposits + (held - amount)
               u == old.outstandingIntentAmount - held
    <3>1. r \in Nat /\ u \in Nat
      BY <1>1, <2>1 DEF Deposit
    <3>2. new = [old EXCEPT !.remainingDeposits = r,
                           !.outstandingIntentAmount = u]
      OBVIOUS
    <3> HIDE DEF r, u, new
    <3>3. /\ new \in Deposit
          /\ new.depositor = old.depositor
          /\ new.token = old.token
          /\ new.min = old.min
          /\ new.remainingDeposits = r
          /\ new.outstandingIntentAmount = u
      BY <1>1, <3>1, <3>2 DEF Deposit
    <3> QED
      BY <1>1, <3>3 DEF r, u
  <2> HIDE DEF new, held, old
  <2>3. new.remainingDeposits + new.outstandingIntentAmount + amount =
          old.remainingDeposits + old.outstandingIntentAmount
    BY <1>1, <2>1, <2>2 DEF Deposit
  <2> QED
    BY <1>1, <1>3, <2>1, <2>2, <2>3, CloseStep DEF old
<1> QED
  BY <1>2, <1>4, <1>5

LEMMA LedgerGuardian == LedgerInv /\ TypeOK' /\ GuardianNext => LedgerInv'
<1> SUFFICES ASSUME LedgerInv, TypeOK', NEW a \in Accounts, NEW d \in DepositIds,
                    NEW h \in IntentHashes, NEW time \in 1 .. MaxTime,
                    ExtendIntentExpiry(a, d, h, time)
             PROVE  LedgerInv'
  BY DEF GuardianNext
<1> DEFINE old == deposits[d]
<1>1. /\ TypeOK /\ old \in Deposit
      /\ LocksAgree(d)
      /\ Exists(d) /\ old.min # 0
  BY DEF LedgerInv, TypeOK, RecordSound, ExtendIntentExpiry
<1>2. /\ Locked(d, h)
      /\ depositIntents' =
           [depositIntents EXCEPT ![d][h].expiryTime = @ + time]
      /\ UNCHANGED <<depositCounter, deposits, accountDeposits,
                     depositIntentHashes, tokenBalance>>
  BY Zenon DEF ExtendIntentExpiry
<1>3. /\ \A g \in IntentHashes :
            depositIntents'[d][g].amount = depositIntents[d][g].amount
      /\ \A g \in IntentHashes \ {h} : depositIntents'[d][g] = depositIntents[d][g]
      /\ \A e \in DepositIds \ {d} : depositIntents'[e] = depositIntents[e]
  BY <1>1, <1>2 DEF TypeOK, Intent
<1>4. \A g \in IntentHashes : Locked(d, g)' <=> Locked(d, g)
  <2>1. depositIntents[d][h].amount # 0
    BY <1>1, <1>2 DEF LocksAgree
  <2>2. depositIntents'[d][h] # NoIntent
    BY <1>3, <2>1 DEF NoIntent
  <2> QED
    BY <1>2, <1>3, <2>2 DEF Locked
<1>5. LockedAmount(d, IntentHashes)' = LockedAmount(d, IntentHashes)
  <2>1. [g \in IntentHashes |-> depositIntents'[d][g].amount] =
        [g \in IntentHashes |-> depositIntents[d][g].amount]
    BY <1>3
  <2> QED
    BY <2>1 DEF LockedAmount
<1>6. /\ old.outstandingIntentAmount = LockedAmount(d, IntentHashes)'
      /\ depositIntentHashes'[d] = {g \in IntentHashes : Locked(d, g)'}
      /\ \A g \in IntentHashes :
            Locked(d, g)' => depositIntents'[d][g].amount # 0
  BY <1>1, <1>2, <1>3, <1>4, <1>5 DEF LocksAgree
<1>7. \A t \in Tokens : tokenBalance'[t] =
        tokenBalance[t] - Worth(old, t) + Worth(old, t)
  <2> HIDE DEF old
  <2> QED
    BY <1>1, <1>2, NothingPaid
<1>8. deposits' = [deposits EXCEPT ![d] = old]
  BY <1>1, <1>2 DEF TypeOK
<1> QED
  BY <1>1, <1>2, <1>3, <1>6, <1>7, <1>8, KeptStep

\* Steps that leave the books alone.
LEMMA LedgerStutter ==
    ASSUME LedgerInv, TypeOK', UNCHANGED <<depositCounter, books>>
    PROVE  LedgerInv'
<1>1. BooksBalance'
  BY DEF LedgerInv, BooksBalance, Backing, Value, books
<1>2. \A d \in DepositIds : LocksAgree(d)' /\ RecordSound(d)'
  BY DEF LedgerInv, LocksAgree, RecordSound, Locked, LockedAmount, Exists, books
<1>3. ListsAgree'
  BY DEF LedgerInv, ListsAgree, books
<1> QED
  BY <1>1, <1>2, <1>3 DEF LedgerInv

LEMMA LedgerInit == Init => LedgerInv
<1> SUFFICES ASSUME Init PROVE LedgerInv
  OBVIOUS
<1>1. TypeOK
  BY TypeInit
<1>2. ASSUME NEW d \in DepositIds
      PROVE  LocksAgree(d) /\ RecordSound(d)
  <2>1. /\ deposits[d] = NoDeposit
        /\ depositIntentHashes[d] = {}
        /\ \A h \in IntentHashes : depositIntents[d][h] = NoIntent
    BY DEF Init
  <2>2. LockedAmount(d, IntentHashes) = 0
    <3> DEFINE amounts == [h \in IntentHashes |-> depositIntents[d][h].amount]
    <3>1. \A h \in IntentHashes : amounts[h] = 0 /\ amounts[h] \in Nat
      BY <2>1 DEF NoIntent
    <3>2. LockedAmount(d, IntentHashes) = SumFunctionOnSet(amounts, IntentHashes)
      BY DEF LockedAmount
    <3> HIDE DEF amounts
    <3> QED
      BY <3>1, <3>2, SumZero, HashesAssumption
  <2>3. LocksAgree(d)
    BY <2>1, <2>2 DEF LocksAgree, Locked, NoDeposit
  <2> QED
    BY <2>1, <2>3 DEF RecordSound, Exists, NoDeposit
<1>3. ListsAgree
  BY AccountsAssumption DEF Init, ListsAgree, NoDeposit
<1>4. BooksBalance
  <2> SUFFICES ASSUME NEW t \in Tokens
               PROVE  tokenBalance[t] = SumFunctionOnSet(Backing(t), DepositIds)
    BY DEF BooksBalance
  <2>1. \A d \in DepositIds : Backing(t)[d] = 0 /\ Backing(t)[d] \in Nat
    BY TokensAssumption DEF Init, Backing, NoDeposit
  <2>2. SumFunctionOnSet(Backing(t), DepositIds) = 0
    <3> HIDE DEF DepositIds
    <3> QED
      BY <2>1, SumZero, DepositIdsFinite
  <2> QED
    BY <2>2 DEF Init
<1> QED
  BY <1>1, <1>2, <1>3, <1>4 DEF LedgerInv

LEMMA LedgerNext == LedgerInv /\ [Next]_vars => LedgerInv'
<1> SUFFICES ASSUME LedgerInv, [Next]_vars PROVE LedgerInv'
  OBVIOUS
<1>1. TypeOK'
  BY TypeNext DEF LedgerInv
<1>2. CASE OwnerNext \/ Tick \/ UNCHANGED vars
  <2>1. UNCHANGED <<depositCounter, books>>
    BY <1>2 DEF OwnerNext, SetOrchestrator, SetDustThreshold, SetMaxIntentsPerDeposit,
       SetIntentExpirationPeriod, PauseEscrow, UnpauseEscrow, Tick, vars
  <2> QED
    BY <1>1, <2>1, LedgerStutter
<1> QED
  BY <1>1, <1>2, LedgerManage, LedgerReclaim, LedgerOrchestrator, LedgerGuardian
  DEF Next

\* The array, the mapping and the running total of a deposit's locks agree in
\* every reachable state, for any number of deposits, hashes and amounts and
\* any orchestrator.
THEOREM LocksNeverDrift == Spec => []OutstandingMatchesLocks
<1>1. Spec => []LedgerInv
  BY LedgerInit, LedgerNext, PTL DEF Spec
<1> QED
  BY <1>1, LedgerInvImplies, PTL

\* No deposit is deleted with liquidity offered or locked, or left on the list
\* of an account.
THEOREM ClosedForGood == Spec => []ClosedDepositsHoldNothing
<1>1. Spec => []LedgerInv
  BY LedgerInit, LedgerNext, PTL DEF Spec
<1> QED
  BY <1>1, LedgerInvImplies, PTL

\* The escrow is solvent: its balance of each token is exactly what its deposits
\* offer and have under lock.
THEOREM Solvent == Spec => []BooksBalance
<1>1. Spec => []LedgerInv
  BY LedgerInit, LedgerNext, PTL DEF Spec
<1> QED
  BY <1>1, LedgerInvImplies, PTL

-----------------------------------------------------------------------------
(* A lock that has not expired.                                              *)

LEMMA ManageKeepsLocks == ManageNext => UNCHANGED <<now, depositIntents>>
<1> SUFFICES ASSUME ManageNext PROVE UNCHANGED <<now, depositIntents>>
  OBVIOUS
<1>1. ASSUME NEW a \in Accounts, NEW t \in Tokens,
             NEW amount \in Amounts, NEW min \in Amounts, NEW max \in Amounts,
             NEW guardian \in Accounts \cup {NoAccount}, NEW retain \in BOOLEAN,
             CreateDeposit(a, t, amount, min, max, guardian, retain)
      PROVE  UNCHANGED <<now, depositIntents>>
  BY <1>1, Zenon DEF CreateDeposit
<1>2. ASSUME NEW d \in DepositIds, NEW amount \in Amounts, AddFunds(d, amount)
      PROVE  UNCHANGED <<now, depositIntents>>
  BY <1>2, Zenon DEF AddFunds
<1>3. ASSUME NEW d \in DepositIds, NEW min \in Amounts, NEW max \in Amounts,
             SetIntentRange(d, min, max)
      PROVE  UNCHANGED <<now, depositIntents>>
  BY <1>3, Zenon DEF SetIntentRange
<1>4. ASSUME NEW d \in DepositIds, NEW on \in BOOLEAN,
             SetAcceptingIntents(d, on) \/ SetRetainOnEmpty(d, on)
      PROVE  UNCHANGED <<now, depositIntents>>
  BY <1>4, Zenon DEF SetAcceptingIntents, SetRetainOnEmpty
<1> QED
  BY <1>1, <1>2, <1>3, <1>4, SMT DEF ManageNext

LEMMA DroppedLocks ==
    ASSUME TypeOK, NEW d \in DepositIds, NEW S, DropLocks(d, S)
    PROVE  \A e \in DepositIds, h \in IntentHashes :
              Locked(e, h)' => /\ Locked(e, h)
                               /\ depositIntents'[e][h] = depositIntents[e][h]
                               /\ ~(e = d /\ h \in S)
BY DEF TypeOK, DropLocks, Locked

\* The lock as it was, or extended.
Kept(d, h) ==
    /\ depositIntents'[d][h].amount = depositIntents[d][h].amount
    /\ depositIntents'[d][h].timestamp = depositIntents[d][h].timestamp
    /\ depositIntents'[d][h].expiryTime >= depositIntents[d][h].expiryTime

EndedByOrchestrator(d, h) ==
    \/ UnlockFunds(orchestrator, d, h)
    \/ \E amount \in Amounts : UnlockAndTransferFunds(orchestrator, d, h, amount)

LEMMA SameLockKept ==
    ASSUME TypeOK, NEW d \in DepositIds, NEW h \in IntentHashes,
           depositIntents'[d][h] = depositIntents[d][h]
    PROVE  Kept(d, h)
BY DEF TypeOK, Intent, Kept

\* Reclaiming takes expired locks only.
LEMMA ReclaimKeeps ==
    ASSUME TypeOK, NEW d \in DepositIds, NEW S \in SUBSET ExpiredIntents(d),
           DropLocks(d, S), NEW e \in DepositIds, NEW h \in IntentHashes,
           depositIntents[e][h].expiryTime >= now
    PROVE  Kept(e, h)
<1>1. ~(e = d /\ h \in S)
  BY DEF ExpiredIntents, TypeOK, Intent
<1>2. depositIntents'[e][h] = depositIntents[e][h]
  BY <1>1 DEF TypeOK, DropLocks
<1> QED
  BY <1>2, SameLockKept

LEMMA PromisesKept ==
    ASSUME LedgerInv, Next, NEW d \in DepositIds, NEW h \in IntentHashes,
           Locked(d, h), depositIntents[d][h].expiryTime >= now
    PROVE  Kept(d, h) \/ EndedByOrchestrator(d, h)
<1>1. TypeOK
  BY DEF LedgerInv
<1>2. CASE UNCHANGED depositIntents
  BY <1>1, <1>2, SameLockKept
<1>3. CASE ManageNext
  BY <1>2, <1>3, ManageKeepsLocks
<1>4. CASE ReclaimNext
  <2>1. PICK e \in DepositIds :
            \/ \E a \in Accounts, amount \in Amounts : RemoveFunds(a, e, amount)
            \/ \E a \in Accounts : WithdrawDeposit(a, e)
            \/ PruneExpiredIntents(e)
    BY <1>4 DEF ReclaimNext
  <2>2. \E S \in SUBSET ExpiredIntents(e) : DropLocks(e, S)
    BY <1>1, <2>1, ReclaimsOwnLocks DEF RemoveFunds, WithdrawDeposit, PruneExpiredIntents
  <2> QED
    BY <1>1, <2>2, ReclaimKeeps
<1>5. CASE OrchestratorNext
  <2>1. PICK o \in Orchestrators, e \in DepositIds, g \in IntentHashes :
            \/ \E amount \in Amounts : LockFunds(o, e, g, amount)
            \/ UnlockFunds(o, e, g)
            \/ \E amount \in Amounts : UnlockAndTransferFunds(o, e, g, amount)
    BY <1>5 DEF OrchestratorNext
  <2>2. CASE d = e /\ h = g
    <3>1. \A amount : ~LockFunds(o, e, g, amount)
      BY <2>2 DEF LockFunds
    <3> QED
      BY <2>1, <2>2, <3>1 DEF EndedByOrchestrator, UnlockFunds, UnlockAndTransferFunds
  <2>3. CASE ~(d = e /\ h = g)
    <3>1. ASSUME NEW amount \in Amounts, LockFunds(o, e, g, amount)
          PROVE  Kept(d, h)
      <4> DEFINE expired == ReclaimIfNecessary(e, amount)
      <4>1. \A f \in expired : f \in IntentHashes /\ depositIntents[e][f].expiryTime < now
        BY <1>1, ReclaimsOwnLocks DEF ExpiredIntents
      <4>2. ~(d = e /\ h \in expired)
        BY <1>1, <4>1 DEF TypeOK, Intent
      <4>3. depositIntents' = [depositIntents EXCEPT ![e] =
                [f \in IntentHashes |->
                    IF f = g
                    THEN [amount |-> amount, timestamp |-> now,
                          expiryTime |-> now + intentExpirationPeriod]
                    ELSE IF f \in expired THEN NoIntent ELSE @[f]]]
        BY <3>1, Zenon DEF LockFunds
      <4> HIDE DEF expired
      <4>4. depositIntents'[d][h] = depositIntents[d][h]
        BY <1>1, <2>3, <4>2, <4>3 DEF TypeOK
      <4> QED
        BY <1>1, <4>4, SameLockKept
    <3>2. ASSUME DropLocks(e, {g})
          PROVE  Kept(d, h)
      <4>1. depositIntents'[d][h] = depositIntents[d][h]
        BY <1>1, <2>3, <3>2 DEF TypeOK, DropLocks
      <4> QED
        BY <1>1, <4>1, SameLockKept
    <3>3. UnlockFunds(o, e, g) => DropLocks(e, {g})
      BY Zenon DEF UnlockFunds
    <3>4. \A amount : UnlockAndTransferFunds(o, e, g, amount) => DropLocks(e, {g})
      BY Zenon DEF UnlockAndTransferFunds
    <3> QED
      BY <2>1, <3>1, <3>2, <3>3, <3>4
  <2> QED
    BY <2>2, <2>3
<1>6. CASE GuardianNext
  <2>1. PICK e \in DepositIds, g \in IntentHashes, time \in 1 .. MaxTime :
            depositIntents' = [depositIntents EXCEPT ![e][g].expiryTime = @ + time]
    BY <1>6 DEF GuardianNext, ExtendIntentExpiry
  <2>2. depositIntents[d][h] \in Intent /\ time \in Nat
    BY <1>1 DEF TypeOK
  <2>3. CASE d = e /\ h = g
    <3>1. depositIntents'[d][h] = [depositIntents[d][h] EXCEPT !.expiryTime = @ + time]
      BY <1>1, <2>1, <2>3 DEF TypeOK
    <3> QED
      BY <2>2, <3>1 DEF Intent, Kept
  <2>4. CASE ~(d = e /\ h = g)
    <3>1. depositIntents'[d][h] = depositIntents[d][h]
      BY <1>1, <2>1, <2>4 DEF TypeOK
    <3> QED
      BY <1>1, <3>1, SameLockKept
  <2> QED
    BY <2>3, <2>4
<1>7. CASE OwnerNext \/ Tick
  <2>1. UNCHANGED depositIntents
    BY <1>7 DEF OwnerNext, SetOrchestrator, SetDustThreshold, SetMaxIntentsPerDeposit,
       SetIntentExpirationPeriod, PauseEscrow, UnpauseEscrow, Tick, books
  <2> QED
    BY <1>2, <2>1
<1> QED
  BY <1>3, <1>4, <1>5, <1>6, <1>7 DEF Next

\* Until it expires a lock is the taker's: no step of a depositor, a guardian,
\* the owner or a taker who comes later ends it, shrinks it or brings its expiry
\* forward.
THEOREM LocksArePromises == Spec => UnexpiredLocksAreSafe
<1>1. Spec => []LedgerInv
  BY LedgerInit, LedgerNext, PTL DEF Spec
<1>2. LedgerInv /\ [Next]_vars =>
        [\A d \in DepositIds, h \in IntentHashes :
            Locked(d, h) /\ depositIntents[d][h].expiryTime >= now =>
                \/ /\ depositIntents'[d][h].amount = depositIntents[d][h].amount
                   /\ depositIntents'[d][h].timestamp = depositIntents[d][h].timestamp
                   /\ depositIntents'[d][h].expiryTime >= depositIntents[d][h].expiryTime
                \/ UnlockFunds(orchestrator, d, h)
                \/ \E amount \in Amounts :
                      UnlockAndTransferFunds(orchestrator, d, h, amount)]_vars
  BY PromisesKept DEF Kept, EndedByOrchestrator
<1> QED
  BY <1>1, <1>2, PTL DEF Spec, UnexpiredLocksAreSafe

-----------------------------------------------------------------------------
(* Escrow implements Custody.  LedgerInv holds before and after each step:   *)
(* it turns the running total of a deposit into the sum of its locks, so all *)
(* that is left to see is which funds and which locks the step touches.      *)

HIDE DEF DepositIds

Held == [d \in DepositIds |-> Value(d)]
Claimed(d) == [h \in IntentHashes |-> depositIntents[d][h].amount]
Reserved == [d \in DepositIds |-> Claimed(d)]

\* Custody adds up the way Escrow does.
LEMMA SameSum ==
    ASSUME NEW f, NEW S
    PROVE  Promise!SumFunctionOnSet(f, S) = SumFunctionOnSet(f, S)
BY Zenon DEF Promise!SumFunctionOnSet, Promise!FoldFunctionOnSet,
   Promise!MapThenFoldSet, SumFunctionOnSet, FoldFunctionOnSet, MapThenFoldSet

\* A deposit's value as LedgerInv has it.
ValueSound(d) ==
    /\ Value(d) \in Nat
    /\ deposits[d].remainingDeposits \in Nat
    /\ deposits[d].outstandingIntentAmount \in Nat
    /\ deposits[d].outstandingIntentAmount <= Value(d)
    /\ Promise!TotalReserved(Claimed(d)) = deposits[d].outstandingIntentAmount
    /\ \A h \in IntentHashes :
          Claimed(d)[h] \in Nat /\ (Claimed(d)[h] = 0 <=> ~Locked(d, h))

LEMMA ValuesSound == LedgerInv => \A d \in DepositIds : ValueSound(d)
<1> SUFFICES ASSUME LedgerInv, NEW d \in DepositIds PROVE ValueSound(d)
  OBVIOUS
<1>1. deposits[d] \in Deposit /\ \A h \in IntentHashes : depositIntents[d][h] \in Intent
  BY DEF LedgerInv, TypeOK
<1>2. LocksAgree(d)
  BY DEF LedgerInv
<1>3. Promise!TotalReserved(Claimed(d)) = deposits[d].outstandingIntentAmount
  BY <1>2, SameSum DEF LocksAgree, LockedAmount, Claimed, Promise!TotalReserved
<1>4. \A h \in IntentHashes :
         Claimed(d)[h] \in Nat /\ (Claimed(d)[h] = 0 <=> ~Locked(d, h))
  <2> SUFFICES ASSUME NEW h \in IntentHashes
               PROVE  Claimed(d)[h] \in Nat /\ (Claimed(d)[h] = 0 <=> ~Locked(d, h))
    OBVIOUS
  <2>1. Claimed(d)[h] = depositIntents[d][h].amount
    BY DEF Claimed
  <2>2. Locked(d, h) => depositIntents[d][h].amount # 0
    BY <1>2 DEF LocksAgree
  <2>3. ~Locked(d, h) => depositIntents[d][h].amount = 0
    BY DEF Locked, NoIntent
  <2> QED
    BY <1>1, <2>1, <2>2, <2>3 DEF Intent
<1> QED
  BY <1>1, <1>3, <1>4 DEF Value, Deposit, ValueSound

LEMMA ValuesStaySound == LedgerInv' => \A d \in DepositIds : ValueSound(d)'
<1>1. LedgerInv' => (\A d \in DepositIds : ValueSound(d))'
  BY ValuesSound, PTL
<1> QED
  BY <1>1

\* A step on one deposit.
LEMMA OneAccount ==
    ASSUME NEW d \in DepositIds, NEW new,
           deposits \in [DepositIds -> Deposit], deposits' = [deposits EXCEPT ![d] = new],
           \A e \in DepositIds \ {d} : depositIntents'[e] = depositIntents[e]
    PROVE  /\ Held' = [Held EXCEPT ![d] = Value(d)']
           /\ Reserved' = [Reserved EXCEPT ![d] = Claimed(d)']
           /\ Value(d)' = new.remainingDeposits + new.outstandingIntentAmount
<1>1. \A e \in DepositIds : e # d => Value(e)' = Value(e) /\ Claimed(e)' = Claimed(e)
  BY DEF Value, Claimed
<1>2. Held' = [Held EXCEPT ![d] = Value(d)']
  BY <1>1 DEF Held
<1>3. Reserved' = [Reserved EXCEPT ![d] = Claimed(d)']
  BY <1>1 DEF Reserved
<1> QED
  BY <1>2, <1>3 DEF Value

LEMMA Unchanging ==
    ASSUME \A d \in DepositIds : Value(d)' = Value(d) /\ Claimed(d)' = Claimed(d)
    PROVE  UNCHANGED Promise!vars
BY DEF Promise!vars, Claimed

LEMMA PayInStep ==
    ASSUME LedgerInv, LedgerInv', NEW d \in DepositIds, NEW new,
           deposits' = [deposits EXCEPT ![d] = new],
           UNCHANGED depositIntents, Value(d)' > Value(d)
    PROVE  Promise!Next
<1>1. deposits \in [DepositIds -> Deposit]
  BY DEF LedgerInv, TypeOK
<1>2. Held' = [Held EXCEPT ![d] = Value(d)'] /\ Held'[d] = Value(d)' /\ Held[d] = Value(d)
  BY <1>1, OneAccount DEF Held
<1>3. Reserved' = Reserved
  BY DEF Reserved, Claimed
<1>4. Promise!PayIn(d)
  BY <1>2, <1>3 DEF Promise!PayIn, Held, Reserved, Claimed
<1> QED
  BY <1>4 DEF Promise!Next

\* What dropping locks does to the reservations.
LEMMA DropLapses ==
    ASSUME LedgerInv, NEW d \in DepositIds, NEW S \in SUBSET IntentHashes, DropLocks(d, S)
    PROVE  /\ Claimed(d)' = Promise!Without(Claimed(d), S)
           /\ \A e \in DepositIds \ {d} : depositIntents'[e] = depositIntents[e]
<1>1. \A h \in IntentHashes :
        depositIntents'[d][h] = IF h \in S THEN NoIntent ELSE depositIntents[d][h]
  BY DEF LedgerInv, TypeOK, DropLocks
<1>2. \A e \in DepositIds \ {d} : depositIntents'[e] = depositIntents[e]
  BY DEF LedgerInv, TypeOK, DropLocks
<1> QED
  BY <1>1, <1>2 DEF Claimed, Promise!Without, NoIntent

LEMMA PayBackStep ==
    ASSUME LedgerInv, LedgerInv', NEW d \in DepositIds, NEW S \in SUBSET IntentHashes,
           NEW new, deposits' = [deposits EXCEPT ![d] = new],
           DropLocks(d, S), Value(d)' <= Value(d)
    PROVE  Promise!Next
<1>1. deposits \in [DepositIds -> Deposit]
  BY DEF LedgerInv, TypeOK
<1>2. Claimed(d)' = Promise!Without(Claimed(d), S)
  BY DropLapses
<1>3. /\ Held' = [Held EXCEPT ![d] = Value(d)']
      /\ Reserved' = [Reserved EXCEPT ![d] = Claimed(d)']
  BY <1>1, DropLapses, OneAccount
<1>4. /\ Value(d) \in Nat /\ Value(d)' \in Nat
      /\ Promise!TotalReserved(Claimed(d)') = deposits'[d].outstandingIntentAmount
      /\ deposits'[d].outstandingIntentAmount \in Nat
      /\ deposits'[d].outstandingIntentAmount <= Value(d)'
  BY ValuesSound, ValuesStaySound DEF ValueSound, Promise!TotalReserved
<1>5. Value(d)' \in Promise!TotalReserved(Promise!Without(Claimed(d), S)) .. Value(d)
  BY <1>2, <1>4
<1>6. Promise!PayBack(d)
  BY <1>2, <1>3, <1>5 DEF Promise!PayBack, Held, Reserved, Claimed
<1> QED
  BY <1>6 DEF Promise!Next

\* A step that replaces one deposit by another of the same value.
LEMMA SameValueStep ==
    ASSUME LedgerInv, NEW d \in DepositIds, NEW new,
           deposits' = [deposits EXCEPT ![d] = new],
           new.remainingDeposits = deposits[d].remainingDeposits,
           new.outstandingIntentAmount = deposits[d].outstandingIntentAmount,
           UNCHANGED depositIntents
    PROVE  UNCHANGED Promise!vars
<1>1. deposits \in [DepositIds -> Deposit]
  BY DEF LedgerInv, TypeOK
<1>2. \A e \in DepositIds : Value(e)' = Value(e) /\ Claimed(e)' = Claimed(e)
  BY <1>1 DEF Value, Claimed
<1> QED
  BY <1>2, Unchanging

LEMMA ManageCustody ==
    ASSUME LedgerInv, LedgerInv', ManageNext
    PROVE  [Promise!Next]_Promise!vars
<1> USE NumbersAssumption
<1>0. UNCHANGED depositIntents
  BY ManageKeepsLocks
<1>1. ASSUME NEW a \in Accounts, NEW t \in Tokens,
             NEW amount \in Amounts, NEW min \in Amounts, NEW max \in Amounts,
             NEW guardian \in Accounts \cup {NoAccount}, NEW retain \in BOOLEAN,
             CreateDeposit(a, t, amount, min, max, guardian, retain)
      PROVE  [Promise!Next]_Promise!vars
  <2> DEFINE new == [depositor |-> a, token |-> t, min |-> min, max |-> max,
                     acceptingIntents |-> TRUE, remainingDeposits |-> amount,
                     outstandingIntentAmount |-> 0, intentGuardian |-> guardian,
                     retainOnEmpty |-> retain]
  <2>1. PICK d : d = depositCounter
    OBVIOUS
  <2>2. d \in DepositIds /\ deposits' = [deposits EXCEPT ![d] = new]
    <3>1. depositCounter < MaxDeposits
      BY <1>1, Zenon DEF CreateDeposit
    <3>2. deposits' = [deposits EXCEPT ![depositCounter] = new]
      BY <1>1, Zenon DEF CreateDeposit
    <3>3. depositCounter \in Nat
      BY DEF LedgerInv, TypeOK
    <3>4. d \in DepositIds
      BY <2>1, <3>1, <3>3 DEF DepositIds
    <3> HIDE DEF new
    <3>5. deposits' = [deposits EXCEPT ![d] = new]
      BY <2>1, <3>2, Zenon
    <3> QED
      BY <3>4, <3>5
  <2>3. amount \in Nat /\ amount # 0
    BY <1>1 DEF CreateDeposit
  <2>4. deposits[d] = NoDeposit
    BY <2>1, <2>2 DEF LedgerInv, RecordSound, DepositIds
  <2>5. deposits'[d] = new
    BY <2>2 DEF LedgerInv, TypeOK
  <2>6. Value(d)' > Value(d)
    BY <2>3, <2>4, <2>5 DEF Value, NoDeposit
  <2> HIDE DEF new
  <2> QED
    BY <1>0, <2>2, <2>6, PayInStep
<1>2. ASSUME NEW d \in DepositIds, NEW amount \in Amounts, AddFunds(d, amount)
      PROVE  [Promise!Next]_Promise!vars
  <2> DEFINE new == [deposits[d] EXCEPT !.remainingDeposits = @ + amount]
  <2>1. deposits' = [deposits EXCEPT ![d] = new] /\ amount # 0
    BY <1>2, Zenon DEF AddFunds
  <2>2. deposits[d] \in Deposit /\ ValueSound(d)
    BY ValuesSound DEF LedgerInv, TypeOK
  <2>3. /\ new.remainingDeposits = deposits[d].remainingDeposits + amount
        /\ new.outstandingIntentAmount = deposits[d].outstandingIntentAmount
    BY <2>2 DEF Deposit
  <2>4. deposits'[d] = new
    BY <2>1 DEF LedgerInv, TypeOK
  <2> HIDE DEF new
  <2>5. Value(d)' > Value(d)
    BY <2>1, <2>2, <2>3, <2>4 DEF Value, ValueSound
  <2> QED
    BY <1>0, <2>1, <2>5, PayInStep
<1>3. ASSUME NEW d \in DepositIds, NEW min \in Amounts, NEW max \in Amounts,
             SetIntentRange(d, min, max)
      PROVE  UNCHANGED Promise!vars
  <2> DEFINE ranged == [deposits[d] EXCEPT !.min = min, !.max = max]
             new == Demoted(ranged)
  <2>1. deposits' = [deposits EXCEPT ![d] = new]
    BY <1>3, Zenon DEF SetIntentRange
  <2>2. deposits[d] \in Deposit
    BY DEF LedgerInv, TypeOK
  <2>3. /\ new.remainingDeposits = deposits[d].remainingDeposits
        /\ new.outstandingIntentAmount = deposits[d].outstandingIntentAmount
    BY <2>2 DEF Deposit, Demoted
  <2> HIDE DEF new
  <2> QED
    BY <1>0, <2>1, <2>3, SameValueStep
<1>4. ASSUME NEW d \in DepositIds, NEW accepting \in BOOLEAN,
             SetAcceptingIntents(d, accepting)
      PROVE  UNCHANGED Promise!vars
  <2> DEFINE new == [deposits[d] EXCEPT !.acceptingIntents = accepting]
  <2>1. deposits' = [deposits EXCEPT ![d] = new]
    BY <1>4, Zenon DEF SetAcceptingIntents
  <2>2. deposits[d] \in Deposit
    BY DEF LedgerInv, TypeOK
  <2>3. /\ new.remainingDeposits = deposits[d].remainingDeposits
        /\ new.outstandingIntentAmount = deposits[d].outstandingIntentAmount
    BY <2>2 DEF Deposit
  <2> HIDE DEF new
  <2> QED
    BY <1>0, <2>1, <2>3, SameValueStep
<1>5. ASSUME NEW d \in DepositIds, NEW retain \in BOOLEAN, SetRetainOnEmpty(d, retain)
      PROVE  UNCHANGED Promise!vars
  <2> DEFINE new == [deposits[d] EXCEPT !.retainOnEmpty = retain]
  <2>1. deposits' = [deposits EXCEPT ![d] = new]
    BY <1>5, Zenon DEF SetRetainOnEmpty
  <2>2. deposits[d] \in Deposit
    BY DEF LedgerInv, TypeOK
  <2>3. /\ new.remainingDeposits = deposits[d].remainingDeposits
        /\ new.outstandingIntentAmount = deposits[d].outstandingIntentAmount
    BY <2>2 DEF Deposit
  <2> HIDE DEF new
  <2> QED
    BY <1>0, <2>1, <2>3, SameValueStep
<1>6. CASE \E a \in Accounts, t \in Tokens, amount, min, max \in Amounts,
              guardian \in Accounts \cup {NoAccount}, retain \in BOOLEAN :
                CreateDeposit(a, t, amount, min, max, guardian, retain)
  <2>1. PICK a \in Accounts, t \in Tokens, amount \in Amounts, min \in Amounts,
             max \in Amounts, guardian \in Accounts \cup {NoAccount},
             retain \in BOOLEAN :
               CreateDeposit(a, t, amount, min, max, guardian, retain)
    BY <1>6, Zenon
  <2> QED
    BY <1>1, <2>1, SMT
<1>7. CASE \E d \in DepositIds, min, max \in Amounts : SetIntentRange(d, min, max)
  BY <1>3, <1>7, Zenon
<1>8. CASE \/ \E d \in DepositIds, amount \in Amounts : AddFunds(d, amount)
           \/ \E d \in DepositIds, accepting \in BOOLEAN :
                  SetAcceptingIntents(d, accepting)
           \/ \E d \in DepositIds, retain \in BOOLEAN : SetRetainOnEmpty(d, retain)
  BY <1>2, <1>4, <1>5, <1>8, Zenon
<1> QED
  BY <1>6, <1>7, <1>8, Zenon DEF ManageNext

LEMMA ReclaimCustody ==
    ASSUME LedgerInv, LedgerInv', ReclaimNext
    PROVE  Promise!Next
<1> USE NumbersAssumption
<1>0. TypeOK /\ deposits \in [DepositIds -> Deposit]
  BY DEF LedgerInv, TypeOK
<1>1. ASSUME NEW a \in Accounts, NEW d \in DepositIds, NEW amount \in Amounts,
             RemoveFunds(a, d, amount)
      PROVE  Promise!Next
  <2> DEFINE expired == ReclaimIfNecessary(d, amount)
             deposit == Reclaimed(d, expired)
             reduced == [deposit EXCEPT !.remainingDeposits = @ - amount]
             new == Demoted(reduced)
  <2>1. expired \in SUBSET IntentHashes
    BY <1>0, ReclaimsOwnLocks
  <2>2. /\ CanReclaim(d, expired)
        /\ deposit.remainingDeposits >= amount
        /\ deposits' = [deposits EXCEPT ![d] = new]
        /\ DropLocks(d, expired)
    BY <1>1 DEF RemoveFunds, HasLiquidity
  <2>3. /\ deposit \in Deposit
        /\ deposit.remainingDeposits =
              deposits[d].remainingDeposits + LockedAmount(d, expired)
        /\ deposit.outstandingIntentAmount =
              deposits[d].outstandingIntentAmount - LockedAmount(d, expired)
        /\ LockedAmount(d, expired) \in Nat
    BY <1>0, <2>1, <2>2, ReclaimedType, LockedAmountType
  <2> HIDE DEF deposit, expired
  <2>4. /\ new.remainingDeposits = deposit.remainingDeposits - amount
        /\ new.outstandingIntentAmount = deposit.outstandingIntentAmount
    BY <2>2, <2>3 DEF Deposit, Demoted
  <2> HIDE DEF new
  <2>5. deposits'[d] = new /\ ValueSound(d)
    BY <1>0, <2>2, ValuesSound
  <2>6. Value(d)' <= Value(d)
    BY <2>3, <2>4, <2>5 DEF Value, ValueSound
  <2> QED
    BY <2>1, <2>2, <2>6, PayBackStep
<1>2. ASSUME NEW a \in Accounts, NEW d \in DepositIds, WithdrawDeposit(a, d)
      PROVE  Promise!Next
  <2> DEFINE expired == ExpiredIntents(d)
             deposit == Reclaimed(d, expired)
             emptied == [deposit EXCEPT !.remainingDeposits = 0,
                                        !.acceptingIntents = FALSE]
  <2>1. expired \in SUBSET IntentHashes
    BY <1>0, ReclaimsOwnLocks
  <2>2. /\ CanReclaim(d, expired)
        /\ DropLocks(d, expired)
        /\ CloseIfNecessary(d, emptied)
    BY <1>2 DEF WithdrawDeposit
  <2>3. /\ deposit \in Deposit
        /\ deposit.outstandingIntentAmount =
              deposits[d].outstandingIntentAmount - LockedAmount(d, expired)
        /\ LockedAmount(d, expired) \in Nat
    BY <1>0, <2>1, <2>2, ReclaimedType, LockedAmountType
  <2> HIDE DEF deposit, expired
  <2>4. /\ emptied.remainingDeposits = 0
        /\ emptied.outstandingIntentAmount = deposit.outstandingIntentAmount
    BY <2>3 DEF Deposit
  <2>5. PICK new \in {NoDeposit, emptied} : deposits' = [deposits EXCEPT ![d] = new]
    BY <2>2 DEF CloseIfNecessary
  <2> HIDE DEF emptied
  <2>6. deposits'[d] = new /\ ValueSound(d)
    BY <1>0, <2>5, ValuesSound
  <2>7. Value(d)' <= Value(d)
    BY <2>3, <2>4, <2>6 DEF Value, ValueSound, NoDeposit
  <2> QED
    BY <2>1, <2>2, <2>5, <2>7, PayBackStep
<1>3. ASSUME NEW d \in DepositIds, PruneExpiredIntents(d)
      PROVE  Promise!Next
  <2> DEFINE expired == ExpiredIntents(d)
             new == Reclaimed(d, expired)
  <2>1. expired \in SUBSET IntentHashes
    BY <1>0, ReclaimsOwnLocks
  <2>2. /\ CanReclaim(d, expired)
        /\ deposits' = [deposits EXCEPT ![d] = new]
        /\ DropLocks(d, expired)
    BY <1>3 DEF PruneExpiredIntents
  <2>3. /\ new.remainingDeposits =
              deposits[d].remainingDeposits + LockedAmount(d, expired)
        /\ new.outstandingIntentAmount =
              deposits[d].outstandingIntentAmount - LockedAmount(d, expired)
        /\ LockedAmount(d, expired) \in Nat
    BY <1>0, <2>1, <2>2, ReclaimedType, LockedAmountType
  <2> HIDE DEF new, expired
  <2>4. deposits'[d] = new /\ ValueSound(d)
    BY <1>0, <2>2, ValuesSound
  <2>5. Value(d)' <= Value(d)
    BY <2>3, <2>4 DEF Value, ValueSound
  <2> QED
    BY <2>1, <2>2, <2>5, PayBackStep
<1> QED
  BY <1>1, <1>2, <1>3 DEF ReclaimNext

\* A new lock finds the funds it needs free of every other.
LEMMA LockCustody ==
    ASSUME LedgerInv, LedgerInv', NEW o \in Orchestrators, NEW d \in DepositIds,
           NEW h \in IntentHashes, NEW amount \in Amounts, LockFunds(o, d, h, amount)
    PROVE  Promise!Next
<1> USE NumbersAssumption
<1> DEFINE expired == ReclaimIfNecessary(d, amount)
           deposit == Reclaimed(d, expired)
           new == [deposit EXCEPT !.remainingDeposits = @ - amount,
                                  !.outstandingIntentAmount = @ + amount]
           lock == [amount |-> amount, timestamp |-> now,
                    expiryTime |-> now + intentExpirationPeriod]
           claims == [Promise!Without(Claimed(d), expired) EXCEPT ![h] = amount]
<1>0. TypeOK /\ deposits \in [DepositIds -> Deposit]
  BY DEF LedgerInv, TypeOK
<1>1. expired \in SUBSET IntentHashes
  BY <1>0, ReclaimsOwnLocks
<1>2. /\ ~Locked(d, h) /\ Exists(d)
      /\ deposits[d].min <= amount
      /\ CanReclaim(d, expired)
      /\ deposit.remainingDeposits >= amount
      /\ deposits' = [deposits EXCEPT ![d] = new]
      /\ depositIntents' = [depositIntents EXCEPT ![d] =
            [g \in IntentHashes |->
                IF g = h THEN lock ELSE IF g \in expired THEN NoIntent ELSE @[g]]]
  BY DEF LockFunds, HasLiquidity
<1>3. /\ deposit \in Deposit
      /\ deposit.remainingDeposits =
            deposits[d].remainingDeposits + LockedAmount(d, expired)
      /\ deposit.outstandingIntentAmount =
            deposits[d].outstandingIntentAmount - LockedAmount(d, expired)
      /\ LockedAmount(d, expired) \in Nat
  BY <1>0, <1>1, <1>2, ReclaimedType, LockedAmountType
<1>4. amount \in Nat /\ amount # 0
  <2>1. deposits[d].min \in Nat /\ deposits[d].min # 0
    BY <1>0, <1>2 DEF Deposit, LedgerInv, RecordSound
  <2> QED
    BY <1>2, <2>1
<1> HIDE DEF deposit, expired
<1>5. /\ new.remainingDeposits = deposit.remainingDeposits - amount
      /\ new.outstandingIntentAmount = deposit.outstandingIntentAmount + amount
  BY <1>3 DEF Deposit
<1> HIDE DEF new
<1>6. deposits'[d] = new /\ ValueSound(d) /\ ValueSound(d)'
  BY <1>0, <1>2, ValuesSound, ValuesStaySound
<1>7. Value(d)' = Value(d) /\ amount <= Value(d)
  <2>1. deposit.remainingDeposits \in Nat /\ deposit.outstandingIntentAmount \in Nat
    BY <1>3 DEF Deposit
  <2>2. /\ Value(d) = deposit.remainingDeposits + deposit.outstandingIntentAmount
        /\ amount <= Value(d)
    BY <1>2, <1>3, <1>4, <1>6, <2>1 DEF Value, ValueSound
  <2>3. Value(d)' = new.remainingDeposits + new.outstandingIntentAmount
    BY <1>6 DEF Value
  <2> QED
    BY <1>4, <1>5, <2>1, <2>2, <2>3
<1>8. /\ Claimed(d)' = claims
      /\ \A e \in DepositIds \ {d} : depositIntents'[e] = depositIntents[e]
  <2>1. \A g \in IntentHashes :
          depositIntents'[d][g].amount =
              IF g = h THEN amount ELSE IF g \in expired THEN 0 ELSE depositIntents[d][g].amount
    BY <1>0, <1>2 DEF TypeOK, NoIntent
  <2>2. \A e \in DepositIds \ {d} : depositIntents'[e] = depositIntents[e]
    BY <1>0, <1>2 DEF TypeOK
  <2> QED
    BY <2>1, <2>2 DEF Claimed, Promise!Without
<1>9. Held' = Held /\ Reserved' = [Reserved EXCEPT ![d] = claims]
  <2>1. /\ Held' = [Held EXCEPT ![d] = Value(d)']
        /\ Reserved' = [Reserved EXCEPT ![d] = Claimed(d)']
    BY <1>0, <1>2, <1>8, OneAccount
  <2> QED
    BY <1>7, <1>8, <2>1 DEF Held
<1>10. Promise!TotalReserved(claims) <= Value(d)
  <2>1. Promise!TotalReserved(Claimed(d)') <= Value(d)'
    BY <1>6 DEF ValueSound, Promise!TotalReserved
  <2> QED
    BY <1>7, <1>8, <2>1
<1>11. amount \in 1 .. Value(d) /\ Claimed(d)[h] = 0
  BY <1>2, <1>4, <1>6, <1>7 DEF ValueSound
<1>12. Promise!Reserve(d, h)
  BY <1>1, <1>9, <1>10, <1>11 DEF Promise!Reserve, Held, Reserved, Claimed
<1> QED
  BY <1>12 DEF Promise!Next

\* A cancelled intent's lock lapses.
LEMMA UnlockCustody ==
    ASSUME LedgerInv, LedgerInv', NEW o \in Orchestrators, NEW d \in DepositIds,
           NEW h \in IntentHashes, UnlockFunds(o, d, h)
    PROVE  Promise!Next
<1> DEFINE held == depositIntents[d][h].amount
           new == [deposits[d] EXCEPT !.remainingDeposits = @ + held,
                                      !.outstandingIntentAmount = @ - held]
<1>1. deposits' = [deposits EXCEPT ![d] = new] /\ DropLocks(d, {h})
  BY Zenon DEF UnlockFunds
<1>2. deposits \in [DepositIds -> Deposit] /\ ValueSound(d)
  BY ValuesSound DEF LedgerInv, TypeOK
<1>3. held \in Nat
  BY DEF LedgerInv, TypeOK, Intent
<1> HIDE DEF held
<1>4. /\ new.remainingDeposits = deposits[d].remainingDeposits + held
      /\ new.outstandingIntentAmount = deposits[d].outstandingIntentAmount - held
  BY <1>2 DEF Deposit
<1> HIDE DEF new
<1>5. deposits'[d] = new
  BY <1>1, <1>2
<1>6. Value(d)' <= Value(d)
  BY <1>2, <1>3, <1>4, <1>5 DEF Value, ValueSound
<1>7. {h} \in SUBSET IntentHashes
  OBVIOUS
<1> QED
  BY <1>1, <1>6, <1>7, PayBackStep

\* A payout takes from its own lock, and what a closing deposit sweeps is dust.
LEMMA PayOutCustody ==
    ASSUME LedgerInv, LedgerInv', NEW o \in Orchestrators, NEW d \in DepositIds,
           NEW h \in IntentHashes, NEW amount \in Amounts,
           UnlockAndTransferFunds(o, d, h, amount)
    PROVE  Promise!Next
<1> USE NumbersAssumption
<1> DEFINE held == depositIntents[d][h].amount
           deposit == [deposits[d] EXCEPT !.remainingDeposits = @ + (held - amount),
                                          !.outstandingIntentAmount = @ - held]
           claims == Promise!Without(Claimed(d), {h})
<1>1. /\ amount # 0 /\ amount <= held
      /\ DropLocks(d, {h})
      /\ CloseIfNecessary(d, deposit)
  BY DEF UnlockAndTransferFunds
<1>2. deposits \in [DepositIds -> Deposit] /\ ValueSound(d) /\ ValueSound(d)'
  BY ValuesSound, ValuesStaySound DEF LedgerInv, TypeOK
<1>3. held \in Nat /\ held = Claimed(d)[h] /\ dustThreshold <= MaxDustThreshold
      /\ dustThreshold \in Nat
  BY DEF LedgerInv, TypeOK, Intent, Claimed
<1>4. {h} \in SUBSET IntentHashes
  OBVIOUS
<1>5. /\ Claimed(d)' = claims
      /\ \A e \in DepositIds \ {d} : depositIntents'[e] = depositIntents[e]
  BY <1>1, <1>4, DropLapses
<1> HIDE DEF held
<1>6. /\ deposit.remainingDeposits = deposits[d].remainingDeposits + (held - amount)
      /\ deposit.outstandingIntentAmount = deposits[d].outstandingIntentAmount - held
  BY <1>2 DEF Deposit
<1> HIDE DEF deposit
<1>7. PICK new :
        /\ deposits' = [deposits EXCEPT ![d] = new]
        /\ \/ new = deposit
           \/ IsClosable(deposit) /\ new = NoDeposit
  BY <1>1 DEF CloseIfNecessary
<1>8. /\ Held' = [Held EXCEPT ![d] = Value(d)']
      /\ Reserved' = [Reserved EXCEPT ![d] = claims]
      /\ deposits'[d] = new
  <2>1. /\ Held' = [Held EXCEPT ![d] = Value(d)']
        /\ Reserved' = [Reserved EXCEPT ![d] = Claimed(d)']
    BY <1>2, <1>5, <1>7, OneAccount
  <2> QED
    BY <1>2, <1>5, <1>7, <2>1
<1>9. amount \in 1 .. Claimed(d)[h]
  BY <1>1, <1>3
<1>10. CASE new = deposit
  <2>1. Value(d)' = Value(d) - amount
    BY <1>2, <1>3, <1>6, <1>8, <1>10 DEF Value, ValueSound
  <2>2. Held' = [Held EXCEPT ![d] = Value(d) - amount]
    BY <1>8, <2>1
  <2>3. Promise!PayOut(d, h)
    BY <1>8, <1>9, <2>2 DEF Promise!PayOut, Held, Reserved, Claimed
  <2> QED
    BY <2>3 DEF Promise!Next
<1>11. CASE IsClosable(deposit) /\ new = NoDeposit
  <2>1. /\ deposits'[d].outstandingIntentAmount = 0
        /\ Value(d)' = 0
    BY <1>8, <1>11 DEF Value, NoDeposit
  <2>2. Promise!TotalReserved(claims) = 0
    BY <1>2, <1>5, <2>1 DEF ValueSound, Promise!TotalReserved
  <2>3. Value(d) - amount <= MaxDustThreshold
    BY <1>2, <1>3, <1>6, <1>11 DEF Value, ValueSound, IsClosable
  <2>4. Held' = [Held EXCEPT ![d] = 0]
    BY <1>8, <2>1
  <2>5. Promise!PayOut(d, h)
    BY <1>8, <1>9, <2>2, <2>3, <2>4 DEF Promise!PayOut, Held, Reserved, Claimed
  <2> QED
    BY <2>5 DEF Promise!Next
<1> QED
  BY <1>7, <1>10, <1>11

LEMMA CustodyNext ==
    ASSUME LedgerInv, LedgerInv', [Next]_vars
    PROVE  [Promise!Next]_Promise!vars
<1>1. CASE OrchestratorNext
  BY <1>1, LockCustody, UnlockCustody, PayOutCustody DEF OrchestratorNext
<1>2. CASE GuardianNext
  <2>1. PICK e \in DepositIds, g \in IntentHashes, time \in 1 .. MaxTime :
            /\ depositIntents' = [depositIntents EXCEPT ![e][g].expiryTime = @ + time]
            /\ UNCHANGED deposits
    BY <1>2 DEF GuardianNext, ExtendIntentExpiry
  <2>2. \A d \in DepositIds, h \in IntentHashes :
            depositIntents'[d][h].amount = depositIntents[d][h].amount
    BY <2>1 DEF LedgerInv, TypeOK, Intent
  <2> QED
    BY <2>1, <2>2, Unchanging DEF Value, Claimed
<1>3. CASE OwnerNext \/ Tick \/ UNCHANGED vars
  <2>1. UNCHANGED <<deposits, depositIntents>>
    BY <1>3 DEF OwnerNext, SetOrchestrator, SetDustThreshold, SetMaxIntentsPerDeposit,
       SetIntentExpirationPeriod, PauseEscrow, UnpauseEscrow, Tick, books, vars
  <2> QED
    BY <2>1, Unchanging DEF Value, Claimed
<1> QED
  BY <1>1, <1>2, <1>3, ManageCustody, ReclaimCustody DEF Next

\* The escrow is a custodian: whatever orchestrator is installed, owners take
\* back only what no live lock reserves, a lock is placed on free funds only and
\* paid at most once and in full, and no more than dust is ever swept.
THEOREM EscrowKeepsCustody == Spec => ImplementsCustody
<1>1. Init => Promise!Init
  <2> SUFFICES ASSUME Init PROVE Promise!Init
    OBVIOUS
  <2>1. /\ \A d \in DepositIds : Value(d) = 0
        /\ \A d \in DepositIds, h \in IntentHashes : depositIntents[d][h].amount = 0
    BY DEF Init, Value, NoDeposit, NoIntent
  <2> QED
    BY <2>1 DEF Promise!Init
<1>2. LedgerInv /\ LedgerInv' /\ [Next]_vars => [Promise!Next]_Promise!vars
  BY CustodyNext
<1> QED
  BY <1>1, <1>2, LedgerInit, LedgerNext, PTL DEF Spec, ImplementsCustody, Promise!Spec

-----------------------------------------------------------------------------
(* What can always be done.                                                  *)
(* ENABLED is out of the provers' reach.  A transaction is named here by the *)
(* tests it makes (Can...) and by the state it leaves, a function of the     *)
(* state it finds (After...): that the step to that state is the transaction *)
(* wherever the tests pass says that it is enabled there.                    *)

\* A part of a deposit's locks never exceeds the running total.
LEMMA ReclaimNeverFails ==
    ASSUME LedgerInv, NEW d \in DepositIds, NEW S \in SUBSET depositIntentHashes[d]
    PROVE  CanReclaim(d, S)
<1> DEFINE amounts == [g \in IntentHashes |-> depositIntents[d][g].amount]
<1>1. TypeOK /\ LocksAgree(d)
  BY DEF LedgerInv
<1>2. S \in SUBSET IntentHashes
  BY <1>1 DEF TypeOK
<1>3. /\ \A h \in IntentHashes : amounts[h] \in Nat
      /\ LockedAmount(d, S) = SumFunctionOnSet(amounts, S)
      /\ deposits[d].outstandingIntentAmount = SumFunctionOnSet(amounts, IntentHashes)
  BY <1>1 DEF TypeOK, Intent, LocksAgree, LockedAmount
<1> HIDE DEF amounts
<1>4. SumFunctionOnSet(amounts, IntentHashes) =
        SumFunctionOnSet(amounts, S) + SumFunctionOnSet(amounts, IntentHashes \ S)
  BY <1>2, <1>3, SumSplit, HashesAssumption
<1>5. IsFiniteSet(S) /\ IsFiniteSet(IntentHashes \ S)
  BY <1>2, HashesAssumption, FS_Subset
<1>6. /\ SumFunctionOnSet(amounts, S) \in Nat
      /\ SumFunctionOnSet(amounts, IntentHashes \ S) \in Nat
  BY <1>2, <1>3, <1>5, SumType
<1> QED
  BY <1>3, <1>4, <1>6 DEF CanReclaim

\* The balance covers each deposit whole.
LEMMA BalanceCovers ==
    ASSUME LedgerInv, NEW d \in DepositIds, Exists(d)
    PROVE  /\ deposits[d].token \in Tokens
           /\ tokenBalance[deposits[d].token] \in Nat
           /\ deposits[d].remainingDeposits + deposits[d].outstandingIntentAmount
                <= tokenBalance[deposits[d].token]
<1> DEFINE t == deposits[d].token
           backing == Backing(t)
<1>1. t \in Tokens
  BY DEF LedgerInv, RecordSound
<1>2. \A e \in DepositIds : backing[e] = Worth(deposits[e], t)
  BY DEF Backing, Worth, Value
<1>3. \A e \in DepositIds : backing[e] \in Nat
  BY <1>2, WorthType DEF LedgerInv, TypeOK
<1>4. tokenBalance[t] = SumFunctionOnSet(backing, DepositIds)
  BY <1>1 DEF LedgerInv, BooksBalance
<1>5. backing[d] = deposits[d].remainingDeposits + deposits[d].outstandingIntentAmount
  BY <1>2 DEF Worth
<1>6. tokenBalance[t] \in Nat
  BY <1>1 DEF LedgerInv, TypeOK
<1> HIDE DEF backing, t, DepositIds
<1>7. SumFunctionOnSet(backing, DepositIds) =
        backing[d] + SumFunctionOnSet(backing, DepositIds \ {d})
  BY <1>3, SumRemove, DepositIdsFinite
<1>8. IsFiniteSet(DepositIds \ {d})
  BY DepositIdsFinite, FS_RemoveElement
<1>9. SumFunctionOnSet(backing, DepositIds \ {d}) \in Nat
  BY <1>3, <1>8, SumType
<1> QED
  BY <1>1, <1>3, <1>4, <1>5, <1>6, <1>7, <1>9 DEF t

\* The tables without the locks of hashes: DropLocks.
HashesWithout(d, hashes) == [depositIntentHashes EXCEPT ![d] = @ \ hashes]
LocksWithout(d, hashes) ==
    [depositIntents EXCEPT ![d] =
        [h \in IntentHashes |-> IF h \in hashes THEN NoIntent ELSE @[h]]]

\* The deposits and the depositors' lists once d has settled to record deposit:
\* CloseIfNecessary.
DepositsWith(d, deposit) ==
    [deposits EXCEPT ![d] = IF IsClosable(deposit) THEN NoDeposit ELSE deposit]
ListsWith(d, deposit) ==
    IF IsClosable(deposit)
    THEN [accountDeposits EXCEPT ![deposit.depositor] = @ \ {d}]
    ELSE accountDeposits

\* The deposit once withdrawDeposit has taken what is free and expired.
Emptied(d) ==
    [Reclaimed(d, ExpiredIntents(d)) EXCEPT !.remainingDeposits = 0,
                                            !.acceptingIntents = FALSE]

\* The tests of withdrawDeposit, those of the token and of the array included.
CanWithdraw(d) ==
    /\ CanReclaim(d, ExpiredIntents(d))
    /\ IsClosable(Emptied(d)) => d \in accountDeposits[Emptied(d).depositor]
    /\ SweptDust(Emptied(d)) + Reclaimed(d, ExpiredIntents(d)).remainingDeposits
         <= tokenBalance[deposits[d].token]

AfterWithdrawal(d) ==
    LET token == deposits[d].token
        out == SweptDust(Emptied(d)) + Reclaimed(d, ExpiredIntents(d)).remainingDeposits
    IN  <<now, depositCounter,
          <<DepositsWith(d, Emptied(d)), ListsWith(d, Emptied(d)),
            HashesWithout(d, ExpiredIntents(d)), LocksWithout(d, ExpiredIntents(d)),
            [tokenBalance EXCEPT ![token] = @ - out]>>,
          settings>>

LEMMA ReclaimedKeepsToken ==
    ASSUME TypeOK, NEW d \in DepositIds, NEW S
    PROVE  Reclaimed(d, S).token = deposits[d].token
BY DEF TypeOK, Deposit, Reclaimed

\* withdrawDeposit makes no other test.
LEMMA WithdrawalIsTested ==
    ASSUME TypeOK, NEW d \in DepositIds, CanWithdraw(d), vars' = AfterWithdrawal(d)
    PROVE  WithdrawDeposit(deposits[d].depositor, d)
<1> DEFINE expired == ExpiredIntents(d)
           out == SweptDust(Emptied(d)) + Reclaimed(d, expired).remainingDeposits
<1>1. /\ UNCHANGED <<now, depositCounter, settings>>
      /\ deposits' = DepositsWith(d, Emptied(d))
      /\ accountDeposits' = ListsWith(d, Emptied(d))
      /\ depositIntentHashes' = HashesWithout(d, expired)
      /\ depositIntents' = LocksWithout(d, expired)
      /\ tokenBalance' = [tokenBalance EXCEPT ![deposits[d].token] = @ - out]
  BY DEF AfterWithdrawal, vars, books
<1>2. DropLocks(d, expired)
  BY <1>1 DEF DropLocks, HashesWithout, LocksWithout
<1>3. CloseIfNecessary(d, Emptied(d))
  BY <1>1 DEF CloseIfNecessary, DepositsWith, ListsWith, CanWithdraw
<1>4. TransferOut(Reclaimed(d, expired).token, out)
  BY <1>1, ReclaimedKeepsToken DEF TransferOut, CanWithdraw
<1> QED
  BY <1>1, <1>2, <1>3, <1>4 DEF WithdrawDeposit, Emptied, CanWithdraw

LEMMA EmptiedType ==
    ASSUME LedgerInv, NEW d \in DepositIds
    PROVE  /\ Emptied(d).depositor = deposits[d].depositor
           /\ Emptied(d).remainingDeposits = 0
<1>1. ExpiredIntents(d) \in SUBSET depositIntentHashes[d]
  BY ReclaimsOwnLocks DEF LedgerInv
<1>2. ExpiredIntents(d) \in SUBSET IntentHashes
  BY <1>1 DEF LedgerInv, TypeOK
<1>3. /\ Reclaimed(d, ExpiredIntents(d)) \in Deposit
      /\ Reclaimed(d, ExpiredIntents(d)).depositor = deposits[d].depositor
  BY <1>1, <1>2, ReclaimNeverFails, ReclaimedType DEF LedgerInv
<1> QED
  BY <1>3 DEF Emptied, Deposit

LEMMA WithdrawalPasses == LedgerInv => \A d \in DepositIds : Exists(d) => CanWithdraw(d)
<1> SUFFICES ASSUME LedgerInv, NEW d \in DepositIds, Exists(d)
             PROVE  CanWithdraw(d)
  OBVIOUS
<1> DEFINE expired == ExpiredIntents(d)
<1>1. TypeOK /\ deposits[d] \in Deposit /\ deposits[d].depositor \in Accounts
  BY DEF LedgerInv, TypeOK, Exists, Deposit
<1>2. expired \in SUBSET depositIntentHashes[d] /\ expired \in SUBSET IntentHashes
  BY <1>1, ReclaimsOwnLocks
<1>3. CanReclaim(d, expired)
  BY <1>2, ReclaimNeverFails
<1>4. LockedAmount(d, expired) \in Nat
  BY <1>1, <1>2, LockedAmountType
<1>5. /\ Reclaimed(d, expired).remainingDeposits =
            deposits[d].remainingDeposits + LockedAmount(d, expired)
      /\ LockedAmount(d, expired) <= deposits[d].outstandingIntentAmount
  BY <1>1, <1>2, <1>3, ReclaimedType DEF CanReclaim
<1>6. SweptDust(Emptied(d)) = 0
  BY EmptiedType DEF SweptDust
<1>7. d \in accountDeposits[Emptied(d).depositor]
  BY <1>1, EmptiedType DEF LedgerInv, ListsAgree
<1>8. SweptDust(Emptied(d)) + Reclaimed(d, expired).remainingDeposits
        <= tokenBalance[deposits[d].token]
  BY <1>1, <1>4, <1>5, <1>6, BalanceCovers DEF Deposit
<1> QED
  BY <1>3, <1>7, <1>8 DEF CanWithdraw

LEMMA LedgerInvHolds == Spec => []LedgerInv
BY LedgerInit, LedgerNext, PTL DEF Spec

\* The depositor of an open deposit can withdraw at any time: no subtraction, no
\* removal from an array and no transfer that withdrawDeposit makes can revert
\* (WithdrawalIsTested), whatever is locked, expired, paused or lowered.
THEOREM WithdrawalsNeverRevert ==
    Spec => [](\A d \in DepositIds : Exists(d) => CanWithdraw(d))
BY WithdrawalPasses, LedgerInvHolds, PTL

-----------------------------------------------------------------------------
(* Making room.                                                              *)

\* The tests of lockFunds that HasRoom does not name, for what it reclaims.
CanLock(d, h, amount) ==
    LET expired == ReclaimIfNecessary(d, amount)
    IN  /\ now <= LockDeadline
        /\ Exists(d) /\ deposits[d].acceptingIntents
        /\ deposits[d].min <= amount /\ amount <= deposits[d].max
        /\ ~Locked(d, h)
        /\ CanReclaim(d, expired)
        /\ HasLiquidity(Reclaimed(d, expired), amount)
        /\ Cardinality(depositIntentHashes[d] \ expired) + 1 <= maxIntentsPerDeposit

AfterLock(d, h, amount) ==
    LET expired == ReclaimIfNecessary(d, amount)
    IN  <<now, depositCounter,
          <<[deposits EXCEPT ![d] =
                [Reclaimed(d, expired) EXCEPT !.remainingDeposits = @ - amount,
                                              !.outstandingIntentAmount = @ + amount]],
            accountDeposits,
            [depositIntentHashes EXCEPT ![d] = (@ \ expired) \cup {h}],
            [depositIntents EXCEPT ![d] =
                [g \in IntentHashes |->
                    IF g = h
                    THEN [amount |-> amount, timestamp |-> now,
                          expiryTime |-> now + intentExpirationPeriod]
                    ELSE IF g \in expired THEN NoIntent ELSE @[g]]],
            tokenBalance>>,
          settings>>

\* lockFunds makes no other test of the installed orchestrator's calls.
LEMMA LockIsTested ==
    ASSUME NEW d \in DepositIds, NEW h \in IntentHashes, NEW amount \in Amounts,
           CanLock(d, h, amount), vars' = AfterLock(d, h, amount)
    PROVE  LockFunds(orchestrator, d, h, amount)
BY DEF CanLock, AfterLock, LockFunds, vars, books

LEMMA RoomSuffices ==
    ASSUME LedgerInv, NEW d \in DepositIds, NEW h \in IntentHashes,
           NEW amount \in Amounts, HasRoom(d, h, amount),
           Cardinality(depositIntentHashes[d]) <= maxIntentsPerDeposit
    PROVE  CanLock(d, h, amount)
<1> DEFINE expired == ReclaimIfNecessary(d, amount)
           hashes == depositIntentHashes[d]
<1>1. TypeOK /\ deposits[d] \in Deposit /\ amount \in Nat /\ maxIntentsPerDeposit \in Nat
  BY NumbersAssumption DEF LedgerInv, TypeOK
<1>2. /\ expired \in SUBSET ExpiredIntents(d)
      /\ ExpiredIntents(d) \in SUBSET hashes
      /\ hashes \in SUBSET IntentHashes
  BY <1>1, ReclaimsOwnLocks
<1>3. CanReclaim(d, expired)
  BY <1>2, ReclaimNeverFails
<1>4. /\ Cardinality(hashes) \in Nat
      /\ Cardinality(hashes \ ExpiredIntents(d)) \in Nat
  BY <1>2, HashesAssumption, FS_Subset, FS_CardinalityType
<1>5. amount \in deposits[d].min .. deposits[d].max
  BY DEF HasRoom
<1>6. deposits[d].min <= amount /\ amount <= deposits[d].max
  BY <1>1, <1>5 DEF Deposit
<1>7. CASE expired = ExpiredIntents(d)
  BY <1>1, <1>3, <1>4, <1>6, <1>7 DEF HasRoom, CanLock, HasLiquidity
<1>8. CASE expired = {} /\ ~(deposits[d].remainingDeposits < amount)
                        /\ Cardinality(hashes) # maxIntentsPerDeposit
  <2>1. LockedAmount(d, {}) = 0
    BY SumEmpty DEF LockedAmount
  <2>2. Reclaimed(d, expired).remainingDeposits = deposits[d].remainingDeposits
    BY <1>1, <1>2, <1>3, <1>8, <2>1, ReclaimedType DEF Deposit
  <2>3. HasLiquidity(Reclaimed(d, expired), amount)
    BY <1>1, <1>8, <2>2 DEF HasLiquidity, Deposit
  <2>4. Cardinality(hashes \ expired) + 1 <= maxIntentsPerDeposit
    <3>1. hashes \ expired = hashes
      BY <1>8
    <3> QED
      BY <1>1, <1>4, <1>8, <3>1
  <2> QED
    BY <1>3, <1>6, <2>3, <2>4 DEF HasRoom, CanLock
<1> QED
  BY <1>7, <1>8 DEF ReclaimIfNecessary

\* Expired locks make room in whatever way a deposit came to be full: where
\* HasRoom says that a lock fits once they are gone, lockFunds passes every test.
THEOREM RoomIsUsed ==
    Spec => [](\A d \in DepositIds, h \in IntentHashes, amount \in Amounts :
                  /\ HasRoom(d, h, amount)
                  /\ Cardinality(depositIntentHashes[d]) <= maxIntentsPerDeposit
                  => CanLock(d, h, amount))
<1>1. LedgerInv =>
        \A d \in DepositIds, h \in IntentHashes, amount \in Amounts :
           /\ HasRoom(d, h, amount)
           /\ Cardinality(depositIntentHashes[d]) <= maxIntentsPerDeposit
           => CanLock(d, h, amount)
  BY RoomSuffices
<1> QED
  BY <1>1, LedgerInvHolds, PTL

\* The owner may raise maxIntentsPerDeposit.
CapNeverLowered ==
    [][maxIntentsPerDeposit' >= maxIntentsPerDeposit]_maxIntentsPerDeposit

CapKept ==
    \A d \in DepositIds : Cardinality(depositIntentHashes[d]) <= maxIntentsPerDeposit

LEMMA ManageKeepsArrays == ManageNext => UNCHANGED depositIntentHashes
<1> SUFFICES ASSUME ManageNext PROVE UNCHANGED depositIntentHashes
  OBVIOUS
<1>1. ASSUME NEW a \in Accounts, NEW t \in Tokens,
             NEW amount \in Amounts, NEW min \in Amounts, NEW max \in Amounts,
             NEW guardian \in Accounts \cup {NoAccount}, NEW retain \in BOOLEAN,
             CreateDeposit(a, t, amount, min, max, guardian, retain)
      PROVE  UNCHANGED depositIntentHashes
  BY <1>1, Zenon DEF CreateDeposit
<1>2. ASSUME NEW d \in DepositIds, NEW amount \in Amounts, AddFunds(d, amount)
      PROVE  UNCHANGED depositIntentHashes
  BY <1>2, Zenon DEF AddFunds
<1>3. ASSUME NEW d \in DepositIds, NEW min \in Amounts, NEW max \in Amounts,
             SetIntentRange(d, min, max)
      PROVE  UNCHANGED depositIntentHashes
  BY <1>3, Zenon DEF SetIntentRange
<1>4. ASSUME NEW d \in DepositIds, NEW on \in BOOLEAN,
             SetAcceptingIntents(d, on) \/ SetRetainOnEmpty(d, on)
      PROVE  UNCHANGED depositIntentHashes
  BY <1>4, Zenon DEF SetAcceptingIntents, SetRetainOnEmpty
<1> QED
  BY <1>1, <1>2, <1>3, <1>4, SMT DEF ManageNext

\* No array of locks grows but by lockFunds, which looks at the cap.
LEMMA ArraysGrowByLocks ==
    ASSUME TypeOK, [Next]_vars, NEW d \in DepositIds
    PROVE  \/ depositIntentHashes'[d] \subseteq depositIntentHashes[d]
           \/ /\ Cardinality(depositIntentHashes'[d]) <= maxIntentsPerDeposit
              /\ UNCHANGED maxIntentsPerDeposit
<1>1. ASSUME NEW e \in DepositIds, NEW S, DropLocks(e, S)
      PROVE  depositIntentHashes'[d] \subseteq depositIntentHashes[d]
  BY <1>1 DEF DropLocks, TypeOK
<1>2. CASE UNCHANGED depositIntentHashes
  BY <1>2
<1>3. CASE ManageNext
  BY <1>2, <1>3, ManageKeepsArrays
<1>4. CASE ReclaimNext
  BY <1>1, <1>4 DEF ReclaimNext, RemoveFunds, WithdrawDeposit, PruneExpiredIntents
<1>5. ASSUME NEW o, NEW e \in DepositIds, NEW h \in IntentHashes, NEW amount,
             LockFunds(o, e, h, amount)
      PROVE  \/ depositIntentHashes'[d] \subseteq depositIntentHashes[d]
             \/ /\ Cardinality(depositIntentHashes'[d]) <= maxIntentsPerDeposit
                /\ UNCHANGED maxIntentsPerDeposit
  <2> DEFINE kept == depositIntentHashes[e] \ ReclaimIfNecessary(e, amount)
  <2>1. /\ Cardinality(kept) + 1 <= maxIntentsPerDeposit
        /\ depositIntentHashes' = [depositIntentHashes EXCEPT ![e] = kept \cup {h}]
        /\ UNCHANGED maxIntentsPerDeposit
    BY <1>5 DEF LockFunds, settings
  <2>2. kept \in SUBSET IntentHashes
    BY DEF TypeOK
  <2> HIDE DEF kept
  <2>3. IsFiniteSet(kept)
    BY <2>2, HashesAssumption, FS_Subset
  <2>4. Cardinality(kept \cup {h}) <= Cardinality(kept) + 1 /\ Cardinality(kept) \in Nat
    BY <2>3, FS_AddElement, FS_CardinalityType
  <2>5. Cardinality(kept \cup {h}) \in Nat
    BY <2>3, FS_AddElement, FS_CardinalityType
  <2>6. maxIntentsPerDeposit \in Nat
    BY NumbersAssumption DEF TypeOK
  <2>7. CASE e = d
    BY <2>1, <2>4, <2>5, <2>6, <2>7 DEF TypeOK
  <2>8. CASE e # d
    BY <2>1, <2>8 DEF TypeOK
  <2> QED
    BY <2>7, <2>8
<1>6. CASE OrchestratorNext
  <2>1. PICK o \in Orchestrators, e \in DepositIds, h \in IntentHashes :
          \/ \E amount \in Amounts : LockFunds(o, e, h, amount)
          \/ UnlockFunds(o, e, h)
          \/ \E amount \in Amounts : UnlockAndTransferFunds(o, e, h, amount)
    BY <1>6, Zenon DEF OrchestratorNext
  <2>2. CASE DropLocks(e, {h})
    BY <1>1, <2>2
  <2>3. CASE \E amount \in Amounts : LockFunds(o, e, h, amount)
    BY <1>5, <2>3
  <2> QED
    BY <2>1, <2>2, <2>3 DEF UnlockFunds, UnlockAndTransferFunds
<1>7. CASE GuardianNext \/ OwnerNext \/ Tick \/ UNCHANGED vars
  BY <1>2, <1>7 DEF GuardianNext, ExtendIntentExpiry, OwnerNext, Tick, vars, books,
     SetOrchestrator, SetDustThreshold, SetMaxIntentsPerDeposit,
     SetIntentExpirationPeriod, PauseEscrow, UnpauseEscrow
<1> QED
  BY <1>3, <1>4, <1>6, <1>7 DEF Next

LEMMA CapNext ==
    /\ TypeOK /\ TypeOK' /\ CapKept /\ [Next]_vars
    /\ [maxIntentsPerDeposit' >= maxIntentsPerDeposit]_maxIntentsPerDeposit
    => CapKept'
<1> SUFFICES ASSUME TypeOK, TypeOK', CapKept, [Next]_vars,
                    [maxIntentsPerDeposit' >= maxIntentsPerDeposit]_maxIntentsPerDeposit,
                    NEW d \in DepositIds
             PROVE  Cardinality(depositIntentHashes'[d]) <= maxIntentsPerDeposit'
  BY DEF CapKept
<1>1. depositIntentHashes[d] \in SUBSET IntentHashes
  BY DEF TypeOK
<1>2. IsFiniteSet(depositIntentHashes[d])
  BY <1>1, HashesAssumption, FS_Subset
<1>3. CASE depositIntentHashes'[d] \subseteq depositIntentHashes[d]
  <2>1. /\ IsFiniteSet(depositIntentHashes'[d])
        /\ Cardinality(depositIntentHashes'[d]) <= Cardinality(depositIntentHashes[d])
    BY <1>2, <1>3, FS_Subset
  <2>2. /\ Cardinality(depositIntentHashes[d]) \in Nat
        /\ Cardinality(depositIntentHashes'[d]) \in Nat
    BY <1>2, <2>1, FS_CardinalityType
  <2>3. maxIntentsPerDeposit \in Nat /\ maxIntentsPerDeposit' \in Nat
    BY NumbersAssumption DEF TypeOK
  <2>4. maxIntentsPerDeposit' >= maxIntentsPerDeposit
    BY <2>3
  <2> QED
    BY <2>1, <2>2, <2>3, <2>4 DEF CapKept
<1>4. CASE /\ Cardinality(depositIntentHashes'[d]) <= maxIntentsPerDeposit
           /\ UNCHANGED maxIntentsPerDeposit
  BY <1>4
<1> QED
  BY <1>3, <1>4, ArraysGrowByLocks

LEMMA CapInit == Init => CapKept
<1> SUFFICES ASSUME Init, NEW d \in DepositIds
             PROVE  Cardinality(depositIntentHashes[d]) <= maxIntentsPerDeposit
  BY DEF CapKept
<1>1. depositIntentHashes[d] = {} /\ maxIntentsPerDeposit \in Nat
  BY NumbersAssumption DEF Init
<1>2. Cardinality({}) = 0
  BY FS_EmptySet
<1> QED
  BY <1>1, <1>2

\* As long as the owner does not lower the cap no deposit has more locks than it
\* allows, and the condition of RoomIsUsed goes: what the comment of lockFunds
\* says of expired intents (ExpiredLocksNeverBlock) is then true without it.
THEOREM RoomIsUsedUnderTheCap ==
    Spec /\ CapNeverLowered =>
        [](\A d \in DepositIds, h \in IntentHashes, amount \in Amounts :
              HasRoom(d, h, amount) => CanLock(d, h, amount))
<1>1. LedgerInv /\ CapKept =>
        \A d \in DepositIds, h \in IntentHashes, amount \in Amounts :
              HasRoom(d, h, amount) => CanLock(d, h, amount)
  BY RoomSuffices DEF CapKept
<1>2. LedgerInv => TypeOK
  BY DEF LedgerInv
<1> QED
  BY <1>1, <1>2, CapInit, CapNext, LedgerInvHolds, PTL DEF Spec, CapNeverLowered

-----------------------------------------------------------------------------
(* Ending a lock.                                                            *)

\* The tests of unlockFunds and unlockAndTransferFunds that do not depend on who
\* calls and on how much is paid.
CanUnlock(d, h) ==
    /\ Exists(d)
    /\ Locked(d, h)
    /\ depositIntents[d][h].amount <= deposits[d].outstandingIntentAmount
    /\ h \in depositIntentHashes[d]

AfterUnlock(d, h) ==
    LET amount == depositIntents[d][h].amount
    IN  <<now, depositCounter,
          <<[deposits EXCEPT ![d].remainingDeposits = @ + amount,
                             ![d].outstandingIntentAmount = @ - amount],
            accountDeposits, HashesWithout(d, {h}), LocksWithout(d, {h}), tokenBalance>>,
          settings>>

\* unlockFunds makes no other test of the installed orchestrator's calls.
LEMMA UnlockIsTested ==
    ASSUME NEW d \in DepositIds, NEW h \in IntentHashes, CanUnlock(d, h),
           vars' = AfterUnlock(d, h)
    PROVE  UnlockFunds(orchestrator, d, h)
BY DEF AfterUnlock, CanUnlock, UnlockFunds, DropLocks, HashesWithout, LocksWithout, vars,
   books

\* Deposit d once lock h has ended by a payment of the whole of it.
Paid(d, h) ==
    [deposits[d] EXCEPT !.remainingDeposits = @ + (depositIntents[d][h].amount
                                                   - depositIntents[d][h].amount),
                        !.outstandingIntentAmount = @ - depositIntents[d][h].amount]

\* The tests of unlockAndTransferFunds for a payment of the whole lock.
CanPay(d, h) ==
    /\ CanUnlock(d, h)
    /\ depositIntents[d][h].amount # 0
    /\ IsClosable(Paid(d, h)) => d \in accountDeposits[Paid(d, h).depositor]
    /\ SweptDust(Paid(d, h)) + depositIntents[d][h].amount <= tokenBalance[deposits[d].token]

AfterPayment(d, h) ==
    LET out == SweptDust(Paid(d, h)) + depositIntents[d][h].amount
    IN  <<now, depositCounter,
          <<DepositsWith(d, Paid(d, h)), ListsWith(d, Paid(d, h)),
            HashesWithout(d, {h}), LocksWithout(d, {h}),
            [tokenBalance EXCEPT ![deposits[d].token] = @ - out]>>,
          settings>>

LEMMA PaymentIsTested ==
    ASSUME TypeOK, NEW d \in DepositIds, NEW h \in IntentHashes, CanPay(d, h),
           vars' = AfterPayment(d, h)
    PROVE  UnlockAndTransferFunds(orchestrator, d, h, depositIntents[d][h].amount)
<1> DEFINE amount == depositIntents[d][h].amount
           out == SweptDust(Paid(d, h)) + amount
<1>1. /\ UNCHANGED <<now, depositCounter, settings>>
      /\ deposits' = DepositsWith(d, Paid(d, h))
      /\ accountDeposits' = ListsWith(d, Paid(d, h))
      /\ depositIntentHashes' = HashesWithout(d, {h})
      /\ depositIntents' = LocksWithout(d, {h})
      /\ tokenBalance' = [tokenBalance EXCEPT ![deposits[d].token] = @ - out]
  BY DEF AfterPayment, vars, books
<1>2. DropLocks(d, {h})
  BY <1>1 DEF DropLocks, HashesWithout, LocksWithout
<1>3. CloseIfNecessary(d, Paid(d, h))
  BY <1>1 DEF CloseIfNecessary, DepositsWith, ListsWith, CanPay
<1>4. Paid(d, h).token = deposits[d].token
  BY DEF Paid, TypeOK, Deposit
<1>5. TransferOut(Paid(d, h).token, out)
  BY <1>1, <1>4 DEF TransferOut, CanPay
<1>6. amount \in Nat
  BY DEF TypeOK, Intent
<1> QED
  BY <1>1, <1>2, <1>3, <1>5, <1>6 DEF UnlockAndTransferFunds, Paid, CanPay, CanUnlock

\* Locks are backed: the running total, the array of locks and the balance allow
\* each to be released or paid.
LEMMA LocksCanBePaid ==
    ASSUME LedgerInv, NEW d \in DepositIds, NEW h \in IntentHashes, Locked(d, h)
    PROVE  CanPay(d, h)
<1> DEFINE amount == depositIntents[d][h].amount
<1>1. /\ TypeOK /\ deposits[d] \in Deposit /\ amount \in Nat /\ amount # 0
      /\ h \in depositIntentHashes[d]
  BY DEF LedgerInv, TypeOK, Intent, LocksAgree
<1>2. Exists(d) /\ deposits[d].depositor \in Accounts
  BY <1>1 DEF LedgerInv, RecordSound, Exists, Deposit
<1>3. amount <= deposits[d].outstandingIntentAmount
  <2>1. {h} \in SUBSET depositIntentHashes[d]
    BY <1>1
  <2>2. CanReclaim(d, {h})
    BY <2>1, ReclaimNeverFails
  <2> QED
    BY <1>1, <2>2, OneLock DEF CanReclaim
<1> HIDE DEF amount
<1>4. /\ Paid(d, h).depositor = deposits[d].depositor
      /\ Paid(d, h).remainingDeposits = deposits[d].remainingDeposits
  BY <1>1 DEF Paid, Deposit, amount
<1>5. d \in accountDeposits[Paid(d, h).depositor]
  BY <1>2, <1>4 DEF LedgerInv, ListsAgree
<1>6. /\ deposits[d].remainingDeposits \in Nat
      /\ deposits[d].outstandingIntentAmount \in Nat
  BY <1>1 DEF Deposit
<1>7. SweptDust(Paid(d, h)) \in 0 .. deposits[d].remainingDeposits
  BY <1>4, <1>6 DEF SweptDust
<1>8. SweptDust(Paid(d, h)) + amount <= tokenBalance[deposits[d].token]
  BY <1>1, <1>2, <1>3, <1>6, <1>7, BalanceCovers
<1> QED
  BY <1>1, <1>2, <1>3, <1>5, <1>8 DEF CanPay, CanUnlock, amount

\* Whatever the owner, the depositors and the guardian do, the installed
\* orchestrator can end every lock, by releasing it or by paying all of it: no
\* test of unlockFunds or unlockAndTransferFunds refuses it.
THEOREM LocksCanAlwaysEnd ==
    Spec => [](\A d \in DepositIds, h \in IntentHashes :
                  Locked(d, h) => CanUnlock(d, h) /\ CanPay(d, h))
<1>1. LedgerInv => \A d \in DepositIds, h \in IntentHashes :
                      Locked(d, h) => CanUnlock(d, h) /\ CanPay(d, h)
  BY LocksCanBePaid DEF CanPay
<1> QED
  BY <1>1, LedgerInvHolds, PTL

-----------------------------------------------------------------------------
(* How long a lock can last.                                                 *)

\* The lock with its expiry put back by a guardian.
Extended(d, h) ==
    \E time \in Nat :
        /\ MayExtend(depositIntents[d][h], time)
        /\ depositIntents'[d][h] = [depositIntents[d][h] EXCEPT !.expiryTime = @ + time]

\* A lock placed now by lockFunds.
Placed(d, h) ==
    \E amount \in Amounts :
        /\ now <= LockDeadline
        /\ deposits[d].acceptingIntents
        /\ depositIntents'[d][h] = [amount |-> amount, timestamp |-> now,
                                    expiryTime |-> now + intentExpirationPeriod]

\* What one step does to one lock: it stays, is extended, ends or is placed.
LEMMA LockStep ==
    ASSUME TypeOK, [Next]_vars, NEW d \in DepositIds, NEW h \in IntentHashes
    PROVE  \/ depositIntents'[d][h] = depositIntents[d][h]
           \/ Locked(d, h) /\ Extended(d, h)
           \/ ~Locked(d, h)'
           \/ ~Locked(d, h) /\ Placed(d, h)
<1> DEFINE Goal == \/ depositIntents'[d][h] = depositIntents[d][h]
                   \/ Locked(d, h) /\ Extended(d, h)
                   \/ ~Locked(d, h)'
                   \/ ~Locked(d, h) /\ Placed(d, h)
<1>1. CASE UNCHANGED depositIntents
  BY <1>1
<1>2. ASSUME NEW e \in DepositIds, NEW S, DropLocks(e, S)
      PROVE  Goal
  BY <1>2, DroppedLocks
<1>3. CASE ReclaimNext
  <2>1. \E e \in DepositIds : \E S : DropLocks(e, S)
    BY <1>3 DEF ReclaimNext, RemoveFunds, WithdrawDeposit, PruneExpiredIntents
  <2> QED
    BY <1>2, <2>1
<1>4. CASE OrchestratorNext
  <2>1. PICK o \in Orchestrators, e \in DepositIds, g \in IntentHashes :
            \/ \E amount \in Amounts : LockFunds(o, e, g, amount)
            \/ UnlockFunds(o, e, g)
            \/ \E amount \in Amounts : UnlockAndTransferFunds(o, e, g, amount)
    BY <1>4 DEF OrchestratorNext
  <2>2. ASSUME NEW amount \in Amounts, LockFunds(o, e, g, amount)
        PROVE  Goal
    <3> DEFINE expired == ReclaimIfNecessary(e, amount)
    <3>1. /\ now <= LockDeadline
          /\ ~Locked(e, g)
          /\ deposits[e].acceptingIntents
          /\ depositIntents' = [depositIntents EXCEPT ![e] =
                [f \in IntentHashes |->
                    IF f = g
                    THEN [amount |-> amount, timestamp |-> now,
                          expiryTime |-> now + intentExpirationPeriod]
                    ELSE IF f \in expired THEN NoIntent ELSE @[f]]]
      BY <2>2, Zenon DEF LockFunds
    <3> HIDE DEF expired
    <3>2. CASE d = e /\ h = g
      <4>1. depositIntents'[d][h] = [amount |-> amount, timestamp |-> now,
                                     expiryTime |-> now + intentExpirationPeriod]
        BY <3>1, <3>2 DEF TypeOK
      <4> QED
        BY <3>1, <3>2, <4>1 DEF Placed
    <3>3. CASE ~(d = e /\ h = g)
      <4>1. depositIntents'[d][h] = NoIntent
            \/ depositIntents'[d][h] = depositIntents[d][h]
        BY <3>1, <3>3 DEF TypeOK
      <4> QED
        BY <4>1 DEF Locked
    <3> QED
      BY <3>2, <3>3
  <2>3. UnlockFunds(o, e, g) => DropLocks(e, {g})
    BY Zenon DEF UnlockFunds
  <2>4. \A amount : UnlockAndTransferFunds(o, e, g, amount) => DropLocks(e, {g})
    BY Zenon DEF UnlockAndTransferFunds
  <2> QED
    BY <1>2, <2>1, <2>2, <2>3, <2>4
<1>5. CASE GuardianNext
  <2>1. PICK a \in Accounts, e \in DepositIds, g \in IntentHashes, time \in 1 .. MaxTime :
            ExtendIntentExpiry(a, e, g, time)
    BY <1>5 DEF GuardianNext
  <2>2. /\ Locked(e, g)
        /\ MayExtend(depositIntents[e][g], time)
        /\ depositIntents' = [depositIntents EXCEPT ![e][g].expiryTime = @ + time]
    BY <2>1, Zenon DEF ExtendIntentExpiry
  <2>3. CASE d = e /\ h = g
    <3>1. depositIntents'[d][h] = [depositIntents[d][h] EXCEPT !.expiryTime = @ + time]
      BY <2>2, <2>3 DEF TypeOK
    <3>2. time \in Nat
      BY NumbersAssumption
    <3> QED
      BY <2>2, <2>3, <3>1, <3>2 DEF Extended
  <2>4. CASE ~(d = e /\ h = g)
    BY <2>2, <2>4 DEF TypeOK
  <2> QED
    BY <2>3, <2>4
<1>6. CASE OwnerNext \/ Tick \/ UNCHANGED vars
  <2>1. UNCHANGED depositIntents
    BY <1>6 DEF OwnerNext, SetOrchestrator, SetDustThreshold, SetMaxIntentsPerDeposit,
       SetIntentExpirationPeriod, PauseEscrow, UnpauseEscrow, Tick, vars, books
  <2> QED
    BY <1>1, <2>1
<1> QED
  BY <1>1, <1>3, <1>4, <1>5, <1>6, ManageKeepsLocks DEF Next

\* The last block at which the lock can still be alive: the guardian's extensions
\* end MaxTotalExpiration after the lock was placed, unless the owner's period,
\* which nothing compares with that limit, has taken it further at once.
LatestExpiry(d, h) ==
    LET lock == depositIntents[d][h]
        limit == lock.timestamp + MaxTotalExpiration
    IN  IF lock.expiryTime <= limit THEN limit ELSE lock.expiryTime

\* What a lock's terms may be.
Agreed(lock) ==
    /\ lock.timestamp \in 1 .. now /\ lock.timestamp <= LockDeadline
    /\ \E period \in ExpirationPeriods :
          /\ lock.timestamp + period <= lock.expiryTime
          /\ \/ lock.expiryTime = lock.timestamp + period
             \/ lock.expiryTime <= lock.timestamp + MaxTotalExpiration

TermsAgreed ==
    \A d \in DepositIds, h \in IntentHashes :
        Locked(d, h) => Agreed(depositIntents[d][h])

LEMMA TimePasses ==
    ASSUME TypeOK, [Next]_vars
    PROVE  now' >= now /\ now' \in Nat
<1>1. now \in Nat
  BY DEF TypeOK
<1>2. ManageNext => UNCHANGED now
  BY ManageKeepsLocks
<1>3. ReclaimNext => UNCHANGED now
  BY Zenon DEF ReclaimNext, RemoveFunds, WithdrawDeposit, PruneExpiredIntents
<1>4. OrchestratorNext => UNCHANGED now
  <2>1. ASSUME NEW o \in Orchestrators, NEW d \in DepositIds, NEW h \in IntentHashes,
               \/ \E amount \in Amounts : LockFunds(o, d, h, amount)
               \/ UnlockFunds(o, d, h)
               \/ \E amount \in Amounts : UnlockAndTransferFunds(o, d, h, amount)
        PROVE  UNCHANGED now
    BY <2>1, Zenon DEF LockFunds, UnlockFunds, UnlockAndTransferFunds
  <2> QED
    BY <2>1 DEF OrchestratorNext
<1>5. GuardianNext => UNCHANGED now
  BY Zenon DEF GuardianNext, ExtendIntentExpiry
<1>6. OwnerNext \/ UNCHANGED vars => UNCHANGED now
  BY DEF OwnerNext, SetOrchestrator, SetDustThreshold,
     SetMaxIntentsPerDeposit, SetIntentExpirationPeriod, PauseEscrow, UnpauseEscrow, vars
<1>7. Tick => now' = now + 1
  BY DEF Tick
<1>8. now' = now \/ now' = now + 1
  BY <1>2, <1>3, <1>4, <1>5, <1>6, <1>7 DEF Next
<1> QED
  BY <1>1, <1>8

LEMMA TermsNext ==
    ASSUME TypeOK, TypeOK', TermsAgreed, [Next]_vars
    PROVE  TermsAgreed'
<1> SUFFICES ASSUME NEW d \in DepositIds, NEW h \in IntentHashes, Locked(d, h)'
             PROVE  Agreed(depositIntents[d][h])'
  BY DEF TermsAgreed
<1> DEFINE lock == depositIntents[d][h]
           after == depositIntents'[d][h]
<1> SUFFICES /\ after.timestamp \in 1 .. now' /\ after.timestamp <= LockDeadline
             /\ \E period \in ExpirationPeriods :
                  /\ after.timestamp + period <= after.expiryTime
                  /\ \/ after.expiryTime = after.timestamp + period
                     \/ after.expiryTime <= after.timestamp + MaxTotalExpiration
  BY DEF Agreed
<1>1. /\ now \in Nat /\ now >= 1 /\ now' >= now /\ now' \in Nat
      /\ lock \in Intent /\ MaxTotalExpiration \in Nat
      /\ ExpirationPeriods \subseteq Nat
      /\ intentExpirationPeriod \in ExpirationPeriods
  BY TimePasses, NumbersAssumption DEF TypeOK
<1>2. Locked(d, h) => Agreed(lock)
  BY DEF TermsAgreed
<1>3. CASE after = lock
  <2>1. Agreed(lock)
    BY <1>2, <1>3 DEF Locked
  <2>2. lock.timestamp \in 1 .. now' /\ lock.timestamp <= LockDeadline
    BY <1>1, <2>1 DEF Agreed
  <2> QED
    BY <1>3, <2>1, <2>2 DEF Agreed
<1>4. CASE Locked(d, h) /\ Extended(d, h)
  <2>1. PICK time \in Nat : /\ MayExtend(lock, time)
                            /\ after = [lock EXCEPT !.expiryTime = @ + time]
    BY <1>4 DEF Extended
  <2>2. /\ after.timestamp = lock.timestamp
        /\ after.expiryTime = lock.expiryTime + time
        /\ after.expiryTime <= after.timestamp + MaxTotalExpiration
        /\ lock.timestamp \in Nat /\ lock.expiryTime \in Nat
    BY <1>1, <2>1 DEF Intent, MayExtend
  <2>3. PICK period \in ExpirationPeriods : lock.timestamp + period <= lock.expiryTime
    BY <1>2, <1>4 DEF Agreed
  <2>4. lock.timestamp \in 1 .. now /\ lock.timestamp <= LockDeadline
    BY <1>2, <1>4 DEF Agreed
  <2>5. /\ after.timestamp + period <= after.expiryTime
        /\ after.timestamp \in 1 .. now' /\ after.timestamp <= LockDeadline
    BY <1>1, <2>2, <2>3, <2>4
  <2> QED
    BY <2>2, <2>5 DEF Agreed
<1>5. CASE Placed(d, h)
  <2>1. /\ after.timestamp = now
        /\ after.expiryTime = now + intentExpirationPeriod
        /\ now <= LockDeadline
    BY <1>5 DEF Placed
  <2> HIDE DEF after
  <2>2. after.timestamp \in 1 .. now' /\ after.timestamp <= LockDeadline
    BY <1>1, <2>1
  <2>3. after.expiryTime = after.timestamp + intentExpirationPeriod
    BY <2>1
  <2>4. after.timestamp + intentExpirationPeriod <= after.expiryTime
    BY <1>1, <2>3, <2>2
  <2> QED
    BY <1>1, <2>2, <2>3, <2>4 DEF Agreed
<1> QED
  BY <1>3, <1>4, <1>5, LockStep

\* A lock ends between the first expiry the owner's period gave it and the limit
\* of the guardian's extensions, which counts from the block that placed it however
\* many extensions there are; only a period that was itself longer goes beyond.
THEOREM ExtensionsAreLimited == Spec => []TermsAgreed
<1>1. Init => TermsAgreed
  BY DEF Init, TermsAgreed, Locked
<1>2. Spec => []TypeOK
  BY TypeCorrect
<1>3. TypeOK /\ TypeOK' /\ TermsAgreed /\ [Next]_vars => TermsAgreed'
  BY TermsNext
<1> QED
  BY <1>1, <1>2, <1>3, PTL DEF Spec

\* Only a later lock under the same hash has other terms: while a lock lasts, the
\* block by which it must have expired stays the one known when it was placed.
LEMMA DeadlineStays ==
    ASSUME LedgerInv, [Next]_vars, NEW d \in DepositIds, NEW h \in IntentHashes,
           Locked(d, h)
    PROVE  ~Locked(d, h)' \/ LatestExpiry(d, h)' = LatestExpiry(d, h)
<1> DEFINE lock == depositIntents[d][h]
           after == depositIntents'[d][h]
<1>1. TypeOK /\ lock \in Intent /\ MaxTotalExpiration \in Nat
  BY NumbersAssumption DEF LedgerInv, TypeOK
<1>2. CASE after = lock
  BY <1>2 DEF LatestExpiry
<1>3. CASE Extended(d, h)
  <2>1. PICK time \in Nat : /\ MayExtend(lock, time)
                            /\ after = [lock EXCEPT !.expiryTime = @ + time]
    BY <1>3 DEF Extended
  <2>2. /\ after.timestamp = lock.timestamp
        /\ after.expiryTime = lock.expiryTime + time
        /\ lock.expiryTime + time <= lock.timestamp + MaxTotalExpiration
        /\ lock.timestamp \in Nat /\ lock.expiryTime \in Nat
    BY <1>1, <2>1 DEF Intent, MayExtend
  <2> QED
    BY <1>1, <2>2 DEF LatestExpiry
<1> QED
  BY <1>1, <1>2, <1>3, LockStep

\* The theorem above as a property of steps.
THEOREM DeadlinesAreFixed ==
    Spec => [][\A d \in DepositIds, h \in IntentHashes :
                  Locked(d, h) /\ Locked(d, h)' =>
                      LatestExpiry(d, h)' = LatestExpiry(d, h)]_vars
<1>1. LedgerInv /\ [Next]_vars =>
        [\A d \in DepositIds, h \in IntentHashes :
            Locked(d, h) /\ Locked(d, h)' =>
                LatestExpiry(d, h)' = LatestExpiry(d, h)]_vars
  BY DeadlineStays
<1> QED
  BY <1>1, LedgerInvHolds, PTL DEF Spec

\* Past its deadline a lock has expired.
LEMMA DeadlineCovers ==
    ASSUME TypeOK, NEW d \in DepositIds, NEW h \in IntentHashes, NEW t \in Nat,
           LatestExpiry(d, h) <= t, now > t
    PROVE  depositIntents[d][h].expiryTime < now
<1>1. depositIntents[d][h] \in Intent /\ now \in Nat /\ MaxTotalExpiration \in Nat
  BY NumbersAssumption DEF TypeOK
<1>2. depositIntents[d][h].expiryTime \in Nat /\ depositIntents[d][h].timestamp \in Nat
  BY <1>1 DEF Intent
<1> QED
  BY <1>1, <1>2 DEF LatestExpiry

LEMMA PastStays ==
    ASSUME TypeOK, [Next]_vars, NEW t \in Nat, now > t
    PROVE  now' > t
BY TimePasses DEF TypeOK

\* The lock must have expired by t.
DueBy(d, h, t) == Locked(d, h) /\ LatestExpiry(d, h) <= t

LEMMA DueStays ==
    ASSUME LedgerInv, [Next]_vars, NEW d \in DepositIds, NEW h \in IntentHashes,
           NEW t \in Nat, DueBy(d, h, t)
    PROVE  ~Locked(d, h)' \/ DueBy(d, h, t)'
BY DeadlineStays DEF DueBy

-----------------------------------------------------------------------------
(* What must end.                                                            *)
(* The liveness properties of the runs are stated here without ENABLED: a    *)
(* call that is made again and again is one that happens infinitely often    *)
(* unless the tests of the transaction keep failing (Can...), and "IsTested" *)
(* says that where they pass the step is there to be taken, so that the weak *)
(* fairness of the call implies the formula.  ClockAdvances gives one tick;  *)
(* that the clock passes any t, or runs to its bound, takes an induction over *)
(* time and is a hypothesis: <>(now > t), ClockRuns.                         *)

\* Time is not stuck where the model lets it go on.
FairTick == []<>(~(now < MaxTime)) \/ []<><<Tick>>_vars

\* Each block is followed by another, whatever is called in between.
THEOREM ClockAdvances ==
    ASSUME NEW t \in 1 .. MaxTime - 1
    PROVE  Spec /\ FairTick => (now = t ~> now > t)
<1> DEFINE At == now = t
           Past == now > t
<1>1. LedgerInv /\ [Next]_vars /\ At => At' \/ Past'
  <2>1. LedgerInv /\ [Next]_vars => now' >= now /\ now' \in Nat
    BY TimePasses DEF LedgerInv
  <2>2. t \in Nat
    BY NumbersAssumption
  <2> QED
    BY <2>1, <2>2
<1>2. At => now < MaxTime
  BY NumbersAssumption
<1>3. At /\ <<Tick>>_vars => Past'
  BY DEF Tick
<1>4. (now = t <=> At) /\ (now > t <=> Past)
  OBVIOUS
<1> HIDE DEF At, Past
<1> QED
  BY <1>1, <1>2, <1>3, <1>4, LedgerInvHolds, PTL DEF Spec, FairTick

ClockRuns == <>(now = MaxTime)

LEMMA ClockStops ==
    ASSUME TypeOK, TypeOK', [Next]_vars, now = MaxTime
    PROVE  now' = MaxTime
BY TimePasses, NumbersAssumption DEF TypeOK

\* LocksEventuallyExpire, from time alone: once the chain is past a lock's
\* deadline, the lock has ended or expired, whatever the guardian and the owner did.
THEOREM LocksExpire ==
    ASSUME NEW d \in DepositIds, NEW h \in IntentHashes, NEW t \in Nat
    PROVE  Spec /\ <>(now > t) =>
             (DueBy(d, h, t) ~> ~Locked(d, h) \/ depositIntents[d][h].expiryTime < now)
<1> DEFINE Due == DueBy(d, h, t)
           Past == now > t
           Over == ~Locked(d, h) \/ depositIntents[d][h].expiryTime < now
<1>1. LedgerInv /\ [Next]_vars /\ Due => Due' \/ Over'
  BY DueStays
<1>2. LedgerInv /\ [Next]_vars /\ Past => Past'
  BY PastStays DEF LedgerInv
<1>3. LedgerInv /\ Due /\ Past => Over
  BY DeadlineCovers DEF LedgerInv, DueBy
<1>4. /\ DueBy(d, h, t) <=> Due
      /\ now > t <=> Past
      /\ ~Locked(d, h) \/ depositIntents[d][h].expiryTime < now <=> Over
  OBVIOUS
<1> HIDE DEF Due, Past, Over
<1> QED
  BY <1>1, <1>2, <1>3, <1>4, LedgerInvHolds, PTL DEF Spec

\* The bounds of a model leave every lock time to end: its last block lies after
\* the deadline of whatever is locked by LockDeadline.
LocksLeaveTime ==
    /\ LockDeadline + MaxTotalExpiration < MaxTime
    /\ \A period \in ExpirationPeriods : LockDeadline + period < MaxTime

LEMMA LocksAreDue ==
    ASSUME LocksLeaveTime, TypeOK, TermsAgreed,
           NEW d \in DepositIds, NEW h \in IntentHashes, Locked(d, h)
    PROVE  DueBy(d, h, MaxTime - 1)
<1> DEFINE lock == depositIntents[d][h]
<1>1. /\ lock \in Intent /\ MaxTotalExpiration \in Nat /\ LockDeadline \in Nat
      /\ MaxTime \in Nat /\ ExpirationPeriods \subseteq Nat
  BY NumbersAssumption DEF TypeOK
<1>2. lock.timestamp \in Nat /\ lock.expiryTime \in Nat
  BY <1>1 DEF Intent
<1>3. Agreed(lock)
  BY DEF TermsAgreed
<1>4. PICK period \in ExpirationPeriods :
        \/ lock.expiryTime = lock.timestamp + period
        \/ lock.expiryTime <= lock.timestamp + MaxTotalExpiration
  BY <1>3 DEF Agreed
<1>5. lock.timestamp <= LockDeadline
  BY <1>3 DEF Agreed
<1>6. period \in Nat /\ LockDeadline + period < MaxTime
      /\ LockDeadline + MaxTotalExpiration < MaxTime
  BY <1>1 DEF LocksLeaveTime
<1> HIDE DEF lock
<1>7. lock.timestamp + MaxTotalExpiration <= MaxTime - 1
      /\ lock.expiryTime <= MaxTime - 1
  BY <1>1, <1>2, <1>4, <1>5, <1>6
<1> QED
  BY <1>7 DEF DueBy, LatestExpiry, lock

\* LocksEventuallyExpire as the runs check it, in any instance whose clock leaves
\* the locks time to end.
THEOREM EveryLockExpires ==
    ASSUME LocksLeaveTime
    PROVE  Spec /\ ClockRuns => LocksEventuallyExpire
<1>1. ASSUME NEW d \in DepositIds, NEW h \in IntentHashes
      PROVE  Spec /\ ClockRuns => (Locked(d, h) ~>
               (~Locked(d, h) \/ depositIntents[d][h].expiryTime < now))
  <2> DEFINE Due == Locked(d, h)
             Past == now = MaxTime
             Over == ~Locked(d, h) \/ depositIntents[d][h].expiryTime < now
  <2>1. LedgerInv /\ LedgerInv' /\ [Next]_vars /\ Past => Past'
    BY ClockStops DEF LedgerInv
  <2>2. LedgerInv /\ TermsAgreed /\ Due /\ Past => Over
    <3> SUFFICES ASSUME LedgerInv, TermsAgreed, Due, Past PROVE Over
      OBVIOUS
    <3>1. DueBy(d, h, MaxTime - 1)
      BY LocksAreDue DEF LedgerInv
    <3>2. MaxTime - 1 \in Nat /\ now > MaxTime - 1
      BY NumbersAssumption
    <3> QED
      BY <3>1, <3>2, DeadlineCovers DEF LedgerInv, DueBy
  <2>3. /\ Locked(d, h) <=> Due
        /\ now = MaxTime <=> Past
        /\ ~Locked(d, h) \/ depositIntents[d][h].expiryTime < now <=> Over
    OBVIOUS
  <2>4. ~Due => Over
    OBVIOUS
  <2> HIDE DEF Due, Past, Over
  <2> QED
    BY <2>1, <2>2, <2>3, <2>4, LedgerInvHolds, ExtensionsAreLimited, PTL DEF Spec, ClockRuns
<1> QED
  BY <1>1 DEF LocksEventuallyExpire

\* pruneExpiredIntents tests nothing but the subtraction.
AfterPruning(d) ==
    LET expired == ExpiredIntents(d)
    IN  <<now, depositCounter,
          <<[deposits EXCEPT ![d] = Reclaimed(d, expired)], accountDeposits,
            HashesWithout(d, expired), LocksWithout(d, expired), tokenBalance>>,
          settings>>

\* pruneExpiredIntents can be called on d and makes a difference.
CanPrune(d) == CanReclaim(d, ExpiredIntents(d)) /\ AfterPruning(d) # vars

LEMMA PruningIsTested ==
    ASSUME NEW d \in DepositIds, CanPrune(d), vars' = AfterPruning(d)
    PROVE  <<PruneExpiredIntents(d)>>_vars
<1>1. PruneExpiredIntents(d)
  BY DEF CanPrune, AfterPruning, PruneExpiredIntents, DropLocks, HashesWithout,
     LocksWithout, vars, books
<1> QED
  BY <1>1 DEF CanPrune

\* An expired lock is something to prune.
LEMMA ExpiredCanBePruned ==
    ASSUME LedgerInv, NEW d \in DepositIds, ExpiredIntents(d) # {}
    PROVE  CanPrune(d)
<1>1. TypeOK /\ ExpiredIntents(d) \in SUBSET depositIntentHashes[d]
  BY ReclaimsOwnLocks DEF LedgerInv
<1>2. HashesWithout(d, ExpiredIntents(d)) # depositIntentHashes
  BY <1>1 DEF HashesWithout, TypeOK
<1>3. AfterPruning(d) # vars
  BY <1>2 DEF AfterPruning, vars, books
<1> QED
  BY <1>1, <1>3, ReclaimNeverFails DEF CanPrune

LEMMA PruningEnds ==
    ASSUME LedgerInv, NEW d \in DepositIds, NEW h \in ExpiredIntents(d),
           PruneExpiredIntents(d)
    PROVE  ~Locked(d, h)'
BY DEF LedgerInv, TypeOK, ExpiredIntents, PruneExpiredIntents, DropLocks, Locked

\* Someone keeps calling pruneExpiredIntents on d: the weak fairness of the call,
\* with CanPrune for what enables it.
FairPruning(d) == []<>(~CanPrune(d)) \/ []<><<PruneExpiredIntents(d)>>_vars

\* Where the step that can be taken is ENABLED, weak fairness is this one.
LEMMA FairPruningIsWeak ==
    ASSUME NEW d \in DepositIds
    PROVE  [](CanPrune(d) => ENABLED <<PruneExpiredIntents(d)>>_vars)
             => (WF_vars(PruneExpiredIntents(d)) => FairPruning(d))
BY PTL DEF FairPruning

\* What has expired does not stay: as long as someone prunes, each lock is gone in
\* the end, though neither taker, depositor nor orchestrator ever acts on it.
THEOREM LocksEnd ==
    ASSUME NEW d \in DepositIds, NEW h \in IntentHashes, NEW t \in Nat
    PROVE  Spec /\ FairPruning(d) /\ <>(now > t) => (DueBy(d, h, t) ~> ~Locked(d, h))
<1> DEFINE Due == DueBy(d, h, t)
           Past == now > t
           Over == ~Locked(d, h)
<1>1. LedgerInv /\ [Next]_vars /\ Due => Due' \/ Over'
  BY DueStays
<1>2. LedgerInv /\ [Next]_vars /\ Past => Past'
  BY PastStays DEF LedgerInv
<1>3. LedgerInv /\ Due /\ Past => h \in ExpiredIntents(d)
  BY DeadlineCovers DEF LedgerInv, LocksAgree, DueBy, ExpiredIntents
<1>4. LedgerInv /\ Due /\ Past => CanPrune(d)
  BY <1>3, ExpiredCanBePruned
<1>5. LedgerInv /\ Due /\ Past /\ <<PruneExpiredIntents(d)>>_vars => Over'
  BY <1>3, PruningEnds
<1>6. /\ DueBy(d, h, t) <=> Due
      /\ now > t <=> Past
      /\ ~Locked(d, h) <=> Over
  OBVIOUS
<1> HIDE DEF Due, Past, Over
<1> QED
  BY <1>1, <1>2, <1>4, <1>5, <1>6, LedgerInvHolds, PTL DEF Spec, FairPruning

\* Nothing in the settings of d keeps it open once it is empty.
Leaving(d) == ~deposits[d].acceptingIntents /\ ~deposits[d].retainOnEmpty

\* Every lock on d must have expired by t.
AllDueBy(d, t) == \A h \in IntentHashes : Locked(d, h) => LatestExpiry(d, h) <= t

LEMMA AllDueStays ==
    ASSUME LedgerInv, [Next]_vars, NEW d \in DepositIds, NEW t \in Nat,
           Leaving(d), AllDueBy(d, t)
    PROVE  AllDueBy(d, t)'
<1> SUFFICES ASSUME NEW h \in IntentHashes, Locked(d, h)'
             PROVE  LatestExpiry(d, h)' <= t
  BY DEF AllDueBy
<1>1. CASE Locked(d, h)
  BY <1>1, DeadlineStays DEF AllDueBy
<1>2. CASE ~Locked(d, h)
  <2>1. depositIntents'[d][h] # depositIntents[d][h]
    BY <1>2 DEF Locked
  <2>2. ~Placed(d, h)
    BY DEF Placed, Leaving
  <2> QED
    BY <1>2, <2>1, <2>2, LockStep DEF LedgerInv
<1> QED
  BY <1>1, <1>2

\* With every lock expired, what is free and expired is all there is.
LEMMA AllExpired ==
    ASSUME LedgerInv, NEW d \in DepositIds, NEW t \in Nat, AllDueBy(d, t), now > t
    PROVE  ExpiredIntents(d) = {h \in IntentHashes : Locked(d, h)}
<1>1. \A h \in IntentHashes : Locked(d, h) => depositIntents[d][h].expiryTime < now
  BY DeadlineCovers DEF LedgerInv, AllDueBy
<1> QED
  BY <1>1 DEF LedgerInv, LocksAgree, ExpiredIntents

LEMMA NothingElseLocked ==
    ASSUME TypeOK, NEW d \in DepositIds, NEW S \in SUBSET IntentHashes,
           \A h \in IntentHashes \ S : ~Locked(d, h)
    PROVE  LockedAmount(d, S) = LockedAmount(d, IntentHashes)
<1> DEFINE amounts == [g \in IntentHashes |-> depositIntents[d][g].amount]
<1>1. \A g \in IntentHashes : amounts[g] \in Nat
  BY DEF TypeOK, Intent
<1>2. \A g \in IntentHashes \ S : amounts[g] = 0
  BY DEF Locked, NoIntent
<1>3. /\ LockedAmount(d, S) = SumFunctionOnSet(amounts, S)
      /\ LockedAmount(d, IntentHashes) = SumFunctionOnSet(amounts, IntentHashes)
  BY DEF LockedAmount
<1> HIDE DEF amounts
<1>4. SumFunctionOnSet(amounts, IntentHashes) =
        SumFunctionOnSet(amounts, S) + SumFunctionOnSet(amounts, IntentHashes \ S)
  BY <1>1, SumSplit, HashesAssumption
<1>5. IsFiniteSet(IntentHashes \ S) /\ IsFiniteSet(S)
  BY HashesAssumption, FS_Subset
<1>6. SumFunctionOnSet(amounts, IntentHashes \ S) = 0
  BY <1>2, <1>5, SumZero
<1>7. SumFunctionOnSet(amounts, S) \in Nat
  BY <1>1, <1>5, SumType
<1> QED
  BY <1>3, <1>4, <1>6, <1>7

\* A withdrawal then leaves nothing, and closes the deposit.
LEMMA EmptiedCloses ==
    ASSUME LedgerInv, NEW d \in DepositIds, NEW t \in Nat, Leaving(d),
           AllDueBy(d, t), now > t
    PROVE  IsClosable(Emptied(d))
<1> DEFINE expired == ExpiredIntents(d)
<1>1. TypeOK /\ deposits[d] \in Deposit /\ dustThreshold \in Nat
  BY NumbersAssumption DEF LedgerInv, TypeOK
<1>2. expired \in SUBSET depositIntentHashes[d] /\ expired \in SUBSET IntentHashes
  BY <1>1, ReclaimsOwnLocks
<1>3. CanReclaim(d, expired)
  BY <1>2, ReclaimNeverFails
<1>4. LockedAmount(d, expired) = deposits[d].outstandingIntentAmount
  <2>1. \A h \in IntentHashes \ expired : ~Locked(d, h)
    BY AllExpired
  <2> QED
    BY <1>1, <1>2, <2>1, NothingElseLocked DEF LedgerInv, LocksAgree
<1>5. deposits[d].outstandingIntentAmount \in Nat
  BY <1>1 DEF Deposit
<1>6. /\ Reclaimed(d, expired) \in Deposit
      /\ Reclaimed(d, expired).outstandingIntentAmount = 0
      /\ Reclaimed(d, expired).retainOnEmpty = FALSE
  BY <1>1, <1>2, <1>3, <1>4, <1>5, ReclaimedType DEF Leaving, Deposit
<1>7. /\ Emptied(d).outstandingIntentAmount = 0
      /\ Emptied(d).remainingDeposits = 0
      /\ ~Emptied(d).retainOnEmpty
  BY <1>6 DEF Emptied, Deposit
<1> QED
  BY <1>1, <1>7 DEF IsClosable

\* withdrawDeposit can be called on d and makes a difference.
CanEmpty(d) == Exists(d) /\ CanWithdraw(d) /\ AfterWithdrawal(d) # vars

LEMMA EmptyingIsTested ==
    ASSUME LedgerInv, NEW d \in DepositIds, CanEmpty(d), vars' = AfterWithdrawal(d)
    PROVE  <<\E a \in Accounts : WithdrawDeposit(a, d)>>_vars
<1>1. deposits[d].depositor \in Accounts
  BY DEF LedgerInv, TypeOK, Deposit, CanEmpty, Exists
<1>2. WithdrawDeposit(deposits[d].depositor, d)
  BY WithdrawalIsTested DEF LedgerInv, CanEmpty
<1> QED
  BY <1>1, <1>2 DEF CanEmpty

LEMMA ClosingMakesADifference ==
    ASSUME LedgerInv, NEW d \in DepositIds, Exists(d), IsClosable(Emptied(d))
    PROVE  CanEmpty(d)
<1>1. DepositsWith(d, Emptied(d)) # deposits
  BY DEF DepositsWith, LedgerInv, TypeOK, Exists, NoDeposit
<1>2. AfterWithdrawal(d) # vars
  BY <1>1 DEF AfterWithdrawal, vars, books
<1> QED
  BY <1>2, WithdrawalPasses DEF CanEmpty

LEMMA WithdrawalCloses ==
    ASSUME TypeOK, NEW d \in DepositIds, NEW a, WithdrawDeposit(a, d),
           IsClosable(Emptied(d))
    PROVE  ~Exists(d)'
<1>1. CloseIfNecessary(d, Emptied(d))
  BY DEF WithdrawDeposit, Emptied
<1> QED
  BY <1>1 DEF CloseIfNecessary, TypeOK, Exists, NoDeposit

\* The depositor of d keeps calling withdrawDeposit.
FairWithdrawal(d) ==
    []<>(~CanEmpty(d)) \/ []<><<\E a \in Accounts : WithdrawDeposit(a, d)>>_vars

LEMMA FairWithdrawalIsWeak ==
    ASSUME NEW d \in DepositIds
    PROVE  [](CanEmpty(d) => ENABLED <<\E a \in Accounts : WithdrawDeposit(a, d)>>_vars)
             => (WF_vars(\E a \in Accounts : WithdrawDeposit(a, d)) => FairWithdrawal(d))
BY PTL DEF FairWithdrawal

\* WithdrawalCompletes, from time and the depositor alone: a deposit that takes no
\* new intents and is not retained on empty is closed once its locks are past
\* their deadlines, whatever takers, guardian, orchestrator and owner do meanwhile.
THEOREM DepositorsGetOut ==
    ASSUME NEW d \in DepositIds, NEW t \in Nat
    PROVE  Spec /\ FairWithdrawal(d) /\ <>(now > t) =>
             (Exists(d) /\ Leaving(d) /\ AllDueBy(d, t) ~> ~Exists(d) \/ ~Leaving(d))
<1> DEFINE Going == Exists(d) /\ Leaving(d) /\ AllDueBy(d, t)
           Past == now > t
           Gone == ~Exists(d) \/ ~Leaving(d)
<1>1. LedgerInv /\ [Next]_vars /\ Going => Going' \/ Gone'
  BY AllDueStays
<1>2. LedgerInv /\ [Next]_vars /\ Past => Past'
  BY PastStays DEF LedgerInv
<1>3. LedgerInv /\ Going /\ Past => IsClosable(Emptied(d))
  BY EmptiedCloses
<1>4. LedgerInv /\ Going /\ Past => CanEmpty(d)
  BY <1>3, ClosingMakesADifference
<1>5. LedgerInv /\ Going /\ Past /\ <<\E a \in Accounts : WithdrawDeposit(a, d)>>_vars
        => Gone'
  BY <1>3, WithdrawalCloses DEF LedgerInv
<1>6. /\ Exists(d) /\ Leaving(d) /\ AllDueBy(d, t) <=> Going
      /\ now > t <=> Past
      /\ ~Exists(d) \/ ~Leaving(d) <=> Gone
  OBVIOUS
<1> HIDE DEF Going, Past, Gone
<1> QED
  BY <1>1, <1>2, <1>4, <1>5, <1>6, LedgerInvHolds, PTL DEF Spec, FairWithdrawal

LEMMA AllAreDue ==
    ASSUME LocksLeaveTime, TypeOK, TermsAgreed, NEW d \in DepositIds
    PROVE  AllDueBy(d, MaxTime - 1)
BY LocksAreDue DEF AllDueBy, DueBy

\* WithdrawalCompletes as the runs check it: however often the depositor opens the
\* deposit again, each time it is left alone it is closed.
THEOREM EveryDepositorGetsOut ==
    ASSUME LocksLeaveTime
    PROVE  Spec /\ ClockRuns /\ (\A d \in DepositIds : FairWithdrawal(d))
             => WithdrawalCompletes
<1>1. ASSUME NEW d \in DepositIds
      PROVE  Spec /\ ClockRuns /\ FairWithdrawal(d) =>
               []<>(~Exists(d) \/ deposits[d].acceptingIntents \/ deposits[d].retainOnEmpty)
  <2> DEFINE Going == Exists(d) /\ Leaving(d)
             Past == now = MaxTime
             Gone == ~Exists(d) \/ deposits[d].acceptingIntents \/ deposits[d].retainOnEmpty
  <2>1. LedgerInv /\ LedgerInv' /\ [Next]_vars /\ Past => Past'
    BY ClockStops DEF LedgerInv
  <2>2. LedgerInv /\ TermsAgreed /\ Going /\ Past => IsClosable(Emptied(d))
    <3>1. MaxTime - 1 \in Nat /\ (Past => now > MaxTime - 1)
      BY NumbersAssumption
    <3> QED
      BY <3>1, EmptiedCloses, AllAreDue DEF LedgerInv
  <2>3. LedgerInv /\ TermsAgreed /\ Going /\ Past => CanEmpty(d)
    BY <2>2, ClosingMakesADifference
  <2>4. /\ LedgerInv /\ TermsAgreed /\ Going /\ Past
        /\ <<\E a \in Accounts : WithdrawDeposit(a, d)>>_vars
        => Gone'
    BY <2>2, WithdrawalCloses DEF LedgerInv
  <2>5. ~Going => Gone
    BY DEF Leaving
  <2>6. /\ now = MaxTime <=> Past
        /\ ~Exists(d) \/ deposits[d].acceptingIntents \/ deposits[d].retainOnEmpty <=> Gone
    OBVIOUS
  <2> HIDE DEF Going, Past, Gone
  <2> QED
    BY <2>1, <2>3, <2>4, <2>5, <2>6, LedgerInvHolds, ExtensionsAreLimited, PTL
       DEF Spec, ClockRuns, FairWithdrawal
<1> QED
  BY <1>1 DEF WithdrawalCompletes
=============================================================================
