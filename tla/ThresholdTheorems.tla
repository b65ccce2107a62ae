--------------------------- MODULE ThresholdTheorems ---------------------------
(* What TLAPS proves of ThresholdSignatures, for any witnesses, signatures and  *)
(* threshold: the count is neither too generous nor, for externally owned       *)
(* witnesses, too strict, and never leaves its array.                           *)
EXTENDS ThresholdSignatures, CollectionTheorems

\* An array of n entries has n places.
LEMMA IndexesOfArray ==
    ASSUME NEW n \in Nat
    PROVE  IsFiniteSet(1 .. n) /\ Cardinality(1 .. n) = n
<1>1. /\ IsFiniteSet(1 .. n)
      /\ Cardinality(1 .. n) = IF 1 > n THEN 0 ELSE n - 1 + 1
  BY FS_Interval
<1> QED
  BY <1>1

\* An array has at most as many different entries as places, and exactly as
\* many when none is repeated.
LEMMA EntriesOfArray ==
    ASSUME NEW S, NEW s \in Seq(S)
    PROVE  /\ Range(s) \in SUBSET S
           /\ IsFiniteSet(Range(s))
           /\ Cardinality(Range(s)) <= Len(s)
           /\ IsInjective(s) => Cardinality(Range(s)) = Len(s)
<1>1. Len(s) \in Nat /\ DOMAIN s = 1 .. Len(s) /\ Range(s) \in SUBSET S
  BY DEF Range
<1>2. IsFiniteSet(1 .. Len(s)) /\ Cardinality(1 .. Len(s)) = Len(s)
  BY <1>1, IndexesOfArray
<1>3. s \in Surjection(1 .. Len(s), Range(s))
  BY <1>1 DEF Surjection, Range
<1>4. IsInjective(s) => s \in Injection(1 .. Len(s), Range(s))
  BY <1>1, <1>3 DEF Injection, Surjection
<1> QED
  BY <1>1, <1>2, <1>3, <1>4, FS_Surjection

\* The loop over the witnesses finds the first one that counts.
LEMMA FirstOf ==
    ASSUME NEW P \in SUBSET Nat, P # {}
    PROVE  (CHOOSE j \in P : \A k \in P : j <= k) \in P
BY LeastNumber

\* The arguments of a call, which no step changes.
ArgumentsOK ==
    /\ witnesses \in Seq(Addresses)
    /\ signatures \in Seq(SUBSET Addresses)
    /\ threshold \in Nat
    /\ turn \in 1 .. Len(signatures) + 1

\* The seen signers are different witnesses.
SignersOK ==
    /\ seenSigners \in Seq(Range(witnesses))
    /\ IsInjective(seenSigners)

\* Each of them has a signature of its own among those the loop is past.
OwnSignatures(of) ==
    /\ \A w \in Range(seenSigners) : w \in signatures[of[w]] /\ of[w] < turn
    /\ \A w, x \in Range(seenSigners) : w # x => of[w] # of[x]

\* ... unless an early require reverted.
EachSigned ==
    \/ outcome = "revert"
    \/ /\ threshold > 0 /\ threshold <= Len(signatures)
       /\ \E of \in [Addresses -> 1 .. Len(signatures)] : OwnSignatures(of)

\* Externally owned accounts share no signature.
Owned == \A i \in DOMAIN signatures : Cardinality(signatures[i]) <= 1

\* With them, every witness who signed so far has been counted, and a revert
\* means too few of them or too few signatures or witnesses to begin with.
SignersSeen ==
    Owned =>
        \A w \in Range(witnesses), i \in 1 .. turn - 1 :
            w \in signatures[i] => w \in Range(seenSigners)

CountInv ==
    /\ ArgumentsOK
    /\ SignersOK
    /\ EachSigned
    /\ SignersSeen
    /\ outcome = "success" => Len(seenSigners) >= threshold
    /\ outcome = "revert" =>
          \/ threshold = 0
          \/ threshold > Len(signatures)
          \/ threshold > Len(witnesses)
          \/ turn > Len(signatures) /\ Len(seenSigners) < threshold

LEMMA CountInit == Init => CountInv
<1> SUFFICES ASSUME Init PROVE CountInv
  OBVIOUS
<1>1. /\ witnesses \in Seq(Addresses) /\ signatures \in Seq(SUBSET Addresses)
      /\ threshold \in Nat /\ turn = 1 /\ seenSigners = <<>>
  BY DEF Init, Arrays
<1>2. Len(signatures) \in Nat /\ Len(witnesses) \in Nat
  BY <1>1
<1>3. Range(seenSigners) = {}
  BY <1>1 DEF Range
<1>4. SignersOK
  BY <1>1 DEF SignersOK, IsInjective
<1>5. EachSigned
  <2> SUFFICES ASSUME outcome # "revert" PROVE EachSigned
    BY DEF EachSigned
  <2>1. threshold > 0 /\ threshold <= Len(signatures)
    BY DEF Init
  <2>2. [a \in Addresses |-> 1] \in [Addresses -> 1 .. Len(signatures)]
    BY <1>1, <1>2, <2>1
  <2>3. OwnSignatures([a \in Addresses |-> 1])
    BY <1>3 DEF OwnSignatures
  <2> QED
    BY <2>1, <2>2, <2>3 DEF EachSigned
<1>6. SignersSeen
  BY <1>1 DEF SignersSeen
<1>7. /\ outcome # "success"
      /\ outcome = "revert" =>
          \/ threshold = 0 \/ threshold > Len(signatures) \/ threshold > Len(witnesses)
  BY <1>1, <1>2 DEF Init
<1> QED
  BY <1>1, <1>2, <1>4, <1>5, <1>6, <1>7 DEF CountInv, ArgumentsOK

\* One turn of the loop: nobody new, or one new witness that sig is valid for.
LEMMA OneTurn ==
    ASSUME ArgumentsOK, SignersOK, NEW sig \in SUBSET Addresses
    PROVE  \/ /\ Count(sig) = seenSigners
              /\ Range(witnesses) \cap sig \subseteq Range(seenSigners)
           \/ \E w \in Range(witnesses) \cap sig :
                  /\ w \notin Range(seenSigners)
                  /\ Count(sig) = Append(seenSigners, w)
<1> DEFINE new == NewSigners(sig)
           first == CHOOSE j \in new : \A k \in new : j <= k
<1>1. DOMAIN witnesses = 1 .. Len(witnesses) /\ Len(witnesses) \in Nat
  BY DEF ArgumentsOK
<1>2. new \in SUBSET Nat
  BY <1>1 DEF NewSigners
<1>3. CASE new = {}
  <2>1. Count(sig) = seenSigners
    BY <1>3 DEF Count
  <2>2. Range(witnesses) \cap sig \subseteq Range(seenSigners)
    BY <1>3 DEF NewSigners, Range
  <2> QED
    BY <2>1, <2>2
<1>4. CASE new # {}
  <2>1. first \in new
    BY <1>2, <1>4, FirstOf
  <2>2. Count(sig) = Append(seenSigners, witnesses[first])
    BY <1>4 DEF Count
  <2> HIDE DEF first
  <2>3. /\ witnesses[first] \in Range(witnesses) \cap sig
        /\ witnesses[first] \notin Range(seenSigners)
    BY <2>1 DEF NewSigners, Range
  <2> QED
    BY <2>2, <2>3
<1> QED
  BY <1>3, <1>4

LEMMA AppendSigner ==
    ASSUME ArgumentsOK, SignersOK, NEW w \in Range(witnesses), w \notin Range(seenSigners)
    PROVE  LET more == Append(seenSigners, w)
           IN  /\ more \in Seq(Range(witnesses))
               /\ IsInjective(more)
               /\ Range(more) = Range(seenSigners) \cup {w}
<1> DEFINE n == Len(seenSigners)
           more == Append(seenSigners, w)
<1>1. /\ n \in Nat /\ DOMAIN seenSigners = 1 .. n
      /\ more \in Seq(Range(witnesses)) /\ DOMAIN more = 1 .. n + 1
      /\ more[n + 1] = w /\ \A i \in 1 .. n : more[i] = seenSigners[i]
  BY DEF SignersOK
<1> HIDE DEF more, n
<1>2. IsInjective(more)
  <2> SUFFICES ASSUME NEW i \in 1 .. n + 1, NEW j \in 1 .. n + 1, more[i] = more[j]
               PROVE  i = j
    BY <1>1 DEF IsInjective
  <2>1. CASE i \in 1 .. n /\ j \in 1 .. n
    BY <1>1, <2>1 DEF SignersOK, IsInjective
  <2>2. CASE i = n + 1 /\ j \in 1 .. n
    BY <1>1, <2>2 DEF Range
  <2>3. CASE j = n + 1 /\ i \in 1 .. n
    BY <1>1, <2>3 DEF Range
  <2> QED
    BY <1>1, <2>1, <2>2, <2>3
<1>3. Range(more) = Range(seenSigners) \cup {w}
  <2>1. Range(more) = {more[i] : i \in 1 .. n + 1}
    BY <1>1 DEF Range
  <2>2. Range(seenSigners) = {more[i] : i \in 1 .. n}
    BY <1>1 DEF Range
  <2>3. 1 .. n + 1 = (1 .. n) \cup {n + 1}
    BY <1>1
  <2> QED
    BY <1>1, <2>1, <2>2, <2>3
<1> QED
  BY <1>1, <1>2, <1>3 DEF more

LEMMA CountTurn ==
    ASSUME CountInv, Turn
    PROVE  CountInv'
<1> DEFINE sig == signatures[turn]
<1>1. /\ outcome = "running" /\ outcome' = outcome
      /\ turn \in 1 .. Len(signatures) /\ turn' = turn + 1
      /\ seenSigners' = Count(sig)
      /\ UNCHANGED <<witnesses, signatures, threshold>>
      /\ Len(signatures) \in Nat
  BY DEF CountInv, ArgumentsOK, Turn
<1>2. ArgumentsOK /\ SignersOK /\ sig \in SUBSET Addresses
  BY <1>1 DEF CountInv, ArgumentsOK
<1>3. PICK of \in [Addresses -> 1 .. Len(signatures)] : OwnSignatures(of)
  BY <1>1 DEF CountInv, EachSigned
<1>4. threshold > 0 /\ threshold <= Len(signatures)
  BY <1>1 DEF CountInv, EachSigned
<1>5. ArgumentsOK'
  BY <1>1, <1>2 DEF ArgumentsOK
<1>6. /\ \A w \in Range(seenSigners) : of[w] \in Nat /\ of[w] < turn
      /\ turn \in Nat /\ DOMAIN signatures = 1 .. Len(signatures)
  BY <1>1, <1>2, <1>3 DEF OwnSignatures, SignersOK, Range, ArgumentsOK
<1>7. CASE /\ Count(sig) = seenSigners
           /\ Range(witnesses) \cap sig \subseteq Range(seenSigners)
  <2>1. SignersOK'
    BY <1>1, <1>2, <1>7 DEF SignersOK
  <2>2. OwnSignatures(of)'
    BY <1>1, <1>3, <1>6, <1>7 DEF OwnSignatures
  <2>3. EachSigned'
    BY <1>1, <1>4, <2>2 DEF EachSigned
  <2>4. SignersSeen'
    <3> SUFFICES ASSUME Owned, NEW w \in Range(witnesses), NEW i \in 1 .. turn,
                        w \in signatures[i]
                 PROVE  w \in Range(seenSigners)
      BY <1>1, <1>7 DEF SignersSeen, Owned
    <3>1. CASE i = turn
      BY <1>7, <3>1
    <3>2. CASE i \in 1 .. turn - 1
      BY <3>2 DEF CountInv, SignersSeen
    <3> QED
      BY <1>6, <3>1, <3>2
  <2> QED
    BY <1>1, <1>5, <2>1, <2>3, <2>4 DEF CountInv
<1>8. ASSUME NEW w \in Range(witnesses) \cap sig, w \notin Range(seenSigners),
             Count(sig) = Append(seenSigners, w)
      PROVE  CountInv'
  <2>1. /\ seenSigners' \in Seq(Range(witnesses)) /\ IsInjective(seenSigners')
        /\ Range(seenSigners') = Range(seenSigners) \cup {w}
    BY <1>1, <1>2, <1>8, AppendSigner
  <2>2. SignersOK'
    BY <1>1, <2>1 DEF SignersOK
  <2>3. w \in Addresses
    BY <1>2, <1>8
  <2>n. PICK next : next = [of EXCEPT ![w] = turn]
    OBVIOUS
  <2>4. /\ next \in [Addresses -> 1 .. Len(signatures)]
        /\ next[w] = turn
        /\ \A x \in Range(seenSigners) : next[x] = of[x]
    <3>1. Range(seenSigners) \subseteq Addresses
      BY <1>2, EntriesOfArray DEF ArgumentsOK, SignersOK
    <3> QED
      BY <1>1, <1>8, <2>3, <2>n, <3>1
  <2>5. OwnSignatures(next)'
    <3>1. \A x \in Range(seenSigners') :
            x \in signatures[next[x]] /\ next[x] < turn + 1
      BY <1>1, <1>3, <1>6, <1>8, <2>1, <2>4 DEF OwnSignatures
    <3>2. \A x, y \in Range(seenSigners') : x # y => next[x] # next[y]
      <4>1. \A x \in Range(seenSigners) : next[x] # turn
        BY <1>6, <2>4
      <4>2. \A x, y \in Range(seenSigners) : x # y => next[x] # next[y]
        BY <1>3, <2>4 DEF OwnSignatures
      <4> QED
        BY <2>1, <2>4, <4>1, <4>2
    <3> QED
      BY <1>1, <3>1, <3>2 DEF OwnSignatures
  <2>6. EachSigned'
    BY <1>1, <1>4, <2>4, <2>5 DEF EachSigned
  <2>7. SignersSeen'
    <3> SUFFICES ASSUME Owned, NEW x \in Range(witnesses), NEW i \in 1 .. turn,
                        x \in signatures[i]
                 PROVE  x \in Range(seenSigners) \cup {w}
      BY <1>1, <2>1 DEF SignersSeen, Owned
    <3>1. CASE i = turn
      <4>1. Cardinality(sig) <= 1 /\ IsFiniteSet(sig)
        BY <1>1, <1>2, <1>6, AddressesAssumption, FS_Subset DEF Owned
      <4>2. sig = {w}
        <5>1. Cardinality(sig) # 0 /\ Cardinality(sig) \in Nat
          BY <1>8, <4>1, FS_EmptySet, FS_CardinalityType
        <5>2. Cardinality(sig) = 1
          BY <4>1, <5>1
        <5> QED
          BY <1>8, <4>1, <5>2, FS_Singleton
      <4> QED
        BY <3>1, <4>2
    <3>2. CASE i \in 1 .. turn - 1
      BY <3>2 DEF CountInv, SignersSeen
    <3> QED
      BY <1>6, <3>1, <3>2
  <2> QED
    BY <1>1, <1>5, <2>2, <2>6, <2>7 DEF CountInv
<1> QED
  BY <1>2, <1>7, <1>8, OneTurn

LEMMA CountReturn ==
    ASSUME CountInv, Return
    PROVE  CountInv'
<1>1. /\ outcome = "running" /\ turn > Len(signatures)
      /\ outcome' = IF Len(seenSigners) >= threshold THEN "success" ELSE "revert"
      /\ UNCHANGED <<witnesses, signatures, threshold, turn, seenSigners>>
  BY DEF Return, EnoughCounted
<1>2. ArgumentsOK' /\ SignersOK' /\ SignersSeen'
  BY <1>1 DEF CountInv, ArgumentsOK, SignersOK, SignersSeen, Owned
<1>3. EachSigned'
  BY <1>1 DEF CountInv, EachSigned, OwnSignatures
<1>4. Len(seenSigners) \in Nat /\ threshold \in Nat
  BY DEF CountInv, SignersOK, ArgumentsOK
<1> QED
  BY <1>1, <1>2, <1>3, <1>4 DEF CountInv

LEMMA CountHolds == Spec => []CountInv
<1>1. CountInv /\ [Next]_vars => CountInv'
  <2> SUFFICES ASSUME CountInv, [Next]_vars PROVE CountInv'
    OBVIOUS
  <2>1. CASE UNCHANGED vars
    BY <2>1 DEF vars, CountInv, ArgumentsOK, SignersOK, EachSigned, OwnSignatures,
       SignersSeen, Owned
  <2> QED
    BY <2>1, CountTurn, CountReturn DEF Next
<1> QED
  BY <1>1, CountInit, PTL DEF Spec

\* The write into seenSigners stays inside the array allocated for it, however
\* many signatures there are and however witnesses repeat.
THEOREM CountStaysInBounds == Spec => []WritesInBounds
<1>1. CountInv => WritesInBounds
  <2> SUFFICES ASSUME CountInv PROVE WritesInBounds
    OBVIOUS
  <2>1. /\ witnesses \in Seq(Addresses) /\ seenSigners \in Seq(Range(witnesses))
        /\ IsInjective(seenSigners)
    BY DEF CountInv, ArgumentsOK, SignersOK
  <2>2. /\ IsFiniteSet(Range(witnesses)) /\ Cardinality(Range(witnesses)) <= Len(witnesses)
        /\ Range(seenSigners) \in SUBSET Range(witnesses)
        /\ Cardinality(Range(seenSigners)) = Len(seenSigners)
    BY <2>1, EntriesOfArray
  <2>3. Cardinality(Range(seenSigners)) <= Cardinality(Range(witnesses))
    BY <2>2, FS_Subset
  <2>4. Cardinality(Range(witnesses)) \in Nat /\ Len(witnesses) \in Nat /\ Len(seenSigners) \in Nat
    BY <2>1, <2>2, FS_CardinalityType
  <2> QED
    BY <2>2, <2>3, <2>4 DEF WritesInBounds
<1> QED
  BY <1>1, CountHolds, PTL

\* A call that succeeds was signed by as many different witnesses as the
\* threshold asks, each with a signature no other is counted for.
THEOREM SuccessIsEarned == Spec => []EachSignatureCountsOnce
<1>1. CountInv => EachSignatureCountsOnce
  <2> SUFFICES ASSUME CountInv, outcome = "success"
               PROVE  \E W \in SUBSET Range(witnesses), of \in [Addresses -> DOMAIN signatures] :
                        /\ Cardinality(W) = threshold
                        /\ \A w \in W : w \in signatures[of[w]]
                        /\ \A w, x \in W : w # x => of[w] # of[x]
    BY DEF EachSignatureCountsOnce
  <2>1. /\ threshold \in Nat /\ threshold <= Len(seenSigners) /\ Len(seenSigners) \in Nat
        /\ seenSigners \in Seq(Range(witnesses)) /\ IsInjective(seenSigners)
        /\ DOMAIN signatures = 1 .. Len(signatures)
    BY DEF CountInv, ArgumentsOK, SignersOK
  <2>2. PICK of \in [Addresses -> 1 .. Len(signatures)] : OwnSignatures(of)
    BY DEF CountInv, EachSigned
  <2> DEFINE s == [i \in 1 .. threshold |-> seenSigners[i]]
             W == Range(s)
  <2>3. s \in Seq(Range(witnesses)) /\ Len(s) = threshold /\ DOMAIN s = 1 .. threshold
    BY <2>1
  <2>4. IsInjective(s) /\ W \subseteq Range(seenSigners)
    BY <2>1, <2>3 DEF IsInjective, Range
  <2> HIDE DEF s
  <2>5. W \in SUBSET Range(witnesses) /\ Cardinality(W) = threshold
    BY <2>3, <2>4, EntriesOfArray
  <2> HIDE DEF W
  <2>6. /\ \A w \in W : w \in signatures[of[w]]
        /\ \A w, x \in W : w # x => of[w] # of[x]
    BY <2>2, <2>4 DEF OwnSignatures
  <2>7. of \in [Addresses -> DOMAIN signatures]
    BY <2>1, <2>2
  <2> QED
    BY <2>5, <2>6, <2>7
<1> QED
  BY <1>1, CountHolds, PTL

\* Externally owned witnesses of whom enough signed are never turned down.
THEOREM EnoughIsEnough == Spec => []EnoughSignersSucceed
<1>1. CountInv => EnoughSignersSucceed
  <2> DEFINE signers == {w \in Range(witnesses) :
                            \E i \in DOMAIN signatures : w \in signatures[i]}
  <2> SUFFICES ASSUME CountInv, outcome = "revert", threshold > 0, Owned
               PROVE  Cardinality(signers) < threshold
    BY DEF EnoughSignersSucceed, Owned
  <2>1. /\ witnesses \in Seq(Addresses) /\ Len(witnesses) \in Nat
        /\ signatures \in Seq(SUBSET Addresses) /\ Len(signatures) \in Nat
        /\ DOMAIN signatures = 1 .. Len(signatures)
        /\ threshold \in Nat /\ turn \in 1 .. Len(signatures) + 1
        /\ seenSigners \in Seq(Range(witnesses)) /\ Len(seenSigners) \in Nat
        /\ IsInjective(seenSigners)
    BY DEF CountInv, ArgumentsOK, SignersOK
  <2>2. /\ IsFiniteSet(Range(witnesses)) /\ Cardinality(Range(witnesses)) <= Len(witnesses)
        /\ Range(witnesses) \in SUBSET Addresses
        /\ IsFiniteSet(Range(seenSigners))
        /\ Cardinality(Range(seenSigners)) = Len(seenSigners)
    BY <2>1, EntriesOfArray
  <2>3. signers \in SUBSET Range(witnesses)
    OBVIOUS
  <2>4. /\ IsFiniteSet(signers) /\ Cardinality(signers) \in Nat
        /\ Cardinality(signers) <= Cardinality(Range(witnesses))
        /\ Cardinality(Range(witnesses)) \in Nat
    BY <2>2, <2>3, FS_Subset, FS_CardinalityType
  <2>5. CASE threshold > Len(witnesses)
    BY <2>1, <2>2, <2>4, <2>5
  <2>6. CASE threshold > Len(signatures)
    <3> DEFINE signed == [w \in signers |->
                            CHOOSE i \in DOMAIN signatures : w \in signatures[i]]
    <3>1. \A w \in signers : signed[w] \in 1 .. Len(signatures) /\ w \in signatures[signed[w]]
      BY <2>1
    <3>2. signed \in [signers -> 1 .. Len(signatures)]
      BY <3>1
    <3> HIDE DEF signed
    <3>3. ASSUME NEW w \in signers, NEW x \in signers, signed[w] = signed[x]
          PROVE  w = x
      <4> DEFINE sig == signatures[signed[w]]
      <4>1. w \in sig /\ x \in sig /\ sig \in SUBSET Addresses /\ Cardinality(sig) <= 1
        BY <2>1, <3>1, <3>3 DEF Owned
      <4>2. IsFiniteSet(sig) /\ Cardinality(sig) \in Nat
        BY <4>1, AddressesAssumption, FS_Subset, FS_CardinalityType
      <4> HIDE DEF sig
      <4>3. Cardinality(sig) = 1
        BY <4>1, <4>2, FS_EmptySet
      <4>4. PICK y : sig = {y}
        BY <4>2, <4>3, FS_Singleton
      <4>5. w = y /\ x = y
        BY <4>1, <4>4, Zenon
      <4> QED
        BY <4>5
    <3>4. signed \in Injection(signers, 1 .. Len(signatures))
      BY <3>2, <3>3 DEF Injection, IsInjective
    <3>5. IsFiniteSet(1 .. Len(signatures)) /\ Cardinality(1 .. Len(signatures)) = Len(signatures)
      BY <2>1, IndexesOfArray
    <3> HIDE DEF signers
    <3>6. Cardinality(signers) <= Len(signatures)
      BY <3>4, <3>5, FS_Injection
    <3> QED
      BY <2>1, <2>4, <2>6, <3>6
  <2>7. CASE turn > Len(signatures) /\ Len(seenSigners) < threshold
    <3>1. 1 .. turn - 1 = DOMAIN signatures
      BY <2>1, <2>7
    <3>2. signers \in SUBSET Range(seenSigners)
      BY <3>1 DEF CountInv, SignersSeen
    <3> HIDE DEF signers
    <3>3. Cardinality(signers) <= Len(seenSigners)
      BY <2>2, <3>2, FS_Subset
    <3> QED
      BY <2>1, <2>4, <2>7, <3>3
  <2> QED
    BY <2>1, <2>5, <2>6, <2>7 DEF CountInv
<1> QED
  BY <1>1, CountHolds, PTL
=============================================================================
