------------------------------ MODULE ArrayUtils ------------------------------
(* The storage arrays of contracts/external: AddressArrayUtils,              *)
(* Bytes32ArrayUtils and Uint256ArrayUtils are one library at three types.   *)
EXTENDS Integers, Sequences, Functions

BuggyIndexOf(A, a) ==   \* the last entry, whatever was asked for
    Len(A)

IndexOf(A, a) == CHOOSE i \in DOMAIN A : A[i] = a /\ \A j \in 1 .. i - 1 : A[j] # a

BuggyRemoveStorage(A, a) == SubSeq(A, 1, Len(A) - 1)    \* pops without moving

\* The last entry moves into the place of the one removed.  The code reverts
\* when a is missing: the callers conjoin a \in Range(A).
RemoveStorage(A, a) ==
    LET last == Len(A)
    IN  SubSeq([A EXCEPT ![IndexOf(A, a)] = A[last]], 1, last - 1)
=============================================================================
