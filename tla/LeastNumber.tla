---------------------------- MODULE LeastNumber ----------------------------
(***************************************************************************)
(* Least numbers, and with them induction over a set of naturals: what the *)
(* proofs about texts and about the socket use where a unit or a symbol    *)
(* follows from the one before it.                                         *)
(***************************************************************************)
EXTENDS Integers, WellFoundedInduction, TLAPS

Less == {ss \in Nat \X Nat : ss[1] < ss[2]}

\* Every set of naturals has a least one.
LEMMA LeastNatural ==
    ASSUME NEW T \in SUBSET Nat, T # {}
    PROVE  \E n \in T : \A m \in T : n <= m
<1>1. IsWellFoundedOn(Less, Nat)
  BY NatLessThanWellFounded DEF OpToRel, Less
<1>2. PICK n \in T : \A m \in T : ~(<<m, n>> \in Less)
  BY <1>1, WFMin
<1>3. \A m \in T : ~(m < n)
  BY <1>2 DEF Less
<1>4. \A m \in T : n <= m
  <2> SUFFICES ASSUME NEW m \in T PROVE n <= m
    OBVIOUS
  <2>1. m \in Nat /\ n \in Nat
    OBVIOUS
  <2> QED
    BY <1>3, <2>1
<1> QED
  BY <1>4

\* A set that 0 starts and every element continues holds all numbers up to n.
LEMMA UpTo ==
    ASSUME NEW n \in Nat, NEW T, 0 \in T,
           \A k \in 0 .. n : k # n /\ k \in T => k + 1 \in T
    PROVE  \A k \in 0 .. n : k \in T
<1> SUFFICES ASSUME NEW k \in 0 .. n, k \notin T PROVE FALSE
  OBVIOUS
<1>1. {j \in 0 .. n : j \notin T} \in SUBSET Nat
      /\ {j \in 0 .. n : j \notin T} # {}
  OBVIOUS
<1>2. PICK j \in {i \in 0 .. n : i \notin T} :
         \A m \in {i \in 0 .. n : i \notin T} : j <= m
  BY <1>1, LeastNatural
<1>3. j - 1 \in 0 .. n /\ j - 1 # n /\ (j - 1) + 1 = j /\ ~(j <= j - 1)
  BY <1>2
<1>4. j - 1 \in T
  BY <1>2, <1>3
<1> QED
  BY <1>2, <1>3, <1>4
=============================================================================
