---------------------------- MODULE OrderLemmas ----------------------------
(***************************************************************************)
(* Least and greatest elements, for the choices the code makes with a loop *)
(* that returns early and with max().                                      *)
(***************************************************************************)
EXTENDS Integers, Sequences, WellFoundedInduction, TLAPS

\* A nonempty set of naturals has a least element.
LEMMA LeastNat ==
  ASSUME NEW S \in SUBSET Nat, S # {}
  PROVE  \E i \in S : \A j \in S : i <= j
<1>1. PICK i \in S : \A j \in S : ~(<<j, i>> \in OpToRel(<, Nat))
  BY NatLessThanWellFounded, WFMin
<1>2. \A j \in S : ~(j < i)
  BY <1>1 DEF OpToRel
<1> QED  BY <1>2

\* A nonempty set of naturals below a bound has a greatest element.
LEMMA GreatestNat ==
  ASSUME NEW b \in Nat, NEW S \in SUBSET (0 .. b), S # {}
  PROVE  \E i \in S : \A j \in S : j <= i
<1> DEFINE T == {n \in Nat : b - n \in S}
<1>1. \A j \in S : b - j \in T
  <2> SUFFICES ASSUME NEW j \in S  PROVE b - j \in T
    OBVIOUS
  <2>1. j \in 0 .. b
    OBVIOUS
  <2>2. b - j \in Nat /\ b - (b - j) = j
    BY <2>1
  <2> QED  BY <2>2
<1>2. T \in SUBSET Nat /\ T # {}
  BY <1>1
<1>3. PICK t \in T : \A u \in T : t <= u
  BY <1>2, LeastNat
<1>4. ASSUME NEW j \in S  PROVE j <= b - t
  <2>1. t <= b - j
    BY <1>1, <1>3
  <2>2. j \in Nat /\ t \in Nat
    OBVIOUS
  <2> QED  BY <2>1, <2>2
<1> QED  BY <1>3, <1>4

\* Of finitely many bounded naturals some one is the first of the greatest.
LEMMA FirstGreatest ==
  ASSUME NEW b \in Nat, NEW D \in SUBSET Nat, D # {}, NEW rank \in [D -> 0 .. b]
  PROVE  \E k \in D : \A j \in D : /\ rank[j] <= rank[k]
                                   /\ j < k => rank[j] < rank[k]
<1> DEFINE ranks == {r \in 0 .. b : \E k \in D : rank[k] = r}
<1>1. \A k \in D : rank[k] \in ranks
  OBVIOUS
<1>2. ranks \in SUBSET (0 .. b) /\ ranks # {}
  BY <1>1
<1>3. PICK top \in ranks : \A r \in ranks : r <= top
  BY <1>2, GreatestNat
<1> DEFINE tops == {k \in D : rank[k] = top}
<1>4. tops \in SUBSET Nat /\ tops # {}
  BY <1>3
<1>5. PICK k \in tops : \A j \in tops : k <= j
  BY <1>4, LeastNat
<1>6. k \in D /\ rank[k] = top
  BY <1>5
<1>7. ASSUME NEW j \in D  PROVE rank[j] <= rank[k]
  BY <1>1, <1>3, <1>6
<1>8. ASSUME NEW j \in D, j < k  PROVE rank[j] < rank[k]
  <2>1. rank[j] # top
    BY <1>5, <1>6, <1>8
  <2>2. rank[j] \in Nat /\ rank[k] \in Nat
    BY <1>6
  <2> QED  BY <1>6, <1>7, <2>1, <2>2
<1> QED  BY <1>6, <1>7, <1>8
=============================================================================
