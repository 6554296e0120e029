----------------------------- MODULE Inductions -----------------------------
(***************************************************************************)
(* What the other proofs need of numbers: induction and recursion up to a  *)
(* number, and division with remainder.                                    *)
(*                                                                         *)
(* The library states induction for a predicate; here it is stated for a   *)
(* set of numbers, and recursion for functions, so that both are facts to  *)
(* be cited.                                                               *)
(***************************************************************************)
EXTENDS Integers, WellFoundedInduction, TLAPS

-----------------------------------------------------------------------------
(* Induction up to n, for sets instead of predicates, and what it gives:   *)
(* a function can be defined by what each of its values is made of the one *)
(* before.  (Less than is well founded, by the library.)                   *)

LEMMA LeastElement ==
  ASSUME NEW T \in SUBSET Nat, T # {}
  PROVE  \E x \in T : \A y \in T : x <= y
<1> DEFINE R == OpToRel(<, Nat)
<1>1. \A y, x \in Nat : y < x => <<y, x>> \in R
  BY DEF OpToRel
<1>2. IsWellFoundedOn(R, Nat)
  BY NatLessThanWellFounded
<1> HIDE DEF R
<1>3. PICK x \in T : \A y \in T : ~ (<<y, x>> \in R)
  BY <1>2, WFMin
<1>4. ASSUME NEW y \in T PROVE x <= y
  <2>1. x \in Nat /\ y \in Nat
    OBVIOUS
  <2>2. ~ (y < x)
    BY <1>1, <1>3, <2>1
  <2> QED
    BY <2>1, <2>2
<1> QED
  BY <1>4

LEMMA Induction ==
  ASSUME NEW n \in Nat, NEW T \in SUBSET 0..n, 0 \in T, \A i \in T : i < n => i + 1 \in T
  PROVE  T = 0..n
<1> SUFFICES ASSUME T # 0..n PROVE FALSE
  OBVIOUS
<1> DEFINE U == (0..n) \ T
<1>1. PICK x \in U : \A y \in U : x <= y
  <2>1. U \subseteq Nat /\ U # {}
    <3>1. \A i \in 0..n : i \in Nat
      OBVIOUS
    <3> QED
      BY <3>1
  <2> HIDE DEF U
  <2> QED
    BY <2>1, LeastElement
<1>2. x # 0 /\ x \in 1..n
  BY <1>1
<1>3. x - 1 \in T
  BY <1>1, <1>2
<1> QED
  BY <1>1, <1>2, <1>3

Follows(f, n, a, g) == f[0] = a /\ \A i \in 1..n : f[i] = g[i][f[i - 1]]

LEMMA Recursion ==
  ASSUME NEW n \in Nat, NEW S, NEW a \in S, NEW g \in [1..n -> [S -> S]]
  PROVE  \E f \in [0..n -> S] : Follows(f, n, a, g)
<1> DEFINE Upto(f, m) == f \in [0..n -> S] /\ f[0] = a /\ \A i \in 1..m : f[i] = g[i][f[i - 1]]
           T == {m \in 0..n : \E f \in [0..n -> S] : Upto(f, m)}
<1>1. 0 \in T
  <2>1. Upto([i \in 0..n |-> a], 0)
    OBVIOUS
  <2> HIDE DEF Upto
  <2>2. [i \in 0..n |-> a] \in [0..n -> S]
    OBVIOUS
  <2> QED
    BY <2>1, <2>2
<1>2. ASSUME NEW m \in T, m < n PROVE m + 1 \in T
  <2>1. PICK f \in [0..n -> S] : Upto(f, m)
    OBVIOUS
  <2> DEFINE h == [f EXCEPT ![m + 1] = g[m + 1][f[m]]]
  <2>2. m \in 0..n /\ m + 1 \in 1..n
    BY <1>2
  <2>3. h \in [0..n -> S] /\ h[m + 1] = g[m + 1][f[m]] /\ \A i \in 0..m : h[i] = f[i]
    BY <2>1, <2>2
  <2>4. ASSUME NEW i \in 1..m + 1 PROVE h[i] = g[i][h[i - 1]]
    BY <2>1, <2>2, <2>3
  <2>5. h[0] = a
    BY <2>1, <2>2, <2>3
  <2> HIDE DEF h
  <2>6. Upto(h, m + 1)
    BY <2>3, <2>4, <2>5
  <2> QED
    BY <2>2, <2>3, <2>6
<1>3. T = 0..n
  <2>1. T \in SUBSET (0..n)
    OBVIOUS
  <2> HIDE DEF T
  <2> QED
    BY <1>1, <1>2, <2>1, Induction
<1>4. n \in 0..n
  OBVIOUS
<1> HIDE DEF Upto
<1>5. \E f \in [0..n -> S] : Upto(f, n)
  BY <1>3, <1>4
<1> QED
  BY <1>5 DEF Upto, Follows

-----------------------------------------------------------------------------
(* Division with remainder, and the powers of the base.                    *)

LEMMA DivMod ==
  ASSUME NEW b \in Nat, b > 0, NEW x \in Int
  PROVE  x = b * (x \div b) + (x % b) /\ x % b \in 0..b - 1 /\ x \div b \in Int
OBVIOUS

LEMMA DivUnique ==
  ASSUME NEW b \in Nat, b > 0, NEW q \in Int, NEW r \in 0..b - 1
  PROVE  (b * q + r) \div b = q /\ (b * q + r) % b = r
<1> DEFINE x == b * q + r
           d == x \div b
           m == x % b
<1>1. x \in Int /\ x = b * d + m /\ m \in 0..b - 1 /\ d \in Int
  BY DivMod
<1> HIDE DEF d, m
<1>2. b * (q - d) = m - r
  BY <1>1
<1>3. q - d >= 1 => b * (q - d) >= b
  BY <1>1
<1>4. q - d <= -1 => b * (q - d) <= -b
  BY <1>1
<1>5. q = d
  BY <1>1, <1>2, <1>3, <1>4
<1> QED
  BY <1>1, <1>2, <1>5 DEF d, m
=============================================================================
