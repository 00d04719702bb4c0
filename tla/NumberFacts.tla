---------------------------- MODULE NumberFacts -----------------------------
(***************************************************************************)
(* Facts about natural numbers that the proofs of several modules need:    *)
(* least elements, products, and quotients (the page or the table that a   *)
(* number falls into).                                                     *)
(***************************************************************************)
EXTENDS Integers, WellFoundedInduction, TLAPS

(* A non-empty set of natural numbers has a least element.                 *)
LEMMA LeastNumber ==
    ASSUME NEW S \in SUBSET Nat, S # {}
    PROVE  \E m \in S : \A y \in S : m <= y
<1> DEFINE R == OpToRel(<, Nat)
<1>1. IsWellFoundedOn(R, Nat)
  BY NatLessThanWellFounded
<1>2. \A x \in Nat, y \in Nat : x < y => <<x, y>> \in R
  BY DEF OpToRel
<1> HIDE DEF R
<1>3. PICK x \in S : \A y \in S : ~ (<<y, x>> \in R)
  BY <1>1, WFMin
<1>4. ASSUME NEW y \in S PROVE x <= y
  <2>1. ~ (y < x)
    BY <1>2, <1>3
  <2>2. x \in Nat /\ y \in Nat
    OBVIOUS
  <2> QED
    BY <2>1, <2>2
<1> QED
  BY <1>4

LEMMA TimesMonotone ==
    ASSUME NEW T \in Nat, NEW a \in Int, NEW b \in Int, a <= b
    PROVE  a * T <= b * T
<1>1. b - a \in Nat
  OBVIOUS
<1>2. (b - a) * T >= 0
  BY <1>1
<1>3. (b - a) * T = b * T - a * T
  OBVIOUS
<1>4. a * T \in Int /\ b * T \in Int
  OBVIOUS
<1> QED
  BY <1>2, <1>3, <1>4

LEMMA DivMod ==
    ASSUME NEW T \in Nat \ {0}, NEW x \in Nat
    PROVE  /\ x = (x \div T) * T + (x % T)
           /\ x \div T \in Nat /\ x % T \in 0 .. T - 1
OBVIOUS

LEMMA DivBelow ==
    ASSUME NEW T \in Nat \ {0}, NEW x \in Nat, NEW n \in Nat
    PROVE  x \div T < n <=> x < n * T
<1> DEFINE q == x \div T
           rest == x % T
<1>1. x = q * T + rest /\ q \in Nat /\ rest \in 0 .. T - 1
  BY DivMod
<1> HIDE DEF q, rest
<1>2. q * T \in Nat /\ n * T \in Nat /\ (q + 1) * T = q * T + T
  BY <1>1
<1>3. CASE q < n
  <2>1. (q + 1) * T <= n * T
    BY <1>1, <1>3, TimesMonotone
  <2> QED
    BY <1>1, <1>2, <1>3, <2>1 DEF q
<1>4. CASE n <= q
  <2>1. n * T <= q * T
    BY <1>1, <1>4, TimesMonotone
  <2>2. ~ (x < n * T)
    BY <1>1, <1>2, <2>1
  <2> QED
    BY <1>1, <1>4, <2>2 DEF q
<1> QED
  BY <1>1, <1>3, <1>4

(* Quotients grow with the number, by at most one from a number to the next*)
LEMMA DivMonotone ==
    ASSUME NEW T \in Nat \ {0}, NEW x \in Nat, NEW y \in Nat, x <= y
    PROVE  x \div T <= y \div T
<1> DEFINE q == y \div T
<1>1. q \in Nat
  BY DivMod
<1>2. (y \div T < q + 1) <=> y < (q + 1) * T
  BY <1>1, DivBelow
<1>3. (x \div T < q + 1) <=> x < (q + 1) * T
  BY <1>1, DivBelow
<1>4. x \div T \in Nat /\ (q + 1) * T \in Nat
  BY <1>1, DivMod
<1>5. y < (q + 1) * T
  BY <1>1, <1>2
<1>6. x < (q + 1) * T
  BY <1>4, <1>5
<1>7. x \div T < q + 1
  BY <1>3, <1>6
<1> QED
  BY <1>1, <1>4, <1>7

LEMMA DivNext ==
    ASSUME NEW T \in Nat \ {0}, NEW x \in Nat
    PROVE  (x + 1) \div T \in {x \div T, x \div T + 1}
<1> DEFINE q == x \div T
           p == (x + 1) \div T
<1>1. q \in Nat /\ p \in Nat
  BY DivMod
<1>2. q <= p
  BY DivMonotone
<1>3. x < (q + 1) * T
  <2>1. (x \div T < q + 1) <=> x < (q + 1) * T
    BY <1>1, DivBelow
  <2> QED
    BY <1>1, <2>1
<1>4. p < q + 2 <=> x + 1 < (q + 2) * T
  BY <1>1, DivBelow
<1> HIDE DEF q, p
<1>5. (q + 2) * T = (q + 1) * T + T /\ (q + 1) * T \in Nat
  BY <1>1
<1>6. p < q + 2
  BY <1>3, <1>4, <1>5
<1>7. p \in {q, q + 1}
  BY <1>1, <1>2, <1>6
<1> QED
  BY <1>7 DEF q, p

LEMMA DivExact ==
    ASSUME NEW T \in Nat \ {0}, NEW x \in Nat
    PROVE  (T * x) \div T = x
<1> DEFINE q == (T * x) \div T
<1>1. T * x \in Nat /\ T * x = x * T
  OBVIOUS
<1>2. q \in Nat
  BY <1>1, DivMod
<1>3. q < x + 1 <=> T * x < (x + 1) * T
  BY <1>1, DivBelow
<1>4. q < x <=> T * x < x * T
  BY <1>1, DivBelow
<1>5. (x + 1) * T = x * T + T
  OBVIOUS
<1> HIDE DEF q
<1>6. q < x + 1 /\ ~ (q < x)
  BY <1>1, <1>3, <1>4, <1>5
<1>7. q = x
  BY <1>2, <1>6
<1> QED
  BY <1>7 DEF q
=============================================================================
