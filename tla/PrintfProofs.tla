---------------------------- MODULE PrintfProofs ----------------------------
(***************************************************************************)
(* Proofs about the number conversions and the loops of printf.c, for any  *)
(* widths of the integers, formats, arguments and buffers.                 *)
(***************************************************************************)
EXTENDS Printf, SequenceTheorems, NumberFacts, TLAPS
-----------------------------------------------------------------------------
(* Division in C rounds towards zero: the quotient is nearer to zero than  *)
(* the dividend, and the remainder has no more than a digit.               *)
LEMMA QuotRem ==
    ASSUME NEW base \in Nat, base > 1, NEW i \in Int
    PROVE  /\ Quot(i, base) \in Int /\ Rem(i, base) \in Int
           /\ Abs(Quot(i, base)) \in Nat /\ Abs(Rem(i, base)) \in 0 .. base - 1
           /\ Abs(i) \in Nat /\ Abs(i) = base * Abs(Quot(i, base)) + Abs(Rem(i, base))
           /\ Quot(i, base) # 0 => Abs(Quot(i, base)) < Abs(i)
           /\ Quot(i, base) = 0 <=> Abs(Quot(i, base)) = 0
<1> DEFINE a == Abs(i)
           q == a \div base
           r == a % base
<1>1. a \in Nat
  BY DEF Abs
<1>2. a = q * base + r /\ q \in Nat /\ r \in 0 .. base - 1
  <2> HIDE DEF a
  <2>1. base \in Nat \ {0}
    OBVIOUS
  <2> QED
    BY <1>1, <2>1, DivMod
<1>3. Quot(i, base) = IF i < 0 THEN -q ELSE q
  BY DEF Quot, Abs
<1>4. i = IF i < 0 THEN -a ELSE a
  BY DEF Abs
<1> HIDE DEF a, q, r
<1>5. base * q = q * base /\ base * (-q) = -(q * base) /\ q * base \in Nat
  BY <1>2
<1>6. Rem(i, base) = IF i < 0 THEN -r ELSE r
  BY <1>1, <1>2, <1>3, <1>4, <1>5 DEF Rem
<1>7. Abs(Quot(i, base)) = q
  BY <1>2, <1>3 DEF Abs
<1>8. Abs(Rem(i, base)) = r
  BY <1>2, <1>6 DEF Abs
<1>9. q # 0 => q < a
  <2> SUFFICES ASSUME q # 0 PROVE q < a
    OBVIOUS
  <2>1. q * 2 <= q * base
    <3>1. 2 * q <= base * q
      BY <1>2, TimesMonotone
    <3> QED
      BY <1>2, <1>5, <3>1
  <2> QED
    BY <1>2, <1>5, <2>1
<1>10. Quot(i, base) = 0 <=> q = 0
  BY <1>2, <1>3
<1>11. Quot(i, base) \in Int /\ Rem(i, base) \in Int
  BY <1>2, <1>3, <1>6
<1>12. Abs(i) = a
  BY DEF a
<1> QED
  BY <1>1, <1>2, <1>5, <1>7, <1>8, <1>9, <1>10, <1>11, <1>12
-----------------------------------------------------------------------------
(* The do loop of the conversions is a recursion that ends.                *)

(* What it puts out for i, if h has what it puts out for the quotient      *)
Turn(base, h, i) ==
    <<chars(Rem(i, base))>> \o
        (IF Quot(i, base) = 0 THEN <<>> ELSE h[Quot(i, base)])
UpTo(base, h, n) == h = [i \in -n .. n |-> Turn(base, h, i)]

LEMMA LoopUpTo ==
    ASSUME NEW base \in Nat, base > 1
    PROVE  \A n \in Nat : \E h : UpTo(base, h, n)
<1> DEFINE Bad == {n \in Nat : ~ \E h : UpTo(base, h, n)}
<1> SUFFICES ASSUME Bad # {} PROVE FALSE
  OBVIOUS
<1>1. PICK n \in Bad : \A m \in Bad : n <= m
  BY LeastNumber, Bad \subseteq Nat
<1>2. n \in Nat
  OBVIOUS
<1>3. \E g : n # 0 => UpTo(base, g, n - 1)
  BY <1>1, <1>2
<1>4. PICK g : n # 0 => UpTo(base, g, n - 1)
  BY <1>3
<1> DEFINE h == [i \in -n .. n |-> Turn(base, g, i)]
<1>5. ASSUME NEW i \in -n .. n PROVE h[i] = Turn(base, h, i)
  <2> DEFINE q == Quot(i, base)
  <2>1. i \in Int
    BY <1>2
  <2>2. CASE q = 0
    BY <2>2 DEF Turn
  <2>3. CASE q # 0
    <3>1. Abs(q) < Abs(i) /\ q \in Int
      BY <2>1, <2>3, QuotRem
    <3>2. n # 0 /\ q \in -(n - 1) .. n - 1
      BY <1>2, <2>1, <3>1 DEF Abs
    <3> HIDE DEF q
    <3>3. q \in -n .. n
      BY <1>2, <3>2
    <3>4. g[q] = Turn(base, g, q)
      BY <1>4, <3>2 DEF UpTo
    <3>5. h[q] = g[q]
      BY <3>3, <3>4
    <3> QED
      BY <2>3, <3>5 DEF Turn, q
  <2> QED
    BY <2>2, <2>3
<1>6. UpTo(base, h, n)
  BY <1>5 DEF UpTo
<1> QED
  BY <1>6

LEMMA LoopUnique ==
    ASSUME NEW base \in Nat, base > 1, NEW n \in Nat, NEW m \in Nat,
           NEW g, NEW h, UpTo(base, g, n), UpTo(base, h, m),
           NEW i \in Int, Abs(i) <= n, Abs(i) <= m
    PROVE  g[i] = h[i]
<1> DEFINE Bad == {a \in Nat : \E j \in Int : /\ a = Abs(j) /\ a <= n /\ a <= m
                                              /\ g[j] # h[j]}
<1>1. Bad = {}
  <2> SUFFICES ASSUME Bad # {} PROVE FALSE
    OBVIOUS
  <2>1. PICK a \in Bad : \A c \in Bad : a <= c
    BY LeastNumber, Bad \subseteq Nat
  <2>2. PICK j \in Int : a = Abs(j) /\ a <= n /\ a <= m /\ g[j] # h[j]
    OBVIOUS
  <2>3. j \in -n .. n /\ j \in -m .. m
    BY <2>2 DEF Abs
  <2>4. g[j] = Turn(base, g, j) /\ h[j] = Turn(base, h, j)
    BY <2>3 DEF UpTo
  <2> DEFINE q == Quot(j, base)
  <2>5. q # 0 => Abs(q) < a /\ Abs(q) \in Nat /\ q \in Int
    BY <2>2, QuotRem
  <2>6. q # 0 => g[q] = h[q]
    <3> HIDE DEF q
    <3> SUFFICES ASSUME q # 0, g[q] # h[q] PROVE FALSE
      OBVIOUS
    <3>1. Abs(q) \in Nat /\ q \in Int /\ Abs(q) <= n /\ Abs(q) <= m /\ Abs(q) < a
      BY <2>1, <2>2, <2>5
    <3>2. Abs(q) \in Bad
      BY <3>1
    <3> QED
      BY <2>1, <3>1, <3>2
  <2> QED
    BY <2>2, <2>4, <2>6 DEF Turn
<1>2. Abs(i) \in Nat
  BY DEF Abs
<1> QED
  BY <1>1, <1>2

LEMMA LoopEnds ==
    ASSUME NEW base \in Nat, base > 1
    PROVE  \A i \in Int : Generate(base)[i] = Turn(base, Generate(base), i)
<1> DEFINE H(n) == CHOOSE h : UpTo(base, h, n)
           G == [i \in Int |-> H(Abs(i))[i]]
<1>1. \A n \in Nat : UpTo(base, H(n), n)
  BY LoopUpTo
<1>2. ASSUME NEW i \in Int PROVE G[i] = Turn(base, G, i)
  <2> DEFINE q == Quot(i, base)
             a == Abs(i)
  <2>1. a \in Nat /\ q \in Int /\ Abs(q) \in Nat /\ (q # 0 => Abs(q) < a)
    BY QuotRem
  <2>2. i \in -a .. a
    BY DEF Abs
  <2>3. H(a)[i] = Turn(base, H(a), i)
    <3> HIDE DEF H, a
    <3>1. H(a) = [j \in -a .. a |-> Turn(base, H(a), j)]
      BY <1>1, <2>1 DEF UpTo
    <3> QED
      BY <2>2, <3>1
  <2>4. q # 0 => H(a)[q] = H(Abs(q))[q]
    <3> HIDE DEF H
    <3>1. UpTo(base, H(a), a) /\ UpTo(base, H(Abs(q)), Abs(q))
      BY <1>1, <2>1
    <3> HIDE DEF a, q
    <3> QED
      BY <2>1, <3>1, LoopUnique
  <2>5. G[i] = H(a)[i] /\ G[q] = H(Abs(q))[q]
    BY <2>1
  <2> HIDE DEF H, G, a
  <2> QED
    BY <2>3, <2>4, <2>5 DEF Turn
<1>3. G = [i \in Int |-> Turn(base, G, i)]
  BY <1>2
<1> HIDE DEF G
<1>4. Generate(base) = [i \in Int |-> Turn(base, Generate(base), i)]
  BY <1>3 DEF Generate, Turn
<1> QED
  BY <1>4
-----------------------------------------------------------------------------
(* Powers of two                                                           *)

Powers(h, n) == h = [k \in 0 .. n |-> IF k = 0 THEN 1 ELSE 2 * h[k - 1]]

LEMMA PowersExist == \A n \in Nat : \E h : Powers(h, n)
<1> DEFINE Bad == {n \in Nat : ~ \E h : Powers(h, n)}
<1> SUFFICES ASSUME Bad # {} PROVE FALSE
  OBVIOUS
<1>1. PICK n \in Bad : \A m \in Bad : n <= m
  BY LeastNumber, Bad \subseteq Nat
<1>2. \E g : n # 0 => Powers(g, n - 1)
  BY <1>1
<1>3. PICK g : n # 0 => Powers(g, n - 1)
  BY <1>2
<1> DEFINE h == [k \in 0 .. n |-> IF k = 0 THEN 1 ELSE 2 * g[k - 1]]
<1>4. ASSUME NEW k \in 0 .. n PROVE h[k] = IF k = 0 THEN 1 ELSE 2 * h[k - 1]
  <2>1. CASE k = 0
    BY <2>1
  <2>2. CASE k # 0
    <3>1. n # 0 /\ k - 1 \in 0 .. n - 1 /\ k - 1 \in 0 .. n
      BY <2>2
    <3>2. g[k - 1] = IF k - 1 = 0 THEN 1 ELSE 2 * g[(k - 1) - 1]
      BY <1>3, <3>1 DEF Powers
    <3>3. h[k - 1] = g[k - 1]
      BY <3>1, <3>2
    <3> QED
      BY <2>2, <3>3
  <2> QED
    BY <2>1, <2>2
<1>5. Powers(h, n)
  BY <1>4 DEF Powers
<1> QED
  BY <1>5

LEMMA PowersUnique ==
    ASSUME NEW n \in Nat, NEW m \in Nat, NEW g, NEW h, Powers(g, n), Powers(h, m),
           NEW k \in Nat, k <= n, k <= m
    PROVE  g[k] = h[k]
<1> DEFINE Bad == {j \in Nat : j <= n /\ j <= m /\ g[j] # h[j]}
<1>1. Bad = {}
  <2> SUFFICES ASSUME Bad # {} PROVE FALSE
    OBVIOUS
  <2>1. PICK j \in Bad : \A c \in Bad : j <= c
    BY LeastNumber, Bad \subseteq Nat
  <2>2. /\ g[j] = IF j = 0 THEN 1 ELSE 2 * g[j - 1]
        /\ h[j] = IF j = 0 THEN 1 ELSE 2 * h[j - 1]
    BY j \in 0 .. n, j \in 0 .. m DEF Powers
  <2>3. j # 0 => g[j - 1] = h[j - 1]
    BY <2>1
  <2> QED
    BY <2>2, <2>3
<1> QED
  BY <1>1

LEMMA Pow2Rule ==
    \A n \in Nat : Pow2[n] = IF n = 0 THEN 1 ELSE 2 * Pow2[n - 1]
<1> DEFINE H(n) == CHOOSE h : Powers(h, n)
           G == [n \in Nat |-> H(n)[n]]
<1>1. \A n \in Nat : Powers(H(n), n)
  BY PowersExist
<1> HIDE DEF H
<1>2. ASSUME NEW n \in Nat PROVE G[n] = IF n = 0 THEN 1 ELSE 2 * G[n - 1]
  <2>1. H(n)[n] = IF n = 0 THEN 1 ELSE 2 * H(n)[n - 1]
    <3>1. H(n) = [k \in 0 .. n |-> IF k = 0 THEN 1 ELSE 2 * H(n)[k - 1]]
      BY <1>1 DEF Powers
    <3> QED
      BY <3>1
  <2>2. n # 0 => H(n)[n - 1] = H(n - 1)[n - 1]
    <3> SUFFICES ASSUME n # 0 PROVE H(n)[n - 1] = H(n - 1)[n - 1]
      OBVIOUS
    <3>1. n - 1 \in Nat /\ n - 1 <= n
      OBVIOUS
    <3>2. Powers(H(n), n) /\ Powers(H(n - 1), n - 1)
      BY <1>1, <3>1
    <3> QED
      BY <3>1, <3>2, PowersUnique
  <2> QED
    BY <2>1, <2>2
<1>3. G = [n \in Nat |-> IF n = 0 THEN 1 ELSE 2 * G[n - 1]]
  BY <1>2
<1> HIDE DEF G
<1>4. Pow2 = [n \in Nat |-> IF n = 0 THEN 1 ELSE 2 * Pow2[n - 1]]
  BY <1>3 DEF Pow2
<1> QED
  BY <1>4

LEMMA Pow2Type == \A n \in Nat : Pow2[n] \in Nat \ {0}
<1> DEFINE Bad == {n \in Nat : Pow2[n] \notin Nat \ {0}}
<1> SUFFICES ASSUME Bad # {} PROVE FALSE
  OBVIOUS
<1>1. PICK n \in Bad : \A m \in Bad : n <= m
  BY LeastNumber, Bad \subseteq Nat
<1>2. n # 0 => Pow2[n - 1] \in Nat \ {0}
  BY <1>1
<1> QED
  BY <1>2, Pow2Rule

(* The ranges of C's integers                                              *)
LEMMA Ranges ==
    ASSUME NEW bits \in Nat, bits > 1
    PROVE  /\ \A i \in Signed(bits) : i \in Int /\ Abs(i) <= Pow2[bits - 1]
           /\ \A i \in Int : Unsigned(i, bits) \in 0 .. Pow2[bits] - 1
           /\ Pow2[bits] = 2 * Pow2[bits - 1] /\ Pow2[bits - 1] \in Nat \ {0}
<1>1. Pow2[bits - 1] \in Nat \ {0} /\ Pow2[bits] \in Nat \ {0}
  BY Pow2Type
<1>2. Pow2[bits] = 2 * Pow2[bits - 1]
  BY Pow2Rule
<1> QED
  BY <1>1, <1>2 DEF Signed, Unsigned, Abs
-----------------------------------------------------------------------------
(* Numerals                                                                *)

DigitsBelow(base) == {Digits[d + 1] : d \in 0 .. base - 1}

LEMMA DigitFacts ==
    ASSUME NEW d \in 0 .. 35
    PROVE  /\ DigitValue(Digits[d + 1]) = d
           /\ Digits[d + 1] # "-"
           /\ Digits[d + 1] = "0" => d = 0
<1>1. \A a \in 1 .. 36, b \in 1 .. 36 : Digits[a] = Digits[b] => a = b
  BY DEF Digits
<1>2. \A a \in 1 .. 36 : Digits[a] # "-"
  BY DEF Digits
<1>3. \A a \in 1 .. 36 : Digits[a] = "0" => a = 1
  BY DEF Digits
<1>4. d + 1 \in 1 .. 36
  OBVIOUS
<1>5. DigitValue(Digits[d + 1]) = d
  <2> DEFINE D(e) == Digits[e + 1] = Digits[d + 1]
  <2>1. \E e \in 0 .. 35 : D(e)
    OBVIOUS
  <2>2. ASSUME NEW e \in 0 .. 35, D(e) PROVE e = d
    BY <1>1, <1>4, <2>2, e + 1 \in 1 .. 36
  <2> HIDE DEF D
  <2>3. (CHOOSE e \in 0 .. 35 : D(e)) = d
    BY <2>1, <2>2
  <2> QED
    BY <2>3 DEF DigitValue, D
<1> QED
  BY <1>2, <1>3, <1>4, <1>5

LEMMA Division ==
    ASSUME NEW base \in 2 .. 36, NEW i \in Int
    PROVE  /\ Quot(i, base) \in Int /\ Abs(i) \in Nat
           /\ Abs(Quot(i, base)) \in Nat /\ Abs(Rem(i, base)) \in Nat
           /\ base * Abs(Quot(i, base)) \in Nat
           /\ Abs(i) = base * Abs(Quot(i, base)) + Abs(Rem(i, base))
           /\ 2 * Abs(Quot(i, base)) <= base * Abs(Quot(i, base))
           /\ Quot(i, base) # 0 => Abs(Quot(i, base)) < Abs(i) /\ Abs(Quot(i, base)) # 0
           /\ Quot(i, base) = 0 => Abs(Quot(i, base)) = 0
<1> DEFINE q == Quot(i, base)
           y == Abs(q)
           z == Abs(Rem(i, base))
<1>1. /\ q \in Int /\ y \in Nat /\ z \in 0 .. base - 1 /\ Abs(i) \in Nat
      /\ Abs(i) = base * y + z /\ (q # 0 => y < Abs(i)) /\ (q = 0 <=> y = 0)
  <2>1. base \in Nat /\ base > 1
    OBVIOUS
  <2> QED
    BY <2>1, QuotRem, Zenon
<1> HIDE DEF q, y, z
<1>2. z \in Nat /\ base \in Nat /\ 2 <= base
  BY <1>1
<1>3. 2 * y <= base * y /\ base * y \in Nat
  BY <1>1, <1>2, TimesMonotone
<1> QED
  BY <1>1, <1>2, <1>3 DEF q, y, z

LEMMA LastTurn ==
    ASSUME NEW base \in 2 .. 36, NEW i \in Int
    PROVE  /\ chars(Rem(i, base)) \in DigitsBelow(base)
           /\ chars(Rem(i, base)) = Digits[Abs(Rem(i, base)) + 1]
           /\ Abs(Rem(i, base)) \in 0 .. base - 1
<1>1. Abs(Rem(i, base)) \in 0 .. base - 1
  BY QuotRem
<1> QED
  BY <1>1 DEF chars, DigitsBelow

(* The do loop makes at least one turn and puts out digits of the base.    *)
LEMMA GenerateType ==
    ASSUME NEW base \in 2 .. 36
    PROVE  \A i \in Int : /\ Generate(base)[i] \in Seq(DigitsBelow(base))
                          /\ Len(Generate(base)[i]) > 0
<1> DEFINE g == Generate(base)
           Fine(i) == g[i] \in Seq(DigitsBelow(base)) /\ Len(g[i]) > 0
           Bad == {a \in Nat : \E i \in Int : a = Abs(i) /\ ~ Fine(i)}
<1>1. ASSUME Bad # {} PROVE FALSE
  <2>1. PICK a \in Bad : \A c \in Bad : a <= c
    BY <1>1, LeastNumber, Bad \subseteq Nat
  <2>2. PICK i \in Int : a = Abs(i) /\ ~ Fine(i)
    OBVIOUS
  <2> DEFINE q == Quot(i, base)
  <2>3. q \in Int /\ Abs(q) \in Nat /\ (q # 0 => Abs(q) < a)
    BY <2>2, QuotRem
  <2>4. q # 0 => Fine(q)
    <3> HIDE DEF q, Fine
    <3> QED
      BY <2>1, <2>3
  <2>5. g[i] = <<chars(Rem(i, base))>> \o (IF q = 0 THEN <<>> ELSE g[q])
    BY LoopEnds DEF Turn
  <2>6. <<chars(Rem(i, base))>> \in Seq(DigitsBelow(base))
    <3>1. \A c \in DigitsBelow(base) : <<c>> \in Seq(DigitsBelow(base))
      OBVIOUS
    <3> QED
      BY <3>1, LastTurn
  <2> HIDE DEF g, q
  <2> QED
    BY <2>2, <2>4, <2>5, <2>6
<1>2. \A i \in Int : Fine(i)
  <2> HIDE DEF Fine
  <2>1. \A i \in Int : Abs(i) \in Nat
    BY DEF Abs
  <2> QED
    BY <1>1, <2>1
<1> QED
  BY <1>2

(* The digits of i are those of its quotient, behind that of its remainder *)
LEMMA GenerateTurn ==
    ASSUME NEW base \in 2 .. 36, NEW i \in Int
    PROVE  LET s == Generate(base)[i]
               q == Quot(i, base)
               u == IF q = 0 THEN <<>> ELSE Generate(base)[q]
           IN  /\ u \in Seq(DigitsBelow(base)) /\ s = <<chars(Rem(i, base))>> \o u
               /\ Len(s) = Len(u) + 1 /\ s[1] = chars(Rem(i, base))
               /\ \A k \in 1 .. Len(u) : s[k + 1] = u[k]
<1> DEFINE s == Generate(base)[i]
           q == Quot(i, base)
           u == IF q = 0 THEN <<>> ELSE Generate(base)[q]
<1>1. q \in Int
  BY QuotRem
<1>2. u \in Seq(DigitsBelow(base))
  <2>1. Generate(base)[q] \in Seq(DigitsBelow(base))
    BY <1>1, GenerateType
  <2>2. <<>> \in Seq(DigitsBelow(base))
    OBVIOUS
  <2> QED
    BY <2>1, <2>2
<1>3. s = <<chars(Rem(i, base))>> \o u
  BY LoopEnds DEF Turn
<1> HIDE DEF s, u
<1>4. Len(s) = Len(u) + 1 /\ s[1] = chars(Rem(i, base)) /\ \A k \in 1 .. Len(u) : s[k + 1] = u[k]
  BY <1>2, <1>3
<1> QED
  BY <1>2, <1>3, <1>4 DEF s, u

(* The value of a numeral, prefix by prefix                                *)
Horner(v, t, base) ==
    v = [k \in 0 .. Len(t) |->
            IF k = 0 THEN 0 ELSE base * v[k - 1] + DigitValue(t[k])]

LEMMA ValueIs ==
    ASSUME NEW S, NEW t \in Seq(S), NEW base, NEW v, Horner(v, t, base)
    PROVE  Value(t, base) = v[Len(t)]
<1> DEFINE w == CHOOSE w : Horner(w, t, base)
           Bad == {k \in Nat : k <= Len(t) /\ w[k] # v[k]}
<1>1. Horner(w, t, base)
  OBVIOUS
<1>2. Value(t, base) = w[Len(t)]
  BY DEF Value, Horner
<1> HIDE DEF w
<1>3. Bad = {}
  <2> SUFFICES ASSUME Bad # {} PROVE FALSE
    OBVIOUS
  <2>1. PICK k \in Bad : \A c \in Bad : k <= c
    BY LeastNumber, Bad \subseteq Nat
  <2>2. k \in 0 .. Len(t)
    OBVIOUS
  <2>3. /\ v[k] = IF k = 0 THEN 0 ELSE base * v[k - 1] + DigitValue(t[k])
        /\ w[k] = IF k = 0 THEN 0 ELSE base * w[k - 1] + DigitValue(t[k])
    BY <1>1, <2>2 DEF Horner
  <2>4. k # 0 => w[k - 1] = v[k - 1]
    BY <2>1
  <2> QED
    BY <2>3, <2>4
<1> QED
  BY <1>2, <1>3

(* A digit behind a numeral                                                *)
LEMMA HornerNext ==
    ASSUME NEW S, NEW t \in Seq(S), NEW base, NEW v, Horner(v, t, base),
           NEW u \in Seq(S), Len(u) = Len(t) + 1, \A k \in 1 .. Len(t) : u[k] = t[k]
    PROVE  \E w : /\ Horner(w, u, base)
                  /\ w[Len(u)] = base * v[Len(t)] + DigitValue(u[Len(u)])
<1> DEFINE n == Len(t)
           w == [k \in 0 .. n + 1 |->
                    IF k <= n THEN v[k] ELSE base * v[n] + DigitValue(u[n + 1])]
<1>1. n \in Nat
  OBVIOUS
<1>2. \A k \in 0 .. n : v[k] = IF k = 0 THEN 0 ELSE base * v[k - 1] + DigitValue(t[k])
  BY DEF Horner
<1> HIDE DEF n
<1>3. ASSUME NEW k \in 0 .. n + 1
      PROVE  w[k] = IF k = 0 THEN 0 ELSE base * w[k - 1] + DigitValue(u[k])
  <2>1. CASE k = 0
    BY <1>1, <1>2, <2>1
  <2>2. CASE k \in 1 .. n
    <3>1. w[k] = v[k] /\ w[k - 1] = v[k - 1] /\ k # 0
      BY <1>1, <2>2
    <3>2. u[k] = t[k]
      BY <2>2 DEF n
    <3>3. v[k] = base * v[k - 1] + DigitValue(t[k])
      BY <1>1, <1>2, <2>2
    <3> QED
      BY <3>1, <3>2, <3>3
  <2>3. CASE k = n + 1
    <3>1. w[k] = base * v[n] + DigitValue(u[k]) /\ w[k - 1] = v[n] /\ k # 0
      BY <1>1, <2>3
    <3> QED
      BY <3>1
  <2> QED
    BY <1>1, <2>1, <2>2, <2>3
<1>4. Len(u) = n + 1
  BY DEF n
<1>5. Horner(w, u, base)
  BY <1>3, <1>4 DEF Horner
<1>6. w[Len(u)] = base * v[n] + DigitValue(u[Len(u)])
  BY <1>1, <1>4
<1> HIDE DEF w
<1> QED
  BY <1>5, <1>6 DEF n

LEMMA ReverseType ==
    ASSUME NEW S, NEW s \in Seq(S)
    PROVE  /\ Reverse(s) \in Seq(S) /\ Len(Reverse(s)) = Len(s)
           /\ \A k \in 1 .. Len(s) : Reverse(s)[k] = s[Len(s) - k + 1]
BY DEF Reverse

(* The digits denote the absolute value.                                   *)
LEMMA GenerateValue ==
    ASSUME NEW base \in 2 .. 36
    PROVE  \A i \in Int : \E v : /\ Horner(v, Reverse(Generate(base)[i]), base)
                                 /\ v[Len(Generate(base)[i])] = Abs(i)
<1> DEFINE g == Generate(base)
           Fine(i) == \E v : /\ Horner(v, Reverse(g[i]), base)
                             /\ v[Len(g[i])] = Abs(i)
           Bad == {a \in Nat : \E i \in Int : a = Abs(i) /\ ~ Fine(i)}
<1>1. ASSUME Bad # {} PROVE FALSE
  <2>1. PICK a \in Bad : \A c \in Bad : a <= c
    BY <1>1, LeastNumber, Bad \subseteq Nat
  <2>2. PICK i \in Int : a = Abs(i) /\ ~ Fine(i)
    OBVIOUS
  <2> DEFINE q == Quot(i, base)
             r == Rem(i, base)
             u == IF q = 0 THEN <<>> ELSE g[q]
             s == g[i]
  <2>3. /\ q \in Int /\ Abs(q) \in Nat /\ (q # 0 => Abs(q) < a)
        /\ a = base * Abs(q) + Abs(r) /\ (q = 0 => Abs(q) = 0)
        /\ Abs(r) \in Nat
    <3> HIDE DEF Fine
    <3> QED
      BY <2>2, Division
  <2>4. /\ u \in Seq(DigitsBelow(base)) /\ Len(s) = Len(u) + 1 /\ s[1] = chars(r)
        /\ \A k \in 1 .. Len(u) : s[k + 1] = u[k]
    BY GenerateTurn
  <2>5. s \in Seq(DigitsBelow(base))
    BY GenerateType
  <2>6. \E v : Horner(v, Reverse(u), base) /\ v[Len(u)] = Abs(q)
    <3>1. CASE q = 0
      <4> DEFINE v == [k \in 0 .. 0 |-> 0]
      <4>1. Reverse(u) = <<>> /\ Len(u) = 0 /\ Abs(q) = 0
        BY <2>3, <3>1 DEF Reverse
      <4>2. Horner(v, <<>>, base)
        BY DEF Horner
      <4> QED
        BY <4>1, <4>2
    <3>2. CASE q # 0
      <4> HIDE DEF Fine, q
      <4>1. Fine(q)
        BY <2>1, <2>3, <3>2
      <4> QED
        BY <3>2, <4>1 DEF Fine
    <3> QED
      BY <3>1, <3>2
  <2> HIDE DEF s, u, q, r
  <2>7. PICK v : Horner(v, Reverse(u), base) /\ v[Len(u)] = Abs(q)
    BY <2>6
  <2>8. /\ Reverse(u) \in Seq(DigitsBelow(base)) /\ Len(Reverse(u)) = Len(u)
        /\ \A k \in 1 .. Len(u) : Reverse(u)[k] = u[Len(u) - k + 1]
    BY <2>4, ReverseType
  <2>9. /\ Reverse(s) \in Seq(DigitsBelow(base)) /\ Len(Reverse(s)) = Len(s)
        /\ \A k \in 1 .. Len(s) : Reverse(s)[k] = s[Len(s) - k + 1]
    BY <2>5, ReverseType
  <2>10. ASSUME NEW k \in 1 .. Len(u) PROVE Reverse(s)[k] = Reverse(u)[k]
    <3>1. Len(u) \in Nat
      BY <2>4
    <3>2. Len(u) - k + 1 \in 1 .. Len(u) /\ Len(s) - k + 1 = (Len(u) - k + 1) + 1
          /\ k \in 1 .. Len(s)
      BY <2>4, <3>1
    <3> QED
      BY <2>4, <2>8, <2>9, <3>2
  <2>11. PICK w : /\ Horner(w, Reverse(s), base)
                  /\ w[Len(Reverse(s))] =
                       base * v[Len(Reverse(u))] + DigitValue(Reverse(s)[Len(Reverse(s))])
    <3> DEFINE ru == Reverse(u)
               rs == Reverse(s)
    <3>1. /\ ru \in Seq(DigitsBelow(base)) /\ rs \in Seq(DigitsBelow(base))
          /\ Len(rs) = Len(ru) + 1 /\ Len(ru) = Len(u)
          /\ \A k \in 1 .. Len(ru) : rs[k] = ru[k]
      BY <2>4, <2>8, <2>9, <2>10
    <3>2. Horner(v, ru, base)
      BY <2>7
    <3> HIDE DEF ru, rs
    <3>3. \E w : /\ Horner(w, rs, base)
                 /\ w[Len(rs)] = base * v[Len(ru)] + DigitValue(rs[Len(rs)])
      BY <3>1, <3>2, HornerNext
    <3> QED
      BY <3>3 DEF ru, rs
  <2>12. Reverse(s)[Len(s)] = chars(r)
    <3>1. Len(s) \in Nat /\ Len(s) > 0
      BY <2>4, <2>5
    <3>2. Len(s) - Len(s) + 1 = 1 /\ Len(s) \in 1 .. Len(s)
      BY <3>1
    <3> QED
      BY <2>4, <2>9, <3>2
  <2>13. DigitValue(chars(r)) = Abs(r)
    <3>1. chars(r) = Digits[Abs(r) + 1] /\ Abs(r) \in 0 .. base - 1
      BY LastTurn DEF r
    <3>2. 0 .. base - 1 \subseteq 0 .. 35
      OBVIOUS
    <3> QED
      BY <3>1, <3>2, DigitFacts
  <2>14. w[Len(s)] = a
    BY <2>3, <2>7, <2>8, <2>9, <2>11, <2>12, <2>13
  <2> QED
    BY <2>2, <2>11, <2>14 DEF s
<1>2. \A i \in Int : Fine(i)
  <2> HIDE DEF Fine
  <2>1. \A i \in Int : Abs(i) \in Nat
    BY DEF Abs
  <2> QED
    BY <1>1, <2>1
<1> QED
  BY <1>2

(* No digit is generated for leading zeros.                                *)
LEMMA GenerateLead ==
    ASSUME NEW base \in 2 .. 36
    PROVE  \A i \in Int : LET s == Generate(base)[i]
                          IN  s[Len(s)] = "0" => i = 0 /\ Len(s) = 1
<1> DEFINE g == Generate(base)
           Fine(i) == g[i][Len(g[i])] = "0" => i = 0 /\ Len(g[i]) = 1
           Bad == {a \in Nat : \E i \in Int : a = Abs(i) /\ ~ Fine(i)}
<1>1. ASSUME Bad # {} PROVE FALSE
  <2>1. PICK a \in Bad : \A c \in Bad : a <= c
    BY <1>1, LeastNumber, Bad \subseteq Nat
  <2>2. PICK i \in Int : a = Abs(i) /\ ~ Fine(i)
    OBVIOUS
  <2> DEFINE q == Quot(i, base)
             r == Rem(i, base)
             u == IF q = 0 THEN <<>> ELSE g[q]
             s == g[i]
  <2>3. /\ q \in Int /\ Abs(q) \in Nat /\ (q # 0 => Abs(q) < a)
        /\ a = base * Abs(q) + Abs(r) /\ (q = 0 => Abs(q) = 0)
        /\ Abs(r) \in Nat
    <3> HIDE DEF Fine
    <3> QED
      BY <2>2, Division
  <2>4. /\ u \in Seq(DigitsBelow(base)) /\ Len(s) = Len(u) + 1 /\ s[1] = chars(r)
        /\ \A k \in 1 .. Len(u) : s[k + 1] = u[k]
    BY GenerateTurn
  <2>5. CASE q = 0
    <3>1. Len(s) = 1 /\ s[Len(s)] = chars(r)
      BY <2>4, <2>5
    <3>6. a = Abs(r)
      <4> HIDE DEF r, Fine
      <4>1. Abs(q) = 0 /\ base * 0 = 0
        BY <2>3, <2>5
      <4> QED
        BY <2>3, <4>1
    <3>2. chars(r) = Digits[Abs(r) + 1] /\ Abs(r) \in 0 .. base - 1
      BY LastTurn
    <3>3. 0 .. base - 1 \subseteq 0 .. 35
      OBVIOUS
    <3>4. chars(r) = "0" => Abs(r) = 0
      BY <3>2, <3>3, DigitFacts
    <3>5. Abs(i) = 0 => i = 0
      BY DEF Abs
    <3> QED
      BY <2>2, <3>1, <3>4, <3>5, <3>6
  <2>6. CASE q # 0
    <3>1. Fine(q)
      <4> HIDE DEF Fine, q
      <4> QED
        BY <2>1, <2>3, <2>6
    <3>2. u = g[q] /\ Len(u) > 0
      BY <2>3, <2>6, GenerateType
    <3> HIDE DEF s, u, g, q
    <3>3. Len(u) \in Nat /\ s[Len(s)] = u[Len(u)]
      BY <2>4, <3>2
    <3> QED
      BY <2>2, <2>6, <3>1, <3>2, <3>3 DEF s
  <2> QED
    BY <2>5, <2>6
<1>2. \A i \in Int : Fine(i)
  <2> HIDE DEF Fine
  <2>1. \A i \in Int : Abs(i) \in Nat
    BY DEF Abs
  <2> QED
    BY <1>1, <2>1
<1> QED
  BY <1>2

(* The text without the sign is the numeral of the absolute value.         *)
LEMMA NumeralOf ==
    ASSUME NEW base \in 2 .. 36, NEW i \in Int
    PROVE  Denotes(Reverse(Generate(base)[i]), base, Abs(i))
<1> DEFINE s == Generate(base)[i]
           t == Reverse(s)
<1>1. s \in Seq(DigitsBelow(base)) /\ Len(s) > 0
  BY GenerateType
<1>2. s[Len(s)] = "0" => Len(s) = 1
  BY GenerateLead
<1>3. \E v : Horner(v, t, base) /\ v[Len(s)] = Abs(i)
  BY GenerateValue
<1> HIDE DEF s
<1>4. /\ t \in Seq(DigitsBelow(base)) /\ Len(t) = Len(s)
      /\ \A k \in 1 .. Len(s) : t[k] = s[Len(s) - k + 1]
  BY <1>1, ReverseType
<1> HIDE DEF t
<1>5. Value(t, base) = Abs(i)
  BY <1>3, <1>4, ValueIs
<1>6. DOMAIN t = 1 .. Len(t) /\ Len(t) \in Nat /\ \A k \in 1 .. Len(t) : t[k] \in DigitsBelow(base)
  BY <1>4
<1>7. ASSUME NEW c \in DigitsBelow(base) PROVE c # "-" /\ DigitValue(c) < base
  <2>1. PICK d \in 0 .. base - 1 : c = Digits[d + 1]
    BY DEF DigitsBelow
  <2>2. d \in 0 .. 35
    OBVIOUS
  <2> QED
    BY <2>1, <2>2, DigitFacts
<1>8. "-" \notin ToSet(t)
  BY <1>6, <1>7 DEF ToSet
<1>9. \A k \in DOMAIN t : DigitValue(t[k]) < base
  BY <1>6, <1>7
<1>10. t # <<>>
  BY <1>1, <1>4
<1>11. Len(t) > 1 => t[1] # "0"
  <2>1. t[1] = s[Len(s)]
    BY <1>1, <1>4
  <2> QED
    BY <1>2, <1>4, <2>1
<1> QED
  BY <1>5, <1>8, <1>9, <1>10, <1>11 DEF Denotes, t, s

(* A number below 2^n has at most n digits, in every base; in base 10 the  *)
(* number 2^n itself is no exception.                                      *)
LEMMA GenerateLength ==
    ASSUME NEW base \in 2 .. 36
    PROVE  \A i \in Int, n \in Nat \ {0} :
               Abs(i) < Pow2[n] \/ (base = 10 /\ Abs(i) <= Pow2[n]) =>
                   Len(Generate(base)[i]) <= n
<1> DEFINE g == Generate(base)
           Small(i, n) == Abs(i) < Pow2[n] \/ (base = 10 /\ Abs(i) <= Pow2[n])
           Bad == {n \in Nat : n # 0 /\ \E i \in Int : Small(i, n) /\ ~ (Len(g[i]) <= n)}
<1> SUFFICES ASSUME Bad # {} PROVE FALSE
  OBVIOUS
<1>1. PICK n \in Bad : \A m \in Bad : n <= m
  BY LeastNumber, Bad \subseteq Nat
<1>2. n # 0
  OBVIOUS
<1>3. PICK i \in Int : Small(i, n) /\ ~ (Len(g[i]) <= n)
  OBVIOUS
<1> DEFINE q == Quot(i, base)
           r == Rem(i, base)
           u == IF q = 0 THEN <<>> ELSE g[q]
<1>4. /\ q \in Int /\ Abs(q) \in Nat /\ Abs(r) \in Nat /\ Abs(i) \in Nat
      /\ Abs(i) = base * Abs(q) + Abs(r) /\ (q # 0 => Abs(q) # 0)
  BY Division
<1>5. u \in Seq(DigitsBelow(base)) /\ Len(g[i]) = Len(u) + 1
  BY GenerateTurn
<1>6. n = 1 \/ (n - 1 \in Nat /\ n - 1 # 0)
  BY <1>2
<1>7. /\ Pow2[n] = 2 * Pow2[n - 1] /\ Pow2[n - 1] \in Nat \ {0}
      /\ n = 1 => Pow2[n - 1] = 1
  <2>1. n - 1 \in Nat
    BY <1>2
  <2> QED
    BY <1>2, <2>1, Pow2Rule, Pow2Type
<1>8. base = 10 => Abs(i) = 10 * Abs(q) + Abs(r)
  BY <1>4
<1>9. 2 * Abs(q) <= base * Abs(q) /\ base * Abs(q) \in Nat
  BY Division
<1>10. Small(i, n) => Small(q, n - 1) /\ (n = 1 => Abs(q) = 0)
  <2> DEFINE x == Abs(i)
             y == Abs(q)
             z == Abs(r)
             P == Pow2[n - 1]
             m == base * y
  <2>1. y \in Nat /\ z \in Nat /\ x = m + z /\ 2 * y <= m /\ m \in Nat
        /\ P \in Nat \ {0} /\ Pow2[n] = 2 * P /\ (n = 1 => P = 1)
        /\ (base = 10 => x = 10 * y + z)
    BY <1>4, <1>7, <1>8, <1>9
  <2> HIDE DEF x, y, z, P, m
  <2>2. x < 2 * P => y < P
    BY <2>1
  <2>3. base = 10 /\ x <= 2 * P => y <= P
    BY <2>1
  <2>4. n = 1 /\ (x < 2 * P \/ (base = 10 /\ x <= 2 * P)) => y = 0
    BY <2>1
  <2> QED
    BY <2>1, <2>2, <2>3, <2>4 DEF x, y, P
<1>11. CASE n = 1
  <2>1. q = 0
    BY <1>3, <1>4, <1>10, <1>11
  <2> QED
    BY <1>3, <1>5, <1>11, <2>1
<1>12. CASE n # 1
  <2>1. n - 1 \notin Bad
    BY <1>1
  <2>2. Len(g[q]) <= n - 1
    <3> HIDE DEF q, g, Small
    <3> QED
      BY <1>3, <1>4, <1>6, <1>10, <1>12, <2>1
  <2>3. Len(u) <= n - 1
    BY <1>2, <2>2
  <2> QED
    BY <1>3, <1>5, <2>3
<1> QED
  BY <1>11, <1>12
-----------------------------------------------------------------------------
(* The texts of the six conversions                                        *)

LEMMA ReverseCons ==
    ASSUME NEW S, NEW s \in Seq(S), NEW c \in S
    PROVE  /\ Last(Reverse(<<c>> \o s)) = c
           /\ Front(Reverse(<<c>> \o s)) = Reverse(s)
           /\ Reverse(<<c>> \o s) \in Seq(S)
           /\ Len(Reverse(<<c>> \o s)) = Len(s) + 1
<1> DEFINE u == <<c>> \o s
           t == Reverse(u)
<1>1. u \in Seq(S) /\ Len(u) = Len(s) + 1 /\ u[1] = c /\ \A k \in 1 .. Len(s) : u[k + 1] = s[k]
  OBVIOUS
<1> HIDE DEF u
<1>2. /\ t \in Seq(S) /\ Len(t) = Len(u)
      /\ \A k \in 1 .. Len(u) : t[k] = u[Len(u) - k + 1]
  BY <1>1, ReverseType
<1>3. /\ Reverse(s) \in Seq(S) /\ Len(Reverse(s)) = Len(s)
      /\ \A k \in 1 .. Len(s) : Reverse(s)[k] = s[Len(s) - k + 1]
  BY ReverseType
<1> HIDE DEF t
<1>4. Len(s) \in Nat
  OBVIOUS
<1>5. t[Len(t)] = c
  <2>1. Len(u) - Len(u) + 1 = 1 /\ Len(u) \in 1 .. Len(u)
    BY <1>1, <1>4
  <2> QED
    BY <1>1, <1>2, <2>1
<1>6. SubSeq(t, 1, Len(s)) = Reverse(s)
  <2> DEFINE f == SubSeq(t, 1, Len(s))
             rs == Reverse(s)
  <2>1. f \in Seq(S) /\ Len(f) = Len(s) /\ \A k \in 1 .. Len(s) : f[k] = t[k]
    BY <1>1, <1>2, <1>4, SubSeqProperties
  <2>2. ASSUME NEW k \in 1 .. Len(s) PROVE f[k] = rs[k]
    <3>1. k \in 1 .. Len(u) /\ Len(u) - k + 1 = (Len(s) - k + 1) + 1
          /\ Len(s) - k + 1 \in 1 .. Len(s)
      BY <1>1, <1>4
    <3> QED
      BY <1>1, <1>2, <1>3, <2>1, <3>1
  <2> HIDE DEF f, rs
  <2>3. rs \in Seq(S) /\ Len(rs) = Len(s)
    BY <1>3 DEF rs
  <2>4. f = rs
    BY <2>1, <2>2, <2>3, SeqEqual
  <2> QED
    BY <2>4 DEF f, rs
<1>7. Len(t) - 1 = Len(s)
  BY <1>1, <1>2, <1>4
<1> QED
  BY <1>1, <1>2, <1>5, <1>6, <1>7 DEF Last, Front, t, u

(* The characters that are printed                                         *)
Alphabet ==
    DigitsBelow(36) \cup {"-", "%", "a", "EOF"}
      \cup UNION {ToSet(t) : t \in Formats \cup Strings}

LEMMA Characters ==
    /\ \A base \in 2 .. 36 : Seq(DigitsBelow(base) \cup {"-"}) \subseteq Seq(Alphabet)
    /\ Formats \cup Strings \subseteq Seq(Alphabet)
<1>1. ASSUME NEW base \in 2 .. 36 PROVE Seq(DigitsBelow(base) \cup {"-"}) \subseteq Seq(Alphabet)
  <2>1. DigitsBelow(base) \cup {"-"} \subseteq Alphabet
    <3>1. 0 .. base - 1 \subseteq 0 .. 35 /\ 36 - 1 = 35
      OBVIOUS
    <3> QED
      BY <3>1 DEF DigitsBelow, Alphabet
  <2> QED
    BY <2>1
<1>2. ASSUME NEW t \in Formats \cup Strings PROVE t \in Seq(Alphabet)
  <2>1. t \in Seq(ToSet(t)) /\ ToSet(t) \subseteq Alphabet
    BY PrintfAssumption DEF Alphabet
  <2> HIDE DEF Alphabet
  <2> QED
    BY <2>1
<1> QED
  BY <1>1, <1>2

(* What is right of a conversion: its digits, and that it fits its array   *)
DigitsOf(c) ==
    c.base \in 2 .. 36 =>
        CASE c.value >= 0 -> Denotes(c.text, c.base, c.value)
          [] c.value < 0 /\ c.base # 10 -> Denotes(c.text, c.base, -c.value)
          [] OTHER -> Last(c.text) = "-" /\ Denotes(Front(c.text), 10, -c.value)
Fits(c) == c.text \in Seq(Alphabet) /\ c.bits \in Nat /\ Len(c.text) <= c.bits
Sound(c) == DigitsOf(c) /\ Fits(c)

LEMMA SignedSound ==
    ASSUME NEW bits \in Nat, bits > 1, NEW i \in Signed(bits), NEW base \in Int
    PROVE  Sound(Converted(i, base, bits, itoa(i, base)))
<1> DEFINE c == Converted(i, base, bits, itoa(i, base))
<1>1. c.value = i /\ c.base = base /\ c.bits = bits /\ c.text = itoa(i, base)
  BY DEF Converted
<1> HIDE DEF c
<1>2. CASE base \notin 2 .. 36
  <2>1. itoa(i, base) = <<>>
    BY <1>2 DEF itoa
  <2> QED
    BY <1>1, <1>2, <2>1 DEF Sound, DigitsOf, Fits, c
<1>3. CASE base \in 2 .. 36
  <2> DEFINE s == Generate(base)[i]
             D == DigitsBelow(base) \cup {"-"}
  <2>1. /\ i \in Int /\ Abs(i) \in Nat /\ Abs(i) < Pow2[bits] /\ Abs(i) <= Pow2[bits - 1]
        /\ Pow2[bits] \in Nat
    BY Ranges DEF Abs
  <2>2. s \in Seq(DigitsBelow(base)) /\ s \in Seq(D)
    <3>1. s \in Seq(DigitsBelow(base))
      BY <1>3, <2>1, GenerateType
    <3> HIDE DEF s
    <3> QED
      BY <3>1
  <2>3. Denotes(Reverse(s), base, Abs(i))
    BY <1>3, <2>1, NumeralOf
  <2>4. Len(s) <= bits /\ (base = 10 => Len(s) <= bits - 1)
    <3>1. bits \in Nat \ {0} /\ bits - 1 \in Nat \ {0}
      OBVIOUS
    <3>2. Len(s) <= bits
      BY <1>3, <2>1, <3>1, GenerateLength
    <3>3. base = 10 => Len(s) <= bits - 1
      BY <1>3, <2>1, <3>1, GenerateLength
    <3> QED
      BY <3>2, <3>3
  <2> HIDE DEF s
  <2>5. \A w \in Seq(D) : w \in Seq(Alphabet)
    BY <1>3, Characters
  <2>6. CASE i < 0 /\ base = 10
    <3> DEFINE t == Reverse(<<"-">> \o s)
    <3>1. Last(t) = "-" /\ Front(t) = Reverse(s) /\ t \in Seq(D) /\ Len(t) = Len(s) + 1
      BY <2>2, "-" \in D, ReverseCons
    <3>2. itoa(i, base) = t /\ Abs(i) = -i
      BY <1>3, <2>1, <2>6 DEF itoa, s, Abs
    <3>3. Len(s) \in Nat
      BY <2>2
    <3> HIDE DEF t, D
    <3>4. Len(t) <= bits
      BY <2>4, <2>6, <3>1, <3>3
    <3>5. DigitsOf(c)
      BY <1>1, <2>1, <2>3, <2>6, <3>1, <3>2 DEF DigitsOf
    <3>6. Fits(c)
      BY <1>1, <2>5, <3>1, <3>2, <3>4 DEF Fits
    <3> QED
      BY <3>5, <3>6 DEF Sound, c
  <2>7. CASE ~ (i < 0 /\ base = 10)
    <3> DEFINE t == Reverse(s)
    <3>1. t \in Seq(D) /\ Len(t) = Len(s)
      BY <2>2, ReverseType
    <3>2. itoa(i, base) = t
      <4>1. <<>> \o s = s
        BY <2>2
      <4>2. ~ (base < 2 \/ base > 36)
        BY <1>3
      <4>3. itoa(i, base) = Reverse(<<>> \o s)
        BY <2>7, <4>2, Zenon DEF itoa, s
      <4> QED
        BY <4>1, <4>3
    <3>3. Abs(i) = IF i >= 0 THEN i ELSE -i
      BY <2>1 DEF Abs
    <3> HIDE DEF t, D
    <3>4. DigitsOf(c)
      <4>1. Denotes(t, base, Abs(i))
        BY <2>3 DEF t
      <4>2. CASE i >= 0
        BY <1>1, <2>1, <3>2, <3>3, <4>1, <4>2 DEF DigitsOf
      <4>3. CASE i < 0
        BY <1>1, <2>1, <2>7, <3>2, <3>3, <4>1, <4>3 DEF DigitsOf
      <4> QED
        BY <2>1, <4>2, <4>3
    <3>5. Fits(c)
      BY <1>1, <2>4, <2>5, <3>1, <3>2 DEF Fits
    <3> QED
      BY <3>4, <3>5 DEF Sound, c
  <2> QED
    BY <2>6, <2>7
<1> QED
  BY <1>2, <1>3

LEMMA UnsignedSound ==
    ASSUME NEW bits \in Nat, bits > 1, NEW i \in 0 .. Pow2[bits] - 1, NEW base \in Int
    PROVE  Sound(Converted(i, base, bits, utoa(i, base)))
<1> DEFINE c == Converted(i, base, bits, utoa(i, base))
<1>1. c.value = i /\ c.base = base /\ c.bits = bits /\ c.text = utoa(i, base)
  BY DEF Converted
<1> HIDE DEF c
<1>2. CASE base \notin 2 .. 36
  <2>1. utoa(i, base) = <<>>
    BY <1>2 DEF utoa
  <2> QED
    BY <1>1, <1>2, <2>1 DEF Sound, DigitsOf, Fits, c
<1>3. CASE base \in 2 .. 36
  <2> DEFINE s == Generate(base)[i]
             D == DigitsBelow(base) \cup {"-"}
             t == Reverse(s)
  <2>1. Pow2[bits] \in Nat
    BY Pow2Type
  <2>2. i \in Int /\ Abs(i) = i /\ i >= 0 /\ Abs(i) < Pow2[bits]
    BY <2>1 DEF Abs
  <2>3. s \in Seq(DigitsBelow(base))
    BY <1>3, <2>2, GenerateType
  <2>4. Denotes(t, base, Abs(i))
    BY <1>3, <2>2, NumeralOf
  <2>5. Len(s) <= bits
    <3>1. bits \in Nat \ {0}
      OBVIOUS
    <3> QED
      BY <1>3, <2>2, <3>1, GenerateLength
  <2>6. t \in Seq(DigitsBelow(base)) /\ Len(t) = Len(s)
    BY <2>3, ReverseType
  <2>7. utoa(i, base) = t
    BY <1>3 DEF utoa
  <2> HIDE DEF s, t
  <2>8. t \in Seq(Alphabet)
    <3>1. t \in Seq(D)
      BY <2>6
    <3> HIDE DEF D
    <3>2. Seq(D) \subseteq Seq(Alphabet)
      BY <1>3, Characters DEF D
    <3> QED
      BY <3>1, <3>2
  <2>9. DigitsOf(c)
    BY <1>1, <2>2, <2>4, <2>7 DEF DigitsOf
  <2>10. Fits(c)
    BY <1>1, <2>5, <2>6, <2>7, <2>8 DEF Fits
  <2> QED
    BY <2>9, <2>10 DEF Sound, c
<1> QED
  BY <1>2, <1>3
-----------------------------------------------------------------------------
(* The loops over the format                                               *)

TypeOK ==
    /\ call \in Calls /\ pos \in Nat \ {0}
    /\ out \in Seq(Alphabet) /\ whole \in Seq(Alphabet)
    /\ pc \in {"running", "returned", "astray"} /\ ret \in Int

(* A format that ends within three characters of a %l                      *)
LateL == \E k \in DOMAIN call.fmt :
    k + 3 > Len(call.fmt) /\ call.fmt[k] = "%" /\ k < Len(call.fmt) /\ call.fmt[k + 1] = "l"
FormatOK == Beyond \/ pc = "astray" => LateL

(* As much of a text as the buffer takes                                   *)
Tracked == call.fn # "toa" /\ (call.fn = "vsnprintf" => call.n \in 1 .. IntMax)
Cut(w) == IF call.fn = "vprintf" THEN w ELSE SubSeq(w, 1, Min({call.n - 1, Len(w)}))
OutOK == pc = "running" /\ Tracked => out = Cut(whole)
RoomOK ==
    /\ call.fn = "vsnprintf" /\ call.n > 0 => Len(out) + 1 <= call.n
    /\ Len(out) <= IntMax

Inv == TypeOK /\ FormatOK /\ OutOK /\ OutputRight /\ RoomOK /\ Sound(last)

LEMMA CallFacts ==
    ASSUME call \in Calls
    PROVE  /\ call.fn \in {"vprintf", "vsnprintf", "toa"} /\ call.n \in Nat
           /\ call.fmt \in Seq(Alphabet) /\ Len(call.fmt) \in Nat
           /\ DOMAIN call.fmt = 1 .. Len(call.fmt)
           /\ call.n < Pow2[IntBits] /\ call.base \in Int
<1>1. /\ call.fn \in {"vprintf", "vsnprintf", "toa"} /\ call.n \in Nat
      /\ call.n < Pow2[IntBits] /\ call.base \in Int
  <2>1. /\ \A n \in Sizes \cup {0} : n \in Nat /\ n < Pow2[IntBits]
        /\ \A base \in Bases \cup {0} : base \in Int
    <3>1. Pow2[IntBits] \in Nat \ {0}
      BY PrintfAssumption, Pow2Type
    <3> QED
      BY <3>1, PrintfAssumption
  <2>2. CASE call \in [fn : {"vprintf"}, fmt : Formats, n : {0}, base : {0}]
    BY <2>1, <2>2
  <2>3. CASE call \in [fn : {"vsnprintf"}, fmt : Formats, n : Sizes, base : {0}]
    BY <2>1, <2>3
  <2>4. CASE call \in [fn : {"toa"}, fmt : {<<>>}, n : {0}, base : Bases]
    BY <2>1, <2>4
  <2> QED
    BY <2>2, <2>3, <2>4 DEF Calls
<1>2. call.fmt \in Seq(Alphabet)
  <2>1. call.fmt \in Formats \/ call.fmt = <<>>
    BY DEF Calls
  <2>2. <<>> \in Seq(Alphabet)
    OBVIOUS
  <2> QED
    BY <2>1, <2>2, Characters
<1> QED
  BY <1>1, <1>2

LEMMA MinOfTwo ==
    ASSUME NEW a \in Int, NEW b \in Int
    PROVE  Min({a, b}) = IF a <= b THEN a ELSE b
<1> DEFINE L(x) == \A y \in {a, b} : x =< y
<1>1. \E x \in {a, b} : L(x)
  OBVIOUS
<1>2. Min({a, b}) \in {a, b} /\ L(Min({a, b}))
  BY <1>1 DEF Min
<1> QED
  BY <1>2

LEMMA MaxOfTwo ==
    ASSUME NEW a \in Int, NEW b \in Int
    PROVE  Max({a, b}) = IF a >= b THEN a ELSE b
<1> DEFINE L(x) == \A y \in {a, b} : x >= y
<1>1. \E x \in {a, b} : L(x)
  OBVIOUS
<1>2. Max({a, b}) \in {a, b} /\ L(Max({a, b}))
  BY <1>1 DEF Max
<1> QED
  BY <1>2

LEMMA IntMaxIs == IntMax \in Nat /\ Pow2[IntBits] = 2 * (IntMax + 1)
<1>1. IntBits - 1 \in Nat /\ IntBits \in Nat /\ IntBits # 0
  BY PrintfAssumption
<1>2. Pow2[IntBits - 1] \in Nat \ {0}
  BY <1>1, Pow2Type
<1>3. Pow2[IntBits] = 2 * Pow2[IntBits - 1]
  BY <1>1, Pow2Rule
<1> QED
  BY <1>2, <1>3 DEF IntMax

(* The bound of the loops over a text is never above that of the buffer,   *)
(* and is that of the buffer if the cast changes nothing.                  *)
LEMMA LimitIs ==
    ASSUME call.n \in Nat, call.n < Pow2[IntBits], NEW limit \in Limits
    PROVE  /\ limit \in Int /\ limit <= call.n - 1
           /\ call.n <= IntMax => limit = call.n - 1
<1> DEFINE n == call.n
           p == Pow2[IntBits]
<1>1. n \in Nat /\ IntMax \in Nat /\ p = 2 * (IntMax + 1) /\ n < p
  BY IntMaxIs
<1>2. \/ limit = (IF n > IntMax THEN n - p ELSE n) - 1
      \/ n = IntMax + 1 /\ limit = IntMax
  BY DEF Limits, AsInt
<1> HIDE DEF n, p
<1>3. limit \in Int /\ limit <= n - 1 /\ (n <= IntMax => limit = n - 1)
  BY <1>1, <1>2
<1> QED
  BY <1>3 DEF n

(* The beginning of two texts, one behind the other                        *)
LEMMA CutOfConcat ==
    ASSUME NEW S, NEW s \in Seq(S), NEW t \in Seq(S), NEW k \in 0 .. Len(t)
    PROVE  /\ SubSeq(s \o t, 1, Len(s) + k) = s \o SubSeq(t, 1, k)
           /\ SubSeq(t, 1, k) \in Seq(S) /\ Len(SubSeq(t, 1, k)) = k
<1> DEFINE u == SubSeq(t, 1, k)
           v == SubSeq(s \o t, 1, Len(s) + k)
<1>1. u \in Seq(S) /\ Len(u) = k /\ \A j \in 1 .. k : u[j] = t[j]
  OBVIOUS
<1>2. /\ s \o t \in Seq(S) /\ Len(s \o t) = Len(s) + Len(t)
      /\ \A j \in 1 .. Len(s) + Len(t) :
            (s \o t)[j] = IF j <= Len(s) THEN s[j] ELSE t[j - Len(s)]
  BY ConcatProperties
<1>3. /\ v \in Seq(S) /\ Len(v) = Len(s) + k
      /\ \A j \in 1 .. Len(s) + k : v[j] = (s \o t)[j]
  <2> DEFINE w == s \o t
  <2> HIDE DEF w
  <2>1. w \in Seq(S) /\ Len(w) = Len(s) + Len(t)
    BY <1>2 DEF w
  <2>2. LET x == SubSeq(w, 1, Len(s) + k)
        IN  x \in Seq(S) /\ Len(x) = Len(s) + k /\ \A j \in 1 .. Len(s) + k : x[j] = w[j]
    BY <2>1
  <2> QED
    BY <2>2 DEF w
<1> HIDE DEF u, v
<1>4. /\ s \o u \in Seq(S) /\ Len(s \o u) = Len(s) + k
      /\ \A j \in 1 .. Len(s) + k :
            (s \o u)[j] = IF j <= Len(s) THEN s[j] ELSE u[j - Len(s)]
  BY <1>1, ConcatProperties
<1>5. \A j \in 1 .. Len(s) + k : v[j] = (s \o u)[j]
  <2> SUFFICES ASSUME NEW j \in 1 .. Len(s) + k PROVE v[j] = (s \o u)[j]
    OBVIOUS
  <2>1. j \in 1 .. Len(s) + Len(t) /\ (j > Len(s) => j - Len(s) \in 1 .. k) /\ j \in Int
    OBVIOUS
  <2> QED
    BY <1>1, <1>2, <1>3, <1>4, <2>1
<1>6. v = s \o u
  <2> DEFINE x == s \o u
  <2> HIDE DEF x
  <2>1. x \in Seq(S) /\ Len(x) = Len(v) /\ \A j \in 1 .. Len(v) : v[j] = x[j]
    BY <1>3, <1>4, <1>5 DEF x
  <2>2. v = x
    BY <1>3, <2>1, SeqEqual
  <2> QED
    BY <2>2 DEF x
<1> QED
  BY <1>1, <1>6 DEF u, v

(* While the loop of vsnprintf goes on, nothing has been cut off.          *)
LEMMA NothingCut ==
    ASSUME Inv, Iterates, Tracked
    PROVE  /\ out = whole
           /\ call.fn = "vsnprintf" => Len(out) < call.n - 1
           /\ Len(out) \in Nat /\ call.n \in Nat
           /\ call.fn \in {"vprintf", "vsnprintf"}
<1>1. /\ call.fn \in {"vprintf", "vsnprintf"} /\ call.n \in Nat
      /\ out = Cut(whole) /\ whole \in Seq(Alphabet) /\ out \in Seq(Alphabet)
  BY CallFacts DEF Inv, TypeOK, OutOK, Iterates, Tracked
<1>2. call.fn = "vsnprintf" => Len(out) < call.n - 1
  BY <1>1, IntMaxIs DEF Tracked, Iterates, Loops
<1>3. CASE call.fn = "vsnprintf"
  <2> DEFINE m == Min({call.n - 1, Len(whole)})
  <2>1. /\ m = IF call.n - 1 <= Len(whole) THEN call.n - 1 ELSE Len(whole)
        /\ call.n > 0 /\ Len(whole) \in Nat
    <3>1. call.n > 0
      BY <1>3, IntMaxIs DEF Tracked
    <3>2. call.n - 1 \in Int /\ Len(whole) \in Nat
      BY <1>1
    <3> QED
      BY <3>1, <3>2, MinOfTwo
  <2>2. out = SubSeq(whole, 1, m)
    BY <1>1, <1>3 DEF Cut
  <2> HIDE DEF m
  <2>3. Len(out) = m
    BY <1>1, <2>1, <2>2
  <2>4. m = Len(whole)
    BY <1>1, <1>2, <1>3, <2>1, <2>3
  <2> QED
    BY <1>1, <1>2, <2>2, <2>4, SubSeqFull
<1>4. CASE call.fn = "vprintf"
  BY <1>1, <1>4 DEF Cut
<1> QED
  BY <1>1, <1>2, <1>3, <1>4

(* What a step of a loop does to the output                                *)
Kept ==
    /\ out' \in Seq(Alphabet) /\ whole' \in Seq(Alphabet)
    /\ pc' \in {"running", "returned"} /\ ret' \in Int
    /\ OutOK' /\ OutputRight' /\ RoomOK'

LEMMA PutCharKeeps ==
    ASSUME Inv, Iterates, NEW c \in Alphabet, PutChar(c),
           whole' = Append(whole, c), call' = call
    PROVE  Kept
<1>1. /\ out \in Seq(Alphabet) /\ whole \in Seq(Alphabet) /\ pc = "running" /\ ret \in Int
      /\ call.fn \in {"vprintf", "vsnprintf", "toa"} /\ call.n \in Nat
  BY CallFacts DEF Inv, TypeOK, Iterates
<1>2. /\ whole' \in Seq(Alphabet) /\ Len(whole') = Len(whole) + 1
      /\ Len(whole) \in Nat /\ Len(out) \in Nat
  BY <1>1
<1>3. Tracked' <=> Tracked
  BY DEF Tracked, IntMax
<1>4. CASE remaining = 0 /\ Fail /\ UNCHANGED out
  BY <1>1, <1>2, <1>4 DEF Kept, Fail, OutOK, OutputRight, Succeeded, RoomOK, Inv, IntMax
<1>5. CASE remaining > 0 /\ out' = Append(out, c) /\ GoOn
  <2>1. out' \in Seq(Alphabet) /\ Len(out') = Len(out) + 1 /\ pc' = "running" /\ ret' = ret
    BY <1>1, <1>5 DEF GoOn
  <2>2. Len(out') <= IntMax'
    BY <1>2, <1>5, <2>1, IntMaxIs DEF remaining, IntMax
  <2>3. call.fn = "vsnprintf" /\ call.n > 0 => Len(out') + 1 <= call.n
    BY <1>1, <1>2, <2>1 DEF Iterates, Loops
  <2>4. ASSUME Tracked PROVE out' = Cut(whole)'
    <3>1. /\ out = whole /\ (call.fn = "vsnprintf" => Len(out) < call.n - 1)
          /\ call.fn \in {"vprintf", "vsnprintf"}
      BY <2>4, NothingCut
    <3>2. out' = whole'
      BY <1>5, <3>1
    <3>3. CASE call.fn = "vprintf"
      BY <3>2, <3>3 DEF Cut
    <3>4. CASE call.fn = "vsnprintf"
      <4>1. Min({call.n - 1, Len(whole')}) = Len(whole')
        <5>1. call.n - 1 \in Int /\ Len(whole') \in Int /\ Len(whole') <= call.n - 1
          BY <1>1, <1>2, <3>1, <3>4
        <5> QED
          BY <5>1, MinOfTwo
      <4>2. SubSeq(whole', 1, Len(whole')) = whole'
        BY <1>2, SubSeqFull
      <4> QED
        BY <3>2, <3>4, <4>1, <4>2 DEF Cut
    <3> QED
      BY <3>1, <3>3, <3>4
  <2> QED
    BY <1>1, <1>2, <1>3, <2>1, <2>2, <2>3, <2>4 DEF Kept, OutOK, OutputRight, Succeeded, RoomOK
<1> QED
  BY <1>4, <1>5 DEF PutChar

LEMMA PutTextKeeps ==
    ASSUME Inv, Iterates, NEW t \in Seq(Alphabet), PutText(t),
           whole' = whole \o t, call' = call
    PROVE  Kept
<1>1. /\ out \in Seq(Alphabet) /\ whole \in Seq(Alphabet) /\ pc = "running" /\ ret \in Int
      /\ call.fn \in {"vprintf", "vsnprintf", "toa"} /\ call.n \in Nat
  BY CallFacts DEF Inv, TypeOK, Iterates
<1>2. /\ whole' \in Seq(Alphabet) /\ Len(whole') = Len(whole) + Len(t)
      /\ Len(whole) \in Nat /\ Len(out) \in Nat /\ Len(t) \in Nat
  BY <1>1
<1>3. Tracked' <=> Tracked
  BY DEF Tracked, IntMax
<1> DEFINE eof == SelectInSeq(t, LAMBDA c : c = "EOF")
<1>4. eof \in 0 .. Len(t)
  <2> DEFINE I == {k \in 1 .. Len(t) : t[k] = "EOF"}
  <2>1. eof = IF I # {} THEN Min(I) ELSE 0
    BY DEF SelectInSeq
  <2>2. I # {} => Min(I) \in I
    <3> SUFFICES ASSUME I # {} PROVE Min(I) \in I
      OBVIOUS
    <3>1. I \in SUBSET Nat
      OBVIOUS
    <3> HIDE DEF I
    <3>2. \E m \in I : \A y \in I : m <= y
      BY <3>1, LeastNumber
    <3> QED
      BY <3>2 DEF Min
  <2> HIDE DEF eof
  <2> QED
    BY <1>2, <2>1, <2>2
<1>5. IntMax \in Nat /\ IntMax' = IntMax
  BY IntMaxIs DEF IntMax
<1>6. CASE remaining < Len(t) /\ Fail /\ UNCHANGED out
  BY <1>1, <1>2, <1>5, <1>6 DEF Kept, Fail, OutOK, OutputRight, Succeeded, RoomOK, Inv
<1> HIDE DEF eof
<1>7. CASE /\ remaining >= Len(t) /\ call.fn = "vprintf" /\ eof > 0
           /\ out' = out \o SubSeq(t, 1, eof) /\ Fail
  <2> DEFINE u == SubSeq(t, 1, eof)
  <2>1. u \in Seq(Alphabet) /\ Len(u) = eof
    BY <1>1, <1>4, CutOfConcat
  <2> HIDE DEF u
  <2>2. out' = out \o u
    BY <1>7 DEF u
  <2>3. out' \in Seq(Alphabet) /\ Len(out') = Len(out) + eof
    BY <1>1, <2>1, <2>2, ConcatProperties
  <2>4. Len(out') <= IntMax
    BY <1>2, <1>4, <1>5, <1>7, <2>3 DEF remaining
  <2> QED
    BY <1>2, <1>5, <1>7, <2>3, <2>4 DEF Kept, Fail, OutOK, OutputRight, Succeeded, RoomOK
<1>8. CASE /\ remaining >= Len(t) /\ call.fn = "vprintf" /\ eof = 0
           /\ out' = out \o t /\ GoOn
  <2>1. out' \in Seq(Alphabet) /\ Len(out') = Len(out) + Len(t) /\ pc' = "running" /\ ret' = ret
    BY <1>1, <1>8 DEF GoOn
  <2>2. Len(out') <= IntMax
    BY <1>2, <1>5, <1>8, <2>1 DEF remaining
  <2>3. Tracked => out' = Cut(whole)'
    BY <1>8, NothingCut DEF Cut
  <2> QED
    BY <1>1, <1>2, <1>3, <1>5, <1>8, <2>1, <2>2, <2>3 DEF Kept, OutOK, OutputRight, Succeeded, RoomOK
<1>9. ASSUME remaining >= Len(t), call.fn = "vsnprintf", GoOn,
             NEW limit \in Limits, out' = out \o SubSeq(t, 1, Room(t, limit))
      PROVE  Kept
  <2> DEFINE R == Room(t, limit)
             u == SubSeq(t, 1, R)
  <2>0. limit \in Int /\ limit <= call.n - 1 /\ (call.n <= IntMax => limit = call.n - 1)
    BY CallFacts, LimitIs DEF Inv, TypeOK
  <2>1. LET left == limit - Len(out)
            most == IF left >= 0 THEN left ELSE 0
        IN  R = IF Len(t) <= most THEN Len(t) ELSE most
    <3> DEFINE left == limit - Len(out)
               most == IF left >= 0 THEN left ELSE 0
    <3>1. left \in Int
      BY <1>1, <1>2, <2>0
    <3> HIDE DEF left
    <3>2. Max({0, left}) = most /\ most \in Int
      BY <3>1, MaxOfTwo
    <3> HIDE DEF most
    <3>3. Min({Len(t), most}) = IF Len(t) <= most THEN Len(t) ELSE most
      <4> DEFINE e == Len(t)
      <4>1. e \in Int /\ most \in Int
        BY <1>2, <3>2
      <4> HIDE DEF e
      <4>2. Min({e, most}) = IF e <= most THEN e ELSE most
        BY <4>1, MinOfTwo
      <4> QED
        BY <4>2 DEF e
    <3>4. R = Min({Len(t), most})
      BY <3>2 DEF Room, left
    <3> QED
      BY <3>3, <3>4 DEF left, most
  <2> HIDE DEF R
  <2>2. R \in 0 .. Len(t)
    BY <1>1, <1>2, <2>0, <2>1
  <2>3. u \in Seq(Alphabet) /\ Len(u) = R
    BY <1>1, <2>2, CutOfConcat
  <2> HIDE DEF u
  <2>4. out' = out \o u /\ pc' = "running" /\ ret' = ret
    BY <1>1, <1>9 DEF u, R, GoOn
  <2>5. out' \in Seq(Alphabet) /\ Len(out') = Len(out) + R
    BY <1>1, <2>3, <2>4, ConcatProperties
  <2>6. Len(out') <= IntMax
    BY <1>2, <1>5, <1>9, <2>2, <2>5 DEF remaining
  <2>7. call.n > 0 => Len(out') + 1 <= call.n
    <3> DEFINE x == call.n
               y == Len(out)
    <3>1. x \in Nat /\ y \in Nat /\ (x = 0 \/ y < x - 1)
      BY <1>1, <1>2, <1>9 DEF Iterates, Loops
    <3>2. R <= (IF limit - y >= 0 THEN limit - y ELSE 0) /\ R \in Nat
      BY <1>2, <2>0, <2>1, <2>2
    <3>3. limit \in Int /\ limit <= x - 1 /\ Len(out') = y + R
      BY <2>0, <2>5
    <3> HIDE DEF x, y
    <3>4. x > 0 => y + R + 1 <= x
      BY <3>1, <3>2, <3>3
    <3> QED
      BY <3>3, <3>4 DEF x
  <2>8. ASSUME Tracked PROVE out' = Cut(whole)'
    <3>1. out = whole /\ Len(out) < call.n - 1 /\ limit = call.n - 1
      BY <1>5, <1>9, <2>0, <2>8, NothingCut DEF Tracked
    <3>2. Min({call.n - 1, Len(whole')}) = Len(whole) + R
      <4>1. call.n - 1 \in Int /\ Len(whole') \in Int
        BY <1>1, <1>2
      <4>2. Len(whole) + R = IF call.n - 1 <= Len(whole') THEN call.n - 1 ELSE Len(whole')
        <5> DEFINE a == call.n - 1
                   b == Len(whole)
                   e == Len(t)
        <5>1. a \in Int /\ b \in Nat /\ e \in Nat /\ b < a /\ Len(whole') = b + e
          BY <1>1, <1>2, <3>1
        <5>2. R = IF e <= a - b THEN e ELSE a - b
          BY <2>1, <3>1, <5>1
        <5> HIDE DEF a, b, e
        <5>3. b + R = IF a <= Len(whole') THEN a ELSE Len(whole')
          BY <5>1, <5>2
        <5> QED
          BY <5>3 DEF a, b
      <4> QED
        BY <4>1, <4>2, MinOfTwo
    <3>3. SubSeq(whole \o t, 1, Len(whole) + R) = whole \o u
      BY <1>1, <2>2, CutOfConcat DEF u
    <3>4. out' = SubSeq(whole', 1, Min({call.n - 1, Len(whole')}))
      BY <2>4, <3>1, <3>2, <3>3
    <3> QED
      BY <1>9, <3>4 DEF Cut
  <2> QED
    BY <1>1, <1>2, <1>3, <1>5, <1>9, <2>4, <2>5, <2>6, <2>7, <2>8
       DEF Kept, OutOK, OutputRight, Succeeded, RoomOK
<1>10. CASE /\ remaining >= Len(t) /\ call.fn = "vsnprintf"
            /\ \E limit \in Limits : out' = out \o SubSeq(t, 1, Room(t, limit))
            /\ GoOn
  BY <1>9, <1>10
<1> QED
  BY <1>6, <1>7, <1>8, <1>10 DEF PutText, eof
-----------------------------------------------------------------------------
(* The conversion specification at pos lies within the format.             *)
LEMMA WithinFormat ==
    ASSUME Inv, Iterates
    PROVE  /\ pos <= Len(call.fmt) /\ Char(pos) \in Alphabet /\ Char(pos) = call.fmt[pos]
           /\ Char(pos + 1) # "NUL" => pos + 1 <= Len(call.fmt)
           /\ pos \in Nat \ {0} /\ Len(call.fmt) \in Nat
           /\ call.fmt \in Seq(Alphabet) /\ DOMAIN call.fmt = 1 .. Len(call.fmt)
<1>1. /\ pos \in Nat \ {0} /\ Len(call.fmt) \in Nat /\ call.fmt \in Seq(Alphabet)
      /\ DOMAIN call.fmt = 1 .. Len(call.fmt)
  BY CallFacts DEF Inv, TypeOK
<1>2. Char(pos) # "NUL"
  BY DEF Iterates, Loops
<1>3. pos <= Len(call.fmt) /\ Char(pos) = call.fmt[pos]
  BY <1>1, <1>2 DEF Char
<1>4. Char(pos + 1) # "NUL" => pos + 1 <= Len(call.fmt)
  BY <1>1 DEF Char
<1>5. call.fmt[pos] \in Alphabet
  BY <1>1, <1>3
<1> QED
  BY <1>1, <1>3, <1>4, <1>5

(* A step that leaves pos within the format or just behind it              *)
LEMMA FormatKept ==
    ASSUME call' = call, pos' <= Len(call.fmt) + 1, pc' # "astray",
           pos' \in Nat, Len(call.fmt) \in Nat
    PROVE  FormatOK'
BY DEF FormatOK, Beyond

LEMMA PutsChar ==
    ASSUME Inv, Iterates, NEW c \in Alphabet, PutChar(c), whole' = Append(whole, c),
           call' = call, last' = last, NEW width \in {1, 2}, pos' = pos + width,
           width = 2 => Char(pos + 1) # "NUL"
    PROVE  Inv'
<1>1. Kept
  BY PutCharKeeps
<1>2. pos' \in Nat \ {0} /\ pos' <= Len(call.fmt) + 1 /\ Len(call.fmt) \in Nat
  BY WithinFormat
<1>3. FormatOK'
  BY <1>1, <1>2, FormatKept DEF Kept
<1>4. TypeOK'
  BY <1>1, <1>2 DEF Kept, TypeOK, Inv
<1>5. Sound(last)'
  BY DEF Inv, Sound, DigitsOf, Fits
<1> QED
  BY <1>1, <1>3, <1>4, <1>5 DEF Inv, Kept

LEMMA PutsNumber ==
    ASSUME Inv, Iterates, NEW c, Sound(c), NEW width \in {2, 4}, Number(c, width),
           width = 2 => Char(pos + 1) # "NUL",
           width = 4 => Char(pos) = "%" /\ Char(pos + 1) = "l" /\ pos + 2 <= Len(call.fmt)
    PROVE  Inv'
<1>1. /\ last' = c /\ PutText(c.text) /\ whole' = whole \o c.text
      /\ pos' = pos + width /\ call' = call /\ c.text \in Seq(Alphabet)
  BY DEF Number, Sound, Fits
<1>2. Kept
  BY <1>1, PutTextKeeps
<1>3. /\ pos \in Nat \ {0} /\ pos <= Len(call.fmt) /\ Len(call.fmt) \in Nat
      /\ pos' \in Nat \ {0} /\ DOMAIN call.fmt = 1 .. Len(call.fmt)
  BY <1>1, WithinFormat
<1>4. FormatOK'
  <2>1. CASE width = 2
    BY <1>1, <1>2, <1>3, <2>1, WithinFormat, FormatKept DEF Kept
  <2>2. CASE width = 4
    <3>1. CASE pos' <= Len(call.fmt) + 1
      BY <1>1, <1>2, <1>3, <3>1, FormatKept DEF Kept
    <3>2. CASE pos' > Len(call.fmt) + 1
      <4>1. /\ pos \in DOMAIN call.fmt /\ pos + 3 > Len(call.fmt) /\ pos < Len(call.fmt)
        BY <1>1, <1>3, <2>2, <3>2
      <4>2. call.fmt[pos] = "%" /\ call.fmt[pos + 1] = "l"
        BY <1>3, <2>2, <4>1 DEF Char
      <4>3. LateL'
        BY <1>1, <4>1, <4>2 DEF LateL
      <4> QED
        BY <4>3 DEF FormatOK
    <3> QED
      BY <1>3, <3>1, <3>2
  <2> QED
    BY <2>1, <2>2
<1>5. TypeOK'
  BY <1>1, <1>2, <1>3 DEF Kept, TypeOK, Inv
<1>6. Sound(last)'
  BY <1>1 DEF Sound, DigitsOf, Fits
<1> QED
  BY <1>2, <1>4, <1>5, <1>6 DEF Inv, Kept

LEMMA InitInv == Init => Inv
<1> SUFFICES ASSUME Init PROVE Inv
  OBVIOUS
<1>1. TypeOK
  BY DEF Init, TypeOK
<1>2. call.n \in Nat /\ Len(call.fmt) \in Nat /\ call.fn \in {"vprintf", "vsnprintf", "toa"}
  BY <1>1, CallFacts DEF TypeOK
<1>3. FormatOK
  BY <1>2 DEF Init, FormatOK, Beyond
<1>4. OutOK
  <2>1. out = <<>> /\ whole = <<>> /\ Len(<<>>) = 0
    BY DEF Init
  <2>2. CASE call.fn = "vprintf"
    BY <2>1, <2>2 DEF OutOK, Cut
  <2>3. CASE call.fn = "vsnprintf" /\ call.n > 0
    <3>1. Min({call.n - 1, 0}) = 0
      BY <1>2, <2>3, MinOfTwo
    <3>2. SubSeq(<<>>, 1, 0) = <<>>
      OBVIOUS
    <3> QED
      BY <2>1, <2>3, <3>1, <3>2 DEF OutOK, Cut
  <2>4. CASE ~ Tracked
    BY <2>4 DEF OutOK
  <2>5. Tracked => call.fn = "vprintf" \/ (call.fn = "vsnprintf" /\ call.n > 0)
    BY <1>2, IntMaxIs DEF Tracked
  <2> QED
    BY <2>2, <2>3, <2>4, <2>5
<1>5. OutputRight /\ RoomOK
  BY <1>2, IntMaxIs DEF Init, OutputRight, Succeeded, RoomOK
<1>6. Sound(last)
  BY DEF Init, None, Sound, DigitsOf, Fits
<1> QED
  BY <1>1, <1>3, <1>4, <1>5, <1>6 DEF Inv

(* A step that puts nothing out                                            *)
LEMMA SilentStep ==
    ASSUME Inv, UNCHANGED <<call, pos, out, whole>>, pc' \in {"returned", "astray"},
           ret' \in Int, Sound(last'), OutputRight', pc' = "astray" => LateL
    PROVE  Inv'
<1>1. TypeOK'
  BY DEF Inv, TypeOK
<1>2. FormatOK'
  BY DEF Inv, FormatOK, Beyond, LateL
<1>3. OutOK' /\ RoomOK'
  BY DEF Inv, OutOK, RoomOK, IntMax
<1>4. Sound(last)'
  BY DEF Sound, DigitsOf, Fits
<1> QED
  BY <1>1, <1>2, <1>3, <1>4 DEF Inv

LEMMA NextInv == Inv /\ [Next]_vars => Inv'
<1> SUFFICES ASSUME Inv, [Next]_vars PROVE Inv'
  OBVIOUS
<1>1. /\ "%" \in Alphabet /\ "a" \in Alphabet /\ "EOF" \in Alphabet
      /\ Strings \subseteq Seq(Alphabet)
  BY Characters DEF Alphabet
<1>2. IntBits \in Nat /\ IntBits > 1 /\ LongLongBits \in Nat /\ LongLongBits > 1
  BY PrintfAssumption
<1>3. /\ call.fn \in {"vprintf", "vsnprintf", "toa"} /\ Len(call.fmt) \in Nat
      /\ out \in Seq(Alphabet) /\ Len(out) \in Nat /\ ret \in Int
      /\ pos \in Nat \ {0} /\ Sound(last)
  BY CallFacts DEF Inv, TypeOK
<1>4. CASE Literal
  <2>1. Iterates /\ PutChar(Char(pos)) /\ whole' = Append(whole, Char(pos))
        /\ pos' = pos + 1 /\ call' = call /\ last' = last
    BY <1>4 DEF Literal
  <2>2. Char(pos) \in Alphabet
    BY <2>1, WithinFormat
  <2> QED
    BY <2>1, <2>2, PutsChar
<1>5. CASE EndsInPercent
  <2>1. OutputRight'
    BY <1>5 DEF EndsInPercent, Fail, OutputRight, Succeeded
  <2> QED
    BY <1>3, <1>5, <2>1, SilentStep DEF EndsInPercent, Fail
<1>6. CASE Percent
  <2>1. Iterates /\ PutChar("%") /\ whole' = Append(whole, "%")
        /\ pos' = pos + 2 /\ call' = call /\ last' = last /\ Char(pos + 1) # "NUL"
    BY <1>6 DEF Percent, At, Known
  <2> QED
    BY <1>1, <2>1, PutsChar
<1>7. CASE Character
  <2>1. PICK c \in {"a", "EOF"} : PutChar(c) /\ whole' = Append(whole, c)
    BY <1>7 DEF Character
  <2>2. Iterates /\ pos' = pos + 2 /\ call' = call /\ last' = last /\ Char(pos + 1) # "NUL"
    BY <1>7 DEF Character, At
  <2> QED
    BY <1>1, <2>1, <2>2, PutsChar
<1>8. CASE StringText
  <2>1. PICK t \in Strings : PutText(t) /\ whole' = whole \o t
    BY <1>8 DEF StringText
  <2>2. Iterates /\ pos' = pos + 2 /\ call' = call /\ last' = last /\ Char(pos + 1) # "NUL"
    BY <1>8 DEF StringText, At
  <2>3. Kept
    BY <1>1, <2>1, <2>2, PutTextKeeps
  <2>4. pos' \in Nat \ {0} /\ pos' <= Len(call.fmt) + 1
    BY <1>3, <2>2, WithinFormat
  <2>5. FormatOK'
    BY <1>3, <2>2, <2>3, <2>4, FormatKept DEF Kept
  <2>6. TypeOK'
    BY <2>2, <2>3, <2>4 DEF Kept, TypeOK, Inv
  <2>7. Sound(last)'
    BY <1>3, <2>2 DEF Sound, DigitsOf, Fits
  <2> QED
    BY <2>3, <2>5, <2>6, <2>7 DEF Inv, Kept
<1>9. CASE Decimal
  <2>1. PICK i \in Signed(IntBits) : Number(Converted(i, 10, IntBits, itoa(i, 10)), 2)
    BY <1>9 DEF Decimal
  <2>2. Iterates /\ Char(pos + 1) # "NUL"
    BY <1>9 DEF Decimal, At
  <2>3. Sound(Converted(i, 10, IntBits, itoa(i, 10)))
    BY <1>2, SignedSound
  <2> QED
    BY <2>1, <2>2, <2>3, PutsNumber
<1>10. CASE UnsignedDecimal
  <2>1. PICK i \in Signed(IntBits) :
            Number(Converted(Unsigned(i, IntBits), 10, IntBits, utoa(Unsigned(i, IntBits), 10)), 2)
    BY <1>10 DEF UnsignedDecimal
  <2>2. Iterates /\ Char(pos + 1) # "NUL"
    BY <1>10 DEF UnsignedDecimal, At
  <2> DEFINE u == Unsigned(i, IntBits)
  <2>3. u \in 0 .. Pow2[IntBits] - 1
    BY <1>2, Ranges
  <2> HIDE DEF u
  <2>4. Sound(Converted(u, 10, IntBits, utoa(u, 10)))
    BY <1>2, <2>3, UnsignedSound
  <2> QED
    BY <2>1, <2>2, <2>4, PutsNumber DEF u
<1>11. CASE Hexadecimal
  <2>1. PICK i \in Signed(IntBits) :
            Number(Converted(Unsigned(i, IntBits), 16, IntBits, utoa(Unsigned(i, IntBits), 16)), 2)
    BY <1>11 DEF Hexadecimal
  <2>2. Iterates /\ Char(pos + 1) # "NUL"
    BY <1>11 DEF Hexadecimal, At
  <2> DEFINE u == Unsigned(i, IntBits)
  <2>3. u \in 0 .. Pow2[IntBits] - 1
    BY <1>2, Ranges
  <2> HIDE DEF u
  <2>4. Sound(Converted(u, 16, IntBits, utoa(u, 16)))
    BY <1>2, <2>3, UnsignedSound
  <2> QED
    BY <2>1, <2>2, <2>4, PutsNumber DEF u
<1>12. CASE LongLong
  <2> DEFINE B == LongLongBits
             U(i) == Unsigned(i, B)
             C(i) == CASE Char(pos + 3) \in {"u", "i"} -> Converted(U(i), 10, B, ulltoa(U(i), 10))
                       [] Char(pos + 3) = "x" -> Converted(U(i), 16, B, ulltoa(U(i), 16))
                       [] OTHER -> Converted(i, 10, B, lltoa(i, 10))
  <2>1. PICK i \in Signed(B) : Number(C(i), 4)
    BY <1>12 DEF LongLong
  <2>2. Iterates /\ Char(pos) = "%" /\ Char(pos + 1) = "l" /\ pos + 2 <= Len(call.fmt)
    BY <1>12 DEF LongLong, At
  <2>3. U(i) \in 0 .. Pow2[B] - 1
    BY <1>2, Ranges
  <2> HIDE DEF U
  <2>4. /\ Sound(Converted(U(i), 10, B, ulltoa(U(i), 10)))
        /\ Sound(Converted(U(i), 16, B, ulltoa(U(i), 16)))
    BY <1>2, <2>3, UnsignedSound DEF ulltoa
  <2>5. Sound(Converted(i, 10, B, lltoa(i, 10)))
    BY <1>2, SignedSound DEF lltoa
  <2>6. Sound(C(i))
    BY <2>4, <2>5
  <2> HIDE DEF C
  <2> QED
    BY <2>1, <2>2, <2>6, PutsNumber
<1>13. CASE GoesAstray
  <2>1. LateL
    <3>1. CASE Beyond
      BY <3>1 DEF Inv, FormatOK
    <3>2. CASE At({"l"}) /\ pos + 2 > Len(call.fmt)
      <4>1. /\ Iterates /\ Char(pos) = "%" /\ Char(pos + 1) = "l"
        BY <3>2 DEF At
      <4>2. /\ pos + 1 <= Len(call.fmt) /\ pos \in DOMAIN call.fmt
            /\ call.fmt[pos] = "%"
        BY <1>3, <4>1, WithinFormat
      <4>3. call.fmt[pos + 1] = "l"
        BY <4>1, <4>2 DEF Char
      <4>4. pos + 3 > Len(call.fmt) /\ pos < Len(call.fmt)
        BY <1>3, <3>2, <4>2
      <4> QED
        BY <4>2, <4>3, <4>4 DEF LateL
    <3> QED
      BY <1>13, <3>1, <3>2 DEF GoesAstray
  <2>2. OutputRight'
    BY <1>13 DEF GoesAstray, OutputRight, Succeeded
  <2> QED
    BY <1>3, <1>13, <2>1, <2>2, SilentStep DEF GoesAstray
<1>14. CASE Return
  <2>1. OutputRight'
    BY <1>3, <1>14 DEF Return, Inv, OutOK, Cut, Tracked, OutputRight, Succeeded, Fitting, IntMax
  <2> QED
    BY <1>3, <1>14, <2>1, SilentStep DEF Return
<1>15. CASE Toa
  <2> DEFINE base == call.base
  <2>1. PICK bits \in {IntBits, LongLongBits} : \E i \in Signed(bits) :
            \/ last' = Converted(i, base, bits, ltoa(i, base))
            \/ last' = Converted(Unsigned(i, bits), base, bits, ultoa(Unsigned(i, bits), base))
    BY <1>15 DEF Toa
  <2>2. PICK i \in Signed(bits) :
            \/ last' = Converted(i, base, bits, ltoa(i, base))
            \/ last' = Converted(Unsigned(i, bits), base, bits, ultoa(Unsigned(i, bits), base))
    BY <2>1
  <2> DEFINE u == Unsigned(i, bits)
  <2>3. bits \in Nat /\ bits > 1 /\ base \in Int
    BY <1>2, CallFacts DEF Inv, TypeOK
  <2>0. u \in 0 .. Pow2[bits] - 1
    BY <2>3, Ranges
  <2> HIDE DEF u, base
  <2>4. Sound(Converted(i, base, bits, ltoa(i, base)))
    BY <2>3, SignedSound DEF ltoa
  <2>5. Sound(Converted(u, base, bits, ultoa(u, base)))
    BY <2>0, <2>3, UnsignedSound DEF ultoa
  <2>6. Sound(last')
    BY <2>2, <2>4, <2>5 DEF u
  <2>7. OutputRight'
    BY <1>15 DEF Toa, OutputRight, Succeeded
  <2> QED
    BY <1>3, <1>15, <2>6, <2>7, SilentStep DEF Toa
<1>16. CASE UNCHANGED vars
  <2>1. /\ call' = call /\ pos' = pos /\ out' = out /\ whole' = whole
        /\ pc' = pc /\ ret' = ret /\ last' = last
    BY <1>16 DEF vars
  <2>2. TypeOK' /\ FormatOK' /\ OutOK' /\ RoomOK' /\ OutputRight'
    BY <2>1 DEF Inv, TypeOK, FormatOK, Beyond, LateL, OutOK, Tracked, Cut, RoomOK, IntMax, OutputRight, Succeeded, Fitting
  <2>3. Sound(last)'
    BY <1>3, <2>1 DEF Sound, DigitsOf, Fits
  <2> QED
    BY <2>2, <2>3 DEF Inv
<1> QED
  BY <1>4, <1>5, <1>6, <1>7, <1>8, <1>9, <1>10, <1>11, <1>12, <1>13, <1>14, <1>15, <1>16
     DEF Next

LEMMA Invariant == Spec => []Inv
BY InitInv, NextInv, PTL DEF Spec
-----------------------------------------------------------------------------
(* For any widths of the integers and every base that is passed, the       *)
(* conversions get the digits of every argument right, the least integer   *)
(* and zero included; only the sign of a negative number is in the wrong   *)
(* place, or missing.                                                      *)
THEOREM DigitsAlwaysRight == Spec => []DigitsRight
<1>1. Inv => DigitsRight
  BY DEF Inv, Sound, DigitsOf, DigitsRight
<1> QED
  BY <1>1, Invariant, PTL

(* Every text and its NUL fit the caller's array, vsnprintf never writes   *)
(* more than n characters, and the count of characters does not overflow.  *)
THEOREM BuffersAlwaysKept == Spec => []BuffersKept
<1>1. Inv => BuffersKept
  <2> SUFFICES ASSUME Inv PROVE BuffersKept
    OBVIOUS
  <2>1. Len(last.text) <= last.bits /\ Len(last.text) \in Nat /\ last.bits \in Nat
    BY DEF Inv, Sound, Fits
  <2> QED
    BY <2>1 DEF Inv, RoomOK, BuffersKept
<1> QED
  BY <1>1, Invariant, PTL

(* A call that returns a count has put out the text its format and         *)
(* arguments stand for, cut off where the buffer ends, and counts it, for  *)
(* every size of a buffer from 1 to INT_MAX.                               *)
THEOREM OutputAlwaysRight == Spec => []OutputRight
<1>1. Inv => OutputRight
  BY DEF Inv
<1> QED
  BY <1>1, Invariant, PTL

(* A format is read beyond its NUL only if it ends too soon after a %l.    *)
THEOREM OnlyLGoesAstray == Spec => []AstrayOnlyAfterL
<1>1. Inv => AstrayOnlyAfterL
  BY DEF Inv, FormatOK, LateL, AstrayOnlyAfterL
<1> QED
  BY <1>1, Invariant, PTL
=============================================================================
