---------------------------- MODULE MultestProofs ----------------------------
(***************************************************************************)
(* Proofs about multest and the test programs.                             *)
(*                                                                         *)
(* The multiplications on the CPU's accumulator, for every width of word   *)
(* and accumulator: the instructions compute what the RISC-V manual says,  *)
(* and both programs return the product of their operands, whatever was    *)
(* executed before.                                                        *)
(***************************************************************************)
EXTENDS Comba, Programs, Inductions, SequenceTheorems

-----------------------------------------------------------------------------
(* The numbers of values of a half word, a word and the guard bits.        *)

LEMMA Power2Def ==
  /\ Power2 \in [0..(HalfBits + GuardBits) -> Nat] /\ Power2[0] = 1
  /\ \A n \in 1..(HalfBits + GuardBits) : Power2[n] = 2 * Power2[n - 1]
  /\ \A n \in 0..(HalfBits + GuardBits) : Power2[n] > 0
<1> DEFINE N == HalfBits + GuardBits
           g == [n \in 1..N |-> [x \in Nat |-> 2 * x]]
<1>1. N \in Nat
  BY WidthAssumption
<1> HIDE DEF N
<1>2. g \in [1..N -> [Nat -> Nat]]
  OBVIOUS
<1> HIDE DEF g
<1>3. PICK f \in [0..N -> Nat] : Follows(f, N, 1, g)
  <2>1. 1 \in Nat
    OBVIOUS
  <2> QED
    BY <1>1, <1>2, <2>1, Recursion
<1>4. f[0] = 1 /\ \A i \in 1..N : f[i] = 2 * f[i - 1]
  <2>1. ASSUME NEW i \in 1..N PROVE f[i] = 2 * f[i - 1]
    <3>1. i - 1 \in 0..N
      BY <1>1
    <3>2. f[i - 1] \in Nat
      BY <3>1, <1>3
    <3> QED BY <1>3, <3>2 DEF g, Follows
  <2> QED BY <2>1, <1>3 DEF Follows
<1>5. f = [n \in 0..N |-> IF n = 0 THEN 1 ELSE 2 * f[n - 1]]
  <2>1. \A n \in 0..N : f[n] = IF n = 0 THEN 1 ELSE 2 * f[n - 1]
    <3>1. \A n \in 0..N : n = 0 \/ n \in 1..N
      BY <1>1
    <3> QED BY <1>4, <3>1
  <2> QED BY <1>3, <2>1
<1>6. Power2 = [n \in 0..N |-> IF n = 0 THEN 1 ELSE 2 * Power2[n - 1]]
  BY <1>5, Zenon DEF Power2, N
<1>7. \A n \in 0..N : Power2[n] = IF n = 0 THEN 1 ELSE 2 * Power2[n - 1]
  BY <1>6
<1>8. Power2[0] = 1 /\ \A n \in 1..N : Power2[n] = 2 * Power2[n - 1]
  <2>1. 0 \in 0..N /\ \A n \in 1..N : n \in 0..N /\ n # 0
    BY <1>1
  <2> QED BY <1>7, <2>1
<1> DEFINE T == {n \in 0..N : Power2[n] \in Nat /\ Power2[n] > 0}
<1>9. T = 0..N
  <2>1. 0 \in T
    BY <1>1, <1>8
  <2>2. ASSUME NEW n \in T, n < N PROVE n + 1 \in T
    <3>1. n + 1 \in 1..N /\ n + 1 \in 0..N /\ n + 1 - 1 = n /\ Power2[n] \in Nat /\ Power2[n] > 0
      BY <2>2, <1>1
    <3>2. Power2[n + 1] = 2 * Power2[n]
      BY <1>8, <3>1
    <3> QED BY <3>1, <3>2
  <2>3. T \in SUBSET (0..N)
    OBVIOUS
  <2> HIDE DEF T
  <2> QED BY <2>1, <2>2, <2>3, <1>1, Induction
<1>10. \A n \in 0..N : Power2[n] \in Nat /\ Power2[n] > 0
  BY <1>9
<1> QED
  BY <1>6, <1>8, <1>10 DEF N

LEMMA Widths ==
  /\ H \in Nat /\ H > 1 /\ B \in Nat /\ B = H * H /\ B > 2 /\ B = 2 * (B \div 2) /\ B \div 2 \in Nat
  /\ Guard \in Nat /\ Guard >= 4 /\ Word \subseteq Nat
<1>1. HalfBits \in 1..(HalfBits + GuardBits) /\ HalfBits - 1 \in 0..(HalfBits + GuardBits)
      /\ GuardBits \in 0..(HalfBits + GuardBits) /\ HalfBits \in 0..(HalfBits + GuardBits)
  BY WidthAssumption
<1> DEFINE h == Power2[HalfBits - 1]
<1>2. h \in Nat /\ h > 0 /\ H = 2 * h
  BY <1>1, Power2Def DEF H
<1> HIDE DEF h
<1>3. H * H = 2 * (h * H) /\ h * H \in Nat /\ h * H > 1
  BY <1>2
<1>4. B = 2 * (h * H)
  BY <1>3 DEF B
<1>5. B \div 2 = h * H
  BY <1>3, <1>4
<1>6. Guard \in Nat /\ Guard >= 4
  BY <1>1, Power2Def, WidthAssumption DEF Guard, SIZE
<1> QED
  BY <1>2, <1>3, <1>4, <1>5, <1>6 DEF B, Word

-----------------------------------------------------------------------------
(* Products.                                                               *)

(* The quotient of a product of two digits and its base.                   *)
LEMMA LessProduct ==
  ASSUME NEW m \in Nat, NEW n \in Nat, NEW p \in Nat, NEW q \in Nat, m < p, n < q
  PROVE  m * n < p * q
<1>1. m * n <= m * q
  OBVIOUS
<1>2. m * q < p * q
  <2>1. m + 1 <= p
    OBVIOUS
  <2>2. (m + 1) * q <= p * q
    BY <2>1
  <2>3. (m + 1) * q = m * q + q
    OBVIOUS
  <2> QED BY <2>2, <2>3
<1> QED
  BY <1>1, <1>2

LEMMA Cancel ==
  ASSUME NEW m \in Int, NEW n \in Int, NEW h \in Nat, h > 0, m * h < n * h
  PROVE  m < n
<1> SUFFICES ASSUME m >= n PROVE FALSE
  OBVIOUS
<1>1. m * h >= n * h
  OBVIOUS
<1> QED
  BY <1>1

LEMMA SmallMod ==
  ASSUME NEW x \in Nat, NEW n \in Nat, x < n
  PROVE  x % n = x
OBVIOUS

LEMMA HalfProducts ==
  ASSUME NEW h \in Nat, NEW xh \in Nat, NEW xl \in Nat, NEW yh \in Nat, NEW yl \in Nat
  PROVE  (h * xh + xl) * (h * yh + yl) = ((xh * yh) * h + (xl * yh + xh * yl)) * h + xl * yl
<1>1. (h * xh + xl) * (h * yh + yl) = (h * xh) * (h * yh) + (h * xh) * yl + xl * (h * yh) + xl * yl
  OBVIOUS
<1>2. (h * xh) * (h * yh) = ((xh * yh) * h) * h
  OBVIOUS
<1>3. (h * xh) * yl = (xh * yl) * h /\ xl * (h * yh) = (xl * yh) * h
  OBVIOUS
<1>4. ((xh * yh) * h + (xl * yh + xh * yl)) * h = ((xh * yh) * h) * h + (xl * yh) * h + (xh * yl) * h
  OBVIOUS
<1> QED
  BY <1>1, <1>2, <1>3, <1>4

(* The four products of halves make up the product: the middle sum fits    *)
(* its width, and so does the rest.                                        *)
LEMMA ProductIs ==
  ASSUME NEW x \in Word, NEW y \in Word
  PROVE  Product(x, y) = x * y
<1>1. H \in Nat /\ H > 0 /\ B \in Nat /\ B = H * H /\ x \in Nat /\ y \in Nat /\ x < H * H /\ y < H * H
  BY Widths DEF Word
<1> DEFINE xh == x \div H  xl == x % H  yh == y \div H  yl == y % H
           ll == xl * yl  lh == xl * yh  hl == xh * yl  hh == xh * yh
           u == ll \div H  v == ll % H
<1>2. x = H * xh + xl /\ xl \in 0..(H - 1) /\ xh \in Int
  BY <1>1, DivMod
<1>3. y = H * yh + yl /\ yl \in 0..(H - 1) /\ yh \in Int
  BY <1>1, DivMod
<1> HIDE DEF xh, xl, yh, yl
<1>4. ASSUME NEW z \in Int, NEW w \in 0..(H - 1), H * z + w >= 0, H * z + w < H * H
      PROVE  z \in 0..(H - 1)
  <2>1. z >= 0
    <3> SUFFICES ASSUME z <= -1 PROVE FALSE
      OBVIOUS
    <3>1. H * z <= -H
      BY <1>1
    <3> QED BY <3>1, <1>1, <1>4
  <2>2. z < H
    <3> SUFFICES ASSUME z >= H PROVE FALSE
      BY <1>1
    <3>1. H * z >= H * H
      BY <1>1
    <3> QED BY <3>1, <1>1, <1>4
  <2> QED BY <2>1, <2>2, <1>1
<1>5. xh \in 0..(H - 1) /\ yh \in 0..(H - 1)
  BY <1>1, <1>2, <1>3, <1>4
<1>6. xh \in Nat /\ xl \in Nat /\ yh \in Nat /\ yl \in Nat /\ xh < H /\ xl < H /\ yh < H /\ yl < H
  BY <1>1, <1>2, <1>3, <1>5
<1>7. ll \in Nat /\ lh \in Nat /\ hl \in Nat /\ hh \in Nat /\ lh < B /\ hl < B
  BY <1>1, <1>6, LessProduct
<1>8. x * y = (hh * H + (lh + hl)) * H + ll
  BY <1>1, <1>2, <1>3, <1>6, HalfProducts
<1>9. x * y < B * B
  BY <1>1, LessProduct
<1> HIDE DEF ll, lh, hl, hh
<1>10. Middle(lh, hl) = lh + hl
  BY <1>1, <1>7 DEF Middle
<1>11. ll = H * u + v /\ v \in 0..(H - 1) /\ u \in Int
  BY <1>1, <1>7, DivMod
<1>12. u >= 0
  BY <1>1, <1>7, <1>11
<1> HIDE DEF u, v
<1> DEFINE i == hh * H + u + (lh + hl)
<1>13. hh * H \in Nat /\ i \in Nat
  BY <1>1, <1>7, <1>11, <1>12
<1>14. x * y = i * H + v
  <2>1. (hh * H + (lh + hl)) * H + u * H = i * H
    BY <1>1, <1>7, <1>11, <1>12, <1>13
  <2>2. u * H = H * u /\ (hh * H + (lh + hl)) * H \in Int /\ u * H \in Int /\ v \in Int
    BY <1>1, <1>7, <1>11
  <2> QED
    BY <1>8, <1>11, <1>13, <2>1, <2>2
<1> HIDE DEF i
<1>15. i < B * H
  <2>1. i * H < (B * H) * H
    <3>1. (B * H) * H = B * B
      BY <1>1
    <3>2. i * H \in Nat
      BY <1>13, <1>1
    <3> QED BY <3>1, <3>2, <1>9, <1>11, <1>14, <1>1
  <2> QED
    BY <2>1, <1>1, <1>13, Cancel
<1>16. i % (B * H) = i
  BY <1>1, <1>13, <1>15, SmallMod
<1>17. Product(x, y) = (i % (B * H)) * H + v
  BY <1>10 DEF Product, i, u, v, ll, lh, hl, hh, xh, xl, yh, yl
<1> QED
  BY <1>14, <1>16, <1>17

LEMMA ModPlus ==
  ASSUME NEW n \in Nat, n > 0, NEW z \in Int, NEW k \in Int
  PROVE  (z + n * k) % n = z % n
<1> DEFINE q == z \div n  r == z % n
<1>1. z = n * q + r /\ r \in 0..(n - 1) /\ q \in Int
  BY DivMod
<1> HIDE DEF q, r
<1>2. z + n * k = n * (q + k) + r
  BY <1>1
<1>3. (n * (q + k) + r) % n = r
  BY <1>1, DivUnique
<1> QED
  BY <1>2, <1>3 DEF r

(* The signed products differ from the unsigned one by multiples of B.     *)
LEMMA SignedHigh ==
  ASSUME NEW x \in Word, NEW y \in Word, NEW s \in {0, 1}, NEW t \in {0, 1}
  PROVE  LET hi == (x * y) \div B
             word == ((x - s * B) * (y - t * B)) \div B
         IN (hi + Not(s * y) + (Not(t * x) + 2)) % B = word % B
<1> DEFINE hi == (x * y) \div B  lo == (x * y) % B
           k == s * t
           m == hi - s * y - t * x
<1>1. B \in Nat /\ B > 0 /\ x \in Nat /\ y \in Nat
  BY Widths DEF Word
<1>2. x * y \in Nat /\ s * y \in Nat /\ t * x \in Nat /\ k \in Nat
  BY <1>1
<1>3. x * y = B * hi + lo /\ lo \in 0..(B - 1) /\ hi \in Int
  BY <1>1, <1>2, DivMod
<1> HIDE DEF hi, lo, k
<1>4. m \in Int
  BY <1>1, <1>3
<1>5. (x - s * B) * (y - t * B) = B * (m + B * k) + lo
  <2>1. (x - s * B) * (y - t * B) = x * y - x * (t * B) - (s * B) * y + (s * B) * (t * B)
    BY <1>1
  <2>2. x * (t * B) = B * (t * x) /\ (s * B) * y = B * (s * y) /\ (s * B) * (t * B) = B * (B * k)
    BY <1>1 DEF k
  <2>3. B * (m + B * k) = B * hi - B * (s * y) - B * (t * x) + B * (B * k)
    BY <1>1, <1>2, <1>3
  <2>4. /\ x * y \in Int /\ B * hi \in Int /\ B * (t * x) \in Int /\ B * (s * y) \in Int
        /\ B * (B * k) \in Int /\ lo \in Int
    BY <1>1, <1>2, <1>3
  <2> QED BY <1>3, <2>1, <2>2, <2>3, <2>4
<1>6. ((x - s * B) * (y - t * B)) \div B = m + B * k
  <2>1. m + B * k \in Int
    BY <1>1, <1>2, <1>4
  <2> QED BY <1>1, <1>3, <1>5, <2>1, DivUnique
<1>7. (m + B * k) % B = m % B
  <2> HIDE DEF m
  <2>1. k \in Int
    BY <1>2
  <2> HIDE DEF k
  <2> QED BY <1>1, <1>4, <2>1, ModPlus
<1>8. hi + Not(s * y) + (Not(t * x) + 2) = m + B * 2
  BY <1>1, <1>2, <1>3 DEF Not
<1>9. (m + B * 2) % B = m % B
  <2> HIDE DEF m
  <2>1. 2 \in Int
    OBVIOUS
  <2> QED BY <1>1, <1>4, <2>1, ModPlus
<1> QED
  BY <1>6, <1>7, <1>8, <1>9 DEF hi

LEMMA HighWordIs ==
  ASSUME NEW x \in Word, NEW y \in Word
  PROVE  /\ HighWord("MULH", x, y) = ((Signed(x) * Signed(y)) \div B) % B
         /\ HighWord("MULHSU", x, y) = ((Signed(x) * y) \div B) % B
         /\ HighWord("MULHU", x, y) = ((x * y) \div B) % B
<1> DEFINE s == IF Msb(x) THEN 1 ELSE 0
           t == IF Msb(y) THEN 1 ELSE 0
           H2(m, n) == ((x * y) \div B + Not(m * y) + (Not(n * x) + 2)) % B
<1>1. x \in Nat /\ y \in Nat /\ B \in Nat /\ B \div 2 \in Nat
  BY Widths DEF Word
<1>2. Signed(x) = x - s * B /\ Signed(y) = y - t * B /\ y = y - 0 * B /\ x = x - 0 * B
  BY <1>1 DEF Signed, Msb
<1>3. s \in {0, 1} /\ t \in {0, 1}
  OBVIOUS
<1>4. (IF Msb(x) THEN y ELSE 0) = s * y /\ (IF Msb(y) THEN x ELSE 0) = t * x /\ 0 * x = 0 /\ 0 * y = 0
  BY <1>1
<1> HIDE DEF s, t
<1>5. HighWord("MULH", x, y) = H2(s, t)
  BY <1>4, ProductIs DEF HighWord
<1>6. HighWord("MULHSU", x, y) = H2(s, 0)
  BY <1>4, ProductIs DEF HighWord
<1>7. HighWord("MULHU", x, y) = H2(0, 0)
  BY <1>4, ProductIs DEF HighWord
<1>8. H2(s, t) = (((x - s * B) * (y - t * B)) \div B) % B
  BY <1>3, SignedHigh
<1>9. H2(s, 0) = (((x - s * B) * (y - 0 * B)) \div B) % B
  BY <1>3, SignedHigh
<1>10. H2(0, 0) = (((x - 0 * B) * (y - 0 * B)) \div B) % B
  BY <1>3, SignedHigh
<1> HIDE DEF H2
<1> QED
  BY <1>2, <1>5, <1>6, <1>7, <1>8, <1>9, <1>10

(* Karatsuba's three products, for any width.                              *)
Karatsuba(xh, xl, yh, yl) ==
  IF (xl - xh < 0) # (yh - yl < 0)
  THEN xh * yh + xl * yl - Abs(xl - xh) * Abs(yh - yl)
  ELSE xh * yh + xl * yl + Abs(xl - xh) * Abs(yh - yl)

LEMMA MiddleProducts ==
  ASSUME NEW xh \in Nat, NEW xl \in Nat, NEW yh \in Nat, NEW yl \in Nat
  PROVE  Karatsuba(xh, xl, yh, yl) = xl * yh + xh * yl
<1> DEFINE p == xl - xh  q == yh - yl
<1>1. p \in Int /\ q \in Int
  OBVIOUS
<1>2. p * q = xl * yh - xl * yl - xh * yh + xh * yl
  OBVIOUS
<1>3. xl * yh \in Int /\ xl * yl \in Int /\ xh * yh \in Int /\ xh * yl \in Int
  OBVIOUS
<1> HIDE DEF p, q
<1>4. /\ ((p < 0) # (q < 0)) => Abs(p) * Abs(q) = -(p * q)
      /\ ~((p < 0) # (q < 0)) => Abs(p) * Abs(q) = p * q
  BY <1>1 DEF Abs
<1> DEFINE r == Abs(p) * Abs(q)
<1> HIDE DEF r
<1>5. /\ ((p < 0) # (q < 0)) => xh * yh + xl * yl - r = xl * yh + xh * yl
      /\ ~((p < 0) # (q < 0)) => xh * yh + xl * yl + r = xl * yh + xh * yl
  BY <1>2, <1>3, <1>4 DEF r
<1> QED
  BY <1>5 DEF r, p, q, Karatsuba

LEMMA KaraMultIs ==
  ASSUME NEW half \in Nat, half > 0, NEW x \in 0..(half * half - 1), NEW y \in 0..(half * half - 1)
  PROVE  KaraMult(half, x, y) = x * y
<1> DEFINE xh == x \div half  xl == x % half  yh == y \div half  yl == y % half
<1>1. half * half \in Nat /\ x \in Nat /\ y \in Nat /\ x < half * half /\ y < half * half
  OBVIOUS
<1>2. x = half * xh + xl /\ xl \in 0..(half - 1) /\ xh \in Int
  BY <1>1, DivMod
<1>3. y = half * yh + yl /\ yl \in 0..(half - 1) /\ yh \in Int
  BY <1>1, DivMod
<1>4. xh \in Nat /\ yh \in Nat
  BY <1>1
<1>5. xh < half /\ yh < half
  <2> HIDE DEF xh, xl, yh, yl
  <2>1. ASSUME NEW z \in Nat, NEW w \in Nat, half * z + w < half * half PROVE z < half
    <3>1. z * half < half * half
      <4>1. z * half = half * z /\ half * z \in Nat
        OBVIOUS
      <4> QED BY <2>1, <4>1
    <3> QED BY <3>1, Cancel
  <2> QED BY <1>1, <1>2, <1>3, <1>4, <2>1
<1> HIDE DEF xh, xl, yh, yl
<1> DEFINE rh == xh * yh  rl == xl * yl  mid == xl * yh + xh * yl  hs == half * half
           rm == Abs(xl - xh) * Abs(yh - yl)
           differ == (xl - xh < 0) # (yh - yl < 0)
<1>6. xl \in Nat /\ yl \in Nat /\ xl < half /\ yl < half
  BY <1>2, <1>3
<1>7. rh \in Nat /\ rl \in Nat /\ mid \in Nat /\ hs \in Nat
  BY <1>4, <1>6
<1>8. mid < 2 * hs
  <2>1. xl * yh < hs /\ xh * yl < hs
    BY <1>4, <1>5, <1>6, LessProduct
  <2>2. xl * yh \in Nat /\ xh * yl \in Nat
    BY <1>4, <1>6
  <2> HIDE DEF hs
  <2> QED BY <2>1, <2>2, <1>7
<1>9. x * y = (rh * half + mid) * half + rl
  BY <1>2, <1>3, <1>4, <1>6, HalfProducts
<1>10. x * y < hs * hs
  BY <1>1, LessProduct
<1>11. (rh * half + mid) * half + rl = rh * hs + mid * half + rl
  <2> HIDE DEF mid, rl, rh
  <2>1. (rh * half + mid) * half = (rh * half) * half + mid * half
    BY <1>7
  <2>2. (rh * half) * half = rh * hs
    BY <1>7
  <2> QED BY <1>7, <2>1, <2>2
<1>12. (IF differ THEN rh + rl - rm ELSE rh + rl + rm) = mid
  <2>1. Karatsuba(xh, xl, yh, yl) = mid
    BY <1>4, <1>6, MiddleProducts
  <2> QED BY <2>1, Zenon DEF Karatsuba
<1>13. mid % (2 * hs) = mid
  <2>1. 2 * hs \in Nat
    BY <1>7
  <2> HIDE DEF mid, hs
  <2> QED BY <2>1, <1>7, <1>8, SmallMod
<1>14. (x * y) % (hs * hs) = x * y
  <2>1. x * y \in Nat /\ hs * hs \in Nat
    BY <1>1, <1>7
  <2> QED BY <2>1, <1>10, SmallMod
<1>15. KaraMult(half, x, y) =
         (rh * hs + (IF differ THEN (rh + rl - rm) % (2 * hs) ELSE rh + rl + rm) * half + rl) % (hs * hs)
  BY Zenon DEF KaraMult, xh, xl, yh, yl
<1> HIDE DEF differ, rm, rh, rl, mid, hs
<1>16. (IF differ THEN (rh + rl - rm) % (2 * hs) ELSE rh + rl + rm) = mid
  BY <1>12, <1>13
<1> QED
  BY <1>9, <1>11, <1>14, <1>15, <1>16

-----------------------------------------------------------------------------
(* The programs, column by column.                                         *)

Instructions ==
  {Clear} \cup {Mul(i, j) : i \in Rows, j \in Rows} \cup {Store(k) : k \in Columns}

(* Where a program multiplies two words, and where it stores a column.     *)
PlaceOfMul(p) ==
  IF p = "main"
  THEN <<<<2, 4, 7, 11>>, <<5, 8, 12, 16>>, <<9, 13, 17, 20>>, <<14, 18, 21, 23>>>>
  ELSE <<<<3, 6, 8, 12>>, <<5, 9, 13, 17>>, <<10, 14, 18, 21>>, <<15, 19, 22, 24>>>>
MulAt(p, i, j) == PlaceOfMul(p)[i + 1][j + 1]
StoreAt(p, k) ==
  (IF p = "main" THEN <<3, 6, 10, 15, 19, 22, 24, 25>> ELSE <<4, 7, 11, 16, 20, 23, 25, 26>>)[k + 1]

Places(p) ==
  /\ \A i, j \in Rows :
       /\ MulAt(p, i, j) \in (ClearedWords[p] + 1)..Len(Programs[p])
       /\ Programs[p][MulAt(p, i, j)] = Mul(i, j)
  /\ \A k \in Columns :
       /\ StoreAt(p, k) \in (ClearedWords[p] + 1)..Len(Programs[p])
       /\ Programs[p][StoreAt(p, k)] = Store(k)
NothingElse(p) ==
  /\ ClearedWords[p] \in {1, 2} /\ Len(Programs[p]) \in Nat /\ Len(Programs[p]) = StoreAt(p, 7)
  /\ \A n \in 1..Len(Programs[p]) :
       \/ n <= ClearedWords[p] /\ Programs[p][n] = Clear
       \/ \E i, j \in Rows : n = MulAt(p, i, j)
       \/ \E k \in Columns : n = StoreAt(p, k)
InOrder(p) ==
  /\ \A i, j \in Rows :
       /\ MulAt(p, i, j) < StoreAt(p, i + j)
       /\ \A k \in Columns : k < i + j => StoreAt(p, k) < MulAt(p, i, j)
  /\ \A k, m \in Columns : k < m => StoreAt(p, k) < StoreAt(p, m)
  /\ \A i, j, k, m \in Rows : MulAt(p, i, j) = MulAt(p, k, m) => i = k /\ j = m

LEMMA FunctionIsSeq ==
  ASSUME NEW S, NEW n \in Nat, NEW f \in [1..n -> S]
  PROVE  f \in Seq(S)
OBVIOUS

Joins(u, S, s, t, m, n) ==
  /\ u \in Seq(S) /\ Len(u) = m + n
  /\ \A i \in 1..m : u[i] = s[i]
  /\ \A i \in 1..n : u[m + i] = t[i]
LEMMA Concat ==
  ASSUME NEW S, NEW s \in Seq(S), NEW t \in Seq(S), NEW m \in Nat, NEW n \in Nat, Len(s) = m, Len(t) = n
  PROVE  Joins(s \o t, S, s, t, m, n)
BY DEF Joins

LEMMA InstructionsAre ==
  /\ Clear \in Instructions /\ \A k \in Columns : Store(k) \in Instructions
  /\ \A i, j \in Rows : Mul(i, j) \in Instructions
BY DEF Instructions

LEMMA ColumnsAre ==
  /\ Len(Column(0)) = 2 /\ Column(0) \in Seq(Instructions)
  /\ Column(0)[1] = Mul(0, 0) /\ Column(0)[2] = Store(0)
  /\ Len(Column(1)) = 3 /\ Column(1) \in Seq(Instructions)
  /\ Column(1)[1] = Mul(0, 1) /\ Column(1)[2] = Mul(1, 0)
  /\ Column(1)[3] = Store(1)
  /\ Len(Column(2)) = 4 /\ Column(2) \in Seq(Instructions)
  /\ Column(2)[1] = Mul(0, 2) /\ Column(2)[2] = Mul(1, 1)
  /\ Column(2)[3] = Mul(2, 0) /\ Column(2)[4] = Store(2)
  /\ Len(Column(3)) = 5 /\ Column(3) \in Seq(Instructions)
  /\ Column(3)[1] = Mul(0, 3) /\ Column(3)[2] = Mul(1, 2)
  /\ Column(3)[3] = Mul(2, 1) /\ Column(3)[4] = Mul(3, 0)
  /\ Column(3)[5] = Store(3)
  /\ Len(Column(4)) = 4 /\ Column(4) \in Seq(Instructions)
  /\ Column(4)[1] = Mul(1, 3) /\ Column(4)[2] = Mul(2, 2)
  /\ Column(4)[3] = Mul(3, 1) /\ Column(4)[4] = Store(4)
  /\ Len(Column(5)) = 3 /\ Column(5) \in Seq(Instructions)
  /\ Column(5)[1] = Mul(2, 3) /\ Column(5)[2] = Mul(3, 2)
  /\ Column(5)[3] = Store(5)
  /\ Len(Column(6)) = 2 /\ Column(6) \in Seq(Instructions)
  /\ Column(6)[1] = Mul(3, 3) /\ Column(6)[2] = Store(6)
  /\ Len(Column(7)) = 1 /\ Column(7) \in Seq(Instructions)
  /\ Column(7)[1] = Store(7)
<1>0. /\ Len(Column(0)) = 2 /\ Column(0) \in Seq(Instructions)
       /\ Column(0)[1] = Mul(0, 0) /\ Column(0)[2] = Store(0)
  <2>1. \A n \in 1..2 : Column(0)[n] \in Instructions
    BY InstructionsAre DEF Column, SIZE, Rows, Columns
  <2>2. Column(0) = [n \in 1..2 |-> Column(0)[n]]
    BY DEF Column, SIZE
  <2>3. Column(0) \in [1..2 -> Instructions] /\ 2 \in Nat
    BY <2>1, <2>2
  <2>4. Column(0) \in Seq(Instructions)
    BY <2>3, FunctionIsSeq
  <2> QED
    BY <2>4 DEF Column, SIZE
<1>1. /\ Len(Column(1)) = 3 /\ Column(1) \in Seq(Instructions)
       /\ Column(1)[1] = Mul(0, 1) /\ Column(1)[2] = Mul(1, 0)
       /\ Column(1)[3] = Store(1)
  <2>1. \A n \in 1..3 : Column(1)[n] \in Instructions
    BY InstructionsAre DEF Column, SIZE, Rows, Columns
  <2>2. Column(1) = [n \in 1..3 |-> Column(1)[n]]
    BY DEF Column, SIZE
  <2>3. Column(1) \in [1..3 -> Instructions] /\ 3 \in Nat
    BY <2>1, <2>2
  <2>4. Column(1) \in Seq(Instructions)
    BY <2>3, FunctionIsSeq
  <2> QED
    BY <2>4 DEF Column, SIZE
<1>2. /\ Len(Column(2)) = 4 /\ Column(2) \in Seq(Instructions)
       /\ Column(2)[1] = Mul(0, 2) /\ Column(2)[2] = Mul(1, 1)
       /\ Column(2)[3] = Mul(2, 0) /\ Column(2)[4] = Store(2)
  <2>1. \A n \in 1..4 : Column(2)[n] \in Instructions
    BY InstructionsAre DEF Column, SIZE, Rows, Columns
  <2>2. Column(2) = [n \in 1..4 |-> Column(2)[n]]
    BY DEF Column, SIZE
  <2>3. Column(2) \in [1..4 -> Instructions] /\ 4 \in Nat
    BY <2>1, <2>2
  <2>4. Column(2) \in Seq(Instructions)
    BY <2>3, FunctionIsSeq
  <2> QED
    BY <2>4 DEF Column, SIZE
<1>3. /\ Len(Column(3)) = 5 /\ Column(3) \in Seq(Instructions)
       /\ Column(3)[1] = Mul(0, 3) /\ Column(3)[2] = Mul(1, 2)
       /\ Column(3)[3] = Mul(2, 1) /\ Column(3)[4] = Mul(3, 0)
       /\ Column(3)[5] = Store(3)
  <2>1. \A n \in 1..5 : Column(3)[n] \in Instructions
    BY InstructionsAre DEF Column, SIZE, Rows, Columns
  <2>2. Column(3) = [n \in 1..5 |-> Column(3)[n]]
    BY DEF Column, SIZE
  <2>3. Column(3) \in [1..5 -> Instructions] /\ 5 \in Nat
    BY <2>1, <2>2
  <2>4. Column(3) \in Seq(Instructions)
    BY <2>3, FunctionIsSeq
  <2> QED
    BY <2>4 DEF Column, SIZE
<1>4. /\ Len(Column(4)) = 4 /\ Column(4) \in Seq(Instructions)
       /\ Column(4)[1] = Mul(1, 3) /\ Column(4)[2] = Mul(2, 2)
       /\ Column(4)[3] = Mul(3, 1) /\ Column(4)[4] = Store(4)
  <2>1. \A n \in 1..4 : Column(4)[n] \in Instructions
    BY InstructionsAre DEF Column, SIZE, Rows, Columns
  <2>2. Column(4) = [n \in 1..4 |-> Column(4)[n]]
    BY DEF Column, SIZE
  <2>3. Column(4) \in [1..4 -> Instructions] /\ 4 \in Nat
    BY <2>1, <2>2
  <2>4. Column(4) \in Seq(Instructions)
    BY <2>3, FunctionIsSeq
  <2> QED
    BY <2>4 DEF Column, SIZE
<1>5. /\ Len(Column(5)) = 3 /\ Column(5) \in Seq(Instructions)
       /\ Column(5)[1] = Mul(2, 3) /\ Column(5)[2] = Mul(3, 2)
       /\ Column(5)[3] = Store(5)
  <2>1. \A n \in 1..3 : Column(5)[n] \in Instructions
    BY InstructionsAre DEF Column, SIZE, Rows, Columns
  <2>2. Column(5) = [n \in 1..3 |-> Column(5)[n]]
    BY DEF Column, SIZE
  <2>3. Column(5) \in [1..3 -> Instructions] /\ 3 \in Nat
    BY <2>1, <2>2
  <2>4. Column(5) \in Seq(Instructions)
    BY <2>3, FunctionIsSeq
  <2> QED
    BY <2>4 DEF Column, SIZE
<1>6. /\ Len(Column(6)) = 2 /\ Column(6) \in Seq(Instructions)
       /\ Column(6)[1] = Mul(3, 3) /\ Column(6)[2] = Store(6)
  <2>1. \A n \in 1..2 : Column(6)[n] \in Instructions
    BY InstructionsAre DEF Column, SIZE, Rows, Columns
  <2>2. Column(6) = [n \in 1..2 |-> Column(6)[n]]
    BY DEF Column, SIZE
  <2>3. Column(6) \in [1..2 -> Instructions] /\ 2 \in Nat
    BY <2>1, <2>2
  <2>4. Column(6) \in Seq(Instructions)
    BY <2>3, FunctionIsSeq
  <2> QED
    BY <2>4 DEF Column, SIZE
<1>7. /\ Len(Column(7)) = 1 /\ Column(7) \in Seq(Instructions)
       /\ Column(7)[1] = Store(7)
  <2>1. \A n \in 1..1 : Column(7)[n] \in Instructions
    BY InstructionsAre DEF Column, SIZE, Rows, Columns
  <2>2. Column(7) = [n \in 1..1 |-> Column(7)[n]]
    BY DEF Column, SIZE
  <2>3. Column(7) \in [1..1 -> Instructions] /\ 1 \in Nat
    BY <2>1, <2>2
  <2>4. Column(7) \in Seq(Instructions)
    BY <2>3, FunctionIsSeq
  <2> QED
    BY <2>4 DEF Column, SIZE
<1> QED
  BY <1>0, <1>1, <1>2, <1>3, <1>4, <1>5, <1>6, <1>7

LEMMA UnrolledIs ==
  /\ Len(MulComba) = 26 /\ MulComba[1] = Clear /\ MulComba[2] = Clear
  /\ MulComba[3] = Mul(0, 0) /\ MulComba[4] = Store(0) /\ MulComba[5] = Mul(1, 0)
  /\ MulComba[6] = Mul(0, 1) /\ MulComba[7] = Store(1) /\ MulComba[8] = Mul(0, 2)
  /\ MulComba[9] = Mul(1, 1) /\ MulComba[10] = Mul(2, 0) /\ MulComba[11] = Store(2)
  /\ MulComba[12] = Mul(0, 3) /\ MulComba[13] = Mul(1, 2) /\ MulComba[14] = Mul(2, 1)
  /\ MulComba[15] = Mul(3, 0) /\ MulComba[16] = Store(3) /\ MulComba[17] = Mul(1, 3)
  /\ MulComba[18] = Mul(2, 2) /\ MulComba[19] = Mul(3, 1) /\ MulComba[20] = Store(4)
  /\ MulComba[21] = Mul(2, 3) /\ MulComba[22] = Mul(3, 2) /\ MulComba[23] = Store(5)
  /\ MulComba[24] = Mul(3, 3) /\ MulComba[25] = Store(6) /\ MulComba[26] = Store(7)
<1>1. Unrolled \in Seq(Instructions) /\ Len(Unrolled) = 24
  <2>1. \A n \in 1..24 : Unrolled[n] \in Instructions
    BY InstructionsAre DEF Unrolled, Rows, Columns, SIZE
  <2>2. Unrolled = [n \in 1..24 |-> Unrolled[n]]
    BY DEF Unrolled
  <2>3. Unrolled \in [1..24 -> Instructions] /\ 24 \in Nat
    BY <2>1, <2>2
  <2> QED
    BY <2>3, FunctionIsSeq DEF Unrolled
<1>2. <<Clear, Clear>> \in Seq(Instructions) /\ Len(<<Clear, Clear>>) = 2
  BY InstructionsAre
<1>3. /\ Len(MulComba) = 26 /\ \A n \in 1..2 : MulComba[n] = <<Clear, Clear>>[n]
      /\ \A n \in 1..24 : MulComba[2 + n] = Unrolled[n]
  <2> HIDE DEF Unrolled
  <2>1. 2 \in Nat /\ 24 \in Nat /\ 2 + 24 = 26
    OBVIOUS
  <2>2. Joins(<<Clear, Clear>> \o Unrolled, Instructions, <<Clear, Clear>>, Unrolled, 2, 24)
    BY <1>1, <1>2, <2>1, Concat
  <2> QED
    BY <2>1, <2>2 DEF MulComba, Joins
<1>4. /\ Unrolled[1] = Mul(0, 0) /\ Unrolled[2] = Store(0) /\ Unrolled[3] = Mul(1, 0)
      /\ Unrolled[4] = Mul(0, 1) /\ Unrolled[5] = Store(1) /\ Unrolled[6] = Mul(0, 2)
      /\ Unrolled[7] = Mul(1, 1) /\ Unrolled[8] = Mul(2, 0) /\ Unrolled[9] = Store(2)
      /\ Unrolled[10] = Mul(0, 3) /\ Unrolled[11] = Mul(1, 2) /\ Unrolled[12] = Mul(2, 1)
      /\ Unrolled[13] = Mul(3, 0) /\ Unrolled[14] = Store(3) /\ Unrolled[15] = Mul(1, 3)
      /\ Unrolled[16] = Mul(2, 2) /\ Unrolled[17] = Mul(3, 1) /\ Unrolled[18] = Store(4)
      /\ Unrolled[19] = Mul(2, 3) /\ Unrolled[20] = Mul(3, 2) /\ Unrolled[21] = Store(5)
      /\ Unrolled[22] = Mul(3, 3) /\ Unrolled[23] = Store(6) /\ Unrolled[24] = Store(7)
  BY DEF Unrolled
<1>5. ASSUME NEW n \in 1..24, NEW u, Unrolled[n] = u PROVE MulComba[2 + n] = u
  BY <1>3, <1>5
<1>6. /\ MulComba[3] = Mul(0, 0) /\ MulComba[4] = Store(0) /\ MulComba[5] = Mul(1, 0)
      /\ MulComba[6] = Mul(0, 1) /\ MulComba[7] = Store(1) /\ MulComba[8] = Mul(0, 2)
      /\ MulComba[9] = Mul(1, 1) /\ MulComba[10] = Mul(2, 0) /\ MulComba[11] = Store(2)
      /\ MulComba[12] = Mul(0, 3) /\ MulComba[13] = Mul(1, 2) /\ MulComba[14] = Mul(2, 1)
      /\ MulComba[15] = Mul(3, 0) /\ MulComba[16] = Store(3) /\ MulComba[17] = Mul(1, 3)
      /\ MulComba[18] = Mul(2, 2) /\ MulComba[19] = Mul(3, 1) /\ MulComba[20] = Store(4)
      /\ MulComba[21] = Mul(2, 3) /\ MulComba[22] = Mul(3, 2) /\ MulComba[23] = Store(5)
      /\ MulComba[24] = Mul(3, 3) /\ MulComba[25] = Store(6) /\ MulComba[26] = Store(7)
  BY <1>3, <1>4
<1> QED
  BY <1>3, <1>6

LEMMA LoopsAre ==
  /\ Len(MainLoops) = 25
  /\ MainLoops[1] = Clear /\ MainLoops[2] = Mul(0, 0) /\ MainLoops[3] = Store(0)
  /\ MainLoops[4] = Mul(0, 1) /\ MainLoops[5] = Mul(1, 0) /\ MainLoops[6] = Store(1)
  /\ MainLoops[7] = Mul(0, 2) /\ MainLoops[8] = Mul(1, 1) /\ MainLoops[9] = Mul(2, 0)
  /\ MainLoops[10] = Store(2) /\ MainLoops[11] = Mul(0, 3) /\ MainLoops[12] = Mul(1, 2)
  /\ MainLoops[13] = Mul(2, 1) /\ MainLoops[14] = Mul(3, 0) /\ MainLoops[15] = Store(3)
  /\ MainLoops[16] = Mul(1, 3) /\ MainLoops[17] = Mul(2, 2) /\ MainLoops[18] = Mul(3, 1)
  /\ MainLoops[19] = Store(4) /\ MainLoops[20] = Mul(2, 3) /\ MainLoops[21] = Mul(3, 2)
  /\ MainLoops[22] = Store(5) /\ MainLoops[23] = Mul(3, 3) /\ MainLoops[24] = Store(6)
  /\ MainLoops[25] = Store(7)
<1> DEFINE M0 == <<Clear>>
           M1 == M0 \o Column(0)
           M2 == M1 \o Column(1)
           M3 == M2 \o Column(2)
           M4 == M3 \o Column(3)
           M5 == M4 \o Column(4)
           M6 == M5 \o Column(5)
           M7 == M6 \o Column(6)
           M8 == M7 \o Column(7)
<1>0. M0 \in Seq(Instructions) /\ Len(M0) = 1 /\ M0[1] = Clear
  BY InstructionsAre
<1> HIDE DEF M0
<1>1. /\ M1 \in Seq(Instructions) /\ Len(M1) = 3
      /\ M1[1] = Clear /\ M1[2] = Mul(0, 0) /\ M1[3] = Store(0)
  <2>1. 1 \in Nat /\ 2 \in Nat
    OBVIOUS
  <2>2. Len(Column(0)) = 2 /\ Column(0) \in Seq(Instructions)
    BY ColumnsAre
  <2>3. /\ Column(0)[1] = Mul(0, 0) /\ Column(0)[2] = Store(0)
    BY ColumnsAre
  <2>4. Joins(M1, Instructions, M0, Column(0), 1, 2)
    BY <1>0, <2>1, <2>2, Concat
  <2> HIDE DEF M1
  <2>5. /\ M1[2] = Mul(0, 0) /\ M1[3] = Store(0)
    BY <2>3, <2>4 DEF Joins
  <2> QED
    BY <1>0, <2>4, <2>5 DEF Joins
<1> HIDE DEF M1
<1>2. /\ M2 \in Seq(Instructions) /\ Len(M2) = 6
      /\ M2[1] = Clear /\ M2[2] = Mul(0, 0) /\ M2[3] = Store(0)
      /\ M2[4] = Mul(0, 1) /\ M2[5] = Mul(1, 0) /\ M2[6] = Store(1)
  <2>1. 3 \in Nat /\ 3 \in Nat
    OBVIOUS
  <2>2. Len(Column(1)) = 3 /\ Column(1) \in Seq(Instructions)
    BY ColumnsAre
  <2>3. /\ Column(1)[1] = Mul(0, 1) /\ Column(1)[2] = Mul(1, 0)
        /\ Column(1)[3] = Store(1)
    BY ColumnsAre
  <2>4. Joins(M2, Instructions, M1, Column(1), 3, 3)
    BY <1>1, <2>1, <2>2, Concat
  <2> HIDE DEF M2
  <2>5. /\ M2[4] = Mul(0, 1) /\ M2[5] = Mul(1, 0)
        /\ M2[6] = Store(1)
    BY <2>3, <2>4 DEF Joins
  <2> QED
    BY <1>1, <2>4, <2>5 DEF Joins
<1> HIDE DEF M2
<1>3. /\ M3 \in Seq(Instructions) /\ Len(M3) = 10
      /\ M3[1] = Clear /\ M3[2] = Mul(0, 0) /\ M3[3] = Store(0)
      /\ M3[4] = Mul(0, 1) /\ M3[5] = Mul(1, 0) /\ M3[6] = Store(1)
      /\ M3[7] = Mul(0, 2) /\ M3[8] = Mul(1, 1) /\ M3[9] = Mul(2, 0)
      /\ M3[10] = Store(2)
  <2>1. 6 \in Nat /\ 4 \in Nat
    OBVIOUS
  <2>2. Len(Column(2)) = 4 /\ Column(2) \in Seq(Instructions)
    BY ColumnsAre
  <2>3. /\ Column(2)[1] = Mul(0, 2) /\ Column(2)[2] = Mul(1, 1)
        /\ Column(2)[3] = Mul(2, 0) /\ Column(2)[4] = Store(2)
    BY ColumnsAre
  <2>4. Joins(M3, Instructions, M2, Column(2), 6, 4)
    BY <1>2, <2>1, <2>2, Concat
  <2> HIDE DEF M3
  <2>5. /\ M3[7] = Mul(0, 2) /\ M3[8] = Mul(1, 1)
        /\ M3[9] = Mul(2, 0) /\ M3[10] = Store(2)
    BY <2>3, <2>4 DEF Joins
  <2> QED
    BY <1>2, <2>4, <2>5 DEF Joins
<1> HIDE DEF M3
<1>4. /\ M4 \in Seq(Instructions) /\ Len(M4) = 15
      /\ M4[1] = Clear /\ M4[2] = Mul(0, 0) /\ M4[3] = Store(0)
      /\ M4[4] = Mul(0, 1) /\ M4[5] = Mul(1, 0) /\ M4[6] = Store(1)
      /\ M4[7] = Mul(0, 2) /\ M4[8] = Mul(1, 1) /\ M4[9] = Mul(2, 0)
      /\ M4[10] = Store(2) /\ M4[11] = Mul(0, 3) /\ M4[12] = Mul(1, 2)
      /\ M4[13] = Mul(2, 1) /\ M4[14] = Mul(3, 0) /\ M4[15] = Store(3)
  <2>1. 10 \in Nat /\ 5 \in Nat
    OBVIOUS
  <2>2. Len(Column(3)) = 5 /\ Column(3) \in Seq(Instructions)
    BY ColumnsAre
  <2>3. /\ Column(3)[1] = Mul(0, 3) /\ Column(3)[2] = Mul(1, 2)
        /\ Column(3)[3] = Mul(2, 1) /\ Column(3)[4] = Mul(3, 0)
        /\ Column(3)[5] = Store(3)
    BY ColumnsAre
  <2>4. Joins(M4, Instructions, M3, Column(3), 10, 5)
    BY <1>3, <2>1, <2>2, Concat
  <2> HIDE DEF M4
  <2>5. /\ M4[11] = Mul(0, 3) /\ M4[12] = Mul(1, 2)
        /\ M4[13] = Mul(2, 1) /\ M4[14] = Mul(3, 0)
        /\ M4[15] = Store(3)
    BY <2>3, <2>4 DEF Joins
  <2> QED
    BY <1>3, <2>4, <2>5 DEF Joins
<1> HIDE DEF M4
<1>5. /\ M5 \in Seq(Instructions) /\ Len(M5) = 19
      /\ M5[1] = Clear /\ M5[2] = Mul(0, 0) /\ M5[3] = Store(0)
      /\ M5[4] = Mul(0, 1) /\ M5[5] = Mul(1, 0) /\ M5[6] = Store(1)
      /\ M5[7] = Mul(0, 2) /\ M5[8] = Mul(1, 1) /\ M5[9] = Mul(2, 0)
      /\ M5[10] = Store(2) /\ M5[11] = Mul(0, 3) /\ M5[12] = Mul(1, 2)
      /\ M5[13] = Mul(2, 1) /\ M5[14] = Mul(3, 0) /\ M5[15] = Store(3)
      /\ M5[16] = Mul(1, 3) /\ M5[17] = Mul(2, 2) /\ M5[18] = Mul(3, 1)
      /\ M5[19] = Store(4)
  <2>1. 15 \in Nat /\ 4 \in Nat
    OBVIOUS
  <2>2. Len(Column(4)) = 4 /\ Column(4) \in Seq(Instructions)
    BY ColumnsAre
  <2>3. /\ Column(4)[1] = Mul(1, 3) /\ Column(4)[2] = Mul(2, 2)
        /\ Column(4)[3] = Mul(3, 1) /\ Column(4)[4] = Store(4)
    BY ColumnsAre
  <2>4. Joins(M5, Instructions, M4, Column(4), 15, 4)
    BY <1>4, <2>1, <2>2, Concat
  <2> HIDE DEF M5
  <2>5. /\ M5[16] = Mul(1, 3) /\ M5[17] = Mul(2, 2)
        /\ M5[18] = Mul(3, 1) /\ M5[19] = Store(4)
    BY <2>3, <2>4 DEF Joins
  <2> QED
    BY <1>4, <2>4, <2>5 DEF Joins
<1> HIDE DEF M5
<1>6. /\ M6 \in Seq(Instructions) /\ Len(M6) = 22
      /\ M6[1] = Clear /\ M6[2] = Mul(0, 0) /\ M6[3] = Store(0)
      /\ M6[4] = Mul(0, 1) /\ M6[5] = Mul(1, 0) /\ M6[6] = Store(1)
      /\ M6[7] = Mul(0, 2) /\ M6[8] = Mul(1, 1) /\ M6[9] = Mul(2, 0)
      /\ M6[10] = Store(2) /\ M6[11] = Mul(0, 3) /\ M6[12] = Mul(1, 2)
      /\ M6[13] = Mul(2, 1) /\ M6[14] = Mul(3, 0) /\ M6[15] = Store(3)
      /\ M6[16] = Mul(1, 3) /\ M6[17] = Mul(2, 2) /\ M6[18] = Mul(3, 1)
      /\ M6[19] = Store(4) /\ M6[20] = Mul(2, 3) /\ M6[21] = Mul(3, 2)
      /\ M6[22] = Store(5)
  <2>1. 19 \in Nat /\ 3 \in Nat
    OBVIOUS
  <2>2. Len(Column(5)) = 3 /\ Column(5) \in Seq(Instructions)
    BY ColumnsAre
  <2>3. /\ Column(5)[1] = Mul(2, 3) /\ Column(5)[2] = Mul(3, 2)
        /\ Column(5)[3] = Store(5)
    BY ColumnsAre
  <2>4. Joins(M6, Instructions, M5, Column(5), 19, 3)
    BY <1>5, <2>1, <2>2, Concat
  <2> HIDE DEF M6
  <2>5. /\ M6[20] = Mul(2, 3) /\ M6[21] = Mul(3, 2)
        /\ M6[22] = Store(5)
    BY <2>3, <2>4 DEF Joins
  <2> QED
    BY <1>5, <2>4, <2>5 DEF Joins
<1> HIDE DEF M6
<1>7. /\ M7 \in Seq(Instructions) /\ Len(M7) = 24
      /\ M7[1] = Clear /\ M7[2] = Mul(0, 0) /\ M7[3] = Store(0)
      /\ M7[4] = Mul(0, 1) /\ M7[5] = Mul(1, 0) /\ M7[6] = Store(1)
      /\ M7[7] = Mul(0, 2) /\ M7[8] = Mul(1, 1) /\ M7[9] = Mul(2, 0)
      /\ M7[10] = Store(2) /\ M7[11] = Mul(0, 3) /\ M7[12] = Mul(1, 2)
      /\ M7[13] = Mul(2, 1) /\ M7[14] = Mul(3, 0) /\ M7[15] = Store(3)
      /\ M7[16] = Mul(1, 3) /\ M7[17] = Mul(2, 2) /\ M7[18] = Mul(3, 1)
      /\ M7[19] = Store(4) /\ M7[20] = Mul(2, 3) /\ M7[21] = Mul(3, 2)
      /\ M7[22] = Store(5) /\ M7[23] = Mul(3, 3) /\ M7[24] = Store(6)
  <2>1. 22 \in Nat /\ 2 \in Nat
    OBVIOUS
  <2>2. Len(Column(6)) = 2 /\ Column(6) \in Seq(Instructions)
    BY ColumnsAre
  <2>3. /\ Column(6)[1] = Mul(3, 3) /\ Column(6)[2] = Store(6)
    BY ColumnsAre
  <2>4. Joins(M7, Instructions, M6, Column(6), 22, 2)
    BY <1>6, <2>1, <2>2, Concat
  <2> HIDE DEF M7
  <2>5. /\ M7[23] = Mul(3, 3) /\ M7[24] = Store(6)
    BY <2>3, <2>4 DEF Joins
  <2> QED
    BY <1>6, <2>4, <2>5 DEF Joins
<1> HIDE DEF M7
<1>8. /\ M8 \in Seq(Instructions) /\ Len(M8) = 25
      /\ M8[1] = Clear /\ M8[2] = Mul(0, 0) /\ M8[3] = Store(0)
      /\ M8[4] = Mul(0, 1) /\ M8[5] = Mul(1, 0) /\ M8[6] = Store(1)
      /\ M8[7] = Mul(0, 2) /\ M8[8] = Mul(1, 1) /\ M8[9] = Mul(2, 0)
      /\ M8[10] = Store(2) /\ M8[11] = Mul(0, 3) /\ M8[12] = Mul(1, 2)
      /\ M8[13] = Mul(2, 1) /\ M8[14] = Mul(3, 0) /\ M8[15] = Store(3)
      /\ M8[16] = Mul(1, 3) /\ M8[17] = Mul(2, 2) /\ M8[18] = Mul(3, 1)
      /\ M8[19] = Store(4) /\ M8[20] = Mul(2, 3) /\ M8[21] = Mul(3, 2)
      /\ M8[22] = Store(5) /\ M8[23] = Mul(3, 3) /\ M8[24] = Store(6)
      /\ M8[25] = Store(7)
  <2>1. 24 \in Nat /\ 1 \in Nat
    OBVIOUS
  <2>2. Len(Column(7)) = 1 /\ Column(7) \in Seq(Instructions)
    BY ColumnsAre
  <2>3. /\ Column(7)[1] = Store(7)
    BY ColumnsAre
  <2>4. Joins(M8, Instructions, M7, Column(7), 24, 1)
    BY <1>7, <2>1, <2>2, Concat
  <2> HIDE DEF M8
  <2>5. /\ M8[25] = Store(7)
    BY <2>3, <2>4 DEF Joins
  <2> QED
    BY <1>7, <2>4, <2>5 DEF Joins
<1> HIDE DEF M8
<1>9. MainLoops = M8
  BY DEF MainLoops, M0, M1, M2, M3, M4, M5, M6, M7, M8
<1> QED
  BY <1>8, <1>9

LEMMA ProgramsAre ==
  ASSUME NEW p \in DOMAIN Programs
  PROVE  Places(p) /\ NothingElse(p) /\ InOrder(p)
<1>1. p \in {"mul_comba", "main"} /\ Programs["mul_comba"] = MulComba /\ Programs["main"] = MainLoops
      /\ ClearedWords["mul_comba"] = 2 /\ ClearedWords["main"] = 1
  BY DEF Programs, ClearedWords
<1>2. Rows = {0, 1, 2, 3} /\ Columns = {0, 1, 2, 3, 4, 5, 6, 7}
  BY DEF Rows, Columns, SIZE
<1>3. InOrder(p)
  <2>1. InOrder("mul_comba")
    BY <1>2 DEF InOrder, MulAt, PlaceOfMul, StoreAt
  <2>2. InOrder("main")
    BY <1>2 DEF InOrder, MulAt, PlaceOfMul, StoreAt
  <2> QED BY <1>1, <2>1, <2>2
<1>4. Places(p)
  <2>1. Places("mul_comba")
    BY <1>1, <1>2, UnrolledIs DEF Places, MulAt, PlaceOfMul, StoreAt
  <2>2. Places("main")
    BY <1>1, <1>2, LoopsAre DEF Places, MulAt, PlaceOfMul, StoreAt
  <2> QED BY <1>1, <2>1, <2>2
<1>5. NothingElse(p)
  <2>1. NothingElse("mul_comba")
    BY <1>1, <1>2, UnrolledIs DEF NothingElse, MulAt, PlaceOfMul, StoreAt
  <2>2. NothingElse("main")
    BY <1>1, <1>2, LoopsAre DEF NothingElse, MulAt, PlaceOfMul, StoreAt
  <2> QED BY <1>1, <2>1, <2>2
<1> QED
  BY <1>3, <1>4, <1>5

-----------------------------------------------------------------------------
(* Sums and carries.                                                       *)

Operands == a \in [Rows -> Word] /\ b \in [Rows -> Word]
Largest == (B - 1) * (B - 1)

LEMMA TermBounds ==
  ASSUME Operands, NEW P \in SUBSET (Rows \X Rows), NEW i \in Rows, NEW j \in Int
  PROVE  /\ Term(P, i, j) \in Nat /\ Term(Rows \X Rows, i, j) \in Nat
         /\ Term(P, i, j) <= Term(Rows \X Rows, i, j)
         /\ Term(Rows \X Rows, i, j) <= Largest
         /\ j \notin Rows => Term(Rows \X Rows, i, j) = 0
<1>0. Largest \in Nat /\ Largest >= 0
  BY Widths DEF Largest
<1>1. CASE j \in Rows
  <2>1. a[i] \in Nat /\ b[j] \in Nat /\ a[i] <= B - 1 /\ b[j] <= B - 1 /\ B - 1 \in Nat
    BY <1>1, Widths DEF Operands, Word
  <2>2. ASSUME NEW m \in Nat, NEW n \in Nat, NEW q \in Nat, m <= q, n <= q PROVE m * n \in Nat /\ m * n <= q * q
    <3>1. m * n <= m * q /\ m * q <= q * q
      BY <2>2
    <3> QED BY <3>1, <2>2
  <2>3. a[i] * b[j] \in Nat /\ a[i] * b[j] <= Largest
    BY <2>1, <2>2 DEF Largest
  <2> QED BY <1>0, <1>1, <2>3 DEF Term
<1>2. CASE j \notin Rows
  BY <1>0, <1>2 DEF Term
<1> QED
  BY <1>1, <1>2

(* A column has as many products as rows it can take them from.            *)
LEMMA SumBounds ==
  ASSUME Operands, NEW P \in SUBSET (Rows \X Rows), NEW k \in 0..8
  PROVE  /\ SumOf(P, k) \in Nat /\ AllOf(k) \in Nat /\ SumOf(P, k) <= AllOf(k)
         /\ AllOf(k) <= (<<1, 2, 3, 4, 3, 2, 1, 0, 0>>)[k + 1] * Largest
<1> DEFINE p(i) == Term(P, i, k - i)  q(i) == Term(Rows \X Rows, i, k - i)
<1>1. Rows = {0, 1, 2, 3} /\ k - 0 = k
  BY DEF Rows, SIZE
<1>2. \A i \in {0, 1, 2, 3} :
        /\ p(i) \in Nat /\ q(i) \in Nat /\ p(i) <= q(i) /\ q(i) <= Largest
        /\ k - i \notin {0, 1, 2, 3} => q(i) = 0
  BY <1>1, TermBounds
<1>3. /\ p(0) \in Nat /\ q(0) \in Nat /\ p(0) <= q(0) /\ q(0) <= Largest /\ (k \notin {0, 1, 2, 3} => q(0) = 0)
      /\ p(1) \in Nat /\ q(1) \in Nat /\ p(1) <= q(1) /\ q(1) <= Largest /\ (k - 1 \notin {0, 1, 2, 3} => q(1) = 0)
      /\ p(2) \in Nat /\ q(2) \in Nat /\ p(2) <= q(2) /\ q(2) <= Largest /\ (k - 2 \notin {0, 1, 2, 3} => q(2) = 0)
      /\ p(3) \in Nat /\ q(3) \in Nat /\ p(3) <= q(3) /\ q(3) <= Largest /\ (k - 3 \notin {0, 1, 2, 3} => q(3) = 0)
  BY <1>1, <1>2
<1>4. SumOf(P, k) = p(0) + p(1) + p(2) + p(3) /\ AllOf(k) = q(0) + q(1) + q(2) + q(3)
  BY <1>1 DEF SumOf, AllOf
<1>5. Largest \in Nat
  BY Widths DEF Largest
<1> HIDE DEF p, q
<1>6. SumOf(P, k) \in Nat /\ AllOf(k) \in Nat /\ SumOf(P, k) <= AllOf(k)
  BY <1>3, <1>4
<1>7. AllOf(k) <= (<<1, 2, 3, 4, 3, 2, 1, 0, 0>>)[k + 1] * Largest
  <2> DEFINE n == (<<1, 2, 3, 4, 3, 2, 1, 0, 0>>)[k + 1]
  <2>0. CASE k = 0
    <3>1. n = 1
      BY <2>0
    <3>2. AllOf(k) <= 1 * Largest
      BY <1>3, <1>4, <1>5, <2>0
    <3> QED BY <3>1, <3>2
  <2>1. CASE k = 1
    <3>1. n = 2
      BY <2>1
    <3>2. AllOf(k) <= 2 * Largest
      BY <1>3, <1>4, <1>5, <2>1
    <3> QED BY <3>1, <3>2
  <2>2. CASE k = 2
    <3>1. n = 3
      BY <2>2
    <3>2. AllOf(k) <= 3 * Largest
      BY <1>3, <1>4, <1>5, <2>2
    <3> QED BY <3>1, <3>2
  <2>3. CASE k = 3
    <3>1. n = 4
      BY <2>3
    <3>2. AllOf(k) <= 4 * Largest
      BY <1>3, <1>4, <1>5, <2>3
    <3> QED BY <3>1, <3>2
  <2>4. CASE k = 4
    <3>1. n = 3
      BY <2>4
    <3>2. AllOf(k) <= 3 * Largest
      BY <1>3, <1>4, <1>5, <2>4
    <3> QED BY <3>1, <3>2
  <2>5. CASE k = 5
    <3>1. n = 2
      BY <2>5
    <3>2. AllOf(k) <= 2 * Largest
      BY <1>3, <1>4, <1>5, <2>5
    <3> QED BY <3>1, <3>2
  <2>6. CASE k = 6
    <3>1. n = 1
      BY <2>6
    <3>2. AllOf(k) <= 1 * Largest
      BY <1>3, <1>4, <1>5, <2>6
    <3> QED BY <3>1, <3>2
  <2>7. CASE k = 7
    <3>1. n = 0
      BY <2>7
    <3>2. AllOf(k) <= 0 * Largest
      BY <1>3, <1>4, <1>5, <2>7
    <3> QED BY <3>1, <3>2
  <2>8. CASE k = 8
    <3>1. n = 0
      BY <2>8
    <3>2. AllOf(k) <= 0 * Largest
      BY <1>3, <1>4, <1>5, <2>8
    <3> QED BY <3>1, <3>2
  <2> QED BY <2>0, <2>1, <2>2, <2>3, <2>4, <2>5, <2>6, <2>7, <2>8
<1> QED
  BY <1>6, <1>7

LEMMA AllOfType ==
  ASSUME Operands
  PROVE  \A k \in 0..8 : AllOf(k) \in Nat
<1>1. {} \in SUBSET (Rows \X Rows)
  OBVIOUS
<1> QED
  BY <1>1, SumBounds

LEMMA CarryDef ==
  ASSUME Operands
  PROVE  /\ Carry \in [0..8 -> Nat] /\ Carry[0] = 0
         /\ \A k \in 0..7 : Carry[k + 1] = (Carry[k] + AllOf(k)) \div B
<1> DEFINE g == [k \in 1..8 |-> [x \in Nat |-> (x + AllOf(k - 1)) \div B]]
<1>1. g \in [1..8 -> [Nat -> Nat]]
  <2>1. ASSUME NEW k \in 1..8, NEW x \in Nat PROVE (x + AllOf(k - 1)) \div B \in Nat
    <3>1. k - 1 \in 0..8 /\ AllOf(k - 1) \in Nat
      BY AllOfType
    <3>2. x + AllOf(k - 1) \in Nat /\ B \in Nat /\ B > 0
      BY <3>1, Widths
    <3> HIDE DEF g
    <3> QED BY <3>2
  <2> QED BY <2>1
<1> HIDE DEF g
<1>2. PICK f \in [0..8 -> Nat] : Follows(f, 8, 0, g)
  <2>1. 8 \in Nat /\ 0 \in Nat
    OBVIOUS
  <2> QED BY <1>1, <2>1, Recursion
<1>3. f[0] = 0 /\ \A i \in 1..8 : f[i] = (f[i - 1] + AllOf(i - 1)) \div B
  <2>1. ASSUME NEW i \in 1..8 PROVE f[i] = (f[i - 1] + AllOf(i - 1)) \div B
    <3>1. i - 1 \in 0..8 /\ f[i - 1] \in Nat
      BY <1>2
    <3> QED BY <1>2, <3>1 DEF g, Follows
  <2> QED BY <2>1, <1>2 DEF Follows
<1>4. f = [k \in 0..8 |-> IF k = 0 THEN 0 ELSE (f[k - 1] + AllOf(k - 1)) \div B]
  <2>1. \A k \in 0..8 : f[k] = IF k = 0 THEN 0 ELSE (f[k - 1] + AllOf(k - 1)) \div B
    <3>1. \A k \in 0..8 : k = 0 \/ k \in 1..8
      OBVIOUS
    <3> QED BY <1>3, <3>1
  <2> QED BY <1>2, <2>1
<1>5. 2 * SIZE = 8
  BY DEF SIZE
<1>6. Carry = [k \in 0..8 |-> IF k = 0 THEN 0 ELSE (Carry[k - 1] + AllOf(k - 1)) \div B]
  BY <1>4, <1>5, Zenon DEF Carry
<1>7. \A k \in 0..8 : Carry[k] = IF k = 0 THEN 0 ELSE (Carry[k - 1] + AllOf(k - 1)) \div B
  BY <1>6
<1>8. ASSUME NEW k \in 0..7 PROVE Carry[k + 1] = (Carry[k] + AllOf(k)) \div B
  <2>1. k + 1 \in 0..8 /\ k + 1 # 0 /\ k + 1 - 1 = k
    OBVIOUS
  <2> QED BY <1>7, <2>1
<1>9. Carry[0] = 0
  BY <1>7
<1> DEFINE T == {k \in 0..8 : Carry[k] \in Nat}
<1>10. T = 0..8
  <2>1. 0 \in T
    BY <1>9
  <2>2. ASSUME NEW k \in T, k < 8 PROVE k + 1 \in T
    <3>1. k \in 0..7 /\ k + 1 \in 0..8 /\ k \in 0..8 /\ Carry[k] \in Nat
      BY <2>2
    <3>2. AllOf(k) \in Nat /\ B \in Nat /\ B > 0
      BY <3>1, AllOfType, Widths
    <3>3. Carry[k + 1] = (Carry[k] + AllOf(k)) \div B
      BY <1>8, <3>1
    <3>4. (Carry[k] + AllOf(k)) \div B \in Nat
      BY <3>1, <3>2
    <3> QED BY <3>1, <3>3, <3>4
  <2>3. T \in SUBSET (0..8) /\ 8 \in Nat
    OBVIOUS
  <2> HIDE DEF T
  <2> QED BY <2>1, <2>2, <2>3, Induction
<1>11. \A k \in 0..8 : Carry[k] \in Nat
  BY <1>10
<1> QED
  BY <1>6, <1>8, <1>9, <1>11

LEMMA QuotientBound ==
  ASSUME NEW x \in Nat, NEW n \in Nat, n > 0, NEW z \in Nat, x < n * z
  PROVE  x \div n < z
<1> DEFINE q == x \div n
<1>1. x = n * q + (x % n) /\ x % n \in 0..(n - 1) /\ q \in Int
  BY DivMod
<1> HIDE DEF q
<1>2. q * n < z * n
  <2>1. q * n = n * q /\ z * n = n * z /\ n * q \in Int /\ n * z \in Int
    BY <1>1
  <2> QED BY <1>1, <2>1
<1>3. q < z
  BY <1>1, <1>2, Cancel
<1> QED
  BY <1>3 DEF q

(* What is carried never needs more than a word and two of the guard bits, *)
(* and nothing is carried out of the last column.                          *)
LEMMA CarryBounds ==
  ASSUME Operands
  PROVE  Carry[8] = 0 /\ \A k \in 0..8 : Carry[k] <= 4 * B
<1> DEFINE s == B * B
<1>1. B \in Nat /\ B > 2 /\ s \in Nat /\ Largest = s - 2 * B + 1
  BY Widths DEF Largest
<1>2. \A k \in 0..8 : Carry[k] \in Nat /\ AllOf(k) \in Nat
  BY CarryDef, SumBounds
<1>3. ASSUME NEW k \in 0..7, NEW m \in Int, Carry[k] + AllOf(k) < B * m
      PROVE  Carry[k + 1] < m
  <2>1. Carry[k] + AllOf(k) \in Nat
    BY <1>2
  <2>2. m \in Nat
    <3> SUFFICES ASSUME m <= -1 PROVE FALSE
      OBVIOUS
    <3>1. B * m <= 0
      BY <1>1
    <3>2. B * m \in Int
      BY <1>1
    <3> QED BY <1>3, <2>1, <3>1, <3>2
  <2>3. (Carry[k] + AllOf(k)) \div B < m
    BY <1>1, <1>3, <2>1, <2>2, QuotientBound
  <2> QED BY <2>3, CarryDef
<1>4. /\ AllOf(0) <= Largest /\ AllOf(1) <= 2 * Largest /\ AllOf(2) <= 3 * Largest /\ AllOf(3) <= 4 * Largest
      /\ AllOf(4) <= 3 * Largest /\ AllOf(5) <= 2 * Largest /\ AllOf(6) <= Largest /\ AllOf(7) <= 0
  <2>1. \A k \in 0..8 : AllOf(k) <= (<<1, 2, 3, 4, 3, 2, 1, 0, 0>>)[k + 1] * Largest
    BY SumBounds
  <2>2. Largest \in Nat
    BY Widths DEF Largest
  <2> QED BY <2>1, <2>2
<1>5. \A i \in 0..4 : B * (i * B - 1) = i * s - B /\ B * (i * B) = i * s /\ B * (i * B - i + 1) = i * s - i * B + B
  BY <1>1
<1>6. /\ B * (B - 1) = s - B /\ B * (2 * B - 2) = 2 * s - 2 * B /\ B * (3 * B - 3) = 3 * s - 3 * B
      /\ B * (4 * B - 4) = 4 * s - 4 * B /\ B * (3 * B - 2) = 3 * s - 2 * B /\ B * (2 * B - 1) = 2 * s - B
      /\ B * B = s /\ B * 1 = B
  BY <1>1
<1> HIDE DEF s
<1>7. \A k \in 0..8 : Carry[k] \in Int /\ AllOf(k) \in Int
  BY <1>2
<1>8. /\ Carry[0] \in Int /\ Carry[1] \in Int /\ Carry[2] \in Int /\ Carry[3] \in Int /\ Carry[4] \in Int
      /\ Carry[5] \in Int /\ Carry[6] \in Int /\ Carry[7] \in Int /\ Carry[8] \in Nat
      /\ AllOf(0) \in Int /\ AllOf(1) \in Int /\ AllOf(2) \in Int /\ AllOf(3) \in Int /\ AllOf(4) \in Int
      /\ AllOf(5) \in Int /\ AllOf(6) \in Int /\ AllOf(7) \in Int
  BY <1>2, <1>7
<1>9. Carry[1] < B - 1
  <2>1. Carry[0] + AllOf(0) < B * (B - 1)
    BY <1>1, <1>4, <1>6, <1>8, CarryDef
  <2>2. B - 1 \in Int /\ 0 \in 0..7 /\ 0 + 1 = 1
    BY <1>1
  <2> QED BY <1>3, <2>1, <2>2
<1>10. Carry[2] < 2 * B - 2
  <2>1. Carry[1] + AllOf(1) < B * (2 * B - 2)
    BY <1>1, <1>4, <1>6, <1>8, <1>9
  <2>2. 2 * B - 2 \in Int /\ 1 \in 0..7 /\ 1 + 1 = 2
    BY <1>1
  <2> QED BY <1>3, <2>1, <2>2
<1>11. Carry[3] < 3 * B - 3
  <2>1. Carry[2] + AllOf(2) < B * (3 * B - 3)
    BY <1>1, <1>4, <1>6, <1>8, <1>10
  <2>2. 3 * B - 3 \in Int /\ 2 \in 0..7 /\ 2 + 1 = 3
    BY <1>1
  <2> QED BY <1>3, <2>1, <2>2
<1>12. Carry[4] < 4 * B - 4
  <2>1. Carry[3] + AllOf(3) < B * (4 * B - 4)
    BY <1>1, <1>4, <1>6, <1>8, <1>11
  <2>2. 4 * B - 4 \in Int /\ 3 \in 0..7 /\ 3 + 1 = 4
    BY <1>1
  <2> QED BY <1>3, <2>1, <2>2
<1>13. Carry[5] < 3 * B - 2
  <2>1. Carry[4] + AllOf(4) < B * (3 * B - 2)
    BY <1>1, <1>4, <1>6, <1>8, <1>12
  <2>2. 3 * B - 2 \in Int /\ 4 \in 0..7 /\ 4 + 1 = 5
    BY <1>1
  <2> QED BY <1>3, <2>1, <2>2
<1>14. Carry[6] < 2 * B - 1
  <2>1. Carry[5] + AllOf(5) < B * (2 * B - 1)
    BY <1>1, <1>4, <1>6, <1>8, <1>13
  <2>2. 2 * B - 1 \in Int /\ 5 \in 0..7 /\ 5 + 1 = 6
    BY <1>1
  <2> QED BY <1>3, <2>1, <2>2
<1>15. Carry[7] < B
  <2>1. Carry[6] + AllOf(6) < B * (B)
    BY <1>1, <1>4, <1>6, <1>8, <1>14
  <2>2. B \in Int /\ 6 \in 0..7 /\ 6 + 1 = 7
    BY <1>1
  <2> QED BY <1>3, <2>1, <2>2
<1>16. Carry[8] < 1
  <2>1. Carry[7] + AllOf(7) < B * (1)
    BY <1>1, <1>4, <1>6, <1>8, <1>15
  <2>2. 1 \in Int /\ 7 \in 0..7 /\ 7 + 1 = 8
    BY <1>1
  <2> QED BY <1>3, <2>1, <2>2
<1>17. Carry[8] = 0 /\ Carry[0] = 0
  BY <1>8, <1>16, CarryDef
<1>18. ASSUME NEW k \in 0..8 PROVE Carry[k] <= 4 * B
  <2>1. k \in {0, 1, 2, 3, 4, 5, 6, 7, 8}
    OBVIOUS
  <2> QED BY <1>1, <1>8, <1>9, <1>10, <1>11, <1>12, <1>13, <1>14, <1>15, <1>17, <2>1
<1> QED
  BY <1>17, <1>18

(* A product more, all products, none.                                     *)
LEMMA SumAdds ==
  ASSUME Operands, NEW P \in SUBSET (Rows \X Rows), NEW i \in Rows, NEW j \in Rows, <<i, j>> \notin P
  PROVE  SumOf(P \cup {<<i, j>>}, i + j) = SumOf(P, i + j) + a[i] * b[j]
<1> DEFINE Q == P \cup {<<i, j>>}
<1>1. Rows = {0, 1, 2, 3}
  BY DEF Rows, SIZE
<1>2. \A m \in Rows, n \in Int : Term(P, m, n) \in Int
  BY TermBounds
<1>3. \A m \in Rows, n \in Int : m # i => Term(Q, m, n) = Term(P, m, n)
  BY DEF Term
<1>4. Term(Q, i, j) = a[i] * b[j] /\ Term(P, i, j) = 0
  BY DEF Term
<1>5. a[i] * b[j] \in Int
  BY Widths DEF Operands, Word
<1> HIDE DEF Q
<1>6. CASE i = 0
  <2>1. i + j = j /\ j \in Int /\ j - 1 \in Int /\ j - 2 \in Int /\ j - 3 \in Int
    BY <1>1, <1>6
  <2>2. /\ Term(Q, 1, j - 1) = Term(P, 1, j - 1) /\ Term(Q, 2, j - 2) = Term(P, 2, j - 2)
        /\ Term(Q, 3, j - 3) = Term(P, 3, j - 3) /\ Term(Q, 0, j) = a[i] * b[j] /\ Term(P, 0, j) = 0
    BY <1>1, <1>3, <1>4, <1>6, <2>1
  <2> QED BY <1>1, <1>2, <1>5, <2>1, <2>2 DEF SumOf, Q
<1>7. CASE i = 1
  <2>1. i + j \in Int /\ i + j - 1 = j /\ j \in Int /\ i + j - 2 \in Int /\ i + j - 3 \in Int
    BY <1>1, <1>7
  <2>2. /\ Term(Q, 0, i + j) = Term(P, 0, i + j) /\ Term(Q, 2, i + j - 2) = Term(P, 2, i + j - 2)
        /\ Term(Q, 3, i + j - 3) = Term(P, 3, i + j - 3) /\ Term(Q, 1, i + j - 1) = a[i] * b[j] /\ Term(P, 1, i + j - 1) = 0
    BY <1>1, <1>3, <1>4, <1>7, <2>1
  <2> QED BY <1>1, <1>2, <1>5, <2>1, <2>2 DEF SumOf, Q
<1>8. CASE i = 2
  <2>1. i + j \in Int /\ i + j - 2 = j /\ j \in Int /\ i + j - 1 \in Int /\ i + j - 3 \in Int
    BY <1>1, <1>8
  <2>2. /\ Term(Q, 0, i + j) = Term(P, 0, i + j) /\ Term(Q, 1, i + j - 1) = Term(P, 1, i + j - 1)
        /\ Term(Q, 3, i + j - 3) = Term(P, 3, i + j - 3) /\ Term(Q, 2, i + j - 2) = a[i] * b[j] /\ Term(P, 2, i + j - 2) = 0
    BY <1>1, <1>3, <1>4, <1>8, <2>1
  <2> QED BY <1>1, <1>2, <1>5, <2>1, <2>2 DEF SumOf, Q
<1>9. CASE i = 3
  <2>1. i + j \in Int /\ i + j - 3 = j /\ j \in Int /\ i + j - 1 \in Int /\ i + j - 2 \in Int
    BY <1>1, <1>9
  <2>2. /\ Term(Q, 0, i + j) = Term(P, 0, i + j) /\ Term(Q, 1, i + j - 1) = Term(P, 1, i + j - 1)
        /\ Term(Q, 2, i + j - 2) = Term(P, 2, i + j - 2) /\ Term(Q, 3, i + j - 3) = a[i] * b[j] /\ Term(P, 3, i + j - 3) = 0
    BY <1>1, <1>3, <1>4, <1>9, <2>1
  <2> QED BY <1>1, <1>2, <1>5, <2>1, <2>2 DEF SumOf, Q
<1> QED
  BY <1>1, <1>6, <1>7, <1>8, <1>9

LEMMA SumAll ==
  ASSUME NEW P \in SUBSET (Rows \X Rows), NEW k \in 0..8,
         \A i, j \in Rows : i + j = k => <<i, j>> \in P
  PROVE  SumOf(P, k) = AllOf(k)
<1>1. Rows = {0, 1, 2, 3} /\ \A i \in Rows : i + (k - i) = k
  BY DEF Rows, SIZE
<1>2. ASSUME NEW i \in Rows, NEW j \in Int, i + j = k PROVE Term(P, i, j) = Term(Rows \X Rows, i, j)
  BY <1>2 DEF Term
<1>3. 0 + k = k /\ 1 + (k - 1) = k /\ 2 + (k - 2) = k /\ 3 + (k - 3) = k
      /\ k \in Int /\ k - 1 \in Int /\ k - 2 \in Int /\ k - 3 \in Int
  OBVIOUS
<1>4. /\ Term(P, 0, k) = Term(Rows \X Rows, 0, k) /\ Term(P, 1, k - 1) = Term(Rows \X Rows, 1, k - 1)
      /\ Term(P, 2, k - 2) = Term(Rows \X Rows, 2, k - 2) /\ Term(P, 3, k - 3) = Term(Rows \X Rows, 3, k - 3)
  BY <1>1, <1>2, <1>3
<1> QED
  BY <1>4 DEF SumOf, AllOf

LEMMA SumNone ==
  ASSUME NEW P \in SUBSET (Rows \X Rows), NEW k \in 0..8,
         \A i, j \in Rows : i + j = k => <<i, j>> \notin P
  PROVE  SumOf(P, k) = 0
<1>1. Rows = {0, 1, 2, 3}
  BY DEF Rows, SIZE
<1>2. ASSUME NEW i \in Rows, NEW j \in Int, i + j = k PROVE Term(P, i, j) = 0
  <2>1. CASE j \in Rows
    BY <1>2, <2>1 DEF Term
  <2>2. CASE j \notin Rows
    BY <2>2 DEF Term
  <2> QED BY <2>1, <2>2
<1>3. 0 + k = k /\ 1 + (k - 1) = k /\ 2 + (k - 2) = k /\ 3 + (k - 3) = k
      /\ k \in Int /\ k - 1 \in Int /\ k - 2 \in Int /\ k - 3 \in Int
  OBVIOUS
<1>4. Term(P, 0, k) = 0 /\ Term(P, 1, k - 1) = 0 /\ Term(P, 2, k - 2) = 0 /\ Term(P, 3, k - 3) = 0
  BY <1>1, <1>2, <1>3
<1> QED
  BY <1>4 DEF SumOf

-----------------------------------------------------------------------------
(* The invariant.  While a program clears, the accumulator holds no more   *)
(* than the words that it has left to clear; from then on, all columns     *)
(* below some k are stored, and the accumulator is the carry into column k *)
(* and the products of that column so far.                                 *)

Limit == B * B * Guard

Types ==
  /\ acc \in Nat /\ acc < Limit
  /\ Operands /\ c \in [Columns -> Int]
  /\ pc \in Nat /\ program \in {"none"} \cup DOMAIN Programs
RetiredInv ==
  /\ retired.x \in Word /\ retired.y \in Word
  /\ retired.op \in MulOps =>
       retired.rd = IF retired.op = "MUL" THEN Product(retired.x, retired.y) % B
                    ELSE HighWord(retired.op, retired.x, retired.y)

Done == {p \in Rows \X Rows : MulAt(program, p[1], p[2]) < pc}
AtColumn(k) ==
  /\ \A m \in Columns : m < k <=> StoreAt(program, m) < pc
  /\ \A m \in Columns : m < k => c[m] = Digit(m)
  /\ acc = Carry[k] + SumOf(Done, k)
ToClear == ClearedWords[program] - pc
Clearing ==
  /\ pc \in 1..(Len(Programs[program]) + 1)
  /\ ToClear >= 1 => acc < B * B
  /\ ToClear = 0 => acc < B
Multiplying == pc > ClearedWords[program] => \E k \in 0..8 : AtColumn(k)
ProgramInv == program # "none" => Clearing /\ Multiplying

CombaInv == Types /\ RetiredInv /\ ProgramInv

LEMMA LimitIs ==
  /\ Limit \in Nat /\ Limit > 0 /\ B * B \in Nat /\ B * B > B /\ 4 * (B * B) <= Limit
<1> DEFINE s == B * B
<1>1. B \in Nat /\ B > 2 /\ s \in Nat /\ s > B /\ Guard \in Nat /\ Guard >= 4
  BY Widths
<1>2. Limit = s * Guard
  BY DEF Limit
<1> HIDE DEF s
<1>3. s * Guard \in Nat /\ s * 4 <= s * Guard
  BY <1>1
<1> QED
  BY <1>1, <1>2, <1>3 DEF s

(* Every instruction leaves the accumulator within its width and reports   *)
(* what the unit computes.                                                 *)
LEMMA ExecuteKeeps ==
  ASSUME acc \in Nat, acc < Limit, NEW op \in MulOps \cup MulAccOps, NEW x \in Word, NEW y \in Word,
         Execute(op, x, y)
  PROVE  acc' \in Nat /\ acc' < Limit /\ RetiredInv'
<1>1. B \in Nat /\ B > 0 /\ Limit \in Nat /\ Limit > 0 /\ x \in Nat /\ y \in Nat /\ B * B \in Nat /\ B * B > 0
  BY LimitIs, Widths DEF Word
<1>2. Product(x, y) \in Int /\ InValue(op, x, y) \in Int
  <2>1. x * y \in Int
    BY <1>1
  <2>2. Product(x, y) \in Int
    BY <2>1, ProductIs
  <2>3. y * B + x \in Int /\ (Not(y) * B + Not(x) + 1) \in Int
    BY <1>1 DEF Not
  <2> DEFINE m == Not(y) * B + Not(x) + 1
             s == B * B
  <2>4. m \in Int /\ s \in Nat /\ s > 0
    BY <1>1, <2>3
  <2> HIDE DEF m, s
  <2>5. m % s \in Int
    BY <2>4
  <2> QED BY <2>2, <2>3, <2>5 DEF InValue, m, s
<1>3. Sum(op, x, y) \in 0..(Limit - 1)
  <2> DEFINE z == acc + InValue(op, x, y)
  <2>1. z \in Int /\ Sum(op, x, y) = z % Limit
    BY <1>2 DEF Sum, Limit
  <2> HIDE DEF z
  <2> QED BY <1>1, <2>1
<1>4. Sum(op, x, y) \div B \in Nat /\ Sum(op, x, y) \div B <= Sum(op, x, y)
  <2> DEFINE z == Sum(op, x, y)
             q == z \div B
  <2>0. z \in Nat /\ z \in Int
    BY <1>1, <1>3
  <2> HIDE DEF z
  <2>1. z = B * q + (z % B) /\ z % B \in 0..(B - 1) /\ q \in Int
    BY <1>1, <2>0, DivMod
  <2>2. q \in Nat
    BY <1>1, <2>0, <2>1
  <2> HIDE DEF q
  <2>3. 1 * q <= B * q /\ B * q \in Nat
    BY <1>1, <2>2
  <2>4. q <= z
    BY <2>0, <2>1, <2>2, <2>3
  <2> QED BY <2>2, <2>4 DEF q, z
<1>5. acc' \in Nat /\ acc' < Limit
  <2> DEFINE z == Sum(op, x, y)
             q == z \div B
  <2>1. acc' \in {acc, z, q}
    BY DEF Execute
  <2>2. z \in 0..(Limit - 1) /\ q \in Nat /\ q <= z
    BY <1>3, <1>4
  <2> HIDE DEF z, q
  <2> QED BY <1>1, <2>1, <2>2
<1>6. RetiredInv'
  <2>1. retired'.op = op /\ retired'.x = x /\ retired'.y = y /\ retired'.rd = Result(op, x, y)
    BY DEF Execute
  <2>2. op \in MulOps => Result(op, x, y) = IF op = "MUL" THEN Product(x, y) % B ELSE HighWord(op, x, y)
    <3>1. op = "MUL" => Result(op, x, y) = Product(x, y) % B
      BY DEF Result
    <3>2. op \in {"MULH", "MULHSU", "MULHU"} => Result(op, x, y) = HighWord(op, x, y)
      BY DEF Result, MulOps
    <3> QED BY <3>1, <3>2 DEF MulOps
  <2>3. Word' = Word /\ B' = B
    BY DEF Word, B, H
  <2> QED BY <2>1, <2>2, <2>3 DEF RetiredInv, MulOps, Product, HighWord
<1> QED
  BY <1>5, <1>6

(* Columns and carries depend on the operands only.                        *)
LEMMA SameColumns ==
  ASSUME a' = a, b' = b
  PROVE  /\ Carry' = Carry /\ \A k : Digit(k)' = Digit(k)
         /\ \A P, k : SumOf(P, k)' = SumOf(P, k)
<1>1. Carry' = Carry
  BY DEF Carry, AllOf, SumOf, Term
<1>2. \A P, k : SumOf(P, k)' = SumOf(P, k)
  BY DEF SumOf, Term
<1>3. ASSUME NEW k PROVE Digit(k)' = Digit(k)
  BY <1>1 DEF Digit, AllOf, SumOf, Term, B, H
<1> QED
  BY <1>1, <1>2, <1>3

(* An instruction that shifts, executed on zeros.                          *)
LEMMA ShiftIs ==
  ASSUME acc \in Nat, acc < Limit, Execute("MULACC_SHIFT", 0, 0)
  PROVE  acc' = acc \div B /\ retired'.rd = acc % B
<1>1. InValue("MULACC_SHIFT", 0, 0) = 0
  BY DEF InValue
<1>2. Sum("MULACC_SHIFT", 0, 0) = acc
  <2>1. Sum("MULACC_SHIFT", 0, 0) = (acc + 0) % Limit
    BY <1>1 DEF Sum, Limit
  <2>2. acc + 0 = acc
    OBVIOUS
  <2> QED BY <2>1, <2>2, LimitIs, SmallMod
<1>3. 0 % HalfBits = 0 /\ Power2[0] = 1
  BY WidthAssumption, Power2Def
<1>4. (acc % B) \div 1 = acc % B
  <2>1. acc % B \in Int
    BY Widths
  <2> QED BY <2>1
<1> QED
  BY <1>2, <1>3, <1>4 DEF Execute, Result, MulOps

LEMMA MulIs ==
  ASSUME acc \in Nat, NEW x \in Word, NEW y \in Word, acc + x * y < Limit, Execute("MULACC_MUL", x, y)
  PROVE  acc' = acc + x * y
<1>1. x \in Nat /\ y \in Nat
  BY Widths
<1>2. x * y \in Nat
  BY <1>1
<1>3. InValue("MULACC_MUL", x, y) = x * y
  BY ProductIs DEF InValue
<1>4. Sum("MULACC_MUL", x, y) = (acc + x * y) % Limit
  BY <1>3 DEF Sum, Limit
<1>5. (acc + x * y) % Limit = acc + x * y
  <2> DEFINE z == acc + x * y
  <2>1. z \in Nat /\ z < Limit /\ Limit \in Nat
    BY <1>2, LimitIs
  <2> HIDE DEF z
  <2>2. z % Limit = z
    BY <2>1, SmallMod
  <2> QED BY <2>2 DEF z
<1> QED
  BY <1>4, <1>5 DEF Execute, MulOps

-----------------------------------------------------------------------------
(* The step of a running program.                                          *)

LEMMA ClearKeeps ==
  ASSUME Types, program \in DOMAIN Programs, Clearing, pc <= ClearedWords[program],
         Execute("MULACC_SHIFT", 0, 0), c' = c, pc' = pc + 1, program' = program, a' = a, b' = b
  PROVE  ProgramInv'
<1> DEFINE N == Len(Programs[program])
           CW == ClearedWords[program]
<1>1. acc \in Nat /\ acc' = acc \div B
  BY ShiftIs DEF Types
<1>2. /\ CW \in {1, 2} /\ N \in Nat /\ pc \in Nat /\ pc >= 1
      /\ \A m \in Columns : StoreAt(program, m) \in (CW + 1)..N
      /\ \A i, j \in Rows : MulAt(program, i, j) \in (CW + 1)..N
  BY ProgramsAre DEF NothingElse, Places, Clearing, Types
<1>3. 0 \in Rows /\ 7 \in Columns /\ 0 \in Columns
  BY DEF Rows, Columns, SIZE
<1>4. CW + 1 <= N
  <2>1. StoreAt(program, 7) \in (CW + 1)..N
    BY <1>2, <1>3
  <2> HIDE DEF N, CW
  <2> QED BY <1>2, <2>1
<1>5. ToClear = CW - pc /\ ToClear' = CW - (pc + 1)
  BY DEF ToClear, ClearedWords
<1>6. B \in Nat /\ B > 2 /\ B' = B
  BY Widths DEF B, H
<1>7. CASE pc < CW
  <2>1. acc < B * B
    BY <1>2, <1>5, <1>7 DEF Clearing
  <2>2. acc' < B
    BY <1>1, <1>6, <2>1, QuotientBound
  <2>3. pc' \in 1..(N + 1) /\ ToClear' = 0 /\ ~ (pc' > CW)
    <3> HIDE DEF N, CW
    <3> QED BY <1>2, <1>4, <1>5, <1>7
  <2>4. Clearing'
    BY <1>6, <2>2, <2>3 DEF Clearing, Programs
  <2>5. Multiplying'
    BY <2>3 DEF Multiplying, ClearedWords
  <2> QED BY <2>4, <2>5 DEF ProgramInv
<1>8. CASE pc = CW
  <2>1. acc < B
    BY <1>2, <1>5, <1>8 DEF Clearing
  <2>2. acc' = 0
    <3>1. acc < B * 1
      BY <1>6, <2>1
    <3>2. acc \div B < 1
      BY <1>1, <1>6, <3>1, QuotientBound
    <3>3. acc \div B \in Nat
      BY <1>1, <1>6
    <3> QED BY <1>1, <3>2, <3>3
  <2>3. pc' \in 1..(N + 1) /\ ToClear' = -1
    <3> HIDE DEF N, CW
    <3> QED BY <1>2, <1>4, <1>5, <1>8
  <2>4. Clearing'
    BY <2>3 DEF Clearing, Programs
  <2>5. Done' = {}
    <3>1. \A i, j \in Rows : ~ (MulAt(program, i, j) < pc + 1)
      <4> HIDE DEF N, CW
      <4> QED BY <1>2, <1>8
    <3> QED BY <3>1 DEF Done, MulAt
  <2>6. SumOf({}, 0) = 0
    <3>1. {} \in SUBSET (Rows \X Rows) /\ 0 \in 0..8
      OBVIOUS
    <3> QED BY <3>1, SumNone
  <2>7. AtColumn(0)'
    <3>1. \A m \in Columns : ~ (m < 0) /\ ~ (StoreAt(program, m) < pc + 1)
      <4> HIDE DEF N, CW
      <4>1. \A m \in Columns : m \in Nat
        BY DEF Columns, SIZE
      <4> QED BY <1>2, <1>8, <4>1
    <3>2. acc' = Carry[0] + SumOf({}, 0)
      BY <2>2, <2>6, CarryDef DEF Types
    <3>3. Carry' = Carry /\ \A P, k : SumOf(P, k)' = SumOf(P, k)
      BY SameColumns
    <3> QED BY <2>5, <3>1, <3>2, <3>3 DEF AtColumn, StoreAt, SumOf, Term
  <2> QED BY <2>4, <2>7 DEF ProgramInv, Multiplying
<1> QED
  <2> HIDE DEF N, CW
  <2>1. pc < CW \/ pc = CW
    BY <1>2 DEF CW
  <2> QED BY <1>7, <1>8, <2>1

(* A column and what is carried into it fit the accumulator.               *)
LEMMA Fits ==
  ASSUME Operands
  PROVE  \A k \in 0..8 : Carry[k] + AllOf(k) < Limit
<1> DEFINE s == B * B
<1>1. B \in Nat /\ B > 2 /\ s \in Nat /\ Largest = s - 2 * B + 1 /\ 4 * s <= Limit /\ Limit \in Nat
  BY Widths, LimitIs DEF Largest
<1> HIDE DEF s
<1>2. ASSUME NEW k \in 0..8 PROVE Carry[k] + AllOf(k) < Limit
  <2>1. Carry[k] \in Nat /\ AllOf(k) \in Nat /\ Carry[k] <= 4 * B
    BY CarryDef, AllOfType, CarryBounds
  <2>2. AllOf(k) <= 4 * Largest
    <3> DEFINE n == (<<1, 2, 3, 4, 3, 2, 1, 0, 0>>)[k + 1]
    <3>1. n \in 0..4
      <4>1. k \in {0, 1, 2, 3, 4, 5, 6, 7, 8}
        OBVIOUS
      <4> QED BY <4>1
    <3>2. AllOf(k) <= n * Largest
      <4>1. {} \in SUBSET (Rows \X Rows)
        OBVIOUS
      <4> QED BY <4>1, SumBounds
    <3> HIDE DEF n
    <3>3. Largest \in Nat /\ n \in {0, 1, 2, 3, 4}
      BY <3>1, Widths DEF Largest
    <3>4. n * Largest \in {0, Largest, 2 * Largest, 3 * Largest, 4 * Largest}
      BY <3>3
    <3> HIDE DEF n
    <3> QED BY <2>1, <3>2, <3>3, <3>4
  <2> QED BY <1>1, <2>1, <2>2
<1> QED
  BY <1>2

(* The column at a multiplication or a store is its own.                   *)
LEMMA ColumnOfMul ==
  ASSUME program \in DOMAIN Programs, NEW i \in Rows, NEW j \in Rows, pc = MulAt(program, i, j),
         NEW k \in 0..8, \A m \in Columns : m < k <=> StoreAt(program, m) < pc
  PROVE  k = i + j
<1>1. i + j \in Columns /\ i + j \in Nat
  BY DEF Rows, Columns, SIZE
<1>2. pc \in Int /\ pc < StoreAt(program, i + j) /\ \A m \in Columns : m < i + j => StoreAt(program, m) < pc
  BY ProgramsAre DEF InOrder, Places
<1>3. StoreAt(program, i + j) \in Int
  BY <1>1, ProgramsAre DEF Places
<1>4. ~ (i + j < k)
  BY <1>1, <1>2, <1>3
<1>5. ~ (k < i + j)
  <2> SUFFICES ASSUME k < i + j PROVE FALSE
    OBVIOUS
  <2>1. k \in Columns
    BY <1>1 DEF Columns, SIZE
  <2> QED BY <1>2, <2>1
<1> QED
  BY <1>1, <1>4, <1>5

LEMMA ColumnOfStore ==
  ASSUME program \in DOMAIN Programs, NEW n \in Columns, pc = StoreAt(program, n),
         NEW k \in 0..8, \A m \in Columns : m < k <=> StoreAt(program, m) < pc
  PROVE  k = n
<1>1. \A m \in Columns : StoreAt(program, m) \in Int /\ m \in Int
  BY ProgramsAre DEF Places, Columns
<1>2. ~ (n < k)
  BY <1>1
<1>3. ~ (k < n)
  <2> SUFFICES ASSUME k < n PROVE FALSE
    OBVIOUS
  <2>1. k \in Columns /\ n \in Columns /\ k < n
    BY DEF Columns, SIZE
  <2>2. StoreAt(program, k) < StoreAt(program, n)
    BY <2>1, ProgramsAre DEF InOrder
  <2> QED BY <2>1, <2>2
<1> QED
  BY <1>1, <1>2, <1>3

LEMMA MulKeeps ==
  ASSUME Types, program \in DOMAIN Programs, NEW i \in Rows, NEW j \in Rows, pc = MulAt(program, i, j),
         NEW k \in 0..8, AtColumn(k),
         Execute("MULACC_MUL", a[i], b[j]), c' = c, pc' = pc + 1, program' = program, a' = a, b' = b
  PROVE  AtColumn(k)'
<1>1. k = i + j
  BY ColumnOfMul DEF AtColumn
<1>2. pc \in Nat /\ \A m \in Columns : StoreAt(program, m) \in Int /\ StoreAt(program, m) # pc
  <2>1. pc \in Nat /\ Programs[program][pc] = Mul(i, j)
    BY ProgramsAre DEF Places, Types
  <2>2. ASSUME NEW m \in Columns PROVE StoreAt(program, m) \in Int /\ StoreAt(program, m) # pc
    <3>1. StoreAt(program, m) \in Int /\ Programs[program][StoreAt(program, m)] = Store(m)
      BY ProgramsAre DEF Places
    <3>2. Mul(i, j).op # Store(m).op
      BY DEF Mul, Store
    <3> QED BY <2>1, <3>1, <3>2
  <2> QED BY <2>1, <2>2
<1>3. \A m, n \in Rows : MulAt(program, m, n) \in Int
  BY ProgramsAre DEF Places
<1>4. Done \in SUBSET (Rows \X Rows) /\ <<i, j>> \notin Done
  BY <1>2 DEF Done
<1>5. Done' = Done \cup {<<i, j>>}
  <2>1. Done' = {p \in Rows \X Rows : MulAt(program, p[1], p[2]) < pc + 1}
    BY DEF Done, MulAt
  <2>2. ASSUME NEW m \in Rows, NEW n \in Rows
        PROVE  MulAt(program, m, n) < pc + 1 <=> MulAt(program, m, n) < pc \/ (m = i /\ n = j)
    <3>1. MulAt(program, m, n) = pc <=> m = i /\ n = j
      BY ProgramsAre DEF InOrder
    <3> QED BY <1>2, <1>3, <3>1
  <2>3. ASSUME NEW p \in Rows \X Rows PROVE p \in Done' <=> p \in Done \cup {<<i, j>>}
    <3>1. PICK m \in Rows, n \in Rows : p = <<m, n>>
      OBVIOUS
    <3> QED BY <2>1, <2>2, <3>1 DEF Done
  <2>4. Done' \subseteq Rows \X Rows /\ Done \cup {<<i, j>>} \subseteq Rows \X Rows
    BY <2>1 DEF Done
  <2> QED BY <2>3, <2>4
<1>6. a[i] \in Word /\ b[j] \in Word /\ Operands /\ acc \in Nat
  BY DEF Types, Operands
<1> DEFINE s == SumOf(Done, k)
           t == SumOf(Done', k)
           p == a[i] * b[j]
<1>7. t = s + p
  BY <1>1, <1>4, <1>5, <1>6, SumAdds
<1>8. acc = Carry[k] + s
  BY DEF AtColumn
<1>9. Carry[k] \in Nat /\ s \in Nat /\ t \in Nat /\ p \in Nat /\ Carry[k] + t < Limit
  <2>1. Done' \in SUBSET (Rows \X Rows)
    BY <1>4, <1>5
  <2>2. Carry[k] \in Nat /\ s \in Nat /\ t \in Nat /\ t <= AllOf(k) /\ AllOf(k) \in Nat
    BY <1>4, <1>6, <2>1, CarryDef, SumBounds
  <2>3. Carry[k] + AllOf(k) < Limit
    BY <1>6, Fits
  <2>4. p \in Nat
    <3>1. a[i] \in Nat /\ b[j] \in Nat
      BY <1>6, Widths
    <3> QED BY <3>1
  <2> HIDE DEF s, t, p
  <2> QED BY <2>2, <2>3, <2>4, LimitIs
<1>10. acc' = Carry[k] + t
  <2>1. acc + p < Limit
    <3> HIDE DEF s, t, p
    <3> QED BY <1>7, <1>8, <1>9
  <2>2. acc' = acc + p
    BY <1>6, <2>1, MulIs
  <2> HIDE DEF s, t, p
  <2> QED BY <1>7, <1>8, <1>9, <2>2
<1>11. \A m \in Columns : m < k <=> StoreAt(program, m) < pc + 1
  BY <1>2 DEF AtColumn
<1>12. Carry' = Carry /\ (\A n : Digit(n)' = Digit(n)) /\ SumOf(Done', k) = SumOf(Done, k)'
  BY SameColumns DEF SumOf, Term
<1>13. \A m \in Columns : m < k => c'[m] = Digit(m)'
  BY <1>12 DEF AtColumn
<1> QED
  BY <1>10, <1>11, <1>12, <1>13 DEF AtColumn, StoreAt

LEMMA StoreKeeps ==
  ASSUME Types, program \in DOMAIN Programs, NEW k \in Columns, pc = StoreAt(program, k),
         AtColumn(k), Execute("MULACC_SHIFT", 0, 0),
         c' = [m \in DOMAIN c |-> IF m \in {k} THEN retired'.rd ELSE c[m]],
         pc' = pc + 1, program' = program, a' = a, b' = b
  PROVE  AtColumn(k + 1)'
<1>1. /\ \A m \in Columns : StoreAt(program, m) \in Int /\ m \in Int
      /\ \A i, j \in Rows : MulAt(program, i, j) \in Int /\ MulAt(program, i, j) # pc
      /\ pc \in Nat
  <2>1. pc \in Nat /\ Programs[program][pc] = Store(k)
    BY ProgramsAre DEF Places, Types
  <2>2. ASSUME NEW i \in Rows, NEW j \in Rows PROVE MulAt(program, i, j) \in Int /\ MulAt(program, i, j) # pc
    <3>1. MulAt(program, i, j) \in Int /\ Programs[program][MulAt(program, i, j)] = Mul(i, j)
      BY ProgramsAre DEF Places
    <3>2. Mul(i, j).op # Store(k).op
      BY DEF Mul, Store
    <3> QED BY <2>1, <3>1, <3>2
  <2> QED BY <2>1, <2>2, ProgramsAre DEF Places, Columns
<1>2. k \in 0..8 /\ k \in 0..7 /\ k + 1 \in 0..8
  BY DEF Columns, SIZE
<1>3. \A m \in Columns : m < k + 1 <=> StoreAt(program, m) < pc + 1
  <2>1. \A m \in Columns : m < k => StoreAt(program, m) < pc
    BY DEF AtColumn
  <2>2. \A m \in Columns : k < m => pc < StoreAt(program, m)
    BY ProgramsAre DEF InOrder
  <2>3. \A m \in Columns : m < k \/ m = k \/ k < m
    BY <1>1
  <2> QED BY <1>1, <2>1, <2>2, <2>3
<1>4. Done' = Done /\ Done \in SUBSET (Rows \X Rows)
  <2>1. Done' = {p \in Rows \X Rows : MulAt(program, p[1], p[2]) < pc + 1}
    BY DEF Done, MulAt
  <2>2. \A i, j \in Rows : MulAt(program, i, j) < pc + 1 <=> MulAt(program, i, j) < pc
    BY <1>1
  <2>3. \A p \in Rows \X Rows : MulAt(program, p[1], p[2]) < pc + 1 <=> MulAt(program, p[1], p[2]) < pc
    BY <2>2
  <2> QED BY <2>1, <2>3 DEF Done
<1>5. SumOf(Done, k) = AllOf(k)
  <2>1. ASSUME NEW i \in Rows, NEW j \in Rows, i + j = k PROVE <<i, j>> \in Done
    <3>1. MulAt(program, i, j) < StoreAt(program, i + j)
      BY ProgramsAre DEF InOrder
    <3> QED BY <2>1, <3>1 DEF Done
  <2> QED BY <1>2, <1>4, <2>1, SumAll
<1>6. SumOf(Done, k + 1) = 0
  <2>1. ASSUME NEW i \in Rows, NEW j \in Rows, i + j = k + 1 PROVE <<i, j>> \notin Done
    <3>1. k < i + j => StoreAt(program, k) < MulAt(program, i, j)
      BY ProgramsAre DEF InOrder
    <3>2. k < i + j
      BY <1>2, <2>1
    <3> QED BY <1>1, <3>1, <3>2 DEF Done
  <2> QED BY <1>2, <1>4, <2>1, SumNone
<1>7. acc = Carry[k] + AllOf(k) /\ acc' = acc \div B /\ retired'.rd = acc % B
  BY <1>5, ShiftIs DEF AtColumn, Types
<1>8. Digit(k) = retired'.rd /\ acc' = Carry[k + 1]
  BY <1>2, <1>7, CarryDef DEF Digit, Types
<1>9. Carry[k + 1] \in Nat
  BY <1>2, CarryDef DEF Types
<1>10. Carry' = Carry /\ (\A n : Digit(n)' = Digit(n)) /\ SumOf(Done, k + 1)' = SumOf(Done', k + 1)
  BY SameColumns DEF SumOf, Term
<1>11. ASSUME NEW m \in Columns, m < k + 1 PROVE c'[m] = Digit(m)'
  <2>1. m < k \/ m = k
    BY <1>1, <1>11
  <2>2. DOMAIN c = Columns
    BY DEF Types
  <2>3. CASE m = k
    BY <1>8, <1>10, <2>2, <2>3
  <2>4. CASE m < k
    <3>1. c[m] = Digit(m) /\ m # k
      BY <1>1, <2>4 DEF AtColumn
    <3> QED BY <1>10, <2>2, <3>1
  <2> QED BY <2>1, <2>3, <2>4
<1>12. acc' = Carry[k + 1] + SumOf(Done, k + 1)
  BY <1>6, <1>8, <1>9
<1> QED
  BY <1>3, <1>4, <1>10, <1>11, <1>12 DEF AtColumn, StoreAt

LEMMA ClearingKeeps ==
  ASSUME Types, program \in DOMAIN Programs, pc > ClearedWords[program], pc \in 1..Len(Programs[program]),
         pc' = pc + 1, program' = program
  PROVE  Clearing'
<1> DEFINE N == Len(Programs[program])
           CW == ClearedWords[program]
<1>1. CW \in Nat /\ N \in Nat
  BY ProgramsAre DEF NothingElse
<1>2. ToClear' = CW - (pc + 1)
  BY DEF ToClear, ClearedWords
<1>3. pc' \in 1..(N + 1) /\ ToClear' < 0 /\ ToClear' \in Int
  <2> HIDE DEF N
  <2>1. pc \in 1..N
    BY DEF N
  <2>2. pc > CW
    OBVIOUS
  <2> HIDE DEF CW
  <2> QED BY <1>1, <1>2, <2>1, <2>2
<1> QED
  BY <1>3 DEF Clearing, Programs

LEMMA StepKeeps ==
  ASSUME CombaInv, Step
  PROVE  CombaInv'
<1> USE DEF CombaInv
<1> DEFINE i == Programs[program][pc]
<1>1. program \in DOMAIN Programs /\ program # "none" /\ pc <= Len(Programs[program]) /\ pc \in Nat
  BY DEF Step, Running, Types
<1>2. Clearing /\ Multiplying
  BY <1>1 DEF ProgramInv
<1>3. pc \in 1..Len(Programs[program]) /\ pc \in 1..(Len(Programs[program]) + 1)
  <2> DEFINE N == Len(Programs[program])
  <2>1. N \in Nat /\ pc \in 1..(N + 1) /\ pc <= N
    BY <1>1, <1>2, ProgramsAre DEF NothingElse, Clearing
  <2> HIDE DEF N
  <2>2. pc \in 1..N /\ pc \in 1..(N + 1)
    BY <2>1
  <2> QED BY <2>2 DEF N
<1>4. pc' = pc + 1 /\ program' = program /\ a' = a /\ b' = b
  BY DEF Step
<1>5. 0 \in Word
  BY Widths DEF Word
<1>6. Operands' /\ (program \in {"none"} \cup DOMAIN Programs)' /\ (pc \in Nat)'
  <2>1. Operands'
    BY <1>4 DEF Types, Operands, Word, B, H
  <2>2. (program \in {"none"} \cup DOMAIN Programs)'
    BY <1>1, <1>4 DEF Programs
  <2>3. (pc \in Nat)'
    BY <1>1, <1>4
  <2> QED BY <2>1, <2>2, <2>3
<1>7. \/ pc <= ClearedWords[program] /\ i = Clear
      \/ \E m, n \in Rows : pc = MulAt(program, m, n)
      \/ \E k \in Columns : pc = StoreAt(program, k)
  BY <1>1, <1>3, ProgramsAre DEF NothingElse
<1>8. CASE pc <= ClearedWords[program] /\ i = Clear
  <2>1. Execute("MULACC_SHIFT", 0, 0) /\ c' = [k \in DOMAIN c |-> IF k \in {} THEN retired'.rd ELSE c[k]]
    BY <1>8 DEF Step, Clear
  <2>2. c' = c
    <3>1. \A n \in DOMAIN c : c'[n] = c[n] /\ DOMAIN c' = DOMAIN c /\ c = [k \in DOMAIN c |-> c[k]]
      BY <2>1 DEF Types
    <3>2. c \in [Columns -> Int]
      BY DEF Types
    <3> QED BY <2>1, <3>2
  <2>3. acc' \in Nat /\ acc' < Limit /\ RetiredInv'
    BY <1>5, <2>1, ExecuteKeeps DEF Types, MulAccOps
  <2>4. ProgramInv'
    BY <1>1, <1>2, <1>4, <1>8, <2>1, <2>2, ClearKeeps
  <2> QED BY <1>6, <2>2, <2>3, <2>4 DEF Types, Limit, B, H, Guard
<1>9. ASSUME NEW m \in Rows, NEW n \in Rows, pc = MulAt(program, m, n)
      PROVE  CombaInv'
  <2>1. pc > ClearedWords[program] /\ i = Mul(m, n)
    <3>1. pc \in (ClearedWords[program] + 1)..Len(Programs[program]) /\ i = Mul(m, n)
      BY <1>1, <1>9, ProgramsAre DEF Places
    <3>2. ClearedWords[program] \in Nat
      BY <1>1, ProgramsAre DEF NothingElse
    <3> QED BY <3>1, <3>2
  <2>2. Execute("MULACC_MUL", a[m], b[n]) /\ c' = c
    BY <2>1 DEF Step, Mul
  <2>3. PICK k \in 0..8 : AtColumn(k)
    BY <1>2, <2>1 DEF Multiplying
  <2>4. AtColumn(k)'
    BY <1>1, <1>4, <1>9, <2>2, <2>3, MulKeeps
  <2>5. acc' \in Nat /\ acc' < Limit /\ RetiredInv'
    <3>1. a[m] \in Word /\ b[n] \in Word
      BY DEF Types, Operands
    <3> QED BY <2>2, <3>1, ExecuteKeeps DEF Types, MulAccOps
  <2>6. Clearing'
    BY <1>1, <1>3, <1>4, <2>1, ClearingKeeps
  <2>7. ProgramInv'
    BY <2>4, <2>6 DEF ProgramInv, Multiplying
  <2> QED BY <1>6, <2>2, <2>5, <2>7 DEF Types, Limit, B, H, Guard
<1>10. ASSUME NEW k \in Columns, pc = StoreAt(program, k)
       PROVE  CombaInv'
  <2>1. pc > ClearedWords[program] /\ i = Store(k)
    <3>1. pc \in (ClearedWords[program] + 1)..Len(Programs[program]) /\ i = Store(k)
      BY <1>1, <1>10, ProgramsAre DEF Places
    <3>2. ClearedWords[program] \in Nat
      BY <1>1, ProgramsAre DEF NothingElse
    <3> QED BY <3>1, <3>2
  <2>2. /\ Execute("MULACC_SHIFT", 0, 0)
        /\ c' = [n \in DOMAIN c |-> IF n \in {k} THEN retired'.rd ELSE c[n]]
    BY <2>1 DEF Step, Store
  <2>3. PICK j \in 0..8 : AtColumn(j)
    BY <1>2, <2>1 DEF Multiplying
  <2>4. j = k
    BY <1>1, <1>10, <2>3, ColumnOfStore DEF AtColumn
  <2>5. AtColumn(k + 1)'
    BY <1>1, <1>4, <1>10, <2>2, <2>3, <2>4, StoreKeeps
  <2>6. acc' \in Nat /\ acc' < Limit /\ RetiredInv'
    BY <1>5, <2>2, ExecuteKeeps DEF Types, MulAccOps
  <2>7. Clearing'
    BY <1>1, <1>3, <1>4, <2>1, ClearingKeeps
  <2>8. ProgramInv'
    <3>1. k + 1 \in 0..8
      BY DEF Columns, SIZE
    <3> QED BY <2>5, <2>7, <3>1 DEF ProgramInv, Multiplying
  <2>9. c' \in [Columns -> Int]
    <3>1. retired'.rd \in Int
      <4>1. acc \in Nat /\ acc < Limit /\ B \in Nat /\ B > 0
        BY Widths DEF Types
      <4>2. retired'.rd = acc % B
        BY <2>2, <4>1, ShiftIs
      <4> QED BY <4>1, <4>2
    <3> QED BY <2>2, <3>1 DEF Types
  <2> QED BY <1>6, <2>6, <2>8, <2>9 DEF Types, Limit, B, H, Guard, Columns
<1> QED
  BY <1>7, <1>8, <1>9, <1>10

LEMMA CombaInvariant == Spec => []CombaInv
<1> USE DEF CombaInv
<1>1. B \in Nat /\ B > 2 /\ 0 \in Word /\ Limit > 0 /\ Limit \in Nat
  BY Widths, LimitIs DEF Word
<1>2. /\ Zeros(SIZE) \in [Rows -> Word] /\ Zeros(2 * SIZE) \in [Columns -> Int]
  BY <1>1 DEF Zeros, Rows, Columns
<1>3. Init => CombaInv
  <2> SUFFICES ASSUME Init PROVE CombaInv
    OBVIOUS
  <2>1. Types
    BY <1>1, <1>2 DEF Init, Types, Operands
  <2>2. RetiredInv
    <3>1. Product(0, 0) = 0
      <4>1. Product(0, 0) = 0 * 0
        BY <1>1, ProductIs
      <4> QED BY <4>1
    <3>2. 0 % B = 0
      BY <1>1
    <3> QED BY <1>1, <3>1, <3>2 DEF Init, Nop, RetiredInv
  <2> QED BY <2>1, <2>2 DEF Init, ProgramInv
<1>4. CombaInv /\ [Next]_vars => CombaInv'
  <2> SUFFICES ASSUME CombaInv, [Next]_vars PROVE CombaInv'
    OBVIOUS
  <2>1. CASE Other
    <3>1. PICK op \in MulOps \cup MulAccOps, x \in Words, y \in Words : Execute(op, x, y)
      BY <2>1 DEF Other
    <3>2. x \in Word /\ y \in Word
      BY WidthAssumption
    <3>3. acc' \in Nat /\ acc' < Limit /\ RetiredInv'
      BY <3>1, <3>2, ExecuteKeeps DEF Types
    <3>4. /\ program = "none" /\ program' = program /\ pc' = pc /\ a' = a /\ b' = b /\ c' = c
      BY <2>1 DEF Other
    <3>5. Types'
      BY <3>3, <3>4 DEF Types, Limit, Operands, Word, B, H, Guard, Programs
    <3> QED BY <3>3, <3>4, <3>5 DEF ProgramInv
  <2>2. CASE Call
    <3>1. PICK p \in DOMAIN Programs : acc < Cleared(p) /\ program' = p
      BY <2>2 DEF Call
    <3>2. /\ pc' = 1 /\ acc' = acc /\ c' = c /\ retired' = Nop
          /\ a' \in [Rows -> Digits] /\ b' \in [Rows -> Digits]
      BY <2>2 DEF Call, Rows
    <3>3. Operands'
      BY <3>2, WidthAssumption DEF Operands, Word, B, H
    <3>4. Types'
      BY <3>1, <3>2, <3>3 DEF Types, Limit, B, H, Guard, Programs
    <3>5. RetiredInv'
      <4>1. Product(0, 0) = 0
        <5>1. Product(0, 0) = 0 * 0
          BY <1>1, ProductIs
        <5> QED BY <5>1
      <4>2. 0 % B = 0
        BY <1>1
      <4> QED BY <1>1, <3>2, <4>1, <4>2 DEF Nop, RetiredInv, Word, B, H, Product, HighWord
    <3>6. ClearedWords[p] \in {1, 2} /\ Len(Programs[p]) \in Nat
      BY ProgramsAre DEF NothingElse
    <3>7. ToClear' = ClearedWords[p] - 1
      BY <3>1, <3>2 DEF ToClear, ClearedWords
    <3>8. Clearing'
      <4>1. pc' \in 1..(Len(Programs[p]) + 1)
        BY <3>2, <3>6
      <4>2. ToClear' >= 1 => acc < B * B
        BY <3>1, <3>6, <3>7 DEF Cleared
      <4>3. ToClear' = 0 => acc < B
        BY <3>1, <3>6, <3>7 DEF Cleared
      <4> QED BY <3>1, <3>2, <4>1, <4>2, <4>3 DEF Clearing, Programs, B, H
    <3>9. Multiplying'
      BY <3>1, <3>2, <3>6 DEF Multiplying, ClearedWords
    <3> QED BY <3>4, <3>5, <3>8, <3>9 DEF ProgramInv
  <2>3. CASE Step
    BY <2>3, StepKeeps
  <2>4. CASE Return
    <3>1. /\ program' = "none" /\ pc' = 0 /\ acc' = acc /\ retired' = retired
          /\ a' = Zeros(SIZE) /\ b' = Zeros(SIZE) /\ c' = Zeros(2 * SIZE)
      BY <2>4 DEF Return
    <3>2. Types'
      BY <1>2, <3>1 DEF Types, Operands, Limit, Word, B, H, Guard, Rows, Columns, Programs
    <3>3. RetiredInv'
      BY <3>1 DEF RetiredInv, Word, B, H, Product, HighWord
    <3> QED BY <3>1, <3>2, <3>3 DEF ProgramInv
  <2>5. CASE UNCHANGED vars
    <3>1. /\ acc' = acc /\ retired' = retired /\ program' = program /\ pc' = pc
          /\ a' = a /\ b' = b /\ c' = c
      BY <2>5 DEF vars
    <3>2. Types'
      BY <3>1 DEF Types, Operands, Limit, Word, B, H, Guard, Rows, Columns, Programs
    <3>3. RetiredInv'
      BY <3>1 DEF RetiredInv, Word, B, H, Product, HighWord
    <3>4. Clearing' <=> Clearing
      BY <3>1 DEF Clearing, ToClear, Programs, ClearedWords, B, H
    <3>5. \A k : AtColumn(k)' <=> AtColumn(k)
      <4>1. Carry' = Carry /\ (\A n : Digit(n)' = Digit(n)) /\ \A P, n : SumOf(P, n)' = SumOf(P, n)
        BY <3>1, SameColumns
      <4>2. Done' = Done
        BY <3>1 DEF Done, MulAt
      <4> QED BY <3>1, <4>1, <4>2 DEF AtColumn, StoreAt, SumOf, Term
    <3>6. Multiplying' <=> Multiplying
      BY <3>1, <3>5 DEF Multiplying, ClearedWords
    <3> QED BY <3>1, <3>2, <3>3, <3>4, <3>6 DEF ProgramInv
  <2> QED BY <2>1, <2>2, <2>3, <2>4, <2>5 DEF Next
<1> QED
  BY <1>3, <1>4, PTL DEF Spec

-----------------------------------------------------------------------------
(* The properties.                                                         *)

(* MUL, MULH, MULHSU and MULHU write what the RISC-V manual says for all   *)
(* operands, though the unit multiplies unsigned halves, and the multiplier*)
(* of three products agrees with the product.                              *)
THEOREM Multiplies == Spec => []MultipliesAsRiscV
<1>1. ASSUME CombaInv PROVE MultipliesAsRiscV
  <2> DEFINE x == retired.x
             y == retired.y
             op == retired.op
             word == CASE op = "MUL"    -> x * y
                       [] op = "MULH"   -> (Signed(x) * Signed(y)) \div B
                       [] op = "MULHSU" -> (Signed(x) * y) \div B
                       [] OTHER         -> (x * y) \div B
  <2>1. x \in Word /\ y \in Word
    BY <1>1 DEF CombaInv, RetiredInv
  <2>2. op \in MulOps => retired.rd = IF op = "MUL" THEN Product(x, y) % B ELSE HighWord(op, x, y)
    BY <1>1 DEF CombaInv, RetiredInv
  <2>3. op \in MulOps => retired.rd = word % B
    <3>1. Product(x, y) = x * y
      BY <2>1, ProductIs
    <3>2. /\ HighWord("MULH", x, y) = ((Signed(x) * Signed(y)) \div B) % B
          /\ HighWord("MULHSU", x, y) = ((Signed(x) * y) \div B) % B
          /\ HighWord("MULHU", x, y) = ((x * y) \div B) % B
      BY <2>1, HighWordIs
    <3> HIDE DEF x, y, op
    <3>3. CASE op = "MUL"
      <4>1. word = x * y
        BY <3>3
      <4> QED BY <2>2, <3>1, <3>3, <4>1
    <3>4. CASE op = "MULH"
      <4>1. word = (Signed(x) * Signed(y)) \div B
        BY <3>4
      <4> QED BY <2>2, <3>2, <3>4, <4>1
    <3>5. CASE op = "MULHSU"
      <4>1. word = (Signed(x) * y) \div B
        BY <3>5
      <4> QED BY <2>2, <3>2, <3>5, <4>1
    <3>6. CASE op = "MULHU"
      <4>1. word = (x * y) \div B
        BY <3>6
      <4> QED BY <2>2, <3>2, <3>6, <4>1
    <3> QED BY <3>3, <3>4, <3>5, <3>6 DEF MulOps
  <2>4. ASSUME NEW u \in {x * B + y, y * B + x, x * B + x, y * B + y},
               NEW v \in {x * B + y, y * B + x, x * B + x, y * B + y}
        PROVE  KaraMult(B, u, v) = u * v
    <3>1. ASSUME NEW m \in Word, NEW n \in Word PROVE m * B + n \in 0..(B * B - 1)
      <4>1. B \in Nat /\ m \in Nat /\ n \in Nat /\ m <= B - 1 /\ n < B
        BY Widths DEF Word
      <4>2. m * B <= (B - 1) * B /\ (B - 1) * B = B * B - B /\ m * B \in Nat /\ B * B \in Nat
        BY <4>1
      <4> QED BY <4>1, <4>2
    <3>2. u \in 0..(B * B - 1) /\ v \in 0..(B * B - 1)
      <4> HIDE DEF x, y
      <4> QED BY <2>1, <3>1
    <3>3. B \in Nat /\ B > 0
      BY Widths
    <3> QED BY <3>2, <3>3, KaraMultIs
  <2> QED BY <2>3, <2>4 DEF MultipliesAsRiscV
<1> QED
  BY <1>1, CombaInvariant, PTL

(* What the program has executed, as the properties see it.                *)
LEMMA ExecutedSoFar ==
  ASSUME CombaInv, program # "none", NEW k \in 0..8, AtColumn(k)
  PROVE  Stored = {m \in Columns : m < k} /\ Multiplied = Done
<1> DEFINE N == Len(Programs[program])
           P == Programs[program]
<1>1. program \in DOMAIN Programs
  BY DEF CombaInv, Types
<1>2. pc \in 1..(N + 1) /\ N \in Nat
  BY <1>1, ProgramsAre DEF CombaInv, ProgramInv, Clearing, NothingElse
<1>3. \A m \in Columns : StoreAt(program, m) \in 1..N /\ P[StoreAt(program, m)] = Store(m)
  BY <1>1, ProgramsAre DEF Places, NothingElse
<1>4. \A i, j \in Rows : MulAt(program, i, j) \in 1..N /\ P[MulAt(program, i, j)] = Mul(i, j)
  <2>1. ASSUME NEW i \in Rows, NEW j \in Rows
        PROVE  MulAt(program, i, j) \in 1..N /\ P[MulAt(program, i, j)] = Mul(i, j)
    <3>1. MulAt(program, i, j) \in (ClearedWords[program] + 1)..N /\ P[MulAt(program, i, j)] = Mul(i, j)
      BY <1>1, ProgramsAre DEF Places
    <3>2. ClearedWords[program] \in {1, 2}
      BY <1>1, ProgramsAre DEF NothingElse
    <3> HIDE DEF N
    <3>3. MulAt(program, i, j) \in 1..N
      BY <1>2, <3>1, <3>2
    <3> QED BY <3>1, <3>3
  <2> QED BY <2>1
<1>5. \A n \in 1..N :
         \/ P[n] = Clear
         \/ \E i, j \in Rows : n = MulAt(program, i, j)
         \/ \E m \in Columns : n = StoreAt(program, m)
  BY <1>1, ProgramsAre DEF NothingElse
<1>6. Before = {P[n] : n \in 1..(pc - 1)}
  BY DEF Before
<1>7. \A n : n \in 1..(pc - 1) <=> n \in 1..N /\ n < pc
  <2> HIDE DEF N
  <2> QED BY <1>2
<1> HIDE DEF N
<1>8. ASSUME NEW m \in Columns PROVE Store(m) \in Before <=> StoreAt(program, m) < pc
  <2>1. ASSUME StoreAt(program, m) < pc PROVE Store(m) \in Before
    BY <1>3, <1>6, <1>7, <2>1
  <2>2. ASSUME NEW n \in 1..N, n < pc, P[n] = Store(m) PROVE StoreAt(program, m) < pc
    <3>1. Store(m) # Clear /\ \A i, j \in Rows : Store(m) # Mul(i, j)
      <4>1. Store(m).to # Clear.to
        BY DEF Store, Clear
      <4>2. \A i, j \in Rows : Store(m).op # Mul(i, j).op
        BY DEF Store, Mul
      <4> QED BY <4>1, <4>2
    <3>2. PICK q \in Columns : n = StoreAt(program, q)
      BY <1>4, <1>5, <2>2, <3>1
    <3>3. Store(q) = Store(m)
      BY <1>3, <2>2, <3>2
    <3>4. Store(q).to = {q} /\ Store(m).to = {m}
      BY DEF Store
    <3>5. q = m
      BY <3>3, <3>4
    <3> QED BY <2>2, <3>2, <3>5
  <2> QED BY <1>6, <1>7, <2>1, <2>2
<1>9. ASSUME NEW i \in Rows, NEW j \in Rows PROVE Mul(i, j) \in Before <=> MulAt(program, i, j) < pc
  <2>1. ASSUME MulAt(program, i, j) < pc PROVE Mul(i, j) \in Before
    BY <1>4, <1>6, <1>7, <2>1
  <2>2. ASSUME NEW n \in 1..N, n < pc, P[n] = Mul(i, j) PROVE MulAt(program, i, j) < pc
    <3>1. Mul(i, j) # Clear /\ \A m \in Columns : Store(m) # Mul(i, j)
      <4>1. Mul(i, j).op # Clear.op
        BY DEF Mul, Clear
      <4>2. \A m \in Columns : Store(m).op # Mul(i, j).op
        BY DEF Store, Mul
      <4> QED BY <4>1, <4>2
    <3>2. PICK q \in Rows, r \in Rows : n = MulAt(program, q, r)
      BY <1>3, <1>5, <2>2, <3>1
    <3>3. Mul(q, r) = Mul(i, j)
      BY <1>4, <2>2, <3>2
    <3>4. Mul(q, r).i = q /\ Mul(q, r).j = r /\ Mul(i, j).i = i /\ Mul(i, j).j = j
      BY DEF Mul
    <3>5. q = i /\ r = j
      BY <3>3, <3>4
    <3> QED BY <2>2, <3>2, <3>5
  <2> QED BY <1>6, <1>7, <2>1, <2>2
<1>10. Stored = {m \in Columns : m < k}
  BY <1>8 DEF Stored, AtColumn
<1>11. Multiplied = Done
  <2>1. \A p \in Rows \X Rows : Mul(p[1], p[2]) \in Before <=> MulAt(program, p[1], p[2]) < pc
    BY <1>9
  <2> QED BY <2>1 DEF Multiplied, Done
<1> QED
  BY <1>10, <1>11

(* The accumulator of a running program is the carry and the column so     *)
(* far, whatever was executed before it: no operand overflows it.          *)
THEOREM Columnwise == Spec => []ColumnsExact
<1>1. ASSUME CombaInv PROVE ColumnsExact
  <2> SUFFICES ASSUME program # "none", pc > ClearedWords[program]
               PROVE  \E k \in 0..(2 * SIZE) :
                        /\ Stored = 0..(k - 1) /\ \A n \in Stored : c[n] = Digit(n)
                        /\ acc = Carry[k] + SumOf(Multiplied, k)
    BY DEF ColumnsExact
  <2>1. PICK k \in 0..8 : AtColumn(k)
    BY <1>1 DEF CombaInv, ProgramInv, Multiplying
  <2>2. Stored = {m \in Columns : m < k} /\ Multiplied = Done
    BY <1>1, <2>1, ExecutedSoFar
  <2>3. {m \in Columns : m < k} = 0..(k - 1) /\ 0..(2 * SIZE) = 0..8
    BY DEF Columns, SIZE
  <2> QED BY <2>1, <2>2, <2>3 DEF AtColumn
<1> QED
  BY <1>1, CombaInvariant, PTL

LEMMA AtReturn ==
  ASSUME CombaInv, program # "none", ~ Running
  PROVE  AtColumn(8) /\ acc = 0 /\ \A k \in Columns : c[k] = Digit(k)
<1> DEFINE N == Len(Programs[program])
<1>1. program \in DOMAIN Programs
  BY DEF CombaInv, Types
<1>2. N \in Nat /\ N = StoreAt(program, 7) /\ ClearedWords[program] < N /\ pc \in 1..(N + 1) /\ ~ (pc <= N)
  <2>1. N \in Nat /\ N = StoreAt(program, 7) /\ pc \in 1..(N + 1) /\ ~ (pc <= N) /\ ClearedWords[program] \in Nat
    BY <1>1, ProgramsAre DEF CombaInv, ProgramInv, Clearing, NothingElse, Running
  <2>2. 7 \in Columns
    BY DEF Columns, SIZE
  <2>3. StoreAt(program, 7) \in (ClearedWords[program] + 1)..N
    BY <1>1, <2>2, ProgramsAre DEF Places
  <2> HIDE DEF N
  <2> QED BY <2>1, <2>3
<1> HIDE DEF N
<1>3. pc = N + 1 /\ pc > ClearedWords[program]
  <2> DEFINE CW == ClearedWords[program]
  <2>1. CW \in Nat
    BY <1>1, ProgramsAre DEF NothingElse
  <2> HIDE DEF CW
  <2>2. CW < N
    BY <1>2 DEF CW
  <2>3. pc = N + 1 /\ pc > CW
    BY <1>2, <2>1, <2>2
  <2> QED BY <2>3 DEF CW
<1>4. PICK k \in 0..8 : AtColumn(k)
  BY <1>3 DEF CombaInv, ProgramInv, Multiplying
<1>5. k = 8
  <2>1. 7 \in Columns /\ StoreAt(program, 7) < pc
    BY <1>2, <1>3 DEF Columns, SIZE
  <2>2. 7 < k
    BY <1>4, <2>1 DEF AtColumn
  <2> QED BY <2>2
<1>6. acc = 0
  <2>1. Operands
    BY DEF CombaInv, Types
  <2>2. Carry[8] = 0
    BY <2>1, CarryBounds
  <2>3. SumOf(Done, 8) = 0
    <3>1. Done \in SUBSET (Rows \X Rows) /\ 8 \in 0..8
      BY DEF Done
    <3>2. ASSUME NEW i \in Rows, NEW j \in Rows, i + j = 8 PROVE <<i, j>> \notin Done
      BY <3>2 DEF Rows, SIZE
    <3> QED BY <3>1, <3>2, SumNone
  <2> QED BY <1>4, <1>5, <2>2, <2>3 DEF AtColumn
<1>7. \A m \in Columns : c[m] = Digit(m)
  <2>1. \A m \in Columns : m < 8
    BY DEF Columns, SIZE
  <2> QED BY <1>4, <1>5, <2>1 DEF AtColumn
<1> QED
  BY <1>4, <1>5, <1>6, <1>7

(* Both programs return every digit of the product and an empty accumulator*)
(* whatever the operands.                                                  *)
THEOREM Returns == Spec => []ReturnsProduct
<1>1. ASSUME CombaInv PROVE ReturnsProduct
  BY <1>1, AtReturn DEF ReturnsProduct
<1> QED
  BY <1>1, CombaInvariant, PTL

(* MULACC_SUB subtracts: what the next two shifts return is the difference,*)
(* modulo two words, for every value of the accumulator.                   *)
THEOREM Subtracts == Spec => SubtractsTwoWords
<1>1. ASSUME CombaInv,
             NEW x \in Words, NEW y \in Words, Execute("MULACC_SUB", x, y)
      PROVE  (acc' + y * B + x - acc) % (B * B) = 0
  <2>1. B \in Nat /\ B > 2 /\ x \in Nat /\ y \in Nat /\ x < B /\ y < B /\ acc \in Nat
    BY <1>1, Widths, WidthAssumption DEF CombaInv, Types, Word
  <2> DEFINE s == B * B
             m == y * B + x
             d == s - m
             z == acc + (d % s)
             q == d \div s
             t == z \div (s * Guard)
  <2>2. s \in Nat /\ s > 0 /\ m \in Nat /\ Guard \in Nat /\ Guard > 0
    BY <2>1, Widths
  <2>3. Not(y) * B + Not(x) + 1 = d
    <3>1. (B - 1 - y) * B = s - B - y * B
      BY <2>1
    <3>2. y * B \in Int /\ s \in Int
      BY <2>1
    <3> QED BY <2>1, <3>1, <3>2 DEF Not
  <2>4. acc' = z % (s * Guard)
    BY <1>1, <2>3 DEF Execute, Sum, InValue, MulOps
  <2> HIDE DEF s, m
  <2>5. d \in Int /\ d = s * q + (d % s) /\ q \in Int /\ d % s \in Int
    BY <2>2, DivMod
  <2>6. z \in Int /\ s * Guard \in Nat /\ s * Guard > 0
    BY <2>1, <2>2, <2>5
  <2> DEFINE L == s * Guard
  <2>7. z = L * t + (z % L) /\ t \in Int /\ z % L \in Int
    <3>1. L \in Nat /\ L > 0
      BY <2>6
    <3> HIDE DEF L, z
    <3>2. z = L * (z \div L) + (z % L) /\ z \div L \in Int /\ z % L \in Int
      BY <2>6, <3>1, DivMod
    <3> QED BY <3>2 DEF L
  <2>8. acc' + m - acc = s * (1 - q - Guard * t)
    <3>1. L * t = s * (Guard * t) /\ Guard * t \in Int
      BY <2>2, <2>7
    <3>2. acc' = z - s * (Guard * t)
      <4> DEFINE u == s * (Guard * t)
                 v == z % L
      <4>1. z = u + v /\ acc' = v /\ u \in Int /\ v \in Int
        BY <2>2, <2>4, <2>7, <3>1
      <4> HIDE DEF u, v, z
      <4>2. acc' = z - u
        BY <2>6, <4>1
      <4> QED BY <4>2 DEF u
    <3>3. z = acc + s - m - s * q
      <4> DEFINE u == s * q
                 v == d % s
      <4>1. u \in Int /\ v \in Int /\ s - m = u + v /\ z = acc + v
        BY <2>2, <2>5
      <4> HIDE DEF u, v, z
      <4>2. z = acc + s - m - u
        BY <2>1, <2>2, <4>1
      <4> QED BY <4>2 DEF u
    <3>4. s * (1 - q - Guard * t) = s - s * q - s * (Guard * t)
      <4> DEFINE u == Guard * t
      <4>1. u \in Int
        BY <3>1
      <4> HIDE DEF u, q
      <4>2. s * (1 - q - u) = s - s * q - s * u
        BY <2>2, <2>5, <4>1
      <4> QED BY <4>2 DEF u
    <3> DEFINE u == s * (Guard * t)
               v == s * q
               w == s * (1 - q - Guard * t)
    <3>5. u \in Int /\ v \in Int /\ w = s - v - u /\ acc' = z - u /\ z = acc + s - m - v
      BY <2>2, <2>5, <3>1, <3>2, <3>3, <3>4
    <3> HIDE DEF u, v, w, z
    <3>6. acc' + m - acc = w
      BY <2>1, <2>2, <2>6, <3>5
    <3> QED BY <3>6 DEF w
  <2>9. 1 - q - Guard * t \in Int
    BY <2>2, <2>5, <2>7
  <2> DEFINE k == 1 - q - Guard * t
  <2>10. (0 + s * k) % s = 0 % s /\ 0 % s = 0
    <3>1. k \in Int
      BY <2>9
    <3> HIDE DEF k
    <3> QED BY <2>2, <3>1, ModPlus
  <2>11. 0 + s * k = s * k
    <3>1. k \in Int
      BY <2>9
    <3> HIDE DEF k
    <3> QED BY <2>2, <3>1
  <2>12. acc' + y * B + x - acc = acc' + m - acc
    <3>1. acc' \in Int
      BY <2>4, <2>6
    <3>2. y * B \in Int
      BY <2>1
    <3> QED BY <2>1, <3>1, <3>2 DEF m
  <2> HIDE DEF k
  <2> QED BY <2>8, <2>10, <2>11, <2>12 DEF s, k
<1>2. ASSUME CombaInv, [Next]_vars
      PROVE  [\A x, y \in Words :
                Execute("MULACC_SUB", x, y) => (acc' + y * B + x - acc) % (B * B) = 0]_vars
  BY <1>1, <1>2
<1> QED
  BY <1>2, CombaInvariant, PTL DEF SubtractsTwoWords, Spec

-----------------------------------------------------------------------------
(* The digits are those of the product: what the callers rely on.          *)

Number(w) == w[0] + B * (w[1] + B * (w[2] + B * w[3]))
LongNumber(w) ==
  w[0] + B * (w[1] + B * (w[2] + B * (w[3] + B * (w[4] + B * (w[5] + B * (w[6] + B * w[7]))))))

(* When a program has returned, its result is the product of its operands  *)
(* as numbers of eight and of four words.                                  *)
ProductOfNumbers == program # "none" /\ ~ Running => LongNumber(c) = Number(a) * Number(b)

LEMMA Digits2 ==
  ASSUME Operands, NEW k \in 0..7
  PROVE  Carry[k] + AllOf(k) = B * Carry[k + 1] + Digit(k) /\ Digit(k) \in 0..(B - 1)
<1> DEFINE z == Carry[k] + AllOf(k)
<1>1. z \in Nat /\ B \in Nat /\ B > 0 /\ k \in 0..8
  BY CarryDef, AllOfType, Widths
<1>2. Digit(k) = z % B /\ Carry[k + 1] = z \div B
  BY CarryDef DEF Digit
<1> HIDE DEF z
<1>3. z = B * (z \div B) + (z % B) /\ z % B \in 0..(B - 1)
  BY <1>1, DivMod
<1> QED
  BY <1>2, <1>3 DEF z

(* One place of the positional sum: what is carried out of it is counted   *)
(* at the next.                                                            *)
LEMMA Place ==
  ASSUME NEW n \in Int, NEW carry \in Int, NEW sum \in Int, NEW out \in Int, NEW digit \in Int,
         NEW rest \in Int, NEW above \in Int,
         carry + sum = n * out + digit, rest = out + above
  PROVE  digit + n * rest = carry + (sum + n * above)
<1>1. n * rest = n * out + n * above /\ n * out \in Int /\ n * above \in Int
  OBVIOUS
<1> QED
  BY <1>1

(* The polynomial product of two numbers of four digits.                   *)
LEMMA FourByFour ==
  ASSUME NEW n \in Int,
         NEW a0 \in Int, NEW a1 \in Int, NEW a2 \in Int, NEW a3 \in Int,
         NEW b0 \in Int, NEW b1 \in Int, NEW b2 \in Int, NEW b3 \in Int
  PROVE  (a0 + n * (a1 + n * (a2 + n * a3))) * (b0 + n * (b1 + n * (b2 + n * b3)))
         = a0 * b0 + n * (a0 * b1 + a1 * b0 + n * (a0 * b2 + a1 * b1 + a2 * b0
           + n * (a0 * b3 + a1 * b2 + a2 * b1 + a3 * b0 + n * (a1 * b3 + a2 * b2 + a3 * b1
           + n * (a2 * b3 + a3 * b2 + n * (a3 * b3))))))
OBVIOUS

LEMMA DigitsOfProduct ==
  ASSUME Operands, \A k \in Columns : c[k] = Digit(k)
  PROVE  LongNumber(c) = Number(a) * Number(b)
<1> DEFINE C0 == Carry[0]  S0 == AllOf(0)  D0 == c[0]
           C1 == Carry[1]  S1 == AllOf(1)  D1 == c[1]
           C2 == Carry[2]  S2 == AllOf(2)  D2 == c[2]
           C3 == Carry[3]  S3 == AllOf(3)  D3 == c[3]
           C4 == Carry[4]  S4 == AllOf(4)  D4 == c[4]
           C5 == Carry[5]  S5 == AllOf(5)  D5 == c[5]
           C6 == Carry[6]  S6 == AllOf(6)  D6 == c[6]
           C7 == Carry[7]  S7 == AllOf(7)  D7 == c[7]
           C8 == Carry[8]
<1>1. B \in Nat /\ B > 0
  BY Widths
<1>2. \A k \in 0..7 : /\ Carry[k] + AllOf(k) = B * Carry[k + 1] + c[k]
                      /\ Carry[k] \in Int /\ AllOf(k) \in Int /\ c[k] \in Int
  <2>1. Columns = 0..7 /\ \A k \in 0..7 : k \in 0..8
    BY DEF Columns, SIZE
  <2>2. ASSUME NEW k \in 0..7
        PROVE  /\ Carry[k] + AllOf(k) = B * Carry[k + 1] + c[k]
               /\ Carry[k] \in Int /\ AllOf(k) \in Int /\ c[k] \in Int
    <3>1. c[k] = Digit(k) /\ Digit(k) \in Int
      BY <2>1, Digits2
    <3>2. Carry[k] \in Int /\ AllOf(k) \in Int
      BY <2>1, CarryDef, AllOfType
    <3>3. Carry[k] + AllOf(k) = B * Carry[k + 1] + Digit(k)
      BY Digits2
    <3> QED BY <3>1, <3>2, <3>3
  <2> QED BY <2>2
<1>3. C0 = 0 /\ C8 = 0
  BY CarryDef, CarryBounds
<1>4. /\ C0 + S0 = B * C1 + D0 /\ C0 \in Int /\ S0 \in Int /\ D0 \in Int
      /\ C1 + S1 = B * C2 + D1 /\ C1 \in Int /\ S1 \in Int /\ D1 \in Int
      /\ C2 + S2 = B * C3 + D2 /\ C2 \in Int /\ S2 \in Int /\ D2 \in Int
      /\ C3 + S3 = B * C4 + D3 /\ C3 \in Int /\ S3 \in Int /\ D3 \in Int
      /\ C4 + S4 = B * C5 + D4 /\ C4 \in Int /\ S4 \in Int /\ D4 \in Int
      /\ C5 + S5 = B * C6 + D5 /\ C5 \in Int /\ S5 \in Int /\ D5 \in Int
      /\ C6 + S6 = B * C7 + D6 /\ C6 \in Int /\ S6 \in Int /\ D6 \in Int
      /\ C7 + S7 = B * C8 + D7 /\ C7 \in Int /\ S7 \in Int /\ D7 \in Int
  BY <1>2
<1> DEFINE T7 == S7
           T6 == S6 + B * T7
           T5 == S5 + B * T6
           T4 == S4 + B * T5
           T3 == S3 + B * T4
           T2 == S2 + B * T3
           T1 == S1 + B * T2
           T0 == S0 + B * T1
           R7 == D7
           R6 == D6 + B * R7
           R5 == D5 + B * R6
           R4 == D4 + B * R5
           R3 == D3 + B * R4
           R2 == D2 + B * R3
           R1 == D1 + B * R2
           R0 == D0 + B * R1
<1> HIDE DEF C0, C1, C2, C3, C4, C5, C6, C7, C8, S0, S1, S2, S3, S4, S5, S6, S7, D0, D1, D2, D3, D4, D5, D6, D7
<1>5. T7 \in Int /\ R7 = C7 + T7
  BY <1>1, <1>3, <1>4
<1> HIDE DEF T7, R7
<1>6. T6 \in Int /\ R6 = C6 + T6
  <2>1. C7 \in Int /\ T7 \in Int /\ R7 \in Int
    BY <1>4, <1>5
  <2>2. T6 \in Int
    BY <1>1, <1>4, <2>1
  <2>3. D6 + B * R7 = C6 + (S6 + B * T7)
    BY <1>1, <1>4, <1>5, <2>1, Place
  <2> QED BY <2>2, <2>3
<1> HIDE DEF T6, R6
<1>7. T5 \in Int /\ R5 = C5 + T5
  <2>1. C6 \in Int /\ T6 \in Int /\ R6 \in Int
    BY <1>4, <1>6
  <2>2. T5 \in Int
    BY <1>1, <1>4, <2>1
  <2>3. D5 + B * R6 = C5 + (S5 + B * T6)
    BY <1>1, <1>4, <1>6, <2>1, Place
  <2> QED BY <2>2, <2>3
<1> HIDE DEF T5, R5
<1>8. T4 \in Int /\ R4 = C4 + T4
  <2>1. C5 \in Int /\ T5 \in Int /\ R5 \in Int
    BY <1>4, <1>7
  <2>2. T4 \in Int
    BY <1>1, <1>4, <2>1
  <2>3. D4 + B * R5 = C4 + (S4 + B * T5)
    BY <1>1, <1>4, <1>7, <2>1, Place
  <2> QED BY <2>2, <2>3
<1> HIDE DEF T4, R4
<1>9. T3 \in Int /\ R3 = C3 + T3
  <2>1. C4 \in Int /\ T4 \in Int /\ R4 \in Int
    BY <1>4, <1>8
  <2>2. T3 \in Int
    BY <1>1, <1>4, <2>1
  <2>3. D3 + B * R4 = C3 + (S3 + B * T4)
    BY <1>1, <1>4, <1>8, <2>1, Place
  <2> QED BY <2>2, <2>3
<1> HIDE DEF T3, R3
<1>10. T2 \in Int /\ R2 = C2 + T2
  <2>1. C3 \in Int /\ T3 \in Int /\ R3 \in Int
    BY <1>4, <1>9
  <2>2. T2 \in Int
    BY <1>1, <1>4, <2>1
  <2>3. D2 + B * R3 = C2 + (S2 + B * T3)
    BY <1>1, <1>4, <1>9, <2>1, Place
  <2> QED BY <2>2, <2>3
<1> HIDE DEF T2, R2
<1>11. T1 \in Int /\ R1 = C1 + T1
  <2>1. C2 \in Int /\ T2 \in Int /\ R2 \in Int
    BY <1>4, <1>10
  <2>2. T1 \in Int
    BY <1>1, <1>4, <2>1
  <2>3. D1 + B * R2 = C1 + (S1 + B * T2)
    BY <1>1, <1>4, <1>10, <2>1, Place
  <2> QED BY <2>2, <2>3
<1> HIDE DEF T1, R1
<1>12. T0 \in Int /\ R0 = C0 + T0
  <2>1. C1 \in Int /\ T1 \in Int /\ R1 \in Int
    BY <1>4, <1>11
  <2>2. T0 \in Int
    BY <1>1, <1>4, <2>1
  <2>3. D0 + B * R1 = C0 + (S0 + B * T1)
    BY <1>1, <1>4, <1>11, <2>1, Place
  <2> QED BY <2>2, <2>3
<1>13. R0 = T0
  BY <1>3, <1>12
<1>14. LongNumber(c) = R0
  BY DEF LongNumber, R0, R1, R2, R3, R4, R5, R6, R7, D0, D1, D2, D3, D4, D5, D6, D7
<1> DEFINE a0 == a[0]  b0 == b[0]
           a1 == a[1]  b1 == b[1]
           a2 == a[2]  b2 == b[2]
           a3 == a[3]  b3 == b[3]
<1>15. /\ a0 \in Int /\ b0 \in Int
      /\ a1 \in Int /\ b1 \in Int
      /\ a2 \in Int /\ b2 \in Int
      /\ a3 \in Int /\ b3 \in Int
  BY Widths DEF Operands, Rows, SIZE, Word
<1>16. /\ S0 = a0 * b0
      /\ S1 = a0 * b1 + a1 * b0
      /\ S2 = a0 * b2 + a1 * b1 + a2 * b0
      /\ S3 = a0 * b3 + a1 * b2 + a2 * b1 + a3 * b0
      /\ S4 = a1 * b3 + a2 * b2 + a3 * b1
      /\ S5 = a2 * b3 + a3 * b2
      /\ S6 = a3 * b3
      /\ S7 = 0
  <2>1. Rows = {0, 1, 2, 3}
    BY DEF Rows, SIZE
  <2>2. S0 = a0 * b0
    <3>1. /\ Term(Rows \X Rows, 0, 0) = a0 * b0
          /\ Term(Rows \X Rows, 1, 0 - 1) = 0
          /\ Term(Rows \X Rows, 2, 0 - 2) = 0
          /\ Term(Rows \X Rows, 3, 0 - 3) = 0
      BY <2>1 DEF Term
    <3> QED BY <1>15, <3>1 DEF AllOf, SumOf, S0
  <2>3. S1 = a0 * b1 + a1 * b0
    <3>1. /\ Term(Rows \X Rows, 0, 1) = a0 * b1
          /\ Term(Rows \X Rows, 1, 1 - 1) = a1 * b0
          /\ Term(Rows \X Rows, 2, 1 - 2) = 0
          /\ Term(Rows \X Rows, 3, 1 - 3) = 0
      BY <2>1 DEF Term
    <3> QED BY <1>15, <3>1 DEF AllOf, SumOf, S1
  <2>4. S2 = a0 * b2 + a1 * b1 + a2 * b0
    <3>1. /\ Term(Rows \X Rows, 0, 2) = a0 * b2
          /\ Term(Rows \X Rows, 1, 2 - 1) = a1 * b1
          /\ Term(Rows \X Rows, 2, 2 - 2) = a2 * b0
          /\ Term(Rows \X Rows, 3, 2 - 3) = 0
      BY <2>1 DEF Term
    <3> QED BY <1>15, <3>1 DEF AllOf, SumOf, S2
  <2>5. S3 = a0 * b3 + a1 * b2 + a2 * b1 + a3 * b0
    <3>1. /\ Term(Rows \X Rows, 0, 3) = a0 * b3
          /\ Term(Rows \X Rows, 1, 3 - 1) = a1 * b2
          /\ Term(Rows \X Rows, 2, 3 - 2) = a2 * b1
          /\ Term(Rows \X Rows, 3, 3 - 3) = a3 * b0
      BY <2>1 DEF Term
    <3> QED BY <1>15, <3>1 DEF AllOf, SumOf, S3
  <2>6. S4 = a1 * b3 + a2 * b2 + a3 * b1
    <3>1. /\ Term(Rows \X Rows, 0, 4) = 0
          /\ Term(Rows \X Rows, 1, 4 - 1) = a1 * b3
          /\ Term(Rows \X Rows, 2, 4 - 2) = a2 * b2
          /\ Term(Rows \X Rows, 3, 4 - 3) = a3 * b1
      BY <2>1 DEF Term
    <3> QED BY <1>15, <3>1 DEF AllOf, SumOf, S4
  <2>7. S5 = a2 * b3 + a3 * b2
    <3>1. /\ Term(Rows \X Rows, 0, 5) = 0
          /\ Term(Rows \X Rows, 1, 5 - 1) = 0
          /\ Term(Rows \X Rows, 2, 5 - 2) = a2 * b3
          /\ Term(Rows \X Rows, 3, 5 - 3) = a3 * b2
      BY <2>1 DEF Term
    <3> QED BY <1>15, <3>1 DEF AllOf, SumOf, S5
  <2>8. S6 = a3 * b3
    <3>1. /\ Term(Rows \X Rows, 0, 6) = 0
          /\ Term(Rows \X Rows, 1, 6 - 1) = 0
          /\ Term(Rows \X Rows, 2, 6 - 2) = 0
          /\ Term(Rows \X Rows, 3, 6 - 3) = a3 * b3
      BY <2>1 DEF Term
    <3> QED BY <1>15, <3>1 DEF AllOf, SumOf, S6
  <2>9. S7 = 0
    <3>1. /\ Term(Rows \X Rows, 0, 7) = 0
          /\ Term(Rows \X Rows, 1, 7 - 1) = 0
          /\ Term(Rows \X Rows, 2, 7 - 2) = 0
          /\ Term(Rows \X Rows, 3, 7 - 3) = 0
      BY <2>1 DEF Term
    <3> QED BY <1>15, <3>1 DEF AllOf, SumOf, S7
  <2> QED BY <2>2, <2>3, <2>4, <2>5, <2>6, <2>7, <2>8, <2>9
<1>17. Number(a) = a0 + B * (a1 + B * (a2 + B * a3)) /\ Number(b) = b0 + B * (b1 + B * (b2 + B * b3))
  BY DEF Number
<1> HIDE DEF a0, a1, a2, a3, b0, b1, b2, b3
<1>18. T0 = Number(a) * Number(b)
  <2>1. B \in Int
    BY <1>1
  <2>2. (a0 + B * (a1 + B * (a2 + B * a3))) * (b0 + B * (b1 + B * (b2 + B * b3)))
        = a0 * b0 + B * (a0 * b1 + a1 * b0 + B * (a0 * b2 + a1 * b1 + a2 * b0
          + B * (a0 * b3 + a1 * b2 + a2 * b1 + a3 * b0 + B * (a1 * b3 + a2 * b2 + a3 * b1
          + B * (a2 * b3 + a3 * b2 + B * (a3 * b3))))))
    BY <1>15, <2>1, FourByFour
  <2>3. T6 = a3 * b3
    <3>1. a3 * b3 \in Int /\ B * 0 = 0
      BY <1>1, <1>15
    <3> QED BY <1>16, <3>1 DEF T6, T7
  <2> QED BY <1>16, <1>17, <2>2, <2>3 DEF T0, T1, T2, T3, T4, T5
<1> QED
  BY <1>13, <1>14, <1>18

(* The callers' contract: both programs multiply the numbers of four words *)
(* whatever the instructions before them left in the accumulator's words.  *)
THEOREM MultipliesNumbers == Spec => []ProductOfNumbers
<1>1. ASSUME CombaInv PROVE ProductOfNumbers
  BY <1>1, AtReturn, DigitsOfProduct DEF ProductOfNumbers, CombaInv, Types
<1> QED
  BY <1>1, CombaInvariant, PTL

-----------------------------------------------------------------------------
(* The test programs.  The pin that ends the simulation is set by the last *)
(* statement of a program only, and the pin that tells its verdict has     *)
(* been reset by the statement before.                                     *)

Statements ==
  {"print", "print start", "print stop", "print time", "start", "stop", "work", "compare", "echo",
   "OUTPUT = 0", "OUTPUT_ENABLE = 0", "OUTPUT_ENABLE = 1"}
Enables(s) == \E n \in 1..Len(s) : s[n] = "OUTPUT_ENABLE = 1"
EndsItself(s) ==
  /\ s \in Seq(Statements)
  /\ \A n \in 1..Len(s) :
       s[n] = "OUTPUT_ENABLE = 1" => n = Len(s) /\ n - 1 \in 1..Len(s) /\ s[n - 1] = "OUTPUT = 0"
Quiet(s) == s \in Seq(Statements) /\ ~ Enables(s)

LEMMA QuietTuples ==
  LET Q == Statements \ {"OUTPUT_ENABLE = 1"}
  IN /\ \A e \in Q : Quiet(<<e>>)
     /\ \A e, f, g, h \in Q : Quiet(<<e, f, g, h>>) /\ Len(<<e, f, g, h>>) = 4
     /\ \A e, f, g, h, i, j \in Q : Quiet(<<e, f, g, h, i, j>>)
<1> DEFINE X == "OUTPUT_ENABLE = 1"
           S == Statements
           R == S \ {X}
<1> HIDE DEF X, S
<1>1. \A t : t \in Seq(S) /\ (\A n \in 1..Len(t) : t[n] # X) => Quiet(t)
  BY DEF Quiet, Enables, X, S
<1>2. ASSUME NEW e \in R PROVE Quiet(<<e>>)
  <2>1. <<e>> \in Seq(S) /\ \A n \in 1..Len(<<e>>) : <<e>>[n] # X
    OBVIOUS
  <2> QED BY <1>1, <2>1, Zenon
<1>3. ASSUME NEW e \in R, NEW f \in R, NEW g \in R, NEW h \in R
      PROVE  Quiet(<<e, f, g, h>>) /\ Len(<<e, f, g, h>>) = 4
  <2>1. <<e, f, g, h>> \in Seq(S) /\ \A n \in 1..Len(<<e, f, g, h>>) : <<e, f, g, h>>[n] # X
    OBVIOUS
  <2>2. Quiet(<<e, f, g, h>>)
    BY <1>1, <2>1, Zenon
  <2> QED BY <2>2
<1>4. ASSUME NEW e \in R, NEW f \in R, NEW g \in R, NEW h \in R, NEW i \in R, NEW j \in R
      PROVE  Quiet(<<e, f, g, h, i, j>>)
  <2>1. /\ <<e, f, g, h, i, j>> \in Seq(S)
        /\ \A n \in 1..Len(<<e, f, g, h, i, j>>) : <<e, f, g, h, i, j>>[n] # X
    OBVIOUS
  <2> QED BY <1>1, <2>1, Zenon
<1> QED
  BY <1>2, <1>3, <1>4 DEF X, S

LEMMA QuietJoin ==
  ASSUME NEW s, NEW t, Quiet(s), Quiet(t)
  PROVE  Quiet(s \o t) /\ (Len(s) > 0 => Len(s \o t) > 0)
<1> DEFINE m == Len(s)  n == Len(t)
<1>1. s \in Seq(Statements) /\ t \in Seq(Statements) /\ m \in Nat /\ n \in Nat
  BY DEF Quiet
<1>2. Joins(s \o t, Statements, s, t, m, n)
  BY <1>1, Concat
<1> DEFINE u == s \o t
<1> HIDE DEF u
<1>3. u \in Seq(Statements) /\ Len(u) = m + n
      /\ (\A i \in 1..m : u[i] = s[i]) /\ (\A i \in 1..n : u[m + i] = t[i])
  BY <1>2 DEF Joins, u
<1> HIDE DEF m, n
<1>4. ASSUME NEW i \in 1..(m + n) PROVE u[i] # "OUTPUT_ENABLE = 1"
  <2>1. CASE i \in 1..m
    BY <1>3, <2>1 DEF Quiet, Enables, m
  <2>2. CASE i \notin 1..m
    <3>1. i - m \in 1..n /\ m + (i - m) = i
      BY <1>1, <2>2
    <3> QED BY <1>3, <3>1 DEF Quiet, Enables, n
  <2> QED BY <2>1, <2>2
<1>5. Quiet(u) /\ (m > 0 => Len(u) > 0)
  <2>1. Quiet(u)
    BY <1>3, <1>4 DEF Quiet, Enables
  <2>2. n \in Nat /\ m \in Nat /\ Len(u) = m + n
    BY <1>1, <1>3
  <2>3. m > 0 => Len(u) > 0
    BY <2>2
  <2> QED BY <2>1, <2>3
<1> QED
  BY <1>5 DEF u, m

LEMMA SucceedsAtEnd ==
  ASSUME NEW s, Quiet(s)
  PROVE  EndsItself(s \o Succeeds)
<1> DEFINE m == Len(s)
           t == Succeeds
           u == s \o t
<1>1. s \in Seq(Statements) /\ t \in Seq(Statements) /\ m \in Nat /\ 2 \in Nat /\ Len(t) = 2
      /\ t[1] = "OUTPUT = 0" /\ t[2] = "OUTPUT_ENABLE = 1"
  <2>1. s \in Seq(Statements)
    BY DEF Quiet
  <2>2. m \in Nat
    BY <2>1
  <2>3. "OUTPUT = 0" \in Statements /\ "OUTPUT_ENABLE = 1" \in Statements
    BY DEF Statements
  <2>4. ASSUME NEW x \in Statements, NEW y \in Statements
        PROVE  <<x, y>> \in Seq(Statements) /\ Len(<<x, y>>) = 2 /\ <<x, y>>[1] = x /\ <<x, y>>[2] = y
    OBVIOUS
  <2>5. t \in Seq(Statements) /\ Len(t) = 2 /\ t[1] = "OUTPUT = 0" /\ t[2] = "OUTPUT_ENABLE = 1"
    BY <2>3, <2>4 DEF Succeeds
  <2> HIDE DEF m, t
  <2> QED BY <2>1, <2>2, <2>5
<1>2. Joins(s \o t, Statements, s, t, m, 2)
  BY <1>1, Concat
<1> HIDE DEF u, t, m
<1>3. u \in Seq(Statements) /\ Len(u) = m + 2
      /\ (\A i \in 1..m : u[i] = s[i]) /\ u[m + 1] = "OUTPUT = 0" /\ u[m + 2] = "OUTPUT_ENABLE = 1"
  <2>1. /\ u \in Seq(Statements) /\ Len(u) = m + 2
        /\ (\A i \in 1..m : u[i] = s[i]) /\ \A i \in 1..2 : u[m + i] = t[i]
    BY <1>2 DEF Joins, u
  <2>2. 1 \in 1..2 /\ 2 \in 1..2
    OBVIOUS
  <2>3. u[m + 1] = t[1] /\ u[m + 2] = t[2]
    BY <2>1, <2>2
  <2> QED BY <1>1, <2>1, <2>3
<1>4. ASSUME NEW i \in 1..(m + 2), u[i] = "OUTPUT_ENABLE = 1"
      PROVE  i = m + 2
  <2>1. i \notin 1..m /\ i \in 1..(m + 2)
    BY <1>3, <1>4 DEF Quiet, Enables, m
  <2>2. i = m + 1 \/ i = m + 2
    <3>1. m \in Nat
      BY <1>1
    <3> QED BY <2>1, <3>1
  <2> QED BY <1>3, <1>4, <2>2
<1>5. m + 2 - 1 = m + 1 /\ m + 1 \in 1..(m + 2)
  <2>1. m \in Nat
    BY <1>1
  <2> QED BY <2>1
<1>6. EndsItself(u)
  <2>1. ASSUME NEW i \in 1..Len(u), u[i] = "OUTPUT_ENABLE = 1"
        PROVE  i = Len(u) /\ i - 1 \in 1..Len(u) /\ u[i - 1] = "OUTPUT = 0"
    <3>1. i = m + 2
      BY <1>3, <1>4, <2>1
    <3>2. i - 1 = m + 1
      <4>1. m \in Nat
        BY <1>1
      <4> QED BY <3>1, <4>1
    <3> QED BY <1>3, <1>5, <3>1, <3>2
  <2> QED BY <1>3, <2>1 DEF EndsItself
<1> QED
  BY <1>6 DEF u, t

LEMMA QuietTexts ==
  ASSUME NEW n \in Nat
  PROVE  Quiet(Texts(n))
<1> DEFINE f == Texts(n)
<1>1. f \in [1..n -> Statements]
  BY DEF Texts, Statements
<1>2. f \in Seq(Statements) /\ Len(f) = n
  <2>1. f \in Seq(Statements)
    BY <1>1, FunctionIsSeq
  <2> QED BY <2>1 DEF Texts
<1>3. \A k \in 1..n : f[k] = "print"
  BY DEF Texts
<1> HIDE DEF f
<1> QED
  BY <1>2, <1>3 DEF Quiet, Enables, f

LEMMA QuietRepeated ==
  ASSUME NEW n \in Nat, NEW s, Quiet(s), Len(s) > 0
  PROVE  Quiet(Repeated(n, s))
<1> DEFINE m == Len(s)
           q == n * m
           f == [k \in 1..q |-> s[((k - 1) % m) + 1]]
<1>1. m \in Nat /\ m > 0 /\ q \in Nat
  BY DEF Quiet
<1>2. \A k \in 1..m : s[k] \in Statements /\ s[k] # "OUTPUT_ENABLE = 1"
  <2>1. s \in Seq(Statements) /\ \A k \in 1..m : s[k] # "OUTPUT_ENABLE = 1"
    BY DEF Quiet, Enables
  <2> QED BY <2>1, ElementOfSeq
<1> HIDE DEF m, q
<1>3. ASSUME NEW k \in 1..q PROVE ((k - 1) % m) + 1 \in 1..m
  <2>1. k - 1 \in Int
    BY <1>1
  <2>2. (k - 1) % m \in 0..(m - 1)
    BY <1>1, <2>1, DivMod
  <2> DEFINE r == (k - 1) % m
  <2> HIDE DEF r
  <2>3. r + 1 \in 1..m
    BY <1>1, <2>2 DEF r
  <2> QED BY <2>3 DEF r
<1>4. f \in [1..q -> Statements] /\ \A k \in 1..q : f[k] # "OUTPUT_ENABLE = 1"
  BY <1>2, <1>3
<1> HIDE DEF f
<1>5. f \in Seq(Statements) /\ Len(f) = q
  <2>1. f \in Seq(Statements)
    BY <1>1, <1>4, FunctionIsSeq
  <2>2. DOMAIN f = 1..q
    BY <1>4
  <2> QED BY <1>1, <2>1, <2>2, LenProperties
<1>6. Quiet(f)
  BY <1>4, <1>5 DEF Quiet, Enables
<1> QED
  BY <1>6 DEF Repeated, f, q, m

LEMMA MainEnds ==
  ASSUME NEW p \in DOMAIN Main
  PROVE  EndsItself(Main[p])
<1>1. /\ Quiet(Texts(1)) /\ Quiet(Texts(2)) /\ Quiet(Texts(3)) /\ Quiet(Texts(5)) /\ Quiet(Texts(10))
      /\ Quiet(Texts(20)) /\ Quiet(Texts(3 * Passes(1, 1000, 67) * Passes(1, 100, 6)))
  <2>1. 3 * Passes(1, 1000, 67) * Passes(1, 100, 6) \in Nat
    BY DEF Passes
  <2>2. 1 \in Nat /\ 2 \in Nat /\ 3 \in Nat /\ 5 \in Nat /\ 10 \in Nat /\ 20 \in Nat
    OBVIOUS
  <2> HIDE DEF Passes
  <2> QED BY <2>1, <2>2, QuietTexts
<1>2. /\ Quiet(<< "start", "work", "stop", "print time" >>) /\ Quiet(<< "compare" >>) /\ Quiet(Measured)
      /\ Quiet(<< "OUTPUT_ENABLE = 0", "print", "echo", "print" >>)
      /\ Len(<< "start", "work", "stop", "print time" >>) > 0
  <2> DEFINE Q == Statements \ {"OUTPUT_ENABLE = 1"}
  <2>1. /\ "start" \in Q /\ "work" \in Q /\ "stop" \in Q /\ "print time" \in Q /\ "compare" \in Q
        /\ "print start" \in Q /\ "print stop" \in Q
        /\ "OUTPUT_ENABLE = 0" \in Q /\ "print" \in Q /\ "echo" \in Q
    BY DEF Statements
  <2> HIDE DEF Q
  <2>2. /\ \A e \in Q : Quiet(<<e>>)
        /\ \A e, f, g, h \in Q : Quiet(<<e, f, g, h>>) /\ Len(<<e, f, g, h>>) = 4
        /\ \A e, f, g, h, i, j \in Q : Quiet(<<e, f, g, h, i, j>>)
    BY QuietTuples DEF Q
  <2>3. /\ Quiet(<< "start", "work", "stop", "print time" >>) /\ Quiet(<< "compare" >>)
        /\ Quiet(<< "OUTPUT_ENABLE = 0", "print", "echo", "print" >>)
        /\ Len(<< "start", "work", "stop", "print time" >>) = 4
    BY <2>1, <2>2, Zenon
  <2>4. Quiet(<< "start", "work", "stop", "print start", "print stop", "print time" >>)
    BY <2>1, <2>2, Zenon
  <2>5. Quiet(Measured)
    BY <2>4, Zenon DEF Measured
  <2>6. 4 > 0 /\ \A n : n = 4 => n > 0
    OBVIOUS
  <2>7. Len(<< "start", "work", "stop", "print time" >>) > 0
    BY <2>3, <2>6, Zenon
  <2> QED BY <2>3, <2>5, <2>7, Zenon
<1>3. \A n \in {4, 5} : Quiet(Block(n))
  <2> DEFINE s == << "start", "work", "stop", "print time" >> \o Texts(5) \o << "compare" >> \o Texts(1)
  <2>1. Quiet(s) /\ Len(s) > 0
    <3> HIDE DEF s
    <3>1. \A t, u, v, w : Quiet(t) /\ Quiet(u) /\ Quiet(v) /\ Quiet(w) /\ Len(t) > 0
                          => Quiet(t \o u \o v \o w) /\ Len(t \o u \o v \o w) > 0
      BY QuietJoin
    <3> QED BY <1>1, <1>2, <3>1 DEF s
  <2> HIDE DEF s
  <2>3. \A n \in {4, 5} : n \in Nat
    OBVIOUS
  <2> QED BY <2>1, <2>3, QuietRepeated DEF Block, s
<1>4. EndsItself(hello_world) /\ EndsItself(hello_world_spi)
  BY <1>1, <1>2, SucceedsAtEnd DEF hello_world, hello_world_spi
<1>5. EndsItself(aes_test)
  <2>1. Quiet(Texts(1) \o Block(4))
    BY <1>1, <1>3, QuietJoin
  <2> QED BY <2>1, SucceedsAtEnd DEF aes_test
<1>6. EndsItself(aes_masked_test)
  <2>1. Quiet(Texts(2) \o Block(5))
    BY <1>1, <1>3, QuietJoin
  <2> QED BY <2>1, SucceedsAtEnd DEF aes_masked_test
<1>7. EndsItself(ecp5hw)
  <2>1. Quiet(Texts(3) \o itoa_test \o Texts(3 * Passes(1, 1000, 67) * Passes(1, 100, 6)))
    BY <1>1, QuietJoin DEF itoa_test
  <2> QED BY <2>1, SucceedsAtEnd DEF ecp5hw
<1>8. EndsItself(multest)
  <2>1. Quiet(multest)
    BY <1>1, <1>2, QuietJoin DEF multest
  <2> QED BY <2>1 DEF EndsItself, Quiet, Enables
<1> QED
  BY <1>4, <1>5, <1>6, <1>7, <1>8 DEF Main

-----------------------------------------------------------------------------
(* Two reads of a counter.                                                 *)

LEMMA CyclesAre ==
  ASSUME NEW t \in Instants, NEW gap \in 0..Gap
  PROVE  /\ Ahead(cpucycles(t, gap), t) \in {0, Half}
         /\ ~ Overflows(t) => cpucycles(t, gap) = t
<1> DEFINE h == t \div Half
           l == t % Half
           C == Half * Half
<1>1. Half \in Nat /\ Half > 0 /\ gap \in Nat /\ gap <= Half /\ gap <= Gap /\ Gap \in Nat /\ C \in Nat /\ C > 0
      /\ t \in Nat /\ t < C
  BY CounterAssumption DEF Instants, Counts
<1>2. t = Half * h + l /\ l \in 0..(Half - 1) /\ h \in Int
  BY <1>1, DivMod
<1> HIDE DEF h, l
<1>3. h \in 0..(Half - 1)
  <2>1. h < Half
    <3> SUFFICES ASSUME h >= Half PROVE FALSE
      BY <1>1, <1>2
    <3>1. Half * h >= C
      BY <1>1, <1>2
    <3> HIDE DEF C
    <3>2. Half * h \in Int
      BY <1>1, <1>2
    <3> QED BY <1>1, <1>2, <3>1, <3>2
  <2>2. h >= 0
    <3> SUFFICES ASSUME h <= -1 PROVE FALSE
      BY <1>1, <1>2
    <3>1. Half * h <= Half * (-1)
      BY <1>1, <1>2
    <3>2. Half * (-1) = -Half /\ Half * h \in Int
      BY <1>1, <1>2
    <3> QED BY <1>1, <1>2, <3>1, <3>2
  <2> QED BY <1>1, <1>2, <2>1, <2>2
<1>4. cpucycles(t, gap) = (((t + gap) % C) \div Half) * Half + l
  BY DEF cpucycles, Counts, l
<1>5. \A x \in Int : Ahead(x, t) = (x - t) % C
  BY DEF Ahead, Counts
<1>6. Overflows(t) <=> l + Gap >= Half
  BY DEF Overflows, l
<1>7. CASE l + gap < Half
  <2>1. (t + gap) % C = t + gap
    <3>1. t + gap < C
      <4>1. h + 1 <= Half /\ Half * (h + 1) <= Half * Half /\ Half * (h + 1) = Half * h + Half
        BY <1>1, <1>3
      <4> HIDE DEF C
      <4>2. Half * h \in Int
        BY <1>1, <1>3
      <4> QED BY <1>1, <1>2, <1>7, <4>1, <4>2 DEF C
    <3> HIDE DEF C
    <3>2. t + gap \in Nat
      BY <1>1
    <3> QED BY <1>1, <3>1, <3>2, SmallMod
  <2>2. (t + gap) \div Half = h
    <3>1. l + gap \in 0..(Half - 1)
      BY <1>1, <1>2, <1>7
    <3>2. t + gap = Half * h + (l + gap)
      BY <1>1, <1>2
    <3> QED BY <1>1, <1>2, <3>1, <3>2, DivUnique
  <2>3. cpucycles(t, gap) = t
    <3>1. h * Half = Half * h /\ Half * h \in Int
      BY <1>1, <1>3
    <3> QED BY <1>2, <1>4, <2>1, <2>2, <3>1
  <2>4. Ahead(t, t) = 0
    <3>1. t - t = 0 /\ t \in Int
      BY <1>1
    <3> HIDE DEF C
    <3>2. 0 % C = 0
      BY <1>1
    <3> QED BY <1>5, <3>1, <3>2
  <2> QED BY <2>3, <2>4
<1>8. CASE ~ (l + gap < Half)
  <2>1. Overflows(t)
    BY <1>1, <1>2, <1>6, <1>8
  <2> DEFINE l2 == l + gap - Half
  <2>2. l2 \in 0..(Half - 1) /\ t + gap = Half * (h + 1) + l2
    <3>1. Half * (h + 1) = Half * h + Half /\ Half * h \in Int
      BY <1>1, <1>3
    <3> QED BY <1>1, <1>2, <1>8, <3>1
  <2> HIDE DEF l2
  <2>3. CASE h + 1 < Half
    <3>1. (t + gap) % C = t + gap
      <4>1. h + 2 <= Half /\ Half * (h + 2) <= Half * Half /\ Half * (h + 2) = Half * (h + 1) + Half
        BY <1>1, <1>3, <2>3
      <4>2. Half * (h + 1) \in Int
        BY <1>1, <1>3
      <4> HIDE DEF C
      <4>3. t + gap < C
        BY <1>1, <2>2, <4>1, <4>2 DEF C
      <4>4. t + gap \in Nat
        BY <1>1
      <4> QED BY <1>1, <4>3, <4>4, SmallMod
    <3>2. (t + gap) \div Half = h + 1
      BY <1>1, <1>3, <2>2, DivUnique
    <3>3. cpucycles(t, gap) = t + Half
      <4>1. (h + 1) * Half = Half * h + Half /\ Half * h \in Int
        BY <1>1, <1>3
      <4> QED BY <1>1, <1>2, <1>4, <3>1, <3>2, <4>1
    <3>4. (t + Half) - t = Half /\ t + Half \in Int
      BY <1>1
    <3>5. Half % C = Half
      <4>1. 2 <= Half /\ 2 * Half <= Half * Half
        BY <1>1, <1>3, <2>3
      <4>2. Half < C
        BY <1>1, <4>1
      <4> HIDE DEF C
      <4> QED BY <1>1, <4>2, SmallMod
    <3> HIDE DEF C
    <3>6. Ahead(t + Half, t) = Half
      <4>1. Ahead(t + Half, t) = ((t + Half) - t) % C
        BY Zenon DEF Ahead, Counts, C
      <4> QED BY <3>4, <3>5, <4>1, Zenon
    <3> QED BY <2>1, <3>3, <3>6
  <2>4. CASE ~ (h + 1 < Half)
    <3>1. h = Half - 1
      BY <1>1, <1>3, <2>4
    <3>2. t + gap = C * 1 + l2
      BY <1>1, <2>2, <3>1
    <3>3. l2 \in 0..(C - 1) /\ 1 \in Int
      <4>1. Half * 1 <= Half * Half
        BY <1>1
      <4> HIDE DEF C
      <4> QED BY <1>1, <2>2, <4>1 DEF C
    <3>4. (t + gap) % C = l2
      <4> HIDE DEF C
      <4> QED BY <1>1, <3>2, <3>3, DivUnique
    <3>5. l2 \div Half = 0
      <4>1. l2 = Half * 0 + l2 /\ 0 \in Int
        BY <1>1, <2>2
      <4> QED BY <1>1, <2>2, <4>1, DivUnique
    <3>6. cpucycles(t, gap) = l
      <4>1. 0 * Half + l = l
        BY <1>1, <1>2
      <4> QED BY <1>4, <3>4, <3>5, <4>1
    <3>7. l - t = 0 + C * (-1) + Half
      <4>1. Half * h = C - Half
        BY <1>1, <3>1
      <4> HIDE DEF C
      <4> QED BY <1>1, <1>2, <4>1
    <3>8. (l - t) % C = Half % C
      <4> HIDE DEF C
      <4>1. l - t = Half + C * (-1) /\ Half \in Int /\ -1 \in Int
        BY <1>1, <3>7
      <4> QED BY <1>1, <4>1, ModPlus
    <3>9. Half % C \in {0, Half}
      <4>1. CASE Half = 1
        <5>1. C = 1
          BY <4>1
        <5> QED BY <4>1, <5>1
      <4>2. CASE Half # 1
        <5>1. 2 <= Half /\ 2 * Half <= Half * Half
          BY <1>1, <4>2
        <5> HIDE DEF C
        <5>2. Half % C = Half
          BY <1>1, <5>1, SmallMod DEF C
        <5> QED BY <5>2
      <4> QED BY <4>1, <4>2
    <3> QED BY <1>2, <1>5, <2>1, <3>6, <3>8, <3>9
  <2> QED BY <2>3, <2>4
<1> QED
  BY <1>7, <1>8

(* A time that has been read, or was never.                                *)
IsRead(read, t) == t \in Instants /\ \E gap \in 0..Gap : read = cpucycles(t, gap)

ProgramsInv ==
  /\ firmware \in DOMAIN Main /\ at \in 1..(Len(Main[firmware]) + 1)
  /\ IsRead(start, begun) /\ IsRead(stop, ended)
  /\ at > 1 /\ Main[firmware][at - 1] = "OUTPUT = 0" => OUTPUT = 0
  /\ OUTPUT_ENABLE = 1 => Returned /\ OUTPUT = 0
  /\ outcome # "failure"
  /\ outcome = "success" => Returned

LEMMA NextStatement ==
  ASSUME ProgramsInv, ~ Returned
  PROVE  /\ at \in 1..Len(Main[firmware]) /\ Statement = Main[firmware][at]
         /\ at \in Int /\ at + 1 \in 1..(Len(Main[firmware]) + 1) /\ at + 1 > 1 /\ at + 1 - 1 = at
         /\ OUTPUT_ENABLE # 1 /\ outcome # "success"
<1> DEFINE n == Len(Main[firmware])
<1>1. n \in Nat /\ at \in 1..(n + 1) /\ ~ (at > n)
  <2>1. EndsItself(Main[firmware])
    BY MainEnds DEF ProgramsInv
  <2>2. Main[firmware] \in Seq(Statements)
    BY <2>1 DEF EndsItself
  <2>3. n \in Nat
    BY <2>2
  <2> QED BY <2>3 DEF ProgramsInv, Returned
<1>2. Statement = Main[firmware][at]
  BY DEF Statement
<1> HIDE DEF n
<1>3. at \in 1..n /\ at \in Int /\ at + 1 \in 1..(n + 1) /\ at + 1 > 1 /\ at + 1 - 1 = at
  BY <1>1
<1> QED
  BY <1>2, <1>3 DEF ProgramsInv, n

LEMMA ReturnedHere ==
  ASSUME ProgramsInv, Returned
  PROVE  Statement = "loop"
BY DEF Statement

LEMMA ProgramsInvariant == ProgramSpec => []ProgramsInv
<1>1. ASSUME ProgramInit PROVE ProgramsInv
  <2>1. Len(Main[firmware]) \in Nat
    <3>1. EndsItself(Main[firmware])
      BY <1>1, MainEnds DEF ProgramInit
    <3>2. Main[firmware] \in Seq(Statements)
      BY <3>1 DEF EndsItself
    <3> QED BY <3>2
  <2>2. at \in 1..(Len(Main[firmware]) + 1) /\ ~ (at > 1)
    <3> DEFINE n == Len(Main[firmware])
    <3>1. n \in Nat /\ at = 1
      BY <1>1, <2>1 DEF ProgramInit
    <3> HIDE DEF n
    <3>2. at \in 1..(n + 1) /\ ~ (at > 1)
      BY <3>1
    <3> QED BY <3>2 DEF n
  <2>3. IsRead(0, 0)
    <3>1. Half \in Nat /\ Half > 0 /\ Gap \in Nat /\ Half * Half \in Nat /\ Half * Half > 0
      BY CounterAssumption
    <3>2. 0 \in Instants /\ 0 \in 0..Gap
      BY <3>1 DEF Instants, Counts
    <3>3. cpucycles(0, 0) = 0
      <4> DEFINE C == Half * Half
      <4> HIDE DEF C
      <4>1. C \in Nat /\ C > 0
        BY <3>1 DEF C
      <4>2. 0 + 0 = 0 /\ 0 % C = 0 /\ 0 \div Half = 0 /\ 0 % Half = 0 /\ 0 * Half = 0
        BY <3>1, <4>1
      <4> QED BY <4>2 DEF cpucycles, Counts, C
    <3> QED BY <3>2, <3>3 DEF IsRead
  <2> QED BY <1>1, <2>2, <2>3 DEF ProgramInit, ProgramsInv
<1>2. ASSUME ProgramsInv, [ProgramNext]_programVars PROVE ProgramsInv'
  <2>0. ProgramsInv
    BY <1>2
  <2> USE <2>0
  <2> DEFINE P == Main[firmware]
  <2>1. ASSUME Continues, ~ Returned, IsRead(start, begun)', IsRead(stop, ended)',
               P[at] = "OUTPUT = 0" => OUTPUT' = 0, OUTPUT_ENABLE' = 1 => (Returned /\ OUTPUT = 0)'
        PROVE  ProgramsInv'
    <3>1. at' = at + 1 /\ firmware' = firmware /\ outcome' = outcome /\ Main' = Main
      BY <2>1 DEF Continues, Main
    <3>2. at + 1 \in 1..(Len(P) + 1) /\ at + 1 > 1 /\ at + 1 - 1 = at /\ outcome # "success"
      BY <2>1, NextStatement
    <3>3. at' \in 1..(Len(P) + 1) /\ at' - 1 = at
      <4> DEFINE m == Len(P) + 1
      <4>1. at + 1 \in 1..m /\ at + 1 - 1 = at /\ at' = at + 1 /\ at \in Int
        BY <2>1, <3>1, <3>2, NextStatement
      <4> HIDE DEF m
      <4>2. at' \in 1..m /\ at' - 1 = at
        BY <4>1
      <4> QED BY <4>2 DEF m
    <3>4. outcome' # "success" /\ outcome' # "failure"
      BY <3>1, <3>2 DEF ProgramsInv
    <3> QED BY <2>1, <3>1, <3>3, <3>4 DEF ProgramsInv
  <2>2. ASSUME UNCHANGED <<start, begun>> PROVE IsRead(start, begun)'
    BY <2>2 DEF ProgramsInv, IsRead, Instants, Counts, cpucycles
  <2>3. ASSUME UNCHANGED <<stop, ended>> PROVE IsRead(stop, ended)'
    BY <2>3 DEF ProgramsInv, IsRead, Instants, Counts, cpucycles
  <2>4. Statement # "loop" => ~ Returned /\ Statement = P[at] /\ OUTPUT_ENABLE # 1
    BY ReturnedHere, NextStatement
  <2>5. ASSUME UNCHANGED OUTPUT_ENABLE, ~ Returned PROVE OUTPUT_ENABLE' # 1
    BY <2>5, NextStatement
  <2>6. CASE Works
    <3>1. ~ Returned /\ P[at] # "OUTPUT = 0"
      BY <2>4, <2>6 DEF Works
    <3>2. Continues /\ UNCHANGED << start, stop, begun, ended, OUTPUT, OUTPUT_ENABLE >>
      BY <2>6 DEF Works, times, pins
    <3> QED BY <2>1, <2>2, <2>3, <2>5, <3>1, <3>2
  <2>7. CASE ReadsStart
    <3>1. ~ Returned /\ P[at] # "OUTPUT = 0"
      BY <2>4, <2>7 DEF ReadsStart
    <3>2. Continues /\ UNCHANGED << stop, ended, OUTPUT, OUTPUT_ENABLE >>
      BY <2>7 DEF ReadsStart, pins
    <3>3. IsRead(start, begun)'
      <4>1. PICK gap \in 1..Gap : begun' \in Instants /\ start' = cpucycles(begun', gap)
        BY <2>7 DEF ReadsStart
      <4>2. gap \in 0..Gap
        BY CounterAssumption
      <4>3. IsRead(start, begun)' <=> begun' \in Instants /\ \E g \in 0..Gap : start' = cpucycles(begun', g)
        BY DEF IsRead, Instants, Counts, cpucycles
      <4> QED BY <4>1, <4>2, <4>3
    <3> QED BY <2>1, <2>3, <2>5, <3>1, <3>2, <3>3
  <2>8. CASE ReadsStop
    <3>1. ~ Returned /\ P[at] # "OUTPUT = 0"
      BY <2>4, <2>8 DEF ReadsStop
    <3>2. Continues /\ UNCHANGED << start, begun, OUTPUT, OUTPUT_ENABLE >>
      BY <2>8 DEF ReadsStop, pins
    <3>3. IsRead(stop, ended)'
      <4>1. PICK gap \in 1..Gap : ended' \in Instants /\ stop' = cpucycles(ended', gap)
        BY <2>8 DEF ReadsStop
      <4>2. gap \in 0..Gap
        BY CounterAssumption
      <4>3. IsRead(stop, ended)' <=> ended' \in Instants /\ \E g \in 0..Gap : stop' = cpucycles(ended', g)
        BY DEF IsRead, Instants, Counts, cpucycles
      <4> QED BY <4>1, <4>2, <4>3
    <3> QED BY <2>1, <2>2, <2>5, <3>1, <3>2, <3>3
  <2>9. CASE SetsOutput
    <3>1. ~ Returned /\ OUTPUT' = 0
      BY <2>4, <2>9 DEF SetsOutput
    <3>2. Continues /\ UNCHANGED << start, stop, begun, ended, OUTPUT_ENABLE >>
      BY <2>9 DEF SetsOutput, times
    <3> QED BY <2>1, <2>2, <2>3, <2>5, <3>1, <3>2
  <2>10. CASE SetsOutputEnable
    <3>1. ~ Returned /\ P[at] # "OUTPUT = 0"
      BY <2>4, <2>10 DEF SetsOutputEnable
    <3>2. Continues /\ UNCHANGED << start, stop, begun, ended, OUTPUT >>
      BY <2>10 DEF SetsOutputEnable, times
    <3>3. ASSUME OUTPUT_ENABLE' = 1 PROVE (Returned /\ OUTPUT = 0)'
      <4>1. P[at] = "OUTPUT_ENABLE = 1"
        <5>1. 0 # 1
          OBVIOUS
        <5>2. Statement = "OUTPUT_ENABLE = 1"
          BY <2>10, <3>3, <5>1, Zenon DEF SetsOutputEnable
        <5> QED BY <2>4, <5>2
      <4> DEFINE n == Len(P)
      <4>2. EndsItself(P) /\ at \in 1..n
        BY <3>1, MainEnds, NextStatement DEF ProgramsInv
      <4>3. at = n /\ at - 1 \in 1..n /\ P[at - 1] = "OUTPUT = 0"
        BY <4>1, <4>2 DEF EndsItself
      <4>4. n \in Nat
        <5>1. P \in Seq(Statements)
          BY <4>2 DEF EndsItself
        <5> QED BY <5>1
      <4>5. at' = at + 1 /\ firmware' = firmware /\ Main' = Main
        BY <3>2 DEF Continues, Main
      <4> HIDE DEF n
      <4>6. at > 1 /\ at' > n
        <5>1. at = n /\ at - 1 \in 1..n /\ at' = at + 1
          BY <4>3, <4>5
        <5>2. n > 1 /\ n + 1 > n
          BY <4>4, <5>1
        <5> QED BY <5>1, <5>2
      <4>7. OUTPUT = 0
        BY <4>3, <4>6 DEF ProgramsInv
      <4>8. Returned'
        BY <4>5, <4>6 DEF Returned, n
      <4> QED BY <3>2, <4>7, <4>8
    <3> QED BY <2>1, <2>2, <2>3, <3>1, <3>2, <3>3
  <2>11. CASE Echoes
    <3>1. at' = at
      BY <2>11 DEF Echoes, count
    <3>2. UNCHANGED << firmware, outcome, start, stop, begun, ended, OUTPUT, OUTPUT_ENABLE >>
      BY <2>11 DEF Echoes, times, pins
    <3>3. IsRead(start, begun)' /\ IsRead(stop, ended)'
      BY <2>2, <2>3, <3>2
    <3>4. Main' = Main /\ Returned' = Returned
      BY <3>1, <3>2 DEF Main, Returned
    <3> QED BY <3>1, <3>2, <3>3, <3>4 DEF ProgramsInv
  <2>12. CASE Judges
    <3>1. UNCHANGED << firmware, at, start, stop, begun, ended, OUTPUT, OUTPUT_ENABLE >>
      BY <2>12 DEF Judges, times, pins
    <3>2. OUTPUT = 0 /\ Returned
      BY <2>12 DEF Judges, ProgramsInv
    <3>3. outcome' = "success"
      BY <2>12, <3>2 DEF Judges
    <3>4. IsRead(start, begun)' /\ IsRead(stop, ended)'
      BY <2>2, <2>3, <3>1
    <3>5. Main' = Main /\ Returned' = Returned
      BY <3>1 DEF Main, Returned
    <3> QED BY <3>1, <3>2, <3>3, <3>4, <3>5 DEF ProgramsInv
  <2>13. CASE UNCHANGED programVars
    <3>1. UNCHANGED << firmware, at, outcome, start, stop, begun, ended, OUTPUT, OUTPUT_ENABLE >>
      BY <2>13 DEF programVars, times, pins
    <3>2. IsRead(start, begun)' /\ IsRead(stop, ended)'
      BY <2>2, <2>3, <3>1
    <3>3. Main' = Main /\ Returned' = Returned
      BY <3>1 DEF Main, Returned
    <3> QED BY <3>1, <3>2, <3>3 DEF ProgramsInv
  <2> QED BY <2>6, <2>7, <2>8, <2>9, <2>10, <2>11, <2>12, <2>13, <1>2 DEF ProgramNext
<1> QED
  BY <1>1, <1>2, PTL DEF ProgramSpec

(* A time that a program prints is right whenever no lower half overflows  *)
(* between two reads, and else is off by that half; a program is judged a  *)
(* success, never a failure, and only when it has come to its end.         *)
THEOREM Truthful == ProgramSpec => []ReportsTruly
<1>1. ASSUME ProgramsInv PROVE ReportsTruly
  <2>1. \A read, t : IsRead(read, t) => Ahead(read, t) \in {0, Half} /\ (~ Overflows(t) => read = t)
    BY CyclesAre DEF IsRead
  <2>2. Ahead(start, begun) \in {0, Half} /\ Ahead(stop, ended) \in {0, Half}
    BY <1>1, <2>1 DEF ProgramsInv
  <2>3. ~ Overflows(begun) /\ ~ Overflows(ended) => (stop - start) % Counts = (ended - begun) % Counts
    <3>1. (~ Overflows(begun) => start = begun) /\ (~ Overflows(ended) => stop = ended)
      BY <1>1, <2>1 DEF ProgramsInv
    <3> QED BY <3>1
  <2> QED BY <1>1, <2>2, <2>3 DEF ReportsTruly, ProgramsInv
<1> QED
  BY <1>1, ProgramsInvariant, PTL
=============================================================================
