----------------------------- MODULE AesRounds -----------------------------
(***************************************************************************)
(* What the proofs about the two AES cores share: the sum of bytes, the    *)
(* types of the standard's operations, the standard's round keys and texts *)
(* as the sequences they are, and a step of its key expansion byte by byte.*)
(***************************************************************************)
EXTENDS Fips197, Inductions

----------------------------------------------------------------------------
(* Bytes.                                                                  *)

LEMMA XorTyped == ASSUME NEW a \in Byte, NEW b \in Byte PROVE Xor(a, b) \in Byte
BY DEF Xor, Byte

\* The sum of bytes is a commutative group in which everything is its own opposite.
LEMMA XorGroup ==
  ASSUME NEW a, NEW b, NEW c
  PROVE  /\ Xor(a, b) = Xor(b, a)
         /\ Xor(a, Xor(b, c)) = Xor(Xor(a, b), c)
         /\ Xor(a, {}) = a /\ Xor({}, a) = a /\ Xor(a, a) = {}
<1>1. Xor(a, b) = Xor(b, a)
  BY DEF Xor
<1>2. Xor(a, Xor(b, c)) = Xor(Xor(a, b), c)
  <2>1. ASSUME NEW i PROVE i \in Xor(a, Xor(b, c)) <=> i \in Xor(Xor(a, b), c)
    BY DEF Xor
  <2> QED BY <2>1 DEF Xor
<1>3. Xor(a, {}) = a /\ Xor({}, a) = a /\ Xor(a, a) = {}
  BY DEF Xor
<1> QED BY <1>1, <1>2, <1>3

LEMMA XtimeTyped == ASSUME NEW b \in Byte PROVE Xtime(b) \in Byte
<1>1. {i + 1 : i \in b \ {7}} \in Byte
  BY DEF Byte
<1>2. (IF 7 \in b THEN {0, 1, 3, 4} ELSE {}) \in Byte
  BY DEF Byte
<1> QED BY <1>1, <1>2, XorTyped DEF Xtime

LEMMA SBoxTyped == ASSUME NEW b \in Byte PROVE SBox[b] \in Byte
<1> DEFINE out == NewBasis(FromTower, G256Inv(NewBasis(ToTower, b)))
<1>1. SBox[b] = Xor(out, {0, 1, 5, 6})
  BY DEF SBox
<1>2. out \in Byte
  BY DEF NewBasis, Byte
<1>3. {0, 1, 5, 6} \in Byte
  BY DEF Byte
<1> HIDE DEF out
<1> QED BY <1>1, <1>2, <1>3, XorTyped

\* The core's operations on bytes are the standard's.
LEMMA Bytewise ==
  ASSUME NEW b \in Byte
  PROVE  /\ SubByte[b] = SBox[b] /\ SubByte[b] \in Byte
         /\ Times({1}, b) = Xtime(b) /\ Times({0, 1}, b) = Xor(Xtime(b), b)
BY FieldAssumption, SBoxTyped

LEMMA CellArith ==
  ASSUME NEW n \in Cell
  PROVE  /\ Row(n) \in 0..3 /\ Col(n) \in 0..3 /\ n = 4 * Col(n) + Row(n)
         /\ Col(n) < 3 => n + 4 \in Cell
         /\ (n + 4) % 16 \in Cell /\ (n + 1) % 16 \in Cell
         /\ (n + 4 * Row(n)) % 16 \in Cell
         /\ Row(n) < 3 => n + 1 \in Cell
         /\ ~(Row(n) < 3) => n - 3 \in Cell
BY DEF Cell, Row, Col

----------------------------------------------------------------------------
(* Texts.                                                                  *)

LEMMA CellsTyped ==
  ASSUME NEW bytes \in [1..16 -> Byte]
  PROVE  Cells(bytes) \in Text /\ \A n \in Cell : Cells(bytes)[n] = bytes[n + 1]
BY DEF Cells, Text, Cell

LEMMA AddKeyTyped ==
  ASSUME NEW text \in Text, NEW key \in Text PROVE AddKey(text, key) \in Text
BY XorTyped DEF AddKey, Text

LEMMA ShiftedTyped ==
  ASSUME NEW text \in Text PROVE RowsShifted(Substituted(text)) \in Text
<1>1. ASSUME NEW n \in Cell PROVE Substituted(text)[n] \in Byte
  BY Bytewise DEF Substituted, Text
<1>2. ASSUME NEW n \in Cell PROVE 4 * ((Col(n) + Row(n)) % 4) + Row(n) \in Cell
  BY DEF Cell, Row, Col
<1> QED BY <1>1, <1>2 DEF RowsShifted, Text

\* A byte of a mixed column, as the cores compute it.
Mixed(a, b, c, d) == XorAll(Xtime(a), Xor(Xtime(b), b), Xor(c, d))

LEMMA MixedTyped ==
  ASSUME NEW a \in Byte, NEW b \in Byte, NEW c \in Byte, NEW d \in Byte
  PROVE  Mixed(a, b, c, d) \in Byte
BY XtimeTyped, XorTyped DEF Mixed, XorAll

LEMMA ColumnsMixedAre ==
  ASSUME NEW text \in Text
  PROVE  /\ ColumnsMixed(text) \in Text
         /\ \A n \in Cell : LET a(i) == text[4 * Col(n) + ((Row(n) + i) % 4)]
                            IN ColumnsMixed(text)[n] = Mixed(a(0), a(1), a(2), a(3))
<1> DEFINE a(n, i) == text[4 * Col(n) + ((Row(n) + i) % 4)]
<1>1. ASSUME NEW n \in Cell PROVE /\ a(n, 0) \in Byte /\ a(n, 1) \in Byte
                                  /\ a(n, 2) \in Byte /\ a(n, 3) \in Byte
  <2>1. ASSUME NEW i \in 0..3 PROVE 4 * Col(n) + ((Row(n) + i) % 4) \in Cell
    BY CellArith DEF Cell
  <2> QED BY <2>1 DEF Text
<1>2. ColumnsMixed(text) = [n \in Cell |->
        Xor(XorAll(Times({1}, a(n, 0)), Times({0, 1}, a(n, 1)), a(n, 2)), a(n, 3))]
  BY DEF ColumnsMixed
<1> HIDE DEF a
<1>3. ASSUME NEW n \in Cell
      PROVE ColumnsMixed(text)[n] = Mixed(a(n, 0), a(n, 1), a(n, 2), a(n, 3))
  <2>1. ColumnsMixed(text)[n] =
          Xor(XorAll(Xtime(a(n, 0)), Xor(Xtime(a(n, 1)), a(n, 1)), a(n, 2)), a(n, 3))
    BY <1>1, <1>2, Bytewise
  <2> QED BY <2>1, XorGroup DEF Mixed, XorAll
<1>4. ColumnsMixed(text) \in Text
  BY <1>1, <1>2, <1>3, MixedTyped DEF Text
<1> QED BY <1>3, <1>4 DEF a

LEMMA RoundTyped ==
  ASSUME NEW text \in Text, NEW key \in Text, NEW i PROVE Round(i, text, key) \in Text
BY AddKeyTyped, ShiftedTyped, ColumnsMixedAre DEF Round

\* A step of the key expansion: the first word takes the substituted last one, every
\* other byte is the one of the word before added to its own.
LEMMA NextKeyIs ==
  ASSUME NEW key \in Text, NEW i \in 1..10
  PROVE  LET next == NextKey(i, key)
         IN /\ next \in Text
            /\ \A r \in 0..3 : next[r] = XorAll(key[r], SBox[key[12 + ((r + 1) % 4)]],
                                                IF r = 0 THEN Rcon[i] ELSE {})
            /\ \A n \in 0..11 : next[n + 4] = Xor(next[n], key[n + 4])
<1> DEFINE next == NextKey(i, key)
           w0(r) == XorAll(key[r], SubByte[key[12 + ((r + 1) % 4)]], IF r = 0 THEN Rcon[i] ELSE {})
           w1(r) == Xor(w0(r), key[4 + r])
           w2(r) == Xor(w1(r), key[8 + r])
           w3(r) == Xor(w2(r), key[12 + r])
<1>1. next = [n \in Cell |-> CASE Col(n) = 0 -> w0(Row(n))
                               [] Col(n) = 1 -> w1(Row(n))
                               [] Col(n) = 2 -> w2(Row(n))
                               [] Col(n) = 3 -> w3(Row(n))]
  BY DEF NextKey
<1>2. \A n \in Cell : key[n] \in Byte
  BY DEF Text
<1>3. Rcon[i] \in Byte /\ {} \in Byte
  BY DEF Rcon, Byte
<1>4. ASSUME NEW r \in 0..3
      PROVE  /\ w0(r) \in Byte
             /\ w0(r) = XorAll(key[r], SBox[key[12 + ((r + 1) % 4)]], IF r = 0 THEN Rcon[i] ELSE {})
  <2>1. key[r] \in Byte /\ key[12 + ((r + 1) % 4)] \in Byte
    BY <1>2 DEF Cell
  <2> QED BY <1>3, <2>1, Bytewise, XorTyped DEF XorAll
<1> HIDE DEF next, w0
<1>5. ASSUME NEW r \in 0..3 PROVE w1(r) \in Byte
  BY <1>2, <1>4, XorTyped DEF Cell
<1> HIDE DEF w1
<1>6. ASSUME NEW r \in 0..3 PROVE w2(r) \in Byte
  BY <1>2, <1>5, XorTyped DEF Cell
<1> HIDE DEF w2
<1>7. ASSUME NEW r \in 0..3 PROVE w3(r) \in Byte
  BY <1>2, <1>6, XorTyped DEF Cell
<1> HIDE DEF w3
<1>8. ASSUME NEW r \in 0..3
      PROVE next[r] = w0(r) /\ next[r + 4] = w1(r) /\ next[r + 8] = w2(r) /\ next[r + 12] = w3(r)
  <2>1. /\ r \in Cell /\ Col(r) = 0 /\ Row(r) = r
        /\ r + 4 \in Cell /\ Col(r + 4) = 1 /\ Row(r + 4) = r
        /\ r + 8 \in Cell /\ Col(r + 8) = 2 /\ Row(r + 8) = r
        /\ r + 12 \in Cell /\ Col(r + 12) = 3 /\ Row(r + 12) = r
    BY DEF Cell, Col, Row
  <2> QED BY <1>1, <2>1
<1>9. ASSUME NEW n \in Cell PROVE next[n] \in Byte
  <2>1. Row(n) \in 0..3 /\ Col(n) \in 0..3
    BY CellArith
  <2> QED BY <1>1, <1>4, <1>5, <1>6, <1>7, <2>1
<1>10. ASSUME NEW r \in 0..3
       PROVE  /\ next[r + 4] = Xor(next[r], key[r + 4])
              /\ next[r + 8] = Xor(next[r + 4], key[r + 8])
              /\ next[r + 12] = Xor(next[r + 8], key[r + 12])
  BY <1>8 DEF w1, w2, w3
<1>11. ASSUME NEW n \in 0..11 PROVE next[n + 4] = Xor(next[n], key[n + 4])
  <2>1. n \in 0..3 \/ (n - 4 \in 0..3 /\ (n - 4) + 4 = n /\ (n - 4) + 8 = n + 4)
          \/ (n - 8 \in 0..3 /\ (n - 8) + 8 = n /\ (n - 8) + 12 = n + 4)
    OBVIOUS
  <2> QED BY <1>10, <2>1
<1>12. next \in Text
  BY <1>1, <1>9 DEF Text
<1> QED BY <1>4, <1>8, <1>11, <1>12 DEF next

\* The round constants double.
LEMMA RconDoubles ==
  /\ Rcon[1] = {0} /\ \A i \in 1..10 : Rcon[i] \in Byte
  /\ \A i \in 1..9 : Rcon[i + 1] = Xtime(Rcon[i])
<1>1. Rcon[1] = {0} /\ \A i \in 1..10 : Rcon[i] \in Byte
  BY DEF Rcon, Byte
<1>2. ASSUME NEW k \in 0..6 PROVE Xtime({k}) = {k + 1}
  <2>1. {i + 1 : i \in {k} \ {7}} = {k + 1} /\ ~(7 \in {k})
    OBVIOUS
  <2> QED BY <2>1 DEF Xtime, Xor
<1>3. Xtime({7}) = {0, 1, 3, 4}
  <2>1. {i + 1 : i \in {7} \ {7}} = {}
    OBVIOUS
  <2> QED BY <2>1 DEF Xtime, Xor
<1>4. Xtime({0, 1, 3, 4}) = {1, 2, 4, 5}
  <2>1. {i + 1 : i \in {0, 1, 3, 4} \ {7}} = {1, 2, 4, 5} /\ ~(7 \in {0, 1, 3, 4})
    OBVIOUS
  <2> QED BY <2>1 DEF Xtime, Xor
<1>5. ASSUME NEW i \in 1..9 PROVE Rcon[i + 1] = Xtime(Rcon[i])
  <2>1. i \in 1..7 => i - 1 \in 0..6 /\ Rcon[i] = {i - 1} /\ Rcon[i + 1] = {(i - 1) + 1}
    <3>1. ASSUME NEW k \in 1..8 PROVE Rcon[k] = {k - 1}
      <4>1. /\ Rcon[1] = {0} /\ Rcon[2] = {1} /\ Rcon[3] = {2} /\ Rcon[4] = {3}
            /\ Rcon[5] = {4} /\ Rcon[6] = {5} /\ Rcon[7] = {6} /\ Rcon[8] = {7}
        BY DEF Rcon
      <4>2. \/ (k = 1 /\ k - 1 = 0) \/ (k = 2 /\ k - 1 = 1) \/ (k = 3 /\ k - 1 = 2)
            \/ (k = 4 /\ k - 1 = 3) \/ (k = 5 /\ k - 1 = 4) \/ (k = 6 /\ k - 1 = 5)
            \/ (k = 7 /\ k - 1 = 6) \/ (k = 8 /\ k - 1 = 7)
        OBVIOUS
      <4> QED BY <4>1, <4>2
    <3>2. i \in 1..7 => i \in 1..8 /\ i + 1 \in 1..8 /\ (i + 1) - 1 = (i - 1) + 1
      OBVIOUS
    <3> QED BY <3>1, <3>2
  <2>2. /\ i = 8 => Rcon[i] = {7} /\ Rcon[i + 1] = {0, 1, 3, 4}
        /\ i = 9 => Rcon[i] = {0, 1, 3, 4} /\ Rcon[i + 1] = {1, 2, 4, 5}
    <3>1. Rcon[8] = {7} /\ Rcon[9] = {0, 1, 3, 4} /\ Rcon[10] = {1, 2, 4, 5}
      BY DEF Rcon
    <3> QED BY <3>1
  <2>3. CASE i \in 1..7
    <3>1. i - 1 \in 0..6 /\ Rcon[i] = {i - 1} /\ Rcon[i + 1] = {(i - 1) + 1}
      BY <2>1, <2>3
    <3>2. Xtime({i - 1}) = {(i - 1) + 1}
      BY <1>2, <3>1
    <3> QED BY <3>1, <3>2
  <2>4. i \in 1..7 \/ i = 8 \/ i = 9
    OBVIOUS
  <2> QED BY <1>3, <1>4, <2>2, <2>3, <2>4
<1> QED BY <1>1, <1>5

----------------------------------------------------------------------------
(* The ten steps.                                                          *)

LEMMA EvaluatedIs == ASSUME NEW f PROVE Evaluated(f) = f
BY DEF Evaluated

LEMMA IteratedIs ==
  ASSUME NEW a \in Text, NEW g \in [1..10 -> [Text -> Text]]
  PROVE  /\ Iterated(a, g) \in [0..10 -> Text] /\ Iterated(a, g)[0] = a
         /\ \A i \in 1..10 : Iterated(a, g)[i] = g[i][Iterated(a, g)[i - 1]]
<1>1. PICK f \in [0..10 -> Text] : Follows(f, 10, a, g)
  <2>1. 10 \in Nat
    OBVIOUS
  <2> HIDE DEF Text
  <2> QED BY <2>1, Recursion
<1> DEFINE value == CHOOSE v : v = [i \in 0..10 |-> IF i = 0 THEN a ELSE g[i][v[i - 1]]]
<1>2. f = [i \in 0..10 |-> IF i = 0 THEN a ELSE g[i][f[i - 1]]]
  <2>1. \A i \in 0..10 : f[i] = IF i = 0 THEN a ELSE g[i][f[i - 1]]
    <3>1. \A i \in 0..10 : i = 0 \/ i \in 1..10
      OBVIOUS
    <3> QED BY <1>1, <3>1 DEF Follows
  <2> QED BY <1>1, <2>1
<1>3. value = [i \in 0..10 |-> IF i = 0 THEN a ELSE g[i][value[i - 1]]]
  BY <1>2, Zenon
<1>4. Iterated(a, g) = value
  <2>1. Iterated(a, g) = Evaluated(value)
    BY Zenon DEF Iterated
  <2> QED BY <2>1, EvaluatedIs
<1> HIDE DEF value
<1>5. \A i \in 0..10 : value[i] = IF i = 0 THEN a ELSE g[i][value[i - 1]]
  BY <1>3
<1>6. value[0] = a /\ \A i \in 1..10 : value[i] = g[i][value[i - 1]]
  BY <1>5
<1> DEFINE T == {i \in 0..10 : value[i] \in Text}
<1>7. T = 0..10
  <2>1. 0 \in T
    BY <1>6
  <2>2. ASSUME NEW i \in T, i < 10 PROVE i + 1 \in T
    <3>1. i + 1 \in 1..10 /\ (i + 1) - 1 = i
      BY <2>2
    <3>2. g[i + 1] \in [Text -> Text] /\ value[i] \in Text
      BY <3>1
    <3>3. value[i + 1] = g[i + 1][value[i]]
      BY <1>6, <3>1
    <3> QED BY <3>1, <3>2, <3>3
  <2>3. T \in SUBSET (0..10) /\ 10 \in Nat
    OBVIOUS
  <2> HIDE DEF T
  <2> QED BY <2>1, <2>2, <2>3, Induction
<1>8. value \in [0..10 -> Text]
  BY <1>3, <1>7
<1> QED BY <1>4, <1>6, <1>8

\* The round keys and the texts of an encryption, each from the one before.
Schedule(keys, bytes) ==
  /\ keys \in [0..10 -> Text] /\ keys[0] = Cells(bytes)
  /\ \A i \in 1..10 : keys[i] = NextKey(i, keys[i - 1])
Encryption(texts, bytes, keys) ==
  /\ texts \in [0..10 -> Text] /\ texts[0] = Cells(bytes)
  /\ \A i \in 1..10 : texts[i] = Round(i, texts[i - 1], keys[i - 1])

LEMMA RoundKeysAre ==
  ASSUME NEW bytes \in [1..16 -> Byte] PROVE Schedule(RoundKeys(bytes), bytes)
<1> DEFINE g == [i \in 1..10 |-> [k \in Text |-> Evaluated(NextKey(i, k))]]
           keys == Iterated(Cells(bytes), g)
<1>1. ASSUME NEW i \in 1..10, NEW k \in Text PROVE g[i][k] = NextKey(i, k) /\ g[i][k] \in Text
  <2>1. g[i][k] = Evaluated(NextKey(i, k))
    OBVIOUS
  <2> HIDE DEF g
  <2>2. g[i][k] = NextKey(i, k)
    BY <2>1, EvaluatedIs
  <2>3. NextKey(i, k) \in Text
    BY NextKeyIs
  <2> QED BY <2>2, <2>3
<1>2. g \in [1..10 -> [Text -> Text]]
  BY <1>1
<1>3. RoundKeys(bytes) = keys
  BY DEF RoundKeys
<1> HIDE DEF g
<1>4. /\ keys \in [0..10 -> Text] /\ keys[0] = Cells(bytes)
      /\ \A i \in 1..10 : keys[i] = g[i][keys[i - 1]]
  BY <1>2, CellsTyped, IteratedIs
<1> HIDE DEF keys
<1>5. ASSUME NEW i \in 1..10 PROVE keys[i] = NextKey(i, keys[i - 1])
  <2>1. i - 1 \in 0..10
    OBVIOUS
  <2>2. keys[i - 1] \in Text
    BY <1>4, <2>1
  <2> QED BY <1>1, <1>4, <2>2
<1> QED BY <1>3, <1>4, <1>5 DEF Schedule

LEMMA TextsAre ==
  ASSUME NEW bytes \in [1..16 -> Byte], NEW keys \in [0..10 -> Text]
  PROVE  Encryption(Texts(bytes, keys), bytes, keys)
<1> DEFINE g == [i \in 1..10 |-> [t \in Text |-> Evaluated(Round(i, t, keys[i - 1]))]]
           texts == Iterated(Cells(bytes), g)
<1>1. ASSUME NEW i \in 1..10, NEW t \in Text
      PROVE  g[i][t] = Round(i, t, keys[i - 1]) /\ g[i][t] \in Text
  <2>1. i - 1 \in 0..10
    OBVIOUS
  <2>2. keys[i - 1] \in Text
    BY <2>1
  <2>3. g[i][t] = Evaluated(Round(i, t, keys[i - 1]))
    OBVIOUS
  <2> HIDE DEF g
  <2>4. g[i][t] = Round(i, t, keys[i - 1])
    BY <2>3, EvaluatedIs
  <2> QED BY <2>2, <2>4, RoundTyped
<1>2. g \in [1..10 -> [Text -> Text]]
  BY <1>1
<1>3. Texts(bytes, keys) = texts
  BY DEF Texts
<1> HIDE DEF g
<1>4. /\ texts \in [0..10 -> Text] /\ texts[0] = Cells(bytes)
      /\ \A i \in 1..10 : texts[i] = g[i][texts[i - 1]]
  BY <1>2, CellsTyped, IteratedIs
<1> HIDE DEF texts
<1>5. ASSUME NEW i \in 1..10 PROVE texts[i] = Round(i, texts[i - 1], keys[i - 1])
  <2>1. i - 1 \in 0..10
    OBVIOUS
  <2>2. texts[i - 1] \in Text
    BY <1>4, <2>1
  <2> QED BY <1>1, <1>4, <2>2
<1> QED BY <1>3, <1>4, <1>5 DEF Encryption

----------------------------------------------------------------------------
(* How the bytes move: the registers of both cores are chains, through     *)
(* which the text of a round is followed by the next one.                  *)

\* The bytes of "old" have moved on by c cells, and those of "new" have followed.
Moved(old, new, c) == [n \in Cell |-> IF n + c < 16 THEN old[n + c] ELSE new[(n + c) - 16]]

\* In the first twelve cycles of a later round the first word is of the new key
\* already, and the others become it as they pass.
Passing(old, new, c) == [n \in Cell |-> IF n < 4 THEN new[n + c] ELSE Moved(old, new, c)[n]]

\* What comes out of the addition of the key, and of the substitution, if there is one.
Summed(r, text, key) ==
  [n \in Cell |-> IF r = 11 THEN Xor(text[n], key[n]) ELSE SBox[Xor(text[n], key[n])]]

\* The ways the register files move, seen from the text that moves through them.
LEMMA ShiftMoves ==
  ASSUME NEW a, NEW b, NEW c \in 0..15
  PROVE  Shift(Moved(a, b, c), b[c]) = Moved(a, b, c + 1)
<1>1. ASSUME NEW n \in Cell PROVE Shift(Moved(a, b, c), b[c])[n] = Moved(a, b, c + 1)[n]
  <2>1. CASE n < 15
    <3>1. n + 1 \in Cell /\ n \in Cell /\ (n + 1) + c = n + (c + 1)
      BY <2>1 DEF Cell
    <3>2. Moved(a, b, c)[n + 1] = Moved(a, b, c + 1)[n]
      BY <3>1 DEF Moved
    <3> QED BY <2>1, <3>2 DEF Shift
  <2>2. CASE n = 15
    <3>1. ~(n + (c + 1) < 16) /\ (n + (c + 1)) - 16 = c
      BY <2>2
    <3> QED BY <2>2, <3>1 DEF Shift, Moved
  <2> QED BY <2>1, <2>2 DEF Cell
<1> QED BY <1>1 DEF Shift, Moved

LEMMA ColumnMoves ==
  ASSUME NEW a, NEW b, NEW m \in 0..3, NEW next, next = [n \in Cell |-> next[n]],
         \A n \in 0..11 : next[n] = Moved(a, b, 4 * m)[n + 4],
         \A j \in 0..3 : next[12 + j] = b[4 * m + j]
  PROVE  next = Moved(a, b, 4 * (m + 1))
<1>1. ASSUME NEW n \in Cell PROVE next[n] = Moved(a, b, 4 * (m + 1))[n]
  <2>1. CASE n < 12
    <3>1. n \in 0..11 /\ n + 4 \in Cell /\ (n + 4) + 4 * m = n + 4 * (m + 1)
      BY <2>1 DEF Cell
    <3> QED BY <3>1 DEF Moved
  <2>2. CASE ~(n < 12)
    <3>1. n - 12 \in 0..3 /\ 12 + (n - 12) = n
      BY <2>2 DEF Cell
    <3>2. ~(n + 4 * (m + 1) < 16) /\ (n + 4 * (m + 1)) - 16 = 4 * m + (n - 12)
      BY <2>2 DEF Cell
    <3> QED BY <3>1, <3>2 DEF Moved
  <2> QED BY <2>1, <2>2
<1> QED BY <1>1 DEF Moved

LEMMA MovedEnds ==
  ASSUME NEW a \in Text, NEW b \in Text, NEW x
  PROVE  Moved(a, x, 0) = a /\ Moved(x, b, 16) = b
<1>1. ASSUME NEW n \in Cell PROVE Moved(a, x, 0)[n] = a[n] /\ Moved(x, b, 16)[n] = b[n]
  <2>1. n + 0 < 16 /\ n + 0 = n /\ ~(n + 16 < 16) /\ (n + 16) - 16 = n
    BY DEF Cell
  <2> QED BY <2>1 DEF Moved
<1> QED BY <1>1 DEF Moved, Text

LEMMA SummedTyped ==
  ASSUME NEW text \in Text, NEW key \in Text, NEW r
  PROVE  /\ Summed(r, text, key) \in Text
         /\ r # 11 => Substituted(AddKey(text, key)) = Summed(r, text, key)
         /\ r = 11 => AddKey(text, key) = Summed(r, text, key)
<1>1. ASSUME NEW n \in Cell PROVE Xor(text[n], key[n]) \in Byte
  BY XorTyped DEF Text
<1>2. ASSUME NEW n \in Cell
      PROVE  SubByte[Xor(text[n], key[n])] = SBox[Xor(text[n], key[n])]
             /\ SBox[Xor(text[n], key[n])] \in Byte
  BY <1>1, Bytewise
<1>3. Summed(r, text, key) \in Text
  BY <1>1, <1>2 DEF Summed, Text
<1>4. r # 11 => Substituted(AddKey(text, key)) = Summed(r, text, key)
  BY <1>2 DEF Substituted, AddKey, Summed
<1>5. r = 11 => AddKey(text, key) = Summed(r, text, key)
  BY DEF AddKey, Summed
<1> QED BY <1>3, <1>4, <1>5

LEMMA ShiftRowsIs == ASSUME NEW text PROVE ShiftRows(text) = RowsShifted(text)
<1>1. ASSUME NEW n \in Cell PROVE (n + 4 * Row(n)) % 16 = 4 * ((Col(n) + Row(n)) % 4) + Row(n)
  BY DEF Cell, Row, Col
<1> QED BY <1>1 DEF ShiftRows, RowsShifted

\* A byte passes: the first one of the window is added to its neighbour of the old key.
LEMMA PassesOn ==
  ASSUME NEW old, NEW key, NEW c \in 0..11, NEW reg, reg = Passing(old, key, c),
         \A n \in 0..11 : key[n + 4] = Xor(key[n], old[n + 4])
  PROVE  \A n \in Cell : (IF n = 3 THEN Xor(reg[0], reg[4]) ELSE reg[(n + 1) % 16])
                           = Passing(old, key, c + 1)[n]
<1>1. reg[0] = key[c] /\ reg[4] = old[c + 4]
  <2>1. 0 \in Cell /\ 0 + c = c
    BY DEF Cell
  <2>2. 4 \in Cell /\ 4 + c < 16 /\ 4 + c = c + 4
    BY DEF Cell
  <2>3. reg[0] = key[c]
    BY <2>1 DEF Passing
  <2>4. reg[4] = old[c + 4]
    BY <2>2 DEF Passing, Moved
  <2> QED BY <2>3, <2>4
<1>2. ASSUME NEW n \in Cell
      PROVE  (IF n = 3 THEN Xor(reg[0], reg[4]) ELSE reg[(n + 1) % 16])
               = Passing(old, key, c + 1)[n]
  <2>1. CASE n < 3
    <3>1. (n + 1) % 16 = n + 1 /\ n + 1 \in Cell /\ n + 1 < 4 /\ (n + 1) + c = n + (c + 1)
      BY <2>1 DEF Cell
    <3>2. reg[(n + 1) % 16] = key[n + (c + 1)]
      BY <3>1 DEF Passing
    <3>3. Passing(old, key, c + 1)[n] = key[n + (c + 1)]
      BY <2>1 DEF Passing, Cell
    <3>4. n # 3
      BY <2>1
    <3> QED BY <3>2, <3>3, <3>4
  <2>2. CASE n = 3
    <3>1. n + (c + 1) = c + 4 /\ c \in 0..11
      BY <2>2
    <3>2. Passing(old, key, c + 1)[n] = key[c + 4]
      BY <2>2, <3>1 DEF Passing
    <3> QED BY <1>1, <2>2, <3>2
  <2>3. CASE n \in 4..14
    <3>1. (n + 1) % 16 = n + 1 /\ n + 1 \in Cell /\ ~(n + 1 < 4) /\ (n + 1) + c = n + (c + 1)
      BY <2>3 DEF Cell
    <3>2. reg[(n + 1) % 16] = Moved(old, key, c)[n + 1]
      BY <3>1 DEF Passing
    <3>3. Moved(old, key, c)[n + 1] = Moved(old, key, c + 1)[n]
      BY <3>1 DEF Moved
    <3> QED BY <2>3, <3>2, <3>3 DEF Passing
  <2>4. CASE n = 15
    <3>1. (n + 1) % 16 = 0 /\ ~(n + (c + 1) < 16) /\ (n + (c + 1)) - 16 = c
      BY <2>4
    <3>2. Passing(old, key, c + 1)[n] = key[c]
      BY <2>4, <3>1 DEF Passing, Moved
    <3> QED BY <1>1, <2>4, <3>1, <3>2
  <2>5. n < 3 \/ n = 3 \/ n \in 4..14 \/ n = 15
    BY DEF Cell
  <2> QED BY <2>1, <2>2, <2>3, <2>4, <2>5
<1> QED BY <1>2

\* In the first round the key only turns.
LEMMA MovesOn ==
  ASSUME NEW key, NEW c \in 0..15, NEW reg, reg = Moved(key, key, c)
  PROVE  [n \in Cell |-> reg[(n + 1) % 16]] = Moved(key, key, c + 1)
<1>1. ASSUME NEW n \in Cell PROVE reg[(n + 1) % 16] = Moved(key, key, c + 1)[n]
  <2>1. CASE n < 15
    <3>1. (n + 1) % 16 = n + 1 /\ n + 1 \in Cell /\ (n + 1) + c = n + (c + 1)
      BY <2>1 DEF Cell
    <3> QED BY <3>1 DEF Moved
  <2>2. CASE n = 15
    <3>1. /\ (n + 1) % 16 = 0 /\ 0 \in Cell /\ 0 + c < 16 /\ 0 + c = c
          /\ ~(n + (c + 1) < 16) /\ (n + (c + 1)) - 16 = c
      BY <2>2 DEF Cell
    <3> QED BY <3>1 DEF Moved
  <2> QED BY <2>1, <2>2 DEF Cell
<1> QED BY <1>1 DEF Moved

----------------------------------------------------------------------------
(* The texts and keys of an encryption.                                    *)

Standard(texts, keys) ==
  \E plain, key \in [1..16 -> Byte] : Schedule(keys, key) /\ Encryption(texts, plain, keys)

LEMMA StandardRounds ==
  ASSUME NEW texts, NEW keys, Standard(texts, keys), NEW r \in 1..11
  PROVE  /\ texts[r - 1] \in Text /\ keys[r - 1] \in Text
         /\ r <= 10 => /\ keys[r] = NextKey(r, keys[r - 1])
                       /\ texts[r] = Round(r, texts[r - 1], keys[r - 1])
<1>1. r - 1 \in 0..10 /\ (r <= 10 => r \in 1..10)
  OBVIOUS
<1>2. /\ texts \in [0..10 -> Text] /\ keys \in [0..10 -> Text]
      /\ \A i \in 1..10 : /\ keys[i] = NextKey(i, keys[i - 1])
                          /\ texts[i] = Round(i, texts[i - 1], keys[i - 1])
  BY DEF Standard, Schedule, Encryption
<1> QED BY <1>1, <1>2

\* A column at the exit is mixed, and comes back at the other end.
LEMMA MixMoves ==
  ASSUME NEW texts, NEW keys, Standard(texts, keys), NEW r \in 1..10, NEW m \in 0..3, NEW reg,
         reg = Moved(RowsShifted(Summed(r, texts[r - 1], keys[r - 1])), texts[r], 4 * m)
  PROVE  MixColumn(reg, r # 10) =
           Moved(RowsShifted(Summed(r, texts[r - 1], keys[r - 1])), texts[r], 4 * (m + 1))
<1> DEFINE text == texts[r - 1]
           key == keys[r - 1]
           rows == RowsShifted(Summed(r, text, key))
           next == MixColumn(reg, r # 10)
<1>1. text \in Text /\ key \in Text /\ texts[r] = Round(r, text, key)
  <2>1. r \in 1..11 /\ r <= 10
    OBVIOUS
  <2> QED BY <2>1, StandardRounds
<1>2. rows \in Text /\ texts[r] = IF r = 10 THEN rows ELSE ColumnsMixed(rows)
  <2>1. r # 11
    OBVIOUS
  <2> HIDE DEF text, key
  <2>2. Summed(r, text, key) = Substituted(AddKey(text, key))
    BY <1>1, <2>1, SummedTyped
  <2>3. rows = RowsShifted(Substituted(AddKey(text, key)))
    BY <2>2
  <2>4. rows \in Text
    BY <1>1, <2>3, AddKeyTyped, ShiftedTyped
  <2> QED BY <1>1, <2>3, <2>4 DEF Round
<1>3. reg = Moved(rows, texts[r], 4 * m)
  OBVIOUS
<1>4. next = [n \in Cell |-> next[n]]
  BY DEF MixColumn
<1> HIDE DEF rows, text, key
<1>5. ASSUME NEW n \in 0..11 PROVE next[n] = Moved(rows, texts[r], 4 * m)[n + 4]
  <2>1. n \in Cell /\ Col(n) < 3
    BY DEF Cell, Col
  <2> QED BY <1>3, <2>1 DEF MixColumn
<1>6. ASSUME NEW j \in 0..3 PROVE next[12 + j] = texts[r][4 * m + j]
  <2>1. 12 + j \in Cell /\ ~(Col(12 + j) < 3) /\ Row(12 + j) = j
    BY DEF Cell, Col, Row
  <2>2. next[12 + j] = IF r # 10 THEN MixedByte(reg, j) ELSE reg[j]
    BY <2>1 DEF MixColumn
  <2> HIDE DEF next
  <2>3. ASSUME NEW i \in 0..3 PROVE reg[i] = rows[4 * m + i]
    <3>1. i \in Cell /\ i + 4 * m < 16 /\ i + 4 * m = 4 * m + i
      BY DEF Cell
    <3> QED BY <1>3, <3>1 DEF Moved
  <2>4. CASE r = 10
    BY <1>2, <2>2, <2>3, <2>4
  <2>5. CASE r # 10
    <3> DEFINE p == 4 * m + j
    <3>1. p \in Cell /\ Col(p) = m /\ Row(p) = j
      BY DEF Cell, Col, Row
    <3>2. ASSUME NEW i \in 0..3 PROVE reg[(j + i) % 4] = rows[4 * m + ((j + i) % 4)]
      <4>1. (j + i) % 4 \in 0..3
        OBVIOUS
      <4> QED BY <2>3, <4>1
    <3> HIDE DEF p
    <3>3. ColumnsMixed(rows)[p] =
            Mixed(rows[4 * m + ((j + 0) % 4)], rows[4 * m + ((j + 1) % 4)],
                  rows[4 * m + ((j + 2) % 4)], rows[4 * m + ((j + 3) % 4)])
      BY <1>2, <3>1, ColumnsMixedAre
    <3>4. MixedByte(reg, j) = Mixed(reg[(j + 0) % 4], reg[(j + 1) % 4],
                                    reg[(j + 2) % 4], reg[(j + 3) % 4])
      BY DEF MixedByte, Mixed
    <3>5. MixedByte(reg, j) = ColumnsMixed(rows)[p]
      BY <3>2, <3>3, <3>4
    <3> QED BY <1>2, <2>2, <2>5, <3>5 DEF p
  <2> QED BY <2>4, <2>5
<1> HIDE DEF next
<1>7. next = Moved(rows, texts[r], 4 * (m + 1))
  BY <1>4, <1>5, <1>6, ColumnMoves
<1> QED BY <1>7 DEF next, rows, text, key

\* An encryption that the standard defines.
LEMMA StandardIs ==
  ASSUME NEW plain \in [1..16 -> Byte], NEW key \in [1..16 -> Byte]
  PROVE  LET keys == RoundKeys(key)  texts == Texts(plain, RoundKeys(key))
         IN /\ Standard(texts, keys) /\ texts[0] = Cells(plain) /\ keys[0] = Cells(key)
            /\ Ciphertext(plain, key) = AddKey(texts[10], keys[10])
<1> DEFINE keys == RoundKeys(key)
           texts == Texts(plain, keys)
<1>1. Ciphertext(plain, key) = AddKey(texts[10], keys[10])
  BY DEF Ciphertext
<1> HIDE DEF keys, texts
<1>2. Schedule(keys, key)
  BY RoundKeysAre DEF keys
<1>3. keys \in [0..10 -> Text]
  BY <1>2 DEF Schedule
<1>4. Encryption(texts, plain, keys)
  BY <1>3, TextsAre DEF texts
<1>5. Standard(texts, keys)
  BY <1>2, <1>4 DEF Standard
<1>6. texts[0] = Cells(plain) /\ keys[0] = Cells(key)
  BY <1>2, <1>4 DEF Schedule, Encryption
<1> QED BY <1>1, <1>5, <1>6 DEF keys, texts
=============================================================================
