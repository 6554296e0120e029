------------------------------ MODULE Fips197 ------------------------------
(***************************************************************************)
(* The encryption of FIPS-197 with a key of 128 bits, written down from    *)
(* the standard: the fields by their definitions, rows and columns where   *)
(* AES.v has a chain of registers, a round where it has 21 cycles.  A text *)
(* is indexed like the core's registers.                                   *)
(***************************************************************************)
EXTENDS Aes

\* TLC keeps a function as an expression until it is compared with another one.
Evaluated(f) == CHOOSE g \in {f} : g = g

----------------------------------------------------------------------------
(* Section 4.2: the product of two polynomials, and its remainder, where   *)
(* x^8 is x^4 + x^3 + x + 1; the remainder of degree 14 takes two steps.   *)

Product(a, b) == {k \in 0..14 : Cardinality({i \in a : k - i \in b}) % 2 = 1}
Reduced(p) ==
  {k \in 0..10 : Cardinality({i \in p : IF i < 8 THEN i = k ELSE k - (i - 8) \in {0, 1, 3, 4}}) % 2 = 1}
Times(a, b) == Reduced(Reduced(Product(a, b)))
Reciprocal(a) == IF a = {} THEN {} ELSE CHOOSE x \in Byte : Times(a, x) = {0}

\* Section 5.1.1: bit i of the result adds bits i, i+4, ..., i+7 and 0x63.
SubByte == Evaluated([b \in Byte |->
  LET x == Reciprocal(b)
  IN Xor({0, 1, 5, 6}, {i \in 0..7 : Cardinality({j \in {0, 4, 5, 6, 7} : (i + j) % 8 \in x}) % 2 = 1})])

\* Facts about bytes alone, of which TLC computes every case: the S-box of AES.v, in
\* a tower of fields, is that of the standard, and products by x and x + 1 are made of
\* its doubling.
ASSUME FieldAssumption ==
  \A b \in Byte : /\ SBox[b] = SubByte[b]
                  /\ Times({1}, b) = Xtime(b)
                  /\ Times({0, 1}, b) = Xor(Xtime(b), b)

----------------------------------------------------------------------------
(* Texts and keys.                                                         *)

Text == [Cell -> Byte]
Cells(bytes) == [n \in Cell |-> bytes[n + 1]]
AddKey(text, key) == [n \in Cell |-> Xor(text[n], key[n])]
Substituted(text) == [n \in Cell |-> SubByte[text[n]]]
RowsShifted(text) == [n \in Cell |-> text[4 * ((Col(n) + Row(n)) % 4) + Row(n)]]
ColumnsMixed(text) ==
  LET a(n, i) == text[4 * Col(n) + ((Row(n) + i) % 4)]
  IN [n \in Cell |-> Xor(XorAll(Times({1}, a(n, 0)), Times({0, 1}, a(n, 1)), a(n, 2)), a(n, 3))]

\* Section 5.1: a round but for its first addition of a key.
Round(i, text, key) ==
  LET shifted == RowsShifted(Substituted(AddKey(text, key)))
  IN IF i = 10 THEN shifted ELSE ColumnsMixed(shifted)

\* The first byte of each round constant.
Rcon == << {0}, {1}, {2}, {3}, {4}, {5}, {6}, {7}, {0, 1, 3, 4}, {1, 2, 4, 5} >>

\* The word-wise key expansion of section 5.2, a round key at a time.
NextKey(i, key) ==
  LET w0(r) == XorAll(key[r], SubByte[key[12 + ((r + 1) % 4)]], IF r = 0 THEN Rcon[i] ELSE {})
      w1(r) == Xor(w0(r), key[4 + r])
      w2(r) == Xor(w1(r), key[8 + r])
      w3(r) == Xor(w2(r), key[12 + r])
  IN [n \in Cell |-> CASE Col(n) = 0 -> w0(Row(n))
                       [] Col(n) = 1 -> w1(Row(n))
                       [] Col(n) = 2 -> w2(Row(n))
                       [] Col(n) = 3 -> w3(Row(n))]

\* Ten steps from a key or a text.  The steps are functions, whose argument TLC
\* evaluates once, and not at each of its places as that of an operator.
Iterated(start, step) ==
  LET value[i \in 0..10] == IF i = 0 THEN start ELSE step[i][value[i - 1]]
  IN Evaluated(value)

RoundKeys(key) ==
  Iterated(Cells(key), [i \in 1..10 |-> [k \in Text |-> Evaluated(NextKey(i, k))]])

\* The texts before the key addition of each round.
Texts(plain, keys) ==
  Iterated(Cells(plain), [i \in 1..10 |-> [t \in Text |-> Evaluated(Round(i, t, keys[i - 1]))]])

Ciphertext(plain, key) ==
  LET keys == RoundKeys(key) IN AddKey(Texts(plain, keys)[10], keys[10])
=============================================================================
