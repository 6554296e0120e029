-------------------------------- MODULE Aes --------------------------------
(***************************************************************************)
(* The AES-128 core AES.v: one shared S-box, a state and a key register    *)
(* file of sixteen bytes that shift through it, and the counters that say  *)
(* what moves in a cycle.  One operator per step of the register files;    *)
(* CoreNext is the whole clock edge.                                       *)
(*                                                                         *)
(* A byte is the set of its one bits.  Register r_stateReg_<row>_<col> is  *)
(* cell 4*col+row, so the shift chain of the first sixteen cycles of a     *)
(* round moves cell n+1 to cell n.                                         *)
(***************************************************************************)
EXTENDS Integers, Sequences, FiniteSets

Byte == SUBSET (0..7)
Cell == 0..15
Row(n) == n % 4
Col(n) == n \div 4

\* The drivers' loop over four words of sixteen bytes.
Word(bytes, i) == [j \in 1..4 |-> bytes[4 * (i - 1) + j]]

Xor(a, b) == (a \ b) \cup (b \ a)
XorAll(a, b, c) == Xor(a, Xor(b, c))

\* Doubling in the field: the shift, and the reduction by 0x1b of the carry.
Xtime(b) == Xor({i + 1 : i \in b \ {7}}, IF 7 \in b THEN {0, 1, 3, 4} ELSE {})

----------------------------------------------------------------------------
(* CanrightSBox: the inverse in a tower of fields, between two changes of  *)
(* basis.                                                                  *)

Upper(x, w) == {i - w : i \in {j \in x : j >= w}}
Lower(x, w) == {i \in x : i < w}
Cat(hi, lo, w) == {i + w : i \in hi} \cup lo

G4Sq(t) == {1 - i : i \in t}
G4ScaleN(t) == {i \in 0..1 : IF i = 1 THEN 0 \in t ELSE (1 \in t) # (0 \in t)}
G4ScaleN2(t) == {i \in 0..1 : IF i = 0 THEN 1 \in t ELSE (1 \in t) # (0 \in t)}
G4Mul(x, y) ==
  LET e == (1 \in x) # (0 \in x) /\ (1 \in y) # (0 \in y)
  IN {i \in 0..1 : (i \in x \cap y) # e}

G16Mul(x, y) ==
  LET a == Upper(x, 2)  b == Lower(x, 2)  c == Upper(y, 2)  d == Lower(y, 2)
      f == G4ScaleN(G4Mul(Xor(a, b), Xor(c, d)))
  IN Cat(Xor(G4Mul(a, c), f), Xor(G4Mul(b, d), f), 2)
G16SqSc(t) ==
  LET a == Upper(t, 2)  b == Lower(t, 2)
  IN Cat(G4Sq(Xor(a, b)), G4ScaleN2(G4Sq(b)), 2)
G16Inv(t) ==
  LET a == Upper(t, 2)  b == Lower(t, 2)
      e == G4Sq(Xor(G4ScaleN(G4Sq(Xor(a, b))), G4Mul(a, b)))
  IN Cat(G4Mul(e, b), G4Mul(e, a), 2)
G256Inv(t) ==
  LET a == Upper(t, 4)  b == Lower(t, 4)
      e == G16Inv(Xor(G16SqSc(Xor(a, b)), G16Mul(a, b)))
  IN Cat(G16Mul(e, b), G16Mul(e, a), 4)

\* Output bit i is the parity of the input bits taps[8 - i].
NewBasis(taps, x) == {i \in 0..7 : Cardinality(x \cap taps[8 - i]) % 2 = 1}
ToTower == << {7, 6, 5, 2, 1, 0}, {6, 5, 4, 0}, {6, 5, 1, 0}, {7, 6, 5, 0},
              {7, 4, 3, 1, 0}, {0}, {6, 5, 0}, {6, 3, 2, 1, 0} >>
FromTower == << {5, 3}, {7, 3}, {6, 0}, {7, 5, 3}, {7, 6, 5, 4, 3},
                {6, 5, 3, 2, 0}, {5, 4, 1}, {6, 4, 1} >>
SBox == [b \in Byte |->
           Xor(NewBasis(FromTower, G256Inv(NewBasis(ToTower, b))), {0, 1, 5, 6})]

----------------------------------------------------------------------------
(* The steps of the register files.                                        *)

LoadsReversed(reg, word) ==                               \* mutant
  [n \in Cell |-> IF Col(n) < 3 THEN reg[n + 4] ELSE word[4 - Row(n)]]

\* A word enters at the last column, the others move up (sInit).
Load(reg, word) == [n \in Cell |-> IF Col(n) < 3 THEN reg[n + 4] ELSE word[Row(n) + 1]]
Shift(reg, last) == [n \in Cell |-> IF n < 15 THEN reg[n + 1] ELSE last]
RotateColumns(reg) == [n \in Cell |-> reg[(n + 4) % 16]]
ShiftRows(reg) == [n \in Cell |-> reg[(n + 4 * Row(n)) % 16]]

\* MixColumns of the first column, which moves to the last place.
MixedByte(reg, r) ==
  LET a(i) == reg[(r + i) % 4]
  IN XorAll(Xtime(a(0)), Xor(Xtime(a(1)), a(1)), Xor(a(2), a(3)))
MixColumn(reg, mix) ==
  [n \in Cell |-> IF Col(n) < 3 THEN reg[n + 4]
                  ELSE IF mix THEN MixedByte(reg, Row(n)) ELSE reg[Row(n)]]

MixesLastRound(core) == core.round = 11                   \* mutant
FinalKeyAdd(core) == core.round = 11
FinalRound(core) == core.round = 10

\* The state: sixteen cycles of key addition and substitution, one of row
\* shifts, four of column mixing; the last pass only adds the key.
StateNext(core, word) ==
  LET s == core.state
      sum == Xor(s[0], core.key[0])
  IN CASE core.fsm = "Init" -> Load(s, word)
       [] core.fsm # "Init" /\ core.control < 16 /\ core.fsm # "Done" ->
            Shift(s, IF FinalKeyAdd(core) THEN sum ELSE SBox[sum])
       [] core.fsm # "Init" /\ core.control = 16 -> ShiftRows(s)
       [] core.fsm # "Init" /\ core.control > 16 -> MixColumn(s, ~FinalRound(core))
       [] OTHER -> s

\* Each of the first twelve cycles of a later round adds a byte of the next
\* round key to its neighbour; in the first round the key only turns.
KeyTurn(core) ==
  LET k == core.key
      column == [n \in Cell |-> IF Row(n) < 3 THEN k[n + 1] ELSE k[n - 3]]
      chain == [n \in Cell |-> k[(n + 1) % 16]]
  IN IF core.round = 1 THEN chain
     ELSE IF core.control < 12 THEN [chain EXCEPT ![3] = Xor(k[0], k[4])]
     ELSE column

\* Cycles 17 to 20 substitute the last column and add it to the first one.
KeyCore(core) ==
  LET k == core.key
      rc == IF core.control = 17 THEN core.rcon ELSE {}
  IN [n \in Cell |-> CASE n \in 0..2 -> k[n + 1]
                       [] n = 3 -> XorAll(SBox[k[13]], k[0], rc)
                       [] n \in 12..14 -> k[n + 1]
                       [] n = 15 -> k[12]
                       [] OTHER -> k[n]]

KeyNext(core, word) ==
  CASE core.fsm = "Init" -> Load(core.key, word)
    [] core.fsm # "Init" /\ core.control < 16 -> KeyTurn(core)
    [] core.fsm = "Round" /\ core.control = 16 /\ core.round > 1 -> RotateColumns(core.key)
    [] core.fsm # "Init" /\ core.control >= 17 -> KeyCore(core)
    [] OTHER -> core.key

----------------------------------------------------------------------------
(* The counters and the FSM.                                               *)

Zero == [n \in Cell |-> {}]
Reset == [fsm |-> "Idle", round |-> 1, control |-> 0, rcon |-> {0},
          state |-> Zero, key |-> Zero]

Done(core) == core.fsm = "Done"
LoadsWhenIdle(core) == core.fsm \in {"Idle", "Init"}       \* mutant
Loading(core) == core.fsm = "Init"      \* io_plaintext_ready, io_key_ready
LoadEnds(core) == core.control = 3
RoundsEnd(core) == core.round = 11 /\ core.control = 15
UnloadEnds(core) == core.control = 3
Cipher(core) == [i \in 1..4 |-> core.state[4 * (core.control % 4) + i - 1]]

OverflowsLate(core) == core.control = 21 /\ core.fsm = "Round"   \* mutant
ControlOverflows(core) == core.control = 20 /\ core.fsm = "Round"

FsmNext(core, enable, fire) ==
  CASE core.fsm = "Idle" -> IF enable THEN "Init" ELSE "Idle"
    [] core.fsm = "Init" -> IF LoadEnds(core) THEN "Round" ELSE "Init"
    [] core.fsm = "Round" -> IF RoundsEnd(core) THEN "Done" ELSE "Round"
    [] core.fsm = "Done" -> IF fire /\ UnloadEnds(core) THEN "Idle" ELSE "Done"

ControlNext(core, fire) ==
  IF \/ core.fsm = "Idle"
     \/ core.fsm = "Init" /\ LoadEnds(core)
     \/ core.fsm = "Round" /\ RoundsEnd(core)
     \/ ControlOverflows(core)
  THEN 0
  ELSE IF core.fsm \in {"Init", "Round"} \/ fire THEN core.control + 1 ELSE core.control

RoundNext(core) ==
  IF core.fsm = "Idle" \/ (core.round = 11 /\ ControlOverflows(core)) THEN 1
  ELSE IF ControlOverflows(core) THEN core.round + 1 ELSE core.round

\* The clock edge: "enable", the words offered for the state and the key, and
\* whether a word of ciphertext is taken.  Idle clears the register files.
CoreNext(core, enable, plain, key, ready) ==
  LET fire == ready /\ Done(core)
      idle == core.fsm = "Idle"
  IN [fsm |-> FsmNext(core, enable, fire),
      round |-> RoundNext(core),
      control |-> ControlNext(core, fire),
      rcon |-> IF idle THEN {0}
               ELSE IF ControlOverflows(core) THEN Xtime(core.rcon) ELSE core.rcon,
      state |-> IF idle THEN Zero ELSE StateNext(core, plain),
      key |-> IF idle THEN Zero ELSE KeyNext(core, key)]

CoreType == [fsm : {"Idle", "Init", "Round", "Done"}, round : 1..11, control : 0..20,
             rcon : Byte, state : [Cell -> Byte], key : [Cell -> Byte]]

=============================================================================
