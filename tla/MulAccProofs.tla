---------------------------- MODULE MulAccProofs ----------------------------
(***************************************************************************)
(* MulAcc for every width and number of words: the time that it takes,     *)
(* which the liveness of the plugin's pipeline rests on, and that it holds *)
(* and returns what the test bench's one-cycle accumulator does.           *)
(***************************************************************************)
EXTENDS MulAcc, MulAccPlugin, Inductions

(* A command that clears or adds goes through the words one after another, *)
(* from the first word or from its own, and is stalled before the last.    *)
Start == IF op = "reset" THEN 0 ELSE index

Progress ==
  /\ age \in Nat /\ counter \in Index /\ index \in Index /\ op \in Ops
  /\ valid \in BOOLEAN /\ isNewCommand \in BOOLEAN
  /\ age > 0 => /\ valid /\ op # "read" /\ ~isNewCommand
                /\ counter = Start + age - 1 /\ counter < Size - 1
  /\ ~isNewCommand => valid /\ (op = "read" \/ age > 0)

LEMMA ProgressInit ==
  ASSUME Init
  PROVE  Progress
<1>1. /\ age = 0 /\ counter = 0 /\ index = 0 /\ op \in Ops
      /\ valid = FALSE /\ isNewCommand = TRUE
  BY DEF Init
<1>2. 0 \in Index
  BY SizeAssumption DEF Index
<1>3. ~(age > 0) /\ (~isNewCommand <=> FALSE)
  BY <1>1
<1>4. valid \in BOOLEAN /\ isNewCommand \in BOOLEAN /\ age \in Nat
  BY <1>1
<1> QED
  BY <1>1, <1>2, <1>3, <1>4 DEF Progress

(* A cycle that stalls the command moves the counter on by one word.       *)
LEMMA Stalled ==
  ASSUME Progress, valid, ~InReady, op # "read"
  PROVE  /\ ValueNext = Start + age /\ ValueNext < Size - 1 /\ ValueNext \in Index
<1>1. Size \in Nat /\ Size > 1
  BY SizeAssumption
<1>2. op \in {"reset", "acc"} /\ ~WillOverflow
  BY DEF Progress, Ops, InReady, AddEnds
<1>3. ValueNext = Start + age /\ ValueNext \in Index
  <2>1. CASE isNewCommand
    <3>1. age = 0
      BY <2>1 DEF Progress
    <3>2. ValueNext = Start
      BY <1>2, <2>1 DEF ValueNext, Start
    <3> QED
      BY <1>1, <3>1, <3>2 DEF Start, Progress, Index
  <2>2. CASE ~isNewCommand
    <3>1. counter = Start + age - 1 /\ counter < Size - 1
      BY <1>2, <2>2 DEF Progress
    <3>2. ValueNext = counter + 1
      BY <1>1, <1>2, <2>2, <3>1 DEF ValueNext, Increment, Progress, Index
    <3> QED
      BY <1>1, <3>1, <3>2 DEF Progress, Index, Start
  <2> QED
    BY <2>1, <2>2
<1> QED
  BY <1>1, <1>2, <1>3 DEF WillOverflow, Index

LEMMA ValueNextType ==
  ASSUME Progress
  PROVE  ValueNext \in Index
<1>1. Increment \in Index /\ 0 \in Index
  BY SizeAssumption DEF Progress, Increment, Index
<1> QED
  BY <1>1 DEF Progress, ValueNext, Ops

LEMMA ProgressStep == Progress /\ [Next]_vars => Progress'
<1> SUFFICES ASSUME Progress, [Next]_vars PROVE Progress'
  OBVIOUS
<1>1. CASE Reset
  BY <1>1, SizeAssumption DEF Reset, AfterReset, Progress, Index, Ops
<1>2. CASE Clock
  <2>1. /\ counter' = ValueNext /\ isNewCommand' = (valid => InReady)
        /\ age' = IF valid /\ ~InReady /\ op # "read" THEN age + 1 ELSE 0
        /\ valid' \in BOOLEAN /\ op' \in Ops /\ index' \in Index
        /\ valid /\ ~InReady => op' = op /\ index' = index /\ valid'
    BY <1>2 DEF Clock, Drive
  <2>2. age' \in Nat /\ counter' \in Index /\ isNewCommand' \in BOOLEAN
    BY <2>1, ValueNextType DEF Progress
  <2>3. CASE valid /\ ~InReady /\ op # "read"
    <3>1. /\ op' = op /\ index' = index /\ valid' /\ ~isNewCommand'
          /\ age' = age + 1 /\ Start' = Start
      BY <2>1, <2>3 DEF Start
    <3>2. ValueNext = Start + age /\ ValueNext < Size - 1
      BY <2>3, Stalled
    <3>3. Start + age = Start + (age + 1) - 1 /\ age + 1 > 0
      <4>1. Start \in Int /\ age \in Nat
        BY DEF Progress, Start, Index
      <4> QED
        BY <4>1
    <3>4. counter' = Start' + age' - 1 /\ counter' < Size - 1 /\ age' > 0
      BY <2>1, <3>1, <3>2, <3>3
    <3> QED
      BY <2>1, <2>2, <2>3, <3>1, <3>4 DEF Progress
  <2>4. CASE ~(valid /\ ~InReady /\ op # "read")
    <3>1. age' = 0
      BY <2>1, <2>4
    <3>2. ~isNewCommand' => valid' /\ op' = "read"
      BY <2>1, <2>4
    <3> QED
      BY <2>1, <2>2, <3>1, <3>2 DEF Progress
  <2> QED
    BY <2>3, <2>4
<1>3. CASE UNCHANGED vars
  BY <1>3 DEF vars, registers, inputs, bench, Progress, Start
<1> QED
  BY <1>1, <1>2, <1>3 DEF Next

(* For every width of a word and every number of words, with or without    *)
(* the shortcut for additions without a carry, and wherever a reset or a   *)
(* new command comes: a clear or an addition is over after Size cycles.    *)
THEOREM AlwaysInTime == Spec => []NeverLate
<1>1. Progress => NeverLate
  <2> SUFFICES ASSUME Progress PROVE age < Size
    BY DEF NeverLate
  <2>1. age \in Nat /\ Size \in Nat /\ Size > 1 /\ Start \in Nat /\ counter \in Int
    BY SizeAssumption DEF Progress, Start, Index
  <2>2. age > 0 => counter = Start + age - 1 /\ counter < Size - 1
    BY DEF Progress
  <2> QED
    BY <2>1, <2>2
<1> QED
  BY <1>1, ProgressInit, ProgressStep, PTL DEF Spec
-----------------------------------------------------------------------------
(* The powers of the base.                                                 *)

LEMMA PowerDef ==
  /\ Power \in [0..Size -> Nat] /\ Power[0] = 1
  /\ \A n \in 1..Size : Power[n] = Base * Power[n - 1]
<1> DEFINE g == [n \in 1..Size |-> [x \in Nat |-> Base * x]]
<1>1. g \in [1..Size -> [Nat -> Nat]]
  BY SizeAssumption
<1> HIDE DEF g
<1>2. PICK f \in [0..Size -> Nat] : Follows(f, Size, 1, g)
  <2>1. 1 \in Nat /\ Size \in Nat
    BY SizeAssumption
  <2> QED
    BY <1>1, <2>1, Recursion
<1>3. \A i \in 1..Size : f[i] = Base * f[i - 1]
  <2>1. ASSUME NEW i \in 1..Size PROVE f[i] = Base * f[i - 1]
    <3>1. i - 1 \in 0..Size
      BY SizeAssumption
    <3>2. f[i - 1] \in Nat
      BY <3>1, <1>2
    <3> QED BY <1>2, <3>2 DEF g, Follows
  <2> QED BY <2>1
<1>4. f = [n \in 0..Size |-> IF n = 0 THEN 1 ELSE Base * f[n - 1]]
  <2>1. \A n \in 0..Size : f[n] = IF n = 0 THEN 1 ELSE Base * f[n - 1]
    <3>1. \A n \in 0..Size : n = 0 \/ n \in 1..Size
      BY SizeAssumption
    <3> QED BY <1>2, <1>3, <3>1 DEF Follows
  <2> QED BY <1>2, <2>1 DEF Follows
<1>5. Power = [n \in 0..Size |-> IF n = 0 THEN 1 ELSE Base * Power[n - 1]]
  BY <1>4, Zenon DEF Power
<1>6. \A n \in 1..Size : n \in 0..Size /\ n # 0
  BY SizeAssumption
<1>7. 0 \in 0..Size
  BY SizeAssumption
<1>8. \A n \in 0..Size : Power[n] = IF n = 0 THEN 1 ELSE Base * Power[n - 1]
  BY <1>5
<1> DEFINE T == {n \in 0..Size : Power[n] \in Nat}
<1>9. T = 0..Size
  <2>1. 0 \in T
    BY <1>7, <1>8
  <2>2. ASSUME NEW n \in T, n < Size PROVE n + 1 \in T
    <3>1. n + 1 \in 0..Size /\ n + 1 # 0 /\ n + 1 - 1 = n /\ Power[n] \in Nat
      BY <2>2, SizeAssumption
    <3>2. Power[n + 1] = Base * Power[n]
      BY <1>8, <3>1
    <3> QED BY <3>1, <3>2, SizeAssumption
  <2>3. T \in SUBSET (0..Size)
    OBVIOUS
  <2> HIDE DEF T
  <2> QED BY <2>1, <2>2, <2>3, Induction, SizeAssumption
<1> QED BY <1>5, <1>6, <1>7, <1>8, <1>9

LEMMA Powers ==
  /\ \A n \in 0..Size : Power[n] \in Nat /\ Power[n] > 0
  /\ \A n \in Index : n \in 0..Size /\ n + 1 \in 0..Size /\ Power[n + 1] = Base * Power[n]
<1>1. \A n \in Index : n \in 0..Size /\ n + 1 \in 0..Size /\ Power[n + 1] = Base * Power[n]
  <2>1. ASSUME NEW n \in Index
        PROVE  n \in 0..Size /\ n + 1 \in 1..Size /\ n + 1 - 1 = n /\ n + 1 \in 0..Size
    BY SizeAssumption DEF Index
  <2> QED
    BY <2>1, PowerDef
<1> DEFINE T == {n \in 0..Size : Power[n] > 0}
<1>2. T = 0..Size
  <2>1. 0 \in T
    BY PowerDef, SizeAssumption
  <2>2. ASSUME NEW n \in T, n < Size PROVE n + 1 \in T
    <3>1. n \in Index /\ Power[n] \in Nat /\ Power[n] > 0
      BY <2>2, SizeAssumption, PowerDef DEF Index
    <3>2. Base * Power[n] > 0
      BY <3>1, SizeAssumption
    <3> QED
      BY <1>1, <3>1, <3>2
  <2>3. T \in SUBSET (0..Size)
    OBVIOUS
  <2> HIDE DEF T
  <2> QED
    BY <2>1, <2>2, <2>3, Induction, SizeAssumption
<1> QED
  BY <1>1, <1>2, PowerDef

-----------------------------------------------------------------------------
(* Numbers of words, from the lowest word up.                              *)

LEMMA UpToDef ==
  ASSUME NEW m \in [Index -> Word]
  PROVE  /\ UpTo(m) \in [0..Size -> Nat] /\ UpTo(m)[0] = 0
         /\ \A n \in Index : UpTo(m)[n + 1] = UpTo(m)[n] + m[n] * Power[n]
<1> DEFINE g == [n \in 1..Size |-> [x \in Nat |-> x + m[n - 1] * Power[n - 1]]]
           U == UpTo(m)
<1>1. ASSUME NEW n \in 1..Size
      PROVE  /\ n - 1 \in Index /\ n - 1 \in 0..Size /\ n \in 0..Size /\ n # 0
             /\ m[n - 1] * Power[n - 1] \in Nat
  <2>1. n - 1 \in Index /\ n - 1 \in 0..Size /\ n \in 0..Size /\ n # 0
    BY SizeAssumption DEF Index
  <2>2. m[n - 1] \in Nat /\ Power[n - 1] \in Nat
    BY <2>1, Powers, SizeAssumption DEF Word
  <2> QED
    BY <2>1, <2>2
<1>2. g \in [1..Size -> [Nat -> Nat]]
  BY <1>1
<1> HIDE DEF g
<1>3. PICK f \in [0..Size -> Nat] : Follows(f, Size, 0, g)
  <2>1. 0 \in Nat /\ Size \in Nat
    BY SizeAssumption
  <2> QED
    BY <1>2, <2>1, Recursion
<1>4. \A n \in 1..Size : f[n] = f[n - 1] + m[n - 1] * Power[n - 1]
  <2>1. ASSUME NEW n \in 1..Size PROVE f[n] = f[n - 1] + m[n - 1] * Power[n - 1]
    <3>1. f[n - 1] \in Nat
      BY <1>1, <1>3
    <3> QED
      BY <1>3, <3>1 DEF g, Follows
  <2> QED
    BY <2>1
<1>5. f = [n \in 0..Size |-> IF n = 0 THEN 0 ELSE f[n - 1] + m[n - 1] * Power[n - 1]]
  <2>1. \A n \in 0..Size : f[n] = IF n = 0 THEN 0 ELSE f[n - 1] + m[n - 1] * Power[n - 1]
    <3>1. \A n \in 0..Size : n = 0 \/ n \in 1..Size
      BY SizeAssumption
    <3> QED
      BY <1>3, <1>4, <3>1 DEF Follows
  <2> QED
    BY <1>3, <2>1
<1>6. U = [n \in 0..Size |-> IF n = 0 THEN 0 ELSE U[n - 1] + m[n - 1] * Power[n - 1]]
  BY <1>5, Zenon DEF UpTo
<1> HIDE DEF U
<1>7. \A n \in 0..Size : U[n] = IF n = 0 THEN 0 ELSE U[n - 1] + m[n - 1] * Power[n - 1]
  BY <1>6
<1>8. U[0] = 0 /\ 0 \in 0..Size
  BY <1>7, SizeAssumption
<1>9. ASSUME NEW n \in Index
      PROVE  n + 1 \in 0..Size /\ U[n + 1] = U[n] + m[n] * Power[n]
  <2>1. n + 1 \in 0..Size /\ n + 1 # 0 /\ n + 1 - 1 = n
    BY SizeAssumption DEF Index
  <2>2. n \in Int
    BY SizeAssumption DEF Index
  <2> QED
    BY <1>7, <2>1, <2>2
<1> DEFINE T == {n \in 0..Size : U[n] \in Nat}
<1>10. T = 0..Size
  <2>1. 0 \in T
    BY <1>8
  <2>2. ASSUME NEW n \in T, n < Size PROVE n + 1 \in T
    <3>1. n \in Index /\ n + 1 \in 1..Size /\ n + 1 - 1 = n
      BY <2>2, SizeAssumption DEF Index
    <3>2. m[n] * Power[n] \in Nat
      BY <1>1, <3>1
    <3> QED
      BY <1>9, <3>1, <3>2
  <2>3. T \in SUBSET (0..Size)
    OBVIOUS
  <2> HIDE DEF T
  <2> QED
    BY <2>1, <2>2, <2>3, Induction, SizeAssumption
<1> QED
  BY <1>6, <1>8, <1>9, <1>10 DEF U


(* The first n words are worth less than word n would count.               *)
LEMMA UpToBound ==
  ASSUME NEW m \in [Index -> Word]
  PROVE  \A n \in 0..Size : UpTo(m)[n] < Power[n]
<1> DEFINE U == UpTo(m)
           T == {n \in 0..Size : U[n] < Power[n]}
<1>1. /\ U \in [0..Size -> Nat] /\ U[0] = 0
      /\ \A n \in Index : U[n + 1] = U[n] + m[n] * Power[n]
  BY UpToDef
<1> HIDE DEF U
<1>2. T = 0..Size
  <2>1. 0 \in T
    BY <1>1, PowerDef, SizeAssumption
  <2>2. ASSUME NEW n \in T, n < Size PROVE n + 1 \in T
    <3>1. n \in Index /\ n \in 0..Size /\ n + 1 \in 0..Size /\ U[n] \in Nat /\ U[n] < Power[n]
      BY <1>1, <2>2, SizeAssumption DEF Index
    <3>2. /\ U[n + 1] = U[n] + m[n] * Power[n] /\ Power[n + 1] = Base * Power[n]
          /\ Power[n] \in Nat /\ m[n] \in 0..Base - 1 /\ Base \in Nat
      BY <1>1, <3>1, Powers, SizeAssumption DEF Word
    <3>3. ASSUME NEW p \in Nat, NEW w \in 0..Base - 1, Base \in Nat
          PROVE  p + w * p <= Base * p
      <4>1. (Base - 1 - w) * p \in Nat
        BY <3>3
      <4>2. (Base - 1 - w) * p = Base * p - p - w * p
        BY <3>3
      <4> QED
        BY <3>3, <4>1, <4>2
    <3>4. Power[n] + m[n] * Power[n] <= Base * Power[n]
      BY <3>2, <3>3
    <3>5. m[n] * Power[n] \in Nat /\ Base * Power[n] \in Nat
      BY <3>2
    <3>6. U[n + 1] < Power[n + 1]
      BY <3>1, <3>2, <3>4, <3>5
    <3> QED
      BY <3>1, <3>6
  <2>3. T \in SUBSET (0..Size)
    OBVIOUS
  <2> HIDE DEF T
  <2> QED
    BY <2>1, <2>2, <2>3, Induction, SizeAssumption
<1> QED
  BY <1>2 DEF U

LEMMA ValueBound ==
  ASSUME NEW m \in [Index -> Word]
  PROVE  Value(m) \in 0..Modulus - 1
<1>1. Size \in 0..Size
  BY SizeAssumption
<1>2. UpTo(m)[Size] \in Nat /\ Power[Size] \in Nat /\ UpTo(m)[Size] < Power[Size]
  BY <1>1, UpToDef, UpToBound, Powers
<1> QED
  BY <1>2 DEF Value, Modulus

(* What writing a word adds to the value.                                  *)
LEMMA ValueWrite ==
  ASSUME NEW m \in [Index -> Word], NEW k \in Index, NEW w \in Word
  PROVE  Value([m EXCEPT ![k] = w]) = Value(m) + (w - m[k]) * Power[k]
<1> DEFINE h == [m EXCEPT ![k] = w]
           U == UpTo(m)
           V == UpTo(h)
           e == (w - m[k]) * Power[k]
           T == {n \in 0..Size : V[n] = U[n] + IF n > k THEN e ELSE 0}
<1>1. /\ h \in [Index -> Word] /\ h[k] = w
      /\ \A n \in Index : n # k => h[n] = m[n]
  OBVIOUS
<1>2. /\ k \in 0..Size /\ k < Size /\ Power[k] \in Nat /\ w \in Nat /\ m[k] \in Nat
  BY Powers, SizeAssumption DEF Index, Word
<1>3. e \in Int /\ w * Power[k] = m[k] * Power[k] + e
  BY <1>2
<1> HIDE DEF h, e
<1>4. /\ U \in [0..Size -> Nat] /\ U[0] = 0
      /\ \A n \in Index : U[n + 1] = U[n] + m[n] * Power[n]
  BY UpToDef
<1>5. /\ V \in [0..Size -> Nat] /\ V[0] = 0
      /\ \A n \in Index : V[n + 1] = V[n] + h[n] * Power[n]
  BY <1>1, UpToDef
<1> HIDE DEF U, V
<1>6. T = 0..Size
  <2>1. 0 \in T
    <3>1. 0 \in 0..Size /\ ~ (0 > k)
      BY <1>2, SizeAssumption
    <3>2. V[0] = U[0] + 0
      BY <1>4, <1>5
    <3> QED
      BY <3>1, <3>2
  <2>2. ASSUME NEW n \in T, n < Size PROVE n + 1 \in T
    <3>1. /\ n \in Index /\ n \in 0..Size /\ n + 1 \in 0..Size
          /\ U[n] \in Nat /\ V[n] \in Nat /\ k \in Nat
      <4>1. n \in 0..Size
        OBVIOUS
      <4>2. n \in Index /\ n + 1 \in 0..Size /\ k \in Nat
        BY <1>2, <2>2, <4>1, SizeAssumption DEF Index
      <4> QED
        BY <1>4, <1>5, <4>1, <4>2
    <3>2. /\ V[n] = U[n] + IF n > k THEN e ELSE 0
          /\ U[n + 1] = U[n] + m[n] * Power[n] /\ V[n + 1] = V[n] + h[n] * Power[n]
      BY <1>4, <1>5, <2>2, <3>1
    <3>3. m[n] * Power[n] \in Nat
      <4>1. m[n] \in Nat /\ Power[n] \in Nat
        BY <3>1, Powers, SizeAssumption DEF Word
      <4> QED
        BY <4>1
    <3>4. CASE n = k
      <4>1. V[n + 1] = U[n + 1] + e
        BY <1>1, <1>3, <3>1, <3>2, <3>3, <3>4
      <4> QED
        BY <3>1, <3>4, <4>1
    <3>5. CASE n # k
      <4>1. h[n] * Power[n] = m[n] * Power[n]
        BY <1>1, <3>1, <3>5
      <4>2. V[n + 1] = U[n + 1] + IF n > k THEN e ELSE 0
        BY <1>3, <3>1, <3>2, <3>3, <4>1
      <4>3. n > k <=> n + 1 > k
        BY <3>1, <3>5
      <4> QED
        BY <3>1, <4>2, <4>3
    <3> QED
      BY <3>4, <3>5
  <2>3. T \in SUBSET (0..Size)
    OBVIOUS
  <2> HIDE DEF T
  <2> QED
    BY <2>1, <2>2, <2>3, Induction, SizeAssumption
<1>7. Size \in 0..Size /\ Size > k
  BY <1>2, SizeAssumption
<1>8. V[Size] = U[Size] + e
  BY <1>6, <1>7
<1> QED
  BY <1>8 DEF U, V, e, h, Value

LEMMA ValueOfZero ==
  ASSUME NEW m \in [Index -> Word], \A i \in Index : m[i] = 0
  PROVE  Value(m) = 0
<1> DEFINE U == UpTo(m)
           T == {n \in 0..Size : U[n] = 0}
<1>1. /\ U[0] = 0 /\ \A n \in Index : U[n + 1] = U[n] + m[n] * Power[n]
  BY UpToDef
<1> HIDE DEF U
<1>2. T = 0..Size
  <2>1. 0 \in T
    BY <1>1, SizeAssumption
  <2>2. ASSUME NEW n \in T, n < Size PROVE n + 1 \in T
    <3>1. n \in Index /\ n + 1 \in 0..Size /\ U[n] = 0
      BY <2>2, SizeAssumption DEF Index
    <3>2. m[n] = 0 /\ Power[n] \in Nat
      BY <3>1, Powers
    <3> QED
      BY <1>1, <3>1, <3>2
  <2>3. T \in SUBSET (0..Size)
    OBVIOUS
  <2> HIDE DEF T
  <2> QED
    BY <2>1, <2>2, <2>3, Induction, SizeAssumption
<1>3. Size \in 0..Size
  BY SizeAssumption
<1> QED
  BY <1>2, <1>3 DEF U, Value


(* The word at position k of the value is word k.                          *)
LEMMA WordOfValue ==
  ASSUME NEW m \in [Index -> Word], NEW k \in Index
  PROVE  WordAt(Value(m), k) = m[k]
<1> DEFINE U == UpTo(m)
           p == Power[k]
           Splits(n, c, r) == Power[n] = p * (Base * c) /\ U[n] = U[k] + p * (m[k] + Base * r)
           T == {n \in 0..Size : n > k => \E c, r \in Nat : Splits(n, c, r)}
<1>1. /\ U \in [0..Size -> Nat]
      /\ \A n \in Index : U[n + 1] = U[n] + m[n] * Power[n]
  BY UpToDef
<1>2. /\ k \in 0..Size /\ k \in Nat /\ k < Size /\ p \in Nat /\ p > 0 /\ m[k] \in 0..Base - 1
      /\ Base \in Nat /\ Base > 0 /\ U[k] \in 0..p - 1
  <2>1. /\ k \in 0..Size /\ k \in Nat /\ k < Size /\ m[k] \in 0..Base - 1
        /\ Base \in Nat /\ Base > 0
    BY SizeAssumption DEF Index, Word
  <2>2. p \in Nat /\ p > 0 /\ U[k] \in Nat /\ U[k] < p
    BY <1>1, <2>1, Powers, UpToBound
  <2> QED
    BY <2>1, <2>2
<1>3. Power[k + 1] = Base * p /\ k + 1 \in 0..Size
  BY Powers
<1>4. U[k + 1] = U[k] + m[k] * p
  BY <1>1
<1> HIDE DEF U, p
<1>5. T = 0..Size
  <2>1. 0 \in T
    BY <1>2, SizeAssumption
  <2>2. ASSUME NEW n \in T, n < Size PROVE n + 1 \in T
    <3>1. n \in 0..Size /\ n \in Index /\ n + 1 \in 0..Size
      <4>1. n \in 0..Size
        OBVIOUS
      <4> QED
        BY <2>2, <4>1, SizeAssumption DEF Index
    <3>2. CASE n < k
      <4>1. ~ (n + 1 > k)
        BY <1>2, <3>1, <3>2
      <4> QED
        BY <3>1, <4>1
    <3>3. CASE n = k
      <4>1. Splits(k + 1, 1, 0)
        BY <1>2, <1>3, <1>4
      <4> HIDE DEF Splits
      <4> QED
        BY <3>1, <3>3, <4>1
    <3>4. CASE n > k
      <4>1. PICK c \in Nat, r \in Nat : Splits(n, c, r)
        BY <3>4
      <4>2. /\ U[n + 1] = U[n] + m[n] * Power[n] /\ Power[n + 1] = Base * Power[n]
            /\ m[n] \in Nat
        BY <1>1, <3>1, Powers, SizeAssumption DEF Word
      <4>3. Power[n + 1] = p * (Base * (Base * c))
        BY <1>2, <4>1, <4>2
      <4>4. U[n + 1] = U[k] + p * (m[k] + Base * (r + m[n] * c))
        <5>1. U[n + 1] = U[k] + p * (m[k] + Base * r) + m[n] * (p * (Base * c))
          BY <4>1, <4>2
        <5>2. m[n] * (p * (Base * c)) = p * (Base * (m[n] * c))
          BY <1>2, <4>2
        <5>3. m[n] * c \in Nat
          BY <4>2
        <5>4. Base * (r + m[n] * c) = Base * r + Base * (m[n] * c)
          BY <1>2, <5>3
        <5>5. ASSUME NEW a \in Nat, NEW b \in Nat
              PROVE  p * (m[k] + (a + b)) = p * (m[k] + a) + p * b
          BY <1>2
        <5>6. Base * r \in Nat /\ Base * (m[n] * c) \in Nat
          BY <1>2, <5>3
        <5>7. p * (m[k] + Base * (r + m[n] * c)) = p * (m[k] + Base * r) + p * (Base * (m[n] * c))
          <6> DEFINE a == Base * r
                     b == Base * (m[n] * c)
                     d == Base * (r + m[n] * c)
          <6>1. d = a + b /\ a \in Nat /\ b \in Nat
            BY <5>4, <5>6
          <6> HIDE DEF a, b, d
          <6>2. p * (m[k] + (a + b)) = p * (m[k] + a) + p * b
            BY <5>5, <6>1
          <6>3. p * (m[k] + d) = p * (m[k] + a) + p * b
            BY <6>1, <6>2
          <6> QED
            BY <6>3 DEF a, b, d
        <5>8. p * (m[k] + Base * r) \in Nat /\ p * (Base * (m[n] * c)) \in Nat
          BY <1>2, <5>6
        <5> QED
          BY <1>2, <5>1, <5>2, <5>7, <5>8
      <4>5. Base * c \in Nat /\ r + m[n] * c \in Nat
        BY <1>2, <4>2
      <4>6. Splits(n + 1, Base * c, r + m[n] * c)
        BY <4>3, <4>4
      <4> HIDE DEF Splits
      <4> QED
        BY <3>1, <4>5, <4>6
    <3> QED
      BY <1>2, <3>1, <3>2, <3>3, <3>4
  <2>3. T \in SUBSET (0..Size)
    OBVIOUS
  <2> HIDE DEF T
  <2> QED
    BY <2>1, <2>2, <2>3, Induction, SizeAssumption
<1>6. PICK c \in Nat, r \in Nat : Splits(Size, c, r)
  <2>1. Size \in 0..Size /\ Size > k
    BY <1>2, SizeAssumption
  <2> HIDE DEF Splits
  <2> QED
    BY <1>5, <2>1
<1> DEFINE q == Base * r + m[k]
<1>7. U[Size] = p * q + U[k]
  <2>1. p * (m[k] + Base * r) = p * q
    BY <1>2
  <2>2. p * q \in Nat
    BY <1>2
  <2> HIDE DEF q
  <2> QED
    BY <1>2, <1>6, <2>1, <2>2
<1>8. U[Size] \div p = q
  <2>1. q \in Int
    BY <1>2
  <2> HIDE DEF q
  <2> QED
    BY <1>2, <1>7, <2>1, DivUnique
<1>9. q % Base = m[k]
  BY <1>2, DivUnique
<1> QED
  BY <1>8, <1>9 DEF WordAt, Value, U, p


-----------------------------------------------------------------------------
(* What memory, carry and test bench have to do with each other.           *)

DataTypes ==
  /\ acc \in [Index -> Word] /\ tmp \in Nat /\ data \in DoubleWord
  /\ model \in 0..Modulus - 1 /\ needsReset \in BOOLEAN /\ sideChannel \in BOOLEAN
\* The first command after a reset clears the memory, of which nothing is known.
FirstClears ==
  valid /\ needsReset => op = "reset" /\ isNewCommand
\* Between commands memory and test bench agree; a read may be stalled.
Settled ==
  ~needsReset /\ (isNewCommand \/ op = "read") => Value(acc) = model
\* In the middle of a clear the words so far are 0.
Clearing ==
  ~isNewCommand /\ op = "reset" => \A i \in 0..counter : acc[i] = 0
\* In the middle of an addition the carry counts at the position of the next word.
Adding ==
  ~isNewCommand /\ op = "acc" =>
    Value(acc) + tmp * Power[counter + 1] = model + data * Power[index]
Exact == Progress /\ DataTypes /\ FirstClears /\ Settled /\ Clearing /\ Adding

LEMMA ExactInit ==
  ASSUME Init
  PROVE  Exact
<1>1. Progress
  BY ProgressInit
<1>2. /\ acc = [i \in Index |-> Base - 1] /\ tmp = 0 /\ data = 0 /\ model = 0
      /\ needsReset = TRUE /\ isNewCommand = TRUE /\ valid = FALSE /\ sideChannel \in BOOLEAN
  BY DEF Init
<1>3. acc \in [Index -> Word] /\ 0 \in DoubleWord
  <2>1. Base - 1 \in Word
    BY SizeAssumption DEF Word
  <2>2. Base * Base - 1 \in Nat
    BY SizeAssumption
  <2> QED
    BY <1>2, <2>1, <2>2 DEF DoubleWord
<1>4. 0 \in 0..Modulus - 1
  BY Powers, SizeAssumption DEF Modulus
<1>5. DataTypes
  BY <1>2, <1>3, <1>4 DEF DataTypes
<1> QED
  BY <1>1, <1>2, <1>5 DEF Exact, FirstClears, Settled, Clearing, Adding

(* Adding s at position j, as far as one cycle goes.                       *)
LEMMA AddsWord ==
  ASSUME NEW m \in [Index -> Word], NEW j \in Index, NEW s \in Nat
  PROVE  LET whole == m[j] + s
         IN /\ Low(whole) \in Word /\ High(whole) \in Nat
            /\ Value([m EXCEPT ![j] = Low(whole)]) + High(whole) * Power[j + 1]
                 = Value(m) + s * Power[j]
<1> DEFINE whole == m[j] + s
           l == Low(whole)
           h == High(whole)
           p == Power[j]
<1>1. /\ m[j] \in Nat /\ whole \in Nat /\ Base \in Nat /\ Base > 0
      /\ p \in Nat /\ Power[j + 1] = Base * p
  BY SizeAssumption, Powers DEF Word
<1>2. whole = Base * h + l /\ l \in 0..Base - 1 /\ h \in Int
  <2> HIDE DEF whole
  <2> QED
    BY <1>1, DivMod DEF High, Low
<1>3. h \in Nat
  <2>1. h < 0 => Base * h <= -Base
    BY <1>1, <1>2
  <2> HIDE DEF h, l, whole
  <2> QED
    BY <1>1, <1>2, <2>1
<1>4. Value([m EXCEPT ![j] = l]) = Value(m) + (l - m[j]) * p
  BY <1>2, ValueWrite DEF Word
<1>5. Value(m) \in Int
  BY ValueBound, Powers, SizeAssumption DEF Modulus
<1>6. m[j] + s = Base * h + l
  BY <1>2
<1> HIDE DEF l, h, whole, p
<1>7. (l - m[j]) * p + h * (Base * p) = s * p
  <2>1. s = Base * h + (l - m[j])
    BY <1>1, <1>2, <1>3, <1>6
  <2>2. s * p = (Base * h) * p + (l - m[j]) * p
    BY <1>1, <1>2, <1>3, <2>1
  <2>3. (Base * h) * p = h * (Base * p)
    BY <1>1, <1>3
  <2>4. (l - m[j]) * p \in Int /\ h * (Base * p) \in Int
    BY <1>1, <1>2, <1>3
  <2> QED
    BY <2>2, <2>3, <2>4
<1>8. (l - m[j]) * p \in Int /\ h * (Base * p) \in Int
  BY <1>1, <1>2, <1>3
<1>9. Value([m EXCEPT ![j] = l]) + h * Power[j + 1] = Value(m) + s * p
  BY <1>1, <1>4, <1>5, <1>7, <1>8
<1> QED
  BY <1>2, <1>3, <1>9 DEF l, h, p, whole, Word

LEMMA NextTypes ==
  ASSUME Progress, DataTypes, Clock
  PROVE  /\ data' \in DoubleWord /\ needsReset' \in BOOLEAN /\ sideChannel' \in BOOLEAN
         /\ FirstClears'
         /\ valid /\ ~InReady => op' = op /\ index' = index /\ data' = data
         /\ isNewCommand' = (valid => InReady) /\ counter' = ValueNext
BY DEF Progress, DataTypes, Clock, Drive, FirstClears

(* No command that changes the memory is on the bus.                       *)
LEMMA ReadStep ==
  ASSUME Exact, Clock, ~valid \/ op = "read"
  PROVE  DataTypes' /\ Settled' /\ Clearing' /\ Adding'
<1>1. acc' = acc /\ tmp' = tmp
  BY DEF Clock, Written
<1>2. model' = model /\ Value(acc)' = Value(acc)
  BY <1>1 DEF Clock, InFire, ModelNext
<1>3. DataTypes'
  BY <1>1, <1>2, NextTypes DEF Exact, DataTypes
<1>4. ~needsReset' => Value(acc) = model
  BY DEF Clock, Exact, Progress, Settled, FirstClears
<1>5. Settled'
  BY <1>2, <1>4 DEF Settled
<1>6. ~isNewCommand' => op' = "read"
  BY NextTypes DEF Exact
<1> QED
  BY <1>3, <1>5, <1>6 DEF Clearing, Adding

LEMMA ClearStep ==
  ASSUME Exact, Clock, valid, op = "reset"
  PROVE  DataTypes' /\ Settled' /\ Clearing' /\ Adding'
<1>1. acc' = [acc EXCEPT ![ValueNext] = 0] /\ tmp' = tmp
  BY DEF Clock, Written
<1>2. ValueNext \in Index /\ acc \in [Index -> Word] /\ 0 \in Word /\ counter \in Index
  BY ValueNextType, SizeAssumption DEF Exact, DataTypes, Word, Progress
<1>3. acc' \in [Index -> Word]
  BY <1>1, <1>2
<1>4. model' = IF InFire THEN 0 ELSE model
  BY DEF Clock, ModelNext
<1>5. 0 \in 0..Modulus - 1
  BY Powers, SizeAssumption DEF Modulus
<1>6. DataTypes'
  BY <1>1, <1>3, <1>4, <1>5, NextTypes DEF Exact, DataTypes
\* So far all words up to this one have been cleared.
<1>7. \A i \in 0..ValueNext : acc'[i] = 0
  <2>1. CASE isNewCommand
    <3>1. ValueNext = 0
      BY <2>1 DEF ValueNext
    <3>2. acc'[0] = 0
      BY <1>1, <1>2, <3>1
    <3> QED
      BY <3>1, <3>2
  <2>2. CASE ~isNewCommand
    <3>1. counter < Size - 1 /\ ValueNext = Increment
      BY <2>2 DEF Exact, Progress, ValueNext
    <3>2. ValueNext = counter + 1 /\ counter \in Nat
      BY <1>2, <3>1, SizeAssumption DEF Increment, Index
    <3>3. \A i \in 0..counter : acc[i] = 0
      BY <2>2 DEF Exact, Clearing
    <3>4. ASSUME NEW i \in 0..ValueNext PROVE acc'[i] = 0
      <4>1. i \in Index /\ (i = ValueNext \/ i \in 0..counter)
        BY <1>2, <3>2, SizeAssumption DEF Index
      <4> QED
        BY <1>1, <1>2, <3>3, <4>1
    <3> QED
      BY <3>4
  <2> QED
    BY <2>1, <2>2
<1>8. InReady => Value(acc)' = 0
  <2>1. InReady => ValueNext = Size - 1
    BY DEF InReady, WillOverflow
  <2>2. InReady => \A i \in Index : acc'[i] = 0
    BY <1>7, <2>1 DEF Index
  <2>3. InReady => Value(acc') = 0
    BY <1>3, <2>2, ValueOfZero
  <2> QED
    BY <2>3
<1>9. Settled'
  <2>1. isNewCommand' => InReady
    BY NextTypes DEF Exact
  <2>2. ~isNewCommand' => op' = "reset"
    BY NextTypes DEF Exact
  <2>3. InReady => Value(acc)' = model'
    BY <1>4, <1>8 DEF InFire
  <2> QED
    BY <2>1, <2>2, <2>3 DEF Settled
<1>10. Clearing' /\ Adding'
  <2>1. counter' = ValueNext
    BY NextTypes DEF Exact
  <2>2. ~isNewCommand' => op' = "reset"
    BY NextTypes DEF Exact
  <2> QED
    BY <1>7, <2>1, <2>2 DEF Clearing, Adding
<1> QED
  BY <1>6, <1>9, <1>10

LEMMA AddStep ==
  ASSUME Exact, Clock, valid, op = "acc"
  PROVE  DataTypes' /\ Settled' /\ Clearing' /\ Adding'
<1> DEFINE j == ValueNext
           s == IF isNewCommand THEN data ELSE tmp
           amount == model + data * Power[index]
<1>1. /\ j \in Index /\ acc \in [Index -> Word] /\ s \in Nat /\ ~needsReset
      /\ model \in Nat /\ data \in Nat /\ index \in Index /\ counter \in Index
      /\ Modulus \in Nat /\ Modulus > 0
  <2>1. /\ acc \in [Index -> Word] /\ ~needsReset /\ index \in Index /\ counter \in Index
        /\ data \in DoubleWord /\ tmp \in Nat /\ model \in 0..Modulus - 1
    BY DEF Exact, DataTypes, FirstClears, Progress
  <2>2. data \in Nat
    BY <2>1 DEF DoubleWord
  <2>3. Modulus \in Nat /\ Modulus > 0
    BY Powers, SizeAssumption DEF Modulus
  <2>4. model \in Nat
    BY <2>1, <2>3
  <2> QED
    BY <2>1, <2>2, <2>3, <2>4, ValueNextType DEF Exact
<1>2. amount \in Nat
  <2>1. Power[index] \in Nat
    BY <1>1, Powers
  <2> QED
    BY <1>1, <2>1
<1>3. Value(acc) + s * Power[j] = amount
  <2>1. CASE isNewCommand
    <3>1. j = index /\ s = data
      BY <2>1 DEF ValueNext
    <3>2. Value(acc) = model
      BY <1>1, <2>1 DEF Exact, Settled
    <3> QED
      BY <3>1, <3>2
  <2>2. CASE ~isNewCommand
    <3>1. counter < Size - 1 /\ j = Increment /\ s = tmp
      BY <2>2 DEF Exact, Progress, ValueNext
    <3>2. j = counter + 1
      BY <1>1, <3>1, SizeAssumption DEF Increment, Index
    <3> QED
      BY <2>2, <3>1, <3>2 DEF Exact, Adding
  <2> QED
    BY <2>1, <2>2
<1>4. /\ acc' = [acc EXCEPT ![j] = Low(WordSum)] /\ tmp' = High(WordSum)
      /\ WordSum = acc[j] + s /\ model' = IF InReady THEN amount % Modulus ELSE model
  BY DEF Clock, Written, WordSum, InFire, ModelNext
<1> HIDE DEF j, s, amount
<1>5. /\ Low(WordSum) \in Word /\ tmp' \in Nat
      /\ Value(acc') + tmp' * Power[j + 1] = amount
  BY <1>1, <1>3, <1>4, AddsWord
<1>6. acc' \in [Index -> Word]
  BY <1>1, <1>4, <1>5
<1>7. Value(acc') \in 0..Modulus - 1
  BY <1>6, ValueBound
<1>8. DataTypes'
  <2>1. amount % Modulus \in 0..Modulus - 1
    BY <1>1, <1>2, DivMod
  <2> QED
    BY <1>4, <1>5, <1>6, <2>1, NextTypes DEF Exact, DataTypes
<1>9. InReady => Value(acc') = amount % Modulus
  <2>1. CASE WillOverflow
    <3>1. Power[j + 1] = Modulus
      <4>1. j + 1 = Size
        BY <2>1, SizeAssumption DEF WillOverflow, j
      <4> QED
        BY <4>1 DEF Modulus
    <3>2. amount = Modulus * tmp' + Value(acc')
      BY <1>1, <1>5, <1>7, <3>1
    <3>3. tmp' \in Int
      BY <1>5
    <3>4. (Modulus * tmp' + Value(acc')) % Modulus = Value(acc')
      BY <1>1, <1>7, <3>3, DivUnique
    <3> QED
      BY <3>2, <3>4
  <2>2. CASE High(WordSum) = 0
    <3>1. amount = Value(acc')
      <4>1. Power[j + 1] \in Nat
        BY <1>1, Powers
      <4> QED
        BY <1>4, <1>5, <1>7, <2>2, <4>1
    <3>2. amount = Modulus * 0 + Value(acc')
      BY <1>1, <1>7, <3>1
    <3> QED
      BY <1>1, <1>7, <3>2, DivUnique
  <2>3. InReady => WillOverflow \/ High(WordSum) = 0
    BY DEF InReady, AddEnds
  <2> QED
    BY <2>1, <2>2, <2>3
<1>10. /\ (isNewCommand' <=> InReady) /\ counter' = j
       /\ ~InReady => op' = "acc" /\ index' = index /\ data' = data /\ model' = model
  BY <1>4, NextTypes DEF Exact, j
<1>11. Settled'
  <2>1. isNewCommand' \/ op' = "read" => InReady
    BY <1>10
  <2>2. InReady => Value(acc)' = model'
    BY <1>4, <1>9
  <2> QED
    BY <2>1, <2>2 DEF Settled
<1>12. Clearing'
  BY <1>10 DEF Clearing
<1>13. Adding'
  <2>1. SUFFICES ASSUME ~isNewCommand', op' = "acc"
                 PROVE  Value(acc)' + tmp' * (Power[counter + 1])' = (model + data * Power[index])'
    BY DEF Adding
  <2>2. (model + data * Power[index])' = amount
    BY <1>10, <2>1 DEF amount
  <2>3. (Power[counter + 1])' = Power[j + 1]
    BY <1>10
  <2> QED
    BY <1>5, <2>2, <2>3
<1> QED
  BY <1>8, <1>11, <1>12, <1>13

LEMMA ExactStep == Exact /\ [Next]_vars => Exact'
<1> SUFFICES ASSUME Exact, [Next]_vars PROVE Exact'
  OBVIOUS
<1>1. Progress'
  BY ProgressStep DEF Exact
<1>2. CASE Reset
  <2>1. /\ acc' = acc /\ sideChannel' = sideChannel /\ tmp' = 0 /\ data' = 0 /\ model' = 0
        /\ needsReset' = TRUE /\ isNewCommand' = TRUE /\ op' = "reset"
    BY <1>2 DEF Reset, AfterReset
  <2>2. 0 \in DoubleWord /\ 0 \in 0..Modulus - 1
    <3>1. Base * Base - 1 \in Nat
      BY SizeAssumption
    <3>2. Modulus \in Nat /\ Modulus > 0
      BY Powers, SizeAssumption DEF Modulus
    <3> QED
      BY <3>1, <3>2 DEF DoubleWord
  <2>3. DataTypes'
    BY <2>1, <2>2 DEF Exact, DataTypes
  <2> QED
    BY <1>1, <2>1, <2>3 DEF Exact, FirstClears, Settled, Clearing, Adding
<1>3. CASE Clock
  <2>1. FirstClears'
    BY <1>3, NextTypes DEF Exact
  <2>2. op \in {"reset", "acc", "read"} /\ valid \in BOOLEAN
    BY DEF Exact, Progress, Ops
  <2>3. DataTypes' /\ Settled' /\ Clearing' /\ Adding'
    BY <1>3, <2>2, ReadStep, ClearStep, AddStep
  <2> QED
    BY <1>1, <2>1, <2>3 DEF Exact
<1>4. CASE UNCHANGED vars
  BY <1>1, <1>4 DEF vars, registers, inputs, bench, Exact, DataTypes, FirstClears, Settled,
                    Clearing, Adding, Value
<1> QED
  BY <1>2, <1>3, <1>4 DEF Next

(* Between commands the memory holds the test bench's number, for every    *)
(* width of a word and every number of words, in both variants, wherever   *)
(* stalls, gaps and resets come (MulAcc.scala:63-111): an addition at any   *)
(* position carries through to the last word, or ends when nothing is left *)
(* to carry, and what is carried out of the last word is dropped.          *)
THEOREM AlwaysExact == Spec => []MatchesModel
<1>1. Exact => MatchesModel
  BY DEF Exact, Settled, MatchesModel
<1> QED
  BY <1>1, ExactInit, ExactStep, PTL DEF Spec

(* A read returns the word of the test bench's number at its index, in the *)
(* first cycle after any other command too (MulAcc.scala:104-109).         *)
THEOREM ReadsExactly == Spec => []ReadsModel
<1>1. Exact => ReadsModel
  <2> SUFFICES ASSUME Exact, OutValid PROVE OutPayload = WordAt(model, index)
    BY DEF ReadsModel
  <2>1. /\ valid /\ op = "read" /\ index \in Index /\ acc \in [Index -> Word]
        /\ Value(acc) = model /\ ValueNext = index
    BY DEF OutValid, Exact, Progress, DataTypes, FirstClears, Settled, ValueNext
  <2> QED
    BY <2>1, WordOfValue DEF OutPayload
<1> QED
  BY <1>1, ExactInit, ExactStep, PTL DEF Spec

-----------------------------------------------------------------------------
(***************************************************************************)
(* What the pipeline reads from the accumulator is what the program means, *)
(* for every depth of the queue, every program in which an acc does not    *)
(* follow its mul at once, and every timing of the accumulator.            *)
(***************************************************************************)

Number == Seq(Nat)
Stages == [isValid : BOOLEAN, op : PluginOps, mul : Nat]
Commands == [op : {"reset", "acc", "read"}, data : Nat]

(* What a command leaves of the accumulator.                               *)
After(o, d, s) ==
  CASE o = "reset" -> <<>>
    [] o = "acc"   -> Append(s, d)
    [] OTHER       -> s

(* The commands q take the accumulator from s to e: there is a value       *)
(* between any two of them.                                                *)
Chain(v, q, s) ==
  /\ v \in [0..Len(q) -> Number]
  /\ v[0] = s
  /\ \A i \in 1..Len(q) : v[i] = After(q[i].op, q[i].data, v[i - 1])
Ends(q, s, e) == \E v : Chain(v, q, s) /\ v[Len(q)] = e

-----------------------------------------------------------------------------
(* The inductive invariant.                                                *)

PluginTypes ==
  /\ decode \in PluginOps /\ execute \in Stages /\ memory \in Stages
  /\ lastMulResult \in Nat /\ issued \in Nat /\ product \in Nat
  /\ fifo \in Seq(Commands) /\ Len(fifo) <= FifoDepth
  /\ total \in Number /\ sum \in Number
  /\ results \in Seq(Number) /\ expected \in Seq(Number)

(* The register holds the product that the program means, when an acc is   *)
(* in the execute stage, or it will when the next one gets there.          *)
ProductInv ==
  /\ execute.isValid /\ execute.op = "mul" => execute.mul = product
  /\ ~execute.isValid /\ execute.op = "mul" => decode = "mul"
  /\ execute.isValid /\ execute.op = "acc" => memory.op # "mul" /\ lastMulResult = product
  /\ ~(execute.isValid /\ execute.op = "mul") /\ decode # "mul" => ProductNext = product

(* The command of a read that waits in the memory stage is the last one of *)
(* the queue, and there is no other.                                       *)
MemoryReads == memory.isValid /\ memory.op = "read"
ReadInv ==
  /\ MemoryReads => fifo # <<>>
  /\ \A i \in 1..Len(fifo) : fifo[i].op = "read" <=> MemoryReads /\ i = Len(fifo)

(* The program's accumulator is that of the commands in the queue and in   *)
(* the execute stage; the reads in the two stages have yet to return.      *)
ExecuteReads == execute.isValid /\ execute.op = "read"
Executed(e) == IF execute.isValid THEN After(execute.op, product, e) ELSE e
Pending(e) ==
  (IF MemoryReads THEN <<e>> ELSE <<>>) \o (IF ExecuteReads THEN <<sum>> ELSE <<>>)
SumInv ==
  \E e \in Number : /\ Ends(fifo, total, e)
                    /\ sum = Executed(e)
                    /\ expected = results \o Pending(e)

PluginInv == PluginTypes /\ ProductInv /\ ReadInv /\ SumInv

-----------------------------------------------------------------------------
(* Chains of commands.                                                     *)

LEMMA AfterType ==
  ASSUME NEW o, NEW d \in Nat, NEW s \in Number
  PROVE  After(o, d, s) \in Number
BY DEF After, Number

LEMMA EndsEmpty ==
  ASSUME NEW s \in Number
  PROVE  Ends(<<>>, s, s)
<1> DEFINE v == [i \in 0..0 |-> s]
<1>1. Chain(v, <<>>, s) /\ v[Len(<<>>)] = s
  BY DEF Chain
<1> QED
  BY <1>1 DEF Ends

LEMMA EndsType ==
  ASSUME NEW q \in Seq(Commands), NEW s, NEW e, Ends(q, s, e)
  PROVE  e \in Number
<1>1. PICK v : Chain(v, q, s) /\ v[Len(q)] = e
  BY DEF Ends
<1>2. Len(q) \in 0..Len(q)
  OBVIOUS
<1> QED
  BY <1>1, <1>2 DEF Chain

LEMMA EndsPush ==
  ASSUME NEW q \in Seq(Commands), NEW c \in Commands, NEW s, NEW e, Ends(q, s, e)
  PROVE  Ends(Append(q, c), s, After(c.op, c.data, e))
<1>1. PICK v : Chain(v, q, s) /\ v[Len(q)] = e
  BY DEF Ends
<1> DEFINE n == Len(q)
           r == Append(q, c)
           last == After(c.op, c.data, e)
           w == [i \in 0..n + 1 |-> IF i = n + 1 THEN last ELSE v[i]]
<1>2. n \in Nat /\ Len(r) = n + 1 /\ r[n + 1] = c /\ \A i \in 1..n : r[i] = q[i]
  OBVIOUS
<1>3. e \in Number /\ last \in Number
  BY EndsType, AfterType DEF Commands
<1> HIDE DEF n, r, last
<1>4. v \in [0..n -> Number] /\ v[0] = s /\ v[n] = e
  BY <1>1 DEF Chain, n
<1>5. w \in [0..n + 1 -> Number] /\ w[0] = s /\ w[n + 1] = last
  BY <1>2, <1>3, <1>4
<1>6. ASSUME NEW i \in 1..n + 1
      PROVE  w[i] = After(r[i].op, r[i].data, w[i - 1])
  <2>1. CASE i = n + 1
    <3>1. w[i] = last /\ w[i - 1] = e /\ r[i] = c
      BY <1>2, <1>4, <2>1
    <3> QED
      BY <3>1 DEF last
  <2>2. CASE i # n + 1
    <3>1. i \in 1..n /\ w[i] = v[i] /\ w[i - 1] = v[i - 1] /\ r[i] = q[i]
      BY <1>2, <2>2
    <3> QED
      BY <1>1, <3>1 DEF Chain, n
  <2> QED
    BY <2>1, <2>2
<1> HIDE DEF w
<1>7. Chain(w, r, s)
  BY <1>2, <1>5, <1>6 DEF Chain
<1>8. w[Len(r)] = last
  BY <1>2, <1>5
<1> QED
  BY <1>7, <1>8 DEF Ends, r, last

LEMMA EndsPop ==
  ASSUME NEW q \in Seq(Commands), q # <<>>, NEW s, NEW e, Ends(q, s, e)
  PROVE  Ends(Tail(q), After(Head(q).op, Head(q).data, s), e)
<1>1. PICK v : Chain(v, q, s) /\ v[Len(q)] = e
  BY DEF Ends
<1> DEFINE n == Len(q)
           r == Tail(q)
           w == [i \in 0..n - 1 |-> v[i + 1]]
<1>2. n \in Nat /\ n > 0 /\ Len(r) = n - 1 /\ Head(q) = q[1] /\ \A i \in 1..n - 1 : r[i] = q[i + 1]
  OBVIOUS
<1> HIDE DEF n, r
<1>3. v \in [0..n -> Number] /\ v[0] = s /\ v[n] = e /\ v[1] = After(q[1].op, q[1].data, v[0])
  BY <1>1, <1>2 DEF Chain, n
<1>4. w \in [0..n - 1 -> Number] /\ w[0] = v[1] /\ w[n - 1] = e
  BY <1>2, <1>3
<1>5. ASSUME NEW i \in 1..n - 1
      PROVE  w[i] = After(r[i].op, r[i].data, w[i - 1])
  <2>1. i + 1 \in 1..n /\ w[i] = v[i + 1] /\ w[i - 1] = v[(i + 1) - 1] /\ r[i] = q[i + 1]
    BY <1>2
  <2> QED
    BY <1>1, <2>1 DEF Chain, n
<1> HIDE DEF w
<1>6. Chain(w, r, v[1]) /\ w[Len(r)] = e
  BY <1>2, <1>4, <1>5 DEF Chain
<1> QED
  BY <1>2, <1>3, <1>6 DEF Ends, r

LEMMA EndsOne ==
  ASSUME NEW q \in Seq(Commands), Len(q) = 1, q[1].op = "read", NEW s, NEW e, Ends(q, s, e)
  PROVE  e = s
<1>1. PICK v : Chain(v, q, s) /\ v[Len(q)] = e
  BY DEF Ends
<1>2. v[1] = After(q[1].op, q[1].data, v[0]) /\ v[0] = s /\ v[1] = e
  BY <1>1 DEF Chain
<1> QED
  BY <1>2 DEF After
-----------------------------------------------------------------------------
(* The steps.                                                              *)

LEMMA InitInv == ASSUME PluginInit PROVE PluginInv
<1>1. /\ decode \in PluginOps /\ execute = Empty /\ memory = Empty
      /\ lastMulResult = 0 /\ fifo = <<>> /\ total = <<>> /\ results = <<>>
      /\ issued = 0 /\ product = 0 /\ sum = <<>> /\ expected = <<>>
  BY DEF PluginInit, Garbage
<1>2. Empty = [isValid |-> FALSE, op |-> "other", mul |-> 0] /\ Empty \in Stages
  BY DEF Empty, Stage, Garbage, Stages, PluginOps
<1>3. PluginTypes
  BY <1>1, <1>2, DepthAssumption DEF PluginTypes, Number
<1>4. ProductInv /\ ReadInv
  BY <1>1, <1>2 DEF ProductInv, ProductNext, ReadInv, MemoryReads
<1>5. SumInv
  <2>1. <<>> \in Number /\ Ends(<<>>, <<>>, <<>>)
    <3>1. <<>> \in Number
      BY DEF Number
    <3> QED
      BY <3>1, EndsEmpty
  <2>2. Pending(<<>>) = <<>> /\ Executed(<<>>) = <<>>
    BY <1>1, <1>2 DEF Pending, Executed, MemoryReads, ExecuteReads
  <2> QED
    BY <1>1, <2>1, <2>2 DEF SumInv
<1> QED
  BY <1>3, <1>4, <1>5 DEF PluginInv

(* How the stages move: both stay, the memory stage goes on alone, or both *)
(* go on.                                                                  *)
LEMMA PipelineCases ==
  ASSUME PluginInv, NEW done \in BOOLEAN, PluginClock(done)
  PROVE  /\ execute.isValid \in BOOLEAN /\ memory.isValid \in BOOLEAN
         /\ \/ /\ MemoryHalts /\ UNCHANGED <<memory, execute, decode, program>>
               /\ Pushed = <<>> /\ MemoryReads /\ ~MemoryFiring
            \/ /\ ~MemoryHalts /\ ExecuteHalts /\ UNCHANGED <<execute, decode, program>>
               /\ memory' = [execute EXCEPT !.isValid = FALSE]
               /\ execute.isValid /\ execute.op \in {"reset", "acc", "read"} /\ Pushed = <<>>
            \/ /\ ~MemoryHalts /\ memory' = execute /\ (Issue \/ Bubble)
               /\ Pushed = IF execute.isValid /\ IsMulAcc(execute.op)
                           THEN <<[op |-> execute.op, data |-> lastMulResult]>> ELSE <<>>
               /\ execute.isValid /\ IsMulAcc(execute.op) => Len(fifo) < FifoDepth
<1>1. PluginTypes /\ Pipeline /\ execute \in Stages /\ memory \in Stages
  BY DEF PluginInv, PluginTypes, PluginClock
<1>2. execute.isValid \in BOOLEAN /\ memory.isValid \in BOOLEAN
  BY <1>1 DEF Stages
<1>3. CASE MemoryHalts
  <2>1. MemoryReads /\ ~MemoryFiring /\ ExecuteStuck
    BY <1>3 DEF MemoryHalts, MemoryReads, MemoryFiring, ExecuteStuck
  <2>2. UNCHANGED memory /\ UNCHANGED <<decode, execute, program>>
    BY <1>1, <1>3, <2>1 DEF Pipeline
  <2>3. Pushed = <<>>
    BY <2>1 DEF Pushed, ExecuteFiring
  <2> QED
    BY <1>2, <1>3, <2>1, <2>2, <2>3
<1>4. CASE ~MemoryHalts /\ ExecuteHalts
  <2>1. ExecuteStuck /\ ExecuteFiring = FALSE
    BY <1>4 DEF ExecuteStuck, ExecuteFiring
  <2>2. memory' = [execute EXCEPT !.isValid = FALSE] /\ UNCHANGED <<decode, execute, program>>
    BY <1>1, <1>4, <2>1 DEF Pipeline
  <2>3. Pushed = <<>>
    BY <2>1 DEF Pushed
  <2>4. execute.isValid /\ execute.op \in {"reset", "acc", "read"}
    BY <1>4 DEF ExecuteHalts, IsMulAcc
  <2> QED
    BY <1>2, <1>4, <2>2, <2>3, <2>4
<1>5. CASE ~MemoryHalts /\ ~ExecuteHalts
  <2>1. ~ExecuteStuck /\ ExecuteFiring = execute.isValid
    BY <1>2, <1>5 DEF ExecuteStuck, ExecuteFiring
  <2>2. [execute EXCEPT !.isValid = execute.isValid] = execute
    BY <1>1 DEF Stages
  <2>3. execute.isValid /\ IsMulAcc(execute.op) => Len(fifo) < FifoDepth
    BY <1>1, <1>5, DepthAssumption DEF ExecuteHalts, PluginTypes
  <2>4. memory' = execute /\ (Issue \/ Bubble)
    BY <1>1, <1>5, <2>1, <2>2 DEF Pipeline
  <2>5. Pushed = IF execute.isValid /\ IsMulAcc(execute.op)
                 THEN <<[op |-> execute.op, data |-> lastMulResult]>> ELSE <<>>
    BY <2>1 DEF Pushed
  <2> QED
    BY <1>2, <1>5, <2>3, <2>4, <2>5
<1> QED
  BY <1>2, <1>3, <1>4, <1>5

(* The register and the products in the stages.                            *)
LEMMA ProductStep ==
  ASSUME PluginInv, Spaced = TRUE, NEW done \in BOOLEAN, PluginClock(done)
  PROVE  ProductInv'
<1>1. ProductInv /\ execute \in Stages /\ memory \in Stages /\ lastMulResult' = ProductNext
  BY DEF PluginInv, PluginTypes, PluginClock
<1>2. CASE MemoryHalts /\ UNCHANGED <<memory, execute, decode, program>> /\ MemoryReads
  <2>1. memory.op # "mul" /\ lastMulResult' = lastMulResult
    BY <1>1, <1>2 DEF MemoryReads, ProductNext
  <2> QED
    BY <1>1, <1>2, <2>1 DEF ProductInv, ProductNext, program
<1>3. CASE /\ UNCHANGED <<execute, decode, program>>
           /\ memory' = [execute EXCEPT !.isValid = FALSE]
           /\ execute.isValid /\ execute.op \in {"reset", "acc", "read"}
  <2>1. memory'.op = execute.op /\ product' = product
    BY <1>1, <1>3 DEF Stages, program
  <2>2. ProductNext' = ProductNext /\ memory'.op # "mul"
    BY <1>1, <1>3, <2>1 DEF ProductNext
  <2>3. execute.op = "acc" => ProductNext = product
    BY <1>1, <1>3 DEF ProductInv, ProductNext
  <2> QED
    BY <1>1, <1>3, <2>1, <2>2, <2>3 DEF ProductInv
<1>4. CASE memory' = execute /\ Issue
  <2>1. /\ ~(decode = "acc" /\ execute.isValid /\ execute.op = "mul")
        /\ execute' = [isValid |-> TRUE, op |-> decode,
                       mul |-> IF decode = "mul" THEN issued + 1 ELSE Garbage]
        /\ product' = IF decode = "mul" THEN issued + 1 ELSE product
    BY <1>4 DEF Issue, Stage
  <2>2. decode # "mul" =>
          product = IF execute.op = "mul" THEN execute.mul ELSE ProductNext
    BY <1>1 DEF ProductInv
  <2>3. decode # "mul" => ProductNext' = product'
    BY <1>1, <1>4, <2>1, <2>2 DEF ProductNext
  <2>4. decode = "acc" => execute.op # "mul"
    BY <1>1, <2>1 DEF ProductInv
  <2>5. decode = "acc" => lastMulResult' = product'
    BY <1>1, <2>1, <2>2, <2>4
  <2> QED
    BY <1>4, <2>1, <2>3, <2>4, <2>5 DEF ProductInv
<1>5. CASE memory' = execute /\ Bubble
  <2>1. /\ ~execute'.isValid /\ (execute'.op = "mul" => decode = "mul")
        /\ decode' = decode /\ product' = product
    BY <1>5 DEF Bubble, Empty, Stage, program
  <2>2. decode # "mul" =>
          product = IF execute.op = "mul" THEN execute.mul ELSE ProductNext
    BY <1>1 DEF ProductInv
  <2>3. decode # "mul" => ProductNext' = product'
    BY <1>1, <1>5, <2>1, <2>2 DEF ProductNext
  <2> QED
    BY <2>1, <2>3 DEF ProductInv
<1> QED
  BY <1>2, <1>3, <1>4, <1>5, PipelineCases

(* The queue: what is popped and what is pushed.                           *)
Rest(done) == IF Popped(done) THEN Tail(fifo) ELSE fifo
NoReads(q) == \A i \in 1..Len(q) : q[i].op # "read"

(* A read that the memory stage takes is alone in the queue, and its value *)
(* is that of the accumulator.                                             *)
LEMMA ReadAlone ==
  ASSUME PluginInv, NEW done \in BOOLEAN, ~MemoryHalts
  PROVE  /\ NoReads(Rest(done))
         /\ \A e : MemoryReads /\ Ends(fifo, total, e) => total = e
<1>1. ReadInv /\ fifo \in Seq(Commands)
  BY DEF PluginInv, PluginTypes
<1>2. CASE MemoryReads
  <2>1. fifo # <<>> /\ Head(fifo).op = "read" /\ MemoryFiring
    BY <1>2 DEF MemoryReads, MemoryHalts, MemoryFiring
  <2>2. Head(fifo) = fifo[1] /\ 1 \in 1..Len(fifo)
    BY <1>1, <2>1
  <2>3. Len(fifo) = 1
    BY <1>1, <2>1, <2>2 DEF ReadInv
  <2>4. Popped(done)
    BY <1>2, <2>1 DEF Popped, MemoryReads
  <2>5. Rest(done) = Tail(fifo) /\ Len(Tail(fifo)) = 0
    BY <1>1, <2>1, <2>3, <2>4 DEF Rest
  <2> QED
    BY <1>1, <2>1, <2>2, <2>3, <2>5, EndsOne DEF NoReads
<1>3. CASE ~MemoryReads
  <2>1. \A i \in 1..Len(fifo) : fifo[i].op # "read"
    BY <1>1, <1>3 DEF ReadInv
  <2>2. CASE Popped(done)
    <3>1. fifo # <<>> /\ Rest(done) = Tail(fifo)
      BY <2>2 DEF Popped, Rest
    <3>2. Len(Tail(fifo)) = Len(fifo) - 1 /\ \A i \in 1..Len(fifo) - 1 : Tail(fifo)[i] = fifo[i + 1]
      BY <1>1, <3>1
    <3> QED
      BY <1>1, <1>3, <2>1, <3>1, <3>2 DEF NoReads
  <2>3. CASE ~Popped(done)
    BY <1>3, <2>1, <2>3 DEF Rest, NoReads
  <2> QED
    BY <2>2, <2>3
<1> QED
  BY <1>2, <1>3

LEMMA QueueStep ==
  ASSUME PluginInv, NEW done \in BOOLEAN, PluginClock(done), NEW e \in Number, Ends(fifo, total, e)
  PROVE  /\ fifo' = Rest(done) \o Pushed /\ Rest(done) \in Seq(Commands)
         /\ Len(Rest(done)) <= Len(fifo) /\ total' \in Number
         /\ Pushed = <<>> => fifo' = Rest(done) /\ Ends(fifo', total', e)
         /\ \A c \in Commands : Pushed = <<c>> =>
              fifo' = Append(Rest(done), c) /\ Ends(fifo', total', After(c.op, c.data, e))
<1>1. fifo \in Seq(Commands) /\ total \in Number
  BY DEF PluginInv, PluginTypes
<1>2. Rest(done) \in Seq(Commands) /\ Len(Rest(done)) <= Len(fifo)
  BY <1>1 DEF Popped, Rest
<1>3. fifo' = Rest(done) \o Pushed
  BY DEF PluginClock, Accumulate, Rest
<1>4. Ends(Rest(done), total', e) /\ total' \in Number
  <2>1. CASE Popped(done)
    <3>1. fifo # <<>> /\ Rest(done) = Tail(fifo) /\ Head(fifo) \in Commands
      BY <1>1, <2>1 DEF Popped, Rest
    <3>2. total' = After(Head(fifo).op, Head(fifo).data, total)
      BY <2>1 DEF PluginClock, Accumulate, After
    <3> QED
      BY <1>1, <3>1, <3>2, EndsPop, AfterType DEF Commands
  <2>2. CASE ~Popped(done)
    <3>1. Rest(done) = fifo /\ total' = total
      BY <2>2 DEF PluginClock, Accumulate, Rest
    <3> QED
      BY <1>1, <3>1
  <2> QED
    BY <2>1, <2>2
<1>5. Pushed = <<>> => fifo' = Rest(done)
  BY <1>2, <1>3
<1>6. ASSUME NEW c \in Commands, Pushed = <<c>>
      PROVE  fifo' = Append(Rest(done), c) /\ Ends(fifo', total', After(c.op, c.data, e))
  <2>1. fifo' = Append(Rest(done), c)
    BY <1>2, <1>3, <1>6
  <2> QED
    BY <1>2, <1>4, <2>1, EndsPush
<1> QED
  BY <1>2, <1>3, <1>4, <1>5, <1>6

(* What is pushed, when both stages go on: a command, or nothing.          *)
LEMMA PushedCases ==
  ASSUME PluginInv,
         Pushed = IF execute.isValid /\ IsMulAcc(execute.op)
                  THEN <<[op |-> execute.op, data |-> lastMulResult]>> ELSE <<>>
  PROVE  \/ Pushed = <<>> /\ ~(execute.isValid /\ IsMulAcc(execute.op))
         \/ /\ execute.isValid /\ IsMulAcc(execute.op)
            /\ \E c \in Commands : /\ Pushed = <<c>> /\ c.op = execute.op
                                   /\ c.data = lastMulResult
<1>1. lastMulResult \in Nat
  BY DEF PluginInv, PluginTypes
<1> DEFINE c == [op |-> execute.op, data |-> lastMulResult]
<1>2. CASE execute.isValid /\ IsMulAcc(execute.op)
  <2>1. c \in Commands
    BY <1>1, <1>2 DEF IsMulAcc, Commands
  <2> QED
    BY <1>2, <2>1
<1>3. CASE ~(execute.isValid /\ IsMulAcc(execute.op))
  BY <1>3
<1> QED
  BY <1>2, <1>3

LEMMA TypesStep ==
  ASSUME PluginInv, NEW done \in BOOLEAN, PluginClock(done)
  PROVE  PluginTypes'
<1>1. /\ PluginTypes /\ decode \in PluginOps /\ execute \in Stages /\ memory \in Stages
      /\ lastMulResult \in Nat /\ issued \in Nat /\ product \in Nat
      /\ fifo \in Seq(Commands) /\ Len(fifo) <= FifoDepth /\ FifoDepth \in Nat
      /\ total \in Number /\ sum \in Number
      /\ results \in Seq(Number) /\ expected \in Seq(Number)
  BY DepthAssumption DEF PluginInv, PluginTypes
<1>2. lastMulResult' \in Nat
  BY <1>1 DEF PluginClock, ProductNext, Stages
<1>3. results' \in Seq(Number)
  BY <1>1 DEF PluginClock
<1>4. PICK e \in Number : Ends(fifo, total, e)
  BY DEF PluginInv, SumInv
<1>5. fifo' \in Seq(Commands) /\ Len(fifo') <= FifoDepth /\ total' \in Number
  <2>1. Rest(done) \in Seq(Commands) /\ Len(Rest(done)) <= Len(fifo) /\ total' \in Number
    BY <1>4, QueueStep
  <2>2. CASE Pushed = <<>>
    BY <1>1, <1>4, <2>1, <2>2, QueueStep
  <2>3. CASE Pushed # <<>>
    <3>1. Len(fifo) < FifoDepth /\ \E c \in Commands : Pushed = <<c>>
      BY <2>3, PipelineCases, PushedCases
    <3>2. PICK c \in Commands : Pushed = <<c>>
      BY <3>1
    <3>3. fifo' = Append(Rest(done), c)
      BY <1>4, <3>2, QueueStep
    <3> QED
      BY <1>1, <2>1, <3>1, <3>3
  <2> QED
    BY <2>2, <2>3
<1>6. /\ decode' \in PluginOps /\ execute' \in Stages /\ memory' \in Stages
      /\ issued' \in Nat /\ product' \in Nat /\ sum' \in Number /\ expected' \in Seq(Number)
  <2>1. memory' \in Stages
    BY <1>1, PipelineCases DEF Stages
  <2>2. CASE UNCHANGED <<execute, decode, program>>
    BY <1>1, <2>1, <2>2 DEF program
  <2>3. CASE Issue
    <3>1. issued + 1 \in Nat /\ Garbage \in Nat
      BY <1>1 DEF Garbage
    <3>2. decode' \in PluginOps /\ issued' \in Nat /\ product' \in Nat
      BY <1>1, <2>3, <3>1 DEF Issue
    <3>3. execute' \in Stages
      BY <1>1, <2>3, <3>1 DEF Issue, Stage, Stages
    <3>4. sum' \in Number
      BY <1>1, <2>3 DEF Issue, Number
    <3>5. expected' \in Seq(Number)
      BY <1>1, <2>3 DEF Issue
    <3> QED
      BY <2>1, <3>2, <3>3, <3>4, <3>5
  <2>4. CASE Bubble
    <3>1. Empty \in Stages /\ Stage(FALSE, decode, Garbage) \in Stages
      BY <1>1 DEF Empty, Stage, Garbage, Stages, PluginOps
    <3>2. execute' \in Stages
      BY <2>4, <3>1 DEF Bubble
    <3> QED
      BY <1>1, <2>1, <2>4, <3>2 DEF Bubble, program
  <2> QED
    BY <2>2, <2>3, <2>4, PipelineCases
<1> QED
  BY <1>2, <1>3, <1>5, <1>6 DEF PluginTypes

(* The reads in the queue.                                                 *)
LEMMA MemoryReadStep ==
  ASSUME PluginInv, NEW done \in BOOLEAN, PluginClock(done)
  PROVE  ReadInv'
<1>1. ReadInv /\ fifo \in Seq(Commands)
  BY DEF PluginInv, PluginTypes
<1>2. PICK e \in Number : Ends(fifo, total, e)
  BY DEF PluginInv, SumInv
<1>3. CASE MemoryHalts /\ memory' = memory /\ Pushed = <<>> /\ MemoryReads /\ ~MemoryFiring
  <2>1. fifo' = Rest(done) /\ MemoryReads' /\ fifo # <<>>
    BY <1>1, <1>2, <1>3, QueueStep DEF ReadInv, MemoryReads
  <2>2. CASE Popped(done)
    <3>1. fifo' = Tail(fifo) /\ Head(fifo).op # "read" /\ Head(fifo) = fifo[1]
      BY <1>1, <1>3, <2>1, <2>2 DEF Rest, Popped
    <3>2. Len(fifo) > 1
      BY <1>1, <1>3, <2>1, <3>1 DEF ReadInv
    <3>3. /\ Len(fifo') = Len(fifo) - 1
          /\ \A i \in 1..Len(fifo) - 1 : fifo'[i] = fifo[i + 1]
      BY <1>1, <2>1, <3>1
    <3>4. ASSUME NEW i \in 1..Len(fifo) - 1
          PROVE  fifo'[i].op = "read" <=> i = Len(fifo) - 1
      <4>1. fifo[i + 1].op = "read" <=> i + 1 = Len(fifo)
        BY <1>1, <1>3 DEF ReadInv
      <4> QED
        BY <1>1, <3>3, <4>1
    <3> QED
      BY <1>1, <2>1, <3>2, <3>3, <3>4 DEF ReadInv
  <2>3. CASE ~Popped(done)
    <3>1. fifo' = fifo
      BY <2>1, <2>3 DEF Rest
    <3> QED
      BY <1>1, <1>3, <2>1, <3>1 DEF ReadInv
  <2> QED
    BY <2>2, <2>3
<1>4. CASE ~MemoryHalts
  <2>1. NoReads(Rest(done)) /\ Rest(done) \in Seq(Commands)
    BY <1>2, <1>4, ReadAlone, QueueStep
  <2>2. CASE Pushed = <<>> /\ ~MemoryReads'
    <3>1. NoReads(fifo')
      BY <1>2, <2>1, <2>2, QueueStep
    <3> QED
      BY <2>2, <3>1 DEF ReadInv, NoReads
  <2>3. CASE \E c \in Commands : Pushed = <<c>> /\ (c.op = "read" <=> MemoryReads')
    <3>1. PICK c \in Commands : Pushed = <<c>> /\ (c.op = "read" <=> MemoryReads')
      BY <2>3
    <3>2. fifo' = Append(Rest(done), c)
      BY <1>2, <3>1, QueueStep
    <3> DEFINE n == Len(Rest(done))
    <3>3. /\ n \in Nat /\ Len(fifo') = n + 1 /\ fifo'[n + 1] = c /\ fifo' # <<>>
          /\ \A i \in 1..n : fifo'[i] = Rest(done)[i]
      BY <2>1, <3>2
    <3>4. \A i \in 1..n : fifo'[i].op # "read"
      BY <2>1, <3>3 DEF NoReads
    <3> HIDE DEF n
    <3>5. \A i \in 1..n + 1 : fifo'[i].op = "read" <=> MemoryReads' /\ i = n + 1
      BY <3>1, <3>3, <3>4
    <3> QED
      BY <3>3, <3>5 DEF ReadInv
  <2>4. CASE ExecuteHalts /\ memory' = [execute EXCEPT !.isValid = FALSE] /\ Pushed = <<>>
    <3>1. ~MemoryReads'
      BY <2>4 DEF MemoryReads, PluginInv, PluginTypes, Stages
    <3> QED
      BY <2>2, <2>4, <3>1
  <2>5. CASE /\ memory' = execute
             /\ Pushed = IF execute.isValid /\ IsMulAcc(execute.op)
                         THEN <<[op |-> execute.op, data |-> lastMulResult]>> ELSE <<>>
    <3>1. MemoryReads' <=> execute.isValid /\ execute.op = "read"
      BY <2>5 DEF MemoryReads
    <3> QED
      BY <2>2, <2>3, <2>5, <3>1, PushedCases DEF IsMulAcc
  <2> QED
    BY <1>4, <2>4, <2>5, PipelineCases
<1> QED
  BY <1>3, <1>4, PipelineCases

(* The values.                                                             *)
LEMMA SumStep ==
  ASSUME PluginInv, NEW done \in BOOLEAN, PluginClock(done)
  PROVE  SumInv'
<1>1. /\ PluginTypes /\ ProductInv /\ sum \in Number
      /\ results \in Seq(Number) /\ expected \in Seq(Number)
  BY DEF PluginInv, PluginTypes
<1>2. PICK e \in Number : /\ Ends(fifo, total, e) /\ sum = Executed(e)
                          /\ expected = results \o Pending(e)
  BY DEF PluginInv, SumInv
<1> DEFINE waiting == IF ExecuteReads THEN <<sum>> ELSE <<>>
<1>3. waiting \in Seq(Number) /\ e \in Number
  BY <1>1, <1>2
<1>4. CASE /\ MemoryHalts /\ UNCHANGED <<memory, execute, decode, program>>
           /\ Pushed = <<>> /\ ~MemoryFiring
  <2>1. results' = results /\ Ends(fifo', total', e)
    BY <1>2, <1>4, QueueStep DEF PluginClock
  <2>2. UNCHANGED <<sum, product, expected, memory, execute>>
    BY <1>4 DEF program
  <2>3. Executed(e)' = Executed(e) /\ Pending(e)' = Pending(e)
    BY <2>2 DEF Executed, Pending, MemoryReads, ExecuteReads
  <2> QED
    BY <1>2, <2>1, <2>2, <2>3 DEF SumInv
<1>5. ~MemoryHalts => expected = results' \o waiting
  <2> SUFFICES ASSUME ~MemoryHalts PROVE expected = results' \o waiting
    OBVIOUS
  <2>1. CASE MemoryReads
    <3>1. total = e /\ results' = Append(results, e)
      BY <1>2, <2>1, ReadAlone DEF PluginClock, MemoryReads, MemoryFiring
    <3>2. expected = results \o (<<e>> \o waiting)
      BY <1>2, <2>1 DEF Pending
    <3> HIDE DEF waiting
    <3> QED
      BY <1>1, <1>3, <3>1, <3>2
  <2>2. CASE ~MemoryReads
    <3>1. results' = results
      BY <2>2 DEF PluginClock, MemoryReads, MemoryFiring
    <3>2. expected = results \o (<<>> \o waiting)
      BY <1>2, <2>2 DEF Pending
    <3> HIDE DEF waiting
    <3> QED
      BY <1>1, <1>3, <3>1, <3>2
  <2> QED
    BY <2>1, <2>2
<1>6. CASE /\ ~MemoryHalts /\ UNCHANGED <<execute, decode, program>>
           /\ memory' = [execute EXCEPT !.isValid = FALSE] /\ Pushed = <<>>
  <2>1. UNCHANGED <<sum, product, expected, execute>> /\ ~MemoryReads'
    BY <1>1, <1>6 DEF program, MemoryReads, PluginTypes, Stages
  <2>2. Ends(fifo', total', e)
    BY <1>2, <1>6, QueueStep
  <2>3. Executed(e)' = Executed(e)
    BY <2>1 DEF Executed
  <2>4. Pending(e)' = waiting
    BY <2>1, <1>3 DEF Pending, ExecuteReads
  <2> QED
    BY <1>2, <1>5, <1>6, <2>1, <2>2, <2>3, <2>4 DEF SumInv
<1>7. CASE /\ ~MemoryHalts /\ memory' = execute /\ (Issue \/ Bubble)
           /\ Pushed = IF execute.isValid /\ IsMulAcc(execute.op)
                       THEN <<[op |-> execute.op, data |-> lastMulResult]>> ELSE <<>>
  <2>0. PICK n \in Number : n = sum
    BY <1>1
  <2>1. Ends(fifo', total', n)
    <3>1. CASE Pushed = <<>> /\ ~(execute.isValid /\ IsMulAcc(execute.op))
      <4>1. sum = e
        BY <1>2, <3>1 DEF Executed, After, IsMulAcc
      <4> QED
        BY <1>2, <2>0, <3>1, <4>1, QueueStep
    <3>2. CASE /\ execute.isValid /\ IsMulAcc(execute.op)
               /\ \E c \in Commands : /\ Pushed = <<c>> /\ c.op = execute.op
                                      /\ c.data = lastMulResult
      <4>1. PICK c \in Commands : /\ Pushed = <<c>> /\ c.op = execute.op
                                  /\ c.data = lastMulResult
        BY <3>2
      <4>2. sum = After(c.op, c.data, e)
        BY <1>1, <1>2, <3>2, <4>1 DEF Executed, After, ProductInv
      <4> QED
        BY <1>2, <2>0, <4>1, <4>2, QueueStep
    <3> QED
      BY <1>7, <3>1, <3>2, PushedCases
  <2>2. expected = results' \o (IF MemoryReads' THEN <<sum>> ELSE <<>>)
    BY <1>5, <1>7 DEF MemoryReads, ExecuteReads
  <2>4. results' \in Seq(Number)
    BY <1>1, TypesStep DEF PluginTypes
  <2>3. CASE Issue
    <3>1. execute'.isValid /\ execute'.op = decode /\ (decode = "acc" => product' = product)
      BY <2>3 DEF Issue, Stage
    <3>2. sum' = After(execute'.op, product', sum)
      BY <2>3, <3>1 DEF Issue, After
    <3>3. sum' = Executed(n)'
      BY <2>0, <3>1, <3>2 DEF Executed
    <3>4. expected' = IF ExecuteReads' THEN Append(expected, sum) ELSE expected
      BY <2>3, <3>1 DEF Issue, ExecuteReads
    <3>5. ExecuteReads' => sum' = sum
      BY <3>1, <3>2 DEF ExecuteReads, After
    <3> DEFINE a == IF MemoryReads' THEN <<sum>> ELSE <<>>
               b == IF ExecuteReads' THEN <<sum'>> ELSE <<>>
    <3>6. Pending(n)' = a \o b
      BY <2>0 DEF Pending
    <3>7. expected' = expected \o b
      BY <1>1, <3>4, <3>5
    <3>8. a \in Seq(Number) /\ b \in Seq(Number)
      BY <1>1, <3>5
    <3> HIDE DEF a, b
    <3>9. expected' = results' \o (a \o b)
      <4>1. expected = results' \o a
        BY <2>2 DEF a
      <4> HIDE DEF a
      <4> QED
        BY <2>4, <3>7, <3>8, <4>1
    <3> QED
      BY <2>0, <2>1, <3>3, <3>6, <3>9 DEF SumInv
  <2>5. CASE Bubble
    <3>1. ~execute'.isValid /\ sum' = sum /\ expected' = expected
      BY <2>5 DEF Bubble, Empty, Stage, program
    <3>2. sum' = Executed(n)'
      BY <2>0, <3>1 DEF Executed
    <3>3. ~ExecuteReads'
      BY <3>1 DEF ExecuteReads
    <3>4. Pending(n)' = IF MemoryReads' THEN <<sum>> ELSE <<>>
      BY <2>0, <3>3 DEF Pending
    <3> QED
      BY <2>0, <2>1, <2>2, <3>1, <3>2, <3>4 DEF SumInv
  <2> QED
    BY <1>7, <2>3, <2>5
<1> QED
  BY <1>4, <1>6, <1>7, PipelineCases

LEMMA StutterInv == ASSUME PluginInv, UNCHANGED pluginVars PROVE PluginInv'
BY DEF PluginInv, PluginTypes, ProductInv, ProductNext, ReadInv, MemoryReads, SumInv, Executed,
  Pending, ExecuteReads, pluginVars, stages, unit, program

LEMMA Inductive == ASSUME Spaced = TRUE PROVE PluginSpec => []PluginInv
<1>1. PluginInv /\ [PluginNext]_pluginVars => PluginInv'
  <2> SUFFICES ASSUME PluginInv, [PluginNext]_pluginVars PROVE PluginInv'
    OBVIOUS
  <2>1. ASSUME NEW done \in BOOLEAN, PluginClock(done) PROVE PluginInv'
    BY <2>1, TypesStep, ProductStep, MemoryReadStep, SumStep DEF PluginInv
  <2> QED
    BY <2>1, StutterInv DEF PluginNext
<1> QED
  BY <1>1, InitInv, PTL DEF PluginSpec

(* What the reads return is what the program means.                        *)
LEMMA Prefix ==
  ASSUME NEW s \in Seq(Number), NEW t \in Seq(Number)
  PROVE  IsPrefix(s, s \o t)
BY DEF IsPrefix

(* Whatever the depth of the queue, the timing of the accumulator, the     *)
(* stalls and the bubbles: in a program that keeps an instruction between  *)
(* a mul and its acc, every read returns the sum that the program means,   *)
(* in program order, and the queue is never pushed when it is full.        *)
THEOREM ReadsCorrect ==
  ASSUME Spaced = TRUE
  PROVE  PluginSpec => []ReadsMatchProgram
<1>1. PluginInv => ReadsMatchProgram
  <2> SUFFICES ASSUME PluginInv PROVE ReadsMatchProgram
    OBVIOUS
  <2>1. Len(fifo) <= FifoDepth /\ results \in Seq(Number) /\ sum \in Number
    BY DEF PluginInv, PluginTypes
  <2>2. PICK e \in Number : expected = results \o Pending(e)
    BY DEF PluginInv, SumInv
  <2>3. Pending(e) \in Seq(Number)
    BY <2>1, <2>2 DEF Pending
  <2> QED
    BY <2>1, <2>2, <2>3, Prefix DEF ReadsMatchProgram
<1> QED
  BY <1>1, Inductive, PTL
=============================================================================
