------------------------------ MODULE CpuProofs ------------------------------
(***************************************************************************)
(* Proofs about Cpu, for words of any width and any memory: the flags of a *)
(* subtraction keep the order of its operands for as long as they last,    *)
(* carries join words to exact numbers of two words, and a return through  *)
(* the link of a call goes on behind the call.                             *)
(***************************************************************************)
EXTENDS Cpu, TLAPS

Op == {"add", "addc", "sub", "subc"}
Flags == [N : BOOLEAN, Z : BOOLEAN, C : BOOLEAN, V : BOOLEAN]

\* What the flags say after sub, cmp or neg.
Ordered(f, a, b) ==
  /\ f.C <=> a >= b
  /\ f.Z <=> a = b
  /\ (f.N <=> f.V) <=> Signed(a) >= Signed(b)

DataTyped == acc \in Word /\ flags \in Flags /\ last \in Last \cup {Unknown}

FlagsKeepOrder ==
  /\ last.op = "sub" => Ordered(flags, last.a, last.b)
  /\ last.op = "add" => (flags.C <=> last.a + last.b >= M)

CompareInv == DataTyped /\ FlagsKeepOrder

\* There are two words or more.
LEMMA ModulusPositive == M \in Nat \ {0} /\ M = 2 * Half /\ Half \in Nat \ {0}
BY CpuAssumption DEF M

\* The remainder of a difference of words is the difference, up to one turn.
LEMMA DifferenceOfWords ==
  ASSUME NEW a \in Word, NEW b \in Word
  PROVE  (a - b) % M = IF a >= b THEN a - b ELSE a - b + M
BY ModulusPositive, SMT DEF Word

\* Whatever is computed is cut to a word.
LEMMA ResultIsWord ==
  ASSUME NEW op \in Op, NEW a \in Word, NEW b \in Word
  PROVE  Exact(op, a, b) \in Int /\ Result(op, a, b) \in Word
<1>1. Carry \in Int
  BY DEF Carry
<1>2. a \in Int /\ b \in Int
  BY ModulusPositive DEF Word
<1>3. Exact(op, a, b) \in Int
  BY <1>1, <1>2, ModulusPositive DEF Exact, Addend, CarryIn, Op
<1> QED
  BY <1>3, ModulusPositive DEF Result, Word

LEMMA BasicFlagsTyped ==
  ASSUME NEW f \in Flags, NEW res \in Word
  PROVE  BasicFlags(f, res) \in Flags
BY ModulusPositive DEF BasicFlags, Flags, Negative, Word

LEMMA ArithmeticFlagsTyped ==
  ASSUME NEW op \in Op, NEW a \in Word, NEW b \in Word
  PROVE  ArithmeticFlags(op, a, b) \in Flags
<1>0. a \in Int /\ b \in Int /\ M \in Int /\ Exact(op, a, b) \in Int
  BY ModulusPositive, ResultIsWord DEF Word
<1>1. (a >= b) \in BOOLEAN /\ (Exact(op, a, b) >= M) \in BOOLEAN
  BY <1>0
<1>2. CarryOut(op, a, b) \in BOOLEAN
  BY <1>1, Zenon DEF CarryOut
<1>3. Overflow(op, a, b, Result(op, a, b)) \in BOOLEAN
  BY DEF Overflow, Negative
<1>4. Negative(Result(op, a, b)) \in BOOLEAN
  BY DEF Negative
<1> QED
  BY <1>2, <1>3, <1>4 DEF ArithmeticFlags, Flags

LEMMA SubtractionKeepsOrder ==
  ASSUME NEW a \in Word, NEW b \in Word
  PROVE  Ordered(ArithmeticFlags("sub", a, b), a, b)
<1> DEFINE res == Result("sub", a, b)
           f == ArithmeticFlags("sub", a, b)
<1>1. res = (a - b) % M
  BY ModulusPositive DEF Result, Exact, Addend, CarryIn, Word
<1>2. res = IF a >= b THEN a - b ELSE a - b + M
  BY <1>1, DifferenceOfWords
<1>3. /\ f.C <=> a >= b
      /\ f.V <=> Negative(a) # Negative(b) /\ Negative(res) = Negative(b)
      /\ f.N <=> Negative(res)
      /\ f.Z <=> res = 0
  BY DEF ArithmeticFlags, CarryOut, Overflow
<1> HIDE DEF res, f
<1>4. f.Z <=> a = b
  BY <1>2, <1>3, ModulusPositive DEF Word
<1>5. (Negative(res) <=> Negative(a) # Negative(b) /\ Negative(res) = Negative(b))
         <=> Signed(a) >= Signed(b)
  BY <1>2, ModulusPositive DEF Word, Negative, Signed
<1> QED
  BY <1>3, <1>4, <1>5 DEF Ordered, f

------------------------------------------------------------------------------
(* One lemma for each kind of instruction. *)

LEMMA ShiftedIsWord ==
  ASSUME NEW a \in Word, NEW s \in Shift,
         NEW kind \in {"sll", "srl", "sra", "ror", "rol"}
  PROVE  Shifted(kind, a, s) \in Word
<1>1. /\ s \in 0..Bits /\ Bits - s \in 0..Bits
      /\ 2^s \in Nat \ {0} /\ 2^(Bits - s) \in Nat \ {0}
  BY CpuAssumption DEF Shift
<1> DEFINE p == 2^s
           q == 2^(Bits - s)
<1>2. p \in Nat \ {0} /\ q \in Nat \ {0}
  BY <1>1
<1>3. a \in Nat /\ Signed(a) \in Int
  BY ModulusPositive DEF Word, Signed
<1> HIDE DEF p, q
<1>4. a * p \in Int /\ a * q \in Int
  BY <1>2, <1>3
<1>5. a \div p \in 0..a /\ a \div q \in 0..a
  BY <1>2, <1>3, SMTT(30)
<1>6. Signed(a) \div p \in Int
  BY <1>2, <1>3
<1>7. /\ (a * p) % M \in Word /\ a \div p \in Word
      /\ (Signed(a) \div p) % M \in Word
      /\ (a \div p + a * q) % M \in Word
      /\ (a * p + a \div q) % M \in Word
  BY <1>2, <1>3, <1>4, <1>5, <1>6, ModulusPositive DEF Word
<1> QED
  BY <1>7, Zenon DEF Shifted, p, q

LEMMA RecordedTyped ==
  ASSUME NEW op \in Op, NEW a \in Word, NEW b \in Word
  PROVE  /\ Recorded(op, a, b) \in Last \cup {Unknown}
         /\ Recorded(op, a, b).op \in {"add", "sub"} =>
               /\ Recorded(op, a, b).op = op
               /\ Recorded(op, a, b).a = a /\ Recorded(op, a, b).b = b
BY DEF Recorded, Last, Unknown

\* Anything that sets the flags from words, and says so.
LEMMA FlagsSet ==
  ASSUME NEW op \in Op, NEW a \in Word, NEW b \in Word,
         flags' = ArithmeticFlags(op, a, b), last' = Recorded(op, a, b)
  PROVE  flags' \in Flags /\ last' \in Last \cup {Unknown} /\ FlagsKeepOrder'
<1>1. flags' \in Flags /\ last' \in Last \cup {Unknown}
  BY ArithmeticFlagsTyped, RecordedTyped
<1>2. ASSUME last'.op = "sub"  PROVE  Ordered(flags', last'.a, last'.b)
  <2>1. op = "sub" /\ last'.a = a /\ last'.b = b
    BY <1>2, RecordedTyped
  <2> QED
    BY <2>1, SubtractionKeepsOrder
<1>3. ASSUME last'.op = "add"  PROVE  flags'.C <=> last'.a + last'.b >= M
  <2>1. op = "add" /\ last'.a = a /\ last'.b = b
    BY <1>3, RecordedTyped
  <2>2. flags'.C <=> Exact("add", a, b) >= M
    BY <2>1 DEF ArithmeticFlags, CarryOut
  <2> QED
    BY <2>1, <2>2, ModulusPositive DEF Exact, Addend, CarryIn, Word
<1> QED
  BY <1>1, <1>2, <1>3 DEF FlagsKeepOrder

LEMMA ArithmeticStep ==
  ASSUME CompareInv, NEW f, NEW op \in Op, NEW a \in Word, NEW b \in Word,
         NEW cu, Arithmetic(f, op, a, b, cu)
  PROVE  CompareInv'
<1>1. acc' \in Word
  BY ResultIsWord DEF Arithmetic
<1>2. CASE flags' = ArithmeticFlags(op, a, b) /\ last' = Recorded(op, a, b)
  BY <1>1, <1>2, FlagsSet DEF CompareInv, DataTyped
<1>3. CASE UNCHANGED <<flags, last>>
  BY <1>1, <1>3 DEF CompareInv, DataTyped, FlagsKeepOrder, Ordered
<1> QED
  BY <1>2, <1>3, Zenon DEF Arithmetic

LEMMA CompareStep ==
  ASSUME CompareInv, NEW f, NEW a \in Word, NEW b \in Word, Compare(f, a, b)
  PROVE  CompareInv'
<1>1. "sub" \in Op /\ acc' \in Word
  BY DEF Op, Compare, CompareInv, DataTyped
<1>2. flags' = ArithmeticFlags("sub", a, b) /\ last' = Recorded("sub", a, b)
  BY DEF Compare
<1> QED
  BY <1>1, <1>2, FlagsSet DEF CompareInv, DataTyped

\* Other instructions that set flags forget the comparison.
LEMMA ForgetfulStep ==
  ASSUME acc' \in Word, flags' \in Flags, last' = Unknown
  PROVE  CompareInv'
BY DEF CompareInv, DataTyped, FlagsKeepOrder, Unknown

\* All that do not set them keep it.
LEMMA QuietStep ==
  ASSUME CompareInv, acc' \in Word, UNCHANGED <<flags, last>>
  PROVE  CompareInv'
BY DEF CompareInv, DataTyped, FlagsKeepOrder, Ordered

LEMMA LogicStep ==
  ASSUME CompareInv, NEW f, NEW w \in Word, NEW cu, Logic(f, w, cu)
  PROVE  CompareInv'
<1>1. acc' \in Word
  BY DEF Logic
<1>2. CASE flags' = BasicFlags(flags, w) /\ last' = Unknown
  BY <1>1, <1>2, BasicFlagsTyped, ForgetfulStep DEF CompareInv, DataTyped
<1>3. CASE UNCHANGED <<flags, last>>
  BY <1>1, <1>3, QuietStep
<1> QED
  BY <1>2, <1>3, Zenon DEF Logic

LEMMA TestBitStep ==
  ASSUME CompareInv, NEW f, NEW k \in Shift, TestBit(f, k)
  PROVE  CompareInv'
<1>1. acc' \in Word /\ flags \in Flags /\ last' = Unknown
  BY DEF TestBit, CompareInv, DataTyped
<1> DEFINE res == IF Bit(acc, k) THEN 2^k ELSE 0
<1>2. flags' = BasicFlags(flags, res)
  BY DEF TestBit
<1>3. flags' \in Flags
  BY <1>1, <1>2 DEF BasicFlags, Flags, Negative
<1> QED
  BY <1>1, <1>3, ForgetfulStep

LEMMA ShiftStep ==
  ASSUME CompareInv, NEW f, NEW s \in Shift, NEW cu,
         NEW kind \in {"sll", "srl", "sra", "ror", "rol"},
         ShiftOrRotate(f, kind, s, cu)
  PROVE  CompareInv'
<1>1. acc' \in Word
  BY ShiftedIsWord DEF ShiftOrRotate, CompareInv, DataTyped
<1>2. PICK c \in ShiftCarries(kind, acc, s) :
        flags' = IF cu THEN [BasicFlags(flags, acc') EXCEPT !.C = c] ELSE flags
  BY DEF ShiftOrRotate
<1>3. c \in BOOLEAN
  BY <1>2, Zenon DEF ShiftCarries, Bit, CompareInv, DataTyped, Flags
<1>4. CASE cu
  <2>1. last' = Unknown /\ flags' = [BasicFlags(flags, acc') EXCEPT !.C = c]
    BY <1>2, <1>4 DEF ShiftOrRotate
  <2>2. flags' \in Flags
    BY <2>1, <1>1, <1>3, BasicFlagsTyped DEF Flags, CompareInv, DataTyped
  <2> QED
    BY <2>1, <2>2, <1>1, ForgetfulStep
<1>5. CASE ~cu
  BY <1>1, <1>2, <1>5, QuietStep DEF ShiftOrRotate
<1> QED
  BY <1>4, <1>5

LEMMA BranchStep ==
  ASSUME CompareInv, NEW f, NEW target, NEW lk, Take(f, target, lk)
  PROVE  CompareInv'
BY QuietStep DEF Take, CompareInv, DataTyped

\* The word of the comparison is typed and its flags keep the order of its words.
THEOREM ComparisonsLast == Spec => []CompareInv
<1>1. Init => CompareInv
  BY ModulusPositive DEF Init, CompareInv, DataTyped, FlagsKeepOrder, Flags, Word,
     Unknown
<1>2. CompareInv /\ [Next]_vars => CompareInv'
  <2> SUFFICES ASSUME CompareInv, [Next]_vars  PROVE CompareInv'
    OBVIOUS
  <2>0. acc \in Word /\ 0 \in Word
    BY ModulusPositive DEF CompareInv, DataTyped, Word
  <2>1. ASSUME NEW f \in Form, NEW op \in Op, NEW b \in Word, NEW cu \in BOOLEAN,
               Arithmetic(f, op, acc, b, cu)
        PROVE  CompareInv'
    BY <2>0, <2>1, ArithmeticStep
  <2>2. ASSUME NEW f \in Form, NEW cu \in BOOLEAN, Arithmetic(f, "sub", 0, acc, cu)
        PROVE  CompareInv'
    <3> "sub" \in Op
      BY DEF Op
    <3> QED
      BY <2>0, <2>2, ArithmeticStep
  <2>3. ASSUME NEW f \in Form, NEW b \in Word, Compare(f, acc, b)
        PROVE  CompareInv'
    BY <2>0, <2>3, CompareStep
  <2>4. ASSUME NEW f \in Form, NEW w \in Word, NEW cu \in BOOLEAN, Logic(f, w, cu)
        PROVE  CompareInv'
    BY <2>4, LogicStep
  <2>5. ASSUME NEW f \in Form, NEW k \in Shift, TestBit(f, k)
        PROVE  CompareInv'
    BY <2>5, TestBitStep
  <2>6. ASSUME NEW f \in Form, NEW s \in Shift, NEW cu \in BOOLEAN,
               NEW kind \in {"sll", "srl", "sra", "ror", "rol"},
               ShiftOrRotate(f, kind, s, cu)
        PROVE  CompareInv'
    BY <2>6, ShiftStep
  <2>7. ASSUME NEW f \in Form, NEW w \in Word, Load(f, w)
        PROVE  CompareInv'
    BY <2>7, QuietStep DEF Load
  <2>8. CASE RestoreFlags
    BY <2>0, <2>8, ForgetfulStep DEF RestoreFlags, Flags
  <2>9. ASSUME NEW f \in Form, NEW a \in Address, LoadLink(f, a)
        PROVE  CompareInv'
    BY <2>0, <2>9, QuietStep DEF LoadLink
  <2>10. ASSUME NEW f \in Form, NEW a \in Address, NEW lk \in BOOLEAN,
                BranchRegister(f, a, lk) \/ Jump(f, a, lk) \/ BranchRelative(f, a, lk)
         PROVE  CompareInv'
    BY <2>10, BranchStep DEF BranchRegister, Jump, BranchRelative
  <2>11. ASSUME NEW f \in Form, NEW lk \in BOOLEAN, BranchLink(f, lk)
         PROVE  CompareInv'
    BY <2>11, BranchStep DEF BranchLink
  <2>12. ASSUME NEW f \in Form, NotTaken(f)
         PROVE  CompareInv'
    BY <2>0, <2>12, QuietStep DEF NotTaken
  <2>13. CASE UNCHANGED vars
    BY <2>0, <2>13, QuietStep DEF vars
  <2> HIDE DEF CompareInv
  <2> QED
    BY <2>1, <2>2, <2>3, <2>4, <2>5, <2>6, <2>7, <2>8, <2>9, <2>10, <2>11, <2>12,
       <2>13, Zenon DEF Next, Op
<1> QED
  BY <1>1, <1>2, PTL DEF Spec

\* The conditions of a comparison are the order of the two words, for words of any
\* width.
THEOREM ConditionsAreTheOrder == Spec => []ConditionsCompare
<1>1. CompareInv => ConditionsCompare
  <2> SUFFICES ASSUME CompareInv, last.op = "sub"  PROVE ConditionsCompare
    BY DEF ConditionsCompare
  <2> DEFINE a == last.a
             b == last.b
  <2>1. last \in Last /\ Ordered(flags, a, b) /\ flags \in Flags
    BY DEF CompareInv, DataTyped, FlagsKeepOrder, Unknown
  <2>2. a \in Word /\ b \in Word
    BY <2>1 DEF Last
  <2>3. /\ a \in Int /\ b \in Int /\ Signed(a) \in Int /\ Signed(b) \in Int
        /\ (a = b) = (Signed(a) = Signed(b))
    BY <2>2, ModulusPositive DEF Word, Signed, Negative
  <2>4. /\ flags.C <=> a >= b
        /\ flags.Z <=> a = b
        /\ (flags.N <=> flags.V) <=> Signed(a) >= Signed(b)
    BY <2>1 DEF Ordered
  <2>5. (flags.N = flags.V) <=> (flags.N <=> flags.V)
    BY <2>1 DEF Flags
  <2> HIDE DEF a, b
  <2>6. /\ ~flags.C <=> a < b
        /\ flags.C /\ ~flags.Z <=> a > b
        /\ ~flags.C \/ flags.Z <=> a <= b
        /\ ~flags.Z <=> a # b
    BY <2>3, <2>4
  <2>7. /\ flags.N = flags.V /\ ~flags.Z <=> Signed(a) > Signed(b)
        /\ flags.N # flags.V \/ flags.Z <=> Signed(a) <= Signed(b)
        /\ flags.N = flags.V <=> Signed(a) >= Signed(b)
        /\ flags.N # flags.V <=> Signed(a) < Signed(b)
    BY <2>3, <2>4, <2>5
  <2>8. LET o == Outcomes(flags)
        IN  /\ o[0 + 1] = {flags.C} /\ o[1 + 1] = {~flags.C}
            /\ o[2 + 1] = {flags.C /\ ~flags.Z} /\ o[3 + 1] = {~flags.C \/ flags.Z}
            /\ o[4 + 1] = {flags.Z} /\ o[5 + 1] = {~flags.Z}
            /\ o[6 + 1] = {flags.N = flags.V /\ ~flags.Z}
            /\ o[7 + 1] = {flags.N # flags.V \/ flags.Z}
            /\ o[8 + 1] = {flags.N = flags.V} /\ o[9 + 1] = {flags.N # flags.V}
    BY DEF Outcomes
  <2> QED
    BY <2>4, <2>6, <2>7, <2>8, Zenon DEF ConditionsCompare, a, b
<1> QED
  BY <1>1, ComparisonsLast, PTL

------------------------------------------------------------------------------
(* Numbers of two words. *)

LEMMA SumOfWords ==
  ASSUME NEW a \in Word, NEW b \in Word, NEW c \in {0, 1}
  PROVE  (a + b + c) % M = IF a + b + c >= M THEN a + b + c - M ELSE a + b + c
BY ModulusPositive, SMT DEF Word

\* A number of two words is below the square of M, and its sign is the sign of
\* its high word.
LEMMA TwoWords ==
  ASSUME NEW high \in Word, NEW low \in Word
  PROVE  /\ WideOperand(high, low) \in 0..(M * M - 1)
         /\ WideOperand(high, low) >= M * Half <=> Negative(high)
<1>1. high \in 0..(M - 1) /\ low \in 0..(M - 1)
  BY DEF Word
<1>2. high * M \in Int /\ high * M >= 0 /\ high * M <= (M - 1) * M
  BY <1>1, ModulusPositive
<1>3. (M - 1) * M = M * M - M
  BY ModulusPositive
<1>4. CASE high >= Half
  <2>1. high * M >= M * Half
    BY <1>1, <1>4, ModulusPositive
  <2> QED
    BY <1>1, <1>2, <1>3, <1>4, <2>1, ModulusPositive DEF WideOperand, Negative
<1>5. CASE high <= Half - 1
  <2>1. high * M <= (Half - 1) * M
    BY <1>1, <1>5, ModulusPositive
  <2>2. (Half - 1) * M = M * Half - M
    BY ModulusPositive
  <2> QED
    BY <1>1, <1>2, <1>3, <1>5, <2>1, <2>2, ModulusPositive DEF WideOperand, Negative
<1> QED
  BY <1>1, <1>4, <1>5, ModulusPositive

\* The words of a sum.
LEMMA WideSum ==
  ASSUME NEW a \in Word, NEW b \in Word, NEW la \in Word, NEW lb \in Word,
         NEW c \in {0, 1}, c = 1 <=> la + lb >= M
  PROVE  LET x == WideOperand(a, la)
             y == WideOperand(b, lb)
             res == WideOperand((a + b + c) % M, (la + lb) % M)
         IN  /\ res = IF a + b + c >= M THEN x + y - M * M ELSE x + y
             /\ res = (x + y) % (M * M)
             /\ a + b + c >= M <=> x + y >= M * M
<1> DEFINE r == (a + b + c) % M
           l == (la + lb) % M
           x == WideOperand(a, la)
           y == WideOperand(b, lb)
           K == M * M
<1>1. a \in Int /\ b \in Int /\ la \in Int /\ lb \in Int /\ c \in Int /\ K \in Int
  BY ModulusPositive DEF Word
<1>2. r = IF a + b + c >= M THEN a + b + c - M ELSE a + b + c
  BY SumOfWords
<1>3. l = la + lb - c * M
  <2>1. (la + lb + 0) % M = IF la + lb + 0 >= M THEN la + lb + 0 - M ELSE la + lb + 0
    BY SumOfWords
  <2>2. l = IF la + lb >= M THEN la + lb - M ELSE la + lb
    BY <1>1, <2>1, ModulusPositive
  <2> QED
    BY <2>2, <1>1, ModulusPositive
<1>4. r \in Word /\ l \in Word
  BY <1>1, ModulusPositive DEF Word
<1> HIDE DEF r, l
<1>5. WideOperand(r, l) = r * M + l
  BY DEF WideOperand
<1>6. x + y = (a + b + c) * M + l
  <2>1. x + y = a * M + la + b * M + lb
    BY <1>1, ModulusPositive DEF WideOperand
  <2>2. (a + b + c) * M = a * M + b * M + c * M
    BY <1>1, ModulusPositive
  <2> QED
    BY <1>1, <1>3, <2>1, <2>2, ModulusPositive
<1>7. x \in Int /\ y \in Int
  BY <1>1, ModulusPositive DEF WideOperand
<1>8. WideOperand(r, l) \in 0..(K - 1)
  BY <1>4, TwoWords
<1> HIDE DEF x, y
<1>9. CASE a + b + c >= M
  <2>1. r = a + b + c - M
    BY <1>2, <1>9
  <2>2. (a + b + c) * M = r * M + K
    BY <1>1, <2>1, ModulusPositive
  <2>3. WideOperand(r, l) = x + y - K
    BY <1>1, <1>4, <1>5, <1>6, <1>7, <2>2, ModulusPositive DEF Word
  <2> HIDE DEF K
  <2>4. x + y >= K /\ (x + y) % K = x + y - K
    BY <1>1, <1>7, <1>8, <2>3
  <2> QED
    BY <1>9, <2>3, <2>4 DEF x, y, r, l, K
<1>10. CASE a + b + c < M
  <2>1. r = a + b + c
    BY <1>1, <1>2, <1>10, ModulusPositive
  <2>2. WideOperand(r, l) = x + y
    BY <1>5, <1>6, <2>1
  <2> HIDE DEF K
  <2>3. x + y < K /\ (x + y) % K = x + y
    BY <1>1, <1>7, <1>8, <2>2
  <2>4. ~(a + b + c >= M) /\ ~(x + y >= K)
    BY <1>1, <1>7, <1>10, <2>3, ModulusPositive
  <2> QED
    BY <2>2, <2>3, <2>4 DEF x, y, r, l, K
<1> QED
  BY <1>1, <1>9, <1>10, ModulusPositive

\* The carry and the overflow of the operations on high words.
LEMMA HighFlags ==
  ASSUME NEW op \in {"addc", "subc"}, NEW a \in Word, NEW b \in Word
  PROVE  /\ ArithmeticFlags(op, a, b).C <=> Exact(op, a, b) >= M
         /\ ArithmeticFlags(op, a, b).V <=>
               Negative(a) = Negative(b) /\ Negative(Result(op, a, b)) # Negative(a)
<1>1. /\ ArithmeticFlags(op, a, b).C = CarryOut(op, a, b)
      /\ ArithmeticFlags(op, a, b).V = Overflow(op, a, b, Result(op, a, b))
  BY DEF ArithmeticFlags
<1>2. CarryOut(op, a, b) = (Exact(op, a, b) >= M)
  BY Zenon DEF CarryOut
<1>3. Overflow(op, a, b, Result(op, a, b)) =
        (Negative(a) = Negative(b) /\ Negative(Result(op, a, b)) # Negative(a))
  BY Zenon DEF Overflow
<1> QED
  BY <1>1, <1>2, <1>3, Zenon

\* The words of a difference: subtracting is adding the complement.
LEMMA WideDifference ==
  ASSUME NEW a \in Word, NEW b \in Word, NEW la \in Word, NEW lb \in Word,
         NEW c \in {0, 1}, c = 1 <=> la >= lb
  PROVE  LET x == WideOperand(a, la)
             y == WideOperand(b, lb)
             res == WideOperand((a + (M - 1 - b) + c) % M, (la - lb) % M)
         IN  /\ res = (x - y) % (M * M)
             /\ a + (M - 1 - b) + c >= M <=> x >= y
<1> DEFINE s == a + (M - 1 - b) + c
           r == s % M
           l == (la - lb) % M
           x == WideOperand(a, la)
           y == WideOperand(b, lb)
           K == M * M
<1>1. a \in Int /\ b \in Int /\ la \in Int /\ lb \in Int /\ c \in Int /\ K \in Int
  BY ModulusPositive DEF Word
<1>2. r = IF s >= M THEN s - M ELSE s
  <2> DEFINE n == M - 1 - b
  <2>1. n \in Word
    BY <1>1, ModulusPositive DEF Word
  <2>2. s = a + n + c /\ r = (a + n + c) % M
    OBVIOUS
  <2> HIDE DEF n, s, r
  <2>3. (a + n + c) % M = IF a + n + c >= M THEN a + n + c - M ELSE a + n + c
    BY <2>1, SumOfWords
  <2>4. a + n + c - M = (a + n + c) - M
    BY <1>1, <2>1, ModulusPositive DEF Word
  <2> QED
    BY <2>2, <2>3, <2>4, Zenon
<1>3. l = la - lb + M - c * M
  <2>1. l = IF la >= lb THEN la - lb ELSE la - lb + M
    BY DifferenceOfWords
  <2> QED
    BY <2>1, <1>1, ModulusPositive
<1>4. r \in Word /\ l \in Word /\ s \in Int
  BY <1>1, ModulusPositive DEF Word
<1> HIDE DEF r, l
<1>5. WideOperand(r, l) = r * M + l
  BY DEF WideOperand
<1>6. x - y = (s - M) * M + l
  <2>1. x - y = a * M + la - b * M - lb
    BY <1>1, ModulusPositive DEF WideOperand
  <2>2. (s - M) * M = a * M - b * M - M + c * M
    BY <1>1, ModulusPositive
  <2> QED
    BY <1>1, <1>3, <2>1, <2>2, ModulusPositive
<1>7. x \in Int /\ y \in Int
  BY <1>1, ModulusPositive DEF WideOperand
<1>8. WideOperand(r, l) \in 0..(K - 1)
  BY <1>4, TwoWords
<1> HIDE DEF x, y, s
<1>9. CASE s >= M
  <2>1. r = s - M
    BY <1>2, <1>9
  <2>2. WideOperand(r, l) = x - y
    BY <1>5, <1>6, <2>1
  <2> HIDE DEF K
  <2>3. x >= y /\ (x - y) % K = x - y
    BY <1>1, <1>7, <1>8, <2>2
  <2> QED
    BY <1>9, <2>2, <2>3 DEF x, y, r, l, K, s
<1>10. CASE s < M
  <2>1. r = s
    BY <1>2, <1>4, <1>10, ModulusPositive
  <2>2. (s - M) * M = r * M - K
    BY <1>4, <2>1, ModulusPositive
  <2>3. WideOperand(r, l) = x - y + K
    BY <1>1, <1>4, <1>5, <1>6, <1>7, <2>2, ModulusPositive DEF Word
  <2> HIDE DEF K
  <2>4. x < y /\ (x - y) % K = x - y + K
    BY <1>1, <1>7, <1>8, <2>3
  <2>5. ~(s >= M) /\ ~(x >= y)
    BY <1>4, <1>7, <1>10, <2>4, ModulusPositive
  <2> QED
    BY <2>3, <2>4, <2>5 DEF x, y, r, l, K, s
<1> QED
  BY <1>4, <1>9, <1>10, ModulusPositive

\* What the signs of a sum and of its operands say of its overflow.
LEMMA WideOverflow ==
  ASSUME NEW a \in Word, NEW b \in Word, NEW la \in Word, NEW lb \in Word,
         NEW c \in {0, 1}, c = 1 <=> la + lb >= M
  PROVE  LET r == (a + b + c) % M
             x == WideOperand(a, la)
             y == WideOperand(b, lb)
             res == WideOperand(r, (la + lb) % M)
         IN  (Negative(a) = Negative(b) /\ Negative(r) # Negative(a))
                <=> Value(x) + Value(y) # Value(res)
<1> DEFINE r == (a + b + c) % M
           l == (la + lb) % M
           x == WideOperand(a, la)
           y == WideOperand(b, lb)
           res == WideOperand(r, l)
           K == M * M
<1>1. a \in Int /\ b \in Int /\ c \in Int /\ K \in Int /\ K > 0
  BY ModulusPositive DEF Word
<1>2. r = IF a + b + c >= M THEN a + b + c - M ELSE a + b + c
  BY SumOfWords
<1>3. r \in Word /\ l \in Word
  BY ModulusPositive DEF Word
<1>4. res = IF a + b + c >= M THEN x + y - K ELSE x + y
  BY WideSum
<1>5. /\ Value(x) = IF Negative(a) THEN x - K ELSE x
      /\ Value(y) = IF Negative(b) THEN y - K ELSE y
      /\ Value(res) = IF Negative(r) THEN res - K ELSE res
  <2> HIDE DEF r, l
  <2> QED
    BY <1>3, TwoWords DEF Value
<1>6. x \in Int /\ y \in Int
  BY <1>1, ModulusPositive DEF WideOperand, Word
<1> HIDE DEF x, y, res, K, r
<1>7. (Negative(a) = Negative(b) /\ Negative(r) # Negative(a))
         <=> Value(x) + Value(y) # Value(res)
  <2>1. a >= 0 /\ a < M /\ b >= 0 /\ b < M /\ M = 2 * Half /\ M \in Int /\ Half \in Int
    BY ModulusPositive DEF Word
  <2> QED
    BY <1>1, <1>2, <1>4, <1>5, <1>6, <2>1 DEF Negative
<1> QED
  BY <1>7 DEF x, y, res, r

\* add and addc, sub and subc, compute with numbers of two words, of any width.
THEOREM WideArithmeticIsExact == Spec => WideArithmetic
<1> DEFINE Exactly ==
      \A b \in IF last.op = "none" THEN {} ELSE Word :
        LET x == WideOperand(acc, last.a)
            y == WideOperand(b, last.b)
            res == WideOperand(acc', Exact(last.op, last.a, last.b) % M)
        IN  /\ last.op = "add" /\ Arithmetic("wide", "addc", acc, b, TRUE) =>
                 /\ res = (x + y) % (M * M)
                 /\ flags'.C <=> x + y >= M * M
                 /\ flags'.V <=> Value(x) + Value(y) # Value(res)
            /\ last.op = "sub" /\ Arithmetic("wide", "subc", acc, b, TRUE) =>
                 /\ res = (x - y) % (M * M)
                 /\ flags'.C <=> x >= y
<1>1. ASSUME CompareInv  PROVE Exactly
  <2> SUFFICES ASSUME last.op # "none", NEW b \in Word
               PROVE  LET x == WideOperand(acc, last.a)
                          y == WideOperand(b, last.b)
                          res == WideOperand(acc', Exact(last.op, last.a, last.b) % M)
                      IN  /\ last.op = "add" /\ Arithmetic("wide", "addc", acc, b, TRUE) =>
                               /\ res = (x + y) % (M * M)
                               /\ flags'.C <=> x + y >= M * M
                               /\ flags'.V <=> Value(x) + Value(y) # Value(res)
                          /\ last.op = "sub" /\ Arithmetic("wide", "subc", acc, b, TRUE) =>
                               /\ res = (x - y) % (M * M)
                               /\ flags'.C <=> x >= y
    OBVIOUS
  <2>1. acc \in Word /\ last.a \in Word /\ last.b \in Word /\ flags.C \in BOOLEAN
    BY <1>1 DEF CompareInv, DataTyped, Last, Unknown, Flags
  <2>2. Carry \in {0, 1} /\ (Carry = 1 <=> flags.C)
    BY <2>1 DEF Carry
  <2>3. acc \in Int /\ b \in Int /\ last.a \in Int /\ last.b \in Int /\ Carry \in Int
    BY <2>1, <2>2, ModulusPositive DEF Word
  <2>4. ASSUME last.op = "add", Arithmetic("wide", "addc", acc, b, TRUE)
        PROVE  LET x == WideOperand(acc, last.a)
                   y == WideOperand(b, last.b)
                   res == WideOperand(acc', Exact(last.op, last.a, last.b) % M)
               IN  /\ res = (x + y) % (M * M)
                   /\ flags'.C <=> x + y >= M * M
                   /\ flags'.V <=> Value(x) + Value(y) # Value(res)
    <3>1. Carry = 1 <=> last.a + last.b >= M
      BY <1>1, <2>2, <2>4 DEF CompareInv, FlagsKeepOrder
    <3>2. Exact("addc", acc, b) = acc + b + Carry
      BY DEF Exact, Addend, CarryIn
    <3>3. Exact(last.op, last.a, last.b) = last.a + last.b
      BY <2>3, <2>4 DEF Exact, Addend, CarryIn
    <3>4. acc' = (acc + b + Carry) % M
      BY <2>4, <3>2 DEF Arithmetic, Result
    <3>5. /\ flags'.C <=> acc + b + Carry >= M
          /\ flags'.V <=> Negative(acc) = Negative(b) /\ Negative(acc') # Negative(acc)
      <4>1. flags' = ArithmeticFlags("addc", acc, b) /\ acc' = Result("addc", acc, b)
        BY <2>4 DEF Arithmetic
      <4> QED
        BY <2>1, <3>2, <4>1, HighFlags
    <3> QED
      BY <2>1, <2>2, <3>1, <3>3, <3>4, <3>5, WideSum, WideOverflow
  <2>5. ASSUME last.op = "sub", Arithmetic("wide", "subc", acc, b, TRUE)
        PROVE  LET x == WideOperand(acc, last.a)
                   y == WideOperand(b, last.b)
                   res == WideOperand(acc', Exact(last.op, last.a, last.b) % M)
               IN  /\ res = (x - y) % (M * M)
                   /\ flags'.C <=> x >= y
    <3>1. Carry = 1 <=> last.a >= last.b
      BY <1>1, <2>2, <2>5 DEF CompareInv, FlagsKeepOrder, Ordered
    <3>2. Exact("subc", acc, b) = acc + (M - 1 - b) + Carry
      BY DEF Exact, Addend, CarryIn
    <3>3. Exact(last.op, last.a, last.b) = last.a - last.b
      BY <2>3, <2>5 DEF Exact, Addend, CarryIn
    <3>4. acc' = (acc + (M - 1 - b) + Carry) % M
      BY <2>5, <3>2 DEF Arithmetic, Result
    <3>5. flags'.C <=> acc + (M - 1 - b) + Carry >= M
      <4>1. flags' = ArithmeticFlags("subc", acc, b)
        BY <2>5 DEF Arithmetic
      <4> QED
        BY <2>1, <3>2, <4>1, HighFlags
    <3> QED
      BY <2>1, <2>2, <3>1, <3>3, <3>4, <3>5, WideDifference
  <2> QED
    BY <2>4, <2>5
<1>2. CompareInv /\ [Next]_vars => [Exactly]_vars
  BY <1>1
<1> QED
  BY <1>2, ComparisonsLast, PTL DEF Spec, WideArithmetic

------------------------------------------------------------------------------
(* Links. *)

\* While a link is kept it is the address behind the latest call.
LinkInv ==
  /\ pc \in Address /\ r3 \in Address /\ ret \in Address \cup {NoCall}
  /\ ret # NoCall => r3 = ret

Even(x) == x \in Int /\ x % 2 = 0

\* Addresses wrap and stay even, since memory is a whole number of instructions.
LEMMA Remainder ==
  ASSUME NEW x, Even(x)
  PROVE  x % Space \in Address /\ (x \in Address => x % Space = x)
<1> DEFINE k == Space \div 4
           q == x \div Space
           z == k * q
<1>1. k \in Int /\ q \in Int /\ z \in Int /\ x \in Int
  BY CpuAssumption DEF Even
<1>2. Space = 4 * k
  BY CpuAssumption
<1>3. x % Space = x - Space * q
  BY <1>1, CpuAssumption
<1>4. Space * q = 4 * z
  <2> HIDE DEF q, k
  <2> QED
    BY <1>1, <1>2 DEF z
<1>5. x % Space \in 0..(Space - 1) /\ (x \in 0..(Space - 1) => x % Space = x)
  BY <1>1, CpuAssumption
<1>6. x % Space = x - 4 * z
  BY <1>3, <1>4
<1> HIDE DEF z
<1>7. (x - 4 * z) % 2 = 0
  BY <1>1 DEF Even
<1> QED
  BY <1>5, <1>6, <1>7 DEF Address

\* Addresses are even.
LEMMA AddressesEven == \A a \in Address : Even(a)
BY CpuAssumption DEF Address, Even

\* Sums and differences of even numbers are even.
LEMMA EvenSum ==
  ASSUME NEW x, NEW y, Even(x), Even(y)
  PROVE  Even(x + y) /\ Even(x - y)
BY DEF Even

\* A link is as far from a call as the next instruction.
LEMMA LengthTyped ==
  ASSUME NEW f \in Form
  PROVE  /\ Even(Length(f)) /\ Even(Short(f))
         /\ Linked(f) = (pc + Length(f)) % Space
BY DEF Length, Short, Linked, Form, Even

\* Neither going on nor a branch breaks a link.
LEMMA ProceedKeepsLink ==
  ASSUME LinkInv, NEW f \in Form, Proceed(f)
  PROVE  LinkInv'
<1>1. Even(pc + Length(f))
  BY LengthTyped, AddressesEven, EvenSum DEF LinkInv
<1> QED
  BY <1>1, Remainder DEF Proceed, Continue, LinkInv

\* A branch that links sets the link and what follows the call together.
LEMMA TakeKeepsLink ==
  ASSUME LinkInv, NEW f \in Form, NEW target, Even(target), NEW lk \in BOOLEAN,
         Take(f, target, lk)
  PROVE  LinkInv'
<1>1. Even(pc + Length(f)) /\ Even(target - Short(f))
  BY LengthTyped, AddressesEven, EvenSum DEF LinkInv
<1>2. Even(target - Short(f) + Length(f))
  BY <1>1, LengthTyped, EvenSum
<1>3. pc' \in Address
  BY <1>2, Remainder DEF Take, Continue
<1>4. CASE lk
  BY <1>1, <1>3, <1>4, Remainder, LengthTyped DEF Take, LinkInv
<1>5. CASE ~lk
  BY <1>3, <1>5 DEF Take, LinkInv
<1> QED
  BY <1>4, <1>5

\* The link in r3 is the address behind the latest call, whatever the program does
\* that does not load r3 (link, link16 and branch).
THEOREM LinksLast == Spec => []LinkInv
<1>1. Init => LinkInv
  BY CpuAssumption DEF Init, LinkInv, Address
<1>2. LinkInv /\ [Next]_vars => LinkInv'
  <2> SUFFICES ASSUME LinkInv, [Next]_vars  PROVE LinkInv'
    OBVIOUS
  <2>0. Even(pc) /\ Even(r3)
    BY AddressesEven DEF LinkInv
  <2>1. ASSUME NEW f \in Form, Proceed(f)  PROVE LinkInv'
    BY <2>1, ProceedKeepsLink
  <2>2. ASSUME NEW f \in Form, NEW a \in Address, LoadLink(f, a)  PROVE LinkInv'
    <3>1. Even(pc + Length(f))
      BY <2>0, LengthTyped, EvenSum
    <3> QED
      BY <2>2, <3>1, Remainder DEF LoadLink, Continue, LinkInv
  <2>3. ASSUME NEW f \in Form, NEW a \in Address, NEW lk \in BOOLEAN,
               BranchRegister(f, a, lk) \/ Jump(f, a, lk) \/ BranchRelative(f, a, lk)
        PROVE  LinkInv'
    <3>1. Even(a) /\ Even(pc + a)
      BY <2>0, AddressesEven, EvenSum
    <3> QED
      BY <2>3, <3>1, TakeKeepsLink DEF BranchRegister, Jump, BranchRelative
  <2>4. ASSUME NEW f \in Form, NEW lk \in BOOLEAN, BranchLink(f, lk)
        PROVE  LinkInv'
    <3>1. Even(Linked(f))
      <4>1. Even(pc + Length(f))
        BY <2>0, LengthTyped, EvenSum
      <4> QED
        BY <4>1, Remainder, LengthTyped, AddressesEven
    <3>2. Even(IF lk /\ f # "wide" THEN Linked(f) ELSE r3)
      BY <2>0, <3>1
    <3> QED
      BY <2>4, <3>2, TakeKeepsLink DEF BranchLink
  <2>5. CASE UNCHANGED vars
    BY <2>5 DEF vars, LinkInv
  <2>6. "wide" \in Form
    BY DEF Form
  <2> HIDE DEF LinkInv
  <2> QED
    BY <2>1, <2>2, <2>3, <2>4, <2>5, <2>6, Zenon
       DEF Next, Arithmetic, Compare, Logic, TestBit, ShiftOrRotate, Load,
           RestoreFlags, NotTaken
<1> QED
  BY <1>1, <1>2, PTL DEF Spec

\* A return ends behind its call, in memories of any size.
THEOREM ReturnsEndBehindCalls == Spec => CallReturns
<1>1. LinkInv /\ [Next]_vars =>
        [ret # NoCall =>
           \A f \in {"wide", "half"} : BranchLink(f, FALSE) => pc' = ret]_vars
  <2> SUFFICES ASSUME LinkInv, ret # NoCall, NEW f \in {"wide", "half"},
                      BranchLink(f, FALSE)
               PROVE  pc' = ret
    OBVIOUS
  <2>1. Even(r3) /\ r3 - Short(f) + Length(f) = r3
    BY AddressesEven DEF Short, Length, LinkInv, Even
  <2>2. pc' = (r3 - Short(f) + Length(f)) % Space
    BY DEF BranchLink, Take, Continue
  <2> QED
    BY <2>1, <2>2, Remainder DEF LinkInv
<1> QED
  BY <1>1, LinksLast, PTL DEF Spec, CallReturns

\* Registers, flags and pc keep their types: words are cut to their width, and
\* addresses stay even.
THEOREM TypeCorrect == Spec => []TypeOK
<1>1. CompareInv /\ LinkInv => TypeOK
  BY DEF CompareInv, DataTyped, LinkInv, TypeOK, Flags
<1> QED
  BY <1>1, ComparisonsLast, LinksLast, PTL
==============================================================================
