--------------------------------- MODULE Cpu ---------------------------------
(***************************************************************************)
(* The instruction set of cpu/cpu.cpp: flags and conditions, arithmetic,   *)
(* branches and links.  A step executes one instruction of an arbitrary    *)
(* program.  The instruction has 32 bits ("wide"), 16 bits ("half") or is  *)
(* the chosen half of a pair of which one is executed ("pair").            *)
(*                                                                         *)
(* Registers are acc, which stands for any register but the link register, *)
(* and r3.  Words have half the range of values Half on each side of zero; *)
(* addresses lie in 0..Space-1 and are even.                               *)
(*                                                                         *)
(* Left out: memory and what is loaded from it, the counter CNT behind one *)
(* of the conditions, T, which chooses the half of a pair, and products    *)
(* and quotients.  Interrupts are in the module Interrupts.                *)
(***************************************************************************)
EXTENDS Integers

CONSTANTS
  Half,       \* the least negative word: 2^31
  Bits,       \* the bits of a word: 32
  Space       \* the bytes of memory

M == 2 * Half                 \* arithmetic is modulo M
Word == 0..(M - 1)
Address == {a \in 0..(Space - 1) : a % 2 = 0}
Shift == 0..(Bits - 1)

ASSUME CpuAssumption ==
  /\ Half \in Nat \ {0}
  /\ Bits \in Nat \ {0} /\ Half = 2^(Bits - 1)
  /\ \A k \in 0..Bits : 2^k \in Nat \ {0}
  /\ Space \in Nat \ {0} /\ Space % 4 = 0

VARIABLES
  acc, r3,     \* registers
  flags,       \* N, Z, C and V
  pc,
  last,        \* history: the addition or subtraction the flags are from
  ret          \* history: what follows the latest call, while r3 is its link

vars == <<acc, r3, flags, pc, last, ret>>

Form == {"wide", "pair", "half"}
Last == [op : {"add", "sub"}, a : Word, b : Word]
Unknown == [op |-> "none", a |-> 0, b |-> 0]
NoCall == -1

\* The registers, the flags and the history keep their types.
TypeOK ==
  /\ acc \in Word
  /\ r3 \in Address
  /\ flags \in [N : BOOLEAN, Z : BOOLEAN, C : BOOLEAN, V : BOOLEAN]
  /\ pc \in Address
  /\ last \in Last \cup {Unknown}
  /\ ret \in Address \cup {NoCall}

\* CPU::reset, before the loader sets pc.
Init ==
  /\ acc = 0 /\ r3 = 0
  /\ flags = [N |-> FALSE, Z |-> FALSE, C |-> FALSE, V |-> FALSE]
  /\ pc \in Address
  /\ last = Unknown /\ ret = NoCall

------------------------------------------------------------------------------
(* Conditions and flags. *)

Negative(x) == x >= Half
Signed(x) == IF Negative(x) THEN x - M ELSE x

\* What conditional may return for its sixteen patterns, of which one asks the
\* counter.
Outcomes(f) ==
  << {f.C}, {~f.C}, {f.C /\ ~f.Z}, {~f.C \/ f.Z}, {f.Z}, {~f.Z},
     {f.N = f.V /\ ~f.Z}, {f.N # f.V \/ f.Z}, {f.N = f.V}, {f.N # f.V},
     {f.N}, {~f.N}, {f.V}, {~f.V}, BOOLEAN, {TRUE} >>

BasicFlags(f, res) ==
  [N |-> Negative(res), Z |-> (res = 0), C |-> f.C, V |-> f.V]

Carry == IF flags.C THEN 1 ELSE 0

\* The second number of the addition that is carried out.
Addend(op, b) ==
  IF op \in {"add", "addc"} THEN b ELSE IF op = "sub" THEN -b ELSE M - 1 - b

\* Wrong variant: subc does not look at the carry.
CarryInOfSubcMissing(op) == IF op = "addc" THEN Carry ELSE 0

CarryIn(op) == IF op \in {"addc", "subc"} THEN Carry ELSE 0

\* The result before it is cut to a word.
Exact(op, a, b) == a + Addend(op, b) + CarryIn(op)

CarryOut(op, a, b) == IF op = "sub" THEN a >= b ELSE Exact(op, a, b) >= M

\* Wrong variant: the formula of add for all.
OverflowOfAdd(op, a, b, res) ==
  Negative(a) = Negative(b) /\ Negative(res) # Negative(a)

\* subc uses the formula of addc.
Overflow(op, a, b, res) ==
  IF op = "sub" THEN Negative(a) # Negative(b) /\ Negative(res) = Negative(b)
  ELSE Negative(a) = Negative(b) /\ Negative(res) # Negative(a)

Result(op, a, b) == Exact(op, a, b) % M

ArithmeticFlags(op, a, b) ==
  LET res == Result(op, a, b)
  IN  [N |-> Negative(res), Z |-> (res = 0),
       C |-> CarryOut(op, a, b), V |-> Overflow(op, a, b, res)]

------------------------------------------------------------------------------
(* Instructions that do not branch. *)

Length(f) == IF f = "half" THEN 2 ELSE 4

\* A wide instruction or a pair lies at a multiple of four.
Fetch(f) == f = "half" \/ pc % 4 = 0

\* step adds the length to the pc that the instruction left.
Continue(f, p) == pc' = (p + Length(f)) % Space

Proceed(f) == Fetch(f) /\ Continue(f, pc) /\ UNCHANGED <<r3, ret>>

Recorded(op, a, b) ==
  IF op \in {"add", "sub"} THEN [op |-> op, a |-> a, b |-> b] ELSE Unknown

\* add, addc, sub, subc and neg.  Half forms always set the flags and have no subc.
Arithmetic(f, op, a, b, cu) ==
  /\ f # "wide" => cu /\ op # "subc"
  /\ Proceed(f)
  /\ acc' = Result(op, a, b)
  /\ IF cu THEN flags' = ArithmeticFlags(op, a, b) /\ last' = Recorded(op, a, b)
     ELSE UNCHANGED <<flags, last>>

\* cmp and cmpz with their flags; without them they do nothing.
Compare(f, a, b) ==
  /\ Proceed(f)
  /\ flags' = ArithmeticFlags("sub", a, b) /\ last' = Recorded("sub", a, b)
  /\ UNCHANGED acc

\* and, or, xor, the bit instructions and the extensions: the result is any word.
Logic(f, res, cu) ==
  /\ f # "wide" => cu
  /\ Proceed(f)
  /\ acc' = res
  /\ IF cu THEN flags' = BasicFlags(flags, res) /\ last' = Unknown
     ELSE UNCHANGED <<flags, last>>

Bit(a, k) == (a \div 2^k) % 2 = 1

\* bittst.
TestBit(f, k) ==
  /\ Proceed(f)
  /\ flags' = BasicFlags(flags, IF Bit(acc, k) THEN 2^k ELSE 0)
  /\ last' = Unknown
  /\ UNCHANGED acc

Shifted(kind, a, s) ==
  CASE kind = "sll" -> (a * 2^s) % M
    [] kind = "srl" -> a \div 2^s
    [] kind = "sra" -> (Signed(a) \div 2^s) % M
    [] kind = "ror" -> (a \div 2^s + a * 2^(Bits - s)) % M
    [] kind = "rol" -> (a * 2^s + a \div 2^(Bits - s)) % M

\* Shifting by nothing reads a bit that does not exist; rotating leaves the carry.
ShiftCarries(kind, a, s) ==
  CASE s > 0 /\ kind \in {"sll", "rol"} -> {Bit(a, Bits - s)}
    [] s > 0 /\ kind \in {"srl", "sra", "ror"} -> {Bit(a, s - 1)}
    [] s = 0 /\ kind \in {"sll", "srl", "sra"} -> BOOLEAN
    [] OTHER -> {flags.C}

ShiftOrRotate(f, kind, s, cu) ==
  /\ f # "wide" => cu /\ kind \notin {"ror", "rol"}
  /\ Proceed(f)
  /\ acc' = Shifted(kind, acc, s)
  /\ \E c \in ShiftCarries(kind, acc, s) :
       flags' = IF cu THEN [BasicFlags(flags, acc') EXCEPT !.C = c] ELSE flags
  /\ last' = IF cu THEN Unknown ELSE last

\* Loads and moves: any value; also what changes no register of the model.
Load(f, w) ==
  /\ Proceed(f)
  /\ acc' = w
  /\ UNCHANGED <<flags, last>>

\* The flags are a control register.
RestoreFlags ==
  /\ Proceed("wide")
  /\ flags' \in [N : BOOLEAN, Z : BOOLEAN, C : BOOLEAN, V : BOOLEAN]
  /\ last' = Unknown
  /\ UNCHANGED acc

LoadLink(f, a) ==
  /\ Fetch(f) /\ Continue(f, pc)
  /\ r3' = a /\ ret' = NoCall
  /\ UNCHANGED <<acc, flags, last>>

------------------------------------------------------------------------------
(* Branches.  They leave pc short of their target by what step will add; in a  *)
(* pair step adds more than that.                                              *)

Short(f) == IF f = "wide" THEN 4 ELSE 2

\* Wrong variant: link16 forgets the pairs.
LinkedForgetsPairs(f) == (pc + (IF f = "wide" THEN 4 ELSE 2)) % Space

\* link and link16.
Linked(f) == (pc + (IF f = "half" THEN 2 ELSE 4)) % Space

\* Some condition has this outcome.
Possible(taken) ==
  LET outcomes == Outcomes(flags)
  IN  taken \in UNION {outcomes[c] : c \in 1..16}

\* The condition holds; with a link if lk.
Take(f, target, lk) ==
  /\ Possible(TRUE)
  /\ Fetch(f)
  /\ Continue(f, target - Short(f))
  /\ IF lk THEN r3' = Linked(f) /\ ret' = (pc + Length(f)) % Space
     ELSE UNCHANGED <<r3, ret>>
  /\ UNCHANGED <<acc, flags, last>>

\* br{cond}[l].  The half forms link before they read the register.
BranchRegister(f, target, lk) == Take(f, target, lk)
BranchLink(f, lk) ==
  Take(f, IF lk /\ f # "wide" THEN Linked(f) ELSE r3, lk)

\* j[l].
Jump(f, target, lk) == Take(f, target, lk)

\* b{cond}[l]; the half form does not link.
BranchRelative(f, disp, lk) ==
  /\ f # "wide" => ~lk
  /\ Take(f, pc + disp, lk)

NotTaken(f) ==
  /\ Possible(FALSE)
  /\ Proceed(f) /\ UNCHANGED <<acc, flags, last>>

Next ==
  \/ \E f \in Form, op \in {"add", "addc", "sub", "subc"}, b \in Word,
       cu \in BOOLEAN : Arithmetic(f, op, acc, b, cu)
  \/ \E f \in Form, cu \in BOOLEAN : Arithmetic(f, "sub", 0, acc, cu)
  \/ \E f \in Form, b \in Word : Compare(f, acc, b)
  \/ \E f \in Form, w \in Word, cu \in BOOLEAN : Logic(f, w, cu)
  \/ \E f \in Form, k \in Shift : TestBit(f, k)
  \/ \E f \in Form, kind \in {"sll", "srl", "sra", "ror", "rol"}, s \in Shift,
       cu \in BOOLEAN : ShiftOrRotate(f, kind, s, cu)
  \/ \E f \in Form, w \in Word : Load(f, w)
  \/ RestoreFlags
  \/ \E f \in Form, a \in Address : LoadLink(f, a)
  \/ \E f \in Form, a \in Address, lk \in BOOLEAN :
       BranchRegister(f, a, lk) \/ Jump(f, a, lk) \/ BranchRelative(f, a, lk)
  \/ \E f \in Form, lk \in BOOLEAN : BranchLink(f, lk)
  \/ \E f \in Form : NotTaken(f)

Spec == Init /\ [][Next]_vars

------------------------------------------------------------------------------
\* However long ago two words were compared, and whatever ran since that keeps the
\* flags, the conditions of branches and moves mean what their names say: the
\* unsigned and the signed order of the two words.
ConditionsCompare ==
  LET a == last.a
      b == last.b
      Means(pattern, p) == \A o \in Outcomes(flags)[pattern + 1] : o <=> p
  IN  last.op = "sub" =>
        /\ Means(0, a >= b) /\ Means(1, a < b)
        /\ Means(2, a > b) /\ Means(3, a <= b)
        /\ Means(4, a = b) /\ Means(5, a # b)
        /\ Means(6, Signed(a) > Signed(b)) /\ Means(7, Signed(a) <= Signed(b))
        /\ Means(8, Signed(a) >= Signed(b)) /\ Means(9, Signed(a) < Signed(b))

\* Numbers of two words.
Value(n) == IF n >= M * Half THEN n - M * M ELSE n
WideOperand(high, low) == high * M + low

\* Numbers of two words: what add and addc, or sub and subc, compute one after the
\* other, with anything between them that keeps the flags.  For subc the overflow
\* is not claimed: see Overflow.
WideArithmetic ==
  [][\A b \in IF last.op = "none" THEN {} ELSE Word :
       LET x == WideOperand(acc, last.a)
           y == WideOperand(b, last.b)
           res == WideOperand(acc', Exact(last.op, last.a, last.b) % M)
       IN  /\ last.op = "add" /\ Arithmetic("wide", "addc", acc, b, TRUE) =>
                /\ res = (x + y) % (M * M)
                /\ flags'.C <=> x + y >= M * M
                /\ flags'.V <=> Value(x) + Value(y) # Value(res)
           /\ last.op = "sub" /\ Arithmetic("wide", "subc", acc, b, TRUE) =>
                /\ res = (x - y) % (M * M)
                /\ flags'.C <=> x >= y]_vars

\* A call may be a jump, a relative or a register branch of 32 or 16 bits, alone or
\* in a pair: a return through its link goes on with the instruction behind it.
\* A return in a pair does not: it ends two bytes further.
CallReturns ==
  [][ret # NoCall =>
       \A f \in {"wide", "half"} : BranchLink(f, FALSE) => pc' = ret]_vars
==============================================================================
