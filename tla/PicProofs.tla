------------------------------ MODULE PicProofs ------------------------------
(* What the operators of Pic do, for every set of lines and every state, and *)
(* what the proofs about loops need.                                         *)
EXTENDS Pic, WellFoundedInduction, TLAPS

------------------------------------------------------------------------------
\* Every non-empty set of lines has a lowest and a highest member, so what the
\* scans of step() and of ProcessInterrupts stop at exists.
LEMMA LowestExists ==
  ASSUME NEW S \in SUBSET Nat, S # {}
  PROVE  \E i \in S : \A j \in S : i <= j
<1>1. PICK x \in S : \A y \in S : ~(<<y, x>> \in OpToRel(<, Nat))
  BY WFMin, NatLessThanWellFounded
<1>2. \A y \in S : ~(y < x)
  BY <1>1 DEF OpToRel
<1> QED
  BY <1>2

LEMMA FirstIsHighest ==
  ASSUME NEW S \in SUBSET IRQ, S # {}
  PROVE  First(S) \in S /\ \A j \in S : j <= First(S)
<1> DEFINE T == {63 - i : i \in S}
<1>1. S \subseteq 0..63
  BY IrqAssumption
<1>2. T \in SUBSET Nat /\ T # {}
  <2>1. \A i \in 0..63 : 63 - i \in Nat
    OBVIOUS
  <2>2. \A i \in S : 63 - i \in Nat
    BY <1>1, <2>1
  <2> QED
    BY <2>2
<1>3. PICK t \in T : \A u \in T : t <= u
  <2> HIDE DEF T
  <2> QED BY <1>2, LowestExists
<1>4. PICK i \in S : t = 63 - i
  BY <1>3
<1>5. ASSUME NEW j \in S
      PROVE  j <= i
  <2>1. i \in Int /\ j \in Int
    BY <1>1
  <2>2. 63 - i <= 63 - j
    BY <1>3, <1>4
  <2> QED
    BY <2>1, <2>2
<1> QED
  BY <1>5 DEF First

LEMMA LinesAreNaturals == IRQ \subseteq Nat
<1>1. 0..63 \subseteq Nat
  OBVIOUS
<1> QED
  BY <1>1, IrqAssumption
------------------------------------------------------------------------------
\* What the operators of the controller do, whatever the state.
LEMMA ProcessInterruptsEffect ==
  ASSUME NEW p \in PicState
  PROVE  /\ ProcessInterrupts(p) \in PicState
         /\ ProcessInterrupts(p).pending = p.pending
         /\ ProcessInterrupts(p).mask = p.mask
         /\ \/ ProcessInterrupts(p) = p
            \/ \E i \in Waiting(p) :
                 /\ ProcessInterrupts(p).fired = p.fired \cup {i}
                 /\ ProcessInterrupts(p).queued = p.queued \cup {i}
<1>1. CASE Waiting(p) = {}
  BY <1>1 DEF ProcessInterrupts
<1>2. CASE Waiting(p) # {}
  <2>1. Waiting(p) \in SUBSET IRQ
    BY DEF Waiting, PicState
  <2>2. First(Waiting(p)) \in Waiting(p)
    BY <1>2, <2>1, FirstIsHighest
  <2> DEFINE i == First(Waiting(p))
             q == [p EXCEPT !.fired = @ \cup {i}, !.queued = @ \cup {i}]
  <2>3. ProcessInterrupts(p) = q
    BY <1>2 DEF ProcessInterrupts
  <2>4. i \in Waiting(p) /\ i \in IRQ
    BY <2>1, <2>2
  <2> HIDE DEF i
  <2>5. /\ q \in PicState /\ q.pending = p.pending /\ q.mask = p.mask
        /\ q.fired = p.fired \cup {i} /\ q.queued = p.queued \cup {i}
    BY <2>4 DEF PicState
  <2> QED
    BY <2>3, <2>4, <2>5
<1> QED
  BY <1>1, <1>2

LEMMA RaiseEffect ==
  ASSUME NEW p \in PicState, NEW i \in IRQ
  PROVE  LET q == SetIRQState(p, i, TRUE)
         IN  /\ q \in PicState
             /\ q.pending = p.pending \cup {i}
             /\ \/ q.fired = p.fired /\ q.queued = p.queued
                \/ \E k \in (p.pending \cup {i}) \ p.fired :
                     q.fired = p.fired \cup {k} /\ q.queued = p.queued \cup {k}
<1> DEFINE r == [p EXCEPT !.pending = @ \cup {i}]
<1>1. r \in PicState /\ r.pending = p.pending \cup {i}
      /\ r.fired = p.fired /\ r.queued = p.queued /\ r.mask = p.mask
  BY DEF PicState
<1>2. SetIRQState(p, i, TRUE) = ProcessInterrupts(r)
  BY DEF SetIRQState
<1> HIDE DEF r
<1>3. Waiting(r) \subseteq (p.pending \cup {i}) \ p.fired
  BY <1>1 DEF Waiting
<1> QED
  BY <1>1, <1>2, <1>3, ProcessInterruptsEffect

LEMMA LowerEffect ==
  ASSUME NEW p \in PicState, NEW i \in IRQ
  PROVE  LET q == SetIRQState(p, i, FALSE)
         IN  /\ q \in PicState
             /\ q.pending = p.pending \ {i}
             /\ q.fired = p.fired \ {i}
             /\ q.queued = p.queued
BY DEF SetIRQState, PicState

LEMMA InitialPic == PicInit \in PicState
<1>1. {} \in SUBSET IRQ
  OBVIOUS
<1> QED
  BY <1>1, Zenon DEF PicInit, PicState

LEMMA HalfIsLines == ASSUME NEW half PROVE Half(half) \subseteq IRQ
BY DEF Half

LEMMA WritePendingEffect ==
  ASSUME NEW p \in PicState, NEW half, NEW value \in SUBSET Half(half)
  PROVE  LET q == WritePending(p, half, value)
         IN  /\ q \in PicState /\ q.fired = p.fired /\ q.queued = p.queued
             /\ q.pending = (p.pending \ Half(half)) \cup value
BY HalfIsLines DEF WritePending, PicState

LEMMA WriteMaskEffect ==
  ASSUME NEW p \in PicState, NEW half, NEW value \in SUBSET Half(half)
  PROVE  LET q == WriteMask(p, half, value)
         IN  /\ q \in PicState
             /\ q.pending = p.pending
             /\ \/ q.fired = p.fired /\ q.queued = p.queued
                \/ \E k \in p.pending \ p.fired :
                     q.fired = p.fired \cup {k} /\ q.queued = p.queued \cup {k}
<1> DEFINE r == [p EXCEPT !.mask = (@ \ Half(half)) \cup value]
<1>1. r \in PicState /\ r.pending = p.pending
      /\ r.fired = p.fired /\ r.queued = p.queued
  BY HalfIsLines DEF PicState
<1>2. WriteMask(p, half, value) = ProcessInterrupts(r)
  BY DEF WriteMask
<1> HIDE DEF r
<1>3. Waiting(r) \subseteq p.pending \ p.fired
  BY <1>1 DEF Waiting
<1> QED
  BY <1>1, <1>2, <1>3, ProcessInterruptsEffect

LEMMA ResetEffect ==
  ASSUME NEW p \in PicState
  PROVE  LET q == [IRQDeviceReset(p) EXCEPT !.queued = {}]
         IN  q \in PicState /\ q.pending = {} /\ q.fired = p.fired /\ q.queued = {}
BY DEF IRQDeviceReset, PicState

LEMMA DequeueEffect ==
  ASSUME NEW p \in PicState, NEW i
  PROVE  LET q == [p EXCEPT !.queued = @ \ {i}]
         IN  /\ q \in PicState /\ q.pending = p.pending
             /\ q.fired = p.fired /\ q.queued = p.queued \ {i}
BY DEF PicState
------------------------------------------------------------------------------
(* Loops.  The models write a loop of the code as a function of the number of *)
(* its turns, defined from its own value one turn earlier.                    *)

\* What holds before the first turn, and after a turn when it held before it,
\* holds after every turn.
LEMMA TurnByTurn ==
  ASSUME NEW N \in Nat, NEW Good \in SUBSET Nat, 0 \in Good,
         \A k \in 1..N : k - 1 \in Good => k \in Good
  PROVE  0..N \subseteq Good
<1> DEFINE Bad == {k \in 0..N : k \notin Good}
<1> SUFFICES ASSUME Bad # {} PROVE FALSE
  OBVIOUS
<1>1. PICK k \in Bad : \A m \in Bad : k <= m
  <2>1. Bad \in SUBSET Nat
    OBVIOUS
  <2> HIDE DEF Bad
  <2> QED
    BY <2>1, LowestExists
<1>2. k \in 1..N /\ k - 1 \in 0..N
  BY <1>1
<1>3. k - 1 \notin Bad
  <2>1. ~ k <= k - 1
    BY <1>2
  <2> QED
    BY <1>1, <2>1
<1> QED
  BY <1>1, <1>2, <1>3

\* f is what n turns make of first, one after the other.
Outcomes(f, first, turn, n) ==
  /\ f[0] = first
  /\ \A k \in 1..n : f[k] = turn[<<k, f[k - 1]>>]

\* A loop of N turns has an outcome, and every turn leaves it in S.
LEMMA LoopExists ==
  ASSUME NEW S, NEW first \in S, NEW N \in Nat, NEW turn \in [(1..N) \X S -> S]
  PROVE  \E f \in [0..N -> S] : Outcomes(f, first, turn, N)
<1> USE DEF Outcomes
<1> DEFINE Runs(f, n) == Outcomes(f, first, turn, n)
           Stuck == {n \in 0..N : ~ \E f \in [0..n -> S] : Runs(f, n)}
<1>1. Stuck = {}
  <2> SUFFICES ASSUME Stuck # {} PROVE FALSE
    OBVIOUS
  <2>1. PICK n \in Stuck : \A m \in Stuck : n <= m
    <3>1. Stuck \in SUBSET Nat
      OBVIOUS
    <3> HIDE DEF Stuck
    <3> QED BY <3>1, LowestExists
  <2>2. n # 0
    <3> SUFFICES ASSUME n = 0 PROVE FALSE
      OBVIOUS
    <3> DEFINE g == [k \in 0..0 |-> first]
    <3>1. g \in [0..0 -> S] /\ Runs(g, 0)
      OBVIOUS
    <3> QED BY <2>1, <3>1
  <2>3. n \in 1..N /\ n - 1 \in 0..N /\ n - 1 \notin Stuck
    <3>1. n - 1 \in 0..N
      BY <2>1, <2>2
    <3>2. n - 1 \notin Stuck
      <4> SUFFICES ASSUME n - 1 \in Stuck PROVE FALSE OBVIOUS
      <4>1. n <= n - 1 BY <2>1
      <4> QED BY <4>1, <2>1
    <3> QED BY <3>1, <3>2, <2>1, <2>2
  <2>4. PICK f \in [0..(n - 1) -> S] : Runs(f, n - 1)
    BY <2>3
  <2> DEFINE g == [k \in 0..n |-> IF k < n THEN f[k] ELSE turn[<<n, f[n - 1]>>]]
  <2>5. f[n - 1] \in S /\ turn[<<n, f[n - 1]>>] \in S
    BY <2>3, <2>4
  <2>6. g \in [0..n -> S]
    BY <2>3, <2>5
  <2>7. Runs(g, n)
    <3>1. g[0] = first
      BY <2>3, <2>4
    <3>2. ASSUME NEW k \in 1..n PROVE g[k] = turn[<<k, g[k - 1]>>]
      <4>1. k - 1 \in 0..n /\ k \in 0..n /\ k - 1 < n /\ g[k - 1] = f[k - 1]
        BY <2>3
      <4>2. CASE k < n
        BY <4>1, <4>2, <2>3, <2>4
      <4>3. CASE k = n
        BY <4>1, <4>3, <2>3
      <4> QED BY <4>2, <4>3, <2>3
    <3> QED BY <3>1, <3>2
  <2> QED BY <2>1, <2>6, <2>7
<1> QED
  BY <1>1
==============================================================================
