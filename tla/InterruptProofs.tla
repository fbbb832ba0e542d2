--------------------------- MODULE InterruptProofs ---------------------------
(* Proofs about Interrupts and InterruptHistory, for every set of lines.    *)
EXTENDS InterruptHistory, PicProofs

------------------------------------------------------------------------------
\* What step() enters is queued.
LEMMA CauseIsQueued ==
  ASSUME pic \in PicState, pic.queued # {}
  PROVE  Cause \in pic.queued
<1>1. pic.queued \in SUBSET IRQ
  BY DEF PicState
<1>2. pic.queued \in SUBSET Nat
  BY <1>1, LinesAreNaturals
<1>3. \E i \in pic.queued : \A j \in pic.queued : i <= j
  BY <1>2, LowestExists
<1> QED
  BY <1>3 DEF Cause

------------------------------------------------------------------------------
\* The types of the state of Interrupts are preserved by every handler.
LEMMA StepTypeOK == TypeOK /\ [Next]_vars => TypeOK'
<1> SUFFICES ASSUME TypeOK, [Next]_vars PROVE TypeOK'
  OBVIOUS
<1> USE DEF TypeOK, cpu
<1>1. ASSUME NEW i \in IRQ, RaiseLine(i) PROVE TypeOK'
  BY <1>1, RaiseEffect DEF RaiseLine
<1>2. ASSUME NEW i \in IRQ, LowerLine(i) PROVE TypeOK'
  BY <1>2, LowerEffect DEF LowerLine
<1>3. ASSUME NEW half \in {"L", "H"}, NEW value \in SUBSET Half(half),
             GuestWritesPending(half, value)
      PROVE  TypeOK'
  BY <1>3, WritePendingEffect DEF GuestWritesPending
<1>4. ASSUME NEW half \in {"L", "H"}, NEW value \in SUBSET Half(half),
             GuestWritesMask(half, value)
      PROVE  TypeOK'
  BY <1>4, WriteMaskEffect DEF GuestWritesMask
<1>5. ASSUME NEW b \in BOOLEAN, GuestWritesIen(b) PROVE TypeOK'
  BY <1>5 DEF GuestWritesIen
<1>6. CASE TakeInterrupt
  <2>1. Cause \in IRQ
    BY <1>6, CauseIsQueued DEF TakeInterrupt, PicState
  <2>2. pic' \in PicState
    BY <1>6, DequeueEffect DEF TakeInterrupt
  <2> QED
    BY <1>6, <2>1, <2>2 DEF TakeInterrupt
<1>7. CASE Rte
  BY <1>7 DEF Rte
<1>8. CASE SoftReset
  BY <1>8, ResetEffect DEF SoftReset
<1>9. CASE UNCHANGED vars
  BY <1>9 DEF vars
<1> QED
  BY <1>1, <1>2, <1>3, <1>4, <1>5, <1>6, <1>7, <1>8, <1>9 DEF Next, DriverNext

\* The controller, the queue and the CPU's interrupt registers keep their types.
THEOREM TypeCorrect == Spec => []TypeOK
<1>1. Init => TypeOK
  BY InitialPic DEF Init, TypeOK
<1> QED
  BY <1>1, StepTypeOK, PTL DEF Spec

\* Whoever is in a handler, or will return to one, came through an entry that
\* set last_ien.
HandlerSetLastIen == (pc # Main \/ cr5 # Main) => lastIen

LEMMA StepHandlerSetLastIen ==
  HandlerSetLastIen /\ [Next]_vars => HandlerSetLastIen'
<1> SUFFICES ASSUME HandlerSetLastIen, [Next]_vars PROVE HandlerSetLastIen'
  OBVIOUS
<1> USE DEF HandlerSetLastIen
<1>1. CASE TakeInterrupt
  BY <1>1 DEF TakeInterrupt
<1>2. CASE Rte
  BY <1>2 DEF Rte
<1>3. CASE SoftReset
  BY <1>3 DEF SoftReset
<1>4. CASE UNCHANGED <<lastIen, pc, cr5>>
  BY <1>4
<1> QED
  BY <1>1, <1>2, <1>3, <1>4
     DEF Next, DriverNext, vars, cpu, RaiseLine, LowerLine, GuestWritesPending,
         GuestWritesMask, GuestWritesIen

\* An rte executed in a handler always enables interrupts again.
THEOREM RteEnablesInterrupts == Spec => ReturnEnablesInterrupts
<1>1. Init => HandlerSetLastIen
  BY DEF Init, HandlerSetLastIen
<1>2. HandlerSetLastIen => [Rte /\ pc # Main => ien']_vars
  BY DEF HandlerSetLastIen, Rte
<1> QED
  BY <1>1, <1>2, StepHandlerSetLastIen, PTL DEF Spec, ReturnEnablesInterrupts

------------------------------------------------------------------------------
\* The history variables keep their types.
LEMMA StepHTypeOK == HTypeOK /\ [HNext]_hvars => HTypeOK'
<1> SUFFICES ASSUME HTypeOK, [HNext]_hvars PROVE HTypeOK'
  OBVIOUS
<1>1. TypeOK'
  <2>1. [Next]_vars
    BY DEF HNext, Next, DriverNext, hvars, HRaiseLine, HLowerLine, HGuestWritesPending,
           HGuestWritesMask, HGuestWritesIen, HTakeInterrupt, HRte, HSoftReset
  <2> QED
    BY <2>1, StepTypeOK DEF HTypeOK
<1> USE DEF HTypeOK, hist
<1>2. ASSUME CountEdges
      PROVE  edges' \in [IRQ -> 0..EdgeCap] /\ fresh' \subseteq IRQ
  <2>1. \A j \in IRQ : (IF j \in Rising /\ edges[j] < EdgeCap
                        THEN edges[j] + 1 ELSE edges[j]) \in 0..EdgeCap
    BY EdgeCapAssumption
  <2>2. pic' \in PicState
    BY <1>1 DEF TypeOK
  <2>3. Rising \subseteq IRQ
    BY <2>2 DEF Rising, PicState
  <2> QED
    BY <1>2, <2>1, <2>3 DEF CountEdges
<1>3. ASSUME NEW i \in IRQ, HRaiseLine(i) PROVE HTypeOK'
  BY <1>1, <1>2, <1>3 DEF HRaiseLine
<1>4. ASSUME NEW i \in IRQ, HLowerLine(i) PROVE HTypeOK'
  BY <1>1, <1>4 DEF HLowerLine
<1>5. ASSUME NEW half \in {"L", "H"}, NEW value \in SUBSET Half(half),
             HGuestWritesPending(half, value)
      PROVE  HTypeOK'
  <2>1. pic.fired \subseteq IRQ
    BY DEF TypeOK, PicState
  <2> QED
    BY <1>1, <1>2, <1>5, <2>1 DEF HGuestWritesPending
<1>6. ASSUME NEW half \in {"L", "H"}, NEW value \in SUBSET Half(half),
             HGuestWritesMask(half, value)
      PROVE  HTypeOK'
  BY <1>1, <1>6 DEF HGuestWritesMask
<1>7. ASSUME NEW b \in BOOLEAN, HGuestWritesIen(b) PROVE HTypeOK'
  BY <1>1, <1>7 DEF HGuestWritesIen
<1>8. CASE HTakeInterrupt
  <2>1. \A k \in 0..EdgeCap : (IF k > 0 THEN k - 1 ELSE 0) \in 0..EdgeCap
    BY EdgeCapAssumption
  <2> QED
    BY <1>1, <1>8, <2>1 DEF HTakeInterrupt
<1>9. CASE HRte
  BY <1>1, <1>9 DEF HRte
<1>10. CASE HSoftReset
  <2>1. pic.fired \subseteq IRQ
    BY DEF TypeOK, PicState
  <2>2. 0 \in 0..EdgeCap
    BY EdgeCapAssumption
  <2> QED
    BY <1>1, <1>10, <2>1, <2>2 DEF HSoftReset
<1>11. CASE UNCHANGED hvars
  BY <1>1, <1>11 DEF hvars
<1> QED
  BY <1>3, <1>4, <1>5, <1>6, <1>7, <1>8, <1>9, <1>10, <1>11 DEF HNext

\* The history invariant is preserved: one lemma per way a handler can move the
\* controller.
LEMMA RaiseKeepsHistory ==
  ASSUME HInv, HTypeOK', NEW i \in IRQ, HRaiseLine(i)
  PROVE  HInv'
<1> DEFINE q == SetIRQState(pic, i, TRUE)
<1>1. pic \in PicState /\ pic' = q
  BY DEF HInv, HTypeOK, TypeOK, HRaiseLine, RaiseLine
<1>2. /\ pic'.pending = pic.pending \cup {i}
      /\ \/ pic'.fired = pic.fired /\ pic'.queued = pic.queued
         \/ \E k \in (pic.pending \cup {i}) \ pic.fired :
              pic'.fired = pic.fired \cup {k} /\ pic'.queued = pic.queued \cup {k}
  BY <1>1, RaiseEffect
<1>3. stale' = stale /\ fresh' = fresh \cup Rising
      /\ edges' = [j \in IRQ |-> IF j \in Rising /\ edges[j] < EdgeCap
                                 THEN edges[j] + 1 ELSE edges[j]]
  BY DEF HRaiseLine, CountEdges
<1>4. EdgesCoverOwed'
  <2> SUFFICES ASSUME NEW j \in IRQ PROVE (Owed(j) <= edges[j])'
    BY DEF EdgesCoverOwed
  <2>1. edges[j] \in 0..EdgeCap /\ edges'[j] \in 0..EdgeCap /\ Owed(j) <= edges[j]
    BY <1>3 DEF HInv, HTypeOK, EdgesCoverOwed
  <2>2. edges'[j] = IF j \in Rising /\ edges[j] < EdgeCap
                    THEN edges[j] + 1 ELSE edges[j]
    BY <1>3
  <2>3. CASE j \in Rising
    BY <1>2, <2>1, <2>2, <2>3, EdgeCapAssumption DEF Owed, Rising
  <2>4. CASE j \notin Rising
    BY <1>2, <2>1, <2>2, <2>4, EdgeCapAssumption DEF Owed, Rising
  <2> QED
    BY <2>3, <2>4
<1>5. FiredIsPending'
  BY <1>2, <1>3 DEF HInv, FiredIsPending
<1>6. NoSilentLoss'
  BY <1>2, <1>3 DEF HInv, FiredIsPending, NoSilentLoss, Rising
<1> QED
  BY <1>4, <1>5, <1>6 DEF HInv

LEMMA LowerKeepsHistory ==
  ASSUME HInv, HTypeOK', NEW i \in IRQ, HLowerLine(i)
  PROVE  HInv'
<1>1. pic \in PicState /\ pic' = SetIRQState(pic, i, FALSE)
  BY DEF HInv, HTypeOK, TypeOK, HLowerLine, LowerLine
<1>2. /\ pic'.pending = pic.pending \ {i}
      /\ pic'.fired = pic.fired \ {i}
      /\ pic'.queued = pic.queued
  BY <1>1, LowerEffect
<1>3. stale' = stale \ {i} /\ fresh' = fresh /\ edges' = edges
  BY DEF HLowerLine
<1>4. EdgesCoverOwed'
  <2> SUFFICES ASSUME NEW j \in IRQ PROVE (Owed(j) <= edges[j])'
    BY DEF EdgesCoverOwed
  <2>1. edges[j] \in 0..EdgeCap /\ Owed(j) <= edges[j]
    BY DEF HInv, HTypeOK, EdgesCoverOwed
  <2> QED
    BY <1>2, <1>3, <2>1, EdgeCapAssumption DEF Owed
<1>5. FiredIsPending' /\ NoSilentLoss'
  BY <1>2, <1>3 DEF HInv, FiredIsPending, NoSilentLoss
<1> QED
  BY <1>4, <1>5 DEF HInv

LEMMA WritePendingKeepsHistory ==
  ASSUME HInv, HTypeOK', NEW half, NEW value \in SUBSET Half(half),
         HGuestWritesPending(half, value)
  PROVE  HInv'
<1>1. pic \in PicState /\ pic' = WritePending(pic, half, value)
  BY DEF HInv, HTypeOK, TypeOK, HGuestWritesPending, GuestWritesPending
<1>2. pic'.fired = pic.fired /\ pic'.queued = pic.queued
  BY <1>1, WritePendingEffect
<1>3. /\ stale' = stale \cup (pic.fired \ pic'.pending)
      /\ fresh' = fresh \cup Rising
      /\ edges' = [j \in IRQ |-> IF j \in Rising /\ edges[j] < EdgeCap
                                 THEN edges[j] + 1 ELSE edges[j]]
  BY DEF HGuestWritesPending, CountEdges
<1>4. EdgesCoverOwed'
  <2> SUFFICES ASSUME NEW j \in IRQ PROVE (Owed(j) <= edges[j])'
    BY DEF EdgesCoverOwed
  <2>1. edges[j] \in 0..EdgeCap /\ edges'[j] \in 0..EdgeCap /\ Owed(j) <= edges[j]
    BY <1>3 DEF HInv, HTypeOK, EdgesCoverOwed
  <2>2. edges'[j] = IF j \in Rising /\ edges[j] < EdgeCap
                    THEN edges[j] + 1 ELSE edges[j]
    BY <1>3
  <2> QED
    BY <1>2, <2>1, <2>2, EdgeCapAssumption DEF Owed, Rising
<1>5. FiredIsPending' /\ NoSilentLoss'
  BY <1>2, <1>3 DEF HInv, FiredIsPending, NoSilentLoss, Rising
<1> QED
  BY <1>4, <1>5 DEF HInv

LEMMA WriteMaskKeepsHistory ==
  ASSUME HInv, HTypeOK', NEW half, NEW value \in SUBSET Half(half),
         HGuestWritesMask(half, value)
  PROVE  HInv'
<1>1. pic \in PicState /\ pic' = WriteMask(pic, half, value)
  BY DEF HInv, HTypeOK, TypeOK, HGuestWritesMask, GuestWritesMask
<1>2. /\ pic'.pending = pic.pending
      /\ \/ pic'.fired = pic.fired /\ pic'.queued = pic.queued
         \/ \E k \in pic.pending \ pic.fired :
              pic'.fired = pic.fired \cup {k} /\ pic'.queued = pic.queued \cup {k}
  BY <1>1, WriteMaskEffect
<1>3. stale' = stale /\ fresh' = fresh /\ edges' = edges
  BY DEF HGuestWritesMask, hist
<1>4. EdgesCoverOwed'
  <2> SUFFICES ASSUME NEW j \in IRQ PROVE (Owed(j) <= edges[j])'
    BY DEF EdgesCoverOwed
  <2>1. edges[j] \in 0..EdgeCap /\ Owed(j) <= edges[j]
    BY DEF HInv, HTypeOK, EdgesCoverOwed
  <2> QED
    BY <1>2, <1>3, <2>1, EdgeCapAssumption DEF Owed
<1>5. FiredIsPending' /\ NoSilentLoss'
  BY <1>2, <1>3 DEF HInv, FiredIsPending, NoSilentLoss
<1> QED
  BY <1>4, <1>5 DEF HInv

\* Entering an interrupt gives up the edge owed to its queue bit.
LEMMA TakeKeepsHistory ==
  ASSUME HInv, HTypeOK', HTakeInterrupt
  PROVE  HInv'
<1>1. pic \in PicState /\ pic.queued # {}
      /\ pic' = [pic EXCEPT !.queued = @ \ {Cause}]
  BY DEF HInv, HTypeOK, TypeOK, HTakeInterrupt, TakeInterrupt
<1>2. /\ pic'.pending = pic.pending
      /\ pic'.fired = pic.fired
      /\ pic'.queued = pic.queued \ {Cause}
  BY <1>1, DequeueEffect
<1>3. Cause \in pic.queued
  BY <1>1, CauseIsQueued
<1>4. /\ stale' = stale /\ fresh' = fresh \ {Cause}
      /\ edges' = [edges EXCEPT ![Cause] = IF @ > 0 THEN @ - 1 ELSE 0]
  BY DEF HTakeInterrupt
<1>5. EdgesCoverOwed'
  <2> SUFFICES ASSUME NEW j \in IRQ PROVE (Owed(j) <= edges[j])'
    BY DEF EdgesCoverOwed
  <2>1. edges \in [IRQ -> 0..EdgeCap] /\ Owed(j) <= edges[j]
    BY DEF HInv, HTypeOK, EdgesCoverOwed
  <2>2. edges[j] \in 0..EdgeCap
    BY <2>1
  <2>3. CASE j = Cause
    <3>1. edges'[j] = IF edges[j] > 0 THEN edges[j] - 1 ELSE 0
      BY <1>4, <2>1, <2>3
    <3> QED
      BY <1>2, <1>3, <2>1, <2>2, <2>3, <3>1, EdgeCapAssumption DEF Owed
  <2>4. CASE j # Cause
    <3>1. edges'[j] = edges[j]
      BY <1>4, <2>1, <2>4
    <3> QED
      BY <1>2, <2>1, <2>4, <3>1 DEF Owed
  <2> QED
    BY <2>3, <2>4
<1>6. FiredIsPending' /\ NoSilentLoss'
  BY <1>2, <1>4 DEF HInv, FiredIsPending, NoSilentLoss
<1> QED
  BY <1>5, <1>6 DEF HInv

LEMMA ResetKeepsHistory ==
  ASSUME HInv, HTypeOK', HSoftReset
  PROVE  HInv'
<1>1. pic \in PicState /\ pic' = [IRQDeviceReset(pic) EXCEPT !.queued = {}]
  BY DEF HInv, HTypeOK, TypeOK, HSoftReset, SoftReset
<1>2. pic'.pending = {} /\ pic'.fired = pic.fired /\ pic'.queued = {}
  BY <1>1, ResetEffect
<1>3. stale' = stale \cup pic.fired /\ fresh' = {} /\ edges' = [j \in IRQ |-> 0]
  BY DEF HSoftReset
<1> QED
  BY <1>2, <1>3 DEF HInv, EdgesCoverOwed, Owed, FiredIsPending, NoSilentLoss

LEMMA StepHInv == HInv /\ [HNext]_hvars => HInv'
<1> SUFFICES ASSUME HInv, [HNext]_hvars PROVE HInv'
  OBVIOUS
<1>1. HTypeOK'
  BY StepHTypeOK DEF HInv
<1>2. ASSUME UNCHANGED <<pic, hist>> PROVE HInv'
  BY <1>1, <1>2 DEF HInv, hist, EdgesCoverOwed, Owed, FiredIsPending, NoSilentLoss
<1>3. ASSUME NEW b \in BOOLEAN, HGuestWritesIen(b) PROVE HInv'
  BY <1>2, <1>3 DEF HGuestWritesIen, GuestWritesIen
<1>4. CASE HRte
  BY <1>2, <1>4 DEF HRte, Rte
<1>5. CASE UNCHANGED hvars
  BY <1>2, <1>5 DEF hvars, vars
<1> QED
  BY <1>1, <1>3, <1>4, <1>5, RaiseKeepsHistory, LowerKeepsHistory,
     WritePendingKeepsHistory, WriteMaskKeepsHistory, TakeKeepsHistory,
     ResetKeepsHistory
  DEF HNext

LEMMA InitHInv == HInit => HInv
<1> SUFFICES ASSUME HInit PROVE HInv
  OBVIOUS
<1>1. pic = PicInit /\ PicInit \in PicState
  BY InitialPic DEF HInit, Init
<1>2. pic.pending = {} /\ pic.fired = {} /\ pic.queued = {}
  BY <1>1 DEF PicInit
<1>3. 0 \in 0..EdgeCap
  BY EdgeCapAssumption
<1>4. HTypeOK
  BY <1>1, <1>3 DEF HInit, Init, HTypeOK, TypeOK
<1> QED
  BY <1>2, <1>4 DEF HInit, HInv, EdgesCoverOwed, Owed, FiredIsPending, NoSilentLoss

\* The strengthened invariant of the history holds throughout.
THEOREM HistoryInvariant == HSpec => []HInv
BY InitHInv, StepHInv, PTL DEF HSpec

\* No edge of a line is delivered twice.
THEOREM DeliveriesHaveEdges == HSpec => []EachDeliveryHasAnEdge
<1>1. HInv => EachDeliveryHasAnEdge
  <2> SUFFICES ASSUME HInv, NEW i \in pic.queued PROVE edges[i] >= 1
    BY DEF EachDeliveryHasAnEdge
  <2>1. i \in IRQ
    BY DEF HInv, HTypeOK, TypeOK, PicState
  <2>2. edges[i] \in 0..EdgeCap /\ Owed(i) <= edges[i]
    BY <2>1 DEF HInv, HTypeOK, EdgesCoverOwed
  <2> QED
    BY <2>2, EdgeCapAssumption DEF Owed
<1> QED
  BY <1>1, HistoryInvariant, PTL

\* No edge is dropped, except behind a soft reset or a store to the pending bits.
THEOREM EdgesAreNotLost == HSpec => []NoSilentLoss
<1>1. HInv => NoSilentLoss
  BY DEF HInv
<1> QED
  BY <1>1, HistoryInvariant, PTL

------------------------------------------------------------------------------
(* The refinement: every step of the controller, the queue and the CPU is a *)
(* step of Delivery or a stutter.                                           *)

\* What a call of ProcessInterrupts does to the edges owed: those of the line it
\* hands over become one.
LEMMA HandingOverMerges ==
  ASSUME HInv, HInv', NEW counts \in [IRQ -> Int],
         \/ \A j \in IRQ : Owed(j)' = counts[j]
         \/ \E k \in IRQ : /\ Owed(k)' = 1 /\ counts[k] \in {1, 2}
                           /\ \A j \in IRQ \ {k} : Owed(j)' = counts[j]
  PROVE  Promise!HandOver(counts)
<1> DEFINE after == [j \in IRQ |-> Owed(j)']
<1>1. CASE \A j \in IRQ : Owed(j)' = counts[j]
  <2>1. after = counts
    BY <1>1
  <2> QED
    BY <2>1 DEF Promise!HandOver
<1>2. ASSUME NEW k \in IRQ, Owed(k)' = 1, counts[k] \in {1, 2},
             \A j \in IRQ \ {k} : Owed(j)' = counts[j]
      PROVE  Promise!HandOver(counts)
  <2>1. CASE counts[k] = 1
    <3>1. \A j \in IRQ : Owed(j)' = counts[j]
      BY <1>2, <2>1
    <3> QED
      BY <1>1, <3>1
  <2>2. CASE counts[k] = 2
    <3>1. after = [counts EXCEPT ![k] = 1]
      BY <1>2
    <3> QED
      BY <2>2, <3>1 DEF Promise!HandOver
  <2> QED
    BY <1>2, <2>1, <2>2
<1> QED
  BY <1>1, <1>2

LEMMA RaiseKeepsPromise ==
  ASSUME HInv, HInv', NEW i \in IRQ, HRaiseLine(i)
  PROVE  Promise!Rise(i)
<1> DEFINE owed == [j \in IRQ |-> Owed(j)]
           counts == [owed EXCEPT ![i] = IF i \in pic.pending \cup stale THEN @ ELSE @ + 1]
<1>1. pic \in PicState /\ pic' = SetIRQState(pic, i, TRUE)
  BY DEF HInv, HTypeOK, TypeOK, HRaiseLine, RaiseLine
<1>2. /\ pic'.pending = pic.pending \cup {i}
      /\ \/ pic'.fired = pic.fired /\ pic'.queued = pic.queued
         \/ \E k \in (pic.pending \cup {i}) \ pic.fired :
              pic'.fired = pic.fired \cup {k} /\ pic'.queued = pic.queued \cup {k}
  BY <1>1, RaiseEffect
<1>3. UNCHANGED <<stale, pc>>
  BY DEF HRaiseLine, RaiseLine, cpu
<1>4. \A j \in IRQ : counts[j] = (IF j \in pic.queued THEN 1 ELSE 0)
                               + (IF j \in pic'.pending \ pic.fired THEN 1 ELSE 0)
  BY <1>2 DEF Owed, HInv, FiredIsPending
<1>5. counts \in [IRQ -> Int]
  BY DEF Owed
<1>6. Promise!HandOver(counts)
  <2> HIDE DEF counts
  <2>1. CASE pic'.fired = pic.fired /\ pic'.queued = pic.queued
    <3>1. \A j \in IRQ : Owed(j)' = counts[j]
      BY <1>4, <2>1 DEF Owed
    <3> QED
      BY <1>5, <3>1, HandingOverMerges
  <2>2. ASSUME NEW k \in (pic.pending \cup {i}) \ pic.fired,
               pic'.fired = pic.fired \cup {k}, pic'.queued = pic.queued \cup {k}
        PROVE  Promise!HandOver(counts)
    <3>1. k \in IRQ
      BY <1>1 DEF PicState
    <3>2. Owed(k)' = 1 /\ counts[k] \in {1, 2}
      BY <1>2, <1>4, <2>2, <3>1 DEF Owed
    <3>3. \A j \in IRQ \ {k} : Owed(j)' = counts[j]
      BY <1>4, <2>2 DEF Owed
    <3> QED
      BY <1>5, <3>1, <3>2, <3>3, HandingOverMerges
  <2> QED
    BY <1>2, <2>1, <2>2
<1> QED
  BY <1>2, <1>3, <1>6 DEF Promise!Rise

LEMMA LowerKeepsPromise ==
  ASSUME HInv, NEW i \in IRQ, HLowerLine(i)
  PROVE  Promise!Fall(i)
<1> DEFINE owed == [j \in IRQ |-> Owed(j)]
           after == [j \in IRQ |-> Owed(j)']
<1>1. pic \in PicState /\ pic' = SetIRQState(pic, i, FALSE)
  BY DEF HInv, HTypeOK, TypeOK, HLowerLine, LowerLine
<1>2. /\ pic'.pending = pic.pending \ {i}
      /\ pic'.fired = pic.fired \ {i}
      /\ pic'.queued = pic.queued
  BY <1>1, LowerEffect
<1>3. stale' = stale \ {i} /\ pc' = pc
  BY DEF HLowerLine, LowerLine, cpu
<1>4. \A j \in IRQ \ {i} : Owed(j)' = owed[j]
  BY <1>2 DEF Owed
<1>5. CASE i \in pic.pending \ pic.fired
  <2>1. owed[i] > 0 /\ Owed(i)' = owed[i] - 1
    BY <1>2, <1>5 DEF Owed
  <2>2. after = [owed EXCEPT ![i] = @ - 1]
    BY <1>4, <2>1
  <2> QED
    BY <1>2, <1>3, <2>1, <2>2 DEF Promise!Fall
<1>6. CASE i \notin pic.pending \ pic.fired
  <2>1. Owed(i)' = owed[i]
    BY <1>2, <1>6 DEF Owed
  <2>2. after = owed
    BY <1>4, <2>1
  <2> QED
    BY <1>2, <1>3, <2>2 DEF Promise!Fall
<1> QED
  BY <1>5, <1>6

\* A store to the pending register withdraws the edges that were not handed over
\* and makes the lines deaf whose edges were.
LEMMA WritePendingKeepsPromise ==
  ASSUME HInv, NEW half, NEW value \in SUBSET Half(half),
         HGuestWritesPending(half, value)
  PROVE  \E S \in SUBSET IRQ : Promise!Poke(S)
<1> DEFINE owed == [j \in IRQ |-> Owed(j)]
           after == [j \in IRQ |-> Owed(j)']
           S == (pic.pending \ Half(half)) \cup value
           withdrawn == (pic.pending \ S) \ pic.fired
<1>1. pic \in PicState /\ pic' = WritePending(pic, half, value)
  BY DEF HInv, HTypeOK, TypeOK, HGuestWritesPending, GuestWritesPending
<1>2. pic'.fired = pic.fired /\ pic'.queued = pic.queued /\ pic'.pending = S
  BY <1>1, WritePendingEffect
<1>3. stale' = stale \cup (pic.fired \ S) /\ pc' = pc
  BY <1>2 DEF HGuestWritesPending, GuestWritesPending, cpu
<1>4. S \in SUBSET IRQ
  BY <1>1, HalfIsLines DEF PicState
<1>5. stale \subseteq pic.fired /\ pic.fired \subseteq pic.pending \cup stale
  BY DEF HInv, FiredIsPending
<1> HIDE DEF S
<1>6. /\ withdrawn \in SUBSET (pic.pending \ S)
      /\ \A j \in withdrawn : owed[j] > 0
  BY <1>1 DEF Owed, PicState
<1>7. stale' = stale \cup ((pic.pending \ S) \ withdrawn)
  BY <1>3, <1>5
<1>8. \A j \in IRQ : Owed(j)' = IF j \in (S \ pic.pending) \ stale THEN owed[j] + 1
                                ELSE IF j \in withdrawn THEN owed[j] - 1
                                ELSE owed[j]
  BY <1>2, <1>5 DEF Owed
<1>9. after = [j \in IRQ |-> IF j \in (S \ pic.pending) \ stale THEN owed[j] + 1
                             ELSE IF j \in withdrawn THEN owed[j] - 1
                             ELSE owed[j]]
  BY <1>8
<1>10. Promise!Poke(S)
  BY <1>2, <1>3, <1>6, <1>7, <1>9 DEF Promise!Poke
<1> QED
  BY <1>4, <1>10

LEMMA WriteMaskKeepsPromise ==
  ASSUME HInv, HInv', NEW half, NEW value \in SUBSET Half(half),
         HGuestWritesMask(half, value)
  PROVE  Promise!Unmask
<1> DEFINE owed == [j \in IRQ |-> Owed(j)]
<1>1. pic \in PicState /\ pic' = WriteMask(pic, half, value)
  BY DEF HInv, HTypeOK, TypeOK, HGuestWritesMask, GuestWritesMask
<1>2. /\ pic'.pending = pic.pending
      /\ \/ pic'.fired = pic.fired /\ pic'.queued = pic.queued
         \/ \E k \in pic.pending \ pic.fired :
              pic'.fired = pic.fired \cup {k} /\ pic'.queued = pic.queued \cup {k}
  BY <1>1, WriteMaskEffect
<1>3. UNCHANGED <<stale, pc>>
  BY DEF HGuestWritesMask, GuestWritesMask, hist, cpu
<1>4. owed \in [IRQ -> Int]
  BY DEF Owed
<1>5. Promise!HandOver(owed)
  <2>1. CASE pic'.fired = pic.fired /\ pic'.queued = pic.queued
    <3>1. \A j \in IRQ : Owed(j)' = owed[j]
      BY <1>2, <2>1 DEF Owed
    <3> HIDE DEF owed
    <3> QED
      BY <1>4, <3>1, HandingOverMerges
  <2>2. ASSUME NEW k \in pic.pending \ pic.fired,
               pic'.fired = pic.fired \cup {k}, pic'.queued = pic.queued \cup {k}
        PROVE  Promise!HandOver(owed)
    <3>1. k \in IRQ
      BY <1>1 DEF PicState
    <3>2. Owed(k)' = 1 /\ owed[k] \in {1, 2}
      BY <1>2, <2>2, <3>1 DEF Owed
    <3>3. \A j \in IRQ \ {k} : Owed(j)' = owed[j]
      BY <1>2, <2>2 DEF Owed
    <3> HIDE DEF owed
    <3> QED
      BY <1>4, <3>1, <3>2, <3>3, HandingOverMerges
  <2> QED
    BY <1>2, <2>1, <2>2
<1> QED
  BY <1>2, <1>3, <1>5 DEF Promise!Unmask

LEMMA TakeKeepsPromise ==
  ASSUME HInv, HTakeInterrupt
  PROVE  \E i \in IRQ : Promise!Enter(i)
<1> DEFINE owed == [j \in IRQ |-> Owed(j)]
           after == [j \in IRQ |-> Owed(j)']
<1>1. pic \in PicState /\ pic.queued # {}
      /\ pic' = [pic EXCEPT !.queued = @ \ {Cause}]
  BY DEF HInv, HTypeOK, TypeOK, HTakeInterrupt, TakeInterrupt
<1>2. /\ pic'.pending = pic.pending
      /\ pic'.fired = pic.fired
      /\ pic'.queued = pic.queued \ {Cause}
  BY <1>1, DequeueEffect
<1>3. PICK i \in IRQ : i = Cause /\ i \in pic.queued
  BY <1>1, CauseIsQueued DEF PicState
<1>4. stale' = stale /\ pc' = i
  BY <1>3 DEF HTakeInterrupt, TakeInterrupt
<1>5. owed[i] > 0 /\ Owed(i)' = owed[i] - 1
  BY <1>2, <1>3 DEF Owed
<1>6. \A j \in IRQ \ {i} : Owed(j)' = owed[j]
  BY <1>2, <1>3 DEF Owed
<1>7. after = [owed EXCEPT ![i] = @ - 1]
  BY <1>5, <1>6
<1>8. Promise!Enter(i)
  BY <1>2, <1>4, <1>5, <1>7 DEF Promise!Enter
<1> QED
  BY <1>8

LEMMA ResetKeepsPromise ==
  ASSUME HInv, HSoftReset
  PROVE  Promise!Reset
<1> DEFINE after == [j \in IRQ |-> Owed(j)']
<1>1. pic \in PicState /\ pic' = [IRQDeviceReset(pic) EXCEPT !.queued = {}]
  BY DEF HInv, HTypeOK, TypeOK, HSoftReset, SoftReset
<1>2. pic'.pending = {} /\ pic'.fired = pic.fired /\ pic'.queued = {}
  BY <1>1, ResetEffect
<1>3. stale' = stale \cup pic.fired /\ pc' = Main
  BY DEF HSoftReset, SoftReset
<1>4. after = [j \in IRQ |-> 0]
  BY <1>2 DEF Owed
<1> QED
  BY <1>2, <1>3, <1>4 DEF Promise!Reset, HInv, FiredIsPending

LEMMA StepKeepsPromise ==
  HInv /\ HInv' /\ [HNext]_hvars => [Promise!Next]_(Promise!dvars)
<1> SUFFICES ASSUME HInv, HInv', [HNext]_hvars
             PROVE  Promise!Next \/ UNCHANGED Promise!dvars
  OBVIOUS
<1>1. ASSUME UNCHANGED <<pic, stale>> PROVE UNCHANGED [j \in IRQ |-> Owed(j)]
  BY <1>1 DEF Owed
<1>2. ASSUME NEW b \in BOOLEAN, HGuestWritesIen(b) PROVE UNCHANGED Promise!dvars
  BY <1>1, <1>2 DEF HGuestWritesIen, GuestWritesIen, hist, Promise!dvars
<1>3. CASE HRte
  <2>1. UNCHANGED <<pic, stale>> /\ pc' = cr5 /\ cr5 \in IRQ \cup {Main}
    BY <1>3 DEF HRte, Rte, hist, HInv, HTypeOK, TypeOK
  <2> QED
    BY <1>1, <2>1 DEF Promise!Next, Promise!Return
<1>4. CASE UNCHANGED hvars
  BY <1>1, <1>4 DEF hvars, vars, cpu, hist, Promise!dvars
<1> QED
  BY <1>2, <1>3, <1>4, RaiseKeepsPromise, LowerKeepsPromise, WritePendingKeepsPromise,
     WriteMaskKeepsPromise, TakeKeepsPromise, ResetKeepsPromise
  DEF HNext, Promise!Next

\* The controller, the queue and the CPU implement Delivery, for any set of lines.
THEOREM PromiseIsKept == HSpec => ImplementsDelivery
<1>1. HInit => Promise!Init
  <2> SUFFICES ASSUME HInit PROVE Promise!Init
    OBVIOUS
  <2>1. pic.pending = {} /\ pic.fired = {} /\ pic.queued = {} /\ stale = {} /\ pc = Main
    BY DEF HInit, Init, PicInit
  <2> QED
    BY <2>1 DEF Promise!Init, Owed
<1> QED
  BY <1>1, StepKeepsPromise, HistoryInvariant, PTL DEF HSpec, ImplementsDelivery, Promise!Spec
==============================================================================
