-------------------------- MODULE InterruptHistory ---------------------------
(***************************************************************************)
(* Interrupts with history variables that count what the lines did: they   *)
(* relate each interrupt the CPU enters to an edge of its line.            *)
(***************************************************************************)
EXTENDS Interrupts

CONSTANT EdgeCap    \* the count of edges saturates here

ASSUME EdgeCapAssumption == EdgeCap \in Nat /\ EdgeCap >= 2

VARIABLES
  edges,    \* rising edges of a line that no delivery has used yet
  fresh,    \* lines that rose after their last delivery
  stale     \* lines whose pending bit was cleared behind intsFired

hist == <<edges, fresh, stale>>
hvars == <<vars, hist>>

HTypeOK ==
  /\ TypeOK
  /\ edges \in [IRQ -> 0..EdgeCap]
  /\ fresh \subseteq IRQ
  /\ stale \subseteq IRQ

HInit ==
  /\ Init
  /\ edges = [i \in IRQ |-> 0]
  /\ fresh = {}
  /\ stale = {}

\* What a step of the controller does to the counts.
Rising == pic'.pending \ pic.pending

CountEdges ==
  /\ edges' = [i \in IRQ |-> IF i \in Rising /\ edges[i] < EdgeCap
                             THEN edges[i] + 1 ELSE edges[i]]
  /\ fresh' = fresh \cup Rising

HRaiseLine(i) == RaiseLine(i) /\ CountEdges /\ UNCHANGED stale

HLowerLine(i) == LowerLine(i) /\ stale' = stale \ {i} /\ UNCHANGED <<edges, fresh>>

HGuestWritesPending(half, value) ==
  /\ GuestWritesPending(half, value)
  /\ CountEdges
  /\ stale' = stale \cup (pic.fired \ pic'.pending)

HGuestWritesMask(half, value) == GuestWritesMask(half, value) /\ UNCHANGED hist

HGuestWritesIen(b) == GuestWritesIen(b) /\ UNCHANGED hist

\* A delivery uses up one edge.
HTakeInterrupt ==
  /\ TakeInterrupt
  /\ edges' = [edges EXCEPT ![Cause] = IF @ > 0 THEN @ - 1 ELSE 0]
  /\ fresh' = fresh \ {Cause}
  /\ UNCHANGED stale

HRte == Rte /\ UNCHANGED hist

HSoftReset ==
  /\ SoftReset
  /\ edges' = [i \in IRQ |-> 0]
  /\ fresh' = {}
  /\ stale' = stale \cup pic.fired

HNext ==
  \/ \E i \in IRQ : HRaiseLine(i) \/ HLowerLine(i)
  \/ \E half \in {"L", "H"} : \E value \in SUBSET Half(half) :
       HGuestWritesPending(half, value) \/ HGuestWritesMask(half, value)
  \/ \E b \in BOOLEAN : HGuestWritesIen(b)
  \/ HTakeInterrupt
  \/ HRte
  \/ HSoftReset

HSpec == HInit /\ [][HNext]_hvars

\* The main loop calls step() for ever, and one device's tick raises its line
\* again and again, as the vblank and timer ticks do while they are enabled.
HLiveSpec ==
  HSpec /\ WF_hvars(HTakeInterrupt) /\ WF_hvars(HRaiseLine(TickLine))

------------------------------------------------------------------------------
\* Every interrupt the CPU is going to enter is paid for by a rising edge of
\* its line that no earlier delivery has used (intsFired in ProcessInterrupts,
\* the queue bits in step): no edge is delivered twice, whatever the order of
\* raising, masking, acknowledging, entering and resetting.
EachDeliveryHasAnEdge == \A i \in pic.queued : edges[i] >= 1

\* A line that rose and was not delivered since is never forgotten: either
\* ProcessInterrupts can still hand it over or the CPU has it queued.  The one
\* exception is a line whose pending bit a soft reset or a guest's store to the
\* pending register cleared behind intsFired, until it is next acknowledged.
NoSilentLoss ==
  \A i \in (fresh \cap pic.pending) \ stale : i \in pic.fired => i \in pic.queued

------------------------------------------------------------------------------
\* The invariant that makes the two inductive.  An edge is owed to each queued
\* interrupt and, separately, to each pending line not handed over yet: a line
\* acknowledged and raised again before the CPU looks at its queue is both.
Owed(i) == (IF i \in pic.queued THEN 1 ELSE 0)
         + (IF i \in pic.pending \ pic.fired THEN 1 ELSE 0)

EdgesCoverOwed == \A i \in IRQ : Owed(i) <= edges[i]

\* intsFired stays within the pending bits, the stale lines apart, and those
\* are fired.
FiredIsPending == stale \subseteq pic.fired /\ pic.fired \subseteq pic.pending \cup stale

HInv == HTypeOK /\ EdgesCoverOwed /\ FiredIsPending /\ NoSilentLoss

------------------------------------------------------------------------------
\* The controller, the queue and the CPU together keep the promises of Delivery:
\* an edge is owed once while a line is up and not handed over, and once while
\* its bit is queued.
Promise == INSTANCE Delivery WITH
  Code <- IRQ \cup {Main}, level <- pic.pending, deaf <- stale, code <- pc,
  owed <- [i \in IRQ |-> Owed(i)]

ImplementsDelivery == Promise!Spec

\* A queued interrupt is entered, provided the guest enables interrupts again
\* and again and the lower numbers, which step() prefers, stop coming.
QueuedIsEntered ==
  \A i \in IRQ :
    ([]<>ien /\ <>[][~(TakeInterrupt /\ Cause < i)]_vars)
      => (i \in pic.queued ~> i \notin pic.queued)

\* ProcessInterrupts hands over one interrupt per call and nobody calls it for
\* the lines left waiting behind the one it served.  A line above one that keeps
\* being raised is rescued while the guest leaves masks and pending bits alone:
\* each call serves the highest number that waits, and a line that was served
\* waits no more.  A line below it is not: it may wait for ever.
WaitingIsRescued ==
  (<>[][DriverNext /\ pic'.mask = pic.mask]_vars)
    => \A i \in IRQ :
         (i > TickLine /\ i \in Waiting(pic)) ~> i \notin Waiting(pic)
==============================================================================
