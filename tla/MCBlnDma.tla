------------------------------ MODULE MCBlnDma -------------------------------
(* Rectangles of up to six pixels in twelve halfwords of memory.             *)
EXTENDS BlnDma, TLC

\* Colours with and without the alpha bit, white, and two that wrap when added.
c0 == \h8421
c1 == \h7FFF
c2 == \h4210
c3 == \h03E0
c4 == \hF81F

Shades == <<c0, c1, c2, c3, c4>>
Stripes(k) == [at \in 0..11 |-> Shades[1 + (((at * k) \div 2) % 5)]]
MCPictures == {Stripes(1), Stripes(3)}

Linear(at) == [block |-> FALSE, first |-> at]
InBlock == [block |-> TRUE, first |-> 0]

Plain == [mode |-> "idle", w |-> 2, h |-> 2,
          a |-> Linear(6), b |-> Linear(8), d |-> Linear(0),
          block |-> [base |-> 1, w |-> 3, h |-> 3, offx |-> 1, offy |-> 1],
          keyed |-> FALSE, key |-> c1, argb |-> FALSE, alpha |-> FALSE,
          descramble |-> FALSE, sub |-> FALSE, fill |-> c2, fa |-> 0, fb |-> 0]

Copies ==
  {[Plain EXCEPT !.mode = "copy", !.w = w, !.a = Linear(a), !.d = Linear(d)] :
     w \in {2, 3}, a \in {2, 5}, d \in {0, 3, 6}}
HidingCopies ==
  {[Plain EXCEPT !.mode = "copy", !.keyed = k, !.argb = g, !.alpha = TRUE] :
     k \in BOOLEAN, g \in BOOLEAN}
Descrambles ==
  {[Plain EXCEPT !.mode = "copy", !.descramble = TRUE, !.w = w, !.a = Linear(0),
                 !.d = Linear(d)] : w \in {1, 2}, d \in {0, 7}}
BlockTransfers ==
  {[Plain EXCEPT !.mode = m, !.h = 3, !.a = a, !.b = Linear(6),
                 !.d = d, !.fa = 32] :
     m \in {"copy", "blend", "fill"}, a \in {Linear(6), InBlock},
     d \in {Linear(0), InBlock}}
Blends ==
  {[Plain EXCEPT !.mode = "blend", !.sub = s, !.fa = f[1], !.fb = f[2], !.argb = g,
                 !.alpha = g] :
     s \in BOOLEAN, f \in {<<32, 32>>, <<63, 0>>, <<63, 63>>}, g \in BOOLEAN}
Fills ==
  {[Plain EXCEPT !.mode = "fill", !.keyed = TRUE, !.argb = TRUE, !.alpha = TRUE, !.fill = c] :
     c \in {c0, c1}}

MCTransfers ==
  {Plain} \cup Copies \cup HidingCopies \cup Descrambles \cup BlockTransfers
          \cup Blends \cup Fills
==============================================================================
