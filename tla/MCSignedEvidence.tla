--------------------------- MODULE MCSignedEvidence ---------------------------
(* Instances of SignedEvidence for TLC. *)
EXTENDS SignedEvidence, TLC

CONSTANTS k1, k2, certA, certB, renewedA, tsa1, tsa2, ca, tsaCa,
          c1, c2, c3

\* certA and its renewal are of one key.
MCKeyOf == (certA :> k1) @@ (renewedA :> k1) @@ (certB :> k2)

MCIssuerOf == (certA :> ca) @@ (renewedA :> ca) @@ (certB :> ca)
                @@ (tsa1 :> tsaCa) @@ (tsa2 :> ca)

\* An A4 page, a strip of 25 points by 4 with swapped corners, and a page of
\* less than 4 points.
MCA4 == [x1 |-> 0, y1 |-> 0, x2 |-> 59528, y2 |-> 84189]
MCStrip == [x1 |-> 2533, y1 |-> 350, x2 |-> 33, y2 |-> -50]
MCTiny == [x1 |-> 0, y1 |-> 0, x2 |-> 59528, y2 |-> 399]

MCBoxes == {MCA4, MCStrip, MCTiny}

\* c1 inherits its box, c2 has a crop box of its own, c3 is refused: its crop
\* box is of no use and its media box too low.
MCPageOf ==
  LET Page(crop, media) == [crop |-> crop, media |-> media] IN
  (c1 :> <<Page(Absent, Absent), Page(Absent, MCA4)>>)
    @@ (c2 :> <<Page(MCStrip, MCA4)>>)
    @@ (c3 :> <<Page(Malformed, Absent), Page(MCA4, MCTiny)>>)

===============================================================================
