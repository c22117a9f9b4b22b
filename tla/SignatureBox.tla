----------------------------- MODULE SignatureBox -----------------------------
(***************************************************************************)
(* Where the visible signature is drawn (PAdESService._page_box_value and  *)
(* _visible_signature_box): on the last page of the document, in the lower *)
(* right corner of its crop box, or of its media box if it has none.  Page *)
(* boxes are inherited through the page tree.                              *)
(*                                                                         *)
(* Page coordinates are hundredths of a point.  The margin, 4 % of a side, *)
(* is then a whole number of units of 1/2500 point.  The rounding of the   *)
(* floating-point operations is left out.                                  *)
(***************************************************************************)
EXTENDS Integers, Sequences

CONSTANTS
  Boxes,      \* rectangles in the files
  Absent,     \* the node has no such entry
  Malformed   \* not four numbers

ASSUME BoxAssumption ==
  /\ Boxes \subseteq [x1: Int, y1: Int, x2: Int, y2: Int]
  /\ Absent # Malformed
  /\ {Absent, Malformed} \cap Boxes = {}

Point == 2500                 \* units
SignatureWidth == 250         \* points: VISIBLE_SIGNATURE_WIDTH
SignatureHeight == 110        \* VISIBLE_SIGNATURE_HEIGHT
SignatureMargin == 18 * Point \* VISIBLE_SIGNATURE_MARGIN
MinimumSide == 400            \* page_width < 4

Least(a, b) == IF a <= b THEN a ELSE b
Most(a, b) == IF a >= b THEN a ELSE b

\* math.floor and math.ceil of a length in units, in points.
Floor(x) == x \div Point
Ceil(x) == - ((- x) \div Point)

Entry == Boxes \cup {Absent, Malformed}

\* A page, or one of its ancestors in the page tree.
Nodes == [crop: Entry, media: Entry]

-----------------------------------------------------------------------------
(* The box of a page.                                                      *)

\* The first node of the path from the page to the root that has the entry
\* decides, also when its value is of no use.
PageBoxValue(path, key) ==
  LET Has == {i \in DOMAIN path : path[i][key] # Absent} IN
  IF Has = {} THEN Absent
  ELSE path[CHOOSE i \in Has : \A j \in Has : i <= j][key]

\* PageBoxValue(path, "crop") or PageBoxValue(path, "media")
PageBox(path) ==
  IF PageBoxValue(path, "crop") \in Boxes THEN PageBoxValue(path, "crop")
                                          ELSE PageBoxValue(path, "media")

Left(b) == Least(b.x1, b.x2)
Right(b) == Most(b.x1, b.x2)
Bottom(b) == Least(b.y1, b.y2)
Top(b) == Most(b.y1, b.y2)

-----------------------------------------------------------------------------
(* The signature in it.                                                    *)

\* 18 points, and at most 4 % of each side or one point.
Margin(w, h) ==
  Least(SignatureMargin, Least(Most(Point, w), Most(Point, h)))

\* The points of one side between the margins.
Limits(low, high, margin) ==
  [low |-> Ceil(25 * low + margin), high |-> Floor(25 * high - margin)]

Refused == [refused |-> TRUE]

\* The lower right corner, no wider and no higher than there is room.
Place(x, y) ==
  [left |-> x.high - Least(SignatureWidth, x.high - x.low),
   bottom |-> y.low,
   right |-> x.high,
   top |-> y.low + Least(SignatureHeight, y.high - y.low)]

SignatureBoxIn(b) ==
  LET w == Right(b) - Left(b)
      h == Top(b) - Bottom(b)
      x == Limits(Left(b), Right(b), Margin(w, h))
      y == Limits(Bottom(b), Top(b), Margin(w, h))
  IN
  IF \/ w < MinimumSide \/ h < MinimumSide
     \/ x.high <= x.low \/ y.high <= y.low
    THEN Refused
    ELSE Place(x, y)

\* _visible_signature_box: no usable page box is refused too.
VisibleSignatureBox(path) ==
  IF PageBox(path) \in Boxes THEN SignatureBoxIn(PageBox(path)) ELSE Refused

=============================================================================
