--------------------------- MODULE MCEfTransactions ---------------------------
(***************************************************************************)
(* Orders for TLC: three for the same lamps, of which two are all there    *)
(* is. One also returns a pen, of which there is less than none, one takes *)
(* no desk, and one takes a lamp too many at first, and returns a desk.    *)
(* Desks are added later.                                                  *)
(***************************************************************************)
EXTENDS EfTransactions, TLC

CONSTANTS r1, r2, r3

One(n) == [quantity |-> n, most |-> n]

\* The lamps of r3 are an item of two and one of -1.
Ordered ==
  r1 :> [lamp |-> One(1), pen |-> One(-1)] @@
  r2 :> [lamp |-> One(1), desk |-> One(0)] @@
  r3 :> [lamp |-> [quantity |-> 1, most |-> 2], desk |-> One(-1)]

InStock == [lamp |-> 2, pen |-> -1, desk |-> 0]
=============================================================================
