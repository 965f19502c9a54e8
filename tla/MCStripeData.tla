---------------------------- MODULE MCStripeData ----------------------------
(* Two data chunks of four units, two units to a sector, three stripes:    *)
(* each device holds each kind of chunk once.                              *)
EXTENDS StripeData

P(o, n) == [off |-> o, len |-> n]

(* Full stripes, a whole chunk, the end of a chunk, a piece across the two *)
(* chunks of a stripe.                                                     *)
SomePieces ==
  {P(0, 8), P(8, 8), P(0, 4), P(6, 2), P(10, 4), P(20, 4)}

OtherPieces == {P(4, 2), P(12, 4), P(18, 2)}

(* A stripe, a part of a chunk, and two chunks of different stripes.       *)
SomeReads == {P(0, 8), P(10, 2), P(4, 8)}

=============================================================================
