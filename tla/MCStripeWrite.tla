---------------------------- MODULE MCStripeWrite ----------------------------
(* Small instances of StripeWrite: two data chunks of one unit per stripe. *)
EXTENDS StripeWrite, TLC

Symmetry == Permutations(Threads)

Req(o, n) == [off |-> o, len |-> n]

(* Pieces of one chunk, in two stripes: partial-stripe writes only.        *)
PartialRequests == {Req(0, 1), Req(3, 1)}

(* Always the same chunk.                                                 *)
OneChunk == {Req(0, 1)}

(* One stripe per request, the second one a full stripe.                   *)
SingleStripeRequests == {Req(0, 1), Req(2, 2)}

(* A request that crosses from stripe 0 to stripe 1, a full stripe, a part *)
(* of a stripe.                                                            *)
MixedRequests == {Req(1, 2), Req(0, 2), Req(2, 1)}

=============================================================================
