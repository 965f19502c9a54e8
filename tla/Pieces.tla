------------------------------- MODULE Pieces -------------------------------
(***************************************************************************)
(* How a user request is cut, in closed form: one piece per stripe it      *)
(* touches (StorageMod::split_stripe_aligned) and one part per chunk a     *)
(* piece touches (StorageMod::split_chunk2dio).  Module Split has the      *)
(* loops of the code and checks that they compute these.                   *)
(***************************************************************************)
EXTENDS Layout, FiniteSets, FiniteSetsExt

(* A request and a piece of one are records [off, len] of user addresses.  *)

NumPieces(r) ==
  user2stripe(r.off + r.len - 1) - user2stripe(r.off) + 1

(* The part of r in the k-th stripe it touches.                            *)
Piece(r, k) ==
  LET first == user2stripe(r.off)
      soff == IF k = 0 THEN r.off ELSE stripe2useroff(first + k)
      eoff == IF k = NumPieces(r) - 1 THEN r.off + r.len
              ELSE stripe2useroff(first + k + 1)
  IN  [off |-> soff, len |-> eoff - soff]

(* The parts of the piece p, one per chunk.                                *)
Chunks(p) ==
  LET eoff == p.off + p.len
      InChunk(c) == LET s == Max({p.off, c * SCHUNK_SIZE})
                        e == Min({eoff, (c + 1) * SCHUNK_SIZE})
                    IN  [off |-> s, len |-> e - s]
  IN  {InChunk(c) : c \in p.off \div SCHUNK_SIZE .. (eoff - 1) \div SCHUNK_SIZE}

=============================================================================
