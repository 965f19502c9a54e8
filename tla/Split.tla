-------------------------------- MODULE Split --------------------------------
(***************************************************************************)
(* The splitting of a user request into device I/Os, loop by loop, as      *)
(* StorageMod does it.  A write is cut at stripe boundaries                *)
(* (split_stripe_aligned, called by raid_write_direct); for each piece     *)
(* raid_write clears the bits of its blocks (split_block, BLK_Bitmap) and  *)
(* cuts the piece at chunk boundaries (split_chunk2dio).  A read is cut at *)
(* stripe boundaries and then into runs of SCHUNK_SIZE (split_schunk,      *)
(* called by raid_read).                                                   *)
(*                                                                         *)
(* One action is one iteration of a loop of the code, or the code between  *)
(* two loops.  Lengths and offsets are uint64_t: subtraction is modulo     *)
(* WORD.  Buffers are offsets into the buffer of the request.  One request *)
(* is split; nothing is shared, so that several at a time would show no    *)
(* more.                                                                   *)
(***************************************************************************)
EXTENDS Pieces, Sequences, SequencesExt

CONSTANTS BLK_SIZE,   \* units of a block of the bitmap
          WORD,       \* 2^64
          Requests    \* the requests that are split, [off, len]

ASSUME SplitAssumption ==
  /\ BLK_SIZE \in Nat \ {0}
  /\ SCHUNK_SIZE % BLK_SIZE = 0
  /\ WORD \in Nat \ {0}
  /\ \A r \in Requests :
       /\ r.off \in Nat /\ r.len \in Nat \ {0}
       /\ r.off % BLK_SIZE = 0 /\ r.len % BLK_SIZE = 0
       /\ r.off + r.len + SSTRIPE_DATASIZE < WORD

VARIABLES
  uio, is_write,                       \* the request
  phase,                               \* the loop that runs
  ck,                                  \* the piece that is cut, from 1
  i, last,                             \* the loop's counter and its last value
  start_off, start_buf, remain_len,    \* the loop's cursors
  stripes,                             \* what split_stripe_aligned returned
  blocks,                              \* the blocks whose bits are reset
  dios                                 \* the device I/Os, in order

cursors == <<i, last, start_off, start_buf, remain_len>>
vars == <<uio, is_write, phase, ck, cursors, stripes, blocks, dios>>

Minus(a, b) == (a - b) % WORD

(* What is left of the current stripe or chunk, or the rest of the request *)
(* when that is less.                                                      *)
Upto(len) == IF remain_len > len THEN len ELSE remain_len

(* The device positions of a piece's first and last unit; the last one is  *)
(* past NUM_DEVFILES when the piece wraps around the devices.              *)
FirstPos(p) == user2dev(p.off).dev
LastPos(p) == LET e == user2dev(p.off + p.len - 1).dev
              IN  IF e < FirstPos(p) THEN e + NUM_DEVFILES ELSE e

Dio(dev, off, len, buf) == [dev |-> dev, off |-> off, len |-> len, buf |-> buf]

-----------------------------------------------------------------------------
(* Steps as a plausible mistake would make them; no specification uses     *)
(* them.                                                                   *)

(* Every stripe is taken to have a whole stripe left.                      *)
SplitStripe_Whole ==
  /\ phase = "stripes" /\ i <= last
  /\ stripes' = Append(stripes, [off |-> start_off, buf |-> start_buf,
                                 len |-> Upto(SSTRIPE_DATASIZE)])
  /\ remain_len' = Minus(remain_len, SSTRIPE_DATASIZE)
  /\ start_off' = start_off + SSTRIPE_DATASIZE
  /\ start_buf' = start_buf + SSTRIPE_DATASIZE
  /\ i' = i + 1
  /\ UNCHANGED <<uio, is_write, phase, ck, last, blocks, dios>>

(* A signed length.                                                        *)
SplitStripe_Signed ==
  LET this_len == stripe2useroff(i) + SSTRIPE_DATASIZE - start_off IN
  /\ phase = "stripes" /\ i <= last
  /\ stripes' = Append(stripes, [off |-> start_off, buf |-> start_buf,
                                 len |-> Upto(this_len)])
  /\ remain_len' = remain_len - this_len
  /\ start_off' = start_off + this_len
  /\ start_buf' = start_buf + this_len
  /\ i' = i + 1
  /\ UNCHANGED <<uio, is_write, phase, ck, last, blocks, dios>>

(* The device position is not wrapped.                                     *)
SplitChunk_NoWrap ==
  LET p == stripes[ck]
      s == user2stripe(p.off)
      eoff == stripe2useroff(s) + SCHUNK_SIZE *
                (logical_distance(stripe2datapos(s), i, NUM_DEVFILES) + 1)
  IN
  /\ phase = "chunks" /\ i <= last
  /\ dios' = Append(dios, Dio(i, user2dev(start_off).off,
                              Upto(eoff - start_off), p.buf + start_buf))
  /\ remain_len' = Minus(remain_len, eoff - start_off)
  /\ start_off' = eoff
  /\ start_buf' = start_buf + Upto(eoff - start_off)
  /\ i' = i + 1
  /\ UNCHANGED <<uio, is_write, phase, ck, last, stripes, blocks>>

(* The buffer does not advance with the address.                           *)
SplitSchunk_SameBuf ==
  /\ phase = "schunks" /\ i <= last
  /\ LET at == user2dev(start_off) IN
     dios' = Append(dios, Dio(at.dev, at.off, Upto(SCHUNK_SIZE), start_buf))
  /\ IF remain_len > SCHUNK_SIZE
     THEN /\ remain_len' = remain_len - SCHUNK_SIZE
          /\ start_off' = start_off + SCHUNK_SIZE
     ELSE UNCHANGED <<remain_len, start_off>>
  /\ i' = i + 1
  /\ UNCHANGED <<uio, is_write, phase, ck, last, start_buf, stripes, blocks>>

(* i < total_length / BLK_SIZE - 1: the last block is missed.              *)
ResetBlock_OffByOne ==
  /\ phase = "blocks" /\ i <= last
  /\ blocks' = IF i < last THEN Append(blocks, start_off \div BLK_SIZE) ELSE blocks
  /\ start_off' = start_off + BLK_SIZE
  /\ start_buf' = start_buf + BLK_SIZE
  /\ i' = i + 1
  /\ UNCHANGED <<uio, is_write, phase, ck, last, remain_len, stripes, dios>>

-----------------------------------------------------------------------------
Init ==
  /\ uio \in Requests
  /\ is_write \in BOOLEAN
  /\ phase = "stripes"
  /\ ck = 0
  /\ i = user2stripe(uio.off)
  /\ last = user2stripe(uio.off + uio.len - 1)
  /\ start_off = uio.off
  /\ start_buf = 0
  /\ remain_len = uio.len
  /\ stripes = <<>>
  /\ blocks = <<>>
  /\ dios = <<>>

(* One iteration of split_stripe_aligned.                                  *)
SplitStripe ==
  LET this_len == stripe2useroff(i) + SSTRIPE_DATASIZE - start_off IN
  /\ phase = "stripes" /\ i <= last
  /\ stripes' = Append(stripes, [off |-> start_off, buf |-> start_buf,
                                 len |-> Upto(this_len)])
  /\ remain_len' = Minus(remain_len, this_len)
  /\ start_off' = start_off + this_len
  /\ start_buf' = start_buf + this_len
  /\ i' = i + 1
  /\ UNCHANGED <<uio, is_write, phase, ck, last, blocks, dios>>

(* The next piece: raid_write calls split_block, which aligns the piece to *)
(* blocks; split_schunk sets up its inner loop.                            *)
NextPiece ==
  /\ phase \in {"stripes", "chunks", "schunks"} /\ i > last
  /\ ck < Len(stripes)
  /\ ck' = ck + 1
  /\ LET p == stripes[ck + 1]
         total_length == IF p.len % BLK_SIZE = 0 THEN p.len
                         ELSE p.len + BLK_SIZE - (p.len % BLK_SIZE)
     IN  IF is_write
         THEN /\ phase' = "blocks"
              /\ i' = 0
              /\ last' = total_length \div BLK_SIZE - 1
              /\ start_off' = p.off - (p.off % BLK_SIZE)
              /\ start_buf' = p.buf
              /\ remain_len' = total_length
         ELSE /\ phase' = "schunks"
              /\ i' = FirstPos(p)
              /\ last' = LastPos(p)
              /\ start_off' = p.off
              /\ start_buf' = p.buf
              /\ remain_len' = p.len
  /\ UNCHANGED <<uio, is_write, stripes, blocks, dios>>

(* One block of split_block, and BLK_Bitmap::reset of its bit.             *)
ResetBlock ==
  /\ phase = "blocks" /\ i <= last
  /\ blocks' = Append(blocks, start_off \div BLK_SIZE)
  /\ start_off' = start_off + BLK_SIZE
  /\ start_buf' = start_buf + BLK_SIZE
  /\ i' = i + 1
  /\ UNCHANGED <<uio, is_write, phase, ck, last, remain_len, stripes, dios>>

(* raid_write goes on to split_chunk2dio.                                  *)
EnterChunks ==
  /\ phase = "blocks" /\ i > last
  /\ phase' = "chunks"
  /\ LET p == stripes[ck]
     IN  /\ i' = FirstPos(p)
         /\ last' = LastPos(p)
         /\ start_off' = p.off
         /\ start_buf' = 0
         /\ remain_len' = p.len
  /\ UNCHANGED <<uio, is_write, ck, stripes, blocks, dios>>

(* One iteration of split_chunk2dio.                                       *)
SplitChunk ==
  LET p == stripes[ck]
      s == user2stripe(p.off)
      eoff == stripe2useroff(s) + SCHUNK_SIZE *
                (logical_distance(stripe2datapos(s), i, NUM_DEVFILES) + 1)
  IN
  /\ phase = "chunks" /\ i <= last
  /\ dios' = Append(dios, Dio(Wrap(i), user2dev(start_off).off,
                              Upto(eoff - start_off), p.buf + start_buf))
  /\ remain_len' = Minus(remain_len, eoff - start_off)
  /\ start_off' = eoff
  /\ start_buf' = start_buf + Upto(eoff - start_off)
  /\ i' = i + 1
  /\ UNCHANGED <<uio, is_write, phase, ck, last, stripes, blocks>>

(* One iteration of the inner loop of split_schunk, with the s_uio2id_dio  *)
(* that raid_read applies to what it returned.                             *)
SplitSchunk ==
  /\ phase = "schunks" /\ i <= last
  /\ LET at == user2dev(start_off) IN
     dios' = Append(dios, Dio(at.dev, at.off, Upto(SCHUNK_SIZE), start_buf))
  /\ IF remain_len > SCHUNK_SIZE
     THEN /\ remain_len' = remain_len - SCHUNK_SIZE
          /\ start_off' = start_off + SCHUNK_SIZE
          /\ start_buf' = start_buf + SCHUNK_SIZE
     ELSE UNCHANGED <<remain_len, start_off, start_buf>>
  /\ i' = i + 1
  /\ UNCHANGED <<uio, is_write, phase, ck, last, stripes, blocks>>

Return ==
  /\ phase \in {"stripes", "chunks", "schunks"} /\ i > last
  /\ ck = Len(stripes)
  /\ phase' = "done"
  /\ UNCHANGED <<uio, is_write, ck, cursors, stripes, blocks, dios>>

Finished == phase = "done" /\ UNCHANGED vars

Next == \/ SplitStripe \/ NextPiece \/ ResetBlock \/ EnterChunks \/ SplitChunk
        \/ SplitSchunk \/ Return \/ Finished

Spec == Init /\ [][Next]_vars

-----------------------------------------------------------------------------
(* Properties.                                                             *)

TypeOK ==
  /\ uio \in Requests /\ is_write \in BOOLEAN
  /\ phase \in {"stripes", "blocks", "chunks", "schunks", "done"}
  /\ ck \in 0 .. Len(stripes)
  /\ {i, last, start_off, start_buf} \subseteq Nat
  /\ remain_len \in 0 .. WORD - 1
  /\ \A p \in ToSet(stripes) : {p.off, p.len, p.buf} \subseteq Nat
  /\ \A d \in ToSet(dios) : d.dev \in Nat /\ {d.off, d.len, d.buf} \subseteq Nat

(* While a loop of split_stripe_aligned or split_chunk2dio has another     *)
(* iteration to do, what remains is what lies between the cursor and the   *)
(* end: the subtraction wraps around only where nobody reads the result.   *)
RemainExact ==
  /\ phase = "stripes" /\ i <= last =>
       /\ remain_len > 0
       /\ start_off + remain_len = uio.off + uio.len
       /\ start_buf = start_off - uio.off
  /\ phase = "chunks" /\ i <= last =>
       /\ remain_len > 0
       /\ start_off + remain_len = stripes[ck].off + stripes[ck].len
       /\ start_buf = start_off - stripes[ck].off

(* split_stripe_aligned returns the pieces of the closed form, in order,   *)
(* each with the part of the buffer that belongs to it, and the two        *)
(* assertions stripeid_s == stripeid_e hold of each.                       *)
PiecesExact ==
  ck > 0 =>
    /\ stripes = [k \in 1 .. NumPieces(uio) |->
                    LET p == Piece(uio, k - 1)
                    IN  [off |-> p.off, len |-> p.len, buf |-> p.off - uio.off]]
    /\ \A p \in ToSet(stripes) :
         user2stripe(p.off) = user2stripe(p.off + p.len - 1)

(* The device cells an I/O touches, each with the place in the buffer.     *)
Cells(d) == {<<d.dev, d.off + k, d.buf + k>> : k \in 0 .. d.len - 1}

(* The device cells alone.                                                 *)
Places(d) == {<<d.dev, d.off + k>> : k \in 0 .. d.len - 1}

(* Every unit of the request goes, once, where user2dev places it, from or *)
(* to its own place in the buffer, and nothing else is touched.            *)
SplitExact ==
  phase = "done" =>
    /\ UNION {Cells(d) : d \in ToSet(dios)} =
         {<<user2dev(a).dev, user2dev(a).off, a - uio.off>> :
            a \in uio.off .. uio.off + uio.len - 1}
    /\ \A m, n \in DOMAIN dios :
         m # n => Places(dios[m]) \intersect Places(dios[n]) = {}

(* A write is split exactly, and into the I/Os of the closed form: one per *)
(* chunk (raid_write_direct, raid_write, split_chunk2dio).                 *)
WriteExact ==
  is_write =>
    /\ SplitExact
    /\ phase = "done" =>
         ToSet(dios) =
           {Dio(user2dev(c.off).dev, user2dev(c.off).off, c.len, c.off - uio.off) :
              c \in UNION {Chunks(Piece(uio, k)) : k \in 0 .. NumPieces(uio) - 1}}

(* A read that starts at a chunk boundary is split exactly.                *)
AlignedReadExact == ~is_write /\ uio.off % SCHUNK_SIZE = 0 => SplitExact

(* A replayed read returns the data of the blocks it names, wherever it    *)
(* starts.                                                                 *)
ReadExact == ~is_write => SplitExact

(* A write resets the bits of the blocks it writes, in order, and no other *)
(* bit (raid_write, split_block).                                          *)
BlocksExact ==
  is_write /\ phase = "done" =>
    blocks = [k \in 1 .. uio.len \div BLK_SIZE |-> uio.off \div BLK_SIZE + k - 1]

=============================================================================
