----------------------------- MODULE SplitProofs -----------------------------
(***************************************************************************)
(* Proofs about Split for every geometry and every set of requests: the    *)
(* loops of split_stripe_aligned, split_block, split_chunk2dio and         *)
(* split_schunk compute the closed forms of module Pieces.  All of them    *)
(* walk the chunks of the request in order, so that the device I/Os done   *)
(* so far are always the first ones of one sequence, one I/O per chunk.    *)
(***************************************************************************)
EXTENDS Split, LayoutProofs

-----------------------------------------------------------------------------
(* The device positions split_chunk2dio and split_schunk walk over: one    *)
(* per chunk, counted from the piece's first one; logical_distance finds   *)
(* the chunk back, also when the position has passed the last device.      *)
LEMMA Positions ==
  ASSUME NEW a \in Nat, NEW b \in Nat, a <= b,
         user2stripe(a) = user2stripe(b),
         NEW c \in ChunkOf(a) .. ChunkOf(b)
  PROVE  LET first == user2dev(a).dev
             e == user2dev(b).dev
             last_pos == IF e < first THEN e + NUM_DEVFILES ELSE e
             pos == first + (c - ChunkOf(a))
             s == user2stripe(a)
         IN  /\ first \in Nat /\ last_pos = first + (ChunkOf(b) - ChunkOf(a))
             /\ Wrap(pos) = Wrap(stripe2datapos(s) + (c - FirstChunkOf(s)))
             /\ logical_distance(stripe2datapos(s), pos, NUM_DEVFILES)
                  = c - FirstChunkOf(s)
<1> DEFINE s == user2stripe(a)
           m == stripe2datapos(s)
           f == FirstChunkOf(s)
           x == ChunkOf(a) - f
           y == ChunkOf(b) - f
           z == c - f
<1> USE LayoutAssumption
<1>1. NUM_DEVFILES \in Nat \ {0} /\ NUM_DEVFILES > DATACHUNK_NUM
  BY DEF NUM_DEVFILES
<1>2. s \in Nat /\ f \in Nat /\ FirstChunkOf(s + 1) = f + DATACHUNK_NUM
  BY Striping
<1>3. m \in 0 .. NUM_DEVFILES - 1
  BY <1>1, <1>2, DivMod DEF stripe2datapos
<1>4. ChunkOf(a) \in Nat /\ ChunkOf(b) \in Nat /\ c \in Nat
  BY Chunking
<1>5. ChunkOf(a) >= f /\ ChunkOf(b) < f + DATACHUNK_NUM
  <2>1. ChunkOf(a) >= f
    BY <1>2, Striping
  <2>2. ~(user2stripe(b) >= s + 1) /\ s + 1 \in Nat
    BY <1>2
  <2>3. ~(ChunkOf(b) >= FirstChunkOf(s + 1))
    BY <2>2, Striping
  <2>4. QED
    BY <1>2, <1>4, <2>1, <2>3
<1>6. /\ x \in 0 .. DATACHUNK_NUM - 1 /\ y \in 0 .. DATACHUNK_NUM - 1
      /\ z \in x .. y
  BY <1>2, <1>4, <1>5
<1>7. user2dev(a).dev = Wrap(m + x) /\ user2dev(b).dev = Wrap(m + y)
  BY <1>2, <1>4, Placing
<1>8. c - ChunkOf(a) = z - x /\ ChunkOf(b) - ChunkOf(a) = y - x
  BY <1>2, <1>4
<1> HIDE DEF s, m, f, x, y, z
<1>9. QED
  BY <1>1, <1>3, <1>6, <1>7, <1>8 DEF Wrap, logical_distance, s, m, f, z

LEMMA ChunkStart ==
  ASSUME NEW c \in Nat
  PROVE  /\ ChunkOff(c) \in Nat /\ ChunkOff(c + 1) - 1 \in Nat
         /\ ChunkOff(c) <= ChunkOff(c + 1) - 1
         /\ ChunkOf(ChunkOff(c)) = c /\ ChunkOf(ChunkOff(c + 1) - 1) = c
<1> USE LayoutAssumption
<1>1. /\ ChunkOff(c) \in Nat /\ ChunkOff(c + 1) = ChunkOff(c) + SCHUNK_SIZE
      /\ ChunkOf(ChunkOff(c)) = c
  BY Chunking
<1>2. ChunkOff(c + 1) - 1 \in Nat /\ ChunkOff(c) <= ChunkOff(c + 1) - 1
  BY <1>1
<1> DEFINE a == ChunkOff(c + 1) - 1
<1>3. a \in Nat /\ a >= ChunkOff(c) /\ ~(a >= ChunkOff(c + 1))
  BY <1>1, <1>2
<1> HIDE DEF a
<1>4. ChunkOf(a) \in Nat /\ ChunkOf(a) >= c /\ ~(ChunkOf(a) >= c + 1)
  BY <1>3, Chunking
<1>5. ChunkOf(a) = c
  BY <1>4
<1>6. QED
  BY <1>1, <1>2, <1>5 DEF a

LEMMA StripeStart ==
  ASSUME NEW s \in Nat
  PROVE  /\ stripe2useroff(s) \in Nat /\ stripe2useroff(s + 1) - 1 \in Nat
         /\ stripe2useroff(s) <= stripe2useroff(s + 1) - 1
         /\ user2stripe(stripe2useroff(s)) = s
         /\ user2stripe(stripe2useroff(s + 1) - 1) = s
<1> DEFINE lo == stripe2useroff(s)
           hi == stripe2useroff(s + 1) - 1
<1>1. /\ lo \in Nat /\ SSTRIPE_DATASIZE \in Nat \ {0}
      /\ stripe2useroff(s + 1) = lo + SSTRIPE_DATASIZE
  BY Striping
<1>2. hi \in Nat /\ lo <= hi /\ stripe2useroff(s + 1) \in Nat
      /\ hi < stripe2useroff(s + 1)
  BY <1>1
<1> HIDE DEF lo, hi
<1>3. ASSUME NEW a \in Nat, lo <= a, a <= hi PROVE user2stripe(a) = s
  <2>1. user2stripe(a) \in Nat /\ user2stripe(a) >= s
    BY <1>1, <1>3, Striping DEF lo
  <2>2. ~(a >= stripe2useroff(s + 1))
    BY <1>2, <1>3
  <2>3. ~(user2stripe(a) >= s + 1)
    BY <2>2, Striping
  <2>4. QED
    BY <2>1, <2>3
<1>4. user2stripe(lo) = s /\ user2stripe(hi) = s
  BY <1>1, <1>2, <1>3
<1>5. QED
  BY <1>1, <1>2, <1>4 DEF lo, hi

-----------------------------------------------------------------------------
(* The pieces of a request, by stripe, and its parts, by chunk.            *)

FirstStripe(r) == user2stripe(r.off)
LastStripe(r) == user2stripe(r.off + r.len - 1)

PieceFrom(r, s) == IF s = FirstStripe(r) THEN r.off ELSE stripe2useroff(s)
PieceTo(r, s) == IF s = LastStripe(r) THEN r.off + r.len
                 ELSE stripe2useroff(s + 1)
PieceAt(r, s) == [off |-> PieceFrom(r, s), buf |-> PieceFrom(r, s) - r.off,
                  len |-> PieceTo(r, s) - PieceFrom(r, s)]

(* What split_stripe_aligned has returned after n stripes.                 *)
StripeSeq(r, n) == [k \in 1 .. n |-> PieceAt(r, FirstStripe(r) + k - 1)]

FirstChunk(r) == ChunkOf(r.off)
LastChunk(r) == ChunkOf(r.off + r.len - 1)

ChunkFrom(r, c) == IF c = FirstChunk(r) THEN r.off ELSE ChunkOff(c)
ChunkTo(r, c) == IF c = LastChunk(r) THEN r.off + r.len ELSE ChunkOff(c + 1)
ChunkDio(r, c) ==
  Dio(user2dev(ChunkFrom(r, c)).dev, user2dev(ChunkFrom(r, c)).off,
      ChunkTo(r, c) - ChunkFrom(r, c), ChunkFrom(r, c) - r.off)

(* The device I/Os of the request's first n chunks.                        *)
DioSeq(r, n) == [m \in 1 .. n |-> ChunkDio(r, FirstChunk(r) + m - 1)]

(* The chunks of the piece in stripe s.                                    *)
PieceFirst(r, s) == ChunkOf(PieceFrom(r, s))
PieceLast(r, s) == ChunkOf(PieceTo(r, s) - 1)

LEMMA RequestFacts ==
  ASSUME NEW r \in Requests
  PROVE  /\ r.off \in Nat /\ r.len \in Nat \ {0}
         /\ r.off + r.len \in Nat /\ r.off + r.len - 1 \in Nat
         /\ SSTRIPE_DATASIZE \in Nat \ {0} /\ WORD \in Nat
         /\ r.off + r.len + SSTRIPE_DATASIZE < WORD
         /\ FirstStripe(r) \in Nat /\ LastStripe(r) \in Nat
         /\ FirstStripe(r) <= LastStripe(r)
         /\ NumPieces(r) = LastStripe(r) - FirstStripe(r) + 1
         /\ FirstChunk(r) \in Nat /\ LastChunk(r) \in Nat
         /\ FirstChunk(r) <= LastChunk(r)
<1>1. /\ r.off \in Nat /\ r.len \in Nat \ {0}
      /\ r.off + r.len \in Nat /\ r.off + r.len - 1 \in Nat
      /\ r.off <= r.off + r.len - 1
      /\ r.off + r.len + SSTRIPE_DATASIZE < WORD /\ WORD \in Nat
  BY SplitAssumption
<1>2. /\ FirstStripe(r) \in Nat /\ LastStripe(r) \in Nat
      /\ FirstStripe(r) <= LastStripe(r)
      /\ NumPieces(r) = LastStripe(r) - FirstStripe(r) + 1
  BY <1>1, StripeMonotone DEF FirstStripe, LastStripe, NumPieces
<1>3. /\ FirstChunk(r) \in Nat /\ LastChunk(r) \in Nat
      /\ FirstChunk(r) <= LastChunk(r)
  BY <1>1, LayoutAssumption, DivMod, DivMonotone DEF FirstChunk, LastChunk, ChunkOf
<1>4. QED
  BY <1>1, <1>2, <1>3, Striping

(* Every piece lies in its stripe, and the next one starts where it ends.  *)
LEMMA PieceBounds ==
  ASSUME NEW r \in Requests, NEW s \in FirstStripe(r) .. LastStripe(r)
  PROVE  /\ s \in Nat /\ PieceFrom(r, s) \in Nat /\ PieceTo(r, s) \in Nat
         /\ PieceFrom(r, s) < PieceTo(r, s)
         /\ r.off <= PieceFrom(r, s) /\ PieceTo(r, s) <= r.off + r.len
         /\ user2stripe(PieceFrom(r, s)) = s
         /\ user2stripe(PieceTo(r, s) - 1) = s
         /\ PieceFrom(r, s) < stripe2useroff(s + 1)
         /\ stripe2useroff(s + 1) \in Nat
         /\ stripe2useroff(s + 1) <= PieceFrom(r, s) + SSTRIPE_DATASIZE
         /\ PieceTo(r, s) <= stripe2useroff(s + 1)
         /\ s < LastStripe(r) =>
              /\ PieceTo(r, s) = stripe2useroff(s + 1)
              /\ PieceTo(r, s) < r.off + r.len
<1> DEFINE f == FirstStripe(r)
           l == LastStripe(r)
           so(x) == stripe2useroff(x)
           eoff == r.off + r.len
<1>1. /\ r.off \in Nat /\ eoff \in Nat /\ eoff - 1 \in Nat /\ r.off < eoff
      /\ f \in Nat /\ l \in Nat /\ s \in Nat /\ f <= s /\ s <= l
      /\ user2stripe(r.off) = f /\ user2stripe(eoff - 1) = l
  BY RequestFacts DEF FirstStripe, LastStripe
<1>2. /\ so(s) \in Nat /\ so(s + 1) \in Nat /\ so(s) <= so(s + 1) - 1
      /\ user2stripe(so(s)) = s /\ user2stripe(so(s + 1) - 1) = s
      /\ so(s + 1) = so(s) + SSTRIPE_DATASIZE /\ SSTRIPE_DATASIZE \in Nat \ {0}
  <2>1. s + 1 \in Nat
    BY <1>1
  <2>2. so(s + 1) \in Nat
    BY <2>1, Striping
  <2>3. QED
    BY <1>1, <2>2, StripeStart, Striping
<1>3. /\ r.off >= so(s) <=> f >= s
      /\ r.off >= so(s + 1) <=> f >= s + 1
      /\ eoff - 1 >= so(s) <=> l >= s
      /\ eoff - 1 >= so(s + 1) <=> l >= s + 1
  <2>1. ASSUME NEW x \in Nat, NEW y \in Nat
        PROVE  x >= so(y) <=> user2stripe(x) >= y
    BY Striping
  <2>2. s + 1 \in Nat
    BY <1>1
  <2>3. /\ r.off >= so(s) <=> f >= s
        /\ r.off >= so(s + 1) <=> f >= s + 1
    BY <1>1, <2>1, <2>2
  <2>4. /\ eoff - 1 >= so(s) <=> l >= s
        /\ eoff - 1 >= so(s + 1) <=> l >= s + 1
    BY <1>1, <2>1, <2>2
  <2>5. QED
    BY <2>3, <2>4
<1>4. /\ PieceFrom(r, s) = IF s = f THEN r.off ELSE so(s)
      /\ PieceTo(r, s) = IF s = l THEN eoff ELSE so(s + 1)
  BY DEF PieceFrom, PieceTo
<1> HIDE DEF f, l, so, eoff
<1>5. CASE s = f /\ s = l
  BY <1>1, <1>2, <1>3, <1>4, <1>5 DEF so, eoff, l
<1>6. CASE s = f /\ s # l
  BY <1>1, <1>2, <1>3, <1>4, <1>6 DEF so, eoff, l
<1>7. CASE s # f /\ s = l
  BY <1>1, <1>2, <1>3, <1>4, <1>7 DEF so, eoff, l
<1>8. CASE s # f /\ s # l
  BY <1>1, <1>2, <1>3, <1>4, <1>8 DEF so, eoff, l
<1>9. QED
  BY <1>5, <1>6, <1>7, <1>8

(* The same for the parts of a request, chunk by chunk.                    *)
LEMMA ChunkBounds ==
  ASSUME NEW r \in Requests, NEW c \in FirstChunk(r) .. LastChunk(r)
  PROVE  /\ c \in Nat /\ ChunkFrom(r, c) \in Nat /\ ChunkTo(r, c) \in Nat
         /\ ChunkFrom(r, c) < ChunkTo(r, c)
         /\ r.off <= ChunkFrom(r, c) /\ ChunkTo(r, c) <= r.off + r.len
         /\ ChunkOf(ChunkFrom(r, c)) = c /\ ChunkOf(ChunkTo(r, c) - 1) = c
         /\ ChunkTo(r, c) <= ChunkOff(c + 1)
         /\ ChunkOff(c) <= ChunkFrom(r, c)
<1> USE LayoutAssumption
<1> DEFINE f == FirstChunk(r)
           l == LastChunk(r)
           so(x) == ChunkOff(x)
           eoff == r.off + r.len
<1>1. /\ r.off \in Nat /\ eoff \in Nat /\ eoff - 1 \in Nat /\ r.off < eoff
      /\ f \in Nat /\ l \in Nat /\ c \in Nat /\ f <= c /\ c <= l
      /\ ChunkOf(r.off) = f /\ ChunkOf(eoff - 1) = l
  BY RequestFacts DEF FirstChunk, LastChunk
<1>2. /\ so(c) \in Nat /\ so(c + 1) \in Nat /\ so(c) <= so(c + 1) - 1
      /\ ChunkOf(so(c)) = c /\ ChunkOf(so(c + 1) - 1) = c
  <2>1. c + 1 \in Nat
    BY <1>1
  <2>2. so(c + 1) \in Nat
    BY <2>1, Chunking
  <2>3. QED
    BY <1>1, <2>2, ChunkStart
<1>3. /\ r.off >= so(c) <=> f >= c
      /\ r.off >= so(c + 1) <=> f >= c + 1
      /\ eoff - 1 >= so(c) <=> l >= c
      /\ eoff - 1 >= so(c + 1) <=> l >= c + 1
  <2>1. ASSUME NEW x \in Nat, NEW y \in Nat
        PROVE  x >= so(y) <=> ChunkOf(x) >= y
    BY Chunking
  <2>2. c + 1 \in Nat
    BY <1>1
  <2>3. /\ r.off >= so(c) <=> f >= c
        /\ r.off >= so(c + 1) <=> f >= c + 1
    BY <1>1, <2>1, <2>2
  <2>4. /\ eoff - 1 >= so(c) <=> l >= c
        /\ eoff - 1 >= so(c + 1) <=> l >= c + 1
    BY <1>1, <2>1, <2>2
  <2>5. QED
    BY <2>3, <2>4
<1>4. /\ ChunkFrom(r, c) = IF c = f THEN r.off ELSE so(c)
      /\ ChunkTo(r, c) = IF c = l THEN eoff ELSE so(c + 1)
  BY DEF ChunkFrom, ChunkTo
<1> HIDE DEF f, l, so, eoff
<1>5. CASE c = f /\ c = l
  BY <1>1, <1>2, <1>3, <1>4, <1>5 DEF so, eoff, l
<1>6. CASE c = f /\ c # l
  BY <1>1, <1>2, <1>3, <1>4, <1>6 DEF so, eoff, l
<1>7. CASE c # f /\ c = l
  BY <1>1, <1>2, <1>3, <1>4, <1>7 DEF so, eoff, l
<1>8. CASE c # f /\ c # l
  BY <1>1, <1>2, <1>3, <1>4, <1>8 DEF so, eoff, l
<1>9. QED
  BY <1>5, <1>6, <1>7, <1>8

(* The chunks of a piece follow those of the piece before it.              *)
LEMMA PieceChunks ==
  ASSUME NEW r \in Requests, NEW s \in FirstStripe(r) .. LastStripe(r)
  PROVE  /\ PieceFirst(r, s) \in Nat /\ PieceLast(r, s) \in Nat
         /\ PieceFirst(r, s) <= PieceLast(r, s)
         /\ FirstChunk(r) <= PieceFirst(r, s)
         /\ PieceLast(r, s) <= LastChunk(r)
         /\ s = FirstStripe(r) => PieceFirst(r, s) = FirstChunk(r)
         /\ s = LastStripe(r) => PieceLast(r, s) = LastChunk(r)
         /\ s < LastStripe(r) => PieceFirst(r, s + 1) = PieceLast(r, s) + 1
         /\ ChunkFrom(r, PieceFirst(r, s)) = PieceFrom(r, s)
         /\ ChunkTo(r, PieceLast(r, s)) = PieceTo(r, s)
<1> USE LayoutAssumption
<1> DEFINE pf == PieceFrom(r, s)
           pt == PieceTo(r, s)
           eoff == r.off + r.len
           e1 == r.off + r.len - 1
<1>1. /\ r.off \in Nat /\ eoff \in Nat /\ e1 \in Nat /\ e1 = eoff - 1 /\ s \in Nat
      /\ FirstStripe(r) \in Nat /\ LastStripe(r) \in Nat
      /\ FirstStripe(r) <= s /\ s <= LastStripe(r)
      /\ FirstChunk(r) \in Nat /\ LastChunk(r) \in Nat
  BY RequestFacts
<1>2. /\ pf \in Nat /\ pt \in Nat /\ pt - 1 \in Nat /\ pf <= pt - 1
      /\ r.off <= pf /\ pt - 1 <= e1
  BY <1>1, PieceBounds
<1>3. /\ PieceFirst(r, s) \in Nat /\ PieceLast(r, s) \in Nat
      /\ PieceFirst(r, s) <= PieceLast(r, s)
      /\ FirstChunk(r) <= PieceFirst(r, s)
      /\ PieceLast(r, s) <= LastChunk(r)
  <2> HIDE DEF pf, pt, eoff, e1
  <2>1. /\ ChunkOf(pf) \in Nat /\ ChunkOf(pt - 1) \in Nat
        /\ ChunkOf(pf) <= ChunkOf(pt - 1) /\ ChunkOf(r.off) <= ChunkOf(pf)
        /\ ChunkOf(pt - 1) <= ChunkOf(e1)
    BY <1>1, <1>2, DivMod, DivMonotone DEF ChunkOf
  <2>2. QED
    BY <2>1 DEF PieceFirst, PieceLast, FirstChunk, LastChunk, pf, pt, e1
<1>4. s = FirstStripe(r) =>
        /\ pf = r.off
        /\ PieceFirst(r, s) = FirstChunk(r) /\ ChunkFrom(r, FirstChunk(r)) = r.off
  BY DEF PieceFirst, PieceFrom, FirstChunk, ChunkFrom
<1>5. s = LastStripe(r) =>
        /\ pt = eoff
        /\ PieceLast(r, s) = LastChunk(r) /\ ChunkTo(r, LastChunk(r)) = eoff
  <2> SUFFICES ASSUME s = LastStripe(r)
               PROVE  /\ pt = eoff
                      /\ PieceLast(r, s) = LastChunk(r)
                      /\ ChunkTo(r, LastChunk(r)) = eoff
    OBVIOUS
  <2>1. pt = eoff /\ ChunkTo(r, LastChunk(r)) = eoff
    BY DEF PieceTo, ChunkTo
  <2>2. PieceTo(r, s) - 1 = e1
    BY <1>1, <2>1
  <2> HIDE DEF e1
  <2>3. PieceLast(r, s) = ChunkOf(e1)
    BY <2>2 DEF PieceLast
  <2>4. QED
    BY <2>1, <2>3 DEF LastChunk, e1
<1>6. ASSUME s # FirstStripe(r)
      PROVE  ChunkFrom(r, PieceFirst(r, s)) = pf
  <2> DEFINE fc == FirstChunkOf(s)
  <2>1. fc \in Nat /\ pf = ChunkOff(fc) /\ ChunkOf(ChunkOff(fc)) = fc
    <3>1. fc \in Nat /\ pf = ChunkOff(fc)
      BY <1>1, <1>6, Striping DEF PieceFrom
    <3>2. QED
      BY <3>1, Chunking
  <2>2. PieceFirst(r, s) = fc
    BY <2>1 DEF PieceFirst
  <2>3. ~(FirstStripe(r) >= s)
    BY <1>1, <1>6
  <2>4. ~(ChunkOf(r.off) >= fc)
    BY <1>1, <2>3, Striping DEF FirstStripe
  <2>5. fc # FirstChunk(r)
    BY <1>1, <2>1, <2>4 DEF FirstChunk
  <2>6. QED
    BY <2>1, <2>2, <2>5 DEF ChunkFrom
<1>7. ASSUME s # LastStripe(r)
      PROVE  /\ ChunkTo(r, PieceLast(r, s)) = pt
             /\ PieceFirst(r, s + 1) = PieceLast(r, s) + 1
  <2> DEFINE fc == FirstChunkOf(s + 1)
  <2>1. s + 1 \in Nat /\ LastStripe(r) >= s + 1 /\ s + 1 # FirstStripe(r)
    BY <1>1, <1>7
  <2>2. /\ fc \in Nat /\ fc = FirstChunkOf(s) + DATACHUNK_NUM
        /\ FirstChunkOf(s) \in Nat /\ stripe2useroff(s + 1) = ChunkOff(fc)
    <3>1. FirstChunkOf(s) \in Nat /\ fc = FirstChunkOf(s) + DATACHUNK_NUM
      BY <1>1, Striping
    <3>2. fc \in Nat /\ stripe2useroff(s + 1) = ChunkOff(fc)
      BY <2>1, Striping
    <3>3. QED
      BY <3>1, <3>2
  <2>3. fc - 1 \in Nat /\ fc - 1 + 1 = fc
    BY <2>2
  <2>4. pt = ChunkOff(fc) /\ PieceFrom(r, s + 1) = ChunkOff(fc)
    BY <1>7, <2>1, <2>2 DEF PieceTo, PieceFrom
  <2> HIDE DEF fc
  <2>5. ChunkOf(ChunkOff(fc - 1 + 1) - 1) = fc - 1
    BY <2>3, ChunkStart
  <2>6. PieceLast(r, s) = fc - 1
    BY <2>3, <2>4, <2>5 DEF PieceLast
  <2>7. PieceFirst(r, s + 1) = fc
    BY <2>2, <2>4, Chunking DEF PieceFirst
  <2>8. LastChunk(r) >= fc
    <3>1. user2stripe(e1) >= s + 1
      BY <2>1 DEF LastStripe
    <3> HIDE DEF e1
    <3>2. ChunkOf(e1) >= fc
      BY <1>1, <2>1, <3>1, Striping DEF fc
    <3>3. QED
      BY <3>2 DEF LastChunk, e1
  <2>9. ChunkTo(r, fc - 1) = ChunkOff(fc)
    BY <1>1, <2>2, <2>3, <2>8 DEF ChunkTo
  <2>10. QED
    BY <2>3, <2>4, <2>6, <2>7, <2>9
<1>8. QED
  BY <1>1, <1>3, <1>4, <1>5, <1>6, <1>7

(* One iteration of split_chunk2dio, for the chunk c of the piece in       *)
(* stripe s: where it goes, and whether the rest of the piece reaches past *)
(* it.                                                                     *)
LEMMA ChunkIteration ==
  ASSUME NEW r \in Requests, NEW s \in FirstStripe(r) .. LastStripe(r),
         NEW p, p = PieceAt(r, s), NEW c \in PieceFirst(r, s) .. PieceLast(r, s)
  PROVE  LET pos == FirstPos(p) + (c - PieceFirst(r, s))
         IN  /\ c \in FirstChunk(r) .. LastChunk(r)
             /\ FirstPos(p) \in Nat
             /\ LastPos(p) = FirstPos(p) + (PieceLast(r, s) - PieceFirst(r, s))
             /\ Wrap(pos) = user2dev(ChunkFrom(r, c)).dev
             /\ stripe2useroff(user2stripe(p.off)) + SCHUNK_SIZE *
                  (logical_distance(stripe2datapos(user2stripe(p.off)), pos,
                                    NUM_DEVFILES) + 1) = ChunkOff(c + 1)
             /\ ChunkOff(c + 1) \in Nat
             /\ ChunkFrom(r, c) < ChunkOff(c + 1)
             /\ c < PieceLast(r, s) =>
                  /\ ChunkTo(r, c) = ChunkOff(c + 1)
                  /\ ChunkFrom(r, c + 1) = ChunkOff(c + 1)
                  /\ ChunkOff(c + 1) < PieceTo(r, s)
             /\ c = PieceLast(r, s) =>
                  /\ ChunkTo(r, c) = PieceTo(r, s)
                  /\ PieceTo(r, s) <= ChunkOff(c + 1)
<1> USE LayoutAssumption
<1> DEFINE a == PieceFrom(r, s)
           b == PieceTo(r, s) - 1
           f == FirstChunkOf(s)
           pos == FirstPos(p) + (c - PieceFirst(r, s))
<1>1. /\ s \in Nat /\ a \in Nat /\ b \in Nat /\ a <= b
      /\ user2stripe(a) = s /\ user2stripe(b) = s /\ PieceTo(r, s) \in Nat
  BY PieceBounds
<1>2. /\ PieceFirst(r, s) \in Nat /\ PieceLast(r, s) \in Nat /\ c \in Nat
      /\ c + 1 \in Nat
      /\ FirstChunk(r) \in Nat /\ LastChunk(r) \in Nat
      /\ c \in FirstChunk(r) .. LastChunk(r)
      /\ c < PieceLast(r, s) => c + 1 \in FirstChunk(r) .. LastChunk(r)
      /\ c < PieceLast(r, s) => c # LastChunk(r) /\ c + 1 # FirstChunk(r)
  BY PieceChunks, RequestFacts
<1>3. p.off = a /\ p.off + p.len - 1 = b
  BY <1>1 DEF PieceAt
<1>4. c \in ChunkOf(a) .. ChunkOf(b)
      /\ PieceFirst(r, s) = ChunkOf(a) /\ PieceLast(r, s) = ChunkOf(b)
  BY DEF PieceFirst, PieceLast
<1> HIDE DEF a, b
<1>5. /\ FirstPos(p) \in Nat
      /\ LastPos(p) = FirstPos(p) + (PieceLast(r, s) - PieceFirst(r, s))
      /\ Wrap(pos) = Wrap(stripe2datapos(s) + (c - f))
      /\ logical_distance(stripe2datapos(s), pos, NUM_DEVFILES) = c - f
  BY <1>1, <1>3, <1>4, Positions DEF FirstPos, LastPos
<1>6. /\ ChunkFrom(r, c) \in Nat /\ ChunkOf(ChunkFrom(r, c)) = c
      /\ ChunkFrom(r, c) < ChunkTo(r, c) /\ ChunkTo(r, c) <= ChunkOff(c + 1)
      /\ ChunkTo(r, c) \in Nat
  BY <1>2, ChunkBounds
<1>7. ChunkOff(c + 1) \in Nat
  BY <1>2, Chunking
<1>8. user2stripe(ChunkFrom(r, c)) = s
  <2>1. f \in Nat /\ FirstChunkOf(s + 1) \in Nat /\ s + 1 \in Nat
    <3>1. s + 1 \in Nat
      BY <1>1
    <3>2. QED
      BY <1>1, <3>1, Striping
  <2>2. ChunkOf(a) >= f
    BY <1>1, Striping
  <2>3. ~(user2stripe(b) >= s + 1)
    BY <1>1
  <2>4. ~(ChunkOf(b) >= FirstChunkOf(s + 1))
    BY <1>1, <2>1, <2>3, Striping
  <2>5. c >= f /\ ~(c >= FirstChunkOf(s + 1))
    BY <1>2, <1>4, <2>1, <2>2, <2>4
  <2> DEFINE x == ChunkFrom(r, c)
  <2>6. x \in Nat /\ ChunkOf(x) = c
    BY <1>6
  <2> HIDE DEF x
  <2>7. user2stripe(x) \in Nat /\ user2stripe(x) >= s /\ ~(user2stripe(x) >= s + 1)
    BY <1>1, <2>1, <2>5, <2>6, Striping
  <2>8. user2stripe(x) = s
    BY <1>1, <2>7
  <2>9. QED
    BY <2>8 DEF x
<1>9. user2dev(ChunkFrom(r, c)).dev = Wrap(stripe2datapos(s) + (c - f))
  BY <1>1, <1>2, <1>6, <1>8, Placing
<1>10. stripe2useroff(s) + SCHUNK_SIZE * (c - f + 1) = ChunkOff(c + 1)
  <2>1. f \in Nat /\ stripe2useroff(s) = ChunkOff(f)
    BY <1>1, Striping
  <2> HIDE DEF f
  <2>2. f * SCHUNK_SIZE + SCHUNK_SIZE * (c - f + 1) = (c + 1) * SCHUNK_SIZE
    BY <1>2, <2>1
  <2>3. QED
    BY <2>1, <2>2 DEF ChunkOff
<1>11. /\ c < PieceLast(r, s) =>
            /\ ChunkTo(r, c) = ChunkOff(c + 1)
            /\ ChunkFrom(r, c + 1) = ChunkOff(c + 1)
       /\ c = PieceLast(r, s) => ChunkTo(r, c) = PieceTo(r, s)
  BY <1>2, PieceChunks DEF ChunkTo, ChunkFrom
<1>12. c < PieceLast(r, s) => ChunkOff(c + 1) < PieceTo(r, s)
  <2> SUFFICES ASSUME c < PieceLast(r, s) PROVE ChunkOff(c + 1) < PieceTo(r, s)
    OBVIOUS
  <2>1. ChunkOf(b) >= c + 1
    BY <1>2, <1>4
  <2>2. b >= ChunkOff(c + 1)
    BY <1>1, <1>2, <2>1, Chunking
  <2>3. QED
    BY <1>1, <1>7, <2>2 DEF b
<1> HIDE DEF pos, f
<1>13. user2stripe(p.off) = s
  BY <1>1, <1>3
<1>14. /\ Wrap(pos) = user2dev(ChunkFrom(r, c)).dev
       /\ stripe2useroff(s) + SCHUNK_SIZE *
            (logical_distance(stripe2datapos(s), pos, NUM_DEVFILES) + 1)
          = ChunkOff(c + 1)
  BY <1>5, <1>9, <1>10
<1>15. ChunkFrom(r, c) < ChunkOff(c + 1)
  BY <1>6, <1>7
<1>16. QED
  BY <1>2, <1>5, <1>6, <1>7, <1>11, <1>12, <1>13, <1>14, <1>15 DEF pos

-----------------------------------------------------------------------------
(* The inductive invariant.  Module Split states what the loops return;    *)
(* this says how far each loop has come: every cursor is the closed form   *)
(* at the loop's counter, and the sequences built so far are prefixes of   *)
(* the ones returned.                                                      *)

BlockOf(a) == a \div BLK_SIZE

(* The blocks of the first n blocks of the request.                        *)
BlockSeq(r, n) == [k \in 1 .. n |-> BlockOf(r.off) + k - 1]

Aligned == uio.off % SCHUNK_SIZE = 0

(* The stripe of the piece that is cut, that piece's place in the request, *)
(* and the chunk that the inner loop has come to.                          *)
AtStripe == FirstStripe(uio) + ck - 1
AtFrom == PieceFrom(uio, AtStripe)
AtTo == PieceTo(uio, AtStripe)
AtChunk == PieceFirst(uio, AtStripe) + (i - FirstPos(PieceAt(uio, AtStripe)))

Dios == [dev : Nat, off : Nat, len : Nat, buf : Nat]

Types ==
  /\ uio \in Requests /\ is_write \in BOOLEAN
  /\ phase \in {"stripes", "blocks", "chunks", "schunks", "done"}
  /\ ck \in Nat /\ i \in Nat /\ last \in Nat
  /\ start_off \in Nat /\ start_buf \in Nat /\ remain_len \in 0 .. WORD - 1
  /\ dios \in Seq(Dios)

InStripes ==
  phase = "stripes" =>
    /\ ck = 0
    /\ last = LastStripe(uio) /\ i \in FirstStripe(uio) .. last + 1
    /\ stripes = StripeSeq(uio, i - FirstStripe(uio))
    /\ blocks = BlockSeq(uio, 0) /\ dios = DioSeq(uio, 0)
    /\ i <= last => /\ start_off = PieceFrom(uio, i)
                    /\ start_buf = start_off - uio.off
                    /\ remain_len = (uio.off + uio.len) - start_off

HasPieces ==
  phase # "stripes" =>
    /\ AtStripe \in FirstStripe(uio) .. LastStripe(uio)
    /\ stripes = StripeSeq(uio, NumPieces(uio))

InBlocks ==
  phase = "blocks" =>
    /\ is_write
    /\ last + 1 = BlockOf(AtTo) - BlockOf(AtFrom) /\ i \in 0 .. last + 1
    /\ start_off = AtFrom + i * BLK_SIZE
    /\ blocks = BlockSeq(uio, BlockOf(AtFrom) - BlockOf(uio.off) + i)
    /\ dios = DioSeq(uio, PieceFirst(uio, AtStripe) - FirstChunk(uio))

InChunks ==
  phase = "chunks" =>
    /\ is_write
    /\ AtChunk \in PieceFirst(uio, AtStripe) .. PieceLast(uio, AtStripe) + 1
    /\ last - i = PieceLast(uio, AtStripe) - AtChunk
    /\ blocks = BlockSeq(uio, BlockOf(AtTo) - BlockOf(uio.off))
    /\ dios = DioSeq(uio, AtChunk - FirstChunk(uio))
    /\ i <= last => /\ start_off = ChunkFrom(uio, AtChunk)
                    /\ start_buf = start_off - AtFrom
                    /\ remain_len = AtTo - start_off

InSchunks ==
  phase = "schunks" =>
    /\ ~is_write
    /\ Aligned =>
         /\ AtChunk \in PieceFirst(uio, AtStripe) .. PieceLast(uio, AtStripe) + 1
         /\ last - i = PieceLast(uio, AtStripe) - AtChunk
         /\ dios = DioSeq(uio, AtChunk - FirstChunk(uio))
         /\ i <= last => /\ start_off = ChunkFrom(uio, AtChunk)
                         /\ start_buf = start_off - uio.off
                         /\ remain_len = AtTo - start_off

AtEnd ==
  phase = "done" =>
    /\ is_write \/ Aligned =>
         dios = DioSeq(uio, LastChunk(uio) - FirstChunk(uio) + 1)
    /\ is_write => blocks = BlockSeq(uio, BlockOf(uio.len))

SplitInv == /\ Types /\ InStripes /\ HasPieces
            /\ InBlocks /\ InChunks /\ InSchunks /\ AtEnd

-----------------------------------------------------------------------------
(* The sequences grow by one element at a time.                            *)

LEMMA PrefixGrows ==
  ASSUME NEW S, NEW f \in [Nat -> S], NEW n \in Nat
  PROVE  LET Prefix(m) == [k \in 1 .. m |-> f[k]]
         IN  /\ Prefix(0) = << >> /\ Len(Prefix(n)) = n
             /\ Append(Prefix(n), f[n + 1]) = Prefix(n + 1)
<1> DEFINE p == [k \in 1 .. n |-> f[k]]
           q == [k \in 1 .. n + 1 |-> f[k]]
<1>1. p \in Seq(S) /\ Len(p) = n /\ q \in Seq(S) /\ Len(q) = n + 1
  OBVIOUS
<1>2. Append(p, f[n + 1]) = q
  OBVIOUS
<1>3. [k \in 1 .. 0 |-> f[k]] = << >>
  OBVIOUS
<1>4. QED
  BY <1>1, <1>2, <1>3

LEMMA StripeSeqGrows ==
  ASSUME NEW r, NEW n \in Nat
  PROVE  /\ StripeSeq(r, 0) = << >> /\ Len(StripeSeq(r, n)) = n
         /\ Append(StripeSeq(r, n), PieceAt(r, FirstStripe(r) + n))
              = StripeSeq(r, n + 1)
<1> DEFINE f == [k \in Nat |-> PieceAt(r, FirstStripe(r) + k - 1)]
           S == {f[k] : k \in Nat}
<1>1. f \in [Nat -> S]
  OBVIOUS
<1>2. \A m \in Nat : StripeSeq(r, m) = [k \in 1 .. m |-> f[k]]
  BY DEF StripeSeq
<1>3. f[n + 1] = PieceAt(r, FirstStripe(r) + n)
  OBVIOUS
<1> HIDE DEF f, S
<1>4. QED
  BY <1>1, <1>2, <1>3, PrefixGrows

LEMMA BlockSeqGrows ==
  ASSUME NEW r, BlockOf(r.off) \in Nat, NEW n \in Nat
  PROVE  /\ BlockSeq(r, 0) = << >>
         /\ Append(BlockSeq(r, n), BlockOf(r.off) + n) = BlockSeq(r, n + 1)
<1> DEFINE f == [k \in Nat |-> BlockOf(r.off) + k - 1]
           S == {f[k] : k \in Nat}
<1>1. f \in [Nat -> S]
  OBVIOUS
<1>2. \A m \in Nat : BlockSeq(r, m) = [k \in 1 .. m |-> f[k]]
  BY DEF BlockSeq
<1>3. f[n + 1] = BlockOf(r.off) + n
  OBVIOUS
<1> HIDE DEF f, S
<1>4. BlockSeq(r, 0) = << >> /\ Append(BlockSeq(r, n), f[n + 1]) = BlockSeq(r, n + 1)
  <2>1. /\ [k \in 1 .. 0 |-> f[k]] = << >>
        /\ Append([k \in 1 .. n |-> f[k]], f[n + 1]) = [k \in 1 .. n + 1 |-> f[k]]
    BY <1>1, PrefixGrows
  <2>2. BlockSeq(r, 0) = [k \in 1 .. 0 |-> f[k]]
    BY <1>2
  <2> DEFINE n1 == n + 1
  <2>3. BlockSeq(r, n1) = [k \in 1 .. n1 |-> f[k]]
    <3>1. n1 \in Nat
      OBVIOUS
    <3> HIDE DEF n1
    <3>2. QED
      BY <1>2, <3>1
  <2>4. BlockSeq(r, n) = [k \in 1 .. n |-> f[k]]
    BY <1>2
  <2>5. QED
    BY <2>1, <2>2, <2>3, <2>4
<1>5. QED
  BY <1>3, <1>4

LEMMA DioSeqGrows ==
  ASSUME NEW r \in Requests, NEW c \in Nat, FirstChunk(r) <= c
  PROVE  /\ DioSeq(r, 0) = << >>
         /\ Append(DioSeq(r, c - FirstChunk(r)), ChunkDio(r, c))
              = DioSeq(r, c + 1 - FirstChunk(r))
<1> DEFINE f == [k \in Nat |-> ChunkDio(r, FirstChunk(r) + k - 1)]
           S == {f[k] : k \in Nat}
           n == c - FirstChunk(r)
<1>1. f \in [Nat -> S]
  OBVIOUS
<1>2. \A m \in Nat : DioSeq(r, m) = [k \in 1 .. m |-> f[k]]
  BY DEF DioSeq
<1>3. n \in Nat /\ c + 1 - FirstChunk(r) = n + 1 /\ FirstChunk(r) + (n + 1) - 1 = c
  BY RequestFacts
<1>4. f[n + 1] = ChunkDio(r, c)
  BY <1>3
<1> HIDE DEF f, S, n
<1>5. DioSeq(r, 0) = << >> /\ Append(DioSeq(r, n), f[n + 1]) = DioSeq(r, n + 1)
  BY <1>1, <1>2, <1>3, PrefixGrows
<1>6. QED
  BY <1>3, <1>4, <1>5 DEF n

(* Whole blocks: a request consists of them, and so does every piece.      *)
Whole(a) == a % BLK_SIZE = 0

LEMMA WholeBlocks ==
  ASSUME NEW a \in Nat
  PROVE  /\ BlockOf(a) \in Nat
         /\ Whole(a) => a = BLK_SIZE * BlockOf(a)
         /\ Whole(BLK_SIZE * a) /\ BlockOf(BLK_SIZE * a) = a
<1>b. BLK_SIZE \in Nat \ {0}
  BY SplitAssumption
<1>1. /\ BlockOf(a) \in Nat
      /\ Whole(a) => a = BLK_SIZE * BlockOf(a)
  <2> DEFINE q == a \div BLK_SIZE
             m == a % BLK_SIZE
  <2>1. q \in Nat /\ m \in 0 .. BLK_SIZE - 1 /\ a = BLK_SIZE * q + m
    BY <1>b, DivMod
  <2> HIDE DEF q, m
  <2>2. m = 0 => a = BLK_SIZE * q
    BY <1>b, <2>1
  <2>3. QED
    BY <2>1, <2>2 DEF Whole, BlockOf, q, m
<1>2. (a * BLK_SIZE + 0) \div BLK_SIZE = a /\ (a * BLK_SIZE + 0) % BLK_SIZE = 0
  <2>1. 0 \in 0 .. BLK_SIZE - 1
    BY <1>b
  <2>2. QED
    BY <1>b, <2>1, DivModUnique
<1>3. BLK_SIZE * a = a * BLK_SIZE + 0
  BY <1>b
<1>4. QED
  BY <1>1, <1>2, <1>3 DEF Whole, BlockOf

(* Sums and differences of whole blocks.                                   *)
LEMMA WholeSums ==
  ASSUME NEW a \in Nat, NEW b \in Nat, Whole(a), Whole(b)
  PROVE  /\ Whole(a + b) /\ BlockOf(a + b) = BlockOf(a) + BlockOf(b)
         /\ a <= b => /\ Whole(b - a) /\ BlockOf(b - a) = BlockOf(b) - BlockOf(a)
                      /\ BlockOf(a) <= BlockOf(b)
<1> DEFINE x == BlockOf(a)
           y == BlockOf(b)
<1>1. x \in Nat /\ y \in Nat /\ a = BLK_SIZE * x /\ b = BLK_SIZE * y
      /\ BLK_SIZE \in Nat \ {0}
  BY WholeBlocks, SplitAssumption
<1> HIDE DEF x, y
<1>2. Whole(a + b) /\ BlockOf(a + b) = x + y
  <2>1. a + b = BLK_SIZE * (x + y) /\ x + y \in Nat
    BY <1>1
  <2>2. QED
    BY <2>1, WholeBlocks
<1>3. ASSUME a <= b
      PROVE  Whole(b - a) /\ BlockOf(b - a) = y - x /\ x <= y
  <2>1. x <= y
    BY <1>1, <1>3, DivMonotone DEF x, y, BlockOf
  <2>2. b - a = BLK_SIZE * (y - x) /\ y - x \in Nat
    BY <1>1, <2>1
  <2>3. QED
    BY <2>1, <2>2, WholeBlocks
<1>4. QED
  BY <1>2, <1>3 DEF x, y

LEMMA PieceBlocks ==
  ASSUME NEW r \in Requests, NEW s \in FirstStripe(r) .. LastStripe(r)
  PROVE  LET a == PieceFrom(r, s)
             b == PieceTo(r, s)
         IN  /\ Whole(a) /\ Whole(b) /\ Whole(r.off)
             /\ Whole(b - a) /\ BlockOf(b - a) = BlockOf(b) - BlockOf(a)
             /\ BlockOf(b - a) \in Nat \ {0}
             /\ BlockOf(r.off) \in Nat /\ BlockOf(a) \in Nat /\ BlockOf(b) \in Nat
             /\ BlockOf(r.off) <= BlockOf(a)
             /\ s = LastStripe(r) => BlockOf(b) - BlockOf(r.off) = BlockOf(r.len)
<1> DEFINE a == PieceFrom(r, s)
           b == PieceTo(r, s)
<1>1. \A t \in Nat : Whole(stripe2useroff(t)) /\ stripe2useroff(t) \in Nat
  <2> TAKE t \in Nat
  <2>1. /\ Whole(SCHUNK_SIZE) /\ SCHUNK_SIZE \in Nat
        /\ BLK_SIZE \in Nat /\ DATACHUNK_NUM \in Nat
    BY SplitAssumption, LayoutAssumption DEF Whole
  <2>2. SCHUNK_SIZE = BLK_SIZE * BlockOf(SCHUNK_SIZE) /\ BlockOf(SCHUNK_SIZE) \in Nat
    BY <2>1, WholeBlocks
  <2> DEFINE k == BlockOf(SCHUNK_SIZE)
             e == k * (DATACHUNK_NUM * t)
  <2>3. e \in Nat
    BY <2>1, <2>2
  <2>4. stripe2useroff(t) = t * ((BLK_SIZE * k) * DATACHUNK_NUM)
    BY <2>2 DEF stripe2useroff, SSTRIPE_DATASIZE
  <2> HIDE DEF k
  <2>5. t * ((BLK_SIZE * k) * DATACHUNK_NUM) = BLK_SIZE * e
    BY <2>1, <2>2 DEF k
  <2> HIDE DEF e
  <2>6. Whole(BLK_SIZE * e)
    BY <2>3, WholeBlocks
  <2>7. stripe2useroff(t) \in Nat
    BY Striping
  <2>8. QED
    BY <2>4, <2>5, <2>6, <2>7
<1>2. /\ r.off \in Nat /\ r.len \in Nat /\ Whole(r.off) /\ Whole(r.len)
      /\ r.off + r.len \in Nat
      /\ Whole(r.off + r.len)
      /\ BlockOf(r.off + r.len) = BlockOf(r.off) + BlockOf(r.len)
      /\ BlockOf(r.off) \in Nat /\ BlockOf(r.len) \in Nat
  <2> DEFINE x == r.off
             y == r.len
  <2>1. x \in Nat /\ y \in Nat /\ Whole(x) /\ Whole(y) /\ x + y \in Nat
    BY SplitAssumption DEF Whole
  <2> HIDE DEF x, y
  <2>2. /\ Whole(x + y) /\ BlockOf(x + y) = BlockOf(x) + BlockOf(y)
        /\ BlockOf(x) \in Nat /\ BlockOf(y) \in Nat
    BY <2>1, WholeSums, WholeBlocks
  <2>3. QED
    BY <2>1, <2>2 DEF x, y
<1>3. /\ s \in Nat /\ s + 1 \in Nat /\ a \in Nat /\ b \in Nat /\ a < b
      /\ r.off <= a
  BY PieceBounds
<1>4. Whole(a) /\ Whole(b)
  BY <1>1, <1>2, <1>3 DEF PieceFrom, PieceTo
<1>5. s = LastStripe(r) => b = r.off + r.len
  BY DEF PieceTo
<1> HIDE DEF a, b
<1>6. /\ Whole(b - a) /\ BlockOf(b - a) = BlockOf(b) - BlockOf(a)
      /\ BlockOf(r.off) <= BlockOf(a)
  <2>1. a <= b
    BY <1>3
  <2>2. Whole(b - a) /\ BlockOf(b - a) = BlockOf(b) - BlockOf(a)
    BY <1>3, <1>4, <2>1, WholeSums
  <2>3. BlockOf(r.off) <= BlockOf(a)
    BY <1>2, <1>3, <1>4, WholeSums
  <2>4. QED
    BY <2>2, <2>3
<1>7. BlockOf(b - a) \in Nat \ {0} /\ BlockOf(a) \in Nat /\ BlockOf(b) \in Nat
  <2>1. b - a \in Nat \ {0}
    BY <1>3
  <2>2. b - a = BLK_SIZE * BlockOf(b - a) /\ BlockOf(b - a) \in Nat
    BY <1>6, <2>1, WholeBlocks
  <2>3. BlockOf(b - a) # 0
    BY <2>1, <2>2, SplitAssumption
  <2>4. QED
    BY <1>3, <2>2, <2>3, WholeBlocks
<1>8. s = LastStripe(r) => BlockOf(b) - BlockOf(r.off) = BlockOf(r.len)
  BY <1>2, <1>5
<1>9. QED
  BY <1>2, <1>4, <1>6, <1>7, <1>8 DEF a, b

-----------------------------------------------------------------------------
(* The invariant holds initially and every loop keeps it.                  *)

LEMMA MinusExact ==
  ASSUME NEW a \in Nat, NEW b \in Nat
  PROVE  /\ Minus(a, b) \in 0 .. WORD - 1
         /\ b <= a /\ a < WORD => Minus(a, b) = a - b
<1>1. WORD \in Nat \ {0}
  BY SplitAssumption
<1>2. Minus(a, b) \in 0 .. WORD - 1
  BY <1>1 DEF Minus
<1>3. ASSUME b <= a, a < WORD
      PROVE  Minus(a, b) = a - b
  <2>1. a - b \in 0 .. WORD - 1
    BY <1>1, <1>3
  <2>2. (0 * WORD + (a - b)) % WORD = a - b
    BY <1>1, <2>1, DivModUnique
  <2>3. 0 * WORD + (a - b) = a - b
    BY <1>1, <2>1
  <2>4. QED
    BY <2>2, <2>3 DEF Minus
<1>4. QED
  BY <1>2, <1>3

LEMMA StartInv ==
  Init => SplitInv
<1> SUFFICES ASSUME Init PROVE SplitInv
  OBVIOUS
<1>1. /\ uio \in Requests /\ is_write \in BOOLEAN /\ phase = "stripes"
      /\ ck = 0 /\ i = FirstStripe(uio) /\ last = LastStripe(uio)
      /\ start_off = uio.off /\ start_buf = 0 /\ remain_len = uio.len
      /\ stripes = << >> /\ blocks = << >> /\ dios = << >>
  BY DEF Init, FirstStripe, LastStripe
<1>2. /\ uio.off \in Nat /\ uio.len \in Nat \ {0}
      /\ uio.len <= WORD - 1 /\ WORD \in Nat
      /\ FirstStripe(uio) \in Nat /\ LastStripe(uio) \in Nat
      /\ FirstStripe(uio) <= LastStripe(uio) /\ FirstChunk(uio) \in Nat
  <2>1. /\ uio.off \in Nat /\ uio.len \in Nat \ {0}
        /\ uio.off + uio.len + SSTRIPE_DATASIZE < WORD
        /\ SSTRIPE_DATASIZE \in Nat /\ WORD \in Nat
    BY <1>1, RequestFacts
  <2>2. uio.len <= WORD - 1
    BY <2>1
  <2>3. /\ FirstStripe(uio) \in Nat /\ LastStripe(uio) \in Nat
        /\ FirstStripe(uio) <= LastStripe(uio) /\ FirstChunk(uio) \in Nat
    BY <1>1, RequestFacts
  <2>4. QED
    BY <2>1, <2>2, <2>3
<1>3. Types
  <2>1. remain_len \in 0 .. WORD - 1
    BY <1>1, <1>2
  <2>2. dios \in Seq(Dios)
    BY <1>1
  <2>3. QED
    BY <1>1, <1>2, <2>1, <2>2 DEF Types
<1>4. InStripes
  <2>1. StripeSeq(uio, i - FirstStripe(uio)) = << >>
    <3>1. i - FirstStripe(uio) = 0
      BY <1>1, <1>2
    <3>2. QED
      BY <3>1, StripeSeqGrows
  <2>2. DioSeq(uio, 0) = << >>
    BY DEF DioSeq
  <2>3. BlockSeq(uio, 0) = << >>
    BY DEF BlockSeq
  <2>4. PieceFrom(uio, i) = uio.off
    BY <1>1 DEF PieceFrom
  <2>5. /\ start_buf = start_off - uio.off
        /\ remain_len = (uio.off + uio.len) - start_off
        /\ i \in FirstStripe(uio) .. last + 1
    BY <1>1, <1>2
  <2>6. QED
    BY <1>1, <2>1, <2>2, <2>3, <2>4, <2>5 DEF InStripes
<1>5. HasPieces /\ InBlocks /\ InChunks /\ InSchunks /\ AtEnd
  BY <1>1 DEF HasPieces, InBlocks, InChunks, InSchunks, AtEnd
<1>6. QED
  BY <1>3, <1>4, <1>5 DEF SplitInv

LEMMA SplitStripeStep ==
  SplitInv /\ SplitStripe => SplitInv'
<1> SUFFICES ASSUME SplitInv, SplitStripe PROVE SplitInv'
  OBVIOUS
<1> DEFINE this_len == stripe2useroff(i) + SSTRIPE_DATASIZE - start_off
           next_off == stripe2useroff(i + 1)
           eoff == uio.off + uio.len
           s0 == FirstStripe(uio)
<1>1. /\ uio \in Requests /\ is_write \in BOOLEAN /\ i \in Nat /\ last \in Nat
      /\ start_off \in Nat /\ start_buf \in Nat /\ remain_len \in 0 .. WORD - 1
  BY DEF SplitInv, Types
<1>0. dios \in Seq(Dios)
  BY DEF SplitInv, Types
<1>2. /\ phase = "stripes" /\ i <= last
      /\ stripes' = Append(stripes, [off |-> start_off, buf |-> start_buf,
                                     len |-> Upto(this_len)])
      /\ remain_len' = Minus(remain_len, this_len)
      /\ start_off' = start_off + this_len
      /\ start_buf' = start_buf + this_len
      /\ i' = i + 1
      /\ UNCHANGED <<uio, is_write, phase, ck, last, blocks, dios>>
  BY DEF SplitStripe
<1>3. /\ ck = 0 /\ last = LastStripe(uio) /\ i \in s0 .. last
      /\ stripes = StripeSeq(uio, i - s0)
      /\ blocks = BlockSeq(uio, 0) /\ dios = DioSeq(uio, 0)
      /\ start_off = PieceFrom(uio, i)
      /\ start_buf = start_off - uio.off
      /\ remain_len = eoff - start_off
  <2>1. /\ ck = 0 /\ last = LastStripe(uio) /\ i \in FirstStripe(uio) .. last + 1
        /\ stripes = StripeSeq(uio, i - FirstStripe(uio))
        /\ blocks = BlockSeq(uio, 0) /\ dios = DioSeq(uio, 0)
        /\ start_off = PieceFrom(uio, i)
        /\ start_buf = start_off - uio.off
        /\ remain_len = (uio.off + uio.len) - start_off
    BY <1>2 DEF SplitInv, InStripes
  <2>2. s0 \in Nat
    BY <1>1, RequestFacts
  <2>3. i \in s0 .. last
    BY <1>1, <1>2, <2>1, <2>2
  <2>4. QED
    BY <2>1, <2>3
<1>4. /\ uio.off \in Nat /\ eoff \in Nat /\ eoff < WORD /\ WORD \in Nat
      /\ s0 \in Nat /\ s0 <= i
  <2>1. /\ uio.off \in Nat /\ eoff \in Nat /\ SSTRIPE_DATASIZE \in Nat
        /\ eoff + SSTRIPE_DATASIZE < WORD /\ WORD \in Nat /\ s0 \in Nat
    BY <1>1, RequestFacts
  <2>2. QED
    BY <1>3, <2>1
<1>5. next_off = start_off + this_len /\ next_off \in Nat
  <2>1. stripe2useroff(i) \in Nat /\ SSTRIPE_DATASIZE \in Nat
        /\ next_off = stripe2useroff(i) + SSTRIPE_DATASIZE
    BY <1>1, Striping
  <2>2. QED
    BY <1>1, <2>1
<1>6. /\ start_off < next_off /\ uio.off <= start_off
      /\ PieceTo(uio, i) \in Nat
      /\ i < last => PieceTo(uio, i) = next_off /\ next_off < eoff
      /\ PieceTo(uio, i) <= next_off
      /\ PieceTo(uio, i) <= eoff
      /\ i = last => PieceTo(uio, i) = eoff
  <2>1. i = last => PieceTo(uio, i) = eoff
    BY <1>3 DEF PieceTo
  <2>2. QED
    BY <1>1, <1>3, <2>1, PieceBounds
<1>7. i < last => PieceFrom(uio, i + 1) = next_off
  <2>1. i + 1 # s0
    BY <1>1, <1>3, <1>4
  <2>2. QED
    BY <2>1 DEF PieceFrom
<1> HIDE DEF this_len, next_off, eoff, s0
<1>8. this_len \in Nat /\ this_len = next_off - start_off
  <2>1. this_len \in Int
    BY <1>1, Striping DEF this_len
  <2>2. QED
    BY <1>1, <1>5, <1>6, <2>1
<1>9. Upto(this_len) = PieceTo(uio, i) - PieceFrom(uio, i)
  BY <1>1, <1>3, <1>4, <1>5, <1>6, <1>8 DEF Upto
<1>10. stripes' = StripeSeq(uio, (i + 1) - s0)
  <2>1. i - s0 \in Nat /\ i - s0 + 1 = (i + 1) - s0 /\ s0 + (i - s0) = i
    BY <1>1, <1>3, <1>4
  <2>2. stripes' = Append(StripeSeq(uio, i - s0), PieceAt(uio, i))
    BY <1>2, <1>3, <1>9 DEF PieceAt
  <2> DEFINE n == i - s0
  <2> HIDE DEF n
  <2>3. Append(StripeSeq(uio, n), PieceAt(uio, s0 + n)) = StripeSeq(uio, n + 1)
    BY <2>1, StripeSeqGrows DEF n, s0
  <2>4. QED
    BY <2>1, <2>2, <2>3 DEF n
<1>11. /\ start_off' = next_off /\ start_buf' = next_off - uio.off
       /\ start_off' \in Nat /\ start_buf' \in Nat
  <2>1. /\ start_buf + this_len = next_off - uio.off
        /\ next_off - uio.off \in Nat
    <3>1. start_buf = start_off - uio.off
      BY <1>3
    <3>2. QED
      BY <1>1, <1>4, <1>5, <1>6, <1>8, <3>1
  <2>2. QED
    BY <1>2, <1>5, <2>1
<1>12. /\ remain_len' \in 0 .. WORD - 1
       /\ i < last => remain_len' = eoff - next_off
  <2>1. remain_len \in Nat /\ remain_len < WORD
    BY <1>1, <1>4
  <2>2. i < last => this_len <= remain_len
                    /\ remain_len - this_len = eoff - next_off
    BY <1>1, <1>3, <1>4, <1>5, <1>6, <1>8
  <2>3. QED
    BY <1>2, <1>8, <2>1, <2>2, MinusExact
<1>13. Types'
  BY <1>0, <1>1, <1>2, <1>3, <1>11, <1>12 DEF Types
<1>14. InStripes'
  <2>1. /\ i' \in FirstStripe(uio) .. last + 1
        /\ i' <= last => i < last
    <3>1. i' = i + 1
      BY <1>2
    <3>2. i \in Nat /\ last \in Nat /\ s0 \in Nat /\ s0 <= i /\ i <= last
      BY <1>1, <1>3, <1>4
    <3>3. QED
      BY <3>1, <3>2 DEF s0
  <2>2. i' <= last => /\ start_off' = PieceFrom(uio, i')
                      /\ start_buf' = start_off' - uio.off
                      /\ remain_len' = eoff - start_off'
    BY <1>2, <1>7, <1>11, <1>12, <2>1
  <2>3. /\ ck = 0 /\ last = LastStripe(uio)
        /\ blocks = BlockSeq(uio, 0) /\ dios = DioSeq(uio, 0)
        /\ stripes' = StripeSeq(uio, i' - s0)
    BY <1>2, <1>3, <1>10
  <2>4. QED
    BY <1>2, <2>1, <2>2, <2>3 DEF InStripes, s0, eoff
<1>15. (HasPieces /\ InBlocks /\ InChunks /\ InSchunks /\ AtEnd)'
  BY <1>2 DEF HasPieces, InBlocks, InChunks, InSchunks, AtEnd
<1>16. QED
  BY <1>13, <1>14, <1>15 DEF SplitInv

(* The piece that is cut, once the pieces are known.                       *)
LEMMA CurrentPiece ==
  ASSUME SplitInv, phase # "stripes"
  PROVE  /\ uio \in Requests /\ ck \in Nat
         /\ AtStripe \in FirstStripe(uio) .. LastStripe(uio)
         /\ stripes = StripeSeq(uio, NumPieces(uio))
         /\ ck \in 1 .. NumPieces(uio) /\ Len(stripes) = NumPieces(uio)
         /\ stripes[ck] = PieceAt(uio, AtStripe)
         /\ ck < Len(stripes) <=> AtStripe < LastStripe(uio)
         /\ AtStripe + 1 = FirstStripe(uio) + ck
<1>1. /\ uio \in Requests /\ ck \in Nat
      /\ AtStripe \in FirstStripe(uio) .. LastStripe(uio)
      /\ stripes = StripeSeq(uio, NumPieces(uio))
  BY DEF SplitInv, Types, HasPieces
<1>2. /\ FirstStripe(uio) \in Nat /\ LastStripe(uio) \in Nat
      /\ NumPieces(uio) = LastStripe(uio) - FirstStripe(uio) + 1
  BY <1>1, RequestFacts
<1>3. AtStripe = FirstStripe(uio) + (ck - 1)
  BY DEF AtStripe
<1>4. /\ NumPieces(uio) \in Nat /\ ck \in 1 .. NumPieces(uio)
      /\ ck < NumPieces(uio) <=> AtStripe < LastStripe(uio)
      /\ AtStripe + 1 = FirstStripe(uio) + ck
  BY <1>1, <1>2, <1>3
<1>5. Len(stripes) = NumPieces(uio)
  BY <1>1, <1>4, StripeSeqGrows
<1>6. stripes[ck] = PieceAt(uio, AtStripe)
  BY <1>1, <1>3, <1>4 DEF StripeSeq
<1>7. QED
  BY <1>1, <1>4, <1>5, <1>6

(* When a loop has done its last iteration, the next piece starts where    *)
(* the sequences end; after the last piece they are complete.              *)
LEMMA LoopEnds ==
  ASSUME SplitInv, phase \in {"stripes", "chunks", "schunks"}, i > last
  PROVE  LET s == FirstStripe(uio) + ck
         IN  /\ stripes = StripeSeq(uio, NumPieces(uio))
             /\ Len(stripes) = NumPieces(uio) /\ NumPieces(uio) \in Nat \ {0}
             /\ ck < Len(stripes) =>
                  /\ s \in FirstStripe(uio) .. LastStripe(uio)
                  /\ stripes[ck + 1] = PieceAt(uio, s)
                  /\ is_write => blocks = BlockSeq(uio, BlockOf(PieceFrom(uio, s))
                                                          - BlockOf(uio.off))
                  /\ is_write \/ Aligned =>
                       dios = DioSeq(uio, PieceFirst(uio, s) - FirstChunk(uio))
             /\ ck = Len(stripes) =>
                  /\ phase # "stripes"
                  /\ is_write => blocks = BlockSeq(uio, BlockOf(uio.len))
                  /\ is_write \/ Aligned =>
                       dios = DioSeq(uio, LastChunk(uio) - FirstChunk(uio) + 1)
<1> DEFINE s == FirstStripe(uio) + ck
<1>1. /\ uio \in Requests /\ ck \in Nat /\ i \in Nat /\ last \in Nat
  BY DEF SplitInv, Types
<1>2. /\ FirstStripe(uio) \in Nat /\ LastStripe(uio) \in Nat
      /\ FirstStripe(uio) <= LastStripe(uio)
      /\ NumPieces(uio) = LastStripe(uio) - FirstStripe(uio) + 1
      /\ FirstChunk(uio) \in Nat /\ LastChunk(uio) \in Nat
  BY <1>1, RequestFacts
<1>3. NumPieces(uio) \in Nat \ {0}
  BY <1>2
<1>4. CASE phase = "stripes"
  <2>1. /\ ck = 0 /\ last = LastStripe(uio) /\ i \in FirstStripe(uio) .. last + 1
        /\ stripes = StripeSeq(uio, i - FirstStripe(uio))
        /\ blocks = BlockSeq(uio, 0) /\ dios = DioSeq(uio, 0)
    BY <1>4 DEF SplitInv, InStripes
  <2>2. i - FirstStripe(uio) = NumPieces(uio)
    BY <1>1, <1>2, <2>1
  <2>3. stripes = StripeSeq(uio, NumPieces(uio)) /\ Len(stripes) = NumPieces(uio)
    BY <1>3, <2>1, <2>2, StripeSeqGrows
  <2>4. s = FirstStripe(uio) /\ s \in FirstStripe(uio) .. LastStripe(uio)
    BY <1>2, <2>1
  <2>5. stripes[ck + 1] = PieceAt(uio, s)
    BY <1>2, <1>3, <2>1, <2>3 DEF StripeSeq
  <2> HIDE DEF s
  <2>6. PieceFrom(uio, s) = uio.off /\ PieceFirst(uio, s) = FirstChunk(uio)
    BY <2>4 DEF PieceFrom, PieceFirst, FirstChunk
  <2>7. BlockOf(uio.off) - BlockOf(uio.off) = 0 /\ FirstChunk(uio) - FirstChunk(uio) = 0
    BY <1>1, <1>2, <2>4, PieceBlocks
  <2>8. ck # Len(stripes)
    BY <1>3, <2>1, <2>3
  <2>9. QED
    BY <1>3, <2>1, <2>3, <2>4, <2>5, <2>6, <2>7, <2>8 DEF s
<1>5. CASE phase \in {"chunks", "schunks"}
  <2> DEFINE t == AtStripe
  <2>1. /\ t \in FirstStripe(uio) .. LastStripe(uio)
        /\ stripes = StripeSeq(uio, NumPieces(uio))
        /\ Len(stripes) = NumPieces(uio) /\ ck \in 1 .. NumPieces(uio)
        /\ ck < Len(stripes) <=> t < LastStripe(uio)
        /\ t + 1 = s
    BY <1>5, CurrentPiece
  <2>2. is_write => /\ phase = "chunks"
                    /\ blocks = BlockSeq(uio, BlockOf(PieceTo(uio, t)) - BlockOf(uio.off))
    BY <1>5 DEF SplitInv, InChunks, InSchunks, AtTo
  <2>3. is_write \/ Aligned =>
          /\ AtChunk \in PieceFirst(uio, t) .. PieceLast(uio, t) + 1
          /\ last - i = PieceLast(uio, t) - AtChunk
          /\ dios = DioSeq(uio, AtChunk - FirstChunk(uio))
    BY <1>5 DEF SplitInv, InChunks, InSchunks
  <2> HIDE DEF s, t
  <2>4. /\ PieceFirst(uio, t) \in Nat /\ PieceLast(uio, t) \in Nat
        /\ t = LastStripe(uio) => PieceLast(uio, t) = LastChunk(uio)
        /\ t < LastStripe(uio) => PieceFirst(uio, t + 1) = PieceLast(uio, t) + 1
    BY <1>1, <2>1, PieceChunks
  <2>5. is_write \/ Aligned =>
          dios = DioSeq(uio, (PieceLast(uio, t) + 1) - FirstChunk(uio))
    <3> SUFFICES ASSUME is_write \/ Aligned
                 PROVE  dios = DioSeq(uio, (PieceLast(uio, t) + 1) - FirstChunk(uio))
      OBVIOUS
    <3>1. AtChunk = PieceLast(uio, t) + 1
      BY <1>1, <2>3, <2>4
    <3>2. QED
      BY <2>3, <3>1
  <2>6. ASSUME ck < Len(stripes)
        PROVE  /\ s \in FirstStripe(uio) .. LastStripe(uio)
               /\ stripes[ck + 1] = PieceAt(uio, s)
               /\ PieceFrom(uio, s) = PieceTo(uio, t)
               /\ PieceFirst(uio, s) = PieceLast(uio, t) + 1
    <3>1. /\ t < LastStripe(uio) /\ s # FirstStripe(uio) /\ t # LastStripe(uio)
          /\ s \in FirstStripe(uio) .. LastStripe(uio)
          /\ ck + 1 \in 1 .. NumPieces(uio)
          /\ FirstStripe(uio) + (ck + 1) - 1 = s
      BY <1>1, <1>2, <1>3, <2>1, <2>6 DEF s
    <3>2. PieceFrom(uio, s) = PieceTo(uio, t)
      BY <2>1, <3>1 DEF PieceFrom, PieceTo
    <3>3. stripes[ck + 1] = PieceAt(uio, s)
      BY <2>1, <3>1 DEF StripeSeq
    <3>4. QED
      BY <2>1, <2>4, <3>1, <3>2, <3>3
  <2>7. ASSUME ck = Len(stripes)
        PROVE  /\ BlockOf(PieceTo(uio, t)) - BlockOf(uio.off) = BlockOf(uio.len)
               /\ (PieceLast(uio, t) + 1) - FirstChunk(uio)
                    = LastChunk(uio) - FirstChunk(uio) + 1
    <3>1. t = LastStripe(uio)
      BY <1>2, <1>3, <2>1, <2>7
    <3>2. BlockOf(PieceTo(uio, t)) - BlockOf(uio.off) = BlockOf(uio.len)
      BY <1>1, <2>1, <3>1, PieceBlocks
    <3>3. QED
      BY <1>2, <2>4, <3>1, <3>2
  <2>8. QED
    BY <1>3, <1>5, <2>1, <2>2, <2>5, <2>6, <2>7 DEF s
<1>6. QED
  BY <1>4, <1>5

(* The chunk that an inner loop has come to, while it has another          *)
(* iteration to do: the loop's counter is that chunk's device position.    *)
LEMMA CurrentChunk ==
  ASSUME SplitInv, phase \in {"chunks", "schunks"}, i <= last,
         is_write \/ Aligned
  PROVE  LET s == AtStripe
             p == PieceAt(uio, s)
             c == AtChunk
         IN  /\ c \in PieceFirst(uio, s) .. PieceLast(uio, s) /\ c \in Nat
             /\ c \in FirstChunk(uio) .. LastChunk(uio)
             /\ i = FirstPos(p) + (c - PieceFirst(uio, s))
             /\ last - i = PieceLast(uio, s) - c
             /\ c < PieceLast(uio, s) <=> i < last
             /\ i + 1 = FirstPos(p) + ((c + 1) - PieceFirst(uio, s))
             /\ PieceFirst(uio, s) + ((i + 1) - FirstPos(p)) = c + 1
             /\ dios = DioSeq(uio, c - FirstChunk(uio))
             /\ start_off = ChunkFrom(uio, c) /\ remain_len = AtTo - start_off
<1> DEFINE s == AtStripe
           p == PieceAt(uio, s)
           c == AtChunk
<1>1. /\ uio \in Requests /\ i \in Nat /\ last \in Nat
  BY DEF SplitInv, Types
<1>2. s \in FirstStripe(uio) .. LastStripe(uio)
  BY CurrentPiece
<1>3. /\ c \in PieceFirst(uio, s) .. PieceLast(uio, s) + 1
      /\ last - i = PieceLast(uio, s) - c
      /\ dios = DioSeq(uio, c - FirstChunk(uio))
      /\ start_off = ChunkFrom(uio, c) /\ remain_len = AtTo - start_off
  BY DEF SplitInv, InChunks, InSchunks
<1>4. c = PieceFirst(uio, s) + (i - FirstPos(p))
  BY DEF AtChunk
<1> HIDE DEF c, s
<1>5. /\ PieceFirst(uio, s) \in Nat /\ PieceLast(uio, s) \in Nat
      /\ PieceFirst(uio, s) <= PieceLast(uio, s)
      /\ FirstChunk(uio) \in Nat /\ LastChunk(uio) \in Nat
      /\ FirstChunk(uio) <= PieceFirst(uio, s)
      /\ PieceLast(uio, s) <= LastChunk(uio)
  BY <1>1, <1>2, PieceChunks, RequestFacts
<1>6. FirstPos(p) \in Nat
  <2>1. PieceFirst(uio, s) \in PieceFirst(uio, s) .. PieceLast(uio, s)
    BY <1>5
  <2> HIDE DEF p
  <2>2. p = PieceAt(uio, s)
    BY DEF p
  <2>3. QED
    BY <1>1, <1>2, <2>1, <2>2, ChunkIteration
<1> HIDE DEF p
<1>7. c \in PieceFirst(uio, s) .. PieceLast(uio, s) /\ c \in Nat
  BY <1>1, <1>3, <1>5
<1>8. QED
  BY <1>1, <1>3, <1>4, <1>5, <1>6, <1>7 DEF c, s, p

LEMMA SplitChunkStep ==
  SplitInv /\ SplitChunk => SplitInv'
<1> SUFFICES ASSUME SplitInv, SplitChunk PROVE SplitInv'
  OBVIOUS
<1> DEFINE s == AtStripe
           p == PieceAt(uio, s)
           c == AtChunk
           q == user2stripe(p.off)
           eoff == stripe2useroff(q) + SCHUNK_SIZE *
                     (logical_distance(stripe2datapos(q), i, NUM_DEVFILES) + 1)
           n == c - FirstChunk(uio)
<1>1. /\ uio \in Requests /\ is_write \in BOOLEAN /\ ck \in Nat /\ i \in Nat
      /\ last \in Nat /\ start_off \in Nat /\ start_buf \in Nat
      /\ remain_len \in 0 .. WORD - 1
  BY DEF SplitInv, Types
<1>2. phase = "chunks" /\ i <= last
  BY DEF SplitChunk
<1>3. stripes[ck] = p /\ s \in FirstStripe(uio) .. LastStripe(uio)
  BY <1>2, CurrentPiece
<1>4. /\ dios' = Append(dios, Dio(Wrap(i), user2dev(start_off).off,
                                  Upto(eoff - start_off), p.buf + start_buf))
      /\ remain_len' = Minus(remain_len, eoff - start_off)
      /\ start_off' = eoff
      /\ start_buf' = start_buf + Upto(eoff - start_off)
      /\ i' = i + 1
      /\ UNCHANGED <<uio, is_write, phase, ck, last, stripes, blocks>>
  BY <1>3 DEF SplitChunk
<1>5. /\ is_write
      /\ blocks = BlockSeq(uio, BlockOf(PieceTo(uio, s)) - BlockOf(uio.off))
      /\ start_buf = start_off - PieceFrom(uio, s)
  BY <1>2 DEF SplitInv, InChunks, AtTo, AtFrom
<1>6. /\ c \in PieceFirst(uio, s) .. PieceLast(uio, s) /\ c \in Nat
      /\ c \in FirstChunk(uio) .. LastChunk(uio)
      /\ i = FirstPos(p) + (c - PieceFirst(uio, s))
      /\ last - i = PieceLast(uio, s) - c
      /\ c < PieceLast(uio, s) <=> i < last
      /\ PieceFirst(uio, s) + ((i + 1) - FirstPos(p)) = c + 1
      /\ dios = DioSeq(uio, n)
      /\ start_off = ChunkFrom(uio, c)
      /\ remain_len = PieceTo(uio, s) - start_off
  BY <1>2, <1>5, CurrentChunk DEF AtTo
<1>7. /\ p.off = PieceFrom(uio, s) /\ p.buf = PieceFrom(uio, s) - uio.off
  BY DEF PieceAt
<1> HIDE DEF s, c
<1>8. /\ Wrap(i) = user2dev(ChunkFrom(uio, c)).dev
      /\ eoff = ChunkOff(c + 1) /\ ChunkOff(c + 1) \in Nat
      /\ ChunkFrom(uio, c) < ChunkOff(c + 1)
      /\ c < PieceLast(uio, s) =>
           /\ ChunkTo(uio, c) = ChunkOff(c + 1)
           /\ ChunkFrom(uio, c + 1) = ChunkOff(c + 1)
           /\ ChunkOff(c + 1) < PieceTo(uio, s)
      /\ c = PieceLast(uio, s) =>
           /\ ChunkTo(uio, c) = PieceTo(uio, s)
           /\ PieceTo(uio, s) <= ChunkOff(c + 1)
  <2> HIDE DEF p
  <2>1. p = PieceAt(uio, s)
    BY DEF p
  <2>2. QED
    BY <1>1, <1>3, <1>6, <2>1, ChunkIteration
<1> HIDE DEF p, eoff, n
<1>9. /\ PieceFrom(uio, s) \in Nat /\ PieceTo(uio, s) \in Nat
      /\ uio.off <= PieceFrom(uio, s) /\ PieceFrom(uio, s) < PieceTo(uio, s)
      /\ uio.off \in Nat /\ PieceTo(uio, s) < WORD /\ WORD \in Nat
      /\ FirstChunk(uio) \in Nat
  <2>1. /\ uio.off \in Nat /\ uio.off + uio.len \in Nat /\ WORD \in Nat
        /\ (uio.off + uio.len) + SSTRIPE_DATASIZE < WORD
        /\ SSTRIPE_DATASIZE \in Nat /\ FirstChunk(uio) \in Nat
    BY <1>1, RequestFacts
  <2>2. /\ PieceFrom(uio, s) \in Nat /\ PieceTo(uio, s) \in Nat
        /\ uio.off <= PieceFrom(uio, s) /\ PieceFrom(uio, s) < PieceTo(uio, s)
        /\ PieceTo(uio, s) <= uio.off + uio.len
    BY <1>1, <1>3, PieceBounds
  <2>3. PieceTo(uio, s) < WORD
    BY <2>1, <2>2
  <2>4. QED
    BY <2>1, <2>2, <2>3
<1>10. /\ ChunkFrom(uio, c) \in Nat /\ ChunkTo(uio, c) \in Nat
       /\ ChunkFrom(uio, c) < ChunkTo(uio, c) /\ uio.off <= ChunkFrom(uio, c)
  BY <1>1, <1>6, ChunkBounds
<1>11. PieceFirst(uio, s) \in Nat /\ PieceLast(uio, s) \in Nat
  BY <1>1, <1>3, PieceChunks
<1>12. eoff - start_off \in Nat /\ eoff \in Nat
  BY <1>1, <1>6, <1>8
<1>13. Upto(eoff - start_off) = ChunkTo(uio, c) - ChunkFrom(uio, c)
  <2>1. CASE c < PieceLast(uio, s)
    BY <1>1, <1>6, <1>8, <1>9, <1>10, <2>1 DEF Upto
  <2>2. CASE c = PieceLast(uio, s)
    BY <1>1, <1>6, <1>8, <1>9, <1>10, <2>2 DEF Upto
  <2>3. QED
    BY <1>6, <1>11, <2>1, <2>2
<1>14. p.buf + start_buf = ChunkFrom(uio, c) - uio.off
  <2>1. p.buf \in Int /\ p.buf = PieceFrom(uio, s) - uio.off
    BY <1>7, <1>9
  <2>2. QED
    BY <1>1, <1>5, <1>6, <1>9, <2>1
<1>15. dios' = DioSeq(uio, (c + 1) - FirstChunk(uio))
  <2>1. dios' = Append(DioSeq(uio, n), ChunkDio(uio, c))
    BY <1>4, <1>6, <1>8, <1>13, <1>14 DEF ChunkDio
  <2>2. FirstChunk(uio) <= c /\ c + 1 - FirstChunk(uio) = (c + 1) - FirstChunk(uio)
    BY <1>6, <1>9
  <2>3. Append(DioSeq(uio, n), ChunkDio(uio, c)) = DioSeq(uio, c + 1 - FirstChunk(uio))
    BY <1>1, <1>6, <2>2, DioSeqGrows DEF n
  <2>4. QED
    BY <2>1, <2>2, <2>3
<1>16. dios' \in Seq(Dios)
  <2>1. ChunkDio(uio, c) \in Dios
    <3>1. ChunkFrom(uio, c) - uio.off \in Nat
          /\ ChunkTo(uio, c) - ChunkFrom(uio, c) \in Nat
      BY <1>9, <1>10
    <3>2. user2dev(ChunkFrom(uio, c)).off \in Nat
      BY <1>10, SameChunk
    <3>3. user2dev(ChunkFrom(uio, c)).dev \in Nat
      BY <1>10, ParityApart DEF Devices
    <3>4. QED
      BY <3>1, <3>2, <3>3 DEF ChunkDio, Dio, Dios
  <2>2. dios \in Seq(Dios)
    BY DEF SplitInv, Types
  <2>3. dios' = Append(dios, ChunkDio(uio, c))
    BY <1>4, <1>6, <1>8, <1>13, <1>14 DEF ChunkDio
  <2>4. QED
    BY <2>1, <2>2, <2>3
<1>17. /\ start_off' \in Nat /\ start_buf' \in Nat
       /\ i < last => start_buf' = start_off' - PieceFrom(uio, s)
  <2>1. /\ start_buf + Upto(eoff - start_off) \in Nat
        /\ i < last => start_buf + Upto(eoff - start_off) = eoff - PieceFrom(uio, s)
    BY <1>1, <1>5, <1>6, <1>8, <1>9, <1>10, <1>13
  <2>2. QED
    BY <1>4, <1>12, <2>1
<1>18. /\ remain_len' \in 0 .. WORD - 1
       /\ i < last => remain_len' = PieceTo(uio, s) - eoff
  <2>1. remain_len \in Nat /\ remain_len < WORD
    BY <1>1, <1>9
  <2>2. i < last => /\ eoff - start_off <= remain_len
                    /\ remain_len - (eoff - start_off) = PieceTo(uio, s) - eoff
    BY <1>1, <1>6, <1>8, <1>9, <1>12
  <2>3. QED
    BY <1>4, <1>12, <2>1, <2>2, MinusExact
<1>19. Types'
  <2>1. i' \in Nat
    BY <1>1, <1>4
  <2>2. QED
    BY <1>1, <1>2, <1>4, <1>16, <1>17, <1>18, <2>1 DEF Types
<1>20. /\ AtStripe' = s /\ AtChunk' = c + 1
       /\ AtTo' = PieceTo(uio, s) /\ AtFrom' = PieceFrom(uio, s)
  <2>1. AtStripe' = s
    BY <1>4 DEF AtStripe, s
  <2>2. AtChunk' = PieceFirst(uio, s) + ((i + 1) - FirstPos(p))
    BY <1>4, <2>1 DEF AtChunk, p
  <2>3. QED
    BY <1>4, <1>6, <2>1, <2>2 DEF AtTo, AtFrom
<1>21. InChunks'
  <2>1. /\ c + 1 \in PieceFirst(uio, s) .. PieceLast(uio, s) + 1
        /\ last - (i + 1) = PieceLast(uio, s) - (c + 1)
        /\ i + 1 <= last => i < last
    BY <1>1, <1>6, <1>11
  <2>2. i + 1 <= last => /\ start_off' = ChunkFrom(uio, c + 1)
                         /\ start_buf' = start_off' - PieceFrom(uio, s)
                         /\ remain_len' = PieceTo(uio, s) - start_off'
    BY <1>4, <1>6, <1>8, <1>17, <1>18, <2>1
  <2>3. QED
    BY <1>2, <1>4, <1>5, <1>15, <1>20, <2>1, <2>2 DEF InChunks
<1>22. HasPieces'
  <2>1. phase # "stripes" /\ stripes = StripeSeq(uio, NumPieces(uio))
    BY <1>2, CurrentPiece
  <2>2. QED
    BY <1>3, <1>4, <1>20, <2>1 DEF HasPieces
<1>23. (InStripes /\ InBlocks /\ InSchunks /\ AtEnd)'
  BY <1>2, <1>4 DEF InStripes, InBlocks, InSchunks, AtEnd
<1>24. QED
  BY <1>19, <1>21, <1>22, <1>23 DEF SplitInv

LEMMA ResetBlockStep ==
  SplitInv /\ ResetBlock => SplitInv'
<1> SUFFICES ASSUME SplitInv, ResetBlock PROVE SplitInv'
  OBVIOUS
<1> DEFINE s == AtStripe
           a == PieceFrom(uio, s)
           b == BlockOf(uio.off)
           n == BlockOf(a) - b + i
<1>1. /\ uio \in Requests /\ is_write \in BOOLEAN /\ ck \in Nat /\ i \in Nat
      /\ last \in Nat /\ start_off \in Nat /\ start_buf \in Nat
      /\ remain_len \in 0 .. WORD - 1
  BY DEF SplitInv, Types
<1>2. /\ phase = "blocks" /\ i <= last
      /\ blocks' = Append(blocks, BlockOf(start_off))
      /\ start_off' = start_off + BLK_SIZE
      /\ start_buf' = start_buf + BLK_SIZE
      /\ i' = i + 1
      /\ UNCHANGED <<uio, is_write, phase, ck, last, remain_len, stripes, dios>>
  BY DEF ResetBlock, BlockOf
<1>3. /\ is_write
      /\ last + 1 = BlockOf(AtTo) - BlockOf(AtFrom)
      /\ start_off = a + i * BLK_SIZE
      /\ blocks = BlockSeq(uio, n)
      /\ dios = DioSeq(uio, PieceFirst(uio, AtStripe) - FirstChunk(uio))
  BY <1>2 DEF SplitInv, InBlocks, AtFrom
<1>4. s \in FirstStripe(uio) .. LastStripe(uio)
      /\ stripes = StripeSeq(uio, NumPieces(uio))
  BY <1>2, CurrentPiece
<1>5. BLK_SIZE \in Nat \ {0}
  BY SplitAssumption
<1> HIDE DEF s
<1>6. /\ a \in Nat /\ Whole(a) /\ BlockOf(a) \in Nat /\ b \in Nat /\ b <= BlockOf(a)
  BY <1>1, <1>4, PieceBounds, PieceBlocks
<1> HIDE DEF a
<1>7. BlockOf(start_off) = BlockOf(a) + i
  <2> DEFINE x == BLK_SIZE * i
  <2>1. x \in Nat /\ Whole(x) /\ BlockOf(x) = i
    BY <1>1, <1>5, WholeBlocks
  <2>2. start_off = a + x
    BY <1>1, <1>3, <1>5, <1>6
  <2> HIDE DEF x
  <2>3. BlockOf(a + x) = BlockOf(a) + BlockOf(x)
    BY <1>6, <2>1, WholeSums
  <2>4. QED
    BY <2>1, <2>2, <2>3
<1>8. n \in Nat /\ b + n = BlockOf(a) + i /\ n + 1 = BlockOf(a) - b + (i + 1)
  BY <1>1, <1>6
<1>9. blocks' = BlockSeq(uio, n + 1)
  <2> HIDE DEF n, b
  <2>1. Append(BlockSeq(uio, n), b + n) = BlockSeq(uio, n + 1)
    BY <1>6, <1>8, BlockSeqGrows DEF b
  <2>2. QED
    BY <1>2, <1>3, <1>7, <1>8, <2>1
<1>10. start_off + BLK_SIZE = a + (i + 1) * BLK_SIZE
  BY <1>1, <1>3, <1>5, <1>6
<1>11. Types'
  <2>1. dios \in Seq(Dios)
    BY DEF SplitInv, Types
  <2>2. i' \in Nat /\ start_off' \in Nat /\ start_buf' \in Nat
    BY <1>1, <1>2, <1>5
  <2>3. QED
    BY <1>1, <1>2, <2>1, <2>2 DEF Types
<1>12. AtStripe' = AtStripe /\ AtTo' = AtTo /\ AtFrom' = AtFrom /\ AtFrom = a
  <2>1. AtStripe' = AtStripe
    BY <1>2 DEF AtStripe
  <2>2. QED
    BY <1>2, <2>1 DEF AtTo, AtFrom, a, s
<1>13. InBlocks'
  <2> HIDE DEF n
  <2>1. i' \in 0 .. last' + 1
    BY <1>1, <1>2
  <2>2. /\ start_off' = AtFrom' + i' * BLK_SIZE
        /\ blocks' = BlockSeq(uio, BlockOf(AtFrom') - BlockOf(uio.off) + i')
    BY <1>2, <1>8, <1>9, <1>10, <1>12
  <2>3. dios' = DioSeq(uio', PieceFirst(uio', AtStripe') - FirstChunk(uio'))
    BY <1>2, <1>3, <1>12
  <2>4. QED
    BY <1>2, <1>3, <1>12, <2>1, <2>2, <2>3 DEF InBlocks
<1>14. HasPieces'
  BY <1>2, <1>4, <1>12 DEF HasPieces, s
<1>15. (InStripes /\ InChunks /\ InSchunks /\ AtEnd)'
  BY <1>2 DEF InStripes, InChunks, InSchunks, AtEnd
<1>16. QED
  BY <1>11, <1>13, <1>14, <1>15 DEF SplitInv

(* The cursors with which split_chunk2dio and split_schunk start on the    *)
(* piece in stripe s.                                                      *)
LEMMA LoopStarts ==
  ASSUME NEW r \in Requests, NEW s \in FirstStripe(r) .. LastStripe(r),
         NEW p, p = PieceAt(r, s)
  PROVE  /\ p.off = PieceFrom(r, s) /\ p.off \in Nat
         /\ p.buf = p.off - r.off /\ p.buf \in Nat
         /\ p.len = PieceTo(r, s) - p.off /\ p.len \in Nat \ {0}
         /\ p.len \in 0 .. WORD - 1
         /\ FirstPos(p) \in Nat /\ LastPos(p) \in Nat
         /\ FirstPos(p) <= LastPos(p)
         /\ PieceFirst(r, s) + (FirstPos(p) - FirstPos(p)) = PieceFirst(r, s)
         /\ LastPos(p) - FirstPos(p) = PieceLast(r, s) - PieceFirst(r, s)
         /\ PieceFirst(r, s) \in PieceFirst(r, s) .. PieceLast(r, s) + 1
         /\ p.off = ChunkFrom(r, PieceFirst(r, s))
<1>1. /\ PieceFrom(r, s) \in Nat /\ PieceTo(r, s) \in Nat
      /\ PieceFrom(r, s) < PieceTo(r, s)
      /\ r.off <= PieceFrom(r, s) /\ PieceTo(r, s) <= r.off + r.len
  BY PieceBounds
<1>2. /\ r.off \in Nat /\ r.off + r.len \in Nat /\ WORD \in Nat
      /\ SSTRIPE_DATASIZE \in Nat /\ (r.off + r.len) + SSTRIPE_DATASIZE < WORD
  BY RequestFacts
<1>3. /\ PieceFirst(r, s) \in Nat /\ PieceLast(r, s) \in Nat
      /\ PieceFirst(r, s) <= PieceLast(r, s)
      /\ ChunkFrom(r, PieceFirst(r, s)) = PieceFrom(r, s)
  BY PieceChunks
<1>4. /\ p.off = PieceFrom(r, s) /\ p.buf = p.off - r.off
      /\ p.len = PieceTo(r, s) - p.off
  BY DEF PieceAt
<1>5. /\ FirstPos(p) \in Nat
      /\ LastPos(p) = FirstPos(p) + (PieceLast(r, s) - PieceFirst(r, s))
  <2>1. PieceFirst(r, s) \in PieceFirst(r, s) .. PieceLast(r, s)
    BY <1>3
  <2>2. QED
    BY <2>1, ChunkIteration
<1>6. p.buf \in Nat /\ p.len \in Nat \ {0} /\ p.len \in 0 .. WORD - 1
  BY <1>1, <1>2, <1>4
<1>7. QED
  BY <1>1, <1>3, <1>4, <1>5, <1>6

LEMMA EnterChunksStep ==
  SplitInv /\ EnterChunks => SplitInv'
<1> SUFFICES ASSUME SplitInv, EnterChunks PROVE SplitInv'
  OBVIOUS
<1> DEFINE s == AtStripe
           p == PieceAt(uio, s)
<1>1. /\ uio \in Requests /\ is_write \in BOOLEAN /\ ck \in Nat /\ i \in Nat
      /\ last \in Nat
  BY DEF SplitInv, Types
<1>2. /\ phase = "blocks" /\ i > last
  BY DEF EnterChunks
<1>3. /\ stripes[ck] = p /\ s \in FirstStripe(uio) .. LastStripe(uio)
      /\ stripes = StripeSeq(uio, NumPieces(uio))
  BY <1>2, CurrentPiece
<1>4. /\ phase' = "chunks" /\ i' = FirstPos(p) /\ last' = LastPos(p)
      /\ start_off' = p.off /\ start_buf' = 0 /\ remain_len' = p.len
      /\ UNCHANGED <<uio, is_write, ck, stripes, blocks, dios>>
  BY <1>3 DEF EnterChunks
<1>5. /\ is_write
      /\ last + 1 = BlockOf(AtTo) - BlockOf(AtFrom) /\ i \in 0 .. last + 1
      /\ blocks = BlockSeq(uio, BlockOf(AtFrom) - BlockOf(uio.off) + i)
      /\ dios = DioSeq(uio, PieceFirst(uio, s) - FirstChunk(uio))
  BY <1>2 DEF SplitInv, InBlocks
<1>6. blocks = BlockSeq(uio, BlockOf(AtTo) - BlockOf(uio.off))
  <2>1. BlockOf(AtFrom) \in Nat /\ BlockOf(AtTo) \in Nat /\ BlockOf(uio.off) \in Nat
    BY <1>1, <1>3, PieceBlocks DEF AtFrom, AtTo
  <2>2. BlockOf(AtFrom) - BlockOf(uio.off) + i = BlockOf(AtTo) - BlockOf(uio.off)
    BY <1>1, <1>2, <1>5, <2>1
  <2>3. QED
    BY <1>5, <2>2
<1> HIDE DEF s
<1>7. /\ p.off = PieceFrom(uio, s) /\ p.off \in Nat
      /\ p.len = PieceTo(uio, s) - p.off
      /\ p.len \in 0 .. WORD - 1
      /\ FirstPos(p) \in Nat /\ LastPos(p) \in Nat
      /\ PieceFirst(uio, s) + (FirstPos(p) - FirstPos(p)) = PieceFirst(uio, s)
      /\ LastPos(p) - FirstPos(p) = PieceLast(uio, s) - PieceFirst(uio, s)
      /\ PieceFirst(uio, s) \in PieceFirst(uio, s) .. PieceLast(uio, s) + 1
      /\ p.off = ChunkFrom(uio, PieceFirst(uio, s))
  <2> HIDE DEF p
  <2>1. p = PieceAt(uio, s)
    BY DEF p
  <2>2. QED
    BY <1>1, <1>3, <2>1, LoopStarts
<1> HIDE DEF p
<1>8. /\ AtStripe' = s /\ AtTo' = AtTo /\ AtFrom' = AtFrom
      /\ AtFrom = PieceFrom(uio, s) /\ AtTo = PieceTo(uio, s)
      /\ AtChunk' = PieceFirst(uio, s)
  <2>1. AtStripe' = s
    BY <1>4 DEF AtStripe, s
  <2>2. QED
    BY <1>4, <1>7, <2>1 DEF AtTo, AtFrom, AtChunk, s, p
<1>9. Types'
  <2>1. dios \in Seq(Dios)
    BY DEF SplitInv, Types
  <2>2. QED
    BY <1>1, <1>4, <1>7, <2>1 DEF Types
<1>10. InChunks'
  <2>1. p.off - p.off = 0
    BY <1>7
  <2>2. /\ start_off' = ChunkFrom(uio, PieceFirst(uio, s))
        /\ start_buf' = start_off' - PieceFrom(uio, s)
        /\ remain_len' = PieceTo(uio, s) - start_off'
    BY <1>4, <1>7, <2>1
  <2>3. QED
    BY <1>4, <1>5, <1>6, <1>7, <1>8, <2>2 DEF InChunks
<1>11. HasPieces'
  BY <1>3, <1>4, <1>8 DEF HasPieces
<1>12. (InStripes /\ InBlocks /\ InSchunks /\ AtEnd)'
  BY <1>4 DEF InStripes, InBlocks, InSchunks, AtEnd
<1>13. QED
  BY <1>9, <1>10, <1>11, <1>12 DEF SplitInv

LEMMA NextPieceStep ==
  SplitInv /\ NextPiece => SplitInv'
<1> SUFFICES ASSUME SplitInv, NextPiece PROVE SplitInv'
  OBVIOUS
<1> DEFINE s == FirstStripe(uio) + ck
           p == PieceAt(uio, s)
           total_length == IF p.len % BLK_SIZE = 0 THEN p.len
                           ELSE p.len + BLK_SIZE - (p.len % BLK_SIZE)
<1>1. /\ uio \in Requests /\ is_write \in BOOLEAN /\ ck \in Nat
  BY DEF SplitInv, Types
<1>2. /\ phase \in {"stripes", "chunks", "schunks"} /\ i > last
      /\ ck < Len(stripes) /\ ck' = ck + 1
      /\ UNCHANGED <<uio, is_write, stripes, blocks, dios>>
  BY DEF NextPiece
<1>3. /\ s \in FirstStripe(uio) .. LastStripe(uio)
      /\ stripes = StripeSeq(uio, NumPieces(uio))
      /\ stripes[ck + 1] = p
      /\ is_write => blocks = BlockSeq(uio, BlockOf(PieceFrom(uio, s))
                                              - BlockOf(uio.off))
      /\ is_write \/ Aligned =>
           dios = DioSeq(uio, PieceFirst(uio, s) - FirstChunk(uio))
  BY <1>2, LoopEnds
<1>4. IF is_write
      THEN /\ phase' = "blocks" /\ i' = 0
           /\ last' = total_length \div BLK_SIZE - 1
           /\ start_off' = p.off - (p.off % BLK_SIZE)
           /\ start_buf' = p.buf /\ remain_len' = total_length
      ELSE /\ phase' = "schunks" /\ i' = FirstPos(p) /\ last' = LastPos(p)
           /\ start_off' = p.off /\ start_buf' = p.buf /\ remain_len' = p.len
  BY <1>3 DEF NextPiece
<1>5. AtStripe' = s
  <2>1. AtStripe' = FirstStripe(uio) + ((ck + 1) - 1)
    BY <1>2 DEF AtStripe
  <2>2. QED
    BY <1>1, <2>1, RequestFacts
<1> HIDE DEF s
<1>6. /\ p.off = PieceFrom(uio, s) /\ p.off \in Nat
      /\ p.buf = p.off - uio.off /\ p.buf \in Nat
      /\ p.len = PieceTo(uio, s) - p.off /\ p.len \in 0 .. WORD - 1
      /\ FirstPos(p) \in Nat /\ LastPos(p) \in Nat
      /\ FirstPos(p) <= LastPos(p)
      /\ PieceFirst(uio, s) + (FirstPos(p) - FirstPos(p)) = PieceFirst(uio, s)
      /\ LastPos(p) - FirstPos(p) = PieceLast(uio, s) - PieceFirst(uio, s)
      /\ PieceFirst(uio, s) \in PieceFirst(uio, s) .. PieceLast(uio, s) + 1
      /\ p.off = ChunkFrom(uio, PieceFirst(uio, s))
  <2> HIDE DEF p
  <2>1. p = PieceAt(uio, s)
    BY DEF p
  <2>2. QED
    BY <1>1, <1>3, <2>1, LoopStarts
<1>7. /\ Whole(p.off) /\ Whole(p.len)
      /\ BlockOf(p.len) = BlockOf(PieceTo(uio, s)) - BlockOf(PieceFrom(uio, s))
      /\ BlockOf(p.len) \in Nat \ {0}
      /\ BlockOf(PieceFrom(uio, s)) - BlockOf(uio.off) \in Nat
  <2>1. /\ Whole(PieceFrom(uio, s))
        /\ Whole(PieceTo(uio, s) - PieceFrom(uio, s))
        /\ BlockOf(PieceTo(uio, s) - PieceFrom(uio, s))
             = BlockOf(PieceTo(uio, s)) - BlockOf(PieceFrom(uio, s))
        /\ BlockOf(PieceTo(uio, s) - PieceFrom(uio, s)) \in Nat \ {0}
        /\ BlockOf(PieceFrom(uio, s)) \in Nat /\ BlockOf(uio.off) \in Nat
        /\ BlockOf(uio.off) <= BlockOf(PieceFrom(uio, s))
    BY <1>1, <1>3, PieceBlocks
  <2>2. p.len = PieceTo(uio, s) - PieceFrom(uio, s)
    BY <1>6
  <2>3. BlockOf(PieceFrom(uio, s)) - BlockOf(uio.off) \in Nat
    BY <2>1
  <2> HIDE DEF p
  <2>4. QED
    BY <1>6, <2>1, <2>2, <2>3
<1>8. /\ AtTo' = PieceTo(uio, s) /\ AtFrom' = PieceFrom(uio, s)
      /\ AtChunk' = PieceFirst(uio, s) + (i' - FirstPos(p))
  BY <1>2, <1>5 DEF AtTo, AtFrom, AtChunk
<1> HIDE DEF p
<1>9. total_length = p.len
  BY <1>7 DEF Whole
<1> HIDE DEF total_length
<1>10. dios \in Seq(Dios)
  BY DEF SplitInv, Types
<1>11. HasPieces'
  BY <1>2, <1>3, <1>5 DEF HasPieces
<1>12. CASE is_write
  <2>1. /\ phase' = "blocks" /\ i' = 0 /\ last' = BlockOf(p.len) - 1
        /\ start_off' = p.off - (p.off % BLK_SIZE)
        /\ start_buf' = p.buf /\ remain_len' = p.len
    BY <1>4, <1>9, <1>12 DEF BlockOf
  <2>2. start_off' = p.off
    <3>1. p.off % BLK_SIZE = 0
      BY <1>7 DEF Whole
    <3>2. p.off - 0 = p.off
      BY <1>6
    <3>3. QED
      BY <2>1, <3>1, <3>2
  <2>3. last' \in Nat /\ last' + 1 = BlockOf(p.len) /\ i' \in 0 .. last' + 1
    BY <1>7, <2>1
  <2>4. Types'
    <3>1. ck' \in Nat /\ i' \in Nat
      BY <1>1, <1>2, <2>1
    <3>2. start_off' \in Nat /\ start_buf' \in Nat /\ remain_len' \in 0 .. WORD - 1
      BY <1>6, <2>1, <2>2
    <3>3. QED
      BY <1>1, <1>2, <1>10, <2>1, <2>3, <3>1, <3>2 DEF Types
  <2>5. InBlocks'
    <3>1. BLK_SIZE \in Nat
      BY SplitAssumption
    <3>2. /\ p.off + 0 * BLK_SIZE = p.off
          /\ BlockOf(PieceFrom(uio, s)) - BlockOf(uio.off) + 0
               = BlockOf(PieceFrom(uio, s)) - BlockOf(uio.off)
      BY <1>6, <1>7, <3>1
    <3>3. /\ start_off' = AtFrom' + i' * BLK_SIZE
          /\ blocks' = BlockSeq(uio', BlockOf(AtFrom') - BlockOf(uio'.off) + i')
      BY <1>2, <1>3, <1>6, <1>8, <1>12, <2>1, <2>2, <3>2
    <3>4. dios' = DioSeq(uio', PieceFirst(uio', AtStripe') - FirstChunk(uio'))
      BY <1>2, <1>3, <1>5, <1>12
    <3>5. last' + 1 = BlockOf(AtTo') - BlockOf(AtFrom')
      BY <1>7, <1>8, <2>3
    <3>6. QED
      BY <1>2, <1>12, <2>3, <3>3, <3>4, <3>5 DEF InBlocks
  <2>6. (InStripes /\ InChunks /\ InSchunks /\ AtEnd)'
    BY <2>1 DEF InStripes, InChunks, InSchunks, AtEnd
  <2>7. QED
    BY <1>11, <2>4, <2>5, <2>6 DEF SplitInv
<1>13. CASE ~is_write
  <2>1. /\ phase' = "schunks" /\ i' = FirstPos(p) /\ last' = LastPos(p)
        /\ start_off' = p.off /\ start_buf' = p.buf /\ remain_len' = p.len
    BY <1>4, <1>13
  <2>2. Types'
    <3>1. ck' \in Nat
      BY <1>1, <1>2
    <3>2. /\ i' \in Nat /\ last' \in Nat /\ start_off' \in Nat
          /\ start_buf' \in Nat /\ remain_len' \in 0 .. WORD - 1
      BY <1>6, <2>1
    <3>3. QED
      BY <1>1, <1>2, <1>10, <2>1, <3>1, <3>2 DEF Types
  <2>3. InSchunks'
    <3>1. AtChunk' = PieceFirst(uio, s)
      BY <1>6, <1>8, <2>1
    <3>2. last' - i' = PieceLast(uio, s) - PieceFirst(uio, s)
      BY <1>6, <2>1
    <3>3. Aligned => dios' = DioSeq(uio, PieceFirst(uio, s) - FirstChunk(uio))
      BY <1>2, <1>3
    <3>4. /\ start_off' = ChunkFrom(uio, PieceFirst(uio, s))
          /\ start_buf' = start_off' - uio.off
          /\ remain_len' = AtTo' - start_off'
      BY <1>6, <1>8, <2>1
    <3>5. Aligned' = Aligned
      BY <1>2 DEF Aligned
    <3>6. QED
      BY <1>2, <1>5, <1>6, <1>13, <3>1, <3>2, <3>3, <3>4, <3>5 DEF InSchunks
  <2>4. (InStripes /\ InBlocks /\ InChunks /\ AtEnd)'
    BY <2>1 DEF InStripes, InBlocks, InChunks, AtEnd
  <2>5. QED
    BY <1>11, <2>2, <2>3, <2>4 DEF SplitInv
<1>14. QED
  BY <1>1, <1>12, <1>13

LEMMA ReturnStep ==
  SplitInv /\ Return => SplitInv'
<1> SUFFICES ASSUME SplitInv, Return PROVE SplitInv'
  OBVIOUS
<1>1. /\ phase \in {"stripes", "chunks", "schunks"} /\ i > last
      /\ ck = Len(stripes) /\ phase' = "done"
      /\ UNCHANGED <<uio, is_write, ck, i, last, start_off, start_buf,
                     remain_len, stripes, blocks, dios>>
  BY DEF Return, cursors
<1>2. /\ phase # "stripes"
      /\ is_write => blocks = BlockSeq(uio, BlockOf(uio.len))
      /\ is_write \/ Aligned =>
           dios = DioSeq(uio, LastChunk(uio) - FirstChunk(uio) + 1)
  BY <1>1, LoopEnds
<1>3. Types'
  <2>1. Types
    BY DEF SplitInv
  <2>2. QED
    BY <1>1, <2>1 DEF Types
<1>4. HasPieces'
  <2>1. HasPieces /\ AtStripe' = AtStripe
    BY <1>1 DEF SplitInv, AtStripe
  <2>2. QED
    BY <1>1, <1>2, <2>1 DEF HasPieces
<1>5. AtEnd'
  BY <1>1, <1>2 DEF AtEnd, Aligned
<1>6. (InStripes /\ InBlocks /\ InChunks /\ InSchunks)'
  BY <1>1 DEF InStripes, InBlocks, InChunks, InSchunks
<1>7. QED
  BY <1>3, <1>4, <1>5, <1>6 DEF SplitInv

(* A request that starts at a chunk boundary starts every chunk there.     *)
LEMMA AlignedChunks ==
  ASSUME NEW r \in Requests, r.off % SCHUNK_SIZE = 0, NEW c \in Nat
  PROVE  ChunkFrom(r, c) = ChunkOff(c)
<1>1. r.off \in Nat
  BY RequestFacts
<1>2. SCHUNK_SIZE \in Nat \ {0}
  BY LayoutAssumption
<1> DEFINE x == r.off
           q == x \div SCHUNK_SIZE
           m == x % SCHUNK_SIZE
<1>3. q \in Nat /\ x = SCHUNK_SIZE * q + m /\ m = 0
  BY <1>1, <1>2, DivMod
<1> HIDE DEF q, m, x
<1>4. x = q * SCHUNK_SIZE
  BY <1>2, <1>3
<1>5. QED
  BY <1>4 DEF ChunkFrom, FirstChunk, ChunkOf, ChunkOff, q, x

LEMMA SplitSchunkStep ==
  SplitInv /\ SplitSchunk => SplitInv'
<1> SUFFICES ASSUME SplitInv, SplitSchunk PROVE SplitInv'
  OBVIOUS
<1> DEFINE s == AtStripe
           p == PieceAt(uio, s)
           c == AtChunk
           at == user2dev(start_off)
           len == Upto(SCHUNK_SIZE)
<1>1. /\ uio \in Requests /\ is_write \in BOOLEAN /\ ck \in Nat /\ i \in Nat
      /\ last \in Nat /\ start_off \in Nat /\ start_buf \in Nat
      /\ remain_len \in 0 .. WORD - 1
  BY DEF SplitInv, Types
<1>2. /\ phase = "schunks" /\ i <= last
      /\ dios' = Append(dios, Dio(at.dev, at.off, len, start_buf))
      /\ IF remain_len > SCHUNK_SIZE
         THEN /\ remain_len' = remain_len - SCHUNK_SIZE
              /\ start_off' = start_off + SCHUNK_SIZE
              /\ start_buf' = start_buf + SCHUNK_SIZE
         ELSE UNCHANGED <<remain_len, start_off, start_buf>>
      /\ i' = i + 1
      /\ UNCHANGED <<uio, is_write, phase, ck, last, stripes, blocks>>
  BY DEF SplitSchunk
<1>3. /\ s \in FirstStripe(uio) .. LastStripe(uio)
      /\ stripes = StripeSeq(uio, NumPieces(uio))
  BY <1>2, CurrentPiece
<1>4. ~is_write
  BY <1>2 DEF SplitInv, InSchunks
<1>5. SCHUNK_SIZE \in Nat \ {0} /\ WORD \in Nat
  BY LayoutAssumption, SplitAssumption
<1>6. len \in Nat
  BY <1>1, <1>5 DEF Upto
<1>7. dios' \in Seq(Dios)
  <2>1. at.dev \in Nat /\ at.off \in Nat
    BY <1>1, ParityApart, SameChunk DEF Devices
  <2> HIDE DEF at, len
  <2>2. Dio(at.dev, at.off, len, start_buf) \in Dios
    BY <1>1, <1>6, <2>1 DEF Dio, Dios
  <2>3. dios \in Seq(Dios)
    BY DEF SplitInv, Types
  <2>4. QED
    BY <1>2, <2>2, <2>3
<1>8. Types'
  <2>1. /\ remain_len' \in 0 .. WORD - 1 /\ start_off' \in Nat
        /\ start_buf' \in Nat /\ i' \in Nat
    BY <1>1, <1>2, <1>5
  <2>2. QED
    BY <1>1, <1>2, <1>7, <2>1 DEF Types
<1>9. /\ AtStripe' = s /\ AtTo' = AtTo /\ (Aligned' <=> Aligned)
      /\ AtTo = PieceTo(uio, s)
      /\ AtChunk' = PieceFirst(uio, s) + ((i + 1) - FirstPos(p))
  <2>1. AtStripe' = s
    BY <1>2 DEF AtStripe
  <2>2. QED
    BY <1>2, <2>1 DEF AtTo, Aligned, AtChunk
<1>10. ASSUME Aligned
       PROVE  /\ c + 1 \in PieceFirst(uio, s) .. PieceLast(uio, s) + 1
              /\ AtChunk' = c + 1
              /\ last - (i + 1) = PieceLast(uio, s) - (c + 1)
              /\ dios' = DioSeq(uio, (c + 1) - FirstChunk(uio))
              /\ i + 1 <= last =>
                   /\ start_off' = ChunkFrom(uio, c + 1)
                   /\ start_buf' = start_off' - uio.off
                   /\ remain_len' = PieceTo(uio, s) - start_off'
  <2>1. /\ c \in PieceFirst(uio, s) .. PieceLast(uio, s) /\ c \in Nat
        /\ c \in FirstChunk(uio) .. LastChunk(uio)
        /\ last - i = PieceLast(uio, s) - c
        /\ c < PieceLast(uio, s) <=> i < last
        /\ PieceFirst(uio, s) + ((i + 1) - FirstPos(p)) = c + 1
        /\ dios = DioSeq(uio, c - FirstChunk(uio))
        /\ start_off = ChunkFrom(uio, c) /\ remain_len = PieceTo(uio, s) - start_off
    BY <1>2, <1>9, <1>10, CurrentChunk
  <2>2. start_buf = start_off - uio.off
    BY <1>2, <1>10 DEF SplitInv, InSchunks
  <2> HIDE DEF s, c
  <2>3. /\ ChunkOff(c + 1) \in Nat
        /\ c < PieceLast(uio, s) =>
             /\ ChunkTo(uio, c) = ChunkOff(c + 1)
             /\ ChunkFrom(uio, c + 1) = ChunkOff(c + 1)
             /\ ChunkOff(c + 1) < PieceTo(uio, s)
        /\ c = PieceLast(uio, s) =>
             /\ ChunkTo(uio, c) = PieceTo(uio, s)
             /\ PieceTo(uio, s) <= ChunkOff(c + 1)
    <3> HIDE DEF p
    <3>1. p = PieceAt(uio, s)
      BY DEF p
    <3>2. QED
      BY <1>1, <1>3, <2>1, <3>1, ChunkIteration
  <2>4. /\ start_off + SCHUNK_SIZE = ChunkOff(c + 1)
    <3>1. start_off = ChunkOff(c)
      BY <1>1, <1>10, <2>1, AlignedChunks DEF Aligned
    <3>2. QED
      BY <2>1, <3>1, Chunking
  <2>5. /\ PieceTo(uio, s) \in Nat /\ PieceLast(uio, s) \in Nat
        /\ PieceFirst(uio, s) \in Nat /\ uio.off \in Nat /\ FirstChunk(uio) \in Nat
    BY <1>1, <1>3, PieceBounds, PieceChunks, RequestFacts
  <2> HIDE DEF p, at, len
  <2>6. len = ChunkTo(uio, c) - ChunkFrom(uio, c)
    <3>1. CASE c < PieceLast(uio, s)
      BY <1>1, <1>5, <2>1, <2>3, <2>4, <2>5, <3>1 DEF Upto, len
    <3>2. CASE c = PieceLast(uio, s)
      BY <1>1, <1>5, <2>1, <2>3, <2>4, <2>5, <3>2 DEF Upto, len
    <3>3. QED
      BY <2>1, <2>5, <3>1, <3>2
  <2>7. dios' = DioSeq(uio, (c + 1) - FirstChunk(uio))
    <3>1. dios' = Append(DioSeq(uio, c - FirstChunk(uio)), ChunkDio(uio, c))
      BY <1>2, <2>1, <2>2, <2>6 DEF ChunkDio, at
    <3>2. FirstChunk(uio) <= c /\ c + 1 - FirstChunk(uio) = (c + 1) - FirstChunk(uio)
      BY <2>1, <2>5
    <3>3. Append(DioSeq(uio, c - FirstChunk(uio)), ChunkDio(uio, c))
            = DioSeq(uio, c + 1 - FirstChunk(uio))
      BY <1>1, <2>1, <3>2, DioSeqGrows
    <3>4. QED
      BY <3>1, <3>2, <3>3
  <2>8. ASSUME i + 1 <= last
        PROVE  /\ start_off' = ChunkFrom(uio, c + 1)
               /\ start_buf' = start_off' - uio.off
               /\ remain_len' = PieceTo(uio, s) - start_off'
    <3>1. c < PieceLast(uio, s)
      BY <1>1, <2>1, <2>8
    <3>2. remain_len > SCHUNK_SIZE
      BY <1>1, <1>5, <2>1, <2>3, <2>4, <2>5, <3>1
    <3>3. /\ start_off' = ChunkFrom(uio, c + 1)
          /\ remain_len' = remain_len - SCHUNK_SIZE
          /\ start_off' = start_off + SCHUNK_SIZE
          /\ start_buf' = start_buf + SCHUNK_SIZE
      BY <1>2, <2>3, <2>4, <3>1, <3>2
    <3>4. /\ start_buf + SCHUNK_SIZE = (start_off + SCHUNK_SIZE) - uio.off
          /\ remain_len - SCHUNK_SIZE = PieceTo(uio, s) - (start_off + SCHUNK_SIZE)
      BY <1>1, <1>5, <2>1, <2>2, <2>5
    <3>5. QED
      BY <3>3, <3>4
  <2>9. /\ c + 1 \in PieceFirst(uio, s) .. PieceLast(uio, s) + 1
        /\ last - (i + 1) = PieceLast(uio, s) - (c + 1)
    BY <1>1, <2>1, <2>5
  <2>10. AtChunk' = c + 1
    BY <1>9, <2>1
  <2>11. QED
    BY <2>7, <2>8, <2>9, <2>10
<1>11. InSchunks'
  <2> HIDE DEF s, c, p, at, len
  <2>1. QED
    BY <1>2, <1>4, <1>9, <1>10 DEF InSchunks
<1>12. HasPieces'
  BY <1>2, <1>3, <1>9 DEF HasPieces
<1>13. (InStripes /\ InBlocks /\ InChunks /\ AtEnd)'
  BY <1>2 DEF InStripes, InBlocks, InChunks, AtEnd
<1>14. QED
  BY <1>8, <1>11, <1>12, <1>13 DEF SplitInv

(* The inductive invariant of the cuts: what each loop has emitted and what *)
(* it has left follow from where it is.                                    *)
THEOREM SplitInvariant == Spec => []SplitInv
<1>1. Init => SplitInv
  BY StartInv
<1>2. SplitInv /\ [Next]_vars => SplitInv'
  <2> SUFFICES ASSUME SplitInv, [Next]_vars PROVE SplitInv'
    OBVIOUS
  <2>1. CASE Finished \/ UNCHANGED vars
    <3>1. UNCHANGED <<uio, is_write, phase, ck, i, last, start_off, start_buf,
                      remain_len, stripes, blocks, dios>>
      BY <2>1 DEF Finished, vars, cursors
    <3>2. QED
      BY <3>1 DEF SplitInv, Types, InStripes, HasPieces, InBlocks, InChunks,
                  InSchunks, AtEnd, AtStripe, AtFrom, AtTo, AtChunk, Aligned
  <2>2. QED
    BY <2>1, SplitStripeStep, NextPieceStep, ResetBlockStep, EnterChunksStep,
       SplitChunkStep, SplitSchunkStep, ReturnStep DEF Next
<1>3. QED
  BY <1>1, <1>2, PTL DEF Spec

-----------------------------------------------------------------------------
(* What the invariant says of the result.                                  *)

(* The types of Split's variables hold in every state.                     *)
THEOREM SplitTypes == Spec => []TypeOK
<1>1. SplitInv => TypeOK
  <2> SUFFICES ASSUME SplitInv PROVE TypeOK
    OBVIOUS
  <2>1. Types
    BY DEF SplitInv
  <2>2. /\ uio \in Requests /\ FirstStripe(uio) \in Nat /\ LastStripe(uio) \in Nat
        /\ NumPieces(uio) = LastStripe(uio) - FirstStripe(uio) + 1
    BY <2>1, RequestFacts DEF Types
  <2>3. PICK n \in Nat : /\ stripes = StripeSeq(uio, n) /\ n <= NumPieces(uio)
                         /\ ck \in 0 .. n
    <3>1. CASE phase = "stripes"
      <4> DEFINE m == i - FirstStripe(uio)
      <4>1. /\ ck = 0 /\ last = LastStripe(uio)
            /\ i \in FirstStripe(uio) .. last + 1 /\ stripes = StripeSeq(uio, m)
        BY <3>1 DEF SplitInv, InStripes
      <4>2. m \in Nat /\ m <= NumPieces(uio) /\ ck \in 0 .. m
        BY <2>2, <4>1
      <4>3. QED
        BY <4>1, <4>2
    <3>2. CASE phase # "stripes"
      <4>1. stripes = StripeSeq(uio, NumPieces(uio)) /\ ck \in 1 .. NumPieces(uio)
        BY <3>2, CurrentPiece
      <4>2. NumPieces(uio) \in Nat
        BY <2>2, <4>1
      <4>3. QED
        BY <4>1, <4>2
    <3>3. QED
      BY <3>1, <3>2
  <2>4. ck \in 0 .. Len(stripes)
    BY <2>3, StripeSeqGrows
  <2>5. ASSUME NEW p \in ToSet(stripes)
        PROVE  {p.off, p.len, p.buf} \subseteq Nat
    <3>1. PICK k \in 1 .. n : p = PieceAt(uio, FirstStripe(uio) + k - 1)
      BY <2>3, <2>5 DEF ToSet, StripeSeq
    <3>2. FirstStripe(uio) + k - 1 \in FirstStripe(uio) .. LastStripe(uio)
      BY <2>2, <2>3, <3>1
    <3>3. p.off \in Nat /\ p.len \in Nat /\ p.buf \in Nat
      BY <2>2, <3>1, <3>2, LoopStarts
    <3>4. QED
      BY <3>3
  <2>6. \A d \in ToSet(dios) : d.dev \in Nat /\ {d.off, d.len, d.buf} \subseteq Nat
    <3>1. dios \in Seq(Dios)
      BY <2>1 DEF Types
    <3>2. ToSet(dios) \subseteq Dios
      BY <3>1 DEF ToSet
    <3>3. QED
      BY <3>2 DEF Dios
  <2>7. {i, last, start_off, start_buf} \subseteq Nat
    BY <2>1 DEF Types
  <2>8. QED
    BY <2>1, <2>4, <2>5, <2>6, <2>7 DEF Types, TypeOK
<1>2. QED
  BY <1>1, SplitInvariant, PTL

(* The unsigned subtractions of split_stripe_aligned and split_chunk2dio   *)
(* never wrap around while the loop has another iteration to do.           *)
THEOREM RemainIsExact == Spec => []RemainExact
<1>1. SplitInv => RemainExact
  <2> SUFFICES ASSUME SplitInv PROVE RemainExact
    OBVIOUS
  <2>1. /\ uio \in Requests /\ i \in Nat /\ last \in Nat
    BY DEF SplitInv, Types
  <2>2. ASSUME phase = "stripes", i <= last
        PROVE  /\ remain_len > 0
               /\ start_off + remain_len = uio.off + uio.len
               /\ start_buf = start_off - uio.off
    <3>1. /\ last = LastStripe(uio) /\ i \in FirstStripe(uio) .. last + 1
          /\ start_off = PieceFrom(uio, i) /\ start_buf = start_off - uio.off
          /\ remain_len = (uio.off + uio.len) - start_off
      BY <2>2 DEF SplitInv, InStripes
    <3>2. i \in FirstStripe(uio) .. LastStripe(uio)
      BY <2>1, <2>2, <3>1, RequestFacts
    <3>3. /\ PieceFrom(uio, i) \in Nat /\ PieceTo(uio, i) \in Nat
          /\ PieceFrom(uio, i) < PieceTo(uio, i)
          /\ PieceTo(uio, i) <= uio.off + uio.len /\ uio.off + uio.len \in Nat
      BY <2>1, <3>2, PieceBounds, RequestFacts
    <3>4. QED
      BY <3>1, <3>3
  <2>3. ASSUME phase = "chunks", i <= last
        PROVE  /\ remain_len > 0
               /\ start_off + remain_len = stripes[ck].off + stripes[ck].len
               /\ start_buf = start_off - stripes[ck].off
    <3> DEFINE s == AtStripe
               p == stripes[ck]
               c == AtChunk
    <3>1. /\ s \in FirstStripe(uio) .. LastStripe(uio) /\ p = PieceAt(uio, s)
      BY <2>3, CurrentPiece
    <3>2. is_write /\ start_buf = start_off - AtFrom
      BY <2>3 DEF SplitInv, InChunks
    <3>3. /\ c \in PieceFirst(uio, s) .. PieceLast(uio, s)
          /\ start_off = ChunkFrom(uio, c) /\ remain_len = PieceTo(uio, s) - start_off
      BY <2>3, <3>2, CurrentChunk DEF AtTo
    <3>4. /\ p.off = AtFrom /\ p.off \in Nat /\ p.len \in Nat
          /\ p.len = PieceTo(uio, s) - p.off
      BY <2>1, <3>1, LoopStarts DEF AtFrom
    <3> HIDE DEF s, c
    <3>5. /\ PieceTo(uio, s) \in Nat /\ ChunkFrom(uio, c) \in Nat
          /\ ChunkFrom(uio, c) < PieceTo(uio, s)
      <4>1. /\ PieceFirst(uio, s) \in Nat /\ PieceLast(uio, s) \in Nat
            /\ PieceTo(uio, s) \in Nat /\ c \in Nat
            /\ c \in FirstChunk(uio) .. LastChunk(uio)
        BY <2>1, <3>1, <3>3, PieceChunks, PieceBounds, RequestFacts
      <4>2. /\ ChunkFrom(uio, c) \in Nat /\ ChunkTo(uio, c) \in Nat
            /\ ChunkFrom(uio, c) < ChunkTo(uio, c)
        BY <2>1, <4>1, ChunkBounds
      <4>3. ChunkTo(uio, c) <= PieceTo(uio, s)
        <5> HIDE DEF p
        <5>1. /\ c < PieceLast(uio, s) =>
                   /\ ChunkTo(uio, c) = ChunkOff(c + 1)
                   /\ ChunkOff(c + 1) < PieceTo(uio, s)
              /\ c = PieceLast(uio, s) => ChunkTo(uio, c) = PieceTo(uio, s)
          BY <2>1, <3>1, <3>3, ChunkIteration
        <5>2. QED
          BY <3>3, <4>1, <4>2, <5>1
      <4>4. QED
        BY <4>1, <4>2, <4>3
    <3> HIDE DEF p
    <3>6. /\ remain_len > 0 /\ start_off + remain_len = p.off + p.len
          /\ start_buf = start_off - p.off
      BY <3>2, <3>3, <3>4, <3>5
    <3>7. QED
      BY <3>6 DEF p
  <2>4. QED
    BY <2>2, <2>3 DEF RemainExact
<1>2. QED
  BY <1>1, SplitInvariant, PTL

(* The closed form of a piece, by its stripe.                              *)
LEMMA PieceByStripe ==
  ASSUME NEW r \in Requests, NEW k \in 0 .. NumPieces(r) - 1
  PROVE  LET s == FirstStripe(r) + k
         IN  /\ s \in FirstStripe(r) .. LastStripe(r)
             /\ Piece(r, k) = [off |-> PieceFrom(r, s),
                               len |-> PieceTo(r, s) - PieceFrom(r, s)]
<1> DEFINE s == FirstStripe(r) + k
<1>1. /\ FirstStripe(r) \in Nat /\ LastStripe(r) \in Nat
      /\ NumPieces(r) = LastStripe(r) - FirstStripe(r) + 1
  BY RequestFacts
<1>2. /\ s \in FirstStripe(r) .. LastStripe(r)
      /\ k = 0 <=> s = FirstStripe(r)
      /\ k = NumPieces(r) - 1 <=> s = LastStripe(r)
  BY <1>1
<1>3. /\ (IF k = 0 THEN r.off ELSE stripe2useroff(FirstStripe(r) + k))
           = PieceFrom(r, s)
      /\ (IF k = NumPieces(r) - 1 THEN r.off + r.len
          ELSE stripe2useroff(FirstStripe(r) + k + 1)) = PieceTo(r, s)
  BY <1>2 DEF PieceFrom, PieceTo
<1>4. QED
  BY <1>2, <1>3 DEF Piece, FirstStripe

(* split_stripe_aligned returns the pieces of the closed form, each inside *)
(* one stripe, with its own part of the buffer.                            *)
THEOREM PiecesAreExact == Spec => []PiecesExact
<1>1. SplitInv => PiecesExact
  <2> SUFFICES ASSUME SplitInv, ck > 0 PROVE PiecesExact
    BY DEF PiecesExact
  <2>1. uio \in Requests /\ phase # "stripes"
    BY DEF SplitInv, Types, InStripes
  <2>2. /\ stripes = StripeSeq(uio, NumPieces(uio))
    BY <2>1, CurrentPiece
  <2>3. /\ FirstStripe(uio) \in Nat /\ LastStripe(uio) \in Nat
        /\ NumPieces(uio) = LastStripe(uio) - FirstStripe(uio) + 1
    BY <2>1, RequestFacts
  <2>4. ASSUME NEW k \in 1 .. NumPieces(uio)
        PROVE  /\ PieceAt(uio, FirstStripe(uio) + k - 1)
                    = [off |-> Piece(uio, k - 1).off, len |-> Piece(uio, k - 1).len,
                       buf |-> Piece(uio, k - 1).off - uio.off]
               /\ FirstStripe(uio) + k - 1 \in FirstStripe(uio) .. LastStripe(uio)
    <3> DEFINE m == k - 1
               s == FirstStripe(uio) + m
    <3>1. m \in 0 .. NumPieces(uio) - 1
      BY <2>3, <2>4
    <3> HIDE DEF m
    <3>2. /\ s \in FirstStripe(uio) .. LastStripe(uio)
          /\ Piece(uio, m).off = PieceFrom(uio, s)
          /\ Piece(uio, m).len = PieceTo(uio, s) - PieceFrom(uio, s)
      BY <2>1, <3>1, PieceByStripe
    <3> HIDE DEF s
    <3>3. PieceAt(uio, s) = [off |-> Piece(uio, m).off, len |-> Piece(uio, m).len,
                             buf |-> Piece(uio, m).off - uio.off]
      BY <3>2 DEF PieceAt
    <3>4. QED
      BY <3>2, <3>3 DEF m, s
  <2>5. stripes = [k \in 1 .. NumPieces(uio) |->
                     LET p == Piece(uio, k - 1)
                     IN  [off |-> p.off, len |-> p.len, buf |-> p.off - uio.off]]
    BY <2>2, <2>4 DEF StripeSeq
  <2>6. ASSUME NEW p \in ToSet(stripes)
        PROVE  user2stripe(p.off) = user2stripe(p.off + p.len - 1)
    <3>1. PICK k \in 1 .. NumPieces(uio) : p = PieceAt(uio, FirstStripe(uio) + k - 1)
      BY <2>2, <2>6 DEF ToSet, StripeSeq
    <3> DEFINE s == FirstStripe(uio) + k - 1
    <3>2. s \in FirstStripe(uio) .. LastStripe(uio) /\ p = PieceAt(uio, s)
      BY <2>4, <3>1
    <3> HIDE DEF s
    <3>3. /\ PieceFrom(uio, s) \in Nat /\ PieceTo(uio, s) \in Nat
          /\ user2stripe(PieceFrom(uio, s)) = s
          /\ user2stripe(PieceTo(uio, s) - 1) = s
      BY <2>1, <3>2, PieceBounds
    <3>4. p.off = PieceFrom(uio, s) /\ p.off + p.len - 1 = PieceTo(uio, s) - 1
      BY <3>2, <3>3 DEF PieceAt
    <3>5. QED
      BY <3>3, <3>4
  <2>7. QED
    BY <2>5, <2>6 DEF PiecesExact
<1>2. QED
  BY <1>1, SplitInvariant, PTL

(* A write resets the bits of exactly the blocks it writes.                *)
THEOREM BlocksAreExact == Spec => []BlocksExact
<1>1. SplitInv => BlocksExact
  BY DEF SplitInv, AtEnd, BlocksExact, BlockSeq, BlockOf
<1>2. QED
  BY <1>1, SplitInvariant, PTL

-----------------------------------------------------------------------------
(* The device I/Os of a whole request.                                     *)

(* An address lies in the chunk's part of the request exactly when it is   *)
(* an address of the request in that chunk.                                *)
LEMMA InPart ==
  ASSUME NEW r \in Requests, NEW c \in FirstChunk(r) .. LastChunk(r), NEW a \in Nat
  PROVE  /\ a \in ChunkFrom(r, c) .. ChunkTo(r, c) - 1 =>
              ChunkOf(a) = c /\ a \in r.off .. r.off + r.len - 1
         /\ a \in r.off .. r.off + r.len - 1 /\ ChunkOf(a) = c =>
              a \in ChunkFrom(r, c) .. ChunkTo(r, c) - 1
<1> DEFINE f == ChunkFrom(r, c)
           t == ChunkTo(r, c)
           eoff == r.off + r.len
<1>1. /\ c \in Nat /\ f \in Nat /\ t \in Nat /\ f < t /\ r.off <= f /\ t <= eoff
      /\ t <= ChunkOff(c + 1) /\ ChunkOff(c) <= f
  BY ChunkBounds
<1>2. /\ r.off \in Nat /\ eoff \in Nat /\ ChunkOff(c) \in Nat
      /\ c + 1 \in Nat /\ ChunkOff(c + 1) \in Nat
  <2>1. c + 1 \in Nat
    BY <1>1
  <2>2. QED
    BY <1>1, <2>1, RequestFacts, Chunking
<1>3. /\ f = r.off \/ f = ChunkOff(c)
      /\ t = eoff \/ t = ChunkOff(c + 1)
  BY DEF ChunkFrom, ChunkTo
<1> HIDE DEF f, t, eoff
<1>4. /\ ChunkOf(a) \in Nat /\ (ChunkOf(a) >= c <=> a >= ChunkOff(c))
      /\ ChunkOf(a) >= c + 1 <=> a >= ChunkOff(c + 1)
  BY <1>1, <1>2, Chunking
<1>5. a \in f .. t - 1 <=> a \in r.off .. eoff - 1 /\ ChunkOf(a) = c
  BY <1>1, <1>2, <1>3, <1>4
<1>6. r.off + r.len - 1 = eoff - 1
  BY SplitAssumption DEF eoff
<1>7. QED
  BY <1>5, <1>6 DEF f, t

(* What one I/O touches.                                                   *)
LEMMA DioTouches ==
  ASSUME NEW r \in Requests, NEW c \in FirstChunk(r) .. LastChunk(r)
  PROVE  /\ \A k \in 0 .. ChunkDio(r, c).len - 1 :
              LET a == ChunkFrom(r, c) + k
              IN  /\ a \in ChunkFrom(r, c) .. ChunkTo(r, c) - 1 /\ a \in Nat
                  /\ ChunkDio(r, c).dev = user2dev(a).dev
                  /\ ChunkDio(r, c).off + k = user2dev(a).off
                  /\ ChunkDio(r, c).buf + k = a - r.off
         /\ \A a \in ChunkFrom(r, c) .. ChunkTo(r, c) - 1 :
              /\ a - ChunkFrom(r, c) \in 0 .. ChunkDio(r, c).len - 1
              /\ ChunkFrom(r, c) + (a - ChunkFrom(r, c)) = a
<1> DEFINE f == ChunkFrom(r, c)
           t == ChunkTo(r, c)
<1>1. /\ c \in Nat /\ f \in Nat /\ t \in Nat /\ f < t /\ r.off <= f
      /\ ChunkOf(f) = c /\ r.off \in Nat
  BY ChunkBounds, RequestFacts
<1>2. /\ ChunkDio(r, c).dev = user2dev(f).dev /\ ChunkDio(r, c).off = user2dev(f).off
      /\ ChunkDio(r, c).len = t - f /\ ChunkDio(r, c).buf = f - r.off
  BY DEF ChunkDio, Dio
<1>3. ASSUME NEW a \in Nat, a \in f .. t - 1
      PROVE  /\ user2dev(a).dev = user2dev(f).dev
             /\ user2dev(a).off \in Nat /\ user2dev(f).off \in Nat
             /\ user2dev(a).off - user2dev(f).off = a - f
  <2>1. ChunkOf(a) = ChunkOf(f)
    BY <1>1, <1>3, InPart
  <2> HIDE DEF f
  <2>2. QED
    BY <1>1, <2>1, SameChunk
<1> HIDE DEF f, t
<1>4. ASSUME NEW k \in 0 .. ChunkDio(r, c).len - 1
      PROVE  LET a == f + k
             IN  /\ a \in f .. t - 1 /\ a \in Nat
                 /\ ChunkDio(r, c).dev = user2dev(a).dev
                 /\ ChunkDio(r, c).off + k = user2dev(a).off
                 /\ ChunkDio(r, c).buf + k = a - r.off
  <2> DEFINE a == f + k
  <2>1. a \in f .. t - 1 /\ a \in Nat /\ a - f = k /\ k \in Nat
    BY <1>1, <1>2
  <2>2. (f - r.off) + k = a - r.off
    BY <1>1, <2>1
  <2> HIDE DEF a
  <2>3. /\ user2dev(a).dev = user2dev(f).dev
        /\ user2dev(a).off \in Nat /\ user2dev(f).off \in Nat
        /\ user2dev(a).off - user2dev(f).off = k
    BY <1>3, <2>1
  <2>4. user2dev(f).off + k = user2dev(a).off
    BY <2>1, <2>3
  <2>5. QED
    BY <1>2, <2>1, <2>2, <2>3, <2>4 DEF a
<1>5. ASSUME NEW a \in f .. t - 1
      PROVE  a - f \in 0 .. ChunkDio(r, c).len - 1 /\ f + (a - f) = a
  BY <1>1, <1>2
<1>6. QED
  BY <1>4, <1>5 DEF f, t

LEMMA DiosTouchAll ==
  ASSUME NEW r \in Requests, NEW ds,
         ds = DioSeq(r, LastChunk(r) - FirstChunk(r) + 1)
  PROVE  /\ ToSet(ds) = {ChunkDio(r, c) : c \in FirstChunk(r) .. LastChunk(r)}
         /\ UNION {Cells(d) : d \in ToSet(ds)} =
              {<<user2dev(a).dev, user2dev(a).off, a - r.off>> :
                 a \in r.off .. r.off + r.len - 1}
         /\ \A m, n \in DOMAIN ds :
              m # n => Places(ds[m]) \intersect Places(ds[n]) = {}
<1> DEFINE f == FirstChunk(r)
           l == LastChunk(r)
           N == l - f + 1
           addrs == r.off .. r.off + r.len - 1
           Cell(a) == <<user2dev(a).dev, user2dev(a).off, a - r.off>>
<1>1. /\ f \in Nat /\ l \in Nat /\ f <= l /\ N \in Nat
      /\ r.off \in Nat /\ r.off + r.len - 1 \in Nat
  BY RequestFacts
<1>2. /\ DOMAIN ds = 1 .. N
      /\ \A m \in 1 .. N : ds[m] = ChunkDio(r, f + m - 1) /\ f + m - 1 \in f .. l
  BY <1>1 DEF DioSeq
<1>3. \A c \in f .. l : /\ c - f + 1 \in 1 .. N
                        /\ f + (c - f + 1) - 1 = c
  BY <1>1
<1> HIDE DEF f, l, N
<1>4. ToSet(ds) = {ChunkDio(r, c) : c \in f .. l}
  <2>1. ASSUME NEW d \in ToSet(ds)
        PROVE  d \in {ChunkDio(r, c) : c \in f .. l}
    BY <1>2, <2>1 DEF ToSet
  <2>2. ASSUME NEW c \in f .. l
        PROVE  ChunkDio(r, c) \in ToSet(ds)
    <3>1. ds[c - f + 1] = ChunkDio(r, c)
      BY <1>2, <1>3
    <3>2. QED
      BY <1>2, <1>3, <3>1 DEF ToSet
  <2>3. QED
    BY <2>1, <2>2
<1>5. \A c \in f .. l : c \in FirstChunk(r) .. LastChunk(r)
  BY DEF f, l
<1>6. UNION {Cells(d) : d \in ToSet(ds)} = {Cell(a) : a \in addrs}
  <2>1. ASSUME NEW d \in ToSet(ds), NEW x \in Cells(d)
        PROVE  x \in {Cell(a) : a \in addrs}
    <3>1. PICK c \in f .. l : d = ChunkDio(r, c)
      BY <1>4, <2>1
    <3>2. PICK k \in 0 .. d.len - 1 : x = <<d.dev, d.off + k, d.buf + k>>
      BY <2>1 DEF Cells
    <3> DEFINE a == ChunkFrom(r, c) + k
    <3>3. /\ a \in ChunkFrom(r, c) .. ChunkTo(r, c) - 1 /\ a \in Nat
          /\ d.dev = user2dev(a).dev /\ d.off + k = user2dev(a).off
          /\ d.buf + k = a - r.off
      BY <1>5, <3>1, <3>2, DioTouches
    <3> HIDE DEF a
    <3>4. a \in addrs
      BY <1>5, <3>3, InPart
    <3>5. x = Cell(a)
      BY <3>2, <3>3
    <3> HIDE DEF Cell, addrs
    <3>6. QED
      BY <3>4, <3>5
  <2>2. ASSUME NEW a \in addrs
        PROVE  Cell(a) \in UNION {Cells(d) : d \in ToSet(ds)}
    <3> DEFINE c == ChunkOf(a)
               d == ChunkDio(r, c)
               k == a - ChunkFrom(r, c)
    <3>1. a \in Nat /\ r.off <= a /\ a <= r.off + r.len - 1
      BY <1>1, <2>2
    <3>2. c \in FirstChunk(r) .. LastChunk(r)
      <4> DEFINE e == r.off + r.len - 1
      <4> HIDE DEF e
      <4>1. e \in Nat /\ a <= e
        BY <1>1, <3>1 DEF e
      <4>2. /\ ChunkOf(r.off) <= ChunkOf(a) /\ ChunkOf(a) <= ChunkOf(e)
            /\ ChunkOf(r.off) \in Nat /\ ChunkOf(a) \in Nat /\ ChunkOf(e) \in Nat
        BY <1>1, <3>1, <4>1, LayoutAssumption, DivMod, DivMonotone DEF ChunkOf
      <4>3. QED
        BY <4>2 DEF FirstChunk, LastChunk, e
    <3>3. a \in ChunkFrom(r, c) .. ChunkTo(r, c) - 1
      BY <2>2, <3>1, <3>2, InPart
    <3> HIDE DEF c
    <3>4. k \in 0 .. d.len - 1 /\ ChunkFrom(r, c) + k = a
      BY <3>2, <3>3, DioTouches
    <3>5. /\ d.dev = user2dev(a).dev /\ d.off + k = user2dev(a).off
          /\ d.buf + k = a - r.off
      <4> HIDE DEF k, d
      <4>1. /\ d.dev = user2dev(ChunkFrom(r, c) + k).dev
            /\ d.off + k = user2dev(ChunkFrom(r, c) + k).off
            /\ d.buf + k = (ChunkFrom(r, c) + k) - r.off
        BY <3>2, <3>4, DioTouches DEF d
      <4>2. QED
        BY <3>4, <4>1
    <3> HIDE DEF k
    <3>6. d \in ToSet(ds)
      BY <1>4, <3>2 DEF f, l
    <3> HIDE DEF d
    <3>7. Cell(a) \in Cells(d)
      BY <3>4, <3>5 DEF Cells
    <3>8. QED
      BY <3>6, <3>7
  <2>3. QED
    BY <2>1, <2>2
<1>7. ASSUME NEW m \in DOMAIN ds, NEW n \in DOMAIN ds, m # n
      PROVE  Places(ds[m]) \intersect Places(ds[n]) = {}
  <2> SUFFICES ASSUME NEW x \in Places(ds[m]) \intersect Places(ds[n]) PROVE FALSE
    OBVIOUS
  <2> DEFINE c == f + m - 1
             e == f + n - 1
  <2>1. /\ ds[m] = ChunkDio(r, c) /\ ds[n] = ChunkDio(r, e)
        /\ c \in FirstChunk(r) .. LastChunk(r) /\ e \in FirstChunk(r) .. LastChunk(r)
    BY <1>2, <1>5, <1>7
  <2>2. c # e
    BY <1>1, <1>2, <1>7 DEF f, N
  <2> HIDE DEF c, e
  <2>3. PICK j \in 0 .. ChunkDio(r, c).len - 1 :
               x = <<ChunkDio(r, c).dev, ChunkDio(r, c).off + j>>
    BY <2>1 DEF Places
  <2>4. PICK k \in 0 .. ChunkDio(r, e).len - 1 :
               x = <<ChunkDio(r, e).dev, ChunkDio(r, e).off + k>>
    BY <2>1 DEF Places
  <2> DEFINE a == ChunkFrom(r, c) + j
             b == ChunkFrom(r, e) + k
  <2>5. /\ a \in ChunkFrom(r, c) .. ChunkTo(r, c) - 1 /\ a \in Nat
        /\ x = <<user2dev(a).dev, user2dev(a).off>>
    BY <2>1, <2>3, DioTouches
  <2>6. /\ b \in ChunkFrom(r, e) .. ChunkTo(r, e) - 1 /\ b \in Nat
        /\ x = <<user2dev(b).dev, user2dev(b).off>>
    BY <2>1, <2>4, DioTouches
  <2> HIDE DEF a, b
  <2>7. ChunkOf(a) = c /\ ChunkOf(b) = e
    BY <2>1, <2>5, <2>6, InPart
  <2>8. user2dev(a) = user2dev(b)
    <3>1. user2dev(a).dev = user2dev(b).dev /\ user2dev(a).off = user2dev(b).off
      BY <2>5, <2>6
    <3>2. \A z \in {a, b} :
            user2dev(z) = [dev |-> user2dev(z).dev, off |-> user2dev(z).off]
      BY DEF user2dev
    <3>3. QED
      BY <3>1, <3>2
  <2>9. a = b
    BY <2>5, <2>6, <2>8, PlacementInjective
  <2>10. QED
    BY <2>2, <2>7, <2>9
<1>8. QED
  BY <1>4, <1>6, <1>7 DEF f, l

LEMMA DoneExact ==
  ASSUME SplitInv, is_write \/ Aligned
  PROVE  SplitExact
<1>1. uio \in Requests
  BY DEF SplitInv, Types
<1>2. phase = "done" => dios = DioSeq(uio, LastChunk(uio) - FirstChunk(uio) + 1)
  BY DEF SplitInv, AtEnd
<1>3. QED
  BY <1>1, <1>2, DiosTouchAll DEF SplitExact

(* A read that starts at a chunk boundary touches each of its units once,  *)
(* where user2dev places it, with its own place in the buffer.             *)
THEOREM AlignedReadsAreExact == Spec => []AlignedReadExact
<1>1. SplitInv => AlignedReadExact
  BY DoneExact DEF AlignedReadExact, Aligned
<1>2. QED
  BY <1>1, SplitInvariant, PTL

(* The closed form of the parts of a piece, by chunk.                      *)
LEMMA PartsOfPiece ==
  ASSUME NEW r \in Requests, NEW s \in FirstStripe(r) .. LastStripe(r)
  PROVE  Chunks([off |-> PieceFrom(r, s), len |-> PieceTo(r, s) - PieceFrom(r, s)])
           = {[off |-> ChunkFrom(r, c), len |-> ChunkTo(r, c) - ChunkFrom(r, c)] :
                c \in PieceFirst(r, s) .. PieceLast(r, s)}
<1> DEFINE a == PieceFrom(r, s)
           b == PieceTo(r, s)
           p == [off |-> a, len |-> b - a]
           lo(c) == Max({a, c * SCHUNK_SIZE})
           hi(c) == Min({b, (c + 1) * SCHUNK_SIZE})
<1>1. /\ a \in Nat /\ b \in Nat /\ a < b /\ b - 1 \in Nat
  BY PieceBounds
<1>2. /\ PieceFirst(r, s) \in Nat /\ PieceLast(r, s) \in Nat
      /\ FirstChunk(r) <= PieceFirst(r, s) /\ PieceLast(r, s) <= LastChunk(r)
      /\ FirstChunk(r) \in Nat /\ LastChunk(r) \in Nat
      /\ ChunkFrom(r, PieceFirst(r, s)) = a /\ ChunkTo(r, PieceLast(r, s)) = b
  BY PieceChunks, RequestFacts
<1>3. /\ a \div SCHUNK_SIZE = PieceFirst(r, s)
      /\ (b - 1) \div SCHUNK_SIZE = PieceLast(r, s)
  BY DEF PieceFirst, PieceLast, ChunkOf
<1>4. ASSUME NEW c \in PieceFirst(r, s) .. PieceLast(r, s)
      PROVE  lo(c) = ChunkFrom(r, c) /\ hi(c) = ChunkTo(r, c)
  <2>1. /\ c \in Nat /\ c + 1 \in Nat /\ c \in FirstChunk(r) .. LastChunk(r)
    BY <1>2
  <2> DEFINE x == ChunkOff(c)
             y == ChunkOff(c + 1)
  <2>2. /\ x \in Nat /\ y \in Nat
        /\ ChunkOf(a) >= c <=> a >= x
        /\ ChunkOf(a) >= c + 1 <=> a >= y
        /\ ChunkOf(b - 1) >= c <=> b - 1 >= x
        /\ ChunkOf(b - 1) >= c + 1 <=> b - 1 >= y
    BY <1>1, <2>1, Chunking
  <2>3. ChunkOf(a) = PieceFirst(r, s) /\ ChunkOf(b - 1) = PieceLast(r, s)
    BY DEF PieceFirst, PieceLast
  <2>4. /\ lo(c) = Max({a, x}) /\ hi(c) = Min({b, y})
    BY DEF ChunkOff
  <2>5. /\ ChunkFrom(r, c) \in Nat /\ ChunkTo(r, c) \in Nat
        /\ ChunkTo(r, c) <= y /\ x <= ChunkFrom(r, c)
    BY <2>1, ChunkBounds
  <2>6. /\ c # PieceFirst(r, s) => ChunkFrom(r, c) = x
        /\ c # PieceLast(r, s) => ChunkTo(r, c) = y
    BY <1>2, <2>1 DEF ChunkFrom, ChunkTo
  <2> HIDE DEF a, b, x, y, lo, hi
  <2>7. ChunkFrom(r, c) = IF a >= x THEN a ELSE x
    BY <1>1, <1>2, <1>4, <2>1, <2>2, <2>3, <2>5, <2>6
  <2>8. ChunkTo(r, c) = IF b <= y THEN b ELSE y
    BY <1>1, <1>2, <1>4, <2>1, <2>2, <2>3, <2>5, <2>6
  <2>9. Max({a, x}) = IF a >= x THEN a ELSE x
    <3>1. Max({a, x}) \in {a, x} /\ Max({a, x}) >= a /\ Max({a, x}) >= x
      <4>1. a \in Int /\ x \in Int
        BY <1>1, <2>2
      <4>2. QED
        BY <4>1, MaxOfTwo, Zenon
    <3>2. QED
      BY <1>1, <2>2, <3>1
  <2>10. Min({b, y}) = IF b <= y THEN b ELSE y
    <3>1. Min({b, y}) \in {b, y} /\ Min({b, y}) <= b /\ Min({b, y}) <= y
      <4>1. b \in Int /\ y \in Int
        BY <1>1, <2>2
      <4>2. QED
        BY <4>1, MinOfTwo, Zenon
    <3>2. QED
      BY <1>1, <2>2, <3>1
  <2>11. QED
    BY <2>4, <2>7, <2>8, <2>9, <2>10
<1>5. Chunks(p) = {[off |-> lo(c), len |-> hi(c) - lo(c)] :
                     c \in PieceFirst(r, s) .. PieceLast(r, s)}
  <2>1. p.off = a /\ p.off + p.len = b
    BY <1>1
  <2> HIDE DEF p, a, b
  <2>2. QED
    BY <1>3, <2>1 DEF Chunks
<1> HIDE DEF lo, hi
<1>6. QED
  BY <1>4, <1>5

(* Every chunk of a request is in exactly the pieces that reach it.        *)
LEMMA PieceOfChunk ==
  ASSUME NEW r \in Requests, NEW c \in FirstChunk(r) .. LastChunk(r)
  PROVE  \E s \in FirstStripe(r) .. LastStripe(r) :
           c \in PieceFirst(r, s) .. PieceLast(r, s)
<1> DEFINE a == ChunkFrom(r, c)
           s == user2stripe(a)
           eoff == r.off + r.len
           e1 == eoff - 1
<1>1. /\ a \in Nat /\ ChunkOf(a) = c /\ r.off <= a /\ a < eoff /\ c \in Nat
  <2>1. /\ a \in Nat /\ ChunkTo(r, c) \in Nat /\ a < ChunkTo(r, c)
        /\ ChunkTo(r, c) <= eoff /\ eoff \in Nat
        /\ r.off <= a /\ ChunkOf(a) = c /\ c \in Nat
    BY ChunkBounds, RequestFacts
  <2> HIDE DEF a, eoff
  <2>2. QED
    BY <2>1
<1>2. r.off \in Nat /\ eoff \in Nat /\ e1 \in Nat /\ r.off + r.len - 1 = e1
  BY RequestFacts
<1> HIDE DEF a, eoff
<1>3. s \in FirstStripe(r) .. LastStripe(r) /\ s \in Nat
  <2>1. a <= e1
    BY <1>1, <1>2
  <2> HIDE DEF e1
  <2>2. /\ user2stripe(r.off) \in Nat /\ user2stripe(a) \in Nat
        /\ user2stripe(e1) \in Nat
        /\ user2stripe(r.off) <= user2stripe(a) /\ user2stripe(a) <= user2stripe(e1)
    BY <1>1, <1>2, <2>1, StripeMonotone
  <2>3. QED
    BY <1>2, <2>2 DEF FirstStripe, LastStripe
<1> HIDE DEF s, e1
<1>4. user2stripe(a) = s
  BY DEF s
<1>5. PieceFrom(r, s) <= a /\ a <= PieceTo(r, s) - 1
  <2>1. /\ stripe2useroff(s) \in Nat /\ stripe2useroff(s + 1) \in Nat
        /\ a >= stripe2useroff(s) /\ ~(a >= stripe2useroff(s + 1))
    <3>1. s + 1 \in Nat /\ user2stripe(a) >= s /\ ~(user2stripe(a) >= s + 1)
      BY <1>3, <1>4
    <3>2. QED
      BY <1>1, <1>3, <3>1, Striping
  <2>2. /\ PieceFrom(r, s) = r.off \/ PieceFrom(r, s) = stripe2useroff(s)
        /\ PieceTo(r, s) = eoff \/ PieceTo(r, s) = stripe2useroff(s + 1)
    BY DEF PieceFrom, PieceTo, eoff
  <2>3. QED
    BY <1>1, <1>2, <2>1, <2>2
<1>6. PieceFrom(r, s) \in Nat /\ PieceTo(r, s) - 1 \in Nat
  BY <1>3, PieceBounds
<1>7. ChunkOf(PieceFrom(r, s)) <= c /\ c <= ChunkOf(PieceTo(r, s) - 1)
  <2> DEFINE x == PieceFrom(r, s)
             y == PieceTo(r, s) - 1
  <2> HIDE DEF x, y
  <2>1. x \in Nat /\ y \in Nat /\ x <= a /\ a <= y
    BY <1>5, <1>6 DEF x, y
  <2>2. ChunkOf(x) <= ChunkOf(a) /\ ChunkOf(a) <= ChunkOf(y)
    BY <1>1, <2>1, LayoutAssumption, DivMonotone DEF ChunkOf
  <2>3. QED
    BY <1>1, <2>2 DEF x, y
<1>8. PieceFirst(r, s) \in Nat /\ PieceLast(r, s) \in Nat
  BY <1>3, PieceChunks
<1>9. c \in PieceFirst(r, s) .. PieceLast(r, s)
  BY <1>1, <1>7, <1>8 DEF PieceFirst, PieceLast
<1>10. QED
  BY <1>3, <1>9

LEMMA PartsOfRequest ==
  ASSUME NEW r \in Requests
  PROVE  UNION {Chunks(Piece(r, k)) : k \in 0 .. NumPieces(r) - 1}
           = {[off |-> ChunkFrom(r, c), len |-> ChunkTo(r, c) - ChunkFrom(r, c)] :
                c \in FirstChunk(r) .. LastChunk(r)}
<1> DEFINE Part(c) == [off |-> ChunkFrom(r, c),
                       len |-> ChunkTo(r, c) - ChunkFrom(r, c)]
<1>1. /\ FirstStripe(r) \in Nat /\ LastStripe(r) \in Nat
      /\ NumPieces(r) = LastStripe(r) - FirstStripe(r) + 1
      /\ FirstChunk(r) \in Nat /\ LastChunk(r) \in Nat
  BY RequestFacts
<1>2. ASSUME NEW k \in 0 .. NumPieces(r) - 1
      PROVE  Chunks(Piece(r, k)) =
               {Part(c) : c \in PieceFirst(r, FirstStripe(r) + k)
                                  .. PieceLast(r, FirstStripe(r) + k)}
             /\ FirstStripe(r) + k \in FirstStripe(r) .. LastStripe(r)
  BY PieceByStripe, PartsOfPiece
<1>3. ASSUME NEW s \in FirstStripe(r) .. LastStripe(r),
             NEW c \in PieceFirst(r, s) .. PieceLast(r, s)
      PROVE  c \in FirstChunk(r) .. LastChunk(r)
  BY <1>1, PieceChunks
<1>4. ASSUME NEW c \in FirstChunk(r) .. LastChunk(r)
      PROVE  \E k \in 0 .. NumPieces(r) - 1 : Part(c) \in Chunks(Piece(r, k))
  <2>1. PICK s \in FirstStripe(r) .. LastStripe(r) :
               c \in PieceFirst(r, s) .. PieceLast(r, s)
    BY PieceOfChunk
  <2> DEFINE k == s - FirstStripe(r)
  <2>2. k \in 0 .. NumPieces(r) - 1 /\ FirstStripe(r) + k = s
    BY <1>1
  <2> HIDE DEF k, Part
  <2>3. Chunks(Piece(r, k)) = {Part(x) : x \in PieceFirst(r, s) .. PieceLast(r, s)}
    BY <1>2, <2>2
  <2>4. QED
    BY <2>1, <2>2, <2>3
<1> HIDE DEF Part
<1>5. ASSUME NEW k \in 0 .. NumPieces(r) - 1, NEW x \in Chunks(Piece(r, k))
      PROVE  x \in {Part(c) : c \in FirstChunk(r) .. LastChunk(r)}
  BY <1>2, <1>3, <1>5
<1>6. UNION {Chunks(Piece(r, k)) : k \in 0 .. NumPieces(r) - 1}
        = {Part(c) : c \in FirstChunk(r) .. LastChunk(r)}
  BY <1>4, <1>5
<1>7. QED
  BY <1>6 DEF Part

(* A write becomes one I/O per chunk of the request; together they touch   *)
(* each of its units once, where user2dev places it, from its own place in *)
(* the buffer, and nothing else.                                           *)
THEOREM WritesAreExact == Spec => []WriteExact
<1>1. SplitInv => WriteExact
  <2> SUFFICES ASSUME SplitInv, is_write PROVE WriteExact
    BY DEF WriteExact
  <2>1. uio \in Requests
    BY DEF SplitInv, Types
  <2>2. SplitExact
    BY DoneExact
  <2>3. ASSUME phase = "done"
        PROVE  ToSet(dios) =
                 {Dio(user2dev(c.off).dev, user2dev(c.off).off, c.len, c.off - uio.off) :
                    c \in UNION {Chunks(Piece(uio, k)) : k \in 0 .. NumPieces(uio) - 1}}
    <3> DEFINE Part(c) == [off |-> ChunkFrom(uio, c),
                           len |-> ChunkTo(uio, c) - ChunkFrom(uio, c)]
               ToDio(q) == Dio(user2dev(q.off).dev, user2dev(q.off).off, q.len,
                               q.off - uio.off)
               CS == FirstChunk(uio) .. LastChunk(uio)
               P == UNION {Chunks(Piece(uio, k)) : k \in 0 .. NumPieces(uio) - 1}
    <3>1. dios = DioSeq(uio, LastChunk(uio) - FirstChunk(uio) + 1)
      BY <2>3 DEF SplitInv, AtEnd
    <3>2. ToSet(dios) = {ChunkDio(uio, c) : c \in CS}
      BY <2>1, <3>1, DiosTouchAll
    <3>3. P = {Part(c) : c \in CS}
      BY <2>1, PartsOfRequest
    <3>4. \A c \in CS : ToDio(Part(c)) = ChunkDio(uio, c)
      BY DEF ChunkDio
    <3> HIDE DEF P, CS, Part, ToDio
    <3>5. {ToDio(q) : q \in P} = {ChunkDio(uio, c) : c \in CS}
      BY <3>3, <3>4
    <3>6. QED
      BY <3>2, <3>5 DEF P, ToDio
  <2>4. QED
    BY <2>2, <2>3 DEF WriteExact
<1>2. QED
  BY <1>1, SplitInvariant, PTL

=============================================================================
