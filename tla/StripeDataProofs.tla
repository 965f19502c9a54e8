-------------------------- MODULE StripeDataProofs --------------------------
(***************************************************************************)
(* What the I/Os of StripeData do to contents, for every geometry and any  *)
(* pieces, in whatever order they land and whatever a reader does between  *)
(* them: an address holds what was written to it last or is being written, *)
(* and in the stripes last written as a whole the parity chunk is the      *)
(* exclusive or of the data chunks, so that a read is right, also one that *)
(* reconstructs from such a stripe.                                        *)
(***************************************************************************)
EXTENDS StripeData, LayoutProofs, FiniteSetTheorems

-----------------------------------------------------------------------------
(* The chunks of a piece.                                                  *)

LEMMA ChunkFacts ==
  ASSUME NEW p, p.off \in Nat, p.len \in Nat \ {0}, NEW c \in Chunks(p)
  PROVE  /\ c = [off |-> c.off, len |-> c.len]
         /\ c.off \in Nat /\ c.len \in Nat \ {0}
         /\ p.off <= c.off /\ c.off + c.len <= p.off + p.len
         /\ ChunkOf(c.off) = ChunkOf(c.off + c.len - 1)
         /\ c.off = p.off \/ c.off = ChunkOff(ChunkOf(c.off))
<1> DEFINE eoff == p.off + p.len
<1>1. PICK q \in ChunkOf(p.off) .. ChunkOf(eoff - 1) :
        c = [off |-> Max({p.off, q * SCHUNK_SIZE}),
             len |-> Min({eoff, (q + 1) * SCHUNK_SIZE})
                       - Max({p.off, q * SCHUNK_SIZE})]
  BY DEF Chunks, ChunkOf
<1> DEFINE lo == Max({p.off, q * SCHUNK_SIZE})
           hi == Min({eoff, (q + 1) * SCHUNK_SIZE})
           m == ChunkOff(q)
           n == ChunkOff(q + 1)
<1>2. ChunkOf(p.off) \in Nat /\ ChunkOf(eoff - 1) \in Nat /\ eoff - 1 \in Nat /\ eoff \in Nat
  <2>1. eoff - 1 \in Nat /\ eoff \in Nat
    OBVIOUS
  <2> HIDE DEF eoff
  <2>2. QED
    BY <2>1, Chunking
<1>3. q \in Nat /\ q + 1 \in Nat
  BY <1>1, <1>2
<1>4. m \in Nat /\ n = m + SCHUNK_SIZE /\ n \in Nat /\ SCHUNK_SIZE \in Nat \ {0}
      /\ p.off < n /\ m <= eoff - 1
  <2>1. m \in Nat /\ n = m + SCHUNK_SIZE /\ SCHUNK_SIZE \in Nat \ {0}
    BY <1>3, Chunking, LayoutAssumption
  <2>2. m <= eoff - 1
    BY <1>1, <1>2, <1>3, <2>1, Chunking
  <2>3. ~(ChunkOf(p.off) >= q + 1)
    BY <1>1, <1>2, <1>3
  <2>4. ~(p.off >= n)
    BY <1>3, <2>3, Chunking
  <2>5. QED
    BY <2>1, <2>2, <2>4
<1>5. lo = Max({p.off, m}) /\ hi = Min({eoff, n})
  BY DEF ChunkOff
<1>6. c.off = lo /\ c.len = hi - lo /\ c = [off |-> c.off, len |-> c.len]
  BY <1>1
<1> HIDE DEF lo, hi, m, n
<1>7. lo \in {p.off, m} /\ lo >= p.off /\ lo >= m
  <2>1. p.off \in Int /\ m \in Int
    BY <1>4
  <2>2. Max({p.off, m}) \in {p.off, m} /\ Max({p.off, m}) >= p.off /\ Max({p.off, m}) >= m
    BY <2>1, MaxOfTwo, Zenon
  <2>3. QED
    BY <1>5, <2>2, Zenon
<1> HIDE DEF eoff
<1>8. hi \in {eoff, n} /\ hi <= eoff /\ hi <= n
  <2>1. eoff \in Int /\ n \in Int
    BY <1>2, <1>4
  <2>2. Min({eoff, n}) \in {eoff, n} /\ Min({eoff, n}) <= eoff /\ Min({eoff, n}) <= n
    BY <2>1, MinOfTwo, Zenon
  <2>3. QED
    BY <1>5, <2>2, Zenon
<1>9. eoff = p.off + p.len
  BY DEF eoff
<1>10. lo \in Nat /\ hi \in Nat /\ lo < hi
  BY <1>2, <1>4, <1>7, <1>8, <1>9
<1>11. ChunkOf(lo) = q /\ ChunkOf(hi - 1) = q
  <2>1. hi - 1 \in Nat /\ m <= lo /\ lo <= hi - 1 /\ ~(hi - 1 >= n)
    BY <1>4, <1>7, <1>8, <1>10
  <2>2. ChunkOf(lo) >= q /\ ChunkOf(hi - 1) >= q
    BY <1>3, <1>4, <1>10, <2>1, Chunking DEF m
  <2>3. ~(ChunkOf(lo) >= q + 1) /\ ~(ChunkOf(hi - 1) >= q + 1)
    BY <1>3, <1>4, <1>10, <2>1, Chunking DEF n
  <2>4. ChunkOf(lo) \in Nat /\ ChunkOf(hi - 1) \in Nat
    BY <1>10, <2>1, Chunking
  <2>5. QED
    BY <1>3, <2>2, <2>3, <2>4
<1>12. c.off + c.len = hi /\ c.off + c.len - 1 = hi - 1 /\ c.len \in Nat \ {0}
  BY <1>6, <1>10
<1>13. c.off = p.off \/ c.off = ChunkOff(ChunkOf(c.off))
  BY <1>6, <1>7, <1>11 DEF m
<1>14. QED
  BY <1>6, <1>7, <1>8, <1>9, <1>10, <1>11, <1>12, <1>13

(* Every address of a piece is in one of them.                             *)
LEMMA ChunksCover ==
  ASSUME NEW p, p.off \in Nat, p.len \in Nat \ {0},
         NEW a \in p.off .. p.off + p.len - 1
  PROVE  \E c \in Chunks(p) : a \in c.off .. c.off + c.len - 1
<1> DEFINE eoff == p.off + p.len
           q == ChunkOf(a)
           lo == Max({p.off, q * SCHUNK_SIZE})
           hi == Min({eoff, (q + 1) * SCHUNK_SIZE})
           c == [off |-> lo, len |-> hi - lo]
<1>1. a \in Nat /\ eoff \in Nat /\ eoff - 1 \in Nat /\ p.off <= a /\ a <= eoff - 1
  OBVIOUS
<1>2. q \in Nat /\ ChunkOf(p.off) <= q /\ q <= ChunkOf(eoff - 1)
      /\ ChunkOf(p.off) \in Nat /\ ChunkOf(eoff - 1) \in Nat
  <2>1. SCHUNK_SIZE \in Nat \ {0}
    BY LayoutAssumption
  <2> HIDE DEF eoff
  <2>2. QED
    BY <1>1, <2>1, DivMonotone, Chunking DEF ChunkOf
<1>3. c \in Chunks(p)
  <2> HIDE DEF q
  <2>1. q \in ChunkOf(p.off) .. ChunkOf(eoff - 1)
    BY <1>2
  <2>2. QED
    BY <2>1 DEF Chunks, ChunkOf
<1>4. ChunkOff(q) \in Nat /\ ChunkOff(q + 1) = ChunkOff(q) + SCHUNK_SIZE /\ q + 1 \in Nat
      /\ SCHUNK_SIZE \in Nat
  <2> HIDE DEF q
  <2>1. ChunkOff(q) \in Nat /\ ChunkOff(q + 1) = ChunkOff(q) + SCHUNK_SIZE
    BY <1>2, Chunking
  <2>2. QED
    BY <1>2, <2>1, LayoutAssumption
<1>5. ChunkOff(q) <= a /\ a < ChunkOff(q + 1)
  <2>1. q >= q /\ ~(q >= q + 1)
    BY <1>2
  <2>2. QED
    BY <1>1, <1>2, <1>4, <2>1, Chunking
<1>6. lo = Max({p.off, ChunkOff(q)}) /\ hi = Min({eoff, ChunkOff(q + 1)})
  BY DEF ChunkOff
<1>7. c.off = lo /\ c.len = hi - lo
  OBVIOUS
<1> HIDE DEF q, lo, hi, c, eoff
<1>8. lo \in {p.off, ChunkOff(q)} /\ hi \in {eoff, ChunkOff(q + 1)}
  <2>1. p.off \in Int /\ eoff \in Int /\ ChunkOff(q) \in Int /\ ChunkOff(q + 1) \in Int
    BY <1>1, <1>4
  <2>2. Max({p.off, ChunkOff(q)}) \in {p.off, ChunkOff(q)}
    BY <2>1, MaxOfTwo, Zenon
  <2>3. Min({eoff, ChunkOff(q + 1)}) \in {eoff, ChunkOff(q + 1)}
    BY <2>1, MinOfTwo, Zenon
  <2>4. QED
    BY <1>6, <2>2, <2>3, Zenon
<1>9. lo \in Nat /\ hi \in Nat /\ lo <= a /\ a < hi
  BY <1>1, <1>4, <1>5, <1>8
<1>10. QED
  BY <1>1, <1>3, <1>7, <1>9

-----------------------------------------------------------------------------
(* Multiples of the sector size.                                           *)

Aligned(n) == n % SECTOR_SIZE = 0

LEMMA AlignedIff ==
  ASSUME NEW n \in Nat
  PROVE  Aligned(n) <=> \E k \in Nat : n = k * SECTOR_SIZE
<1> USE DataAssumption
<1>1. ASSUME Aligned(n) PROVE \E k \in Nat : n = k * SECTOR_SIZE
  <2>1. n \div SECTOR_SIZE \in Nat
        /\ n = SECTOR_SIZE * (n \div SECTOR_SIZE) + (n % SECTOR_SIZE)
    BY DivMod
  <2>2. n = (n \div SECTOR_SIZE) * SECTOR_SIZE
    BY <1>1, <2>1 DEF Aligned
  <2>3. QED
    BY <2>1, <2>2
<1>2. ASSUME NEW k \in Nat, n = k * SECTOR_SIZE PROVE Aligned(n)
  <2>1. 0 \in 0 .. SECTOR_SIZE - 1 /\ k * SECTOR_SIZE + 0 = n
    BY <1>2
  <2>2. \A r \in 0 .. SECTOR_SIZE - 1 : (k * SECTOR_SIZE + r) % SECTOR_SIZE = r
    BY DivModUnique
  <2>3. QED
    BY <2>1, <2>2 DEF Aligned
<1>3. QED
  BY <1>1, <1>2

LEMMA AlignedSum ==
  ASSUME NEW m \in Nat, NEW n \in Nat, Aligned(m), Aligned(n)
  PROVE  Aligned(m + n) /\ (m <= n => Aligned(n - m))
<1> USE DataAssumption
<1>1. PICK j \in Nat : m = j * SECTOR_SIZE
  BY AlignedIff
<1>2. PICK k \in Nat : n = k * SECTOR_SIZE
  BY AlignedIff
<1>3. m + n = (j + k) * SECTOR_SIZE /\ j + k \in Nat
  BY <1>1, <1>2
<1>4. ASSUME m <= n PROVE Aligned(n - m)
  <2>1. j <= k
    <3>1. ASSUME j >= k + 1 PROVE FALSE
      <4>1. PICK d \in Nat : j = k + 1 + d
        BY <3>1
      <4>2. m = n + SECTOR_SIZE + d * SECTOR_SIZE /\ d * SECTOR_SIZE \in Nat
        BY <1>1, <1>2, <4>1
      <4>3. QED
        BY <1>4, <4>2
    <3>2. QED
      BY <3>1
  <2>2. n - m = (k - j) * SECTOR_SIZE /\ k - j \in Nat
    BY <1>1, <1>2, <2>1
  <2>3. QED
    BY <1>4, <2>2, AlignedIff
<1>5. QED
  BY <1>3, <1>4, AlignedIff

LEMMA AlignedChunk ==
  ASSUME NEW q \in Nat
  PROVE  ChunkOff(q) \in Nat /\ Aligned(ChunkOff(q))
<1> USE LayoutAssumption, DataAssumption
<1>1. PICK k \in Nat : SCHUNK_SIZE = k * SECTOR_SIZE
  BY AlignedIff DEF Aligned
<1>2. q * SCHUNK_SIZE = (q * k) * SECTOR_SIZE /\ q * k \in Nat
  BY <1>1
<1>3. ChunkOff(q) \in Nat
  BY DEF ChunkOff
<1>4. QED
  BY <1>2, <1>3, AlignedIff DEF ChunkOff

-----------------------------------------------------------------------------
(* Addresses and rows.                                                     *)

LEMMA InStripe ==
  ASSUME NEW r \in Nat, NEW s \in Nat
  PROVE  devoff2stripe(r) = s <=> ChunkOff(s) <= r /\ r <= ChunkOff(s) + SCHUNK_SIZE - 1
<1> DEFINE q == devoff2stripe(r)
<1>1. q \in Nat /\ (q >= s <=> r >= ChunkOff(s)) /\ (q >= s + 1 <=> r >= ChunkOff(s + 1))
      /\ ChunkOff(s + 1) = ChunkOff(s) + SCHUNK_SIZE /\ ChunkOff(s) \in Nat
      /\ SCHUNK_SIZE \in Nat
  <2>1. q = ChunkOf(r) /\ s + 1 \in Nat /\ SCHUNK_SIZE \in Nat
    BY LayoutAssumption DEF devoff2stripe, ChunkOf
  <2> HIDE DEF q
  <2>2. QED
    BY <2>1, Chunking
<1> HIDE DEF q
<1>2. q = s <=> ChunkOff(s) <= r /\ r <= ChunkOff(s) + SCHUNK_SIZE - 1
  BY <1>1
<1>3. QED
  BY <1>2 DEF q

LEMMA RowsOfStripes ==
  ASSUME NEW r \in Nat
  PROVE  /\ devoff2stripe(r) \in Nat
         /\ r \in Rows <=> devoff2stripe(r) \in Stripes
<1> USE LayoutAssumption, DataAssumption
<1>1. devoff2stripe(r) \in Nat
      /\ (devoff2stripe(r) >= NUM_STRIPES <=> r >= ChunkOff(NUM_STRIPES))
      /\ ChunkOff(NUM_STRIPES) \in Nat
  <2>1. devoff2stripe(r) = ChunkOf(r)
    BY DEF devoff2stripe, ChunkOf
  <2>2. QED
    BY <2>1, Chunking
<1>2. Rows = 0 .. ChunkOff(NUM_STRIPES) - 1
  BY DEF Rows, ChunkOff
<1>3. QED
  BY <1>1, <1>2 DEF Stripes

LEMMA AddressPlace ==
  ASSUME NEW a \in Addresses
  PROVE  /\ a \in Nat
         /\ user2stripe(a) \in Stripes
         /\ user2dev(a).dev \in Devices
         /\ user2dev(a).off \in Rows
         /\ devoff2stripe(user2dev(a).off) = user2stripe(a)
         /\ user2dev(a).dev # stripe2paritypos(user2stripe(a))
<1> USE DataAssumption
<1>1. a \in Nat /\ stripe2useroff(NUM_STRIPES) \in Nat /\ a < stripe2useroff(NUM_STRIPES)
  <2>1. stripe2useroff(NUM_STRIPES) \in Nat
    BY Striping
  <2>2. QED
    BY <2>1 DEF Addresses, stripe2useroff
<1>2. user2stripe(a) \in Nat /\ ~(user2stripe(a) >= NUM_STRIPES)
  <2>1. user2stripe(a) \in Nat /\ (user2stripe(a) >= NUM_STRIPES <=> a >= stripe2useroff(NUM_STRIPES))
    BY <1>1, Striping
  <2>2. QED
    BY <1>1, <2>1
<1>3. user2stripe(a) \in Stripes
  BY <1>2 DEF Stripes
<1>4. user2dev(a).off \in Nat
  BY <1>1, SameChunk
<1>5. QED
  BY <1>1, <1>3, <1>4, StripeOfDevOffset, ParityApart, RowsOfStripes

-----------------------------------------------------------------------------
(* The pieces that are written and read, and their device I/Os.            *)

IsPiece(p) ==
  /\ p.off \in Addresses /\ p.len \in Nat \ {0}
  /\ p.off + p.len - 1 \in Addresses
  /\ p.off % SECTOR_SIZE = 0 /\ p.len % SECTOR_SIZE = 0
  /\ user2stripe(p.off) = user2stripe(p.off + p.len - 1)

LEMMA PiecesArePieces ==
  ASSUME NEW p \in WritePieces \union FollowerPieces
  PROVE  IsPiece(p)
BY DataAssumption DEF IsPiece

LEMMA PieceFacts ==
  ASSUME NEW p, IsPiece(p)
  PROVE  /\ p.off \in Nat /\ p.len \in Nat \ {0}
         /\ user2stripe(p.off) \in Stripes
         /\ \A a \in p.off .. p.off + p.len - 1 :
              a \in Addresses /\ a \in Nat /\ user2stripe(a) = user2stripe(p.off)
<1> DEFINE N == NUM_STRIPES * SSTRIPE_DATASIZE
<1>1. N \in Nat
  <2>1. SSTRIPE_DATASIZE \in Nat /\ NUM_STRIPES \in Nat
    BY Striping, DataAssumption
  <2>2. QED
    BY <2>1
<1>2. Addresses = 0 .. N - 1
  BY DEF Addresses
<1> HIDE DEF N
<1>3. p.off \in Nat /\ p.len \in Nat \ {0} /\ p.off \in Addresses
  BY <1>1, <1>2 DEF IsPiece
<1>4. ASSUME NEW a \in p.off .. p.off + p.len - 1
      PROVE  a \in Addresses /\ a \in Nat /\ user2stripe(a) = user2stripe(p.off)
  <2> DEFINE b == p.off + p.len - 1
  <2>1. a \in Addresses /\ a \in Nat /\ b \in Nat /\ p.off <= a /\ a <= b
    BY <1>1, <1>2, <1>3 DEF IsPiece
  <2> HIDE DEF b
  <2>2. user2stripe(p.off) <= user2stripe(a) /\ user2stripe(a) <= user2stripe(b)
        /\ user2stripe(p.off) \in Nat /\ user2stripe(a) \in Nat
    BY <1>3, <2>1, StripeMonotone
  <2>3. user2stripe(p.off) = user2stripe(b)
    BY DEF IsPiece, b
  <2>4. QED
    BY <2>1, <2>2, <2>3
<1>5. QED
  BY <1>3, <1>4, AddressPlace

(* The I/O of a chunk: what each row of it gets.                           *)
LEMMA DioFacts ==
  ASSUME NEW p, IsPiece(p), NEW c \in Chunks(p), NEW w
  PROVE  /\ c.off \in Nat /\ c.len \in Nat \ {0}
         /\ Dio(c, w).dev \in Devices /\ Dio(c, w).off \in Nat
         /\ Dio(c, w).len = c.len
         /\ Dio(c, w).dev = user2dev(c.off).dev
         /\ Dio(c, w).off = user2dev(c.off).off
         /\ \A a \in c.off .. c.off + c.len - 1 :
              /\ a \in p.off .. p.off + p.len - 1
              /\ user2dev(a).dev = Dio(c, w).dev
              /\ user2dev(a).off = Dio(c, w).off + (a - c.off)
              /\ Dio(c, w).data[a - c.off] = Data(io_count, w, a)
         /\ DOMAIN Dio(c, w).data = 0 .. c.len - 1
<1>1. p.off \in Nat /\ p.len \in Nat \ {0}
  BY PieceFacts
<1>2. /\ c.off \in Nat /\ c.len \in Nat \ {0}
      /\ p.off <= c.off /\ c.off + c.len <= p.off + p.len
      /\ ChunkOf(c.off) = ChunkOf(c.off + c.len - 1)
  BY <1>1, ChunkFacts
<1>3. Dio(c, w) = [dev |-> user2dev(c.off).dev, off |-> user2dev(c.off).off, len |-> c.len,
                   data |-> [k \in 0 .. c.len - 1 |-> Data(io_count, w, c.off + k)]]
  BY DEF Dio
<1>4. /\ Dio(c, w).dev = user2dev(c.off).dev /\ Dio(c, w).off = user2dev(c.off).off
      /\ Dio(c, w).len = c.len
      /\ Dio(c, w).data = [k \in 0 .. c.len - 1 |-> Data(io_count, w, c.off + k)]
  BY <1>3
<1>5. c.off \in p.off .. p.off + p.len - 1
  <2>1. \A x, y, m, n \in Nat : n # 0 /\ x <= y /\ y + n <= x + m => y \in x .. x + m - 1
    OBVIOUS
  <2>2. QED
    BY <1>1, <1>2, <2>1
<1>6. user2dev(c.off).dev \in Devices /\ user2dev(c.off).off \in Nat
  BY <1>2, ParityApart, SameChunk
<1>7. ASSUME NEW a \in c.off .. c.off + c.len - 1
      PROVE  /\ a \in p.off .. p.off + p.len - 1
             /\ user2dev(a).dev = Dio(c, w).dev
             /\ user2dev(a).off = Dio(c, w).off + (a - c.off)
             /\ Dio(c, w).data[a - c.off] = Data(io_count, w, a)
  <2> DEFINE b == c.off + c.len - 1
  <2>1. a \in Nat /\ b \in Nat /\ c.off <= a /\ a <= b /\ a \in p.off .. p.off + p.len - 1
    BY <1>1, <1>2
  <2>2. ChunkOf(c.off) = ChunkOf(b)
    BY <1>2
  <2> HIDE DEF b
  <2>3. ChunkOf(c.off) <= ChunkOf(a) /\ ChunkOf(a) <= ChunkOf(b)
        /\ ChunkOf(c.off) \in Nat /\ ChunkOf(a) \in Nat
    <3>1. SCHUNK_SIZE \in Nat \ {0}
      BY LayoutAssumption
    <3>2. c.off \in Nat
      BY <1>2
    <3>3. QED
      BY <2>1, <3>1, <3>2, DivMonotone, Chunking DEF ChunkOf
  <2>4. ChunkOf(a) = ChunkOf(c.off)
    BY <2>2, <2>3
  <2>5. user2dev(a).dev = user2dev(c.off).dev /\ user2dev(a).off \in Nat
        /\ user2dev(a).off - user2dev(c.off).off = a - c.off
    BY <1>2, <2>1, <2>4, SameChunk
  <2>6. a - c.off \in 0 .. c.len - 1 /\ c.off + (a - c.off) = a
    BY <1>2
  <2>7. QED
    BY <1>2, <1>4, <1>6, <2>1, <2>5, <2>6
<1>8. QED
  BY <1>2, <1>4, <1>6, <1>7

LEMMA DioRows ==
  ASSUME NEW p, IsPiece(p), NEW c \in Chunks(p), NEW w,
         NEW r \in Dio(c, w).off .. Dio(c, w).off + Dio(c, w).len - 1
  PROVE  \E a \in p.off .. p.off + p.len - 1 :
           /\ user2dev(a).dev = Dio(c, w).dev /\ user2dev(a).off = r
           /\ Dio(c, w).data[r - Dio(c, w).off] = Data(io_count, w, a)
<1> DEFINE io == Dio(c, w)
           a == c.off + (r - io.off)
<1>1. c.off \in Nat /\ c.len \in Nat \ {0} /\ io.off \in Nat /\ io.len = c.len
  BY DioFacts
<1>2. r \in io.off .. io.off + io.len - 1
  OBVIOUS
<1>3. \A x \in c.off .. c.off + c.len - 1 :
              /\ x \in p.off .. p.off + p.len - 1
              /\ user2dev(x).dev = io.dev
              /\ user2dev(x).off = io.off + (x - c.off)
              /\ io.data[x - c.off] = Data(io_count, w, x)
  BY DioFacts
<1> HIDE DEF io
<1>4. a \in c.off .. c.off + c.len - 1 /\ a - c.off = r - io.off
      /\ io.off + (a - c.off) = r
  BY <1>1, <1>2
<1> HIDE DEF a
<1>5. /\ a \in p.off .. p.off + p.len - 1 /\ user2dev(a).dev = io.dev
      /\ user2dev(a).off = r /\ io.data[r - io.off] = Data(io_count, w, a)
  BY <1>3, <1>4
<1>6. QED
  BY <1>5 DEF io

LEMMA DioAligned ==
  ASSUME NEW p, IsPiece(p), NEW c \in Chunks(p), NEW w
  PROVE  Dio(c, w).off % SECTOR_SIZE = 0
<1> DEFINE q == ChunkOf(c.off)
           s == user2stripe(c.off)
<1>1. /\ p.off \in Nat /\ p.len \in Nat \ {0} /\ c.off \in Nat
      /\ c.off = p.off \/ c.off = ChunkOff(q)
  BY PieceFacts, ChunkFacts
<1>2. q \in Nat /\ s \in Nat
  BY <1>1, Chunking, Striping
<1>3. Dio(c, w).off = ChunkOff(s) + (c.off - ChunkOff(q))
  <2>1. user2dev(c.off).off = ChunkOff(s) + (c.off - ChunkOff(q))
    BY <1>1, <1>2, Placing
  <2>2. QED
    BY <2>1, DioFacts
<1>4. Aligned(c.off) /\ ChunkOff(q) <= c.off
  <2>1. Aligned(p.off)
    BY DEF IsPiece, Aligned
  <2>2. ChunkOff(q) <= c.off
    <3> HIDE DEF q
    <3>1. ChunkOf(c.off) >= q
      BY <1>2 DEF q
    <3>2. QED
      BY <1>1, <1>2, <3>1, Chunking
  <2>3. QED
    BY <1>1, <1>2, <2>1, <2>2, AlignedChunk
<1> HIDE DEF q, s
<1>5. ChunkOff(s) \in Nat /\ ChunkOff(q) \in Nat /\ Aligned(ChunkOff(s)) /\ Aligned(ChunkOff(q))
  BY <1>2, AlignedChunk
<1>6. c.off - ChunkOff(q) \in Nat /\ Aligned(c.off - ChunkOff(q))
  <2>1. c.off - ChunkOff(q) \in Nat
    BY <1>1, <1>4, <1>5
  <2>2. Aligned(c.off - ChunkOff(q))
    BY <1>1, <1>4, <1>5, AlignedSum
  <2>3. QED
    BY <2>1, <2>2
<1>7. Aligned(ChunkOff(s) + (c.off - ChunkOff(q)))
  BY <1>5, <1>6, AlignedSum
<1>8. QED
  BY <1>3, <1>7 DEF Aligned

(* Every address of a piece has an I/O that the device takes.              *)
LEMMA DioCovers ==
  ASSUME NEW p, IsPiece(p), NEW a \in p.off .. p.off + p.len - 1, NEW w
  PROVE  \E c \in Chunks(p) : Takes(Dio(c, w), user2dev(a).dev, user2dev(a).off)
<1>1. PICK c \in Chunks(p) : a \in c.off .. c.off + c.len - 1
  BY PieceFacts, ChunksCover
<1> DEFINE io == Dio(c, w)
<1>2. /\ c.off \in Nat /\ c.len \in Nat \ {0} /\ io.off \in Nat /\ io.len = c.len
      /\ user2dev(a).dev = io.dev /\ user2dev(a).off = io.off + (a - c.off)
  BY <1>1, DioFacts
<1>3. io.off % SECTOR_SIZE = 0
  BY DioAligned
<1> HIDE DEF io
<1>4. user2dev(a).off \in io.off .. io.off + io.len - 1
  BY <1>1, <1>2
<1>5. Takes(io, user2dev(a).dev, user2dev(a).off)
  BY <1>2, <1>3, <1>4 DEF Takes
<1>6. QED
  BY <1>5 DEF io

-----------------------------------------------------------------------------
(* The I/Os of a batch ps of pieces, one writer each, within the stripe s, *)
(* and a parity I/O that the devices refuse or that stays in the rows of s *)
(* on the parity device.                                                   *)
IsBatch(ps, s) ==
  /\ Len(ps) \in Nat
  /\ \A w \in 1 .. Len(ps) : IsPiece(ps[w]) /\ user2stripe(ps[w].off) = s
PieceIOs(ps) == UNION {Dios(ps[w], w) : w \in 1 .. Len(ps)}
ParityFits(pio, s) ==
  \A d, r : Takes(pio, d, r) =>
    d = stripe2paritypos(s) /\ r \in Nat /\ devoff2stripe(r) = s
WriteIOs(ps, pio) == PieceIOs(ps) \union {pio}

(* A device takes an I/O of a batch at the place of an address of one of   *)
(* its pieces, and stores that writer's data.                              *)
LEMMA BatchTakes ==
  ASSUME NEW ps, NEW s, IsBatch(ps, s), NEW io \in PieceIOs(ps),
         NEW d, NEW r, Takes(io, d, r)
  PROVE  \E w \in 1 .. Len(ps) : \E a \in ps[w].off .. ps[w].off + ps[w].len - 1 :
           /\ a \in Addresses /\ user2stripe(a) = s
           /\ user2dev(a).dev = d /\ user2dev(a).off = r
           /\ io.data[r - io.off] = Data(io_count, w, a)
<1>1. PICK w \in 1 .. Len(ps) : io \in Dios(ps[w], w)
  BY DEF PieceIOs
<1>2. PICK c \in Chunks(ps[w]) : io = Dio(c, w)
  BY <1>1 DEF Dios
<1>3. IsPiece(ps[w]) /\ user2stripe(ps[w].off) = s
  BY DEF IsBatch
<1>4. r \in io.off .. io.off + io.len - 1 /\ io.dev = d
  BY DEF Takes
<1>5. PICK a \in ps[w].off .. ps[w].off + ps[w].len - 1 :
        /\ user2dev(a).dev = io.dev /\ user2dev(a).off = r
        /\ io.data[r - io.off] = Data(io_count, w, a)
  BY <1>2, <1>3, <1>4, DioRows
<1>6. a \in Addresses /\ user2stripe(a) = s
  BY <1>3, PieceFacts
<1>7. QED
  BY <1>4, <1>5, <1>6

(* All of them stay in the rows of the stripe.                             *)
LEMMA TakesInStripe ==
  ASSUME NEW ps, NEW s, NEW pio, IsBatch(ps, s), ParityFits(pio, s),
         NEW io \in WriteIOs(ps, pio), NEW d, NEW r, Takes(io, d, r)
  PROVE  devoff2stripe(r) = s
<1>1. CASE io = pio
  BY <1>1 DEF ParityFits
<1>2. CASE io \in PieceIOs(ps)
  <2>1. PICK a \in Addresses : user2stripe(a) = s /\ user2dev(a).off = r
    BY <1>2, BatchTakes
  <2>2. QED
    BY <2>1, AddressPlace
<1>3. QED
  BY <1>1, <1>2 DEF WriteIOs

At(x, a) == x[user2dev(a).dev][user2dev(a).off]
TakesAt(io, a) == Takes(io, user2dev(a).dev, user2dev(a).off)

(* What is stored at an address is the data of a writer of it ...          *)
LEMMA AddressTaken ==
  ASSUME NEW ps, NEW s, NEW pio, IsBatch(ps, s), ParityFits(pio, s),
         NEW a \in Addresses, NEW io \in WriteIOs(ps, pio), TakesAt(io, a)
  PROVE  \E w \in 1 .. Len(ps) :
           /\ a \in Span(ps[w])
           /\ io.data[user2dev(a).off - io.off] = Data(io_count, w, a)
<1> DEFINE d == user2dev(a).dev
           r == user2dev(a).off
<1>1. /\ devoff2stripe(r) = user2stripe(a) /\ a \in Nat
      /\ d # stripe2paritypos(user2stripe(a)) /\ Takes(io, d, r)
  BY AddressPlace DEF TakesAt
<1>2. io \in PieceIOs(ps)
  <2>1. ASSUME Takes(pio, d, r) PROVE FALSE
    BY <1>1, <2>1 DEF ParityFits
  <2>2. QED
    BY <1>1, <2>1 DEF WriteIOs
<1>3. PICK w \in 1 .. Len(ps) : \E b \in ps[w].off .. ps[w].off + ps[w].len - 1 :
         /\ b \in Addresses
         /\ user2dev(b).dev = d /\ user2dev(b).off = r
         /\ io.data[r - io.off] = Data(io_count, w, b)
  <2> HIDE DEF d, r
  <2>1. QED
    BY <1>1, <1>2, BatchTakes
<1> PICK b \in ps[w].off .. ps[w].off + ps[w].len - 1 :
         /\ b \in Addresses
         /\ user2dev(b).dev = d /\ user2dev(b).off = r
         /\ io.data[r - io.off] = Data(io_count, w, b)
  BY <1>3
<1>4. user2dev(b) = user2dev(a)
  BY DEF user2dev
<1>5. b = a
  <2>1. b \in Nat
    BY AddressPlace
  <2>2. QED
    BY <1>1, <1>4, <2>1, PlacementInjective
<1>6. QED
  BY <1>5 DEF Span

(* ... and every address of a piece has an I/O.                            *)
LEMMA AddressCovered ==
  ASSUME NEW ps, NEW s, NEW pio, IsBatch(ps, s),
         NEW w \in 1 .. Len(ps), NEW a \in Span(ps[w])
  PROVE  \E io \in WriteIOs(ps, pio) : TakesAt(io, a)
<1>1. PICK c \in Chunks(ps[w]) : Takes(Dio(c, w), user2dev(a).dev, user2dev(a).off)
  BY DioCovers DEF IsBatch, Span
<1>2. Dio(c, w) \in WriteIOs(ps, pio)
  BY <1>1 DEF WriteIOs, PieceIOs, Dios
<1>3. QED
  BY <1>1, <1>2 DEF TakesAt

(* x is what the devices hold when of these I/Os those of wait have not    *)
(* landed yet: where none of them is still to land, one of them has.       *)
Settled(x, ios, wait) ==
  \A d \in Devices, r \in Rows :
    (\E io \in ios : Takes(io, d, r)) =>
      \/ \E io \in wait : Takes(io, d, r)
      \/ \E io \in ios : Takes(io, d, r) /\ x[d][r] = io.data[r - io.off]

LEMMA AddressSettled ==
  ASSUME NEW ps, NEW s, NEW pio, IsBatch(ps, s), ParityFits(pio, s),
         NEW x, Settled(x, WriteIOs(ps, pio), {}),
         NEW a \in Addresses, NEW v \in 1 .. Len(ps), a \in Span(ps[v])
  PROVE  \E w \in 1 .. Len(ps) :
           a \in Span(ps[w]) /\ At(x, a) = Data(io_count, w, a)
<1> DEFINE d == user2dev(a).dev
           r == user2dev(a).off
           ios == WriteIOs(ps, pio)
<1>1. d \in Devices /\ r \in Rows
  BY AddressPlace
<1>2. \E io \in ios : Takes(io, d, r)
  BY AddressCovered DEF TakesAt
<1>3. PICK io \in ios : Takes(io, d, r) /\ x[d][r] = io.data[r - io.off]
  <2> HIDE DEF d, r, ios
  <2>1. Settled(x, ios, {})
    BY DEF ios
  <2>2. QED
    BY <1>1, <1>2, <2>1 DEF Settled
<1>4. TakesAt(io, a) /\ At(x, a) = io.data[user2dev(a).off - io.off]
  BY <1>3 DEF TakesAt, At
<1>5. QED
  BY <1>4, AddressTaken

-----------------------------------------------------------------------------
(* The exclusive or.                                                       *)

LEMMA XorOverIn ==
  ASSUME NEW f, NEW E, \A x \in DOMAIN f : f[x] \in SUBSET E
  PROVE  XorOver(f) \in SUBSET E
BY DEF XorOver

LEMMA DevicesFinite ==
  /\ NUM_DEVFILES \in Nat
  /\ IsFiniteSet(Devices) /\ \A D \in SUBSET Devices : IsFiniteSet(D)
<1>1. NUM_DEVFILES \in Nat
  BY LayoutAssumption DEF NUM_DEVFILES
<1>2. IsFiniteSet(Devices)
  BY <1>1, FS_Interval DEF Devices
<1>3. QED
  BY <1>1, <1>2, FS_Subset

(* Where the parity is right, what one device holds is the exclusive or of *)
(* the others.                                                             *)
Rebuilt(dev, r) == XorOver([d \in Devices \ {dev} |-> disk[d][r]])

LEMMA Reconstructs ==
  ASSUME NEW r, NEW dev \in Devices, RowParity(r) = {}
  PROVE  Rebuilt(dev, r) = disk[dev][r]
<1> DEFINE g == [d \in Devices |-> disk[d][r]]
           f == [d \in Devices \ {dev} |-> disk[d][r]]
           D(e) == {d \in Devices : e \in disk[d][r]}
<1>1. /\ DOMAIN g = Devices /\ DOMAIN f = Devices \ {dev}
      /\ \A d \in Devices : g[d] = disk[d][r]
      /\ \A d \in Devices \ {dev} : f[d] = disk[d][r]
  OBVIOUS
<1>2. \A e : IsFiniteSet(D(e))
  BY DevicesFinite
<1>3. XorOver(g) = {}
  BY DEF RowParity
<1>4. Rebuilt(dev, r) = XorOver(f)
  BY DEF Rebuilt
<1> HIDE DEF f, g
<1>5. \A e : {x \in DOMAIN g : e \in g[x]} = D(e)
  BY <1>1
<1>6. \A e : {x \in DOMAIN f : e \in f[x]} = D(e) \ {dev}
  BY <1>1
<1>7. ASSUME NEW e PROVE Cardinality(D(e)) % 2 # 1
  <2>1. CASE e \in UNION {g[x] : x \in DOMAIN g}
    <3>1. ~(Cardinality({x \in DOMAIN g : e \in g[x]}) % 2 = 1)
      BY <1>3, <2>1 DEF XorOver
    <3>2. QED
      BY <1>5, <3>1
  <2>2. CASE e \notin UNION {g[x] : x \in DOMAIN g}
    <3>1. D(e) = {}
      BY <1>1, <2>2
    <3>2. Cardinality(D(e)) = 0
      BY <3>1, FS_EmptySet
    <3>3. QED
      BY <3>2
  <2>3. QED
    BY <2>1, <2>2
<1>8. ASSUME NEW e PROVE e \in XorOver(f) <=> e \in disk[dev][r]
  <2>1. e \in XorOver(f) <=> /\ e \in UNION {f[x] : x \in DOMAIN f}
                             /\ Cardinality(D(e) \ {dev}) % 2 = 1
    BY <1>6 DEF XorOver
  <2> DEFINE n == Cardinality(D(e))
             m == Cardinality(D(e) \ {dev})
  <2>2. n \in Nat /\ m \in Nat
        /\ m = IF dev \in D(e) THEN n - 1 ELSE n
    BY <1>2, FS_CardinalityType, FS_RemoveElement
  <2>3. n % 2 # 1
    BY <1>7
  <2>4. ASSUME m % 2 = 1 PROVE e \in UNION {f[x] : x \in DOMAIN f}
    <3>1. D(e) \ {dev} # {}
      <4>1. m # 0
        BY <2>4
      <4>2. QED
        BY <4>1, FS_EmptySet
    <3>2. PICK d \in Devices \ {dev} : e \in disk[d][r]
      BY <3>1
    <3>3. e \in f[d] /\ d \in DOMAIN f
      BY <1>1, <3>2
    <3>4. QED
      BY <3>3
  <2> HIDE DEF n, m
  <2>5. dev \in D(e) <=> e \in disk[dev][r]
    OBVIOUS
  <2>6. e \in XorOver(f) <=> m % 2 = 1
    BY <2>1, <2>4 DEF m
  <2>7. CASE dev \in D(e)
    <3>1. m = n - 1
      BY <2>2, <2>7
    <3>2. m % 2 = 1
      BY <2>2, <2>3, <3>1
    <3>3. QED
      BY <2>5, <2>6, <2>7, <3>2
  <2>8. CASE dev \notin D(e)
    <3>1. m = n
      BY <2>2, <2>8
    <3>2. QED
      BY <2>3, <2>5, <2>6, <2>8, <3>1
  <2>9. QED
    BY <2>7, <2>8
<1>9. QED
  BY <1>4, <1>8

(* A device with the exclusive or of different units, and a device for     *)
(* each of these: every unit is held twice.                                *)
HeldTwice(g, p, C, at, E, h) ==
  /\ p \in Devices /\ DOMAIN g = Devices /\ DOMAIN h = C
  /\ \A c \in C : at[c] \in Devices /\ at[c] # p
  /\ \A c, b \in C : (at[c] = at[b] => c = b) /\ (E[c] = E[b] => c = b)
  /\ \A d \in Devices : d # p => \E c \in C : at[c] = d
  /\ \A c \in C : g[at[c]] = {E[c]} /\ h[c] = {E[c]}
  /\ g[p] = XorOver(h)

LEMMA TwiceIsZero ==
  ASSUME NEW g, NEW p, NEW C, NEW at, NEW E, NEW h, HeldTwice(g, p, C, at, E, h)
  PROVE  XorOver(g) = {}
<1> USE DEF HeldTwice
<1>1. DOMAIN h = C /\ \A c \in C : h[c] = {E[c]}
  OBVIOUS
<1>2. ASSUME NEW c \in C PROVE E[c] \in g[p]
  <2>1. {x \in DOMAIN h : E[c] \in h[x]} = {c}
    BY <1>1
  <2>2. Cardinality({x \in DOMAIN h : E[c] \in h[x]}) = 1
    BY <2>1, FS_Singleton
  <2>3. E[c] \in UNION {h[x] : x \in DOMAIN h}
    BY <1>1
  <2>4. 1 % 2 = 1
    OBVIOUS
  <2>5. E[c] \in XorOver(h)
    BY <2>2, <2>3, <2>4 DEF XorOver
  <2>6. QED
    BY <2>5
<1>3. ASSUME NEW e \in g[p] PROVE \E c \in C : e = E[c]
  <2>1. e \in XorOver(h)
    OBVIOUS
  <2>2. e \in UNION {h[x] : x \in DOMAIN h}
    BY <2>1 DEF XorOver
  <2>3. QED
    BY <1>1, <2>2
<1>4. ASSUME NEW e \in XorOver(g) PROVE FALSE
  <2>1. e \in UNION {g[x] : x \in DOMAIN g} /\ Cardinality({x \in DOMAIN g : e \in g[x]}) % 2 = 1
    BY <1>4 DEF XorOver
  <2>2. PICK c \in C : e = E[c]
    <3>1. PICK d \in Devices : e \in g[d]
      BY <2>1
    <3>2. CASE d = p
      BY <1>3, <3>1, <3>2
    <3>3. CASE d # p
      BY <3>1, <3>3
    <3>4. QED
      BY <3>2, <3>3
  <2>3. ASSUME NEW d \in Devices PROVE e \in g[d] <=> d \in {p, at[c]}
    <3>1. CASE d = p
      BY <1>2, <2>2, <3>1
    <3>2. CASE d # p
      <4>1. PICK b \in C : at[b] = d
        BY <3>2
      <4>2. e \in g[d] <=> b = c
        BY <2>2, <4>1
      <4>3. QED
        BY <3>2, <4>1, <4>2
    <3>3. QED
      BY <3>1, <3>2
  <2>4. {x \in DOMAIN g : e \in g[x]} = {p} \union {at[c]}
    BY <2>3
  <2>5. Cardinality({p} \union {at[c]}) = 2
    <3>1. IsFiniteSet({p}) /\ Cardinality({p}) = 1
      BY FS_Singleton
    <3>2. at[c] \notin {p}
      OBVIOUS
    <3> DEFINE S == {p}
    <3> HIDE DEF S
    <3>3. Cardinality(S \union {at[c]}) =
            IF at[c] \in S THEN Cardinality(S) ELSE Cardinality(S) + 1
      BY <3>1, FS_AddElement DEF S
    <3>4. Cardinality(S) = 1 /\ at[c] \notin S
      BY <3>1, <3>2 DEF S
    <3>5. Cardinality(S \union {at[c]}) = 2
      BY <3>3, <3>4
    <3>6. QED
      BY <3>5 DEF S
  <2> DEFINE n == Cardinality({x \in DOMAIN g : e \in g[x]})
  <2>6. n = 2
    BY <2>4, <2>5
  <2>7. n % 2 = 1
    BY <2>1
  <2> HIDE DEF n
  <2>8. QED
    BY <2>6, <2>7
<1>5. QED
  BY <1>4

-----------------------------------------------------------------------------
(* A write of a full stripe.                                               *)

LEMMA StripeFacts ==
  ASSUME NEW s \in Stripes
  PROVE  /\ s \in Nat /\ stripe2paritypos(s) \in Devices
         /\ stripe2devoff(s, 0) = ChunkOff(s) /\ ChunkOff(s) \in Nat
         /\ \A k \in Units : ChunkOff(s) + k \in Rows
         /\ SCHUNK_SIZE \in Nat \ {0}
<1>1. s \in Nat /\ SCHUNK_SIZE \in Nat \ {0} /\ stripe2useroff(s) \in Nat
  BY LayoutAssumption, Striping DEF Stripes
<1>2. ChunkOff(s) \in Nat
  BY <1>1, Chunking
<1>3. stripe2devoff(s, 0) = ChunkOff(s)
  <2>1. stripe2devoff(s, 0) = 0 + ChunkOff(s)
    BY DEF stripe2devoff, ChunkOff
  <2>2. QED
    BY <1>2, <2>1
<1>4. stripe2paritypos(s) \in Devices
  <2>1. user2stripe(stripe2useroff(s)) = s
    <3>1. s + 1 \in Nat /\ stripe2useroff(s + 1) > stripe2useroff(s)
          /\ stripe2useroff(s + 1) \in Nat
      BY <1>1, Striping
    <3> DEFINE u == stripe2useroff(s)
    <3>2. u \in Nat /\ ~(u >= stripe2useroff(s + 1)) /\ u >= stripe2useroff(s)
      BY <1>1, <3>1
    <3> HIDE DEF u
    <3>3. user2stripe(u) \in Nat /\ user2stripe(u) >= s /\ ~(user2stripe(u) >= s + 1)
      BY <1>1, <3>1, <3>2, Striping
    <3>4. QED
      BY <1>1, <3>3 DEF u
  <2>2. QED
    BY <1>1, <2>1, ParityApart
<1>5. ASSUME NEW k \in Units PROVE ChunkOff(s) + k \in Rows
  <2>1. ChunkOff(s) + k \in Nat /\ ChunkOff(s) <= ChunkOff(s) + k
        /\ ChunkOff(s) + k <= ChunkOff(s) + SCHUNK_SIZE - 1
    BY <1>1, <1>2 DEF Units
  <2> DEFINE r == ChunkOff(s) + k
  <2> HIDE DEF r
  <2>2. r \in Nat /\ devoff2stripe(r) = s
    BY <1>1, <2>1, InStripe DEF r
  <2>3. QED
    BY <2>2, RowsOfStripes DEF r
<1>6. QED
  BY <1>1, <1>2, <1>3, <1>4, <1>5

(* The unit k of the data chunk c of a full stripe, and its place.         *)
LEMMA FullPlace ==
  ASSUME NEW p, IsPiece(p), is_fullstripe(p.off, p.len),
         NEW c \in 0 .. DATACHUNK_NUM - 1, NEW k \in Units
  PROVE  LET s == user2stripe(p.off)
             a == p.off + c * SCHUNK_SIZE + k
         IN  /\ a \in p.off .. p.off + p.len - 1
             /\ user2dev(a) = [dev |-> Wrap(stripe2datapos(s) + c),
                               off |-> ChunkOff(s) + k]
<1> USE LayoutAssumption
<1> DEFINE s == user2stripe(p.off)
           a == p.off + c * SCHUNK_SIZE + k
           q == FirstChunkOf(s) + c
           z == SSTRIPE_DATASIZE
<1>1. s \in Stripes /\ p.off \in Nat /\ p.len = z /\ p.off % z = 0
  BY PieceFacts DEF is_fullstripe
<1>2. s \in Nat /\ ChunkOff(s) \in Nat
  BY <1>1, StripeFacts
<1>3. z \in Nat \ {0}
  BY <1>2, Striping
<1>4. p.off = stripe2useroff(s)
  <2> DEFINE m == p.off \div z
  <2>1. m \in Nat /\ p.off = z * m + (p.off % z)
    BY <1>1, <1>3, DivMod
  <2>2. p.off = m * z
    BY <1>1, <1>3, <2>1
  <2>3. p.off = stripe2useroff(m)
    BY <2>2 DEF stripe2useroff
  <2> HIDE DEF m
  <2>4. stripe2useroff(m + 1) = stripe2useroff(m) + z /\ m + 1 \in Nat
        /\ stripe2useroff(m) \in Nat
    BY <1>1, <2>1, Striping
  <2>5. (s >= m <=> p.off >= stripe2useroff(m)) /\ (s >= m + 1 <=> p.off >= stripe2useroff(m + 1))
    BY <1>1, <2>1, <2>4, Striping
  <2>6. s \in Nat /\ m \in Nat /\ s >= m /\ ~(s >= m + 1)
    <3> HIDE DEF s, z
    <3>1. p.off >= stripe2useroff(m) /\ ~(p.off >= stripe2useroff(m + 1))
      BY <1>3, <2>3, <2>4
    <3>2. QED
      BY <1>2, <2>1, <2>5, <3>1
  <2>7. s = m
    <3> HIDE DEF s
    <3>1. QED
      BY <2>6
  <2>8. QED
    BY <2>3, <2>7
<1>5. c \in Nat /\ c * SCHUNK_SIZE \in Nat /\ k \in Nat /\ k < SCHUNK_SIZE
      /\ c * SCHUNK_SIZE + SCHUNK_SIZE <= z
  <2>1. c \in Nat /\ k \in Nat /\ k < SCHUNK_SIZE
    BY DEF Units
  <2>2. PICK e \in Nat : DATACHUNK_NUM = c + 1 + e
    <3>1. DATACHUNK_NUM - 1 - c \in Nat /\ DATACHUNK_NUM = c + 1 + (DATACHUNK_NUM - 1 - c)
      OBVIOUS
    <3>2. QED
      BY <3>1
  <2>3. z = c * SCHUNK_SIZE + SCHUNK_SIZE + e * SCHUNK_SIZE
        /\ c * SCHUNK_SIZE \in Nat /\ e * SCHUNK_SIZE \in Nat
    <3>1. z = SCHUNK_SIZE * (c + 1 + e)
      BY <2>2 DEF SSTRIPE_DATASIZE
    <3> HIDE DEF z
    <3>2. QED
      BY <2>1, <2>2, <3>1
  <2>4. QED
    BY <2>1, <2>3
<1>6. a \in Nat /\ a \in p.off .. p.off + p.len - 1
  <2> HIDE DEF z, s
  <2>1. QED
    BY <1>1, <1>3, <1>5
<1>7. FirstChunkOf(s) \in Nat /\ p.off = ChunkOff(FirstChunkOf(s)) /\ q \in Nat
  <2> HIDE DEF s
  <2>1. FirstChunkOf(s) \in Nat /\ stripe2useroff(s) = ChunkOff(FirstChunkOf(s))
    BY <1>2, Striping
  <2>2. QED
    BY <1>4, <1>5, <2>1
<1>8. ChunkOff(q) = p.off + c * SCHUNK_SIZE
  <2>1. ChunkOff(q) = FirstChunkOf(s) * SCHUNK_SIZE + c * SCHUNK_SIZE
    <3> DEFINE f == FirstChunkOf(s)
    <3>1. f \in Nat
      BY <1>7
    <3> HIDE DEF f
    <3>2. (f + c) * SCHUNK_SIZE = f * SCHUNK_SIZE + c * SCHUNK_SIZE
      BY <1>5, <3>1
    <3>3. QED
      BY <3>2 DEF ChunkOff, f
  <2>2. QED
    BY <1>7, <2>1 DEF ChunkOff
<1>9. a = ChunkOff(q) + k
  BY <1>8
<1> HIDE DEF a, z
<1>10. user2stripe(a) = s
  BY <1>6, PieceFacts
<1>11. ChunkOf(a) = q
  <2> HIDE DEF q
  <2>1. q \in Nat /\ q + 1 \in Nat /\ ChunkOff(q) \in Nat
        /\ ChunkOff(q + 1) = ChunkOff(q) + SCHUNK_SIZE
    <3>1. q \in Nat
      BY <1>7
    <3>2. QED
      BY <3>1, Chunking
  <2>2. a >= ChunkOff(q) /\ ~(a >= ChunkOff(q + 1))
    BY <1>5, <1>9, <2>1
  <2>3. ChunkOf(a) \in Nat /\ ChunkOf(a) >= q /\ ~(ChunkOf(a) >= q + 1)
    BY <1>6, <2>1, <2>2, Chunking
  <2>4. QED
    BY <2>1, <2>3
<1>12. user2dev(a) = [dev |-> Wrap(stripe2datapos(s) + (q - FirstChunkOf(s))),
                      off |-> ChunkOff(s) + (a - ChunkOff(q))]
  <2> HIDE DEF q, s
  <2>1. s \in Nat /\ q \in Nat /\ a \in Nat
    BY <1>2, <1>6, <1>7
  <2>2. QED
    BY <1>10, <1>11, <2>1, Placing
<1>13. q - FirstChunkOf(s) = c /\ a - ChunkOff(q) = k
  <2>1. q - FirstChunkOf(s) = c
    BY <1>5, <1>7
  <2>2. ChunkOff(q) \in Nat
    BY <1>7, Chunking
  <2> HIDE DEF q
  <2>3. a - ChunkOff(q) = k
    BY <1>5, <1>9, <2>2
  <2>4. QED
    BY <2>1, <2>3
<1>14. user2dev(a) = [dev |-> Wrap(stripe2datapos(s) + c), off |-> ChunkOff(s) + k]
  BY <1>12, <1>13
<1>15. QED
  BY <1>6, <1>14 DEF a

(* The data chunks of a stripe are on all devices but the parity device.   *)
LEMMA DataDevices ==
  ASSUME NEW s \in Stripes
  PROVE  LET at == [c \in 0 .. DATACHUNK_NUM - 1 |-> Wrap(stripe2datapos(s) + c)]
             p == stripe2paritypos(s)
         IN  /\ p \in Devices
             /\ \A c \in 0 .. DATACHUNK_NUM - 1 : at[c] \in Devices /\ at[c] # p
             /\ \A c, b \in 0 .. DATACHUNK_NUM - 1 : at[c] = at[b] => c = b
             /\ \A d \in Devices : d # p => \E c \in 0 .. DATACHUNK_NUM - 1 : at[c] = d
<1> DEFINE x == stripe2datapos(s)
           N == NUM_DEVFILES
<1>1. N \in Nat \ {0} /\ N = DATACHUNK_NUM + 1 /\ DATACHUNK_NUM \in Nat \ {0}
      /\ x \in 0 .. N - 1 /\ Devices = 0 .. N - 1
  <2>1. N \in Nat \ {0} /\ N = DATACHUNK_NUM + 1 /\ DATACHUNK_NUM \in Nat \ {0}
    BY LayoutAssumption, DataAssumption DEF NUM_DEVFILES
  <2>2. s \in Nat
    BY StripeFacts
  <2>3. x \in 0 .. N - 1
    BY <2>1, <2>2, DivMod DEF stripe2datapos
  <2>4. QED
    BY <2>1, <2>3 DEF Devices
<1>2. \A y : Wrap(y) = IF y >= N THEN y - N ELSE y
  BY DEF Wrap
<1>3. stripe2paritypos(s) = Wrap(x + DATACHUNK_NUM)
  BY DEF stripe2paritypos
<1> HIDE DEF x, N
<1>4. stripe2paritypos(s) \in Devices
  BY <1>1, <1>2, <1>3
<1>5. ASSUME NEW c \in 0 .. DATACHUNK_NUM - 1
      PROVE  Wrap(x + c) \in Devices /\ Wrap(x + c) # stripe2paritypos(s)
  BY <1>1, <1>2, <1>3
<1>6. ASSUME NEW c \in 0 .. DATACHUNK_NUM - 1, NEW b \in 0 .. DATACHUNK_NUM - 1,
             Wrap(x + c) = Wrap(x + b)
      PROVE  c = b
  BY <1>1, <1>2, <1>6
<1>7. ASSUME NEW d \in Devices, d # stripe2paritypos(s)
      PROVE  \E c \in 0 .. DATACHUNK_NUM - 1 : Wrap(x + c) = d
  <2>1. CASE d >= x
    <3>1. d - x \in 0 .. DATACHUNK_NUM - 1 /\ Wrap(x + (d - x)) = d
      BY <1>1, <1>2, <1>3, <1>7, <2>1
    <3>2. QED
      BY <3>1
  <2>2. CASE d < x
    <3>1. d - x + N \in 0 .. DATACHUNK_NUM - 1 /\ Wrap(x + (d - x + N)) = d
      BY <1>1, <1>2, <1>3, <1>7, <2>2
    <3>2. QED
      BY <3>1
  <2>3. QED
    BY <1>1, <2>1, <2>2
<1>8. QED
  BY <1>4, <1>5, <1>6, <1>7 DEF x

LEMMA ParityInStripe ==
  ASSUME NEW s \in Stripes, NEW pio, pio.dev = stripe2paritypos(s),
         pio.off \in Nat, pio.len \in Nat,
         ChunkOff(s) <= pio.off, pio.off + pio.len <= ChunkOff(s) + SCHUNK_SIZE
  PROVE  ParityFits(pio, s)
<1> SUFFICES ASSUME NEW d, NEW r, Takes(pio, d, r)
             PROVE  d = stripe2paritypos(s) /\ r \in Nat /\ devoff2stripe(r) = s
  BY DEF ParityFits
<1>1. d = stripe2paritypos(s) /\ r \in pio.off .. pio.off + pio.len - 1
  BY DEF Takes
<1>2. s \in Nat /\ ChunkOff(s) \in Nat /\ SCHUNK_SIZE \in Nat
  BY StripeFacts
<1>3. r \in Nat /\ ChunkOff(s) <= r /\ r <= ChunkOff(s) + SCHUNK_SIZE - 1
  BY <1>1, <1>2
<1>4. QED
  BY <1>1, <1>2, <1>3, InStripe

FullData(p) ==
  [c \in 0 .. DATACHUNK_NUM - 1 |->
     [k \in Units |-> Data(io_count, 1, p.off + c * SCHUNK_SIZE + k)]]
FullParity(p) ==
  ParityDio(user2stripe(p.off), stripe2devoff(user2stripe(p.off), 0),
            SCHUNK_SIZE, do_full_encode(FullData(p)))

LEMMA FullBatch ==
  ASSUME NEW p, IsPiece(p)
  PROVE  /\ IsBatch(<<p>>, user2stripe(p.off)) /\ PieceIOs(<<p>>) = Dios(p, 1)
         /\ ParityFits(FullParity(p), user2stripe(p.off))
<1> DEFINE s == user2stripe(p.off)
<1>1. s \in Stripes
  BY PieceFacts
<1>2. Len(<<p>>) = 1 /\ <<p>>[1] = p /\ 1 .. 1 = {1}
  OBVIOUS
<1>3. IsBatch(<<p>>, s)
  BY <1>2 DEF IsBatch
<1>4. PieceIOs(<<p>>) = Dios(p, 1)
  <2>1. {Dios(<<p>>[w], w) : w \in 1 .. Len(<<p>>)} = {Dios(p, 1)}
    BY <1>2
  <2>2. QED
    BY <2>1 DEF PieceIOs
<1>5. /\ FullParity(p).dev = stripe2paritypos(s) /\ FullParity(p).off = ChunkOff(s)
      /\ FullParity(p).len = SCHUNK_SIZE
  BY <1>1, StripeFacts DEF FullParity, ParityDio
<1> HIDE DEF s
<1>6. ParityFits(FullParity(p), s)
  <2>1. ChunkOff(s) \in Nat /\ SCHUNK_SIZE \in Nat
    BY <1>1, StripeFacts
  <2>2. ChunkOff(s) <= ChunkOff(s) /\ ChunkOff(s) + SCHUNK_SIZE <= ChunkOff(s) + SCHUNK_SIZE
    BY <2>1
  <2>3. QED
    BY <1>1, <1>5, <2>1, <2>2, ParityInStripe
<1>7. QED
  BY <1>3, <1>4, <1>6 DEF s

(* After it the exclusive or of all devices is zero in every row of the    *)
(* stripe.                                                                 *)
LEMMA FullRowZero ==
  ASSUME NEW p, IsPiece(p), is_fullstripe(p.off, p.len),
         NEW disk1, Settled(disk1, WriteIOs(<<p>>, FullParity(p)), {}),
         NEW r \in Rows, devoff2stripe(r) = user2stripe(p.off)
  PROVE  XorOver([d \in Devices |-> disk1[d][r]]) = {}
<1> DEFINE s == user2stripe(p.off)
           pio == FullParity(p)
           ios == WriteIOs(<<p>>, pio)
           k == r - ChunkOff(s)
           C == 0 .. DATACHUNK_NUM - 1
           pd == stripe2paritypos(s)
           at == [c \in C |-> Wrap(stripe2datapos(s) + c)]
           E == [c \in C |-> <<io_count, 1, p.off + c * SCHUNK_SIZE + k>>]
           g == [d \in Devices |-> disk1[d][r]]
           h == [c \in C |-> {E[c]}]
<1>1. /\ s \in Stripes /\ s \in Nat /\ ChunkOff(s) \in Nat /\ p.off \in Nat
      /\ SCHUNK_SIZE \in Nat \ {0} /\ DATACHUNK_NUM \in Nat
  BY PieceFacts, StripeFacts, LayoutAssumption
<1>2. k \in Units /\ r = ChunkOff(s) + k
  <2>1. r \in Nat
    <3>1. NUM_STRIPES * SCHUNK_SIZE \in Nat
      BY LayoutAssumption, DataAssumption
    <3>2. QED
      BY <3>1 DEF Rows
  <2>2. ChunkOff(s) <= r /\ r <= ChunkOff(s) + SCHUNK_SIZE - 1
    <3>1. devoff2stripe(r) = s
      OBVIOUS
    <3>2. QED
      BY <1>1, <2>1, <3>1, InStripe
  <2>3. QED
    BY <1>1, <2>1, <2>2 DEF Units
<1>3. IsBatch(<<p>>, s) /\ ParityFits(pio, s) /\ Settled(disk1, ios, {})
  BY FullBatch
<1>4. IsFiniteSet(C)
  BY <1>1, FS_Interval
<1>5. /\ pd \in Devices /\ \A c \in C : at[c] \in Devices /\ at[c] # pd
      /\ \A c, b \in C : at[c] = at[b] => c = b
      /\ \A d \in Devices : d # pd => \E c \in C : at[c] = d
  BY <1>1, DataDevices
<1>6. ASSUME NEW c \in C, NEW b \in C, E[c] = E[b] PROVE c = b
  <2>1. p.off + c * SCHUNK_SIZE + k = p.off + b * SCHUNK_SIZE + k
    <3> HIDE DEF k
    <3>1. E[c] = <<io_count, 1, p.off + c * SCHUNK_SIZE + k>>
          /\ E[b] = <<io_count, 1, p.off + b * SCHUNK_SIZE + k>>
      OBVIOUS
    <3>2. QED
      BY <1>6, <3>1
  <2>2. c * SCHUNK_SIZE \in Nat /\ b * SCHUNK_SIZE \in Nat /\ k \in Nat
        /\ k \in 0 .. SCHUNK_SIZE - 1
    BY <1>1, <1>2 DEF Units
  <2> HIDE DEF k
  <2>3. c * SCHUNK_SIZE + k = b * SCHUNK_SIZE + k
    BY <1>1, <2>1, <2>2
  <2>4. c \in Nat /\ b \in Nat
    BY <1>1
  <2>5. (c * SCHUNK_SIZE + k) \div SCHUNK_SIZE = c /\ (b * SCHUNK_SIZE + k) \div SCHUNK_SIZE = b
    BY <1>1, <2>2, <2>4, DivModUnique
  <2>6. QED
    BY <2>3, <2>5
<1>7. ASSUME NEW c \in C PROVE disk1[at[c]][r] = {E[c]}
  <2> DEFINE a == p.off + c * SCHUNK_SIZE + k
  <2>1. a \in p.off .. p.off + p.len - 1
        /\ user2dev(a) = [dev |-> at[c], off |-> ChunkOff(s) + k]
    <3> HIDE DEF k
    <3>1. at[c] = Wrap(stripe2datapos(s) + c)
      OBVIOUS
    <3>2. QED
      BY <1>2, <3>1, FullPlace
  <2>2. E[c] = <<io_count, 1, a>>
    OBVIOUS
  <2> HIDE DEF a, at, E, k, s
  <2>3. user2dev(a).dev = at[c] /\ user2dev(a).off = r /\ a \in Addresses
    BY <1>2, <2>1, PieceFacts
  <2> DEFINE ps == <<p>>
  <2>4. Len(ps) = 1 /\ ps[1] = p /\ 1 .. 1 = {1}
    OBVIOUS
  <2>5. IsBatch(ps, s) /\ ParityFits(pio, s) /\ Settled(disk1, WriteIOs(ps, pio), {})
    BY <1>3 DEF s
  <2> HIDE DEF ps, pio
  <2>6. a \in Span(ps[1])
    BY <2>1, <2>4 DEF Span
  <2>7. PICK w \in 1 .. Len(ps) : a \in Span(ps[w]) /\ At(disk1, a) = Data(io_count, w, a)
    BY <2>3, <2>4, <2>5, <2>6, AddressSettled
  <2>8. w = 1
    BY <2>4
  <2>9. disk1[at[c]][r] = Data(io_count, 1, a)
    BY <2>3, <2>7, <2>8 DEF At
  <2>10. QED
    BY <2>2, <2>9 DEF Data
<1>8. disk1[pd][r] = XorOver([c \in C |-> {E[c]}])
  <2>1. /\ pio.dev = pd /\ pio.off = ChunkOff(s) /\ pio.len = SCHUNK_SIZE
        /\ pio.data = do_full_encode(FullData(p))
    BY <1>1, StripeFacts DEF FullParity, ParityDio
  <2>2. Takes(pio, pd, r)
    <3>1. pio.off % SECTOR_SIZE = 0
      BY <1>1, <2>1, AlignedChunk DEF Aligned
    <3>2. r \in pio.off .. pio.off + pio.len - 1
      <4> HIDE DEF pio, k, s
      <4>1. QED
        BY <1>1, <1>2, <2>1 DEF Units
    <3>3. QED
      BY <2>1, <3>1, <3>2 DEF Takes
  <2>3. ASSUME NEW io \in ios, Takes(io, pd, r) PROVE io = pio
    <3> SUFFICES ASSUME io \in PieceIOs(<<p>>) PROVE FALSE
      BY DEF WriteIOs
    <3>1. PICK a \in Addresses : user2stripe(a) = s /\ user2dev(a).dev = pd
      BY <1>3, <2>3, BatchTakes
    <3>2. QED
      BY <3>1, AddressPlace
  <2>4. pio \in ios
    BY DEF WriteIOs
  <2>5. pd \in Devices
    BY <1>5
  <2> HIDE DEF ios, pio, pd
  <2>6. PICK io \in ios : Takes(io, pd, r) /\ disk1[pd][r] = io.data[r - io.off]
    BY <1>3, <2>2, <2>4, <2>5 DEF Settled
  <2>7. disk1[pd][r] = pio.data[r - pio.off]
    BY <2>3, <2>6
  <2>8. r - pio.off = k
    BY <2>1
  <2> HIDE DEF k
  <2>9. pio.data[k] = XorOver([c \in C |-> FullData(p)[c][k]])
    BY <1>2, <2>1 DEF do_full_encode
  <2>10. [c \in C |-> FullData(p)[c][k]] = [c \in C |-> {E[c]}]
    <3>1. ASSUME NEW c \in C PROVE FullData(p)[c][k] = {E[c]}
      BY <1>2 DEF FullData, Data
    <3> HIDE DEF C, E
    <3>2. QED
      BY <3>1
  <2>11. QED
    BY <2>7, <2>8, <2>9, <2>10
<1> HIDE DEF E, at, C, pd, ios, k, s
<1>9. DOMAIN g = Devices /\ \A d \in Devices : g[d] = disk1[d][r]
  OBVIOUS
<1> HIDE DEF g, C, E
<1>10. /\ \A c \in C : g[at[c]] = {E[c]} /\ h[c] = {E[c]}
       /\ g[pd] = XorOver(h) /\ DOMAIN h = C
  BY <1>5, <1>7, <1>8, <1>9
<1> HIDE DEF h
<1>11. \A c, b \in C : (at[c] = at[b] => c = b) /\ (E[c] = E[b] => c = b)
  BY <1>5, <1>6
<1>12. HeldTwice(g, pd, C, at, E, h)
  BY <1>5, <1>9, <1>10, <1>11 DEF HeldTwice
<1>13. QED
  BY <1>12, TwiceIsZero DEF g

-----------------------------------------------------------------------------
(* A write of a part of a stripe, with the pieces of followers.            *)

LEMMA BatchBounds ==
  ASSUME NEW s \in Stripes, NEW ps, IsBatch(ps, s), NEW io \in PieceIOs(ps)
  PROVE  /\ io.dev \in Devices /\ io.off \in Nat /\ io.len \in Nat \ {0}
         /\ ChunkOff(s) <= io.off /\ io.off + io.len <= ChunkOff(s) + SCHUNK_SIZE
         /\ io.len <= SCHUNK_SIZE
<1>1. PICK w \in 1 .. Len(ps) : io \in Dios(ps[w], w)
  BY DEF PieceIOs
<1>2. PICK c \in Chunks(ps[w]) : io = Dio(c, w)
  BY <1>1 DEF Dios
<1>3. IsPiece(ps[w]) /\ user2stripe(ps[w].off) = s
  BY DEF IsBatch
<1>4. io.dev \in Devices /\ io.off \in Nat /\ io.len \in Nat \ {0}
  BY <1>2, <1>3, DioFacts
<1>5. s \in Nat /\ ChunkOff(s) \in Nat /\ SCHUNK_SIZE \in Nat
  BY StripeFacts
<1>6. ASSUME NEW r \in io.off .. io.off + io.len - 1
      PROVE  ChunkOff(s) <= r /\ r <= ChunkOff(s) + SCHUNK_SIZE - 1
  <2>1. PICK a \in ps[w].off .. ps[w].off + ps[w].len - 1 : user2dev(a).off = r
    BY <1>2, <1>3, DioRows
  <2>2. a \in Addresses /\ user2stripe(a) = s
    BY <1>3, PieceFacts
  <2>3. devoff2stripe(r) = s
    BY <2>1, <2>2, AddressPlace
  <2>4. r \in Nat
    BY <1>4
  <2>5. QED
    BY <1>5, <2>3, <2>4, InStripe
<1>7. io.off \in io.off .. io.off + io.len - 1
      /\ io.off + io.len - 1 \in io.off .. io.off + io.len - 1
  BY <1>4
<1>8. ChunkOff(s) <= io.off /\ io.off + io.len - 1 <= ChunkOff(s) + SCHUNK_SIZE - 1
  BY <1>6, <1>7
<1>9. QED
  BY <1>4, <1>5, <1>8

LEMMA BatchNotEmpty ==
  ASSUME NEW s, NEW ps, IsBatch(ps, s), Len(ps) # 0
  PROVE  PieceIOs(ps) # {}
<1>1. 1 \in 1 .. Len(ps) /\ IsPiece(ps[1])
  BY DEF IsBatch
<1>2. ps[1].off \in ps[1].off .. ps[1].off + ps[1].len - 1
  BY <1>1, PieceFacts
<1>3. PICK c \in Chunks(ps[1]) : TRUE
  BY <1>1, <1>2, DioCovers
<1>4. Dio(c, 1) \in PieceIOs(ps)
  BY <1>1 DEF PieceIOs, Dios
<1>5. QED
  BY <1>4

(* The first units of the parity buffer go where the least of the offsets  *)
(* written is: within the stripe, or, when that is beyond INT_MAX, to an   *)
(* offset that O_DIRECT refuses.                                           *)
LEMMA PartialParity ==
  ASSUME NEW s \in Stripes, NEW ps, IsBatch(ps, s), Len(ps) # 0,
         NEW pio, pio.dev = stripe2paritypos(s),
         pio.off = ParityOff(PieceIOs(ps)), pio.len = Max(Lens(PieceIOs(ps)))
  PROVE  /\ pio.off \in Nat /\ pio.len \in 1 .. SCHUNK_SIZE
         /\ ParityFits(pio, s)
<1> DEFINE all == PieceIOs(ps)
           O == Offs(all) \union {INT_MAX}
           L == Lens(all)
<1>1. s \in Nat /\ ChunkOff(s) \in Nat /\ SCHUNK_SIZE \in Nat
  BY StripeFacts
<1>2. \A io \in all : /\ io.off \in Nat /\ io.len \in Nat \ {0}
                      /\ io.off + io.len <= ChunkOff(s) + SCHUNK_SIZE
                      /\ ChunkOff(s) <= io.off /\ io.len <= SCHUNK_SIZE
  BY BatchBounds
<1>3. all # {}
  BY BatchNotEmpty
<1> HIDE DEF all
<1>4. pio.off \in O /\ (\A y \in O : pio.off <= y) /\ O \in SUBSET Nat
  <2>1. O \in SUBSET Nat /\ O # {}
    BY <1>2, DataAssumption DEF Offs
  <2>2. pio.off = Min(O)
    BY DEF ParityOff, all
  <2> HIDE DEF O
  <2>3. QED
    BY <2>1, <2>2, MinOfNats
<1>5. pio.len \in L /\ (\A y \in L : pio.len >= y) /\ L \in SUBSET Nat
  <2>1. L \in SUBSET Nat /\ L # {} /\ \A y \in L : y <= SCHUNK_SIZE
    BY <1>2, <1>3 DEF Lens
  <2>2. pio.len = Max(L)
    BY DEF all
  <2> HIDE DEF L
  <2>3. QED
    BY <1>1, <2>1, <2>2, MaxOfNats
<1>6. PICK big \in all : pio.len = big.len
  BY <1>5 DEF Lens
<1>7. pio.off \in Nat /\ pio.len \in 1 .. SCHUNK_SIZE
  BY <1>1, <1>2, <1>4, <1>6
<1>8. CASE pio.off \in Offs(all)
  <2>1. PICK io \in all : pio.off = io.off
    BY <1>8 DEF Offs
  <2>2. pio.off <= big.off
    BY <1>4 DEF Offs
  <2>3. ChunkOff(s) <= pio.off
    BY <1>2, <2>1
  <2>4. pio.off + pio.len <= ChunkOff(s) + SCHUNK_SIZE
    <3>1. big.off \in Nat /\ big.len \in Nat /\ big.off + big.len <= ChunkOff(s) + SCHUNK_SIZE
      BY <1>2
    <3>2. QED
      BY <1>1, <1>6, <1>7, <2>2, <3>1
  <2>5. pio.len \in Nat
    BY <1>7
  <2>6. ParityFits(pio, s)
    BY <1>7, <2>3, <2>4, <2>5, ParityInStripe
  <2>7. QED
    BY <1>7, <2>6
<1>9. CASE pio.off = INT_MAX
  <2>1. ~(pio.off % SECTOR_SIZE = 0)
    BY <1>9, DataAssumption
  <2>2. ParityFits(pio, s)
    BY <2>1 DEF ParityFits, Takes
  <2>3. QED
    BY <1>7, <2>2
<1>10. QED
  BY <1>4, <1>8, <1>9

(* The batch of a leader's piece alone or with one of a follower.          *)
LEMMA LeaderAlone ==
  ASSUME NEW p
  PROVE  /\ <<p>> \o <<>> = <<p>>
         /\ UNION {Dios(<<>>[j], j + 1) : j \in 1 .. Len(<<>>)} = {}
<1>1. 1 .. Len(<<>>) = {}
  OBVIOUS
<1>2. QED
  BY <1>1

LEMMA WithFollower ==
  ASSUME NEW p, NEW f, NEW s, IsPiece(p), user2stripe(p.off) = s,
         IsPiece(f), user2stripe(f.off) = s
  PROVE  /\ IsBatch(<<p>> \o <<f>>, s) /\ Len(<<p>> \o <<f>>) # 0
         /\ PieceIOs(<<p>> \o <<f>>) =
              Dios(p, 1) \union UNION {Dios(<<f>>[j], j + 1) : j \in 1 .. Len(<<f>>)}
<1> DEFINE ps == <<p>> \o <<f>>
           b == <<f>>
<1>1. Len(ps) = 2 /\ ps[1] = p /\ ps[2] = f /\ 1 .. 2 = {1, 2}
  OBVIOUS
<1>2. Len(b) = 1 /\ b[1] = f /\ 1 .. 1 = {1} /\ 1 + 1 = 2
  OBVIOUS
<1> HIDE DEF ps, b
<1>3. IsBatch(ps, s)
  BY <1>1 DEF IsBatch
<1>4. PieceIOs(ps) = Dios(p, 1) \union Dios(f, 2)
  <2>1. {Dios(ps[w], w) : w \in 1 .. Len(ps)} = {Dios(p, 1), Dios(f, 2)}
    BY <1>1
  <2>2. QED
    BY <2>1 DEF PieceIOs
<1>5. UNION {Dios(b[j], j + 1) : j \in 1 .. Len(b)} = Dios(f, 2)
  <2>1. {Dios(b[j], j + 1) : j \in 1 .. Len(b)} = {Dios(f, 2)}
    BY <1>2
  <2>2. QED
    BY <2>1
<1>6. QED
  BY <1>1, <1>3, <1>4, <1>5 DEF ps, b

-----------------------------------------------------------------------------
(* What is stored has its type.                                            *)

(* The units of a parity I/O.                                              *)
IsParity(pio) ==
  pio.off \in Nat /\ pio.len \in 1 .. SCHUNK_SIZE /\ pio.data \in [Units -> Contents]

LEMMA TakesTyped ==
  ASSUME io_count \in Nat, NEW s, NEW ps, NEW pio, IsBatch(ps, s), IsParity(pio),
         NEW io \in WriteIOs(ps, pio), NEW d, NEW r, Takes(io, d, r)
  PROVE  io.data[r - io.off] \in Contents
<1>1. CASE io = pio
  <2>1. r \in pio.off .. pio.off + pio.len - 1
    BY <1>1 DEF Takes
  <2>2. SCHUNK_SIZE \in Nat
    BY LayoutAssumption
  <2>3. r - pio.off \in Units
    BY <2>1, <2>2 DEF Units, IsParity
  <2>4. QED
    BY <1>1, <2>3 DEF IsParity
<1>2. CASE io \in PieceIOs(ps)
  <2>1. PICK w \in 1 .. Len(ps), a \in Addresses :
          io.data[r - io.off] = Data(io_count, w, a)
    BY <1>2, BatchTakes
  <2>2. w \in Int /\ a \in Int /\ io_count \in Int
    BY AddressPlace DEF IsBatch
  <2>3. QED
    BY <2>1, <2>2 DEF Data, Contents
<1>3. QED
  BY <1>1, <1>2 DEF WriteIOs

LEMMA FullTyped ==
  ASSUME NEW bufs \in [0 .. DATACHUNK_NUM - 1 -> [Units -> Contents]]
  PROVE  do_full_encode(bufs) \in [Units -> Contents]
<1>1. ASSUME NEW k \in Units
      PROVE  XorOver([c \in 0 .. DATACHUNK_NUM - 1 |-> bufs[c][k]]) \in Contents
  <2> DEFINE f == [c \in 0 .. DATACHUNK_NUM - 1 |-> bufs[c][k]]
  <2>1. \A c \in DOMAIN f : f[c] \in Contents
    OBVIOUS
  <2> HIDE DEF f
  <2>2. XorOver(f) \in Contents
    BY <2>1, XorOverIn DEF Contents
  <2>3. QED
    BY <2>2 DEF f
<1>2. QED
  BY <1>1 DEF do_full_encode

LEMMA FullDataTyped ==
  ASSUME NEW p, IsPiece(p), io_count \in Nat
  PROVE  FullData(p) \in [0 .. DATACHUNK_NUM - 1 -> [Units -> Contents]]
<1>1. ASSUME NEW c \in 0 .. DATACHUNK_NUM - 1, NEW k \in Units
      PROVE  Data(io_count, 1, p.off + c * SCHUNK_SIZE + k) \in Contents
  <2> DEFINE a == p.off + c * SCHUNK_SIZE + k
  <2>1. a \in Int
    <3>1. p.off \in Int /\ SCHUNK_SIZE \in Int /\ k \in Int /\ c \in Int
      BY PieceFacts, LayoutAssumption DEF Units
    <3>2. c * SCHUNK_SIZE \in Int
      BY <3>1
    <3>3. QED
      BY <3>1, <3>2
  <2> HIDE DEF a
  <2>2. Data(io_count, 1, a) \in Contents
    BY <2>1 DEF Data, Contents
  <2>3. QED
    BY <2>2 DEF a
<1>2. QED
  BY <1>1 DEF FullData

LEMMA PartTyped ==
  ASSUME disk \in [Devices -> [Rows -> Contents]],
         NEW s \in Stripes, NEW ps, IsBatch(ps, s), NEW par \in [Units -> Contents]
  PROVE  do_part_encode(par, PieceIOs(ps), stripe2devoff(s, 0)) \in [Units -> Contents]
<1> DEFINE all == PieceIOs(ps)
           row(k) == stripe2devoff(s, 0) + k
           here(k) == {io \in all : row(k) \in io.off .. io.off + io.len - 1}
           f(k) == [io \in here(k) |-> Xor(disk[io.dev][row(k)], newdata)]
<1>1. ASSUME NEW k \in Units PROVE Xor(par[k], XorOver(f(k))) \in Contents
  <2>1. row(k) \in Rows
    BY StripeFacts
  <2>2. \A io \in all : io.dev \in Devices
    BY BatchBounds
  <2> HIDE DEF row, all
  <2>3. ASSUME NEW io \in here(k) PROVE f(k)[io] \in Contents
    <3>1. disk[io.dev][row(k)] \in Contents
      BY <2>1, <2>2
    <3>2. f(k)[io] = Xor(disk[io.dev][row(k)], newdata)
      OBVIOUS
    <3>3. QED
      BY <3>1, <3>2 DEF Xor, newdata, Contents
  <2>4. DOMAIN f(k) = here(k)
    OBVIOUS
  <2> HIDE DEF f, here
  <2>5. XorOver(f(k)) \in Contents
    BY <2>3, <2>4, XorOverIn DEF Contents
  <2>6. par[k] \in Contents
    OBVIOUS
  <2>7. QED
    BY <2>5, <2>6 DEF Xor, Contents
<1>2. do_part_encode(par, all, stripe2devoff(s, 0)) = [k \in Units |-> Xor(par[k], XorOver(f(k)))]
  BY DEF do_part_encode
<1> HIDE DEF f, all
<1>3. do_part_encode(par, all, stripe2devoff(s, 0)) \in [Units -> Contents]
  BY <1>1, <1>2
<1>4. QED
  BY <1>3 DEF all

LEMMA BuffersTyped ==
  ASSUME TypeOK, NEW s \in Stripes, NEW own, NEW others
  PROVE  /\ OldParity(s, own) \in [Units -> Contents]
         /\ Reread(s, others) \in [0 .. DATACHUNK_NUM - 1 -> [Units -> Contents]]
<1>1. /\ disk \in [Devices -> [Rows -> Contents]] /\ parbuf \in [Units -> Contents]
      /\ endata \in [0 .. DATACHUNK_NUM - 1 -> [Units -> Contents]]
  BY DEF TypeOK
<1>2. stripe2paritypos(s) \in Devices /\ \A k \in Units : stripe2devoff(s, 0) + k \in Rows
  BY StripeFacts
<1>3. ASSUME NEW c \in 0 .. DATACHUNK_NUM - 1 PROVE c \in Devices
  <2>1. DATACHUNK_NUM \in Nat /\ PARITYCHUNK_NUM \in Nat
    BY LayoutAssumption
  <2>2. QED
    BY <2>1 DEF Devices, NUM_DEVFILES
<1>4. OldParity(s, own) \in [Units -> Contents]
  BY <1>1, <1>2 DEF OldParity
<1>5. Reread(s, others) \in [0 .. DATACHUNK_NUM - 1 -> [Units -> Contents]]
  BY <1>1, <1>2, <1>3 DEF Reread
<1>6. QED
  BY <1>4, <1>5

-----------------------------------------------------------------------------
(* The chunks of the reads.                                                *)

ReadChunks == UNION {Chunks(p) : p \in Reads}

LEMMA ReadFacts ==
  ASSUME NEW p \in Reads
  PROVE  p.off \in Nat /\ p.len \in Nat \ {0} /\ Span(p) \subseteq Addresses
<1> DEFINE N == NUM_STRIPES * SSTRIPE_DATASIZE
<1>1. N \in Nat
  <2>1. SSTRIPE_DATASIZE \in Nat /\ NUM_STRIPES \in Nat
    BY Striping, DataAssumption
  <2>2. QED
    BY <2>1
<1>2. Addresses = 0 .. N - 1
  BY DEF Addresses
<1>3. p.off \in Addresses /\ p.len \in Nat \ {0} /\ p.off + p.len - 1 \in Addresses
  BY DataAssumption
<1> HIDE DEF N
<1>4. QED
  BY <1>1, <1>2, <1>3 DEF Span

LEMMA ReadChunkFacts ==
  ASSUME NEW c \in ReadChunks
  PROVE  /\ c.off \in Nat /\ c.len \in Nat \ {0} /\ Span(c) \subseteq Addresses
         /\ user2dev(c.off).dev \in Devices
         /\ \A a \in Span(c) :
              /\ user2dev(a).dev = user2dev(c.off).dev
              /\ user2dev(a).off = user2dev(c.off).off + (a - c.off)
              /\ user2stripe(a) = user2stripe(c.off)
<1>1. PICK p \in Reads : c \in Chunks(p)
  BY DEF ReadChunks
<1>2. p.off \in Nat /\ p.len \in Nat \ {0} /\ Span(p) \subseteq Addresses
  BY ReadFacts
<1>3. /\ c.off \in Nat /\ c.len \in Nat \ {0}
      /\ p.off <= c.off /\ c.off + c.len <= p.off + p.len
      /\ ChunkOf(c.off) = ChunkOf(c.off + c.len - 1)
  BY <1>1, <1>2, ChunkFacts
<1>4. Span(c) \subseteq Span(p)
  BY <1>2, <1>3 DEF Span
<1>5. ASSUME NEW a \in Span(c)
      PROVE  /\ user2dev(a).dev = user2dev(c.off).dev
             /\ user2dev(a).off = user2dev(c.off).off + (a - c.off)
             /\ user2stripe(a) = user2stripe(c.off)
  <2> DEFINE b == c.off + c.len - 1
  <2>1. a \in Nat /\ b \in Nat /\ c.off <= a /\ a <= b
    BY <1>3 DEF Span
  <2>2. ChunkOf(c.off) = ChunkOf(b)
    BY <1>3
  <2> HIDE DEF b
  <2>3. ChunkOf(c.off) <= ChunkOf(a) /\ ChunkOf(a) <= ChunkOf(b)
        /\ ChunkOf(c.off) \in Nat /\ ChunkOf(a) \in Nat
    <3>1. SCHUNK_SIZE \in Nat \ {0}
      BY LayoutAssumption
    <3>2. c.off \in Nat
      BY <1>3
    <3>3. QED
      BY <2>1, <3>1, <3>2, DivMonotone, Chunking DEF ChunkOf
  <2>4. ChunkOf(a) = ChunkOf(c.off)
    BY <2>2, <2>3
  <2>5. user2dev(a).dev = user2dev(c.off).dev
        /\ user2dev(a).off \in Nat /\ user2dev(c.off).off \in Nat
        /\ user2dev(a).off - user2dev(c.off).off = a - c.off
    BY <1>3, <2>1, <2>4, SameChunk
  <2>6. user2stripe(a) = user2stripe(c.off)
    BY <2>4 DEF user2stripe, ChunkOf
  <2>7. user2dev(a).off = user2dev(c.off).off + (a - c.off)
    <3>1. \A x, y, z \in Int : x - y = z => x = y + z
      OBVIOUS
    <3>2. a - c.off \in Int
      BY <1>3, <2>1
    <3>3. QED
      BY <2>5, <3>1, <3>2
  <2>8. QED
    BY <2>5, <2>6, <2>7
<1>6. user2dev(c.off).dev \in Devices
  BY <1>3, ParityApart
<1>7. QED
  BY <1>2, <1>3, <1>4, <1>5, <1>6

HeldIn(x, d, c) == [k \in 0 .. c.len - 1 |-> x[d][user2dev(c.off).off + k]]

(* The unit of a chunk at an address.                                      *)
LEMMA HeldAt ==
  ASSUME NEW x, NEW d, NEW c \in ReadChunks, NEW a \in Span(c)
  PROVE  /\ a - c.off \in 0 .. c.len - 1
         /\ HeldIn(x, d, c)[a - c.off] = x[d][user2dev(a).off]
<1>1. /\ c.off \in Nat /\ c.len \in Nat \ {0}
      /\ user2dev(a).off = user2dev(c.off).off + (a - c.off)
  BY ReadChunkFacts
<1>2. a - c.off \in 0 .. c.len - 1
  BY <1>1 DEF Span
<1>3. QED
  BY <1>1, <1>2 DEF HeldIn

(* What a device holds of a chunk only the rows of its stripe say.         *)
LEMMA HeldKept ==
  ASSUME NEW c \in ReadChunks, NEW d, NEW x, NEW y,
         \A r \in Rows : devoff2stripe(r) = user2stripe(c.off) => x[d][r] = y[d][r]
  PROVE  HeldIn(x, d, c) = HeldIn(y, d, c)
<1>1. ASSUME NEW k \in 0 .. c.len - 1
      PROVE  x[d][user2dev(c.off).off + k] = y[d][user2dev(c.off).off + k]
  <2> DEFINE a == c.off + k
  <2>1. c.off \in Nat /\ c.len \in Nat \ {0}
    BY ReadChunkFacts
  <2>2. a \in Span(c) /\ a - c.off = k
    BY <2>1 DEF Span
  <2> HIDE DEF a
  <2>3. /\ user2dev(a).off = user2dev(c.off).off + k
        /\ user2stripe(a) = user2stripe(c.off) /\ a \in Addresses
    BY <2>2, ReadChunkFacts
  <2>4. user2dev(a).off \in Rows /\ devoff2stripe(user2dev(a).off) = user2stripe(a)
    BY <2>3, AddressPlace
  <2>5. QED
    BY <2>3, <2>4
<1>2. QED
  BY <1>1 DEF HeldIn

-----------------------------------------------------------------------------
(* The invariant.  While a write is under way its stripe does not count as *)
(* clean, and wherever none of its I/Os is still to land one of them has.  *)
WriteOf(s, pio) ==
  /\ s \in Stripes /\ s \notin clean /\ IsBatch(batch, s) /\ Len(batch) # 0
  /\ ParityFits(pio, s) /\ IsParity(pio) /\ io_count < MaxIO
  /\ pending \subseteq WriteIOs(batch, pio)
  /\ Settled(disk, WriteIOs(batch, pio), pending)
  /\ is_fullstripe(batch[1].off, batch[1].len) =>
       batch = <<batch[1]>> /\ pio = FullParity(batch[1])
WriteUnderWay == IF batch = <<>> THEN pending = {} ELSE \E s, pio : WriteOf(s, pio)

(* Every address holds what was written to it or is being written.         *)
Stored == \A a \in Addresses : At(disk, a) \in written[a] \union InFlight(a)

(* A read may return either, also of what it has still to ask for.         *)
ReadUnderWay ==
  /\ \A a \in DOMAIN may : a \in Addresses /\ written[a] \union InFlight(a) \subseteq may[a]
  /\ DOMAIN got \subseteq DOMAIN may
  /\ asked \subseteq ReadChunks /\ \A c \in asked : Span(c) \subseteq DOMAIN may
  /\ refused \in Seq(ReadChunks)
  /\ \A i \in 1 .. Len(refused) : Span(refused[i]) \subseteq DOMAIN may

(* What reconstruct_dio has read of a stripe that no write has disturbed   *)
(* is what the devices still hold.                                         *)
PartsHeld ==
  /\ asked # {} \/ refused = <<>> => parts = <<>>
  /\ refused # <<>> /\ user2stripe(Head(refused).off) \in calm =>
       \A d \in DOMAIN parts : parts[d] = HeldIn(disk, d, Head(refused))

IInv == /\ TypeOK /\ WriteUnderWay /\ Stored /\ CleanParity /\ calm \subseteq clean
        /\ ReadUnderWay /\ PartsHeld /\ ReadCorrect

LEMMA FlightSame ==
  ASSUME batch' = batch, io_count' = io_count
  PROVE  \A a : InFlight(a)' = InFlight(a)
BY DEF InFlight, Data

LEMMA NoFlight ==
  ASSUME batch = <<>>
  PROVE  \A a : InFlight(a) = {}
<1>1. 1 .. Len(batch) = {}
  OBVIOUS
<1>2. QED
  BY <1>1 DEF InFlight

LEMMA FlightOf ==
  ASSUME NEW a, NEW w \in 1 .. Len(batch), a \in Span(batch[w])
  PROVE  Data(io_count, w, a) \in InFlight(a)
BY DEF InFlight

LEMMA IOsSame ==
  ASSUME NEW ps, io_count' = io_count, batch' = ps
  PROVE  /\ \A pio : WriteIOs(batch, pio)' = WriteIOs(ps, pio)
         /\ FullParity(batch[1])' = FullParity(ps[1])
<1>1. PieceIOs(batch)' = PieceIOs(ps)
  BY DEF PieceIOs, Dios, Dio, Data
<1>2. FullParity(batch[1])' = FullParity(ps[1])
  BY DEF FullParity, FullData, ParityDio, Data
<1>3. QED
  BY <1>1, <1>2 DEF WriteIOs

(* What steps of the reader leave alone.                                   *)
LEMMA WriterSame ==
  ASSUME IInv, UNCHANGED writing
  PROVE  WriteUnderWay' /\ Stored' /\ CleanParity'
<1>1. UNCHANGED <<disk, io_count, batch, pending, written, clean>>
  BY DEF writing
<1>2. CleanParity'
  BY <1>1 DEF IInv, CleanParity, RowParity
<1>3. Stored'
  <2>1. \A a \in Addresses : At(disk, a)' = At(disk, a)
    BY <1>1 DEF At
  <2>2. QED
    BY <1>1, <2>1, FlightSame DEF IInv, Stored
<1>4. WriteUnderWay'
  <2>1. CASE batch = <<>>
    BY <1>1, <2>1 DEF IInv, WriteUnderWay
  <2>2. CASE batch # <<>>
    <3>1. PICK s, pio : WriteOf(s, pio)
      BY <2>2 DEF IInv, WriteUnderWay
    <3>2. /\ WriteIOs(batch, pio)' = WriteIOs(batch, pio)
          /\ FullParity(batch[1])' = FullParity(batch[1])
      BY <1>1, IOsSame
    <3>3. WriteOf(s, pio)'
      BY <1>1, <3>1, <3>2 DEF WriteOf
    <3>4. QED
      BY <1>1, <2>2, <3>3 DEF WriteUnderWay
  <2>3. QED
    BY <2>1, <2>2
<1>5. QED
  BY <1>2, <1>3, <1>4

-----------------------------------------------------------------------------
(* A write starts.                                                         *)

LEMMA SubmitStep ==
  ASSUME IInv, batch = <<>>, io_count < MaxIO, NEW s \in Stripes, NEW ps, NEW pio,
         Submit(ps, s, WriteIOs(ps, pio)),
         IsBatch(ps, s), Len(ps) # 0, ParityFits(pio, s), IsParity(pio),
         is_fullstripe(ps[1].off, ps[1].len) => ps = <<ps[1]>> /\ pio = FullParity(ps[1])
  PROVE  /\ WriteUnderWay' /\ Stored' /\ CleanParity' /\ (calm \subseteq clean)'
         /\ ReadUnderWay' /\ PartsHeld' /\ ReadCorrect'
<1>1. /\ batch' = ps /\ pending' = WriteIOs(ps, pio)
      /\ may' = [a \in DOMAIN may |-> may[a] \union InFlight(a)']
      /\ clean' = clean \ {s} /\ calm' = calm \ {s}
      /\ UNCHANGED <<disk, io_count, written, asked, refused, parts, got>>
  BY DEF Submit, reading
<1>2. WriteUnderWay'
  <2>1. /\ WriteIOs(batch, pio)' = WriteIOs(ps, pio)
        /\ FullParity(batch[1])' = FullParity(ps[1])
    BY <1>1, IOsSame
  <2>2. Settled(disk, WriteIOs(ps, pio), WriteIOs(ps, pio))
    BY DEF Settled
  <2>3. WriteOf(s, pio)'
    BY <1>1, <2>1, <2>2 DEF WriteOf
  <2>4. batch' # <<>>
    BY <1>1
  <2>5. QED
    BY <2>3, <2>4 DEF WriteUnderWay
<1>3. Stored'
  <2>1. \A a \in Addresses : At(disk, a)' = At(disk, a)
    BY <1>1 DEF At
  <2>2. \A a \in Addresses : At(disk, a) \in written[a]
    BY NoFlight DEF IInv, Stored
  <2>3. QED
    BY <1>1, <2>1, <2>2 DEF Stored
<1>4. CleanParity' /\ (calm \subseteq clean)'
  BY <1>1 DEF IInv, CleanParity, RowParity
<1>5. DOMAIN may' = DOMAIN may
      /\ \A a \in DOMAIN may : may'[a] = may[a] \union InFlight(a)'
  BY <1>1
<1>6. ReadUnderWay'
  <2>1. \A a \in DOMAIN may : a \in Addresses /\ written[a] \subseteq may[a]
    BY DEF IInv, ReadUnderWay
  <2>2. \A a \in DOMAIN may' :
          a \in Addresses /\ written'[a] \union InFlight(a)' \subseteq may'[a]
    BY <1>1, <1>5, <2>1
  <2>3. QED
    BY <1>1, <1>5, <2>2 DEF IInv, ReadUnderWay
<1>7. PartsHeld'
  BY <1>1 DEF IInv, PartsHeld
<1>8. ReadCorrect'
  <2>1. ASSUME NEW a \in DOMAIN got, got[a].how = "read" \/ user2stripe(a) \in calm'
        PROVE  got[a].data \in may'[a]
    <3>1. got[a].data \in may[a]
      BY <1>1, <2>1 DEF IInv, ReadCorrect
    <3>2. a \in DOMAIN may
      BY DEF IInv, ReadUnderWay
    <3>3. QED
      BY <1>5, <3>1, <3>2
  <2>2. QED
    BY <1>1, <2>1 DEF ReadCorrect
<1>9. QED
  BY <1>2, <1>3, <1>4, <1>6, <1>7, <1>8

LEMMA FullStep ==
  ASSUME IInv, batch = <<>>, io_count < MaxIO, NEW p \in WritePieces, StartFull(p)
  PROVE  IInv'
<1> DEFINE s == user2stripe(p.off)
           pio == FullParity(p)
           ps == <<p>>
<1>1. IsPiece(p) /\ s \in Stripes
  BY PiecesArePieces, PieceFacts
<1>2. /\ is_fullstripe(p.off, p.len)
      /\ Submit(<<p>>, s, Dios(p, 1) \union {pio})
      /\ parbuf' = do_full_encode(FullData(p)) /\ endata' = FullData(p)
      /\ cached' = cached
  BY DEF StartFull, FullParity, FullData
<1>3. /\ IsBatch(<<p>>, s) /\ PieceIOs(<<p>>) = Dios(p, 1) /\ ParityFits(pio, s)
  BY <1>1, FullBatch
<1>4. io_count \in Nat /\ io_count' = io_count
  BY <1>2, DataAssumption DEF IInv, TypeOK, Submit
<1>5. FullData(p) \in [0 .. DATACHUNK_NUM - 1 -> [Units -> Contents]]
  BY <1>1, <1>4, FullDataTyped
<1>6. do_full_encode(FullData(p)) \in [Units -> Contents]
  BY <1>5, FullTyped
<1>7. IsParity(pio)
  <2>1. stripe2devoff(s, 0) \in Nat /\ SCHUNK_SIZE \in Nat \ {0}
    BY <1>1, StripeFacts
  <2>2. /\ pio.off = stripe2devoff(s, 0) /\ pio.len = SCHUNK_SIZE
        /\ pio.data = do_full_encode(FullData(p))
    BY DEF FullParity, ParityDio
  <2> HIDE DEF pio, s
  <2>3. QED
    BY <1>6, <2>1, <2>2 DEF IsParity
<1>8. Len(ps) # 0 /\ ps[1] = p /\ ps = <<ps[1]>>
  OBVIOUS
<1>9. Submit(ps, s, WriteIOs(ps, pio)) /\ IsBatch(ps, s) /\ pio = FullParity(ps[1])
  BY <1>2, <1>3, <1>8 DEF WriteIOs
<1> HIDE DEF pio, ps, s
<1>10. /\ WriteUnderWay' /\ Stored' /\ CleanParity' /\ (calm \subseteq clean)'
       /\ ReadUnderWay' /\ PartsHeld' /\ ReadCorrect'
  BY <1>1, <1>3, <1>7, <1>8, <1>9, SubmitStep
<1>11. TypeOK'
  BY <1>2, <1>4, <1>5, <1>6 DEF TypeOK, IInv, Submit, reading
<1>12. QED
  BY <1>10, <1>11 DEF IInv

LEMMA PartialStep ==
  ASSUME IInv, batch = <<>>, io_count < MaxIO, NEW p \in WritePieces, NEW b,
         \/ b = <<>>
         \/ \E f \in FollowerPieces : user2stripe(f.off) = user2stripe(p.off) /\ b = <<f>>,
         StartPartial(p, b)
  PROVE  IInv'
<1> DEFINE s == user2stripe(p.off)
           ps == <<p>> \o b
           own == Dios(p, 1)
           others == UNION {Dios(b[j], j + 1) : j \in 1 .. Len(b)}
           all == own \union others
           rebuild == TotalLen(others) > (SSTRIPE_DATASIZE - TotalLen(own)) \div 2
           bufs == IF rebuild THEN Reread(s, others) ELSE endata
           par == IF rebuild THEN do_full_encode(bufs)
                  ELSE do_part_encode(OldParity(s, own), all, stripe2devoff(s, 0))
           pio == ParityDio(s, ParityOff(all), Max(Lens(all)), par)
<1>1. IsPiece(p) /\ s \in Stripes
  BY PiecesArePieces, PieceFacts
<1>2. IsBatch(ps, s) /\ Len(ps) # 0 /\ PieceIOs(ps) = all /\ ps[1] = p
  <2>1. CASE b = <<>>
    <3>1. ps = <<p>> /\ others = {}
      BY <2>1, LeaderAlone
    <3>2. IsBatch(<<p>>, s) /\ PieceIOs(<<p>>) = own
      BY <1>1, FullBatch
    <3>3. Len(<<p>>) # 0 /\ <<p>>[1] = p
      OBVIOUS
    <3> HIDE DEF ps, others, own, s
    <3>4. QED
      BY <3>1, <3>2, <3>3
  <2>2. CASE b # <<>>
    <3>1. PICK f \in FollowerPieces : user2stripe(f.off) = s /\ b = <<f>>
      BY <2>2
    <3>2. IsPiece(f)
      BY PiecesArePieces
    <3> HIDE DEF s
    <3>3. /\ IsBatch(<<p>> \o <<f>>, s) /\ Len(<<p>> \o <<f>>) # 0
          /\ PieceIOs(<<p>> \o <<f>>) =
               Dios(p, 1) \union UNION {Dios(<<f>>[j], j + 1) : j \in 1 .. Len(<<f>>)}
      BY <1>1, <3>1, <3>2, WithFollower DEF s
    <3>4. (<<p>> \o <<f>>)[1] = p
      OBVIOUS
    <3>5. QED
      BY <3>1, <3>3, <3>4
  <2>3. QED
    BY <2>1, <2>2
<1>3. /\ ~is_fullstripe(p.off, p.len)
      /\ Submit(ps, s, all \union {pio}) /\ parbuf' = par /\ endata' = bufs
      /\ cached' = cached \union {pio.off}
  BY DEF StartPartial, ParityDio
<1>4. pio.dev = stripe2paritypos(s) /\ pio.off = ParityOff(all) /\ pio.len = Max(Lens(all))
      /\ pio.data = par
  BY DEF ParityDio
<1>5. bufs \in [0 .. DATACHUNK_NUM - 1 -> [Units -> Contents]]
      /\ OldParity(s, own) \in [Units -> Contents]
  <2>1. TypeOK
    BY DEF IInv
  <2> HIDE DEF s, own, others, rebuild
  <2>2. QED
    BY <1>1, <2>1, BuffersTyped DEF TypeOK
<1>6. par \in [Units -> Contents]
  <2>1. disk \in [Devices -> [Rows -> Contents]]
    BY DEF IInv, TypeOK
  <2> HIDE DEF s, own, all, rebuild, bufs, ps
  <2>2. do_full_encode(bufs) \in [Units -> Contents]
    BY <1>5, FullTyped
  <2>3. do_part_encode(OldParity(s, own), all, stripe2devoff(s, 0)) \in [Units -> Contents]
    BY <1>1, <1>2, <1>5, <2>1, PartTyped
  <2>4. QED
    BY <2>2, <2>3
<1> HIDE DEF pio, par, bufs, all, ps, s
<1>7. pio.off \in Nat /\ pio.len \in 1 .. SCHUNK_SIZE /\ ParityFits(pio, s)
  BY <1>1, <1>2, <1>4, PartialParity
<1>8. IsParity(pio) /\ Submit(ps, s, WriteIOs(ps, pio))
  BY <1>2, <1>3, <1>4, <1>6, <1>7 DEF IsParity, WriteIOs
<1>9. /\ WriteUnderWay' /\ Stored' /\ CleanParity' /\ (calm \subseteq clean)'
      /\ ReadUnderWay' /\ PartsHeld' /\ ReadCorrect'
  BY <1>1, <1>2, <1>3, <1>7, <1>8, SubmitStep
<1>10. TypeOK'
  BY <1>3, <1>5, <1>6, <1>7 DEF TypeOK, IInv, Submit, reading
<1>11. QED
  BY <1>9, <1>10 DEF IInv

-----------------------------------------------------------------------------
(* An I/O of it lands.                                                     *)

LEMMA LandStep ==
  ASSUME IInv, NEW io \in pending, Land(io)
  PROVE  IInv'
<1>1. /\ pending' = pending \ {io}
      /\ disk' = [d \in Devices |-> [r \in Rows |->
                   IF Takes(io, d, r) THEN io.data[r - io.off] ELSE disk[d][r]]]
      /\ UNCHANGED <<parbuf, endata, cached, io_count, batch, written, clean,
                     asked, refused, parts, got, may, calm>>
  BY DEF Land, reading
<1>2. \A d \in Devices, r \in Rows :
        disk'[d][r] = IF Takes(io, d, r) THEN io.data[r - io.off] ELSE disk[d][r]
  BY <1>1
<1>3. batch # <<>>
  BY DEF IInv, WriteUnderWay
<1>4. PICK s, pio : WriteOf(s, pio)
  BY <1>3 DEF IInv, WriteUnderWay
<1> DEFINE ios == WriteIOs(batch, pio)
<1>5. /\ s \in Stripes /\ s \notin clean /\ IsBatch(batch, s) /\ Len(batch) # 0
      /\ ParityFits(pio, s) /\ IsParity(pio)
      /\ pending \subseteq ios /\ Settled(disk, ios, pending) /\ io \in ios
  BY <1>4 DEF WriteOf
<1>6. io_count \in Nat
  BY DataAssumption DEF IInv, TypeOK
<1>7. TypeOK'
  <2>1. ASSUME NEW d \in Devices, NEW r \in Rows PROVE disk'[d][r] \in Contents
    <3>1. Takes(io, d, r) => io.data[r - io.off] \in Contents
      BY <1>5, <1>6, TakesTyped
    <3>2. disk[d][r] \in Contents
      BY DEF IInv, TypeOK
    <3>3. QED
      BY <1>2, <3>1, <3>2
  <2> DEFINE row(d) == [r \in Rows |->
                          IF Takes(io, d, r) THEN io.data[r - io.off] ELSE disk[d][r]]
  <2>2. disk' = [d \in Devices |-> row(d)]
    BY <1>1
  <2>3. ASSUME NEW d \in Devices PROVE row(d) \in [Rows -> Contents]
    <3>1. \A r \in Rows : row(d)[r] = disk'[d][r]
      BY <2>2
    <3>2. \A r \in Rows : row(d)[r] \in Contents
      BY <2>1, <3>1
    <3>3. QED
      BY <3>2
  <2> HIDE DEF row
  <2>4. disk' \in [Devices -> [Rows -> Contents]]
    BY <2>2, <2>3
  <2>5. QED
    BY <1>1, <2>4 DEF IInv, TypeOK
<1>8. WriteUnderWay'
  <2>1. ASSUME NEW d \in Devices, NEW r \in Rows, \E j \in ios : Takes(j, d, r)
        PROVE  \/ \E j \in pending' : Takes(j, d, r)
               \/ \E j \in ios : Takes(j, d, r) /\ disk'[d][r] = j.data[r - j.off]
    <3>1. CASE Takes(io, d, r)
      BY <1>2, <1>5, <3>1
    <3>2. CASE ~Takes(io, d, r)
      <4>1. \/ \E j \in pending : Takes(j, d, r)
            \/ \E j \in ios : Takes(j, d, r) /\ disk[d][r] = j.data[r - j.off]
        <5> HIDE DEF ios
        <5>1. QED
          BY <1>5, <2>1 DEF Settled
      <4>2. disk'[d][r] = disk[d][r]
        BY <1>2, <3>2
      <4>3. QED
        BY <1>1, <3>2, <4>1, <4>2
    <3>3. QED
      BY <3>1, <3>2
  <2>2. Settled(disk', ios, pending')
    <3> HIDE DEF ios
    <3>1. QED
      BY <2>1 DEF Settled
  <2>3. /\ WriteIOs(batch, pio)' = ios
        /\ FullParity(batch[1])' = FullParity(batch[1])
    BY <1>1, IOsSame
  <2>4. WriteOf(s, pio)'
    BY <1>1, <1>4, <1>5, <2>2, <2>3 DEF WriteOf
  <2>5. QED
    BY <1>1, <1>3, <2>4 DEF WriteUnderWay
<1>9. Stored'
  <2>1. ASSUME NEW a \in Addresses
        PROVE  At(disk', a) \in written[a] \union InFlight(a)
    <3> DEFINE d == user2dev(a).dev
               r == user2dev(a).off
    <3>1. d \in Devices /\ r \in Rows
      BY AddressPlace
    <3>2. At(disk', a) = IF TakesAt(io, a) THEN io.data[r - io.off] ELSE At(disk, a)
      <4>1. At(disk', a) = disk'[d][r] /\ At(disk, a) = disk[d][r]
            /\ (TakesAt(io, a) <=> Takes(io, d, r))
        BY DEF At, TakesAt
      <4> HIDE DEF d, r
      <4>2. QED
        BY <1>2, <3>1, <4>1
    <3>3. CASE TakesAt(io, a)
      <4>1. PICK w \in 1 .. Len(batch) :
              a \in Span(batch[w]) /\ io.data[r - io.off] = Data(io_count, w, a)
        BY <1>5, <3>3, AddressTaken
      <4>2. QED
        BY <3>2, <3>3, <4>1, FlightOf
    <3>4. CASE ~TakesAt(io, a)
      BY <3>2, <3>4 DEF IInv, Stored
    <3>5. QED
      BY <3>3, <3>4
  <2>2. \A a \in Addresses : At(disk, a)' = At(disk', a)
    BY DEF At
  <2>3. QED
    BY <1>1, <2>1, <2>2, FlightSame DEF Stored
<1>10. ASSUME NEW d \in Devices, NEW r \in Rows, devoff2stripe(r) \in clean
       PROVE  disk'[d][r] = disk[d][r]
  <2>1. ~Takes(io, d, r)
    BY <1>5, <1>10, TakesInStripe
  <2>2. QED
    BY <1>2, <2>1
<1>11. CleanParity'
  <2>1. ASSUME NEW r \in Rows, devoff2stripe(r) \in clean PROVE RowParity(r)' = {}
    <3>1. [d \in Devices |-> disk'[d][r]] = [d \in Devices |-> disk[d][r]]
      BY <1>10, <2>1
    <3>2. RowParity(r)' = RowParity(r)
      BY <3>1 DEF RowParity
    <3>3. QED
      BY <2>1, <3>2 DEF IInv, CleanParity
  <2>2. QED
    BY <1>1, <2>1 DEF CleanParity
<1>12. PartsHeld'
  <2>1. ASSUME refused # <<>>, user2stripe(Head(refused).off) \in calm,
               NEW d \in DOMAIN parts
        PROVE  parts[d] = HeldIn(disk', d, Head(refused))
    <3> DEFINE c == Head(refused)
    <3>1. c \in ReadChunks /\ user2stripe(c.off) \in clean /\ d \in Devices
      BY <2>1 DEF IInv, ReadUnderWay, TypeOK
    <3>2. parts[d] = HeldIn(disk, d, c)
      BY <2>1 DEF IInv, PartsHeld
    <3> HIDE DEF c
    <3>3. \A r \in Rows : devoff2stripe(r) = user2stripe(c.off) => disk[d][r] = disk'[d][r]
      BY <1>10, <3>1
    <3>4. HeldIn(disk, d, c) = HeldIn(disk', d, c)
      BY <3>1, <3>3, HeldKept
    <3>5. QED
      BY <3>2, <3>4 DEF c
  <2>2. QED
    BY <1>1, <2>1 DEF IInv, PartsHeld
<1>13. ReadUnderWay' /\ ReadCorrect' /\ (calm \subseteq clean)'
  BY <1>1, FlightSame DEF IInv, ReadUnderWay, ReadCorrect
<1>14. QED
  BY <1>7, <1>8, <1>9, <1>11, <1>12, <1>13 DEF IInv

-----------------------------------------------------------------------------
(* The write ends.                                                         *)

LEMMA EndStep ==
  ASSUME IInv, EndWrite
  PROVE  IInv'
<1>1. /\ batch # <<>> /\ pending = {}
      /\ written' = [a \in Addresses |->
                       IF InFlight(a) = {} THEN written[a] ELSE InFlight(a)]
      /\ clean' = IF is_fullstripe(batch[1].off, batch[1].len)
                  THEN clean \union {user2stripe(batch[1].off)} ELSE clean
      /\ batch' = <<>> /\ io_count' = io_count + 1
      /\ UNCHANGED <<disk, parbuf, endata, cached, pending,
                     asked, refused, parts, got, may, calm>>
  BY DEF EndWrite, reading
<1>2. PICK s, pio : WriteOf(s, pio)
  BY <1>1 DEF IInv, WriteUnderWay
<1> DEFINE ios == WriteIOs(batch, pio)
<1>3. /\ s \in Stripes /\ IsBatch(batch, s) /\ Len(batch) # 0 /\ ParityFits(pio, s)
      /\ Settled(disk, ios, {}) /\ io_count < MaxIO
      /\ is_fullstripe(batch[1].off, batch[1].len) =>
           batch = <<batch[1]>> /\ pio = FullParity(batch[1])
  BY <1>1, <1>2 DEF WriteOf
<1>4. 1 \in 1 .. Len(batch) /\ IsPiece(batch[1]) /\ user2stripe(batch[1].off) = s
  BY <1>3 DEF IsBatch
<1>5. \A a : InFlight(a)' = {}
  <2>1. 1 .. Len(batch)' = {}
    BY <1>1
  <2>2. QED
    BY <2>1 DEF InFlight
<1>6. \A a \in Addresses :
        written'[a] = IF InFlight(a) = {} THEN written[a] ELSE InFlight(a)
  BY <1>1
<1>7. TypeOK'
  <2>1. io_count' \in 0 .. MaxIO
    BY <1>1, <1>3, DataAssumption DEF IInv, TypeOK
  <2>2. QED
    BY <1>1, <1>3, <1>4, <2>1 DEF IInv, TypeOK
<1>8. WriteUnderWay'
  BY <1>1 DEF WriteUnderWay
<1>9. Stored'
  <2>1. ASSUME NEW a \in Addresses PROVE At(disk, a) \in written'[a]
    <3>1. CASE InFlight(a) = {}
      BY <1>6, <3>1 DEF IInv, Stored
    <3>2. CASE InFlight(a) # {}
      <4>1. PICK v \in 1 .. Len(batch) : a \in Span(batch[v])
        BY <3>2 DEF InFlight
      <4>2. PICK w \in 1 .. Len(batch) :
              a \in Span(batch[w]) /\ At(disk, a) = Data(io_count, w, a)
        BY <1>3, <4>1, AddressSettled
      <4>3. QED
        BY <1>6, <3>2, <4>2, FlightOf
    <3>3. QED
      BY <3>1, <3>2
  <2>2. \A a \in Addresses : At(disk, a)' = At(disk, a)
    BY <1>1 DEF At
  <2>3. QED
    BY <2>1, <2>2 DEF Stored
<1>10. CleanParity'
  <2>1. ASSUME NEW r \in Rows, devoff2stripe(r) \in clean' PROVE RowParity(r) = {}
    <3>1. CASE devoff2stripe(r) \in clean
      BY <3>1 DEF IInv, CleanParity
    <3>2. CASE devoff2stripe(r) \notin clean
      <4>1. is_fullstripe(batch[1].off, batch[1].len) /\ devoff2stripe(r) = s
        BY <1>1, <1>4, <2>1, <3>2
      <4> DEFINE p == batch[1]
      <4>2. Settled(disk, WriteIOs(<<p>>, FullParity(p)), {}) /\ IsPiece(p)
            /\ is_fullstripe(p.off, p.len) /\ devoff2stripe(r) = user2stripe(p.off)
        BY <1>3, <1>4, <4>1
      <4> HIDE DEF p
      <4>3. XorOver([d \in Devices |-> disk[d][r]]) = {}
        BY <4>2, FullRowZero
      <4>4. QED
        BY <4>3 DEF RowParity
    <3>3. QED
      BY <3>1, <3>2
  <2>2. \A r \in Rows : RowParity(r)' = RowParity(r)
    BY <1>1 DEF RowParity
  <2>3. QED
    BY <2>1, <2>2 DEF CleanParity
<1>11. ReadUnderWay'
  <2>1. ASSUME NEW a \in DOMAIN may
        PROVE  a \in Addresses /\ written'[a] \union InFlight(a)' \subseteq may[a]
    <3>1. a \in Addresses /\ written[a] \union InFlight(a) \subseteq may[a]
      BY DEF IInv, ReadUnderWay
    <3>2. QED
      BY <1>5, <1>6, <3>1
  <2>2. QED
    BY <1>1, <2>1 DEF IInv, ReadUnderWay
<1>12. PartsHeld' /\ ReadCorrect' /\ (calm \subseteq clean)'
  BY <1>1 DEF IInv, PartsHeld, ReadCorrect
<1>13. QED
  BY <1>7, <1>8, <1>9, <1>10, <1>11, <1>12 DEF IInv

-----------------------------------------------------------------------------
(* A read.                                                                 *)

LEMMA StartReadStep ==
  ASSUME IInv, NEW p \in Reads, StartRead(p)
  PROVE  IInv'
<1>1. /\ asked = {} /\ refused = <<>> /\ asked' = Chunks(p) /\ got' = <<>>
      /\ may' = [a \in Span(p) |-> written[a] \union InFlight(a)]
      /\ calm' = clean /\ UNCHANGED writing /\ UNCHANGED <<refused, parts>>
  BY DEF StartRead
<1>2. UNCHANGED <<disk, parbuf, endata, cached, io_count, batch, pending, written, clean>>
  BY <1>1 DEF writing
<1>3. WriteUnderWay' /\ Stored' /\ CleanParity'
  BY <1>1, WriterSame
<1>4. TypeOK' /\ (calm \subseteq clean)'
  BY <1>1, <1>2 DEF IInv, TypeOK
<1>5. ReadUnderWay'
  <2>1. p.off \in Nat /\ p.len \in Nat \ {0} /\ Span(p) \subseteq Addresses
    BY ReadFacts
  <2>2. ASSUME NEW c \in Chunks(p) PROVE Span(c) \subseteq Span(p)
    <3>1. /\ c.off \in Nat /\ c.len \in Nat \ {0}
          /\ p.off <= c.off /\ c.off + c.len <= p.off + p.len
      BY <2>1, ChunkFacts
    <3>2. QED
      BY <2>1, <3>1 DEF Span
  <2>3. DOMAIN may' = Span(p) /\ DOMAIN got' = {}
        /\ \A a \in Span(p) : may'[a] = written[a] \union InFlight(a)
    BY <1>1
  <2>4. Chunks(p) \subseteq ReadChunks
    BY DEF ReadChunks
  <2>5. Len(refused') = 0 /\ refused' \in Seq(ReadChunks)
    BY <1>1
  <2>6. \A a \in DOMAIN may' :
          a \in Addresses /\ written'[a] \union InFlight(a)' \subseteq may'[a]
    BY <1>2, <2>1, <2>3, FlightSame
  <2>7. asked' \subseteq ReadChunks /\ \A c \in asked' : Span(c) \subseteq DOMAIN may'
    BY <1>1, <2>2, <2>3, <2>4
  <2>8. QED
    BY <2>3, <2>5, <2>6, <2>7 DEF ReadUnderWay
<1>6. PartsHeld'
  BY <1>1 DEF IInv, PartsHeld
<1>7. ReadCorrect'
  <2>1. DOMAIN got' = {}
    BY <1>1
  <2>2. QED
    BY <2>1 DEF ReadCorrect
<1>8. QED
  BY <1>3, <1>4, <1>5, <1>6, <1>7 DEF IInv

(* What a chunk of the buffer is filled with keeps a read right, if it is  *)
(* right itself.                                                           *)
LEMMA FillStep ==
  ASSUME IInv, NEW c, NEW kind, NEW x, Fill(c, kind, x), UNCHANGED <<may, calm>>,
         Span(c) \subseteq DOMAIN may,
         \A a \in Span(c) : kind = "read" \/ user2stripe(a) \in calm => x[a - c.off] \in may[a]
  PROVE  ReadCorrect' /\ DOMAIN got' \subseteq DOMAIN may'
<1>1. DOMAIN got' = DOMAIN got \union Span(c)
      /\ \A a \in DOMAIN got' :
           got'[a] = IF a \in Span(c) THEN [how |-> kind, data |-> x[a - c.off]] ELSE got[a]
  BY DEF Fill
<1>2. DOMAIN got' \subseteq DOMAIN may'
  BY <1>1 DEF IInv, ReadUnderWay
<1>3. ASSUME NEW a \in DOMAIN got', got'[a].how = "read" \/ user2stripe(a) \in calm
      PROVE  got'[a].data \in may[a]
  <2>1. CASE a \in Span(c)
    <3> DEFINE y == x[a - c.off]
    <3>1. got'[a] = [how |-> kind, data |-> y]
      BY <1>1, <1>3, <2>1
    <3>2. y \in may[a] \/ ~(kind = "read" \/ user2stripe(a) \in calm)
      BY <2>1
    <3> HIDE DEF y
    <3>3. got'[a].how = kind /\ got'[a].data = y
      BY <3>1
    <3>4. QED
      BY <1>3, <3>2, <3>3
  <2>2. CASE a \notin Span(c)
    <3>1. got'[a] = got[a] /\ a \in DOMAIN got
      BY <1>1, <2>2
    <3>2. QED
      BY <1>3, <3>1 DEF IInv, ReadCorrect
  <2>3. QED
    BY <2>1, <2>2
<1>4. ReadCorrect'
  BY <1>3 DEF ReadCorrect
<1>5. QED
  BY <1>2, <1>4

(* What is stored at an address a read may return.                         *)
LEMMA StoredMay ==
  ASSUME IInv, NEW a \in DOMAIN may
  PROVE  /\ a \in Addresses /\ At(disk, a) \in may[a]
BY DEF IInv, ReadUnderWay, Stored

LEMMA AnswerStep ==
  ASSUME IInv, NEW c \in asked, Answer(c)
  PROVE  IInv'
<1> DEFINE x == Held(user2dev(c.off).dev, c)
<1>1. /\ asked' = asked \ {c} /\ Fill(c, "read", x)
      /\ UNCHANGED writing /\ UNCHANGED <<refused, parts, may, calm>>
  BY DEF Answer
<1>2. UNCHANGED <<disk, parbuf, endata, cached, io_count, batch, pending, written, clean>>
  BY <1>1 DEF writing
<1>3. c \in ReadChunks /\ Span(c) \subseteq DOMAIN may
  BY DEF IInv, ReadUnderWay
<1>4. ASSUME NEW a \in Span(c) PROVE x[a - c.off] \in may[a]
  <2>1. x[a - c.off] = disk[user2dev(c.off).dev][user2dev(a).off]
    <3>1. x = HeldIn(disk, user2dev(c.off).dev, c)
      BY DEF Held, HeldIn
    <3> HIDE DEF x
    <3>2. HeldIn(disk, user2dev(c.off).dev, c)[a - c.off]
             = disk[user2dev(c.off).dev][user2dev(a).off]
      BY <1>3, HeldAt
    <3>3. QED
      BY <3>1, <3>2
  <2>2. user2dev(c.off).dev = user2dev(a).dev
    BY <1>3, ReadChunkFacts
  <2>3. x[a - c.off] = At(disk, a)
    BY <2>1, <2>2 DEF At
  <2>4. QED
    BY <1>3, <2>3, StoredMay
<1> HIDE DEF x
<1>5. ReadCorrect' /\ DOMAIN got' \subseteq DOMAIN may'
  BY <1>1, <1>3, <1>4, FillStep
<1>6. WriteUnderWay' /\ Stored' /\ CleanParity'
  BY <1>1, WriterSame
<1>7. TypeOK' /\ (calm \subseteq clean)'
  BY <1>1, <1>2 DEF IInv, TypeOK
<1>8. ReadUnderWay'
  BY <1>1, <1>2, <1>5, FlightSame DEF IInv, ReadUnderWay
<1>9. PartsHeld'
  BY <1>1, <1>2 DEF IInv, PartsHeld
<1>10. QED
  BY <1>5, <1>6, <1>7, <1>8, <1>9 DEF IInv

LEMMA RefuseStep ==
  ASSUME IInv, NEW c \in asked, Refuse(c)
  PROVE  IInv'
<1>1. /\ asked' = asked \ {c} /\ refused' = Append(refused, c)
      /\ UNCHANGED writing /\ UNCHANGED <<parts, got, may, calm>>
  BY DEF Refuse
<1>2. UNCHANGED <<disk, parbuf, endata, cached, io_count, batch, pending, written, clean>>
  BY <1>1 DEF writing
<1>3. c \in ReadChunks /\ Span(c) \subseteq DOMAIN may /\ refused \in Seq(ReadChunks)
  BY DEF IInv, ReadUnderWay
<1>4. WriteUnderWay' /\ Stored' /\ CleanParity'
  BY <1>1, WriterSame
<1>5. TypeOK' /\ (calm \subseteq clean)' /\ ReadCorrect'
  BY <1>1, <1>2 DEF IInv, TypeOK, ReadCorrect
<1>6. ReadUnderWay'
  <2>1. refused' \in Seq(ReadChunks)
    BY <1>1, <1>3
  <2>2. ASSUME NEW i \in 1 .. Len(refused') PROVE Span(refused'[i]) \subseteq DOMAIN may
    <3>1. Len(refused') = Len(refused) + 1 /\ Len(refused) \in Nat
          /\ refused'[Len(refused) + 1] = c
          /\ \A j \in 1 .. Len(refused) : refused'[j] = refused[j]
      BY <1>1, <1>3
    <3>2. i \in 1 .. Len(refused) \/ i = Len(refused) + 1
      BY <3>1
    <3>3. \A j \in 1 .. Len(refused) : Span(refused[j]) \subseteq DOMAIN may
      BY DEF IInv, ReadUnderWay
    <3>4. QED
      BY <1>3, <3>1, <3>2, <3>3
  <2>3. QED
    BY <1>1, <1>2, <2>1, <2>2, FlightSame DEF IInv, ReadUnderWay
<1>7. PartsHeld'
  <2>1. parts' = <<>>
    BY <1>1 DEF IInv, PartsHeld
  <2>2. DOMAIN parts' = {}
    BY <2>1
  <2>3. QED
    BY <2>1, <2>2 DEF PartsHeld
<1>8. QED
  BY <1>4, <1>5, <1>6, <1>7 DEF IInv

LEMMA FetchStep ==
  ASSUME IInv, NEW d \in Devices, Fetch(d)
  PROVE  IInv'
<1>1. /\ asked = {} /\ refused # <<>> /\ d \notin DOMAIN parts
      /\ parts' = [e \in DOMAIN parts \union {d} |->
                     IF e = d THEN Held(d, Head(refused)) ELSE parts[e]]
      /\ UNCHANGED writing /\ UNCHANGED <<asked, refused, got, may, calm>>
  BY DEF Fetch
<1>2. UNCHANGED <<disk, parbuf, endata, cached, io_count, batch, pending, written, clean>>
  BY <1>1 DEF writing
<1>3. DOMAIN parts' = DOMAIN parts \union {d}
      /\ \A e \in DOMAIN parts' :
           parts'[e] = IF e = d THEN Held(d, Head(refused)) ELSE parts[e]
  BY <1>1
<1>4. WriteUnderWay' /\ Stored' /\ CleanParity'
  BY <1>1, WriterSame
<1>5. TypeOK' /\ (calm \subseteq clean)' /\ ReadCorrect'
  BY <1>1, <1>2, <1>3 DEF IInv, TypeOK, ReadCorrect
<1>6. ReadUnderWay'
  BY <1>1, <1>2, FlightSame DEF IInv, ReadUnderWay
<1>7. PartsHeld'
  <2>1. ASSUME user2stripe(Head(refused).off) \in calm, NEW e \in DOMAIN parts'
        PROVE  parts'[e] = HeldIn(disk, e, Head(refused))
    <3>1. CASE e = d
      BY <1>3, <2>1, <3>1 DEF Held, HeldIn
    <3>2. CASE e # d
      <4>1. e \in DOMAIN parts /\ parts'[e] = parts[e]
        BY <1>3, <2>1, <3>2
      <4>2. QED
        BY <1>1, <2>1, <4>1 DEF IInv, PartsHeld
    <3>3. QED
      BY <3>1, <3>2
  <2>2. QED
    BY <1>1, <1>2, <2>1 DEF PartsHeld
<1>8. QED
  BY <1>4, <1>5, <1>6, <1>7 DEF IInv

(* What is rebuilt from the other devices is what the device holds, where  *)
(* no write has disturbed the stripe during the read.                      *)
LEMMA RebuildStep ==
  ASSUME IInv, Rebuild
  PROVE  IInv'
<1> DEFINE c == Head(refused)
           dev == user2dev(c.off).dev
           x == [k \in 0 .. c.len - 1 |-> XorOver([d \in DOMAIN parts |-> parts[d][k]])]
<1>1. /\ refused # <<>> /\ DOMAIN parts = Devices \ {dev}
      /\ Fill(c, "reconstructed", x) /\ refused' = Tail(refused) /\ parts' = <<>>
      /\ UNCHANGED writing /\ UNCHANGED <<asked, may, calm>>
  BY DEF Rebuild, Sources
<1>2. UNCHANGED <<disk, parbuf, endata, cached, io_count, batch, pending, written, clean>>
  BY <1>1 DEF writing
<1>3. /\ refused \in Seq(ReadChunks) /\ Len(refused) \in Nat /\ Len(refused) # 0
      /\ c = refused[1] /\ 1 \in 1 .. Len(refused)
  BY <1>1 DEF IInv, ReadUnderWay
<1>4. c \in ReadChunks /\ Span(c) \subseteq DOMAIN may
  <2> HIDE DEF c
  <2>1. c \in ReadChunks
    BY <1>3
  <2>2. \A i \in 1 .. Len(refused) : Span(refused[i]) \subseteq DOMAIN may
    BY DEF IInv, ReadUnderWay
  <2>3. QED
    BY <1>3, <2>1, <2>2
<1>5. ASSUME NEW a \in Span(c), user2stripe(a) \in calm PROVE x[a - c.off] \in may[a]
  <2> DEFINE k == a - c.off
             r == user2dev(a).off
  <2>1. /\ k \in 0 .. c.len - 1
        /\ \A d : HeldIn(disk, d, c)[k] = disk[d][r]
    <3> HIDE DEF c
    <3>1. QED
      BY <1>4, <1>5, HeldAt
  <2>2. /\ user2stripe(c.off) = user2stripe(a) /\ dev = user2dev(a).dev
        /\ a \in Addresses /\ a \in DOMAIN may
    <3> HIDE DEF c
    <3>1. QED
      BY <1>4, <1>5, ReadChunkFacts
  <2>3. \A d \in DOMAIN parts : parts[d] = HeldIn(disk, d, c)
    BY <1>1, <1>5, <2>2 DEF IInv, PartsHeld
  <2>4. dev \in Devices /\ r \in Rows /\ devoff2stripe(r) = user2stripe(a)
    <3> HIDE DEF dev, r
    <3>1. QED
      BY <2>2, AddressPlace DEF r, dev
  <2>5. RowParity(r) = {}
    <3> HIDE DEF r
    <3>1. QED
      BY <1>5, <2>4 DEF IInv, CleanParity
  <2>6. x[k] = XorOver([d \in DOMAIN parts |-> parts[d][k]])
    <3> HIDE DEF k
    <3>1. QED
      BY <2>1
  <2> HIDE DEF k, r, dev, c, x
  <2>7. [d \in DOMAIN parts |-> parts[d][k]] = [d \in Devices \ {dev} |-> disk[d][r]]
    BY <1>1, <2>1, <2>3
  <2>8. x[k] = Rebuilt(dev, r)
    BY <2>6, <2>7 DEF Rebuilt
  <2>9. Rebuilt(dev, r) = disk[dev][r]
    BY <2>4, <2>5, Reconstructs
  <2>10. x[k] = At(disk, a)
    BY <2>2, <2>8, <2>9 DEF At, r
  <2>11. QED
    BY <2>2, <2>10, StoredMay DEF k
<1> HIDE DEF c, x, dev
<1>6. ReadCorrect' /\ DOMAIN got' \subseteq DOMAIN may'
  <2>1. \A a \in Span(c) :
          "reconstructed" = "read" \/ user2stripe(a) \in calm => x[a - c.off] \in may[a]
    BY <1>5
  <2>2. QED
    BY <1>1, <1>4, <2>1, FillStep
<1>7. WriteUnderWay' /\ Stored' /\ CleanParity'
  BY <1>1, WriterSame
<1>8. DOMAIN parts' = {}
  BY <1>1
<1>9. TypeOK' /\ (calm \subseteq clean)'
  BY <1>1, <1>2, <1>8 DEF IInv, TypeOK
<1>10. ReadUnderWay'
  <2>1. /\ refused' \in Seq(ReadChunks) /\ Len(refused') = Len(refused) - 1
        /\ \A i \in 1 .. Len(refused') : refused'[i] = refused[i + 1]
    BY <1>1, <1>3
  <2>2. ASSUME NEW i \in 1 .. Len(refused') PROVE Span(refused'[i]) \subseteq DOMAIN may
    <3>1. i + 1 \in 1 .. Len(refused)
      BY <1>3, <2>1
    <3>2. QED
      BY <2>1, <3>1 DEF IInv, ReadUnderWay
  <2>3. QED
    BY <1>1, <1>2, <1>6, <2>1, <2>2, FlightSame DEF IInv, ReadUnderWay
<1>11. PartsHeld'
  BY <1>1, <1>8 DEF PartsHeld
<1>12. QED
  BY <1>6, <1>7, <1>9, <1>10, <1>11 DEF IInv

-----------------------------------------------------------------------------
LEMMA InitHolds ==
  ASSUME Init
  PROVE  IInv
<1>1. TypeOK
  <2>1. {} \in Contents
    BY DEF Contents
  <2>2. {<<-1, -1, -1>>} \in Contents /\ {<<-2, -2, -2>>} \in Contents
    BY DEF Contents
  <2>3. disk \in [Devices -> [Rows -> Contents]]
    <3> DEFINE z == [r \in Rows |-> {}]
    <3>1. z \in [Rows -> Contents]
      BY <2>1
    <3>2. disk = [d \in Devices |-> z]
      BY DEF Init
    <3> HIDE DEF z
    <3>3. QED
      BY <3>1, <3>2
  <2>4. parbuf \in [Units -> Contents]
    BY <2>2 DEF Init
  <2>5. endata \in [0 .. DATACHUNK_NUM - 1 -> [Units -> Contents]]
    <3> DEFINE z == [k \in Units |-> {<<-2, -2, -2>>}]
    <3>1. z \in [Units -> Contents]
      BY <2>2
    <3>2. endata = [c \in 0 .. DATACHUNK_NUM - 1 |-> z]
      BY DEF Init
    <3> HIDE DEF z
    <3>3. QED
      BY <3>1, <3>2
  <2>6. io_count \in 0 .. MaxIO /\ cached \subseteq Nat
        /\ clean \subseteq Stripes /\ calm \subseteq Stripes
    BY DataAssumption DEF Init
  <2>7. DOMAIN parts = {}
    BY DEF Init
  <2>8. QED
    BY <2>3, <2>4, <2>5, <2>6, <2>7 DEF TypeOK
<1>2. \A d \in Devices, r \in Rows : disk[d][r] = {}
  BY DEF Init
<1>3. Stored
  <2>1. ASSUME NEW a \in Addresses PROVE At(disk, a) \in written[a]
    <3>1. At(disk, a) = {}
      BY <1>2, AddressPlace DEF At
    <3>2. written[a] = {{}}
      BY DEF Init
    <3>3. QED
      BY <3>1, <3>2
  <2>2. QED
    BY <2>1 DEF Stored
<1>4. CleanParity
  <2>1. ASSUME NEW r \in Rows PROVE RowParity(r) = {}
    <3> DEFINE g == [d \in Devices |-> disk[d][r]]
    <3>1. \A d \in DOMAIN g : g[d] \in SUBSET {}
      BY <1>2
    <3> HIDE DEF g
    <3>2. XorOver(g) = {}
      BY <3>1, XorOverIn
    <3>3. QED
      BY <3>2 DEF RowParity, g
  <2>2. QED
    BY <2>1 DEF CleanParity
<1>5. WriteUnderWay /\ calm \subseteq clean /\ PartsHeld
  BY DEF Init, WriteUnderWay, PartsHeld
<1>6. DOMAIN got = {} /\ DOMAIN may = {} /\ refused \in Seq(ReadChunks) /\ Len(refused) = 0
  <2>1. got = <<>> /\ may = <<>> /\ refused = <<>>
    BY DEF Init
  <2>2. QED
    BY <2>1
<1>7. ReadCorrect
  BY <1>6 DEF ReadCorrect
<1>8. ReadUnderWay
  BY <1>6 DEF Init, ReadUnderWay
<1>9. QED
  BY <1>1, <1>3, <1>4, <1>5, <1>7, <1>8 DEF IInv

LEMMA StepHolds ==
  ASSUME IInv, [Next]_vars
  PROVE  IInv'
<1>1. CASE StartWrite
  <2>1. batch = <<>> /\ io_count < MaxIO
    BY <1>1 DEF StartWrite
  <2>2. PICK p \in WritePieces :
          \/ StartFull(p)
          \/ StartPartial(p, <<>>)
          \/ \E f \in FollowerPieces :
               user2stripe(f.off) = user2stripe(p.off) /\ StartPartial(p, <<f>>)
    BY <1>1 DEF StartWrite
  <2>3. CASE StartFull(p)
    BY <2>1, <2>3, FullStep
  <2>4. CASE StartPartial(p, <<>>)
    BY <2>1, <2>4, PartialStep
  <2>5. CASE \E f \in FollowerPieces :
               user2stripe(f.off) = user2stripe(p.off) /\ StartPartial(p, <<f>>)
    BY <2>1, <2>5, PartialStep
  <2>6. QED
    BY <2>2, <2>3, <2>4, <2>5
<1>2. CASE EndWrite
  BY <1>2, EndStep
<1>3. CASE \E io \in pending : Land(io)
  BY <1>3, LandStep
<1>4. CASE \E p \in Reads : StartRead(p)
  BY <1>4, StartReadStep
<1>5. CASE \E c \in asked : Answer(c) \/ Refuse(c)
  BY <1>5, AnswerStep, RefuseStep
<1>6. CASE \E d \in Devices : Fetch(d)
  BY <1>6, FetchStep
<1>7. CASE Rebuild
  BY <1>7, RebuildStep
<1>8. CASE UNCHANGED vars
  <2>1. UNCHANGED writing /\ UNCHANGED <<asked, refused, parts, got, may, calm>>
    BY <1>8 DEF vars, reading
  <2>2. WriteUnderWay' /\ Stored' /\ CleanParity'
    BY <2>1, WriterSame
  <2>3. UNCHANGED <<disk, parbuf, endata, cached, io_count, batch, written, clean>>
    BY <2>1 DEF writing
  <2>4. ReadUnderWay' /\ PartsHeld' /\ ReadCorrect' /\ (calm \subseteq clean)' /\ TypeOK'
    BY <2>1, <2>3, FlightSame DEF IInv, ReadUnderWay, PartsHeld, ReadCorrect, TypeOK
  <2>5. QED
    BY <2>2, <2>4 DEF IInv
<1>9. QED
  BY <1>1, <1>2, <1>3, <1>4, <1>5, <1>6, <1>7, <1>8 DEF Next

LEMMA Invariant == Spec => []IInv
BY InitHolds, StepHolds, PTL DEF Spec

(* The types of the contents of devices, buffers and cache.                *)
THEOREM DataTypes == Spec => []TypeOK
<1>1. IInv => TypeOK
  BY DEF IInv
<1>2. QED
  BY <1>1, Invariant, PTL

(* A read returns at each address the data of the last write of it that    *)
(* had ended when the read started, or of one under way then or started    *)
(* later during the read, however the I/Os of both interleave; also what   *)
(* it finds again from the other devices, of a stripe last written as a    *)
(* whole and not written during the read (s_norRead, reconstruct_dio).     *)
THEOREM ReadsReturnWrites == Spec => []ReadCorrect
<1>1. IInv => ReadCorrect
  BY DEF IInv
<1>2. QED
  BY <1>1, Invariant, PTL

(* A write of the full stripe leaves the exclusive or of its data chunks   *)
(* in the parity chunk, and no write to another stripe disturbs it         *)
(* (encode_fullstripe, encode_partialstripe).                              *)
THEOREM FullStripeParity == Spec => []CleanParity
<1>1. IInv => CleanParity
  BY DEF IInv
<1>2. QED
  BY <1>1, Invariant, PTL

=============================================================================
