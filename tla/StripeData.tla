------------------------------ MODULE StripeData ------------------------------
(***************************************************************************)
(* What writes and reads do to the contents of the devices:                *)
(* SEncodeMod::encode_fullstripe and encode_partialstripe with             *)
(* ecEncoder::do_full_encode and do_part_encode, SDecodeMod::s_norRead     *)
(* with reconstruct_dio and encode_dio (built with RECONST_MOD), for one   *)
(* parity chunk.                                                           *)
(*                                                                         *)
(* One thread writes, a piece of one stripe after another; other writers   *)
(* appear as followers whose pieces are in its batch.  It submits the I/Os *)
(* of a write together, and they reach the devices one at a time, in any   *)
(* order.  What it reads before that it may read at once: the stripe lock  *)
(* (module StripeWrite) keeps writers of a stripe apart.  Another thread   *)
(* reads.  raid_read takes no lock: between any two device I/Os of a read, *)
(* the direct ones and those of a reconstruction, a write may start, land  *)
(* some of its I/Os, or end.                                               *)
(*                                                                         *)
(* A read is cut into Chunks, which is what split_schunk does with one     *)
(* that starts at a chunk boundary or stays within a chunk (module Split   *)
(* says what it does with others).                                         *)
(*                                                                         *)
(* Contents are symbolic: a unit of a device or of a buffer holds the set  *)
(* of the written units whose exclusive or it is, {} being zero.           *)
(*                                                                         *)
(* The parity cache is the set of its keys: ParityCache::get copies        *)
(* nothing (memcpy of length 0), so that only hit or miss matters.  It has *)
(* room for PCACHE_SIZE keys, more than there are offsets here, so that    *)
(* nothing is evicted.                                                     *)
(***************************************************************************)
EXTENDS Pieces, Sequences

CONSTANTS NUM_STRIPES,
          SECTOR_SIZE,    \* O_DIRECT refuses offsets that are no multiple
          INT_MAX,        \* where encode_partialstripe's minimum starts
          WritePieces,    \* what leaders write, each within a stripe
          FollowerPieces, \* what followers hand to a leader, within a chunk
          Reads,          \* what is read
          MaxIO           \* writes of a behaviour (bounds the run)

Stripes == 0 .. NUM_STRIPES - 1
Rows == 0 .. NUM_STRIPES * SCHUNK_SIZE - 1
Units == 0 .. SCHUNK_SIZE - 1
Addresses == 0 .. NUM_STRIPES * SSTRIPE_DATASIZE - 1

Span(p) == p.off .. p.off + p.len - 1

ASSUME DataAssumption ==
  /\ PARITYCHUNK_NUM = 1 /\ NUM_STRIPES \in Nat /\ MaxIO \in Nat
  /\ SECTOR_SIZE \in Nat \ {0} /\ SCHUNK_SIZE % SECTOR_SIZE = 0
  /\ INT_MAX \in Nat /\ INT_MAX % SECTOR_SIZE # 0
  /\ \A p \in WritePieces \union FollowerPieces \union Reads :
       /\ p.off \in Addresses /\ p.len \in Nat \ {0}
       /\ p.off + p.len - 1 \in Addresses
       /\ p.off % SECTOR_SIZE = 0 /\ p.len % SECTOR_SIZE = 0
  /\ \A p \in WritePieces \union FollowerPieces :
       user2stripe(p.off) = user2stripe(p.off + p.len - 1)
  /\ \A p \in FollowerPieces : Cardinality(Chunks(p)) = 1
  /\ \A p \in Reads : p.off % SCHUNK_SIZE = 0 \/ Cardinality(Chunks(p)) = 1

VARIABLES
  disk,      \* contents of the devices
  parbuf,    \* v_enparitybuf[tid][0]
  endata,    \* v_endatabuf[tid]
  cached,    \* keys of ParityCache::Cache_Root
  io_count,  \* writes that have ended
  batch,     \* the pieces of the write under way, the leader's first
  pending,   \* its I/Os that have not reached their device
  asked,     \* chunks of the read under way that no device has answered
  refused,   \* chunks that devices refused (retcqes), not yet rebuilt
  parts,     \* what reconstruct_dio has of the first of them, by device
  got,       \* what the last read has returned so far, by address
  written,   \* history: the contents writes that ended left at an address
  clean,     \* history: stripes whose last write was of the full stripe
  may,       \* history: what the last read may return, by address
  calm       \* history: stripes clean all through the last read

writing == <<disk, parbuf, endata, cached, io_count, batch, pending, written, clean>>
reading == <<asked, refused, parts, got>>
vars == <<writing, reading, may, calm>>

Xor(a, b) == (a \ b) \union (b \ a)

(* The exclusive or of all values of f: what an odd number of them has.    *)
XorOver(f) ==
  {e \in UNION {f[x] : x \in DOMAIN f} :
     Cardinality({x \in DOMAIN f : e \in f[x]}) % 2 = 1}

(* xor_gen over the data chunks of a stripe.                               *)
do_full_encode(databufs) ==
  [k \in Units |-> XorOver([c \in 0 .. DATACHUNK_NUM - 1 |-> databufs[c][k]])]

(* The data of the w-th writer of write n at an address.                   *)
Data(n, w, a) == {<<n, w, a>>}

(* The device I/Os of the piece p of writer w, one for each of its chunks. *)
Dio(c, w) ==
  LET at == user2dev(c.off)
  IN  [dev |-> at.dev, off |-> at.off, len |-> c.len,
       data |-> [k \in 0 .. c.len - 1 |-> Data(io_count, w, c.off + k)]]
Dios(p, w) == {Dio(c, w) : c \in Chunks(p)}

Offs(ds) == {io.off : io \in ds}
Lens(ds) == {io.len : io \in ds}
TotalLen(ds) == MapThenSumSet(LAMBDA io : io.len, ds)

(* The device d takes the I/O io, which covers the row r.                  *)
Takes(io, d, r) == /\ io.dev = d /\ io.off % SECTOR_SIZE = 0
                   /\ r \in io.off .. io.off + io.len - 1

(* Where a partial-stripe write puts parity, and its key in the cache.     *)
ParityOff_Signed(ds) == Min(Offs(ds) \union {-1})   \* a mistake: starts at -1
ParityOff(ds) == Min(Offs(ds) \union {INT_MAX})

(* The I/O of the parity buffer of the stripe s.                           *)
ParityDio_Fixed(s, off, len, par) ==   \* a mistake: always the last device
  [dev |-> NUM_DEVFILES - 1, off |-> off, len |-> len, data |-> par]
ParityDio(s, off, len, par) ==
  [dev |-> stripe2paritypos(s), off |-> off, len |-> len, data |-> par]

(* What the write under way puts at an address.                            *)
InFlight(a) ==
  {Data(io_count, w, a) : w \in {v \in 1 .. Len(batch) : a \in Span(batch[v])}}

-----------------------------------------------------------------------------
(* The parity update of a partial-stripe write.                            *)

(* What do_part_encode is given as the new data: v_newdatabuf, which       *)
(* nothing is ever stored in.                                              *)
newdata == {}

do_part_encode(par, ds, start_devoff) ==
  [k \in Units |->
     LET here == {io \in ds : start_devoff + k \in io.off .. io.off + io.len - 1}
     IN  Xor(par[k],
             XorOver([io \in here |-> Xor(disk[io.dev][start_devoff + k], newdata)]))]

(* The parity buffer after the first reads: left as it is on a hit, read   *)
(* from the start of the parity chunk on a miss.                           *)
OldParity(s, own) ==
  IF ParityOff(own) \in cached THEN parbuf
  ELSE [k \in Units |-> IF k < Max(Lens(own))
                        THEN disk[stripe2paritypos(s)][stripe2devoff(s, 0) + k]
                        ELSE parbuf[k]]

(* The chunks read to encode the whole stripe: those whose number is not   *)
(* the device of an I/O of the batch.                                      *)
Reread(s, others) ==
  [c \in 0 .. DATACHUNK_NUM - 1 |->
     IF \E io \in others : io.dev = c THEN endata[c]
     ELSE [k \in Units |-> disk[c][stripe2devoff(s, 0) + k]]]

-----------------------------------------------------------------------------
Init ==
  /\ disk = [d \in Devices |-> [r \in Rows |-> {}]]
  /\ parbuf = [k \in Units |-> {<<-1, -1, -1>>}]               \* memset 0x1b
  /\ endata = [c \in 0 .. DATACHUNK_NUM - 1 |->
                 [k \in Units |-> {<<-2, -2, -2>>}]]           \* memset 0x1a
  /\ cached = {}
  /\ io_count = 0
  /\ batch = <<>> /\ pending = {}
  /\ asked = {} /\ refused = <<>> /\ parts = <<>> /\ got = <<>>
  /\ written = [a \in Addresses |-> {{}}]
  /\ clean = Stripes
  /\ may = <<>> /\ calm = {}

(* A write of the pieces ps of the stripe s begins to store its I/Os: from *)
(* now on a read may return its data.                                      *)
Submit(ps, s, ios) ==
  /\ batch' = ps /\ pending' = ios
  /\ UNCHANGED <<disk, io_count, written, reading>>
  /\ may' = [a \in DOMAIN may |-> may[a] \union InFlight(a)']
  /\ clean' = clean \ {s} /\ calm' = calm \ {s}

(* encode_fullstripe, up to the submission.                                *)
StartFull(p) ==
  LET s == user2stripe(p.off)
      bufs == [c \in 0 .. DATACHUNK_NUM - 1 |->
                 [k \in Units |-> Data(io_count, 1, p.off + c * SCHUNK_SIZE + k)]]
      par == do_full_encode(bufs)
  IN
  /\ is_fullstripe(p.off, p.len)
  /\ parbuf' = par /\ endata' = bufs
  /\ Submit(<<p>>, s,
            Dios(p, 1) \union {ParityDio(s, stripe2devoff(s, 0), SCHUNK_SIZE, par)})
  /\ UNCHANGED cached

(* encode_partialstripe, with the pieces b of followers in its batch: read *)
(* the old parity and data, encode from the differences or, when the batch *)
(* is more than half of what the leader leaves of the stripe, from all of  *)
(* its chunks; submit own data, the batch, and the first units of the      *)
(* parity buffer at the least offset written.                              *)
StartPartial(p, b) ==
  LET s == user2stripe(p.off)
      own == Dios(p, 1)
      others == UNION {Dios(b[j], j + 1) : j \in 1 .. Len(b)}
      all == own \union others
      pchunk_soff == ParityOff(all)
      rebuild == TotalLen(others) > (SSTRIPE_DATASIZE - TotalLen(own)) \div 2
      bufs == IF rebuild THEN Reread(s, others) ELSE endata
      par == IF rebuild THEN do_full_encode(bufs)
             ELSE do_part_encode(OldParity(s, own), all, stripe2devoff(s, 0))
  IN
  /\ ~is_fullstripe(p.off, p.len)
  /\ parbuf' = par /\ endata' = bufs
  /\ cached' = cached \union {pchunk_soff}
  /\ Submit(<<p>> \o b, s,
            all \union {ParityDio(s, pchunk_soff, Max(Lens(all)), par)})

StartWrite ==
  /\ batch = <<>> /\ io_count < MaxIO
  /\ \E p \in WritePieces :
       \/ StartFull(p)
       \/ StartPartial(p, <<>>)
       \/ \E f \in FollowerPieces :
            user2stripe(f.off) = user2stripe(p.off) /\ StartPartial(p, <<f>>)

(* The device takes an I/O, or refuses it, which nobody notices.           *)
Land(io) ==
  /\ pending' = pending \ {io}
  /\ disk' = [d \in Devices |-> [r \in Rows |->
               IF Takes(io, d, r) THEN io.data[r - io.off] ELSE disk[d][r]]]
  /\ UNCHANGED <<parbuf, endata, cached, io_count, batch, written, clean,
                 reading, may, calm>>

(* iouring_wait has seen all of them, and the write returns.               *)
EndWrite ==
  /\ batch # <<>> /\ pending = {}
  /\ written' = [a \in Addresses |->
                   IF InFlight(a) = {} THEN written[a] ELSE InFlight(a)]
  /\ clean' = IF is_fullstripe(batch[1].off, batch[1].len)
              THEN clean \union {user2stripe(batch[1].off)} ELSE clean
  /\ batch' = <<>> /\ io_count' = io_count + 1
  /\ UNCHANGED <<disk, parbuf, endata, cached, pending, reading, may, calm>>

-----------------------------------------------------------------------------
(* s_norRead submits an I/O for each chunk of the read p.                  *)
StartRead(p) ==
  /\ asked = {} /\ refused = <<>>
  /\ asked' = Chunks(p) /\ got' = <<>>
  /\ may' = [a \in Span(p) |-> written[a] \union InFlight(a)]
  /\ calm' = clean
  /\ UNCHANGED <<writing, refused, parts>>

(* A chunk of the user's buffer gets its contents: x[k] the k-th unit.     *)
Fill(c, kind, x) ==
  got' = [a \in DOMAIN got \union Span(c) |->
            IF a \in Span(c) THEN [how |-> kind, data |-> x[a - c.off]]
            ELSE got[a]]

(* What the device d holds in the rows of a chunk.                         *)
Held(d, c) == [k \in 0 .. c.len - 1 |-> disk[d][user2dev(c.off).off + k]]

(* The device serves the I/O of a chunk.                                   *)
Answer(c) ==
  /\ asked' = asked \ {c}
  /\ Fill(c, "read", Held(user2dev(c.off).dev, c))
  /\ UNCHANGED <<writing, refused, parts, may, calm>>

(* It is too busy to; s_norRead finds the chunk again by get_id.           *)
Refuse(c) ==
  /\ asked' = asked \ {c}
  /\ refused' = Append(refused, c)
  /\ UNCHANGED <<writing, parts, got, may, calm>>

(* The devices reconstruct_dio reads: all but the one that refused.        *)
Sources_All(dev) == Devices   \* a mistake: its own chunk is not left out
Sources(dev) == Devices \ {dev}

(* When iouring_rwait has an answer to all I/Os, the refused chunks are    *)
(* rebuilt one after another, each from I/Os to the same rows of the other *)
(* devices.                                                                *)
Fetch(d) ==
  /\ asked = {} /\ refused # <<>>
  /\ d \in Sources(user2dev(Head(refused).off).dev) \ DOMAIN parts
  /\ parts' = [e \in DOMAIN parts \union {d} |->
                 IF e = d THEN Held(d, Head(refused)) ELSE parts[e]]
  /\ UNCHANGED <<writing, asked, refused, got, may, calm>>

(* encode_dio: the exclusive or of what they hold goes to the user.        *)
Rebuild ==
  /\ refused # <<>>
  /\ DOMAIN parts = Sources(user2dev(Head(refused).off).dev)
  /\ Fill(Head(refused), "reconstructed",
          [k \in 0 .. Head(refused).len - 1 |->
             XorOver([d \in DOMAIN parts |-> parts[d][k]])])
  /\ refused' = Tail(refused) /\ parts' = <<>>
  /\ UNCHANGED <<writing, asked, may, calm>>

(* The bound on writes ends a behaviour; reads go on.                      *)
Next ==
  \/ StartWrite \/ EndWrite
  \/ \E io \in pending : Land(io)
  \/ \E p \in Reads : StartRead(p)
  \/ \E c \in asked : Answer(c) \/ Refuse(c)
  \/ \E d \in Devices : Fetch(d)
  \/ Rebuild

Spec == Init /\ [][Next]_vars

-----------------------------------------------------------------------------
(* Properties.                                                             *)

Contents == SUBSET (Int \X Int \X Int)

TypeOK ==
  /\ disk \in [Devices -> [Rows -> Contents]]
  /\ parbuf \in [Units -> Contents]
  /\ endata \in [0 .. DATACHUNK_NUM - 1 -> [Units -> Contents]]
  /\ cached \subseteq Nat
  /\ io_count \in 0 .. MaxIO
  /\ clean \subseteq Stripes /\ calm \subseteq Stripes
  /\ DOMAIN parts \subseteq Devices

(* Whatever writes start, land and end while it goes on, a read returns at *)
(* each address the data of the last write of it that had ended when the   *)
(* read started, or of a write of it under way then or later in the read.  *)
(* For chunks that are reconstructed from the other devices this is        *)
(* claimed where the last write of the stripe was of the full stripe and   *)
(* no write of it was under way during the read (raid_read, s_norRead,     *)
(* reconstruct_dio against encode_fullstripe and encode_partialstripe).    *)
ReadCorrect ==
  \A a \in DOMAIN got :
    got[a].how = "read" \/ user2stripe(a) \in calm => got[a].data \in may[a]

(* The exclusive or over all devices at a row.                             *)
RowParity(r) == XorOver([d \in Devices |-> disk[d][r]])

(* In the rows of a stripe last written as a whole (or never) the parity   *)
(* chunk is the exclusive or of the data chunks, whatever partial writes   *)
(* have done to other stripes in the meantime.                             *)
CleanParity ==
  \A r \in Rows : devoff2stripe(r) \in clean => RowParity(r) = {}

(* The parity chunk of every stripe is the exclusive or of its data        *)
(* chunks when no write is under way: what do_part_encode maintains in a   *)
(* partial-stripe write.                                                   *)
ParityConsistent == batch = <<>> => \A r \in Rows : RowParity(r) = {}

=============================================================================
