--------------------------- MODULE QueueOrderProofs --------------------------
(***************************************************************************)
(* What the queue promises.  The order is: the rows of blocks of the sub-  *)
(* queues; what the workers have in hand; the inductive invariant of both  *)
(* and of UserQueueProofs; the assertions and the owners of the blocks; the*)
(* queue as the one of RequestQueue; the length of the queue.              *)
(***************************************************************************)
EXTENDS UserQueueProofs, SequenceTheorems

-----------------------------------------------------------------------------
(* The rows of blocks, and the hands of the workers.                       *)

(* The indices of the m-th block of a row, and its place in a block index. *)
Places(m) == (BLK_SIZE * m) .. (BLK_SIZE * m + (BLK_SIZE - 1))
Slot(m) == m % setup.entries

KeyOf(p, e) == blockIndex[p][e].key
ValueOf(p, e) == blockIndex[p][e].value
Num(p, e) == KeyOf(p, e) \div BLK_SIZE

LEMMA SizeOK == BLK_SIZE \in Nat \ {0, 1} /\ INVALID_BLOCK_BASE = 1
BY QueueAssumption DEF INVALID_BLOCK_BASE

LEMMA DivMonotone ==
  ASSUME NEW i \in Int, NEW j \in Int, i <= j, NEW c \in Nat \ {0}
  PROVE  i \div c <= j \div c
<1>1. /\ i \div c \in Int /\ i % c \in 0 .. c - 1 /\ i = c * (i \div c) + (i % c)
      /\ j \div c \in Int /\ j % c \in 0 .. c - 1 /\ j = c * (j \div c) + (j % c)
  BY DivMod
<1>2. PICK x \in Int, y \in Int : x = i \div c /\ y = j \div c
  BY <1>1
<1>3. CASE x > y
  <2>1. PICK d \in Nat : x = y + 1 + d
    <3>1. x - y - 1 \in Nat /\ x = y + 1 + (x - y - 1)
      BY <1>3
    <3>2. QED
      BY <3>1
  <2>2. c * x = c * y + c + c * d /\ c * d \in Nat
    BY <1>2, <2>1
  <2>3. QED
    BY <1>1, <1>2, <2>2
<1>4. QED
  BY <1>2, <1>3

LEMMA PlacesFacts ==
  ASSUME NEW m \in Int
  PROVE  /\ IsFiniteSet(Places(m)) /\ Cardinality(Places(m)) = BLK_SIZE
         /\ \A i \in Int : i \in Places(m) <=> i \div BLK_SIZE = m
         /\ Places(m) \subseteq Int
<1> USE SizeOK
<1> DEFINE c == BLK_SIZE
           x == c * m
<1>1. x \in Int /\ c \in Nat \ {0, 1} /\ Places(m) = x .. (x + (c - 1))
  BY DEF Places
<1>2. IsFiniteSet(Places(m)) /\ Cardinality(Places(m)) = BLK_SIZE
  <2> HIDE DEF x
  <2>1. IsFiniteSet(x .. (x + (c - 1)))
        /\ Cardinality(x .. (x + (c - 1)))
             = IF x <= x + (c - 1) THEN (x + (c - 1)) - x + 1 ELSE 0
    BY <1>1, FS_Interval
  <2>2. QED
    BY <1>1, <2>1
<1>3. ASSUME NEW i \in Int PROVE i \in Places(m) <=> i \div c = m
  <2>1. /\ i \div c \in Int /\ i % c \in 0 .. c - 1 /\ i = c * (i \div c) + (i % c)
    BY DivMod
  <2>2. CASE i \div c = m
    BY <1>1, <2>1, <2>2
  <2>3. ASSUME i \in Places(m) PROVE i \div c = m
    <3>1. i - x \in 0 .. c - 1 /\ i = c * m + (i - x)
      BY <1>1, <2>3
    <3>2. (c * m + (i - x)) \div c = m
      BY <3>1, DivModUnique
    <3>3. QED
      BY <3>1, <3>2
  <2>4. QED
    BY <2>2, <2>3
<1>4. QED
  BY <1>1, <1>2, <1>3

LEMMA SlotFacts ==
  ASSUME Typed, NEW m \in Int, NEW k \in Int
  PROVE  /\ Slot(m) \in Entries
         /\ (Slot(m) + k) % setup.entries = Slot(m + k)
<1> DEFINE n == setup.entries
<1>1. n \in Nat \ {0}
  BY EntriesOK DEF Typed
<1> HIDE DEF n
<1>2. m \div n \in Int /\ m % n \in 0 .. n - 1 /\ m = n * (m \div n) + (m % n)
  BY <1>1, DivMod
<1>3. m + k = ((m % n) + k) + n * (m \div n) /\ (m % n) + k \in Int
  <2>1. PICK d \in Int, r \in 0 .. n - 1 : d = m \div n /\ r = m % n
    BY <1>2
  <2>2. n * d \in Int /\ m = n * d + r /\ r \in Int
    BY <1>1, <1>2, <2>1
  <2>3. QED
    BY <2>1, <2>2
<1>4. (((m % n) + k) + n * (m \div n)) % n = ((m % n) + k) % n
  BY <1>1, <1>2, <1>3, ModShift
<1>5. QED
  BY <1>2, <1>3, <1>4 DEF Slot, Entries, n

LEMMA BeforeDiv ==
  ASSUME NEW t \in Int
  PROVE  /\ t \div BLK_SIZE \in Int /\ t % BLK_SIZE \in 0 .. BLK_SIZE - 1
         /\ (t - 1) \div BLK_SIZE
              = IF t % BLK_SIZE = 0 THEN (t \div BLK_SIZE) - 1 ELSE t \div BLK_SIZE
<1> USE SizeOK
<1> DEFINE c == BLK_SIZE
<1>1. /\ t \div c \in Int /\ t % c \in 0 .. c - 1 /\ t = c * (t \div c) + (t % c)
  BY DivMod
<1>2. CASE t % c = 0
  <2>1. t - 1 = c * ((t \div c) - 1) + (c - 1) /\ c - 1 \in 0 .. c - 1
        /\ (t \div c) - 1 \in Int
    BY <1>1, <1>2
  <2>2. (c * ((t \div c) - 1) + (c - 1)) \div c = (t \div c) - 1
    BY <2>1, DivModUnique
  <2>3. QED
    BY <1>1, <1>2, <2>1, <2>2
<1>3. CASE t % c # 0
  <2>1. t - 1 = c * (t \div c) + ((t % c) - 1) /\ (t % c) - 1 \in 0 .. c - 1
    BY <1>1, <1>3
  <2>2. (c * (t \div c) + ((t % c) - 1)) \div c = t \div c
    BY <1>1, <2>1, DivModUnique
  <2>3. QED
    BY <1>1, <1>3, <2>1, <2>2
<1>4. QED
  BY <1>2, <1>3

LEMMA WithinBlock ==
  ASSUME NEW t \in Int, t % BLK_SIZE # 0
  PROVE  (t - 1) \div BLK_SIZE = t \div BLK_SIZE
BY BeforeDiv

LEMMA IndexTypes ==
  ASSUME Typed, NEW p \in Producers, NEW e \in Entries
  PROVE  /\ KeyOf(p, e) \in Nat /\ ValueOf(p, e) \in BlockOrNull
         /\ Num(p, e) \in Nat /\ blockIndexTail[p] \in Entries
<1> USE SizeOK
<1>1. blockIndex[p][e] \in [key : Nat, value : BlockOrNull] /\ blockIndexTail[p] \in Entries
  BY DEF Typed, Shared
<1>2. KeyOf(p, e) \in Nat /\ ValueOf(p, e) \in BlockOrNull
  BY <1>1 DEF KeyOf, ValueOf
<1>3. KeyOf(p, e) \div BLK_SIZE \in Nat
  <2>1. \A k \in Nat : k \div BLK_SIZE \in Nat
    OBVIOUS
  <2>2. QED
    BY <1>2, <2>1
<1>4. QED
  BY <1>1, <1>2, <1>3 DEF Num

(* The keys of a block index are bases of blocks, each at its place.       *)
KeysOf(p) ==
  \A e \in Entries :
    IF KeyOf(p, e) = INVALID_BLOCK_BASE THEN ValueOf(p, e) = Null
    ELSE KeyOf(p, e) % BLK_SIZE = 0 /\ Slot(Num(p, e)) = e

(* Whatever place a search starts from, it ends at that of the index.      *)
LEMMA EntryOfOK ==
  ASSUME Typed, NEW p \in Producers, KeysOf(p), NEW e \in Entries,
         KeyOf(p, e) # INVALID_BLOCK_BASE, NEW i \in Nat
  PROVE  EntryOf(p, i, e) = Slot(i \div BLK_SIZE)
<1> USE SizeOK
<1> DEFINE c == BLK_SIZE
           k == KeyOf(p, e)
<1>1. k \in Nat /\ k % c = 0 /\ Slot(k \div c) = e
  BY IndexTypes DEF KeysOf, Num, c, k
<1>0. c \in Nat \ {0}
  OBVIOUS
<1> HIDE DEF c, k
<1>2. /\ i \div c \in Int /\ i = c * (i \div c) + (i % c) /\ i % c \in 0 .. c - 1
      /\ k \div c \in Int /\ k = c * (k \div c) + (k % c)
  BY <1>0, <1>1, DivMod
<1>3. PICK d \in Int : i \div c = (k \div c) + d
  <2>1. (i \div c) - (k \div c) \in Int
        /\ i \div c = (k \div c) + ((i \div c) - (k \div c))
    BY <1>2
  <2>2. QED
    BY <2>1
<1>4. (i - (i % c)) - k = c * d + 0
  <2>1. PICK x \in Int, y \in Int, r \in 0 .. c - 1 :
          x = i \div c /\ y = k \div c /\ r = i % c
    BY <1>2
  <2>2. i = c * x + r /\ k = c * y /\ c * x \in Int /\ c * y \in Int /\ c * d \in Int
    BY <1>0, <1>1, <1>2, <2>1
  <2>3. c * x = c * y + c * d
    <3>1. x = y + d /\ c \in Int
      BY <1>0, <1>3, <2>1
    <3>2. \A e1, e2, e3 \in Int : e1 * (e2 + e3) = e1 * e2 + e1 * e3
      OBVIOUS
    <3>3. QED
      BY <3>1, <3>2
  <2>4. QED
    BY <2>1, <2>2, <2>3
<1>5. (c * d + 0) \div c = d
  BY <1>0, DivModUnique
<1>6. (Slot(k \div c) + d) % setup.entries = Slot((k \div c) + d)
  BY <1>2, SlotFacts
<1>7. EntryOf(p, i, e) = (e + (((i - (i % c)) - k) \div c)) % setup.entries
  BY DEF EntryOf, KeyOf, c, k
<1>8. QED
  BY <1>1, <1>3, <1>4, <1>5, <1>6, <1>7 DEF c

(* Where the user of a sub-queue is; whether it is opening a block.        *)
OwnerPc(p) == IF p \in 1 .. Len(producers) THEN pc[producers[p]] ELSE "out"
Opening == {"pool", "claim", "list", "fresh"}

(* The block the index's tail is for, and the last one that is in a row.   *)
Newest(p) == IF OwnerPc(p) \in Opening \cup {"publish"} THEN tailIndex[p] \div BLK_SIZE
             ELSE (tailIndex[p] - 1) \div BLK_SIZE
LastIn(p) == IF OwnerPc(p) = "publish" THEN tailIndex[p] \div BLK_SIZE
           ELSE (tailIndex[p] - 1) \div BLK_SIZE

(* An index is pending until the worker that has it empties its place.     *)
InWork == {"lookup", "locate", "empty"}
Pending(p, i) == i >= headIndex[p] \/ \E w \in Sub(p, InWork) : my[w].index = i
PendingIn(p, m) == {i \in Places(m) : Pending(p, i)}

TailOf(p) == blockIndexTail[p] = Slot(Newest(p))
OpenOf(p) ==
  LET e == Slot(tailIndex[p] \div BLK_SIZE) IN
  /\ tailIndex[p] > 0 =>
       KeyOf(p, Slot((tailIndex[p] - 1) \div BLK_SIZE)) # INVALID_BLOCK_BASE
  /\ OwnerPc(p) \in Opening \cup {"entry"} =>
       /\ tailIndex[p] % BLK_SIZE = 0
       /\ KeyOf(p, e) = tailIndex[p] /\ ValueOf(p, e) = Null
  /\ OwnerPc(p) = "publish" \/ tailIndex[p] % BLK_SIZE # 0 =>
       ValueOf(p, e) = tailBlock[p] /\ tailBlock[p] \in Blocks
  /\ OwnerPc(p) = "publish" => my[producers[p]].block = tailBlock[p]

(* A block with a pending place is in the index, its counter tells of the  *)
(* places that are not pending, and the pending ones have their requests.  *)
KeptOf(p) ==
  \A m \in 0 .. LastIn(p) : PendingIn(p, m) # {} =>
    /\ KeyOf(p, Slot(m)) # INVALID_BLOCK_BASE /\ Num(p, Slot(m)) = m
    /\ ValueOf(p, Slot(m)) # Null
CountOf(p) ==
  \A e \in Entries : ValueOf(p, e) # Null =>
    elementsCompletelyDequeued[ValueOf(p, e)] + Cardinality(PendingIn(p, Num(p, e))) = BLK_SIZE
WrittenOf(p) ==
  \A i \in 0 .. tailIndex[p] - 1 : Pending(p, i) =>
    elements[ValueOf(p, Slot(i \div BLK_SIZE))][i % BLK_SIZE] = <<producers[p], i + 1>>
AskedOf(p) ==
  IF p \in 1 .. Len(producers) THEN asked[producers[p]] = tailIndex[p] ELSE tailIndex[p] = 0

RowOf(p) == /\ KeysOf(p) /\ TailOf(p) /\ OpenOf(p) /\ KeptOf(p) /\ CountOf(p)
            /\ WrittenOf(p) /\ AskedOf(p)

(* What a worker has between advancing the head and serving the request.   *)
Handing == InWork \cup {"unlink", "dequeued"}
HandOK(w) ==
  LET p == my[w].p IN
  /\ pc[w] \in Handing => my[w].index < headIndex[p]
  /\ pc[w] = "locate" => KeyOf(p, my[w].slot) # INVALID_BLOCK_BASE
  /\ pc[w] = "empty" => my[w].slot = Slot(my[w].index \div BLK_SIZE)
  /\ pc[w] \in {"empty", "unlink"} => Found(w)
  /\ pc[w] = "unlink" => elementsCompletelyDequeued[my[w].block] = BLK_SIZE
  /\ pc[w] \in {"empty", "unlink", "dequeued"} =>
       my[w].item = <<producers[p], my[w].index + 1>>
Apart(w, x) ==
  /\ pc[w] \in Handing /\ pc[x] \in Handing /\ my[x].p = my[w].p => my[w].index # my[x].index
  /\ pc[w] = "unlink" /\ pc[x] = "unlink" => my[w].block # my[x].block
ServedOK(r) ==
  \E p \in 1 .. Len(producers) : \E i \in 0 .. headIndex[p] - 1 :
    /\ r = <<producers[p], i + 1>>
    /\ \A w \in Sub(p, Handing) : my[w].index # i

Rows ==
  /\ \A p \in Producers : RowOf(p)
  /\ \A u \in Users : ~InRange(u) => asked[u] = 0
Hands ==
  /\ \A w \in Workers : HandOK(w)
  /\ \A w, x \in Workers : w # x => Apart(w, x)
  /\ \A r \in served : ServedOK(r)

(* What a user does to its row at a place of enqueue.                      *)
PhaseAt(l) == IF l \in Opening THEN "opening"
              ELSE IF l \in {"entry", "publish"} THEN l ELSE "other"
Phase(p) == PhaseAt(OwnerPc(p))

LEMMA RowTypes ==
  ASSUME Typed, Counts, NEW p \in Producers
  PROVE  /\ headIndex[p] \in Nat /\ tailIndex[p] \in Nat /\ headIndex[p] <= tailIndex[p]
         /\ tailIndex[p] \div BLK_SIZE \in Nat /\ (tailIndex[p] - 1) \div BLK_SIZE \in Int
         /\ LastIn(p) \in Int /\ Newest(p) \in Int
         /\ (tailIndex[p] - 1) \div BLK_SIZE <= LastIn(p)
         /\ LastIn(p) <= tailIndex[p] \div BLK_SIZE
<1> USE SizeOK
<1>1. headIndex[p] \in Nat /\ tailIndex[p] \in Nat /\ headIndex[p] <= tailIndex[p]
  BY HeadWithin
<1>2. PICK t \in Nat : t = tailIndex[p]
  BY <1>1
<1>3. t \div BLK_SIZE \in Nat
  OBVIOUS
<1>4. (t - 1) \div BLK_SIZE \in Int /\ (t - 1) \div BLK_SIZE <= t \div BLK_SIZE
  BY DivMonotone
<1>5. QED
  BY <1>1, <1>2, <1>3, <1>4 DEF LastIn, Newest

(* What is known of the block of a pending index.                          *)
LEMMA PendingKept ==
  ASSUME Typed, Counts, NEW p \in Producers, KeptOf(p), NEW i \in Nat, Pending(p, i),
         i < tailIndex[p] \/ i \div BLK_SIZE <= LastIn(p)
  PROVE  /\ i \div BLK_SIZE \in 0 .. LastIn(p) /\ i \in PendingIn(p, i \div BLK_SIZE)
         /\ Slot(i \div BLK_SIZE) \in Entries
         /\ KeyOf(p, Slot(i \div BLK_SIZE)) # INVALID_BLOCK_BASE
         /\ Num(p, Slot(i \div BLK_SIZE)) = i \div BLK_SIZE
         /\ ValueOf(p, Slot(i \div BLK_SIZE)) \in Blocks
<1> USE SizeOK
<1>1. i \div BLK_SIZE \in Nat
  OBVIOUS
<1>2. i \div BLK_SIZE <= LastIn(p)
  <2>1. CASE i < tailIndex[p]
    <3>1. tailIndex[p] \in Nat /\ tailIndex[p] - 1 \in Int /\ i <= tailIndex[p] - 1
      BY <2>1, RowTypes
    <3>2. i \div BLK_SIZE <= (tailIndex[p] - 1) \div BLK_SIZE
      BY <3>1, DivMonotone
    <3>3. QED
      BY <1>1, <3>2, RowTypes
  <2>2. QED
    BY <2>1
<1>3. i \div BLK_SIZE \in 0 .. LastIn(p)
  BY <1>1, <1>2, RowTypes
<1>4. i \in PendingIn(p, i \div BLK_SIZE)
  BY <1>1, PlacesFacts DEF PendingIn
<1>5. Slot(i \div BLK_SIZE) \in Entries
  BY <1>1, SlotFacts
<1>6. QED
  BY <1>3, <1>4, <1>5, IndexTypes DEF KeptOf, BlockOrNull

(* What of a row stays when its values do, and the keys of those in use.   *)
LEMMA RowKeep ==
  ASSUME Typed, Counts, NEW p \in Producers, RowOf(p), setup' = setup,
         tailIndex'[p] = tailIndex[p], LastIn(p)' = LastIn(p),
         \A e \in Entries : ValueOf(p, e)' = ValueOf(p, e)
                            /\ (KeyOf(p, e)' = KeyOf(p, e) \/ ValueOf(p, e) = Null),
         \A e \in Entries : ValueOf(p, e) # Null =>
           /\ elementsCompletelyDequeued'[ValueOf(p, e)] = elementsCompletelyDequeued[ValueOf(p, e)]
           /\ elements'[ValueOf(p, e)] = elements[ValueOf(p, e)],
         \A i \in Int : Pending(p, i)' <=> Pending(p, i),
         p \in 1 .. Len(producers) =>
           p \in 1 .. Len(producers)' /\ producers'[p] = producers[p]
  PROVE  /\ KeptOf(p)' /\ CountOf(p)' /\ WrittenOf(p)'
         /\ Entries' = Entries /\ \A m : Slot(m)' = Slot(m)
<1> USE SizeOK
<1>1. Entries' = Entries /\ \A m : Slot(m)' = Slot(m)
  BY DEF Entries, Slot
<1>2. \A m \in Int : Slot(m) \in Entries
  BY SlotFacts
<1>5. \A m \in Int : PendingIn(p, m)' = PendingIn(p, m)
  <2> SUFFICES ASSUME NEW m \in Int PROVE PendingIn(p, m)' = PendingIn(p, m)
    OBVIOUS
  <2>1. Places(m) \subseteq Int /\ Places(m)' = Places(m)
    BY PlacesFacts DEF Places
  <2>2. QED
    BY <2>1 DEF PendingIn
<1>6. \A e \in Entries : /\ Num(p, e) \in Nat
                         /\ ValueOf(p, e) # Null => Num(p, e)' = Num(p, e)
  BY IndexTypes DEF Num
<1>10. KeptOf(p)'
  <2>1. \A m \in 0 .. LastIn(p) : m \in Int
    OBVIOUS
  <2>2. QED
    BY <1>1, <1>2, <1>5, <1>6, <2>1 DEF RowOf, KeptOf
<1>11. CountOf(p)'
  <2>1. \A e \in Entries : ValueOf(p, e) # Null =>
          PendingIn(p, Num(p, e))' = PendingIn(p, Num(p, e))
    <3> SUFFICES ASSUME NEW e \in Entries, ValueOf(p, e) # Null
                 PROVE  PendingIn(p, Num(p, e))' = PendingIn(p, Num(p, e))
      OBVIOUS
    <3>1. PICK n \in Nat : n = Num(p, e)
      BY <1>6
    <3>2. PendingIn(p, n)' = PendingIn(p, n) /\ Num(p, e)' = n
      BY <1>5, <1>6, <3>1
    <3>3. PendingIn(p, Num(p, e))' = PendingIn(p, n)'
      BY <3>2 DEF PendingIn, Places
    <3>4. QED
      BY <3>1, <3>2, <3>3
  <2>2. QED
    BY <1>1, <2>1 DEF RowOf, CountOf
<1>12. WrittenOf(p)'
  <2> SUFFICES ASSUME NEW i \in 0 .. tailIndex[p] - 1, Pending(p, i)
               PROVE  elements'[ValueOf(p, Slot(i \div BLK_SIZE))'][i % BLK_SIZE]
                        = <<producers'[p], i + 1>>
    BY DEF WrittenOf
  <2>0. tailIndex[p] \in Nat
    BY RowTypes
  <2>1. i \in Nat /\ i < tailIndex[p] /\ i \in 0 .. tailIndex[p] - 1
    BY <2>0
  <2>2. KeptOf(p) /\ WrittenOf(p) /\ AskedOf(p)
    BY DEF RowOf
  <2>3. Slot(i \div BLK_SIZE) \in Entries /\ ValueOf(p, Slot(i \div BLK_SIZE)) \in Blocks
    BY <2>1, <2>2, PendingKept
  <2>4. ValueOf(p, Slot(i \div BLK_SIZE))' = ValueOf(p, Slot(i \div BLK_SIZE))
    <3>1. PICK e \in Entries : e = Slot(i \div BLK_SIZE)
      BY <2>3
    <3>2. Slot(i \div BLK_SIZE)' = e
      BY <1>1, <3>1
    <3>3. ValueOf(p, Slot(i \div BLK_SIZE))' = ValueOf(p, e)'
      BY <3>2 DEF ValueOf
    <3>4. QED
      BY <3>1, <3>3
  <2>5. elements[ValueOf(p, Slot(i \div BLK_SIZE))][i % BLK_SIZE] = <<producers[p], i + 1>>
    BY <2>1, <2>2 DEF WrittenOf
  <2>6. p \in 1 .. Len(producers)
    BY <2>0, <2>1, <2>2 DEF AskedOf
  <2>7. QED
    BY <2>3, <2>4, <2>5, <2>6, NullIsNoUser
<1>13. QED
  BY <1>1, <1>10, <1>11, <1>12

(* A row of which nothing is changed.                                      *)
LEMMA RowFrame ==
  ASSUME Typed, Counts, NEW p \in Producers, RowOf(p), setup' = setup,
         tailIndex'[p] = tailIndex[p], tailBlock'[p] = tailBlock[p],
         blockIndexTail'[p] = blockIndexTail[p],
         \A e \in Entries : KeyOf(p, e)' = KeyOf(p, e) /\ ValueOf(p, e)' = ValueOf(p, e),
         \A e \in Entries : ValueOf(p, e) # Null =>
           /\ elementsCompletelyDequeued'[ValueOf(p, e)] = elementsCompletelyDequeued[ValueOf(p, e)]
           /\ elements'[ValueOf(p, e)] = elements[ValueOf(p, e)],
         \A i \in Int : Pending(p, i)' <=> Pending(p, i),
         Phase(p)' = Phase(p),
         OwnerPc(p)' = "publish" => my'[producers'[p]].block = my[producers[p]].block,
         p \in 1 .. Len(producers) =>
           p \in 1 .. Len(producers)' /\ producers'[p] = producers[p],
         AskedOf(p)'
  PROVE  RowOf(p)'
<1> USE SizeOK
<1>3. /\ OwnerPc(p)' \in Opening <=> OwnerPc(p) \in Opening
      /\ OwnerPc(p)' = "entry" <=> OwnerPc(p) = "entry"
      /\ OwnerPc(p)' = "publish" <=> OwnerPc(p) = "publish"
  BY DEF Phase, PhaseAt, Opening
<1>4. Newest(p)' = Newest(p) /\ LastIn(p)' = LastIn(p)
  BY <1>3 DEF Newest, LastIn
<1>1. /\ KeptOf(p)' /\ CountOf(p)' /\ WrittenOf(p)'
      /\ Entries' = Entries /\ \A m : Slot(m)' = Slot(m)
  BY <1>4, RowKeep
<1>2. \A m \in Int : Slot(m) \in Entries
  BY SlotFacts
<1>6. \A e \in Entries : Num(p, e)' = Num(p, e) /\ Num(p, e) \in Nat
  BY IndexTypes DEF Num
<1>7. KeysOf(p)'
  BY <1>1, <1>6 DEF RowOf, KeysOf
<1>8. TailOf(p)'
  BY <1>1, <1>4 DEF RowOf, TailOf
<1>9. OpenOf(p)'
  <2>1. /\ Slot((tailIndex[p] - 1) \div BLK_SIZE) \in Entries
        /\ Slot(tailIndex[p] \div BLK_SIZE) \in Entries
    BY <1>2, RowTypes
  <2>2. OpenOf(p)
    BY DEF RowOf
  <2>3. QED
    BY <1>1, <1>3, <2>1, <2>2 DEF OpenOf
<1>13. QED
  BY <1>1, <1>7, <1>8, <1>9 DEF RowOf

(* The rows of other users.                                                *)
LEMMA OwnerOther ==
  ASSUME Typed, NEW a \in Actors, producers' = producers,
         \A x \in Actors \ {a} : pc'[x] = pc[x] /\ my'[x] = my[x],
         NEW q \in Producers, q \notin 1 .. Len(producers) \/ producers[q] # a
  PROVE  /\ OwnerPc(q)' = OwnerPc(q) /\ Phase(q)' = Phase(q)
         /\ OwnerPc(q) = "publish" => my'[producers[q]] = my[producers[q]]
<1>1. CASE q \in 1 .. Len(producers)
  <2>1. producers[q] \in Actors \ {a}
    BY <1>1, NullIsNoUser DEF Typed, Known, HashTypes
  <2>2. QED
    BY <2>1 DEF OwnerPc, Phase
<1>2. CASE q \notin 1 .. Len(producers)
  BY <1>2 DEF OwnerPc, Phase
<1>3. QED
  BY <1>1, <1>2

LEMMA PendingSame ==
  ASSUME Typed, NEW q \in Producers, headIndex'[q] = headIndex[q],
         \A x \in Workers :
           \/ pc'[x] = pc[x] /\ my'[x] = my[x]
           \/ x \notin Sub(q, InWork) /\ x \notin Sub(q, InWork)'
           \/ /\ pc[x] \in InWork /\ pc'[x] \in InWork
              /\ my'[x].p = my[x].p /\ my'[x].index = my[x].index
  PROVE  \A i \in Int : Pending(q, i)' <=> Pending(q, i)
<1>1. /\ Sub(q, InWork)' = Sub(q, InWork)
      /\ \A x \in Sub(q, InWork) : my'[x].index = my[x].index
  BY DEF Sub
<1>2. QED
  BY <1>1 DEF Pending

(* A step that leaves all rows as they are.                                *)
LEMMA QuietRows ==
  ASSUME Typed, Counts, Rows, NEW a \in Actors,
         UNCHANGED <<setup, producers, tail_vars, index_vars, elements,
                     elementsCompletelyDequeued, asked>>,
         \A x \in Actors \ {a} : pc'[x] = pc[x] /\ my'[x] = my[x],
         \A p \in Producers, i \in Int : Pending(p, i)' <=> Pending(p, i),
         \/ pc'[a] = pc[a] /\ my'[a] = my[a]
         \/ PhaseAt(pc'[a]) = PhaseAt(pc[a]) /\ pc'[a] # "publish"
  PROVE  Rows'
<1>1. ASSUME NEW p \in Producers PROVE RowOf(p)'
  <2>1. RowOf(p) /\ AskedOf(p)
    BY DEF Rows, RowOf
  <2>2. AskedOf(p)'
    BY <2>1 DEF AskedOf, tail_vars
  <2>3. \A e \in Entries : KeyOf(p, e)' = KeyOf(p, e) /\ ValueOf(p, e)' = ValueOf(p, e)
    BY DEF KeyOf, ValueOf, index_vars
  <2>4. /\ Phase(p)' = Phase(p)
        /\ OwnerPc(p)' = "publish" => my'[producers'[p]].block = my[producers[p]].block
    <3>1. CASE p \notin 1 .. Len(producers) \/ producers[p] # a
      BY <3>1, OwnerOther
    <3>2. CASE p \in 1 .. Len(producers) /\ producers[p] = a
      BY <3>2 DEF OwnerPc, Phase
    <3>3. QED
      BY <3>1, <3>2
  <2>5. \A i \in Int : Pending(p, i)' <=> Pending(p, i)
    OBVIOUS
  <2>6. /\ tailIndex'[p] = tailIndex[p] /\ tailBlock'[p] = tailBlock[p]
        /\ blockIndexTail'[p] = blockIndexTail[p]
        /\ setup' = setup /\ producers' = producers /\ elements' = elements
        /\ elementsCompletelyDequeued' = elementsCompletelyDequeued
    BY DEF tail_vars, index_vars
  <2>7. QED
    BY <2>1, <2>2, <2>3, <2>4, <2>5, <2>6, RowFrame
<1>2. \A u \in Users : ~InRange(u)' => asked'[u] = 0
  BY DEF Rows, InRange
<1>3. QED
  BY <1>1, <1>2 DEF Rows

(* A new row has no index.                                                 *)
LEMMA NewRow ==
  ASSUME Typed, Counts, Rows, NEW u \in Users, Fits(u),
         UNCHANGED <<setup, tail_vars, head_vars, index_vars, block_vars, asked>>
  PROVE  Rows'
<1> USE NullIsNoUser
<1>1. PICK m, r :
        /\ m \in {"slot", "room"} /\ Step(u, "fits", m, r)
        /\ producers' = producers \/ producers' = Append(producers, u)
  BY DEF Fits
<1>2. /\ pc[u] = "fits" /\ pc'[u] = m /\ m \in {"slot", "room"}
      /\ \A x \in Actors \ {u} : pc'[x] = pc[x] /\ my'[x] = my[x]
  BY <1>1, StepEffect DEF Typed
<1>3. /\ tailIndex' = tailIndex /\ tailBlock' = tailBlock /\ headIndex' = headIndex
      /\ blockIndex' = blockIndex /\ blockIndexTail' = blockIndexTail
      /\ elements' = elements /\ elementsCompletelyDequeued' = elementsCompletelyDequeued
      /\ setup' = setup /\ asked' = asked
  BY DEF tail_vars, head_vars, index_vars, block_vars
<1>4. \A p \in Producers, i \in Int : Pending(p, i)' <=> Pending(p, i)
  <2>1. \A x \in Workers : pc'[x] = pc[x] /\ my'[x] = my[x]
    BY <1>2, UserQueueAssumption
  <2>2. QED
    BY <1>3, <2>1, PendingSame
<1>5. CASE producers' = producers
  <2>1. PhaseAt(pc'[u]) = PhaseAt(pc[u]) /\ pc'[u] # "publish"
    BY <1>2 DEF PhaseAt, Opening
  <2>2. QED
    BY <1>2, <1>3, <1>4, <1>5, <2>1, QuietRows DEF tail_vars, index_vars
<1>6. CASE producers' = Append(producers, u)
  <2>1. /\ Len(producers) \in Nat /\ Len(producers') = Len(producers) + 1
        /\ producers'[Len(producers) + 1] = u
        /\ \A p \in 1 .. Len(producers) : producers'[p] = producers[p] /\ producers[p] \in Users
    BY <1>6 DEF Typed, Known, HashTypes
  <2>2. ~InRange(u) /\ \A p \in 1 .. Len(producers) : producers[p] # u
    BY <1>2 DEF Typed, Known, NamingOf, Naming, InRange
  <2>3. asked[u] = 0
    BY <2>2 DEF Rows
  <2>4. ASSUME NEW p \in Producers PROVE RowOf(p)'
    <3>1. RowOf(p) /\ AskedOf(p)
      BY DEF Rows, RowOf
    <3>2. p \in Nat
      BY DEF Producers
    <3>3. CASE p \in 1 .. Len(producers)
      <4>1. AskedOf(p)' /\ p \in 1 .. Len(producers)'
        BY <1>3, <2>1, <3>1, <3>3 DEF AskedOf
      <4>2. OwnerPc(p)' = OwnerPc(p) /\ my'[producers'[p]] = my[producers[p]]
        BY <1>2, <2>1, <2>2, <3>3, <4>1 DEF OwnerPc
      <4>3. QED
        BY <1>3, <1>4, <2>1, <3>1, <3>3, <4>1, <4>2, RowFrame DEF Phase, KeyOf, ValueOf
    <3>4. CASE p \notin 1 .. Len(producers)
      <4>1. tailIndex[p] = 0 /\ OwnerPc(p) = "out"
        BY <3>1, <3>4 DEF AskedOf, OwnerPc
      <4>2. OwnerPc(p)' \in {"out", "slot", "room"}
        BY <1>2, <2>1, <3>2, <3>4 DEF OwnerPc
      <4>3. AskedOf(p)'
        BY <1>3, <2>1, <2>3, <3>2, <3>4, <4>1 DEF AskedOf
      <4>4. Phase(p)' = Phase(p) /\ OwnerPc(p)' # "publish"
        BY <4>1, <4>2 DEF Phase, PhaseAt, Opening
      <4>5. QED
        BY <1>3, <1>4, <3>1, <3>4, <4>3, <4>4, RowFrame DEF KeyOf, ValueOf
    <3>5. QED
      BY <3>3, <3>4
  <2>5. ASSUME NEW v \in Users, ~InRange(v)' PROVE asked'[v] = 0
    <3>1. ~InRange(v)
      BY <2>1, <2>5 DEF InRange
    <3>2. QED
      BY <1>3, <3>1 DEF Rows
  <2>6. QED
    BY <2>4, <2>5 DEF Rows
<1>7. QED
  BY <1>1, <1>5, <1>6

(* The row of a user that is in enqueue, and the other rows.               *)
LEMMA OwnRow ==
  ASSUME Typed, NEW u \in Users, pc[u] \in Enqueueing, NEW p, p = my[u].p,
         producers' = producers
  PROVE  /\ p \in Producers /\ p \in 1 .. Len(producers) /\ producers[p] = u
         /\ OwnerPc(p) = pc[u] /\ OwnerPc(p)' = pc'[u]
         /\ \A q \in Producers \ {p} : q \notin 1 .. Len(producers) \/ producers[q] # u
<1>1. p \in Producers
  BY OwnSub
<1>2. p \in 1 .. Len(producers) /\ producers[p] = u
  BY DEF Typed, Known, NamingOf, Owns
<1>3. \A q \in Producers \ {p} : q \notin 1 .. Len(producers) \/ producers[q] # u
  BY <1>2 DEF Typed, Known, OneEach
<1>4. QED
  BY <1>1, <1>2, <1>3 DEF OwnerPc

LEMMA OtherRow ==
  ASSUME Typed, Counts, Rows, NEW a \in Actors, setup' = setup, producers' = producers,
         \A x \in Actors \ {a} : pc'[x] = pc[x] /\ my'[x] = my[x],
         NEW q \in Producers, q \notin 1 .. Len(producers) \/ producers[q] # a,
         tailIndex'[q] = tailIndex[q], tailBlock'[q] = tailBlock[q],
         blockIndexTail'[q] = blockIndexTail[q],
         \A e \in Entries : KeyOf(q, e)' = KeyOf(q, e) /\ ValueOf(q, e)' = ValueOf(q, e),
         \A e \in Entries : ValueOf(q, e) # Null =>
           /\ elementsCompletelyDequeued'[ValueOf(q, e)] = elementsCompletelyDequeued[ValueOf(q, e)]
           /\ elements'[ValueOf(q, e)] = elements[ValueOf(q, e)],
         \A i \in Int : Pending(q, i)' <=> Pending(q, i),
         \A x \in Users \ {a} : asked'[x] = asked[x]
  PROVE  RowOf(q)'
<1>1. RowOf(q) /\ AskedOf(q)
  BY DEF Rows, RowOf
<1>2. AskedOf(q)'
  BY <1>1 DEF AskedOf, Typed, Known, HashTypes
<1>3. Phase(q)' = Phase(q)
      /\ (OwnerPc(q)' = "publish" => my'[producers'[q]].block = my[producers[q]].block)
  BY OwnerOther
<1>4. QED
  BY <1>1, <1>2, <1>3, RowFrame

(* The entry that is next is the one of the tail's block.                  *)
LEMMA NextSlot ==
  ASSUME Typed, Counts, NEW p \in Producers, RowOf(p), tailIndex[p] % BLK_SIZE = 0
  PROVE  /\ blockIndexTail[p] = Slot((tailIndex[p] - 1) \div BLK_SIZE) =>
              NextEntry(p) = Slot(tailIndex[p] \div BLK_SIZE)
         /\ blockIndexTail[p] = Slot(tailIndex[p] \div BLK_SIZE) =>
              (blockIndexTail[p] - 1) % setup.entries = Slot((tailIndex[p] - 1) \div BLK_SIZE)
         /\ Slot(tailIndex[p] \div BLK_SIZE) \in Entries
         /\ LastIn(p) = (tailIndex[p] - 1) \div BLK_SIZE \/ OwnerPc(p) = "publish"
         /\ (tailIndex[p] - 1) \div BLK_SIZE = (tailIndex[p] \div BLK_SIZE) - 1
<1>1. PICK t \in Nat : t = tailIndex[p]
  BY RowTypes
<1>2. t \div BLK_SIZE \in Int /\ (t - 1) \div BLK_SIZE = (t \div BLK_SIZE) - 1
  BY <1>1, BeforeDiv
<1>3. PICK m \in Int : m = t \div BLK_SIZE
  BY <1>2
<1>4. /\ (Slot(m - 1) + 1) % setup.entries = Slot((m - 1) + 1)
      /\ (Slot(m) + (-1)) % setup.entries = Slot(m + (-1))
      /\ Slot(m) \in Entries
  BY SlotFacts
<1>5. (m - 1) + 1 = m /\ m + (-1) = m - 1
  OBVIOUS
<1>6. Slot(m) \in Int /\ Slot(m) + (-1) = Slot(m) - 1
  BY <1>4 DEF Entries
<1>7. QED
  BY <1>1, <1>2, <1>3, <1>4, <1>5, <1>6 DEF NextEntry, LastIn

(* Three steps in a row that move no block: into the last block, to a new  *)
(* entry of the index, and back.                                           *)
LEMMA IntoBlockRows ==
  ASSUME Typed, Counts, Rows, NEW u \in Users, NEW p, p = my[u].p, NEW r,
         Step(u, "enqueue", "publish", r), r.block = tailBlock[p],
         tailIndex[p] % BLK_SIZE # 0,
         UNCHANGED <<setup, producers, tail_vars, index_vars, block_vars, head_vars, asked>>
  PROVE  Rows'
<1> USE NullIsNoUser
<1>1. /\ pc[u] = "enqueue" /\ pc'[u] = "publish" /\ my'[u] = r
      /\ \A x \in Actors \ {u} : pc'[x] = pc[x] /\ my'[x] = my[x]
  BY StepEffect DEF Typed
<1>2. /\ tailIndex' = tailIndex /\ tailBlock' = tailBlock /\ headIndex' = headIndex
      /\ blockIndex' = blockIndex /\ blockIndexTail' = blockIndexTail
      /\ elements' = elements /\ elementsCompletelyDequeued' = elementsCompletelyDequeued
  BY DEF tail_vars, head_vars, index_vars, block_vars
<1>3. /\ p \in Producers /\ p \in 1 .. Len(producers) /\ producers[p] = u
      /\ OwnerPc(p) = "enqueue" /\ OwnerPc(p)' = "publish"
      /\ \A q \in Producers \ {p} : q \notin 1 .. Len(producers) \/ producers[q] # u
  BY <1>1, OwnRow DEF Enqueueing
<1>4. \A q \in Producers : /\ \A i \in Int : Pending(q, i)' <=> Pending(q, i)
                           /\ \A e \in Entries : KeyOf(q, e)' = KeyOf(q, e)
                                                 /\ ValueOf(q, e)' = ValueOf(q, e)
  BY <1>1, <1>2, PendingSame, UserQueueAssumption DEF KeyOf, ValueOf
<1>5. \A q \in Producers \ {p} : RowOf(q)'
  BY <1>1, <1>2, <1>3, <1>4, OtherRow
<1>6. RowOf(p)
  BY <1>3 DEF Rows
<1>7. /\ Newest(p)' = Newest(p) /\ LastIn(p)' = LastIn(p)
      /\ (tailIndex[p] - 1) \div BLK_SIZE = tailIndex[p] \div BLK_SIZE
  <2>1. PICK t \in Nat : t = tailIndex[p]
    BY <1>3, RowTypes
  <2>2. (t - 1) \div BLK_SIZE = t \div BLK_SIZE
    BY <2>1, BeforeDiv
  <2>3. QED
    BY <1>2, <1>3, <2>1, <2>2 DEF Newest, LastIn, Opening
<1>8. /\ KeptOf(p)' /\ CountOf(p)' /\ WrittenOf(p)'
      /\ Entries' = Entries /\ \A m : Slot(m)' = Slot(m)
  BY <1>2, <1>3, <1>4, <1>6, <1>7, RowKeep
<1>9. KeysOf(p)' /\ TailOf(p)' /\ AskedOf(p)'
  BY <1>2, <1>6, <1>7, <1>8 DEF RowOf, KeysOf, TailOf, AskedOf, KeyOf, ValueOf, Num
<1>10. OpenOf(p)'
  BY <1>1, <1>2, <1>3, <1>6, <1>8 DEF RowOf, OpenOf, Opening, KeyOf, ValueOf
<1>11. \A v \in Users : ~InRange(v)' => asked'[v] = 0
  BY DEF Rows, InRange
<1>12. QED
  BY <1>5, <1>8, <1>9, <1>10, <1>11 DEF Rows, RowOf

LEMMA NewEntryRows ==
  ASSUME Typed, Counts, Rows, NEW u \in Users, NEW p, p = my[u].p,
         Step(u, "enqueue", "entry", my[u]), tailIndex[p] % BLK_SIZE = 0,
         \/ KeyOf(p, NextEntry(p)) = INVALID_BLOCK_BASE
         \/ ValueOf(p, NextEntry(p)) = Null,
         SetKey(p, NextEntry(p), tailIndex[p]),
         UNCHANGED <<setup, producers, tail_vars, blockIndexTail, block_vars, head_vars, asked>>
  PROVE  Rows'
<1> USE NullIsNoUser
<1>1. /\ pc[u] = "enqueue" /\ pc'[u] = "entry" /\ my'[u] = my[u]
      /\ \A x \in Actors \ {u} : pc'[x] = pc[x] /\ my'[x] = my[x]
  BY StepEffect DEF Typed
<1>2. /\ tailIndex' = tailIndex /\ tailBlock' = tailBlock /\ headIndex' = headIndex
      /\ blockIndexTail' = blockIndexTail
      /\ elements' = elements /\ elementsCompletelyDequeued' = elementsCompletelyDequeued
  BY DEF tail_vars, head_vars, block_vars
<1>3. /\ p \in Producers /\ p \in 1 .. Len(producers) /\ producers[p] = u
      /\ OwnerPc(p) = "enqueue" /\ OwnerPc(p)' = "entry"
      /\ \A q \in Producers \ {p} : q \notin 1 .. Len(producers) \/ producers[q] # u
  BY <1>1, OwnRow DEF Enqueueing
<1>6. RowOf(p)
  BY <1>3 DEF Rows
<1>7. PICK e \in Entries :
        /\ e = NextEntry(p) /\ e = Slot(tailIndex[p] \div BLK_SIZE)
        /\ LastIn(p) = (tailIndex[p] - 1) \div BLK_SIZE
  <2>1. blockIndexTail[p] = Slot((tailIndex[p] - 1) \div BLK_SIZE)
    BY <1>3, <1>6 DEF RowOf, TailOf, Newest, Opening
  <2>2. QED
    BY <1>3, <1>6, <2>1, NextSlot
<1>8. ValueOf(p, e) = Null
  BY <1>6, <1>7 DEF RowOf, KeysOf
<1>4. \A q \in Producers, f \in Entries :
        /\ ValueOf(q, f)' = ValueOf(q, f)
        /\ KeyOf(q, f)' = IF q = p /\ f = e THEN tailIndex[p] ELSE KeyOf(q, f)
  BY <1>3, <1>7, IndexKey DEF KeyOf, ValueOf
<1>5. \A q \in Producers : \A i \in Int : Pending(q, i)' <=> Pending(q, i)
  BY <1>1, <1>2, PendingSame, UserQueueAssumption
<1>9. \A q \in Producers \ {p} : RowOf(q)'
  BY <1>1, <1>2, <1>3, <1>4, <1>5, OtherRow
<1>10. Newest(p)' = Newest(p) /\ LastIn(p)' = LastIn(p)
  BY <1>2, <1>3 DEF Newest, LastIn, Opening
<1>11. /\ KeptOf(p)' /\ CountOf(p)' /\ WrittenOf(p)'
       /\ Entries' = Entries /\ \A m : Slot(m)' = Slot(m)
  <2>1. \A f \in Entries : ValueOf(p, f)' = ValueOf(p, f)
                            /\ (KeyOf(p, f)' = KeyOf(p, f) \/ ValueOf(p, f) = Null)
    BY <1>3, <1>4, <1>8
  <2>2. QED
    BY <1>2, <1>3, <1>5, <1>6, <1>10, <2>1, RowKeep
<1>12. TailOf(p)' /\ AskedOf(p)'
  BY <1>2, <1>6, <1>10, <1>11 DEF RowOf, TailOf, AskedOf
<1>13. tailIndex[p] \in Nat /\ tailIndex[p] # INVALID_BLOCK_BASE
  <2>1. PICK t \in Nat : t = tailIndex[p] /\ t % BLK_SIZE = 0
    BY <1>3, RowTypes
  <2>2. BLK_SIZE * 0 + 1 = 1 /\ 1 \in 0 .. BLK_SIZE - 1
    BY SizeOK
  <2>3. 1 % BLK_SIZE = 1
    BY <2>2, SizeOK, DivModUnique
  <2>4. QED
    BY <2>1, <2>3, SizeOK
<1>14. KeysOf(p)'
  <2> SUFFICES ASSUME NEW f \in Entries
               PROVE  IF KeyOf(p, f)' = INVALID_BLOCK_BASE THEN ValueOf(p, f)' = Null
                      ELSE KeyOf(p, f)' % BLK_SIZE = 0 /\ Slot(Num(p, f)') = f
    BY <1>11 DEF KeysOf, Slot
  <2>1. CASE f = e
    <3>1. KeyOf(p, f)' = tailIndex[p]
      BY <1>3, <1>4, <2>1
    <3>2. Num(p, f)' = tailIndex[p] \div BLK_SIZE
      BY <3>1 DEF Num
    <3>3. QED
      BY <1>7, <1>13, <2>1, <3>1, <3>2
  <2>2. CASE f # e
    <3>1. KeyOf(p, f)' = KeyOf(p, f) /\ ValueOf(p, f)' = ValueOf(p, f)
      BY <1>3, <1>4, <2>2
    <3>2. Num(p, f)' = Num(p, f)
      BY <3>1 DEF Num
    <3>3. QED
      BY <1>6, <3>1, <3>2 DEF RowOf, KeysOf
  <2>3. QED
    BY <2>1, <2>2
<1>15. OpenOf(p)'
  <2>1. Slot((tailIndex[p] - 1) \div BLK_SIZE) \in Entries
    BY <1>3, RowTypes, SlotFacts
  <2>2. tailIndex[p] > 0 => KeyOf(p, Slot((tailIndex[p] - 1) \div BLK_SIZE))' # INVALID_BLOCK_BASE
    <3>1. PICK f \in Entries : f = Slot((tailIndex[p] - 1) \div BLK_SIZE)
      BY <2>1
    <3>2. tailIndex[p] > 0 => KeyOf(p, f) # INVALID_BLOCK_BASE
      BY <1>6, <3>1 DEF RowOf, OpenOf
    <3>3. tailIndex[p] > 0 => KeyOf(p, f)' # INVALID_BLOCK_BASE
      BY <1>3, <1>4, <1>13, <3>2
    <3>4. KeyOf(p, Slot((tailIndex[p] - 1) \div BLK_SIZE))' = KeyOf(p, f)'
      BY <1>2, <1>11, <3>1 DEF KeyOf
    <3>5. QED
      BY <3>3, <3>4
  <2>3. KeyOf(p, e)' = tailIndex[p] /\ ValueOf(p, e)' = Null
    BY <1>3, <1>4, <1>8
  <2>4. Slot(tailIndex[p] \div BLK_SIZE)' = e
    BY <1>2, <1>7, <1>11
  <2>5. KeyOf(p, Slot(tailIndex[p] \div BLK_SIZE))' = KeyOf(p, e)'
        /\ ValueOf(p, Slot(tailIndex[p] \div BLK_SIZE))' = ValueOf(p, e)'
    BY <2>4 DEF KeyOf, ValueOf
  <2>6. QED
    BY <1>2, <1>3, <2>2, <2>3, <2>5 DEF OpenOf
<1>16. \A v \in Users : ~InRange(v)' => asked'[v] = 0
  BY DEF Rows, InRange
<1>17. QED
  BY <1>9, <1>11, <1>12, <1>14, <1>15, <1>16 DEF Rows, RowOf

LEMMA InsertEntryRows ==
  ASSUME Typed, Counts, Rows, NEW u \in Users, NEW p, p = my[u].p,
         Step(u, "entry", "pool", my[u]),
         blockIndexTail' = Put(blockIndexTail, p, NextEntry(p)),
         UNCHANGED <<setup, producers, tail_vars, blockIndex, block_vars, head_vars, asked>>
  PROVE  Rows'
<1> USE NullIsNoUser
<1>1. /\ pc[u] = "entry" /\ pc'[u] = "pool" /\ my'[u] = my[u]
      /\ \A x \in Actors \ {u} : pc'[x] = pc[x] /\ my'[x] = my[x]
  BY StepEffect DEF Typed
<1>3. /\ p \in Producers /\ p \in 1 .. Len(producers) /\ producers[p] = u
      /\ OwnerPc(p) = "entry" /\ OwnerPc(p)' = "pool"
      /\ \A q \in Producers \ {p} : q \notin 1 .. Len(producers) \/ producers[q] # u
  BY <1>1, OwnRow DEF Enqueueing
<1>2. /\ tailIndex' = tailIndex /\ tailBlock' = tailBlock /\ headIndex' = headIndex
      /\ blockIndex' = blockIndex
      /\ elements' = elements /\ elementsCompletelyDequeued' = elementsCompletelyDequeued
      /\ blockIndexTail'[p] = NextEntry(p)
      /\ \A q \in Producers \ {p} : blockIndexTail'[q] = blockIndexTail[q]
  BY <1>3 DEF tail_vars, head_vars, block_vars, Typed, Shared, Put
<1>4. \A q \in Producers : /\ \A i \in Int : Pending(q, i)' <=> Pending(q, i)
                           /\ \A e \in Entries : KeyOf(q, e)' = KeyOf(q, e)
                                                 /\ ValueOf(q, e)' = ValueOf(q, e)
  BY <1>1, <1>2, PendingSame, UserQueueAssumption DEF KeyOf, ValueOf
<1>5. \A q \in Producers \ {p} : RowOf(q)'
  BY <1>1, <1>2, <1>3, <1>4, OtherRow
<1>6. RowOf(p)
  BY <1>3 DEF Rows
<1>7. /\ Newest(p)' = tailIndex[p] \div BLK_SIZE /\ LastIn(p)' = LastIn(p)
      /\ NextEntry(p) = Slot(tailIndex[p] \div BLK_SIZE)
  <2>1. tailIndex[p] % BLK_SIZE = 0
    BY <1>3, <1>6 DEF RowOf, OpenOf
  <2>2. blockIndexTail[p] = Slot((tailIndex[p] - 1) \div BLK_SIZE)
    BY <1>3, <1>6 DEF RowOf, TailOf, Newest, Opening
  <2>3. QED
    BY <1>2, <1>3, <1>6, <2>1, <2>2, NextSlot DEF Newest, LastIn, Opening
<1>8. /\ KeptOf(p)' /\ CountOf(p)' /\ WrittenOf(p)'
      /\ Entries' = Entries /\ \A m : Slot(m)' = Slot(m)
  BY <1>2, <1>3, <1>4, <1>6, <1>7, RowKeep
<1>9. KeysOf(p)' /\ TailOf(p)' /\ AskedOf(p)'
  BY <1>2, <1>6, <1>7, <1>8 DEF RowOf, KeysOf, TailOf, AskedOf, KeyOf, ValueOf, Num
<1>10. OpenOf(p)'
  BY <1>1, <1>2, <1>3, <1>6, <1>8 DEF RowOf, OpenOf, Opening, KeyOf, ValueOf
<1>11. \A v \in Users : ~InRange(v)' => asked'[v] = 0
  BY DEF Rows, InRange
<1>12. QED
  BY <1>5, <1>8, <1>9, <1>10, <1>11 DEF Rows, RowOf

LEMMA RewindRows ==
  ASSUME Typed, Counts, Rows, NEW u \in Users, NEW p, p = my[u].p,
         Step(u, "list", "failed", my[u]),
         SetValue(p, blockIndexTail[p], Null),
         blockIndexTail' = Put(blockIndexTail, p, (blockIndexTail[p] - 1) % setup.entries),
         UNCHANGED <<setup, producers, tail_vars, block_vars, head_vars, asked>>
  PROVE  Rows'
<1> USE NullIsNoUser
<1>1. /\ pc[u] = "list" /\ pc'[u] = "failed" /\ my'[u] = my[u]
      /\ \A x \in Actors \ {u} : pc'[x] = pc[x] /\ my'[x] = my[x]
  BY StepEffect DEF Typed
<1>3. /\ p \in Producers /\ p \in 1 .. Len(producers) /\ producers[p] = u
      /\ OwnerPc(p) = "list" /\ OwnerPc(p)' = "failed"
      /\ \A q \in Producers \ {p} : q \notin 1 .. Len(producers) \/ producers[q] # u
  BY <1>1, OwnRow DEF Enqueueing
<1>2. /\ tailIndex' = tailIndex /\ tailBlock' = tailBlock /\ headIndex' = headIndex
      /\ elements' = elements /\ elementsCompletelyDequeued' = elementsCompletelyDequeued
      /\ blockIndexTail'[p] = (blockIndexTail[p] - 1) % setup.entries
      /\ \A q \in Producers \ {p} : blockIndexTail'[q] = blockIndexTail[q]
  BY <1>3 DEF tail_vars, head_vars, block_vars, Typed, Shared, Put
<1>6. RowOf(p)
  BY <1>3 DEF Rows
<1>7. /\ tailIndex[p] % BLK_SIZE = 0
      /\ blockIndexTail[p] = Slot(tailIndex[p] \div BLK_SIZE)
      /\ ValueOf(p, blockIndexTail[p]) = Null
  BY <1>3, <1>6 DEF RowOf, OpenOf, TailOf, Newest, Opening
<1>8. \A q \in Producers, e \in Entries : KeyOf(q, e)' = KeyOf(q, e)
                                          /\ ValueOf(q, e)' = ValueOf(q, e)
  <2>1. blockIndexTail[p] \in Entries
    BY <1>3 DEF Typed, Shared
  <2>2. QED
    BY <1>3, <1>7, <2>1, IndexValue DEF KeyOf, ValueOf
<1>4. \A q \in Producers : \A i \in Int : Pending(q, i)' <=> Pending(q, i)
  BY <1>1, <1>2, PendingSame, UserQueueAssumption
<1>5. \A q \in Producers \ {p} : RowOf(q)'
  BY <1>1, <1>2, <1>3, <1>4, <1>8, OtherRow
<1>9. /\ Newest(p)' = (tailIndex[p] - 1) \div BLK_SIZE /\ LastIn(p)' = LastIn(p)
      /\ blockIndexTail'[p] = Slot((tailIndex[p] - 1) \div BLK_SIZE)
  BY <1>2, <1>3, <1>6, <1>7, NextSlot DEF Newest, LastIn, Opening
<1>10. /\ KeptOf(p)' /\ CountOf(p)' /\ WrittenOf(p)'
       /\ Entries' = Entries /\ \A m : Slot(m)' = Slot(m)
  BY <1>2, <1>3, <1>4, <1>6, <1>8, <1>9, RowKeep
<1>11. KeysOf(p)' /\ TailOf(p)' /\ AskedOf(p)'
  <2>1. TailOf(p)' /\ AskedOf(p)'
    BY <1>2, <1>6, <1>9, <1>10 DEF RowOf, TailOf, AskedOf
  <2>2. \A e \in Entries : Num(p, e)' = Num(p, e)
    BY <1>3, <1>8 DEF Num
  <2>3. KeysOf(p)'
    BY <1>3, <1>6, <1>8, <1>10, <2>2 DEF RowOf, KeysOf
  <2>4. QED
    BY <2>1, <2>3
<1>12. OpenOf(p)'
  <2>1. PICK f \in Entries : f = Slot((tailIndex[p] - 1) \div BLK_SIZE)
    BY <1>3, RowTypes, SlotFacts
  <2>2. tailIndex[p] > 0 => KeyOf(p, f) # INVALID_BLOCK_BASE
    BY <1>6, <2>1 DEF RowOf, OpenOf
  <2>3. KeyOf(p, Slot((tailIndex[p] - 1) \div BLK_SIZE))' = KeyOf(p, f)'
    BY <1>2, <1>10, <2>1 DEF KeyOf
  <2>4. QED
    BY <1>2, <1>3, <1>7, <1>8, <2>2, <2>3 DEF OpenOf, Opening
<1>13. \A v \in Users : ~InRange(v)' => asked'[v] = 0
  BY DEF Rows, InRange
<1>14. QED
  BY <1>5, <1>10, <1>11, <1>12, <1>13 DEF Rows, RowOf

(* A block has one place, and none while a thread has it in hand.          *)
LEMMA OnePlace ==
  ASSUME Typed, NEW o, Lists(o), NEW p \in Producers, NEW e \in Entries, ValueOf(p, e) # Null
  PROVE  /\ ValueOf(p, e) \in Blocks
         /\ \A q \in Producers, f \in Entries : ValueOf(q, f) = ValueOf(p, e) => q = p /\ f = e
         /\ \A a \in Actors : ~InHands(a, ValueOf(p, e))
<1>1. <<p, e>> \in UsedEntries /\ BlockIn(<<p, e>>) = ValueOf(p, e)
  BY DEF UsedEntries, BlockIn, ValueOf, Entries
<1>2. ValueOf(p, e) \in Blocks
  BY <1>1, UsedBlock
<1>3. o[ValueOf(p, e)].kind = "entry" /\ o[ValueOf(p, e)].by = <<p, e>>
  BY <1>1 DEF Lists, OwnEntry
<1>4. ASSUME NEW q \in Producers, NEW f \in Entries, ValueOf(q, f) = ValueOf(p, e)
      PROVE  q = p /\ f = e
  <2>1. <<q, f>> \in UsedEntries /\ BlockIn(<<q, f>>) = ValueOf(q, f)
    BY <1>4 DEF UsedEntries, BlockIn, ValueOf, Entries
  <2>2. o[ValueOf(q, f)].by = <<q, f>>
    BY <2>1 DEF Lists, OwnEntry
  <2>3. <<q, f>> = <<p, e>>
    BY <1>3, <1>4, <2>2
  <2>4. QED
    BY <2>3
<1>5. \A a \in Actors : ~InHands(a, ValueOf(p, e))
  BY <1>2, <1>3, HandOnly
<1>6. QED
  BY <1>2, <1>4, <1>5

LEMMA FreshRows ==
  ASSUME Typed, Counts, Rows, NEW o, Lists(o), NEW u \in Users, NEW p, p = my[u].p,
         NEW b, b = my[u].block,
         Step(u, "fresh", "publish", my[u]),
         SetValue(p, blockIndexTail[p], b),
         elementsCompletelyDequeued' = Put(elementsCompletelyDequeued, b, 0),
         tailBlock' = Put(tailBlock, p, b),
         UNCHANGED <<setup, producers, tailIndex, blockIndexTail, elements, head_vars, asked>>
  PROVE  Rows'
<1> USE NullIsNoUser, SizeOK
<1>1. /\ pc[u] = "fresh" /\ pc'[u] = "publish" /\ my'[u] = my[u]
      /\ \A x \in Actors \ {u} : pc'[x] = pc[x] /\ my'[x] = my[x]
  BY StepEffect DEF Typed
<1>2. /\ p \in Producers /\ p \in 1 .. Len(producers) /\ producers[p] = u
      /\ OwnerPc(p) = "fresh" /\ OwnerPc(p)' = "publish"
      /\ \A q \in Producers \ {p} : q \notin 1 .. Len(producers) \/ producers[q] # u
  BY <1>1, OwnRow DEF Enqueueing
<1>3. b \in Blocks /\ InHands(u, b)
  BY <1>1, Placed DEF SpotOf, InHands
<1>4. /\ tailIndex' = tailIndex /\ headIndex' = headIndex /\ elements' = elements
      /\ blockIndexTail' = blockIndexTail
      /\ tailBlock'[p] = b /\ \A q \in Producers \ {p} : tailBlock'[q] = tailBlock[q]
      /\ elementsCompletelyDequeued'[b] = 0
      /\ \A c \in Blocks \ {b} : elementsCompletelyDequeued'[c] = elementsCompletelyDequeued[c]
  BY <1>2, <1>3 DEF head_vars, Typed, Shared, Put
<1>5. RowOf(p)
  BY <1>2 DEF Rows
<1>6. PICK e \in Entries : e = blockIndexTail[p]
  BY <1>2 DEF Typed, Shared
<1>7. PICK t \in Nat : t = tailIndex[p]
  BY <1>2, RowTypes
<1>8. PICK n \in Nat : n = t \div BLK_SIZE
  OBVIOUS
<1>9. /\ t % BLK_SIZE = 0 /\ e = Slot(n) /\ KeyOf(p, e) = t /\ ValueOf(p, e) = Null
      /\ Num(p, e) = n /\ LastIn(p) = n - 1 /\ (t - 1) \div BLK_SIZE = n - 1
  <2>1. t % BLK_SIZE = 0 /\ e = Slot(n) /\ KeyOf(p, e) = t /\ ValueOf(p, e) = Null
    BY <1>2, <1>5, <1>6, <1>7, <1>8 DEF RowOf, OpenOf, TailOf, Newest, Opening
  <2>2. (t - 1) \div BLK_SIZE = n - 1
    BY <1>8, <2>1, BeforeDiv
  <2>3. QED
    BY <1>2, <1>7, <1>8, <2>1, <2>2 DEF Num, LastIn
<1>10. \A q \in Producers, f \in Entries :
         /\ KeyOf(q, f)' = KeyOf(q, f)
         /\ ValueOf(q, f)' = IF q = p /\ f = e THEN b ELSE ValueOf(q, f)
         /\ ValueOf(q, f) # Null => ValueOf(q, f) \in Blocks \ {b}
  <2>1. \A q \in Producers, f \in Entries :
         /\ KeyOf(q, f)' = KeyOf(q, f)
         /\ ValueOf(q, f)' = IF q = p /\ f = e THEN b ELSE ValueOf(q, f)
    BY <1>2, <1>6, IndexValue DEF KeyOf, ValueOf
  <2>2. ASSUME NEW q \in Producers, NEW f \in Entries, ValueOf(q, f) # Null
        PROVE  ValueOf(q, f) \in Blocks \ {b}
    BY <1>3, <2>2, OnePlace
  <2>3. QED
    BY <2>1, <2>2
<1>11. \A q \in Producers : \A i \in Int : Pending(q, i)' <=> Pending(q, i)
  BY <1>1, <1>4, PendingSame, UserQueueAssumption
<1>12. \A q \in Producers \ {p} : RowOf(q)'
  BY <1>1, <1>2, <1>4, <1>10, <1>11, OtherRow
<1>13. Entries' = Entries /\ (\A m : Slot(m)' = Slot(m)) /\ (\A m \in Int : Slot(m) \in Entries)
  BY SlotFacts DEF Entries, Slot
<1>14. \A m \in Int : PendingIn(p, m)' = PendingIn(p, m)
  <2> SUFFICES ASSUME NEW m \in Int PROVE PendingIn(p, m)' = PendingIn(p, m)
    OBVIOUS
  <2>1. Places(m) \subseteq Int /\ Places(m)' = Places(m)
    BY PlacesFacts DEF Places
  <2>2. QED
    BY <1>2, <1>11, <2>1 DEF PendingIn
<1>15. \A f \in Entries : Num(p, f)' = Num(p, f) /\ Num(p, f) \in Nat
  BY <1>2, <1>10, IndexTypes DEF Num
<1>16. Newest(p)' = n /\ LastIn(p)' = n /\ Newest(p) = n
  BY <1>2, <1>4, <1>7, <1>8 DEF Newest, LastIn, Opening
<1>17. KeysOf(p)'
  <2> SUFFICES ASSUME NEW f \in Entries
               PROVE  IF KeyOf(p, f)' = INVALID_BLOCK_BASE THEN ValueOf(p, f)' = Null
                      ELSE KeyOf(p, f)' % BLK_SIZE = 0 /\ Slot(Num(p, f)') = f
    BY <1>13 DEF KeysOf, Slot
  <2>1. t # 1
    <3>1. BLK_SIZE * 0 + 1 = 1 /\ 1 \in 0 .. BLK_SIZE - 1
      OBVIOUS
    <3>2. 1 % BLK_SIZE = 1
      BY <3>1, DivModUnique
    <3>3. QED
      BY <1>9, <3>2
  <2>2. QED
    BY <1>2, <1>5, <1>9, <1>10, <1>15, <2>1 DEF RowOf, KeysOf
<1>18. TailOf(p)' /\ AskedOf(p)'
  BY <1>4, <1>5, <1>6, <1>9, <1>13, <1>16 DEF RowOf, TailOf, AskedOf
<1>19. OpenOf(p)'
  <2>1. PICK f \in Entries : f = Slot((t - 1) \div BLK_SIZE)
    BY <1>9, <1>13
  <2>2. t > 0 => KeyOf(p, f) # INVALID_BLOCK_BASE
    BY <1>5, <1>7, <2>1 DEF RowOf, OpenOf
  <2>3. /\ KeyOf(p, Slot((tailIndex[p] - 1) \div BLK_SIZE))' = KeyOf(p, f)'
        /\ ValueOf(p, Slot(tailIndex[p] \div BLK_SIZE))' = ValueOf(p, e)'
    BY <1>4, <1>7, <1>8, <1>9, <1>13, <2>1 DEF KeyOf, ValueOf
  <2>4. ValueOf(p, e)' = b /\ KeyOf(p, f)' = KeyOf(p, f)
    BY <1>2, <1>10
  <2>5. my'[producers'[p]].block = b
    BY <1>1, <1>2
  <2>6. QED
    BY <1>2, <1>3, <1>4, <1>7, <2>2, <2>3, <2>4, <2>5 DEF OpenOf, Opening
<1>20. KeptOf(p)'
  <2> SUFFICES ASSUME NEW m \in 0 .. n, PendingIn(p, m) # {}
               PROVE  /\ KeyOf(p, Slot(m))' # INVALID_BLOCK_BASE /\ Num(p, Slot(m))' = m
                      /\ ValueOf(p, Slot(m))' # Null
    BY <1>14, <1>16 DEF KeptOf
  <2>1. PICK f \in Entries : f = Slot(m)
    BY <1>13
  <2>2. KeyOf(p, Slot(m))' = KeyOf(p, f)' /\ ValueOf(p, Slot(m))' = ValueOf(p, f)'
        /\ Num(p, Slot(m))' = Num(p, f)'
    BY <1>13, <2>1 DEF KeyOf, ValueOf, Num
  <2>3. CASE m = n
    <3>1. f = e /\ ValueOf(p, f)' = b /\ KeyOf(p, f)' = t /\ Num(p, f)' = n
      BY <1>2, <1>9, <1>10, <1>15, <2>1, <2>3
    <3>2. KeysOf(p)' /\ f \in Entries'
      BY <1>13, <1>17
    <3>3. QED
      BY <1>3, <2>2, <2>3, <3>1, <3>2 DEF KeysOf
  <2>4. CASE m # n
    <3>1. m \in 0 .. LastIn(p)
      BY <1>9, <2>4
    <3>2. KeyOf(p, f) # INVALID_BLOCK_BASE /\ Num(p, f) = m /\ ValueOf(p, f) # Null
      BY <1>5, <2>1, <3>1 DEF RowOf, KeptOf
    <3>3. QED
      BY <1>2, <1>9, <1>10, <1>15, <2>2, <3>2
  <2>5. QED
    BY <2>3, <2>4
<1>21. CountOf(p)'
  <2> SUFFICES ASSUME NEW f \in Entries, ValueOf(p, f)' # Null
               PROVE  elementsCompletelyDequeued'[ValueOf(p, f)']
                        + Cardinality(PendingIn(p, Num(p, f))') = BLK_SIZE
    BY <1>13 DEF CountOf
  <2>1. PICK k \in Nat : k = Num(p, f)
    BY <1>15
  <2>2. PendingIn(p, Num(p, f))' = PendingIn(p, k)
    <3>1. PendingIn(p, Num(p, f))' = PendingIn(p, k)'
      BY <1>15, <2>1 DEF PendingIn, Places
    <3>2. QED
      BY <1>14, <3>1
  <2>3. CASE f = e
    <3>1. k = n /\ ValueOf(p, f)' = b
      BY <1>2, <1>9, <1>10, <2>1, <2>3
    <3>2. PendingIn(p, n) = Places(n)
      <4>1. t = BLK_SIZE * n
        <5>1. t = BLK_SIZE * (t \div BLK_SIZE) + (t % BLK_SIZE)
          BY DivMod
        <5>2. BLK_SIZE * n \in Int
          OBVIOUS
        <5>3. QED
          BY <1>8, <1>9, <5>1, <5>2
      <4>2. \A i \in Places(n) : i >= t /\ i \in Int
        <5>1. BLK_SIZE * n \in Int
          OBVIOUS
        <5>2. QED
          BY <4>1, <5>1 DEF Places
      <4>0. headIndex[p] \in Nat /\ headIndex[p] <= t
        BY <1>2, <1>7, RowTypes
      <4>3. \A i \in Places(n) : i >= headIndex[p]
        BY <4>0, <4>2
      <4>4. QED
        BY <4>3 DEF PendingIn, Pending
    <3>3. Cardinality(PendingIn(p, n)) = BLK_SIZE
      BY <3>2, PlacesFacts
    <3>4. QED
      BY <1>4, <2>2, <3>1, <3>3
  <2>4. CASE f # e
    <3>1. ValueOf(p, f)' = ValueOf(p, f) /\ ValueOf(p, f) \in Blocks \ {b}
      BY <1>2, <1>10, <2>4
    <3>2. elementsCompletelyDequeued[ValueOf(p, f)] + Cardinality(PendingIn(p, k)) = BLK_SIZE
      BY <1>5, <2>1, <3>1 DEF RowOf, CountOf
    <3>3. QED
      BY <1>4, <2>2, <3>1, <3>2
  <2>5. QED
    BY <2>3, <2>4
<1>22. WrittenOf(p)'
  <2>0. /\ \A i \in Int : Pending(p, i)' <=> Pending(p, i)
        /\ tailIndex'[p] = t /\ elements' = elements /\ producers' = producers
        /\ \A i \in 0 .. t - 1 : i \in Int
    BY <1>2, <1>4, <1>7, <1>11
  <2> SUFFICES ASSUME NEW i \in 0 .. t - 1, Pending(p, i)
               PROVE  elements[ValueOf(p, Slot(i \div BLK_SIZE))'][i % BLK_SIZE]
                        = <<producers[p], i + 1>>
    BY <2>0 DEF WrittenOf
  <2>1. i \in Nat /\ i < tailIndex[p] /\ i \in 0 .. tailIndex[p] - 1
    BY <1>7
  <2>2. KeptOf(p) /\ WrittenOf(p)
    BY <1>5 DEF RowOf
  <2>3. PICK f \in Entries : f = Slot(i \div BLK_SIZE) /\ ValueOf(p, f) \in Blocks
    BY <1>2, <2>1, <2>2, PendingKept
  <2>4. ValueOf(p, Slot(i \div BLK_SIZE))' = ValueOf(p, f)'
    BY <1>13, <2>3 DEF ValueOf
  <2>5. ValueOf(p, f)' = ValueOf(p, f)
    BY <1>2, <1>9, <1>10, <2>3
  <2>6. elements[ValueOf(p, Slot(i \div BLK_SIZE))][i % BLK_SIZE] = <<producers[p], i + 1>>
    BY <2>1, <2>2 DEF WrittenOf
  <2>7. QED
    BY <2>3, <2>4, <2>5, <2>6
<1>23. \A v \in Users : ~InRange(v)' => asked'[v] = 0
  BY DEF Rows, InRange
<1>24. QED
  BY <1>12, <1>17, <1>18, <1>19, <1>20, <1>21, <1>22, <1>23 DEF Rows, RowOf

Write(b, k, x) == elements' = [elements EXCEPT ![b][k] = x]

LEMMA SamePlace ==
  ASSUME NEW i \in Nat, NEW t \in Nat, i \div BLK_SIZE = t \div BLK_SIZE,
         i % BLK_SIZE = t % BLK_SIZE
  PROVE  i = t
<1>1. PICK c \in Nat \ {0} : c = BLK_SIZE
  BY SizeOK
<1>2. i = c * (i \div c) + (i % c) /\ t = c * (t \div c) + (t % c)
  BY DivMod
<1>3. QED
  BY <1>1, <1>2

LEMMA WriteEffect ==
  ASSUME Typed, NEW b \in Blocks, NEW k \in 0 .. BLK_SIZE - 1, NEW x, Write(b, k, x)
  PROVE  /\ \A c \in Blocks \ {b} : elements'[c] = elements[c]
         /\ elements'[b][k] = x
         /\ \A j : j # k => elements'[b][j] = elements[b][j]
<1>1. DOMAIN elements = Blocks /\ DOMAIN elements[b] = 0 .. BLK_SIZE - 1
  BY DEF Typed, Shared
<1>2. elements' = [elements EXCEPT ![b] = [elements[b] EXCEPT ![k] = x]]
  BY DEF Write
<1>3. elements'[b] = [elements[b] EXCEPT ![k] = x]
      /\ \A c \in Blocks \ {b} : elements'[c] = elements[c]
  BY <1>1, <1>2
<1>4. QED
  BY <1>1, <1>3

LEMMA PublishRows ==
  ASSUME Typed, Counts, Rows, NEW o, Lists(o), NEW u \in Users, NEW p, p = my[u].p, NEW r,
         Step(u, "publish", "ask", r),
         Write(my[u].block, tailIndex[p] % BLK_SIZE, <<u, asked[u] + 1>>),
         tailIndex' = Put(tailIndex, p, tailIndex[p] + 1),
         asked' = Put(asked, u, asked[u] + 1),
         UNCHANGED <<setup, producers, tailBlock, index_vars, elementsCompletelyDequeued,
                     head_vars>>
  PROVE  Rows'
<1> USE NullIsNoUser, SizeOK
<1>1. /\ pc[u] = "publish" /\ pc'[u] = "ask"
      /\ \A x \in Actors \ {u} : pc'[x] = pc[x] /\ my'[x] = my[x]
  BY StepEffect DEF Typed
<1>2. /\ p \in Producers /\ p \in 1 .. Len(producers) /\ producers[p] = u
      /\ OwnerPc(p) = "publish" /\ OwnerPc(p)' = "ask"
      /\ \A q \in Producers \ {p} : q \notin 1 .. Len(producers) \/ producers[q] # u
  BY <1>1, OwnRow DEF Enqueueing
<1>3. RowOf(p)
  BY <1>2 DEF Rows
<1>4. PICK t \in Nat : t = tailIndex[p]
  BY <1>2, RowTypes
<1>5. PICK n \in Nat : n = t \div BLK_SIZE
  OBVIOUS
<1>6. PICK e \in Entries : e = Slot(n)
  BY SlotFacts
<1>7. PICK b \in Blocks : b = my[u].block /\ b = tailBlock[p] /\ ValueOf(p, e) = b
  <2>1. ValueOf(p, e) = tailBlock[p] /\ tailBlock[p] \in Blocks /\ my[u].block = tailBlock[p]
    BY <1>2, <1>3, <1>4, <1>5, <1>6 DEF RowOf, OpenOf
  <2>2. QED
    BY <2>1
<1>8. PICK k \in 0 .. BLK_SIZE - 1 : k = t % BLK_SIZE
  BY DivMod
<1>9. /\ tailBlock' = tailBlock /\ headIndex' = headIndex
      /\ blockIndex' = blockIndex /\ blockIndexTail' = blockIndexTail
      /\ elementsCompletelyDequeued' = elementsCompletelyDequeued
      /\ setup' = setup /\ producers' = producers
      /\ tailIndex'[p] = t + 1 /\ \A q \in Producers \ {p} : tailIndex'[q] = tailIndex[q]
      /\ asked'[u] = asked[u] + 1 /\ \A v \in Users \ {u} : asked'[v] = asked[v]
  BY <1>2, <1>4 DEF head_vars, index_vars, Typed, Shared, Put
<1>10. /\ asked[u] = t /\ InRange(u)
       /\ \A c \in Blocks \ {b} : elements'[c] = elements[c]
       /\ elements'[b][k] = <<u, t + 1>>
       /\ \A j : j # k => elements'[b][j] = elements[b][j]
  <2>1. asked[u] = t /\ InRange(u)
    BY <1>2, <1>3, <1>4 DEF RowOf, AskedOf, InRange
  <2>2. Write(b, k, <<u, t + 1>>)
    BY <1>4, <1>7, <1>8, <2>1
  <2>3. QED
    BY <2>1, <2>2, WriteEffect
<1>11. \A q \in Producers : /\ \A i \in Int : Pending(q, i)' <=> Pending(q, i)
                            /\ \A f \in Entries : KeyOf(q, f)' = KeyOf(q, f)
                                                  /\ ValueOf(q, f)' = ValueOf(q, f)
  BY <1>1, <1>9, PendingSame, UserQueueAssumption DEF KeyOf, ValueOf
<1>12. \A q \in Producers, f \in Entries :
         ValueOf(q, f) # Null /\ (q # p \/ f # e) => ValueOf(q, f) \in Blocks \ {b}
  <2> SUFFICES ASSUME NEW q \in Producers, NEW f \in Entries,
                      ValueOf(q, f) # Null, q # p \/ f # e
               PROVE  ValueOf(q, f) \in Blocks \ {b}
    OBVIOUS
  <2>1. ValueOf(q, f) \in Blocks
    BY OnePlace
  <2>2. ASSUME ValueOf(q, f) = b PROVE FALSE
    <3>1. ValueOf(p, e) # Null /\ ValueOf(q, f) = ValueOf(p, e)
      BY <1>7, <2>2
    <3>2. q = p /\ f = e
      BY <1>2, <3>1, OnePlace
    <3>3. QED
      BY <3>2
  <2>3. QED
    BY <2>1, <2>2
<1>13. ASSUME NEW q \in Producers \ {p} PROVE RowOf(q)'
  <2>1. \A f \in Entries : ValueOf(q, f) # Null =>
          /\ elementsCompletelyDequeued'[ValueOf(q, f)]
               = elementsCompletelyDequeued[ValueOf(q, f)]
          /\ elements'[ValueOf(q, f)] = elements[ValueOf(q, f)]
    BY <1>9, <1>10, <1>12
  <2>2. QED
    BY <1>1, <1>2, <1>9, <1>11, <2>1, OtherRow
<1>14. Entries' = Entries /\ (\A m : Slot(m)' = Slot(m)) /\ (\A m \in Int : Slot(m) \in Entries)
  BY <1>9, SlotFacts DEF Entries, Slot
<1>15. \A m \in Int : PendingIn(p, m)' = PendingIn(p, m)
  <2> SUFFICES ASSUME NEW m \in Int PROVE PendingIn(p, m)' = PendingIn(p, m)
    OBVIOUS
  <2>1. Places(m) \subseteq Int /\ Places(m)' = Places(m)
    BY PlacesFacts DEF Places
  <2>2. QED
    BY <1>2, <1>11, <2>1 DEF PendingIn
<1>16. \A f \in Entries : Num(p, f)' = Num(p, f) /\ Num(p, f) \in Nat
  BY <1>2, <1>11, IndexTypes DEF Num
<1>17. LastIn(p) = n /\ LastIn(p)' = n /\ Newest(p) = n /\ Newest(p)' = n
  <2>1. (t + 1) - 1 = t
    OBVIOUS
  <2>2. QED
    BY <1>2, <1>4, <1>5, <1>9, <2>1 DEF LastIn, Newest, Opening
<1>18. KeysOf(p)' /\ TailOf(p)' /\ AskedOf(p)'
  <2>1. TailOf(p)' /\ AskedOf(p)'
    BY <1>2, <1>3, <1>4, <1>9, <1>10, <1>14, <1>17 DEF RowOf, TailOf, AskedOf
  <2>2. KeysOf(p)'
    BY <1>2, <1>3, <1>11, <1>14, <1>16 DEF RowOf, KeysOf
  <2>3. QED
    BY <2>1, <2>2
<1>19. KeptOf(p)'
  <2> SUFFICES ASSUME NEW m \in 0 .. n, PendingIn(p, m) # {}
               PROVE  /\ KeyOf(p, Slot(m))' # INVALID_BLOCK_BASE /\ Num(p, Slot(m))' = m
                      /\ ValueOf(p, Slot(m))' # Null
    BY <1>15, <1>17 DEF KeptOf
  <2>1. PICK f \in Entries : f = Slot(m)
    BY <1>14
  <2>2. KeyOf(p, Slot(m))' = KeyOf(p, f)' /\ ValueOf(p, Slot(m))' = ValueOf(p, f)'
        /\ Num(p, Slot(m))' = Num(p, f)'
    BY <1>14, <2>1 DEF KeyOf, ValueOf, Num
  <2>3. KeyOf(p, f) # INVALID_BLOCK_BASE /\ Num(p, f) = m /\ ValueOf(p, f) # Null
    BY <1>3, <1>17, <2>1 DEF RowOf, KeptOf
  <2>4. QED
    BY <1>2, <1>11, <1>16, <2>2, <2>3
<1>20. CountOf(p)'
  <2>1. \A f \in Entries : PendingIn(p, Num(p, f))' = PendingIn(p, Num(p, f))
    <3> SUFFICES ASSUME NEW f \in Entries
                 PROVE  PendingIn(p, Num(p, f))' = PendingIn(p, Num(p, f))
      OBVIOUS
    <3>1. PICK m \in Nat : m = Num(p, f)
      BY <1>16
    <3>2. PendingIn(p, m)' = PendingIn(p, m) /\ Num(p, f)' = m
      BY <1>15, <1>16, <3>1
    <3>3. PendingIn(p, Num(p, f))' = PendingIn(p, m)'
      BY <3>2 DEF PendingIn, Places
    <3>4. QED
      BY <3>1, <3>2, <3>3
  <2>2. \A f \in Entries : ValueOf(p, f)' = ValueOf(p, f)
    BY <1>2, <1>11
  <2>3. QED
    BY <1>3, <1>9, <1>14, <2>1, <2>2 DEF RowOf, CountOf
<1>21. OpenOf(p)'
  <2>1. (t + 1) - 1 = t /\ t + 1 \in Int
    OBVIOUS
  <2>2. /\ KeyOf(p, Slot((tailIndex[p] - 1) \div BLK_SIZE))' = KeyOf(p, e)
        /\ KeyOf(p, e) # INVALID_BLOCK_BASE
    <3>1. KeyOf(p, Slot((tailIndex[p] - 1) \div BLK_SIZE))' = KeyOf(p, e)'
      BY <1>5, <1>6, <1>9, <1>14, <2>1 DEF KeyOf
    <3>2. KeyOf(p, e)' = KeyOf(p, e)
      BY <1>2, <1>11
    <3>3. KeyOf(p, e) # INVALID_BLOCK_BASE
      BY <1>3, <1>7 DEF RowOf, KeysOf
    <3>4. QED
      BY <3>1, <3>2, <3>3
  <2>3. (t + 1) % BLK_SIZE # 0 => (t + 1) \div BLK_SIZE = n
    <3>1. ((t + 1) - 1) \div BLK_SIZE = IF (t + 1) % BLK_SIZE = 0
                                        THEN ((t + 1) \div BLK_SIZE) - 1
                                        ELSE (t + 1) \div BLK_SIZE
      BY <2>1, BeforeDiv
    <3>2. QED
      BY <1>5, <2>1, <3>1
  <2>4. (t + 1) % BLK_SIZE # 0 =>
          ValueOf(p, Slot(tailIndex[p] \div BLK_SIZE))' = ValueOf(p, e)'
    BY <1>6, <1>9, <1>14, <2>3 DEF ValueOf
  <2>5. ValueOf(p, e)' = b
    BY <1>2, <1>7, <1>11
  <2>6. QED
    BY <1>2, <1>7, <1>9, <2>2, <2>4, <2>5 DEF OpenOf, Opening
<1>22. WrittenOf(p)'
  <2>0. /\ \A i \in Int : Pending(p, i)' <=> Pending(p, i)
        /\ tailIndex'[p] = t + 1 /\ producers'[p] = u
        /\ \A i \in 0 .. t : i \in Int
        /\ 0 .. (t + 1) - 1 = 0 .. t
    BY <1>2, <1>9, <1>11
  <2> SUFFICES ASSUME NEW i \in 0 .. t, Pending(p, i)
               PROVE  elements'[ValueOf(p, Slot(i \div BLK_SIZE))'][i % BLK_SIZE] = <<u, i + 1>>
    BY <2>0 DEF WrittenOf
  <2>1. KeptOf(p) /\ WrittenOf(p)
    BY <1>3 DEF RowOf
  <2>2. CASE i = t
    <3>1. ValueOf(p, Slot(i \div BLK_SIZE))' = ValueOf(p, e)'
      BY <1>5, <1>6, <1>14, <2>2 DEF ValueOf
    <3>2. ValueOf(p, e)' = b
      BY <1>2, <1>7, <1>11
    <3>3. QED
      BY <1>8, <1>10, <2>2, <3>1, <3>2
  <2>3. CASE i # t
    <3>1. i \in Nat /\ i < tailIndex[p] /\ i \in 0 .. tailIndex[p] - 1
      BY <1>4, <2>3
    <3>2. PICK f \in Entries : f = Slot(i \div BLK_SIZE) /\ ValueOf(p, f) \in Blocks
                               /\ Num(p, f) = i \div BLK_SIZE
      BY <1>2, <2>1, <3>1, PendingKept
    <3>3. ValueOf(p, Slot(i \div BLK_SIZE))' = ValueOf(p, f)'
      BY <1>14, <3>2 DEF ValueOf
    <3>4. ValueOf(p, f)' = ValueOf(p, f)
      BY <1>2, <1>11
    <3>5. elements[ValueOf(p, f)][i % BLK_SIZE] = <<u, i + 1>>
      BY <1>2, <2>1, <3>1, <3>2 DEF WrittenOf
    <3>6. CASE f # e
      <4>1. ValueOf(p, f) \in Blocks \ {b}
        BY <1>2, <1>12, <3>2, <3>6
      <4>2. QED
        BY <1>10, <3>3, <3>4, <3>5, <4>1
    <3>7. CASE f = e
      <4>1. Pending(p, t)
        BY <1>2, <1>4, RowTypes DEF Pending
      <4>2. Num(p, e) = n
        <5>1. t \div BLK_SIZE <= LastIn(p)
          BY <1>5, <1>17
        <5>2. Num(p, Slot(t \div BLK_SIZE)) = t \div BLK_SIZE
          BY <1>2, <1>4, <2>1, <4>1, <5>1, PendingKept
        <5>3. QED
          BY <1>5, <1>6, <5>2
      <4>3. i \div BLK_SIZE = t \div BLK_SIZE
        BY <1>5, <3>2, <3>7, <4>2
      <4>4. i % BLK_SIZE # t % BLK_SIZE
        BY <2>3, <3>1, <4>3, SamePlace
      <4>5. QED
        BY <1>7, <1>8, <1>10, <3>3, <3>4, <3>5, <3>7, <4>4
    <3>8. QED
      BY <3>6, <3>7
  <2>4. QED
    BY <2>2, <2>3
<1>23. ASSUME NEW v \in Users, ~InRange(v)' PROVE asked'[v] = 0
  <2>1. ~InRange(v) /\ v # u
    BY <1>9, <1>10, <1>23 DEF InRange
  <2>2. QED
    BY <1>9, <2>1 DEF Rows
<1>24. QED
  BY <1>13, <1>18, <1>19, <1>20, <1>21, <1>22, <1>23 DEF Rows, RowOf

LEMMA PendingFinite ==
  ASSUME NEW p, NEW m \in Int
  PROVE  /\ IsFiniteSet(PendingIn(p, m)) /\ Cardinality(PendingIn(p, m)) \in Nat
         /\ PendingIn(p, m) = {} <=> Cardinality(PendingIn(p, m)) = 0
<1>1. PendingIn(p, m) \in SUBSET Places(m)
  BY DEF PendingIn
<1>2. IsFiniteSet(PendingIn(p, m)) /\ Cardinality(PendingIn(p, m)) \in Nat
  BY <1>1, PlacesFacts, FS_Subset, FS_CardinalityType
<1>3. PendingIn(p, m) = {} <=> Cardinality(PendingIn(p, m)) = 0
  BY <1>2, FS_EmptySet
<1>4. QED
  BY <1>2, <1>3

(* A worker that is to empty a place, and one that is to give a block back.*)
LEMMA EmptyFacts ==
  ASSUME Typed, Counts, Rows, Hands, NEW w \in Workers, pc[w] = "empty", NEW p, p = my[w].p
  PROVE  /\ p \in Producers /\ my[w].index \in Nat /\ my[w].index < headIndex[p]
         /\ Pending(p, my[w].index) /\ my[w].slot = Slot(my[w].index \div BLK_SIZE)
         /\ my[w].slot \in Entries /\ my[w].block \in Blocks
         /\ ValueOf(p, my[w].slot) = my[w].block
         /\ Num(p, my[w].slot) = my[w].index \div BLK_SIZE
         /\ Num(p, my[w].slot) \in Nat
         /\ my[w].index \in PendingIn(p, Num(p, my[w].slot))
         /\ elementsCompletelyDequeued[my[w].block]
              + Cardinality(PendingIn(p, Num(p, my[w].slot))) = BLK_SIZE
         /\ elementsCompletelyDequeued[my[w].block] < BLK_SIZE
<1> USE NullIsNoUser, SizeOK
<1>1. p \in Producers
  BY WorkerSub DEF WithSub
<1>2. my[w].index \in Nat /\ my[w].slot \in Entries
  BY DEF Typed, Control, LocalOK, Located
<1>3. /\ my[w].index < headIndex[p] /\ my[w].slot = Slot(my[w].index \div BLK_SIZE)
      /\ my[w].block \in Blocks /\ ValueOf(p, my[w].slot) = my[w].block
  BY DEF Hands, HandOK, Handing, InWork, Found, ValueOf
<1>4. Pending(p, my[w].index)
  BY DEF Pending, Sub, InWork
<1>5. my[w].index < tailIndex[p]
  BY <1>1, <1>2, <1>3, RowTypes
<1>6. RowOf(p) /\ KeptOf(p) /\ CountOf(p)
  BY <1>1 DEF Rows, RowOf
<1>7. /\ Num(p, my[w].slot) = my[w].index \div BLK_SIZE
      /\ my[w].index \in PendingIn(p, Num(p, my[w].slot))
  BY <1>1, <1>2, <1>3, <1>4, <1>5, <1>6, PendingKept
<1>8. Num(p, my[w].slot) \in Nat
  BY <1>1, <1>2, IndexTypes
<1>9. elementsCompletelyDequeued[my[w].block]
        + Cardinality(PendingIn(p, Num(p, my[w].slot))) = BLK_SIZE
  BY <1>2, <1>3, <1>6 DEF CountOf
<1>10. elementsCompletelyDequeued[my[w].block] \in Nat
  BY <1>3 DEF Typed, Shared
<1>11. Cardinality(PendingIn(p, Num(p, my[w].slot))) \in Nat \ {0}
  BY <1>7, <1>8, PendingFinite
<1>12. elementsCompletelyDequeued[my[w].block] < BLK_SIZE
  BY <1>9, <1>10, <1>11
<1>13. QED
  BY <1>1, <1>2, <1>3, <1>4, <1>7, <1>8, <1>9, <1>12

LEMMA UnlinkFacts ==
  ASSUME Typed, Counts, Rows, Hands, NEW w \in Workers, pc[w] = "unlink", NEW p, p = my[w].p
  PROVE  /\ p \in Producers /\ my[w].slot \in Entries /\ my[w].block \in Blocks
         /\ ValueOf(p, my[w].slot) = my[w].block
         /\ elementsCompletelyDequeued[my[w].block] = BLK_SIZE
         /\ PendingIn(p, Num(p, my[w].slot)) = {}
<1> USE NullIsNoUser, SizeOK
<1>1. p \in Producers
  BY WorkerSub DEF WithSub
<1>2. my[w].slot \in Entries
  BY DEF Typed, Located
<1>3. /\ my[w].block \in Blocks /\ ValueOf(p, my[w].slot) = my[w].block
      /\ elementsCompletelyDequeued[my[w].block] = BLK_SIZE
  BY DEF Hands, HandOK, Found, ValueOf
<1>4. elementsCompletelyDequeued[my[w].block]
        + Cardinality(PendingIn(p, Num(p, my[w].slot))) = BLK_SIZE
  BY <1>1, <1>2, <1>3 DEF Rows, RowOf, CountOf
<1>5. Num(p, my[w].slot) \in Nat
  BY <1>1, <1>2, IndexTypes
<1>6. Cardinality(PendingIn(p, Num(p, my[w].slot))) \in Nat
  BY <1>5, PendingFinite
<1>7. Cardinality(PendingIn(p, Num(p, my[w].slot))) = 0
  BY <1>3, <1>4, <1>6
<1>8. QED
  BY <1>1, <1>2, <1>3, <1>5, <1>7, PendingFinite

(* The place that was emptied is no longer pending, every other one is.    *)
LEMMA PendingEmptied ==
  ASSUME Typed, Counts, Rows, Hands, NEW w \in Workers, NEW m, m \in {"unlink", "dequeued"},
         Step(w, "empty", m, my[w]), headIndex' = headIndex
  PROVE  \A q \in Producers, j \in Int :
           Pending(q, j)' <=> Pending(q, j) /\ (q # my[w].p \/ j # my[w].index)
<1> USE NullIsNoUser
<1>1. /\ pc[w] = "empty" /\ pc'[w] = m /\ my'[w] = my[w]
      /\ \A x \in Actors \ {w} : pc'[x] = pc[x] /\ my'[x] = my[x]
  BY StepEffect DEF Typed
<1>2. PICK p, i : p = my[w].p /\ i = my[w].index
  OBVIOUS
<1>3. p \in Producers /\ i \in Nat /\ i < headIndex[p] /\ headIndex[p] \in Nat
  BY <1>1, <1>2, EmptyFacts, RowTypes
<1>4. \A x \in Workers \ {w} : x \in Sub(p, InWork) => my[x].index # i
  BY <1>1, <1>2 DEF Hands, Apart, Sub, Handing, InWork
<1>5. /\ Sub(p, InWork)' = Sub(p, InWork) \ {w}
      /\ \A q \in Producers \ {p} : Sub(q, InWork)' = Sub(q, InWork)
      /\ \A q, x : x \in Sub(q, InWork)' => my'[x] = my[x]
      /\ \A q, x : x \in Sub(q, InWork) => x \in Workers
  BY <1>1, <1>2 DEF Sub, InWork
<1> SUFFICES ASSUME NEW q \in Producers, NEW j \in Int
             PROVE  Pending(q, j)' <=> Pending(q, j) /\ (q # p \/ j # i)
  BY <1>2
<1>6. CASE q # p
  BY <1>5, <1>6 DEF Pending
<1>7. CASE q = p
  <2>1. Pending(p, j)' <=> j >= headIndex[p] \/ \E x \in Sub(p, InWork) \ {w} : my[x].index = j
    BY <1>5 DEF Pending
  <2>2. Pending(p, j) <=> j >= headIndex[p] \/ \E x \in Sub(p, InWork) : my[x].index = j
    BY DEF Pending
  <2>3. j >= headIndex[p] => j # i
    BY <1>3
  <2>4. QED
    BY <1>2, <1>4, <1>5, <1>7, <2>1, <2>2, <2>3
<1>8. QED
  BY <1>6, <1>7

LEMMA SetEmptyRows ==
  ASSUME Typed, Counts, Rows, Hands, NEW o, Lists(o), NEW w \in Workers,
         NEW m, m \in {"unlink", "dequeued"}, Step(w, "empty", m, my[w]),
         elementsCompletelyDequeued' =
           Put(elementsCompletelyDequeued, my[w].block,
               elementsCompletelyDequeued[my[w].block] + 1),
         UNCHANGED <<setup, producers, tail_vars, index_vars, elements, headIndex, asked>>
  PROVE  Rows'
<1> USE NullIsNoUser, SizeOK
<1>1. /\ pc[w] = "empty" /\ pc'[w] = m /\ my'[w] = my[w]
      /\ \A x \in Actors \ {w} : pc'[x] = pc[x] /\ my'[x] = my[x]
  BY StepEffect DEF Typed
<1>2. PICK p, i, e, b : p = my[w].p /\ i = my[w].index /\ e = my[w].slot /\ b = my[w].block
  OBVIOUS
<1>3. /\ p \in Producers /\ i \in Nat /\ i < headIndex[p] /\ e \in Entries /\ b \in Blocks
      /\ e = Slot(i \div BLK_SIZE)
      /\ ValueOf(p, e) = b /\ Num(p, e) = i \div BLK_SIZE /\ Num(p, e) \in Nat
      /\ i \in PendingIn(p, Num(p, e))
      /\ elementsCompletelyDequeued[b] + Cardinality(PendingIn(p, Num(p, e))) = BLK_SIZE
  BY <1>1, <1>2, EmptyFacts
<1>4. /\ tailIndex' = tailIndex /\ tailBlock' = tailBlock
      /\ blockIndex' = blockIndex /\ blockIndexTail' = blockIndexTail
      /\ elementsCompletelyDequeued'[b] = elementsCompletelyDequeued[b] + 1
      /\ \A c \in Blocks \ {b} : elementsCompletelyDequeued'[c] = elementsCompletelyDequeued[c]
  BY <1>2, <1>3 DEF tail_vars, index_vars, Typed, Shared, Put
<1>5. \A q \in Producers, f \in Entries :
         KeyOf(q, f)' = KeyOf(q, f) /\ ValueOf(q, f)' = ValueOf(q, f)
  BY <1>4 DEF KeyOf, ValueOf
<1>6. \A q \in Producers, f \in Entries :
         ValueOf(q, f) # Null /\ (q # p \/ f # e) => ValueOf(q, f) \in Blocks \ {b}
  <2> SUFFICES ASSUME NEW q \in Producers, NEW f \in Entries,
                      ValueOf(q, f) # Null, q # p \/ f # e
               PROVE  ValueOf(q, f) \in Blocks \ {b}
    OBVIOUS
  <2>1. ValueOf(q, f) \in Blocks
    BY OnePlace
  <2>2. ASSUME ValueOf(q, f) = b PROVE FALSE
    <3>1. ValueOf(p, e) # Null /\ ValueOf(q, f) = ValueOf(p, e)
      BY <1>3, <2>2
    <3>2. q = p /\ f = e
      BY <1>3, <3>1, OnePlace
    <3>3. QED
      BY <3>2
  <2>3. QED
    BY <2>1, <2>2
<1>7. \A q \in Producers, j \in Int : Pending(q, j)' <=> Pending(q, j) /\ (q # p \/ j # i)
  BY <1>1, <1>2, PendingEmptied
<1>8. \A q \in Producers : /\ Phase(q)' = Phase(q) /\ OwnerPc(q)' = OwnerPc(q)
                           /\ OwnerPc(q) = "publish" => my'[producers[q]] = my[producers[q]]
                           /\ q \notin 1 .. Len(producers) \/ producers[q] # w
  <2>1. \A q \in Producers : q \notin 1 .. Len(producers) \/ producers[q] # w
    BY UserQueueAssumption DEF Typed, Known, HashTypes
  <2>2. QED
    BY <1>1, <2>1, OwnerOther
<1>9. ASSUME NEW q \in Producers \ {p} PROVE RowOf(q)'
  <2>1. \A f \in Entries : ValueOf(q, f) # Null =>
          /\ elementsCompletelyDequeued'[ValueOf(q, f)]
               = elementsCompletelyDequeued[ValueOf(q, f)]
          /\ elements'[ValueOf(q, f)] = elements[ValueOf(q, f)]
    BY <1>4, <1>6
  <2>2. \A j \in Int : Pending(q, j)' <=> Pending(q, j)
    BY <1>7
  <2>3. q \notin 1 .. Len(producers) \/ producers[q] # w
    BY <1>8
  <2>4. QED
    BY <1>1, <1>4, <1>5, <2>1, <2>2, <2>3, OtherRow
<1>10. RowOf(p)
  BY <1>3 DEF Rows
<1>11. Entries' = Entries /\ (\A k : Slot(k)' = Slot(k)) /\ (\A k \in Int : Slot(k) \in Entries)
  BY SlotFacts DEF Entries, Slot
<1>12. \A k \in Int : PendingIn(p, k)' = PendingIn(p, k) \ {i}
  <2> SUFFICES ASSUME NEW k \in Int PROVE PendingIn(p, k)' = PendingIn(p, k) \ {i}
    OBVIOUS
  <2>1. Places(k) \subseteq Int /\ Places(k)' = Places(k)
    BY PlacesFacts DEF Places
  <2>2. \A j \in Int : Pending(p, j)' <=> Pending(p, j) /\ j # i
    BY <1>3, <1>7
  <2>3. QED
    BY <2>1, <2>2 DEF PendingIn
<1>13. \A f \in Entries : Num(p, f)' = Num(p, f) /\ Num(p, f) \in Nat
  BY <1>3, <1>5, IndexTypes DEF Num
<1>14. LastIn(p)' = LastIn(p) /\ Newest(p)' = Newest(p)
  BY <1>3, <1>4, <1>8 DEF LastIn, Newest
<1>15. KeysOf(p)'
  BY <1>3, <1>5, <1>10, <1>11, <1>13 DEF RowOf, KeysOf
<1>16. TailOf(p)' /\ AskedOf(p)'
  BY <1>4, <1>10, <1>11, <1>14 DEF RowOf, TailOf, AskedOf
<1>17. OpenOf(p)'
  <2>1. OpenOf(p) /\ OwnerPc(p)' = OwnerPc(p)
        /\ (OwnerPc(p) = "publish" => my'[producers[p]] = my[producers[p]])
    BY <1>3, <1>8, <1>10 DEF RowOf
  <2>2. QED
    BY <1>4, <1>11, <2>1 DEF OpenOf, KeyOf, ValueOf
<1>18. KeptOf(p)'
  <2> SUFFICES ASSUME NEW k \in 0 .. LastIn(p), PendingIn(p, k) # {}
               PROVE  /\ KeyOf(p, Slot(k))' # INVALID_BLOCK_BASE /\ Num(p, Slot(k))' = k
                      /\ ValueOf(p, Slot(k))' # Null
    BY <1>12, <1>14 DEF KeptOf
  <2>1. PICK f \in Entries : f = Slot(k)
    BY <1>11
  <2>2. KeyOf(p, Slot(k))' = KeyOf(p, f)' /\ ValueOf(p, Slot(k))' = ValueOf(p, f)'
        /\ Num(p, Slot(k))' = Num(p, f)'
    BY <1>11, <2>1 DEF KeyOf, ValueOf, Num
  <2>3. KeyOf(p, f) # INVALID_BLOCK_BASE /\ Num(p, f) = k /\ ValueOf(p, f) # Null
    BY <1>10, <2>1 DEF RowOf, KeptOf
  <2>4. QED
    BY <1>3, <1>5, <1>13, <2>2, <2>3
<1>19. CountOf(p)'
  <2> SUFFICES ASSUME NEW f \in Entries, ValueOf(p, f) # Null
               PROVE  elementsCompletelyDequeued'[ValueOf(p, f)]
                        + Cardinality(PendingIn(p, Num(p, f))') = BLK_SIZE
    BY <1>3, <1>5, <1>11 DEF CountOf
  <2>1. PICK k \in Nat : k = Num(p, f)
    BY <1>13
  <2>2. PendingIn(p, Num(p, f))' = PendingIn(p, k) \ {i}
    <3>1. PendingIn(p, Num(p, f))' = PendingIn(p, k)'
      BY <1>13, <2>1 DEF PendingIn, Places
    <3>2. QED
      BY <1>12, <3>1
  <2>3. IsFiniteSet(PendingIn(p, k))
    BY PendingFinite
  <2>4. CASE f = e
    <3>1. Cardinality(PendingIn(p, k) \ {i}) = Cardinality(PendingIn(p, k)) - 1
      BY <1>3, <2>1, <2>3, <2>4, FS_RemoveElement
    <3>2. Cardinality(PendingIn(p, k)) \in Nat /\ elementsCompletelyDequeued[b] \in Nat
      BY <1>3, PendingFinite DEF Typed, Shared
    <3>3. QED
      BY <1>3, <1>4, <2>1, <2>2, <2>4, <3>1, <3>2
  <2>5. CASE f # e
    <3>1. ValueOf(p, f) \in Blocks \ {b}
      BY <1>3, <1>6, <2>5
    <3>2. elementsCompletelyDequeued[ValueOf(p, f)] + Cardinality(PendingIn(p, k)) = BLK_SIZE
      BY <1>10, <2>1 DEF RowOf, CountOf
    <3>3. i \notin PendingIn(p, k)
      <4>1. SUFFICES ASSUME i \in PendingIn(p, k) PROVE FALSE
        OBVIOUS
      <4>2. i \div BLK_SIZE = k
        BY <1>3, <4>1, PlacesFacts DEF PendingIn
      <4>3. Slot(Num(p, f)) = f
        BY <1>10 DEF RowOf, KeysOf
      <4>4. QED
        BY <1>3, <2>1, <2>5, <4>2, <4>3
    <3>4. PendingIn(p, k) \ {i} = PendingIn(p, k)
      BY <3>3
    <3>5. QED
      BY <1>4, <2>2, <3>1, <3>2, <3>4
  <2>6. QED
    BY <2>4, <2>5
<1>20. WrittenOf(p)'
  <2>0. /\ \A j \in Int : Pending(p, j)' => Pending(p, j)
        /\ tailIndex' = tailIndex /\ producers' = producers /\ elements' = elements
        /\ blockIndex' = blockIndex
        /\ \A j \in 0 .. tailIndex[p] - 1 : j \in Int
    BY <1>3, <1>4, <1>7
  <2>1. WrittenOf(p)
    BY <1>10 DEF RowOf
  <2>2. \A k : ValueOf(p, Slot(k))' = ValueOf(p, Slot(k))
    BY <1>11, <2>0 DEF ValueOf
  <2>3. QED
    BY <2>0, <2>1, <2>2 DEF WrittenOf
<1>21. \A v \in Users : ~InRange(v)' => asked'[v] = 0
  BY DEF Rows, InRange
<1>22. QED
  BY <1>9, <1>15, <1>16, <1>17, <1>18, <1>19, <1>20, <1>21 DEF Rows, RowOf

LEMMA UnlinkRows ==
  ASSUME Typed, Counts, Rows, Hands, NEW w \in Workers,
         Step(w, "unlink", "dequeued", my[w]),
         SetValue(my[w].p, my[w].slot, Null),
         UNCHANGED <<setup, producers, tail_vars, blockIndexTail, block_vars, headIndex, asked>>
  PROVE  Rows'
<1> USE NullIsNoUser, SizeOK
<1>1. /\ pc[w] = "unlink" /\ pc'[w] = "dequeued" /\ my'[w] = my[w]
      /\ \A x \in Actors \ {w} : pc'[x] = pc[x] /\ my'[x] = my[x]
  BY StepEffect DEF Typed
<1>2. PICK p, e : p = my[w].p /\ e = my[w].slot
  OBVIOUS
<1>3. p \in Producers /\ e \in Entries /\ PendingIn(p, Num(p, e)) = {}
  BY <1>1, <1>2, UnlinkFacts
<1>4. /\ tailIndex' = tailIndex /\ tailBlock' = tailBlock
      /\ blockIndexTail' = blockIndexTail /\ elements' = elements
      /\ elementsCompletelyDequeued' = elementsCompletelyDequeued
  BY DEF tail_vars, block_vars
<1>5. \A q \in Producers, f \in Entries :
         /\ KeyOf(q, f)' = KeyOf(q, f)
         /\ ValueOf(q, f)' = IF q = p /\ f = e THEN Null ELSE ValueOf(q, f)
  BY <1>2, <1>3, IndexValue DEF KeyOf, ValueOf
<1>7. \A q \in Producers : \A j \in Int : Pending(q, j)' <=> Pending(q, j)
  <2>1. w \notin UNION {Sub(q, InWork) : q \in Producers}
        /\ \A q \in Producers : w \notin Sub(q, InWork) /\ w \notin Sub(q, InWork)'
    BY <1>1 DEF Sub, InWork
  <2>2. QED
    BY <1>1, <2>1, PendingSame
<1>8. \A q \in Producers : /\ Phase(q)' = Phase(q) /\ OwnerPc(q)' = OwnerPc(q)
                           /\ OwnerPc(q) = "publish" => my'[producers[q]] = my[producers[q]]
                           /\ q \notin 1 .. Len(producers) \/ producers[q] # w
  <2>1. \A q \in Producers : q \notin 1 .. Len(producers) \/ producers[q] # w
    BY UserQueueAssumption DEF Typed, Known, HashTypes
  <2>2. QED
    BY <1>1, <2>1, OwnerOther
<1>9. ASSUME NEW q \in Producers \ {p} PROVE RowOf(q)'
  <2>1. \A f \in Entries : KeyOf(q, f)' = KeyOf(q, f) /\ ValueOf(q, f)' = ValueOf(q, f)
    BY <1>5
  <2>3. q \notin 1 .. Len(producers) \/ producers[q] # w
    BY <1>8
  <2>4. QED
    BY <1>1, <1>4, <1>7, <2>1, <2>3, OtherRow
<1>10. RowOf(p) /\ KeptOf(p)
  BY <1>3 DEF Rows, RowOf
<1>11. Entries' = Entries /\ (\A k : Slot(k)' = Slot(k)) /\ (\A k \in Int : Slot(k) \in Entries)
  BY SlotFacts DEF Entries, Slot
<1>12. \A k \in Int : PendingIn(p, k)' = PendingIn(p, k)
  <2> SUFFICES ASSUME NEW k \in Int PROVE PendingIn(p, k)' = PendingIn(p, k)
    OBVIOUS
  <2>1. Places(k) \subseteq Int /\ Places(k)' = Places(k)
    BY PlacesFacts DEF Places
  <2>2. QED
    BY <1>3, <1>7, <2>1 DEF PendingIn
<1>13. \A f \in Entries : Num(p, f)' = Num(p, f) /\ Num(p, f) \in Nat
  BY <1>3, <1>5, IndexTypes DEF Num
<1>14. LastIn(p)' = LastIn(p) /\ Newest(p)' = Newest(p)
  BY <1>3, <1>4, <1>8 DEF LastIn, Newest
<1>15. KeysOf(p)'
  BY <1>3, <1>5, <1>10, <1>11, <1>13 DEF RowOf, KeysOf
<1>16. TailOf(p)' /\ AskedOf(p)'
  BY <1>4, <1>10, <1>11, <1>14 DEF RowOf, TailOf, AskedOf
<1>17. OpenOf(p)'
  <2>1. OpenOf(p) /\ OwnerPc(p)' = OwnerPc(p)
        /\ (OwnerPc(p) = "publish" => my'[producers[p]] = my[producers[p]])
    BY <1>3, <1>8, <1>10 DEF RowOf
  <2>2. PICK t \in Nat : t = tailIndex[p]
    BY <1>3, RowTypes
  <2>3. PICK f \in Entries, g \in Entries :
          f = Slot((t - 1) \div BLK_SIZE) /\ g = Slot(t \div BLK_SIZE)
    BY <1>3, <1>11, <2>2, RowTypes
  <2>4. /\ KeyOf(p, Slot((tailIndex[p] - 1) \div BLK_SIZE))' = KeyOf(p, f)
        /\ KeyOf(p, Slot(tailIndex[p] \div BLK_SIZE))' = KeyOf(p, g)
        /\ ValueOf(p, Slot(tailIndex[p] \div BLK_SIZE))' = ValueOf(p, g)'
    <3>1. /\ KeyOf(p, Slot((tailIndex[p] - 1) \div BLK_SIZE))' = KeyOf(p, f)'
          /\ KeyOf(p, Slot(tailIndex[p] \div BLK_SIZE))' = KeyOf(p, g)'
          /\ ValueOf(p, Slot(tailIndex[p] \div BLK_SIZE))' = ValueOf(p, g)'
      BY <1>4, <1>11, <2>2, <2>3 DEF KeyOf, ValueOf
    <3>2. QED
      BY <1>3, <1>5, <3>1
  <2>5. ASSUME OwnerPc(p) = "publish" \/ t % BLK_SIZE # 0 PROVE g # e
    <3>1. t \div BLK_SIZE <= LastIn(p)
      <4>1. CASE OwnerPc(p) = "publish"
        BY <1>3, <2>2, <4>1, RowTypes DEF LastIn
      <4>2. CASE t % BLK_SIZE # 0
        <5>0. t \in Int
          BY <2>2
        <5>1. (t - 1) \div BLK_SIZE = t \div BLK_SIZE
          BY <2>2, <4>2, <5>0, WithinBlock, Zenon
        <5>2. QED
          BY <1>3, <2>2, <5>1, RowTypes
      <4>3. QED
        BY <2>5, <4>1, <4>2
    <3>2. Pending(p, t)
      BY <1>3, <2>2, RowTypes DEF Pending
    <3>3. t \in PendingIn(p, t \div BLK_SIZE) /\ Num(p, g) = t \div BLK_SIZE
      BY <1>3, <1>10, <2>2, <2>3, <3>1, <3>2, PendingKept
    <3>4. QED
      BY <1>3, <3>3
  <2>6. g # e => ValueOf(p, g)' = ValueOf(p, g)
    BY <1>3, <1>5
  <2>7. ValueOf(p, g) = Null => ValueOf(p, g)' = Null
    BY <1>3, <1>5
  <2>8. QED
    BY <1>4, <2>1, <2>2, <2>3, <2>4, <2>5, <2>6, <2>7 DEF OpenOf
<1>18. KeptOf(p)'
  <2> SUFFICES ASSUME NEW k \in 0 .. LastIn(p), PendingIn(p, k) # {}
               PROVE  /\ KeyOf(p, Slot(k))' # INVALID_BLOCK_BASE /\ Num(p, Slot(k))' = k
                      /\ ValueOf(p, Slot(k))' # Null
    BY <1>12, <1>14 DEF KeptOf
  <2>1. PICK f \in Entries : f = Slot(k)
    BY <1>11
  <2>2. KeyOf(p, Slot(k))' = KeyOf(p, f)' /\ ValueOf(p, Slot(k))' = ValueOf(p, f)'
        /\ Num(p, Slot(k))' = Num(p, f)'
    BY <1>11, <2>1 DEF KeyOf, ValueOf, Num
  <2>3. KeyOf(p, f) # INVALID_BLOCK_BASE /\ Num(p, f) = k /\ ValueOf(p, f) # Null
    BY <1>10, <2>1 DEF KeptOf
  <2>4. f # e
    BY <1>3, <2>3
  <2>5. QED
    BY <1>3, <1>5, <1>13, <2>2, <2>3, <2>4
<1>19. CountOf(p)'
  <2> SUFFICES ASSUME NEW f \in Entries, ValueOf(p, f) # Null, f # e
               PROVE  elementsCompletelyDequeued[ValueOf(p, f)]
                        + Cardinality(PendingIn(p, Num(p, f))') = BLK_SIZE
    BY <1>3, <1>4, <1>5, <1>11 DEF CountOf
  <2>1. PICK k \in Nat : k = Num(p, f)
    BY <1>13
  <2>2. PendingIn(p, Num(p, f))' = PendingIn(p, k)
    <3>1. PendingIn(p, Num(p, f))' = PendingIn(p, k)'
      BY <1>13, <2>1 DEF PendingIn, Places
    <3>2. QED
      BY <1>12, <3>1
  <2>3. QED
    BY <1>10, <2>1, <2>2 DEF RowOf, CountOf
<1>20. WrittenOf(p)'
  <2>0. /\ \A j \in Int : Pending(p, j)' => Pending(p, j)
        /\ tailIndex' = tailIndex /\ producers' = producers /\ elements' = elements
        /\ tailIndex[p] \in Nat
        /\ \A j \in 0 .. tailIndex[p] - 1 : j \in Int
    BY <1>3, <1>4, <1>7, RowTypes
  <2>1. WrittenOf(p)
    BY <1>10 DEF RowOf
  <2>2. ASSUME NEW j \in 0 .. tailIndex[p] - 1, Pending(p, j)
        PROVE  ValueOf(p, Slot(j \div BLK_SIZE))' = ValueOf(p, Slot(j \div BLK_SIZE))
    <3>1. j \in Nat /\ j < tailIndex[p]
      BY <2>0
    <3>2. PICK f \in Entries : f = Slot(j \div BLK_SIZE) /\ Num(p, f) = j \div BLK_SIZE
                               /\ j \in PendingIn(p, j \div BLK_SIZE)
      BY <1>3, <1>10, <2>2, <3>1, PendingKept
    <3>3. f # e
      BY <1>3, <3>2
    <3>4. ValueOf(p, Slot(j \div BLK_SIZE))' = ValueOf(p, f)'
      BY <1>11, <3>2 DEF ValueOf
    <3>5. QED
      BY <1>3, <1>5, <3>2, <3>3, <3>4
  <2>3. QED
    BY <2>0, <2>1, <2>2 DEF WrittenOf
<1>21. \A v \in Users : ~InRange(v)' => asked'[v] = 0
  BY DEF Rows, InRange
<1>22. QED
  BY <1>9, <1>15, <1>16, <1>17, <1>18, <1>19, <1>20, <1>21 DEF Rows, RowOf

LEMMA QuietUserRows ==
  ASSUME Typed, Counts, Rows, NEW u \in Users, NEW l, NEW m, NEW r, Step(u, l, m, r),
         PhaseAt(m) = PhaseAt(l), m # "publish",
         UNCHANGED <<setup, producers, tail_vars, index_vars, elements,
                     elementsCompletelyDequeued, head_vars, asked>>
  PROVE  Rows'
<1> USE NullIsNoUser
<1>1. /\ pc[u] = l /\ pc'[u] = m
      /\ \A x \in Actors \ {u} : pc'[x] = pc[x] /\ my'[x] = my[x]
  BY StepEffect DEF Typed
<1>2. headIndex' = headIndex /\ \A x \in Workers : pc'[x] = pc[x] /\ my'[x] = my[x]
  BY <1>1, UserQueueAssumption DEF head_vars
<1>3. \A p \in Producers, i \in Int : Pending(p, i)' <=> Pending(p, i)
  BY <1>2, PendingSame
<1>4. QED
  BY <1>1, <1>3, QuietRows

LEMMA UserRows ==
  ASSUME Typed, Counts, Rows, NEW o, Lists(o), NEW u \in Users, setup' = setup,
         \/ Ask(u) \/ CheckSize(u) \/ (LoadTail(u) /\ Unused)
         \/ GetProducer(u) /\ UNCHANGED asked
         \/ /\ EnqueueStep(u, <<u, asked[u] + 1>>, "ask")
            /\ asked' = IF pc[u] = "publish" THEN Put(asked, u, asked[u] + 1) ELSE asked
  PROVE  Rows'
<1> USE NullIsNoUser
<1>1. CASE Ask(u) \/ CheckSize(u) \/ (LoadTail(u) /\ Unused)
  <2>1. PICK l, m, r : /\ Step(u, l, m, r)
                       /\ l \in {"ask", "head", "tail"} /\ m \in {"hash", "tail", "head", "ask"}
    BY <1>1 DEF Ask, CheckSize, LoadTail
  <2>2. PhaseAt(m) = PhaseAt(l) /\ m # "publish"
    BY <2>1 DEF PhaseAt, Opening
  <2>3. UNCHANGED <<producers, tail_vars, index_vars, elements, elementsCompletelyDequeued,
                    head_vars, asked>>
    BY <1>1 DEF Ask, CheckSize, Unused, hash_vars, block_vars
  <2>4. QED
    BY <2>1, <2>2, <2>3, QuietUserRows
<1>2. CASE GetProducer(u) /\ UNCHANGED asked
  <2>1. CASE Fits(u)
    BY <1>2, <2>1, NewRow DEF GetProducer
  <2>2. CASE ~Fits(u)
    <3>1. PICK l, m, r : /\ Step(u, l, m, r)
                         /\ l \in {"hash", "find", "room", "resize", "unlock", "slot"}
                         /\ m \in {"find", "enqueue", "slot", "room", "resize", "fits", "unlock"}
      BY <1>2, <2>2 DEF GetProducer, LoadHash, Find, Room, Resize, Unlock, Enter
    <3>2. PhaseAt(m) = PhaseAt(l) /\ m # "publish"
      BY <3>1 DEF PhaseAt, Opening
    <3>3. UNCHANGED <<producers, tail_vars, index_vars, elements, elementsCompletelyDequeued,
                      head_vars, asked>>
      BY <1>2, <2>2 DEF GetProducer, Find, Room, Resize, Unlock, Enter, hash_vars, block_vars
    <3>4. QED
      BY <3>1, <3>2, <3>3, QuietUserRows
  <2>3. QED
    BY <2>1, <2>2
<1>3. CASE /\ EnqueueStep(u, <<u, asked[u] + 1>>, "ask")
           /\ asked' = IF pc[u] = "publish" THEN Put(asked, u, asked[u] + 1) ELSE asked
  <2>0. UNCHANGED <<setup, producers, head_vars>>
    BY <1>3 DEF EnqueueStep, hash_vars
  <2> PICK p : p = my[u].p
    OBVIOUS
  <2>1. CASE Publish(u, <<u, asked[u] + 1>>, "ask")
    <3>1. pc[u] = "publish"
      BY <2>1 DEF Publish, Step
    <3>2. /\ asked' = Put(asked, u, asked[u] + 1)
          /\ tailIndex' = Put(tailIndex, p, tailIndex[p] + 1)
          /\ Write(my[u].block, tailIndex[p] % BLK_SIZE, <<u, asked[u] + 1>>)
          /\ Step(u, "publish", "ask", Locals)
          /\ UNCHANGED <<tailBlock, index_vars, elementsCompletelyDequeued>>
      BY <1>3, <2>1, <3>1 DEF Publish, Write, p_of
    <3>3. QED
      BY <2>0, <3>2, PublishRows
  <2>2. CASE ~Publish(u, <<u, asked[u] + 1>>, "ask")
    <3>0. /\ Enqueue(u) \/ InsertEntry(u) \/ LoadPool(u) \/ ClaimPool(u) \/ FromList(u) \/ Fresh(u)
          /\ UNCHANGED asked
      <4>1. Enqueue(u) \/ InsertEntry(u) \/ LoadPool(u) \/ ClaimPool(u) \/ FromList(u) \/ Fresh(u)
        BY <1>3, <2>2 DEF EnqueueStep
      <4>2. pc[u] # "publish"
        BY <4>1 DEF Enqueue, InsertEntry, LoadPool, ClaimPool, FromList, Fresh, Step
      <4>3. QED
        BY <1>3, <4>1, <4>2
    <3>1. CASE Enqueue(u)
      <4>0. UNCHANGED <<tail_vars, blockIndexTail, block_vars>>
        BY <3>1 DEF Enqueue
      <4>1. CASE tailIndex[p] % BLK_SIZE # 0
        <5>1. my[u].block \in BlockOrNull /\ DOMAIN my[u] = LocalNames
          BY DEF Typed, Control, LocalOK
        <5>2. PICK r : r = [my[u] EXCEPT !.block = tailBlock[p]]
          OBVIOUS
        <5>3. r.block = tailBlock[p]
          BY <5>1, <5>2 DEF LocalNames
        <5>4. Step(u, "enqueue", "publish", r) /\ UNCHANGED blockIndex
          BY <3>1, <4>1, <5>2 DEF Enqueue, p_of
        <5>5. UNCHANGED index_vars
          BY <4>0, <5>4 DEF index_vars
        <5>6. QED
          BY <2>0, <3>0, <4>0, <4>1, <5>3, <5>4, <5>5, IntoBlockRows
      <4>2. CASE tailIndex[p] % BLK_SIZE = 0 /\ pc'[u] # "failed"
        <5>1. Step(u, "enqueue", "entry", my[u]) \/ Step(u, "enqueue", "failed", my[u])
          BY <3>1, <4>2 DEF Enqueue, p_of
        <5>2. ~Step(u, "enqueue", "failed", my[u])
          BY <4>2, StepEffect DEF Typed
        <5>3. /\ Step(u, "enqueue", "entry", my[u])
              /\ SetKey(p, NextEntry(p), tailIndex[p])
              /\ \/ KeyOf(p, NextEntry(p)) = INVALID_BLOCK_BASE
                 \/ ValueOf(p, NextEntry(p)) = Null
          BY <3>1, <4>2, <5>2 DEF Enqueue, p_of, SetKey, KeyOf, ValueOf
        <5>4. QED
          BY <2>0, <3>0, <4>0, <4>2, <5>3, NewEntryRows
      <4>3. CASE tailIndex[p] % BLK_SIZE = 0 /\ pc'[u] = "failed"
        <5>1. ~Step(u, "enqueue", "entry", my[u])
          BY <4>3, StepEffect DEF Typed
        <5>2. Step(u, "enqueue", "failed", my[u]) /\ UNCHANGED blockIndex
          BY <3>1, <4>3, <5>1 DEF Enqueue, p_of
        <5>3. PhaseAt("failed") = PhaseAt("enqueue")
          BY DEF PhaseAt, Opening
        <5>4. UNCHANGED <<index_vars, elements, elementsCompletelyDequeued>>
          BY <4>0, <5>2 DEF index_vars, block_vars
        <5>5. QED
          BY <2>0, <3>0, <4>0, <5>2, <5>3, <5>4, QuietUserRows
      <4>4. QED
        BY <4>1, <4>2, <4>3
    <3>2. CASE InsertEntry(u)
      <4>1. /\ Step(u, "entry", "pool", my[u])
            /\ blockIndexTail' = Put(blockIndexTail, p, NextEntry(p))
            /\ UNCHANGED <<tail_vars, blockIndex, block_vars>>
        BY <3>2 DEF InsertEntry, p_of
      <4>2. QED
        BY <2>0, <3>0, <4>1, InsertEntryRows
    <3>3. CASE LoadPool(u) \/ ClaimPool(u)
      <4>1. PICK l, m, r : /\ Step(u, l, m, r)
                           /\ l \in {"pool", "claim"} /\ m \in {"claim", "list", "fresh"}
        BY <3>3 DEF LoadPool, ClaimPool
      <4>2. PhaseAt(m) = PhaseAt(l) /\ m # "publish"
        BY <4>1 DEF PhaseAt, Opening
      <4>3. UNCHANGED <<tail_vars, index_vars, elements, elementsCompletelyDequeued>>
        BY <3>3 DEF LoadPool, ClaimPool, block_vars
      <4>4. QED
        BY <2>0, <3>0, <4>1, <4>2, <4>3, QuietUserRows
    <3>4. CASE FromList(u)
      <4>0. UNCHANGED <<tail_vars, block_vars>>
        BY <3>4 DEF FromList
      <4>1. CASE Gotten(u) # Null
        <5>1. PICK r : Step(u, "list", "fresh", r)
          BY <3>4, <4>1 DEF FromList
        <5>2. UNCHANGED index_vars
          BY <3>4, <4>1 DEF FromList
        <5>3. PhaseAt("fresh") = PhaseAt("list")
          BY DEF PhaseAt, Opening
        <5>4. UNCHANGED <<elements, elementsCompletelyDequeued>>
          BY <4>0 DEF block_vars
        <5>5. QED
          BY <2>0, <3>0, <4>0, <5>1, <5>2, <5>3, <5>4, QuietUserRows
      <4>2. CASE Gotten(u) = Null
        <5>1. /\ Step(u, "list", "failed", my[u])
              /\ SetValue(p, blockIndexTail[p], Null)
              /\ blockIndexTail' =
                   Put(blockIndexTail, p, (blockIndexTail[p] - 1) % setup.entries)
          BY <3>4, <4>2 DEF FromList, p_of, SetValue
        <5>2. QED
          BY <2>0, <3>0, <4>0, <5>1, RewindRows
      <4>3. QED
        BY <4>1, <4>2
    <3>5. CASE Fresh(u)
      <4> PICK b : b = my[u].block
        OBVIOUS
      <4>1. /\ Step(u, "fresh", "publish", my[u])
            /\ SetValue(p, blockIndexTail[p], b)
            /\ elementsCompletelyDequeued' = Put(elementsCompletelyDequeued, b, 0)
            /\ tailBlock' = Put(tailBlock, p, b)
            /\ UNCHANGED <<tailIndex, blockIndexTail, elements>>
        BY <3>5 DEF Fresh, p_of, SetValue
      <4>2. QED
        BY <2>0, <3>0, <4>1, FreshRows
    <3>6. QED
      BY <3>0, <3>1, <3>2, <3>3, <3>4, <3>5
  <2>3. QED
    BY <2>1, <2>2
<1>4. QED
  BY <1>1, <1>2, <1>3

LEMMA QuietWorkerRows ==
  ASSUME Typed, Counts, Rows, NEW w \in Workers, NEW l, NEW m, NEW r, Step(w, l, m, r),
         m \in WorkerPlaces,
         \/ l \notin InWork /\ m \notin InWork
         \/ l \in InWork /\ m \in InWork /\ r.p = my[w].p /\ r.index = my[w].index,
         UNCHANGED <<setup, producers, tail_vars, index_vars, elements,
                     elementsCompletelyDequeued, headIndex, asked>>
  PROVE  Rows'
<1> USE NullIsNoUser
<1>1. /\ pc[w] = l /\ pc'[w] = m /\ my'[w] = r
      /\ \A x \in Actors \ {w} : pc'[x] = pc[x] /\ my'[x] = my[x]
  BY StepEffect DEF Typed
<1>2. ASSUME NEW p \in Producers
      PROVE  \A i \in Int : Pending(p, i)' <=> Pending(p, i)
  <2>1. \A x \in Workers :
           \/ pc'[x] = pc[x] /\ my'[x] = my[x]
           \/ x \notin Sub(p, InWork) /\ x \notin Sub(p, InWork)'
           \/ /\ pc[x] \in InWork /\ pc'[x] \in InWork
              /\ my'[x].p = my[x].p /\ my'[x].index = my[x].index
    BY <1>1 DEF Sub
  <2>2. QED
    BY <2>1, PendingSame
<1>3. PhaseAt(l) = PhaseAt(m) /\ m # "publish"
  <2>1. l \in WorkerPlaces
    BY <1>1 DEF Typed, Control
  <2>2. QED
    BY <2>1 DEF WorkerPlaces, WithSub, PhaseAt, Opening
<1>4. QED
  BY <1>1, <1>2, <1>3, QuietRows

LEMMA AdvanceRows ==
  ASSUME Typed, Counts, Rows, NEW w \in Workers, Advance(w),
         UNCHANGED <<setup, hash_vars, tail_vars, blockIndexTail, asked>>
  PROVE  Rows'
<1> USE NullIsNoUser
<1>0. PICK p : p = my[w].p
  OBVIOUS
<1> DEFINE r == [my[w] EXCEPT !.index = headIndex[p]]
<1>1. r.p = my[w].p /\ r.index = headIndex[p]
  BY DEF Typed, Control, LocalOK, LocalNames
<1>2. Step(w, "advance", "lookup", r) /\ headIndex' = Put(headIndex, p, headIndex[p] + 1)
      /\ UNCHANGED <<blockIndex, block_vars>>
  BY <1>0 DEF Advance, p_of
<1> HIDE DEF r
<1>3. /\ pc[w] = "advance" /\ pc'[w] = "lookup" /\ my'[w] = r
      /\ \A x \in Actors \ {w} : pc'[x] = pc[x] /\ my'[x] = my[x]
  BY <1>2, StepEffect DEF Typed
<1>4. p \in Producers /\ headIndex[p] \in Nat
  BY <1>0, <1>3, WorkerSub, RowTypes DEF WithSub
<1>5. headIndex'[p] = headIndex[p] + 1
      /\ \A q \in Producers \ {p} : headIndex'[q] = headIndex[q]
  BY <1>2, <1>4 DEF Put, Typed, Shared
<1>6. /\ Sub(p, InWork)' = Sub(p, InWork) \cup {w}
      /\ \A q \in Producers \ {p} : Sub(q, InWork)' = Sub(q, InWork)
      /\ \A q \in Producers : \A x \in Sub(q, InWork) : my'[x] = my[x]
  BY <1>0, <1>1, <1>3 DEF Sub, InWork
<1>7. ASSUME NEW q \in Producers, NEW i \in Int
      PROVE  Pending(q, i)' <=> Pending(q, i)
  <2>1. CASE q # p
    BY <1>5, <1>6, <2>1 DEF Pending
  <2>2. CASE q = p
    <3>1. my'[w].index = headIndex[p]
      BY <1>1, <1>3
    <3>2. i >= headIndex[p] <=> i >= headIndex[p] + 1 \/ i = headIndex[p]
      BY <1>4
    <3>3. QED
      BY <1>5, <1>6, <2>2, <3>1, <3>2 DEF Pending
  <2>3. QED
    BY <2>1, <2>2
<1>8. PhaseAt(pc'[w]) = PhaseAt(pc[w]) /\ pc'[w] # "publish"
  BY <1>3 DEF PhaseAt, Opening
<1>9. UNCHANGED <<producers, index_vars, elements, elementsCompletelyDequeued>>
  BY <1>2 DEF hash_vars, index_vars, block_vars
<1>10. QED
  BY <1>3, <1>7, <1>8, <1>9, QuietRows

LEMMA WorkerRows ==
  ASSUME Typed, Counts, Rows, Hands, NEW o, Lists(o), NEW w \in Workers, setup' = setup,
         \/ (LoadTail(w) /\ Unused) \/ Poll(w) \/ Score(w) \/ NextSub(w) \/ Serve(w)
         \/ DequeueStep(w) /\ UNCHANGED asked
  PROVE  Rows'
<1> USE NullIsNoUser
<1>1. CASE Advance(w) /\ DequeueStep(w) /\ UNCHANGED asked
  BY <1>1, AdvanceRows DEF DequeueStep
<1>2. CASE SetEmpty(w) /\ DequeueStep(w) /\ UNCHANGED asked
  <2> DEFINE m == IF elementsCompletelyDequeued[my[w].block] = BLK_SIZE - 1 THEN "unlink"
                  ELSE "dequeued"
  <2>1. Step(w, "empty", m, my[w]) /\ m \in {"unlink", "dequeued"}
    BY <1>2 DEF SetEmpty
  <2> HIDE DEF m
  <2>2. /\ elementsCompletelyDequeued' =
             Put(elementsCompletelyDequeued, my[w].block,
                 elementsCompletelyDequeued[my[w].block] + 1)
        /\ UNCHANGED <<producers, tail_vars, index_vars, elements, headIndex, asked>>
    BY <1>2 DEF SetEmpty, DequeueStep, hash_vars, index_vars, head_vars
  <2>3. QED
    BY <2>1, <2>2, SetEmptyRows
<1>3. CASE Unlink(w) /\ DequeueStep(w) /\ UNCHANGED asked
  <2>1. /\ Step(w, "unlink", "dequeued", my[w]) /\ SetValue(my[w].p, my[w].slot, Null)
        /\ UNCHANGED <<producers, tail_vars, blockIndexTail, block_vars, headIndex, asked>>
    BY <1>3 DEF Unlink, DequeueStep, hash_vars, head_vars, SetValue, p_of
  <2>2. QED
    BY <2>1, UnlinkRows
<1>4. CASE \/ LookUp(w) /\ DequeueStep(w) /\ UNCHANGED asked
           \/ TakeElement(w) /\ DequeueStep(w) /\ UNCHANGED asked
  <2>1. PICK l, m, r : /\ Step(w, l, m, r) /\ l \in InWork /\ m \in InWork /\ m \in WorkerPlaces
                       /\ r.p = my[w].p /\ r.index = my[w].index
    <3>1. DOMAIN my[w] = LocalNames
      BY DEF Typed, Control, LocalOK
    <3>2. CASE LookUp(w)
      <4> DEFINE r == [my[w] EXCEPT !.slot = blockIndexTail[p_of(w)]]
      <4>1. Step(w, "lookup", "locate", r)
        BY <3>2 DEF LookUp
      <4>2. r.p = my[w].p /\ r.index = my[w].index
        BY <3>1 DEF LocalNames
      <4> HIDE DEF r
      <4>3. "lookup" \in InWork /\ "locate" \in InWork /\ "locate" \in WorkerPlaces
        BY DEF InWork, WorkerPlaces, WithSub
      <4>4. QED
        BY <4>1, <4>2, <4>3
    <3>3. CASE TakeElement(w)
      <4> DEFINE e == EntryOf(p_of(w), my[w].index, my[w].slot)
                 b == blockIndex[p_of(w)][e].value
                 r == [my[w] EXCEPT !.slot = e, !.block = b,
                                    !.item = elements[b][my[w].index % BLK_SIZE]]
      <4>1. Step(w, "locate", "empty", r)
        BY <3>3 DEF TakeElement
      <4>2. r.p = my[w].p /\ r.index = my[w].index
        BY <3>1 DEF LocalNames
      <4> HIDE DEF r
      <4>3. "locate" \in InWork /\ "empty" \in InWork /\ "empty" \in WorkerPlaces
        BY DEF InWork, WorkerPlaces, WithSub
      <4>4. QED
        BY <4>1, <4>2, <4>3
    <3>4. QED
      BY <1>4, <3>2, <3>3
  <2>2. UNCHANGED <<producers, tail_vars, index_vars, elements, elementsCompletelyDequeued,
                    headIndex, asked>>
    BY <1>4 DEF LookUp, TakeElement, DequeueStep, hash_vars, index_vars, block_vars, head_vars
  <2>3. QED
    BY <2>1, <2>2, QuietWorkerRows
<1>5. CASE \/ (LoadTail(w) /\ Unused) \/ Poll(w) \/ Score(w) \/ NextSub(w) \/ Serve(w)
           \/ /\ LoadCounts(w) \/ Try(w) \/ Reserve(w) \/ Again(w) \/ GiveBack(w)
              /\ DequeueStep(w) /\ UNCHANGED asked
  <2>1. PICK l, m, r : /\ Step(w, l, m, r) /\ l \notin InWork /\ m \notin InWork
                       /\ m \in WorkerPlaces
    <3>1. CASE LoadTail(w) \/ Poll(w) \/ Serve(w)
      BY <3>1 DEF LoadTail, Poll, Serve, WorkerPlaces, WithSub, InWork
    <3>2. CASE Score(w) \/ NextSub(w)
      BY <3>2 DEF Score, NextSub, WorkerPlaces, WithSub, InWork
    <3>3. CASE LoadCounts(w) \/ Reserve(w) \/ GiveBack(w)
      BY <3>3 DEF LoadCounts, Reserve, GiveBack, WorkerPlaces, WithSub, InWork
    <3>4. CASE Try(w)
      <4> DEFINE m == IF dequeueOptimisticCount[p_of(w)] - my[w].over < my[w].tail
                      THEN "reserve" ELSE "nextsub"
      <4>1. Step(w, "try", m, my[w]) /\ m \in WorkerPlaces /\ m \notin InWork
        BY <3>4 DEF Try, WorkerPlaces, WithSub, InWork
      <4>2. "try" \notin InWork
        BY DEF InWork
      <4>3. QED
        BY <4>1, <4>2
    <3>5. CASE Again(w)
      <4> DEFINE m == IF my[w].count - my[w].over < tailIndex[p_of(w)]
                      THEN "advance" ELSE "giveback"
      <4>1. Step(w, "again", m, my[w]) /\ m \in WorkerPlaces /\ m \notin InWork
        BY <3>5 DEF Again, WorkerPlaces, WithSub, InWork
      <4>2. "again" \notin InWork
        BY DEF InWork
      <4>3. QED
        BY <4>1, <4>2
    <3>6. QED
      BY <1>5, <3>1, <3>2, <3>3, <3>4, <3>5
  <2>2. UNCHANGED <<producers, tail_vars, index_vars, elements, elementsCompletelyDequeued,
                    headIndex, asked>>
    BY <1>5 DEF Unused, Poll, Score, NextSub, Serve, LoadCounts, Try, Reserve, Again, GiveBack,
                DequeueStep, hash_vars, index_vars, block_vars, head_vars
  <2>3. QED
    BY <2>1, <2>2, QuietWorkerRows
<1>6. QED
  BY <1>1, <1>2, <1>3, <1>4, <1>5 DEF DequeueStep

LEMMA RowsStep ==
  ASSUME Typed, Counts, Rows, Hands, NEW o, Lists(o), [Next]_vars
  PROVE  Rows'
<1>1. CASE UNCHANGED queue_vars
  <2>1. /\ UNCHANGED <<setup, producers, tailIndex, tailBlock, headIndex, blockIndex,
                       blockIndexTail, elements, elementsCompletelyDequeued, asked>>
        /\ pc' = pc /\ my' = my
    BY <1>1 DEF queue_vars, hash_vars, tail_vars, head_vars, index_vars, block_vars
  <2>2. ASSUME NEW p \in Producers PROVE RowOf(p)'
    <3>1. RowOf(p) /\ AskedOf(p)'
      BY <2>1 DEF Rows, RowOf, AskedOf
    <3>2. \A i \in Int : Pending(p, i)' <=> Pending(p, i)
      BY <2>1, PendingSame
    <3>3. Phase(p)' = Phase(p)
      BY <2>1 DEF Phase, OwnerPc
    <3>4. QED
      BY <2>1, <3>1, <3>2, <3>3, RowFrame DEF KeyOf, ValueOf
  <2>3. \A u \in Users : ~InRange(u)' => asked'[u] = 0
    BY <2>1 DEF Rows, InRange
  <2>4. QED
    BY <2>2, <2>3 DEF Rows
<1>2. ASSUME NEW a \in Actors, Thread(a) PROVE Rows'
  <2>1. setup' = setup
    BY <1>2 DEF Thread
  <2>2. CASE ListStep(a)
    <3>1. /\ UNCHANGED <<setup, producers, tail_vars, index_vars, elements,
                         elementsCompletelyDequeued, asked>>
          /\ pc' = pc /\ my' = my /\ headIndex' = headIndex
      BY <2>1, <2>2 DEF ListStep, hash_vars, block_vars, head_vars
    <3>2. \A p \in Producers, i \in Int : Pending(p, i)' <=> Pending(p, i)
      BY <3>1, PendingSame
    <3>3. QED
      BY <3>1, <3>2, QuietRows
  <2>3. CASE a \in Users /\ ~ListStep(a)
    <3>1. \/ Ask(a) \/ CheckSize(a) \/ (LoadTail(a) /\ Unused)
          \/ GetProducer(a) /\ UNCHANGED asked
          \/ /\ EnqueueStep(a, <<a, asked[a] + 1>>, "ask")
             /\ asked' = IF pc[a] = "publish" THEN Put(asked, a, asked[a] + 1) ELSE asked
      BY <1>2, <2>3, UserQueueAssumption DEF Thread, TryEnqueue
    <3>2. QED
      BY <2>1, <2>3, <3>1, UserRows
  <2>4. CASE a \in Workers /\ ~ListStep(a)
    <3>1. \/ (LoadTail(a) /\ Unused) \/ Poll(a) \/ Score(a) \/ NextSub(a) \/ Serve(a)
          \/ DequeueStep(a) /\ UNCHANGED asked
      BY <1>2, <2>4, UserQueueAssumption DEF Thread
    <3>2. QED
      BY <2>1, <2>4, <3>1, WorkerRows
  <2>5. QED
    BY <2>2, <2>3, <2>4, UserQueueAssumption
<1>3. QED
  BY <1>1, <1>2, ThreadSteps

-----------------------------------------------------------------------------
(* What the workers have in hand.                                          *)

LEMMA BaseNotInvalid ==
  ASSUME NEW t \in Nat, t % BLK_SIZE = 0
  PROVE  t # INVALID_BLOCK_BASE
<1>1. BLK_SIZE * 0 + 1 = 1 /\ 1 \in 0 .. BLK_SIZE - 1
  BY SizeOK
<1>2. (BLK_SIZE * 0 + 1) % BLK_SIZE = 1
  BY <1>1, SizeOK, DivModUnique
<1>3. QED
  BY <1>1, <1>2, SizeOK

(* What a worker has stays right while others move.                        *)
LEMMA HandKeep ==
  ASSUME Typed, NEW x \in Workers, HandOK(x), setup' = setup,
         pc'[x] = pc[x], my'[x] = my[x],
         \A p \in Producers : headIndex'[p] \in Nat /\ headIndex'[p] >= headIndex[p],
         \A p \in Producers, e \in Entries :
           KeyOf(p, e) # INVALID_BLOCK_BASE => KeyOf(p, e)' # INVALID_BLOCK_BASE,
         pc[x] \in {"empty", "unlink"} =>
           ValueOf(my[x].p, my[x].slot)' = ValueOf(my[x].p, my[x].slot),
         pc[x] = "unlink" =>
           elementsCompletelyDequeued'[my[x].block] = elementsCompletelyDequeued[my[x].block],
         \A q \in 1 .. Len(producers) : producers'[q] = producers[q]
  PROVE  HandOK(x)'
<1> PICK p, e : p = my[x].p /\ e = my[x].slot
  OBVIOUS
<1>1. pc[x] \in Handing => p \in Producers /\ p \in 1 .. Len(producers)
  <2>1. Handing \subseteq WithSub
    BY DEF Handing, InWork, WithSub
  <2>2. QED
    BY <2>1, WorkerSub DEF Typed, Known, ScanOf
<1>2. pc[x] \in {"locate", "empty", "unlink"} => e \in Entries
  BY DEF Typed, Located
<1>3. my[x].index \in Nat
  BY UserQueueAssumption DEF Typed, Control, LocalOK
<1>4. pc[x] \in Handing => my[x].index < headIndex'[p]
  <2>1. pc[x] \in Handing => headIndex[p] \in Nat /\ headIndex'[p] \in Nat
                             /\ headIndex'[p] >= headIndex[p]
    BY <1>1 DEF Typed, Shared
  <2>2. pc[x] \in Handing => my[x].index < headIndex[p]
    BY DEF HandOK
  <2>3. QED
    BY <1>3, <2>1, <2>2
<1>5. pc[x] = "locate" => KeyOf(p, e)' # INVALID_BLOCK_BASE
  BY <1>1, <1>2 DEF HandOK, Handing, InWork
<1>6. pc[x] = "empty" => e = Slot(my[x].index \div BLK_SIZE)'
  BY DEF HandOK, Slot
<1>7. pc[x] \in {"empty", "unlink"} => my[x].block \in Blocks /\ ValueOf(p, e)' = my[x].block
  BY DEF HandOK, Found, ValueOf
<1>8. pc[x] \in {"empty", "unlink", "dequeued"} =>
        my[x].item = <<producers'[p], my[x].index + 1>>
  BY <1>1 DEF HandOK, Handing, InWork
<1>9. pc[x] = "unlink" => elementsCompletelyDequeued'[my[x].block] = BLK_SIZE
  BY DEF HandOK
<1>10. (KeyOf(my[x].p, my[x].slot))' = KeyOf(p, e)'
       /\ blockIndex'[my'[x].p][my'[x].slot].value = ValueOf(p, e)'
  BY DEF KeyOf, ValueOf
<1>11. QED
  BY <1>4, <1>5, <1>6, <1>7, <1>8, <1>9, <1>10 DEF HandOK, Found

(* What was served is not to be served again.                              *)
LEMMA ServedKeep ==
  ASSUME Typed, NEW r, ServedOK(r),
         \A p \in Producers : headIndex'[p] \in Nat /\ headIndex'[p] >= headIndex[p],
         \A q \in 1 .. Len(producers) :
           q \in 1 .. Len(producers)' /\ producers'[q] = producers[q],
         \A p \in Producers : \A w \in Sub(p, Handing)' :
           \/ w \in Sub(p, Handing) /\ my'[w].index = my[w].index
           \/ my'[w].index >= headIndex[p]
  PROVE  ServedOK(r)'
<1>1. PICK p, i :
        /\ p \in 1 .. Len(producers) /\ i \in 0 .. headIndex[p] - 1
        /\ r = <<producers[p], i + 1>>
        /\ \A w \in Sub(p, Handing) : my[w].index # i
  BY DEF ServedOK
<1>2. p \in Producers
  BY <1>1, FewProducers DEF Typed, Known
<1>3. headIndex[p] \in Nat /\ headIndex'[p] \in Nat /\ headIndex'[p] >= headIndex[p]
  BY <1>2 DEF Typed, Shared
<1>4. i \in Nat /\ i < headIndex[p] /\ i \in 0 .. headIndex'[p] - 1
  BY <1>1, <1>3
<1>5. ASSUME NEW w \in Sub(p, Handing)' PROVE my'[w].index # i
  <2>1. \/ w \in Sub(p, Handing) /\ my'[w].index = my[w].index
        \/ my'[w].index >= headIndex[p]
    BY <1>2
  <2>2. ~(i >= headIndex[p])
    BY <1>3, <1>4
  <2>3. QED
    BY <1>1, <2>1, <2>2
<1>6. QED
  BY <1>1, <1>4, <1>5 DEF ServedOK

(* The step of one thread, a, that keeps what the others have.             *)
LEMMA HandsFrame ==
  ASSUME Typed, Hands, NEW a \in Actors, setup' = setup,
         \A x \in Actors \ {a} : pc'[x] = pc[x] /\ my'[x] = my[x],
         \A p \in Producers : headIndex'[p] \in Nat /\ headIndex'[p] >= headIndex[p],
         \A p \in Producers, e \in Entries :
           KeyOf(p, e) # INVALID_BLOCK_BASE => KeyOf(p, e)' # INVALID_BLOCK_BASE,
         \A x \in Workers \ {a} : pc[x] \in {"empty", "unlink"} =>
           ValueOf(my[x].p, my[x].slot)' = ValueOf(my[x].p, my[x].slot),
         \A x \in Workers \ {a} : pc[x] = "unlink" =>
           elementsCompletelyDequeued'[my[x].block] = elementsCompletelyDequeued[my[x].block],
         \A q \in 1 .. Len(producers) : producers'[q] = producers[q],
         a \in Workers => HandOK(a)' /\ \A x \in Workers \ {a} : Apart(a, x)',
         \A r \in served' : ServedOK(r)'
  PROVE  Hands'
<1>0. Workers \subseteq Actors
  BY UserQueueAssumption
<1>1. ASSUME NEW x \in Workers PROVE HandOK(x)'
  <2>1. CASE x = a
    BY <2>1
  <2>2. CASE x # a
    <3>1. HandOK(x) /\ x \in Workers \ {a} /\ x \in Actors \ {a}
      BY <1>0, <2>2 DEF Hands
    <3>2. QED
      BY <3>1, HandKeep
  <2>3. QED
    BY <2>1, <2>2
<1>2. ASSUME NEW x \in Workers, NEW y \in Workers, x # y PROVE Apart(x, y)'
  <2>1. CASE x = a
    BY <1>2, <2>1
  <2>2. CASE y = a
    <3>1. Apart(y, x)'
      BY <1>2, <2>2
    <3>2. QED
      BY <3>1 DEF Apart
  <2>3. CASE x # a /\ y # a
    <3>1. Apart(x, y)
      BY <1>2 DEF Hands
    <3>2. QED
      BY <1>0, <2>3, <3>1 DEF Apart
  <2>4. QED
    BY <2>1, <2>2, <2>3
<1>3. QED
  BY <1>1, <1>2 DEF Hands

(* A user has nothing in hand of what was taken out.                       *)
LEMMA UserHands ==
  ASSUME Typed, Hands, NEW u \in Users, setup' = setup,
         \A x \in Actors \ {u} : pc'[x] = pc[x] /\ my'[x] = my[x],
         headIndex' = headIndex, served' = served,
         \A p \in Producers, e \in Entries :
           KeyOf(p, e)' = KeyOf(p, e) \/ KeyOf(p, e)' # INVALID_BLOCK_BASE,
         \A p \in Producers, e \in Entries : ValueOf(p, e) # Null =>
           /\ ValueOf(p, e)' = ValueOf(p, e)
           /\ elementsCompletelyDequeued'[ValueOf(p, e)] = elementsCompletelyDequeued[ValueOf(p, e)],
         \A q \in 1 .. Len(producers) :
           q \in 1 .. Len(producers)' /\ producers'[q] = producers[q]
  PROVE  Hands'
<1> USE NullIsNoUser
<1>1. Users \subseteq Actors /\ u \notin Workers
  BY UserQueueAssumption
<1>2. \A p \in Producers : headIndex'[p] \in Nat /\ headIndex'[p] >= headIndex[p]
  BY DEF Typed, Shared
<1>3. ASSUME NEW x \in Workers, pc[x] \in {"empty", "unlink"}
      PROVE  /\ ValueOf(my[x].p, my[x].slot)' = ValueOf(my[x].p, my[x].slot)
             /\ elementsCompletelyDequeued'[my[x].block] = elementsCompletelyDequeued[my[x].block]
  <2> PICK p, e : p = my[x].p /\ e = my[x].slot
    OBVIOUS
  <2>1. p \in Producers /\ e \in Entries
    BY <1>3, WorkerSub DEF Typed, Located, WithSub
  <2>2. ValueOf(p, e) = my[x].block /\ ValueOf(p, e) # Null
    BY <1>3 DEF Hands, HandOK, Found, ValueOf
  <2>3. my'[x] = my[x]
    BY <1>1, UserQueueAssumption
  <2>4. ValueOf(p, e)' = ValueOf(p, e)
    BY <2>1, <2>2
  <2>5. ValueOf(my[x].p, my[x].slot)' = ValueOf(p, e)'
    BY <2>3 DEF ValueOf
  <2>6. QED
    BY <2>1, <2>2, <2>4, <2>5
<1>4. ASSUME NEW r \in served' PROVE ServedOK(r)'
  <2>1. ServedOK(r)
    BY DEF Hands
  <2>2. \A x \in Workers : pc'[x] = pc[x] /\ my'[x] = my[x]
    BY <1>1, UserQueueAssumption
  <2>3. \A p \in Producers : \A w \in Sub(p, Handing)' :
          w \in Sub(p, Handing) /\ my'[w].index = my[w].index
    BY <2>2 DEF Sub
  <2>4. QED
    BY <1>2, <2>1, <2>3, ServedKeep
<1>5. u \in Actors
  BY <1>1
<1>6. \A p \in Producers, e \in Entries :
        KeyOf(p, e) # INVALID_BLOCK_BASE => KeyOf(p, e)' # INVALID_BLOCK_BASE
  OBVIOUS
<1>7. QED
  BY <1>1, <1>2, <1>3, <1>4, <1>5, <1>6, HandsFrame

(* A step of a worker that has nothing in hand.                            *)
LEMMA QuietHands ==
  ASSUME Typed, Hands, NEW w \in Workers, NEW l, NEW m, NEW r, Step(w, l, m, r),
         l \notin Handing, m \notin Handing,
         UNCHANGED <<setup, producers, headIndex, blockIndex, elementsCompletelyDequeued, served>>
  PROVE  Hands'
<1>1. /\ pc[w] = l /\ pc'[w] = m /\ w \in Actors
      /\ \A x \in Actors \ {w} : pc'[x] = pc[x] /\ my'[x] = my[x]
  BY StepEffect, UserQueueAssumption DEF Typed
<1>2. \A p \in Producers : headIndex'[p] \in Nat /\ headIndex'[p] >= headIndex[p]
  BY DEF Typed, Shared
<1>3. HandOK(w)' /\ \A x \in Workers \ {w} : Apart(w, x)'
  BY <1>1 DEF HandOK, Apart, Handing, InWork
<1>4. ASSUME NEW s \in served' PROVE ServedOK(s)'
  <2>1. ServedOK(s)
    BY DEF Hands
  <2>2. \A p \in Producers : \A x \in Sub(p, Handing)' :
          x \in Sub(p, Handing) /\ my'[x].index = my[x].index
    BY <1>1, UserQueueAssumption DEF Sub
  <2>3. QED
    BY <1>2, <2>1, <2>2, ServedKeep
<1>5. \A x \in Workers \ {w} :
        ValueOf(my[x].p, my[x].slot)' = ValueOf(my[x].p, my[x].slot)
  BY <1>1, UserQueueAssumption DEF ValueOf
<1>6. \A p \in Producers, e \in Entries : KeyOf(p, e)' = KeyOf(p, e)
  BY DEF KeyOf
<1>7. \A p \in Producers, e \in Entries :
        KeyOf(p, e) # INVALID_BLOCK_BASE => KeyOf(p, e)' # INVALID_BLOCK_BASE
  BY <1>6
<1>8. QED
  BY <1>1, <1>2, <1>3, <1>4, <1>5, <1>7, HandsFrame

(* A worker goes on with the index that it has.                            *)
LEMMA GoOnHands ==
  ASSUME Typed, Hands, NEW w \in Workers, NEW l, NEW m, NEW r, Step(w, l, m, r),
         l \in Handing, m \in Handing, r.p = my[w].p, r.index = my[w].index,
         UNCHANGED <<setup, producers, headIndex, served>>,
         \A p \in Producers, e \in Entries : KeyOf(p, e)' = KeyOf(p, e),
         \A x \in Workers \ {w} : pc[x] \in {"empty", "unlink"} =>
           ValueOf(my[x].p, my[x].slot)' = ValueOf(my[x].p, my[x].slot),
         \A x \in Workers \ {w} : pc[x] = "unlink" =>
           elementsCompletelyDequeued'[my[x].block] = elementsCompletelyDequeued[my[x].block],
         \A x \in Workers \ {w} : m = "unlink" /\ pc[x] = "unlink" => r.block # my[x].block,
         HandOK(w)'
  PROVE  Hands'
<1>1. /\ pc[w] = l /\ pc'[w] = m /\ my'[w] = r /\ w \in Actors
      /\ \A x \in Actors \ {w} : pc'[x] = pc[x] /\ my'[x] = my[x]
  BY StepEffect, UserQueueAssumption DEF Typed
<1>2. \A p \in Producers : headIndex'[p] \in Nat /\ headIndex'[p] >= headIndex[p]
  BY DEF Typed, Shared
<1>3. ASSUME NEW x \in Workers \ {w} PROVE Apart(w, x)'
  <2>1. Apart(w, x)
    BY DEF Hands
  <2>2. pc'[x] = pc[x] /\ my'[x] = my[x]
    BY <1>1, UserQueueAssumption
  <2>3. QED
    BY <1>1, <2>1, <2>2 DEF Apart
<1>4. ASSUME NEW s \in served' PROVE ServedOK(s)'
  <2>1. ServedOK(s)
    BY DEF Hands
  <2>2. \A p \in Producers : \A x \in Sub(p, Handing)' :
          x \in Sub(p, Handing) /\ my'[x].index = my[x].index
    BY <1>1, UserQueueAssumption DEF Sub
  <2>3. QED
    BY <1>2, <2>1, <2>2, ServedKeep
<1>5. \A p \in Producers, e \in Entries :
        KeyOf(p, e) # INVALID_BLOCK_BASE => KeyOf(p, e)' # INVALID_BLOCK_BASE
  OBVIOUS
<1>6. QED
  BY <1>1, <1>2, <1>3, <1>4, <1>5, HandsFrame

LEMMA AdvanceHands ==
  ASSUME Typed, Counts, Hands, NEW w \in Workers, NEW p, p = my[w].p, NEW r,
         Step(w, "advance", "lookup", r), r.p = p, r.index = headIndex[p],
         headIndex' = Put(headIndex, p, headIndex[p] + 1),
         UNCHANGED <<setup, producers, blockIndex, elementsCompletelyDequeued, served>>
  PROVE  Hands'
<1>1. /\ pc[w] = "advance" /\ pc'[w] = "lookup" /\ my'[w] = r /\ w \in Actors
      /\ \A x \in Actors \ {w} : pc'[x] = pc[x] /\ my'[x] = my[x]
  BY StepEffect, UserQueueAssumption DEF Typed
<1>2. p \in Producers /\ headIndex[p] \in Nat
  BY <1>1, WorkerSub DEF WithSub, Typed, Shared
<1>3. headIndex'[p] = headIndex[p] + 1
      /\ \A q \in Producers \ {p} : headIndex'[q] = headIndex[q]
  BY <1>2 DEF Put, Typed, Shared
<1>4. ASSUME NEW q \in Producers
      PROVE  headIndex'[q] \in Nat /\ headIndex'[q] >= headIndex[q]
  <2>1. headIndex[q] \in Nat
    BY DEF Typed, Shared
  <2>2. QED
    BY <1>2, <1>3, <2>1
<1>5. HandOK(w)'
  BY <1>1, <1>2, <1>3 DEF HandOK, Handing, InWork
<1>6. ASSUME NEW x \in Workers \ {w} PROVE Apart(w, x)'
  <2>1. pc'[x] = pc[x] /\ my'[x] = my[x] /\ my[x].index \in Nat
    BY <1>1, UserQueueAssumption DEF Typed, Control, LocalOK
  <2>2. pc[x] \in Handing /\ my[x].p = p => my[x].index < headIndex[p]
    BY DEF Hands, HandOK
  <2>3. pc[x] \in Handing /\ my[x].p = p => my[x].index # headIndex[p]
    BY <1>2, <2>1, <2>2
  <2>4. QED
    BY <1>1, <2>1, <2>3 DEF Apart
<1>7. ASSUME NEW s \in served' PROVE ServedOK(s)'
  <2>1. ServedOK(s)
    BY DEF Hands
  <2>2. ASSUME NEW q \in Producers, NEW x \in Sub(q, Handing)'
        PROVE  \/ x \in Sub(q, Handing) /\ my'[x].index = my[x].index
               \/ my'[x].index >= headIndex[q]
    <3>1. CASE x = w
      BY <1>1, <1>2, <2>2, <3>1 DEF Sub
    <3>2. CASE x # w
      BY <1>1, <2>2, <3>2, UserQueueAssumption DEF Sub
    <3>3. QED
      BY <3>1, <3>2
  <2>3. QED
    BY <1>4, <2>1, <2>2, ServedKeep
<1>8. \A x \in Workers \ {w} :
        ValueOf(my[x].p, my[x].slot)' = ValueOf(my[x].p, my[x].slot)
  BY <1>1, UserQueueAssumption DEF ValueOf
<1>9. \A q \in Producers, e \in Entries : KeyOf(q, e)' = KeyOf(q, e)
  BY DEF KeyOf
<1>10. \A q \in Producers, e \in Entries :
         KeyOf(q, e) # INVALID_BLOCK_BASE => KeyOf(q, e)' # INVALID_BLOCK_BASE
  BY <1>9
<1>11. QED
  BY <1>1, <1>4, <1>5, <1>6, <1>7, <1>8, <1>10, HandsFrame

LEMMA ServeHands ==
  ASSUME Typed, Counts, Hands, NEW w \in Workers, NEW r, Step(w, "dequeued", "poll", r),
         served' = served \cup {my[w].item},
         UNCHANGED <<setup, producers, headIndex, blockIndex, elementsCompletelyDequeued>>
  PROVE  Hands'
<1>1. /\ pc[w] = "dequeued" /\ pc'[w] = "poll" /\ w \in Actors
      /\ \A x \in Actors \ {w} : pc'[x] = pc[x] /\ my'[x] = my[x]
  BY StepEffect, UserQueueAssumption DEF Typed
<1>2. \A p \in Producers : headIndex'[p] \in Nat /\ headIndex'[p] >= headIndex[p]
  BY DEF Typed, Shared
<1>3. HandOK(w)' /\ \A x \in Workers \ {w} : Apart(w, x)'
  BY <1>1 DEF HandOK, Apart, Handing, InWork
<1>9. \A p : \A x \in Sub(p, Handing)' :
        x \in Sub(p, Handing) /\ my'[x].index = my[x].index /\ x # w
  BY <1>1, UserQueueAssumption DEF Sub, Handing, InWork
<1>4. ASSUME NEW s \in served' PROVE ServedOK(s)'
  <2>1. CASE s \in served
    <3>1. ServedOK(s)
      BY <2>1 DEF Hands
    <3>2. QED
      BY <1>2, <1>9, <3>1, ServedKeep
  <2>2. CASE s = my[w].item
    <3>1. PICK p, i : p = my[w].p /\ i = my[w].index
      OBVIOUS
    <3>2. /\ p \in 1 .. Len(producers) /\ p \in Producers /\ i \in Nat
          /\ s = <<producers[p], i + 1>> /\ i < headIndex[p]
      BY <1>1, <2>2, <3>1, WorkerSub
         DEF WithSub, Typed, Control, LocalOK, Hands, HandOK, Handing, InWork
    <3>3. i \in 0 .. headIndex[p] - 1
      BY <3>2 DEF Typed, Shared
    <3>4. ASSUME NEW x \in Sub(p, Handing)' PROVE my'[x].index # i
      <4>1. x \in Sub(p, Handing) /\ my'[x].index = my[x].index /\ x # w
        BY <1>9
      <4>2. Apart(w, x)
        BY <4>1 DEF Hands, Sub
      <4>3. QED
        BY <1>1, <3>1, <4>1, <4>2 DEF Apart, Sub, Handing
    <3>5. QED
      BY <3>2, <3>3, <3>4 DEF ServedOK
  <2>3. QED
    BY <2>1, <2>2
<1>5. \A x \in Workers \ {w} :
        ValueOf(my[x].p, my[x].slot)' = ValueOf(my[x].p, my[x].slot)
  BY <1>1, UserQueueAssumption DEF ValueOf
<1>6. \A p \in Producers, e \in Entries : KeyOf(p, e)' = KeyOf(p, e)
  BY DEF KeyOf
<1>7. \A p \in Producers, e \in Entries :
        KeyOf(p, e) # INVALID_BLOCK_BASE => KeyOf(p, e)' # INVALID_BLOCK_BASE
  BY <1>6
<1>8. QED
  BY <1>1, <1>2, <1>3, <1>4, <1>5, <1>7, HandsFrame

LEMMA LookUpHands ==
  ASSUME Typed, Counts, Rows, Hands, NEW w \in Workers, NEW p, p = my[w].p, NEW r,
         Step(w, "lookup", "locate", r), r.p = p, r.index = my[w].index,
         r.slot = blockIndexTail[p],
         UNCHANGED <<setup, producers, tail_vars, headIndex, blockIndex,
                     elementsCompletelyDequeued, served>>
  PROVE  Hands'
<1> USE NullIsNoUser
<1>1. /\ pc[w] = "lookup" /\ pc'[w] = "locate" /\ my'[w] = r
      /\ \A x \in Actors \ {w} : pc'[x] = pc[x] /\ my'[x] = my[x]
  BY StepEffect DEF Typed
<1>2. p \in Producers /\ my[w].index \in Nat
  BY <1>1, WorkerSub DEF WithSub, Typed, Control, LocalOK
<1>3. /\ my[w].index < headIndex[p] /\ headIndex[p] \in Nat /\ tailIndex[p] \in Nat
      /\ headIndex[p] <= tailIndex[p]
  BY <1>1, <1>2, RowTypes DEF Hands, HandOK, Handing, InWork
<1>4. tailIndex[p] > 0
  BY <1>2, <1>3
<1>5. RowOf(p) /\ KeysOf(p) /\ TailOf(p) /\ OpenOf(p)
  BY <1>2 DEF Rows, RowOf
<1>6. KeyOf(p, blockIndexTail[p]) # INVALID_BLOCK_BASE
  <2>1. blockIndexTail[p] = Slot(Newest(p))
    BY <1>5 DEF TailOf
  <2>2. CASE Newest(p) = (tailIndex[p] - 1) \div BLK_SIZE
    BY <1>4, <1>5, <2>1, <2>2 DEF OpenOf
  <2>3. CASE Newest(p) # (tailIndex[p] - 1) \div BLK_SIZE
    <3>1. /\ Newest(p) = tailIndex[p] \div BLK_SIZE
          /\ OwnerPc(p) \in Opening \cup {"publish"}
      BY <2>3 DEF Newest
    <3>2. CASE OwnerPc(p) = "publish"
      <4>1. ValueOf(p, blockIndexTail[p]) \in Blocks
        BY <1>5, <2>1, <3>1, <3>2 DEF OpenOf
      <4>2. blockIndexTail[p] \in Entries
        BY <1>2 DEF Typed, Shared
      <4>3. QED
        BY <1>5, <4>1, <4>2 DEF KeysOf
    <3>3. CASE OwnerPc(p) \in Opening
      <4>1. KeyOf(p, blockIndexTail[p]) = tailIndex[p] /\ tailIndex[p] % BLK_SIZE = 0
        BY <1>5, <2>1, <3>1, <3>3 DEF OpenOf
      <4>2. tailIndex[p] # INVALID_BLOCK_BASE
        BY <1>3, <4>1, BaseNotInvalid
      <4>3. QED
        BY <4>1, <4>2
    <3>4. QED
      BY <3>1, <3>2, <3>3
  <2>4. QED
    BY <2>2, <2>3
<1>7. HandOK(w)'
  <2>1. KeyOf(my[w].p, my[w].slot)' = KeyOf(p, blockIndexTail[p])
    BY <1>1 DEF KeyOf
  <2>2. my'[w].index < headIndex'[my'[w].p]
    BY <1>1, <1>3
  <2>3. QED
    BY <1>1, <1>6, <2>1, <2>2 DEF HandOK
<1>8. /\ \A q \in Producers, e \in Entries : KeyOf(q, e)' = KeyOf(q, e)
      /\ \A x \in Workers \ {w} :
           ValueOf(my[x].p, my[x].slot)' = ValueOf(my[x].p, my[x].slot)
  BY <1>1, UserQueueAssumption DEF KeyOf, ValueOf
<1>9. "lookup" \in Handing /\ "locate" \in Handing /\ "locate" # "unlink"
  BY DEF Handing, InWork
<1>10. QED
  BY <1>7, <1>8, <1>9, GoOnHands

LEMMA TakeHands ==
  ASSUME Typed, Counts, Rows, Hands, NEW w \in Workers, NEW p, p = my[w].p, NEW r, NEW b, NEW f,
         Step(w, "locate", "empty", r), r.p = p, r.index = my[w].index,
         f = EntryOf(p, my[w].index, my[w].slot), b = ValueOf(p, f),
         r.slot = f, r.block = b, r.item = elements[b][my[w].index % BLK_SIZE],
         UNCHANGED <<setup, producers, tail_vars, headIndex, blockIndex,
                     elementsCompletelyDequeued, served>>
  PROVE  Hands'
<1> USE NullIsNoUser
<1> PICK i : i = my[w].index
  OBVIOUS
<1>1. /\ pc[w] = "locate" /\ pc'[w] = "empty" /\ my'[w] = r
      /\ \A x \in Actors \ {w} : pc'[x] = pc[x] /\ my'[x] = my[x]
  BY StepEffect DEF Typed
<1>2. p \in Producers /\ i \in Nat /\ my[w].slot \in Entries
  BY <1>1, WorkerSub DEF WithSub, Typed, Control, LocalOK, Located
<1>3. /\ i < headIndex[p] /\ headIndex[p] \in Nat /\ tailIndex[p] \in Nat
      /\ headIndex[p] <= tailIndex[p]
  BY <1>1, <1>2, RowTypes DEF Hands, HandOK, Handing, InWork
<1>4. RowOf(p) /\ KeysOf(p) /\ KeptOf(p) /\ WrittenOf(p)
  BY <1>2 DEF Rows, RowOf
<1>5. KeyOf(p, my[w].slot) # INVALID_BLOCK_BASE
  BY <1>1 DEF Hands, HandOK
<1>6. f = Slot(i \div BLK_SIZE)
  BY <1>2, <1>4, <1>5, EntryOfOK
<1>7. Pending(p, i)
  BY <1>1 DEF Pending, Sub, InWork
<1>8. i < tailIndex[p] /\ i \in 0 .. tailIndex[p] - 1
  BY <1>2, <1>3
<1>9. b \in Blocks
  BY <1>2, <1>4, <1>6, <1>7, <1>8, PendingKept
<1>10. r.item = <<producers[p], i + 1>>
  BY <1>4, <1>6, <1>7, <1>8 DEF WrittenOf
<1>11. HandOK(w)'
  <2>1. my'[w].index < headIndex'[my'[w].p]
    BY <1>1, <1>3
  <2>2. my'[w].slot = Slot(my[w].index \div BLK_SIZE)'
    BY <1>1, <1>6 DEF Slot
  <2>3. Found(w)'
    BY <1>1, <1>9 DEF Found, ValueOf
  <2>4. my'[w].item = <<producers'[my'[w].p], my'[w].index + 1>>
    BY <1>1, <1>10
  <2>5. QED
    BY <1>1, <2>1, <2>2, <2>3, <2>4 DEF HandOK
<1>12. /\ \A q \in Producers, e \in Entries : KeyOf(q, e)' = KeyOf(q, e)
       /\ \A x \in Workers \ {w} :
            ValueOf(my[x].p, my[x].slot)' = ValueOf(my[x].p, my[x].slot)
  BY <1>1, UserQueueAssumption DEF KeyOf, ValueOf
<1>13. "locate" \in Handing /\ "empty" \in Handing /\ "empty" # "unlink"
  BY DEF Handing, InWork
<1>14. QED
  BY <1>11, <1>12, <1>13, GoOnHands

LEMMA SetEmptyHands ==
  ASSUME Typed, Counts, Rows, Hands, NEW w \in Workers, NEW m, Step(w, "empty", m, my[w]),
         NEW b, b = my[w].block,
         m = IF elementsCompletelyDequeued[b] = BLK_SIZE - 1 THEN "unlink" ELSE "dequeued",
         elementsCompletelyDequeued' =
           Put(elementsCompletelyDequeued, b, elementsCompletelyDequeued[b] + 1),
         UNCHANGED <<setup, producers, headIndex, blockIndex, served>>
  PROVE  Hands'
<1> USE NullIsNoUser
<1>1. /\ pc[w] = "empty" /\ pc'[w] = m /\ my'[w] = my[w] /\ m \in {"unlink", "dequeued"}
      /\ \A x \in Actors \ {w} : pc'[x] = pc[x] /\ my'[x] = my[x]
  BY StepEffect DEF Typed
<1>2. b \in Blocks /\ elementsCompletelyDequeued[b] < BLK_SIZE
  BY <1>1, EmptyFacts
<1>3. /\ elementsCompletelyDequeued'[b] = elementsCompletelyDequeued[b] + 1
      /\ \A c \in Blocks \ {b} : elementsCompletelyDequeued'[c] = elementsCompletelyDequeued[c]
      /\ elementsCompletelyDequeued[b] \in Nat
  BY <1>2 DEF Typed, Shared, Put
<1>4. ASSUME NEW x \in Workers \ {w}, pc[x] = "unlink"
      PROVE  /\ my[x].block # b
             /\ elementsCompletelyDequeued'[my[x].block] = elementsCompletelyDequeued[my[x].block]
  <2>1. my[x].block \in Blocks /\ elementsCompletelyDequeued[my[x].block] = BLK_SIZE
    BY <1>4, UnlinkFacts
  <2>2. my[x].block # b
    BY <1>2, <1>3, <2>1, SizeOK
  <2>3. QED
    BY <1>3, <2>1, <2>2
<1>5. HandOK(w)'
  <2>1. HandOK(w) /\ Found(w)
    BY <1>1 DEF Hands, HandOK
  <2>2. Found(w)'
    BY <1>1, <2>1 DEF Found
  <2>3. pc'[w] = "unlink" => elementsCompletelyDequeued'[my'[w].block] = BLK_SIZE
    BY <1>1, <1>3, SizeOK
  <2>4. /\ my'[w].index < headIndex'[my'[w].p]
        /\ my'[w].item = <<producers'[my'[w].p], my'[w].index + 1>>
    BY <1>1, <2>1 DEF HandOK, Handing, InWork
  <2>5. QED
    BY <1>1, <2>2, <2>3, <2>4 DEF HandOK
<1>6. /\ \A q \in Producers, e \in Entries : KeyOf(q, e)' = KeyOf(q, e)
      /\ \A x \in Workers \ {w} :
           ValueOf(my[x].p, my[x].slot)' = ValueOf(my[x].p, my[x].slot)
  BY <1>1, UserQueueAssumption DEF KeyOf, ValueOf
<1>7. "empty" \in Handing /\ m \in Handing
  BY <1>1 DEF Handing, InWork
<1>8. QED
  BY <1>4, <1>5, <1>6, <1>7, GoOnHands

LEMMA UnlinkHands ==
  ASSUME Typed, Counts, Rows, Hands, NEW w \in Workers, Step(w, "unlink", "dequeued", my[w]),
         SetValue(my[w].p, my[w].slot, Null),
         UNCHANGED <<setup, producers, headIndex, elementsCompletelyDequeued, served>>
  PROVE  Hands'
<1> USE NullIsNoUser
<1> PICK p, e : p = my[w].p /\ e = my[w].slot
  OBVIOUS
<1>1. /\ pc[w] = "unlink" /\ pc'[w] = "dequeued" /\ my'[w] = my[w]
      /\ \A x \in Actors \ {w} : pc'[x] = pc[x] /\ my'[x] = my[x]
  BY StepEffect DEF Typed
<1>2. /\ p \in Producers /\ e \in Entries /\ ValueOf(p, e) = my[w].block
      /\ PendingIn(p, Num(p, e)) = {}
  BY <1>1, UnlinkFacts
<1>3. \A q \in Producers, f \in Entries :
        /\ KeyOf(q, f)' = KeyOf(q, f)
        /\ ValueOf(q, f)' = IF q = p /\ f = e THEN Null ELSE ValueOf(q, f)
  BY <1>2, IndexValue DEF KeyOf, ValueOf
<1>4. ASSUME NEW x \in Workers \ {w}, pc[x] \in {"empty", "unlink"}
      PROVE  ValueOf(my[x].p, my[x].slot)' = ValueOf(my[x].p, my[x].slot)
  <2> PICK q, f : q = my[x].p /\ f = my[x].slot
    OBVIOUS
  <2>1. q \in Producers /\ f \in Entries
    BY <1>4, WorkerSub DEF WithSub, Typed, Located
  <2>2. ~(q = p /\ f = e)
    <3>1. CASE pc[x] = "empty"
      <4>1. PendingIn(q, Num(q, f)) # {}
        BY <3>1, EmptyFacts
      <4>2. QED
        BY <1>2, <4>1
    <3>2. CASE pc[x] = "unlink"
      <4>1. ValueOf(q, f) = my[x].block
        BY <3>2, UnlinkFacts
      <4>2. my[x].block # my[w].block
        BY <1>1, <3>2 DEF Hands, Apart
      <4>3. QED
        BY <1>2, <4>1, <4>2
    <3>3. QED
      BY <1>4, <3>1, <3>2
  <2>3. ValueOf(q, f)' = ValueOf(q, f)
    BY <1>3, <2>1, <2>2
  <2>4. ValueOf(my[x].p, my[x].slot)' = ValueOf(q, f)'
    BY <1>1, UserQueueAssumption DEF ValueOf
  <2>5. QED
    BY <2>3, <2>4
<1>5. HandOK(w)'
  <2>1. /\ my[w].index < headIndex[p] /\ my[w].item = <<producers[p], my[w].index + 1>>
    BY <1>1 DEF Hands, HandOK, Handing
  <2>2. QED
    BY <1>1, <2>1 DEF HandOK
<1>6. "unlink" \in Handing /\ "dequeued" \in Handing /\ "dequeued" # "unlink"
  BY DEF Handing
<1>7. \A q \in Producers, f \in Entries : KeyOf(q, f)' = KeyOf(q, f)
  BY <1>3
<1>8. QED
  BY <1>4, <1>5, <1>6, <1>7, GoOnHands

(* The steps of a user.                                                    *)
LEMMA QuietUserHands ==
  ASSUME Typed, Hands, NEW u \in Users, NEW l, NEW m, NEW r, Step(u, l, m, r),
         UNCHANGED <<setup, headIndex, blockIndex, elementsCompletelyDequeued, served>>,
         \A q \in 1 .. Len(producers) :
           q \in 1 .. Len(producers)' /\ producers'[q] = producers[q]
  PROVE  Hands'
<1>1. \A x \in Actors \ {u} : pc'[x] = pc[x] /\ my'[x] = my[x]
  BY StepEffect, UserQueueAssumption DEF Typed
<1>2. \A p \in Producers, e \in Entries : KeyOf(p, e)' = KeyOf(p, e)
                                          /\ ValueOf(p, e)' = ValueOf(p, e)
  BY DEF KeyOf, ValueOf
<1>3. QED
  BY <1>1, <1>2, UserHands

LEMMA NewEntryHands ==
  ASSUME Typed, Counts, Rows, Hands, NEW u \in Users, NEW p, p = my[u].p,
         Step(u, "enqueue", "entry", my[u]), tailIndex[p] % BLK_SIZE = 0,
         SetKey(p, NextEntry(p), tailIndex[p]),
         UNCHANGED <<setup, producers, headIndex, elementsCompletelyDequeued, served>>
  PROVE  Hands'
<1> USE NullIsNoUser
<1>1. /\ pc[u] = "enqueue"
      /\ \A x \in Actors \ {u} : pc'[x] = pc[x] /\ my'[x] = my[x]
  BY StepEffect DEF Typed
<1>2. p \in Producers /\ tailIndex[p] \in Nat
  BY <1>1, OwnRow, RowTypes DEF Enqueueing
<1>3. PICK e \in Entries : e = NextEntry(p)
  <2>1. blockIndexTail[p] \in Entries /\ setup.entries \in Nat \ {0}
    BY <1>2, EntriesOK DEF Typed, Shared
  <2>2. blockIndexTail[p] \in Int
    BY <2>1 DEF Entries
  <2>3. NextEntry(p) \in Entries
    BY <2>1, <2>2 DEF NextEntry, Entries
  <2>4. QED
    BY <2>3
<1>4. tailIndex[p] # INVALID_BLOCK_BASE
  BY <1>2, BaseNotInvalid
<1>5. \A q \in Producers, f \in Entries :
        /\ ValueOf(q, f)' = ValueOf(q, f)
        /\ KeyOf(q, f)' = KeyOf(q, f) \/ KeyOf(q, f)' # INVALID_BLOCK_BASE
  BY <1>2, <1>3, <1>4, IndexKey DEF KeyOf, ValueOf
<1>6. QED
  BY <1>1, <1>5, UserHands

LEMMA RewindHands ==
  ASSUME Typed, Counts, Rows, Hands, NEW u \in Users, NEW p, p = my[u].p,
         Step(u, "list", "failed", my[u]), SetValue(p, blockIndexTail[p], Null),
         UNCHANGED <<setup, producers, headIndex, elementsCompletelyDequeued, served>>
  PROVE  Hands'
<1> USE NullIsNoUser
<1>1. /\ pc[u] = "list"
      /\ \A x \in Actors \ {u} : pc'[x] = pc[x] /\ my'[x] = my[x]
  BY StepEffect DEF Typed
<1>2. p \in Producers /\ OwnerPc(p) = "list"
  BY <1>1, OwnRow DEF Enqueueing
<1>3. blockIndexTail[p] \in Entries
  BY <1>2 DEF Typed, Shared
<1>4. ValueOf(p, blockIndexTail[p]) = Null
  BY <1>2 DEF Rows, RowOf, OpenOf, TailOf, Newest, Opening
<1>5. \A q \in Producers, f \in Entries : KeyOf(q, f)' = KeyOf(q, f)
                                          /\ ValueOf(q, f)' = ValueOf(q, f)
  BY <1>2, <1>3, <1>4, IndexValue DEF KeyOf, ValueOf
<1>6. QED
  BY <1>1, <1>5, UserHands

LEMMA FreshHands ==
  ASSUME Typed, Counts, Rows, Hands, NEW o, Lists(o), NEW u \in Users, NEW p, p = my[u].p,
         NEW b, b = my[u].block,
         Step(u, "fresh", "publish", my[u]), SetValue(p, blockIndexTail[p], b),
         elementsCompletelyDequeued' = Put(elementsCompletelyDequeued, b, 0),
         UNCHANGED <<setup, producers, headIndex, served>>
  PROVE  Hands'
<1> USE NullIsNoUser
<1>1. /\ pc[u] = "fresh"
      /\ \A x \in Actors \ {u} : pc'[x] = pc[x] /\ my'[x] = my[x]
  BY StepEffect DEF Typed
<1>2. p \in Producers /\ OwnerPc(p) = "fresh"
  BY <1>1, OwnRow DEF Enqueueing
<1>3. PICK e \in Entries : e = blockIndexTail[p]
  BY <1>2 DEF Typed, Shared
<1>4. ValueOf(p, e) = Null
  BY <1>2, <1>3 DEF Rows, RowOf, OpenOf, TailOf, Newest, Opening
<1>5. b \in Blocks /\ InHands(u, b)
  BY <1>1, Placed DEF SpotOf, InHands
<1>6. \A c \in Blocks \ {b} : elementsCompletelyDequeued'[c] = elementsCompletelyDequeued[c]
  BY <1>5 DEF Typed, Shared, Put
<1>7. ASSUME NEW q \in Producers, NEW f \in Entries, ValueOf(q, f) # Null
      PROVE  /\ ValueOf(q, f)' = ValueOf(q, f)
             /\ elementsCompletelyDequeued'[ValueOf(q, f)] = elementsCompletelyDequeued[ValueOf(q, f)]
  <2>1. ~(q = p /\ f = e)
    BY <1>4, <1>7
  <2>2. ValueOf(q, f) \in Blocks /\ ~InHands(u, ValueOf(q, f))
    BY <1>7, OnePlace
  <2>3. ValueOf(q, f) \in Blocks \ {b}
    BY <1>5, <2>2
  <2>4. ValueOf(q, f)' = ValueOf(q, f)
    BY <1>2, <1>3, <2>1, IndexValue DEF ValueOf
  <2>5. QED
    BY <1>6, <2>3, <2>4
<1>8. \A q \in Producers, f \in Entries : KeyOf(q, f)' = KeyOf(q, f)
  BY <1>2, <1>3, IndexValue DEF KeyOf
<1>9. QED
  BY <1>1, <1>7, <1>8, UserHands

LEMMA UserHandsStep ==
  ASSUME Typed, Counts, Rows, Hands, NEW o, Lists(o), NEW u \in Users, setup' = setup,
         served' = served,
         \/ Ask(u) \/ CheckSize(u) \/ (LoadTail(u) /\ Unused) \/ GetProducer(u)
         \/ EnqueueStep(u, <<u, asked[u] + 1>>, "ask")
  PROVE  Hands'
<1> USE NullIsNoUser
<1> PICK p : p = my[u].p
  OBVIOUS
<1>0. producers' = producers =>
        \A q \in 1 .. Len(producers) : q \in 1 .. Len(producers)' /\ producers'[q] = producers[q]
  OBVIOUS
<1>1. CASE Ask(u) \/ CheckSize(u) \/ (LoadTail(u) /\ Unused)
  <2>1. PICK l, m, r : Step(u, l, m, r)
    BY <1>1 DEF Ask, CheckSize, LoadTail
  <2>2. UNCHANGED <<producers, headIndex, blockIndex, elementsCompletelyDequeued>>
    BY <1>1 DEF Ask, CheckSize, Unused, hash_vars, block_vars, head_vars, index_vars
  <2>3. QED
    BY <1>0, <2>1, <2>2, QuietUserHands
<1>2. CASE GetProducer(u)
  <2>1. PICK l, m, r : Step(u, l, m, r)
    BY <1>2 DEF GetProducer, LoadHash, Find, Room, Resize, Unlock, Enter, Fits
  <2>2. UNCHANGED <<headIndex, blockIndex, elementsCompletelyDequeued>>
    BY <1>2 DEF GetProducer, block_vars, head_vars, index_vars
  <2>3. producers' = producers \/ producers' = Append(producers, u)
    BY <1>2 DEF GetProducer, LoadHash, Find, Room, Resize, Unlock, Enter, Fits, hash_vars
  <2>4. producers \in Seq(Users) /\ u \in Users
    BY DEF Typed, Known, HashTypes
  <2>5. \A q \in 1 .. Len(producers) : q \in 1 .. Len(producers)' /\ producers'[q] = producers[q]
    BY <2>3, <2>4
  <2>6. QED
    BY <2>1, <2>2, <2>5, QuietUserHands
<1>3. CASE EnqueueStep(u, <<u, asked[u] + 1>>, "ask")
  <2>0. UNCHANGED <<producers, headIndex>>
    BY <1>3 DEF EnqueueStep, hash_vars, head_vars
  <2>1. CASE Enqueue(u)
    <3>0. UNCHANGED <<tail_vars, blockIndexTail, elementsCompletelyDequeued>>
      BY <2>1 DEF Enqueue, block_vars
    <3>1. CASE tailIndex[p] % BLK_SIZE # 0
      <4>1. PICK r : Step(u, "enqueue", "publish", r) /\ UNCHANGED blockIndex
        BY <2>1, <3>1 DEF Enqueue, p_of
      <4>2. QED
        BY <1>0, <2>0, <3>0, <4>1, QuietUserHands
    <3>2. CASE tailIndex[p] % BLK_SIZE = 0 /\ pc'[u] # "failed"
      <4>1. ~Step(u, "enqueue", "failed", my[u])
        BY <3>2, StepEffect DEF Typed
      <4>2. Step(u, "enqueue", "entry", my[u]) /\ SetKey(p, NextEntry(p), tailIndex[p])
        BY <2>1, <3>2, <4>1 DEF Enqueue, p_of, SetKey
      <4>3. QED
        BY <2>0, <3>0, <3>2, <4>2, NewEntryHands
    <3>3. CASE tailIndex[p] % BLK_SIZE = 0 /\ pc'[u] = "failed"
      <4>1. ~Step(u, "enqueue", "entry", my[u])
        BY <3>3, StepEffect DEF Typed
      <4>2. Step(u, "enqueue", "failed", my[u]) /\ UNCHANGED blockIndex
        BY <2>1, <3>3, <4>1 DEF Enqueue, p_of
      <4>3. QED
        BY <1>0, <2>0, <3>0, <4>2, QuietUserHands
    <3>4. QED
      BY <3>1, <3>2, <3>3
  <2>2. CASE InsertEntry(u) \/ LoadPool(u) \/ ClaimPool(u) \/ Publish(u, <<u, asked[u] + 1>>, "ask")
    <3>1. PICK l, m, r : Step(u, l, m, r)
      BY <2>2 DEF InsertEntry, LoadPool, ClaimPool, Publish
    <3>2. UNCHANGED <<blockIndex, elementsCompletelyDequeued>>
      BY <2>2 DEF InsertEntry, LoadPool, ClaimPool, Publish, index_vars, block_vars
    <3>3. QED
      BY <1>0, <2>0, <3>1, <3>2, QuietUserHands
  <2>3. CASE FromList(u)
    <3>0. UNCHANGED elementsCompletelyDequeued
      BY <2>3 DEF FromList, block_vars
    <3>1. CASE Gotten(u) # Null
      <4>1. PICK r : Step(u, "list", "fresh", r)
        BY <2>3, <3>1 DEF FromList
      <4>2. UNCHANGED blockIndex
        BY <2>3, <3>1 DEF FromList, index_vars
      <4>3. QED
        BY <1>0, <2>0, <3>0, <4>1, <4>2, QuietUserHands
    <3>2. CASE Gotten(u) = Null
      <4>1. Step(u, "list", "failed", my[u]) /\ SetValue(p, blockIndexTail[p], Null)
        BY <2>3, <3>2 DEF FromList, p_of, SetValue
      <4>2. QED
        BY <2>0, <3>0, <4>1, RewindHands
    <3>3. QED
      BY <3>1, <3>2
  <2>4. CASE Fresh(u)
    <3> PICK b : b = my[u].block
      OBVIOUS
    <3>1. /\ Step(u, "fresh", "publish", my[u]) /\ SetValue(p, blockIndexTail[p], b)
          /\ elementsCompletelyDequeued' = Put(elementsCompletelyDequeued, b, 0)
      BY <2>4 DEF Fresh, p_of, SetValue
    <3>2. QED
      BY <2>0, <3>1, FreshHands
  <2>5. QED
    BY <1>3, <2>1, <2>2, <2>3, <2>4 DEF EnqueueStep
<1>4. QED
  BY <1>1, <1>2, <1>3

LEMMA WorkerHandsStep ==
  ASSUME Typed, Counts, Rows, Hands, NEW w \in Workers, setup' = setup,
         \/ (LoadTail(w) /\ Unused) \/ Poll(w) \/ Score(w) \/ NextSub(w) \/ Serve(w)
         \/ DequeueStep(w) /\ UNCHANGED served
  PROVE  Hands'
<1> USE NullIsNoUser
<1> PICK p : p = my[w].p
  OBVIOUS
<1>0. DOMAIN my[w] = LocalNames
  BY DEF Typed, Control, LocalOK
<1>1. CASE Serve(w)
  <2>1. Step(w, "dequeued", "poll", Locals) /\ served' = served \cup {my[w].item}
    BY <1>1 DEF Serve
  <2>2. UNCHANGED <<producers, headIndex, blockIndex, elementsCompletelyDequeued>>
    BY <1>1 DEF Serve, hash_vars, block_vars, head_vars, index_vars
  <2>3. QED
    BY <2>1, <2>2, ServeHands
<1>2. CASE DequeueStep(w) /\ UNCHANGED served
  <2>0. UNCHANGED <<producers, tail_vars, blockIndexTail>>
    BY <1>2 DEF DequeueStep, hash_vars
  <2>1. CASE Advance(w)
    <3> DEFINE r == [my[w] EXCEPT !.index = headIndex[p]]
    <3>1. r.p = p /\ r.index = headIndex[p]
      BY <1>0 DEF LocalNames
    <3>2. /\ Step(w, "advance", "lookup", r) /\ headIndex' = Put(headIndex, p, headIndex[p] + 1)
          /\ UNCHANGED <<blockIndex, elementsCompletelyDequeued>>
      BY <2>1 DEF Advance, p_of, block_vars
    <3> HIDE DEF r
    <3>3. QED
      BY <1>2, <2>0, <3>1, <3>2, AdvanceHands
  <2>2. CASE LookUp(w)
    <3> DEFINE r == [my[w] EXCEPT !.slot = blockIndexTail[p]]
    <3>1. r.p = p /\ r.index = my[w].index /\ r.slot = blockIndexTail[p]
      BY <1>0 DEF LocalNames
    <3>2. /\ Step(w, "lookup", "locate", r)
          /\ UNCHANGED <<headIndex, blockIndex, elementsCompletelyDequeued>>
      BY <2>2 DEF LookUp, p_of, block_vars, head_vars
    <3> HIDE DEF r
    <3>3. QED
      BY <1>2, <2>0, <3>1, <3>2, LookUpHands
  <2>3. CASE TakeElement(w)
    <3> PICK f : f = EntryOf(p, my[w].index, my[w].slot)
      OBVIOUS
    <3> PICK b : b = ValueOf(p, f)
      OBVIOUS
    <3> DEFINE r == [my[w] EXCEPT !.slot = f, !.block = b,
                                  !.item = elements[b][my[w].index % BLK_SIZE]]
    <3>1. /\ r.p = p /\ r.index = my[w].index /\ r.slot = f /\ r.block = b
          /\ r.item = elements[b][my[w].index % BLK_SIZE]
      BY <1>0 DEF LocalNames
    <3>2. /\ Step(w, "locate", "empty", r)
          /\ UNCHANGED <<headIndex, blockIndex, elementsCompletelyDequeued>>
      BY <2>3 DEF TakeElement, p_of, ValueOf, block_vars, head_vars
    <3> HIDE DEF r
    <3>3. QED
      BY <1>2, <2>0, <3>1, <3>2, TakeHands
  <2>4. CASE SetEmpty(w)
    <3> PICK b : b = my[w].block
      OBVIOUS
    <3> PICK m : m = IF elementsCompletelyDequeued[b] = BLK_SIZE - 1 THEN "unlink" ELSE "dequeued"
      OBVIOUS
    <3>1. /\ Step(w, "empty", m, my[w])
          /\ elementsCompletelyDequeued' =
               Put(elementsCompletelyDequeued, b, elementsCompletelyDequeued[b] + 1)
          /\ UNCHANGED <<headIndex, blockIndex>>
      BY <2>4 DEF SetEmpty, head_vars
    <3>2. QED
      BY <1>2, <2>0, <3>1, SetEmptyHands
  <2>5. CASE Unlink(w)
    <3>1. /\ Step(w, "unlink", "dequeued", my[w]) /\ SetValue(my[w].p, my[w].slot, Null)
          /\ UNCHANGED <<headIndex, elementsCompletelyDequeued>>
      BY <2>5 DEF Unlink, SetValue, p_of, head_vars, block_vars
    <3>2. QED
      BY <1>2, <2>0, <3>1, UnlinkHands
  <2>6. CASE LoadCounts(w) \/ Try(w) \/ Reserve(w) \/ Again(w) \/ GiveBack(w)
    <3>1. PICK l, m, r : Step(w, l, m, r) /\ l \notin Handing /\ m \notin Handing
      BY <2>6 DEF LoadCounts, Try, Reserve, Again, GiveBack, Handing, InWork
    <3>2. UNCHANGED <<headIndex, blockIndex, elementsCompletelyDequeued>>
      BY <2>6 DEF LoadCounts, Try, Reserve, Again, GiveBack, head_vars, block_vars
    <3>3. QED
      BY <1>2, <2>0, <3>1, <3>2, QuietHands
  <2>7. QED
    BY <1>2, <2>1, <2>2, <2>3, <2>4, <2>5, <2>6 DEF DequeueStep
<1>3. CASE (LoadTail(w) /\ Unused) \/ Poll(w) \/ Score(w) \/ NextSub(w)
  <2>1. PICK l, m, r : Step(w, l, m, r) /\ l \notin Handing /\ m \notin Handing
    <3>1. CASE LoadTail(w) \/ Poll(w)
      BY <3>1 DEF LoadTail, Poll, Handing, InWork
    <3>2. CASE Score(w) \/ NextSub(w)
      BY <3>2 DEF Score, NextSub, Handing, InWork
    <3>3. QED
      BY <1>3, <3>1, <3>2
  <2>2. UNCHANGED <<producers, headIndex, blockIndex, elementsCompletelyDequeued, served>>
    BY <1>3 DEF Poll, Score, NextSub, Unused, hash_vars, block_vars, head_vars, index_vars
  <2>3. QED
    BY <2>1, <2>2, QuietHands
<1>4. QED
  BY <1>1, <1>2, <1>3

LEMMA HandsStep ==
  ASSUME Typed, Counts, Rows, Hands, NEW o, Lists(o), [Next]_vars
  PROVE  Hands'
<1> USE NullIsNoUser
<1>0. ASSUME UNCHANGED <<setup, producers, headIndex, blockIndex, elementsCompletelyDequeued,
                         served>>,
             \A x \in Actors : pc'[x] = pc[x] /\ my'[x] = my[x]
      PROVE  Hands'
  <2>1. \A p \in Producers : headIndex'[p] \in Nat /\ headIndex'[p] >= headIndex[p]
    BY <1>0 DEF Typed, Shared
  <2>2. \A p, e : KeyOf(p, e)' = KeyOf(p, e) /\ ValueOf(p, e)' = ValueOf(p, e)
    BY <1>0 DEF KeyOf, ValueOf
  <2>3. ASSUME NEW x \in Workers PROVE HandOK(x)'
    <3>1. HandOK(x) /\ pc'[x] = pc[x] /\ my'[x] = my[x]
      BY <1>0 DEF Hands
    <3>2. ValueOf(my[x].p, my[x].slot)' = ValueOf(my[x].p, my[x].slot)
      BY <1>0, <3>1 DEF ValueOf
    <3>3. QED
      BY <1>0, <2>1, <2>2, <3>1, <3>2, HandKeep
  <2>4. \A x, y \in Workers : x # y => Apart(x, y)'
    BY <1>0 DEF Hands, Apart
  <2>5. ASSUME NEW r \in served' PROVE ServedOK(r)'
    <3>1. ServedOK(r)
      BY <1>0 DEF Hands
    <3>2. \A p \in Producers : \A w \in Sub(p, Handing)' :
            w \in Sub(p, Handing) /\ my'[w].index = my[w].index
      BY <1>0 DEF Sub
    <3>3. QED
      BY <1>0, <2>1, <3>1, <3>2, ServedKeep
  <2>6. QED
    BY <2>3, <2>4, <2>5 DEF Hands
<1>1. CASE UNCHANGED queue_vars
  BY <1>0, <1>1 DEF queue_vars, hash_vars, head_vars, index_vars, block_vars
<1>2. ASSUME NEW a \in Actors, Thread(a) PROVE Hands'
  <2>1. setup' = setup
    BY <1>2 DEF Thread
  <2>2. CASE ListStep(a)
    BY <1>0, <2>1, <2>2 DEF ListStep, hash_vars, head_vars, index_vars, block_vars
  <2>3. CASE a \in Users /\ ~ListStep(a)
    <3>1. /\ \/ Ask(a) \/ CheckSize(a) \/ (LoadTail(a) /\ Unused) \/ GetProducer(a)
             \/ EnqueueStep(a, <<a, asked[a] + 1>>, "ask")
          /\ served' = served
      BY <1>2, <2>3, UserQueueAssumption DEF Thread, TryEnqueue, Unused, Ask, CheckSize
    <3>2. QED
      BY <2>1, <2>3, <3>1, UserHandsStep
  <2>4. CASE a \in Workers /\ ~ListStep(a)
    <3>1. \/ (LoadTail(a) /\ Unused) \/ Poll(a) \/ Score(a) \/ NextSub(a) \/ Serve(a)
          \/ DequeueStep(a) /\ UNCHANGED served
      BY <1>2, <2>4, UserQueueAssumption DEF Thread
    <3>2. QED
      BY <2>1, <2>4, <3>1, WorkerHandsStep
  <2>5. QED
    BY <2>2, <2>3, <2>4, UserQueueAssumption
<1>3. QED
  BY <1>1, <1>2, ThreadSteps

LEMMA RowsInit == Init /\ Typed => Rows
<1> USE SizeOK
<1> SUFFICES ASSUME Init, Typed PROVE Rows
  OBVIOUS
<1>1. /\ producers = <<>> /\ setup.entries \in Nat \ {0}
      /\ \A p \in Producers : /\ tailIndex[p] = 0 /\ headIndex[p] = 0
                              /\ blockIndexTail[p] = setup.entries - 1
                              /\ \A e \in Entries : KeyOf(p, e) = INVALID_BLOCK_BASE
                                                    /\ ValueOf(p, e) = Null
      /\ \A u \in Users : asked[u] = 0
  BY EntriesOK DEF Init, QueueInit, Entries, KeyOf, ValueOf, Typed
<1>2. (0 - 1) \div BLK_SIZE = -1 /\ 0 % BLK_SIZE = 0
  <2>1. 0 - 1 = BLK_SIZE * (-1) + (BLK_SIZE - 1) /\ BLK_SIZE - 1 \in 0 .. BLK_SIZE - 1
    OBVIOUS
  <2>2. 0 = BLK_SIZE * 0 + 0 /\ 0 \in 0 .. BLK_SIZE - 1
    OBVIOUS
  <2>3. (BLK_SIZE * (-1) + (BLK_SIZE - 1)) \div BLK_SIZE = -1
    BY <2>1, DivModUnique
  <2>4. (BLK_SIZE * 0 + 0) % BLK_SIZE = 0
    BY <2>2, DivModUnique
  <2>5. QED
    BY <2>1, <2>2, <2>3, <2>4
<1>3. Slot(-1) = setup.entries - 1
  <2> DEFINE n == setup.entries
  <2>1. n \in Nat \ {0} /\ -1 = n * (-1) + (n - 1) /\ n - 1 \in 0 .. n - 1
    BY <1>1
  <2> HIDE DEF n
  <2>2. (n * (-1) + (n - 1)) % n = n - 1
    BY <2>1, DivModUnique
  <2>3. (-1) % n = n - 1
    BY <2>1, <2>2
  <2>4. QED
    BY <2>3 DEF Slot, n
<1>4. ASSUME NEW p \in Producers PROVE RowOf(p)
  <2>1. OwnerPc(p) = "out"
    BY <1>1 DEF OwnerPc
  <2>2. Newest(p) = -1 /\ LastIn(p) = -1
    BY <1>1, <1>2, <2>1 DEF Newest, LastIn, Opening
  <2>3. KeysOf(p) /\ TailOf(p) /\ CountOf(p)
    BY <1>1, <1>3, <2>2 DEF KeysOf, TailOf, CountOf
  <2>4. KeptOf(p) /\ WrittenOf(p) /\ AskedOf(p)
    BY <1>1, <2>2 DEF KeptOf, WrittenOf, AskedOf
  <2>5. OpenOf(p)
    BY <1>1, <1>2, <2>1 DEF OpenOf, Opening
  <2>6. QED
    BY <2>3, <2>4, <2>5 DEF RowOf
<1>5. QED
  BY <1>1, <1>4 DEF Rows

LEMMA HandsInit == Init => Hands
<1> SUFFICES ASSUME Init PROVE Hands
  OBVIOUS
<1>1. /\ \A w \in Workers : pc[w] \in {"out", "poll"}
      /\ served = {}
  BY UserQueueAssumption DEF Init
<1>2. QED
  BY <1>1 DEF Hands, HandOK, Apart, Handing, InWork

(* The inductive invariant.                                                *)
Sound == Typed /\ Counts /\ (\E o : Lists(o)) /\ Rows /\ Hands

LEMMA SoundStep == Sound /\ [Next]_vars => Sound'
<1> SUFFICES ASSUME Sound, [Next]_vars PROVE Sound'
  OBVIOUS
<1>1. PICK o : Lists(o)
  BY DEF Sound
<1>2. Typed /\ Counts /\ Rows /\ Hands
  BY DEF Sound
<1>3. Typed'
  BY <1>2, TypedStep
<1>4. Counts'
  BY <1>2, CountsStep
<1>5. \E q : Lists(q)'
  <2>1. \A w \in Workers : pc[w] = "unlink" => Found(w)
    BY <1>2 DEF Hands, HandOK
  <2>2. QED
    BY <1>1, <1>2, <2>1, ListsStep
<1>6. Rows'
  BY <1>1, <1>2, RowsStep
<1>7. Hands'
  BY <1>1, <1>2, HandsStep
<1>8. (\E q : Lists(q))'
  BY <1>5
<1>9. QED
  BY <1>3, <1>4, <1>6, <1>7, <1>8 DEF Sound

LEMMA SoundHolds == FairSpec => []Sound
<1>1. Init => Sound
  BY TypedInit, CountsInit, ListsInit, RowsInit, HandsInit DEF Sound
<1>2. QED
  BY <1>1, SoundStep, PTL DEF FairSpec

-----------------------------------------------------------------------------
(* What follows from the inductive invariant.                              *)

LEMMA SoundTypes == Sound => TypeOK
<1> SUFFICES ASSUME Sound PROVE TypeOK
  OBVIOUS
<1>1. PICK o : Lists(o)
  BY DEF Sound
<1>2. Typed /\ Counts
  BY DEF Sound
<1>3. ASSUME NEW p \in Producers
      PROVE  headIndex[p] \in 0 .. tailIndex[p] /\ blockIndexTail[p] \in 0 .. setup.entries - 1
  <2>1. headIndex[p] \in Nat /\ tailIndex[p] \in Nat /\ headIndex[p] <= tailIndex[p]
    BY <1>2, HeadWithin
  <2>2. blockIndexTail[p] \in Entries
    BY <1>2 DEF Typed, Shared
  <2>3. QED
    BY <2>1, <2>2 DEF Entries
<1>4. ASSUME NEW b \in Blocks
      PROVE  freeListRefs[b].n \in 0 .. Cardinality(Actors) + 1
  <2>1. freeListRefs[b].n
          = Cardinality(Holders(b))
            + (IF o[b].kind = "list" \/ Kept(o, b, {"push", "undo", "got"}) THEN 1 ELSE 0)
    BY <1>1 DEF Lists, RefsOf
  <2>2. Cardinality(Holders(b)) \in Nat /\ Cardinality(Holders(b)) <= Cardinality(Actors)
    BY HoldersFinite
  <2>3. Cardinality(Actors) \in Nat
    BY FreeListAssumption, FS_CardinalityType
  <2>4. QED
    BY <2>1, <2>2, <2>3
<1>5. /\ freeListHead \in Blocks \cup {Null}
      /\ \A b \in Blocks : freeListNext[b] \in Blocks \cup {Null}
  BY <1>2 DEF Typed, ListTypes, BlockOrNull
<1>6. QED
  BY <1>3, <1>4, <1>5 DEF TypeOK

LEMMA SoundBlocks == Sound => BlocksOnce
<1> USE NullIsNoUser
<1> SUFFICES ASSUME Sound PROVE BlocksOnce
  OBVIOUS
<1>1. PICK o : Lists(o)
  BY DEF Sound
<1>2. Typed
  BY DEF Sound
<1> DEFINE used == {BlockIn(x) : x \in UsedEntries}
           pool == {Pool[n] : n \in {m \in DOMAIN Pool : m > initialBlockPoolIndex}}
           listed == {b \in Blocks : o[b].kind = "list"}
<1>3. \A x \in UsedEntries :
        /\ BlockIn(x) \in Blocks
        /\ o[BlockIn(x)].kind = "entry" /\ o[BlockIn(x)].by = x
  BY <1>1, <1>2, UsedBlock DEF Lists, OwnEntry
<1>4. \A b \in pool : o[b].kind = "pool"
  BY <1>1, PoolOK DEF Lists, OwnPool
<1>5. OnList \subseteq listed
  <2>1. Closed(listed)
    <3>1. ListOf(o) /\ freeListHead \in Blocks \cup {Null}
          /\ \A b \in Blocks : freeListNext[b] \in Blocks \cup {Null}
      BY <1>1, <1>2 DEF Lists, Typed, ListTypes, BlockOrNull
    <3>2. QED
      BY <3>1 DEF Closed, ListOf
  <2>2. listed \in SUBSET Blocks
    OBVIOUS
  <2>3. QED
    BY <2>1, <2>2 DEF OnList
<1>6. ASSUME NEW a \in Actors, NEW b \in InHand(a)
      PROVE  o[b].kind = "hand" /\ o[b].by = a
  <2>1. b \in Blocks /\ (\/ pc[a] = "fresh" /\ b = my[a].block
                         \/ b = fl[a].node /\ (pc[a] = "list" \/ ~At(a, "idle")))
    BY DEF InHand
  <2>2. \/ At(a, "idle") \/ fl[a].at \in Adding
        \/ fl[a].at \in Getting /\ fl[a].node = Null
    BY <1>1 DEF Lists, SpotOf
  <2>3. InHands(a, b)
    BY <2>1, <2>2 DEF InHands
  <2>4. QED
    BY <1>1, <2>1, <2>3 DEF Lists, OwnHand
<1>7. \A b \in used : o[b].kind = "entry"
  BY <1>3
<1>8. \A b \in OnList : o[b].kind = "list"
  BY <1>5
<1>9. \A x, y \in UsedEntries : BlockIn(x) = BlockIn(y) => x = y
  BY <1>3
<1> HIDE DEF used, pool, listed
<1>10. used \cap pool = {} /\ OnList \cap (used \cup pool) = {}
  BY <1>4, <1>7, <1>8
<1>11. \A a \in Actors :
         /\ InHand(a) \cap (used \cup pool \cup OnList) = {}
         /\ \A c \in Actors \ {a} : InHand(a) \cap InHand(c) = {}
  BY <1>4, <1>6, <1>7, <1>8
<1>12. QED
  BY <1>9, <1>10, <1>11 DEF BlocksOnce, used, pool

(* What a worker that has an index finds.                                  *)
LEMMA LocateFacts ==
  ASSUME Typed, Counts, Rows, Hands, NEW w \in Workers, pc[w] = "locate", NEW p, p = my[w].p,
         NEW i, i = my[w].index
  PROVE  /\ p \in Producers /\ i \in Nat /\ i < tailIndex[p] /\ Pending(p, i)
         /\ EntryOf(p, i, my[w].slot) = Slot(i \div BLK_SIZE)
         /\ KeyOf(p, Slot(i \div BLK_SIZE)) = i - (i % BLK_SIZE)
         /\ ValueOf(p, Slot(i \div BLK_SIZE)) \in Blocks
<1> USE NullIsNoUser, SizeOK
<1>1. p \in Producers /\ i \in Nat /\ my[w].slot \in Entries
  BY WorkerSub DEF WithSub, Typed, Control, LocalOK, Located
<1>2. i < tailIndex[p]
  <2>1. i < headIndex[p] /\ headIndex[p] \in Nat /\ tailIndex[p] \in Nat
        /\ headIndex[p] <= tailIndex[p]
    BY <1>1, RowTypes DEF Hands, HandOK, Handing, InWork
  <2>2. QED
    BY <1>1, <2>1
<1>3. RowOf(p) /\ KeysOf(p) /\ KeptOf(p)
  BY <1>1 DEF Rows, RowOf
<1>4. EntryOf(p, i, my[w].slot) = Slot(i \div BLK_SIZE)
  <2>1. KeyOf(p, my[w].slot) # INVALID_BLOCK_BASE
    BY DEF Hands, HandOK
  <2>2. QED
    BY <1>1, <1>3, <2>1, EntryOfOK
<1>5. Pending(p, i)
  BY DEF Pending, Sub, InWork
<1>6. PICK e \in Entries : e = Slot(i \div BLK_SIZE)
  BY <1>1, <1>2, <1>3, <1>5, PendingKept
<1>7. /\ KeyOf(p, e) # INVALID_BLOCK_BASE /\ Num(p, e) = i \div BLK_SIZE
      /\ ValueOf(p, e) \in Blocks
  BY <1>1, <1>2, <1>3, <1>5, <1>6, PendingKept
<1>8. KeyOf(p, e) \in Nat /\ KeyOf(p, e) % BLK_SIZE = 0
  BY <1>1, <1>3, <1>7, IndexTypes DEF KeysOf
<1>9. KeyOf(p, e) = i - (i % BLK_SIZE)
  <2>1. PICK k \in Nat, c \in Nat \ {0} : k = KeyOf(p, e) /\ c = BLK_SIZE
    BY <1>8
  <2>0. k \in Int /\ i \in Int /\ c \in Nat \ {0}
    BY <1>1, <2>1
  <2>2. /\ k \div c \in Int /\ k = c * (k \div c) + (k % c)
        /\ i \div c \in Int /\ i = c * (i \div c) + (i % c) /\ i % c \in 0 .. c - 1
    BY <2>0, DivMod
  <2>3. k % c = 0 /\ k \div c = i \div c
    BY <1>7, <1>8, <2>1 DEF Num
  <2>4. PICK n \in Int, r \in Int : n = i \div c /\ r = i % c
    BY <2>1, <2>2
  <2>5. k = c * n + 0 /\ i = c * n + r /\ c * n \in Int
    BY <2>1, <2>2, <2>3, <2>4
  <2>6. QED
    BY <2>1, <2>4, <2>5
<1>10. QED
  BY <1>1, <1>2, <1>4, <1>5, <1>6, <1>7, <1>9

LEMMA SoundAsserts == Sound => Asserts
<1> USE NullIsNoUser
<1> SUFFICES ASSUME Sound, NEW a \in Actors
             PROVE  /\ pc[a] = "locate" =>
                         LET e == blockIndex[p_of(a)][EntryOf(p_of(a), my[a].index, my[a].slot)]
                         IN  e.key = my[a].index - (my[a].index % BLK_SIZE) /\ e.value # Null
                    /\ pc[a] = "empty" => elementsCompletelyDequeued[my[a].block] < BLK_SIZE
                    /\ At(a, "got") => ~freeListRefs[fl[a].head].should
  BY DEF Asserts
<1>1. PICK o : Lists(o)
  BY DEF Sound
<1>2. Typed /\ Counts /\ Rows /\ Hands
  BY DEF Sound
<1>3. pc[a] \in {"locate", "empty"} => a \in Workers
  BY <1>2, UserQueueAssumption DEF Typed, Control, UserPlaces, Naming, Enqueueing
<1>4. ASSUME pc[a] = "locate"
      PROVE  LET e == blockIndex[p_of(a)][EntryOf(p_of(a), my[a].index, my[a].slot)]
             IN  e.key = my[a].index - (my[a].index % BLK_SIZE) /\ e.value # Null
  <2> PICK p, i, e : p = my[a].p /\ i = my[a].index /\ e = Slot(i \div BLK_SIZE)
    OBVIOUS
  <2>1. /\ EntryOf(p, i, my[a].slot) = e
        /\ KeyOf(p, e) = i - (i % BLK_SIZE) /\ ValueOf(p, e) \in Blocks
    BY <1>2, <1>3, <1>4, LocateFacts
  <2>2. QED
    BY <2>1 DEF p_of, KeyOf, ValueOf
<1>5. pc[a] = "empty" => elementsCompletelyDequeued[my[a].block] < BLK_SIZE
  BY <1>2, <1>3, EmptyFacts
<1>6. ASSUME At(a, "got") PROVE ~freeListRefs[fl[a].head].should
  <2> PICK b : b = fl[a].head
    OBVIOUS
  <2>1. b \in Blocks
    BY <1>2, <1>6 DEF Typed, ListTypes, ListOK, At
  <2>2. InHands(a, b)
    BY <1>6 DEF InHands
  <2>3. o[b].kind = "hand" /\ o[b].by = a
    BY <1>1, <2>1, <2>2 DEF Lists, OwnHand
  <2>4. ~Kept(o, b, {"top", "link", "count"})
    BY <1>6, <2>3 DEF Kept, At
  <2>5. QED
    BY <1>1, <2>1, <2>3, <2>4 DEF Lists, RefsOf
<1>7. QED
  BY <1>4, <1>5, <1>6

(* The queue's variables keep their types, and the head of a sub-queue     *)
(* never passes its tail.                                                  *)
THEOREM QueueTypes == FairSpec => []TypeOK
BY SoundHolds, SoundTypes, PTL

(* A block is in one place, for any threads, blocks and sizes.             *)
THEOREM BlocksHaveOneOwner == FairSpec => []BlocksOnce
BY SoundHolds, SoundBlocks, PTL

(* No assertion of concurrentqueue.h that is modelled fails.               *)
THEOREM AssertionsHold == FairSpec => []Asserts
BY SoundHolds, SoundAsserts, PTL

-----------------------------------------------------------------------------
(* The sub-queues as queues.                                               *)

(* The requests of u after the h-th, to the t-th.                          *)
Line(u, h, t) == [n \in 1 .. t - h |-> <<u, h + n>>]

LEMMA LineIs ==
  ASSUME NEW u, NEW h \in Nat, NEW t \in Nat, h <= t
  PROVE  /\ Line(u, h, t) \in Seq({u} \X Nat) /\ Len(Line(u, h, t)) = t - h
         /\ \A n \in 1 .. t - h : Line(u, h, t)[n] = <<u, h + n>>
<1>1. t - h \in Nat
  OBVIOUS
<1>2. \A n \in 1 .. t - h : <<u, h + n>> \in {u} \X Nat
  OBVIOUS
<1>3. Line(u, h, t) \in [1 .. t - h -> {u} \X Nat]
  BY <1>2 DEF Line
<1>4. QED
  BY <1>1, <1>3 DEF Line

LEMMA LineAppend ==
  ASSUME NEW u, NEW h \in Nat, NEW t \in Nat, h <= t
  PROVE  Line(u, h, t + 1) = Append(Line(u, h, t), <<u, t + 1>>)
<1> PICK S : S = {u} \X Nat
  OBVIOUS
<1> PICK a, b, e : a = Line(u, h, t + 1) /\ b = Line(u, h, t) /\ e = <<u, t + 1>>
  OBVIOUS
<1>0. t + 1 \in Nat /\ h <= t + 1 /\ t - h \in Nat
  OBVIOUS
<1>1. /\ a \in Seq(S) /\ Len(a) = t + 1 - h
      /\ \A n \in 1 .. t + 1 - h : a[n] = <<u, h + n>>
  <2>1. PICK s \in Nat : s = t + 1
    OBVIOUS
  <2>2. h <= s
    BY <2>1
  <2>3. /\ Line(u, h, s) \in Seq({u} \X Nat) /\ Len(Line(u, h, s)) = s - h
        /\ \A n \in 1 .. s - h : Line(u, h, s)[n] = <<u, h + n>>
    BY <2>2, LineIs
  <2>4. a = Line(u, h, s) /\ s - h = t + 1 - h
    BY <2>1
  <2>5. a \in Seq(S) /\ Len(a) = t + 1 - h
    BY <2>3, <2>4
  <2>6. \A n \in 1 .. t + 1 - h : a[n] = <<u, h + n>>
    BY <2>3, <2>4
  <2>7. QED
    BY <2>5, <2>6
<1>2. /\ b \in Seq(S) /\ Len(b) = t - h
      /\ \A n \in 1 .. t - h : b[n] = <<u, h + n>>
  BY LineIs, Zenon
<1>3. e \in S
  OBVIOUS
<1>4. /\ Append(b, e) \in Seq(S) /\ Len(Append(b, e)) = Len(b) + 1
      /\ \A n \in 1 .. Len(b) : Append(b, e)[n] = b[n]
      /\ Append(b, e)[Len(b) + 1] = e
  <2>1. b \in Seq(S)
    BY <1>2
  <2>2. QED
    BY <2>1, <1>3, AppendProperties
<1>5. \A n \in 1 .. Len(a) : a[n] = Append(b, e)[n]
  <2> SUFFICES ASSUME NEW n \in 1 .. Len(a) PROVE a[n] = Append(b, e)[n]
    OBVIOUS
  <2>1. a[n] = <<u, h + n>> /\ n \in Nat
    BY <1>0, <1>1
  <2>2. CASE n \in 1 .. t - h
    <3>1. Append(b, e)[n] = b[n] /\ b[n] = <<u, h + n>>
      BY <1>2, <1>4, <2>2
    <3>2. QED
      BY <2>1, <3>1
  <2>3. CASE n = t - h + 1
    <3>1. h + n = t + 1 /\ n = Len(b) + 1
      BY <1>2, <2>3
    <3>2. Append(b, e)[n] = e
      BY <1>4, <3>1
    <3>3. QED
      BY <2>1, <3>1, <3>2
  <2>4. n \in 1 .. t - h \/ n = t - h + 1
    BY <1>0, <1>1, <2>1
  <2>5. QED
    BY <2>2, <2>3, <2>4
<1>6. Len(a) = Len(Append(b, e))
  BY <1>0, <1>1, <1>2, <1>4
<1>7. a = Append(b, e)
  BY <1>1, <1>4, <1>5, <1>6, SeqEqual, Zenon
<1>8. QED
  BY <1>7

LEMMA LineTail ==
  ASSUME NEW u, NEW h \in Nat, NEW t \in Nat, h < t
  PROVE  /\ Line(u, h, t) # <<>> /\ Head(Line(u, h, t)) = <<u, h + 1>>
         /\ Tail(Line(u, h, t)) = Line(u, h + 1, t)
<1> PICK S : S = {u} \X Nat
  OBVIOUS
<1> PICK a, b : a = Line(u, h, t) /\ b = Line(u, h + 1, t)
  OBVIOUS
<1>0. h + 1 \in Nat /\ h <= t /\ h + 1 <= t /\ t - h \in Nat \ {0} /\ 1 \in 1 .. t - h
  OBVIOUS
<1>1. /\ a \in Seq(S) /\ Len(a) = t - h
      /\ \A n \in 1 .. t - h : a[n] = <<u, h + n>>
  BY <1>0, LineIs, Zenon
<1>2. /\ b \in Seq(S) /\ Len(b) = t - (h + 1)
      /\ \A n \in 1 .. t - (h + 1) : b[n] = <<u, (h + 1) + n>>
  BY <1>0, LineIs, Zenon
<1>3. a # <<>>
  BY <1>0, <1>1, EmptySeq
<1>4. /\ Tail(a) \in Seq(S) /\ Len(Tail(a)) = Len(a) - 1
      /\ \A n \in 1 .. Len(Tail(a)) : Tail(a)[n] = a[n + 1]
  BY <1>1, <1>3, HeadTailProperties, Zenon
<1>5. Head(a) = <<u, h + 1>>
  BY <1>0, <1>1
<1>6. Len(Tail(a)) = Len(b) /\ Len(b) = t - h - 1
  BY <1>0, <1>1, <1>2, <1>4
<1>7. \A n \in 1 .. Len(Tail(a)) : Tail(a)[n] = b[n]
  <2> SUFFICES ASSUME NEW n \in 1 .. Len(Tail(a)) PROVE Tail(a)[n] = b[n]
    OBVIOUS
  <2>1. n \in 1 .. t - (h + 1) /\ n + 1 \in 1 .. t - h /\ h + (n + 1) = (h + 1) + n
    BY <1>0, <1>6
  <2>2. Tail(a)[n] = a[n + 1] /\ a[n + 1] = <<u, h + (n + 1)>> /\ b[n] = <<u, (h + 1) + n>>
    BY <1>1, <1>2, <1>4, <2>1, Zenon
  <2>3. QED
    BY <2>1, <2>2
<1>8. Tail(a) = b
  BY <1>2, <1>4, <1>6, <1>7, SeqEqual, Zenon
<1>9. QED
  BY <1>3, <1>5, <1>8

LEMMA LineEmpty ==
  ASSUME NEW u, NEW h \in Nat
  PROVE  Line(u, h, h) = <<>>
<1>1. h <= h /\ h - h = 0
  OBVIOUS
<1>2. Line(u, h, h) \in Seq({u} \X Nat) /\ Len(Line(u, h, h)) = 0
  BY <1>1, LineIs
<1>3. QED
  BY <1>2, EmptySeq

(* The index's tail has a key once an element was put.                     *)
LEMMA TailKey ==
  ASSUME Typed, Counts, Rows, NEW p \in Producers, tailIndex[p] > 0
  PROVE  KeyOf(p, blockIndexTail[p]) # INVALID_BLOCK_BASE
<1> USE NullIsNoUser
<1>1. tailIndex[p] \in Nat /\ blockIndexTail[p] \in Entries
  BY RowTypes DEF Typed, Shared
<1>2. RowOf(p) /\ KeysOf(p) /\ TailOf(p) /\ OpenOf(p)
  BY DEF Rows, RowOf
<1>3. blockIndexTail[p] = Slot(Newest(p))
  BY <1>2 DEF TailOf
<1>4. CASE Newest(p) = (tailIndex[p] - 1) \div BLK_SIZE
  BY <1>2, <1>3, <1>4 DEF OpenOf
<1>5. CASE Newest(p) # (tailIndex[p] - 1) \div BLK_SIZE
  <2>1. /\ Newest(p) = tailIndex[p] \div BLK_SIZE
        /\ OwnerPc(p) \in Opening \cup {"publish"}
    BY <1>5 DEF Newest
  <2>2. CASE OwnerPc(p) = "publish"
    <3>1. ValueOf(p, blockIndexTail[p]) \in Blocks
      BY <1>2, <1>3, <2>1, <2>2 DEF OpenOf
    <3>2. QED
      BY <1>1, <1>2, <3>1 DEF KeysOf
  <2>3. CASE OwnerPc(p) \in Opening
    <3>1. KeyOf(p, blockIndexTail[p]) = tailIndex[p] /\ tailIndex[p] % BLK_SIZE = 0
      BY <1>2, <1>3, <2>1, <2>3 DEF OpenOf
    <3>2. tailIndex[p] # INVALID_BLOCK_BASE
      BY <1>1, <3>1, BaseNotInvalid
    <3>3. QED
      BY <3>1, <3>2
  <2>4. QED
    BY <2>1, <2>2, <2>3
<1>6. QED
  BY <1>4, <1>5

(* Every index that is not taken out has its request.                      *)
LEMMA ElementIs ==
  ASSUME Typed, Counts, Rows, NEW p \in Producers, NEW i \in Nat, i < tailIndex[p],
         Pending(p, i)
  PROVE  ElementAt(p, i) = <<producers[p], i + 1>>
<1> USE NullIsNoUser
<1>1. tailIndex[p] \in Nat /\ blockIndexTail[p] \in Entries /\ tailIndex[p] > 0
  <2>1. tailIndex[p] \in Nat
    BY RowTypes
  <2>2. QED
    BY <2>1 DEF Typed, Shared
<1>2. RowOf(p) /\ KeysOf(p) /\ KeptOf(p) /\ WrittenOf(p)
  BY DEF Rows, RowOf
<1>3. EntryOf(p, i, blockIndexTail[p]) = Slot(i \div BLK_SIZE)
  BY <1>1, <1>2, TailKey, EntryOfOK
<1>4. ValueOf(p, Slot(i \div BLK_SIZE)) \in Blocks
  BY <1>2, PendingKept
<1>5. elements[ValueOf(p, Slot(i \div BLK_SIZE))][i % BLK_SIZE] = <<producers[p], i + 1>>
  BY <1>1, <1>2 DEF WrittenOf
<1>6. QED
  BY <1>3, <1>4, <1>5 DEF ElementAt, ValueOf

Item(w) == <<producers[my[w].p], my[w].index + 1>>

(* The queue of a user, from the head of its sub-queue to the tail.        *)
QueueFacts ==
  /\ \A p \in 1 .. Len(producers) :
       /\ producers[p] \in Users
       /\ headIndex[p] \in Nat /\ tailIndex[p] \in Nat /\ headIndex[p] <= tailIndex[p]
  /\ \A u \in Users, p \in 1 .. Len(producers) : producers[p] = u =>
       QueueOf(u) = Line(u, headIndex[p], tailIndex[p]) /\ asked[u] = tailIndex[p]
  /\ \A u \in Users : ~InRange(u) => QueueOf(u) = <<>> /\ asked[u] = 0
  /\ \A w \in Workers : HandOf(w) = IF pc[w] \in Handing THEN Item(w) ELSE NoRequest

LEMMA QueueNow == Sound => QueueFacts
<1> USE NullIsNoUser
<1> SUFFICES ASSUME Sound PROVE QueueFacts
  OBVIOUS
<1>1. Typed /\ Counts /\ Rows /\ Hands
  BY DEF Sound
<1>2. ASSUME NEW p \in 1 .. Len(producers)
      PROVE  /\ producers[p] \in Users /\ asked[producers[p]] = tailIndex[p]
             /\ headIndex[p] \in Nat /\ tailIndex[p] \in Nat /\ headIndex[p] <= tailIndex[p]
             /\ QueueOf(producers[p]) = Line(producers[p], headIndex[p], tailIndex[p])
  <2>1. p \in Producers
    BY <1>1, FewProducers DEF Typed, Known
  <2>2. headIndex[p] \in Nat /\ tailIndex[p] \in Nat /\ headIndex[p] <= tailIndex[p]
    BY <1>1, <2>1, RowTypes
  <2>3. asked[producers[p]] = tailIndex[p]
    BY <1>1, <2>1 DEF Rows, RowOf, AskedOf
  <2>4. producers[p] \in Users /\ DOMAIN producers = 1 .. Len(producers)
    BY <1>1 DEF Typed, Known, HashTypes
  <2> DEFINE own == {q \in DOMAIN producers : producers[q] = producers[p]}
             c == CHOOSE q \in own : TRUE
  <2>5. own = {p}
    BY <1>1, <2>4 DEF Typed, Known, OneEach
  <2>6. c = p
    BY <2>5
  <2>7. QueueOf(producers[p])
          = [n \in 1 .. tailIndex[p] - headIndex[p] |-> ElementAt(p, headIndex[p] + n - 1)]
    BY <2>5, <2>6 DEF QueueOf
  <2>8. ASSUME NEW n \in 1 .. tailIndex[p] - headIndex[p]
        PROVE  ElementAt(p, headIndex[p] + n - 1) = <<producers[p], headIndex[p] + n>>
    <3>1. PICK i \in Nat : i = headIndex[p] + n - 1 /\ i < tailIndex[p] /\ i >= headIndex[p]
      BY <2>2
    <3>2. Pending(p, i)
      BY <3>1 DEF Pending
    <3>3. ElementAt(p, i) = <<producers[p], i + 1>> /\ i + 1 = headIndex[p] + n
      BY <1>1, <2>1, <2>2, <3>1, <3>2, ElementIs
    <3>4. QED
      BY <3>1, <3>3
  <2>9. QueueOf(producers[p]) = Line(producers[p], headIndex[p], tailIndex[p])
    BY <2>7, <2>8 DEF Line
  <2>10. QED
    BY <2>2, <2>3, <2>4, <2>9
<1>3. ASSUME NEW u \in Users, ~InRange(u) PROVE QueueOf(u) = <<>> /\ asked[u] = 0
  <2>1. DOMAIN producers = 1 .. Len(producers)
    BY <1>1 DEF Typed, Known, HashTypes
  <2>2. {q \in DOMAIN producers : producers[q] = u} = {}
    BY <1>3, <2>1 DEF InRange
  <2>3. QED
    BY <1>1, <1>3, <2>2 DEF QueueOf, Rows
<1>4. ASSUME NEW w \in Workers
      PROVE  HandOf(w) = IF pc[w] \in Handing THEN Item(w) ELSE NoRequest
  <2>1. CASE pc[w] \in {"lookup", "locate"}
    <3> PICK p, i : p = my[w].p /\ i = my[w].index
      OBVIOUS
    <3>1. p \in Producers /\ i \in Nat /\ pc[w] \in Handing
      BY <1>1, <2>1, WorkerSub DEF WithSub, Typed, Control, LocalOK, Handing, InWork
    <3>2. i < headIndex[p] /\ headIndex[p] \in Nat /\ tailIndex[p] \in Nat
          /\ headIndex[p] <= tailIndex[p]
      BY <1>1, <3>1, RowTypes DEF Hands, HandOK
    <3>3. i < tailIndex[p]
      BY <3>1, <3>2
    <3>4. Pending(p, i)
      BY <2>1 DEF Pending, Sub, InWork
    <3>5. ElementAt(p, i) = <<producers[p], i + 1>>
      BY <1>1, <3>1, <3>3, <3>4, ElementIs
    <3>6. HandOf(w) = ElementAt(p, i)
      BY <2>1 DEF HandOf, p_of
    <3>7. QED
      BY <3>1, <3>5, <3>6 DEF Item
  <2>2. CASE pc[w] \in {"empty", "unlink", "dequeued"}
    <3>1. my[w].item = <<producers[my[w].p], my[w].index + 1>>
      BY <1>1, <2>2 DEF Hands, HandOK
    <3>2. HandOf(w) = my[w].item /\ pc[w] \in Handing
      BY <2>2 DEF HandOf, Handing, InWork
    <3>3. QED
      BY <3>1, <3>2 DEF Item
  <2>3. CASE pc[w] \notin {"lookup", "locate", "empty", "unlink", "dequeued"}
    BY <2>3 DEF HandOf, Handing, InWork
  <2>4. QED
    BY <2>1, <2>2, <2>3
<1>5. QED
  BY <1>2, <1>3, <1>4 DEF QueueFacts

LEMMA QueueLater == Sound' => QueueFacts'
BY QueueNow, PTL

(* The abstract state.                                                     *)
Queues == [u \in Users |-> QueueOf(u)]
Took == [w \in Workers |-> HandOf(w)]

(* The sub-queues stay in their order.                                     *)
Longer == \A p \in 1 .. Len(producers) : p \in 1 .. Len(producers)' /\ producers'[p] = producers[p]

LEMMA QueueSame ==
  ASSUME QueueFacts, QueueFacts', NEW u \in Users, asked'[u] = asked[u], Longer,
         \A p \in 1 .. Len(producers) : producers[p] = u => headIndex'[p] = headIndex[p]
  PROVE  QueueOf(u)' = QueueOf(u)
<1>1. CASE InRange(u)
  <2>1. PICK p \in 1 .. Len(producers) : producers[p] = u
    BY <1>1 DEF InRange
  <2>2. QueueOf(u) = Line(u, headIndex[p], tailIndex[p]) /\ asked[u] = tailIndex[p]
    BY <2>1 DEF QueueFacts
  <2>3. p \in 1 .. Len(producers)' /\ producers'[p] = u /\ headIndex'[p] = headIndex[p]
    BY <2>1 DEF Longer
  <2>4. QueueOf(u)' = Line(u, headIndex[p], tailIndex[p])' /\ asked'[u] = tailIndex'[p]
    BY <2>3 DEF QueueFacts
  <2>5. QED
    BY <2>2, <2>3, <2>4 DEF Line
<1>2. CASE ~InRange(u)
  <2>1. QueueOf(u) = <<>> /\ asked[u] = 0
    BY <1>2 DEF QueueFacts
  <2>2. CASE ~InRange(u)'
    <3>1. QueueOf(u)' = <<>>
      BY <2>2 DEF QueueFacts
    <3>2. QED
      BY <2>1, <3>1
  <2>3. CASE InRange(u)'
    <3>1. PICK p \in 1 .. Len(producers)' : producers'[p] = u
      BY <2>3 DEF InRange
    <3>2. /\ QueueOf(u)' = Line(u, headIndex'[p], tailIndex'[p]) /\ asked'[u] = tailIndex'[p]
          /\ headIndex'[p] \in Nat /\ tailIndex'[p] \in Nat /\ headIndex'[p] <= tailIndex'[p]
      BY <3>1 DEF QueueFacts, Line
    <3>3. headIndex'[p] = 0 /\ tailIndex'[p] = 0
      BY <2>1, <3>2
    <3>4. Line(u, 0, 0) = <<>>
      BY LineEmpty
    <3>5. QED
      BY <2>1, <3>2, <3>3, <3>4
  <2>4. QED
    BY <2>2, <2>3
<1>3. QED
  BY <1>1, <1>2

LEMMA HandSame ==
  ASSUME Typed, QueueFacts, QueueFacts', NEW w \in Workers, Longer,
         \/ pc'[w] = pc[w] /\ my'[w] = my[w]
         \/ pc[w] \notin Handing /\ pc'[w] \notin Handing
         \/ /\ pc[w] \in Handing /\ pc'[w] \in Handing
            /\ my'[w].p = my[w].p /\ my'[w].index = my[w].index
  PROVE  HandOf(w)' = HandOf(w)
<1> USE NullIsNoUser
<1>1. CASE pc[w] \in Handing
  <2>1. my[w].p \in 1 .. Len(producers)
    BY <1>1, WorkerSub DEF WithSub, Handing, InWork
  <2>2. Item(w)' = Item(w) /\ pc'[w] \in Handing
    BY <1>1, <2>1 DEF Item, Longer
  <2>3. HandOf(w) = Item(w) /\ HandOf(w)' = Item(w)'
    BY <1>1, <2>2 DEF QueueFacts
  <2>4. QED
    BY <2>2, <2>3
<1>2. CASE pc[w] \notin Handing
  <2>1. HandOf(w) = NoRequest /\ HandOf(w)' = NoRequest'
    BY <1>2 DEF QueueFacts
  <2>2. QED
    BY <2>1 DEF NoRequest
<1>3. QED
  BY <1>1, <1>2

(* A step that neither puts, takes nor serves.                             *)
LEMMA Stutters ==
  ASSUME Typed, QueueFacts, QueueFacts', Longer, asked' = asked, served' = served,
         headIndex' = headIndex,
         \A w \in Workers :
           \/ pc'[w] = pc[w] /\ my'[w] = my[w]
           \/ pc[w] \notin Handing /\ pc'[w] \notin Handing
           \/ /\ pc[w] \in Handing /\ pc'[w] \in Handing
              /\ my'[w].p = my[w].p /\ my'[w].index = my[w].index
  PROVE  UNCHANGED <<asked, Queues, Took, served>>
<1>1. \A u \in Users : QueueOf(u)' = QueueOf(u)
  BY QueueSame
<1>2. \A w \in Workers : HandOf(w)' = HandOf(w)
  BY HandSame
<1>3. QED
  BY <1>1, <1>2 DEF Queues, Took

LEMMA PutStep ==
  ASSUME Typed, QueueFacts, QueueFacts', NEW u \in Users, NEW r, Step(u, "publish", "ask", r),
         asked' = Put(asked, u, asked[u] + 1),
         UNCHANGED <<producers, headIndex, served>>
  PROVE  Abstract!Put(u)
<1> USE NullIsNoUser
<1>1. /\ pc[u] = "publish"
      /\ \A x \in Actors \ {u} : pc'[x] = pc[x] /\ my'[x] = my[x]
  BY StepEffect DEF Typed
<1>2. /\ DOMAIN asked = Users /\ asked[u] \in Nat
      /\ asked'[u] = asked[u] + 1 /\ \A v \in Users \ {u} : asked'[v] = asked[v]
  BY DEF Put, Typed, Shared
<1>3. Longer
  BY DEF Longer
<1>4. \A w \in Workers : HandOf(w)' = HandOf(w)
  BY <1>1, <1>3, HandSame, UserQueueAssumption
<1>5. \A v \in Users \ {u} : QueueOf(v)' = QueueOf(v)
  BY <1>2, <1>3, QueueSame
<1>6. QueueOf(u)' = Append(QueueOf(u), <<u, asked[u] + 1>>)
  <2>1. PICK p \in 1 .. Len(producers) : producers[p] = u
    BY <1>1 DEF Typed, Known, NamingOf, Owns, Enqueueing
  <2>2. /\ QueueOf(u) = Line(u, headIndex[p], tailIndex[p]) /\ asked[u] = tailIndex[p]
        /\ headIndex[p] \in Nat /\ tailIndex[p] \in Nat /\ headIndex[p] <= tailIndex[p]
    BY <2>1 DEF QueueFacts
  <2>3. QueueOf(u)' = Line(u, headIndex'[p], tailIndex'[p]) /\ asked'[u] = tailIndex'[p]
    BY <2>1 DEF QueueFacts, Line
  <2>4. QueueOf(u)' = Line(u, headIndex[p], tailIndex[p] + 1)
    BY <1>2, <2>2, <2>3
  <2>5. QED
    BY <2>2, <2>4, LineAppend
<1>7. Took' = Took
  BY <1>4 DEF Took
<1>8. Queues' = [Queues EXCEPT ![u] = Append(Queues[u], <<u, asked'[u]>>)]
  <2>1. Queues' = [v \in Users |-> QueueOf(v)'] /\ Queues[u] = QueueOf(u)
    BY DEF Queues
  <2>2. \A v \in Users : QueueOf(v)' = IF v = u THEN Append(QueueOf(u), <<u, asked'[u]>>)
                                       ELSE QueueOf(v)
    BY <1>2, <1>5, <1>6
  <2>3. QED
    BY <2>1, <2>2 DEF Queues
<1>9. asked' = [asked EXCEPT ![u] = asked[u] + 1]
  BY DEF Put
<1>10. QED
  BY <1>7, <1>8, <1>9 DEF Abstract!Put, Queues, Took

LEMMA TakeStep ==
  ASSUME Typed, QueueFacts, QueueFacts', NEW w \in Workers, NEW p, p = my[w].p, NEW r,
         Step(w, "advance", "lookup", r), r.p = p, r.index = headIndex[p],
         headIndex' = Put(headIndex, p, headIndex[p] + 1), headIndex[p] < tailIndex[p],
         UNCHANGED <<producers, asked, served>>
  PROVE  \E u \in Users : Abstract!Take(w, u)
<1> USE NullIsNoUser
<1>1. /\ pc[w] = "advance" /\ pc'[w] = "lookup" /\ my'[w] = r
      /\ \A x \in Actors \ {w} : pc'[x] = pc[x] /\ my'[x] = my[x]
  BY StepEffect DEF Typed
<1>2. p \in 1 .. Len(producers) /\ p \in Producers
  BY <1>1, WorkerSub DEF WithSub
<1>3. PICK u \in Users : u = producers[p]
  BY <1>2 DEF QueueFacts
<1>4. headIndex'[p] = headIndex[p] + 1
      /\ \A q \in Producers \ {p} : headIndex'[q] = headIndex[q]
  BY <1>2 DEF Put, Typed, Shared
<1>5. Longer
  BY DEF Longer
<1>6. \A v \in Users \ {u} : QueueOf(v)' = QueueOf(v)
  <2>1. 1 .. Len(producers) \subseteq Producers
    BY FewProducers DEF Typed, Known
  <2>2. QED
    BY <1>3, <1>4, <1>5, <2>1, QueueSame
<1>7. /\ QueueOf(u) = Line(u, headIndex[p], tailIndex[p]) /\ asked[u] = tailIndex[p]
      /\ headIndex[p] \in Nat /\ tailIndex[p] \in Nat
  BY <1>2, <1>3 DEF QueueFacts
<1>8. QueueOf(u)' = Line(u, headIndex[p] + 1, tailIndex[p])
  <2>1. QueueOf(u)' = Line(u, headIndex'[p], tailIndex'[p]) /\ asked'[u] = tailIndex'[p]
    BY <1>2, <1>3 DEF QueueFacts, Line
  <2>2. QED
    BY <1>4, <1>7, <2>1
<1>9. /\ QueueOf(u) # <<>> /\ Head(QueueOf(u)) = <<u, headIndex[p] + 1>>
      /\ QueueOf(u)' = Tail(QueueOf(u))
  <2>1. PICK h \in Nat, t \in Nat : h = headIndex[p] /\ t = tailIndex[p]
    BY <1>7
  <2>2. h < t
    BY <2>1
  <2>3. /\ Line(u, h, t) # <<>> /\ Head(Line(u, h, t)) = <<u, h + 1>>
        /\ Tail(Line(u, h, t)) = Line(u, h + 1, t)
    BY <2>2, LineTail
  <2>4. QueueOf(u) = Line(u, h, t) /\ QueueOf(u)' = Line(u, h + 1, t)
    BY <1>7, <1>8, <2>1
  <2>5. QED
    BY <2>1, <2>3, <2>4
<1>10. \A x \in Workers \ {w} : HandOf(x)' = HandOf(x)
  BY <1>1, <1>5, HandSame
<1>11. HandOf(w) = NoRequest /\ HandOf(w)' = <<u, headIndex[p] + 1>>
  <2>1. pc[w] \notin Handing /\ pc'[w] \in Handing
    BY <1>1 DEF Handing, InWork
  <2>2. HandOf(w) = NoRequest /\ HandOf(w)' = Item(w)'
    BY <2>1 DEF QueueFacts
  <2>3. Item(w)' = <<u, headIndex[p] + 1>>
    BY <1>1, <1>3 DEF Item
  <2>4. QED
    BY <2>2, <2>3
<1>12. Queues' = [Queues EXCEPT ![u] = Tail(Queues[u])]
  <2>1. Queues' = [v \in Users |-> QueueOf(v)'] /\ Queues[u] = QueueOf(u)
    BY DEF Queues
  <2>2. \A v \in Users : QueueOf(v)' = IF v = u THEN Tail(QueueOf(u)) ELSE QueueOf(v)
    BY <1>6, <1>9
  <2>3. QED
    BY <2>1, <2>2 DEF Queues
<1>13. Took' = [Took EXCEPT ![w] = Head(Queues[u])]
  <2>1. Took' = [x \in Workers |-> HandOf(x)'] /\ Queues[u] = QueueOf(u)
    BY DEF Took, Queues
  <2>2. \A x \in Workers : HandOf(x)' = IF x = w THEN Head(QueueOf(u)) ELSE HandOf(x)
    BY <1>9, <1>10, <1>11
  <2>3. QED
    BY <2>1, <2>2 DEF Took
<1>14. Took[w] = NoRequest /\ Queues[u] # <<>>
  BY <1>9, <1>11 DEF Took, Queues
<1>15. Abstract!Take(w, u)
  BY <1>12, <1>13, <1>14 DEF Abstract!Take, Queues, Took
<1>16. QED
  BY <1>15

LEMMA ServeStep ==
  ASSUME Typed, Hands, QueueFacts, QueueFacts', NEW w \in Workers, NEW r,
         Step(w, "dequeued", "poll", r), served' = served \cup {my[w].item},
         UNCHANGED <<producers, headIndex, asked>>
  PROVE  Abstract!Serve(w)
<1> USE NullIsNoUser
<1>1. /\ pc[w] = "dequeued" /\ pc'[w] = "poll"
      /\ \A x \in Actors \ {w} : pc'[x] = pc[x] /\ my'[x] = my[x]
  BY StepEffect DEF Typed
<1>2. Longer
  BY DEF Longer
<1>3. \A u \in Users : QueueOf(u)' = QueueOf(u)
  BY <1>2, QueueSame
<1>4. \A x \in Workers \ {w} : HandOf(x)' = HandOf(x)
  BY <1>1, <1>2, HandSame
<1>5. HandOf(w) = my[w].item /\ my[w].item = Item(w) /\ HandOf(w)' = NoRequest
  <2>1. pc[w] \in Handing /\ pc'[w] \notin Handing
    BY <1>1 DEF Handing, InWork
  <2>2. HandOf(w) = Item(w) /\ HandOf(w)' = NoRequest'
    BY <2>1 DEF QueueFacts
  <2>3. my[w].item = Item(w)
    BY <1>1 DEF Hands, HandOK, Item
  <2>4. QED
    BY <2>2, <2>3 DEF NoRequest
<1>6. Item(w) # NoRequest
  BY DEF Item, NoRequest
<1>7. ASSUME my[w].item \in served PROVE FALSE
  <2>1. ServedOK(my[w].item)
    BY <1>7 DEF Hands
  <2>2. PICK p, i :
          /\ p \in 1 .. Len(producers) /\ i \in 0 .. headIndex[p] - 1
          /\ my[w].item = <<producers[p], i + 1>>
          /\ \A x \in Sub(p, Handing) : my[x].index # i
    BY <2>1 DEF ServedOK
  <2>3. my[w].p \in 1 .. Len(producers) /\ my[w].index \in Nat
    BY <1>1, WorkerSub DEF WithSub, Typed, Control, LocalOK
  <2>4. producers[p] = producers[my[w].p] /\ i + 1 = my[w].index + 1
    BY <1>5, <2>2 DEF Item
  <2>5. p = my[w].p
    BY <2>2, <2>3, <2>4 DEF Typed, Known, OneEach
  <2>6. headIndex[p] \in Nat
    BY <2>2 DEF QueueFacts
  <2>7. i = my[w].index
    BY <2>2, <2>3, <2>4, <2>6
  <2>8. w \in Sub(p, Handing)
    BY <1>1, <2>5 DEF Sub, Handing
  <2>9. QED
    BY <2>2, <2>7, <2>8
<1>8. Queues' = Queues
  BY <1>3 DEF Queues
<1>9. Took' = [Took EXCEPT ![w] = NoRequest] /\ Took[w] = my[w].item
  <2>1. Took' = [x \in Workers |-> HandOf(x)']
    BY DEF Took
  <2>2. \A x \in Workers : HandOf(x)' = IF x = w THEN NoRequest ELSE HandOf(x)
    BY <1>4, <1>5
  <2>3. QED
    BY <1>5, <2>1, <2>2 DEF Took
<1>10. QED
  BY <1>5, <1>6, <1>7, <1>8, <1>9 DEF Abstract!Serve, Queues, Took

-----------------------------------------------------------------------------
(* Every step puts, takes or serves, or does none of these.                *)

Abstracted == <<asked, Queues, Took, served>>

LEMMA QuietUser ==
  ASSUME Typed, QueueFacts, QueueFacts', NEW u \in Users, NEW l, NEW m, NEW r, Step(u, l, m, r),
         Longer, UNCHANGED <<asked, served, headIndex>>
  PROVE  UNCHANGED Abstracted
<1>1. \A x \in Actors \ {u} : pc'[x] = pc[x] /\ my'[x] = my[x]
  BY StepEffect, UserQueueAssumption DEF Typed
<1>2. \A w \in Workers : pc'[w] = pc[w] /\ my'[w] = my[w]
  BY <1>1, UserQueueAssumption
<1>3. QED
  BY <1>2, Stutters DEF Abstracted

LEMMA QuietWorker ==
  ASSUME Typed, QueueFacts, QueueFacts', NEW w \in Workers, NEW l, NEW m, NEW r, Step(w, l, m, r),
         \/ l \notin Handing /\ m \notin Handing
         \/ l \in Handing /\ m \in Handing /\ r.p = my[w].p /\ r.index = my[w].index,
         UNCHANGED <<producers, asked, served, headIndex>>
  PROVE  UNCHANGED Abstracted
<1>1. /\ pc[w] = l /\ pc'[w] = m /\ my'[w] = r
      /\ \A x \in Actors \ {w} : pc'[x] = pc[x] /\ my'[x] = my[x]
  BY StepEffect, UserQueueAssumption DEF Typed
<1>2. Longer
  BY DEF Longer
<1>3. \A x \in Workers :
        \/ pc'[x] = pc[x] /\ my'[x] = my[x]
        \/ pc[x] \notin Handing /\ pc'[x] \notin Handing
        \/ /\ pc[x] \in Handing /\ pc'[x] \in Handing
           /\ my'[x].p = my[x].p /\ my'[x].index = my[x].index
  BY <1>1, UserQueueAssumption
<1>4. QED
  BY <1>2, <1>3, Stutters DEF Abstracted

LEMMA UserRefines ==
  ASSUME Typed, QueueFacts, QueueFacts', NEW u \in Users, setup' = setup, served' = served,
         \/ Ask(u) \/ CheckSize(u) \/ (LoadTail(u) /\ Unused) \/ TryEnqueue(u)
  PROVE  Abstract!Put(u) \/ UNCHANGED Abstracted
<1> USE NullIsNoUser
<1>1. CASE Ask(u) \/ CheckSize(u) \/ (LoadTail(u) /\ Unused)
  <2>1. PICK l, m, r : Step(u, l, m, r)
    BY <1>1 DEF Ask, CheckSize, LoadTail
  <2>2. UNCHANGED <<producers, headIndex, asked>>
    BY <1>1 DEF Ask, CheckSize, Unused, hash_vars, head_vars
  <2>3. Longer
    BY <2>2 DEF Longer
  <2>4. QED
    BY <2>1, <2>2, <2>3, QuietUser
<1>2. CASE GetProducer(u) /\ UNCHANGED asked
  <2>1. PICK l, m, r : Step(u, l, m, r)
    BY <1>2 DEF GetProducer, LoadHash, Find, Room, Resize, Unlock, Enter, Fits
  <2>2. UNCHANGED headIndex
    BY <1>2 DEF GetProducer, head_vars
  <2>3. producers' = producers \/ producers' = Append(producers, u)
    BY <1>2 DEF GetProducer, LoadHash, Find, Room, Resize, Unlock, Enter, Fits, hash_vars
  <2>4. producers \in Seq(Users) /\ u \in Users
    BY DEF Typed, Known, HashTypes
  <2>5. Longer
    BY <2>3, <2>4 DEF Longer
  <2>6. QED
    BY <1>2, <2>1, <2>2, <2>5, QuietUser
<1>3. CASE /\ EnqueueStep(u, <<u, asked[u] + 1>>, "ask")
           /\ asked' = IF pc[u] = "publish" THEN Put(asked, u, asked[u] + 1) ELSE asked
  <2>0. UNCHANGED <<producers, headIndex>>
    BY <1>3 DEF EnqueueStep, hash_vars, head_vars
  <2>1. Longer
    BY <2>0 DEF Longer
  <2>2. CASE Publish(u, <<u, asked[u] + 1>>, "ask")
    <3>1. Step(u, "publish", "ask", Locals)
      BY <2>2 DEF Publish
    <3>2. asked' = Put(asked, u, asked[u] + 1)
      BY <1>3, <3>1, StepEffect DEF Typed
    <3>3. QED
      BY <2>0, <3>1, <3>2, PutStep
  <2>3. CASE Enqueue(u) \/ InsertEntry(u) \/ LoadPool(u) \/ ClaimPool(u) \/ FromList(u) \/ Fresh(u)
    <3>1. PICK l, m, r : Step(u, l, m, r) /\ l # "publish"
      BY <2>3 DEF Enqueue, InsertEntry, LoadPool, ClaimPool, FromList, Fresh
    <3>2. pc[u] = l
      BY <3>1, StepEffect DEF Typed
    <3>3. asked' = asked
      BY <1>3, <3>1, <3>2
    <3>4. QED
      BY <2>0, <2>1, <3>1, <3>3, QuietUser
  <2>4. QED
    BY <1>3, <2>2, <2>3 DEF EnqueueStep
<1>4. QED
  BY <1>1, <1>2, <1>3 DEF TryEnqueue

LEMMA WorkerRefines ==
  ASSUME Typed, Counts, Hands, QueueFacts, QueueFacts', NEW w \in Workers, setup' = setup,
         asked' = asked,
         \/ (LoadTail(w) /\ Unused) \/ Poll(w) \/ Score(w) \/ NextSub(w) \/ Serve(w)
         \/ DequeueStep(w) /\ UNCHANGED served
  PROVE  \/ \E u \in Users : Abstract!Take(w, u)
         \/ Abstract!Serve(w)
         \/ UNCHANGED Abstracted
<1> USE NullIsNoUser
<1> PICK p : p = my[w].p
  OBVIOUS
<1>0. DOMAIN my[w] = LocalNames
  BY DEF Typed, Control, LocalOK
<1>1. CASE Serve(w)
  <2>1. Step(w, "dequeued", "poll", Locals) /\ served' = served \cup {my[w].item}
    BY <1>1 DEF Serve
  <2>2. UNCHANGED <<producers, headIndex>>
    BY <1>1 DEF Serve, hash_vars, head_vars
  <2>3. QED
    BY <2>1, <2>2, ServeStep
<1>2. CASE DequeueStep(w) /\ UNCHANGED served
  <2>0. UNCHANGED producers
    BY <1>2 DEF DequeueStep, hash_vars
  <2>1. CASE Advance(w)
    <3> DEFINE r == [my[w] EXCEPT !.index = headIndex[p]]
    <3>1. r.p = p /\ r.index = headIndex[p]
      BY <1>0 DEF LocalNames
    <3>2. Step(w, "advance", "lookup", r) /\ headIndex' = Put(headIndex, p, headIndex[p] + 1)
      BY <2>1 DEF Advance, p_of
    <3> HIDE DEF r
    <3>3. pc[w] = "advance"
      BY <3>2, StepEffect DEF Typed
    <3>4. p \in Producers
      BY <3>3, WorkerSub DEF WithSub
    <3>5. headIndex[p] < tailIndex[p]
      BY <3>3, <3>4, HeadWithin
    <3>6. \E u \in Users : Abstract!Take(w, u)
      BY <1>2, <2>0, <3>1, <3>2, <3>5, TakeStep
    <3>7. QED
      BY <3>6
  <2>2. CASE LookUp(w) \/ TakeElement(w) \/ SetEmpty(w) \/ Unlink(w)
    <3>1. PICK l, m, r : /\ Step(w, l, m, r) /\ l \in Handing /\ m \in Handing
                         /\ r.p = my[w].p /\ r.index = my[w].index
      <4>1. CASE LookUp(w)
        <5> DEFINE r == [my[w] EXCEPT !.slot = blockIndexTail[p]]
        <5>1. r.p = my[w].p /\ r.index = my[w].index
          BY <1>0 DEF LocalNames
        <5>2. Step(w, "lookup", "locate", r)
          BY <4>1 DEF LookUp, p_of
        <5> HIDE DEF r
        <5>3. QED
          BY <5>1, <5>2 DEF Handing, InWork
      <4>2. CASE TakeElement(w)
        <5> PICK f : f = EntryOf(p, my[w].index, my[w].slot)
          OBVIOUS
        <5> PICK b : b = blockIndex[p][f].value
          OBVIOUS
        <5> DEFINE r == [my[w] EXCEPT !.slot = f, !.block = b,
                                      !.item = elements[b][my[w].index % BLK_SIZE]]
        <5>1. r.p = my[w].p /\ r.index = my[w].index
          BY <1>0 DEF LocalNames
        <5>2. Step(w, "locate", "empty", r)
          BY <4>2 DEF TakeElement, p_of
        <5> HIDE DEF r
        <5>3. QED
          BY <5>1, <5>2 DEF Handing, InWork
      <4>3. CASE SetEmpty(w) \/ Unlink(w)
        BY <4>3 DEF SetEmpty, Unlink, Handing, InWork
      <4>4. QED
        BY <2>2, <4>1, <4>2, <4>3
    <3>2. UNCHANGED headIndex
      BY <2>2 DEF LookUp, TakeElement, SetEmpty, Unlink, head_vars
    <3>3. QED
      BY <1>2, <2>0, <3>1, <3>2, QuietWorker
  <2>3. CASE LoadCounts(w) \/ Try(w) \/ Reserve(w) \/ Again(w) \/ GiveBack(w)
    <3>1. PICK l, m, r : Step(w, l, m, r) /\ l \notin Handing /\ m \notin Handing
      BY <2>3 DEF LoadCounts, Try, Reserve, Again, GiveBack, Handing, InWork
    <3>2. UNCHANGED headIndex
      BY <2>3 DEF LoadCounts, Try, Reserve, Again, GiveBack, head_vars
    <3>3. QED
      BY <1>2, <2>0, <3>1, <3>2, QuietWorker
  <2>4. QED
    BY <1>2, <2>1, <2>2, <2>3 DEF DequeueStep
<1>3. CASE (LoadTail(w) /\ Unused) \/ Poll(w) \/ Score(w) \/ NextSub(w)
  <2>1. PICK l, m, r : Step(w, l, m, r) /\ l \notin Handing /\ m \notin Handing
    <3>1. CASE LoadTail(w) \/ Poll(w)
      BY <3>1 DEF LoadTail, Poll, Handing, InWork
    <3>2. CASE Score(w) \/ NextSub(w)
      BY <3>2 DEF Score, NextSub, Handing, InWork
    <3>3. QED
      BY <1>3, <3>1, <3>2
  <2>2. UNCHANGED <<producers, headIndex, served>>
    BY <1>3 DEF Poll, Score, NextSub, Unused, hash_vars, head_vars
  <2>3. QED
    BY <2>1, <2>2, QuietWorker
<1>4. QED
  BY <1>1, <1>2, <1>3

LEMMA RefineStep ==
  Sound /\ Sound' /\ [Next]_vars => [Abstract!Next]_Abstracted
<1> USE NullIsNoUser
<1> SUFFICES ASSUME Sound, Sound', [Next]_vars
             PROVE  Abstract!Next \/ UNCHANGED Abstracted
  OBVIOUS
<1>0. Typed /\ Counts /\ Hands /\ QueueFacts /\ QueueFacts'
  BY QueueNow, QueueLater DEF Sound
<1>1. ASSUME UNCHANGED <<producers, headIndex, asked, served, pc, my>>
      PROVE  UNCHANGED Abstracted
  <2>1. Longer
    BY <1>1 DEF Longer
  <2>2. QED
    BY <1>0, <1>1, <2>1, Stutters DEF Abstracted
<1>2. CASE UNCHANGED queue_vars
  BY <1>1, <1>2 DEF queue_vars, hash_vars, head_vars
<1>3. ASSUME NEW a \in Actors, Thread(a) PROVE Abstract!Next \/ UNCHANGED Abstracted
  <2>1. setup' = setup
    BY <1>3 DEF Thread
  <2>2. CASE ListStep(a)
    BY <1>1, <2>2 DEF ListStep, hash_vars, head_vars
  <2>3. CASE a \in Users /\ ~ListStep(a)
    <3>1. /\ Ask(a) \/ CheckSize(a) \/ (LoadTail(a) /\ Unused) \/ TryEnqueue(a)
          /\ served' = served
      BY <1>3, <2>3, UserQueueAssumption DEF Thread, TryEnqueue, Unused, Ask, CheckSize
    <3>2. Abstract!Put(a) \/ UNCHANGED Abstracted
      BY <1>0, <2>1, <2>3, <3>1, UserRefines
    <3>3. QED
      BY <2>3, <3>2 DEF Abstract!Next
  <2>4. CASE a \in Workers /\ ~ListStep(a)
    <3>1. /\ \/ (LoadTail(a) /\ Unused) \/ Poll(a) \/ Score(a) \/ NextSub(a) \/ Serve(a)
             \/ DequeueStep(a) /\ UNCHANGED served
          /\ asked' = asked
      BY <1>3, <2>4, UserQueueAssumption DEF Thread, Unused, Poll, Score, NextSub, Serve
    <3>2. \/ \E u \in Users : Abstract!Take(a, u)
          \/ Abstract!Serve(a)
          \/ UNCHANGED Abstracted
      BY <1>0, <2>1, <2>4, <3>1, WorkerRefines
    <3>3. QED
      BY <2>4, <3>2 DEF Abstract!Next
  <2>5. QED
    BY <2>2, <2>3, <2>4, UserQueueAssumption
<1>4. QED
  BY <1>2, <1>3, ThreadSteps

LEMMA RefineInit == Init => Abstract!Init
<1> SUFFICES ASSUME Init PROVE Abstract!Init
  OBVIOUS
<1>1. \A u \in Users : QueueOf(u) = <<>>
  <2>1. DOMAIN producers = {}
    BY DEF Init, QueueInit
  <2>2. QED
    BY <2>1 DEF QueueOf
<1>2. \A w \in Workers : HandOf(w) = NoRequest
  <2>1. \A w \in Workers : pc[w] \in {"out", "poll"}
    BY UserQueueAssumption DEF Init
  <2>2. QED
    BY <2>1 DEF HandOf
<1>3. asked = [u \in Users |-> 0] /\ served = {}
  BY DEF Init
<1>4. QED
  BY <1>1, <1>2, <1>3 DEF Abstract!Init

(* The queue is a queue (ImplementsQueue): every step of enqueue and       *)
(* dequeue, among those of any number of users and workers, is a step of a *)
(* queue per user, from which each request goes to one worker, in the      *)
(* user's order, and is served once.                                       *)
THEOREM QueueIsQueue == FairSpec => ImplementsQueue
<1>1. Sound /\ [Next]_vars => [Abstract!Next]_<<asked, Queues, Took, served>>
  BY SoundStep, RefineStep DEF Abstracted
<1>2. QED
  BY <1>1, RefineInit, SoundHolds, PTL DEF FairSpec, ImplementsQueue, Abstract!Spec, Queues, Took

-----------------------------------------------------------------------------
(* The length of the queue.                                                *)

(* The requests from the heads to the tails V, of the sub-queues above c.  *)
Row(V, p) == {p} \X (headIndex[p] .. V[p] - 1)
Span(V, c) == UNION {Row(V, p) : p \in {q \in Producers : q > c}}
Vectors == [Producers -> Nat]

LEMMA ProducersFinite ==
  /\ IsFiniteSet(Producers) /\ Cardinality(Actors) \in Nat
  /\ \A p \in Producers : p \in Nat /\ p > 0
<1>1. Cardinality(Actors) \in Nat
  BY FreeListAssumption, FS_CardinalityType
<1>2. QED
  BY <1>1, Initials DEF Producers

LEMMA RowFinite ==
  ASSUME NEW V \in Vectors, NEW p \in Producers, headIndex[p] \in Nat
  PROVE  /\ IsFiniteSet(Row(V, p)) /\ Cardinality(Row(V, p)) \in Nat
         /\ Cardinality(Row(V, p)) = IF headIndex[p] < V[p] THEN V[p] - headIndex[p] ELSE 0
<1>1. PICK h \in Nat, t \in Nat : h = headIndex[p] /\ t = V[p]
  BY DEF Vectors
<1>2. h \in Int /\ t - 1 \in Int
  OBVIOUS
<1>3. /\ IsFiniteSet(h .. t - 1)
      /\ Cardinality(h .. t - 1) = IF h > t - 1 THEN 0 ELSE t - 1 - h + 1
  BY <1>2, FS_Interval
<1>4. IsFiniteSet({p}) /\ Cardinality({p}) = 1
  BY FS_Singleton
<1>5. /\ IsFiniteSet({p} \X (h .. t - 1))
      /\ Cardinality({p} \X (h .. t - 1)) = 1 * Cardinality(h .. t - 1)
  BY <1>3, <1>4, FS_Product
<1>6. Cardinality(h .. t - 1) = IF h < t THEN t - h ELSE 0
  BY <1>3
<1>7. Row(V, p) = {p} \X (h .. t - 1)
  BY <1>1 DEF Row
<1> PICK k : k = Cardinality(h .. t - 1)
  OBVIOUS
<1>8. k \in Nat /\ 1 * k = k
  BY <1>6
<1>9. QED
  BY <1>1, <1>5, <1>6, <1>7, <1>8

LEMMA SpanFinite ==
  ASSUME NEW V \in Vectors, \A p \in Producers : headIndex[p] \in Nat, NEW c
  PROVE  IsFiniteSet(Span(V, c)) /\ Cardinality(Span(V, c)) \in Nat
<1> DEFINE P == {q \in Producers : q > c}
           T == {Row(V, p) : p \in P}
           f == [p \in P |-> Row(V, p)]
<1>1. IsFiniteSet(P)
  BY ProducersFinite, FS_Subset
<1>2. f \in Surjection(P, T)
  BY DEF Surjection
<1>3. IsFiniteSet(T)
  BY <1>1, <1>2, FS_Surjection
<1>4. \A S \in T : IsFiniteSet(S)
  BY RowFinite
<1> HIDE DEF P, f
<1>5. IsFiniteSet(UNION T)
  BY <1>3, <1>4, FS_UNION
<1>6. QED
  BY <1>5, FS_CardinalityType DEF Span, P

(* The heads only advance.                                                 *)
LEMMA SpanShrinks ==
  ASSUME NEW V \in Vectors, NEW c,
         \A p \in Producers : headIndex[p] \in Nat /\ headIndex'[p] \in Nat
                              /\ headIndex'[p] >= headIndex[p]
  PROVE  /\ Cardinality(Span(V, c)') <= Cardinality(Span(V, c))
         /\ Cardinality(Span(V, c)') \in Nat /\ Cardinality(Span(V, c)) \in Nat
<1>1. Span(V, c)' \subseteq Span(V, c)
  <2>1. \A p \in Producers : Row(V, p)' \subseteq Row(V, p)
    <3> SUFFICES ASSUME NEW p \in Producers,
                        NEW i \in headIndex'[p] .. V[p] - 1
                 PROVE  i \in headIndex[p] .. V[p] - 1
      BY DEF Row
    <3>1. V[p] \in Nat
      BY DEF Vectors
    <3>2. QED
      BY <3>1
  <2>2. QED
    BY <2>1 DEF Span, Producers
<1>2. IsFiniteSet(Span(V, c)) /\ Cardinality(Span(V, c)) \in Nat
  BY SpanFinite
<1>3. QED
  BY <1>1, <1>2, FS_Subset, FS_CardinalityType

(* One more sub-queue is counted.                                          *)
LEMMA SpanMore ==
  ASSUME NEW V \in Vectors, \A p \in Producers : headIndex[p] \in Nat, NEW c \in Producers
  PROVE  Cardinality(Span(V, c - 1)) <= Cardinality(Span(V, c)) + Cardinality(Row(V, c))
<1>0. c \in Nat /\ c > 0
  BY ProducersFinite
<1>1. Span(V, c - 1) = Span(V, c) \cup Row(V, c)
  <2>1. \A p \in Producers : p > c - 1 <=> p > c \/ p = c
    BY <1>0, ProducersFinite
  <2>2. QED
    BY <2>1 DEF Span
<1>2. IsFiniteSet(Span(V, c)) /\ IsFiniteSet(Row(V, c))
  BY SpanFinite, RowFinite
<1>3. Span(V, c) \cap Row(V, c) \in SUBSET Row(V, c)
  OBVIOUS
<1>4. /\ Cardinality(Span(V, c)) \in Nat /\ Cardinality(Row(V, c)) \in Nat
      /\ Cardinality(Span(V, c) \cap Row(V, c)) \in Nat
  BY <1>2, <1>3, FS_Subset, FS_CardinalityType
<1>5. Cardinality(Span(V, c) \cup Row(V, c))
        = Cardinality(Span(V, c)) + Cardinality(Row(V, c)) - Cardinality(Span(V, c) \cap Row(V, c))
  BY <1>2, FS_Union
<1> PICK a, b, d : /\ a = Cardinality(Span(V, c)) /\ b = Cardinality(Row(V, c))
                   /\ d = Cardinality(Span(V, c) \cap Row(V, c))
  OBVIOUS
<1>6. a \in Nat /\ b \in Nat /\ d \in Nat /\ a + b - d <= a + b
  BY <1>4
<1>7. Cardinality(Span(V, c - 1)) = a + b - d
  BY <1>1, <1>5
<1>8. QED
  BY <1>6, <1>7

(* Nothing is to be counted.                                               *)
LEMMA SpanNone ==
  ASSUME NEW V \in Vectors, NEW c, \A p \in Producers : headIndex[p] \in Nat,
         \A p \in Producers : p > c => V[p] = 0
  PROVE  Cardinality(Span(V, c)) = 0
<1>1. ASSUME NEW p \in Producers, p > c PROVE Row(V, p) = {}
  <2>1. headIndex[p] .. V[p] - 1 = {}
    BY <1>1
  <2>2. QED
    BY <2>1 DEF Row
<1>2. Span(V, c) = {}
  BY <1>1 DEF Span
<1>3. QED
  BY <1>2, FS_EmptySet

-----------------------------------------------------------------------------
(* Why the queue stays short.  A user that is putting a request has looked *)
(* at the tails as they were when it began, or at later ones; by the time  *)
(* it puts the request, others may have put some.  There is a V, the tails *)
(* at a time when the queue was short, since when each user has put at     *)
(* most one request; a user in N has begun after that time, and M[u] are   *)
(* the tails as it began.                                                  *)

Of(p) == IF p \in 1 .. Len(producers) THEN producers[p] ELSE Null
Loose(N, p) == OwnerPc(p) = "ask" \/ Of(p) \in N
Since(N, V, p) == \/ tailIndex[p] = V[p]
                  \/ tailIndex[p] = V[p] + 1 /\ Loose(N, p)
Short(V) == Cardinality(Span(V, 0)) <= IDLE_QUELEN
Scan(u, V) ==
  IF pc[u] \in {"tail", "head"}
  THEN /\ Cardinality(Span(V, my[u].cursor)) <= my[u].size
       /\ pc[u] = "head" => V[my[u].cursor] <= my[u].tail
  ELSE Short(V)

(* The user u began before v did, or is v.                                 *)
Older(M, u, v) ==
  \A p \in Producers : M[u][p] <= M[v][p] /\ (Of(p) = u => tailIndex[p] = M[v][p])

BoundedBy(B, N, M) ==
  /\ B \in Vectors /\ N \in SUBSET Users /\ M \in [Users -> Vectors]
  /\ Short(B) /\ \A p \in Producers : Since(N, B, p)
  /\ \A u \in N : /\ pc[u] \notin {"ask", "out"} /\ Scan(u, M[u])
                  /\ \A p \in Producers : Since(N, M[u], p)
  /\ \A u, v \in N : Older(M, u, v) \/ Older(M, v, u)

(* Those that take part are in the setup.                                  *)
Parts == /\ \A a \in Actors : a \notin setup.threads => pc[a] = "out"
         /\ \A p \in 1 .. Len(producers) : producers[p] \in setup.threads

Bounded == Parts /\ \E B, N, M : BoundedBy(B, N, M)

(* What every step of a thread leaves alone.                               *)
Onward(a) ==
  /\ setup' = setup
  /\ \A x \in Actors \ {a} : pc'[x] = pc[x] /\ my'[x] = my[x]
  /\ \A p \in Producers : headIndex'[p] \in Nat /\ headIndex'[p] >= headIndex[p]
  /\ \/ producers' = producers
     \/ a \in Users /\ producers' = Append(producers, a)

LEMMA HeadsOnward ==
  ASSUME Typed, headIndex' = headIndex
  PROVE  \A p \in Producers : headIndex'[p] \in Nat /\ headIndex'[p] >= headIndex[p]
BY DEF Typed, Shared

LEMMA UserOnward ==
  ASSUME Typed, NEW u \in Users, setup' = setup,
         \/ Ask(u) \/ CheckSize(u) \/ (LoadTail(u) /\ Unused) \/ TryEnqueue(u)
  PROVE  Onward(u)
<1> USE NullIsNoUser
<1>1. PICK l, m, r : Step(u, l, m, r)
  <2>1. CASE Ask(u) \/ CheckSize(u) \/ LoadTail(u)
    BY <2>1 DEF Ask, CheckSize, LoadTail
  <2>2. CASE GetProducer(u)
    BY <2>2 DEF GetProducer, LoadHash, Find, Room, Resize, Unlock, Enter, Fits
  <2>3. CASE EnqueueStep(u, <<u, asked[u] + 1>>, "ask")
    BY <2>3 DEF EnqueueStep, Enqueue, InsertEntry, LoadPool, ClaimPool, FromList, Fresh, Publish
  <2>4. QED
    BY <2>1, <2>2, <2>3 DEF TryEnqueue
<1>2. UNCHANGED headIndex
  BY DEF Ask, CheckSize, Unused, TryEnqueue, GetProducer, EnqueueStep, head_vars
<1>3. producers' = producers \/ producers' = Append(producers, u)
  <2>1. CASE GetProducer(u)
    BY <2>1 DEF GetProducer, LoadHash, Find, Room, Resize, Unlock, Enter, Fits, hash_vars
  <2>2. CASE ~GetProducer(u)
    BY <2>2 DEF Ask, CheckSize, Unused, TryEnqueue, EnqueueStep, hash_vars
  <2>3. QED
    BY <2>1, <2>2
<1>4. \A x \in Actors \ {u} : pc'[x] = pc[x] /\ my'[x] = my[x]
  BY <1>1, StepEffect DEF Typed
<1>5. QED
  BY <1>2, <1>3, <1>4, HeadsOnward DEF Onward

LEMMA WorkerOnward ==
  ASSUME Typed, NEW w \in Workers, setup' = setup,
         \/ (LoadTail(w) /\ Unused) \/ Poll(w) \/ Score(w) \/ NextSub(w) \/ Serve(w)
         \/ DequeueStep(w)
  PROVE  Onward(w) /\ tailIndex' = tailIndex
<1> USE NullIsNoUser
<1>1. PICK l, m, r : Step(w, l, m, r)
  BY DEF LoadTail, Poll, Score, NextSub, Serve, DequeueStep, LoadCounts, Try, Reserve, Again,
         GiveBack, Advance, LookUp, TakeElement, SetEmpty, Unlink
<1>2. \A x \in Actors \ {w} : pc'[x] = pc[x] /\ my'[x] = my[x]
  BY <1>1, StepEffect DEF Typed
<1>3. UNCHANGED <<producers, tailIndex>>
  BY DEF Poll, Score, NextSub, Serve, Unused, DequeueStep, hash_vars, tail_vars
<1>4. \A p \in Producers : headIndex'[p] \in Nat /\ headIndex'[p] >= headIndex[p]
  <2>1. CASE Advance(w)
    <3>1. headIndex' = Put(headIndex, my[w].p, headIndex[my[w].p] + 1)
      BY <2>1 DEF Advance, p_of
    <3>2. QED
      BY <3>1 DEF Put, Typed, Shared
  <2>2. CASE ~Advance(w)
    <3>1. headIndex' = headIndex
      BY <2>2 DEF Poll, Score, NextSub, Serve, Unused, DequeueStep, LoadCounts, Try, Reserve,
                  Again, GiveBack, LookUp, TakeElement, SetEmpty, Unlink, head_vars
    <3>2. QED
      BY <3>1, HeadsOnward
  <2>3. QED
    BY <2>1, <2>2
<1>5. QED
  BY <1>2, <1>3, <1>4 DEF Onward

LEMMA PartsStep ==
  ASSUME Typed, Parts, NEW a \in Actors, Onward(a), pc[a] # "out"
  PROVE  Parts'
<1>1. a \in setup.threads /\ setup' = setup
  BY DEF Parts, Onward
<1>2. \A x \in Actors : x \notin setup'.threads => pc'[x] = "out"
  BY <1>1 DEF Parts, Onward
<1>3. \A p \in 1 .. Len(producers') : producers'[p] \in setup'.threads
  <2>1. CASE producers' = producers
    BY <1>1, <2>1 DEF Parts
  <2>2. CASE producers' = Append(producers, a) /\ a \in Users
    <3>1. producers \in Seq(Users)
      BY DEF Typed, Known, HashTypes
    <3>2. QED
      BY <1>1, <2>2, <3>1 DEF Parts
  <2>3. QED
    BY <2>1, <2>2 DEF Onward
<1>4. QED
  BY <1>2, <1>3 DEF Parts

(* Whose the sub-queues are.                                               *)
LEMMA OfStep ==
  ASSUME Typed, NEW a \in Actors, Onward(a), NEW p \in Producers
  PROVE  /\ Of(p) \in Users \cup {Null} /\ (Of(p) = Null => OwnerPc(p) = "out")
         /\ Of(p) # Null => /\ Of(p)' = Of(p) /\ OwnerPc(p) = pc[Of(p)]
                            /\ OwnerPc(p)' = pc'[Of(p)]
<1> USE NullIsNoUser
<1>1. producers \in Seq(Users)
  BY DEF Typed, Known, HashTypes
<1>2. Of(p) # Null => p \in 1 .. Len(producers)
  BY DEF Of
<1>3. p \in 1 .. Len(producers) => p \in 1 .. Len(producers') /\ producers'[p] = producers[p]
  BY <1>1 DEF Onward
<1>4. QED
  BY <1>1, <1>2, <1>3 DEF Of, OwnerPc

LEMMA SinceKeep ==
  ASSUME Typed, NEW a \in Actors, Onward(a), NEW p \in Producers, NEW N, NEW N2, NEW V,
         Since(N, V, p), tailIndex'[p] = tailIndex[p],
         Loose(N, p) => Loose(N2, p)'
  PROVE  Since(N2, V, p)'
BY DEF Since

LEMMA OlderKeep ==
  ASSUME Typed, NEW a \in Actors, Onward(a), NEW N \in SUBSET Users, NEW M,
         NEW u \in Users, NEW v, Older(M, u, v), \A p \in Producers : Since(N, M[v], p),
         \A p \in Producers : Of(p) \in {u, Null} => tailIndex'[p] = tailIndex[p]
  PROVE  Older(M, u, v)'
<1> USE NullIsNoUser
<1> SUFFICES ASSUME NEW p \in Producers, Of(p)' = u PROVE tailIndex'[p] = M[v][p]
  BY DEF Older
<1>1. CASE Of(p) # Null
  <2>1. Of(p) = u
    BY <1>1, OfStep
  <2>2. QED
    BY <2>1 DEF Older
<1>2. CASE Of(p) = Null
  <2>1. ~Loose(N, p)
    BY <1>2, OfStep DEF Loose
  <2>2. QED
    BY <1>2, <2>1 DEF Since
<1>3. QED
  BY <1>1, <1>2

LEMMA ShortKeep ==
  ASSUME Typed, NEW a \in Actors, Onward(a), NEW V \in Vectors, Short(V)
  PROVE  Short(V)'
<1>1. \A p \in Producers : headIndex[p] \in Nat
  BY DEF Typed, Shared
<1>2. /\ Cardinality(Span(V, 0)') <= Cardinality(Span(V, 0))
      /\ Cardinality(Span(V, 0)') \in Nat /\ Cardinality(Span(V, 0)) \in Nat
  BY <1>1, SpanShrinks DEF Onward
<1>3. IDLE_QUELEN \in Nat /\ IDLE_QUELEN' = IDLE_QUELEN
  BY QueueAssumption DEF IDLE_QUELEN, Onward, Typed, Shared
<1>4. QED
  BY <1>2, <1>3 DEF Short

LEMMA ScanKeep ==
  ASSUME Typed, NEW a \in Actors, Onward(a), NEW V \in Vectors, NEW u \in Users, Scan(u, V),
         pc'[u] = pc[u], my'[u] = my[u]
  PROVE  Scan(u, V)'
<1> USE NullIsNoUser
<1>1. \A p \in Producers : headIndex[p] \in Nat
  BY DEF Typed, Shared
<1>2. CASE pc[u] \in {"tail", "head"}
  <2> PICK c, s : c = my[u].cursor /\ s = my[u].size
    OBVIOUS
  <2>1. /\ Cardinality(Span(V, c)') <= Cardinality(Span(V, c))
        /\ Cardinality(Span(V, c)') \in Nat /\ Cardinality(Span(V, c)) \in Nat
    BY <1>1, SpanShrinks DEF Onward
  <2>2. Cardinality(Span(V, c)) <= s /\ s \in Nat
    BY <1>2 DEF Scan, Typed, Control, LocalOK
  <2>3. Cardinality(Span(V, c)') <= s
    BY <2>1, <2>2
  <2>4. QED
    BY <1>2, <2>3 DEF Scan
<1>3. CASE pc[u] \notin {"tail", "head"}
  <2>1. Short(V)'
    BY <1>3, ShortKeep DEF Scan
  <2>2. QED
    BY <1>3, <2>1 DEF Scan
<1>4. QED
  BY <1>2, <1>3

(* Between the look at the sizes and the request's being in the queue.     *)
Quiet == {"hash", "find", "slot"} \cup Naming \cup Enqueueing

LEMMA QuietBounded ==
  ASSUME Typed, NEW a \in Actors, Onward(a), tailIndex' = tailIndex,
         NEW B, NEW N, NEW M, BoundedBy(B, N, M),
         \A u \in Users : \/ pc'[u] = pc[u] /\ my'[u] = my[u]
                          \/ pc[u] \in Quiet /\ pc'[u] \in Quiet
  PROVE  BoundedBy(B, N, M)'
<1> USE NullIsNoUser
<1>0. /\ B \in Vectors /\ N \in SUBSET Users /\ M \in [Users -> Vectors]
      /\ \A q \in Quiet : q \notin {"ask", "out", "tail", "head"}
  BY DEF BoundedBy, Quiet, Naming, Enqueueing
<1>1. ASSUME NEW p \in Producers, Loose(N, p) PROVE Loose(N, p)'
  <2>1. Of(p) # Null /\ Of(p) \in Users
    BY <1>0, <1>1, OfStep DEF Loose
  <2>2. QED
    BY <1>0, <1>1, <2>1, OfStep DEF Loose
<1>2. ASSUME NEW V, NEW p \in Producers, Since(N, V, p) PROVE Since(N, V, p)'
  BY <1>1, <1>2, SinceKeep
<1>3. Short(B)'
  BY <1>0, ShortKeep DEF BoundedBy
<1>4. ASSUME NEW u \in N PROVE pc'[u] \notin {"ask", "out"} /\ Scan(u, M[u])'
  <2>1. pc[u] \notin {"ask", "out"} /\ Scan(u, M[u]) /\ M[u] \in Vectors
    BY <1>0 DEF BoundedBy
  <2>2. CASE pc'[u] = pc[u] /\ my'[u] = my[u]
    BY <1>0, <2>1, <2>2, ScanKeep
  <2>3. CASE pc[u] \in Quiet /\ pc'[u] \in Quiet
    <3>1. Short(M[u])
      BY <1>0, <2>1, <2>3 DEF Scan
    <3>2. Short(M[u])'
      BY <2>1, <3>1, ShortKeep
    <3>3. QED
      BY <1>0, <2>3, <3>2 DEF Scan
  <2>4. QED
    BY <1>0, <2>2, <2>3
<1>5. ASSUME NEW u \in N, NEW v \in N PROVE Older(M, u, v)' \/ Older(M, v, u)'
  BY <1>0, OlderKeep DEF BoundedBy
<1>6. \A p \in Producers : Since(N, B, p)' /\ \A u \in N : Since(N, M[u], p)'
  BY <1>2 DEF BoundedBy
<1>7. QED
  BY <1>0, <1>3, <1>4, <1>5, <1>6 DEF BoundedBy

LEMMA AskBounded ==
  ASSUME Typed, Rows, NEW u \in Users, Onward(u), Ask(u),
         NEW B, NEW N, NEW M, BoundedBy(B, N, M), NEW T, T = tailIndex
  PROVE  BoundedBy(B, N \cup {u}, [M EXCEPT ![u] = T])'
<1> USE NullIsNoUser
<1> DEFINE N2 == N \cup {u}
           M2 == [M EXCEPT ![u] = T]
<1>0. /\ B \in Vectors /\ N \in SUBSET Users /\ M \in [Users -> Vectors] /\ T \in Vectors
      /\ \A p \in Producers : headIndex[p] \in Nat /\ tailIndex[p] \in Nat
  BY DEF BoundedBy, Vectors, Typed, Shared
<1>1. /\ pc[u] = "ask" /\ my'[u] = StartScan(my[u])
      /\ pc'[u] = IF producers = <<>> THEN "hash" ELSE "tail"
      /\ UNCHANGED <<producers, tailIndex, headIndex>>
  BY StepEffect DEF Ask, Unused, hash_vars, head_vars, tail_vars, Typed
<1>2. u \notin N
  BY <1>1 DEF BoundedBy
<1>3. M2 \in [Users -> Vectors] /\ M2[u] = T /\ \A x \in N : M2[x] = M[x] /\ x # u /\ x \in Users
  BY <1>0, <1>2
<1> HIDE DEF M2
<1>4. ASSUME NEW p \in Producers, Loose(N, p) PROVE Loose(N2, p)'
  <2>1. Of(p) # Null /\ Of(p) \in Users
    BY <1>0, <1>4, OfStep DEF Loose
  <2>2. CASE Of(p) = u
    BY <2>1, <2>2, OfStep DEF Loose
  <2>3. CASE Of(p) # u
    <3>1. pc'[Of(p)] = pc[Of(p)]
      BY <2>1, <2>3 DEF Onward
    <3>2. QED
      BY <1>4, <2>1, <3>1, OfStep DEF Loose
  <2>4. QED
    BY <2>2, <2>3
<1>5. ASSUME NEW V, NEW p \in Producers, Since(N, V, p) PROVE Since(N2, V, p)'
  BY <1>1, <1>4, <1>5, SinceKeep
<1>6. Short(B)'
  BY <1>0, ShortKeep DEF BoundedBy
<1>7. \A p \in Producers : p \notin 1 .. Len(producers) => T[p] = 0
  BY DEF Rows, RowOf, AskedOf
<1>8. Scan(u, T)'
  <2>1. CASE producers = <<>>
    <3>1. \A p \in Producers : T[p] = 0
      BY <1>7, <2>1
    <3>2. Cardinality(Span(T, 0)) = 0
      BY <1>0, <3>1, SpanNone
    <3>3. Span(T, 0)' = Span(T, 0)
      BY <1>1 DEF Span, Row
    <3>4. IDLE_QUELEN \in Nat /\ IDLE_QUELEN' = IDLE_QUELEN
      BY QueueAssumption DEF IDLE_QUELEN, Onward, Typed, Shared
    <3>5. Short(T)'
      BY <3>2, <3>3, <3>4 DEF Short
    <3>6. QED
      BY <1>1, <2>1, <3>5 DEF Scan
  <2>2. CASE producers # <<>>
    <3> PICK c : c = Len(producers)
      OBVIOUS
    <3>1. c \in Nat /\ DOMAIN my[u] = LocalNames
      BY DEF Typed, Known, HashTypes, Control, LocalOK
    <3>2. \A p \in Producers : p > c => T[p] = 0
      BY <1>7, <3>1, ProducersFinite
    <3>3. Cardinality(Span(T, c)) = 0
      BY <1>0, <3>2, SpanNone
    <3>4. Span(T, c)' = Span(T, c)
      BY <1>1 DEF Span, Row
    <3>5. my'[u].cursor = c /\ my'[u].size = 0 /\ pc'[u] = "tail"
      BY <1>1, <2>2, <3>1 DEF StartScan, LocalNames
    <3>6. QED
      BY <3>3, <3>4, <3>5 DEF Scan
  <2>3. QED
    BY <2>1, <2>2
<1>9. ASSUME NEW x \in N2
      PROVE  pc'[x] \notin {"ask", "out"} /\ Scan(x, M2[x])' /\ M2[x] \in Vectors
  <2>1. CASE x = u
    BY <1>0, <1>1, <1>3, <1>8, <2>1
  <2>2. CASE x \in N
    <3>1. /\ pc[x] \notin {"ask", "out"} /\ Scan(x, M[x]) /\ M[x] \in Vectors
          /\ pc'[x] = pc[x] /\ my'[x] = my[x] /\ M2[x] = M[x] /\ x \in Users
      BY <1>0, <1>3, <2>2 DEF BoundedBy, Onward
    <3>2. QED
      BY <3>1, ScanKeep
  <2>3. QED
    BY <2>1, <2>2
<1>10. ASSUME NEW p \in Producers
       PROVE  Since(N2, B, p)' /\ \A x \in N2 : Since(N2, M2[x], p)'
  <2>1. Since(N2, B, p)'
    BY <1>5 DEF BoundedBy
  <2>2. \A x \in N : Since(N2, M2[x], p)'
    BY <1>3, <1>5 DEF BoundedBy
  <2>3. Since(N2, M2[u], p)'
    BY <1>1, <1>3 DEF Since
  <2>4. QED
    BY <2>1, <2>2, <2>3
<1>11. ASSUME NEW x \in N2 PROVE Older(M2, x, u)'
  <2>1. ASSUME NEW p \in Producers PROVE M2[x][p] <= M2[u][p] /\ tailIndex'[p] = M2[u][p]
    <3>1. tailIndex'[p] = M2[u][p] /\ M2[u][p] = tailIndex[p]
      BY <1>1, <1>3
    <3>2. CASE x = u
      BY <1>0, <3>1, <3>2
    <3>3. CASE x \in N
      <4>1. Since(N, M[x], p) /\ M2[x] = M[x] /\ M[x][p] \in Nat
        BY <1>0, <1>3, <3>3 DEF BoundedBy, Vectors
      <4>2. QED
        BY <1>0, <3>1, <4>1 DEF Since
    <3>4. QED
      BY <3>1, <3>2, <3>3
  <2>2. QED
    BY <2>1 DEF Older
<1>12. ASSUME NEW x \in N, NEW v \in N PROVE Older(M2, x, v)' \/ Older(M2, v, x)'
  <2>1. Older(M, x, v)' \/ Older(M, v, x)'
    BY <1>0, <1>1, OlderKeep DEF BoundedBy
  <2>2. M2[x] = M[x] /\ M2[v] = M[v]
    BY <1>3
  <2>3. QED
    BY <2>1, <2>2 DEF Older
<1>13. \A x, v \in N2 : Older(M2, x, v)' \/ Older(M2, v, x)'
  BY <1>11, <1>12
<1>14. BoundedBy(B, N2, M2)'
  BY <1>0, <1>3, <1>6, <1>9, <1>10, <1>13 DEF BoundedBy
<1>15. QED
  BY <1>14 DEF M2

(* A user looks on, or gives up.                                           *)
LEMMA LookBounded ==
  ASSUME Typed, NEW u \in Users, Onward(u), tailIndex' = tailIndex, pc[u] # "ask",
         NEW B, NEW N, NEW M, BoundedBy(B, N, M), NEW N2 \in SUBSET N, N \ {u} \subseteq N2,
         u \in N \ N2 => pc'[u] = "ask",
         u \in N2 => pc'[u] \notin {"ask", "out"} /\ Scan(u, M[u])'
  PROVE  BoundedBy(B, N2, M)'
<1> USE NullIsNoUser
<1>0. /\ B \in Vectors /\ N \in SUBSET Users /\ M \in [Users -> Vectors]
  BY DEF BoundedBy
<1>1. ASSUME NEW p \in Producers, Loose(N, p) PROVE Loose(N2, p)'
  <2>1. Of(p) # Null /\ Of(p) \in Users
    BY <1>0, <1>1, OfStep DEF Loose
  <2>2. CASE Of(p) = u
    <3>1. u \in N
      BY <1>1, <2>1, <2>2, OfStep DEF Loose
    <3>2. QED
      BY <2>1, <2>2, <3>1, OfStep DEF Loose
  <2>3. CASE Of(p) # u
    <3>1. pc'[Of(p)] = pc[Of(p)]
      BY <2>1, <2>3 DEF Onward
    <3>2. QED
      BY <1>1, <2>1, <2>3, <3>1, OfStep DEF Loose
  <2>4. QED
    BY <2>2, <2>3
<1>2. ASSUME NEW V, NEW p \in Producers, Since(N, V, p) PROVE Since(N2, V, p)'
  BY <1>1, <1>2, SinceKeep
<1>3. Short(B)'
  BY <1>0, ShortKeep DEF BoundedBy
<1>4. ASSUME NEW x \in N2 PROVE pc'[x] \notin {"ask", "out"} /\ Scan(x, M[x])'
  <2>1. CASE x # u
    <3>1. /\ pc[x] \notin {"ask", "out"} /\ Scan(x, M[x]) /\ M[x] \in Vectors
          /\ pc'[x] = pc[x] /\ my'[x] = my[x] /\ x \in Users
      BY <1>0, <2>1 DEF BoundedBy, Onward
    <3>2. QED
      BY <3>1, ScanKeep
  <2>2. QED
    BY <2>1
<1>5. ASSUME NEW x \in N2, NEW v \in N2 PROVE Older(M, x, v)' \/ Older(M, v, x)'
  <2>1. /\ Older(M, x, v) \/ Older(M, v, x)
        /\ x \in Users /\ v \in Users
        /\ \A p \in Producers : Since(N, M[x], p) /\ Since(N, M[v], p)
    BY <1>0 DEF BoundedBy
  <2>2. QED
    BY <1>0, <2>1, OlderKeep
<1>6. \A p \in Producers : Since(N2, B, p)' /\ \A x \in N2 : Since(N2, M[x], p)'
  BY <1>2 DEF BoundedBy
<1>7. N2 \in SUBSET Users
  BY <1>0
<1>8. QED
  BY <1>0, <1>3, <1>4, <1>5, <1>6, <1>7 DEF BoundedBy

LEMMA LoadTailBounded ==
  ASSUME Typed, NEW u \in Users, Onward(u), LoadTail(u), Unused,
         NEW B, NEW N, NEW M, BoundedBy(B, N, M)
  PROVE  BoundedBy(B, N, M)'
<1> USE NullIsNoUser
<1> PICK c : c = my[u].cursor
  OBVIOUS
<1>1. /\ pc[u] = "tail" /\ pc'[u] = "head"
      /\ my'[u] = [my[u] EXCEPT !.tail = tailIndex[c]]
      /\ UNCHANGED <<tailIndex, headIndex>>
  BY StepEffect DEF LoadTail, Unused, head_vars, tail_vars, Typed
<1>2. DOMAIN my[u] = LocalNames
  BY DEF Typed, Control, LocalOK
<1>3. my'[u].cursor = c /\ my'[u].tail = tailIndex[c] /\ my'[u].size = my[u].size
  BY <1>1, <1>2 DEF LocalNames
<1>4. c \in Producers
  BY <1>1, FewProducers DEF Typed, Known, ScanOf
<1>5. ASSUME u \in N PROVE Scan(u, M[u])'
  <2>1. M[u] \in Vectors /\ Scan(u, M[u]) /\ Since(N, M[u], c)
    BY <1>4, <1>5 DEF BoundedBy
  <2>2. Cardinality(Span(M[u], c)) <= my[u].size
    BY <1>1, <2>1 DEF Scan
  <2>3. Span(M[u], c)' = Span(M[u], c)
    BY <1>1 DEF Span, Row
  <2>4. M[u][c] <= tailIndex[c]
    BY <1>4, <2>1 DEF Since, Vectors, Typed, Shared
  <2>5. QED
    BY <1>1, <1>3, <2>2, <2>3, <2>4 DEF Scan
<1>6. N \ {u} \subseteq N /\ N \in SUBSET N
  OBVIOUS
<1>7. QED
  BY <1>1, <1>5, <1>6, LookBounded

LEMMA CheckBounded ==
  ASSUME Typed, NEW u \in Users, Onward(u), CheckSize(u),
         NEW B, NEW N, NEW M, BoundedBy(B, N, M)
  PROVE  \E N2 : BoundedBy(B, N2, M)'
<1> USE NullIsNoUser
<1> PICK r : r = Sized(my[u])
  OBVIOUS
<1> PICK c, n, t, s : c = my[u].cursor /\ n = SizeOf(my[u]) /\ t = my[u].tail /\ s = my[u].size
  OBVIOUS
<1>1. /\ pc[u] = "head" /\ UNCHANGED <<tailIndex, headIndex>>
      /\ \/ r.cursor > 0 /\ Step(u, "head", "tail", r)
         \/ /\ r.cursor = 0
            /\ Step(u, "head", IF r.size > IDLE_QUELEN THEN "ask" ELSE "hash", Locals)
  BY DEF CheckSize, Unused, head_vars, tail_vars
<1>2. c \in Producers /\ c \in Nat /\ c > 0 /\ t \in Nat /\ s \in Nat
      /\ DOMAIN my[u] = LocalNames /\ headIndex[c] \in Nat
  <2>1. c \in Producers
    BY <1>1, FewProducers DEF Typed, Known, ScanOf
  <2>2. QED
    BY <2>1, ProducersFinite DEF Typed, Control, LocalOK, Shared
<1>3. n = IF headIndex[c] < t THEN t - headIndex[c] ELSE 0
  BY DEF SizeOf
<1>4. r.cursor = c - 1 /\ r.size = s + n
  BY <1>2 DEF Sized, LocalNames
<1>5. n \in Nat
  BY <1>2, <1>3
<1>6. ASSUME u \in N
      PROVE  M[u] \in Vectors /\ Cardinality(Span(M[u], c - 1)') <= s + n
  <2> PICK V \in Vectors : V = M[u]
    BY <1>6 DEF BoundedBy
  <2>1. Scan(u, V)
    BY <1>6 DEF BoundedBy
  <2>2. Cardinality(Span(V, c)) <= s /\ V[c] <= t
    BY <1>1, <2>1 DEF Scan
  <2>3. \A p \in Producers : headIndex[p] \in Nat
    BY DEF Typed, Shared
  <2>4. /\ Cardinality(Row(V, c)) \in Nat
        /\ Cardinality(Row(V, c)) = IF headIndex[c] < V[c] THEN V[c] - headIndex[c] ELSE 0
    BY <1>2, RowFinite
  <2>5. Cardinality(Row(V, c)) <= n
    <3>1. V[c] \in Nat
      BY <1>2 DEF Vectors
    <3>2. QED
      BY <1>2, <1>3, <2>2, <2>4, <3>1
  <2>6. Cardinality(Span(V, c - 1)) <= Cardinality(Span(V, c)) + Cardinality(Row(V, c))
    BY <1>2, <2>3, SpanMore
  <2>7. Cardinality(Span(V, c)) \in Nat /\ Cardinality(Span(V, c - 1)) \in Nat
    BY <2>3, SpanFinite
  <2>8. Cardinality(Span(V, c - 1)) <= s + n
    BY <1>2, <1>5, <2>2, <2>4, <2>5, <2>6, <2>7
  <2>9. Span(V, c - 1)' = Span(V, c - 1)
    BY <1>1 DEF Span, Row
  <2>10. QED
    BY <2>8, <2>9
<1>7. IDLE_QUELEN \in Nat /\ IDLE_QUELEN' = IDLE_QUELEN
  BY QueueAssumption DEF IDLE_QUELEN, Onward, Typed, Shared
<1>8. CASE Step(u, "head", "tail", r)
  <2>1. pc'[u] = "tail" /\ my'[u] = r
    BY <1>8, StepEffect DEF Typed
  <2>2. u \in N => Scan(u, M[u])'
    BY <1>4, <1>6, <2>1 DEF Scan
  <2>3. N \ {u} \subseteq N /\ N \in SUBSET N
    OBVIOUS
  <2>4. BoundedBy(B, N, M)'
    BY <1>1, <2>1, <2>2, <2>3, LookBounded
  <2>5. QED
    BY <2>4
<1>9. CASE r.cursor = 0 /\ ~(r.size > IDLE_QUELEN) /\ Step(u, "head", "hash", Locals)
  <2>1. pc'[u] = "hash"
    BY <1>9, StepEffect DEF Typed
  <2>2. c - 1 = 0
    BY <1>4, <1>9
  <2>3. ASSUME u \in N PROVE Scan(u, M[u])'
    <3>1. M[u] \in Vectors /\ Cardinality(Span(M[u], 0)') <= s + n
      BY <1>6, <2>2, <2>3
    <3>2. Cardinality(Span(M[u], 0)') \in Nat
      <4>1. \A p \in Producers : headIndex[p] \in Nat /\ headIndex'[p] \in Nat
                                 /\ headIndex'[p] >= headIndex[p]
        BY DEF Typed, Shared, Onward
      <4>2. QED
        BY <3>1, <4>1, SpanShrinks
    <3>3. s + n <= IDLE_QUELEN
      BY <1>2, <1>4, <1>5, <1>7, <1>9
    <3>4. Short(M[u])'
      BY <1>2, <1>5, <1>7, <3>1, <3>2, <3>3 DEF Short
    <3>5. QED
      BY <2>1, <3>4 DEF Scan
  <2>4. N \ {u} \subseteq N /\ N \in SUBSET N
    OBVIOUS
  <2>5. BoundedBy(B, N, M)'
    BY <1>1, <2>1, <2>3, <2>4, LookBounded
  <2>6. QED
    BY <2>5
<1>10. CASE Step(u, "head", "ask", Locals)
  <2>1. pc'[u] = "ask"
    BY <1>10, StepEffect DEF Typed
  <2>2. N \ {u} \subseteq N \ {u} /\ N \ {u} \in SUBSET N
    OBVIOUS
  <2>3. BoundedBy(B, N \ {u}, M)'
    BY <1>1, <2>1, <2>2, LookBounded
  <2>4. QED
    BY <2>3
<1>11. QED
  BY <1>1, <1>8, <1>9, <1>10

(* What is known of the sub-queues as u puts its request.                  *)
PublishFacts(u, k) ==
  /\ k \in Producers /\ Of(k) = u /\ pc[u] = "publish" /\ pc'[u] = "ask"
  /\ tailIndex'[k] = tailIndex[k] + 1
  /\ \A p \in Producers \ {k} : tailIndex'[p] = tailIndex[p] /\ Of(p) # u

LEMMA PublishIs ==
  ASSUME Typed, NEW u \in Users, Publish(u, <<u, asked[u] + 1>>, "ask")
  PROVE  PublishFacts(u, my[u].p)
<1> USE NullIsNoUser
<1> PICK k : k = my[u].p
  OBVIOUS
<1>1. pc[u] = "publish" /\ pc'[u] = "ask" /\ tailIndex' = Put(tailIndex, k, tailIndex[k] + 1)
  BY StepEffect DEF Publish, p_of, Typed
<1>2. k \in 1 .. Len(producers) /\ producers[k] = u
  BY <1>1 DEF Typed, Known, NamingOf, Owns, Enqueueing
<1>3. k \in Producers /\ Of(k) = u
  BY <1>2, FewProducers DEF Of, Typed, Known
<1>4. \A p \in Producers \ {k} : Of(p) # u
  BY <1>2 DEF Of, Typed, Known, OneEach
<1>5. /\ tailIndex'[k] = tailIndex[k] + 1
      /\ \A p \in Producers \ {k} : tailIndex'[p] = tailIndex[p]
  BY <1>1, <1>3 DEF Put, Typed, Shared
<1>6. QED
  BY <1>1, <1>3, <1>4, <1>5 DEF PublishFacts

(* A user that began before the time of B.                                 *)
LEMMA LatePublish ==
  ASSUME Typed, NEW u \in Users, Onward(u), NEW k, PublishFacts(u, k),
         NEW B, NEW N, NEW M, BoundedBy(B, N, M), u \notin N
  PROVE  BoundedBy(B, N, M)'
<1> USE NullIsNoUser
<1>0. /\ B \in Vectors /\ N \in SUBSET Users /\ M \in [Users -> Vectors]
  BY DEF BoundedBy
<1>1. ASSUME NEW p \in Producers, Loose(N, p) PROVE Loose(N, p)'
  <2>1. Of(p) # Null /\ Of(p) \in Users
    BY <1>0, <1>1, OfStep DEF Loose
  <2>2. CASE Of(p) = u
    BY <2>1, <2>2, OfStep DEF Loose, PublishFacts
  <2>3. CASE Of(p) # u
    <3>1. pc'[Of(p)] = pc[Of(p)]
      BY <2>1, <2>3 DEF Onward
    <3>2. QED
      BY <1>1, <2>1, <3>1, OfStep DEF Loose
  <2>4. QED
    BY <2>2, <2>3
<1>2. ASSUME NEW V, NEW p \in Producers, Since(N, V, p) PROVE Since(N, V, p)'
  <2>1. CASE p # k
    <3>1. tailIndex'[p] = tailIndex[p]
      BY <2>1 DEF PublishFacts
    <3>2. QED
      BY <1>1, <1>2, <3>1, SinceKeep
  <2>2. CASE p = k
    <3>1. Of(p) = u /\ OwnerPc(p) = "publish" /\ OwnerPc(p)' = "ask"
      BY <2>2, OfStep DEF PublishFacts
    <3>2. tailIndex[p] = V[p]
      BY <1>2, <3>1 DEF Since, Loose
    <3>3. QED
      BY <2>2, <3>1, <3>2 DEF Since, Loose, PublishFacts
  <2>3. QED
    BY <2>1, <2>2
<1>3. Short(B)'
  BY <1>0, ShortKeep DEF BoundedBy
<1>4. ASSUME NEW x \in N PROVE pc'[x] \notin {"ask", "out"} /\ Scan(x, M[x])'
  <2>1. /\ pc[x] \notin {"ask", "out"} /\ Scan(x, M[x]) /\ M[x] \in Vectors
        /\ pc'[x] = pc[x] /\ my'[x] = my[x] /\ x \in Users
    BY <1>0 DEF BoundedBy, Onward
  <2>2. QED
    BY <2>1, ScanKeep
<1>5. ASSUME NEW x \in N, NEW v \in N PROVE Older(M, x, v)' \/ Older(M, v, x)'
  <2>1. /\ Older(M, x, v) \/ Older(M, v, x)
        /\ x \in Users /\ v \in Users /\ x # u /\ v # u
        /\ \A p \in Producers : Since(N, M[x], p) /\ Since(N, M[v], p)
    BY <1>0 DEF BoundedBy
  <2>2. \A p \in Producers : Of(p) \in {x, Null} \/ Of(p) \in {v, Null} =>
                               tailIndex'[p] = tailIndex[p]
    BY <2>1 DEF PublishFacts
  <2>3. QED
    BY <1>0, <2>1, <2>2, OlderKeep
<1>6. \A p \in Producers : Since(N, B, p)' /\ \A x \in N : Since(N, M[x], p)'
  BY <1>2 DEF BoundedBy
<1>7. QED
  BY <1>0, <1>3, <1>4, <1>5, <1>6 DEF BoundedBy

(* A user that began later: the time is now the one when it began.         *)
LEMMA NewPublish ==
  ASSUME Typed, NEW u \in Users, Onward(u), NEW k, PublishFacts(u, k),
         NEW B, NEW N, NEW M, BoundedBy(B, N, M), u \in N, NEW V, V = M[u],
         NEW N2, N2 = {x \in N : x # u /\ ~Older(M, x, u)}
  PROVE  BoundedBy(V, N2, M)'
<1> USE NullIsNoUser
<1>0. /\ V \in Vectors /\ N \in SUBSET Users /\ N2 \in SUBSET Users /\ N2 \subseteq N
      /\ M \in [Users -> Vectors]
  BY DEF BoundedBy
<1>1. \A p \in Producers : Since(N, V, p) /\ \A x \in N : Since(N, M[x], p)
  BY DEF BoundedBy
<1>2. tailIndex[k] = V[k]
  BY DEF BoundedBy, Older, PublishFacts
<1>3. ASSUME NEW x \in N2 PROVE Older(M, u, x) /\ x # u /\ x \in N
  BY DEF BoundedBy
<1>4. Short(V)'
  <2>1. Scan(u, V) /\ pc[u] = "publish"
    BY DEF BoundedBy, PublishFacts
  <2>2. QED
    BY <1>0, <2>1, ShortKeep DEF Scan
<1>5. ASSUME NEW p \in Producers, p # k, NEW W, Since(N, W, p), W[p] >= V[p],
             W[p] \in Nat, tailIndex[p] \in Nat
      PROVE  Since(N2, W, p)'
  <2>1. tailIndex'[p] = tailIndex[p] /\ Of(p) # u
    BY <1>5 DEF PublishFacts
  <2>2. CASE tailIndex[p] = W[p]
    BY <2>1, <2>2 DEF Since
  <2>3. CASE tailIndex[p] # W[p]
    <3>1. tailIndex[p] = W[p] + 1 /\ Loose(N, p) /\ tailIndex[p] # V[p]
      <4>1. tailIndex[p] = W[p] + 1 /\ Loose(N, p)
        BY <1>5, <2>3 DEF Since
      <4>2. V[p] \in Nat
        BY <1>0 DEF Vectors
      <4>3. QED
        BY <1>5, <4>1, <4>2
    <3>2. Of(p) # Null /\ Of(p) \in Users
      BY <1>0, <3>1, OfStep DEF Loose
    <3>3. pc'[Of(p)] = pc[Of(p)]
      BY <2>1, <3>2 DEF Onward
    <3>4. CASE OwnerPc(p) = "ask"
      BY <2>1, <3>1, <3>2, <3>3, <3>4, OfStep DEF Since, Loose
    <3>5. CASE Of(p) \in N
      <4>1. ~Older(M, Of(p), u)
        BY <3>1 DEF Older
      <4>2. Of(p) \in N2
        BY <2>1, <3>5, <4>1
      <4>3. Of(p)' \in N2
        BY <3>2, <4>2, OfStep
      <4>4. QED
        BY <2>1, <3>1, <4>3 DEF Since, Loose
    <3>6. QED
      BY <3>1, <3>4, <3>5 DEF Loose
  <2>4. QED
    BY <2>2, <2>3
<1>6. ASSUME NEW W, W[k] = tailIndex[k] PROVE Since(N2, W, k)'
  <2>1. k \in Producers /\ OwnerPc(k)' = "ask" /\ tailIndex'[k] = W[k] + 1
    BY <1>6, OfStep DEF PublishFacts
  <2>2. QED
    BY <2>1 DEF Since, Loose
<1>7. ASSUME NEW p \in Producers PROVE Since(N2, V, p)'
  <2>1. Since(N, V, p) /\ V[p] \in Nat /\ tailIndex[p] \in Nat
    BY <1>0, <1>1 DEF Vectors, Typed, Shared
  <2>2. QED
    BY <1>2, <1>5, <1>6, <2>1
<1>8. ASSUME NEW x \in N2, NEW p \in Producers PROVE Since(N2, M[x], p)'
  <2>1. Since(N, M[x], p) /\ M[x][p] \in Nat /\ tailIndex[p] \in Nat
    BY <1>0, <1>1 DEF Vectors, Typed, Shared
  <2>2. M[x][p] >= V[p] /\ (Of(p) = u => tailIndex[p] = M[x][p])
    <3>1. V[p] \in Nat /\ Older(M, u, x)
      BY <1>0, <1>3 DEF Vectors
    <3>2. QED
      BY <2>1, <3>1 DEF Older
  <2>3. p = k => Of(p) = u
    BY DEF PublishFacts
  <2>4. QED
    BY <1>5, <1>6, <2>1, <2>2, <2>3
<1>9. ASSUME NEW x \in N2 PROVE pc'[x] \notin {"ask", "out"} /\ Scan(x, M[x])'
  <2>1. /\ pc[x] \notin {"ask", "out"} /\ Scan(x, M[x]) /\ M[x] \in Vectors
        /\ pc'[x] = pc[x] /\ my'[x] = my[x] /\ x \in Users
    BY <1>0, <1>3 DEF BoundedBy, Onward
  <2>2. QED
    BY <2>1, ScanKeep
<1>10. ASSUME NEW x \in N2, NEW v \in N2 PROVE Older(M, x, v)' \/ Older(M, v, x)'
  <2>1. /\ Older(M, x, v) \/ Older(M, v, x)
        /\ x \in Users /\ v \in Users /\ x # u /\ v # u
        /\ \A p \in Producers : Since(N, M[x], p) /\ Since(N, M[v], p)
    BY <1>0, <1>3 DEF BoundedBy
  <2>2. \A p \in Producers : Of(p) \in {x, Null} \/ Of(p) \in {v, Null} =>
                               tailIndex'[p] = tailIndex[p]
    BY <2>1 DEF PublishFacts
  <2>3. QED
    BY <1>0, <2>1, <2>2, OlderKeep
<1>11. QED
  BY <1>0, <1>4, <1>7, <1>8, <1>9, <1>10 DEF BoundedBy

(* A step of the threads.                                                  *)
LEMMA UserBounded ==
  ASSUME Typed, Rows, NEW u \in Users, Onward(u), (\E B, N, M : BoundedBy(B, N, M)),
         \/ Ask(u) \/ CheckSize(u) \/ (LoadTail(u) /\ Unused) \/ TryEnqueue(u)
  PROVE  \E B, N, M : BoundedBy(B, N, M)'
<1> USE NullIsNoUser
<1> PICK B, N, M : BoundedBy(B, N, M)
  OBVIOUS
<1>1. CASE Ask(u)
  <2>1. PICK T : T = tailIndex
    OBVIOUS
  <2>2. BoundedBy(B, N \cup {u}, [M EXCEPT ![u] = T])'
    BY <1>1, <2>1, AskBounded
  <2>3. QED
    BY <2>2
<1>2. CASE CheckSize(u)
  <2>1. \E N2 : BoundedBy(B, N2, M)'
    BY <1>2, CheckBounded
  <2>2. QED
    BY <2>1
<1>3. CASE LoadTail(u) /\ Unused
  BY <1>3, LoadTailBounded
<1>4. CASE Publish(u, <<u, asked[u] + 1>>, "ask")
  <2>1. PICK k : PublishFacts(u, k)
    BY <1>4, PublishIs
  <2>2. CASE u \notin N
    BY <2>1, <2>2, LatePublish
  <2>3. CASE u \in N
    <3>1. PICK V, N2 : V = M[u] /\ N2 = {x \in N : x # u /\ ~Older(M, x, u)}
      OBVIOUS
    <3>2. BoundedBy(V, N2, M)'
      BY <2>1, <2>3, <3>1, NewPublish
    <3>3. QED
      BY <3>2
  <2>4. QED
    BY <2>2, <2>3
<1>5. CASE TryEnqueue(u) /\ ~Publish(u, <<u, asked[u] + 1>>, "ask")
  <2>1. PICK l, m, r : Step(u, l, m, r) /\ l \in Quiet /\ m \in Quiet
    <3>1. CASE GetProducer(u)
      BY <3>1 DEF GetProducer, LoadHash, Find, Room, Resize, Unlock, Enter, Fits, Quiet, Naming,
                  Enqueueing
    <3>2. CASE EnqueueStep(u, <<u, asked[u] + 1>>, "ask")
      BY <1>5, <3>2 DEF EnqueueStep, Enqueue, InsertEntry, LoadPool, ClaimPool, FromList, Fresh,
                        Quiet, Enqueueing
    <3>3. QED
      BY <1>5, <3>1, <3>2 DEF TryEnqueue
  <2>2. tailIndex' = tailIndex
    BY <1>5 DEF TryEnqueue, GetProducer, EnqueueStep, Enqueue, InsertEntry, LoadPool, ClaimPool,
                FromList, Fresh, tail_vars
  <2>3. pc[u] \in Quiet /\ pc'[u] \in Quiet
    BY <2>1, StepEffect DEF Typed
  <2>4. \A x \in Users : \/ pc'[x] = pc[x] /\ my'[x] = my[x]
                         \/ pc[x] \in Quiet /\ pc'[x] \in Quiet
    BY <2>3 DEF Onward
  <2>5. BoundedBy(B, N, M)'
    BY <2>2, <2>4, QuietBounded
  <2>6. QED
    BY <2>5
<1>6. QED
  BY <1>1, <1>2, <1>3, <1>4, <1>5

LEMMA BoundedStep == Sound /\ Bounded /\ [Next]_vars => Bounded'
<1> USE NullIsNoUser
<1> SUFFICES ASSUME Sound, Bounded, [Next]_vars PROVE Bounded'
  OBVIOUS
<1>0. /\ Typed /\ Rows /\ Parts /\ \E B, N, M : BoundedBy(B, N, M)
  BY DEF Sound, Bounded
<1>1. CASE UNCHANGED queue_vars
  <2>1. UNCHANGED <<setup, producers, tailIndex, headIndex, pc, my>>
    BY <1>1 DEF queue_vars, hash_vars, tail_vars, head_vars
  <2>2. Parts'
    BY <1>0, <2>1 DEF Parts
  <2>3. \A V, c : Span(V, c)' = Span(V, c)
    BY <2>1 DEF Span, Row
  <2>4. \A p \in Producers : Of(p)' = Of(p) /\ OwnerPc(p)' = OwnerPc(p)
    BY <2>1 DEF Of, OwnerPc
  <2>5. ASSUME NEW B, NEW N, NEW M, BoundedBy(B, N, M) PROVE BoundedBy(B, N, M)'
    <3>1. \A V : Short(V)' = Short(V) /\ \A u \in Users : Scan(u, V)' = Scan(u, V)
      BY <2>1, <2>3 DEF Short, Scan, IDLE_QUELEN
    <3>2. \A V : \A p \in Producers : Since(N, V, p) => Since(N, V, p)'
      BY <2>1, <2>4 DEF Since, Loose
    <3>3. \A u, v : Older(M, u, v) => Older(M, u, v)'
      BY <2>1, <2>4 DEF Older
    <3>4. QED
      BY <2>1, <2>5, <3>1, <3>2, <3>3 DEF BoundedBy
  <2>6. \E B, N, M : BoundedBy(B, N, M)'
    BY <1>0, <2>5
  <2>7. QED
    BY <2>2, <2>6 DEF Bounded
<1>2. ASSUME NEW a \in Actors, Thread(a) PROVE Bounded'
  <2>1. setup' = setup /\ pc[a] # "out"
    BY <1>2 DEF Thread
  <2>2. CASE ListStep(a)
    <3>1. UNCHANGED <<producers, tailIndex, headIndex, pc, my>>
      BY <2>2 DEF ListStep, hash_vars, tail_vars, head_vars
    <3>2. Onward(a)
      BY <1>0, <2>1, <3>1, HeadsOnward DEF Onward
    <3>3. Parts'
      BY <1>0, <2>1, <3>2, PartsStep
    <3>4. \E B, N, M : BoundedBy(B, N, M)'
      BY <1>0, <3>1, <3>2, QuietBounded
    <3>5. QED
      BY <3>3, <3>4 DEF Bounded
  <2>3. CASE a \in Users /\ ~ListStep(a)
    <3>1. Ask(a) \/ CheckSize(a) \/ (LoadTail(a) /\ Unused) \/ TryEnqueue(a)
      BY <1>2, <2>3, UserQueueAssumption DEF Thread
    <3>2. Onward(a)
      BY <1>0, <2>1, <2>3, <3>1, UserOnward
    <3>3. Parts'
      BY <1>0, <2>1, <3>2, PartsStep
    <3>4. \E B, N, M : BoundedBy(B, N, M)'
      BY <1>0, <2>3, <3>1, <3>2, UserBounded
    <3>5. QED
      BY <3>3, <3>4 DEF Bounded
  <2>4. CASE a \in Workers /\ ~ListStep(a)
    <3>1. \/ (LoadTail(a) /\ Unused) \/ Poll(a) \/ Score(a) \/ NextSub(a) \/ Serve(a)
          \/ DequeueStep(a)
      BY <1>2, <2>4, UserQueueAssumption DEF Thread
    <3>2. Onward(a) /\ tailIndex' = tailIndex
      BY <1>0, <2>1, <2>4, <3>1, WorkerOnward
    <3>3. Parts'
      BY <1>0, <2>1, <3>2, PartsStep
    <3>4. \A u \in Users : pc'[u] = pc[u] /\ my'[u] = my[u]
      BY <2>4, <3>2, UserQueueAssumption DEF Onward
    <3>5. \E B, N, M : BoundedBy(B, N, M)'
      BY <1>0, <3>2, <3>4, QuietBounded
    <3>6. QED
      BY <3>3, <3>5 DEF Bounded
  <2>5. QED
    BY <2>2, <2>3, <2>4, UserQueueAssumption
<1>3. QED
  BY <1>1, <1>2, ThreadSteps

LEMMA BoundedInit == Init /\ Typed => Bounded
<1> SUFFICES ASSUME Init, Typed PROVE Bounded
  OBVIOUS
<1>1. /\ tailIndex \in Vectors /\ producers = <<>>
      /\ \A p \in Producers : tailIndex[p] = 0 /\ headIndex[p] \in Nat
      /\ \A a \in Actors : a \notin setup.threads => pc[a] = "out"
  BY DEF Init, QueueInit, Vectors, Typed, Shared
<1>2. Parts
  BY <1>1 DEF Parts
<1>3. Cardinality(Span(tailIndex, 0)) = 0 /\ IDLE_QUELEN \in Nat
  BY <1>1, SpanNone, QueueAssumption DEF Typed, Shared, IDLE_QUELEN
<1>4. PICK M : M = [u \in Users |-> tailIndex]
  OBVIOUS
<1>5. BoundedBy(tailIndex, {}, M)
  BY <1>1, <1>3, <1>4 DEF BoundedBy, Short, Since
<1>6. QED
  BY <1>2, <1>5 DEF Bounded

LEMMA BoundedShort ==
  ASSUME Typed, Bounded
  PROVE  InFlightBounded
<1> USE NullIsNoUser
<1> PICK B, N, M : BoundedBy(B, N, M)
  BY DEF Bounded
<1> DEFINE L == 1 .. Len(producers)
           last == [p \in L |-> <<p, tailIndex[p] - 1>>]
           E == {last[p] : p \in L}
<1>0. /\ B \in Vectors /\ N \in SUBSET Users /\ Short(B)
      /\ \A p \in Producers : Since(N, B, p)
      /\ \A p \in Producers : headIndex[p] \in Nat /\ tailIndex[p] \in Nat
  BY DEF BoundedBy, Typed, Shared
<1>1. InFlight \subseteq Span(B, 0) \cup E
  <2> SUFFICES ASSUME NEW p \in Producers, NEW i \in headIndex[p] .. tailIndex[p] - 1
               PROVE  <<p, i>> \in Span(B, 0) \cup E
    BY DEF InFlight
  <2>1. B[p] \in Nat /\ headIndex[p] \in Nat /\ tailIndex[p] \in Nat /\ Since(N, B, p)
    BY <1>0 DEF Vectors
  <2>2. CASE i <= B[p] - 1
    <3>1. <<p, i>> \in Row(B, p)
      BY <2>1, <2>2 DEF Row
    <3>2. QED
      BY <3>1, ProducersFinite DEF Span
  <2>3. CASE ~(i <= B[p] - 1)
    <3>1. i = tailIndex[p] - 1 /\ Loose(N, p)
      BY <2>1, <2>3 DEF Since
    <3>2. p \in L
      BY <1>0, <3>1 DEF Loose, OwnerPc, Of
    <3>3. QED
      BY <3>1, <3>2
  <2>4. QED
    BY <2>2, <2>3
<1>2. Len(producers) \in Nat /\ producers \in [L -> Users]
  BY DEF Typed, Known, HashTypes
<1>3. IsFiniteSet(L) /\ Cardinality(L) = Len(producers)
  BY <1>2, Initials
<1>4. IsFiniteSet(E) /\ Cardinality(E) <= Cardinality(L)
  <2>1. last \in Surjection(L, E)
    BY DEF Surjection
  <2> HIDE DEF last, E, L
  <2>2. QED
    BY <1>3, <2>1, FS_Surjection
<1>5. IsFiniteSet(SetUsers) /\ Cardinality(L) <= Cardinality(SetUsers)
  <2>1. SetUsers \in SUBSET Actors
    BY DEF SetUsers
  <2>2. IsFiniteSet(SetUsers)
    BY <2>1, FreeListAssumption, FS_Subset
  <2>3. producers \in Injection(L, SetUsers)
    BY <1>2 DEF Bounded, Parts, SetUsers, Typed, Known, OneEach, Injection, IsInjective
  <2> HIDE DEF L
  <2>4. QED
    BY <2>2, <2>3, FS_Injection
<1>6. IsFiniteSet(Span(B, 0))
  BY <1>0, SpanFinite
<1> PICK S : S = Span(B, 0)
  OBVIOUS
<1> HIDE DEF E, L
<1>7. /\ IsFiniteSet(S \cup E)
      /\ Cardinality(S \cup E) = Cardinality(S) + Cardinality(E) - Cardinality(S \cap E)
  BY <1>4, <1>6, FS_Union
<1>8. S \cap E \in SUBSET E
  OBVIOUS
<1>9. IsFiniteSet(S \cap E)
  BY <1>4, <1>8, FS_Subset
<1>10. Cardinality(InFlight) <= Cardinality(S \cup E) /\ IsFiniteSet(InFlight)
  BY <1>1, <1>7, FS_Subset
<1>11. /\ Cardinality(InFlight) \in Nat /\ Cardinality(S) \in Nat /\ Cardinality(E) \in Nat
       /\ Cardinality(S \cap E) \in Nat /\ Cardinality(SetUsers) \in Nat
       /\ Cardinality(L) \in Nat
  BY <1>2, <1>3, <1>4, <1>5, <1>6, <1>9, <1>10, FS_CardinalityType
<1>12. Cardinality(S) <= IDLE_QUELEN /\ IDLE_QUELEN \in Nat
  BY <1>0, QueueAssumption DEF Short, IDLE_QUELEN, Typed, Shared
<1> PICK c1, c2, c3, c4, c5, c6, c7, c8 :
      /\ c1 = Cardinality(InFlight) /\ c2 = Cardinality(S) /\ c3 = Cardinality(E)
      /\ c4 = Cardinality(S \cap E) /\ c5 = Cardinality(SetUsers) /\ c6 = IDLE_QUELEN
      /\ c7 = Cardinality(L) /\ c8 = Cardinality(S \cup E)
  OBVIOUS
<1>13. /\ c1 <= c8 /\ c8 = c2 + c3 - c4 /\ c2 <= c6 /\ c3 <= c7 /\ c7 <= c5
       /\ c1 \in Nat /\ c2 \in Nat /\ c3 \in Nat /\ c4 \in Nat /\ c5 \in Nat
       /\ c6 \in Nat /\ c7 \in Nat
  BY <1>4, <1>5, <1>7, <1>10, <1>11, <1>12
<1>14. c1 <= c6 + c5
  BY <1>13
<1>15. QED
  BY <1>14 DEF InFlightBounded

(* The wait for a short queue keeps it short (InFlightBounded): although a *)
(* user reads the sizes piece by piece while others put requests, the      *)
(* queue never holds more than IDLE_QUELEN requests and one for each user. *)
THEOREM QueueStaysShort == FairSpec => []InFlightBounded
<1>1. Init => Bounded
  BY TypedInit, BoundedInit
<1>2. Sound /\ Bounded => InFlightBounded
  BY BoundedShort DEF Sound
<1>3. QED
  BY <1>1, <1>2, BoundedStep, SoundHolds, PTL DEF FairSpec

=============================================================================
