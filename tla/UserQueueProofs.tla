--------------------------- MODULE UserQueueProofs ---------------------------
(***************************************************************************)
(* Proofs about the queued interface and the lock-free queue under it, for *)
(* any number of users, workers and blocks and any sizes.  The order is:   *)
(* arithmetic; the types and where each thread is; the hash table, whence  *)
(* each user has one sub-queue; the counts, whence the head never passes   *)
(* the tail; the owners of the blocks and the list of free ones.           *)
(***************************************************************************)
EXTENDS UserQueue, FiniteSetTheorems, WellFoundedInduction, TLAPS

-----------------------------------------------------------------------------
(* Arithmetic.                                                             *)

(* A set of natural numbers has a least member, a bounded one a greatest.  *)
LEMMA LeastOfNat ==
  ASSUME NEW T \in SUBSET Nat, T # {}
  PROVE  Min(T) \in T /\ \A y \in T : Min(T) <= y
<1>1. \E x \in T : \A y \in T : ~(<<y, x>> \in OpToRel(<, Nat))
  BY NatLessThanWellFounded, WFMin, Zenon
<1>2. PICK x \in T : \A y \in T : ~(<<y, x>> \in OpToRel(<, Nat))
  BY <1>1
<1>3. \A y \in T : x <= y
  <2> TAKE y \in T
  <2>1. x \in Nat /\ y \in Nat
    OBVIOUS
  <2>2. <<y, x>> \in OpToRel(<, Nat) <=> y < x
    BY <2>1 DEF OpToRel
  <2>3. ~(y < x)
    BY <1>2, <2>2
  <2>4. QED
    BY <2>1, <2>3
<1>4. \E z \in T : \A y \in T : z <= y
  BY <1>3
<1>5. QED
  BY <1>4 DEF Min

LEMMA GreatestOfNat ==
  ASSUME NEW T \in SUBSET Nat, T # {}, NEW n \in Nat, \A y \in T : y <= n
  PROVE  Max(T) \in T /\ \A y \in T : Max(T) >= y
<1> DEFINE U == {n - y : y \in T}
<1>1. U \in SUBSET Nat /\ U # {}
  <2>1. \A y \in T : n - y \in Nat /\ n - y \in U
    OBVIOUS
  <2>2. QED
    BY <2>1
<1>2. PICK u \in U : \A y \in U : u <= y
  BY <1>1, LeastOfNat
<1>3. PICK x \in T : u = n - x
  BY <1>2
<1>4. ASSUME NEW y \in T PROVE x >= y
  <2>1. n - y \in U
    OBVIOUS
  <2>2. n - x <= n - y
    BY <1>2, <1>3, <2>1
  <2>3. QED
    BY <2>2
<1>5. \E z \in T : \A y \in T : z >= y
  BY <1>4
<1>6. QED
  BY <1>5 DEF Max

(* Quotient and remainder are the only ones.                               *)
LEMMA DivMod ==
  ASSUME NEW x \in Int, NEW c \in Nat \ {0}
  PROVE  /\ x \div c \in Int /\ x % c \in 0 .. c - 1
         /\ x = c * (x \div c) + (x % c)
OBVIOUS

LEMMA ModRange ==
  ASSUME NEW x \in Int, NEW c \in Nat \ {0}
  PROVE  x % c \in 0 .. c - 1 /\ x % c \in Nat
OBVIOUS

LEMMA DivModUnique ==
  ASSUME NEW c \in Nat \ {0}, NEW q \in Int, NEW r \in 0 .. c - 1
  PROVE  (c * q + r) \div c = q /\ (c * q + r) % c = r
<1> DEFINE x == c * q + r
           k == x \div c
<1>1. x \in Int /\ k \in Int /\ x % c \in 0 .. c - 1 /\ x = c * k + (x % c)
  BY DivMod
<1>2. CASE k < q
  <2>1. PICK d \in Nat : q = k + 1 + d
    <3>1. q - k - 1 \in Nat /\ q = k + 1 + (q - k - 1)
      BY <1>1, <1>2
    <3>2. QED
      BY <3>1
  <2>2. c * q = c * k + c + c * d /\ c * d \in Nat
    BY <1>1, <2>1
  <2>3. QED
    BY <1>1, <2>2
<1>3. CASE k > q
  <2>1. PICK d \in Nat : k = q + 1 + d
    <3>1. k - q - 1 \in Nat /\ k = q + 1 + (k - q - 1)
      BY <1>1, <1>3
    <3>2. QED
      BY <3>1
  <2>2. c * k = c * q + c + c * d /\ c * d \in Nat
    BY <1>1, <2>1
  <2>3. QED
    BY <1>1, <2>2
<1>4. CASE k = q
  BY <1>1, <1>4
<1>5. QED
  BY <1>1, <1>2, <1>3, <1>4

(* A multiple of c more or less leaves the remainder as it is.             *)
LEMMA ModShift ==
  ASSUME NEW c \in Nat \ {0}, NEW x \in Int, NEW k \in Int
  PROVE  (x + c * k) % c = x % c /\ (x + c * k) \div c = x \div c + k
<1>1. x \div c \in Int /\ x % c \in 0 .. c - 1 /\ x = c * (x \div c) + (x % c)
  BY DivMod
<1>2. x + c * k = c * (x \div c + k) + (x % c)
  BY <1>1
<1>3. x \div c + k \in Int
  BY <1>1
<1>4. QED
  BY <1>1, <1>2, <1>3, DivModUnique

(* The next number has the next remainder, or 0.                           *)
LEMMA ModNext ==
  ASSUME NEW c \in Nat \ {0}, NEW x \in Int
  PROVE  (x + 1) % c = IF (x % c) + 1 = c THEN 0 ELSE (x % c) + 1
<1>1. x \div c \in Int /\ x % c \in 0 .. c - 1 /\ x = c * (x \div c) + (x % c)
  BY DivMod
<1>2. CASE (x % c) + 1 = c
  <2>1. x + 1 = c * (x \div c + 1) + 0
    BY <1>1, <1>2
  <2>2. (c * (x \div c + 1) + 0) % c = 0
    BY <1>1, DivModUnique
  <2>3. QED
    BY <1>2, <2>1, <2>2
<1>3. CASE (x % c) + 1 # c
  <2>1. x + 1 = c * (x \div c) + ((x % c) + 1) /\ (x % c) + 1 \in 0 .. c - 1
    BY <1>1, <1>3
  <2>2. (c * (x \div c) + ((x % c) + 1)) % c = (x % c) + 1
    BY <1>1, <2>1, DivModUnique
  <2>3. QED
    BY <1>3, <2>1, <2>2
<1>4. QED
  BY <1>2, <1>3

(* Probing: how far a place is from where the probes start.                *)
LEMMA ProbeDistance ==
  ASSUME NEW c \in Nat \ {0}, NEW h \in Nat, NEW x \in Nat
  PROVE  /\ ((x % c) - h) % c = (x - h) % c
         /\ (h + ((x - h) % c)) % c = x % c
         /\ ((x % c) + 1 - h) % c = IF ((x - h) % c) + 1 = c THEN 0 ELSE ((x - h) % c) + 1
<1>1. x \div c \in Int /\ x % c \in 0 .. c - 1 /\ x = c * (x \div c) + (x % c)
  BY DivMod
<1>2. x - h \in Int /\ (x % c) - h \in Int
  BY <1>1
<1>3. x - h = ((x % c) - h) + c * (x \div c)
  BY <1>1
<1>4. ((x % c) - h) % c = (x - h) % c
  BY <1>1, <1>2, <1>3, ModShift
<1> DEFINE d == x - h
<1>5. d \div c \in Int /\ d % c \in 0 .. c - 1 /\ d = c * (d \div c) + (d % c)
  BY <1>2, DivMod
<1>6. x = (h + (d % c)) + c * (d \div c) /\ h + (d % c) \in Int
  BY <1>5
<1>7. (h + (d % c)) % c = x % c
  <2>1. ((h + (d % c)) + c * (d \div c)) % c = (h + (d % c)) % c
    BY <1>5, <1>6, ModShift
  <2>2. QED
    BY <1>6, <2>1
<1>8. (x % c) + 1 - h = ((x % c) - h) + 1
  BY <1>1
<1>9. QED
  BY <1>2, <1>4, <1>7, <1>8, ModNext


-----------------------------------------------------------------------------
(* Types, and where each thread is.                                        *)

BlockOrNull == Blocks \cup {Null}
Entries == 0 .. setup.entries - 1

Naming == {"room", "resize", "unlock", "fits"}
Enqueueing == {"enqueue", "entry", "pool", "claim", "list", "fresh", "publish",
               "failed"}
UserPlaces == {"out", "ask", "tail", "head", "hash", "find", "slot"}
                \cup Naming \cup Enqueueing
WithSub == {"counts", "try", "reserve", "again", "giveback", "advance", "lookup",
            "locate", "empty", "unlink", "dequeued", "nextsub"}
WorkerPlaces == {"out", "poll", "tail", "head"} \cup WithSub

LocalNames == {"cursor", "tail", "size", "nonEmptyCount", "best", "bestSize", "p",
               "first", "count", "over", "index", "slot", "block", "item", "main"}
LocalOK(r) ==
  /\ DOMAIN r = LocalNames
  /\ r.cursor \in Nat /\ r.tail \in Nat /\ r.size \in Nat
  /\ r.nonEmptyCount \in Nat /\ r.best \in Nat /\ r.bestSize \in Nat
  /\ r.p \in Nat /\ r.count \in Nat /\ r.over \in Nat /\ r.index \in Nat
  /\ r.slot \in Nat /\ r.main \in Nat /\ r.first \in BOOLEAN
  /\ r.block \in BlockOrNull

ListPlaces == {"idle", "add", "top", "link", "count", "push", "undo", "load",
               "ref", "next", "pop", "got", "drop"}
ListOK(r) ==
  /\ DOMAIN r = {"at", "getting", "head", "next", "node"}
  /\ r.at \in ListPlaces /\ r.getting \in BOOLEAN
  /\ r.head \in BlockOrNull /\ r.next \in BlockOrNull /\ r.node \in BlockOrNull
  /\ r.at \in {"ref", "next", "pop", "got", "drop"} => r.head \in Blocks

Control ==
  /\ pc \in [Actors -> UserPlaces \cup WorkerPlaces]
  /\ \A u \in Users : pc[u] \in UserPlaces
  /\ \A w \in Workers : pc[w] \in WorkerPlaces
  /\ DOMAIN my = Actors /\ \A a \in Actors : LocalOK(my[a])

ListTypes ==
  /\ DOMAIN fl = Actors /\ \A a \in Actors : ListOK(fl[a])
  /\ freeListHead \in BlockOrNull
  /\ freeListNext \in [Blocks -> BlockOrNull]
  /\ freeListRefs \in [Blocks -> [n : Int, should : BOOLEAN]]

Shared ==
  /\ setup \in Setups
  /\ tailIndex \in [Producers -> Nat] /\ headIndex \in [Producers -> Nat]
  /\ dequeueOptimisticCount \in [Producers -> Nat]
  /\ dequeueOvercommit \in [Producers -> Nat]
  /\ tailBlock \in [Producers -> BlockOrNull]
  /\ blockIndex \in [Producers -> [Entries -> [key : Nat, value : BlockOrNull]]]
  /\ blockIndexTail \in [Producers -> Entries]
  /\ DOMAIN elements = Blocks
  /\ \A b \in Blocks : DOMAIN elements[b] = 0 .. BLK_SIZE - 1
  /\ elementsCompletelyDequeued \in [Blocks -> Nat]
  /\ initialBlockPoolIndex \in Nat
  /\ asked \in [Users -> Nat]

(* A table of the hash, and what the hash holds: its keys are users, with  *)
(* the numbers of their own sub-queues.                                    *)
TableOK(h) ==
  /\ Cardinality(DOMAIN h) \in Nat \ {0}
  /\ h \in [0 .. Cardinality(DOMAIN h) - 1 -> [key : Users \cup {Null}, value : Nat]]
AllTables ==
  UNION {[0 .. n - 1 -> [key : Users \cup {Null}, value : Nat]] : n \in Nat \ {0}}

HashTypes ==
  /\ implicitProducerHashCount \in Nat
  /\ implicitProducerHashResizeInProgress \in BOOLEAN
  /\ producers \in Seq(Users)
  /\ hashes \in Seq(AllTables)
  /\ Len(hashes) \in Nat \ {0} /\ DOMAIN hashes = 1 .. Len(hashes)
  /\ \A g \in 1 .. Len(hashes) : TableOK(hashes[g])

InRange(u) == \E p \in 1 .. Len(producers) : producers[p] = u
HasKey(g, u) == \E s \in DOMAIN hashes[g] : hashes[g][s].key = u
Entered(u) == \E g \in 1 .. Len(hashes) : HasKey(g, u)
Owns(u) == my[u].p \in 1 .. Len(producers) /\ producers[my[u].p] = u

(* How a user comes to its sub-queue, and who has entered itself.          *)
NamingOf(u) ==
  /\ pc[u] \in {"find", "slot"} \cup Naming => my[u].main \in 1 .. Len(hashes)
  /\ pc[u] = "find" => \A g \in 1 .. Len(hashes) : HasKey(g, u) => g <= my[u].main
  /\ pc[u] \in Naming => ~InRange(u)
  /\ pc[u] \in {"slot"} \cup Enqueueing => Owns(u)
  /\ InRange(u) /\ pc[u] # "slot" => Entered(u)

KeysOwn ==
  \A g \in 1 .. Len(hashes) : \A s \in DOMAIN hashes[g] :
    hashes[g][s].key # Null =>
      /\ hashes[g][s].value \in 1 .. Len(producers)
      /\ producers[hashes[g][s].value] = hashes[g][s].key

OneEach == \A p, q \in 1 .. Len(producers) : producers[p] = producers[q] => p = q

(* A scan of the sub-queues, and the sub-queue a worker has chosen.        *)
ScanOf(a) ==
  /\ pc[a] \in {"tail", "head"} =>
       /\ my[a].cursor \in 1 .. Len(producers)
       /\ IF my[a].nonEmptyCount = 0 THEN my[a].bestSize = 0
          ELSE my[a].best \in 1 .. Len(producers)
  /\ pc[a] \in WithSub => my[a].p \in 1 .. Len(producers)

Known ==
  /\ HashTypes /\ KeysOwn /\ OneEach
  /\ \A u \in Users : NamingOf(u)
  /\ \A a \in Actors : ScanOf(a)

(* An entry of the block index that a worker has read the number of.       *)
Located ==
  \A w \in Workers : pc[w] \in {"locate", "empty", "unlink"} => my[w].slot \in Entries

Typed == Control /\ ListTypes /\ Shared /\ Known /\ Located

-----------------------------------------------------------------------------
LEMMA Initials ==
  ASSUME NEW n \in Nat
  PROVE  /\ IsFiniteSet(1 .. n) /\ Cardinality(1 .. n) = n
         /\ IsFiniteSet(0 .. n - 1) /\ Cardinality(0 .. n - 1) = n
<1>1. IsFiniteSet(1 .. n) /\ Cardinality(1 .. n) = IF 1 <= n THEN n - 1 + 1 ELSE 0
  BY FS_Interval
<1>2. /\ IsFiniteSet(0 .. n - 1)
      /\ Cardinality(0 .. n - 1) = IF 0 <= n - 1 THEN n - 1 - 0 + 1 ELSE 0
  BY FS_Interval
<1>3. QED
  BY <1>1, <1>2

(* There are never more sub-queues than threads.                           *)
LEMMA FewProducers ==
  ASSUME HashTypes, OneEach
  PROVE  Len(producers) \in Nat /\ 1 .. Len(producers) \subseteq Producers
<1> USE FreeListAssumption, UserQueueAssumption
<1>1. Len(producers) \in Nat /\ producers \in [1 .. Len(producers) -> Actors]
  BY DEF HashTypes
<1>2. producers \in Injection(1 .. Len(producers), Actors)
  BY <1>1 DEF OneEach, Injection, IsInjective
<1>3. IsFiniteSet(1 .. Len(producers)) /\ Cardinality(1 .. Len(producers)) = Len(producers)
  BY <1>1, Initials
<1>4. Cardinality(1 .. Len(producers)) <= Cardinality(Actors)
  BY <1>2, <1>3, FS_Injection DEF ExistsInjection
<1>5. Cardinality(Actors) \in Nat
  BY FS_CardinalityType
<1>6. QED
  BY <1>1, <1>3, <1>4, <1>5 DEF Producers

(* The blocks of the pool are the blocks, each once.                       *)
LEMMA PoolOK ==
  /\ Cardinality(Blocks) \in Nat
  /\ Pool \in [1 .. Cardinality(Blocks) -> Blocks]
  /\ \A i, j \in 1 .. Cardinality(Blocks) : Pool[i] = Pool[j] => i = j
  /\ \A b \in Blocks : \E i \in 1 .. Cardinality(Blocks) : Pool[i] = b
<1> DEFINE n == Cardinality(Blocks)
<1>1. n \in Nat /\ ExistsBijection(1 .. n, Blocks)
  BY FreeListAssumption, FS_CardinalityType
<1>2. PICK f \in Bijection(1 .. n, Blocks) : TRUE
  BY <1>1 DEF ExistsBijection
<1>3. f \in [1 .. n -> Blocks] /\ \A i, j \in 1 .. n : f[i] = f[j] => i = j
  BY <1>2 DEF Bijection, Injection, IsInjective
<1>4. \E g \in [1 .. n -> Blocks] : IsInjective(g)
  BY <1>3 DEF IsInjective
<1>5. Pool \in [1 .. n -> Blocks] /\ IsInjective(Pool)
  BY <1>4 DEF Pool, SetToSeq
<1>6. \A i, j \in 1 .. n : Pool[i] = Pool[j] => i = j
  BY <1>5 DEF IsInjective
<1>7. Pool \in Injection(1 .. n, Blocks)
  BY <1>5, <1>6 DEF Injection, IsInjective
<1>8. IsFiniteSet(1 .. n) /\ Cardinality(1 .. n) = n
  BY <1>1, Initials
<1>9. Pool \in Surjection(1 .. n, Blocks)
  BY <1>7, <1>8, FreeListAssumption, FS_Injection
<1>10. QED
  BY <1>1, <1>5, <1>6, <1>9 DEF Surjection

-----------------------------------------------------------------------------
(* A step of a thread changes its own place and locals only.               *)
LEMMA StepEffect ==
  ASSUME Control, NEW a \in Actors, NEW l, NEW m, NEW r, Step(a, l, m, r)
  PROVE  /\ pc[a] = l /\ pc'[a] = m /\ my'[a] = r
         /\ DOMAIN pc' = Actors /\ DOMAIN my' = Actors
         /\ \A x \in Actors \ {a} : pc'[x] = pc[x] /\ my'[x] = my[x]
BY DEF Control, Step

LEMMA ControlStep ==
  ASSUME Control, NEW a \in Actors, NEW l, NEW m, NEW r, Step(a, l, m, r),
         LocalOK(r),
         a \in Users => m \in UserPlaces,
         a \in Workers => m \in WorkerPlaces
  PROVE  Control'
<1> USE UserQueueAssumption
<1>1. /\ pc[a] = l /\ pc'[a] = m /\ my'[a] = r
      /\ DOMAIN pc' = Actors /\ DOMAIN my' = Actors
      /\ \A x \in Actors \ {a} : pc'[x] = pc[x] /\ my'[x] = my[x]
  BY StepEffect
<1>2. m \in UserPlaces \cup WorkerPlaces
  OBVIOUS
<1>3. pc' \in [Actors -> UserPlaces \cup WorkerPlaces]
  BY <1>2 DEF Control, Step
<1>4. \A x \in Actors : LocalOK(my'[x])
  BY <1>1 DEF Control
<1>5. \A x \in Users : pc'[x] \in UserPlaces
  BY <1>1 DEF Control
<1>6. \A x \in Workers : pc'[x] \in WorkerPlaces
  BY <1>1 DEF Control
<1>7. QED
  BY <1>1, <1>3, <1>4, <1>5, <1>6 DEF Control, LocalOK

(* What the hash knows is as before when the hash is, but for the thread   *)
(* that takes a step.                                                      *)
LEMMA KnownFrame ==
  ASSUME Known, NEW a \in Actors, UNCHANGED <<hashes, producers>>,
         implicitProducerHashCount' \in Nat,
         implicitProducerHashResizeInProgress' \in BOOLEAN,
         \A x \in Actors \ {a} : pc'[x] = pc[x] /\ my'[x] = my[x],
         a \in Users => NamingOf(a)', ScanOf(a)'
  PROVE  Known'
<1> USE UserQueueAssumption
<1>1. HashTypes' /\ KeysOwn' /\ OneEach'
  BY DEF Known, HashTypes, TableOK, KeysOwn, OneEach
<1>2. ASSUME NEW u \in Users PROVE NamingOf(u)'
  <2>1. CASE u # a
    BY <2>1 DEF Known, NamingOf, InRange, Owns, Entered, HasKey
  <2>2. QED
    BY <2>1
<1>3. ASSUME NEW x \in Actors PROVE ScanOf(x)'
  <2>1. CASE x # a
    BY <2>1 DEF Known, ScanOf
  <2>2. QED
    BY <2>1
<1>4. QED
  BY <1>1, <1>2, <1>3 DEF Known

(* The same for the free list.                                             *)
LEMMA ListFrame ==
  ASSUME ListTypes, UNCHANGED free_vars
  PROVE  ListTypes'
BY DEF ListTypes, free_vars, ListOK

LEMMA SharedFrame ==
  ASSUME Shared, UNCHANGED <<setup, tail_vars, head_vars, index_vars, block_vars, asked>>
  PROVE  Shared'
BY DEF Shared, tail_vars, head_vars, index_vars, block_vars, Entries

LEMMA LocalsOK == LocalOK(Locals)
BY DEF LocalOK, Locals, LocalNames, BlockOrNull

LEMMA TableIn ==
  ASSUME NEW h, TableOK(h)
  PROVE  h \in AllTables
BY DEF TableOK, AllTables

LEMMA TypedInit == Init => Typed
<1> SUFFICES ASSUME Init PROVE Typed
  OBVIOUS
<1> USE UserQueueAssumption, FreeListAssumption, QueueAssumption DEF Init, QueueInit
<1> DEFINE c == INITIAL_IMPLICIT_PRODUCER_HASH_SIZE
<1>1. Control
  BY LocalsOK DEF Control, UserPlaces, WorkerPlaces
<1>2. ListTypes
  <2>1. ListOK(Idle)
    BY DEF ListOK, Idle, ListPlaces, BlockOrNull
  <2>2. \A a \in Actors : fl[a] = Idle
    BY DEF FreeListInit
  <2>3. DOMAIN fl = Actors /\ freeListHead \in BlockOrNull
        /\ freeListNext \in [Blocks -> BlockOrNull]
    BY DEF FreeListInit, BlockOrNull
  <2>4. freeListRefs \in [Blocks -> [n : Int, should : BOOLEAN]]
    BY DEF FreeListInit
  <2>5. QED
    BY <2>1, <2>2, <2>3, <2>4 DEF ListTypes
<1>3. setup \in Setups /\ setup.entries \in Nat \ {0, 1}
  OBVIOUS
<1>4. Shared
  BY <1>3 DEF Shared, Entries, BlockOrNull, INVALID_BLOCK_BASE
<1>5. /\ DOMAIN Table(c) = 0 .. c - 1 /\ Cardinality(0 .. c - 1) = c
      /\ \A s \in 0 .. c - 1 : Table(c)[s] = [key |-> Null, value |-> 0]
  BY Initials DEF Table
<1>6. TableOK(Table(c))
  BY <1>5 DEF TableOK, Table
<1>7. /\ Len(hashes) = 1 /\ DOMAIN hashes = 1 .. 1 /\ hashes[1] = Table(c)
      /\ producers = <<>> /\ Len(producers) = 0
  OBVIOUS
<1>8. HashTypes
  <2>1. \A g \in 1 .. Len(hashes) : TableOK(hashes[g])
    BY <1>6, <1>7
  <2>2. producers \in Seq(Users) /\ hashes \in Seq(AllTables)
    BY <1>6, <1>7, TableIn
  <2>3. /\ implicitProducerHashCount \in Nat
        /\ implicitProducerHashResizeInProgress \in BOOLEAN
    OBVIOUS
  <2>4. Len(hashes) \in Nat \ {0} /\ DOMAIN hashes = 1 .. Len(hashes)
    BY <1>7
  <2>5. QED
    BY <2>1, <2>2, <2>3, <2>4, Zenon DEF HashTypes
<1>9. KeysOwn
  BY <1>5, <1>7 DEF KeysOwn
<1>10. OneEach
  BY <1>7 DEF OneEach
<1>11. \A u \in Users : NamingOf(u)
  BY <1>7 DEF NamingOf, Naming, Enqueueing, InRange
<1>12. \A a \in Actors : ScanOf(a)
  BY DEF ScanOf, WithSub
<1>13. Located
  BY DEF Located
<1>14. QED
  BY <1>1, <1>2, <1>4, <1>8, <1>9, <1>10, <1>11, <1>12, <1>13 DEF Typed, Known

-----------------------------------------------------------------------------
(* Twice a number is at most its power of two: the intervals of 1 .. m     *)
(* that start at 1, and those that end at m, are as many subsets.          *)
LEMMA PowerPositive ==
  ASSUME NEW m \in Nat
  PROVE  2^m \in Nat \ {0} /\ (m # 0 => 2 * m <= 2^m)
<1> DEFINE S == 1 .. m
           P == SUBSET S
<1>1. IsFiniteSet(S) /\ Cardinality(S) = m
  BY Initials
<1>2. IsFiniteSet(P) /\ Cardinality(P) = 2^m
  BY <1>1, FS_SUBSET
<1>3. Cardinality(P) \in Nat /\ Cardinality(P) # 0
  <2>1. {} \in P
    OBVIOUS
  <2>2. QED
    BY <1>2, <2>1, FS_CardinalityType, FS_EmptySet
<1>4. ASSUME m # 0 PROVE 2 * m <= Cardinality(P)
  <2> DEFINE I == 1 .. 2 * m
             Part(i) == IF i <= m THEN 1 .. i ELSE i - m + 1 .. m
             f == [i \in I |-> IF i = 2 * m THEN {} ELSE Part(i)]
  <2>1. f \in [I -> P]
    <3>1. ASSUME NEW i \in I PROVE f[i] \in P
      OBVIOUS
    <3>2. QED
      BY <3>1
  <2>2. ASSUME NEW i \in I, NEW j \in I, f[i] = f[j] PROVE i = j
    <3>1. \A x \in I : x <= m => f[x] = 1 .. x /\ 1 \in f[x] /\ x \in f[x]
      BY <1>4
    <3>2. \A x \in I : x > m /\ x # 2 * m =>
            f[x] = (x - m + 1 .. m) /\ 1 \notin f[x] /\ x - m + 1 \in f[x]
      BY <1>4
    <3>3. f[2 * m] = {} /\ 2 * m > m
      BY <1>4
    <3>4. CASE i <= m /\ j <= m
      BY <2>2, <3>1, <3>4
    <3>5. CASE i > m /\ i # 2 * m /\ j > m /\ j # 2 * m
      BY <2>2, <3>2, <3>5
    <3>6. QED
      BY <2>2, <3>1, <3>2, <3>3, <3>4, <3>5
  <2> HIDE DEF f, Part
  <2>3. f \in Injection(I, P)
    BY <2>1, <2>2 DEF Injection, IsInjective
  <2>4. Cardinality(I) <= Cardinality(P)
    BY <2>3, <1>2, FS_Injection
  <2>5. 2 * m \in Nat
    OBVIOUS
  <2>6. Cardinality(I) = 2 * m
    BY <2>5, Initials
  <2>7. QED
    BY <2>4, <2>6
<1>5. QED
  BY <1>2, <1>3, <1>4

(* The new table has a size, which is what its doubling ends with.         *)
LEMMA DoubledOK ==
  ASSUME NEW n \in Nat, NEW c \in Nat \ {0}
  PROVE  Doubled(n, c) \in Nat \ {0}
<1> DEFINE Pow(e) == 2^e
           T == {k \in {c * Pow(e) : e \in 1 .. n + 1} : n < k \div 2}
<1>1. \A e \in 1 .. n + 1 : Pow(e) \in Nat \ {0}
  <2>1. \A e \in 1 .. n + 1 : e \in Nat
    OBVIOUS
  <2>2. QED
    BY <2>1, PowerPositive
<1>2. Pow(n + 1) \in Nat /\ 2 * (n + 1) <= Pow(n + 1)
  <2>1. n + 1 \in Nat /\ n + 1 # 0
    OBVIOUS
  <2>2. QED
    BY <2>1, PowerPositive
<1>3. Doubled(n, c) = Min(T)
  BY DEF Doubled
<1> HIDE DEF Pow
<1>4. \A k \in T : k \in Nat \ {0}
  <2> TAKE k \in T
  <2>1. PICK e \in 1 .. n + 1 : k = c * Pow(e)
    OBVIOUS
  <2>2. k \in Nat
    BY <2>1, <1>1
  <2>3. n < k \div 2
    OBVIOUS
  <2>4. k # 0
    BY <2>2, <2>3
  <2>5. QED
    BY <2>2, <2>4
<1>5. T # {}
  <2>1. c * Pow(n + 1) \in Nat /\ c * Pow(n + 1) >= Pow(n + 1)
    <3>1. PICK d \in Nat : c = d + 1
      <4>1. c - 1 \in Nat /\ c = (c - 1) + 1
        OBVIOUS
      <4>2. QED
        BY <4>1
    <3>2. c * Pow(n + 1) = d * Pow(n + 1) + Pow(n + 1) /\ d * Pow(n + 1) \in Nat
      BY <1>2, <3>1
    <3>3. QED
      BY <1>2, <3>2
  <2>2. n < (c * Pow(n + 1)) \div 2
    BY <1>2, <2>1
  <2>3. c * Pow(n + 1) \in T
    BY <2>2
  <2>4. QED
    BY <2>3
<1>6. Min(T) \in T
  BY <1>4, <1>5, LeastOfNat
<1>7. QED
  BY <1>3, <1>4, <1>6

-----------------------------------------------------------------------------
(* The hash table: a user finds its sub-queue, or makes one and enters     *)
(* itself.                                                                 *)

LEMMA TableFacts ==
  ASSUME HashTypes, NEW g \in 1 .. Len(hashes)
  PROVE  /\ Capacity(g) \in Nat \ {0}
         /\ DOMAIN hashes[g] = 0 .. Capacity(g) - 1
         /\ \A s \in 0 .. Capacity(g) - 1 :
              /\ hashes[g][s].key \in Users \cup {Null} /\ hashes[g][s].value \in Nat
              /\ DOMAIN hashes[g][s] = {"key", "value"}
BY DEF HashTypes, TableOK, Capacity

LEMMA NewTableOK ==
  ASSUME NEW n \in Nat \ {0}
  PROVE  /\ TableOK(Table(n)) /\ DOMAIN Table(n) = 0 .. n - 1
         /\ Cardinality(DOMAIN Table(n)) = n
         /\ \A s \in 0 .. n - 1 : Table(n)[s].key = Null
<1>1. /\ DOMAIN Table(n) = 0 .. n - 1 /\ Cardinality(0 .. n - 1) = n
      /\ \A s \in 0 .. n - 1 : Table(n)[s] = [key |-> Null, value |-> 0]
  BY Initials DEF Table
<1>2. TableOK(Table(n))
  BY <1>1 DEF TableOK, Table
<1>3. QED
  BY <1>1, <1>2

LEMMA NullIsNoUser == Null \notin Users /\ Null \notin Blocks /\ Users \subseteq Actors /\ Workers \subseteq Actors
BY FreeListAssumption, UserQueueAssumption

(* What is found in a table is the user's sub-queue.                       *)
LEMMA FoundOwn ==
  ASSUME HashTypes, KeysOwn, NEW u \in Users, NEW g \in 1 .. Len(hashes), HasKey(g, u)
  PROVE  /\ ValueIn(g, u) \in 1 .. Len(producers)
         /\ producers[ValueIn(g, u)] = u
<1> DEFINE S == {hashes[g][s] : s \in DOMAIN hashes[g]}
           e == CHOOSE x \in S : x.key = u
<1>1. \E x \in S : x.key = u
  BY DEF HasKey
<1>2. e \in S /\ e.key = u
  BY <1>1
<1>3. PICK s \in DOMAIN hashes[g] : e = hashes[g][s]
  BY <1>2
<1>4. ValueIn(g, u) = e.value
  BY DEF ValueIn
<1> HIDE DEF e, S
<1>5. QED
  BY <1>2, <1>3, <1>4, NullIsNoUser DEF KeysOwn

LEMMA LoadHashTyped ==
  ASSUME Typed, NEW u \in Users, LoadHash(u), UNCHANGED hash_vars
  PROVE  Control' /\ Known'
<1> USE NullIsNoUser, UserQueueAssumption DEF LoadHash
<1>1. LocalOK(my[u]) /\ Len(hashes) \in Nat
  BY DEF Typed, Control, Known, HashTypes
<1> DEFINE r == [my[u] EXCEPT !.main = Len(hashes)]
<1>2. LocalOK(r) /\ r.main = Len(hashes)
  BY <1>1 DEF LocalOK, LocalNames
<1>3. Control'
  BY <1>2, ControlStep DEF Typed, UserPlaces
<1>4. /\ pc[u] = "hash" /\ pc'[u] = "find" /\ my'[u] = r
      /\ \A x \in Actors \ {u} : pc'[x] = pc[x] /\ my'[x] = my[x]
  BY StepEffect DEF Typed
<1> HIDE DEF r
<1>5. NamingOf(u) /\ Len(hashes) \in Nat \ {0}
  BY DEF Typed, Known, HashTypes
<1>6. /\ hashes' = hashes /\ producers' = producers
      /\ implicitProducerHashCount' \in Nat
      /\ implicitProducerHashResizeInProgress' \in BOOLEAN
  BY DEF hash_vars, Typed, Known, HashTypes
<1>7. NamingOf(u)'
  BY <1>2, <1>4, <1>5, <1>6
     DEF NamingOf, InRange, Owns, Entered, HasKey, Naming, Enqueueing
<1>8. ScanOf(u)'
  BY <1>4 DEF ScanOf, WithSub
<1>9. QED
  BY <1>3, <1>4, <1>6, <1>7, <1>8, KnownFrame DEF Typed

LEMMA FindTyped ==
  ASSUME Typed, NEW u \in Users, Find(u)
  PROVE  Control' /\ Known'
<1> USE NullIsNoUser, UserQueueAssumption
<1>1. /\ LocalOK(my[u]) /\ hash_thread_id[u] \in Nat /\ implicitProducerHashCount \in Nat
      /\ NamingOf(u) /\ HashTypes /\ KeysOwn
  BY QueueAssumption DEF Typed, Control, Known, HashTypes
<1>2. /\ hashes' = hashes /\ producers' = producers
      /\ implicitProducerHashCount' \in Nat
      /\ implicitProducerHashResizeInProgress' \in BOOLEAN
  <2>1. implicitProducerHashCount' = implicitProducerHashCount
        \/ implicitProducerHashCount' = implicitProducerHashCount + 1
    BY DEF Find
  <2>2. /\ hashes' = hashes /\ producers' = producers
        /\ implicitProducerHashResizeInProgress' = implicitProducerHashResizeInProgress
    BY DEF Find
  <2>3. QED
    BY <1>1, <2>1, <2>2 DEF HashTypes
<1>3. pc[u] = "find"
  BY DEF Find, Step
<1>6. CASE \E g \in Tables(u) :
             /\ \A h \in Tables(u) : h <= g
             /\ Step(u, "find", IF g = my[u].main THEN "enqueue" ELSE "slot",
                     [my[u] EXCEPT !.p = ValueIn(g, u), !.slot = hash_thread_id[u]])
  <2>1. PICK g \in Tables(u) :
          Step(u, "find", IF g = my[u].main THEN "enqueue" ELSE "slot",
                  [my[u] EXCEPT !.p = ValueIn(g, u), !.slot = hash_thread_id[u]])
    BY <1>6
  <2>2. g \in 1 .. Len(hashes) /\ HasKey(g, u) /\ my[u].main \in 1 .. Len(hashes)
    BY <1>1, <1>3 DEF Tables, NamingOf, HasKey, HashTypes
  <2>3. ValueIn(g, u) \in 1 .. Len(producers) /\ producers[ValueIn(g, u)] = u
    BY <1>1, <2>2, FoundOwn
  <2> DEFINE r == [my[u] EXCEPT !.p = ValueIn(g, u), !.slot = hash_thread_id[u]]
             m == IF g = my[u].main THEN "enqueue" ELSE "slot"
  <2>4. LocalOK(r) /\ r.p = ValueIn(g, u) /\ r.main = my[u].main
    BY <1>1, <2>3 DEF LocalOK, LocalNames
  <2>5. m \in UserPlaces /\ m \in {"slot", "enqueue"}
    BY DEF UserPlaces, Enqueueing
  <2> HIDE DEF m, r
  <2>6. Step(u, "find", m, r)
    BY <2>1 DEF m, r
  <2>7. Control'
    BY <2>4, <2>5, <2>6, ControlStep DEF Typed
  <2>8. /\ pc'[u] = m /\ my'[u] = r
        /\ \A x \in Actors \ {u} : pc'[x] = pc[x] /\ my'[x] = my[x]
    BY <2>6, StepEffect DEF Typed
  <2>9. NamingOf(u)'
    BY <1>2, <2>2, <2>3, <2>4, <2>5, <2>8
       DEF NamingOf, InRange, Owns, Entered, HasKey, Naming, Enqueueing
  <2>10. ScanOf(u)'
    BY <2>5, <2>8 DEF ScanOf, WithSub
  <2>11. QED
    BY <1>2, <2>7, <2>8, <2>9, <2>10, KnownFrame DEF Typed
<1>7. CASE /\ Tables(u) = {}
           /\ Step(u, "find", "room",
                   [my[u] EXCEPT !.count = implicitProducerHashCount + 1])
  <2> DEFINE r == [my[u] EXCEPT !.count = implicitProducerHashCount + 1]
  <2>1. LocalOK(r) /\ r.main = my[u].main
    BY <1>1 DEF LocalOK, LocalNames
  <2>2. "room" \in UserPlaces
    BY DEF UserPlaces, Naming
  <2> HIDE DEF r
  <2>3. Step(u, "find", "room", r)
    BY <1>7 DEF r
  <2>4. Control'
    BY <2>1, <2>2, <2>3, ControlStep DEF Typed
  <2>5. /\ pc'[u] = "room" /\ my'[u] = r
        /\ \A x \in Actors \ {u} : pc'[x] = pc[x] /\ my'[x] = my[x]
    BY <2>3, StepEffect DEF Typed
  <2>6. ~Entered(u)
    BY <1>1, <1>3, <1>7 DEF Entered, NamingOf, Tables, HasKey, HashTypes
  <2>7. NamingOf(u)'
    BY <1>1, <1>2, <1>3, <2>1, <2>5, <2>6
       DEF NamingOf, InRange, Owns, Entered, HasKey, Naming, Enqueueing
  <2>8. ScanOf(u)'
    BY <2>5 DEF ScanOf, WithSub
  <2>9. QED
    BY <1>2, <2>4, <2>5, <2>7, <2>8, KnownFrame DEF Typed
<1>8. QED
  BY <1>6, <1>7 DEF Find

LEMMA RoomTyped ==
  ASSUME Typed, NEW u \in Users, Room(u)
  PROVE  Control' /\ Known'
<1> USE NullIsNoUser, UserQueueAssumption
<1>1. LocalOK(my[u]) /\ NamingOf(u) /\ Len(hashes) \in Nat \ {0}
  BY DEF Typed, Control, Known, HashTypes
<1>2. /\ hashes' = hashes /\ producers' = producers
      /\ implicitProducerHashCount' \in Nat
      /\ implicitProducerHashResizeInProgress' \in BOOLEAN
  BY DEF Room, Typed, Known, HashTypes
<1>3. PICK m \in {"resize", "fits"}, r \in {my[u], [my[u] EXCEPT !.main = Len(hashes)]} :
        Step(u, "room", m, r)
  BY DEF Room
<1>4. LocalOK(r) /\ r.main \in {my[u].main, Len(hashes)}
  BY <1>1 DEF LocalOK, LocalNames
<1>5. m \in UserPlaces /\ m \in Naming
  BY DEF UserPlaces, Naming
<1>6. Control'
  BY <1>3, <1>4, <1>5, ControlStep DEF Typed
<1>7. /\ pc[u] = "room" /\ pc'[u] = m /\ my'[u] = r
      /\ \A x \in Actors \ {u} : pc'[x] = pc[x] /\ my'[x] = my[x]
  BY <1>3, StepEffect DEF Typed
<1>8. NamingOf(u)'
  BY <1>1, <1>2, <1>4, <1>5, <1>7
     DEF NamingOf, InRange, Owns, Entered, HasKey, Naming, Enqueueing
<1>9. ScanOf(u)'
  BY <1>5, <1>7 DEF ScanOf, WithSub, Naming
<1>10. QED
  BY <1>2, <1>6, <1>7, <1>8, <1>9, KnownFrame DEF Typed

LEMMA UnlockTyped ==
  ASSUME Typed, NEW u \in Users, Unlock(u)
  PROVE  Control' /\ Known'
<1> USE NullIsNoUser, UserQueueAssumption
<1>1. LocalOK(my[u]) /\ NamingOf(u)
  BY DEF Typed, Control, Known, HashTypes
<1>2. /\ hashes' = hashes /\ producers' = producers
      /\ implicitProducerHashCount' \in Nat
      /\ implicitProducerHashResizeInProgress' \in BOOLEAN
  BY DEF Unlock, Typed, Known, HashTypes
<1>3. Step(u, "unlock", "fits", my[u])
  BY DEF Unlock
<1>4. "fits" \in UserPlaces
  BY DEF UserPlaces, Naming
<1>5. Control'
  BY <1>1, <1>3, <1>4, ControlStep DEF Typed
<1>6. /\ pc[u] = "unlock" /\ pc'[u] = "fits" /\ my'[u] = my[u]
      /\ \A x \in Actors \ {u} : pc'[x] = pc[x] /\ my'[x] = my[x]
  BY <1>3, StepEffect DEF Typed
<1>7. NamingOf(u)'
  BY <1>1, <1>2, <1>6
     DEF NamingOf, InRange, Owns, Entered, HasKey, Naming, Enqueueing
<1>8. ScanOf(u)'
  BY <1>6 DEF ScanOf, WithSub
<1>9. QED
  BY <1>2, <1>5, <1>6, <1>7, <1>8, KnownFrame DEF Typed

(* A new table holds no key yet.                                           *)
LEMMA ResizeTyped ==
  ASSUME Typed, NEW u \in Users, Resize(u)
  PROVE  Control' /\ Known'
<1> USE NullIsNoUser, UserQueueAssumption
<1>1. /\ LocalOK(my[u]) /\ NamingOf(u) /\ HashTypes /\ KeysOwn /\ OneEach
      /\ pc[u] = "resize" /\ my[u].main \in 1 .. Len(hashes) /\ my[u].count \in Nat
  BY DEF Typed, Control, Known, Resize, NamingOf, Naming, LocalOK
<1> DEFINE k == Doubled(my[u].count, Capacity(my[u].main))
<1>2. k \in Nat \ {0}
  BY <1>1, TableFacts, DoubledOK
<1>3. /\ TableOK(Table(k)) /\ \A s \in DOMAIN Table(k) : Table(k)[s].key = Null
  BY <1>2, NewTableOK
<1>4. /\ producers' = producers
      /\ implicitProducerHashCount' = implicitProducerHashCount
      /\ implicitProducerHashResizeInProgress' = implicitProducerHashResizeInProgress
  BY DEF Resize
<1>5. CASE /\ hashes' = Append(hashes, Table(k))
           /\ Step(u, "resize", "unlock", [my[u] EXCEPT !.main = Len(hashes) + 1])
  <2> DEFINE r == [my[u] EXCEPT !.main = Len(hashes) + 1]
             T == Table(k)
  <2>1. T \in AllTables /\ TableOK(T) /\ \A s \in DOMAIN T : T[s].key = Null
    BY <1>3, TableIn
  <2> HIDE DEF k, T
  <2>2. hashes' = Append(hashes, T)
    BY <1>5 DEF T
  <2>3. hashes \in Seq(AllTables) /\ Len(hashes) \in Nat \ {0}
    BY <1>1 DEF HashTypes
  <2>4. /\ hashes' \in Seq(AllTables) /\ Len(hashes') = Len(hashes) + 1
        /\ DOMAIN hashes' = 1 .. Len(hashes')
        /\ \A g \in 1 .. Len(hashes) : hashes'[g] = hashes[g]
        /\ hashes'[Len(hashes) + 1] = T
    BY <2>1, <2>2, <2>3
  <2>5. \A g \in 1 .. Len(hashes') : g \in 1 .. Len(hashes) \/ hashes'[g] = T
    BY <2>3, <2>4
  <2>6. HashTypes'
    <3>1. \A g \in 1 .. Len(hashes') : TableOK(hashes'[g])
      BY <1>1, <2>1, <2>4, <2>5 DEF HashTypes
    <3>2. Len(hashes') \in Nat \ {0} /\ DOMAIN hashes' = 1 .. Len(hashes')
      BY <2>3, <2>4
    <3>3. /\ implicitProducerHashCount' \in Nat /\ producers' \in Seq(Users)
          /\ implicitProducerHashResizeInProgress' \in BOOLEAN
      BY <1>1, <1>4 DEF HashTypes
    <3>4. QED
      BY <2>4, <3>1, <3>2, <3>3, Zenon DEF HashTypes, TableOK
  <2>7. KeysOwn'
    BY <1>1, <1>4, <2>1, <2>4, <2>5 DEF KeysOwn
  <2>8. OneEach'
    BY <1>1, <1>4 DEF OneEach
  <2>9. LocalOK(r) /\ r.main = Len(hashes')
    BY <1>1, <2>3, <2>4 DEF LocalOK, LocalNames
  <2> HIDE DEF r
  <2>10. Step(u, "resize", "unlock", r)
    BY <1>5 DEF r
  <2>11. "unlock" \in UserPlaces
    BY DEF UserPlaces, Naming
  <2>12. Control'
    BY <2>9, <2>10, <2>11, ControlStep DEF Typed
  <2>13. /\ pc'[u] = "unlock" /\ my'[u] = r
         /\ \A x \in Actors \ {u} : pc'[x] = pc[x] /\ my'[x] = my[x]
    BY <2>10, StepEffect DEF Typed
  <2>14. \A g \in 1 .. Len(hashes') :
           g \notin 1 .. Len(hashes) => \A x \in Users : ~HasKey(g, x)'
    BY <2>1, <2>5 DEF HasKey
  <2>15. \A x : \A g \in 1 .. Len(hashes) : HasKey(g, x)' <=> HasKey(g, x)
    BY <2>4 DEF HasKey
  <2>16. \A x \in Users : Entered(x) => Entered(x)'
    BY <2>3, <2>4, <2>15 DEF Entered
  <2>17. ASSUME NEW x \in Users PROVE NamingOf(x)'
    <3>1. CASE x = u
      BY <1>1, <1>4, <2>3, <2>4, <2>9, <2>13, <2>16, <3>1
         DEF NamingOf, InRange, Owns, Naming, Enqueueing
    <3>2. CASE x # u
      <4>1. NamingOf(x) /\ pc'[x] = pc[x] /\ my'[x] = my[x]
        BY <2>13, <3>2 DEF Typed, Known
      <4>2. my[x].main \in 1 .. Len(hashes) => my[x].main \in 1 .. Len(hashes')
        BY <2>3, <2>4
      <4>3. (\A g \in 1 .. Len(hashes) : HasKey(g, x) => g <= my[x].main)
             => (\A g \in 1 .. Len(hashes') : HasKey(g, x)' => g <= my[x].main)
        BY <2>3, <2>4, <2>14, <2>15
      <4>4. QED
        BY <1>4, <2>16, <4>1, <4>2, <4>3 DEF NamingOf, InRange, Owns
    <3>3. QED
      BY <3>1, <3>2
  <2>18. \A x \in Actors : ScanOf(x)'
    BY <1>4, <2>13 DEF Typed, Known, ScanOf, WithSub
  <2>19. QED
    BY <2>6, <2>7, <2>8, <2>12, <2>17, <2>18 DEF Known
<1>6. CASE Step(u, "resize", "unlock", my[u]) /\ UNCHANGED hashes
  <2>1. "unlock" \in UserPlaces
    BY DEF UserPlaces, Naming
  <2>2. Control'
    BY <1>1, <1>6, <2>1, ControlStep DEF Typed
  <2>3. /\ pc'[u] = "unlock" /\ my'[u] = my[u]
        /\ \A x \in Actors \ {u} : pc'[x] = pc[x] /\ my'[x] = my[x]
    BY <1>6, StepEffect DEF Typed
  <2>4. NamingOf(u)'
    BY <1>1, <1>4, <1>6, <2>3
       DEF NamingOf, InRange, Owns, Entered, HasKey, Naming, Enqueueing
  <2>5. ScanOf(u)'
    BY <2>3 DEF ScanOf, WithSub
  <2>6. implicitProducerHashCount' \in Nat /\ implicitProducerHashResizeInProgress' \in BOOLEAN
    BY <1>1, <1>4 DEF HashTypes
  <2>7. QED
    BY <1>4, <1>6, <2>2, <2>3, <2>4, <2>5, <2>6, KnownFrame DEF Typed
<1>7. QED
  BY <1>5, <1>6 DEF Resize

(* A new sub-queue is the only one of its user.                            *)
LEMMA FitsTyped ==
  ASSUME Typed, NEW u \in Users, Fits(u)
  PROVE  Control' /\ Known'
<1> USE NullIsNoUser, UserQueueAssumption
<1>1. /\ LocalOK(my[u]) /\ NamingOf(u) /\ HashTypes /\ KeysOwn /\ OneEach
      /\ pc[u] = "fits" /\ my[u].main \in 1 .. Len(hashes) /\ ~InRange(u)
      /\ hash_thread_id[u] \in Nat /\ Len(hashes) \in Nat \ {0}
      /\ producers \in Seq(Users) /\ Len(producers) \in Nat
  BY QueueAssumption DEF Typed, Control, Known, HashTypes, Fits, NamingOf, Naming
<1>2. /\ hashes' = hashes
      /\ implicitProducerHashCount' = implicitProducerHashCount
      /\ implicitProducerHashResizeInProgress' = implicitProducerHashResizeInProgress
  BY DEF Fits
<1>3. CASE /\ producers' = Append(producers, u)
           /\ Step(u, "fits", "slot", [my[u] EXCEPT !.p = Len(producers) + 1,
                                                    !.slot = hash_thread_id[u]])
  <2> DEFINE r == [my[u] EXCEPT !.p = Len(producers) + 1, !.slot = hash_thread_id[u]]
             n == Len(producers)
  <2>1. LocalOK(r) /\ r.main = my[u].main /\ r.p = n + 1
    BY <1>1 DEF LocalOK, LocalNames
  <2>2. /\ producers' \in Seq(Users) /\ Len(producers') = n + 1 /\ producers'[n + 1] = u
        /\ \A p \in 1 .. n : producers'[p] = producers[p]
    BY <1>1, <1>3
  <2>3. \A p \in 1 .. n : producers[p] # u
    BY <1>1 DEF InRange
  <2>4. n \in Nat
    BY <1>1
  <2> HIDE DEF r, n
  <2>5. Step(u, "fits", "slot", r)
    BY <1>3 DEF r
  <2>6. "slot" \in UserPlaces
    BY DEF UserPlaces
  <2>7. Control'
    BY <2>1, <2>5, <2>6, ControlStep DEF Typed
  <2>8. /\ pc'[u] = "slot" /\ my'[u] = r
        /\ \A x \in Actors \ {u} : pc'[x] = pc[x] /\ my'[x] = my[x]
    BY <2>5, StepEffect DEF Typed
  <2>9. HashTypes'
    BY <1>1, <1>2, <2>2 DEF HashTypes, TableOK
  <2>10. KeysOwn'
    BY <1>1, <1>2, <2>2, <2>4 DEF KeysOwn, n
  <2>11. OneEach'
    BY <1>1, <2>2, <2>3, <2>4 DEF OneEach, n
  <2>12. ASSUME NEW x \in Users PROVE NamingOf(x)'
    <3>1. CASE x = u
      BY <1>1, <1>2, <2>1, <2>2, <2>4, <2>8, <3>1
         DEF NamingOf, InRange, Owns, Naming, Enqueueing
    <3>2. CASE x # u
      <4>1. NamingOf(x) /\ pc'[x] = pc[x] /\ my'[x] = my[x]
        BY <2>8, <3>2 DEF Typed, Known
      <4>2. InRange(x)' <=> InRange(x)
        BY <2>2, <2>4, <3>2 DEF InRange, n
      <4>3. Owns(x) => Owns(x)'
        BY <2>2, <2>4, <4>1 DEF Owns, n
      <4>4. QED
        BY <1>2, <4>1, <4>2, <4>3 DEF NamingOf, HasKey, Entered
    <3>3. QED
      BY <3>1, <3>2
  <2>13. ASSUME NEW x \in Actors PROVE ScanOf(x)'
    <3>1. CASE x = u
      BY <2>8, <3>1 DEF ScanOf, WithSub
    <3>2. CASE x # u
      BY <2>2, <2>4, <2>8, <3>2 DEF Typed, Known, ScanOf, n
    <3>3. QED
      BY <3>1, <3>2
  <2>14. QED
    BY <2>7, <2>9, <2>10, <2>11, <2>12, <2>13 DEF Known
<1>4. CASE /\ Step(u, "fits", "room", [my[u] EXCEPT !.main = Len(hashes)])
           /\ UNCHANGED producers
  <2> DEFINE r == [my[u] EXCEPT !.main = Len(hashes)]
  <2>1. LocalOK(r) /\ r.main = Len(hashes)
    BY <1>1 DEF LocalOK, LocalNames
  <2> HIDE DEF r
  <2>2. Step(u, "fits", "room", r)
    BY <1>4 DEF r
  <2>3. "room" \in UserPlaces
    BY DEF UserPlaces, Naming
  <2>4. Control'
    BY <2>1, <2>2, <2>3, ControlStep DEF Typed
  <2>5. /\ pc'[u] = "room" /\ my'[u] = r
        /\ \A x \in Actors \ {u} : pc'[x] = pc[x] /\ my'[x] = my[x]
    BY <2>2, StepEffect DEF Typed
  <2>6. NamingOf(u)'
    BY <1>1, <1>2, <1>4, <2>1, <2>5
       DEF NamingOf, InRange, Owns, Entered, HasKey, Naming, Enqueueing
  <2>7. ScanOf(u)'
    BY <2>5 DEF ScanOf, WithSub
  <2>8. implicitProducerHashCount' \in Nat /\ implicitProducerHashResizeInProgress' \in BOOLEAN
    BY <1>1, <1>2 DEF HashTypes
  <2>9. QED
    BY <1>2, <1>4, <2>4, <2>5, <2>6, <2>7, <2>8, KnownFrame DEF Typed
<1>5. QED
  BY <1>3, <1>4 DEF Fits

(* A place is entered once, and keeps its key.                             *)
LEMMA EnterEffect ==
  ASSUME Typed, NEW u \in Users, pc[u] = "slot",
         hashes[my[u].main][my[u].slot % Capacity(my[u].main)].key = Null,
         hashes' = [hashes EXCEPT ![my[u].main][my[u].slot % Capacity(my[u].main)] =
                      [key |-> u, value |-> my[u].p]]
  PROVE  LET g == my[u].main
             s == my[u].slot % Capacity(g)
         IN  /\ g \in 1 .. Len(hashes) /\ s \in 0 .. Capacity(g) - 1
             /\ hashes' \in Seq(AllTables) /\ Len(hashes') = Len(hashes)
             /\ DOMAIN hashes' = 1 .. Len(hashes)
             /\ \A h \in 1 .. Len(hashes) :
                  /\ TableOK(hashes'[h]) /\ DOMAIN hashes'[h] = DOMAIN hashes[h]
                  /\ \A t \in DOMAIN hashes[h] :
                       hashes'[h][t] = IF h = g /\ t = s
                                       THEN [key |-> u, value |-> my[u].p]
                                       ELSE hashes[h][t]
<1> USE NullIsNoUser
<1> DEFINE g == my[u].main
           s == my[u].slot % Capacity(g)
           e == [key |-> u, value |-> my[u].p]
           T == [hashes[g] EXCEPT ![s] = e]
<1>1. /\ HashTypes /\ g \in 1 .. Len(hashes) /\ my[u].slot \in Nat /\ my[u].p \in Nat
  BY DEF Typed, Known, NamingOf, Control, LocalOK
<1>2. Capacity(g) \in Nat \ {0} /\ DOMAIN hashes[g] = 0 .. Capacity(g) - 1
  BY <1>1, TableFacts
<1>3. s \in 0 .. Capacity(g) - 1
  <2>1. my[u].slot \in Int /\ Capacity(g) \in Nat \ {0}
    BY <1>1, <1>2
  <2>2. QED
    BY <2>1, ModRange
<1>4. e \in [key : Users \cup {Null}, value : Nat]
  BY <1>1
<1>5. hashes' = [hashes EXCEPT ![g] = T]
  OBVIOUS
<1>6. /\ DOMAIN T = DOMAIN hashes[g]
      /\ \A t \in DOMAIN hashes[g] : T[t] = IF t = s THEN e ELSE hashes[g][t]
  OBVIOUS
<1> HIDE DEF s, e
<1>7. TableOK(T)
  BY <1>1, <1>2, <1>3, <1>4 DEF TableOK, HashTypes, Capacity
<1> HIDE DEF T
<1>8. T \in AllTables
  BY <1>7, TableIn
<1>9. /\ hashes' \in Seq(AllTables) /\ Len(hashes') = Len(hashes)
      /\ DOMAIN hashes' = 1 .. Len(hashes)
      /\ \A h \in 1 .. Len(hashes) : hashes'[h] = IF h = g THEN T ELSE hashes[h]
  <2>1. hashes \in Seq(AllTables) /\ DOMAIN hashes = 1 .. Len(hashes)
    BY <1>1 DEF HashTypes
  <2>2. QED
    BY <1>1, <1>5, <1>8, <2>1
<1>10. \A h \in 1 .. Len(hashes) : TableOK(hashes'[h])
  BY <1>1, <1>7, <1>9 DEF HashTypes
<1>11. QED
  BY <1>1, <1>3, <1>6, <1>9, <1>10 DEF s, e

LEMMA EnterTyped ==
  ASSUME Typed, NEW u \in Users, Enter(u)
  PROVE  Control' /\ Known'
<1> USE NullIsNoUser, UserQueueAssumption
<1> DEFINE g == my[u].main
           s == my[u].slot % Capacity(g)
<1>1. /\ LocalOK(my[u]) /\ NamingOf(u) /\ HashTypes /\ KeysOwn /\ OneEach
      /\ pc[u] = "slot" /\ g \in 1 .. Len(hashes) /\ Owns(u)
      /\ Len(hashes) \in Nat \ {0}
  BY DEF Typed, Control, Known, HashTypes, Enter, NamingOf
<1>2. /\ producers' = producers
      /\ implicitProducerHashCount' \in Nat
      /\ implicitProducerHashResizeInProgress' \in BOOLEAN
  BY <1>1 DEF Enter, HashTypes
<1>3. CASE /\ hashes[g][s].key = Null
           /\ hashes' = [hashes EXCEPT ![g][s] = [key |-> u, value |-> my[u].p]]
           /\ Step(u, "slot", "enqueue", my[u])
  <2>1. /\ s \in 0 .. Capacity(g) - 1
        /\ hashes' \in Seq(AllTables) /\ Len(hashes') = Len(hashes)
        /\ DOMAIN hashes' = 1 .. Len(hashes)
        /\ \A h \in 1 .. Len(hashes) :
             /\ TableOK(hashes'[h]) /\ DOMAIN hashes'[h] = DOMAIN hashes[h]
             /\ \A t \in DOMAIN hashes[h] :
                  hashes'[h][t] = IF h = g /\ t = s
                                  THEN [key |-> u, value |-> my[u].p]
                                  ELSE hashes[h][t]
    BY <1>1, <1>3, EnterEffect
  <2>2. s \in DOMAIN hashes[g]
    BY <1>1, <2>1, TableFacts
  <2>3. "enqueue" \in UserPlaces
    BY DEF UserPlaces, Enqueueing
  <2>4. Control'
    BY <1>1, <1>3, <2>3, ControlStep DEF Typed
  <2>5. /\ pc'[u] = "enqueue" /\ my'[u] = my[u]
        /\ \A x \in Actors \ {u} : pc'[x] = pc[x] /\ my'[x] = my[x]
    BY <1>3, StepEffect DEF Typed
  <2> HIDE DEF s
  <2>6. HashTypes'
    <3>1. /\ producers' \in Seq(Users) /\ Len(hashes') \in Nat \ {0}
          /\ DOMAIN hashes' = 1 .. Len(hashes')
      BY <1>1, <1>2, <2>1 DEF HashTypes
    <3>2. QED
      BY <1>2, <2>1, <3>1 DEF HashTypes, TableOK
  <2>7. KeysOwn'
    BY <1>1, <1>2, <2>1 DEF KeysOwn, Owns
  <2>8. OneEach'
    BY <1>1, <1>2 DEF OneEach
  <2>9. \A h \in 1 .. Len(hashes) : \A x \in Users :
          HasKey(h, x)' <=> (HasKey(h, x) \/ (h = g /\ x = u))
    BY <1>3, <2>1, <2>2 DEF HasKey
  <2>10. ASSUME NEW x \in Users PROVE NamingOf(x)'
    <3>1. CASE x = u
      <4>1. Entered(u)'
        BY <1>1, <2>1, <2>9 DEF Entered
      <4>2. QED
        BY <1>1, <1>2, <2>5, <3>1, <4>1 DEF NamingOf, Owns, Naming, Enqueueing
    <3>2. CASE x # u
      <4>1. NamingOf(x) /\ pc'[x] = pc[x] /\ my'[x] = my[x]
        BY <2>5, <3>2 DEF Typed, Known
      <4>2. \A h \in 1 .. Len(hashes) : HasKey(h, x)' <=> HasKey(h, x)
        BY <2>9, <3>2
      <4>3. Entered(x)' <=> Entered(x)
        BY <2>1, <4>2 DEF Entered
      <4>4. QED
        BY <1>2, <2>1, <4>1, <4>2, <4>3 DEF NamingOf, InRange, Owns
    <3>3. QED
      BY <3>1, <3>2
  <2>11. \A x \in Actors : ScanOf(x)'
    BY <1>2, <2>5 DEF Typed, Known, ScanOf, WithSub
  <2>12. QED
    BY <2>4, <2>6, <2>7, <2>8, <2>10, <2>11 DEF Known
<1>4. CASE Step(u, "slot", "slot", [my[u] EXCEPT !.slot = s + 1]) /\ UNCHANGED hashes
  <2> DEFINE r == [my[u] EXCEPT !.slot = s + 1]
  <2>1. s \in Nat
    <3>1. my[u].slot \in Int /\ Capacity(g) \in Nat \ {0}
      BY <1>1, TableFacts DEF LocalOK
    <3>2. QED
      BY <3>1, ModRange
  <2>2. LocalOK(r) /\ r.main = my[u].main /\ r.p = my[u].p
    BY <1>1, <2>1 DEF LocalOK, LocalNames
  <2> HIDE DEF r
  <2>3. Step(u, "slot", "slot", r)
    BY <1>4 DEF r
  <2>4. "slot" \in UserPlaces
    BY DEF UserPlaces
  <2>5. Control'
    BY <2>2, <2>3, <2>4, ControlStep DEF Typed
  <2>6. /\ pc'[u] = "slot" /\ my'[u] = r
        /\ \A x \in Actors \ {u} : pc'[x] = pc[x] /\ my'[x] = my[x]
    BY <2>3, StepEffect DEF Typed
  <2>7. NamingOf(u)'
    BY <1>1, <1>2, <1>4, <2>2, <2>6
       DEF NamingOf, InRange, Owns, Entered, HasKey, Naming, Enqueueing
  <2>8. ScanOf(u)'
    BY <2>6 DEF ScanOf, WithSub
  <2>9. QED
    BY <1>2, <1>4, <2>5, <2>6, <2>7, <2>8, KnownFrame DEF Typed
<1>5. QED
  BY <1>3, <1>4 DEF Enter

-----------------------------------------------------------------------------
(* The free list.                                                          *)

LEMMA ListStepTypes ==
  ASSUME ListTypes, NEW a \in Actors, FreeListStep(a)
  PROVE  ListTypes'
<1> USE NullIsNoUser
<1>1. /\ ListOK(fl[a]) /\ DOMAIN fl = Actors /\ freeListHead \in BlockOrNull
      /\ freeListNext \in [Blocks -> BlockOrNull]
      /\ freeListRefs \in [Blocks -> [n : Int, should : BOOLEAN]]
  BY DEF ListTypes
<1>2. ASSUME NEW r, ListOK(r), Go(a, r),
             freeListHead' \in BlockOrNull,
             freeListNext' \in [Blocks -> BlockOrNull],
             freeListRefs' \in [Blocks -> [n : Int, should : BOOLEAN]]
      PROVE  ListTypes'
  <2>1. DOMAIN fl' = Actors /\ fl'[a] = r /\ \A x \in Actors \ {a} : fl'[x] = fl[x]
    BY <1>1, <1>2 DEF Go
  <2>2. \A x \in Actors : ListOK(fl'[x])
    BY <1>2, <2>1 DEF ListTypes
  <2>3. QED
    BY <1>2, <2>1, <2>2 DEF ListTypes, ListOK
<1>3. ASSUME NEW b, NEW r \in [n : Int, should : BOOLEAN], Refs(b, r)
      PROVE  freeListRefs' \in [Blocks -> [n : Int, should : BOOLEAN]]
  BY <1>1, <1>3 DEF Refs
<1>4. ListOK(Idle)
  BY DEF ListOK, Idle, ListPlaces, BlockOrNull
<1>5. ASSUME NEW r, ListOK(r) PROVE ListOK(Added(r))
  BY <1>4, <1>5 DEF ListOK, Added, ListPlaces, BlockOrNull
<1>6. ASSUME NEW b \in Blocks
      PROVE  /\ freeListRefs[b].n \in Int /\ freeListRefs[b].should \in BOOLEAN
             /\ freeListRefs[b] \in [n : Int, should : BOOLEAN]
  BY <1>1
<1>7. CASE Add(a)
  <2> DEFINE b == fl[a].node
  <2>1. ListOK([fl[a] EXCEPT !.at = "top"])
    BY <1>1 DEF ListOK, ListPlaces
  <2>2. freeListRefs' \in [Blocks -> [n : Int, should : BOOLEAN]]
    BY <1>1, <1>7 DEF Add, Refs
  <2>3. PICK r : ListOK(r) /\ Go(a, r)
    BY <1>1, <1>5, <1>7, <2>1 DEF Add
  <2>4. QED
    BY <1>1, <1>2, <1>7, <2>2, <2>3 DEF Add
<1>8. CASE LoadTop(a)
  <2>1. ListOK([fl[a] EXCEPT !.at = "link", !.head = freeListHead])
    BY <1>1 DEF ListOK, ListPlaces
  <2>2. QED
    BY <1>1, <1>2, <1>8, <2>1 DEF LoadTop
<1>9. CASE Link(a)
  <2>1. ListOK([fl[a] EXCEPT !.at = "count"])
    BY <1>1 DEF ListOK, ListPlaces
  <2>2. freeListNext' \in [Blocks -> BlockOrNull]
    BY <1>1, <1>9 DEF Link, ListOK
  <2>3. QED
    BY <1>1, <1>2, <1>9, <2>1, <2>2 DEF Link
<1>10. CASE CountList(a)
  <2>1. ListOK([fl[a] EXCEPT !.at = "push"])
    BY <1>1 DEF ListOK, ListPlaces
  <2>2. freeListRefs' \in [Blocks -> [n : Int, should : BOOLEAN]]
    <3>1. [n |-> 1, should |-> FALSE] \in [n : Int, should : BOOLEAN]
      OBVIOUS
    <3>2. QED
      BY <1>3, <1>10, <3>1 DEF CountList
  <2>3. QED
    BY <1>1, <1>2, <1>10, <2>1, <2>2 DEF CountList
<1>11. CASE Push(a)
  <2>1. ListOK([fl[a] EXCEPT !.at = "undo", !.head = freeListHead])
    BY <1>1 DEF ListOK, ListPlaces
  <2>2. ListOK(Added(fl[a])) /\ fl[a].node \in BlockOrNull
    BY <1>1, <1>5 DEF ListOK
  <2>3. QED
    BY <1>1, <1>2, <1>11, <2>1, <2>2 DEF Push
<1>12. CASE Undo(a)
  <2>1. ListOK([fl[a] EXCEPT !.at = "link"])
    BY <1>1 DEF ListOK, ListPlaces
  <2>2. freeListRefs' \in [Blocks -> [n : Int, should : BOOLEAN]]
    <3> DEFINE b == fl[a].node
               r == [n |-> freeListRefs[b].n - 1, should |-> TRUE]
    <3>1. CASE b \in Blocks
      <4>1. r \in [n : Int, should : BOOLEAN]
        BY <1>6, <3>1
      <4>2. QED
        BY <1>3, <1>12, <4>1 DEF Undo
    <3>2. CASE b \notin Blocks
      BY <1>1, <1>12, <3>2 DEF Undo, Refs
    <3>3. QED
      BY <3>1, <3>2
  <2>3. PICK r : ListOK(r) /\ Go(a, r)
    BY <1>1, <1>5, <1>12, <2>1 DEF Undo
  <2>4. QED
    BY <1>1, <1>2, <1>12, <2>2, <2>3 DEF Undo
<1>13. CASE LoadHead(a)
  <2>1. ListOK([fl[a] EXCEPT !.at = IF freeListHead = Null THEN "idle" ELSE "ref",
                             !.head = freeListHead])
    BY <1>1 DEF ListOK, ListPlaces, BlockOrNull
  <2>2. QED
    BY <1>1, <1>2, <1>13, <2>1 DEF LoadHead
<1>14. CASE Reference(a)
  <2>1. ListOK([fl[a] EXCEPT !.at = "load"])
    BY <1>1 DEF ListOK, ListPlaces
  <2>2. ListOK([fl[a] EXCEPT !.at = "next"]) /\ fl[a].head \in Blocks
    BY <1>1, <1>14 DEF ListOK, ListPlaces, Reference, At
  <2>3. freeListRefs' \in [Blocks -> [n : Int, should : BOOLEAN]]
    BY <1>1, <1>6, <1>14, <2>2 DEF Reference, Refs
  <2>4. PICK r : ListOK(r) /\ Go(a, r)
    BY <1>14, <2>1, <2>2 DEF Reference
  <2>5. QED
    BY <1>1, <1>2, <1>14, <2>3, <2>4 DEF Reference
<1>15. CASE LoadNext(a)
  <2>1. ListOK([fl[a] EXCEPT !.at = "pop", !.next = freeListNext[fl[a].head]])
    BY <1>1, <1>15 DEF ListOK, ListPlaces, LoadNext, At
  <2>2. QED
    BY <1>1, <1>2, <1>15, <2>1 DEF LoadNext
<1>16. CASE Pop(a)
  <2>1. /\ ListOK([fl[a] EXCEPT !.at = "got"]) /\ fl[a].next \in BlockOrNull
        /\ ListOK([fl[a] EXCEPT !.at = "drop", !.next = freeListHead])
    BY <1>1, <1>16 DEF ListOK, ListPlaces, Pop, At
  <2>2. QED
    BY <1>1, <1>2, <1>16, <2>1 DEF Pop
<1>17. CASE Get(a)
  <2>1. fl[a].head \in Blocks
    BY <1>1, <1>17 DEF ListOK, Get, At
  <2>2. ListOK([Idle EXCEPT !.node = fl[a].head])
    BY <1>4, <2>1 DEF ListOK, BlockOrNull, Idle
  <2>3. freeListRefs' \in [Blocks -> [n : Int, should : BOOLEAN]]
    BY <1>1, <1>6, <1>17, <2>1 DEF Get, Refs
  <2>4. QED
    BY <1>1, <1>2, <1>17, <2>2, <2>3 DEF Get
<1>18. CASE Drop(a)
  <2> DEFINE r == [fl[a] EXCEPT !.node = fl[a].head]
  <2>1. fl[a].head \in Blocks
    BY <1>1, <1>18 DEF ListOK, Drop, At
  <2>2. ListOK(r) /\ ListOK([r EXCEPT !.at = "top"])
    BY <1>1, <2>1 DEF ListOK, ListPlaces, BlockOrNull
  <2> HIDE DEF r
  <2>3. ListOK(Added(r))
    BY <1>5, <2>2
  <2>4. freeListRefs' \in [Blocks -> [n : Int, should : BOOLEAN]]
    BY <1>1, <1>6, <1>18, <2>1 DEF Drop, Refs
  <2>5. PICK x : ListOK(x) /\ Go(a, x)
    BY <1>18, <2>2, <2>3 DEF Drop, r
  <2>6. QED
    BY <1>1, <1>2, <1>18, <2>4, <2>5 DEF Drop
<1>19. QED
  BY <1>7, <1>8, <1>9, <1>10, <1>11, <1>12, <1>13, <1>14, <1>15, <1>16, <1>17, <1>18
     DEF FreeListStep

LEMMA ListStepTyped ==
  ASSUME Typed, NEW a \in Actors, ListStep(a), UNCHANGED setup
  PROVE  Typed'
<1>1. UNCHANGED <<hash_vars, tail_vars, head_vars, index_vars, block_vars, pc, my, asked>>
  BY DEF ListStep
<1>2. Control'
  BY <1>1 DEF Typed, Control, LocalOK
<1>3. Shared'
  BY <1>1, SharedFrame DEF Typed
<1>4. ListTypes'
  BY ListStepTypes DEF Typed, ListStep
<1>5. Known'
  <2>1. /\ hashes' = hashes /\ producers' = producers
        /\ implicitProducerHashCount' \in Nat
        /\ implicitProducerHashResizeInProgress' \in BOOLEAN
        /\ pc' = pc /\ my' = my
    BY <1>1 DEF hash_vars, Typed, Known, HashTypes
  <2>2. a \in Users => NamingOf(a)'
    BY <2>1 DEF Typed, Known, NamingOf, InRange, Owns, Entered, HasKey
  <2>3. ScanOf(a)'
    BY <2>1 DEF Typed, Known, ScanOf
  <2>4. QED
    BY <2>1, <2>2, <2>3, KnownFrame DEF Typed
<1>6. Located'
  BY <1>1 DEF Typed, Located, Entries
<1>7. QED
  BY <1>2, <1>3, <1>4, <1>5, <1>6 DEF Typed

-----------------------------------------------------------------------------
(* The sub-queues.                                                         *)

(* A user that has its sub-queue keeps it until its element is published.  *)
LEMMA OwnerTyped ==
  ASSUME Typed, NEW u \in Users, NEW l \in Enqueueing, NEW m \in Enqueueing \cup {"ask"},
         NEW r, Step(u, l, m, r), LocalOK(r), m # "ask" => r.p = my[u].p,
         UNCHANGED hash_vars
  PROVE  Control' /\ Known'
<1> USE NullIsNoUser, UserQueueAssumption
<1>1. m \in UserPlaces
  BY DEF UserPlaces
<1>2. Control'
  BY <1>1, ControlStep DEF Typed
<1>3. /\ pc[u] = l /\ pc'[u] = m /\ my'[u] = r
      /\ \A x \in Actors \ {u} : pc'[x] = pc[x] /\ my'[x] = my[x]
  BY StepEffect DEF Typed
<1>4. /\ hashes' = hashes /\ producers' = producers
      /\ implicitProducerHashCount' \in Nat
      /\ implicitProducerHashResizeInProgress' \in BOOLEAN
  BY DEF hash_vars, Typed, Known, HashTypes
<1>5. NamingOf(u) /\ l # "slot" /\ m # "slot"
  BY DEF Typed, Known, Enqueueing
<1>6. NamingOf(u)'
  BY <1>3, <1>4, <1>5
     DEF NamingOf, InRange, Owns, Entered, HasKey, Naming, Enqueueing
<1>7. ScanOf(u)'
  BY <1>3 DEF ScanOf, WithSub, Enqueueing
<1>8. QED
  BY <1>2, <1>3, <1>4, <1>6, <1>7, KnownFrame DEF Typed

(* A worker's sub-queue is one of the list, and a scan passes over it.     *)
LEMMA WorkerTyped ==
  ASSUME Typed, NEW w \in Workers, NEW l, NEW m \in WorkerPlaces,
         NEW r, Step(w, l, m, r), LocalOK(r), UNCHANGED hash_vars,
         m \in WithSub => r.p \in 1 .. Len(producers),
         m \in {"tail", "head"} =>
           /\ r.cursor \in 1 .. Len(producers)
           /\ IF r.nonEmptyCount = 0 THEN r.bestSize = 0
              ELSE r.best \in 1 .. Len(producers)
  PROVE  Control' /\ Known'
<1> USE NullIsNoUser, UserQueueAssumption
<1>1. Control'
  BY ControlStep DEF Typed
<1>2. /\ pc'[w] = m /\ my'[w] = r
      /\ \A x \in Actors \ {w} : pc'[x] = pc[x] /\ my'[x] = my[x]
  BY StepEffect DEF Typed
<1>3. /\ hashes' = hashes /\ producers' = producers
      /\ implicitProducerHashCount' \in Nat
      /\ implicitProducerHashResizeInProgress' \in BOOLEAN
  BY DEF hash_vars, Typed, Known, HashTypes
<1>4. ScanOf(w)'
  BY <1>2, <1>3 DEF ScanOf
<1>5. QED
  BY <1>1, <1>2, <1>3, <1>4, KnownFrame DEF Typed

LEMMA OwnSub ==
  ASSUME Typed, NEW u \in Users, pc[u] \in Enqueueing \cup {"slot"}
  PROVE  /\ my[u].p \in Producers /\ my[u].p \in 1 .. Len(producers)
         /\ producers[my[u].p] = u
BY FewProducers DEF Typed, Known, NamingOf, Owns

LEMMA WorkerSub ==
  ASSUME Typed, NEW w \in Workers, pc[w] \in WithSub
  PROVE  my[w].p \in Producers /\ my[w].p \in 1 .. Len(producers)
BY FewProducers, NullIsNoUser DEF Typed, Known, ScanOf

LEMMA EntriesOK ==
  ASSUME Shared
  PROVE  setup.entries \in Nat \ {0, 1} /\ setup.blocks \in 1 .. Cardinality(Blocks)
BY QueueAssumption DEF Shared

(* A block index is of entries, whatever is put in one of them.            *)
LEMMA IndexTyped ==
  ASSUME Shared, NEW p \in Producers, NEW e \in Entries, NEW x,
         \/ /\ blockIndex' = [blockIndex EXCEPT ![p][e].key = x] /\ x \in Nat
         \/ /\ blockIndex' = [blockIndex EXCEPT ![p][e].value = x] /\ x \in BlockOrNull
  PROVE  /\ blockIndex' \in [Producers -> [Entries -> [key : Nat, value : BlockOrNull]]]
         /\ \A q \in Producers : \A f \in Entries :
              q # p \/ f # e => blockIndex'[q][f] = blockIndex[q][f]
<1> DEFINE R == [key : Nat, value : BlockOrNull]
<1>1. blockIndex \in [Producers -> [Entries -> R]] /\ blockIndex[p] \in [Entries -> R]
      /\ blockIndex[p][e] \in R
  BY DEF Shared
<1>2. PICK y \in R : blockIndex' = [blockIndex EXCEPT ![p] = [@ EXCEPT ![e] = y]]
  <2>1. CASE blockIndex' = [blockIndex EXCEPT ![p][e].key = x] /\ x \in Nat
    <3>1. [blockIndex[p][e] EXCEPT !.key = x] \in R
      BY <1>1, <2>1
    <3>2. QED
      BY <2>1, <3>1
  <2>2. CASE blockIndex' = [blockIndex EXCEPT ![p][e].value = x] /\ x \in BlockOrNull
    <3>1. [blockIndex[p][e] EXCEPT !.value = x] \in R
      BY <1>1, <2>2
    <3>2. QED
      BY <2>2, <3>1
  <2>3. QED
    BY <2>1, <2>2
<1> HIDE DEF R
<1>3. [blockIndex[p] EXCEPT ![e] = y] \in [Entries -> R]
  BY <1>1, <1>2
<1>4. blockIndex' \in [Producers -> [Entries -> R]]
  BY <1>1, <1>2, <1>3
<1>5. \A q \in Producers : \A f \in Entries :
        q # p \/ f # e => blockIndex'[q][f] = blockIndex[q][f]
  BY <1>1, <1>2
<1>6. QED
  BY <1>4, <1>5 DEF R

LEMMA GoTyped ==
  ASSUME ListTypes, NEW a \in Actors, NEW r, ListOK(r), Go(a, r),
         UNCHANGED <<freeListHead, freeListNext, freeListRefs>>
  PROVE  ListTypes'
<1>1. DOMAIN fl' = Actors /\ fl'[a] = r /\ \A x \in Actors \ {a} : fl'[x] = fl[x]
  BY DEF Go, ListTypes
<1>2. \A x \in Actors : ListOK(fl'[x])
  BY <1>1 DEF ListTypes
<1>3. QED
  BY <1>1, <1>2 DEF ListTypes, ListOK

LEMMA StartTyped ==
  /\ ListOK([Idle EXCEPT !.at = "load", !.getting = TRUE])
  /\ \A b \in BlockOrNull : ListOK([Idle EXCEPT !.at = "add", !.node = b])
BY DEF ListOK, Idle, ListPlaces, BlockOrNull

LEMMA LocatedFrame ==
  ASSUME Control, Located, NEW u \in Users, NEW l, NEW m, NEW r, Step(u, l, m, r),
         UNCHANGED setup
  PROVE  Located'
<1>1. \A w \in Workers : pc'[w] = pc[w] /\ my'[w] = my[w]
  BY StepEffect, UserQueueAssumption
<1>2. QED
  BY <1>1 DEF Located, Entries

LEMMA EnqueueTyped ==
  ASSUME Typed, NEW u \in Users, NEW request,
         EnqueueStep(u, request, "ask"), UNCHANGED setup,
         asked' \in [Users -> Nat]
  PROVE  Typed'
<1> USE NullIsNoUser, UserQueueAssumption
<1> DEFINE p == my[u].p
           E == setup.entries
<1>1. /\ LocalOK(my[u]) /\ Shared /\ ListTypes /\ E \in Nat \ {0, 1} /\ BLK_SIZE \in Nat \ {0, 1}
      /\ UNCHANGED <<hash_vars, head_vars>> /\ Entries' = Entries
      /\ tailIndex \in [Producers -> Nat] /\ tailBlock \in [Producers -> BlockOrNull]
      /\ blockIndexTail \in [Producers -> Entries] /\ initialBlockPoolIndex \in Nat
  BY EntriesOK, QueueAssumption DEF Typed, Control, EnqueueStep, Entries, Shared
<1>2. ASSUME NEW x \in Int PROVE x % E \in Entries
  <2>1. E \in Nat \ {0}
    BY <1>1
  <2>2. QED
    BY <2>1, ModRange DEF Entries
<1>3. ASSUME NEW q \in Producers
      PROVE  NextEntry(q) \in Entries /\ (blockIndexTail[q] - 1) % E \in Entries
  <2>1. blockIndexTail[q] + 1 \in Int /\ blockIndexTail[q] - 1 \in Int
    BY <1>1 DEF Entries
  <2>2. QED
    BY <1>2, <2>1 DEF NextEntry
<1>4. ASSUME NEW m \in Enqueueing, NEW r, NEW l \in Enqueueing, Step(u, l, m, r),
             LocalOK(r), r.p = my[u].p, ListTypes', Shared'
      PROVE  Typed'
  BY <1>1, <1>4, OwnerTyped, LocatedFrame DEF Typed
<1>5. \A b \in BlockOrNull : LocalOK([my[u] EXCEPT !.block = b])
                             /\ [my[u] EXCEPT !.block = b].p = p
  BY <1>1 DEF LocalOK, LocalNames
<1>6. ASSUME UNCHANGED <<tailIndex, tailBlock, blockIndexTail, elements,
                         elementsCompletelyDequeued, initialBlockPoolIndex>>,
             blockIndex' \in [Producers -> [Entries -> [key : Nat, value : BlockOrNull]]]
      PROVE  Shared'
  BY <1>1, <1>6 DEF Shared, head_vars
<1>7. UNCHANGED free_vars => ListTypes'
  BY <1>1, ListFrame
<1>8. CASE Enqueue(u)
  <2>1. p \in Producers
    BY <1>8, OwnSub DEF Enqueue, Enqueueing
  <2>2. blockIndex' \in [Producers -> [Entries -> [key : Nat, value : BlockOrNull]]]
    <3>1. CASE UNCHANGED blockIndex
      BY <1>1, <3>1 DEF Shared
    <3>2. CASE blockIndex' = [blockIndex EXCEPT ![p][NextEntry(p)].key = tailIndex[p]]
      <4>1. tailIndex[p] \in Nat
        BY <1>1, <2>1
      <4>2. QED
        BY <1>1, <1>3, <2>1, <3>2, <4>1, IndexTyped
    <3>3. QED
      BY <1>8, <3>1, <3>2 DEF Enqueue, p_of
  <2>3. Shared' /\ ListTypes'
    BY <1>6, <1>7, <1>8, <2>2 DEF Enqueue, tail_vars, block_vars
  <2>4. PICK m \in {"publish", "entry", "failed"},
             r \in {my[u], [my[u] EXCEPT !.block = tailBlock[p]]} : Step(u, "enqueue", m, r)
    BY <1>8 DEF Enqueue, p_of
  <2>5. m \in Enqueueing /\ "enqueue" \in Enqueueing
    BY DEF Enqueueing
  <2>6. tailBlock[p] \in BlockOrNull
    BY <1>1, <2>1
  <2>7. LocalOK(r) /\ r.p = p
    BY <1>1, <1>5, <2>6
  <2>8. QED
    BY <1>4, <2>3, <2>4, <2>5, <2>7
<1>9. CASE InsertEntry(u)
  <2>1. p \in Producers
    BY <1>9, OwnSub DEF InsertEntry, Step, Enqueueing
  <2>2. blockIndexTail' \in [Producers -> Entries]
    BY <1>1, <1>3, <1>9, <2>1 DEF InsertEntry, Put
  <2>3. Shared' /\ ListTypes'
    BY <1>1, <1>7, <1>9, <2>2 DEF InsertEntry, Shared, tail_vars, block_vars, head_vars
  <2>4. "pool" \in Enqueueing /\ "entry" \in Enqueueing
    BY DEF Enqueueing
  <2>5. QED
    BY <1>1, <1>4, <1>9, <2>3, <2>4 DEF InsertEntry
<1>10. CASE LoadPool(u)
  <2>1. ListTypes'
    <3>1. CASE UNCHANGED fl
      BY <1>7, <1>10, <3>1 DEF LoadPool, free_vars
    <3>2. CASE StartGet(u)
      BY <1>1, <1>10, <3>2, StartTyped, GoTyped DEF LoadPool, StartGet
    <3>3. QED
      BY <1>10, <3>1, <3>2 DEF LoadPool
  <2>2. Shared'
    BY <1>1, <1>10 DEF LoadPool, Shared, tail_vars, index_vars, block_vars, head_vars
  <2>3. PICK m \in {"claim", "list"} : Step(u, "pool", m, my[u])
    BY <1>10 DEF LoadPool
  <2>4. m \in Enqueueing /\ "pool" \in Enqueueing
    BY DEF Enqueueing
  <2>5. QED
    BY <1>1, <1>4, <2>1, <2>2, <2>3, <2>4
<1>11. CASE ClaimPool(u)
  <2>1. Shared'
    BY <1>1, <1>11 DEF ClaimPool, Shared, tail_vars, index_vars, head_vars
  <2>2. "fresh" \in Enqueueing /\ "list" \in Enqueueing /\ "claim" \in Enqueueing
    BY DEF Enqueueing
  <2>3. CASE /\ initialBlockPoolIndex < setup.blocks /\ UNCHANGED fl
             /\ Step(u, "claim", "fresh",
                     [my[u] EXCEPT !.block = Pool[initialBlockPoolIndex + 1]])
    <3>1. Pool[initialBlockPoolIndex + 1] \in BlockOrNull
      <4>1. setup.blocks \in 1 .. Cardinality(Blocks) /\ Cardinality(Blocks) \in Nat
            /\ Pool \in [1 .. Cardinality(Blocks) -> Blocks]
        BY <1>1, EntriesOK, PoolOK
      <4>2. initialBlockPoolIndex + 1 \in 1 .. Cardinality(Blocks)
        BY <1>1, <2>3, <4>1
      <4>3. QED
        BY <4>1, <4>2 DEF BlockOrNull
    <3>2. ListTypes'
      BY <1>7, <1>11, <2>3 DEF ClaimPool, free_vars
    <3>3. QED
      BY <1>4, <1>5, <2>1, <2>2, <2>3, <3>1, <3>2
  <2>4. CASE Step(u, "claim", "list", my[u]) /\ StartGet(u)
    <3>1. ListTypes'
      BY <1>1, <1>11, <2>4, StartTyped, GoTyped DEF ClaimPool, StartGet
    <3>2. QED
      BY <1>1, <1>4, <2>1, <2>2, <2>4, <3>1
  <2>5. QED
    BY <1>11, <2>3, <2>4 DEF ClaimPool
<1>12. CASE FromList(u)
  <2>1. p \in Producers /\ blockIndexTail[p] \in Entries
    BY <1>1, <1>12, OwnSub DEF FromList, Enqueueing
  <2>2. ListTypes'
    BY <1>7, <1>12 DEF FromList
  <2>3. "fresh" \in Enqueueing /\ "list" \in Enqueueing /\ "failed" \in Enqueueing
    BY DEF Enqueueing
  <2>4. CASE Step(u, "list", "fresh", [my[u] EXCEPT !.block = Gotten(u)])
             /\ UNCHANGED index_vars
    <3>1. Gotten(u) \in BlockOrNull
      BY <1>1 DEF ListTypes, ListOK, Gotten
    <3>2. Shared'
      BY <1>1, <1>12, <2>4 DEF FromList, Shared, tail_vars, index_vars, head_vars, block_vars
    <3>3. QED
      BY <1>4, <1>5, <2>2, <2>3, <2>4, <3>1, <3>2
  <2>5. CASE /\ Step(u, "list", "failed", my[u])
             /\ blockIndex' = [blockIndex EXCEPT ![p][blockIndexTail[p]].value = Null]
             /\ blockIndexTail' = Put(blockIndexTail, p, (blockIndexTail[p] - 1) % E)
    <3>1. Null \in BlockOrNull
      BY DEF BlockOrNull
    <3>2. blockIndex' \in [Producers -> [Entries -> [key : Nat, value : BlockOrNull]]]
      BY <1>1, <2>1, <2>5, <3>1, IndexTyped
    <3>3. blockIndexTail' \in [Producers -> Entries]
      BY <1>1, <1>3, <2>1, <2>5 DEF Put
    <3>4. Shared'
      BY <1>1, <1>12, <3>2, <3>3 DEF FromList, Shared, tail_vars, head_vars, block_vars
    <3>5. QED
      BY <1>1, <1>4, <2>2, <2>3, <2>5, <3>4
  <2>6. QED
    BY <1>12, <2>4, <2>5 DEF FromList, p_of
<1>13. CASE Fresh(u)
  <2>1. p \in Producers /\ blockIndexTail[p] \in Entries /\ my[u].block \in BlockOrNull
    BY <1>1, <1>13, OwnSub DEF Fresh, Step, Enqueueing, LocalOK
  <2>2. blockIndex' \in [Producers -> [Entries -> [key : Nat, value : BlockOrNull]]]
    BY <1>1, <1>13, <2>1, IndexTyped DEF Fresh, p_of
  <2>3. /\ elementsCompletelyDequeued' \in [Blocks -> Nat]
        /\ tailBlock' \in [Producers -> BlockOrNull]
    BY <1>1, <1>13, <2>1 DEF Fresh, Put, Shared
  <2>4. Shared'
    BY <1>1, <1>13, <2>2, <2>3 DEF Fresh, Shared, head_vars
  <2>5. ListTypes'
    BY <1>7, <1>13 DEF Fresh
  <2>6. "publish" \in Enqueueing /\ "fresh" \in Enqueueing
    BY DEF Enqueueing
  <2>7. QED
    BY <1>1, <1>4, <1>13, <2>4, <2>5, <2>6 DEF Fresh
<1>14. CASE Publish(u, request, "ask")
  <2>1. p \in Producers
    BY <1>14, OwnSub DEF Publish, Step, Enqueueing
  <2>2. tailIndex' \in [Producers -> Nat]
    BY <1>1, <1>14, <2>1 DEF Publish, Put, p_of
  <2>3. DOMAIN elements' = Blocks /\ \A b \in Blocks : DOMAIN elements'[b] = 0 .. BLK_SIZE - 1
    BY <1>1, <1>14 DEF Publish, Shared
  <2>4. Shared'
    BY <1>1, <1>14, <2>2, <2>3 DEF Publish, Shared, head_vars, index_vars
  <2>5. ListTypes'
    BY <1>7, <1>14 DEF Publish
  <2>6. "publish" \in Enqueueing
    BY DEF Enqueueing
  <2>7. Control' /\ Known'
    BY <1>1, <1>14, <2>6, LocalsOK, OwnerTyped DEF Publish
  <2>8. Located'
    BY <1>1, <1>14, LocatedFrame DEF Publish, Typed
  <2>9. QED
    BY <2>4, <2>5, <2>7, <2>8 DEF Typed
<1>15. QED
  BY <1>8, <1>9, <1>10, <1>11, <1>12, <1>13, <1>14 DEF EnqueueStep

LEMMA DequeueTyped ==
  ASSUME Typed, NEW w \in Workers, DequeueStep(w), UNCHANGED <<setup, asked>>
  PROVE  Typed'
<1> USE NullIsNoUser, UserQueueAssumption
<1> DEFINE p == my[w].p
           E == setup.entries
<1>1. /\ LocalOK(my[w]) /\ Shared /\ ListTypes /\ E \in Nat \ {0, 1} /\ BLK_SIZE \in Nat \ {0, 1}
      /\ UNCHANGED <<hash_vars, tail_vars, blockIndexTail>> /\ Entries' = Entries
      /\ tailIndex \in [Producers -> Nat] /\ headIndex \in [Producers -> Nat]
      /\ dequeueOptimisticCount \in [Producers -> Nat]
      /\ dequeueOvercommit \in [Producers -> Nat]
      /\ blockIndexTail \in [Producers -> Entries]
  BY EntriesOK, QueueAssumption DEF Typed, Control, DequeueStep, Entries, Shared
<1>2. ASSUME NEW m \in WithSub, NEW r, NEW l \in WithSub, Step(w, l, m, r),
             LocalOK(r), r.p = my[w].p, ListTypes', Shared',
             m \in {"locate", "empty", "unlink"} => r.slot \in Entries
      PROVE  Typed'
  <2>1. m \in WorkerPlaces /\ m \notin {"tail", "head"}
    BY DEF WorkerPlaces, WithSub
  <2>2. pc[w] \in WithSub
    BY <1>2 DEF Step
  <2>3. r.p \in 1 .. Len(producers)
    BY <1>2, <2>2, WorkerSub
  <2>4. Control' /\ Known'
    BY <1>1, <1>2, <2>1, <2>3, WorkerTyped
  <2>5. /\ pc'[w] = m /\ my'[w] = r
        /\ \A x \in Actors \ {w} : pc'[x] = pc[x] /\ my'[x] = my[x]
    BY <1>2, StepEffect DEF Typed
  <2>6. Located'
    BY <1>1, <1>2, <2>5 DEF Located, Typed
  <2>7. QED
    BY <1>2, <2>4, <2>6 DEF Typed
<1>3. UNCHANGED free_vars => ListTypes'
  BY <1>1, ListFrame
<1>4. ASSUME UNCHANGED <<head_vars, blockIndex, block_vars>> PROVE Shared'
  BY <1>1, <1>4 DEF Shared, tail_vars, head_vars, block_vars
<1>5. ASSUME pc[w] \in WithSub PROVE p \in Producers
  BY <1>5, WorkerSub
<1>6. CASE LoadCounts(w)
  <2> DEFINE r == [my[w] EXCEPT !.tail = tailIndex[p], !.over = dequeueOvercommit[p]]
  <2>1. "counts" \in WithSub /\ "try" \in WithSub
    BY DEF WithSub
  <2>2. p \in Producers
    BY <1>5, <1>6, <2>1 DEF LoadCounts, Step
  <2>3. LocalOK(r) /\ r.p = p
    BY <1>1, <2>2 DEF LocalOK, LocalNames
  <2> HIDE DEF r
  <2>4. Step(w, "counts", "try", r)
    BY <1>6 DEF LoadCounts, p_of, r
  <2>5. Shared' /\ ListTypes'
    BY <1>3, <1>4, <1>6 DEF LoadCounts
  <2>6. QED
    BY <1>2, <2>1, <2>3, <2>4, <2>5
<1>7. CASE Try(w)
  <2>1. PICK m \in {"reserve", "nextsub"} : Step(w, "try", m, my[w])
    BY <1>7 DEF Try
  <2>2. m \in WithSub /\ "try" \in WithSub
    BY DEF WithSub
  <2>3. Shared' /\ ListTypes'
    BY <1>3, <1>4, <1>7 DEF Try
  <2>4. QED
    BY <1>1, <1>2, <2>1, <2>2, <2>3
<1>8. CASE Reserve(w)
  <2> DEFINE r == [my[w] EXCEPT !.count = dequeueOptimisticCount[p]]
  <2>1. "reserve" \in WithSub /\ "again" \in WithSub
    BY DEF WithSub
  <2>2. p \in Producers
    BY <1>5, <1>8, <2>1 DEF Reserve
  <2>3. LocalOK(r) /\ r.p = p
    BY <1>1, <2>2 DEF LocalOK, LocalNames
  <2> HIDE DEF r
  <2>4. Step(w, "reserve", "again", r)
    BY <1>8 DEF Reserve, p_of, r
  <2>5. dequeueOptimisticCount' \in [Producers -> Nat]
    BY <1>1, <1>8, <2>2 DEF Reserve, p_of, Put
  <2>6. Shared' /\ ListTypes'
    BY <1>1, <1>3, <1>8, <2>5 DEF Reserve, Shared, tail_vars, block_vars
  <2>7. QED
    BY <1>2, <2>1, <2>3, <2>4, <2>6
<1>9. CASE Again(w)
  <2>1. PICK m \in {"advance", "giveback"} : Step(w, "again", m, my[w])
    BY <1>9 DEF Again
  <2>2. m \in WithSub /\ "again" \in WithSub
    BY DEF WithSub
  <2>3. Shared' /\ ListTypes'
    BY <1>3, <1>4, <1>9 DEF Again
  <2>4. QED
    BY <1>1, <1>2, <2>1, <2>2, <2>3
<1>10. CASE GiveBack(w)
  <2>1. "giveback" \in WithSub /\ "nextsub" \in WithSub
    BY DEF WithSub
  <2>2. p \in Producers
    BY <1>5, <1>10, <2>1 DEF GiveBack, Step
  <2>3. dequeueOvercommit' \in [Producers -> Nat]
    BY <1>1, <1>10, <2>2 DEF GiveBack, p_of, Put
  <2>4. Shared' /\ ListTypes'
    BY <1>1, <1>3, <1>10, <2>3 DEF GiveBack, Shared, tail_vars, block_vars
  <2>5. QED
    BY <1>1, <1>2, <1>10, <2>1, <2>4 DEF GiveBack
<1>11. CASE Advance(w)
  <2> DEFINE r == [my[w] EXCEPT !.index = headIndex[p]]
  <2>1. "advance" \in WithSub /\ "lookup" \in WithSub
    BY DEF WithSub
  <2>2. p \in Producers
    BY <1>5, <1>11, <2>1 DEF Advance, Step
  <2>3. LocalOK(r) /\ r.p = p
    BY <1>1, <2>2 DEF LocalOK, LocalNames
  <2> HIDE DEF r
  <2>4. Step(w, "advance", "lookup", r)
    BY <1>11 DEF Advance, p_of, r
  <2>5. headIndex' \in [Producers -> Nat]
    BY <1>1, <1>11, <2>2 DEF Advance, p_of, Put
  <2>6. Shared' /\ ListTypes'
    BY <1>1, <1>3, <1>11, <2>5 DEF Advance, Shared, tail_vars, block_vars
  <2>7. QED
    BY <1>2, <2>1, <2>3, <2>4, <2>6
<1>12. CASE LookUp(w)
  <2> DEFINE r == [my[w] EXCEPT !.slot = blockIndexTail[p]]
  <2>1. "lookup" \in WithSub /\ "locate" \in WithSub
    BY DEF WithSub
  <2>2. p \in Producers
    BY <1>5, <1>12, <2>1 DEF LookUp, Step
  <2>3. blockIndexTail[p] \in Nat /\ blockIndexTail[p] \in Entries
    BY <1>1, <2>2 DEF Entries
  <2>4. LocalOK(r) /\ r.p = p /\ r.slot \in Entries
    BY <1>1, <2>3 DEF LocalOK, LocalNames
  <2> HIDE DEF r
  <2>5. Step(w, "lookup", "locate", r)
    BY <1>12 DEF LookUp, p_of, r
  <2>6. Shared' /\ ListTypes'
    BY <1>3, <1>4, <1>12 DEF LookUp
  <2>7. QED
    BY <1>2, <2>1, <2>4, <2>5, <2>6
<1>13. CASE TakeElement(w)
  <2> DEFINE e == EntryOf(p, my[w].index, my[w].slot)
             b == blockIndex[p][e].value
             x == elements[b][my[w].index % BLK_SIZE]
             r == [my[w] EXCEPT !.slot = e, !.block = b, !.item = x]
  <2>1. "locate" \in WithSub /\ "empty" \in WithSub
    BY DEF WithSub
  <2>2. p \in Producers
    BY <1>5, <1>13, <2>1 DEF TakeElement
  <2>3. e \in Entries
    <3> DEFINE base == my[w].index - (my[w].index % BLK_SIZE)
               k == blockIndex[p][my[w].slot].key
    <3>1. my[w].slot \in Entries
      BY <1>13 DEF TakeElement, Typed, Located
    <3>2. k \in Nat /\ my[w].index \in Nat
      BY <1>1, <2>2, <3>1 DEF Shared, LocalOK
    <3>3. base \in Int
      BY <1>1, <3>2
    <3> HIDE DEF base, k
    <3>4. (base - k) \div BLK_SIZE \in Int
      BY <1>1, <3>2, <3>3
    <3>5. my[w].slot + ((base - k) \div BLK_SIZE) \in Int /\ E \in Nat \ {0}
      BY <1>1, <3>1, <3>4 DEF Entries
    <3>6. e = (my[w].slot + ((base - k) \div BLK_SIZE)) % E
      BY DEF EntryOf, base, k
    <3> HIDE DEF e
    <3>7. QED
      BY <3>5, <3>6, ModRange DEF Entries
  <2>4. b \in BlockOrNull
    BY <1>1, <2>2, <2>3 DEF Shared
  <2> HIDE DEF e, b, x
  <2>5. LocalOK(r) /\ r.p = p /\ r.slot \in Entries
    BY <1>1, <2>3, <2>4 DEF LocalOK, LocalNames, Entries
  <2> HIDE DEF r
  <2>6. Step(w, "locate", "empty", r)
    BY <1>13 DEF TakeElement, p_of, r, e, b, x
  <2>7. Shared' /\ ListTypes'
    BY <1>3, <1>4, <1>13 DEF TakeElement
  <2>8. QED
    BY <1>2, <2>1, <2>5, <2>6, <2>7
<1>14. CASE SetEmpty(w)
  <2>1. PICK m \in {"unlink", "dequeued"} : Step(w, "empty", m, my[w])
    BY <1>14 DEF SetEmpty
  <2>2. m \in WithSub /\ "empty" \in WithSub
    BY DEF WithSub
  <2>3. elementsCompletelyDequeued' \in [Blocks -> Nat]
    <3>1. CASE my[w].block \in Blocks
      BY <1>1, <1>14, <3>1 DEF SetEmpty, Put, Shared
    <3>2. CASE my[w].block \notin Blocks
      BY <1>1, <1>14, <3>2 DEF SetEmpty, Put, Shared
    <3>3. QED
      BY <3>1, <3>2
  <2>4. Shared' /\ ListTypes'
    BY <1>1, <1>3, <1>14, <2>3 DEF SetEmpty, Shared, tail_vars, head_vars
  <2>5. my[w].slot \in Entries
    BY <1>14 DEF SetEmpty, Typed, Located
  <2>6. QED
    BY <1>1, <1>2, <2>1, <2>2, <2>4, <2>5
<1>15. CASE Unlink(w)
  <2>1. "unlink" \in WithSub /\ "dequeued" \in WithSub
    BY DEF WithSub
  <2>2. p \in Producers
    BY <1>5, <1>15, <2>1 DEF Unlink, Step
  <2>3. ListTypes'
    <3>1. my[w].block \in BlockOrNull
      BY <1>1 DEF LocalOK
    <3>2. QED
      BY <1>1, <1>15, <3>1, StartTyped, GoTyped DEF Unlink, StartAdd
  <2>4. blockIndex' \in [Producers -> [Entries -> [key : Nat, value : BlockOrNull]]]
    <3>1. my[w].slot \in Entries
      BY <1>15 DEF Unlink, Step, Typed, Located
    <3>2. QED
      BY <1>1, <1>15, <2>2, <3>1, IndexTyped DEF Unlink, p_of, BlockOrNull
  <2>5. Shared'
    BY <1>1, <1>15, <2>4 DEF Unlink, Shared, tail_vars, head_vars, block_vars
  <2>6. QED
    BY <1>1, <1>2, <1>15, <2>1, <2>3, <2>5 DEF Unlink
<1>16. QED
  BY <1>6, <1>7, <1>8, <1>9, <1>10, <1>11, <1>12, <1>13, <1>14, <1>15 DEF DequeueStep

-----------------------------------------------------------------------------
(* Users that ask, and workers that look for an element.                   *)

LEMMA UnusedFrame ==
  ASSUME Typed, Unused, UNCHANGED setup
  PROVE  /\ Shared' /\ ListTypes' /\ Entries' = Entries
         /\ UNCHANGED hash_vars
         /\ hashes' = hashes /\ producers' = producers
         /\ implicitProducerHashCount' \in Nat
         /\ implicitProducerHashResizeInProgress' \in BOOLEAN
BY SharedFrame, ListFrame DEF Unused, Typed, Known, HashTypes, hash_vars, Entries

(* A user that does not have its sub-queue in hand yet.                    *)
LEMMA AskerTyped ==
  ASSUME Typed, NEW u \in Users, NEW l \in {"ask", "tail", "head"},
         NEW m \in {"ask", "tail", "head", "hash"},
         NEW r, Step(u, l, m, r), LocalOK(r), Unused, UNCHANGED setup,
         m \in {"tail", "head"} =>
           /\ r.cursor \in 1 .. Len(producers)
           /\ IF r.nonEmptyCount = 0 THEN r.bestSize = 0
              ELSE r.best \in 1 .. Len(producers)
  PROVE  Typed'
<1> USE NullIsNoUser, UserQueueAssumption
<1>1. m \in UserPlaces
  BY DEF UserPlaces
<1>2. Control'
  BY <1>1, ControlStep DEF Typed
<1>3. /\ pc[u] = l /\ pc'[u] = m /\ my'[u] = r
      /\ \A x \in Actors \ {u} : pc'[x] = pc[x] /\ my'[x] = my[x]
  BY StepEffect DEF Typed
<1>4. /\ Shared' /\ ListTypes' /\ hashes' = hashes /\ producers' = producers
      /\ implicitProducerHashCount' \in Nat
      /\ implicitProducerHashResizeInProgress' \in BOOLEAN
  BY UnusedFrame
<1>5. NamingOf(u)
  BY DEF Typed, Known
<1>6. NamingOf(u)'
  BY <1>3, <1>4, <1>5
     DEF NamingOf, InRange, Owns, Entered, HasKey, Naming, Enqueueing
<1>7. ScanOf(u)'
  BY <1>3, <1>4 DEF ScanOf, WithSub
<1>8. Known'
  BY <1>3, <1>4, <1>6, <1>7, KnownFrame DEF Typed
<1>9. Located'
  BY LocatedFrame DEF Typed
<1>10. QED
  BY <1>2, <1>4, <1>8, <1>9 DEF Typed

LEMMA SearcherTyped ==
  ASSUME Typed, NEW w \in Workers, NEW l, NEW m \in {"poll", "tail", "head", "counts"},
         NEW r, Step(w, l, m, r), LocalOK(r), UNCHANGED hash_vars, UNCHANGED setup,
         Shared', ListTypes',
         m = "counts" => r.p \in 1 .. Len(producers),
         m \in {"tail", "head"} =>
           /\ r.cursor \in 1 .. Len(producers)
           /\ IF r.nonEmptyCount = 0 THEN r.bestSize = 0
              ELSE r.best \in 1 .. Len(producers)
  PROVE  Typed'
<1> USE NullIsNoUser, UserQueueAssumption
<1>1. m \in WorkerPlaces
  BY DEF WorkerPlaces, WithSub
<1>2. m \in WithSub => r.p \in 1 .. Len(producers)
  BY DEF WithSub
<1>3. Control' /\ Known'
  BY <1>1, <1>2, WorkerTyped
<1>4. /\ pc'[w] = m /\ \A x \in Actors \ {w} : pc'[x] = pc[x] /\ my'[x] = my[x]
  BY StepEffect DEF Typed
<1>5. Located'
  BY <1>4 DEF Located, Typed, Entries
<1>6. QED
  BY <1>3, <1>5 DEF Typed

LEMMA ScanStart ==
  ASSUME Typed, NEW a \in Actors
  PROVE  LET r == StartScan(my[a])
         IN  /\ LocalOK(r) /\ r.cursor = Len(producers)
             /\ r.nonEmptyCount = 0 /\ r.bestSize = 0
<1>1. LocalOK(my[a]) /\ Len(producers) \in Nat
  BY DEF Typed, Control, Known, HashTypes
<1>2. QED
  BY <1>1 DEF StartScan, LocalOK, LocalNames

LEMMA ScanNext ==
  ASSUME Typed, NEW a \in Actors, pc[a] = "head"
  PROVE  LET r == Sized(my[a])
         IN  /\ LocalOK(r) /\ r.cursor \in 0 .. Len(producers)
             /\ IF r.nonEmptyCount = 0 THEN r.bestSize = 0
                ELSE r.best \in 1 .. Len(producers)
<1> DEFINE n == SizeOf(my[a])
<1>1. /\ LocalOK(my[a]) /\ Len(producers) \in Nat /\ ScanOf(a)
      /\ 1 .. Len(producers) \subseteq Producers /\ headIndex \in [Producers -> Nat]
  BY FewProducers DEF Typed, Control, Known, HashTypes, Shared
<1>2. my[a].cursor \in 1 .. Len(producers) /\ headIndex[my[a].cursor] \in Nat
  BY <1>1 DEF ScanOf
<1>3. n \in Nat
  BY <1>1, <1>2 DEF SizeOf, LocalOK
<1> DEFINE size == my[a].size + n
           cursor == my[a].cursor - 1
           count == my[a].nonEmptyCount + (IF n > 0 THEN 1 ELSE 0)
           best == IF n > my[a].bestSize THEN my[a].cursor ELSE my[a].best
           bestSize == IF n > my[a].bestSize THEN n ELSE my[a].bestSize
           r == [my[a] EXCEPT !.size = size, !.cursor = cursor, !.nonEmptyCount = count,
                              !.best = best, !.bestSize = bestSize]
<1>4. Sized(my[a]) = r
  BY DEF Sized
<1>5. my[a].nonEmptyCount \in Nat /\ my[a].bestSize \in Nat /\ my[a].best \in Nat
      /\ my[a].size \in Nat
  BY <1>1 DEF LocalOK
<1> HIDE DEF n
<1>6. size \in Nat /\ cursor \in Nat /\ count \in Nat /\ best \in Nat /\ bestSize \in Nat
      /\ cursor \in 0 .. Len(producers)
  BY <1>1, <1>2, <1>3, <1>5
<1>7. IF count = 0 THEN bestSize = 0 ELSE best \in 1 .. Len(producers)
  <2>1. CASE my[a].nonEmptyCount = 0
    BY <1>1, <1>2, <1>3, <2>1 DEF ScanOf
  <2>2. CASE my[a].nonEmptyCount # 0
    BY <1>1, <1>2, <1>3, <1>5, <2>2 DEF ScanOf
  <2>3. QED
    BY <2>1, <2>2
<1> HIDE DEF size, cursor, count, best, bestSize
<1>8. LocalOK(r) /\ r.cursor = cursor /\ r.nonEmptyCount = count
      /\ r.best = best /\ r.bestSize = bestSize
  BY <1>1, <1>6 DEF LocalOK, LocalNames
<1> HIDE DEF r
<1>9. QED
  BY <1>4, <1>6, <1>7, <1>8

LEMMA LoadTailLocals ==
  ASSUME Typed, NEW a \in Actors, LoadTail(a)
  PROVE  LET r == [my[a] EXCEPT !.tail = tailIndex[my[a].cursor]]
         IN  /\ LocalOK(r) /\ r.cursor \in 1 .. Len(producers)
             /\ IF r.nonEmptyCount = 0 THEN r.bestSize = 0
                ELSE r.best \in 1 .. Len(producers)
             /\ Step(a, "tail", "head", r)
<1>1. /\ LocalOK(my[a]) /\ Len(producers) \in Nat /\ ScanOf(a) /\ pc[a] = "tail"
      /\ 1 .. Len(producers) \subseteq Producers /\ tailIndex \in [Producers -> Nat]
  BY FewProducers DEF Typed, Control, Known, HashTypes, Shared, LoadTail, Step
<1>2. my[a].cursor \in 1 .. Len(producers) /\ tailIndex[my[a].cursor] \in Nat
  BY <1>1 DEF ScanOf
<1>3. LocalOK([my[a] EXCEPT !.tail = tailIndex[my[a].cursor]])
  BY <1>1, <1>2 DEF LocalOK, LocalNames
<1>4. QED
  BY <1>1, <1>2, <1>3 DEF LoadTail, ScanOf, LocalOK, LocalNames

LEMMA LoadTailTyped ==
  ASSUME Typed, NEW a \in Actors, LoadTail(a), Unused, UNCHANGED setup
  PROVE  Typed'
<1> DEFINE r == [my[a] EXCEPT !.tail = tailIndex[my[a].cursor]]
<1>1. /\ LocalOK(r) /\ r.cursor \in 1 .. Len(producers)
      /\ IF r.nonEmptyCount = 0 THEN r.bestSize = 0
         ELSE r.best \in 1 .. Len(producers)
      /\ Step(a, "tail", "head", r)
  BY LoadTailLocals
<1>2. Shared' /\ ListTypes' /\ UNCHANGED hash_vars
  BY UnusedFrame
<1> HIDE DEF r
<1>3. CASE a \in Users
  BY <1>1, <1>3, AskerTyped
<1>4. CASE a \in Workers
  BY <1>1, <1>2, <1>4, SearcherTyped
<1>5. QED
  BY <1>3, <1>4, UserQueueAssumption

LEMMA AskTyped ==
  ASSUME Typed, NEW u \in Users, Ask(u), UNCHANGED setup
  PROVE  Typed'
<1> DEFINE r == StartScan(my[u])
           m == IF producers = <<>> THEN "hash" ELSE "tail"
<1>1. LocalOK(r) /\ r.cursor = Len(producers) /\ r.nonEmptyCount = 0 /\ r.bestSize = 0
  BY ScanStart, NullIsNoUser
<1>2. Step(u, "ask", m, r) /\ Unused
  BY DEF Ask
<1>3. m = "tail" => Len(producers) \in 1 .. Len(producers)
  BY DEF Typed, Known, HashTypes
<1>4. m \in {"hash", "tail"}
  OBVIOUS
<1> HIDE DEF r, m
<1>5. QED
  BY <1>1, <1>2, <1>3, <1>4, AskerTyped

LEMMA CheckSizeTyped ==
  ASSUME Typed, NEW u \in Users, CheckSize(u), UNCHANGED setup
  PROVE  Typed'
<1> DEFINE r == Sized(my[u])
<1>1. pc[u] = "head" /\ Unused
  BY DEF CheckSize
<1>2. /\ LocalOK(r) /\ r.cursor \in 0 .. Len(producers)
      /\ IF r.nonEmptyCount = 0 THEN r.bestSize = 0
         ELSE r.best \in 1 .. Len(producers)
  BY <1>1, ScanNext, NullIsNoUser
<1>3. \/ r.cursor > 0 /\ Step(u, "head", "tail", r)
      \/ \E m \in {"ask", "hash"} : Step(u, "head", m, Locals)
  BY DEF CheckSize
<1> HIDE DEF r
<1>4. CASE r.cursor > 0 /\ Step(u, "head", "tail", r)
  <2>1. r.cursor \in 1 .. Len(producers)
    BY <1>2, <1>4
  <2>2. QED
    BY <1>1, <1>2, <1>4, <2>1, AskerTyped
<1>5. ASSUME NEW m \in {"ask", "hash"}, Step(u, "head", m, Locals) PROVE Typed'
  BY <1>1, <1>5, LocalsOK, AskerTyped
<1>6. QED
  BY <1>3, <1>4, <1>5

LEMMA PollTyped ==
  ASSUME Typed, NEW w \in Workers, Poll(w), UNCHANGED setup
  PROVE  Typed'
<1> DEFINE r == StartScan(my[w])
<1>1. LocalOK(r) /\ r.cursor = Len(producers) /\ r.nonEmptyCount = 0 /\ r.bestSize = 0
  BY ScanStart, NullIsNoUser
<1>2. Step(w, "poll", "tail", r) /\ Unused /\ producers # <<>>
  BY DEF Poll
<1>3. Len(producers) \in 1 .. Len(producers)
  BY <1>2 DEF Typed, Known, HashTypes
<1>4. Shared' /\ ListTypes' /\ UNCHANGED hash_vars
  BY <1>2, UnusedFrame
<1> HIDE DEF r
<1>5. QED
  BY <1>1, <1>2, <1>3, <1>4, SearcherTyped

LEMMA ScoreTyped ==
  ASSUME Typed, NEW w \in Workers, Score(w), UNCHANGED setup
  PROVE  Typed'
<1> DEFINE r == Sized(my[w])
           q == [Locals EXCEPT !.p = r.best, !.best = r.best, !.first = TRUE]
<1>1. pc[w] = "head" /\ Unused
  BY DEF Score
<1>2. /\ LocalOK(r) /\ r.cursor \in 0 .. Len(producers)
      /\ IF r.nonEmptyCount = 0 THEN r.bestSize = 0
         ELSE r.best \in 1 .. Len(producers)
  BY <1>1, ScanNext, NullIsNoUser
<1>3. Shared' /\ ListTypes' /\ UNCHANGED hash_vars
  BY <1>1, UnusedFrame
<1>4. \/ r.cursor # 0 /\ Step(w, "head", "tail", r)
      \/ Step(w, "head", "poll", Locals)
      \/ r.nonEmptyCount > 0 /\ Step(w, "head", "counts", q)
  BY DEF Score
<1> HIDE DEF r
<1>5. LocalOK(q) /\ q.p = r.best
  BY <1>2, LocalsOK DEF LocalOK, LocalNames
<1> HIDE DEF q
<1>6. CASE r.cursor # 0 /\ Step(w, "head", "tail", r)
  <2>1. r.cursor \in 1 .. Len(producers)
    BY <1>2, <1>6
  <2>2. QED
    BY <1>2, <1>3, <1>6, <2>1, SearcherTyped
<1>7. CASE Step(w, "head", "poll", Locals)
  BY <1>3, <1>7, LocalsOK, SearcherTyped
<1>8. CASE r.nonEmptyCount > 0 /\ Step(w, "head", "counts", q)
  <2>1. r.best \in 1 .. Len(producers)
    BY <1>2, <1>8
  <2>2. QED
    BY <1>3, <1>5, <1>8, <2>1, SearcherTyped
<1>9. QED
  BY <1>4, <1>6, <1>7, <1>8

LEMMA NextSubTyped ==
  ASSUME Typed, NEW w \in Workers, NextSub(w), UNCHANGED setup
  PROVE  Typed'
<1> DEFINE from == IF my[w].first THEN Len(producers) ELSE my[w].p - 1
           others == (1 .. from) \ {my[w].best}
           q == [Locals EXCEPT !.p = Max(others), !.best = my[w].best]
<1>1. Unused /\ pc[w] = "nextsub"
  BY DEF NextSub
<1>2. Shared' /\ ListTypes' /\ UNCHANGED hash_vars
  BY <1>1, UnusedFrame
<1>3. /\ LocalOK(my[w]) /\ Len(producers) \in Nat /\ my[w].p \in 1 .. Len(producers)
  BY <1>1, WorkerSub, NullIsNoUser DEF Typed, Control, Known, HashTypes, WithSub
<1>4. from \in Nat /\ from <= Len(producers)
  BY <1>3 DEF LocalOK
<1>5. \/ Step(w, "nextsub", "poll", Locals)
      \/ others # {} /\ Step(w, "nextsub", "counts", q)
  BY DEF NextSub
<1> HIDE DEF from
<1>6. CASE Step(w, "nextsub", "poll", Locals)
  BY <1>2, <1>6, LocalsOK, SearcherTyped
<1>7. CASE others # {} /\ Step(w, "nextsub", "counts", q)
  <2>1. others \in SUBSET Nat /\ \A y \in others : y <= from
    BY <1>4
  <2>2. Max(others) \in others
    BY <1>4, <1>7, <2>1, GreatestOfNat
  <2>3. Max(others) \in 1 .. Len(producers)
    BY <1>3, <1>4, <2>2
  <2> DEFINE x == Max(others)
  <2> HIDE DEF x
  <2>4. q = [Locals EXCEPT !.p = x, !.best = my[w].best] /\ x \in 1 .. Len(producers)
    BY <2>3 DEF x
  <2> HIDE DEF q
  <2>5. LocalOK(q) /\ q.p = x
    BY <1>3, <2>4, LocalsOK DEF LocalOK, LocalNames
  <2>6. QED
    BY <1>2, <1>7, <2>4, <2>5, SearcherTyped
<1>8. QED
  BY <1>5, <1>6, <1>7

LEMMA ServeTyped ==
  ASSUME Typed, NEW w \in Workers, Serve(w), UNCHANGED setup
  PROVE  Typed'
<1>1. Step(w, "dequeued", "poll", Locals)
      /\ UNCHANGED <<hash_vars, tail_vars, head_vars, index_vars, block_vars, free_vars, asked>>
  BY DEF Serve
<1>2. Shared' /\ ListTypes'
  BY <1>1, SharedFrame, ListFrame DEF Typed
<1>3. QED
  BY <1>1, <1>2, LocalsOK, SearcherTyped

LEMMA GetProducerTyped ==
  ASSUME Typed, NEW u \in Users, GetProducer(u), UNCHANGED <<setup, asked>>
  PROVE  Typed'
<1>1. UNCHANGED <<tail_vars, head_vars, index_vars, block_vars, free_vars>>
  BY DEF GetProducer
<1>2. Shared' /\ ListTypes'
  BY <1>1, SharedFrame, ListFrame DEF Typed
<1>3. Control' /\ Known'
  BY LoadHashTyped, FindTyped, RoomTyped, ResizeTyped, UnlockTyped, FitsTyped,
     EnterTyped DEF GetProducer
<1>4. PICK l, m, r : Step(u, l, m, r)
  BY DEF GetProducer, LoadHash, Find, Room, Resize, Unlock, Fits, Enter
<1>5. Located'
  BY <1>4, LocatedFrame DEF Typed
<1>6. QED
  BY <1>2, <1>3, <1>5 DEF Typed

(* A worker that fails an assertion changes nothing else.                  *)
LEMMA ThreadSteps ==
  ASSUME [Next]_vars
  PROVE  UNCHANGED queue_vars \/ \E a \in Actors : Thread(a)
BY DEF Next, FailToServe, vars

LEMMA TypedStep ==
  ASSUME Typed, [Next]_vars
  PROVE  Typed'
<1> USE NullIsNoUser
<1>1. CASE UNCHANGED queue_vars
  <2>1. UNCHANGED <<setup, hash_vars, tail_vars, head_vars, index_vars, block_vars,
                    free_vars, pc, my, asked>>
    BY <1>1 DEF queue_vars
  <2>2. Shared' /\ ListTypes'
    BY <2>1, SharedFrame, ListFrame DEF Typed
  <2>3. Control' /\ Located'
    BY <2>1 DEF Typed, Control, LocalOK, Located, Entries
  <2>4. Known'
    <3>1. HashTypes' /\ KeysOwn' /\ OneEach'
      BY <2>1 DEF Typed, Known, HashTypes, TableOK, KeysOwn, OneEach, hash_vars
    <3>2. ASSUME NEW u \in Users PROVE NamingOf(u)'
      BY <2>1 DEF Typed, Known, NamingOf, InRange, HasKey, Entered, Owns, hash_vars
    <3>3. ASSUME NEW a \in Actors PROVE ScanOf(a)'
      BY <2>1 DEF Typed, Known, ScanOf, hash_vars
    <3>4. QED
      BY <3>1, <3>2, <3>3 DEF Known
  <2>5. QED
    BY <2>2, <2>3, <2>4 DEF Typed
<1>2. ASSUME NEW a \in Actors, Thread(a) PROVE Typed'
  <2>1. UNCHANGED setup
    BY <1>2 DEF Thread
  <2>2. CASE LoadTail(a) /\ Unused
    BY <2>1, <2>2, LoadTailTyped
  <2>3. CASE ListStep(a)
    BY <2>1, <2>3, ListStepTyped
  <2>4. CASE a \in Users /\ Ask(a)
    BY <2>1, <2>4, AskTyped
  <2>5. CASE a \in Users /\ CheckSize(a)
    BY <2>1, <2>5, CheckSizeTyped
  <2>6. CASE a \in Users /\ GetProducer(a) /\ UNCHANGED asked
    BY <2>1, <2>6, GetProducerTyped
  <2>7. CASE /\ a \in Users /\ EnqueueStep(a, <<a, asked[a] + 1>>, "ask")
             /\ asked' = IF pc[a] = "publish" THEN Put(asked, a, asked[a] + 1) ELSE asked
    <3>1. asked' \in [Users -> Nat]
      BY <2>7 DEF Put, Typed, Shared
    <3>2. QED
      BY <2>1, <2>7, <3>1, EnqueueTyped
  <2>8. CASE a \in Workers /\ Poll(a)
    BY <2>1, <2>8, PollTyped
  <2>9. CASE a \in Workers /\ Score(a)
    BY <2>1, <2>9, ScoreTyped
  <2>10. CASE a \in Workers /\ NextSub(a)
    BY <2>1, <2>10, NextSubTyped
  <2>11. CASE a \in Workers /\ Serve(a)
    BY <2>1, <2>11, ServeTyped
  <2>12. CASE a \in Workers /\ DequeueStep(a) /\ UNCHANGED asked
    BY <2>1, <2>12, DequeueTyped
  <2>13. QED
    BY <1>2, <2>2, <2>3, <2>4, <2>5, <2>6, <2>7, <2>8, <2>9, <2>10, <2>11, <2>12
       DEF Thread, TryEnqueue
<1>3. QED
  BY <1>1, <1>2, ThreadSteps

THEOREM TypesHold == FairSpec => []Typed
<1>1. Init => Typed
  BY TypedInit
<1>2. Typed /\ [Next]_vars => Typed'
  BY TypedStep
<1>3. QED
  BY <1>1, <1>2, PTL DEF FairSpec

-----------------------------------------------------------------------------
(* Each user has one sub-queue, and its probes lead to it.                 *)

(* The places from where k's probes start to the n-th after are taken.     *)
Taken(g, k, n) ==
  \A d \in 0 .. n : hashes[g][(hash_thread_id[k] + d) % Capacity(g)].key # Null
Distance(t, k, place) == (place - hash_thread_id[k]) % Capacity(t)

Sought(u) ==
  pc[u] = "slot" =>
    Taken(my[u].main, u, Distance(my[u].main, u, my[u].slot) - 1)
Led ==
  \A g \in 1 .. Len(hashes) : \A s \in DOMAIN hashes[g] :
    hashes[g][s].key # Null => Taken(g, hashes[g][s].key, Distance(g, hashes[g][s].key, s))
Probed == Led /\ \A u \in Users : Sought(u)

LEMMA ProbedGives ==
  ASSUME Typed, Probed
  PROVE  OneProducer
<1>1. DOMAIN producers = 1 .. Len(producers) /\ DOMAIN hashes = 1 .. Len(hashes)
  BY DEF Typed, Known, HashTypes
<1>2. \A p, q \in DOMAIN producers : producers[p] = producers[q] => p = q
  BY <1>1 DEF Typed, Known, OneEach
<1>3. \A g \in DOMAIN hashes : \A s \in DOMAIN hashes[g] :
        hashes[g][s].key # Null =>
          \A d \in 0 .. (s - hash_thread_id[hashes[g][s].key]) % Capacity(g) :
            hashes[g][(hash_thread_id[hashes[g][s].key] + d) % Capacity(g)].key # Null
  BY <1>1 DEF Probed, Led, Taken, Distance
<1>4. QED
  BY <1>2, <1>3 DEF OneProducer

LEMMA ProbedInit == Init => Probed
<1> SUFFICES ASSUME Init PROVE Probed
  OBVIOUS
<1> DEFINE c == INITIAL_IMPLICIT_PRODUCER_HASH_SIZE
<1>1. hashes = <<Table(c)>> /\ c \in Nat \ {0}
  BY QueueAssumption DEF Init, QueueInit
<1>2. Len(hashes) = 1 /\ hashes[1] = Table(c) /\ DOMAIN Table(c) = 0 .. c - 1
      /\ \A s \in 0 .. c - 1 : Table(c)[s].key = Null
  BY <1>1, NewTableOK
<1>3. Led
  <2>1. DOMAIN hashes[1] = 0 .. c - 1 /\ \A s \in 0 .. c - 1 : hashes[1][s].key = Null
    BY <1>2
  <2>2. \A g \in 1 .. Len(hashes) : g = 1
    BY <1>2
  <2> HIDE DEF c
  <2>3. QED
    BY <2>1, <2>2 DEF Led
<1>4. \A u \in Users : pc[u] # "slot"
  BY UserQueueAssumption DEF Init
<1>5. QED
  BY <1>3, <1>4 DEF Probed, Sought

(* Only Find and Fits send a user to its first place.                      *)
LEMMA SlotSteps ==
  ASSUME Typed, NEW a \in Actors, Thread(a)
  PROVE  \/ a \in Users /\ (Resize(a) \/ Enter(a))
         \/ /\ hashes' = hashes
            /\ \A x \in Users :
                 pc'[x] = "slot" =>
                   \/ pc[x] = "slot" /\ my'[x] = my[x]
                   \/ my'[x].slot = hash_thread_id[x]
<1> USE NullIsNoUser, UserQueueAssumption
<1> DEFINE Same == \A x \in Users :
                     pc'[x] = "slot" =>
                       \/ pc[x] = "slot" /\ my'[x] = my[x]
                       \/ my'[x].slot = hash_thread_id[x]
<1>1. ASSUME NEW l, NEW m, NEW r, Step(a, l, m, r),
             a \in Users => m # "slot" \/ r.slot = hash_thread_id[a]
      PROVE  Same
  <2>1. pc'[a] = m /\ my'[a] = r /\ \A x \in Actors \ {a} : pc'[x] = pc[x] /\ my'[x] = my[x]
    BY <1>1, StepEffect DEF Typed
  <2>2. QED
    BY <1>1, <2>1
<1> HIDE DEF Same
<1>2. CASE LoadTail(a) /\ Unused
  <2>1. PICK r : Step(a, "tail", "head", r)
    BY <1>2 DEF LoadTail
  <2>2. hashes' = hashes
    BY <1>2 DEF Unused, hash_vars
  <2>3. QED
    BY <1>1, <2>1, <2>2 DEF Same
<1>3. CASE ListStep(a)
  BY <1>3 DEF ListStep, hash_vars
<1>4. CASE a \in Users /\ (Ask(a) \/ CheckSize(a))
  <2>1. hashes' = hashes
    BY <1>4 DEF Ask, CheckSize, Unused, hash_vars
  <2>2. CASE Ask(a)
    <3> DEFINE m == IF producers = <<>> THEN "hash" ELSE "tail"
    <3>1. Step(a, "ask", m, StartScan(my[a])) /\ m # "slot"
      BY <2>2 DEF Ask
    <3> HIDE DEF m
    <3>2. QED
      BY <1>1, <2>1, <3>1 DEF Same
  <2>3. CASE CheckSize(a)
    <3> DEFINE r == Sized(my[a])
               m == IF r.size > IDLE_QUELEN THEN "ask" ELSE "hash"
    <3>1. Step(a, "head", "tail", r) \/ Step(a, "head", m, Locals)
      BY <2>3 DEF CheckSize
    <3>2. m # "slot"
      OBVIOUS
    <3> HIDE DEF r, m
    <3>3. QED
      BY <1>1, <2>1, <3>1, <3>2 DEF Same
  <2>4. QED
    BY <1>4, <2>2, <2>3
<1>5. CASE a \in Users /\ EnqueueStep(a, <<a, asked[a] + 1>>, "ask")
  <2>1. PICK m \in {"publish", "entry", "failed", "pool", "claim", "list", "fresh", "ask"} :
          \E l, r : Step(a, l, m, r)
    <3>1. CASE \/ Enqueue(a) \/ InsertEntry(a) \/ LoadPool(a) \/ Fresh(a)
               \/ Publish(a, <<a, asked[a] + 1>>, "ask")
      BY <3>1 DEF Enqueue, InsertEntry, LoadPool, Fresh, Publish
    <3>2. CASE ClaimPool(a) \/ FromList(a)
      BY <3>2 DEF ClaimPool, FromList
    <3>3. QED
      BY <1>5, <3>1, <3>2 DEF EnqueueStep
  <2>2. hashes' = hashes
    BY <1>5 DEF EnqueueStep, hash_vars
  <2>3. m # "slot"
    OBVIOUS
  <2>4. QED
    BY <1>1, <2>1, <2>2, <2>3 DEF Same
<1>6. CASE a \in Workers /\ (Poll(a) \/ Score(a) \/ NextSub(a) \/ Serve(a) \/ DequeueStep(a))
  <2>1. PICK l, m, r : Step(a, l, m, r)
    BY <1>6 DEF Poll, Score, NextSub, Serve, DequeueStep, LoadCounts, Try, Reserve, Again,
                GiveBack, Advance, LookUp, TakeElement, SetEmpty, Unlink
  <2>2. hashes' = hashes
    BY <1>6 DEF Poll, Score, NextSub, Serve, DequeueStep, Unused, hash_vars
  <2>3. a \notin Users
    BY <1>6
  <2>4. QED
    BY <1>1, <2>1, <2>2, <2>3 DEF Same
<1>7. CASE a \in Users /\ GetProducer(a)
  <2>1. CASE Find(a)
    <3>1. hashes' = hashes
      BY <2>1 DEF Find
    <3>2. CASE \E g \in Tables(a) :
                 Step(a, "find", IF g = my[a].main THEN "enqueue" ELSE "slot",
                      [my[a] EXCEPT !.p = ValueIn(g, a), !.slot = hash_thread_id[a]])
      <4>1. PICK g, m, r : Step(a, "find", m, r)
                           /\ r = [my[a] EXCEPT !.p = ValueIn(g, a), !.slot = hash_thread_id[a]]
        BY <3>2
      <4>2. r.slot = hash_thread_id[a]
        BY <1>7, <4>1 DEF Typed, Control, LocalOK, LocalNames
      <4>3. QED
        BY <1>1, <3>1, <4>1, <4>2 DEF Same
    <3>3. CASE \E r : Step(a, "find", "room", r)
      BY <1>1, <3>1, <3>3 DEF Same
    <3>4. QED
      BY <2>1, <3>2, <3>3 DEF Find
  <2>2. CASE Fits(a)
    <3>1. hashes' = hashes
      BY <2>2 DEF Fits
    <3>2. CASE Step(a, "fits", "slot", [my[a] EXCEPT !.p = Len(producers) + 1,
                                                     !.slot = hash_thread_id[a]])
      <4>1. PICK r : Step(a, "fits", "slot", r)
                     /\ r = [my[a] EXCEPT !.p = Len(producers) + 1, !.slot = hash_thread_id[a]]
        BY <3>2
      <4>2. r.slot = hash_thread_id[a]
        BY <1>7, <4>1 DEF Typed, Control, LocalOK, LocalNames
      <4>3. QED
        BY <1>1, <3>1, <4>1, <4>2 DEF Same
    <3>3. CASE \E r : Step(a, "fits", "room", r)
      BY <1>1, <3>1, <3>3 DEF Same
    <3>4. QED
      BY <2>2, <3>2, <3>3 DEF Fits
  <2>3. CASE (LoadHash(a) /\ UNCHANGED hash_vars) \/ Room(a) \/ Unlock(a)
    <3>1. PICK m \in {"find", "resize", "fits"} : \E l, r : Step(a, l, m, r)
      BY <2>3 DEF LoadHash, Room, Unlock
    <3>2. hashes' = hashes
      BY <2>3 DEF LoadHash, Room, Unlock, hash_vars
    <3>3. m # "slot"
      OBVIOUS
    <3>4. QED
      BY <1>1, <3>1, <3>2, <3>3 DEF Same
  <2>4. QED
    BY <1>7, <2>1, <2>2, <2>3 DEF GetProducer
<1>8. QED
  BY <1>2, <1>3, <1>4, <1>5, <1>6, <1>7 DEF Thread, TryEnqueue

LEMMA SoughtAgain ==
  ASSUME NEW u, NEW g, NEW s, hashes' = hashes, my'[u].main = g, my'[u].slot = s,
         Taken(g, u, Distance(g, u, s) - 1)
  PROVE  Sought(u)'
<1>1. Capacity(my[u].main)' = Capacity(g)
  BY DEF Capacity
<1>2. Distance(my[u].main, u, my[u].slot)' = Distance(g, u, s)
  BY <1>1 DEF Distance
<1> DEFINE n == Distance(g, u, s) - 1
<1> HIDE DEF n
<1>3. Taken(g, u, n)
  BY DEF n
<1>4. \A d \in 0 .. n : hashes[g][(hash_thread_id[u] + d) % Capacity(g)].key # Null
  BY <1>3 DEF Taken
<1>5. \A d \in 0 .. n :
        hashes'[my'[u].main][(hash_thread_id[u] + d) % (Capacity(my[u].main)')].key # Null
  BY <1>1, <1>4
<1>6. Taken(my[u].main, u, Distance(my[u].main, u, my[u].slot) - 1)'
  BY <1>2, <1>5 DEF Taken, n
<1>7. QED
  BY <1>6 DEF Sought

LEMMA ProbedStep ==
  ASSUME Typed, Probed, Typed', [Next]_vars
  PROVE  Probed'
<1> USE NullIsNoUser, UserQueueAssumption
<1>0. \A u \in Users : hash_thread_id[u] \in Nat
  BY QueueAssumption
<1>1. ASSUME hashes' = hashes,
             \A x \in Users :
               pc'[x] = "slot" =>
                 \/ pc[x] = "slot" /\ my'[x] = my[x]
                 \/ my'[x].slot = hash_thread_id[x]
      PROVE  Probed'
  <2>1. Led'
    BY <1>1 DEF Probed, Led, Taken, Distance, Capacity
  <2>2. ASSUME NEW u \in Users, pc'[u] = "slot" PROVE Sought(u)'
    <3>1. CASE pc[u] = "slot" /\ my'[u] = my[u]
      BY <1>1, <3>1 DEF Probed, Sought, Taken, Distance, Capacity
    <3>2. CASE my'[u].slot = hash_thread_id[u]
      <4> DEFINE g == my'[u].main
      <4>1. NamingOf(u)' /\ HashTypes'
        BY DEF Typed, Known
      <4>2. g \in 1 .. Len(hashes) /\ HashTypes
        BY <1>1, <2>2, <4>1 DEF NamingOf, Typed, Known
      <4>3. Capacity(g) \in Nat \ {0}
        BY <4>2, TableFacts
      <4>4. (hash_thread_id[u] - hash_thread_id[u]) % Capacity(g) = 0
        BY <1>0, <4>3
      <4>5. (Distance(my[u].main, u, my[u].slot))' = 0
        BY <1>1, <3>2, <4>4 DEF Distance, Capacity
      <4>6. QED
        BY <4>5 DEF Sought, Taken
    <3>3. QED
      BY <1>1, <2>2, <3>1, <3>2
  <2>3. \A u \in Users : Sought(u)'
    BY <2>2 DEF Sought
  <2>4. QED
    BY <2>1, <2>3 DEF Probed
<1>2. CASE UNCHANGED queue_vars
  BY <1>1, <1>2 DEF queue_vars, hash_vars
<1>3. ASSUME NEW u \in Users, Resize(u) PROVE Probed'
  <2>1. /\ HashTypes /\ pc[u] = "resize" /\ my[u].main \in 1 .. Len(hashes)
        /\ my[u].count \in Nat
    BY <1>3 DEF Typed, Control, Known, Resize, NamingOf, Naming, LocalOK
  <2> DEFINE k == Doubled(my[u].count, Capacity(my[u].main))
             T == Table(k)
  <2>2. k \in Nat \ {0}
    BY <2>1, TableFacts, DoubledOK
  <2>3. T \in AllTables /\ \A s \in DOMAIN T : T[s].key = Null
    BY <2>2, NewTableOK, TableIn
  <2>4. PICK r : Step(u, "resize", "unlock", r)
    BY <1>3 DEF Resize
  <2>5. pc'[u] = "unlock" /\ \A x \in Actors \ {u} : pc'[x] = pc[x] /\ my'[x] = my[x]
    BY <2>4, StepEffect DEF Typed
  <2>6. hashes' = hashes \/ hashes' = Append(hashes, T)
    BY <1>3 DEF Resize
  <2> HIDE DEF k, T
  <2>7. CASE hashes' = hashes
    BY <1>1, <2>5, <2>7
  <2>8. CASE hashes' = Append(hashes, T)
    <3>1. hashes \in Seq(AllTables) /\ Len(hashes) \in Nat
      BY <2>1 DEF HashTypes
    <3>2. /\ Len(hashes') = Len(hashes) + 1 /\ hashes'[Len(hashes) + 1] = T
          /\ \A g \in 1 .. Len(hashes) : hashes'[g] = hashes[g]
      BY <2>3, <2>8, <3>1
    <3>3. \A g \in 1 .. Len(hashes') : g \in 1 .. Len(hashes) \/ hashes'[g] = T
      BY <3>1, <3>2
    <3>4. ASSUME NEW g \in 1 .. Len(hashes), NEW x, NEW n, Taken(g, x, n)
          PROVE  Taken(g, x, n)'
      BY <3>2, <3>4 DEF Taken, Capacity
    <3>5. ASSUME NEW g \in 1 .. Len(hashes'), NEW s \in DOMAIN hashes'[g],
                 hashes'[g][s].key # Null
          PROVE  Taken(g, hashes[g][s].key, Distance(g, hashes[g][s].key, s))'
      <4>1. g \in 1 .. Len(hashes) /\ hashes'[g] = hashes[g]
        BY <2>3, <3>2, <3>3, <3>5
      <4>2. Taken(g, hashes[g][s].key, Distance(g, hashes[g][s].key, s))
        BY <3>5, <4>1 DEF Probed, Led
      <4>3. QED
        BY <4>1, <4>2 DEF Taken, Distance, Capacity
    <3>6. Led'
      BY <3>5 DEF Led
    <3>7. ASSUME NEW x \in Users, pc'[x] = "slot" PROVE Sought(x)'
      <4>1. x # u
        BY <2>5, <3>7
      <4>2. pc[x] = "slot" /\ my'[x] = my[x] /\ Sought(x)
        BY <2>5, <3>7, <4>1 DEF Probed
      <4>3. my[x].main \in 1 .. Len(hashes)
        BY <4>2 DEF Typed, Known, NamingOf
      <4>4. QED
        BY <3>2, <4>2, <4>3 DEF Sought, Taken, Distance, Capacity
    <3>8. \A x \in Users : Sought(x)'
      BY <3>7 DEF Sought
    <3>9. QED
      BY <3>6, <3>8 DEF Probed
  <2>9. QED
    BY <2>6, <2>7, <2>8
<1>4. ASSUME NEW u \in Users, Enter(u) PROVE Probed'
  <2> DEFINE g == my[u].main
             c == Capacity(g)
             h == hash_thread_id[u]
             s == my[u].slot % c
             D == (my[u].slot - h) % c
  <2>1. /\ HashTypes /\ pc[u] = "slot" /\ g \in 1 .. Len(hashes)
        /\ my[u].slot \in Nat /\ LocalOK(my[u]) /\ h \in Nat
    BY <1>0, <1>4 DEF Typed, Control, Known, Enter, NamingOf, LocalOK
  <2>2. c \in Nat \ {0}
    BY <2>1, TableFacts
  <2>3. /\ s \in 0 .. c - 1 /\ D \in 0 .. c - 1
        /\ (s - h) % c = D /\ (h + D) % c = s
        /\ (s + 1 - h) % c = IF D + 1 = c THEN 0 ELSE D + 1
    <3>1. my[u].slot - h \in Int /\ my[u].slot \in Int
      BY <2>1
    <3>2. s \in 0 .. c - 1
      BY <2>2, <3>1, ModRange
    <3>3. D \in 0 .. c - 1
      BY <2>2, <3>1, ModRange
    <3>4. QED
      BY <2>1, <2>2, <3>2, <3>3, ProbeDistance
  <2>4. Taken(g, u, D - 1)
    BY <2>1 DEF Probed, Sought, Distance
  <2>5. CASE /\ hashes[g][s].key = Null
             /\ hashes' = [hashes EXCEPT ![g][s] = [key |-> u, value |-> my[u].p]]
             /\ Step(u, "slot", "enqueue", my[u])
    <3>1. /\ s \in 0 .. Capacity(g) - 1 /\ Len(hashes') = Len(hashes)
          /\ \A f \in 1 .. Len(hashes) :
               /\ DOMAIN hashes'[f] = DOMAIN hashes[f]
               /\ \A t \in DOMAIN hashes[f] :
                    hashes'[f][t] = IF f = g /\ t = s
                                    THEN [key |-> u, value |-> my[u].p]
                                    ELSE hashes[f][t]
      BY <2>1, <2>5, EnterEffect
    <3>2. pc'[u] = "enqueue" /\ \A x \in Actors \ {u} : pc'[x] = pc[x] /\ my'[x] = my[x]
      BY <2>5, StepEffect DEF Typed
    <3>3. \A f \in 1 .. Len(hashes) :
            /\ Capacity(f)' = Capacity(f) /\ Capacity(f) \in Nat \ {0}
            /\ DOMAIN hashes[f] = 0 .. Capacity(f) - 1
      <4> TAKE f \in 1 .. Len(hashes)
      <4>1. Capacity(f) \in Nat \ {0} /\ DOMAIN hashes[f] = 0 .. Capacity(f) - 1
        BY <2>1, TableFacts
      <4>2. Capacity(f)' = Capacity(f)
        BY <3>1 DEF Capacity
      <4>3. QED
        BY <4>1, <4>2
    <3>4. \A f \in 1 .. Len(hashes) : \A x \in Users : \A d \in Nat :
            (hash_thread_id[x] + d) % Capacity(f) \in DOMAIN hashes[f]
      <4>1. ASSUME NEW f \in 1 .. Len(hashes), NEW x \in Users, NEW d \in Nat
            PROVE  (hash_thread_id[x] + d) % Capacity(f) \in DOMAIN hashes[f]
        <5>1. hash_thread_id[x] + d \in Int /\ Capacity(f) \in Nat \ {0}
          BY <1>0, <3>3
        <5>2. (hash_thread_id[x] + d) % Capacity(f) \in 0 .. Capacity(f) - 1
          BY <5>1, ModRange
        <5>3. QED
          BY <3>3, <5>2
      <4>2. QED
        BY <4>1
    <3> HIDE DEF s, c
    <3>5. ASSUME NEW f \in 1 .. Len(hashes), NEW x \in Users, NEW n, Taken(f, x, n)
          PROVE  Taken(f, x, n)'
      <4>1. ASSUME NEW d \in 0 .. n
            PROVE  hashes'[f][(hash_thread_id[x] + d) % Capacity(f)].key # Null
        <5>1. hashes[f][(hash_thread_id[x] + d) % Capacity(f)].key # Null
          BY <3>5, <4>1 DEF Taken
        <5>2. (hash_thread_id[x] + d) % Capacity(f) \in DOMAIN hashes[f]
          BY <3>4, <4>1
        <5>3. QED
          BY <3>1, <5>1, <5>2
      <4>2. QED
        BY <3>3, <4>1 DEF Taken
    <3>6. \A d \in 0 .. D : hashes'[g][(h + d) % Capacity(g)].key # Null
      <4>1. D \in Nat /\ g \in 1 .. Len(hashes) /\ h = hash_thread_id[u]
        BY <2>1, <2>2, <2>3
      <4>2. (h + D) % Capacity(g) = s /\ s \in DOMAIN hashes[g]
        BY <2>3, <3>1, <3>3, <4>1 DEF c
      <4>3. hashes'[g][s].key # Null
        BY <3>1, <4>1, <4>2
      <4> HIDE DEF D, g, h
      <4>4. ASSUME NEW d \in 0 .. D - 1
            PROVE  hashes'[g][(h + d) % Capacity(g)].key # Null
        <5>1. hashes[g][(h + d) % Capacity(g)].key # Null
          BY <2>4, <4>1 DEF Taken
        <5>2. (h + d) % Capacity(g) \in DOMAIN hashes[g]
          BY <3>4, <4>1
        <5>3. QED
          BY <3>1, <4>1, <5>1, <5>2
      <4>5. \A d \in 0 .. D : d = D \/ d \in 0 .. D - 1
        BY <4>1
      <4>6. QED
        BY <4>2, <4>3, <4>4, <4>5
    <3>7. ASSUME NEW f \in 1 .. Len(hashes'), NEW t \in DOMAIN hashes'[f],
                 hashes'[f][t].key # Null
          PROVE  Taken(f, hashes[f][t].key, Distance(f, hashes[f][t].key, t))'
      <4>1. f \in 1 .. Len(hashes) /\ t \in DOMAIN hashes[f]
        BY <3>1, <3>7
      <4>2. CASE f = g /\ t = s
        <5>1. hashes'[f][t].key = u
          BY <3>1, <4>1, <4>2
        <5>2. (s - hash_thread_id[u]) % Capacity(g) = D
          BY <2>3 DEF c
        <5>3. Distance(f, hashes[f][t].key, t)' = D
          BY <2>1, <3>3, <4>2, <5>1, <5>2 DEF Distance
        <5>4. Capacity(f)' = Capacity(f) /\ h = hash_thread_id[u]
          BY <3>3, <4>1
        <5> HIDE DEF D, h, g
        <5>5. QED
          BY <3>6, <4>2, <5>1, <5>3, <5>4 DEF Taken
      <4>3. CASE ~(f = g /\ t = s)
        <5>1. hashes'[f][t] = hashes[f][t]
          BY <3>1, <4>1, <4>3
        <5>2. Taken(f, hashes[f][t].key, Distance(f, hashes[f][t].key, t))
          BY <3>7, <4>1, <5>1 DEF Probed, Led
        <5>3. hashes[f][t].key \in Users
          BY <2>1, <3>3, <3>7, <4>1, <5>1, TableFacts
        <5>4. Distance(f, hashes[f][t].key, t)' = Distance(f, hashes[f][t].key, t)
          BY <3>3, <4>1, <5>1 DEF Distance
        <5> DEFINE x == hashes[f][t].key
                   n == Distance(f, hashes[f][t].key, t)
        <5> HIDE DEF x, n
        <5>5. Taken(f, x, n) /\ x \in Users
          BY <5>2, <5>3 DEF x, n
        <5>6. \A d \in 0 .. n : hashes'[f][(hash_thread_id[x] + d) % Capacity(f)].key # Null
          <6> TAKE d \in 0 .. n
          <6>1. hashes[f][(hash_thread_id[x] + d) % Capacity(f)].key # Null
            BY <5>5 DEF Taken
          <6>2. (hash_thread_id[x] + d) % Capacity(f) \in DOMAIN hashes[f]
            BY <3>4, <4>1, <5>5
          <6>3. QED
            BY <3>1, <4>1, <6>1, <6>2
        <5>7. QED
          BY <3>3, <4>1, <5>1, <5>4, <5>6 DEF Taken, x, n
      <4>4. QED
        BY <4>2, <4>3
    <3>8. Led'
      BY <3>7 DEF Led
    <3>9. ASSUME NEW x \in Users, pc'[x] = "slot" PROVE Sought(x)'
      <4>1. x # u
        BY <3>2, <3>9
      <4>2. pc[x] = "slot" /\ my'[x] = my[x] /\ Sought(x)
        BY <3>2, <3>9, <4>1 DEF Probed
      <4>3. my[x].main \in 1 .. Len(hashes)
        BY <4>2 DEF Typed, Known, NamingOf
      <4> DEFINE f == my[x].main
                 n == Distance(f, x, my[x].slot) - 1
      <4>4. Distance(f, x, my[x].slot)' = Distance(f, x, my[x].slot)
        BY <3>3, <4>2, <4>3 DEF Distance
      <4>5. Taken(f, x, n)
        BY <4>2 DEF Sought
      <4> HIDE DEF n
      <4>6. \A d \in 0 .. n : hashes'[f][(hash_thread_id[x] + d) % Capacity(f)].key # Null
        <5> TAKE d \in 0 .. n
        <5>1. hashes[f][(hash_thread_id[x] + d) % Capacity(f)].key # Null
          BY <4>5 DEF Taken
        <5>2. (hash_thread_id[x] + d) % Capacity(f) \in DOMAIN hashes[f]
          BY <3>4, <4>3
        <5>3. QED
          BY <3>1, <4>3, <5>1, <5>2
      <4>7. QED
        BY <3>3, <4>2, <4>3, <4>4, <4>6 DEF Sought, Taken, n
    <3>10. \A x \in Users : Sought(x)'
      BY <3>9 DEF Sought
    <3>11. QED
      BY <3>8, <3>10 DEF Probed
  <2>6. CASE /\ hashes[g][s].key # Null /\ hashes' = hashes
             /\ Step(u, "slot", "slot", [my[u] EXCEPT !.slot = s + 1])
    <3> DEFINE r == [my[u] EXCEPT !.slot = s + 1]
    <3>1. r.slot = s + 1 /\ r.main = g
      BY <2>1 DEF LocalOK, LocalNames
    <3> HIDE DEF r
    <3>2. pc'[u] = "slot" /\ my'[u] = r /\ \A x \in Actors \ {u} : pc'[x] = pc[x] /\ my'[x] = my[x]
      BY <2>6, StepEffect DEF Typed, r
    <3>3. Led'
      BY <2>6 DEF Probed, Led, Taken, Distance, Capacity
    <3>4. Sought(u)'
      <4>1. Distance(g, u, s + 1) \in 0 .. D + 1
        <5>1. ((s + 1) - h) % c \in 0 .. D + 1
          <6>1. s \in Nat /\ (s + 1) - h = s + 1 - h
            <7>1. s \in Nat /\ h \in Nat
              BY <2>1, <2>2, <2>3
            <7> HIDE DEF s, h
            <7>2. QED
              BY <7>1
          <6>2. QED
            BY <2>2, <2>3, <6>1
        <5>2. c = Capacity(g) /\ h = hash_thread_id[u]
          OBVIOUS
        <5> HIDE DEF s, g, c, h, D
        <5>3. QED
          BY <5>1, <5>2 DEF Distance
      <4>2. \A d \in 0 .. D - 1 : hashes[g][(h + d) % c].key # Null
        BY <2>4 DEF Taken
      <4>3. hashes[g][(h + D) % c].key # Null
        BY <2>3, <2>6
      <4>4. my'[u].main = g /\ my'[u].slot = s + 1 /\ hashes' = hashes /\ D \in Nat
        BY <2>2, <2>3, <2>6, <3>1, <3>2
      <4> HIDE DEF D, s
      <4>5. \A d \in 0 .. Distance(g, u, s + 1) - 1 : d = D \/ d \in 0 .. D - 1
        BY <4>1, <4>4
      <4>6. \A d \in 0 .. Distance(g, u, s + 1) - 1 : hashes[g][(h + d) % c].key # Null
        BY <4>2, <4>3, <4>5
      <4>7. Taken(g, u, Distance(g, u, s + 1) - 1)
        BY <4>6 DEF Taken
      <4> HIDE DEF g
      <4>8. QED
        BY <4>4, <4>7, SoughtAgain
    <3>5. \A x \in Users : Sought(x)'
      <4> TAKE x \in Users
      <4>1. CASE x = u
        BY <3>4, <4>1
      <4>2. CASE x # u
        BY <2>6, <3>2, <4>2 DEF Probed, Sought, Taken, Distance, Capacity
      <4>3. QED
        BY <4>1, <4>2
    <3>6. QED
      BY <3>3, <3>5 DEF Probed
  <2>7. QED
    BY <1>4, <2>5, <2>6 DEF Enter
<1>5. ASSUME NEW a \in Actors, Thread(a) PROVE Probed'
  BY <1>1, <1>3, <1>4, <1>5, SlotSteps
<1>6. QED
  BY <1>2, <1>5, ThreadSteps

(* A thread keeps one sub-queue although the hash table grows while it     *)
(* enters itself, for any number of threads, hash function and table size: *)
(* what Find saw of the tables stays true of the user itself, which alone  *)
(* enters its key.                                                         *)
THEOREM OneProducerEach == FairSpec => []OneProducer
<1>1. Init => Typed /\ Probed
  BY TypedInit, ProbedInit
<1>2. Typed /\ Probed /\ [Next]_vars => (Typed /\ Probed)'
  BY TypedStep, ProbedStep
<1>3. Typed /\ Probed => OneProducer
  BY ProbedGives
<1>4. QED
  BY <1>1, <1>2, <1>3, PTL DEF FairSpec

-----------------------------------------------------------------------------
(* The head never passes the tail.                                         *)

(* The workers at one of the places L of the sub-queue p; those that have  *)
(* counted themselves in, those that are to advance the head, and those    *)
(* that look at the tail again with a count not above w's.                 *)
Sub(p, L) == {w \in Workers : pc[w] \in L /\ my[w].p = p}
Counting == {"try", "reserve", "again", "giveback", "advance"}
Reserved(p) == Sub(p, {"again", "giveback", "advance"})
Advancing(p) == Sub(p, {"advance"})
Before(p, w) == {x \in Sub(p, {"again"}) : my[x].count <= my[w].count}
Claimed(p) == headIndex[p] + Cardinality(Advancing(p))

(* A worker that has seen room for its count leaves room for those with    *)
(* lower counts, of which each may still see its own.                      *)
CountsOf(p) ==
  /\ dequeueOptimisticCount[p]
       = headIndex[p] + dequeueOvercommit[p] + Cardinality(Reserved(p))
  /\ Claimed(p) <= tailIndex[p]
  /\ \A w \in Sub(p, {"try", "reserve"}) : my[w].over <= dequeueOvercommit[p]
  /\ \A w \in Sub(p, {"again"}) :
       /\ my[w].count < dequeueOptimisticCount[p]
       /\ \/ Claimed(p) + Cardinality(Before(p, w)) <= tailIndex[p]
          \/ Claimed(p) + Cardinality(Before(p, w)) <= my[w].count - my[w].over + 1
Counts == \A p \in Producers : CountsOf(p)

LEMMA WorkersFinite ==
  ASSUME NEW S \in SUBSET Workers
  PROVE  IsFiniteSet(S) /\ Cardinality(S) \in Nat
<1>1. S \in SUBSET Actors
  BY UserQueueAssumption
<1>2. QED
  BY <1>1, FreeListAssumption, FS_Subset, FS_CardinalityType

LEMMA SubFinite ==
  ASSUME NEW p, NEW w
  PROVE  /\ \A L : Sub(p, L) \in SUBSET Workers /\ IsFiniteSet(Sub(p, L))
                   /\ Cardinality(Sub(p, L)) \in Nat
         /\ IsFiniteSet(Before(p, w)) /\ Cardinality(Before(p, w)) \in Nat
<1>1. \A L : Sub(p, L) \in SUBSET Workers
  BY DEF Sub
<1>2. Before(p, w) \in SUBSET Workers
  BY DEF Before, Sub
<1>3. QED
  BY <1>1, <1>2, WorkersFinite

LEMMA CountTypes ==
  ASSUME Typed, NEW p \in Producers
  PROVE  /\ headIndex[p] \in Nat /\ tailIndex[p] \in Nat
         /\ dequeueOptimisticCount[p] \in Nat /\ dequeueOvercommit[p] \in Nat
         /\ Cardinality(Reserved(p)) \in Nat /\ Cardinality(Advancing(p)) \in Nat
         /\ Claimed(p) \in Nat
         /\ \A w : Cardinality(Before(p, w)) \in Nat
         /\ \A w \in Workers : my[w].count \in Nat /\ my[w].over \in Nat
<1>1. \A w \in Workers : my[w].count \in Nat /\ my[w].over \in Nat
  BY NullIsNoUser DEF Typed, Control, LocalOK
<1>2. Cardinality(Reserved(p)) \in Nat /\ Cardinality(Advancing(p)) \in Nat
      /\ \A w : Cardinality(Before(p, w)) \in Nat
  BY SubFinite DEF Reserved, Advancing
<1>3. /\ headIndex[p] \in Nat /\ tailIndex[p] \in Nat
      /\ dequeueOptimisticCount[p] \in Nat /\ dequeueOvercommit[p] \in Nat
  BY DEF Typed, Shared
<1>4. QED
  BY <1>1, <1>2, <1>3 DEF Claimed

LEMMA CountsFrame ==
  ASSUME Typed, NEW p \in Producers, CountsOf(p),
         headIndex'[p] = headIndex[p],
         dequeueOptimisticCount'[p] = dequeueOptimisticCount[p],
         dequeueOvercommit'[p] = dequeueOvercommit[p],
         tailIndex'[p] \in Nat, tailIndex'[p] >= tailIndex[p],
         \A x \in Workers :
           \/ pc'[x] = pc[x] /\ my'[x] = my[x]
           \/ x \notin Sub(p, Counting) /\ x \notin Sub(p, Counting)'
  PROVE  CountsOf(p)'
<1>1. ASSUME NEW L \in SUBSET Counting
      PROVE  Sub(p, L)' = Sub(p, L) /\ \A x \in Sub(p, L) : my'[x] = my[x]
  BY DEF Sub
<1>2. {"again", "giveback", "advance"} \in SUBSET Counting
      /\ {"advance"} \in SUBSET Counting /\ {"try", "reserve"} \in SUBSET Counting
      /\ {"again"} \in SUBSET Counting
  BY DEF Counting
<1>3. Reserved(p)' = Reserved(p) /\ Advancing(p)' = Advancing(p)
  BY <1>1, <1>2 DEF Reserved, Advancing
<1>4. Sub(p, {"try", "reserve"})' = Sub(p, {"try", "reserve"})
      /\ \A x \in Sub(p, {"try", "reserve"}) : my'[x] = my[x]
  BY <1>1, <1>2
<1>5. Sub(p, {"again"})' = Sub(p, {"again"}) /\ \A x \in Sub(p, {"again"}) : my'[x] = my[x]
  BY <1>1, <1>2
<1>6. \A w \in Sub(p, {"again"}) : Before(p, w)' = Before(p, w)
  BY <1>5 DEF Before
<1>7. Claimed(p)' = Claimed(p)
  BY <1>3 DEF Claimed
<1>8. \A w \in Sub(p, {"again"}) : w \in Workers
  BY DEF Sub
<1>9. QED
  BY <1>3, <1>4, <1>5, <1>6, <1>7, <1>8, CountTypes DEF CountsOf

(* Where a worker's step takes it.                                         *)
LEMMA SubStep ==
  ASSUME Typed, NEW w \in Workers, NEW l, NEW m, NEW r, Step(w, l, m, r),
         r.p = my[w].p, NEW q, NEW L
  PROVE  /\ pc[w] = l /\ pc'[w] = m /\ my'[w] = r
         /\ \A x \in Workers \ {w} : pc'[x] = pc[x] /\ my'[x] = my[x]
         /\ Sub(q, L)' = IF q = my[w].p /\ m \in L THEN Sub(q, L) \cup {w}
                         ELSE Sub(q, L) \ {w}
         /\ w \in Sub(q, L) <=> q = my[w].p /\ l \in L
<1>1. pc[w] = l /\ pc'[w] = m /\ my'[w] = r
      /\ \A x \in Workers \ {w} : pc'[x] = pc[x] /\ my'[x] = my[x]
  BY StepEffect, NullIsNoUser DEF Typed
<1>2. QED
  BY <1>1 DEF Sub

(* The other sub-queues.                                                   *)
LEMMA CountsOthers ==
  ASSUME Typed, NEW w \in Workers, NEW l, NEW m, NEW r, Step(w, l, m, r),
         r.p = my[w].p, NEW q \in Producers, q # my[w].p, CountsOf(q),
         headIndex'[q] = headIndex[q], tailIndex' = tailIndex,
         dequeueOptimisticCount'[q] = dequeueOptimisticCount[q],
         dequeueOvercommit'[q] = dequeueOvercommit[q]
  PROVE  CountsOf(q)'
<1>1. /\ pc[w] = l /\ pc'[w] = m /\ my'[w] = r
      /\ \A x \in Workers \ {w} : pc'[x] = pc[x] /\ my'[x] = my[x]
      /\ w \notin Sub(q, Counting)
  BY SubStep
<1>2. w \notin Sub(q, Counting)'
  BY <1>1 DEF Sub
<1>3. tailIndex'[q] \in Nat /\ tailIndex'[q] >= tailIndex[q]
  BY CountTypes
<1>4. QED
  BY <1>1, <1>2, <1>3, CountsFrame

LEMMA TryCounts ==
  ASSUME Typed, Counts, NEW w \in Workers, Try(w), UNCHANGED tail_vars
  PROVE  Counts'
<1> DEFINE p == my[w].p
<1>1. PICK m \in {"reserve", "nextsub"} : Step(w, "try", m, my[w])
  <2> DEFINE n == IF dequeueOptimisticCount[p_of(w)] - my[w].over < my[w].tail
                  THEN "reserve" ELSE "nextsub"
  <2>1. Step(w, "try", n, my[w]) /\ n \in {"reserve", "nextsub"}
    BY DEF Try
  <2>2. QED
    BY <2>1
<1>2. /\ pc[w] = "try" /\ pc'[w] = m /\ my'[w] = my[w]
      /\ \A x \in Workers \ {w} : pc'[x] = pc[x] /\ my'[x] = my[x]
  BY <1>1, SubStep
<1>3. /\ headIndex' = headIndex /\ tailIndex' = tailIndex
      /\ dequeueOptimisticCount' = dequeueOptimisticCount
      /\ dequeueOvercommit' = dequeueOvercommit
  BY DEF Try, head_vars, tail_vars
<1>4. ASSUME NEW q \in Producers PROVE CountsOf(q)'
  <2>1. Reserved(q)' = Reserved(q) /\ Advancing(q)' = Advancing(q)
        /\ Sub(q, {"again"})' = Sub(q, {"again"})
        /\ Sub(q, {"try", "reserve"})' \in SUBSET Sub(q, {"try", "reserve"})
    BY <1>2 DEF Reserved, Advancing, Sub
  <2>2. \A x \in Workers : my'[x] = my[x]
    BY <1>2
  <2>3. \A x \in Sub(q, {"again"}) : Before(q, x)' = Before(q, x) /\ x \in Workers
    BY <2>1, <2>2 DEF Before, Sub
  <2>4. Claimed(q)' = Claimed(q)
    BY <1>3, <2>1 DEF Claimed
  <2>5. \A x \in Sub(q, {"try", "reserve"}) : x \in Workers
    BY DEF Sub
  <2>6. QED
    BY <1>3, <2>1, <2>2, <2>3, <2>4, <2>5 DEF CountsOf, Counts
<1>5. QED
  BY <1>4 DEF Counts

LEMMA ReserveCounts ==
  ASSUME Typed, Counts, NEW w \in Workers, Reserve(w), UNCHANGED tail_vars
  PROVE  Counts'
<1>0. PICK p : p = my[w].p
  OBVIOUS
<1> DEFINE O == dequeueOptimisticCount[p]
           r == [my[w] EXCEPT !.count = O]
<1>1. p \in Producers /\ pc[w] = "reserve"
  BY <1>0, WorkerSub DEF Reserve, WithSub
<1>2. Step(w, "reserve", "again", r)
  BY <1>0 DEF Reserve, p_of
<1>3. r.p = p /\ r.count = O /\ r.over = my[w].over
  BY <1>0, NullIsNoUser DEF Typed, Control, LocalOK, LocalNames
<1>4. /\ headIndex' = headIndex /\ tailIndex' = tailIndex
      /\ dequeueOptimisticCount' = Put(dequeueOptimisticCount, p, O + 1)
      /\ dequeueOvercommit' = dequeueOvercommit
  BY <1>0 DEF Reserve, tail_vars, p_of
<1>5. /\ dequeueOptimisticCount'[p] = O + 1 /\ O \in Nat
      /\ \A q \in Producers \ {p} : dequeueOptimisticCount'[q] = dequeueOptimisticCount[q]
  BY <1>1, <1>4 DEF Put, Typed, Shared
<1> HIDE DEF r
<1>6. ASSUME NEW q \in Producers, q # p PROVE CountsOf(q)'
  BY <1>0, <1>2, <1>3, <1>4, <1>5, <1>6, CountsOthers DEF Counts
<1>7. CountsOf(p)'
  <2> DEFINE H == headIndex[p]
             V == dequeueOvercommit[p]
             R == Reserved(p)
             A == Advancing(p)
             G == Sub(p, {"again"})
             S == Claimed(p)
  <2>1. /\ H \in Nat /\ V \in Nat /\ S \in Nat /\ tailIndex[p] \in Nat
        /\ Cardinality(R) \in Nat /\ Cardinality(A) \in Nat
        /\ S = H + Cardinality(A)
    BY <1>1, CountTypes DEF Claimed
  <2>2. /\ O = H + V + Cardinality(R)
        /\ S <= tailIndex[p]
        /\ \A x \in Sub(p, {"try", "reserve"}) : my[x].over <= V
        /\ \A x \in G : /\ my[x].count < O
                        /\ \/ S + Cardinality(Before(p, x)) <= tailIndex[p]
                           \/ S + Cardinality(Before(p, x)) <= my[x].count - my[x].over + 1
    BY <1>1 DEF Counts, CountsOf
  <2>3. /\ pc'[w] = "again" /\ my'[w] = r
        /\ \A x \in Workers \ {w} : pc'[x] = pc[x] /\ my'[x] = my[x]
    BY <1>0, <1>2, <1>3, SubStep
  <2>4. /\ Reserved(p)' = R \cup {w} /\ w \notin R
        /\ Advancing(p)' = A /\ Sub(p, {"again"})' = G \cup {w} /\ w \notin G
        /\ Sub(p, {"try", "reserve"})' \in SUBSET Sub(p, {"try", "reserve"})
        /\ w \in Sub(p, {"try", "reserve"}) /\ w \notin Sub(p, {"try", "reserve"})'
    BY <1>0, <1>1, <1>3, <2>3 DEF Reserved, Advancing, Sub
  <2>5. Cardinality(R \cup {w}) = Cardinality(R) + 1
    <3>1. IsFiniteSet(R)
      BY SubFinite DEF Reserved
    <3>2. QED
      BY <2>4, <3>1, FS_AddElement
  <2>6. Claimed(p)' = S
    BY <1>4, <2>4 DEF Claimed
  <2>7. \A x \in G : x \in Workers \ {w} /\ my'[x] = my[x]
    BY <2>3, <2>4 DEF Sub
  <2>8. ASSUME NEW x \in G PROVE Before(p, x)' = Before(p, x)
    <3>1. ~(my'[w].count <= my'[x].count)
      BY <1>3, <1>5, <2>2, <2>3, <2>7, CountTypes, <1>1
    <3>2. Before(p, x)' = {y \in G \cup {w} : my'[y].count <= my'[x].count}
      BY <2>4 DEF Before
    <3>3. QED
      BY <2>7, <3>1, <3>2 DEF Before
  <2>9. S + Cardinality(Before(p, w)') <= O - my[w].over + 1
    <3>1. Before(p, w)' \in SUBSET (G \cup {w})
      BY <2>4 DEF Before
    <3>2. IsFiniteSet(G) /\ Cardinality(G) \in Nat
      BY SubFinite
    <3>3. IsFiniteSet(G \cup {w}) /\ Cardinality(G \cup {w}) = Cardinality(G) + 1
      BY <2>4, <3>2, FS_AddElement
    <3>4. Cardinality(Before(p, w)') <= Cardinality(G) + 1 /\ Cardinality(Before(p, w)') \in Nat
      BY <3>1, <3>3, FS_Subset, FS_CardinalityType
    <3>5. Cardinality(A) + Cardinality(G) <= Cardinality(R)
      <4>1. A \cap G = {} /\ A \cup G \in SUBSET R
        BY DEF Advancing, Reserved, Sub
      <4>2. IsFiniteSet(A) /\ IsFiniteSet(G) /\ IsFiniteSet(R)
        BY SubFinite DEF Advancing, Reserved
      <4>3. Cardinality(A \cup G) = Cardinality(A) + Cardinality(G)
        <5>1. Cardinality(A \cap G) = 0
          BY <4>1, FS_EmptySet
        <5>2. Cardinality(A \cup G)
                = Cardinality(A) + Cardinality(G) - Cardinality(A \cap G)
          BY <4>2, FS_Union
        <5>3. QED
          BY <2>1, <3>2, <5>1, <5>2
      <4>4. QED
        BY <4>1, <4>2, <4>3, FS_Subset
    <3>6. my[w].over <= V /\ my[w].over \in Nat
      BY <1>1, <2>2, <2>4, CountTypes
    <3>7. QED
      BY <1>5, <2>1, <2>2, <3>2, <3>4, <3>5, <3>6
  <2>10. my'[w].count = O /\ my'[w].over = my[w].over
    BY <1>3, <2>3
  <2>11. \A x \in Sub(p, {"try", "reserve"})' : my'[x].over <= V
    BY <2>2, <2>3, <2>4 DEF Sub
  <2>12. \A x \in G : my'[x].count < O + 1 /\ my[x].count \in Nat /\ my[x].over \in Nat
    BY <1>1, <1>5, <2>2, <2>7, CountTypes
  <2>13. ASSUME NEW x \in G \cup {w}
         PROVE  /\ my'[x].count < O + 1
                /\ \/ S + Cardinality(Before(p, x)') <= tailIndex[p]
                   \/ S + Cardinality(Before(p, x)') <= my'[x].count - my'[x].over + 1
    <3>1. CASE x = w
      BY <1>5, <2>9, <2>10, <3>1
    <3>2. CASE x \in G
      BY <2>2, <2>7, <2>8, <2>12, <3>2
    <3>3. QED
      BY <3>1, <3>2
  <2>14. O + 1 = H + V + (Cardinality(R) + 1)
    BY <2>1, <2>2
  <2>15. QED
    BY <1>4, <1>5, <2>2, <2>4, <2>5, <2>6, <2>11, <2>13, <2>14 DEF CountsOf
<1>8. QED
  BY <1>6, <1>7 DEF Counts

LEMMA AgainCounts ==
  ASSUME Typed, Counts, NEW w \in Workers, Again(w), UNCHANGED tail_vars
  PROVE  Counts'
<1>0. PICK p : p = my[w].p
  OBVIOUS
<1> DEFINE T == tailIndex[p]
           R == Reserved(p)
           A == Advancing(p)
           G == Sub(p, {"again"})
           S == Claimed(p)
<1>1. p \in Producers /\ pc[w] = "again"
  BY <1>0, WorkerSub DEF Again, WithSub
<1>2. PICK m : /\ Step(w, "again", m, my[w])
               /\ m = IF my[w].count - my[w].over < T THEN "advance" ELSE "giveback"
  BY <1>0 DEF Again, p_of
<1>3. /\ pc'[w] = m /\ my'[w] = my[w]
      /\ \A x \in Workers \ {w} : pc'[x] = pc[x] /\ my'[x] = my[x]
  BY <1>2, SubStep
<1>4. /\ headIndex' = headIndex /\ tailIndex' = tailIndex
      /\ dequeueOptimisticCount' = dequeueOptimisticCount
      /\ dequeueOvercommit' = dequeueOvercommit
  BY DEF Again, head_vars, tail_vars
<1>5. ASSUME NEW q \in Producers, q # p PROVE CountsOf(q)'
  BY <1>0, <1>2, <1>4, <1>5, CountsOthers DEF Counts
<1>6. /\ S \in Nat /\ T \in Nat /\ Cardinality(A) \in Nat /\ headIndex[p] \in Nat
      /\ S = headIndex[p] + Cardinality(A)
      /\ \A x \in G : x \in Workers /\ my[x].count \in Nat /\ my[x].over \in Nat
      /\ \A x : IsFiniteSet(Before(p, x)) /\ Cardinality(Before(p, x)) \in Nat
  BY <1>1, CountTypes, SubFinite DEF Claimed, Sub
<1>7. /\ S <= T
      /\ \A x \in G : /\ my[x].count < dequeueOptimisticCount[p]
                      /\ \/ S + Cardinality(Before(p, x)) <= T
                         \/ S + Cardinality(Before(p, x)) <= my[x].count - my[x].over + 1
  BY <1>1 DEF Counts, CountsOf
<1>8. /\ \A x \in Workers : my'[x] = my[x]
      /\ w \in G /\ w \notin A /\ Sub(p, {"again"})' = G \ {w}
      /\ Reserved(p)' = R
      /\ Sub(p, {"try", "reserve"})' = Sub(p, {"try", "reserve"})
      /\ Advancing(p)' = IF m = "advance" THEN A \cup {w} ELSE A
  <2>1. m \in {"advance", "giveback"}
    BY <1>2
  <2>2. QED
    BY <1>0, <1>1, <1>3, <2>1 DEF Sub, Reserved, Advancing
<1>9. \A x \in G : Before(p, x)' = Before(p, x) \ {w}
  BY <1>6, <1>8 DEF Before
<1>10. \A x \in G : /\ Cardinality(Before(p, x)') \in Nat
                    /\ Cardinality(Before(p, x)')
                         = IF w \in Before(p, x) THEN Cardinality(Before(p, x)) - 1
                           ELSE Cardinality(Before(p, x))
  <2> TAKE x \in G
  <2>1. Cardinality(Before(p, x) \ {w})
          = IF w \in Before(p, x) THEN Cardinality(Before(p, x)) - 1
            ELSE Cardinality(Before(p, x))
    BY <1>6, FS_RemoveElement
  <2>2. IsFiniteSet(Before(p, x) \ {w})
    BY <1>6, FS_RemoveElement
  <2>3. Cardinality(Before(p, x) \ {w}) \in Nat
    BY <2>2, FS_CardinalityType
  <2>4. QED
    BY <1>9, <2>1, <2>3
<1>11. CASE m = "giveback"
  <2>1. Claimed(p)' = S
    BY <1>4, <1>8, <1>11 DEF Claimed
  <2>2. ASSUME NEW x \in G \ {w}
        PROVE  \/ S + Cardinality(Before(p, x)') <= T
               \/ S + Cardinality(Before(p, x)') <= my[x].count - my[x].over + 1
    BY <1>6, <1>7, <1>10
  <2>3. CountsOf(p)'
    <3>1. \A x \in Sub(p, {"try", "reserve"}) : my[x].over <= dequeueOvercommit[p] /\ x \in Workers
      BY <1>1 DEF Counts, CountsOf, Sub
    <3>2. dequeueOptimisticCount[p] = headIndex[p] + dequeueOvercommit[p] + Cardinality(R)
      BY <1>1 DEF Counts, CountsOf
    <3>3. \A x \in G \ {w} : my'[x] = my[x]
      BY <1>6, <1>8
    <3>4. QED
      BY <1>4, <1>7, <1>8, <2>1, <2>2, <3>1, <3>2, <3>3 DEF CountsOf
  <2>4. QED
    BY <1>5, <2>3 DEF Counts
<1>12. CASE m = "advance"
  <2>1. my[w].count - my[w].over < T
    BY <1>2, <1>12
  <2>2. w \in Before(p, w)
    BY <1>6, <1>8 DEF Before
  <2>3. S + Cardinality(Before(p, w)) <= T /\ Cardinality(Before(p, w)) >= 1
    <3>1. Cardinality(Before(p, w)) # 0
      BY <1>6, <2>2, FS_EmptySet
    <3>2. QED
      BY <1>6, <1>7, <1>8, <2>1, <3>1
  <2>4. Claimed(p)' = S + 1
    <3>1. Cardinality(A \cup {w}) = Cardinality(A) + 1
      <4>1. IsFiniteSet(A)
        BY SubFinite DEF Advancing
      <4>2. QED
        BY <1>8, <4>1, FS_AddElement
    <3>2. QED
      BY <1>4, <1>6, <1>8, <1>12, <3>1 DEF Claimed
  <2>5. ASSUME NEW x \in G \ {w}
        PROVE  \/ S + 1 + Cardinality(Before(p, x)') <= T
               \/ S + 1 + Cardinality(Before(p, x)') <= my[x].count - my[x].over + 1
    <3>1. CASE my[w].count <= my[x].count
      <4>1. w \in Before(p, x)
        BY <1>8, <3>1 DEF Before
      <4>2. QED
        BY <1>6, <1>7, <1>10, <4>1
    <3>2. CASE ~(my[w].count <= my[x].count)
      <4>1. my[x].count < my[w].count /\ w \notin Before(p, x)
        BY <1>6, <1>8, <3>2 DEF Before
      <4>2. Before(p, x) \in SUBSET Before(p, w) /\ Before(p, x) # Before(p, w)
        BY <1>6, <1>8, <2>2, <4>1 DEF Before
      <4>3. Cardinality(Before(p, x)) < Cardinality(Before(p, w))
        <5>1. /\ Cardinality(Before(p, x)) <= Cardinality(Before(p, w))
              /\ Cardinality(Before(p, w)) = Cardinality(Before(p, x))
                   => Before(p, w) = Before(p, x)
          BY <1>6, <4>2, FS_Subset
        <5>2. QED
          BY <1>6, <4>2, <5>1
      <4>4. QED
        BY <1>6, <1>10, <2>3, <4>1, <4>3
    <3>3. QED
      BY <3>1, <3>2
  <2>6. CountsOf(p)'
    <3>1. \A x \in Sub(p, {"try", "reserve"}) : my[x].over <= dequeueOvercommit[p] /\ x \in Workers
      BY <1>1 DEF Counts, CountsOf, Sub
    <3>2. dequeueOptimisticCount[p] = headIndex[p] + dequeueOvercommit[p] + Cardinality(R)
      BY <1>1 DEF Counts, CountsOf
    <3>3. \A x \in G \ {w} : my'[x] = my[x]
      BY <1>6, <1>8
    <3>4. S + 1 <= T
      BY <1>6, <2>3
    <3>5. QED
      BY <1>4, <1>7, <1>8, <2>4, <2>5, <3>1, <3>2, <3>3, <3>4 DEF CountsOf
  <2>7. QED
    BY <1>5, <2>6 DEF Counts
<1>13. QED
  BY <1>2, <1>11, <1>12

LEMMA GiveBackCounts ==
  ASSUME Typed, Counts, NEW w \in Workers, GiveBack(w), UNCHANGED tail_vars
  PROVE  Counts'
<1>0. PICK p : p = my[w].p
  OBVIOUS
<1> DEFINE R == Reserved(p)
           V == dequeueOvercommit[p]
<1>1. p \in Producers /\ pc[w] = "giveback"
  BY <1>0, WorkerSub DEF GiveBack, WithSub, Step
<1>2. Step(w, "giveback", "nextsub", my[w])
  BY DEF GiveBack
<1>3. /\ pc'[w] = "nextsub" /\ my'[w] = my[w]
      /\ \A x \in Workers \ {w} : pc'[x] = pc[x] /\ my'[x] = my[x]
  BY <1>2, SubStep
<1>4. /\ headIndex' = headIndex /\ tailIndex' = tailIndex
      /\ dequeueOptimisticCount' = dequeueOptimisticCount
      /\ dequeueOvercommit' = Put(dequeueOvercommit, p, V + 1)
  BY <1>0 DEF GiveBack, head_vars, tail_vars, p_of
<1>5. /\ dequeueOvercommit'[p] = V + 1 /\ V \in Nat
      /\ \A q \in Producers \ {p} : dequeueOvercommit'[q] = dequeueOvercommit[q]
  BY <1>1, <1>4 DEF Put, Typed, Shared
<1>6. ASSUME NEW q \in Producers, q # p PROVE CountsOf(q)'
  BY <1>0, <1>2, <1>4, <1>5, <1>6, CountsOthers DEF Counts
<1>7. CountsOf(p)'
  <2>1. /\ w \in R /\ Reserved(p)' = R \ {w}
        /\ Advancing(p)' = Advancing(p) /\ Sub(p, {"again"})' = Sub(p, {"again"})
        /\ Sub(p, {"try", "reserve"})' = Sub(p, {"try", "reserve"})
    BY <1>0, <1>1, <1>3 DEF Sub, Reserved, Advancing
  <2>2. \A x \in Workers : my'[x] = my[x]
    BY <1>3
  <2>3. Cardinality(R \ {w}) = Cardinality(R) - 1 /\ Cardinality(R) \in Nat
    <3>1. IsFiniteSet(R) /\ Cardinality(R) \in Nat
      BY SubFinite DEF Reserved
    <3>2. QED
      BY <2>1, <3>1, FS_RemoveElement
  <2>4. \A x \in Sub(p, {"again"}) : x \in Workers /\ Before(p, x)' = Before(p, x)
    <3>1. \A x \in Sub(p, {"again"}) : x \in Workers
      BY DEF Sub
    <3>2. QED
      BY <2>1, <2>2, <3>1 DEF Before
  <2>5. Claimed(p)' = Claimed(p)
    BY <1>4, <2>1 DEF Claimed
  <2>6. dequeueOptimisticCount[p] = headIndex[p] + (V + 1) + (Cardinality(R) - 1)
    BY <1>1, <1>5, <2>3, CountTypes DEF Counts, CountsOf
  <2>7. \A x \in Sub(p, {"try", "reserve"}) : my'[x].over <= V + 1
    BY <1>1, <1>5, <2>2, CountTypes DEF Counts, CountsOf, Sub
  <2>8. QED
    BY <1>1, <1>4, <1>5, <2>1, <2>2, <2>3, <2>4, <2>5, <2>6, <2>7 DEF Counts, CountsOf
<1>8. QED
  BY <1>6, <1>7 DEF Counts

LEMMA AdvanceCounts ==
  ASSUME Typed, Counts, NEW w \in Workers, Advance(w), UNCHANGED tail_vars
  PROVE  Counts'
<1>0. PICK p : p = my[w].p
  OBVIOUS
<1> DEFINE R == Reserved(p)
           A == Advancing(p)
           H == headIndex[p]
           r == [my[w] EXCEPT !.index = H]
<1>1. p \in Producers /\ pc[w] = "advance"
  BY <1>0, WorkerSub DEF Advance, WithSub, Step
<1>2. Step(w, "advance", "lookup", r)
  BY <1>0 DEF Advance, p_of
<1>3. r.p = p
  BY <1>0, NullIsNoUser DEF Typed, Control, LocalOK, LocalNames
<1> HIDE DEF r
<1>4. /\ pc'[w] = "lookup" /\ my'[w] = r
      /\ \A x \in Workers \ {w} : pc'[x] = pc[x] /\ my'[x] = my[x]
  BY <1>0, <1>2, <1>3, SubStep
<1>5. /\ headIndex' = Put(headIndex, p, H + 1) /\ tailIndex' = tailIndex
      /\ dequeueOptimisticCount' = dequeueOptimisticCount
      /\ dequeueOvercommit' = dequeueOvercommit
  BY <1>0 DEF Advance, head_vars, tail_vars, p_of
<1>6. /\ headIndex'[p] = H + 1 /\ H \in Nat
      /\ \A q \in Producers \ {p} : headIndex'[q] = headIndex[q]
  BY <1>1, <1>5 DEF Put, Typed, Shared
<1>7. ASSUME NEW q \in Producers, q # p PROVE CountsOf(q)'
  BY <1>0, <1>2, <1>3, <1>5, <1>6, <1>7, CountsOthers DEF Counts
<1>8. CountsOf(p)'
  <2>1. /\ w \in R /\ Reserved(p)' = R \ {w} /\ w \in A /\ Advancing(p)' = A \ {w}
        /\ Sub(p, {"again"})' = Sub(p, {"again"}) /\ w \notin Sub(p, {"again"})
        /\ Sub(p, {"try", "reserve"})' = Sub(p, {"try", "reserve"})
        /\ w \notin Sub(p, {"try", "reserve"})
    BY <1>0, <1>1, <1>4 DEF Sub, Reserved, Advancing
  <2>2. /\ Cardinality(R \ {w}) = Cardinality(R) - 1 /\ Cardinality(R) \in Nat
        /\ Cardinality(A \ {w}) = Cardinality(A) - 1 /\ Cardinality(A) \in Nat
    <3>1. /\ IsFiniteSet(R) /\ Cardinality(R) \in Nat
          /\ IsFiniteSet(A) /\ Cardinality(A) \in Nat
      BY SubFinite DEF Reserved, Advancing
    <3>2. Cardinality(R \ {w}) = Cardinality(R) - 1
      BY <2>1, <3>1, FS_RemoveElement
    <3>3. Cardinality(A \ {w}) = Cardinality(A) - 1
      BY <2>1, <3>1, FS_RemoveElement
    <3>4. QED
      BY <3>1, <3>2, <3>3
  <2>3. \A x \in Sub(p, {"again"}) : my'[x] = my[x] /\ x \in Workers
    BY <1>4, <2>1 DEF Sub
  <2>4. \A x \in Sub(p, {"again"}) : Before(p, x)' = Before(p, x)
    BY <2>1, <2>3 DEF Before
  <2>5. Claimed(p)' = Claimed(p)
    BY <1>6, <2>1, <2>2 DEF Claimed
  <2>6. dequeueOptimisticCount[p] = (H + 1) + dequeueOvercommit[p] + (Cardinality(R) - 1)
    BY <1>1, <1>6, <2>2, CountTypes DEF Counts, CountsOf
  <2>7. \A x \in Sub(p, {"try", "reserve"}) : my'[x].over <= dequeueOvercommit[p]
    BY <1>1, <1>4, <2>1 DEF Counts, CountsOf, Sub
  <2>8. QED
    BY <1>1, <1>5, <1>6, <2>1, <2>2, <2>3, <2>4, <2>5, <2>6, <2>7 DEF Counts, CountsOf
<1>9. QED
  BY <1>7, <1>8 DEF Counts

LEMMA LoadCountsCounts ==
  ASSUME Typed, Counts, NEW w \in Workers, LoadCounts(w), UNCHANGED tail_vars
  PROVE  Counts'
<1>0. PICK p : p = my[w].p
  OBVIOUS
<1> DEFINE r == [my[w] EXCEPT !.tail = tailIndex[p], !.over = dequeueOvercommit[p]]
<1>1. p \in Producers /\ pc[w] = "counts"
  BY <1>0, WorkerSub DEF LoadCounts, WithSub, Step
<1>2. Step(w, "counts", "try", r)
  BY <1>0 DEF LoadCounts, p_of
<1>3. r.p = p /\ r.over = dequeueOvercommit[p]
  BY <1>0, NullIsNoUser DEF Typed, Control, LocalOK, LocalNames
<1> HIDE DEF r
<1>4. /\ pc'[w] = "try" /\ my'[w] = r
      /\ \A x \in Workers \ {w} : pc'[x] = pc[x] /\ my'[x] = my[x]
  BY <1>0, <1>2, <1>3, SubStep
<1>5. /\ headIndex' = headIndex /\ tailIndex' = tailIndex
      /\ dequeueOptimisticCount' = dequeueOptimisticCount
      /\ dequeueOvercommit' = dequeueOvercommit
  BY DEF LoadCounts, head_vars, tail_vars
<1>6. ASSUME NEW q \in Producers, q # p PROVE CountsOf(q)'
  BY <1>0, <1>2, <1>3, <1>5, <1>6, CountsOthers DEF Counts
<1>7. CountsOf(p)'
  <2>1. /\ Reserved(p)' = Reserved(p) /\ Advancing(p)' = Advancing(p)
        /\ Sub(p, {"again"})' = Sub(p, {"again"}) /\ w \notin Sub(p, {"again"})
        /\ Sub(p, {"try", "reserve"})' = Sub(p, {"try", "reserve"}) \cup {w}
        /\ w \notin Sub(p, {"try", "reserve"})
    BY <1>0, <1>1, <1>3, <1>4 DEF Sub, Reserved, Advancing
  <2>2. \A x \in Sub(p, {"again"}) : my'[x] = my[x] /\ x \in Workers
    BY <1>4, <2>1 DEF Sub
  <2>3. \A x \in Sub(p, {"again"}) : Before(p, x)' = Before(p, x)
    BY <2>1, <2>2 DEF Before
  <2>4. Claimed(p)' = Claimed(p)
    BY <1>5, <2>1 DEF Claimed
  <2>5. dequeueOvercommit[p] \in Nat
    BY <1>1, CountTypes
  <2>6. \A x \in Sub(p, {"try", "reserve"}) : my'[x].over <= dequeueOvercommit[p]
    BY <1>1, <1>4, <2>1 DEF Counts, CountsOf, Sub
  <2>7. my'[w].over <= dequeueOvercommit[p]
    BY <1>3, <1>4, <2>5
  <2>8. QED
    BY <1>1, <1>5, <2>1, <2>2, <2>3, <2>4, <2>6, <2>7 DEF Counts, CountsOf
<1>8. QED
  BY <1>6, <1>7 DEF Counts

LEMMA QuietCounts ==
  ASSUME Typed, Counts, UNCHANGED head_vars, tailIndex' \in [Producers -> Nat],
         \A p \in Producers : tailIndex'[p] >= tailIndex[p],
         \A x \in Workers : \/ pc'[x] = pc[x] /\ my'[x] = my[x]
                            \/ pc[x] \notin Counting /\ pc'[x] \notin Counting
  PROVE  Counts'
<1>1. ASSUME NEW p \in Producers PROVE CountsOf(p)'
  <2>1. \A x \in Workers : \/ pc'[x] = pc[x] /\ my'[x] = my[x]
                           \/ x \notin Sub(p, Counting) /\ x \notin Sub(p, Counting)'
    BY DEF Sub
  <2>2. QED
    BY <2>1, CountsFrame DEF Counts, head_vars
<1>2. QED
  BY <1>1 DEF Counts

(* What a user's step leaves alone.                                        *)
LEMMA UserStep ==
  ASSUME Typed, NEW u \in Users, Thread(u)
  PROVE  /\ UNCHANGED head_vars
         /\ \A x \in Actors \ {u} : pc'[x] = pc[x] /\ my'[x] = my[x]
         /\ \/ UNCHANGED tailIndex
            \/ /\ pc[u] = "publish"
               /\ tailIndex' = Put(tailIndex, my[u].p, tailIndex[my[u].p] + 1)
<1> USE NullIsNoUser, UserQueueAssumption
<1>1. CASE ListStep(u)
  BY <1>1 DEF ListStep, tail_vars
<1>2. CASE ~ListStep(u)
  <2>1. \/ LoadTail(u) /\ Unused
        \/ Ask(u) \/ CheckSize(u) \/ GetProducer(u)
        \/ EnqueueStep(u, <<u, asked[u] + 1>>, "ask")
    BY <1>2 DEF Thread, TryEnqueue
  <2>2. PICK l, m, r : Step(u, l, m, r)
    <3>1. CASE (LoadTail(u) /\ Unused) \/ Ask(u) \/ CheckSize(u)
      BY <3>1 DEF LoadTail, Ask, CheckSize
    <3>2. CASE GetProducer(u)
      BY <3>2 DEF GetProducer, LoadHash, Find, Room, Resize, Unlock, Fits, Enter
    <3>3. CASE EnqueueStep(u, <<u, asked[u] + 1>>, "ask")
      BY <3>3 DEF EnqueueStep, Enqueue, InsertEntry, LoadPool, ClaimPool, FromList, Fresh,
                  Publish
    <3>4. QED
      BY <2>1, <3>1, <3>2, <3>3
  <2>3. \A x \in Actors \ {u} : pc'[x] = pc[x] /\ my'[x] = my[x]
    BY <2>2, StepEffect DEF Typed
  <2>4. UNCHANGED head_vars
    BY <2>1 DEF Unused, Ask, CheckSize, GetProducer, EnqueueStep, head_vars
  <2>5. \/ UNCHANGED tailIndex
        \/ /\ pc[u] = "publish"
           /\ tailIndex' = Put(tailIndex, my[u].p, tailIndex[my[u].p] + 1)
    BY <2>1 DEF Unused, Ask, CheckSize, GetProducer, EnqueueStep, tail_vars, Enqueue,
                InsertEntry, LoadPool, ClaimPool, FromList, Fresh, Publish, p_of, Step
  <2>6. QED
    BY <2>3, <2>4, <2>5
<1>3. QED
  BY <1>1, <1>2

LEMMA CountsStep ==
  ASSUME Typed, Counts, [Next]_vars
  PROVE  Counts'
<1> USE NullIsNoUser, UserQueueAssumption
<1>0. tailIndex \in [Producers -> Nat]
  BY DEF Typed, Shared
<1>1. CASE UNCHANGED queue_vars
  BY <1>0, <1>1, QuietCounts DEF queue_vars, tail_vars
<1>2. ASSUME NEW u \in Users, Thread(u) PROVE Counts'
  <2>1. /\ UNCHANGED head_vars
        /\ \A x \in Actors \ {u} : pc'[x] = pc[x] /\ my'[x] = my[x]
        /\ \/ UNCHANGED tailIndex
           \/ /\ pc[u] = "publish"
              /\ tailIndex' = Put(tailIndex, my[u].p, tailIndex[my[u].p] + 1)
    BY <1>2, UserStep
  <2>2. /\ tailIndex' \in [Producers -> Nat]
        /\ \A p \in Producers : tailIndex'[p] >= tailIndex[p]
    BY <1>0, <2>1 DEF Put
  <2>3. QED
    BY <2>1, <2>2, QuietCounts
<1>3. ASSUME NEW w \in Workers, Thread(w) PROVE Counts'
  <2>1. CASE LoadCounts(w) /\ UNCHANGED tail_vars
    BY <2>1, LoadCountsCounts
  <2>2. CASE Try(w) /\ UNCHANGED tail_vars
    BY <2>2, TryCounts
  <2>3. CASE Reserve(w) /\ UNCHANGED tail_vars
    BY <2>3, ReserveCounts
  <2>4. CASE Again(w) /\ UNCHANGED tail_vars
    BY <2>4, AgainCounts
  <2>5. CASE GiveBack(w) /\ UNCHANGED tail_vars
    BY <2>5, GiveBackCounts
  <2>6. CASE Advance(w) /\ UNCHANGED tail_vars
    BY <2>6, AdvanceCounts
  <2>7. CASE ListStep(w)
    BY <1>0, <2>7, QuietCounts DEF ListStep, tail_vars
  <2>8. CASE \/ LoadTail(w) /\ Unused
             \/ Poll(w) \/ Score(w) \/ NextSub(w) \/ Serve(w)
             \/ LookUp(w) /\ UNCHANGED tail_vars
             \/ TakeElement(w) /\ UNCHANGED tail_vars
             \/ SetEmpty(w) /\ UNCHANGED tail_vars
             \/ Unlink(w) /\ UNCHANGED tail_vars
    <3>1. PICK l \in {"tail", "poll", "head", "nextsub", "dequeued", "lookup", "locate",
                      "empty", "unlink"},
               m \in {"head", "tail", "poll", "counts", "locate", "empty", "unlink", "dequeued"} :
            \E r : Step(w, l, m, r)
      <4>1. CASE (LoadTail(w) /\ Unused) \/ Poll(w) \/ Serve(w) \/ LookUp(w)
                 \/ TakeElement(w) \/ Unlink(w)
        BY <4>1 DEF LoadTail, Poll, Serve, LookUp, TakeElement, Unlink
      <4>2. CASE Score(w) \/ NextSub(w)
        BY <4>2 DEF Score, NextSub
      <4>3. CASE SetEmpty(w)
        <5> DEFINE m == IF elementsCompletelyDequeued[my[w].block] = BLK_SIZE - 1 THEN "unlink"
                        ELSE "dequeued"
        <5>1. Step(w, "empty", m, my[w])
          BY <4>3 DEF SetEmpty
        <5>2. m \in {"unlink", "dequeued"}
          OBVIOUS
        <5> HIDE DEF m
        <5>3. QED
          BY <5>1, <5>2
      <4>4. QED
        BY <2>8, <4>1, <4>2, <4>3
    <3>2. pc[w] = l /\ pc'[w] = m /\ \A x \in Workers \ {w} : pc'[x] = pc[x] /\ my'[x] = my[x]
      BY <3>1, StepEffect DEF Typed
    <3>3. l \notin Counting /\ m \notin Counting
      BY DEF Counting
    <3>4. UNCHANGED head_vars /\ tailIndex' = tailIndex
      BY <2>8 DEF Unused, Poll, Score, NextSub, Serve, LookUp, TakeElement, SetEmpty, Unlink,
                  tail_vars
    <3>5. QED
      BY <1>0, <3>2, <3>3, <3>4, QuietCounts
  <2>9. QED
    BY <1>3, <2>1, <2>2, <2>3, <2>4, <2>5, <2>6, <2>7, <2>8 DEF Thread, DequeueStep
<1>4. QED
  BY <1>1, <1>2, <1>3, ThreadSteps

LEMMA CountsInit == Init => Counts
<1> SUFFICES ASSUME Init, NEW p \in Producers PROVE CountsOf(p)
  BY DEF Counts
<1>1. \A w \in Workers : pc[w] \in {"out", "poll"}
  BY UserQueueAssumption DEF Init
<1>2. /\ Reserved(p) = {} /\ Advancing(p) = {} /\ Sub(p, {"try", "reserve"}) = {}
      /\ Sub(p, {"again"}) = {}
  BY <1>1 DEF Sub, Reserved, Advancing
<1>3. Cardinality({}) = 0
  BY FS_EmptySet
<1>4. /\ headIndex[p] = 0 /\ tailIndex[p] = 0 /\ dequeueOptimisticCount[p] = 0
      /\ dequeueOvercommit[p] = 0
  BY DEF Init, QueueInit
<1>5. QED
  BY <1>2, <1>3, <1>4 DEF CountsOf, Claimed

(* The head is within the tail.                                            *)
LEMMA HeadWithin ==
  ASSUME Typed, Counts, NEW p \in Producers
  PROVE  /\ headIndex[p] \in Nat /\ tailIndex[p] \in Nat /\ headIndex[p] <= tailIndex[p]
         /\ \A w \in Workers : pc[w] = "advance" /\ my[w].p = p => headIndex[p] < tailIndex[p]
<1>1. headIndex[p] \in Nat /\ tailIndex[p] \in Nat /\ Cardinality(Advancing(p)) \in Nat
      /\ headIndex[p] + Cardinality(Advancing(p)) <= tailIndex[p]
  BY CountTypes DEF Counts, CountsOf, Claimed
<1>2. ASSUME NEW w \in Workers, pc[w] = "advance", my[w].p = p
      PROVE  headIndex[p] < tailIndex[p]
  <2>1. w \in Advancing(p)
    BY <1>2 DEF Advancing, Sub
  <2>2. Cardinality(Advancing(p)) # 0
    BY <2>1, SubFinite, FS_EmptySet DEF Advancing
  <2>3. QED
    BY <1>1, <2>2
<1>3. QED
  BY <1>1, <1>2

-----------------------------------------------------------------------------
(* Who has a block.                                                        *)

Adding == {"add", "top", "link", "count", "push", "undo"}
Getting == {"load", "ref", "next", "pop", "got", "drop"}

(* A thread has the block b in hand: it came from the pool or the list, or *)
(* goes to the list.                                                       *)
InHands(a, b) ==
  \/ pc[a] = "fresh" /\ my[a].block = b
  \/ pc[a] = "list" /\ At(a, "idle") /\ fl[a].node = b
  \/ fl[a].at \in Adding /\ fl[a].node = b
  \/ At(a, "got") /\ fl[a].head = b

(* The threads with a reference to b.                                      *)
Holding == {"next", "pop", "drop", "got"}
Holders(b) == {a \in Actors : fl[a].at \in Holding /\ fl[a].head = b}

(* o tells of each block who has it: the pool, the list, a place of a      *)
(* block index, a thread (by), or, of an orphan, the last of its holders   *)
(* to let it go.                                                           *)
Kept(o, b, L) == o[b].kind = "hand" /\ fl[o[b].by].at \in L

OwnPool(o) ==
  \A n \in 1 .. Cardinality(Blocks) : n > initialBlockPoolIndex => o[Pool[n]].kind = "pool"
OwnHand(o) ==
  /\ \A a \in Actors, b \in Blocks : InHands(a, b) => o[b].kind = "hand" /\ o[b].by = a
  /\ \A b \in Blocks : o[b].kind = "hand" => o[b].by \in Actors /\ InHands(o[b].by, b)
OwnEntry(o) ==
  \A x \in UsedEntries : o[BlockIn(x)].kind = "entry" /\ o[BlockIn(x)].by = x

(* The counter is of the references, the list's own one included; the flag *)
(* is set while the block is to be put on the list by whoever can.         *)
RefsOf(o, b) ==
  /\ freeListRefs[b].n
       = Cardinality(Holders(b))
         + (IF o[b].kind = "list" \/ Kept(o, b, {"push", "undo", "got"}) THEN 1 ELSE 0)
  /\ freeListRefs[b].should <=> o[b].kind = "orphan" \/ Kept(o, b, {"top", "link", "count"})
  /\ o[b].kind = "orphan" => freeListRefs[b].n > 0

(* No two blocks of the list have the same next one, and none has the head.*)
ListOf(o) ==
  /\ freeListHead \in Blocks => o[freeListHead].kind = "list"
  /\ \A b \in Blocks : o[b].kind = "list" /\ freeListNext[b] \in Blocks =>
       /\ o[freeListNext[b]].kind = "list" /\ freeListNext[b] # freeListHead
       /\ \A c \in Blocks : o[c].kind = "list" /\ freeListNext[c] = freeListNext[b] => b = c

(* What a thread has seen of the list.                                     *)
SpotOf(a) ==
  /\ fl[a].at \in {"top", "link", "count"} => freeListRefs[fl[a].node].n = 0
  /\ fl[a].at \in {"count", "push"} => freeListNext[fl[a].node] = fl[a].head
  /\ At(a, "pop") => fl[a].next = freeListNext[fl[a].head]
  /\ At(a, "idle") \/ fl[a].at \in Adding \/ fl[a].at \in Getting
  /\ a \in Users /\ ~At(a, "idle") => pc[a] = "list" /\ fl[a].getting /\ ~At(a, "add")
  /\ a \in Workers /\ ~At(a, "idle") =>
       pc[a] = "dequeued" /\ ~fl[a].getting /\ fl[a].at \in Adding
  /\ fl[a].at \in Getting => fl[a].node = Null
  /\ fl[a].at \in Adding => fl[a].node \in Blocks
  /\ pc[a] = "fresh" => my[a].block \in Blocks

Lists(o) ==
  /\ DOMAIN o = Blocks
  /\ OwnPool(o) /\ OwnHand(o) /\ OwnEntry(o)
  /\ \A b \in Blocks : RefsOf(o, b)
  /\ ListOf(o)
  /\ \A a \in Actors : SpotOf(a)

Give(o, b, v) == [o EXCEPT ![b] = v]

LEMMA HoldersFinite ==
  ASSUME NEW b
  PROVE  /\ IsFiniteSet(Holders(b)) /\ Cardinality(Holders(b)) \in Nat
         /\ Cardinality(Holders(b)) <= Cardinality(Actors)
         /\ Cardinality(Actors) \in Nat
         /\ \A a \in Holders(b) : Cardinality(Holders(b)) >= 1
<1>1. Holders(b) \in SUBSET Actors
  BY DEF Holders
<1>2. /\ IsFiniteSet(Holders(b)) /\ Cardinality(Holders(b)) \in Nat
      /\ Cardinality(Holders(b)) <= Cardinality(Actors) /\ Cardinality(Actors) \in Nat
  BY <1>1, FreeListAssumption, FS_Subset, FS_CardinalityType
<1>3. \A a \in Holders(b) : Cardinality(Holders(b)) # 0
  BY <1>2, FS_EmptySet
<1>4. QED
  BY <1>2, <1>3

LEMMA RefTypes ==
  ASSUME Typed
  PROVE  /\ DOMAIN fl = Actors /\ DOMAIN freeListRefs = Blocks /\ DOMAIN freeListNext = Blocks
         /\ \A b \in Blocks : freeListRefs[b].n \in Int /\ freeListRefs[b].should \in BOOLEAN
                              /\ freeListRefs[b] \in [n : Int, should : BOOLEAN]
                              /\ freeListNext[b] \in BlockOrNull
         /\ \A a \in Actors : /\ ListOK(fl[a])
                              /\ fl[a].at \in {"ref", "next", "pop", "got", "drop"} =>
                                   fl[a].head \in Blocks
BY DEF Typed, ListTypes, ListOK

(* No two threads have a block in hand, and none a block of the list.      *)
LEMMA HandOnly ==
  ASSUME NEW o, Lists(o), NEW a \in Actors, NEW b \in Blocks, InHands(a, b)
  PROVE  /\ o[b].kind = "hand" /\ o[b].by = a
         /\ \A x \in Actors : InHands(x, b) => x = a
BY DEF Lists, OwnHand

LEMMA UsedBlock ==
  ASSUME Typed, NEW x \in UsedEntries
  PROVE  /\ BlockIn(x) \in Blocks /\ x \in Producers \X Entries
         /\ x[1] \in Producers /\ x[2] \in Entries /\ x = <<x[1], x[2]>>
<1>1. x \in Producers \X Entries /\ blockIndex[x[1]][x[2]].value # Null
  BY DEF UsedEntries, BlockIn, Entries
<1>2. x[1] \in Producers /\ x[2] \in Entries /\ x = <<x[1], x[2]>>
  BY <1>1
<1>3. blockIndex[x[1]][x[2]].value \in BlockOrNull
  BY <1>2 DEF Typed, Shared
<1>4. QED
  BY <1>1, <1>2, <1>3 DEF BlockIn, BlockOrNull

(* A step of the list that changes one block's counter and owner only.     *)
LEMMA NodeStep ==
  ASSUME Typed, NEW o, Lists(o), NEW a \in Actors, NEW b \in Blocks, NEW r, NEW v, NEW q,
         Go(a, r),
         UNCHANGED <<pc, my, blockIndex, initialBlockPoolIndex, setup>>,
         q = Give(o, b, v),
         \A c \in Blocks \ {b} :
           /\ freeListRefs'[c] = freeListRefs[c]
           /\ ~InHands(a, c) /\ ~InHands(a, c)'
           /\ (a \in Holders(c)) <=> (a \in Holders(c)'),
         InHands(a, b)' => v.kind = "hand" /\ v.by = a,
         v.kind = "hand" => v.by \in Actors /\ InHands(v.by, b)',
         v # o[b] => o[b].kind \notin {"pool", "entry"} /\ (o[b].kind = "hand" => o[b].by = a),
         RefsOf(q, b)', ListOf(q)', SpotOf(a)',
         \A c \in Blocks \ {b} : freeListNext'[c] = freeListNext[c],
         freeListNext'[b] = freeListNext[b] \/ (freeListRefs[b].n = 0 /\ InHands(a, b)),
         freeListRefs'[b].n = freeListRefs[b].n \/ freeListRefs[b].n > 0 \/ InHands(a, b)
  PROVE  Lists(q)'
<1> USE NullIsNoUser
<1>0. DOMAIN o = Blocks
  BY DEF Lists
<1>1. /\ DOMAIN q = Blocks /\ q[b] = v /\ \A c \in Blocks \ {b} : q[c] = o[c]
      /\ fl'[a] = r /\ \A x \in Actors \ {a} : fl'[x] = fl[x]
  BY <1>0, RefTypes DEF Go, Give
<1>2. OwnPool(q)'
  <2>1. ASSUME NEW n \in 1 .. Cardinality(Blocks), n > initialBlockPoolIndex
        PROVE  q[Pool[n]].kind = "pool"
    <3>1. Pool[n] \in Blocks
      BY PoolOK
    <3>2. o[Pool[n]].kind = "pool"
      BY <2>1 DEF Lists, OwnPool
    <3>3. QED
      BY <1>1, <3>1, <3>2
  <2>2. QED
    BY <2>1 DEF OwnPool
<1>3. OwnHand(q)'
  <2>1. \A x \in Actors \ {a}, c \in Blocks : InHands(x, c)' <=> InHands(x, c)
    BY <1>1 DEF InHands, At
  <2>2. ASSUME NEW x \in Actors, NEW c \in Blocks, InHands(x, c)'
        PROVE  q[c].kind = "hand" /\ q[c].by = x
    <3>1. CASE x = a
      BY <1>1, <2>2, <3>1
    <3>2. CASE x # a
      <4>1. o[c].kind = "hand" /\ o[c].by = x
        BY <2>1, <2>2, <3>2 DEF Lists, OwnHand
      <4>2. QED
        BY <1>1, <3>2, <4>1
    <3>3. QED
      BY <3>1, <3>2
  <2>3. ASSUME NEW c \in Blocks, q[c].kind = "hand"
        PROVE  q[c].by \in Actors /\ InHands(q[c].by, c)'
    <3>1. CASE c = b
      BY <1>1, <2>3, <3>1
    <3>2. CASE c # b
      <4>1. o[c] = q[c] /\ o[c].by \in Actors /\ InHands(o[c].by, c)
        BY <1>1, <2>3, <3>2 DEF Lists, OwnHand
      <4>2. o[c].by # a
        BY <3>2, <4>1
      <4>3. QED
        BY <2>1, <4>1, <4>2
    <3>3. QED
      BY <3>1, <3>2
  <2>4. QED
    BY <2>2, <2>3 DEF OwnHand
<1>4. OwnEntry(q)'
  <2>1. ASSUME NEW x \in UsedEntries
        PROVE  q[BlockIn(x)].kind = "entry" /\ q[BlockIn(x)].by = x
    <3>1. o[BlockIn(x)].kind = "entry" /\ o[BlockIn(x)].by = x
      BY DEF Lists, OwnEntry
    <3>2. BlockIn(x) \in Blocks
      BY UsedBlock
    <3>3. QED
      BY <1>1, <3>1, <3>2
  <2>2. UsedEntries' = UsedEntries /\ \A x : BlockIn(x)' = BlockIn(x)
    BY DEF UsedEntries, BlockIn
  <2>3. QED
    BY <2>1, <2>2 DEF OwnEntry
<1>5. ASSUME NEW c \in Blocks PROVE RefsOf(q, c)'
  <2>1. CASE c # b
    <3>1. RefsOf(o, c) /\ q[c] = o[c] /\ freeListRefs'[c] = freeListRefs[c]
      BY <1>1, <2>1 DEF Lists
    <3>2. Holders(c)' = Holders(c)
      <4>1. (a \in Holders(c)) <=> (a \in Holders(c)')
        BY <2>1
      <4>2. \A x \in Actors \ {a} : (x \in Holders(c)) <=> (x \in Holders(c)')
        BY <1>1 DEF Holders
      <4>3. Holders(c) \in SUBSET Actors /\ Holders(c)' \in SUBSET Actors
        BY DEF Holders
      <4>4. \A x \in Actors : (x \in Holders(c)) <=> (x \in Holders(c)')
        BY <4>1, <4>2
      <4>5. QED
        BY <4>3, <4>4, Zenon
    <3>3. o[c].kind = "hand" => o[c].by \in Actors \ {a}
      BY <2>1 DEF Lists, OwnHand
    <3>4. \A L : Kept(q, c, L)' <=> Kept(o, c, L)
      BY <1>1, <3>1, <3>3 DEF Kept
    <3>5. QED
      BY <3>1, <3>2, <3>4 DEF RefsOf
  <2>2. QED
    BY <2>1
<1>6. ASSUME NEW x \in Actors PROVE SpotOf(x)'
  <2>1. CASE x # a
    <3>1. fl'[x] = fl[x] /\ SpotOf(x) /\ ListOK(fl[x])
      BY <1>1, <2>1, RefTypes DEF Lists
    <3>2. fl[x].at \in {"top", "link", "count"} => freeListRefs'[fl[x].node].n = 0
      <4>1. ASSUME fl[x].at \in {"top", "link", "count"}
            PROVE  freeListRefs'[fl[x].node].n = 0
        <5>1. fl[x].node \in Blocks /\ freeListRefs[fl[x].node].n = 0
          BY <3>1, <4>1 DEF SpotOf, Adding
        <5>2. InHands(x, fl[x].node)
          BY <4>1 DEF InHands, Adding
        <5>3. ~InHands(a, fl[x].node)
          BY <2>1, <5>1, <5>2, HandOnly
        <5>4. QED
          BY <5>1, <5>3
      <4>2. QED
        BY <4>1
    <3>3. fl[x].at \in {"count", "push"} => freeListNext'[fl[x].node] = fl[x].head
      <4>1. ASSUME fl[x].at \in {"count", "push"}
            PROVE  freeListNext'[fl[x].node] = fl[x].head
        <5>1. fl[x].node \in Blocks /\ freeListNext[fl[x].node] = fl[x].head
          BY <3>1, <4>1 DEF SpotOf, Adding
        <5>2. InHands(x, fl[x].node)
          BY <4>1 DEF InHands, Adding
        <5>3. ~InHands(a, fl[x].node)
          BY <2>1, <5>1, <5>2, HandOnly
        <5>4. QED
          BY <5>1, <5>3
      <4>2. QED
        BY <4>1
    <3>4. At(x, "pop") => fl[x].next = freeListNext'[fl[x].head]
      <4>1. ASSUME At(x, "pop")
            PROVE  fl[x].next = freeListNext'[fl[x].head]
        <5>1. fl[x].head \in Blocks /\ fl[x].next = freeListNext[fl[x].head]
          BY <3>1, <4>1 DEF SpotOf, At, ListOK
        <5>2. x \in Holders(fl[x].head)
          BY <4>1 DEF Holders, Holding, At
        <5>3. Cardinality(Holders(fl[x].head)) >= 1 /\ Cardinality(Holders(fl[x].head)) \in Nat
          BY <5>2, HoldersFinite
        <5>4. freeListRefs[fl[x].head].n > 0
          BY <5>1, <5>3 DEF Lists, RefsOf
        <5>5. freeListNext'[fl[x].head] = freeListNext[fl[x].head]
          BY <5>1, <5>4
        <5>6. QED
          BY <5>1, <5>5
      <4>2. QED
        BY <4>1
    <3>5. QED
      BY <3>1, <3>2, <3>3, <3>4 DEF SpotOf, At
  <2>2. QED
    BY <2>1
<1>7. QED
  BY <1>1, <1>2, <1>3, <1>4, <1>5, <1>6 DEF Lists

(* A step of one thread adds it to the holders of a block, or removes it.  *)
Bit(x) == IF x THEN 1 ELSE 0
LEMMA HoldersStep ==
  ASSUME Typed, NEW a \in Actors, NEW r, Go(a, r), NEW b
  PROVE  /\ Cardinality(Holders(b)') \in Nat /\ Cardinality(Holders(b)) \in Nat
         /\ Cardinality(Holders(b)')
              = Cardinality(Holders(b)) + Bit(r.at \in Holding /\ r.head = b)
                                        - Bit(a \in Holders(b))
         /\ a \in Holders(b) <=> fl[a].at \in Holding /\ fl[a].head = b
<1> DEFINE H == Holders(b)
           K == Holders(b)'
<1>1. fl'[a] = r /\ \A x \in Actors \ {a} : fl'[x] = fl[x]
  BY RefTypes DEF Go
<1>2. IsFiniteSet(H) /\ Cardinality(H) \in Nat
  BY HoldersFinite
<1>3. H \in SUBSET Actors /\ K \in SUBSET Actors
  BY DEF Holders
<1>4. \A x \in Actors \ {a} : (x \in K) <=> (x \in H)
  BY <1>1 DEF Holders
<1>5. (a \in K) <=> (r.at \in Holding /\ r.head = b)
  BY <1>1 DEF Holders
<1>6. (a \in H) <=> (fl[a].at \in Holding /\ fl[a].head = b)
  BY DEF Holders
<1> HIDE DEF H, K
<1>7. CASE a \in H /\ a \notin K
  <2>1. K = H \ {a}
    BY <1>3, <1>4, <1>7
  <2>2. Cardinality(H \ {a}) = Cardinality(H) - 1
    BY <1>2, <1>7, FS_RemoveElement
  <2>3. Cardinality(H) # 0
    BY <1>2, <1>7, FS_EmptySet
  <2>4. QED
    BY <1>2, <1>5, <1>6, <1>7, <2>1, <2>2, <2>3 DEF Bit, H, K
<1>8. CASE a \notin H /\ a \in K
  <2>1. K = H \cup {a}
    BY <1>3, <1>4, <1>8
  <2>2. Cardinality(H \cup {a}) = Cardinality(H) + 1
    BY <1>2, <1>8, FS_AddElement
  <2>3. QED
    BY <1>2, <1>5, <1>6, <1>8, <2>1, <2>2 DEF Bit, H, K
<1>9. CASE a \in H <=> a \in K
  <2>1. \A x \in Actors : (x \in K) <=> (x \in H)
    BY <1>4, <1>9
  <2>2. K = H
    BY <1>3, <2>1, Zenon
  <2>3. QED
    BY <1>2, <1>5, <1>6, <1>9, <2>2 DEF Bit, H, K
<1>10. QED
  BY <1>7, <1>8, <1>9

(* The list is as it was.                                                  *)
LEMMA ListOfFrame ==
  ASSUME NEW o, Lists(o), NEW b \in Blocks, NEW v, NEW q, q = Give(o, b, v),
         v = o[b] \/ (o[b].kind # "list" /\ v.kind # "list"),
         freeListHead' = freeListHead,
         \A c \in Blocks \ {b} : freeListNext'[c] = freeListNext[c],
         freeListNext'[b] = freeListNext[b] \/ o[b].kind # "list"
  PROVE  ListOf(q)'
<1>1. /\ DOMAIN o = Blocks /\ ListOf(o)
      /\ q[b] = v /\ \A c \in Blocks \ {b} : q[c] = o[c]
  BY DEF Lists, Give
<1>2. \A c \in Blocks : /\ q[c].kind = "list" <=> o[c].kind = "list"
                        /\ o[c].kind = "list" => freeListNext'[c] = freeListNext[c]
  BY <1>1
<1>3. QED
  BY <1>1, <1>2 DEF ListOf

Still == UNCHANGED <<pc, my, blockIndex, initialBlockPoolIndex, setup>>

(* Where a thread is that is on the list, and what it has in hand.         *)
LEMMA Placed ==
  ASSUME Typed, NEW o, Lists(o), NEW a \in Actors
  PROVE  /\ SpotOf(a) /\ ListOK(fl[a])
         /\ \A c : c \in Blocks /\ ~At(a, "idle") =>
              (InHands(a, c) <=> \/ fl[a].at \in Adding /\ fl[a].node = c
                                 \/ At(a, "got") /\ fl[a].head = c)
         /\ \A c \in Blocks : InHands(a, c) => o[c].kind = "hand" /\ o[c].by = a
         /\ \A c \in Blocks : o[c].kind = "hand" => o[c].by \in Actors /\ InHands(o[c].by, c)
         /\ \A c \in Blocks : RefsOf(o, c)
         /\ ListOf(o)
<1>1. SpotOf(a) /\ ListOK(fl[a])
  BY RefTypes DEF Lists
<1>2. ~At(a, "idle") => pc[a] # "fresh"
  BY <1>1, UserQueueAssumption DEF SpotOf
<1>3. QED
  BY <1>1, <1>2 DEF InHands, Lists, OwnHand, At

(* The owner stays the same.                                               *)
LEMMA SameOwner ==
  ASSUME Typed, NEW o, Lists(o), NEW a \in Actors, NEW b \in Blocks, NEW r,
         Go(a, r), Still, freeListHead' = freeListHead,
         \A c \in Blocks \ {b} :
           /\ freeListRefs'[c] = freeListRefs[c] /\ freeListNext'[c] = freeListNext[c]
           /\ ~InHands(a, c) /\ ~InHands(a, c)'
           /\ (a \in Holders(c)) <=> (a \in Holders(c)'),
         InHands(a, b)' <=> InHands(a, b), SpotOf(a)',
         freeListNext'[b] = freeListNext[b] \/ (freeListRefs[b].n = 0 /\ InHands(a, b)),
         freeListRefs'[b].n = freeListRefs[b].n \/ freeListRefs[b].n > 0 \/ InHands(a, b),
         \A q : DOMAIN q = Blocks /\ q[b] = o[b] => RefsOf(q, b)'
  PROVE  \E q : Lists(q)'
<1> DEFINE q == Give(o, b, o[b])
<1>1. /\ DOMAIN o = Blocks /\ DOMAIN q = Blocks /\ q[b] = o[b]
  BY DEF Lists, Give
<1>2. ListOf(q)'
  <2>1. freeListNext'[b] = freeListNext[b] \/ o[b].kind # "list"
    BY Placed
  <2>2. QED
    BY <2>1, ListOfFrame
<1>3. RefsOf(q, b)'
  BY <1>1
<1>4. /\ InHands(a, b)' => o[b].kind = "hand" /\ o[b].by = a
      /\ o[b].kind = "hand" => o[b].by \in Actors /\ InHands(o[b].by, b)'
  <2>1. \A x \in Actors \ {a} : fl'[x] = fl[x] /\ pc'[x] = pc[x] /\ my'[x] = my[x]
    BY RefTypes DEF Still, Go
  <2>2. \A x \in Actors \ {a} : InHands(x, b)' <=> InHands(x, b)
    BY <2>1 DEF InHands, At
  <2>3. o[b].kind = "hand" => o[b].by \in Actors /\ InHands(o[b].by, b)
    BY Placed
  <2>4. QED
    BY <2>2, <2>3, Placed
<1> HIDE DEF q
<1>5. q = Give(o, b, o[b])
  BY DEF q
<1>6. Lists(q)'
  BY <1>2, <1>3, <1>4, <1>5, NodeStep DEF Still
<1>7. QED
  BY <1>6

(* Users try_get, workers add.                                             *)
Side(a, g) == \/ g /\ a \in Users /\ pc[a] = "list"
              \/ ~g /\ a \in Workers /\ pc[a] = "dequeued"

(* Steps of add.                                                           *)
LEMMA InAdd ==
  ASSUME Typed, NEW o, Lists(o), NEW a \in Actors, NEW b, b = fl[a].node,
         fl[a].at \in Adding
  PROVE  /\ b \in Blocks /\ ListOK(fl[a]) /\ SpotOf(a)
         /\ InHands(a, b) /\ \A c \in Blocks \ {b} : ~InHands(a, c)
         /\ o[b].kind = "hand" /\ o[b].by = a /\ RefsOf(o, b)
         /\ Side(a, fl[a].getting)
         /\ Cardinality(Holders(b)) \in Nat /\ a \notin Holders(b)
         /\ \A c : a \notin Holders(c)
         /\ freeListRefs[b] \in [n : Int, should : BOOLEAN]
         /\ freeListRefs[b].n = Cardinality(Holders(b)) + Bit(fl[a].at \in {"push", "undo"})
         /\ freeListRefs[b].should <=> fl[a].at \in {"top", "link", "count"}
<1>1. b \in Blocks /\ ListOK(fl[a]) /\ SpotOf(a)
  BY Placed DEF SpotOf
<1>2. Side(a, fl[a].getting)
  BY <1>1, UserQueueAssumption DEF SpotOf, Adding, At, Side
<1>3. InHands(a, b) /\ \A c \in Blocks \ {b} : ~InHands(a, c)
  BY <1>1, Placed DEF Adding, At
<1>4. o[b].kind = "hand" /\ o[b].by = a /\ RefsOf(o, b)
  BY <1>1, <1>3, Placed
<1>5. Cardinality(Holders(b)) \in Nat
  BY HoldersFinite
<1>6. \A c : a \notin Holders(c)
  BY DEF Holders, Holding, Adding
<1>7. freeListRefs[b] \in [n : Int, should : BOOLEAN]
  BY <1>1, RefTypes
<1>8. fl[a].at \in {"push", "undo", "got"} <=> fl[a].at \in {"push", "undo"}
  BY DEF Adding
<1>9. /\ freeListRefs[b].n = Cardinality(Holders(b)) + Bit(fl[a].at \in {"push", "undo"})
      /\ freeListRefs[b].should <=> fl[a].at \in {"top", "link", "count"}
  BY <1>4, <1>8 DEF RefsOf, Kept, Bit
<1>10. QED
  BY <1>1, <1>2, <1>3, <1>4, <1>5, <1>6, <1>7, <1>9

LEMMA AddingSame ==
  ASSUME Typed, NEW o, Lists(o), NEW a \in Actors, NEW b, b = fl[a].node,
         fl[a].at \in Adding, NEW r, Go(a, r), Still,
         r.at \in Adding \ {"add"}, r.node = b, r.getting = fl[a].getting,
         freeListHead' = freeListHead,
         \A c \in Blocks \ {b} :
           freeListRefs'[c] = freeListRefs[c] /\ freeListNext'[c] = freeListNext[c],
         freeListNext'[b] = freeListNext[b] \/ freeListRefs[b].n = 0,
         r.at \in {"count", "push"} => freeListNext'[b] = r.head,
         freeListRefs'[b].n = Cardinality(Holders(b)) + Bit(r.at \in {"push", "undo"}),
         freeListRefs'[b].should <=> r.at \in {"top", "link", "count"},
         r.at \in {"top", "link", "count"} => freeListRefs'[b].n = 0
  PROVE  \E q : Lists(q)'
<1>1. /\ b \in Blocks /\ SpotOf(a)
      /\ InHands(a, b) /\ \A c \in Blocks \ {b} : ~InHands(a, c)
      /\ o[b].kind = "hand" /\ o[b].by = a
      /\ Cardinality(Holders(b)) \in Nat /\ \A c : a \notin Holders(c)
  BY InAdd
<1>2. fl'[a] = r /\ pc'[a] = pc[a] /\ my'[a] = my[a]
  BY RefTypes DEF Go, Still
<1>3. \A c \in Blocks : /\ InHands(a, c)' <=> c = b
                        /\ a \notin Holders(c)'
  <2>1. ~At(a, "idle") /\ pc[a] # "fresh"
    BY <1>1, UserQueueAssumption DEF SpotOf, At, Adding
  <2>2. QED
    BY <1>2, <2>1 DEF InHands, At, Adding, Holders, Holding
<1>4. SpotOf(a)'
  <2>1. (~At(a, "idle") /\ fl[a].at # "add") \/ a \notin Users
    BY <1>1, UserQueueAssumption DEF SpotOf, At, Adding
  <2>2. pc[a] # "fresh"
    BY <1>1, UserQueueAssumption DEF SpotOf, At, Adding
  <2>3. QED
    BY <1>1, <1>2, <2>1, <2>2 DEF SpotOf, At, Adding, Getting
<1>5. \A q : DOMAIN q = Blocks /\ q[b] = o[b] => RefsOf(q, b)'
  <2>1. Cardinality(Holders(b)') = Cardinality(Holders(b))
    BY <1>1, <1>2, HoldersStep, HoldersFinite DEF Bit, Holding, Adding
  <2>2. r.at \in {"push", "undo", "got"} <=> r.at \in {"push", "undo"}
    BY DEF Adding
  <2>3. QED
    BY <1>1, <1>2, <2>1, <2>2 DEF RefsOf, Kept, Bit
<1>6. /\ \A c \in Blocks \ {b} :
           /\ freeListRefs'[c] = freeListRefs[c] /\ freeListNext'[c] = freeListNext[c]
           /\ ~InHands(a, c) /\ ~InHands(a, c)'
           /\ (a \in Holders(c)) <=> (a \in Holders(c)')
      /\ InHands(a, b)' <=> InHands(a, b)
  BY <1>1, <1>3
<1>7. QED
  BY <1>1, <1>4, <1>5, <1>6, SameOwner

(* The end of add.                                                         *)
LEMMA AddedStep ==
  ASSUME Typed, NEW a \in Actors, NEW s, ListOK(s), Go(a, Added(s)), Still,
         Side(a, s.getting)
  PROVE  /\ SpotOf(a)' /\ Added(s).at \notin Holding
         /\ \A c \in Blocks : ~InHands(a, c)' /\ a \notin Holders(c)'
<1>1. PICK r : r = Added(s)
  OBVIOUS
<1>2. /\ r.at \in {"idle", "ref"} /\ r.node = Null
      /\ r.at = "ref" => r.getting /\ s.getting
  BY <1>1 DEF Added, Idle, ListOK
<1>3. fl'[a] = r /\ pc'[a] = pc[a] /\ my'[a] = my[a]
  BY <1>1, RefTypes DEF Go, Still
<1>0. /\ pc[a] # "fresh"
      /\ r.at = "ref" => r.getting /\ a \in Users /\ a \notin Workers /\ pc[a] = "list"
  BY <1>2, UserQueueAssumption DEF Side
<1>4. SpotOf(a)'
  BY <1>0, <1>2, <1>3 DEF SpotOf, At, Adding, Getting
<1>5. \A c \in Blocks : ~InHands(a, c)' /\ a \notin Holders(c)'
  BY <1>0, <1>2, <1>3, NullIsNoUser DEF InHands, At, Adding, Holders, Holding
<1>6. QED
  BY <1>1, <1>2, <1>4, <1>5 DEF Holding

(* A thread leaves the block to those that hold it.                        *)
LEMMA Orphaned ==
  ASSUME Typed, NEW o, Lists(o), NEW a \in Actors, NEW b, b = fl[a].node,
         fl[a].at \in Adding, Go(a, Added(fl[a])), Still,
         freeListHead' = freeListHead, freeListNext' = freeListNext,
         \A c \in Blocks \ {b} : freeListRefs'[c] = freeListRefs[c],
         freeListRefs'[b].n = Cardinality(Holders(b)), freeListRefs'[b].n > 0,
         freeListRefs'[b].should
  PROVE  \E q : Lists(q)'
<1>1. /\ b \in Blocks /\ ListOK(fl[a])
      /\ InHands(a, b) /\ \A c \in Blocks \ {b} : ~InHands(a, c)
      /\ o[b].kind = "hand" /\ o[b].by = a
      /\ Cardinality(Holders(b)) \in Nat /\ \A c : a \notin Holders(c)
      /\ Side(a, fl[a].getting)
  BY InAdd
<1>2. /\ SpotOf(a)' /\ Added(fl[a]).at \notin Holding
      /\ \A c \in Blocks : ~InHands(a, c)' /\ a \notin Holders(c)'
  BY <1>1, AddedStep
<1> DEFINE v == [kind |-> "orphan", by |-> a]
           q == Give(o, b, v)
<1>3. DOMAIN q = Blocks /\ q[b] = v /\ v.kind = "orphan"
  BY <1>1 DEF Lists, Give
<1> HIDE DEF v
<1>4. ListOf(q)'
  BY <1>1, <1>3, ListOfFrame
<1>5. RefsOf(q, b)'
  <2>1. Cardinality(Holders(b)') = Cardinality(Holders(b))
    BY <1>1, <1>2, HoldersStep DEF Bit
  <2>2. QED
    BY <1>3, <2>1, <1>1 DEF RefsOf, Kept
<1>6. \A c \in Blocks \ {b} :
         /\ freeListRefs'[c] = freeListRefs[c] /\ freeListNext'[c] = freeListNext[c]
         /\ ~InHands(a, c) /\ ~InHands(a, c)'
         /\ (a \in Holders(c)) <=> (a \in Holders(c)')
  BY <1>1, <1>2
<1>7. q = Give(o, b, v)
  OBVIOUS
<1> HIDE DEF q
<1>8. Lists(q)'
  BY <1>1, <1>2, <1>3, <1>4, <1>5, <1>6, <1>7, NodeStep DEF Still
<1>9. QED
  BY <1>8

LEMMA AddLists ==
  ASSUME Typed, NEW o, Lists(o), NEW a \in Actors, Add(a), Still
  PROVE  \E q : Lists(q)'
<1>0. PICK b : b = fl[a].node
  OBVIOUS
<1>1. fl[a].at = "add" /\ fl[a].at \in Adding
  BY DEF Add, At, Adding
<1>2. /\ b \in Blocks /\ ListOK(fl[a]) /\ Cardinality(Holders(b)) \in Nat
      /\ freeListRefs[b] \in [n : Int, should : BOOLEAN]
      /\ freeListRefs[b].n = Cardinality(Holders(b)) + Bit(fl[a].at \in {"push", "undo"})
  BY <1>0, <1>1, InAdd
<1>3. /\ freeListRefs'[b] = [freeListRefs[b] EXCEPT !.should = TRUE]
      /\ \A c \in Blocks \ {b} : freeListRefs'[c] = freeListRefs[c]
      /\ freeListHead' = freeListHead /\ freeListNext' = freeListNext
  BY <1>0, <1>2, RefTypes DEF Add, Refs
<1>4. freeListRefs'[b].should /\ freeListRefs'[b].n = freeListRefs[b].n
  BY <1>2, <1>3
<1>5. freeListRefs[b].n = Cardinality(Holders(b))
  BY <1>1, <1>2 DEF Bit
<1>6. CASE freeListRefs[b].n = 0
  <2> DEFINE r == [fl[a] EXCEPT !.at = "top"]
  <2>1. Go(a, r)
    BY <1>0, <1>6 DEF Add
  <2>2. r.at = "top" /\ r.node = b /\ r.getting = fl[a].getting
    BY <1>0, <1>2 DEF ListOK
  <2> HIDE DEF r
  <2>3. r.at \in Adding \ {"add"} /\ Bit(r.at \in {"push", "undo"}) = 0
        /\ r.at \notin {"count", "push"} /\ r.at \in {"top", "link", "count"}
    BY <2>2 DEF Adding, Bit
  <2>4. freeListRefs'[b].n = Cardinality(Holders(b)) + Bit(r.at \in {"push", "undo"})
    BY <1>2, <1>4, <1>5, <2>3
  <2>5. freeListRefs'[b].should <=> r.at \in {"top", "link", "count"}
    BY <1>4, <2>3
  <2>6. freeListRefs'[b].n = 0
    BY <1>4, <1>6
  <2>7. QED
    BY <1>0, <1>1, <1>3, <2>1, <2>2, <2>3, <2>4, <2>5, <2>6, AddingSame
<1>7. CASE freeListRefs[b].n # 0
  <2>1. Go(a, Added(fl[a]))
    BY <1>0, <1>7 DEF Add
  <2>2. QED
    BY <1>0, <1>1, <1>2, <1>3, <1>4, <1>5, <1>7, <2>1, Orphaned
<1>8. QED
  BY <1>6, <1>7

LEMMA LoadTopLists ==
  ASSUME Typed, NEW o, Lists(o), NEW a \in Actors, LoadTop(a), Still
  PROVE  \E q : Lists(q)'
<1>0. PICK b : b = fl[a].node
  OBVIOUS
<1> DEFINE r == [fl[a] EXCEPT !.at = "link", !.head = freeListHead]
<1>1. /\ fl[a].at = "top" /\ fl[a].at \in Adding /\ Go(a, r)
      /\ freeListRefs' = freeListRefs /\ freeListHead' = freeListHead
      /\ freeListNext' = freeListNext
  BY DEF LoadTop, At, Adding
<1>2. /\ b \in Blocks /\ ListOK(fl[a]) /\ SpotOf(a) /\ Cardinality(Holders(b)) \in Nat
      /\ freeListRefs[b].n = Cardinality(Holders(b)) + Bit(fl[a].at \in {"push", "undo"})
      /\ freeListRefs[b].should <=> fl[a].at \in {"top", "link", "count"}
  BY <1>0, <1>1, InAdd
<1>3. freeListRefs[b].n = 0 /\ freeListRefs[b].should
  BY <1>0, <1>1, <1>2 DEF SpotOf
<1>4. r.at = "link" /\ r.node = b /\ r.getting = fl[a].getting
  BY <1>0, <1>2 DEF ListOK
<1> HIDE DEF r
<1>5. /\ r.at \in Adding \ {"add"} /\ Bit(r.at \in {"push", "undo"}) = 0
      /\ Bit(fl[a].at \in {"push", "undo"}) = 0
      /\ r.at \notin {"count", "push"} /\ r.at \in {"top", "link", "count"}
  BY <1>1, <1>4 DEF Adding, Bit
<1>6. freeListRefs'[b].n = Cardinality(Holders(b)) + Bit(r.at \in {"push", "undo"})
  BY <1>1, <1>2, <1>3, <1>5
<1>7. QED
  BY <1>0, <1>1, <1>3, <1>4, <1>5, <1>6, AddingSame

LEMMA LinkLists ==
  ASSUME Typed, NEW o, Lists(o), NEW a \in Actors, Link(a), Still
  PROVE  \E q : Lists(q)'
<1>0. PICK b : b = fl[a].node
  OBVIOUS
<1> DEFINE r == [fl[a] EXCEPT !.at = "count"]
<1>1. /\ fl[a].at = "link" /\ fl[a].at \in Adding /\ Go(a, r)
      /\ freeListRefs' = freeListRefs /\ freeListHead' = freeListHead
  BY DEF Link, At, Adding
<1>2. /\ b \in Blocks /\ ListOK(fl[a]) /\ SpotOf(a) /\ Cardinality(Holders(b)) \in Nat
      /\ freeListRefs[b].n = Cardinality(Holders(b)) + Bit(fl[a].at \in {"push", "undo"})
      /\ freeListRefs[b].should <=> fl[a].at \in {"top", "link", "count"}
  BY <1>0, <1>1, InAdd
<1>3. freeListRefs[b].n = 0 /\ freeListRefs[b].should
  BY <1>0, <1>1, <1>2 DEF SpotOf
<1>4. r.at = "count" /\ r.node = b /\ r.getting = fl[a].getting /\ r.head = fl[a].head
  BY <1>0, <1>2 DEF ListOK
<1>5. /\ freeListNext'[b] = fl[a].head
      /\ \A c \in Blocks \ {b} : freeListNext'[c] = freeListNext[c]
  BY <1>0, <1>2, RefTypes DEF Link
<1> HIDE DEF r
<1>6. /\ r.at \in Adding \ {"add"} /\ Bit(r.at \in {"push", "undo"}) = 0
      /\ Bit(fl[a].at \in {"push", "undo"}) = 0
      /\ r.at \in {"top", "link", "count"}
  BY <1>1, <1>4 DEF Adding, Bit
<1>7. freeListRefs'[b].n = Cardinality(Holders(b)) + Bit(r.at \in {"push", "undo"})
  BY <1>1, <1>2, <1>3, <1>6
<1>8. QED
  BY <1>0, <1>1, <1>3, <1>4, <1>5, <1>6, <1>7, AddingSame

LEMMA CountListLists ==
  ASSUME Typed, NEW o, Lists(o), NEW a \in Actors, CountList(a), Still
  PROVE  \E q : Lists(q)'
<1>0. PICK b : b = fl[a].node
  OBVIOUS
<1> DEFINE r == [fl[a] EXCEPT !.at = "push"]
<1>1. /\ fl[a].at = "count" /\ fl[a].at \in Adding /\ Go(a, r)
      /\ freeListNext' = freeListNext /\ freeListHead' = freeListHead
  BY DEF CountList, At, Adding
<1>2. /\ b \in Blocks /\ ListOK(fl[a]) /\ SpotOf(a) /\ Cardinality(Holders(b)) \in Nat
      /\ freeListRefs[b].n = Cardinality(Holders(b)) + Bit(fl[a].at \in {"push", "undo"})
  BY <1>0, <1>1, InAdd
<1>3. freeListRefs[b].n = 0 /\ freeListNext[b] = fl[a].head
  BY <1>0, <1>1, <1>2 DEF SpotOf
<1>4. r.at = "push" /\ r.node = b /\ r.getting = fl[a].getting /\ r.head = fl[a].head
  BY <1>0, <1>2 DEF ListOK
<1>5. /\ freeListRefs'[b].n = 1 /\ ~freeListRefs'[b].should
      /\ \A c \in Blocks \ {b} : freeListRefs'[c] = freeListRefs[c]
  BY <1>0, <1>2, RefTypes DEF CountList, Refs
<1> HIDE DEF r
<1>6. /\ r.at \in Adding \ {"add"} /\ Bit(r.at \in {"push", "undo"}) = 1
      /\ Bit(fl[a].at \in {"push", "undo"}) = 0
      /\ r.at \notin {"top", "link", "count"}
  BY <1>1, <1>4 DEF Adding, Bit
<1>7. freeListRefs'[b].n = Cardinality(Holders(b)) + Bit(r.at \in {"push", "undo"})
  BY <1>2, <1>3, <1>5, <1>6
<1>8. QED
  BY <1>0, <1>1, <1>3, <1>4, <1>5, <1>6, <1>7, AddingSame

LEMMA UndoLists ==
  ASSUME Typed, NEW o, Lists(o), NEW a \in Actors, Undo(a), Still
  PROVE  \E q : Lists(q)'
<1>0. PICK b : b = fl[a].node
  OBVIOUS
<1>1. /\ fl[a].at = "undo" /\ fl[a].at \in Adding
      /\ freeListNext' = freeListNext /\ freeListHead' = freeListHead
  BY DEF Undo, At, Adding
<1>2. /\ b \in Blocks /\ ListOK(fl[a]) /\ SpotOf(a) /\ Cardinality(Holders(b)) \in Nat
      /\ freeListRefs[b].n = Cardinality(Holders(b)) + Bit(fl[a].at \in {"push", "undo"})
  BY <1>0, <1>1, InAdd
<1>3. freeListRefs[b].n = Cardinality(Holders(b)) + 1
  BY <1>1, <1>2 DEF Bit
<1>4. /\ freeListRefs'[b].n = freeListRefs[b].n - 1 /\ freeListRefs'[b].should
      /\ \A c \in Blocks \ {b} : freeListRefs'[c] = freeListRefs[c]
  BY <1>0, <1>2, RefTypes DEF Undo, Refs
<1>5. freeListRefs'[b].n = Cardinality(Holders(b))
  BY <1>2, <1>3, <1>4
<1>6. CASE freeListRefs[b].n = 1
  <2> DEFINE r == [fl[a] EXCEPT !.at = "link"]
  <2>1. Go(a, r)
    BY <1>0, <1>6 DEF Undo
  <2>2. r.at = "link" /\ r.node = b /\ r.getting = fl[a].getting
    BY <1>0, <1>2 DEF ListOK
  <2> HIDE DEF r
  <2>3. r.at \in Adding \ {"add"} /\ Bit(r.at \in {"push", "undo"}) = 0
        /\ r.at \notin {"count", "push"} /\ r.at \in {"top", "link", "count"}
    BY <2>2 DEF Adding, Bit
  <2>4. freeListRefs'[b].n = Cardinality(Holders(b)) + Bit(r.at \in {"push", "undo"})
        /\ freeListRefs'[b].n = 0
    BY <1>2, <1>3, <1>5, <1>6, <2>3
  <2>5. QED
    BY <1>0, <1>1, <1>4, <2>1, <2>2, <2>3, <2>4, AddingSame
<1>7. CASE freeListRefs[b].n # 1
  <2>1. Go(a, Added(fl[a]))
    BY <1>0, <1>7 DEF Undo
  <2>2. freeListRefs'[b].n > 0
    BY <1>2, <1>3, <1>5, <1>7
  <2>3. QED
    BY <1>0, <1>1, <1>4, <1>5, <2>1, <2>2, Orphaned
<1>8. QED
  BY <1>6, <1>7

LEMMA PushLists ==
  ASSUME Typed, NEW o, Lists(o), NEW a \in Actors, Push(a), Still
  PROVE  \E q : Lists(q)'
<1>0. PICK b : b = fl[a].node
  OBVIOUS
<1>1. /\ fl[a].at = "push" /\ fl[a].at \in Adding
      /\ freeListNext' = freeListNext /\ freeListRefs' = freeListRefs
  BY DEF Push, At, Adding
<1>2. /\ b \in Blocks /\ ListOK(fl[a]) /\ SpotOf(a) /\ Cardinality(Holders(b)) \in Nat
      /\ InHands(a, b) /\ \A c \in Blocks \ {b} : ~InHands(a, c)
      /\ o[b].kind = "hand" /\ o[b].by = a /\ Side(a, fl[a].getting)
      /\ freeListRefs[b].n = Cardinality(Holders(b)) + Bit(fl[a].at \in {"push", "undo"})
      /\ freeListRefs[b].should <=> fl[a].at \in {"top", "link", "count"}
      /\ \A c : a \notin Holders(c)
  BY <1>0, <1>1, InAdd
<1>3. /\ freeListRefs[b].n = Cardinality(Holders(b)) + 1 /\ ~freeListRefs[b].should
      /\ freeListNext[b] = fl[a].head
  BY <1>0, <1>1, <1>2 DEF Bit, SpotOf
<1>4. CASE freeListHead # fl[a].head
  <2> DEFINE r == [fl[a] EXCEPT !.at = "undo", !.head = freeListHead]
  <2>1. Go(a, r) /\ freeListHead' = freeListHead
    BY <1>4 DEF Push
  <2>2. r.at = "undo" /\ r.node = b /\ r.getting = fl[a].getting
    BY <1>0, <1>2 DEF ListOK
  <2> HIDE DEF r
  <2>3. r.at \in Adding \ {"add"} /\ Bit(r.at \in {"push", "undo"}) = 1
        /\ r.at \notin {"count", "push"} /\ r.at \notin {"top", "link", "count"}
    BY <2>2 DEF Adding, Bit
  <2>4. freeListRefs'[b].n = Cardinality(Holders(b)) + Bit(r.at \in {"push", "undo"})
    BY <1>1, <1>3, <2>3
  <2>5. QED
    BY <1>0, <1>1, <1>3, <2>1, <2>2, <2>3, <2>4, AddingSame
<1>5. CASE freeListHead = fl[a].head
  <2>1. Go(a, Added(fl[a])) /\ freeListHead' = b
    BY <1>0, <1>5 DEF Push
  <2>2. /\ SpotOf(a)' /\ Added(fl[a]).at \notin Holding
        /\ \A c \in Blocks : ~InHands(a, c)' /\ a \notin Holders(c)'
    BY <1>2, <2>1, AddedStep
  <2> DEFINE v == [kind |-> "list", by |-> a]
             q == Give(o, b, v)
  <2>3. DOMAIN q = Blocks /\ q[b] = v /\ v.kind = "list"
        /\ \A c \in Blocks \ {b} : q[c] = o[c]
    BY <1>2 DEF Lists, Give
  <2> HIDE DEF v
  <2>4. ListOf(o) /\ freeListHead \in BlockOrNull
    BY Placed DEF Typed, ListTypes
  <2>5. q = Give(o, b, v)
    OBVIOUS
  <2> HIDE DEF q
  <2>6. ListOf(q)'
    <3>1. ASSUME NEW c \in Blocks, q[c].kind = "list", freeListNext[c] \in Blocks
          PROVE  /\ q[freeListNext[c]].kind = "list" /\ freeListNext[c] # b
                 /\ \A d \in Blocks : q[d].kind = "list" /\ freeListNext[d] = freeListNext[c] =>
                      d = c
      <4>1. CASE c = b
        <5>1. freeListNext[c] = freeListHead /\ o[freeListHead].kind = "list"
          BY <1>3, <1>5, <2>4, <3>1, <4>1 DEF ListOf
        <5>2. \A d \in Blocks : o[d].kind = "list" => freeListNext[d] # freeListHead
          BY <2>4, <3>1, <5>1 DEF ListOf
        <5>3. QED
          BY <1>2, <2>3, <3>1, <4>1, <5>1, <5>2
      <4>2. CASE c # b
        <5>1. /\ o[c].kind = "list" /\ o[freeListNext[c]].kind = "list"
              /\ freeListNext[c] # freeListHead
              /\ \A d \in Blocks : o[d].kind = "list" /\ freeListNext[d] = freeListNext[c] =>
                      d = c
          BY <2>3, <2>4, <3>1, <4>2 DEF ListOf
        <5>2. freeListNext[c] # b
          BY <1>2, <5>1
        <5>3. \A d \in Blocks : q[d].kind = "list" /\ freeListNext[d] = freeListNext[c] =>
                d = c
          BY <1>3, <1>5, <2>3, <5>1
        <5>4. QED
          BY <2>3, <3>1, <5>1, <5>2, <5>3
      <4>3. QED
        BY <4>1, <4>2
    <3>2. QED
      BY <1>1, <2>1, <2>3, <3>1 DEF ListOf
  <2>7. RefsOf(q, b)'
    <3>1. Cardinality(Holders(b)') = Cardinality(Holders(b))
      BY <1>2, <2>1, <2>2, HoldersStep DEF Bit
    <3>2. QED
      BY <1>1, <1>2, <1>3, <2>3, <3>1 DEF RefsOf, Kept
  <2>8. \A c \in Blocks \ {b} :
           /\ freeListRefs'[c] = freeListRefs[c] /\ freeListNext'[c] = freeListNext[c]
           /\ ~InHands(a, c) /\ ~InHands(a, c)'
           /\ (a \in Holders(c)) <=> (a \in Holders(c)')
    BY <1>1, <1>2, <2>2
  <2>9. Lists(q)'
    BY <1>1, <1>2, <2>1, <2>2, <2>3, <2>5, <2>6, <2>7, <2>8, NodeStep DEF Still
  <2>10. QED
    BY <2>9
<1>6. QED
  BY <1>4, <1>5

(* Steps of try_get.                                                       *)
LEMMA InGet ==
  ASSUME Typed, NEW o, Lists(o), NEW a \in Actors, fl[a].at \in Getting
  PROVE  /\ ListOK(fl[a]) /\ SpotOf(a) /\ fl[a].node = Null /\ fl[a].getting
         /\ a \in Users /\ a \notin Workers /\ pc[a] = "list"
         /\ fl[a].at # "got" => \A c \in Blocks : ~InHands(a, c)
         /\ fl[a].at \notin {"load"} => fl[a].head \in Blocks
<1>1. ListOK(fl[a]) /\ SpotOf(a)
  BY Placed
<1>2. /\ fl[a].node = Null /\ a \in Users /\ pc[a] = "list" /\ fl[a].getting
  BY <1>1, UserQueueAssumption DEF SpotOf, Adding, At, Getting
<1>3. fl[a].at # "got" => \A c \in Blocks : ~InHands(a, c)
  BY <1>2 DEF Adding, At, InHands, Getting
<1>4. fl[a].at \notin {"load"} => fl[a].head \in Blocks
  BY <1>1 DEF ListOK, Getting
<1>5. QED
  BY <1>1, <1>2, <1>3, <1>4, UserQueueAssumption

LEMMA GettingSame ==
  ASSUME Typed, NEW o, Lists(o), NEW a \in Actors, NEW b \in Blocks, NEW r,
         fl[a].at \in Getting \ {"got"}, Go(a, r), Still,
         r.at \in {"idle", "load", "ref", "next", "pop", "drop"},
         r.node = Null, r.getting,
         freeListHead' = freeListHead, freeListNext' = freeListNext,
         \A c \in Blocks \ {b} :
           /\ freeListRefs'[c] = freeListRefs[c]
           /\ (r.at \in Holding /\ r.head = c) <=> (fl[a].at \in Holding /\ fl[a].head = c),
         freeListRefs'[b].n = freeListRefs[b].n + Bit(r.at \in Holding /\ r.head = b)
                                - Bit(fl[a].at \in Holding /\ fl[a].head = b),
         freeListRefs'[b].should <=> freeListRefs[b].should,
         freeListRefs'[b].n = freeListRefs[b].n \/ freeListRefs[b].n > 0,
         o[b].kind = "orphan" => freeListRefs'[b].n > 0,
         r.at = "pop" => r.next = freeListNext[r.head]
  PROVE  \E q : Lists(q)'
<1>1. /\ SpotOf(a) /\ a \in Users /\ a \notin Workers /\ pc[a] = "list"
      /\ \A c \in Blocks : ~InHands(a, c)
  BY InGet
<1>2. fl'[a] = r /\ pc'[a] = pc[a] /\ my'[a] = my[a]
      /\ \A x \in Actors \ {a} : fl'[x] = fl[x]
  BY RefTypes DEF Go, Still
<1>3. \A c \in Blocks : ~InHands(a, c)'
  BY <1>1, <1>2, NullIsNoUser DEF InHands, At, Adding
<1>4. SpotOf(a)'
  BY <1>1, <1>2 DEF SpotOf, At, Adding, Getting
<1>5. \A c : /\ a \in Holders(c) <=> (fl[a].at \in Holding /\ fl[a].head = c)
             /\ (a \in Holders(c)') <=> (r.at \in Holding /\ r.head = c)
  BY <1>2 DEF Holders
<1>6. \A q : DOMAIN q = Blocks /\ q[b] = o[b] => RefsOf(q, b)'
  <2>1. /\ Cardinality(Holders(b)) \in Nat /\ Cardinality(Holders(b)') \in Nat
        /\ Cardinality(Holders(b)') = Cardinality(Holders(b))
              + Bit(r.at \in Holding /\ r.head = b) - Bit(a \in Holders(b))
    BY HoldersStep
  <2>2. Bit(a \in Holders(b)) = Bit(fl[a].at \in Holding /\ fl[a].head = b)
    BY <1>5 DEF Bit
  <2>3. /\ Bit(r.at \in Holding /\ r.head = b) \in Int /\ Bit(a \in Holders(b)) \in Int
    BY DEF Bit
  <2>4. o[b].kind = "hand" => o[b].by \in Actors /\ o[b].by # a
    BY <1>1, Placed
  <2>5. ASSUME NEW q, DOMAIN q = Blocks, q[b] = o[b]
        PROVE  RefsOf(q, b)'
    <3>1. RefsOf(o, b)
      BY Placed
    <3>2. \A L : Kept(q, b, L)' <=> Kept(o, b, L)
      BY <1>2, <2>4, <2>5 DEF Kept
    <3>3. PICK k : k = IF o[b].kind = "list" \/ Kept(o, b, {"push", "undo", "got"})
                       THEN 1 ELSE 0
      OBVIOUS
    <3>4. freeListRefs[b].n = Cardinality(Holders(b)) + k /\ k \in Int
      BY <3>1, <3>3 DEF RefsOf
    <3>5. freeListRefs'[b].n = Cardinality(Holders(b)') + k
      BY <2>1, <2>2, <2>3, <3>4
    <3>6. QED
      BY <2>5, <3>1, <3>2, <3>3, <3>5 DEF RefsOf
  <2>6. QED
    BY <2>5
<1>7. /\ \A c \in Blocks \ {b} :
           /\ freeListRefs'[c] = freeListRefs[c] /\ freeListNext'[c] = freeListNext[c]
           /\ ~InHands(a, c) /\ ~InHands(a, c)'
           /\ (a \in Holders(c)) <=> (a \in Holders(c)')
      /\ InHands(a, b)' <=> InHands(a, b)
  BY <1>1, <1>3, <1>5
<1>8. QED
  BY <1>4, <1>6, <1>7, SameOwner

LEMMA SomeBlock == ASSUME Typed PROVE \E b \in Blocks : TRUE
<1>1. setup.blocks \in 1 .. Cardinality(Blocks)
  BY QueueAssumption DEF Typed, Shared
<1>2. Pool[1] \in Blocks
  BY <1>1, PoolOK
<1>3. QED
  BY <1>2

(* No counter is touched.                                                  *)
LEMMA GettingQuiet ==
  ASSUME Typed, NEW o, Lists(o), NEW a \in Actors, NEW r,
         fl[a].at \in Getting \ {"got"}, Go(a, r), Still,
         r.at \in {"idle", "load", "ref", "next", "pop", "drop"},
         r.node = Null, r.getting,
         freeListHead' = freeListHead, freeListNext' = freeListNext,
         freeListRefs' = freeListRefs,
         r.at \in Holding <=> fl[a].at \in Holding,
         r.at \in Holding => r.head = fl[a].head,
         r.at = "pop" => r.next = freeListNext[r.head]
  PROVE  \E q : Lists(q)'
<1>1. PICK b \in Blocks : TRUE
  BY SomeBlock
<1>2. \A c : (r.at \in Holding /\ r.head = c) <=> (fl[a].at \in Holding /\ fl[a].head = c)
  OBVIOUS
<1>3. Bit(r.at \in Holding /\ r.head = b) = Bit(fl[a].at \in Holding /\ fl[a].head = b)
      /\ Bit(r.at \in Holding /\ r.head = b) \in Int
  BY <1>2 DEF Bit
<1>4. freeListRefs[b].n \in Int /\ (o[b].kind = "orphan" => freeListRefs[b].n > 0)
  BY RefTypes, Placed DEF RefsOf
<1>5. freeListRefs'[b].n = freeListRefs[b].n + Bit(r.at \in Holding /\ r.head = b)
                                - Bit(fl[a].at \in Holding /\ fl[a].head = b)
  BY <1>3, <1>4
<1>6. QED
  BY <1>2, <1>4, <1>5, GettingSame

LEMMA LoadHeadLists ==
  ASSUME Typed, NEW o, Lists(o), NEW a \in Actors, LoadHead(a), Still
  PROVE  \E q : Lists(q)'
<1>1. PICK m \in {"idle", "ref"} :
        Go(a, [fl[a] EXCEPT !.at = m, !.head = freeListHead])
  <2> DEFINE n == IF freeListHead = Null THEN "idle" ELSE "ref"
  <2>1. Go(a, [fl[a] EXCEPT !.at = n, !.head = freeListHead]) /\ n \in {"idle", "ref"}
    BY DEF LoadHead
  <2>2. QED
    BY <2>1
<1>2. fl[a].at = "load" /\ fl[a].at \in Getting \ {"got"} /\ fl[a].at \notin Holding
      /\ freeListHead' = freeListHead /\ freeListNext' = freeListNext
      /\ freeListRefs' = freeListRefs
  BY DEF LoadHead, At, Getting, Holding
<1>3. ListOK(fl[a]) /\ fl[a].node = Null /\ fl[a].getting
  BY <1>2, InGet
<1> DEFINE r == [fl[a] EXCEPT !.at = m, !.head = freeListHead]
<1>4. r.at = m /\ r.node = Null /\ r.getting /\ m \notin Holding
  BY <1>3 DEF ListOK, Holding
<1>5. Go(a, r)
  BY <1>1
<1> HIDE DEF r
<1>6. r.at \in {"idle", "load", "ref", "next", "pop", "drop"} /\ r.at # "pop"
  BY <1>4
<1>7. QED
  BY <1>2, <1>4, <1>5, <1>6, GettingQuiet

LEMMA LoadNextLists ==
  ASSUME Typed, NEW o, Lists(o), NEW a \in Actors, LoadNext(a), Still
  PROVE  \E q : Lists(q)'
<1> DEFINE r == [fl[a] EXCEPT !.at = "pop", !.next = freeListNext[fl[a].head]]
<1>1. fl[a].at = "next" /\ fl[a].at \in Getting \ {"got"} /\ fl[a].at \in Holding
      /\ freeListHead' = freeListHead /\ freeListNext' = freeListNext
      /\ freeListRefs' = freeListRefs /\ Go(a, r)
  BY DEF LoadNext, At, Getting, Holding
<1>2. ListOK(fl[a]) /\ fl[a].node = Null /\ fl[a].getting
  BY <1>1, InGet
<1>3. r.at = "pop" /\ r.node = Null /\ r.getting /\ r.head = fl[a].head
      /\ r.next = freeListNext[r.head]
  BY <1>2 DEF ListOK
<1> HIDE DEF r
<1>4. r.at \in {"idle", "load", "ref", "next", "pop", "drop"} /\ r.at \in Holding
  BY <1>3 DEF Holding
<1>5. QED
  BY <1>1, <1>3, <1>4, GettingQuiet

LEMMA ReferenceLists ==
  ASSUME Typed, NEW o, Lists(o), NEW a \in Actors, Reference(a), Still
  PROVE  \E q : Lists(q)'
<1>0. PICK b : b = fl[a].head
  OBVIOUS
<1>1. fl[a].at = "ref" /\ fl[a].at \in Getting \ {"got"} /\ fl[a].at \notin Holding
      /\ freeListHead' = freeListHead /\ freeListNext' = freeListNext
  BY DEF Reference, At, Getting, Holding
<1>2. ListOK(fl[a]) /\ fl[a].node = Null /\ fl[a].getting /\ b \in Blocks
  BY <1>0, <1>1, InGet
<1>3. CASE freeListRefs' = freeListRefs /\ Go(a, [fl[a] EXCEPT !.at = "load"])
  <2> DEFINE r == [fl[a] EXCEPT !.at = "load"]
  <2>1. r.at = "load" /\ r.node = Null /\ r.getting
    BY <1>2 DEF ListOK
  <2>2. Go(a, r)
    BY <1>3
  <2> HIDE DEF r
  <2>3. r.at \in {"idle", "load", "ref", "next", "pop", "drop"} /\ r.at \notin Holding
        /\ r.at # "pop"
    BY <2>1 DEF Holding
  <2>4. QED
    BY <1>1, <1>3, <2>1, <2>2, <2>3, GettingQuiet
<1>4. CASE /\ freeListRefs[b].n > 0
           /\ Refs(b, [freeListRefs[b] EXCEPT !.n = @ + 1])
           /\ Go(a, [fl[a] EXCEPT !.at = "next"])
  <2> DEFINE r == [fl[a] EXCEPT !.at = "next"]
  <2>1. r.at = "next" /\ r.node = Null /\ r.getting /\ r.head = b
    BY <1>0, <1>2 DEF ListOK
  <2>2. Go(a, r)
    BY <1>4
  <2> HIDE DEF r
  <2>3. r.at \in {"idle", "load", "ref", "next", "pop", "drop"} /\ r.at \in Holding
        /\ r.at # "pop"
    BY <2>1 DEF Holding
  <2>4. /\ freeListRefs'[b].n = freeListRefs[b].n + 1 /\ freeListRefs[b].n \in Int
        /\ freeListRefs'[b].should <=> freeListRefs[b].should
        /\ \A c \in Blocks \ {b} : freeListRefs'[c] = freeListRefs[c]
    BY <1>2, <1>4, RefTypes DEF Refs
  <2>5. /\ Bit(r.at \in Holding /\ r.head = b) = 1
        /\ Bit(fl[a].at \in Holding /\ fl[a].head = b) = 0
    BY <1>1, <2>1, <2>3 DEF Bit
  <2>6. freeListRefs'[b].n = freeListRefs[b].n + Bit(r.at \in Holding /\ r.head = b)
                                - Bit(fl[a].at \in Holding /\ fl[a].head = b)
        /\ freeListRefs'[b].n > 0
    BY <1>4, <2>4, <2>5
  <2>7. \A c \in Blocks \ {b} :
          (r.at \in Holding /\ r.head = c) <=> (fl[a].at \in Holding /\ fl[a].head = c)
    BY <1>1, <2>1
  <2>8. QED
    BY <1>1, <1>2, <1>4, <2>1, <2>2, <2>3, <2>4, <2>6, <2>7, GettingSame
<1>5. QED
  BY <1>0, <1>3, <1>4 DEF Reference

LEMMA PopLists ==
  ASSUME Typed, NEW o, Lists(o), NEW a \in Actors, Pop(a), Still
  PROVE  \E q : Lists(q)'
<1>0. PICK b : b = fl[a].head
  OBVIOUS
<1>1. fl[a].at = "pop" /\ fl[a].at \in Getting \ {"got"} /\ fl[a].at \in Holding
      /\ freeListNext' = freeListNext /\ freeListRefs' = freeListRefs
  BY DEF Pop, At, Getting, Holding
<1>2. /\ ListOK(fl[a]) /\ fl[a].node = Null /\ fl[a].getting /\ b \in Blocks
      /\ SpotOf(a) /\ a \in Users /\ a \notin Workers /\ pc[a] = "list"
      /\ \A c \in Blocks : ~InHands(a, c)
  BY <1>0, <1>1, InGet
<1>3. fl[a].next = freeListNext[b]
  BY <1>0, <1>1, <1>2 DEF SpotOf, At
<1>4. CASE freeListHead # b
  <2> DEFINE r == [fl[a] EXCEPT !.at = "drop", !.next = freeListHead]
  <2>1. r.at = "drop" /\ r.node = Null /\ r.getting /\ r.head = b
    BY <1>0, <1>2 DEF ListOK
  <2>2. Go(a, r) /\ freeListHead' = freeListHead
    BY <1>0, <1>4 DEF Pop
  <2> HIDE DEF r
  <2>3. r.at \in {"idle", "load", "ref", "next", "pop", "drop"} /\ r.at \in Holding
        /\ r.at # "pop"
    BY <2>1 DEF Holding
  <2>4. QED
    BY <1>0, <1>1, <2>1, <2>2, <2>3, GettingQuiet
<1>5. CASE freeListHead = b
  <2> DEFINE r == [fl[a] EXCEPT !.at = "got"]
  <2>1. r.at = "got" /\ r.node = Null /\ r.getting /\ r.head = b
    BY <1>0, <1>2 DEF ListOK
  <2>2. Go(a, r) /\ freeListHead' = freeListNext[b]
    BY <1>0, <1>3, <1>5 DEF Pop
  <2> HIDE DEF r
  <2>3. fl'[a] = r /\ pc'[a] = pc[a] /\ my'[a] = my[a]
    BY <2>2, RefTypes DEF Go, Still
  <2>4. \A c \in Blocks : /\ InHands(a, c)' <=> c = b
                          /\ (a \in Holders(c)) <=> c = b
                          /\ (a \in Holders(c)') <=> c = b
    BY <1>0, <1>1, <1>2, <2>1, <2>3 DEF InHands, At, Adding, Holders, Holding
  <2>5. SpotOf(a)'
    BY <1>2, <2>1, <2>3 DEF SpotOf, At, Adding, Getting
  <2> DEFINE v == [kind |-> "hand", by |-> a]
             q == Give(o, b, v)
  <2>6. DOMAIN q = Blocks /\ q[b] = v /\ v.kind = "hand" /\ v.by = a
        /\ \A c \in Blocks \ {b} : q[c] = o[c]
    BY <1>2 DEF Lists, Give
  <2>7. q = Give(o, b, v)
    OBVIOUS
  <2> HIDE DEF v, q
  <2>8. /\ ListOf(o) /\ o[b].kind = "list" /\ RefsOf(o, b)
    BY <1>2, <1>5, Placed DEF ListOf
  <2>9. ListOf(q)'
    <3>1. freeListNext[b] \in Blocks => q[freeListNext[b]].kind = "list" /\ freeListNext[b] # b
      BY <1>2, <1>5, <2>6, <2>8 DEF ListOf
    <3>2. ASSUME NEW c \in Blocks, q[c].kind = "list", freeListNext[c] \in Blocks
          PROVE  /\ q[freeListNext[c]].kind = "list" /\ freeListNext[c] # freeListNext[b]
                 /\ \A d \in Blocks : q[d].kind = "list" /\ freeListNext[d] = freeListNext[c] =>
                      d = c
      <4>1. c # b /\ o[c] = q[c]
        BY <2>6, <3>2
      <4>2. /\ o[freeListNext[c]].kind = "list" /\ freeListNext[c] # b
            /\ \A d \in Blocks : o[d].kind = "list" /\ freeListNext[d] = freeListNext[c] =>
                      d = c
        BY <1>5, <2>8, <3>2, <4>1 DEF ListOf
      <4>3. freeListNext[c] # freeListNext[b]
        BY <1>2, <2>8, <4>1, <4>2
      <4>4. \A d \in Blocks : q[d].kind = "list" /\ freeListNext[d] = freeListNext[c] => d = c
        BY <2>6, <4>2
      <4>5. QED
        BY <2>6, <3>2, <4>2, <4>3, <4>4
    <3>3. QED
      BY <1>1, <2>2, <3>1, <3>2 DEF ListOf
  <2>10. RefsOf(q, b)'
    <3>1. /\ Cardinality(Holders(b)') = Cardinality(Holders(b))
          /\ Cardinality(Holders(b)) \in Nat
      BY <1>2, <2>1, <2>2, <2>4, HoldersStep DEF Bit, Holding
    <3>2. QED
      BY <1>1, <2>1, <2>3, <2>6, <2>8, <3>1 DEF RefsOf, Kept
  <2>11. \A c \in Blocks \ {b} :
           /\ freeListRefs'[c] = freeListRefs[c] /\ freeListNext'[c] = freeListNext[c]
           /\ ~InHands(a, c) /\ ~InHands(a, c)'
           /\ (a \in Holders(c)) <=> (a \in Holders(c)')
    BY <1>1, <1>2, <2>4
  <2>12. Lists(q)'
    BY <1>1, <1>2, <2>2, <2>4, <2>5, <2>6, <2>7, <2>8, <2>9, <2>10, <2>11, NodeStep DEF Still
  <2>13. QED
    BY <2>12
<1>6. QED
  BY <1>4, <1>5

LEMMA GetLists ==
  ASSUME Typed, NEW o, Lists(o), NEW a \in Actors, Get(a), Still
  PROVE  \E q : Lists(q)'
<1>0. PICK b : b = fl[a].head
  OBVIOUS
<1> DEFINE r == [Idle EXCEPT !.node = b]
<1>1. fl[a].at = "got" /\ fl[a].at \in Getting /\ fl[a].at \in Holding
      /\ freeListNext' = freeListNext /\ freeListHead' = freeListHead /\ Go(a, r)
  BY <1>0 DEF Get, At, Getting, Holding
<1>2. /\ ListOK(fl[a]) /\ fl[a].node = Null /\ b \in Blocks
      /\ a \in Users /\ a \notin Workers /\ pc[a] = "list"
  BY <1>0, <1>1, InGet
<1>3. r.at = "idle" /\ r.node = b /\ r.head = Null
  BY DEF Idle
<1> HIDE DEF r
<1>4. fl'[a] = r /\ pc'[a] = pc[a] /\ my'[a] = my[a]
  BY <1>1, RefTypes DEF Go, Still
<1>5. \A c \in Blocks : /\ InHands(a, c) <=> c = b
                        /\ InHands(a, c)' <=> c = b
                        /\ (a \in Holders(c)) <=> c = b
                        /\ a \notin Holders(c)'
  BY <1>0, <1>1, <1>2, <1>3, <1>4 DEF InHands, At, Adding, Holders, Holding
<1>6. SpotOf(a)'
  BY <1>2, <1>3, <1>4 DEF SpotOf, At, Adding, Getting
<1>7. o[b].kind = "hand" /\ o[b].by = a /\ RefsOf(o, b)
  BY <1>2, <1>5, Placed
<1>8. /\ freeListRefs'[b].n = freeListRefs[b].n - 2 /\ freeListRefs[b].n \in Int
      /\ freeListRefs'[b].should <=> freeListRefs[b].should
      /\ \A c \in Blocks \ {b} : freeListRefs'[c] = freeListRefs[c]
  BY <1>0, <1>2, RefTypes DEF Get, Refs
<1>9. \A q : DOMAIN q = Blocks /\ q[b] = o[b] => RefsOf(q, b)'
  <2>1. /\ Cardinality(Holders(b)') = Cardinality(Holders(b)) - 1
        /\ Cardinality(Holders(b)) \in Nat
    BY <1>1, <1>2, <1>3, <1>5, HoldersStep DEF Bit, Holding
  <2>2. freeListRefs[b].n = Cardinality(Holders(b)) + 1 /\ ~freeListRefs[b].should
    BY <1>1, <1>7 DEF RefsOf, Kept
  <2>3. freeListRefs'[b].n = Cardinality(Holders(b)') + 0 /\ ~freeListRefs'[b].should
    BY <1>8, <2>1, <2>2
  <2>4. QED
    BY <1>3, <1>4, <1>7, <2>3 DEF RefsOf, Kept
<1>10. /\ \A c \in Blocks \ {b} :
           /\ freeListRefs'[c] = freeListRefs[c] /\ freeListNext'[c] = freeListNext[c]
           /\ ~InHands(a, c) /\ ~InHands(a, c)'
           /\ (a \in Holders(c)) <=> (a \in Holders(c)')
       /\ (InHands(a, b)' <=> InHands(a, b)) /\ InHands(a, b)
  BY <1>1, <1>2, <1>5, <1>8
<1>11. QED
  BY <1>1, <1>2, <1>6, <1>9, <1>10, SameOwner

LEMMA DropLists ==
  ASSUME Typed, NEW o, Lists(o), NEW a \in Actors, Drop(a), Still
  PROVE  \E q : Lists(q)'
<1>0. PICK b : b = fl[a].head
  OBVIOUS
<1> DEFINE s == [fl[a] EXCEPT !.node = b]
<1>1. fl[a].at = "drop" /\ fl[a].at \in Getting \ {"got"} /\ fl[a].at \in Holding
      /\ freeListNext' = freeListNext /\ freeListHead' = freeListHead
  BY DEF Drop, At, Getting, Holding
<1>2. /\ ListOK(fl[a]) /\ fl[a].node = Null /\ fl[a].getting /\ b \in Blocks
      /\ SpotOf(a) /\ a \in Users /\ a \notin Workers /\ pc[a] = "list"
      /\ \A c \in Blocks : ~InHands(a, c)
  BY <1>0, <1>1, InGet
<1>3. /\ freeListRefs'[b].n = freeListRefs[b].n - 1 /\ freeListRefs[b].n \in Int
      /\ freeListRefs'[b].should <=> freeListRefs[b].should
      /\ \A c \in Blocks \ {b} : freeListRefs'[c] = freeListRefs[c]
      /\ freeListRefs[b] \in [n : Int, should : BOOLEAN]
  BY <1>0, <1>2, RefTypes DEF Drop, Refs
<1>4. a \in Holders(b) /\ Cardinality(Holders(b)) \in Nat /\ Cardinality(Holders(b)) >= 1
      /\ \A c : a \in Holders(c) => c = b
  <2>1. a \in Holders(b) /\ \A c : a \in Holders(c) => c = b
    BY <1>0, <1>1 DEF Holders
  <2>2. QED
    BY <2>1, HoldersFinite
<1>5. RefsOf(o, b)
  BY <1>2, Placed
<1>6. CASE freeListRefs[b] = [n |-> 1, should |-> TRUE]
  <2> DEFINE r == [s EXCEPT !.at = "top"]
  <2>1. Go(a, r)
    BY <1>0, <1>6 DEF Drop
  <2>2. r.at = "top" /\ r.node = b /\ r.getting
    BY <1>2 DEF ListOK
  <2> HIDE DEF r
  <2>3. fl'[a] = r /\ pc'[a] = pc[a] /\ my'[a] = my[a]
    BY <2>1, RefTypes DEF Go, Still
  <2>4. freeListRefs[b].n = 1 /\ freeListRefs[b].should
    BY <1>6
  <2>5. o[b].kind = "orphan" /\ Cardinality(Holders(b)) = 1
    <3>1. ~Kept(o, b, {"top", "link", "count"})
      <4>1. SUFFICES ASSUME Kept(o, b, {"top", "link", "count"}) PROVE FALSE
        OBVIOUS
      <4>2. PICK x \in Actors : x = o[b].by /\ InHands(x, b) /\ fl[x].at \in {"top", "link", "count"}
        BY <1>2, <4>1, Placed DEF Kept
      <4>3. SpotOf(x) /\ fl[x].node = b
        BY <1>2, <4>2, Placed, UserQueueAssumption DEF InHands, At, SpotOf
      <4>4. QED
        BY <2>4, <4>2, <4>3 DEF SpotOf
    <3>2. QED
      BY <1>4, <1>5, <2>4, <3>1 DEF RefsOf
  <2>6. \A c \in Blocks : /\ InHands(a, c)' <=> c = b
                          /\ (a \in Holders(c)) <=> c = b
                          /\ a \notin Holders(c)'
    BY <1>2, <1>4, <2>2, <2>3 DEF InHands, At, Adding, Holders, Holding
  <2>7. freeListRefs'[b].n = 0 /\ freeListRefs'[b].should
    BY <1>3, <2>4
  <2>8. SpotOf(a)'
    BY <1>2, <2>2, <2>3, <2>7 DEF SpotOf, At, Adding, Getting
  <2> DEFINE v == [kind |-> "hand", by |-> a]
             q == Give(o, b, v)
  <2>9. DOMAIN q = Blocks /\ q[b] = v /\ v.kind = "hand" /\ v.by = a
    BY <1>2 DEF Lists, Give
  <2>10. q = Give(o, b, v)
    OBVIOUS
  <2> HIDE DEF v, q
  <2>11. ListOf(q)'
    BY <1>1, <1>2, <2>5, <2>9, <2>10, ListOfFrame
  <2>12. RefsOf(q, b)'
    <3>1. /\ Cardinality(Holders(b)') = 0
      BY <1>2, <1>4, <2>1, <2>2, <2>5, HoldersStep DEF Bit, Holding
    <3>2. QED
      BY <2>2, <2>3, <2>7, <2>9, <3>1 DEF RefsOf, Kept
  <2>13. \A c \in Blocks \ {b} :
           /\ freeListRefs'[c] = freeListRefs[c] /\ freeListNext'[c] = freeListNext[c]
           /\ ~InHands(a, c) /\ ~InHands(a, c)'
           /\ (a \in Holders(c)) <=> (a \in Holders(c)')
    BY <1>1, <1>2, <1>3, <2>6
  <2>14. Lists(q)'
    BY <1>1, <1>2, <2>1, <2>4, <2>5, <2>6, <2>8, <2>9, <2>10, <2>11, <2>12, <2>13, NodeStep DEF Still
  <2>15. QED
    BY <2>14
<1>7. CASE freeListRefs[b] # [n |-> 1, should |-> TRUE]
  <2> DEFINE r == Added(s)
  <2>1. Go(a, r)
    BY <1>0, <1>7 DEF Drop
  <2>2. s.getting /\ ListOK(s) /\ s.next \in BlockOrNull
    BY <1>2 DEF ListOK, BlockOrNull
  <2>3. r.at \in {"idle", "ref"} /\ r.node = Null /\ r.getting
    BY <2>2 DEF Added, ListOK
  <2> HIDE DEF r
  <2>4. r.at \in {"idle", "load", "ref", "next", "pop", "drop"} /\ r.at \notin Holding
        /\ r.at # "pop"
    BY <2>3 DEF Holding
  <2>5. /\ Bit(r.at \in Holding /\ r.head = b) = 0
        /\ Bit(fl[a].at \in Holding /\ fl[a].head = b) = 1
    BY <1>0, <1>1, <2>4 DEF Bit
  <2>6. freeListRefs'[b].n = freeListRefs[b].n + Bit(r.at \in Holding /\ r.head = b)
                                - Bit(fl[a].at \in Holding /\ fl[a].head = b)
    BY <1>3, <2>5
  <2>7. freeListRefs[b].n > 0
    BY <1>3, <1>4, <1>5 DEF RefsOf
  <2>8. ~(freeListRefs[b].n = 1 /\ freeListRefs[b].should)
    BY <1>3, <1>7
  <2>9. o[b].kind = "orphan" => freeListRefs'[b].n > 0
    BY <1>3, <1>5, <2>7, <2>8 DEF RefsOf
  <2>10. \A c \in Blocks \ {b} :
          (r.at \in Holding /\ r.head = c) <=> (fl[a].at \in Holding /\ fl[a].head = c)
    BY <1>0, <2>4
  <2>11. QED
    BY <1>1, <1>2, <1>3, <2>1, <2>3, <2>4, <2>6, <2>7, <2>9, <2>10, GettingSame
<1>8. QED
  BY <1>6, <1>7

(* A step of a thread outside the list, that takes a block from its owner  *)
(* or gives it to one, or does neither.                                    *)
Moved(o, a, b, v) ==
  \/ v = o[b]
  \/ /\ o[b].kind \in {"pool", "hand", "entry"} /\ v.kind \in {"hand", "entry"}
     /\ o[b].kind = "hand" => o[b].by = a
     /\ v.kind = "hand" => v.by = a /\ InHands(a, b)'

LEMMA MoveStep ==
  ASSUME Typed, NEW o, Lists(o), NEW a \in Actors, NEW b \in Blocks, NEW v, NEW q,
         q = Give(o, b, v), Moved(o, a, b, v),
         UNCHANGED <<freeListRefs, freeListNext, freeListHead>>,
         \A x \in Actors \ {a} : fl'[x] = fl[x] /\ pc'[x] = pc[x] /\ my'[x] = my[x],
         fl[a].at = "idle", fl'[a].at \in {"idle", "load", "add"},
         \A n \in 1 .. Cardinality(Blocks) : n > initialBlockPoolIndex' =>
           n > initialBlockPoolIndex /\ (Pool[n] # b \/ v = o[b]),
         \A x \in UsedEntries' :
           \/ /\ x \in UsedEntries /\ BlockIn(x)' = BlockIn(x)
              /\ BlockIn(x) # b \/ v = o[b]
           \/ BlockIn(x)' = b /\ v.kind = "entry" /\ v.by = x,
         \A c \in Blocks : c # b \/ v = o[b] => (InHands(a, c)' <=> InHands(a, c)),
         InHands(a, b)' => v.kind = "hand" /\ v.by = a,
         SpotOf(a)'
  PROVE  Lists(q)'
<1>1. /\ DOMAIN o = Blocks /\ DOMAIN q = Blocks /\ q[b] = v
      /\ \A c \in Blocks \ {b} : q[c] = o[c]
  BY DEF Lists, Give
<1>2. OwnPool(q)'
  <2>1. ASSUME NEW n \in 1 .. Cardinality(Blocks), n > initialBlockPoolIndex'
        PROVE  q[Pool[n]].kind = "pool"
    <3>1. Pool[n] \in Blocks
      BY PoolOK
    <3>2. o[Pool[n]].kind = "pool"
      BY <2>1 DEF Lists, OwnPool
    <3>3. QED
      BY <1>1, <2>1, <3>1, <3>2
  <2>2. QED
    BY <2>1 DEF OwnPool
<1>3. OwnHand(q)'
  <2>1. \A x \in Actors \ {a}, c \in Blocks : InHands(x, c)' <=> InHands(x, c)
    BY DEF InHands, At
  <2>2. ASSUME NEW x \in Actors, NEW c \in Blocks, InHands(x, c)'
        PROVE  q[c].kind = "hand" /\ q[c].by = x
    <3>1. CASE c # b
      <4>1. InHands(x, c)
        BY <2>1, <2>2, <3>1
      <4>2. QED
        BY <1>1, <3>1, <4>1, Placed
    <3>2. CASE c = b /\ x = a
      BY <1>1, <2>2, <3>2
    <3>3. CASE c = b /\ x # a
      <4>1. o[b].kind = "hand" /\ o[b].by = x
        BY <2>1, <2>2, <3>3, Placed
      <4>2. v = o[b]
        BY <3>3, <4>1 DEF Moved
      <4>3. QED
        BY <1>1, <3>3, <4>1, <4>2
    <3>4. QED
      BY <3>1, <3>2, <3>3
  <2>3. ASSUME NEW c \in Blocks, q[c].kind = "hand"
        PROVE  q[c].by \in Actors /\ InHands(q[c].by, c)'
    <3>1. CASE c # b \/ v = o[b]
      <4>1. q[c] = o[c] /\ o[c].by \in Actors /\ InHands(o[c].by, c)
        BY <1>1, <2>3, <3>1, Placed
      <4>2. QED
        BY <2>1, <3>1, <4>1
    <3>2. CASE c = b /\ v # o[b]
      BY <1>1, <2>3, <3>2 DEF Moved
    <3>3. QED
      BY <3>1, <3>2
  <2>4. QED
    BY <2>2, <2>3 DEF OwnHand
<1>4. OwnEntry(q)'
  <2>1. ASSUME NEW x \in UsedEntries'
        PROVE  q[BlockIn(x)'].kind = "entry" /\ q[BlockIn(x)'].by = x
    <3>1. CASE BlockIn(x)' = b /\ v.kind = "entry" /\ v.by = x
      BY <1>1, <3>1
    <3>2. CASE x \in UsedEntries /\ BlockIn(x)' = BlockIn(x) /\ (BlockIn(x) # b \/ v = o[b])
      <4>1. BlockIn(x) \in Blocks
        BY <3>2, UsedBlock
      <4>2. o[BlockIn(x)].kind = "entry" /\ o[BlockIn(x)].by = x
        BY <3>2 DEF Lists, OwnEntry
      <4>3. QED
        BY <1>1, <3>2, <4>1, <4>2
    <3>3. QED
      BY <2>1, <3>1, <3>2
  <2>2. QED
    BY <2>1 DEF OwnEntry
<1>5. \A c : Holders(c)' = Holders(c)
  BY DEF Holders, Holding
<1>6. ASSUME NEW c \in Blocks PROVE RefsOf(q, c)'
  <2>1. RefsOf(o, c) /\ (o[c].kind = "hand" => o[c].by \in Actors)
    BY Placed
  <2> DEFINE L1 == {"push", "undo", "got"}
             L2 == {"top", "link", "count"}
  <2>2. CASE c # b \/ v = o[b]
    <3>1. q[c] = o[c]
      BY <1>1, <2>2
    <3>2. (Kept(q, c, L1)' <=> Kept(o, c, L1)) /\ (Kept(q, c, L2)' <=> Kept(o, c, L2))
      BY <2>1, <3>1 DEF Kept
    <3>3. QED
      BY <1>5, <2>1, <3>1, <3>2 DEF RefsOf
  <2>3. CASE c = b /\ v # o[b]
    <3>1. ~Kept(o, c, L1) /\ ~Kept(o, c, L2) /\ ~Kept(q, c, L1)' /\ ~Kept(q, c, L2)'
      BY <1>1, <2>3 DEF Kept, Moved
    <3>2. o[c].kind \notin {"list", "orphan"} /\ q[c].kind \notin {"list", "orphan"}
      BY <1>1, <2>3 DEF Moved
    <3>3. QED
      BY <1>5, <2>1, <3>1, <3>2 DEF RefsOf
  <2>4. QED
    BY <2>2, <2>3
<1>7. ListOf(q)'
  <2>1. \A c \in Blocks : q[c].kind = "list" <=> o[c].kind = "list"
    BY <1>1 DEF Moved
  <2>2. ListOf(o)
    BY Placed
  <2>3. QED
    BY <1>1, <2>1, <2>2 DEF ListOf
<1>8. ASSUME NEW x \in Actors PROVE SpotOf(x)'
  <2>1. CASE x # a
    <3>1. SpotOf(x)
      BY Placed
    <3>2. QED
      BY <2>1, <3>1 DEF SpotOf, At
  <2>2. QED
    BY <2>1
<1>9. QED
  BY <1>1, <1>2, <1>3, <1>4, <1>6, <1>7, <1>8 DEF Lists

SetValue(p, e, x) == blockIndex' = [blockIndex EXCEPT ![p][e].value = x]
SetKey(p, e, x) == blockIndex' = [blockIndex EXCEPT ![p][e].key = x]

LEMMA IndexValue ==
  ASSUME Typed, NEW p \in Producers, NEW e \in Entries, NEW x, SetValue(p, e, x)
  PROVE  \A q \in Producers, f \in Entries :
           /\ blockIndex'[q][f].key = blockIndex[q][f].key
           /\ blockIndex'[q][f].value = IF q = p /\ f = e THEN x ELSE blockIndex[q][f].value
<1>1. blockIndex \in [Producers -> [Entries -> [key : Nat, value : BlockOrNull]]]
  BY DEF Typed, Shared
<1>2. blockIndex' = [blockIndex EXCEPT ![p] =
                       [blockIndex[p] EXCEPT ![e] = [blockIndex[p][e] EXCEPT !.value = x]]]
  BY DEF SetValue
<1>3. /\ blockIndex[p] \in [Entries -> [key : Nat, value : BlockOrNull]]
      /\ blockIndex[p][e] \in [key : Nat, value : BlockOrNull]
  BY <1>1
<1>4. \A q \in Producers \ {p} : blockIndex'[q] = blockIndex[q]
  BY <1>1, <1>2
<1>5. blockIndex'[p] = [blockIndex[p] EXCEPT ![e] = [blockIndex[p][e] EXCEPT !.value = x]]
  BY <1>1, <1>2
<1>6. QED
  BY <1>3, <1>4, <1>5

LEMMA IndexKey ==
  ASSUME Typed, NEW p \in Producers, NEW e \in Entries, NEW x, SetKey(p, e, x)
  PROVE  \A q \in Producers, f \in Entries :
           /\ blockIndex'[q][f].value = blockIndex[q][f].value
           /\ blockIndex'[q][f].key = IF q = p /\ f = e THEN x ELSE blockIndex[q][f].key
<1>1. blockIndex \in [Producers -> [Entries -> [key : Nat, value : BlockOrNull]]]
  BY DEF Typed, Shared
<1>2. blockIndex' = [blockIndex EXCEPT ![p] =
                       [blockIndex[p] EXCEPT ![e] = [blockIndex[p][e] EXCEPT !.key = x]]]
  BY DEF SetKey
<1>3. /\ blockIndex[p] \in [Entries -> [key : Nat, value : BlockOrNull]]
      /\ blockIndex[p][e] \in [key : Nat, value : BlockOrNull]
  BY <1>1
<1>4. \A q \in Producers \ {p} : blockIndex'[q] = blockIndex[q]
  BY <1>1, <1>2
<1>5. blockIndex'[p] = [blockIndex[p] EXCEPT ![e] = [blockIndex[p][e] EXCEPT !.key = x]]
  BY <1>1, <1>2
<1>6. QED
  BY <1>3, <1>4, <1>5

(* A step that moves no block.                                             *)
LEMMA QuietMove ==
  ASSUME Typed, NEW o, Lists(o), NEW a \in Actors, setup' = setup,
         UNCHANGED <<freeListRefs, freeListNext, freeListHead>>,
         \A x \in Actors \ {a} : fl'[x] = fl[x] /\ pc'[x] = pc[x] /\ my'[x] = my[x],
         fl[a].at = "idle", fl'[a].at \in {"idle", "load", "add"},
         initialBlockPoolIndex' \in Nat, initialBlockPoolIndex' >= initialBlockPoolIndex,
         \A p \in Producers, e \in Entries :
           blockIndex'[p][e].value \in {blockIndex[p][e].value, Null},
         \A c \in Blocks : InHands(a, c)' <=> InHands(a, c),
         SpotOf(a)'
  PROVE  \E q : Lists(q)'
<1>1. PICK b \in Blocks : TRUE
  BY SomeBlock
<1> DEFINE q == Give(o, b, o[b])
<1>2. Moved(o, a, b, o[b]) /\ q = Give(o, b, o[b])
  BY DEF Moved
<1> HIDE DEF q
<1>3. \A n \in 1 .. Cardinality(Blocks) : n > initialBlockPoolIndex' =>
           n > initialBlockPoolIndex
  BY PoolOK DEF Typed, Shared
<1>4. ASSUME NEW x \in UsedEntries'
      PROVE  x \in UsedEntries /\ BlockIn(x)' = BlockIn(x)
  <2>1. PICK p \in Producers, e \in Entries : x = <<p, e>>
    BY DEF UsedEntries, Entries
  <2>2. blockIndex'[p][e].value # Null
    BY <2>1 DEF UsedEntries, BlockIn
  <2>3. blockIndex'[p][e].value = blockIndex[p][e].value
    BY <2>2
  <2>4. QED
    BY <2>1, <2>2, <2>3 DEF UsedEntries, BlockIn, Entries
<1>5. InHands(a, b)' => o[b].kind = "hand" /\ o[b].by = a
  BY Placed
<1>6. Lists(q)'
  BY <1>2, <1>3, <1>4, <1>5, MoveStep
<1>7. QED
  BY <1>6

LEMMA QuietStep ==
  ASSUME Typed, NEW o, Lists(o), NEW a \in Actors, NEW l, NEW m, NEW r, Step(a, l, m, r),
         setup' = setup, UNCHANGED <<free_vars, initialBlockPoolIndex>>,
         At(a, "idle"), l # "fresh", l = "list" => fl[a].node = Null,
         m \notin {"fresh", "list"},
         \A p \in Producers, e \in Entries :
           blockIndex'[p][e].value \in {blockIndex[p][e].value, Null}
  PROVE  \E q : Lists(q)'
<1>1. /\ pc[a] = l /\ pc'[a] = m
      /\ \A x \in Actors \ {a} : fl'[x] = fl[x] /\ pc'[x] = pc[x] /\ my'[x] = my[x]
      /\ fl'[a] = fl[a] /\ fl[a].at = "idle"
  BY StepEffect DEF Typed, free_vars, At
<1>2. \A c \in Blocks : ~InHands(a, c) /\ ~InHands(a, c)'
  BY <1>1, NullIsNoUser DEF InHands, At, Adding
<1>3. SpotOf(a)'
  BY <1>1 DEF SpotOf, At, Adding, Getting
<1>4. initialBlockPoolIndex' \in Nat /\ initialBlockPoolIndex' >= initialBlockPoolIndex
  BY DEF Typed, Shared
<1>5. UNCHANGED <<freeListRefs, freeListNext, freeListHead>>
  BY DEF free_vars
<1>6. QED
  BY <1>1, <1>2, <1>3, <1>4, <1>5, QuietMove

LEMMA StartGetLists ==
  ASSUME Typed, NEW o, Lists(o), NEW u \in Users, NEW l \in {"pool", "claim"},
         Step(u, l, "list", my[u]), StartGet(u), setup' = setup,
         UNCHANGED <<freeListRefs, freeListNext, freeListHead, blockIndex>>,
         initialBlockPoolIndex' \in Nat, initialBlockPoolIndex' >= initialBlockPoolIndex
  PROVE  \E q : Lists(q)'
<1> USE NullIsNoUser
<1> DEFINE r == [Idle EXCEPT !.at = "load", !.getting = TRUE]
<1>1. r.at = "load" /\ r.getting /\ r.node = Null
  BY DEF Idle
<1>2. Go(u, r)
  BY DEF StartGet
<1> HIDE DEF r
<1>3. fl'[u] = r /\ \A x \in Actors \ {u} : fl'[x] = fl[x]
  BY <1>2, RefTypes DEF Go
<1>4. /\ pc[u] = l /\ pc'[u] = "list"
      /\ \A x \in Actors \ {u} : pc'[x] = pc[x] /\ my'[x] = my[x]
  BY StepEffect DEF Typed
<1>5. fl[u].at = "idle"
  BY <1>4, Placed DEF SpotOf, At
<1>6. \A c \in Blocks : ~InHands(u, c) /\ ~InHands(u, c)'
  BY <1>1, <1>3, <1>4, <1>5 DEF InHands, At, Adding
<1>7. SpotOf(u)'
  BY <1>1, <1>3, <1>4, UserQueueAssumption DEF SpotOf, At, Adding, Getting
<1>8. QED
  BY <1>1, <1>3, <1>4, <1>5, <1>6, <1>7, QuietMove

LEMMA LoadPoolLists ==
  ASSUME Typed, NEW o, Lists(o), NEW u \in Users, LoadPool(u), setup' = setup
  PROVE  \E q : Lists(q)'
<1> USE NullIsNoUser
<1>1. /\ UNCHANGED <<freeListRefs, freeListNext, freeListHead, blockIndex,
                     initialBlockPoolIndex>>
      /\ initialBlockPoolIndex' \in Nat /\ initialBlockPoolIndex' >= initialBlockPoolIndex
  BY DEF LoadPool, index_vars, block_vars, Typed, Shared
<1>2. CASE Step(u, "pool", "claim", my[u]) /\ UNCHANGED fl
  <2>1. pc[u] = "pool" /\ At(u, "idle")
    BY <1>2, StepEffect, Placed DEF SpotOf, Typed
  <2>2. UNCHANGED <<free_vars, initialBlockPoolIndex>>
    BY <1>1, <1>2 DEF free_vars
  <2>3. QED
    BY <1>1, <1>2, <2>1, <2>2, QuietStep
<1>3. CASE Step(u, "pool", "list", my[u]) /\ StartGet(u)
  BY <1>1, <1>3, StartGetLists
<1>4. QED
  BY <1>2, <1>3 DEF LoadPool

LEMMA ClaimPoolLists ==
  ASSUME Typed, NEW o, Lists(o), NEW u \in Users, ClaimPool(u), setup' = setup
  PROVE  \E q : Lists(q)'
<1> USE NullIsNoUser
<1>1. /\ UNCHANGED <<freeListRefs, freeListNext, freeListHead, blockIndex>>
      /\ initialBlockPoolIndex' = initialBlockPoolIndex + 1 /\ initialBlockPoolIndex \in Nat
  BY DEF ClaimPool, index_vars, Typed, Shared
<1>2. CASE Step(u, "claim", "list", my[u]) /\ StartGet(u)
  BY <1>1, <1>2, StartGetLists
<1>3. CASE /\ initialBlockPoolIndex < setup.blocks /\ UNCHANGED fl
           /\ Step(u, "claim", "fresh",
                   [my[u] EXCEPT !.block = Pool[initialBlockPoolIndex + 1]])
  <2>0. PICK i \in 1 .. Cardinality(Blocks) : i = initialBlockPoolIndex + 1
    BY <1>1, <1>3, PoolOK, EntriesOK DEF Typed
  <2> DEFINE b == Pool[i]
             s == [my[u] EXCEPT !.block = b]
             v == [kind |-> "hand", by |-> u]
             q == Give(o, b, v)
  <2>1. b \in Blocks /\ \A n \in 1 .. Cardinality(Blocks) : n # i => Pool[n] # b
    BY PoolOK
  <2>2. Step(u, "claim", "fresh", s)
    BY <1>3, <2>0
  <2>3. s.block = b
    BY DEF Typed, Control, LocalOK, LocalNames
  <2>4. q = Give(o, b, v) /\ v.kind = "hand" /\ v.by = u
    OBVIOUS
  <2> HIDE DEF b, s, v, q
  <2>5. /\ pc[u] = "claim" /\ pc'[u] = "fresh" /\ my'[u] = s
        /\ \A x \in Actors \ {u} : fl'[x] = fl[x] /\ pc'[x] = pc[x] /\ my'[x] = my[x]
        /\ fl' = fl
    BY <1>3, <2>2, StepEffect DEF Typed
  <2>6. fl[u].at = "idle"
    BY <2>5, Placed DEF SpotOf, At
  <2>7. \A c \in Blocks : ~InHands(u, c) /\ (InHands(u, c)' <=> c = b)
    BY <2>3, <2>5, <2>6 DEF InHands, At, Adding
  <2>8. SpotOf(u)'
    BY <2>1, <2>3, <2>5, <2>6, UserQueueAssumption DEF SpotOf, At, Adding, Getting
  <2>9. o[b].kind = "pool"
    BY <1>1, <2>0 DEF Lists, OwnPool, b
  <2>10. Moved(o, u, b, v)
    BY <2>1, <2>4, <2>7, <2>9 DEF Moved
  <2>11. \A n \in 1 .. Cardinality(Blocks) : n > initialBlockPoolIndex' =>
           n > initialBlockPoolIndex /\ Pool[n] # b
    BY <1>1, <2>0, <2>1
  <2>12. \A x \in UsedEntries' : x \in UsedEntries /\ BlockIn(x)' = BlockIn(x) /\ BlockIn(x) # b
    <3>1. \A x \in UsedEntries' : x \in UsedEntries /\ BlockIn(x)' = BlockIn(x)
      BY <1>1 DEF UsedEntries, BlockIn
    <3>2. \A x \in UsedEntries : o[BlockIn(x)].kind = "entry"
      BY DEF Lists, OwnEntry
    <3>3. QED
      BY <2>9, <3>1, <3>2
  <2>15. \A c \in Blocks : c # b \/ v = o[b] => (InHands(u, c)' <=> InHands(u, c))
    BY <2>4, <2>7, <2>9
  <2>16. fl'[u].at = "idle" /\ UNCHANGED <<freeListRefs, freeListNext, freeListHead>>
    BY <1>1, <2>5, <2>6
  <2>17. InHands(u, b)' => v.kind = "hand" /\ v.by = u
    BY <2>4
  <2>13. Lists(q)'
    BY <2>1, <2>4, <2>5, <2>6, <2>8, <2>10, <2>11, <2>12, <2>15, <2>16, <2>17, MoveStep
  <2>14. QED
    BY <2>13
<1>4. QED
  BY <1>2, <1>3 DEF ClaimPool

LEMMA FromListLists ==
  ASSUME Typed, NEW o, Lists(o), NEW u \in Users, FromList(u), setup' = setup
  PROVE  \E q : Lists(q)'
<1> USE NullIsNoUser
<1>1. /\ pc[u] = "list" /\ At(u, "idle") /\ UNCHANGED <<free_vars, initialBlockPoolIndex>>
      /\ my[u].p \in Producers
  BY OwnSub DEF FromList, block_vars, Enqueueing
<1>2. /\ initialBlockPoolIndex' \in Nat /\ initialBlockPoolIndex' >= initialBlockPoolIndex
  BY <1>1 DEF Typed, Shared
<1>3. CASE /\ Gotten(u) # Null /\ UNCHANGED index_vars
           /\ Step(u, "list", "fresh", [my[u] EXCEPT !.block = Gotten(u)])
  <2> DEFINE b == fl[u].node
             s == [my[u] EXCEPT !.block = b]
  <2>1. Step(u, "list", "fresh", s)
    BY <1>3 DEF Gotten
  <2>2. s.block = b
    BY DEF Typed, Control, LocalOK, LocalNames
  <2>3. b \in Blocks
    BY <1>3, RefTypes DEF ListOK, BlockOrNull, Gotten
  <2> HIDE DEF b, s
  <2>4. /\ pc'[u] = "fresh" /\ my'[u] = s
        /\ \A x \in Actors \ {u} : fl'[x] = fl[x] /\ pc'[x] = pc[x] /\ my'[x] = my[x]
        /\ fl' = fl /\ fl[u].at = "idle"
    BY <1>1, <2>1, StepEffect DEF Typed, free_vars, At
  <2>5. \A c \in Blocks : InHands(u, c)' <=> InHands(u, c)
    BY <1>1, <2>2, <2>4 DEF InHands, At, Adding, b
  <2>6. SpotOf(u)'
    BY <2>2, <2>3, <2>4, UserQueueAssumption DEF SpotOf, At, Adding, Getting
  <2>7. UNCHANGED <<freeListRefs, freeListNext, freeListHead, blockIndex>>
    BY <1>1, <1>3 DEF free_vars, index_vars
  <2>8. QED
    BY <1>2, <2>4, <2>5, <2>6, <2>7, QuietMove
<1>4. CASE /\ Gotten(u) = Null /\ Step(u, "list", "failed", my[u])
           /\ SetValue(my[u].p, blockIndexTail[my[u].p], Null)
  <2>1. blockIndexTail[my[u].p] \in Entries
    BY <1>1 DEF Typed, Shared
  <2>2. \A p \in Producers, e \in Entries :
           blockIndex'[p][e].value \in {blockIndex[p][e].value, Null}
    <3>1. ASSUME NEW p \in Producers, NEW e \in Entries
          PROVE  blockIndex'[p][e].value \in {blockIndex[p][e].value, Null}
      BY <1>1, <1>4, <2>1, IndexValue
    <3>2. QED
      BY <3>1
  <2>3. fl[u].node = Null
    BY <1>4 DEF Gotten
  <2>4. QED
    BY <1>1, <1>4, <2>2, <2>3, QuietStep
<1>5. QED
  BY <1>3, <1>4 DEF FromList, p_of, SetValue

LEMMA FreshLists ==
  ASSUME Typed, NEW o, Lists(o), NEW u \in Users, Fresh(u), setup' = setup
  PROVE  \E q : Lists(q)'
<1> USE NullIsNoUser
<1>0. PICK b, p, e : b = my[u].block /\ p = my[u].p /\ e = blockIndexTail[p]
  OBVIOUS
<1> DEFINE x == <<p, e>>
           v == [kind |-> "entry", by |-> x]
           q == Give(o, b, v)
<1>1. /\ pc[u] = "fresh" /\ pc'[u] = "publish"
      /\ \A y \in Actors \ {u} : fl'[y] = fl[y] /\ pc'[y] = pc[y] /\ my'[y] = my[y]
      /\ fl' = fl /\ UNCHANGED <<freeListRefs, freeListNext, freeListHead, initialBlockPoolIndex>>
      /\ SetValue(p, e, b)
  BY <1>0, StepEffect DEF Fresh, Typed, free_vars, p_of, SetValue
<1>2. p \in Producers /\ e \in Entries
  BY <1>0, <1>1, OwnSub DEF Enqueueing, Typed, Shared
<1>3. fl[u].at = "idle" /\ b \in Blocks
  BY <1>0, <1>1, Placed DEF SpotOf, At
<1>4. \A c \in Blocks : (InHands(u, c) <=> c = b) /\ ~InHands(u, c)'
  BY <1>0, <1>1, <1>3 DEF InHands, At, Adding
<1>5. o[b].kind = "hand" /\ o[b].by = u
  BY <1>3, <1>4, Placed
<1>6. q = Give(o, b, v) /\ v.kind = "entry" /\ v.by = x
  OBVIOUS
<1>7. \A y \in UsedEntries' : \/ y \in UsedEntries /\ BlockIn(y)' = BlockIn(y) /\ BlockIn(y) # b
                              \/ BlockIn(y)' = b /\ y = x
  <2> TAKE y \in UsedEntries'
  <2>1. PICK r \in Producers, f \in Entries : y = <<r, f>> /\ blockIndex'[r][f].value # Null
    BY DEF UsedEntries, Entries, BlockIn
  <2>2. blockIndex'[r][f].value = IF r = p /\ f = e THEN b ELSE blockIndex[r][f].value
    BY <1>1, <1>2, IndexValue
  <2>3. CASE r = p /\ f = e
    BY <2>1, <2>2, <2>3 DEF BlockIn
  <2>4. CASE ~(r = p /\ f = e)
    <3>1. y \in UsedEntries /\ BlockIn(y)' = BlockIn(y)
      BY <2>1, <2>2, <2>4 DEF UsedEntries, Entries, BlockIn
    <3>2. o[BlockIn(y)].kind = "entry"
      BY <3>1 DEF Lists, OwnEntry
    <3>3. QED
      BY <1>5, <3>1, <3>2
  <2>5. QED
    BY <2>3, <2>4
<1> HIDE DEF x, v, q
<1>8. SpotOf(u)'
  BY <1>1, <1>3 DEF SpotOf, At, Adding, Getting
<1>9. Moved(o, u, b, v)
  BY <1>5, <1>6 DEF Moved
<1>10. \A c \in Blocks : c # b \/ v = o[b] => (InHands(u, c)' <=> InHands(u, c))
  BY <1>4, <1>5, <1>6
<1>11. fl'[u].at = "idle"
  BY <1>1, <1>3
<1>12. \A n \in 1 .. Cardinality(Blocks) : n > initialBlockPoolIndex' =>
           n > initialBlockPoolIndex /\ Pool[n] # b
  <2>1. \A n \in 1 .. Cardinality(Blocks) : n > initialBlockPoolIndex => o[Pool[n]].kind = "pool"
    BY DEF Lists, OwnPool
  <2>2. QED
    BY <1>1, <1>5, <2>1
<1>13. Lists(q)'
  BY <1>1, <1>3, <1>4, <1>6, <1>7, <1>8, <1>9, <1>10, <1>11, <1>12, MoveStep
<1>14. QED
  BY <1>13

(* The block that a worker unlinks is in the entry it has found.           *)
Found(w) == /\ my[w].block \in Blocks
            /\ my[w].block = blockIndex[my[w].p][my[w].slot].value

LEMMA UnlinkLists ==
  ASSUME Typed, NEW o, Lists(o), NEW w \in Workers, Unlink(w), Found(w), setup' = setup
  PROVE  \E q : Lists(q)'
<1> USE NullIsNoUser
<1>0. PICK b, p, e : b = my[w].block /\ p = my[w].p /\ e = my[w].slot
  OBVIOUS
<1> DEFINE x == <<p, e>>
           v == [kind |-> "hand", by |-> w]
           q == Give(o, b, v)
           r == [Idle EXCEPT !.at = "add", !.node = b]
<1>1. /\ pc[w] = "unlink" /\ pc'[w] = "dequeued"
      /\ \A y \in Actors \ {w} : pc'[y] = pc[y] /\ my'[y] = my[y]
      /\ UNCHANGED <<freeListRefs, freeListNext, freeListHead, initialBlockPoolIndex>>
      /\ SetValue(p, e, Null)
      /\ Go(w, r)
  BY <1>0, StepEffect DEF Unlink, Typed, block_vars, p_of, StartAdd, SetValue
<1>2. p \in Producers /\ e \in Entries /\ b \in Blocks /\ b = blockIndex[p][e].value
  BY <1>0, <1>1, WorkerSub DEF WithSub, Typed, Located, Found
<1>3. fl[w].at = "idle"
  BY <1>1, Placed DEF SpotOf, At
<1>4. r.at = "add" /\ r.node = b /\ ~r.getting
  BY DEF Idle
<1>5. fl'[w] = r /\ \A y \in Actors \ {w} : fl'[y] = fl[y]
  BY <1>1, RefTypes DEF Go
<1>6. q = Give(o, b, v) /\ v.kind = "hand" /\ v.by = w /\ x = <<p, e>>
  OBVIOUS
<1> HIDE DEF x, v, q, r
<1>7. \A c \in Blocks : ~InHands(w, c) /\ (InHands(w, c)' <=> c = b)
  BY <1>1, <1>3, <1>4, <1>5 DEF InHands, At, Adding
<1>8. o[b].kind = "entry" /\ o[b].by = x
  <2>1. x \in UsedEntries /\ BlockIn(x) = b
    BY <1>2, <1>6 DEF UsedEntries, BlockIn, Entries
  <2>2. QED
    BY <2>1 DEF Lists, OwnEntry
<1>9. \A y \in UsedEntries' : y \in UsedEntries /\ BlockIn(y)' = BlockIn(y) /\ BlockIn(y) # b
  <2> TAKE y \in UsedEntries'
  <2>1. PICK s \in Producers, f \in Entries : y = <<s, f>> /\ blockIndex'[s][f].value # Null
    BY DEF UsedEntries, Entries, BlockIn
  <2>2. blockIndex'[s][f].value = IF s = p /\ f = e THEN Null ELSE blockIndex[s][f].value
    BY <1>1, <1>2, IndexValue
  <2>3. ~(s = p /\ f = e)
    BY <2>1, <2>2
  <2>4. y \in UsedEntries /\ BlockIn(y)' = BlockIn(y) /\ y # x
    BY <1>6, <2>1, <2>2, <2>3 DEF UsedEntries, Entries, BlockIn
  <2>5. o[BlockIn(y)].by = y
    BY <2>4 DEF Lists, OwnEntry
  <2>6. QED
    BY <1>8, <2>4, <2>5
<1>10. SpotOf(w)'
  BY <1>1, <1>2, <1>4, <1>5, UserQueueAssumption DEF SpotOf, At, Adding, Getting
<1>11. Moved(o, w, b, v)
  BY <1>2, <1>6, <1>7, <1>8 DEF Moved
<1>12. \A c \in Blocks : c # b \/ v = o[b] => (InHands(w, c)' <=> InHands(w, c))
  BY <1>6, <1>7, <1>8
<1>13. \A n \in 1 .. Cardinality(Blocks) : n > initialBlockPoolIndex' =>
           n > initialBlockPoolIndex /\ Pool[n] # b
  <2>1. \A n \in 1 .. Cardinality(Blocks) : n > initialBlockPoolIndex => o[Pool[n]].kind = "pool"
    BY DEF Lists, OwnPool
  <2>2. QED
    BY <1>1, <1>8, <2>1
<1>14. \A y \in Actors \ {w} : fl'[y] = fl[y] /\ pc'[y] = pc[y] /\ my'[y] = my[y]
  BY <1>1, <1>5
<1>15. fl'[w].at = "add" /\ (InHands(w, b)' => v.kind = "hand" /\ v.by = w)
  BY <1>4, <1>5, <1>6
<1>16. Lists(q)'
  BY <1>1, <1>2, <1>3, <1>6, <1>9, <1>10, <1>11, <1>12, <1>13, <1>14, <1>15, MoveStep
<1>17. QED
  BY <1>16

(* Steps that leave all blocks where they are.                             *)
LEMMA PlainStep ==
  ASSUME Typed, NEW o, Lists(o), NEW a \in Actors, NEW l, NEW m, NEW r, Step(a, l, m, r),
         setup' = setup, UNCHANGED <<free_vars, initialBlockPoolIndex>>,
         l \notin {"fresh", "list"}, l = "dequeued" => At(a, "idle"),
         m \notin {"fresh", "list"},
         blockIndex' = blockIndex \/ \E p \in Producers, e \in Entries : \E x : SetKey(p, e, x)
  PROVE  \E q : Lists(q)'
<1>1. pc[a] = l
  BY StepEffect DEF Typed
<1>2. At(a, "idle")
  BY <1>1, Placed, UserQueueAssumption DEF SpotOf
<1>3. ASSUME NEW p \in Producers, NEW e \in Entries
      PROVE  blockIndex'[p][e].value \in {blockIndex[p][e].value, Null}
  <2>1. CASE blockIndex' = blockIndex
    BY <2>1
  <2>2. ASSUME NEW s \in Producers, NEW f \in Entries, NEW x, SetKey(s, f, x)
        PROVE  blockIndex'[p][e].value = blockIndex[p][e].value
    BY <2>2, IndexKey
  <2>3. QED
    BY <2>1, <2>2
<1>4. QED
  BY <1>2, <1>3, QuietStep

LEMMA UserLists ==
  ASSUME Typed, NEW o, Lists(o), NEW u \in Users, setup' = setup,
         \/ Ask(u) \/ CheckSize(u) \/ GetProducer(u) \/ (LoadTail(u) /\ Unused)
         \/ \E x : EnqueueStep(u, x, "ask")
  PROVE  \E q : Lists(q)'
<1> USE NullIsNoUser
<1>1. CASE LoadPool(u)
  BY <1>1, LoadPoolLists
<1>2. CASE ClaimPool(u)
  BY <1>2, ClaimPoolLists
<1>3. CASE FromList(u)
  BY <1>3, FromListLists
<1>4. CASE Fresh(u)
  BY <1>4, FreshLists
<1>5. CASE Enqueue(u)
  <2>1. UNCHANGED <<free_vars, initialBlockPoolIndex>> /\ my[u].p \in Producers
    BY <1>5, OwnSub DEF Enqueue, block_vars, Enqueueing
  <2>2. NextEntry(my[u].p) \in Entries
    <3>1. setup.entries \in Nat \ {0} /\ blockIndexTail[my[u].p] \in Entries
      BY <2>1, EntriesOK DEF Typed, Shared
    <3>2. blockIndexTail[my[u].p] + 1 \in Int
      BY <3>1 DEF Entries
    <3>3. QED
      BY <3>1, <3>2, ModRange DEF NextEntry, Entries
  <2>3. PICK m \in {"publish", "entry", "failed"} : \E r : Step(u, "enqueue", m, r)
    BY <1>5 DEF Enqueue
  <2>4. blockIndex' = blockIndex \/ SetKey(my[u].p, NextEntry(my[u].p), tailIndex[my[u].p])
    BY <1>5 DEF Enqueue, SetKey, p_of
  <2>5. QED
    BY <2>1, <2>2, <2>3, <2>4, PlainStep
<1>6. CASE Ask(u) \/ CheckSize(u) \/ GetProducer(u) \/ (LoadTail(u) /\ Unused) \/ InsertEntry(u)
           \/ \E x : Publish(u, x, "ask")
  <2>1. PICK l \in UserPlaces \ {"fresh", "list"}, m \in UserPlaces \ {"fresh", "list"} :
           \E r : Step(u, l, m, r)
    <3>1. CASE Ask(u)
      BY <3>1 DEF Ask, UserPlaces
    <3>2. CASE CheckSize(u)
      BY <3>2 DEF CheckSize, UserPlaces
    <3>3. CASE GetProducer(u)
      BY <3>3 DEF GetProducer, LoadHash, Find, Room, Resize, Unlock, Fits, Enter, UserPlaces,
                  Naming, Enqueueing
    <3>4. CASE LoadTail(u) \/ InsertEntry(u) \/ \E x : Publish(u, x, "ask")
      BY <3>4 DEF LoadTail, InsertEntry, Publish, UserPlaces, Enqueueing
    <3>5. QED
      BY <1>6, <3>1, <3>2, <3>3, <3>4
  <2>2. UNCHANGED <<free_vars, initialBlockPoolIndex, blockIndex>>
    BY <1>6 DEF Ask, CheckSize, GetProducer, Unused, InsertEntry, Publish, block_vars, index_vars
  <2>3. l # "dequeued"
    BY DEF UserPlaces, Naming, Enqueueing
  <2>4. QED
    BY <2>1, <2>2, <2>3, PlainStep
<1>7. QED
  BY <1>1, <1>2, <1>3, <1>4, <1>5, <1>6 DEF EnqueueStep

LEMMA WorkerLists ==
  ASSUME Typed, NEW o, Lists(o), NEW w \in Workers, setup' = setup,
         pc[w] = "unlink" => Found(w),
         \/ (LoadTail(w) /\ Unused) \/ Poll(w) \/ Score(w) \/ NextSub(w) \/ Serve(w)
         \/ DequeueStep(w)
  PROVE  \E q : Lists(q)'
<1> USE NullIsNoUser
<1>1. CASE Unlink(w)
  <2>1. pc[w] = "unlink"
    BY <1>1 DEF Unlink, Step
  <2>2. QED
    BY <1>1, <2>1, UnlinkLists
<1>2. CASE ~Unlink(w)
  <2>1. PICK l \in WorkerPlaces, m \in WorkerPlaces :
           (\E r : Step(w, l, m, r)) /\ (l = "dequeued" => At(w, "idle"))
    <3>1. CASE LoadTail(w) \/ Poll(w) \/ Serve(w)
      BY <3>1 DEF LoadTail, Poll, Serve, WorkerPlaces, WithSub
    <3>2. CASE Score(w) \/ NextSub(w)
      BY <3>2 DEF Score, NextSub, WorkerPlaces, WithSub
    <3>3. CASE LoadCounts(w) \/ Reserve(w) \/ GiveBack(w) \/ Advance(w) \/ LookUp(w)
               \/ TakeElement(w)
      BY <3>3 DEF LoadCounts, Reserve, GiveBack, Advance, LookUp, TakeElement, WorkerPlaces,
                  WithSub
    <3>4. CASE Try(w)
      <4> DEFINE m == IF dequeueOptimisticCount[p_of(w)] - my[w].over < my[w].tail
                      THEN "reserve" ELSE "nextsub"
      <4>1. Step(w, "try", m, my[w]) /\ m \in WorkerPlaces
        BY <3>4 DEF Try, WorkerPlaces, WithSub
      <4>2. "try" \in WorkerPlaces
        BY DEF WorkerPlaces, WithSub
      <4>3. QED
        BY <4>1, <4>2
    <3>5. CASE Again(w)
      <4> DEFINE m == IF my[w].count - my[w].over < tailIndex[p_of(w)]
                      THEN "advance" ELSE "giveback"
      <4>1. Step(w, "again", m, my[w]) /\ m \in WorkerPlaces
        BY <3>5 DEF Again, WorkerPlaces, WithSub
      <4>2. "again" \in WorkerPlaces
        BY DEF WorkerPlaces, WithSub
      <4>3. QED
        BY <4>1, <4>2
    <3>6. CASE SetEmpty(w)
      <4> DEFINE m == IF elementsCompletelyDequeued[my[w].block] = BLK_SIZE - 1 THEN "unlink"
                      ELSE "dequeued"
      <4>1. Step(w, "empty", m, my[w]) /\ m \in WorkerPlaces
        BY <3>6 DEF SetEmpty, WorkerPlaces, WithSub
      <4>2. "empty" \in WorkerPlaces
        BY DEF WorkerPlaces, WithSub
      <4>3. QED
        BY <4>1, <4>2
    <3>7. QED
      BY <1>2, <3>1, <3>2, <3>3, <3>4, <3>5, <3>6 DEF DequeueStep
  <2>2. l \notin {"fresh", "list"} /\ m \notin {"fresh", "list"}
    BY DEF WorkerPlaces, WithSub
  <2>3. UNCHANGED <<free_vars, initialBlockPoolIndex, blockIndex>>
    BY <1>2 DEF Unused, Poll, Score, NextSub, Serve, DequeueStep, LoadCounts, Reserve, GiveBack,
                Advance, LookUp, TakeElement, Try, Again, SetEmpty, block_vars, index_vars
  <2>4. QED
    BY <2>1, <2>2, <2>3, PlainStep
<1>3. QED
  BY <1>1, <1>2

LEMMA ListStepLists ==
  ASSUME Typed, NEW o, Lists(o), NEW a \in Actors, ListStep(a), setup' = setup
  PROVE  \E q : Lists(q)'
<1>1. Still
  BY DEF ListStep, Still, index_vars, block_vars
<1>2. CASE Add(a) \/ LoadTop(a) \/ Link(a) \/ CountList(a) \/ Push(a) \/ Undo(a)
  BY <1>1, <1>2, AddLists, LoadTopLists, LinkLists, CountListLists, PushLists, UndoLists
<1>3. CASE LoadHead(a) \/ Reference(a) \/ LoadNext(a) \/ Pop(a) \/ Get(a) \/ Drop(a)
  BY <1>1, <1>3, LoadHeadLists, ReferenceLists, LoadNextLists, PopLists, GetLists, DropLists
<1>4. QED
  BY <1>2, <1>3 DEF ListStep, FreeListStep

LEMMA ListsSame ==
  ASSUME Typed, NEW o, Lists(o), UNCHANGED queue_vars
  PROVE  Lists(o)'
<1>1. /\ pc' = pc /\ my' = my /\ fl' = fl /\ setup' = setup /\ blockIndex' = blockIndex
      /\ initialBlockPoolIndex' = initialBlockPoolIndex
      /\ freeListHead' = freeListHead /\ freeListNext' = freeListNext
      /\ freeListRefs' = freeListRefs
  BY DEF queue_vars, free_vars, index_vars, block_vars
<1>2. OwnPool(o)'
  BY <1>1 DEF Lists, OwnPool
<1>3. OwnHand(o)'
  BY <1>1 DEF Lists, OwnHand, InHands, At
<1>4. OwnEntry(o)'
  BY <1>1 DEF Lists, OwnEntry, UsedEntries, BlockIn
<1>5. \A b \in Blocks : RefsOf(o, b)'
  BY <1>1 DEF Lists, RefsOf, Kept, Holders
<1>6. ListOf(o)'
  BY <1>1 DEF Lists, ListOf
<1>7. \A a \in Actors : SpotOf(a)'
  BY <1>1 DEF Lists, SpotOf, At
<1>8. QED
  BY <1>2, <1>3, <1>4, <1>5, <1>6, <1>7 DEF Lists

LEMMA ListsStep ==
  ASSUME Typed, NEW o, Lists(o), [Next]_vars,
         \A w \in Workers : pc[w] = "unlink" => Found(w)
  PROVE  \E q : Lists(q)'
<1>1. CASE UNCHANGED queue_vars
  BY <1>1, ListsSame
<1>2. ASSUME NEW a \in Actors, Thread(a) PROVE \E q : Lists(q)'
  <2>1. setup' = setup
    BY <1>2 DEF Thread
  <2>2. CASE ListStep(a)
    BY <2>1, <2>2, ListStepLists
  <2>3. CASE a \in Users /\ ~ListStep(a)
    <3>1. \/ Ask(a) \/ CheckSize(a) \/ GetProducer(a) \/ (LoadTail(a) /\ Unused)
          \/ EnqueueStep(a, <<a, asked[a] + 1>>, "ask")
      BY <1>2, <2>3, UserQueueAssumption DEF Thread, TryEnqueue
    <3>2. QED
      BY <2>1, <2>3, <3>1, UserLists
  <2>4. CASE a \in Workers /\ ~ListStep(a)
    <3>1. \/ (LoadTail(a) /\ Unused) \/ Poll(a) \/ Score(a) \/ NextSub(a) \/ Serve(a)
          \/ DequeueStep(a)
      BY <1>2, <2>4, UserQueueAssumption DEF Thread
    <3>2. QED
      BY <2>1, <2>4, <3>1, WorkerLists
  <2>5. QED
    BY <2>2, <2>3, <2>4, UserQueueAssumption
<1>3. QED
  BY <1>1, <1>2, ThreadSteps

LEMMA ListsInit == Init => \E o : Lists(o)
<1> SUFFICES ASSUME Init PROVE \E o : Lists(o)
  OBVIOUS
<1> DEFINE o == [b \in Blocks |-> [kind |-> "pool", by |-> 0]]
<1>1. \A b \in Blocks : o[b].kind = "pool"
  OBVIOUS
<1>2. /\ \A a \in Actors : fl[a] = Idle /\ pc[a] \in {"out", "ask", "poll"}
      /\ freeListHead = Null
      /\ \A b \in Blocks : freeListRefs[b] = [n |-> 0, should |-> FALSE]
      /\ \A p \in Producers, e \in Entries : blockIndex[p][e].value = Null
  BY DEF Init, QueueInit, FreeListInit, Entries
<1>3. Idle.at = "idle" /\ Idle.node = Null
  BY DEF Idle
<1>4. DOMAIN o = Blocks
  OBVIOUS
<1> HIDE DEF o
<1>5. OwnPool(o)
  BY <1>1, PoolOK DEF OwnPool
<1>6. \A a \in Actors, b \in Blocks : ~InHands(a, b)
  BY <1>2, <1>3 DEF InHands, At, Adding
<1>7. OwnHand(o)
  BY <1>1, <1>6 DEF OwnHand
<1>8. UsedEntries = {}
  BY <1>2 DEF UsedEntries, BlockIn, Entries
<1>9. OwnEntry(o)
  BY <1>8 DEF OwnEntry
<1>10. ASSUME NEW b \in Blocks PROVE RefsOf(o, b)
  <2>1. Holders(b) = {}
    BY <1>2, <1>3 DEF Holders, Holding
  <2>2. Cardinality(Holders(b)) = 0
    BY <2>1, FS_EmptySet
  <2>3. QED
    BY <1>1, <1>2, <2>2 DEF RefsOf, Kept
<1>11. ListOf(o)
  BY <1>1, <1>2, NullIsNoUser DEF ListOf
<1>12. ASSUME NEW a \in Actors PROVE SpotOf(a)
  BY <1>2, <1>3 DEF SpotOf, At, Adding, Getting
<1>13. QED
  BY <1>4, <1>5, <1>7, <1>9, <1>10, <1>11, <1>12 DEF Lists

=============================================================================
