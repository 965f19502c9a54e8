--------------------------- MODULE ConcurrentQueue ---------------------------
(***************************************************************************)
(* The queue of concurrentqueue.h, as queues.h uses it: a thread that      *)
(* enqueues gets a sub-queue (ImplicitProducer) of its own, found through  *)
(* a hash table keyed by threads; a sub-queue is a row of blocks, found    *)
(* through a circular block index; blocks come from the initial pool, then *)
(* from the list of blocks that were emptied.  try_enqueue never allocates.*)
(*                                                                         *)
(* Each access to a shared variable that another thread can tell is a      *)
(* step.  A sub-queue is numbered as it is added to the list of sub-       *)
(* queues, which is read from the last to the first.  Left out: tokens,    *)
(* bulk operations, moves, and threads that exit (the file disables what   *)
(* notices that); the wrap of 64-bit indices.                              *)
(***************************************************************************)
EXTENDS FreeList

CONSTANTS
  BLK_SIZE,
  INITIAL_IMPLICIT_PRODUCER_HASH_SIZE,
  hash_thread_id,      \* per thread: where its probes start
  Setups               \* [threads, requests, idle, blocks, entries]: who takes
                       \* part, how many requests each user makes, the length
                       \* a user waits for (IDLE_QUELEN), the sizes of the
                       \* pool and of a block index

VARIABLES
  setup,
  hashes, implicitProducerHashCount, implicitProducerHashResizeInProgress,
  producers,           \* the sub-queues' threads, in the order of the list
  tailIndex, headIndex, dequeueOptimisticCount, dequeueOvercommit,
  tailBlock, blockIndex, blockIndexTail,        \* per sub-queue
  elements, elementsCompletelyDequeued,         \* per block
  initialBlockPoolIndex,
  pc, my,              \* per thread: where it is, its local variables
  asked                \* per user: the requests it has enqueued

hash_vars == <<hashes, implicitProducerHashCount,
               implicitProducerHashResizeInProgress, producers>>
tail_vars == <<tailIndex, tailBlock>>
head_vars == <<headIndex, dequeueOptimisticCount, dequeueOvercommit>>
index_vars == <<blockIndex, blockIndexTail>>
block_vars == <<elements, elementsCompletelyDequeued, initialBlockPoolIndex>>

ASSUME QueueAssumption ==
  /\ BLK_SIZE \in Nat \ {0, 1}
  /\ INITIAL_IMPLICIT_PRODUCER_HASH_SIZE \in Nat \ {0, 1}
  /\ hash_thread_id \in [Actors -> Nat]
  /\ \A s \in Setups :
       /\ s.threads \subseteq Actors
       /\ s.idle \in Nat
       /\ s.blocks \in 1 .. Cardinality(Blocks) /\ s.entries \in Nat \ {0, 1}

INVALID_BLOCK_BASE == 1
NoRequest == <<>>
Producers == 1 .. Cardinality(Actors)

Table(size) == [s \in 0 .. size - 1 |-> [key |-> Null, value |-> 0]]
Capacity(g) == Cardinality(DOMAIN hashes[g])

(* size_approx: cursor, tail, size; try_dequeue: nonEmptyCount, best,      *)
(* bestSize, p, first; dequeue: count, over, index; enqueue: p, block;     *)
(* get_or_add_implicit_producer: main, count, slot.                        *)
Locals == [cursor |-> 0, tail |-> 0, size |-> 0, nonEmptyCount |-> 0, best |-> 0,
           bestSize |-> 0, p |-> 0, first |-> FALSE, count |-> 0, over |-> 0,
           index |-> 0, slot |-> 0, block |-> Null, item |-> NoRequest,
           main |-> 0]

QueueInit ==
  /\ setup \in Setups
  /\ hashes = <<Table(INITIAL_IMPLICIT_PRODUCER_HASH_SIZE)>>
  /\ implicitProducerHashCount = 0
  /\ implicitProducerHashResizeInProgress = FALSE
  /\ producers = <<>>
  /\ tailIndex = [p \in Producers |-> 0] /\ headIndex = [p \in Producers |-> 0]
  /\ dequeueOptimisticCount = [p \in Producers |-> 0]
  /\ dequeueOvercommit = [p \in Producers |-> 0]
  /\ tailBlock = [p \in Producers |-> Null]
  /\ blockIndex = [p \in Producers |->
       [e \in 0 .. setup.entries - 1 |-> [key |-> INVALID_BLOCK_BASE, value |-> Null]]]
  /\ blockIndexTail = [p \in Producers |-> setup.entries - 1]
  /\ elements = [b \in Blocks |-> [s \in 0 .. BLK_SIZE - 1 |-> NoRequest]]
  /\ elementsCompletelyDequeued = [b \in Blocks |-> 0]
  /\ initialBlockPoolIndex = 0
  /\ FreeListInit
  /\ my = [a \in Actors |-> Locals]

(* The blocks of the initial pool, in order.                               *)
Pool == SetToSeq(Blocks)

Step(a, l, m, r) ==
  pc[a] = l /\ pc' = [pc EXCEPT ![a] = m] /\ my' = [my EXCEPT ![a] = r]

Put(f, x, v) == [f EXCEPT ![x] = v]

-----------------------------------------------------------------------------
(* size_approx: tail and head of each sub-queue in turn.                   *)

StartScan(r) == [r EXCEPT !.cursor = Len(producers), !.size = 0,
                          !.nonEmptyCount = 0, !.best = 0, !.bestSize = 0]

LoadTail(a) ==
  Step(a, "tail", "head", [my[a] EXCEPT !.tail = tailIndex[my[a].cursor]])

SizeOf(r) == LET head == headIndex[r.cursor] IN IF head < r.tail THEN r.tail - head ELSE 0

Sized(r) ==
  LET n == SizeOf(r)
      better == n > r.bestSize
  IN  [r EXCEPT !.size = @ + n, !.cursor = @ - 1,
                !.nonEmptyCount = @ + (IF n > 0 THEN 1 ELSE 0),
                !.best = IF better THEN r.cursor ELSE @,
                !.bestSize = IF better THEN n ELSE @]

-----------------------------------------------------------------------------
(* get_or_add_implicit_producer.                                           *)

(* The tables where a thread finds itself: a thread's key is at the first  *)
(* free place of its probes, and keys stay.                                *)
Tables(u) == {g \in 1 .. my[u].main :
                \E s \in DOMAIN hashes[g] : hashes[g][s].key = u}
ValueIn(g, u) == (CHOOSE e \in {hashes[g][s] : s \in DOMAIN hashes[g]} : e.key = u).value

LoadHash(u) ==
  Step(u, "hash", "find", [my[u] EXCEPT !.main = Len(hashes)])

(* A mistake: older tables are not searched.                               *)
Find_MainOnly(u) ==
  LET g == my[u].main IN
  /\ \/ /\ g \in Tables(u)
        /\ Step(u, "find", "enqueue", [my[u] EXCEPT !.p = ValueIn(g, u)])
        /\ UNCHANGED implicitProducerHashCount
     \/ /\ g \notin Tables(u)
        /\ Step(u, "find", "room", [my[u] EXCEPT !.count = implicitProducerHashCount + 1])
        /\ implicitProducerHashCount' = implicitProducerHashCount + 1
  /\ UNCHANGED <<hashes, implicitProducerHashResizeInProgress, producers>>

(* Found in the main table; found in an older one, and to be entered into  *)
(* the main one; or not found.                                             *)
Find(u) ==
  LET found == Tables(u) IN
  /\ \/ \E g \in found :
          /\ \A h \in found : h <= g
          /\ Step(u, "find", IF g = my[u].main THEN "enqueue" ELSE "slot",
                  [my[u] EXCEPT !.p = ValueIn(g, u), !.slot = hash_thread_id[u]])
          /\ UNCHANGED implicitProducerHashCount
     \/ /\ found = {}
        /\ Step(u, "find", "room", [my[u] EXCEPT !.count = implicitProducerHashCount + 1])
        /\ implicitProducerHashCount' = implicitProducerHashCount + 1
  /\ UNCHANGED <<hashes, implicitProducerHashResizeInProgress, producers>>

(* A thread that finds the table half full takes the lock to resize.       *)
Room(u) ==
  LET full == my[u].count >= Capacity(my[u].main) \div 2 IN
  /\ pc[u] = "room"
  /\ \/ /\ full /\ ~implicitProducerHashResizeInProgress
        /\ implicitProducerHashResizeInProgress' = TRUE
        /\ Step(u, "room", "resize", [my[u] EXCEPT !.main = Len(hashes)])
     \/ /\ ~full \/ implicitProducerHashResizeInProgress
        /\ Step(u, "room", "fits", my[u])
        /\ UNCHANGED implicitProducerHashResizeInProgress
  /\ UNCHANGED <<hashes, implicitProducerHashCount, producers>>

Doubled(n, c) == Min({k \in {c * 2^e : e \in 1 .. n + 1} : n < k \div 2})

Resize(u) ==
  LET c == Capacity(my[u].main)
      n == my[u].count
  IN
  /\ pc[u] = "resize"
  /\ \/ /\ n >= c \div 2
        /\ hashes' = Append(hashes, Table(Doubled(n, c)))
        /\ Step(u, "resize", "unlock", [my[u] EXCEPT !.main = Len(hashes) + 1])
     \/ /\ n < c \div 2
        /\ Step(u, "resize", "unlock", my[u]) /\ UNCHANGED hashes
  /\ UNCHANGED <<implicitProducerHashCount, implicitProducerHashResizeInProgress,
                 producers>>

Unlock(u) ==
  /\ Step(u, "unlock", "fits", my[u])
  /\ implicitProducerHashResizeInProgress' = FALSE
  /\ UNCHANGED <<hashes, implicitProducerHashCount, producers>>

(* A table three quarters full waits for the next one; otherwise the new   *)
(* sub-queue is pushed on the list.  None is inactive, to be used again.   *)
Fits(u) ==
  LET c == Capacity(my[u].main) IN
  /\ pc[u] = "fits"
  /\ \/ /\ my[u].count < c \div 2 + c \div 4
        /\ producers' = Append(producers, u)
        /\ Step(u, "fits", "slot", [my[u] EXCEPT !.p = Len(producers) + 1,
                                                 !.slot = hash_thread_id[u]])
     \/ /\ my[u].count >= c \div 2 + c \div 4
        /\ Step(u, "fits", "room", [my[u] EXCEPT !.main = Len(hashes)])
        /\ UNCHANGED producers
  /\ UNCHANGED <<hashes, implicitProducerHashCount,
                 implicitProducerHashResizeInProgress>>

(* A place that is taken sends the thread to the next one.                 *)
Enter(u) ==
  LET g == my[u].main
      s == my[u].slot % Capacity(g)
  IN
  /\ pc[u] = "slot"
  /\ \/ /\ hashes[g][s].key = Null
        /\ hashes' = [hashes EXCEPT ![g][s] = [key |-> u, value |-> my[u].p]]
        /\ Step(u, "slot", "enqueue", my[u])
     \/ /\ hashes[g][s].key # Null
        /\ Step(u, "slot", "slot", [my[u] EXCEPT !.slot = s + 1])
        /\ UNCHANGED hashes
  /\ UNCHANGED <<implicitProducerHashCount, implicitProducerHashResizeInProgress,
                 producers>>

GetProducer(u) ==
  /\ \/ LoadHash(u) /\ UNCHANGED hash_vars
     \/ Find(u) \/ Room(u) \/ Resize(u) \/ Unlock(u) \/ Fits(u) \/ Enter(u)
  /\ UNCHANGED <<tail_vars, head_vars, index_vars, block_vars, free_vars>>

=============================================================================
