-------------------------- MODULE ImplicitProducer --------------------------
(***************************************************************************)
(* The sub-queue of concurrentqueue.h: enqueue, by its own thread, and     *)
(* dequeue, by any.  A thread that dequeues first counts itself in         *)
(* (dequeueOptimisticCount), takes that back if the tail does not allow it *)
(* (dequeueOvercommit), and only then advances the head; the one that      *)
(* empties the last place of a block gives the block back.                 *)
(***************************************************************************)
EXTENDS ConcurrentQueue

CONSTANT MAX_OVERCOMMIT    \* bounds the counter of the model

p_of(a) == my[a].p

(* Where the block index has the block of index.                           *)
EntryOf(p, index, tail) ==
  LET base == index - (index % BLK_SIZE)
  IN  (tail + ((base - blockIndex[p][tail].key) \div BLK_SIZE)) % setup.entries

-----------------------------------------------------------------------------
(* enqueue.                                                                *)

NextEntry(p) == (blockIndexTail[p] + 1) % setup.entries

(* At the end of a block: insert_block_index_entry fails if the next entry *)
(* of the index is in use.                                                 *)
Enqueue(u) ==
  LET p == p_of(u)
      e == blockIndex[p][NextEntry(p)]
      free == e.key = INVALID_BLOCK_BASE \/ e.value = Null
  IN
  /\ pc[u] = "enqueue"
  /\ \/ /\ tailIndex[p] % BLK_SIZE # 0
        /\ Step(u, "enqueue", "publish", [my[u] EXCEPT !.block = tailBlock[p]])
        /\ UNCHANGED blockIndex
     \/ /\ tailIndex[p] % BLK_SIZE = 0 /\ free
        /\ blockIndex' = [blockIndex EXCEPT ![p][NextEntry(p)].key = tailIndex[p]]
        /\ Step(u, "enqueue", "entry", my[u])
     \/ /\ tailIndex[p] % BLK_SIZE = 0 /\ ~free
        /\ Step(u, "enqueue", "failed", my[u]) /\ UNCHANGED blockIndex
  /\ UNCHANGED <<tail_vars, blockIndexTail, block_vars, free_vars>>

InsertEntry(u) ==
  /\ Step(u, "entry", "pool", my[u])
  /\ blockIndexTail' = Put(blockIndexTail, p_of(u), NextEntry(p_of(u)))
  /\ UNCHANGED <<tail_vars, blockIndex, block_vars, free_vars>>

(* requisition_block: the pool, if its counter is within it, or the list.  *)
LoadPool(u) ==
  /\ \/ /\ initialBlockPoolIndex < setup.blocks
        /\ Step(u, "pool", "claim", my[u]) /\ UNCHANGED fl
     \/ /\ initialBlockPoolIndex >= setup.blocks
        /\ Step(u, "pool", "list", my[u]) /\ StartGet(u)
  /\ UNCHANGED <<tail_vars, index_vars, block_vars, freeListHead, freeListNext,
                 freeListRefs>>

ClaimPool(u) ==
  /\ initialBlockPoolIndex' = initialBlockPoolIndex + 1
  /\ \/ /\ initialBlockPoolIndex < setup.blocks
        /\ Step(u, "claim", "fresh",
                [my[u] EXCEPT !.block = Pool[initialBlockPoolIndex + 1]])
        /\ UNCHANGED fl
     \/ /\ initialBlockPoolIndex >= setup.blocks
        /\ Step(u, "claim", "list", my[u]) /\ StartGet(u)
  /\ UNCHANGED <<tail_vars, index_vars, elements, elementsCompletelyDequeued,
                 freeListHead, freeListNext, freeListRefs>>

(* No block: rewind_block_index_tail; try_enqueue fails.                   *)
FromList(u) ==
  LET p == p_of(u) IN
  /\ pc[u] = "list" /\ At(u, "idle")
  /\ \/ /\ Gotten(u) # Null
        /\ Step(u, "list", "fresh", [my[u] EXCEPT !.block = Gotten(u)])
        /\ UNCHANGED index_vars
     \/ /\ Gotten(u) = Null
        /\ Step(u, "list", "failed", my[u])
        /\ blockIndex' = [blockIndex EXCEPT ![p][blockIndexTail[p]].value = Null]
        /\ blockIndexTail' =
             Put(blockIndexTail, p, (blockIndexTail[p] - 1) % setup.entries)
  /\ UNCHANGED <<tail_vars, block_vars, free_vars>>

(* A mistake: the counter of the block is not reset.                       *)
Fresh_NoReset(u) ==
  LET p == p_of(u) IN
  /\ Step(u, "fresh", "publish", my[u])
  /\ blockIndex' = [blockIndex EXCEPT ![p][blockIndexTail[p]].value = my[u].block]
  /\ tailBlock' = Put(tailBlock, p, my[u].block)
  /\ UNCHANGED <<tailIndex, blockIndexTail, block_vars, free_vars>>

(* Nobody else looks at the block, or at its entry, yet.                   *)
Fresh(u) ==
  LET p == p_of(u) IN
  /\ Step(u, "fresh", "publish", my[u])
  /\ elementsCompletelyDequeued' = Put(elementsCompletelyDequeued, my[u].block, 0)
  /\ blockIndex' = [blockIndex EXCEPT ![p][blockIndexTail[p]].value = my[u].block]
  /\ tailBlock' = Put(tailBlock, p, my[u].block)
  /\ UNCHANGED <<tailIndex, blockIndexTail, elements, initialBlockPoolIndex,
                 free_vars>>

(* The element is written, and the tail advanced.                          *)
Publish(u, request, l) ==
  LET p == p_of(u) IN
  /\ Step(u, "publish", l, Locals)
  /\ elements' = [elements EXCEPT ![my[u].block][tailIndex[p] % BLK_SIZE] = request]
  /\ tailIndex' = Put(tailIndex, p, tailIndex[p] + 1)
  /\ UNCHANGED <<tailBlock, index_vars, elementsCompletelyDequeued,
                 initialBlockPoolIndex, free_vars>>

EnqueueStep(u, request, l) ==
  /\ \/ Enqueue(u) \/ InsertEntry(u) \/ LoadPool(u) \/ ClaimPool(u)
     \/ FromList(u) \/ Fresh(u) \/ Publish(u, request, l)
  /\ UNCHANGED <<hash_vars, head_vars>>

-----------------------------------------------------------------------------
(* dequeue.                                                                *)

LoadCounts(w) ==
  /\ Step(w, "counts", "try", [my[w] EXCEPT !.tail = tailIndex[p_of(w)],
                                            !.over = dequeueOvercommit[p_of(w)]])
  /\ UNCHANGED <<head_vars, blockIndex, block_vars, free_vars>>

Try(w) ==
  /\ pc[w] = "try"
  /\ Step(w, "try", IF dequeueOptimisticCount[p_of(w)] - my[w].over < my[w].tail
                    THEN "reserve" ELSE "nextsub", my[w])
  /\ UNCHANGED <<head_vars, blockIndex, block_vars, free_vars>>

(* Two workers may defeat each other for ever; bounded by MAX_OVERCOMMIT.  *)
Spent(p) == dequeueOvercommit[p] >= MAX_OVERCOMMIT

Reserve(w) ==
  LET p == p_of(w) IN
  /\ pc[w] = "reserve" /\ ~Spent(p)
  /\ Step(w, "reserve", "again", [my[w] EXCEPT !.count = dequeueOptimisticCount[p]])
  /\ dequeueOptimisticCount' = Put(dequeueOptimisticCount, p, dequeueOptimisticCount[p] + 1)
  /\ UNCHANGED <<headIndex, dequeueOvercommit, blockIndex, block_vars, free_vars>>

(* A mistake: the tail is not looked at again.                             *)
Again_Unchecked(w) ==
  /\ Step(w, "again", "advance", my[w])
  /\ UNCHANGED <<head_vars, blockIndex, block_vars, free_vars>>

Again(w) ==
  /\ pc[w] = "again"
  /\ Step(w, "again", IF my[w].count - my[w].over < tailIndex[p_of(w)]
                      THEN "advance" ELSE "giveback", my[w])
  /\ UNCHANGED <<head_vars, blockIndex, block_vars, free_vars>>

(* A mistake: nothing is given back.                                       *)
GiveBack_Nothing(w) ==
  /\ Step(w, "giveback", "nextsub", my[w])
  /\ UNCHANGED <<head_vars, blockIndex, block_vars, free_vars>>

GiveBack(w) ==
  LET p == p_of(w) IN
  /\ Step(w, "giveback", "nextsub", my[w])
  /\ dequeueOvercommit' = Put(dequeueOvercommit, p, dequeueOvercommit[p] + 1)
  /\ UNCHANGED <<headIndex, dequeueOptimisticCount, blockIndex, block_vars, free_vars>>

Advance(w) ==
  LET p == p_of(w) IN
  /\ Step(w, "advance", "lookup", [my[w] EXCEPT !.index = headIndex[p]])
  /\ headIndex' = Put(headIndex, p, headIndex[p] + 1)
  /\ UNCHANGED <<dequeueOptimisticCount, dequeueOvercommit, blockIndex, block_vars,
                 free_vars>>

(* get_block_index_entry_for_index: the index's tail, then the entry, and  *)
(* the element in its block.                                               *)
LookUp(w) ==
  /\ Step(w, "lookup", "locate", [my[w] EXCEPT !.slot = blockIndexTail[p_of(w)]])
  /\ UNCHANGED <<head_vars, blockIndex, block_vars, free_vars>>

TakeElement_Count(w) ==   \* a mistake: the place of the count, not of the index
  LET e == EntryOf(p_of(w), my[w].index, my[w].slot)
      b == blockIndex[p_of(w)][e].value
  IN
  /\ pc[w] = "locate"
  /\ Step(w, "locate", "empty",
          [my[w] EXCEPT !.slot = e, !.block = b,
                        !.item = elements[b][my[w].count % BLK_SIZE]])
  /\ UNCHANGED <<head_vars, blockIndex, block_vars, free_vars>>

TakeElement(w) ==
  LET e == EntryOf(p_of(w), my[w].index, my[w].slot)
      b == blockIndex[p_of(w)][e].value
  IN
  /\ pc[w] = "locate"
  /\ Step(w, "locate", "empty",
          [my[w] EXCEPT !.slot = e, !.block = b,
                        !.item = elements[b][my[w].index % BLK_SIZE]])
  /\ UNCHANGED <<head_vars, blockIndex, block_vars, free_vars>>

(* set_empty.                                                              *)
SetEmpty(w) ==
  LET b == my[w].block IN
  /\ pc[w] = "empty"
  /\ Step(w, "empty", IF elementsCompletelyDequeued[b] = BLK_SIZE - 1 THEN "unlink"
                      ELSE "dequeued", my[w])
  /\ elementsCompletelyDequeued' =
       Put(elementsCompletelyDequeued, b, elementsCompletelyDequeued[b] + 1)
  /\ UNCHANGED <<head_vars, blockIndex, elements, initialBlockPoolIndex, free_vars>>

(* A mistake: the block is not given back.                                 *)
Unlink_Leak(w) ==
  /\ Step(w, "unlink", "dequeued", my[w])
  /\ blockIndex' = [blockIndex EXCEPT ![p_of(w)][my[w].slot].value = Null]
  /\ UNCHANGED <<head_vars, block_vars, free_vars>>

Unlink(w) ==
  /\ Step(w, "unlink", "dequeued", my[w])
  /\ blockIndex' = [blockIndex EXCEPT ![p_of(w)][my[w].slot].value = Null]
  /\ StartAdd(w, my[w].block)
  /\ UNCHANGED <<head_vars, block_vars, freeListHead, freeListNext, freeListRefs>>

DequeueStep(w) ==
  /\ \/ LoadCounts(w) \/ Try(w) \/ Reserve(w) \/ Again(w) \/ GiveBack(w)
     \/ Advance(w) \/ LookUp(w) \/ TakeElement(w) \/ SetEmpty(w) \/ Unlink(w)
  /\ UNCHANGED <<hash_vars, tail_vars, blockIndexTail>>

=============================================================================
