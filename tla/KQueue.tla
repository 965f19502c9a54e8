------------------------------- MODULE KQueue -------------------------------
(***************************************************************************)
(* KQueue of kfifo.h: a ring of segments of k slots, shared by threads     *)
(* without a lock.  An item goes into any free slot of the segment at      *)
(* tail and comes out of any taken slot of the segment at head; a slot     *)
(* that holds 0 is free.                                                   *)
(*                                                                         *)
(* One action per access to an atomic: head, tail and the slots are        *)
(* std::atomic with the default order, so that accesses of different       *)
(* threads interleave and nothing else does.  The versions that the file   *)
(* plans for ("TODO versioning") are not in the code, nor here.            *)
(*                                                                         *)
(* A caller starts an operation with Enqueue or Dequeue and goes on at the *)
(* label "enqueued", "refused", "dequeued" or "nothing".                   *)
(***************************************************************************)
EXTENDS Naturals

CONSTANTS Threads, size, k

ASSUME QueueAssumption ==
  k \in Nat \ {0} /\ size \in Nat \ {0} /\ size % k = 0

VARIABLES
  head, tail,  \* first slot of the first and of the last segment
  arr,         \* the slots
  pc,          \* where a thread is
  reg          \* locals of a thread's operation

Slots == 0 .. size - 1
NoSlot == size

(* Locals: the item to store (new_item) or read from a slot (old), the     *)
(* values of tail_old, head_old and head_curr, the slot findIndex chose,   *)
(* and where a loop over a segment stands: from is the random start of     *)
(* findIndex, i counts.                                                    *)
NoReg == [item |-> 0, tail_old |-> 0, head_old |-> 0, head_curr |-> 0,
          index |-> NoSlot, from |-> 0, i |-> 0]

QInit ==
  /\ head = 0 /\ tail = 0
  /\ arr = [s \in Slots |-> 0]
  /\ pc = [t \in Threads |-> "idle"]
  /\ reg = [t \in Threads |-> NoReg]

-----------------------------------------------------------------------------
(* Shorthands: a step of t from label l to label m; a step that only       *)
(* changes its locals; the effect of compare_exchange_strong(old, ...) on  *)
(* head or tail, whose outcome the code does not look at.                  *)
Jump(t, l, m) == pc[t] = l /\ pc' = [pc EXCEPT ![t] = m]
Note(t, r) == reg' = [reg EXCEPT ![t] = r] /\ UNCHANGED <<head, tail, arr>>
Only(t) == UNCHANGED <<head, tail, arr, reg>>
Swing(x, old) == IF x = old THEN (old + k) % size ELSE x

Enqueue(t, v) == Note(t, [NoReg EXCEPT !.item = v])
Dequeue(t) == Note(t, NoReg)

(* findIndex, one load at a time: the slots of the segment at start from a *)
(* random one on, until one is free (empty) or taken (~empty).             *)
StartFind(t, r) ==
  \E n \in 0 .. k - 1 :
    Note(t, [r EXCEPT !.from = n, !.i = 0, !.index = NoSlot])

FindIndex(t, start, empty, l, m) ==
  LET r == reg[t]
      s == (start + ((r.from + r.i) % k)) % size
      hit == empty <=> arr[s] = 0
  IN  \/ /\ hit /\ Jump(t, l, m)
         /\ Note(t, [r EXCEPT !.index = s, !.from = 0, !.i = 0,
                              !.item = IF empty THEN @ ELSE arr[s]])
      \/ /\ ~hit /\ r.i < k - 1 /\ Jump(t, l, l)
         /\ Note(t, [r EXCEPT !.i = @ + 1])
      \/ /\ ~hit /\ r.i = k - 1 /\ Jump(t, l, m)
         /\ Note(t, [r EXCEPT !.from = 0, !.i = 0])

-----------------------------------------------------------------------------
(* enqueue.                                                                *)

EnqLoadTail(t) ==
  /\ Jump(t, "enq_tail", "enq_head")
  /\ Note(t, [NoReg EXCEPT !.item = reg[t].item, !.tail_old = tail])

EnqLoadHead(t) ==
  /\ Jump(t, "enq_head", "enq_find")
  /\ StartFind(t, [reg[t] EXCEPT !.head_old = head])

EnqFind(t) == FindIndex(t, reg[t].tail_old, TRUE, "enq_find", "enq_check")

EnqCheck(t) ==
  /\ Jump(t, "enq_check", IF tail # reg[t].tail_old THEN "enq_tail"
                          ELSE IF reg[t].index # NoSlot THEN "enq_cas"
                          ELSE "enq_full")
  /\ Only(t)

(* A bug to tell apart: the item is stored without a comparison.           *)
EnqCas_Store(t) ==
  /\ Jump(t, "enq_cas", "com_slot")
  /\ arr' = [arr EXCEPT ![reg[t].index] = reg[t].item]
  /\ UNCHANGED <<head, tail, reg>>

EnqCas(t) ==
  /\ pc[t] = "enq_cas"
  /\ \/ /\ arr[reg[t].index] = 0
        /\ arr' = [arr EXCEPT ![reg[t].index] = reg[t].item]
        /\ Jump(t, "enq_cas", "com_slot")
     \/ /\ arr[reg[t].index] # 0
        /\ Jump(t, "enq_cas", "enq_tail") /\ UNCHANGED arr
  /\ UNCHANGED <<head, tail, reg>>

(* committed: note that it compares the first slot of the segment, not the *)
(* slot the item went into.                                                *)
CommittedSlot(t) ==
  /\ Jump(t, "com_slot", IF arr[reg[t].tail_old] # reg[t].item
                         THEN "enqueued" ELSE "com_head")
  /\ Only(t)

CommittedHead(t) ==
  /\ Jump(t, "com_head", "com_tail")
  /\ Note(t, [reg[t] EXCEPT !.head_curr = head])

(* in_valid_region and not_in_valid_region are one test, so that the       *)
(* branch of the second is dead.                                           *)
CommittedTail(t) ==
  /\ Jump(t, "com_tail", IF tail < reg[t].head_curr
                         THEN "enqueued" ELSE "com_cas")
  /\ Only(t)

CommittedCas(t) ==
  /\ Jump(t, "com_cas", IF head = reg[t].head_curr
                        THEN "enqueued" ELSE "com_undo")
  /\ Only(t)

CommittedUndo(t) ==
  /\ pc[t] = "com_undo"
  /\ \/ /\ arr[reg[t].index] = reg[t].item
        /\ arr' = [arr EXCEPT ![reg[t].index] = 0]
        /\ Jump(t, "com_undo", "enq_tail")
     \/ /\ arr[reg[t].index] # reg[t].item
        /\ Jump(t, "com_undo", "enqueued") /\ UNCHANGED arr
  /\ UNCHANGED <<head, tail, reg>>

is_queue_full(t) ==
  /\ LET full == (reg[t].tail_old + k) % size = reg[t].head_old
                   /\ reg[t].head_old = head
     IN  Jump(t, "enq_full", IF full THEN "enq_scan" ELSE "enq_move_tail")
  /\ Only(t)

segment_has_stuff(t) ==
  LET r == reg[t]
      stuff == arr[(r.head_old + r.i) % size] # 0
  IN  \/ stuff /\ Jump(t, "enq_scan", "enq_recheck") /\ Only(t)
      \/ /\ ~stuff /\ r.i < k - 1 /\ Jump(t, "enq_scan", "enq_scan")
         /\ Note(t, [r EXCEPT !.i = @ + 1])
      \/ ~stuff /\ r.i = k - 1 /\ Jump(t, "enq_scan", "enq_move_head") /\ Only(t)

EnqRecheck(t) ==
  /\ Jump(t, "enq_recheck", IF head = reg[t].head_old
                            THEN "refused" ELSE "enq_move_head")
  /\ Only(t)

EnqMoveHead(t) ==
  /\ Jump(t, "enq_move_head", "enq_move_tail")
  /\ head' = Swing(head, reg[t].head_old)
  /\ UNCHANGED <<tail, arr, reg>>

(* A bug to tell apart: the tail is not wrapped around the ring.           *)
EnqMoveTail_NoWrap(t) ==
  /\ Jump(t, "enq_move_tail", "enq_tail")
  /\ tail' = IF tail = reg[t].tail_old THEN tail + k ELSE tail
  /\ UNCHANGED <<head, arr, reg>>

EnqMoveTail(t) ==
  /\ Jump(t, "enq_move_tail", "enq_tail")
  /\ tail' = Swing(tail, reg[t].tail_old)
  /\ UNCHANGED <<head, arr, reg>>

-----------------------------------------------------------------------------
(* dequeue.                                                                *)

DeqLoadHead(t) ==
  /\ Jump(t, "deq_head", "deq_find")
  /\ StartFind(t, [NoReg EXCEPT !.head_old = head])

DeqFind(t) == FindIndex(t, reg[t].head_old, FALSE, "deq_find", "deq_tail")

DeqLoadTail(t) ==
  /\ Jump(t, "deq_tail", "deq_check")
  /\ Note(t, [reg[t] EXCEPT !.tail_old = tail])

DeqCheck(t) ==
  LET r == reg[t]
      alone == r.head_old = r.tail_old
  IN  /\ Jump(t, "deq_check",
              IF head # r.head_old THEN "deq_head"
              ELSE IF r.index # NoSlot
                   THEN IF alone THEN "deq_move_tail" ELSE "deq_cas"
                   ELSE IF alone THEN "deq_recheck" ELSE "deq_move_head")
      /\ Only(t)

DeqMoveTail(t) ==
  /\ Jump(t, "deq_move_tail", "deq_cas")
  /\ tail' = Swing(tail, reg[t].tail_old)
  /\ UNCHANGED <<head, arr, reg>>

DeqCas(t) ==
  /\ pc[t] = "deq_cas"
  /\ \/ /\ arr[reg[t].index] = reg[t].item
        /\ arr' = [arr EXCEPT ![reg[t].index] = 0]
        /\ Jump(t, "deq_cas", "dequeued")
     \/ /\ arr[reg[t].index] # reg[t].item
        /\ Jump(t, "deq_cas", "deq_head") /\ UNCHANGED arr
  /\ UNCHANGED <<head, tail, reg>>

DeqRecheck(t) ==
  /\ Jump(t, "deq_recheck", IF tail = reg[t].tail_old
                            THEN "nothing" ELSE "deq_move_head")
  /\ Only(t)

DeqMoveHead(t) ==
  /\ Jump(t, "deq_move_head", "deq_head")
  /\ head' = Swing(head, reg[t].head_old)
  /\ UNCHANGED <<tail, arr, reg>>

EnqStep(t) ==
  \/ EnqLoadTail(t) \/ EnqLoadHead(t) \/ EnqFind(t) \/ EnqCheck(t)
  \/ EnqCas(t) \/ CommittedSlot(t) \/ CommittedHead(t) \/ CommittedTail(t)
  \/ CommittedCas(t) \/ CommittedUndo(t) \/ is_queue_full(t)
  \/ segment_has_stuff(t) \/ EnqRecheck(t) \/ EnqMoveHead(t) \/ EnqMoveTail(t)

DeqStep(t) ==
  \/ DeqLoadHead(t) \/ DeqFind(t) \/ DeqLoadTail(t) \/ DeqCheck(t)
  \/ DeqMoveTail(t) \/ DeqCas(t) \/ DeqRecheck(t) \/ DeqMoveHead(t)
=============================================================================
