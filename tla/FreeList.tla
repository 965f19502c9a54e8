------------------------------ MODULE FreeList ------------------------------
(***************************************************************************)
(* The lock-free list of free blocks of concurrentqueue.h: a stack whose   *)
(* nodes count the threads that look at them, so that a node is not put    *)
(* back while one of them still holds it.  A thread that finds a node      *)
(* counted leaves the flag SHOULD_BE_ON_FREELIST, and the last one to let  *)
(* go of the node puts it back.  Each access to a shared variable that     *)
(* another thread can tell is a step; a failed comparison of the counter   *)
(* is the same as one more turn of try_get's loop.                         *)
(***************************************************************************)
EXTENDS Integers, FiniteSets, Sequences, SequencesExt

CONSTANTS Actors,    \* the threads
          Blocks,    \* the nodes
          Null

ASSUME FreeListAssumption ==
  IsFiniteSet(Actors) /\ IsFiniteSet(Blocks) /\ Null \notin Actors \cup Blocks

VARIABLES
  freeListHead,
  freeListNext,
  freeListRefs,   \* [n, should]: references, the list's own one included
  fl              \* per thread: at, and the local variables

free_vars == <<freeListHead, freeListNext, freeListRefs, fl>>

(* getting is set in try_get, whose loop goes on with head.                *)
Idle == [at |-> "idle", getting |-> FALSE, head |-> Null, next |-> Null,
         node |-> Null]

FreeListInit ==
  /\ freeListHead = Null
  /\ freeListNext = [b \in Blocks |-> Null]
  /\ freeListRefs = [b \in Blocks |-> [n |-> 0, should |-> FALSE]]
  /\ fl = [a \in Actors |-> Idle]

At(a, l) == fl[a].at = l
Go(a, r) == fl' = [fl EXCEPT ![a] = r]
Refs(b, r) == freeListRefs' = [freeListRefs EXCEPT ![b] = r]

(* The node that try_get returned last, Null if there was none.            *)
Gotten(a) == fl[a].node

-----------------------------------------------------------------------------
(* add and add_knowing_refcount_is_zero.                                   *)

StartAdd(a, b) == Go(a, [Idle EXCEPT !.at = "add", !.node = b])

(* The end of add, which in try_get is the next turn of the loop.          *)
Added(r) == IF r.getting
            THEN [r EXCEPT !.at = IF r.next = Null THEN "idle" ELSE "ref",
                           !.head = r.next, !.node = Null]
            ELSE Idle

Add(a) ==
  LET b == fl[a].node IN
  /\ At(a, "add")
  /\ Refs(b, [freeListRefs[b] EXCEPT !.should = TRUE])
  /\ Go(a, IF freeListRefs[b].n = 0 THEN [fl[a] EXCEPT !.at = "top"]
           ELSE Added(fl[a]))
  /\ UNCHANGED <<freeListHead, freeListNext>>

LoadTop(a) ==
  /\ At(a, "top")
  /\ Go(a, [fl[a] EXCEPT !.at = "link", !.head = freeListHead])
  /\ UNCHANGED <<freeListHead, freeListNext, freeListRefs>>

Link(a) ==
  /\ At(a, "link")
  /\ freeListNext' = [freeListNext EXCEPT ![fl[a].node] = fl[a].head]
  /\ Go(a, [fl[a] EXCEPT !.at = "count"])
  /\ UNCHANGED <<freeListHead, freeListRefs>>

CountList(a) ==
  /\ At(a, "count")
  /\ Refs(fl[a].node, [n |-> 1, should |-> FALSE])
  /\ Go(a, [fl[a] EXCEPT !.at = "push"])
  /\ UNCHANGED <<freeListHead, freeListNext>>

Push(a) ==
  /\ At(a, "push")
  /\ \/ /\ freeListHead = fl[a].head
        /\ freeListHead' = fl[a].node
        /\ Go(a, Added(fl[a]))
     \/ /\ freeListHead # fl[a].head
        /\ Go(a, [fl[a] EXCEPT !.at = "undo", !.head = freeListHead])
        /\ UNCHANGED freeListHead
  /\ UNCHANGED <<freeListNext, freeListRefs>>

(* The node is not on the list: the list's reference is taken back.  If    *)
(* another thread has one, that thread puts the node on the list.          *)
Undo(a) ==
  LET b == fl[a].node IN
  /\ At(a, "undo")
  /\ Refs(b, [n |-> freeListRefs[b].n - 1, should |-> TRUE])
  /\ Go(a, IF freeListRefs[b].n = 1 THEN [fl[a] EXCEPT !.at = "link"]
           ELSE Added(fl[a]))
  /\ UNCHANGED <<freeListHead, freeListNext>>

-----------------------------------------------------------------------------
(* try_get.                                                                *)

StartGet(a) == Go(a, [Idle EXCEPT !.at = "load", !.getting = TRUE])

LoadHead(a) ==
  /\ At(a, "load")
  /\ Go(a, [fl[a] EXCEPT !.at = IF freeListHead = Null THEN "idle" ELSE "ref",
                         !.head = freeListHead])
  /\ UNCHANGED <<freeListHead, freeListNext, freeListRefs>>

Reference(a) ==
  LET b == fl[a].head IN
  /\ At(a, "ref")
  /\ \/ /\ freeListRefs[b].n = 0
        /\ Go(a, [fl[a] EXCEPT !.at = "load"]) /\ UNCHANGED freeListRefs
     \/ /\ freeListRefs[b].n > 0
        /\ Refs(b, [freeListRefs[b] EXCEPT !.n = @ + 1])
        /\ Go(a, [fl[a] EXCEPT !.at = "next"])
  /\ UNCHANGED <<freeListHead, freeListNext>>

LoadNext(a) ==
  /\ At(a, "next")
  /\ Go(a, [fl[a] EXCEPT !.at = "pop", !.next = freeListNext[fl[a].head]])
  /\ UNCHANGED <<freeListHead, freeListNext, freeListRefs>>

(* A mistake: the head is stored without a comparison.                     *)
Pop_Blind(a) ==
  /\ At(a, "pop")
  /\ freeListHead' = fl[a].next
  /\ Go(a, [fl[a] EXCEPT !.at = "got"])
  /\ UNCHANGED <<freeListNext, freeListRefs>>

(* A failed exchange loads the new head.                                   *)
Pop(a) ==
  /\ At(a, "pop")
  /\ \/ /\ freeListHead = fl[a].head
        /\ freeListHead' = fl[a].next
        /\ Go(a, [fl[a] EXCEPT !.at = "got"])
     \/ /\ freeListHead # fl[a].head
        /\ Go(a, [fl[a] EXCEPT !.at = "drop", !.next = freeListHead])
        /\ UNCHANGED freeListHead
  /\ UNCHANGED <<freeListNext, freeListRefs>>

(* The list's reference and the thread's own.                              *)
Get(a) ==
  LET b == fl[a].head IN
  /\ At(a, "got")
  /\ Refs(b, [freeListRefs[b] EXCEPT !.n = @ - 2])
  /\ Go(a, [Idle EXCEPT !.node = b])
  /\ UNCHANGED <<freeListHead, freeListNext>>

Drop(a) ==
  LET b == fl[a].head
      r == [fl[a] EXCEPT !.node = b]
  IN
  /\ At(a, "drop")
  /\ Refs(b, [freeListRefs[b] EXCEPT !.n = @ - 1])
  /\ Go(a, IF freeListRefs[b] = [n |-> 1, should |-> TRUE]
           THEN [r EXCEPT !.at = "top"] ELSE Added(r))
  /\ UNCHANGED <<freeListHead, freeListNext>>

FreeListStep(a) ==
  \/ Add(a) \/ LoadTop(a) \/ Link(a) \/ CountList(a) \/ Push(a) \/ Undo(a)
  \/ LoadHead(a) \/ Reference(a) \/ LoadNext(a) \/ Pop(a) \/ Get(a) \/ Drop(a)

=============================================================================
