-------------------------- MODULE ParityCacheProofs --------------------------
(***************************************************************************)
(* Proofs about ParityCache and the queue of kfifo.h below it, for any     *)
(* number of threads, any ring of segments, any keys and any capacity.     *)
(***************************************************************************)
EXTENDS ParityCache, Integers, FiniteSetTheorems, TLAPS

(* The locals of an operation of the queue.                                *)
Registers ==
  [item : Keys \union {0}, tail_old : Slots, head_old : Slots,
   head_curr : Slots, index : Slots \union {NoSlot},
   from : 0 .. k - 1, i : 0 .. k - 1]

(* Where a thread has stored its item and enqueue has not returned yet;    *)
(* where it is inside enqueue; where its index is that of a slot.          *)
Committing == {"com_slot", "com_head", "com_tail", "com_cas", "com_undo"}
Stored == Committing \union {"enqueued"}
Enqueuing ==
  Stored \union {"enq_tail", "enq_head", "enq_find", "enq_check", "enq_cas",
                 "enq_full", "enq_scan", "enq_recheck", "enq_move_head",
                 "enq_move_tail"}
Indexed == Committing \union {"enq_cas", "deq_move_tail", "deq_cas"}

(* A thread in enqueue carries the key of its stripe, and it touches a     *)
(* slot only after it has chosen one.                                      *)
CarriesKey(t) ==
  /\ pc[t] \in Enqueuing => /\ stripe[t] \in Stripes
                            /\ reg[t].item = pchunk_soff(stripe[t])
  /\ pc[t] \in Indexed => reg[t].index \in Slots

(* The strengthening of TypeOK that is inductive.                          *)
TypeInv ==
  /\ head \in Slots /\ head % k = 0 /\ tail \in Slots /\ tail % k = 0
  /\ arr \in [Slots -> Keys \union {0}]
  /\ pc \in [Threads -> Labels]
  /\ reg \in [Threads -> Registers]
  /\ cached \subseteq Keys
  /\ stripe \in [Threads -> Stripes \union {NoStripe}]
  /\ inserts \in 0 .. MaxInserts
  /\ DOMAIN queued = Keys
  /\ \A t \in Threads : CarriesKey(t)

-----------------------------------------------------------------------------
(* The ring.                                                               *)

(* The next segment of the ring starts at a multiple of k again, because   *)
(* the size of the ring is one.                                            *)
LEMMA NextSegment ==
  ASSUME NEW x \in Slots, x % k = 0
  PROVE  (x + k) % size \in Slots /\ ((x + k) % size) % k = 0
<1>1. k \in Nat \ {0} /\ size \in Nat \ {0} /\ size % k = 0
  BY QueueAssumption
<1>2. x \in Nat /\ x < size
  BY <1>1 DEF Slots
<1>3. PICK a \in Nat : x = k * a
  <2>1. x = k * (x \div k) + (x % k) /\ x \div k \in Nat
    BY <1>1, <1>2
  <2>2. QED
    BY <1>1, <1>2, <2>1
<1>4. PICK b \in Nat : size = k * b
  <2>1. size = k * (size \div k) + (size % k) /\ size \div k \in Nat
    BY <1>1
  <2>2. QED
    BY <1>1, <2>1
<1>5. a < b
  BY <1>1, <1>2, <1>3, <1>4
<1>6. x + k = k * (a + 1) /\ x + k <= size
  BY <1>1, <1>3, <1>4, <1>5
<1>7. CASE x + k = size
  <2>1. (x + k) % size = 0 /\ 0 % k = 0
    BY <1>1, <1>2, <1>7
  <2>2. QED
    BY <1>1, <2>1 DEF Slots
<1>8. CASE x + k < size
  <2>1. (x + k) % size = x + k
    BY <1>1, <1>2, <1>8
  <2>2. (x + k) % k = 0
    BY <1>1, <1>6
  <2>3. QED
    BY <1>1, <1>2, <1>8, <2>1, <2>2 DEF Slots
<1>9. QED
  BY <1>1, <1>2, <1>6, <1>7, <1>8

(* head and tail stay on the first slots of segments.                      *)
LEMMA SwingInRing ==
  ASSUME NEW x \in Slots, x % k = 0, NEW y
  PROVE  Swing(x, y) \in Slots /\ Swing(x, y) % k = 0
BY NextSegment DEF Swing

LEMMA RingFacts ==
  /\ k \in Nat \ {0} /\ size \in Nat \ {0}
  /\ 0 \in Slots /\ 0 \in 0 .. k - 1 /\ NoReg \in Registers
  /\ \A x \in Nat : x % size \in Slots
<1>1. k \in Nat \ {0} /\ size \in Nat \ {0}
  BY QueueAssumption
<1>2. 0 \in Slots /\ 0 \in 0 .. k - 1
  BY <1>1 DEF Slots
<1>3. \A x \in Nat : x % size \in Slots
  BY <1>1 DEF Slots
<1>4. QED
  BY <1>1, <1>2, <1>3 DEF NoReg, Registers, NoSlot

-----------------------------------------------------------------------------
(* Types.                                                                  *)

(* A step of t to the label m with the locals r.                           *)
LEMMA ThreadStep ==
  ASSUME TypeInv, NEW t \in Threads, NEW m \in Labels, NEW r \in Registers,
         pc' = [pc EXCEPT ![t] = m], reg' = [reg EXCEPT ![t] = r],
         head' \in Slots, head' % k = 0, tail' \in Slots, tail' % k = 0,
         arr' \in [Slots -> Keys \union {0}],
         cached' \subseteq Keys,
         stripe' \in [Threads -> Stripes \union {NoStripe}],
         \A u \in Threads \ {t} : stripe'[u] = stripe[u],
         inserts' \in 0 .. MaxInserts, DOMAIN queued' = Keys,
         m \in Enqueuing => /\ stripe'[t] \in Stripes
                            /\ r.item = pchunk_soff(stripe'[t]),
         m \in Indexed => r.index \in Slots
  PROVE  TypeInv'
<1>1. /\ pc' \in [Threads -> Labels] /\ reg' \in [Threads -> Registers]
      /\ pc'[t] = m /\ reg'[t] = r
      /\ \A u \in Threads \ {t} : pc'[u] = pc[u] /\ reg'[u] = reg[u]
  BY DEF TypeInv
<1>2. CarriesKey(t)'
  BY <1>1 DEF CarriesKey
<1>3. ASSUME NEW u \in Threads \ {t}
      PROVE  CarriesKey(u)'
  BY <1>1, <1>3 DEF CarriesKey, TypeInv
<1>4. QED
  BY <1>1, <1>2, <1>3 DEF TypeInv

(* The same for a step of the queue that leaves the ring alone; the locals *)
(* may change.                                                             *)
LEMMA LocalStep ==
  ASSUME TypeInv, NEW t \in Threads, NEW m \in Labels, NEW r \in Registers,
         pc' = [pc EXCEPT ![t] = m], reg' = [reg EXCEPT ![t] = r],
         UNCHANGED <<head, tail, arr, cvars>>,
         m \in Enqueuing => pc[t] \in Enqueuing /\ r.item = reg[t].item,
         m \in Indexed => r.index \in Slots
  PROVE  TypeInv'
<1>1. m \in Enqueuing => /\ stripe'[t] \in Stripes
                         /\ r.item = pchunk_soff(stripe'[t])
  BY DEF TypeInv, CarriesKey, cvars
<1>2. /\ head' \in Slots /\ head' % k = 0 /\ tail' \in Slots /\ tail' % k = 0
      /\ arr' \in [Slots -> Keys \union {0}]
      /\ cached' \subseteq Keys
      /\ stripe' \in [Threads -> Stripes \union {NoStripe}]
      /\ \A u \in Threads \ {t} : stripe'[u] = stripe[u]
      /\ inserts' \in 0 .. MaxInserts /\ DOMAIN queued' = Keys
  BY DEF TypeInv, cvars
<1>3. QED
  BY <1>1, <1>2, ThreadStep

(* The same for one that does not change the locals but may move head or   *)
(* tail or change a slot.                                                  *)
LEMMA RingStep ==
  ASSUME TypeInv, NEW t \in Threads, NEW m \in Labels,
         pc' = [pc EXCEPT ![t] = m], UNCHANGED <<reg, cvars>>,
         head' \in Slots, head' % k = 0, tail' \in Slots, tail' % k = 0,
         arr' \in [Slots -> Keys \union {0}],
         m \in Enqueuing => pc[t] \in Enqueuing,
         m \in Indexed => reg[t].index \in Slots
  PROVE  TypeInv'
<1>1. reg[t] \in Registers /\ reg' = [reg EXCEPT ![t] = reg[t]]
  BY DEF TypeInv
<1>2. m \in Enqueuing => /\ stripe'[t] \in Stripes
                         /\ reg[t].item = pchunk_soff(stripe'[t])
  BY DEF TypeInv, CarriesKey, cvars
<1>3. /\ cached' \subseteq Keys
      /\ stripe' \in [Threads -> Stripes \union {NoStripe}]
      /\ \A u \in Threads \ {t} : stripe'[u] = stripe[u]
      /\ inserts' \in 0 .. MaxInserts /\ DOMAIN queued' = Keys
  BY DEF TypeInv, cvars
<1>4. QED
  BY <1>1, <1>2, <1>3, ThreadStep

(* findIndex, begun and continued.                                         *)
LEMMA StartFindTypes ==
  ASSUME TypeInv, NEW t \in Threads, NEW l, NEW m \in Labels, NEW r \in Registers,
         Jump(t, l, m), StartFind(t, r), UNCHANGED cvars, m \notin Indexed,
         m \in Enqueuing => pc[t] \in Enqueuing /\ r.item = reg[t].item
  PROVE  TypeInv'
<1>1. PICK n \in 0 .. k - 1 :
         Note(t, [r EXCEPT !.from = n, !.i = 0, !.index = NoSlot])
  BY DEF StartFind
<1> DEFINE s == [r EXCEPT !.from = n, !.i = 0, !.index = NoSlot]
<1>2. s \in Registers /\ s.item = r.item
  BY <1>1, RingFacts DEF Registers
<1>3. /\ pc' = [pc EXCEPT ![t] = m] /\ reg' = [reg EXCEPT ![t] = s]
      /\ UNCHANGED <<head, tail, arr>>
  BY <1>1 DEF Jump, Note
<1> HIDE DEF s
<1>4. QED
  BY <1>2, <1>3, LocalStep

LEMMA FindIndexTypes ==
  ASSUME TypeInv, NEW t \in Threads, NEW start \in Slots,
         NEW empty \in BOOLEAN, NEW l \in Labels, NEW m \in Labels,
         FindIndex(t, start, empty, l, m), UNCHANGED cvars,
         l \notin Indexed, m \notin Indexed,
         l \in Enqueuing <=> empty, m \in Enqueuing <=> empty
  PROVE  TypeInv'
<1> DEFINE r == reg[t]
           s == (start + ((r.from + r.i) % k)) % size
           found == [r EXCEPT !.index = s, !.from = 0, !.i = 0,
                              !.item = IF empty THEN @ ELSE arr[s]]
           next == [r EXCEPT !.i = @ + 1]
           none == [r EXCEPT !.from = 0, !.i = 0]
<1>1. r \in Registers
  BY DEF TypeInv
<1>2. s \in Slots
  <2>1. start \in Nat /\ r.from \in Nat /\ r.i \in Nat
    BY <1>1, RingFacts DEF Registers, Slots
  <2>2. (r.from + r.i) % k \in Nat
    BY <2>1, RingFacts
  <2>3. QED
    BY <2>1, <2>2, RingFacts
<1>3. arr[s] \in Keys \union {0}
  BY <1>2 DEF TypeInv
<1> HIDE DEF s
<1>4. pc[t] = l
  BY DEF FindIndex, Jump
<1>5. CASE Jump(t, l, m) /\ Note(t, found)
  <2>1. found \in Registers /\ (empty => found.item = r.item)
    BY <1>1, <1>2, <1>3, RingFacts DEF Registers
  <2>2. /\ pc' = [pc EXCEPT ![t] = m] /\ reg' = [reg EXCEPT ![t] = found]
        /\ UNCHANGED <<head, tail, arr>>
    BY <1>5 DEF Jump, Note
  <2> HIDE DEF found
  <2>3. QED
    BY <1>4, <2>1, <2>2, LocalStep
<1>6. CASE r.i < k - 1 /\ Jump(t, l, l) /\ Note(t, next)
  <2>1. next \in Registers /\ next.item = r.item
    BY <1>1, <1>6, RingFacts DEF Registers
  <2>2. /\ pc' = [pc EXCEPT ![t] = l] /\ reg' = [reg EXCEPT ![t] = next]
        /\ UNCHANGED <<head, tail, arr>>
    BY <1>6 DEF Jump, Note
  <2> HIDE DEF next
  <2>3. QED
    BY <1>4, <2>1, <2>2, LocalStep
<1>7. CASE Jump(t, l, m) /\ Note(t, none)
  <2>1. none \in Registers /\ none.item = r.item
    BY <1>1, RingFacts DEF Registers
  <2>2. /\ pc' = [pc EXCEPT ![t] = m] /\ reg' = [reg EXCEPT ![t] = none]
        /\ UNCHANGED <<head, tail, arr>>
    BY <1>7 DEF Jump, Note
  <2> HIDE DEF none
  <2>3. QED
    BY <1>4, <2>1, <2>2, LocalStep
<1>8. QED
  BY <1>5, <1>6, <1>7 DEF FindIndex, s

LEMMA EnqueueTypes ==
  ASSUME TypeInv, NEW t \in Threads, EnqStep(t), UNCHANGED cvars
  PROVE  TypeInv'
<1>1. reg[t] \in Registers /\ head \in Slots /\ tail \in Slots
      /\ head % k = 0 /\ tail % k = 0 /\ arr \in [Slots -> Keys \union {0}]
  BY DEF TypeInv
<1>2. pc[t] \in Indexed => reg[t].index \in Slots
  BY DEF TypeInv, CarriesKey
<1>3. CASE EnqLoadTail(t)
  <2> DEFINE r == [NoReg EXCEPT !.item = reg[t].item, !.tail_old = tail]
  <2>1. r \in Registers /\ r.item = reg[t].item
    BY <1>1, RingFacts DEF Registers, NoReg
  <2>2. /\ pc' = [pc EXCEPT ![t] = "enq_head"] /\ reg' = [reg EXCEPT ![t] = r]
        /\ UNCHANGED <<head, tail, arr>> /\ pc[t] = "enq_tail"
    BY <1>3 DEF EnqLoadTail, Jump, Note
  <2> HIDE DEF r
  <2>3. QED
    BY <2>1, <2>2, LocalStep DEF Labels, Enqueuing, Indexed, Committing
<1>4. CASE EnqLoadHead(t)
  <2> DEFINE r == [reg[t] EXCEPT !.head_old = head]
  <2>1. r \in Registers /\ r.item = reg[t].item
    BY <1>1 DEF Registers
  <2>2. Jump(t, "enq_head", "enq_find") /\ StartFind(t, r)
    BY <1>4 DEF EnqLoadHead
  <2>3. pc[t] = "enq_head"
    BY <2>2 DEF Jump
  <2> HIDE DEF r
  <2>4. QED
    BY <2>1, <2>2, <2>3, StartFindTypes
       DEF Labels, Enqueuing, Indexed, Committing
<1>5. CASE EnqFind(t)
  <2>1. reg[t].tail_old \in Slots
    BY <1>1 DEF Registers
  <2>2. FindIndex(t, reg[t].tail_old, TRUE, "enq_find", "enq_check")
    BY <1>5 DEF EnqFind
  <2>3. /\ "enq_find" \in Labels /\ "enq_check" \in Labels
        /\ "enq_find" \notin Indexed /\ "enq_check" \notin Indexed
        /\ "enq_find" \in Enqueuing <=> TRUE
        /\ "enq_check" \in Enqueuing <=> TRUE
    BY DEF Labels, Enqueuing, Indexed, Committing
  <2>4. TRUE \in BOOLEAN
    OBVIOUS
  <2>5. QED
    BY <2>1, <2>2, <2>3, <2>4, FindIndexTypes, Zenon
<1>6. CASE EnqCheck(t)
  <2> DEFINE m == IF tail # reg[t].tail_old THEN "enq_tail"
                  ELSE IF reg[t].index # NoSlot THEN "enq_cas" ELSE "enq_full"
  <2>1. pc[t] = "enq_check" /\ pc' = [pc EXCEPT ![t] = m] /\ Only(t)
    BY <1>6 DEF EnqCheck, Jump
  <2>2. m \in {"enq_tail", "enq_full"} \/ (m = "enq_cas" /\ reg[t].index \in Slots)
    BY <1>1 DEF Registers
  <2> HIDE DEF m
  <2>3. /\ m \in Labels /\ pc[t] \in Enqueuing
        /\ m \in Indexed => reg[t].index \in Slots
    BY <2>1, <2>2 DEF Labels, Enqueuing, Indexed, Committing
  <2>4. QED
    BY <1>1, <2>1, <2>3, RingStep DEF Only
<1>7. CASE EnqCas(t)
  <2>1. pc[t] = "enq_cas" /\ UNCHANGED <<head, tail, reg>>
        /\ reg[t].index \in Slots
    BY <1>2, <1>7 DEF EnqCas, Indexed
  <2>2. \/ pc' = [pc EXCEPT ![t] = "com_slot"]
           /\ arr' = [arr EXCEPT ![reg[t].index] = reg[t].item]
        \/ pc' = [pc EXCEPT ![t] = "enq_tail"] /\ arr' = arr
    BY <1>7 DEF EnqCas, Jump
  <2>3. arr' \in [Slots -> Keys \union {0}]
    <3>1. reg[t].item \in Keys \union {0}
      BY <1>1 DEF Registers
    <3>2. QED
      BY <1>1, <2>2, <3>1
  <2>4. QED
    BY <1>1, <2>1, <2>2, <2>3, RingStep
       DEF Labels, Enqueuing, Indexed, Committing, Stored
<1>8. CASE CommittedSlot(t) \/ CommittedTail(t) \/ CommittedCas(t)
  <2>1. PICK m \in Stored : pc' = [pc EXCEPT ![t] = m]
    BY <1>8 DEF CommittedSlot, CommittedTail, CommittedCas, Jump, Stored,
                Committing
  <2>2. Only(t) /\ pc[t] \in Committing
    BY <1>8 DEF CommittedSlot, CommittedTail, CommittedCas, Jump, Committing
  <2>3. m \in Labels /\ m \in Enqueuing /\ pc[t] \in Enqueuing
        /\ reg[t].index \in Slots
    BY <1>2, <2>1, <2>2 DEF Enqueuing, Labels, Stored, Committing, Indexed
  <2>4. QED
    BY <1>1, <2>1, <2>2, <2>3, RingStep DEF Only
<1>9. CASE CommittedHead(t)
  <2> DEFINE r == [reg[t] EXCEPT !.head_curr = head]
  <2>1. r \in Registers /\ r.item = reg[t].item /\ r.index = reg[t].index
    BY <1>1 DEF Registers
  <2>2. /\ pc' = [pc EXCEPT ![t] = "com_tail"] /\ reg' = [reg EXCEPT ![t] = r]
        /\ UNCHANGED <<head, tail, arr>> /\ pc[t] = "com_head"
    BY <1>9 DEF CommittedHead, Jump, Note
  <2> HIDE DEF r
  <2>3. QED
    BY <1>2, <2>1, <2>2, LocalStep
       DEF Labels, Enqueuing, Indexed, Committing, Stored
<1>10. CASE CommittedUndo(t)
  <2>1. pc[t] = "com_undo" /\ UNCHANGED <<head, tail, reg>>
    BY <1>10 DEF CommittedUndo
  <2>2. \/ pc' = [pc EXCEPT ![t] = "enq_tail"]
           /\ arr' = [arr EXCEPT ![reg[t].index] = 0]
        \/ pc' = [pc EXCEPT ![t] = "enqueued"] /\ arr' = arr
    BY <1>10 DEF CommittedUndo, Jump
  <2>3. arr' \in [Slots -> Keys \union {0}]
    BY <1>1, <2>2
  <2>4. QED
    BY <1>1, <2>1, <2>2, <2>3, RingStep
       DEF Labels, Enqueuing, Indexed, Committing, Stored
<1>11. CASE is_queue_full(t) \/ EnqRecheck(t)
  <2>1. PICK m \in {"enq_scan", "enq_move_tail", "refused", "enq_move_head"} :
          pc' = [pc EXCEPT ![t] = m]
    BY <1>11 DEF is_queue_full, EnqRecheck, Jump
  <2>2. Only(t) /\ pc[t] \in {"enq_full", "enq_recheck"}
    BY <1>11 DEF is_queue_full, EnqRecheck, Jump
  <2>3. m \in Labels /\ m \notin Indexed /\ pc[t] \in Enqueuing
    BY <2>1, <2>2 DEF Enqueuing, Labels, Committing, Indexed
  <2>4. QED
    BY <1>1, <2>1, <2>2, <2>3, RingStep DEF Only
<1>12. CASE segment_has_stuff(t)
  <2> DEFINE r == [reg[t] EXCEPT !.i = @ + 1]
  <2>1. CASE \E m \in {"enq_recheck", "enq_move_head"} :
               Jump(t, "enq_scan", m) /\ Only(t)
    <3>1. PICK m \in {"enq_recheck", "enq_move_head"} :
                 Jump(t, "enq_scan", m) /\ Only(t)
      BY <2>1
    <3>2. pc[t] \in Enqueuing /\ m \in Labels /\ m \notin Indexed
      BY <3>1 DEF Jump, Labels, Enqueuing, Indexed, Committing
    <3>3. pc' = [pc EXCEPT ![t] = m] /\ Only(t)
      BY <3>1 DEF Jump
    <3>4. QED
      BY <1>1, <3>2, <3>3, RingStep DEF Only
  <2>2. CASE reg[t].i < k - 1 /\ Jump(t, "enq_scan", "enq_scan") /\ Note(t, r)
    <3>1. r \in Registers /\ r.item = reg[t].item
      BY <1>1, <2>2, RingFacts DEF Registers
    <3>2. /\ pc' = [pc EXCEPT ![t] = "enq_scan"] /\ reg' = [reg EXCEPT ![t] = r]
          /\ UNCHANGED <<head, tail, arr>> /\ pc[t] = "enq_scan"
      BY <2>2 DEF Jump, Note
    <3> HIDE DEF r
    <3>3. QED
      BY <3>1, <3>2, LocalStep DEF Labels, Enqueuing, Indexed, Committing
  <2>3. QED
    BY <1>12, <2>1, <2>2 DEF segment_has_stuff
<1>13. CASE EnqMoveHead(t)
  <2>1. /\ pc[t] = "enq_move_head" /\ pc' = [pc EXCEPT ![t] = "enq_move_tail"]
        /\ head' = Swing(head, reg[t].head_old)
        /\ UNCHANGED <<tail, arr, reg>>
    BY <1>13 DEF EnqMoveHead, Jump
  <2>2. head' \in Slots /\ head' % k = 0
    BY <1>1, <2>1, SwingInRing
  <2>3. QED
    BY <1>1, <2>1, <2>2, RingStep DEF Labels, Enqueuing, Indexed, Committing
<1>14. CASE EnqMoveTail(t)
  <2>1. /\ pc[t] = "enq_move_tail" /\ pc' = [pc EXCEPT ![t] = "enq_tail"]
        /\ tail' = Swing(tail, reg[t].tail_old)
        /\ UNCHANGED <<head, arr, reg>>
    BY <1>14 DEF EnqMoveTail, Jump
  <2>2. tail' \in Slots /\ tail' % k = 0
    BY <1>1, <2>1, SwingInRing
  <2>3. QED
    BY <1>1, <2>1, <2>2, RingStep DEF Labels, Enqueuing, Indexed, Committing
<1>15. QED
  BY <1>3, <1>4, <1>5, <1>6, <1>7, <1>8, <1>9, <1>10, <1>11, <1>12, <1>13,
     <1>14 DEF EnqStep

LEMMA DequeueTypes ==
  ASSUME TypeInv, NEW t \in Threads, DeqStep(t), UNCHANGED cvars
  PROVE  TypeInv'
<1>1. reg[t] \in Registers /\ head \in Slots /\ tail \in Slots
      /\ head % k = 0 /\ tail % k = 0 /\ arr \in [Slots -> Keys \union {0}]
  BY DEF TypeInv
<1>2. pc[t] \in Indexed => reg[t].index \in Slots
  BY DEF TypeInv, CarriesKey
<1>3. CASE DeqLoadHead(t)
  <2> DEFINE r == [NoReg EXCEPT !.head_old = head]
  <2>1. r \in Registers
    BY <1>1, RingFacts DEF Registers, NoReg
  <2>2. Jump(t, "deq_head", "deq_find") /\ StartFind(t, r)
    BY <1>3 DEF DeqLoadHead
  <2> HIDE DEF r
  <2>3. QED
    BY <2>1, <2>2, StartFindTypes
       DEF Labels, Enqueuing, Indexed, Committing, Stored
<1>4. CASE DeqFind(t)
  <2>1. reg[t].head_old \in Slots
    BY <1>1 DEF Registers
  <2>2. FindIndex(t, reg[t].head_old, FALSE, "deq_find", "deq_tail")
    BY <1>4 DEF DeqFind
  <2>3. /\ "deq_find" \in Labels /\ "deq_tail" \in Labels
        /\ "deq_find" \notin Indexed /\ "deq_tail" \notin Indexed
        /\ "deq_find" \in Enqueuing <=> FALSE
        /\ "deq_tail" \in Enqueuing <=> FALSE
    BY DEF Labels, Enqueuing, Indexed, Committing, Stored
  <2>4. QED
    BY <2>1, <2>2, <2>3, FindIndexTypes
<1>5. CASE DeqLoadTail(t)
  <2> DEFINE r == [reg[t] EXCEPT !.tail_old = tail]
  <2>1. r \in Registers
    BY <1>1 DEF Registers
  <2>2. /\ pc' = [pc EXCEPT ![t] = "deq_check"] /\ reg' = [reg EXCEPT ![t] = r]
        /\ UNCHANGED <<head, tail, arr>>
    BY <1>5 DEF DeqLoadTail, Jump, Note
  <2> HIDE DEF r
  <2>3. /\ "deq_check" \in Labels /\ "deq_check" \notin Enqueuing
        /\ "deq_check" \notin Indexed
    BY DEF Labels, Enqueuing, Indexed, Committing, Stored
  <2>4. QED
    BY <2>1, <2>2, <2>3, LocalStep
<1>6. CASE DeqCheck(t)
  <2>1. PICK m \in {"deq_head", "deq_move_tail", "deq_cas", "deq_recheck",
                    "deq_move_head"} :
          /\ pc' = [pc EXCEPT ![t] = m]
          /\ m \in {"deq_move_tail", "deq_cas"} => reg[t].index # NoSlot
    BY <1>6 DEF DeqCheck, Jump
  <2>2. Only(t)
    BY <1>6 DEF DeqCheck
  <2>3. m \in Labels /\ m \notin Enqueuing
        /\ (m \in Indexed => reg[t].index \in Slots)
    BY <1>1, <2>1 DEF Registers, Labels, Enqueuing, Indexed, Committing, Stored
  <2>4. QED
    BY <1>1, <2>1, <2>2, <2>3, RingStep DEF Only
<1>7. CASE DeqMoveTail(t)
  <2>1. /\ pc[t] = "deq_move_tail" /\ pc' = [pc EXCEPT ![t] = "deq_cas"]
        /\ tail' = Swing(tail, reg[t].tail_old)
        /\ UNCHANGED <<head, arr, reg>>
    BY <1>7 DEF DeqMoveTail, Jump
  <2>2. tail' \in Slots /\ tail' % k = 0
    BY <1>1, <2>1, SwingInRing
  <2>3. QED
    BY <1>1, <1>2, <2>1, <2>2, RingStep
       DEF Labels, Enqueuing, Indexed, Committing, Stored
<1>8. CASE DeqCas(t)
  <2>1. UNCHANGED <<head, tail, reg>>
    BY <1>8 DEF DeqCas
  <2>2. \/ pc' = [pc EXCEPT ![t] = "dequeued"]
           /\ arr' = [arr EXCEPT ![reg[t].index] = 0]
        \/ pc' = [pc EXCEPT ![t] = "deq_head"] /\ arr' = arr
    BY <1>8 DEF DeqCas, Jump
  <2>3. arr' \in [Slots -> Keys \union {0}]
    BY <1>1, <2>2
  <2>4. QED
    BY <1>1, <2>1, <2>2, <2>3, RingStep
       DEF Labels, Enqueuing, Indexed, Committing, Stored
<1>9. CASE DeqRecheck(t)
  <2>1. PICK m \in {"nothing", "deq_move_head"} : pc' = [pc EXCEPT ![t] = m]
    BY <1>9 DEF DeqRecheck, Jump
  <2>2. Only(t)
    BY <1>9 DEF DeqRecheck
  <2>3. m \in Labels /\ m \notin Enqueuing /\ m \notin Indexed
    BY <2>1 DEF Labels, Enqueuing, Indexed, Committing, Stored
  <2>4. QED
    BY <1>1, <2>1, <2>2, <2>3, RingStep DEF Only
<1>10. CASE DeqMoveHead(t)
  <2>1. /\ pc' = [pc EXCEPT ![t] = "deq_head"]
        /\ head' = Swing(head, reg[t].head_old)
        /\ UNCHANGED <<tail, arr, reg>>
    BY <1>10 DEF DeqMoveHead, Jump
  <2>2. head' \in Slots /\ head' % k = 0
    BY <1>1, <2>1, SwingInRing
  <2>3. QED
    BY <1>1, <2>1, <2>2, RingStep
       DEF Labels, Enqueuing, Indexed, Committing, Stored
<1>11. QED
  BY <1>3, <1>4, <1>5, <1>6, <1>7, <1>8, <1>9, <1>10 DEF DeqStep

LEMMA KeyOf ==
  ASSUME NEW s \in Stripes
  PROVE  pchunk_soff(s) \in Keys
BY DEF Keys

LEMMA TypeInvInit == Init => TypeInv
<1> SUFFICES ASSUME Init PROVE TypeInv
  OBVIOUS
<1>1. /\ head = 0 /\ tail = 0 /\ arr = [s \in Slots |-> 0]
      /\ pc = [t \in Threads |-> "idle"] /\ reg = [t \in Threads |-> NoReg]
  BY DEF Init, QInit
<1>2. 0 % k = 0 /\ 0 \in 0 .. MaxInserts
  BY RingFacts, CacheAssumption
<1>3. QED
  BY <1>1, <1>2, RingFacts
     DEF Init, TypeInv, CarriesKey, Labels, Enqueuing, Indexed, Committing,
         Stored

LEMMA TypeInvStep == TypeInv /\ [Next]_vars => TypeInv'
<1> SUFFICES ASSUME TypeInv, [Next]_vars PROVE TypeInv'
  OBVIOUS
<1>1. ASSUME NEW t \in Threads, Step(t)
      PROVE  TypeInv'
  <2>1. /\ reg[t] \in Registers /\ head \in Slots /\ tail \in Slots
        /\ head % k = 0 /\ tail % k = 0 /\ arr \in [Slots -> Keys \union {0}]
        /\ cached \subseteq Keys /\ DOMAIN queued = Keys
        /\ inserts \in 0 .. MaxInserts
        /\ stripe \in [Threads -> Stripes \union {NoStripe}]
    BY DEF TypeInv
  <2>2. ASSUME insert_cpy(t)
        PROVE  TypeInv'
    <3>1. PICK s \in Stripes :
            /\ inserts < MaxInserts
            /\ Jump(t, "idle", "enq_tail") /\ Enqueue(t, pchunk_soff(s))
            /\ stripe' = [stripe EXCEPT ![t] = s] /\ inserts' = inserts + 1
            /\ UNCHANGED <<cached, queued>>
      BY <2>2 DEF insert_cpy
    <3> DEFINE r == [NoReg EXCEPT !.item = pchunk_soff(s)]
    <3>2. r \in Registers /\ r.item = pchunk_soff(s)
      BY KeyOf, RingFacts DEF Registers, NoReg
    <3>3. /\ pc' = [pc EXCEPT ![t] = "enq_tail"] /\ reg' = [reg EXCEPT ![t] = r]
          /\ UNCHANGED <<head, tail, arr>>
      BY <3>1 DEF Jump, Enqueue, Note
    <3>4. inserts' \in 0 .. MaxInserts
      BY <2>1, <3>1, CacheAssumption
    <3>5. /\ stripe' \in [Threads -> Stripes \union {NoStripe}]
          /\ \A u \in Threads \ {t} : stripe'[u] = stripe[u]
          /\ stripe'[t] = s
      BY <2>1, <3>1
    <3>6. "enq_tail" \in Labels /\ "enq_tail" \notin Indexed
      BY DEF Labels, Indexed, Committing
    <3> HIDE DEF r
    <3>7. QED
      BY <2>1, <3>1, <3>2, <3>3, <3>4, <3>5, <3>6, ThreadStep
  <2>3. ASSUME Store(t)
        PROVE  TypeInv'
    <3>1. /\ pc[t] = "enqueued" /\ pc' = [pc EXCEPT ![t] = "size"]
          /\ reg' = [reg EXCEPT ![t] = NoReg]
          /\ UNCHANGED <<head, tail, arr, stripe, inserts>>
          /\ cached' = cached \union {pchunk_soff(stripe[t])}
          /\ DOMAIN queued' = Keys
      BY <2>1, <2>3 DEF Store, Jump, Note
    <3>2. stripe[t] \in Stripes
      BY <3>1 DEF TypeInv, CarriesKey, Enqueuing, Stored
    <3>3. cached' \subseteq Keys
      BY <2>1, <3>1, <3>2, KeyOf
    <3>4. "size" \in Labels /\ "size" \notin Indexed /\ "size" \notin Enqueuing
      BY DEF Labels, Indexed, Committing, Enqueuing, Stored
    <3>5. QED
      BY <2>1, <3>1, <3>3, <3>4, RingFacts, ThreadStep
  <2>4. ASSUME CheckSize(t)
        PROVE  TypeInv'
    <3>1. PICK m \in {"deq_head", "idle"} : pc' = [pc EXCEPT ![t] = m]
      BY <2>4 DEF CheckSize, Jump
    <3>2. /\ reg' = [reg EXCEPT ![t] = NoReg]
          /\ UNCHANGED <<head, tail, arr, cached, inserts, queued>>
          /\ stripe' = stripe \/ stripe' = [stripe EXCEPT ![t] = NoStripe]
      BY <2>4 DEF CheckSize, Dequeue, Note, Return
    <3>3. /\ stripe' \in [Threads -> Stripes \union {NoStripe}]
          /\ \A u \in Threads \ {t} : stripe'[u] = stripe[u]
      BY <2>1, <3>2
    <3>4. m \in Labels /\ m \notin Indexed /\ m \notin Enqueuing
      BY <3>1 DEF Labels, Indexed, Committing, Enqueuing, Stored
    <3>5. QED
      BY <2>1, <3>1, <3>2, <3>3, <3>4, RingFacts, ThreadStep
  <2>5. ASSUME Victim(t)
        PROVE  TypeInv'
    <3>1. PICK o \in Keys : Note(t, [NoReg EXCEPT !.item = o])
      BY <2>1, <2>5 DEF Victim
    <3> DEFINE r == [NoReg EXCEPT !.item = o]
    <3>2. r \in Registers
      BY RingFacts DEF Registers, NoReg
    <3>3. /\ pc' = [pc EXCEPT ![t] = "erase"] /\ DOMAIN queued' = Keys
          /\ UNCHANGED <<cached, stripe, inserts>>
      BY <2>1, <2>5 DEF Victim, Jump
    <3>4. reg' = [reg EXCEPT ![t] = r] /\ UNCHANGED <<head, tail, arr>>
      BY <3>1 DEF Note
    <3>5. /\ "erase" \in Labels /\ "erase" \notin Indexed
          /\ "erase" \notin Enqueuing
      BY DEF Labels, Indexed, Committing, Enqueuing, Stored
    <3> HIDE DEF r
    <3>6. QED
      BY <2>1, <3>2, <3>3, <3>4, <3>5, ThreadStep
  <2>6. ASSUME Erase(t)
        PROVE  TypeInv'
    <3>1. /\ pc' = [pc EXCEPT ![t] = "idle"] /\ reg' = [reg EXCEPT ![t] = NoReg]
          /\ UNCHANGED <<head, tail, arr, inserts, queued>>
          /\ stripe' = [stripe EXCEPT ![t] = NoStripe]
          /\ cached' \subseteq cached
      BY <2>6 DEF Erase, Jump, Note, Return
    <3>2. /\ stripe' \in [Threads -> Stripes \union {NoStripe}]
          /\ \A u \in Threads \ {t} : stripe'[u] = stripe[u]
      BY <2>1, <3>1
    <3>3. "idle" \in Labels /\ "idle" \notin Indexed /\ "idle" \notin Enqueuing
      BY DEF Labels, Indexed, Committing, Enqueuing, Stored
    <3>4. cached' \subseteq Keys
      BY <2>1, <3>1
    <3>5. QED
      BY <2>1, <3>1, <3>2, <3>3, <3>4, RingFacts, ThreadStep
  <2>7. QED
    BY <1>1, <2>2, <2>3, <2>4, <2>5, <2>6, EnqueueTypes, DequeueTypes DEF Step
<1>2. CASE UNCHANGED vars
  BY <1>2 DEF vars, cvars, TypeInv, CarriesKey
<1>3. QED
  BY <1>1, <1>2 DEF Next

LEMMA CacheTypes == Spec => []TypeInv
<1>1. QED
  BY TypeInvInit, TypeInvStep, PTL DEF Spec

(* Every variable of the cache and of its queue keeps its type: an index   *)
(* that enqueue and dequeue of kfifo.h compute is that of a slot, and head *)
(* and tail are always the first slots of segments of the ring, whatever   *)
(* threads have moved them in between.                                     *)
THEOREM CacheTypesCorrect == Spec => []TypeOK
<1>1. TypeInv => TypeOK
  <2> SUFFICES ASSUME TypeInv PROVE TypeOK
    OBVIOUS
  <2>1. ASSUME NEW t \in Threads
        PROVE  /\ reg[t].item \in Keys \union {0}
               /\ reg[t].index \in Slots \union {NoSlot}
               /\ {reg[t].tail_old, reg[t].head_old, reg[t].head_curr}
                    \subseteq Slots
               /\ reg[t].from \in 0 .. k - 1 /\ reg[t].i \in 0 .. k - 1
    <3>1. reg[t] \in Registers
      BY DEF TypeInv
    <3>2. QED
      BY <3>1 DEF Registers
  <2>2. QED
    BY <2>1 DEF TypeInv, TypeOK
<1>2. QED
  BY <1>1, CacheTypes, PTL

-----------------------------------------------------------------------------
(* Nothing is lost.                                                        *)

(* Threads between the store of o into a slot and its being counted as     *)
(* enqueued, and between taking o out of a slot and its being counted as   *)
(* dequeued.                                                               *)
Incoming(o) == {t \in Threads : pc[t] \in Stored /\ reg[t].item = o}
Outgoing(o) == {t \in Threads : pc[t] = "dequeued" /\ reg[t].item = o}

(* The balance of the queue at any time; NothingLost is what it says when  *)
(* nobody is under way.                                                    *)
Balanced(o) ==
  Cardinality(Entries(o)) + Cardinality(Outgoing(o))
    = queued[o] + Cardinality(Incoming(o))

BalanceInv ==
  /\ queued \in [Keys -> Int]
  /\ \A o \in Keys \ {0} : Balanced(o)

UnderWay == Stored \union {"dequeued"}

(* What a step of t does to the slots and to what t has under way.         *)
Idles(t) ==
  /\ arr' = arr /\ queued' = queued
  /\ \/ pc[t] \notin UnderWay /\ pc'[t] \notin UnderWay
     \/ pc[t] \in Stored /\ pc'[t] \in Stored /\ reg'[t].item = reg[t].item
Puts(t) ==
  /\ pc[t] \notin UnderWay /\ pc'[t] \in Stored
  /\ arr[reg[t].index] = 0 /\ reg[t].index \in Slots /\ queued' = queued
  /\ arr' = [arr EXCEPT ![reg[t].index] = reg[t].item]
  /\ reg'[t].item = reg[t].item
Removes(t) ==
  /\ arr[reg[t].index] = reg[t].item /\ reg[t].index \in Slots
  /\ arr' = [arr EXCEPT ![reg[t].index] = 0] /\ queued' = queued
Undoes(t) == Removes(t) /\ pc[t] \in Stored /\ pc'[t] \notin UnderWay
Takes(t) ==
  /\ Removes(t) /\ pc[t] \notin UnderWay /\ pc'[t] = "dequeued"
  /\ reg'[t].item = reg[t].item
CountsIn(t) ==
  /\ arr' = arr /\ pc[t] \in Stored /\ pc'[t] \notin UnderWay
  /\ queued' = [queued EXCEPT ![reg[t].item] = @ + 1]
CountsOut(t) ==
  /\ arr' = arr /\ pc[t] = "dequeued" /\ pc'[t] \notin UnderWay
  /\ queued' = [queued EXCEPT ![reg[t].item] = @ - 1]

LEMMA OthersStay ==
  ASSUME TypeInv, NEW t \in Threads, Step(t), NEW u \in Threads \ {t}
  PROVE  pc'[u] = pc[u] /\ reg'[u] = reg[u]
<1>1. pc \in [Threads -> Labels] /\ reg \in [Threads -> Registers]
  BY DEF TypeInv
<1>2. CASE insert_cpy(t) \/ Store(t) \/ CheckSize(t) \/ Victim(t) \/ Erase(t)
  BY <1>1, <1>2
     DEF insert_cpy, Store, CheckSize, Victim, Erase, Enqueue, Dequeue, Jump,
         Note
<1>3. CASE EnqStep(t)
  <2>1. CASE EnqFind(t)
    BY <1>1, <2>1 DEF EnqFind, FindIndex, Jump, Note
  <2>2. CASE EnqLoadHead(t)
    BY <1>1, <2>2 DEF EnqLoadHead, StartFind, Jump, Note
  <2>3. CASE segment_has_stuff(t)
    BY <1>1, <2>3 DEF segment_has_stuff, Jump, Note, Only
  <2>4. CASE EnqLoadTail(t) \/ CommittedHead(t)
    BY <1>1, <2>4 DEF EnqLoadTail, CommittedHead, Jump, Note
  <2>5. CASE EnqCheck(t) \/ CommittedSlot(t) \/ CommittedTail(t)
             \/ CommittedCas(t) \/ is_queue_full(t) \/ EnqRecheck(t)
    BY <1>1, <2>5 DEF EnqCheck, CommittedSlot, CommittedTail, CommittedCas,
                      is_queue_full, EnqRecheck, Jump, Only
  <2>6. CASE EnqCas(t) \/ CommittedUndo(t) \/ EnqMoveHead(t) \/ EnqMoveTail(t)
    BY <1>1, <2>6 DEF EnqCas, CommittedUndo, EnqMoveHead, EnqMoveTail, Jump
  <2>7. QED
    BY <1>3, <2>1, <2>2, <2>3, <2>4, <2>5, <2>6 DEF EnqStep
<1>4. CASE DeqStep(t)
  <2>1. CASE DeqFind(t)
    BY <1>1, <2>1 DEF DeqFind, FindIndex, Jump, Note
  <2>2. CASE DeqLoadHead(t)
    BY <1>1, <2>2 DEF DeqLoadHead, StartFind, Jump, Note
  <2>3. CASE DeqLoadTail(t) \/ DeqCheck(t) \/ DeqRecheck(t)
    BY <1>1, <2>3 DEF DeqLoadTail, DeqCheck, DeqRecheck, Jump, Note, Only
  <2>4. CASE DeqMoveTail(t) \/ DeqCas(t) \/ DeqMoveHead(t)
    BY <1>1, <2>4 DEF DeqMoveTail, DeqCas, DeqMoveHead, Jump
  <2>5. QED
    BY <1>4, <2>1, <2>2, <2>3, <2>4 DEF DeqStep
<1>5. QED
  BY <1>2, <1>3, <1>4 DEF Step

LEMMA EnqueueKinds ==
  ASSUME TypeInv, NEW t \in Threads, EnqStep(t), UNCHANGED cvars
  PROVE  Idles(t) \/ Puts(t) \/ Undoes(t)
<1>1. pc \in [Threads -> Labels] /\ reg \in [Threads -> Registers]
      /\ queued' = queued
      /\ (pc[t] \in Indexed => reg[t].index \in Slots)
  BY DEF TypeInv, CarriesKey, cvars
<1>2. CASE EnqFind(t)
  <2>1. /\ arr' = arr /\ pc[t] = "enq_find"
        /\ pc'[t] \in {"enq_find", "enq_check"}
    BY <1>1, <1>2 DEF EnqFind, FindIndex, Jump, Note
  <2>2. QED
    BY <1>1, <2>1 DEF Idles, UnderWay, Stored, Committing
<1>3. CASE EnqLoadHead(t)
  BY <1>1, <1>3
     DEF EnqLoadHead, StartFind, Jump, Note, Idles, UnderWay, Stored, Committing
<1>4. CASE segment_has_stuff(t)
  BY <1>1, <1>4
     DEF segment_has_stuff, Jump, Note, Only, Idles, UnderWay, Stored, Committing
<1>5. CASE EnqLoadTail(t)
  BY <1>1, <1>5
     DEF EnqLoadTail, Jump, Note, Idles, UnderWay, Stored, Committing
<1>6. CASE CommittedHead(t)
  <2>1. /\ arr' = arr /\ pc[t] = "com_head" /\ pc'[t] = "com_tail"
        /\ reg'[t] = [reg[t] EXCEPT !.head_curr = head]
    BY <1>1, <1>6 DEF CommittedHead, Jump, Note
  <2>2. reg'[t].item = reg[t].item
    BY <1>1, <2>1 DEF Registers
  <2>3. QED
    BY <1>1, <2>1, <2>2 DEF Idles, Stored, Committing
<1>7. CASE EnqCheck(t) \/ is_queue_full(t) \/ EnqRecheck(t)
  <2>1. arr' = arr /\ pc[t] \in {"enq_check", "enq_full", "enq_recheck"}
        /\ pc'[t] \in {"enq_tail", "enq_cas", "enq_full", "enq_scan",
                       "enq_move_tail", "refused", "enq_move_head"}
    BY <1>1, <1>7 DEF EnqCheck, is_queue_full, EnqRecheck, Jump, Only
  <2>2. QED
    BY <1>1, <2>1 DEF Idles, UnderWay, Stored, Committing
<1>8. CASE CommittedSlot(t) \/ CommittedTail(t) \/ CommittedCas(t)
  <2>1. arr' = arr /\ reg' = reg /\ pc[t] \in Stored /\ pc'[t] \in Stored
    BY <1>1, <1>8 DEF CommittedSlot, CommittedTail, CommittedCas, Jump, Only,
                      Stored, Committing
  <2>2. QED
    BY <1>1, <2>1 DEF Idles
<1>9. CASE EnqMoveHead(t) \/ EnqMoveTail(t)
  BY <1>1, <1>9
     DEF EnqMoveHead, EnqMoveTail, Jump, Idles, UnderWay, Stored, Committing
<1>10. CASE EnqCas(t)
  <2>1. pc[t] = "enq_cas" /\ reg' = reg /\ reg[t].index \in Slots
    BY <1>1, <1>10 DEF EnqCas, Indexed
  <2>2. CASE /\ arr[reg[t].index] = 0 /\ pc'[t] = "com_slot"
             /\ arr' = [arr EXCEPT ![reg[t].index] = reg[t].item]
    BY <1>1, <2>1, <2>2 DEF Puts, UnderWay, Stored, Committing
  <2>3. CASE arr' = arr /\ pc'[t] = "enq_tail"
    BY <1>1, <2>1, <2>3 DEF Idles, UnderWay, Stored, Committing
  <2>4. QED
    BY <1>1, <1>10, <2>2, <2>3 DEF EnqCas, Jump
<1>11. CASE CommittedUndo(t)
  <2>1. pc[t] = "com_undo" /\ reg' = reg /\ reg[t].index \in Slots
    BY <1>1, <1>11 DEF CommittedUndo, Indexed, Committing
  <2>2. CASE /\ arr[reg[t].index] = reg[t].item /\ pc'[t] = "enq_tail"
             /\ arr' = [arr EXCEPT ![reg[t].index] = 0]
    BY <1>1, <2>1, <2>2 DEF Undoes, Removes, UnderWay, Stored, Committing
  <2>3. CASE arr' = arr /\ pc'[t] = "enqueued"
    BY <1>1, <2>1, <2>3 DEF Idles, Stored, Committing
  <2>4. QED
    BY <1>1, <1>11, <2>2, <2>3 DEF CommittedUndo, Jump
<1>12. QED
  BY <1>2, <1>3, <1>4, <1>5, <1>6, <1>7, <1>8, <1>9, <1>10, <1>11 DEF EnqStep

LEMMA DequeueKinds ==
  ASSUME TypeInv, NEW t \in Threads, DeqStep(t), UNCHANGED cvars
  PROVE  Idles(t) \/ Takes(t)
<1>1. pc \in [Threads -> Labels] /\ reg \in [Threads -> Registers]
      /\ queued' = queued
      /\ (pc[t] \in Indexed => reg[t].index \in Slots)
  BY DEF TypeInv, CarriesKey, cvars
<1>2. CASE DeqFind(t)
  <2>1. /\ arr' = arr /\ pc[t] = "deq_find" /\ pc'[t] \in {"deq_find", "deq_tail"}
    BY <1>1, <1>2 DEF DeqFind, FindIndex, Jump, Note
  <2>2. QED
    BY <1>1, <2>1 DEF Idles, UnderWay, Stored, Committing
<1>3. CASE DeqLoadHead(t)
  BY <1>1, <1>3
     DEF DeqLoadHead, StartFind, Jump, Note, Idles, UnderWay, Stored, Committing
<1>4. CASE DeqLoadTail(t)
  BY <1>1, <1>4
     DEF DeqLoadTail, Jump, Note, Idles, UnderWay, Stored, Committing
<1>5. CASE DeqCheck(t) \/ DeqRecheck(t)
  <2>1. /\ arr' = arr /\ pc[t] \in {"deq_check", "deq_recheck"}
        /\ pc'[t] \in {"deq_head", "deq_move_tail", "deq_cas", "deq_recheck",
                       "deq_move_head", "nothing"}
    BY <1>1, <1>5 DEF DeqCheck, DeqRecheck, Jump, Only
  <2>2. QED
    BY <1>1, <2>1 DEF Idles, UnderWay, Stored, Committing
<1>6. CASE DeqMoveTail(t) \/ DeqMoveHead(t)
  BY <1>1, <1>6
     DEF DeqMoveTail, DeqMoveHead, Jump, Idles, UnderWay, Stored, Committing
<1>7. CASE DeqCas(t)
  <2>1. pc[t] = "deq_cas" /\ reg' = reg /\ reg[t].index \in Slots
    BY <1>1, <1>7 DEF DeqCas, Indexed
  <2>2. CASE /\ arr[reg[t].index] = reg[t].item /\ pc'[t] = "dequeued"
             /\ arr' = [arr EXCEPT ![reg[t].index] = 0]
    BY <1>1, <2>1, <2>2 DEF Takes, Removes, UnderWay, Stored, Committing
  <2>3. CASE arr' = arr /\ pc'[t] = "deq_head"
    BY <1>1, <2>1, <2>3 DEF Idles, UnderWay, Stored, Committing
  <2>4. QED
    BY <1>1, <1>7, <2>2, <2>3 DEF DeqCas, Jump
<1>8. QED
  BY <1>2, <1>3, <1>4, <1>5, <1>6, <1>7 DEF DeqStep

LEMMA StepKinds ==
  ASSUME TypeInv, NEW t \in Threads, Step(t)
  PROVE  Idles(t) \/ Puts(t) \/ Undoes(t) \/ Takes(t) \/ CountsIn(t)
         \/ CountsOut(t)
<1>1. pc \in [Threads -> Labels] /\ reg \in [Threads -> Registers]
  BY DEF TypeInv
<1>2. CASE insert_cpy(t)
  BY <1>1, <1>2
     DEF insert_cpy, Jump, Enqueue, Note, Idles, UnderWay, Stored, Committing
<1>3. CASE Store(t)
  <2>1. /\ pc[t] = "enqueued" /\ pc'[t] = "size" /\ arr' = arr
        /\ queued' = [queued EXCEPT ![pchunk_soff(stripe[t])] = @ + 1]
    BY <1>1, <1>3 DEF Store, Jump, Note
  <2>2. pchunk_soff(stripe[t]) = reg[t].item
    BY <2>1 DEF TypeInv, CarriesKey, Enqueuing, Stored
  <2>3. QED
    BY <2>1, <2>2 DEF CountsIn, UnderWay, Stored, Committing
<1>4. CASE CheckSize(t)
  <2>1. /\ pc[t] = "size" /\ pc'[t] \in {"deq_head", "idle"} /\ arr' = arr
        /\ queued' = queued
    BY <1>1, <1>4 DEF CheckSize, Jump, Dequeue, Note
  <2>2. QED
    BY <2>1 DEF Idles, UnderWay, Stored, Committing
<1>5. CASE Victim(t)
  <2>1. /\ pc[t] = "dequeued" /\ pc'[t] = "erase" /\ arr' = arr
        /\ queued' = [queued EXCEPT ![reg[t].item] = @ - 1]
    BY <1>1, <1>5 DEF Victim, Jump, Note
  <2>2. QED
    BY <2>1 DEF CountsOut, UnderWay, Stored, Committing
<1>6. CASE Erase(t)
  BY <1>1, <1>6 DEF Erase, Jump, Note, Idles, UnderWay, Stored, Committing
<1>7. CASE EnqStep(t) /\ UNCHANGED cvars
  BY <1>7, EnqueueKinds
<1>8. CASE DeqStep(t) /\ UNCHANGED cvars
  BY <1>8, DequeueKinds
<1>9. QED
  BY <1>2, <1>3, <1>4, <1>5, <1>6, <1>7, <1>8 DEF Step

(* Sizes of sets that differ in one element.                               *)
LEMMA OneMore ==
  ASSUME NEW S, NEW T, IsFiniteSet(S), NEW x, x \notin S, T = S \union {x}
  PROVE  /\ IsFiniteSet(T) /\ Cardinality(S) \in Nat
         /\ Cardinality(T) = Cardinality(S) + 1
BY FS_AddElement, FS_CardinalityType

LEMMA FiniteBalance ==
  ASSUME IsFiniteSet(Threads), NEW o
  PROVE  /\ IsFiniteSet(Entries(o)) /\ IsFiniteSet(Incoming(o))
         /\ IsFiniteSet(Outgoing(o))
         /\ Cardinality(Entries(o)) \in Nat /\ Cardinality(Incoming(o)) \in Nat
         /\ Cardinality(Outgoing(o)) \in Nat
<1>1. IsFiniteSet(Slots)
  BY RingFacts, FS_Interval DEF Slots
<1>2. /\ Entries(o) \subseteq Slots /\ Incoming(o) \subseteq Threads
      /\ Outgoing(o) \subseteq Threads
  BY DEF Entries, Incoming, Outgoing
<1>3. QED
  BY <1>1, <1>2, FS_Subset, FS_CardinalityType

LEMMA FiniteBalanceNext ==
  ASSUME IsFiniteSet(Threads), NEW o
  PROVE  /\ IsFiniteSet(Entries(o)') /\ IsFiniteSet(Incoming(o)')
         /\ IsFiniteSet(Outgoing(o)')
<1>1. IsFiniteSet(Slots)
  BY RingFacts, FS_Interval DEF Slots
<1>2. /\ Entries(o)' \subseteq Slots /\ Incoming(o)' \subseteq Threads
      /\ Outgoing(o)' \subseteq Threads
  BY DEF Entries, Incoming, Outgoing
<1>3. QED
  BY <1>1, <1>2, FS_Subset

LEMMA BalanceStep ==
  ASSUME IsFiniteSet(Threads), TypeInv, queued \in [Keys -> Int],
         NEW t \in Threads, Step(t), NEW o \in Keys \ {0}, Balanced(o)
  PROVE  Balanced(o)'
<1>1. \A u \in Threads \ {t} : pc'[u] = pc[u] /\ reg'[u] = reg[u]
  BY OthersStay
<1>2. /\ Cardinality(Entries(o)) \in Nat /\ Cardinality(Incoming(o)) \in Nat
      /\ Cardinality(Outgoing(o)) \in Nat /\ queued[o] \in Int
      /\ IsFiniteSet(Entries(o)) /\ IsFiniteSet(Incoming(o))
      /\ IsFiniteSet(Outgoing(o)) /\ IsFiniteSet(Entries(o)')
      /\ IsFiniteSet(Incoming(o)') /\ IsFiniteSet(Outgoing(o)')
  BY FiniteBalance, FiniteBalanceNext
<1>3. /\ pc \in [Threads -> Labels] /\ arr \in [Slots -> Keys \union {0}]
      /\ o # 0 /\ reg \in [Threads -> Registers]
  BY DEF TypeInv
<1> DEFINE q == reg[t].item
           x == reg[t].index
(* The same threads are under way with o.                                  *)
<1>4. ASSUME UnderWay = Stored \union {"dequeued"},
             pc[t] \notin UnderWay \/ q # o,
             pc'[t] \notin UnderWay \/ reg'[t].item # o
      PROVE  Incoming(o)' = Incoming(o) /\ Outgoing(o)' = Outgoing(o)
  BY <1>1, <1>4 DEF Incoming, Outgoing
<1>5. UnderWay = Stored \union {"dequeued"} /\ "dequeued" \notin Stored
  BY DEF UnderWay, Stored, Committing
<1>6. arr' = arr => Entries(o)' = Entries(o)
  BY DEF Entries
<1>7. CASE Idles(t)
  <2>1. Entries(o)' = Entries(o) /\ queued' = queued
    BY <1>6, <1>7 DEF Idles
  <2>2. Incoming(o)' = Incoming(o) /\ Outgoing(o)' = Outgoing(o)
    BY <1>1, <1>5, <1>7 DEF Idles, Incoming, Outgoing
  <2>3. QED
    BY <2>1, <2>2 DEF Balanced
<1>8. CASE Puts(t) /\ q = o
  <2>1. Entries(o)' = Entries(o) \union {x} /\ x \notin Entries(o)
    BY <1>3, <1>8 DEF Puts, Entries
  <2>2. /\ Incoming(o)' = Incoming(o) \union {t} /\ t \notin Incoming(o)
        /\ Outgoing(o)' = Outgoing(o)
    BY <1>1, <1>5, <1>8 DEF Puts, Incoming, Outgoing
  <2>3. /\ Cardinality(Entries(o)') = Cardinality(Entries(o)) + 1
        /\ Cardinality(Incoming(o)') = Cardinality(Incoming(o)) + 1
    BY <1>2, <2>1, <2>2, OneMore
  <2>4. queued' = queued
    BY <1>8 DEF Puts
  <2>5. QED
    BY <1>2, <2>2, <2>3, <2>4 DEF Balanced
<1>9. CASE Undoes(t) /\ q = o
  <2>1. Entries(o) = Entries(o)' \union {x} /\ x \notin Entries(o)'
    BY <1>3, <1>9 DEF Undoes, Removes, Entries
  <2>2. /\ Incoming(o) = Incoming(o)' \union {t} /\ t \notin Incoming(o)'
        /\ Outgoing(o)' = Outgoing(o)
    BY <1>1, <1>5, <1>9 DEF Undoes, Incoming, Outgoing
  <2>3. /\ Cardinality(Entries(o)) = Cardinality(Entries(o)') + 1
        /\ Cardinality(Incoming(o)) = Cardinality(Incoming(o)') + 1
        /\ Cardinality(Entries(o)') \in Nat /\ Cardinality(Incoming(o)') \in Nat
    BY <1>2, <2>1, <2>2, OneMore
  <2>4. queued' = queued
    BY <1>9 DEF Undoes, Removes
  <2>5. QED
    BY <1>2, <2>2, <2>3, <2>4 DEF Balanced
<1>10. CASE Takes(t) /\ q = o
  <2>1. Entries(o) = Entries(o)' \union {x} /\ x \notin Entries(o)'
    BY <1>3, <1>10 DEF Takes, Removes, Entries
  <2>2. /\ Outgoing(o)' = Outgoing(o) \union {t} /\ t \notin Outgoing(o)
        /\ Incoming(o)' = Incoming(o)
    BY <1>1, <1>5, <1>10 DEF Takes, Incoming, Outgoing
  <2>3. /\ Cardinality(Entries(o)) = Cardinality(Entries(o)') + 1
        /\ Cardinality(Outgoing(o)') = Cardinality(Outgoing(o)) + 1
        /\ Cardinality(Entries(o)') \in Nat
    BY <1>2, <2>1, <2>2, OneMore
  <2>4. queued' = queued
    BY <1>10 DEF Takes, Removes
  <2>5. QED
    BY <1>2, <2>2, <2>3, <2>4 DEF Balanced
<1>11. CASE CountsIn(t) /\ q = o
  <2>1. Entries(o)' = Entries(o)
    BY <1>6, <1>11 DEF CountsIn
  <2>2. /\ Incoming(o) = Incoming(o)' \union {t} /\ t \notin Incoming(o)'
        /\ Outgoing(o)' = Outgoing(o)
    BY <1>1, <1>5, <1>11 DEF CountsIn, Incoming, Outgoing
  <2>3. /\ Cardinality(Incoming(o)) = Cardinality(Incoming(o)') + 1
        /\ Cardinality(Incoming(o)') \in Nat
    BY <1>2, <2>2, OneMore
  <2>4. queued'[o] = queued[o] + 1
    BY <1>11 DEF CountsIn
  <2>5. QED
    BY <1>2, <2>1, <2>2, <2>3, <2>4 DEF Balanced
<1>12. CASE CountsOut(t) /\ q = o
  <2>1. Entries(o)' = Entries(o)
    BY <1>6, <1>12 DEF CountsOut
  <2>2. /\ Outgoing(o) = Outgoing(o)' \union {t} /\ t \notin Outgoing(o)'
        /\ Incoming(o)' = Incoming(o)
    BY <1>1, <1>5, <1>12 DEF CountsOut, Incoming, Outgoing
  <2>3. /\ Cardinality(Outgoing(o)) = Cardinality(Outgoing(o)') + 1
        /\ Cardinality(Outgoing(o)') \in Nat
    BY <1>2, <2>2, OneMore
  <2>4. queued'[o] = queued[o] - 1
    BY <1>12 DEF CountsOut
  <2>5. QED
    BY <1>2, <2>1, <2>2, <2>3, <2>4 DEF Balanced
<1>13. CASE ~Idles(t) /\ q # o
  <2>1. Entries(o)' = Entries(o)
    BY <1>3, <1>13, StepKinds
       DEF Puts, Undoes, Takes, CountsIn, CountsOut, Removes, Entries
  <2>2. pc'[t] \notin UnderWay \/ reg'[t].item # o
    BY <1>13, StepKinds DEF Puts, Undoes, Takes, CountsIn, CountsOut
  <2>3. queued'[o] = queued[o]
    BY <1>13, StepKinds
       DEF Puts, Undoes, Takes, CountsIn, CountsOut, Removes
  <2>4. Incoming(o)' = Incoming(o) /\ Outgoing(o)' = Outgoing(o)
    BY <1>4, <1>5, <1>13, <2>2
  <2>5. QED
    BY <2>1, <2>3, <2>4 DEF Balanced
<1>14. QED
  BY <1>7, <1>8, <1>9, <1>10, <1>11, <1>12, <1>13, StepKinds

LEMMA QueuedStep ==
  ASSUME TypeInv, queued \in [Keys -> Int], NEW t \in Threads, Step(t)
  PROVE  queued' \in [Keys -> Int]
BY StepKinds DEF Idles, Puts, Undoes, Takes, Removes, CountsIn, CountsOut

LEMMA BalanceInit ==
  ASSUME IsFiniteSet(Threads), Init
  PROVE  BalanceInv
<1>1. /\ arr = [s \in Slots |-> 0] /\ pc = [t \in Threads |-> "idle"]
      /\ queued = [o \in Keys |-> 0]
  BY DEF Init, QInit
<1>2. ASSUME NEW o \in Keys \ {0}
      PROVE  Balanced(o)
  <2>1. Entries(o) = {}
    BY <1>1 DEF Entries
  <2>2. Incoming(o) = {} /\ Outgoing(o) = {}
    BY <1>1 DEF Incoming, Outgoing, Stored, Committing
  <2>3. Cardinality({}) = 0
    BY FS_EmptySet
  <2>4. queued[o] = 0
    BY <1>1
  <2>5. Cardinality(Entries(o)) = 0 /\ Cardinality(Outgoing(o)) = 0
        /\ Cardinality(Incoming(o)) = 0
    BY <2>1, <2>2, <2>3
  <2>6. QED
    BY <2>4, <2>5 DEF Balanced
<1>3. queued \in [Keys -> Int]
  BY <1>1
<1>4. QED
  BY <1>2, <1>3 DEF BalanceInv

LEMMA BalanceNext ==
  ASSUME IsFiniteSet(Threads), TypeInv, BalanceInv, [Next]_vars
  PROVE  BalanceInv'
<1>1. ASSUME NEW t \in Threads, Step(t)
      PROVE  BalanceInv'
  <2>1. queued' \in [Keys -> Int]
    BY <1>1, QueuedStep DEF BalanceInv
  <2>2. ASSUME NEW o \in Keys \ {0}
        PROVE  Balanced(o)'
    BY <1>1, <2>2, BalanceStep DEF BalanceInv
  <2>3. QED
    BY <2>1, <2>2 DEF BalanceInv
<1>2. CASE UNCHANGED vars
  BY <1>2 DEF vars, cvars, BalanceInv, Balanced, Entries, Incoming, Outgoing
<1>3. QED
  BY <1>1, <1>2 DEF Next

(* The queue of kfifo.h loses no offset and invents none, for any number   *)
(* of threads and any ring: when no insert_cpy is under way, each key is   *)
(* in as many slots as it was enqueued more often than dequeued.  That     *)
(* holds although committed may take an item out again that it finds in    *)
(* its slot, even when that is another thread's item with the same key.    *)
THEOREM NothingIsLost ==
  ASSUME IsFiniteSet(Threads)
  PROVE  Spec => []NothingLost
<1>1. BalanceInv => NothingLost
  <2> SUFFICES ASSUME BalanceInv, Quiet, NEW o \in Keys \ {0}
               PROVE  Cardinality(Entries(o)) = queued[o]
    BY DEF NothingLost
  <2>1. Incoming(o) = {} /\ Outgoing(o) = {}
    BY DEF Quiet, Incoming, Outgoing, Stored, Committing
  <2>2. /\ Cardinality(Incoming(o)) = 0 /\ Cardinality(Outgoing(o)) = 0
        /\ Cardinality(Entries(o)) \in Nat /\ queued[o] \in Int
    BY <2>1, FS_EmptySet, FiniteBalance DEF BalanceInv
  <2>3. Balanced(o)
    BY DEF BalanceInv
  <2>4. QED
    BY <2>2, <2>3 DEF Balanced
<1>2. QED
  BY <1>1, BalanceInit, BalanceNext, CacheTypes, PTL DEF Spec

-----------------------------------------------------------------------------
(* There is always a victim.                                               *)

(* Threads that found the cache full and have not erased a key yet.        *)
Evicting ==
  {"deq_head", "deq_find", "deq_tail", "deq_check", "deq_move_tail",
   "deq_cas", "deq_recheck", "deq_move_head", "dequeued", "nothing", "erase"}
Evictors == {t \in Threads : pc[t] \in Evicting}

(* A cache that was full has lost at most one key to each thread that is   *)
(* not among the evictors any more.                                        *)
RoomInv ==
  /\ IsFiniteSet(cached)
  /\ Evictors # {} => Cardinality(cached) + Cardinality(Threads)
                        >= MAX_stripes + Cardinality(Evictors)

(* What a step does to the cache and to the evictors.                      *)
Stays(t) ==
  /\ cached' = cached
  /\ pc[t] \in Evicting <=> pc'[t] \in Evicting
Grows(t) ==
  /\ \E o : cached' = cached \union {o}
  /\ pc[t] \notin Evicting /\ pc'[t] \notin Evicting
Joins(t) ==
  /\ cached' = cached /\ Cardinality(cached) >= MAX_stripes
  /\ pc'[t] \in Evicting
Leaves(t) ==
  /\ \E o : cached' = cached \ {o}
  /\ pc[t] \in Evicting /\ pc'[t] \notin Evicting

LEMMA RoomKinds ==
  ASSUME TypeInv, NEW t \in Threads, Step(t)
  PROVE  Stays(t) \/ Grows(t) \/ Joins(t) \/ Leaves(t)
<1>1. pc \in [Threads -> Labels]
  BY DEF TypeInv
<1>2. CASE insert_cpy(t)
  BY <1>1, <1>2 DEF insert_cpy, Jump, Stays, Evicting
<1>3. CASE Store(t)
  BY <1>1, <1>3 DEF Store, Jump, Grows, Evicting
<1>4. CASE CheckSize(t)
  BY <1>1, <1>4 DEF CheckSize, Jump, Stays, Joins, Evicting
<1>5. CASE Victim(t)
  BY <1>1, <1>5 DEF Victim, Jump, Stays, Evicting
<1>6. CASE Erase(t)
  BY <1>1, <1>6 DEF Erase, Jump, Leaves, Evicting
<1>7. CASE EnqStep(t) /\ UNCHANGED cvars
  <2>1. pc[t] \in Enqueuing /\ pc'[t] \in Enqueuing \union {"refused"}
    <3>1. CASE EnqFind(t)
      BY <1>1, <3>1
         DEF EnqFind, FindIndex, Jump, Enqueuing
    <3>2. CASE EnqLoadTail(t) \/ EnqLoadHead(t) \/ EnqCheck(t) \/ EnqCas(t)
      BY <1>1, <3>2
         DEF EnqLoadTail, EnqLoadHead, EnqCheck, EnqCas, Jump, Enqueuing,
             Stored, Committing
    <3>3. CASE CommittedSlot(t) \/ CommittedHead(t) \/ CommittedTail(t)
               \/ CommittedCas(t) \/ CommittedUndo(t)
      BY <1>1, <3>3
         DEF CommittedSlot, CommittedHead, CommittedTail, CommittedCas,
             CommittedUndo, Jump, Enqueuing, Stored, Committing
    <3>4. CASE is_queue_full(t) \/ segment_has_stuff(t) \/ EnqRecheck(t)
               \/ EnqMoveHead(t) \/ EnqMoveTail(t)
      BY <1>1, <3>4
         DEF is_queue_full, segment_has_stuff, EnqRecheck, EnqMoveHead,
             EnqMoveTail, Jump, Enqueuing
    <3>5. QED
      BY <1>7, <3>1, <3>2, <3>3, <3>4 DEF EnqStep
  <2>2. QED
    BY <1>7, <2>1 DEF Stays, cvars, Evicting, Enqueuing, Stored, Committing
<1>8. CASE DeqStep(t) /\ UNCHANGED cvars
  <2>1. pc[t] \in Evicting /\ pc'[t] \in Evicting
    <3>1. CASE DeqFind(t)
      BY <1>1, <3>1 DEF DeqFind, FindIndex, Jump, Evicting
    <3>2. CASE DeqLoadHead(t) \/ DeqLoadTail(t) \/ DeqCheck(t)
               \/ DeqMoveTail(t)
      BY <1>1, <3>2
         DEF DeqLoadHead, DeqLoadTail, DeqCheck, DeqMoveTail, Jump, Evicting
    <3>3. CASE DeqCas(t) \/ DeqRecheck(t) \/ DeqMoveHead(t)
      BY <1>1, <3>3 DEF DeqCas, DeqRecheck, DeqMoveHead, Jump, Evicting
    <3>4. QED
      BY <1>8, <3>1, <3>2, <3>3 DEF DeqStep
  <2>2. QED
    BY <1>8, <2>1 DEF Stays, cvars
<1>9. QED
  BY <1>2, <1>3, <1>4, <1>5, <1>6, <1>7, <1>8 DEF Step

LEMMA RoomStep ==
  ASSUME IsFiniteSet(Threads), TypeInv, RoomInv, NEW t \in Threads, Step(t)
  PROVE  RoomInv'
<1>1. \A u \in Threads \ {t} : pc'[u] = pc[u]
  BY OthersStay
<1>2. /\ Evictors \subseteq Threads /\ Evictors' \subseteq Threads
  BY DEF Evictors
<1>3. /\ IsFiniteSet(Evictors) /\ IsFiniteSet(Evictors')
      /\ Cardinality(Evictors) \in Nat /\ Cardinality(Evictors') \in Nat
      /\ Cardinality(Threads) \in Nat /\ IsFiniteSet(cached)
      /\ Cardinality(Evictors') <= Cardinality(Threads)
      /\ Cardinality(cached) \in Nat /\ MAX_stripes \in Nat
  BY <1>2, FS_Subset, FS_CardinalityType, CacheAssumption DEF RoomInv
<1>4. CASE Stays(t)
  <2>1. Evictors' = Evictors /\ cached' = cached
    BY <1>1, <1>4 DEF Stays, Evictors
  <2>2. QED
    BY <2>1 DEF RoomInv
<1>5. CASE Grows(t)
  <2>1. Evictors' = Evictors
    BY <1>1, <1>5 DEF Grows, Evictors
  <2>2. PICK o : cached' = cached \union {o}
    BY <1>5 DEF Grows
  <2>3. /\ IsFiniteSet(cached') /\ Cardinality(cached') \in Nat
        /\ Cardinality(cached) <= Cardinality(cached')
    <3>1. IsFiniteSet(cached')
      BY <1>3, <2>2, FS_AddElement
    <3>2. QED
      BY <2>2, <3>1, FS_Subset, FS_CardinalityType
  <2>4. QED
    BY <1>3, <2>1, <2>3 DEF RoomInv
<1>6. CASE Joins(t)
  <2>1. cached' = cached /\ Cardinality(cached) >= MAX_stripes
    BY <1>6 DEF Joins
  <2>2. QED
    BY <1>3, <2>1 DEF RoomInv
<1>7. CASE Leaves(t)
  <2>1. Evictors = Evictors' \union {t} /\ t \notin Evictors'
    BY <1>1, <1>7 DEF Leaves, Evictors
  <2>2. Cardinality(Evictors) = Cardinality(Evictors') + 1
    BY <1>3, <2>1, OneMore
  <2>3. PICK o : cached' = cached \ {o}
    BY <1>7 DEF Leaves
  <2>4. /\ IsFiniteSet(cached') /\ Cardinality(cached') \in Nat
        /\ Cardinality(cached') + 1 >= Cardinality(cached)
    <3>1. CASE o \in cached
      <4>1. IsFiniteSet(cached')
        BY <1>3, <2>3, FS_Subset
      <4>2. cached = cached' \union {o} /\ o \notin cached'
        BY <2>3, <3>1
      <4>3. QED
        BY <1>3, <4>1, <4>2, OneMore
    <3>2. CASE o \notin cached
      <4>1. cached' = cached
        BY <2>3, <3>2
      <4>2. QED
        BY <1>3, <4>1
    <3>3. QED
      BY <3>1, <3>2
  <2>5. Cardinality(cached) + Cardinality(Threads)
          >= MAX_stripes + Cardinality(Evictors)
    BY <2>1 DEF RoomInv
  <2>6. QED
    BY <1>3, <2>2, <2>4, <2>5 DEF RoomInv
<1>8. QED
  BY <1>4, <1>5, <1>6, <1>7, RoomKinds

(* When no more threads insert than the cache has room for stripes, a      *)
(* thread that has dequeued an offset finds a key to erase, whatever the   *)
(* others have erased since it read the size of the map: insert_cpy may    *)
(* take cbegin of the map without looking.                                 *)
THEOREM VictimAlwaysExists ==
  ASSUME IsFiniteSet(Threads), Cardinality(Threads) <= MAX_stripes
  PROVE  Spec => []VictimExists
<1>1. Init => RoomInv
  <2>1. Init => cached = {} /\ Evictors = {}
    BY DEF Init, QInit, Evictors, Evicting
  <2>2. QED
    BY <2>1, FS_EmptySet DEF RoomInv
<1>2. TypeInv /\ RoomInv /\ [Next]_vars => RoomInv'
  <2>1. UNCHANGED vars /\ RoomInv => RoomInv'
    BY DEF vars, cvars, RoomInv, Evictors
  <2>2. QED
    BY <2>1, RoomStep DEF Next
<1>3. RoomInv => VictimExists
  <2> SUFFICES ASSUME RoomInv, NEW t \in Threads, pc[t] = "dequeued"
               PROVE  cached # {}
    BY DEF VictimExists
  <2>1. t \in Evictors /\ Evictors \subseteq Threads
    BY DEF Evictors, Evicting
  <2>2. /\ IsFiniteSet(Evictors) /\ Cardinality(Evictors) \in Nat
        /\ Cardinality(Threads) \in Nat /\ MAX_stripes \in Nat
    BY <2>1, FS_Subset, FS_CardinalityType, CacheAssumption
  <2>3. Cardinality(Evictors) # 0
    BY <2>1, <2>2, FS_EmptySet
  <2>4. Cardinality(cached) + Cardinality(Threads)
          >= MAX_stripes + Cardinality(Evictors)
    BY <2>1 DEF RoomInv
  <2>5. SUFFICES ASSUME cached = {} PROVE FALSE
    OBVIOUS
  <2>6. Cardinality(cached) = 0
    BY <2>5, FS_EmptySet
  <2>7. QED
    BY <2>2, <2>3, <2>4, <2>6
<1>4. QED
  BY <1>1, <1>2, <1>3, CacheTypes, PTL DEF Spec

=============================================================================
