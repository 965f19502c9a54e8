----------------------------- MODULE ParityCache -----------------------------
(***************************************************************************)
(* ParityCache of cache.h on top of KQueue: a map from the device offset   *)
(* of a partial-stripe write to parity buffers (here its keys), and a      *)
(* queue of the same offsets that says which to evict first.  Several      *)
(* threads call insert_cpy at once, each at the end of encode_partialstripe*)
(* while it holds the lock of its stripe.                                  *)
(*                                                                         *)
(* The map (FeldmanHashMap of libcds, external) is linearizable: search,   *)
(* insert, size, get, cbegin and erase are one step each.                  *)
(***************************************************************************)
EXTENDS KQueue, FiniteSets

CONSTANTS Stripes,      \* least device offset of the write, one per stripe
          NoStripe,
          INT_MAX,      \* where encode_partialstripe's minimum starts
          MAX_stripes,  \* capacity
          MaxInserts    \* insertions of a behaviour (bounds the run)

ASSUME CacheAssumption ==
  /\ Stripes \subseteq Nat /\ NoStripe \notin Stripes
  /\ INT_MAX \in Nat \ {0}
  /\ MAX_stripes \in Nat \ {0} /\ MaxInserts \in Nat

VARIABLES
  cached,   \* keys of Cache_Root
  stripe,   \* the stripe whose write a thread is finishing
  inserts,  \* insertions so far
  queued    \* history: entries per key, enqueued less dequeued

cvars == <<cached, stripe, inserts, queued>>
vars == <<head, tail, arr, pc, reg, cvars>>

(* pchunk_soff of encode_partialstripe: the least device offset, taken     *)
(* with a minimum that starts at INT_MAX.                                  *)
pchunk_soff(s) == IF s < INT_MAX THEN s ELSE INT_MAX
Keys == {pchunk_soff(s) : s \in Stripes}

Init ==
  /\ QInit
  /\ cached = {} /\ inserts = 0
  /\ stripe = [t \in Threads |-> NoStripe]
  /\ queued = [o \in Keys |-> 0]

(* The search at the end of encode_partialstripe missed, so that           *)
(* insert_cpy begins; the stripe lock keeps others from the same stripe.   *)
insert_cpy(t) ==
  \E s \in Stripes :
    /\ inserts < MaxInserts /\ \A u \in Threads : stripe[u] # s
    /\ pchunk_soff(s) \notin cached
    /\ Jump(t, "idle", "enq_tail") /\ Enqueue(t, pchunk_soff(s))
    /\ stripe' = [stripe EXCEPT ![t] = s] /\ inserts' = inserts + 1
    /\ UNCHANGED <<cached, queued>>

(* Cache_Root.insert, past assert(qret); it refuses a key that is there.   *)
Store(t) ==
  LET o == pchunk_soff(stripe[t]) IN
  /\ Jump(t, "enqueued", "size") /\ Note(t, NoReg)
  /\ cached' = cached \union {o}
  /\ queued' = [queued EXCEPT ![o] = @ + 1]
  /\ UNCHANGED <<stripe, inserts>>

Return(t) == stripe' = [stripe EXCEPT ![t] = NoStripe]

(* A bug to tell apart: the cache evicts one key too early.                *)
CheckSize_OffByOne(t) ==
  /\ \/ /\ Cardinality(cached) + 1 >= MAX_stripes
        /\ Jump(t, "size", "deq_head") /\ UNCHANGED stripe
     \/ /\ Cardinality(cached) + 1 < MAX_stripes
        /\ Jump(t, "size", "idle") /\ Return(t)
  /\ Dequeue(t)
  /\ UNCHANGED <<cached, inserts, queued>>

CheckSize(t) ==
  /\ \/ /\ Cardinality(cached) >= MAX_stripes
        /\ Jump(t, "size", "deq_head") /\ UNCHANGED stripe
     \/ /\ Cardinality(cached) < MAX_stripes
        /\ Jump(t, "size", "idle") /\ Return(t)
  /\ Dequeue(t)
  /\ UNCHANGED <<cached, inserts, queued>>

(* Cache_Root.get of the offset dequeued; without it, cbegin, which is     *)
(* whatever key the map yields first.                                      *)
Victim(t) ==
  LET o == reg[t].item IN
  /\ Jump(t, "dequeued", "erase")
  /\ queued' = [queued EXCEPT ![o] = @ - 1]
  /\ \/ o \in cached /\ Note(t, [NoReg EXCEPT !.item = o])
     \/ /\ o \notin cached
        /\ \E any \in cached : Note(t, [NoReg EXCEPT !.item = any])
  /\ UNCHANGED <<cached, stripe, inserts>>

Erase(t) ==
  /\ Jump(t, "erase", "idle") /\ Note(t, NoReg) /\ Return(t)
  /\ cached' = cached \ {reg[t].item}
  /\ UNCHANGED <<inserts, queued>>

Step(t) ==
  \/ insert_cpy(t) \/ Store(t) \/ CheckSize(t) \/ Victim(t) \/ Erase(t)
  \/ (EnqStep(t) \/ DeqStep(t)) /\ UNCHANGED cvars

Next == \E t \in Threads : Step(t)
Spec == Init /\ [][Next]_vars

-----------------------------------------------------------------------------
Labels ==
  {"idle", "enq_tail", "enq_head", "enq_find", "enq_check", "enq_cas",
   "com_slot", "com_head", "com_tail", "com_cas", "com_undo", "enq_full",
   "enq_scan", "enq_recheck", "enq_move_head", "enq_move_tail", "enqueued",
   "refused", "size", "deq_head", "deq_find", "deq_tail", "deq_check",
   "deq_move_tail", "deq_cas", "deq_recheck", "deq_move_head", "dequeued",
   "nothing", "erase"}

(* Types.  head and tail stay on the first slots of segments (kfifo.h      *)
(* moves them by k around size), and slots hold keys or 0.                 *)
TypeOK ==
  /\ head \in Slots /\ head % k = 0 /\ tail \in Slots /\ tail % k = 0
  /\ arr \in [Slots -> Keys \union {0}]
  /\ pc \in [Threads -> Labels]
  /\ \A t \in Threads :
       /\ reg[t].item \in Keys \union {0}
       /\ reg[t].index \in Slots \union {NoSlot}
       /\ {reg[t].tail_old, reg[t].head_old, reg[t].head_curr} \subseteq Slots
       /\ reg[t].from \in 0 .. k - 1 /\ reg[t].i \in 0 .. k - 1
  /\ cached \subseteq Keys
  /\ stripe \in [Threads -> Stripes \union {NoStripe}]
  /\ inserts \in 0 .. MaxInserts
  /\ DOMAIN queued = Keys

Quiet == \A t \in Threads : pc[t] = "idle"
Entries(o) == {s \in Slots : arr[s] = o}

(* The queue loses no offset and invents none (enqueue, committed and      *)
(* dequeue of kfifo.h): once all calls of insert_cpy have returned, each   *)
(* key is in as many slots as it was enqueued more often than dequeued,    *)
(* although slots and segments are reused, committed takes items out       *)
(* again, and two stripes past INT_MAX may enqueue the same key at once.   *)
(* Offset 0 is left out: 0 marks a free slot, so that it is never stored.  *)
NothingLost ==
  Quiet => \A o \in Keys \ {0} : Cardinality(Entries(o)) = queued[o]

(* insert_cpy takes cbegin of the map (cache.h:127) without looking        *)
(* whether the map is empty; there is always a key left, for no more       *)
(* threads than MAX_stripes, whatever other threads have evicted since the *)
(* size was read.                                                          *)
VictimExists == \A t \in Threads : pc[t] = "dequeued" => cached # {}
=============================================================================
