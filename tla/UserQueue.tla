------------------------------ MODULE UserQueue ------------------------------
(***************************************************************************)
(* The queued interface of StorageMod: user threads put requests in a      *)
(* UserQueue of v_workinque (raid_write_q, raid_read_q), whose worker      *)
(* takes and serves them (workers_run).  One queue is modelled.  No        *)
(* program of the repository calls this interface, and the constructor's   *)
(* line that starts the workers is commented out.                          *)
(*                                                                         *)
(* A read, or a write within one stripe, takes the path of raid_read or of *)
(* raid_write_direct; here it is one step.  A write over several stripes   *)
(* does not: workers_run hands on the whole request once for each stripe.  *)
(* A worker that leads then fails the assertion of split_chunk2dio that    *)
(* what it is given is of one stripe; one that finds the stripe taken by   *)
(* the worker of another queue puts it in that worker's batch queue.       *)
(***************************************************************************)
EXTENDS ImplicitProducer

CONSTANTS Users, Workers,
          LongWrites    \* requests: the writes over several stripes

IDLE_QUELEN == setup.idle

ASSUME UserQueueAssumption == Actors = Users \cup Workers /\ Users \cap Workers = {}

VARIABLES
  served,    \* the requests served
  crashed    \* a worker has failed an assertion

queue_vars == <<setup, hash_vars, tail_vars, head_vars, index_vars, block_vars,
                free_vars, pc, my, asked, served>>
vars == <<queue_vars, crashed>>

Requests(s) == {r \in Users \X (1 .. 9) : r[1] \in s.threads /\ r[2] <= s.requests[r[1]]}

Init == /\ QueueInit
        /\ pc = [a \in Actors |-> IF a \notin setup.threads THEN "out"
                                  ELSE IF a \in Users THEN "ask" ELSE "poll"]
        /\ asked = [u \in Users |-> 0] /\ served = {} /\ crashed = FALSE

Unused == UNCHANGED <<hash_vars, tail_vars, head_vars, index_vars, block_vars,
                      free_vars, asked, served>>

(* A failed assertion ends the process.                                    *)
Aborted == crashed \/ \E u \in Users : pc[u] = "failed"

-----------------------------------------------------------------------------
(* raid_write_q and raid_read_q.                                           *)

Ask(u) ==
  /\ asked[u] < setup.requests[u]
  /\ Step(u, "ask", IF producers = <<>> THEN "hash" ELSE "tail", StartScan(my[u]))
  /\ Unused

(* A mistake: a user looks at the newest sub-queue only.                   *)
CheckSize_Newest(u) ==
  LET r == Sized(my[u]) IN
  /\ pc[u] = "head"
  /\ Step(u, "head", IF r.size > IDLE_QUELEN THEN "ask" ELSE "hash", Locals)
  /\ Unused

CheckSize(u) ==
  LET r == Sized(my[u]) IN
  /\ pc[u] = "head"
  /\ \/ r.cursor > 0 /\ Step(u, "head", "tail", r)
     \/ /\ r.cursor = 0
        /\ Step(u, "head", IF r.size > IDLE_QUELEN THEN "ask" ELSE "hash", Locals)
  /\ Unused

TryEnqueue(u) ==
  /\ \/ GetProducer(u) /\ UNCHANGED asked
     \/ /\ EnqueueStep(u, <<u, asked[u] + 1>>, "ask")
        /\ asked' = IF pc[u] = "publish" THEN Put(asked, u, asked[u] + 1) ELSE asked
  /\ UNCHANGED served

-----------------------------------------------------------------------------
(* workers_run.                                                            *)

(* try_dequeue scores up to three sub-queues that are not empty.           *)
Poll(w) ==
  /\ producers # <<>> /\ Step(w, "poll", "tail", StartScan(my[w])) /\ Unused

Score(w) ==
  LET r == Sized(my[w])
      scored == r.cursor = 0 \/ r.nonEmptyCount = 3
  IN
  /\ pc[w] = "head"
  /\ \/ ~scored /\ Step(w, "head", "tail", r)
     \/ scored /\ r.nonEmptyCount = 0 /\ Step(w, "head", "poll", Locals)
     \/ /\ scored /\ r.nonEmptyCount > 0
        /\ Step(w, "head", "counts",
                [Locals EXCEPT !.p = r.best, !.best = r.best, !.first = TRUE])
  /\ Unused

(* The best one failed: the others are tried, in the order of the list.    *)
NextSub(w) ==
  LET from == IF my[w].first THEN Len(producers) ELSE my[w].p - 1
      others == (1 .. from) \ {my[w].best}
  IN
  /\ pc[w] = "nextsub"
  /\ \/ others = {} /\ Step(w, "nextsub", "poll", Locals)
     \/ /\ others # {}
        /\ Step(w, "nextsub", "counts",
                [Locals EXCEPT !.p = Max(others), !.best = my[w].best])
  /\ Unused

(* Also a write over several stripes if the worker leads for none of them. *)
Serve(w) ==
  /\ At(w, "idle") /\ Step(w, "dequeued", "poll", Locals)
  /\ served' = served \cup {my[w].item}
  /\ UNCHANGED <<hash_vars, tail_vars, head_vars, index_vars, block_vars,
                 free_vars, asked>>

(* It leads for one.                                                       *)
FailToServe(w) ==
  /\ pc[w] = "dequeued" /\ At(w, "idle") /\ ~Aborted
  /\ my[w].item \in LongWrites
  /\ crashed' = TRUE /\ UNCHANGED queue_vars

-----------------------------------------------------------------------------
ListStep(a) == /\ FreeListStep(a)
               /\ UNCHANGED <<hash_vars, tail_vars, head_vars, index_vars,
                              block_vars, pc, my, asked, served>>

Thread(a) ==
  /\ pc[a] # "out" /\ ~Aborted /\ UNCHANGED <<setup, crashed>>
  /\ \/ LoadTail(a) /\ Unused
     \/ ListStep(a)
     \/ a \in Users /\ (Ask(a) \/ CheckSize(a) \/ TryEnqueue(a))
     \/ /\ a \in Workers
        /\ \/ Poll(a) \/ Score(a) \/ NextSub(a) \/ Serve(a)
           \/ DequeueStep(a) /\ UNCHANGED <<asked, served>>

Next == \/ \E a \in Actors : Thread(a)
        \/ \E w \in Workers : FailToServe(w)
        \/ (Aborted \/ \E p \in Producers : Spent(p)) /\ UNCHANGED vars

(* The threads are run by the scheduler.                                   *)
FairSpec == Init /\ [][Next]_vars /\ \A a \in Actors : WF_vars(Thread(a))

-----------------------------------------------------------------------------
(* Properties.                                                             *)

TypeOK ==
  /\ \A p \in Producers : headIndex[p] \in 0 .. tailIndex[p]
                          /\ blockIndexTail[p] \in 0 .. setup.entries - 1
  /\ freeListHead \in Blocks \cup {Null}
  /\ \A b \in Blocks : freeListRefs[b].n \in 0 .. Cardinality(Actors) + 1
                       /\ freeListNext[b] \in Blocks \cup {Null}

ElementAt(p, index) ==
  LET b == blockIndex[p][EntryOf(p, index, blockIndexTail[p])].value
  IN  IF b \in Blocks THEN elements[b][index % BLK_SIZE] ELSE NoRequest

QueueOf(u) ==
  LET own == {p \in DOMAIN producers : producers[p] = u} IN
  IF own = {} THEN <<>>
  ELSE LET p == CHOOSE p \in own : TRUE
       IN  [n \in 1 .. tailIndex[p] - headIndex[p] |-> ElementAt(p, headIndex[p] + n - 1)]

HandOf(w) ==
  CASE pc[w] \in {"lookup", "locate"} -> ElementAt(p_of(w), my[w].index)
    [] pc[w] \in {"empty", "unlink", "dequeued"} -> my[w].item
    [] OTHER -> NoRequest

(* The queue is a queue: whatever users and workers do at once, the steps  *)
(* of enqueue and dequeue are steps of a queue per user, from which each   *)
(* request goes to one worker, in the user's order; the request a worker   *)
(* reads from a block after it has advanced the head is that one.          *)
Abstract == INSTANCE RequestQueue WITH
  put <- asked, queue <- [u \in Users |-> QueueOf(u)],
  hand <- [w \in Workers |-> HandOf(w)]
ImplementsQueue == Abstract!Spec

InFlight == UNION {{p} \X (headIndex[p] .. tailIndex[p] - 1) : p \in Producers}
SetUsers == setup.threads \cap Users

(* The wait for a short queue is a check before an act, on a size that is  *)
(* read piece by piece while the queue moves: the queue still holds no     *)
(* more than IDLE_QUELEN requests and one for each user.                   *)
InFlightBounded == Cardinality(InFlight) <= IDLE_QUELEN + Cardinality(SetUsers)

(* A thread keeps one sub-queue, although the hash table grows while it    *)
(* enters itself: requests of a user would overtake each other otherwise.  *)
(* And its probes lead to it: no free place is before it in a table.       *)
OneProducer ==
  /\ \A p, q \in DOMAIN producers : producers[p] = producers[q] => p = q
  /\ \A g \in DOMAIN hashes : \A s \in DOMAIN hashes[g] :
       LET e == hashes[g][s]
           c == Capacity(g)
       IN  e.key # Null =>
             \A d \in 0 .. (s - hash_thread_id[e.key]) % c :
               hashes[g][(hash_thread_id[e.key] + d) % c].key # Null

BlockIn(x) == blockIndex[x[1]][x[2]].value
UsedEntries == {x \in Producers \X (0 .. setup.entries - 1) : BlockIn(x) # Null}

(* What is reached from the head: all that every set with the head and     *)
(* what follows its members has.                                           *)
Closed(S) == /\ freeListHead \in S \cup {Null}
             /\ \A b \in S : freeListNext[b] \in S \cup {Null}
OnList == {b \in Blocks : \A S \in SUBSET Blocks : Closed(S) => b \in S}

(* Blocks that a thread has taken from the pool or the list, or is to put  *)
(* on the list.                                                            *)
InHand(a) == {b \in Blocks :
                \/ pc[a] = "fresh" /\ b = my[a].block
                \/ b = fl[a].node /\ (pc[a] = "list" \/ ~At(a, "idle"))}

(* A block has one owner: a place of a block index, the pool, the list of  *)
(* free ones, or one thread.                                               *)
BlocksOnce ==
  LET used == {BlockIn(x) : x \in UsedEntries}
      pool == {Pool[n] : n \in {m \in DOMAIN Pool : m > initialBlockPoolIndex}}
  IN
  /\ \A x, y \in UsedEntries : BlockIn(x) = BlockIn(y) => x = y
  /\ used \cap pool = {} /\ OnList \cap (used \cup pool) = {}
  /\ \A a \in Actors :
       /\ InHand(a) \cap (used \cup pool \cup OnList) = {}
       /\ \A c \in Actors \ {a} : InHand(a) \cap InHand(c) = {}

(* The assertions of concurrentqueue.h: a worker finds its block in the    *)
(* index, no block is emptied more often than it has places, and a block   *)
(* taken from the list is not to be put on it.                             *)
Asserts ==
  \A a \in Actors :
    /\ pc[a] = "locate" =>
         LET e == blockIndex[p_of(a)][EntryOf(p_of(a), my[a].index, my[a].slot)]
         IN  e.key = my[a].index - (my[a].index % BLK_SIZE) /\ e.value # Null
    /\ pc[a] = "empty" => elementsCompletelyDequeued[my[a].block] < BLK_SIZE
    /\ At(a, "got") => ~freeListRefs[fl[a].head].should

Blocks_of(n) == (n + BLK_SIZE - 1) \div BLK_SIZE
NeededEntries == Blocks_of(IDLE_QUELEN + 1) + 1
NeededBlocks ==
  NeededEntries + (Cardinality(SetUsers) - 1) * ((IDLE_QUELEN \div BLK_SIZE) + 2)

(* raid_write_q asserts that try_enqueue succeeds.  With one worker, as    *)
(* StorageMod has, it does if the pool and the block index have the room   *)
(* of the longest queue: blocks are given back in time, and the list of    *)
(* free blocks is not empty while one of them is being put back.           *)
EnqueueSucceeds ==
  Cardinality(setup.threads \cap Workers) = 1 /\ setup.blocks >= NeededBlocks
    /\ setup.entries >= NeededEntries => \A u \in Users : pc[u] # "failed"

(* Every request is served, unless an assertion ends the process, that of  *)
(* a user or of a worker that leads a write over several stripes, or two   *)
(* workers have taken the same chance and both lost it MAX_OVERCOMMIT      *)
(* times: an element that no worker can take is left behind by a count     *)
(* that is not given back.                                                 *)
AllServed ==
  <>(Aborted \/ (\E p \in Producers : Spent(p)) \/ served = Requests(setup))

=============================================================================
