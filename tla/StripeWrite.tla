----------------------------- MODULE StripeWrite -----------------------------
(***************************************************************************)
(* The write path of StRAID: StorageMod::raid_write_direct, the stripe     *)
(* state table (SST) it locks stripes with, the batch queues through which *)
(* a thread that finds its stripe locked hands its piece to the lock       *)
(* holder, and the order of events in SEncodeMod::encode_fullstripe and    *)
(* encode_partialstripe.  Every atomic load, store, compare-and-swap and   *)
(* fetch_add of the code is a step of its own.                             *)
(*                                                                         *)
(* A request is cut into pieces, one per stripe.  For each piece a thread  *)
(* either becomes the leader of the stripe (it wins the lock, lets others  *)
(* join, freezes the stripe, drains its batch queue, writes, unlocks) or a *)
(* follower (it appends its piece to the leader's queue and waits for the  *)
(* unlock).                                                                *)
(*                                                                         *)
(* Left out: the contents of data and parity (module-level data flow), the *)
(* block bitmap, the reads of old data and parity (they only take time,    *)
(* between Thaw and Freeze and between ResetQueueLen and Submit), the      *)
(* parity cache and the depth of the submission ring.                      *)
(***************************************************************************)
EXTENDS Pieces

CONSTANTS Threads,      \* the ids of the worker threads, below NUM_THREADS
          NoThread,     \* INT16_MAX in SSTthreadid
          NUM_STRIPES,  \* entries of SSTable::tablehash
          QUEUE_LEN,    \* slots of v_batchque2[t] (50 in storageMod.h)
          Requests,     \* the requests threads issue, [off, len]
          MaxIO         \* requests a thread issues (bounds the run)

Stripes == 0 .. NUM_STRIPES - 1

ASSUME WriteAssumption ==
  /\ NoThread \notin Threads
  /\ QUEUE_LEN \in Nat \ {0}
  /\ MaxIO \in Nat
  /\ Requests # {}
  /\ \A r \in Requests :
       /\ r.off \in Nat /\ r.len \in Nat \ {0}
       /\ user2stripe(r.off) \in Stripes
       /\ user2stripe(r.off + r.len - 1) \in Stripes

VARIABLES
  stripe_lock, SSTthreadid, is_frozen,  \* SSTEntry, per stripe
  inqueue_data_len,                     \* per thread: BatchQueue counter
  v_batchque2,                          \* per thread: slots of DIO_Info
  pc, uio, io_count, ck,                \* per thread: where it is, its request
  wid, slot,                            \* per thread: as a follower
  qlen, bat_dios,                       \* per thread: as a leader
  inflight,                             \* per thread: writes not completed
  aborted,                              \* an uncaught exception ended the process
  landed,                               \* history: what reached the devices
  joined                                \* history: pieces queued in an open turn

sst == <<stripe_lock, SSTthreadid, is_frozen>>
queues == <<inqueue_data_len, v_batchque2>>
request == <<uio, io_count, ck>>
follower == <<wid, slot>>
leader == <<qlen, bat_dios, inflight>>
history == <<landed, joined>>
vars == <<sst, queues, pc, request, follower, leader, aborted, history>>

-----------------------------------------------------------------------------
(* The device I/Os of a piece.                                             *)

(* What a DIO_Info holds.  A buffer pointer is the request it belongs to   *)
(* and the user address whose data it points at.                           *)
Dio(d, o, n, b) == [dev |-> d, off |-> o, len |-> n, buf |-> b]
Buf(op, a) == [op |-> op, addr |-> a]
ParityBuf(t) == [op |-> <<t, -1>>, addr |-> 0]
NULL == [op |-> <<NoThread, 0>>, addr |-> 0]
NoDio == Dio(-1, 0, 0, NULL)

(* s_uio2dio: the whole piece at the place of its first unit.              *)
s_uio2dio(p, op) ==
  LET at == user2dev(p.off) IN Dio(at.dev, at.off, p.len, Buf(op, p.off))

(* One I/O per chunk the piece touches.                                    *)
split_chunk2dio(p, op) == {s_uio2dio(c, op) : c \in Chunks(p)}

(* The device cells an I/O writes, with the data it puts there.            *)
Cells(dio) == {<<dio.dev, dio.off + k, dio.buf.op, dio.buf.addr + k>> :
                 k \in 0 .. dio.len - 1}

-----------------------------------------------------------------------------
(* The thread's own view.                                                  *)

Op(t) == <<t, io_count[t]>>
suio(t) == Piece(uio[t], ck[t])

(* The SST entry raid_write_direct uses for every piece of the request.    *)
Entry(t) == user2stripe(uio[t].off)

(* The stripe the piece is in, as the encoder computes it.                 *)
PieceStripe(t) == user2stripe(suio(t).off)

IsFull(t) == is_fullstripe(suio(t).off, suio(t).len)
FollowerDio(t) == s_uio2dio(suio(t), Op(t))

Holding == {"setowner", "thaw", "freeze", "loadqlen", "copy", "resetlen",
            "submit", "await", "clearowner", "unlock"}
Putting == {"put", "putraced"}
Waiting == {"idle", "trylock", "checkfrozen", "loadwid", "recheck",
            "reserve", "wait"}

Holds(t, s) == pc[t] \in Holding /\ Entry(t) = s

(* Followers that have reserved slot i of w's queue and are storing to it. *)
Pending(w, i) == {u \in Threads : pc[u] \in Putting /\ wid[u] = w /\ slot[u] = i}

(* Any mix of the fields of the records D: DIO_Info is copied word by word *)
(* with no synchronisation.                                                *)
Torn(D) == [dev : {d.dev : d \in D}, off : {d.off : d \in D},
            len : {d.len : d \in D}, buf : {d.buf : d \in D}]

(* What a read of slot i of w's queue may return.                          *)
SlotValues(w, i) ==
  Torn({v_batchque2[w][i]} \union {FollowerDio(u) : u \in Pending(w, i)})

Goto(t, l) == pc' = [pc EXCEPT ![t] = l]

(* The end of the while (!handled) loop: the next piece, or the return.    *)
Handled(t) ==
  IF ck[t] < NumPieces(uio[t]) - 1
  THEN /\ ck' = [ck EXCEPT ![t] = @ + 1]
       /\ Goto(t, "trylock")
       /\ UNCHANGED <<uio, io_count>>
  ELSE /\ ck' = [ck EXCEPT ![t] = 0]
       /\ io_count' = [io_count EXCEPT ![t] = @ + 1]
       /\ Goto(t, "idle")
       /\ UNCHANGED uio

-----------------------------------------------------------------------------
(* Steps as a plausible mistake would make them; no specification uses     *)
(* them.  Each shows that a property of the section at the end can fail.   *)

(* The lock taken by a store instead of a compare-and-swap.                *)
LockStripe_Store(t) ==
  /\ pc[t] = "trylock"
  /\ stripe_lock' = [stripe_lock EXCEPT ![Entry(t)] = TRUE]
  /\ Goto(t, "setowner")
  /\ UNCHANGED <<SSTthreadid, is_frozen, queues, request, follower, leader,
                 aborted, history>>

(* The encoder forgets is_frozen.store(true).                              *)
Freeze_Forgotten(t) ==
  /\ pc[t] = "freeze"
  /\ Goto(t, IF IsFull(t) THEN "submit" ELSE "loadqlen")
  /\ UNCHANGED <<sst, queues, request, follower, leader, aborted, history>>

(* if (qlen > 1) instead of if (qlen > 0).                                 *)
LoadQueueLen_OffByOne(t) ==
  /\ pc[t] = "loadqlen"
  /\ qlen' = [qlen EXCEPT ![t] = inqueue_data_len[t]]
  /\ Goto(t, IF inqueue_data_len[t] > 1 THEN "copy" ELSE "submit")
  /\ UNCHANGED <<sst, queues, request, follower, bat_dios, inflight, aborted,
                 history>>

(* The drained queue is not emptied.                                       *)
ResetQueueLen_Forgotten(t) ==
  /\ pc[t] = "resetlen"
  /\ Goto(t, "submit")
  /\ UNCHANGED <<sst, queues, request, follower, leader, aborted, history>>

(* No iouring_wait after the last io_uring_submit.                         *)
AwaitIO_NoWait(t) ==
  /\ pc[t] = "await"
  /\ Goto(t, "clearowner")
  /\ UNCHANGED <<sst, queues, request, follower, leader, aborted, history>>

(* The owner tag is left behind.                                           *)
ClearOwner_Forgotten(t) ==
  /\ pc[t] = "clearowner"
  /\ Goto(t, "unlock")
  /\ UNCHANGED <<sst, queues, request, follower, leader, aborted, history>>

(* The entry of the piece's stripe is unlocked, not the one locked.        *)
Unlock_Piece(t) ==
  /\ pc[t] = "unlock"
  /\ stripe_lock' = [stripe_lock EXCEPT ![PieceStripe(t)] = FALSE]
  /\ Handled(t)
  /\ UNCHANGED <<SSTthreadid, is_frozen, queues, follower, leader, aborted,
                 history>>

(* The lock is never given back.                                           *)
Unlock_Forgotten(t) ==
  /\ pc[t] = "unlock"
  /\ Handled(t)
  /\ UNCHANGED <<sst, queues, follower, leader, aborted, history>>

(* The owner is used without the test SSTthreadid < NUM_THREADS.           *)
LoadWid_NoTest(t) ==
  /\ pc[t] = "loadwid"
  /\ wid' = [wid EXCEPT ![t] = SSTthreadid[Entry(t)]]
  /\ Goto(t, "recheck")
  /\ UNCHANGED <<sst, queues, request, slot, leader, aborted, history>>

-----------------------------------------------------------------------------
Init ==
  /\ stripe_lock = [s \in Stripes |-> FALSE]
  /\ SSTthreadid = [s \in Stripes |-> NoThread]
  /\ is_frozen = [s \in Stripes |-> FALSE]
  /\ inqueue_data_len = [t \in Threads |-> 0]
  /\ v_batchque2 = [t \in Threads |-> [i \in 0 .. QUEUE_LEN - 1 |-> NoDio]]
  /\ pc = [t \in Threads |-> "idle"]
  /\ uio = [t \in Threads |-> CHOOSE r \in Requests : TRUE]
  /\ io_count = [t \in Threads |-> 0]
  /\ ck = [t \in Threads |-> 0]
  /\ wid = [t \in Threads |-> NoThread]
  /\ slot = [t \in Threads |-> 0]
  /\ qlen = [t \in Threads |-> 0]
  /\ bat_dios = [t \in Threads |-> {}]
  /\ inflight = [t \in Threads |-> {}]
  /\ aborted = FALSE
  /\ landed = {}
  /\ joined = {}

Issue(t) ==
  /\ pc[t] = "idle"
  /\ io_count[t] < MaxIO
  /\ \E r \in Requests : uio' = [uio EXCEPT ![t] = r]
  /\ Goto(t, "trylock")
  /\ UNCHANGED <<sst, queues, io_count, ck, follower, leader, aborted, history>>

LockStripe(t) ==
  /\ pc[t] = "trylock"
  /\ ~stripe_lock[Entry(t)]
  /\ stripe_lock' = [stripe_lock EXCEPT ![Entry(t)] = TRUE]
  /\ Goto(t, "setowner")
  /\ UNCHANGED <<SSTthreadid, is_frozen, queues, request, follower, leader,
                 aborted, history>>

LockBusy(t) ==
  /\ pc[t] = "trylock"
  /\ stripe_lock[Entry(t)]
  /\ Goto(t, "checkfrozen")
  /\ UNCHANGED <<sst, queues, request, follower, leader, aborted, history>>

-----------------------------------------------------------------------------
(* The leader.                                                             *)

SetOwner(t) ==
  /\ pc[t] = "setowner"
  /\ SSTthreadid' = [SSTthreadid EXCEPT ![Entry(t)] = t]
  /\ Goto(t, "thaw")
  /\ UNCHANGED <<stripe_lock, is_frozen, queues, request, follower, leader,
                 aborted, history>>

Thaw(t) ==
  /\ pc[t] = "thaw"
  /\ is_frozen' = [is_frozen EXCEPT ![Entry(t)] = FALSE]
  /\ Goto(t, "freeze")
  /\ UNCHANGED <<stripe_lock, SSTthreadid, queues, request, follower, leader,
                 aborted, history>>

(* Freezing the stripe of the piece; encode_fullstripe goes on to write,   *)
(* encode_partialstripe to its batch queue.                                *)
Freeze(t) ==
  /\ pc[t] = "freeze"
  /\ is_frozen' = [is_frozen EXCEPT ![PieceStripe(t)] = TRUE]
  /\ Goto(t, IF IsFull(t) THEN "submit" ELSE "loadqlen")
  /\ UNCHANGED <<stripe_lock, SSTthreadid, queues, request, follower, leader,
                 aborted, history>>

LoadQueueLen(t) ==
  /\ pc[t] = "loadqlen"
  /\ qlen' = [qlen EXCEPT ![t] = inqueue_data_len[t]]
  /\ Goto(t, IF inqueue_data_len[t] > 0 THEN "copy" ELSE "submit")
  /\ UNCHANGED <<sst, queues, request, follower, bat_dios, inflight, aborted,
                 history>>

CopyBatch(t) ==
  /\ pc[t] = "copy"
  /\ LET I == 0 .. qlen[t] - 1
         Copies == {f \in [I -> UNION {SlotValues(t, i) : i \in I}] :
                      \A i \in I : f[i] \in SlotValues(t, i)}
     IN  \E f \in Copies : bat_dios' = [bat_dios EXCEPT ![t] = {f[i] : i \in I}]
  /\ Goto(t, "resetlen")
  /\ UNCHANGED <<sst, queues, request, follower, qlen, inflight, aborted,
                 history>>

ResetQueueLen(t) ==
  /\ pc[t] = "resetlen"
  /\ inqueue_data_len' = [inqueue_data_len EXCEPT ![t] = 0]
  /\ Goto(t, "submit")
  /\ UNCHANGED <<sst, v_batchque2, request, follower, leader, aborted, history>>

(* The I/Os of the leader's own piece, of the batch, and of the parity     *)
(* chunk, at the smallest offset and of the largest length among them; a   *)
(* full stripe's parity chunk is its own stripe's.                         *)
ParityIO(t, own) ==
  LET all == own \union bat_dios[t]
      ppos == stripe2paritypos(PieceStripe(t))
  IN  Dio(ppos, Min({d.off : d \in all}), Max({d.len : d \in all}),
          ParityBuf(t))

Submit(t) ==
  /\ pc[t] = "submit"
  /\ IF \E d \in bat_dios[t] : d.dev \notin Devices   \* v_stdfiles->at throws
     THEN /\ aborted' = TRUE
          /\ UNCHANGED <<pc, leader>>
     ELSE LET own == split_chunk2dio(suio(t), Op(t))
          IN  /\ inflight' = [inflight EXCEPT ![t] =
                                own \union bat_dios[t] \union {ParityIO(t, own)}]
              /\ qlen' = [qlen EXCEPT ![t] = 0]
              /\ bat_dios' = [bat_dios EXCEPT ![t] = {}]
              /\ Goto(t, "await")
              /\ UNCHANGED aborted
  /\ UNCHANGED <<sst, queues, request, follower, history>>

(* The device finishes a write.  One with a null buffer fails, which       *)
(* iouring_wait does not look at.                                          *)
CompleteIO(t) ==
  /\ \E d \in inflight[t] :
       /\ inflight' = [inflight EXCEPT ![t] = @ \ {d}]
       /\ landed' = IF d.buf = NULL THEN landed ELSE landed \union Cells(d)
  /\ UNCHANGED <<sst, queues, pc, request, follower, qlen, bat_dios, aborted,
                 joined>>

AwaitIO(t) ==
  /\ pc[t] = "await"
  /\ inflight[t] = {}
  /\ Goto(t, "clearowner")
  /\ UNCHANGED <<sst, queues, request, follower, leader, aborted, history>>

ClearOwner(t) ==
  /\ pc[t] = "clearowner"
  /\ SSTthreadid' = [SSTthreadid EXCEPT ![Entry(t)] = NoThread]
  /\ Goto(t, "unlock")
  /\ UNCHANGED <<stripe_lock, is_frozen, queues, request, follower, leader,
                 aborted, history>>

Unlock(t) ==
  /\ pc[t] = "unlock"
  /\ stripe_lock' = [stripe_lock EXCEPT ![Entry(t)] = FALSE]
  /\ Handled(t)
  /\ UNCHANGED <<SSTthreadid, is_frozen, queues, follower, leader, aborted,
                 history>>

-----------------------------------------------------------------------------
(* The follower.                                                           *)

CheckFrozen(t) ==
  /\ pc[t] = "checkfrozen"
  /\ Goto(t, IF is_frozen[Entry(t)] THEN "trylock" ELSE "loadwid")
  /\ UNCHANGED <<sst, queues, request, follower, leader, aborted, history>>

(* The test SSTthreadid < NUM_THREADS and the load into wid: both send the *)
(* thread back to the lock when nobody owns the stripe.                    *)
LoadWid(t) ==
  /\ pc[t] = "loadwid"
  /\ IF SSTthreadid[Entry(t)] = NoThread
     THEN Goto(t, "trylock") /\ UNCHANGED wid
     ELSE /\ wid' = [wid EXCEPT ![t] = SSTthreadid[Entry(t)]]
          /\ Goto(t, "recheck")
  /\ UNCHANGED <<sst, queues, request, slot, leader, aborted, history>>

RecheckFrozen(t) ==
  /\ pc[t] = "recheck"
  /\ IF is_frozen[Entry(t)]
     THEN Goto(t, "trylock") /\ wid' = [wid EXCEPT ![t] = NoThread]
     ELSE Goto(t, "reserve") /\ UNCHANGED wid
  /\ UNCHANGED <<sst, queues, request, slot, leader, aborted, history>>

(* queue_len->fetch_add(1), and vector::at, which throws past the end.     *)
Reserve(t) ==
  LET w == wid[t] IN
  /\ pc[t] = "reserve"
  /\ inqueue_data_len' = [inqueue_data_len EXCEPT ![w] = @ + 1]
  /\ IF inqueue_data_len[w] >= QUEUE_LEN
     THEN aborted' = TRUE /\ UNCHANGED <<pc, slot>>
     ELSE /\ slot' = [slot EXCEPT ![t] = inqueue_data_len[w]]
          /\ Goto(t, "put")
          /\ UNCHANGED aborted
  /\ UNCHANGED <<sst, v_batchque2, request, wid, leader, history>>

(* The leader w of t's stripe will still load a length that covers t's     *)
(* slot, and nobody else has been or is storing to the slot meanwhile: t   *)
(* joined an open turn.                                                    *)
OpenTurn(t) ==
  LET w == wid[t] IN
  /\ pc[t] = "put"
  /\ pc[w] \in {"setowner", "thaw", "freeze", "loadqlen"}
  /\ Entry(w) = Entry(t)
  /\ ~IsFull(w)
  /\ slot[t] < inqueue_data_len[w]
  /\ Pending(w, slot[t]) = {t}

(* The store of the DIO_Info into its slot.  Followers still storing to    *)
(* the same slot then finish a store that t's has overlapped.              *)
Put(t) ==
  LET w == wid[t]
      mine == FollowerDio(t)
      others == Pending(w, slot[t]) \ {t}
  IN
  /\ pc[t] \in Putting
  /\ \E d \in IF pc[t] = "put" THEN {mine}
              ELSE Torn({mine, v_batchque2[w][slot[t]]}) :
       v_batchque2' = [v_batchque2 EXCEPT ![w][slot[t]] = d]
  /\ joined' = IF OpenTurn(t)
               THEN joined \union {[op |-> Op(t), ck |-> ck[t], dio |-> mine]}
               ELSE joined
  /\ pc' = [u \in Threads |-> IF u = t THEN "wait"
                              ELSE IF u \in others THEN "putraced"
                              ELSE pc[u]]
  /\ wid' = [wid EXCEPT ![t] = NoThread]
  /\ slot' = [slot EXCEPT ![t] = 0]
  /\ UNCHANGED <<sst, inqueue_data_len, request, leader, aborted, landed>>

WaitUnlock(t) ==
  /\ pc[t] = "wait"
  /\ ~stripe_lock[Entry(t)]
  /\ Handled(t)
  /\ UNCHANGED <<sst, queues, follower, leader, aborted, history>>

-----------------------------------------------------------------------------
Step(t) ==
  \/ Issue(t) \/ LockStripe(t) \/ LockBusy(t)
  \/ SetOwner(t) \/ Thaw(t) \/ Freeze(t) \/ LoadQueueLen(t) \/ CopyBatch(t)
  \/ ResetQueueLen(t) \/ Submit(t) \/ AwaitIO(t) \/ ClearOwner(t) \/ Unlock(t)
  \/ CheckFrozen(t) \/ LoadWid(t) \/ RecheckFrozen(t) \/ Reserve(t) \/ Put(t)
  \/ WaitUnlock(t)

AllDone == \A t \in Threads : pc[t] = "idle" /\ io_count[t] = MaxIO

(* Every thread has returned from its last request, or the process died.   *)
Terminating == (AllDone \/ aborted) /\ UNCHANGED vars

Next == \/ ~aborted /\ \E t \in Threads : Step(t) \/ CompleteIO(t)
        \/ Terminating

Spec == Init /\ [][Next]_vars

(* The scheduler runs every thread and the device finishes every write.    *)
Fairness == \A t \in Threads : /\ WF_vars(~aborted /\ Step(t))
                               /\ WF_vars(~aborted /\ CompleteIO(t))

FairSpec == Spec /\ Fairness

-----------------------------------------------------------------------------
(* Properties.                                                             *)

TypeOK ==
  /\ stripe_lock \in [Stripes -> BOOLEAN]
  /\ SSTthreadid \in [Stripes -> Threads \union {NoThread}]
  /\ is_frozen \in [Stripes -> BOOLEAN]
  /\ inqueue_data_len \in [Threads -> Nat]
  /\ pc \in [Threads -> Holding \union Putting \union Waiting]
  /\ uio \in [Threads -> Requests]
  /\ io_count \in [Threads -> 0 .. MaxIO]
  /\ ck \in [Threads -> Nat]
  /\ \A t \in Threads : /\ ck[t] < NumPieces(uio[t])
                        /\ pc[t] = "idle" => ck[t] = 0
                        /\ pc[t] # "idle" => io_count[t] < MaxIO
  /\ wid \in [Threads -> Threads \union {NoThread}]
  /\ \A t \in Threads : pc[t] \in Putting \union {"recheck", "reserve"}
                          => wid[t] \in Threads
  /\ aborted \in BOOLEAN

(* The stripe lock is a lock: an SST entry is locked exactly while one     *)
(* thread is between its compare-and-swap and its unlock of that entry,    *)
(* and no two threads are there for the same entry (raid_write_direct).    *)
LockExclusive ==
  /\ \A s \in Stripes : stripe_lock[s] <=> \E t \in Threads : Holds(t, s)
  /\ \A t, u \in Threads : \A s \in Stripes :
       Holds(t, s) /\ Holds(u, s) => t = u

(* A follower that reads an owner in an SST entry reads the thread that    *)
(* holds the lock of that entry; the tag never outlives the lock.          *)
OwnerTagged ==
  \A s \in Stripes : SSTthreadid[s] # NoThread =>
    stripe_lock[s] /\ Holds(SSTthreadid[s], s)

(* The stripe state table implements StripeOwner: each stripe goes through *)
(* whole turns, whatever the threads do (raid_write_direct with the two    *)
(* encoders, when every request is in one stripe).                         *)
Turns == INSTANCE StripeOwner
           WITH lock <- stripe_lock, owner <- SSTthreadid, frozen <- is_frozen

StripeTurns == Turns!Spec

(* Every request stays within one stripe.                                  *)
SingleStripe == \A r \in Requests : NumPieces(r) = 1

(* One thread at a time works on a stripe ("stripe-threaded"): two leaders *)
(* never have pieces of the same stripe.                                   *)
PieceExclusive ==
  \A t, u \in Threads :
    pc[t] \in Holding /\ pc[u] \in Holding /\ PieceStripe(t) = PieceStripe(u)
      => t = u

(* While a write of a thread's own data is in flight no other thread has   *)
(* one to the same cell: a stripe changes hands only after iouring_wait    *)
(* has seen all that was submitted under its lock.                         *)
OwnCells(t) ==
  {<<c[1], c[2]>> : c \in UNION {Cells(d) : d \in {e \in inflight[t] :
                                  e.buf.op \in {t} \X (0 .. MaxIO)}}}

NoWriteCollision ==
  \A t, u \in Threads : t # u => OwnCells(t) \intersect OwnCells(u) = {}

(* What batching promises a follower: a piece whose DIO_Info was complete  *)
(* in the queue before its leader read the queue's length is on the device *)
(* by the time raid_write_direct goes past that piece.                     *)
JoinedServed ==
  \A j \in joined :
    \/ Op(j.op[1]) = j.op /\ ck[j.op[1]] = j.ck
    \/ Cells(j.dio) \subseteq landed

(* Without full-stripe writes a batch queue holds at most two entries per  *)
(* other thread: one left behind after its owner's last drain, one of the  *)
(* owner's current turn.                                                   *)
QueueBounded ==
  \A t \in Threads : inqueue_data_len[t] <= 2 * (Cardinality(Threads) - 1)

(* Every request issued returns, unless the process dies of an exception.  *)
EveryWriteReturns == <>(AllDone \/ aborted)

(* A frozen stripe takes no more joiners: once the owner of a frozen       *)
(* stripe has read its queue and goes on to write, nobody stores another   *)
(* DIO_Info in that queue (encode.cc: "Frozen", the entry "is not to be    *)
(* changed or is being processed").                                        *)
FrozenBatchClosed ==
  [][\A t \in Threads :
       pc[t] \in Putting /\ pc'[t] = "wait" /\ is_frozen[Entry(t)]
         => pc[wid[t]] \notin {"submit", "await", "clearowner", "unlock"}]_vars

=============================================================================
