# A TLA+ model of StRAID

StRAID is a user-space parity RAID for NVMe devices. Worker threads issue
requests; the code cuts a request into stripes, and a *stripe state table* lets
one thread at a time own a stripe while the others hand it their pieces. This
directory models that write path at the granularity of its atomic operations,
the address arithmetic and the cutting of requests loop by loop, what writes and
reads do to data and parity, the parity cache with its lock-free queue, the
queued interface with the concurrent queue under it, and the five programs that
drive StRAID. TLC checks the properties on small instances; TLAPS proves 39
results, on the layout, the cutting of requests, the write path and its queues,
the contents of data and parity, the parity cache, the queued interface with its
concurrent queue, and the programs, for every value of the constants.

Paths below are relative to `src/code`.

## 1. Inventory

| Component | Code | State | Operations |
|---|---|---|---|
| Layout | `include/logfiles.cc` | none | `user2stripe`, `user2dev`, `stripe2devoff`, ... |
| Request splitting | `include/storageMod.cc` 128-305 | loop variables | `split_stripe_aligned`, `split_chunk2dio`, `split_schunk`, `split_block` |
| Stripe state table | `include/metadata.h` 107-235 | per stripe: lock, owner, frozen | `search_SST`, loads, stores and the compare-and-swap of the callers |
| Write path | `include/storageMod.cc` 307-336, 445-510 | batch queue and length per thread | `raid_write_direct`, `raid_write` |
| Encoder | `include/encode.cc`, `ecEncoder.h` | parity, old-data, new-data and data buffers per thread; a submission ring per thread | `encode_fullstripe`, `encode_partialstripe` |
| Decoder | `include/decode.cc` | buffers, a ring per thread | `s_norRead`, `reconstruct_dio`, `encode_dio` |
| Parity cache | `include/cache.h` | map of device offsets, LRU queue | `search`, `get`, `insert_cpy` |
| KQueue | `include/kfifo.h` | `head`, `tail`, ring of slots | `enqueue`, `dequeue` |
| Block bitmap | `include/metadata.h` 288-386 | bits, counters | `set`, `reset`, `bitmap_run` |
| Queued interface | `include/storageMod.cc` 356-443, 512-538, `queues.h` | a user queue per worker | `raid_write_q`, `raid_read_q`, `workers_run` |
| Concurrent queue | `include/concurrentqueue/concurrentqueue.h` | per producer: head and tail index, two counts of dequeuers, a circular index of blocks; a pool and a free list of blocks; a hash table of producers | `try_enqueue`, `try_dequeue`, `size_approx` |
| Trace replay | `src/trace_st.cc`, `src/trace_md.cc` | three cursors, counters, flag | parser, `worker_run`, `collector_run`, `main` |
| Micro-benchmark, demo | `src/bench.cc`, `src/main.cc`, `include/worker.h` | `SeqW_Offset`, latencies | the tests, `thread_worker` |
| Mixed load | `src/load.cc`, `include/workerl.h` | `SeqW_Offset`, counters, flag, `Worker_Info` | `self_thread_worker`, `collector_run`, `main` |

**Interactions.** A driver thread calls `raid_write_direct` or `raid_read`
synchronously. Writers meet only in the stripe table (three atomics per stripe),
in the batch queues of the threads that own stripes (a counter and a plain
array) and in the parity cache. Each thread has its own `io_uring`; reads take no
lock. The threads of a program meet in global atomics (cursors, counters) and in
plain flags. In the queued interface users and one worker meet in a user queue;
no program calls it, and the line that starts the workers (`storageMod.h:75`) is
commented out.

**What is hard.** The protocol of the stripe table is three separate atomics with
no versions; a follower checks `is_frozen`, reads the owner, and uses that
owner's queue later. The leader loads the queue length, copies entries, and
stores 0. Requests over several stripes look up one table entry. The LRU queue
reuses slots without versions. The address arithmetic wraps around devices and
subtracts unsigned lengths. A dequeuer of the concurrent queue compares counts it
loaded at different times; its blocks go round between an index, a free list
and the hands of threads. The programs take the parts of a request from several
counters, sample counters that move, and reset what other threads still
advance. `PROJECT.json` lists each hazard at its line.

**What makes each component correct.** Layout: distinct user addresses have
distinct places, parity is on another device than the stripe's data. Splitting:
each address of a request in one device I/O, at its place. Stripe table: turns
of one owner at a time. Write path: nobody else writes a stripe that is being
written, what was handed over in time is written before the write returns, and
every write returns. Encoder and decoder: reads return what was written, also
by reconstruction; parity is the exclusive or of the data. Queue and cache:
nothing is lost or invented, a victim is always there. Queued interface: each
request goes to one worker, in its user's order, the queue stays short, and all
are served. Programs: totals exact, samples add up, requests within the table,
the buffers and the thread's own part, the dataset covered once, and they end.

## 2. Modules

```
Layout ── Pieces ─┬─ StripeWrite ── MCStripeWrite        StripeOwner
   │              │       └─ (refines) ────────────────────┘
   │              ├─ Split ── MCSplit
   │              └─ StripeData ── MCStripeData
   └─ Drivers ─┬─ Collector ────┬─ TraceReplay ─┬─ FivePrograms ── MCDrivers
               │                └─ Workload ────┤
               └─ ThreadWorker ─┬─ Workload     │
                                └─ Bench ───────┘
      TraceReplay ── MCTraceReplay
KQueue ── ParityCache ── MCParityCache
FreeList ── ConcurrentQueue ── ImplicitProducer ── UserQueue ── MCUserQueue
                                 RequestQueue ── (refined by) ──┘

Layout ── LayoutProofs ─┬─ StripeWriteProofs (with StripeWrite)
                        ├─ SplitProofs (with Split)
                        ├─ StripeDataProofs (with StripeData)
                        └─ DriverProofs (with FivePrograms)
ParityCache ── ParityCacheProofs
UserQueue ── UserQueueProofs ── QueueOrderProofs
```

### Layout
Every function of `logfiles.cc` is an operator of the same name. Constants are
the chunk size and the numbers of data and parity chunks (7 and 1 in `define.h`).

### Pieces
The closed form of the two cuts the write path uses: the pieces of a request,
one per stripe, and the chunks of a piece. `Split` shows that the loops compute
them; the other modules take them as given.

### Split
`split_stripe_aligned`, then for each piece of a write `split_block` and
`split_chunk2dio`, or for a read `split_schunk`, one action per loop iteration,
with `remain_len` a word of `WORD` values (unsigned in the code) and the
sequences built so far as state. `blocks` are the bitmap bits a write resets.

### StripeOwner (abstract) and StripeWrite
`StripeOwner` says what the table promises: each stripe is handed out in turns
Take, Claim, Open, Freeze, Withdraw, GiveBack. `StripeWrite` is
`raid_write_direct` with the two encoders. `pc[t]` is the place in the code:

| Action | Code |
|---|---|
| `Issue` | a request comes in; it is cut into pieces |
| `LockStripe`, `LockBusy` | `stripe_lock.compare_exchange_strong` |
| `SetOwner`, `Thaw` | `SSTthreadid.store(tid)`, `is_frozen.store(false)` |
| `Freeze`, `LoadQueueLen`, `CopyBatch`, `ResetQueueLen` | `encode_partialstripe` 137-150, one entry per step (a full stripe freezes and drains nothing) |
| `Submit`, `AwaitIO`, `CompleteIO` | `io_uring_submit`, `iouring_wait`, the device |
| `ClearOwner`, `Unlock` | `SSTthreadid.store(INT16_MAX)`, `stripe_lock.store(false)` |
| `CheckFrozen`, `LoadWid`, `RecheckFrozen` | the three loads of the follower |
| `Reserve`, `Put` | `fetch_add(1)`; the copy of a `DIO_Info` into the slot |
| `WaitUnlock` | the spin on `stripe_lock` |

`Put` is two steps because `DIO_Info` is copied without synchronisation: a leader
that copies the slot in between gets any mixture (`Torn`), which is
what the unsynchronised copy may produce. An index beyond the vector throws
(`vector::at`) and ends the process (`aborted`). `Entry(t)` is the table entry
of the *first* stripe of the request, as the code has it; `PieceStripe(t)` is
the stripe the piece is in. Requests in flight are a set; reads of old data and
parity only take time.

### StripeData
What writes and reads do to contents. A unit of a device or buffer holds the set
of the written units whose exclusive or it is, so that XOR is symmetric
difference and every error of parity shows. A writer prepares and submits the I/Os
of a write in one step (`StartFull`, `StartPartial`: what it reads before that it
may read at once, since `StripeWrite` keeps writers of one stripe apart), the
devices take them one by one in any order (`Land`), and the write ends
(`EndWrite`). A reader has no lock: `StartRead` submits an I/O for each chunk, a
device serves it or refuses it (`Answer`, `Refuse`), and for each refused chunk
the rows of the other devices are read one by one (`Fetch`) and put together
(`Rebuild`). All of these interleave. `may` is the history a read is
judged by: per address, what was written last before the read started and what
was under way then or has started since; `calm` is the set of stripes that were
last written as a whole and have seen no write during the read.

Buffers that the code keeps between writes (`v_enparitybuf`, `v_newdatabuf`,
`v_endatabuf`) are state, since what they still hold matters. Modelled as the code
has them: the parity cache copies no byte (`memcpy(..., 0)`), the parity offset is
a minimum that starts at `INT_MAX`, `O_DIRECT` refuses unaligned offsets. Assumed:
one parity chunk, zeroed devices at the start, a follower's piece within one
chunk, reads from a chunk boundary or within one chunk, one writing leader and one
reader at a time, `RECONST_MOD`, no eviction from the cache.

### KQueue, ParityCache
`KQueue` has one action per load, store or compare-and-swap of `enqueue`,
`dequeue` and what they call, with `findIndex` and `segment_has_stuff` slot by
slot and the random start of `findIndex` nondeterministic. `ParityCache` calls
it as `insert_cpy` does: enqueue, insert, size, dequeue, look up the victim or
take the first key, erase. The stripe lock keeps two insertions of one *stripe*
apart; stripes past `INT_MAX` share one *key*, and offset 0 is the value that
marks a free slot. The libcds map is external and linearizable. A failed
assertion stops the thread at `refused` or `nothing`.

### FreeList, ConcurrentQueue, ImplicitProducer, UserQueue
The queued interface over `concurrentqueue.h`, one action per shared access that
another thread can tell.

| Module | Code |
|---|---|
| `FreeList` | `FreeList::try_get`, `add`, `add_knowing_refcount_is_zero`: the list with its reference counts and the flag `SHOULD_BE_ON_FREELIST` |
| `ConcurrentQueue` | the initial pool, `try_get_block_from_initial_pool`, `get_or_add_implicit_producer` with the growth of the hash table, the scans of `size_approx` and `try_dequeue` |
| `ImplicitProducer` | `enqueue` with the block index, `dequeue`: the optimistic count, the overcommit, the head, the index, the block's counter |
| `UserQueue` | `raid_write_q`/`raid_read_q` (wait until the queue is short, then `try_enqueue` and its assertion) and the loop of `workers_run`, with the assertion a write over several stripes may fail (`FailToServe`) |
| `RequestQueue` | abstract: a queue per user, from which each request goes to one worker |

`setup`, chosen in `Init`, says which threads take part, how many requests each
makes, the length a user waits for, and the sizes of pool and block index, so
that one run covers several. The set of `threads` and the set of blocks are
finite; `hash_thread_id` is any function to natural numbers, and makes all threads
collide in the run. `OnList` is what is reached from the head of the free list,
said by closed sets; `InFlight` is the set of the pairs of a sub-queue and an index
between its head and its tail.
`LongWrites` are the requests that are writes over several stripes. For each stripe
of one `workers_run` calls `raid_write` with the *whole* request
(`storageMod.cc:405`), where `raid_write_direct` passes the piece; so a worker that
leads fails the assertion of `split_chunk2dio` (line 147) and the process ends. It
gets by only if it finds each of the stripes taken by the worker of another queue,
to which it then hands the whole request as one I/O. Any other request takes the
paths of `raid_write_direct` and `raid_read`.
`ImplementsQueue` maps a user's abstract queue to the elements between head and
tail of its sub-queue, and a worker's hand to the element at the index it took,
before it has read it from the block.

### Drivers, Collector, ThreadWorker, FivePrograms
`Drivers` is what the five programs share: main's and the threads' places,
latencies, the entries of the stripe table. `Collector` is the sampling thread
of `trace_st`, `trace_md` and `load`: it loads its counters one after the other
and adds up the differences, until the flag. `ThreadWorker` is `worker.h`: the
loops, the shared `SeqW_Offset` with its racy reset, the offsets drawn.

- `TraceReplay` (`trace_st`, `trace_md`): the parser, one step per line of the
  file (`NewTrace`, `ReadLine`, which skips a line that is longer than `Accepted`,
  and the end of the file in each program), three `fetch_add` per request, the
  fit into the user space, the counters, the join, the report and the reset for
  the next trace.
- `Bench` (`bench`, `main`): the argument, the row of tests with the joins
  between them, the rounding of the size to blocks, the position in the
  workload buffer.
- `Workload` (`load`): writers and readers at once, each with a part of the space
  and a number of requests from the settings of `workerl.h`; `is_degr_read` of a
  `Worker_Info` from `malloc` may be anything.

`FivePrograms` composes them: a program's actions leave the others' variables
alone, and one run plays all. An exception or a failed assertion is a state
`aborted`. Serving a request is one step, since `StripeWrite` has the rest; it may
fail (`worker_fails`): on `search_SST`'s assertion for a write of `trace_st` past the
stripe table, on a transfer of `trace_md` past the device (`MD_LEN`) or past its
buffer. That a batch queue is full (`at`, `storageMod.cc:494`) is left to
`StripeWrite`.

## 3. Runs

| Run | Instance | Shows |
|---|---|---|
| `sw_turns` | 2 threads, one stripe, 3 writes of one chunk each | `TypeOK`; `PieceExclusive`; `NoWriteCollision`: no data write overlaps another thread's in flight; `QueueBounded`: at most two entries per other thread in a queue; `StripeTurns`: StripeWrite implements StripeOwner; `EveryWriteReturns` under fairness |
| `sw_mixed` | 3 threads, one request each: full stripe, part, across two stripes | `LockExclusive`, `OwnerTagged`, and `JoinedServed`: a piece complete in the queue before the length is read is on the device when its write goes on |
| `split_exact` | every block-aligned request of 1-16 blocks at 30 offsets, read and write | `RemainExact` (no underflow that matters), `PiecesExact`, `WriteExact`, `AlignedReadExact`, `BlocksExact` |
| `sd_full` | 2 writes of any of six pieces with or without a batch, 3 stripes; reads of a stripe, of two chunks of different stripes and inside a chunk, any I/O of which may be refused, between the I/Os of the writes | `ReadCorrect`: a read returns what the last write that had ended left, or what one that overlaps it writes; `CleanParity`: parity of stripes last written as a whole |
| `pc_queue` | 2 threads, 5 insertions, 2 segments of 2 slots, capacity 2, keys 0 and `INT_MAX` included | `NothingLost` in the queue; `VictimExists` |
| `drivers` | the five programs; see *Bounds* | `TotalsExact`, `SamplesAddUp`: the totals and samples taken are those of the requests served; `CursorsInTrace`, `InTable`, `InBuffer`, `OffsetBounded`, `ThreadsApart`: requests stay where they belong; `WrittenOnce`, `ReadsAreWritten`: sequential writes cover the dataset once, also where the demo reads it; `AbortCauses`: what a program that aborts was given; `DriversEnd` under fairness |
| `uq_serve` | up to 2 users and 1 worker, or 1 user and 2 workers | `ImplementsQueue`: the lock-free queue implements `RequestQueue`; `BlocksOnce`: a block has one owner; `OneProducer`; `InFlightBounded`; `Asserts`: the assertions of `concurrentqueue.h`; `EnqueueSucceeds`: with room for the longest queue `try_enqueue` does not fail; `TypeOK`; `AllServed` under fairness, unless an assertion ends the process |

Five runs show where the code does something else than it says:

| Run | Violated | What happens |
|---|---|---|
| `sw_frozen` | `FrozenBatchClosed` | A follower passes both tests of `is_frozen`; the leader freezes the stripe, loads a queue length of 0 and submits its writes; the follower takes slot 0, stores its piece and goes to wait for the unlock. Nothing the leader still does in this turn reads the slot: the piece stays in the owner's queue for its next partial write of *any* stripe. |
| `sw_crossing` | `PieceExclusive` | Every piece of a request is locked under the entry of the first stripe, so that two threads encode the second stripe at once. |
| `split_read` | `ReadExact` | `split_schunk` cuts from the start of the read, not at chunk boundaries: a read from inside a chunk runs over its end on the same device. |
| `sd_parity` | `ParityConsistent` | `do_part_encode` folds in `v_newdatabuf`, which nobody fills, and the cached parity is never copied: after one partial write the parity is not that of the data. |
| `tr_lines` | `RequestsAreLines` | Offset, length and direction come from three cursors; two workers mix their lines. |

These are also why some passing properties are worded as they are: `CleanParity`
speaks of stripes last written as a whole, `ReadCorrect` speaks of reconstructed
chunks only in those, and only if no write of the stripe was under way during the
read (the rows of a reconstruction are read at different moments, so that one
from before and one from after a write may meet), `AlignedReadExact` is about reads from a chunk boundary, `JoinedServed`
about pieces complete *before* the drain, `TotalsExact` counts cursors
and not requests, `InTable` takes from the replays only requests that are not
longer than the slack of the table.

### Observations
These came up while modelling and are not listed as findings, since nothing in
the repository says otherwise, or only for sizes it does not use.

- *Cache*, on the instance of `pc_queue`: with two keys of capacity, `dequeue` may
  return false with an item in the ring (`findIndex` scans slot by slot, an item
  stored behind the scan is passed over, and the head moves on), whereupon `assert(qret == true)` of `cache.h:116`
  would fail; and the number of keys may stay at the capacity when all calls have
  returned, because two evictions may choose the same key.
- *Concurrent queue*: two workers of one queue can defeat each other for ever:
  each counts itself in on a stale overcommit count, finds the tail too small,
  and takes that back. `StorageMod` has one worker per queue; `AllServed`
  excludes runs that do this `MAX_OVERCOMMIT` times. `EnqueueSucceeds` needs the
  blocks of `NeededBlocks`: with one block less TLC finds a user whose
  `try_enqueue` fails and whose assertion ends the process.
- *bench*, *main*: they name five devices, `define.h` as committed has eight, and
  the assertion that compares them fails (`DriversAssumption` takes a geometry
  that fits). An argument that is neither word nor size leaves the size 0. The
  figure printed below the comment on the 90th percentile is the 95th
  (`bench.cc` 205-209). A size that is no multiple of a block makes the requests
  run past the workload buffer (`bench.cc:254`); `InBuffer` is stated for others.
- *trace_md* gives a worker 64 MB and its parser accepts 100 MB, so that `InBuffer`
  is stated for `trace_st`, where they are equal; a longer request of `trace_md`
  runs past the buffer, which the model counts among what may end it.
- *Printed figures*: `trace_st.cc:369` and `trace_md.cc:268` print the rate of
  `trace_off.size()` requests, too many by the lines no worker serves (fewer than
  there are workers, `TotalsExact`), and `trace_md.cc:268` gives 0 for the bytes;
  `bench.cc:272` prints `DATASET_SIZE * LOOP`. The requests the collector counts
  (`all_iocount`) are not printed. `TotalsExact` is about the collector's
  totals and the latencies, not about these lines.
- *Write path*: a follower's piece of several chunks becomes one I/O on one device
  (`storageMod.cc:489`).

### Bounds
- *Threads*: two interleave in every way; a third (`sw_mixed`) is a second
  follower of one leader, or a bystander on another stripe.
- `sw_turns` has one stripe, where all contention is; the safety properties of
  writes to two stripes are those of the theorems below, and `Requests <-
  PartialRequests` in `sw_turns.cfg` gives that instance (1.7 million states, some
  minutes with liveness).
- `sd_full`: two writes, so that the second meets the buffers, the cache and the
  stripes the first left, while reads go on for ever; a read and the
  I/Os of a write interleave in every way. 231,956 states.
- *Stripes, chunks*: two stripes and two data chunks of one unit are the least in
  which a request crosses stripes and a full stripe differs from a part.
  `Split` takes three data chunks of four units and goes around all devices;
  `StripeData` three stripes, so that each device holds each kind of chunk.
- `MaxIO`: a second request meets what the first left (a stale entry
  in a queue, a cache key, an old buffer); `sw_turns` needs a third for the bound of
  `QueueBounded` to be reached.
- `QUEUE_LEN`: large enough not to throw where a run is about something else,
  and 2 in `sw_mixed`, where it may throw.
- `WORD` = 128: above the lengths that occur, so that a wrapped subtraction is
  told apart from a small value.
- `MaxInserts` = 5 takes both segments of the ring around once and exercises
  the full-queue branch; `size`, `k` = 4, 2 against 10,000,000 and 32.
- `drivers`: two threads and the collector, chunks of two units, two data chunks,
  blocks of two, a user space of 30 units (so that its end is inside a stripe),
  two entries more in the table and an MD device of 32 units. Traces have lines
  that are too long for the parser, the table, the device or the buffer of
  `trace_md`, lie past the space, leave a worker without requests, and follow each
  other, so that the reset matters. `bench` gets a word, a word it does not know, a
  size that is no multiple of a block and two that are too large for a thread's part;
  `LOOP` is 1 and 3, so that loops follow a racy reset of `SeqW_Offset`; `load`
  has no writer, no reader or one of each, sequential or random, and writers
  with nothing to write. 1,141,973 states.
- `uq_serve`: blocks of two requests and up to seven requests, so that the block
  index (two or four entries) goes around and emptied blocks come back through
  the free list; pools of one block (too small), two and three; a hash table of two
  places, so that the second user makes it grow while the others look into it;
  `MAX_OVERCOMMIT` = 2 bounds how often a worker takes back a count it made.
  `LongWrites` has one request of each user. 336,526 states.
- Threads are symmetric in `sw_mixed` and `pc_queue` (safety only).

### Fairness
`StripeWrite`: weak fairness of each thread's steps (the operating system runs
every thread) and of `CompleteIO` (the device completes what was submitted). No
strong fairness: a follower spins on a lock that may be free only for moments,
and `EveryWriteReturns` holds since requests are finite and it returns once no
owner comes back. `FivePrograms`: weak fairness of main, each thread and the
collector. `UserQueue`: weak fairness of each thread; a user that waits for a
short queue, and a worker that polls, take steps all the time. The other
modules have no liveness property. `ParityCache` has none on purpose: TLC finds
an endless (unlikely) schedule of `enqueue` and `dequeue` undoing each other.

`CHECK_DEADLOCK FALSE` is set where a model stops: in `pc_queue` the insertions
are bounded, and `tr_lines` plays the replay alone, which ends. The other models
have an explicit terminal step or never stop.

## 4. Theorems

Those of the write path are for arbitrary sets of threads, any number of stripes,
chunks and requests; those of `Split` for every geometry and every block-aligned
request; those of the contents for every geometry with one parity chunk and any
pieces; those of the cache for any ring, keys and capacity; those of the queued
interface for any finite numbers of users, workers and blocks, any sizes of
blocks, block indices and hash tables, any hash function and any length a user
waits for; those of the programs for any number of threads, traces, arguments and
settings; all under the named assumptions of the modules. What a theorem assumes
besides is in the table.

| Module | Theorem | Statement |
|---|---|---|
| `LayoutProofs` | `StripeOfDevOffset` | `devoff2stripe` inverts `stripe2devoff`, and a device address belongs to the stripe of its user address |
| | `ParityApart` | data of a stripe is never on its parity devices |
| | `PlacementInjective` | two user addresses never share a device and offset |
| `StripeWriteProofs` | `TypeCorrect` | `Spec => []TypeOK` |
| | `LockIsExclusive` | `Spec => []LockExclusive` |
| | `OwnerIsTagged` | `Spec => []OwnerTagged` |
| | `PieceIsExclusive` | `SingleStripe` implies `Spec => []PieceExclusive` |
| | `TurnsImplemented` | `SingleStripe` implies `Spec => StripeTurns`: StripeWrite implements StripeOwner |
| | `WritesNeverCollide` | `SingleStripe` implies `Spec => []NoWriteCollision` |
| | `JoinedIsServed` | `Spec => []JoinedServed` |
| | `QueueIsBounded` | `SingleStripe`, `PartialOnly` and finitely many threads imply `Spec => []QueueBounded` |
| `SplitProofs` | `SplitTypes` | `Spec => []TypeOK` |
| | `RemainIsExact` | `Spec => []RemainExact` |
| | `PiecesAreExact` | `Spec => []PiecesExact` |
| | `WritesAreExact` | `Spec => []WriteExact` |
| | `AlignedReadsAreExact` | `Spec => []AlignedReadExact` |
| | `BlocksAreExact` | `Spec => []BlocksExact` |
| `StripeDataProofs` | `DataTypes` | `Spec => []TypeOK` |
| | `ReadsReturnWrites` | `Spec => []ReadCorrect` |
| | `FullStripeParity` | `Spec => []CleanParity` |
| `ParityCacheProofs` | `CacheTypesCorrect` | `Spec => []TypeOK` |
| | `NothingIsLost` | finitely many threads imply `Spec => []NothingLost` |
| | `VictimAlwaysExists` | at most `MAX_stripes` threads imply `Spec => []VictimExists` |
| `DriverProofs` | `CursorsStayInTrace` | `Spec => []CursorsInTrace` |
| | `SamplesAddUpAlways` | `Spec => []SamplesAddUp` |
| | `ThreadsKeepApart` | `Spec => []ThreadsApart` |
| | `RequestsInBuffer` | `Spec => []InBuffer` |
| | `RequestsInTable` | `Spec => []InTable` |
| | `DatasetWrittenOnce` | `Spec => []WrittenOnce` |
| | `OffsetsAreBounded` | `Spec => []OffsetBounded` |
| | `ReadsWereWritten` | `Part % IO_SIZE = 0` implies `Spec => []ReadsAreWritten` |
| | `TotalsAreExact` | `Spec => []TotalsExact` |
| | `AbortsHaveCauses` | `Spec => []AbortCauses` |
| `UserQueueProofs` | `OneProducerEach` | `FairSpec => []OneProducer` |
| `QueueOrderProofs` | `QueueTypes` | `FairSpec => []TypeOK` |
| | `BlocksHaveOneOwner` | `FairSpec => []BlocksOnce` |
| | `AssertionsHold` | `FairSpec => []Asserts` |
| | `QueueIsQueue` | `FairSpec => ImplementsQueue`: UserQueue implements RequestQueue |
| | `QueueStaysShort` | `FairSpec => []InFlightBounded` |

The hypotheses, and where the code stands to them:

- `SingleStripe`: no request of the write path crosses stripes. Programs do issue
  such requests; without it the properties are false (`sw_crossing`).
- `PartialOnly`: no request holds a full stripe. The handler of a full stripe freezes
  nothing it drains, so what followers put in its owner's queue stays for a
  later turn and may pile up.
- Finitely many threads: counting needs it.
- At most `MAX_stripes` threads: `define.h` has 65536 entries (`PCACHE_SIZE`) and 32
  threads.
- `Part % IO_SIZE = 0`: a thread's part of the dataset is a whole number of requests
  (`define.h`: 1 GB over 32 threads, requests of one chunk, 64 KB). Otherwise a
  reader of the demo, whose starts are not those of the writers' slots, may read
  a slot past the last one written.

`FairSpec` is the only specification `UserQueue` has; none of its proofs uses the
fairness. `UserQueue` takes indices as natural numbers, where the code has
64-bit words: the proofs say nothing of a queue that has seen 2^64 requests.

### Write path
`TypeOK` is inductive as it stands once it says that `ck` stays
below the number of pieces and that a thread that is about to use an owner's
queue has read an owner. `LockExclusive` relates the lock of an entry to the
thread between its compare-and-swap and its unlock; together with `TypeOK` it is
inductive. `OwnerTagged` is not: one must also know that the holder of an entry
has (or has not) its id in it, depending on where it is, which is `OwnerInv`.
Most actions touch neither the entries nor who holds them (`QuietActions`), so
that four remain: `LockStripe`, `SetOwner`, `ClearOwner`, `Unlock`. When each
request is within one stripe, the entry a thread locks is the stripe of its piece
(`EntryIsPieceStripe`, from `StripeMonotone` of the layout), whence
`PieceIsExclusive`. The refinement needs in addition that a holder past `Thaw`
finds its entry unfrozen and past `Freeze` frozen; each action is then an action
of `StripeOwner` or a stutter.

`WritesNeverCollide` says where the writes in flight are (`CollisionInv`). Nobody
follows itself: the owner a follower reads holds the lock (`OwnerInv`), and the
follower does not. So nothing in a thread's queue, or copied from it,
carries the thread's own tag (`ForeignInv`), and what is in flight and does carry
it lies in the stripe of its piece (`FlightInv`): a chunk of a piece within one
stripe stays in that stripe on its device (`ChunkInStripe`, from the layout).
Writes are in flight only while their thread waits for them as the holder of the
stripe, so two that overlap would be of two holders of one stripe.

`JoinedIsServed` follows a piece from its slot to the device (`JoinedInv`): it has
landed, or its follower still waits for a holder of the entry that `StillServes`
it, that is, keeps it in a slot below the queue's length, or below the length it
has loaded and not yet copied, or in `bat_dios`, or has it in flight. A slot in
which someone has reserved and not finished a store does not count as kept,
so the mixture a leader may copy from it is never taken for the piece. Another
thread's step leaves a kept slot alone, since it reserves beyond it and stores
where it reserved (`KeptByOthers`). The holder can leave only with an empty
flight, when all it served has landed.

`QueueIsBounded` counts, for each owner `w` and other thread `u`, how often `u` may
still append to `w`'s queue before `w` empties it (`Chances`): twice when it
carries an owner it read in an earlier turn and may join the present one too,
once when only one of these is left, not at all after it appended in this turn. The
queue is never longer than the chances that have been used (`CountInv`); appending
uses one, a new turn gives some back only after the queue was emptied, and a
queue that was found empty is as good as emptied. `PartialOnly` is needed here:
a turn on a full stripe empties nothing.

### Splitting
A loop and its closed form are related by where the loop is. `SplitInv` says, for
each loop, which prefix of the closed form it has emitted and that its
`start_off`, `start_buf` and `remain_len` are those of the next element.
The closed forms are functions of an index (`StripeSeq`, `DioSeq`, `BlockSeq`), so
that one append is one more element (`PrefixGrows`) and nothing is proved by
induction over sequences. The piece loop and the chunk loop inside it walk the
chunks of the request in one order: the device I/Os so far are the first ones of
`DioSeq` of the whole request, whatever piece they came from. An aligned read
emits the same sequence. `RemainIsExact` shows along the way that the unsigned
subtraction never wraps, for every word that holds a request. `WritesAreExact`
and `AlignedReadsAreExact` then follow from the layout: a chunk's I/O covers its
addresses, at their places.

### Contents
The invariant has a part for each moment of a write and of a read:

- `WriteUnderWay`: while there is a batch, its pieces are of one stripe, the
  parity I/O fits it, the pending I/Os are among those of the batch, and a unit
  which the batch covers and no pending I/O does holds what one of its I/Os has
  put there (`Settled`).
- `Stored`: each address holds, on its device, a value of `written` or of the write
  under way.
- `ReadUnderWay`: the chunks asked, refused and filled lie in the read, and `may`
  contains what `Stored` allows at each of its addresses, so that whatever a device
  answers now is allowed (`AnswerStep`).
- `PartsHeld`: if the stripe of the chunk being rebuilt is still calm, what was
  fetched is what those devices still hold.
- `CleanParity`, `calm` within `clean`, and `ReadCorrect`.

A batch is followed from the addresses of its pieces to rows of devices: its I/Os
start at multiples of a sector, so that the devices take them, and lie in the rows
of the one stripe of the write, so that all other rows stay; the parity I/O goes to
another device than the data, or, when the least offset was `INT_MAX`, is refused.
Hence when all have landed an address that was written holds a value of one of its
writers (`AddressSettled`). `CleanParity` needs the value of an
exclusive or of any number of sets, which is defined by parity of cardinality
and not as a fold: in a row of a full stripe each unit is held by one data device
and by the parity device, so that every one has an even number of
holders (`TwiceIsZero`, `FullRowZero`). A write takes its stripe out of those
spoken of until it ends, and a partial write for longer. A reconstruction leaves
out one device of a row whose exclusive or is empty (`Reconstructs`), which with
`PartsHeld` and `Stored` is `ReadCorrect` for the chunks of calm stripes.

### Parity cache
`TypeInv` adds to `TypeOK` what the steps inside `enqueue` rely on: the key a
thread carries is that of its stripe, and the slot it works on is one of the
ring. `BalanceInv` is a balance for each key at every moment: slots with the key
plus threads that have taken one out and not counted it, equal what the history
says is queued plus threads that have stored one and not counted it. It holds also
where `committed` takes its item out again and takes another thread's item of
the same key instead, which the compare-and-swap cannot tell apart. `NothingLost` is
the balance when nobody is under way. `RoomInv`: a thread evicts only after it
found the cache full, and each erases at most one key; so while there are
evictors, keys and threads together are at least `MAX_stripes` and the evictors,
and with no more threads than `MAX_stripes` a key is left for each evictor.
`begin()` of the map, taken when the key of the queue has gone, therefore is one.

### Programs
`CursorsStayInTrace` counts: a cursor is the number of pairs of a worker and one of
its requests whose part has been taken (`Taken`), which follows from the
workers' loop variables and places. A `fetch_add` adds one such pair (`TakeOne`),
each worker has `Count` requests, and the shares of all fit into the trace
(`SharesFit`). That the trace consists of lines of the accepted length follows from
the parser, line by line (`KeptLines`), and `FilesAssumption` says only what a file is.

`SamplesAddUpAlways` adds to the cursors' invariant that lengths are natural numbers
(a worker's comes from the trace, whence the cursors are needed), so that
counters only grow while the collector runs (`Growing`): what the collector has
loaded stays at most the counter (`Loaded`), and what it has added up is the
last load less the first (`Summed`). A step of a worker only makes counters
grow, so the collector's and main's steps remain (`CollectorSteps`,
`MainCollects`).

`ThreadsKeepApart` is arithmetic on top of a small invariant (a thread's request is
at a place of its own, `OwnPlace` and `PartPlace`): starts are rounded down to a
multiple of the request size and draws up, and `DrawInShare` and `RowInShare` show
that a request still ends within the share that begins at the rounded start,
whose multiples do not reach the next one. The assumptions on the settings (twice
a request's size in each part) are what this needs.

`RequestsInBuffer` takes the lengths from the kept lines of `trace_st` and, for
sizes of whole blocks, from the row of a thread's requests in the workload
buffer, which every loop begins again.

`RequestsInTable`: the table covers the user space, rounded down to stripes, and
the slack (`TableHas`). A replayed request starts within the space (`Fit`) and is
here no longer than the slack; one that is longer may pass the table and end the
process, which `AbortCauses` has. The requests of `load` lie in the threads'
parts (`LoadIsInTable`). Those of bench and main carry the fact that they end within
the table (`KthRequest`, `InSpace`): random ones and those of main's readers start
below the end of the dataset (`Room`, `OffsetsInSpace`), and of the sequential ones
`Bounded` says that they end within twice the requests counted, whatever
the size and the loops. That this fits is in `BenchAssumption` (the dataset is 1 GB
and the table covers 90).

`DatasetWrittenOnce`, `OffsetsAreBounded`, `ReadsWereWritten` and the part of
`RequestsInTable` just named are about the
sequential writers of `worker.h`, who share `SeqW_Offset` and reset it without
synchronisation at the start of each loop. What makes the race harmless is
counted in requests still to be taken, those of the loops the threads are in
(`Rest`) and those of first loops (`First`):

- `Bounded` and, for `load`, `WritersAhead`: the counter plus the requests left in
  current loops is at most the dataset plus one loop of every thread. A thread
  that starts a loop has looked and not found the counter past the dataset, or
  resets it, and a reset only lowers it.
- `Covering`: until the whole dataset is written, the counter plus the requests
  left in first loops reach its end, and the slots below the counter have been
  taken. A thread about to reset has seen the counter past the dataset; the reset
  comes too late to leave a hole.
- `Once`: with one loop there is no reset and the sum is the dataset exactly, so that
  each slot is taken once.

`DatasetInv` carries the result of the write test through the tests after it, which
gives `DatasetWrittenOnce` and, with the slots of the demo's readers,
`ReadsWereWritten`.

`TotalsAreExact` and `AbortsHaveCauses` rest on `TotalsInv`, which says of each
counter what sum it is while threads still run:

- `ReplayCounts`: the latencies of a worker are its loop variable; the bytes counted
  and the lengths that workers have taken and not yet served are together the lengths of the
  first `len_cnt` lines, and likewise the reads and `iodir_cnt`. When all workers
  have ended nothing is in between, and by `CursorsInTrace` the cursors are at the
  last line that is served.
- `LoadCounters`: each counter is the sum, over the writers or the readers that do not
  skip, of the turns its loops have made (`Steps`); `BenchSums` says so of the test
  that runs, and that the arrays are empty when the next one begins.
- `FlagInv`: the collector takes the totals only after the flag, which `main` sets
  when it has joined the threads.

A worker that fails is at a request, and the line its offset or its length is of is
the cause that `AbortCauses` names (`FailureHasCause`): a replayed request that
passes the table is longer than the slack.

`SumFunction` is a fold over a set in an order that `CHOOSE` fixes. `SumsExist` and
`SumsRule` show once that the sums of all subsets exist and that any element may be
taken out first; `SumChanges`, `SumOfPart`, `SumOfEqual` and `SumAtLeast` follow,
and the steps cite only these. The induction on the size of a set is done with a
least counterexample (`LeastOfNat`).

`AbortCauses` said at first that `load` fails only if it has readers. The step of
`PrintNothing` could not be proved, and TLC confirmed it on a build without
readers whose writers are to write less than one request each: its list of
latencies is empty too (`load.cc:441`). The property now names that case, and
`MCDrivers` has such a build.

### Queued interface
`OneProducerEach`: `Typed` says where each thread is and what it has seen of the
hash tables; `Probed` says that in each table, from the place where a key's probes
start to the place where it is, no place is free, and none is free behind a thread that
probes. Places are never freed and a new table is put in front of
the old ones, so that a thread that misses its key has met a free place or all
of the table, and its key is in none (`KeysOwn`, `OneEach`).

The rest is one invariant, `Sound`, whose parts need each other:

- `Counts`: in each sub-queue the optimistic count is the head, the
  overcommitted and the workers between reserving and advancing. A worker has
  compared the count it got with a tail, or will again, and takes the request
  only if the head, the workers that advance and those with counts not above its own are
  within the tail: so the head never passes the tail (`Claimed`).
- `Lists(o)`: there is an assignment `o` of each block to the pool, a place of an
  index, a hand, the free list, or nobody ("orphan": let go while someone still
  refers to it, to be put on the list by the last holder). A block's reference
  counter is the number of threads that hold it, and one for the list; its flag is
  set exactly while it is to be added; no two blocks of the list have the
  same successor. `o` is a witness and no variable of the model: each step gives
  the new one from the old. That the counter stays above zero while
  someone holds a block is what keeps the compare-and-swap of
  `try_get` from taking a block that has been away and come back with another successor.
- `Rows`: an entry of the index has the key of its block or none; the block of a
  *pending* index (one not below the head, or in the hands of a worker that has not
  yet emptied its place) is in the index; its counter and its pending places
  are together `BLK_SIZE`; and a pending place below the tail has the request of that
  index. So a block is emptied, taken out of the index and given back when its
  last pending place has gone, and not before.
- `Hands`: a worker's index is below the head and no other worker's, nor one that has
  been served, and the item it has is the request of that index.

`SoundHolds` proves it for all five parts in one step of induction; `BlocksOnce`,
`Asserts` and `TypeOK` follow. For `QueueIsQueue`, `QueueOf(u)` is the row of `u`'s
requests with numbers from head to tail (`QueueFacts`), whatever the blocks and
indices are: publishing is `Put`, advancing the head is `Take`, serving is
`Serve`, and every other step is a stutter, also that of a worker that fails an
assertion (`ThreadSteps`).

`QueueStaysShort` needs a history that the state does not hold. A user looks at
tails and heads one by one, and others put requests meanwhile. The invariant
(`BoundedBy`) says that there are: `B`, the tails at some moment when the queue was short,
since when each user has put at most one request; the set `N` of users that began
to look later, each with the tails `M[u]` as it began; and an order of these by when they
began. What a user has added up is at least what is left of
`M[u]` in the sub-queues it has been to (`Scan`), since heads only advance. When a
user of `N` finds the queue short and publishes, its `M[u]` becomes the
new `B` and the users that began before it leave `N`. So what is in flight is at most `IDLE_QUELEN`
and one request for each user.

### Only model-checked
- *Liveness* (`EveryWriteReturns`, `DriversEnd`, `AllServed`), which the prover
  does not do.
- `EnqueueSucceeds`: with one worker and the blocks of `NeededBlocks` a user never
  finds pool, list and index all without room. `BlocksHaveOneOwner` says where
  blocks are; what is missing is to count those that users with short rows can
  hold at once.

## 5. Not modelled

- The submission ring's depth (32): I/Os in flight are an unbounded set.
- The `DEGRADE` branch of the decoder, which does not compile, and the calls
  without a caller (`split_stripe`, `split_chunk`, `update_SST`, `delete_SST`,
  `worker_run2`, `printQueue`, `do_work`).
- `bitmap_run`: the thread that flushes the bitmap is never started
  (`metadata.h:324`). The workers of the queued interface are not started either
  (`storageMod.h:75`), but the interface is modelled as it would run.
- Of the concurrent queue: explicit producers (tokens), bulk operations, moves and
  threads that exit, none of which `queues.h` uses; the blocking queue and its
  semaphores, which nothing that runs includes; the wrap of 64-bit indices.
- The iterators of the bit vector; `BLK_Bitmap` needs only its bits.
- The queue of the cache: that a scan passes an item over, and that enqueue and
  dequeue may undo each other, is seen (see *Observations*) but no property says
  otherwise; likewise the drift of the number of keys.
- `Init_Raid` (its call is commented out); devices are taken to be zeroed.
- Timers, percentiles, printing; the erasure-code tables of `ecEncoder.cc`, which
  the paths above do not use; scripts for plots and the analysis of MD logs.

## 6. Plan

Order of work: write path with its abstract specification and proofs, layout,
splitting, contents, queue and cache, the five programs, the queued interface
over the concurrent queue, and the proofs listed above (all done). What a next
step would take, in this order:

1. *Several writers and readers* in StripeData: two stripes written at once, whose
   batches and reads interleave, by composing it with StripeWrite.
2. *Followers' pieces of several chunks* in StripeData: such a piece becomes one
   I/O on one device, longer than a chunk.
3. *Ring depth* in `Submit`, with the batch path's unchecked `io_uring_get_sqe`.
4. *Cache*: what holds of the number of keys after racing evictions; an abstract
   bag as the specification of KQueue and a refinement.
5. *Proofs*: `EnqueueSucceeds`, from `Sound` and `BoundedBy` by counting blocks.

## 7. Running

`tlc -config X.cfg M`, with the module of each run in `PROJECT.json`; `tlapm
M.tla` for each of `LayoutProofs`, `StripeWriteProofs`, `SplitProofs`,
`StripeDataProofs`, `ParityCacheProofs`, `DriverProofs`, `UserQueueProofs` and
`QueueOrderProofs` (from nothing, some minutes each; the last two about seven and twelve).
`drivers`, `sw_mixed` and `pc_queue` take one to two minutes, the others less.
Operators named after an action with a suffix (`AwaitIO_NoWait`, `EnqCas_Store`)
are the action with a plausible bug; no specification uses them, they show that
the properties notice.
