---------------------------- MODULE ThreadWorker ----------------------------
(***************************************************************************)
(* The worker threads of worker.h (bench.cc and main.cc) and the state     *)
(* they share with those of load.cc: a Worker_Info for each thread and the *)
(* atomic counter SeqW_Offset, from which sequential writers take their    *)
(* offsets, and which each of them resets when it finds it past the        *)
(* dataset at the start of a loop.                                         *)
(***************************************************************************)
EXTENDS Drivers

CONSTANT LOOPs  \* values of the build's LOOP

ASSUME LoopAssumption == LOOPs \subseteq Nat \ {0}

VARIABLES
  LOOP,
  SeqW_Offset,
  info,          \* per thread: its Worker_Info
  loop, iosize,  \* per thread: local variables
  request        \* per thread: the last request, [off, len, buf]

worker_vars == <<SeqW_Offset, info, loop, iosize, request>>

NoRequest == [off |-> 0, len |-> 0, buf |-> 0]
NoInfo == [io_dir |-> "R", is_rand |-> FALSE, io_size |-> 0, offset |-> 0,
           count |-> 0]

WorkerInit ==
  /\ LOOP \in LOOPs
  /\ SeqW_Offset = 0
  /\ info = [t \in Threads |-> NoInfo]
  /\ loop = [t \in Threads |-> 0] /\ iosize = [t \in Threads |-> 0]
  /\ request = [t \in Threads |-> NoRequest]

(* A thread rounds its size up to blocks before its first request.         *)
Rounded(n) == IF n % BLK_SIZE = 0 THEN n ELSE n + BLK_SIZE - (n % BLK_SIZE)

(* The last of main's loop over the threads: all of them run.              *)
Create(infos) ==
  /\ info' = infos
  /\ wpc' = [t \in Threads |-> "loop"] /\ i' = [t \in Threads |-> 0]
  /\ loop' = [t \in Threads |-> 0]
  /\ iosize' = [t \in Threads |-> infos[t].io_size]
  /\ request' = [t \in Threads |-> NoRequest]
  /\ UNCHANGED SeqW_Offset

(* A loop of a writer starts with a look at the counter.                   *)
StartLoop(t, all) ==
  LET past == info[t].io_dir = "W" /\ SeqW_Offset * iosize[t] > all
  IN  /\ loop[t] < LOOP
      /\ Worker(t, "loop", IF past THEN "reset" ELSE "io")
      /\ i' = [i EXCEPT ![t] = 0]
      /\ UNCHANGED worker_vars

(* A mistake: the counter is never reset.                                  *)
ResetOffset_Forgotten(t) ==
  Worker(t, "reset", "io") /\ UNCHANGED <<i, worker_vars>>

ResetOffset(t) ==
  /\ Worker(t, "reset", "io") /\ SeqW_Offset' = 0
  /\ UNCHANGED <<i, info, loop, iosize, request>>

EndLoop(t) ==
  /\ i[t] = info[t].count /\ Worker(t, "io", "loop")
  /\ loop' = [loop EXCEPT ![t] = @ + 1]
  /\ UNCHANGED <<i, SeqW_Offset, info, iosize, request>>

EndThread(t) ==
  /\ loop[t] = LOOP /\ Worker(t, "loop", "ended")
  /\ UNCHANGED <<i, worker_vars>>

-----------------------------------------------------------------------------
(* thread_worker of worker.h.                                              *)

CONSTANT DATASET_SIZE

Part == DATASET_SIZE \div NUM_THREADS

(* rand() % max blocks past the base.                                      *)
Rand_offset_align(base, max_offset, align) ==
  {r * align + base : r \in 0 .. (max_offset \div align) - 2}

(* A mistake: readers draw from the whole dataset, as writers.             *)
Offsets_WholeSet(t, size) ==
  LET w == info[t] IN
  CASE w.is_rand   -> Rand_offset_align(w.offset, DATASET_SIZE, size)
    [] w.io_dir = "W" /\ ~w.is_rand -> {SeqW_Offset * size}
    [] OTHER       -> {w.offset + i[t] * size}

(* The offsets of the i-th request of a thread.                            *)
Offsets(t, size) ==
  LET w == info[t]
      span == IF w.io_dir = "W" THEN DATASET_SIZE ELSE Part
  IN  CASE w.is_rand                    -> Rand_offset_align(w.offset, span, size)
        [] w.io_dir = "W" /\ ~w.is_rand -> {SeqW_Offset * size}
        [] OTHER                        -> {w.offset + i[t] * size}

(* A mistake: the counter is read and not advanced.                        *)
NextSlot_Load(t) == SeqW_Offset

(* fetch_add of a sequential write.                                        *)
NextSlot(t) ==
  IF info[t].io_dir = "W" /\ ~info[t].is_rand THEN SeqW_Offset + 1 ELSE SeqW_Offset

(* A mistake: last_buf_start runs on from loop to loop.                    *)
BufStart_Running(t, size) == (loop[t] * info[t].count + i[t]) * size

(* last_buf_start, which starts at 0 in each loop.                         *)
BufStart(t, size) == i[t] * size

(* The next request of a thread: raid_write_direct or raid_read, and the   *)
(* latency.  is_degr_read is false in all tests that read.                 *)
Request(t) ==
  LET size == Rounded(iosize[t]) IN
  /\ i[t] < info[t].count /\ Worker(t, "io", "io")
  /\ \E o \in Offsets(t, size) :
       request' = [request EXCEPT ![t] =
                     [off |-> o, len |-> size, buf |-> BufStart(t, size)]]
  /\ iosize' = [iosize EXCEPT ![t] = size]
  /\ SeqW_Offset' = NextSlot(t)
  /\ i' = [i EXCEPT ![t] = @ + 1]
  /\ UNCHANGED <<info, loop>>

=============================================================================
