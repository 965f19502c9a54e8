------------------------------ MODULE Workload ------------------------------
(***************************************************************************)
(* The mixed load of load.cc: WRITE_THREAD writers and READ_THREAD readers *)
(* run self_thread_worker at once, under the collector.                    *)
(***************************************************************************)
EXTENDS ThreadWorker, Collector

CONSTANTS Builds,         \* settings of workerl.h: [WRITE_THREAD, WRITE_MOD,
                          \* READ_MOD, WRITE_ALL, READ_ALL, LOOP]
          WRITE_IOSIZE, READ_IOSIZE, USER_IO_SPACE

ASSUME WorkloadAssumption ==
  /\ {WRITE_IOSIZE, READ_IOSIZE} \subseteq Nat \ {0}
  /\ WRITE_IOSIZE % BLK_SIZE = 0 /\ READ_IOSIZE % BLK_SIZE = 0
  /\ USER_IO_SPACE \in Nat /\ USER_IO_SPACE <= USER_SPACE_LEN
  /\ \A b \in Builds :
       /\ b.WRITE_THREAD \in 0 .. NUM_THREADS
       /\ {b.WRITE_ALL, b.READ_ALL} \subseteq 0 .. USER_IO_SPACE
       /\ ~b.WRITE_MOD => 2 * b.WRITE_ALL <= USER_SPACE_LEN
       /\ b.WRITE_MOD => 2 * WRITE_IOSIZE * b.WRITE_THREAD <= b.WRITE_ALL
       /\ b.READ_MOD =>
            2 * READ_IOSIZE * (NUM_THREADS - b.WRITE_THREAD) <= b.READ_ALL

VARIABLES
  build,           \* how load was built
  is_degr_read     \* per thread: a member of its Worker_Info nobody sets

load_own == <<build, is_degr_read>>
load_vars == <<shared_vars, LOOP, worker_vars, collector_vars, load_own>>

WRITE_THREAD == build.WRITE_THREAD
READ_THREAD == NUM_THREADS - WRITE_THREAD
WRITE_MOD == build.WRITE_MOD
READ_MOD == build.READ_MOD
WRITE_ALL == build.WRITE_ALL
READ_ALL == build.READ_ALL
Writers == 0 .. WRITE_THREAD - 1
Readers == Threads \ Writers

LoadInit ==
  /\ build \in Builds /\ (program = "load" => LOOP = build.LOOP)
  /\ is_degr_read = [t \in Threads |-> FALSE]

-----------------------------------------------------------------------------
(* main                                                                    *)

WriteInfo(n) ==
  [io_dir |-> "W", is_rand |-> WRITE_MOD, io_size |-> WRITE_IOSIZE,
   offset |-> o_align(n * (USER_IO_SPACE \div WRITE_THREAD), WRITE_IOSIZE),
   count  |-> (WRITE_ALL \div WRITE_IOSIZE) \div WRITE_THREAD]

(* A mistake: the readers start where a share of READ_ALL would.           *)
ReadInfo_OneBase(n) ==
  [io_dir |-> "R", is_rand |-> READ_MOD, io_size |-> READ_IOSIZE,
   offset |-> o_align(n * READ_IOSIZE, READ_IOSIZE),
   count  |-> (READ_ALL \div READ_IOSIZE) \div READ_THREAD]

(* Of the n-th reader, whose thread_id is WRITE_THREAD + n.                *)
ReadInfo(n) ==
  [io_dir |-> "R", is_rand |-> READ_MOD, io_size |-> READ_IOSIZE,
   offset |-> o_align(n * (USER_IO_SPACE \div READ_THREAD), READ_IOSIZE),
   count  |-> (READ_ALL \div READ_IOSIZE) \div READ_THREAD]

(* malloc does not clear is_degr_read.                                     *)
StartLoad ==
  /\ program = "load" /\ Main("start", "collect")
  /\ Create([t \in Threads |-> IF t \in Writers THEN WriteInfo(t)
                               ELSE ReadInfo(t - WRITE_THREAD)])
  /\ \E d \in [Threads -> BOOLEAN] :
       is_degr_read' = [t \in Threads |-> t \in Readers /\ d[t]]
  /\ UNCHANGED <<lat_vars, LOOP, collector_vars, build>>

(* The percentiles of an empty vector: at throws.                          *)
NoCDF == totals.all = 0 \/ (READ_THREAD > 0 /\ totals.read = 0)

PrintNothing ==
  /\ program = "load" /\ NoCDF /\ Main("print", "aborted")
  /\ UNCHANGED <<wpc, i, lat_vars, LOOP, worker_vars, collector_vars, load_own>>

(* The counters are reset, and the program ends.                           *)
PrintLoad ==
  /\ program = "load" /\ ~NoCDF /\ Main("print", "done")
  /\ ResetCounters /\ ClearLats /\ Collector_endflag' = FALSE
  /\ UNCHANGED <<wpc, i, LOOP, worker_vars, cpc, now, last, first, item, load_own>>

-----------------------------------------------------------------------------
(* self_thread_worker                                                      *)

Up(off, align) ==
  IF off % align = 0 THEN off ELSE o_align(off, align) + align

(* A draw beyond the space is drawn again from what is left of it.         *)
Rand_offset_align_load(base, max_offset, align) ==
  {Up(off, align) : off \in
     UNION {LET off == r * align + base IN
            IF off <= USER_SPACE_LEN THEN {off}
            ELSE {n * align + base :
                    n \in 0 .. ((USER_SPACE_LEN - base) \div align) - 1} :
            r \in 0 .. (max_offset \div align) - 2}}

(* Nothing is rounded to blocks: the sizes are whole blocks.               *)
LoadRequest(t, offsets) ==
  /\ i[t] < info[t].count /\ Worker(t, "io", "count")
  /\ \E o \in offsets :
       request' = [request EXCEPT ![t] = [off |-> o, len |-> iosize[t], buf |-> 0]]
  /\ IO_LatArray' = Recorded(IO_LatArray, t)
  /\ UNCHANGED <<i, info, loop, iosize, IOCOUNT>>

(* A request of a writer: the length is counted before lat_toc.            *)
Write(t) ==
  /\ info[t].io_dir = "W"
  /\ LoadRequest(t, IF WRITE_MOD
                    THEN Rand_offset_align_load(info[t].offset,
                                     WRITE_ALL \div WRITE_THREAD, iosize[t])
                    ELSE {SeqW_Offset * iosize[t]})
  /\ SeqW_Offset' = SeqW_Offset + (IF WRITE_MOD THEN 0 ELSE 1)
  /\ DATA_WRITTEN' = DATA_WRITTEN + iosize[t]
  /\ UNCHANGED <<ReadIO_LatArray, DATA_READ>>

Read(t) ==
  /\ info[t].io_dir = "R" /\ ~is_degr_read[t]
  /\ LoadRequest(t, IF READ_MOD
                    THEN Rand_offset_align_load(info[t].offset,
                                     READ_ALL \div READ_THREAD, iosize[t])
                    ELSE {info[t].offset + i[t] * iosize[t]})
  /\ ReadIO_LatArray' = Recorded(ReadIO_LatArray, t)
  /\ DATA_READ' = DATA_READ + iosize[t]
  /\ UNCHANGED <<SeqW_Offset, DATA_WRITTEN>>

(* Nothing is read, but the request is counted.                            *)
SkipRead(t) ==
  /\ info[t].io_dir = "R" /\ is_degr_read[t]
  /\ i[t] < info[t].count /\ Worker(t, "io", "count")
  /\ UNCHANGED <<i, worker_vars, lat_vars, counters>>

(* A mistake: a reader's requests are not counted.                         *)
CountRequest_Writers(t) ==
  /\ Worker(t, "count", "io")
  /\ IOCOUNT' = IOCOUNT + (IF info[t].io_dir = "W" THEN 1 ELSE 0)
  /\ i' = [i EXCEPT ![t] = @ + 1]
  /\ UNCHANGED <<worker_vars, lat_vars, DATA_WRITTEN, DATA_READ>>

CountRequest(t) ==
  /\ Worker(t, "count", "io")
  /\ IOCOUNT' = IOCOUNT + 1
  /\ i' = [i EXCEPT ![t] = @ + 1]
  /\ UNCHANGED <<worker_vars, lat_vars, DATA_WRITTEN, DATA_READ>>

self_thread_worker(t) ==
  /\ program = "load"
  /\ \/ Write(t) \/ Read(t) \/ SkipRead(t) \/ CountRequest(t)
     \/ /\ \/ StartLoop(t, WRITE_ALL) \/ ResetOffset(t)
           \/ EndLoop(t) \/ EndThread(t)
        /\ UNCHANGED <<lat_vars, counters>>
  /\ UNCHANGED <<program_vars, LOOP, load_own, Collector_endflag, cpc, now, last,
                 first, item>>

-----------------------------------------------------------------------------
LoadMain ==
  \/ StartLoad \/ PrintNothing \/ PrintLoad
  \/ /\ StartCollector \/ JoinWorkers \/ JoinCollector
     /\ program = "load"
     /\ UNCHANGED <<LOOP, worker_vars, load_own>>

LoadCollector == CollectorStep /\ UNCHANGED <<LOOP, worker_vars, load_own>>

LoadNext == \/ LoadMain \/ LoadCollector
            \/ \E t \in Threads : self_thread_worker(t)

-----------------------------------------------------------------------------
(* Properties.                                                             *)

(* The totals the collector of load takes: every request is counted; data  *)
(* and latencies are those of the writes and of the reads not skipped.     *)
LoadTotals ==
  mpc = "print" /\ program = "load" =>
    LET All(T) == MapThenSumSet(LAMBDA t : LOOP * info[t].count, T)
        done == {t \in Readers : ~is_degr_read[t]}
    IN  /\ totals.n = All(Threads)
        /\ totals.w = WRITE_IOSIZE * All(Writers)
        /\ totals.r = READ_IOSIZE * All(done)
        /\ totals.read = All(done) /\ totals.all = All(Writers \cup done)

(* Threads of one direction keep to places of their own, except sequential *)
(* writers, who share a counter: their parts of the space are rounded down *)
(* to the size of a request, and Rand_offset_align rounds up.              *)
LoadApart ==
  program = "load" =>
    \A t, u \in Threads :
      /\ t < u /\ info[t].io_dir = info[u].io_dir
      /\ info[t].io_dir = "R" \/ WRITE_MOD
      /\ request[t].len > 0 /\ request[u].len > 0
      => request[t].off + request[t].len <= request[u].off

(* search_SST finds an entry for every stripe of a request of load, whose  *)
(* user space is smaller than the table's, and sequential writers, who may *)
(* pass the end of WRITE_ALL before one resets the counter, stay within    *)
(* twice what they are to write.                                           *)
LoadInTable ==
  program = "load" =>
    \A t \in Threads :
      request[t].len > 0 =>
        /\ user2stripe(request[t].off + request[t].len - 1) <= LastEntry
        /\ info[t].io_dir = "W" /\ ~WRITE_MOD =>
             request[t].off + request[t].len <= 2 * WRITE_ALL

=============================================================================
