-------------------------------- MODULE Bench --------------------------------
(***************************************************************************)
(* The micro-benchmark bench.cc and the demo main.cc: a row of tests, each *)
(* of which fills a Worker_Info per thread, runs a thread_worker per       *)
(* thread and joins them; bench reports the latencies of each test.        *)
(***************************************************************************)
EXTENDS ThreadWorker

CONSTANTS Arguments,  \* of bench: a record [k |-> size], or its word
          SlackMB     \* the MB main's write buffers are larger than needed

FULLSIZE == SSTRIPE_DATASIZE
PARTSIZE == SCHUNK_SIZE
IO_SIZE == PARTSIZE

(* bench's only argument: a size in K, a word, or else G_IOSIZE is left 0. *)
ParseArgument(arg) ==
  CASE arg.word = "FULLSIZE" -> FULLSIZE
    [] arg.word = "PARTSIZE" -> PARTSIZE
    [] arg.word = "K"        -> arg.size
    [] OTHER                 -> 0

(* The sizes of a request the programs can be given.                       *)
IOSizes == {IO_SIZE} \cup {ParseArgument(arg) : arg \in Arguments}

(* What the entries of the stripe table cover: 90 GB, and the dataset is   *)
(* of 1 GB.                                                                *)
TableSpace == (LastEntry + 1) * SSTRIPE_DATASIZE

ASSUME BenchAssumption ==
  /\ DATASET_SIZE \in Nat /\ DATASET_SIZE % NUM_THREADS = 0
  /\ Part % BLK_SIZE = 0
  /\ \A arg \in Arguments : ParseArgument(arg) \in Nat
  /\ 2 * Rounded(IO_SIZE) <= Part
  /\ SlackMB \in Nat
  /\ \A size \in IOSizes :
       size > 0 => 2 * (DATASET_SIZE \div size) * Rounded(size) <= TableSpace
  /\ 2 * DATASET_SIZE <= TableSpace

VARIABLES
  G_IOSIZE,
  test,    \* the test main runs, counted from 1
  writes   \* history: how often SeqWrite wrote at a slot

bench_own == <<G_IOSIZE, test, writes>>
bench_vars == <<shared_vars, LOOP, worker_vars, bench_own>>

BenchPrograms == {"bench", "main"}

count == (DATASET_SIZE \div G_IOSIZE) \div NUM_THREADS
Slots == IF G_IOSIZE = 0 THEN {} ELSE 0 .. 2 * NUM_THREADS * count - 1

BenchInit ==
  /\ G_IOSIZE \in IF program = "bench" THEN {ParseArgument(a) : a \in Arguments}
                  ELSE {IO_SIZE}
  /\ test = 1 /\ writes = [s \in Slots |-> 0]

-----------------------------------------------------------------------------
(* The Worker_Info of the tests.                                           *)

Info(dir, rand, off) == [io_dir |-> dir, is_rand |-> rand, io_size |-> G_IOSIZE,
                         offset |-> off, count |-> count]

PartStart(t) == o_align(t * Part, G_IOSIZE)

test_SeqRead == [t \in Threads |-> Info("R", FALSE, 0)]
test_RandRead == [t \in Threads |-> Info("R", TRUE, PartStart(t))]
test_SeqWrite == [t \in Threads |-> Info("W", FALSE, PartStart(t))]
test_RandWrite == [t \in Threads |-> Info("W", TRUE, PartStart(t))]

(* The two blocks of main.cc.                                              *)
WriteLoad == [t \in Threads |-> Info("W", FALSE, PartStart(t))]

(* A mistake: the parts of the threads overlap and leave a rest unread.    *)
ReadLoad_Unscaled == [t \in Threads |-> Info("R", FALSE, o_align(t, G_IOSIZE))]

ReadLoad == [t \in Threads |-> Info("R", FALSE, PartStart(t))]

(* What main of bench.cc and of main.cc run.                               *)
Tests == CASE program = "bench" ->
                <<test_SeqRead, test_RandRead, test_SeqWrite, test_RandWrite>>
           [] program = "main" -> <<WriteLoad, ReadLoad>>

Sequential(dir) == ~info[0].is_rand /\ info[0].io_dir = dir

-----------------------------------------------------------------------------
BenchIdle == UNCHANGED <<i, lat_vars, LOOP, worker_vars, bench_own>>

(* A size of 0 divides by zero.                                            *)
NoSize ==
  /\ program = "bench" /\ G_IOSIZE = 0 /\ Main("start", "aborted")
  /\ UNCHANGED wpc /\ BenchIdle

StartTest ==
  /\ program \in BenchPrograms /\ G_IOSIZE > 0 /\ Main("start", "join")
  /\ Create(Tests[test])
  /\ UNCHANGED <<lat_vars, LOOP, bench_own>>

JoinTest ==
  /\ program \in BenchPrograms /\ Main("join", "show")
  /\ Joined(Threads) /\ wpc' = [t \in Threads |-> "none"]
  /\ BenchIdle

NextTest(m) ==
  /\ test' = test + 1
  /\ Main("show", IF test < Len(Tests) THEN "start" ELSE m)
  /\ UNCHANGED <<wpc, i, LOOP, worker_vars, G_IOSIZE, writes>>

(* A mistake: the latencies are not cleared.                               *)
Show_bench_Kept ==
  /\ program = "bench" /\ NextTest("done") /\ UNCHANGED lat_vars

(* show_IOLat, and clear_IOLat, which leaves ReadIO_LatArray alone.        *)
Show_bench ==
  /\ program = "bench" /\ merge(IO_LatArray) > 0 /\ NextTest("done")
  /\ IO_LatArray' = NoLatency /\ UNCHANGED ReadIO_LatArray

(* The average of no latencies divides by zero.                            *)
Show_nothing ==
  /\ program = "bench" /\ merge(IO_LatArray) = 0 /\ Main("show", "aborted")
  /\ UNCHANGED wpc /\ BenchIdle

(* main.cc prints the time alone.                                          *)
Show_main == program = "main" /\ NextTest("done") /\ UNCHANGED lat_vars

BenchRequest(t) ==
  /\ Request(t)
  /\ IO_LatArray' = Recorded(IO_LatArray, t) /\ UNCHANGED ReadIO_LatArray
  /\ writes' = [s \in Slots |->
                  writes[s] + IF Sequential("W") /\ s = SeqW_Offset THEN 1 ELSE 0]

(* rand() % 0 ends the process.                                            *)
RandomByZero(t) ==
  /\ info[t].is_rand /\ wpc[t] = "io" /\ i[t] < info[t].count
  /\ Offsets(t, Rounded(iosize[t])) = {} /\ mpc' = "aborted"
  /\ UNCHANGED <<program, wpc>> /\ BenchIdle

(* A mistake: the counter is compared with what all loops write.           *)
thread_worker_AllLoops(t) ==
  /\ \/ BenchRequest(t)
     \/ /\ \/ StartLoop(t, LOOP * DATASET_SIZE) \/ ResetOffset(t)
           \/ EndLoop(t) \/ EndThread(t)
        /\ UNCHANGED <<lat_vars, writes>>
  /\ UNCHANGED <<program_vars, LOOP, G_IOSIZE, test>>

thread_worker(t) ==
  /\ \/ BenchRequest(t)
     \/ /\ \/ StartLoop(t, DATASET_SIZE) \/ ResetOffset(t)
           \/ EndLoop(t) \/ EndThread(t)
        /\ UNCHANGED <<lat_vars, writes>>
  /\ UNCHANGED <<program_vars, LOOP, G_IOSIZE, test>>

BenchMain == NoSize \/ StartTest \/ JoinTest \/ Show_bench \/ Show_nothing
             \/ Show_main

BenchThread(t) == /\ program \in BenchPrograms /\ ~Halted
                  /\ thread_worker(t) \/ RandomByZero(t)

BenchNext == BenchMain \/ \E t \in Threads : BenchThread(t)

-----------------------------------------------------------------------------
(* Properties.                                                             *)

WholeBlocks == G_IOSIZE % BLK_SIZE = 0
AfterSequentialWrites ==
  program \in BenchPrograms /\ mpc = "show" /\ Sequential("W")

(* With one loop the threads of SeqWrite share the dataset among them: at  *)
(* the join each of their slots has been written once, whichever thread    *)
(* wrote it (SeqW_Offset.fetch_add in thread_worker), and no other.        *)
WrittenOnce ==
  AfterSequentialWrites /\ LOOP = 1 =>
    \A s \in Slots : writes[s] = IF s < NUM_THREADS * count THEN 1 ELSE 0

(* With more loops the counter passes the end of the dataset, and a thread *)
(* may reset it while others write: sequential writes of whole blocks      *)
(* still stay below twice the dataset (the check at the start of a loop in *)
(* thread_worker; other sizes are rounded up after they are counted).      *)
OffsetBounded ==
  program \in BenchPrograms /\ Sequential("W") /\ WholeBlocks =>
    \A t \in Threads : request[t].off + request[t].len <= 2 * DATASET_SIZE

(* The table has an entry for every stripe of every request of bench and   *)
(* main, whatever the size, the number of loops and the interleaving, with *)
(* a space for twice the requests the dataset is counted to have: the      *)
(* counter may pass the end, and writers draw from a dataset's length past *)
(* the start of their part (search_SST in raid_write_direct).              *)
BenchInTable ==
  program \in BenchPrograms =>
    \A t \in Threads :
      request[t].len > 0 =>
        user2stripe(request[t].off + request[t].len - 1) <= LastEntry

(* The random reads of a thread stay in the part of the dataset that is    *)
(* its own, although its base is rounded down to the I/O size and its size *)
(* rounded up to blocks: no two threads read the same place                *)
(* (Rand_offset_align with DATASET_SIZE / NUM_THREADS).                    *)
ReadersApart ==
  program \in BenchPrograms /\ info[0].io_dir = "R" /\ info[0].is_rand =>
    \A t, u \in Threads :
      t < u /\ request[t].len > 0 /\ request[u].len > 0 =>
        request[t].off + request[t].len <= request[u].off

(* The requests of a thread use its workload buffer within its length, in  *)
(* every loop and test, if their size is a whole number of blocks          *)
(* (buf_start in thread_worker).                                           *)
BenchInBuffer ==
  program \in BenchPrograms /\ WholeBlocks =>
    \A t \in Threads :
      request[t].buf + request[t].len <=
        Part + IF program = "main" /\ Sequential("W") THEN SlackMB ELSE 0

(* What main.cc reads it has written, each thread a part of its own,       *)
(* though the writers took their slots from one counter, which may have    *)
(* been reset under way.                                                   *)
ReadsAreWritten ==
  program = "main" /\ Sequential("R") =>
    \A t \in Threads :
      request[t].len > 0 =>
        /\ writes[request[t].off \div G_IOSIZE] > 0
        /\ \A u \in Threads : t # u => request[u].len = 0
                                       \/ request[u].off # request[t].off

(* The latencies bench averages after a test are those of its requests and *)
(* no others: the arrays are global and survive a test.                    *)
LatenciesOfTest ==
  mpc = "show" /\ program = "bench" =>
    merge(IO_LatArray) = NUM_THREADS * count * LOOP

=============================================================================
