----------------------------- MODULE TraceReplay -----------------------------
(***************************************************************************)
(* The trace-driven tests: trace_st.cc replays traces on StRAID,           *)
(* trace_md.cc on a Linux MD device.  main parses each trace file into     *)
(* three vectors, starts the workers, which take the offset, the length    *)
(* and the direction of a request through three shared cursors, and the    *)
(* collector, joins them, prints, and resets.                              *)
(*                                                                         *)
(* Each fetch_add is a step.  Serving a request is one step, which may     *)
(* fail on an assertion and end the process: StripeWrite has the write     *)
(* path of StRAID, and what its threads do to each other's batch queues;   *)
(* pread64 and pwrite64 are external.  Left out: ALIGN_SIZE (the parser's  *)
(* alignment to BLK_SIZE is stricter).                                     *)
(***************************************************************************)
EXTENDS Collector

CONSTANTS Traces,          \* per program: the files, sequences of lines
          MB,              \* [dir, off, len]
          AcceptedMBs,     \* longer requests are skipped (100)
          BufferMBs,       \* of a worker, per program (100 and 64)
          MD_LEN           \* the length of the MD device

ASSUME TraceAssumption ==
  /\ {"trace_st", "trace_md"} \subseteq DOMAIN Traces
  /\ MB \in Nat \ {0} /\ MB % BLK_SIZE = 0 /\ AcceptedMBs \in Nat
  /\ BufferMBs["trace_st"] = AcceptedMBs
  /\ BufferMBs["trace_md"] \in Nat /\ MD_LEN \in Nat

TracePrograms == {"trace_st", "trace_md"}

(* What getline, str_split and atoll make of a line of a file.             *)
Lines == [dir : {"R", "W"}, off : Nat, len : Nat]

ASSUME FilesAssumption ==
  \A p \in TracePrograms :
    /\ Len(Traces[p]) \in Nat
    /\ \A n \in 1 .. Len(Traces[p]) :
         /\ Len(Traces[p][n]) \in Nat
         /\ \A l \in 1 .. Len(Traces[p][n]) : Traces[p][n][l] \in Lines

-----------------------------------------------------------------------------
(* The parser.                                                             *)

(* The last unit of a request may be past what ol_align makes of it: the   *)
(* length is aligned as if the offset were aligned already.                *)
ol_align(r, align) == [r EXCEPT !.off = @ - (@ % align),
                                !.len = ((@ \div align) + 1) * align]

ParseLine(r) ==
  LET b == ol_align(r, BLK_SIZE)
  IN  IF b.dir = "W" /\ b.len > SSTRIPE_DATASIZE
      THEN ol_align(b, SSTRIPE_DATASIZE) ELSE b

(* A mistake: the length is tested as it is in the file.                   *)
Accepted_TestFirst(r) == r.len <= AcceptedMBs * MB

(* The line as it is to be replayed, and not as it is in the file, decides *)
(* whether it is kept.                                                     *)
Accepted(r) == ParseLine(r).len <= AcceptedMBs * MB

(* The requests each worker is to serve.                                   *)
Count(lines) == Len(lines) \div NUM_THREADS

(* A mistake: the offset is taken as it is in the file.                    *)
Fit_NotWrapped(offset) == offset

(* Offsets beyond the user space are wrapped into it.                      *)
Fit(offset) ==
  IF offset > USER_SPACE_LEN THEN offset % USER_SPACE_LEN ELSE offset

-----------------------------------------------------------------------------
VARIABLES
  traces,                      \* the traces begun so far
  line,                        \* the lines of the file read so far
  trace,                       \* the vectors, as one sequence of lines
  off_cnt, len_cnt, iodir_cnt, \* the cursors
  req                          \* per worker: the lines, from 1, its three
                               \* parts are of
cursors == <<off_cnt, len_cnt, iodir_cnt>>
trace_vars == <<traces, line, trace, cursors, req>>
replay_vars == <<shared_vars, collector_vars, trace_vars>>

NoReq == [off |-> 0, len |-> 0, dir |-> 0]

Length(t) == trace[req[t].len].len
IsRead(t) == trace[req[t].dir].dir = "R"
Offset(t) == Fit(trace[req[t].off].off)

TraceInit ==
  /\ traces = 0 /\ line = 0 /\ trace = <<>>
  /\ off_cnt = 0 /\ len_cnt = 0 /\ iodir_cnt = 0
  /\ req = [t \in Threads |-> NoReq]

ReplayInit == SharedInit /\ CollectorInit /\ TraceInit

-----------------------------------------------------------------------------
(* main                                                                    *)

File == Traces[program][traces]

NewTrace ==
  /\ program \in TracePrograms /\ Main("start", "read")
  /\ traces < Len(Traces[program])
  /\ traces' = traces + 1 /\ line' = 0 /\ trace' = <<>>
  /\ UNCHANGED <<cursors, req, wpc, i, lat_vars, collector_vars>>

(* A turn of the parser's loop: the line goes into the vectors or not.     *)
ReadLine ==
  /\ program \in TracePrograms /\ Main("read", "read")
  /\ line < Len(File) /\ line' = line + 1
  /\ LET r == File[line + 1] IN
     trace' = IF Accepted(r) THEN Append(trace, ParseLine(r)) ELSE trace
  /\ UNCHANGED <<traces, cursors, req, wpc, i, lat_vars, collector_vars>>

EndOfFile(m) ==
  /\ Main("read", m) /\ line = Len(File)
  /\ UNCHANGED <<trace_vars, wpc, i, lat_vars, collector_vars>>

EndOfFile_st == program = "trace_st" /\ EndOfFile("threads")

(* trace_md takes the greatest offset of what it has read.                 *)
EndOfFile_md ==
  /\ program = "trace_md"
  /\ EndOfFile(IF trace = <<>> THEN "aborted" ELSE "threads")

NoMoreTraces ==
  /\ program \in TracePrograms
  /\ traces = Len(Traces[program]) /\ Main("start", "done")
  /\ UNCHANGED <<wpc, i, lat_vars, collector_vars, trace_vars>>

StartWorker ==
  /\ program \in TracePrograms
  /\ \E t \in Threads :
       /\ Worker(t, "none", "next")
       /\ Main("threads", IF \A u \in Threads \ {t} : wpc[u] # "none"
                          THEN "collect" ELSE "threads")
  /\ UNCHANGED <<i, lat_vars, collector_vars, trace_vars>>

(* A mistake: the cursors keep their values.                               *)
ResetReplay_NoCursors ==
  /\ ResetCounters /\ ClearLats /\ NewItem
  /\ Collector_endflag' = FALSE
  /\ now' = Zero /\ last' = Zero /\ first' = Zero
  /\ UNCHANGED <<traces, line, trace, cursors, req, wpc, i, cpc>>

(* The end of an iteration; the next one has an item of its own.           *)
ResetReplay ==
  /\ ResetCounters /\ ClearLats /\ NewItem
  /\ Collector_endflag' = FALSE
  /\ now' = Zero /\ last' = Zero /\ first' = Zero
  /\ off_cnt' = 0 /\ len_cnt' = 0 /\ iodir_cnt' = 0
  /\ UNCHANGED <<traces, line, trace, req, wpc, i, cpc>>

(* vector::at of an empty vector of latencies throws.                      *)
PrintCDF == \/ totals.all > 0 /\ Main("print", "start") /\ ResetReplay
            \/ /\ totals.all = 0 /\ Main("print", "aborted")
               /\ UNCHANGED <<wpc, i, lat_vars, collector_vars, trace_vars>>

(* A mistake: the latencies are printed as in trace_md.                    *)
Print_st_Unguarded == program = "trace_st" /\ PrintCDF

(* trace_st tests for empty vectors before it prints percentiles of them.  *)
Print_st == program = "trace_st" /\ Main("print", "start") /\ ResetReplay

Print_md == program = "trace_md" /\ PrintCDF

-----------------------------------------------------------------------------
(* worker_run                                                              *)

TakeOffset(t) ==
  /\ i[t] < Count(trace) /\ Worker(t, "next", "len")
  /\ off_cnt' = off_cnt + 1
  /\ req' = [req EXCEPT ![t].off = off_cnt + 1]
  /\ UNCHANGED <<len_cnt, iodir_cnt, i, lat_vars, counters>>

(* A mistake: the cursor is read and not advanced.                         *)
TakeLength_Load(t) ==
  /\ Worker(t, "len", "dir")
  /\ req' = [req EXCEPT ![t].len = len_cnt + 1]
  /\ UNCHANGED <<cursors, i, lat_vars, counters>>

TakeLength(t) ==
  /\ Worker(t, "len", "dir")
  /\ len_cnt' = len_cnt + 1
  /\ req' = [req EXCEPT ![t].len = len_cnt + 1]
  /\ UNCHANGED <<off_cnt, iodir_cnt, i, lat_vars, counters>>

TakeDirection(t) ==
  /\ Worker(t, "dir", "serve")
  /\ iodir_cnt' = iodir_cnt + 1
  /\ req' = [req EXCEPT ![t].dir = iodir_cnt + 1]
  /\ UNCHANGED <<off_cnt, len_cnt, i, lat_vars, counters>>

(* A request is served and its length counted.                             *)
Served(t, n) ==
  /\ \/ IsRead(t) /\ DATA_READ' = DATA_READ + n /\ UNCHANGED DATA_WRITTEN
     \/ ~IsRead(t) /\ DATA_WRITTEN' = DATA_WRITTEN + n /\ UNCHANGED DATA_READ
  /\ UNCHANGED IOCOUNT

(* raid_read or raid_write_direct; only reads are timed apart.             *)
Serve_st(t) ==
  /\ program = "trace_st" /\ Worker(t, "serve", "count")
  /\ Served(t, Length(t))
  /\ ReadIO_LatArray' =
       IF IsRead(t) THEN Recorded(ReadIO_LatArray, t) ELSE ReadIO_LatArray
  /\ UNCHANGED <<cursors, req, i, IO_LatArray>>

PastTable(t) == user2stripe(Offset(t) + Length(t) - 1) > LastEntry
PastDevice(t) == Offset(t) + Length(t) > MD_LEN
PastBuffer(t) == Length(t) > BufferMBs[program] * MB

(* pread64 or pwrite64; no latencies of reads.                             *)
Serve_md(t) ==
  /\ program = "trace_md" /\ Worker(t, "serve", "count") /\ ~PastDevice(t)
  /\ Served(t, Length(t))
  /\ UNCHANGED <<cursors, req, i, lat_vars>>

(* search_SST asserts that the stripe of each piece this thread encodes    *)
(* has an entry (that of a piece another thread encodes is not looked up). *)
FailWrite(t) == program = "trace_st" /\ ~IsRead(t) /\ PastTable(t)

(* The worker asserts that pread64 or pwrite64 returns the length.  A      *)
(* request longer than the buffer runs past it: anything may come of it.   *)
FailTransfer(t) == program = "trace_md" /\ (PastDevice(t) \/ PastBuffer(t))

(* A failed assertion ends the process, all its threads included.          *)
worker_fails(t) ==
  /\ wpc[t] = "serve"
  /\ FailWrite(t) \/ FailTransfer(t)
  /\ mpc' = "aborted" /\ cpc' = "none"
  /\ wpc' = [u \in Threads |-> "none"] /\ i' = [u \in Threads |-> 0]
  /\ UNCHANGED <<program, lat_vars, counters, Collector_endflag, now, last,
                 first, item, trace_vars>>

CountIO(t) ==
  /\ Worker(t, "count", "next")
  /\ IOCOUNT' = IOCOUNT + 1
  /\ IO_LatArray' = Recorded(IO_LatArray, t)
  /\ i' = [i EXCEPT ![t] = @ + 1]
  /\ UNCHANGED <<cursors, req, DATA_WRITTEN, DATA_READ, ReadIO_LatArray>>

EndWorker(t) ==
  /\ i[t] = Count(trace) /\ Worker(t, "next", "ended")
  /\ req' = [req EXCEPT ![t] = NoReq]
  /\ UNCHANGED <<cursors, i, lat_vars, counters>>

worker_run(t) ==
  /\ \/ TakeOffset(t) \/ TakeLength(t) \/ TakeDirection(t)
     \/ Serve_st(t) \/ Serve_md(t) \/ CountIO(t) \/ EndWorker(t)
  /\ program \in TracePrograms
  /\ UNCHANGED <<program_vars, traces, line, trace, Collector_endflag, cpc, now,
                 last, first, item>>

-----------------------------------------------------------------------------
CollectorMain == /\ StartCollector \/ JoinWorkers \/ JoinCollector
                 /\ program \in TracePrograms /\ UNCHANGED trace_vars

ReplayMain == \/ NewTrace \/ ReadLine \/ EndOfFile_st \/ EndOfFile_md
              \/ NoMoreTraces \/ StartWorker \/ CollectorMain
              \/ Print_st \/ Print_md

ReplayCollector == CollectorStep /\ UNCHANGED trace_vars

ReplayNext == \/ ReplayMain
              \/ \E t \in Threads : worker_run(t) \/ worker_fails(t)
              \/ ReplayCollector

ReplaySpec == ReplayInit /\ [][ReplayNext]_replay_vars

-----------------------------------------------------------------------------
(* Properties.                                                             *)

(* No worker reads past the end of a vector (vector::at would throw): the  *)
(* cursors never pass the number of lines, in any trace of the run, though *)
(* no worker looks at a cursor before it takes from it.                    *)
CursorsInTrace ==
  mpc \in {"threads", "collect", "join"} =>
    \A c \in {off_cnt, len_cnt, iodir_cnt} : c <= Len(trace)

(* Sum of F(l) over the first n positions of the trace.                    *)
SumTo(n, F(_)) == MapThenSumSet(F, 1 .. n)

(* The totals the collector takes of a replay that runs to its end: every  *)
(* line up to the last multiple of the number of workers has been served   *)
(* once, its length counted once, with as many latencies as requests,      *)
(* whatever the interleaving.  main prints the number of lines kept        *)
(* (trace_off.size()) as that of the requests: too many by those no worker *)
(* serves, which are fewer than there are workers.                         *)
ReplayTotals ==
  mpc = "print" /\ program \in TracePrograms =>
    LET n == Count(trace) * NUM_THREADS IN
    /\ totals.n = n /\ totals.all = n
    /\ Len(trace) - totals.n \in 0 .. NUM_THREADS - 1
    /\ totals.w + totals.r = SumTo(n, LAMBDA l : trace[l].len)
    /\ program = "trace_st" =>
         totals.read = SumTo(n, LAMBDA l : IF trace[l].dir = "R" THEN 1 ELSE 0)

(* The table has an entry for every stripe of a request to be served that  *)
(* is no longer than the slack (100 stripes, 43.75 MB), at the end of the  *)
(* user space too.  The parser keeps requests of up to AcceptedMBs (100):  *)
(* of the longer ones search_SST refuses such a stripe, and the program    *)
(* ends (AbortCauses).                                                     *)
ReplayInTable ==
  \A t \in Threads :
    wpc[t] = "serve" /\ Length(t) <= SLACK * SSTRIPE_DATASIZE => ~PastTable(t)

(* A request trace_st serves fits the worker's buffer, although it is the  *)
(* parser that decides, before it knows which lines a request is made of,  *)
(* and alignment makes requests longer (trace_md has a smaller buffer).    *)
ReplayInBuffer ==
  \A t \in Threads :
    wpc[t] = "serve" /\ program = "trace_st" => ~PastBuffer(t)

(* A worker serves a request of the trace: offset, length and direction    *)
(* are those of one line, taken in order.                                  *)
RequestsAreLines ==
  \A t \in Threads :
    wpc[t] = "serve" => req[t].off = req[t].len /\ req[t].len = req[t].dir

=============================================================================
