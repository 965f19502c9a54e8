----------------------------- MODULE DriverProofs ----------------------------
(***************************************************************************)
(* Proofs about the five programs, for any traces, sizes and numbers of    *)
(* threads.  The replays: the cursors never pass the end of a trace, since *)
(* a cursor counts the places taken from it, a place is a worker and the   *)
(* number of its request, and there are at most NUM_THREADS times          *)
(* Count(trace) of them.  The collector: the counters only grow while it   *)
(* runs, so each sample is the step from the loads before to the loads     *)
(* after.  The parts of the space that threads are given are apart.  The   *)
(* requests fit the buffer of the thread that serves them and the stripe   *)
(* table, and the sequential writers, who take their slots from a counter  *)
(* that each of them may reset, cover the dataset and stay below twice its *)
(* size.  The totals taken are those of the requests served: while threads *)
(* run, each counter is a sum over the threads of what their loop          *)
(* variables say.                                                          *)
(***************************************************************************)
EXTENDS FivePrograms, LayoutProofs, FiniteSetTheorems

Replaying == {"threads", "collect", "join"}

(* The requests of which the part B is taken, where B is the set of places *)
(* in worker_run after the fetch_add on the part's cursor.                 *)
Taken(B) == {p \in Threads \X Nat :
               p[2] < i[p[1]] \/ (p[2] = i[p[1]] /\ wpc[p[1]] \in B)}

HasOffset == {"len", "dir", "serve", "count"}
HasLength == {"dir", "serve", "count"}
HasDirection == {"serve", "count"}
Parts == {HasOffset, HasLength, HasDirection}

(* The lines a trace is made of: what the parser keeps.                    *)
Kept == {r \in Lines : r.len <= AcceptedMBs * MB}
TraceInv == trace \in Seq(Kept)

ReplayState ==
  /\ traces \in Nat /\ line \in Nat
  /\ Len(trace) \in Nat /\ Count(trace) \in Nat
  /\ \A l \in 1 .. Len(trace) : trace[l].off \in Nat /\ trace[l].len \in Nat
  /\ i \in [Threads -> Nat]
  /\ wpc \in [Threads -> {"none", "next", "ended"} \cup HasOffset]
  /\ \A t \in Threads : /\ i[t] <= Count(trace)
                        /\ wpc[t] \in HasOffset => i[t] < Count(trace)

Idle == \A t \in Threads : wpc[t] = "none" /\ i[t] = 0

Counted ==
  /\ off_cnt = Cardinality(Taken(HasOffset))
  /\ len_cnt = Cardinality(Taken(HasLength))
  /\ iodir_cnt = Cardinality(Taken(HasDirection))

CursorInv ==
  /\ program \in TARGET
  /\ program \in TracePrograms =>
       /\ TraceInv /\ ReplayState
       /\ mpc \notin Replaying => Idle
       /\ mpc \in Replaying \cup {"start", "read"} => Counted
       /\ mpc = "read" => traces \in 1 .. Len(Traces[program])
  /\ program \notin TracePrograms =>
       trace = <<>> /\ off_cnt = 0 /\ len_cnt = 0 /\ iodir_cnt = 0

-----------------------------------------------------------------------------
(* Counting.                                                               *)

LEMMA ThreadsFinite ==
  /\ NUM_THREADS \in Nat \ {0}
  /\ IsFiniteSet(Threads) /\ Cardinality(Threads) = NUM_THREADS
<1>1. NUM_THREADS \in Nat \ {0}
  BY DriversAssumption
<1>2. QED
  BY <1>1, FS_Interval DEF Threads

(* The workers' shares do not exceed the trace.                            *)
LEMMA SharesFit ==
  ASSUME NEW lines, Len(lines) \in Nat
  PROVE  Count(lines) \in Nat /\ NUM_THREADS * Count(lines) <= Len(lines)
<1> DEFINE n == Len(lines)
           q == n \div NUM_THREADS
<1>1. NUM_THREADS \in Nat \ {0}
  BY ThreadsFinite
<1>2. /\ q \in Nat /\ n % NUM_THREADS \in 0 .. NUM_THREADS - 1
      /\ n = NUM_THREADS * q + (n % NUM_THREADS)
  <2> HIDE DEF n
  <2>1. n \in Nat
    BY DEF n
  <2>2. QED
    BY <1>1, <2>1, DivMod
<1> HIDE DEF q
<1>3. QED
  BY <1>1, <1>2 DEF Count, q

(* What is kept of a file are lines, none longer than the workers' buffer. *)
LEMMA KeptLines ==
  ASSUME NEW lines \in Seq(Kept)
  PROVE  /\ Len(lines) \in Nat /\ Count(lines) \in Nat
         /\ \A l \in 1 .. Len(lines) :
              /\ lines[l].off \in Nat /\ lines[l].len \in Nat
              /\ lines[l].len <= AcceptedMBs * MB
<1>1. Len(lines) \in Nat /\ \A l \in 1 .. Len(lines) : lines[l] \in Kept
  OBVIOUS
<1>2. Count(lines) \in Nat
  BY <1>1, SharesFit
<1>3. \A r \in Kept : r.off \in Nat /\ r.len \in Nat /\ r.len <= AcceptedMBs * MB
  BY DEF Kept, Lines
<1>4. QED
  BY <1>1, <1>2, <1>3

LEMMA AlignedNumbers ==
  ASSUME NEW n \in Nat, NEW a \in Nat \ {0}
  PROVE  n - (n % a) \in Nat /\ ((n \div a) + 1) * a \in Nat
<1>1. n \div a \in Nat /\ n % a \in Nat /\ n = a * (n \div a) + (n % a)
  BY DivMod
<1>2. a * (n \div a) \in Nat /\ ((n \div a) + 1) * a \in Nat
  BY <1>1
<1>3. QED
  BY <1>1, <1>2

LEMMA AlignedIsLine ==
  ASSUME NEW r \in Lines, NEW a \in Nat \ {0}
  PROVE  ol_align(r, a) \in Lines
<1>1. PICK d \in {"R", "W"}, o \in Nat, n \in Nat : r = [dir |-> d, off |-> o, len |-> n]
  BY DEF Lines
<1> DEFINE off == o - (o % a)
           len == ((n \div a) + 1) * a
<1>2. ol_align(r, a) = [dir |-> d, off |-> off, len |-> len]
  <2>1. r.off = o /\ r.len = n
    BY <1>1
  <2>2. ol_align(r, a) = [r EXCEPT !.off = off, !.len = len]
    BY <2>1, Zenon DEF ol_align
  <2> HIDE DEF off, len
  <2>3. QED
    BY <1>1, <2>2
<1>3. off \in Nat
  BY AlignedNumbers, Zenon
<1>4. len \in Nat
  BY AlignedNumbers, Zenon
<1> HIDE DEF off, len
<1>5. QED
  BY <1>2, <1>3, <1>4 DEF Lines

LEMMA ParsedIsKept ==
  ASSUME NEW r \in Lines, Accepted(r)
  PROVE  ParseLine(r) \in Kept
<1>1. BLK_SIZE \in Nat \ {0} /\ SSTRIPE_DATASIZE \in Nat \ {0}
  BY DriversAssumption, LayoutAssumption DEF SSTRIPE_DATASIZE
<1>2. ol_align(r, BLK_SIZE) \in Lines
  BY <1>1, AlignedIsLine
<1>3. ol_align(ol_align(r, BLK_SIZE), SSTRIPE_DATASIZE) \in Lines
  BY <1>1, <1>2, AlignedIsLine
<1>4. ParseLine(r) \in Lines
  BY <1>2, <1>3 DEF ParseLine
<1>5. QED
  BY <1>4 DEF Accepted, Kept

LEMMA NumbersBelow ==
  ASSUME NEW c \in Nat
  PROVE  IsFiniteSet(0 .. c - 1) /\ Cardinality(0 .. c - 1) = c
<1>1. c - 1 \in Int /\ 0 \in Int
  OBVIOUS
<1>2. /\ IsFiniteSet(0 .. c - 1)
      /\ Cardinality(0 .. c - 1) = IF 0 > c - 1 THEN 0 ELSE (c - 1) - 0 + 1
  BY <1>1, FS_Interval
<1>3. QED
  BY <1>2

LEMMA TakenFits ==
  ASSUME ReplayState, NEW B \in SUBSET HasOffset
  PROVE  /\ IsFiniteSet(Taken(B))
         /\ Cardinality(Taken(B)) \in Nat
         /\ Cardinality(Taken(B)) <= Len(trace)
<1> DEFINE Numbers == 0 .. Count(trace) - 1
           All == Threads \X Numbers
<1>1. /\ IsFiniteSet(Numbers) /\ Cardinality(Numbers) = Count(trace)
      /\ Count(trace) \in Nat
  BY NumbersBelow DEF ReplayState
<1>2. IsFiniteSet(All) /\ Cardinality(All) = NUM_THREADS * Count(trace)
  BY <1>1, ThreadsFinite, FS_Product
<1>3. Taken(B) \in SUBSET All
  <2> SUFFICES ASSUME NEW p \in Taken(B) PROVE p \in All
    OBVIOUS
  <2>1. PICK t \in Threads, k \in Nat : p = <<t, k>>
    BY DEF Taken
  <2>2. k < i[t] \/ (k = i[t] /\ wpc[t] \in HasOffset)
    BY <2>1 DEF Taken
  <2>3. k \in Numbers
    BY <1>1, <2>2 DEF ReplayState
  <2>4. QED
    BY <2>1, <2>3
<1>4. NUM_THREADS * Count(trace) <= Len(trace) /\ NUM_THREADS * Count(trace) \in Nat
  BY <1>1, SharesFit, ThreadsFinite DEF ReplayState
<1> HIDE DEF All
<1>5. /\ IsFiniteSet(Taken(B)) /\ Cardinality(Taken(B)) <= Cardinality(All)
      /\ Cardinality(Taken(B)) \in Nat
  BY <1>2, <1>3, FS_Subset, FS_CardinalityType
<1>6. Len(trace) \in Nat
  BY DEF ReplayState
<1>7. QED
  BY <1>2, <1>4, <1>5, <1>6

(* A fetch_add takes one more place.                                       *)
LEMMA TakeOne ==
  ASSUME ReplayState, NEW B \in SUBSET HasOffset, NEW t \in Threads,
         NEW m \in B, wpc[t] \notin B, i' = i, wpc' = [wpc EXCEPT ![t] = m]
  PROVE  Cardinality(Taken(B)') = Cardinality(Taken(B)) + 1
<1>1. Taken(B)' = Taken(B) \cup {<<t, i[t]>>} /\ <<t, i[t]>> \notin Taken(B)
  BY DEF Taken, ReplayState
<1>2. QED
  BY <1>1, TakenFits, FS_AddElement

(* A step on which side of B does not depend takes no place.               *)
LEMMA TakeNone ==
  ASSUME NEW B, NEW t \in Threads, wpc \in [Threads -> {"none", "next", "ended"} \cup HasOffset],
         i' = i, NEW m, wpc' = [wpc EXCEPT ![t] = m], wpc[t] \in B <=> m \in B
  PROVE  Taken(B)' = Taken(B)
  BY DEF Taken

(* The end of a request: the same places are taken.                        *)
LEMMA TakeEnd ==
  ASSUME ReplayState, NEW B \in SUBSET HasOffset, NEW t \in Threads,
         wpc[t] \in B, i' = [i EXCEPT ![t] = @ + 1],
         wpc' = [wpc EXCEPT ![t] = "next"], "next" \notin B
  PROVE  Taken(B)' = Taken(B)
  BY DEF Taken, ReplayState

LEMMA TakenNothing ==
  ASSUME Idle
  PROVE  \A B \in Parts : Cardinality(Taken(B)) = 0
<1>1. \A B \in Parts : Taken(B) = {}
  BY DEF Idle, Taken, Parts, HasOffset, HasLength, HasDirection
<1>2. QED
  BY <1>1, FS_EmptySet

-----------------------------------------------------------------------------
(* Which steps each program takes.                                         *)

(* What a failed assertion of a worker ends, and what it leaves alone.     *)
Failing(t) ==
  /\ program \in TracePrograms /\ wpc[t] = "serve"
  /\ mpc' = "aborted" /\ cpc' = "none"
  /\ wpc' = [u \in Threads |-> "none"] /\ i' = [u \in Threads |-> 0]
  /\ UNCHANGED <<program, IO_LatArray, ReadIO_LatArray, DATA_WRITTEN, DATA_READ,
                 IOCOUNT, Collector_endflag, now, last, first, sums, totals,
                 traces, line, trace, off_cnt, len_cnt, iodir_cnt, req>>

LEMMA FailureEnds ==
  ASSUME NEW t \in Threads, worker_fails(t)
  PROVE  Failing(t)
  BY DEF worker_fails, FailWrite, FailTransfer, Failing, TracePrograms, lat_vars,
         counters, item, trace_vars, cursors

LEMMA ReplayKinds ==
  ASSUME program \in TracePrograms, [Next]_vars
  PROVE  \/ ReplayMain \/ (\E t \in Threads : worker_run(t) \/ worker_fails(t))
         \/ ReplayCollector \/ UNCHANGED vars
<1>1. program \notin BenchPrograms /\ program \notin {"load", "bench", "main"}
  BY DEF TracePrograms, BenchPrograms
<1>2. CASE Main_p
  BY <1>1, <1>2
     DEF Main_p, BenchMain, NoSize, StartTest, JoinTest, Show_bench,
         Show_nothing, Show_main, LoadMain, StartLoad, PrintNothing, PrintLoad
<1>3. ASSUME NEW t \in Threads, Thread_p(t)
      PROVE  worker_run(t) \/ worker_fails(t)
  BY <1>1, <1>3 DEF Thread_p, BenchThread, self_thread_worker
<1>4. CASE Collector_p
  BY <1>1, <1>4 DEF Collector_p
<1>5. QED
  BY <1>2, <1>3, <1>4 DEF Next

(* What a replay's steps other than those of main and of the workers leave *)
(* alone: those of the collector.                                          *)
Aside == UNCHANGED <<program, mpc, wpc, i, trace_vars>>

LEMMA ReplaySteps ==
  ASSUME program \in TracePrograms, [Next]_vars
  PROVE  \/ ReplayMain \/ (\E t \in Threads : worker_run(t) \/ worker_fails(t))
         \/ Aside
<1>1. CASE ReplayCollector
  BY <1>1
     DEF ReplayCollector, CollectorStep, collector_run_st, collector_run_md,
         collector_run_load, collector_run, Aside, shared_vars
<1>2. CASE UNCHANGED vars
  BY <1>2 DEF Aside, vars, shared_vars
<1>3. QED
  BY <1>1, <1>2, ReplayKinds

LEMMA LoadSteps ==
  ASSUME program = "load", [Next]_vars
  PROVE  \/ LoadMain
         \/ \E t \in Threads : self_thread_worker(t)
         \/ LoadCollector \/ UNCHANGED vars
<1>1. CASE Main_p
  BY <1>1 DEF Main_p, ReplayMain, NewTrace, ReadLine, EndOfFile_st, EndOfFile_md, NoMoreTraces,
     StartWorker, CollectorMain, Print_st, Print_md, TracePrograms, BenchMain,
     NoSize, StartTest, JoinTest, Show_bench, Show_nothing, Show_main,
     BenchPrograms
<1>2. ASSUME NEW t \in Threads, Thread_p(t)
      PROVE  self_thread_worker(t)
  <2>1. ~worker_fails(t)
    BY FailureEnds DEF Failing, TracePrograms
  <2>2. QED
    BY <1>2, <2>1 DEF Thread_p, worker_run, TracePrograms, BenchThread, BenchPrograms
<1>3. CASE Collector_p
  BY <1>3 DEF Collector_p
<1>4. QED
  BY <1>1, <1>2, <1>3 DEF Next

LEMMA BenchSteps ==
  ASSUME program \in BenchPrograms, [Next]_vars
  PROVE  BenchMain \/ (\E t \in Threads : BenchThread(t)) \/ UNCHANGED vars
<1>1. program \notin TracePrograms /\ program \notin {"load", "trace_st", "trace_md"}
  BY DEF BenchPrograms, TracePrograms
<1>2. CASE Main_p
  <2>1. ~ReplayMain
    BY <1>1 DEF ReplayMain, NewTrace, ReadLine, EndOfFile_st, EndOfFile_md, NoMoreTraces,
       StartWorker, CollectorMain, Print_st, Print_md
  <2>2. ~LoadMain
    BY <1>1 DEF LoadMain, StartLoad, PrintNothing, PrintLoad
  <2>3. QED
    BY <1>2, <2>1, <2>2 DEF Main_p
<1>3. ASSUME NEW t \in Threads, Thread_p(t)
      PROVE  BenchThread(t)
  <2>1. ~worker_fails(t)
    BY <1>1, FailureEnds DEF Failing
  <2>2. QED
    BY <1>1, <1>3, <2>1 DEF Thread_p, worker_run, self_thread_worker
<1>4. ~Collector_p
  BY <1>1 DEF Collector_p, ReplayCollector, LoadCollector, CollectorStep,
     collector_run_st, collector_run_md, collector_run_load
<1>5. QED
  BY <1>2, <1>3, <1>4 DEF Next

LEMMA OtherSteps ==
  ASSUME program \notin TracePrograms, [Next]_vars
  PROVE  UNCHANGED <<program, trace_vars>>
<1>1. program \notin {"trace_st", "trace_md"}
  BY DEF TracePrograms
<1>2. CASE Main_p
  <2>1. ~ReplayMain
    BY <1>1 DEF TracePrograms, ReplayMain, NewTrace, ReadLine, EndOfFile_st, EndOfFile_md,
                NoMoreTraces, StartWorker, CollectorMain, Print_st, Print_md
  <2>2. CASE BenchMain /\ UNCHANGED trace_vars
    BY <2>2 DEF BenchMain, NoSize, StartTest, JoinTest, Show_bench,
                Show_nothing, Show_main, NextTest, Main
  <2>3. CASE LoadMain /\ UNCHANGED trace_vars
    BY <2>3 DEF LoadMain, StartLoad, PrintNothing, PrintLoad, StartCollector,
                JoinWorkers, JoinCollector, Main
  <2>4. QED
    BY <1>2, <2>1, <2>2, <2>3 DEF Main_p
<1>3. ASSUME NEW t \in Threads, Thread_p(t)
      PROVE  UNCHANGED <<program, trace_vars>>
  <2>1. ~worker_run(t) /\ ~worker_fails(t)
    BY <1>1, FailureEnds DEF worker_run, TracePrograms, Failing
  <2>2. CASE BenchThread(t) /\ UNCHANGED trace_vars
    BY <2>2 DEF BenchThread, thread_worker, RandomByZero, program_vars
  <2>3. CASE self_thread_worker(t) /\ UNCHANGED trace_vars
    BY <2>3 DEF self_thread_worker, program_vars
  <2>4. QED
    BY <1>3, <2>1, <2>2, <2>3 DEF Thread_p
<1>4. CASE Collector_p
  BY <1>4
     DEF Collector_p, ReplayCollector, LoadCollector, CollectorStep,
         collector_run_st, collector_run_md, collector_run_load, collector_run,
         shared_vars
<1>5. CASE UNCHANGED vars
  BY <1>5 DEF vars, shared_vars
<1>6. QED
  BY <1>2, <1>3, <1>4, <1>5 DEF Next

-----------------------------------------------------------------------------
(* The invariant is inductive.                                             *)

LEMMA SameCount ==
  ASSUME Counted, UNCHANGED cursors, \A B \in Parts : Taken(B)' = Taken(B)
  PROVE  Counted'
  BY DEF Counted, cursors, Parts

LEMMA SamePlaces ==
  ASSUME UNCHANGED <<wpc, i>>
  PROVE  /\ \A B : Taken(B)' = Taken(B)
         /\ Idle' <=> Idle
  BY DEF Taken, Idle

(* main leaves the workers' places alone, but for the new trace, which it  *)
(* reads when no worker runs, and the join, which no worker outlives.      *)
LEMMA MainStep ==
  ASSUME CursorInv, program \in TracePrograms, ReplayMain
  PROVE  CursorInv'
<1>0. program' = program
  BY DEF ReplayMain, NewTrace, ReadLine, EndOfFile_st, EndOfFile_md, NoMoreTraces, StartWorker,
         EndOfFile, CollectorMain, StartCollector, JoinWorkers, JoinCollector,
         Print_st, Print_md, PrintCDF, Main
<1> USE DEF CursorInv, Replaying
<1>a. UNCHANGED trace => TraceInv'
  BY DEF TraceInv
<1>1. ASSUME mpc \in {"start", "read"}, mpc' \in {"read", "threads", "aborted"},
             TraceInv', traces' \in Nat, line' \in Nat,
             mpc' = "read" => traces' \in 1 .. Len(Traces[program]),
             UNCHANGED <<cursors, wpc, i>>
      PROVE  CursorInv'
  <2>1. /\ Len(trace') \in Nat /\ Count(trace') \in Nat
        /\ \A l \in 1 .. Len(trace') : trace'[l].off \in Nat /\ trace'[l].len \in Nat
    BY <1>1, KeptLines DEF TraceInv
  <2>2. Idle /\ Idle' /\ Counted /\ Counted'
    BY <1>1, SamePlaces, SameCount
  <2>3. ReplayState'
    BY <1>1, <2>1, <2>2 DEF ReplayState, Idle, HasOffset
  <2>4. QED
    BY <1>0, <1>1, <2>2, <2>3
<1>2. ASSUME UNCHANGED <<traces, line, trace, cursors, wpc, i>>,
             mpc' \in Replaying <=> mpc \in Replaying,
             mpc' \notin {"start", "read"}
      PROVE  CursorInv'
  <2>1. ReplayState'
    BY <1>2 DEF ReplayState
  <2>2. mpc \notin Replaying => Idle'
    BY <1>2, SamePlaces
  <2>3. mpc \in Replaying => Counted'
    BY <1>2, SamePlaces, SameCount
  <2>4. QED
    BY <1>0, <1>a, <1>2, <2>1, <2>2, <2>3
<1>3. CASE StartWorker
  <2>1. PICK t \in Threads : wpc[t] = "none" /\ wpc' = [wpc EXCEPT ![t] = "next"]
    BY <1>3 DEF StartWorker, Worker
  <2>2. /\ mpc = "threads" /\ mpc' \in Replaying
        /\ UNCHANGED <<i, traces, line, trace, cursors>>
    BY <1>3 DEF StartWorker, Main, trace_vars
  <2>3. ReplayState'
    BY <2>1, <2>2 DEF ReplayState, HasOffset
  <2>4. \A B \in Parts : Taken(B)' = Taken(B)
    BY <2>1, <2>2, TakeNone
       DEF ReplayState, Parts, HasOffset, HasLength, HasDirection
  <2>5. Counted'
    BY <2>2, <2>4, SameCount
  <2>6. QED
    BY <1>0, <1>a, <2>2, <2>3, <2>5
<1>4. CASE JoinWorkers /\ UNCHANGED trace_vars
  <2>1. /\ mpc' = "joincollector" /\ UNCHANGED <<traces, line, trace, cursors>>
        /\ wpc' = [t \in Threads |-> "none"] /\ i' = [t \in Threads |-> 0]
    BY <1>4 DEF JoinWorkers, Main, trace_vars
  <2>2. ReplayState' /\ Idle'
    BY <2>1 DEF ReplayState, Idle, HasOffset
  <2>3. QED
    BY <1>0, <1>a, <2>1, <2>2
<1>5. ASSUME mpc = "print", mpc' = "start", ResetReplay
      PROVE  CursorInv'
  <2>1. /\ UNCHANGED <<traces, line, trace, wpc, i>>
        /\ off_cnt' = 0 /\ len_cnt' = 0 /\ iodir_cnt' = 0
    BY <1>5 DEF ResetReplay
  <2>2. ReplayState' /\ Idle /\ Idle'
    BY <1>5, <2>1, SamePlaces DEF ReplayState
  <2>3. \A B \in Parts : Cardinality(Taken(B)') = 0
    BY <2>1, <2>2, SamePlaces, TakenNothing
  <2>4. Counted'
    BY <2>1, <2>3 DEF Counted, Parts
  <2>5. QED
    BY <1>0, <1>a, <1>5, <2>1, <2>2, <2>4
<1>6. CASE NewTrace \/ ReadLine \/ EndOfFile_st \/ EndOfFile_md
  <2>1. CASE NewTrace
    <3>1. TraceInv'
      BY <2>1 DEF NewTrace, TraceInv
    <3>2. traces' \in 1 .. Len(Traces[program]) /\ traces' \in Nat /\ line' \in Nat
      BY <2>1, FilesAssumption DEF NewTrace, ReplayState
    <3>3. mpc = "start" /\ mpc' = "read" /\ UNCHANGED <<cursors, wpc, i>>
      BY <2>1 DEF NewTrace, Main
    <3>4. QED
      BY <1>1, <3>1, <3>2, <3>3
  <2>2. CASE ReadLine
    <3>1. /\ mpc = "read" /\ mpc' = "read" /\ line < Len(File) /\ line' = line + 1
          /\ UNCHANGED <<traces, cursors, wpc, i>>
      BY <2>2 DEF ReadLine, Main
    <3>2. traces \in 1 .. Len(Traces[program]) /\ traces \in Nat /\ line \in Nat
      BY <3>1 DEF ReplayState
    <3>3. File[line + 1] \in Lines /\ line' \in Nat
      <4>1. Len(File) \in Nat
            /\ \A l \in 1 .. Len(File) : File[l] \in Lines
        BY <3>2, FilesAssumption DEF File
      <4>2. line + 1 \in 1 .. Len(File) /\ line' \in Nat
        BY <3>1, <3>2, <4>1
      <4>3. QED
        BY <4>1, <4>2
    <3>4. trace' = IF Accepted(File[line + 1])
                   THEN Append(trace, ParseLine(File[line + 1])) ELSE trace
      BY <2>2 DEF ReadLine
    <3>5. TraceInv'
      BY <3>3, <3>4, ParsedIsKept DEF TraceInv
    <3>6. QED
      BY <1>1, <3>1, <3>2, <3>3, <3>5
  <2>3. CASE EndOfFile_st \/ EndOfFile_md
    <3>1. /\ mpc = "read" /\ mpc' \in {"threads", "aborted"}
          /\ UNCHANGED <<traces, line, trace, cursors, wpc, i>>
      BY <2>3 DEF EndOfFile_st, EndOfFile_md, EndOfFile, Main, trace_vars
    <3>2. TraceInv'
      BY <3>1 DEF TraceInv
    <3>3. QED
      BY <1>1, <3>1, <3>2 DEF ReplayState
  <2>4. QED
    BY <1>6, <2>1, <2>2, <2>3
<1>7. CASE NoMoreTraces
  BY <1>2, <1>7 DEF NoMoreTraces, Main, trace_vars
<1>8. CASE (StartCollector \/ JoinCollector) /\ UNCHANGED trace_vars
  BY <1>2, <1>8 DEF StartCollector, JoinCollector, Main, trace_vars
<1>9. CASE Print_st \/ Print_md
  BY <1>2, <1>5, <1>9 DEF Print_st, Print_md, PrintCDF, Main, trace_vars
<1>10. QED
  BY <1>3, <1>4, <1>6, <1>7, <1>8, <1>9 DEF ReplayMain, CollectorMain

LEMMA WorkerStep ==
  ASSUME CursorInv, program \in TracePrograms, NEW t \in Threads, worker_run(t)
  PROVE  CursorInv'
<1> USE DEF CursorInv, Replaying
<1>1. /\ UNCHANGED <<program, mpc, traces, line, trace>> /\ ReplayState
      /\ wpc[t] # "none"
  BY DEF worker_run, program_vars, TakeOffset, TakeLength, TakeDirection,
         Serve_st, Serve_md, CountIO, EndWorker, Worker
<1>2. mpc \in Replaying /\ Counted
  BY <1>1 DEF Idle
<1>3. Parts \subseteq SUBSET HasOffset
  BY DEF Parts, HasOffset, HasLength, HasDirection
<1> SUFFICES ReplayState' /\ Counted'
  <2>1. TraceInv'
    BY <1>1 DEF TraceInv
  <2>2. QED
    BY <1>1, <1>2, <2>1
<1> USE DEF Worker, Parts, HasOffset, HasLength, HasDirection
<1>4. ASSUME NEW m \in HasOffset \cup {"ended"}, i' = i,
             wpc' = [wpc EXCEPT ![t] = m], m \in HasOffset => i[t] < Count(trace)
      PROVE  ReplayState'
  BY <1>1, <1>4 DEF ReplayState
<1>5. CASE TakeOffset(t)
  <2>1. /\ i' = i /\ wpc[t] = "next" /\ wpc' = [wpc EXCEPT ![t] = "len"]
        /\ i[t] < Count(trace)
        /\ off_cnt' = off_cnt + 1 /\ UNCHANGED <<len_cnt, iodir_cnt>>
    BY <1>5 DEF TakeOffset
  <2>2. Cardinality(Taken(HasOffset)') = Cardinality(Taken(HasOffset)) + 1
    BY <1>1, <2>1, TakeOne
  <2>3. \A B \in {HasLength, HasDirection} : Taken(B)' = Taken(B)
    BY <1>1, <2>1, TakeNone DEF ReplayState
  <2>4. QED
    BY <1>2, <1>4, <2>1, <2>2, <2>3 DEF Counted
<1>6. CASE TakeLength(t)
  <2>1. /\ i' = i /\ wpc[t] = "len" /\ wpc' = [wpc EXCEPT ![t] = "dir"]
        /\ i[t] < Count(trace)
        /\ len_cnt' = len_cnt + 1 /\ UNCHANGED <<off_cnt, iodir_cnt>>
    BY <1>1, <1>6 DEF TakeLength, ReplayState
  <2>2. Cardinality(Taken(HasLength)') = Cardinality(Taken(HasLength)) + 1
    BY <1>1, <2>1, TakeOne
  <2>3. \A B \in {HasOffset, HasDirection} : Taken(B)' = Taken(B)
    BY <1>1, <2>1, TakeNone DEF ReplayState
  <2>4. QED
    BY <1>2, <1>4, <2>1, <2>2, <2>3 DEF Counted
<1>7. CASE TakeDirection(t)
  <2>1. /\ i' = i /\ wpc[t] = "dir" /\ wpc' = [wpc EXCEPT ![t] = "serve"]
        /\ i[t] < Count(trace)
        /\ iodir_cnt' = iodir_cnt + 1 /\ UNCHANGED <<off_cnt, len_cnt>>
    BY <1>1, <1>7 DEF TakeDirection, ReplayState
  <2>2. Cardinality(Taken(HasDirection)') = Cardinality(Taken(HasDirection)) + 1
    BY <1>1, <2>1, TakeOne
  <2>3. \A B \in {HasOffset, HasLength} : Taken(B)' = Taken(B)
    BY <1>1, <2>1, TakeNone DEF ReplayState
  <2>4. QED
    BY <1>2, <1>4, <2>1, <2>2, <2>3 DEF Counted
<1>8. CASE Serve_st(t) \/ Serve_md(t)
  <2>1. /\ i' = i /\ wpc[t] = "serve" /\ wpc' = [wpc EXCEPT ![t] = "count"]
        /\ i[t] < Count(trace) /\ UNCHANGED cursors
    BY <1>1, <1>8 DEF Serve_st, Serve_md, ReplayState
  <2>2. \A B \in Parts : Taken(B)' = Taken(B)
    BY <1>1, <2>1, TakeNone DEF ReplayState
  <2>3. QED
    BY <1>2, <1>4, <2>1, <2>2, SameCount
<1>9. CASE CountIO(t)
  <2>1. /\ i' = [i EXCEPT ![t] = @ + 1] /\ wpc[t] = "count"
        /\ wpc' = [wpc EXCEPT ![t] = "next"] /\ UNCHANGED cursors
    BY <1>9 DEF CountIO
  <2>2. \A B \in Parts : Taken(B)' = Taken(B)
    BY <1>1, <1>3, <2>1, TakeEnd
  <2>3. ReplayState'
    BY <1>1, <2>1 DEF ReplayState
  <2>4. QED
    BY <1>2, <2>1, <2>2, <2>3, SameCount
<1>10. CASE EndWorker(t)
  <2>1. /\ i' = i /\ wpc[t] = "next" /\ wpc' = [wpc EXCEPT ![t] = "ended"]
        /\ UNCHANGED cursors
    BY <1>10 DEF EndWorker
  <2>2. \A B \in Parts : Taken(B)' = Taken(B)
    BY <1>1, <2>1, TakeNone DEF ReplayState
  <2>3. QED
    BY <1>2, <1>4, <2>1, <2>2, SameCount
<1>11. QED
  BY <1>5, <1>6, <1>7, <1>8, <1>9, <1>10 DEF worker_run

LEMMA FailStep ==
  ASSUME CursorInv, program \in TracePrograms, NEW t \in Threads, Failing(t)
  PROVE  CursorInv'
<1>1. Idle'
  BY DEF Failing, Idle
<1>2. ReplayState'
  BY DEF Failing, CursorInv, ReplayState, HasOffset
<1>3. TraceInv'
  BY DEF Failing, CursorInv, TraceInv
<1>4. QED
  BY <1>1, <1>2, <1>3 DEF Failing, CursorInv, Replaying

LEMMA CursorStep == CursorInv /\ [Next]_vars => CursorInv'
<1> SUFFICES ASSUME CursorInv, [Next]_vars PROVE CursorInv'
  OBVIOUS
<1>1. CASE program \in TracePrograms
  <2>1. CASE Aside
    <3>1. UNCHANGED <<program, mpc, wpc, i, traces, line, trace, cursors>>
      BY <2>1 DEF Aside, trace_vars
    <3>2. Counted => Counted'
      BY <3>1, SamePlaces, SameCount
    <3>3. QED
      BY <1>1, <3>1, <3>2, SamePlaces DEF CursorInv, TraceInv, ReplayState, Replaying
  <2>2. QED
    BY <1>1, <2>1, ReplaySteps, MainStep, WorkerStep, FailureEnds, FailStep
<1>2. CASE program \notin TracePrograms
  BY <1>2, OtherSteps DEF CursorInv, trace_vars, cursors
<1>3. QED
  BY <1>1, <1>2

LEMMA CursorStart == Init => CursorInv
<1> SUFFICES ASSUME Init PROVE CursorInv
  OBVIOUS
<1>1. /\ program \in TARGET /\ mpc = "start"
      /\ wpc = [t \in Threads |-> "none"] /\ i = [t \in Threads |-> 0]
      /\ traces = 0 /\ line = 0 /\ trace = <<>>
      /\ off_cnt = 0 /\ len_cnt = 0 /\ iodir_cnt = 0
  BY DriversAssumption DEF Init, ReplayInit, SharedInit, TraceInit
<1>2. Idle
  BY <1>1 DEF Idle
<1>3. Counted
  BY <1>1, <1>2, TakenNothing DEF Counted, Parts
<1>4. Len(trace) = 0
  BY <1>1
<1>5. Count(trace) \in Nat
  BY <1>4, SharesFit
<1>6. ReplayState
  BY <1>1, <1>4, <1>5 DEF ReplayState, HasOffset
<1>7. TraceInv
  BY <1>1 DEF TraceInv
<1>8. QED
  BY <1>1, <1>2, <1>3, <1>6, <1>7 DEF CursorInv, Replaying

LEMMA CursorInvariant == Spec => []CursorInv
  BY CursorStart, CursorStep, PTL DEF Spec

LEMMA CursorsFit == CursorInv => CursorsInTrace
<1> SUFFICES ASSUME CursorInv, mpc \in Replaying,
                    NEW c \in {off_cnt, len_cnt, iodir_cnt}
             PROVE  c <= Len(trace)
  BY DEF CursorsInTrace, Replaying
<1>1. CASE program \in TracePrograms
  <2>1. ReplayState /\ Counted
    BY <1>1 DEF CursorInv
  <2>2. Parts \subseteq SUBSET HasOffset
    BY DEF Parts, HasOffset, HasLength, HasDirection
  <2>3. PICK B \in Parts : c = Cardinality(Taken(B))
    BY <2>1 DEF Counted, Parts
  <2>4. QED
    BY <2>1, <2>2, <2>3, TakenFits
<1>2. CASE program \notin TracePrograms
  BY <1>2 DEF CursorInv
<1>3. QED
  BY <1>1, <1>2

(* No worker reads past the end of a vector of a trace: though no worker   *)
(* looks at a cursor before it takes from it, all their shares together    *)
(* fit the trace.                                                          *)
THEOREM CursorsStayInTrace == Spec => []CursorsInTrace
  BY CursorsFit, CursorInvariant, PTL

-----------------------------------------------------------------------------
(* The samples of the collector.                                           *)

Collected == {"w", "r", "n"}
FirstLoads == {"firstw", "firstr", "firstn"}
Looping == {"flag", "w", "r", "n", "sample", "totals", "ended"}

Requests == [off : Int, len : Int, dir : Int]

(* What a replay's worker has taken, and what a thread of load serves.     *)
LengthInv ==
  /\ program \in TracePrograms =>
       /\ req \in [Threads -> Requests]
       /\ \A t \in Threads :
            /\ wpc[t] \in HasOffset \ {"count"} => req[t].off \in 1 .. Len(trace)
            /\ wpc[t] \in HasLength \ {"count"} => req[t].len \in 1 .. Len(trace)
            /\ wpc[t] = "serve" => req[t].dir \in 1 .. Len(trace)
  /\ program = "load" => iosize \in [Threads -> Nat]

LoadsInv ==
  /\ {DATA_WRITTEN, DATA_READ, IOCOUNT} \subseteq Nat
  /\ now \in [Collected -> Nat] /\ last \in [Collected -> Nat]
  /\ first \in [Collected -> Nat] /\ sums \in [Collected \cup {"a"} -> Int]
  /\ cpc \in {"none"} \cup FirstLoads \cup Looping

Loaded ==
  /\ cpc \notin {"none", "firstw"} => now.w <= DATA_WRITTEN
  /\ cpc \notin {"none", "firstw", "firstr"} => now.r <= DATA_READ
  /\ cpc \notin {"none"} \cup FirstLoads => now.n <= IOCOUNT

Summed ==
  /\ \A f \in Fields(program) \ {"a"} : sums[f] = last[f] - first[f]
  /\ sums.a = last.w - first.w + last.r - first.r
  /\ last.w <= DATA_WRITTEN /\ last.r <= DATA_READ /\ last.n <= IOCOUNT

CollectInv ==
  /\ LoadsInv /\ Loaded
  /\ cpc # "none" => mpc \in {"join", "joincollector"}
  /\ mpc \in {"start", "read", "threads", "collect"} => sums = NoSums
  /\ cpc \in FirstLoads => sums = NoSums
  /\ cpc \in Looping => Summed

SampleInv ==
  /\ CursorInv /\ LengthInv
  /\ program \in BenchPrograms => cpc = "none"
  /\ program \notin BenchPrograms => CollectInv

-----------------------------------------------------------------------------
(* The steps of a program that has a collector.                            *)

Waiting == UNCHANGED <<program, Collector_endflag, cpc, now, last, first, item>>

(* A thread's step: a counter may grow.                                    *)
Growing ==
  /\ Waiting /\ UNCHANGED mpc
  /\ \E n \in Nat : \/ DATA_WRITTEN' = DATA_WRITTEN + n /\ UNCHANGED <<DATA_READ, IOCOUNT>>
                    \/ DATA_READ' = DATA_READ + n /\ UNCHANGED <<DATA_WRITTEN, IOCOUNT>>
                    \/ IOCOUNT' = IOCOUNT + n /\ UNCHANGED <<DATA_WRITTEN, DATA_READ>>

LEMMA GrowingStep == CollectInv /\ Growing => CollectInv'
<1> SUFFICES ASSUME CollectInv, Growing PROVE CollectInv'
  OBVIOUS
<1> USE DEF CollectInv, item
<1>1. UNCHANGED <<program, mpc, cpc, now, last, first, sums>>
  BY DEF Growing, Waiting
<1>2. /\ {DATA_WRITTEN', DATA_READ', IOCOUNT'} \subseteq Nat
      /\ DATA_WRITTEN <= DATA_WRITTEN' /\ DATA_READ <= DATA_READ'
      /\ IOCOUNT <= IOCOUNT'
  BY DEF Growing, LoadsInv
<1>3. LoadsInv'
  BY <1>1, <1>2 DEF LoadsInv
<1>4. {now.w, now.r, now.n, last.w, last.r, last.n} \subseteq Nat
  BY DEF LoadsInv, Collected
<1>5. Loaded'
  BY <1>1, <1>2, <1>4 DEF LoadsInv, Loaded
<1>6. cpc \in Looping => Summed'
  BY <1>1, <1>2, <1>4 DEF LoadsInv, Summed
<1>7. QED
  BY <1>1, <1>3, <1>5, <1>6

(* The collector's own steps.                                              *)
LEMMA CollectorSteps ==
  ASSUME CollectInv, program \notin BenchPrograms, program \in TARGET, CollectorStep
  PROVE  CollectInv' /\ UNCHANGED <<program, mpc>>
<1>1. /\ LoadFirst \/ CheckFlag \/ LoadCounter \/ Sample(Fields(program))
         \/ Totals(TRUE) \/ Totals(FALSE)
      /\ UNCHANGED <<program, mpc, DATA_WRITTEN, DATA_READ, IOCOUNT>>
  BY DEF CollectorStep, collector_run_st, collector_run_md, collector_run_load,
         collector_run, shared_vars, counters
<1>2. Fields(program)' = Fields(program)
  BY <1>1 DEF Fields
<1>3. Fields(program) \ {"a"} \subseteq Collected
  BY DEF Fields, Collected
<1> USE DEF CollectInv, FirstLoads, Looping, item
<1>4. {now.w, now.r, now.n, last.w, last.r, last.n, first.w, first.r, first.n}
        \subseteq Nat
  BY DEF LoadsInv, Collected
<1>5. cpc # "none" /\ mpc \in {"join", "joincollector"}
  BY <1>1 DEF LoadFirst, CheckFlag, LoadCounter, Sample, Totals, Load
<1>6. CASE LoadFirst
  <2>1. CASE cpc = "firstw"
    <3>1. now' = [now EXCEPT !["w"] = DATA_WRITTEN] /\ cpc' = "firstr"
          /\ UNCHANGED <<last, first, sums>>
      BY <1>6, <2>1 DEF LoadFirst, Load
    <3>2. LoadsInv' /\ Loaded' /\ sums = NoSums
      BY <1>1, <2>1, <3>1 DEF LoadsInv, Loaded, Collected
    <3>3. QED
      BY <1>1, <1>5, <3>1, <3>2
  <2>2. CASE cpc = "firstr"
    <3>1. now' = [now EXCEPT !["r"] = DATA_READ] /\ cpc' = "firstn"
          /\ UNCHANGED <<last, first, sums>>
      BY <1>6, <2>2 DEF LoadFirst, Load
    <3>2. LoadsInv' /\ Loaded' /\ sums = NoSums
      BY <1>1, <2>2, <3>1 DEF LoadsInv, Loaded, Collected
    <3>3. QED
      BY <1>1, <1>5, <3>1, <3>2
  <2>3. CASE cpc = "firstn"
    <3>1. now' = [now EXCEPT !["n"] = IOCOUNT] /\ cpc' = "flag"
          /\ last' = now' /\ first' = now' /\ UNCHANGED sums
      BY <1>6, <2>3 DEF LoadFirst, Load
    <3>2. LoadsInv' /\ Loaded' /\ sums = NoSums
      BY <1>1, <2>3, <3>1 DEF LoadsInv, Loaded, Collected
    <3>3. Summed'
      <4>1. now'.w <= DATA_WRITTEN /\ now'.r <= DATA_READ /\ now'.n <= IOCOUNT
        BY <1>1, <3>1, <3>2 DEF Loaded
      <4>2. now'.w \in Nat /\ now'.r \in Nat /\ now'.n \in Nat
        BY <3>2 DEF LoadsInv, Collected
      <4>3. \A f \in Collected \cup {"a"} : sums[f] = 0
        BY <3>2 DEF NoSums, Collected
      <4>4. QED
        BY <1>1, <1>2, <1>3, <3>1, <4>1, <4>2, <4>3 DEF Summed, Collected
    <3>4. QED
      BY <1>1, <1>5, <3>1, <3>2, <3>3
  <2>4. QED
    BY <1>6, <2>1, <2>2, <2>3 DEF LoadFirst, Load
<1>7. CASE CheckFlag \/ Totals(TRUE) \/ Totals(FALSE)
  <2>1. /\ UNCHANGED <<now, last, first, sums>>
        /\ cpc \in {"flag", "totals"} /\ cpc' \in {"totals", "w", "ended"}
    BY <1>7 DEF CheckFlag, Totals
  <2>2. LoadsInv' /\ Loaded' /\ Summed'
    BY <1>1, <1>2, <2>1 DEF LoadsInv, Loaded, Summed
  <2>3. QED
    BY <1>1, <1>5, <2>1, <2>2
<1>8. CASE LoadCounter
  <2>1. /\ UNCHANGED <<last, first, sums>> /\ cpc \in {"w", "r", "n"}
        /\ cpc' \in {"r", "n", "sample"}
        /\ \/ now' = [now EXCEPT !["w"] = DATA_WRITTEN]
           \/ now' = [now EXCEPT !["r"] = DATA_READ]
           \/ now' = [now EXCEPT !["n"] = IOCOUNT]
    BY <1>8 DEF LoadCounter, Load
  <2>2. LoadsInv' /\ Loaded'
    BY <1>1, <2>1 DEF LoadsInv, Loaded, Collected
  <2>3. Summed'
    BY <1>1, <1>2, <2>1 DEF Summed
  <2>4. QED
    BY <1>1, <1>5, <2>1, <2>2, <2>3
<1>9. CASE Sample(Fields(program))
  <2>1. /\ cpc = "sample" /\ cpc' = "flag" /\ last' = now
        /\ UNCHANGED <<now, first>>
    BY <1>9 DEF Sample
  <2>2. DOMAIN sums = Collected \cup {"a"}
    BY DEF LoadsInv
  <2>3. "a" \in Fields(program)
    BY DEF Fields
  <2>4. sums' = [f \in Collected \cup {"a"} |->
                   IF f \in Fields(program) THEN sums[f] + Grown(f) ELSE sums[f]]
    BY <1>9, <2>2 DEF Sample
  <2>5. /\ \A f \in Fields(program) \ {"a"} : sums'[f] = sums[f] + (now[f] - last[f])
        /\ sums'["a"] = sums["a"] + (now.w - last.w + now.r - last.r)
    BY <1>3, <2>3, <2>4 DEF Grown
  <2>6. \A f \in Collected : now[f] \in Nat /\ last[f] \in Nat /\ first[f] \in Nat
    BY DEF LoadsInv
  <2>7. Summed
    BY <2>1
  <2>8. sums' \in [Collected \cup {"a"} -> Int]
    <3>1. \A f \in Collected \cup {"a"} : sums[f] \in Int
      BY DEF LoadsInv
    <3>2. QED
      BY <1>4, <2>4, <2>6, <3>1 DEF Collected, Grown
  <2>9. LoadsInv' /\ Loaded'
    BY <1>1, <2>1, <2>8 DEF LoadsInv, Loaded
  <2>10. \A f \in Fields(program) \ {"a"} : sums'[f] = last'[f] - first'[f]
    BY <1>3, <2>1, <2>5, <2>6, <2>7 DEF Summed
  <2>11. sums'["a"] = last'.w - first'.w + last'.r - first'.r
    BY <1>4, <2>1, <2>5, <2>7 DEF Summed
  <2>12. last'.w <= DATA_WRITTEN /\ last'.r <= DATA_READ /\ last'.n <= IOCOUNT
    BY <2>1 DEF Loaded
  <2>13. Summed'
    BY <1>1, <1>2, <2>10, <2>11, <2>12 DEF Summed
  <2>14. QED
    BY <1>1, <1>5, <2>1, <2>9, <2>13
<1>10. QED
  BY <1>1, <1>6, <1>7, <1>8, <1>9

(* The steps of main.                                                      *)
LEMMA MainCollects ==
  ASSUME CollectInv, UNCHANGED program,
         \/ /\ UNCHANGED <<counters, cpc, now, last, first, item>>
            /\ mpc' \in {"start", "read", "threads", "collect"} =>
                 mpc \in {"start", "read", "threads", "collect"}
            /\ mpc \in {"join", "joincollector"} => mpc' \in {"join", "joincollector"}
         \/ StartCollector
         \/ JoinCollector
         \/ /\ mpc = "print" /\ mpc' # "join"
            /\ ResetCounters /\ UNCHANGED <<cpc, now, last, first, item>>
            /\ mpc' = "done"
         \/ mpc = "print" /\ mpc' = "start" /\ ResetReplay
  PROVE  CollectInv'
<1> USE DEF CollectInv, FirstLoads, Looping, item, counters
<1>1. CASE /\ UNCHANGED <<counters, cpc, now, last, first, item>>
           /\ mpc' \in {"start", "read", "threads", "collect"} =>
                mpc \in {"start", "read", "threads", "collect"}
           /\ mpc \in {"join", "joincollector"} => mpc' \in {"join", "joincollector"}
  <2>1. (LoadsInv' <=> LoadsInv) /\ (Loaded' <=> Loaded) /\ (Summed' <=> Summed)
    BY <1>1 DEF LoadsInv, Loaded, Summed, Fields
  <2>2. QED
    BY <1>1, <2>1
<1>2. CASE StartCollector
  <2>1. /\ mpc = "collect" /\ mpc' = "join" /\ cpc' = "firstw" /\ sums = NoSums
        /\ UNCHANGED <<counters, now, last, first, item>>
    BY <1>2 DEF StartCollector, Main
  <2>2. LoadsInv' /\ Loaded'
    BY <2>1 DEF LoadsInv, Loaded
  <2>3. QED
    BY <2>1, <2>2 DEF NoSums
<1>3. CASE JoinCollector
  <2>1. /\ mpc' = "print" /\ cpc' = "none"
        /\ UNCHANGED <<counters, now, last, first, item>>
    BY <1>3 DEF JoinCollector, Main
  <2>2. LoadsInv' /\ Loaded'
    BY <2>1 DEF LoadsInv, Loaded
  <2>3. QED
    BY <2>1, <2>2
<1>4. CASE /\ mpc = "print" /\ mpc' # "join"
           /\ ResetCounters /\ UNCHANGED <<cpc, now, last, first, item>>
           /\ mpc' = "done"
  <2>1. LoadsInv' /\ Loaded' /\ cpc' = "none"
    BY <1>4 DEF LoadsInv, Loaded, ResetCounters
  <2>2. QED
    BY <1>4, <2>1
<1>5. CASE mpc = "print" /\ mpc' = "start" /\ ResetReplay
  <2>1. /\ cpc' = "none" /\ sums' = NoSums
        /\ DATA_WRITTEN' = 0 /\ DATA_READ' = 0 /\ IOCOUNT' = 0
        /\ now' = Zero /\ last' = Zero /\ first' = Zero
    BY <1>5 DEF ResetReplay, ResetCounters, NewItem
  <2>2. NoSums \in [Collected \cup {"a"} -> Int] /\ Zero \in [Collected -> Nat]
    BY DEF NoSums, Zero, Collected
  <2>3. LoadsInv' /\ Loaded'
    BY <2>1, <2>2 DEF LoadsInv, Loaded
  <2>4. QED
    BY <1>5, <2>1, <2>3 DEF NoSums
<1>6. QED
  BY <1>1, <1>2, <1>3, <1>4, <1>5

-----------------------------------------------------------------------------
(* The steps of the replays.                                               *)

LEMMA CursorsFitNext == CursorInv' => CursorsInTrace'
  BY CursorsFit, PTL

(* A worker takes a part of its request.                                   *)
LEMMA TakeOffsetPart ==
  ASSUME req \in [Threads -> Requests], NEW t \in Threads, NEW n \in Int,
         req' = [req EXCEPT ![t].off = n]
  PROVE  /\ req' \in [Threads -> Requests]
         /\ \A u \in Threads \ {t} : req'[u] = req[u]
         /\ req'[t].off = n /\ req'[t].len = req[t].len /\ req'[t].dir = req[t].dir
<1>1. PICK r : req' = [req EXCEPT ![t] = r] /\ r = [req[t] EXCEPT !.off = n]
  OBVIOUS
<1>2. req[t] \in Requests
  OBVIOUS
<1>3. r \in Requests /\ r.off = n /\ r.len = req[t].len /\ r.dir = req[t].dir
  BY <1>1, <1>2 DEF Requests
<1>4. /\ req' \in [Threads -> Requests] /\ req'[t] = r
      /\ \A u \in Threads \ {t} : req'[u] = req[u]
  BY <1>1, <1>3
<1>5. QED
  BY <1>3, <1>4

LEMMA TakeLengthPart ==
  ASSUME req \in [Threads -> Requests], NEW t \in Threads, NEW n \in Int,
         req' = [req EXCEPT ![t].len = n]
  PROVE  /\ req' \in [Threads -> Requests]
         /\ \A u \in Threads \ {t} : req'[u] = req[u]
         /\ req'[t].len = n /\ req'[t].off = req[t].off /\ req'[t].dir = req[t].dir
<1>1. PICK r : req' = [req EXCEPT ![t] = r] /\ r = [req[t] EXCEPT !.len = n]
  OBVIOUS
<1>2. req[t] \in Requests
  OBVIOUS
<1>3. r \in Requests /\ r.len = n /\ r.off = req[t].off /\ r.dir = req[t].dir
  BY <1>1, <1>2 DEF Requests
<1>4. /\ req' \in [Threads -> Requests] /\ req'[t] = r
      /\ \A u \in Threads \ {t} : req'[u] = req[u]
  BY <1>1, <1>3
<1>5. QED
  BY <1>3, <1>4

LEMMA TakeDirectionPart ==
  ASSUME req \in [Threads -> Requests], NEW t \in Threads, NEW n \in Int,
         req' = [req EXCEPT ![t].dir = n]
  PROVE  /\ req' \in [Threads -> Requests]
         /\ \A u \in Threads \ {t} : req'[u] = req[u]
         /\ req'[t].dir = n /\ req'[t].off = req[t].off /\ req'[t].len = req[t].len
<1>1. PICK r : req' = [req EXCEPT ![t] = r] /\ r = [req[t] EXCEPT !.dir = n]
  OBVIOUS
<1>2. req[t] \in Requests
  OBVIOUS
<1>3. r \in Requests /\ r.dir = n /\ r.off = req[t].off /\ r.len = req[t].len
  BY <1>1, <1>2 DEF Requests
<1>4. /\ req' \in [Threads -> Requests] /\ req'[t] = r
      /\ \A u \in Threads \ {t} : req'[u] = req[u]
  BY <1>1, <1>3
<1>5. QED
  BY <1>3, <1>4

LEMMA ReplayGrows ==
  ASSUME SampleInv, program \in TracePrograms, NEW t \in Threads, worker_run(t)
  PROVE  Growing /\ LengthInv'
<1>1. CursorInv' /\ ReplayState /\ ReplayState'
  <2>1. UNCHANGED program
    BY DEF worker_run, program_vars
  <2>2. QED
    BY <2>1, WorkerStep DEF SampleInv, CursorInv
<1>2. /\ UNCHANGED <<program, mpc, traces, line, trace>> /\ Waiting
  BY DEF worker_run, program_vars, Waiting
<1>3. LengthInv /\ program # "load"
  BY DEF SampleInv, TracePrograms
<1>4. wpc[t] # "none" /\ mpc \in Replaying /\ Counted
  <2>1. wpc[t] # "none"
    BY DEF worker_run, TakeOffset, TakeLength, TakeDirection,
           Serve_st, Serve_md, CountIO, EndWorker, Worker
  <2>2. QED
    BY <2>1 DEF SampleInv, CursorInv, Idle
<1>5. {off_cnt, len_cnt, iodir_cnt} \subseteq Nat
  <2>1. \A B \in Parts : Cardinality(Taken(B)) \in Nat
    BY <1>1, TakenFits DEF Parts, HasOffset, HasLength, HasDirection
  <2>2. QED
    BY <1>4, <2>1 DEF Counted, Parts
<1>6. \A u \in Threads : wpc[u] \in {"dir", "serve"} => Length(u) \in Nat
  BY <1>1, <1>3 DEF LengthInv, ReplayState, Length, HasLength
<1>7. LengthInv'
  <2>a. CursorsInTrace'
    BY <1>1, CursorsFitNext
  <2>b. /\ off_cnt' <= Len(trace) /\ len_cnt' <= Len(trace)
        /\ iodir_cnt' <= Len(trace) /\ Len(trace) \in Nat /\ wpc \in [Threads -> {"none", "next", "ended"} \cup HasOffset]
    BY <1>1, <1>2, <1>4, <2>a DEF CursorsInTrace, Replaying, ReplayState
  <2> USE DEF HasOffset, HasLength
  <2>1. CASE TakeLength(t)
    <3>1. /\ req' = [req EXCEPT ![t].len = len_cnt + 1] /\ wpc[t] = "len"
          /\ wpc' = [wpc EXCEPT ![t] = "dir"] /\ len_cnt' = len_cnt + 1
      BY <2>1 DEF TakeLength, Worker
    <3>2. len_cnt + 1 \in Int /\ len_cnt + 1 \in 1 .. Len(trace)
      BY <1>5, <2>b, <3>1
    <3>3. /\ req' \in [Threads -> Requests]
          /\ \A u \in Threads \ {t} : req'[u] = req[u]
          /\ req'[t].len = len_cnt + 1 /\ req'[t].off = req[t].off
      BY <1>3, <3>1, <3>2, TakeLengthPart DEF LengthInv
    <3>4. QED
      BY <1>2, <1>3, <2>b, <3>1, <3>2, <3>3 DEF LengthInv
  <2>2. CASE TakeOffset(t)
    <3>1. /\ req' = [req EXCEPT ![t].off = off_cnt + 1]
          /\ wpc' = [wpc EXCEPT ![t] = "len"] /\ off_cnt' = off_cnt + 1
      BY <2>2 DEF TakeOffset, Worker
    <3>2. off_cnt + 1 \in Int /\ off_cnt + 1 \in 1 .. Len(trace)
      BY <1>5, <2>b, <3>1
    <3>3. /\ req' \in [Threads -> Requests]
          /\ \A u \in Threads \ {t} : req'[u] = req[u]
          /\ req'[t].off = off_cnt + 1
      BY <1>3, <3>1, <3>2, TakeOffsetPart DEF LengthInv
    <3>4. QED
      BY <1>2, <1>3, <2>b, <3>1, <3>2, <3>3 DEF LengthInv
  <2>3. CASE TakeDirection(t)
    <3>1. /\ req' = [req EXCEPT ![t].dir = iodir_cnt + 1] /\ wpc[t] = "dir"
          /\ wpc' = [wpc EXCEPT ![t] = "serve"] /\ iodir_cnt' = iodir_cnt + 1
      BY <2>3 DEF TakeDirection, Worker
    <3>2. iodir_cnt + 1 \in Int /\ iodir_cnt + 1 \in 1 .. Len(trace)
      BY <1>5, <2>b, <3>1
    <3>3. /\ req' \in [Threads -> Requests]
          /\ \A u \in Threads \ {t} : req'[u] = req[u]
          /\ req'[t].off = req[t].off /\ req'[t].len = req[t].len
          /\ req'[t].dir = iodir_cnt + 1
      BY <1>3, <3>1, <3>2, TakeDirectionPart DEF LengthInv
    <3>4. QED
      BY <1>2, <1>3, <2>b, <3>1, <3>2, <3>3 DEF LengthInv
  <2>4. CASE Serve_st(t) \/ Serve_md(t) \/ CountIO(t)
    BY <1>1, <1>2, <1>3, <2>4
       DEF LengthInv, ReplayState, Serve_st, Serve_md, CountIO, Worker
  <2>5. CASE EndWorker(t)
    <3>1. NoReq \in Requests
      BY DEF NoReq, Requests
    <3>2. req' \in [Threads -> Requests] /\ \A u \in Threads : u # t => req'[u] = req[u]
      BY <1>3, <2>5, <3>1 DEF EndWorker, LengthInv
    <3>3. QED
      BY <1>1, <1>2, <1>3, <2>5, <3>2 DEF LengthInv, ReplayState, EndWorker, Worker
  <2>6. QED
    BY <2>1, <2>2, <2>3, <2>4, <2>5 DEF worker_run
<1>8. Growing
  <2> USE DEF Growing
  <2>1. CASE Serve_st(t) \/ Serve_md(t)
    <3>1. wpc[t] = "serve" /\ Served(t, Length(t))
      BY <2>1 DEF Serve_st, Serve_md, Worker
    <3>2. Length(t) \in Nat
      BY <1>6, <3>1
    <3>3. QED
      BY <1>2, <3>1, <3>2 DEF Served
  <2>2. CASE CountIO(t)
    BY <1>2, <2>2 DEF CountIO
  <2>3. CASE TakeOffset(t) \/ TakeLength(t) \/ TakeDirection(t) \/ EndWorker(t)
    <3>1. UNCHANGED counters
      BY <2>3 DEF TakeOffset, TakeLength, TakeDirection, EndWorker
    <3>2. IOCOUNT' = IOCOUNT + 0 /\ UNCHANGED <<DATA_WRITTEN, DATA_READ>>
      <4>1. CollectInv
        BY DEF SampleInv, BenchPrograms, TracePrograms
      <4>2. QED
        BY <3>1, <4>1 DEF CollectInv, LoadsInv, counters
    <3>3. QED
      BY <1>2, <3>2
  <2>4. QED
    BY <2>1, <2>2, <2>3 DEF worker_run
<1>9. QED
  BY <1>7, <1>8

LEMMA ReplayMainStep ==
  ASSUME SampleInv, program \in TracePrograms, ReplayMain
  PROVE  CollectInv' /\ LengthInv' /\ UNCHANGED program
<1>1. UNCHANGED program
  BY DEF ReplayMain, NewTrace, ReadLine, EndOfFile_st, EndOfFile_md, NoMoreTraces, StartWorker,
         EndOfFile, CollectorMain, StartCollector, JoinWorkers, JoinCollector,
         Print_st, Print_md, PrintCDF, Main
<1>2. CollectInv /\ LengthInv /\ CursorInv /\ ReplayState
  BY DEF SampleInv, BenchPrograms, TracePrograms, CursorInv
<1>3. program' # "load"
  BY <1>1 DEF TracePrograms
<1> USE DEF item, collector_vars, Main
<1>4. LengthInv'
  <2>1. CASE /\ UNCHANGED <<trace, req>>
             /\ \A t \in Threads : wpc'[t] \in HasOffset => wpc'[t] = wpc[t]
    BY <1>1, <1>2, <1>3, <2>1 DEF LengthInv, HasOffset, HasLength
  <2>2. CASE NewTrace \/ ReadLine \/ EndOfFile_st \/ EndOfFile_md
    <3>1. Idle /\ UNCHANGED <<wpc, req>>
      BY <1>2, <2>2 DEF NewTrace, ReadLine, EndOfFile_st, EndOfFile_md,
         EndOfFile, trace_vars, CursorInv, Replaying
    <3>2. QED
      BY <1>1, <1>2, <1>3, <3>1 DEF LengthInv, Idle, HasOffset, HasLength
  <2>3. CASE NoMoreTraces \/ ((StartCollector \/ JoinCollector) /\ UNCHANGED trace_vars)
    BY <2>1, <2>3 DEF NoMoreTraces, StartCollector, JoinCollector, trace_vars
  <2>4. CASE StartWorker
    <3>1. \E t \in Threads : wpc' = [wpc EXCEPT ![t] = "next"]
      BY <2>4 DEF StartWorker, Worker
    <3>2. UNCHANGED <<trace, req>>
      BY <2>4 DEF StartWorker, trace_vars
    <3>3. QED
      BY <1>2, <2>1, <3>1, <3>2 DEF ReplayState, HasOffset
  <2>5. CASE JoinWorkers /\ UNCHANGED trace_vars
    BY <2>1, <2>5 DEF JoinWorkers, trace_vars, HasOffset
  <2>6. CASE Print_st \/ Print_md
    <3>1. UNCHANGED <<wpc, trace, req>>
      BY <2>6 DEF Print_st, Print_md, PrintCDF, ResetReplay, trace_vars
    <3>2. QED
      BY <2>1, <3>1
  <2>7. QED
    BY <2>2, <2>3, <2>4, <2>5, <2>6 DEF ReplayMain, CollectorMain
<1>5. CollectInv'
  <2>1. CASE NewTrace \/ ReadLine \/ EndOfFile_st \/ EndOfFile_md
    <3>1. /\ UNCHANGED <<counters, cpc, now, last, first, item>>
          /\ mpc \in {"start", "read"} /\ mpc' \in {"read", "threads", "aborted"}
      BY <2>1 DEF NewTrace, ReadLine, EndOfFile_st, EndOfFile_md, EndOfFile
    <3>2. QED
      BY <1>1, <1>2, <3>1, MainCollects
  <2>2. CASE NoMoreTraces
    <3>1. /\ UNCHANGED <<counters, cpc, now, last, first, item>>
          /\ mpc = "start" /\ mpc' = "done"
      BY <2>2 DEF NoMoreTraces
    <3>2. QED
      BY <1>1, <1>2, <3>1, MainCollects
  <2>3. CASE StartWorker
    <3>1. /\ UNCHANGED <<counters, cpc, now, last, first, item>>
          /\ mpc = "threads" /\ mpc' \in {"threads", "collect"}
      BY <2>3 DEF StartWorker
    <3>2. QED
      BY <1>1, <1>2, <3>1, MainCollects
  <2>4. CASE StartCollector \/ JoinCollector
    BY <1>1, <1>2, <2>4, MainCollects
  <2>5. CASE JoinWorkers
    <3>1. /\ UNCHANGED <<counters, cpc, now, last, first, item>>
          /\ mpc = "join" /\ mpc' = "joincollector"
      BY <2>5 DEF JoinWorkers
    <3>2. QED
      BY <1>1, <1>2, <3>1, MainCollects
  <2>6. ASSUME mpc = "print", mpc' = "start", ResetReplay
        PROVE  CollectInv'
    BY <1>1, <1>2, <2>6, MainCollects
  <2>7. ASSUME mpc = "print", mpc' = "aborted", UNCHANGED collector_vars
        PROVE  CollectInv'
    BY <1>1, <1>2, <2>7, MainCollects
  <2>8. CASE Print_st \/ Print_md
    BY <2>6, <2>7, <2>8 DEF Print_st, Print_md, PrintCDF
  <2>9. QED
    BY <2>1, <2>2, <2>3, <2>4, <2>5, <2>8 DEF ReplayMain, CollectorMain
<1>6. QED
  BY <1>1, <1>4, <1>5

-----------------------------------------------------------------------------
(* The steps of load.                                                      *)

LEMMA LoadGrows ==
  ASSUME SampleInv, program = "load", NEW t \in Threads, self_thread_worker(t)
  PROVE  Growing /\ LengthInv'
<1>1. CollectInv /\ LengthInv
  BY DEF SampleInv, BenchPrograms
<1>2. UNCHANGED <<program, mpc>> /\ Waiting
  BY DEF self_thread_worker, program_vars, Waiting
<1>3. program' \notin TracePrograms
  BY <1>2 DEF TracePrograms
<1>4. iosize[t] \in Nat /\ UNCHANGED iosize
  <2>1. UNCHANGED iosize
    BY DEF self_thread_worker, Write, Read, LoadRequest, SkipRead, CountRequest,
           StartLoop, ResetOffset, EndLoop, EndThread, worker_vars
  <2>2. QED
    BY <1>1, <2>1 DEF LengthInv
<1>5. LengthInv'
  BY <1>1, <1>2, <1>3, <1>4 DEF LengthInv
<1>6. CASE Write(t) \/ Read(t)
  <2>1. \/ DATA_WRITTEN' = DATA_WRITTEN + iosize[t] /\ UNCHANGED <<DATA_READ, IOCOUNT>>
        \/ DATA_READ' = DATA_READ + iosize[t] /\ UNCHANGED <<DATA_WRITTEN, IOCOUNT>>
    BY <1>6 DEF Write, Read, LoadRequest
  <2>2. QED
    BY <1>2, <1>4, <1>5, <2>1 DEF Growing
<1>7. CASE CountRequest(t)
  <2>1. IOCOUNT' = IOCOUNT + 1 /\ UNCHANGED <<DATA_WRITTEN, DATA_READ>>
    BY <1>7 DEF CountRequest
  <2>2. 1 \in Nat
    OBVIOUS
  <2>3. QED
    BY <1>2, <1>5, <2>1, <2>2 DEF Growing
<1>8. CASE UNCHANGED counters
  <2>1. IOCOUNT' = IOCOUNT + 0 /\ UNCHANGED <<DATA_WRITTEN, DATA_READ>>
    BY <1>1, <1>8 DEF CollectInv, LoadsInv, counters
  <2>2. 0 \in Nat
    OBVIOUS
  <2>3. QED
    BY <1>2, <1>5, <2>1, <2>2 DEF Growing
<1>9. QED
  BY <1>5, <1>6, <1>7, <1>8 DEF self_thread_worker, SkipRead

LEMMA LoadMainStep ==
  ASSUME SampleInv, program = "load", LoadMain
  PROVE  CollectInv' /\ LengthInv' /\ UNCHANGED program
<1>1. CollectInv /\ LengthInv
  BY DEF SampleInv, BenchPrograms
<1>2. UNCHANGED program
  BY DEF LoadMain, StartLoad, PrintNothing, PrintLoad, StartCollector,
         JoinWorkers, JoinCollector, Main
<1>3. program' \notin TracePrograms
  BY <1>2 DEF TracePrograms
<1> USE DEF item, collector_vars, Main
<1>4. CASE StartLoad
  <2>1. /\ UNCHANGED <<counters, cpc, now, last, first, item>>
        /\ mpc = "start" /\ mpc' = "collect"
    BY <1>4 DEF StartLoad
  <2>2. iosize' \in [Threads -> Nat]
    <3>1. WRITE_IOSIZE \in Nat /\ READ_IOSIZE \in Nat
      BY WorkloadAssumption
    <3>2. \A n : WriteInfo(n).io_size = WRITE_IOSIZE /\ ReadInfo(n).io_size = READ_IOSIZE
      BY DEF WriteInfo, ReadInfo
    <3>3. iosize' = [t \in Threads |->
                       (IF t \in Writers THEN WriteInfo(t)
                        ELSE ReadInfo(t - WRITE_THREAD)).io_size]
      BY <1>4 DEF StartLoad, Create
    <3>4. QED
      BY <3>1, <3>2, <3>3
  <2>3. QED
    BY <1>1, <1>2, <1>3, <2>1, <2>2, MainCollects DEF LengthInv
<1>5. CASE PrintNothing
  <2>1. /\ UNCHANGED <<counters, cpc, now, last, first, item, iosize>>
        /\ mpc = "print" /\ mpc' = "aborted"
    BY <1>5 DEF PrintNothing, worker_vars
  <2>2. QED
    BY <1>1, <1>2, <1>3, <2>1, MainCollects DEF LengthInv
<1>6. CASE PrintLoad
  <2>1. /\ mpc = "print" /\ mpc' = "done" /\ ResetCounters
        /\ UNCHANGED <<cpc, now, last, first, item, iosize>>
    BY <1>6 DEF PrintLoad, worker_vars
  <2>2. QED
    BY <1>1, <1>2, <1>3, <2>1, MainCollects DEF LengthInv
<1>7. CASE (StartCollector \/ JoinCollector) /\ UNCHANGED worker_vars
  BY <1>1, <1>2, <1>3, <1>7, MainCollects DEF LengthInv, worker_vars
<1>8. CASE JoinWorkers /\ UNCHANGED worker_vars
  <2>1. /\ UNCHANGED <<counters, cpc, now, last, first, item, iosize>>
        /\ mpc = "join" /\ mpc' = "joincollector"
    BY <1>8 DEF JoinWorkers, worker_vars
  <2>2. QED
    BY <1>1, <1>2, <1>3, <2>1, MainCollects DEF LengthInv
<1>9. QED
  BY <1>4, <1>5, <1>6, <1>7, <1>8 DEF LoadMain

-----------------------------------------------------------------------------
(* The invariant is inductive.                                             *)

LEMMA Unmoved ==
  ASSUME CollectInv, UNCHANGED <<program, mpc, collector_vars>>
  PROVE  CollectInv'
  BY MainCollects DEF collector_vars, counters, item

LEMMA BenchWaits ==
  ASSUME program \in BenchPrograms, [Next]_vars
  PROVE  UNCHANGED <<program, cpc>>
<1>1. program \notin TracePrograms /\ program # "load"
  BY DEF BenchPrograms, TracePrograms
<1>2. UNCHANGED program
  BY <1>1, OtherSteps
<1>3. CASE Main_p
  <2>1. ~ReplayMain
    BY <1>1 DEF TracePrograms, ReplayMain, NewTrace, ReadLine, EndOfFile_st, EndOfFile_md,
                NoMoreTraces, StartWorker, CollectorMain, Print_st, Print_md,
                PrintCDF
  <2>2. ~LoadMain
    BY <1>1 DEF LoadMain, StartLoad, PrintNothing, PrintLoad
  <2>3. QED
    BY <1>2, <1>3, <2>1, <2>2 DEF Main_p, collector_vars
<1>4. ASSUME NEW t \in Threads, Thread_p(t) PROVE UNCHANGED cpc
  <2>1. ~worker_fails(t)
    BY <1>1, FailureEnds DEF Failing
  <2>2. QED
    BY <1>1, <1>4, <2>1 DEF Thread_p, worker_run, self_thread_worker, collector_vars
<1>5. CASE Collector_p
  BY <1>1, <1>5 DEF Collector_p, ReplayCollector, CollectorStep,
     collector_run_st, collector_run_md, collector_run_load, BenchPrograms,
     TracePrograms
<1>6. CASE UNCHANGED vars
  BY <1>2, <1>6 DEF vars, collector_vars
<1>7. QED
  BY <1>2, <1>3, <1>4, <1>5, <1>6 DEF Next

LEMMA SampleFails ==
  ASSUME SampleInv, CursorInv', program \in TracePrograms, NEW t \in Threads, Failing(t)
  PROVE  SampleInv'
<1>1. /\ CollectInv /\ LengthInv /\ program' = program /\ cpc' = "none"
      /\ program \notin BenchPrograms /\ program # "load"
  BY DEF SampleInv, Failing, BenchPrograms, TracePrograms
<1>2. LoadsInv'
  BY <1>1 DEF CollectInv, LoadsInv, Failing
<1>3. CollectInv'
  BY <1>1, <1>2 DEF CollectInv, Loaded, FirstLoads, Looping, Failing
<1>4. LengthInv'
  BY <1>1 DEF LengthInv, Failing, HasOffset, HasLength
<1>5. QED
  BY <1>1, <1>3, <1>4 DEF SampleInv

LEMMA SampleStep == SampleInv /\ [Next]_vars => SampleInv'
<1> SUFFICES ASSUME SampleInv, [Next]_vars PROVE SampleInv'
  OBVIOUS
<1>1. CursorInv'
  BY CursorStep DEF SampleInv
<1>2. program \in TARGET
  BY DEF SampleInv, CursorInv
<1>3. CASE program \in BenchPrograms
  <2>1. UNCHANGED <<program, cpc>> /\ cpc = "none"
    BY <1>3, BenchWaits DEF SampleInv
  <2>2. LengthInv'
    BY <1>3, <2>1 DEF LengthInv, BenchPrograms, TracePrograms
  <2>3. QED
    BY <1>1, <1>3, <2>1, <2>2 DEF SampleInv
<1>4. CASE program \in TracePrograms
  <2>1. program \notin BenchPrograms /\ CollectInv /\ LengthInv /\ program # "load"
    BY <1>4 DEF SampleInv, BenchPrograms, TracePrograms
  <2>2. CASE ReplayMain
    BY <1>1, <1>4, <2>1, <2>2, ReplayMainStep DEF SampleInv
  <2>3. ASSUME NEW t \in Threads, worker_run(t) PROVE SampleInv'
    <3>1. Growing /\ LengthInv' /\ UNCHANGED program
      BY <1>4, <2>3, ReplayGrows DEF Growing, Waiting
    <3>2. QED
      BY <1>1, <2>1, <3>1, GrowingStep DEF SampleInv
  <2>4. CASE ReplayCollector
    <3>1. CollectInv' /\ UNCHANGED <<program, mpc, wpc, trace, req>>
      BY <1>2, <2>1, <2>4, CollectorSteps
         DEF ReplayCollector, trace_vars, CollectorStep, collector_run_st,
             collector_run_md, collector_run_load, collector_run, shared_vars
    <3>2. LengthInv'
      BY <2>1, <3>1 DEF LengthInv
    <3>3. QED
      BY <1>1, <2>1, <3>1, <3>2 DEF SampleInv
  <2>5. CASE UNCHANGED vars
    <3>1. UNCHANGED <<program, mpc, collector_vars, wpc, trace, req, iosize>>
      BY <2>5 DEF vars, shared_vars, trace_vars, worker_vars
    <3>2. CollectInv' /\ LengthInv'
      BY <2>1, <3>1, Unmoved DEF LengthInv
    <3>3. QED
      BY <1>1, <2>1, <3>1, <3>2 DEF SampleInv
  <2>6. ASSUME NEW t \in Threads, worker_fails(t) PROVE SampleInv'
    BY <1>1, <1>4, <2>6, FailureEnds, SampleFails
  <2>7. QED
    BY <1>4, <2>2, <2>3, <2>4, <2>5, <2>6, ReplayKinds
<1>5. CASE program = "load"
  <2>1. program \notin BenchPrograms /\ program \notin TracePrograms
        /\ CollectInv /\ LengthInv
    BY <1>5 DEF SampleInv, BenchPrograms, TracePrograms
  <2>2. CASE LoadMain
    BY <1>1, <1>5, <2>1, <2>2, LoadMainStep DEF SampleInv
  <2>3. ASSUME NEW t \in Threads, self_thread_worker(t) PROVE SampleInv'
    <3>1. Growing /\ LengthInv' /\ UNCHANGED program
      BY <1>5, <2>3, LoadGrows DEF Growing, Waiting
    <3>2. QED
      BY <1>1, <2>1, <3>1, GrowingStep DEF SampleInv
  <2>4. CASE LoadCollector
    <3>1. CollectInv' /\ UNCHANGED <<program, mpc>>
      BY <1>2, <2>1, <2>4, CollectorSteps DEF LoadCollector
    <3>2. LengthInv'
      BY <2>1, <2>4, <3>1 DEF LengthInv, LoadCollector, worker_vars
    <3>3. QED
      BY <1>1, <2>1, <3>1, <3>2 DEF SampleInv
  <2>5. CASE UNCHANGED vars
    <3>1. UNCHANGED <<program, mpc, collector_vars, iosize>>
      BY <2>5 DEF vars, shared_vars, worker_vars
    <3>2. CollectInv' /\ LengthInv'
      BY <2>1, <3>1, Unmoved DEF LengthInv
    <3>3. QED
      BY <1>1, <2>1, <3>1, <3>2 DEF SampleInv
  <2>6. QED
    BY <1>5, <2>2, <2>3, <2>4, <2>5, LoadSteps
<1>6. QED
  BY <1>2, <1>3, <1>4, <1>5 DEF TARGET, BenchPrograms, TracePrograms

LEMMA SampleStart == Init => SampleInv
<1> SUFFICES ASSUME Init PROVE SampleInv
  OBVIOUS
<1>1. CursorInv
  BY CursorStart
<1>2. /\ wpc = [t \in Threads |-> "none"] /\ req = [t \in Threads |-> NoReq]
      /\ iosize = [t \in Threads |-> 0] /\ mpc = "start"
      /\ DATA_WRITTEN = 0 /\ DATA_READ = 0 /\ IOCOUNT = 0
      /\ cpc = "none" /\ now = Zero /\ last = Zero /\ first = Zero /\ sums = NoSums
  BY DEF Init, ReplayInit, SharedInit, CollectorInit, TraceInit, WorkerInit
<1>3. NoSums \in [Collected \cup {"a"} -> Int] /\ Zero \in [Collected -> Nat]
  BY DEF NoSums, Zero, Collected
<1>4. NoReq \in Requests
  BY DEF NoReq, Requests
<1>5. LengthInv
  BY <1>2, <1>4 DEF LengthInv, HasOffset, HasLength
<1>6. LoadsInv /\ Loaded
  BY <1>2, <1>3 DEF LoadsInv, Loaded
<1>7. CollectInv
  BY <1>2, <1>6 DEF CollectInv, FirstLoads, Looping
<1>8. QED
  BY <1>1, <1>2, <1>5, <1>7 DEF SampleInv

(* The samples of the collector add up to what the counters have grown by  *)
(* between its first load and its last, although workers advance the       *)
(* counters between its loads and main resets them between the traces.     *)
THEOREM SamplesAddUpAlways == Spec => []SamplesAddUp
<1>1. SampleInv => SamplesAddUp
  BY DEF SampleInv, CollectInv, Looping, Summed, SamplesAddUp
<1>2. QED
  BY <1>1, SampleStart, SampleStep, PTL DEF Spec

-----------------------------------------------------------------------------
(* Threads keep to places of their own, for any sizes and any number of    *)
(* threads: the part of a thread starts at a multiple of a request's size  *)
(* at or below its share of the space, and its requests, rounded up or     *)
(* not, end where the next part starts at the latest.                      *)

(* The arithmetic.                                                         *)

LEMMA Scaled ==
  ASSUME NEW p \in Nat, NEW t \in Nat, NEW u \in Nat, t < u
  PROVE  t * p \in Nat /\ u * p \in Nat /\ t * p + p <= u * p
<1>1. PICK d \in Nat : u = t + 1 + d
  <2>1. u - t - 1 \in Nat /\ u = t + 1 + (u - t - 1)
    OBVIOUS
  <2>2. QED
    BY <2>1
<1>2. u * p = t * p + p + d * p /\ d * p \in Nat /\ t * p \in Nat
  BY <1>1
<1>3. QED
  BY <1>2

LEMMA AlignedDown ==
  ASSUME NEW x \in Nat, NEW a \in Nat \ {0}
  PROVE  /\ x \div a \in Nat /\ o_align(x, a) = a * (x \div a)
         /\ o_align(x, a) \in Nat /\ o_align(x, a) <= x /\ x < o_align(x, a) + a
<1> DEFINE q == x \div a
           r == x % a
<1>1. q \in Nat /\ r \in 0 .. a - 1 /\ x = a * q + r
  BY DivMod
<1>2. o_align(x, a) = x - r
  BY DEF o_align
<1> HIDE DEF q, r
<1>3. a * q \in Nat
  BY <1>1
<1>4. QED
  BY <1>1, <1>2, <1>3 DEF q

(* A multiple of a that x reaches is not past x aligned down.              *)
LEMMA MultipleBelow ==
  ASSUME NEW m \in Nat, NEW x \in Nat, NEW a \in Nat \ {0}, a * m <= x
  PROVE  a * m <= o_align(x, a)
<1> DEFINE q == x \div a
<1>1. q \in Nat /\ o_align(x, a) = a * q /\ x < a * q + a
  BY AlignedDown
<1> HIDE DEF q
<1>2. ASSUME q + 1 <= m PROVE FALSE
  <2>1. PICK d \in Nat : m = q + 1 + d
    <3>1. m - q - 1 \in Nat /\ m = q + 1 + (m - q - 1)
      BY <1>1, <1>2
    <3>2. QED
      BY <3>1
  <2>2. a * m = a * q + a + a * d /\ a * d \in Nat /\ a * q \in Nat
    BY <1>1, <2>1
  <2>3. QED
    BY <1>1, <2>2
<1>3. PICK d \in Nat : q = m + d
  <2>1. q - m \in Nat /\ q = m + (q - m)
    BY <1>1, <1>2
  <2>2. QED
    BY <2>1
<1>4. a * q = a * m + a * d /\ a * d \in Nat /\ a * m \in Nat
  BY <1>3
<1>5. QED
  BY <1>1, <1>4

LEMMA RoundedUp ==
  ASSUME NEW n \in Nat
  PROVE  /\ Rounded(n) \in Nat /\ n <= Rounded(n)
         /\ Rounded(Rounded(n)) = Rounded(n)
<1>1. BLK_SIZE \in Nat \ {0}
  BY DriversAssumption
<1> DEFINE q == n \div BLK_SIZE
           r == n % BLK_SIZE
<1>2. q \in Nat /\ r \in 0 .. BLK_SIZE - 1 /\ n = BLK_SIZE * q + r
  BY <1>1, DivMod
<1>3. Rounded(n) = IF r = 0 THEN n ELSE n + BLK_SIZE - r
  BY DEF Rounded
<1> HIDE DEF q, r
<1>4. \E m \in Nat : Rounded(n) = m * BLK_SIZE + 0
  <2>1. CASE r = 0
    BY <1>1, <1>2, <1>3, <2>1
  <2>2. CASE r # 0
    <3>1. Rounded(n) = (q + 1) * BLK_SIZE + 0
      BY <1>1, <1>2, <1>3, <2>2
    <3>2. QED
      BY <1>2, <3>1
  <2>3. QED
    BY <2>1, <2>2
<1>5. Rounded(n) % BLK_SIZE = 0
  BY <1>1, <1>4, DivModUnique
<1>6. Rounded(n) \in Nat /\ n <= Rounded(n)
  BY <1>1, <1>2, <1>3
<1>7. QED
  BY <1>5, <1>6 DEF Rounded

(* A random draw leaves room for two requests, itself and another.         *)
LEMMA DrawInShare ==
  ASSUME NEW p \in Nat, NEW a \in Nat \ {0}, NEW r \in 0 .. (p \div a) - 2
  PROVE  r * a \in Nat /\ (r + 1) * a + a <= p
<1> DEFINE q == p \div a
<1>1. q \in Nat /\ a * q <= p
  BY AlignedDown
<1>2. r \in Nat /\ r + 2 <= q
  <2>1. q \in Nat /\ r \in 0 .. q - 2
    BY <1>1
  <2>2. QED
    BY <2>1
<1> HIDE DEF q
<1>3. PICK d \in Nat : q = r + 2 + d
  <2>1. q - r - 2 \in Nat /\ q = r + 2 + (q - r - 2)
    BY <1>1, <1>2
  <2>2. QED
    BY <2>1
<1>4. a * q = (r + 1) * a + a + a * d /\ a * d \in Nat /\ r * a \in Nat
  BY <1>2, <1>3
<1>5. a * q \in Nat /\ (r + 1) * a \in Nat
  BY <1>1, <1>2
<1>6. QED
  BY <1>1, <1>4, <1>5

(* The requests of a share of all are within the share of the space.       *)
LEMMA RowInShare ==
  ASSUME NEW all \in Nat, NEW space \in Nat, all <= space, NEW a \in Nat \ {0},
         NEW n \in Nat \ {0}, NEW k \in Nat, k < (all \div a) \div n
  PROVE  (k + 1) * a <= space \div n
<1> DEFINE q == all \div a
           c == q \div n
<1>1. q \in Nat /\ a * q <= all /\ a * q \in Nat
  BY AlignedDown
<1>2. c \in Nat /\ n * c <= q /\ n * c \in Nat
  BY <1>1, AlignedDown
<1>3. k + 1 <= c
  BY <1>2
<1> HIDE DEF q, c
<1>4. PICK d \in Nat : c = k + 1 + d
  <2>1. c - k - 1 \in Nat /\ c = k + 1 + (c - k - 1)
    BY <1>2, <1>3
  <2>2. QED
    BY <2>1
<1>5. PICK e \in Nat : q = n * c + e
  <2>1. q - n * c \in Nat /\ q = n * c + (q - n * c)
    BY <1>1, <1>2
  <2>2. QED
    BY <2>1
<1>6. n * c = n * (k + 1) + n * d
  BY <1>4
<1> DEFINE x == (k + 1) * a
<1>7. x \in Nat /\ a * q = n * x + a * (n * d) + a * e
  <2>1. a * q = a * (n * (k + 1) + n * d + e)
    BY <1>5, <1>6
  <2>2. a * (n * (k + 1) + n * d + e) = a * (n * (k + 1)) + a * (n * d) + a * e
    OBVIOUS
  <2>3. a * (n * (k + 1)) = n * ((k + 1) * a)
    OBVIOUS
  <2>4. QED
    BY <2>1, <2>2, <2>3
<1> HIDE DEF x
<1>8. a * (n * d) \in Nat /\ a * e \in Nat /\ n * x \in Nat
  BY <1>7
<1>9. n * x <= space
  BY <1>1, <1>7, <1>8
<1>10. (x * n + 0) \div n = x
  BY <1>7, DivModUnique
<1>11. (n * x) \div n = x
  BY <1>7, <1>10
<1>12. (n * x) \div n <= space \div n
  BY <1>8, <1>9, DivMonotone
<1>13. QED
  BY <1>11, <1>12 DEF x

-----------------------------------------------------------------------------
(* The invariant.                                                          *)

Places == [off : Int, len : Int, buf : Int]

(* Of a thread of load: its number among those of its direction, how many  *)
(* they are, the size of a request, its share, where it starts.            *)
Number(t) == IF t \in Writers THEN t ELSE t - WRITE_THREAD
Sharers(t) == IF t \in Writers THEN WRITE_THREAD ELSE READ_THREAD
Size(t) == IF t \in Writers THEN WRITE_IOSIZE ELSE READ_IOSIZE
Share(t) == USER_IO_SPACE \div Sharers(t)
Start(t) == o_align(Number(t) * Share(t), Size(t))

LoadInfos == [t \in Threads |-> IF t \in Writers THEN WriteInfo(t)
                                ELSE ReadInfo(t - WRITE_THREAD)]

OwnPlace(t, o) == \E m \in Nat : /\ o = Start(t) + m * Size(t)
                                 /\ (m + 1) * Size(t) <= Share(t)

LoadPlaces ==
  /\ build \in Builds /\ SeqW_Offset \in Nat
  /\ request \in [Threads -> Places] /\ i \in [Threads -> Nat]
  /\ \/ \A t \in Threads : wpc[t] = "none" /\ request[t] = NoRequest
     \/ /\ info = LoadInfos
        /\ iosize = [t \in Threads |-> Size(t)]
        /\ \A t \in Threads :
             request[t].len > 0 /\ (t \in Readers \/ WRITE_MOD) =>
               request[t].len = Size(t) /\ OwnPlace(t, request[t].off)

RandomReads == info[0].io_dir = "R" /\ info[0].is_rand

PartPlace(t, o) ==
  /\ o \in Nat /\ PartStart(t) <= o
  /\ o + 2 * Rounded(G_IOSIZE) <= PartStart(t) + Part

BenchPlaces ==
  /\ G_IOSIZE \in Nat
  /\ mpc \in {"start", "join", "show"} => test \in 1 .. Len(Tests)
  /\ DOMAIN request = Threads /\ iosize \in [Threads -> Nat]
  /\ RandomReads =>
       /\ info = test_RandRead /\ G_IOSIZE > 0
       /\ \A t \in Threads :
            /\ iosize[t] \in {G_IOSIZE, Rounded(G_IOSIZE)}
            /\ request[t].len > 0 =>
                 request[t].len = Rounded(G_IOSIZE) /\ PartPlace(t, request[t].off)

ApartInv ==
  /\ program = "load" => LoadPlaces
  /\ program \in BenchPrograms => BenchPlaces

-----------------------------------------------------------------------------
(* load                                                                    *)

LEMMA ThreadNumbers ==
  /\ NUM_THREADS \in Nat \ {0} /\ Threads \subseteq Nat /\ 0 \in Threads
  /\ \A t \in Threads : t < NUM_THREADS
  BY ThreadsFinite DEF Threads

LEMMA LoadShares ==
  ASSUME build \in Builds, NEW t \in Threads
  PROVE  /\ Number(t) \in Nat /\ Sharers(t) \in Nat /\ Number(t) < Sharers(t)
         /\ Size(t) \in Nat \ {0} /\ Share(t) \in Nat
         /\ Sharers(t) * Share(t) <= USER_IO_SPACE
         /\ Number(t) * Share(t) \in Nat
         /\ Number(t) * Share(t) + Share(t) <= USER_SPACE_LEN
         /\ Start(t) \in Nat /\ Start(t) <= Number(t) * Share(t)
         /\ \E q \in Nat : Start(t) = Size(t) * q
<1>1. WRITE_THREAD \in 0 .. NUM_THREADS
  BY WorkloadAssumption DEF WRITE_THREAD
<1>2. t \in Nat /\ t < NUM_THREADS /\ NUM_THREADS \in Nat
  BY ThreadNumbers
<1>3. t \in Writers <=> t < WRITE_THREAD
  BY <1>1, <1>2 DEF Writers
<1>4. Number(t) \in Nat /\ Sharers(t) \in Nat \ {0} /\ Number(t) < Sharers(t)
  BY <1>1, <1>2, <1>3 DEF Number, Sharers, READ_THREAD
<1>5. /\ Size(t) \in Nat \ {0} /\ USER_IO_SPACE \in Nat
      /\ USER_IO_SPACE <= USER_SPACE_LEN /\ USER_SPACE_LEN \in Nat
  BY WorkloadAssumption, DriversAssumption DEF Size
<1>6. /\ Share(t) \in Nat /\ Sharers(t) * Share(t) \in Nat
      /\ Sharers(t) * Share(t) <= USER_IO_SPACE
  <2>1. /\ Share(t) \in Nat
        /\ o_align(USER_IO_SPACE, Sharers(t)) = Sharers(t) * Share(t)
        /\ o_align(USER_IO_SPACE, Sharers(t)) \in Nat
        /\ o_align(USER_IO_SPACE, Sharers(t)) <= USER_IO_SPACE
    BY <1>4, <1>5, AlignedDown DEF Share
  <2>2. QED
    BY <2>1
<1>7. /\ Number(t) * Share(t) \in Nat
      /\ Number(t) * Share(t) + Share(t) <= Sharers(t) * Share(t)
  BY <1>4, <1>6, Scaled
<1>8. /\ Start(t) \in Nat /\ Start(t) <= Number(t) * Share(t)
      /\ \E q \in Nat : Start(t) = Size(t) * q
  BY <1>5, <1>7, AlignedDown DEF Start
<1>9. QED
  BY <1>4, <1>5, <1>6, <1>7, <1>8

(* Places of two threads of a direction are apart.                         *)
LEMMA OwnPlacesApart ==
  ASSUME build \in Builds, NEW t \in Threads, NEW u \in Threads, t < u,
         t \in Writers <=> u \in Writers, NEW o, NEW v,
         OwnPlace(t, o), OwnPlace(u, v)
  PROVE  o + Size(t) <= v
<1>1. PICK m \in Nat : o = Start(t) + m * Size(t) /\ (m + 1) * Size(t) <= Share(t)
  BY DEF OwnPlace
<1>2. PICK n \in Nat : v = Start(u) + n * Size(u)
  BY DEF OwnPlace
<1>3. /\ Size(u) = Size(t) /\ Share(u) = Share(t)
      /\ Number(t) \in Nat /\ Number(u) \in Nat /\ Number(t) < Number(u)
  <2>1. t \in Nat /\ u \in Nat /\ WRITE_THREAD \in Nat
    BY ThreadNumbers, WorkloadAssumption DEF WRITE_THREAD
  <2>2. QED
    BY <2>1, LoadShares DEF Size, Share, Sharers, Number
<1>4. /\ Size(t) \in Nat \ {0} /\ Share(t) \in Nat
      /\ Start(t) \in Nat /\ Start(t) <= Number(t) * Share(t)
      /\ Start(u) \in Nat
  BY LoadShares
<1>5. PICK q \in Nat : Start(t) = Size(t) * q
  BY LoadShares
<1>6. /\ Number(t) * Share(t) \in Nat /\ Number(u) * Share(t) \in Nat
      /\ Number(t) * Share(t) + Share(t) <= Number(u) * Share(t)
  BY <1>3, <1>4, Scaled
<1>7. /\ o + Size(t) = Size(t) * (q + m + 1)
      /\ o + Size(t) = Start(t) + (m + 1) * Size(t)
      /\ (m + 1) * Size(t) \in Nat
  BY <1>1, <1>4, <1>5
<1>8. q + m + 1 \in Nat /\ Size(t) * (q + m + 1) <= Number(u) * Share(t)
  BY <1>1, <1>4, <1>6, <1>7
<1>9. Size(t) * (q + m + 1) <= Start(u)
  BY <1>3, <1>4, <1>6, <1>8, MultipleBelow DEF Start
<1>10. n * Size(t) \in Nat
  BY <1>2, <1>4
<1>11. Size(t) * (q + m + 1) \in Nat
  BY <1>4, <1>8
<1>12. QED
  BY <1>2, <1>3, <1>4, <1>7, <1>9, <1>10, <1>11

(* A draw stays in the share it is made for: none is made again.           *)
LEMMA DrawnPlace ==
  ASSUME build \in Builds, NEW t \in Threads, NEW all \in 0 .. USER_IO_SPACE,
         NEW o \in Rand_offset_align_load(Start(t), all \div Sharers(t), Size(t))
  PROVE  OwnPlace(t, o)
<1> DEFINE a == Size(t)
           p == all \div Sharers(t)
<1>1. /\ a \in Nat \ {0} /\ Start(t) \in Nat /\ Share(t) \in Nat
      /\ Sharers(t) \in Nat \ {0} /\ Number(t) * Share(t) \in Nat
      /\ Start(t) <= Number(t) * Share(t)
      /\ Number(t) * Share(t) + Share(t) <= USER_SPACE_LEN
  BY LoadShares
<1>2. USER_IO_SPACE \in Nat /\ USER_SPACE_LEN \in Nat
  BY WorkloadAssumption, DriversAssumption
<1>3. p \in Nat /\ p <= Share(t)
  <2>1. all \in Nat /\ all <= USER_IO_SPACE
    BY <1>2
  <2>2. QED
    BY <1>1, <1>2, <2>1, DivMod, DivMonotone DEF Share
<1>4. PICK q \in Nat : Start(t) = a * q
  BY LoadShares
<1>5. PICK r \in 0 .. (p \div a) - 2 : \E off :
        /\ o = Up(off, a)
        /\ off \in LET x == r * a + Start(t) IN
                   IF x <= USER_SPACE_LEN THEN {x}
                   ELSE {n * a + Start(t) :
                           n \in 0 .. ((USER_SPACE_LEN - Start(t)) \div a) - 1}
  BY DEF Rand_offset_align_load
<1>6. r \in Nat
  <2>1. p \div a \in Nat
    BY <1>1, <1>3, DivMod
  <2>2. QED
    BY <2>1
<1>7. r * a \in Nat /\ (r + 1) * a + a <= p
  BY <1>1, <1>3, DrawInShare
<1> HIDE DEF a, p
<1>8. (r + 1) * a = r * a + a
  BY <1>1, <1>6
<1>9. r * a + Start(t) <= USER_SPACE_LEN
  BY <1>1, <1>2, <1>3, <1>7, <1>8
<1>10. PICK off : o = Up(off, a) /\ off = r * a + Start(t)
  BY <1>5, <1>9
<1>11. off = (r + q) * a + 0
  BY <1>1, <1>4, <1>6, <1>7, <1>10
<1>12. off % a = 0
  <2>1. r + q \in Nat /\ 0 \in 0 .. a - 1
    BY <1>1, <1>6
  <2>2. QED
    BY <1>1, <1>11, <2>1, DivModUnique
<1>13. o = Start(t) + r * a
  BY <1>1, <1>7, <1>10, <1>12 DEF Up
<1>14. (r + 1) * a <= Share(t)
  BY <1>1, <1>3, <1>7, <1>8
<1>15. QED
  BY <1>6, <1>13, <1>14 DEF OwnPlace, a

LEMMA LoadSettings ==
  ASSUME UNCHANGED build
  PROVE  /\ UNCHANGED <<LoadInfos, Readers, WRITE_MOD>>
         /\ \A t : UNCHANGED <<Size(t), Start(t), Share(t)>>
         /\ \A t, o : OwnPlace(t, o)' <=> OwnPlace(t, o)
  BY DEF LoadInfos, Readers, Writers, WRITE_MOD, READ_MOD, WRITE_THREAD, READ_THREAD,
         WRITE_ALL, READ_ALL, WriteInfo, ReadInfo, Size, Start, Share, Number,
         Sharers, OwnPlace

LEMMA LoadInfosAre ==
  ASSUME NEW t \in Threads
  PROVE  /\ LoadInfos[t].io_dir = IF t \in Writers THEN "W" ELSE "R"
         /\ LoadInfos[t].io_size = Size(t)
         /\ LoadInfos[t].offset = Start(t)
         /\ LoadInfos[t].count =
              (IF t \in Writers THEN WRITE_ALL \div WRITE_IOSIZE
               ELSE READ_ALL \div READ_IOSIZE) \div Sharers(t)
  BY DEF LoadInfos, WriteInfo, ReadInfo, Size, Start, Share, Number, Sharers

LEMMA LoadStarts ==
  ASSUME LoadPlaces, program = "load", StartLoad
  PROVE  LoadPlaces'
<1>1. UNCHANGED build
  BY DEF StartLoad
<1>2. /\ info' = LoadInfos /\ i' = [t \in Threads |-> 0]
      /\ iosize' = [t \in Threads |-> LoadInfos[t].io_size]
      /\ request' = [t \in Threads |-> NoRequest]
      /\ UNCHANGED SeqW_Offset
  BY DEF StartLoad, Create, LoadInfos
<1>3. iosize' = [t \in Threads |-> Size(t)]
  BY <1>2, LoadInfosAre
<1>4. NoRequest \in Places /\ ~(NoRequest.len > 0)
  BY DEF NoRequest, Places
<1>5. QED
  BY <1>1, <1>2, <1>3, <1>4, LoadSettings DEF LoadPlaces

LEMMA LoadRuns ==
  ASSUME LoadPlaces, NEW t \in Threads, self_thread_worker(t)
  PROVE  LoadPlaces' /\ UNCHANGED program
<1>1. UNCHANGED <<program, mpc, build>>
  BY DEF self_thread_worker, program_vars, load_own
<1>2. /\ build \in Builds /\ i \in [Threads -> Nat] /\ request \in [Threads -> Places]
      /\ info = LoadInfos /\ iosize = [u \in Threads |-> Size(u)]
      /\ \A u \in Threads :
           request[u].len > 0 /\ (u \in Readers \/ WRITE_MOD) =>
             request[u].len = Size(u) /\ OwnPlace(u, request[u].off)
  BY DEF LoadPlaces, self_thread_worker, Write, Read, SkipRead, CountRequest,
         LoadRequest, StartLoop, ResetOffset, EndLoop, EndThread, Worker
<1>3. /\ info[t].io_dir = IF t \in Writers THEN "W" ELSE "R"
      /\ info[t].offset = Start(t) /\ iosize[t] = Size(t)
  BY <1>2, LoadInfosAre
<1>4. UNCHANGED <<info, iosize>>
  BY DEF self_thread_worker, Write, Read, LoadRequest, SkipRead, CountRequest,
         StartLoop, ResetOffset, EndLoop, EndThread, worker_vars
<1>5. i' \in [Threads -> Nat]
  BY <1>2 DEF self_thread_worker, Write, Read, LoadRequest, SkipRead, CountRequest,
         StartLoop, ResetOffset, EndLoop, EndThread
<1>6. SeqW_Offset \in Nat /\ SeqW_Offset' \in Nat
  <2>1. SeqW_Offset \in Nat
    BY DEF LoadPlaces
  <2>2. QED
    BY <2>1 DEF self_thread_worker, Write, Read, LoadRequest, SkipRead, CountRequest,
         StartLoop, ResetOffset, EndLoop, EndThread, worker_vars
<1>7. ASSUME UNCHANGED request PROVE LoadPlaces'
  BY <1>1, <1>2, <1>4, <1>5, <1>6, <1>7, LoadSettings DEF LoadPlaces
<1>8. ASSUME NEW o \in Int, t \in Readers \/ WRITE_MOD => OwnPlace(t, o),
             request' = [request EXCEPT ![t] = [off |-> o, len |-> iosize[t], buf |-> 0]]
      PROVE  LoadPlaces'
  <2>1. Size(t) \in Int
    BY <1>2, LoadShares
  <2>2. [off |-> o, len |-> Size(t), buf |-> 0] \in Places
    BY <2>1 DEF Places
  <2>3. /\ request' \in [Threads -> Places]
        /\ \A u \in Threads : u # t => request'[u] = request[u]
        /\ request'[t].off = o /\ request'[t].len = Size(t)
    BY <1>2, <1>3, <1>8, <2>2
  <2>4. \A u \in Threads :
          request'[u].len > 0 /\ (u \in Readers \/ WRITE_MOD) =>
            request'[u].len = Size(u) /\ OwnPlace(u, request'[u].off)
    BY <1>2, <1>8, <2>3
  <2>5. QED
    BY <1>1, <1>2, <1>4, <1>5, <1>6, <2>3, <2>4, LoadSettings DEF LoadPlaces
<1>9. /\ Sharers(t) \in Nat \ {0} /\ Start(t) \in Int /\ Size(t) \in Nat \ {0}
      /\ i[t] \in Nat
  BY <1>2, LoadShares
<1>10. /\ WRITE_ALL \in 0 .. USER_IO_SPACE /\ READ_ALL \in 0 .. USER_IO_SPACE
      /\ USER_IO_SPACE \in Nat
  BY <1>2, WorkloadAssumption DEF WRITE_ALL, READ_ALL
<1>11. \A o : OwnPlace(t, o) => o \in Int
  BY <1>9 DEF OwnPlace
<1>12. CASE Write(t)
  <2>1. t \in Writers /\ t \notin Readers /\ Sharers(t) = WRITE_THREAD
    BY <1>3, <1>12 DEF Write, Readers, Sharers
  <2>2. CASE WRITE_MOD
    <3>1. PICK o \in Rand_offset_align_load(Start(t), WRITE_ALL \div Sharers(t), Size(t)) :
            request' = [request EXCEPT ![t] = [off |-> o, len |-> iosize[t], buf |-> 0]]
      BY <1>3, <1>12, <2>1, <2>2 DEF Write, LoadRequest
    <3>2. OwnPlace(t, o)
      BY <1>2, <1>10, DrawnPlace
    <3>3. QED
      BY <1>1, <1>8, <1>11, <3>1, <3>2
  <2>3. CASE ~WRITE_MOD
    <3>1. request' = [request EXCEPT ![t] =
                        [off |-> SeqW_Offset * Size(t), len |-> iosize[t], buf |-> 0]]
      BY <1>3, <1>12, <2>3 DEF Write, LoadRequest
    <3>2. SeqW_Offset * Size(t) \in Int
      BY <1>9, <1>6
    <3>3. QED
      BY <1>1, <1>8, <2>1, <2>3, <3>1, <3>2
  <2>4. QED
    BY <2>2, <2>3
<1>13. CASE Read(t)
  <2>1. t \notin Writers /\ Sharers(t) = READ_THREAD /\ Size(t) = READ_IOSIZE
    BY <1>3, <1>13 DEF Read, Sharers, Size
  <2>2. CASE READ_MOD
    <3>1. PICK o \in Rand_offset_align_load(Start(t), READ_ALL \div Sharers(t), Size(t)) :
            request' = [request EXCEPT ![t] = [off |-> o, len |-> iosize[t], buf |-> 0]]
      BY <1>3, <1>13, <2>1, <2>2 DEF Read, LoadRequest
    <3>2. OwnPlace(t, o)
      BY <1>2, <1>10, DrawnPlace
    <3>3. QED
      BY <1>1, <1>8, <1>11, <3>1, <3>2
  <2>3. CASE ~READ_MOD
    <3>1. request' = [request EXCEPT ![t] =
                        [off |-> Start(t) + i[t] * Size(t), len |-> iosize[t], buf |-> 0]]
      BY <1>3, <1>13, <2>3 DEF Read, LoadRequest
    <3>2. i[t] < (READ_ALL \div READ_IOSIZE) \div Sharers(t)
      BY <1>2, <1>13, <2>1, LoadInfosAre DEF Read, LoadRequest
    <3>3. (i[t] + 1) * Size(t) <= Share(t)
      <4>1. READ_ALL \in Nat /\ READ_ALL <= USER_IO_SPACE
        BY <1>10
      <4>2. QED
        BY <1>9, <1>10, <2>1, <3>2, <4>1, RowInShare DEF Share
    <3>4. OwnPlace(t, Start(t) + i[t] * Size(t))
      BY <1>9, <3>3 DEF OwnPlace
    <3>5. QED
      BY <1>1, <1>8, <1>11, <3>1, <3>4
  <2>4. QED
    BY <2>2, <2>3
<1>14. CASE UNCHANGED request
  BY <1>1, <1>7, <1>14
<1>15. QED
  BY <1>1, <1>12, <1>13, <1>14
     DEF self_thread_worker, SkipRead, CountRequest, StartLoop, ResetOffset,
         EndLoop, EndThread, worker_vars

-----------------------------------------------------------------------------
(* bench and main                                                          *)

LEMMA TestsAre ==
  /\ program = "bench" =>
       Tests = <<test_SeqRead, test_RandRead, test_SeqWrite, test_RandWrite>>
  /\ program = "main" => Tests = <<WriteLoad, ReadLoad>>
  BY DEF Tests

LEMMA TestIs ==
  ASSUME program \in BenchPrograms, NEW n \in 1 .. Len(Tests)
  PROVE  Tests[n] \in {test_SeqRead, test_RandRead, test_SeqWrite, test_RandWrite,
                       WriteLoad, ReadLoad}
<1> DEFINE r == test_SeqRead
           s == test_RandRead
           v == test_SeqWrite
           w == test_RandWrite
           x == WriteLoad
           y == ReadLoad
<1>1. Tests = <<r, s, v, w>> \/ Tests = <<x, y>>
  BY TestsAre DEF BenchPrograms
<1> HIDE DEF r, s, v, w, x, y
<1>2. (Tests = <<r, s, v, w>> /\ n \in {1, 2, 3, 4}) \/ (Tests = <<x, y>> /\ n \in {1, 2})
  <2>1. CASE Tests = <<r, s, v, w>>
    <3>1. Len(Tests) = 4
      BY <2>1
    <3>2. QED
      BY <2>1, <3>1
  <2>2. CASE Tests = <<x, y>>
    <3>1. Len(Tests) = 2
      BY <2>2
    <3>2. QED
      BY <2>2, <3>1
  <2>3. QED
    BY <1>1, <2>1, <2>2
<1>3. Tests[n] \in {r, s, v, w, x, y}
  BY <1>2
<1>4. QED
  BY <1>3 DEF r, s, v, w, x, y

(* Random reads are those of bench's second test.                          *)
LEMMA RandomReadsAre ==
  ASSUME program \in BenchPrograms, NEW n \in 1 .. Len(Tests)
  PROVE  /\ Tests[n][0].io_dir = "R" /\ Tests[n][0].is_rand => Tests[n] = test_RandRead
         /\ \A t \in Threads : Tests[n][t].io_size = G_IOSIZE
<1>1. 0 \in Threads
  BY ThreadNumbers
<1>2. /\ ~test_SeqRead[0].is_rand /\ ~test_SeqWrite[0].is_rand
      /\ ~WriteLoad[0].is_rand /\ ~ReadLoad[0].is_rand
      /\ test_RandWrite[0].io_dir = "W"
  BY <1>1 DEF test_SeqRead, test_SeqWrite, test_RandWrite, WriteLoad, ReadLoad, Info
<1>3. \A t \in Threads :
        /\ test_SeqRead[t].io_size = G_IOSIZE /\ test_RandRead[t].io_size = G_IOSIZE
        /\ test_SeqWrite[t].io_size = G_IOSIZE /\ test_RandWrite[t].io_size = G_IOSIZE
        /\ WriteLoad[t].io_size = G_IOSIZE /\ ReadLoad[t].io_size = G_IOSIZE
  BY DEF test_SeqRead, test_RandRead, test_SeqWrite, test_RandWrite, WriteLoad,
         ReadLoad, Info
<1>4. QED
  BY <1>2, <1>3, TestIs

TestNumbers ==
  /\ program = "bench" => Len(Tests) = 4
  /\ program = "main" => Len(Tests) = 2

LEMMA TestCount == TestNumbers
  BY TestsAre DEF TestNumbers

LEMMA TestCountNext == TestNumbers'
  BY TestCount, PTL

LEMMA BenchSettings ==
  ASSUME UNCHANGED G_IOSIZE
  PROVE  /\ UNCHANGED test_RandRead
         /\ \A t, o : PartPlace(t, o)' <=> PartPlace(t, o)
  BY DEF test_RandRead, Info, count, PartStart, PartPlace

LEMMA BenchMainStep ==
  ASSUME BenchPlaces, program \in BenchPrograms, BenchMain
  PROVE  BenchPlaces' /\ UNCHANGED program
<1>1. UNCHANGED <<program, G_IOSIZE>> /\ program \in {"bench", "main"}
  BY DEF BenchMain, NoSize, StartTest, JoinTest, Show_bench, Show_nothing,
         Show_main, NextTest, Main, BenchIdle, bench_own, BenchPrograms
<1>2. Len(Tests') = Len(Tests) /\ Len(Tests) \in Nat
  BY <1>1, TestCount, TestCountNext DEF TestNumbers
<1>3. CASE StartTest
  <2>1. /\ test \in 1 .. Len(Tests) /\ test' = test /\ mpc' = "join" /\ G_IOSIZE > 0
        /\ info' = Tests[test]
        /\ iosize' = [t \in Threads |-> Tests[test][t].io_size]
        /\ request' = [t \in Threads |-> NoRequest]
    BY <1>3 DEF BenchPlaces, StartTest, Main, Create, bench_own
  <2>2. iosize' = [t \in Threads |-> G_IOSIZE] /\ iosize' \in [Threads -> Nat]
    BY <2>1, RandomReadsAre DEF BenchPlaces
  <2>3. ~(NoRequest.len > 0)
    BY DEF NoRequest
  <2>4. RandomReads' => info' = test_RandRead
    BY <2>1, RandomReadsAre DEF RandomReads
  <2>5. QED
    BY <1>1, <1>2, <2>1, <2>2, <2>3, <2>4, BenchSettings DEF BenchPlaces
<1>4. CASE UNCHANGED worker_vars
  <2>1. UNCHANGED <<info, iosize, request, RandomReads>>
    BY <1>4 DEF worker_vars, RandomReads
  <2>2. mpc' \in {"start", "join", "show"} => test' \in 1 .. Len(Tests')
    <3>1. CASE NoSize \/ Show_nothing
      BY <3>1 DEF NoSize, Show_nothing, Main
    <3>2. CASE JoinTest
      BY <1>2, <3>2 DEF JoinTest, Main, BenchIdle, bench_own, BenchPlaces
    <3>3. CASE Show_bench \/ Show_main
      <4>1. mpc = "show" /\ test' = test + 1
            /\ mpc' = IF test < Len(Tests) THEN "start" ELSE "done"
        BY <3>3 DEF Show_bench, Show_main, NextTest, Main
      <4>2. QED
        BY <1>2, <4>1 DEF BenchPlaces
    <3>4. CASE StartTest
      BY <1>2, <3>4 DEF StartTest, Main, bench_own, BenchPlaces
    <3>5. QED
      BY <3>1, <3>2, <3>3, <3>4 DEF BenchMain
  <2>3. QED
    BY <1>1, <2>1, <2>2, BenchSettings DEF BenchPlaces
<1>5. QED
  BY <1>3, <1>4 DEF BenchMain, NoSize, JoinTest, Show_bench, Show_nothing, Show_main,
                    NextTest, BenchIdle

LEMMA BenchRuns ==
  ASSUME BenchPlaces, program \in BenchPrograms, NEW t \in Threads, BenchThread(t)
  PROVE  BenchPlaces' /\ UNCHANGED program
<1>1. UNCHANGED <<program, G_IOSIZE, test, info, RandomReads>>
      /\ (UNCHANGED mpc \/ mpc' = "aborted")
  BY DEF BenchThread, thread_worker, RandomByZero, BenchRequest, Request, StartLoop,
         ResetOffset, EndLoop, EndThread, BenchIdle, program_vars, worker_vars,
         bench_own, RandomReads
<1>2. mpc' \in {"start", "join", "show"} => test' \in 1 .. Len(Tests')
  BY <1>1, TestCount, TestCountNext DEF TestNumbers, BenchPlaces, BenchPrograms
<1>3. CASE UNCHANGED <<iosize, request>>
  BY <1>1, <1>2, <1>3, BenchSettings DEF BenchPlaces
<1>4. CASE BenchRequest(t)
  <2> DEFINE size == Rounded(iosize[t])
  <2>1. PICK o \in Offsets(t, size) :
          request' = [request EXCEPT ![t] =
                        [off |-> o, len |-> size, buf |-> BufStart(t, size)]]
    BY <1>4 DEF BenchRequest, Request
  <2>2. iosize' = [iosize EXCEPT ![t] = size]
    BY <1>4 DEF BenchRequest, Request
  <2>3. iosize \in [Threads -> Nat] /\ DOMAIN request = Threads /\ G_IOSIZE \in Nat
    BY DEF BenchPlaces
  <2>4. size \in Nat
    BY <2>3, RoundedUp
  <2>5. iosize' \in [Threads -> Nat] /\ DOMAIN request' = Threads
    BY <2>1, <2>2, <2>3, <2>4
  <2>6. ASSUME RandomReads
        PROVE  /\ info = test_RandRead /\ G_IOSIZE > 0
               /\ size = Rounded(G_IOSIZE) /\ PartPlace(t, o)
    <3>1. info = test_RandRead /\ G_IOSIZE > 0 /\ iosize[t] \in {G_IOSIZE, Rounded(G_IOSIZE)}
      BY <2>6 DEF BenchPlaces
    <3>2. size = Rounded(G_IOSIZE) /\ size \in Nat \ {0}
      BY <2>3, <2>4, <3>1, RoundedUp
    <3>3. /\ info[t].is_rand /\ info[t].io_dir = "R" /\ info[t].offset = PartStart(t)
      BY <3>1 DEF test_RandRead, Info
    <3> HIDE DEF size
    <3>4. o \in Rand_offset_align(PartStart(t), Part, size)
      BY <2>1, <3>3 DEF Offsets
    <3>5. PICK r \in 0 .. (Part \div size) - 2 : o = r * size + PartStart(t)
      BY <3>4 DEF Rand_offset_align
    <3>6. Part \in Nat
      BY ThreadNumbers, BenchAssumption, DivMod DEF Part
    <3>7. r * size \in Nat /\ (r + 1) * size + size <= Part
      BY <3>2, <3>5, <3>6, DrawInShare
    <3>8. (r + 1) * size = r * size + size
      <4>1. r \in Int
        BY <3>5
      <4>2. QED
        BY <3>2, <4>1
    <3>9. PartStart(t) \in Nat
      <4>1. t \in Nat
        BY ThreadNumbers
      <4>2. t * Part \in Nat
        BY <3>6, <4>1
      <4>3. G_IOSIZE \in Nat \ {0}
        BY <2>3, <3>1
      <4>4. QED
        BY <4>2, <4>3, AlignedDown DEF PartStart
    <3>10. PartPlace(t, o)
      BY <3>2, <3>5, <3>6, <3>7, <3>8, <3>9 DEF PartPlace
    <3>11. QED
      BY <3>1, <3>2, <3>10 DEF size
  <2>7. RandomReads =>
          /\ info = test_RandRead /\ G_IOSIZE > 0
          /\ \A u \in Threads :
               /\ iosize'[u] \in {G_IOSIZE, Rounded(G_IOSIZE)}
               /\ request'[u].len > 0 =>
                    request'[u].len = Rounded(G_IOSIZE) /\ PartPlace(u, request'[u].off)
    <3> SUFFICES ASSUME RandomReads, NEW u \in Threads
                 PROVE  /\ iosize'[u] \in {G_IOSIZE, Rounded(G_IOSIZE)}
                        /\ request'[u].len > 0 =>
                             request'[u].len = Rounded(G_IOSIZE)
                             /\ PartPlace(u, request'[u].off)
      BY <2>6
    <3> HIDE DEF size
    <3>1. CASE u = t
      <4>1. iosize'[u] = size /\ request'[u].len = size /\ request'[u].off = o
        BY <2>1, <2>2, <2>3, <3>1
      <4>2. QED
        BY <2>6, <3>1, <4>1
    <3>2. CASE u # t
      BY <2>1, <2>2, <2>3, <3>2 DEF BenchPlaces
    <3>3. QED
      BY <3>1, <3>2
  <2>8. QED
    BY <1>1, <1>2, <2>3, <2>5, <2>7, BenchSettings DEF BenchPlaces
<1>5. QED
  BY <1>3, <1>4 DEF BenchThread, thread_worker, RandomByZero, StartLoop, ResetOffset,
                    EndLoop, EndThread, BenchIdle, worker_vars

-----------------------------------------------------------------------------
(* The invariant is inductive, and says what it should.                    *)

LEMMA ProgramStays ==
  ASSUME [Next]_vars
  PROVE  UNCHANGED program
<1>1. CASE program \in TracePrograms
  <2>1. CASE ReplayMain
    BY <2>1 DEF ReplayMain, NewTrace, ReadLine, EndOfFile_st, EndOfFile_md,
       EndOfFile, NoMoreTraces, StartWorker,
       CollectorMain, StartCollector, JoinWorkers, JoinCollector, Print_st,
       Print_md, PrintCDF, Main
  <2>2. CASE \E t \in Threads : worker_run(t)
    BY <2>2 DEF worker_run, program_vars
  <2>3. CASE \E t \in Threads : worker_fails(t)
    BY <2>3, FailureEnds DEF Failing
  <2>4. QED
    BY <1>1, <2>1, <2>2, <2>3, ReplaySteps DEF Aside
<1>2. CASE program \notin TracePrograms
  BY <1>2, OtherSteps
<1>3. QED
  BY <1>1, <1>2

LEMMA ApartStep == ApartInv /\ [Next]_vars => ApartInv'
<1> SUFFICES ASSUME ApartInv, [Next]_vars PROVE ApartInv'
  OBVIOUS
<1>1. UNCHANGED program
  BY ProgramStays
<1>2. ASSUME program = "load" PROVE LoadPlaces'
  <2>1. LoadPlaces
    BY <1>2 DEF ApartInv
  <2>2. CASE LoadMain
    <3>1. CASE StartLoad
      BY <1>2, <2>1, <3>1, LoadStarts
    <3>2. ASSUME UNCHANGED <<build, SeqW_Offset, info, iosize, request>>,
                 \/ UNCHANGED <<wpc, i>>
                 \/ /\ wpc' = [t \in Threads |-> "none"]
                    /\ i' = [t \in Threads |-> 0]
          PROVE  LoadPlaces'
      BY <2>1, <3>2, LoadSettings DEF LoadPlaces
    <3>3. CASE ~StartLoad
      BY <2>2, <3>2, <3>3
         DEF LoadMain, PrintNothing, PrintLoad, StartCollector, JoinWorkers,
             JoinCollector, load_own, worker_vars
    <3>4. QED
      BY <3>1, <3>3
  <2>3. CASE \E t \in Threads : self_thread_worker(t)
    BY <2>1, <2>3, LoadRuns
  <2>4. CASE LoadCollector \/ UNCHANGED vars
    <3>1. UNCHANGED <<build, SeqW_Offset, info, iosize, request, wpc, i>>
      BY <2>4 DEF LoadCollector, CollectorStep, collector_run_st, collector_run_md,
         collector_run_load, collector_run, vars, shared_vars, load_own, worker_vars
    <3>2. QED
      BY <2>1, <3>1, LoadSettings DEF LoadPlaces
  <2>5. QED
    BY <1>2, <2>2, <2>3, <2>4, LoadSteps
<1>3. ASSUME program \in BenchPrograms PROVE BenchPlaces'
  <2>1. BenchPlaces
    BY <1>3 DEF ApartInv
  <2>2. CASE BenchMain
    BY <1>3, <2>1, <2>2, BenchMainStep
  <2>3. CASE \E t \in Threads : BenchThread(t)
    BY <1>3, <2>1, <2>3, BenchRuns
  <2>4. CASE UNCHANGED vars
    <3>1. UNCHANGED <<program, mpc, G_IOSIZE, test, info, iosize, request>>
      BY <2>4 DEF vars, shared_vars, worker_vars, bench_own
    <3>2. Len(Tests') = Len(Tests)
      BY <1>3, <3>1, TestCount, TestCountNext DEF TestNumbers, BenchPrograms
    <3>3. RandomReads' <=> RandomReads
      BY <3>1 DEF RandomReads
    <3>4. QED
      BY <2>1, <3>1, <3>2, <3>3, BenchSettings DEF BenchPlaces
  <2>5. QED
    BY <1>3, <2>2, <2>3, <2>4, BenchSteps
<1>4. QED
  BY <1>1, <1>2, <1>3 DEF ApartInv

LEMMA ApartStart == Init => ApartInv
<1> SUFFICES ASSUME Init PROVE ApartInv
  OBVIOUS
<1>1. /\ wpc = [t \in Threads |-> "none"] /\ i = [t \in Threads |-> 0]
      /\ request = [t \in Threads |-> NoRequest] /\ iosize = [t \in Threads |-> 0]
      /\ info = [t \in Threads |-> NoInfo] /\ SeqW_Offset = 0
      /\ build \in Builds /\ test = 1
      /\ G_IOSIZE \in IF program = "bench" THEN {ParseArgument(a) : a \in Arguments}
                      ELSE {IO_SIZE}
  BY DEF Init, ReplayInit, SharedInit, WorkerInit, BenchInit, LoadInit
<1>2. NoRequest \in Places
  BY DEF NoRequest, Places
<1>3. LoadPlaces
  BY <1>1, <1>2 DEF LoadPlaces
<1>4. ASSUME program \in BenchPrograms PROVE BenchPlaces
  <2>1. G_IOSIZE \in Nat
    <3>1. IO_SIZE \in Nat
      BY LayoutAssumption DEF IO_SIZE, PARTSIZE
    <3>2. QED
      BY <1>1, <3>1, BenchAssumption
  <2>2. test \in 1 .. Len(Tests)
    <3>1. Len(Tests) \in {2, 4}
      BY <1>4, TestCount DEF TestNumbers, BenchPrograms
    <3>2. test = 1
      BY <1>1
    <3>3. 1 \in 1 .. 2 /\ 1 \in 1 .. 4
      OBVIOUS
    <3>4. QED
      BY <3>1, <3>2, <3>3
  <2>3. ~RandomReads
    BY <1>1, ThreadNumbers DEF RandomReads, NoInfo
  <2>4. QED
    BY <1>1, <2>1, <2>2, <2>3 DEF BenchPlaces
<1>5. QED
  BY <1>3, <1>4 DEF ApartInv

LEMMA LoadIsApart ==
  ASSUME LoadPlaces, program = "load"
  PROVE  LoadApart
<1> SUFFICES ASSUME NEW t \in Threads, NEW u \in Threads, t < u,
                    info[t].io_dir = info[u].io_dir,
                    info[t].io_dir = "R" \/ WRITE_MOD,
                    request[t].len > 0, request[u].len > 0
             PROVE  request[t].off + request[t].len <= request[u].off
  BY DEF LoadApart
<1>1. ~(NoRequest.len > 0)
  BY DEF NoRequest
<1>2. /\ build \in Builds /\ info = LoadInfos
      /\ \A v \in Threads :
           request[v].len > 0 /\ (v \in Readers \/ WRITE_MOD) =>
             request[v].len = Size(v) /\ OwnPlace(v, request[v].off)
  BY <1>1 DEF LoadPlaces
<1>3. /\ t \in Writers <=> u \in Writers
      /\ (t \in Readers /\ u \in Readers) \/ WRITE_MOD
  BY <1>2, LoadInfosAre DEF Readers
<1>4. QED
  BY <1>2, <1>3, OwnPlacesApart

LEMMA ReadersAreApart ==
  ASSUME BenchPlaces, program \in BenchPrograms
  PROVE  ReadersApart
<1> SUFFICES ASSUME RandomReads, NEW t \in Threads, NEW u \in Threads, t < u,
                    request[t].len > 0, request[u].len > 0
             PROVE  request[t].off + request[t].len <= request[u].off
  BY DEF ReadersApart, RandomReads
<1> DEFINE g == Rounded(G_IOSIZE)
<1>1. /\ G_IOSIZE \in Nat \ {0}
      /\ request[t].len = g /\ PartPlace(t, request[t].off) /\ PartPlace(u, request[u].off)
  BY DEF BenchPlaces
<1>2. g \in Nat /\ G_IOSIZE <= g
  BY <1>1, RoundedUp
<1>3. t \in Nat /\ u \in Nat /\ Part \in Nat
  BY ThreadNumbers, BenchAssumption, DivMod DEF Part
<1>4. t * Part \in Nat /\ u * Part \in Nat /\ t * Part + Part <= u * Part
  BY <1>3, Scaled
<1>5. /\ PartStart(t) \in Nat /\ PartStart(t) <= t * Part
      /\ PartStart(u) \in Nat /\ u * Part < PartStart(u) + G_IOSIZE
  BY <1>1, <1>4, AlignedDown DEF PartStart
<1>6. /\ request[t].off \in Nat /\ request[u].off \in Nat
      /\ request[t].off + 2 * g <= PartStart(t) + Part
      /\ PartStart(u) <= request[u].off
  BY <1>1 DEF PartPlace
<1> HIDE DEF g
<1>7. QED
  BY <1>1, <1>2, <1>3, <1>4, <1>5, <1>6

(* Threads keep to places of their own, although their parts of the space  *)
(* are rounded down to a request and requests are rounded up to blocks:    *)
(* the random readers of bench and the threads of one direction of load,   *)
(* except sequential writers, who share a counter.                         *)
THEOREM ThreadsKeepApart == Spec => []ThreadsApart
<1>1. ApartInv => ThreadsApart
  <2> SUFFICES ASSUME ApartInv PROVE ReadersApart /\ LoadApart
    BY DEF ThreadsApart
  <2>1. ReadersApart
    <3>1. CASE program \in BenchPrograms
      BY <3>1, ReadersAreApart DEF ApartInv
    <3>2. CASE program \notin BenchPrograms
      BY <3>2 DEF ReadersApart
    <3>3. QED
      BY <3>1, <3>2
  <2>2. LoadApart
    <3>1. CASE program = "load"
      BY <3>1, LoadIsApart DEF ApartInv
    <3>2. CASE program # "load"
      BY <3>2 DEF LoadApart
    <3>3. QED
      BY <3>1, <3>2
  <2>3. QED
    BY <2>1, <2>2
<1>2. QED
  BY <1>1, ApartStart, ApartStep, PTL DEF Spec

-----------------------------------------------------------------------------
(* Arithmetic.                                                             *)

LEMMA DivBelow ==
  ASSUME NEW n \in Nat, NEW k \in Nat, NEW c \in Nat \ {0}, n < k * c
  PROVE  n \div c \in Nat /\ n \div c < k
<1> DEFINE q == n \div c
           r == n % c
<1>1. q \in Nat /\ r \in Nat /\ n = c * q + r
  BY DivMod
<1> HIDE DEF q, r
<1>2. ASSUME k <= q PROVE FALSE
  <2>1. PICK d \in Nat : q = k + d
    <3>1. q - k \in Nat /\ q = k + (q - k)
      BY <1>1, <1>2
    <3>2. QED
      BY <3>1
  <2>2. c * q = k * c + c * d /\ c * d \in Nat /\ k * c \in Nat
    BY <2>1
  <2>3. QED
    BY <1>1, <2>2
<1>3. q < k
  BY <1>1, <1>2
<1>4. QED
  BY <1>1, <1>3 DEF q

(* The table has an entry for the stripe of an address up to SLACK stripes *)
(* past the user space, and finds one for what is before it.               *)
LEMMA HasEntry ==
  ASSUME NEW x \in Int, -1 <= x, x <= USER_SPACE_LEN + SLACK * SSTRIPE_DATASIZE
  PROVE  user2stripe(x) <= LastEntry
<1> DEFINE s == SSTRIPE_DATASIZE
           q == USER_SPACE_LEN \div s
           m == USER_SPACE_LEN % s
           k == q + SLACK + 1
<1>1. /\ SCHUNK_SIZE \in Nat \ {0} /\ DATACHUNK_NUM \in Nat \ {0}
      /\ USER_SPACE_LEN \in Nat /\ SLACK \in Nat
  BY LayoutAssumption, DriversAssumption
<1>2. s = SCHUNK_SIZE * DATACHUNK_NUM /\ s \in Nat \ {0}
  BY <1>1 DEF SSTRIPE_DATASIZE
<1>3. q \in Nat /\ m \in 0 .. s - 1 /\ USER_SPACE_LEN = s * q + m
  BY <1>1, <1>2, DivMod
<1>4. LastEntry = q + SLACK
  BY DEF LastEntry
<1> HIDE DEF s, q, m
<1>5. CASE x \in Nat
  <2>1. k \in Nat /\ x < k * s
    <3>1. s * q \in Nat /\ SLACK * s \in Nat /\ k * s = s * q + SLACK * s + s
      BY <1>1, <1>2, <1>3
    <3>2. x <= s * q + m + SLACK * s
      <4>1. x <= USER_SPACE_LEN + SLACK * s
        BY DEF s
      <4>2. QED
        BY <1>3, <3>1, <4>1
    <3>3. QED
      BY <1>1, <1>2, <1>3, <1>5, <3>1, <3>2
  <2>2. k * s = (k * DATACHUNK_NUM) * SCHUNK_SIZE
    BY <1>1, <1>2, <1>3
  <2>3. k * DATACHUNK_NUM \in Nat
    BY <1>1, <2>1
  <2> HIDE DEF k
  <2>4. /\ x \div SCHUNK_SIZE \in Nat
        /\ x \div SCHUNK_SIZE < k * DATACHUNK_NUM
    BY <1>1, <1>5, <2>1, <2>2, <2>3, DivBelow
  <2>5. user2stripe(x) \in Nat /\ user2stripe(x) < k
    BY <1>1, <2>1, <2>4, DivBelow DEF user2stripe
  <2>6. QED
    BY <1>1, <1>3, <1>4, <2>5 DEF k
<1>6. CASE x = -1
  <2>1. \A c \in Nat \ {0} : (-1) \div c = -1
    OBVIOUS
  <2>2. user2stripe(x) = -1
    BY <1>1, <1>6, <2>1 DEF user2stripe
  <2>3. QED
    BY <1>1, <1>3, <1>4, <2>2
<1>7. QED
  BY <1>5, <1>6

(* So it has for what lies within the space its entries cover.             *)
LEMMA TableHas ==
  ASSUME NEW x \in Nat, x < TableSpace
  PROVE  user2stripe(x) <= LastEntry
<1> DEFINE k == LastEntry + 1
           s == SSTRIPE_DATASIZE
<1>1. /\ SCHUNK_SIZE \in Nat \ {0} /\ DATACHUNK_NUM \in Nat \ {0}
      /\ USER_SPACE_LEN \in Nat /\ SLACK \in Nat
  BY LayoutAssumption, DriversAssumption
<1>2. s = SCHUNK_SIZE * DATACHUNK_NUM /\ s \in Nat \ {0}
  BY <1>1 DEF SSTRIPE_DATASIZE
<1> HIDE DEF s
<1>3. USER_SPACE_LEN \div s \in Nat
  BY <1>1, <1>2, DivMod
<1>4. LastEntry \in Nat /\ k \in Nat
  BY <1>1, <1>3 DEF LastEntry, s
<1>5. x < k * s
  BY DEF TableSpace, s
<1> HIDE DEF k
<1>6. k * s = (k * DATACHUNK_NUM) * SCHUNK_SIZE /\ k * DATACHUNK_NUM \in Nat
  BY <1>1, <1>2, <1>4
<1>7. /\ x \div SCHUNK_SIZE \in Nat
      /\ x \div SCHUNK_SIZE < k * DATACHUNK_NUM
  BY <1>1, <1>5, <1>6, DivBelow
<1>8. user2stripe(x) \in Nat /\ user2stripe(x) < k
  BY <1>1, <1>4, <1>7, DivBelow DEF user2stripe
<1>9. QED
  BY <1>4, <1>8 DEF k

-----------------------------------------------------------------------------
(* The replays.                                                            *)

LEMMA ReplayServes ==
  ASSUME SampleInv, program \in TracePrograms, NEW t \in Threads, wpc[t] = "serve"
  PROVE  /\ Length(t) \in Nat /\ Length(t) <= AcceptedMBs * MB
         /\ Offset(t) \in Nat /\ Offset(t) <= USER_SPACE_LEN
<1>1. TraceInv
  BY DEF SampleInv, CursorInv
<1>2. req[t].off \in 1 .. Len(trace) /\ req[t].len \in 1 .. Len(trace)
  BY DEF SampleInv, LengthInv, HasOffset, HasLength
<1>3. /\ trace[req[t].off].off \in Nat /\ trace[req[t].len].len \in Nat
      /\ trace[req[t].len].len <= AcceptedMBs * MB
  BY <1>1, <1>2, KeptLines DEF TraceInv
<1>4. USER_SPACE_LEN \in Nat \ {0}
  BY DriversAssumption
<1>5. \A o \in Nat : Fit(o) \in Nat /\ Fit(o) <= USER_SPACE_LEN
  <2> SUFFICES ASSUME NEW o \in Nat
               PROVE  Fit(o) \in Nat /\ Fit(o) <= USER_SPACE_LEN
    OBVIOUS
  <2>1. o % USER_SPACE_LEN \in Nat /\ o % USER_SPACE_LEN < USER_SPACE_LEN
    BY <1>4, DivMod
  <2>2. QED
    BY <1>4, <2>1 DEF Fit
<1>6. QED
  BY <1>3, <1>5 DEF Length, Offset

LEMMA ReplayIsInBuffer == SampleInv => ReplayInBuffer
<1> SUFFICES ASSUME SampleInv, NEW t \in Threads,
                    wpc[t] = "serve", program = "trace_st"
             PROVE  ~PastBuffer(t)
  BY DEF ReplayInBuffer
<1>1. BufferMBs[program] = AcceptedMBs /\ AcceptedMBs * MB \in Nat
  BY TraceAssumption
<1>2. program \in TracePrograms
  BY DEF TracePrograms
<1>3. QED
  BY <1>1, <1>2, ReplayServes DEF PastBuffer

LEMMA ReplayIsInTable ==
  ASSUME SampleInv, program \in TracePrograms
  PROVE  ReplayInTable
<1> SUFFICES ASSUME NEW t \in Threads, wpc[t] = "serve",
                    Length(t) <= SLACK * SSTRIPE_DATASIZE
             PROVE  ~PastTable(t)
  BY DEF ReplayInTable
<1> DEFINE n == Length(t)
           o == Offset(t)
<1>1. n \in Nat /\ o \in Nat /\ o <= USER_SPACE_LEN
  BY ReplayServes
<1>2. USER_SPACE_LEN \in Nat /\ SLACK * SSTRIPE_DATASIZE \in Nat
  BY DriversAssumption, LayoutAssumption DEF SSTRIPE_DATASIZE
<1> HIDE DEF n, o
<1>3. /\ o + n - 1 \in Int /\ -1 <= o + n - 1
      /\ o + n - 1 <= USER_SPACE_LEN + SLACK * SSTRIPE_DATASIZE
  <2>1. n <= SLACK * SSTRIPE_DATASIZE
    BY DEF n
  <2>2. QED
    BY <1>1, <1>2, <2>1
<1>4. user2stripe(o + n - 1) <= LastEntry
  BY <1>3, HasEntry
<1>5. user2stripe(o + n - 1) \in Int /\ LastEntry \in Int
  <2>1. SCHUNK_SIZE \in Nat \ {0} /\ DATACHUNK_NUM \in Nat \ {0}
        /\ SLACK \in Nat /\ SSTRIPE_DATASIZE \in Nat \ {0}
    BY LayoutAssumption, DriversAssumption DEF SSTRIPE_DATASIZE
  <2>2. o + n - 1 \in Int
    BY <1>3
  <2>3. \A x \in Int : \A c \in Nat \ {0} : x \div c \in Int
    OBVIOUS
  <2>4. QED
    BY <1>2, <2>1, <2>2, <2>3 DEF user2stripe, LastEntry
<1>6. QED
  BY <1>4, <1>5 DEF n, o, PastTable

-----------------------------------------------------------------------------
(* Counting: n sequential writers, of c requests each.  Of w and k, the    *)
(* places and loop variables of the threads: the requests of their loops   *)
(* the threads of T have yet to take an offset for, and those of the first *)
(* loop; l counts the loops.                                               *)

Rest(T, c, w, k) ==
  {p \in T \X (0 .. c - 1) : \/ w[p[1]] = "io" /\ k[p[1]] <= p[2]
                             \/ w[p[1]] = "count" /\ k[p[1]] < p[2]}

First(T, c, w, k, l) ==
  {p \in T \X (0 .. c - 1) : /\ l[p[1]] = 0
                             /\ \/ w[p[1]] \in {"loop", "reset"}
                                \/ w[p[1]] = "io" /\ k[p[1]] <= p[2]}

LEMMA Pairs ==
  ASSUME NEW T, IsFiniteSet(T), NEW c \in Nat, NEW S \in SUBSET (T \X (0 .. c - 1))
  PROVE  /\ IsFiniteSet(S) /\ Cardinality(S) \in Nat
         /\ Cardinality(T) \in Nat /\ Cardinality(T) * c \in Nat
         /\ Cardinality(S) <= Cardinality(T) * c
         /\ Cardinality(T \X (0 .. c - 1)) = Cardinality(T) * c
<1> DEFINE A == T \X (0 .. c - 1)
<1>1. IsFiniteSet(0 .. c - 1) /\ Cardinality(0 .. c - 1) = c
  BY NumbersBelow
<1>2. IsFiniteSet(A) /\ Cardinality(A) = Cardinality(T) * c
  BY <1>1, FS_Product
<1> HIDE DEF A
<1>3. IsFiniteSet(S) /\ Cardinality(S) <= Cardinality(A)
  <2>1. S \in SUBSET A
    BY DEF A
  <2>2. QED
    BY <1>2, <2>1, FS_Subset
<1>4. Cardinality(S) \in Nat /\ Cardinality(T) \in Nat
  BY <1>3, FS_CardinalityType
<1>5. Cardinality(T) * c \in Nat
  BY <1>4
<1>6. QED
  BY <1>2, <1>3, <1>4, <1>5 DEF A

LEMMA RestFits ==
  ASSUME NEW T, IsFiniteSet(T), NEW c \in Nat, NEW w, NEW k
  PROVE  /\ IsFiniteSet(Rest(T, c, w, k)) /\ Cardinality(Rest(T, c, w, k)) \in Nat
         /\ Cardinality(T) * c \in Nat
         /\ Cardinality(Rest(T, c, w, k)) <= Cardinality(T) * c
<1>1. Rest(T, c, w, k) \in SUBSET (T \X (0 .. c - 1))
  BY DEF Rest
<1>2. QED
  BY <1>1, Pairs

LEMMA Fewer ==
  ASSUME NEW R, IsFiniteSet(R), NEW S \in SUBSET R
  PROVE  Cardinality(S) \in Nat /\ Cardinality(S) <= Cardinality(R)
  BY FS_Subset, FS_CardinalityType

LEMMA OneLess ==
  ASSUME NEW R, IsFiniteSet(R), NEW x \in R, NEW S \in SUBSET (R \ {x})
  PROVE  Cardinality(S) \in Nat /\ Cardinality(S) + 1 <= Cardinality(R)
<1>1. /\ IsFiniteSet(R \ {x}) /\ Cardinality(R) \in Nat
      /\ Cardinality(R \ {x}) = Cardinality(R) - 1
  BY FS_RemoveElement, FS_CardinalityType
<1>2. Cardinality(S) \in Nat /\ Cardinality(S) <= Cardinality(R \ {x})
  BY <1>1, Fewer
<1>3. QED
  BY <1>1, <1>2

(* The slots of n writers of c requests each, of size a, in all units: the *)
(* writers' shares fit, a counter not past them is at one of them at most, *)
(* and one that is past them has passed every share.                       *)
LEMMA SharesOfSlots ==
  ASSUME NEW all \in Nat, NEW a \in Nat \ {0}, NEW n \in Nat \ {0}
  PROVE  /\ all \div a \in Nat /\ (all \div a) \div n \in Nat
         /\ n * ((all \div a) \div n) \in Nat
         /\ n * ((all \div a) \div n) <= all \div a
         /\ a * (all \div a) \in Nat /\ a * (all \div a) <= all
<1>1. /\ all \div a \in Nat /\ a * (all \div a) = o_align(all, a)
      /\ o_align(all, a) \in Nat /\ o_align(all, a) <= all
  BY AlignedDown
<1>2. /\ (all \div a) \div n \in Nat
      /\ n * ((all \div a) \div n) = o_align(all \div a, n)
      /\ o_align(all \div a, n) \in Nat /\ o_align(all \div a, n) <= all \div a
  BY <1>1, AlignedDown
<1>3. QED
  BY <1>1, <1>2

LEMMA Scaling ==
  ASSUME NEW x \in Nat, NEW y \in Nat, x <= y, NEW a \in Nat
  PROVE  x * a \in Nat /\ y * a \in Nat /\ x * a <= y * a
<1>1. PICK d \in Nat : y = x + d
  <2>1. y - x \in Nat /\ y = x + (y - x)
    OBVIOUS
  <2>2. QED
    BY <2>1
<1>2. y * a = x * a + d * a /\ x * a \in Nat /\ d * a \in Nat
  BY <1>1
<1>3. QED
  BY <1>2

LEMMA PastOrNot ==
  ASSUME NEW all \in Nat, NEW a \in Nat \ {0}, NEW s \in Nat
  PROVE  s * a <= all <=> s <= all \div a
<1> DEFINE q == all \div a
           m == all % a
<1>1. q \in Nat /\ m \in 0 .. a - 1 /\ all = a * q + m
  BY DivMod
<1> HIDE DEF q, m
<1>2. ASSUME s <= q PROVE s * a <= all
  <2>1. s * a \in Nat /\ q * a \in Nat /\ s * a <= q * a
    BY <1>1, <1>2, Scaling
  <2>2. QED
    BY <1>1, <2>1
<1>3. ASSUME q + 1 <= s PROVE ~(s * a <= all)
  <2>1. s * a \in Nat /\ (q + 1) * a \in Nat /\ (q + 1) * a <= s * a
    BY <1>1, <1>3, Scaling
  <2>2. (q + 1) * a = a * q + a
    BY <1>1
  <2>3. QED
    BY <1>1, <2>1, <2>2
<1>4. s <= q \/ q + 1 <= s
  BY <1>1
<1>5. QED
  BY <1>2, <1>3, <1>4 DEF q

(* A slot that someone has yet to take ends below twice the dataset.       *)
LEMMA SlotEnd ==
  ASSUME NEW all \in Nat, NEW a \in Nat \ {0}, NEW n \in Nat \ {0}, NEW s \in Nat,
         s + 1 <= (all \div a) + n * ((all \div a) \div n)
  PROVE  s * a \in Nat /\ s * a + a <= 2 * all
<1> DEFINE q == all \div a
           x == n * (q \div n)
<1>1. q \in Nat /\ x \in Nat /\ x <= q /\ a * q \in Nat /\ a * q <= all
  BY SharesOfSlots
<1>2. s + 1 <= q + x
  OBVIOUS
<1> HIDE DEF q, x
<1>3. s + 1 <= 2 * q
  BY <1>1, <1>2
<1>4. (s + 1) * a \in Nat /\ (2 * q) * a \in Nat /\ (s + 1) * a <= (2 * q) * a
  BY <1>1, <1>3, Scaling
<1>5. (s + 1) * a = s * a + a /\ (2 * q) * a = 2 * (a * q) /\ s * a \in Nat
  BY <1>1
<1>6. QED
  BY <1>1, <1>4, <1>5

-----------------------------------------------------------------------------
(* load                                                                    *)

WorkerPlaces == {"none", "loop", "reset", "io", "count", "ended"}

(* The requests of a sequential writer of load.                            *)
Turns == (WRITE_ALL \div WRITE_IOSIZE) \div WRITE_THREAD

(* The counter is past the slots of WRITE_ALL by no more than what writers *)
(* who looked before it was have yet to take.                              *)
WritersAhead ==
  SeqW_Offset + Cardinality(Rest(Writers, Turns, wpc, i))
    <= (WRITE_ALL \div WRITE_IOSIZE) + WRITE_THREAD * Turns

LoadCounts ==
  /\ wpc \in [Threads -> WorkerPlaces]
  /\ Writers # {} /\ ~WRITE_MOD =>
       /\ WritersAhead
       /\ \A t \in Writers : /\ request[t].off \in Nat
                             /\ request[t].off + request[t].len <= 2 * WRITE_ALL

LEMMA LoadWriters ==
  ASSUME build \in Builds, Writers # {}
  PROVE  /\ WRITE_THREAD \in Nat \ {0} /\ IsFiniteSet(Writers)
         /\ Cardinality(Writers) = WRITE_THREAD /\ Writers \subseteq Threads
         /\ WRITE_ALL \in Nat /\ WRITE_IOSIZE \in Nat \ {0}
         /\ WRITE_ALL \div WRITE_IOSIZE \in Nat /\ Turns \in Nat
         /\ WRITE_THREAD * Turns \in Nat
         /\ WRITE_THREAD * Turns <= WRITE_ALL \div WRITE_IOSIZE
<1>1. WRITE_THREAD \in 0 .. NUM_THREADS /\ NUM_THREADS \in Nat
  BY WorkloadAssumption, ThreadNumbers DEF WRITE_THREAD
<1>2. WRITE_THREAD \in Nat \ {0} /\ Writers \subseteq Threads
  BY <1>1 DEF Writers, Threads
<1>3. IsFiniteSet(Writers) /\ Cardinality(Writers) = WRITE_THREAD
  BY <1>2, NumbersBelow DEF Writers
<1>4. WRITE_ALL \in 0 .. USER_IO_SPACE /\ USER_IO_SPACE \in Nat
      /\ WRITE_IOSIZE \in Nat \ {0}
  BY WorkloadAssumption DEF WRITE_ALL
<1>5. WRITE_ALL \in Nat
  BY <1>4
<1>6. QED
  BY <1>2, <1>3, <1>4, <1>5, SharesOfSlots DEF Turns

LEMMA LoadConstants ==
  ASSUME UNCHANGED build
  PROVE  /\ UNCHANGED <<Writers, Turns, WRITE_ALL, WRITE_MOD, WRITE_THREAD>>
         /\ Rest(Writers, Turns, wpc, i)' = Rest(Writers, Turns, wpc', i')
  BY DEF Writers, Turns, WRITE_ALL, WRITE_MOD, WRITE_THREAD, Rest

(* A step that leaves no writer more to take, and one that finds, or sets, *)
(* the counter within the slots.                                           *)
LEMMA StayAhead ==
  ASSUME build \in Builds, Writers # {}, UNCHANGED build,
         SeqW_Offset \in Nat, SeqW_Offset' \in Nat,
         \/ /\ WritersAhead /\ UNCHANGED SeqW_Offset
            /\ Rest(Writers, Turns, wpc', i') \subseteq Rest(Writers, Turns, wpc, i)
         \/ SeqW_Offset' <= WRITE_ALL \div WRITE_IOSIZE
  PROVE  WritersAhead'
<1> DEFINE R == Rest(Writers, Turns, wpc, i)
           S == Rest(Writers, Turns, wpc', i')
           q == WRITE_ALL \div WRITE_IOSIZE
           x == WRITE_THREAD * Turns
<1>1. q \in Nat /\ x \in Nat
  BY LoadWriters
<1>2. IsFiniteSet(R) /\ Cardinality(R) \in Nat
  BY LoadWriters, RestFits
<1>3. Cardinality(S) \in Nat /\ Cardinality(S) <= x
  BY LoadWriters, RestFits
<1>4. WritersAhead' <=> SeqW_Offset' + Cardinality(S) <= q + x
  BY LoadConstants DEF WritersAhead
<1>5. WritersAhead <=> SeqW_Offset + Cardinality(R) <= q + x
  BY DEF WritersAhead
<1>6. S \subseteq R => Cardinality(S) <= Cardinality(R)
  BY <1>2, Fewer
<1>7. \/ /\ SeqW_Offset + Cardinality(R) <= q + x /\ SeqW_Offset' = SeqW_Offset
         /\ S \subseteq R
      \/ SeqW_Offset' <= q
  BY <1>5
<1> HIDE DEF R, S, q, x
<1>8. QED
  BY <1>1, <1>2, <1>3, <1>4, <1>6, <1>7

LEMMA LoadCountsRun ==
  ASSUME LoadPlaces, LoadCounts, NEW t \in Threads, self_thread_worker(t)
  PROVE  LoadCounts'
<1>1. UNCHANGED <<build, info, iosize>>
  BY DEF self_thread_worker, load_own, Write, Read, LoadRequest, SkipRead,
         CountRequest, StartLoop, ResetOffset, EndLoop, EndThread, worker_vars
<1>2. /\ build \in Builds /\ SeqW_Offset \in Nat /\ i \in [Threads -> Nat]
      /\ request \in [Threads -> Places]
      /\ info = LoadInfos /\ iosize = [u \in Threads |-> Size(u)]
  BY DEF LoadPlaces, self_thread_worker, Write, Read, SkipRead, CountRequest,
         LoadRequest, StartLoop, ResetOffset, EndLoop, EndThread, Worker
<1>3. wpc \in [Threads -> WorkerPlaces]
  BY DEF LoadCounts
<1>4. wpc' \in [Threads -> WorkerPlaces]
  BY <1>3 DEF self_thread_worker, Write, Read, LoadRequest, SkipRead, CountRequest,
              StartLoop, ResetOffset, EndLoop, EndThread, Worker, WorkerPlaces
<1> SUFFICES ASSUME Writers # {}, ~WRITE_MOD
             PROVE  /\ WritersAhead'
                    /\ \A u \in Writers :
                         /\ request'[u].off \in Nat
                         /\ request'[u].off + request'[u].len <= 2 * WRITE_ALL
  BY <1>1, <1>4, LoadConstants DEF LoadCounts
<1> DEFINE R == Rest(Writers, Turns, wpc, i)
           S == Rest(Writers, Turns, wpc', i')
           q == WRITE_ALL \div WRITE_IOSIZE
           x == WRITE_THREAD * Turns
<1>5. /\ WritersAhead
      /\ \A u \in Writers : /\ request[u].off \in Nat
                            /\ request[u].off + request[u].len <= 2 * WRITE_ALL
  BY DEF LoadCounts
<1>6. /\ WRITE_THREAD \in Nat \ {0} /\ Writers \subseteq Threads
      /\ WRITE_ALL \in Nat /\ WRITE_IOSIZE \in Nat \ {0} /\ q \in Nat /\ x \in Nat
  BY <1>2, LoadWriters
<1>7. \A u \in Writers : iosize[u] = WRITE_IOSIZE /\ info[u].io_dir = "W"
  BY <1>2, <1>6, LoadInfosAre DEF Size
<1>8. \A u \in Threads \ Writers : info[u].io_dir = "R"
  BY <1>2, LoadInfosAre
<1>9. IsFiniteSet(R) /\ Cardinality(R) \in Nat
  BY <1>2, LoadWriters, RestFits
<1>10. SeqW_Offset + Cardinality(R) <= q + x
  BY <1>5 DEF WritersAhead
<1>11. ASSUME UNCHANGED <<SeqW_Offset, request>>, S \subseteq R
       PROVE  WritersAhead' /\ UNCHANGED request
  BY <1>1, <1>2, <1>5, <1>11, StayAhead
<1>12. CASE Write(t)
  <2>1. t \in Writers
    BY <1>8, <1>12 DEF Write
  <2>2. /\ wpc[t] = "io" /\ i[t] < Turns /\ UNCHANGED i
        /\ wpc' = [wpc EXCEPT ![t] = "count"]
        /\ SeqW_Offset' = SeqW_Offset + 1
        /\ request' = [request EXCEPT ![t] =
                         [off |-> SeqW_Offset * WRITE_IOSIZE, len |-> WRITE_IOSIZE,
                          buf |-> 0]]
    <3>1. info[t].count = Turns
      BY <1>2, <2>1, LoadInfosAre DEF Turns, Sharers
    <3>2. iosize[t] = WRITE_IOSIZE
      BY <1>7, <2>1
    <3>3. QED
      BY <1>12, <3>1, <3>2 DEF Write, LoadRequest, Worker
  <2>3. <<t, i[t]>> \in R /\ S \subseteq R \ {<<t, i[t]>>}
    <3>1. i[t] \in 0 .. Turns - 1
      <4>1. i[t] \in Nat /\ Turns \in Nat
        BY <1>2, LoadWriters
      <4>2. QED
        BY <2>2, <4>1
    <3>2. <<t, i[t]>> \in R
      BY <2>1, <2>2, <3>1 DEF Rest
    <3>3. ASSUME NEW p \in S
          PROVE  p \in R /\ p # <<t, i[t]>>
      <4>1. PICK u \in Writers, k \in 0 .. Turns - 1 : p = <<u, k>>
        BY DEF Rest
      <4>2. (wpc'[u] = "io" /\ i[u] <= k) \/ (wpc'[u] = "count" /\ i[u] < k)
        BY <2>2, <4>1 DEF Rest
      <4>3. CASE u = t
        <5>1. wpc'[u] = "count" /\ i[u] < k /\ i[u] \in Nat /\ k \in Int
          BY <1>2, <1>3, <1>6, <2>1, <2>2, <4>2, <4>3
        <5>2. i[u] <= k /\ k # i[u]
          BY <5>1
        <5>3. QED
          BY <2>2, <4>1, <4>3, <5>2 DEF Rest
      <4>4. CASE u # t
        <5>1. wpc'[u] = wpc[u]
          BY <1>3, <1>6, <2>2, <4>4
        <5>2. QED
          BY <4>1, <4>2, <4>4, <5>1 DEF Rest
      <4>5. QED
        BY <4>3, <4>4
    <3> HIDE DEF R, S
    <3>4. QED
      BY <3>2, <3>3
  <2>4. /\ Cardinality(S) \in Nat /\ Cardinality(S) + 1 <= Cardinality(R)
    <3> HIDE DEF R, S
    <3>1. QED
      BY <1>9, <2>3, OneLess
  <2>5. WritersAhead'
    <3>1. WritersAhead' <=> SeqW_Offset' + Cardinality(S) <= q + x
      BY <1>1, LoadConstants DEF WritersAhead
    <3> HIDE DEF R, S, q, x
    <3>2. SeqW_Offset + 1 + Cardinality(S) <= q + x
      BY <1>2, <1>6, <1>9, <1>10, <2>4
    <3>3. QED
      BY <1>2, <2>2, <2>4, <3>1, <3>2
  <2>6. SeqW_Offset + 1 <= q + x
    <3> HIDE DEF R, S, q, x
    <3>1. QED
      BY <1>2, <1>6, <1>9, <1>10, <2>4
  <2>7. /\ SeqW_Offset * WRITE_IOSIZE \in Nat
        /\ SeqW_Offset * WRITE_IOSIZE + WRITE_IOSIZE <= 2 * WRITE_ALL
    BY <1>2, <1>6, <2>6, SlotEnd DEF Turns
  <2>8. /\ request'[t].off \in Nat
        /\ request'[t].off + request'[t].len <= 2 * WRITE_ALL
        /\ \A u \in Writers \ {t} : request'[u] = request[u]
    BY <1>2, <1>6, <2>1, <2>2, <2>7
  <2>9. QED
    BY <1>5, <2>5, <2>8
<1>13. CASE Read(t)
  <2>1. t \notin Writers
    BY <1>7, <1>13 DEF Read
  <2>2. /\ UNCHANGED <<SeqW_Offset, i>> /\ wpc' = [wpc EXCEPT ![t] = "count"]
        /\ \E r : request' = [request EXCEPT ![t] = r]
    BY <1>13 DEF Read, LoadRequest, Worker
  <2>3. \A u \in Writers : wpc'[u] = wpc[u] /\ request'[u] = request[u]
    BY <1>2, <1>3, <1>6, <2>1, <2>2
  <2>4. S \subseteq R
    BY <2>2, <2>3 DEF Rest
  <2>5. WritersAhead'
    BY <1>1, <1>2, <1>5, <2>2, <2>4, StayAhead
  <2>6. QED
    BY <1>5, <2>3, <2>5
<1>14. CASE SkipRead(t)
  <2>1. t \notin Writers
    BY <1>7, <1>14 DEF SkipRead
  <2>2. UNCHANGED <<SeqW_Offset, i, request>> /\ wpc' = [wpc EXCEPT ![t] = "count"]
    BY <1>14 DEF SkipRead, Worker, worker_vars
  <2>3. \A u \in Writers : wpc'[u] = wpc[u]
    BY <1>3, <1>6, <2>1, <2>2
  <2>4. S \subseteq R
    BY <2>2, <2>3 DEF Rest
  <2>5. QED
    BY <1>5, <1>11, <2>2, <2>4
<1>15. CASE CountRequest(t)
  <2>1. /\ UNCHANGED <<SeqW_Offset, request>> /\ wpc[t] = "count"
        /\ wpc' = [wpc EXCEPT ![t] = "io"] /\ i' = [i EXCEPT ![t] = @ + 1]
    BY <1>15 DEF CountRequest, Worker, worker_vars
  <2>2. ASSUME NEW p \in S PROVE p \in R
    <3>1. PICK u \in Writers, k \in 0 .. Turns - 1 : p = <<u, k>>
      BY DEF Rest
    <3>2. (wpc'[u] = "io" /\ i'[u] <= k) \/ (wpc'[u] = "count" /\ i'[u] < k)
      BY <3>1 DEF Rest
    <3>3. CASE u = t
      <4>1. wpc'[u] = "io" /\ i'[u] = i[u] + 1 /\ i[u] \in Nat /\ k \in Int
        BY <1>2, <1>3, <1>6, <2>1, <3>1, <3>3
      <4>2. i[u] < k
        BY <3>2, <4>1
      <4>3. QED
        BY <2>1, <3>1, <3>3, <4>2 DEF Rest
    <3>4. CASE u # t
      <4>1. wpc'[u] = wpc[u] /\ i'[u] = i[u]
        BY <1>2, <1>3, <1>6, <2>1, <3>4
      <4>2. QED
        BY <3>1, <3>2, <4>1 DEF Rest
    <3>5. QED
      BY <3>3, <3>4
  <2>3. S \subseteq R
    BY <2>2
  <2>4. QED
    BY <1>5, <1>11, <2>1, <2>3
<1>16. CASE StartLoop(t, WRITE_ALL)
  <2> DEFINE past == info[t].io_dir = "W" /\ SeqW_Offset * iosize[t] > WRITE_ALL
  <2>1. /\ wpc[t] = "loop" /\ wpc' = [wpc EXCEPT ![t] = IF past THEN "reset" ELSE "io"]
        /\ i' = [i EXCEPT ![t] = 0] /\ UNCHANGED <<SeqW_Offset, request>>
    BY <1>16 DEF StartLoop, Worker, worker_vars
  <2>2. CASE t \in Writers /\ ~past
    <3>1. ~(SeqW_Offset * WRITE_IOSIZE > WRITE_ALL)
      BY <1>7, <2>2
    <3>2. SeqW_Offset * WRITE_IOSIZE \in Nat
      BY <1>2, <1>6
    <3>3. SeqW_Offset <= q
      <4>1. SeqW_Offset * WRITE_IOSIZE <= WRITE_ALL
        BY <1>6, <3>1, <3>2
      <4>2. QED
        BY <1>2, <1>6, <4>1, PastOrNot, Zenon
    <3>4. SeqW_Offset' <= q
      BY <2>1, <3>3
    <3>5. WritersAhead'
      BY <1>1, <1>2, <2>1, <3>4, StayAhead
    <3>6. QED
      BY <1>5, <2>1, <3>5
  <2>3. CASE t \notin Writers \/ past
    <3>1. \A u \in Writers : \/ u = t /\ wpc'[u] = "reset"
                             \/ wpc'[u] = wpc[u] /\ i'[u] = i[u]
      BY <1>2, <1>3, <1>6, <2>1, <2>3
    <3>2. S \subseteq R
      BY <3>1 DEF Rest
    <3>3. QED
      BY <1>5, <1>11, <2>1, <3>2
  <2>4. QED
    BY <2>2, <2>3
<1>17. CASE ResetOffset(t)
  <2>1. SeqW_Offset' = 0 /\ UNCHANGED request
    BY <1>17 DEF ResetOffset
  <2>2. SeqW_Offset' \in Nat /\ SeqW_Offset' <= q
    BY <1>6, <2>1
  <2>3. WritersAhead'
    BY <1>1, <1>2, <2>2, StayAhead
  <2>4. QED
    BY <1>5, <2>1, <2>3
<1>18. CASE EndLoop(t) \/ EndThread(t)
  <2>1. /\ UNCHANGED <<SeqW_Offset, i, request>>
        /\ \E m \in {"loop", "ended"} : wpc' = [wpc EXCEPT ![t] = m]
    BY <1>18 DEF EndLoop, EndThread, Worker, worker_vars
  <2>2. \A u \in Writers : wpc'[u] \in {"loop", "ended"} \/ wpc'[u] = wpc[u]
    BY <1>3, <1>6, <2>1
  <2>3. S \subseteq R
    BY <2>1, <2>2 DEF Rest
  <2>4. QED
    BY <1>5, <1>11, <2>1, <2>3
<1>19. QED
  BY <1>12, <1>13, <1>14, <1>15, <1>16, <1>17, <1>18 DEF self_thread_worker

LEMMA LoadCountsStep ==
  ASSUME LoadPlaces, LoadCounts, program = "load", [Next]_vars
  PROVE  LoadCounts'
<1> DEFINE R == Rest(Writers, Turns, wpc, i)
           S == Rest(Writers, Turns, wpc', i')
<1>1. build \in Builds /\ SeqW_Offset \in Nat /\ NoRequest.off = 0 /\ NoRequest.len = 0
  BY DEF LoadPlaces, NoRequest
<1>2. wpc \in [Threads -> WorkerPlaces]
  BY DEF LoadCounts
<1>3. ASSUME UNCHANGED <<build, SeqW_Offset>>,
             UNCHANGED request \/ request' = [t \in Threads |-> NoRequest],
             \/ UNCHANGED <<wpc, i>>
             \/ \E m \in {"none", "loop"} : wpc' = [t \in Threads |-> m]
      PROVE  LoadCounts'
  <2>1. wpc' \in [Threads -> WorkerPlaces]
    BY <1>2, <1>3 DEF WorkerPlaces
  <2>2. ASSUME Writers # {}, ~WRITE_MOD
        PROVE  /\ WritersAhead'
               /\ \A u \in Writers :
                    /\ request'[u].off \in Nat
                    /\ request'[u].off + request'[u].len <= 2 * WRITE_ALL
    <3>1. /\ WritersAhead
          /\ \A u \in Writers : /\ request[u].off \in Nat
                                /\ request[u].off + request[u].len <= 2 * WRITE_ALL
      BY <2>2 DEF LoadCounts
    <3>2. Writers \subseteq Threads /\ WRITE_ALL \in Nat
      BY <1>1, <2>2, LoadWriters
    <3>3. S \subseteq R
      <4>1. CASE UNCHANGED <<wpc, i>>
        BY <4>1
      <4>2. CASE \E m \in {"none", "loop"} : wpc' = [t \in Threads |-> m]
        BY <3>2, <4>2 DEF Rest
      <4>3. QED
        BY <1>3, <4>1, <4>2
    <3>4. WritersAhead'
      BY <1>1, <1>3, <2>2, <3>1, <3>3, StayAhead
    <3>5. \A u \in Writers : request'[u] \in {request[u], NoRequest}
      BY <1>3, <3>2
    <3>6. QED
      BY <1>1, <3>1, <3>2, <3>4, <3>5
  <2>3. QED
    BY <1>3, <2>1, <2>2, LoadConstants DEF LoadCounts
<1>4. CASE LoadMain
  <2>1. CASE StartLoad
    <3>1. /\ UNCHANGED <<build, SeqW_Offset>> /\ wpc' = [t \in Threads |-> "loop"]
          /\ request' = [t \in Threads |-> NoRequest]
      BY <2>1 DEF StartLoad, Create
    <3>2. QED
      BY <1>3, <3>1
  <2>2. CASE ~StartLoad
    BY <1>3, <1>4, <2>2
       DEF LoadMain, PrintNothing, PrintLoad, StartCollector, JoinWorkers,
           JoinCollector, load_own, worker_vars
  <2>3. QED
    BY <2>1, <2>2
<1>5. CASE \E t \in Threads : self_thread_worker(t)
  BY <1>5, LoadCountsRun
<1>6. CASE LoadCollector \/ UNCHANGED vars
  <2>1. UNCHANGED <<build, SeqW_Offset, request, wpc, i>>
    BY <1>6 DEF LoadCollector, CollectorStep, collector_run_st, collector_run_md,
       collector_run_load, collector_run, vars, shared_vars, load_own, worker_vars
  <2>2. QED
    BY <1>3, <2>1
<1>7. QED
  BY <1>4, <1>5, <1>6, LoadSteps

LEMMA LoadCountsStart == Init => LoadCounts
<1> SUFFICES ASSUME Init PROVE LoadCounts
  OBVIOUS
<1>1. /\ wpc = [t \in Threads |-> "none"] /\ SeqW_Offset = 0 /\ build \in Builds
      /\ request = [t \in Threads |-> NoRequest]
  BY DEF Init, ReplayInit, SharedInit, WorkerInit, LoadInit
<1>2. wpc \in [Threads -> WorkerPlaces]
  BY <1>1 DEF WorkerPlaces
<1>3. ASSUME Writers # {}
      PROVE  /\ WritersAhead
             /\ \A t \in Writers : /\ request[t].off \in Nat
                                   /\ request[t].off + request[t].len <= 2 * WRITE_ALL
  <2>1. /\ Writers \subseteq Threads /\ WRITE_ALL \in Nat
        /\ WRITE_ALL \div WRITE_IOSIZE \in Nat /\ WRITE_THREAD * Turns \in Nat
    BY <1>1, <1>3, LoadWriters
  <2>2. Rest(Writers, Turns, wpc, i) = {}
    BY <1>1, <2>1 DEF Rest
  <2>3. Cardinality(Rest(Writers, Turns, wpc, i)) = 0
    BY <2>2, FS_EmptySet
  <2>4. WritersAhead
    BY <1>1, <2>1, <2>3 DEF WritersAhead
  <2>5. QED
    BY <1>1, <2>1, <2>4 DEF NoRequest
<1>4. QED
  BY <1>2, <1>3 DEF LoadCounts

LEMMA LoadIsInTable ==
  ASSUME LoadPlaces, LoadCounts
  PROVE  LoadInTable
<1> SUFFICES ASSUME NEW t \in Threads, request[t].len > 0
             PROVE  /\ user2stripe(request[t].off + request[t].len - 1) <= LastEntry
                    /\ info[t].io_dir = "W" /\ ~WRITE_MOD =>
                         request[t].off + request[t].len <= 2 * WRITE_ALL
  BY DEF LoadInTable
<1> DEFINE o == request[t].off
           n == request[t].len
<1>1. ~(NoRequest.len > 0)
  BY DEF NoRequest
<1>2. /\ build \in Builds /\ info = LoadInfos
      /\ request \in [Threads -> Places]
      /\ t \in Readers \/ WRITE_MOD => n = Size(t) /\ OwnPlace(t, o)
  BY <1>1 DEF LoadPlaces
<1>3. o \in Int /\ n \in Int /\ n > 0
  BY <1>2 DEF Places
<1>4. USER_SPACE_LEN \in Nat /\ SLACK * SSTRIPE_DATASIZE \in Nat
  BY DriversAssumption, LayoutAssumption DEF SSTRIPE_DATASIZE
<1>5. /\ o \in Nat /\ o + n <= USER_SPACE_LEN
      /\ info[t].io_dir = "W" /\ ~WRITE_MOD => o + n <= 2 * WRITE_ALL
  <2>1. CASE t \in Readers \/ WRITE_MOD
    <3>1. n = Size(t) /\ \E m \in Nat : o = Start(t) + m * Size(t)
                                        /\ (m + 1) * Size(t) <= Share(t)
      BY <1>2, <2>1 DEF OwnPlace
    <3>2. PICK m \in Nat : o = Start(t) + m * n /\ (m + 1) * n <= Share(t)
      BY <3>1
    <3>3. /\ Start(t) \in Nat /\ Share(t) \in Nat /\ Number(t) * Share(t) \in Nat
          /\ Start(t) <= Number(t) * Share(t)
          /\ Number(t) * Share(t) + Share(t) <= USER_SPACE_LEN
      BY <1>2, LoadShares
    <3> DEFINE start == Start(t)
               share == Share(t)
               base == Number(t) * share
    <3>4. ~(info[t].io_dir = "W" /\ ~WRITE_MOD)
      BY <1>2, <2>1, LoadInfosAre DEF Readers
    <3>5. /\ start \in Nat /\ share \in Nat /\ base \in Nat /\ start <= base
          /\ base + share <= USER_SPACE_LEN
          /\ o = start + m * n /\ (m + 1) * n <= share
      BY <3>2, <3>3
    <3> HIDE DEF start, share, base, o, n
    <3>6. (m + 1) * n = m * n + n /\ m * n \in Nat
      BY <1>3, <3>2
    <3>7. QED
      BY <1>3, <1>4, <3>4, <3>5, <3>6
  <2>2. CASE t \in Writers /\ ~WRITE_MOD
    <3>1. o \in Nat /\ o + n <= 2 * WRITE_ALL
      BY <2>2 DEF LoadCounts
    <3>2. 2 * WRITE_ALL <= USER_SPACE_LEN
      BY <1>2, <2>2, WorkloadAssumption DEF WRITE_ALL, WRITE_MOD
    <3>3. WRITE_ALL \in Nat
      BY <1>2, <2>2, LoadWriters
    <3> HIDE DEF o, n
    <3>4. QED
      BY <1>3, <1>4, <3>1, <3>2, <3>3
  <2>3. QED
    BY <2>1, <2>2 DEF Readers
<1> HIDE DEF o, n
<1>6. user2stripe(o + n - 1) <= LastEntry
  <2>1. o + n - 1 \in Int /\ -1 <= o + n - 1
        /\ o + n - 1 <= USER_SPACE_LEN + SLACK * SSTRIPE_DATASIZE
    BY <1>3, <1>4, <1>5
  <2>2. QED
    BY <2>1, HasEntry
<1>7. QED
  BY <1>5, <1>6 DEF o, n

-----------------------------------------------------------------------------
(* bench and main: the tests and their threads.                            *)

(* The test that writes sequentially.                                      *)
WriteTest == IF program = "bench" THEN 3 ELSE 1

BenchState ==
  /\ LOOP \in Nat \ {0} /\ SeqW_Offset \in Nat
  /\ program = "main" => G_IOSIZE = IO_SIZE
  /\ G_IOSIZE \in IOSizes
  /\ wpc \in [Threads -> WorkerPlaces \ {"count"}]
  /\ i \in [Threads -> Nat] /\ loop \in [Threads -> Nat]
  /\ writes \in [Slots -> Nat] /\ test \in Nat
  /\ mpc \in {"start", "join", "show", "done", "aborted"}
  /\ mpc \notin {"join", "aborted"} => wpc = [t \in Threads |-> "none"]

NotStarted ==
  /\ mpc \in {"start", "aborted"} /\ test = 1
  /\ info = [t \in Threads |-> NoInfo]
  /\ request = [t \in Threads |-> NoRequest]
  /\ wpc = [t \in Threads |-> "none"]

(* The infos of a test: all threads do the same.                           *)
OneKind(infos) ==
  \A t \in Threads :
    /\ infos[t].io_size = G_IOSIZE /\ infos[t].count = count
    /\ infos[t].io_dir = infos[0].io_dir /\ infos[t].is_rand = infos[0].is_rand
    /\ infos[t].offset \in {0, PartStart(t)} /\ infos[t].io_dir \in {"R", "W"}
    /\ program = "main" => infos[t].offset = PartStart(t) /\ ~infos[t].is_rand

(* A place with an entry in the table.                                     *)
InSpace(o, n) == o \in Nat /\ o + n <= TableSpace

(* The k-th request of a loop: its place in the buffer, and in the space,  *)
(* which is exact when main reads it.                                      *)
KthRequest(t, k) ==
  /\ request[t].len = Rounded(G_IOSIZE)
  /\ request[t].buf = k * Rounded(G_IOSIZE)
  /\ program = "main" /\ Sequential("R") =>
       request[t].off = PartStart(t) + k * Rounded(G_IOSIZE)
  /\ ~Sequential("W") => InSpace(request[t].off, request[t].len)

ThreadInv(t) ==
  /\ iosize[t] \in {G_IOSIZE, Rounded(G_IOSIZE)}
  /\ wpc[t] = "loop" /\ loop[t] = 0 => iosize[t] = G_IOSIZE
  /\ wpc[t] \in {"reset", "io"} => loop[t] < LOOP
  /\ request[t] = NoRequest \/ \E k \in Nat : k < count /\ KthRequest(t, k)

Started ==
  /\ G_IOSIZE > 0 /\ OneKind(info)
  /\ mpc \in {"join", "show"} => info = Tests[test]
  /\ mpc = "start" => test - 1 \in 1 .. Len(Tests) /\ info = Tests[test - 1]
  /\ \A t \in Threads : ThreadInv(t)

BenchControl == BenchState /\ (NotStarted \/ Started)

LEMMA TestNumber ==
  /\ program = "bench" =>
       /\ Len(Tests) = 4
       /\ Tests[1] = test_SeqRead /\ Tests[2] = test_RandRead
       /\ Tests[3] = test_SeqWrite /\ Tests[4] = test_RandWrite
  /\ program = "main" =>
       Len(Tests) = 2 /\ Tests[1] = WriteLoad /\ Tests[2] = ReadLoad
<1> DEFINE r == test_SeqRead
           s == test_RandRead
           v == test_SeqWrite
           w == test_RandWrite
           x == WriteLoad
           y == ReadLoad
<1>1. CASE program = "bench"
  <2>1. Tests = <<r, s, v, w>>
    BY <1>1, TestsAre
  <2> HIDE DEF r, s, v, w
  <2>2. Len(Tests) = 4 /\ Tests[1] = r /\ Tests[2] = s /\ Tests[3] = v /\ Tests[4] = w
    BY <2>1
  <2>3. QED
    BY <1>1, <2>2 DEF r, s, v, w
<1>2. CASE program = "main"
  <2>1. Tests = <<x, y>>
    BY <1>2, TestsAre
  <2> HIDE DEF x, y
  <2>2. Len(Tests) = 2 /\ Tests[1] = x /\ Tests[2] = y
    BY <2>1
  <2>3. QED
    BY <1>2, <2>2 DEF x, y
<1>3. QED
  BY <1>1, <1>2

(* Each test does one thing, and one of them writes sequentially.          *)
LEMMA TestKinds ==
  ASSUME program \in BenchPrograms, NEW n \in 1 .. Len(Tests)
  PROVE  /\ OneKind(Tests[n])
         /\ n = WriteTest <=> (Tests[n][0].io_dir = "W" /\ ~Tests[n][0].is_rand)
<1>1. 0 \in Threads
  BY ThreadNumbers
<1> DEFINE Alike(infos) ==
             \A t \in Threads :
               /\ infos[t].io_size = G_IOSIZE /\ infos[t].count = count
               /\ infos[t].io_dir = infos[0].io_dir
               /\ infos[t].is_rand = infos[0].is_rand
               /\ infos[t].offset \in {0, PartStart(t)}
               /\ infos[t].io_dir \in {"R", "W"}
           AtPart(infos) ==
             \A t \in Threads : infos[t].offset = PartStart(t) /\ ~infos[t].is_rand
<1>2. /\ Alike(test_SeqRead) /\ Alike(test_RandRead)
      /\ Alike(test_SeqWrite) /\ Alike(test_RandWrite)
      /\ Alike(WriteLoad) /\ Alike(ReadLoad)
      /\ AtPart(WriteLoad) /\ AtPart(ReadLoad)
  <2>1. Alike(test_SeqRead)
    BY <1>1 DEF test_SeqRead, Info
  <2>2. Alike(test_RandRead)
    BY <1>1 DEF test_RandRead, Info
  <2>3. Alike(test_SeqWrite)
    BY <1>1 DEF test_SeqWrite, Info
  <2>4. Alike(test_RandWrite)
    BY <1>1 DEF test_RandWrite, Info
  <2>5. Alike(WriteLoad) /\ AtPart(WriteLoad)
    BY <1>1 DEF WriteLoad, Info
  <2>6. Alike(ReadLoad) /\ AtPart(ReadLoad)
    BY <1>1 DEF ReadLoad, Info
  <2>7. QED
    BY <2>1, <2>2, <2>3, <2>4, <2>5, <2>6
<1>3. /\ test_SeqRead[0].io_dir = "R" /\ test_RandRead[0].io_dir = "R"
      /\ test_SeqWrite[0].io_dir = "W" /\ ~test_SeqWrite[0].is_rand
      /\ test_RandWrite[0].is_rand
      /\ WriteLoad[0].io_dir = "W" /\ ~WriteLoad[0].is_rand
      /\ ReadLoad[0].io_dir = "R"
  BY <1>1 DEF test_SeqRead, test_RandRead, test_SeqWrite, test_RandWrite, WriteLoad,
              ReadLoad, Info
<1>4. CASE program = "bench"
  <2>1. /\ Len(Tests) = 4
        /\ Tests[1] = test_SeqRead /\ Tests[2] = test_RandRead
        /\ Tests[3] = test_SeqWrite /\ Tests[4] = test_RandWrite
    BY <1>4, TestNumber
  <2>2. n \in {1, 2, 3, 4}
    BY <2>1
  <2>3. program # "main"
    BY <1>4
  <2>4. OneKind(Tests[n])
    <3>1. Alike(Tests[n])
      <4> HIDE DEF Alike
      <4>1. QED
        BY <1>2, <2>1, <2>2
    <3>2. QED
      BY <2>3, <3>1 DEF OneKind
  <2>5. WriteTest = 3
    BY <1>4 DEF WriteTest
  <2>6. QED
    BY <1>3, <2>1, <2>2, <2>4, <2>5
<1>5. CASE program = "main"
  <2>1. Len(Tests) = 2 /\ Tests[1] = WriteLoad /\ Tests[2] = ReadLoad
    BY <1>5, TestNumber
  <2>2. n \in {1, 2}
    BY <2>1
  <2>3. program # "bench"
    BY <1>5
  <2>4. OneKind(Tests[n])
    <3>1. Alike(Tests[n]) /\ AtPart(Tests[n])
      <4> HIDE DEF Alike, AtPart
      <4>1. QED
        BY <1>2, <2>1, <2>2
    <3>2. QED
      BY <3>1 DEF OneKind
  <2>5. WriteTest = 1
    BY <2>3 DEF WriteTest
  <2>6. QED
    BY <1>3, <2>1, <2>2, <2>4, <2>5
<1>6. QED
  BY <1>4, <1>5 DEF BenchPrograms

LEMMA BenchConstants ==
  ASSUME UNCHANGED <<program, G_IOSIZE>>
  PROVE  /\ UNCHANGED <<count, Slots, WholeBlocks, WriteTest, Tests>>
         /\ \A t : UNCHANGED PartStart(t)
         /\ \A infos : OneKind(infos)' <=> OneKind(infos)
  BY DEF count, Slots, WholeBlocks, WriteTest, Tests, PartStart, OneKind, Info,
         test_SeqRead, test_RandRead, test_SeqWrite, test_RandWrite, WriteLoad,
         ReadLoad

LEMMA BenchControlStart ==
  ASSUME Init, program \in BenchPrograms
  PROVE  BenchControl
<1>1. /\ LOOP \in LOOPs /\ SeqW_Offset = 0 /\ mpc = "start" /\ test = 1
      /\ wpc = [t \in Threads |-> "none"] /\ i = [t \in Threads |-> 0]
      /\ loop = [t \in Threads |-> 0] /\ writes = [s \in Slots |-> 0]
      /\ info = [t \in Threads |-> NoInfo] /\ request = [t \in Threads |-> NoRequest]
  BY DEF Init, ReplayInit, SharedInit, WorkerInit, BenchInit
<1>2. /\ program = "main" => G_IOSIZE = IO_SIZE
      /\ G_IOSIZE \in IOSizes
  BY DEF Init, BenchInit, IOSizes
<1>3. BenchState
  BY <1>1, <1>2, LoopAssumption DEF BenchState, WorkerPlaces
<1>4. QED
  BY <1>1, <1>3 DEF BenchControl, NotStarted

LEMMA KeptRequest ==
  ASSUME UNCHANGED <<program, G_IOSIZE, info>>, NEW t, request'[t] = request[t]
  PROVE  \A k : KthRequest(t, k)' <=> KthRequest(t, k)
  BY DEF KthRequest, Sequential, PartStart, InSpace

(* The sizes the programs are given leave twice the requests of a dataset  *)
(* room in the table.                                                      *)
LEMMA Room ==
  ASSUME BenchPlaces, G_IOSIZE > 0, G_IOSIZE \in IOSizes
  PROVE  /\ TableSpace \in Nat
         /\ DATASET_SIZE \in Nat /\ 2 * DATASET_SIZE <= TableSpace
         /\ Rounded(G_IOSIZE) \in Nat \ {0} /\ DATASET_SIZE \div G_IOSIZE \in Nat
         /\ (DATASET_SIZE \div G_IOSIZE) * Rounded(G_IOSIZE) \in Nat
         /\ 2 * (DATASET_SIZE \div G_IOSIZE) * Rounded(G_IOSIZE)
              = 2 * ((DATASET_SIZE \div G_IOSIZE) * Rounded(G_IOSIZE))
         /\ 2 * (DATASET_SIZE \div G_IOSIZE) * Rounded(G_IOSIZE) <= TableSpace
<1> DEFINE q == DATASET_SIZE \div G_IOSIZE
           g == Rounded(G_IOSIZE)
<1>1. DATASET_SIZE \in Nat /\ 2 * DATASET_SIZE <= TableSpace
      /\ 2 * q * g <= TableSpace
  BY BenchAssumption
<1>2. G_IOSIZE \in Nat \ {0}
  BY DEF BenchPlaces
<1>3. q \in Nat /\ g \in Nat \ {0}
  <2>1. g \in Nat /\ G_IOSIZE <= g
    BY <1>2, RoundedUp
  <2>2. q \in Nat
    BY <1>1, <1>2, DivMod
  <2> HIDE DEF q, g
  <2>3. QED
    BY <1>2, <2>1, <2>2
<1>4. TableSpace \in Nat
  <2>1. SSTRIPE_DATASIZE \in Nat \ {0} /\ USER_SPACE_LEN \in Nat /\ SLACK \in Nat
    BY LayoutAssumption, DriversAssumption DEF SSTRIPE_DATASIZE
  <2>2. LastEntry \in Nat
    BY <2>1, DivMod DEF LastEntry
  <2>3. QED
    BY <2>1, <2>2 DEF TableSpace
<1> HIDE DEF q, g
<1>5. q * g \in Nat /\ 2 * q * g = 2 * (q * g)
  BY <1>3
<1>6. QED
  BY <1>1, <1>3, <1>4, <1>5 DEF q, g

(* Where a thread of a test but SeqWrite puts its k-th request.            *)
LEMMA OffsetsInSpace ==
  ASSUME BenchPlaces, BenchState, Started, NEW t \in Threads, ~Sequential("W"),
         NEW k \in Nat, k = i[t], k < count, NEW o \in Offsets(t, Rounded(G_IOSIZE))
  PROVE  InSpace(o, Rounded(G_IOSIZE))
<1> DEFINE g == Rounded(G_IOSIZE)
           q == DATASET_SIZE \div G_IOSIZE
           base == info[t].offset
<1>1. /\ G_IOSIZE > 0 /\ G_IOSIZE \in Nat \ {0} /\ G_IOSIZE \in IOSizes
      /\ NUM_THREADS \in Nat \ {0} /\ t \in Nat /\ t < NUM_THREADS
  BY ThreadNumbers DEF BenchPlaces, BenchState, Started
<1>2. /\ TableSpace \in Nat /\ DATASET_SIZE \in Nat /\ 2 * DATASET_SIZE <= TableSpace
      /\ g \in Nat \ {0} /\ q \in Nat /\ q * g \in Nat
      /\ 2 * (q * g) <= TableSpace
  BY <1>1, Room
<1>3. info[t].io_dir = "R" \/ info[t].is_rand
  BY DEF Started, OneKind, Sequential
<1>4. Part \in Nat /\ base \in Nat /\ base <= DATASET_SIZE
  <2>1. Part \in Nat /\ NUM_THREADS * Part \in Nat /\ NUM_THREADS * Part <= DATASET_SIZE
    <3>1. Part \in Nat /\ o_align(DATASET_SIZE, NUM_THREADS) = NUM_THREADS * Part
      BY <1>1, <1>2, AlignedDown DEF Part
    <3>2. /\ o_align(DATASET_SIZE, NUM_THREADS) \in Nat
          /\ o_align(DATASET_SIZE, NUM_THREADS) <= DATASET_SIZE
      BY <1>1, <1>2, AlignedDown
    <3>3. QED
      BY <3>1, <3>2
  <2>2. t * Part \in Nat /\ t * Part <= DATASET_SIZE
    <3>1. t * Part \in Nat /\ t * Part + Part <= NUM_THREADS * Part
      BY <1>1, <2>1, Scaled
    <3>2. QED
      BY <1>2, <2>1, <3>1
  <2>3. PartStart(t) \in Nat /\ PartStart(t) <= t * Part
    BY <1>1, <2>2, AlignedDown DEF PartStart
  <2>4. base \in {0, PartStart(t)}
    BY DEF Started, OneKind
  <2> HIDE DEF base
  <2>5. QED
    BY <1>2, <2>1, <2>2, <2>3, <2>4
<1>5. CASE info[t].is_rand
  <2>1. PICK span \in {DATASET_SIZE, Part} :
          o \in {r * g + base : r \in 0 .. (span \div g) - 2}
    BY <1>5 DEF Offsets, Rand_offset_align
  <2>2. span \in Nat /\ span <= DATASET_SIZE
    <3>1. Part <= DATASET_SIZE
      <4>1. NUM_THREADS = 1 + (NUM_THREADS - 1) /\ NUM_THREADS - 1 \in Nat
        BY <1>1
      <4>2. Part \in Nat /\ DATASET_SIZE = NUM_THREADS * Part + (DATASET_SIZE % NUM_THREADS)
            /\ DATASET_SIZE % NUM_THREADS \in Nat
        <5>1. DATASET_SIZE % NUM_THREADS \in 0 .. NUM_THREADS - 1
          BY <1>1, <1>2, DivMod
        <5>2. DATASET_SIZE % NUM_THREADS \in Nat
          BY <1>1, <5>1
        <5>3. /\ Part \in Nat
              /\ DATASET_SIZE = NUM_THREADS * Part + (DATASET_SIZE % NUM_THREADS)
          BY <1>1, <1>2, DivMod DEF Part
        <5>4. QED
          BY <5>2, <5>3
      <4>3. NUM_THREADS * Part = Part + (NUM_THREADS - 1) * Part
            /\ (NUM_THREADS - 1) * Part \in Nat
        BY <4>1, <4>2
      <4> DEFINE u == (NUM_THREADS - 1) * Part
                 v == NUM_THREADS * Part
                 w == DATASET_SIZE % NUM_THREADS
      <4>4. u \in Nat /\ v = Part + u /\ DATASET_SIZE = v + w /\ w \in Nat
        BY <4>2, <4>3
      <4> HIDE DEF u, v, w
      <4>5. QED
        BY <1>4, <4>4
    <3>2. QED
      BY <1>2, <1>4, <2>1, <3>1
  <2>3. PICK r \in 0 .. (span \div g) - 2 : o = r * g + base
    BY <2>1
  <2>4. span \div g \in Nat /\ (span \div g) * g \in Nat /\ (span \div g) * g <= span
    <3>1. /\ span \div g \in Nat /\ o_align(span, g) = g * (span \div g)
          /\ o_align(span, g) \in Nat /\ o_align(span, g) <= span
      BY <1>2, <2>2, AlignedDown
    <3>2. g * (span \div g) = (span \div g) * g
      BY <1>2, <3>1
    <3>3. QED
      BY <3>1, <3>2
  <2>5. r \in Nat /\ r < span \div g
    BY <2>3, <2>4
  <2>6. r * g \in Nat /\ r * g + g <= (span \div g) * g
    BY <1>2, <2>4, <2>5, Scaled
  <2> HIDE DEF g, base
  <2>7. o \in Nat /\ o + g <= DATASET_SIZE + DATASET_SIZE
    BY <1>2, <1>4, <2>2, <2>3, <2>4, <2>6
  <2>8. QED
    BY <1>2, <2>7 DEF InSpace, g
<1>6. CASE ~info[t].is_rand
  <2>1. o = base + k * g
    BY <1>3, <1>6 DEF Offsets
  <2>2. count \in Nat /\ k < q
    <3>1. /\ count \in Nat /\ NUM_THREADS * count \in Nat /\ NUM_THREADS * count <= q
      BY <1>1, <1>2, SharesOfSlots DEF count
    <3>2. count <= NUM_THREADS * count
      <4>1. NUM_THREADS = 1 + (NUM_THREADS - 1) /\ NUM_THREADS - 1 \in Nat
        BY <1>1
      <4> DEFINE c == count
      <4>2. NUM_THREADS * c = c + (NUM_THREADS - 1) * c /\ (NUM_THREADS - 1) * c \in Nat
        BY <3>1, <4>1
      <4> HIDE DEF c
      <4>3. c <= NUM_THREADS * c
        BY <3>1, <4>2 DEF c
      <4>4. QED
        BY <4>3 DEF c
    <3> HIDE DEF q
    <3>3. QED
      BY <1>2, <3>1, <3>2
  <2>3. k * g \in Nat /\ k * g + g <= q * g
    BY <1>2, <2>2, Scaled
  <2> HIDE DEF g, base, q
  <2>4. o \in Nat /\ o + g <= DATASET_SIZE + q * g
    BY <1>2, <1>4, <2>1, <2>3
  <2>5. QED
    BY <1>2, <2>4 DEF InSpace, g
<1>7. QED
  BY <1>5, <1>6

LEMMA BenchControlMain ==
  ASSUME BenchControl, BenchPlaces, program \in BenchPrograms, BenchMain
  PROVE  BenchControl' /\ UNCHANGED <<program, G_IOSIZE, LOOP, SeqW_Offset, writes>>
<1>1. UNCHANGED <<program, G_IOSIZE, LOOP, SeqW_Offset, writes>>
  BY DEF BenchMain, NoSize, StartTest, JoinTest, Show_bench, Show_nothing, Create,
         Show_main, NextTest, Main, BenchIdle, bench_own, worker_vars
<1>2. BenchState /\ (NotStarted \/ Started)
  BY DEF BenchControl
<1>3. test \in 1 .. Len(Tests) /\ G_IOSIZE \in Nat /\ Len(Tests) \in Nat
  <2>1. mpc \in {"start", "join", "show"}
    BY DEF BenchMain, NoSize, StartTest, JoinTest, Show_bench, Show_nothing,
           Show_main, NextTest, Main
  <2>2. QED
    BY <2>1, TestCount DEF BenchPlaces, TestNumbers, BenchPrograms
<1>4. UNCHANGED <<count, Slots, Tests>> /\ \A infos : OneKind(infos)' <=> OneKind(infos)
  BY <1>1, BenchConstants
<1>5. CASE StartTest
  <2>1. /\ G_IOSIZE > 0 /\ mpc' = "join" /\ info' = Tests[test] /\ UNCHANGED test
        /\ wpc' = [t \in Threads |-> "loop"] /\ i' = [t \in Threads |-> 0]
        /\ loop' = [t \in Threads |-> 0]
        /\ iosize' = [t \in Threads |-> Tests[test][t].io_size]
        /\ request' = [t \in Threads |-> NoRequest]
    BY <1>5 DEF StartTest, Main, Create, bench_own
  <2>2. BenchState'
    BY <1>1, <1>2, <1>4, <2>1 DEF BenchState, WorkerPlaces
  <2>3. OneKind(Tests[test])
    BY <1>3, TestKinds
  <2>4. OneKind(info)'
    BY <1>1, <1>4, <2>1, <2>3 DEF OneKind
  <2>5. \A t \in Threads : iosize'[t] = G_IOSIZE
    BY <2>1, <2>3 DEF OneKind
  <2>6. \A t \in Threads : ThreadInv(t)'
    BY <1>1, <2>1, <2>5 DEF ThreadInv
  <2>7. Started'
    BY <1>1, <1>4, <2>1, <2>4, <2>6 DEF Started
  <2>8. QED
    BY <1>1, <2>2, <2>7 DEF BenchControl
<1>6. CASE ~StartTest
  <2>1. /\ UNCHANGED <<i, loop, info, iosize, request>>
        /\ \/ UNCHANGED wpc
           \/ wpc' = [t \in Threads |-> "none"]
    BY <1>6 DEF BenchMain, NoSize, JoinTest, Show_bench, Show_nothing, Show_main,
                NextTest, BenchIdle, worker_vars
  <2>2. \/ mpc = "start" /\ mpc' = "aborted" /\ UNCHANGED <<test, wpc>>
        \/ /\ mpc = "join" /\ mpc' = "show" /\ UNCHANGED test
           /\ wpc' = [t \in Threads |-> "none"]
        \/ /\ mpc = "show" /\ test' = test + 1 /\ UNCHANGED wpc
           /\ mpc' = IF test < Len(Tests) THEN "start" ELSE "done"
        \/ mpc = "show" /\ mpc' = "aborted" /\ UNCHANGED <<test, wpc>>
    BY <1>6 DEF BenchMain, NoSize, JoinTest, Show_bench, Show_nothing, Show_main,
                NextTest, Main, BenchIdle, bench_own
  <2>3. BenchState'
    BY <1>1, <1>2, <1>4, <2>1, <2>2 DEF BenchState, WorkerPlaces
  <2>4. CASE NotStarted
    BY <1>1, <2>1, <2>2, <2>3, <2>4 DEF BenchControl, NotStarted
  <2>5. CASE Started
    <3>1. ASSUME NEW t \in Threads PROVE ThreadInv(t)'
      <4>1. \A k : KthRequest(t, k)' <=> KthRequest(t, k)
        BY <1>1, <2>1, KeptRequest
      <4>2. wpc'[t] = "none" \/ wpc'[t] = wpc[t]
        BY <2>1
      <4>3. ThreadInv(t)
        BY <2>5 DEF Started
      <4>4. UNCHANGED Rounded(G_IOSIZE)
        BY <1>1
      <4>5. QED
        BY <1>1, <1>4, <2>1, <4>1, <4>2, <4>3, <4>4 DEF ThreadInv
    <3>2. /\ G_IOSIZE > 0 /\ OneKind(info)
          /\ mpc \in {"join", "show"} => info = Tests[test]
      BY <2>5 DEF Started
    <3>3. OneKind(info)'
      BY <1>4, <2>1, <3>2 DEF OneKind
    <3>4. /\ mpc' \in {"join", "show"} => info' = Tests[test']
          /\ mpc' = "start" => test' - 1 \in 1 .. Len(Tests) /\ info' = Tests[test' - 1]
      <4>1. mpc' = "start" => test' = test + 1 /\ mpc = "show"
        BY <2>2
      <4>2. test' = test + 1 => test' - 1 = test
        BY <1>3
      <4>3. QED
        BY <1>3, <2>1, <2>2, <3>2, <4>1, <4>2
    <3>5. Started'
      BY <1>1, <1>4, <3>1, <3>2, <3>3, <3>4 DEF Started
    <3>6. QED
      BY <1>1, <2>3, <3>5 DEF BenchControl
  <2>6. QED
    BY <1>1, <1>2, <2>4, <2>5
<1>7. QED
  BY <1>1, <1>5, <1>6

(* What a step of a thread of bench or main is.                            *)
LEMMA BenchThreadStep ==
  ASSUME BenchControl, program \in BenchPrograms, NEW t \in Threads, BenchThread(t)
  PROVE  /\ UNCHANGED <<program, G_IOSIZE, LOOP, test, info>>
         /\ BenchState /\ Started /\ mpc = "join"
         /\ \/ /\ mpc' = "aborted"
               /\ UNCHANGED <<wpc, i, loop, iosize, request, SeqW_Offset, writes>>
            \/ UNCHANGED mpc /\ BenchRequest(t)
            \/ /\ UNCHANGED <<mpc, writes>>
               /\ \/ StartLoop(t, DATASET_SIZE) \/ ResetOffset(t)
                  \/ EndLoop(t) \/ EndThread(t)
<1>1. UNCHANGED <<program, G_IOSIZE, LOOP, test, info>>
  BY DEF BenchThread, thread_worker, RandomByZero, BenchRequest, Request, StartLoop,
         ResetOffset, EndLoop, EndThread, BenchIdle, program_vars, worker_vars,
         bench_own
<1>2. /\ mpc \notin {"done", "aborted"}
      /\ \/ /\ mpc' = "aborted"
            /\ UNCHANGED <<wpc, i, loop, iosize, request, SeqW_Offset, writes>>
         \/ UNCHANGED mpc /\ BenchRequest(t)
         \/ /\ UNCHANGED <<mpc, writes>>
            /\ \/ StartLoop(t, DATASET_SIZE) \/ ResetOffset(t)
               \/ EndLoop(t) \/ EndThread(t)
  BY DEF BenchThread, Halted, thread_worker, RandomByZero, BenchIdle, program_vars,
         worker_vars, bench_own
<1>3. wpc[t] \in {"io", "loop", "reset"}
  BY DEF BenchThread, thread_worker, RandomByZero, BenchRequest, Request, StartLoop,
         ResetOffset, EndLoop, EndThread, Worker
<1>4. wpc # [u \in Threads |-> "none"]
  BY <1>3
<1>5. BenchState /\ mpc = "join"
  BY <1>2, <1>4 DEF BenchControl, BenchState
<1>6. Started
  BY <1>4 DEF BenchControl, NotStarted
<1>7. QED
  BY <1>1, <1>2, <1>5, <1>6

LEMMA BenchControlRun ==
  ASSUME BenchControl, BenchPlaces, program \in BenchPrograms, NEW t \in Threads,
         BenchThread(t)
  PROVE  BenchControl'
<1>1. /\ UNCHANGED <<program, G_IOSIZE, LOOP, test, info>>
      /\ BenchState /\ Started /\ mpc = "join" /\ mpc' \in {"join", "aborted"}
  BY BenchThreadStep
<1>2. G_IOSIZE \in Nat /\ iosize \in [Threads -> Nat] /\ DOMAIN request = Threads
  BY DEF BenchPlaces
<1>3. /\ UNCHANGED <<count, Slots, Tests>>
      /\ \A infos : OneKind(infos)' <=> OneKind(infos)
      /\ UNCHANGED Rounded(G_IOSIZE)
  BY <1>1, BenchConstants
<1> DEFINE g == Rounded(G_IOSIZE)
<1>4. g \in Nat /\ Rounded(g) = g /\ G_IOSIZE <= g
  BY <1>2, RoundedUp
<1>5. /\ wpc \in [Threads -> WorkerPlaces \ {"count"}] /\ LOOP \in Nat
      /\ i \in [Threads -> Nat] /\ loop \in [Threads -> Nat] /\ SeqW_Offset \in Nat
      /\ writes \in [Slots -> Nat]
  BY <1>1 DEF BenchState
<1>6. \A u \in Threads : ThreadInv(u)
  BY <1>1 DEF Started
<1>7. ASSUME wpc' \in [Threads -> WorkerPlaces \ {"count"}],
             i' \in [Threads -> Nat], loop' \in [Threads -> Nat],
             SeqW_Offset' \in Nat, writes' \in [Slots -> Nat],
             \A u \in Threads : ThreadInv(u)'
      PROVE  BenchControl'
  <2>1. BenchState'
    BY <1>1, <1>3, <1>7 DEF BenchState
  <2>2. OneKind(info)'
    BY <1>1, <1>3 DEF Started, OneKind
  <2>3. Started'
    BY <1>1, <1>3, <1>7, <2>2 DEF Started
  <2>4. QED
    BY <2>1, <2>3 DEF BenchControl
<1>8. ASSUME NEW u \in Threads, request'[u] = request[u], iosize'[u] = iosize[u],
             \/ wpc'[u] = wpc[u] /\ loop'[u] = loop[u]
             \/ wpc'[u] = "loop" /\ loop'[u] > 0
             \/ wpc'[u] \in {"reset", "io"} /\ loop'[u] < LOOP
             \/ wpc'[u] = "ended"
      PROVE  ThreadInv(u)'
  <2>1. \A k : KthRequest(u, k)' <=> KthRequest(u, k)
    BY <1>1, <1>8, KeptRequest
  <2>2. ~(wpc'[u] = "loop" /\ loop'[u] > 0 /\ loop'[u] = 0)
    OBVIOUS
  <2>3. QED
    BY <1>1, <1>3, <1>6, <1>8, <2>1, <2>2 DEF ThreadInv
<1>9. CASE UNCHANGED <<wpc, i, loop, iosize, request, SeqW_Offset, writes>>
  BY <1>5, <1>7, <1>8, <1>9
<1>10. CASE BenchRequest(t)
  <2>1. PICK o :
          /\ i[t] < info[t].count /\ wpc[t] = "io"
          /\ wpc' = [wpc EXCEPT ![t] = "io"] /\ i' = [i EXCEPT ![t] = @ + 1]
          /\ o \in Offsets(t, Rounded(iosize[t]))
          /\ request' = [request EXCEPT ![t] =
                           [off |-> o, len |-> Rounded(iosize[t]),
                            buf |-> BufStart(t, Rounded(iosize[t]))]]
          /\ iosize' = [iosize EXCEPT ![t] = Rounded(iosize[t])]
          /\ SeqW_Offset' = NextSlot(t) /\ UNCHANGED loop
          /\ writes' = [s \in Slots |->
                          writes[s] + IF Sequential("W") /\ s = SeqW_Offset
                                      THEN 1 ELSE 0]
    BY <1>10 DEF BenchRequest, Request, Worker
  <2>2. Rounded(iosize[t]) = g
    <3>1. iosize[t] \in {G_IOSIZE, g}
      BY <1>6 DEF ThreadInv
    <3>2. QED
      BY <1>4, <3>1
  <2>3. info[t].count = count
    BY <1>1 DEF Started, OneKind
  <2>4. /\ wpc' \in [Threads -> WorkerPlaces \ {"count"}] /\ i' \in [Threads -> Nat]
        /\ loop' \in [Threads -> Nat] /\ SeqW_Offset' \in Nat
    BY <1>5, <2>1 DEF WorkerPlaces, NextSlot
  <2>5. writes' \in [Slots -> Nat]
    BY <1>5, <2>1
  <2> HIDE DEF g
  <2>6. ASSUME NEW u \in Threads, u # t PROVE ThreadInv(u)'
    <3>1. /\ request'[u] = request[u] /\ iosize'[u] = iosize[u] /\ wpc'[u] = wpc[u]
          /\ loop'[u] = loop[u]
      BY <1>2, <1>5, <2>1, <2>6
    <3>2. QED
      BY <1>8, <3>1
  <2>7. /\ request'[t] = [off |-> o, len |-> g, buf |-> i[t] * g]
        /\ iosize'[t] = g /\ wpc'[t] = "io" /\ loop'[t] = loop[t]
    BY <1>2, <1>5, <2>1, <2>2 DEF BufStart
  <2>8. ASSUME program = "main", Sequential("R")
        PROVE  o = PartStart(t) + i[t] * g
    <3>1. ~info[t].is_rand /\ info[t].io_dir = "R" /\ info[t].offset = PartStart(t)
      BY <1>1, <2>8 DEF Started, OneKind, Sequential
    <3>2. QED
      BY <2>1, <2>2, <3>1 DEF Offsets
  <2>9. PICK k \in Nat : k = i[t] /\ k < count
    BY <1>5, <2>1, <2>3
  <2>10. KthRequest(t, k)'
    <3>1. KthRequest(t, k)' <=>
            /\ request'[t].len = Rounded(G_IOSIZE)
            /\ request'[t].buf = k * Rounded(G_IOSIZE)
            /\ program = "main" /\ Sequential("R") =>
                 request'[t].off = PartStart(t) + k * Rounded(G_IOSIZE)
            /\ ~Sequential("W") => InSpace(request'[t].off, request'[t].len)
      BY <1>1 DEF KthRequest, Sequential, PartStart, InSpace
    <3>2. ~Sequential("W") => InSpace(o, g)
      BY <1>1, <2>1, <2>2, <2>9, OffsetsInSpace DEF g
    <3>3. QED
      BY <2>7, <2>8, <2>9, <3>1, <3>2 DEF g
  <2>11. ThreadInv(t)'
    <3>1. loop[t] < LOOP
      BY <1>6, <2>1 DEF ThreadInv
    <3>2. /\ ThreadInv(t)' <=>
               /\ iosize'[t] \in {G_IOSIZE, g}
               /\ wpc'[t] = "loop" /\ loop'[t] = 0 => iosize'[t] = G_IOSIZE
               /\ wpc'[t] \in {"reset", "io"} => loop'[t] < LOOP
               /\ \/ request'[t] = NoRequest
                  \/ \E j \in Nat : j < count /\ KthRequest(t, j)'
      BY <1>1, <1>3 DEF ThreadInv, g
    <3>3. \E j \in Nat : j < count /\ KthRequest(t, j)'
      BY <2>9, <2>10
    <3>4. QED
      BY <2>7, <3>1, <3>2, <3>3
  <2>12. QED
    BY <1>7, <2>4, <2>5, <2>6, <2>11
<1>11. CASE StartLoop(t, DATASET_SIZE) /\ UNCHANGED writes
  <2>1. /\ loop[t] < LOOP /\ i' = [i EXCEPT ![t] = 0]
        /\ \E m \in {"reset", "io"} : wpc' = [wpc EXCEPT ![t] = m]
        /\ UNCHANGED <<SeqW_Offset, loop, iosize, request>>
    BY <1>11 DEF StartLoop, Worker, worker_vars
  <2>2. /\ wpc' \in [Threads -> WorkerPlaces \ {"count"}] /\ i' \in [Threads -> Nat]
    BY <1>5, <2>1 DEF WorkerPlaces
  <2>3. ASSUME NEW u \in Threads PROVE ThreadInv(u)'
    <3>1. wpc'[u] = wpc[u] \/ (wpc'[u] \in {"reset", "io"} /\ loop'[u] < LOOP)
      BY <1>5, <2>1
    <3>2. QED
      BY <1>8, <2>1, <3>1
  <2>4. QED
    BY <1>5, <1>7, <1>11, <2>1, <2>2, <2>3
<1>12. CASE ResetOffset(t) /\ UNCHANGED writes
  <2>1. /\ wpc[t] = "reset" /\ wpc' = [wpc EXCEPT ![t] = "io"]
        /\ SeqW_Offset' = 0 /\ UNCHANGED <<i, loop, iosize, request>>
    BY <1>12 DEF ResetOffset, Worker
  <2>2. /\ wpc' \in [Threads -> WorkerPlaces \ {"count"}] /\ SeqW_Offset' \in Nat
    BY <1>5, <2>1 DEF WorkerPlaces
  <2>3. loop[t] < LOOP
    BY <1>6, <2>1 DEF ThreadInv
  <2>4. ASSUME NEW u \in Threads PROVE ThreadInv(u)'
    <3>1. wpc'[u] = wpc[u] \/ (wpc'[u] = "io" /\ loop'[u] < LOOP)
      BY <1>5, <2>1, <2>3
    <3>2. QED
      BY <1>8, <2>1, <3>1
  <2>5. QED
    BY <1>5, <1>7, <1>12, <2>1, <2>2, <2>4
<1>13. CASE EndLoop(t) /\ UNCHANGED writes
  <2>1. /\ wpc' = [wpc EXCEPT ![t] = "loop"] /\ loop' = [loop EXCEPT ![t] = @ + 1]
        /\ UNCHANGED <<SeqW_Offset, i, iosize, request>>
    BY <1>13 DEF EndLoop, Worker
  <2>2. /\ wpc' \in [Threads -> WorkerPlaces \ {"count"}] /\ loop' \in [Threads -> Nat]
    BY <1>5, <2>1 DEF WorkerPlaces
  <2>3. ASSUME NEW u \in Threads PROVE ThreadInv(u)'
    <3>1. \/ wpc'[u] = wpc[u] /\ loop'[u] = loop[u]
          \/ wpc'[u] = "loop" /\ loop'[u] > 0
      BY <1>5, <2>1
    <3>2. QED
      BY <1>8, <2>1, <3>1
  <2>4. QED
    BY <1>5, <1>7, <1>13, <2>1, <2>2, <2>3
<1>14. CASE EndThread(t) /\ UNCHANGED writes
  <2>1. /\ wpc' = [wpc EXCEPT ![t] = "ended"]
        /\ UNCHANGED <<SeqW_Offset, i, loop, iosize, request>>
    BY <1>14 DEF EndThread, Worker, worker_vars
  <2>2. wpc' \in [Threads -> WorkerPlaces \ {"count"}]
    BY <1>5, <2>1 DEF WorkerPlaces
  <2>3. ASSUME NEW u \in Threads PROVE ThreadInv(u)'
    <3>1. wpc'[u] = wpc[u] \/ wpc'[u] = "ended"
      BY <1>5, <2>1
    <3>2. QED
      BY <1>8, <2>1, <3>1
  <2>4. QED
    BY <1>5, <1>7, <1>14, <2>1, <2>2, <2>3
<1>15. QED
  BY <1>9, <1>10, <1>11, <1>12, <1>13, <1>14, BenchThreadStep

-----------------------------------------------------------------------------
(* What bench and main write.                                              *)

(* The requests still to be taken: of the first loops of the threads, and  *)
(* of the loops they are in.                                               *)
Togo == Cardinality(First(Threads, count, wpc, i, loop))
Left == Cardinality(Rest(Threads, count, wpc, i))

Filled == \A s \in Slots : s < SeqW_Offset => writes[s] > 0
Written == \A s \in Slots : s < NUM_THREADS * count => writes[s] > 0

(* A thread that is about to reset the counter has seen it past the whole  *)
(* dataset, which is written then; until it is, the first loops have       *)
(* enough to take.                                                         *)
Covering ==
  /\ Written \/ NUM_THREADS * count <= SeqW_Offset + Togo
  /\ (\E t \in Threads : wpc[t] = "reset") => Written

(* The counter is past the dataset by no more than what threads who looked *)
(* before it was have yet to take.                                         *)
Bounded ==
  /\ SeqW_Offset + Left <= (DATASET_SIZE \div G_IOSIZE) + NUM_THREADS * count
  /\ \A t \in Threads :
       /\ request[t].off \in Nat
       /\ request[t].off + request[t].len
            <= 2 * ((DATASET_SIZE \div G_IOSIZE) * Rounded(G_IOSIZE))

Once ==
  /\ SeqW_Offset + Togo = NUM_THREADS * count
  /\ \A s \in Slots : writes[s] = IF s < SeqW_Offset THEN 1 ELSE 0
  /\ \A t \in Threads : wpc[t] # "reset"

WriteInv ==
  /\ Filled /\ Bounded
  /\ WholeBlocks => Covering
  /\ LOOP = 1 => Once

DatasetInv ==
  /\ Sequential("W") => WriteInv
  /\ ~Sequential("W") /\ test <= WriteTest =>
       /\ SeqW_Offset = 0 /\ \A s \in Slots : writes[s] = 0
       /\ program = "main" => NotStarted
  /\ ~Sequential("W") /\ test > WriteTest /\ WholeBlocks => Written

LEMMA Shares ==
  ASSUME BenchPlaces, G_IOSIZE > 0
  PROVE  /\ NUM_THREADS \in Nat \ {0}
         /\ IsFiniteSet(Threads) /\ Cardinality(Threads) = NUM_THREADS
         /\ DATASET_SIZE \in Nat /\ G_IOSIZE \in Nat \ {0}
         /\ count \in Nat /\ NUM_THREADS * count \in Nat
         /\ DATASET_SIZE \div G_IOSIZE \in Nat
         /\ NUM_THREADS * count <= DATASET_SIZE \div G_IOSIZE
         /\ Slots = 0 .. 2 * (NUM_THREADS * count) - 1
<1>1. NUM_THREADS \in Nat \ {0} /\ IsFiniteSet(Threads)
      /\ Cardinality(Threads) = NUM_THREADS
  BY ThreadsFinite
<1>2. DATASET_SIZE \in Nat /\ G_IOSIZE \in Nat \ {0}
  BY BenchAssumption DEF BenchPlaces
<1>3. /\ DATASET_SIZE \div G_IOSIZE \in Nat /\ count \in Nat
      /\ NUM_THREADS * count \in Nat
      /\ NUM_THREADS * count <= DATASET_SIZE \div G_IOSIZE
  BY <1>1, <1>2, SharesOfSlots DEF count
<1>4. Slots = 0 .. 2 * (NUM_THREADS * count) - 1
  <2>1. 2 * NUM_THREADS * count = 2 * (NUM_THREADS * count)
    BY <1>1, <1>3
  <2>2. QED
    BY <1>2, <2>1 DEF Slots
<1>5. QED
  BY <1>1, <1>2, <1>3, <1>4

LEMMA FirstFits ==
  ASSUME NEW T, IsFiniteSet(T), NEW c \in Nat, NEW w, NEW k, NEW l
  PROVE  /\ IsFiniteSet(First(T, c, w, k, l)) /\ Cardinality(First(T, c, w, k, l)) \in Nat
<1>1. First(T, c, w, k, l) \in SUBSET (T \X (0 .. c - 1))
  BY DEF First
<1>2. QED
  BY <1>1, Pairs

LEMMA OneAtMost ==
  ASSUME NEW R, NEW S, IsFiniteSet(S), NEW x, R \ {x} \subseteq S
  PROVE  Cardinality(R) <= Cardinality(S) + 1
<1> DEFINE A == S \cup {x}
<1>1. Cardinality(S) \in Nat
  BY FS_CardinalityType
<1>2. /\ IsFiniteSet(A)
      /\ Cardinality(A) = IF x \in S THEN Cardinality(S) ELSE Cardinality(S) + 1
  BY FS_AddElement
<1>3. R \in SUBSET A
  OBVIOUS
<1> HIDE DEF A
<1>4. Cardinality(R) \in Nat /\ Cardinality(R) <= Cardinality(A)
  BY <1>2, <1>3, Fewer
<1>5. QED
  BY <1>1, <1>2, <1>4

LEMMA WriteNext ==
  ASSUME UNCHANGED <<program, G_IOSIZE>>
  PROVE  /\ Togo' = Cardinality(First(Threads, count, wpc', i', loop'))
         /\ Left' = Cardinality(Rest(Threads, count, wpc', i'))
         /\ Filled' <=> \A s \in Slots : s < SeqW_Offset' => writes'[s] > 0
         /\ Written' <=> \A s \in Slots : s < NUM_THREADS * count => writes'[s] > 0
         /\ Covering' <=>
              /\ Written' \/ NUM_THREADS * count <= SeqW_Offset' + Togo'
              /\ (\E t \in Threads : wpc'[t] = "reset") => Written'
         /\ Bounded' <=>
              /\ SeqW_Offset' + Left'
                   <= (DATASET_SIZE \div G_IOSIZE) + NUM_THREADS * count
              /\ \A t \in Threads :
                   /\ request'[t].off \in Nat
                   /\ request'[t].off + request'[t].len
                        <= 2 * ((DATASET_SIZE \div G_IOSIZE) * Rounded(G_IOSIZE))
         /\ Once' <=>
              /\ SeqW_Offset' + Togo' = NUM_THREADS * count
              /\ \A s \in Slots : writes'[s] = IF s < SeqW_Offset' THEN 1 ELSE 0
              /\ \A t \in Threads : wpc'[t] # "reset"
         /\ WriteInv' <=> /\ Filled' /\ Bounded' /\ (WholeBlocks => Covering')
                          /\ (LOOP' = 1 => Once')
<1>1. UNCHANGED <<count, Slots, WholeBlocks>>
  BY DEF count, Slots, WholeBlocks
<1>2. Togo' = Cardinality(First(Threads, count, wpc', i', loop'))
  BY <1>1 DEF Togo, First
<1>3. Left' = Cardinality(Rest(Threads, count, wpc', i'))
  BY <1>1 DEF Left, Rest
<1>4. Filled' <=> \A s \in Slots : s < SeqW_Offset' => writes'[s] > 0
  BY <1>1 DEF Filled
<1>5. Written' <=> \A s \in Slots : s < NUM_THREADS * count => writes'[s] > 0
  BY <1>1 DEF Written
<1>6. Covering' <=>
        /\ Written' \/ NUM_THREADS * count <= SeqW_Offset' + Togo'
        /\ (\E t \in Threads : wpc'[t] = "reset") => Written'
  BY <1>1 DEF Covering
<1>7. Bounded' <=>
        /\ SeqW_Offset' + Left' <= (DATASET_SIZE \div G_IOSIZE) + NUM_THREADS * count
        /\ \A t \in Threads :
             /\ request'[t].off \in Nat
             /\ request'[t].off + request'[t].len
                  <= 2 * ((DATASET_SIZE \div G_IOSIZE) * Rounded(G_IOSIZE))
  BY <1>1 DEF Bounded
<1>8. Once' <=>
        /\ SeqW_Offset' + Togo' = NUM_THREADS * count
        /\ \A s \in Slots : writes'[s] = IF s < SeqW_Offset' THEN 1 ELSE 0
        /\ \A t \in Threads : wpc'[t] # "reset"
  BY <1>1 DEF Once
<1>9. WriteInv' <=> /\ Filled' /\ Bounded' /\ (WholeBlocks => Covering')
                    /\ (LOOP' = 1 => Once')
  BY <1>1 DEF WriteInv
<1>10. QED
  BY <1>2, <1>3, <1>4, <1>5, <1>6, <1>7, <1>8, <1>9

(* A step that writes nothing, and leaves the requests of the first loops. *)
LEMMA WriteStays ==
  ASSUME BenchPlaces, G_IOSIZE > 0, BenchState, WriteInv,
         UNCHANGED <<program, G_IOSIZE, LOOP, SeqW_Offset, writes, request>>,
         First(Threads, count, wpc', i', loop') = First(Threads, count, wpc, i, loop),
         \/ Rest(Threads, count, wpc', i') \subseteq Rest(Threads, count, wpc, i)
         \/ SeqW_Offset <= DATASET_SIZE \div G_IOSIZE,
         \/ \A t \in Threads : wpc'[t] = "reset" => wpc[t] = "reset"
         \/ LOOP # 1 /\ (WholeBlocks => Written)
  PROVE  WriteInv'
<1> DEFINE R == Rest(Threads, count, wpc, i)
           S == Rest(Threads, count, wpc', i')
           q == DATASET_SIZE \div G_IOSIZE
           x == NUM_THREADS * count
<1>1. /\ q \in Nat /\ x \in Nat /\ x <= q /\ SeqW_Offset \in Nat
  BY Shares DEF BenchState
<1>2. Togo' = Togo /\ Left' = Cardinality(S) /\ Left = Cardinality(R)
  BY WriteNext DEF Togo, Left
<1>3. /\ Filled' <=> Filled
      /\ Written' <=> Written
  BY WriteNext DEF Filled, Written
<1>4. /\ Cardinality(S) \in Nat /\ Cardinality(S) <= x
      /\ Cardinality(R) \in Nat /\ (S \subseteq R => Cardinality(S) <= Cardinality(R))
  <2>1. /\ IsFiniteSet(R) /\ Cardinality(R) \in Nat
        /\ Cardinality(S) \in Nat /\ Cardinality(S) <= x
    BY Shares, RestFits
  <2>2. QED
    BY <2>1, Fewer
<1>5. ASSUME WholeBlocks PROVE Covering'
  <2>1. Covering
    BY <1>5 DEF WriteInv
  <2>2. (\E t \in Threads : wpc'[t] = "reset") => Written
    BY <1>5, <2>1 DEF Covering
  <2>3. QED
    BY <1>2, <1>3, <2>1, <2>2, WriteNext DEF Covering
<1>6. Bounded'
  <2>1. Bounded
    BY DEF WriteInv
  <2>2. SeqW_Offset + Cardinality(R) <= q + x
    BY <1>2, <2>1 DEF Bounded
  <2>3. S \subseteq R \/ SeqW_Offset <= q
    OBVIOUS
  <2>4. SeqW_Offset + Cardinality(S) <= q + x
    <3> HIDE DEF R, S, q, x
    <3>1. QED
      BY <1>1, <1>4, <2>2, <2>3
  <2>5. QED
    BY <1>2, <2>1, <2>4, WriteNext DEF Bounded
<1>7. ASSUME LOOP = 1 PROVE Once'
  <2>1. Once
    BY <1>7 DEF WriteInv
  <2>2. QED
    BY <1>2, <1>7, <2>1, WriteNext DEF Once
<1>8. QED
  BY <1>3, <1>5, <1>6, <1>7, WriteNext DEF WriteInv

LEMMA WriteRequest ==
  ASSUME BenchPlaces, BenchState, Started, WriteInv, Sequential("W"),
         NEW t \in Threads, BenchRequest(t), UNCHANGED <<program, G_IOSIZE, LOOP>>
  PROVE  WriteInv'
<1> DEFINE R == Rest(Threads, count, wpc, i)
           S == Rest(Threads, count, wpc', i')
           F == First(Threads, count, wpc, i, loop)
           G == First(Threads, count, wpc', i', loop')
           q == DATASET_SIZE \div G_IOSIZE
           x == NUM_THREADS * count
           g == Rounded(G_IOSIZE)
           slot == <<t, i[t]>>
<1>1. /\ q \in Nat /\ x \in Nat /\ x <= q /\ SeqW_Offset \in Nat /\ count \in Nat
      /\ NUM_THREADS \in Nat \ {0} /\ DATASET_SIZE \in Nat /\ G_IOSIZE \in Nat \ {0}
      /\ IsFiniteSet(Threads)
  BY Shares DEF BenchState, Started
<1>2. /\ wpc \in [Threads -> WorkerPlaces \ {"count"}] /\ i \in [Threads -> Nat]
      /\ loop \in [Threads -> Nat] /\ writes \in [Slots -> Nat]
      /\ DOMAIN request = Threads /\ iosize \in [Threads -> Nat] /\ LOOP \in Nat \ {0}
  BY DEF BenchState, BenchPlaces
<1>3. info[t].count = count /\ ~info[t].is_rand /\ info[t].io_dir = "W"
  BY DEF Started, OneKind, Sequential
<1>4. Rounded(iosize[t]) = g /\ (WholeBlocks => g = G_IOSIZE)
  <2>1. g = Rounded(g)
    BY <1>1, RoundedUp
  <2>2. iosize[t] \in {G_IOSIZE, g}
    BY DEF Started, ThreadInv
  <2>3. WholeBlocks => g = G_IOSIZE
    BY DEF WholeBlocks, Rounded
  <2>4. QED
    BY <2>1, <2>2, <2>3
<1>5. /\ wpc[t] = "io" /\ i[t] < count /\ UNCHANGED <<wpc, loop>>
      /\ i' = [i EXCEPT ![t] = @ + 1]
      /\ SeqW_Offset' = SeqW_Offset + 1
      /\ \E b : request' = [request EXCEPT ![t] =
                              [off |-> SeqW_Offset * g, len |-> g, buf |-> b]]
      /\ \A s \in Slots :
           writes'[s] = writes[s] + IF s = SeqW_Offset THEN 1 ELSE 0
  <2>1. Offsets(t, g) = {SeqW_Offset * g}
    BY <1>3 DEF Offsets
  <2>2. NextSlot(t) = SeqW_Offset + 1
    BY <1>3 DEF NextSlot
  <2>3. wpc' = wpc
    BY <1>2 DEF BenchRequest, Request, Worker
  <2> HIDE DEF g
  <2>4. QED
    BY <1>3, <1>4, <2>1, <2>2, <2>3 DEF BenchRequest, Request, Worker
<1>6. slot \in R /\ S \subseteq R \ {slot}
  <2>1. i[t] \in 0 .. count - 1
    BY <1>1, <1>2, <1>5
  <2>2. slot \in R
    BY <1>5, <2>1 DEF Rest
  <2>3. ASSUME NEW p \in S PROVE p \in R /\ p # slot
    <3>1. PICK u \in Threads, k \in 0 .. count - 1 : p = <<u, k>>
      BY DEF Rest
    <3>2. (wpc[u] = "io" /\ i'[u] <= k) \/ (wpc[u] = "count" /\ i'[u] < k)
      BY <1>5, <3>1 DEF Rest
    <3>3. CASE u = t
      <4>1. i'[u] = i[u] + 1 /\ i[u] \in Nat /\ k \in Int /\ wpc[u] = "io"
        BY <1>2, <1>5, <3>1, <3>3
      <4>2. i[u] <= k /\ k # i[u]
        BY <3>2, <4>1
      <4>3. QED
        BY <3>1, <3>3, <4>1, <4>2 DEF Rest
    <3>4. CASE u # t
      <4>1. i'[u] = i[u]
        BY <1>2, <1>5, <3>4
      <4>2. QED
        BY <3>1, <3>2, <3>4, <4>1 DEF Rest
    <3>5. QED
      BY <3>3, <3>4
  <2> HIDE DEF R, S
  <2>4. QED
    BY <2>2, <2>3
<1>7. F \ {slot} \subseteq G
  <2>1. ASSUME NEW p \in F, p # slot PROVE p \in G
    <3>1. PICK u \in Threads, k \in 0 .. count - 1 : p = <<u, k>>
      BY DEF First
    <3>2. /\ loop[u] = 0
          /\ wpc[u] \in {"loop", "reset"} \/ (wpc[u] = "io" /\ i[u] <= k)
      BY <3>1 DEF First
    <3>3. CASE u = t
      <4>1. i'[u] = i[u] + 1 /\ i[u] \in Nat /\ k \in Int /\ wpc[u] = "io"
        BY <1>2, <1>5, <3>1, <3>3
      <4>2. k # i[u]
        BY <2>1, <3>1, <3>3
      <4>3. i'[u] <= k
        BY <3>2, <4>1, <4>2
      <4>4. QED
        BY <1>5, <3>1, <3>2, <4>1, <4>3 DEF First
    <3>4. CASE u # t
      <4>1. i'[u] = i[u]
        BY <1>2, <1>5, <3>4
      <4>2. QED
        BY <1>5, <3>1, <3>2, <4>1 DEF First
    <3>5. QED
      BY <3>3, <3>4
  <2> HIDE DEF F, G
  <2>2. QED
    BY <2>1
<1>8. loop[t] = 0 => slot \in F /\ G \subseteq F \ {slot}
  <2> SUFFICES ASSUME loop[t] = 0 PROVE slot \in F /\ G \subseteq F \ {slot}
    OBVIOUS
  <2>1. i[t] \in 0 .. count - 1
    BY <1>1, <1>2, <1>5
  <2>2. slot \in F
    BY <1>5, <2>1 DEF First
  <2>3. ASSUME NEW p \in G PROVE p \in F /\ p # slot
    <3>1. PICK u \in Threads, k \in 0 .. count - 1 : p = <<u, k>>
      BY DEF First
    <3>2. /\ loop[u] = 0
          /\ wpc[u] \in {"loop", "reset"} \/ (wpc[u] = "io" /\ i'[u] <= k)
      BY <1>5, <3>1 DEF First
    <3>3. CASE u = t
      <4>1. i'[u] = i[u] + 1 /\ i[u] \in Nat /\ k \in Int /\ wpc[u] = "io"
        BY <1>2, <1>5, <3>1, <3>3
      <4>2. i[u] <= k /\ k # i[u]
        BY <3>2, <4>1
      <4>3. QED
        BY <3>1, <3>2, <3>3, <4>1, <4>2 DEF First
    <3>4. CASE u # t
      <4>1. i'[u] = i[u]
        BY <1>2, <1>5, <3>4
      <4>2. QED
        BY <3>1, <3>2, <3>4, <4>1 DEF First
    <3>5. QED
      BY <3>3, <3>4
  <2> HIDE DEF F, G
  <2>4. QED
    BY <2>2, <2>3
<1>9. /\ Cardinality(R) \in Nat /\ Cardinality(S) \in Nat
      /\ Cardinality(S) + 1 <= Cardinality(R)
  <2>1. IsFiniteSet(R) /\ Cardinality(R) \in Nat
    BY <1>1, RestFits
  <2> HIDE DEF R, S
  <2>2. QED
    BY <1>6, <2>1, OneLess
<1>10. /\ Cardinality(F) \in Nat /\ Cardinality(G) \in Nat
       /\ Cardinality(F) <= Cardinality(G) + 1
       /\ loop[t] = 0 => Cardinality(G) + 1 <= Cardinality(F)
  <2>1. /\ IsFiniteSet(F) /\ Cardinality(F) \in Nat
        /\ IsFiniteSet(G) /\ Cardinality(G) \in Nat
    BY <1>1, FirstFits
  <2> HIDE DEF F, G
  <2>2. Cardinality(F) <= Cardinality(G) + 1
    BY <1>7, <2>1, OneAtMost
  <2>3. loop[t] = 0 => Cardinality(G) + 1 <= Cardinality(F)
    BY <1>8, <2>1, OneLess
  <2>4. QED
    BY <2>1, <2>2, <2>3
<1>11. /\ Togo = Cardinality(F) /\ Togo' = Cardinality(G)
       /\ Left = Cardinality(R) /\ Left' = Cardinality(S)
  BY WriteNext DEF Togo, Left
<1>12. \A s \in Slots : /\ s \in Int /\ writes[s] \in Nat
                        /\ writes'[s] = writes[s] + IF s = SeqW_Offset THEN 1 ELSE 0
  <2>1. \A s \in Slots : s \in Int
    BY Shares DEF Started
  <2>2. QED
    BY <1>2, <1>5, <2>1
<1> HIDE DEF R, S, F, G, q, x
<1>13. Filled'
  <2>1. Filled
    BY DEF WriteInv
  <2>2. ASSUME NEW s \in Slots, s < SeqW_Offset' PROVE writes'[s] > 0
    <3>1. s < SeqW_Offset \/ s = SeqW_Offset
      BY <1>1, <1>5, <1>12, <2>2
    <3>2. s < SeqW_Offset => writes[s] > 0
      BY <2>1 DEF Filled
    <3>3. QED
      BY <1>12, <3>1, <3>2
  <2>3. QED
    BY <2>2, WriteNext
<1>14. Written => Written'
  <2> SUFFICES ASSUME Written, NEW s \in Slots, s < NUM_THREADS * count
               PROVE  writes'[s] > 0
    BY WriteNext
  <2>1. writes[s] > 0
    BY DEF Written
  <2>2. QED
    BY <1>12, <2>1
<1>15. ASSUME WholeBlocks PROVE Covering'
  <2>1. /\ Written \/ x <= SeqW_Offset + Togo
        /\ (\E u \in Threads : wpc[u] = "reset") => Written
    BY <1>15 DEF WriteInv, Covering, x
  <2>2. Written' \/ x <= SeqW_Offset' + Togo'
    BY <1>1, <1>5, <1>10, <1>11, <1>14, <2>1
  <2>3. (\E u \in Threads : wpc'[u] = "reset") => Written'
    BY <1>5, <1>14, <2>1
  <2>4. QED
    BY <2>2, <2>3, WriteNext DEF x
<1>16. Bounded'
  <2> DEFINE top == 2 * (q * g)
  <2>1. /\ SeqW_Offset + Left <= q + x
        /\ \A u \in Threads :
             request[u].off \in Nat /\ request[u].off + request[u].len <= top
    BY DEF WriteInv, Bounded, q, x
  <2>2. SeqW_Offset' + Left' <= q + x
    BY <1>1, <1>5, <1>9, <1>11, <2>1
  <2>3. SeqW_Offset + 1 <= q + x
    BY <1>1, <1>9, <1>11, <2>1
  <2>4. SeqW_Offset * g \in Nat /\ SeqW_Offset * g + g <= top
    <3>1. g \in Nat
      BY <1>1, RoundedUp
    <3>2. SeqW_Offset < 2 * q /\ 2 * q \in Nat
      BY <1>1, <2>3
    <3>3. SeqW_Offset * g \in Nat /\ SeqW_Offset * g + g <= (2 * q) * g
      BY <1>1, <3>1, <3>2, Scaled
    <3> HIDE DEF g
    <3>4. (2 * q) * g = 2 * (q * g)
      BY <1>1, <3>1
    <3>5. QED
      BY <3>3, <3>4
  <2> HIDE DEF g, top
  <2>5. ASSUME NEW u \in Threads
        PROVE  request'[u].off \in Nat /\ request'[u].off + request'[u].len <= top
    <3>1. CASE u = t
      <4>1. request'[u].off = SeqW_Offset * g /\ request'[u].len = g
        BY <1>2, <1>5, <3>1
      <4>2. QED
        BY <2>4, <4>1
    <3>2. CASE u # t
      <4>1. request'[u] = request[u]
        BY <1>2, <1>5, <3>2
      <4>2. QED
        BY <2>1, <4>1
    <3>3. QED
      BY <3>1, <3>2
  <2>6. QED
    BY <2>2, <2>5, WriteNext DEF q, x, top, g
<1>17. ASSUME LOOP = 1 PROVE Once'
  <2>1. /\ SeqW_Offset + Togo = x
        /\ \A s \in Slots : writes[s] = IF s < SeqW_Offset THEN 1 ELSE 0
        /\ \A u \in Threads : wpc[u] # "reset"
    BY <1>17 DEF WriteInv, Once, x
  <2>2. loop[t] = 0
    <3>1. loop[t] < LOOP
      BY <1>5 DEF Started, ThreadInv
    <3>2. QED
      BY <1>2, <1>17, <3>1
  <2>3. SeqW_Offset' + Togo' = x
    BY <1>1, <1>5, <1>10, <1>11, <2>1, <2>2
  <2>4. ASSUME NEW s \in Slots
        PROVE  writes'[s] = IF s < SeqW_Offset' THEN 1 ELSE 0
    <3>1. writes[s] = IF s < SeqW_Offset THEN 1 ELSE 0
      BY <2>1
    <3>2. QED
      BY <1>1, <1>5, <1>12, <3>1
  <2>5. QED
    BY <1>5, <2>1, <2>3, <2>4, WriteNext DEF x
<1>18. QED
  BY <1>13, <1>15, <1>16, <1>17, WriteNext

(* The other steps of a thread that writes sequentially.                   *)
LEMMA WriteLoop ==
  ASSUME BenchPlaces, BenchState, Started, WriteInv, Sequential("W"),
         NEW t \in Threads, UNCHANGED <<program, G_IOSIZE, LOOP, writes>>,
         \/ StartLoop(t, DATASET_SIZE) \/ ResetOffset(t) \/ EndLoop(t) \/ EndThread(t)
  PROVE  WriteInv'
<1> DEFINE R == Rest(Threads, count, wpc, i)
           S == Rest(Threads, count, wpc', i')
           F == First(Threads, count, wpc, i, loop)
           G == First(Threads, count, wpc', i', loop')
           q == DATASET_SIZE \div G_IOSIZE
           x == NUM_THREADS * count
<1>1. /\ q \in Nat /\ x \in Nat /\ x <= q /\ SeqW_Offset \in Nat /\ count \in Nat
      /\ DATASET_SIZE \in Nat /\ G_IOSIZE \in Nat \ {0} /\ G_IOSIZE > 0
      /\ IsFiniteSet(Threads) /\ Cardinality(Threads) = NUM_THREADS
      /\ Slots = 0 .. 2 * x - 1
  BY Shares DEF BenchState, Started
<1>2. /\ wpc \in [Threads -> WorkerPlaces \ {"count"}] /\ i \in [Threads -> Nat]
      /\ loop \in [Threads -> Nat] /\ LOOP \in Nat \ {0}
  BY DEF BenchState
<1>3. info[t].count = count /\ info[t].io_dir = "W"
  BY DEF Started, OneKind, Sequential
<1>4. CASE StartLoop(t, DATASET_SIZE)
  <2> DEFINE past == SeqW_Offset * iosize[t] > DATASET_SIZE
  <2>1. /\ wpc[t] = "loop" /\ loop[t] < LOOP
        /\ wpc' = [wpc EXCEPT ![t] = IF past THEN "reset" ELSE "io"]
        /\ i' = [i EXCEPT ![t] = 0] /\ UNCHANGED <<SeqW_Offset, loop, request>>
    BY <1>3, <1>4 DEF StartLoop, Worker, worker_vars
  <2>2. /\ iosize[t] = G_IOSIZE => (past <=> ~(SeqW_Offset <= q))
        /\ ~past => SeqW_Offset <= q
    <3>1. SeqW_Offset * G_IOSIZE <= DATASET_SIZE <=> SeqW_Offset <= q
      BY <1>1, PastOrNot
    <3>2. SeqW_Offset * G_IOSIZE \in Nat
      BY <1>1
    <3> HIDE DEF q
    <3>3. SeqW_Offset * G_IOSIZE > DATASET_SIZE
            <=> ~(SeqW_Offset * G_IOSIZE <= DATASET_SIZE)
      BY <1>1, <3>2
    <3>4. /\ SeqW_Offset * iosize[t] \in Nat
          /\ SeqW_Offset * G_IOSIZE <= SeqW_Offset * iosize[t]
      <4>1. iosize[t] \in {G_IOSIZE, Rounded(G_IOSIZE)}
        BY DEF Started, ThreadInv
      <4>2. iosize[t] \in Nat /\ G_IOSIZE <= iosize[t]
        BY <1>1, <4>1, RoundedUp
      <4>3. PICK d \in Nat : iosize[t] = G_IOSIZE + d
        <5>1. iosize[t] - G_IOSIZE \in Nat /\ iosize[t] = G_IOSIZE + (iosize[t] - G_IOSIZE)
          BY <1>1, <4>2
        <5>2. QED
          BY <5>1
      <4>4. SeqW_Offset * iosize[t] = SeqW_Offset * G_IOSIZE + SeqW_Offset * d
            /\ SeqW_Offset * d \in Nat
        BY <1>1, <4>3
      <4>5. QED
        BY <3>2, <4>4
    <3>5. ~past => SeqW_Offset * G_IOSIZE <= DATASET_SIZE
      BY <1>1, <3>2, <3>4
    <3>6. QED
      BY <3>1, <3>3, <3>5
  <2>3. WholeBlocks => iosize[t] = G_IOSIZE
    <3>1. iosize[t] \in {G_IOSIZE, Rounded(G_IOSIZE)}
      BY DEF Started, ThreadInv
    <3>2. QED
      BY <3>1 DEF WholeBlocks, Rounded
  <2>4. LOOP = 1 => iosize[t] = G_IOSIZE
    <3>1. LOOP = 1 => loop[t] = 0
      BY <1>2, <2>1
    <3>2. QED
      BY <2>1, <3>1 DEF Started, ThreadInv
  <2>5. LOOP = 1 => ~past
    <3>1. LOOP = 1 => SeqW_Offset + Togo = x
      BY DEF WriteInv, Once, x
    <3>2. Togo \in Nat
      BY <1>1, FirstFits DEF Togo
    <3> HIDE DEF q, x, past
    <3>3. LOOP = 1 => SeqW_Offset <= q
      BY <1>1, <3>1, <3>2
    <3>4. QED
      BY <2>2, <2>4, <3>3
  <2>6. ASSUME WholeBlocks, past PROVE Written
    <3>1. ~(SeqW_Offset <= q)
      BY <2>2, <2>3, <2>6
    <3>2. Filled
      BY DEF WriteInv
    <3>3. ASSUME NEW s \in Slots, s < x PROVE writes[s] > 0
      <4>1. s \in Int
        BY <1>1
      <4> HIDE DEF q, x
      <4>2. s < SeqW_Offset
        BY <1>1, <3>1, <3>3, <4>1
      <4>3. QED
        BY <3>2, <4>2 DEF Filled
    <3>4. QED
      BY <3>3 DEF Written
  <2>7. ASSUME NEW u \in Threads, u # t
        PROVE  wpc'[u] = wpc[u] /\ i'[u] = i[u]
    BY <1>2, <2>1, <2>7
  <2>8. wpc'[t] = (IF past THEN "reset" ELSE "io") /\ i'[t] = 0
    BY <1>2, <2>1
  <2> HIDE DEF past
  <2>9. G = F
    <3>1. ASSUME NEW u \in Threads, NEW k \in 0 .. count - 1, loop[u] = 0
          PROVE  \/ wpc'[u] \in {"loop", "reset"} \/ (wpc'[u] = "io" /\ i'[u] <= k)
                 <=> \/ wpc[u] \in {"loop", "reset"} \/ (wpc[u] = "io" /\ i[u] <= k)
      <4>1. CASE u = t
        <5>1. 0 <= k
          BY <1>1
        <5>2. QED
          BY <2>1, <2>8, <4>1, <5>1
      <4>2. CASE u # t
        BY <2>7, <4>2
      <4>3. QED
        BY <4>1, <4>2
    <3>2. \A p \in Threads \X (0 .. count - 1) : p \in G <=> p \in F
      BY <2>1, <3>1 DEF First
    <3>3. G \subseteq Threads \X (0 .. count - 1) /\ F \subseteq Threads \X (0 .. count - 1)
      BY DEF First
    <3> HIDE DEF F, G
    <3>4. QED
      BY <3>2, <3>3
  <2>10. S \subseteq R \/ SeqW_Offset <= q
    <3>1. CASE past
      <4>1. \A u \in Threads : \/ wpc'[u] = "reset"
                               \/ wpc'[u] = wpc[u] /\ i'[u] = i[u]
        BY <2>7, <2>8, <3>1
      <4>2. S \subseteq R
        BY <4>1 DEF Rest
      <4>3. QED
        BY <4>2
    <3>2. CASE ~past
      BY <2>2, <3>2
    <3>3. QED
      BY <3>1, <3>2
  <2>11. \/ \A u \in Threads : wpc'[u] = "reset" => wpc[u] = "reset"
         \/ LOOP # 1 /\ (WholeBlocks => Written)
    <3>1. CASE past
      BY <2>5, <2>6, <3>1
    <3>2. CASE ~past
      BY <2>7, <2>8, <3>2
    <3>3. QED
      BY <3>1, <3>2
  <2>12. QED
    BY <1>1, <2>1, <2>9, <2>10, <2>11, WriteStays
<1>5. CASE ResetOffset(t)
  <2>1. /\ wpc[t] = "reset" /\ wpc' = [wpc EXCEPT ![t] = "io"] /\ SeqW_Offset' = 0
        /\ UNCHANGED <<i, request>>
    BY <1>5 DEF ResetOffset, Worker
  <2>2. LOOP # 1
    BY <2>1 DEF WriteInv, Once
  <2>3. Bounded /\ (WholeBlocks => Written)
    BY <2>1 DEF WriteInv, Covering
  <2>4. Filled'
    <3>1. \A s \in Slots : ~(s < SeqW_Offset')
      BY <1>1, <2>1
    <3>2. QED
      BY <3>1, WriteNext
  <2>5. Written => Written'
    BY WriteNext DEF Written
  <2>6. WholeBlocks => Covering'
    BY <2>3, <2>5, WriteNext
  <2>7. Bounded'
    <3>1. Left' = Cardinality(S) /\ Cardinality(S) \in Nat /\ Cardinality(S) <= x
      BY <1>1, RestFits, WriteNext
    <3> HIDE DEF S
    <3>2. SeqW_Offset' + Left' <= q + x
      <4> HIDE DEF q, x
      <4>1. QED
        BY <1>1, <2>1, <3>1
    <3>3. \A u \in Threads :
            /\ request'[u].off \in Nat
            /\ request'[u].off + request'[u].len
                 <= 2 * ((DATASET_SIZE \div G_IOSIZE) * Rounded(G_IOSIZE))
      BY <2>1, <2>3 DEF Bounded
    <3>4. QED
      BY <3>2, <3>3, WriteNext
  <2>8. QED
    BY <2>2, <2>4, <2>6, <2>7, WriteNext
<1>6. CASE EndLoop(t) \/ EndThread(t)
  <2>1. /\ UNCHANGED <<SeqW_Offset, i, request>>
        /\ \/ /\ wpc[t] = "io" /\ i[t] = count /\ wpc' = [wpc EXCEPT ![t] = "loop"]
              /\ loop' = [loop EXCEPT ![t] = @ + 1]
           \/ /\ wpc' = [wpc EXCEPT ![t] = "ended"]
              /\ loop[t] = LOOP /\ UNCHANGED loop
    BY <1>3, <1>6 DEF EndLoop, EndThread, Worker, worker_vars
  <2>2. ASSUME NEW u \in Threads, u # t
        PROVE  wpc'[u] = wpc[u] /\ loop'[u] = loop[u]
    BY <1>2, <2>1, <2>2
  <2>3. /\ wpc'[t] \in {"loop", "ended"} /\ loop'[t] # 0
        /\ loop[t] # 0 \/ (wpc[t] = "io" /\ i[t] = count)
    BY <1>2, <2>1
  <2>4. G = F
    <3>1. ASSUME NEW u \in Threads, NEW k \in 0 .. count - 1
          PROVE  <<u, k>> \in G <=> <<u, k>> \in F
      <4>1. CASE u = t
        <5>1. ~(i[t] = count /\ i[t] <= k)
          BY <1>1
        <5>2. <<u, k>> \notin G
          BY <2>3, <4>1 DEF First
        <5>3. <<u, k>> \notin F
          BY <2>3, <4>1, <5>1 DEF First
        <5>4. QED
          BY <5>2, <5>3
      <4>2. CASE u # t
        BY <2>1, <2>2, <4>2 DEF First
      <4>3. QED
        BY <4>1, <4>2
    <3>2. G \subseteq Threads \X (0 .. count - 1) /\ F \subseteq Threads \X (0 .. count - 1)
      BY DEF First
    <3> HIDE DEF F, G
    <3>3. QED
      BY <3>1, <3>2
  <2>5. S \subseteq R
    <3>1. \A u \in Threads : wpc'[u] \in {"loop", "ended"} \/ wpc'[u] = wpc[u]
      BY <2>2, <2>3
    <3>2. QED
      BY <2>1, <3>1 DEF Rest
  <2>6. \A u \in Threads : wpc'[u] = "reset" => wpc[u] = "reset"
    <3>1. ASSUME NEW u \in Threads, wpc'[u] = "reset" PROVE wpc[u] = "reset"
      BY <2>2, <2>3, <3>1
    <3>2. QED
      BY <3>1
  <2>7. QED
    BY <1>1, <2>1, <2>4, <2>5, <2>6, WriteStays
<1>7. QED
  BY <1>4, <1>5, <1>6

(* When the sequential writers are joined, the dataset is written.         *)
LEMMA WrittenAtJoin ==
  ASSUME BenchPlaces, BenchState, G_IOSIZE > 0, WriteInv, WholeBlocks,
         wpc = [t \in Threads |-> "none"]
  PROVE  Written
<1>1. Togo = 0
  <2>1. First(Threads, count, wpc, i, loop) = {}
    BY DEF First
  <2>2. QED
    BY <2>1, FS_EmptySet DEF Togo
<1>2. CASE ~Written
  <2>1. NUM_THREADS * count <= SeqW_Offset + 0
    BY <1>1, <1>2 DEF WriteInv, Covering
  <2>2. /\ NUM_THREADS * count \in Nat /\ SeqW_Offset \in Nat
        /\ Slots = 0 .. 2 * (NUM_THREADS * count) - 1
    BY Shares DEF BenchState
  <2> DEFINE x == NUM_THREADS * count
  <2>3. ASSUME NEW s \in Slots, s < x PROVE writes[s] > 0
    <3>1. s \in Int /\ x \in Nat /\ x <= SeqW_Offset + 0
      BY <2>1, <2>2
    <3> HIDE DEF x
    <3>2. s < SeqW_Offset
      BY <2>2, <2>3, <3>1
    <3>3. QED
      BY <3>2 DEF WriteInv, Filled
  <2>4. QED
    BY <2>3 DEF Written
<1>3. QED
  BY <1>2

(* The threads that are to write sequentially are created.                 *)
LEMMA WriteBegins ==
  ASSUME BenchPlaces, BenchState, G_IOSIZE > 0,
         UNCHANGED <<program, G_IOSIZE, LOOP, SeqW_Offset, writes>>,
         SeqW_Offset = 0, \A s \in Slots : writes[s] = 0,
         wpc' = [t \in Threads |-> "loop"], loop' = [t \in Threads |-> 0],
         request' = [t \in Threads |-> NoRequest]
  PROVE  WriteInv'
<1> DEFINE x == NUM_THREADS * count
           q == DATASET_SIZE \div G_IOSIZE
<1>1. /\ IsFiniteSet(Threads) /\ Cardinality(Threads) = NUM_THREADS
      /\ count \in Nat /\ x \in Nat /\ q \in Nat /\ DATASET_SIZE \in Nat
      /\ Slots = 0 .. 2 * x - 1
  BY Shares
<1>2. Togo' = x
  <2>1. First(Threads, count, wpc', i', loop') = Threads \X (0 .. count - 1)
    BY DEF First
  <2>2. Cardinality(Threads \X (0 .. count - 1)) = x
    <3>1. Threads \X (0 .. count - 1) \in SUBSET (Threads \X (0 .. count - 1))
      OBVIOUS
    <3>2. QED
      BY <1>1, <3>1, Pairs
  <2>3. QED
    BY <2>1, <2>2, WriteNext
<1>3. Left' = 0
  <2>1. Rest(Threads, count, wpc', i') = {}
    BY DEF Rest
  <2>2. QED
    BY <2>1, FS_EmptySet, WriteNext
<1>4. \A s \in Slots : ~(s < SeqW_Offset')
  BY <1>1
<1>5. Filled'
  BY <1>4, WriteNext
<1>6. \A t \in Threads : /\ wpc'[t] # "reset" /\ request'[t].off \in Nat
                           /\ request'[t].off + request'[t].len = 0
  BY DEF NoRequest
<1>7. Covering'
  <2>1. x <= SeqW_Offset' + Togo'
    <3> HIDE DEF x
    <3>1. QED
      BY <1>1, <1>2
  <2>2. QED
    BY <1>6, <2>1, WriteNext
<1>8. Bounded'
  <2>1. SeqW_Offset' + Left' <= q + x
    <3> HIDE DEF q, x
    <3>1. QED
      BY <1>1, <1>3
  <2>2. 0 <= 2 * (q * Rounded(G_IOSIZE))
    <3>1. Rounded(G_IOSIZE) \in Nat
      BY RoundedUp DEF BenchPlaces
    <3> HIDE DEF q
    <3>2. q * Rounded(G_IOSIZE) \in Nat
      BY <1>1, <3>1
    <3>3. QED
      BY <3>2
  <2>3. QED
    BY <1>6, <2>1, <2>2, WriteNext
<1>9. Once'
  <2>1. SeqW_Offset' + Togo' = x
    <3> HIDE DEF x
    <3>1. QED
      BY <1>1, <1>2
  <2>2. QED
    BY <1>4, <1>6, <2>1, WriteNext
<1>10. QED
  BY <1>5, <1>7, <1>8, <1>9, WriteNext

LEMMA DatasetMain ==
  ASSUME BenchControl, BenchPlaces, DatasetInv, program \in BenchPrograms, BenchMain
  PROVE  DatasetInv'
<1>1. UNCHANGED <<program, G_IOSIZE, LOOP, SeqW_Offset, writes>>
  BY BenchControlMain
<1>2. BenchState /\ (NotStarted \/ Started)
  BY DEF BenchControl
<1>3. mpc \in {"start", "join", "show"}
  BY DEF BenchMain, NoSize, StartTest, JoinTest, Show_bench, Show_nothing,
         Show_main, NextTest, Main
<1>4. /\ test \in 1 .. Len(Tests) /\ G_IOSIZE \in Nat /\ Len(Tests) \in Nat
      /\ WriteTest \in {1, 3} /\ (program = "main" => WriteTest = 1)
  <2>1. test \in 1 .. Len(Tests) /\ G_IOSIZE \in Nat /\ Len(Tests) \in Nat
    BY <1>3, TestCount DEF BenchPlaces, TestNumbers, BenchPrograms
  <2>2. WriteTest \in {1, 3} /\ (program = "main" => WriteTest = 1)
    BY DEF WriteTest
  <2>3. QED
    BY <2>1, <2>2
<1>5. /\ UNCHANGED <<Slots, WholeBlocks, WriteTest>>
      /\ Written' <=> Written
  BY <1>1, BenchConstants, WriteNext DEF Written
<1>6. Sequential("W") => Started
  <2>1. NotStarted => ~Sequential("W")
    BY ThreadNumbers DEF NotStarted, Sequential, NoInfo
  <2>2. QED
    BY <1>2, <2>1
<1>7. DatasetInv' <=>
        /\ Sequential("W")' => WriteInv'
        /\ ~Sequential("W")' /\ test' <= WriteTest =>
             /\ SeqW_Offset = 0 /\ \A s \in Slots : writes[s] = 0
             /\ program = "main" => NotStarted'
        /\ ~Sequential("W")' /\ test' > WriteTest /\ WholeBlocks => Written
  BY <1>1, <1>5 DEF DatasetInv
<1>8. CASE StartTest
  <2>1. /\ G_IOSIZE > 0 /\ info' = Tests[test] /\ UNCHANGED test /\ mpc = "start"
        /\ wpc' = [t \in Threads |-> "loop"] /\ loop' = [t \in Threads |-> 0]
        /\ request' = [t \in Threads |-> NoRequest]
    BY <1>8 DEF StartTest, Main, Create, bench_own
  <2>2. Sequential("W")' <=> test = WriteTest
    BY <1>4, <2>1, TestKinds DEF Sequential
  <2>3. wpc = [t \in Threads |-> "none"]
    BY <1>2, <2>1 DEF BenchState
  <2>4. Sequential("W") => test - 1 = WriteTest
    <3>1. Started => test - 1 \in 1 .. Len(Tests) /\ info = Tests[test - 1]
      BY <2>1 DEF Started
    <3>2. ASSUME Sequential("W") PROVE test - 1 = WriteTest
      <4>1. test - 1 \in 1 .. Len(Tests) /\ info = Tests[test - 1]
        BY <1>6, <3>1, <3>2
      <4> DEFINE n == test - 1
      <4>2. n \in 1 .. Len(Tests) /\ info = Tests[n]
        BY <4>1
      <4> HIDE DEF n
      <4>3. Tests[n][0].io_dir = "W" /\ ~Tests[n][0].is_rand
        BY <3>2, <4>2 DEF Sequential
      <4>4. n = WriteTest
        BY <4>2, <4>3, TestKinds
      <4>5. QED
        BY <4>4 DEF n
    <3>3. QED
      BY <3>2
  <2>5. CASE test = WriteTest
    <3>1. ~Sequential("W")
      BY <1>4, <2>4, <2>5
    <3>2. SeqW_Offset = 0 /\ \A s \in Slots : writes[s] = 0
      BY <1>4, <2>5, <3>1 DEF DatasetInv
    <3>3. WriteInv'
      BY <1>1, <1>2, <2>1, <3>2, WriteBegins
    <3>4. QED
      BY <1>7, <2>2, <2>5, <3>3
  <2>6. CASE test < WriteTest
    <3>1. ~Sequential("W") /\ test <= WriteTest
      BY <1>4, <2>4, <2>6
    <3>2. SeqW_Offset = 0 /\ \A s \in Slots : writes[s] = 0
      BY <3>1 DEF DatasetInv
    <3>3. program # "main"
      BY <1>4, <2>6
    <3>4. ~(test' > WriteTest) /\ test # WriteTest
      BY <1>4, <2>1, <2>6
    <3>5. QED
      BY <1>7, <2>2, <3>2, <3>3, <3>4
  <2>7. CASE test > WriteTest
    <3>1. WholeBlocks => Written
      <4>1. CASE Sequential("W")
        <5>1. WriteInv
          BY <4>1 DEF DatasetInv
        <5>2. QED
          BY <1>2, <2>1, <2>3, <5>1, WrittenAtJoin
      <4>2. CASE ~Sequential("W")
        BY <2>7, <4>2 DEF DatasetInv
      <4>3. QED
        BY <4>1, <4>2
    <3>2. ~(test' <= WriteTest) /\ test # WriteTest
      BY <1>4, <2>1, <2>7
    <3>3. QED
      BY <1>7, <2>2, <3>1, <3>2
  <2>8. QED
    BY <1>4, <2>5, <2>6, <2>7
<1>9. CASE ~StartTest
  <2>1. /\ UNCHANGED <<i, loop, info, request>>
        /\ \/ UNCHANGED wpc
           \/ (\A t \in Threads : wpc[t] = "ended") /\ wpc' = [t \in Threads |-> "none"]
    BY <1>9 DEF BenchMain, NoSize, JoinTest, Show_bench, Show_nothing, Show_main,
                NextTest, BenchIdle, worker_vars, Joined
  <2>2. /\ \/ UNCHANGED test
           \/ mpc = "show" /\ test' = test + 1
        /\ mpc = "start" => program = "bench"
    BY <1>9 DEF BenchMain, NoSize, JoinTest, Show_bench, Show_nothing, Show_main,
                NextTest, Main, BenchIdle, bench_own
  <2>3. Sequential("W")' <=> Sequential("W")
    BY <2>1 DEF Sequential
  <2>4. CASE Sequential("W")
    <3>1. WriteInv /\ G_IOSIZE > 0
      BY <1>6, <2>4 DEF DatasetInv, Started
    <3>2. First(Threads, count, wpc', i', loop') = First(Threads, count, wpc, i, loop)
      BY <2>1 DEF First
    <3>3. Rest(Threads, count, wpc', i') \subseteq Rest(Threads, count, wpc, i)
      BY <2>1 DEF Rest
    <3>4. \A t \in Threads : wpc'[t] = "reset" => wpc[t] = "reset"
      BY <2>1
    <3>5. WriteInv'
      BY <1>1, <1>2, <2>1, <3>1, <3>2, <3>3, <3>4, WriteStays
    <3>6. QED
      BY <1>7, <2>3, <2>4, <3>5
  <2>5. CASE ~Sequential("W")
    <3>1. test = WriteTest /\ mpc = "show" => FALSE
      <4> SUFFICES ASSUME test = WriteTest, mpc = "show" PROVE FALSE
        OBVIOUS
      <4>1. info = Tests[test]
        BY <1>2 DEF NotStarted, Started
      <4>2. QED
        BY <1>4, <2>5, <4>1, TestKinds DEF Sequential
    <3>2. ASSUME test' <= WriteTest
          PROVE  /\ SeqW_Offset = 0 /\ \A s \in Slots : writes[s] = 0
                 /\ program # "main"
      <4>1. test <= WriteTest
        BY <1>4, <2>2, <3>2
      <4>2. /\ SeqW_Offset = 0 /\ \A s \in Slots : writes[s] = 0
            /\ program = "main" => NotStarted
        BY <2>5, <4>1 DEF DatasetInv
      <4>3. program # "main"
        BY <1>3, <2>2, <4>2 DEF NotStarted
      <4>4. QED
        BY <4>2, <4>3
    <3>3. ASSUME test' > WriteTest, WholeBlocks PROVE Written
      <4>1. test > WriteTest
        BY <1>4, <2>2, <3>1, <3>3
      <4>2. QED
        BY <2>5, <3>3, <4>1 DEF DatasetInv
    <3>4. QED
      BY <1>7, <2>3, <2>5, <3>2, <3>3
  <2>6. QED
    BY <2>4, <2>5
<1>10. QED
  BY <1>8, <1>9

LEMMA DatasetRun ==
  ASSUME BenchControl, BenchPlaces, DatasetInv, program \in BenchPrograms,
         NEW t \in Threads, BenchThread(t)
  PROVE  DatasetInv'
<1>1. /\ UNCHANGED <<program, G_IOSIZE, LOOP, test, info>>
      /\ BenchState /\ Started /\ mpc = "join" /\ G_IOSIZE > 0
      /\ \/ /\ mpc' = "aborted"
            /\ UNCHANGED <<wpc, i, loop, iosize, request, SeqW_Offset, writes>>
         \/ UNCHANGED mpc /\ BenchRequest(t)
         \/ /\ UNCHANGED <<mpc, writes>>
            /\ \/ StartLoop(t, DATASET_SIZE) \/ ResetOffset(t)
               \/ EndLoop(t) \/ EndThread(t)
  BY BenchThreadStep, Zenon DEF Started
<1>2. /\ UNCHANGED <<Slots, WholeBlocks, WriteTest>>
      /\ Sequential("W")' <=> Sequential("W")
  BY <1>1, BenchConstants DEF Sequential
<1>3. CASE Sequential("W")
  <2> DEFINE Looped == /\ UNCHANGED writes
                       /\ \/ StartLoop(t, DATASET_SIZE) \/ ResetOffset(t)
                          \/ EndLoop(t) \/ EndThread(t)
             Stayed == UNCHANGED <<wpc, i, loop, iosize, request, SeqW_Offset, writes>>
  <2>1. WriteInv
    BY <1>3 DEF DatasetInv
  <2>2. UNCHANGED <<program, G_IOSIZE, LOOP>> /\ G_IOSIZE > 0 /\ BenchState /\ Started
    BY <1>1
  <2>3. ASSUME Stayed PROVE WriteInv'
    <3>1. /\ First(Threads, count, wpc', i', loop') = First(Threads, count, wpc, i, loop)
          /\ Rest(Threads, count, wpc', i') \subseteq Rest(Threads, count, wpc, i)
          /\ \A u \in Threads : wpc'[u] = "reset" => wpc[u] = "reset"
          /\ UNCHANGED <<SeqW_Offset, writes, request>>
      BY <2>3
    <3>2. QED
      BY <2>1, <2>2, <3>1, WriteStays
  <2>4. ASSUME BenchRequest(t) PROVE WriteInv'
    BY <1>3, <2>1, <2>2, <2>4, WriteRequest
  <2>5. ASSUME Looped PROVE WriteInv'
    BY <1>3, <2>1, <2>2, <2>5, WriteLoop
  <2>6. Stayed \/ BenchRequest(t) \/ Looped
    BY <1>1
  <2>7. WriteInv'
    BY <2>3, <2>4, <2>5, <2>6
  <2>8. QED
    BY <1>2, <1>3, <2>7 DEF DatasetInv
<1>4. CASE ~Sequential("W")
  <2>1. ~(info[t].io_dir = "W" /\ ~info[t].is_rand)
    BY <1>1, <1>4 DEF Started, OneKind, Sequential
  <2>2. SeqW_Offset' \in {SeqW_Offset, 0}
    BY <1>1, <2>1 DEF BenchRequest, Request, NextSlot, StartLoop, ResetOffset,
       EndLoop, EndThread, worker_vars
  <2>3. \A s \in Slots : writes'[s] = writes[s]
    <3>1. CASE UNCHANGED writes
      BY <3>1
    <3>2. CASE BenchRequest(t)
      <4>1. \A s \in Slots : writes'[s] = writes[s] + 0
        BY <1>4, <3>2 DEF BenchRequest
      <4>2. writes \in [Slots -> Nat]
        BY <1>1 DEF BenchState
      <4>3. QED
        BY <4>1, <4>2
    <3>3. QED
      BY <1>1, <3>1, <3>2
  <2>4. Written' <=> Written
    BY <1>1, <2>3, WriteNext DEF Written
  <2>5. ~NotStarted
    BY <1>1 DEF NotStarted
  <2>6. ASSUME test <= WriteTest
        PROVE  /\ SeqW_Offset' = 0 /\ \A s \in Slots : writes'[s] = 0
               /\ program # "main"
    BY <1>4, <2>2, <2>3, <2>5, <2>6 DEF DatasetInv
  <2>7. ASSUME test > WriteTest, WholeBlocks PROVE Written
    BY <1>4, <2>7 DEF DatasetInv
  <2>8. QED
    BY <1>1, <1>2, <1>4, <2>4, <2>6, <2>7 DEF DatasetInv
<1>5. QED
  BY <1>3, <1>4

LEMMA DatasetStart ==
  ASSUME Init, program \in BenchPrograms
  PROVE  DatasetInv
<1>1. /\ info = [t \in Threads |-> NoInfo] /\ SeqW_Offset = 0 /\ test = 1
      /\ writes = [s \in Slots |-> 0] /\ mpc = "start"
      /\ wpc = [t \in Threads |-> "none"] /\ request = [t \in Threads |-> NoRequest]
  BY DEF Init, ReplayInit, SharedInit, WorkerInit, BenchInit
<1>2. ~Sequential("W")
  BY <1>1, ThreadNumbers DEF Sequential, NoInfo
<1>3. ~(test > WriteTest)
  BY <1>1 DEF WriteTest
<1>4. NotStarted
  BY <1>1 DEF NotStarted
<1>5. \A s \in Slots : writes[s] = 0
  BY <1>1
<1>6. QED
  BY <1>1, <1>2, <1>3, <1>4, <1>5 DEF DatasetInv

-----------------------------------------------------------------------------
(* The five programs.                                                      *)

DriverInv ==
  /\ program \in TARGET
  /\ program \in BenchPrograms => BenchControl /\ DatasetInv
  /\ program = "load" => LoadCounts

LEMMA BenchStays ==
  ASSUME BenchControl, DatasetInv, BenchPlaces, program \in BenchPrograms,
         UNCHANGED vars
  PROVE  BenchControl' /\ DatasetInv'
<1>1. UNCHANGED <<program, mpc, wpc, i, LOOP, SeqW_Offset, info, loop, iosize,
                  request, G_IOSIZE, test, writes>>
  BY DEF vars, shared_vars, worker_vars, bench_own
<1>2. /\ UNCHANGED <<count, Slots, Tests, WholeBlocks, WriteTest>>
      /\ \A infos : OneKind(infos)' <=> OneKind(infos)
  BY <1>1, BenchConstants
<1>3. BenchState' <=> BenchState
  BY <1>1, <1>2 DEF BenchState
<1>4. NotStarted' <=> NotStarted
  BY <1>1 DEF NotStarted
<1>5. Started => Started'
  <2> SUFFICES ASSUME Started PROVE Started'
    OBVIOUS
  <2>1. ASSUME NEW t \in Threads PROVE ThreadInv(t)'
    <3>1. \A k : KthRequest(t, k)' <=> KthRequest(t, k)
      BY <1>1, KeptRequest
    <3>2. ThreadInv(t)
      BY DEF Started
    <3>3. QED
      BY <1>1, <1>2, <3>1, <3>2 DEF ThreadInv
  <2>2. OneKind(info)'
    BY <1>1, <1>2 DEF Started, OneKind
  <2>3. QED
    BY <1>1, <1>2, <2>1, <2>2 DEF Started
<1>6. BenchControl'
  BY <1>3, <1>4, <1>5 DEF BenchControl
<1>7. Sequential("W")' <=> Sequential("W")
  BY <1>1 DEF Sequential
<1>8. ASSUME WriteInv, Sequential("W") PROVE WriteInv'
  <2>1. /\ First(Threads, count, wpc', i', loop') = First(Threads, count, wpc, i, loop)
        /\ Rest(Threads, count, wpc', i') \subseteq Rest(Threads, count, wpc, i)
        /\ \A u \in Threads : wpc'[u] = "reset" => wpc[u] = "reset"
    BY <1>1
  <2>2. ~NotStarted
    BY <1>8, ThreadNumbers DEF NotStarted, Sequential, NoInfo
  <2>3. BenchState /\ G_IOSIZE > 0
    BY <2>2 DEF BenchControl, Started
  <2>4. QED
    BY <1>1, <1>8, <2>1, <2>3, WriteStays
<1>9. Written' <=> Written
  BY <1>1, <1>2 DEF Written
<1>10. DatasetInv'
  BY <1>1, <1>2, <1>4, <1>7, <1>8, <1>9 DEF DatasetInv
<1>11. QED
  BY <1>6, <1>10

LEMMA DriverStep == ApartInv /\ DriverInv /\ [Next]_vars => DriverInv'
<1> SUFFICES ASSUME ApartInv, DriverInv, [Next]_vars PROVE DriverInv'
  OBVIOUS
<1>1. UNCHANGED program
  BY ProgramStays
<1>2. ASSUME program \in BenchPrograms PROVE BenchControl' /\ DatasetInv'
  <2>1. BenchPlaces /\ BenchControl /\ DatasetInv
    BY <1>2 DEF ApartInv, DriverInv
  <2>2. CASE BenchMain
    BY <1>2, <2>1, <2>2, BenchControlMain, DatasetMain
  <2>3. ASSUME NEW t \in Threads, BenchThread(t)
        PROVE  BenchControl' /\ DatasetInv'
    BY <1>2, <2>1, <2>3, BenchControlRun, DatasetRun
  <2>4. CASE UNCHANGED vars
    BY <1>2, <2>1, <2>4, BenchStays
  <2>5. QED
    BY <1>2, <2>2, <2>3, <2>4, BenchSteps
<1>3. ASSUME program = "load" PROVE LoadCounts'
  BY <1>3, LoadCountsStep DEF ApartInv, DriverInv
<1>4. QED
  BY <1>1, <1>2, <1>3 DEF DriverInv

LEMMA DriverStart == Init => DriverInv
<1> SUFFICES ASSUME Init PROVE DriverInv
  OBVIOUS
<1>1. program \in TARGET
  BY DriversAssumption DEF Init, ReplayInit, SharedInit
<1>2. program \in BenchPrograms => BenchControl /\ DatasetInv
  BY BenchControlStart, DatasetStart
<1>3. LoadCounts
  BY LoadCountsStart
<1>4. QED
  BY <1>1, <1>2, <1>3 DEF DriverInv

LEMMA DriverInvariant == Spec => [](SampleInv /\ ApartInv /\ DriverInv)
  BY SampleStart, SampleStep, ApartStart, ApartStep, DriverStart, DriverStep, PTL
     DEF Spec

LEMMA BenchIsInBuffer ==
  ASSUME BenchPlaces, BenchControl, program \in BenchPrograms
  PROVE  BenchInBuffer
<1> DEFINE slack == IF program = "main" /\ Sequential("W") THEN SlackMB ELSE 0
<1> SUFFICES ASSUME WholeBlocks, NEW t \in Threads
             PROVE  request[t].buf + request[t].len <= Part + slack
  BY DEF BenchInBuffer
<1>1. /\ DATASET_SIZE \in Nat /\ NUM_THREADS \in Nat \ {0} /\ slack \in Nat
      /\ G_IOSIZE \in Nat
  BY BenchAssumption, ThreadsFinite DEF BenchPlaces
<1>2. Part \in Nat
  BY <1>1, DivMod DEF Part
<1> HIDE DEF slack
<1>3. CASE request[t] = NoRequest
  <2>1. request[t].buf = 0 /\ request[t].len = 0
    BY <1>3 DEF NoRequest
  <2>2. QED
    BY <1>1, <1>2, <2>1
<1>4. CASE request[t] # NoRequest
  <2>1. Started
    BY <1>4 DEF BenchControl, NotStarted
  <2>2. PICK k \in Nat : k < count /\ KthRequest(t, k)
    BY <1>4, <2>1 DEF Started, ThreadInv
  <2>3. Rounded(G_IOSIZE) = G_IOSIZE
    BY DEF WholeBlocks, Rounded
  <2>4. request[t].len = G_IOSIZE /\ request[t].buf = k * G_IOSIZE
    BY <2>2, <2>3 DEF KthRequest
  <2>5. G_IOSIZE \in Nat \ {0}
    BY <1>1, <2>1 DEF Started
  <2>6. (k + 1) * G_IOSIZE <= Part
    BY <1>1, <2>2, <2>5, RowInShare DEF count, Part
  <2>7. (k + 1) * G_IOSIZE = k * G_IOSIZE + G_IOSIZE /\ k * G_IOSIZE \in Nat
    BY <1>1, <2>2
  <2>8. QED
    BY <1>1, <1>2, <2>4, <2>6, <2>7
<1>5. QED
  BY <1>3, <1>4

(* A request lies in the buffer of the thread that serves it: those of     *)
(* trace_st, whichever of the lines its parser keeps they are made of, and *)
(* those of bench and main that are a whole number of blocks long, in      *)
(* every loop.  (The MD replay ends on what its buffer is too small for.)  *)
THEOREM RequestsInBuffer == Spec => []InBuffer
<1>1. SampleInv /\ ApartInv /\ DriverInv => InBuffer
  <2> SUFFICES ASSUME SampleInv, ApartInv, DriverInv
               PROVE  ReplayInBuffer /\ BenchInBuffer
    BY DEF InBuffer
  <2>1. program \in BenchPrograms => BenchInBuffer
    BY BenchIsInBuffer DEF ApartInv, DriverInv
  <2>2. program \notin BenchPrograms => BenchInBuffer
    BY DEF BenchInBuffer
  <2>3. QED
    BY <2>1, <2>2, ReplayIsInBuffer
<1>2. QED
  BY <1>1, DriverInvariant, PTL

LEMMA BenchIsInTable ==
  ASSUME BenchPlaces, BenchControl, DatasetInv, program \in BenchPrograms
  PROVE  BenchInTable
<1> SUFFICES ASSUME NEW t \in Threads, request[t].len > 0
             PROVE  user2stripe(request[t].off + request[t].len - 1) <= LastEntry
  BY DEF BenchInTable
<1> DEFINE o == request[t].off
           n == request[t].len
<1>1. ~(NoRequest.len > 0)
  BY DEF NoRequest
<1>2. request[t] # NoRequest
  BY <1>1
<1>3. Started /\ BenchState
  BY <1>2 DEF BenchControl, NotStarted
<1>4. PICK k \in Nat : k < count /\ KthRequest(t, k)
  BY <1>2, <1>3 DEF Started, ThreadInv
<1>5. /\ TableSpace \in Nat /\ n \in Nat /\ n > 0
      /\ (DATASET_SIZE \div G_IOSIZE) * Rounded(G_IOSIZE) \in Nat
      /\ 2 * ((DATASET_SIZE \div G_IOSIZE) * Rounded(G_IOSIZE)) <= TableSpace
  BY <1>3, <1>4, Room DEF Started, BenchState, KthRequest
<1>6. InSpace(o, n)
  <2>1. CASE Sequential("W")
    <3>1. /\ o \in Nat
          /\ o + n <= 2 * ((DATASET_SIZE \div G_IOSIZE) * Rounded(G_IOSIZE))
      BY <2>1 DEF DatasetInv, WriteInv, Bounded
    <3> DEFINE top == 2 * ((DATASET_SIZE \div G_IOSIZE) * Rounded(G_IOSIZE))
    <3>2. top \in Nat /\ o + n <= top /\ top <= TableSpace
      BY <1>5, <3>1
    <3> HIDE DEF top, o, n
    <3>3. o + n <= TableSpace
      BY <1>5, <3>1, <3>2
    <3>4. QED
      BY <3>1, <3>3 DEF InSpace
  <2>2. CASE ~Sequential("W")
    BY <1>4, <2>2 DEF KthRequest
  <2>3. QED
    BY <2>1, <2>2
<1> HIDE DEF o, n
<1>7. o + n - 1 \in Nat /\ o + n - 1 < TableSpace
  BY <1>5, <1>6 DEF InSpace
<1>8. QED
  BY <1>7, TableHas DEF o, n

(* search_SST finds an entry for every stripe of every request of bench,   *)
(* main and load, and of the requests of the replays that are not longer   *)
(* than the spare entries at the end of the table cover; on a longer write *)
(* that ends past them the replay ends (worker_fails).                     *)
THEOREM RequestsInTable == Spec => []InTable
<1>1. SampleInv /\ ApartInv /\ DriverInv => InTable
  <2> SUFFICES ASSUME SampleInv, ApartInv, DriverInv
               PROVE  ReplayInTable /\ BenchInTable /\ LoadInTable
    BY DEF InTable
  <2>1. program \in TracePrograms \cup BenchPrograms \cup {"load"}
    BY DEF DriverInv, TARGET, TracePrograms, BenchPrograms
  <2>2. CASE program \in TracePrograms
    <3>1. program # "load" /\ program \notin BenchPrograms
      BY <2>2 DEF TracePrograms, BenchPrograms
    <3>2. QED
      BY <2>2, <3>1, ReplayIsInTable DEF LoadInTable, BenchInTable
  <2>3. CASE program \in BenchPrograms
    <3>1. program # "load"
      BY <2>3 DEF BenchPrograms
    <3>2. wpc \in [Threads -> WorkerPlaces \ {"count"}]
      BY <2>3 DEF DriverInv, BenchControl, BenchState
    <3>3. \A t \in Threads : wpc[t] # "serve"
      BY <3>2 DEF WorkerPlaces
    <3>4. BenchInTable
      BY <2>3, BenchIsInTable DEF ApartInv, DriverInv
    <3>5. QED
      BY <3>1, <3>3, <3>4 DEF LoadInTable, ReplayInTable
  <2>4. CASE program = "load"
    <3>1. LoadPlaces /\ LoadCounts
      BY <2>4 DEF ApartInv, DriverInv
    <3>2. \A t \in Threads : wpc[t] # "serve"
      BY <3>1 DEF LoadCounts, WorkerPlaces
    <3>3. ReplayInTable /\ BenchInTable
      BY <2>4, <3>2 DEF ReplayInTable, BenchInTable, BenchPrograms
    <3>4. QED
      BY <3>1, <3>3, LoadIsInTable
  <2>5. QED
    BY <2>1, <2>2, <2>3, <2>4
<1>2. QED
  BY <1>1, DriverInvariant, PTL

(* With one loop, each slot of the dataset has been written once at the    *)
(* join of SeqWrite, whichever thread took it from the counter.            *)
THEOREM DatasetWrittenOnce == Spec => []WrittenOnce
<1>1. ApartInv /\ DriverInv => WrittenOnce
  <2> SUFFICES ASSUME ApartInv, DriverInv, AfterSequentialWrites, LOOP = 1,
                      NEW s \in Slots
               PROVE  writes[s] = IF s < NUM_THREADS * count THEN 1 ELSE 0
    BY DEF WrittenOnce
  <2>1. /\ BenchPlaces /\ BenchState /\ DatasetInv /\ mpc = "show"
        /\ NotStarted \/ Started
    BY DEF ApartInv, DriverInv, AfterSequentialWrites, BenchControl
  <2>2. G_IOSIZE > 0
    BY <2>1 DEF NotStarted, Started
  <2>3. Once
    BY <2>1 DEF DatasetInv, AfterSequentialWrites, WriteInv
  <2>4. Togo = 0
    <3>1. wpc = [t \in Threads |-> "none"]
      BY <2>1 DEF BenchState
    <3>2. First(Threads, count, wpc, i, loop) = {}
      BY <3>1 DEF First
    <3>3. QED
      BY <3>2, FS_EmptySet DEF Togo
  <2>5. SeqW_Offset + 0 = NUM_THREADS * count /\ SeqW_Offset \in Nat
    BY <2>1, <2>3, <2>4 DEF Once, BenchState
  <2>6. SeqW_Offset = NUM_THREADS * count
    BY <2>5
  <2>7. QED
    BY <2>3, <2>6 DEF Once
<1>2. QED
  BY <1>1, DriverInvariant, PTL

(* Sequential writes stay below twice the dataset, however many threads    *)
(* looked at the counter before it passed the end of the dataset.          *)
THEOREM OffsetsAreBounded == Spec => []OffsetBounded
<1>1. ApartInv /\ DriverInv => OffsetBounded
  <2> SUFFICES ASSUME ApartInv, DriverInv, program \in BenchPrograms,
                      Sequential("W"), WholeBlocks
               PROVE  \A t \in Threads :
                        request[t].off + request[t].len <= 2 * DATASET_SIZE
    BY DEF OffsetBounded
  <2>1. Bounded /\ BenchPlaces
    BY DEF ApartInv, DriverInv, DatasetInv, WriteInv
  <2>2. Rounded(G_IOSIZE) = G_IOSIZE
    BY DEF WholeBlocks, Rounded
  <2> SUFFICES ASSUME NEW t \in Threads
               PROVE  request[t].off + request[t].len <= 2 * DATASET_SIZE
    OBVIOUS
  <2> DEFINE q == DATASET_SIZE \div G_IOSIZE
  <2>3. request[t].off + request[t].len <= 2 * (q * G_IOSIZE)
    BY <2>1, <2>2 DEF Bounded
  <2>4. G_IOSIZE \in Nat \ {0}
    <3>1. NotStarted \/ Started
      BY DEF DriverInv, BenchControl
    <3>2. ~NotStarted
      <4>1. NoInfo.io_dir # "W" /\ 0 \in Threads
        BY ThreadNumbers DEF NoInfo
      <4>2. QED
        BY <4>1 DEF NotStarted, Sequential
    <3>3. QED
      BY <2>1, <3>1, <3>2 DEF Started, BenchPlaces
  <2>5. /\ DATASET_SIZE \in Nat /\ q \in Nat
        /\ G_IOSIZE * q \in Nat /\ G_IOSIZE * q <= DATASET_SIZE
    <3>1. DATASET_SIZE \in Nat
      BY BenchAssumption
    <3>2. /\ q \in Nat /\ o_align(DATASET_SIZE, G_IOSIZE) = G_IOSIZE * q
          /\ o_align(DATASET_SIZE, G_IOSIZE) \in Nat
          /\ o_align(DATASET_SIZE, G_IOSIZE) <= DATASET_SIZE
      BY <2>4, <3>1, AlignedDown
    <3>3. QED
      BY <3>1, <3>2
  <2>6. q * G_IOSIZE = G_IOSIZE * q
    BY <2>4, <2>5
  <2>7. /\ request[t].off \in Nat
        /\ request[t].len \in Nat
    <3>1. Started \/ NotStarted
      BY DEF DriverInv, BenchControl
    <3>2. request[t].off \in Nat
      BY <2>1 DEF Bounded
    <3>3. request[t] = NoRequest \/ request[t].len = G_IOSIZE
      BY <2>2, <3>1 DEF Started, NotStarted, ThreadInv, KthRequest
    <3>4. QED
      BY <2>4, <3>2, <3>3 DEF NoRequest
  <2> HIDE DEF q
  <2>8. QED
    BY <2>3, <2>5, <2>6, <2>7
<1>2. QED
  BY <1>1, DriverInvariant, PTL

(* A dataset of d for n threads, each with a part of c requests of size g. *)
Divided(d, n, g, part, c) ==
  /\ d \in Nat /\ n \in Nat \ {0} /\ g \in Nat \ {0}
  /\ part = d \div n /\ c = (d \div g) \div n /\ d % n = 0 /\ part % g = 0

LEMMA WholeParts ==
  ASSUME NEW d, NEW n, NEW g, NEW part, NEW c, Divided(d, n, g, part, c),
         NEW t \in Nat, t < n, NEW k \in Nat, k < c
  PROVE  /\ (o_align(t * part, g) + k * g) \div g = t * c + k
         /\ t * c + k \in Nat /\ t * c + k < n * c
<1> USE DEF Divided
<1> DEFINE p == part \div g
<1>1. part \in Nat /\ d = n * part
  <2>1. part \in Nat /\ d = n * part + (d % n)
    BY DivMod
  <2>2. n * part \in Nat
    BY <2>1
  <2>3. QED
    BY <2>1, <2>2
<1>2. p \in Nat /\ part = g * p
  <2>1. p \in Nat /\ part = g * p + (part % g)
    BY <1>1, DivMod
  <2> HIDE DEF p
  <2>2. g * p \in Nat
    BY <2>1
  <2>3. QED
    BY <2>1, <2>2
<1> HIDE DEF p
<1>3. c = p
  <2>1. d = (n * p) * g + 0 /\ n * p \in Nat
    BY <1>1, <1>2
  <2>2. d \div g = n * p
    <3> DEFINE m == n * p
    <3>1. m \in Nat /\ d = m * g + 0
      BY <2>1
    <3> HIDE DEF m
    <3>2. (m * g + 0) \div g = m
      BY <3>1, DivModUnique
    <3>3. QED
      BY <3>1, <3>2 DEF m
  <2>3. n * p = p * n + 0
    BY <1>2
  <2>4. (n * p) \div n = p
    BY <1>2, <2>3, DivModUnique
  <2>5. QED
    BY <2>2, <2>4
<1>4. o_align(t * part, g) = (t * p) * g
  <2>1. t * part = (t * p) * g + 0 /\ t * p \in Nat
    BY <1>2
  <2>2. (t * part) % g = 0
    BY <2>1, DivModUnique
  <2>3. (t * p) * g \in Nat
    BY <1>2
  <2>4. QED
    BY <2>1, <2>2, <2>3 DEF o_align
<1>5. ((t * p) * g + k * g) \div g = t * p + k
  <2>1. (t * p) * g + k * g = (t * p + k) * g + 0 /\ t * p + k \in Nat
    BY <1>2
  <2>2. ((t * p + k) * g + 0) \div g = t * p + k
    BY <2>1, DivModUnique
  <2>3. QED
    BY <2>1, <2>2
<1>6. t * p + k \in Nat /\ t * p + k < n * p
  <2>1. t * p \in Nat /\ n * p \in Nat /\ t * p + p <= n * p
    BY <1>2, Scaled
  <2>2. k < p
    BY <1>3
  <2>3. QED
    BY <1>2, <2>1, <2>2
<1>7. QED
  BY <1>3, <1>4, <1>5, <1>6

(* What main reads is written by the time it reads it, each thread reading *)
(* a part of its own, when a part is a whole number of requests: the       *)
(* writers' counter, reset or not, has been through every slot.            *)
THEOREM ReadsWereWritten ==
  ASSUME Part % IO_SIZE = 0
  PROVE  Spec => []ReadsAreWritten
<1>1. ApartInv /\ DriverInv => ReadsAreWritten
  <2> SUFFICES ASSUME ApartInv, DriverInv, program = "main", Sequential("R"),
                      NEW t \in Threads, request[t].len > 0
               PROVE  /\ writes[request[t].off \div G_IOSIZE] > 0
                      /\ \A u \in Threads : t # u => \/ request[u].len = 0
                                                     \/ request[u].off # request[t].off
    BY DEF ReadsAreWritten
  <2>1. /\ BenchPlaces /\ BenchState /\ DatasetInv /\ (NotStarted \/ Started)
        /\ program \in BenchPrograms
    BY DEF ApartInv, DriverInv, BenchControl, BenchPrograms
  <2>2. NoRequest.len = 0 /\ ~(NoRequest.len > 0)
    BY DEF NoRequest
  <2>3. Started /\ ~NotStarted
    BY <2>1, <2>2 DEF NotStarted
  <2>4. G_IOSIZE = IO_SIZE /\ G_IOSIZE \in Nat \ {0}
    BY <2>1, LayoutAssumption DEF BenchState, IO_SIZE, PARTSIZE
  <2>5. WholeBlocks /\ Rounded(G_IOSIZE) = G_IOSIZE
    BY <2>4, DriversAssumption DEF WholeBlocks, Rounded, IO_SIZE, PARTSIZE
  <2>6. Written
    <3>1. ~Sequential("W")
      BY DEF Sequential
    <3>2. ~(test <= WriteTest)
      BY <2>1, <2>3, <3>1 DEF DatasetInv
    <3>3. test > WriteTest
      <4>1. test \in Nat /\ WriteTest \in Nat
        BY <2>1 DEF BenchState, WriteTest
      <4>2. QED
        BY <3>2, <4>1
    <3>4. QED
      BY <2>1, <2>5, <3>1, <3>3 DEF DatasetInv
  <2>7. ASSUME NEW u \in Threads, request[u].len # 0
        PROVE  \E k \in Nat : k < count /\ request[u].off \div G_IOSIZE = u * count + k
               /\ u * count + k \in Nat /\ u * count + k < NUM_THREADS * count
    <3>1. PICK k \in Nat : k < count /\ KthRequest(u, k)
      BY <2>2, <2>3, <2>7 DEF Started, ThreadInv
    <3>2. request[u].off = o_align(u * Part, G_IOSIZE) + k * G_IOSIZE
      BY <2>5, <3>1 DEF KthRequest, PartStart
    <3>3. /\ DATASET_SIZE \in Nat /\ NUM_THREADS \in Nat \ {0}
          /\ DATASET_SIZE % NUM_THREADS = 0 /\ Part % G_IOSIZE = 0
          /\ u \in Nat /\ u < NUM_THREADS
      BY <2>4, BenchAssumption, ThreadNumbers
    <3>4. /\ (o_align(u * Part, G_IOSIZE) + k * G_IOSIZE) \div G_IOSIZE = u * count + k
          /\ u * count + k \in Nat /\ u * count + k < NUM_THREADS * count
      <4>1. Divided(DATASET_SIZE, NUM_THREADS, G_IOSIZE, Part, count)
        BY <2>4, <3>3 DEF Divided, Part, count
      <4>2. QED
        BY <3>1, <3>3, <4>1, WholeParts, Zenon
    <3>5. QED
      BY <3>1, <3>2, <3>4
  <2>8. request[t].len # 0
    OBVIOUS
  <2>9. PICK k \in Nat : /\ k < count /\ request[t].off \div G_IOSIZE = t * count + k
                         /\ t * count + k \in Nat /\ t * count + k < NUM_THREADS * count
    BY <2>7, <2>8
  <2>10. count \in Nat /\ NUM_THREADS * count \in Nat
         /\ Slots = 0 .. 2 * (NUM_THREADS * count) - 1
    BY <2>1, <2>3, Shares DEF Started
  <2>11. writes[request[t].off \div G_IOSIZE] > 0
    <3> DEFINE s == t * count + k
               x == NUM_THREADS * count
    <3>1. s \in Nat /\ x \in Nat /\ s < x
      BY <2>9, <2>10
    <3>2. s \in 0 .. 2 * x - 1
      <4> HIDE DEF s, x
      <4>1. QED
        BY <3>1
    <3>3. QED
      BY <2>6, <2>9, <2>10, <3>1, <3>2 DEF Written
  <2>12. ASSUME NEW u \in Threads, t # u, request[u].len # 0
         PROVE  request[u].off # request[t].off
    <3>1. PICK j \in Nat : j < count /\ request[u].off \div G_IOSIZE = u * count + j
      BY <2>7, <2>12
    <3>2. t \in Nat /\ u \in Nat
      BY ThreadNumbers
    <3> DEFINE c == count
    <3>3. c \in Nat /\ j < c /\ k < c
      BY <2>9, <2>10, <3>1
    <3>4. ASSUME NEW a \in Nat, NEW b \in Nat, a < b,
                 NEW m \in Nat, NEW n \in Nat, m < c
          PROVE  a * c + m # b * c + n
      <4>1. a * c \in Nat /\ b * c \in Nat /\ a * c + c <= b * c
        BY <3>3, <3>4, Scaled
      <4> HIDE DEF c
      <4>2. QED
        BY <3>3, <3>4, <4>1
    <3>5. t < u \/ u < t
      BY <2>12, <3>2
    <3>6. t * c + k # u * c + j
      <4> HIDE DEF c
      <4>1. CASE t < u
        BY <3>2, <3>3, <3>4, <4>1
      <4>2. CASE u < t
        <5>1. u * c + j # t * c + k
          BY <3>2, <3>3, <3>4, <4>2
        <5>2. QED
          BY <5>1
      <4>3. QED
        BY <3>5, <4>1, <4>2
    <3>7. QED
      BY <2>9, <3>1, <3>6
  <2>13. QED
    BY <2>11, <2>12
<1>2. QED
  BY <1>1, DriverInvariant, PTL

-----------------------------------------------------------------------------
(* Sums.  A sum is a fold over a finite set in an order CHOOSE takes; what *)
(* is proved of it here goes by the least size of a set of which it would  *)
(* be false.                                                               *)

(* The sums of f over the subsets of its domain.                           *)
One(s) == CHOOSE x \in s : TRUE
Rule(f, g, s) == g[s] = IF s = {} THEN 0 ELSE f[One(s)] + g[s \ {One(s)}]
IsSums(f, g) ==
  g = [s \in SUBSET DOMAIN f |-> IF s = {} THEN 0 ELSE f[One(s)] + g[s \ {One(s)}]]
Sums(f) == CHOOSE g : IsSums(f, g)

LEMMA SumIs ==
  ASSUME NEW f
  PROVE  SumFunction(f) = Sums(f)[DOMAIN f]
  BY DEF SumFunction, SumFunctionOnSet, FoldFunctionOnSet, MapThenFoldSet, Sums, IsSums, One

LEMMA OneIn ==
  ASSUME NEW S, IsFiniteSet(S), NEW s \in SUBSET S
  PROVE  /\ Cardinality(s) \in Nat /\ (Cardinality(s) = 0 <=> s = {})
         /\ \A x \in s : s \ {x} \in SUBSET S /\ Cardinality(s \ {x}) = Cardinality(s) - 1
         /\ s # {} => One(s) \in s
<1>1. IsFiniteSet(s)
  BY FS_Subset
<1>2. s # {} => One(s) \in s
  BY DEF One
<1>3. \A x \in s : Cardinality(s \ {x}) = Cardinality(s) - 1
  BY <1>1, FS_RemoveElement
<1>4. QED
  BY <1>1, <1>2, <1>3, FS_CardinalityType, FS_EmptySet

(* There are such sums: they are found for larger and larger sets.         *)
LEMMA SumsExist ==
  ASSUME NEW S, IsFiniteSet(S), NEW f \in [S -> Int]
  PROVE  \E g \in [SUBSET S -> Int] : IsSums(f, g)
<1> DEFINE P(n) == \E g \in [SUBSET S -> Int] :
                     \A s \in SUBSET S : Cardinality(s) <= n => Rule(f, g, s)
           Bad == {n \in Nat : ~P(n)}
<1>1. P(0)
  <2> DEFINE g == [s \in SUBSET S |-> 0]
  <2>1. \A s \in SUBSET S : Cardinality(s) <= 0 => s = {}
    BY OneIn
  <2>2. \A s \in SUBSET S : Cardinality(s) <= 0 => Rule(f, g, s)
    BY <2>1 DEF Rule
  <2>3. g \in [SUBSET S -> Int]
    OBVIOUS
  <2>4. QED
    BY <2>2, <2>3
<1>2. ASSUME NEW n \in Nat, P(n) PROVE P(n + 1)
  <2>1. PICK g \in [SUBSET S -> Int] :
          \A s \in SUBSET S : Cardinality(s) <= n => Rule(f, g, s)
    BY <1>2
  <2> DEFINE h == [s \in SUBSET S |->
                     IF s = {} THEN 0 ELSE f[One(s)] + g[s \ {One(s)}]]
  <2>2. h \in [SUBSET S -> Int]
    <3>1. ASSUME NEW s \in SUBSET S, s # {} PROVE f[One(s)] + g[s \ {One(s)}] \in Int
      <4>1. One(s) \in S /\ s \ {One(s)} \in SUBSET S
        BY <3>1, OneIn
      <4>2. f[One(s)] \in Int /\ g[s \ {One(s)}] \in Int
        BY <4>1
      <4>3. QED
        BY <4>2
    <3>2. QED
      BY <3>1
  <2>3. ASSUME NEW s \in SUBSET S, Cardinality(s) <= n PROVE h[s] = g[s]
    BY <2>1, <2>3 DEF Rule
  <2>4. ASSUME NEW s \in SUBSET S, Cardinality(s) <= n + 1 PROVE Rule(f, h, s)
    <3>1. CASE s = {}
      BY <3>1 DEF Rule
    <3>2. CASE s # {}
      <4>1. s \ {One(s)} \in SUBSET S /\ Cardinality(s \ {One(s)}) <= n
        BY <2>4, <3>2, OneIn
      <4>2. h[s \ {One(s)}] = g[s \ {One(s)}]
        BY <2>3, <4>1
      <4>3. QED
        BY <3>2, <4>2 DEF Rule
    <3>3. QED
      BY <3>1, <3>2
  <2> HIDE DEF h
  <2>5. QED
    BY <2>2, <2>4
<1> HIDE DEF P
<1>3. Bad = {}
  <2> SUFFICES ASSUME Bad # {} PROVE FALSE
    OBVIOUS
  <2>1. PICK m \in Bad : \A n \in Bad : m <= n
    BY LeastOfNat
  <2>2. m \in Nat /\ m # 0
    BY <1>1
  <2>3. m - 1 \in Nat /\ m - 1 \notin Bad
    BY <2>1, <2>2
  <2>4. P((m - 1) + 1)
    BY <1>2, <2>3
  <2>5. (m - 1) + 1 = m
    BY <2>2
  <2>6. QED
    BY <2>4, <2>5
<1>4. Cardinality(S) \in Nat
  BY FS_CardinalityType
<1>5. P(Cardinality(S))
  BY <1>3, <1>4
<1>6. PICK g \in [SUBSET S -> Int] :
        \A s \in SUBSET S : Cardinality(s) <= Cardinality(S) => Rule(f, g, s)
  BY <1>5 DEF P
<1>7. \A s \in SUBSET S : Cardinality(s) <= Cardinality(S)
  BY FS_Subset
<1>8. IsSums(f, g)
  BY <1>6, <1>7 DEF Rule, IsSums
<1>9. QED
  BY <1>8

(* Nor does it matter in which order they are taken.                       *)
LEMMA SumsRule ==
  ASSUME NEW S, IsFiniteSet(S), NEW f \in [S -> Int]
  PROVE  /\ Sums(f)[{}] = 0
         /\ \A s \in SUBSET S : /\ Sums(f)[s] \in Int
                                /\ \A x \in s : Sums(f)[s] = f[x] + Sums(f)[s \ {x}]
<1> DEFINE g == Sums(f)
<1>1. IsSums(f, g)
  BY SumsExist DEF Sums
<1> HIDE DEF g
<1>2. \A s \in SUBSET S : Rule(f, g, s)
  BY <1>1 DEF IsSums, Rule
<1>3. g[{}] = 0
  BY <1>2 DEF Rule
<1> DEFINE Odd == {Cardinality(s) : s \in {r \in SUBSET S : g[r] \notin Int}}
<1>4. Odd = {}
  <2> SUFFICES ASSUME Odd # {} PROVE FALSE
    OBVIOUS
  <2>0. Odd \in SUBSET Nat
    BY OneIn
  <2>1. PICK m \in Odd : \A n \in Odd : m <= n
    BY <2>0, LeastOfNat
  <2>2. PICK s \in SUBSET S : m = Cardinality(s) /\ g[s] \notin Int
    OBVIOUS
  <2>3. s # {}
    BY <1>3, <2>2
  <2>4. /\ One(s) \in s /\ s \ {One(s)} \in SUBSET S
        /\ Cardinality(s \ {One(s)}) = m - 1 /\ m \in Nat
    BY <2>2, <2>3, OneIn
  <2>5. ~(m <= m - 1)
    BY <2>4
  <2>6. g[s \ {One(s)}] \in Int
    BY <2>1, <2>4, <2>5
  <2>7. g[s] = f[One(s)] + g[s \ {One(s)}]
    BY <1>2, <2>3 DEF Rule
  <2>8. f[One(s)] \in Int
    BY <2>4
  <2>9. QED
    BY <2>2, <2>6, <2>7, <2>8
<1>5. \A s \in SUBSET S : g[s] \in Int
  BY <1>4
<1> HIDE DEF Odd
<1> DEFINE Wrong(s) == \E x \in s : g[s] # f[x] + g[s \ {x}]
           Bad == {Cardinality(s) : s \in {r \in SUBSET S : Wrong(r)}}
<1>6. Bad = {}
  <2> SUFFICES ASSUME Bad # {} PROVE FALSE
    OBVIOUS
  <2>0. Bad \in SUBSET Nat
    BY OneIn
  <2>1. PICK m \in Bad : \A n \in Bad : m <= n
    BY <2>0, LeastOfNat
  <2>a. PICK s \in SUBSET S : m = Cardinality(s) /\ Wrong(s)
    OBVIOUS
  <2>2. PICK x \in s : m = Cardinality(s) /\ g[s] # f[x] + g[s \ {x}]
    BY <2>a
  <2> DEFINE y == One(s)
             c == s \ {x}
             d == s \ {y}
             e == (s \ {x}) \ {y}
  <2>3. y \in s /\ m \in Nat
    BY <2>2, OneIn
  <2>4. g[s] = f[y] + g[d]
    BY <1>2, <2>2 DEF Rule
  <2>5. x # y
    BY <2>2, <2>4
  <2>6. /\ c \in SUBSET S /\ Cardinality(c) = m - 1
        /\ d \in SUBSET S /\ Cardinality(d) = m - 1
    BY <2>2, <2>3, OneIn
  <2> HIDE DEF y
  <2>7. ~(m <= m - 1)
    BY <2>3
  <2>8. ~Wrong(c) /\ ~Wrong(d)
    BY <2>1, <2>6, <2>7
  <2>9. y \in c /\ x \in d /\ d \ {x} = e /\ c \ {y} = e
    BY <2>2, <2>3, <2>5
  <2>10. g[c] = f[y] + g[e] /\ g[d] = f[x] + g[e]
    BY <2>8, <2>9
  <2>11. g[s] = f[y] + (f[x] + g[e]) /\ f[x] + g[c] = f[x] + (f[y] + g[e])
    BY <2>4, <2>10
  <2>12. f[x] \in Int /\ f[y] \in Int /\ g[e] \in Int
    BY <1>5, <2>3
  <2>13. QED
    BY <2>2, <2>11, <2>12
<1>7. QED
  BY <1>3, <1>5, <1>6 DEF g

(* A sum depends on the values over its set alone.                         *)
LEMMA SameSums ==
  ASSUME NEW S, IsFiniteSet(S), NEW f \in [S -> Int],
         NEW T, IsFiniteSet(T), NEW h \in [T -> Int],
         NEW U \in SUBSET (S \cap T), \A x \in U : f[x] = h[x]
  PROVE  Sums(f)[U] = Sums(h)[U]
<1> DEFINE g == Sums(f)
           k == Sums(h)
           Bad == {Cardinality(s) : s \in {r \in SUBSET U : g[r] # k[r]}}
<1>0. U \in SUBSET S /\ U \in SUBSET T /\ IsFiniteSet(U)
  BY FS_Subset
<1>1. /\ g[{}] = 0 /\ k[{}] = 0
      /\ \A s \in SUBSET U : \A x \in s : g[s] = f[x] + g[s \ {x}] /\ k[s] = h[x] + k[s \ {x}]
  BY <1>0, SumsRule
<1> HIDE DEF g, k
<1>2. Bad = {}
  <2> SUFFICES ASSUME Bad # {} PROVE FALSE
    OBVIOUS
  <2>0. Bad \in SUBSET Nat
    BY <1>0, OneIn
  <2>1. PICK m \in Bad : \A n \in Bad : m <= n
    BY <2>0, LeastOfNat
  <2>2. PICK s \in SUBSET U : m = Cardinality(s) /\ g[s] # k[s]
    OBVIOUS
  <2>3. s # {}
    BY <1>1, <2>2
  <2>4. /\ One(s) \in s /\ s \ {One(s)} \in SUBSET U
        /\ Cardinality(s \ {One(s)}) = m - 1 /\ m \in Nat
    BY <1>0, <2>2, <2>3, OneIn
  <2>5. ~(m <= m - 1)
    BY <2>4
  <2>6. g[s \ {One(s)}] = k[s \ {One(s)}]
    BY <2>1, <2>4, <2>5
  <2>7. g[s] = f[One(s)] + g[s \ {One(s)}] /\ k[s] = h[One(s)] + k[s \ {One(s)}]
    BY <1>1, <2>4
  <2>8. f[One(s)] = h[One(s)]
    BY <2>4
  <2>9. QED
    BY <2>2, <2>6, <2>7, <2>8
<1>3. QED
  BY <1>2 DEF g, k

(* The sum with the value of x in it, and without.                         *)
LEMMA SumWithout ==
  ASSUME NEW S, IsFiniteSet(S), NEW f \in [S -> Int], NEW x \in S
  PROVE  /\ SumFunction(f) \in Int
         /\ SumFunction([y \in S \ {x} |-> f[y]]) \in Int
         /\ SumFunction(f) = f[x] + SumFunction([y \in S \ {x} |-> f[y]])
<1> DEFINE T == S \ {x}
           h == [y \in T |-> f[y]]
<1>1. IsFiniteSet(T) /\ T \in SUBSET (S \cap T) /\ h \in [T -> Int]
  BY FS_Subset
<1>2. \A y \in T : f[y] = h[y]
  OBVIOUS
<1> HIDE DEF h
<1>3. Sums(f)[T] = Sums(h)[T]
  BY <1>1, <1>2, SameSums
<1>4. Sums(f)[S] = f[x] + Sums(f)[T] /\ Sums(f)[S] \in Int /\ Sums(f)[T] \in Int
  <2>1. S \in SUBSET S /\ T \in SUBSET S
    OBVIOUS
  <2>2. \A s \in SUBSET S : /\ Sums(f)[s] \in Int
                            /\ \A y \in s : Sums(f)[s] = f[y] + Sums(f)[s \ {y}]
    BY SumsRule
  <2>3. Sums(f)[S] \in Int /\ Sums(f)[T] \in Int
    BY <2>1, <2>2
  <2>4. Sums(f)[S] = f[x] + Sums(f)[S \ {x}]
    BY <2>1, <2>2
  <2>5. QED
    BY <2>3, <2>4
<1>5. SumFunction(f) = Sums(f)[S] /\ SumFunction(h) = Sums(h)[T]
  <2>1. DOMAIN f = S /\ DOMAIN h = T
    BY <1>1
  <2>2. QED
    BY <2>1, SumIs
<1>6. QED
  BY <1>3, <1>4, <1>5 DEF h

LEMMA SumInt ==
  ASSUME NEW S, IsFiniteSet(S), NEW f \in [S -> Int]
  PROVE  SumFunction(f) \in Int
<1>1. DOMAIN f = S
  OBVIOUS
<1>2. Sums(f)[S] \in Int
  BY SumsRule
<1>3. QED
  BY <1>1, <1>2, SumIs

(* One value changes.                                                      *)
LEMMA SumChanges ==
  ASSUME NEW S, IsFiniteSet(S), NEW f \in [S -> Int], NEW h \in [S -> Int],
         NEW x \in S, \A y \in S : y # x => h[y] = f[y]
  PROVE  SumFunction(h) = SumFunction(f) + (h[x] - f[x])
<1> DEFINE F == [y \in S \ {x} |-> f[y]]
           H == [y \in S \ {x} |-> h[y]]
<1>1. F = H
  OBVIOUS
<1>2. /\ SumFunction(f) = f[x] + SumFunction(F)
      /\ SumFunction(h) = h[x] + SumFunction(H)
      /\ SumFunction(F) \in Int
  BY SumWithout
<1> HIDE DEF F, H
<1>3. f[x] \in Int /\ h[x] \in Int
  OBVIOUS
<1>4. QED
  BY <1>1, <1>2, <1>3

(* One element more.                                                       *)
LEMMA SumMore ==
  ASSUME NEW S, IsFiniteSet(S), NEW x, x \notin S, NEW h \in [S \cup {x} -> Int]
  PROVE  SumFunction(h) = SumFunction([y \in S |-> h[y]]) + h[x]
<1> DEFINE T == S \cup {x}
<1>1. IsFiniteSet(T) /\ x \in T /\ T \ {x} = S
  BY FS_AddElement
<1>2. h[x] \in Int
  OBVIOUS
<1> HIDE DEF T
<1>3. h \in [T -> Int]
  BY DEF T
<1>4. /\ SumFunction([y \in T \ {x} |-> h[y]]) \in Int
      /\ SumFunction(h) = h[x] + SumFunction([y \in T \ {x} |-> h[y]])
  BY <1>1, <1>3, SumWithout
<1>5. QED
  BY <1>1, <1>2, <1>4

(* Where the values are 0 need not be summed.                              *)
LEMMA SumOfPart ==
  ASSUME NEW S, IsFiniteSet(S), NEW f \in [S -> Int], NEW T \in SUBSET S,
         \A x \in S \ T : f[x] = 0
  PROVE  SumFunction(f) = SumFunction([x \in T |-> f[x]])
<1> DEFINE g == Sums(f)
           Bad == {Cardinality(s) : s \in {r \in SUBSET S : T \subseteq r /\ g[r] # g[T]}}
           h == [x \in T |-> f[x]]
<1>1. \A s \in SUBSET S : g[s] \in Int /\ \A x \in s : g[s] = f[x] + g[s \ {x}]
  BY SumsRule
<1> HIDE DEF g
<1>2. Bad = {}
  <2> SUFFICES ASSUME Bad # {} PROVE FALSE
    OBVIOUS
  <2>0. Bad \in SUBSET Nat
    BY OneIn
  <2>1. PICK m \in Bad : \A n \in Bad : m <= n
    BY <2>0, LeastOfNat
  <2>2. PICK s \in SUBSET S : m = Cardinality(s) /\ T \subseteq s /\ g[s] # g[T]
    OBVIOUS
  <2>3. PICK x \in s : x \notin T
    BY <2>2
  <2>4. s \ {x} \in SUBSET S /\ Cardinality(s \ {x}) = m - 1 /\ m \in Nat
    BY <2>2, OneIn
  <2>5. ~(m <= m - 1)
    BY <2>4
  <2>6. T \subseteq s \ {x}
    BY <2>2, <2>3
  <2>7. g[s \ {x}] = g[T]
    BY <2>1, <2>4, <2>5, <2>6
  <2>8. g[s] = 0 + g[s \ {x}] /\ g[s \ {x}] \in Int
    BY <1>1, <2>3, <2>4
  <2>9. QED
    BY <2>2, <2>7, <2>8
<1>3. g[S] = g[T]
  BY <1>2
<1>4. IsFiniteSet(T) /\ h \in [T -> Int] /\ T \in SUBSET (S \cap T)
  BY FS_Subset
<1>5. \A x \in T : f[x] = h[x]
  OBVIOUS
<1> HIDE DEF h
<1>6. g[T] = Sums(h)[T]
  BY <1>4, <1>5, SameSums DEF g
<1>7. SumFunction(f) = Sums(f)[S] /\ SumFunction(h) = Sums(h)[T]
  <2>1. DOMAIN f = S /\ DOMAIN h = T
    BY <1>4
  <2>2. QED
    BY <2>1, SumIs
<1>8. QED
  BY <1>3, <1>6, <1>7 DEF g, h

LEMMA SumOfNone ==
  ASSUME NEW S, IsFiniteSet(S), NEW f \in [S -> Int], \A x \in S : f[x] = 0
  PROVE  SumFunction(f) = 0
<1> DEFINE h == [x \in {} |-> f[x]]
<1>1. SumFunction(f) = SumFunction(h)
  <2>1. {} \in SUBSET S /\ \A x \in S \ {} : f[x] = 0
    OBVIOUS
  <2>2. QED
    BY <2>1, SumOfPart
<1>2. h \in [{} -> Int] /\ DOMAIN h = {}
  OBVIOUS
<1> HIDE DEF h
<1>3. SumFunction(h) = 0
  BY <1>2, SumIs, SumsRule, FS_EmptySet
<1>4. QED
  BY <1>1, <1>3

(* The same value everywhere.                                              *)
LEMMA SumOfEqual ==
  ASSUME NEW S, IsFiniteSet(S), NEW c \in Nat, NEW f \in [S -> Int],
         \A x \in S : f[x] = c
  PROVE  SumFunction(f) = Cardinality(S) * c
<1> DEFINE g == Sums(f)
           Bad == {Cardinality(s) : s \in {r \in SUBSET S : g[r] # Cardinality(r) * c}}
<1>a. g[{}] = 0
  BY SumsRule
<1>1. \A s \in SUBSET S : g[s] \in Int /\ \A x \in s : g[s] = f[x] + g[s \ {x}]
  BY SumsRule
<1> HIDE DEF g
<1>2. Bad = {}
  <2> SUFFICES ASSUME Bad # {} PROVE FALSE
    OBVIOUS
  <2>0. Bad \in SUBSET Nat
    BY OneIn
  <2>1. PICK m \in Bad : \A n \in Bad : m <= n
    BY <2>0, LeastOfNat
  <2>2. PICK s \in SUBSET S : m = Cardinality(s) /\ g[s] # m * c
    OBVIOUS
  <2>3. s # {}
    <3>1. Cardinality({}) = 0 /\ 0 * c = 0
      BY FS_EmptySet
    <3>2. QED
      BY <1>a, <2>2, <3>1
  <2>4. /\ One(s) \in s /\ s \ {One(s)} \in SUBSET S
        /\ Cardinality(s \ {One(s)}) = m - 1 /\ m \in Nat
    BY <2>2, <2>3, OneIn
  <2>5. ~(m <= m - 1)
    BY <2>4
  <2>6. g[s \ {One(s)}] = (m - 1) * c
    BY <2>1, <2>4, <2>5
  <2>7. g[s] = c + (m - 1) * c
    BY <1>1, <2>4, <2>6
  <2>8. \A n \in Nat : c + (n - 1) * c = n * c
    OBVIOUS
  <2>9. QED
    BY <2>2, <2>4, <2>7, <2>8
<1>3. g[S] = Cardinality(S) * c
  BY <1>2
<1>4. DOMAIN f = S
  OBVIOUS
<1>5. QED
  BY <1>3, <1>4, SumIs DEF g

(* Of natural numbers a sum is at least each of them.                      *)
LEMMA SumAtLeast ==
  ASSUME NEW S, IsFiniteSet(S), NEW f \in [S -> Nat]
  PROVE  SumFunction(f) \in Nat /\ \A x \in S : f[x] <= SumFunction(f)
<1> DEFINE g == Sums(f)
           Bad == {Cardinality(s) : s \in {r \in SUBSET S : g[r] \notin Nat}}
<1>0. f \in [S -> Int]
  OBVIOUS
<1>a. g[{}] = 0
  BY <1>0, SumsRule
<1>1. \A s \in SUBSET S : g[s] \in Int /\ \A x \in s : g[s] = f[x] + g[s \ {x}]
  BY <1>0, SumsRule
<1> HIDE DEF g
<1>2. Bad = {}
  <2> SUFFICES ASSUME Bad # {} PROVE FALSE
    OBVIOUS
  <2>0. Bad \in SUBSET Nat
    BY OneIn
  <2>1. PICK m \in Bad : \A n \in Bad : m <= n
    BY <2>0, LeastOfNat
  <2>2. PICK s \in SUBSET S : m = Cardinality(s) /\ g[s] \notin Nat
    OBVIOUS
  <2>3. s # {}
    BY <1>a, <2>2
  <2>4. /\ One(s) \in s /\ s \ {One(s)} \in SUBSET S
        /\ Cardinality(s \ {One(s)}) = m - 1 /\ m \in Nat
    BY <2>2, <2>3, OneIn
  <2>5. ~(m <= m - 1)
    BY <2>4
  <2>6. g[s \ {One(s)}] \in Nat
    BY <2>1, <2>4, <2>5
  <2>7. g[s] = f[One(s)] + g[s \ {One(s)}] /\ f[One(s)] \in Nat
    BY <1>1, <2>4
  <2>8. QED
    BY <2>2, <2>6, <2>7
<1>3. \A s \in SUBSET S : g[s] \in Nat
  BY <1>2
<1>4. ASSUME NEW x \in S PROVE f[x] <= g[S]
  <2>1. g[S] = f[x] + g[S \ {x}] /\ g[S \ {x}] \in Nat /\ f[x] \in Nat
    BY <1>1, <1>3
  <2>2. QED
    BY <2>1
<1>5. DOMAIN f = S
  OBVIOUS
<1>6. SumFunction(f) = g[S]
  BY <1>5, SumIs DEF g
<1>7. QED
  BY <1>3, <1>4, <1>6

-----------------------------------------------------------------------------
(* The totals.  While the workers run, each sum that will be reported is   *)
(* what the cursors and the loop variables say, less what has been taken   *)
(* and not yet served.                                                     *)

(* Of a replay: the lengths and the reads of the first n lines.            *)
Lengths(n) == SumFunction([l \in 1 .. n |-> trace[l].len])
ReadLines(n) == SumFunction([l \in 1 .. n |-> IF trace[l].dir = "R" THEN 1 ELSE 0])

(* What workers have taken of the trace and not yet served.                *)
Taking == [t \in Threads |-> IF wpc[t] \in {"dir", "serve"} THEN Length(t) ELSE 0]
Reading == [t \in Threads |-> IF wpc[t] = "serve" /\ IsRead(t) THEN 1 ELSE 0]

ReplayCounts ==
  /\ IO_LatArray = i
  /\ IOCOUNT = SumFunction(IO_LatArray)
  /\ DATA_WRITTEN + DATA_READ + SumFunction(Taking) = Lengths(len_cnt)
  /\ program = "trace_st" =>
       SumFunction(ReadIO_LatArray) + SumFunction(Reading) = ReadLines(iodir_cnt)

AllServed(n, all, data, reads) ==
  LET lines == Count(trace) * NUM_THREADS IN
  /\ n = lines /\ all = lines /\ data = Lengths(lines)
  /\ program = "trace_st" => reads = ReadLines(lines)

AllCounted == AllServed(IOCOUNT, merge(IO_LatArray), DATA_WRITTEN + DATA_READ,
                        merge(ReadIO_LatArray))
AllReported == AllServed(totals.n, totals.all, totals.w + totals.r, totals.read)

ReplaySums ==
  /\ ReadIO_LatArray \in [Threads -> Nat]
  /\ \A t \in Threads : wpc[t] = "ended" => i[t] = Count(trace)
  /\ mpc \in {"start", "read"} \cup Replaying => ReplayCounts
  /\ mpc = "joincollector" => AllCounted
  /\ mpc = "print" \/ cpc = "ended" => AllReported

(* Of a thread of load or bench: the requests it has counted.              *)
Steps(t) ==
  loop[t] * info[t].count + (IF wpc[t] \in {"reset", "io", "count"} THEN i[t] ELSE 0)
AllSteps == [t \in Threads |-> Steps(t)]

(* Of load: the requests issued, by writers and by readers.                *)
Issued(t) == Steps(t) + (IF wpc[t] = "count" THEN 1 ELSE 0)
ByWriters == [t \in Threads |-> IF t \in Writers THEN Issued(t) ELSE 0]
ByReaders == [t \in Threads |-> IF t \in Readers /\ ~is_degr_read[t] THEN Issued(t) ELSE 0]

LoadCounters ==
  /\ IOCOUNT = SumFunction(AllSteps)
  /\ IO_LatArray = [t \in Threads |-> ByWriters[t] + ByReaders[t]]
  /\ ReadIO_LatArray = ByReaders
  /\ DATA_WRITTEN = WRITE_IOSIZE * SumFunction(ByWriters)
  /\ DATA_READ = READ_IOSIZE * SumFunction(ByReaders)

Planned(T) == SumFunction([t \in T |-> LOOP * info[t].count])

PlanReported ==
  LET done == {t \in Readers : ~is_degr_read[t]} IN
  /\ totals.n = Planned(Threads)
  /\ totals.w = WRITE_IOSIZE * Planned(Writers)
  /\ totals.r = READ_IOSIZE * Planned(done)
  /\ totals.read = Planned(done) /\ totals.all = Planned(Writers \cup done)

LoadSums ==
  /\ LOOP \in Nat \ {0} /\ loop \in [Threads -> Nat]
  /\ mpc \notin {"collect", "join"} => \A t \in Threads : wpc[t] = "none"
  /\ mpc = "start" => /\ IO_LatArray = NoLatency /\ ReadIO_LatArray = NoLatency
                      /\ DATA_WRITTEN = 0 /\ DATA_READ = 0 /\ IOCOUNT = 0
  /\ mpc \in {"collect", "join", "joincollector", "print"} => info = LoadInfos
  /\ mpc \in {"collect", "join", "joincollector"} => LoadCounters
  /\ \A t \in Threads : mpc = "joincollector" \/ wpc[t] = "ended" => loop[t] = LOOP
  /\ mpc = "print" \/ cpc = "ended" => PlanReported

BenchSums ==
  /\ mpc = "start" => IO_LatArray = NoLatency
  /\ mpc = "join" => IO_LatArray = AllSteps
  /\ mpc = "show" => IO_LatArray = [t \in Threads |-> LOOP * count]
  /\ \A t \in Threads : wpc[t] = "ended" => loop[t] = LOOP

(* The totals are taken when nobody counts any more.                       *)
FlagInv ==
  /\ Collector_endflag => mpc \in {"joincollector", "print", "aborted"}
  /\ cpc \in {"totals", "ended"} => mpc = "joincollector"

TotalsInv ==
  /\ program \in TracePrograms => FlagInv /\ ReplaySums
  /\ program = "load" => FlagInv /\ LoadSums
  /\ program = "bench" => BenchSums
  /\ AbortCauses

-----------------------------------------------------------------------------
(* The sums of the replays.                                                *)

(* An array of latencies, or of loop variables, of which one grows.        *)
LEMMA SumGrows ==
  ASSUME NEW f \in [Threads -> Int], NEW t \in Threads, NEW h,
         h = [f EXCEPT ![t] = @ + 1]
  PROVE  SumFunction(f) \in Int /\ SumFunction(h) = SumFunction(f) + 1
<1>1. h \in [Threads -> Int] /\ h[t] = f[t] + 1 /\ \A u \in Threads : u # t => h[u] = f[u]
  OBVIOUS
<1>2. \A g \in [Threads -> Int] :
        (\A u \in Threads : u # t => g[u] = f[u])
        => SumFunction(g) = SumFunction(f) + (g[t] - f[t])
  BY ThreadsFinite, SumChanges
<1>3. SumFunction(f) \in Int
  BY ThreadsFinite, SumInt
<1>4. SumFunction(h) = SumFunction(f) + (h[t] - f[t])
  BY <1>1, <1>2
<1>5. h[t] - f[t] = 1
  BY <1>1
<1>6. QED
  BY <1>3, <1>4, <1>5

LEMMA NoSum ==
  /\ SumFunction(NoLatency) = 0 /\ NoLatency \in [Threads -> Nat]
  /\ NoLatency \in [Threads -> Int] /\ Lengths(0) = 0 /\ ReadLines(0) = 0
<1>1. NoLatency \in [Threads -> Int] /\ \A t \in Threads : NoLatency[t] = 0
  BY DEF NoLatency
<1>2. SumFunction(NoLatency) = 0
  BY <1>1, ThreadsFinite, SumOfNone
<1>3. 1 .. 0 = {} /\ IsFiniteSet({})
  BY FS_EmptySet
<1>4. \A f \in [{} -> Int] : SumFunction(f) = 0
  BY <1>3, SumOfNone
<1>5. Lengths(0) = 0
  BY <1>3, <1>4 DEF Lengths
<1>6. ReadLines(0) = 0
  BY <1>3, <1>4 DEF ReadLines
<1>7. QED
  BY <1>1, <1>2, <1>5, <1>6 DEF NoLatency

(* One line more.                                                          *)
LEMMA LinesMore ==
  ASSUME ReplayState, NEW n \in Nat, n + 1 <= Len(trace)
  PROVE  /\ Lengths(n) \in Int /\ Lengths(n + 1) = Lengths(n) + trace[n + 1].len
         /\ ReadLines(n) \in Int
         /\ ReadLines(n + 1) = ReadLines(n) + (IF trace[n + 1].dir = "R" THEN 1 ELSE 0)
<1> DEFINE S == 1 .. n
           x == n + 1
           f == [l \in S \cup {x} |-> trace[l].len]
           g == [l \in S \cup {x} |-> IF trace[l].dir = "R" THEN 1 ELSE 0]
<1>1. Len(trace) \in Nat /\ \A l \in 1 .. Len(trace) : trace[l].len \in Nat
  BY DEF ReplayState
<1>2. S \cup {x} = 1 .. n + 1 /\ x \notin S /\ S \cup {x} \subseteq 1 .. Len(trace)
  BY <1>1
<1>3. IsFiniteSet(S)
  BY FS_Interval
<1>4. f \in [S \cup {x} -> Int] /\ g \in [S \cup {x} -> Int]
  BY <1>1, <1>2
<1>5. /\ [l \in S |-> f[l]] = [l \in S |-> trace[l].len] /\ f[x] = trace[x].len
      /\ [l \in S |-> g[l]] = [l \in S |-> IF trace[l].dir = "R" THEN 1 ELSE 0]
      /\ g[x] = IF trace[x].dir = "R" THEN 1 ELSE 0
  OBVIOUS
<1>6. /\ Lengths(n) = SumFunction([l \in S |-> f[l]]) /\ Lengths(n + 1) = SumFunction(f)
      /\ ReadLines(n) = SumFunction([l \in S |-> g[l]]) /\ ReadLines(n + 1) = SumFunction(g)
  BY <1>2, <1>5 DEF Lengths, ReadLines
<1>7. [l \in S |-> f[l]] \in [S -> Int] /\ [l \in S |-> g[l]] \in [S -> Int]
  BY <1>4
<1> HIDE DEF f, g, S, x
<1>8. /\ SumFunction([l \in S |-> f[l]]) \in Int /\ SumFunction([l \in S |-> g[l]]) \in Int
  BY <1>3, <1>7, SumInt
<1>9. /\ SumFunction(f) = SumFunction([l \in S |-> f[l]]) + f[x]
      /\ SumFunction(g) = SumFunction([l \in S |-> g[l]]) + g[x]
  BY <1>2, <1>3, <1>4, SumMore
<1>10. QED
  BY <1>5, <1>6, <1>8, <1>9 DEF x

(* What has been taken of the trace.                                       *)
TakingTyped == program \in TracePrograms /\ LengthInv /\ ReplayState
               => Taking \in [Threads -> Nat] /\ Reading \in [Threads -> Nat]

LEMMA TakingType == TakingTyped
<1> SUFFICES ASSUME program \in TracePrograms, LengthInv, ReplayState
             PROVE  Taking \in [Threads -> Nat] /\ Reading \in [Threads -> Nat]
  BY DEF TakingTyped
<1>1. ASSUME NEW t \in Threads, wpc[t] \in {"dir", "serve"} PROVE Length(t) \in Nat
  BY <1>1 DEF LengthInv, ReplayState, Length, HasLength
<1>2. QED
  BY <1>1 DEF Taking, Reading

LEMMA TakingTypeNext == TakingTyped'
  BY TakingType, PTL

LEMMA SameTaking ==
  ASSUME UNCHANGED trace,
         \A t \in Threads : /\ wpc'[t] \in {"dir", "serve"} <=> wpc[t] \in {"dir", "serve"}
                            /\ wpc[t] \in {"dir", "serve"} => req'[t].len = req[t].len
  PROVE  Taking' = Taking
  BY DEF Taking, Length

LEMMA SameReading ==
  ASSUME UNCHANGED trace,
         \A t \in Threads : /\ wpc'[t] = "serve" <=> wpc[t] = "serve"
                            /\ wpc[t] = "serve" => req'[t].dir = req[t].dir
  PROVE  Reading' = Reading
  BY DEF Reading, IsRead

LEMMA TakingChanges ==
  ASSUME Taking \in [Threads -> Nat], Taking' \in [Threads -> Nat], UNCHANGED trace,
         NEW t \in Threads, \A u \in Threads \ {t} : wpc'[u] = wpc[u] /\ req'[u] = req[u]
  PROVE  /\ SumFunction(Taking) \in Int
         /\ SumFunction(Taking') = SumFunction(Taking) + (Taking'[t] - Taking[t])
<1>1. \A u \in Threads : u # t => Taking'[u] = Taking[u]
  BY DEF Taking, Length
<1>2. Taking \in [Threads -> Int] /\ Taking' \in [Threads -> Int]
  OBVIOUS
<1>3. QED
  BY <1>1, <1>2, ThreadsFinite, SumChanges, SumInt

LEMMA ReadingChanges ==
  ASSUME Reading \in [Threads -> Nat], Reading' \in [Threads -> Nat], UNCHANGED trace,
         NEW t \in Threads, \A u \in Threads \ {t} : wpc'[u] = wpc[u] /\ req'[u] = req[u]
  PROVE  /\ SumFunction(Reading) \in Int
         /\ SumFunction(Reading') = SumFunction(Reading) + (Reading'[t] - Reading[t])
<1>1. \A u \in Threads : u # t => Reading'[u] = Reading[u]
  BY DEF Reading, IsRead
<1>2. Reading \in [Threads -> Int] /\ Reading' \in [Threads -> Int]
  OBVIOUS
<1>3. QED
  BY <1>1, <1>2, ThreadsFinite, SumChanges, SumInt

(* A worker's step.                                                        *)
LEMMA ReplaySumsRun ==
  ASSUME SampleInv, FlagInv, ReplaySums, program \in TracePrograms,
         NEW t \in Threads, worker_run(t)
  PROVE  ReplaySums'
<1>1. UNCHANGED <<program, mpc, traces, line, trace, cpc, sums, totals, Collector_endflag>>
  BY DEF worker_run, program_vars, item
<1>2. /\ LengthInv /\ LengthInv' /\ ReplayState /\ ReplayState'
      /\ DATA_WRITTEN \in Nat /\ DATA_READ \in Nat /\ IOCOUNT \in Nat
  <2>1. LengthInv'
    BY ReplayGrows
  <2>2. CursorInv'
    BY WorkerStep DEF SampleInv
  <2>3. CollectInv
    BY DEF SampleInv, BenchPrograms, TracePrograms
  <2>4. QED
    BY <1>1, <2>1, <2>2, <2>3 DEF SampleInv, CursorInv, CollectInv, LoadsInv
<1>3. mpc \in Replaying /\ Counted
  <2>1. wpc[t] # "none"
    BY DEF worker_run, TakeOffset, TakeLength, TakeDirection,
           Serve_st, Serve_md, CountIO, EndWorker, Worker
  <2>2. QED
    BY <2>1 DEF SampleInv, CursorInv, Idle
<1>4. /\ ReplayCounts /\ ReadIO_LatArray \in [Threads -> Nat]
      /\ \A u \in Threads : wpc[u] = "ended" => i[u] = Count(trace)
  BY <1>3 DEF ReplaySums
<1>5. /\ i \in [Threads -> Nat] /\ IO_LatArray = i
      /\ wpc \in [Threads -> {"none", "next", "ended"} \cup HasOffset]
      /\ req \in [Threads -> Requests]
  BY <1>2, <1>4 DEF ReplayState, ReplayCounts, LengthInv
<1>6. /\ Taking \in [Threads -> Nat] /\ Reading \in [Threads -> Nat]
      /\ Taking' \in [Threads -> Nat] /\ Reading' \in [Threads -> Nat]
  BY <1>1, <1>2, TakingType, TakingTypeNext DEF TakingTyped
<1> SUFFICES /\ ReplayCounts' /\ ReadIO_LatArray' \in [Threads -> Nat]
             /\ \A u \in Threads : wpc'[u] = "ended" => i'[u] = Count(trace)
  BY <1>1, <1>3 DEF ReplaySums, FlagInv, Replaying
<1>7. /\ off_cnt \in Nat /\ len_cnt \in Nat /\ iodir_cnt \in Nat
      /\ len_cnt' <= Len(trace) /\ iodir_cnt' <= Len(trace)
  <2>1. \A B \in Parts : Cardinality(Taken(B)) \in Nat
    BY <1>2, TakenFits DEF Parts, HasOffset, HasLength, HasDirection
  <2>2. CursorsInTrace'
    BY <1>1, WorkerStep, CursorsFitNext DEF SampleInv
  <2>3. QED
    BY <1>1, <1>3, <2>1, <2>2 DEF Counted, Parts, CursorsInTrace, Replaying
<1>8. \A n : UNCHANGED <<Lengths(n), ReadLines(n), Count(trace)>>
  BY <1>1 DEF Lengths, ReadLines
<1>9. /\ IOCOUNT = SumFunction(i) /\ SumFunction(i) \in Int
      /\ DATA_WRITTEN + DATA_READ + SumFunction(Taking) = Lengths(len_cnt)
      /\ program = "trace_st" =>
           SumFunction(ReadIO_LatArray) + SumFunction(Reading) = ReadLines(iodir_cnt)
  BY <1>4, <1>5, ThreadsFinite, SumInt DEF ReplayCounts
<1>10. SumFunction(Taking) \in Int /\ SumFunction(Reading) \in Int
       /\ SumFunction(ReadIO_LatArray) \in Int
  BY <1>4, <1>6, ThreadsFinite, SumAtLeast
<1>11. ASSUME NEW m, wpc' = [wpc EXCEPT ![t] = m]
       PROVE  wpc'[t] = m /\ \A u \in Threads \ {t} : wpc'[u] = wpc[u]
  BY <1>5, <1>11
<1>12. CASE TakeOffset(t)
  <2>1. /\ wpc[t] = "next" /\ wpc' = [wpc EXCEPT ![t] = "len"]
        /\ req' = [req EXCEPT ![t].off = off_cnt + 1] /\ off_cnt + 1 \in Int
        /\ UNCHANGED <<len_cnt, iodir_cnt, i, IO_LatArray, ReadIO_LatArray,
                       DATA_WRITTEN, DATA_READ, IOCOUNT>>
    BY <1>7, <1>12 DEF TakeOffset, Worker, lat_vars, counters
  <2>2. \A u \in Threads : req'[u].len = req[u].len /\ req'[u].dir = req[u].dir
    BY <1>5, <2>1, TakeOffsetPart
  <2>3. wpc'[t] = "len" /\ \A u \in Threads \ {t} : wpc'[u] = wpc[u]
    BY <1>11, <2>1
  <2>4. Taking' = Taking /\ Reading' = Reading
    BY <1>1, <2>1, <2>2, <2>3, SameTaking, SameReading
  <2>5. QED
    BY <1>1, <1>4, <1>8, <2>1, <2>3, <2>4 DEF ReplayCounts
<1>13. CASE TakeLength(t)
  <2>1. /\ wpc[t] = "len" /\ wpc' = [wpc EXCEPT ![t] = "dir"]
        /\ req' = [req EXCEPT ![t].len = len_cnt + 1] /\ len_cnt + 1 \in Int
        /\ len_cnt' = len_cnt + 1
        /\ UNCHANGED <<iodir_cnt, i, IO_LatArray, ReadIO_LatArray,
                       DATA_WRITTEN, DATA_READ, IOCOUNT>>
    BY <1>7, <1>13 DEF TakeLength, Worker, lat_vars, counters
  <2>2. /\ req'[t].len = len_cnt + 1 /\ \A u \in Threads \ {t} : req'[u] = req[u]
        /\ \A u \in Threads : req'[u].dir = req[u].dir
    BY <1>5, <2>1, TakeLengthPart
  <2>3. wpc'[t] = "dir" /\ \A u \in Threads \ {t} : wpc'[u] = wpc[u]
    BY <1>11, <2>1
  <2>4. Reading' = Reading
    BY <1>1, <2>1, <2>2, <2>3, SameReading
  <2>5. Taking[t] = 0 /\ Taking'[t] = trace[len_cnt + 1].len
    BY <1>1, <2>1, <2>2, <2>3 DEF Taking, Length
  <2>6. SumFunction(Taking') = SumFunction(Taking) + (Taking'[t] - Taking[t])
    BY <1>1, <1>6, <2>2, <2>3, TakingChanges
  <2>7. Lengths(len_cnt + 1) = Lengths(len_cnt) + trace[len_cnt + 1].len
    BY <1>2, <1>7, <2>1, LinesMore
  <2>8. Taking'[t] \in Nat
    BY <1>6
  <2>9. DATA_WRITTEN + DATA_READ + SumFunction(Taking') = Lengths(len_cnt')
    BY <1>2, <1>9, <1>10, <2>1, <2>5, <2>6, <2>7, <2>8
  <2>10. Lengths(len_cnt)' = Lengths(len_cnt') /\ ReadLines(iodir_cnt)' = ReadLines(iodir_cnt)
    BY <1>1, <2>1 DEF Lengths, ReadLines
  <2>11. QED
    BY <1>1, <1>4, <2>1, <2>3, <2>4, <2>9, <2>10 DEF ReplayCounts
<1>14. CASE TakeDirection(t)
  <2>1. /\ wpc[t] = "dir" /\ wpc' = [wpc EXCEPT ![t] = "serve"]
        /\ req' = [req EXCEPT ![t].dir = iodir_cnt + 1] /\ iodir_cnt + 1 \in Int
        /\ iodir_cnt' = iodir_cnt + 1
        /\ UNCHANGED <<len_cnt, i, IO_LatArray, ReadIO_LatArray,
                       DATA_WRITTEN, DATA_READ, IOCOUNT>>
    BY <1>7, <1>14 DEF TakeDirection, Worker, lat_vars, counters
  <2>2. /\ req'[t].dir = iodir_cnt + 1 /\ \A u \in Threads \ {t} : req'[u] = req[u]
        /\ \A u \in Threads : req'[u].len = req[u].len
    BY <1>5, <2>1, TakeDirectionPart
  <2>3. wpc'[t] = "serve" /\ \A u \in Threads \ {t} : wpc'[u] = wpc[u]
    BY <1>11, <2>1
  <2>4. Taking' = Taking
    BY <1>1, <2>1, <2>2, <2>3, SameTaking
  <2>5. Reading[t] = 0 /\ Reading'[t] = IF trace[iodir_cnt + 1].dir = "R" THEN 1 ELSE 0
    BY <1>1, <2>1, <2>2, <2>3 DEF Reading, IsRead
  <2>6. SumFunction(Reading') = SumFunction(Reading) + (Reading'[t] - Reading[t])
    BY <1>1, <1>6, <2>2, <2>3, ReadingChanges
  <2>7. ReadLines(iodir_cnt + 1) =
          ReadLines(iodir_cnt) + (IF trace[iodir_cnt + 1].dir = "R" THEN 1 ELSE 0)
    BY <1>2, <1>7, <2>1, LinesMore
  <2>8. Reading'[t] \in Nat
    BY <1>6
  <2>9. program = "trace_st" =>
          SumFunction(ReadIO_LatArray) + SumFunction(Reading') = ReadLines(iodir_cnt')
    BY <1>9, <1>10, <2>1, <2>5, <2>6, <2>7, <2>8
  <2>10. Lengths(len_cnt)' = Lengths(len_cnt) /\ ReadLines(iodir_cnt)' = ReadLines(iodir_cnt')
    BY <1>1, <2>1 DEF Lengths, ReadLines
  <2>11. QED
    BY <1>1, <1>4, <2>1, <2>3, <2>4, <2>9, <2>10 DEF ReplayCounts
<1>15. CASE Serve_st(t) \/ Serve_md(t)
  <2>1. /\ wpc[t] = "serve" /\ wpc' = [wpc EXCEPT ![t] = "count"]
        /\ UNCHANGED <<len_cnt, iodir_cnt, req, i, IO_LatArray, IOCOUNT>>
        /\ Served(t, Length(t))
        /\ \/ program # "trace_st" /\ UNCHANGED ReadIO_LatArray
           \/ ReadIO_LatArray' = IF IsRead(t) THEN Recorded(ReadIO_LatArray, t)
                                 ELSE ReadIO_LatArray
    BY <1>15 DEF Serve_st, Serve_md, Worker, lat_vars, cursors, Served
  <2>2. wpc'[t] = "count" /\ \A u \in Threads \ {t} : wpc'[u] = wpc[u]
    BY <1>11, <2>1
  <2>3. /\ SumFunction(Taking') = SumFunction(Taking) + (Taking'[t] - Taking[t])
        /\ SumFunction(Reading') = SumFunction(Reading) + (Reading'[t] - Reading[t])
    BY <1>1, <1>6, <2>1, <2>2, TakingChanges, ReadingChanges
  <2>4. /\ Taking[t] = Length(t) /\ Taking'[t] = 0 /\ Length(t) \in Nat
        /\ Reading[t] = (IF IsRead(t) THEN 1 ELSE 0) /\ Reading'[t] = 0
    BY <1>6, <2>1, <2>2 DEF Taking, Reading
  <2>5. DATA_WRITTEN' + DATA_READ' = DATA_WRITTEN + DATA_READ + Length(t)
    BY <1>2, <2>1, <2>4 DEF Served
  <2>a. DATA_WRITTEN' \in Int /\ DATA_READ' \in Int
    BY <1>2, <2>1, <2>4 DEF Served
  <2>6. DATA_WRITTEN' + DATA_READ' + SumFunction(Taking') = Lengths(len_cnt)
    BY <1>2, <1>9, <1>10, <2>3, <2>4, <2>5, <2>a
  <2>7. /\ ReadIO_LatArray' \in [Threads -> Nat]
        /\ program = "trace_st" =>
             SumFunction(ReadIO_LatArray') + SumFunction(Reading') = ReadLines(iodir_cnt)
    <3>1. CASE IsRead(t) /\ ReadIO_LatArray' = Recorded(ReadIO_LatArray, t)
      <4>1. ReadIO_LatArray' = [ReadIO_LatArray EXCEPT ![t] = @ + 1]
        BY <3>1 DEF Recorded
      <4>2. ReadIO_LatArray \in [Threads -> Int]
        BY <1>4
      <4>3. SumFunction(ReadIO_LatArray') = SumFunction(ReadIO_LatArray) + 1
        BY <4>1, <4>2, SumGrows
      <4>4. ReadIO_LatArray' \in [Threads -> Nat]
        BY <1>4, <4>1
      <4>5. QED
        BY <1>9, <1>10, <2>3, <2>4, <3>1, <4>3, <4>4
    <3>2. CASE ~IsRead(t) /\ UNCHANGED ReadIO_LatArray
      BY <1>4, <1>9, <1>10, <2>3, <2>4, <3>2
    <3>3. CASE program # "trace_st" /\ UNCHANGED ReadIO_LatArray
      BY <1>4, <3>3
    <3>4. QED
      BY <2>1, <3>1, <3>2, <3>3
  <2>8. Lengths(len_cnt)' = Lengths(len_cnt) /\ ReadLines(iodir_cnt)' = ReadLines(iodir_cnt)
    BY <1>1, <2>1 DEF Lengths, ReadLines
  <2>9. QED
    BY <1>1, <1>4, <2>1, <2>2, <2>6, <2>7, <2>8 DEF ReplayCounts
<1>16. CASE CountIO(t)
  <2>1. /\ wpc[t] = "count" /\ wpc' = [wpc EXCEPT ![t] = "next"]
        /\ IOCOUNT' = IOCOUNT + 1 /\ i' = [i EXCEPT ![t] = @ + 1]
        /\ IO_LatArray' = [IO_LatArray EXCEPT ![t] = @ + 1]
        /\ UNCHANGED <<len_cnt, iodir_cnt, req, DATA_WRITTEN, DATA_READ, ReadIO_LatArray>>
    BY <1>16 DEF CountIO, Worker, Recorded, cursors
  <2>2. wpc'[t] = "next" /\ \A u \in Threads \ {t} : wpc'[u] = wpc[u]
    BY <1>11, <2>1
  <2>3. Taking' = Taking /\ Reading' = Reading
    BY <1>1, <2>1, <2>2, SameTaking, SameReading
  <2>4. IO_LatArray' = i' /\ IOCOUNT' = SumFunction(IO_LatArray')
    <3>1. i \in [Threads -> Int]
      BY <1>5
    <3>2. SumFunction(i') = SumFunction(i) + 1
      BY <2>1, <3>1, SumGrows
    <3>3. QED
      BY <1>5, <1>9, <2>1, <3>2
  <2>5. \A u \in Threads : wpc'[u] = "ended" => i'[u] = Count(trace)
    BY <1>4, <1>5, <2>1, <2>2
  <2>6. Lengths(len_cnt)' = Lengths(len_cnt) /\ ReadLines(iodir_cnt)' = ReadLines(iodir_cnt)
    BY <1>1, <2>1 DEF Lengths, ReadLines
  <2>7. QED
    BY <1>1, <1>4, <2>1, <2>3, <2>4, <2>5, <2>6 DEF ReplayCounts
<1>17. CASE EndWorker(t)
  <2>1. /\ wpc[t] = "next" /\ wpc' = [wpc EXCEPT ![t] = "ended"] /\ i[t] = Count(trace)
        /\ req' = [req EXCEPT ![t] = NoReq]
        /\ UNCHANGED <<len_cnt, iodir_cnt, i, IO_LatArray, ReadIO_LatArray,
                       DATA_WRITTEN, DATA_READ, IOCOUNT>>
    BY <1>17 DEF EndWorker, Worker, lat_vars, counters, cursors
  <2>2. \A u \in Threads \ {t} : req'[u] = req[u]
    BY <1>5, <2>1
  <2>3. wpc'[t] = "ended" /\ \A u \in Threads \ {t} : wpc'[u] = wpc[u]
    BY <1>11, <2>1
  <2>4. Taking' = Taking /\ Reading' = Reading
    BY <1>1, <2>1, <2>2, <2>3, SameTaking, SameReading
  <2>5. QED
    BY <1>1, <1>4, <1>8, <2>1, <2>3, <2>4 DEF ReplayCounts
<1>18. QED
  BY <1>12, <1>13, <1>14, <1>15, <1>16, <1>17 DEF worker_run

(* When all workers have ended, every line of their shares has been served *)
(* and counted.                                                            *)
LEMMA AllEnded ==
  ASSUME SampleInv, ReplaySums, program \in TracePrograms, mpc = "join", Joined(Threads)
  PROVE  AllCounted
<1> DEFINE n == Count(trace)
           All == Threads \X (0 .. n - 1)
<1>1. /\ ReplayState /\ Counted /\ ReplayCounts
      /\ \A t \in Threads : wpc[t] = "ended" /\ i[t] = n
  BY DEF SampleInv, CursorInv, ReplaySums, Replaying, Joined
<1>2. n \in Nat /\ i \in [Threads -> Nat] /\ NUM_THREADS \in Nat
  BY <1>1, ThreadsFinite DEF ReplayState
<1> HIDE DEF n
<1>3. ASSUME NEW B \in Parts PROVE Taken(B) = All
  <2>1. "ended" \notin B
    BY <1>3 DEF Parts, HasOffset, HasLength, HasDirection
  <2>2. Taken(B) = {p \in Threads \X Nat : p[2] < n}
    BY <1>1, <2>1 DEF Taken
  <2>3. ASSUME NEW p \in Threads \X Nat PROVE p[2] < n <=> p \in All
    BY <1>2
  <2>4. All \subseteq Threads \X Nat
    BY <1>2
  <2> HIDE DEF All
  <2>5. QED
    BY <2>2, <2>3, <2>4
<1>4. Cardinality(All) = NUM_THREADS * n
  <2>1. IsFiniteSet(0 .. n - 1) /\ Cardinality(0 .. n - 1) = n
    BY <1>2, NumbersBelow
  <2>2. QED
    BY <2>1, ThreadsFinite, FS_Product
<1> DEFINE lines == n * NUM_THREADS
<1>5. NUM_THREADS * n = lines
  BY <1>2
<1>6. len_cnt = lines /\ iodir_cnt = lines
  BY <1>1, <1>3, <1>4, <1>5 DEF Counted, Parts
<1>7. SumFunction(i) = lines
  <2>1. i \in [Threads -> Int] /\ \A t \in Threads : i[t] = n
    BY <1>1, <1>2
  <2>2. SumFunction(i) = Cardinality(Threads) * n
    BY <1>2, <2>1, ThreadsFinite, SumOfEqual
  <2>3. QED
    BY <1>5, <2>2, ThreadsFinite
<1>8. SumFunction(Taking) = 0 /\ SumFunction(Reading) = 0
  <2>1. Taking \in [Threads -> Int] /\ \A t \in Threads : Taking[t] = 0
    BY <1>1 DEF Taking
  <2>2. Reading \in [Threads -> Int] /\ \A t \in Threads : Reading[t] = 0
    BY <1>1 DEF Reading
  <2>3. QED
    BY <2>1, <2>2, ThreadsFinite, SumOfNone
<1>9. DATA_WRITTEN \in Nat /\ DATA_READ \in Nat /\ SumFunction(ReadIO_LatArray) \in Int
  <2>1. CollectInv
    BY DEF SampleInv, BenchPrograms, TracePrograms
  <2>2. ReadIO_LatArray \in [Threads -> Nat]
    BY DEF ReplaySums
  <2>3. QED
    BY <2>1, <2>2, ThreadsFinite, SumAtLeast DEF CollectInv, LoadsInv
<1>10. /\ DATA_WRITTEN + DATA_READ = Lengths(lines)
       /\ program = "trace_st" => SumFunction(ReadIO_LatArray) = ReadLines(lines)
  BY <1>1, <1>6, <1>8, <1>9 DEF ReplayCounts
<1>11. IOCOUNT = lines /\ SumFunction(IO_LatArray) = lines
  BY <1>1, <1>7 DEF ReplayCounts
<1> HIDE DEF lines
<1>12. Count(trace) * NUM_THREADS = lines
  BY DEF lines, n
<1>13. QED
  BY <1>10, <1>11, <1>12 DEF AllCounted, AllServed, merge

(* Steps that leave what the invariant speaks of alone.                    *)
LEMMA ReplaySumsStay ==
  ASSUME UNCHANGED <<program, trace, wpc, i, req, len_cnt, iodir_cnt, IO_LatArray,
                     ReadIO_LatArray, DATA_WRITTEN, DATA_READ, IOCOUNT, totals>>
  PROVE  /\ ReplayCounts' <=> ReplayCounts
         /\ AllCounted' <=> AllCounted
         /\ AllReported' <=> AllReported
<1>1. Taking' = Taking /\ Reading' = Reading
  BY SameTaking, SameReading
<1>2. \A n : UNCHANGED <<Lengths(n), ReadLines(n)>>
  BY DEF Lengths, ReadLines
<1>3. UNCHANGED Count(trace)
  OBVIOUS
<1>4. ReplayCounts' <=> ReplayCounts
  <2>1. Lengths(len_cnt)' = Lengths(len_cnt) /\ ReadLines(iodir_cnt)' = ReadLines(iodir_cnt)
    BY DEF Lengths, ReadLines
  <2>2. QED
    BY <1>1, <2>1 DEF ReplayCounts
<1>5. \A n, all, data, reads : AllServed(n, all, data, reads)' <=> AllServed(n, all, data, reads)
  BY DEF AllServed, Lengths, ReadLines
<1>6. AllCounted' <=> AllCounted
  BY <1>5 DEF AllCounted, merge
<1>7. AllReported' <=> AllReported
  BY <1>5 DEF AllReported
<1>8. QED
  BY <1>4, <1>6, <1>7

(* A new trace, or one more of its lines.                                  *)
LEMMA ReplaySumsRead ==
  ASSUME SampleInv, ReplaySums, program \in TracePrograms,
         mpc \in {"start", "read"}, mpc' \in {"read", "threads", "aborted"},
         UNCHANGED <<program, cursors, wpc, i, req, IO_LatArray, ReadIO_LatArray,
                     DATA_WRITTEN, DATA_READ, IOCOUNT, cpc, totals>>
  PROVE  ReplaySums'
<1>1. /\ Idle /\ Counted /\ ReplayCounts /\ ReadIO_LatArray \in [Threads -> Nat]
      /\ cpc = "none"
  BY DEF SampleInv, CursorInv, ReplaySums, Replaying, CollectInv, BenchPrograms, TracePrograms
<1>2. len_cnt = 0 /\ iodir_cnt = 0 /\ len_cnt' = 0 /\ iodir_cnt' = 0
  BY <1>1, TakenNothing DEF Counted, Parts, cursors
<1>3. Lengths(0)' = Lengths(0) /\ ReadLines(0)' = ReadLines(0)
  <2>1. 1 .. 0 = {}
    OBVIOUS
  <2>2. QED
    BY <2>1 DEF Lengths, ReadLines
<1>4. \A t \in Threads : wpc[t] = "none" /\ wpc'[t] = "none"
  BY <1>1 DEF Idle
<1>5. Taking' = Taking /\ Reading' = Reading
  BY <1>4 DEF Taking, Reading
<1>6. Lengths(len_cnt)' = Lengths(len_cnt) /\ ReadLines(iodir_cnt)' = ReadLines(iodir_cnt)
  BY <1>2, <1>3
<1>7. ReplayCounts'
  BY <1>1, <1>5, <1>6 DEF ReplayCounts
<1>8. QED
  BY <1>1, <1>4, <1>7 DEF ReplaySums, Replaying

(* main's steps.                                                           *)
LEMMA ReplaySumsMain ==
  ASSUME SampleInv, FlagInv, ReplaySums, program \in TracePrograms, ReplayMain
  PROVE  ReplaySums'
<1>1. /\ ReadIO_LatArray \in [Threads -> Nat] /\ UNCHANGED program
      /\ cpc # "none" => mpc \in {"join", "joincollector"}
      /\ \A t \in Threads : wpc[t] = "ended" => i[t] = Count(trace)
      /\ ReplayState /\ (mpc \notin Replaying => Idle)
      /\ mpc \in {"start", "read"} \cup Replaying => ReplayCounts /\ Counted
  BY ReplayMainStep
     DEF ReplaySums, SampleInv, CollectInv, BenchPrograms, TracePrograms, CursorInv
<1>2. ASSUME UNCHANGED <<trace, wpc, i, req, len_cnt, iodir_cnt, IO_LatArray,
                         ReadIO_LatArray, DATA_WRITTEN, DATA_READ, IOCOUNT, totals>>,
             UNCHANGED cpc \/ cpc' \in {"none", "firstw"},
             mpc' \in {"start", "read"} \cup Replaying => mpc \in {"start", "read"} \cup Replaying,
             mpc' = "joincollector" => mpc = "joincollector",
             mpc' = "print" \/ cpc' = "ended" => mpc = "print" \/ cpc = "ended"
      PROVE  ReplaySums'
  <2>1. UNCHANGED <<program, trace, wpc, i, req, len_cnt, iodir_cnt, IO_LatArray,
                    ReadIO_LatArray, DATA_WRITTEN, DATA_READ, IOCOUNT, totals>>
    BY <1>1, <1>2
  <2>2. /\ ReplayCounts' <=> ReplayCounts
        /\ AllCounted' <=> AllCounted
        /\ AllReported' <=> AllReported
    BY <2>1, ReplaySumsStay
  <2>3. /\ mpc' \in {"start", "read"} \cup Replaying => ReplayCounts'
        /\ mpc' = "joincollector" => AllCounted'
        /\ mpc' = "print" \/ cpc' = "ended" => AllReported'
    BY <1>2, <2>2 DEF ReplaySums
  <2>4. \A t \in Threads : wpc'[t] = "ended" => i'[t] = Count(trace)'
    BY <1>1, <2>1
  <2>5. ReadIO_LatArray' \in [Threads -> Nat]
    BY <1>1, <2>1
  <2>6. QED
    BY <2>3, <2>4, <2>5 DEF ReplaySums
<1> USE DEF Main
<1>3. CASE NewTrace \/ ReadLine
  <2>1. /\ mpc \in {"start", "read"} /\ mpc' = "read"
        /\ UNCHANGED <<cursors, wpc, i, req, IO_LatArray, ReadIO_LatArray,
                       DATA_WRITTEN, DATA_READ, IOCOUNT, cpc, totals>>
    BY <1>3 DEF NewTrace, ReadLine, lat_vars, collector_vars, counters, item
  <2>2. QED
    BY <1>1, <2>1, ReplaySumsRead
<1>4. CASE EndOfFile_st \/ EndOfFile_md
  <2>1. /\ mpc = "read" /\ mpc' \in {"threads", "aborted"}
        /\ UNCHANGED <<cursors, wpc, i, req, IO_LatArray, ReadIO_LatArray,
                       DATA_WRITTEN, DATA_READ, IOCOUNT, cpc, totals>>
    BY <1>4 DEF EndOfFile_st, EndOfFile_md, EndOfFile, lat_vars, collector_vars,
                counters, item, trace_vars
  <2>2. QED
    BY <1>1, <2>1, ReplaySumsRead
<1>5. CASE NoMoreTraces
  <2>1. /\ mpc = "start" /\ mpc' = "done"
        /\ UNCHANGED <<trace, wpc, i, req, len_cnt, iodir_cnt, IO_LatArray, ReadIO_LatArray,
                       DATA_WRITTEN, DATA_READ, IOCOUNT, cpc, totals>>
    BY <1>5 DEF NoMoreTraces, lat_vars, collector_vars, counters, item, trace_vars, cursors
  <2>2. QED
    BY <1>1, <1>2, <2>1 DEF Replaying
<1>6. CASE StartWorker
  <2>1. PICK t \in Threads : wpc[t] = "none" /\ wpc' = [wpc EXCEPT ![t] = "next"]
    BY <1>6 DEF StartWorker, Worker
  <2>2. /\ mpc = "threads" /\ mpc' \in {"threads", "collect"}
        /\ UNCHANGED <<trace, i, req, len_cnt, iodir_cnt, IO_LatArray, ReadIO_LatArray,
                       DATA_WRITTEN, DATA_READ, IOCOUNT, cpc, totals>>
    BY <1>6 DEF StartWorker, lat_vars, collector_vars, counters, item, trace_vars, cursors
  <2>3. wpc'[t] = "next" /\ \A u \in Threads \ {t} : wpc'[u] = wpc[u]
    BY <1>1, <2>1 DEF ReplayState
  <2>4. Taking' = Taking /\ Reading' = Reading
    BY <2>1, <2>2, <2>3, SameTaking, SameReading
  <2>5. Lengths(len_cnt)' = Lengths(len_cnt) /\ ReadLines(iodir_cnt)' = ReadLines(iodir_cnt)
    BY <2>2 DEF Lengths, ReadLines
  <2>6. ReplayCounts'
    BY <1>1, <2>2, <2>4, <2>5 DEF ReplayCounts, Replaying
  <2>7. cpc = "none"
    BY <1>1, <2>2
  <2>8. QED
    BY <1>1, <2>1, <2>2, <2>3, <2>6, <2>7 DEF ReplaySums
<1>7. CASE StartCollector /\ UNCHANGED trace_vars
  <2>1. /\ mpc = "collect" /\ mpc' = "join" /\ cpc' = "firstw"
        /\ UNCHANGED <<trace, wpc, i, req, len_cnt, iodir_cnt, IO_LatArray, ReadIO_LatArray,
                       DATA_WRITTEN, DATA_READ, IOCOUNT, totals>>
    BY <1>7 DEF StartCollector, lat_vars, counters, item, trace_vars, cursors
  <2>2. QED
    BY <1>2, <2>1 DEF Replaying
<1>8. CASE JoinWorkers /\ UNCHANGED trace_vars
  <2>1. /\ mpc = "join" /\ mpc' = "joincollector" /\ Joined(Threads)
        /\ wpc' = [t \in Threads |-> "none"]
        /\ UNCHANGED <<trace, IO_LatArray, ReadIO_LatArray, DATA_WRITTEN, DATA_READ,
                       IOCOUNT, cpc, totals>>
    BY <1>8 DEF JoinWorkers, lat_vars, counters, item, trace_vars
  <2>2. AllCounted
    BY <2>1, AllEnded
  <2>3. AllCounted'
    BY <1>1, <2>1, <2>2 DEF AllCounted, AllServed, Lengths, ReadLines, merge
  <2>4. cpc # "ended"
    BY <2>1 DEF FlagInv
  <2>5. QED
    BY <1>1, <2>1, <2>3, <2>4 DEF ReplaySums, Replaying
<1>9. CASE JoinCollector /\ UNCHANGED trace_vars
  <2>1. /\ mpc = "joincollector" /\ mpc' = "print" /\ cpc = "ended" /\ cpc' = "none"
        /\ UNCHANGED <<trace, wpc, i, req, len_cnt, iodir_cnt, IO_LatArray, ReadIO_LatArray,
                       DATA_WRITTEN, DATA_READ, IOCOUNT, totals>>
    BY <1>9 DEF JoinCollector, lat_vars, counters, item, trace_vars, cursors
  <2>2. QED
    BY <1>2, <2>1 DEF Replaying
<1>10. CASE Print_st \/ Print_md
  <2>1. CASE mpc = "print" /\ mpc' = "start" /\ ResetReplay
    <3>1. /\ UNCHANGED <<trace, wpc, i, req, cpc>> /\ len_cnt' = 0 /\ iodir_cnt' = 0
          /\ IO_LatArray' = NoLatency /\ ReadIO_LatArray' = NoLatency
          /\ DATA_WRITTEN' = 0 /\ DATA_READ' = 0 /\ IOCOUNT' = 0
      BY <2>1 DEF ResetReplay, ResetCounters, ClearLats
    <3>2. Idle /\ i \in [Threads -> Nat] /\ cpc = "none"
      BY <1>1, <2>1 DEF Replaying, ReplayState
    <3>3. i = NoLatency /\ \A t \in Threads : wpc[t] = "none"
      BY <3>2 DEF Idle, NoLatency
    <3>4. Taking' = NoLatency /\ Reading' = NoLatency
      BY <3>1, <3>3 DEF Taking, Reading, NoLatency
    <3>5. Lengths(len_cnt)' = Lengths(0) /\ ReadLines(iodir_cnt)' = ReadLines(0)
      <4>1. 1 .. 0 = {}
        OBVIOUS
      <4>2. QED
        BY <3>1, <4>1 DEF Lengths, ReadLines
    <3>6. ReplayCounts'
      BY <3>1, <3>3, <3>4, <3>5, NoSum DEF ReplayCounts
    <3>7. QED
      BY <1>1, <2>1, <3>1, <3>2, <3>3, <3>6, NoSum DEF ReplaySums
  <2>2. CASE mpc = "print" /\ mpc' = "aborted"
             /\ UNCHANGED <<wpc, i, lat_vars, collector_vars, trace_vars>>
    <3>1. UNCHANGED <<trace, wpc, i, req, len_cnt, iodir_cnt, IO_LatArray, ReadIO_LatArray,
                      DATA_WRITTEN, DATA_READ, IOCOUNT, cpc, totals>>
      BY <2>2 DEF lat_vars, collector_vars, counters, item, trace_vars, cursors
    <3>2. QED
      BY <1>1, <1>2, <2>2, <3>1 DEF Replaying
  <2>3. QED
    BY <1>10, <2>1, <2>2 DEF Print_st, Print_md, PrintCDF
<1>11. QED
  BY <1>3, <1>4, <1>5, <1>6, <1>7, <1>8, <1>9, <1>10 DEF ReplayMain, CollectorMain

(* The collector's steps: the totals are the sums when it takes them.      *)
LEMMA CollectorLeaves ==
  ASSUME CollectorStep
  PROVE  /\ UNCHANGED <<shared_vars, counters, Collector_endflag>>
         /\ \/ UNCHANGED totals /\ cpc' # "ended"
            \/ /\ cpc = "totals" /\ cpc' = "ended"
               /\ totals'.w = DATA_WRITTEN /\ totals'.r = DATA_READ
               /\ totals'.n = IOCOUNT /\ totals'.all = merge(IO_LatArray)
               /\ program # "trace_md" => totals'.read = merge(ReadIO_LatArray)
<1>1. \/ collector_run(Fields(program), TRUE)
      \/ program = "trace_md" /\ collector_run(Fields(program), FALSE)
  BY DEF CollectorStep, collector_run_st, collector_run_md, collector_run_load
<1>2. UNCHANGED <<shared_vars, counters, Collector_endflag>>
  BY <1>1 DEF collector_run
<1>3. CASE LoadFirst \/ CheckFlag \/ LoadCounter \/ Sample(Fields(program))
  BY <1>2, <1>3 DEF LoadFirst, CheckFlag, LoadCounter, Sample, Load, item
<1>4. CASE Totals(TRUE)
  BY <1>2, <1>4 DEF Totals
<1>5. CASE program = "trace_md" /\ Totals(FALSE)
  BY <1>2, <1>5 DEF Totals
<1>6. QED
  BY <1>1, <1>3, <1>4, <1>5 DEF collector_run

(* The flag is raised when the workers have been joined, and lowered when  *)
(* the totals have been printed.                                           *)
LEMMA FlagMain ==
  ASSUME CollectInv, FlagInv, ReplayMain \/ LoadMain
  PROVE  FlagInv'
<1>1. cpc # "none" => mpc \in {"join", "joincollector"}
  BY DEF CollectInv
<1> USE DEF Main
<1>2. CASE NewTrace \/ ReadLine \/ EndOfFile_st \/ EndOfFile_md \/ NoMoreTraces
           \/ StartWorker \/ StartLoad
  <2>1. /\ UNCHANGED <<cpc, Collector_endflag>>
        /\ mpc \in {"start", "read", "threads"}
    BY <1>2 DEF NewTrace, ReadLine, EndOfFile_st, EndOfFile_md, EndOfFile, NoMoreTraces,
                StartWorker, StartLoad, collector_vars
  <2>2. QED
    BY <1>1, <2>1 DEF FlagInv
<1>3. CASE StartCollector
  BY <1>3 DEF StartCollector, FlagInv
<1>4. CASE JoinWorkers
  BY <1>1, <1>4 DEF JoinWorkers, FlagInv
<1>5. CASE JoinCollector
  BY <1>5 DEF JoinCollector, FlagInv
<1>6. CASE mpc = "print" /\ UNCHANGED cpc
           /\ \/ mpc' = "aborted"
              \/ Collector_endflag' = FALSE
  BY <1>1, <1>6 DEF FlagInv
<1>7. CASE Print_st \/ Print_md \/ PrintNothing \/ PrintLoad
  <2>1. /\ mpc = "print" /\ UNCHANGED cpc
        /\ mpc' = "aborted" \/ Collector_endflag' = FALSE
    BY <1>7 DEF Print_st, Print_md, PrintCDF, ResetReplay, PrintNothing, PrintLoad,
                collector_vars
  <2>2. QED
    BY <1>6, <2>1
<1>8. QED
  BY <1>2, <1>3, <1>4, <1>5, <1>7 DEF ReplayMain, LoadMain, CollectorMain

LEMMA FlagCollector ==
  ASSUME CollectInv, FlagInv, CollectorStep
  PROVE  FlagInv'
<1>1. /\ UNCHANGED <<mpc, Collector_endflag>>
      /\ LoadFirst \/ CheckFlag \/ LoadCounter \/ Sample(Fields(program))
         \/ Totals(TRUE) \/ Totals(FALSE)
  BY DEF CollectorStep, collector_run_st, collector_run_md, collector_run_load,
         collector_run, shared_vars
<1>2. cpc # "none"
  BY <1>1 DEF LoadFirst, CheckFlag, LoadCounter, Sample, Totals, Load
<1>3. mpc \in {"join", "joincollector"}
  BY <1>2 DEF CollectInv
<1>4. cpc' \in {"totals", "ended"} => Collector_endflag \/ cpc = "totals"
  BY <1>1 DEF LoadFirst, CheckFlag, LoadCounter, Sample, Totals, Load
<1>5. QED
  BY <1>1, <1>3, <1>4 DEF FlagInv

LEMMA FlagStep ==
  ASSUME SampleInv, FlagInv, program \notin BenchPrograms, program \in TARGET, [Next]_vars
  PROVE  FlagInv'
<1>1. CollectInv /\ (program \in TracePrograms \/ program = "load")
  BY DEF SampleInv, TARGET, BenchPrograms, TracePrograms
<1>2. CASE ReplayMain \/ LoadMain
  BY <1>1, <1>2, FlagMain
<1>3. CASE CollectorStep
  BY <1>1, <1>3, FlagCollector
<1>4. CASE UNCHANGED <<mpc, cpc, Collector_endflag>>
  BY <1>4 DEF FlagInv
<1>5. ASSUME NEW t \in Threads, worker_run(t) \/ self_thread_worker(t) PROVE FlagInv'
  BY <1>4, <1>5 DEF worker_run, self_thread_worker, program_vars
<1>6. CASE UNCHANGED vars
  BY <1>4, <1>6 DEF vars, shared_vars, collector_vars
<1>7. ASSUME NEW t \in Threads, worker_fails(t) PROVE FlagInv'
  BY <1>7, FailureEnds DEF Failing, FlagInv
<1>8. QED
  BY <1>1, <1>2, <1>3, <1>5, <1>6, <1>7, ReplayKinds, LoadSteps
     DEF ReplayCollector, LoadCollector

LEMMA ReplaySumsCollector ==
  ASSUME SampleInv, FlagInv, ReplaySums, program \in TracePrograms, ReplayCollector
  PROVE  ReplaySums'
<1>1. CollectorStep /\ UNCHANGED trace_vars
  BY DEF ReplayCollector
<1>2. /\ UNCHANGED <<shared_vars, counters>>
      /\ \/ UNCHANGED totals /\ cpc' # "ended"
         \/ /\ cpc = "totals" /\ cpc' = "ended"
            /\ totals'.w = DATA_WRITTEN /\ totals'.r = DATA_READ
            /\ totals'.n = IOCOUNT /\ totals'.all = merge(IO_LatArray)
            /\ program # "trace_md" => totals'.read = merge(ReadIO_LatArray)
  BY <1>1, CollectorLeaves
<1>3. UNCHANGED <<program, mpc, trace, wpc, i, req, len_cnt, iodir_cnt, IO_LatArray,
                  ReadIO_LatArray, DATA_WRITTEN, DATA_READ, IOCOUNT>>
  BY <1>1, <1>2 DEF shared_vars, counters, trace_vars, cursors
<1>4. /\ ReadIO_LatArray \in [Threads -> Nat]
      /\ \A t \in Threads : wpc[t] = "ended" => i[t] = Count(trace)
      /\ mpc \in {"start", "read"} \cup Replaying => ReplayCounts
      /\ mpc = "joincollector" => AllCounted
      /\ mpc = "print" \/ cpc = "ended" => AllReported
  BY DEF ReplaySums
<1>5. CASE UNCHANGED totals /\ cpc' # "ended"
  <2>1. /\ ReplayCounts' <=> ReplayCounts
        /\ AllCounted' <=> AllCounted
        /\ AllReported' <=> AllReported
    BY <1>3, <1>5, ReplaySumsStay
  <2>2. QED
    BY <1>3, <1>4, <1>5, <2>1 DEF ReplaySums
<1>6. CASE /\ cpc = "totals" /\ cpc' = "ended"
           /\ totals'.w = DATA_WRITTEN /\ totals'.r = DATA_READ
           /\ totals'.n = IOCOUNT /\ totals'.all = merge(IO_LatArray)
           /\ program # "trace_md" => totals'.read = merge(ReadIO_LatArray)
  <2>1. mpc = "joincollector" /\ AllCounted
    BY <1>4, <1>6 DEF FlagInv
  <2>2. program = "trace_st" => totals'.read = merge(ReadIO_LatArray)
    BY <1>6
  <2>3. AllReported'
    BY <1>3, <1>6, <2>1, <2>2 DEF AllCounted, AllReported, AllServed, Lengths, ReadLines
  <2>4. AllCounted'
    BY <1>3, <2>1 DEF AllCounted, AllServed, Lengths, ReadLines, merge
  <2>5. QED
    BY <1>3, <1>4, <2>1, <2>3, <2>4 DEF ReplaySums, Replaying
<1>7. QED
  BY <1>2, <1>5, <1>6

LEMMA ReplaySumsStep ==
  ASSUME SampleInv, FlagInv, ReplaySums, program \in TracePrograms, [Next]_vars
  PROVE  ReplaySums'
<1>1. CASE UNCHANGED vars
  <2>1. UNCHANGED <<program, mpc, cpc, trace, wpc, i, req, len_cnt, iodir_cnt, IO_LatArray,
                    ReadIO_LatArray, DATA_WRITTEN, DATA_READ, IOCOUNT, totals>>
    BY <1>1 DEF vars, shared_vars, collector_vars, counters, item, trace_vars, cursors
  <2>2. /\ ReplayCounts' <=> ReplayCounts
        /\ AllCounted' <=> AllCounted
        /\ AllReported' <=> AllReported
    BY <2>1, ReplaySumsStay
  <2>3. QED
    BY <2>1, <2>2 DEF ReplaySums
<1>2. ASSUME NEW t \in Threads, worker_fails(t) PROVE ReplaySums'
  BY <1>2, FailureEnds DEF Failing, ReplaySums, Replaying
<1>3. QED
  BY <1>1, <1>2, ReplayKinds, ReplaySumsMain, ReplaySumsRun, ReplaySumsCollector

-----------------------------------------------------------------------------
(* The sums of load and bench.                                             *)

LEMMA StepsApart ==
  ASSUME NEW t, UNCHANGED info, wpc'[t] = wpc[t], loop'[t] = loop[t], i'[t] = i[t]
  PROVE  Steps(t)' = Steps(t) /\ Issued(t)' = Issued(t)
  BY DEF Steps, Issued

LEMMA Products ==
  /\ \A m, n \in Nat : m * n \in Nat /\ (m + 1) * n = m * n + n
  /\ \A n \in Int : 0 * n = 0 /\ n * 0 = 0 /\ n * 1 = n
  OBVIOUS

(* A loop begins and ends without a request.                               *)
LEMMA LoopSteps ==
  ASSUME NEW t \in Threads, NEW all, info[t].count \in Nat, DOMAIN wpc = Threads,
         loop \in [Threads -> Nat], i \in [Threads -> Nat],
         StartLoop(t, all) \/ ResetOffset(t) \/ EndLoop(t) \/ EndThread(t)
  PROVE  /\ Steps(t)' = Steps(t) /\ Issued(t)' = Issued(t) /\ UNCHANGED info
         /\ loop' \in [Threads -> Nat]
         /\ wpc'[t] = "ended" => loop'[t] = LOOP
         /\ \A u \in Threads \ {t} :
              wpc'[u] = wpc[u] /\ loop'[u] = loop[u] /\ i'[u] = i[u]
<1> USE DEF Worker
<1>1. CASE StartLoop(t, all)
  <2>1. PICK m \in {"reset", "io"} : wpc' = [wpc EXCEPT ![t] = m]
    BY <1>1 DEF StartLoop
  <2>2. /\ wpc[t] = "loop" /\ i' = [i EXCEPT ![t] = 0] /\ UNCHANGED <<loop, info>>
    BY <1>1 DEF StartLoop, worker_vars
  <2>3. wpc'[t] \in {"reset", "io"} /\ i'[t] = 0
    BY <2>1, <2>2
  <2>4. Steps(t)' = Steps(t) /\ Issued(t)' = Issued(t)
    BY <2>2, <2>3 DEF Steps, Issued
  <2>5. QED
    BY <2>1, <2>2, <2>3, <2>4
<1>2. CASE ResetOffset(t)
  <2>1. /\ wpc[t] = "reset" /\ wpc' = [wpc EXCEPT ![t] = "io"]
        /\ UNCHANGED <<i, loop, info>>
    BY <1>2 DEF ResetOffset
  <2>2. wpc'[t] = "io"
    BY <2>1
  <2>3. Steps(t)' = Steps(t) /\ Issued(t)' = Issued(t)
    BY <2>1, <2>2 DEF Steps, Issued
  <2>4. QED
    BY <2>1, <2>2, <2>3
<1>3. CASE EndLoop(t)
  <2>1. /\ wpc[t] = "io" /\ wpc' = [wpc EXCEPT ![t] = "loop"] /\ i[t] = info[t].count
        /\ loop' = [loop EXCEPT ![t] = @ + 1] /\ UNCHANGED <<i, info>>
    BY <1>3 DEF EndLoop
  <2>2. wpc'[t] = "loop" /\ loop'[t] = loop[t] + 1 /\ loop[t] \in Nat
    BY <2>1
  <2>3. (loop[t] + 1) * info[t].count = loop[t] * info[t].count + info[t].count
    BY <2>2, Products
  <2>4. loop[t] * info[t].count \in Nat
    BY <2>2, Products
  <2>5. Steps(t)' = Steps(t) /\ Issued(t)' = Issued(t)
    BY <2>1, <2>2, <2>3, <2>4 DEF Steps, Issued
  <2>6. QED
    BY <2>1, <2>2, <2>5
<1>4. CASE EndThread(t)
  <2>1. /\ wpc[t] = "loop" /\ wpc' = [wpc EXCEPT ![t] = "ended"] /\ loop[t] = LOOP
        /\ UNCHANGED <<i, loop, info>>
    BY <1>4 DEF EndThread, worker_vars
  <2>2. wpc'[t] = "ended"
    BY <2>1
  <2>3. Steps(t)' = Steps(t) /\ Issued(t)' = Issued(t)
    BY <2>1, <2>2 DEF Steps, Issued
  <2>4. QED
    BY <2>1, <2>2, <2>3
<1>5. QED
  BY <1>1, <1>2, <1>3, <1>4

LEMMA LoadThreads ==
  ASSUME build \in Builds
  PROVE  /\ Writers \subseteq Threads /\ Readers \subseteq Threads
         /\ Writers \cap Readers = {} /\ Writers \cup Readers = Threads
         /\ WRITE_IOSIZE \in Nat /\ READ_IOSIZE \in Nat
         /\ \A t \in Threads : LoadInfos[t].count \in Nat
<1>1. Writers \subseteq Threads
  BY LoadWriters
<1>2. WRITE_IOSIZE \in Nat \ {0} /\ READ_IOSIZE \in Nat \ {0} /\ USER_IO_SPACE \in Nat
      /\ WRITE_ALL \in 0 .. USER_IO_SPACE /\ READ_ALL \in 0 .. USER_IO_SPACE
  BY WorkloadAssumption DEF WRITE_ALL, READ_ALL
<1>3. WRITE_ALL \in Nat /\ READ_ALL \in Nat
  BY <1>2
<1>4. WRITE_ALL \div WRITE_IOSIZE \in Nat /\ READ_ALL \div READ_IOSIZE \in Nat
  BY <1>2, <1>3, DivMod
<1>5. ASSUME NEW t \in Threads PROVE LoadInfos[t].count \in Nat
  <2>1. Sharers(t) \in Nat \ {0}
    BY LoadShares
  <2>2. \A m \in Nat : m \div Sharers(t) \in Nat
    BY <2>1, DivMod
  <2>3. QED
    BY <1>4, <2>2, LoadInfosAre
<1>6. QED
  BY <1>1, <1>2, <1>5 DEF Readers

(* What the threads of load have counted and issued.                       *)
LEMMA LoadArrays ==
  ASSUME build \in Builds, info = LoadInfos, loop \in [Threads -> Nat],
         i \in [Threads -> Nat]
  PROVE  /\ AllSteps \in [Threads -> Nat]
         /\ ByWriters \in [Threads -> Nat] /\ ByReaders \in [Threads -> Nat]
<1>1. ASSUME NEW t \in Threads PROVE Steps(t) \in Nat /\ Issued(t) \in Nat
  <2>1. info[t].count \in Nat /\ loop[t] \in Nat /\ i[t] \in Nat
    BY LoadThreads
  <2>2. loop[t] * info[t].count \in Nat
    BY <2>1, Products
  <2>3. QED
    BY <2>1, <2>2 DEF Steps, Issued
<1>2. QED
  BY <1>1 DEF AllSteps, ByWriters, ByReaders

LEMMA SumGrowsBy ==
  ASSUME NEW f \in [Threads -> Nat], NEW t \in Threads, NEW n \in {0, 1}, NEW h,
         h = [f EXCEPT ![t] = @ + n]
  PROVE  SumFunction(f) \in Int /\ SumFunction(h) = SumFunction(f) + n
<1>1. f \in [Threads -> Int] /\ SumFunction(f) \in Int
  BY ThreadsFinite, SumAtLeast
<1>2. CASE n = 0
  <2>1. h = f
    BY <1>2
  <2>2. SumFunction(h) = SumFunction(f)
    BY <2>1
  <2>3. QED
    BY <1>1, <1>2, <2>2
<1>3. CASE n = 1
  <2>1. \A g : g = [f EXCEPT ![t] = @ + 1] => SumFunction(g) = SumFunction(f) + 1
    BY <1>1, SumGrows
  <2>2. QED
    BY <1>1, <1>3, <2>1
<1>4. QED
  BY <1>2, <1>3

LEMMA LoadSumsRun ==
  ASSUME LoadPlaces, LoadCounts, FlagInv, LoadSums, program = "load",
         NEW t \in Threads, self_thread_worker(t)
  PROVE  LoadSums'
<1>1. UNCHANGED <<program, mpc, LOOP, build, is_degr_read, cpc, totals, info>>
  BY DEF self_thread_worker, program_vars, load_own, item, Write, Read, LoadRequest,
         SkipRead, CountRequest, StartLoop, ResetOffset, EndLoop, EndThread, worker_vars
<1>2. wpc[t] # "none" /\ wpc \in [Threads -> WorkerPlaces] /\ build \in Builds
      /\ i \in [Threads -> Nat] /\ iosize = [u \in Threads |-> Size(u)]
  BY DEF LoadCounts, LoadPlaces, self_thread_worker, Write, Read, LoadRequest, SkipRead,
         CountRequest, StartLoop, ResetOffset, EndLoop, EndThread, Worker
<1>3. mpc \in {"collect", "join"} /\ LoadCounters /\ info = LoadInfos
      /\ LOOP \in Nat \ {0} /\ loop \in [Threads -> Nat] /\ cpc # "ended"
      /\ \A u \in Threads : wpc[u] = "ended" => loop[u] = LOOP
  BY <1>2 DEF LoadSums, FlagInv
<1>4. info[t].count \in Nat /\ WRITE_IOSIZE \in Nat /\ READ_IOSIZE \in Nat
  BY <1>2, <1>3, LoadThreads
<1>5. UNCHANGED <<Writers, Readers, LoadInfos>>
  BY <1>1, LoadConstants, LoadSettings
<1>6. /\ AllSteps \in [Threads -> Nat]
      /\ ByWriters \in [Threads -> Nat] /\ ByReaders \in [Threads -> Nat]
  BY <1>2, <1>3, LoadArrays
<1>7. ASSUME NEW a \in {0, 1}, NEW w \in {0, 1}, NEW r \in {0, 1},
             Steps(t)' = Steps(t) + a,
             t \in Writers => Issued(t)' = Issued(t) + w /\ r = 0,
             t \notin Writers => w = 0,
             t \in Readers /\ ~is_degr_read[t] => Issued(t)' = Issued(t) + r,
             t \in Readers /\ is_degr_read[t] => r = 0,
             \A u \in Threads \ {t} : Steps(u)' = Steps(u) /\ Issued(u)' = Issued(u),
             IOCOUNT' = IOCOUNT + a,
             IO_LatArray' = [IO_LatArray EXCEPT ![t] = @ + (w + r)],
             ReadIO_LatArray' = [ReadIO_LatArray EXCEPT ![t] = @ + r],
             DATA_WRITTEN' = DATA_WRITTEN + WRITE_IOSIZE * w,
             DATA_READ' = DATA_READ + READ_IOSIZE * r
      PROVE  LoadCounters'
  <2>1. AllSteps' = [AllSteps EXCEPT ![t] = @ + a]
    BY <1>7 DEF AllSteps
  <2>2. ByWriters' = [ByWriters EXCEPT ![t] = @ + w]
    <3>1. ASSUME NEW u \in Threads
          PROVE  (IF u \in Writers THEN Issued(u) ELSE 0)'
                   = (IF u \in Writers THEN Issued(u) ELSE 0) + (IF u = t THEN w ELSE 0)
      <4>1. u \in Writers => Issued(u) \in Nat
        BY <1>6 DEF ByWriters
      <4>2. QED
        BY <1>5, <1>7, <4>1
    <3>2. /\ ByWriters' = [u \in Threads |-> ByWriters'[u]]
          /\ \A u \in Threads : ByWriters'[u] = ByWriters[u] + (IF u = t THEN w ELSE 0)
      BY <3>1 DEF ByWriters
    <3>3. QED
      BY <1>6, <3>2
  <2>3. ByReaders' = [ByReaders EXCEPT ![t] = @ + r]
    <3> DEFINE Of(u) == IF u \in Readers /\ ~is_degr_read[u] THEN Issued(u) ELSE 0
    <3>1. ASSUME NEW u \in Threads
          PROVE  Of(u)' = Of(u) + (IF u = t THEN r ELSE 0)
      <4>1. u \in Readers /\ ~is_degr_read[u] => Issued(u) \in Nat
        BY <1>6 DEF ByReaders
      <4>2. t \in Writers \/ t \in Readers
        BY <1>2, LoadThreads
      <4>3. QED
        BY <1>1, <1>5, <1>7, <4>1, <4>2
    <3>2. /\ ByReaders' = [u \in Threads |-> ByReaders'[u]]
          /\ \A u \in Threads : ByReaders'[u] = ByReaders[u] + (IF u = t THEN r ELSE 0)
      BY <3>1 DEF ByReaders
    <3>3. QED
      BY <1>6, <3>2
  <2>4. SumFunction(AllSteps') = SumFunction(AllSteps) + a
    BY <1>6, <2>1, SumGrowsBy
  <2>5. SumFunction(ByWriters') = SumFunction(ByWriters) + w /\ SumFunction(ByWriters) \in Int
    BY <1>6, <2>2, SumGrowsBy
  <2>6. SumFunction(ByReaders') = SumFunction(ByReaders) + r /\ SumFunction(ByReaders) \in Int
    BY <1>6, <2>3, SumGrowsBy
  <2>7. \A s \in Int : \A n \in Nat : \A k \in {0, 1} : n * (s + k) = n * s + n * k
    OBVIOUS
  <2>8. DATA_WRITTEN' = WRITE_IOSIZE * SumFunction(ByWriters')
    BY <1>3, <1>4, <1>7, <2>5, <2>7 DEF LoadCounters
  <2>9. DATA_READ' = READ_IOSIZE * SumFunction(ByReaders')
    BY <1>3, <1>4, <1>7, <2>6, <2>7 DEF LoadCounters
  <2>10. ReadIO_LatArray' = ByReaders'
    BY <1>3, <1>7, <2>3 DEF LoadCounters
  <2>11. IO_LatArray' = [u \in Threads |-> ByWriters'[u] + ByReaders'[u]]
    BY <1>3, <1>6, <1>7, <2>2, <2>3 DEF LoadCounters
  <2>12. QED
    BY <1>3, <1>7, <2>4, <2>8, <2>9, <2>10, <2>11 DEF LoadCounters
<1>8. ASSUME LoadCounters', loop' \in [Threads -> Nat],
             \A u \in Threads : wpc'[u] = "ended" => loop'[u] = LOOP
      PROVE  LoadSums'
  BY <1>1, <1>3, <1>5, <1>8 DEF LoadSums
<1>9. ASSUME UNCHANGED <<i, loop>>, NEW m, wpc' = [wpc EXCEPT ![t] = m], m # "ended"
      PROVE  /\ \A u \in Threads \ {t} : Steps(u)' = Steps(u) /\ Issued(u)' = Issued(u)
             /\ wpc'[t] = m
             /\ \A u \in Threads : wpc'[u] = "ended" => loop'[u] = LOOP
  <2>1. wpc'[t] = m /\ \A u \in Threads \ {t} : wpc'[u] = wpc[u]
    BY <1>2, <1>9
  <2>2. QED
    BY <1>1, <1>3, <1>9, <2>1, StepsApart
<1>10. 0 \in {0, 1} /\ 1 \in {0, 1}
  OBVIOUS
<1>11. IO_LatArray \in [Threads -> Nat] /\ ReadIO_LatArray \in [Threads -> Nat]
  BY <1>3, <1>6 DEF LoadCounters
<1>a. DATA_WRITTEN \in Int /\ DATA_READ \in Int /\ IOCOUNT \in Int
  <2>1. {SumFunction(AllSteps), SumFunction(ByWriters), SumFunction(ByReaders)} \subseteq Nat
    BY <1>6, ThreadsFinite, SumAtLeast
  <2>2. QED
    BY <1>3, <1>4, <2>1, Products DEF LoadCounters
<1>b. Steps(t) \in Nat
  BY <1>6 DEF AllSteps
<1>12. CASE Write(t)
  <2>1. /\ wpc[t] = "io" /\ wpc' = [wpc EXCEPT ![t] = "count"]
        /\ UNCHANGED <<i, loop, IOCOUNT, ReadIO_LatArray, DATA_READ>>
        /\ IO_LatArray' = [IO_LatArray EXCEPT ![t] = @ + 1]
        /\ DATA_WRITTEN' = DATA_WRITTEN + iosize[t] /\ info[t].io_dir = "W"
    BY <1>12 DEF Write, LoadRequest, Worker, Recorded
  <2>2. t \in Writers /\ t \notin Readers /\ iosize[t] = WRITE_IOSIZE
    BY <1>2, <1>3, <2>1, LoadInfosAre DEF Readers, Size
  <2>3. wpc'[t] = "count" /\ \A u \in Threads \ {t} : Steps(u)' = Steps(u) /\ Issued(u)' = Issued(u)
    BY <1>9, <2>1
  <2>4. Steps(t)' = Steps(t) + 0 /\ Issued(t)' = Issued(t) + 1
    BY <1>1, <1>b, <2>1, <2>3 DEF Steps, Issued
  <2>5. LoadCounters'
    <3>1. /\ IO_LatArray' = [IO_LatArray EXCEPT ![t] = @ + (1 + 0)]
          /\ ReadIO_LatArray' = [ReadIO_LatArray EXCEPT ![t] = @ + 0]
          /\ DATA_WRITTEN' = DATA_WRITTEN + WRITE_IOSIZE * 1
          /\ DATA_READ' = DATA_READ + READ_IOSIZE * 0 /\ IOCOUNT' = IOCOUNT + 0
      BY <1>4, <1>11, <1>a, <2>1, <2>2
    <3>2. QED
      BY <1>7, <1>10, <2>2, <2>3, <2>4, <3>1
  <2>6. QED
    BY <1>3, <1>8, <1>9, <2>1, <2>5
<1>13. CASE Read(t)
  <2>1. /\ wpc[t] = "io" /\ wpc' = [wpc EXCEPT ![t] = "count"]
        /\ UNCHANGED <<i, loop, IOCOUNT, DATA_WRITTEN>>
        /\ IO_LatArray' = [IO_LatArray EXCEPT ![t] = @ + 1]
        /\ ReadIO_LatArray' = [ReadIO_LatArray EXCEPT ![t] = @ + 1]
        /\ DATA_READ' = DATA_READ + iosize[t] /\ info[t].io_dir = "R" /\ ~is_degr_read[t]
    BY <1>13 DEF Read, LoadRequest, Worker, Recorded
  <2>2. t \in Readers /\ t \notin Writers /\ iosize[t] = READ_IOSIZE
    BY <1>2, <1>3, <2>1, LoadInfosAre DEF Readers, Size
  <2>3. wpc'[t] = "count" /\ \A u \in Threads \ {t} : Steps(u)' = Steps(u) /\ Issued(u)' = Issued(u)
    BY <1>9, <2>1
  <2>4. Steps(t)' = Steps(t) + 0 /\ Issued(t)' = Issued(t) + 1
    BY <1>1, <1>b, <2>1, <2>3 DEF Steps, Issued
  <2>5. LoadCounters'
    <3>1. /\ IO_LatArray' = [IO_LatArray EXCEPT ![t] = @ + (0 + 1)]
          /\ DATA_WRITTEN' = DATA_WRITTEN + WRITE_IOSIZE * 0
          /\ DATA_READ' = DATA_READ + READ_IOSIZE * 1 /\ IOCOUNT' = IOCOUNT + 0
      BY <1>4, <1>11, <1>a, <2>1, <2>2
    <3>2. QED
      BY <1>7, <1>10, <2>1, <2>2, <2>3, <2>4, <3>1
  <2>6. QED
    BY <1>3, <1>8, <1>9, <2>1, <2>5
<1>14. CASE SkipRead(t)
  <2>1. /\ wpc[t] = "io" /\ wpc' = [wpc EXCEPT ![t] = "count"]
        /\ UNCHANGED <<i, loop, IOCOUNT, DATA_WRITTEN, DATA_READ, IO_LatArray, ReadIO_LatArray>>
        /\ info[t].io_dir = "R" /\ is_degr_read[t]
    BY <1>14 DEF SkipRead, Worker, worker_vars, lat_vars, counters
  <2>2. t \notin Writers
    BY <1>2, <1>3, <2>1, LoadInfosAre
  <2>3. wpc'[t] = "count" /\ \A u \in Threads \ {t} : Steps(u)' = Steps(u) /\ Issued(u)' = Issued(u)
    BY <1>9, <2>1
  <2>4. Steps(t)' = Steps(t) + 0
    BY <1>1, <1>b, <2>1, <2>3 DEF Steps
  <2>5. LoadCounters'
    <3>1. /\ IO_LatArray' = [IO_LatArray EXCEPT ![t] = @ + (0 + 0)]
          /\ ReadIO_LatArray' = [ReadIO_LatArray EXCEPT ![t] = @ + 0]
          /\ DATA_WRITTEN' = DATA_WRITTEN + WRITE_IOSIZE * 0
          /\ DATA_READ' = DATA_READ + READ_IOSIZE * 0 /\ IOCOUNT' = IOCOUNT + 0
      BY <1>4, <1>11, <1>a, <2>1
    <3>2. QED
      BY <1>7, <1>10, <2>1, <2>2, <2>3, <2>4, <3>1
  <2>6. QED
    BY <1>3, <1>8, <1>9, <2>1, <2>5
<1>15. ASSUME UNCHANGED <<IO_LatArray, ReadIO_LatArray, DATA_WRITTEN, DATA_READ>>,
              NEW a \in {0, 1}, IOCOUNT' = IOCOUNT + a, Steps(t)' = Steps(t) + a,
              Issued(t)' = Issued(t),
              \A u \in Threads \ {t} : Steps(u)' = Steps(u) /\ Issued(u)' = Issued(u)
       PROVE  LoadCounters'
  <2>1. /\ IO_LatArray' = [IO_LatArray EXCEPT ![t] = @ + (0 + 0)]
        /\ ReadIO_LatArray' = [ReadIO_LatArray EXCEPT ![t] = @ + 0]
        /\ DATA_WRITTEN' = DATA_WRITTEN + WRITE_IOSIZE * 0
        /\ DATA_READ' = DATA_READ + READ_IOSIZE * 0
    BY <1>4, <1>11, <1>15, <1>a
  <2>2. Issued(t) + 0 = Issued(t)
    BY <1>b DEF Issued
  <2>3. QED
    BY <1>7, <1>10, <1>15, <2>1, <2>2
<1>16. CASE CountRequest(t)
  <2>1. /\ wpc[t] = "count" /\ wpc' = [wpc EXCEPT ![t] = "io"]
        /\ IOCOUNT' = IOCOUNT + 1 /\ i' = [i EXCEPT ![t] = @ + 1]
        /\ UNCHANGED <<loop, IO_LatArray, ReadIO_LatArray, DATA_WRITTEN, DATA_READ>>
    BY <1>16 DEF CountRequest, Worker, worker_vars, lat_vars
  <2>2. /\ wpc'[t] = "io" /\ i'[t] = i[t] + 1 /\ i[t] \in Nat
        /\ \A u \in Threads \ {t} : wpc'[u] = wpc[u] /\ i'[u] = i[u]
    BY <1>2, <2>1
  <2>3. \A u \in Threads \ {t} : Steps(u)' = Steps(u) /\ Issued(u)' = Issued(u)
    BY <1>1, <2>1, <2>2, StepsApart
  <2>4. loop[t] * info[t].count \in Nat
    BY <1>3, <1>4, Products
  <2>5. Steps(t)' = Steps(t) + 1 /\ Issued(t)' = Issued(t)
    BY <1>1, <2>1, <2>2, <2>4 DEF Steps, Issued
  <2>6. LoadCounters'
    BY <1>10, <1>15, <2>1, <2>3, <2>5
  <2>7. QED
    BY <1>3, <1>8, <2>1, <2>2, <2>6
<1>17. CASE /\ StartLoop(t, WRITE_ALL) \/ ResetOffset(t) \/ EndLoop(t) \/ EndThread(t)
            /\ UNCHANGED <<lat_vars, counters>>
  <2>1. /\ Steps(t)' = Steps(t) /\ Issued(t)' = Issued(t)
        /\ loop' \in [Threads -> Nat]
        /\ wpc'[t] = "ended" => loop'[t] = LOOP
        /\ \A u \in Threads \ {t} :
             wpc'[u] = wpc[u] /\ loop'[u] = loop[u] /\ i'[u] = i[u]
    BY <1>2, <1>3, <1>4, <1>17, LoopSteps
  <2>2. \A u \in Threads \ {t} : Steps(u)' = Steps(u) /\ Issued(u)' = Issued(u)
    BY <1>1, <2>1, StepsApart
  <2>3. UNCHANGED <<IO_LatArray, ReadIO_LatArray, DATA_WRITTEN, DATA_READ, IOCOUNT>>
    BY <1>17 DEF lat_vars, counters
  <2>4. IOCOUNT' = IOCOUNT + 0 /\ Steps(t)' = Steps(t) + 0
    BY <1>a, <1>b, <2>1, <2>3
  <2>5. LoadCounters'
    BY <1>10, <1>15, <2>1, <2>2, <2>3, <2>4
  <2>6. QED
    BY <1>3, <1>8, <2>1, <2>5
<1>18. QED
  BY <1>12, <1>13, <1>14, <1>16, <1>17 DEF self_thread_worker

LEMMA SameCounts ==
  ASSUME UNCHANGED <<wpc, i, loop, info, build, is_degr_read, IO_LatArray,
                     ReadIO_LatArray, DATA_WRITTEN, DATA_READ, IOCOUNT>>
  PROVE  LoadCounters' <=> LoadCounters
<1>1. UNCHANGED <<Writers, Readers>>
  BY LoadConstants, LoadSettings
<1>2. \A t : Steps(t)' = Steps(t) /\ Issued(t)' = Issued(t)
  BY DEF Steps, Issued
<1>3. UNCHANGED <<AllSteps, ByWriters, ByReaders>>
  BY <1>1, <1>2 DEF AllSteps, ByWriters, ByReaders
<1>4. QED
  BY <1>3 DEF LoadCounters

LEMMA SamePlan ==
  ASSUME UNCHANGED <<LOOP, info, build, is_degr_read, totals>>
  PROVE  PlanReported' <=> PlanReported
<1>1. UNCHANGED <<Writers, Readers>>
  BY LoadConstants, LoadSettings
<1>2. \A T : UNCHANGED Planned(T)
  BY DEF Planned
<1>3. UNCHANGED {t \in Readers : ~is_degr_read[t]}
  BY <1>1
<1>4. QED
  BY <1>1, <1>2, <1>3 DEF PlanReported

(* main's steps.                                                           *)
LEMMA LoadSumsMain ==
  ASSUME CollectInv, LoadPlaces, LoadCounts, FlagInv, LoadSums, program = "load", LoadMain
  PROVE  LoadSums'
<1>1. /\ UNCHANGED <<program, LOOP, build>>
      /\ build \in Builds /\ wpc \in [Threads -> WorkerPlaces]
      /\ cpc # "none" => mpc \in {"join", "joincollector"}
  BY DEF LoadMain, StartLoad, PrintNothing, PrintLoad, StartCollector, JoinWorkers,
         JoinCollector, Main, load_own, LoadPlaces, LoadCounts, CollectInv
<1>2. /\ LOOP \in Nat \ {0} /\ loop \in [Threads -> Nat]
      /\ mpc \notin {"collect", "join"} => \A t \in Threads : wpc[t] = "none"
      /\ mpc = "start" => /\ IO_LatArray = NoLatency /\ ReadIO_LatArray = NoLatency
                          /\ DATA_WRITTEN = 0 /\ DATA_READ = 0 /\ IOCOUNT = 0
      /\ mpc \in {"collect", "join", "joincollector", "print"} => info = LoadInfos
      /\ mpc \in {"collect", "join", "joincollector"} => LoadCounters
      /\ \A t \in Threads : mpc = "joincollector" \/ wpc[t] = "ended" => loop[t] = LOOP
      /\ mpc = "print" \/ cpc = "ended" => PlanReported
  BY DEF LoadSums
<1>3. UNCHANGED <<Writers, Readers, LoadInfos>>
  BY <1>1, LoadConstants, LoadSettings
<1> USE DEF Main
<1>4. CASE StartLoad
  <2>1. /\ mpc = "start" /\ mpc' = "collect" /\ info' = LoadInfos
        /\ wpc' = [t \in Threads |-> "loop"] /\ i' = [t \in Threads |-> 0]
        /\ loop' = [t \in Threads |-> 0]
        /\ UNCHANGED <<IO_LatArray, ReadIO_LatArray, DATA_WRITTEN, DATA_READ, IOCOUNT, cpc>>
    BY <1>4 DEF StartLoad, Create, LoadInfos, lat_vars, collector_vars, counters
  <2>2. \A t \in Threads : Steps(t)' = 0 /\ Issued(t)' = 0
    <3>1. ASSUME NEW t \in Threads PROVE Steps(t)' = 0 /\ Issued(t)' = 0
      <4>1. info'[t].count \in Nat
        BY <1>1, <2>1, LoadThreads
      <4>2. 0 * info'[t].count = 0
        BY <4>1, Products
      <4>3. QED
        BY <2>1, <4>2 DEF Steps, Issued
    <3>2. QED
      BY <3>1
  <2>3. AllSteps' = NoLatency /\ ByWriters' = NoLatency /\ ByReaders' = NoLatency
    BY <2>2 DEF AllSteps, ByWriters, ByReaders, NoLatency
  <2>4. WRITE_IOSIZE \in Nat /\ READ_IOSIZE \in Nat
    BY <1>1, LoadThreads
  <2>5. LoadCounters'
    <3>1. WRITE_IOSIZE * 0 = 0 /\ READ_IOSIZE * 0 = 0
      BY <2>4, Products
    <3>2. [t \in Threads |-> NoLatency[t] + NoLatency[t]] = NoLatency
      BY DEF NoLatency
    <3>3. QED
      BY <1>2, <2>1, <2>3, <3>1, <3>2, NoSum DEF LoadCounters
  <2>6. loop' \in [Threads -> Nat] /\ \A t \in Threads : wpc'[t] # "ended"
    BY <2>1
  <2>7. QED
    BY <1>1, <1>2, <1>3, <2>1, <2>5, <2>6 DEF LoadSums
<1>5. ASSUME UNCHANGED <<wpc, loop, info, is_degr_read, totals>>,
             UNCHANGED cpc \/ cpc' \in {"none", "firstw"},
             \/ mpc = "collect" /\ mpc' = "join"
                /\ UNCHANGED <<i, IO_LatArray, ReadIO_LatArray, DATA_WRITTEN, DATA_READ, IOCOUNT>>
             \/ mpc = "joincollector" /\ mpc' = "print" /\ cpc = "ended"
             \/ mpc = "print" /\ mpc' \in {"aborted", "done"}
      PROVE  LoadSums'
  <2>1. PlanReported' <=> PlanReported
    BY <1>1, <1>5, SamePlan
  <2>2. mpc = "collect" => LoadCounters'
    BY <1>1, <1>2, <1>5, SameCounts
  <2>3. mpc \notin {"join", "joincollector"} => cpc' # "ended"
    BY <1>1, <1>5
  <2>4. QED
    BY <1>1, <1>2, <1>3, <1>5, <2>1, <2>2, <2>3 DEF LoadSums
<1>6. CASE PrintNothing \/ PrintLoad
  <2>1. /\ UNCHANGED <<wpc, loop, info, is_degr_read, totals, cpc>>
        /\ mpc = "print" /\ mpc' \in {"aborted", "done"}
    BY <1>6 DEF PrintNothing, PrintLoad, worker_vars, load_own, collector_vars, item
  <2>2. QED
    BY <1>5, <2>1
<1>7. CASE (StartCollector \/ JoinCollector) /\ UNCHANGED <<LOOP, worker_vars, load_own>>
  <2>1. /\ UNCHANGED <<wpc, loop, info, is_degr_read, totals>>
        /\ cpc' \in {"none", "firstw"}
        /\ \/ mpc = "collect" /\ mpc' = "join"
              /\ UNCHANGED <<i, IO_LatArray, ReadIO_LatArray, DATA_WRITTEN, DATA_READ, IOCOUNT>>
           \/ mpc = "joincollector" /\ mpc' = "print" /\ cpc = "ended"
    BY <1>7 DEF StartCollector, JoinCollector, worker_vars, load_own, item, lat_vars, counters
  <2>2. QED
    BY <1>5, <2>1
<1>8. CASE JoinWorkers /\ UNCHANGED <<LOOP, worker_vars, load_own>>
  <2>1. /\ mpc = "join" /\ mpc' = "joincollector" /\ \A t \in Threads : wpc[t] = "ended"
        /\ wpc' = [t \in Threads |-> "none"]
        /\ UNCHANGED <<loop, info, is_degr_read, IO_LatArray, ReadIO_LatArray,
                       DATA_WRITTEN, DATA_READ, IOCOUNT, cpc>>
    BY <1>8 DEF JoinWorkers, Joined, worker_vars, load_own, lat_vars, counters
  <2>2. \A t \in Threads : wpc'[t] = "none"
    BY <2>1
  <2>3. \A t \in Threads : Steps(t)' = Steps(t) /\ Issued(t)' = Issued(t)
    BY <2>1, <2>2 DEF Steps, Issued
  <2>4. UNCHANGED <<AllSteps, ByWriters, ByReaders>>
    BY <1>3, <2>1, <2>3 DEF AllSteps, ByWriters, ByReaders
  <2>5. LoadCounters'
    BY <1>2, <2>1, <2>4 DEF LoadCounters
  <2>6. cpc' # "ended"
    BY <2>1 DEF FlagInv
  <2>7. QED
    BY <1>1, <1>2, <1>3, <2>1, <2>2, <2>5, <2>6 DEF LoadSums
<1>9. QED
  BY <1>4, <1>6, <1>7, <1>8 DEF LoadMain

(* What has been counted when all threads have ended is what was planned.  *)
LEMMA PlanDone ==
  ASSUME LoadPlaces, LoadSums, mpc = "joincollector"
  PROVE  LET done == {t \in Readers : ~is_degr_read[t]} IN
         /\ IOCOUNT = Planned(Threads)
         /\ DATA_WRITTEN = WRITE_IOSIZE * Planned(Writers)
         /\ DATA_READ = READ_IOSIZE * Planned(done)
         /\ merge(ReadIO_LatArray) = Planned(done)
         /\ merge(IO_LatArray) = Planned(Writers \cup done)
<1> DEFINE done == {t \in Readers : ~is_degr_read[t]}
           Plan(T) == [t \in T |-> LOOP * info[t].count]
<1>1. /\ LoadCounters /\ info = LoadInfos /\ build \in Builds /\ i \in [Threads -> Nat]
      /\ loop \in [Threads -> Nat] /\ LOOP \in Nat
      /\ \A t \in Threads : wpc[t] = "none" /\ loop[t] = LOOP
  BY DEF LoadSums, LoadPlaces
<1>2. \A t \in Threads : LOOP * info[t].count \in Nat
  BY <1>1, LoadThreads, Products
<1>3. ASSUME NEW t \in Threads
      PROVE  Steps(t) = LOOP * info[t].count /\ Issued(t) = LOOP * info[t].count
  <2>1. LOOP * info[t].count \in Nat
    BY <1>2
  <2>2. QED
    BY <1>1, <2>1 DEF Steps, Issued
<1>4. /\ Writers \subseteq Threads /\ Readers \subseteq Threads /\ Writers \cap Readers = {}
      /\ done \subseteq Readers
  BY <1>1, LoadThreads
<1>5. \A T \in SUBSET Threads : \A f \in [Threads -> Nat] :
        (\A t \in T : f[t] = LOOP * info[t].count) /\ (\A t \in Threads \ T : f[t] = 0)
        => SumFunction(f) = Planned(T)
  <2> SUFFICES ASSUME NEW T \in SUBSET Threads, NEW f \in [Threads -> Nat],
                      \A t \in T : f[t] = LOOP * info[t].count,
                      \A t \in Threads \ T : f[t] = 0
               PROVE  SumFunction(f) = Planned(T)
    OBVIOUS
  <2>1. f \in [Threads -> Int]
    OBVIOUS
  <2>2. SumFunction(f) = SumFunction([x \in T |-> f[x]])
    BY <2>1, ThreadsFinite, SumOfPart
  <2>3. [x \in T |-> f[x]] = Plan(T)
    OBVIOUS
  <2>4. QED
    BY <2>2, <2>3 DEF Planned
<1>6. IOCOUNT = Planned(Threads)
  <2>1. AllSteps = Plan(Threads)
    BY <1>3 DEF AllSteps
  <2>2. QED
    BY <1>1, <2>1 DEF LoadCounters, Planned
<1>7. ByWriters \in [Threads -> Nat] /\ ByReaders \in [Threads -> Nat]
  BY <1>1, LoadArrays
<1>8. \A t \in Threads : ByWriters[t] = IF t \in Writers THEN LOOP * info[t].count ELSE 0
  BY <1>3 DEF ByWriters
<1>9. \A t \in Threads : ByReaders[t] = IF t \in done THEN LOOP * info[t].count ELSE 0
  BY <1>3 DEF ByReaders
<1> HIDE DEF done
<1>10. SumFunction(ByWriters) = Planned(Writers)
  BY <1>4, <1>5, <1>7, <1>8
<1>11. done \in SUBSET Threads
  BY <1>4
<1>12. SumFunction(ByReaders) = Planned(done)
  BY <1>5, <1>7, <1>9, <1>11
<1>13. SumFunction(IO_LatArray) = Planned(Writers \cup done)
  <2>1. IO_LatArray = [t \in Threads |-> ByWriters[t] + ByReaders[t]]
    BY <1>1 DEF LoadCounters
  <2>2. IO_LatArray \in [Threads -> Nat]
    BY <1>7, <2>1
  <2>3. \A t \in Writers \cup done : IO_LatArray[t] = LOOP * info[t].count
    BY <1>2, <1>4, <1>8, <1>9, <2>1
  <2>4. \A t \in Threads \ (Writers \cup done) : IO_LatArray[t] = 0
    BY <1>8, <1>9, <2>1
  <2>5. Writers \cup done \in SUBSET Threads
    BY <1>4, <1>11
  <2>6. QED
    BY <1>5, <2>2, <2>3, <2>4, <2>5
<1>14. QED
  BY <1>1, <1>6, <1>10, <1>12, <1>13 DEF LoadCounters, merge, done

LEMMA LoadSumsCollector ==
  ASSUME LoadPlaces, FlagInv, LoadSums, program = "load", LoadCollector
  PROVE  LoadSums'
<1>1. CollectorStep /\ UNCHANGED <<LOOP, loop, info, build, is_degr_read>>
  BY DEF LoadCollector, worker_vars, load_own
<1>2. /\ UNCHANGED <<shared_vars, counters>>
      /\ \/ UNCHANGED totals /\ cpc' # "ended"
         \/ /\ cpc = "totals" /\ cpc' = "ended"
            /\ totals'.w = DATA_WRITTEN /\ totals'.r = DATA_READ
            /\ totals'.n = IOCOUNT /\ totals'.all = merge(IO_LatArray)
            /\ program # "trace_md" => totals'.read = merge(ReadIO_LatArray)
  BY <1>1, CollectorLeaves
<1>3. UNCHANGED <<program, mpc, wpc, i, IO_LatArray, ReadIO_LatArray, DATA_WRITTEN,
                  DATA_READ, IOCOUNT>>
  BY <1>2 DEF shared_vars, counters
<1>4. (LoadCounters' <=> LoadCounters) /\ UNCHANGED LoadInfos
  BY <1>1, <1>3, SameCounts, LoadSettings
<1>5. ASSUME mpc = "print" \/ cpc' = "ended" => PlanReported'
      PROVE  LoadSums'
  BY <1>1, <1>3, <1>4, <1>5 DEF LoadSums
<1>6. CASE UNCHANGED totals /\ cpc' # "ended"
  <2>1. PlanReported' <=> PlanReported
    BY <1>1, <1>6, SamePlan
  <2>2. QED
    BY <1>5, <1>6, <2>1 DEF LoadSums
<1>7. CASE /\ cpc = "totals" /\ cpc' = "ended"
           /\ totals'.w = DATA_WRITTEN /\ totals'.r = DATA_READ
           /\ totals'.n = IOCOUNT /\ totals'.all = merge(IO_LatArray)
           /\ program # "trace_md" => totals'.read = merge(ReadIO_LatArray)
  <2>1. mpc = "joincollector"
    BY <1>7 DEF FlagInv
  <2>2. UNCHANGED <<Writers, Readers>> /\ \A T : UNCHANGED Planned(T)
    BY <1>1, LoadConstants, LoadSettings DEF Planned
  <2>3. UNCHANGED {t \in Readers : ~is_degr_read[t]}
    BY <1>1, <2>2
  <2>4. totals'.read = merge(ReadIO_LatArray)
    BY <1>7
  <2>5. PlanReported'
    BY <1>7, <2>1, <2>2, <2>3, <2>4, PlanDone DEF PlanReported
  <2>6. QED
    BY <1>5, <2>5
<1>8. QED
  BY <1>2, <1>6, <1>7

LEMMA LoadSumsStep ==
  ASSUME SampleInv, LoadPlaces, LoadCounts, FlagInv, LoadSums, program = "load", [Next]_vars
  PROVE  LoadSums'
<1>1. CollectInv
  BY DEF SampleInv, BenchPrograms
<1>2. CASE UNCHANGED vars
  <2>1. UNCHANGED <<program, mpc, cpc, wpc, i, loop, LOOP, info, build, is_degr_read,
                    IO_LatArray, ReadIO_LatArray, DATA_WRITTEN, DATA_READ, IOCOUNT, totals>>
    BY <1>2 DEF vars, shared_vars, collector_vars, counters, item, worker_vars, load_own
  <2>2. /\ LoadCounters' <=> LoadCounters
        /\ PlanReported' <=> PlanReported
        /\ UNCHANGED LoadInfos
    BY <2>1, SameCounts, SamePlan, LoadSettings
  <2>3. QED
    BY <2>1, <2>2 DEF LoadSums
<1>3. QED
  BY <1>1, <1>2, LoadSteps, LoadSumsMain, LoadSumsRun, LoadSumsCollector

(* bench: each test records the latencies of its own requests.             *)
LEMMA CountIsNumber ==
  ASSUME BenchPlaces, G_IOSIZE > 0
  PROVE  count \in Nat
<1>1. G_IOSIZE \in Nat \ {0} /\ DATASET_SIZE \in Nat /\ NUM_THREADS \in Nat \ {0}
  BY BenchAssumption, ThreadsFinite DEF BenchPlaces
<1>2. DATASET_SIZE \div G_IOSIZE \in Nat
  BY <1>1, DivMod
<1>3. QED
  BY <1>1, <1>2, DivMod DEF count

LEMMA BenchSumsMain ==
  ASSUME BenchPlaces, BenchControl, BenchSums, program = "bench", BenchMain
  PROVE  BenchSums'
<1>1. UNCHANGED <<program, G_IOSIZE, LOOP, count>> /\ LOOP \in Nat
  BY BenchControlMain, BenchConstants DEF BenchPrograms, BenchControl, BenchState
<1>2. CASE StartTest
  <2>1. /\ mpc = "start" /\ mpc' = "join" /\ G_IOSIZE > 0
        /\ info' = Tests[test] /\ wpc' = [t \in Threads |-> "loop"]
        /\ loop' = [t \in Threads |-> 0] /\ UNCHANGED IO_LatArray
    BY <1>2 DEF StartTest, Main, Create, lat_vars
  <2>2. OneKind(Tests[test])
    BY <2>1, TestKinds DEF BenchPlaces, BenchPrograms
  <2>3. count \in Nat
    BY <2>1, CountIsNumber
  <2>4. \A t \in Threads : info'[t].count \in Nat
    BY <2>1, <2>2, <2>3 DEF OneKind
  <2>5. AllSteps' = NoLatency
    <3>1. ASSUME NEW t \in Threads PROVE Steps(t)' = 0
      <4>1. 0 * info'[t].count = 0
        BY <2>4, Products
      <4>2. QED
        BY <2>1, <4>1 DEF Steps
    <3>2. QED
      BY <3>1 DEF AllSteps, NoLatency
  <2>6. QED
    BY <2>1, <2>5 DEF BenchSums
<1>3. CASE JoinTest
  <2>1. /\ mpc = "join" /\ mpc' = "show" /\ \A t \in Threads : wpc[t] = "ended"
        /\ wpc' = [t \in Threads |-> "none"]
        /\ UNCHANGED <<IO_LatArray, loop, info>>
    BY <1>3 DEF JoinTest, Main, Joined, BenchIdle, lat_vars, worker_vars
  <2>2. Started
    BY <2>1, ThreadNumbers DEF BenchControl, NotStarted
  <2>3. count \in Nat /\ \A t \in Threads : info[t].count = count
    BY <2>2, CountIsNumber DEF Started, OneKind
  <2>4. LOOP * count \in Nat
    BY <1>1, <2>3, Products
  <2>5. \A t \in Threads : Steps(t) = LOOP * count
    BY <2>1, <2>3, <2>4 DEF Steps, BenchSums
  <2>6. IO_LatArray = [t \in Threads |-> LOOP * count]
    BY <2>1, <2>5 DEF BenchSums, AllSteps
  <2>7. QED
    BY <1>1, <2>1, <2>6 DEF BenchSums
<1>4. CASE Show_bench
  <2>1. /\ mpc' \in {"start", "done"} /\ IO_LatArray' = NoLatency
        /\ UNCHANGED <<wpc, loop>>
    BY <1>4 DEF Show_bench, NextTest, Main, worker_vars
  <2>2. QED
    BY <1>1, <2>1 DEF BenchSums
<1>5. CASE NoSize \/ Show_nothing
  <2>1. mpc' = "aborted" /\ UNCHANGED <<wpc, loop>>
    BY <1>5 DEF NoSize, Show_nothing, Main, BenchIdle, worker_vars
  <2>2. QED
    BY <1>1, <2>1 DEF BenchSums
<1>6. QED
  BY <1>2, <1>3, <1>4, <1>5 DEF BenchMain, Show_main

LEMMA BenchSumsRun ==
  ASSUME BenchPlaces, BenchControl, BenchSums, program = "bench",
         NEW t \in Threads, BenchThread(t)
  PROVE  BenchSums'
<1>1. /\ UNCHANGED <<program, G_IOSIZE, LOOP, info>> /\ BenchState /\ Started /\ mpc = "join"
      /\ \/ mpc' = "aborted" /\ UNCHANGED <<wpc, loop>>
         \/ UNCHANGED mpc /\ BenchRequest(t)
         \/ /\ UNCHANGED mpc
            /\ \/ StartLoop(t, DATASET_SIZE) \/ ResetOffset(t)
               \/ EndLoop(t) \/ EndThread(t)
  BY BenchThreadStep DEF BenchPrograms
<1>2. /\ wpc \in [Threads -> WorkerPlaces \ {"count"}] /\ i \in [Threads -> Nat]
      /\ loop \in [Threads -> Nat]
  BY <1>1 DEF BenchState
<1>3. info[t].count \in Nat
  BY <1>1, CountIsNumber DEF Started, OneKind
<1>4. CASE mpc' = "aborted" /\ UNCHANGED <<wpc, loop>>
  BY <1>1, <1>4 DEF BenchSums
<1>5. CASE UNCHANGED mpc /\ BenchRequest(t)
  <2>1. /\ wpc[t] = "io" /\ wpc' = [wpc EXCEPT ![t] = "io"]
        /\ i' = [i EXCEPT ![t] = @ + 1] /\ UNCHANGED loop
        /\ IO_LatArray' = [IO_LatArray EXCEPT ![t] = @ + 1]
    BY <1>5 DEF BenchRequest, Request, Worker, Recorded
  <2>2. UNCHANGED wpc /\ i'[t] = i[t] + 1 /\ \A u \in Threads \ {t} : i'[u] = i[u]
    BY <1>2, <2>1
  <2>3. \A u \in Threads \ {t} : Steps(u)' = Steps(u)
    BY <1>1, <2>1, <2>2, StepsApart
  <2>4. loop[t] * info[t].count \in Nat /\ i[t] \in Nat
    BY <1>2, <1>3, Products
  <2>5. Steps(t)' = Steps(t) + 1
    BY <1>1, <2>1, <2>2, <2>4 DEF Steps
  <2>6. IO_LatArray' = AllSteps'
    BY <1>1, <2>1, <2>3, <2>5 DEF BenchSums, AllSteps
  <2>7. QED
    BY <1>1, <1>5, <2>1, <2>2, <2>6 DEF BenchSums
<1>6. CASE /\ UNCHANGED mpc
           /\ \/ StartLoop(t, DATASET_SIZE) \/ ResetOffset(t)
              \/ EndLoop(t) \/ EndThread(t)
  <2>1. /\ Steps(t)' = Steps(t)
        /\ wpc'[t] = "ended" => loop'[t] = LOOP
        /\ \A u \in Threads \ {t} :
             wpc'[u] = wpc[u] /\ loop'[u] = loop[u] /\ i'[u] = i[u]
    BY <1>2, <1>3, <1>6, LoopSteps
  <2>2. \A u \in Threads : Steps(u)' = Steps(u)
    BY <1>1, <2>1, StepsApart
  <2>3. UNCHANGED AllSteps
    BY <2>2 DEF AllSteps
  <2>4. UNCHANGED IO_LatArray
    <3>1. ~BenchRequest(t)
      <4>1. i[t] \in Nat /\ ~(i[t] < i[t])
        BY <1>2
      <4>2. QED
        BY <1>6, <4>1 DEF BenchRequest, Request, StartLoop, ResetOffset, EndLoop,
                          EndThread, Worker
    <3>2. QED
      BY <3>1 DEF BenchThread, thread_worker, RandomByZero, BenchIdle, lat_vars
  <2>5. \A u \in Threads : wpc'[u] = "ended" => loop'[u] = LOOP
    BY <2>1 DEF BenchSums
  <2>6. QED
    BY <1>1, <1>6, <2>3, <2>4, <2>5 DEF BenchSums
<1>7. QED
  BY <1>1, <1>4, <1>5, <1>6

LEMMA BenchSumsStep ==
  ASSUME BenchPlaces, BenchControl, BenchSums, program = "bench", [Next]_vars
  PROVE  BenchSums'
<1>1. CASE UNCHANGED vars
  <2>1. UNCHANGED <<mpc, IO_LatArray, wpc, i, loop, LOOP, info, G_IOSIZE, program>>
    BY <1>1 DEF vars, shared_vars, worker_vars, bench_own
  <2>2. UNCHANGED <<AllSteps, count>>
    BY <2>1 DEF AllSteps, Steps, count
  <2>3. QED
    BY <2>1, <2>2 DEF BenchSums
<1>2. QED
  BY <1>1, BenchSteps, BenchSumsMain, BenchSumsRun DEF BenchPrograms

-----------------------------------------------------------------------------
(* Why a program fails.                                                    *)

(* A worker fails on a line of the trace longer than the slack, as it is   *)
(* to write, or on the device or the buffer of trace_md.                   *)
LEMMA FailureHasCause ==
  ASSUME SampleInv, program \in TracePrograms, NEW t \in Threads, worker_fails(t)
  PROVE  AbortCauses'
<1>1. Failing(t) /\ (FailWrite(t) \/ FailTransfer(t))
  BY FailureEnds DEF worker_fails
<1>2. /\ req[t].off \in 1 .. Len(trace) /\ req[t].len \in 1 .. Len(trace)
      /\ req[t].dir \in 1 .. Len(trace)
  BY <1>1 DEF Failing, SampleInv, LengthInv, HasOffset, HasLength
<1>3. CASE FailWrite(t)
  <2>1. program = "trace_st" /\ ~IsRead(t) /\ PastTable(t)
    BY <1>3 DEF FailWrite
  <2>2. trace[req[t].dir].dir = "W"
    <3>1. trace[req[t].dir] \in Kept
      <4>1. \A lines \in Seq(Kept) : \A l \in 1 .. Len(lines) : lines[l] \in Kept
        OBVIOUS
      <4>2. trace \in Seq(Kept)
        BY DEF SampleInv, CursorInv, TraceInv
      <4>3. QED
        BY <1>2, <4>1, <4>2
    <3>2. QED
      BY <2>1, <3>1 DEF IsRead, Kept, Lines
  <2>3. trace[req[t].len].len > SLACK * SSTRIPE_DATASIZE
    <3>1. ~(Length(t) <= SLACK * SSTRIPE_DATASIZE)
      BY <1>1, <2>1, ReplayIsInTable DEF ReplayInTable, Failing
    <3>2. Length(t) \in Nat
      BY <1>1, ReplayServes DEF Failing
    <3>3. SLACK * SSTRIPE_DATASIZE \in Nat
      BY LayoutAssumption, DriversAssumption DEF SSTRIPE_DATASIZE
    <3>4. QED
      BY <3>1, <3>2, <3>3 DEF Length
  <2>4. QED
    BY <1>1, <1>2, <2>1, <2>2, <2>3 DEF AbortCauses, Failing
<1>4. CASE FailTransfer(t)
  <2>1. program = "trace_md" /\ (PastDevice(t) \/ PastBuffer(t))
    BY <1>4 DEF FailTransfer
  <2>2. \/ Fit(trace[req[t].off].off) + trace[req[t].len].len > MD_LEN
        \/ trace[req[t].len].len > BufferMBs[program] * MB
    BY <2>1 DEF PastDevice, PastBuffer, Offset, Length
  <2>3. UNCHANGED <<program, trace>> /\ mpc' = "aborted"
    BY <1>1 DEF Failing
  <2>4. QED
    BY <1>2, <2>1, <2>2, <2>3 DEF AbortCauses
<1>5. QED
  BY <1>1, <1>3, <1>4

LEMMA ReplayAborts ==
  ASSUME AbortCauses, SampleInv, ReplaySums, program \in TracePrograms, [Next]_vars
  PROVE  AbortCauses'
<1>1. UNCHANGED program
  BY ProgramStays
<1>2. program \in {"trace_st", "trace_md"}
  BY DEF TracePrograms
<1>3. ASSUME UNCHANGED <<mpc, trace>> PROVE AbortCauses'
  BY <1>1, <1>2, <1>3 DEF AbortCauses
<1>4. CASE ReplayMain
  <2>1. \/ mpc' # "aborted"
        \/ program = "trace_md" /\ UNCHANGED trace /\ trace = <<>>
        \/ program = "trace_md" /\ UNCHANGED trace /\ mpc = "print" /\ totals.all = 0
    BY <1>4 DEF ReplayMain, NewTrace, ReadLine, EndOfFile_st, EndOfFile_md, EndOfFile,
                NoMoreTraces, StartWorker, CollectorMain, StartCollector, JoinWorkers,
                JoinCollector, Print_st, Print_md, PrintCDF, Main, trace_vars
  <2>2. NUM_THREADS \in Nat \ {0}
    BY ThreadsFinite
  <2>3. trace = <<>> => Count(trace) = 0
    <3>1. Len(<<>>) = 0 /\ 0 \div NUM_THREADS = 0
      BY <2>2
    <3>2. QED
      BY <3>1 DEF Count
  <2>4. mpc = "print" /\ totals.all = 0 => Count(trace) = 0
    <3>1. SUFFICES ASSUME mpc = "print", totals.all = 0 PROVE Count(trace) = 0
      OBVIOUS
    <3>2. Count(trace) * NUM_THREADS = 0
      BY <3>1 DEF ReplaySums, AllReported, AllServed
    <3>3. Count(trace) \in Nat
      BY ThreadsFinite DEF SampleInv, CursorInv, ReplayState
    <3>4. \A m \in Nat : m * NUM_THREADS = 0 => m = 0
      BY <2>2
    <3>5. QED
      BY <3>2, <3>3, <3>4
  <2>5. QED
    BY <1>1, <2>1, <2>3, <2>4 DEF AbortCauses
<1>5. ASSUME NEW t \in Threads, worker_run(t) PROVE UNCHANGED <<mpc, trace>>
  BY <1>5 DEF worker_run, program_vars
<1>6. CASE ReplayCollector \/ UNCHANGED vars
  <2>1. UNCHANGED <<mpc, trace>>
    BY <1>6, CollectorLeaves DEF ReplayCollector, shared_vars, trace_vars, vars
  <2>2. QED
    BY <1>3, <2>1
<1>7. ASSUME NEW t \in Threads, worker_fails(t) PROVE AbortCauses'
  BY <1>7, FailureHasCause
<1>8. QED
  BY <1>3, <1>4, <1>5, <1>6, <1>7, ReplayKinds

LEMMA LoadAborts ==
  ASSUME AbortCauses, LoadPlaces, LoadSums, program = "load", [Next]_vars
  PROVE  AbortCauses'
<1>1. UNCHANGED program
  BY ProgramStays
<1>2. ASSUME UNCHANGED <<mpc, build, info, is_degr_read>> PROVE AbortCauses'
  BY <1>1, <1>2, LoadConstants, LoadSettings DEF AbortCauses
<1>3. CASE PrintNothing
  <2>1. /\ mpc = "print" /\ NoCDF /\ PlanReported /\ LOOP \in Nat \ {0} /\ info = LoadInfos
        /\ build \in Builds
        /\ UNCHANGED <<info, is_degr_read, build>>
    BY <1>3 DEF PrintNothing, Main, worker_vars, load_own, LoadSums, LoadPlaces
  <2>2. /\ Writers \subseteq Threads /\ Readers \subseteq Threads
        /\ \A t \in Threads : info[t].count \in Nat
    BY <2>1, LoadThreads
  <2>3. ASSUME NEW T \in SUBSET Threads, Planned(T) = 0, NEW t \in T
        PROVE  info[t].count = 0
    <3> DEFINE f == [u \in T |-> LOOP * info[u].count]
    <3>1. f \in [T -> Nat]
      BY <2>1, <2>2, Products
    <3>2. IsFiniteSet(T)
      BY ThreadsFinite, FS_Subset
    <3>3. SumFunction(f) = 0
      BY <2>3 DEF Planned
    <3> HIDE DEF f
    <3>4. f[t] <= SumFunction(f) /\ f[t] \in Nat
      BY <3>1, <3>2, SumAtLeast
    <3>5. LOOP * info[t].count = 0
      BY <3>3, <3>4 DEF f
    <3>6. \A l \in Nat \ {0} : \A n \in Nat : l * n = 0 => n = 0
      OBVIOUS
    <3>7. QED
      BY <2>1, <2>2, <3>5, <3>6
  <2> DEFINE done == {t \in Readers : ~is_degr_read[t]}
  <2>4. /\ totals.read = Planned(done) /\ totals.all = Planned(Writers \cup done)
        /\ totals.all = 0 \/ (READ_THREAD > 0 /\ totals.read = 0)
    BY <2>1 DEF PlanReported, NoCDF
  <2>5. done \in SUBSET Threads /\ Writers \cup done \in SUBSET Threads
    BY <2>2
  <2>6. READ_THREAD > 0 => Readers # {}
    <3>1. NUM_THREADS \in Nat \ {0} /\ WRITE_THREAD \in Int
      BY <2>1, ThreadsFinite, WorkloadAssumption DEF WRITE_THREAD
    <3>2. READ_THREAD > 0 => NUM_THREADS - 1 \in Readers
      BY <3>1 DEF READ_THREAD, Readers, Writers, Threads
    <3>3. QED
      BY <3>2
  <2>7. ASSUME Readers # {}, NEW t \in Readers, ~is_degr_read[t]
        PROVE  info[t].count = 0
    <3>1. t \in done /\ t \in Writers \cup done
      BY <2>7
    <3> HIDE DEF done
    <3>2. QED
      BY <2>3, <2>4, <2>5, <3>1
  <2>8. ASSUME Readers = {}, NEW t \in Writers
        PROVE  info[t].count = 0
    <3>1. t \in Writers \cup done
      BY <2>8
    <3> HIDE DEF done
    <3>2. totals.all = 0
      BY <2>4, <2>6, <2>8
    <3>3. QED
      BY <2>3, <2>4, <2>5, <3>1, <3>2
  <2>9. UNCHANGED <<Writers, Readers>>
    BY <2>1, LoadConstants, LoadSettings
  <2>10. QED
    BY <1>1, <2>1, <2>7, <2>8, <2>9 DEF AbortCauses
<1>4. CASE LoadMain /\ ~PrintNothing
  BY <1>1, <1>4 DEF LoadMain, StartLoad, PrintLoad, StartCollector, JoinWorkers,
                    JoinCollector, Main, AbortCauses
<1>5. ASSUME NEW t \in Threads, self_thread_worker(t) PROVE AbortCauses'
  <2>1. UNCHANGED <<mpc, build, info, is_degr_read>>
    BY <1>5 DEF self_thread_worker, program_vars, load_own, Write, Read, LoadRequest,
         SkipRead, CountRequest, StartLoop, ResetOffset, EndLoop, EndThread, worker_vars
  <2>2. QED
    BY <1>2, <2>1
<1>6. CASE LoadCollector \/ UNCHANGED vars
  <2>1. UNCHANGED <<mpc, build, info, is_degr_read>>
    BY <1>6, CollectorLeaves DEF LoadCollector, shared_vars, worker_vars, load_own, vars
  <2>2. QED
    BY <1>2, <2>1
<1>7. QED
  BY <1>3, <1>4, <1>5, <1>6, LoadSteps

LEMMA Quotient ==
  ASSUME NEW n \in Nat, NEW c \in Nat \ {0}
  PROVE  /\ n \div c \in Nat /\ c * (n \div c) \in Nat
         /\ c * (n \div c) <= n /\ n < c * (n \div c) + c
  BY AlignedDown

LEMMA BenchAborts ==
  ASSUME AbortCauses, BenchPlaces, BenchControl, program = "bench" => BenchSums,
         program \in BenchPrograms, [Next]_vars
  PROVE  AbortCauses'
<1>1. UNCHANGED program
  BY ProgramStays
<1>2. program \in {"bench", "main"}
  BY DEF BenchPrograms
<1>3. ASSUME UNCHANGED <<mpc, G_IOSIZE>> PROVE AbortCauses'
  BY <1>1, <1>2, <1>3 DEF AbortCauses
<1>4. UNCHANGED G_IOSIZE
  BY BenchControlMain, BenchThreadStep, BenchSteps DEF vars, bench_own
<1>5. /\ DATASET_SIZE \in Nat /\ NUM_THREADS \in Nat \ {0} /\ G_IOSIZE \in Nat
      /\ DATASET_SIZE = NUM_THREADS * Part /\ Part \in Nat
  <2>1. DATASET_SIZE \in Nat /\ NUM_THREADS \in Nat \ {0} /\ G_IOSIZE \in Nat
        /\ DATASET_SIZE % NUM_THREADS = 0
    BY BenchAssumption, ThreadsFinite DEF BenchPlaces
  <2>2. QED
    BY <2>1, DivMod DEF Part
<1> DEFINE g == Rounded(G_IOSIZE)
<1>6. g \in Nat /\ G_IOSIZE <= g /\ Rounded(g) = g
  BY <1>5, RoundedUp
<1>7. ASSUME program = "bench", G_IOSIZE = 0 \/ 2 * g > Part PROVE AbortCauses'
  BY <1>1, <1>4, <1>7 DEF AbortCauses
<1>8. CASE NoSize
  BY <1>7, <1>8 DEF NoSize
<1>9. CASE Show_nothing
  <2>1. program = "bench" /\ mpc = "show" /\ merge(IO_LatArray) = 0
    BY <1>9 DEF Show_nothing, Main
  <2>2. G_IOSIZE > 0 /\ LOOP \in Nat \ {0}
    BY <2>1 DEF BenchControl, BenchState, NotStarted, Started
  <2>3. count \in Nat
    BY <2>2, CountIsNumber
  <2>4. LOOP * count \in Nat
    BY <2>2, <2>3, Products
  <2>5. IO_LatArray \in [Threads -> Int] /\ \A t \in Threads : IO_LatArray[t] = LOOP * count
    BY <2>1, <2>4 DEF BenchSums
  <2>6. SumFunction(IO_LatArray) = Cardinality(Threads) * (LOOP * count)
    BY <2>4, <2>5, ThreadsFinite, SumOfEqual
  <2>7. NUM_THREADS * (LOOP * count) = 0
    BY <2>1, <2>6, ThreadsFinite DEF merge
  <2>8. \A l \in Nat \ {0} : \A n \in Nat : l * n = 0 => n = 0
    OBVIOUS
  <2>9. count = 0
    BY <1>5, <2>2, <2>3, <2>4, <2>7, <2>8
  <2>10. Part < G_IOSIZE
    <3> DEFINE q == DATASET_SIZE \div G_IOSIZE
    <3>1. G_IOSIZE \in Nat \ {0}
      BY <1>5, <2>2
    <3>2. q \in Nat /\ DATASET_SIZE < G_IOSIZE * q + G_IOSIZE
      BY <1>5, <3>1, Quotient
    <3>3. q < NUM_THREADS
      <4>1. q \div NUM_THREADS = 0
        BY <2>9 DEF count
      <4>2. q < NUM_THREADS * (q \div NUM_THREADS) + NUM_THREADS
        BY <1>5, <3>2, Quotient
      <4>3. NUM_THREADS * 0 = 0
        BY <1>5
      <4> HIDE DEF q
      <4>4. QED
        BY <1>5, <3>2, <4>1, <4>2, <4>3
    <3> HIDE DEF q
    <3>4. ASSUME G_IOSIZE <= Part PROVE FALSE
      <4>1. PICK d \in Nat : Part = G_IOSIZE + d
        <5>1. Part - G_IOSIZE \in Nat /\ Part = G_IOSIZE + (Part - G_IOSIZE)
          BY <1>5, <3>4
        <5>2. QED
          BY <5>1
      <4>2. PICK e \in Nat : NUM_THREADS = q + 1 + e
        <5>1. NUM_THREADS - q - 1 \in Nat /\ NUM_THREADS = q + 1 + (NUM_THREADS - q - 1)
          BY <1>5, <3>2, <3>3
        <5>2. QED
          BY <5>1
      <4>3. DATASET_SIZE = G_IOSIZE * q + G_IOSIZE + (G_IOSIZE * e + NUM_THREADS * d)
        BY <1>5, <3>2, <4>1, <4>2
      <4>4. G_IOSIZE * e \in Nat /\ NUM_THREADS * d \in Nat /\ G_IOSIZE * q \in Nat
        BY <1>5, <3>2, Products
      <4>5. QED
        BY <1>5, <3>2, <4>3, <4>4
    <3>5. QED
      BY <1>5, <3>4
  <2>11. 2 * g > Part
    BY <1>5, <1>6, <2>10
  <2>12. QED
    BY <1>7, <2>1, <2>11
<1>10. ASSUME NEW t \in Threads, RandomByZero(t), ~Halted PROVE AbortCauses'
  <2>1. BenchThread(t)
    BY <1>10 DEF BenchThread
  <2>2. Started
    BY <2>1, BenchThreadStep
  <2>3. /\ info[t].is_rand /\ Offsets(t, Rounded(iosize[t])) = {}
    BY <1>10 DEF RandomByZero
  <2>4. program = "bench"
    BY <1>2, <2>2, <2>3 DEF Started, OneKind
  <2>5. Rounded(iosize[t]) = g
    <3>1. iosize[t] \in {G_IOSIZE, g}
      BY <2>2 DEF Started, ThreadInv
    <3>2. QED
      BY <1>6, <3>1
  <2>6. PICK span \in {DATASET_SIZE, Part} :
          Offsets(t, g) = Rand_offset_align(info[t].offset, span, g)
    BY <2>3 DEF Offsets
  <2>7. 0 .. (span \div g) - 2 = {}
    BY <2>3, <2>5, <2>6 DEF Rand_offset_align
  <2>8. g \in Nat \ {0} /\ span \in Nat
    BY <1>5, <1>6, <2>2 DEF Started
  <2>9. Part <= DATASET_SIZE
    <3>1. PICK n \in Nat : NUM_THREADS = n + 1
      <4>1. NUM_THREADS - 1 \in Nat /\ NUM_THREADS = (NUM_THREADS - 1) + 1
        BY <1>5
      <4>2. QED
        BY <4>1
    <3>2. (n + 1) * Part = n * Part + Part /\ n * Part \in Nat
      BY <1>5, Products
    <3>3. QED
      BY <1>5, <3>1, <3>2
  <2>10. span < 2 * g
    <3> DEFINE q == span \div g
    <3>1. q \in Nat /\ span < g * q + g
      <4> HIDE DEF g
      <4>1. QED
        BY <2>8, Quotient
    <3>2. q \in {0, 1}
      <4>1. ~(0 <= q - 2)
        <5>1. q - 2 \in Int
          BY <3>1
        <5> HIDE DEF q
        <5>2. 0 <= q - 2 => 0 \in 0 .. q - 2
          BY <5>1
        <5>3. QED
          BY <2>7, <5>2 DEF q
      <4> HIDE DEF q
      <4>2. QED
        BY <3>1, <4>1
    <3> HIDE DEF q, g
    <3>3. g * 0 = 0 /\ g * 1 = g
      BY <2>8
    <3>4. QED
      BY <2>8, <3>1, <3>2, <3>3
  <2>11. 2 * g > Part
    BY <1>5, <2>8, <2>9, <2>10
  <2>12. QED
    BY <1>7, <2>4, <2>11
<1>11. CASE BenchMain
  BY <1>1, <1>8, <1>9, <1>11
     DEF BenchMain, StartTest, JoinTest, Show_bench, Show_main, NextTest, Main, AbortCauses
<1>12. ASSUME NEW t \in Threads, BenchThread(t) PROVE AbortCauses'
  BY <1>3, <1>4, <1>10, <1>12 DEF BenchThread, thread_worker, program_vars
<1>13. CASE UNCHANGED vars
  BY <1>3, <1>4, <1>13 DEF vars, shared_vars
<1>14. QED
  BY <1>11, <1>12, <1>13, BenchSteps

(* What main reports.                                                      *)

(* A sum over a set is that of a function.                                 *)
LEMMA LengthsAreSum ==
  ASSUME NEW n \in Nat
  PROVE  SumTo(n, LAMBDA l : trace[l].len) = Lengths(n)
<1> DEFINE S == 1 .. n
           f == [l \in S |-> trace[l].len]
           Is(g) == g = [s \in SUBSET S |-> IF s = {} THEN 0
                                            ELSE trace[One(s)].len + g[s \ {One(s)}]]
<1>1. ASSUME NEW g PROVE IsSums(f, g) <=> Is(g)
  <2>1. \A s \in SUBSET S : s # {} => f[One(s)] = trace[One(s)].len
    BY DEF One
  <2>2. DOMAIN f = S
    OBVIOUS
  <2> HIDE DEF f, S
  <2>3. [s \in SUBSET S |-> IF s = {} THEN 0 ELSE f[One(s)] + g[s \ {One(s)}]]
        = [s \in SUBSET S |-> IF s = {} THEN 0 ELSE trace[One(s)].len + g[s \ {One(s)}]]
    BY <2>1
  <2>4. QED
    BY <2>2, <2>3 DEF IsSums
<1>2. SumTo(n, LAMBDA l : trace[l].len) = (CHOOSE g : Is(g))[S]
  BY DEF SumTo, MapThenSumSet, MapThenFoldSet, One
<1>3. DOMAIN f = S
  OBVIOUS
<1> HIDE DEF Is, S
<1>4. Sums(f) = CHOOSE g : Is(g)
  BY <1>1 DEF Sums
<1>5. QED
  BY <1>2, <1>3, <1>4, SumIs DEF Lengths, S

LEMMA ReadsAreSum ==
  ASSUME NEW n \in Nat
  PROVE  SumTo(n, LAMBDA l : IF trace[l].dir = "R" THEN 1 ELSE 0) = ReadLines(n)
<1> DEFINE S == 1 .. n
           one(l) == IF trace[l].dir = "R" THEN 1 ELSE 0
           f == [l \in S |-> one(l)]
           Is(g) == g = [s \in SUBSET S |-> IF s = {} THEN 0
                                            ELSE one(One(s)) + g[s \ {One(s)}]]
<1>1. ASSUME NEW g PROVE IsSums(f, g) <=> Is(g)
  <2>1. \A s \in SUBSET S : s # {} => f[One(s)] = one(One(s))
    BY DEF One
  <2>2. DOMAIN f = S
    OBVIOUS
  <2> HIDE DEF f, S, one
  <2>3. [s \in SUBSET S |-> IF s = {} THEN 0 ELSE f[One(s)] + g[s \ {One(s)}]]
        = [s \in SUBSET S |-> IF s = {} THEN 0 ELSE one(One(s)) + g[s \ {One(s)}]]
    BY <2>1
  <2>4. QED
    BY <2>2, <2>3 DEF IsSums
<1>2. SumTo(n, LAMBDA l : IF trace[l].dir = "R" THEN 1 ELSE 0) = (CHOOSE g : Is(g))[S]
  BY DEF SumTo, MapThenSumSet, MapThenFoldSet, One
<1>3. DOMAIN f = S
  OBVIOUS
<1> HIDE DEF Is, S
<1>4. Sums(f) = CHOOSE g : Is(g)
  BY <1>1 DEF Sums
<1>5. QED
  BY <1>2, <1>3, <1>4, SumIs DEF ReadLines, S

LEMMA PlannedIsSum ==
  ASSUME NEW T
  PROVE  MapThenSumSet(LAMBDA t : LOOP * info[t].count, T) = Planned(T)
<1> DEFINE f == [t \in T |-> LOOP * info[t].count]
           Is(g) == g = [s \in SUBSET T |-> IF s = {} THEN 0
                                            ELSE LOOP * info[One(s)].count + g[s \ {One(s)}]]
<1>1. ASSUME NEW g PROVE IsSums(f, g) <=> Is(g)
  <2>1. \A s \in SUBSET T : s # {} => f[One(s)] = LOOP * info[One(s)].count
    BY DEF One
  <2>2. DOMAIN f = T
    OBVIOUS
  <2> HIDE DEF f
  <2>3. [s \in SUBSET T |-> IF s = {} THEN 0 ELSE f[One(s)] + g[s \ {One(s)}]]
        = [s \in SUBSET T |-> IF s = {} THEN 0 ELSE LOOP * info[One(s)].count + g[s \ {One(s)}]]
    BY <2>1
  <2>4. QED
    BY <2>2, <2>3 DEF IsSums
<1>2. MapThenSumSet(LAMBDA t : LOOP * info[t].count, T) = (CHOOSE g : Is(g))[T]
  BY DEF MapThenSumSet, MapThenFoldSet, One
<1>3. DOMAIN f = T
  OBVIOUS
<1> HIDE DEF Is
<1>4. Sums(f) = CHOOSE g : Is(g)
  BY <1>1 DEF Sums
<1>5. QED
  BY <1>2, <1>3, <1>4, SumIs DEF Planned

-----------------------------------------------------------------------------
(* The totals of every program, and why it fails.                          *)

LEMMA TotalsStart == Init => TotalsInv
<1> SUFFICES ASSUME Init PROVE TotalsInv
  OBVIOUS
<1>1. /\ mpc = "start" /\ cpc = "none" /\ Collector_endflag = FALSE
      /\ wpc = [t \in Threads |-> "none"] /\ i = [t \in Threads |-> 0]
      /\ IO_LatArray = NoLatency /\ ReadIO_LatArray = NoLatency
      /\ DATA_WRITTEN = 0 /\ DATA_READ = 0 /\ IOCOUNT = 0
      /\ len_cnt = 0 /\ iodir_cnt = 0
      /\ LOOP \in LOOPs /\ loop = [t \in Threads |-> 0]
  BY DEF Init, ReplayInit, SharedInit, CollectorInit, TraceInit, WorkerInit
<1>2. FlagInv
  BY <1>1 DEF FlagInv
<1>3. \A t \in Threads : wpc[t] = "none"
  BY <1>1
<1>4. AbortCauses
  BY <1>1 DEF AbortCauses
<1>5. BenchSums
  BY <1>1, <1>3 DEF BenchSums
<1>6. LOOP \in Nat \ {0}
  BY <1>1, LoopAssumption
<1>7. loop \in [Threads -> Nat]
  BY <1>1
<1>8. LoadSums
  BY <1>1, <1>3, <1>6, <1>7 DEF LoadSums
<1>9. IO_LatArray = i
  BY <1>1 DEF NoLatency
<1>10. Taking = NoLatency /\ Reading = NoLatency
  BY <1>3 DEF Taking, Reading, NoLatency
<1>11. ReplayCounts
  BY <1>1, <1>9, <1>10, NoSum DEF ReplayCounts
<1>12. ReplaySums
  BY <1>1, <1>3, <1>11, NoSum DEF ReplaySums
<1>13. QED
  BY <1>2, <1>4, <1>5, <1>8, <1>12 DEF TotalsInv

LEMMA TotalsStep ==
  SampleInv /\ ApartInv /\ DriverInv /\ TotalsInv /\ [Next]_vars => TotalsInv'
<1> SUFFICES ASSUME SampleInv, ApartInv, DriverInv, TotalsInv, [Next]_vars
             PROVE  TotalsInv'
  OBVIOUS
<1>1. program' = program /\ program \in TARGET /\ AbortCauses
  BY ProgramStays DEF DriverInv, TotalsInv
<1>2. CASE program \in TracePrograms
  <2>1. program \notin BenchPrograms /\ program \notin {"load", "bench"}
    BY <1>2 DEF TracePrograms, BenchPrograms
  <2>2. FlagInv /\ ReplaySums
    BY <1>2 DEF TotalsInv
  <2>3. FlagInv' /\ ReplaySums' /\ AbortCauses'
    BY <1>1, <1>2, <2>1, <2>2, FlagStep, ReplaySumsStep, ReplayAborts
  <2>4. QED
    BY <1>1, <2>1, <2>3 DEF TotalsInv
<1>3. CASE program = "load"
  <2>1. program \notin BenchPrograms /\ program \notin TracePrograms /\ program # "bench"
    BY <1>3 DEF TracePrograms, BenchPrograms
  <2>2. FlagInv /\ LoadSums /\ LoadPlaces /\ LoadCounts
    BY <1>3 DEF TotalsInv, ApartInv, DriverInv
  <2>3. FlagInv' /\ LoadSums' /\ AbortCauses'
    BY <1>1, <1>3, <2>1, <2>2, FlagStep, LoadSumsStep, LoadAborts
  <2>4. QED
    BY <1>1, <2>1, <2>3 DEF TotalsInv
<1>4. CASE program \in BenchPrograms
  <2>1. program # "load" /\ program \notin TracePrograms
    BY <1>4 DEF TracePrograms, BenchPrograms
  <2>2. BenchPlaces /\ BenchControl /\ (program = "bench" => BenchSums)
    BY <1>4 DEF TotalsInv, ApartInv, DriverInv
  <2>3. AbortCauses' /\ (program = "bench" => BenchSums')
    BY <1>1, <1>4, <2>2, BenchSumsStep, BenchAborts
  <2>4. QED
    BY <1>1, <2>1, <2>3 DEF TotalsInv
<1>5. program \in TracePrograms \cup BenchPrograms \cup {"load"}
  BY <1>1 DEF TARGET, TracePrograms, BenchPrograms
<1>6. QED
  BY <1>2, <1>3, <1>4, <1>5

LEMMA TotalsInvariant ==
  Spec => [](SampleInv /\ ApartInv /\ DriverInv /\ TotalsInv)
<1>1. SampleInv /\ ApartInv /\ DriverInv /\ TotalsInv /\ [Next]_vars => TotalsInv'
  BY TotalsStep
<1>2. QED
  BY <1>1, DriverInvariant, TotalsStart, PTL DEF Spec

LEMMA SumsAreTotals ==
  ASSUME SampleInv, ApartInv, DriverInv, TotalsInv
  PROVE  TotalsExact
<1>1. ReplayTotals
  <2> SUFFICES ASSUME mpc = "print", program \in TracePrograms
               PROVE  /\ totals.n = Count(trace) * NUM_THREADS
                      /\ totals.all = Count(trace) * NUM_THREADS
                      /\ Len(trace) - totals.n \in 0 .. NUM_THREADS - 1
                      /\ totals.w + totals.r
                           = SumTo(Count(trace) * NUM_THREADS, LAMBDA l : trace[l].len)
                      /\ program = "trace_st" =>
                           totals.read = SumTo(Count(trace) * NUM_THREADS,
                                     LAMBDA l : IF trace[l].dir = "R" THEN 1 ELSE 0)
    BY DEF ReplayTotals
  <2> DEFINE n == Count(trace) * NUM_THREADS
  <2>1. AllReported
    BY DEF TotalsInv, ReplaySums
  <2>2. n \in Nat
    <3>1. Count(trace) \in Nat
      BY ThreadsFinite DEF SampleInv, CursorInv, ReplayState
    <3>2. QED
      BY <3>1, ThreadsFinite
  <2> HIDE DEF n
  <2>3. /\ SumTo(n, LAMBDA l : trace[l].len) = Lengths(n)
        /\ SumTo(n, LAMBDA l : IF trace[l].dir = "R" THEN 1 ELSE 0) = ReadLines(n)
    BY <2>2, LengthsAreSum, ReadsAreSum
  <2>4. totals.n = n
    BY <2>1 DEF AllReported, AllServed, n
  <2>5. Len(trace) - n \in 0 .. NUM_THREADS - 1
    <3>1. Len(trace) \in Nat /\ NUM_THREADS \in Nat \ {0}
      BY ThreadsFinite DEF SampleInv, CursorInv, ReplayState
    <3> DEFINE q == Len(trace) \div NUM_THREADS
               r == Len(trace) % NUM_THREADS
    <3>2. q \in Nat /\ r \in 0 .. NUM_THREADS - 1
          /\ Len(trace) = NUM_THREADS * q + r
      BY <3>1, DivMod
    <3>3. n = q * NUM_THREADS
      BY DEF n, Count
    <3> HIDE DEF q, r
    <3>4. QED
      BY <3>1, <3>2, <3>3
  <2>6. QED
    BY <2>1, <2>3, <2>4, <2>5 DEF AllReported, AllServed, n
<1>2. LoadTotals
  <2> SUFFICES ASSUME mpc = "print", program = "load" PROVE LoadTotals
    BY DEF LoadTotals
  <2>1. PlanReported
    BY DEF TotalsInv, LoadSums
  <2>2. \A T : MapThenSumSet(LAMBDA t : LOOP * info[t].count, T) = Planned(T)
    BY PlannedIsSum
  <2> DEFINE done == {t \in Readers : ~is_degr_read[t]}
  <2>3. /\ MapThenSumSet(LAMBDA t : LOOP * info[t].count, Threads) = Planned(Threads)
        /\ MapThenSumSet(LAMBDA t : LOOP * info[t].count, Writers) = Planned(Writers)
        /\ MapThenSumSet(LAMBDA t : LOOP * info[t].count, done) = Planned(done)
        /\ MapThenSumSet(LAMBDA t : LOOP * info[t].count, Writers \cup done)
             = Planned(Writers \cup done)
    BY PlannedIsSum
  <2>4. QED
    BY <2>1, <2>3 DEF PlanReported, LoadTotals
<1>3. LatenciesOfTest
  <2> SUFFICES ASSUME mpc = "show", program = "bench"
               PROVE  merge(IO_LatArray) = NUM_THREADS * count * LOOP
    BY DEF LatenciesOfTest
  <2>1. BenchPlaces /\ BenchControl /\ BenchSums
    BY DEF ApartInv, DriverInv, TotalsInv, BenchPrograms
  <2>2. IO_LatArray = [t \in Threads |-> LOOP * count]
    BY <2>1 DEF BenchSums
  <2>3. count \in Nat /\ LOOP \in Nat
    <3>1. G_IOSIZE > 0 /\ LOOP \in Nat
      BY <2>1 DEF BenchControl, BenchState, NotStarted, Started
    <3>2. QED
      BY <2>1, <3>1, CountIsNumber
  <2>4. LOOP * count \in Nat /\ IO_LatArray \in [Threads -> Int]
        /\ \A t \in Threads : IO_LatArray[t] = LOOP * count
    BY <2>2, <2>3
  <2>5. SumFunction(IO_LatArray) = Cardinality(Threads) * (LOOP * count)
    BY <2>4, ThreadsFinite, SumOfEqual
  <2>6. \A a, b, c \in Nat : a * (b * c) = a * c * b
    OBVIOUS
  <2>7. QED
    BY <2>3, <2>5, <2>6, ThreadsFinite DEF merge
<1>4. QED
  BY <1>1, <1>2, <1>3 DEF TotalsExact

(* The totals the collector has taken when the threads have ended are      *)
(* those of the lines the workers served, fewer than the trace's by less   *)
(* than one for each worker, and of the requests of load's writers and of  *)
(* its readers; bench has a latency for every request of its test.         *)
THEOREM TotalsAreExact == Spec => []TotalsExact
  BY TotalsInvariant, SumsAreTotals, PTL

(* What a program that fails was given: a write and a line longer than the *)
(* table's slack for trace_st; a trace too short for a request each, with  *)
(* a place past the device, or with a line longer than the buffer, for the *)
(* MD replay; a size bench cannot use; settings of load that leave no      *)
(* request to its readers, or to its writers if it has no reader.          *)
THEOREM AbortsHaveCauses == Spec => []AbortCauses
<1>1. TotalsInv => AbortCauses
  BY DEF TotalsInv
<1>2. QED
  BY <1>1, TotalsInvariant, PTL

=============================================================================
