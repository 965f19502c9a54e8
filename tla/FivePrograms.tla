---------------------------- MODULE FivePrograms ----------------------------
(***************************************************************************)
(* The five programs in one specification: each starts in its own initial  *)
(* states and leaves the variables of the others alone.                    *)
(***************************************************************************)
EXTENDS TraceReplay, Bench, Workload

vars == <<shared_vars, collector_vars, trace_vars, LOOP, worker_vars, bench_own,
          load_own>>

(* Builds that differ in what their program does not use are one: the      *)
(* replays have no LOOP, and only load has the settings of workerl.h.      *)
Settings ==
  /\ program \in TracePrograms => LOOP = 1
  /\ program # "load" => build = CHOOSE b \in Builds : TRUE

Init == /\ ReplayInit /\ WorkerInit /\ BenchInit /\ LoadInit
        /\ Settings

Main_p == \/ ReplayMain /\ UNCHANGED <<LOOP, worker_vars, bench_own, load_own>>
          \/ BenchMain /\ UNCHANGED <<collector_vars, trace_vars, load_own>>
          \/ LoadMain /\ UNCHANGED <<trace_vars, bench_own>>

Thread_p(t) ==
  \/ /\ worker_run(t) \/ worker_fails(t)
     /\ UNCHANGED <<LOOP, worker_vars, bench_own, load_own>>
  \/ BenchThread(t) /\ UNCHANGED <<collector_vars, trace_vars, load_own>>
  \/ self_thread_worker(t) /\ UNCHANGED <<trace_vars, bench_own>>

Collector_p ==
  \/ /\ program # "load" /\ ReplayCollector
     /\ UNCHANGED <<LOOP, worker_vars, bench_own, load_own>>
  \/ program = "load" /\ LoadCollector /\ UNCHANGED <<trace_vars, bench_own>>

Next == Main_p \/ (\E t \in Threads : Thread_p(t)) \/ Collector_p
        \/ (Halted /\ UNCHANGED vars)

Spec == Init /\ [][Next]_vars

(* The scheduler runs every thread.                                        *)
FairSpec == /\ Spec
            /\ WF_vars(Main_p) /\ WF_vars(Collector_p)
            /\ \A t \in Threads : WF_vars(Thread_p(t))

-----------------------------------------------------------------------------
(* Properties.                                                             *)

(* The totals the collector takes, and the latencies bench has at the end  *)
(* of a test, are those of the requests of the run, or of the test, and of *)
(* no other, whatever the interleaving: the trace's lines, the settings of *)
(* load, the requests of bench's test.                                     *)
TotalsExact == ReplayTotals /\ LoadTotals /\ LatenciesOfTest

(* Threads keep to places of their own, although the starts of their parts *)
(* are rounded down to a request and the requests up to blocks: the random *)
(* readers of bench, and the threads of one direction of load, except      *)
(* sequential writers, who share a counter.                                *)
ThreadsApart == ReadersApart /\ LoadApart

(* The table has an entry for every stripe of every request of bench, main *)
(* and load, and of every request of a replay that is no longer than the   *)
(* slack, at the end of the user space too (assert in search_SST).         *)
InTable == ReplayInTable /\ BenchInTable /\ LoadInTable

(* A request of trace_st lies in the buffer of the thread that serves it:  *)
(* the parser, which decides before it knows of which lines a request is   *)
(* made, skips what is longer.  So does one of bench and main, which start *)
(* again in every loop, when its size is a whole number of blocks.         *)
InBuffer == ReplayInBuffer /\ BenchInBuffer

(* Every program ends, whatever it is given: nobody waits for a thread     *)
(* that waits for the flag.                                                *)
DriversEnd == <>Halted

(* What a program aborts for.  trace_st: a write, with a line longer than  *)
(* the slack of the stripe table.  trace_md: no request for each worker, a *)
(* line past the end of the device, or one longer than the buffer.  bench: *)
(* no size, or one of more than half a thread's part of the dataset.       *)
(* load: every reader is without requests or takes its reads for degraded, *)
(* or, built without readers, is to write less than a request each.  main: *)
(* nothing.  (A full batch queue is the subject of StripeWrite.)           *)
AbortCauses ==
  mpc = "aborted" =>
    LET lines == 1 .. Len(trace) IN
    CASE program = "trace_st" ->
           /\ \E k \in lines : trace[k].dir = "W"
           /\ \E k \in lines : trace[k].len > SLACK * SSTRIPE_DATASIZE
      [] program = "trace_md" ->
           \/ Count(trace) = 0
           \/ \E k, l \in lines : Fit(trace[k].off) + trace[l].len > MD_LEN
           \/ \E k \in lines : trace[k].len > BufferMBs[program] * MB
      [] program = "bench"    -> G_IOSIZE = 0 \/ 2 * Rounded(G_IOSIZE) > Part
      [] program = "load"     ->
           /\ Readers # {} => \A t \in Readers : is_degr_read[t] \/ info[t].count = 0
           /\ Readers = {} => \A t \in Writers : info[t].count = 0
      [] OTHER                -> FALSE

=============================================================================
