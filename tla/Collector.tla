------------------------------ MODULE Collector ------------------------------
(***************************************************************************)
(* The collector thread of trace_st.cc, trace_md.cc and load.cc: it        *)
(* samples the counters the workers advance until main raises the end      *)
(* flag, then merges the latencies and takes the totals.  Each load of a   *)
(* counter or of the flag is a step.  The samples appended to the vectors  *)
(* of an item are kept as their sums: w, r, a and n for WBand, RBand, Band *)
(* and IOPS_persec.                                                        *)
(***************************************************************************)
EXTENDS Drivers

VARIABLES
  DATA_WRITTEN, DATA_READ, IOCOUNT,  \* G_ in trace_*.cc, L_ in load.cc
  Collector_endflag,                 \* LCollector_endflag in load.cc
  cpc, now, last, first,             \* the thread: loads, now_* and last_*
  sums, totals                       \* the item: samples, totals

counters == <<DATA_WRITTEN, DATA_READ, IOCOUNT>>
item == <<sums, totals>>
collector_vars == <<counters, Collector_endflag, cpc, now, last, first, item>>

Zero == [w |-> 0, r |-> 0, n |-> 0]
NoSums == [w |-> 0, r |-> 0, a |-> 0, n |-> 0]
NoTotals == [w |-> 0, r |-> 0, n |-> 0, all |-> 0, read |-> 0]

ResetCounters == DATA_WRITTEN' = 0 /\ DATA_READ' = 0 /\ IOCOUNT' = 0
NewItem == sums' = NoSums /\ totals' = NoTotals
ClearLats == IO_LatArray' = NoLatency /\ ReadIO_LatArray' = NoLatency

CollectorInit ==
  /\ DATA_WRITTEN = 0 /\ DATA_READ = 0 /\ IOCOUNT = 0
  /\ Collector_endflag = FALSE
  /\ cpc = "none" /\ now = Zero /\ last = Zero /\ first = Zero
  /\ sums = NoSums /\ totals = NoTotals

-----------------------------------------------------------------------------
(* main                                                                    *)

StartCollector ==
  /\ Main("collect", "join")
  /\ cpc' = "firstw"
  /\ UNCHANGED <<wpc, i, lat_vars, counters, Collector_endflag, now, last,
                 first, item>>

(* A mistake: the flag is not raised.                                      *)
JoinWorkers_NoFlag ==
  /\ Main("join", "joincollector")
  /\ Joined(Threads)
  /\ wpc' = [t \in Threads |-> "none"] /\ i' = [t \in Threads |-> 0]
  /\ UNCHANGED <<lat_vars, counters, Collector_endflag, cpc, now, last, first,
                 item>>

(* The workers are joined, then the collector is told to end.              *)
JoinWorkers ==
  /\ Main("join", "joincollector")
  /\ Joined(Threads)
  /\ wpc' = [t \in Threads |-> "none"] /\ i' = [t \in Threads |-> 0]
  /\ Collector_endflag' = TRUE
  /\ UNCHANGED <<lat_vars, counters, cpc, now, last, first, item>>

JoinCollector ==
  /\ cpc = "ended" /\ Main("joincollector", "print")
  /\ cpc' = "none"
  /\ UNCHANGED <<wpc, i, lat_vars, counters, Collector_endflag, now, last,
                 first, item>>

-----------------------------------------------------------------------------
(* collector_run                                                           *)

Load(l, f, v, m) == cpc = l /\ now' = [now EXCEPT ![f] = v] /\ cpc' = m

LoadFirst ==
  /\ \/ Load("firstw", "w", DATA_WRITTEN, "firstr") /\ UNCHANGED <<last, first>>
     \/ Load("firstr", "r", DATA_READ, "firstn") /\ UNCHANGED <<last, first>>
     \/ Load("firstn", "n", IOCOUNT, "flag") /\ last' = now' /\ first' = now'
  /\ UNCHANGED item

(* The loop's condition, and the sleep.                                    *)
CheckFlag ==
  /\ cpc = "flag"
  /\ cpc' = IF Collector_endflag THEN "totals" ELSE "w"
  /\ UNCHANGED <<now, last, first, item>>

LoadCounter ==
  /\ \/ Load("w", "w", DATA_WRITTEN, "r")
     \/ Load("r", "r", DATA_READ, "n")
     \/ Load("n", "n", IOCOUNT, "sample")
  /\ UNCHANGED <<last, first, item>>

Grown(f) == IF f = "a" THEN now.w - last.w + now.r - last.r ELSE now[f] - last[f]

(* A mistake: last_* are not brought up to date.                           *)
Sample_Forgetful(fields) ==
  /\ cpc = "sample" /\ cpc' = "flag"
  /\ sums' = [f \in DOMAIN sums |->
                IF f \in fields THEN sums[f] + Grown(f) ELSE sums[f]]
  /\ UNCHANGED <<now, last, first, totals>>

Sample(fields) ==
  /\ cpc = "sample" /\ cpc' = "flag"
  /\ sums' = [f \in DOMAIN sums |->
                IF f \in fields THEN sums[f] + Grown(f) ELSE sums[f]]
  /\ last' = now
  /\ UNCHANGED <<now, first, totals>>

Totals(reads) ==
  /\ cpc = "totals" /\ cpc' = "ended"
  /\ totals' = [w |-> DATA_WRITTEN, r |-> DATA_READ, n |-> IOCOUNT,
                all |-> merge(IO_LatArray),
                read |-> IF reads THEN merge(ReadIO_LatArray) ELSE 0]
  /\ UNCHANGED <<now, last, first, sums>>

collector_run(fields, reads) ==
  /\ LoadFirst \/ CheckFlag \/ LoadCounter \/ Sample(fields) \/ Totals(reads)
  /\ UNCHANGED <<shared_vars, counters, Collector_endflag>>

(* trace_md keeps neither a band of reads nor their latencies.             *)
Fields(p) == IF p = "trace_md" THEN {"w", "a", "n"} ELSE {"w", "r", "a", "n"}

collector_run_st == program = "trace_st" /\ collector_run(Fields(program), TRUE)
collector_run_md == program = "trace_md" /\ collector_run(Fields(program), FALSE)
collector_run_load == program = "load" /\ collector_run(Fields(program), TRUE)

CollectorStep == collector_run_st \/ collector_run_md \/ collector_run_load

-----------------------------------------------------------------------------
(* The samples of the collector add up: together they are what the         *)
(* counters have grown by between its first load and its last, no more     *)
(* than there is, although the counters move between its loads.            *)
SamplesAddUp ==
  cpc \in {"flag", "totals", "ended"} =>
    /\ \A f \in Fields(program) \ {"a"} : sums[f] = last[f] - first[f]
    /\ sums.a = last.w - first.w + last.r - first.r
    /\ last.w <= DATA_WRITTEN /\ last.r <= DATA_READ /\ last.n <= IOCOUNT

=============================================================================
