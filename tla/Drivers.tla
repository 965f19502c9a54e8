------------------------------- MODULE Drivers -------------------------------
(***************************************************************************)
(* What the five programs of the Makefile's TARGET share: main starts      *)
(* NUM_THREADS threads that issue requests in a loop, waits for them,      *)
(* reports and resets.  The modules TraceReplay (trace_st.cc, trace_md.cc),*)
(* Bench (bench.cc, main.cc) and Workload (load.cc) have the programs; one *)
(* run plays all of them, program says which.                              *)
(*                                                                         *)
(* A request is its offset, its length and its place in the thread's       *)
(* buffer: what StorageMod does with it is the subject of other modules.   *)
(* Times and printing are left out; a latency is that it was recorded.     *)
(***************************************************************************)
EXTENDS Layout, FiniteSets, Sequences, SequencesExt

CONSTANTS Programs,        \* the programs of TARGET the run plays
          NUM_THREADS,     \* also G_NUM_WORKERS and L_NUM_WORKERS
          BLK_SIZE,
          USER_SPACE_LEN,
          SLACK            \* entries of the stripe table past the space (100)

TARGET == {"main", "bench", "trace_md", "trace_st", "load"}

(* bench and main name five devices in the source.                         *)
Files(p) == IF p \in {"main", "bench"} THEN 5 ELSE NUM_DEVFILES

ASSUME DriversAssumption ==
  /\ Programs \subseteq TARGET
  /\ \A p \in Programs : NUM_DEVFILES <= Files(p)   \* assert in each main
  /\ NUM_THREADS \in Nat \ {0} /\ BLK_SIZE \in Nat \ {0}
  /\ USER_SPACE_LEN \in Nat \ {0} /\ SLACK \in Nat
  /\ SCHUNK_SIZE % BLK_SIZE = 0 /\ USER_SPACE_LEN % BLK_SIZE = 0

Threads == 0 .. NUM_THREADS - 1

o_align(off, align) == off - (off % align)

(* SSTable's constructor makes the entries 0 .. this.                      *)
LastEntry == USER_SPACE_LEN \div SSTRIPE_DATASIZE + SLACK

VARIABLES program,         \* never changes
          mpc,             \* where main is
          wpc, i,          \* per thread: where it is, its loop variable
          IO_LatArray,     \* latencies recorded, per thread: how many
          ReadIO_LatArray

program_vars == <<program, mpc>>
lat_vars == <<IO_LatArray, ReadIO_LatArray>>
shared_vars == <<program, mpc, wpc, i, IO_LatArray, ReadIO_LatArray>>

NoLatency == [t \in Threads |-> 0]

SharedInit ==
  /\ program \in Programs
  /\ mpc = "start"
  /\ wpc = [t \in Threads |-> "none"]
  /\ i = [t \in Threads |-> 0]
  /\ IO_LatArray = NoLatency /\ ReadIO_LatArray = NoLatency

(* merge_IOLat and merge_ReadIOLat: the number of latencies merged.        *)
merge(lat) == SumFunction(lat)

(* emplace_back of a latency.                                              *)
Recorded(lat, t) == [lat EXCEPT ![t] = @ + 1]

Main(l, m) == mpc = l /\ mpc' = m /\ UNCHANGED program
Worker(t, l, m) == wpc[t] = l /\ wpc' = [wpc EXCEPT ![t] = m]

(* main waits for every thread.                                            *)
Joined(threads) == \A t \in threads : wpc[t] = "ended"

Halted == mpc \in {"done", "aborted"}

=============================================================================
