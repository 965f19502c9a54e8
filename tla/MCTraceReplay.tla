---------------------------- MODULE MCTraceReplay ----------------------------
(* The replay alone, on one trace of lines unlike one another, one of them *)
(* at the end of the user space.                                           *)
EXTENDS TraceReplay

OneTrace ==
  [p \in TracePrograms |->
    << << [dir |-> "W", off |-> 45, len |-> 1], [dir |-> "R", off |-> 8, len |-> 3],
          [dir |-> "W", off |-> 2, len |-> 1] >> >>]
OneMB == [p \in TracePrograms |-> 10]

=============================================================================
