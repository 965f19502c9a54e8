------------------------------ MODULE MCDrivers ------------------------------
EXTENDS FivePrograms

MCTraces ==
  LET R(o, n) == [dir |-> "R", off |-> o, len |-> n]
      W(o, n) == [dir |-> "W", off |-> o, len |-> n]
  IN  [p \in TracePrograms |->
        IF p = "trace_st"
        THEN << <<R(1, 1)>>,
                <<R(30, 3), W(3, 19), W(1, 9)>>,
                <<W(61, 1), W(2, 1), W(59, 1), W(9, 5), R(1, 1)>> >>
        ELSE << <<W(59, 1), R(2, 13)>>, <<R(3, 1)>> >>]
MCBuffers == [p \in TracePrograms |-> IF p = "trace_st" THEN 10 ELSE 6]
MCArguments == {[word |-> "FULLSIZE"], [word |-> "half"]}
               \cup [word : {"K"}, size : {3, 6, 10}]
Build(n, rand, wall, rall, l) ==
  [WRITE_THREAD |-> n, WRITE_MOD |-> rand, READ_MOD |-> rand,
   WRITE_ALL |-> wall, READ_ALL |-> rall, LOOP |-> l]
MCBuilds == {Build(0, FALSE, 4, 8, 1), Build(1, TRUE, 8, 4, 1),
             Build(1, FALSE, 4, 1, 3), Build(2, FALSE, 8, 2, 1),
             Build(2, FALSE, 4, 2, 1)}
             \cup {[Build(0, FALSE, 4, 8, 1) EXCEPT !.READ_MOD = TRUE]}
=============================================================================
