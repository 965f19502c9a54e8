------------------------------- MODULE MCSplit -------------------------------
(* Requests of whole blocks, at every block of the first stripes.          *)
EXTENDS Split

CONSTANTS MaxOff, MaxLen

BlockRequests ==
  {[off |-> o * BLK_SIZE, len |-> n * BLK_SIZE] :
     o \in 0 .. MaxOff, n \in 1 .. MaxLen}

=============================================================================
