----------------------------- MODULE MCUserQueue -----------------------------
EXTENDS UserQueue, TLC

CONSTANTS u1, u2, w1, w2, b1, b2, b3, b4

(* One of the user that comes second, and a late one of the other.         *)
MCLongWrites == {<<u2, 1>>, <<u1, 5>>}

MCHash == [a \in {u1, u2, w1, w2} |-> 0]
S(T, r1, r2, i, b, e) ==
  [threads |-> T, idle |-> i, blocks |-> b, entries |-> e,
   requests |-> [u \in Users |-> IF u = u1 THEN r1 ELSE r2]]
MCSetups == {S({u1, u2, w1}, 2, 1, 0, 2, 2), S({u1, u2, w1}, 3, 1, 0, 1, 2),
             S({u1, w1}, 6, 0, 1, 2, 2), S({u1, w1}, 5, 0, 2, 3, 2),
             S({u1, w1}, 7, 0, 2, 3, 4), S({u1, w1, w2}, 3, 0, 1, 2, 2)}
=============================================================================
