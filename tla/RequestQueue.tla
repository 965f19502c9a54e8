---------------------------- MODULE RequestQueue ----------------------------
(***************************************************************************)
(* What a user of a work queue relies on: requests of one user leave the   *)
(* queue in the order they were put, each to one worker, which serves it   *)
(* once.  Nothing is said of the order between users.                      *)
(***************************************************************************)
EXTENDS Naturals, Sequences

CONSTANTS Users, Workers, NoRequest

VARIABLES put,     \* per user: how many requests it has put
          queue,   \* per user: its requests in the queue
          hand,    \* per worker: the request it took
          served   \* the requests served

Init == /\ put = [u \in Users |-> 0]
        /\ queue = [u \in Users |-> <<>>]
        /\ hand = [w \in Workers |-> NoRequest]
        /\ served = {}

Put(u) == /\ put' = [put EXCEPT ![u] = @ + 1]
          /\ queue' = [queue EXCEPT ![u] = Append(@, <<u, put'[u]>>)]
          /\ UNCHANGED <<hand, served>>

Take(w, u) == /\ hand[w] = NoRequest /\ queue[u] # <<>>
              /\ hand' = [hand EXCEPT ![w] = Head(queue[u])]
              /\ queue' = [queue EXCEPT ![u] = Tail(@)]
              /\ UNCHANGED <<put, served>>

Serve(w) == /\ hand[w] # NoRequest /\ hand[w] \notin served
            /\ served' = served \cup {hand[w]}
            /\ hand' = [hand EXCEPT ![w] = NoRequest]
            /\ UNCHANGED <<put, queue>>

Next == \/ \E u \in Users : Put(u) \/ \E w \in Workers : Take(w, u)
        \/ \E w \in Workers : Serve(w)

Spec == Init /\ [][Next]_<<put, queue, hand, served>>

=============================================================================
