----------------------------- MODULE StripeOwner -----------------------------
(***************************************************************************)
(* What the stripe state table promises, without threads' control flow:    *)
(* each stripe is handed out in turns.  In a turn the stripe is locked, an *)
(* owner is named, the stripe is opened to joiners, it is frozen, the      *)
(* owner is withdrawn, and it is unlocked, in this order; freezing and     *)
(* withdrawing happen to an owned stripe only, so that whoever sees an     *)
(* open stripe with an owner may hand that owner work.                     *)
(***************************************************************************)
CONSTANTS Stripes, Threads, NoThread

VARIABLES lock, owner, frozen

vars == <<lock, owner, frozen>>

Init == /\ lock = [s \in Stripes |-> FALSE]
        /\ owner = [s \in Stripes |-> NoThread]
        /\ frozen = [s \in Stripes |-> FALSE]

Take(s) == /\ ~lock[s] /\ owner[s] = NoThread
           /\ lock' = [lock EXCEPT ![s] = TRUE]
           /\ UNCHANGED <<owner, frozen>>

Claim(s, t) == /\ lock[s] /\ owner[s] = NoThread
               /\ owner' = [owner EXCEPT ![s] = t]
               /\ UNCHANGED <<lock, frozen>>

Open(s) == /\ lock[s] /\ owner[s] # NoThread
           /\ frozen' = [frozen EXCEPT ![s] = FALSE]
           /\ UNCHANGED <<lock, owner>>

Freeze(s) == /\ lock[s] /\ owner[s] # NoThread /\ ~frozen[s]
             /\ frozen' = [frozen EXCEPT ![s] = TRUE]
             /\ UNCHANGED <<lock, owner>>

Withdraw(s) == /\ lock[s] /\ owner[s] # NoThread /\ frozen[s]
               /\ owner' = [owner EXCEPT ![s] = NoThread]
               /\ UNCHANGED <<lock, frozen>>

GiveBack(s) == /\ lock[s] /\ owner[s] = NoThread /\ frozen[s]
               /\ lock' = [lock EXCEPT ![s] = FALSE]
               /\ UNCHANGED <<owner, frozen>>

Next == \E s \in Stripes :
          \/ Take(s) \/ Open(s) \/ Freeze(s) \/ Withdraw(s) \/ GiveBack(s)
          \/ \E t \in Threads : Claim(s, t)

Spec == Init /\ [][Next]_vars

=============================================================================
