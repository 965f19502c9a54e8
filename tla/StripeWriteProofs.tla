-------------------------- MODULE StripeWriteProofs --------------------------
(***************************************************************************)
(* Proofs about StripeWrite for any number of threads, stripes, slots and  *)
(* requests.  The order is: types; mutual exclusion on the SST entries     *)
(* with the owner tag (OwnerInv is the strengthening that makes OwnerTagged *)
(* inductive); and, when requests stay within a stripe, that the entry a   *)
(* thread locks is the stripe it writes, whence PieceExclusive, the        *)
(* refinement of StripeOwner, and that no two threads have writes of their *)
(* own data to the same cell in flight.  A thread has writes in flight     *)
(* only while it waits for them, under its lock; those of its own piece    *)
(* lie in the stripe of the piece; what it writes for followers is tagged  *)
(* with their names, because nobody is a follower of itself.  The second   *)
(* part is about the batch queues.                                         *)
(***************************************************************************)
EXTENDS StripeWrite, LayoutProofs, FiniteSetTheorems

Locals == Holding \union Putting \union Waiting

(* A request has at least one piece.                                       *)
LEMMA PiecesPositive ==
  ASSUME NEW r \in Requests
  PROVE  NumPieces(r) \in Nat \ {0}
<1>1. /\ r.off \in Nat /\ r.off + r.len - 1 \in Nat
      /\ r.off <= r.off + r.len - 1
  BY WriteAssumption
<1>2. /\ user2stripe(r.off) \in Nat /\ user2stripe(r.off + r.len - 1) \in Nat
      /\ user2stripe(r.off) <= user2stripe(r.off + r.len - 1)
  BY <1>1, StripeMonotone
<1>3. QED
  BY <1>2 DEF NumPieces

(* search_SST finds the entry a thread locks.                              *)
LEMMA EntryInTable ==
  ASSUME TypeOK, NEW t \in Threads
  PROVE  Entry(t) \in Stripes
  BY WriteAssumption DEF TypeOK, Entry

(* Moving past a piece keeps the types (Handled: while (!handled) ends).   *)
LEMMA HandledTypes ==
  ASSUME TypeOK, NEW t \in Threads, pc[t] # "idle", Handled(t)
  PROVE  /\ pc' \in [Threads -> Locals] /\ uio' = uio
         /\ io_count' \in [Threads -> 0 .. MaxIO]
         /\ ck' \in [Threads -> Nat]
         /\ \A u \in Threads : /\ ck'[u] < NumPieces(uio[u])
                               /\ pc'[u] = "idle" => ck'[u] = 0
                               /\ pc'[u] # "idle" => io_count'[u] < MaxIO
         /\ pc'[t] \in {"trylock", "idle"}
         /\ \A u \in Threads \ {t} : pc'[u] = pc[u]
<1>1. \A u \in Threads : NumPieces(uio[u]) \in Nat \ {0}
  BY PiecesPositive DEF TypeOK
<1>2. MaxIO \in Nat
  BY WriteAssumption
<1>3. CASE ck[t] < NumPieces(uio[t]) - 1
  <2>1. /\ ck' = [ck EXCEPT ![t] = @ + 1] /\ pc' = [pc EXCEPT ![t] = "trylock"]
        /\ uio' = uio /\ io_count' = io_count
    BY <1>3 DEF Handled, Goto
  <2>2. QED
    BY <1>1, <1>2, <1>3, <2>1 DEF TypeOK, Locals, Waiting
<1>4. CASE ~(ck[t] < NumPieces(uio[t]) - 1)
  <2>1. /\ ck' = [ck EXCEPT ![t] = 0] /\ pc' = [pc EXCEPT ![t] = "idle"]
        /\ uio' = uio /\ io_count' = [io_count EXCEPT ![t] = @ + 1]
    BY <1>4 DEF Handled, Goto
  <2>2. io_count[t] + 1 \in 0 .. MaxIO
    BY <1>2 DEF TypeOK
  <2>3. QED
    BY <1>1, <1>2, <2>1, <2>2 DEF TypeOK, Locals, Waiting
<1>5. QED
  BY <1>3, <1>4

(* TypeOK is inductive on its own.                                         *)
LEMMA TypeStep ==
  ASSUME TypeOK, [Next]_vars
  PROVE  TypeOK'
<1> USE DEF TypeOK, Holding, Putting, Waiting, Goto
<1>1. CASE UNCHANGED vars
  BY <1>1 DEF vars, sst, queues, request, follower, leader, history
<1>2. ASSUME NEW t \in Threads, Step(t)
      PROVE  TypeOK'
  <2> USE DEF sst, queues, request, follower, leader, history
  <2>1. CASE Issue(t)
    <3>1. PICK r \in Requests : uio' = [uio EXCEPT ![t] = r]
      BY <2>1 DEF Issue
    <3>2. NumPieces(r) \in Nat \ {0}
      BY PiecesPositive
    <3>3. QED
      BY <2>1, <3>1, <3>2 DEF Issue
  <2>2. CASE LockStripe(t)
    BY <2>2 DEF LockStripe
  <2>3. CASE LockBusy(t)
    BY <2>3 DEF LockBusy
  <2>4. CASE SetOwner(t)
    BY <2>4 DEF SetOwner
  <2>5. CASE Thaw(t)
    BY <2>5 DEF Thaw
  <2>6. CASE Freeze(t)
    BY <2>6 DEF Freeze
  <2>7. CASE LoadQueueLen(t)
    BY <2>7 DEF LoadQueueLen
  <2>8. CASE CopyBatch(t)
    BY <2>8 DEF CopyBatch
  <2>9. CASE ResetQueueLen(t)
    BY <2>9 DEF ResetQueueLen
  <2>10. CASE Submit(t)
    BY <2>10 DEF Submit
  <2>11. CASE AwaitIO(t)
    BY <2>11 DEF AwaitIO
  <2>12. CASE ClearOwner(t)
    BY <2>12 DEF ClearOwner
  <2>13. CASE Unlock(t)
    BY <2>13, HandledTypes DEF Unlock, Locals
  <2>14. CASE CheckFrozen(t)
    BY <2>14 DEF CheckFrozen
  <2>15. CASE LoadWid(t)
    <3>1. CASE SSTthreadid[Entry(t)] = NoThread
      BY <2>15, <3>1 DEF LoadWid
    <3>2. CASE SSTthreadid[Entry(t)] # NoThread
      <4>1. SSTthreadid[Entry(t)] \in Threads
        BY <3>2, EntryInTable
      <4>2. QED
        BY <2>15, <3>2, <4>1 DEF LoadWid
    <3>3. QED
      BY <3>1, <3>2
  <2>16. CASE RecheckFrozen(t)
    BY <2>16 DEF RecheckFrozen
  <2>17. CASE Reserve(t)
    <3>1. /\ wid[t] \in Threads
          /\ inqueue_data_len' = [inqueue_data_len EXCEPT ![wid[t]] = @ + 1]
      BY <2>17 DEF Reserve
    <3>2. inqueue_data_len' \in [Threads -> Nat]
      BY <3>1
    <3>3. CASE inqueue_data_len[wid[t]] >= QUEUE_LEN
      BY <2>17, <3>1, <3>2, <3>3 DEF Reserve
    <3>4. CASE ~(inqueue_data_len[wid[t]] >= QUEUE_LEN)
      <4>1. /\ pc' = [pc EXCEPT ![t] = "put"] /\ UNCHANGED <<wid, aborted>>
            /\ pc[t] = "reserve"
        BY <2>17, <3>4 DEF Reserve
      <4>2. QED
        BY <2>17, <3>1, <3>2, <4>1 DEF Reserve
    <3>5. QED
      BY <3>3, <3>4
  <2>18. CASE Put(t)
    BY <2>18 DEF Put, Pending
  <2>19. CASE WaitUnlock(t)
    BY <2>19, HandledTypes DEF WaitUnlock, Locals
  <2>20. QED
    BY <1>2, <2>1, <2>2, <2>3, <2>4, <2>5, <2>6, <2>7, <2>8, <2>9, <2>10,
       <2>11, <2>12, <2>13, <2>14, <2>15, <2>16, <2>17, <2>18, <2>19 DEF Step
<1>3. ASSUME NEW t \in Threads, CompleteIO(t)
      PROVE  TypeOK'
  BY <1>3 DEF CompleteIO, sst, queues, request, follower
<1>4. QED
  BY <1>1, <1>2, <1>3 DEF Next, Terminating

(* Type correctness of the write path.                                     *)
THEOREM TypeCorrect == Spec => []TypeOK
<1>1. Init => TypeOK
  <2> SUFFICES ASSUME Init PROVE TypeOK
    OBVIOUS
  <2> DEFINE r0 == CHOOSE r \in Requests : TRUE
  <2>1. r0 \in Requests
    BY WriteAssumption
  <2>2. /\ ck = [t \in Threads |-> 0] /\ pc = [t \in Threads |-> "idle"]
        /\ uio = [t \in Threads |-> r0]
    BY DEF Init
  <2> HIDE DEF r0
  <2>3. NumPieces(r0) \in Nat \ {0}
    BY <2>1, PiecesPositive
  <2>4. /\ uio \in [Threads -> Requests]
        /\ \A t \in Threads : ck[t] < NumPieces(uio[t])
    BY <2>1, <2>2, <2>3
  <2>5. 0 \in 0 .. MaxIO
    BY WriteAssumption
  <2>6. /\ pc \in [Threads -> Holding \union Putting \union Waiting]
        /\ io_count \in [Threads -> 0 .. MaxIO]
    BY <2>5 DEF Init, Waiting
  <2>7. /\ stripe_lock \in [Stripes -> BOOLEAN]
        /\ SSTthreadid \in [Stripes -> Threads \union {NoThread}]
        /\ is_frozen \in [Stripes -> BOOLEAN]
        /\ inqueue_data_len \in [Threads -> Nat]
        /\ ck \in [Threads -> Nat]
        /\ wid \in [Threads -> Threads \union {NoThread}]
        /\ aborted \in BOOLEAN
    BY DEF Init
  <2>8. QED
    BY <2>2, <2>4, <2>6, <2>7 DEF TypeOK, Putting
<1>2. QED
  BY <1>1, TypeStep, PTL DEF Spec

-----------------------------------------------------------------------------
(* Mutual exclusion and the owner tag.                                     *)

(* Where a leader's name is in the SST entry it holds.                     *)
Named == Holding \ {"setowner", "unlock"}

(* The owner tag names a thread that holds the entry, and a holder whose   *)
(* tag should be there finds it.                                           *)
OwnerInv ==
  /\ \A t \in Threads : pc[t] \in Named => SSTthreadid[Entry(t)] = t
  /\ \A s \in Stripes : SSTthreadid[s] # NoThread =>
       /\ SSTthreadid[s] \in Threads
       /\ pc[SSTthreadid[s]] \in Named
       /\ Entry(SSTthreadid[s]) = s

WriteInv == TypeOK /\ LockExclusive /\ OwnerInv

(* A step that takes or gives back no entry and touches no owner tag.      *)
Quiet ==
  /\ UNCHANGED <<stripe_lock, SSTthreadid>>
  /\ \A u \in Threads : /\ pc'[u] \in Holding <=> pc[u] \in Holding
                        /\ pc'[u] \in Named <=> pc[u] \in Named
                        /\ pc[u] \in Holding => uio'[u] = uio[u]

(* Every action but the four on the entry's lock and owner is quiet.       *)
LEMMA QuietActions ==
  ASSUME TypeOK, NEW t \in Threads,
         Step(t),
         ~LockStripe(t), ~SetOwner(t), ~ClearOwner(t), ~Unlock(t)
  PROVE  Quiet
<1> USE DEF Quiet, Named, Holding, Putting, Goto, TypeOK, sst, queues, request
<1>1. CASE Issue(t)
  BY <1>1 DEF Issue
<1>2. CASE LockBusy(t)
  BY <1>2 DEF LockBusy
<1>3. CASE Thaw(t)
  BY <1>3 DEF Thaw
<1>4. CASE Freeze(t)
  BY <1>4 DEF Freeze
<1>5. CASE LoadQueueLen(t)
  BY <1>5 DEF LoadQueueLen
<1>6. CASE CopyBatch(t)
  BY <1>6 DEF CopyBatch
<1>7. CASE ResetQueueLen(t)
  BY <1>7 DEF ResetQueueLen
<1>8. CASE Submit(t)
  BY <1>8 DEF Submit
<1>9. CASE AwaitIO(t)
  BY <1>9 DEF AwaitIO
<1>10. CASE CheckFrozen(t)
  BY <1>10 DEF CheckFrozen
<1>11. CASE LoadWid(t)
  BY <1>11 DEF LoadWid
<1>12. CASE RecheckFrozen(t)
  BY <1>12 DEF RecheckFrozen
<1>13. CASE Reserve(t)
  BY <1>13 DEF Reserve
<1>14. CASE Put(t)
  BY <1>14 DEF Put, Pending
<1>15. CASE WaitUnlock(t)
  BY <1>15, HandledTypes DEF WaitUnlock
<1>16. QED
  BY <1>1, <1>2, <1>3, <1>4, <1>5, <1>6, <1>7, <1>8, <1>9, <1>10, <1>11,
     <1>12, <1>13, <1>14, <1>15 DEF Step

LEMMA QuietPreserves ==
  ASSUME LockExclusive, OwnerInv, Quiet
  PROVE  LockExclusive' /\ OwnerInv'
<1>1. Named \subseteq Holding
  BY DEF Named
<1>2. \A u \in Threads : pc[u] \in Holding => Entry(u)' = Entry(u)
  BY DEF Quiet, Entry
<1>3. \A u \in Threads, s \in Stripes : Holds(u, s)' <=> Holds(u, s)
  BY <1>2 DEF Quiet, Holds
<1>4. LockExclusive'
  BY <1>3 DEF LockExclusive, Quiet
<1>5. OwnerInv'
  BY <1>1, <1>2 DEF OwnerInv, Quiet
<1>6. QED
  BY <1>4, <1>5

(* The compare-and-swap succeeds on an entry that nobody holds.            *)
LEMMA LockStripeStep ==
  ASSUME WriteInv, NEW t \in Threads, LockStripe(t)
  PROVE  LockExclusive' /\ OwnerInv'
<1> USE DEF WriteInv, TypeOK
<1>1. /\ pc[t] = "trylock" /\ Entry(t) \in Stripes /\ ~stripe_lock[Entry(t)]
      /\ stripe_lock' = [stripe_lock EXCEPT ![Entry(t)] = TRUE]
      /\ pc' = [pc EXCEPT ![t] = "setowner"]
      /\ uio' = uio /\ SSTthreadid' = SSTthreadid
  BY EntryInTable DEF LockStripe, Goto, request
<1>2. \A u \in Threads : Entry(u)' = Entry(u)
  BY <1>1 DEF Entry
<1>3. \A u \in Threads, s \in Stripes :
        Holds(u, s)' <=> Holds(u, s) \/ (u = t /\ s = Entry(t))
  BY <1>1, <1>2 DEF Holds, Holding
<1>4. LockExclusive'
  BY <1>1, <1>3 DEF LockExclusive
<1>5. \A u \in Threads : pc'[u] \in Named <=> pc[u] \in Named
  BY <1>1 DEF Named, Holding
<1>6. OwnerInv'
  BY <1>1, <1>2, <1>5 DEF OwnerInv
<1>7. QED
  BY <1>4, <1>6

(* The leader writes its name into the entry it holds.                     *)
LEMMA SetOwnerStep ==
  ASSUME WriteInv, NEW t \in Threads, SetOwner(t)
  PROVE  LockExclusive' /\ OwnerInv'
<1> USE DEF WriteInv, TypeOK
<1>1. /\ pc[t] = "setowner" /\ Entry(t) \in Stripes /\ Holds(t, Entry(t))
      /\ SSTthreadid' = [SSTthreadid EXCEPT ![Entry(t)] = t]
      /\ pc' = [pc EXCEPT ![t] = "thaw"]
      /\ uio' = uio /\ stripe_lock' = stripe_lock
  BY EntryInTable DEF SetOwner, Goto, request, Holds, Holding
<1>2. \A u \in Threads : Entry(u)' = Entry(u)
  BY <1>1 DEF Entry
<1>3. \A u \in Threads, s \in Stripes : Holds(u, s)' <=> Holds(u, s)
  BY <1>1, <1>2 DEF Holds, Holding
<1>4. LockExclusive'
  BY <1>1, <1>3 DEF LockExclusive
<1>5. \A u \in Threads : pc'[u] \in Named <=> pc[u] \in Named \/ u = t
  BY <1>1 DEF Named, Holding
<1>6. \A u \in Threads : u # t /\ pc[u] \in Named => Entry(u) # Entry(t)
  BY <1>1 DEF LockExclusive, Holds, Named
<1>7. NoThread \notin Threads
  BY WriteAssumption
<1>8. OwnerInv'
  BY <1>1, <1>2, <1>5, <1>6, <1>7 DEF OwnerInv
<1>9. QED
  BY <1>4, <1>8

(* It takes the name away before it unlocks.                               *)
LEMMA ClearOwnerStep ==
  ASSUME WriteInv, NEW t \in Threads, ClearOwner(t)
  PROVE  LockExclusive' /\ OwnerInv'
<1> USE DEF WriteInv, TypeOK
<1>1. /\ pc[t] = "clearowner" /\ Entry(t) \in Stripes /\ Holds(t, Entry(t))
      /\ SSTthreadid' = [SSTthreadid EXCEPT ![Entry(t)] = NoThread]
      /\ pc' = [pc EXCEPT ![t] = "unlock"]
      /\ uio' = uio /\ stripe_lock' = stripe_lock
  BY EntryInTable DEF ClearOwner, Goto, request, Holds, Holding
<1>2. \A u \in Threads : Entry(u)' = Entry(u)
  BY <1>1 DEF Entry
<1>3. \A u \in Threads, s \in Stripes : Holds(u, s)' <=> Holds(u, s)
  BY <1>1, <1>2 DEF Holds, Holding
<1>4. LockExclusive'
  BY <1>1, <1>3 DEF LockExclusive
<1>5. \A u \in Threads : pc'[u] \in Named <=> pc[u] \in Named /\ u # t
  BY <1>1 DEF Named, Holding
<1>6. \A u \in Threads : u # t /\ pc[u] \in Named => Entry(u) # Entry(t)
  BY <1>1 DEF LockExclusive, Holds, Named
<1>7. SSTthreadid[Entry(t)] = t
  BY <1>1 DEF OwnerInv, Named, Holding
<1>8. OwnerInv'
  BY <1>1, <1>2, <1>5, <1>6, <1>7 DEF OwnerInv
<1>9. QED
  BY <1>4, <1>8

(* The unlock gives back an entry that carries no name.                    *)
LEMMA UnlockStep ==
  ASSUME WriteInv, NEW t \in Threads, Unlock(t)
  PROVE  LockExclusive' /\ OwnerInv'
<1> USE DEF WriteInv
<1>1. /\ pc[t] = "unlock" /\ Entry(t) \in Stripes /\ Holds(t, Entry(t))
      /\ stripe_lock \in [Stripes -> BOOLEAN]
      /\ stripe_lock' = [stripe_lock EXCEPT ![Entry(t)] = FALSE]
      /\ SSTthreadid' = SSTthreadid
      /\ pc'[t] \in {"trylock", "idle"} /\ uio' = uio
      /\ \A u \in Threads \ {t} : pc'[u] = pc[u]
  BY EntryInTable, HandledTypes DEF Unlock, Holds, Holding, TypeOK
<1>2. \A u \in Threads : Entry(u)' = Entry(u)
  BY <1>1 DEF Entry
<1>3. \A u \in Threads, s \in Stripes :
        Holds(u, s)' <=> Holds(u, s) /\ u # t
  BY <1>1, <1>2 DEF Holds, Holding
<1>4. LockExclusive'
  BY <1>1, <1>3 DEF LockExclusive, Holds
<1>5. \A u \in Threads : pc'[u] \in Named <=> pc[u] \in Named
  BY <1>1 DEF Named, Holding
<1>6. OwnerInv'
  BY <1>1, <1>2, <1>5 DEF OwnerInv
<1>7. QED
  BY <1>4, <1>6

LEMMA WriteInvStep ==
  ASSUME WriteInv, [Next]_vars
  PROVE  WriteInv'
<1>1. TypeOK'
  BY TypeStep DEF WriteInv
<1>2. CASE UNCHANGED vars
  <2>1. Quiet
    BY <1>2 DEF Quiet, vars, sst, request
  <2>2. QED
    BY <1>1, <2>1, QuietPreserves DEF WriteInv
<1>3. ASSUME NEW t \in Threads, Step(t)
      PROVE  WriteInv'
  <2>1. CASE LockStripe(t)
    BY <1>1, <2>1, LockStripeStep DEF WriteInv
  <2>2. CASE SetOwner(t)
    BY <1>1, <2>2, SetOwnerStep DEF WriteInv
  <2>3. CASE ClearOwner(t)
    BY <1>1, <2>3, ClearOwnerStep DEF WriteInv
  <2>4. CASE Unlock(t)
    BY <1>1, <2>4, UnlockStep DEF WriteInv
  <2>5. CASE ~LockStripe(t) /\ ~SetOwner(t) /\ ~ClearOwner(t) /\ ~Unlock(t)
    BY <1>1, <1>3, <2>5, QuietActions, QuietPreserves DEF WriteInv
  <2>6. QED
    BY <2>1, <2>2, <2>3, <2>4, <2>5
<1>4. ASSUME NEW t \in Threads, CompleteIO(t)
      PROVE  WriteInv'
  <2>1. Quiet
    BY <1>4 DEF Quiet, CompleteIO, sst, request
  <2>2. QED
    BY <1>1, <2>1, QuietPreserves DEF WriteInv
<1>5. QED
  BY <1>2, <1>3, <1>4 DEF Next, Terminating

LEMMA WriteInvInit == Init => LockExclusive /\ OwnerInv
  BY WriteAssumption DEF Init, LockExclusive, OwnerInv, Holds, Holding, Named

LEMMA WriteInvariant == Spec => []WriteInv
<1>1. Spec => []TypeOK
  BY TypeCorrect
<1>2. Init /\ TypeOK => WriteInv
  BY WriteInvInit DEF WriteInv
<1>3. QED
  BY <1>1, <1>2, WriteInvStep, PTL DEF Spec

(* Two threads never hold the same SST entry, and the lock bit is set just *)
(* while someone does.                                                     *)
THEOREM LockIsExclusive == Spec => []LockExclusive
<1>1. WriteInv => LockExclusive
  BY DEF WriteInv
<1>2. QED
  BY <1>1, WriteInvariant, PTL

(* A follower that reads an owner reads the thread that holds the lock.    *)
THEOREM OwnerIsTagged == Spec => []OwnerTagged
<1>1. WriteInv => OwnerTagged
  <2> SUFFICES ASSUME WriteInv, NEW s \in Stripes, SSTthreadid[s] # NoThread
               PROVE  stripe_lock[s] /\ Holds(SSTthreadid[s], s)
    BY DEF OwnerTagged
  <2>1. Holds(SSTthreadid[s], s) /\ SSTthreadid[s] \in Threads
    BY DEF WriteInv, OwnerInv, Holds, Named
  <2>2. QED
    BY <2>1 DEF WriteInv, LockExclusive
<1>2. QED
  BY <1>1, WriteInvariant, PTL

-----------------------------------------------------------------------------
(* Requests within one stripe.                                             *)

(* The entry a thread locks is then the stripe its piece is in.            *)
LEMMA EntryIsPieceStripe ==
  ASSUME SingleStripe, TypeOK, NEW t \in Threads
  PROVE  PieceStripe(t) = Entry(t)
<1>1. ck[t] = 0
  BY DEF SingleStripe, TypeOK
<1>2. QED
  BY <1>1 DEF PieceStripe, Entry, suio, Piece

(* One leader at a time has a piece of a stripe.                           *)
THEOREM PieceIsExclusive ==
  ASSUME SingleStripe
  PROVE  Spec => []PieceExclusive
<1>1. WriteInv => PieceExclusive
  <2> SUFFICES ASSUME WriteInv, NEW t \in Threads, NEW u \in Threads,
                      pc[t] \in Holding, pc[u] \in Holding,
                      PieceStripe(t) = PieceStripe(u)
               PROVE  t = u
    BY DEF PieceExclusive
  <2>1. Entry(t) \in Stripes /\ Entry(t) = Entry(u)
    BY EntryInTable, EntryIsPieceStripe DEF WriteInv
  <2>2. QED
    BY <2>1 DEF WriteInv, LockExclusive, Holds
<1>2. QED
  BY <1>1, WriteInvariant, PTL

(* The stripe is open when its leader comes to freeze it, and frozen from  *)
(* then on until it is unlocked.                                           *)
Closed == {"loadqlen", "copy", "resetlen", "submit", "await", "clearowner",
           "unlock"}

FrozenInv ==
  \A t \in Threads : /\ pc[t] = "freeze" => ~is_frozen[Entry(t)]
                     /\ pc[t] \in Closed => is_frozen[Entry(t)]

(* A step that neither thaws nor freezes, nor takes a leader across either. *)
Still ==
  /\ UNCHANGED is_frozen
  /\ \A u \in Threads : /\ pc'[u] = "freeze" <=> pc[u] = "freeze"
                        /\ pc'[u] \in Closed => pc[u] \in Closed
                        /\ pc[u] \in Holding => uio'[u] = uio[u]

LEMMA StillActions ==
  ASSUME TypeOK, NEW t \in Threads, Step(t), ~Thaw(t), ~Freeze(t)
  PROVE  Still
<1> USE DEF Still, Closed, Holding, Putting, Goto, TypeOK, sst, queues, request
<1>1. CASE Issue(t)
  BY <1>1 DEF Issue
<1>2. CASE LockBusy(t)
  BY <1>2 DEF LockBusy
<1>3. CASE LockStripe(t)
  BY <1>3 DEF LockStripe
<1>4. CASE SetOwner(t)
  BY <1>4 DEF SetOwner
<1>5. CASE LoadQueueLen(t)
  BY <1>5 DEF LoadQueueLen
<1>6. CASE CopyBatch(t)
  BY <1>6 DEF CopyBatch
<1>7. CASE ResetQueueLen(t)
  BY <1>7 DEF ResetQueueLen
<1>8. CASE Submit(t)
  BY <1>8 DEF Submit
<1>9. CASE AwaitIO(t)
  BY <1>9 DEF AwaitIO
<1>10. CASE CheckFrozen(t)
  BY <1>10 DEF CheckFrozen
<1>11. CASE LoadWid(t)
  BY <1>11 DEF LoadWid
<1>12. CASE RecheckFrozen(t)
  BY <1>12 DEF RecheckFrozen
<1>13. CASE Reserve(t)
  BY <1>13 DEF Reserve
<1>14. CASE Put(t)
  BY <1>14 DEF Put, Pending
<1>15. CASE WaitUnlock(t)
  BY <1>15, HandledTypes DEF WaitUnlock
<1>16. CASE ClearOwner(t)
  BY <1>16 DEF ClearOwner
<1>17. CASE Unlock(t)
  BY <1>17, HandledTypes DEF Unlock
<1>18. QED
  BY <1>1, <1>2, <1>3, <1>4, <1>5, <1>6, <1>7, <1>8, <1>9, <1>10, <1>11,
     <1>12, <1>13, <1>14, <1>15, <1>16, <1>17 DEF Step

(* Thawing and freezing touch only the leader's own entry.                 *)
LEMMA FrozenStep ==
  ASSUME SingleStripe, WriteInv, FrozenInv, [Next]_vars
  PROVE  FrozenInv'
<1>1. ASSUME Still PROVE FrozenInv'
  <2>1. \A u \in Threads : pc[u] \in Holding => Entry(u)' = Entry(u)
    BY <1>1 DEF Still, Entry
  <2>2. QED
    BY <1>1, <2>1 DEF Still, FrozenInv, Closed, Holding
<1>2. ASSUME NEW t \in Threads, Thaw(t) \/ Freeze(t)
      PROVE  FrozenInv'
  <2>1. /\ Entry(t) \in Stripes /\ pc[t] \in Holding
        /\ uio' = uio /\ PieceStripe(t) = Entry(t)
    BY <1>2, EntryInTable, EntryIsPieceStripe
       DEF WriteInv, Thaw, Freeze, request, Holding
  <2>2. \A u \in Threads : Entry(u)' = Entry(u)
    BY <2>1 DEF Entry
  <2>3. \A u \in Threads : u # t /\ pc[u] \in Holding => Entry(u) # Entry(t)
    BY <2>1 DEF WriteInv, LockExclusive, Holds
  <2>4. CASE Thaw(t)
    BY <2>1, <2>2, <2>3, <2>4
       DEF WriteInv, TypeOK, FrozenInv, Thaw, Goto, Closed, Holding
  <2>5. CASE Freeze(t)
    BY <2>1, <2>2, <2>3, <2>5
       DEF WriteInv, TypeOK, FrozenInv, Freeze, Goto, Closed, Holding
  <2>6. QED
    BY <1>2, <2>4, <2>5
<1>3. CASE UNCHANGED vars
  BY <1>1, <1>3 DEF Still, vars, sst, request
<1>4. ASSUME NEW t \in Threads, CompleteIO(t)
      PROVE  FrozenInv'
  BY <1>1, <1>4 DEF Still, CompleteIO, sst, request
<1>5. QED
  BY <1>1, <1>2, <1>3, <1>4, StillActions DEF WriteInv, Next, Terminating

LEMMA FrozenInvariant ==
  ASSUME SingleStripe
  PROVE  Spec => []FrozenInv
<1>1. Init => FrozenInv
  BY DEF Init, FrozenInv, Closed
<1>2. QED
  BY <1>1, FrozenStep, WriteInvariant, PTL DEF Spec

(* Every step of a thread is a step of StripeOwner or leaves the stripe    *)
(* state table alone.                                                      *)
LEMMA TurnStep ==
  ASSUME SingleStripe, WriteInv, FrozenInv, [Next]_vars
  PROVE  [Turns!Next]_(Turns!vars)
<1> USE DEF Turns!vars
<1>1. CASE UNCHANGED sst
  BY <1>1 DEF sst
<1>2. ASSUME NEW t \in Threads, Step(t), ~UNCHANGED sst
      PROVE  Turns!Next
  <2>1. /\ Entry(t) \in Stripes /\ PieceStripe(t) = Entry(t)
        /\ NoThread \notin Threads
    BY EntryInTable, EntryIsPieceStripe, WriteAssumption DEF WriteInv
  <2>2. CASE LockStripe(t)
    <3>1. SSTthreadid[Entry(t)] = NoThread
      <4>1. ~stripe_lock[Entry(t)]
        BY <2>2 DEF LockStripe
      <4>2. QED
        BY <2>1, <4>1 DEF WriteInv, OwnerInv, LockExclusive, Holds, Named
    <3>2. Turns!Take(Entry(t))
      BY <2>2, <3>1 DEF LockStripe, Turns!Take
    <3>3. QED
      BY <2>1, <3>2 DEF Turns!Next
  <2>3. ASSUME pc[t] \in Holding
        PROVE  /\ stripe_lock[Entry(t)]
               /\ pc[t] \in Named => SSTthreadid[Entry(t)] = t
               /\ pc[t] \notin Named => SSTthreadid[Entry(t)] = NoThread
    <3>1. Holds(t, Entry(t))
      BY <2>3 DEF Holds
    <3>2. stripe_lock[Entry(t)]
      BY <2>1, <3>1 DEF WriteInv, LockExclusive
    <3>3. pc[t] \in Named => SSTthreadid[Entry(t)] = t
      BY DEF WriteInv, OwnerInv
    <3>4. pc[t] \notin Named => SSTthreadid[Entry(t)] = NoThread
      BY <2>1, <3>1 DEF WriteInv, OwnerInv, LockExclusive, Holds, Named
    <3>5. QED
      BY <3>2, <3>3, <3>4
  <2>4. CASE SetOwner(t)
    <3>1. Turns!Claim(Entry(t), t)
      BY <2>3, <2>4 DEF SetOwner, Turns!Claim, Named, Holding
    <3>2. QED
      BY <2>1, <3>1 DEF Turns!Next
  <2>5. CASE Thaw(t)
    <3>1. Turns!Open(Entry(t))
      BY <2>1, <2>3, <2>5 DEF Thaw, Turns!Open, Named, Holding
    <3>2. QED
      BY <2>1, <3>1 DEF Turns!Next
  <2>6. CASE Freeze(t)
    <3>1. Turns!Freeze(Entry(t))
      BY <2>1, <2>3, <2>6
         DEF Freeze, Turns!Freeze, Named, Holding, FrozenInv
    <3>2. QED
      BY <2>1, <3>1 DEF Turns!Next
  <2>7. CASE ClearOwner(t)
    <3>1. Turns!Withdraw(Entry(t))
      BY <2>1, <2>3, <2>7
         DEF ClearOwner, Turns!Withdraw, Named, Holding, FrozenInv, Closed
    <3>2. QED
      BY <2>1, <3>1 DEF Turns!Next
  <2>8. CASE Unlock(t)
    <3>1. Turns!GiveBack(Entry(t))
      BY <2>1, <2>3, <2>8
         DEF Unlock, Turns!GiveBack, Named, Holding, FrozenInv, Closed
    <3>2. QED
      BY <2>1, <3>1 DEF Turns!Next
  <2>9. QED
    BY <1>2, <2>2, <2>4, <2>5, <2>6, <2>7, <2>8
       DEF Step, Issue, LockBusy, LoadQueueLen, CopyBatch, ResetQueueLen,
           Submit, AwaitIO, CheckFrozen, LoadWid, RecheckFrozen, Reserve, Put,
           WaitUnlock
<1>3. QED
  BY <1>1, <1>2 DEF Next, Terminating, vars, CompleteIO

(* The write path implements the turns of StripeOwner.                     *)
THEOREM TurnsImplemented ==
  ASSUME SingleStripe
  PROVE  Spec => StripeTurns
<1>1. Init => Turns!Init
  BY DEF Init, Turns!Init
<1>2. QED
  BY <1>1, TurnStep, WriteInvariant, FrozenInvariant, PTL
     DEF Spec, StripeTurns, Turns!Spec

-----------------------------------------------------------------------------
(* The I/Os of a piece lie in its stripe.                                  *)

(* Every cell of every chunk of a piece within one stripe is in that       *)
(* stripe, as the encoder counts stripes from device offsets.              *)
LEMMA ChunkInStripe ==
  ASSUME NEW p, p.off \in Nat, p.len \in Nat \ {0},
         user2stripe(p.off) = user2stripe(p.off + p.len - 1),
         NEW c \in Chunks(p), NEW k \in 0 .. c.len - 1
  PROVE  devoff2stripe(user2dev(c.off).off + k) = user2stripe(p.off)
<1> USE LayoutAssumption
<1> DEFINE eoff == p.off + p.len
           lo(q) == Max({p.off, q * SCHUNK_SIZE})
           hi(q) == Min({eoff, (q + 1) * SCHUNK_SIZE})
<1>1. PICK q \in p.off \div SCHUNK_SIZE .. (eoff - 1) \div SCHUNK_SIZE :
        c = [off |-> lo(q), len |-> hi(q) - lo(q)]
  BY DEF Chunks
<1>2. p.off \div SCHUNK_SIZE \in Nat /\ q \in Nat
  <2>1. p.off \div SCHUNK_SIZE \in Nat
    BY DivMod
  <2>2. q >= p.off \div SCHUNK_SIZE /\ q \in Int
    OBVIOUS
  <2>3. QED
    BY <2>1, <2>2
<1>3. q * SCHUNK_SIZE \in Nat /\ (q + 1) * SCHUNK_SIZE = q * SCHUNK_SIZE + SCHUNK_SIZE
  BY <1>2
<1>4. /\ lo(q) \in Nat /\ lo(q) >= p.off /\ lo(q) >= q * SCHUNK_SIZE
      /\ hi(q) \in Nat /\ hi(q) <= eoff /\ hi(q) <= q * SCHUNK_SIZE + SCHUNK_SIZE
  <2> DEFINE m == q * SCHUNK_SIZE
             n == (q + 1) * SCHUNK_SIZE
  <2>1. p.off \in Int /\ eoff \in Int /\ eoff \in Nat /\ m \in Int /\ n \in Int
    BY <1>3
  <2>2. lo(q) = Max({p.off, m}) /\ hi(q) = Min({eoff, n})
    OBVIOUS
  <2> HIDE DEF m, n, lo, hi, eoff
  <2>3. Max({p.off, m}) \in {p.off, m} /\ Max({p.off, m}) >= p.off
        /\ Max({p.off, m}) >= m
    BY <2>1, MaxOfTwo
  <2>4. Min({eoff, n}) \in {eoff, n} /\ Min({eoff, n}) <= eoff
        /\ Min({eoff, n}) <= n
    BY <2>1, MinOfTwo
  <2>5. m \in Nat /\ n = m + SCHUNK_SIZE
    BY <1>3 DEF m, n
  <2>6. Max({p.off, m}) \in Nat /\ Min({eoff, n}) \in Nat
    BY <2>1, <2>3, <2>4, <2>5
  <2>7. /\ lo(q) \in Nat /\ lo(q) >= p.off /\ lo(q) >= m
    BY <2>2, <2>3, <2>6, Zenon
  <2>8. /\ hi(q) \in Nat /\ hi(q) <= eoff /\ hi(q) <= n
    BY <2>2, <2>4, <2>6, Zenon
  <2>9. lo(q) >= q * SCHUNK_SIZE /\ hi(q) <= q * SCHUNK_SIZE + SCHUNK_SIZE
    <3>1. hi(q) <= m + SCHUNK_SIZE
      BY <2>5, <2>8, Zenon
    <3>2. QED
      BY <2>7, <3>1, Zenon DEF m
  <2>10. QED
    BY <2>7, <2>8, <2>9
<1> DEFINE r == c.off - q * SCHUNK_SIZE
           s == user2stripe(c.off)
<1>5. /\ c.off \in Nat /\ p.off <= c.off /\ c.off <= eoff - 1
      /\ r \in Nat /\ k \in Nat /\ r + k \in 0 .. SCHUNK_SIZE - 1
      /\ r \in 0 .. SCHUNK_SIZE - 1 /\ c.off = q * SCHUNK_SIZE + r
  BY <1>1, <1>3, <1>4
<1>6. s = user2stripe(p.off) /\ s \in Nat
  <2>1. /\ user2stripe(p.off) <= s /\ s <= user2stripe(eoff - 1)
        /\ user2stripe(p.off) \in Nat /\ s \in Nat
    BY <1>5, StripeMonotone
  <2>2. user2stripe(eoff - 1) = user2stripe(p.off)
    OBVIOUS
  <2> HIDE DEF s, eoff
  <2>3. QED
    BY <2>1, <2>2
<1>7. c.off % SCHUNK_SIZE = r
  <2> HIDE DEF r
  <2>1. (q * SCHUNK_SIZE + r) % SCHUNK_SIZE = r
    BY <1>2, <1>5, DivModUnique
  <2>2. QED
    BY <1>5, <2>1
<1>8. user2dev(c.off).off = s * SCHUNK_SIZE + r
  BY <1>7 DEF user2dev, user2stripe
<1> HIDE DEF r, s
<1>9. user2dev(c.off).off + k = s * SCHUNK_SIZE + (r + k)
  BY <1>5, <1>6, <1>8
<1>10. (s * SCHUNK_SIZE + (r + k)) \div SCHUNK_SIZE = s
  <2> DEFINE n == r + k
  <2>1. n \in 0 .. SCHUNK_SIZE - 1
    BY <1>5
  <2> HIDE DEF n
  <2>2. (s * SCHUNK_SIZE + n) \div SCHUNK_SIZE = s
    BY <1>6, <2>1, DivModUnique
  <2>3. QED
    BY <2>2 DEF n
<1>11. QED
  BY <1>6, <1>9, <1>10 DEF devoff2stripe

(* What a thread writes of its own piece stays in the piece's stripe.      *)
InOwnStripe(t, d) ==
  \A k \in 0 .. d.len - 1 : devoff2stripe(d.off + k) = PieceStripe(t)

LEMMA OwnDiosInStripe ==
  ASSUME SingleStripe, TypeOK, NEW t \in Threads,
         NEW d \in split_chunk2dio(suio(t), Op(t))
  PROVE  InOwnStripe(t, d)
<1> DEFINE p == suio(t)
           r == uio[t]
<1>1. /\ r.off \in Nat /\ r.len \in Nat \ {0} /\ NumPieces(r) = 1 /\ ck[t] = 0
  BY WriteAssumption DEF SingleStripe, TypeOK
<1>2. p.off = r.off /\ p.len = r.len
  BY <1>1 DEF suio, Piece
<1>3. user2stripe(r.off) = user2stripe(r.off + r.len - 1)
  <2>1. user2stripe(r.off) \in Nat /\ user2stripe(r.off + r.len - 1) \in Nat
    BY <1>1, StripeMonotone
  <2>2. QED
    BY <1>1, <2>1 DEF NumPieces
<1>4. PICK c \in Chunks(p) : d = s_uio2dio(c, Op(t))
  BY DEF split_chunk2dio
<1>5. d.off = user2dev(c.off).off /\ d.len = c.len
  BY <1>4 DEF s_uio2dio, Dio
<1> HIDE DEF p, r
<1>6. \A k \in 0 .. c.len - 1 :
        devoff2stripe(user2dev(c.off).off + k) = user2stripe(p.off)
  BY <1>1, <1>2, <1>3, <1>4, ChunkInStripe
<1>7. QED
  BY <1>5, <1>6 DEF InOwnStripe, PieceStripe, p

-----------------------------------------------------------------------------
(* The invariant.                                                          *)

(* The shape of the queues, and their lengths while the process lives.     *)
ShapeInv ==
  /\ v_batchque2 = [w \in Threads |-> v_batchque2[w]]
  /\ \A w \in Threads :
       v_batchque2[w] = [i \in 0 .. QUEUE_LEN - 1 |-> v_batchque2[w][i]]
  /\ bat_dios = [w \in Threads |-> bat_dios[w]]
  /\ inflight = [w \in Threads |-> inflight[w]]
  /\ qlen \in [Threads -> Nat]
  /\ ~aborted => \A w \in Threads : /\ inqueue_data_len[w] <= QUEUE_LEN
                                   /\ qlen[w] <= QUEUE_LEN

Tag(t) == {t} \X (0 .. MaxIO)
Foreign(t, d) == d.buf.op \notin Tag(t)

(* Nobody follows itself, so that nothing in a thread's queue, and in what *)
(* it copies from there, carries its own tag.                              *)
Following == {"recheck", "reserve", "put", "putraced"}

ForeignInv ==
  \A t \in Threads :
    /\ pc[t] \in Following => wid[t] # t
    /\ \A i \in 0 .. QUEUE_LEN - 1 : Foreign(t, v_batchque2[t][i])
    /\ \A d \in bat_dios[t] : Foreign(t, d)

(* Writes are in flight while their thread waits for them; its own are in  *)
(* the stripe of its piece.                                                *)
FlightInv ==
  \A t \in Threads :
    /\ inflight[t] # {} => pc[t] = "await"
    /\ \A d \in inflight[t] : Foreign(t, d) \/ InOwnStripe(t, d)

CollisionInv == ShapeInv /\ ForeignInv /\ FlightInv

-----------------------------------------------------------------------------
(* Steps that leave the queues, what is copied from them and what is in    *)
(* flight alone: all but seven actions.                                    *)
Calm ==
  /\ UNCHANGED <<v_batchque2, bat_dios, inflight>>
  /\ \A u \in Threads : /\ pc'[u] \in Following =>
                             /\ pc[u] \in Following /\ wid'[u] = wid[u]
                        /\ pc[u] = "await" => \/ inflight[u] = {}
                                              \/ /\ pc'[u] = "await"
                                                 /\ uio'[u] = uio[u]
                                                 /\ ck'[u] = ck[u]

LEMMA CalmPreserves ==
  ASSUME ForeignInv, FlightInv, Calm
  PROVE  ForeignInv' /\ FlightInv'
<1>1. ForeignInv'
  BY DEF Calm, ForeignInv, Foreign, Tag
<1>2. ASSUME NEW t \in Threads
      PROVE  /\ inflight'[t] # {} => pc'[t] = "await"
             /\ \A d \in inflight'[t] : Foreign(t, d)' \/ InOwnStripe(t, d)'
  <2>1. CASE inflight[t] = {}
    BY <2>1 DEF Calm
  <2>2. CASE inflight[t] # {}
    <3>1. /\ pc[t] = "await" /\ pc'[t] = "await" /\ inflight' = inflight
          /\ uio'[t] = uio[t] /\ ck'[t] = ck[t]
      BY <2>2 DEF Calm, FlightInv
    <3>2. PieceStripe(t)' = PieceStripe(t)
      BY <3>1 DEF PieceStripe, suio
    <3>3. QED
      BY <3>1, <3>2 DEF FlightInv, Foreign, Tag, InOwnStripe
  <2>3. QED
    BY <2>1, <2>2
<1>3. FlightInv'
  BY <1>2 DEF FlightInv
<1>4. QED
  BY <1>1, <1>3

(* The next piece is a matter of the thread alone.                         *)
LEMMA HandledOthers ==
  ASSUME TypeOK, NEW t \in Threads, Handled(t)
  PROVE  \A u \in Threads \ {t} : ck'[u] = ck[u]
  BY DEF TypeOK, Handled

LEMMA CalmActions ==
  ASSUME TypeOK, NEW t \in Threads, Step(t),
         ~LoadWid(t), ~CopyBatch(t), ~Submit(t), ~Put(t)
  PROVE  Calm
<1> USE DEF Calm, Following, Holding, Putting, Goto, TypeOK, sst, queues,
            request, follower, leader
<1>1. CASE Issue(t)
  BY <1>1 DEF Issue
<1>2. CASE LockBusy(t)
  BY <1>2 DEF LockBusy
<1>3. CASE LockStripe(t)
  BY <1>3 DEF LockStripe
<1>4. CASE SetOwner(t)
  BY <1>4 DEF SetOwner
<1>5. CASE LoadQueueLen(t)
  BY <1>5 DEF LoadQueueLen
<1>6. CASE Thaw(t)
  BY <1>6 DEF Thaw
<1>7. CASE ResetQueueLen(t)
  BY <1>7 DEF ResetQueueLen
<1>8. CASE Freeze(t)
  BY <1>8 DEF Freeze
<1>9. CASE AwaitIO(t)
  BY <1>9 DEF AwaitIO
<1>10. CASE CheckFrozen(t)
  BY <1>10 DEF CheckFrozen
<1>11. CASE RecheckFrozen(t)
  BY <1>11 DEF RecheckFrozen
<1>12. CASE Reserve(t)
  BY <1>12 DEF Reserve
<1>13. CASE WaitUnlock(t)
  BY <1>13, HandledTypes, HandledOthers DEF WaitUnlock
<1>14. CASE ClearOwner(t)
  BY <1>14 DEF ClearOwner
<1>15. CASE Unlock(t)
  BY <1>15, HandledTypes, HandledOthers DEF Unlock
<1>16. QED
  BY <1>1, <1>2, <1>3, <1>4, <1>5, <1>6, <1>7, <1>8, <1>9, <1>10, <1>11,
     <1>12, <1>13, <1>14, <1>15 DEF Step

(* A thread that reads its leader's name is not the leader: the name is    *)
(* that of the thread that holds the lock.                                 *)
LEMMA LoadWidStep ==
  ASSUME WriteInv, ForeignInv, FlightInv, NEW t \in Threads, LoadWid(t)
  PROVE  ForeignInv' /\ FlightInv'
<1>1. /\ pc[t] = "loadwid" /\ Entry(t) \in Stripes
      /\ UNCHANGED <<v_batchque2, bat_dios, inflight, uio, ck>>
      /\ pc \in [Threads -> Locals] /\ wid \in [Threads -> Threads \union {NoThread}]
  BY EntryInTable
     DEF LoadWid, WriteInv, TypeOK, Locals, queues, leader, request
<1>2. CASE SSTthreadid[Entry(t)] = NoThread
  <2>1. pc' = [pc EXCEPT ![t] = "trylock"] /\ wid' = wid
    BY <1>2 DEF LoadWid, Goto
  <2>2. Calm
    BY <1>1, <2>1 DEF Calm, Following
  <2>3. QED
    BY <2>2, CalmPreserves
<1>3. CASE SSTthreadid[Entry(t)] # NoThread
  <2>1. /\ pc' = [pc EXCEPT ![t] = "recheck"]
        /\ wid' = [wid EXCEPT ![t] = SSTthreadid[Entry(t)]]
    BY <1>3 DEF LoadWid, Goto
  <2>2. SSTthreadid[Entry(t)] # t
    BY <1>1, <1>3 DEF WriteInv, OwnerInv, Named, Holding
  <2>3. ForeignInv'
    BY <1>1, <2>1, <2>2 DEF ForeignInv, Foreign, Tag, Following
  <2>4. FlightInv'
    <3>1. \A u \in Threads : PieceStripe(u)' = PieceStripe(u)
      BY <1>1 DEF PieceStripe, suio
    <3>2. \A u \in Threads : pc[u] = "await" => pc'[u] = "await"
      BY <1>1, <2>1
    <3>3. QED
      BY <1>1, <3>1, <3>2 DEF FlightInv, Foreign, Tag, InOwnStripe
  <2>5. QED
    BY <2>3, <2>4
<1>4. QED
  BY <1>2, <1>3

(* The operation a follower's DIO_Info belongs to is its own.              *)
LEMMA FollowerTag ==
  ASSUME NEW u \in Threads
  PROVE  FollowerDio(u).buf.op = <<u, io_count[u]>>
  BY DEF FollowerDio, s_uio2dio, Dio, Buf, Op

(* A torn mixture of records carries the buffer of one of them.            *)
LEMMA TornBuf ==
  ASSUME NEW D, NEW d \in Torn(D)
  PROVE  \E e \in D : d.buf = e.buf
  BY DEF Torn

LEMMA CopyBatchStep ==
  ASSUME WriteInv, ShapeInv, ForeignInv, FlightInv, ~aborted,
         NEW t \in Threads, CopyBatch(t)
  PROVE  ForeignInv' /\ FlightInv'
<1>1. /\ pc[t] = "copy" /\ pc' = [pc EXCEPT ![t] = "resetlen"]
      /\ UNCHANGED <<v_batchque2, wid, inflight, uio, ck>>
      /\ pc \in [Threads -> Locals] /\ qlen[t] \in Nat /\ qlen[t] <= QUEUE_LEN
  BY DEF CopyBatch, Goto, WriteInv, TypeOK, Locals, ShapeInv, queues, request,
         follower
<1> DEFINE I == 0 .. qlen[t] - 1
<1>2. PICK f \in [I -> UNION {SlotValues(t, i) : i \in I}] :
        /\ \A i \in I : f[i] \in SlotValues(t, i)
        /\ bat_dios' = [bat_dios EXCEPT ![t] = {f[i] : i \in I}]
  BY DEF CopyBatch
<1>3. ASSUME NEW i \in I, NEW d \in SlotValues(t, i)
      PROVE  Foreign(t, d)
  <2>1. i \in 0 .. QUEUE_LEN - 1
    BY <1>1, WriteAssumption
  <2>2. PICK e \in {v_batchque2[t][i]} \union {FollowerDio(u) : u \in Pending(t, i)} :
          d.buf = e.buf
    BY TornBuf DEF SlotValues
  <2>3. CASE e = v_batchque2[t][i]
    BY <2>1, <2>2, <2>3 DEF ForeignInv, Foreign
  <2>4. CASE \E u \in Pending(t, i) : e = FollowerDio(u)
    <3>1. PICK u \in Pending(t, i) : e = FollowerDio(u)
      BY <2>4
    <3>2. u \in Threads /\ wid[u] = t /\ pc[u] \in Following
      BY DEF Pending, Putting, Following
    <3>3. u # t
      BY <3>2 DEF ForeignInv
    <3>4. d.buf.op = <<u, io_count[u]>>
      BY <2>2, <3>1, <3>2, FollowerTag
    <3>5. QED
      BY <3>3, <3>4 DEF Foreign, Tag
  <2>5. QED
    BY <2>2, <2>3, <2>4
<1>4. \A u \in Threads : bat_dios'[u] = IF u = t THEN {f[i] : i \in I}
                                        ELSE bat_dios[u]
  BY <1>2 DEF ShapeInv
<1>5. \A d \in {f[i] : i \in I} : Foreign(t, d)
  BY <1>2, <1>3
<1> HIDE DEF I
<1>6. ForeignInv'
  BY <1>1, <1>4, <1>5 DEF ForeignInv, Foreign, Tag, Following
<1>7. FlightInv'
  <2>1. \A u \in Threads : PieceStripe(u)' = PieceStripe(u)
    BY <1>1 DEF PieceStripe, suio
  <2>2. QED
    BY <1>1, <2>1 DEF FlightInv, Foreign, Tag, InOwnStripe
<1>8. QED
  BY <1>6, <1>7

LEMMA PutStep ==
  ASSUME WriteInv, ShapeInv, ForeignInv, FlightInv, NEW t \in Threads, Put(t)
  PROVE  ForeignInv' /\ FlightInv'
<1> DEFINE w == wid[t]
           stored == IF pc[t] = "put" THEN {FollowerDio(t)}
                     ELSE Torn({FollowerDio(t), v_batchque2[w][slot[t]]})
<1>1. /\ pc[t] \in Putting /\ w \in Threads /\ w # t
      /\ UNCHANGED <<bat_dios, inflight, uio, ck>>
      /\ pc \in [Threads -> Locals] /\ wid \in [Threads -> Threads \union {NoThread}]
  BY DEF Put, WriteInv, TypeOK, Locals, ForeignInv, Following, Putting, leader,
         request
<1>2. PICK d \in stored : v_batchque2' = [v_batchque2 EXCEPT ![w][slot[t]] = d]
  BY DEF Put
<1>3. /\ wid' = [wid EXCEPT ![t] = NoThread]
      /\ \A u \in Threads : /\ pc'[u] \in Following => pc[u] \in Following /\ u # t
                            /\ pc[u] = "await" => pc'[u] = "await"
  BY <1>1 DEF Put, Pending, Putting, Following
<1>4. slot[t] \in 0 .. QUEUE_LEN - 1 => Foreign(w, d)
  <2>1. FollowerDio(t).buf.op \notin Tag(w)
    BY <1>1, FollowerTag DEF Tag
  <2>2. CASE pc[t] = "put"
    BY <1>2, <2>1, <2>2 DEF Foreign
  <2>3. CASE pc[t] # "put"
    <3>1. d.buf = FollowerDio(t).buf \/ d.buf = v_batchque2[w][slot[t]].buf
      BY <1>2, <2>3, TornBuf
    <3>2. slot[t] \in 0 .. QUEUE_LEN - 1 => Foreign(w, v_batchque2[w][slot[t]])
      BY <1>1 DEF ForeignInv
    <3>3. QED
      BY <2>1, <3>1, <3>2 DEF Foreign
  <2>4. QED
    BY <2>2, <2>3
<1> HIDE DEF stored, w
<1>5. \A u \in Threads, i \in 0 .. QUEUE_LEN - 1 :
        v_batchque2'[u][i] = IF u = w /\ i = slot[t] THEN d ELSE v_batchque2[u][i]
  BY <1>1, <1>2 DEF ShapeInv
<1>6. ForeignInv'
  BY <1>1, <1>3, <1>4, <1>5 DEF ForeignInv, Foreign, Tag
<1>7. FlightInv'
  <2>1. \A u \in Threads : PieceStripe(u)' = PieceStripe(u)
    BY <1>1 DEF PieceStripe, suio
  <2>2. QED
    BY <1>1, <1>3, <2>1 DEF FlightInv, Foreign, Tag, InOwnStripe
<1>8. QED
  BY <1>6, <1>7

(* What a leader submits: its own piece, in its stripe; the batch, which   *)
(* is tagged with the followers' names; and parity.                        *)
LEMMA SubmitStep ==
  ASSUME SingleStripe, WriteInv, ShapeInv, ForeignInv, FlightInv,
         NEW t \in Threads, Submit(t)
  PROVE  ForeignInv' /\ FlightInv'
<1>1. /\ pc[t] = "submit" /\ pc \in [Threads -> Locals]
      /\ UNCHANGED <<v_batchque2, wid, uio, ck>>
  BY DEF Submit, WriteInv, TypeOK, Locals, queues, request, follower
<1>2. CASE UNCHANGED <<pc, leader>>
  <2>1. Calm
    BY <1>1, <1>2 DEF Calm, Following, leader
  <2>2. QED
    BY <2>1, CalmPreserves
<1>3. CASE ~UNCHANGED <<pc, leader>>
  <2> DEFINE own == split_chunk2dio(suio(t), Op(t))
             parity == ParityIO(t, own)
  <2>1. /\ inflight' = [inflight EXCEPT ![t] = own \union bat_dios[t] \union {parity}]
        /\ bat_dios' = [bat_dios EXCEPT ![t] = {}]
        /\ pc' = [pc EXCEPT ![t] = "await"]
    BY <1>3 DEF Submit, Goto
  <2>2. \A d \in own : InOwnStripe(t, d)
    BY OwnDiosInStripe DEF WriteInv
  <2>3. \A d \in bat_dios[t] : Foreign(t, d)
    BY DEF ForeignInv
  <2>4. Foreign(t, parity)
    <3>1. parity.buf.op = <<t, -1>>
      BY DEF ParityIO, Dio, ParityBuf
    <3>2. QED
      BY <3>1, WriteAssumption DEF Foreign, Tag
  <2> HIDE DEF own, parity
  <2>5. \A u \in Threads :
          /\ bat_dios'[u] = IF u = t THEN {} ELSE bat_dios[u]
          /\ inflight'[u] = IF u = t THEN own \union bat_dios[t] \union {parity}
                            ELSE inflight[u]
          /\ pc'[u] = IF u = t THEN "await" ELSE pc[u]
          /\ PieceStripe(u)' = PieceStripe(u)
    BY <1>1, <2>1 DEF ShapeInv, PieceStripe, suio
  <2>6. ForeignInv'
    BY <1>1, <2>5 DEF ForeignInv, Foreign, Tag, Following
  <2>7. FlightInv'
    BY <1>1, <2>2, <2>3, <2>4, <2>5 DEF FlightInv, Foreign, Tag, InOwnStripe
  <2>8. QED
    BY <2>6, <2>7
<1>4. QED
  BY <1>2, <1>3

LEMMA CompleteStep ==
  ASSUME ShapeInv, ForeignInv, FlightInv, NEW t \in Threads, CompleteIO(t)
  PROVE  ForeignInv' /\ FlightInv'
<1>1. /\ UNCHANGED <<v_batchque2, bat_dios, wid, pc, uio, ck>>
      /\ \A u \in Threads : inflight'[u] \subseteq inflight[u]
  BY DEF CompleteIO, ShapeInv, queues, request, follower
<1>2. ForeignInv'
  BY <1>1 DEF ForeignInv, Foreign, Tag
<1>3. \A u \in Threads : PieceStripe(u)' = PieceStripe(u)
  BY <1>1 DEF PieceStripe, suio
<1>4. FlightInv'
  BY <1>1, <1>3 DEF FlightInv, Foreign, Tag, InOwnStripe
<1>5. QED
  BY <1>2, <1>4

(* An update leaves a function a function on the same set.                 *)
LEMMA Updated ==
  ASSUME NEW S, NEW f, f = [x \in S |-> f[x]], NEW a, NEW v,
         NEW g, g = [f EXCEPT ![a] = v]
  PROVE  g = [x \in S |-> g[x]]
  OBVIOUS

(* No queue grows past its end but in the step that ends the process.      *)
LEMMA ShapeStep ==
  ASSUME TypeOK, ShapeInv, [Next]_vars
  PROVE  ShapeInv'
<1> USE DEF ShapeInv, TypeOK
<1> QUEUE_LEN \in Nat
  BY WriteAssumption
<1>1. ASSUME UNCHANGED <<v_batchque2, bat_dios, inflight, qlen,
                         inqueue_data_len, aborted>>
      PROVE  ShapeInv'
  BY <1>1
<1>2. ASSUME NEW t \in Threads, Step(t), ~aborted
      PROVE  ShapeInv'
  <2> USE DEF queues, leader
  <2>1. CASE LoadQueueLen(t)
    BY <1>2, <2>1 DEF LoadQueueLen
  <2>2. CASE CopyBatch(t)
    <3>1. /\ UNCHANGED <<v_batchque2, inflight, qlen, inqueue_data_len, aborted>>
          /\ \E D : bat_dios' = [bat_dios EXCEPT ![t] = D]
      BY <2>2 DEF CopyBatch
    <3>2. bat_dios' = [w \in Threads |-> bat_dios'[w]]
      BY <3>1, Updated
    <3>3. QED
      BY <3>1, <3>2
  <2>3. CASE ResetQueueLen(t)
    BY <1>2, <2>3 DEF ResetQueueLen
  <2>4. CASE Submit(t)
    <3>1. CASE UNCHANGED leader
      BY <1>2, <2>4, <3>1 DEF Submit
    <3>2. CASE ~UNCHANGED leader
      <4>1. /\ UNCHANGED <<v_batchque2, inqueue_data_len, aborted>>
            /\ qlen' = [qlen EXCEPT ![t] = 0]
            /\ \E D : bat_dios' = [bat_dios EXCEPT ![t] = D]
            /\ \E D : inflight' = [inflight EXCEPT ![t] = D]
        BY <2>4, <3>2 DEF Submit
      <4>2. /\ bat_dios' = [w \in Threads |-> bat_dios'[w]]
            /\ inflight' = [w \in Threads |-> inflight'[w]]
        BY <4>1, Updated
      <4>3. QED
        BY <4>1, <4>2
    <3>3. QED
      BY <3>1, <3>2
  <2>5. CASE Reserve(t)
    <3>1. wid[t] \in Threads /\ UNCHANGED <<v_batchque2, bat_dios, inflight, qlen>>
      BY <2>5 DEF Reserve, Putting
    <3>2. QED
      BY <1>2, <2>5, <3>1 DEF Reserve
  <2>6. CASE Put(t)
    <3>1. /\ UNCHANGED <<bat_dios, inflight, qlen, inqueue_data_len, aborted>>
          /\ \E d : v_batchque2' = [v_batchque2 EXCEPT ![wid[t]][slot[t]] = d]
      BY <2>6 DEF Put
    <3>2. PICK q : q = [v_batchque2[wid[t]] EXCEPT ![slot[t]] = q[slot[t]]]
                   /\ v_batchque2' = [v_batchque2 EXCEPT ![wid[t]] = q]
      <4>1. PICK d : v_batchque2' = [v_batchque2 EXCEPT ![wid[t]][slot[t]] = d]
        BY <3>1
      <4> DEFINE old == v_batchque2[wid[t]]
                 q == [old EXCEPT ![slot[t]] = d]
      <4>2. q = [old EXCEPT ![slot[t]] = q[slot[t]]]
        OBVIOUS
      <4>3. QED
        BY <4>1, <4>2
    <3>3. v_batchque2' = [w \in Threads |-> v_batchque2'[w]]
      BY <3>2, Updated
    <3>4. wid[t] \in Threads
      BY <2>6 DEF Put, Putting
    <3>5. q = [i \in 0 .. QUEUE_LEN - 1 |-> q[i]]
      BY <3>2, <3>4, Updated
    <3>6. \A w \in Threads : v_batchque2'[w] = IF w = wid[t] THEN q ELSE v_batchque2[w]
      BY <3>2
    <3>7. QED
      BY <3>1, <3>3, <3>5, <3>6
  <2>7. QED
    BY <1>1, <1>2, <2>1, <2>2, <2>3, <2>4, <2>5, <2>6
       DEF Step, Issue, LockStripe, LockBusy, SetOwner, Thaw, Freeze, AwaitIO,
           ClearOwner, Unlock, CheckFrozen, LoadWid, RecheckFrozen, WaitUnlock
<1>3. ASSUME NEW t \in Threads, CompleteIO(t)
      PROVE  ShapeInv'
  <2>1. /\ UNCHANGED <<v_batchque2, bat_dios, qlen, inqueue_data_len, aborted>>
        /\ \E D : inflight' = [inflight EXCEPT ![t] = D]
    BY <1>3 DEF CompleteIO, queues
  <2>2. inflight' = [w \in Threads |-> inflight'[w]]
    BY <2>1, Updated
  <2>3. QED
    BY <2>1, <2>2
<1>4. CASE UNCHANGED vars
  BY <1>1, <1>4 DEF vars, queues, leader
<1>5. QED
  BY <1>2, <1>3, <1>4 DEF Next, Terminating

LEMMA CollisionStep ==
  ASSUME SingleStripe, WriteInv, CollisionInv, [Next]_vars
  PROVE  CollisionInv'
<1> USE DEF CollisionInv
<1>1. ShapeInv'
  BY ShapeStep DEF WriteInv
<1>2. ASSUME NEW t \in Threads, Step(t), ~aborted
      PROVE  ForeignInv' /\ FlightInv'
  <2>1. CASE LoadWid(t)
    BY <2>1, LoadWidStep
  <2>2. CASE CopyBatch(t)
    BY <1>2, <2>2, CopyBatchStep
  <2>3. CASE Submit(t)
    BY <2>3, SubmitStep
  <2>4. CASE Put(t)
    BY <2>4, PutStep
  <2>5. CASE ~LoadWid(t) /\ ~CopyBatch(t) /\ ~Submit(t) /\ ~Put(t)
    BY <1>2, <2>5, CalmActions, CalmPreserves DEF WriteInv
  <2>6. QED
    BY <2>1, <2>2, <2>3, <2>4, <2>5
<1>3. ASSUME NEW t \in Threads, CompleteIO(t)
      PROVE  ForeignInv' /\ FlightInv'
  BY <1>3, CompleteStep
<1>4. CASE UNCHANGED vars
  <2>1. Calm
    BY <1>4 DEF Calm, vars, queues, leader, request, follower
  <2>2. QED
    BY <1>1, <2>1, CalmPreserves
<1>5. QED
  BY <1>1, <1>2, <1>3, <1>4 DEF Next, Terminating

LEMMA CollisionInit == Init => CollisionInv
<1> SUFFICES ASSUME Init PROVE CollisionInv
  OBVIOUS
<1>1. NoDio.buf.op = <<NoThread, 0>>
  BY DEF NoDio, Dio, NULL
<1>2. \A t \in Threads : Foreign(t, NoDio)
  BY <1>1, WriteAssumption DEF Foreign, Tag
<1>3. ShapeInv
  BY WriteAssumption DEF Init, ShapeInv
<1>4. ForeignInv
  BY <1>2 DEF Init, ForeignInv, Following
<1>5. FlightInv
  BY DEF Init, FlightInv
<1>6. QED
  BY <1>3, <1>4, <1>5 DEF CollisionInv

(* A cell of a thread's own data, seen from outside, is in its stripe.     *)
LEMMA OwnCellStripe ==
  ASSUME CollisionInv, NEW t \in Threads, NEW c \in OwnCells(t)
  PROVE  pc[t] = "await" /\ devoff2stripe(c[2]) = PieceStripe(t)
<1>1. PICK d \in inflight[t] :
        d.buf.op \in Tag(t) /\ \E k \in 0 .. d.len - 1 : c = <<d.dev, d.off + k>>
  <2>1. PICK d \in inflight[t] : d.buf.op \in Tag(t) /\ \E e \in Cells(d) : c = <<e[1], e[2]>>
    BY DEF OwnCells, Tag
  <2>2. QED
    BY <2>1 DEF Cells
<1>2. InOwnStripe(t, d) /\ pc[t] = "await"
  BY <1>1 DEF CollisionInv, FlightInv, Foreign
<1>3. QED
  BY <1>1, <1>2 DEF InOwnStripe

(* Two threads never have writes of their own data to the same cell in     *)
(* flight, when every request stays within a stripe: the stripe is handed  *)
(* on after the last completion only (raid_write_direct, iouring_wait).    *)
THEOREM WritesNeverCollide ==
  ASSUME SingleStripe
  PROVE  Spec => []NoWriteCollision
<1>1. WriteInv /\ CollisionInv => NoWriteCollision
  <2> SUFFICES ASSUME WriteInv, CollisionInv, NEW t \in Threads,
                      NEW u \in Threads, t # u,
                      NEW c \in OwnCells(t), c \in OwnCells(u)
               PROVE  FALSE
    BY DEF NoWriteCollision
  <2>1. /\ pc[t] \in Holding /\ pc[u] \in Holding
        /\ PieceStripe(t) = PieceStripe(u)
    BY OwnCellStripe DEF Holding
  <2>2. Entry(t) \in Stripes /\ Entry(t) = Entry(u)
    BY <2>1, EntryInTable, EntryIsPieceStripe DEF WriteInv
  <2>3. QED
    BY <2>1, <2>2 DEF WriteInv, LockExclusive, Holds
<1>2. QED
  BY <1>1, CollisionInit, CollisionStep, WriteInvariant, PTL DEF Spec

-----------------------------------------------------------------------------
(* The batch queues: a piece that was complete in the queue before its     *)
(* leader read the queue's length is on the device when its follower goes  *)
(* on (JoinedServed), and no queue holds more than two entries for every   *)
(* other thread (QueueBounded).                                            *)

(* What a step of one thread leaves alone in the others: all of their own  *)
(* state, but that a store into a slot overlaps other stores to it.        *)
LEMMA StepIsLocal ==
  ASSUME TypeOK, ShapeInv, NEW t \in Threads, Step(t),
         slot \in [Threads -> Nat],
         NEW x \in Threads \ {t}
  PROVE  /\ uio'[x] = uio[x] /\ io_count'[x] = io_count[x] /\ ck'[x] = ck[x]
         /\ wid'[x] = wid[x] /\ slot'[x] = slot[x]
         /\ qlen'[x] = qlen[x] /\ bat_dios'[x] = bat_dios[x]
         /\ inflight'[x] = inflight[x]
         /\ pc[x] \notin Putting => pc'[x] = pc[x]
         /\ pc[x] \in Putting => pc'[x] \in Putting
<1> USE DEF TypeOK, ShapeInv, Goto, sst, queues, request, follower, leader
<1>1. CASE Issue(t)
  BY <1>1 DEF Issue
<1>2. CASE LockStripe(t)
  BY <1>2 DEF LockStripe
<1>3. CASE LockBusy(t)
  BY <1>3 DEF LockBusy
<1>4. CASE SetOwner(t)
  BY <1>4 DEF SetOwner
<1>5. CASE Thaw(t)
  BY <1>5 DEF Thaw
<1>6. CASE Freeze(t)
  BY <1>6 DEF Freeze
<1>7. CASE LoadQueueLen(t)
  BY <1>7 DEF LoadQueueLen
<1>8. CASE CopyBatch(t)
  <2>1. /\ pc' = [pc EXCEPT ![t] = "resetlen"]
        /\ UNCHANGED <<queues, request, follower, qlen, inflight>>
        /\ \E D : bat_dios' = [bat_dios EXCEPT ![t] = D]
    BY <1>8 DEF CopyBatch
  <2>2. QED
    BY <2>1
<1>9. CASE ResetQueueLen(t)
  BY <1>9 DEF ResetQueueLen
<1>10. CASE Submit(t)
  <2>1. UNCHANGED <<queues, request, follower>>
    BY <1>10 DEF Submit
  <2>2. CASE UNCHANGED <<pc, leader>>
    BY <2>1, <2>2
  <2>3. CASE ~UNCHANGED <<pc, leader>>
    <3>1. /\ qlen' = [qlen EXCEPT ![t] = 0]
          /\ pc' = [pc EXCEPT ![t] = "await"]
          /\ \E D : bat_dios' = [bat_dios EXCEPT ![t] = D]
          /\ \E D : inflight' = [inflight EXCEPT ![t] = D]
      BY <1>10, <2>3 DEF Submit
    <3>2. QED
      BY <2>1, <3>1
  <2>4. QED
    BY <2>2, <2>3
<1>11. CASE AwaitIO(t)
  BY <1>11 DEF AwaitIO
<1>12. CASE ClearOwner(t)
  BY <1>12 DEF ClearOwner
<1>13. CASE Unlock(t)
  <2>1. Handled(t) /\ UNCHANGED <<queues, follower, leader>> /\ pc[t] # "idle"
    BY <1>13 DEF Unlock
  <2>2. QED
    BY <2>1 DEF Handled
<1>14. CASE CheckFrozen(t)
  BY <1>14 DEF CheckFrozen
<1>15. CASE LoadWid(t)
  BY <1>15 DEF LoadWid
<1>16. CASE RecheckFrozen(t)
  BY <1>16 DEF RecheckFrozen
<1>17. CASE Reserve(t)
  BY <1>17 DEF Reserve
<1>18. CASE Put(t)
  <2>1. /\ UNCHANGED <<request, leader>>
        /\ wid' = [wid EXCEPT ![t] = NoThread]
        /\ slot' = [slot EXCEPT ![t] = 0]
        /\ pc' = [u \in Threads |->
                    IF u = t THEN "wait"
                    ELSE IF u \in Pending(wid[t], slot[t]) \ {t} THEN "putraced"
                    ELSE pc[u]]
    BY <1>18 DEF Put
  <2>2. x \in Pending(wid[t], slot[t]) => pc[x] \in Putting
    BY DEF Pending
  <2>3. QED
    BY <2>1, <2>2 DEF Putting
<1>19. CASE WaitUnlock(t)
  <2>1. Handled(t) /\ UNCHANGED <<queues, follower, leader>> /\ pc[t] # "idle"
    BY <1>19 DEF WaitUnlock
  <2>2. QED
    BY <2>1 DEF Handled
<1>20. QED
  BY <1>1, <1>2, <1>3, <1>4, <1>5, <1>6, <1>7, <1>8, <1>9, <1>10, <1>11,
     <1>12, <1>13, <1>14, <1>15, <1>16, <1>17, <1>18, <1>19 DEF Step

LEMMA SlotStep ==
  ASSUME TypeOK, slot \in [Threads -> Nat], [Next]_vars
  PROVE  slot' \in [Threads -> Nat]
<1>1. ASSUME NEW t \in Threads, Reserve(t)
      PROVE  slot' \in [Threads -> Nat]
  <2>1. wid[t] \in Threads /\ inqueue_data_len[wid[t]] \in Nat
    BY <1>1 DEF Reserve, TypeOK
  <2>2. QED
    BY <1>1, <2>1 DEF Reserve
<1>2. ASSUME NEW t \in Threads, Put(t)
      PROVE  slot' \in [Threads -> Nat]
  BY <1>2 DEF Put
<1>3. QED
  BY <1>1, <1>2
     DEF Next, Terminating, vars, Step, CompleteIO, follower, Issue, LockStripe,
         LockBusy, SetOwner, Thaw, Freeze, LoadQueueLen, CopyBatch,
         ResetQueueLen, Submit, AwaitIO, ClearOwner, Unlock, CheckFrozen,
         LoadWid, RecheckFrozen, WaitUnlock

-----------------------------------------------------------------------------
(* A joined piece and its leader.                                          *)

Gathering == {"setowner", "thaw", "freeze", "loadqlen"}

(* The record d is in slot i of w's queue and nobody is storing there.     *)
Kept(w, i, d) == v_batchque2[w][i] = d /\ Pending(w, i) = {}

(* Where d is on its way from w's queue to the devices.                    *)
StillServes(w, d) ==
  \/ /\ pc[w] \in Gathering /\ ~IsFull(w)
     /\ \E i \in 0 .. inqueue_data_len[w] - 1 : Kept(w, i, d)
  \/ /\ pc[w] = "copy"
     /\ \E i \in 0 .. inqueue_data_len[w] - 1 : i < qlen[w] /\ Kept(w, i, d)
  \/ pc[w] \in {"resetlen", "submit"} /\ d \in bat_dios[w]
  \/ pc[w] = "await" /\ d \in inflight[w]

(* The follower u of the piece j waits for w, which still serves j.        *)
WaitsFor(j, u, w) ==
  /\ Op(u) = j.op /\ ck[u] = j.ck /\ pc[u] = "wait"
  /\ pc[w] \in Holding /\ Entry(w) = Entry(u) /\ StillServes(w, j.dio)

(* A DIO_Info whose buffer the device can read.                            *)
WellFormed(d) == d = Dio(d.dev, d.off, d.len, d.buf) /\ d.buf # NULL

JoinedInv ==
  /\ slot \in [Threads -> Nat]
  /\ \A j \in joined :
       /\ j.op[1] \in Threads /\ WellFormed(j.dio)
       /\ \/ Cells(j.dio) \subseteq landed
          \/ \E w \in Threads : WaitsFor(j, j.op[1], w)

(* A step of another thread leaves a kept record where it is: it reserves  *)
(* a later slot, and stores only to a slot it has reserved.                *)
LEMMA KeptByOthers ==
  ASSUME TypeOK, ShapeInv, slot \in [Threads -> Nat], ~aborted,
         NEW t \in Threads, Step(t), NEW w \in Threads \ {t}, NEW d,
         NEW i \in 0 .. inqueue_data_len[w] - 1, Kept(w, i, d)
  PROVE  i \in 0 .. inqueue_data_len'[w] - 1 /\ Kept(w, i, d)'
<1>1. /\ inqueue_data_len \in [Threads -> Nat] /\ wid \in [Threads -> Threads \union {NoThread}]
      /\ pc[t] \in Putting \union {"recheck", "reserve"} => wid[t] \in Threads
      /\ i \in 0 .. QUEUE_LEN - 1 /\ i \in Nat
  BY WriteAssumption DEF TypeOK, ShapeInv
<1>2. inqueue_data_len'[w] \in Nat /\ inqueue_data_len'[w] >= inqueue_data_len[w]
  <2>1. CASE ResetQueueLen(t)
    BY <1>1, <2>1 DEF ResetQueueLen
  <2>2. CASE Reserve(t)
    BY <1>1, <2>2 DEF Reserve
  <2>3. CASE ~ResetQueueLen(t) /\ ~Reserve(t)
    <3>1. inqueue_data_len' = inqueue_data_len
      BY <2>3
         DEF Step, queues, Issue, LockStripe, LockBusy, SetOwner, Thaw, Freeze,
             LoadQueueLen, CopyBatch, Submit, AwaitIO, ClearOwner, Unlock,
             CheckFrozen, LoadWid, RecheckFrozen, Put, WaitUnlock
    <3>2. QED
      BY <1>1, <3>1
  <2>4. QED
    BY <2>1, <2>2, <2>3
<1>3. ~(pc'[t] \in Putting /\ wid'[t] = w /\ slot'[t] = i)
  <2>1. CASE Reserve(t)
    <3>1. CASE inqueue_data_len[wid[t]] >= QUEUE_LEN
      BY <2>1, <3>1 DEF Reserve, Putting
    <3>2. CASE ~(inqueue_data_len[wid[t]] >= QUEUE_LEN)
      <4>1. wid' = wid /\ slot'[t] = inqueue_data_len[wid[t]]
        BY <2>1, <3>2 DEF Reserve
      <4>2. QED
        BY <1>1, <4>1
    <3>3. QED
      BY <3>1, <3>2
  <2>2. CASE ~Reserve(t)
    <3>1. pc'[t] \notin Putting
      <4>1. CASE Unlock(t) \/ WaitUnlock(t)
        BY <4>1, HandledTypes DEF Unlock, WaitUnlock, Putting
      <4>2. CASE Submit(t)
        BY <4>2 DEF Submit, Goto, Putting, TypeOK
      <4>3. CASE ~Unlock(t) /\ ~WaitUnlock(t) /\ ~Submit(t)
        BY <2>2, <4>3
           DEF Step, Goto, TypeOK, Putting, Issue, LockStripe, LockBusy,
               SetOwner, Thaw, Freeze, LoadQueueLen, CopyBatch, ResetQueueLen,
               AwaitIO, ClearOwner, CheckFrozen, LoadWid, RecheckFrozen, Put
      <4>4. QED
        BY <4>1, <4>2, <4>3
    <3>2. QED
      BY <3>1
  <2>3. QED
    BY <2>1, <2>2
<1>4. Pending(w, i)' = {}
  <2> SUFFICES ASSUME NEW x \in Threads, pc'[x] \in Putting, wid'[x] = w,
                      slot'[x] = i
               PROVE  FALSE
    BY DEF Pending
  <2>1. x # t
    BY <1>3
  <2>2. pc[x] \in Putting /\ wid[x] = w /\ slot[x] = i
    BY <2>1, StepIsLocal
  <2>3. QED
    BY <2>2 DEF Kept, Pending
<1>5. v_batchque2'[w][i] = d
  <2>1. CASE Put(t)
    <3>1. PICK e : v_batchque2' = [v_batchque2 EXCEPT ![wid[t]][slot[t]] = e]
      BY <2>1 DEF Put
    <3>2. ~(wid[t] = w /\ slot[t] = i)
      BY <2>1 DEF Put, Kept, Pending
    <3>3. QED
      BY <1>1, <3>1, <3>2 DEF ShapeInv, Kept
  <2>2. CASE ~Put(t)
    <3>1. v_batchque2' = v_batchque2
      BY <2>2
         DEF Step, queues, Issue, LockStripe, LockBusy, SetOwner, Thaw, Freeze,
             LoadQueueLen, CopyBatch, ResetQueueLen, Submit, AwaitIO,
             ClearOwner, Unlock, CheckFrozen, LoadWid, RecheckFrozen, Reserve,
             WaitUnlock
    <3>2. QED
      BY <3>1 DEF Kept
  <2>3. QED
    BY <2>1, <2>2
<1>6. QED
  BY <1>1, <1>2, <1>4, <1>5 DEF Kept

(* The leader's own steps up to its copy do not touch its queue.           *)
LEMMA KeptByLeader ==
  ASSUME TypeOK, ShapeInv, NEW w \in Threads,
         UNCHANGED <<v_batchque2, inqueue_data_len, wid, slot>>,
         NEW l \in Holding, pc' = [pc EXCEPT ![w] = l], pc[w] \in Holding,
         NEW i, NEW d, Kept(w, i, d)
  PROVE  Kept(w, i, d)'
<1>1. Pending(w, i)' = Pending(w, i)
  BY DEF Pending, TypeOK, Holding, Putting
<1>2. QED
  BY <1>1 DEF Kept

(* The records the leader copies include every one that is kept.           *)
LEMMA CopiesKept ==
  ASSUME NEW w \in Threads, NEW i, NEW d, WellFormed(d), Kept(w, i, d)
  PROVE  SlotValues(w, i) = {d}
<1>1. SlotValues(w, i) = Torn({d})
  BY DEF SlotValues, Kept
<1>2. Torn({d}) = {Dio(d.dev, d.off, d.len, d.buf)}
  <2>1. /\ {e.dev : e \in {d}} = {d.dev} /\ {e.off : e \in {d}} = {d.off}
        /\ {e.len : e \in {d}} = {d.len} /\ {e.buf : e \in {d}} = {d.buf}
    OBVIOUS
  <2>2. Torn({d}) = [dev : {d.dev}, off : {d.off}, len : {d.len}, buf : {d.buf}]
    BY <2>1 DEF Torn
  <2> DEFINE whole == [dev |-> d.dev, off |-> d.off, len |-> d.len, buf |-> d.buf]
  <2>3. ASSUME NEW f \in Torn({d}) PROVE f = whole
    <3>1. f \in [dev : {d.dev}, off : {d.off}, len : {d.len}, buf : {d.buf}]
      BY <2>2
    <3>2. QED
      BY <3>1
  <2>4. whole \in Torn({d})
    <3>1. whole \in [dev : {d.dev}, off : {d.off}, len : {d.len}, buf : {d.buf}]
      OBVIOUS
    <3>2. QED
      BY <2>2, <3>1
  <2>5. Dio(d.dev, d.off, d.len, d.buf) = whole
    BY DEF Dio
  <2> HIDE DEF whole
  <2>6. QED
    BY <2>3, <2>4, <2>5
<1>3. QED
  BY <1>1, <1>2 DEF WellFormed

(* The follower cannot go on: its leader still holds the entry.            *)
LEMMA FollowerWaits ==
  ASSUME WriteInv, NEW u \in Threads, NEW w \in Threads,
         pc[u] = "wait", pc[w] \in Holding, Entry(w) = Entry(u)
  PROVE  u # w /\ ~Step(u)
<1>1. Entry(u) \in Stripes /\ stripe_lock[Entry(u)]
  BY EntryInTable DEF WriteInv, LockExclusive, Holds
<1>2. u # w
  BY DEF Holding
<1>3. QED
  BY <1>1, <1>2
     DEF Step, Issue, LockStripe, LockBusy, SetOwner, Thaw, Freeze,
         LoadQueueLen, CopyBatch, ResetQueueLen, Submit, AwaitIO, ClearOwner,
         Unlock, CheckFrozen, LoadWid, RecheckFrozen, Reserve, Put, Putting,
         WaitUnlock

(* A thread that is neither the follower nor its leader does not come      *)
(* between them.                                                           *)
LEMMA OthersLeaveServing ==
  ASSUME TypeOK, ShapeInv, slot \in [Threads -> Nat], ~aborted,
         NEW t \in Threads, Step(t), NEW w \in Threads \ {t}, NEW d,
         StillServes(w, d)
  PROVE  StillServes(w, d)'
<1>1. pc[w] \notin Putting
  BY DEF StillServes, Gathering, Putting
<1>2. /\ pc'[w] = pc[w] /\ uio'[w] = uio[w] /\ ck'[w] = ck[w]
      /\ qlen'[w] = qlen[w] /\ bat_dios'[w] = bat_dios[w]
      /\ inflight'[w] = inflight[w]
  BY <1>1, StepIsLocal
<1>3. IsFull(w)' = IsFull(w)
  BY <1>2 DEF IsFull, suio
<1>4. CASE pc[w] \in Gathering \union {"copy"}
  <2>1. PICK i \in 0 .. inqueue_data_len[w] - 1 :
          Kept(w, i, d) /\ (pc[w] = "copy" => i < qlen[w])
    BY <1>4 DEF StillServes, Gathering
  <2>2. i \in 0 .. inqueue_data_len'[w] - 1 /\ Kept(w, i, d)'
    BY <2>1, KeptByOthers
  <2>3. QED
    BY <1>2, <1>3, <2>1, <2>2 DEF StillServes, Gathering
<1>5. CASE pc[w] \notin Gathering \union {"copy"}
  BY <1>2, <1>5 DEF StillServes
<1>6. QED
  BY <1>4, <1>5

(* The leader moves the record on: from the queue, into the batch it       *)
(* copies, into what it submits.                                           *)
LEMMA LeaderKeepsServing ==
  ASSUME TypeOK, ShapeInv, slot \in [Threads -> Nat], NEW w \in Threads,
         Step(w), NEW d, WellFormed(d), StillServes(w, d)
  PROVE  StillServes(w, d)' /\ pc'[w] \in Holding /\ uio'[w] = uio[w]
<1> USE DEF TypeOK, ShapeInv, Goto, sst, queues, request, follower, leader
<1>1. inqueue_data_len[w] \in Nat
  OBVIOUS
<1>2. CASE pc[w] \in Gathering
  <2>1. PICK i \in 0 .. inqueue_data_len[w] - 1 : Kept(w, i, d)
    BY <1>2 DEF StillServes, Gathering
  <2>2. ~IsFull(w) /\ i \in Nat /\ inqueue_data_len[w] > 0
    BY <1>1, <1>2, <2>1 DEF StillServes, Gathering
  <2>3. PICK l \in Holding :
          /\ pc' = [pc EXCEPT ![w] = l]
          /\ l \in Gathering \union {"copy"}
          /\ l = "copy" => qlen'[w] = inqueue_data_len[w]
          /\ UNCHANGED <<queues, wid, slot, uio, ck>>
    <3>1. CASE SetOwner(w)
      BY <3>1 DEF SetOwner, Gathering, Holding
    <3>2. CASE Thaw(w)
      BY <3>2 DEF Thaw, Gathering, Holding
    <3>3. CASE Freeze(w)
      BY <2>2, <3>3 DEF Freeze, Gathering, Holding
    <3>4. CASE LoadQueueLen(w)
      BY <2>2, <3>4 DEF LoadQueueLen, Gathering, Holding
    <3>5. QED
      BY <1>2, <3>1, <3>2, <3>3, <3>4
         DEF Gathering, Step, Issue, LockStripe, LockBusy, CopyBatch,
             ResetQueueLen, Submit, AwaitIO, ClearOwner, Unlock, CheckFrozen,
             LoadWid, RecheckFrozen, Reserve, Put, Putting, WaitUnlock
  <2>4. pc[w] \in Holding
    BY <1>2 DEF Gathering, Holding
  <2>5. Kept(w, i, d)'
    BY <2>1, <2>3, <2>4, KeptByLeader
  <2>6. IsFull(w)' = IsFull(w)
    BY <2>3 DEF IsFull, suio
  <2>7. pc'[w] = l /\ inqueue_data_len' = inqueue_data_len
    BY <2>3
  <2>8. QED
    BY <2>1, <2>2, <2>3, <2>5, <2>6, <2>7 DEF StillServes
<1>3. CASE pc[w] = "copy"
  <2>1. PICK i \in 0 .. inqueue_data_len[w] - 1 : i < qlen[w] /\ Kept(w, i, d)
    BY <1>3 DEF StillServes, Gathering
  <2>2. CopyBatch(w)
    BY <1>3
       DEF Step, Issue, LockStripe, LockBusy, SetOwner, Thaw, Freeze,
           LoadQueueLen, ResetQueueLen, Submit, AwaitIO, ClearOwner, Unlock,
           CheckFrozen, LoadWid, RecheckFrozen, Reserve, Put, Putting,
           WaitUnlock
  <2> DEFINE I == 0 .. qlen[w] - 1
  <2>3. PICK f \in [I -> UNION {SlotValues(w, k) : k \in I}] :
          /\ \A k \in I : f[k] \in SlotValues(w, k)
          /\ bat_dios' = [bat_dios EXCEPT ![w] = {f[k] : k \in I}]
    BY <2>2 DEF CopyBatch
  <2>4. i \in I
    BY <1>1, <2>1
  <2>5. SlotValues(w, i) = {d}
    BY <2>1, CopiesKept
  <2>6. d = f[i] /\ d \in {f[k] : k \in I}
    BY <2>3, <2>4, <2>5
  <2>7. d \in bat_dios'[w]
    BY <2>3, <2>6
  <2>8. pc'[w] = "resetlen" /\ uio'[w] = uio[w]
    BY <2>2 DEF CopyBatch
  <2>9. QED
    BY <2>7, <2>8 DEF StillServes, Holding
<1>4. CASE pc[w] \in {"resetlen", "submit"}
  <2>1. d \in bat_dios[w]
    BY <1>4 DEF StillServes, Gathering
  <2>2. CASE ResetQueueLen(w)
    BY <2>1, <2>2 DEF ResetQueueLen, StillServes, Holding
  <2>3. CASE Submit(w)
    <3>1. CASE UNCHANGED <<pc, leader>>
      BY <1>4, <2>1, <2>3, <3>1 DEF Submit, StillServes, Holding
    <3>2. CASE ~UNCHANGED <<pc, leader>>
      <4>1. /\ pc'[w] = "await" /\ uio' = uio
            /\ \E D, e : inflight' = [inflight EXCEPT ![w] = D \union bat_dios[w] \union {e}]
        BY <2>3, <3>2 DEF Submit
      <4>2. d \in inflight'[w]
        BY <2>1, <4>1
      <4>3. QED
        BY <4>1, <4>2 DEF StillServes, Holding
    <3>3. QED
      BY <3>1, <3>2
  <2>4. QED
    BY <1>4, <2>2, <2>3
       DEF Step, Issue, LockStripe, LockBusy, SetOwner, Thaw, Freeze,
           LoadQueueLen, CopyBatch, AwaitIO, ClearOwner, Unlock,
           CheckFrozen, LoadWid, RecheckFrozen, Reserve, Put, Putting,
           WaitUnlock
<1>5. CASE pc[w] = "await"
  BY <1>5
     DEF StillServes, Gathering, Step, Issue, LockStripe, LockBusy, SetOwner, Thaw, Freeze,
         LoadQueueLen, CopyBatch, ResetQueueLen, Submit, AwaitIO, ClearOwner,
         Unlock, CheckFrozen, LoadWid, RecheckFrozen, Reserve, Put, Putting,
         WaitUnlock
<1>6. QED
  BY <1>2, <1>3, <1>4, <1>5 DEF StillServes

(* The piece a follower has just stored into an open turn.                 *)
LEMMA JoinIsServed ==
  ASSUME WriteInv, ShapeInv, slot \in [Threads -> Nat], ~aborted,
         NEW t \in Threads, Put(t), OpenTurn(t),
         NEW w \in Threads, w = wid[t], NEW i \in Nat, i = slot[t], NEW j,
         j = [op |-> Op(t), ck |-> ck[t], dio |-> FollowerDio(t)]
  PROVE  j.op[1] = t /\ WellFormed(j.dio) /\ WaitsFor(j, t, w)'
<1> DEFINE d == j.dio
<1>1. /\ pc[t] = "put" /\ w \in Threads /\ pc[w] \in Gathering
      /\ Entry(w) = Entry(t) /\ ~IsFull(w) /\ i \in 0 .. inqueue_data_len[w] - 1
      /\ Pending(w, i) = {t}
      /\ d = FollowerDio(t)
  BY DEF OpenTurn, WriteInv, TypeOK, Putting, Gathering
<1>2. /\ pc' = [u \in Threads |-> IF u = t THEN "wait" ELSE pc[u]]
      /\ v_batchque2' = [v_batchque2 EXCEPT ![w][i] = d]
      /\ wid' = [wid EXCEPT ![t] = NoThread] /\ slot' = [slot EXCEPT ![t] = 0]
      /\ UNCHANGED <<inqueue_data_len, uio, ck, io_count>>
  BY <1>1 DEF Put, request
<1>3. w # t
  BY <1>1 DEF Gathering
<1>4. i \in 0 .. QUEUE_LEN - 1
  BY <1>1, WriteAssumption DEF ShapeInv, WriteInv, TypeOK
<1>5. v_batchque2'[w][i] = d
  BY <1>1, <1>2, <1>4 DEF ShapeInv
<1>6. Pending(w, i)' = {}
  <2> SUFFICES ASSUME NEW x \in Threads, pc'[x] \in Putting, wid'[x] = w,
                      slot'[x] = i
               PROVE  FALSE
    BY DEF Pending
  <2>1. x # t /\ pc[x] \in Putting
    BY <1>2 DEF Putting
  <2>2. wid[x] = w /\ slot[x] = i
    BY <1>2, <2>1 DEF WriteInv, TypeOK
  <2>3. QED
    BY <1>1, <2>1, <2>2 DEF Pending
<1>7. /\ pc'[t] = "wait" /\ pc'[w] = pc[w] /\ Op(t)' = Op(t) /\ ck' = ck
      /\ Entry(w)' = Entry(w) /\ Entry(t)' = Entry(t) /\ IsFull(w)' = IsFull(w)
  BY <1>1, <1>2, <1>3 DEF Op, Entry, IsFull, suio
<1>8. StillServes(w, d)'
  BY <1>1, <1>2, <1>5, <1>6, <1>7 DEF StillServes, Kept
<1>9. j.op = Op(t) /\ j.ck = ck[t] /\ j.dio = d /\ j.op[1] = t
  BY DEF Op
<1>10. WellFormed(d)
  <2>1. d = Dio(d.dev, d.off, d.len, d.buf)
    BY <1>1 DEF FollowerDio, s_uio2dio, Dio
  <2>2. d.buf.op = <<t, io_count[t]>>
    BY <1>1, FollowerTag
  <2>3. NULL.op = <<NoThread, 0>> /\ NoThread # t
    BY WriteAssumption DEF NULL
  <2> HIDE DEF d
  <2>4. d.buf # NULL
    BY <2>2, <2>3
  <2>5. QED
    BY <2>1, <2>4 DEF WellFormed
<1>11. WaitsFor(j, t, w)'
  BY <1>1, <1>7, <1>8, <1>9 DEF WaitsFor, Gathering, Holding
<1>12. QED
  BY <1>9, <1>10, <1>11

LEMMA JoinedStep ==
  ASSUME WriteInv, ShapeInv, JoinedInv, [Next]_vars
  PROVE  JoinedInv'
<1>1. slot' \in [Threads -> Nat]
  BY SlotStep DEF WriteInv, JoinedInv
<1>2. ASSUME NEW t \in Threads, Step(t), ~aborted, NEW j \in joined
      PROVE  \/ Cells(j.dio) \subseteq landed'
             \/ \E w \in Threads : WaitsFor(j, j.op[1], w)'
  <2> DEFINE u == j.op[1]
             d == j.dio
  <2>1. landed' = landed
    BY <1>2
       DEF Step, Issue, LockStripe, LockBusy, SetOwner, Thaw, Freeze,
           LoadQueueLen, CopyBatch, ResetQueueLen, Submit, AwaitIO, ClearOwner,
           Unlock, CheckFrozen, LoadWid, RecheckFrozen, Reserve, Put,
           WaitUnlock, history
  <2>2. CASE Cells(d) \subseteq landed
    BY <2>1, <2>2
  <2>3. ASSUME NEW w \in Threads, WaitsFor(j, u, w)
        PROVE  WaitsFor(j, u, w)'
    <3>1. /\ u \in Threads /\ pc[u] = "wait" /\ pc[w] \in Holding
          /\ Entry(w) = Entry(u) /\ StillServes(w, d) /\ WellFormed(d)
      BY <2>3 DEF JoinedInv, WaitsFor
    <3>2. u # w /\ t # u
      BY <1>2, <3>1, FollowerWaits
    <3>3. /\ uio'[u] = uio[u] /\ io_count'[u] = io_count[u] /\ ck'[u] = ck[u]
          /\ pc'[u] = "wait"
      BY <1>2, <3>1, <3>2, StepIsLocal DEF WriteInv, JoinedInv, Putting
    <3>4. StillServes(w, d)' /\ pc'[w] \in Holding /\ uio'[w] = uio[w]
      <4>1. CASE t = w
        BY <1>2, <3>1, <4>1, LeaderKeepsServing DEF WriteInv, JoinedInv
      <4>2. CASE t # w
        <5>1. StillServes(w, d)'
          BY <1>2, <3>1, <4>2, OthersLeaveServing DEF WriteInv, JoinedInv
        <5>2. pc'[w] = pc[w] /\ uio'[w] = uio[w]
          BY <1>2, <3>1, <4>2, StepIsLocal
             DEF WriteInv, JoinedInv, Putting, Holding
        <5>3. QED
          BY <3>1, <5>1, <5>2
      <4>3. QED
        BY <4>1, <4>2
    <3>5. Op(u)' = Op(u) /\ Entry(u)' = Entry(u) /\ Entry(w)' = Entry(w)
      BY <3>3, <3>4 DEF Op, Entry
    <3>6. QED
      BY <2>3, <3>3, <3>4, <3>5 DEF WaitsFor
  <2>4. QED
    BY <2>2, <2>3 DEF JoinedInv
<1>3. ASSUME NEW t \in Threads, Step(t), ~aborted
      PROVE  JoinedInv'
  <2>1. CASE joined' = joined
    BY <1>1, <1>2, <1>3, <2>1 DEF JoinedInv
  <2>2. CASE joined' # joined
    <3>1. Put(t)
      BY <1>3, <2>2
         DEF Step, Issue, LockStripe, LockBusy, SetOwner, Thaw, Freeze,
             LoadQueueLen, CopyBatch, ResetQueueLen, Submit, AwaitIO,
             ClearOwner, Unlock, CheckFrozen, LoadWid, RecheckFrozen, Reserve,
             WaitUnlock, history
    <3>2. PICK new : new = [op |-> Op(t), ck |-> ck[t], dio |-> FollowerDio(t)]
      OBVIOUS
    <3>3. OpenTurn(t) /\ joined' = joined \union {new}
      BY <2>2, <3>1, <3>2 DEF Put
    <3>4. PICK w \in Threads : w = wid[t]
      BY <3>1 DEF Put, WriteInv, TypeOK
    <3>5. PICK i \in Nat : i = slot[t]
      BY DEF JoinedInv
    <3>6. new.op[1] = t /\ WellFormed(new.dio) /\ WaitsFor(new, t, w)'
      BY <1>3, <3>1, <3>2, <3>3, <3>4, <3>5, JoinIsServed DEF JoinedInv
    <3>7. QED
      BY <1>1, <1>2, <1>3, <3>3, <3>6 DEF JoinedInv
  <2>3. QED
    BY <2>1, <2>2
<1>4. ASSUME NEW t \in Threads, CompleteIO(t)
      PROVE  JoinedInv'
  <2>1. PICK d \in inflight[t] :
          /\ inflight' = [inflight EXCEPT ![t] = @ \ {d}]
          /\ landed' = IF d.buf = NULL THEN landed ELSE landed \union Cells(d)
    BY <1>4 DEF CompleteIO
  <2>2. UNCHANGED <<queues, pc, request, follower, qlen, bat_dios, joined>>
    BY <1>4 DEF CompleteIO
  <2>3. ASSUME NEW j \in joined, NEW w \in Threads, WaitsFor(j, j.op[1], w)
        PROVE  Cells(j.dio) \subseteq landed' \/ WaitsFor(j, j.op[1], w)'
    <3>1. WellFormed(j.dio)
      BY DEF JoinedInv
    <3>2. CASE pc[w] = "await"
      <4>1. j.dio \in inflight[w]
        BY <2>3, <3>2 DEF WaitsFor, StillServes, Gathering
      <4>2. CASE j.dio = d
        BY <2>1, <3>1, <4>2 DEF WellFormed
      <4>3. CASE j.dio # d
        <5>1. j.dio \in inflight'[w]
          BY <2>1, <4>1, <4>3 DEF ShapeInv
        <5>2. QED
          BY <2>2, <2>3, <3>2, <5>1
             DEF WaitsFor, StillServes, Op, Entry, request
      <4>4. QED
        BY <4>2, <4>3
    <3>3. CASE pc[w] # "await"
      BY <2>2, <2>3, <3>3
         DEF WaitsFor, StillServes, Kept, Pending, IsFull, suio, Op, Entry,
             request, queues, follower
    <3>4. QED
      BY <3>2, <3>3
  <2>4. landed \subseteq landed'
    BY <2>1
  <2>5. QED
    BY <1>1, <2>2, <2>3, <2>4 DEF JoinedInv
<1>5. CASE UNCHANGED vars
  BY <1>1, <1>5
     DEF JoinedInv, WaitsFor, StillServes, Kept, Pending, IsFull, suio, Op,
         Entry, vars, request, queues, follower, leader, history
<1>6. QED
  BY <1>3, <1>4, <1>5 DEF Next, Terminating

(* A piece whose DIO_Info was complete in the queue before its leader read *)
(* the queue's length is on the device when raid_write_direct goes past    *)
(* it, whatever the threads and the requests.                              *)
THEOREM JoinedIsServed == Spec => []JoinedServed
<1>1. Init => ShapeInv /\ JoinedInv
  <2>1. Init => ShapeInv
    BY CollisionInit DEF CollisionInv
  <2>2. Init => JoinedInv
    BY DEF Init, JoinedInv
  <2>3. QED
    BY <2>1, <2>2
<1>2. WriteInv /\ ShapeInv /\ JoinedInv /\ [Next]_vars => ShapeInv' /\ JoinedInv'
  BY ShapeStep, JoinedStep DEF WriteInv
<1>3. JoinedInv => JoinedServed
  BY DEF JoinedInv, JoinedServed, WaitsFor
<1>4. QED
  BY <1>1, <1>2, <1>3, WriteInvariant, PTL DEF Spec

-----------------------------------------------------------------------------
(* How long a batch queue grows.  Between two times w's queue is empty,    *)
(* each other thread has at most two chances to append to it: one with an  *)
(* owner it loaded before w's present turn on its stripe, one in that      *)
(* turn.  Chances counts those that u has left.                            *)

(* Without full-stripe writes every turn drains its leader's queue.        *)
PartialOnly ==
  \A r \in Requests : \A k \in 0 .. NumPieces(r) - 1 :
    ~is_fullstripe(Piece(r, k).off, Piece(r, k).len)

Filling == {"setowner", "thaw", "freeze", "loadqlen", "copy", "resetlen"}
Drained == {"submit", "await", "clearowner"}

Same(u, w) == Entry(u) = Entry(w)

(* w has u's stripe, and has not emptied its queue since it took it.       *)
InTurn(u, w) == Same(u, w) /\ pc[w] \in Filling

(* u may append to w's queue without looking at the owner again.           *)
Armed(u, w) == pc[u] \in {"recheck", "reserve"} /\ wid[u] = w

(* u may still load a name that w is about to take away.                   *)
Late(u, w) == pc[u] = "loadwid" /\ Same(u, w) /\ pc[w] \in Drained

Appended(u) == pc[u] \in Putting \union {"wait"}

Chances(u, w) ==
  IF Appended(u) THEN IF InTurn(u, w) THEN 0 ELSE 1
  ELSE IF (Armed(u, w) /\ ~InTurn(u, w)) \/ Late(u, w) THEN 2 ELSE 1

(* Each other thread's used chances, one element for each.                 *)
Used(w) == {x \in (Threads \ {w}) \X {1, 2} : x[2] > Chances(x[1], w)}

CountInv ==
  \A w \in Threads :
    /\ ~aborted => inqueue_data_len[w] <= Cardinality(Used(w))
    /\ inqueue_data_len[w] <= 2 * (Cardinality(Threads) - 1)

LEMMA NeverFull ==
  ASSUME PartialOnly, TypeOK, NEW w \in Threads
  PROVE  ~IsFull(w)
<1>1. uio[w] \in Requests /\ ck[w] \in 0 .. NumPieces(uio[w]) - 1
  <2>1. NumPieces(uio[w]) \in Nat \ {0}
    BY PiecesPositive DEF TypeOK
  <2>2. QED
    BY <2>1 DEF TypeOK
<1>2. QED
  BY <1>1 DEF PartialOnly, IsFull, suio

(* w's queue is emptied, or found to be empty.                             *)
Drains(w) ==
  \/ ResetQueueLen(w)
  \/ LoadQueueLen(w) /\ inqueue_data_len[w] = 0

(* Until then nobody's chances grow.  First, the steps of the thread       *)
(* itself.                                                                 *)
LEMMA OwnChances ==
  ASSUME WriteInv, FrozenInv, ShapeInv, slot \in [Threads -> Nat],
         NEW w \in Threads, NEW u \in Threads \ {w}, Step(u)
  PROVE  /\ Chances(u, w)' <= Chances(u, w)
         /\ pc[u] = "reserve" /\ wid[u] = w /\ pc'[u] = "put" =>
              Chances(u, w)' = Chances(u, w) - 1
<1> DEFINE F == pc[w] \in Filling
           D == pc[w] \in Drained
<1>1. /\ pc[w] \in Putting => pc'[w] \in Putting
      /\ pc[w] \notin Putting => pc'[w] = pc[w]
      /\ uio'[w] = uio[w]
  BY StepIsLocal DEF WriteInv
<1>2. /\ pc'[w] \in Filling <=> pc[w] \in Filling
      /\ pc'[w] \in Drained <=> pc[w] \in Drained
      /\ Entry(w)' = Entry(w)
  BY <1>1 DEF Filling, Drained, Putting, Entry
<1>3. /\ pc \in [Threads -> Locals] /\ wid \in [Threads -> Threads \union {NoThread}]
      /\ uio \in [Threads -> Requests]
  BY DEF WriteInv, TypeOK, Locals
<1>4. ASSUME uio'[u] = uio[u] PROVE Same(u, w)' = Same(u, w)
  BY <1>2, <1>4 DEF Same, Entry
<1> USE DEF Chances, Appended, InTurn, Armed, Late, Putting
<1>5. CASE pc[u] \in Putting
  <2>1. pc'[u] = "wait" /\ uio' = uio
    BY <1>5
       DEF Step, Issue, LockStripe, LockBusy, SetOwner, Thaw, Freeze,
           LoadQueueLen, CopyBatch, ResetQueueLen, Submit, AwaitIO, ClearOwner,
           Unlock, CheckFrozen, LoadWid, RecheckFrozen, Reserve, Put,
           WaitUnlock, request
  <2>2. QED
    BY <1>2, <1>4, <1>5, <2>1
<1>6. CASE pc[u] = "wait"
  <2>1. ~InTurn(u, w)
    BY <1>6, FollowerWaits DEF Filling, Holding, Same
  <2>2. pc'[u] \in {"idle", "trylock"}
    BY <1>6, HandledTypes
       DEF WriteInv, Step, Issue, LockStripe, LockBusy, SetOwner, Thaw, Freeze,
           LoadQueueLen, CopyBatch, ResetQueueLen, Submit, AwaitIO, ClearOwner,
           Unlock, CheckFrozen, LoadWid, RecheckFrozen, Reserve, Put,
           WaitUnlock
  <2>3. QED
    BY <1>6, <2>1, <2>2
<1>7. CASE Reserve(u)
  <2>1. /\ pc[u] = "reserve" /\ uio' = uio /\ wid' = wid
        /\ pc'[u] = "put" \/ pc'[u] = "reserve"
    BY <1>3, <1>7 DEF Reserve, Goto, request
  <2>2. QED
    BY <1>2, <1>4, <2>1
<1>8. CASE RecheckFrozen(u)
  <2>1. /\ pc[u] = "recheck" /\ uio' = uio
        /\ \/ pc'[u] = "trylock"
           \/ pc'[u] = "reserve" /\ wid' = wid
    BY <1>3, <1>8 DEF RecheckFrozen, Goto, request
  <2>2. QED
    BY <1>2, <1>4, <2>1
<1>9. CASE LoadWid(u)
  <2>1. /\ pc[u] = "loadwid" /\ uio' = uio
        /\ \/ pc'[u] = "trylock"
           \/ /\ pc'[u] = "recheck" /\ wid'[u] = SSTthreadid[Entry(u)]
              /\ SSTthreadid[Entry(u)] # NoThread
    BY <1>3, <1>9 DEF LoadWid, Goto, request
  <2>2. CASE pc'[u] = "trylock"
    BY <2>1, <2>2
  <2>3. CASE pc'[u] # "trylock" /\ wid'[u] # w
    BY <2>1, <2>3
  <2>4. CASE pc'[u] # "trylock" /\ wid'[u] = w
    <3>1. Entry(w) = Entry(u) /\ pc[w] \in Named
      BY <2>1, <2>4, EntryInTable DEF WriteInv, OwnerInv
    <3>2. InTurn(u, w) \/ Late(u, w)
      BY <2>1, <3>1 DEF Named, Holding, Filling, Drained, Same
    <3>3. QED
      BY <1>2, <1>4, <2>1, <2>4, <3>2
  <2>5. QED
    BY <2>2, <2>3, <2>4
<1>10. CASE CheckFrozen(u)
  <2>1. /\ pc[u] = "checkfrozen" /\ uio' = uio
        /\ \/ pc'[u] = "trylock"
           \/ pc'[u] = "loadwid" /\ ~is_frozen[Entry(u)]
    BY <1>3, <1>10 DEF CheckFrozen, Goto, request
  <2>2. ~(pc'[u] = "loadwid" /\ Same(u, w) /\ pc[w] \in Drained)
    BY <2>1 DEF FrozenInv, Same, Drained, Closed
  <2>3. QED
    BY <1>2, <1>4, <2>1, <2>2
<1>11. CASE ~(\/ Reserve(u) \/ RecheckFrozen(u) \/ LoadWid(u) \/ CheckFrozen(u)
              \/ pc[u] \in Putting \union {"wait"})
  <2>1. /\ pc[u] \notin Putting \union {"wait", "recheck", "reserve", "loadwid"}
        /\ pc'[u] \notin Putting \union {"wait", "recheck", "reserve", "loadwid"}
    <3>1. CASE Unlock(u)
      BY <3>1, HandledTypes DEF WriteInv, Unlock
    <3>2. CASE Submit(u)
      BY <1>3, <3>2 DEF Submit, Goto
    <3>3. CASE ~Unlock(u) /\ ~Submit(u)
      BY <1>3, <1>11, <3>3
         DEF Step, Goto, Issue, LockStripe, LockBusy, SetOwner, Thaw, Freeze,
             LoadQueueLen, CopyBatch, ResetQueueLen, AwaitIO, ClearOwner,
             Put, WaitUnlock
    <3>4. QED
      BY <3>1, <3>2, <3>3
  <2>2. QED
    BY <2>1
<1>12. QED
  BY <1>5, <1>6, <1>7, <1>8, <1>9, <1>10, <1>11

(* Then the steps of the others, w's among them.                           *)
LEMMA OthersChances ==
  ASSUME WriteInv, ShapeInv, slot \in [Threads -> Nat], PartialOnly,
         NEW w \in Threads, NEW u \in Threads \ {w}, NEW t \in Threads \ {u},
         Step(t), ~Drains(w)
  PROVE  Chances(u, w)' <= Chances(u, w)
<1>1. /\ pc[u] \in Putting => pc'[u] \in Putting
      /\ pc[u] \notin Putting => pc'[u] = pc[u]
      /\ uio'[u] = uio[u] /\ wid'[u] = wid[u]
  BY StepIsLocal DEF WriteInv
<1>2. /\ Appended(u)' <=> Appended(u)
      /\ Armed(u, w)' <=> Armed(u, w)
      /\ pc'[u] = "loadwid" <=> pc[u] = "loadwid"
      /\ Entry(u)' = Entry(u)
  BY <1>1 DEF Appended, Armed, Putting, Entry
<1>3. /\ InTurn(u, w) => InTurn(u, w)'
      /\ Late(u, w)' => Late(u, w)
  <2>1. CASE t # w
    <3>1. /\ pc[w] \in Putting => pc'[w] \in Putting
          /\ pc[w] \notin Putting => pc'[w] = pc[w]
          /\ uio'[w] = uio[w]
      BY <2>1, StepIsLocal DEF WriteInv
    <3>2. QED
      BY <1>2, <3>1 DEF InTurn, Late, Same, Entry, Filling, Drained, Putting
  <2>2. CASE t = w
    <3>1. /\ pc[w] \in Filling =>
               pc'[w] \in Filling /\ uio'[w] = uio[w]
          /\ pc'[w] \in Drained => pc[w] \in Drained /\ uio'[w] = uio[w]
      <4> USE DEF Goto, WriteInv, TypeOK, Filling, Drained, request
      <4>1. CASE Unlock(w) \/ WaitUnlock(w)
        BY <4>1, HandledTypes DEF Unlock, WaitUnlock
      <4>2. CASE Submit(w)
        BY <4>2 DEF Submit
      <4>3. CASE Freeze(w)
        BY <4>3, NeverFull DEF Freeze
      <4>4. CASE LoadQueueLen(w)
        BY <2>2, <4>4 DEF LoadQueueLen, Drains
      <4>5. CASE Put(w)
        BY <4>5 DEF Put, Putting
      <4>6. CASE Issue(w)
        BY <4>6 DEF Issue
      <4>7. CASE LoadWid(w) \/ RecheckFrozen(w) \/ CheckFrozen(w)
        BY <4>7 DEF LoadWid, RecheckFrozen, CheckFrozen
      <4>8. CASE Reserve(w)
        BY <4>8 DEF Reserve
      <4>9. CASE LockStripe(w) \/ LockBusy(w) \/ SetOwner(w) \/ Thaw(w)
        BY <4>9 DEF LockStripe, LockBusy, SetOwner, Thaw
      <4>10. CASE CopyBatch(w) \/ AwaitIO(w) \/ ClearOwner(w)
        BY <4>10 DEF CopyBatch, AwaitIO, ClearOwner
      <4>11. ~ResetQueueLen(w)
        BY DEF Drains
      <4>12. QED
        BY <2>2, <4>1, <4>2, <4>3, <4>4, <4>5, <4>6, <4>7, <4>8, <4>9, <4>10,
           <4>11 DEF Step
    <3>2. QED
      BY <1>2, <3>1 DEF InTurn, Late, Same, Entry
  <2>3. QED
    BY <2>1, <2>2
<1>4. QED
  BY <1>2, <1>3 DEF Chances

LEMMA ChancesFall ==
  ASSUME WriteInv, FrozenInv, ShapeInv, slot \in [Threads -> Nat], PartialOnly,
         NEW w \in Threads, NEW t \in Threads, Step(t), ~Drains(w)
  PROVE  Used(w) \subseteq Used(w)'
<1>1. ASSUME NEW u \in Threads \ {w} PROVE Chances(u, w)' <= Chances(u, w)
  BY OwnChances, OthersChances
<1>2. \A u \in Threads \ {w} : Chances(u, w) \in 0 .. 2 /\ Chances(u, w)' \in 0 .. 2
  BY DEF Chances
<1>3. QED
  BY <1>1, <1>2 DEF Used

(* Each other thread has two chances to lose.                              *)
LEMMA AllChances ==
  ASSUME IsFiniteSet(Threads), NEW w \in Threads,
         NEW S, S \subseteq (Threads \ {w}) \X {1, 2}
  PROVE  /\ IsFiniteSet(S) /\ Cardinality(S) \in Nat
         /\ Cardinality(S) <= 2 * (Cardinality(Threads) - 1)
         /\ Cardinality(Threads) - 1 \in Nat
<1> DEFINE Others == Threads \ {w}
           n == Cardinality(Others)
<1>1. /\ IsFiniteSet(Others) /\ n = Cardinality(Threads) - 1 /\ n \in Nat
  BY FS_RemoveElement, FS_CardinalityType
<1>2. IsFiniteSet({1, 2}) /\ Cardinality({1, 2}) = 2
  <2>1. IsFiniteSet({1}) /\ Cardinality({1}) = 1 /\ {1, 2} = {1} \union {2}
    BY FS_Singleton
  <2>2. /\ IsFiniteSet({1} \union {2})
        /\ Cardinality({1} \union {2}) = Cardinality({1}) + 1
    BY <2>1, FS_AddElement
  <2>3. QED
    BY <2>1, <2>2
<1>3. IsFiniteSet(Others \X {1, 2}) /\ Cardinality(Others \X {1, 2}) = n * 2
  BY <1>1, <1>2, FS_Product
<1>4. /\ IsFiniteSet(S) /\ Cardinality(S) <= Cardinality(Others \X {1, 2})
      /\ Cardinality(S) \in Nat
  BY <1>3, FS_Subset, FS_CardinalityType
<1> HIDE DEF n, Others
<1>5. QED
  BY <1>1, <1>3, <1>4

LEMMA CountStep ==
  ASSUME PartialOnly, IsFiniteSet(Threads), WriteInv, FrozenInv, CollisionInv,
         slot \in [Threads -> Nat], CountInv, [Next]_vars
  PROVE  CountInv'
<1> ShapeInv /\ ForeignInv
  BY DEF CollisionInv
<1>1. \A w \in Threads : inqueue_data_len[w] \in Nat
  BY DEF WriteInv, TypeOK
<1>2. \A w \in Threads : Used(w) \subseteq (Threads \ {w}) \X {1, 2}
  BY DEF Used
<1>3. \A w \in Threads : Used(w)' \subseteq (Threads \ {w}) \X {1, 2}
  BY DEF Used
<1>4. ASSUME NEW w \in Threads, inqueue_data_len'[w] \in Nat,
             inqueue_data_len'[w] <= Cardinality(Used(w)')
      PROVE  inqueue_data_len'[w] <= 2 * (Cardinality(Threads) - 1)
  <2>1. /\ Cardinality(Used(w)') \in Nat /\ Cardinality(Threads) - 1 \in Nat
        /\ Cardinality(Used(w)') <= 2 * (Cardinality(Threads) - 1)
    BY <1>3, AllChances
  <2>2. QED
    BY <1>4, <2>1
<1>5. ASSUME NEW t \in Threads, Step(t), ~aborted, NEW w \in Threads
      PROVE  /\ ~aborted' => inqueue_data_len'[w] <= Cardinality(Used(w)')
             /\ inqueue_data_len'[w] <= 2 * (Cardinality(Threads) - 1)
  <2>1. /\ IsFiniteSet(Used(w)') /\ Cardinality(Used(w)') \in Nat
        /\ IsFiniteSet(Used(w)) /\ Cardinality(Used(w)) \in Nat
        /\ inqueue_data_len[w] <= Cardinality(Used(w))
    BY <1>2, <1>3, <1>5, AllChances DEF CountInv
  <2>2. CASE Drains(w)
    <3>1. inqueue_data_len'[w] = 0
      BY <2>2
         DEF Drains, ResetQueueLen, LoadQueueLen, queues, WriteInv, TypeOK
    <3>2. QED
      BY <1>4, <2>1, <3>1
  <2>3. CASE ~Drains(w) /\ Reserve(t) /\ wid[t] = w
    <3> DEFINE c == Chances(t, w)
    <3>1. /\ pc[t] = "reserve" /\ t # w
          /\ inqueue_data_len'[w] = inqueue_data_len[w] + 1
      <4>1. pc[t] = "reserve"
            /\ inqueue_data_len' = [inqueue_data_len EXCEPT ![w] = @ + 1]
        BY <2>3 DEF Reserve
      <4>2. inqueue_data_len \in [Threads -> Nat]
        BY DEF WriteInv, TypeOK
      <4>3. t # w
        BY <2>3, <4>1 DEF ForeignInv, Following
      <4>4. QED
        BY <4>1, <4>2, <4>3
    <3>2. c \in {1, 2}
      BY <3>1 DEF Chances, Appended, Putting
    <3>3. <<t, c>> \notin Used(w)
      BY <3>2 DEF Used
    <3>4. Cardinality(Used(w) \union {<<t, c>>}) = Cardinality(Used(w)) + 1
      BY <2>1, <3>3, FS_AddElement
    <3>5. Used(w) \union {<<t, c>>} \subseteq (Threads \ {w}) \X {1, 2}
      BY <1>2, <3>1, <3>2
    <3>6. inqueue_data_len'[w] <= 2 * (Cardinality(Threads) - 1)
      <4>1. /\ Cardinality(Used(w)) + 1 <= 2 * (Cardinality(Threads) - 1)
            /\ Cardinality(Threads) - 1 \in Nat
        BY <3>4, <3>5, AllChances
      <4>2. QED
        BY <1>1, <2>1, <3>1, <4>1
    <3>7. ASSUME ~aborted'
          PROVE  inqueue_data_len'[w] <= Cardinality(Used(w)')
      <4>1. pc'[t] = "put"
        BY <2>3, <3>7 DEF Reserve, Goto, WriteInv, TypeOK
      <4>2. Chances(t, w)' = c - 1
        BY <1>5, <2>3, <3>1, <4>1, OwnChances
      <4>3. <<t, c>> \in Used(w)'
        BY <3>1, <3>2, <4>2 DEF Used
      <4>4. Used(w) \subseteq Used(w)'
        BY <1>5, <2>3, ChancesFall
      <4>5. Used(w) \union {<<t, c>>} \subseteq Used(w)'
        BY <4>3, <4>4
      <4>6. Cardinality(Used(w)) + 1 <= Cardinality(Used(w)')
        BY <2>1, <3>4, <4>5, FS_Subset
      <4>7. QED
        BY <1>1, <2>1, <3>1, <4>6
    <3>8. QED
      BY <3>6, <3>7
  <2>4. CASE ~Drains(w) /\ ~(Reserve(t) /\ wid[t] = w)
    <3>1. inqueue_data_len'[w] = inqueue_data_len[w]
      <4>1. CASE ResetQueueLen(t)
        BY <2>4, <4>1 DEF ResetQueueLen, Drains, WriteInv, TypeOK
      <4>2. CASE Reserve(t)
        BY <2>4, <4>2 DEF Reserve, WriteInv, TypeOK
      <4>3. CASE ~ResetQueueLen(t) /\ ~Reserve(t)
        BY <1>5, <4>3
           DEF Step, queues, Issue, LockStripe, LockBusy, SetOwner, Thaw,
               Freeze, LoadQueueLen, CopyBatch, Submit, AwaitIO, ClearOwner,
               Unlock, CheckFrozen, LoadWid, RecheckFrozen, Put, WaitUnlock
      <4>4. QED
        BY <4>1, <4>2, <4>3
    <3>2. Used(w) \subseteq Used(w)'
      BY <1>5, <2>4, ChancesFall
    <3>3. Cardinality(Used(w)) <= Cardinality(Used(w)')
      BY <2>1, <3>2, FS_Subset
    <3>4. inqueue_data_len'[w] <= Cardinality(Used(w)')
      BY <1>1, <2>1, <3>1, <3>3
    <3>5. QED
      BY <1>1, <1>4, <3>1, <3>4
  <2>5. QED
    BY <2>2, <2>3, <2>4
<1>6. ASSUME UNCHANGED <<inqueue_data_len, aborted, pc, wid, uio>>
      PROVE  CountInv'
  BY <1>6
     DEF CountInv, Used, Chances, Appended, Armed, Late, InTurn, Same, Entry
<1>7. QED
  BY <1>5, <1>6
     DEF CountInv, Next, Terminating, CompleteIO, vars, queues, request,
         follower

LEMMA CountInit ==
  ASSUME IsFiniteSet(Threads), Init
  PROVE  CountInv
<1>1. ASSUME NEW w \in Threads
      PROVE  /\ inqueue_data_len[w] = 0 /\ Cardinality(Used(w)) \in Nat
             /\ Cardinality(Threads) - 1 \in Nat
  <2>1. Used(w) \subseteq (Threads \ {w}) \X {1, 2}
    BY DEF Used
  <2>2. QED
    BY <2>1, AllChances DEF Init
<1>2. QED
  BY <1>1 DEF CountInv

(* Without full-stripe writes, and with requests within a stripe, a batch  *)
(* queue never holds more than two entries per other thread: QUEUE_LEN     *)
(* slots are enough for QUEUE_LEN \div 2 + 1 threads.                      *)
THEOREM QueueIsBounded ==
  ASSUME SingleStripe, PartialOnly, IsFiniteSet(Threads)
  PROVE  Spec => []QueueBounded
<1> DEFINE Inv == CollisionInv /\ slot \in [Threads -> Nat] /\ CountInv
<1>1. Init => Inv
  <2>1. Init => slot \in [Threads -> Nat]
    BY DEF Init
  <2>2. QED
    BY <2>1, CollisionInit, CountInit
<1>2. WriteInv /\ FrozenInv /\ Inv /\ [Next]_vars => Inv'
  BY CollisionStep, SlotStep, CountStep DEF WriteInv
<1>3. Inv => QueueBounded
  BY DEF CountInv, QueueBounded
<1> HIDE DEF Inv
<1>4. QED
  BY <1>1, <1>2, <1>3, WriteInvariant, FrozenInvariant, PTL DEF Spec

=============================================================================
