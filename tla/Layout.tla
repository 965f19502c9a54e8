------------------------------- MODULE Layout -------------------------------
(***************************************************************************)
(* The address arithmetic of code/include/logfiles.cc: where a byte of the *)
(* user's address space lives on the devices.  A stripe has DATACHUNK_NUM  *)
(* data chunks and PARITYCHUNK_NUM parity chunks, one per device; stripe s *)
(* puts its first data chunk on device s % NUM_DEVFILES and the others on  *)
(* the devices after it, cyclically, the parity last.                      *)
(***************************************************************************)
EXTENDS Integers

CONSTANTS SCHUNK_SIZE,      \* bytes (here: units) of a chunk
          DATACHUNK_NUM,    \* data chunks of a stripe
          PARITYCHUNK_NUM   \* parity chunks of a stripe

ASSUME LayoutAssumption == /\ SCHUNK_SIZE \in Nat \ {0}
                           /\ DATACHUNK_NUM \in Nat \ {0}
                           /\ PARITYCHUNK_NUM \in Nat \ {0}

NUM_DEVFILES == DATACHUNK_NUM + PARITYCHUNK_NUM
SSTRIPE_DATASIZE == SCHUNK_SIZE * DATACHUNK_NUM

Devices == 0 .. NUM_DEVFILES - 1

(* The one-step wrap of a device position past the last device. *)
Wrap(pos) == IF pos >= NUM_DEVFILES THEN pos - NUM_DEVFILES ELSE pos

user2stripe(user_offset) == (user_offset \div SCHUNK_SIZE) \div DATACHUNK_NUM

is_fullstripe(useroffset, length) ==
  useroffset % SSTRIPE_DATASIZE = 0 /\ length = SSTRIPE_DATASIZE

stripe2datapos(stripeid) == stripeid % NUM_DEVFILES

stripe2paritypos(stripeid) == Wrap(stripe2datapos(stripeid) + DATACHUNK_NUM)

stripe2useroff(stripeid) == stripeid * SSTRIPE_DATASIZE

stripe2devoff(stripeid, base_off) == base_off + stripeid * SCHUNK_SIZE

devoff2stripe(devoff) == devoff \div SCHUNK_SIZE

logical_distance(src, dest, loop) ==
  IF src <= dest THEN dest - src ELSE dest - src + loop

(* user2dev returns the device and, in the code through a pointer, the     *)
(* offset on it.                                                           *)
user2dev(user_offset) ==
  LET chunk == user_offset \div SCHUNK_SIZE
      stripe_num == chunk \div DATACHUNK_NUM
      remain_chunk == chunk % DATACHUNK_NUM
  IN  [dev |-> Wrap((stripe_num % NUM_DEVFILES) + remain_chunk),
       off |-> stripe_num * SCHUNK_SIZE + (user_offset % SCHUNK_SIZE)]

=============================================================================
