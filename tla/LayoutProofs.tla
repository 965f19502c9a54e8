---------------------------- MODULE LayoutProofs ----------------------------
(***************************************************************************)
(* What the address arithmetic of Layout guarantees for every geometry.    *)
(***************************************************************************)
EXTENDS Layout, FiniteSetsExt, WellFoundedInduction, TLAPS

(* The quotient and the remainder of a division recompose the dividend.    *)
LEMMA DivMod ==
  ASSUME NEW n \in Nat, NEW c \in Nat \ {0}
  PROVE  /\ n \div c \in Nat
         /\ n % c \in 0 .. c - 1
         /\ n = c * (n \div c) + (n % c)
  OBVIOUS

(* They are the only such pair.                                            *)
LEMMA DivModUnique ==
  ASSUME NEW q \in Nat, NEW c \in Nat \ {0}, NEW r \in 0 .. c - 1
  PROVE  (q * c + r) \div c = q /\ (q * c + r) % c = r
  OBVIOUS

(* Division is monotone.                                                   *)
LEMMA DivMonotone ==
  ASSUME NEW m \in Nat, NEW n \in Nat, NEW c \in Nat \ {0}, m <= n
  PROVE  m \div c <= n \div c
<1> DEFINE p == m \div c
           q == n \div c
<1>1. /\ p \in Nat /\ q \in Nat
      /\ m % c \in 0 .. c - 1 /\ n % c \in 0 .. c - 1
      /\ m = c * p + (m % c) /\ n = c * q + (n % c)
  BY DivMod
<1> HIDE DEF p, q
<1>2. ASSUME q + 1 <= p PROVE FALSE
  <2>1. PICK d \in Nat : p = q + 1 + d
    BY <1>1, <1>2
  <2>2. c * p = c * q + c + c * d /\ c * d \in Nat
    BY <1>1, <2>1
  <2>3. QED
    BY <1>1, <2>2
<1>3. p <= q
  BY <1>1, <1>2
<1>4. QED
  BY <1>3 DEF p, q

(* The larger and the smaller of two numbers.                              *)
LEMMA MaxOfTwo ==
  ASSUME NEW a \in Int, NEW b \in Int
  PROVE  Max({a, b}) \in {a, b} /\ Max({a, b}) >= a /\ Max({a, b}) >= b
<1>1. \E x \in {a, b} : \A y \in {a, b} : x >= y
  BY a >= b \/ b >= a
<1>2. QED
  BY <1>1 DEF Max

LEMMA MinOfTwo ==
  ASSUME NEW a \in Int, NEW b \in Int
  PROVE  Min({a, b}) \in {a, b} /\ Min({a, b}) <= a /\ Min({a, b}) <= b
<1>1. \E x \in {a, b} : \A y \in {a, b} : x <= y
  BY a >= b \/ b >= a
<1>2. QED
  BY <1>1 DEF Min

(* Every non-empty set of natural numbers has a least element, and one     *)
(* that is bounded a greatest.                                             *)
LEMMA LeastOfNat ==
  ASSUME NEW T \in SUBSET Nat, T # {}
  PROVE  \E x \in T : \A y \in T : x <= y
<1>1. \E x \in T : \A y \in T : ~(<<y, x>> \in OpToRel(<, Nat))
  BY NatLessThanWellFounded, WFMin, Zenon
<1>2. PICK x \in T : \A y \in T : ~(<<y, x>> \in OpToRel(<, Nat))
  BY <1>1
<1>3. \A y \in T : x <= y
  <2> TAKE y \in T
  <2>1. x \in Nat /\ y \in Nat
    OBVIOUS
  <2>2. <<y, x>> \in OpToRel(<, Nat) <=> y < x
    BY <2>1 DEF OpToRel
  <2>3. ~(y < x)
    BY <1>2, <2>2
  <2>4. QED
    BY <2>1, <2>3
<1>4. QED
  BY <1>3

LEMMA GreatestOfNat ==
  ASSUME NEW T \in SUBSET Nat, T # {}, NEW n \in Nat, \A y \in T : y <= n
  PROVE  \E x \in T : \A y \in T : x >= y
<1> DEFINE U == {n - y : y \in T}
<1>1. U \in SUBSET Nat /\ U # {}
  <2>1. \A y \in T : n - y \in Nat /\ n - y \in U
    OBVIOUS
  <2>2. PICK y \in T : TRUE
    OBVIOUS
  <2>3. n - y \in U
    BY <2>1
  <2>4. QED
    BY <2>1, <2>3
<1>2. PICK u \in U : \A v \in U : u <= v
  BY <1>1, LeastOfNat
<1>3. PICK x \in T : u = n - x
  BY <1>2
<1>4. ASSUME NEW y \in T PROVE x >= y
  <2>1. n - y \in U
    OBVIOUS
  <2>2. n - x <= n - y
    BY <1>2, <1>3, <2>1
  <2>3. QED
    BY <2>2
<1>5. QED
  BY <1>4

LEMMA MinOfNats ==
  ASSUME NEW T \in SUBSET Nat, T # {}
  PROVE  Min(T) \in T /\ \A y \in T : Min(T) <= y
<1>1. \E x \in T : \A y \in T : x <= y
  BY LeastOfNat
<1>2. QED
  BY <1>1 DEF Min

LEMMA MaxOfNats ==
  ASSUME NEW T \in SUBSET Nat, T # {}, NEW n \in Nat, \A y \in T : y <= n
  PROVE  Max(T) \in T /\ \A y \in T : Max(T) >= y
<1>1. \E x \in T : \A y \in T : x >= y
  BY GreatestOfNat
<1>2. QED
  BY <1>1 DEF Max

(* The stripe of a user address is a natural number and grows with the     *)
(* address (user2stripe).                                                  *)
THEOREM StripeMonotone ==
  ASSUME NEW a \in Nat, NEW b \in Nat, a <= b
  PROVE  /\ user2stripe(a) \in Nat
         /\ user2stripe(a) <= user2stripe(b)
<1> USE LayoutAssumption
<1>1. /\ a \div SCHUNK_SIZE \in Nat /\ b \div SCHUNK_SIZE \in Nat
      /\ a \div SCHUNK_SIZE <= b \div SCHUNK_SIZE
  BY DivMod, DivMonotone
<1>2. QED
  BY <1>1, DivMod, DivMonotone DEF user2stripe

(* devoff2stripe undoes user2dev: the encoder, which only sees a device    *)
(* offset, finds the stripe the user address is in.                        *)
THEOREM StripeOfDevOffset ==
  ASSUME NEW a \in Nat
  PROVE  devoff2stripe(user2dev(a).off) = user2stripe(a)
<1> USE LayoutAssumption
<1> DEFINE s == user2stripe(a)
           r == a % SCHUNK_SIZE
<1>1. s \in Nat /\ r \in 0 .. SCHUNK_SIZE - 1
  BY DivMod, StripeMonotone
<1>2. user2dev(a).off = s * SCHUNK_SIZE + r
  BY DEF user2dev, user2stripe
<1> HIDE DEF s, r
<1>3. QED
  BY <1>1, <1>2, DivModUnique DEF devoff2stripe, s

(* A stripe never puts data and parity on the same device: the device of   *)
(* a user address is not the first parity device of its stripe, and both   *)
(* are devices of the array (user2dev, stripe2paritypos).                  *)
THEOREM ParityApart ==
  ASSUME NEW a \in Nat
  PROVE  /\ user2dev(a).dev \in Devices
         /\ stripe2paritypos(user2stripe(a)) \in Devices
         /\ user2dev(a).dev # stripe2paritypos(user2stripe(a))
<1> USE LayoutAssumption
<1> DEFINE k == a \div SCHUNK_SIZE
           s == k \div DATACHUNK_NUM
           c == k % DATACHUNK_NUM
           p == s % NUM_DEVFILES
<1>1. k \in Nat /\ s \in Nat /\ c \in 0 .. DATACHUNK_NUM - 1
  BY DivMod
<1>2. NUM_DEVFILES \in Nat \ {0} /\ p \in 0 .. NUM_DEVFILES - 1
  BY <1>1, DivMod DEF NUM_DEVFILES
<1>3. /\ user2dev(a).dev = Wrap(p + c)
      /\ stripe2paritypos(user2stripe(a)) = Wrap(p + DATACHUNK_NUM)
  BY DEF user2dev, user2stripe, stripe2paritypos, stripe2datapos
<1> HIDE DEF k, s, c, p
<1>4. QED
  BY <1>1, <1>2, <1>3 DEF Wrap, Devices, NUM_DEVFILES

(* Two user addresses never share a device cell (user2dev is injective).   *)
THEOREM PlacementInjective ==
  ASSUME NEW a \in Nat, NEW b \in Nat, user2dev(a) = user2dev(b)
  PROVE  a = b
<1> USE LayoutAssumption
<1> DEFINE k(x) == x \div SCHUNK_SIZE
           r(x) == x % SCHUNK_SIZE
           s(x) == k(x) \div DATACHUNK_NUM
           c(x) == k(x) % DATACHUNK_NUM
           p(x) == s(x) % NUM_DEVFILES
<1>1. \A x \in {a, b} :
        /\ k(x) \in Nat /\ r(x) \in 0 .. SCHUNK_SIZE - 1
        /\ x = SCHUNK_SIZE * k(x) + r(x)
  BY DivMod
<1>2. \A x \in {a, b} :
        /\ s(x) \in Nat /\ c(x) \in 0 .. DATACHUNK_NUM - 1
        /\ k(x) = DATACHUNK_NUM * s(x) + c(x)
  BY <1>1, DivMod
<1>3. /\ NUM_DEVFILES \in Nat \ {0}
      /\ \A x \in {a, b} : p(x) \in 0 .. NUM_DEVFILES - 1
  BY <1>2, DivMod DEF NUM_DEVFILES
<1>4. \A x \in {a, b} : /\ user2dev(x).dev = Wrap(p(x) + c(x))
                        /\ user2dev(x).off = s(x) * SCHUNK_SIZE + r(x)
  BY DEF user2dev
<1> HIDE DEF k, r, s, c
<1>5. s(a) = s(b) /\ r(a) = r(b)
  <2>1. s(a) * SCHUNK_SIZE + r(a) = s(b) * SCHUNK_SIZE + r(b)
    BY <1>4
  <2>2. /\ s(a) \in Nat /\ r(a) \in 0 .. SCHUNK_SIZE - 1
        /\ s(b) \in Nat /\ r(b) \in 0 .. SCHUNK_SIZE - 1
        /\ SCHUNK_SIZE \in Nat \ {0}
    BY <1>1, <1>2
  <2>3. /\ (s(a) * SCHUNK_SIZE + r(a)) \div SCHUNK_SIZE = s(a)
        /\ (s(a) * SCHUNK_SIZE + r(a)) % SCHUNK_SIZE = r(a)
    BY <2>2, DivModUnique
  <2>4. /\ (s(b) * SCHUNK_SIZE + r(b)) \div SCHUNK_SIZE = s(b)
        /\ (s(b) * SCHUNK_SIZE + r(b)) % SCHUNK_SIZE = r(b)
    BY <2>2, DivModUnique
  <2>5. QED
    BY <2>1, <2>3, <2>4
<1>6. c(a) = c(b)
  <2>1. p(a) = p(b)
    BY <1>5
  <2> HIDE DEF p
  <2>2. Wrap(p(a) + c(a)) = Wrap(p(a) + c(b))
    BY <2>1, <1>4
  <2>3. /\ c(a) \in 0 .. DATACHUNK_NUM - 1 /\ c(b) \in 0 .. DATACHUNK_NUM - 1
        /\ p(a) \in 0 .. NUM_DEVFILES - 1
    BY <1>2, <1>3
  <2>4. QED
    BY <2>2, <2>3 DEF Wrap, NUM_DEVFILES
<1>7. k(a) = k(b)
  BY <1>2, <1>5, <1>6
<1>8. QED
  BY <1>1, <1>5, <1>7

-----------------------------------------------------------------------------
(* Chunks and stripes of user addresses.                                   *)

ChunkOf(a) == a \div SCHUNK_SIZE
ChunkOff(c) == c * SCHUNK_SIZE
FirstChunkOf(s) == s * DATACHUNK_NUM

LEMMA DivAtLeast ==
  ASSUME NEW n \in Nat, NEW q \in Nat, NEW c \in Nat \ {0}
  PROVE  n \div c >= q <=> n >= q * c
<1> DEFINE d == n \div c
           m == n % c
<1>1. d \in Nat /\ m \in 0 .. c - 1 /\ n = c * d + m
  BY DivMod
<1> HIDE DEF d, m
<1>2. CASE d >= q
  <2>1. PICK e \in Nat : d = q + e
    BY <1>1, <1>2
  <2>2. c * d = q * c + c * e /\ c * e \in Nat /\ q * c \in Nat
    BY <2>1
  <2>3. QED
    BY <1>1, <1>2, <2>2 DEF d
<1>3. CASE d < q
  <2>1. PICK e \in Nat : q = d + 1 + e
    BY <1>1, <1>3
  <2>2. q * c = c * d + c + c * e /\ c * e \in Nat /\ c * d \in Nat
    BY <1>1, <2>1
  <2>3. QED
    BY <1>1, <1>3, <2>2 DEF d
<1>4. QED
  BY <1>1, <1>2, <1>3

LEMMA Chunking ==
  ASSUME NEW a \in Nat, NEW c \in Nat
  PROVE  /\ ChunkOf(a) \in Nat /\ ChunkOff(c) \in Nat
         /\ ChunkOff(c + 1) = ChunkOff(c) + SCHUNK_SIZE
         /\ ChunkOf(a) >= c <=> a >= ChunkOff(c)
         /\ ChunkOf(ChunkOff(c)) = c
<1> USE LayoutAssumption
<1>1. ChunkOf(a) \in Nat /\ (ChunkOf(a) >= c <=> a >= ChunkOff(c))
  BY DivMod, DivAtLeast DEF ChunkOf, ChunkOff
<1>2. ChunkOff(c) \in Nat /\ ChunkOff(c + 1) = ChunkOff(c) + SCHUNK_SIZE
  BY DEF ChunkOff
<1>3. (c * SCHUNK_SIZE + 0) \div SCHUNK_SIZE = c
  <2>1. 0 \in 0 .. SCHUNK_SIZE - 1
    OBVIOUS
  <2>2. QED
    BY <2>1, DivModUnique
<1>4. ChunkOf(ChunkOff(c)) = c
  <2>1. c * SCHUNK_SIZE + 0 = c * SCHUNK_SIZE
    OBVIOUS
  <2>2. QED
    BY <1>3, <2>1 DEF ChunkOf, ChunkOff
<1>5. QED
  BY <1>1, <1>2, <1>4

LEMMA Striping ==
  ASSUME NEW a \in Nat, NEW s \in Nat
  PROVE  /\ user2stripe(a) \in Nat /\ stripe2useroff(s) \in Nat
         /\ FirstChunkOf(s) \in Nat
         /\ FirstChunkOf(s + 1) = FirstChunkOf(s) + DATACHUNK_NUM
         /\ stripe2useroff(s) = ChunkOff(FirstChunkOf(s))
         /\ SSTRIPE_DATASIZE \in Nat \ {0}
         /\ stripe2useroff(s + 1) = stripe2useroff(s) + SSTRIPE_DATASIZE
         /\ user2stripe(a) >= s <=> a >= stripe2useroff(s)
         /\ user2stripe(a) >= s <=> ChunkOf(a) >= FirstChunkOf(s)
<1> USE LayoutAssumption
<1>1. ChunkOf(a) \in Nat /\ FirstChunkOf(s) \in Nat
  BY Chunking DEF FirstChunkOf
<1>2. /\ user2stripe(a) \in Nat
      /\ user2stripe(a) >= s <=> ChunkOf(a) >= FirstChunkOf(s)
  BY <1>1, DivMod, DivAtLeast DEF user2stripe, ChunkOf, FirstChunkOf
<1>3. stripe2useroff(s) = ChunkOff(FirstChunkOf(s))
  BY DEF stripe2useroff, ChunkOff, FirstChunkOf, SSTRIPE_DATASIZE
<1>4. stripe2useroff(s) \in Nat
      /\ (ChunkOf(a) >= FirstChunkOf(s) <=> a >= stripe2useroff(s))
  BY <1>1, <1>3, Chunking
<1>5. FirstChunkOf(s + 1) = FirstChunkOf(s) + DATACHUNK_NUM
  BY DEF FirstChunkOf
<1>6. SSTRIPE_DATASIZE \in Nat \ {0}
  BY DEF SSTRIPE_DATASIZE
<1>7. stripe2useroff(s + 1) = stripe2useroff(s) + SSTRIPE_DATASIZE
  <2> DEFINE z == SSTRIPE_DATASIZE
  <2>1. z \in Nat
    BY <1>6
  <2> HIDE DEF z
  <2>2. (s + 1) * z = s * z + z
    BY <2>1
  <2>3. QED
    BY <2>2 DEF stripe2useroff, z
<1>8. QED
  BY <1>1, <1>2, <1>3, <1>4, <1>5, <1>6, <1>7

(* Where user2dev puts an address, from its chunk and its stripe.          *)
LEMMA Placing ==
  ASSUME NEW a \in Nat, NEW c \in Nat, NEW s \in Nat,
         ChunkOf(a) = c, user2stripe(a) = s
  PROVE  user2dev(a) =
           [dev |-> Wrap(stripe2datapos(s) + (c - FirstChunkOf(s))),
            off |-> ChunkOff(s) + (a - ChunkOff(c))]
<1> USE LayoutAssumption
<1>1. /\ a % SCHUNK_SIZE \in Int /\ a = SCHUNK_SIZE * c + (a % SCHUNK_SIZE)
  <2>1. /\ a % SCHUNK_SIZE \in 0 .. SCHUNK_SIZE - 1
        /\ a = SCHUNK_SIZE * (a \div SCHUNK_SIZE) + (a % SCHUNK_SIZE)
    BY DivMod
  <2>2. a \div SCHUNK_SIZE = c
    BY DEF ChunkOf
  <2>3. QED
    BY <2>1, <2>2
<1>2. /\ c % DATACHUNK_NUM \in Int
      /\ c = DATACHUNK_NUM * s + (c % DATACHUNK_NUM)
  <2>1. /\ c % DATACHUNK_NUM \in 0 .. DATACHUNK_NUM - 1
        /\ c = DATACHUNK_NUM * (c \div DATACHUNK_NUM) + (c % DATACHUNK_NUM)
    BY DivMod
  <2>2. c \div DATACHUNK_NUM = s
    BY DEF ChunkOf, user2stripe
  <2>3. QED
    BY <2>1, <2>2
<1>3. a % SCHUNK_SIZE = a - ChunkOff(c)
  <2>1. SCHUNK_SIZE * c = ChunkOff(c) /\ ChunkOff(c) \in Nat
    BY DEF ChunkOff
  <2>2. QED
    BY <1>1, <2>1
<1>4. c % DATACHUNK_NUM = c - FirstChunkOf(s)
  <2>1. DATACHUNK_NUM * s = FirstChunkOf(s) /\ FirstChunkOf(s) \in Nat
    BY DEF FirstChunkOf
  <2>2. QED
    BY <1>2, <2>1
<1>5. user2dev(a) = [dev |-> Wrap((s % NUM_DEVFILES) + (c % DATACHUNK_NUM)),
                     off |-> s * SCHUNK_SIZE + (a % SCHUNK_SIZE)]
  BY DEF user2dev, ChunkOf, user2stripe
<1>6. QED
  BY <1>3, <1>4, <1>5 DEF stripe2datapos, ChunkOff

(* The units of a chunk lie side by side on one device.                    *)
LEMMA SameChunk ==
  ASSUME NEW a \in Nat, NEW b \in Nat, ChunkOf(a) = ChunkOf(b)
  PROVE  /\ user2dev(a).dev = user2dev(b).dev
         /\ user2dev(a).off \in Nat /\ user2dev(b).off \in Nat
         /\ user2dev(a).off - user2dev(b).off = a - b
<1> DEFINE c == ChunkOf(a)
           s == user2stripe(a)
<1>1. /\ c \in Nat /\ s \in Nat /\ ChunkOff(c) \in Nat /\ ChunkOff(s) \in Nat
      /\ a >= ChunkOff(c) /\ b >= ChunkOff(c)
  <2>1. c \in Nat /\ s \in Nat
    BY Chunking, Striping
  <2>2. a >= ChunkOff(c) /\ b >= ChunkOff(c)
    BY <2>1, Chunking
  <2>3. QED
    BY <2>1, <2>2, Chunking
<1>2. user2stripe(b) = s
  BY DEF user2stripe, ChunkOf
<1> HIDE DEF c, s
<1>3. ChunkOf(a) = c /\ ChunkOf(b) = c /\ user2stripe(a) = s
  BY DEF c, s
<1>4. \A x \in {a, b} :
        user2dev(x) = [dev |-> Wrap(stripe2datapos(s) + (c - FirstChunkOf(s))),
                       off |-> ChunkOff(s) + (x - ChunkOff(c))]
  BY <1>1, <1>2, <1>3, Placing
<1>5. \A x \in {a, b} :
        /\ user2dev(x).dev = Wrap(stripe2datapos(s) + (c - FirstChunkOf(s)))
        /\ user2dev(x).off = ChunkOff(s) + (x - ChunkOff(c))
  BY <1>4
<1>6. QED
  BY <1>1, <1>5

=============================================================================
