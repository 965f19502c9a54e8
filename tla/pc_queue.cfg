\* Two threads, a ring of two segments of two slots, a cache of two keys.
\* Stripe 0 has offset 0; stripes 2 and 3 share the key INT_MAX.
SPECIFICATION Spec
CONSTANTS
  Threads = {t1, t2}
  size = 4
  k = 2
  Stripes = {0, 1, 2, 3}
  NoStripe = NoStripe
  INT_MAX = 2
  MAX_stripes = 2
  MaxInserts = 5
SYMMETRY ThreadSymmetry
\* The insertions are bounded, and a thread stops at a failed assertion.
CHECK_DEADLOCK FALSE
INVARIANTS
  TypeOK
  NothingLost
  VictimExists
