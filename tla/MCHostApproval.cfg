SPECIFICATION Spec
CONSTANTS
  Work = {w1, w2, w3}
  Capacity = 3
  TTL = 1
  MaxOffers = 3
SYMMETRY Symmetry
INVARIANTS TypeOK DeadlineRunsUnlessParked OpenIsWaiting UnseenNeverExpires RevokedNeverSpent
