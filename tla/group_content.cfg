SPECIFICATION Spec
CONSTANTS
  me = me  bob = bob  carl = carl  Me = me  None = None
  m = m  b = b  e = e  d = d  v = v  w = w  n = n  f = f
  Chains <- MCChains
  Objects = {m, b, d, w, n, f}
  Kind <- MCKind  Author <- MCAuthor  Epoch <- MCEpoch  Target <- MCTarget  Rank <- MCRank
  MaxHistory = 2
  MaxHeld = 1
  MaxOutbox = 1
  MayFill = {FALSE, TRUE}
INVARIANTS  EditsConverge
PROPERTIES LateIsNeverShown ShownStaysShown
CHECK_DEADLOCK FALSE
