SPECIFICATION FairSpec
CONSTANTS
  a = a  b = b  m = m  e = e  d = d  c = c  r = r  g = g
  Nodes = {a, b}
  Kinds <- MCKinds
  Messages = {m}  Edits = {e}  Deletes = {d}
  Deliveries = {c}  Receipts = {r}  Carriers = {}
  Target <- MCTarget
  By <- MCBy
  Rank <- MCRank
  Listed <- MCListed
  Unconfirmable = {}
  Window = 5
  WebWindow = 2
  AskLimit = 2
  IssueLimit = 2
  MaxMarks = 2
  Sought = {m}
  Losing = {b}
  MaxMishaps = 1
INVARIANT DeletionsStick
PROPERTY Agreement EachIsConfirmed
CHECK_DEADLOCK FALSE
