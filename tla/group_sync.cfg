SPECIFICATION Spec
CONSTANTS
  c = c  a = a  b = b
  Nodes = {c, a, b}  Creator = c  Known = {c, a}  Relays = {a, b}
  Chain <- MCChain
  Blocks <- MCBlocks
  Page = 1
  MaxNet = 1
  Leavers = {a, b}
  MaxDeferred = 1
  MaxInbox = 2
INVARIANT NothingPastRemoval
 
CHECK_DEADLOCK FALSE
