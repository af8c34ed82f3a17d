---------------------------- MODULE MCGroupSync ----------------------------
EXTENDS GroupSync
CONSTANTS c, a, b
Open(S) == [members |-> S, closed |-> FALSE]
\* b joins as a is removed, and then the group closes.
MCChain == <<Open({c, a}), Open({c, b}), [members |-> {c, b}, closed |-> TRUE]>>
MCBlocks == {{}, {<<b, a>>}}
=============================================================================
