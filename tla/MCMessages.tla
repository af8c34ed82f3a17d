----------------------------- MODULE MCMessages -----------------------------
EXTENDS Messages
CONSTANTS a, b, m, e, d, c, r, g
\* a writes m, edits and deletes it; b confirms it; g is of a group of a's, a control of it or a
\* message in it.
MCTarget == [x \in Events |-> m]
MCBy == [x \in Objects |-> IF x \in {c, r} THEN b ELSE a]
MCRank == [x \in Mutating |-> IF x = e THEN 2 ELSE 1]
MCListed == SelectSeq(<<g, m, d, e, c, r>>, LAMBDA x : x \in Objects)
NoBrowser == {}
MCKinds == {NoBrowser, {a}}
ReaderInBrowser == {{b}}
AllNative == {NoBrowser}
=============================================================================
