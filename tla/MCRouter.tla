------------------------------ MODULE MCRouter ------------------------------
(***************************************************************************)
(* Small instances of Router: two or three routers and two packets.        *)
(***************************************************************************)
EXTENDS Router, TLC

CONSTANTS A, B, C, p, q

Pair == {{A, B}}
Line == {{A, B}, {B, C}}

FromA == [x \in Packets |-> A]

AllNormal == [x \in Packets |-> 1]
\* q is bulk
Mixed == [x \in Packets |-> IF x = q THEN 2 ELSE 1]

Together == [x \in Packets |-> 1]
OneByte == [x \in Packets |-> 1]
=============================================================================
