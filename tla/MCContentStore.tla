--------------------------- MODULE MCContentStore ---------------------------
(***************************************************************************)
(* Objects of one and two units and two quotas: the smaller one makes two  *)
(* of them compete, and the larger one all three.  Where every write may   *)
(* fail two objects do.                                                    *)
(***************************************************************************)
EXTENDS ContentStore, TLC

CONSTANTS x, y, z
Objects == {x, y, z}
Sizes == [id \in Objects |-> IF id = z THEN 2 ELSE 1]
TwoObjects == {x, z}
TwoSizes == [id \in TwoObjects |-> Sizes[id]]
Symmetry == Permutations({x, y})
=============================================================================
