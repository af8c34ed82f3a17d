----------------------------- MODULE GroupChain -----------------------------
(***************************************************************************)
(* The epochs of one group and how far each node has followed them; what   *)
(* nobody may learn of them.  GroupSync has how nodes learn.               *)
(***************************************************************************)
EXTENDS Naturals, Sequences, FiniteSetsExt

CONSTANTS
    Nodes, Creator,
    Chain,          \* the epochs, [members, closed]; the first is the creator's
    Known,          \* members of the first epoch, who have its private state
    Page            \* CONTROL_LIMITS.page, 16 in the code

VARIABLE
    rec             \* the registry of each node

Final == Len(Chain)
M(k) == Chain[k].members

ASSUME ChainAssumption ==
    /\ Chain \in Seq([members : SUBSET Nodes, closed : BOOLEAN]) /\ Len(Chain) > 0
    /\ Known = M(1) /\ Page \in Nat \ {0}
    /\ \A k \in 1..Final : Creator \in M(k) /\ (Chain[k].closed => k = Final)

\* proofs: the headers from one on, a page of them; this is the last.
proofs(from, end) == Min({end, from + Page - 1})

\* A node never has headers past the epoch that removed it, unless it was invited
\* again: an old membership does not show what the group became
\* (requestedHeaders, and the readers of every other carrier).
Entitled(n, k) ==
    \/ n \in M(k - 1)
    \/ \E j \in k - 1..rec[Creator].head : j < Final /\ n \in M(j + 1) \ M(j)
NothingPastRemoval == \A n \in Nodes : \A k \in 2..rec[n].head : Entitled(n, k)
=============================================================================
