-------------------------- MODULE MCGroupRegistry --------------------------
EXTENDS GroupRegistry
CONSTANTS c, d, a, alice
MCIdentity == (c :> Creator) @@ (d :> Creator) @@ (a :> alice)
OneCard == (c :> 1) @@ (d :> 1) @@ (a :> 1)
MemberCards == (c :> 1) @@ (d :> 1) @@ (a :> 2)
CreatorCards == (c :> 2) @@ (d :> 1) @@ (a :> 1)

\* Bound: a run has members that come and go, or a restored backup, not both.
OneStory == rec[d].known => ~rec[a].known /\ \A i \in Installations : card[i] = 1
====
