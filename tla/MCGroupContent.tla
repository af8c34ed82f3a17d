--------------------------- MODULE MCGroupContent ---------------------------
EXTENDS GroupContent
CONSTANTS me, bob, carl, m, b, e, d, v, w, n, f

Open(S) == [members |-> S, closed |-> FALSE]
All == {me, bob, carl}
\* A member is replaced and comes back, a member is added, the group is closed.
MCChains == { <<Open({me, bob}), Open({bob, carl}), Open(All)>>,
              <<Open({me, bob}), Open(All)>>,
              <<Open({me, bob}), [members |-> {me, bob}, closed |-> TRUE]>> }
MCKind == (m :> "message") @@ (b :> "message") @@ (e :> "edit") @@ (d :> "delete")
          @@ (v :> "delivery") @@ (w :> "edit") @@ (n :> "delivery") @@ (f :> "edit")
MCAuthor == (m :> me) @@ (b :> bob) @@ (e :> bob) @@ (d :> bob) @@ (v :> bob) @@ (w :> bob) @@ (n :> me) @@ (f :> me)
MCEpoch == (m :> 1) @@ (b :> 1) @@ (e :> 1) @@ (d :> 1) @@ (v :> 1) @@ (w :> 2) @@ (n :> 1) @@ (f :> 1)
MCTarget == (m :> None) @@ (b :> None) @@ (e :> b) @@ (d :> b) @@ (v :> m) @@ (w :> b) @@ (n :> b) @@ (f :> m)
MCRank == (m :> 0) @@ (b :> 0) @@ (e :> 1) @@ (d :> 2) @@ (v :> 0) @@ (w :> 3) @@ (n :> 0) @@ (f :> 1)
=============================================================================
