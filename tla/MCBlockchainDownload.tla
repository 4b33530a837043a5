------------------------ MODULE MCBlockchainDownload ------------------------
(* The instance of BlockchainDownload that is checked: two peers and nine    *)
(* blocks.  The node's own chain a1..a4 competes with s3, a shorter and      *)
(* stronger chain that leaves it at a2, and with d1..d3, of which the first  *)
(* blocks are weaker than a2 and the last one is the strongest of all.       *)
EXTENDS BlockchainDownload, TLC

CONSTANTS g, a1, a2, a3, a4, s3, d1, d2, d3

MCBlock == {g, a1, a2, a3, a4, s3, d1, d2, d3}

MCParent == (a1 :> g) @@ (a2 :> a1) @@ (a3 :> a2) @@ (a4 :> a3) @@ (s3 :> a2)
            @@ (d1 :> g) @@ (d2 :> d1) @@ (d3 :> d2)

MCChain[b \in MCBlock] == IF b = g THEN {g} ELSE MCChain[MCParent[b]] \cup {b}

MCHeight == [b \in MCBlock |-> Cardinality(MCChain[b]) - 1]

MCDifficulty == (g :> 0) @@ (a1 :> 2) @@ (a2 :> 4) @@ (a3 :> 6) @@ (a4 :> 8) @@ (s3 :> 9)
                @@ (d1 :> 3) @@ (d2 :> 5) @@ (d3 :> 10)

\* Only s3 is earlier than its sibling.
MCTimestamp == [b \in MCBlock |-> IF b = s3 THEN 0 ELSE 1]
=============================================================================
