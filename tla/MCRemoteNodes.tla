---------------------------- MODULE MCRemoteNodes ----------------------------
(* The instance of RemoteNodes that is checked: three nodes, one of them     *)
(* unusable, two requests, and two reports of which one is kept.             *)
EXTENDS RemoteNodes

\* What is explored: two requests overlap as long as there is no report; with
\* a report, one is under way and all bootstrap nodes have answered; with the
\* second report, the registry is as bootstrap left it.
Explored ==
    /\ reports > 0 => Cardinality(flying) <= 1 /\ trying = {}
    /\ reports = 2 => discovery # "asking" /\ \A n \in Node : serial[n] <= 1
=============================================================================
