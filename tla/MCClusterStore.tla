--------------------------- MODULE MCClusterStore ---------------------------
(* ClusterStore with fingerprints that differ by their peak bin only, two  *)
(* of which match when their bins are neighbours.                          *)
EXTENDS ClusterStore

MCPrints == 1..4

Neighbours(P) == {<<p, q>> \in P \X P : p - q \in -1..1}

MCCompatible == Neighbours(MCPrints)
=============================================================================
