--------------------------- MODULE MCPrismDomain ---------------------------
(***************************************************************************)
(* Instances of PrismDomain for TLC.  Sessions, target ids and window      *)
(* addresses are interchangeable; space ids are not, they are ordered.     *)
(***************************************************************************)
EXTENDS PrismDomain, TLC

Symmetry == Permutations(Clients) \cup Permutations(Targets) \cup Permutations(Windows)
=============================================================================
