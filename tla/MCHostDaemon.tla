---------------------------- MODULE MCHostDaemon ----------------------------
(* Instances of HostDaemon for TLC. *)
EXTENDS HostDaemon

(* Clients and targets are told apart by nothing but what is done with them. *)
Symmetry == Permutations(Clients) \cup Permutations(Targets)
=============================================================================
