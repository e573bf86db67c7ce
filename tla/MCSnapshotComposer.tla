------------------------- MODULE MCSnapshotComposer --------------------------
(* Processes are interchangeable: the composer compares them only. *)
EXTENDS SnapshotComposer

Symmetry == Permutations(Processes)
=============================================================================
