--------------------------- MODULE MCGateStartup ---------------------------
(***************************************************************************)
(* Small instances of GateStartup.                                         *)
(***************************************************************************)
EXTENDS GateStartup, TLC

Symmetry == Permutations(Processes) \cup Permutations(Collections)
              \cup Permutations(Anchors) \cup Permutations(Requests)
=============================================================================
