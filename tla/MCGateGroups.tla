---------------------------- MODULE MCGateGroups ----------------------------
(***************************************************************************)
(* Small instances of GateGroups.                                          *)
(***************************************************************************)
EXTENDS GateGroups, TLC

CONSTANT Kinds  \* the handlers that are called

MCOperations ==
  {o \in Enrollments \cup Revocations \cup Reinstatements \cup Deletions : o.kind \in Kinds}

Symmetry == Permutations(IdHashes) \cup Permutations(Commitments)
              \cup Permutations(Portals) \cup Permutations(Requests)
=============================================================================
