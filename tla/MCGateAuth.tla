----------------------------- MODULE MCGateAuth -----------------------------
(***************************************************************************)
(* Small instances of GateAuth.                                            *)
(***************************************************************************)
EXTENDS GateAuth, TLC

Symmetry == Permutations(Portals) \cup Permutations(Files) \cup Permutations(Addresses)
              \cup Permutations(Dids) \cup Permutations(Identities) \cup Permutations(Requests)
=============================================================================
