-------------------------- MODULE MCGateMembership --------------------------
(***************************************************************************)
(* Small instances of GateMembership: which operations the requests of a   *)
(* run may ask for, and the symmetry of its sets.                          *)
(***************************************************************************)
EXTENDS GateMembership, TLC

CONSTANTS Roles,     \* the roles the requests name
          Epochs,    \* the target epochs the revocations name
          Kinds      \* the handlers that are called

MCEnrollments  == {o \in [kind : {"enroll"}, idHash : IdHashes, commitment : Commitments,
                          role : Roles] : o.kind \in Kinds}
MCRevocations  == {o \in [kind : {"revoke"}, idHash : IdHashes, targetEpoch : Epochs,
                          addToDenylist : BOOLEAN] : o.kind \in Kinds}
MCRelabels     == {o \in [kind : {"relabel"}, idHash : IdHashes, newRole : Roles]
                     : o.kind \in Kinds}
MCBulkRelabels == {o \in [kind : {"relabelBulk"}, idHashes : SUBSET IdHashes \ {{}},
                          newRole : Roles \ {"edit"}] : o.kind \in Kinds}
MCReinstates   == {o \in [kind : {"reinstate"}, idHash : IdHashes] : o.kind \in Kinds}

MCOperations == MCEnrollments \cup MCRevocations \cup MCRelabels
                  \cup MCBulkRelabels \cup MCReinstates

Symmetry == Permutations(IdHashes) \cup Permutations(Commitments) \cup Permutations(Requests)
=============================================================================
