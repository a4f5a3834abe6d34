---------------------------- MODULE MCGateRouting ----------------------------
(***************************************************************************)
(* Small instances of GateRouting: what the requests of a run ask for.     *)
(***************************************************************************)
EXTENDS GateRouting, TLC

CONSTANTS Roles,   \* the roles that attachments name
          Kinds    \* the handlers that are called

\* A caller lists its own edit root, alone or with every group.
MCRegistrations ==
  {o \in [kind : {"register"}, anchor : Anchor, own : {{"edit"}},
          refs : {{}, Groups}, ifAbsent : BOOLEAN] : o.kind \in Kinds}
MCAttachments == {o \in [kind : {"attach"}, groupRef : Groups, role : Roles] : o.kind \in Kinds}
MCDetachments == {o \in [kind : {"detach"}, groupRef : Groups] : o.kind \in Kinds}
MCGroupRegistrations ==
  {o \in [kind : {"groupRegister"}, groupRef : Groups, portal : Portals] : o.kind \in Kinds}
MCGroupDeletions == {o \in [kind : {"groupDelete"}, groupRef : Groups] : o.kind \in Kinds}

MCOperations == MCRegistrations \cup MCAttachments \cup MCDetachments
                  \cup MCGroupRegistrations \cup MCGroupDeletions

Symmetry == Permutations(Groups) \cup Permutations(Portals)
              \cup Permutations(Files) \cup Permutations(Requests)
=============================================================================
