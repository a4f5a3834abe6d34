----------------------------- MODULE GateRoles -----------------------------
(***************************************************************************)
(* The role order of the gate (src/domain/gate/roles.ts): edit includes    *)
(* comment includes view, and a member's effective role is the largest one *)
(* over the bindings of its commitment.                                    *)
(***************************************************************************)
EXTENDS Integers

GateRole == {"view", "comment", "edit"}

\* maxRoleForCommitment answers null when the commitment has no binding.
NoRole == "none"

ROLE_RANK ==
  [r \in GateRole |-> CASE r = "view" -> 1 [] r = "comment" -> 2 [] r = "edit" -> 3]

\* The largest of the roles in held, the fold of maxRoleForCommitment.
MaxRole(held) ==
  IF held = {} THEN NoRole
  ELSE CHOOSE r \in held : \A q \in held : ROLE_RANK[q] <= ROLE_RANK[r]

\* Mutant of capRole: the voucher is taken at its word.
capRoleByVoucher(voucherRole, maxRole) == voucherRole

\* A new binding may not exceed the commitment's current largest role.
capRole(voucherRole, maxRole) ==
  IF maxRole = NoRole THEN voucherRole
  ELSE IF ROLE_RANK[voucherRole] <= ROLE_RANK[maxRole] THEN voucherRole ELSE maxRole
=============================================================================
