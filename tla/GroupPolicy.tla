---------------------------- MODULE GroupPolicy ----------------------------
(***************************************************************************)
(* What the owner of a reusable group is promised about its membership: a  *)
(* MembershipPolicy without epochs, in which the whole group may also be   *)
(* dissolved in one step.  GateGroups implements it.                       *)
(***************************************************************************)
EXTENDS MembershipPolicy

\* Everybody is out at once, and the bars go with the group.
Dissolve ==
  /\ pinned' = [h \in IdHashes |-> Unpinned]
  /\ barred' = {}
  /\ UNCHANGED epoch

GroupPolicySpec == PolicyInit /\ [][PolicyNext \/ Dissolve]_policyVars
=============================================================================
