-------------------------- MODULE GateRoles_proofs --------------------------
(***************************************************************************)
(* The largest role of a set is one of the set and bounds the others, a    *)
(* capped role is a role, and adding one to a set does not raise its       *)
(* largest: what the proofs about members and about releases need of the   *)
(* role order.                                                             *)
(***************************************************************************)
EXTENDS GateRoles, TLAPS

\* maxRoleForCommitment picks one of the roles it folds over, and the largest.
LEMMA MaxRoleBounds ==
  ASSUME NEW held \in SUBSET GateRole, held # {}
  PROVE  /\ MaxRole(held) \in held
         /\ \A q \in held : ROLE_RANK[q] <= ROLE_RANK[MaxRole(held)]
<1>1. \E r \in held : \A q \in held : ROLE_RANK[q] <= ROLE_RANK[r]
  <2>1. CASE "edit" \in held
    BY <2>1 DEF ROLE_RANK, GateRole
  <2>2. CASE "edit" \notin held /\ "comment" \in held
    BY <2>2 DEF ROLE_RANK, GateRole
  <2>3. CASE "edit" \notin held /\ "comment" \notin held
    BY <2>3 DEF ROLE_RANK, GateRole
  <2>4. QED BY <2>1, <2>2, <2>3
<1>2. QED BY <1>1 DEF MaxRole

\* That it is one of them is what most proofs need.
LEMMA MaxRoleIn ==
  ASSUME NEW held \in SUBSET GateRole, held # {}
  PROVE  MaxRole(held) \in held
BY MaxRoleBounds

\* capRole answers a role, whatever roles the commitment holds.
LEMMA CapRoleType ==
  ASSUME NEW held \in SUBSET GateRole, NEW role \in GateRole
  PROVE  capRole(role, MaxRole(held)) \in GateRole
<1>1. CASE held = {}
  BY <1>1 DEF capRole, MaxRole
<1>2. CASE held # {}
  BY <1>2, MaxRoleIn DEF capRole
<1>3. QED BY <1>1, <1>2

\* A role has a rank.
LEMMA RankType == \A q \in GateRole : ROLE_RANK[q] \in Nat
BY DEF ROLE_RANK, GateRole

\* Adding a capped role to what a commitment holds does not raise the largest.
LEMMA CapIsNoRaise ==
  ASSUME NEW held \in SUBSET GateRole, held # {}, NEW role \in GateRole,
         NEW more \in SUBSET GateRole,
         more \subseteq held \cup {capRole(role, MaxRole(held))}, more # {}
  PROVE  ROLE_RANK[MaxRole(more)] <= ROLE_RANK[MaxRole(held)]
<1>. PICK top \in held : top = MaxRole(held) /\ \A q \in held : ROLE_RANK[q] <= ROLE_RANK[top]
  BY MaxRoleBounds
<1>. PICK low \in GateRole : low = capRole(role, top)
  BY CapRoleType
<1>1. ROLE_RANK[low] <= ROLE_RANK[top]
  <2>1. top # NoRole
    BY DEF GateRole, NoRole
  <2>2. low = IF ROLE_RANK[role] <= ROLE_RANK[top] THEN role ELSE top
    BY <2>1 DEF capRole
  <2>3. QED BY <2>2, RankType
<1>2. MaxRole(more) \in held \cup {low}
  BY MaxRoleBounds
<1>3. QED BY <1>1, <1>2
==============================================================================
