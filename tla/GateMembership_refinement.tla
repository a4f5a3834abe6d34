---------------------- MODULE GateMembership_refinement ----------------------
(***************************************************************************)
(* GateMembership implements MembershipPolicy: every step of a handler is  *)
(* one atomic operation of the policy, or no step of the policy at all.    *)
(***************************************************************************)
EXTENDS GateMembership_proofs

Pins == [h \in IdHashes |-> PinOf(h)]
Free == [commitment |-> NoCommitment, role |-> NoRole]
PinFor(b) == [commitment |-> b.commitment, role |-> b.role]

\* A free identifier is unpinned, and a bound one is pinned to its binding.
LEMMA PinOfBound ==
  ASSUME OneBindingPerIdHash
  PROVE  /\ \A h \in IdHashes : BindingsOf(h) = {} => PinOf(h) = Free
         /\ \A b \in Bound : PinOf(b.idHash) = PinFor(b)
<1>1. ASSUME NEW b \in Bound PROVE PinOf(b.idHash) = PinFor(b)
  <2>1. BindingsOf(b.idHash) = {b}
    BY DEF OneBindingPerIdHash, BindingsOf
  <2>2. QED BY <2>1 DEF PinOf, PinFor
<1>2. QED BY <1>1 DEF PinOf, Free

\* After a step, too, the pin of a bound identifier is that of its one binding.
LEMMA PinOfBoundNext ==
  ASSUME OneBindingPerIdHash'
  PROVE  /\ \A h \in IdHashes : BindingsOf(h)' = {} => PinOf(h)' = Free
         /\ \A b \in Bound' : PinOf(b.idHash)' = PinFor(b)
<1>1. ASSUME NEW b \in Bound' PROVE PinOf(b.idHash)' = PinFor(b)
  <2>1. BindingsOf(b.idHash)' = {b}
    BY DEF OneBindingPerIdHash, BindingsOf
  <2>2. QED BY <2>1 DEF PinOf, PinFor
<1>2. QED BY <1>1 DEF PinOf, Free

\* A pin says nothing more and nothing less than the binding does.
LEMMA PinOfCommitment ==
  ASSUME OneBindingPerIdHash, TypeOK, NEW h \in IdHashes
  PROVE  /\ PinOf(h) = Free <=> BindingsOf(h) = {}
         /\ PinOf(h).commitment = NoCommitment <=> BindingsOf(h) = {}
<1>1. CASE BindingsOf(h) = {}
  BY <1>1, PinOfBound DEF Free
<1>2. CASE BindingsOf(h) # {}
  <2>1. PICK b \in Bound : b.idHash = h
    BY <1>2 DEF BindingsOf
  <2>2. PinOf(h) = PinFor(b) /\ b.commitment \in Commitments
    BY <2>1, PinOfBound DEF Bound, Binding
  <2>3. QED BY <1>2, <2>2, CommitmentsAssumption DEF PinFor, Free
<1>3. QED BY <1>1, <1>2

\* The write of enroll is the admission of its identifier.
LEMMA AdmitStep ==
  ASSUME IInv, IInv', NEW r \in Requests, EnrollWrite(r), EnrollFilter(r)
  PROVE  \E h \in IdHashes : Policy!Admit(h)
<1>0. TypeOK /\ OneBindingPerIdHash /\ OneBindingPerIdHash'
  BY DEF IInv, RowInv
<1>1. op[r].idHash \in IdHashes /\ op[r].commitment \in Commitments /\ plan[r].role \in GateRole
  BY <1>0, OpTypes DEF EnrollWrite, At, Enrollments, IInv, PlanFromSnapshot, PlanOK
<1>2. PICK h \in IdHashes, e \in Binding :
        h = op[r].idHash /\ e = Entry(h, op[r].commitment, plan[r].role)
  BY <1>1 DEF Entry, Binding
<1>3. e.idHash = h /\ PinFor(e) \in Policy!Pin
  BY <1>1, <1>2 DEF Entry, Binding, PinFor, Policy!Pin, Policy!GateRole, GateRole
<1>4. BindingsOf(h) = {} /\ h \notin revokedIdHashes
  BY <1>2 DEF EnrollFilter
<1>5. /\ currentEpoch' = currentEpoch /\ revokedIdHashes' = revokedIdHashes
      /\ bindings' = Push(bindings, e)
  BY <1>2 DEF EnrollWrite
<1>6. Bound' = Bound \cup {e}
  BY <1>0, <1>5, PushBound
<1>7. PinOf(h) = Free /\ PinOf(h)' = PinFor(e)
  <2>1. PinOf(h) = Free
    BY <1>0, <1>4, PinOfBound
  <2>2. PinOf(e.idHash)' = PinFor(e)
    BY <1>0, <1>6, PinOfBoundNext
  <2>3. QED BY <1>3, <2>1, <2>2
<1>8. \A g \in IdHashes : g # h => PinOf(g)' = PinOf(g)
  <2> SUFFICES ASSUME NEW g \in IdHashes, g # h PROVE PinOf(g)' = PinOf(g)
    OBVIOUS
  <2>1. BindingsOf(g)' = BindingsOf(g)
    BY <1>3, <1>6 DEF BindingsOf
  <2>2. QED BY <2>1 DEF PinOf
<1>9. Pins' = [Pins EXCEPT ![h] = PinFor(e)]
  BY <1>7, <1>8 DEF Pins
<1>10. Pins[h] = Free
  BY <1>7 DEF Pins
<1>11. QED
  BY <1>3, <1>4, <1>5, <1>9, <1>10 DEF Policy!Admit, Policy!Unpinned, Policy!NoRole, NoRole, Pins, Free

\* The write of revoke is the eviction of a member.
LEMMA EvictStep ==
  ASSUME IInv, IInv', NEW r \in Requests, RevokeWrite(r), RevokeFilter(r)
  PROVE  \E h \in IdHashes : Policy!Evict(h)
<1>0. TypeOK /\ OneBindingPerIdHash /\ OneBindingPerIdHash'
  BY DEF IInv, RowInv
<1>1. op[r].idHash \in IdHashes /\ op[r].targetEpoch \in Nat
  BY <1>0, OpTypes DEF RevokeWrite, At, Revocations
<1>2. PICK h \in IdHashes, who \in SUBSET Commitments :
        h = op[r].idHash /\ who = plan[r].targets
  BY <1>0, <1>1 DEF TypeOK, RequestTypeOK, Plan
<1>3. /\ currentEpoch' \in Nat /\ currentEpoch' >= currentEpoch
      /\ bindings' = PullBindings(who)
      /\ revokedIdHashes' \in {revokedIdHashes, revokedIdHashes \cup {h}}
  <2>1. currentEpoch' = op[r].targetEpoch
    BY DEF RevokeWrite
  <2>2. bindings' = PullBindings(who)
          /\ revokedIdHashes' \in {revokedIdHashes, revokedIdHashes \cup {h}}
    BY <1>2 DEF RevokeWrite
  <2>3. currentEpoch <= op[r].targetEpoch
    BY DEF RevokeFilter
  <2>4. QED BY <1>0, <1>1, <2>1, <2>2, <2>3 DEF TypeOK, RowTypeOK
<1>4. Bound' = {b \in Bound : b.commitment \notin who}
  BY <1>0, <1>3, PullBound
<1>5. IF who = {} THEN BindingsOf(h) = {}
      ELSE \E b \in Bound : b.idHash = h /\ who = {b.commitment}
  <2>1. who = {} \/ \E c \in Commitments : who = {c}
    BY <1>2 DEF RevokeWrite, At, IInv, PlanFromSnapshot, PlanOK
  <2>2. IF who = {} THEN BindingsOf(h) = {}
        ELSE \E b \in BindingsOf(h) : b.commitment \in who
    BY <1>2 DEF RevokeFilter
  <2>3. QED BY <2>1, <2>2 DEF BindingsOf
<1>6. ASSUME NEW g \in IdHashes
      PROVE  PinOf(g)' = IF PinOf(h) # Free /\ PinOf(g).commitment = PinOf(h).commitment
                         THEN Free ELSE PinOf(g)
  <2>1. CASE who = {}
    <3>1. PinOf(h) = Free
      BY <1>0, <1>5, <2>1, PinOfBound
    <3>2. BindingsOf(g)' = BindingsOf(g)
      BY <1>4, <2>1 DEF BindingsOf
    <3>3. PinOf(g)' = PinOf(g)
      BY <3>2 DEF PinOf
    <3>4. QED BY <3>1, <3>3
  <2>2. CASE who # {}
    <3>1. PICK b \in Bound : b.idHash = h /\ who = {b.commitment}
      BY <1>5, <2>2
    <3>2. PinOf(h) # Free /\ PinOf(h).commitment = b.commitment
      <4>1. PinOf(h) = PinFor(b)
        BY <1>0, <3>1, PinOfBound
      <4>2. BindingsOf(h) # {}
        BY <3>1 DEF BindingsOf
      <4>3. QED BY <1>0, <4>1, <4>2, PinOfCommitment DEF PinFor
    <3>3. CASE BindingsOf(g) = {}
      <4>1. BindingsOf(g)' = {}
        BY <1>4, <3>3 DEF BindingsOf
      <4>2. PinOf(g)' = Free /\ PinOf(g) = Free
        BY <1>0, <3>3, <4>1, PinOfBound, PinOfBoundNext
      <4>3. QED BY <4>2
    <3>4. CASE BindingsOf(g) # {}
      <4>1. PICK a \in Bound : a.idHash = g
        BY <3>4 DEF BindingsOf
      <4>2. PinOf(g).commitment = a.commitment
        <5>1. PinOf(a.idHash) = PinFor(a)
          BY <1>0, PinOfBound
        <5>2. QED BY <4>1, <5>1 DEF PinFor
      <4>3. CASE a.commitment = b.commitment
        <5>1. BindingsOf(g)' = {}
          BY <1>0, <1>4, <3>1, <4>1, <4>3 DEF BindingsOf, OneBindingPerIdHash
        <5>2. PinOf(g)' = Free
          BY <1>0, <5>1, PinOfBoundNext
        <5>3. QED BY <3>2, <4>2, <4>3, <5>2
      <4>4. CASE a.commitment # b.commitment
        <5>1. BindingsOf(g)' = BindingsOf(g)
          BY <1>0, <1>4, <3>1, <4>1, <4>4 DEF BindingsOf, OneBindingPerIdHash
        <5>2. PinOf(g)' = PinOf(g)
          BY <5>1 DEF PinOf
        <5>3. QED BY <3>2, <4>2, <4>4, <5>2
      <4>5. QED BY <4>3, <4>4
    <3>5. QED BY <3>3, <3>4
  <2>3. QED BY <2>1, <2>2
<1>7. Pins' = [g \in IdHashes |->
                 IF Pins[h] # Free /\ Pins[g].commitment = Pins[h].commitment
                 THEN Free ELSE Pins[g]]
  BY <1>6 DEF Pins
<1>8. QED BY <1>3, <1>7 DEF Policy!Evict, Policy!Unpinned, Policy!NoRole, NoRole, Pins, Free

\* The write of a relabel is the retagging of its commitments.
LEMMA RetagStep ==
  ASSUME IInv, IInv', NEW r \in Requests, RelabelWrite(r) \/ RelabelBulkWrite(r)
  PROVE  Policy!Retag
<1>0. TypeOK /\ OneBindingPerIdHash /\ OneBindingPerIdHash'
  BY DEF IInv, RowInv
<1>1. plan[r].targets \in SUBSET Commitments /\ plan[r].role \in GateRole
  BY <1>0 DEF IInv, PlanFromSnapshot, PlanOK, TypeOK, RequestTypeOK, Plan,
              RelabelWrite, RelabelBulkWrite, At
<1>2. PICK who \in SUBSET Commitments, role \in GateRole :
        who = plan[r].targets /\ role = plan[r].role
  BY <1>1
<1>3. /\ bindings' = SetRole(who, role)
      /\ revokedIdHashes' = revokedIdHashes /\ currentEpoch' = currentEpoch
  BY <1>2 DEF RelabelWrite, RelabelBulkWrite
<1>4. /\ \A b \in Bound' : \E a \in Bound :
           a.idHash = b.idHash /\ a.commitment = b.commitment
             /\ IF b.commitment \in who THEN b.role = role ELSE b = a
      /\ \A a \in Bound : \E b \in Bound' :
           a.idHash = b.idHash /\ a.commitment = b.commitment
  BY <1>0, <1>3, SetRoleMoves
<1>5. ASSUME NEW g \in IdHashes
      PROVE  PinOf(g)' = IF PinOf(g).commitment \in who
                         THEN [PinOf(g) EXCEPT !.role = role] ELSE PinOf(g)
  <2>1. CASE BindingsOf(g) = {}
    <3>1. BindingsOf(g)' = {}
      BY <1>4, <2>1 DEF BindingsOf
    <3>2. PinOf(g)' = Free /\ PinOf(g) = Free
      BY <1>0, <2>1, <3>1, PinOfBound, PinOfBoundNext
    <3>3. Free.commitment \notin who
      BY CommitmentsAssumption DEF Free
    <3>4. QED BY <3>2, <3>3
  <2>2. CASE BindingsOf(g) # {}
    <3>1. PICK a \in Bound : a.idHash = g
      BY <2>2 DEF BindingsOf
    <3>2. PICK b \in Bound' : a.idHash = b.idHash /\ a.commitment = b.commitment
      BY <1>4
    <3>3. PICK a2 \in Bound : a2.idHash = b.idHash /\ a2.commitment = b.commitment
             /\ IF b.commitment \in who THEN b.role = role ELSE b = a2
      BY <1>4
    <3>4. a2 = a
      BY <1>0, <3>2, <3>3 DEF OneBindingPerIdHash
    <3>5. PinOf(a.idHash) = PinFor(a) /\ PinOf(b.idHash)' = PinFor(b)
      BY <1>0, PinOfBound, PinOfBoundNext
    <3>6. PinOf(g) = PinFor(a) /\ PinOf(g)' = PinFor(b)
      BY <3>1, <3>2, <3>5
    <3>7. PinFor(b) = IF a.commitment \in who THEN [PinFor(a) EXCEPT !.role = role]
                      ELSE PinFor(a)
      BY <3>2, <3>3, <3>4 DEF PinFor
    <3>8. PinFor(a).commitment = a.commitment
      BY DEF PinFor
    <3>9. QED BY <3>6, <3>7, <3>8
  <2>3. QED BY <2>1, <2>2
<1>6. Pins' = [g \in IdHashes |-> IF Pins[g].commitment \in who
                                  THEN [Pins[g] EXCEPT !.role = role] ELSE Pins[g]]
  BY <1>5 DEF Pins
<1>7. role \in Policy!GateRole
  BY DEF Policy!GateRole, GateRole
<1>8. QED BY <1>3, <1>6, <1>7 DEF Policy!Retag, Pins

\* The write of reinstate lifts the denylist entry.
LEMMA LiftStep ==
  ASSUME IInv, NEW r \in Requests, ReinstateWrite(r)
  PROVE  \E h \in IdHashes : Policy!Lift(h)
<1>1. op[r].idHash \in IdHashes
  BY OpTypes DEF ReinstateWrite, At, Reinstatements, IInv
<1>2. PICK h \in IdHashes : h = op[r].idHash
  BY <1>1
<1>3. bindings' = bindings
  BY DEF ReinstateWrite
<1>4. \A g \in IdHashes : PinOf(g)' = PinOf(g)
  BY <1>3 DEF PinOf, BindingsOf, Bound
<1>5. [g \in IdHashes |-> PinOf(g)]' = [g \in IdHashes |-> PinOf(g)]
  BY <1>4
<1>6. QED BY <1>2, <1>5 DEF ReinstateWrite, Policy!Lift

\* A step that leaves the row alone is nothing to the policy.
LEMMA SilentStep ==
  ASSUME bindings' = bindings, revokedIdHashes' = revokedIdHashes,
         currentEpoch' = currentEpoch
  PROVE  UNCHANGED Policy!policyVars
<1>1. \A g \in IdHashes : PinOf(g)' = PinOf(g)
  BY DEF PinOf, BindingsOf, Bound
<1>2. [g \in IdHashes |-> PinOf(g)]' = [g \in IdHashes |-> PinOf(g)]
  BY <1>1
<1>3. QED BY <1>2 DEF Policy!policyVars

\* Every step of the handlers is a step of the policy or none.
LEMMA StepSimulation ==
  ASSUME IInv, IInv', [Next]_vars
  PROVE  [Policy!PolicyNext]_(Policy!policyVars)
<1>1. ASSUME NEW r \in Requests, EnrollWrite(r), EnrollFilter(r) PROVE Policy!PolicyNext
  BY <1>1, AdmitStep DEF Policy!PolicyNext
<1>2. ASSUME NEW r \in Requests, RevokeWrite(r), RevokeFilter(r) PROVE Policy!PolicyNext
  BY <1>2, EvictStep DEF Policy!PolicyNext
<1>3. ASSUME NEW r \in Requests, RelabelWrite(r) \/ RelabelBulkWrite(r)
      PROVE  Policy!PolicyNext
  BY <1>3, RetagStep DEF Policy!PolicyNext
<1>4. ASSUME NEW r \in Requests, ReinstateWrite(r) PROVE Policy!PolicyNext
  BY <1>4, LiftStep DEF Policy!PolicyNext
<1>5. \/ \E r \in Requests :
           \/ EnrollWrite(r) /\ EnrollFilter(r)
           \/ RevokeWrite(r) /\ RevokeFilter(r)
           \/ RelabelWrite(r) \/ RelabelBulkWrite(r)
           \/ ReinstateWrite(r)
      \/ UNCHANGED <<bindings, revokedIdHashes, currentEpoch>>
  BY DEF Next, Step, Register, Submit, DatabaseError, EnrollRead, EnrollWrite, RevokeRead,
         RevokeWrite, RelabelRead, RelabelBulkRead, ReinstateRead, vars, rowVars
<1>6. CASE UNCHANGED <<bindings, revokedIdHashes, currentEpoch>>
  <2>1. UNCHANGED Policy!policyVars
    BY <1>6, SilentStep
  <2>2. QED BY <2>1
<1>7. QED BY <1>1, <1>2, <1>3, <1>4, <1>5, <1>6

\* The empty row is the policy's initial state.
LEMMA InitSimulation == Init => Policy!PolicyInit
<1> SUFFICES ASSUME Init PROVE Policy!PolicyInit
  OBVIOUS
<1>1. \A g \in IdHashes : BindingsOf(g) = {}
  BY DEF Init, BindingsOf, Bound
<1>2. \A g \in IdHashes : PinOf(g) = Free
  BY <1>1 DEF PinOf, Free
<1>3. QED BY <1>2 DEF Init, Policy!PolicyInit, Policy!Unpinned, Policy!NoRole, NoRole, Free

\* The handlers implement the atomic membership policy: whatever their
\* interleaving, the row moves as if each operation were done in one step.
THEOREM PolicyImplemented == Spec => ImplementsPolicy
<1>1. Spec => []IInv
  BY Invariance
<1>2. IInv /\ IInv' /\ [Next]_vars => [Policy!PolicyNext]_(Policy!policyVars)
  BY StepSimulation
<1>3. QED BY <1>1, <1>2, InitSimulation, PTL DEF Spec, ImplementsPolicy, Policy!PolicySpec
=============================================================================
