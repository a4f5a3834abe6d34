------------------------ MODULE GateMembership_proofs ------------------------
(***************************************************************************)
(* Proofs about GateMembership, for any sets of identifiers, commitments,  *)
(* requests and operations and any bound on the attempts.                  *)
(***************************************************************************)
EXTENDS GateMembership, GateRoles_proofs

\* The row is consistent in itself.
RowInv == DenylistedNotBound /\ OneBindingPerIdHash /\ MembersMatchBindings

\* The inductive invariant.  PlanFromSnapshot is what makes it inductive: an
\* enroll or a revoke writes only when the row still says what it has read.
IInv == TypeOK /\ PlanFromSnapshot /\ RowInv

----------------------------------------------------------------------------
(* What the three updates of the bindings do to the set of bound entries. *)

\* $push adds the entry and counts it once more.
LEMMA PushBound ==
  ASSUME TypeOK, NEW e \in Binding, bindings' = Push(bindings, e)
  PROVE  /\ bindings' \in [Binding -> Nat]
         /\ Bound' = Bound \cup {e}
         /\ \A b \in Binding : bindings'[b] = IF b = e THEN bindings[b] + 1 ELSE bindings[b]
BY DEF TypeOK, RowTypeOK, Push, Bound

\* $pull removes exactly the entries of the targets.
LEMMA PullBound ==
  ASSUME TypeOK, NEW who \in SUBSET Commitments, bindings' = PullBindings(who)
  PROVE  /\ bindings' \in [Binding -> Nat]
         /\ Bound' = {b \in Bound : b.commitment \notin who}
         /\ \A b \in Bound' : bindings'[b] = bindings[b]
<1>1. \A b \in Binding : bindings'[b] = IF b.commitment \in who THEN 0 ELSE bindings[b]
  BY DEF PullBindings
<1>2. bindings' \in [Binding -> Nat]
  BY DEF TypeOK, RowTypeOK, PullBindings
<1>3. Bound' = {b \in Bound : b.commitment \notin who}
  BY <1>1 DEF Bound
<1>4. QED BY <1>1, <1>2, <1>3 DEF Bound

\* $set moves every entry of the targets to one role and leaves the others.
LEMMA SetRoleBound ==
  ASSUME TypeOK, NEW who \in SUBSET Commitments, NEW role \in GateRole,
         bindings' = SetRole(who, role)
  PROVE  /\ bindings' \in [Binding -> Nat]
         /\ \A b \in Binding : b.commitment \notin who => bindings'[b] = bindings[b]
         /\ \A b \in Binding : b.commitment \in who /\ b.role # role => bindings'[b] = 0
         /\ \A b \in Binding : b.commitment \in who /\ b.role = role =>
              bindings'[b] = bindings[Entry(b.idHash, b.commitment, "view")]
                               + bindings[Entry(b.idHash, b.commitment, "comment")]
                               + bindings[Entry(b.idHash, b.commitment, "edit")]
<1>1. \A b \in Binding, q \in GateRole : bindings[Entry(b.idHash, b.commitment, q)] \in Nat
  BY DEF TypeOK, RowTypeOK, Entry, Binding
<1>2. \A b \in Binding :
        /\ bindings[Entry(b.idHash, b.commitment, "view")] \in Nat
        /\ bindings[Entry(b.idHash, b.commitment, "comment")] \in Nat
        /\ bindings[Entry(b.idHash, b.commitment, "edit")] \in Nat
  BY <1>1 DEF GateRole
<1>3. QED BY <1>2 DEF TypeOK, RowTypeOK, SetRole

\* $set leaves every identifier with the commitment it had.
LEMMA SetRoleMoves ==
  ASSUME TypeOK, OneBindingPerIdHash,
         NEW who \in SUBSET Commitments, NEW role \in GateRole,
         bindings' = SetRole(who, role)
  PROVE  /\ \A b \in Bound' : bindings'[b] = 1
         /\ \A b \in Bound' : \E a \in Bound :
              a.idHash = b.idHash /\ a.commitment = b.commitment
                /\ IF b.commitment \in who THEN b.role = role ELSE b = a
         /\ \A a \in Bound : \E b \in Bound' :
              a.idHash = b.idHash /\ a.commitment = b.commitment
<1> DEFINE e(b, q) == Entry(b.idHash, b.commitment, q)
<1>1. \A b \in Binding : bindings[b] \in Nat /\ (bindings[b] > 0 => bindings[b] = 1)
  BY DEF TypeOK, RowTypeOK, OneBindingPerIdHash, Bound
<1>2. \A b \in Binding, q \in GateRole :
        e(b, q) \in Binding /\ e(b, q).idHash = b.idHash
          /\ e(b, q).commitment = b.commitment /\ e(b, q).role = q
  BY DEF Entry, Binding
<1>3. \A b \in Binding : e(b, b.role) = b /\ b.role \in GateRole
  BY DEF Entry, Binding
<1>4. \A b \in Binding, p, q \in GateRole :
        bindings[e(b, p)] > 0 /\ bindings[e(b, q)] > 0 => p = q
  BY <1>2 DEF OneBindingPerIdHash, Bound
<1>5. \A b \in Binding, q \in GateRole : bindings[e(b, q)] \in Nat /\ bindings[e(b, q)] <= 1
  BY <1>1, <1>2
<1>6. /\ \A b \in Binding : b.commitment \notin who => bindings'[b] = bindings[b]
      /\ \A b \in Binding : b.commitment \in who /\ b.role # role => bindings'[b] = 0
      /\ \A b \in Binding : b.commitment \in who /\ b.role = role =>
           bindings'[b] = bindings[e(b, "view")] + bindings[e(b, "comment")]
                            + bindings[e(b, "edit")]
  BY SetRoleBound
<1>7. \A b \in Binding : b.commitment \in who /\ b.role = role =>
        /\ bindings'[b] \in Nat /\ bindings'[b] <= 1
        /\ bindings'[b] > 0 <=> \E q \in GateRole : bindings[e(b, q)] > 0
  <2> SUFFICES ASSUME NEW b \in Binding, b.commitment \in who, b.role = role
               PROVE  /\ bindings'[b] \in Nat /\ bindings'[b] <= 1
                      /\ bindings'[b] > 0 <=> \E q \in GateRole : bindings[e(b, q)] > 0
    OBVIOUS
  <2> DEFINE v == bindings[e(b, "view")]
             m == bindings[e(b, "comment")]
             d == bindings[e(b, "edit")]
  <2>1. v \in Nat /\ v <= 1 /\ m \in Nat /\ m <= 1 /\ d \in Nat /\ d <= 1
    BY <1>5 DEF GateRole
  <2>2. ~(v > 0 /\ m > 0) /\ ~(v > 0 /\ d > 0) /\ ~(m > 0 /\ d > 0)
    BY <1>4 DEF GateRole
  <2>3. bindings'[b] = v + m + d
    BY <1>6
  <2>4. (\E q \in GateRole : bindings[e(b, q)] > 0) <=> (v > 0 \/ m > 0 \/ d > 0)
    BY DEF GateRole
  <2> HIDE DEF v, m, d
  <2>5. QED BY <2>1, <2>2, <2>3, <2>4
<1> HIDE DEF e
<1>8. ASSUME NEW b \in Binding, bindings'[b] > 0
      PROVE  /\ bindings'[b] = 1
             /\ \E a \in Binding : bindings[a] > 0
                  /\ a.idHash = b.idHash /\ a.commitment = b.commitment
                  /\ IF b.commitment \in who THEN b.role = role ELSE b = a
  <2>1. CASE b.commitment \notin who
    BY <1>1, <1>6, <1>8, <2>1
  <2>2. CASE b.commitment \in who
    <3>1. b.role = role
      BY <1>6, <1>8, <2>2
    <3>2. bindings'[b] = 1
      BY <1>7, <1>8, <2>2, <3>1
    <3>3. PICK q \in GateRole : bindings[e(b, q)] > 0
      BY <1>7, <1>8, <2>2, <3>1
    <3>4. QED BY <1>2, <2>2, <3>1, <3>2, <3>3
  <2>3. QED BY <2>1, <2>2
<1>9. ASSUME NEW a \in Binding, bindings[a] > 0
      PROVE  \E b \in Binding : bindings'[b] > 0
               /\ a.idHash = b.idHash /\ a.commitment = b.commitment
  <2>1. CASE a.commitment \notin who
    BY <1>6, <1>9, <2>1
  <2>2. CASE a.commitment \in who
    <3>1. /\ e(a, role) \in Binding /\ e(a, role).idHash = a.idHash
          /\ e(a, role).commitment = a.commitment /\ e(a, role).role = role
      BY <1>2
    <3>2. e(e(a, role), a.role) = a
      BY <1>3, <3>1 DEF e
    <3>3. bindings'[e(a, role)] > 0
      BY <1>3, <1>7, <1>9, <2>2, <3>1, <3>2
    <3>4. QED BY <3>1, <3>3
  <2>3. QED BY <2>1, <2>2
<1>10. QED BY <1>8, <1>9 DEF Bound

----------------------------------------------------------------------------
(* Each update of the row keeps it consistent. *)

\* A commitment has a role exactly when one of its bindings is live.
LEMMA RolesOfBound ==
  ASSUME TypeOK, NEW c \in Commitments
  PROVE  RolesOf(c) = {} <=> \A b \in Bound : b.commitment # c
BY DEF RolesOf, Bound, Binding

\* MembersMatchBindings, without the roles.
LEMMA MembersAlt ==
  ASSUME TypeOK
  PROVE  MembersMatchBindings <=>
           \A c \in Commitments : 
             /\ (\E b \in Bound : b.commitment = c) => members[c] = 1
             /\ (\A b \in Bound : b.commitment # c) => members[c] = 0
BY RolesOfBound DEF MembersMatchBindings

\* The live bindings are bindings.
LEMMA BoundType == TypeOK => Bound \subseteq Binding
BY DEF Bound

\* PIN+ADD of a free identifier that is not denylisted.
LEMMA AddKeepsRow ==
  ASSUME TypeOK, TypeOK', RowInv,
         NEW h \in IdHashes, NEW c \in Commitments, NEW role \in GateRole,
         BindingsOf(h) = {}, h \notin revokedIdHashes,
         bindings' = Push(bindings, Entry(h, c, role)),
         members' = IF members[c] > 0 THEN members ELSE Push(members, c),
         revokedIdHashes' = revokedIdHashes
  PROVE  RowInv'
<1> DEFINE e == Entry(h, c, role)
<1>1. e \in Binding /\ e.idHash = h /\ e.commitment = c
  BY DEF Entry, Binding
<1>2. /\ Bound' = Bound \cup {e}
      /\ \A b \in Binding : bindings'[b] = IF b = e THEN bindings[b] + 1 ELSE bindings[b]
  BY <1>1, PushBound
<1>3. \A b \in Bound : b.idHash # h
  BY DEF BindingsOf
<1>4. bindings[e] = 0
  BY <1>1, <1>3 DEF TypeOK, RowTypeOK, Bound
<1> HIDE DEF e
<1>5. DenylistedNotBound'
  BY <1>1, <1>2 DEF RowInv, DenylistedNotBound, BindingsOf
<1>6. OneBindingPerIdHash'
  BY <1>1, <1>2, <1>3, <1>4, BoundType DEF RowInv, OneBindingPerIdHash
<1>7. MembersMatchBindings'
  <2>1. \A d \in Commitments :
          /\ (\E b \in Bound : b.commitment = d) => members[d] = 1
          /\ (\A b \in Bound : b.commitment # d) => members[d] = 0
    BY MembersAlt DEF RowInv
  <2>2. \A d \in Commitments : d # c => members'[d] = members[d]
    BY DEF Push, TypeOK, RowTypeOK
  <2>3. members'[c] = 1
    <3>1. CASE members[c] > 0
      BY <2>1, <3>1
    <3>2. CASE ~(members[c] > 0)
      BY <2>1, <3>2 DEF Push, TypeOK, RowTypeOK
    <3>3. QED BY <3>1, <3>2
  <2>4. \A d \in Commitments :
          RolesOf(d)' = {} <=> \A b \in Bound' : b.commitment # d
    BY DEF TypeOK, RowTypeOK, RolesOf, Bound, Binding
  <2>5. QED BY <1>1, <1>2, <2>1, <2>2, <2>3, <2>4 DEF MembersMatchBindings
<1>8. QED BY <1>5, <1>6, <1>7 DEF RowInv

\* The pull of whole members, with or without a new name on the denylist.
LEMMA PullKeepsRow ==
  ASSUME TypeOK, TypeOK', RowInv, NEW who \in SUBSET Commitments, NEW h \in IdHashes,
         bindings' = PullBindings(who),
         members' = PullMembers(who),
         revokedIdHashes' \subseteq revokedIdHashes \cup {h},
         \A b \in BindingsOf(h) : b.commitment \in who
  PROVE  RowInv'
<1>1. /\ Bound' = {b \in Bound : b.commitment \notin who}
      /\ \A b \in Bound' : bindings'[b] = bindings[b]
  BY PullBound
<1>2. DenylistedNotBound'
  BY <1>1 DEF RowInv, DenylistedNotBound, BindingsOf
<1>3. OneBindingPerIdHash'
  BY <1>1 DEF RowInv, OneBindingPerIdHash
<1>4. MembersMatchBindings'
  <2>1. \A d \in Commitments :
          /\ (\E b \in Bound : b.commitment = d) => members[d] = 1
          /\ (\A b \in Bound : b.commitment # d) => members[d] = 0
    BY MembersAlt DEF RowInv
  <2>2. \A d \in Commitments : members'[d] = IF d \in who THEN 0 ELSE members[d]
    BY DEF PullMembers
  <2>3. \A d \in Commitments :
          RolesOf(d)' = {} <=> \A b \in Bound' : b.commitment # d
    BY DEF TypeOK, RowTypeOK, RolesOf, Bound, Binding
  <2>4. QED BY <1>1, <2>1, <2>2, <2>3 DEF MembersMatchBindings
<1>5. QED BY <1>2, <1>3, <1>4 DEF RowInv

\* A relabel of whole commitments moves roles only, so the row stays consistent.
LEMMA SetRoleKeepsRow ==
  ASSUME TypeOK, TypeOK', RowInv, NEW who \in SUBSET Commitments, NEW role \in GateRole,
         bindings' = SetRole(who, role),
         members' = members,
         revokedIdHashes' = revokedIdHashes
  PROVE  RowInv'
<1>1. /\ \A b \in Bound' : bindings'[b] = 1
      /\ \A b \in Bound' : \E a \in Bound :
           a.idHash = b.idHash /\ a.commitment = b.commitment
             /\ IF b.commitment \in who THEN b.role = role ELSE b = a
      /\ \A a \in Bound : \E b \in Bound' :
           a.idHash = b.idHash /\ a.commitment = b.commitment
  BY SetRoleMoves DEF RowInv
<1>2. DenylistedNotBound'
  BY <1>1 DEF RowInv, DenylistedNotBound, BindingsOf
<1>3. \A b1, b2 \in Bound' : b1.idHash = b2.idHash => b1 = b2
  <2> SUFFICES ASSUME NEW b1 \in Bound', NEW b2 \in Bound', b1.idHash = b2.idHash
               PROVE  b1 = b2
    OBVIOUS
  <2>1. b1.commitment = b2.commitment
    BY <1>1 DEF RowInv, OneBindingPerIdHash
  <2>2. b1 \in Binding /\ b2 \in Binding
    BY DEF Bound
  <2>3. b1.role = b2.role
    BY <1>1, <2>1 DEF RowInv, OneBindingPerIdHash
  <2>4. QED BY <2>1, <2>2, <2>3 DEF Binding
<1>4. MembersMatchBindings'
  <2>1. \A d \in Commitments :
          /\ (\E b \in Bound : b.commitment = d) => members[d] = 1
          /\ (\A b \in Bound : b.commitment # d) => members[d] = 0
    BY MembersAlt DEF RowInv
  <2>2. \A d \in Commitments :
          RolesOf(d)' = {} <=> \A b \in Bound' : b.commitment # d
    BY DEF TypeOK, RowTypeOK, RolesOf, Bound, Binding
  <2>3. QED BY <1>1, <2>1, <2>2 DEF MembersMatchBindings
<1>5. QED BY <1>1, <1>2, <1>3, <1>4 DEF RowInv, OneBindingPerIdHash

----------------------------------------------------------------------------
(* Each step keeps the types. *)

\* The kind of a request tells what it carries.
LEMMA OpTypes ==
  ASSUME TypeOK, NEW r \in Requests
  PROVE  /\ op[r].kind = "enroll" => op[r] \in Enrollments
         /\ op[r].kind = "revoke" => op[r] \in Revocations
         /\ op[r].kind = "relabel" => op[r] \in Relabels
         /\ op[r].kind = "relabelBulk" => op[r] \in BulkRelabels
         /\ op[r].kind = "reinstate" => op[r] \in Reinstatements
<1>1. op[r] \in Enrollments \cup Revocations \cup Relabels
                 \cup BulkRelabels \cup Reinstatements \/ op[r] = NoOp
  BY OperationsAssumption DEF TypeOK, RequestTypeOK
<1>2. /\ \A o \in Enrollments : o.kind = "enroll"
      /\ \A o \in Revocations : o.kind = "revoke"
      /\ \A o \in Relabels : o.kind = "relabel"
      /\ \A o \in BulkRelabels : o.kind = "relabelBulk"
      /\ \A o \in Reinstatements : o.kind = "reinstate"
      /\ NoOp.kind = "none"
  BY DEF Enrollments, Revocations, Relabels, BulkRelabels, Reinstatements, NoOp
<1>3. QED BY <1>1, <1>2

\* A step of r leaves every other request where it is, except that it may
\* count as interference with it.
Frame(r) ==
  \A q \in Requests \ {r} :
    /\ pc'[q] = pc[q] /\ op'[q] = op[q] /\ plan'[q] = plan[q] /\ reply'[q] = reply[q]
    /\ interfered'[q] <=> pc[q] = "write" /\ (interfered[q] \/ rowVars' # rowVars)

\* Each step tells the other pending requests whether it changed the row.
LEMMA ObserveType ==
  ASSUME TypeOK, NEW r \in Requests, Observe(r)
  PROVE  /\ interfered' \in [Requests -> BOOLEAN]
         /\ \A q \in Requests \ {r} :
              interfered'[q] <=> pc[q] = "write" /\ (interfered[q] \/ rowVars' # rowVars)
         /\ ~interfered'[r]
BY DEF Observe

\* An answer clears the request and leaves the others alone.
LEMMA AnswerType ==
  ASSUME TypeOK, NEW r \in Requests, NEW kind \in ReplyKind,
         NEW evicted \in SUBSET Commitments, Answer(r, kind, evicted)
  PROVE  /\ RequestTypeOK'
         /\ Frame(r)
         /\ pc'[r] = "idle" /\ reply'[r] = [kind |-> kind, evicted |-> evicted]
         /\ reply'[r].kind = kind /\ reply'[r].evicted = evicted
<1>1. Observe(r)
  BY DEF Answer
<1>2. 0 \in 0 .. MaxAttempts - 1 /\ NoPlan \in Plan
      /\ [kind |-> kind, evicted |-> evicted] \in Reply
  BY MaxAttemptsAssumption DEF NoPlan, Plan, Reply
<1>3. RequestTypeOK'
  BY <1>1, <1>2, ObserveType DEF TypeOK, RequestTypeOK, Answer
<1>4. reply'[r] = [kind |-> kind, evicted |-> evicted]
  BY DEF TypeOK, RequestTypeOK, Answer
<1>5. QED BY <1>1, <1>3, <1>4, ObserveType DEF TypeOK, RequestTypeOK, Answer, Frame

\* A read that goes on to a write leaves its plan behind.
LEMMA PrepareType ==
  ASSUME TypeOK, NEW r \in Requests, NEW targets \in SUBSET Commitments,
         NEW role \in GateRole \cup {NoRole}, NEW wasEdit \in BOOLEAN,
         Prepare(r, targets, role, wasEdit)
  PROVE  /\ RequestTypeOK'
         /\ Frame(r)
         /\ pc'[r] = "write" /\ op'[r] = op[r] /\ reply'[r] = reply[r]
         /\ plan'[r] = [targets |-> targets, role |-> role, wasEdit |-> wasEdit]
         /\ ~interfered'[r]
<1>1. Observe(r)
  BY DEF Prepare
<1>2. [targets |-> targets, role |-> role, wasEdit |-> wasEdit] \in Plan
  BY DEF Plan
<1>3. RequestTypeOK'
  BY <1>1, <1>2, ObserveType DEF TypeOK, RequestTypeOK, Prepare
<1>4. QED BY <1>1, <1>3, ObserveType DEF TypeOK, RequestTypeOK, Prepare, Frame

\* A missed write reads again, or gives up at the last attempt.
LEMMA RetryType ==
  ASSUME TypeOK, NEW r \in Requests, Retry(r)
  PROVE  /\ RequestTypeOK'
         /\ Frame(r)
         /\ \/ pc'[r] = "read" /\ op'[r] = op[r] /\ reply'[r] = reply[r]
            \/ pc'[r] = "idle" /\ reply'[r].kind = "contention" /\ reply'[r].evicted = {}
<1>0. "contention" \in ReplyKind /\ {} \in SUBSET Commitments
  BY DEF ReplyKind
<1>1. CASE Answer(r, "contention", {})
  BY <1>0, <1>1, AnswerType
<1>2. CASE ~Answer(r, "contention", {})
  <2>1. Observe(r) /\ attempt[r] + 1 \in 0 .. MaxAttempts - 1
    BY <1>2, MaxAttemptsAssumption DEF Retry, TypeOK, RequestTypeOK
  <2>2. NoPlan \in Plan
    BY DEF NoPlan, Plan
  <2>3. RequestTypeOK'
    BY <1>2, <2>1, <2>2, ObserveType DEF TypeOK, RequestTypeOK, Retry
  <2>4. QED BY <1>2, <2>1, <2>3, ObserveType DEF TypeOK, RequestTypeOK, Retry, Frame
<1>3. QED BY <1>1, <1>2

----------------------------------------------------------------------------
(* The inductive invariant, one lemma per action. *)

\* A step that leaves the row alone keeps its types and its consistency.
LEMMA RowUnchanged ==
  ASSUME TypeOK, RowInv, UNCHANGED rowVars, RequestTypeOK'
  PROVE  TypeOK' /\ RowInv'
BY DEF TypeOK, RowTypeOK, rowVars, RowInv, DenylistedNotBound, OneBindingPerIdHash,
       MembersMatchBindings, BindingsOf, RolesOf, Bound

\* The requests that did not move still have a sound plan: if nobody has
\* changed the row, their filter reads what it read before.
LEMMA OthersKeepPlan ==
  ASSUME TypeOK, PlanFromSnapshot, NEW r \in Requests, Frame(r)
  PROVE  \A q \in Requests \ {r} : PlanOK(q)'
<1> SUFFICES ASSUME NEW q \in Requests \ {r} PROVE PlanOK(q)'
  OBVIOUS
<1>1. PlanOK(q) /\ pc'[q] = pc[q] /\ op'[q] = op[q] /\ plan'[q] = plan[q] /\ reply'[q] = reply[q]
  BY DEF PlanFromSnapshot, Frame
<1>2. CASE interfered'[q] \/ pc[q] # "write"
  BY <1>1, <1>2 DEF PlanOK
<1>3. CASE ~interfered'[q] /\ pc[q] = "write"
  <2>1. ~interfered[q] /\ rowVars' = rowVars
    BY <1>3 DEF Frame
  <2>2. EnrollFilter(q) => EnrollFilter(q)'
    BY <1>1, <2>1 DEF EnrollFilter, BindingsOf, Bound, rowVars
  <2>3. RevokeFilter(q) => RevokeFilter(q)'
    BY <1>1, <2>1 DEF RevokeFilter, BindingsOf, Bound, rowVars
  <2>4. QED BY <1>1, <1>3, <2>1, <2>2, <2>3 DEF PlanOK
<1>4. QED BY <1>2, <1>3

\* A step of r that ends in an answer.
LEMMA AnswerKeepsPlan ==
  ASSUME TypeOK, PlanFromSnapshot, NEW r \in Requests, NEW kind \in ReplyKind,
         NEW evicted \in SUBSET Commitments, Answer(r, kind, evicted)
  PROVE  RequestTypeOK' /\ PlanFromSnapshot'
<1>1. RequestTypeOK' /\ Frame(r) /\ pc'[r] = "idle"
  BY AnswerType
<1>2. PlanOK(r)'
  BY <1>1 DEF PlanOK
<1>3. QED BY <1>1, <1>2, OthersKeepPlan DEF PlanFromSnapshot

\* The same for the answer after a write, which may be lost.
LEMMA AnswerWriteKeepsPlan ==
  ASSUME TypeOK, PlanFromSnapshot, NEW r \in Requests, NEW kind \in ReplyKind,
         NEW evicted \in SUBSET Commitments, AnswerWrite(r, kind, evicted)
  PROVE  RequestTypeOK' /\ PlanFromSnapshot'
<1>1. "error" \in ReplyKind /\ {} \in SUBSET Commitments
  BY DEF ReplyKind
<1>2. QED BY <1>1, AnswerKeepsPlan DEF AnswerWrite

\* A missed write leaves the other requests their plans.
LEMMA RetryKeepsPlan ==
  ASSUME TypeOK, PlanFromSnapshot, NEW r \in Requests, pc[r] = "write", Retry(r)
  PROVE  RequestTypeOK' /\ PlanFromSnapshot'
<1>1. /\ RequestTypeOK' /\ Frame(r)
      /\ \/ pc'[r] = "read" /\ op'[r] = op[r] /\ reply'[r] = reply[r]
         \/ pc'[r] = "idle"
  BY RetryType
<1>2. PlanOK(r)'
  BY <1>1 DEF PlanFromSnapshot, PlanOK
<1>3. QED BY <1>1, <1>2, OthersKeepPlan DEF PlanFromSnapshot

\* The read of enroll: its plan describes the row it has just read.
LEMMA EnrollReadStep ==
  ASSUME IInv, NEW r \in Requests, EnrollRead(r)
  PROVE  IInv'
<1> USE DEF IInv
<1> DEFINE h == op[r].idHash
           c == op[r].commitment
<1>1. /\ pc[r] = "read" /\ op[r].kind = "enroll" /\ UNCHANGED rowVars
      /\ h \in IdHashes /\ c \in Commitments /\ op[r].role \in GateRole
  BY OpTypes DEF EnrollRead, At, Enrollments
<1>2. ASSUME NEW kind \in ReplyKind, Answer(r, kind, {}) PROVE IInv'
  BY <1>1, <1>2, AnswerKeepsPlan, RowUnchanged
<1>3. ASSUME NEW targets \in {{}, {c}}, NEW role \in GateRole,
             Prepare(r, targets, role, FALSE),
             h \notin revokedIdHashes, BindingsOf(h) = {},
             (members[c] > 0) <=> (targets # {})
      PROVE  IInv'
  <2>1. /\ RequestTypeOK' /\ Frame(r)
        /\ pc'[r] = "write" /\ op'[r] = op[r] /\ reply'[r] = reply[r]
        /\ plan'[r] = [targets |-> targets, role |-> role, wasEdit |-> FALSE]
    BY <1>1, <1>3, PrepareType
  <2>2. EnrollFilter(r)'
    BY <1>1, <1>3, <2>1 DEF EnrollFilter, BindingsOf, Bound, rowVars
  <2>3. PlanOK(r)'
    BY <1>1, <1>3, <2>1, <2>2 DEF PlanFromSnapshot, PlanOK
  <2>4. QED BY <1>1, <2>1, <2>3, OthersKeepPlan, RowUnchanged DEF PlanFromSnapshot
<1>4. capRole(op[r].role, MaxRole(RolesOf(c))) \in GateRole
  BY <1>1, CapRoleType DEF RolesOf
<1>5. {"revoked", "noop", "pin-conflict"} \subseteq ReplyKind
  BY DEF ReplyKind
<1>6. CASE h \in revokedIdHashes
  BY <1>2, <1>5, <1>6 DEF EnrollRead
<1>7. CASE h \notin revokedIdHashes /\ BindingsOf(h) # {}
  <2>1. PICK b \in BindingsOf(h) :
          Answer(r, IF b.commitment = c THEN "noop" ELSE "pin-conflict", {})
    BY <1>7 DEF EnrollRead
  <2>2. QED BY <1>2, <1>5, <2>1
<1>8. CASE h \notin revokedIdHashes /\ BindingsOf(h) = {}
  <2>1. CASE members[c] > 0
    <3>1. Prepare(r, {c}, capRole(op[r].role, MaxRole(RolesOf(c))), FALSE)
      BY <1>8, <2>1 DEF EnrollRead
    <3>2. QED BY <1>3, <1>4, <1>8, <2>1, <3>1
  <2>2. CASE ~(members[c] > 0)
    <3>1. Prepare(r, {}, op[r].role, FALSE)
      BY <1>8, <2>2 DEF EnrollRead
    <3>2. QED BY <1>1, <1>3, <1>8, <2>2, <3>1
  <2>3. QED BY <2>1, <2>2
<1>9. QED BY <1>6, <1>7, <1>8

\* The write of enroll: the filter is what keeps the row consistent.
LEMMA EnrollWriteStep ==
  ASSUME IInv, NEW r \in Requests, EnrollWrite(r)
  PROVE  IInv'
<1> USE DEF IInv
<1> DEFINE h == op[r].idHash
           c == op[r].commitment
<1>1. /\ pc[r] = "write" /\ op[r].kind = "enroll"
      /\ h \in IdHashes /\ c \in Commitments
  BY OpTypes DEF EnrollWrite, At, Enrollments
<1>2. plan[r].role \in GateRole /\ plan[r].targets \in {{}, {c}}
  BY <1>1 DEF PlanFromSnapshot, PlanOK
<1>3. CASE EnrollFilter(r)
  <2>1. /\ bindings' = Push(bindings, Entry(h, c, plan[r].role))
        /\ members' = IF plan[r].targets = {} THEN Push(members, c) ELSE members
        /\ UNCHANGED <<registered, currentEpoch, revokedIdHashes>>
        /\ AnswerWrite(r, "added", {})
    BY <1>3 DEF EnrollWrite
  <2>2. RequestTypeOK' /\ PlanFromSnapshot'
    BY <2>1, AnswerWriteKeepsPlan DEF ReplyKind
  <2>3. Entry(h, c, plan[r].role) \in Binding
    BY <1>1, <1>2 DEF Entry, Binding
  <2>4. TypeOK'
    BY <1>1, <2>1, <2>2, <2>3, PushBound DEF TypeOK, RowTypeOK, Push
  <2>5. members' = IF members[c] > 0 THEN members ELSE Push(members, c)
    BY <1>3, <2>1 DEF EnrollFilter
  <2>6. RowInv'
    BY <1>1, <1>2, <1>3, <2>1, <2>4, <2>5, AddKeepsRow DEF EnrollFilter
  <2>7. QED BY <2>2, <2>4, <2>6
<1>4. CASE ~EnrollFilter(r)
  <2>1. UNCHANGED rowVars /\ Retry(r)
    BY <1>4 DEF EnrollWrite
  <2>2. QED BY <1>1, <2>1, RetryKeepsPlan, RowUnchanged
<1>5. QED BY <1>3, <1>4

\* The read of revoke: the pin is the binding it has just read.
LEMMA RevokeReadStep ==
  ASSUME IInv, NEW r \in Requests, RevokeRead(r)
  PROVE  IInv'
<1> USE DEF IInv
<1> DEFINE h == op[r].idHash
<1>1. /\ pc[r] = "read" /\ op[r].kind = "revoke" /\ UNCHANGED rowVars
      /\ h \in IdHashes /\ op[r].targetEpoch \in Nat /\ currentEpoch \in Nat
  BY OpTypes DEF RevokeRead, At, Revocations, TypeOK, RowTypeOK
<1>2. ASSUME NEW targets \in SUBSET Commitments, NEW wasEdit \in BOOLEAN,
             Prepare(r, targets, NoRole, wasEdit),
             targets = {} \/ \E c \in Commitments : targets = {c},
             op[r].targetEpoch >= currentEpoch,
             IF targets = {} THEN BindingsOf(h) = {}
             ELSE \E b \in BindingsOf(h) : b.commitment \in targets
      PROVE  IInv'
  <2>1. /\ RequestTypeOK' /\ Frame(r)
        /\ pc'[r] = "write" /\ op'[r] = op[r] /\ reply'[r] = reply[r]
        /\ plan'[r] = [targets |-> targets, role |-> NoRole, wasEdit |-> wasEdit]
    BY <1>2, PrepareType
  <2>2. RevokeFilter(r)'
    BY <1>1, <1>2, <2>1 DEF RevokeFilter, BindingsOf, Bound, rowVars
  <2>3. PlanOK(r)'
    BY <1>1, <1>2, <2>1, <2>2 DEF PlanFromSnapshot, PlanOK
  <2>4. QED BY <1>1, <2>1, <2>3, OthersKeepPlan, RowUnchanged DEF PlanFromSnapshot
<1>2a. op[r].targetEpoch < currentEpoch <=> ~(op[r].targetEpoch >= currentEpoch)
  BY <1>1
<1>3. CASE op[r].targetEpoch < currentEpoch
  <2>1. Answer(r, "stale-epoch", {})
    BY <1>3, <1>2a, Zenon DEF RevokeRead
  <2>2. QED BY <1>1, <2>1, AnswerKeepsPlan, RowUnchanged DEF ReplyKind
<1>4. CASE op[r].targetEpoch >= currentEpoch /\ BindingsOf(h) = {}
  <2>1. Prepare(r, {}, NoRole, FALSE)
    BY <1>4, <1>2a, Zenon DEF RevokeRead
  <2>2. QED BY <1>2, <1>4, <2>1
<1>5. CASE op[r].targetEpoch >= currentEpoch /\ BindingsOf(h) # {}
  <2>1. PICK b \in BindingsOf(h) : Prepare(r, {b.commitment}, NoRole, b.role = "edit")
    BY <1>5, <1>2a, Zenon DEF RevokeRead
  <2>2. b.commitment \in Commitments
    BY DEF BindingsOf, Bound, Binding
  <2>3. QED BY <1>2, <1>5, <2>1, <2>2
<1>6. QED BY <1>3, <1>4, <1>5, <1>2a

\* The write of revoke: the pin makes the pull the eviction of a whole member.
LEMMA RevokeWriteStep ==
  ASSUME IInv, NEW r \in Requests, RevokeWrite(r)
  PROVE  IInv'
<1> USE DEF IInv
<1> DEFINE h == op[r].idHash
           who == plan[r].targets
<1>1. /\ pc[r] = "write" /\ op[r].kind = "revoke"
      /\ h \in IdHashes /\ op[r].targetEpoch \in Nat /\ who \in SUBSET Commitments
  BY OpTypes DEF RevokeWrite, At, Revocations, TypeOK, RequestTypeOK, Plan
<1>2. CASE RevokeFilter(r)
  <2>1. /\ currentEpoch' = op[r].targetEpoch
        /\ members' = PullMembers(who)
        /\ bindings' = PullBindings(who)
        /\ revokedIdHashes' \in {revokedIdHashes, revokedIdHashes \cup {h}}
        /\ UNCHANGED registered
        /\ AnswerWrite(r, "ok", IF plan[r].wasEdit THEN who ELSE {})
    BY <1>2 DEF RevokeWrite
  <2>2. (IF plan[r].wasEdit THEN who ELSE {}) \in SUBSET Commitments
    BY <1>1
  <2>3. RequestTypeOK' /\ PlanFromSnapshot'
    BY <2>1, <2>2, AnswerWriteKeepsPlan DEF ReplyKind
  <2>4. TypeOK'
    BY <1>1, <2>1, <2>3, PullBound DEF TypeOK, RowTypeOK, PullMembers
  <2>5. \A b \in BindingsOf(h) : b.commitment \in who
    BY <1>2 DEF RevokeFilter, RowInv, OneBindingPerIdHash, BindingsOf
  <2>6. RowInv'
    BY <1>1, <2>1, <2>4, <2>5, PullKeepsRow
  <2>7. QED BY <2>3, <2>4, <2>6
<1>3. CASE ~RevokeFilter(r)
  <2>1. UNCHANGED rowVars /\ Retry(r)
    BY <1>3 DEF RevokeWrite
  <2>2. QED BY <1>1, <2>1, RetryKeepsPlan, RowUnchanged
<1>4. QED BY <1>2, <1>3

\* The reads that no filter will check: relabel, bulk relabel and reinstate.
LEMMA PrepareKeepsInv ==
  ASSUME IInv, NEW r \in Requests, pc[r] = "read", UNCHANGED rowVars,
         op[r].kind \in {"relabel", "relabelBulk", "reinstate"},
         NEW targets \in SUBSET Commitments, NEW role \in GateRole \cup {NoRole},
         op[r].kind # "reinstate" => role \in GateRole,
         NEW wasEdit \in BOOLEAN, Prepare(r, targets, role, wasEdit)
  PROVE  IInv'
<1> USE DEF IInv
<1>1. /\ RequestTypeOK' /\ Frame(r)
      /\ pc'[r] = "write" /\ op'[r] = op[r] /\ reply'[r] = reply[r]
      /\ plan'[r] = [targets |-> targets, role |-> role, wasEdit |-> wasEdit]
  BY PrepareType
<1>2. PlanOK(r)'
  BY <1>1 DEF PlanFromSnapshot, PlanOK
<1>3. QED BY <1>1, <1>2, OthersKeepPlan, RowUnchanged DEF PlanFromSnapshot

\* The read of relabel: one commitment or none.
LEMMA RelabelReadStep ==
  ASSUME IInv, NEW r \in Requests, RelabelRead(r)
  PROVE  IInv'
<1>1. /\ pc[r] = "read" /\ op[r].kind = "relabel" /\ UNCHANGED rowVars
      /\ op[r].newRole \in GateRole
  BY OpTypes DEF RelabelRead, At, Relabels, IInv
<1>2. CASE Answer(r, "ok", {})
  BY <1>1, <1>2, AnswerKeepsPlan, RowUnchanged DEF ReplyKind, IInv
<1>3. CASE \E b \in BindingsOf(op[r].idHash) :
             Prepare(r, {b.commitment}, op[r].newRole, b.role = "edit")
  <2>1. PICK b \in BindingsOf(op[r].idHash) :
               Prepare(r, {b.commitment}, op[r].newRole, b.role = "edit")
    BY <1>3
  <2>2. {b.commitment} \in SUBSET Commitments
    BY DEF BindingsOf, Bound, Binding
  <2>3. (b.role = "edit") \in BOOLEAN
    OBVIOUS
  <2>4. QED BY <1>1, <2>1, <2>2, <2>3, PrepareKeepsInv
<1>4. QED BY <1>2, <1>3, Zenon DEF RelabelRead

\* The read of a bulk relabel: the commitments of the named identifiers.
LEMMA RelabelBulkReadStep ==
  ASSUME IInv, NEW r \in Requests, RelabelBulkRead(r)
  PROVE  IInv'
<1> DEFINE found == {b.commitment : b \in UNION {BindingsOf(h) : h \in op[r].idHashes}}
<1>1. /\ pc[r] = "read" /\ op[r].kind = "relabelBulk" /\ UNCHANGED rowVars
      /\ op[r].newRole \in GateRole
  BY OpTypes DEF RelabelBulkRead, At, BulkRelabels, GateRole, IInv
<1>2. found \in SUBSET Commitments
  BY DEF BindingsOf, Bound, Binding
<1>3. CASE Answer(r, "ok", {})
  BY <1>1, <1>3, AnswerKeepsPlan, RowUnchanged DEF ReplyKind, IInv
<1>4. CASE Prepare(r, found, op[r].newRole, FALSE)
  BY <1>1, <1>2, <1>4, PrepareKeepsInv
<1>5. QED BY <1>3, <1>4, Zenon DEF RelabelBulkRead

\* The read of reinstate, which only looks whether the row is there.
LEMMA ReinstateReadStep ==
  ASSUME IInv, NEW r \in Requests, ReinstateRead(r)
  PROVE  IInv'
BY PrepareKeepsInv DEF ReinstateRead, At

\* Both relabels write in the same way; only the answer differs.
LEMMA RelabelKeepsInv ==
  ASSUME IInv, NEW r \in Requests, NEW evicted \in SUBSET Commitments,
         pc[r] = "write", op[r].kind \in {"relabel", "relabelBulk"},
         bindings' = SetRole(plan[r].targets, plan[r].role),
         UNCHANGED <<registered, currentEpoch, members, revokedIdHashes>>,
         AnswerWrite(r, "ok", evicted)
  PROVE  IInv'
<1> USE DEF IInv
<1>1. plan[r].role \in GateRole /\ plan[r].targets \in SUBSET Commitments
  BY DEF PlanFromSnapshot, PlanOK, TypeOK, RequestTypeOK, Plan
<1>2. RequestTypeOK' /\ PlanFromSnapshot'
  BY AnswerWriteKeepsPlan DEF ReplyKind
<1>3. TypeOK'
  BY <1>1, <1>2, SetRoleBound DEF TypeOK, RowTypeOK
<1>4. RowInv'
  BY <1>1, <1>3, SetRoleKeepsRow
<1>5. QED BY <1>2, <1>3, <1>4

\* The writes of relabel and bulk relabel.
LEMMA RelabelWriteStep ==
  ASSUME IInv, NEW r \in Requests, RelabelWrite(r) \/ RelabelBulkWrite(r)
  PROVE  IInv'
<1>1. plan[r].targets \in SUBSET Commitments
  BY DEF IInv, TypeOK, RequestTypeOK, Plan
<1>2. (IF plan[r].wasEdit /\ plan[r].role # "edit" THEN plan[r].targets ELSE {})
        \in SUBSET Commitments
  BY <1>1
<1>3. QED BY <1>2, RelabelKeepsInv DEF RelabelWrite, RelabelBulkWrite, At

\* The write of reinstate takes a name off the denylist.
LEMMA ReinstateWriteStep ==
  ASSUME IInv, NEW r \in Requests, ReinstateWrite(r)
  PROVE  IInv'
<1> USE DEF IInv
<1>1. RequestTypeOK' /\ PlanFromSnapshot'
  BY AnswerWriteKeepsPlan DEF ReinstateWrite, ReplyKind
<1>2. TypeOK'
  BY <1>1 DEF ReinstateWrite, TypeOK, RowTypeOK
<1>3. RowInv'
  BY DEF ReinstateWrite, RowInv, DenylistedNotBound, OneBindingPerIdHash,
         MembersMatchBindings, BindingsOf, RolesOf, Bound
<1>4. QED BY <1>1, <1>2, <1>3

\* A new request has no plan yet.
LEMMA SubmitStep ==
  ASSUME IInv, NEW r \in Requests, Submit(r)
  PROVE  IInv'
<1> USE DEF IInv
<1>1. UNCHANGED <<rowVars, attempt, plan, interfered>> /\ pc[r] = "idle"
  BY DEF Submit
<1>2. PICK o \in Operations :
        \/ /\ pc' = [pc EXCEPT ![r] = "read"]
           /\ op' = [op EXCEPT ![r] = o]
           /\ reply' = [reply EXCEPT ![r] = NoReply]
        \/ /\ reply' = [reply EXCEPT ![r] = [kind |-> "unknown-doc", evicted |-> {}]]
           /\ UNCHANGED <<pc, op>>
  BY DEF Submit
<1>3. NoReply \in Reply /\ [kind |-> "unknown-doc", evicted |-> {}] \in Reply
  BY DEF NoReply, Reply, ReplyKind
<1>4. RequestTypeOK'
  BY <1>1, <1>2, <1>3 DEF TypeOK, RequestTypeOK
<1>5. PlanOK(r)'
  BY <1>1, <1>2 DEF PlanOK, TypeOK, RequestTypeOK
<1>6. ASSUME NEW q \in Requests \ {r} PROVE PlanOK(q)'
  <2>1. PlanOK(q) /\ pc'[q] = pc[q] /\ op'[q] = op[q] /\ plan'[q] = plan[q]
          /\ reply'[q] = reply[q] /\ interfered'[q] = interfered[q]
    BY <1>1, <1>2 DEF PlanFromSnapshot, TypeOK, RequestTypeOK
  <2>2. (EnrollFilter(q) => EnrollFilter(q)') /\ (RevokeFilter(q) => RevokeFilter(q)')
    BY <1>1, <2>1 DEF EnrollFilter, RevokeFilter, BindingsOf, Bound, rowVars
  <2>3. QED BY <2>1, <2>2 DEF PlanOK
<1>7. QED BY <1>1, <1>4, <1>5, <1>6, RowUnchanged DEF PlanFromSnapshot

\* The creation of the row finds no pending write.
LEMMA RegisterStep ==
  ASSUME IInv, Register
  PROVE  IInv'
<1>1. UNCHANGED <<currentEpoch, members, bindings, revokedIdHashes, requestVars>>
      /\ registered' = TRUE
  BY DEF Register
<1>2. TypeOK'
  BY <1>1 DEF IInv, TypeOK, RowTypeOK, RequestTypeOK, requestVars
<1>3. RowInv'
  BY <1>1 DEF IInv, RowInv, DenylistedNotBound, OneBindingPerIdHash,
         MembersMatchBindings, BindingsOf, RolesOf, Bound
<1>4. ASSUME NEW r \in Requests PROVE PlanOK(r)'
  <2>1. (EnrollFilter(r) => EnrollFilter(r)') /\ (RevokeFilter(r) => RevokeFilter(r)')
    BY <1>1 DEF EnrollFilter, RevokeFilter, BindingsOf, Bound, requestVars
  <2>2. QED BY <1>1, <2>1 DEF PlanOK, IInv, PlanFromSnapshot, requestVars
<1>5. QED BY <1>2, <1>3, <1>4 DEF IInv, PlanFromSnapshot

\* A failed call is an answer that changes nothing.
LEMMA DatabaseErrorStep ==
  ASSUME IInv, NEW r \in Requests, DatabaseError(r)
  PROVE  IInv'
BY AnswerKeepsPlan, RowUnchanged DEF DatabaseError, IInv, ReplyKind

\* A step of nothing keeps everything.
LEMMA StutterStep ==
  ASSUME IInv, UNCHANGED vars
  PROVE  IInv'
<1>1. TypeOK' /\ RowInv'
  BY RowUnchanged DEF IInv, vars, requestVars, TypeOK, RequestTypeOK
<1>2. ASSUME NEW r \in Requests PROVE PlanOK(r)'
  <2>1. (EnrollFilter(r) => EnrollFilter(r)') /\ (RevokeFilter(r) => RevokeFilter(r)')
    BY DEF EnrollFilter, RevokeFilter, BindingsOf, Bound, vars, rowVars, requestVars
  <2>2. QED BY <2>1 DEF PlanOK, IInv, PlanFromSnapshot, vars, requestVars
<1>3. QED BY <1>1, <1>2 DEF IInv, PlanFromSnapshot

\* Before the first request the invariant holds.
LEMMA InitInv == Init => IInv
<1> SUFFICES ASSUME Init PROVE IInv
  OBVIOUS
<1>1. TypeOK
  <2>1. RowTypeOK
    BY DEF Init, RowTypeOK
  <2>2. 0 \in 0 .. MaxAttempts - 1 /\ NoPlan \in Plan /\ NoReply \in Reply
    BY MaxAttemptsAssumption DEF NoPlan, Plan, NoReply, Reply, ReplyKind
  <2>3. RequestTypeOK
    BY <2>2 DEF Init, RequestTypeOK
  <2>4. QED BY <2>1, <2>3 DEF TypeOK
<1>2. Bound = {}
  BY DEF Init, Bound
<1>3. RowInv
  BY <1>2 DEF Init, RowInv, DenylistedNotBound, OneBindingPerIdHash,
              MembersMatchBindings, BindingsOf, RolesOf
<1>4. QED BY <1>1, <1>3 DEF Init, IInv, PlanFromSnapshot, PlanOK

\* Every step keeps the inductive invariant.
LEMMA NextInv == IInv /\ [Next]_vars => IInv'
<1> SUFFICES ASSUME IInv, [Next]_vars PROVE IInv'
  OBVIOUS
<1>1. CASE Register
  BY <1>1, RegisterStep
<1>2. ASSUME NEW r \in Requests, Submit(r) PROVE IInv'
  BY <1>2, SubmitStep
<1>3. ASSUME NEW r \in Requests, Step(r) PROVE IInv'
  BY <1>3, EnrollReadStep, EnrollWriteStep, RevokeReadStep, RevokeWriteStep,
     RelabelReadStep, RelabelBulkReadStep, RelabelWriteStep,
     ReinstateReadStep, ReinstateWriteStep, DatabaseErrorStep DEF Step
<1>4. CASE UNCHANGED vars
  BY <1>4, StutterStep
<1>5. QED BY <1>1, <1>2, <1>3, <1>4 DEF Next

----------------------------------------------------------------------------
(* The theorems. *)

\* The inductive invariant holds in every reachable state, whatever the
\* requests ask for and however their steps interleave.
THEOREM Invariance == Spec => []IInv
BY InitInv, NextInv, PTL DEF Spec

\* The row and the requests in flight keep their types.
THEOREM TypeCorrect == Spec => []TypeOK
<1>1. IInv => TypeOK
  BY DEF IInv
<1>2. QED BY <1>1, Invariance, PTL

\* A write is made from a snapshot its filter still describes, unless another
\* request has changed the row meanwhile.
THEOREM SnapshotCorrect == Spec => []PlanFromSnapshot
<1>1. IInv => PlanFromSnapshot
  BY DEF IInv
<1>2. QED BY <1>1, Invariance, PTL

\* A denylisted identifier is never bound: no enroll slips past a revocation.
THEOREM DenylistCorrect == Spec => []DenylistedNotBound
<1>1. IInv => DenylistedNotBound
  BY DEF IInv, RowInv
<1>2. QED BY <1>1, Invariance, PTL

\* An identifier never has two bindings: no two enrolls both append.
THEOREM BindingsCorrect == Spec => []OneBindingPerIdHash
<1>1. IInv => OneBindingPerIdHash
  BY DEF IInv, RowInv
<1>2. QED BY <1>1, Invariance, PTL

\* The list of the tree holds exactly the bound commitments, once each.
THEOREM MembersCorrect == Spec => []MembersMatchBindings
<1>1. IInv => MembersMatchBindings
  BY DEF IInv, RowInv
<1>2. QED BY <1>1, Invariance, PTL

\* The epoch never goes back.
LEMMA EpochStep == IInv /\ [Next]_vars => currentEpoch' >= currentEpoch
<1> SUFFICES ASSUME IInv, [Next]_vars PROVE currentEpoch' >= currentEpoch
  OBVIOUS
<1>1. currentEpoch \in Nat
  BY DEF IInv, TypeOK, RowTypeOK
<1>2. CASE currentEpoch' = currentEpoch
  BY <1>1, <1>2
<1>3. CASE \E r \in Requests : RevokeWrite(r) /\ RevokeFilter(r)
  <2>1. PICK r \in Requests : RevokeWrite(r) /\ RevokeFilter(r)
    BY <1>3
  <2>2. currentEpoch' = op[r].targetEpoch /\ op[r].targetEpoch \in Nat
    BY <2>1, OpTypes DEF RevokeWrite, At, Revocations, IInv
  <2>3. QED BY <1>1, <2>1, <2>2 DEF RevokeFilter
<1>4. currentEpoch' = currentEpoch \/ \E r \in Requests : RevokeWrite(r) /\ RevokeFilter(r)
  BY DEF Next, Step, Register, Submit, DatabaseError, EnrollRead, EnrollWrite, RevokeRead,
         RevokeWrite, RelabelRead, RelabelWrite, RelabelBulkRead, RelabelBulkWrite,
         ReinstateRead, ReinstateWrite, vars, rowVars
<1>5. QED BY <1>2, <1>3, <1>4

\* The epoch of the document only moves forward: revocations for different epochs
\* that overtake each other cannot take it back (revoke.ts, currentEpoch $lte).
THEOREM EpochCorrect == Spec => EpochForwardOnly
<1>1. IInv /\ [Next]_vars => [currentEpoch' >= currentEpoch]_vars
  BY EpochStep
<1>2. QED BY <1>1, Invariance, PTL DEF Spec, EpochForwardOnly

\* A step of r moves the program counter of r and of nobody else.
MovesOnly(r) == \E step \in {"idle", "read", "write"} : pc' = [pc EXCEPT ![r] = step]

\* Every step of a request moves that request alone.
LEMMA StepMovesOnly ==
  ASSUME NEW r \in Requests, Step(r)
  PROVE  MovesOnly(r)
<1> USE DEF MovesOnly
<1>1. ASSUME NEW kind, NEW evicted, Answer(r, kind, evicted) PROVE MovesOnly(r)
  BY <1>1 DEF Answer
<1>2. ASSUME NEW targets, NEW role, NEW wasEdit, Prepare(r, targets, role, wasEdit)
      PROVE  MovesOnly(r)
  BY <1>2 DEF Prepare
<1>3. ASSUME Retry(r) PROVE MovesOnly(r)
  BY <1>1, <1>3 DEF Retry
<1> HIDE DEF MovesOnly
<1>4. CASE EnrollRead(r)
  BY <1>1, <1>2, <1>4, Zenon DEF EnrollRead
<1>5. CASE EnrollWrite(r)
  BY <1>1, <1>3, <1>5, Zenon DEF EnrollWrite, AnswerWrite
<1>6. CASE RevokeRead(r)
  BY <1>1, <1>2, <1>6, Zenon DEF RevokeRead
<1>7. CASE RevokeWrite(r)
  BY <1>1, <1>3, <1>7, Zenon DEF RevokeWrite, AnswerWrite
<1>8. CASE RelabelRead(r) \/ RelabelBulkRead(r) \/ ReinstateRead(r)
  BY <1>1, <1>2, <1>8, Zenon DEF RelabelRead, RelabelBulkRead, ReinstateRead
<1>9. CASE RelabelWrite(r) \/ RelabelBulkWrite(r) \/ ReinstateWrite(r) \/ DatabaseError(r)
  BY <1>1, <1>9, Zenon
     DEF RelabelWrite, RelabelBulkWrite, ReinstateWrite, DatabaseError, AnswerWrite
<1>10. QED BY <1>4, <1>5, <1>6, <1>7, <1>8, <1>9 DEF Step

\* A request leaves its gap only by its own write, or by the database failing.
LEMMA WriterMoves ==
  ASSUME IInv, Next, NEW r \in Requests, pc[r] = "write", pc'[r] # "write"
  PROVE  \/ EnrollWrite(r) \/ RevokeWrite(r) \/ RelabelWrite(r)
         \/ RelabelBulkWrite(r) \/ ReinstateWrite(r) \/ DatabaseError(r)
<1>1. pc \in [Requests -> {"idle", "read", "write"}]
  BY DEF IInv, TypeOK, RequestTypeOK
<1>2. ~Register
  BY DEF Register, requestVars
<1>3. ASSUME NEW q \in Requests, Submit(q) PROVE FALSE
  BY <1>1, <1>3 DEF Submit
<1>4. ASSUME NEW q \in Requests, Step(q) PROVE q = r
  BY <1>1, <1>4, StepMovesOnly DEF MovesOnly
<1>5. Step(r)
  BY <1>2, <1>3, <1>4 DEF Next
<1>6. QED
  BY <1>5 DEF Step, At, EnrollRead, RevokeRead, RelabelRead, RelabelBulkRead, ReinstateRead

\* After a write the answer is the one meant, or an error when it was lost.
LEMMA AnswerWriteReply ==
  ASSUME IInv, NEW r \in Requests, NEW kind \in ReplyKind,
         NEW evicted \in SUBSET Commitments, AnswerWrite(r, kind, evicted)
  PROVE  /\ pc'[r] = "idle"
         /\ \/ reply'[r].kind = kind /\ reply'[r].evicted = evicted
            \/ reply'[r].kind = "error" /\ reply'[r].evicted = {}
<1>1. "error" \in ReplyKind /\ {} \in SUBSET Commitments
  BY DEF ReplyKind
<1>2. CASE Answer(r, kind, evicted)
  BY <1>2, AnswerType DEF IInv
<1>3. CASE Answer(r, "error", {})
  BY <1>1, <1>3, AnswerType DEF IInv
<1>4. QED BY <1>2, <1>3 DEF AnswerWrite

\* An error is an answer of no effect.
LEMMA ErrorReply ==
  ASSUME IInv, NEW r \in Requests, DatabaseError(r)
  PROVE  pc'[r] = "idle" /\ reply'[r].kind = "error" /\ reply'[r].evicted = {}
<1>1. "error" \in ReplyKind /\ {} \in SUBSET Commitments
  BY DEF ReplyKind
<1>2. QED BY <1>1, AnswerType DEF DatabaseError, IInv

\* A revoke that answers ok has evicted the member.
THEOREM EvictionCorrect == Spec => RevokeEvicts
<1>1. IInv /\ [Next]_vars => [\A r \in Requests, h \in IdHashes : Evicts(r, h)]_vars
  <2> SUFFICES ASSUME IInv, Next, NEW r \in Requests, NEW h \in IdHashes,
                      op[r].kind = "revoke", op[r].idHash = h, Answers(r, "ok")
               PROVE  /\ BindingsOf(h)' = {}
                      /\ \A b \in BindingsOf(h) :
                           RolesOf(b.commitment)' = {} /\ members'[b.commitment] = 0
    BY DEF Evicts
  <2> DEFINE who == plan[r].targets
  <2>1. pc[r] = "write" /\ pc'[r] = "idle" /\ reply'[r].kind = "ok"
    BY DEF Answers
  <2>2. ~DatabaseError(r)
    BY <2>1, ErrorReply
  <2>3. RevokeWrite(r)
    BY <2>1, <2>2, WriterMoves DEF EnrollWrite, RelabelWrite, RelabelBulkWrite,
       ReinstateWrite, At
  <2>4. ~Retry(r)
    BY <2>1, RetryType DEF IInv
  <2>5. RevokeFilter(r) /\ members' = PullMembers(who) /\ bindings' = PullBindings(who)
    BY <2>3, <2>4 DEF RevokeWrite
  <2>6. who \in SUBSET Commitments
    BY DEF IInv, TypeOK, RequestTypeOK, Plan
  <2>7. Bound' = {b \in Bound : b.commitment \notin who}
    BY <2>5, <2>6, PullBound DEF IInv
  <2>8. \A b \in BindingsOf(h) : b.commitment \in who
    BY <2>5 DEF RevokeFilter, BindingsOf, IInv, RowInv, OneBindingPerIdHash
  <2>9. BindingsOf(h)' = {}
    BY <2>7, <2>8 DEF BindingsOf
  <2>10. ASSUME NEW b \in BindingsOf(h)
         PROVE  RolesOf(b.commitment)' = {} /\ members'[b.commitment] = 0
    <3>1. b.commitment \in who /\ b.commitment \in Commitments
      BY <2>8 DEF BindingsOf, Bound, Binding
    <3>2. \A a \in Bound' : a.commitment # b.commitment
      BY <2>7, <3>1
    <3>3. QED BY <2>5, <3>1, <3>2 DEF PullMembers, RolesOf
  <2>11. QED BY <2>9, <2>10
<1>2. QED BY <1>1, Invariance, PTL DEF Spec, RevokeEvicts

\* A compare-and-set that nobody interfered with does not miss.
THEOREM MissCorrect == Spec => MissMeansInterference
<1>1. IInv /\ [Next]_vars => [\A r \in Requests : Misses(r) => interfered[r]]_vars
  <2> SUFFICES ASSUME IInv, Next, NEW r \in Requests, pc[r] = "write", ~interfered[r],
                      pc'[r] = "read" \/ (pc'[r] = "idle" /\ reply'[r].kind = "contention")
               PROVE  FALSE
    BY DEF Misses, Answers
  <2>1. ~DatabaseError(r)
    BY ErrorReply
  <2>2. ASSUME NEW kind \in {"added", "ok"}, NEW evicted \in SUBSET Commitments
        PROVE  ~AnswerWrite(r, kind, evicted)
    BY AnswerWriteReply DEF ReplyKind
  <2>3. plan[r].targets \in SUBSET Commitments
    BY DEF IInv, TypeOK, RequestTypeOK, Plan
  <2>4. ~RelabelWrite(r) /\ ~RelabelBulkWrite(r) /\ ~ReinstateWrite(r)
    BY <2>2, <2>3 DEF RelabelWrite, RelabelBulkWrite, ReinstateWrite
  <2>5. CASE EnrollWrite(r)
    <3>1. EnrollFilter(r)
      BY <2>5 DEF EnrollWrite, At, IInv, PlanFromSnapshot, PlanOK
    <3>2. QED BY <2>2, <2>5, <3>1 DEF EnrollWrite
  <2>6. CASE RevokeWrite(r)
    <3>1. RevokeFilter(r)
      BY <2>6 DEF RevokeWrite, At, IInv, PlanFromSnapshot, PlanOK
    <3>2. QED BY <2>2, <2>3, <2>6, <3>1 DEF RevokeWrite
  <2>7. QED BY <2>1, <2>4, <2>5, <2>6, WriterMoves
<1>2. QED BY <1>1, Invariance, PTL DEF Spec, MissMeansInterference

\* Whoever a handler reports evicted cannot edit any more.
THEOREM ReportCorrect == Spec => ReportedAreOffEdit
<1>1. IInv /\ [Next]_vars => [\A r \in Requests : ReportsTruly(r)]_vars
  <2> SUFFICES ASSUME IInv, Next, NEW r \in Requests, pc[r] = "write",
                      NEW c \in reply'[r].evicted
               PROVE  \A b \in Bound' : b.commitment = c => b.role # "edit"
    BY DEF ReportsTruly, RolesOf
  <2>1. pc'[r] = "idle"
    BY NextInv DEF IInv, PlanFromSnapshot, PlanOK, NoReply
  <2>2. plan[r].targets \in SUBSET Commitments /\ {} \in SUBSET Commitments
    BY DEF IInv, TypeOK, RequestTypeOK, Plan
  <2>3. ~DatabaseError(r) /\ ~Retry(r)
    BY <2>1, ErrorReply, RetryType DEF IInv
  <2>4. ASSUME NEW kind \in {"added", "ok"} PROVE ~AnswerWrite(r, kind, {})
    BY <2>2, AnswerWriteReply DEF ReplyKind
  <2>5. RevokeWrite(r) \/ RelabelWrite(r)
    BY <2>1, <2>3, <2>4, WriterMoves DEF EnrollWrite, RelabelBulkWrite, ReinstateWrite
  <2>6. CASE RevokeWrite(r)
    <3>1. bindings' = PullBindings(plan[r].targets)
            /\ AnswerWrite(r, "ok", IF plan[r].wasEdit THEN plan[r].targets ELSE {})
      BY <2>3, <2>6 DEF RevokeWrite
    <3>2. (IF plan[r].wasEdit THEN plan[r].targets ELSE {}) \in SUBSET Commitments
      BY <2>2
    <3>3. c \in plan[r].targets
      BY <3>1, <3>2, AnswerWriteReply DEF ReplyKind
    <3>4. QED BY <2>2, <3>1, <3>3, PullBound DEF IInv
  <2>7. CASE RelabelWrite(r)
    <3> DEFINE evicted == IF plan[r].wasEdit /\ plan[r].role # "edit"
                          THEN plan[r].targets ELSE {}
    <3>1. bindings' = SetRole(plan[r].targets, plan[r].role) /\ AnswerWrite(r, "ok", evicted)
      BY <2>7 DEF RelabelWrite
    <3>2. evicted \in SUBSET Commitments
      BY <2>2
    <3>3. c \in plan[r].targets /\ plan[r].role # "edit"
      BY <3>1, <3>2, AnswerWriteReply DEF ReplyKind
    <3>4. plan[r].role \in GateRole
      BY <2>7 DEF RelabelWrite, At, IInv, PlanFromSnapshot, PlanOK
    <3> HIDE DEF evicted
    <3>5. TypeOK /\ OneBindingPerIdHash
      BY DEF IInv, RowInv
    <3>6. \A b \in Bound' : b.commitment \in plan[r].targets => b.role = plan[r].role
      BY <2>2, <3>1, <3>4, <3>5, SetRoleMoves
    <3>7. QED BY <3>3, <3>6
  <2>8. QED BY <2>5, <2>6, <2>7
<1>2. QED BY <1>1, Invariance, PTL DEF Spec, ReportedAreOffEdit

----------------------------------------------------------------------------
(* What a write took from the row besides what its filter checks. *)

\* What a plan took from the row besides what its filter checks: the cap of an
\* enroll, and whose binding a relabel found.
CapAsRead(r) ==
  At(r, "write", "enroll") /\ ~interfered[r] /\ plan[r].targets # {} =>
    plan[r].role = capRole(op[r].role, MaxRole(RolesOf(op[r].commitment)))
NameAsRead(r) ==
  At(r, "write", "relabel") /\ ~interfered[r] =>
    \E b \in BindingsOf(op[r].idHash) :
      plan[r].targets = {b.commitment} /\ (plan[r].wasEdit <=> b.role = "edit")

RolesRead == \A r \in Requests : CapAsRead(r) /\ NameAsRead(r)

\* Every step of a request is one that the others can see.
LEMMA StepFrame ==
  ASSUME IInv, NEW r \in Requests, Step(r)
  PROVE  Frame(r)
<1>1. ASSUME NEW kind, NEW evicted, Answer(r, kind, evicted) PROVE Frame(r)
  BY <1>1, ObserveType DEF Answer, Frame, IInv, TypeOK, RequestTypeOK
<1>2. ASSUME NEW targets, NEW role, NEW wasEdit, Prepare(r, targets, role, wasEdit) PROVE Frame(r)
  BY <1>2, ObserveType DEF Prepare, Frame, IInv, TypeOK, RequestTypeOK
<1>3. ASSUME Retry(r) PROVE Frame(r)
  BY <1>3, RetryType DEF IInv
<1>4. CASE EnrollRead(r)
  BY <1>1, <1>2, <1>4, Zenon DEF EnrollRead
<1>5. CASE EnrollWrite(r)
  BY <1>1, <1>3, <1>5, Zenon DEF EnrollWrite, AnswerWrite
<1>6. CASE RevokeRead(r)
  BY <1>1, <1>2, <1>6, Zenon DEF RevokeRead
<1>7. CASE RevokeWrite(r)
  BY <1>1, <1>3, <1>7, Zenon DEF RevokeWrite, AnswerWrite
<1>8. CASE RelabelRead(r) \/ RelabelBulkRead(r) \/ ReinstateRead(r)
  BY <1>1, <1>2, <1>8, Zenon DEF RelabelRead, RelabelBulkRead, ReinstateRead
<1>9. CASE RelabelWrite(r) \/ RelabelBulkWrite(r) \/ ReinstateWrite(r) \/ DatabaseError(r)
  BY <1>1, <1>9, Zenon
     DEF RelabelWrite, RelabelBulkWrite, ReinstateWrite, DatabaseError, AnswerWrite
<1>10. QED BY <1>4, <1>5, <1>6, <1>7, <1>8, <1>9 DEF Step

\* Whoever did not move, and was not interfered with, still sees what it read.
LEMMA OthersRead ==
  ASSUME NEW q \in Requests, CapAsRead(q), NameAsRead(q),
         pc'[q] = pc[q], op'[q] = op[q], plan'[q] = plan[q],
         pc[q] = "write" /\ ~interfered'[q] => ~interfered[q] /\ bindings' = bindings
  PROVE  CapAsRead(q)' /\ NameAsRead(q)'
<1>. SUFFICES ASSUME pc[q] = "write", ~interfered'[q] PROVE CapAsRead(q)' /\ NameAsRead(q)'
  BY DEF CapAsRead, NameAsRead, At
<1>1. ~interfered[q] /\ bindings' = bindings
  OBVIOUS
<1>2. /\ RolesOf(op[q].commitment)' = RolesOf(op[q].commitment)
      /\ BindingsOf(op[q].idHash)' = BindingsOf(op[q].idHash)
  BY <1>1 DEF RolesOf, BindingsOf, Bound
<1>3. CapAsRead(q)'
  BY <1>1, <1>2 DEF CapAsRead, At
<1>4. NameAsRead(q)'
  BY <1>1, <1>2 DEF NameAsRead, At
<1>5. QED BY <1>3, <1>4

\* A request that goes on to its write remembers what it has just read.
LEMMA OwnRead ==
  ASSUME IInv, NEW r \in Requests, Step(r)
  PROVE  CapAsRead(r)' /\ NameAsRead(r)'
<1>. USE DEF IInv, TypeOK, RequestTypeOK
<1>1. CASE \E kind, evicted : Answer(r, kind, evicted)
  BY <1>1 DEF Answer, CapAsRead, NameAsRead, At
<1>2. CASE pc[r] = "write" /\ Retry(r)
  BY <1>1, <1>2 DEF Retry, CapAsRead, NameAsRead, At
<1>3. ASSUME NEW targets, NEW role, NEW wasEdit, Prepare(r, targets, role, wasEdit)
      PROVE  /\ op' = op
             /\ plan'[r] = [targets |-> targets, role |-> role, wasEdit |-> wasEdit]
             /\ plan'[r].targets = targets /\ plan'[r].role = role /\ plan'[r].wasEdit = wasEdit
  BY <1>3 DEF Prepare
<1>4. CASE EnrollRead(r)
  <2>1. op[r].kind = "enroll" /\ bindings' = bindings
    BY <1>4 DEF EnrollRead, At, rowVars
  <2>2. CASE Prepare(r, {}, op[r].role, FALSE)
    BY <1>3, <2>1, <2>2 DEF CapAsRead, NameAsRead, At
  <2>3. CASE Prepare(r, {op[r].commitment}, capRole(op[r].role, MaxRole(RolesOf(op[r].commitment))), FALSE)
    <3>1. op' = op /\ plan'[r].role = capRole(op[r].role, MaxRole(RolesOf(op[r].commitment)))
      BY <1>3, <2>3
    <3>2. RolesOf(op[r].commitment)' = RolesOf(op[r].commitment)
      BY <2>1, <3>1 DEF RolesOf, Bound
    <3>3. QED BY <2>1, <3>1, <3>2 DEF CapAsRead, NameAsRead, At
  <2>4. QED BY <1>1, <1>4, <2>2, <2>3 DEF EnrollRead
<1>5. CASE RelabelRead(r)
  <2>1. op[r].kind = "relabel" /\ bindings' = bindings
    BY <1>5 DEF RelabelRead, At, rowVars
  <2>2. ASSUME NEW b \in BindingsOf(op[r].idHash),
               Prepare(r, {b.commitment}, op[r].newRole, b.role = "edit")
        PROVE  CapAsRead(r)' /\ NameAsRead(r)'
    <3>1. op' = op /\ plan'[r].targets = {b.commitment} /\ plan'[r].wasEdit = (b.role = "edit")
      BY <1>3, <2>2
    <3>2. BindingsOf(op[r].idHash)' = BindingsOf(op[r].idHash)
      BY <2>1, <3>1 DEF BindingsOf, Bound
    <3>3. QED BY <2>1, <3>1, <3>2 DEF CapAsRead, NameAsRead, At
  <2>3. QED BY <1>1, <1>5, <2>2 DEF RelabelRead
<1>6. CASE RevokeRead(r) \/ RelabelBulkRead(r) \/ ReinstateRead(r)
  <2>1. op[r].kind \in {"revoke", "relabelBulk", "reinstate"}
    BY <1>6 DEF RevokeRead, RelabelBulkRead, ReinstateRead, At
  <2>2. (\E kind, evicted : Answer(r, kind, evicted)) \/ op' = op
    BY <1>6 DEF RevokeRead, RelabelBulkRead, ReinstateRead, Prepare
  <2>3. QED BY <1>1, <2>1, <2>2 DEF CapAsRead, NameAsRead, At
<1>7. CASE EnrollWrite(r) \/ RevokeWrite(r) \/ RelabelWrite(r) \/ RelabelBulkWrite(r)
             \/ ReinstateWrite(r) \/ DatabaseError(r)
  BY <1>1, <1>2, <1>7 DEF EnrollWrite, RevokeWrite, RelabelWrite, RelabelBulkWrite,
     ReinstateWrite, DatabaseError, AnswerWrite, At
<1>8. QED BY <1>4, <1>5, <1>6, <1>7 DEF Step

LEMMA NextRead == IInv /\ RolesRead /\ [Next]_vars => RolesRead'
<1>. SUFFICES ASSUME IInv, RolesRead, [Next]_vars, NEW q \in Requests
              PROVE  CapAsRead(q)' /\ NameAsRead(q)'
  BY DEF RolesRead
<1>0. CapAsRead(q) /\ NameAsRead(q)
  BY DEF RolesRead
<1>1. CASE Register \/ UNCHANGED vars
  BY <1>0, <1>1, OthersRead DEF Register, vars, rowVars, requestVars
<1>2. ASSUME NEW r \in Requests, Submit(r) PROVE CapAsRead(q)' /\ NameAsRead(q)'
  <2>1. UNCHANGED <<rowVars, plan, interfered>>
    BY <1>2 DEF Submit
  <2>2. CASE q = r
    <3>1. pc'[r] \in {"read", "idle"}
      BY <1>2 DEF Submit, IInv, TypeOK, RequestTypeOK
    <3>2. QED BY <2>2, <3>1 DEF CapAsRead, NameAsRead, At
  <2>3. CASE q # r
    <3>1. pc'[q] = pc[q] /\ op'[q] = op[q]
      BY <1>2, <2>3 DEF Submit, IInv, TypeOK, RequestTypeOK
    <3>2. QED BY <1>0, <2>1, <3>1, OthersRead DEF rowVars
  <2>4. QED BY <2>2, <2>3
<1>3. ASSUME NEW r \in Requests, Step(r) PROVE CapAsRead(q)' /\ NameAsRead(q)'
  <2>1. CASE q = r
    BY <1>3, <2>1, OwnRead
  <2>2. CASE q # r
    <3>1. /\ pc'[q] = pc[q] /\ op'[q] = op[q] /\ plan'[q] = plan[q]
          /\ pc[q] = "write" /\ ~interfered'[q] => ~interfered[q] /\ rowVars' = rowVars
      BY <1>3, <2>2, StepFrame DEF Frame
    <3>2. QED BY <1>0, <3>1, OthersRead DEF rowVars
  <2>3. QED BY <2>1, <2>2
<1>4. QED BY <1>1, <1>2, <1>3 DEF Next

LEMMA RolesReadHolds == Spec => [](IInv /\ RolesRead)
<1>1. Init => IInv /\ RolesRead
  BY InitInv DEF Init, RolesRead, CapAsRead, NameAsRead, At
<1>2. IInv /\ RolesRead /\ [Next]_vars => (IInv /\ RolesRead)'
  BY NextInv, NextRead
<1>3. QED BY <1>1, <1>2, PTL DEF Spec

\* An enroll that lifts a member to a larger role was overtaken: without that
\* its cap is the role the member holds (enroll.ts, the cap).
THEOREM CapCorrect == Spec => CapHoldsUnlessOvertaken
<1>1. ASSUME IInv, RolesRead, Next, NEW r \in Requests, Raises(r), ~interfered[r]
      PROVE  FALSE
  <2>. USE <1>1
  <2>1. pc[r] = "write" /\ pc'[r] = "idle" /\ reply'[r].kind = "added" /\ op[r].kind = "enroll"
    BY DEF Raises, Answers
  <2>2. EnrollWrite(r)
    BY <2>1, WriterMoves, ErrorReply DEF RevokeWrite, RelabelWrite, RelabelBulkWrite,
       ReinstateWrite, At
  <2>3. ~Retry(r)
    BY <2>1, RetryType DEF IInv
  <2>. PICK h \in IdHashes, d \in Commitments : h = op[r].idHash /\ d = op[r].commitment
    BY <2>1, OpTypes DEF Enrollments, IInv
  <2>4. /\ members[d] > 0 <=> plan[r].targets # {}
        /\ bindings' = Push(bindings, Entry(h, d, plan[r].role))
    BY <2>2, <2>3 DEF EnrollWrite, EnrollFilter
  <2>5. plan[r].role \in GateRole /\ op[r].role \in GateRole
    BY <2>1, OpTypes DEF Enrollments, IInv, PlanFromSnapshot, PlanOK
  <2>. PICK e : e = Entry(h, d, plan[r].role)
    OBVIOUS
  <2>6. e \in Binding /\ e.commitment = d /\ e.role = plan[r].role
    BY <2>5 DEF Entry, Binding
  <2>7. Bound' = Bound \cup {e}
    BY <2>4, <2>6, PushBound DEF IInv
  <2>. PICK c \in Commitments : RolesOf(c) # {} /\ Largest(RolesOf(c)') > Largest(RolesOf(c))
    BY DEF Raises
  <2>. PICK held \in SUBSET GateRole, more \in SUBSET GateRole : held = RolesOf(c) /\ more = RolesOf(c)'
    BY DEF RolesOf
  <2>8. more = held \cup (IF c = d THEN {plan[r].role} ELSE {})
    BY <2>5, <2>6, <2>7 DEF RolesOf
  <2>9. ROLE_RANK[MaxRole(more)] <= ROLE_RANK[MaxRole(held)]
    <3>0. MaxRole(held) \in GateRole
      BY MaxRoleBounds
    <3>1. CASE c # d
      BY <2>8, <3>0, <3>1, RankType
    <3>2. CASE c = d
      <4>1. members[d] > 0
        BY <3>2 DEF IInv, RowInv, MembersMatchBindings
      <4>2. plan[r].role = capRole(op[r].role, MaxRole(held))
        BY <2>1, <2>4, <3>2, <4>1 DEF RolesRead, CapAsRead, At
      <4>3. QED BY <2>5, <2>8, <3>2, <4>2, CapIsNoRaise
    <3>3. QED BY <3>1, <3>2
  <2>10. ROLE_RANK[MaxRole(more)] \in Nat /\ ROLE_RANK[MaxRole(held)] \in Nat
    BY <2>8, MaxRoleBounds, RankType
  <2>11. Largest(more) = ROLE_RANK[MaxRole(more)] /\ Largest(held) = ROLE_RANK[MaxRole(held)]
    BY <2>8 DEF Largest
  <2>12. Largest(more) > Largest(held)
    OBVIOUS
  <2>13. QED BY <2>9, <2>10, <2>11, <2>12
<1>2. IInv /\ RolesRead /\ [Next]_vars => [\A r \in Requests : Raises(r) => interfered[r]]_vars
  BY <1>1
<1>3. QED BY <1>2, RolesReadHolds, PTL DEF Spec, CapHoldsUnlessOvertaken

\* A relabel that answers ok and that nobody interfered with reports whoever it
\* took off edit, when edit was the only role held (relabel.ts, wasEdit).
THEOREM DemotionCorrect == Spec => DemotionReported
<1>. DEFINE Reports(r) ==
       op[r].kind = "relabel" /\ Answers(r, "ok") /\ ~interfered[r] =>
         \A c \in Commitments :
           RolesOf(c) = {"edit"} /\ "edit" \notin RolesOf(c)' => c \in reply'[r].evicted
<1>1. ASSUME IInv, RolesRead, Next, NEW r \in Requests, NEW c \in Commitments,
             op[r].kind = "relabel", Answers(r, "ok"), ~interfered[r],
             RolesOf(c) = {"edit"}, "edit" \notin RolesOf(c)'
      PROVE  c \in reply'[r].evicted
  <2>. USE <1>1
  <2>1. pc[r] = "write" /\ pc'[r] = "idle" /\ reply'[r].kind = "ok"
    BY DEF Answers
  <2>2. RelabelWrite(r)
    BY <2>1, WriterMoves, ErrorReply DEF RevokeWrite, EnrollWrite, RelabelBulkWrite,
       ReinstateWrite, At
  <2>. PICK who \in SUBSET Commitments, role \in GateRole : who = plan[r].targets /\ role = plan[r].role
    BY <2>1 DEF IInv, PlanFromSnapshot, PlanOK, TypeOK, RequestTypeOK, Plan
  <2>. PICK evicted \in SUBSET Commitments :
         evicted = IF plan[r].wasEdit /\ role # "edit" THEN who ELSE {}
    OBVIOUS
  <2>3. bindings' = SetRole(who, role) /\ AnswerWrite(r, "ok", evicted)
    BY <2>2 DEF RelabelWrite
  <2>4. reply'[r].evicted = evicted
    BY <2>1, <2>3, AnswerWriteReply DEF ReplyKind
  <2>. PICK b \in BindingsOf(op[r].idHash) :
         who = {b.commitment} /\ (plan[r].wasEdit <=> b.role = "edit")
    BY <2>1 DEF RolesRead, NameAsRead, At
  <2>5. PICK a \in Bound : a.commitment = c /\ a.role = "edit"
    BY DEF RolesOf
  <2>6. c \in who
    <3>1. SUFFICES ASSUME c \notin who PROVE FALSE
      OBVIOUS
    <3>2. a \in Binding /\ bindings'[a] = bindings[a]
      BY <2>3, <2>5, <3>1, SetRoleBound DEF IInv, Bound
    <3>3. a \in Bound'
      BY <3>2 DEF Bound
    <3>4. QED BY <2>5, <3>3 DEF RolesOf, GateRole
  <2>7. plan[r].wasEdit
    <3>1. b \in Bound /\ b.commitment = c /\ b.role \in GateRole
      BY <2>6 DEF BindingsOf, Bound, Binding
    <3>2. b.role \in RolesOf(c)
      BY <3>1 DEF RolesOf
    <3>3. QED BY <3>2
  <2>8. role # "edit"
    <3>1. PICK z \in Bound' : z.commitment = c
      BY <2>3, <2>5, SetRoleMoves DEF IInv, RowInv
    <3>2. z.role = role
      <4>1. TypeOK /\ OneBindingPerIdHash
        BY DEF IInv, RowInv
      <4>2. \A y \in Bound' : y.commitment \in who => y.role = role
        BY <2>3, <4>1, SetRoleMoves
      <4>3. QED BY <2>6, <3>1, <4>2
    <3>3. role \in RolesOf(c)'
      BY <3>1, <3>2 DEF RolesOf
    <3>4. QED BY <3>3
  <2>9. QED BY <2>4, <2>6, <2>7, <2>8
<1>2. IInv /\ RolesRead /\ [Next]_vars => [\A r \in Requests : Reports(r)]_vars
  BY <1>1
<1>3. QED BY <1>2, RolesReadHolds, PTL DEF Spec, DemotionReported

----------------------------------------------------------------------------
(* The variant behind the liveness of the handlers. *)

\* The accesses to the row that an accepted request may still make: two in each
\* pass that it has left.
CallsLeft(r) ==
  IF pc[r] = "idle" THEN 0
  ELSE 2 * (MaxAttempts - attempt[r]) - (IF pc[r] = "write" THEN 1 ELSE 0)

LEMMA CallsAreBounded ==
  ASSUME TypeOK, NEW r \in Requests
  PROVE  /\ CallsLeft(r) \in 0 .. 2 * MaxAttempts
         /\ pc[r] # "idle" => CallsLeft(r) > 0
<1>1. attempt[r] \in 0 .. MaxAttempts - 1 /\ MaxAttempts \in Nat
  BY MaxAttemptsAssumption DEF TypeOK, RequestTypeOK
<1>2. QED BY <1>1 DEF CallsLeft

\* Every step of a request uses up a call.
LEMMA StepUsesACall ==
  ASSUME IInv, NEW r \in Requests, Step(r)
  PROVE  CallsLeft(r)' < CallsLeft(r)
<1>0. /\ pc[r] \in {"read", "write"} /\ attempt[r] \in 0 .. MaxAttempts - 1
      /\ MaxAttempts \in Nat /\ CallsLeft(r) > 0
  <2>1. pc[r] # "idle"
    BY DEF Step, At, EnrollRead, EnrollWrite, RevokeRead, RevokeWrite, RelabelRead, RelabelWrite,
           RelabelBulkRead, RelabelBulkWrite, ReinstateRead, ReinstateWrite, DatabaseError
  <2>2. QED BY <2>1, CallsAreBounded, MaxAttemptsAssumption DEF IInv, TypeOK, RequestTypeOK
<1>1. CASE pc'[r] = "idle"
  BY <1>0, <1>1 DEF CallsLeft
<1>2. CASE pc[r] = "read" /\ pc'[r] = "write" /\ attempt'[r] = attempt[r]
  BY <1>0, <1>2 DEF CallsLeft
<1>3. CASE pc[r] = "write" /\ pc'[r] = "read" /\ attempt'[r] = attempt[r] + 1
  BY <1>0, <1>3 DEF CallsLeft
<1>4. \A kind, evicted : Answer(r, kind, evicted) => pc'[r] = "idle"
  BY DEF Answer, IInv, TypeOK, RequestTypeOK
<1>5. \A targets, role, wasEdit :
        Prepare(r, targets, role, wasEdit) => pc'[r] = "write" /\ attempt'[r] = attempt[r]
  BY DEF Prepare, IInv, TypeOK, RequestTypeOK
<1>6. Retry(r) => pc'[r] = "idle" \/ (pc'[r] = "read" /\ attempt'[r] = attempt[r] + 1)
  BY <1>4 DEF Retry, IInv, TypeOK, RequestTypeOK
<1>7. QED
  BY <1>1, <1>2, <1>3, <1>4, <1>5, <1>6
  DEF Step, At, EnrollRead, EnrollWrite, RevokeRead, RevokeWrite, RelabelRead, RelabelWrite,
      RelabelBulkRead, RelabelBulkWrite, ReinstateRead, ReinstateWrite, DatabaseError, AnswerWrite

\* No step of another request takes any of them away or gives one back.
LEMMA OthersUseNone ==
  ASSUME IInv, [Next]_vars, NEW r \in Requests, pc[r] # "idle", ~Step(r)
  PROVE  CallsLeft(r)' = CallsLeft(r)
<1>1. pc'[r] = pc[r] /\ attempt'[r] = attempt[r]
  <2>1. ASSUME NEW q \in Requests \ {r}, Submit(q) \/ Step(q)
        PROVE  pc'[r] = pc[r] /\ attempt'[r] = attempt[r]
    BY <2>1 DEF IInv, TypeOK, RequestTypeOK, Submit, Step, EnrollRead, EnrollWrite, RevokeRead,
                RevokeWrite, RelabelRead, RelabelWrite, RelabelBulkRead, RelabelBulkWrite,
                ReinstateRead, ReinstateWrite, DatabaseError, Answer, AnswerWrite, Prepare, Retry
  <2>2. QED BY <2>1 DEF Next, Register, Submit, vars, requestVars
<1>2. QED BY <1>1 DEF CallsLeft

\* A request makes at most 2 * MaxAttempts accesses, each of its steps uses one
\* up, and nobody else's step does: the loops of enroll.ts and revoke.ts end
\* whatever the other requests write under them.
THEOREM RequestsAreBounded ==
  Spec => /\ [](\A r \in Requests : CallsLeft(r) \in 0 .. 2 * MaxAttempts)
          /\ [][\A r \in Requests :
                 /\ Step(r) => CallsLeft(r)' < CallsLeft(r)
                 /\ pc[r] # "idle" /\ ~Step(r) => CallsLeft(r)' = CallsLeft(r)]_vars
<1>1. IInv => \A r \in Requests : CallsLeft(r) \in 0 .. 2 * MaxAttempts
  BY CallsAreBounded DEF IInv
<1>2. IInv /\ [Next]_vars =>
        [\A r \in Requests :
           /\ Step(r) => CallsLeft(r)' < CallsLeft(r)
           /\ pc[r] # "idle" /\ ~Step(r) => CallsLeft(r)' = CallsLeft(r)]_vars
  BY StepUsesACall, OthersUseNone
<1>3. QED BY <1>1, <1>2, Invariance, PTL DEF Spec
=============================================================================
