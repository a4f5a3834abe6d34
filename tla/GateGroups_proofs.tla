-------------------------- MODULE GateGroups_proofs --------------------------
(***************************************************************************)
(* Proofs about GateGroups, for any sets of identifiers, commitments,      *)
(* portals, requests and operations and any bound on the attempts.         *)
(***************************************************************************)
EXTENDS GateGroups, TLAPS

\* A request that is about to write finds its filter to hold, unless it was
\* interfered with.
SnapshotHolds(r) ==
  pc[r] = "write" /\ ~interfered[r] =>
    /\ op[r].kind = "enroll" => EnrollFilter(r)
    /\ op[r].kind = "revoke" => RevokeFilter(r)

\* The row is still the one its controller read, unless that was deleted.
Authorized(r) ==
  pc[r] # "idle" => plan[r].portal \in Portals /\ (portal = plan[r].portal \/ replaced[r])

IInv == TypeOK /\ RowConsistent /\ \A r \in Requests : SnapshotHolds(r) /\ Authorized(r)

MissingIsEmpty ==
  portal = NoPortal => members = NoMembers /\ bindings = NoBindings /\ revokedIdHashes = {}

LEMMA OperationShape ==
  /\ \A o \in Operations : o \in Enrollments \cup Revocations \cup Reinstatements \cup Deletions
  /\ \A o \in Operations : o.kind = "enroll" => o.idHash \in IdHashes /\ o.commitment \in Commitments
  /\ \A o \in Operations : o.kind \in {"revoke", "reinstate"} => o.idHash \in IdHashes
  /\ \A o \in Operations : o.kind \in {"enroll", "revoke", "reinstate", "delete"}
  /\ NoOp.kind = "none"
BY GroupOperationsAssumption DEF Enrollments, Revocations, Reinstatements, Deletions, NoOp

LEMMA Asked ==
  ASSUME TypeOK, NEW r \in Requests, NEW k \in {"enroll", "revoke", "reinstate", "delete"},
         op[r].kind = k
  PROVE  op[r] \in Operations
BY OperationShape DEF TypeOK

----------------------------------------------------------------------------
(* The frame of a request's step. *)

\* The other requests lose their snapshot only with a changed row, and their
\* portal only with a deleted one.
LEMMA StepOf ==
  ASSUME IInv, NEW r \in Requests, TypeOK', RowConsistent', Observe(r),
         portal' \in {portal, NoPortal},
         \A q \in Requests \ {r} : pc'[q] = pc[q] /\ op'[q] = op[q] /\ plan'[q] = plan[q],
         SnapshotHolds(r)', Authorized(r)'
  PROVE  IInv'
<1>1. ASSUME NEW q \in Requests \ {r} PROVE SnapshotHolds(q)'
  <2>. SUFFICES ASSUME pc'[q] = "write", ~interfered'[q]
                PROVE  /\ op'[q].kind = "enroll" => EnrollFilter(q)'
                       /\ op'[q].kind = "revoke" => RevokeFilter(q)'
    BY DEF SnapshotHolds
  <2>1. pc[q] = "write" /\ ~interfered[q] /\ rowVars' = rowVars
    BY DEF Observe
  <2>2. SnapshotHolds(q)
    BY DEF IInv
  <2>3. QED BY <2>1, <2>2 DEF SnapshotHolds, EnrollFilter, RevokeFilter, BoundTo, rowVars
<1>2. ASSUME NEW q \in Requests \ {r} PROVE Authorized(q)'
  <2>. SUFFICES ASSUME pc'[q] # "idle", ~replaced'[q]
                PROVE  plan'[q].portal \in Portals /\ portal' = plan'[q].portal
    BY DEF Authorized, IInv
  <2>1. pc[q] # "idle" /\ ~replaced[q] /\ ~(portal # NoPortal /\ portal' = NoPortal)
    BY DEF Observe
  <2>2. plan[q].portal \in Portals /\ portal = plan[q].portal
    BY <2>1 DEF IInv, Authorized
  <2>3. QED BY <2>1, <2>2, GroupAbsenceAssumption
<1>3. QED BY <1>1, <1>2 DEF IInv

LEMMA ObserveType ==
  ASSUME NEW r \in Requests, Observe(r)
  PROVE  interfered' \in [Requests -> BOOLEAN] /\ replaced' \in [Requests -> BOOLEAN]
BY DEF Observe

LEMMA AnswerIInv ==
  ASSUME IInv, NEW r \in Requests, NEW kind \in ReplyKind, Answer(r, kind),
         RowTypeOK', MissingIsEmpty', RowConsistent', portal' \in {portal, NoPortal}
  PROVE  IInv'
<1>1. pc'[r] = "idle" /\ Observe(r)
  BY DEF Answer, IInv, TypeOK
<1>2. TypeOK'
  <2>1. /\ pc' \in [Requests -> {"idle", "read", "write"}]
        /\ op' \in [Requests -> Operations \cup {NoOp}]
        /\ attempt' \in [Requests -> 0 .. MaxAttempts - 1]
        /\ reply' \in ReplyKind
    BY GroupAttemptsAssumption DEF Answer, IInv, TypeOK
  <2>2. plan' \in [Requests -> Plan]
    BY DEF Answer, IInv, TypeOK, Plan, NoPlan
  <2>3. QED BY <1>1, <2>1, <2>2, ObserveType DEF TypeOK, MissingIsEmpty
<1>3. \A q \in Requests \ {r} : pc'[q] = pc[q] /\ op'[q] = op[q] /\ plan'[q] = plan[q]
  BY DEF Answer, IInv, TypeOK
<1>4. SnapshotHolds(r)' /\ Authorized(r)'
  BY <1>1 DEF SnapshotHolds, Authorized
<1>5. QED BY <1>1, <1>2, <1>3, <1>4, StepOf

\* An answer that leaves the row alone.
LEMMA SameRow ==
  ASSUME IInv, UNCHANGED rowVars
  PROVE  RowTypeOK' /\ MissingIsEmpty' /\ RowConsistent' /\ portal' = portal
BY DEF IInv, TypeOK, RowTypeOK, MissingIsEmpty, RowConsistent, BoundTo, Holders, rowVars

LEMMA AnswerOnly ==
  ASSUME IInv, NEW r \in Requests, NEW kind \in ReplyKind, Answer(r, kind), UNCHANGED rowVars
  PROVE  IInv'
BY SameRow, AnswerIInv

LEMMA PrepareIInv ==
  ASSUME IInv, NEW r \in Requests, pc[r] = "read",
         NEW target \in Commitments \cup {NoCommitment}, Prepare(r, target),
         UNCHANGED rowVars, SnapshotHolds(r)'
  PROVE  IInv'
<1>0. /\ pc' = [pc EXCEPT ![r] = "write"]
      /\ plan' = [plan EXCEPT ![r].target = target]
      /\ reply' = "none" /\ op' = op /\ attempt' = attempt
      /\ Observe(r)
  BY DEF Prepare
<1>1. plan'[r].portal = plan[r].portal /\ plan' \in [Requests -> Plan]
  BY <1>0 DEF IInv, TypeOK, Plan
<1>2. TypeOK'
  BY <1>0, <1>1, SameRow, ObserveType DEF IInv, TypeOK, MissingIsEmpty, ReplyKind
<1>3. \A q \in Requests \ {r} : pc'[q] = pc[q] /\ op'[q] = op[q] /\ plan'[q] = plan[q]
  BY <1>0 DEF IInv, TypeOK
<1>4. Authorized(r)'
  <2>1. Authorized(r) /\ portal' = portal /\ pc'[r] = "write"
    BY <1>0, SameRow DEF IInv, TypeOK
  <2>2. replaced[r] => replaced'[r]
    BY <1>0, <2>1 DEF Observe
  <2>3. QED BY <1>1, <2>1, <2>2 DEF Authorized
<1>5. QED BY <1>0, <1>2, <1>3, <1>4, SameRow, StepOf

LEMMA RetryIInv ==
  ASSUME IInv, NEW r \in Requests, pc[r] = "write", Retry(r), UNCHANGED rowVars
  PROVE  IInv'
<1>1. CASE Answer(r, "contention")
  BY <1>1, AnswerOnly DEF ReplyKind
<1>2. CASE /\ attempt[r] + 1 < MaxAttempts
           /\ pc' = [pc EXCEPT ![r] = "read"]
           /\ attempt' = [attempt EXCEPT ![r] = @ + 1]
           /\ plan' = [plan EXCEPT ![r].target = NoCommitment]
           /\ reply' = "none" /\ UNCHANGED op
           /\ Observe(r)
  <2>1. plan'[r].portal = plan[r].portal /\ plan' \in [Requests -> Plan]
    BY <1>2 DEF IInv, TypeOK, Plan
  <2>2. attempt' \in [Requests -> 0 .. MaxAttempts - 1]
    BY <1>2, GroupAttemptsAssumption DEF IInv, TypeOK
  <2>3. TypeOK'
    BY <1>2, <2>1, <2>2, SameRow, ObserveType DEF IInv, TypeOK, MissingIsEmpty, ReplyKind
  <2>4. \A q \in Requests \ {r} : pc'[q] = pc[q] /\ op'[q] = op[q] /\ plan'[q] = plan[q]
    BY <1>2 DEF IInv, TypeOK
  <2>5. Authorized(r)' /\ SnapshotHolds(r)'
    <3>1. Authorized(r) /\ portal' = portal /\ pc'[r] = "read"
      BY <1>2, SameRow DEF IInv, TypeOK
    <3>2. replaced[r] => replaced'[r]
      BY <1>2, <3>1 DEF Observe
    <3>3. QED BY <2>1, <3>1, <3>2 DEF Authorized, SnapshotHolds
  <2>6. QED BY <1>2, <2>3, <2>4, <2>5, SameRow, StepOf
<1>3. QED BY <1>1, <1>2 DEF Retry

----------------------------------------------------------------------------
(* The steps that leave the row alone. *)

LEMMA SubmitIInv == ASSUME IInv, NEW r \in Requests, Submit(r) PROVE IInv'
<1>0. UNCHANGED rowVars /\ UNCHANGED <<attempt, interfered, replaced>> /\ pc[r] = "idle"
  BY DEF Submit
<1>1. PICK o \in Operations :
        \/ /\ portal # NoPortal
           /\ pc' = [pc EXCEPT ![r] = IF o.kind = "delete" THEN "write" ELSE "read"]
           /\ op' = [op EXCEPT ![r] = o]
           /\ plan' = [plan EXCEPT ![r].portal = portal]
           /\ reply' = "none"
        \/ /\ portal = NoPortal
           /\ reply' = "unknown-group"
           /\ UNCHANGED <<pc, op, plan>>
  BY DEF Submit
<1>2. CASE portal = NoPortal
  <2>1. TypeOK'
    BY <1>0, <1>1, <1>2, SameRow DEF IInv, TypeOK, MissingIsEmpty, ReplyKind
  <2>2. ASSUME NEW q \in Requests PROVE SnapshotHolds(q)' /\ Authorized(q)'
    BY <1>0, <1>1, <1>2 DEF IInv, SnapshotHolds, Authorized, EnrollFilter, RevokeFilter,
                            BoundTo, rowVars
  <2>3. QED BY <1>0, <2>1, <2>2, SameRow DEF IInv
<1>3. CASE portal # NoPortal
  <2>0. /\ pc' = [pc EXCEPT ![r] = IF o.kind = "delete" THEN "write" ELSE "read"]
        /\ op' = [op EXCEPT ![r] = o]
        /\ plan' = [plan EXCEPT ![r].portal = portal]
        /\ reply' = "none"
    BY <1>1, <1>3
  <2>1. portal \in Portals /\ plan'[r].portal = portal /\ plan' \in [Requests -> Plan]
    BY <1>3, <2>0 DEF IInv, TypeOK, RowTypeOK, Plan
  <2>2. TypeOK'
    BY <1>0, <2>0, <2>1, SameRow DEF IInv, TypeOK, MissingIsEmpty, ReplyKind
  <2>3. ASSUME NEW q \in Requests \ {r} PROVE SnapshotHolds(q)' /\ Authorized(q)'
    <3>1. pc'[q] = pc[q] /\ op'[q] = op[q] /\ plan'[q] = plan[q]
      BY <2>0 DEF IInv, TypeOK
    <3>2. SnapshotHolds(q) /\ Authorized(q)
      BY DEF IInv
    <3>3. QED BY <1>0, <3>1, <3>2 DEF SnapshotHolds, Authorized, EnrollFilter, RevokeFilter,
                                      BoundTo, rowVars
  <2>4. Authorized(r)'
    BY <1>0, <2>1 DEF Authorized, rowVars
  <2>5. SnapshotHolds(r)'
    BY <2>0 DEF SnapshotHolds, IInv, TypeOK
  <2>6. QED BY <1>0, <2>2, <2>3, <2>4, <2>5, SameRow DEF IInv
<1>4. QED BY <1>2, <1>3

LEMMA EnrollReadIInv == ASSUME IInv, NEW r \in Requests, EnrollRead(r) PROVE IInv'
<1>. DEFINE h == op[r].idHash
            c == op[r].commitment
<1>0. UNCHANGED rowVars /\ pc[r] = "read" /\ op[r].kind = "enroll" /\ r \in Requests
  BY DEF EnrollRead, At
<1>1. CASE \E k \in {"unknown-group", "revoked", "noop", "pin-conflict"} : Answer(r, k)
  BY <1>0, <1>1, AnswerOnly DEF ReplyKind
<1>2. CASE /\ portal # NoPortal /\ h \notin revokedIdHashes /\ BoundTo(h) = {}
           /\ Prepare(r, IF members[c] > 0 THEN c ELSE NoCommitment)
  <2>. DEFINE target == IF members[c] > 0 THEN c ELSE NoCommitment
  <2>1. c \in Commitments /\ target \in Commitments \cup {NoCommitment}
    BY <1>0, Asked, OperationShape DEF IInv
  <2>2. plan'[r].target = target /\ op' = op
    BY <1>2 DEF Prepare, IInv, TypeOK, Plan
  <2>3. EnrollFilter(r)'
    BY <1>0, <1>2, <2>1, <2>2, GroupAbsenceAssumption DEF EnrollFilter, BoundTo, rowVars
  <2>4. SnapshotHolds(r)'
    BY <1>0, <2>2, <2>3 DEF SnapshotHolds
  <2>5. QED BY <1>0, <1>2, <2>1, <2>4, PrepareIInv
<1>3. QED BY <1>1, <1>2 DEF EnrollRead

LEMMA RevokeReadIInv == ASSUME IInv, NEW r \in Requests, RevokeRead(r) PROVE IInv'
<1>. DEFINE found == BoundTo(op[r].idHash)
<1>0. UNCHANGED rowVars /\ pc[r] = "read" /\ op[r].kind = "revoke"
  BY DEF RevokeRead, At
<1>1. CASE Answer(r, "unknown-group")
  BY <1>0, <1>1, AnswerOnly DEF ReplyKind
<1>2. ASSUME NEW target \in Commitments \cup {NoCommitment}, Prepare(r, target),
             portal # NoPortal,
             IF target = NoCommitment THEN found = {} ELSE target \in found
      PROVE  IInv'
  <2>1. plan'[r].target = target /\ op' = op
    BY <1>2 DEF Prepare, IInv, TypeOK, Plan
  <2>2. RevokeFilter(r)'
    BY <1>0, <1>2, <2>1 DEF RevokeFilter, BoundTo, rowVars
  <2>3. SnapshotHolds(r)'
    BY <1>0, <2>1, <2>2 DEF SnapshotHolds
  <2>4. QED BY <1>0, <1>2, <2>3, PrepareIInv
<1>3. \A c \in found : c \in Commitments /\ c # NoCommitment
  BY GroupAbsenceAssumption DEF BoundTo
<1>4. QED BY <1>1, <1>2, <1>3 DEF RevokeRead

LEMMA ReinstateReadIInv == ASSUME IInv, NEW r \in Requests, ReinstateRead(r) PROVE IInv'
<1>0. UNCHANGED rowVars /\ pc[r] = "read" /\ op[r].kind = "reinstate"
  BY DEF ReinstateRead, At
<1>1. CASE Answer(r, "unknown-group")
  BY <1>0, <1>1, AnswerOnly DEF ReplyKind
<1>2. CASE Prepare(r, NoCommitment)
  <2>1. SnapshotHolds(r)'
    BY <1>0, <1>2 DEF SnapshotHolds, Prepare
  <2>2. QED BY <1>0, <1>2, <2>1, PrepareIInv
<1>3. QED BY <1>1, <1>2 DEF ReinstateRead

----------------------------------------------------------------------------
(* The steps that change the row. *)

\* What an applied enroll does to the row: its identifier, which was free, is
\* bound to its commitment, and to nothing else.
LEMMA EnrollApplied ==
  ASSUME IInv, NEW r \in Requests, EnrollWrite(r), EnrollFilter(r)
  PROVE  /\ RowTypeOK' /\ MissingIsEmpty' /\ RowConsistent' /\ portal' = portal
         /\ revokedIdHashes' = revokedIdHashes
         /\ \E h \in IdHashes, c \in Commitments :
              /\ h \notin revokedIdHashes /\ BoundTo(h) = {} /\ BoundTo(h)' = {c}
              /\ \A k \in IdHashes \ {h} : BoundTo(k)' = BoundTo(k)
<1>0. pc[r] = "write" /\ op[r].kind = "enroll"
  BY DEF EnrollWrite, At
<1>1. PICK h \in IdHashes, c \in Commitments : h = op[r].idHash /\ c = op[r].commitment
  BY <1>0, Asked, OperationShape DEF IInv
<1>2. /\ bindings' = Push(bindings, <<h, c>>)
      /\ members' = IF plan[r].target = NoCommitment THEN Push(members, c) ELSE members
      /\ portal' = portal /\ revokedIdHashes' = revokedIdHashes
      /\ AnswerWrite(r, "added")
  BY <1>1 DEF EnrollWrite
<1>3. /\ portal # NoPortal /\ BoundTo(h) = {} /\ h \notin revokedIdHashes
      /\ members[c] > 0 <=> plan[r].target # NoCommitment
  BY <1>1 DEF EnrollFilter
<1>4. /\ bindings \in [Pair -> Nat] /\ members \in [Commitments -> Nat]
      /\ <<h, c>> \in Pair
  BY <1>1 DEF IInv, TypeOK, RowTypeOK, Pair
<1>5. /\ bindings' \in [Pair -> Nat] /\ members' \in [Commitments -> Nat]
      /\ \A p \in Pair : bindings'[p] = IF p = <<h, c>> THEN bindings[p] + 1 ELSE bindings[p]
      /\ \A d \in Commitments :
           members'[d] = IF d = c /\ plan[r].target = NoCommitment THEN members[d] + 1
                                                                    ELSE members[d]
  BY <1>1, <1>2, <1>4 DEF Push
<1>6. bindings[<<h, c>>] = 0
  BY <1>1, <1>3, <1>4 DEF BoundTo
<1>7. /\ BoundTo(h)' = {c}
      /\ \A k \in IdHashes \ {h} : BoundTo(k)' = BoundTo(k)
  BY <1>1, <1>3, <1>4, <1>5, <1>6 DEF BoundTo, Pair
<1>8. /\ Holders(c)' = Holders(c) \cup {h}
      /\ \A d \in Commitments \ {c} : Holders(d)' = Holders(d)
  BY <1>1, <1>4, <1>5, <1>6 DEF Holders, Pair
<1>9. RowConsistent'
  <2>1. \A k \in revokedIdHashes' : BoundTo(k)' = {}
    BY <1>2, <1>3, <1>7 DEF IInv, RowConsistent, TypeOK, RowTypeOK
  <2>2. \A p \in Pair : bindings'[p] \in {0, 1}
    BY <1>5, <1>6 DEF IInv, RowConsistent
  <2>3. \A k \in IdHashes : \A d, e \in BoundTo(k)' : d = e
    BY <1>7 DEF IInv, RowConsistent
  <2>4. \A d \in Commitments : members'[d] = IF Holders(d)' = {} THEN 0 ELSE 1
    <3>1. members'[c] = 1 /\ Holders(c)' # {}
      BY <1>1, <1>3, <1>4, <1>5, <1>8 DEF IInv, RowConsistent
    <3>2. ASSUME NEW d \in Commitments \ {c} PROVE members'[d] = members[d]
      BY <1>5
    <3>3. QED BY <1>8, <3>1, <3>2 DEF IInv, RowConsistent
  <2>5. QED BY <2>1, <2>2, <2>3, <2>4 DEF RowConsistent
<1>10. RowTypeOK' /\ MissingIsEmpty'
  BY <1>2, <1>3, <1>5 DEF IInv, TypeOK, RowTypeOK, MissingIsEmpty
<1>11. QED BY <1>1, <1>2, <1>3, <1>7, <1>9, <1>10

LEMMA EnrollWriteIInv == ASSUME IInv, NEW r \in Requests, EnrollWrite(r) PROVE IInv'
<1>0. pc[r] = "write"
  BY DEF EnrollWrite, At
<1>1. CASE ~EnrollFilter(r)
  BY <1>0, <1>1, RetryIInv DEF EnrollWrite
<1>2. CASE EnrollFilter(r)
  <2>1. AnswerWrite(r, "added")
    BY <1>2 DEF EnrollWrite
  <2>2. QED BY <1>2, <2>1, EnrollApplied, AnswerIInv DEF AnswerWrite, ReplyKind
<1>3. QED BY <1>1, <1>2

\* What an applied revoke does to the row.
LEMMA RevokeApplied ==
  ASSUME IInv, NEW r \in Requests, RevokeWrite(r), RevokeFilter(r)
  PROVE  /\ RowTypeOK' /\ MissingIsEmpty' /\ RowConsistent' /\ portal' = portal
         /\ op[r].idHash \in revokedIdHashes'
         /\ \A c \in BoundTo(op[r].idHash) : Holders(c)' = {} /\ members'[c] = 0
         /\ \E h \in IdHashes, gone \in Commitments \cup {NoCommitment} :
              /\ BoundTo(h) = {gone} \cap Commitments
              /\ revokedIdHashes' = revokedIdHashes \cup {h}
              /\ \A k \in IdHashes : BoundTo(k)' = BoundTo(k) \ {gone}
<1>0. pc[r] = "write" /\ op[r].kind = "revoke"
  BY DEF RevokeWrite, At
<1>1. PICK h \in IdHashes : h = op[r].idHash
  BY <1>0, Asked, OperationShape DEF IInv
<1>. PICK gone \in Commitments \cup {NoCommitment} : gone = plan[r].target
  BY DEF IInv, TypeOK, Plan
<1>2. /\ members' = [c \in Commitments |-> IF c = gone THEN 0 ELSE members[c]]
      /\ bindings' = [p \in Pair |-> IF p[2] = gone THEN 0 ELSE bindings[p]]
      /\ revokedIdHashes' = revokedIdHashes \cup {h}
      /\ portal' = portal /\ portal # NoPortal
  BY <1>1 DEF RevokeWrite, RevokeFilter
<1>3. /\ bindings \in [Pair -> Nat] /\ members \in [Commitments -> Nat]
      /\ revokedIdHashes \subseteq IdHashes
  BY DEF IInv, TypeOK, RowTypeOK
<1>4. /\ bindings' \in [Pair -> Nat] /\ members' \in [Commitments -> Nat]
      /\ \A k \in IdHashes, c \in Commitments :
           bindings'[<<k, c>>] = IF c = gone THEN 0 ELSE bindings[<<k, c>>]
  BY <1>2, <1>3 DEF Pair
<1>5. \A k \in IdHashes : BoundTo(k)' = BoundTo(k) \ {gone}
  BY <1>3, <1>4 DEF BoundTo, Pair
<1>6. \A c \in Commitments : Holders(c)' = IF c = gone THEN {} ELSE Holders(c)
  BY <1>3, <1>4 DEF Holders, Pair
<1>7. BoundTo(h) \subseteq {gone}
  BY <1>1 DEF RevokeFilter, IInv, RowConsistent
<1>8. BoundTo(h)' = {}
  BY <1>1, <1>5, <1>7
<1>9. RowConsistent'
  <2>1. \A k \in revokedIdHashes' : BoundTo(k)' = {}
    BY <1>2, <1>3, <1>5, <1>8 DEF IInv, RowConsistent
  <2>2. \A p \in Pair : bindings'[p] \in {0, 1}
    BY <1>2 DEF IInv, RowConsistent
  <2>3. \A k \in IdHashes : \A c, d \in BoundTo(k)' : c = d
    BY <1>5 DEF IInv, RowConsistent
  <2>4. \A c \in Commitments : members'[c] = IF Holders(c)' = {} THEN 0 ELSE 1
    BY <1>2, <1>6 DEF IInv, RowConsistent
  <2>5. QED BY <2>1, <2>2, <2>3, <2>4 DEF RowConsistent
<1>10. RowTypeOK' /\ MissingIsEmpty'
  BY <1>1, <1>2, <1>3, <1>4 DEF IInv, TypeOK, RowTypeOK, MissingIsEmpty
<1>11. \A c \in BoundTo(h) : Holders(c)' = {} /\ members'[c] = 0
  BY <1>2, <1>6, <1>7 DEF BoundTo
<1>12. BoundTo(h) = {gone} \cap Commitments
  BY <1>1, <1>7, GroupAbsenceAssumption DEF RevokeFilter, BoundTo
<1>13. QED BY <1>1, <1>2, <1>5, <1>9, <1>10, <1>11, <1>12

LEMMA RevokeWriteIInv == ASSUME IInv, NEW r \in Requests, RevokeWrite(r) PROVE IInv'
<1>0. pc[r] = "write"
  BY DEF RevokeWrite, At
<1>1. CASE ~RevokeFilter(r)
  BY <1>0, <1>1, RetryIInv DEF RevokeWrite
<1>2. CASE RevokeFilter(r)
  <2>1. AnswerWrite(r, "ok")
    BY <1>2 DEF RevokeWrite
  <2>2. QED BY <1>2, <2>1, RevokeApplied, AnswerIInv DEF AnswerWrite, ReplyKind
<1>3. QED BY <1>1, <1>2

LEMMA ReinstateWriteIInv == ASSUME IInv, NEW r \in Requests, ReinstateWrite(r) PROVE IInv'
<1>1. /\ revokedIdHashes' = revokedIdHashes \ {op[r].idHash}
      /\ UNCHANGED <<portal, members, bindings>> /\ AnswerWrite(r, "ok")
  BY DEF ReinstateWrite
<1>2. RowTypeOK' /\ MissingIsEmpty' /\ RowConsistent'
  BY <1>1 DEF IInv, TypeOK, RowTypeOK, MissingIsEmpty, RowConsistent, BoundTo, Holders
<1>3. QED BY <1>1, <1>2, AnswerIInv DEF AnswerWrite, ReplyKind

\* An empty row is consistent.
LEMMA EmptyRow ==
  ASSUME members' = NoMembers, bindings' = NoBindings, revokedIdHashes' = {},
         portal' \in Portals \cup {NoPortal}
  PROVE  RowTypeOK' /\ MissingIsEmpty' /\ RowConsistent'
BY DEF RowTypeOK, MissingIsEmpty, RowConsistent, BoundTo, Holders, NoMembers, NoBindings, Pair

LEMMA DeleteWriteIInv == ASSUME IInv, NEW r \in Requests, DeleteWrite(r) PROVE IInv'
<1>1. portal' = NoPortal /\ AnswerWrite(r, "ok")
  BY DEF DeleteWrite
<1>2. RowTypeOK' /\ MissingIsEmpty' /\ RowConsistent'
  BY EmptyRow DEF DeleteWrite
<1>3. QED BY <1>1, <1>2, AnswerIInv DEF AnswerWrite, ReplyKind

\* A reference is free to be registered when whoever read its row was replaced.
LEMMA RegisterIInv == IInv /\ Register => IInv'
<1>. SUFFICES ASSUME IInv, Register PROVE IInv'
  OBVIOUS
<1>0. /\ portal = NoPortal /\ portal' \in Portals
      /\ interfered' = [q \in Requests |-> pc[q] = "write"]
      /\ pc' = pc /\ op' = op /\ attempt' = attempt /\ plan' = plan /\ replaced' = replaced
      /\ reply' = "none"
  BY DEF Register, SeenByAll
<1>1. RowTypeOK' /\ MissingIsEmpty' /\ RowConsistent'
  BY EmptyRow DEF Register
<1>2. TypeOK'
  BY <1>0, <1>1 DEF IInv, TypeOK, MissingIsEmpty, ReplyKind
<1>3. ASSUME NEW r \in Requests PROVE SnapshotHolds(r)' /\ Authorized(r)'
  BY <1>0, GroupAbsenceAssumption DEF IInv, SnapshotHolds, Authorized
<1>4. QED BY <1>1, <1>2, <1>3 DEF IInv

----------------------------------------------------------------------------

LEMMA InitIInv == Init => IInv
<1>. SUFFICES ASSUME Init PROVE IInv
  OBVIOUS
<1>1. TypeOK
  BY GroupAttemptsAssumption
  DEF Init, TypeOK, RowTypeOK, NoMembers, NoBindings, Plan, NoPlan, ReplyKind
<1>2. RowConsistent
  BY DEF Init, RowConsistent, BoundTo, Holders, NoMembers, NoBindings, Pair
<1>3. QED BY <1>1, <1>2 DEF Init, IInv, SnapshotHolds, Authorized

LEMMA StepIInv == ASSUME IInv, NEW r \in Requests, Step(r) PROVE IInv'
<1>1. CASE DatabaseError(r)
  BY <1>1, AnswerOnly DEF DatabaseError, ReplyKind
<1>2. QED BY <1>1, EnrollReadIInv, EnrollWriteIInv, RevokeReadIInv, RevokeWriteIInv,
             ReinstateReadIInv, ReinstateWriteIInv, DeleteWriteIInv DEF Step

LEMMA NextIInv == IInv /\ [Next]_vars => IInv'
<1>. SUFFICES ASSUME IInv, [Next]_vars PROVE IInv'
  OBVIOUS
<1>1. CASE UNCHANGED vars
  BY <1>1 DEF vars, rowVars, IInv, TypeOK, RowTypeOK, RowConsistent, BoundTo, Holders,
              SnapshotHolds, Authorized, EnrollFilter, RevokeFilter
<1>2. QED BY <1>1, RegisterIInv, SubmitIInv, StepIInv DEF Next

LEMMA Inductive == Spec => []IInv
<1>. QED BY InitIInv, NextIInv, PTL DEF Spec

----------------------------------------------------------------------------
(* The theorems. *)

\* The row and the requests keep their shape, and a missing row is empty.
THEOREM TypeCorrect == Spec => []TypeOK
<1>1. IInv => TypeOK
  BY DEF IInv
<1>. QED BY <1>1, Inductive, PTL

\* The row is consistent after any overlap of the handlers and through deletes
\* (group-enroll.ts, group-revoke.ts).
THEOREM Consistent == Spec => []RowConsistent
<1>1. IInv => RowConsistent
  BY DEF IInv
<1>. QED BY <1>1, Inductive, PTL

\* Only the step of r answers for r.
LEMMA OwnStep ==
  ASSUME IInv, Next, NEW r \in Requests, pc'[r] # pc[r], pc[r] # "idle"
  PROVE  Step(r)
<1>1. ASSUME NEW q \in Requests \ {r}, Submit(q) \/ Step(q) PROVE FALSE
  BY <1>1 DEF IInv, TypeOK, Submit, Step, EnrollRead, EnrollWrite, RevokeRead, RevokeWrite,
              ReinstateRead, ReinstateWrite, DeleteWrite, DatabaseError, Answer, AnswerWrite,
              Prepare, Retry
<1>2. QED BY <1>1 DEF Next, Register, SeenByAll, Submit

\* When a revoke answers ok, whoever the identifier stood for is out of the group
\* under every identifier (group-revoke.ts).
THEOREM RevokeIsFinal == Spec => RevokeEvicts
<1>. DEFINE Evicts(r) ==
       op[r].kind = "revoke" /\ Answers(r, "ok") =>
         /\ op[r].idHash \in revokedIdHashes'
         /\ \A c \in BoundTo(op[r].idHash) : Holders(c)' = {} /\ members'[c] = 0
<1>1. ASSUME IInv, [Next]_vars, NEW r \in Requests PROVE Evicts(r)
  <2>. SUFFICES ASSUME op[r].kind = "revoke", Answers(r, "ok") PROVE Evicts(r)
    OBVIOUS
  <2>1. Step(r) /\ pc[r] = "write"
    BY <1>1, OwnStep DEF Answers, vars
  <2>2. RevokeWrite(r) /\ RevokeFilter(r)
    BY <2>1 DEF Answers, Step, At, EnrollRead, EnrollWrite, RevokeRead, RevokeWrite, ReinstateRead,
                ReinstateWrite, DeleteWrite, DatabaseError, Answer, Retry
  <2>3. QED BY <1>1, <2>2, RevokeApplied
<1>2. IInv /\ [Next]_vars => [\A r \in Requests : Evicts(r)]_vars
  BY <1>1
<1>3. QED BY <1>2, Inductive, PTL DEF Spec, RevokeEvicts

\* A loop misses, and gives up, only when the row changed since its read.
THEOREM NoSpuriousMiss == Spec => MissMeansInterference
<1>. DEFINE Misses(r) == pc[r] = "write" /\ (pc'[r] = "read" \/ Answers(r, "contention"))
<1>1. ASSUME IInv, [Next]_vars, NEW r \in Requests PROVE Misses(r) => interfered[r]
  <2>. SUFFICES ASSUME Misses(r) PROVE interfered[r]
    OBVIOUS
  <2>1. Step(r) /\ pc[r] = "write"
    BY <1>1, OwnStep DEF Answers, vars
  <2>2. \/ op[r].kind = "enroll" /\ ~EnrollFilter(r)
        \/ op[r].kind = "revoke" /\ ~RevokeFilter(r)
    BY <1>1, <2>1 DEF Answers, Step, At, EnrollRead, EnrollWrite, RevokeRead, RevokeWrite,
                ReinstateRead, ReinstateWrite, DeleteWrite, DatabaseError, Answer, AnswerWrite,
                IInv, TypeOK
  <2>3. QED BY <1>1, <2>1, <2>2 DEF IInv, SnapshotHolds
<1>2. IInv /\ [Next]_vars => [\A r \in Requests : Misses(r) => interfered[r]]_vars
  BY <1>1
<1>3. QED BY <1>2, Inductive, PTL DEF Spec, MissMeansInterference

\* A request changes the row of another portal than the one its controller read
\* only when that row was deleted under it (group-enroll.ts, group-delete.ts).
THEOREM TrespassNeedsDelete == Spec => TrespassMeansReplaced
<1>1. ASSUME IInv, NEW r \in Requests PROVE Trespasses(r) => replaced[r]
  BY <1>1 DEF IInv, Authorized, Trespasses
<1>2. IInv /\ [Next]_vars => [\A r \in Requests : Trespasses(r) => replaced[r]]_vars
  BY <1>1
<1>3. QED BY <1>2, Inductive, PTL DEF Spec, TrespassMeansReplaced

----------------------------------------------------------------------------
(* The variant behind the liveness of the handlers. *)

\* The accesses to the table that an accepted request may still make: two in
\* each pass that it has left.
CallsLeft(r) ==
  IF pc[r] = "idle" THEN 0
  ELSE 2 * (MaxAttempts - attempt[r]) - (IF pc[r] = "write" THEN 1 ELSE 0)

LEMMA CallsAreBounded ==
  ASSUME TypeOK, NEW r \in Requests
  PROVE  /\ CallsLeft(r) \in 0 .. 2 * MaxAttempts
         /\ pc[r] # "idle" => CallsLeft(r) > 0
<1>1. attempt[r] \in 0 .. MaxAttempts - 1 /\ MaxAttempts \in Nat
  BY GroupAttemptsAssumption DEF TypeOK
<1>2. QED BY <1>1 DEF CallsLeft

\* Every step of a request uses up a call.
LEMMA StepUsesACall ==
  ASSUME IInv, NEW r \in Requests, Step(r)
  PROVE  CallsLeft(r)' < CallsLeft(r)
<1>0. /\ pc[r] \in {"read", "write"} /\ attempt[r] \in 0 .. MaxAttempts - 1
      /\ MaxAttempts \in Nat /\ CallsLeft(r) > 0
  <2>1. pc[r] # "idle"
    BY DEF Step, At, EnrollRead, EnrollWrite, RevokeRead, RevokeWrite, ReinstateRead,
           ReinstateWrite, DeleteWrite, DatabaseError
  <2>2. QED BY <2>1, CallsAreBounded, GroupAttemptsAssumption DEF IInv, TypeOK
<1>1. CASE pc'[r] = "idle"
  BY <1>0, <1>1 DEF CallsLeft
<1>2. CASE pc[r] = "read" /\ pc'[r] = "write" /\ attempt'[r] = attempt[r]
  BY <1>0, <1>2 DEF CallsLeft
<1>3. CASE pc[r] = "write" /\ pc'[r] = "read" /\ attempt'[r] = attempt[r] + 1
  BY <1>0, <1>3 DEF CallsLeft
<1>4. \A kind : Answer(r, kind) => pc'[r] = "idle"
  BY DEF Answer, IInv, TypeOK
<1>5. \A target : Prepare(r, target) => pc'[r] = "write" /\ attempt'[r] = attempt[r]
  BY DEF Prepare, IInv, TypeOK
<1>6. Retry(r) => pc'[r] = "idle" \/ (pc'[r] = "read" /\ attempt'[r] = attempt[r] + 1)
  BY <1>4 DEF Retry, IInv, TypeOK
<1>7. QED
  BY <1>1, <1>2, <1>3, <1>4, <1>5, <1>6
  DEF Step, At, EnrollRead, EnrollWrite, RevokeRead, RevokeWrite, ReinstateRead,
      ReinstateWrite, DeleteWrite, DatabaseError, AnswerWrite

\* No step of another request takes any of them away or gives one back.
LEMMA OthersUseNone ==
  ASSUME IInv, [Next]_vars, NEW r \in Requests, pc[r] # "idle", ~Step(r)
  PROVE  CallsLeft(r)' = CallsLeft(r)
<1>1. pc'[r] = pc[r] /\ attempt'[r] = attempt[r]
  <2>1. ASSUME NEW q \in Requests \ {r}, Submit(q) \/ Step(q)
        PROVE  pc'[r] = pc[r] /\ attempt'[r] = attempt[r]
    BY <2>1 DEF IInv, TypeOK, Submit, Step, EnrollRead, EnrollWrite, RevokeRead, RevokeWrite,
                ReinstateRead, ReinstateWrite, DeleteWrite, DatabaseError, Answer, AnswerWrite,
                Prepare, Retry
  <2>2. QED BY <2>1 DEF Next, Register, SeenByAll, Submit, vars
<1>2. QED BY <1>1 DEF CallsLeft

\* A request makes at most 2 * MaxAttempts accesses, each of its steps uses one
\* up, and nobody else's step does: the loops of group-enroll.ts and
\* group-revoke.ts end whatever the other requests write under them.
THEOREM RequestsAreBounded ==
  Spec => /\ [](\A r \in Requests : CallsLeft(r) \in 0 .. 2 * MaxAttempts)
          /\ [][\A r \in Requests :
                 /\ Step(r) => CallsLeft(r)' < CallsLeft(r)
                 /\ pc[r] # "idle" /\ ~Step(r) => CallsLeft(r)' = CallsLeft(r)]_vars
<1>1. IInv => \A r \in Requests : CallsLeft(r) \in 0 .. 2 * MaxAttempts
  BY CallsAreBounded DEF IInv
<1>2. IInv /\ [Next]_vars =>
        [\A r \in Requests :
           /\ Step(r) => CallsLeft(r)' < CallsLeft(r)
           /\ pc[r] # "idle" /\ ~Step(r) => CallsLeft(r)' = CallsLeft(r)]_vars
  BY StepUsesACall, OthersUseNone
<1>3. QED BY <1>1, <1>2, Inductive, PTL DEF Spec

----------------------------------------------------------------------------
(* The handlers implement GroupPolicy: every step is one atomic operation  *)
(* of the policy, or none.                                                 *)

PinOf(h) == [commitment |-> Member(h), role |-> IF BoundTo(h) = {} THEN "none" ELSE "view"]
Pins == [h \in IdHashes |-> PinOf(h)]
Free == [commitment |-> NoCommitment, role |-> "none"]
PinTo(c) == [commitment |-> c, role |-> "view"]

\* A free identifier is unpinned, and a bound one is pinned to its commitment.
LEMMA PinOfBound ==
  ASSUME RowConsistent, NEW h \in IdHashes
  PROVE  /\ BoundTo(h) = {} => PinOf(h) = Free
         /\ \A c \in BoundTo(h) : PinOf(h) = PinTo(c)
<1>1. ASSUME NEW c \in BoundTo(h) PROVE PinOf(h) = PinTo(c)
  <2>1. BoundTo(h) = {c}
    BY DEF RowConsistent
  <2>2. QED BY <2>1 DEF PinOf, Member, PinTo
<1>2. QED BY <1>1 DEF PinOf, Member, Free

\* So it is after a step.
LEMMA PinOfBoundNext ==
  ASSUME RowConsistent', NEW h \in IdHashes
  PROVE  /\ BoundTo(h)' = {} => PinOf(h)' = Free
         /\ \A c \in BoundTo(h)' : PinOf(h)' = PinTo(c)
<1>1. ASSUME NEW c \in BoundTo(h)' PROVE PinOf(h)' = PinTo(c)
  <2>1. BoundTo(h)' = {c}
    BY DEF RowConsistent
  <2>2. QED BY <2>1 DEF PinOf, Member, PinTo
<1>2. QED BY <1>1 DEF PinOf, Member, Free

\* An identifier's pin moves only with its bindings.
LEMMA SamePin ==
  ASSUME NEW h \in IdHashes, BoundTo(h)' = BoundTo(h)
  PROVE  PinOf(h)' = PinOf(h)
BY DEF PinOf, Member

\* The write of enroll admits its identifier.
LEMMA AdmitStep ==
  ASSUME IInv, NEW r \in Requests, EnrollWrite(r), EnrollFilter(r)
  PROVE  \E h \in IdHashes : Policy!Admit(h)
<1>0. RowConsistent /\ RowConsistent' /\ revokedIdHashes' = revokedIdHashes
  BY EnrollApplied DEF IInv
<1>1. PICK h \in IdHashes, c \in Commitments :
        /\ h \notin revokedIdHashes /\ BoundTo(h) = {} /\ BoundTo(h)' = {c}
        /\ \A k \in IdHashes \ {h} : BoundTo(k)' = BoundTo(k)
  BY EnrollApplied
<1>2. PinOf(h) = Free /\ PinOf(h)' = PinTo(c)
  BY <1>0, <1>1, PinOfBound, PinOfBoundNext
<1>3. \A k \in IdHashes \ {h} : PinOf(k)' = PinOf(k)
  BY <1>1, SamePin
<1>4. Pins[h] = Free /\ Pins' = [Pins EXCEPT ![h] = PinTo(c)]
  BY <1>2, <1>3 DEF Pins
<1>5. PinTo(c) \in Policy!Pin
  BY DEF PinTo, Policy!Pin, Policy!GateRole
<1>6. QED BY <1>0, <1>1, <1>4, <1>5 DEF Policy!Admit, Policy!Unpinned, Policy!NoRole,
                                        Pins, PinOf, Free

\* The write of revoke evicts the member its identifier stands for.
LEMMA EvictStep ==
  ASSUME IInv, NEW r \in Requests, RevokeWrite(r), RevokeFilter(r)
  PROVE  \E h \in IdHashes : Policy!Evict(h)
<1>0. RowConsistent /\ RowConsistent'
  BY RevokeApplied DEF IInv
<1>1. PICK h \in IdHashes, gone \in Commitments \cup {NoCommitment} :
        /\ BoundTo(h) = {gone} \cap Commitments
        /\ revokedIdHashes' = revokedIdHashes \cup {h}
        /\ \A k \in IdHashes : BoundTo(k)' = BoundTo(k) \ {gone}
  BY RevokeApplied
<1>2. ASSUME NEW g \in IdHashes
      PROVE  PinOf(g)' = IF PinOf(h) # Free /\ PinOf(g).commitment = PinOf(h).commitment
                         THEN Free ELSE PinOf(g)
  <2>1. CASE gone = NoCommitment
    <3>1. BoundTo(h) = {} /\ BoundTo(g)' = BoundTo(g)
      BY <1>1, <2>1, GroupAbsenceAssumption DEF BoundTo
    <3>2. QED BY <1>0, <3>1, PinOfBound, SamePin
  <2>2. CASE gone \in Commitments
    <3>1. BoundTo(h) = {gone}
      BY <1>1, <2>2
    <3>2. PinOf(h) = PinTo(gone)
      BY <1>0, <3>1, PinOfBound
    <3>3. PinOf(h) # Free /\ PinOf(h).commitment = gone
      BY <2>2, <3>2, GroupAbsenceAssumption DEF PinTo, Free
    <3>4. CASE BoundTo(g) = {}
      <4>1. PinOf(g) = Free /\ PinOf(g)' = Free
        BY <1>0, <1>1, <3>4, PinOfBound, PinOfBoundNext
      <4>2. QED BY <4>1
    <3>5. CASE BoundTo(g) # {}
      <4>1. PICK c \in BoundTo(g) : TRUE
        BY <3>5
      <4>2. BoundTo(g) = {c} /\ PinOf(g) = PinTo(c)
        BY <1>0, <4>1, PinOfBound DEF RowConsistent
      <4>3. PinOf(g).commitment = c
        BY <4>2 DEF PinTo
      <4>4. c = gone => PinOf(g)' = Free
        BY <1>0, <1>1, <4>2, PinOfBoundNext
      <4>5. c # gone => PinOf(g)' = PinOf(g)
        BY <1>1, <4>2, SamePin
      <4>6. QED BY <3>3, <4>3, <4>4, <4>5
    <3>6. QED BY <3>4, <3>5
  <2>3. QED BY <2>1, <2>2
<1>3. Pins' = [g \in IdHashes |->
                 IF Pins[h] # Free /\ Pins[g].commitment = Pins[h].commitment
                 THEN Free ELSE Pins[g]]
  BY <1>2 DEF Pins
<1>4. QED BY <1>1, <1>3 DEF Policy!Evict, Policy!Unpinned, Policy!NoRole, Pins, PinOf, Free

\* The write of reinstate lifts the bar of its identifier.
LEMMA LiftStep ==
  ASSUME IInv, NEW r \in Requests, ReinstateWrite(r)
  PROVE  \E h \in IdHashes : Policy!Lift(h)
<1>1. op[r].idHash \in IdHashes
  BY Asked, OperationShape DEF ReinstateWrite, At, IInv
<1>2. PICK h \in IdHashes : h = op[r].idHash
  BY <1>1
<1>3. \A g \in IdHashes : PinOf(g)' = PinOf(g)
  BY SamePin DEF ReinstateWrite, BoundTo
<1>4. Pins' = Pins
  BY <1>3 DEF Pins
<1>5. QED BY <1>2, <1>4 DEF ReinstateWrite, Policy!Lift, Pins, PinOf

\* The write of delete dissolves the group.
LEMMA DissolveStep ==
  ASSUME NEW r \in Requests, DeleteWrite(r)
  PROVE  Policy!Dissolve
<1>1. RowConsistent' /\ \A g \in IdHashes : BoundTo(g)' = {}
  BY EmptyRow DEF DeleteWrite, BoundTo, NoBindings, Pair
<1>2. \A g \in IdHashes : PinOf(g)' = Free
  BY <1>1, PinOfBoundNext
<1>3. Pins' = [g \in IdHashes |-> Free]
  BY <1>2 DEF Pins
<1>4. QED BY <1>3 DEF DeleteWrite, Policy!Dissolve, Policy!Unpinned, Policy!NoRole,
                      Pins, PinOf, Free

\* A step that leaves the bindings and the bars alone is nothing to the policy.
LEMMA SilentStep ==
  ASSUME bindings' = bindings, revokedIdHashes' = revokedIdHashes
  PROVE  UNCHANGED Policy!policyVars
<1>1. \A g \in IdHashes : PinOf(g)' = PinOf(g)
  BY SamePin DEF BoundTo
<1>2. Pins' = Pins
  BY <1>1 DEF Pins
<1>3. QED BY <1>2 DEF Policy!policyVars, Pins, PinOf

\* A registration is silent too: the row it creates is as empty as the missing one.
LEMMA StepSimulation ==
  ASSUME IInv, [Next]_vars
  PROVE  [Policy!PolicyNext \/ Policy!Dissolve]_(Policy!policyVars)
<1>1. ASSUME NEW r \in Requests, EnrollWrite(r), EnrollFilter(r) PROVE Policy!PolicyNext
  BY <1>1, AdmitStep DEF Policy!PolicyNext
<1>2. ASSUME NEW r \in Requests, RevokeWrite(r), RevokeFilter(r) PROVE Policy!PolicyNext
  BY <1>2, EvictStep DEF Policy!PolicyNext
<1>3. ASSUME NEW r \in Requests, ReinstateWrite(r) PROVE Policy!PolicyNext
  BY <1>3, LiftStep DEF Policy!PolicyNext
<1>4. ASSUME NEW r \in Requests, DeleteWrite(r) PROVE Policy!Dissolve
  BY <1>4, DissolveStep
<1>5. Register => UNCHANGED <<bindings, revokedIdHashes>>
  BY DEF Register, IInv, TypeOK
<1>6. \/ \E r \in Requests :
           \/ EnrollWrite(r) /\ EnrollFilter(r)
           \/ RevokeWrite(r) /\ RevokeFilter(r)
           \/ ReinstateWrite(r) \/ DeleteWrite(r)
      \/ UNCHANGED <<bindings, revokedIdHashes>>
  BY <1>5 DEF Next, Step, Submit, DatabaseError, EnrollRead, EnrollWrite, RevokeRead,
              RevokeWrite, ReinstateRead, vars, rowVars
<1>7. CASE UNCHANGED <<bindings, revokedIdHashes>>
  <2>1. UNCHANGED Policy!policyVars
    BY <1>7, SilentStep
  <2>2. QED BY <2>1
<1>8. QED BY <1>1, <1>2, <1>3, <1>4, <1>6, <1>7

\* The missing row is the policy's initial state.
LEMMA InitSimulation == Init => Policy!PolicyInit
<1>. SUFFICES ASSUME Init PROVE Policy!PolicyInit
  OBVIOUS
<1>1. \A g \in IdHashes : BoundTo(g) = {}
  BY DEF Init, BoundTo, NoBindings, Pair
<1>2. \A g \in IdHashes : PinOf(g) = Free
  BY <1>1, InitIInv, PinOfBound DEF IInv
<1>3. QED BY <1>2 DEF Init, Policy!PolicyInit, Policy!Unpinned, Policy!NoRole, PinOf, Free

\* The membership of a group moves as if every enroll, revoke, reinstate and
\* delete were done in one step, whatever their overlap and however often the
\* reference is deleted and registered again (group-enroll.ts, group-revoke.ts,
\* group-delete.ts).
THEOREM GroupPolicyImplemented == Spec => ImplementsGroupPolicy
<1>1. IInv /\ [Next]_vars => [Policy!PolicyNext \/ Policy!Dissolve]_(Policy!policyVars)
  BY StepSimulation
<1>2. QED BY <1>1, Inductive, InitSimulation, PTL
          DEF Spec, ImplementsGroupPolicy, Policy!GroupPolicySpec
=============================================================================
