------------------------- MODULE GateRelease_proofs -------------------------
(***************************************************************************)
(* Releases, for any number of documents, groups, members, nonces and      *)
(* requests: the types, single use of a nonce, and, where no groups are    *)
(* used, that a grant is of a role held at the epoch of its shares.        *)
(***************************************************************************)
EXTENDS GateRelease, GateRoles_proofs

ReplyType ==
  [kind : ReplyKind, role : GateRole \cup {NoRole}, epoch : Nat, bound : SUBSET Commitments]

\* What follows from the kind of a request.
LEMMA OperationShape ==
  ASSUME NEW o \in Operations
  PROVE  /\ o.kind \in {"challenge", "proof", "signature", "editBound"}
         /\ o.doc \in Docs
         /\ o.kind \in {"proof", "signature"} => o.nonce \in Nonces /\ o.signer \in Commitments
         /\ o.kind = "proof" => o.root \in List
<1>1. o \in Challenges \cup Proofs \cup Signatures \cup Polls
  BY ReleaseOperationsAssumption
<1>2. CASE o \in Challenges
  BY <1>2 DEF Challenges
<1>3. CASE o \in Proofs
  BY <1>3 DEF Proofs
<1>4. CASE o \in Signatures
  BY <1>4 DEF Signatures
<1>5. CASE o \in Polls
  BY <1>5 DEF Polls
<1>6. QED BY <1>1, <1>2, <1>3, <1>4, <1>5

\* The members of a list are commitments.
LEMMA InType ==
  ASSUME NEW list \in List
  PROVE  In(list) \in SUBSET Commitments
BY DEF In, List

\* The list of a route is a list, whatever has become of its group.
LEMMA ListOfType ==
  ASSUME NEW rw \in Row, NEW route \in Route, groups \in [Groups -> {NoGroup} \cup List]
  PROVE  ListOf(rw, route) \in List
<1>1. membersForRole(rw, route.role) \in List
  BY DEF membersForRole, Row, List
<1>2. CASE route.ref = Own
  BY <1>1, <1>2 DEF ListOf
<1>3. CASE route.ref # Own
  <2>1. route.ref \in Groups
    BY <1>3 DEF Route
  <2>2. GroupMembers(route.ref) \in List
    BY <2>1 DEF GroupMembers, NoList, List
  <2>3. QED BY <1>3, <2>2 DEF ListOf
<1>4. QED BY <1>2, <1>3

\* The rights that the tables give after a step are well formed.
LEMMA RightsType ==
  ASSUME row' \in [Docs -> Row \cup {NoRow}], groups' \in [Groups -> {NoGroup} \cup List],
         NEW d \in Docs
  PROVE  RightsIn(row[d])' \subseteq Commitments \X GateRole \X Nat
<1>1. CASE row'[d] = NoRow
  BY <1>1 DEF RightsIn
<1>2. CASE row'[d] # NoRow
  <2>1. row'[d] \in Row
    BY <1>2
  <2>2. row'[d].epoch \in Nat /\ row'[d].bindings \subseteq Binding /\ row'[d].routes \subseteq Route
    BY <2>1 DEF Row
  <2>3. OwnRights(row[d])' \subseteq Commitments \X GateRole \X Nat
    BY <2>2 DEF OwnRights, Binding
  <2>4. ASSUME NEW route \in row'[d].routes
        PROVE  In(ListOf(row[d], route))' \subseteq Commitments
    <3>1. membersForRole(row[d], route.role)' \in List
      BY <2>1 DEF membersForRole, Row, List
    <3>2. route.ref # Own => GroupMembers(route.ref)' \in List
      BY <2>2 DEF GroupMembers, NoList, List, Route
    <3>3. ListOf(row[d], route)' \in List
      BY <3>1, <3>2 DEF ListOf
    <3>4. QED BY <3>3 DEF In, List
  <2>5. \A route \in row'[d].routes : route.role \in GateRole
    BY <2>2 DEF Route
  <2>6. QED BY <1>2, <2>2, <2>3, <2>4, <2>5 DEF RightsIn
<1>3. QED BY <1>1, <1>2

----------------------------------------------------------------------------
(* The types. *)

FlowsOK == \A s \in Requests : FlowOK(s)

\* What an idle request remembers and has answered is well formed.
LEMMA NoPlanType == NoPlan \in Plan /\ NoReply \in ReplyType
BY DEF NoPlan, Plan, NoReply, Reply, ReplyType, ReplyKind

\* The types hold before the first request.
LEMMA TypeInit == Init => TypeOK
<1> SUFFICES ASSUME Init PROVE TypeOK
  OBVIOUS
<1>2. TableTypeOK
  BY DEF Init, TableTypeOK
<1>3. RequestTypeOK
  BY NoPlanType DEF Init, RequestTypeOK, ReplyType
<1>4. FlowsOK
  BY DEF Init, FlowsOK, FlowOK
<1>5. QED BY <1>2, <1>3, <1>4 DEF TypeOK, FlowsOK

\* An answer of the right shape leaves the requests well formed.
LEMMA AnswerType ==
  ASSUME RequestTypeOK, FlowsOK, NEW r \in Requests, NEW rep \in ReplyType, Answer(r, rep)
  PROVE  RequestTypeOK' /\ FlowsOK'
<1>1. RequestTypeOK'
  BY NoPlanType DEF Answer, RequestTypeOK, ReplyType
<1>2. FlowsOK'
  BY DEF Answer, RequestTypeOK, FlowsOK, FlowOK
<1>3. QED BY <1>1, <1>2

\* So does a refusal.
LEMMA RefuseType ==
  ASSUME RequestTypeOK, FlowsOK, NEW r \in Requests, NEW kind \in ReplyKind, Refuse(r, kind)
  PROVE  RequestTypeOK' /\ FlowsOK'
<1>1. Reply(kind, NoRole, 0, {}) \in ReplyType
  BY DEF Reply, ReplyType
<1>2. QED BY <1>1, AnswerType DEF Refuse

\* A request past its row goes on to the next call with what it remembers.
LEMMA ProceedType ==
  ASSUME RequestTypeOK, FlowsOK, NEW r \in Requests, NEW what \in Plan, what.row # NoRow,
         NEW step \in {"consume", "resolve"},
         pc[r] \in {"list", "consume", "resolve"},
         step = "consume" => op[r].kind \in {"proof", "signature"},
         Proceed(r, step, what)
  PROVE  RequestTypeOK' /\ FlowsOK'
<1>1. RequestTypeOK'
  BY DEF Proceed, RequestTypeOK
<1>2. FlowsOK'
  BY DEF Proceed, RequestTypeOK, FlowsOK, FlowOK
<1>3. QED BY <1>1, <1>2

\* A row that one of the other handlers writes is a row.
LEMMA DocUpdateType ==
  ASSUME TableTypeOK, NEW d \in Docs, UpdateDoc(d)
  PROVE  row' \in [Docs -> Row \cup {NoRow}] /\ groups' = groups
<1>1. ASSUME NEW rw \in Row, Become(d, rw)
      PROVE  row' \in [Docs -> Row \cup {NoRow}] /\ groups' = groups
  BY <1>1 DEF Become, TableTypeOK
<1>2. row[d] # NoRow => row[d] \in Row
  BY DEF TableTypeOK
<1>3. Roles \subseteq GateRole /\ Epochs \subseteq Nat
  BY ReleaseConstantsAssumption
<1>4. CASE RegisterDoc(d)
  <2>1. \A own \in SUBSET Roles :
          [epoch |-> 0, members |-> NoList, bindings |-> {},
           routes |-> [ref : {Own}, role : own]] \in Row
    BY <1>3 DEF Row, Route, List, NoList
  <2>2. QED BY <1>1, <1>4, <2>1 DEF RegisterDoc
<1>5. CASE Reanchor(d)
  <2>1. PICK own \in SUBSET Roles :
          Become(d, [row[d] EXCEPT !.routes = {route \in @ : route.ref # Own}
                                                \cup [ref : {Own}, role : own]])
    BY <1>5 DEF Reanchor
  <2>2. row[d] \in Row
    BY <1>2, <1>5 DEF Reanchor
  <2>3. [row[d] EXCEPT !.routes = {route \in @ : route.ref # Own}
                                    \cup [ref : {Own}, role : own]] \in Row
    BY <1>3, <2>2 DEF Row, Route
  <2>4. QED BY <1>1, <2>1, <2>3
<1>6. CASE EnrollMember(d)
  <2>1. PICK c \in Commitments, role \in Roles :
          LET binding == [commitment |-> c, role |-> capRole(role, MaxRole(RolesOf(row[d], c)))]
          IN Become(d, [row[d] EXCEPT !.members = Include(@, c), !.bindings = @ \cup {binding}])
    BY <1>6 DEF EnrollMember
  <2> DEFINE binding == [commitment |-> c, role |-> capRole(role, MaxRole(RolesOf(row[d], c)))]
  <2>2. row[d] \in Row
    BY <1>2, <1>6 DEF EnrollMember
  <2>3. RolesOf(row[d], c) \in SUBSET GateRole
    BY <2>2 DEF RolesOf, Row, Binding
  <2>4. binding \in Binding
    BY <1>3, <2>3, CapRoleType DEF Binding
  <2>5. Include(row[d].members, c) \in List
    BY <2>2, InType DEF Include, Row, List
  <2> HIDE DEF binding
  <2>6. [row[d] EXCEPT !.members = Include(@, c), !.bindings = @ \cup {binding}] \in Row
    BY <2>2, <2>4, <2>5 DEF Row
  <2>7. QED BY <1>1, <2>1, <2>6 DEF binding
<1>7. CASE RevokeMember(d)
  <2>1. PICK c \in Commitments, e \in Epochs :
          Become(d, [row[d] EXCEPT !.epoch = e, !.members = Remove(@, c),
                                   !.bindings = {b \in @ : b.commitment # c}])
    BY <1>7 DEF RevokeMember
  <2>2. row[d] \in Row
    BY <1>2, <1>7 DEF RevokeMember
  <2>3. Remove(row[d].members, c) \in List
    BY <2>2 DEF Remove, Row, List
  <2>4. [row[d] EXCEPT !.epoch = e, !.members = Remove(@, c),
                       !.bindings = {b \in @ : b.commitment # c}] \in Row
    BY <1>3, <2>2, <2>3 DEF Row
  <2>5. QED BY <1>1, <2>1, <2>4
<1>8. CASE RelabelMember(d)
  <2>1. PICK c \in In(row[d].members), role \in Roles :
          Become(d, [row[d] EXCEPT !.bindings = {b \in @ : b.commitment # c}
                                                  \cup {[commitment |-> c, role |-> role]}])
    BY <1>8 DEF RelabelMember
  <2>2. row[d] \in Row
    BY <1>2, <1>8 DEF RelabelMember
  <2>3. c \in Commitments
    BY <2>1, <2>2, InType DEF Row
  <2>4. [row[d] EXCEPT !.bindings = {b \in @ : b.commitment # c}
                                      \cup {[commitment |-> c, role |-> role]}] \in Row
    BY <1>3, <2>2, <2>3 DEF Row, Binding
  <2>5. QED BY <1>1, <2>1, <2>4
<1>9. CASE AttachGroup(d)
  <2>1. PICK g \in Groups, role \in Roles :
          Become(d, [row[d] EXCEPT !.routes = {route \in @ : route.ref # g}
                                                \cup {[ref |-> g, role |-> role]}])
    BY <1>9 DEF AttachGroup
  <2>2. row[d] \in Row
    BY <1>2, <1>9 DEF AttachGroup
  <2>3. [row[d] EXCEPT !.routes = {route \in @ : route.ref # g}
                                    \cup {[ref |-> g, role |-> role]}] \in Row
    BY <1>3, <2>2 DEF Row, Route
  <2>4. QED BY <1>1, <2>1, <2>3
<1>10. CASE DetachGroup(d)
  <2>1. PICK g \in Groups :
          Become(d, [row[d] EXCEPT !.routes = {route \in @ : route.ref # g}])
    BY <1>10 DEF DetachGroup
  <2>2. row[d] \in Row
    BY <1>2, <1>10 DEF DetachGroup
  <2>3. [row[d] EXCEPT !.routes = {route \in @ : route.ref # g}] \in Row
    BY <2>2 DEF Row
  <2>4. QED BY <1>1, <2>1, <2>3
<1>11. QED BY <1>4, <1>5, <1>6, <1>7, <1>8, <1>9, <1>10 DEF UpdateDoc

\* What the group handlers leave in gate_groups is a list or no row.
LEMMA GroupUpdateType ==
  ASSUME TableTypeOK, NEW g \in Groups, UpdateGroup(g)
  PROVE  groups' \in [Groups -> {NoGroup} \cup List] /\ row' = row
<1>1. \A c \in Commitments : groups[g] # NoGroup =>
        Include(groups[g], c) \in List /\ Remove(groups[g], c) \in List
  BY InType DEF TableTypeOK, Include, Remove, List
<1>2. NoList \in List
  BY DEF NoList, List
<1>3. QED
  BY <1>1, <1>2
     DEF UpdateGroup, RegisterGroup, EnrollInGroup, RevokeFromGroup, DeleteGroup, TableTypeOK

\* An update by another handler keeps the types, of the history as well.
LEMMA UpdateType ==
  ASSUME TypeOK, Update
  PROVE  TypeOK'
<1>1. row' \in [Docs -> Row \cup {NoRow}] /\ groups' \in [Groups -> {NoGroup} \cup List]
  BY DocUpdateType, GroupUpdateType DEF TypeOK, Update, TableTypeOK
<1>2. \A d \in Docs : RightsIn(row[d])' \subseteq Commitments \X GateRole \X Nat
  BY <1>1, RightsType
<1>3. held' \in [Docs -> SUBSET (Commitments \X GateRole \X Nat)]
  BY <1>2 DEF TypeOK, TableTypeOK, Update
<1>4. TableTypeOK'
  BY <1>1, <1>3 DEF TypeOK, TableTypeOK, Update, nonceVars
<1>5. RequestTypeOK' /\ FlowsOK'
  BY DEF TypeOK, RequestTypeOK, FlowsOK, FlowOK, Update, requestVars
<1>6. QED BY <1>4, <1>5 DEF TypeOK, FlowsOK

\* A new request is one of the operations.
LEMMA SubmitType ==
  ASSUME TypeOK, NEW r \in Requests, Submit(r)
  PROVE  TypeOK'
<1>1. TableTypeOK'
  BY DEF TypeOK, TableTypeOK, Submit, tables, nonceVars
<1>2. RequestTypeOK'
  BY NoPlanType DEF TypeOK, RequestTypeOK, Submit, ReplyType
<1>3. FlowsOK'
  BY DEF TypeOK, RequestTypeOK, FlowsOK, FlowOK, Submit
<1>4. QED BY <1>1, <1>2, <1>3 DEF TypeOK, FlowsOK

\* Expiry and the sweep move a nonce along its life.
LEMMA NonceType ==
  ASSUME TypeOK, NEW n \in Nonces, Expire(n) \/ Sweep(n)
  PROVE  TypeOK'
<1>1. TableTypeOK'
  BY DEF TypeOK, TableTypeOK, Expire, Sweep, tables
<1>2. RequestTypeOK' /\ FlowsOK'
  BY DEF TypeOK, RequestTypeOK, FlowsOK, FlowOK, Expire, Sweep, requestVars
<1>3. QED BY <1>1, <1>2 DEF TypeOK, FlowsOK

\* What the handler remembers of the row it read.
LEMMA FirstPlanType ==
  ASSUME NEW rw \in Row, NEW todo \in SUBSET rw.routes
  PROVE  [row |-> rw, matched |-> {}, todo |-> todo, union |-> In(membersForRole(rw, "edit"))]
           \in Plan
<1>1. membersForRole(rw, "edit") \in List
  BY DEF membersForRole, Row, List
<1>2. In(membersForRole(rw, "edit")) \in SUBSET Commitments
  BY <1>1, InType
<1>3. todo \in SUBSET Route
  BY DEF Row
<1>4. QED BY <1>2, <1>3 DEF Plan

\* The read of the row refuses, or goes on with the row it found.
LEMMA ReadRowType ==
  ASSUME TypeOK, NEW r \in Requests, ReadRow(r)
  PROVE  TypeOK'
<1> DEFINE rw == row[op[r].doc]
           kind == op[r].kind
           todo == IF kind = "proof" THEN rw.routes ELSE EditRoutes(rw)
<1>1. TableTypeOK'
  BY DEF TypeOK, TableTypeOK, ReadRow, GoOnWith, tables, nonceVars
<1>2. RequestTypeOK /\ FlowsOK
  BY DEF TypeOK, FlowsOK
<1>3. pc[r] = "read" /\ op[r] \in Operations
  BY <1>2 DEF ReadRow, GoOnWith, FlowsOK, FlowOK
<1>4. op[r].doc \in Docs /\ kind \in {"challenge", "proof", "signature", "editBound"}
  BY <1>3, OperationShape
<1>5. rw \in Row \cup {NoRow}
  BY <1>4 DEF TypeOK, TableTypeOK
<1>6. RequestTypeOK' /\ FlowsOK'
  <2>1. CASE Answer(r, Reply("bound", NoRole, 0, {}))
    <3>1. Reply("bound", NoRole, 0, {}) \in ReplyType
      BY DEF Reply, ReplyType, ReplyKind
    <3>2. QED BY <1>2, <2>1, <3>1, AnswerType
  <2>2. CASE Refuse(r, "unknown-doc") \/ Refuse(r, "scope-mismatch")
    BY <1>2, <2>2, RefuseType DEF ReplyKind
  <2>3. CASE /\ rw # NoRow
             /\ pc' = [pc EXCEPT ![r] = CASE kind = "challenge" -> "issue"
                                          [] kind = "editBound" -> "resolve"
                                          [] OTHER -> "list"]
             /\ plan' = [plan EXCEPT ![r] =
                           [row |-> rw, matched |-> {}, todo |-> todo,
                            union |-> In(membersForRole(rw, "edit"))]]
             /\ stale' = [stale EXCEPT ![r] = FALSE]
             /\ UNCHANGED <<op, reply>>
    <3> DEFINE first == [row |-> rw, matched |-> {}, todo |-> todo,
                         union |-> In(membersForRole(rw, "edit"))]
               step == CASE kind = "challenge" -> "issue"
                         [] kind = "editBound" -> "resolve"
                         [] OTHER -> "list"
    <3>1. todo \in SUBSET rw.routes
      BY DEF EditRoutes
    <3>2. first \in Plan /\ first.row # NoRow
      BY <1>5, <2>3, <3>1, FirstPlanType
    <3>3. step \in {"issue", "resolve", "list"} /\ (step = "list" => kind \in {"proof", "signature"})
      BY <1>4
    <3>4. /\ pc' = [pc EXCEPT ![r] = step] /\ plan' = [plan EXCEPT ![r] = first]
          /\ stale' = [stale EXCEPT ![r] = FALSE] /\ op' = op /\ reply' = reply
      BY <2>3
    <3> HIDE DEF first, step
    <3>5. RequestTypeOK'
      BY <1>2, <3>2, <3>3, <3>4 DEF RequestTypeOK
    <3>6. FlowsOK'
      BY <1>2, <1>3, <3>2, <3>3, <3>4 DEF RequestTypeOK, FlowsOK, FlowOK
    <3>7. QED BY <3>5, <3>6
  <2>4. QED BY <2>1, <2>2, <2>3 DEF ReadRow, GoOnWith
<1>7. QED BY <1>1, <1>6 DEF TypeOK, FlowsOK

\* An issued nonce belongs to the document of the challenge.
LEMMA IssueNonceType ==
  ASSUME TypeOK, NEW r \in Requests, IssueNonce(r)
  PROVE  TypeOK'
<1>1. RequestTypeOK /\ FlowsOK
  BY DEF TypeOK, FlowsOK
<1>2. op[r].doc \in Docs
  BY <1>1, OperationShape DEF IssueNonce, FlowsOK, FlowOK
<1>3. TableTypeOK'
  BY <1>2 DEF TypeOK, TableTypeOK, IssueNonce, tables
<1>4. Reply("nonce", NoRole, 0, {}) \in ReplyType
  BY DEF Reply, ReplyType, ReplyKind
<1>5. RequestTypeOK' /\ FlowsOK'
  BY <1>1, <1>4, AnswerType, RefuseType DEF IssueNonce, ReplyKind
<1>6. QED BY <1>3, <1>5 DEF TypeOK, FlowsOK

\* The list refuses, or sends the release on to the delete.
LEMMA ListNoncesType ==
  ASSUME TypeOK, NEW r \in Requests, ListNonces(r)
  PROVE  TypeOK'
<1>1. RequestTypeOK /\ FlowsOK
  BY DEF TypeOK, FlowsOK
<1>2. TableTypeOK'
  BY DEF TypeOK, TableTypeOK, ListNonces, tables, nonceVars
<1>3. plan[r] \in Plan /\ plan[r].row # NoRow /\ op[r].kind \in {"proof", "signature"}
  BY <1>1 DEF ListNonces, RequestTypeOK, FlowsOK, FlowOK
<1>4. CASE Proceed(r, "consume", plan[r])
  BY <1>1, <1>2, <1>3, <1>4, ProceedType DEF ListNonces, TypeOK, FlowsOK
<1>5. CASE Refuse(r, "nonce-not-live")
  BY <1>1, <1>2, <1>5, RefuseType DEF ReplyKind, TypeOK, FlowsOK
<1>6. QED BY <1>4, <1>5 DEF ListNonces

\* The delete refuses, fails, or lets the release go on.
LEMMA ConsumeNonceType ==
  ASSUME TypeOK, NEW r \in Requests, ConsumeNonce(r)
  PROVE  TypeOK'
<1>1. RequestTypeOK /\ FlowsOK
  BY DEF TypeOK, FlowsOK
<1>2. pc[r] = "consume" /\ op[r] \in Operations /\ op[r].kind \in {"proof", "signature"}
  BY <1>1 DEF ConsumeNonce, FlowsOK, FlowOK
<1>3. op[r].nonce \in Nonces
  BY <1>2, OperationShape
<1>4. plan[r] \in Plan /\ plan[r].row # NoRow
  BY <1>1, <1>2 DEF RequestTypeOK, FlowsOK, FlowOK
<1>5. TableTypeOK'
  <2>1. passed' = [passed EXCEPT ![op[r].nonce] = @ + 1] \/ passed' = passed
    BY DEF ConsumeNonce, Passed
  <2>2. passed' \in [Nonces -> Nat]
    BY <1>3, <2>1 DEF TypeOK, TableTypeOK
  <2>3. age' \in [Nonces -> {"unused", "live", "expired", "gone"}] /\ issuedFor' = issuedFor
    BY <1>3 DEF TypeOK, TableTypeOK, ConsumeNonce, nonceVars
  <2>4. row' = row /\ groups' = groups /\ held' = held
    BY DEF ConsumeNonce, tables
  <2>5. QED BY <2>2, <2>3, <2>4 DEF TypeOK, TableTypeOK
<1>6. CASE Proceed(r, "resolve", plan[r])
  BY <1>1, <1>2, <1>4, <1>5, <1>6, ProceedType DEF TypeOK, FlowsOK
<1>7. ASSUME NEW kind \in ReplyKind, Refuse(r, kind)
      PROVE  TypeOK'
  BY <1>1, <1>5, <1>7, RefuseType DEF TypeOK, FlowsOK
<1>8. {"error", "nonce-not-live", "invalid-proof"} \subseteq ReplyKind
  BY DEF ReplyKind
<1>9. QED BY <1>6, <1>7, <1>8 DEF ConsumeNonce, Passed

\* The list of one more route is folded into the plan.
LEMMA ResolveType ==
  ASSUME TypeOK, NEW r \in Requests, Resolve(r)
  PROVE  TypeOK'
<1>1. RequestTypeOK /\ FlowsOK
  BY DEF TypeOK, FlowsOK
<1>2. TableTypeOK'
  BY DEF TypeOK, TableTypeOK, Resolve, tables, nonceVars
<1>3. pc[r] = "resolve" /\ plan[r] \in Plan /\ plan[r].row # NoRow
  BY <1>1 DEF Resolve, RequestTypeOK, FlowsOK, FlowOK
<1>4. PICK route \in plan[r].todo :
        LET rest == [plan[r] EXCEPT !.todo = @ \ {route}]
            list == ListOf(plan[r].row, route)
        IN \/ /\ op[r].kind = "proof"
              /\ Proceed(r, "resolve", IF list = op[r].root
                                       THEN [rest EXCEPT !.matched = @ \cup {route.role}] ELSE rest)
           \/ /\ op[r].kind # "proof"
              /\ Proceed(r, "resolve", [rest EXCEPT !.union = @ \cup In(list)])
  BY DEF Resolve
<1> DEFINE rest == [plan[r] EXCEPT !.todo = @ \ {route}]
           list == ListOf(plan[r].row, route)
<1>5. plan[r].row \in Row /\ route \in Route
  BY <1>3, <1>4 DEF Plan
<1>6. list \in List
  BY <1>5, ListOfType DEF TypeOK, TableTypeOK
<1>7. In(list) \in SUBSET Commitments
  BY <1>6, InType
<1> HIDE DEF list
<1>8. rest \in Plan /\ rest.row # NoRow
  BY <1>3 DEF Plan
<1>9. [rest EXCEPT !.matched = @ \cup {route.role}] \in Plan
      /\ [rest EXCEPT !.matched = @ \cup {route.role}].row # NoRow
  BY <1>5, <1>8 DEF Plan, Route
<1>10. [rest EXCEPT !.union = @ \cup In(list)] \in Plan
       /\ [rest EXCEPT !.union = @ \cup In(list)].row # NoRow
  BY <1>7, <1>8 DEF Plan
<1>11. PICK what \in Plan : what.row # NoRow /\ Proceed(r, "resolve", what)
  <2> HIDE DEF rest
  <2>1. \/ Proceed(r, "resolve", rest)
        \/ Proceed(r, "resolve", [rest EXCEPT !.matched = @ \cup {route.role}])
        \/ Proceed(r, "resolve", [rest EXCEPT !.union = @ \cup In(list)])
    BY <1>4 DEF rest, list
  <2>2. QED BY <1>8, <1>9, <1>10, <2>1
<1>12. QED BY <1>1, <1>2, <1>3, <1>11, ProceedType DEF TypeOK, FlowsOK

\* The three answers past the last route, and a failed call.
LEMMA ReleaseType ==
  ASSUME TypeOK, NEW r \in Requests,
         ReleaseByProof(r) \/ ReleaseBySignature(r) \/ AnswerPoll(r) \/ DatabaseError(r)
  PROVE  TypeOK'
<1>1. RequestTypeOK /\ FlowsOK
  BY DEF TypeOK, FlowsOK
<1>2. TableTypeOK'
  BY DEF TypeOK, TableTypeOK, ReleaseByProof, ReleaseBySignature, AnswerPoll, DatabaseError,
         tables, nonceVars
<1>3. \A kind \in ReplyKind : Refuse(r, kind) => TypeOK'
  BY <1>1, <1>2, RefuseType DEF TypeOK, FlowsOK
<1>4. \A rep \in ReplyType : Answer(r, rep) => TypeOK'
  BY <1>1, <1>2, AnswerType DEF TypeOK, FlowsOK
<1>5. {"stale-root", "invalid-proof", "error"} \subseteq ReplyKind
  BY DEF ReplyKind
<1>6. plan[r] \in Plan /\ (pc[r] = "resolve" => plan[r].row \in Row)
  BY <1>1 DEF RequestTypeOK, FlowsOK, FlowOK, Plan
<1>7. pc[r] = "resolve" /\ plan[r].matched # {} =>
        Reply("granted", MaxRole(plan[r].matched), plan[r].row.epoch, {}) \in ReplyType
  BY <1>6, MaxRoleIn DEF Reply, ReplyType, ReplyKind, Plan, Row
<1>8. pc[r] = "resolve" => Reply("granted", "edit", plan[r].row.epoch, {}) \in ReplyType
  BY <1>6 DEF Reply, ReplyType, ReplyKind, GateRole, Row
<1>9. Reply("bound", NoRole, 0, plan[r].union) \in ReplyType
  BY <1>6 DEF Reply, ReplyType, ReplyKind, Plan
<1>10. CASE ReleaseByProof(r)
  BY <1>3, <1>4, <1>5, <1>7, <1>10 DEF ReleaseByProof
<1>11. CASE ReleaseBySignature(r)
  BY <1>3, <1>4, <1>5, <1>8, <1>11 DEF ReleaseBySignature
<1>12. CASE AnswerPoll(r)
  BY <1>4, <1>9, <1>12 DEF AnswerPoll
<1>13. CASE DatabaseError(r)
  BY <1>3, <1>5, <1>13 DEF DatabaseError
<1>14. QED BY <1>10, <1>11, <1>12, <1>13

\* Every step keeps the types.
LEMMA TypeNext == TypeOK /\ [Next]_vars => TypeOK'
<1> SUFFICES ASSUME TypeOK, [Next]_vars PROVE TypeOK'
  OBVIOUS
<1>1. CASE Update
  BY <1>1, UpdateType
<1>2. ASSUME NEW n \in Nonces, Expire(n) \/ Sweep(n) PROVE TypeOK'
  BY <1>2, NonceType
<1>3. ASSUME NEW r \in Requests, Submit(r) PROVE TypeOK'
  BY <1>3, SubmitType
<1>4. ASSUME NEW r \in Requests, Step(r) PROVE TypeOK'
  BY <1>4, ReadRowType, IssueNonceType, ListNoncesType, ConsumeNonceType, ResolveType, ReleaseType
     DEF Step
<1>5. CASE UNCHANGED vars
  BY <1>5 DEF TypeOK, TableTypeOK, RequestTypeOK, FlowOK, vars, tables, nonceVars, requestVars
<1>6. QED BY <1>1, <1>2, <1>3, <1>4, <1>5 DEF Next

\* The tables, the nonces and the requests keep their shape, and a request in
\* progress always has what its next call needs.
THEOREM TypeCorrect == Spec => []TypeOK
BY TypeInit, TypeNext, PTL DEF Spec

----------------------------------------------------------------------------
(* Nonces. *)

\* What makes single use inductive: a nonce that let a release go on is gone,
\* and only an unused one is issued; a release about to consume a nonce found
\* it issued for its document; a release past its nonce left it gone.
Used(n) == passed[n] = 0 \/ (passed[n] = 1 /\ age[n] = "gone")
Bound(r) ==
  /\ pc[r] = "consume" => issuedFor[op[r].nonce] = op[r].doc /\ age[op[r].nonce] # "unused"
  /\ pc[r] = "resolve" /\ op[r].kind \in {"proof", "signature"} => age[op[r].nonce] = "gone"
NonceInv ==
  /\ \A n \in Nonces : Used(n)
  /\ \A r \in Requests : Bound(r)

\* No nonce has been used before the first request.
LEMMA NonceInit == Init => NonceInv
BY DEF Init, NonceInv, Used, Bound

\* A request on its way to the nonce or past it is a release, and names one.
LEMMA ReleaseNonce ==
  ASSUME TypeOK, NEW r \in Requests,
         pc[r] \in {"list", "consume"} \/ (pc[r] = "resolve" /\ op[r].kind \in {"proof", "signature"})
  PROVE  op[r] \in Operations /\ op[r].kind \in {"proof", "signature"} /\ op[r].nonce \in Nonces
<1>1. op[r] \in Operations /\ op[r].kind \in {"proof", "signature"}
  BY DEF TypeOK, FlowOK
<1>2. QED BY <1>1, OperationShape

\* A step that leaves the nonces alone and takes no request to its nonce or
\* past it.
LEMMA NonceFrame ==
  ASSUME NonceInv, issuedFor' = issuedFor, age' = age, passed' = passed,
         \A s \in Requests : pc'[s] \in {"consume", "resolve"} =>
           op'[s] = op[s] /\ (pc'[s] = pc[s] \/ (pc'[s] = "resolve" /\ op[s].kind = "editBound"))
  PROVE  NonceInv'
<1>1. \A n \in Nonces : Used(n)'
  BY DEF NonceInv, Used
<1>2. \A s \in Requests : Bound(s)'
  BY DEF NonceInv, Bound
<1>3. QED BY <1>1, <1>2 DEF NonceInv

\* An answer takes its request out of the way.
LEMMA AnswerNonce ==
  ASSUME NonceInv, TypeOK, NEW r \in Requests, NEW rep, Answer(r, rep),
         issuedFor' = issuedFor, age' = age, passed' = passed
  PROVE  NonceInv'
<1>1. \A s \in Requests : pc'[s] \in {"consume", "resolve"} => op'[s] = op[s] /\ pc'[s] = pc[s]
  BY DEF Answer, TypeOK, RequestTypeOK
<1>2. QED BY <1>1, NonceFrame

\* A nonce that is not unused stays so, one that is gone stays gone.
LEMMA NonceAges ==
  ASSUME NonceInv, NEW n \in Nonces, Expire(n) \/ Sweep(n), TypeOK
  PROVE  NonceInv'
<1>1. \A m \in Nonces : /\ age[m] = "gone" => age'[m] = "gone"
                        /\ age[m] # "unused" => age'[m] # "unused"
  BY DEF Expire, Sweep, TypeOK, TableTypeOK
<1>2. passed' = passed /\ issuedFor' = issuedFor /\ pc' = pc /\ op' = op
  BY DEF Expire, Sweep, requestVars
<1>3. \A m \in Nonces : Used(m)'
  BY <1>1, <1>2 DEF NonceInv, Used
<1>4. ASSUME NEW s \in Requests PROVE Bound(s)'
  BY <1>1, <1>2, ReleaseNonce DEF NonceInv, Bound
<1>5. QED BY <1>3, <1>4 DEF NonceInv

\* Only an unused nonce is issued, so no release knows it yet.
LEMMA IssueNonceNonce ==
  ASSUME NonceInv, TypeOK, NEW r \in Requests, IssueNonce(r)
  PROVE  NonceInv'
<1>1. PICK n \in Nonces : /\ age[n] = "unused"
                          /\ age' = [age EXCEPT ![n] = "live"]
                          /\ issuedFor' = [issuedFor EXCEPT ![n] = op[r].doc]
  BY DEF IssueNonce
<1>2. \A m \in Nonces : Used(m)'
  BY <1>1 DEF NonceInv, Used, IssueNonce, TypeOK, TableTypeOK
<1>3. \A s \in Requests : pc'[s] \in {"consume", "resolve"} => op'[s] = op[s] /\ pc'[s] = pc[s]
  BY DEF IssueNonce, Refuse, Answer, TypeOK, RequestTypeOK
<1>4. ASSUME NEW s \in Requests PROVE Bound(s)'
  <2>1. \A m \in Nonces : age[m] # "unused" => m # n /\ age'[m] = age[m] /\ issuedFor'[m] = issuedFor[m]
    BY <1>1 DEF TypeOK, TableTypeOK
  <2>2. CASE pc'[s] = "consume"
    BY <1>3, <2>1, <2>2, ReleaseNonce DEF NonceInv, Bound
  <2>3. CASE pc'[s] = "resolve"
    BY <1>3, <2>1, <2>3, ReleaseNonce DEF NonceInv, Bound
  <2>4. QED BY <2>2, <2>3 DEF Bound
<1>5. QED BY <1>2, <1>4 DEF NonceInv

\* A release that goes on to the delete found the nonce live and of its document.
LEMMA ListNoncesNonce ==
  ASSUME NonceInv, TypeOK, NEW r \in Requests, ListNonces(r)
  PROVE  NonceInv'
<1>1. issuedFor' = issuedFor /\ age' = age /\ passed' = passed
  BY DEF ListNonces, nonceVars
<1>2. CASE Live(op[r].nonce, op[r].doc) /\ Proceed(r, "consume", plan[r])
  <2>1. \A n \in Nonces : Used(n)'
    BY <1>1 DEF NonceInv, Used
  <2>2. ASSUME NEW s \in Requests PROVE Bound(s)'
    <3>1. CASE s = r
      BY <1>1, <1>2, <3>1 DEF Proceed, Live, Bound, TypeOK, RequestTypeOK
    <3>2. CASE s # r
      BY <1>1, <1>2, <3>2 DEF Proceed, NonceInv, Bound, TypeOK, RequestTypeOK
    <3>3. QED BY <3>1, <3>2
  <2>3. QED BY <2>1, <2>2 DEF NonceInv
<1>3. CASE Refuse(r, "nonce-not-live")
  BY <1>1, <1>3, AnswerNonce DEF Refuse
<1>4. QED BY <1>2, <1>3 DEF ListNonces

\* The release that goes on found the nonce live, so it is the first, and leaves
\* it gone.
LEMMA ConsumeNonceNonce ==
  ASSUME NonceInv, TypeOK, NEW r \in Requests, ConsumeNonce(r)
  PROVE  NonceInv'
<1>1. op[r].nonce \in Nonces
  BY ReleaseNonce DEF ConsumeNonce
<1>2. CASE Refuse(r, "nonce-not-live") /\ UNCHANGED <<nonceVars, passed>>
  BY <1>2, AnswerNonce DEF Refuse, nonceVars
<1>3. CASE /\ Live(op[r].nonce, op[r].doc)
           /\ age' = [age EXCEPT ![op[r].nonce] = "gone"]
           /\ Passed(r) \/ (Refuse(r, "error") /\ UNCHANGED passed)
           /\ UNCHANGED issuedFor
  <2>1. passed' = [passed EXCEPT ![op[r].nonce] = @ + 1] \/ passed' = passed
    BY <1>3 DEF Passed
  <2>2. \A n \in Nonces : Used(n)'
    BY <1>1, <1>3, <2>1 DEF NonceInv, Used, Live, TypeOK, TableTypeOK
  <2>3. \A n \in Nonces : /\ age[n] = "gone" => age'[n] = "gone"
                          /\ age[n] # "unused" => age'[n] # "unused"
    BY <1>3 DEF TypeOK, TableTypeOK
  <2>4. /\ pc'[r] \in {"idle", "resolve"} /\ (pc'[r] = "resolve" => op'[r] = op[r])
        /\ \A s \in Requests \ {r} : pc'[s] = pc[s] /\ op'[s] = op[s]
    BY <1>3 DEF Passed, Proceed, Refuse, Answer, TypeOK, RequestTypeOK
  <2>5. age'[op[r].nonce] = "gone"
    BY <1>1, <1>3 DEF TypeOK, TableTypeOK
  <2>6. ASSUME NEW s \in Requests PROVE Bound(s)'
    <3>1. CASE s = r
      BY <2>4, <2>5, <3>1 DEF Bound
    <3>2. CASE s # r
      BY <1>3, <2>3, <2>4, <3>2, ReleaseNonce DEF NonceInv, Bound
    <3>3. QED BY <3>1, <3>2
  <2>7. QED BY <2>2, <2>6 DEF NonceInv
<1>4. QED BY <1>2, <1>3 DEF ConsumeNonce

\* The other steps of a request leave the nonces alone.
LEMMA OtherStepsNonce ==
  ASSUME NonceInv, TypeOK, NEW r \in Requests,
         \/ Submit(r) \/ ReadRow(r) \/ Resolve(r)
         \/ ReleaseByProof(r) \/ ReleaseBySignature(r) \/ AnswerPoll(r) \/ DatabaseError(r)
  PROVE  NonceInv'
<1>1. issuedFor' = issuedFor /\ age' = age /\ passed' = passed
  BY DEF Submit, ReadRow, GoOnWith, Resolve, ReleaseByProof, ReleaseBySignature, AnswerPoll, DatabaseError,
         nonceVars
<1>2. CASE Submit(r)
  <2>1. \A s \in Requests : pc'[s] \in {"consume", "resolve"} => op'[s] = op[s] /\ pc'[s] = pc[s]
    BY <1>2 DEF Submit, TypeOK, RequestTypeOK
  <2>2. QED BY <1>1, <2>1, NonceFrame
<1>3. CASE ReadRow(r)
  <2>1. CASE \E rep : Answer(r, rep)
    BY <1>1, <2>1, AnswerNonce
  <2>2. CASE /\ pc' = [pc EXCEPT ![r] = CASE op[r].kind = "challenge" -> "issue"
                                          [] op[r].kind = "editBound" -> "resolve"
                                          [] OTHER -> "list"]
             /\ UNCHANGED <<op, reply>>
    <3>1. \A s \in Requests : pc'[s] \in {"consume", "resolve"} =>
            op'[s] = op[s] /\ (pc'[s] = pc[s] \/ (pc'[s] = "resolve" /\ op[s].kind = "editBound"))
      BY <2>2 DEF TypeOK, RequestTypeOK
    <3>2. QED BY <1>1, <3>1, NonceFrame
  <2>3. QED BY <1>3, <2>1, <2>2 DEF ReadRow, GoOnWith, Refuse
<1>4. CASE Resolve(r)
  <2>1. \E what : pc[r] = "resolve" /\ Proceed(r, "resolve", what)
    BY <1>4 DEF Resolve
  <2>2. \A s \in Requests : pc'[s] = pc[s] /\ op'[s] = op[s]
    BY <2>1 DEF Proceed, TypeOK, RequestTypeOK
  <2>3. QED BY <1>1, <2>2, NonceFrame
<1>5. CASE ReleaseByProof(r) \/ ReleaseBySignature(r) \/ AnswerPoll(r) \/ DatabaseError(r)
  <2>1. \E rep : Answer(r, rep)
    BY <1>5 DEF ReleaseByProof, ReleaseBySignature, AnswerPoll, DatabaseError, Refuse
  <2>2. QED BY <1>1, <2>1, AnswerNonce
<1>6. QED BY <1>2, <1>3, <1>4, <1>5

\* Every step keeps the invariant of the nonces.
LEMMA NonceNext == TypeOK /\ NonceInv /\ [Next]_vars => NonceInv'
<1> SUFFICES ASSUME TypeOK, NonceInv, [Next]_vars PROVE NonceInv'
  OBVIOUS
<1>1. CASE Update
  BY <1>1, NonceFrame DEF Update, nonceVars, requestVars
<1>2. ASSUME NEW n \in Nonces, Expire(n) \/ Sweep(n) PROVE NonceInv'
  BY <1>2, NonceAges
<1>3. ASSUME NEW r \in Requests, Submit(r) \/ Step(r) PROVE NonceInv'
  BY <1>3, IssueNonceNonce, ListNoncesNonce, ConsumeNonceNonce, OtherStepsNonce DEF Step
<1>4. CASE UNCHANGED vars
  BY <1>4, NonceFrame DEF vars, nonceVars, requestVars
<1>5. QED BY <1>1, <1>2, <1>3, <1>4 DEF Next

\* A nonce lets at most one release go on, whatever the number of releases
\* that listed it while it was live.
THEOREM NonceCorrect == Spec => []NonceSingleUse
<1>1. TypeOK /\ NonceInv => NonceSingleUse
  BY DEF NonceInv, Used, NonceSingleUse, TypeOK, TableTypeOK
<1>2. QED BY <1>1, TypeInit, TypeNext, NonceInit, NonceNext, PTL DEF Spec

\* A step that lets a release go on is a delete that found its nonce live.
LEMMA PassesLiveStep == TypeOK /\ NonceInv /\ [Next]_vars => PassesLive
<1> SUFFICES ASSUME TypeOK, NonceInv, [Next]_vars,
                    NEW r \in Requests,
                    pc[r] = "consume", passed'[op[r].nonce] # passed[op[r].nonce]
             PROVE  Live(op[r].nonce, op[r].doc)
  BY DEF PassesLive
<1>1. passed' # passed
  OBVIOUS
<1>2. PICK s \in Requests : ConsumeNonce(s)
  <2>1. ~Update /\ ~UNCHANGED vars
    BY <1>1 DEF Update, vars
  <2>2. \A n \in Nonces : ~Expire(n) /\ ~Sweep(n)
    BY <1>1 DEF Expire, Sweep
  <2>3. \A s \in Requests : Submit(s) \/ Step(s) => ConsumeNonce(s)
    BY <1>1 DEF Submit, Step, ReadRow, GoOnWith, IssueNonce, ListNonces, Resolve, ReleaseByProof,
                ReleaseBySignature, AnswerPoll, DatabaseError
  <2>4. QED BY <2>1, <2>2, <2>3 DEF Next
<1>3. Live(op[s].nonce, op[s].doc) /\ passed' = [passed EXCEPT ![op[s].nonce] = @ + 1]
  BY <1>1, <1>2 DEF ConsumeNonce, Passed
<1>4. op[r].nonce \in Nonces /\ op[s].nonce \in Nonces
  BY <1>2, ReleaseNonce DEF ConsumeNonce
<1>5. op[r].nonce = op[s].nonce
  BY <1>3, <1>4 DEF TypeOK, TableTypeOK
<1>6. QED BY <1>3, <1>5 DEF Live, NonceInv, Bound

\* A release goes on past its nonce only while the nonce is live and of its
\* document.
THEOREM PassedCorrect == Spec => PassedWhileLive
BY TypeInit, TypeNext, NonceInit, NonceNext, PassesLiveStep, PTL DEF Spec, PassedWhileLive

\* What an answer looks like from outside: the step is one of its request, and
\* the reply is the answer.
LEMMA AnswerSeen ==
  ASSUME TypeOK, NEW r \in Requests, NEW rep, Answer(r, rep)
  PROVE  /\ reply'[r] = rep
         /\ \A s \in Requests \ {r} : pc'[s] = pc[s]
BY DEF Answer, TypeOK, RequestTypeOK

\* The same for a refusal.
LEMMA RefuseSeen ==
  ASSUME TypeOK, NEW r \in Requests, NEW kind, Refuse(r, kind)
  PROVE  /\ reply'[r].kind = kind
         /\ \A s \in Requests \ {r} : pc'[s] = pc[s]
BY AnswerSeen DEF Refuse, Reply

\* A request that proceeds has not answered.
LEMMA ProceedSeen ==
  ASSUME TypeOK, NEW r \in Requests, NEW step, NEW what, Proceed(r, step, what), step # "idle"
  PROVE  pc'[r] # "idle" /\ \A s \in Requests \ {r} : pc'[s] = pc[s]
BY DEF Proceed, TypeOK, RequestTypeOK

\* Only the steps of a request take it to its answer.
LEMMA AnsweredByOwnStep ==
  ASSUME TypeOK, [Next]_vars, NEW r \in Requests, pc[r] # "idle", pc'[r] = "idle"
  PROVE  Step(r)
<1>1. pc' # pc
  OBVIOUS
<1>2. ~Update /\ ~UNCHANGED vars
  BY <1>1 DEF Update, vars, requestVars
<1>3. \A n \in Nonces : ~Expire(n) /\ ~Sweep(n)
  BY <1>1 DEF Expire, Sweep, requestVars
<1>4. ASSUME NEW s \in Requests, Submit(s) PROVE FALSE
  BY <1>4 DEF Submit, TypeOK, RequestTypeOK
<1>5. ASSUME NEW s \in Requests, Step(s), s # r PROVE FALSE
  <2>1. CASE \E rep : Answer(s, rep)
    BY <1>5, <2>1, AnswerSeen
  <2>2. CASE ReadRow(s)
    BY <1>5, <2>1, <2>2 DEF ReadRow, GoOnWith, Refuse, TypeOK, RequestTypeOK
  <2>3. CASE \E what : Proceed(s, "consume", what) \/ Proceed(s, "resolve", what)
    BY <1>5, <2>3, ProceedSeen
  <2>4. QED
    BY <1>5, <2>1, <2>2, <2>3
       DEF Step, IssueNonce, ListNonces, ConsumeNonce, Passed, Resolve, ReleaseByProof,
           ReleaseBySignature, AnswerPoll, DatabaseError, Refuse
<1>6. QED BY <1>2, <1>3, <1>4, <1>5 DEF Next

\* A refusal for a root or a proof is made past the nonce, or in the very delete.
LEMMA FailureBurnsStep == TypeOK /\ NonceInv /\ [Next]_vars => FailureBurns
<1> SUFFICES ASSUME TypeOK, NonceInv, [Next]_vars, NEW r \in Requests,
                    pc[r] # "idle", pc'[r] = "idle",
                    reply'[r].kind \in {"stale-root", "invalid-proof"}
             PROVE  age'[op[r].nonce] = "gone"
  BY DEF FailureBurns, Answers
<1>1. Step(r)
  BY AnsweredByOwnStep
<1>2. \A kind : Refuse(r, kind) => kind \in {"stale-root", "invalid-proof"}
  BY RefuseSeen
<1>3. \A rep : Answer(r, rep) => rep.kind \in {"stale-root", "invalid-proof"}
  BY AnswerSeen
<1>4. CASE ConsumeNonce(r)
  <2>1. op[r].nonce \in Nonces
    BY <1>4, ReleaseNonce DEF ConsumeNonce
  <2>2. age' = [age EXCEPT ![op[r].nonce] = "gone"]
    BY <1>2, <1>4 DEF ConsumeNonce
  <2>3. QED BY <2>1, <2>2 DEF TypeOK, TableTypeOK
<1>5. CASE ReleaseByProof(r) \/ ReleaseBySignature(r)
  <2>1. age[op[r].nonce] = "gone" /\ age' = age
    BY <1>5 DEF ReleaseByProof, ReleaseBySignature, NonceInv, Bound, nonceVars
  <2>2. QED BY <2>1
<1>6. ~AnswerPoll(r)
  BY <1>3 DEF AnswerPoll, Reply
<1>7. ~DatabaseError(r) /\ ~IssueNonce(r)
  <2>1. ~Answer(r, Reply("nonce", NoRole, 0, {}))
    BY <1>3 DEF Reply
  <2>2. QED BY <1>2, <2>1 DEF DatabaseError, IssueNonce
<1>8. ~ListNonces(r)
  BY <1>2, ProceedSeen DEF ListNonces
<1>9. ~Resolve(r)
  <2>1. \A what : ~Proceed(r, "resolve", what)
    BY ProceedSeen
  <2>2. QED BY <2>1 DEF Resolve
<1>10. ~ReadRow(r)
  <2>1. ~Answer(r, Reply("bound", NoRole, 0, {}))
    BY <1>3 DEF Reply
  <2>2. ~Refuse(r, "unknown-doc") /\ ~Refuse(r, "scope-mismatch")
    BY <1>2
  <2>3. QED BY <2>1, <2>2 DEF ReadRow, GoOnWith, TypeOK, RequestTypeOK
<1>11. QED BY <1>1, <1>4, <1>5, <1>6, <1>7, <1>8, <1>9, <1>10 DEF Step

\* A release refused for its root or its proof has used up its nonce.
THEOREM FailureCorrect == Spec => FailureBurnsNonce
BY TypeInit, TypeNext, NonceInit, NonceNext, FailureBurnsStep, PTL DEF Spec, FailureBurnsNonce

----------------------------------------------------------------------------
(* The edit union. *)

\* The edit members found so far and those of the groups still to be read are
\* together the edit members of the tables, as long as nothing has changed
\* since the row was read.
Pending(routes) == UNION {In(GroupMembers(route.ref)) : route \in routes}
Agrees(r) ==
  pc[r] \in {"list", "consume", "resolve"} /\ op[r].kind # "proof" =>
    /\ \A route \in plan[r].todo : route.ref # Own
    /\ ~stale[r] => plan[r].union \cup Pending(plan[r].todo) = editMemberCommitments(row[op[r].doc])
AgreeInv == \A r \in Requests : Agrees(r)

\* No request knows anything before the first one.
LEMMA AgreeInit == Init => AgreeInv
BY DEF Init, AgreeInv, Agrees

\* What a request without a step of its own knows is still so, if the tables
\* have not changed.
LEMMA AgreeFrame ==
  ASSUME AgreeInv, UNCHANGED tables, NEW s \in Requests,
         pc'[s] \in {"list", "consume", "resolve"} =>
           /\ pc[s] \in {"list", "consume", "resolve"} /\ op'[s] = op[s]
           /\ plan'[s] = plan[s] /\ stale'[s] = stale[s]
  PROVE  Agrees(s)'
<1> SUFFICES ASSUME pc'[s] \in {"list", "consume", "resolve"}, op'[s].kind # "proof"
             PROVE  Agrees(s)'
  BY DEF Agrees
<1>1. row' = row /\ groups' = groups /\ op'[s] = op[s] /\ plan'[s] = plan[s] /\ stale'[s] = stale[s]
  BY DEF tables
<1>2. Pending(plan[s].todo)' = Pending(plan[s].todo)
  BY <1>1 DEF Pending, GroupMembers
<1>3. editMemberCommitments(row[op[s].doc])' = editMemberCommitments(row[op[s].doc])
  BY <1>1 DEF editMemberCommitments, EditRoutes, GroupMembers, membersForRole, Holders
<1>4. QED BY <1>1, <1>2, <1>3 DEF AgreeInv, Agrees

\* An update makes whatever is known by requests in progress stale.
LEMMA AgreeUpdate ==
  ASSUME TypeOK, AgreeInv, Update
  PROVE  AgreeInv'
<1> SUFFICES ASSUME NEW s \in Requests PROVE Agrees(s)'
  BY DEF AgreeInv
<1>1. stale'[s] = (pc[s] # "idle") /\ pc'[s] = pc[s] /\ op'[s] = op[s] /\ plan'[s] = plan[s]
  BY DEF Update, requestVars
<1>2. QED BY <1>1 DEF AgreeInv, Agrees

\* A request that answers, or that goes on with what it knows.
LEMMA AgreeAnswer ==
  ASSUME TypeOK, AgreeInv, UNCHANGED tables, NEW r \in Requests, NEW rep, Answer(r, rep)
  PROVE  AgreeInv'
<1>1. ASSUME NEW s \in Requests
      PROVE  pc'[s] \in {"list", "consume", "resolve"} =>
               /\ pc[s] \in {"list", "consume", "resolve"} /\ op'[s] = op[s]
               /\ plan'[s] = plan[s] /\ stale'[s] = stale[s]
  BY DEF Answer, TypeOK, RequestTypeOK
<1>2. QED BY <1>1, AgreeFrame DEF AgreeInv

\* The nonce calls do not touch what is known of the members.
LEMMA AgreeProceed ==
  ASSUME TypeOK, AgreeInv, UNCHANGED tables, NEW r \in Requests,
         pc[r] \in {"list", "consume"},
         Proceed(r, "consume", plan[r]) \/ Proceed(r, "resolve", plan[r])
  PROVE  AgreeInv'
<1>1. ASSUME NEW s \in Requests
      PROVE  pc'[s] \in {"list", "consume", "resolve"} =>
               /\ pc[s] \in {"list", "consume", "resolve"} /\ op'[s] = op[s]
               /\ plan'[s] = plan[s] /\ stale'[s] = stale[s]
  BY DEF Proceed, TypeOK, RequestTypeOK
<1>2. QED BY <1>1, AgreeFrame DEF AgreeInv

\* When the row is read, the members found are its own and the groups are pending.
LEMMA AgreeReadRow ==
  ASSUME TypeOK, AgreeInv, NEW r \in Requests, ReadRow(r)
  PROVE  AgreeInv'
<1> DEFINE rw == row[op[r].doc]
           first == [row |-> rw, matched |-> {},
                     todo |-> IF op[r].kind = "proof" THEN rw.routes ELSE EditRoutes(rw),
                     union |-> In(membersForRole(rw, "edit"))]
<1>1. UNCHANGED tables
  BY DEF ReadRow, GoOnWith
<1>2. CASE \E rep : Answer(r, rep)
  BY <1>1, <1>2, AgreeAnswer
<1>3. CASE /\ plan' = [plan EXCEPT ![r] = first]
           /\ UNCHANGED <<op, reply>>
           /\ \A s \in Requests \ {r} : pc'[s] = pc[s] /\ stale'[s] = stale[s]
  <2>1. ASSUME NEW s \in Requests \ {r} PROVE Agrees(s)'
    <3>1. pc'[s] = pc[s] /\ op'[s] = op[s] /\ plan'[s] = plan[s] /\ stale'[s] = stale[s]
      BY <1>3, <2>1 DEF TypeOK, RequestTypeOK
    <3>2. QED BY <1>1, <2>1, <3>1, AgreeFrame
  <2>2. Agrees(r)'
    <3>1. plan'[r] = first /\ op'[r] = op[r] /\ row' = row /\ groups' = groups
      BY <1>1, <1>3 DEF TypeOK, RequestTypeOK, tables
    <3>2. op[r].kind # "proof" => first.todo = EditRoutes(rw)
      OBVIOUS
    <3>3. first.union \cup Pending(EditRoutes(rw)) = editMemberCommitments(rw)
      BY DEF Pending, editMemberCommitments
    <3>4. Pending(EditRoutes(rw))' = Pending(EditRoutes(rw))
          /\ editMemberCommitments(rw)' = editMemberCommitments(rw)
      BY <3>1 DEF Pending, EditRoutes, GroupMembers, editMemberCommitments, membersForRole, Holders
    <3>5. \A route \in EditRoutes(rw) : route.ref # Own
      BY DEF EditRoutes
    <3> HIDE DEF first
    <3>6. Pending(plan[r].todo)' = Pending(first.todo)
      BY <3>1 DEF Pending, GroupMembers
    <3>7. editMemberCommitments(row[op[r].doc])' = editMemberCommitments(rw)
      BY <3>1 DEF editMemberCommitments, EditRoutes, GroupMembers, membersForRole, Holders
    <3>8. QED BY <3>1, <3>2, <3>3, <3>5, <3>6, <3>7 DEF Agrees
  <2>3. QED BY <2>1, <2>2 DEF AgreeInv
<1>4. CASE ~\E rep : Answer(r, rep)
  <2>1. /\ plan' = [plan EXCEPT ![r] = first]
        /\ UNCHANGED <<op, reply>>
        /\ stale' = [stale EXCEPT ![r] = FALSE]
        /\ \E step : pc' = [pc EXCEPT ![r] = step]
    BY <1>4 DEF ReadRow, GoOnWith, Refuse
  <2>2. \A s \in Requests \ {r} : pc'[s] = pc[s] /\ stale'[s] = stale[s]
    BY <2>1 DEF TypeOK, RequestTypeOK
  <2>3. QED BY <1>3, <2>1, <2>2
<1>5. QED BY <1>2, <1>4

\* Reading the next group moves its members from those pending to those found.
LEMMA AgreeResolve ==
  ASSUME TypeOK, AgreeInv, NEW r \in Requests, Resolve(r)
  PROVE  AgreeInv'
<1>1. UNCHANGED tables
  BY DEF Resolve
<1>found. PICK route \in plan[r].todo : \E what :
            /\ Proceed(r, "resolve", what)
            /\ op[r].kind # "proof" =>
                 what = [plan[r] EXCEPT !.todo = @ \ {route},
                                        !.union = @ \cup In(ListOf(plan[r].row, route))]
  <2>1. PICK route \in plan[r].todo :
          LET rest == [plan[r] EXCEPT !.todo = @ \ {route}]
              list == ListOf(plan[r].row, route)
          IN \/ /\ op[r].kind = "proof"
                /\ Proceed(r, "resolve", IF list = op[r].root
                                         THEN [rest EXCEPT !.matched = @ \cup {route.role}] ELSE rest)
             \/ /\ op[r].kind # "proof"
                /\ Proceed(r, "resolve", [rest EXCEPT !.union = @ \cup In(list)])
    BY DEF Resolve
  <2>2. CASE op[r].kind = "proof"
    BY <2>1, <2>2
  <2>3. CASE op[r].kind # "proof"
    <3> DEFINE rest == [plan[r] EXCEPT !.todo = @ \ {route}]
               what == [rest EXCEPT !.union = @ \cup In(ListOf(plan[r].row, route))]
    <3>1. Proceed(r, "resolve", what)
      BY <2>1, <2>3
    <3>2. plan[r] \in Plan
      BY DEF TypeOK, RequestTypeOK
    <3>3. what = [plan[r] EXCEPT !.todo = @ \ {route},
                                 !.union = @ \cup In(ListOf(plan[r].row, route))]
      BY <3>2 DEF Plan
    <3>4. QED BY <3>1, <3>3
  <2>4. QED BY <2>2, <2>3
<1>2. PICK what :
        /\ Proceed(r, "resolve", what)
        /\ op[r].kind # "proof" =>
             what = [plan[r] EXCEPT !.todo = @ \ {route},
                                    !.union = @ \cup In(ListOf(plan[r].row, route))]
  BY <1>found
<1>3. pc[r] = "resolve" /\ plan[r] \in Plan
  BY DEF Resolve, TypeOK, RequestTypeOK
<1>4. /\ pc'[r] = "resolve" /\ plan'[r] = what /\ op' = op /\ stale' = stale
      /\ \A s \in Requests \ {r} : pc'[s] = pc[s] /\ plan'[s] = plan[s]
  BY <1>2 DEF Proceed, TypeOK, RequestTypeOK
<1>5. ASSUME NEW s \in Requests \ {r} PROVE Agrees(s)'
  BY <1>1, <1>4, <1>5, AgreeFrame
<1>6. Agrees(r)'
  <2>1. CASE op[r].kind = "proof"
    BY <1>4, <2>1 DEF Agrees
  <2>2. CASE op[r].kind # "proof"
    <3>1. \A x \in plan[r].todo : x.ref # Own
      BY <1>3, <2>2 DEF AgreeInv, Agrees
    <3>2. what.todo = plan[r].todo \ {route}
          /\ what.union = plan[r].union \cup In(GroupMembers(route.ref))
      BY <1>2, <1>3, <2>2, <3>1 DEF Plan, ListOf
    <3>3. what.union \cup Pending(what.todo) = plan[r].union \cup Pending(plan[r].todo)
      BY <3>2 DEF Pending
    <3>4. row' = row /\ groups' = groups
      BY <1>1 DEF tables
    <3>5. Pending(plan[r].todo)' = Pending(what.todo)
      BY <1>4, <3>4 DEF Pending, GroupMembers
    <3>6. editMemberCommitments(row[op[r].doc])' = editMemberCommitments(row[op[r].doc])
      BY <1>4, <3>4 DEF editMemberCommitments, EditRoutes, GroupMembers, membersForRole, Holders
    <3>7. QED BY <1>3, <1>4, <2>2, <3>1, <3>2, <3>3, <3>5, <3>6 DEF AgreeInv, Agrees
  <2>3. QED BY <2>1, <2>2
<1>7. QED BY <1>5, <1>6 DEF AgreeInv

\* Every step keeps the account of the edit members.
LEMMA AgreeNext == TypeOK /\ AgreeInv /\ [Next]_vars => AgreeInv'
<1> SUFFICES ASSUME TypeOK, AgreeInv, [Next]_vars PROVE AgreeInv'
  OBVIOUS
<1>1. CASE Update
  BY <1>1, AgreeUpdate
<1>2. CASE \E n \in Nonces : Expire(n) \/ Sweep(n)
  <2>1. UNCHANGED tables /\ pc' = pc /\ op' = op /\ plan' = plan /\ stale' = stale
    BY <1>2 DEF Expire, Sweep, requestVars
  <2>2. QED BY <2>1, AgreeFrame DEF AgreeInv
<1>3. CASE UNCHANGED vars
  <2>1. UNCHANGED tables /\ pc' = pc /\ op' = op /\ plan' = plan /\ stale' = stale
    BY <1>3 DEF vars, requestVars
  <2>2. QED BY <2>1, AgreeFrame DEF AgreeInv
<1>4. ASSUME NEW r \in Requests, Submit(r) PROVE AgreeInv'
  <2>1. UNCHANGED tables
    BY <1>4 DEF Submit
  <2>2. ASSUME NEW s \in Requests
        PROVE  pc'[s] \in {"list", "consume", "resolve"} =>
                 /\ pc[s] \in {"list", "consume", "resolve"} /\ op'[s] = op[s]
                 /\ plan'[s] = plan[s] /\ stale'[s] = stale[s]
    BY <1>4 DEF Submit, TypeOK, RequestTypeOK
  <2>3. QED BY <2>1, <2>2, AgreeFrame DEF AgreeInv
<1>5. ASSUME NEW r \in Requests, Step(r) PROVE AgreeInv'
  <2>1. CASE ReadRow(r)
    BY <2>1, AgreeReadRow
  <2>2. CASE Resolve(r)
    BY <2>2, AgreeResolve
  <2>3. CASE UNCHANGED tables /\ \E rep : Answer(r, rep)
    BY <2>3, AgreeAnswer
  <2>4. CASE /\ UNCHANGED tables /\ pc[r] \in {"list", "consume"}
             /\ Proceed(r, "consume", plan[r]) \/ Proceed(r, "resolve", plan[r])
    BY <2>4, AgreeProceed
  <2>5. QED
    BY <1>5, <2>1, <2>2, <2>3, <2>4
       DEF Step, IssueNonce, ListNonces, ConsumeNonce, Passed, ReleaseByProof, ReleaseBySignature,
           AnswerPoll, DatabaseError, Refuse
<1>6. QED BY <1>1, <1>2, <1>3, <1>4, <1>5 DEF Next

\* At the answer nothing is pending, so what was found is the edit union.
LEMMA AgreeOnEditStep == TypeOK /\ AgreeInv /\ [Next]_vars => AgreeOnEdit
<1> SUFFICES ASSUME TypeOK, AgreeInv, [Next]_vars, NEW r \in Requests,
                    pc[r] = "resolve", ~stale[r], op[r].kind \in {"signature", "editBound"},
                    pc'[r] = "idle", reply'[r].kind \in {"granted", "invalid-proof", "bound"}
             PROVE  /\ op[r].kind = "signature" => SignatureAgrees(r)
                    /\ op[r].kind = "editBound" => PollAgrees(r)
  BY DEF AgreeOnEdit, SignatureAgrees, PollAgrees, Answers
<1>1. Step(r)
  BY AnsweredByOwnStep
<1>2. \A kind : Refuse(r, kind) => reply'[r].kind = kind
  BY RefuseSeen
<1>3. \A rep : Answer(r, rep) => reply'[r] = rep
  BY AnswerSeen
<1>4. ReleaseBySignature(r) \/ AnswerPoll(r)
  <2>1. ~DatabaseError(r)
    BY <1>2 DEF DatabaseError
  <2>2. ~Resolve(r)
    <3>1. \A what : ~Proceed(r, "resolve", what)
      BY ProceedSeen
    <3>2. QED BY <3>1 DEF Resolve
  <2>3. QED
    BY <1>1, <2>1, <2>2
       DEF Step, ReadRow, GoOnWith, IssueNonce, ListNonces, ConsumeNonce, ReleaseByProof
<1>5. plan[r].todo = {} => plan[r].union = editMemberCommitments(row[op[r].doc])
  BY DEF AgreeInv, Agrees, Pending
<1>6. CASE ReleaseBySignature(r)
  <2>1. CASE op[r].signer \notin plan[r].union /\ Refuse(r, "invalid-proof")
    BY <1>2, <1>5, <1>6, <2>1 DEF ReleaseBySignature, SignatureAgrees, Answers
  <2>2. CASE /\ op[r].signer \in plan[r].union
             /\ Answer(r, Reply("granted", "edit", plan[r].row.epoch, {}))
    <3>1. reply'[r].kind = "granted"
      BY <1>3, <2>2 DEF Reply
    <3>2. QED BY <1>5, <1>6, <2>2, <3>1 DEF ReleaseBySignature, SignatureAgrees, Answers
  <2>3. QED BY <1>6, <2>1, <2>2 DEF ReleaseBySignature
<1>7. CASE AnswerPoll(r)
  <2>1. reply'[r].bound = plan[r].union
    BY <1>3, <1>7 DEF AnswerPoll, Reply
  <2>2. QED BY <1>5, <1>7, <2>1 DEF AnswerPoll, PollAgrees
<1>8. QED BY <1>4, <1>6, <1>7

\* Minting an edit credential and polling the edit bound give one answer when
\* nothing changed while they read.
THEOREM AgreeCorrect == Spec => MintAndPollAgree
BY TypeInit, TypeNext, AgreeInit, AgreeNext, AgreeOnEditStep, PTL DEF Spec, MintAndPollAgree

----------------------------------------------------------------------------
(* Grants.  With groups the property fails: a release reads its row and its *)
(* groups at different instants.  Without groups everything it decides on   *)
(* is the row it read.                                                      *)

OwnHeld(d) == row[d] # NoRow => OwnRights(row[d]) \subseteq held[d]
Known(r) ==
  pc[r] \in {"list", "consume", "resolve"} =>
    /\ OwnRights(plan[r].row) \subseteq held[op[r].doc]
    /\ op[r].kind = "proof" =>
         \A role \in plan[r].matched : op[r].root = membersForRole(plan[r].row, role)
    /\ op[r].kind # "proof" =>
         plan[r].todo = {} /\ plan[r].union = In(membersForRole(plan[r].row, "edit"))
GrantInv ==
  /\ \A d \in Docs : OwnHeld(d)
  /\ \A r \in Requests : Known(r)

\* There is no row and no request to know one.
LEMMA GrantInit == Init => GrantInv
BY DEF Init, GrantInv, OwnHeld, Known

\* A member of the list of a role has a binding at that role.
LEMMA MemberHasRight ==
  ASSUME NEW rw, NEW role, NEW c \in In(membersForRole(rw, role))
  PROVE  <<c, role, rw.epoch>> \in OwnRights(rw)
<1>1. c \in Holders(rw, role)
  BY DEF In, membersForRole
<1>2. PICK b \in rw.bindings : b.role = role /\ b.commitment = c
  BY <1>1 DEF Holders
<1>3. QED BY <1>2 DEF OwnRights

\* A request without a step of its own knows what it knew.
LEMMA GrantFrame ==
  ASSUME GrantInv, row' = row, held' = held, NEW s \in Requests,
         pc'[s] \in {"list", "consume", "resolve"} =>
           pc[s] \in {"list", "consume", "resolve"} /\ op'[s] = op[s] /\ plan'[s] = plan[s]
  PROVE  Known(s)'
<1> SUFFICES ASSUME pc'[s] \in {"list", "consume", "resolve"} PROVE Known(s)'
  BY DEF Known
<1>1. op'[s] = op[s] /\ plan'[s] = plan[s] /\ pc[s] \in {"list", "consume", "resolve"}
  OBVIOUS
<1>2. OwnRights(plan[s].row)' = OwnRights(plan[s].row)
  BY <1>1 DEF OwnRights
<1>3. \A role : membersForRole(plan[s].row, role)' = membersForRole(plan[s].row, role)
  BY <1>1 DEF membersForRole, Holders
<1>4. QED BY <1>1, <1>2, <1>3 DEF GrantInv, Known, In

\* Rows that do not change stay in the history.
LEMMA GrantTables ==
  ASSUME GrantInv, row' = row, held' = held
  PROVE  \A d \in Docs : OwnHeld(d)'
BY DEF GrantInv, OwnHeld, OwnRights

\* What somebody held stays in the history, and the rows of the tables are in it.
LEMMA GrantUpdate ==
  ASSUME TypeOK, GrantInv, Update
  PROVE  GrantInv'
<1>1. \A d \in Docs : held[d] \subseteq held'[d] /\ RightsIn(row[d])' \subseteq held'[d]
  BY DEF Update
<1>2. \A d \in Docs : OwnHeld(d)'
  BY <1>1 DEF OwnHeld, RightsIn
<1>3. ASSUME NEW s \in Requests PROVE Known(s)'
  <2>1. pc' = pc /\ op' = op /\ plan' = plan
    BY DEF Update, requestVars
  <2>2. SUFFICES ASSUME pc[s] \in {"list", "consume", "resolve"} PROVE Known(s)'
    BY <2>1 DEF Known
  <2>3. op[s].doc \in Docs
    BY <2>2, OperationShape DEF TypeOK, FlowOK
  <2>4. OwnRights(plan[s].row) \subseteq held[op[s].doc]
    BY <2>2 DEF GrantInv, Known
  <2>5. OwnRights(plan[s].row)' \subseteq held'[op[s].doc]
    BY <1>1, <2>1, <2>3, <2>4 DEF OwnRights
  <2>6. QED BY <2>1, <2>2, <2>5 DEF GrantInv, Known, membersForRole, Holders
<1>4. QED BY <1>2, <1>3 DEF GrantInv

\* An answered request knows nothing; the others know what they knew.
LEMMA GrantAnswer ==
  ASSUME TypeOK, GrantInv, row' = row, held' = held, NEW r \in Requests, NEW rep, Answer(r, rep)
  PROVE  GrantInv'
<1>1. ASSUME NEW s \in Requests
      PROVE  pc'[s] \in {"list", "consume", "resolve"} =>
               pc[s] \in {"list", "consume", "resolve"} /\ op'[s] = op[s] /\ plan'[s] = plan[s]
  BY DEF Answer, TypeOK, RequestTypeOK
<1>2. QED BY <1>1, GrantFrame, GrantTables DEF GrantInv

\* The nonce calls do not touch what is known of the row.
LEMMA GrantProceed ==
  ASSUME TypeOK, GrantInv, row' = row, held' = held, NEW r \in Requests,
         pc[r] \in {"list", "consume"},
         Proceed(r, "consume", plan[r]) \/ Proceed(r, "resolve", plan[r])
  PROVE  GrantInv'
<1>1. ASSUME NEW s \in Requests
      PROVE  pc'[s] \in {"list", "consume", "resolve"} =>
               pc[s] \in {"list", "consume", "resolve"} /\ op'[s] = op[s] /\ plan'[s] = plan[s]
  BY DEF Proceed, TypeOK, RequestTypeOK
<1>2. QED BY <1>1, GrantFrame, GrantTables DEF GrantInv

\* The row that a request reads is in the history of its document.
LEMMA GrantReadRow ==
  ASSUME Groups = {}, TypeOK, GrantInv, NEW r \in Requests, ReadRow(r)
  PROVE  GrantInv'
<1> DEFINE rw == row[op[r].doc]
           first == [row |-> rw, matched |-> {},
                     todo |-> IF op[r].kind = "proof" THEN rw.routes ELSE EditRoutes(rw),
                     union |-> In(membersForRole(rw, "edit"))]
<1>1. row' = row /\ held' = held
  BY DEF ReadRow, GoOnWith, tables
<1>2. CASE \E rep : Answer(r, rep)
  BY <1>1, <1>2, GrantAnswer
<1>3. CASE ~\E rep : Answer(r, rep)
  <2>1. /\ plan' = [plan EXCEPT ![r] = first]
        /\ op' = op /\ rw # NoRow /\ pc[r] = "read"
        /\ \E step : pc' = [pc EXCEPT ![r] = step]
    BY <1>3 DEF ReadRow, GoOnWith, Refuse
  <2>2. ASSUME NEW s \in Requests \ {r} PROVE Known(s)'
    <3>1. pc'[s] = pc[s] /\ op'[s] = op[s] /\ plan'[s] = plan[s]
      BY <2>1 DEF TypeOK, RequestTypeOK
    <3>2. QED BY <1>1, <3>1, GrantFrame
  <2>3. Known(r)'
    <3>1. plan'[r] = first /\ op'[r] = op[r]
      BY <2>1 DEF TypeOK, RequestTypeOK
    <3>2. op[r].doc \in Docs
      BY <2>1, OperationShape DEF TypeOK, FlowOK
    <3>3. OwnRights(rw) \subseteq held[op[r].doc]
      BY <2>1, <3>2 DEF GrantInv, OwnHeld
    <3>4. EditRoutes(rw) = {}
      <4>1. rw \in Row
        BY <2>1, <3>2 DEF TypeOK, TableTypeOK
      <4>2. \A route \in rw.routes : route.ref = Own
        BY <4>1 DEF Row, Route
      <4>3. QED BY <4>2 DEF EditRoutes
    <3>5. /\ first.row = rw /\ first.matched = {}
          /\ first.union = In(membersForRole(rw, "edit"))
          /\ op[r].kind # "proof" => first.todo = {}
      BY <3>4
    <3> HIDE DEF first, rw
    <3>6. OwnRights(plan[r].row)' = OwnRights(rw)
          /\ membersForRole(plan[r].row, "edit")' = membersForRole(rw, "edit")
      BY <3>1, <3>5 DEF OwnRights, membersForRole, Holders
    <3>7. In(membersForRole(plan[r].row, "edit"))' = In(membersForRole(rw, "edit"))
      BY <3>6 DEF In
    <3>8. QED BY <1>1, <3>1, <3>3, <3>5, <3>6, <3>7 DEF Known
  <2>4. QED BY <1>1, <2>2, <2>3, GrantTables DEF GrantInv
<1>4. QED BY <1>2, <1>3

\* A root that a route matched is the root of the row's own list of that role.
LEMMA GrantResolve ==
  ASSUME Groups = {}, TypeOK, GrantInv, NEW r \in Requests, Resolve(r)
  PROVE  GrantInv'
<1>1. row' = row /\ held' = held /\ pc[r] = "resolve" /\ plan[r] \in Plan
  BY DEF Resolve, tables, TypeOK, RequestTypeOK
<1>2. op[r].kind = "proof"
  BY <1>1 DEF GrantInv, Known, Resolve
<1>3. PICK route \in plan[r].todo :
        Proceed(r, "resolve",
                IF ListOf(plan[r].row, route) = op[r].root
                THEN [[plan[r] EXCEPT !.todo = @ \ {route}] EXCEPT !.matched = @ \cup {route.role}]
                ELSE [plan[r] EXCEPT !.todo = @ \ {route}])
  BY <1>2 DEF Resolve
<1> DEFINE what ==
      IF ListOf(plan[r].row, route) = op[r].root
      THEN [[plan[r] EXCEPT !.todo = @ \ {route}] EXCEPT !.matched = @ \cup {route.role}]
      ELSE [plan[r] EXCEPT !.todo = @ \ {route}]
<1>4. route.ref = Own
  BY <1>1, <1>3 DEF Plan, Route
<1>5. /\ what.row = plan[r].row
      /\ \A role \in what.matched \ plan[r].matched :
           op[r].root = membersForRole(plan[r].row, role)
  BY <1>1, <1>4 DEF Plan, ListOf
<1>6. Proceed(r, "resolve", what)
  BY <1>3
<1> HIDE DEF what
<1>7. /\ pc'[r] = "resolve" /\ plan'[r] = what /\ op' = op
      /\ \A s \in Requests \ {r} : pc'[s] = pc[s] /\ plan'[s] = plan[s]
  BY <1>6 DEF Proceed, TypeOK, RequestTypeOK
<1>8. ASSUME NEW s \in Requests \ {r} PROVE Known(s)'
  BY <1>1, <1>7, GrantFrame
<1>9. Known(r)'
  <2>1. OwnRights(plan[r].row)' = OwnRights(plan[r].row)
    BY <1>5, <1>7 DEF OwnRights
  <2>2. \A role \in what.matched : op[r].root = membersForRole(plan[r].row, role)
    BY <1>1, <1>2, <1>5 DEF GrantInv, Known
  <2>3. \A role \in what.matched : membersForRole(plan[r].row, role)' = membersForRole(plan[r].row, role)
    BY <1>5, <1>7 DEF membersForRole, Holders
  <2>4. OwnRights(plan[r].row) \subseteq held[op[r].doc]
    BY <1>1 DEF GrantInv, Known
  <2>5. QED BY <1>1, <1>2, <1>7, <2>1, <2>2, <2>3, <2>4 DEF Known
<1>10. QED BY <1>1, <1>8, <1>9, GrantTables DEF GrantInv

\* Every step keeps it, when there are no groups.
LEMMA GrantNext == Groups = {} => (TypeOK /\ GrantInv /\ [Next]_vars => GrantInv')
<1> SUFFICES ASSUME Groups = {}, TypeOK, GrantInv, [Next]_vars PROVE GrantInv'
  OBVIOUS
<1>1. CASE Update
  BY <1>1, GrantUpdate
<1>2. CASE (\E n \in Nonces : Expire(n) \/ Sweep(n)) \/ UNCHANGED vars
  <2>1. row' = row /\ held' = held /\ pc' = pc /\ op' = op /\ plan' = plan
    BY <1>2 DEF Expire, Sweep, vars, tables, requestVars
  <2>2. QED BY <2>1, GrantFrame, GrantTables DEF GrantInv
<1>3. ASSUME NEW r \in Requests, Submit(r) PROVE GrantInv'
  <2>1. row' = row /\ held' = held
    BY <1>3 DEF Submit, tables
  <2>2. ASSUME NEW s \in Requests
        PROVE  pc'[s] \in {"list", "consume", "resolve"} =>
                 pc[s] \in {"list", "consume", "resolve"} /\ op'[s] = op[s] /\ plan'[s] = plan[s]
    BY <1>3 DEF Submit, TypeOK, RequestTypeOK
  <2>3. QED BY <2>1, <2>2, GrantFrame, GrantTables DEF GrantInv
<1>4. ASSUME NEW r \in Requests, Step(r) PROVE GrantInv'
  <2>1. CASE ReadRow(r)
    BY <2>1, GrantReadRow
  <2>2. CASE Resolve(r)
    BY <2>2, GrantResolve
  <2>3. CASE row' = row /\ held' = held /\ \E rep : Answer(r, rep)
    BY <2>3, GrantAnswer
  <2>4. CASE /\ row' = row /\ held' = held /\ pc[r] \in {"list", "consume"}
             /\ Proceed(r, "consume", plan[r]) \/ Proceed(r, "resolve", plan[r])
    BY <2>4, GrantProceed
  <2>5. QED
    BY <1>4, <2>1, <2>2, <2>3, <2>4
       DEF Step, IssueNonce, ListNonces, ConsumeNonce, Passed, ReleaseByProof, ReleaseBySignature,
           AnswerPoll, DatabaseError, Refuse, tables
<1>5. QED BY <1>1, <1>2, <1>3, <1>4 DEF Next

\* A grant is of a role that the row read first gives to the signer.
LEMMA GrantHeldStep == TypeOK /\ GrantInv /\ [Next]_vars => GrantHeld
<1> SUFFICES ASSUME TypeOK, GrantInv, [Next]_vars, NEW r \in Requests,
                    pc[r] # "idle", pc'[r] = "idle", reply'[r].kind = "granted"
             PROVE  <<op[r].signer, reply'[r].role, reply'[r].epoch>> \in held[op[r].doc]
  BY DEF GrantHeld, Answers
<1>1. Step(r)
  BY AnsweredByOwnStep
<1>2. \A kind : Refuse(r, kind) => kind = "granted"
  BY RefuseSeen
<1>3. \A rep : Answer(r, rep) => reply'[r] = rep
  BY AnswerSeen
<1>4. \A what : ~Proceed(r, "consume", what) /\ ~Proceed(r, "resolve", what)
  BY ProceedSeen
<1>5. CASE ReleaseByProof(r)
  <2>1. /\ plan[r].matched # {} /\ op[r].valid /\ pc[r] = "resolve" /\ op[r].kind = "proof"
        /\ Answer(r, Reply("granted", MaxRole(plan[r].matched), plan[r].row.epoch, {}))
    BY <1>2, <1>5 DEF ReleaseByProof
  <2>2. reply'[r].role = MaxRole(plan[r].matched) /\ reply'[r].epoch = plan[r].row.epoch
    BY <1>3, <2>1 DEF Reply
  <2>3. MaxRole(plan[r].matched) \in plan[r].matched
    BY <2>1, MaxRoleIn DEF TypeOK, RequestTypeOK, Plan
  <2>4. op[r].root = membersForRole(plan[r].row, MaxRole(plan[r].matched))
        /\ OwnRights(plan[r].row) \subseteq held[op[r].doc]
    BY <2>1, <2>3 DEF GrantInv, Known
  <2>5. op[r].signer \in In(op[r].root)
    BY <2>1, ReleaseOperationsAssumption DEF TypeOK, FlowOK
  <2>6. <<op[r].signer, MaxRole(plan[r].matched), plan[r].row.epoch>> \in OwnRights(plan[r].row)
    BY <2>4, <2>5, MemberHasRight
  <2>7. QED BY <2>2, <2>4, <2>6
<1>6. CASE ReleaseBySignature(r)
  <2>1. /\ op[r].signer \in plan[r].union /\ pc[r] = "resolve" /\ op[r].kind = "signature"
        /\ Answer(r, Reply("granted", "edit", plan[r].row.epoch, {}))
    BY <1>2, <1>6 DEF ReleaseBySignature
  <2>2. reply'[r].role = "edit" /\ reply'[r].epoch = plan[r].row.epoch
    BY <1>3, <2>1 DEF Reply
  <2>3. op[r].signer \in In(membersForRole(plan[r].row, "edit"))
        /\ OwnRights(plan[r].row) \subseteq held[op[r].doc]
    BY <2>1 DEF GrantInv, Known
  <2>4. <<op[r].signer, "edit", plan[r].row.epoch>> \in OwnRights(plan[r].row)
    BY <2>3, MemberHasRight
  <2>5. QED BY <2>2, <2>3, <2>4
<1>7. ~AnswerPoll(r)
  BY <1>3 DEF AnswerPoll, Reply
<1>8. ~ReadRow(r)
  <2>1. ~Answer(r, Reply("bound", NoRole, 0, {}))
    BY <1>3 DEF Reply
  <2>2. QED BY <1>2, <2>1 DEF ReadRow, GoOnWith, TypeOK, RequestTypeOK
<1>9. ~DatabaseError(r) /\ ~IssueNonce(r) /\ ~ListNonces(r) /\ ~ConsumeNonce(r) /\ ~Resolve(r)
  <2>1. ~Answer(r, Reply("nonce", NoRole, 0, {}))
    BY <1>3 DEF Reply
  <2>2. QED
    BY <1>2, <1>4, <2>1 DEF DatabaseError, IssueNonce, ListNonces, ConsumeNonce, Passed, Resolve
<1>10. QED BY <1>1, <1>5, <1>6, <1>7, <1>8, <1>9 DEF Step

\* Without groups, whoever is granted shares held the role at the epoch of the
\* shares, at one instant, whatever happens to the document meanwhile.
THEOREM GrantCorrect == Groups = {} => (Spec => GrantHeldAtOnce)
<1> SUFFICES ASSUME Groups = {} PROVE Spec => GrantHeldAtOnce
  OBVIOUS
<1>1. TypeOK /\ GrantInv /\ [Next]_vars => GrantInv'
  BY GrantNext
<1>2. QED BY <1>1, TypeInit, TypeNext, GrantInit, GrantHeldStep, PTL DEF Spec, GrantHeldAtOnce
==============================================================================
