---------------------------- MODULE GateRelease ----------------------------
(***************************************************************************)
(* Challenge and release: /gate/challenge, /gate/release by Semaphore      *)
(* proof and by edit signature, and the poll of /doc/:docId/edit-bound,    *)
(* over documents and groups that change meanwhile.                        *)
(*                                                                         *)
(* Every pc value is a point where a handler has awaited the database.     *)
(* The membership and routing handlers are modules of their own; each of   *)
(* their updates is one atomic step here, as it is in MongoDB.  What only  *)
(* cryptography decides comes with the request: whether its proof or       *)
(* signature verifies, and who made it.  A commitment stands for its edit  *)
(* handle, and a Merkle root for the list it is computed from.             *)
(*                                                                         *)
(* The member lists hold nobody twice (GateMembership), so a list is kept  *)
(* as its order: the pairs of which the first comes no later than the      *)
(* second.  Two lists are equal, and have one root, when they have the     *)
(* same order; filtering one keeps the pairs of those who pass.            *)
(***************************************************************************)
EXTENDS Integers, FiniteSets, GateRoles

CONSTANTS Docs, Groups, Commitments, Nonces,
          Own,           \* the groupRef that is the document itself
          NoRow,         \* no such gate_docs row
          NoGroup,       \* no such gate_groups row
          NoDoc,         \* a nonce nobody issued has no document
          Requests,      \* slots for requests in flight
          Operations,    \* what a request may ask for
          Updates,       \* which updates by others happen, and whether nonces expire
          Roles,         \* the roles they name
          Epochs         \* the epochs they name

Binding == [commitment : Commitments, role : GateRole]
Route == [ref : Groups \cup {Own}, role : GateRole]
List == SUBSET (Commitments \X Commitments)
NoList == {}
Row == [epoch : Nat, members : List, bindings : SUBSET Binding, routes : SUBSET Route]

Challenges == [kind : {"challenge"}, doc : Docs]
\* The proof names a document, a nonce and a root; signer is who made it.
Proofs     == [kind : {"proof"}, doc : Docs, scope : Docs, nonce : Nonces,
               root : List, signer : Commitments, valid : BOOLEAN]
Signatures == [kind : {"signature"}, doc : Docs, nonce : Nonces,
               signer : Commitments, valid : BOOLEAN]
Polls      == [kind : {"editBound"}, doc : Docs]

In(list) == {p[1] : p \in list}

\* A proof that verifies was made by a member of the list its root is of.
ASSUME ReleaseOperationsAssumption ==
  /\ Operations \subseteq Challenges \cup Proofs \cup Signatures \cup Polls
  /\ \A o \in Operations : o.kind = "proof" => o.root # NoList /\ (o.valid => o.signer \in In(o.root))
ASSUME ReleaseConstantsAssumption ==
  /\ Roles \subseteq GateRole /\ Epochs \subseteq Nat \ {0}
  /\ Own \notin Groups /\ NoDoc \notin Docs /\ NoRow \notin Row /\ \A list \in List : list # NoGroup

VARIABLES
  row, groups,           \* gate_docs, gate_groups
  issuedFor, age,        \* gate_nonces
  pc, op, plan, reply,   \* the requests in flight
  \* history: releases that got past each nonce; who held which role of a
  \* document at which epoch; the tables changed since the request read its row
  passed, held, stale

tables == <<row, groups>>
nonceVars == <<issuedFor, age>>
requestVars == <<pc, op, plan, reply>>
vars == <<tables, nonceVars, requestVars, passed, held, stale>>

NoOp == [kind |-> "none"]
\* What a release remembers: its row, the routes still to resolve, the roles at
\* which its root was found, and the edit members found.
NoPlan == [row |-> NoRow, todo |-> {}, matched |-> {}, union |-> {}]
Plan == [row : Row \cup {NoRow}, todo : SUBSET Route, matched : SUBSET GateRole,
         union : SUBSET Commitments]
ReplyKind == {"none", "unknown-doc", "nonce", "scope-mismatch", "nonce-not-live", "stale-root",
              "invalid-proof", "granted", "bound", "error"}
Reply(kind, role, epoch, bound) ==
  [kind |-> kind, role |-> role, epoch |-> epoch, bound |-> bound]
NoReply == Reply("none", NoRole, 0, {})

----------------------------------------------------------------------------
(* Lists and roots. *)

\* The commitments that have a binding at the role, in the order of the list.
Holders(rw, role) == {b.commitment : b \in {x \in rw.bindings : x.role = role}}
membersForRole(rw, role) == rw.members \cap (Holders(rw, role) \X Holders(rw, role))

\* A group whose row is gone contributes nobody.
GroupMembers(g) == IF groups[g] = NoGroup THEN NoList ELSE groups[g]

ListOf(rw, route) == IF route.ref = Own THEN membersForRole(rw, route.role)
                                        ELSE GroupMembers(route.ref)

EditRoutes(rw) == {route \in rw.routes : route.role = "edit" /\ route.ref # Own}

\* The edit union, as it is when everything is read at once.
editMemberCommitments(rw) ==
  In(membersForRole(rw, "edit")) \cup UNION {In(GroupMembers(route.ref)) : route \in EditRoutes(rw)}

\* Who holds which role of the document, and at which epoch: by a binding, or
\* as a member of an attached group.
OwnRights(rw) == {<<b.commitment, b.role, rw.epoch>> : b \in rw.bindings}
RightsIn(rw) ==
  IF rw = NoRow THEN {}
  ELSE OwnRights(rw) \cup
       UNION {{<<c, route.role, rw.epoch>> : c \in In(ListOf(rw, route))} : route \in rw.routes}

----------------------------------------------------------------------------
(* The other handlers, one atomic update each.  What overlapping handlers  *)
(* of their own kind do to one row is the matter of GateRouting.           *)

Remove(list, c) == {p \in list : c \notin {p[1], p[2]}}
Include(list, c) == IF c \in In(list) THEN list ELSE list \cup ((In(list) \cup {c}) \X {c})

Become(d, rw) == row' = [row EXCEPT ![d] = rw] /\ UNCHANGED groups

RegisterDoc(d) ==
  /\ "register" \in Updates
  /\ row[d] = NoRow
  /\ \E own \in SUBSET Roles :
       Become(d, [epoch |-> 0, members |-> NoList, bindings |-> {},
                  routes |-> [ref : {Own}, role : own]])

\* A register of an existing row: the document's own roots are replaced.
Reanchor(d) ==
  /\ "reanchor" \in Updates
  /\ row[d] # NoRow
  /\ \E own \in SUBSET Roles :
       Become(d, [row[d] EXCEPT !.routes = {route \in @ : route.ref # Own}
                                             \cup [ref : {Own}, role : own]])

RolesOf(rw, c) == {b.role : b \in {x \in rw.bindings : x.commitment = c}}

EnrollMember(d) ==
  /\ "enroll" \in Updates
  /\ row[d] # NoRow
  /\ \E c \in Commitments, role \in Roles :
       LET binding == [commitment |-> c, role |-> capRole(role, MaxRole(RolesOf(row[d], c)))]
       IN Become(d, [row[d] EXCEPT !.members = Include(@, c), !.bindings = @ \cup {binding}])

\* The epoch advances also when the identifier stood for nobody.
RevokeMember(d) ==
  /\ "revoke" \in Updates
  /\ row[d] # NoRow
  /\ \E c \in Commitments, e \in Epochs :
       /\ e >= row[d].epoch
       /\ Become(d, [row[d] EXCEPT !.epoch = e, !.members = Remove(@, c),
                                   !.bindings = {b \in @ : b.commitment # c}])

RelabelMember(d) ==
  /\ "relabel" \in Updates
  /\ row[d] # NoRow
  /\ \E c \in In(row[d].members), role \in Roles :
       Become(d, [row[d] EXCEPT !.bindings = {b \in @ : b.commitment # c}
                                               \cup {[commitment |-> c, role |-> role]}])

\* Attach moves a group that is attached already.
AttachGroup(d) ==
  /\ "attach" \in Updates
  /\ row[d] # NoRow
  /\ \E g \in Groups, role \in Roles :
       /\ groups[g] # NoGroup
       /\ Become(d, [row[d] EXCEPT !.routes = {route \in @ : route.ref # g}
                                                 \cup {[ref |-> g, role |-> role]}])

DetachGroup(d) ==
  /\ "detach" \in Updates
  /\ row[d] # NoRow
  /\ \E g \in Groups :
       Become(d, [row[d] EXCEPT !.routes = {route \in @ : route.ref # g}])

UpdateDoc(d) ==
  \/ RegisterDoc(d) \/ Reanchor(d) \/ EnrollMember(d) \/ RevokeMember(d)
  \/ RelabelMember(d) \/ AttachGroup(d) \/ DetachGroup(d)

RegisterGroup(g) ==
  /\ "groupRegister" \in Updates
  /\ groups[g] = NoGroup
  /\ groups' = [groups EXCEPT ![g] = NoList]
  /\ UNCHANGED row

EnrollInGroup(g) ==
  /\ "groupEnroll" \in Updates
  /\ groups[g] # NoGroup
  /\ \E c \in Commitments : groups' = [groups EXCEPT ![g] = Include(@, c)]
  /\ UNCHANGED row

RevokeFromGroup(g) ==
  /\ "groupRevoke" \in Updates
  /\ groups[g] # NoGroup
  /\ \E c \in Commitments : groups' = [groups EXCEPT ![g] = Remove(@, c)]
  /\ UNCHANGED row

\* The documents keep their routes to it.
DeleteGroup(g) ==
  /\ "groupDelete" \in Updates
  /\ groups' = [groups EXCEPT ![g] = NoGroup]
  /\ UNCHANGED row

UpdateGroup(g) == RegisterGroup(g) \/ EnrollInGroup(g) \/ RevokeFromGroup(g) \/ DeleteGroup(g)

Update ==
  /\ (\E d \in Docs : UpdateDoc(d)) \/ (\E g \in Groups : UpdateGroup(g))
  /\ tables' # tables
  /\ held' = [d \in Docs |-> held[d] \cup RightsIn(row[d])']
  /\ stale' = [r \in Requests |-> pc[r] # "idle"]
  /\ UNCHANGED <<nonceVars, requestVars, passed>>

----------------------------------------------------------------------------
(* Nonces age by the clock, and MongoDB sweeps the expired ones later. *)

Expire(n) ==
  /\ "expire" \in Updates
  /\ age[n] = "live"
  /\ age' = [age EXCEPT ![n] = "expired"]
  /\ UNCHANGED <<tables, issuedFor, requestVars, passed, held, stale>>

Sweep(n) ==
  /\ age[n] = "expired"
  /\ age' = [age EXCEPT ![n] = "gone"]
  /\ UNCHANGED <<tables, issuedFor, requestVars, passed, held, stale>>

\* The filter of listLiveNonces and of consumeGateNonce.
Live(n, d) == issuedFor[n] = d /\ age[n] = "live"

----------------------------------------------------------------------------
(* The life of a request. *)

Answer(r, rep) ==
  /\ pc' = [pc EXCEPT ![r] = "idle"]
  /\ op' = [op EXCEPT ![r] = NoOp]
  /\ plan' = [plan EXCEPT ![r] = NoPlan]
  /\ reply' = [reply EXCEPT ![r] = rep]
  /\ stale' = [stale EXCEPT ![r] = FALSE]

Refuse(r, kind) == Answer(r, Reply(kind, NoRole, 0, {}))

Proceed(r, step, what) ==
  /\ pc' = [pc EXCEPT ![r] = step]
  /\ plan' = [plan EXCEPT ![r] = what]
  /\ UNCHANGED <<op, reply, stale>>

Submit(r) ==
  /\ pc[r] = "idle"
  /\ \E o \in Operations : op' = [op EXCEPT ![r] = o]
  /\ pc' = [pc EXCEPT ![r] = "read"]
  /\ reply' = [reply EXCEPT ![r] = NoReply]
  /\ UNCHANGED <<tables, nonceVars, plan, passed, held, stale>>

\* A database call fails without effect: 500.
DatabaseError(r) ==
  /\ pc[r] # "idle"
  /\ Refuse(r, "error")
  /\ UNCHANGED <<tables, nonceVars, passed, held>>

\* The handler reads the row it works on from here to its answer.
GoOnWith(r, rw, step) ==
  /\ pc' = [pc EXCEPT ![r] = step]
  /\ plan' = [plan EXCEPT ![r] =
                [row |-> rw, matched |-> {},
                 todo |-> IF op[r].kind = "proof" THEN rw.routes ELSE EditRoutes(rw),
                 union |-> In(membersForRole(rw, "edit"))]]
  /\ stale' = [stale EXCEPT ![r] = FALSE]
  /\ UNCHANGED <<op, reply>>

\* Mutant of ReadRow: a challenge does not look whether the row is there.
ReadRowUnchecked(r) ==
  LET rw == row[op[r].doc]
      kind == op[r].kind
  IN /\ pc[r] = "read"
     /\ UNCHANGED <<tables, nonceVars, passed, held>>
     /\ \/ kind = "challenge" /\ Proceed(r, "issue", [plan[r] EXCEPT !.row = rw])
        \/ kind = "editBound" /\ rw = NoRow /\ Answer(r, Reply("bound", NoRole, 0, {}))
        \/ kind \in {"proof", "signature"} /\ rw = NoRow /\ Refuse(r, "unknown-doc")
        \/ rw # NoRow /\ kind = "proof" /\ op[r].scope # op[r].doc /\ Refuse(r, "scope-mismatch")
        \/ rw # NoRow /\ kind = "editBound" /\ GoOnWith(r, rw, "resolve")
        \/ /\ rw # NoRow /\ kind \in {"proof", "signature"}
           /\ kind = "proof" => op[r].scope = op[r].doc
           /\ GoOnWith(r, rw, "list")

ReadRow(r) ==
  LET rw == row[op[r].doc]
      kind == op[r].kind
  IN /\ pc[r] = "read"
     /\ UNCHANGED <<tables, nonceVars, passed, held>>
     /\ \/ /\ rw = NoRow
           /\ IF kind = "editBound" THEN Answer(r, Reply("bound", NoRole, 0, {}))
                                    ELSE Refuse(r, "unknown-doc")
        \/ /\ rw # NoRow /\ kind = "proof" /\ op[r].scope # op[r].doc
           /\ Refuse(r, "scope-mismatch")
        \/ /\ rw # NoRow /\ (kind = "proof" => op[r].scope = op[r].doc)
           /\ GoOnWith(r, rw, CASE kind = "challenge" -> "issue"
                                 [] kind = "editBound" -> "resolve"
                                 [] OTHER -> "list")

IssueNonce(r) ==
  /\ pc[r] = "issue"
  /\ \E n \in Nonces :
       /\ age[n] = "unused"
       /\ age' = [age EXCEPT ![n] = "live"]
       /\ issuedFor' = [issuedFor EXCEPT ![n] = op[r].doc]
  /\ Answer(r, Reply("nonce", NoRole, 0, {})) \/ Refuse(r, "error")
  /\ UNCHANGED <<tables, passed, held>>

ListNonces(r) ==
  /\ pc[r] = "list"
  /\ UNCHANGED <<tables, nonceVars, passed, held>>
  /\ IF Live(op[r].nonce, op[r].doc) THEN Proceed(r, "consume", plan[r])
                                     ELSE Refuse(r, "nonce-not-live")

\* Past its nonce, a signature is verified on the spot; a proof and the edit
\* union first need the groups.
Passed(r) ==
  /\ passed' = [passed EXCEPT ![op[r].nonce] = @ + 1]
  /\ IF op[r].kind = "signature" /\ ~op[r].valid THEN Refuse(r, "invalid-proof")
                                                 ELSE Proceed(r, "resolve", plan[r])

\* Mutants of ConsumeNonce: the nonce is trusted because it was listed, and
\* deleted by name; the delete is left to the TTL sweep.
ConsumeListed(r) ==
  /\ pc[r] = "consume"
  /\ age' = [age EXCEPT ![op[r].nonce] = "gone"]
  /\ Passed(r)
  /\ UNCHANGED <<tables, issuedFor, held>>
ConsumeChecksOnly(r) ==
  /\ pc[r] = "consume"
  /\ UNCHANGED <<tables, nonceVars, held>>
  /\ \/ Live(op[r].nonce, op[r].doc) /\ Passed(r)
     \/ ~Live(op[r].nonce, op[r].doc) /\ Refuse(r, "nonce-not-live") /\ UNCHANGED passed

\* One atomic delete, with the live window in its filter; a lost answer leaves
\* the nonce deleted.
ConsumeNonce(r) ==
  /\ pc[r] = "consume"
  /\ \/ /\ Live(op[r].nonce, op[r].doc)
        /\ age' = [age EXCEPT ![op[r].nonce] = "gone"]
        /\ Passed(r) \/ (Refuse(r, "error") /\ UNCHANGED passed)
        /\ UNCHANGED issuedFor
     \/ /\ ~Live(op[r].nonce, op[r].doc)
        /\ Refuse(r, "nonce-not-live")
        /\ UNCHANGED <<nonceVars, passed>>
  /\ UNCHANGED <<tables, held>>

\* Mutant of Resolve: the edit union stops at the document's own list.
ResolveOwnOnly(r) ==
  /\ pc[r] = "resolve"
  /\ \E route \in plan[r].todo :
       LET rest == [plan[r] EXCEPT !.todo = @ \ {route}]
       IN Proceed(r, "resolve",
                  IF op[r].kind = "proof" /\ ListOf(plan[r].row, route) = op[r].root
                  THEN [rest EXCEPT !.matched = @ \cup {route.role}] ELSE rest)
  /\ UNCHANGED <<tables, nonceVars, passed, held>>

\* The next route: the document's own list comes from the row read first, a
\* group is read now.
Resolve(r) ==
  /\ pc[r] = "resolve"
  /\ \E route \in plan[r].todo :
       LET rest == [plan[r] EXCEPT !.todo = @ \ {route}]
           list == ListOf(plan[r].row, route)
       IN \/ /\ op[r].kind = "proof"
             /\ Proceed(r, "resolve", IF list = op[r].root
                                      THEN [rest EXCEPT !.matched = @ \cup {route.role}] ELSE rest)
          \/ /\ op[r].kind # "proof"
             /\ Proceed(r, "resolve", [rest EXCEPT !.union = @ \cup In(list)])
  /\ UNCHANGED <<tables, nonceVars, passed, held>>

\* Mutant of ReleaseByProof: the shares are those of the live epoch.
ReleaseAtLiveEpoch(r) ==
  /\ pc[r] = "resolve" /\ plan[r].todo = {} /\ op[r].kind = "proof"
  /\ \/ plan[r].matched = {} /\ Refuse(r, "stale-root")
     \/ plan[r].matched # {} /\ ~op[r].valid /\ Refuse(r, "invalid-proof")
     \/ /\ plan[r].matched # {} /\ op[r].valid
        /\ Answer(r, Reply("granted", MaxRole(plan[r].matched), row[op[r].doc].epoch, {}))
  /\ UNCHANGED <<tables, nonceVars, passed, held>>

\* Two entries with one root are one entry with the larger role.  The shares of
\* that role and below are derived at the epoch of the row.
ReleaseByProof(r) ==
  /\ pc[r] = "resolve" /\ plan[r].todo = {} /\ op[r].kind = "proof"
  /\ \/ plan[r].matched = {} /\ Refuse(r, "stale-root")
     \/ plan[r].matched # {} /\ ~op[r].valid /\ Refuse(r, "invalid-proof")
     \/ /\ plan[r].matched # {} /\ op[r].valid
        /\ Answer(r, Reply("granted", MaxRole(plan[r].matched), plan[r].row.epoch, {}))
  /\ UNCHANGED <<tables, nonceVars, passed, held>>

ReleaseBySignature(r) ==
  /\ pc[r] = "resolve" /\ plan[r].todo = {} /\ op[r].kind = "signature"
  /\ \/ op[r].signer \notin plan[r].union /\ Refuse(r, "invalid-proof")
     \/ /\ op[r].signer \in plan[r].union
        /\ Answer(r, Reply("granted", "edit", plan[r].row.epoch, {}))
  /\ UNCHANGED <<tables, nonceVars, passed, held>>

AnswerPoll(r) ==
  /\ pc[r] = "resolve" /\ plan[r].todo = {} /\ op[r].kind = "editBound"
  /\ Answer(r, Reply("bound", NoRole, 0, plan[r].union))
  /\ UNCHANGED <<tables, nonceVars, passed, held>>

----------------------------------------------------------------------------

Init ==
  /\ row = [d \in Docs |-> NoRow]
  /\ groups = [g \in Groups |-> NoGroup]
  /\ issuedFor = [n \in Nonces |-> NoDoc]
  /\ age = [n \in Nonces |-> "unused"]
  /\ pc = [r \in Requests |-> "idle"]
  /\ op = [r \in Requests |-> NoOp]
  /\ plan = [r \in Requests |-> NoPlan]
  /\ reply = [r \in Requests |-> NoReply]
  /\ passed = [n \in Nonces |-> 0]
  /\ held = [d \in Docs |-> {}]
  /\ stale = [r \in Requests |-> FALSE]

Step(r) ==
  \/ ReadRow(r) \/ IssueNonce(r) \/ ListNonces(r) \/ ConsumeNonce(r) \/ Resolve(r)
  \/ ReleaseByProof(r) \/ ReleaseBySignature(r) \/ AnswerPoll(r) \/ DatabaseError(r)

Next ==
  \/ Update
  \/ \E n \in Nonces : Expire(n) \/ Sweep(n)
  \/ \E r \in Requests : Submit(r) \/ Step(r)

Spec == Init /\ [][Next]_vars

----------------------------------------------------------------------------
(* Properties. *)

TableTypeOK ==
  /\ row \in [Docs -> Row \cup {NoRow}]
  /\ groups \in [Groups -> {NoGroup} \cup List]
  /\ issuedFor \in [Nonces -> Docs \cup {NoDoc}]
  /\ age \in [Nonces -> {"unused", "live", "expired", "gone"}]
  /\ passed \in [Nonces -> Nat]
  /\ held \in [Docs -> SUBSET (Commitments \X GateRole \X Nat)]

RequestTypeOK ==
  /\ pc \in [Requests -> {"idle", "read", "issue", "list", "consume", "resolve"}]
  /\ op \in [Requests -> Operations \cup {NoOp}]
  /\ plan \in [Requests -> Plan]
  /\ reply \in [Requests -> [kind : ReplyKind, role : GateRole \cup {NoRole}, epoch : Nat,
                             bound : SUBSET Commitments]]
  /\ stale \in [Requests -> BOOLEAN]

\* What a request is and knows at each of its steps; an answered request leaves
\* nothing behind for the next one in its slot.  Past the first read the row is there:
\* no nonce is issued, and none listed or consumed, for a document nobody registered.
FlowOK(r) ==
  /\ pc[r] = "idle" => op[r] = NoOp /\ plan[r] = NoPlan
  /\ pc[r] # "idle" => op[r] \in Operations
  /\ pc[r] \in {"list", "consume"} => op[r].kind \in {"proof", "signature"}
  /\ pc[r] \in {"issue", "list", "consume", "resolve"} => plan[r].row # NoRow

\* The tables, the nonces and the requests keep their shape.
TypeOK == TableTypeOK /\ RequestTypeOK /\ \A r \in Requests : FlowOK(r)

\* A nonce lets at most one release go on, however many listed it
\* (nonce.ts, "Single-use").
NonceSingleUse == \A n \in Nonces : passed[n] <= 1

\* r answers its request in this step.
Answers(r, kind) == pc[r] # "idle" /\ pc'[r] = "idle" /\ reply'[r].kind = kind

\* A release that goes on past its nonce does so while the nonce is live and
\* of its document: an expiry between the list and the delete refuses it, swept
\* or not (nonce.ts, the live window in both filters).
PassesLive ==
  \A r \in Requests :
    pc[r] = "consume" /\ passed'[op[r].nonce] # passed[op[r].nonce]
      => Live(op[r].nonce, op[r].doc)
PassedWhileLive == [][PassesLive]_vars

\* A release that is refused for its root or its proof has used up its nonce,
\* so one challenge is one guess (release.ts, "a failed proof burns its challenge").
FailureBurns ==
  \A r \in Requests :
    (Answers(r, "stale-root") \/ Answers(r, "invalid-proof")) => age'[op[r].nonce] = "gone"
FailureBurnsNonce == [][FailureBurns]_vars

\* Whoever is granted shares held the role at the epoch they are derived at, at
\* one instant: a member who was evicted gets nothing of the epoch that their
\* eviction began (release.ts, "derive at the gate's OWN currentEpoch").
GrantHeld ==
  \A r \in Requests :
    Answers(r, "granted") => <<op[r].signer, reply'[r].role, reply'[r].epoch>> \in held[op[r].doc]
GrantHeldAtOnce == [][GrantHeld]_vars

\* If the tables have not changed since a request read its row, a signature is
\* admitted exactly when its signer is an edit member, and a poll reports
\* exactly the edit members: minting and polling agree (roles.ts, "MUST agree").
SignatureAgrees(r) ==
  (Answers(r, "granted") \/ Answers(r, "invalid-proof")) =>
    (Answers(r, "granted") <=> op[r].signer \in editMemberCommitments(row[op[r].doc]))
PollAgrees(r) ==
  Answers(r, "bound") => reply'[r].bound = editMemberCommitments(row[op[r].doc])
AgreeOnEdit ==
  \A r \in Requests : pc[r] = "resolve" /\ ~stale[r] =>
    /\ op[r].kind = "signature" => SignatureAgrees(r)
    /\ op[r].kind = "editBound" => PollAgrees(r)
MintAndPollAgree == [][AgreeOnEdit]_vars
=============================================================================
