--------------------------- MODULE GateMembership ---------------------------
(***************************************************************************)
(* The membership of one gated document: the gate_docs row and the         *)
(* handlers of /gate/enroll, /revoke, /relabel, /relabel-bulk and          *)
(* /reinstate that run over it.                                            *)
(*                                                                         *)
(* A handler reads the row, decides, and writes it with one updateOne.     *)
(* MongoDB applies an updateOne atomically; between the read and the write *)
(* the handler has awaited, so the steps of other requests fall there.     *)
(* Rows are keyed by docId and a handler touches one row, so one document  *)
(* is enough.  A request stands for one whose body and credentials have    *)
(* been accepted: those checks read nothing that the writes below change.  *)
(*                                                                         *)
(* The arrays members and bindings are bags: $push appends a duplicate and *)
(* $pull drops every equal element, which is all the handlers see of them. *)
(***************************************************************************)
EXTENDS Integers, FiniteSets, GateRoles

CONSTANTS IdHashes,      \* salted hashes of attested identifiers
          Commitments,   \* Semaphore identity commitments
          NoCommitment,  \* only names "no commitment" in the refinement
          Requests,      \* slots for requests in flight
          Operations,    \* what a request may ask for
          MaxAttempts    \* bound of the compare-and-set loops; 5 in the code

Entry(h, c, role) == [idHash |-> h, commitment |-> c, role |-> role]
Binding == [idHash : IdHashes, commitment : Commitments, role : GateRole]

Enrollments    == [kind : {"enroll"}, idHash : IdHashes,
                   commitment : Commitments, role : GateRole]
Revocations    == [kind : {"revoke"}, idHash : IdHashes,
                   targetEpoch : Nat \ {0}, addToDenylist : BOOLEAN]
Relabels       == [kind : {"relabel"}, idHash : IdHashes, newRole : GateRole]
BulkRelabels   == [kind : {"relabelBulk"}, idHashes : SUBSET IdHashes \ {{}},
                   newRole : {"view", "comment"}]
Reinstatements == [kind : {"reinstate"}, idHash : IdHashes]

ASSUME OperationsAssumption ==
  Operations \subseteq Enrollments \cup Revocations \cup Relabels
                         \cup BulkRelabels \cup Reinstatements
ASSUME MaxAttemptsAssumption == MaxAttempts \in Nat \ {0}
ASSUME CommitmentsAssumption == NoCommitment \notin Commitments

VARIABLES
  \* the gate_docs row
  registered, currentEpoch, members, bindings, revokedIdHashes,
  \* the requests in flight; plan is what the read contributes to the write
  pc, op, attempt, plan, reply,
  \* history: another request changed the row since this one read it
  interfered

rowVars == <<registered, currentEpoch, members, bindings, revokedIdHashes>>
requestVars == <<pc, op, attempt, plan, reply, interfered>>
vars == <<rowVars, requestVars>>

NoOp == [kind |-> "none"]
Plan == [targets : SUBSET Commitments, role : GateRole \cup {NoRole}, wasEdit : BOOLEAN]
NoPlan == [targets |-> {}, role |-> NoRole, wasEdit |-> FALSE]
ReplyKind == {"none", "unknown-doc", "added", "noop", "pin-conflict", "revoked",
              "ok", "stale-epoch", "contention", "error"}
Reply == [kind : ReplyKind, evicted : SUBSET Commitments]
NoReply == [kind |-> "none", evicted |-> {}]

----------------------------------------------------------------------------
(* The row and its updates. *)

Bound == {b \in Binding : bindings[b] > 0}
BindingsOf(h) == {b \in Bound : b.idHash = h}
RolesOf(c) == {role \in GateRole : \E b \in Bound : b.commitment = c /\ b.role = role}

Push(bag, x) == [bag EXCEPT ![x] = @ + 1]

\* $pull members / bindings of the targets.
PullMembers(who) == [c \in Commitments |-> IF c \in who THEN 0 ELSE members[c]]
PullBindings(who) == [b \in Binding |-> IF b.commitment \in who THEN 0 ELSE bindings[b]]

\* Mutant of SetRole: the positional $ moves one matching element only.
SetRoleOfOne(who, role) ==
  LET hits == {b \in Bound : b.commitment \in who}
      hit == CHOOSE b \in hits : TRUE
  IN IF hits = {} THEN bindings
     ELSE Push([bindings EXCEPT ![hit] = 0], [hit EXCEPT !.role = role])

\* $set bindings.$[elem].role over the elements whose commitment is in who.
SetRole(who, role) ==
  LET copies(h, c) == bindings[Entry(h, c, "view")] + bindings[Entry(h, c, "comment")]
                        + bindings[Entry(h, c, "edit")]
  IN [b \in Binding |-> IF b.commitment \notin who THEN bindings[b]
                        ELSE IF b.role = role THEN copies(b.idHash, b.commitment)
                        ELSE 0]

----------------------------------------------------------------------------
(* The life of a request. *)

\* The write steps of other requests are what a request in its gap can miss.
Observe(r) ==
  interfered' = [q \in Requests |->
                   q # r /\ pc[q] = "write" /\ (interfered[q] \/ rowVars' # rowVars)]

Answer(r, kind, evicted) ==
  /\ pc' = [pc EXCEPT ![r] = "idle"]
  /\ op' = [op EXCEPT ![r] = NoOp]
  /\ attempt' = [attempt EXCEPT ![r] = 0]
  /\ plan' = [plan EXCEPT ![r] = NoPlan]
  /\ reply' = [reply EXCEPT ![r] = [kind |-> kind, evicted |-> evicted]]
  /\ Observe(r)

\* The answer to an applied write may be lost on its way from the database:
\* the handler then throws, and the error handler answers 500.
AnswerWrite(r, kind, evicted) == Answer(r, kind, evicted) \/ Answer(r, "error", {})

\* The read is done and the handler goes on to its write.
Prepare(r, targets, role, wasEdit) ==
  /\ pc' = [pc EXCEPT ![r] = "write"]
  /\ plan' = [plan EXCEPT ![r] = [targets |-> targets, role |-> role, wasEdit |-> wasEdit]]
  /\ UNCHANGED <<op, attempt, reply>>
  /\ Observe(r)

\* Mutants of Retry: one pass too many; passes that are not counted.
RetryOnceMore(r) ==
  \/ /\ attempt[r] < MaxAttempts
     /\ pc' = [pc EXCEPT ![r] = "read"]
     /\ attempt' = [attempt EXCEPT ![r] = @ + 1]
     /\ plan' = [plan EXCEPT ![r] = NoPlan]
     /\ UNCHANGED <<op, reply>>
     /\ Observe(r)
  \/ /\ attempt[r] >= MaxAttempts
     /\ Answer(r, "contention", {})
RetryUncounted(r) ==
  /\ pc' = [pc EXCEPT ![r] = "read"]
  /\ plan' = [plan EXCEPT ![r] = NoPlan]
  /\ UNCHANGED <<op, attempt, reply>>
  /\ Observe(r)

\* The filter missed: read again, or give up after MaxAttempts passes.
Retry(r) ==
  \/ /\ attempt[r] + 1 < MaxAttempts
     /\ pc' = [pc EXCEPT ![r] = "read"]
     /\ attempt' = [attempt EXCEPT ![r] = @ + 1]
     /\ plan' = [plan EXCEPT ![r] = NoPlan]
     /\ UNCHANGED <<op, reply>>
     /\ Observe(r)
  \/ /\ attempt[r] + 1 >= MaxAttempts
     /\ Answer(r, "contention", {})

At(r, step, kind) == pc[r] = step /\ op[r].kind = kind

----------------------------------------------------------------------------
(* Registration, arrival and database failure. *)

\* /register creates the row at epoch 0; a later /register leaves these
\* fields alone and no handler deletes a gate_docs row.
Register ==
  /\ ~registered
  /\ registered' = TRUE
  /\ UNCHANGED <<currentEpoch, members, bindings, revokedIdHashes, requestVars>>

\* The controller reads the row first: 404 when it is not there.
Submit(r) ==
  /\ pc[r] = "idle"
  /\ \E o \in Operations :
       \/ /\ registered
          /\ pc' = [pc EXCEPT ![r] = "read"]
          /\ op' = [op EXCEPT ![r] = o]
          /\ reply' = [reply EXCEPT ![r] = NoReply]
       \/ /\ ~registered
          /\ reply' = [reply EXCEPT ![r] = [kind |-> "unknown-doc", evicted |-> {}]]
          /\ UNCHANGED <<pc, op>>
  /\ UNCHANGED <<rowVars, attempt, plan, interfered>>

\* A read, or a write that was not applied, fails: nothing changes, 500.
DatabaseError(r) ==
  /\ pc[r] # "idle"
  /\ UNCHANGED rowVars
  /\ Answer(r, "error", {})

----------------------------------------------------------------------------
(* Enroll: PIN+ADD by compare-and-set. *)

\* A denylisted identifier is refused and a bound one is never moved.  A new
\* identifier of a commitment that is already a member is capped at the
\* commitment's largest role in this snapshot.
EnrollRead(r) ==
  LET h == op[r].idHash
      c == op[r].commitment
  IN /\ At(r, "read", "enroll")
     /\ UNCHANGED rowVars
     /\ \/ /\ h \in revokedIdHashes
           /\ Answer(r, "revoked", {})
        \/ /\ h \notin revokedIdHashes
           /\ \E b \in BindingsOf(h) :
                Answer(r, IF b.commitment = c THEN "noop" ELSE "pin-conflict", {})
        \/ /\ h \notin revokedIdHashes
           /\ BindingsOf(h) = {}
           /\ IF members[c] > 0
              THEN Prepare(r, {c}, capRole(op[r].role, MaxRole(RolesOf(c))), FALSE)
              ELSE Prepare(r, {}, op[r].role, FALSE)

\* Mutants of EnrollFilter: each of the three clauses dropped.
EnrollIgnoresDenylist(r) ==
  /\ BindingsOf(op[r].idHash) = {}
  /\ members[op[r].commitment] > 0 <=> plan[r].targets # {}
EnrollIgnoresBinding(r) ==
  /\ op[r].idHash \notin revokedIdHashes
  /\ members[op[r].commitment] > 0 <=> plan[r].targets # {}
EnrollIgnoresMembers(r) ==
  /\ BindingsOf(op[r].idHash) = {}
  /\ op[r].idHash \notin revokedIdHashes

\* The identifier is still free and not denylisted, and the commitment still
\* is, or still is not, a member.
EnrollFilter(r) ==
  /\ BindingsOf(op[r].idHash) = {}
  /\ op[r].idHash \notin revokedIdHashes
  /\ members[op[r].commitment] > 0 <=> plan[r].targets # {}

EnrollWrite(r) ==
  LET c == op[r].commitment
  IN /\ At(r, "write", "enroll")
     /\ \/ /\ EnrollFilter(r)
           /\ bindings' = Push(bindings, Entry(op[r].idHash, c, plan[r].role))
           /\ members' = IF plan[r].targets = {} THEN Push(members, c) ELSE members
           /\ UNCHANGED <<registered, currentEpoch, revokedIdHashes>>
           /\ AnswerWrite(r, "added", {})
        \/ /\ ~EnrollFilter(r)
           /\ UNCHANGED rowVars
           /\ Retry(r)

----------------------------------------------------------------------------
(* Revoke: the epoch moves forward and the member leaves, in one update. *)

RevokeRead(r) ==
  LET found == BindingsOf(op[r].idHash)
  IN /\ At(r, "read", "revoke")
     /\ UNCHANGED rowVars
     /\ \/ /\ op[r].targetEpoch < currentEpoch
           /\ Answer(r, "stale-epoch", {})
        \/ /\ op[r].targetEpoch >= currentEpoch
           /\ found = {}
           /\ Prepare(r, {}, NoRole, FALSE)
        \/ /\ op[r].targetEpoch >= currentEpoch
           /\ \E b \in found : Prepare(r, {b.commitment}, NoRole, b.role = "edit")

\* Mutants of RevokeFilter: no epoch guard; no pin on "still nobody"; no pin on
\* the commitment; modifiedCount in place of matchedCount.
RevokeIgnoresEpoch(r) ==
  IF plan[r].targets = {}
  THEN BindingsOf(op[r].idHash) = {}
  ELSE \E b \in BindingsOf(op[r].idHash) : b.commitment \in plan[r].targets
RevokeIgnoresFirstEnroll(r) ==
  /\ currentEpoch <= op[r].targetEpoch
  /\ plan[r].targets # {} =>
       \E b \in BindingsOf(op[r].idHash) : b.commitment \in plan[r].targets
RevokeIgnoresSwap(r) ==
  /\ currentEpoch <= op[r].targetEpoch
  /\ plan[r].targets = {} <=> BindingsOf(op[r].idHash) = {}
RevokeCountsModified(r) ==
  /\ currentEpoch <= op[r].targetEpoch
  /\ RevokeIgnoresEpoch(r)
  /\ \/ currentEpoch # op[r].targetEpoch
     \/ plan[r].targets # {}
     \/ op[r].addToDenylist /\ op[r].idHash \notin revokedIdHashes

\* The epoch has not passed the target, and the identifier stands for what the
\* snapshot said: the same commitment, or still nobody.
RevokeFilter(r) ==
  /\ currentEpoch <= op[r].targetEpoch
  /\ IF plan[r].targets = {}
     THEN BindingsOf(op[r].idHash) = {}
     ELSE \E b \in BindingsOf(op[r].idHash) : b.commitment \in plan[r].targets

\* updateOne counts a matched row even when the update leaves it as it was.
RevokeWrite(r) ==
  /\ At(r, "write", "revoke")
  /\ \/ /\ RevokeFilter(r)
        /\ currentEpoch' = op[r].targetEpoch
        /\ members' = PullMembers(plan[r].targets)
        /\ bindings' = PullBindings(plan[r].targets)
        /\ revokedIdHashes' = IF op[r].addToDenylist THEN revokedIdHashes \cup {op[r].idHash}
                                                     ELSE revokedIdHashes
        /\ UNCHANGED registered
        /\ AnswerWrite(r, "ok", IF plan[r].wasEdit THEN plan[r].targets ELSE {})
     \/ /\ ~RevokeFilter(r)
        /\ UNCHANGED rowVars
        /\ Retry(r)

----------------------------------------------------------------------------
(* Relabel, bulk relabel and reinstate: a read and an unconditional update. *)

RelabelRead(r) ==
  LET found == BindingsOf(op[r].idHash)
  IN /\ At(r, "read", "relabel")
     /\ UNCHANGED rowVars
     /\ \/ found = {} /\ Answer(r, "ok", {})
        \/ \E b \in found : Prepare(r, {b.commitment}, op[r].newRole, b.role = "edit")

\* Mutant of RelabelWrite: the role is looked up when it has already moved.
RelabelReportsLate(r) ==
  /\ At(r, "write", "relabel")
  /\ bindings' = SetRole(plan[r].targets, plan[r].role)
  /\ UNCHANGED <<registered, currentEpoch, members, revokedIdHashes>>
  /\ AnswerWrite(r, "ok", {c \in plan[r].targets : "edit" \in RolesOf(c)'})

\* Every binding of the commitment moves, whatever identifier it belongs to.
RelabelWrite(r) ==
  /\ At(r, "write", "relabel")
  /\ bindings' = SetRole(plan[r].targets, plan[r].role)
  /\ UNCHANGED <<registered, currentEpoch, members, revokedIdHashes>>
  /\ AnswerWrite(r, "ok", IF plan[r].wasEdit /\ plan[r].role # "edit"
                          THEN plan[r].targets ELSE {})

RelabelBulkRead(r) ==
  LET found == {b.commitment : b \in UNION {BindingsOf(h) : h \in op[r].idHashes}}
  IN /\ At(r, "read", "relabelBulk")
     /\ UNCHANGED rowVars
     /\ IF found = {} THEN Answer(r, "ok", {})
                      ELSE Prepare(r, found, op[r].newRole, FALSE)

RelabelBulkWrite(r) ==
  /\ At(r, "write", "relabelBulk")
  /\ bindings' = SetRole(plan[r].targets, plan[r].role)
  /\ UNCHANGED <<registered, currentEpoch, members, revokedIdHashes>>
  /\ AnswerWrite(r, "ok", {})

\* The read only tells whether the row exists.
ReinstateRead(r) ==
  /\ At(r, "read", "reinstate")
  /\ UNCHANGED rowVars
  /\ Prepare(r, {}, NoRole, FALSE)

ReinstateWrite(r) ==
  /\ At(r, "write", "reinstate")
  /\ revokedIdHashes' = revokedIdHashes \ {op[r].idHash}
  /\ UNCHANGED <<registered, currentEpoch, members, bindings>>
  /\ AnswerWrite(r, "ok", {})

----------------------------------------------------------------------------

Init ==
  /\ registered = FALSE
  /\ currentEpoch = 0
  /\ members = [c \in Commitments |-> 0]
  /\ bindings = [b \in Binding |-> 0]
  /\ revokedIdHashes = {}
  /\ pc = [r \in Requests |-> "idle"]
  /\ op = [r \in Requests |-> NoOp]
  /\ attempt = [r \in Requests |-> 0]
  /\ plan = [r \in Requests |-> NoPlan]
  /\ reply = [r \in Requests |-> NoReply]
  /\ interfered = [r \in Requests |-> FALSE]

\* The handler of r takes a step, to its write or to its answer.
Step(r) ==
  \/ EnrollRead(r)      \/ EnrollWrite(r)
  \/ RevokeRead(r)      \/ RevokeWrite(r)
  \/ RelabelRead(r)     \/ RelabelWrite(r)
  \/ RelabelBulkRead(r) \/ RelabelBulkWrite(r)
  \/ ReinstateRead(r)   \/ ReinstateWrite(r)
  \/ DatabaseError(r)

Next == Register \/ \E r \in Requests : Submit(r) \/ Step(r)

Spec == Init /\ [][Next]_vars

\* Node runs every continuation that is ready and every database call comes
\* back, so a request that has been accepted keeps taking steps.
FairSpec == Spec /\ \A r \in Requests : WF_vars(Step(r))

----------------------------------------------------------------------------
(* Properties. *)

RowTypeOK ==
  /\ registered \in BOOLEAN
  /\ currentEpoch \in Nat
  /\ members \in [Commitments -> Nat]
  /\ bindings \in [Binding -> Nat]
  /\ revokedIdHashes \subseteq IdHashes

RequestTypeOK ==
  /\ pc \in [Requests -> {"idle", "read", "write"}]
  /\ op \in [Requests -> Operations \cup {NoOp}]
  /\ attempt \in [Requests -> 0 .. MaxAttempts - 1]
  /\ plan \in [Requests -> Plan]
  /\ reply \in [Requests -> Reply]
  /\ interfered \in [Requests -> BOOLEAN]

\* The row and the requests keep their shape, and a loop makes at most
\* MaxAttempts passes.
TypeOK == RowTypeOK /\ RequestTypeOK

PlanOK(r) ==
  /\ pc[r] # "idle" => op[r] \in Operations /\ reply[r] = NoReply
  /\ pc[r] = "write" =>
       /\ op[r].kind \in {"enroll", "relabel", "relabelBulk"} => plan[r].role \in GateRole
       /\ op[r].kind = "enroll" => plan[r].targets \in {{}, {op[r].commitment}}
       /\ op[r].kind = "revoke" => plan[r].targets = {} \/ \E c \in Commitments : plan[r].targets = {c}
       /\ op[r].kind = "enroll" /\ ~interfered[r] => EnrollFilter(r)
       /\ op[r].kind = "revoke" /\ ~interfered[r] => RevokeFilter(r)

\* What a request carries from its read is what its write was computed from,
\* and while nobody has changed the row the filter of that write still matches.
PlanFromSnapshot == \A r \in Requests : PlanOK(r)

\* No identifier is on the denylist and in the group at once: an enroll that
\* read the row before the revocation does not get past it (revoke.ts, "never
\* evicted"; enroll.ts, the filter on revokedIdHashes).
DenylistedNotBound == \A h \in revokedIdHashes : BindingsOf(h) = {}

\* Two enrolls of one identifier never both append (enroll.ts, "a concurrent
\* duplicate enroll can't double-append").
OneBindingPerIdHash ==
  /\ \A b \in Bound : bindings[b] = 1
  /\ \A b1, b2 \in Bound : b1.idHash = b2.idHash => b1 = b2

\* The list clients rebuild the Merkle tree from holds each bound commitment
\* exactly once and nobody else, although it is pushed and pulled apart from
\* the bindings.
MembersMatchBindings ==
  \A c \in Commitments : members[c] = IF RolesOf(c) = {} THEN 0 ELSE 1

\* The epoch never goes back, however revocations overtake each other
\* (revoke.ts, "forward-only epoch advance").
EpochForwardOnly == [][currentEpoch' >= currentEpoch]_vars

\* A write step of r that the request reports with an answer of this kind.
Answers(r, kind) == pc[r] = "write" /\ pc'[r] = "idle" /\ reply'[r].kind = kind

\* When a revoke answers ok its identifier is free, whoever it stood for has no
\* binding left under any identifier, and nothing of that member stays in the
\* tree -- also when the member enrolled after the revoke had read the row.
Evicts(r, h) ==
  op[r].kind = "revoke" /\ op[r].idHash = h /\ Answers(r, "ok") =>
    /\ BindingsOf(h)' = {}
    /\ \A b \in BindingsOf(h) : RolesOf(b.commitment)' = {} /\ members'[b.commitment] = 0

RevokeEvicts == [][\A r \in Requests, h \in IdHashes : Evicts(r, h)]_vars

\* A compare-and-set misses only when another request changed the row since the
\* read, so an enroll or a revoke that is alone never burns its attempts and
\* never answers "contention" (revoke.ts, matchedCount and not modifiedCount).
Misses(r) == pc[r] = "write" /\ (pc'[r] = "read" \/ Answers(r, "contention"))

MissMeansInterference == [][\A r \in Requests : Misses(r) => interfered[r]]_vars

\* A commitment whose edit handle a handler reports evicted has no binding at
\* edit when the report leaves, so nobody is kicked who can still edit.
ReportsTruly(r) ==
  pc[r] = "write" => \A c \in reply'[r].evicted : "edit" \notin RolesOf(c)'

ReportedAreOffEdit == [][\A r \in Requests : ReportsTruly(r)]_vars

\* An accepted request is always answered: the loops are bounded.
EveryRequestAnswered == \A r \in Requests : pc[r] # "idle" ~> pc[r] = "idle"

\* Who an identifier stands for: its binding, without the identifier.
PinOf(h) ==
  IF BindingsOf(h) = {} THEN [commitment |-> NoCommitment, role |-> NoRole]
  ELSE LET b == CHOOSE b \in BindingsOf(h) : TRUE
       IN [commitment |-> b.commitment, role |-> b.role]

\* The handlers, with their gaps and retries, implement the atomic operations
\* of MembershipPolicy.
Policy == INSTANCE MembershipPolicy WITH
  pinned <- [h \in IdHashes |-> PinOf(h)],
  barred <- revokedIdHashes,
  epoch  <- currentEpoch

ImplementsPolicy == Policy!PolicySpec

----------------------------------------------------------------------------
(* What the comments of the code promise of every step. *)

Largest(held) == IF held = {} THEN 0 ELSE ROLE_RANK[MaxRole(held)]

\* An enroll that is acknowledged and lifts a member to a larger role.
Raises(r) ==
  /\ op[r].kind = "enroll" /\ Answers(r, "added")
  /\ \E c \in Commitments : RolesOf(c) # {} /\ Largest(RolesOf(c)') > Largest(RolesOf(c))

\* enroll.ts: "Self-enroll NEVER raises a role"; a new identifier cannot
\* "re-raise the commitment" of a member.
SelfEnrollNeverRaises == [][\A r \in Requests : ~Raises(r)]_vars

\* What does hold of it: the cap fails only when another request changed the
\* row between the read the cap was computed from and the write.
CapHoldsUnlessOvertaken == [][\A r \in Requests : Raises(r) => interfered[r]]_vars

\* relabel.ts: wasEdit tells the controller "whether this was a demote off
\* edit".  A demotion that is answered ok is reported, when nobody was in between
\* and the commitment held no other role than edit: the read looks at the named
\* identifier's binding, the write moves those of its siblings too.
DemotionReported ==
  [][\A r \in Requests : op[r].kind = "relabel" /\ Answers(r, "ok") /\ ~interfered[r] =>
       \A c \in Commitments :
         RolesOf(c) = {"edit"} /\ "edit" \notin RolesOf(c)' => c \in reply'[r].evicted]_vars
=============================================================================
