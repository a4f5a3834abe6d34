----------------------------- MODULE GateGroups -----------------------------
(***************************************************************************)
(* The membership of one group reference: its gate_groups row and the      *)
(* handlers of /gate/group/:groupRef/enroll, /revoke, /reinstate and       *)
(* /delete that run over it.                                               *)
(*                                                                         *)
(* Unlike a document's row, this row may be deleted, and its reference may *)
(* be registered again, while a handler is between two of its steps.  The  *)
(* controller reads the row and has the caller authorized by the owner of  *)
(* its portal; the loop under it then reads the row again.  A request      *)
(* stands for one whose credentials were accepted for the portal its       *)
(* controller read.                                                        *)
(*                                                                         *)
(* A group has no epoch, and no handler reads the role in its bindings.    *)
(* The arrays are bags, as in GateMembership.                              *)
(***************************************************************************)
EXTENDS Integers, FiniteSets

CONSTANTS IdHashes, Commitments, Portals,
          NoCommitment,  \* no commitment
          NoPortal,      \* the row does not exist
          Requests,      \* slots for requests in flight
          Operations,    \* what a request may ask for
          MaxAttempts    \* bound of the compare-and-set loops; 5 in the code

Pair == IdHashes \X Commitments

Enrollments    == [kind : {"enroll"}, idHash : IdHashes, commitment : Commitments]
Revocations    == [kind : {"revoke"}, idHash : IdHashes]
Reinstatements == [kind : {"reinstate"}, idHash : IdHashes]
Deletions      == [kind : {"delete"}]

ASSUME GroupOperationsAssumption ==
  Operations \subseteq Enrollments \cup Revocations \cup Reinstatements \cup Deletions
ASSUME GroupAttemptsAssumption == MaxAttempts \in Nat \ {0}
ASSUME GroupAbsenceAssumption == NoCommitment \notin Commitments /\ NoPortal \notin Portals

VARIABLES
  portal, members, bindings, revokedIdHashes,  \* the row, of portal NoPortal when absent
  pc, op, attempt, plan,                       \* the requests in flight
  reply,       \* the answer that the last step sent
  interfered,  \* history: another step changed the row since this request read it
  replaced     \* history: the row was deleted since this request's controller read it

rowVars == <<portal, members, bindings, revokedIdHashes>>
vars == <<rowVars, pc, op, attempt, plan, reply, interfered, replaced>>

NoOp == [kind |-> "none"]
\* The portal the caller was authorized for, and the commitment the loop's read
\* found: bound to the identifier (revoke), or a member already (enroll).
Plan == [portal : Portals \cup {NoPortal}, target : Commitments \cup {NoCommitment}]
NoPlan == [portal |-> NoPortal, target |-> NoCommitment]
ReplyKind == {"none", "unknown-group", "added", "noop", "pin-conflict", "revoked",
              "ok", "contention", "error"}

NoMembers == [c \in Commitments |-> 0]
NoBindings == [p \in Pair |-> 0]

----------------------------------------------------------------------------
(* The row and the life of a request. *)

\* The commitments an identifier is bound to, and whether anyone is.
BoundTo(h) == {c \in Commitments : bindings[<<h, c>>] > 0}
Holders(c) == {h \in IdHashes : bindings[<<h, c>>] > 0}

Push(bag, x) == [bag EXCEPT ![x] = @ + 1]

\* What the step does to the row is seen by every request that has read it.
Observe(r) ==
  /\ interfered' = [q \in Requests |->
                     q # r /\ pc[q] = "write" /\ (interfered[q] \/ rowVars' # rowVars)]
  /\ replaced' = [q \in Requests |->
                   pc'[q] # "idle" /\ (replaced[q] \/ (portal # NoPortal /\ portal' = NoPortal))]

Answer(r, kind) ==
  /\ pc' = [pc EXCEPT ![r] = "idle"]
  /\ op' = [op EXCEPT ![r] = NoOp]
  /\ attempt' = [attempt EXCEPT ![r] = 0]
  /\ plan' = [plan EXCEPT ![r] = NoPlan]
  /\ reply' = kind
  /\ Observe(r)

\* The answer to an applied write may be lost; the handler then throws.
AnswerWrite(r, kind) == Answer(r, kind) \/ Answer(r, "error")

Prepare(r, target) ==
  /\ pc' = [pc EXCEPT ![r] = "write"]
  /\ plan' = [plan EXCEPT ![r].target = target]
  /\ reply' = "none" /\ UNCHANGED <<op, attempt>>
  /\ Observe(r)

\* Mutant of Retry: passes that are not counted.
RetryUncounted(r) ==
  /\ pc' = [pc EXCEPT ![r] = "read"]
  /\ plan' = [plan EXCEPT ![r].target = NoCommitment]
  /\ reply' = "none" /\ UNCHANGED <<op, attempt>>
  /\ Observe(r)

\* The filter missed: read again, or give up after MaxAttempts passes.
Retry(r) ==
  \/ /\ attempt[r] + 1 < MaxAttempts
     /\ pc' = [pc EXCEPT ![r] = "read"]
     /\ attempt' = [attempt EXCEPT ![r] = @ + 1]
     /\ plan' = [plan EXCEPT ![r].target = NoCommitment]
     /\ reply' = "none" /\ UNCHANGED op
     /\ Observe(r)
  \/ attempt[r] + 1 >= MaxAttempts /\ Answer(r, "contention")

At(r, step, kind) == pc[r] = step /\ op[r].kind = kind

\* The controller reads the row: 404, or the caller is authorized by the owner
\* of its portal.  A delete goes on to its write, the others to their loop.
Submit(r) ==
  /\ pc[r] = "idle"
  /\ UNCHANGED <<rowVars, attempt, interfered, replaced>>
  /\ \E o \in Operations :
       \/ /\ portal # NoPortal
          /\ pc' = [pc EXCEPT ![r] = IF o.kind = "delete" THEN "write" ELSE "read"]
          /\ op' = [op EXCEPT ![r] = o]
          /\ plan' = [plan EXCEPT ![r].portal = portal]
          /\ reply' = "none"
       \/ /\ portal = NoPortal
          /\ reply' = "unknown-group"
          /\ UNCHANGED <<pc, op, plan>>

\* A read, or a write that was not applied, fails: 500.
DatabaseError(r) ==
  /\ pc[r] # "idle"
  /\ UNCHANGED rowVars
  /\ Answer(r, "error")

----------------------------------------------------------------------------
(* Registration: GateRouting has its steps; here it is the create that     *)
(* succeeds.                                                               *)

SeenByAll ==
  /\ interfered' = [q \in Requests |-> pc[q] = "write"]
  /\ reply' = "none" /\ UNCHANGED <<pc, op, attempt, plan, replaced>>

\* Mutant of Register: an existing group is moved to the caller's portal.
RegisterMoves ==
  /\ portal' \in Portals \ {portal}
  /\ UNCHANGED <<members, bindings, revokedIdHashes>>
  /\ SeenByAll

Register ==
  /\ portal = NoPortal
  /\ portal' \in Portals
  /\ members' = NoMembers
  /\ bindings' = NoBindings
  /\ revokedIdHashes' = {}
  /\ SeenByAll

----------------------------------------------------------------------------
(* Enroll. *)

EnrollRead(r) ==
  LET h == op[r].idHash
      c == op[r].commitment
      free == portal # NoPortal /\ h \notin revokedIdHashes
  IN /\ At(r, "read", "enroll")
     /\ UNCHANGED rowVars
     /\ \/ portal = NoPortal /\ Answer(r, "unknown-group")
        \/ portal # NoPortal /\ h \in revokedIdHashes /\ Answer(r, "revoked")
        \/ free /\ \E b \in BoundTo(h) : Answer(r, IF b = c THEN "noop" ELSE "pin-conflict")
        \/ /\ free /\ BoundTo(h) = {}
           /\ Prepare(r, IF members[c] > 0 THEN c ELSE NoCommitment)

\* Mutants of EnrollFilter: the membership is not pinned; a missing row is
\* created by the update.
EnrollIgnoresMembers(r) ==
  /\ portal # NoPortal
  /\ BoundTo(op[r].idHash) = {}
  /\ op[r].idHash \notin revokedIdHashes
EnrollUpserts(r) ==
  /\ BoundTo(op[r].idHash) = {}
  /\ op[r].idHash \notin revokedIdHashes
  /\ members[op[r].commitment] > 0 <=> plan[r].target # NoCommitment

EnrollFilter(r) ==
  /\ portal # NoPortal
  /\ BoundTo(op[r].idHash) = {}
  /\ op[r].idHash \notin revokedIdHashes
  /\ members[op[r].commitment] > 0 <=> plan[r].target # NoCommitment

EnrollWrite(r) ==
  LET c == op[r].commitment
  IN /\ At(r, "write", "enroll")
     /\ \/ /\ EnrollFilter(r)
           /\ bindings' = Push(bindings, <<op[r].idHash, c>>)
           /\ members' = IF plan[r].target = NoCommitment THEN Push(members, c) ELSE members
           /\ UNCHANGED <<portal, revokedIdHashes>>
           /\ AnswerWrite(r, "added")
        \/ ~EnrollFilter(r) /\ UNCHANGED rowVars /\ Retry(r)

----------------------------------------------------------------------------
(* Revoke, reinstate and delete. *)

RevokeRead(r) ==
  LET found == BoundTo(op[r].idHash)
  IN /\ At(r, "read", "revoke")
     /\ UNCHANGED rowVars
     /\ \/ portal = NoPortal /\ Answer(r, "unknown-group")
        \/ portal # NoPortal /\ found = {} /\ Prepare(r, NoCommitment)
        \/ portal # NoPortal /\ \E c \in found : Prepare(r, c)

\* Mutants of RevokeFilter: the snapshot's commitment is not pinned; an enroll
\* in the gap goes unnoticed; modifiedCount in place of matchedCount.
RevokeIgnoresSwap(r) ==
  /\ portal # NoPortal
  /\ plan[r].target = NoCommitment <=> BoundTo(op[r].idHash) = {}
RevokeIgnoresFirstEnroll(r) ==
  /\ portal # NoPortal
  /\ plan[r].target # NoCommitment => plan[r].target \in BoundTo(op[r].idHash)
RevokeCountsModified(r) ==
  /\ portal # NoPortal
  /\ IF plan[r].target = NoCommitment
     THEN BoundTo(op[r].idHash) = {} /\ op[r].idHash \notin revokedIdHashes
     ELSE plan[r].target \in BoundTo(op[r].idHash)

RevokeFilter(r) ==
  /\ portal # NoPortal
  /\ IF plan[r].target = NoCommitment THEN BoundTo(op[r].idHash) = {}
                                      ELSE plan[r].target \in BoundTo(op[r].idHash)

RevokeWrite(r) ==
  LET gone == plan[r].target
  IN /\ At(r, "write", "revoke")
     /\ \/ /\ RevokeFilter(r)
           /\ members' = [c \in Commitments |-> IF c = gone THEN 0 ELSE members[c]]
           /\ bindings' = [p \in Pair |-> IF p[2] = gone THEN 0 ELSE bindings[p]]
           /\ revokedIdHashes' = revokedIdHashes \cup {op[r].idHash}
           /\ UNCHANGED portal
           /\ AnswerWrite(r, "ok")
        \/ ~RevokeFilter(r) /\ UNCHANGED rowVars /\ Retry(r)

ReinstateRead(r) ==
  /\ At(r, "read", "reinstate")
  /\ UNCHANGED rowVars
  /\ IF portal = NoPortal THEN Answer(r, "unknown-group") ELSE Prepare(r, NoCommitment)

\* The update's result is not looked at: ok also when the row has gone.
ReinstateWrite(r) ==
  /\ At(r, "write", "reinstate")
  /\ revokedIdHashes' = revokedIdHashes \ {op[r].idHash}
  /\ UNCHANGED <<portal, members, bindings>>
  /\ AnswerWrite(r, "ok")

\* Whatever row has the reference now is deleted; 204 also when there is none.
DeleteWrite(r) ==
  /\ At(r, "write", "delete")
  /\ portal' = NoPortal
  /\ members' = NoMembers
  /\ bindings' = NoBindings
  /\ revokedIdHashes' = {}
  /\ AnswerWrite(r, "ok")

----------------------------------------------------------------------------

Init ==
  /\ portal = NoPortal
  /\ members = NoMembers
  /\ bindings = NoBindings
  /\ revokedIdHashes = {}
  /\ pc = [r \in Requests |-> "idle"]
  /\ op = [r \in Requests |-> NoOp]
  /\ attempt = [r \in Requests |-> 0]
  /\ plan = [r \in Requests |-> NoPlan]
  /\ reply = "none"
  /\ interfered = [r \in Requests |-> FALSE]
  /\ replaced = [r \in Requests |-> FALSE]

Step(r) ==
  \/ EnrollRead(r)    \/ EnrollWrite(r)
  \/ RevokeRead(r)    \/ RevokeWrite(r)
  \/ ReinstateRead(r) \/ ReinstateWrite(r)
  \/ DeleteWrite(r)   \/ DatabaseError(r)

Next == Register \/ \E r \in Requests : Submit(r) \/ Step(r)

Spec == Init /\ [][Next]_vars

\* As in GateMembership: an accepted request keeps taking steps.
FairSpec == Spec /\ \A r \in Requests : WF_vars(Step(r))

----------------------------------------------------------------------------
(* Properties. *)

RowTypeOK ==
  /\ portal \in Portals \cup {NoPortal}
  /\ members \in [Commitments -> Nat]
  /\ bindings \in [Pair -> Nat]
  /\ revokedIdHashes \subseteq IdHashes

\* The row and the requests keep their shape, a missing row is empty, and a
\* loop makes at most MaxAttempts passes.
TypeOK ==
  /\ RowTypeOK
  /\ portal = NoPortal =>
       members = NoMembers /\ bindings = NoBindings /\ revokedIdHashes = {}
  /\ pc \in [Requests -> {"idle", "read", "write"}]
  /\ op \in [Requests -> Operations \cup {NoOp}]
  /\ attempt \in [Requests -> 0 .. MaxAttempts - 1]
  /\ plan \in [Requests -> Plan]
  /\ reply \in ReplyKind
  /\ interfered \in [Requests -> BOOLEAN] /\ replaced \in [Requests -> BOOLEAN]

\* The row is consistent after any overlap of the handlers and through deletes:
\* nobody is barred and bound at once (group-revoke.ts, "enrolled-but-denylisted"),
\* an identifier is bound once (group-enroll.ts, "can't double-append"), and the
\* member list holds each bound commitment once and nobody else.
RowConsistent ==
  /\ \A h \in revokedIdHashes : BoundTo(h) = {}
  /\ \A p \in Pair : bindings[p] \in {0, 1}
  /\ \A h \in IdHashes : \A c, d \in BoundTo(h) : c = d
  /\ \A c \in Commitments : members[c] = IF Holders(c) = {} THEN 0 ELSE 1

Answers(r, kind) == pc[r] = "write" /\ pc'[r] = "idle" /\ reply' = kind

\* When a revoke answers ok the identifier is barred and whoever it stood for is
\* out of the group under every identifier -- also when the group was deleted and
\* registered again, or the member enrolled, after the revoke had read the row.
RevokeEvicts ==
  [][\A r \in Requests : op[r].kind = "revoke" /\ Answers(r, "ok") =>
       /\ op[r].idHash \in revokedIdHashes'
       /\ \A c \in BoundTo(op[r].idHash) : Holders(c)' = {} /\ members'[c] = 0]_vars

\* A loop misses only when the row changed since its read, so it never gives up
\* when nobody else writes (group-revoke.ts, matchedCount and not modifiedCount).
MissMeansInterference ==
  [][\A r \in Requests :
       pc[r] = "write" /\ (pc'[r] = "read" \/ Answers(r, "contention")) => interfered[r]]_vars

\* An accepted request is always answered, also when its group is deleted and
\* registered again under it.
EveryRequestAnswered == \A r \in Requests : pc[r] # "idle" ~> pc[r] = "idle"

\* r changes the row of a portal whose owner it was not authorized by.
Trespasses(r) ==
  pc[r] = "write" /\ rowVars' # rowVars /\ pc'[r] # pc[r] /\ portal # plan[r].portal

\* Every row a request changes is of the portal whose owner authorized it
\* (group-enroll.ts, "issuer === on-chain PORTAL owner (stored anchor)"), unless
\* the group was deleted, and registered again, while the request was under way.
TrespassMeansReplaced == [][\A r \in Requests : Trespasses(r) => replaced[r]]_vars

Member(h) == IF BoundTo(h) = {} THEN NoCommitment ELSE CHOOSE c \in BoundTo(h) : TRUE

\* The handlers, with their gaps and retries, implement the atomic operations of
\* GroupPolicy: no delete leaves somebody behind, no loop half-evicts.
Policy == INSTANCE GroupPolicy WITH
  pinned <- [h \in IdHashes |->
              [commitment |-> Member(h), role |-> IF BoundTo(h) = {} THEN "none" ELSE "view"]],
  barred <- revokedIdHashes,
  epoch  <- 0

ImplementsGroupPolicy == Policy!GroupPolicySpec
=============================================================================
