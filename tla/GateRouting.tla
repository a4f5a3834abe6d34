---------------------------- MODULE GateRouting ----------------------------
(***************************************************************************)
(* The routing table of one gated document (gate_docs.acceptedRoots) and   *)
(* the groups it names: /gate/register, /doc/:docId/attach and /detach,    *)
(* /group/register and /group/:groupRef/delete.                            *)
(*                                                                         *)
(* Every pc value is a point where a handler has awaited the database, so  *)
(* steps of other requests fall between any two of its steps.  A document  *)
(* row is created once and never deleted; a group row may be deleted and   *)
(* created again.  Of a row's anchor the handlers compare all parts for    *)
(* equality and the portal alone across rows.  Owner authorization has     *)
(* been granted; it changes nothing here.                                  *)
(*                                                                         *)
(* acceptedRoots is kept in its two parts: the document's own roles, which *)
(* register writes first, and the group entries, which attach appends.     *)
(* Document ids and group refs are taken to be different names.            *)
(***************************************************************************)
EXTENDS Integers, Sequences, FiniteSets, GateRoles

CONSTANTS Groups, Portals, Files,
          NoAnchor,      \* the document row does not exist
          NoPortal,      \* the group row does not exist
          Requests,      \* slots for requests in flight
          Operations,    \* what a request may ask for
          MaxRoots       \* bound on the group entries, not in the code

Anchor == [portal : Portals, file : Files]
Entry == [groupRef : Groups, role : GateRole]

\* A caller lists its roles for the document and may name groups beside them.
Registrations      == [kind : {"register"}, anchor : Anchor, own : SUBSET GateRole,
                       refs : SUBSET Groups, ifAbsent : BOOLEAN]
Attachments        == [kind : {"attach"}, groupRef : Groups, role : GateRole]
Detachments        == [kind : {"detach"}, groupRef : Groups]
GroupRegistrations == [kind : {"groupRegister"}, groupRef : Groups, portal : Portals]
GroupDeletions     == [kind : {"groupDelete"}, groupRef : Groups]

ASSUME RoutingOperationsAssumption ==
  Operations \subseteq Registrations \cup Attachments \cup Detachments
                         \cup GroupRegistrations \cup GroupDeletions
ASSUME MaxRootsAssumption == MaxRoots \in Nat \ {0}
ASSUME AbsenceAssumption == NoAnchor \notin Anchor /\ NoPortal \notin Portals

VARIABLES
  anchor, ownRoots, groupRoots,   \* the gate_docs row
  portalOf,                       \* the gate_groups rows, by their portal
  pc, op, plan,                   \* the requests in flight
  reply,     \* the answer that the last step sent
  overtaken, \* history: another request changed the tables under this one
  deleted    \* history: the groups that were ever deleted

tables == <<anchor, ownRoots, groupRoots, portalOf>>
vars == <<tables, pc, op, plan, reply, overtaken, deleted>>

NoOp == [kind |-> "none"]
\* What a request remembers of its reads: the anchor, the group entries, a
\* role, and the named groups it has yet to look up.
NoPlan == [anchor |-> NoAnchor, entries |-> <<>>, role |-> NoRole, refs |-> {}]
Plan == [anchor : Anchor \cup {NoAnchor}, entries : Seq(Entry),
         role : GateRole \cup {NoRole}, refs : SUBSET Groups]
ReplyKind == {"none", "ok", "unknown-doc", "unknown-group", "anchor-mismatch",
              "cross-portal", "error"}
NoReply == [kind |-> "none", evicted |-> FALSE]
PC == {"idle", "refs", "read", "create", "reread", "refresh", "group", "decide",
       "push", "relabel", "pull", "members", "delete"}

----------------------------------------------------------------------------
(* The routing table. *)

EntriesOf(roots, g) == {i \in DOMAIN roots : roots[i].groupRef = g}
FirstOf(roots, g) == CHOOSE i \in EntriesOf(roots, g) : \A j \in EntriesOf(roots, g) : i <= j

\* find() and the positional $ both see the first entry of the group only.
RoleOf(roots, g) == IF EntriesOf(roots, g) = {} THEN NoRole
                    ELSE roots[FirstOf(roots, g)].role
Relabelled(roots, g, role) == IF EntriesOf(roots, g) = {} THEN roots
                              ELSE [roots EXCEPT ![FirstOf(roots, g)].role = role]

\* $pull drops every entry of the group: the entries kept of the first n.
Kept(roots, g) ==
  LET kept[n \in 0 .. Len(roots)] ==
        IF n = 0 THEN <<>>
        ELSE IF roots[n].groupRef = g THEN kept[n - 1] ELSE Append(kept[n - 1], roots[n])
  IN kept
Without(roots, g) == Kept(roots, g)[Len(roots)]

----------------------------------------------------------------------------
(* The life of a request. *)

\* What the step does to the tables is seen by the requests under way.
Observe(r) ==
  /\ overtaken' = [q \in Requests |->
                    pc'[q] # "idle" /\ (overtaken[q] \/ (q # r /\ tables' # tables))]
  /\ deleted' = deleted \cup {g \in Groups : portalOf[g] # NoPortal /\ portalOf'[g] = NoPortal}

Answer(r, kind, evicted) ==
  /\ pc' = [pc EXCEPT ![r] = "idle"]
  /\ op' = [op EXCEPT ![r] = NoOp]
  /\ plan' = [plan EXCEPT ![r] = NoPlan]
  /\ reply' = [kind |-> kind, evicted |-> evicted]
  /\ Observe(r)

\* The answer to an applied update may be lost; the handler then throws.
AnswerWrite(r, kind, evicted) == Answer(r, kind, evicted) \/ Answer(r, "error", FALSE)

Proceed(r, step, what) ==
  /\ pc' = [pc EXCEPT ![r] = step]
  /\ plan' = [plan EXCEPT ![r] = what]
  /\ reply' = NoReply
  /\ UNCHANGED op
  /\ Observe(r)

Go(r, step) == Proceed(r, step, plan[r])

At(r, step, kind) == pc[r] = step /\ op[r].kind = kind

Submit(r) ==
  /\ pc[r] = "idle"
  /\ \E o \in Operations :
       LET named == IF o.kind = "register" THEN o.refs ELSE {}
       IN /\ op' = [op EXCEPT ![r] = o]
          /\ plan' = [plan EXCEPT ![r] = [NoPlan EXCEPT !.refs = named]]
          /\ pc' = [pc EXCEPT ![r] = IF named = {} THEN "read" ELSE "refs"]
  /\ reply' = NoReply
  /\ UNCHANGED <<tables, overtaken, deleted>>

\* A database call fails without effect: 500.  A failed create is caught and
\* is a step of its own below.
DatabaseError(r) ==
  /\ pc[r] \notin {"idle", "create"}
  /\ UNCHANGED tables
  /\ Answer(r, "error", FALSE)

----------------------------------------------------------------------------
(* Register: create the row, or replace the document's own roles. *)

\* The controller looks up the groups the caller named, one after another.
RegisterRefs(r) ==
  /\ At(r, "refs", "register")
  /\ UNCHANGED tables
  /\ \E g \in plan[r].refs :
       \/ portalOf[g] = NoPortal /\ Answer(r, "unknown-group", FALSE)
       \/ portalOf[g] \notin {NoPortal, op[r].anchor.portal} /\ Answer(r, "cross-portal", FALSE)
       \/ /\ portalOf[g] = op[r].anchor.portal
          /\ Proceed(r, IF plan[r].refs = {g} THEN "read" ELSE "refs",
                     [plan[r] EXCEPT !.refs = @ \ {g}])

\* The row is there: its anchor decides, and the group entries are remembered
\* for the refresh.
RegisterExisting(r) ==
  \/ anchor # op[r].anchor /\ Answer(r, "anchor-mismatch", FALSE)
  \/ anchor = op[r].anchor /\ op[r].ifAbsent /\ Answer(r, "ok", FALSE)
  \/ /\ anchor = op[r].anchor /\ ~op[r].ifAbsent
     /\ Proceed(r, "refresh", [plan[r] EXCEPT !.entries = groupRoots])

RegisterRead(r) ==
  /\ At(r, "read", "register")
  /\ UNCHANGED tables
  /\ IF anchor = NoAnchor THEN Go(r, "create") ELSE RegisterExisting(r)

\* Mutant of RegisterCreate: the row is written without the unique index.
RegisterCreateOverwrites(r) ==
  /\ At(r, "create", "register")
  /\ anchor' = op[r].anchor
  /\ ownRoots' = op[r].own
  /\ groupRoots' = <<>>
  /\ UNCHANGED portalOf
  /\ Answer(r, "ok", FALSE) \/ Go(r, "reread")

\* Of two creates the unique index on docId lets one through.  Any error of
\* the create, a lost answer included, sends the handler to read again.
RegisterCreate(r) ==
  /\ At(r, "create", "register")
  /\ \/ /\ anchor = NoAnchor
        /\ anchor' = op[r].anchor
        /\ ownRoots' = op[r].own
        /\ groupRoots' = <<>>
        /\ UNCHANGED portalOf
        /\ Answer(r, "ok", FALSE) \/ Go(r, "reread")
     \/ UNCHANGED tables /\ Go(r, "reread")

RegisterReread(r) ==
  /\ At(r, "reread", "register")
  /\ UNCHANGED tables
  /\ IF anchor = NoAnchor THEN Answer(r, "error", FALSE) ELSE RegisterExisting(r)

\* Mutant of RegisterRefresh: the caller's list replaces the whole array.
RegisterReplacesAll(r) ==
  /\ At(r, "refresh", "register")
  /\ ownRoots' = op[r].own
  /\ groupRoots' = <<>>
  /\ UNCHANGED <<anchor, portalOf>>
  /\ AnswerWrite(r, "ok", FALSE)

\* Mutant of RegisterRefresh: a group that the caller named is stored too.
RegisterKeepsForeign(r) ==
  /\ At(r, "refresh", "register")
  /\ ownRoots' = op[r].own
  /\ \/ op[r].refs = {} /\ groupRoots' = plan[r].entries
     \/ \E g \in op[r].refs :
          groupRoots' = <<[groupRef |-> g, role |-> "edit"]>> \o plan[r].entries
  /\ UNCHANGED <<anchor, portalOf>>
  /\ AnswerWrite(r, "ok", FALSE)

\* The whole array is written: the caller's roles and the entries of the read.
RegisterRefresh(r) ==
  /\ At(r, "refresh", "register")
  /\ ownRoots' = op[r].own
  /\ groupRoots' = plan[r].entries
  /\ UNCHANGED <<anchor, portalOf>>
  /\ AnswerWrite(r, "ok", FALSE)

----------------------------------------------------------------------------
(* Attach and detach. *)

AttachRead(r) ==
  /\ At(r, "read", "attach")
  /\ UNCHANGED tables
  /\ IF anchor = NoAnchor THEN Answer(r, "unknown-doc", FALSE)
     ELSE Proceed(r, "group", [plan[r] EXCEPT !.anchor = anchor])

\* Mutant of AttachGroup: any registered group will do.
AttachIgnoresPortal(r) ==
  /\ At(r, "group", "attach")
  /\ UNCHANGED tables
  /\ IF portalOf[op[r].groupRef] = NoPortal THEN Answer(r, "unknown-group", FALSE)
                                            ELSE Go(r, "decide")

AttachGroup(r) ==
  LET portal == portalOf[op[r].groupRef]
  IN /\ At(r, "group", "attach")
     /\ UNCHANGED tables
     /\ \/ portal = NoPortal /\ Answer(r, "unknown-group", FALSE)
        \/ portal \notin {NoPortal, plan[r].anchor.portal} /\ Answer(r, "cross-portal", FALSE)
        \/ portal = plan[r].anchor.portal /\ Go(r, "decide")

\* Mutant of AttachDecide: an attached group keeps its role.
AttachKeepsRole(r) ==
  /\ At(r, "decide", "attach")
  /\ UNCHANGED tables
  /\ IF RoleOf(groupRoots, op[r].groupRef) = NoRole THEN Go(r, "push")
                                                    ELSE Answer(r, "ok", FALSE)

AttachDecide(r) ==
  LET role == RoleOf(groupRoots, op[r].groupRef)
  IN /\ At(r, "decide", "attach")
     /\ UNCHANGED tables
     /\ \/ role = op[r].role /\ Answer(r, "ok", FALSE)
        \/ role \notin {op[r].role, NoRole} /\ Go(r, "relabel")
        \/ role = NoRole /\ Go(r, "push")

\* The bound MaxRoots is on the pushes.
AttachPush(r) ==
  /\ At(r, "push", "attach")
  /\ Len(groupRoots) < MaxRoots
  /\ groupRoots' = Append(groupRoots, [groupRef |-> op[r].groupRef, role |-> op[r].role])
  /\ UNCHANGED <<anchor, ownRoots, portalOf>>
  /\ AnswerWrite(r, "ok", FALSE)

AttachRelabel(r) ==
  /\ At(r, "relabel", "attach")
  /\ groupRoots' = Relabelled(groupRoots, op[r].groupRef, op[r].role)
  /\ UNCHANGED <<anchor, ownRoots, portalOf>>
  /\ AnswerWrite(r, "ok", FALSE)

\* The role the group has in the controller's read is the one it will report.
DetachRead(r) ==
  /\ At(r, "read", "detach")
  /\ UNCHANGED tables
  /\ IF anchor = NoAnchor THEN Answer(r, "unknown-doc", FALSE)
     ELSE Proceed(r, "decide", [plan[r] EXCEPT !.role = RoleOf(groupRoots, op[r].groupRef)])

\* A group that was attached at edit is looked up for its members.
DetachDecide(r) ==
  /\ At(r, "decide", "detach")
  /\ UNCHANGED tables
  /\ \/ EntriesOf(groupRoots, op[r].groupRef) # {} /\ Go(r, "pull")
     \/ /\ EntriesOf(groupRoots, op[r].groupRef) = {}
        /\ IF plan[r].role = "edit" THEN Go(r, "members") ELSE Answer(r, "ok", FALSE)

\* Mutant of DetachPull: the role is looked up when it is already gone.
DetachReadsRoleLate(r) ==
  /\ At(r, "pull", "detach")
  /\ groupRoots' = Without(groupRoots, op[r].groupRef)
  /\ UNCHANGED <<anchor, ownRoots, portalOf>>
  /\ \/ IF RoleOf(groupRoots', op[r].groupRef) = "edit" THEN Go(r, "members")
                                                        ELSE Answer(r, "ok", FALSE)
     \/ Answer(r, "error", FALSE)

DetachPull(r) ==
  /\ At(r, "pull", "detach")
  /\ groupRoots' = Without(groupRoots, op[r].groupRef)
  /\ UNCHANGED <<anchor, ownRoots, portalOf>>
  /\ \/ IF plan[r].role = "edit" THEN Go(r, "members") ELSE Answer(r, "ok", FALSE)
     \/ Answer(r, "error", FALSE)

\* The members of a group whose row is gone cannot be reported.
DetachMembers(r) ==
  /\ At(r, "members", "detach")
  /\ UNCHANGED tables
  /\ Answer(r, "ok", portalOf[op[r].groupRef] # NoPortal)

----------------------------------------------------------------------------
(* The rows of the groups. *)

\* Of a group's anchor only the portal is kept, which is all that attach reads of it:
\* chain and file, which are compared as well, may tell any two anchors apart.
GroupExisting(r) ==
  \/ portalOf[op[r].groupRef] = op[r].portal /\ Answer(r, "ok", FALSE)
  \/ Answer(r, "anchor-mismatch", FALSE)

GroupRegisterRead(r) ==
  /\ At(r, "read", "groupRegister")
  /\ UNCHANGED tables
  /\ IF portalOf[op[r].groupRef] = NoPortal THEN Go(r, "create") ELSE GroupExisting(r)

GroupRegisterCreate(r) ==
  /\ At(r, "create", "groupRegister")
  /\ \/ /\ portalOf[op[r].groupRef] = NoPortal
        /\ portalOf' = [portalOf EXCEPT ![op[r].groupRef] = op[r].portal]
        /\ UNCHANGED <<anchor, ownRoots, groupRoots>>
        /\ Answer(r, "ok", FALSE) \/ Go(r, "reread")
     \/ UNCHANGED tables /\ Go(r, "reread")

GroupRegisterReread(r) ==
  /\ At(r, "reread", "groupRegister")
  /\ UNCHANGED tables
  /\ IF portalOf[op[r].groupRef] = NoPortal THEN Answer(r, "error", FALSE) ELSE GroupExisting(r)

GroupDeleteRead(r) ==
  /\ At(r, "read", "groupDelete")
  /\ UNCHANGED tables
  /\ IF portalOf[op[r].groupRef] = NoPortal THEN Answer(r, "unknown-group", FALSE)
                                            ELSE Go(r, "delete")

\* Only the group's row goes; the entries of the documents stay.
GroupDelete(r) ==
  /\ At(r, "delete", "groupDelete")
  /\ portalOf' = [portalOf EXCEPT ![op[r].groupRef] = NoPortal]
  /\ UNCHANGED <<anchor, ownRoots, groupRoots>>
  /\ AnswerWrite(r, "ok", FALSE)

----------------------------------------------------------------------------

Init ==
  /\ anchor = NoAnchor
  /\ ownRoots = {}
  /\ groupRoots = <<>>
  /\ portalOf = [g \in Groups |-> NoPortal]
  /\ pc = [r \in Requests |-> "idle"]
  /\ op = [r \in Requests |-> NoOp]
  /\ plan = [r \in Requests |-> NoPlan]
  /\ reply = NoReply
  /\ overtaken = [r \in Requests |-> FALSE]
  /\ deleted = {}

Step(r) ==
  \/ RegisterRefs(r) \/ RegisterRead(r) \/ RegisterCreate(r) \/ RegisterReread(r)
  \/ RegisterRefresh(r)
  \/ AttachRead(r) \/ AttachGroup(r) \/ AttachDecide(r) \/ AttachPush(r) \/ AttachRelabel(r)
  \/ DetachRead(r) \/ DetachDecide(r) \/ DetachPull(r) \/ DetachMembers(r)
  \/ GroupRegisterRead(r) \/ GroupRegisterCreate(r) \/ GroupRegisterReread(r)
  \/ GroupDeleteRead(r) \/ GroupDelete(r)
  \/ DatabaseError(r)

Next == \E r \in Requests : Submit(r) \/ Step(r)

Spec == Init /\ [][Next]_vars

----------------------------------------------------------------------------
(* Properties. *)

\* The tables keep their shape, and a request that has been answered leaves
\* nothing behind for the next one in its slot.
TypeOK ==
  /\ anchor \in Anchor \cup {NoAnchor}
  /\ ownRoots \subseteq GateRole
  /\ groupRoots \in Seq(Entry) /\ Len(groupRoots) <= MaxRoots
  /\ portalOf \in [Groups -> Portals \cup {NoPortal}]
  /\ pc \in [Requests -> PC]
  /\ op \in [Requests -> Operations \cup {NoOp}]
  /\ plan \in [Requests -> Plan]
  /\ reply \in [kind : ReplyKind, evicted : BOOLEAN]
  /\ overtaken \in [Requests -> BOOLEAN] /\ deleted \subseteq Groups
  /\ \A r \in Requests : pc[r] = "idle" => op[r] = NoOp /\ plan[r] = NoPlan

\* r answers its request in this step.
Answers(r, kind) == pc[r] # "idle" /\ pc'[r] = "idle" /\ reply'.kind = kind

\* First writer wins: the anchor of a row never changes, and a register that
\* answers ok holds the anchor it asked for, also when two creates race or the
\* answer to a create is lost (register.ts, D-1).
AnchorPinned ==
  [][/\ anchor # NoAnchor => anchor' = anchor
     /\ \A r \in Requests : op[r].kind = "register" /\ Answers(r, "ok") => anchor' = op[r].anchor]_vars

\* A group in the routing table exists and is on the document's portal, unless
\* it was ever deleted: its ref is then free for any portal (attach.ts,
\* cross-portal rule; group-delete.ts, the entries of the documents stay).
SamePortal ==
  \A i \in DOMAIN groupRoots :
    groupRoots[i].groupRef \notin deleted => portalOf[groupRoots[i].groupRef] = anchor.portal

\* A routed group changes its role, comes or goes only by an attach or a detach
\* that names it, or by a register that is overtaken: somebody else changed the
\* tables between its first read and its write.  Any other register "must never
\* silently detach groups" (register.ts:22).
OnlyNamedGroupsMove ==
  [][\A g \in Groups : RoleOf(groupRoots', g) # RoleOf(groupRoots, g) =>
       \E r \in Requests :
         /\ pc'[r] # pc[r]
         /\ \/ op[r].kind \in {"attach", "detach"} /\ op[r].groupRef = g
            \/ At(r, "refresh", "register") /\ overtaken[r]]_vars

\* The two that follow hold for every request that is not overtaken.

\* When an attach is acknowledged, the role that every reader finds for the group
\* is the one it asked for (group-attach.ts, "relabeled in place").
AttachMovesRole ==
  [][\A r \in Requests : op[r].kind = "attach" /\ Answers(r, "ok") /\ ~overtaken[r] =>
       RoleOf(groupRoots', op[r].groupRef) = op[r].role]_vars

\* A detach that takes an edit entry away goes on to report the group's
\* members (attach.ts, "to detect a detach-from-edit"), unless it fails.
DetachFromEditReported ==
  [][\A r \in Requests :
       /\ At(r, "pull", "detach") /\ pc'[r] # "pull" /\ groupRoots' # groupRoots
       /\ ~overtaken[r] /\ RoleOf(groupRoots, op[r].groupRef) = "edit"
       => pc'[r] = "members" \/ Answers(r, "error")]_vars
=============================================================================
