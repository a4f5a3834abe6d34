-------------------------- MODULE MembershipPolicy --------------------------
(***************************************************************************)
(* What the owner of one gated document is promised about its membership,  *)
(* with every operation atomic.  GateMembership, whose handlers read the   *)
(* row, think, and write it, implements this module.                       *)
(***************************************************************************)
EXTENDS Integers, GateRoles

CONSTANTS IdHashes,     \* salted hashes of attested identifiers
          Commitments,  \* Semaphore identity commitments
          NoCommitment  \* what a free identifier stands for; not a commitment

VARIABLES pinned,   \* who each identifier stands for, and in which role
          barred,   \* the identifiers that may not enroll
          epoch     \* the key epoch of the document

policyVars == <<pinned, barred, epoch>>

Pin == [commitment : Commitments, role : GateRole]
Unpinned == [commitment |-> NoCommitment, role |-> NoRole]

PolicyInit == /\ pinned = [h \in IdHashes |-> Unpinned]
              /\ barred = {}
              /\ epoch = 0

\* A free identifier that is not barred joins; a pin is never moved.
Admit(h) ==
  /\ pinned[h] = Unpinned
  /\ h \notin barred
  /\ \E p \in Pin : pinned' = [pinned EXCEPT ![h] = p]
  /\ UNCHANGED <<barred, epoch>>

\* The member behind h leaves with all its identifiers; the epoch never goes
\* back, and the bar is set in the same step.
Evict(h) ==
  /\ pinned' = [g \in IdHashes |->
       IF pinned[h] # Unpinned /\ pinned[g].commitment = pinned[h].commitment
       THEN Unpinned ELSE pinned[g]]
  /\ barred' \in {barred, barred \cup {h}}
  /\ epoch' \in Nat /\ epoch' >= epoch

\* All the identifiers of the chosen members move to one role together.
Retag ==
  /\ \E who \in SUBSET Commitments, role \in GateRole :
       pinned' = [g \in IdHashes |->
         IF pinned[g].commitment \in who THEN [pinned[g] EXCEPT !.role = role]
                                         ELSE pinned[g]]
  /\ UNCHANGED <<barred, epoch>>

Lift(h) == /\ barred' = barred \ {h}
           /\ UNCHANGED <<pinned, epoch>>

PolicyNext == \/ \E h \in IdHashes : Admit(h) \/ Evict(h) \/ Lift(h)
              \/ Retag

PolicySpec == PolicyInit /\ [][PolicyNext]_policyVars
=============================================================================
