--------------------------- MODULE GateAuth_proofs ---------------------------
(***************************************************************************)
(* Proofs about GateAuth, for any sets of resources, portals, addresses,   *)
(* keys, identities and requests and any number of changes of the chain.   *)
(***************************************************************************)
EXTENDS GateAuth, TLAPS

\* The histories record the present, and a torn read is noticed.
Recorded(r) ==
  /\ pc[r] \in Checking /\ Admissible(req[r]) => live[r]
  /\ pc[r] \in Checking \cup Proving /\ Proves(req[r]) => proved[r]
  /\ pc[r] = "key" => torn[r] \/ saw[r] = owner[req[r].anchor]

\* A request is at a place of its operation, with the row as it still is.
Placed(r) ==
  /\ pc[r] \in {"owner", "key"} => req[r].actor = None
  /\ pc[r] = "collaborator" => req[r].actor # None
  /\ pc[r] = "capture" => req[r].op = "register"
  /\ pc[r] = "identity" => req[r].op = "admin"
  /\ pc[r] # "idle" /\ req[r].op # "register" =>
       rows[req[r].resource] # NoRow /\ copy[r] = rows[req[r].resource]

\* What a request has shown when it gets past a check.
Shown(r) ==
  /\ pc[r] \in Proving \cup {"write"} => live[r] \/ torn[r]
  /\ pc[r] = "write" /\ req[r].op = "register" /\ saw[r] # None =>
       saw[r] = req[r].proof.of /\ proved[r]
  /\ pc[r] = "write" /\ req[r].op = "admin" /\ copy[r].bound # None =>
       req[r].proof.of = copy[r].bound /\ proved[r]

IInv == TypeOK /\ \A r \in Requests : Recorded(r) /\ Placed(r) /\ Shown(r)

----------------------------------------------------------------------------
(* Every request and row has one of its shapes. *)

LEMMA Shapes ==
  /\ \A q \in Request :
       /\ q # NoRequest
       /\ q.op \in {"register", "admin", "use"}
       /\ q.resource \in Resources /\ q.anchor \in Anchor /\ q.issuer \in Dids
       /\ q.actor \in Addresses \cup {None} /\ q.proof \in Proof \cup {NoProof}
  /\ \A row \in Row : row # NoRow /\ row.anchor # NoAnchor
  /\ NoRow.bound = None /\ NoRow.anchor = NoAnchor /\ NoAnchor \notin Anchor
<1>1. \A q \in Request :
        /\ q.op \in {"register", "admin", "use"}
        /\ q.resource \in Resources /\ q.anchor \in Anchor /\ q.issuer \in Dids
        /\ q.actor \in Addresses \cup {None} /\ q.proof \in Proof \cup {NoProof}
  BY DEF Request
<1>2. \A q \in Request : q # NoRequest
  BY <1>1 DEF NoRequest, None
<1>3. NoAnchor \notin Anchor
  BY NoneIsNoValue DEF Anchor, NoAnchor
<1>4. QED BY <1>1, <1>2, <1>3 DEF Row, NoRow

LEMMA Holds ==
  ASSUME TypeOK, NEW r \in Requests, pc[r] # "idle"
  PROVE  req[r] \in Request
BY DEF TypeOK

----------------------------------------------------------------------------
(* Initially. *)

LEMMA InitIInv == Init => IInv
<1>. SUFFICES ASSUME Init PROVE IInv
  OBVIOUS
<1>1. TypeOK
  BY MaxChangesType DEF Init, TypeOK
<1>2. QED BY <1>1 DEF Init, IInv, Recorded, Placed, Shown, Checking, Proving

----------------------------------------------------------------------------
(* A change of the chain. *)

LEMMA ChangeIInv ==
  ASSUME IInv, Change,
         owner' \in [Anchor -> Addresses], key' \in [Portals -> [Addresses -> Dids \cup {None}]],
         signer' \in [Identities -> Signers \cup {None}]
  PROVE  IInv'
<1>1. TypeOK'
  BY MaxChangesType DEF IInv, TypeOK, Change
<1>2. ASSUME NEW r \in Requests PROVE Recorded(r)'
  <2>1. /\ live'[r] = (live[r] \/ (pc[r] \in Checking /\ Admissible(req[r])'))
        /\ proved'[r] = (proved[r] \/ (pc[r] \in Checking \cup Proving /\ Proves(req[r])'))
        /\ torn'[r] = (torn[r] \/ (pc[r] = "key" /\ owner'[req[r].anchor] # saw[r]))
    BY DEF Change
  <2>2. pc' = pc /\ req' = req /\ saw' = saw
    BY DEF Change
  <2>3. QED BY <2>1, <2>2 DEF Recorded
<1>3. ASSUME NEW r \in Requests PROVE Placed(r)'
  BY DEF IInv, Placed, Change
<1>4. ASSUME NEW r \in Requests PROVE Shown(r)'
  <2>1. /\ live[r] => live'[r]
        /\ torn[r] => torn'[r]
        /\ proved[r] => proved'[r]
    BY DEF Change
  <2>2. pc' = pc /\ req' = req /\ saw' = saw /\ copy' = copy
    BY DEF Change
  <2>3. QED BY <2>1, <2>2 DEF IInv, Shown
<1>5. QED BY <1>1, <1>2, <1>3, <1>4 DEF IInv

----------------------------------------------------------------------------
(* The steps of a request leave the others alone. *)

\* What a step of r changes for requests other than r: at most the rows, and
\* those only where there was none.
Elsewhere(r) ==
  /\ UNCHANGED chain
  /\ \A d \in Resources : rows[d] # NoRow => rows'[d] = rows[d]
  /\ \A s \in Requests \ {r} :
       /\ pc'[s] = pc[s] /\ req'[s] = req[s] /\ copy'[s] = copy[s] /\ saw'[s] = saw[s]
       /\ live'[s] = live[s] /\ torn'[s] = torn[s] /\ proved'[s] = proved[s]

LEMMA StepOf ==
  ASSUME IInv, TypeOK', NEW r \in Requests, Elsewhere(r),
         Recorded(r)', Placed(r)', Shown(r)'
  PROVE  IInv'
<1>1. ASSUME NEW s \in Requests \ {r} PROVE Recorded(s)' /\ Placed(s)' /\ Shown(s)'
  <2>1. Recorded(s) /\ Placed(s) /\ Shown(s)
    BY DEF IInv
  <2>2. Recorded(s)'
    BY <2>1 DEF Elsewhere, Recorded, Admissible, Holder, Proves, chain
  <2>3. pc[s] # "idle" => req[s].resource \in Resources
    BY Holds, Shapes DEF IInv
  <2>4. Placed(s)'
    BY <2>1, <2>3 DEF Elsewhere, Placed
  <2>5. Shown(s)'
    BY <2>1 DEF Elsewhere, Shown
  <2>6. QED BY <2>2, <2>4, <2>5
<1>2. QED BY <1>1 DEF IInv

\* An answer frees the request's slot.
LEMMA AnswerIInv ==
  ASSUME IInv, NEW r \in Requests, Answer(r), UNCHANGED chain,
         rows' \in [Resources -> Row \cup {NoRow}], writer' \in [Resources -> Dids \cup {None}],
         \A d \in Resources : rows[d] # NoRow => rows'[d] = rows[d]
  PROVE  IInv'
<1>1. pc'[r] = "idle" /\ req'[r] = NoRequest /\ copy'[r] = NoRow /\ saw'[r] = None
  BY DEF Answer, IInv, TypeOK
<1>2. TypeOK'
  BY DEF IInv, TypeOK, Answer, Forget, chain
<1>3. Elsewhere(r)
  BY DEF Elsewhere, Answer, Forget, IInv, TypeOK
<1>4. Recorded(r)' /\ Placed(r)' /\ Shown(r)'
  BY <1>1 DEF Recorded, Placed, Shown, Checking, Proving
<1>5. QED BY <1>2, <1>3, <1>4, StepOf

\* A step forward keeps the request and its histories.
LEMMA GoIInv ==
  ASSUME IInv, NEW r \in Requests, pc[r] # "idle", UNCHANGED <<chain, rows, writer>>,
         NEW step \in {"key", "capture", "identity", "write"}, NEW seen, Go(r, step, seen),
         IF step = "key" THEN seen \in Addresses ELSE seen \in Identities \cup {None},
         Recorded(r)', Placed(r)', Shown(r)'
  PROVE  IInv'
<1>1. TypeOK'
  BY DEF IInv, TypeOK, Go, chain, history, Checking, Proving
<1>2. Elsewhere(r)
  BY DEF Elsewhere, Go, history, IInv, TypeOK
<1>3. QED BY <1>1, <1>2, StepOf

----------------------------------------------------------------------------
(* Each step. *)

LEMMA SubmitIInv == ASSUME IInv, NEW r \in Requests, Submit(r) PROVE IInv'
<1>. PICK q \in Request :
       /\ q.op # "register" => q.anchor = rows[q.resource].anchor
       /\ req' = [req EXCEPT ![r] = q]
       /\ copy' = [copy EXCEPT ![r] = IF q.op = "register" THEN NoRow ELSE rows[q.resource]]
       /\ pc' = [pc EXCEPT ![r] = IF q.actor = None THEN "owner" ELSE "collaborator"]
       /\ live' = [live EXCEPT ![r] = Admissible(q)]
       /\ proved' = [proved EXCEPT ![r] = Proves(q)]
  BY DEF Submit
<1>0. UNCHANGED <<chain, rows, writer, saw, torn>> /\ pc[r] = "idle"
  BY DEF Submit
<1>1. /\ pc'[r] = IF q.actor = None THEN "owner" ELSE "collaborator"
      /\ req'[r] = q /\ live'[r] = Admissible(q) /\ proved'[r] = Proves(q)
      /\ copy'[r] = IF q.op = "register" THEN NoRow ELSE rows[q.resource]
      /\ saw'[r] = saw[r]
  BY <1>0 DEF IInv, TypeOK
<1>2. q.resource \in Resources /\ q.anchor \in Anchor /\ q # NoRequest
  BY Shapes
<1>3. TypeOK'
  <2>1. Admissible(q) \in BOOLEAN /\ Proves(q) \in BOOLEAN
    BY DEF Admissible, Proves
  <2>2. copy'[r] \in Row \cup {NoRow}
    BY <1>1, <1>2 DEF IInv, TypeOK
  <2>3. /\ owner' = owner /\ key' = key /\ signer' = signer /\ changes' = changes
        /\ rows' = rows /\ writer' = writer /\ saw' = saw /\ torn' = torn
    BY <1>0 DEF chain
  <2>4. QED BY <1>0, <1>1, <1>2, <2>1, <2>2, <2>3 DEF IInv, TypeOK, Checking, Proving
<1>4. Elsewhere(r)
  BY <1>0 DEF Elsewhere, IInv, TypeOK
<1>5. Recorded(r)'
  <2>1. Admissible(req[r])' = Admissible(q) /\ Proves(req[r])' = Proves(q)
    BY <1>0, <1>1 DEF Admissible, Holder, Proves, chain
  <2>2. pc'[r] # "key"
    BY <1>1
  <2>3. QED BY <1>1, <2>1, <2>2 DEF Recorded
<1>6. Placed(r)'
  <2>1. pc'[r] \in {"owner", "collaborator"} /\ (pc'[r] = "collaborator" <=> q.actor # None)
    BY <1>1
  <2>2. q.op # "register" => rows'[q.resource] # NoRow /\ copy'[r] = rows'[q.resource]
    BY <1>0, <1>1, <1>2, Shapes
  <2>3. QED BY <1>1, <2>1, <2>2 DEF Placed
<1>7. Shown(r)'
  BY <1>1 DEF Shown, Proving
<1>8. QED BY <1>3, <1>4, <1>5, <1>6, <1>7, StepOf

LEMMA ReadOwnerIInv == ASSUME IInv, NEW r \in Requests, ReadOwner(r) PROVE IInv'
<1>1. /\ pc[r] = "owner" /\ Go(r, "key", owner[req[r].anchor])
      /\ UNCHANGED <<chain, rows, writer>>
  BY DEF ReadOwner
<1>2. owner[req[r].anchor] \in Addresses
  BY <1>1, Holds, Shapes DEF IInv, TypeOK
<1>3. /\ pc'[r] = "key" /\ saw'[r] = owner[req[r].anchor] /\ req' = req /\ copy' = copy
      /\ live' = live /\ torn' = torn /\ proved' = proved
  BY <1>1 DEF Go, history, IInv, TypeOK
<1>4. Recorded(r)'
  BY <1>1, <1>3 DEF IInv, Recorded, Checking, Admissible, Holder, Proves, chain
<1>5. Placed(r)' /\ Shown(r)'
  BY <1>1, <1>3 DEF IInv, Placed, Shown, Proving
<1>6. QED BY <1>1, <1>2, <1>4, <1>5, GoIInv

\* A check is passed by a request that was admissible, or that was torn.
LEMMA PassIInv ==
  ASSUME IInv, NEW r \in Requests, pc[r] \in Checking, live[r] \/ torn[r],
         Pass(r), UNCHANGED <<chain, rows, writer>>
  PROVE  IInv'
<1>1. CASE Answer(r)
  BY <1>1, AnswerIInv DEF IInv, TypeOK
<1>2. ASSUME NEW step \in {"capture", "identity", "write"}, Go(r, step, None),
             step = "capture" => req[r].op = "register",
             step = "identity" => req[r].op = "admin",
             step = "write" => ~(req[r].op = "admin" /\ copy[r].bound # None)
      PROVE  IInv'
  <2>1. /\ pc'[r] = step /\ saw'[r] = None /\ req' = req /\ copy' = copy
        /\ live' = live /\ torn' = torn /\ proved' = proved
    BY <1>2 DEF Go, history, IInv, TypeOK
  <2>2. Recorded(r)'
    BY <1>2, <2>1 DEF IInv, Recorded, Checking, Proving, Admissible, Holder, Proves, chain
  <2>3. Placed(r)'
    BY <1>2, <2>1 DEF IInv, Placed, Checking
  <2>4. Shown(r)'
    BY <1>2, <2>1 DEF Shown, Proving
  <2>5. pc[r] # "idle"
    BY DEF Checking
  <2>6. QED BY <1>2, <2>2, <2>3, <2>4, <2>5, GoIInv
<1>3. QED BY <1>1, <1>2 DEF Pass

LEMMA ReadKeyIInv == ASSUME IInv, NEW r \in Requests, ReadKey(r) PROVE IInv'
<1>1. pc[r] = "key" /\ UNCHANGED <<chain, rows, writer>>
  BY DEF ReadKey
<1>2. CASE key[req[r].anchor.portal][saw[r]] = req[r].issuer /\ Pass(r)
  <2>1. live[r] \/ torn[r]
    BY <1>1, <1>2 DEF IInv, Recorded, Placed, Checking, Admissible, Holder
  <2>2. QED BY <1>1, <1>2, <2>1, PassIInv DEF Checking
<1>3. CASE Answer(r)
  BY <1>1, <1>3, AnswerIInv DEF IInv, TypeOK
<1>4. QED BY <1>2, <1>3 DEF ReadKey

LEMMA ReadCollaboratorIInv ==
  ASSUME IInv, NEW r \in Requests, ReadCollaborator(r) PROVE IInv'
<1>1. pc[r] = "collaborator" /\ UNCHANGED <<chain, rows, writer>>
  BY DEF ReadCollaborator
<1>2. CASE key[req[r].anchor.portal][req[r].actor] = req[r].issuer /\ Pass(r)
  <2>1. live[r]
    BY <1>1, <1>2 DEF IInv, Recorded, Placed, Checking, Admissible, Holder
  <2>2. QED BY <1>1, <1>2, <2>1, PassIInv DEF Checking
<1>3. CASE Answer(r)
  BY <1>1, <1>3, AnswerIInv DEF IInv, TypeOK
<1>4. QED BY <1>2, <1>3 DEF ReadCollaborator

LEMMA ChainFailsIInv == ASSUME IInv, NEW r \in Requests, ChainFails(r) PROVE IInv'
<1>1. Answer(r) /\ UNCHANGED <<chain, rows, writer>>
  BY DEF ChainFails
<1>2. QED BY <1>1, AnswerIInv DEF IInv, TypeOK

LEMMA CaptureIInv == ASSUME IInv, NEW r \in Requests, Capture(r) PROVE IInv'
<1>1. pc[r] = "capture" /\ UNCHANGED <<chain, rows, writer>>
  BY DEF Capture
<1>2. ASSUME NEW seen, Go(r, "write", seen),
             seen = None \/ (Proves(req[r]) /\ seen = req[r].proof.of)
      PROVE  IInv'
  <2>1. seen \in Identities \cup {None}
    BY <1>1, <1>2, Holds, Shapes DEF IInv, Proves, Proof
  <2>2. /\ pc'[r] = "write" /\ saw'[r] = seen /\ req' = req /\ copy' = copy
        /\ live' = live /\ torn' = torn /\ proved' = proved
    BY <1>2 DEF Go, history, IInv, TypeOK
  <2>3. Recorded(r)'
    BY <2>2 DEF Recorded, Checking, Proving
  <2>4. Placed(r)'
    BY <1>1, <2>2 DEF IInv, Placed
  <2>5. Shown(r)'
    BY <1>1, <1>2, <2>2 DEF IInv, Recorded, Placed, Shown, Checking, Proving
  <2>6. QED BY <1>1, <1>2, <2>1, <2>3, <2>4, <2>5, GoIInv
<1>3. QED BY <1>2 DEF Capture

LEMMA CheckIdentityIInv == ASSUME IInv, NEW r \in Requests, CheckIdentity(r) PROVE IInv'
<1>1. pc[r] = "identity" /\ UNCHANGED <<chain, rows, writer>>
  BY DEF CheckIdentity
<1>2. CASE Proves(req[r]) /\ req[r].proof.of = copy[r].bound /\ Go(r, "write", None)
  <2>1. /\ pc'[r] = "write" /\ saw'[r] = None /\ req' = req /\ copy' = copy
        /\ live' = live /\ torn' = torn /\ proved' = proved
    BY <1>2 DEF Go, history, IInv, TypeOK
  <2>2. Recorded(r)'
    BY <2>1 DEF Recorded, Checking, Proving
  <2>3. Placed(r)'
    BY <1>1, <2>1 DEF IInv, Placed
  <2>4. Shown(r)'
    BY <1>1, <1>2, <2>1 DEF IInv, Recorded, Shown, Checking, Proving
  <2>5. QED BY <1>1, <1>2, <2>2, <2>3, <2>4, GoIInv
<1>3. CASE Answer(r)
  BY <1>1, <1>3, AnswerIInv DEF IInv, TypeOK
<1>4. QED BY <1>2, <1>3 DEF CheckIdentity

\* A write creates the row, writes one that stays what it was, or nothing; what
\* it writes is the issuer's, and the row is on the anchor of the request.
LEMMA WriteCases ==
  ASSUME IInv, NEW r \in Requests, Write(r)
  PROVE  /\ pc[r] = "write" /\ Answer(r) /\ UNCHANGED chain
         /\ \/ Creates(r) /\ rows' = [rows EXCEPT ![req[r].resource] = New(r)]
            \/ ~Creates(r) /\ rows' = rows /\ rows[req[r].resource].anchor = req[r].anchor
            \/ rows' = rows /\ writer' = writer
         /\ \/ writer' = [writer EXCEPT ![req[r].resource] = req[r].issuer]
            \/ rows' = rows /\ writer' = writer
<1>1. CASE Creates(r) /\ Store(r, New(r))
  BY <1>1 DEF Write, Store
<1>2. CASE ~Creates(r) /\ Stored(r).anchor = req[r].anchor /\ Store(r, Stored(r))
  <2>1. rows' = rows
    BY <1>2 DEF Store, Stored, IInv, TypeOK
  <2>2. QED BY <1>2, <2>1 DEF Write, Store, Stored
<1>3. CASE UNCHANGED <<rows, writer>>
  BY <1>3 DEF Write
<1>4. QED BY <1>1, <1>2, <1>3 DEF Write

LEMMA WriteIInv == ASSUME IInv, NEW r \in Requests, Write(r) PROVE IInv'
<1>1. pc[r] = "write" /\ Answer(r) /\ UNCHANGED chain
  BY WriteCases
<1>2. req[r].resource \in Resources /\ req[r].anchor \in Anchor /\ req[r].issuer \in Dids
  BY <1>1, Holds, Shapes DEF IInv
<1>3. saw[r] \in Identities \cup {None}
  BY <1>1 DEF IInv, TypeOK
<1>4. New(r) \in Row
  BY <1>2, <1>3 DEF New, Row
<1>5. rows' = rows \/ (Creates(r) /\ rows' = [rows EXCEPT ![req[r].resource] = New(r)])
  BY WriteCases
<1>6. rows' \in [Resources -> Row \cup {NoRow}]
  BY <1>4, <1>5 DEF IInv, TypeOK
<1>7. writer' \in [Resources -> Dids \cup {None}]
  BY <1>2, WriteCases DEF IInv, TypeOK
<1>8. \A d \in Resources : rows[d] # NoRow => rows'[d] = rows[d]
  BY <1>5 DEF Creates, Stored, IInv, TypeOK
<1>9. QED BY <1>1, <1>6, <1>7, <1>8, AnswerIInv

LEMMA NextIInv == IInv /\ [Next]_vars => IInv'
<1>. SUFFICES ASSUME IInv, [Next]_vars PROVE IInv'
  OBVIOUS
<1>1. CASE Transfer
  BY <1>1, ChangeIInv DEF Transfer, IInv, TypeOK
<1>2. CASE SetKey
  BY <1>2, ChangeIInv DEF SetKey, IInv, TypeOK
<1>3. CASE RotateSigner
  BY <1>3, ChangeIInv DEF RotateSigner, IInv, TypeOK
<1>4. ASSUME NEW r \in Requests, Submit(r) \/ Handle(r) PROVE IInv'
  BY <1>4, SubmitIInv, ReadOwnerIInv, ReadKeyIInv, ReadCollaboratorIInv, ChainFailsIInv,
     CaptureIInv, CheckIdentityIInv, WriteIInv DEF Handle
<1>5. CASE UNCHANGED vars
  BY <1>5 DEF vars, chain, history, IInv, TypeOK, Recorded, Placed, Shown, Admissible, Holder, Proves
<1>6. QED BY <1>1, <1>2, <1>3, <1>4, <1>5 DEF Next

----------------------------------------------------------------------------
(* The theorems. *)

LEMMA Inductive == Spec => []IInv
<1>. QED BY InitIInv, NextIInv, PTL DEF Spec

\* The chain, the rows and the requests keep their shape (owner-auth.ts).
THEOREM TypeCorrect == Spec => []TypeOK
<1>1. IInv => TypeOK
  BY DEF IInv
<1>. QED BY <1>1, Inductive, PTL

\* Nobody passes the check who was not admissible at one instant of the request,
\* unless the anchor changed its owner between the two calls (portal-reader.ts).
THEOREM NoStaleKey == Spec => []PassedWasLive
<1>1. IInv => PassedWasLive
  BY DEF IInv, Shown, PassedWasLive
<1>. QED BY <1>1, Inductive, PTL

\* The winner of the registers pins the row, with an identity it has proved
\* (register.ts, "immutable in registerGateDoc").
THEOREM BindingPinned == Spec => BindingIsWinnersProof
<1>. DEFINE Won(d) ==
       rows'[d] # rows[d] =>
         /\ rows[d] = NoRow
         /\ \E r \in Requests :
              /\ pc[r] = "write" /\ req[r].op = "register" /\ req[r].resource = d
              /\ rows'[d].anchor = req[r].anchor
              /\ live[r] \/ torn[r]
              /\ rows'[d].bound # None => rows'[d].bound = req[r].proof.of /\ proved[r]
<1>1. ASSUME IInv, [Next]_vars, NEW d \in Resources PROVE Won(d)
  <2>. SUFFICES ASSUME rows'[d] # rows[d] PROVE Won(d)
    OBVIOUS
  <2>1. PICK r \in Requests : Write(r)
    BY <1>1 DEF Next, Transfer, SetKey, RotateSigner, Change, Handle, Submit, ReadOwner, ReadKey,
                ReadCollaborator, ChainFails, Capture, CheckIdentity, vars
  <2>2. /\ pc[r] = "write" /\ req[r].op = "register" /\ rows[req[r].resource] = NoRow
        /\ rows' = [rows EXCEPT ![req[r].resource] = [anchor |-> req[r].anchor, bound |-> saw[r]]]
    BY <1>1, <2>1, WriteCases DEF Creates, Stored, New
  <2>3. req[r].resource = d
    BY <1>1, <2>2 DEF IInv, TypeOK
  <2>4. rows'[d].anchor = req[r].anchor /\ rows'[d].bound = saw[r]
    BY <1>1, <2>2, <2>3 DEF IInv, TypeOK
  <2>5. live[r] \/ torn[r]
    BY <1>1, <2>2 DEF IInv, Shown
  <2>6. saw[r] # None => saw[r] = req[r].proof.of /\ proved[r]
    BY <1>1, <2>2 DEF IInv, Shown
  <2>7. QED BY <2>2, <2>3, <2>4, <2>5, <2>6
<1>2. IInv /\ [Next]_vars => [\A d \in Resources : Won(d)]_vars
  BY <1>1
<1>3. QED BY <1>2, Inductive, PTL DEF Spec, BindingIsWinnersProof

\* Whatever a request writes, it was admissible on the anchor of the row it writes,
\* and an operation that asks for an identity has proved the bound one; register
\* refreshes, enrolls and shares do not ask (register.ts, owner-auth.ts).
THEOREM WritersAuthorized == Spec => WritesAreAuthorized
<1>. DEFINE By(r, d) ==
       /\ pc[r] = "write" /\ pc'[r] = "idle" /\ req[r].resource = d
       /\ writer'[d] = req[r].issuer /\ rows'[d].anchor = req[r].anchor
       /\ live[r] \/ torn[r]
       /\ req[r].op = "admin" /\ rows[d].bound # None
            => req[r].proof.of = rows[d].bound /\ proved[r]
<1>1. ASSUME IInv, [Next]_vars, NEW d \in Resources,
             <<rows'[d], writer'[d]>> # <<rows[d], writer[d]>>
      PROVE  \E r \in Requests : By(r, d)
  <2>0. rows' # rows \/ writer' # writer
    BY <1>1
  <2>1. PICK r \in Requests : Write(r)
    <3>1. \A s \in Requests :
            /\ Submit(s) => UNCHANGED <<rows, writer>>
            /\ Handle(s) => Write(s) \/ UNCHANGED <<rows, writer>>
      BY DEF Handle, Submit, ReadOwner, ReadKey, ReadCollaborator, ChainFails, Capture, CheckIdentity
    <3>2. Transfer \/ SetKey \/ RotateSigner \/ UNCHANGED vars => UNCHANGED <<rows, writer>>
      BY DEF Transfer, SetKey, RotateSigner, Change, vars
    <3>3. QED BY <1>1, <2>0, <3>1, <3>2 DEF Next
  <2>2. pc[r] = "write" /\ Answer(r)
    BY <1>1, <2>1, WriteCases
  <2>3. pc'[r] = "idle"
    BY <1>1, <2>2 DEF Answer, IInv, TypeOK
  <2>4. writer' = [writer EXCEPT ![req[r].resource] = req[r].issuer]
    BY <1>1, <2>0, <2>1, WriteCases
  <2>5. req[r].resource = d
    <3>1. rows'[d] # rows[d] \/ writer'[d] # writer[d]
      BY <1>1
    <3>2. rows' = rows \/ rows' = [rows EXCEPT ![req[r].resource] = New(r)]
      BY <1>1, <2>1, WriteCases
    <3>3. QED BY <1>1, <2>4, <3>1, <3>2 DEF IInv, TypeOK
  <2>6. writer'[d] = req[r].issuer
    BY <1>1, <2>4, <2>5 DEF IInv, TypeOK
  <2>7. rows'[d].anchor = req[r].anchor
    <3>1. CASE rows' = [rows EXCEPT ![req[r].resource] = New(r)]
      BY <1>1, <2>5, <3>1 DEF IInv, TypeOK, New
    <3>2. CASE rows' = rows /\ rows[req[r].resource].anchor = req[r].anchor
      BY <2>5, <3>2
    <3>3. QED BY <1>1, <2>0, <2>1, <3>1, <3>2, WriteCases
  <2>8. live[r] \/ torn[r]
    BY <1>1, <2>2 DEF IInv, Shown
  <2>9. req[r].op = "admin" /\ rows[d].bound # None => req[r].proof.of = rows[d].bound /\ proved[r]
    BY <1>1, <2>2, <2>5 DEF IInv, Placed, Shown
  <2>10. QED BY <2>2, <2>3, <2>5, <2>6, <2>7, <2>8, <2>9
<1>2. IInv /\ [Next]_vars =>
        [\A d \in Resources : <<rows'[d], writer'[d]>> # <<rows[d], writer[d]>> =>
           \E r \in Requests : By(r, d)]_vars
  BY <1>1
<1>3. QED BY <1>2, Inductive, PTL DEF Spec, WritesAreAuthorized
=============================================================================
