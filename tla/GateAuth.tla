------------------------------ MODULE GateAuth ------------------------------
(***************************************************************************)
(* Who is let through to a write (owner-auth.ts, portal-reader.ts,         *)
(* identity-ucan.ts), while the chain that decides it changes.             *)
(*                                                                         *)
(* A request is admitted when its issuer holds, on the chain, the          *)
(* collaborator key of the anchor's owner or of the address that its token *)
(* names.  A document that was bound to its creator's identity contract    *)
(* asks the operations of revoke.ts, reinstate.ts, relabel.ts,             *)
(* relabel-bulk.ts and attach.ts for a proof of that identity as well.     *)
(* The chain is read in several calls, and nothing holds it still between  *)
(* them.  A group is a resource, too: the owner is the portal's, and its   *)
(* requests bring neither an address nor a proof.                          *)
(*                                                                         *)
(* Requests that validateGateUcan, the Privy check or the BIND refuse      *)
(* change nothing and are left out.  What the admitted ones write is the   *)
(* subject of GateMembership, GateRouting and GateGroups; here the anchor  *)
(* and the identity of a row are kept, which register.ts writes once, and  *)
(* of all the rest only whose key it was last written with.  Rows are not  *)
(* deleted here; a group deleted under a request is GateGroups' matter.    *)
(***************************************************************************)
EXTENDS Integers, FiniteSets

CONSTANTS Resources, Portals, Files, Addresses,
          Dids, Identities, Signers,   \* DIDs of collaborators, of identity contracts
          Requests,    \* slots for requests in flight
          MaxChanges   \* bound on the changes of the chain

VARIABLES
  owner,     \* chain: files(fileId).owner, and owner() of the portal
  key,       \* chain: collaboratorKeys of each portal, None for an empty string
  signer,    \* chain: the signing DID of an identity contract
  changes,
  rows,      \* database: the anchor and the bound identity of a resource
  writer,    \* database: the rest of the row, by the issuer who last wrote it
  pc, req,
  copy,      \* the row a request has read
  saw,       \* what a request has read of the chain: an owner, or the captured identity
  live,      \* history: between its begin and the check, the issuer was admissible
  torn,      \* history: the anchor has changed its owner since the request read it
  proved     \* history: between its begin and the write, its identity proof was good

chain == <<owner, key, signer, changes>>
history == <<live, torn, proved>>
vars == <<chain, rows, writer, pc, req, copy, saw, history>>

None == "none"

ASSUME NoneIsNoValue == None \notin Portals \cup Addresses \cup Dids \cup Identities \cup Signers
ASSUME MaxChangesType == MaxChanges \in Nat

\* A file of a portal.  Of a group's anchor the chain is asked for the portal
\* alone, and owner[a] is then the portal's owner().
Anchor == [portal : Portals, file : Files]
NoAnchor == [portal |-> None, file |-> None]
Row == [anchor : Anchor, bound : Identities \cup {None}]
NoRow == [anchor |-> NoAnchor, bound |-> None]
Proof == [of : Identities, by : Signers]
NoProof == [of |-> None, by |-> None]

\* "admin" stands for the operations that ask for an identity, "use" for those
\* of share.ts, enroll.ts and group-*.ts, which do not.
Request == [op : {"register", "admin"}, resource : Resources, anchor : Anchor,
            issuer : Dids, actor : Addresses \cup {None}, proof : Proof \cup {NoProof}]
           \cup [op : {"use"}, resource : Resources, anchor : Anchor,
                 issuer : Dids, actor : Addresses \cup {None}, proof : {NoProof}]
NoRequest == [op |-> None]

----------------------------------------------------------------------------
(* The chain. *)

Holder(q) == IF q.actor = None THEN owner[q.anchor] ELSE q.actor
Admissible(q) == key[q.anchor.portal][Holder(q)] = q.issuer
Proves(q) == q.proof # NoProof /\ signer[q.proof.of] = q.proof.by

Checking == {"owner", "key", "collaborator"}
Proving == {"capture", "identity"}

\* A change of the chain, and what the requests in flight have lived through.
Change ==
  /\ changes < MaxChanges
  /\ changes' = changes + 1
  /\ UNCHANGED <<rows, writer, pc, req, copy, saw>>
  /\ live' = [r \in Requests |-> live[r] \/ (pc[r] \in Checking /\ Admissible(req[r])')]
  /\ proved' = [r \in Requests |-> proved[r] \/ (pc[r] \in Checking \cup Proving /\ Proves(req[r])')]
  /\ torn' = [r \in Requests |->
                torn[r] \/ (pc[r] = "key" /\ owner'[req[r].anchor] # saw[r])]

Transfer ==
  /\ \E a \in Anchor, b \in Addresses : owner' = [owner EXCEPT ![a] = b]
  /\ UNCHANGED <<key, signer>>
  /\ Change

\* registerCollaboratorKeys, and removeCollaborator, which clears the key.
SetKey ==
  /\ \E p \in Portals, a \in Addresses, k \in Dids \cup {None} : key' = [key EXCEPT ![p][a] = k]
  /\ UNCHANGED <<owner, signer>>
  /\ Change

RotateSigner ==
  /\ \E i \in Identities, k \in Signers \cup {None} : signer' = [signer EXCEPT ![i] = k]
  /\ UNCHANGED <<owner, key>>
  /\ Change

----------------------------------------------------------------------------
(* Requests. *)

Forget(r) ==
  /\ live' = [live EXCEPT ![r] = FALSE]
  /\ proved' = [proved EXCEPT ![r] = FALSE]
  /\ torn' = [torn EXCEPT ![r] = FALSE]

Answer(r) ==
  /\ pc' = [pc EXCEPT ![r] = "idle"]
  /\ req' = [req EXCEPT ![r] = NoRequest]
  /\ copy' = [copy EXCEPT ![r] = NoRow]
  /\ saw' = [saw EXCEPT ![r] = None]
  /\ Forget(r)

Go(r, step, seen) ==
  /\ pc' = [pc EXCEPT ![r] = step]
  /\ saw' = [saw EXCEPT ![r] = seen]
  /\ UNCHANGED <<req, copy, history>>

\* register is checked against the anchor it brings, the others against the
\* anchor of the row, which they read first (404 when there is none).
Submit(r) ==
  /\ pc[r] = "idle"
  /\ \E q \in Request :
       /\ q.op # "register" => q.anchor = rows[q.resource].anchor
       /\ req' = [req EXCEPT ![r] = q]
       /\ copy' = [copy EXCEPT ![r] = IF q.op = "register" THEN NoRow ELSE rows[q.resource]]
       /\ pc' = [pc EXCEPT ![r] = IF q.actor = None THEN "owner" ELSE "collaborator"]
       /\ live' = [live EXCEPT ![r] = Admissible(q)]
       /\ proved' = [proved EXCEPT ![r] = Proves(q)]
  /\ UNCHANGED <<chain, rows, writer, saw, torn>>

\* A call to the chain that throws is answered 500.
ChainFails(r) ==
  /\ pc[r] \in Checking
  /\ Answer(r)
  /\ UNCHANGED <<chain, rows, writer>>

\* readOnChainOwnerDid and readOnChainPortalOwnerDid: the owner, then its key.
ReadOwner(r) ==
  /\ pc[r] = "owner"
  /\ Go(r, "key", owner[req[r].anchor])
  /\ UNCHANGED <<chain, rows, writer>>

\* What follows the check of the issuer.
Pass(r) ==
  LET q == req[r]
  IN IF q.op = "register" /\ q.proof # NoProof THEN Go(r, "capture", None)
     ELSE IF q.op = "admin" /\ copy[r].bound # None
     THEN IF q.proof = NoProof THEN Answer(r) ELSE Go(r, "identity", None)
     ELSE Go(r, "write", None)

ReadKey(r) ==
  /\ pc[r] = "key"
  /\ IF key[req[r].anchor.portal][saw[r]] = req[r].issuer THEN Pass(r) ELSE Answer(r)
  /\ UNCHANGED <<chain, rows, writer>>

\* Mutant of ReadCollaborator: any current collaborator's address will do.
ReadAnyCollaborator(r) ==
  /\ pc[r] = "collaborator"
  /\ IF key[req[r].anchor.portal][req[r].actor] # None THEN Pass(r) ELSE Answer(r)
  /\ UNCHANGED <<chain, rows, writer>>

ReadCollaborator(r) ==
  /\ pc[r] = "collaborator"
  /\ IF key[req[r].anchor.portal][req[r].actor] = req[r].issuer THEN Pass(r) ELSE Answer(r)
  /\ UNCHANGED <<chain, rows, writer>>

\* Mutant of Capture: what is captured is the issuer that was checked, which is
\* a string as well.
CaptureIssuer(r) ==
  /\ pc[r] = "capture"
  /\ \/ Proves(req[r]) /\ Go(r, "write", req[r].issuer)
     \/ Go(r, "write", None)
  /\ UNCHANGED <<chain, rows, writer>>

\* An identity proof that does not verify, or a failed read, registers the
\* document without a binding.
Capture(r) ==
  /\ pc[r] = "capture"
  /\ \/ Proves(req[r]) /\ Go(r, "write", req[r].proof.of)
     \/ Go(r, "write", None)
  /\ UNCHANGED <<chain, rows, writer>>

\* assertDocOwnerIdentity, on the copy of the row; a failed read refuses.
CheckIdentity(r) ==
  /\ pc[r] = "identity"
  /\ \/ Proves(req[r]) /\ req[r].proof.of = copy[r].bound /\ Go(r, "write", None)
     \/ Answer(r)
  /\ UNCHANGED <<chain, rows, writer>>

\* A row that is written, and by whom.
Store(r, row) ==
  /\ rows' = [rows EXCEPT ![req[r].resource] = row]
  /\ writer' = [writer EXCEPT ![req[r].resource] = req[r].issuer]
New(r) == [anchor |-> req[r].anchor, bound |-> saw[r]]
Stored(r) == rows[req[r].resource]
Creates(r) == req[r].op = "register" /\ Stored(r) = NoRow

\* Mutants of Write: a register on the same anchor rebinds the document; a
\* register refreshes whatever row it finds.
WriteRebinds(r) ==
  /\ pc[r] = "write"
  /\ \/ req[r].op = "register" /\ Stored(r).anchor \in {NoAnchor, req[r].anchor} /\ Store(r, New(r))
     \/ req[r].op # "register" /\ Store(r, Stored(r))
     \/ UNCHANGED <<rows, writer>>
  /\ Answer(r)
  /\ UNCHANGED chain
WriteAnyRow(r) ==
  /\ pc[r] = "write"
  /\ \/ Creates(r) /\ Store(r, New(r))
     \/ ~Creates(r) /\ Store(r, Stored(r))
     \/ UNCHANGED <<rows, writer>>
  /\ Answer(r)
  /\ UNCHANGED chain

\* The first register pins the anchor and the identity (its reads and its create
\* are GateRouting's), a later one refreshes the row if the anchors agree; the
\* other operations update the row.  Any of them may leave it alone: it misses,
\* fails, has nothing to write (share.ts, a group's register, ifAbsent).
Write(r) ==
  /\ pc[r] = "write"
  /\ \/ Creates(r) /\ Store(r, New(r))
     \/ ~Creates(r) /\ Stored(r).anchor = req[r].anchor /\ Store(r, Stored(r))
     \/ UNCHANGED <<rows, writer>>
  /\ Answer(r)
  /\ UNCHANGED chain

----------------------------------------------------------------------------

\* At first every address has a key on every portal, every identity a signing DID.
Init ==
  /\ owner \in [Anchor -> Addresses]
  /\ key \in [Portals -> [Addresses -> Dids]]
  /\ signer \in [Identities -> Signers]
  /\ changes = 0
  /\ rows = [d \in Resources |-> NoRow]
  /\ writer = [d \in Resources |-> None]
  /\ pc = [r \in Requests |-> "idle"]
  /\ req = [r \in Requests |-> NoRequest]
  /\ copy = [r \in Requests |-> NoRow]
  /\ saw = [r \in Requests |-> None]
  /\ live = [r \in Requests |-> FALSE]
  /\ torn = [r \in Requests |-> FALSE]
  /\ proved = [r \in Requests |-> FALSE]

Handle(r) ==
  \/ ReadOwner(r) \/ ReadKey(r) \/ ReadCollaborator(r) \/ ChainFails(r)
  \/ Capture(r) \/ CheckIdentity(r) \/ Write(r)

Next ==
  \/ Transfer \/ SetKey \/ RotateSigner
  \/ \E r \in Requests : Submit(r) \/ Handle(r)

Spec == Init /\ [][Next]_vars

----------------------------------------------------------------------------
(* Properties. *)

\* The chain, the rows and the requests keep their shape, and a request between
\* two calls has what the next one needs.
TypeOK ==
  /\ owner \in [Anchor -> Addresses]
  /\ key \in [Portals -> [Addresses -> Dids \cup {None}]]
  /\ signer \in [Identities -> Signers \cup {None}]
  /\ changes \in 0..MaxChanges
  /\ rows \in [Resources -> Row \cup {NoRow}]
  /\ writer \in [Resources -> Dids \cup {None}]
  /\ pc \in [Requests -> {"idle", "write"} \cup Checking \cup Proving]
  /\ req \in [Requests -> Request \cup {NoRequest}]
  /\ copy \in [Requests -> Row \cup {NoRow}]
  /\ saw \in [Requests -> Addresses \cup Identities \cup {None}]
  /\ live \in [Requests -> BOOLEAN]
  /\ torn \in [Requests -> BOOLEAN]
  /\ proved \in [Requests -> BOOLEAN]
  /\ \A r \in Requests :
       /\ pc[r] = "idle" <=> req[r] = NoRequest
       /\ pc[r] = "idle" => copy[r] = NoRow
       /\ pc[r] = "key" => saw[r] \in Addresses
       /\ pc[r] # "key" => saw[r] \in Identities \cup {None}

\* Whoever passed the check was admissible at one instant of the request, so a
\* collaborator removed or an owner replaced before it began is refused; the one
\* exception is a transfer between the two calls, where the key read is that of
\* the owner before (portal-reader.ts, "never cached").
PassedWasLive ==
  \A r \in Requests : pc[r] \in Proving \cup {"write"} => live[r] \/ torn[r]

\* Anchor and identity are written once: by a request that was admitted on the
\* row's anchor, and with an identity that this very request proved, whatever
\* other registers do meanwhile (register.ts, "immutable in registerGateDoc").
BindingIsWinnersProof ==
  [][\A d \in Resources : rows'[d] # rows[d] =>
       /\ rows[d] = NoRow
       /\ \E r \in Requests :
            /\ pc[r] = "write" /\ req[r].op = "register" /\ req[r].resource = d
            /\ rows'[d].anchor = req[r].anchor
            /\ live[r] \/ torn[r]
            /\ rows'[d].bound # None => rows'[d].bound = req[r].proof.of /\ proved[r]]_vars

\* Whatever is written is written by an issuer who was admissible, during the
\* request, on the anchor that the row has: also by a register, which is checked
\* against the anchor it brings while others may pin the row to another
\* (register.ts, "owner-auth against the SUPPLIED anchor").  Of a bound document
\* the operations that ask for an identity ("admin") moreover proved the one it is
\* bound to.  A refresh by register, an enroll and a share do not ask, and
\* need only the first part.
WritesAreAuthorized ==
  [][\A d \in Resources : <<rows'[d], writer'[d]>> # <<rows[d], writer[d]>> =>
       \E r \in Requests :
         /\ pc[r] = "write" /\ pc'[r] = "idle" /\ req[r].resource = d
         /\ writer'[d] = req[r].issuer /\ rows'[d].anchor = req[r].anchor
         /\ live[r] \/ torn[r]
         /\ req[r].op = "admin" /\ rows[d].bound # None
              => req[r].proof.of = rows[d].bound /\ proved[r]]_vars
=============================================================================
