# Verification of the gate server

The repository is a small Express/TypeScript service with two halves: a stateless VOPRF evaluator
(`/voprf/*`) and the *gate* (`/gate/*`), which decides who may open an encrypted document. The gate
keeps its state in three MongoDB collections and answers from them. This directory holds TLA+ models
of the gate, the TLC runs that check them and TLAPS proofs about them.

Everything the gate promises rests on short asynchronous handlers over one database: each handler
reads a row, awaits, decides, and writes the row with a single `updateOne`. One Node process runs many
of them, and nothing stops several processes from sharing the database. Each await is a place where
other requests run. That is what the models are about.

## 1. Inventory

### State

| where | state | written by |
|---|---|---|
| `gate_docs` (one row per document) | `anchorRef`, `acceptedRoots`, `currentEpoch`, `members`, `bindings`, `revokedIdHashes`, `ownerIdentityContract` | register, attach, detach, enroll, revoke, relabel, relabel-bulk, reinstate |
| `gate_groups` (one row per reusable group) | `anchorRef`, `members`, `bindings`, `revokedIdHashes` | group register, enroll, revoke, reinstate, delete |
| `gate_nonces` | `nonce`, `docId`, `createdAt` (TTL 300 s, swept about every minute) | challenge, release |
| process | master key and signing keys (read once), the mongoose connection state | start-up |
| chain, Privy | portal owner and collaborators, identity contracts, identity tokens | nobody here: read only |

### Components, operations, interactions

* **Document membership** (`domain/gate/{enroll,revoke,relabel,reinstate,roles}.ts` and their
  controllers). *Enroll* pins an identifier hash to a commitment and appends the commitment to the
  member list. *Revoke* advances the epoch, removes a member and denylists the identifier. *Relabel* and
  *relabel-bulk* change roles. *Reinstate* lifts a denylist entry. Enroll and revoke are compare-and-set
  loops of at most five passes; the others are a read and an unconditional update.
  Correct when: an identifier is bound at most once and never while denylisted; the member list holds
  exactly the bound commitments; the epoch only grows; an acknowledged revoke really evicted; the
  handles reported as evicted really lost edit.
* **Registration and routing** (`register.ts`, `group-attach.ts`, controllers). *Register* creates the
  document row (first writer wins on the anchor) or replaces its own role roots; *attach* and *detach*
  add and remove group entries of `acceptedRoots`. All three write the same array. Correct when: the
  anchor never changes; re-registering never drops attached groups; a group's role moves when attach says
  so; a detach reports the role that it took away.
* **Groups** (`group-*.ts`, `attached-docs.ts`): the same membership operations without an epoch, plus a
  hard delete of the row. Correct when: as for documents, and a delete revokes the group everywhere.
* **Challenge and release** (`nonce.ts`, `resolve-roots.ts`, `release.ts`, `edit-bound.ts`, ...): a nonce
  is issued, listed, consumed once; release reads the document first, then the groups, then derives
  shares at the epoch of the first read. Correct when: a nonce passes at most one release; the shares
  are those of the role the proof was made for.
* **Start-up** (`index.ts`, `infra/database/index.ts`, `middleware.ts`): the port is open while the
  database connection is retried in the background; `/gate` answers 503 until the connection is up.
  Correct when: the loop ends only with every index built; an acknowledged row is never lost; a process
  that stays up ends up serving and indexed, whatever failed on the way.
* **Owner authorization** (`owner-auth.ts`, `identity-ucan.ts`, `enroll-verification.ts`, chain readers):
  a token is checked, then its issuer against keys that are read from the chain in one to three calls, and for
  a bound document an identity proof as well. No state of its own, but it judges a copy of the row by a chain
  that changes under it. Correct when: whoever passes was admissible during the request; a row is written
  only by issuers who were admitted on the anchor that it has; the operations that ask for the creator's
  identity proved the bound one (a refresh by register, an enroll and a share do not ask); a document's
  binding is what the winner of its creation had proved.
* **Proof and signature checks, Privy, gate keys, VOPRF, HTTP plumbing**: external cryptography,
  an external service, environment reads, stateless evaluation, request shapes and error wording.

### Where it is hard

The list with lines is `hazards` in PROJECT.json. In short: two handlers between whose read and write
the other's write falls (enroll/enroll, enroll/revoke, enroll/relabel, register/attach, attach/attach,
release/anything); updates whose answer is lost; loops that give up; operations that look at one binding
and change several; a deleted group whose name is used again; a first boot without unique indexes.

## 2. Plan

| step | modules | state |
|---|---|---|
| 1. membership of one document | `GateRoles`, `GateMembership`, `MCGateMembership` | done |
| 2. what membership promises, and that the handlers keep it | `MembershipPolicy`, `GateMembership_refinement` | done |
| 3. proofs about membership | `GateRoles_proofs`, `GateMembership_proofs` | done |
| 4. registration, attach, detach, group lifetime | `GateRouting`, `MCGateRouting` | done |
| 5. challenge, release, edit-bound over the tables that the others change | `GateRelease`, `MCGateRelease`, `GateRelease_proofs` | done |
| 6. group membership: the enroll, revoke, reinstate and delete handlers on a row that may be deleted and created again, implementing a policy without epochs | `GroupPolicy`, `GateGroups`, `MCGateGroups`, `GateGroups_proofs` | done |
| 7. first boot: port open, connection retried, indexes built, readiness read per request, crashes and outages | `GateStartup`, `MCGateStartup` | done |
| 8. owner authorization while the chain changes, and the creator's binding | `GateAuth`, `MCGateAuth`, `GateAuth_proofs` | done |
| 9. routing: a history of who was overtaken, so that overlap is always allowed and the properties say what a request that nobody overtook achieves | `GateRouting`, `GateRouting_proofs` | done |
| 10. the cap of a self-enroll and the report of a demotion, unless overtaken, as theorems: the invariant then also has to say where the planned role came from | `GateMembership_proofs` | done |
| 11. `GateStartup`: `LoopEndsIndexed` and `AckedIsStored` as theorems | `GateStartup_proofs` | done |
| 12. the entries of the routing table: types, portals, and what attach and detach achieve when nobody overtakes them, as theorems | `GateRouting_proofs` | done |
| 13. `GateGroups` implements `GroupPolicy`, as a theorem | `GateGroups_proofs` | done |
| 14. the variants that make every request end, as theorems | `GateMembership_proofs`, `GateGroups_proofs`, `GateRouting_proofs` | done |

The order follows what the service is for: who is a member, then which lists count, then who is let
through.

## 3. The modules and the code

All modules share one reading of the code. A request has a program counter, and **a value of the program
counter is an `await` of a database call**: an action is the call together with the synchronous code that
runs from its answer to the next call. One MongoDB operation is atomic, and the order of operations of
different requests is free, which covers one Node process and several processes alike. Where the code
can tell a lost answer from a failed call in no way, both are actions: a call that fails leaves the row alone
and answers `"error"`; a write whose answer is lost changes the row and answers `"error"` as well. A
request that was answered may be followed by any other, so every run covers sequences of any length.

### `GateRoles`

The order of the three roles and the functions of `roles.ts` and `enroll.ts:41-44`: the largest role
among some bindings, and the cap of a self-enroll.

### `GateMembership` — the membership of one `gate_docs` row

| code | model |
|---|---|
| the row and its `currentEpoch`, `members`, `bindings`, `revokedIdHashes` | `registered` and variables of those names |
| one call of a handler, from its controller's first read | `pc[r]`, `op[r]`, `attempt[r]`, the `plan[r]` its read left for its write, `reply[r]` |
| `register.ts`, creation | `Register`, an environment step |
| `enroll.ts`: read, decide, `updateOne` with its pins, retry | `EnrollRead`, `EnrollFilter`, `EnrollWrite`, `Retry` |
| `revoke.ts`: the same with the epoch as a pin | `RevokeRead`, `RevokeFilter`, `RevokeWrite`, `Retry` |
| `relabel.ts`, for one name and for several | `RelabelRead`, `RelabelWrite`, `RelabelBulkRead`, `RelabelBulkWrite` |
| `reinstate.ts` | `ReinstateRead`, `ReinstateWrite` |

The arrays are bags: no handler looks at their order, but `$push` appends a duplicate and `$pull` drops
every equal element, so multiplicity matters and the invariants must show it to be one. The history
variable `interfered[r]`, which no guard reads, says whether another request changed the row since `r`
read it. Credentials (UCAN, voucher, Privy token) are taken as accepted: the operations in
`Operations` are those whose checks passed.

### `MembershipPolicy` — what membership promises

The abstract specification: who each identifier stands for and in which role, which identifiers are
barred, and the epoch, with one atomic step for each effect: a free identifier is admitted, a member is
evicted with all its identifiers, some members are retagged together, a bar is lifted. It has no requests,
retries or snapshots. `GateMembership` implements it under the mapping `pinned[h] <- PinOf(h)` (the one
binding of `h`), `barred <- revokedIdHashes`, `epoch <- currentEpoch`. The policy leaves the role of an
admission open, since the code's cap is not atomic with the write (finding `race`).

### `GateRouting` — `acceptedRoots`

| code | model |
|---|---|
| `anchorRef` and `acceptedRoots` of one document | `anchor`, and the array in two parts: `ownRoots`, `groupRoots` |
| the group rows | `portalOf`: group to portal, so deleting and registering again is visible |
| `interface/gate/register.ts`, `register.ts` | `RegisterRefs`, `RegisterRead`, `RegisterCreate`, `RegisterReread`, `RegisterRefresh` |
| `attach.ts`, `group-attach.ts` | `AttachRead`, `AttachGroup`, `AttachDecide`, `AttachPush`, `AttachRelabel`; `DetachRead`, `DetachDecide`, `DetachPull`, `DetachMembers` |
| `group-register.ts`, `group-delete.ts` | `GroupRegisterRead`, `GroupRegisterCreate`, `GroupRegisterReread`; `GroupDeleteRead`, `GroupDelete` |

The group entries are a sequence because the positional `$` and `find` take the first match. What `$pull` leaves
(`Without`) is a function of the number of entries looked at, so that it can be reasoned about. Two histories,
read by no guard: `overtaken[r]` says whether another request changed a table since `r` first read one, and
`deleted` collects the groups that were ever deleted. They let the properties name the only causes by which
the statements of the comments fail.

Of a group's anchor only the portal is kept, which is all that attach reads of it. Its chain and file are compared by a
group's register as well, so `GroupExisting` may refuse a register on the same portal too.

### `GateRelease` — challenge, release, edit-bound

| code | model |
|---|---|
| the rows of documents and groups | `row[d]` (epoch, member list, bindings, routes), `groups[g]` (member list) |
| the rows of nonces | `issuedFor[n]`, `age[n]`: unused, live, expired (not yet swept), gone |
| `challenge.ts`, `nonce.ts` | `ReadRow`, `IssueNonce`, `ListNonces`, `ConsumeNonce`; `Expire` and `Sweep` for the clock and the TTL index |
| `release.ts`, `resolve-roots.ts` | `ReadRow`, `ListNonces`, `ConsumeNonce`, `Resolve` (one route per call), `ReleaseByProof`, `ReleaseBySignature` |
| `edit-bound.ts` | `ReadRow`, `Resolve`, `AnswerPoll` |

The membership and routing handlers, modelled call by call in the modules above, are here **one atomic
update each** (`Update`; the constant `Updates` says which may occur): each of them writes with one
database operation, and what their own overlaps do to a row is the matter of the other modules. A member
list matters through who is in it and in which order, because a Merkle root depends on both, so a list is
kept as its order relation and a root *is* the list it was computed from. Of two matching entries the code
takes the larger role in whatever order they come, so routes are a set and are resolved in any order.
What only cryptography decides comes with the request: its verdict and who made it.
`ReleaseOperationsAssumption` is the one link between the two: a proof that verifies was made by a member
of the list its root was computed from. A commitment stands for its edit handle, which is derived from it.

Three histories, read by no guard: `passed[n]` counts the releases a nonce let through, `held[d]` collects
every (commitment, role, epoch) that was in force at some instant, and `stale[r]` says whether a table
changed since the request read its row.

### `GateGroups` and `GroupPolicy` — the membership of one group reference

| code | model |
|---|---|
| the `gate_groups` row, or its absence | `portal` (`NoPortal` when absent), `members`, `bindings`, `revokedIdHashes` |
| a controller's read of the row and the owner check on its portal | `Submit`, which keeps the portal in `plan[r].portal` |
| `group-enroll.ts`, `group-revoke.ts`: read, decide, `updateOne` with its pins, retry | `EnrollRead`, `EnrollFilter`, `EnrollWrite`, `RevokeRead`, `RevokeFilter`, `RevokeWrite`, `Retry` |
| `group-reinstate.ts`, `group-delete.ts` | `ReinstateRead`, `ReinstateWrite`, `DeleteWrite` |
| `group-register.ts`, creation | `Register`, an environment step |

These loops look like those of a document, but their row is mortal: the controller reads one row, and the loop
finds by `groupRef` whatever row has the name by then. `replaced[r]` records that the row was deleted since the
controller of `r` read it, `interfered[r]` that another step changed the row since the loop's read. `GroupPolicy`
extends `MembershipPolicy` by one step, `Dissolve`, in which everybody is out and every bar is gone at once;
`GateGroups` implements it with the epoch mapped to 0 and every role to one role, since no handler reads it.

### `GateStartup` — start-up and readiness

| code | model |
|---|---|
| `connectGateDatastore`: connect, `createIndexes` of every model, delay, again | `Connect`, `ConnectFails`, `BuildIndex`, `BuildFails`, `Wake` on `boot[p]` and `building[p]` |
| `isMongoReady`, `requireGateReady` | `connected[p]`, read by `Submit` alone |
| `index.ts`: the port is opened without waiting for the loop | `Start`; nothing orders `Submit` after the loop |
| the creates of `register.ts` and `group-register.ts` | `Read`, `Create`, `Reread`, `ReadFails` |
| MongoDB's unique indexes (external) | `Buildable` and `Insertable`, guards of `BuildIndex`, `AutoIndex` and `Create`: refused are a build over duplicates and a second row under an index |
| MongoDB and the driver (external) | `GoesDown`, `ComesBack`, `Disconnect`, `Reconnect`, `AutoIndex` |
| the process | `Crash`, which takes its requests with it |

A collection stands for one of its keys, since the unique index compares keys only with themselves. The rows of a
key are a sequence of anchors: without the index there may be two. The third collection, `gate_nonces`, is built
like the others and adds nothing: its keys are random and it is not created on demand. `Promise.all` rejects with the first
failure while the other builds go on, so `building[p]` outlives an attempt.

### `GateAuth` — who is let through

| code | model |
|---|---|
| `files(fileId).owner`, the portal's `owner()`, each portal's `collaboratorKeys`, `signingDid` (external) | `owner[a]` for an anchor (a portal and a file), `key[p][a]` for a portal and an address, `signer[i]`; changed by `Transfer`, `SetKey`, `RotateSigner` |
| `anchorRef` and `ownerIdentityContract` of a row | `rows[d]` |
| everything else in the row | `writer[d]`: the issuer whose request last wrote it |
| the controller's read of the row, the token's claims | `Submit`, `req[r]`, `copy[r]` |
| `assertCollaboratorAuthorized`, `assertIssuerIs...`: one chain call each | `ReadOwner`, `ReadKey`, `ReadCollaborator` |
| `assertDocOwnerIdentity`, the capture in `register.ts` | `CheckIdentity`, `Capture` |
| the update that follows | `Write`: a register creates the row, or refreshes it when the anchors agree; the others update it; any of them may leave it alone |

A document and a group differ here only in whose owner is read, so both are resources, and a request of kind
`"use"`, which asks for no identity, covers enroll, share and the group operations; `"admin"` covers those that do
ask. A group's anchor has a file too, but the owner read for it is the portal's. Whether a token's signature, time,
audience and capability are good, whether a voucher's claims fit and whether an attested identifier hashes to its
`idHash` is decided without state; a refused request changes nothing and is left out. Three histories, read by no guard:
`live[r]` (the issuer was admissible at some instant of the request), `torn[r]` (the owner changed between the two
calls of one read) and `proved[r]` (the identity proof was good at some instant).

## 4. Runs and bounds

Deadlock is checked in every run. Symmetry is used for requests, names, commitments and nonces in runs of
safety and step properties only, where the constants are interchangeable; the liveness run has none.

| run | question | bounds |
|---|---|---|
| `churn` | is the row consistent, does an eviction stick, is a miss justified, when do the cap and the report of a demotion hold; do the handlers implement `MembershipPolicy`? | 2 requests of 5 kinds, 2 identifiers, 2 commitments, 2 roles, epochs 1..2, 2 attempts |
| `progress` | is every accepted request answered? | 2 requests, 1 identifier, 2 commitments, 5 attempts, fairness |
| `race` | a statement of the comments | see section 7 |
| `routing` | what survives overlap, and what does a request that nobody overtook achieve? | 2 requests of 5 kinds, 2 groups, 2 portals, 2 entries |
| `release_nonces` | is a nonce used once, while live, and burnt by a refusal? | 2 requests, 2 documents, 1 nonce, expiry at any time |
| `release_grants` | did whoever is granted shares hold the role at that epoch? | 1 request, 1 document, 2 commitments, no group, 4 rights in the history |
| `release_union` | do minting and polling agree on the edit members? | 1 request, 1 document, 1 group, every update but re-registration |
| `release_torn` | the same question as `release_grants`, with groups | see section 7 |
| `groups` | are the group loops consistent, final and terminating on a row that comes and goes; do they implement `GroupPolicy`? | 2 requests of 4 kinds, 2 identifiers, 2 commitments, 2 portals, 2 attempts, fairness |
| `boot` | does the connect loop end only with every index built, is an acknowledged row stored; does a process get to serve and to index? | 1 process that crashes and restarts, 2 collections, 2 anchors, 2 requests, fairness |
| `boot_index` | a statement of the comments | see section 7 |
| `auth` | was whoever passes admissible, who writes a row, and whose is its binding? | 2 requests, 1 resource, 1 portal with 2 files, 2 addresses, 2 keys, 2 identities, 1 change of the chain |

Why they are enough:

* **Two requests.** The handlers interact through the row alone, and each writes it once per attempt; a
  race needs one request with a read behind it and another that writes. `Submit` refills a request's place,
  so one read can be overtaken by any number of writes.
* **Two identifiers, two commitments.** Every pin compares one identifier and one commitment with the
  row; sharing (two identifiers with one commitment) and rebinding (one identifier, two commitments) both
  need two.
* **`MaxAttempts`** is a constant; 5 in the code. With 2, both a retry after a miss and giving up occur, and
  the proofs hold for every value; `progress` uses the 5 of the code.
* **Two roles** tell an edit member from another, which is the only distinction eviction reports make. The
  third role matters to the order of roles alone; `race` runs with all three.
* **`Epochs`** caps the counter at the last revocation TLC considers; nothing wraps before 2^53.
* **`MaxRoots`** caps the group entries: two, either of two groups or both of one. A push at the bound waits or
  fails with a database error, so nothing waits forever.
* **`MaxHeld`** caps the history `held` (`HistoryBound`, a constraint of `release_grants` only) at four
  rights that were ever in force: two commitments at two roles, or before and after an epoch change. A
  grant is wrong when it is outside the history, so a small history makes a violation easier to find.
* **One process** in `boot`: it crashes and starts again, which gives every order of an old and a new process but for
  two at once; two requests of one process race in the same way as those of two, since they meet in the database
  only. `boot_index` needs no more than one either.
* **`MaxChanges`** caps the changes of the chain at one, which falls before, between or after the calls of either
  request: a transfer, a key taken away or changed, a signer rotated. Two anchors are needed, since a register may
  bring another than the row's; two files of one portal are two anchors. All four properties of `auth` are also proved,
  for every bound, so longer histories of the chain are left to the proofs. One signing DID per identity is enough in
  `auth`, because it is either there or taken away.
* **Nonces** are model values that are issued once each, as `randomBytes(32)` are.

## 5. Fairness

`FairSpec` of `GateMembership` and of `GateGroups` is `WF_vars(Step(r))` for each request `r`. A request that
waits for a database call has its step enabled until the call is answered; Node runs the continuation
of a settled promise, and the driver settles every call, with an answer or with an error after its time-out
(both are disjuncts of `Step`). Nothing is assumed of clients: no fairness on `Submit`. Strong fairness
would be wrong, because the code does not prevent another request from winning every race; it is the
bound of five attempts that makes a contended request end.

`FairSpec` of `GateStartup` is weak fairness of the connect loop (`Loop(p)`: a timer fires, a connection attempt ends
one way or the other), of each call in flight (`Settle(p, c)`) and of the driver's reconnection (`Reconnect(p)`).
Nobody has to start a process, to send a request or to bring the database back: the two liveness properties
assume a process and a database that stay up from some time on. The delay, which the code lets grow to 30 s, is any delay.

## 6. What is proved

All of it for any number of requests, identifiers, commitments, documents, groups, portals, keys and nonces, any
bound on attempts, on epochs and on changes of the chain.

| theorem | statement |
|---|---|
| `GateMembership_proofs!TypeCorrect` ... `ReportCorrect` | the invariants of `churn`, its step properties on epochs, evictions, misses and reports, and `PlanFromSnapshot` |
| `GateMembership_proofs!CapCorrect`, `DemotionCorrect` | `CapHoldsUnlessOvertaken`, `DemotionReported` |
| `GateMembership_proofs!RequestsAreBounded` | a request makes at most `2 * MaxAttempts` accesses to the row; each of its steps uses one up and nobody else's does |
| `GateMembership_refinement!PolicyImplemented` | `Spec => ImplementsPolicy`: initial states are the policy's, every step is one of its steps or a stutter |
| `GateRelease_proofs!TypeCorrect` | `TypeOK` of challenge, release and edit-bound |
| `GateRelease_proofs!NonceCorrect`, `PassedCorrect`, `FailureCorrect` | the nonce is used once, only while live, and a refusal uses it up |
| `GateRelease_proofs!AgreeCorrect` | minting and polling agree, if nothing changed while they read |
| `GateRelease_proofs!GrantCorrect` | `Groups = {}` implies `Spec => GrantHeldAtOnce` |
| `GateRouting_proofs!TypeCorrect`, `GroupsShareThePortal` | the two invariants of `routing`: `TypeOK`, `SamePortal` |
| `GateRouting_proofs!FirstWriterWins`, `OnlyNamedMove` | `AnchorPinned`, `OnlyNamedGroupsMove` |
| `GateRouting_proofs!AttachGivesTheRole`, `DetachReportsEdit` | `AttachMovesRole`, `DetachFromEditReported` |
| `GateRouting_proofs!RequestsGoForward` | each step of a request brings it closer to its answer, or leaves it one group less to look up; nobody else's step moves it |
| `GateGroups_proofs!TypeCorrect`, `Consistent` | the two invariants of `groups` |
| `GateGroups_proofs!RevokeIsFinal`, `NoSpuriousMiss`, `TrespassNeedsDelete` | `RevokeEvicts`, `MissMeansInterference`, `TrespassMeansReplaced` |
| `GateGroups_proofs!GroupPolicyImplemented` | `Spec => ImplementsGroupPolicy` |
| `GateGroups_proofs!RequestsAreBounded` | as in `GateMembership_proofs` |
| `GateAuth_proofs!TypeCorrect`, `NoStaleKey`, `WritersAuthorized`, `BindingPinned` | the invariants and the step properties of `auth`: `TypeOK`, `PassedWasLive`, `WritesAreAuthorized`, `BindingIsWinnersProof` |
| `GateStartup_proofs!TypeCorrect`, `LoopIndexed`, `NothingAckedIsLost` | the three invariants of `boot`: `TypeOK`, `LoopEndsIndexed`, `AckedIsStored` |

**Membership.** No single invariant of the row is inductive: an update that pulls a member out of
`members` and out of `bindings` keeps the two in step only if each identifier has one binding, and the write
of an enroll or a revoke acts on a plan that was made from an earlier row. The strengthening `IInv` is
`TypeOK`, the three invariants of the row together, and `PlanFromSnapshot`: a pending write has the targets
and the role that its read can have computed, and as long as nobody else changed the row its filter still
matches. A write then either finds its filter true, and the filter and the plan give the invariants of the
new row, or changes nothing. There is a lemma for each way the row changes and a step for each action.
`RevokeEvicts` needs the filter again: it pins the identifier to the commitment whose bindings are pulled,
so a rebinding since the read is a miss.

The cap and the report of a demotion depend on what the filters do *not* pin: roles. `RolesRead` says, beside `IInv`,
that the planned role of an enroll that was not interfered with is the cap by the roles the commitment has *now*,
and that a relabel that was not interfered with still has the binding it found. It needs a lemma about every step (`StepFrame`): a
request in its gap either saw the row change or has the row it read. The cap itself is a fact about `roles.ts`
(`GateRoles_proofs!CapIsNoRaise`, from the bounds of `MaxRole`).

**Refinement.** The row is mapped to itself and every read, miss, retry and answer to a stutter. The one
delicate step is a write whose plan is older than the row: its filter shows that the identifier is still
free (an admission) or still stands for the same commitment (an eviction). The groups' refinement has two cases more: a
delete is the dissolution, and a registration is a stutter, because a missing row is as empty as the row that is
created; that is the second conjunct of `TypeOK`. `EnrollApplied` and `RevokeApplied` say what an applied write does
to the bindings, and serve the invariant and the refinement alike.

**Release.** `FlowOK` types each stage of a request: what it must have read before the call it waits for.
`NonceInv` says that a nonce that let a release through is gone, and that a request past its nonce has one
that is gone. `AgreeInv` says that what a minting or polling request has found, together with the groups it has
yet to read, is the edit union of the tables, unless they changed. `GrantInv` says that, without groups, the
row a request works on was in force at one instant of the history.

**Routing.** Four invariants, each on top of the one before but for the last, which needs the second only.
`AnchorPinned` needs little of the table: `IInv` types the requests, says that there are no entries without a row, that
attach and detach are past their read only when the row is there, and that a refresh was decided for the row's own
anchor and, unless the request was overtaken, with the row's own entries. `TypeInv` adds the
types of everything: the entries a request remembers are no more than the table has held. `PortalInv` adds that the
groups in the table, those in the array a pending refresh will write, and the group of an attach that is past its
check are on the document's portal, unless they were ever deleted; a deleted group is never forgotten, so neither a
re-registration nor an old array can break it. `ReadInv` says what a request that nobody overtook knows of its group:
it is not in the table (before a push), it is (before the positional update), or it has the role that was read (before
the `$pull`).

These rest on lemmas about the operators. What the first match is follows from the least index of a set (`Smallest`,
from the library's well-foundedness of the naturals); what `$pull` leaves is a recursive function, whose defining
equation is proved by taking a least counterexample (`UpTo`, `KeptRecursion`), as are the facts used of it: its
entries are entries of the table, no more than there were and none of the group's (`WithoutShrinks`), and every other
group keeps its role (`WithoutSpares`). With the same said of the push and of the positional update, whatever moves a
group that no attach or detach names is the refresh of a register, and `IInv` shows it to be overtaken.

**Groups.** `IInv` is `TypeOK`, `RowConsistent`, `SnapshotHolds` (a request that was not interfered with finds its filter
to hold) and `Authorized` (the row is of the portal the request was authorized for, unless the row was
deleted under it). A delete empties the row, which is consistent for the simplest of reasons, and the filters
miss a row that is gone; a new row of the same name is empty, so the filter of an eviction misses it as well.

**Variants.** `CallsLeft(r)` counts two accesses for each pass a request has left, less one when its read is done. It is
bounded, positive while the request is under way, lowered by every step of the request and left alone by every other
step. `Forward(r)` is the same for routing, where the stages are passed in a fixed order and only the lookups of
the named groups repeat, for fewer groups each time. What is missing for liveness is that such a step is enabled and
taken, which is the part left to TLC.

**Authorization.** `IInv` is `TypeOK` and, for each request, `Recorded` (the histories record the present: an issuer
that is admissible now is `live`, an owner that differs from the one read is `torn`), `Placed` (a request is at a place
of its operation, and the copy it has is the row, since a row is written once) and `Shown` (what a request has
shown when it gets past a check). The delicate step is `ReadKey`: the key read belongs to the owner read
before, so either that is still the owner, and the issuer is admissible now, or the read is torn. `WritesAreAuthorized`
then needs that a write finds the anchor its request was checked on: an operation other than register took it from a row
that never changes it, and a register writes only where there is no row or the anchors agree.

**Start-up.** `IInv` adds to `TypeOK` that a process is connected only while it runs, so that a request is let through by
a process that is up; `Settling`, that a loop waiting for its builds has each index built or on its way, and one that ended
has them all, which is `LoopEndsIndexed`; that what was acknowledged is stored, since nothing takes a row away; and
`IndexedIsUnique`, that a key that is indexed is single. The last only says what MongoDB's guards, `Buildable` and
`Insertable`, amount to, and is no result about the gate; it is there for the second half of `AckedIsStored`, that two
acknowledged anchors are one. The proof covers any number of processes, where `boot` has one.

**Assumptions**, all named in the module that declares the constants: `OperationsAssumption` and
`MaxAttemptsAssumption` (operations are of the listed kinds with arguments of the listed sets, at least one
attempt), `CommitmentsAssumption` (the value for "no commitment" is not one), `ReleaseConstantsAssumption`
(the values for "no row" and "no group" are not rows or groups), `ReleaseOperationsAssumption`, described
in section 3, and the same for the others: `RoutingOperationsAssumption`, `MaxRootsAssumption`, `AbsenceAssumption`,
`GroupOperationsAssumption`, `GroupAttemptsAssumption`, `GroupAbsenceAssumption`, `NoneIsNoValue`, `MaxChangesType`,
`NowhereIsNoProcess`. TLC evaluates each of them in every run of the module.

## 7. Where the code and its comments disagree

Each is a run that TLC ends with a counterexample; each statement comes from a comment of the source.

| run | comment | what happens |
|---|---|---|
| `race` | a self-enroll never raises a role (`enroll.ts:31`) | the pins of the write leave out the roles: a relabel between read and write is not seen |
| `boot_index` | unique indexes must exist before traffic (`database/index.ts:13-14`) | the readiness check opens with the connection, before the indexes are built; after two creates of one key the build fails in every further attempt |
| `release_torn` | the root is in the union of currently accepted roots (`proof-verification.ts:103-104`) | the document and its groups are read at different instants |

`CapHoldsUnlessOvertaken` (in `churn`), `release_grants` and the second half of `AckedIsStored` (in `boot`) show the same
statements to hold once the cause is taken away (nobody in between; no groups; the index is there), so the counterexamples are
about that cause.

Other statements of the comments fail in one corner each. For these a passing property names the corner as
the only one:

| comment | where it fails | property |
|---|---|---|
| `wasEdit` tells about a demote off edit (`relabel.ts:6`) | a commitment bound at edit by one identifier and at view by another, relabelled through the second: the read looks at the named binding, the write moves all (`relabel.ts:27-32`) | `DemotionReported`: reported when the commitment holds edit alone |
| a re-anchor must never silently detach groups (`register.ts:22-23`) | an attach between the read of the entries and the write of the whole array | `OnlyNamedGroupsMove`: an unnamed group moves only by an overtaken register |
| an attach is "relabeled in place" (`group-attach.ts:17-19`) | two overlapping attaches of one group both push; the positional update moves only the first entry | `AttachMovesRole`: it moves unless overtaken |
| a detach from edit is detected (`attach.ts:81`) | two calls lie between the read of the role and the `$pull` | `DetachFromEditReported`: reported unless overtaken |
| attached groups are on the document's portal (`attach.ts:47-49`) | a deleted group's name is free for any portal, and its entries are still there (`group-delete.ts:15`) | `SamePortal`: for groups that were never deleted |
| a group is changed on the word of its portal's owner (`group-enroll.ts:2`) | the group is deleted and registered on another portal between the controller's read and the loop's | `TrespassMeansReplaced` |

A bulk relabel has the blind spot of the first row as well: naming an identifier bound at view takes a sibling off
edit, although "changeTier never demotes off edit" (`relabel-bulk.ts:39`).

## 8. Only model-checked

Liveness: `EveryRequestAnswered` of `GateMembership` and of `GateGroups`, `ServesEventually`, `IndexesEventually`:
they need fairness and `ENABLED`. Of the first two the variant is proved (section 6), so that TLC is left with the claim
that a request under way always has a step. The counterexamples of section 7 need no proof. `GrantHeldAtOnce` is
proved where it holds. Every other property of the passing runs is a theorem.

## 9. Not modelled

* **Cryptography**: Semaphore proofs, Merkle trees, signatures, HMAC share derivation, sealed keys and the
  VOPRF evaluation are opaque. The models rely on their verdicts, not on how they are reached.
* **Tokens, vouchers and Privy**: whether a UCAN, a voucher or an identity token is good is a verdict that comes
  with the request; `GateAuth` models what is read from the chain afterwards. The other modules take each request
  as one that was authorized.
* **`/share`** beyond its authorization, the lifetime and content of the edit UCAN, encodings and malformed bodies,
  logging, error wording, the reading of keys and configuration.
* **Several server processes at once** in `GateStartup`'s runs (the module allows them, and the proofs cover them).
* A document and a group with the same name: document ids and group references are assumed to be
  different names.
