---------------------------- MODULE GateStartup ----------------------------
(***************************************************************************)
(* Start-up of the gate: server processes that open their port at once and *)
(* connect to one database in the background (index.ts,                    *)
(* connectGateDatastore), while the requests that create rows are already  *)
(* let through by the readiness check.  Processes crash and are started    *)
(* again; the database goes away and comes back.                           *)
(*                                                                         *)
(* A collection stands for one of its keys: the rows that have that key,   *)
(* by their anchors.  register.ts and group-register.ts read the key,      *)
(* create the row when there is none, and read again when the create       *)
(* fails; they rely on the unique index, which connectGateDatastore builds *)
(* after it has connected.  (Deletes of groups are left to GateGroups.)    *)
(***************************************************************************)
EXTENDS Integers, Sequences, FiniteSets

CONSTANTS Processes, Collections, Anchors,
          Requests   \* slots for requests in flight

VARIABLES
  up, rows, indexed,      \* the database: reachable, the rows of a key, unique indexes
  boot, connected,        \* a process: its connect loop, and readyState = 1
  building,               \* a process: its createIndexes calls in flight
  at, pc, op,             \* a request: its process, its place, what it creates
  acked                   \* history: the anchors that a register answered ok for

database == <<up, rows, indexed>>
processVars == <<boot, connected, building>>
requestVars == <<at, pc, op, acked>>
vars == <<database, processVars, requestVars>>

Operations == [collection : Collections, anchor : Anchors]
NoOp == [collection |-> "none"]
Nowhere == "none"
ASSUME NowhereIsNoProcess == Nowhere \notin Processes

Stored(c) == {rows[c][i] : i \in DOMAIN rows[c]}
Twice(c) == Len(rows[c]) > 1

\* What MongoDB does for a unique index: it refuses to build one over duplicates,
\* and under one it refuses a second row of a key.
Buildable(c) == ~Twice(c)
Insertable(c) == c \in indexed => rows[c] = <<>>

----------------------------------------------------------------------------
(* The connect loop: connect, build the indexes, or wait and try again.    *)

Start(p) ==
  /\ boot[p] = "off"
  /\ boot' = [boot EXCEPT ![p] = "connecting"]
  /\ UNCHANGED <<database, connected, building, requestVars>>

\* Mutant of Connect: a connection that is there already ends the loop.
ConnectOnce(p) ==
  /\ boot[p] = "connecting"
  /\ up
  /\ boot' = [boot EXCEPT ![p] = IF connected[p] THEN "done" ELSE "indexing"]
  /\ connected' = [connected EXCEPT ![p] = TRUE]
  /\ building' = [building EXCEPT ![p] = IF connected[p] THEN @ ELSE Collections]
  /\ UNCHANGED <<database, requestVars>>

\* Mutant of Connect: the loop does not wait for the builds.
ConnectUnawaited(p) ==
  /\ boot[p] = "connecting"
  /\ up
  /\ boot' = [boot EXCEPT ![p] = "done"]
  /\ connected' = [connected EXCEPT ![p] = TRUE]
  /\ building' = [building EXCEPT ![p] = Collections]
  /\ UNCHANGED <<database, requestVars>>

\* From here on the readiness check lets requests through.  A call still in
\* flight from an earlier attempt is taken together with the new one.
Connect(p) ==
  /\ boot[p] = "connecting"
  /\ up
  /\ boot' = [boot EXCEPT ![p] = "indexing"]
  /\ connected' = [connected EXCEPT ![p] = TRUE]
  /\ building' = [building EXCEPT ![p] = Collections]
  /\ UNCHANGED <<database, requestVars>>

ConnectFails(p) ==
  /\ boot[p] = "connecting"
  /\ ~up
  /\ boot' = [boot EXCEPT ![p] = "waiting"]
  /\ UNCHANGED <<database, connected, building, requestVars>>

\* A call has built its index.  The loop is done when all of its calls have.
BuildIndex(p, c) ==
  /\ c \in building[p] /\ up /\ Buildable(c)
  /\ indexed' = indexed \cup {c}
  /\ building' = [building EXCEPT ![p] = @ \ {c}]
  /\ boot' = [boot EXCEPT ![p] = IF @ = "indexing" /\ building'[p] = {} THEN "done" ELSE @]
  /\ UNCHANGED <<up, rows, connected, requestVars>>

\* Mutant of BuildFails: the loop waits for the calls, whatever becomes of them.
BuildSettles(p, c) ==
  /\ c \in building[p]
  /\ ~up \/ ~Buildable(c)
  /\ building' = [building EXCEPT ![p] = @ \ {c}]
  /\ boot' = [boot EXCEPT ![p] = IF @ = "indexing" /\ building'[p] = {} THEN "done" ELSE @]
  /\ UNCHANGED <<database, connected, requestVars>>

\* The first call that fails rejects Promise.all; the others stay in flight.
BuildFails(p, c) ==
  /\ c \in building[p]
  /\ ~up \/ ~Buildable(c)
  /\ building' = [building EXCEPT ![p] = @ \ {c}]
  /\ boot' = [boot EXCEPT ![p] = IF @ = "indexing" THEN "waiting" ELSE @]
  /\ UNCHANGED <<database, connected, requestVars>>

\* Mutant of Wake: only a failed build is tried again.
WakeAfterBuild(p) ==
  /\ boot[p] = "waiting" /\ connected[p]
  /\ boot' = [boot EXCEPT ![p] = "connecting"]
  /\ UNCHANGED <<database, connected, building, requestVars>>

\* The delay is over, however long it was.
Wake(p) ==
  /\ boot[p] = "waiting"
  /\ boot' = [boot EXCEPT ![p] = "connecting"]
  /\ UNCHANGED <<database, connected, building, requestVars>>

----------------------------------------------------------------------------
(* The environment. *)

\* The library builds the indexes of its models by itself as well, at some time
\* after it has connected; nothing waits for that.
AutoIndex(p, c) ==
  /\ connected[p] /\ up /\ Buildable(c)
  /\ indexed' = indexed \cup {c}
  /\ UNCHANGED <<up, rows, processVars, requestVars>>

GoesDown == up /\ up' = FALSE /\ UNCHANGED <<rows, indexed, processVars, requestVars>>
ComesBack == ~up /\ up' = TRUE /\ UNCHANGED <<rows, indexed, processVars, requestVars>>

\* The driver notices the loss, and reconnects a client that was connected.
Disconnect(p) ==
  /\ connected[p] /\ ~up
  /\ connected' = [connected EXCEPT ![p] = FALSE]
  /\ UNCHANGED <<database, boot, building, requestVars>>

Reconnect(p) ==
  /\ ~connected[p] /\ up /\ boot[p] \in {"indexing", "done"}
  /\ connected' = [connected EXCEPT ![p] = TRUE]
  /\ UNCHANGED <<database, boot, building, requestVars>>

\* A crash takes the process's requests with it; nobody gets their answers.
Crash(p) ==
  /\ boot[p] # "off"
  /\ boot' = [boot EXCEPT ![p] = "off"]
  /\ connected' = [connected EXCEPT ![p] = FALSE]
  /\ building' = [building EXCEPT ![p] = {}]
  /\ at' = [r \in Requests |-> IF at[r] = p THEN Nowhere ELSE at[r]]
  /\ pc' = [r \in Requests |-> IF at[r] = p THEN "idle" ELSE pc[r]]
  /\ op' = [r \in Requests |-> IF at[r] = p THEN NoOp ELSE op[r]]
  /\ UNCHANGED <<database, acked>>

----------------------------------------------------------------------------
(* Creating a row. *)

Answer(r, granted) ==
  /\ at' = [at EXCEPT ![r] = Nowhere]
  /\ pc' = [pc EXCEPT ![r] = "idle"]
  /\ op' = [op EXCEPT ![r] = NoOp]
  /\ acked' = [c \in Collections |->
                 IF c = op[r].collection THEN acked[c] \cup granted ELSE acked[c]]

Refuse(r) == Answer(r, {})
Grant(r) == Answer(r, {op[r].anchor})
Go(r, step) == pc' = [pc EXCEPT ![r] = step] /\ UNCHANGED <<at, op, acked>>

\* The readiness check: 503, which changes nothing, until readyState is 1.
Submit(r) ==
  /\ pc[r] = "idle"
  /\ \E p \in Processes, o \in Operations :
       /\ connected[p]
       /\ at' = [at EXCEPT ![r] = p]
       /\ op' = [op EXCEPT ![r] = o]
  /\ pc' = [pc EXCEPT ![r] = "read"]
  /\ UNCHANGED <<database, processVars, acked>>

\* findOne answers with one of the rows that have the key.
Existing(r) ==
  \E a \in Stored(op[r].collection) :
    IF a = op[r].anchor THEN Grant(r) ELSE Refuse(r)

Read(r) ==
  /\ pc[r] = "read"
  /\ up
  /\ UNCHANGED <<database, processVars>>
  /\ IF rows[op[r].collection] = <<>> THEN Go(r, "create") ELSE Existing(r)

\* Mutant of Create: the lost race is taken for success.
CreateBlindly(r) ==
  LET c == op[r].collection
  IN /\ pc[r] = "create"
     /\ UNCHANGED <<up, indexed, processVars>>
     /\ \/ /\ up /\ Insertable(c)
           /\ rows' = [rows EXCEPT ![c] = Append(@, op[r].anchor)]
           /\ Grant(r)
        \/ UNCHANGED rows /\ Grant(r)

\* Every failure of the create, a lost answer too, leads to a second read.
Create(r) ==
  LET c == op[r].collection
  IN /\ pc[r] = "create"
     /\ UNCHANGED <<up, indexed, processVars>>
     /\ \/ /\ up /\ Insertable(c)
           /\ rows' = [rows EXCEPT ![c] = Append(@, op[r].anchor)]
           /\ Grant(r) \/ Go(r, "reread")
        \/ /\ ~up \/ ~Insertable(c)
           /\ UNCHANGED rows
           /\ Go(r, "reread")

Reread(r) ==
  /\ pc[r] = "reread"
  /\ up
  /\ UNCHANGED <<database, processVars>>
  /\ IF rows[op[r].collection] = <<>> THEN Refuse(r) ELSE Existing(r)

\* A read that finds no database is answered 500.
ReadFails(r) ==
  /\ pc[r] \in {"read", "reread"}
  /\ ~up
  /\ UNCHANGED <<database, processVars>>
  /\ Refuse(r)

----------------------------------------------------------------------------

Init ==
  /\ up = TRUE
  /\ rows = [c \in Collections |-> <<>>]
  /\ indexed = {}
  /\ boot = [p \in Processes |-> "off"]
  /\ connected = [p \in Processes |-> FALSE]
  /\ building = [p \in Processes |-> {}]
  /\ at = [r \in Requests |-> Nowhere]
  /\ pc = [r \in Requests |-> "idle"]
  /\ op = [r \in Requests |-> NoOp]
  /\ acked = [c \in Collections |-> {}]

\* The connect loop of p takes a step.
Loop(p) == Connect(p) \/ ConnectFails(p) \/ Wake(p)
Settle(p, c) == BuildIndex(p, c) \/ BuildFails(p, c)
Handle(r) == Read(r) \/ Create(r) \/ Reread(r) \/ ReadFails(r)

Next ==
  \/ GoesDown \/ ComesBack
  \/ \E p \in Processes :
       \/ Start(p) \/ Crash(p) \/ Loop(p) \/ Disconnect(p) \/ Reconnect(p)
       \/ \E c \in Collections : Settle(p, c) \/ AutoIndex(p, c)
  \/ \E r \in Requests : Submit(r) \/ Handle(r)

Spec == Init /\ [][Next]_vars

\* Timers fire, calls to the database come back one way or the other, and the
\* driver reconnects; nobody has to start a process or to use it.
FairSpec ==
  /\ Spec
  /\ \A p \in Processes :
       /\ WF_vars(Loop(p)) /\ WF_vars(Reconnect(p))
       /\ \A c \in Collections : WF_vars(Settle(p, c))

----------------------------------------------------------------------------
(* Properties. *)

\* The database, the processes and the requests keep their shape; a request is
\* always at a process that runs, and a loop that has ended has no call in flight.
TypeOK ==
  /\ up \in BOOLEAN
  /\ rows \in [Collections -> Seq(Anchors)]
  /\ indexed \subseteq Collections
  /\ boot \in [Processes -> {"off", "connecting", "indexing", "waiting", "done"}]
  /\ connected \in [Processes -> BOOLEAN]
  /\ building \in [Processes -> SUBSET Collections]
  /\ at \in [Requests -> Processes \cup {Nowhere}]
  /\ pc \in [Requests -> {"idle", "read", "create", "reread"}]
  /\ op \in [Requests -> Operations \cup {NoOp}]
  /\ acked \in [Collections -> SUBSET Anchors]
  /\ \A r \in Requests : pc[r] = "idle" <=> at[r] = Nowhere
  /\ \A r \in Requests : pc[r] = "idle" <=> op[r] = NoOp
  /\ \A r \in Requests : at[r] # Nowhere => boot[at[r]] # "off"
  /\ \A p \in Processes : boot[p] \in {"off", "done"} => building[p] = {}

\* A loop that has ended, and logs "datastore connected", leaves every index built,
\* whichever calls of whichever attempts failed or came back late and whatever
\* crashed in between (database/index.ts:16-18): from then on one row per key
\* rests on the database alone.
LoopEndsIndexed == \A p \in Processes : boot[p] = "done" => indexed = Collections

\* An anchor that was acknowledged is stored, through crashes, outages and lost
\* answers; so with the index two acknowledged anchors are the same one
\* (register.ts, first writer wins).
AckedIsStored ==
  \A c \in Collections : acked[c] \subseteq Stored(c) /\ (c \in indexed => Cardinality(acked[c]) <= 1)

\* A process that stays up on a database that stays up gets to serve.
ServesEventually ==
  \A p \in Processes : <>[](up /\ boot[p] # "off") => <>[]connected[p]

\* ... and has every index built, unless a key was doubled before: one failed
\* attempt never ends the loop (database/index.ts, "would wedge the retry loop").
IndexesEventually ==
  \A p \in Processes : <>[](up /\ boot[p] # "off") =>
    <>[](\A c \in Collections : c \in indexed \/ Twice(c))

\* "Unique indexes must exist before traffic (registerGateDoc relies on the
\* docId E11000)" (database/index.ts:13-14): no key ever has two rows.
OneRowPerKey == \A c \in Collections : ~Twice(c)
=============================================================================
