------------------------- MODULE GateStartup_proofs -------------------------
(***************************************************************************)
(* Proofs about GateStartup, for any sets of processes, collections,       *)
(* anchors and requests.                                                   *)
(***************************************************************************)
EXTENDS GateStartup, FiniteSetTheorems, TLAPS

\* TypeOK in its three parts, by what a step changes.
DatabaseOK ==
  /\ up \in BOOLEAN
  /\ rows \in [Collections -> Seq(Anchors)]
  /\ indexed \subseteq Collections
  /\ acked \in [Collections -> SUBSET Anchors]
ProcessesOK ==
  /\ boot \in [Processes -> {"off", "connecting", "indexing", "waiting", "done"}]
  /\ connected \in [Processes -> BOOLEAN]
  /\ building \in [Processes -> SUBSET Collections]
RequestsOK ==
  /\ at \in [Requests -> Processes \cup {Nowhere}]
  /\ pc \in [Requests -> {"idle", "read", "create", "reread"}]
  /\ op \in [Requests -> Operations \cup {NoOp}]
  /\ \A r \in Requests : pc[r] = "idle" <=> at[r] = Nowhere
  /\ \A r \in Requests : pc[r] = "idle" <=> op[r] = NoOp
Hosted == \A r \in Requests : at[r] # Nowhere => boot[at[r]] # "off"

\* A process is connected only while it runs: a request is let through by a
\* process that is up.
ConnectedIsUp == \A p \in Processes : boot[p] = "off" => ~connected[p]

\* An index that was built stays good: by the guards that MongoDB puts on the builds
\* and on the inserts, and so no result about the gate by itself.
IndexedIsUnique == \A c \in indexed : ~Twice(c)

\* A loop that is off or has ended has no call in flight, and one that waits for its
\* calls has each index built or on its way: a call that fails ends the wait.
Quiet == \A p \in Processes : boot[p] \in {"off", "done"} => building[p] = {}
Settling ==
  \A p \in Processes :
    /\ boot[p] = "indexing" => Collections \subseteq building[p] \cup indexed
    /\ boot[p] = "done" => Collections \subseteq indexed

AckedAreStored == \A c \in Collections : acked[c] \subseteq Stored(c)

IInv ==
  /\ DatabaseOK /\ ProcessesOK /\ RequestsOK
  /\ Hosted /\ ConnectedIsUp /\ Quiet /\ Settling
  /\ IndexedIsUnique /\ AckedAreStored

LEMMA Parts == TypeOK <=> DatabaseOK /\ ProcessesOK /\ RequestsOK /\ Hosted /\ Quiet
BY DEF TypeOK, DatabaseOK, ProcessesOK, RequestsOK, Hosted, Quiet

LEMMA OperationShape ==
  \A o \in Operations : o # NoOp /\ o.collection \in Collections /\ o.anchor \in Anchors
BY DEF Operations, NoOp

----------------------------------------------------------------------------
(* What a step may leave alone. *)

\* Nothing happens to the rows, the indexes or what was acknowledged.
LEMMA SameRows ==
  ASSUME IndexedIsUnique, AckedAreStored, UNCHANGED <<rows, acked>>, indexed' = indexed
  PROVE  IndexedIsUnique' /\ AckedAreStored'
BY DEF IndexedIsUnique, AckedAreStored, Twice, Stored

\* A step of the connect loop or of the environment.
LEMMA ProcessStep ==
  ASSUME IInv, UNCHANGED requestVars, UNCHANGED rows, up' \in BOOLEAN, ProcessesOK',
         indexed' \subseteq Collections, \A c \in indexed' : ~Twice(c),
         ConnectedIsUp', Quiet', Settling', \A p \in Processes : boot'[p] = "off" => boot[p] = "off"
  PROVE  IInv'
<1>1. DatabaseOK' /\ RequestsOK'
  BY DEF IInv, DatabaseOK, RequestsOK, requestVars
<1>2. Hosted'
  BY DEF IInv, Hosted, RequestsOK, requestVars
<1>3. IndexedIsUnique' /\ AckedAreStored'
  BY DEF IInv, IndexedIsUnique, AckedAreStored, Twice, Stored, requestVars
<1>4. QED BY <1>1, <1>2, <1>3 DEF IInv

\* A step of a request: the rows may grow, and what is acknowledged is stored.
LEMMA RequestStep ==
  ASSUME IInv, UNCHANGED processVars, up' = up, indexed' = indexed,
         rows' \in [Collections -> Seq(Anchors)], acked' \in [Collections -> SUBSET Anchors],
         RequestsOK', IndexedIsUnique', AckedAreStored',
         \A r \in Requests : at'[r] # Nowhere => at[r] = at'[r] \/ boot[at'[r]] # "off"
  PROVE  IInv'
<1>1. DatabaseOK' /\ ProcessesOK' /\ ConnectedIsUp' /\ Quiet' /\ Settling'
  BY DEF IInv, DatabaseOK, ProcessesOK, ConnectedIsUp, Quiet, Settling, processVars
<1>2. Hosted'
  BY DEF IInv, Hosted, processVars
<1>3. QED BY <1>1, <1>2 DEF IInv

----------------------------------------------------------------------------
(* Initially, and the steps of the processes and of the environment. *)

LEMMA InitIInv == Init => IInv
<1>. SUFFICES ASSUME Init PROVE IInv
  OBVIOUS
<1>1. DatabaseOK /\ ProcessesOK /\ RequestsOK
  BY DEF Init, DatabaseOK, ProcessesOK, RequestsOK
<1>2. Hosted /\ ConnectedIsUp /\ Quiet /\ Settling /\ IndexedIsUnique /\ AckedAreStored
  BY DEF Init, Hosted, ConnectedIsUp, Quiet, Settling, IndexedIsUnique, AckedAreStored
<1>3. QED BY <1>1, <1>2 DEF IInv

LEMMA EnvironmentIInv == IInv /\ (GoesDown \/ ComesBack) => IInv'
<1>. SUFFICES ASSUME IInv, GoesDown \/ ComesBack PROVE IInv'
  OBVIOUS
<1>1. /\ UNCHANGED <<rows, indexed, boot, connected, building, requestVars>> /\ up' \in BOOLEAN
  BY DEF GoesDown, ComesBack, processVars
<1>2. ProcessesOK' /\ ConnectedIsUp' /\ Quiet' /\ Settling'
  BY <1>1 DEF IInv, ProcessesOK, ConnectedIsUp, Quiet, Settling
<1>3. indexed' \subseteq Collections /\ \A c \in indexed' : ~Twice(c)
  BY <1>1 DEF IInv, DatabaseOK, IndexedIsUnique
<1>4. QED BY <1>1, <1>2, <1>3, ProcessStep

LEMMA LoopIInv ==
  ASSUME IInv, NEW p \in Processes,
         Start(p) \/ Loop(p) \/ Disconnect(p) \/ Reconnect(p)
  PROVE  IInv'
<1>1. UNCHANGED <<up, rows, indexed, requestVars>>
  BY DEF Start, Loop, Connect, ConnectFails, Wake, Disconnect, Reconnect, database
<1>2. ProcessesOK'
  BY DEF IInv, ProcessesOK, Start, Loop, Connect, ConnectFails, Wake, Disconnect, Reconnect
<1>3. ConnectedIsUp' /\ \A q \in Processes : boot'[q] = "off" => boot[q] = "off"
  BY DEF IInv, ProcessesOK, ConnectedIsUp, Start, Loop, Connect, ConnectFails, Wake, Disconnect,
     Reconnect
<1>4. up' \in BOOLEAN /\ indexed' \subseteq Collections /\ \A c \in indexed' : ~Twice(c)
  BY <1>1 DEF IInv, DatabaseOK, IndexedIsUnique
<1>5. Quiet' /\ Settling'
  BY <1>1 DEF IInv, ProcessesOK, Quiet, Settling, Start, Loop, Connect, ConnectFails, Wake,
     Disconnect, Reconnect
<1>6. QED BY <1>1, <1>2, <1>3, <1>4, <1>5, ProcessStep

\* An index is built, or fails to be: only on a collection without doubles.
LEMMA IndexIInv ==
  ASSUME IInv, NEW p \in Processes, NEW c \in Collections, Settle(p, c) \/ AutoIndex(p, c)
  PROVE  IInv'
<1>1. UNCHANGED <<up, rows, requestVars>>
  BY DEF Settle, BuildIndex, BuildFails, AutoIndex, database
<1>2. indexed' = indexed \/ (indexed' = indexed \cup {c} /\ ~Twice(c))
  BY DEF Settle, BuildIndex, BuildFails, AutoIndex, Buildable, database
<1>3. ProcessesOK'
  <2>1. CASE BuildIndex(p, c) \/ BuildFails(p, c)
    BY <2>1 DEF IInv, ProcessesOK, BuildIndex, BuildFails
  <2>2. CASE AutoIndex(p, c)
    BY <2>2 DEF IInv, ProcessesOK, AutoIndex, processVars
  <2>3. QED BY <2>1, <2>2 DEF Settle
<1>4. ConnectedIsUp' /\ \A q \in Processes : boot'[q] = "off" => boot[q] = "off"
  BY DEF IInv, ProcessesOK, ConnectedIsUp, Settle, BuildIndex, BuildFails, AutoIndex, processVars
<1>5. indexed' \subseteq Collections /\ \A d \in indexed' : ~Twice(d)
  BY <1>2 DEF IInv, DatabaseOK, IndexedIsUnique
<1>6. Quiet' /\ Settling'
  <2>1. CASE BuildIndex(p, c)
    <3>1. /\ indexed' = indexed \cup {c}
          /\ building' = [building EXCEPT ![p] = building[p] \ {c}]
          /\ boot' = [boot EXCEPT ![p] = IF boot[p] = "indexing" /\ building'[p] = {} THEN "done"
                                         ELSE boot[p]]
      BY <2>1 DEF BuildIndex
    <3>2. building'[p] = building[p] \ {c} /\ \A q \in Processes \ {p} : building'[q] = building[q]
      BY <3>1 DEF IInv, ProcessesOK
    <3>3. \A q \in Processes \ {p} : boot'[q] = boot[q]
      BY <3>1 DEF IInv, ProcessesOK
    <3>4. boot'[p] = IF boot[p] = "indexing" /\ building'[p] = {} THEN "done" ELSE boot[p]
      BY <3>1 DEF IInv, ProcessesOK
    <3>5. Quiet'
      BY <3>2, <3>3, <3>4 DEF IInv, Quiet
    <3>6. Settling'
      BY <3>1, <3>2, <3>3, <3>4 DEF IInv, Settling
    <3>7. QED BY <3>5, <3>6
  <2>2. CASE BuildFails(p, c)
    <3>1. /\ indexed' = indexed /\ c \in building[p]
          /\ building' = [building EXCEPT ![p] = building[p] \ {c}]
          /\ boot' = [boot EXCEPT ![p] = IF boot[p] = "indexing" THEN "waiting" ELSE boot[p]]
      BY <2>2 DEF BuildFails, database
    <3>2. boot[p] \notin {"off", "done"} /\ boot'[p] \notin {"off", "indexing", "done"}
      BY <3>1 DEF IInv, ProcessesOK, Quiet
    <3>3. \A q \in Processes \ {p} : boot'[q] = boot[q] /\ building'[q] = building[q]
      BY <3>1 DEF IInv, ProcessesOK
    <3>4. QED BY <3>1, <3>2, <3>3 DEF IInv, Quiet, Settling
  <2>3. CASE AutoIndex(p, c)
    BY <2>3 DEF IInv, Quiet, Settling, AutoIndex, processVars
  <2>4. QED BY <2>1, <2>2, <2>3 DEF Settle
<1>7. QED BY <1>1, <1>3, <1>4, <1>5, <1>6, ProcessStep DEF IInv, DatabaseOK

\* The requests of the crashed process are gone with it.
LEMMA CrashIInv == ASSUME IInv, NEW p \in Processes, Crash(p) PROVE IInv'
<1>1. UNCHANGED <<up, rows, indexed, acked>>
  BY DEF Crash, database
<1>2. DatabaseOK' /\ IndexedIsUnique' /\ AckedAreStored'
  BY <1>1, SameRows DEF IInv, DatabaseOK
<1>3. ProcessesOK' /\ ConnectedIsUp'
  BY DEF IInv, ProcessesOK, ConnectedIsUp, Crash
<1>4. RequestsOK'
  BY NowhereIsNoProcess DEF IInv, RequestsOK, Crash
<1>5. Hosted'
  <2>. SUFFICES ASSUME NEW r \in Requests, at'[r] # Nowhere PROVE boot'[at'[r]] # "off"
    BY DEF Hosted
  <2>1. at'[r] = at[r] /\ at[r] # p /\ at[r] \in Processes
    BY DEF IInv, RequestsOK, Crash
  <2>2. QED BY <2>1 DEF IInv, ProcessesOK, Hosted, Crash
<1>6. Quiet' /\ Settling'
  BY <1>1 DEF IInv, ProcessesOK, Quiet, Settling, Crash
<1>7. QED BY <1>2, <1>3, <1>4, <1>5, <1>6 DEF IInv

----------------------------------------------------------------------------
(* The steps of a request. *)

LEMMA SubmitIInv == ASSUME IInv, NEW r \in Requests, Submit(r) PROVE IInv'
<1>. PICK p \in Processes, o \in Operations :
       /\ connected[p]
       /\ at' = [at EXCEPT ![r] = p]
       /\ op' = [op EXCEPT ![r] = o]
  BY DEF Submit
<1>1. UNCHANGED <<up, rows, indexed, processVars, acked>> /\ pc' = [pc EXCEPT ![r] = "read"]
  BY DEF Submit, database
<1>2. RequestsOK'
  BY <1>1, OperationShape, NowhereIsNoProcess DEF IInv, RequestsOK
<1>3. \A q \in Requests : at'[q] # Nowhere => at[q] = at'[q] \/ boot[at'[q]] # "off"
  BY DEF IInv, RequestsOK, ConnectedIsUp
<1>4. rows' \in [Collections -> Seq(Anchors)] /\ acked' \in [Collections -> SUBSET Anchors]
  BY <1>1 DEF IInv, DatabaseOK
<1>5. QED BY <1>1, <1>2, <1>3, <1>4, SameRows, RequestStep DEF IInv

\* The request that is being handled, and its collection.
LEMMA Asked ==
  ASSUME IInv, NEW r \in Requests, pc[r] # "idle"
  PROVE  op[r].collection \in Collections /\ op[r].anchor \in Anchors
BY OperationShape DEF IInv, RequestsOK

LEMMA AnswerOK ==
  ASSUME IInv, NEW r \in Requests, NEW granted \in SUBSET Anchors, Answer(r, granted)
  PROVE  /\ RequestsOK' /\ acked' \in [Collections -> SUBSET Anchors]
         /\ \A q \in Requests : at'[q] # Nowhere => at[q] = at'[q]
         /\ \A c \in Collections :
              acked'[c] = IF c = op[r].collection THEN acked[c] \cup granted ELSE acked[c]
BY DEF IInv, DatabaseOK, RequestsOK, Answer

LEMMA GoOK ==
  ASSUME IInv, NEW r \in Requests, pc[r] # "idle", NEW step \in {"create", "reread"}, Go(r, step)
  PROVE  RequestsOK' /\ UNCHANGED <<at, acked>>
BY DEF IInv, RequestsOK, Go

LEMMA AnswerIInv ==
  ASSUME IInv, NEW r \in Requests, NEW granted \in SUBSET Anchors, Answer(r, granted),
         NEW k \in Collections, k = op[r].collection, granted \subseteq Stored(k)',
         UNCHANGED <<up, indexed, processVars>>,
         rows' \in [Collections -> Seq(Anchors)], IndexedIsUnique',
         \A c \in Collections : Stored(c) \subseteq Stored(c)'
  PROVE  IInv'
<1>1. /\ RequestsOK' /\ acked' \in [Collections -> SUBSET Anchors]
      /\ \A q \in Requests : at'[q] # Nowhere => at[q] = at'[q]
      /\ \A c \in Collections :
           acked'[c] = IF c = op[r].collection THEN acked[c] \cup granted ELSE acked[c]
  BY AnswerOK
<1>2. ASSUME NEW c \in Collections PROVE acked'[c] \subseteq Stored(c)'
  <2>1. acked[c] \subseteq Stored(c)'
    BY DEF IInv, AckedAreStored
  <2>2. QED BY <1>1, <2>1
<1>3. AckedAreStored'
  BY <1>2 DEF AckedAreStored
<1>4. QED BY <1>1, <1>3, RequestStep

LEMMA GoIInv ==
  ASSUME IInv, NEW r \in Requests, pc[r] # "idle", NEW step \in {"create", "reread"}, Go(r, step),
         UNCHANGED <<up, indexed, processVars>>,
         rows' \in [Collections -> Seq(Anchors)], IndexedIsUnique',
         \A c \in Collections : Stored(c) \subseteq Stored(c)'
  PROVE  IInv'
<1>1. RequestsOK' /\ UNCHANGED <<at, acked>>
  BY GoOK
<1>2. AckedAreStored'
  BY <1>1 DEF IInv, AckedAreStored
<1>3. QED BY <1>1, <1>2, RequestStep DEF IInv, DatabaseOK

\* A read answers by a stored row, refuses, or goes on; it changes no row.
LEMMA ReadIInv ==
  ASSUME IInv, NEW r \in Requests, Read(r) \/ Reread(r) \/ ReadFails(r)
  PROVE  IInv'
<1>1. pc[r] # "idle" /\ UNCHANGED <<up, rows, indexed, processVars>>
  BY DEF Read, Reread, ReadFails, database
<1>2. /\ rows' \in [Collections -> Seq(Anchors)] /\ IndexedIsUnique'
      /\ \A c \in Collections : Stored(c)' = Stored(c)
  BY <1>1 DEF IInv, DatabaseOK, IndexedIsUnique, Twice, Stored
<1>3. PICK k \in Collections : k = op[r].collection /\ op[r].anchor \in Anchors
  BY <1>1, Asked
<1>4. CASE Go(r, "create")
  BY <1>1, <1>2, <1>4, GoIInv
<1>5. CASE Refuse(r)
  BY <1>1, <1>2, <1>5, <1>3, AnswerIInv DEF Refuse
<1>6. CASE Existing(r)
  <2>1. CASE Refuse(r)
    BY <1>5, <2>1
  <2>2. CASE Grant(r) /\ op[r].anchor \in Stored(op[r].collection)
    <3>1. {op[r].anchor} \in SUBSET Anchors /\ {op[r].anchor} \subseteq Stored(k)'
      BY <1>2, <1>3, <2>2
    <3>2. QED BY <1>1, <1>2, <1>3, <2>2, <3>1, AnswerIInv DEF Grant
  <2>3. QED BY <1>6, <2>1, <2>2 DEF Existing
<1>7. QED BY <1>4, <1>5, <1>6 DEF Read, Reread, ReadFails

\* An appended row keeps the others, and is the first where the index is.
LEMMA Appended ==
  ASSUME IInv, NEW c \in Collections, NEW a \in Anchors, c \in indexed => rows[c] = <<>>,
         rows' = [rows EXCEPT ![c] = Append(@, a)], indexed' = indexed
  PROVE  /\ rows' \in [Collections -> Seq(Anchors)] /\ IndexedIsUnique'
         /\ a \in Stored(c)' /\ \A d \in Collections : Stored(d) \subseteq Stored(d)'
<1>1. rows[c] \in Seq(Anchors) /\ rows'[c] = Append(rows[c], a)
  BY DEF IInv, DatabaseOK
<1>2. \A d \in Collections \ {c} : rows'[d] = rows[d]
  BY DEF IInv, DatabaseOK
<1>3. Append(rows[c], a) \in Seq(Anchors)
  BY <1>1
<1>4. rows' \in [Collections -> Seq(Anchors)]
  BY <1>1, <1>3 DEF IInv, DatabaseOK
<1>5. /\ Len(rows'[c]) = Len(rows[c]) + 1 /\ rows'[c][Len(rows[c]) + 1] = a
      /\ DOMAIN rows'[c] = 1 .. Len(rows[c]) + 1 /\ DOMAIN rows[c] = 1 .. Len(rows[c])
      /\ Len(rows[c]) \in Nat
      /\ \A i \in 1 .. Len(rows[c]) : rows'[c][i] = rows[c][i]
  BY <1>1
<1>6. a \in Stored(c)'
  <2>1. Len(rows[c]) + 1 \in DOMAIN rows'[c]
    BY <1>5
  <2>2. QED BY <1>5, <2>1 DEF Stored
<1>7. \A d \in Collections : Stored(d) \subseteq Stored(d)'
  <2>1. Stored(c) \subseteq Stored(c)'
    <3>. SUFFICES ASSUME NEW i \in DOMAIN rows[c] PROVE rows[c][i] \in Stored(c)'
      BY DEF Stored
    <3>1. i \in DOMAIN rows'[c] /\ rows'[c][i] = rows[c][i]
      BY <1>5
    <3>2. QED BY <3>1 DEF Stored
  <2>2. QED BY <1>2, <2>1 DEF Stored
<1>8. IndexedIsUnique'
  <2>1. c \in indexed => Len(rows'[c]) = 1
    BY <1>5
  <2>2. QED BY <1>2, <2>1 DEF IInv, DatabaseOK, IndexedIsUnique, Twice
<1>9. QED BY <1>4, <1>6, <1>7, <1>8

LEMMA CreateIInv == ASSUME IInv, NEW r \in Requests, Create(r) PROVE IInv'
<1>1. pc[r] # "idle" /\ UNCHANGED <<up, indexed, processVars>>
  BY DEF Create
<1>. PICK c \in Collections, a \in Anchors : c = op[r].collection /\ a = op[r].anchor
  BY <1>1, Asked
<1>2. CASE rows' = [rows EXCEPT ![c] = Append(@, a)] /\ (c \in indexed => rows[c] = <<>>)
           /\ (Grant(r) \/ Go(r, "reread"))
  <2>1. /\ rows' \in [Collections -> Seq(Anchors)] /\ IndexedIsUnique'
        /\ a \in Stored(c)' /\ \A d \in Collections : Stored(d) \subseteq Stored(d)'
    BY <1>1, <1>2, Appended
  <2>2. CASE Grant(r)
    <3>1. {a} \in SUBSET Anchors /\ {a} \subseteq Stored(c)'
      BY <2>1
    <3>2. Answer(r, {a})
      BY <2>2 DEF Grant
    <3>3. QED BY <1>1, <2>1, <3>1, <3>2, AnswerIInv
  <2>3. CASE Go(r, "reread")
    BY <1>1, <2>1, <2>3, GoIInv
  <2>4. QED BY <1>2, <2>2, <2>3
<1>3. CASE UNCHANGED rows /\ Go(r, "reread")
  <2>1. /\ rows' \in [Collections -> Seq(Anchors)] /\ IndexedIsUnique'
        /\ \A d \in Collections : Stored(d) \subseteq Stored(d)'
    BY <1>1, <1>3 DEF IInv, DatabaseOK, IndexedIsUnique, Twice, Stored
  <2>2. QED BY <1>1, <1>3, <2>1, GoIInv
<1>4. QED BY <1>2, <1>3 DEF Create, Insertable

----------------------------------------------------------------------------
(* The theorems. *)

LEMMA NextIInv == IInv /\ [Next]_vars => IInv'
<1>. SUFFICES ASSUME IInv, [Next]_vars PROVE IInv'
  OBVIOUS
<1>1. CASE UNCHANGED vars
  BY <1>1 DEF IInv, DatabaseOK, ProcessesOK, RequestsOK, Hosted, ConnectedIsUp, Quiet, Settling,
     IndexedIsUnique, AckedAreStored, Twice, Stored, vars, database, processVars, requestVars
<1>2. CASE Next
  BY <1>2, EnvironmentIInv, LoopIInv, IndexIInv, CrashIInv, SubmitIInv, ReadIInv, CreateIInv
  DEF Next, Handle
<1>3. QED BY <1>1, <1>2

LEMMA Inductive == Spec => []IInv
BY InitIInv, NextIInv, PTL DEF Spec

\* The database, the processes and the requests keep their shape, a request is
\* always at a process that runs, and a loop that has ended has no call in flight.
THEOREM TypeCorrect == Spec => []TypeOK
<1>1. IInv => TypeOK
  BY Parts DEF IInv
<1>2. QED BY <1>1, Inductive, PTL

\* A connect loop that has ended leaves every unique index built, whichever calls of
\* whichever attempts failed or came back late (database/index.ts:16-18).
THEOREM LoopIndexed == Spec => []LoopEndsIndexed
<1>1. IInv => LoopEndsIndexed
  BY DEF IInv, DatabaseOK, Settling, LoopEndsIndexed
<1>2. QED BY <1>1, Inductive, PTL

\* What was acknowledged is stored, whatever crashes, and with the index it is
\* one anchor (register.ts, first writer wins).
THEOREM NothingAckedIsLost == Spec => []AckedIsStored
<1>1. ASSUME IInv, NEW c \in Collections, c \in indexed PROVE Cardinality(acked[c]) <= 1
  <2>1. rows[c] \in Seq(Anchors) /\ Len(rows[c]) \in Nat /\ Len(rows[c]) <= 1
    BY <1>1 DEF IInv, DatabaseOK, IndexedIsUnique, Twice
  <2>2. \A x, y \in Stored(c) : x = y
    BY <2>1 DEF Stored
  <2>3. acked[c] \subseteq Stored(c)
    BY <1>1 DEF IInv, AckedAreStored
  <2>4. CASE acked[c] = {}
    BY <2>4, FS_EmptySet
  <2>5. CASE acked[c] # {}
    <3>1. PICK x : acked[c] = {x}
      BY <2>2, <2>3, <2>5
    <3>2. QED BY <3>1, FS_Singleton
  <2>6. QED BY <2>4, <2>5
<1>2. IInv => AckedIsStored
  BY <1>1 DEF IInv, AckedAreStored, AckedIsStored
<1>3. QED BY <1>2, Inductive, PTL
=============================================================================
