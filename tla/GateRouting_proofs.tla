------------------------- MODULE GateRouting_proofs -------------------------
(***************************************************************************)
(* Proofs about GateRouting, for any sets of groups, portals, files,       *)
(* requests and operations and any bound on the entries.  Four invariants  *)
(* build on each other: IInv, which needs nothing of the entries but that  *)
(* a register writes back the ones it has read; the types; the portals of  *)
(* the groups in the table; and what a request that nobody overtook knows  *)
(* of the entries.  The last three need what the operators on the routing  *)
(* table return, which comes first.                                        *)
(***************************************************************************)
EXTENDS GateRouting, WellFoundedInduction, TLAPS

----------------------------------------------------------------------------
(* The routing table: what find(), the positional $ and $pull do. *)

\* A set of naturals that is not empty has a least element.
LEMMA Smallest ==
  ASSUME NEW T \in SUBSET Nat, T # {}
  PROVE  \E m \in T : \A n \in T : m <= n
<1>. DEFINE R == OpToRel(<, Nat)
<1>1. IsWellFoundedOn(R, Nat)
  BY NatLessThanWellFounded
<1>2. \A x, y \in Nat : <<y, x>> \in R <=> y < x
  BY DEF OpToRel
<1>. HIDE DEF R
<1>3. \E x \in T : \A y \in T : ~ (<<y, x>> \in R)
  BY <1>1, WFMin
<1>4. PICK x \in T : \A y \in T : ~ (<<y, x>> \in R)
  BY <1>3
<1>5. ASSUME NEW y \in T PROVE x <= y
  <2>1. x \in Nat /\ y \in Nat /\ ~ (y < x)
    BY <1>2, <1>4
  <2>2. QED BY <2>1
<1>6. QED BY <1>5

LEMMA FirstIsEntry ==
  ASSUME NEW roots \in Seq(Entry), NEW g, EntriesOf(roots, g) # {}
  PROVE  FirstOf(roots, g) \in DOMAIN roots /\ roots[FirstOf(roots, g)].groupRef = g
<1>1. EntriesOf(roots, g) \in SUBSET Nat
  BY DEF EntriesOf
<1>2. \E i \in EntriesOf(roots, g) : \A j \in EntriesOf(roots, g) : i <= j
  BY <1>1, Smallest
<1>3. FirstOf(roots, g) \in EntriesOf(roots, g)
  BY <1>2 DEF FirstOf
<1>4. QED BY <1>3 DEF EntriesOf

LEMMA RoleOfType ==
  ASSUME NEW roots \in Seq(Entry), NEW g
  PROVE  /\ RoleOf(roots, g) \in GateRole \cup {NoRole}
         /\ RoleOf(roots, g) = NoRole <=> EntriesOf(roots, g) = {}
<1>1. ASSUME EntriesOf(roots, g) # {}
      PROVE  roots[FirstOf(roots, g)].role \in GateRole
  <2>1. roots[FirstOf(roots, g)] \in Entry
    BY <1>1, FirstIsEntry
  <2>2. QED BY <2>1 DEF Entry
<1>2. NoRole \notin GateRole
  BY DEF NoRole, GateRole
<1>3. QED BY <1>1, <1>2 DEF RoleOf

LEMMA Pushed ==
  ASSUME NEW roots \in Seq(Entry), NEW g \in Groups, NEW role \in GateRole,
         EntriesOf(roots, g) = {}
  PROVE  RoleOf(Append(roots, [groupRef |-> g, role |-> role]), g) = role
<1>. DEFINE e == [groupRef |-> g, role |-> role]
            all == Append(roots, e)
            n == Len(roots) + 1
<1>0. e \in Entry /\ e.groupRef = g /\ e.role = role
  BY DEF Entry
<1>. HIDE DEF e
<1>1. all \in Seq(Entry) /\ DOMAIN all = 1 .. n /\ n \in 1 .. n /\ all[n] = e
      /\ \A i \in 1 .. n - 1 : all[i] = roots[i]
  BY <1>0
<1>2. EntriesOf(all, g) = {n}
  BY <1>0, <1>1 DEF EntriesOf
<1>3. FirstOf(all, g) = n
  <2>1. FirstOf(all, g) \in EntriesOf(all, g)
    <3>. HIDE DEF all, n
    <3>. QED BY <1>1, <1>2, FirstIsEntry DEF EntriesOf
  <2>2. QED BY <1>2, <2>1
<1>4. QED BY <1>0, <1>1, <1>2, <1>3 DEF RoleOf, e

LEMMA RelabelMoves ==
  ASSUME NEW roots \in Seq(Entry), NEW g \in Groups, NEW role \in GateRole
  PROVE  /\ Relabelled(roots, g, role) \in Seq(Entry)
         /\ Len(Relabelled(roots, g, role)) = Len(roots)
         /\ \A i \in DOMAIN roots : Relabelled(roots, g, role)[i].groupRef = roots[i].groupRef
         /\ EntriesOf(roots, g) # {} => RoleOf(Relabelled(roots, g, role), g) = role
<1>1. CASE EntriesOf(roots, g) = {}
  BY <1>1 DEF Relabelled
<1>2. CASE EntriesOf(roots, g) # {}
  <2>. PICK k \in DOMAIN roots : k = FirstOf(roots, g) /\ roots[k].groupRef = g
    BY <1>2, FirstIsEntry
  <2>. PICK new : new = Relabelled(roots, g, role)
    OBVIOUS
  <2>1. new = [roots EXCEPT ![k].role = role]
    BY <1>2 DEF Relabelled
  <2>. PICK e : e = [roots[k] EXCEPT !.role = role]
    OBVIOUS
  <2>2. e \in Entry /\ e.groupRef = roots[k].groupRef /\ e.role = role
    <3>1. roots[k] \in Entry
      OBVIOUS
    <3>2. QED BY <3>1 DEF Entry
  <2>3. /\ new \in Seq(Entry) /\ Len(new) = Len(roots) /\ DOMAIN new = DOMAIN roots
        /\ \A i \in DOMAIN roots : new[i].groupRef = roots[i].groupRef
        /\ new[k].role = role
    <3>1. new = [roots EXCEPT ![k] = e]
      BY <2>1
    <3>2. DOMAIN roots = 1 .. Len(roots) /\ Len(roots) \in Nat
      OBVIOUS
    <3>3. DOMAIN new = DOMAIN roots /\ \A i \in DOMAIN roots : new[i] = IF i = k THEN e ELSE roots[i]
      BY <3>1
    <3>4. new \in Seq(Entry) /\ Len(new) = Len(roots)
      BY <2>2, <3>1
    <3>5. QED BY <2>2, <3>3, <3>4
  <2>4. EntriesOf(new, g) = EntriesOf(roots, g)
    BY <2>3 DEF EntriesOf
  <2>5. FirstOf(new, g) = k
    BY <2>4 DEF FirstOf
  <2>6. RoleOf(new, g) = role
    BY <1>2, <2>3, <2>4, <2>5 DEF RoleOf
  <2>7. QED BY <2>3, <2>6
<1>3. QED BY <1>1, <1>2

\* A set of naturals that has 0 and with each number below the bound its
\* successor has them all.
LEMMA UpTo ==
  ASSUME NEW bound \in Nat, NEW good, 0 \in good,
         \A m \in 0 .. bound - 1 : m \in good => m + 1 \in good
  PROVE  bound \in good
<1>. DEFINE Bad == {m \in 0 .. bound : m \notin good}
<1>. SUFFICES ASSUME Bad # {} PROVE FALSE
  OBVIOUS
<1>1. Bad \in SUBSET Nat
  OBVIOUS
<1>2. PICK m \in Bad : \A n \in Bad : m <= n
  <2>. HIDE DEF Bad
  <2>. QED BY <1>1, Smallest
<1>3. m \in 1 .. bound /\ m - 1 \in 0 .. bound - 1 /\ m - 1 + 1 = m
  OBVIOUS
<1>4. m - 1 \in good
  BY <1>2, <1>3
<1>5. QED BY <1>2, <1>3, <1>4

\* The recursion of Kept has a solution.
LEMMA KeptRecursion ==
  ASSUME NEW roots \in Seq(Entry), NEW g
  PROVE  LET kept == Kept(roots, g)
         IN /\ kept[0] = <<>>
            /\ \A n \in 1 .. Len(roots) :
                 kept[n] = IF roots[n].groupRef = g THEN kept[n - 1]
                           ELSE Append(kept[n - 1], roots[n])
<1>. DEFINE Value(f, n) == IF n = 0 THEN <<>>
                           ELSE IF roots[n].groupRef = g THEN f[n - 1]
                                ELSE Append(f[n - 1], roots[n])
            Solves(f, m) == f = [n \in 0 .. m |-> Value(f, n)]
            good == {m \in 0 .. Len(roots) : \E f : Solves(f, m)}
<1>0. Len(roots) \in Nat
  OBVIOUS
<1>1. Solves([n \in 0 .. 0 |-> <<>>], 0)
  <2>1. \A n \in 0 .. 0 : n = 0
    OBVIOUS
  <2>2. QED BY <2>1
<1>2. ASSUME NEW m \in 0 .. Len(roots) - 1, NEW f, Solves(f, m) PROVE \E h : Solves(h, m + 1)
  <2>. DEFINE Old(n) == Value(f, n)
  <2>. DEFINE h == [n \in 0 .. m + 1 |-> Old(n)]
  <2>0. m \in Nat
    BY <1>0
  <2>. HIDE DEF Value
  <2>1. \A n \in 0 .. m : h[n] = f[n]
    BY <1>2, <2>0
  <2>2. \A n \in 0 .. m + 1 : n # 0 => n - 1 \in 0 .. m
    BY <2>0
  <2>3. ASSUME NEW n \in 0 .. m + 1 PROVE Old(n) = Value(h, n)
    <3>. HIDE DEF h
    <3>. QED BY <2>1, <2>2 DEF Value
  <2>4. h = [n \in 0 .. m + 1 |-> Value(h, n)]
    <3>. HIDE DEF Old
    <3>. QED BY <2>3
  <2>5. QED BY <2>4
<1>. HIDE DEF Solves
<1>3. 0 \in good /\ \A m \in 0 .. Len(roots) - 1 : m \in good => m + 1 \in good
  BY <1>0, <1>1, <1>2
<1>4. Len(roots) \in good
  <2>. HIDE DEF good
  <2>1. \A N \in Nat : 0 \in good /\ (\A m \in 0 .. N - 1 : m \in good => m + 1 \in good) => N \in good
    BY UpTo
  <2>. QED BY <1>0, <1>3, <2>1
<1>5. Kept(roots, g) = CHOOSE f : Solves(f, Len(roots))
  BY DEF Kept, Solves
<1>6. Solves(Kept(roots, g), Len(roots))
  BY <1>4, <1>5
<1>7. PICK kept : kept = Kept(roots, g)
  OBVIOUS
<1>8. \A n \in 0 .. Len(roots) : kept[n] = Value(kept, n)
  <2>. HIDE DEF Value
  <2>. QED BY <1>6, <1>7 DEF Solves
<1>9. QED BY <1>0, <1>7, <1>8

\* What is kept of the first n entries: some of them, none of the group.
KeptWell(roots, g, some, n) ==
  /\ some \in Seq(Entry) /\ Len(some) <= n
  /\ \A i \in DOMAIN some :
       some[i].groupRef # g /\ \E j \in DOMAIN roots : some[i] = roots[j]

\* One entry more.
LEMMA KeepOne ==
  ASSUME NEW roots \in Seq(Entry), NEW g, NEW n \in 1 .. Len(roots), roots[n].groupRef # g,
         NEW some, KeptWell(roots, g, some, n - 1)
  PROVE  KeptWell(roots, g, Append(some, roots[n]), n)
<1>. DEFINE all == Append(some, roots[n])
<1>0. some \in Seq(Entry) /\ Len(some) <= n - 1 /\ Len(some) \in Nat /\ DOMAIN some = 1 .. Len(some)
  BY DEF KeptWell
<1>1. n \in DOMAIN roots /\ roots[n] \in Entry
  OBVIOUS
<1>2. /\ all \in Seq(Entry) /\ Len(all) = Len(some) + 1 /\ DOMAIN all = 1 .. Len(some) + 1
      /\ \A i \in 1 .. Len(some) : all[i] = some[i]
      /\ all[Len(some) + 1] = roots[n]
  BY <1>0, <1>1
<1>. HIDE DEF all
<1>3. ASSUME NEW i \in DOMAIN all
      PROVE  all[i].groupRef # g /\ \E j \in DOMAIN roots : all[i] = roots[j]
  <2>1. CASE i \in 1 .. Len(some)
    BY <1>0, <1>2, <2>1 DEF KeptWell
  <2>2. CASE i = Len(some) + 1
    BY <1>1, <1>2, <2>2
  <2>3. QED BY <1>0, <1>2, <2>1, <2>2
<1>4. Len(all) <= n
  BY <1>0, <1>2
<1>5. QED BY <1>2, <1>3, <1>4 DEF KeptWell, all

\* $pull keeps some of the entries and none of the group's.
LEMMA WithoutShrinks ==
  ASSUME NEW roots \in Seq(Entry), NEW g
  PROVE  KeptWell(roots, g, Without(roots, g), Len(roots))
<1>. PICK kept : kept = Kept(roots, g)
  OBVIOUS
<1>. DEFINE good == {n \in 0 .. Len(roots) : KeptWell(roots, g, kept[n], n)}
<1>0. Len(roots) \in Nat
  OBVIOUS
<1>1. /\ kept[0] = <<>>
      /\ \A n \in 1 .. Len(roots) :
           kept[n] = IF roots[n].groupRef = g THEN kept[n - 1] ELSE Append(kept[n - 1], roots[n])
  BY KeptRecursion
<1>2. 0 \in good
  <2>1. kept[0] \in Seq(Entry) /\ Len(kept[0]) = 0 /\ DOMAIN kept[0] = {}
    BY <1>1
  <2>2. QED BY <1>0, <2>1 DEF KeptWell
<1>3. ASSUME NEW m \in 0 .. Len(roots) - 1, KeptWell(roots, g, kept[m], m)
      PROVE  KeptWell(roots, g, kept[m + 1], m + 1)
  <2>0. m \in Nat /\ m + 1 \in 1 .. Len(roots) /\ m + 1 - 1 = m
    BY <1>0
  <2>. PICK n \in 1 .. Len(roots) : n = m + 1 /\ n - 1 = m
    BY <2>0
  <2>1. CASE roots[n].groupRef = g
    <3>1. kept[n] = kept[m]
      BY <1>1, <2>1
    <3>2. QED BY <1>3, <2>0, <3>1 DEF KeptWell
  <2>2. CASE roots[n].groupRef # g
    <3>1. kept[n] = Append(kept[m], roots[n])
      BY <1>1, <2>2
    <3>2. KeptWell(roots, g, Append(kept[m], roots[n]), n)
      BY <1>3, <2>2, KeepOne
    <3>3. QED BY <3>1, <3>2
  <2>3. QED BY <2>1, <2>2
<1>4. \A m \in 0 .. Len(roots) - 1 : m \in good => m + 1 \in good
  BY <1>0, <1>3
<1>5. Len(roots) \in good
  <2>. HIDE DEF good
  <2>1. \A N \in Nat : 0 \in good /\ (\A m \in 0 .. N - 1 : m \in good => m + 1 \in good) => N \in good
    BY UpTo
  <2>. QED BY <1>0, <1>2, <1>4, <2>1
<1>6. QED BY <1>5 DEF Without

LEMMA FirstOfIs ==
  ASSUME NEW roots \in Seq(Entry), NEW g, NEW k \in EntriesOf(roots, g),
         \A j \in EntriesOf(roots, g) : k <= j
  PROVE  FirstOf(roots, g) = k
<1>1. EntriesOf(roots, g) \in SUBSET Nat
  BY DEF EntriesOf
<1>2. \A i, j \in Nat : i <= j /\ j <= i => i = j
  OBVIOUS
<1>3. QED BY <1>1, <1>2 DEF FirstOf

\* The first entry of a group stays the first when its index and those of the
\* entries before it stay; so a role is what the earliest entry says.
LEMMA SameFirst ==
  ASSUME NEW roots \in Seq(Entry), NEW more \in Seq(Entry), NEW h,
         EntriesOf(roots, h) # {}, EntriesOf(roots, h) \subseteq EntriesOf(more, h),
         \A j \in EntriesOf(more, h) \ EntriesOf(roots, h) : j > Len(roots),
         \A i \in EntriesOf(roots, h) : more[i].role = roots[i].role
  PROVE  RoleOf(more, h) = RoleOf(roots, h)
<1>0. EntriesOf(roots, h) \in SUBSET Nat
  BY DEF EntriesOf
<1>1. PICK k \in EntriesOf(roots, h) : \A j \in EntriesOf(roots, h) : k <= j
  BY <1>0, Smallest
<1>2. k \in Nat /\ k <= Len(roots)
  BY DEF EntriesOf
<1>3. FirstOf(roots, h) = k
  BY <1>1, FirstOfIs
<1>4. \A j \in EntriesOf(more, h) : k <= j
  <2>1. ASSUME NEW j \in EntriesOf(more, h), j > Len(roots) PROVE k <= j
    <3>1. j \in Nat /\ Len(roots) \in Nat
      BY DEF EntriesOf
    <3>2. QED BY <1>2, <2>1, <3>1
  <2>2. QED BY <1>1, <2>1
<1>5. FirstOf(more, h) = k
  BY <1>4, FirstOfIs
<1>6. QED BY <1>3, <1>5 DEF RoleOf

Longer(roots, e, all) ==
  /\ all \in Seq(Entry) /\ Len(all) = Len(roots) + 1 /\ all[Len(roots) + 1] = e
  /\ \A i \in 1 .. Len(roots) : all[i] = roots[i]

\* One entry more at the end counts for a group that had none.
LEMMA OneMore ==
  ASSUME NEW roots \in Seq(Entry), NEW e \in Entry, NEW all, Longer(roots, e, all), NEW h
  PROVE  RoleOf(all, h) = IF EntriesOf(roots, h) # {} THEN RoleOf(roots, h)
                          ELSE IF e.groupRef = h THEN e.role ELSE NoRole
<1>0. /\ Len(roots) \in Nat /\ DOMAIN roots = 1 .. Len(roots)
      /\ DOMAIN all = 1 .. Len(roots) + 1 /\ all \in Seq(Entry)
      /\ all[Len(roots) + 1] = e /\ \A i \in 1 .. Len(roots) : all[i] = roots[i]
  BY DEF Longer
<1>1. EntriesOf(all, h) = EntriesOf(roots, h) \cup (IF e.groupRef = h THEN {Len(roots) + 1} ELSE {})
  BY <1>0 DEF EntriesOf
<1>2. CASE EntriesOf(roots, h) # {}
  <2>1. \A j \in EntriesOf(all, h) \ EntriesOf(roots, h) : j > Len(roots)
    BY <1>0, <1>1
  <2>2. \A i \in EntriesOf(roots, h) : all[i].role = roots[i].role
    BY <1>0 DEF EntriesOf
  <2>3. QED BY <1>0, <1>1, <1>2, <2>1, <2>2, SameFirst
<1>3. CASE EntriesOf(roots, h) = {} /\ e.groupRef = h
  <2>1. EntriesOf(all, h) = {Len(roots) + 1}
    BY <1>1, <1>3
  <2>2. FirstOf(all, h) = Len(roots) + 1
    BY <1>0, <2>1, FirstOfIs
  <2>3. QED BY <1>0, <1>3, <2>1, <2>2 DEF RoleOf
<1>4. CASE EntriesOf(roots, h) = {} /\ e.groupRef # h
  BY <1>1, <1>4 DEF RoleOf
<1>5. QED BY <1>2, <1>3, <1>4

\* $pull leaves every other group with the role it had.
LEMMA WithoutSpares ==
  ASSUME NEW roots \in Seq(Entry), NEW g, NEW h, h # g
  PROVE  RoleOf(Without(roots, g), h) = RoleOf(roots, h)
<1>. PICK kept : kept = Kept(roots, g)
  OBVIOUS
<1>. DEFINE front(n) == [i \in 1 .. n |-> roots[i]]
            same(n) == kept[n] \in Seq(Entry) /\ RoleOf(kept[n], h) = RoleOf(front(n), h)
            good == {n \in 0 .. Len(roots) : same(n)}
<1>0. Len(roots) \in Nat
  OBVIOUS
<1>1. /\ kept[0] = <<>>
      /\ \A n \in 1 .. Len(roots) :
           kept[n] = IF roots[n].groupRef = g THEN kept[n - 1] ELSE Append(kept[n - 1], roots[n])
  BY KeptRecursion
<1>2. /\ \A n \in 0 .. Len(roots) : front(n) \in Seq(Entry) /\ Len(front(n)) = n
      /\ \A n \in 0 .. Len(roots) : \A i \in 1 .. n : front(n)[i] = roots[i]
      /\ front(0) = <<>> /\ front(Len(roots)) = roots
  <2>1. /\ \A n \in 0 .. Len(roots) : front(n) \in Seq(Entry) /\ Len(front(n)) = n
        /\ \A n \in 0 .. Len(roots) : \A i \in 1 .. n : front(n)[i] = roots[i]
    OBVIOUS
  <2>2. front(0) = <<>>
    OBVIOUS
  <2>3. front(Len(roots)) = roots
    OBVIOUS
  <2>. HIDE DEF front
  <2>4. QED BY <2>1, <2>2, <2>3
<1>. HIDE DEF front
<1>3. same(0)
  <2>1. <<>> \in Seq(Entry)
    OBVIOUS
  <2>2. QED BY <1>1, <1>2, <2>1
<1>4. ASSUME NEW m \in 0 .. Len(roots) - 1, same(m) PROVE same(m + 1)
  <2>0. PICK n \in 1 .. Len(roots), e \in Entry : n = m + 1 /\ n - 1 = m /\ e = roots[n]
    <3>1. m \in Nat /\ m + 1 \in 1 .. Len(roots) /\ m + 1 - 1 = m /\ roots[m + 1] \in Entry
      BY <1>0
    <3>2. QED BY <3>1
  <2>1. PICK old \in Seq(Entry) : old = front(m)
    BY <1>2
  <2>2. PICK new \in Seq(Entry) : new = front(n)
    BY <1>2
  <2>3. PICK some \in Seq(Entry) : some = kept[m]
    BY <1>4
  <2>4. Longer(old, e, new)
    <3>1. /\ Len(old) = m /\ Len(new) = Len(old) + 1 /\ new[Len(old) + 1] = e
          /\ \A i \in 1 .. Len(old) : new[i] = old[i]
      BY <1>2, <2>0, <2>1, <2>2
    <3>2. QED BY <3>1 DEF Longer
  <2>5. RoleOf(new, h) = IF EntriesOf(old, h) # {} THEN RoleOf(old, h)
                         ELSE IF e.groupRef = h THEN e.role ELSE NoRole
    BY <2>4, OneMore
  <2>6. RoleOf(some, h) = RoleOf(old, h) /\ (EntriesOf(some, h) = {} <=> EntriesOf(old, h) = {})
    BY <1>4, <2>1, <2>3, RoleOfType
  <2>7. CASE e.groupRef = g
    <3>1. kept[n] = some
      BY <1>1, <2>0, <2>3, <2>7
    <3>2. RoleOf(new, h) = RoleOf(old, h)
      BY <2>5, <2>7, RoleOfType
    <3>3. QED BY <2>0, <2>2, <2>6, <3>1, <3>2
  <2>8. CASE e.groupRef # g
    <3>0. PICK all : all = Append(some, e)
      OBVIOUS
    <3>1. kept[n] = all
      BY <1>1, <2>0, <2>3, <2>8, <3>0
    <3>2. Longer(some, e, all)
      BY <3>0 DEF Longer
    <3>3. RoleOf(all, h) = IF EntriesOf(some, h) # {} THEN RoleOf(some, h)
                           ELSE IF e.groupRef = h THEN e.role ELSE NoRole
      BY <3>2, OneMore
    <3>4. QED BY <2>0, <2>2, <2>5, <2>6, <3>1, <3>2, <3>3 DEF Longer
  <2>9. QED BY <2>7, <2>8
<1>. HIDE DEF same
<1>5. 0 \in good /\ \A m \in 0 .. Len(roots) - 1 : m \in good => m + 1 \in good
  BY <1>0, <1>3, <1>4
<1>6. Len(roots) \in good
  <2>. HIDE DEF good
  <2>1. \A N \in Nat : 0 \in good /\ (\A m \in 0 .. N - 1 : m \in good => m + 1 \in good) => N \in good
    BY UpTo
  <2>. QED BY <1>0, <1>5, <2>1
<1>7. QED BY <1>2, <1>6 DEF same, Without

\* A push or a positional update for one group leaves the others as they were.
LEMMA PushSpares ==
  ASSUME NEW roots \in Seq(Entry), NEW e \in Entry, NEW h, h # e.groupRef
  PROVE  RoleOf(Append(roots, e), h) = RoleOf(roots, h)
<1>0. PICK all : all = Append(roots, e)
  OBVIOUS
<1>1. Longer(roots, e, all)
  BY <1>0 DEF Longer
<1>2. RoleOf(all, h) = IF EntriesOf(roots, h) # {} THEN RoleOf(roots, h)
                       ELSE IF e.groupRef = h THEN e.role ELSE NoRole
  BY <1>1, OneMore
<1>3. QED BY <1>0, <1>2, RoleOfType

LEMMA RelabelSpares ==
  ASSUME NEW roots \in Seq(Entry), NEW g \in Groups, NEW role \in GateRole, NEW h, h # g
  PROVE  RoleOf(Relabelled(roots, g, role), h) = RoleOf(roots, h)
<1>1. CASE EntriesOf(roots, g) = {}
  BY <1>1 DEF Relabelled
<1>2. CASE EntriesOf(roots, g) # {}
  <2>. PICK k \in DOMAIN roots : k = FirstOf(roots, g) /\ roots[k].groupRef = g
    BY <1>2, FirstIsEntry
  <2>. PICK new : new = Relabelled(roots, g, role)
    OBVIOUS
  <2>1. new = [roots EXCEPT ![k].role = role]
    BY <1>2 DEF Relabelled
  <2>2. new \in Seq(Entry) /\ Len(new) = Len(roots)
        /\ \A i \in DOMAIN roots : new[i].groupRef = roots[i].groupRef
    BY RelabelMoves
  <2>3. DOMAIN new = DOMAIN roots /\ \A i \in DOMAIN roots \ {k} : new[i] = roots[i]
    BY <2>1
  <2>4. EntriesOf(new, h) = EntriesOf(roots, h) /\ k \notin EntriesOf(roots, h)
    BY <2>2, <2>3 DEF EntriesOf
  <2>5. CASE EntriesOf(roots, h) = {}
    BY <2>4, <2>5 DEF RoleOf
  <2>6. CASE EntriesOf(roots, h) # {}
    <3>1. \A i \in EntriesOf(roots, h) : new[i].role = roots[i].role
      BY <2>3, <2>4 DEF EntriesOf
    <3>2. QED BY <2>2, <2>4, <2>6, <3>1, SameFirst
  <2>7. QED BY <2>5, <2>6
<1>3. QED BY <1>1, <1>2

----------------------------------------------------------------------------
(* The invariant of the row. *)

Fields == {"anchor", "entries", "role", "refs"}
Late == {"group", "decide", "push", "relabel", "pull", "members"}

Shape ==
  /\ pc \in [Requests -> PC]
  /\ op \in [Requests -> Operations \cup {NoOp}]
  /\ DOMAIN plan = Requests /\ \A r \in Requests : DOMAIN plan[r] = Fields
  /\ overtaken \in [Requests -> BOOLEAN]

\* No entries without a row.
Rootless == anchor = NoAnchor => groupRoots = <<>>

\* Attach and detach get past their read only when the row is there, and it stays.
RowIsThere(r) == pc[r] \in Late => anchor # NoAnchor

\* A refresh is decided for the row's own anchor, with the row's own entries
\* unless the request was overtaken.
RefreshDecided(r) ==
  pc[r] = "refresh" =>
    /\ op[r].kind = "register" /\ anchor = op[r].anchor
    /\ ~overtaken[r] => plan[r].entries = groupRoots

IInv == Shape /\ Rootless /\ \A r \in Requests : RowIsThere(r) /\ RefreshDecided(r)

LEMMA OperationShape ==
  /\ \A o \in Operations : o.kind = "register" => o.anchor \in Anchor /\ o.anchor # NoAnchor
  /\ NoOp.kind = "none"
BY RoutingOperationsAssumption, AbsenceAssumption
DEF Registrations, Attachments, Detachments, GroupRegistrations, GroupDeletions, NoOp

LEMMA Asked ==
  ASSUME Shape, NEW r \in Requests, op[r].kind = "register"
  PROVE  op[r].anchor \in Anchor /\ op[r].anchor # NoAnchor
BY OperationShape DEF Shape

----------------------------------------------------------------------------
(* The frame of a request's step. *)

\* The row is created at most, and whoever else is under way is overtaken.
LEMMA StepOf ==
  ASSUME IInv, NEW r \in Requests, Shape', Observe(r), Rootless',
         anchor # NoAnchor => anchor' = anchor,
         \A q \in Requests \ {r} : pc'[q] = pc[q] /\ op'[q] = op[q] /\ plan'[q] = plan[q],
         RowIsThere(r)', RefreshDecided(r)'
  PROVE  IInv'
<1>1. ASSUME NEW q \in Requests \ {r} PROVE RowIsThere(q)' /\ RefreshDecided(q)'
  <2>1. RowIsThere(q) /\ RefreshDecided(q)
    BY DEF IInv
  <2>2. RowIsThere(q)'
    BY <2>1 DEF RowIsThere
  <2>3. ASSUME pc'[q] = "refresh" PROVE op'[q].kind = "register" /\ anchor' = op'[q].anchor
    BY <2>1, <2>3, Asked DEF RefreshDecided, IInv
  <2>4. ASSUME pc'[q] = "refresh", ~overtaken'[q] PROVE plan'[q].entries = groupRoots'
    <3>1. ~overtaken[q] /\ tables' = tables
      BY <2>4 DEF Observe
    <3>2. QED BY <2>1, <2>4, <3>1 DEF RefreshDecided, tables
  <2>5. QED BY <2>2, <2>3, <2>4 DEF RefreshDecided
<1>2. QED BY <1>1 DEF IInv

LEMMA AnswerIInv ==
  ASSUME IInv, NEW r \in Requests, NEW kind, NEW evicted, Answer(r, kind, evicted),
         Rootless', anchor # NoAnchor => anchor' = anchor
  PROVE  IInv'
<1>1. pc'[r] = "idle" /\ Observe(r)
  BY DEF Answer, IInv, Shape
<1>2. Shape'
  BY DEF Answer, Observe, IInv, Shape, PC, NoPlan, Fields
<1>3. \A q \in Requests \ {r} : pc'[q] = pc[q] /\ op'[q] = op[q] /\ plan'[q] = plan[q]
  BY DEF Answer, IInv, Shape
<1>4. RowIsThere(r)' /\ RefreshDecided(r)'
  BY <1>1 DEF RowIsThere, RefreshDecided, Late
<1>5. QED BY <1>1, <1>2, <1>3, <1>4, StepOf

LEMMA ProceedIInv ==
  ASSUME IInv, NEW r \in Requests, NEW step \in PC, NEW what, Proceed(r, step, what),
         DOMAIN what = Fields, Rootless', anchor # NoAnchor => anchor' = anchor,
         step \in Late => anchor' # NoAnchor,
         step = "refresh" => /\ op[r].kind = "register" /\ anchor' = op[r].anchor
                             /\ what.entries = groupRoots'
  PROVE  IInv'
<1>1. pc'[r] = step /\ plan'[r] = what /\ op' = op /\ Observe(r)
  BY DEF Proceed, IInv, Shape
<1>2. Shape'
  BY DEF Proceed, Observe, IInv, Shape
<1>3. \A q \in Requests \ {r} : pc'[q] = pc[q] /\ op'[q] = op[q] /\ plan'[q] = plan[q]
  BY DEF Proceed, IInv, Shape
<1>4. RowIsThere(r)' /\ RefreshDecided(r)'
  BY <1>1 DEF RowIsThere, RefreshDecided
<1>5. QED BY <1>1, <1>2, <1>3, <1>4, StepOf

\* The two, for a step that leaves the row alone.
LEMMA Same ==
  ASSUME IInv, anchor' = anchor, groupRoots' = groupRoots
  PROVE  Rootless' /\ (anchor # NoAnchor => anchor' = anchor)
BY DEF IInv, Rootless

LEMMA AnswerSame ==
  ASSUME IInv, NEW r \in Requests, NEW kind, NEW evicted, Answer(r, kind, evicted),
         anchor' = anchor, groupRoots' = groupRoots
  PROVE  IInv'
BY Same, AnswerIInv

LEMMA ProceedSame ==
  ASSUME IInv, NEW r \in Requests, NEW step \in PC \ {"refresh"}, NEW what, Proceed(r, step, what),
         DOMAIN what = Fields, step \in Late => anchor # NoAnchor,
         anchor' = anchor, groupRoots' = groupRoots
  PROVE  IInv'
BY Same, ProceedIInv

LEMMA GoSame ==
  ASSUME IInv, NEW r \in Requests, NEW step \in PC \ {"refresh"}, Go(r, step),
         step \in Late => anchor # NoAnchor,
         anchor' = anchor, groupRoots' = groupRoots
  PROVE  IInv'
BY ProceedSame DEF Go, IInv, Shape

----------------------------------------------------------------------------
(* The steps. *)

LEMMA SubmitIInv == ASSUME IInv, NEW r \in Requests, Submit(r) PROVE IInv'
<1>. PICK o \in Operations :
       LET named == IF o.kind = "register" THEN o.refs ELSE {}
       IN /\ op' = [op EXCEPT ![r] = o]
          /\ plan' = [plan EXCEPT ![r] = [NoPlan EXCEPT !.refs = named]]
          /\ pc' = [pc EXCEPT ![r] = IF named = {} THEN "read" ELSE "refs"]
  BY DEF Submit
<1>. DEFINE named == IF o.kind = "register" THEN o.refs ELSE {}
            place == IF named = {} THEN "read" ELSE "refs"
<1>1. /\ op' = [op EXCEPT ![r] = o]
      /\ plan' = [plan EXCEPT ![r] = [NoPlan EXCEPT !.refs = named]]
      /\ pc' = [pc EXCEPT ![r] = place] /\ place \in {"read", "refs"}
  OBVIOUS
<1>2. UNCHANGED <<tables, overtaken>>
  BY DEF Submit
<1>3. Shape'
  BY <1>1, <1>2 DEF IInv, Shape, PC, NoPlan, Fields
<1>4. ASSUME NEW q \in Requests PROVE RowIsThere(q)' /\ RefreshDecided(q)'
  <2>1. CASE q = r
    BY <1>1, <2>1 DEF IInv, Shape, RowIsThere, RefreshDecided, Late
  <2>2. CASE q # r
    BY <1>1, <1>2, <2>2 DEF IInv, Shape, RowIsThere, RefreshDecided, tables
  <2>3. QED BY <2>1, <2>2
<1>5. QED BY <1>2, <1>3, <1>4 DEF IInv, Rootless, tables

LEMMA RegisterExistingIInv ==
  ASSUME IInv, NEW r \in Requests, op[r].kind = "register", RegisterExisting(r), UNCHANGED tables
  PROVE  IInv'
<1>0. anchor' = anchor /\ groupRoots' = groupRoots
  BY DEF tables
<1>1. CASE Answer(r, "anchor-mismatch", FALSE) \/ Answer(r, "ok", FALSE)
  BY <1>0, <1>1, AnswerSame
<1>2. CASE /\ anchor = op[r].anchor /\ ~op[r].ifAbsent
           /\ Proceed(r, "refresh", [plan[r] EXCEPT !.entries = groupRoots])
  <2>1. /\ DOMAIN [plan[r] EXCEPT !.entries = groupRoots] = Fields
        /\ [plan[r] EXCEPT !.entries = groupRoots].entries = groupRoots
    BY DEF IInv, Shape, Fields
  <2>2. "refresh" \in PC /\ "refresh" \notin Late
    BY DEF PC, Late
  <2>3. QED BY <1>0, <1>2, <2>1, <2>2, Same, ProceedIInv
<1>3. QED BY <1>1, <1>2 DEF RegisterExisting

\* A register's steps; only the create that finds no row sets the anchor.
LEMMA RegisterIInv ==
  ASSUME IInv, NEW r \in Requests,
         RegisterRefs(r) \/ RegisterRead(r) \/ RegisterCreate(r) \/ RegisterReread(r)
           \/ RegisterRefresh(r)
  PROVE  IInv'
<1>1. CASE RegisterRefs(r)
  <2>0. anchor' = anchor /\ groupRoots' = groupRoots
    BY <1>1 DEF RegisterRefs, tables
  <2>1. CASE Answer(r, "unknown-group", FALSE) \/ Answer(r, "cross-portal", FALSE)
    BY <2>0, <2>1, AnswerSame
  <2>2. ASSUME NEW g, Proceed(r, IF plan[r].refs = {g} THEN "read" ELSE "refs",
                              [plan[r] EXCEPT !.refs = @ \ {g}])
        PROVE  IInv'
    <3>1. DOMAIN [plan[r] EXCEPT !.refs = @ \ {g}] = Fields
      BY DEF IInv, Shape
    <3>2. PICK place \in {"read", "refs"} : Proceed(r, place, [plan[r] EXCEPT !.refs = @ \ {g}])
      BY <2>2
    <3>3. place \in PC \ {"refresh"} /\ place \notin Late
      BY DEF PC, Late
    <3>4. QED BY <2>0, <3>1, <3>2, <3>3, ProceedSame
  <2>3. QED BY <1>1, <2>1, <2>2 DEF RegisterRefs
<1>2. CASE RegisterRead(r)
  <2>0. anchor' = anchor /\ groupRoots' = groupRoots /\ UNCHANGED tables /\ op[r].kind = "register"
    BY <1>2 DEF RegisterRead, tables, At
  <2>1. CASE Go(r, "create")
    <3>1. "create" \in PC \ {"refresh"} /\ "create" \notin Late
      BY DEF PC, Late
    <3>2. QED BY <2>0, <2>1, <3>1, GoSame
  <2>2. CASE RegisterExisting(r)
    BY <2>0, <2>2, RegisterExistingIInv
  <2>3. QED BY <1>2, <2>1, <2>2 DEF RegisterRead
<1>3. CASE RegisterCreate(r)
  <2>0. "reread" \in PC \ {"refresh"} /\ "reread" \notin Late
    BY DEF PC, Late
  <2>1. CASE UNCHANGED tables /\ Go(r, "reread")
    BY <2>0, <2>1, GoSame DEF tables
  <2>2. CASE /\ anchor = NoAnchor /\ anchor' = op[r].anchor /\ groupRoots' = <<>>
             /\ Answer(r, "ok", FALSE) \/ Go(r, "reread")
    <3>1. Rootless' /\ (anchor # NoAnchor => anchor' = anchor)
      BY <2>2 DEF Rootless
    <3>2. QED BY <2>0, <2>2, <3>1, AnswerIInv, ProceedIInv DEF Go, IInv, Shape
  <2>3. QED BY <1>3, <2>1, <2>2 DEF RegisterCreate
<1>4. CASE RegisterReread(r)
  <2>0. anchor' = anchor /\ groupRoots' = groupRoots /\ UNCHANGED tables /\ op[r].kind = "register"
    BY <1>4 DEF RegisterReread, tables, At
  <2>1. CASE Answer(r, "error", FALSE)
    BY <2>0, <2>1, AnswerSame
  <2>2. QED BY <1>4, <2>0, <2>1, RegisterExistingIInv DEF RegisterReread
<1>5. CASE RegisterRefresh(r)
  <2>1. anchor' = anchor /\ anchor # NoAnchor
    BY <1>5, Asked DEF RegisterRefresh, At, IInv, RefreshDecided
  <2>2. QED BY <1>5, <2>1, AnswerIInv DEF RegisterRefresh, AnswerWrite, Rootless
<1>6. QED BY <1>1, <1>2, <1>3, <1>4, <1>5

LEMMA AttachIInv ==
  ASSUME IInv, NEW r \in Requests,
         AttachRead(r) \/ AttachGroup(r) \/ AttachDecide(r) \/ AttachPush(r) \/ AttachRelabel(r)
  PROVE  IInv'
<1>0. {"group", "decide", "push", "relabel"} \subseteq (PC \ {"refresh"}) \cap Late
  BY DEF PC, Late
<1>1. CASE AttachRead(r)
  <2>0. anchor' = anchor /\ groupRoots' = groupRoots
    BY <1>1 DEF AttachRead, tables
  <2>1. CASE Answer(r, "unknown-doc", FALSE)
    BY <2>0, <2>1, AnswerSame
  <2>2. CASE anchor # NoAnchor /\ Proceed(r, "group", [plan[r] EXCEPT !.anchor = anchor])
    BY <1>0, <2>0, <2>2, ProceedSame DEF IInv, Shape
  <2>3. QED BY <1>1, <2>1, <2>2 DEF AttachRead
<1>2. CASE AttachGroup(r) \/ AttachDecide(r)
  <2>0. anchor' = anchor /\ groupRoots' = groupRoots /\ anchor # NoAnchor
    BY <1>0, <1>2 DEF AttachGroup, AttachDecide, At, tables, IInv, RowIsThere
  <2>1. CASE \E k \in {"unknown-group", "cross-portal", "ok"} : Answer(r, k, FALSE)
    BY <2>0, <2>1, AnswerSame
  <2>2. CASE \E step \in {"decide", "push", "relabel"} : Go(r, step)
    BY <1>0, <2>0, <2>2, GoSame
  <2>3. QED BY <1>2, <2>1, <2>2 DEF AttachGroup, AttachDecide
<1>3. CASE AttachPush(r) \/ AttachRelabel(r)
  <2>1. anchor' = anchor /\ anchor # NoAnchor
    BY <1>0, <1>3 DEF AttachPush, AttachRelabel, At, IInv, RowIsThere
  <2>2. QED BY <1>3, <2>1, AnswerIInv DEF AttachPush, AttachRelabel, AnswerWrite, Rootless
<1>4. QED BY <1>1, <1>2, <1>3

LEMMA DetachIInv ==
  ASSUME IInv, NEW r \in Requests,
         DetachRead(r) \/ DetachDecide(r) \/ DetachPull(r) \/ DetachMembers(r)
  PROVE  IInv'
<1>0. {"decide", "pull", "members"} \subseteq (PC \ {"refresh"}) \cap Late
  BY DEF PC, Late
<1>1. CASE DetachRead(r)
  <2>0. anchor' = anchor /\ groupRoots' = groupRoots
    BY <1>1 DEF DetachRead, tables
  <2>1. CASE Answer(r, "unknown-doc", FALSE)
    BY <2>0, <2>1, AnswerSame
  <2>2. ASSUME NEW role, anchor # NoAnchor, Proceed(r, "decide", [plan[r] EXCEPT !.role = role])
        PROVE  IInv'
    BY <1>0, <2>0, <2>2, ProceedSame DEF IInv, Shape
  <2>3. QED BY <1>1, <2>1, <2>2 DEF DetachRead
<1>2. CASE DetachDecide(r)
  <2>0. anchor' = anchor /\ groupRoots' = groupRoots /\ anchor # NoAnchor
    BY <1>0, <1>2 DEF DetachDecide, At, tables, IInv, RowIsThere
  <2>1. QED BY <1>0, <1>2, <2>0, AnswerSame, GoSame DEF DetachDecide
<1>3. CASE DetachPull(r)
  <2>1. anchor' = anchor /\ anchor # NoAnchor /\ Rootless'
    BY <1>0, <1>3 DEF DetachPull, At, IInv, RowIsThere, Rootless
  <2>2. CASE Go(r, "members")
    BY <1>0, <2>1, <2>2, ProceedIInv DEF Go, IInv, Shape
  <2>3. CASE \E k \in {"ok", "error"} : Answer(r, k, FALSE)
    BY <2>1, <2>3, AnswerIInv
  <2>4. QED BY <1>3, <2>2, <2>3 DEF DetachPull
<1>4. CASE DetachMembers(r)
  BY <1>4, AnswerSame DEF DetachMembers, tables
<1>5. QED BY <1>1, <1>2, <1>3, <1>4

LEMMA GroupIInv ==
  ASSUME IInv, NEW r \in Requests,
         GroupRegisterRead(r) \/ GroupRegisterCreate(r) \/ GroupRegisterReread(r)
           \/ GroupDeleteRead(r) \/ GroupDelete(r) \/ DatabaseError(r)
  PROVE  IInv'
<1>0. {"create", "reread", "delete"} \subseteq PC \ ({"refresh"} \cup Late)
  BY DEF PC, Late
<1>1. anchor' = anchor /\ groupRoots' = groupRoots
  BY DEF GroupRegisterRead, GroupRegisterCreate, GroupRegisterReread, GroupDeleteRead,
         GroupDelete, DatabaseError, tables
<1>2. CASE \E kind, evicted : Answer(r, kind, evicted)
  BY <1>1, <1>2, AnswerSame
<1>3. CASE \E step \in {"create", "reread", "delete"} : Go(r, step)
  BY <1>0, <1>1, <1>3, GoSame
<1>4. QED BY <1>2, <1>3 DEF GroupRegisterRead, GroupRegisterCreate, GroupRegisterReread,
             GroupExisting, GroupDeleteRead, GroupDelete, DatabaseError, AnswerWrite

LEMMA InitIInv == Init => IInv
BY DEF Init, IInv, Shape, Rootless, RowIsThere, RefreshDecided, PC, NoPlan, Fields, Late

LEMMA NextIInv == IInv /\ [Next]_vars => IInv'
<1>. SUFFICES ASSUME IInv, [Next]_vars PROVE IInv'
  OBVIOUS
<1>1. CASE UNCHANGED vars
  BY <1>1 DEF vars, tables, IInv, Shape, Rootless, RowIsThere, RefreshDecided
<1>2. QED BY <1>1, SubmitIInv, RegisterIInv, AttachIInv, DetachIInv, GroupIInv DEF Next, Step

LEMMA Inductive == Spec => []IInv
<1>. QED BY InitIInv, NextIInv, PTL DEF Spec

----------------------------------------------------------------------------
(* The theorems. *)

\* A step of a request answers it or takes it further.
LEMMA AnswersOrProceeds ==
  ASSUME NEW r, Step(r)
  PROVE  (\E kind, evicted : Answer(r, kind, evicted)) \/ (\E step, what : Proceed(r, step, what))
BY DEF Step, RegisterRefs, RegisterRead, RegisterCreate, RegisterReread, RegisterRefresh,
       RegisterExisting, AttachRead, AttachGroup, AttachDecide, AttachPush, AttachRelabel,
       DetachRead, DetachDecide, DetachPull, DetachMembers, GroupRegisterRead,
       GroupRegisterCreate, GroupRegisterReread, GroupExisting, GroupDeleteRead, GroupDelete,
       DatabaseError, AnswerWrite, Go

\* Only a request's own steps move it.
LEMMA OwnStep ==
  ASSUME IInv, [Next]_vars, NEW r \in Requests, pc'[r] # pc[r]
  PROVE  Submit(r) \/ Step(r)
<1>1. ASSUME NEW q \in Requests \ {r}, Submit(q) \/ Step(q) PROVE FALSE
  <2>1. CASE \E kind, evicted : Answer(q, kind, evicted)
    BY <2>1 DEF Answer, IInv, Shape
  <2>2. CASE \E step, what : Proceed(q, step, what)
    BY <2>2 DEF Proceed, IInv, Shape
  <2>3. CASE Submit(q)
    BY <2>3 DEF Submit, IInv, Shape
  <2>4. QED BY <1>1, <2>1, <2>2, <2>3, AnswersOrProceeds
<1>2. QED BY <1>1 DEF Next, vars

\* A register's own step is one of five, or an error.
LEMMA RegisterStep ==
  ASSUME NEW r \in Requests, Step(r), op[r].kind = "register"
  PROVE  \/ UNCHANGED tables /\ (RegisterRefs(r) \/ DatabaseError(r))
         \/ UNCHANGED tables /\ (RegisterRead(r) \/ RegisterReread(r))
         \/ RegisterCreate(r) \/ RegisterRefresh(r)
BY DEF Step, RegisterRefs, RegisterRead, RegisterReread, DatabaseError, AttachRead, AttachGroup,
       AttachDecide, AttachPush, AttachRelabel, DetachRead, DetachDecide, DetachPull,
       DetachMembers, GroupRegisterRead, GroupRegisterCreate, GroupRegisterReread,
       GroupDeleteRead, GroupDelete, At

\* The row's anchor is set once.
LEMMA AnchorStays == IInv /\ [Next]_vars => (anchor # NoAnchor => anchor' = anchor)
BY DEF Next, Submit, Step, RegisterRefs, RegisterRead, RegisterReread, RegisterCreate,
     RegisterRefresh, DatabaseError, AttachRead, AttachGroup, AttachDecide, AttachPush,
     AttachRelabel, DetachRead, DetachDecide, DetachPull, DetachMembers, GroupRegisterRead,
     GroupRegisterCreate, GroupRegisterReread, GroupDeleteRead, GroupDelete, vars, tables

\* First writer wins, also when two creates race (register.ts, D-1).
THEOREM FirstWriterWins == Spec => AnchorPinned
<1>. DEFINE Pinned == anchor # NoAnchor => anchor' = anchor
            Holds(r) == op[r].kind = "register" /\ Answers(r, "ok") => anchor' = op[r].anchor
<1>1. ASSUME IInv, [Next]_vars PROVE Pinned
  BY <1>1, AnchorStays
<1>2. ASSUME IInv, [Next]_vars, NEW r \in Requests PROVE Holds(r)
  <2>. SUFFICES ASSUME op[r].kind = "register", Answers(r, "ok") PROVE anchor' = op[r].anchor
    OBVIOUS
  <2>1. Step(r) /\ pc'[r] = "idle" /\ reply'.kind = "ok"
    BY <1>2, OwnStep DEF Answers, Submit
  <2>2. CASE RegisterExisting(r) /\ UNCHANGED tables
    BY <1>2, <2>1, <2>2 DEF RegisterExisting, Answer, Proceed, IInv, Shape, tables
  <2>3. CASE RegisterCreate(r)
    BY <1>2, <2>1, <2>3 DEF RegisterCreate, Go, Proceed, IInv, Shape
  <2>4. CASE RegisterRefresh(r)
    BY <1>2, <2>4 DEF RegisterRefresh, At, IInv, RefreshDecided
  <2>5. QED BY <1>2, <2>1, <2>2, <2>3, <2>4, RegisterStep
            DEF RegisterRefs, RegisterRead, RegisterReread, DatabaseError, Answer, Go, Proceed,
                IInv, Shape
<1>3. IInv /\ [Next]_vars => [Pinned /\ \A r \in Requests : Holds(r)]_vars
  BY <1>1, <1>2
<1>4. QED BY <1>3, Inductive, PTL DEF Spec, AnchorPinned

----------------------------------------------------------------------------
(* The types. *)

Tables ==
  /\ anchor \in Anchor \cup {NoAnchor}
  /\ ownRoots \subseteq GateRole
  /\ groupRoots \in Seq(Entry) /\ Len(groupRoots) <= MaxRoots
  /\ portalOf \in [Groups -> Portals \cup {NoPortal}]

\* A request remembers no more entries than the table has held.
Remembered(what) == what \in Plan /\ Len(what.entries) <= MaxRoots
Memory == plan \in [Requests -> Plan] /\ \A r \in Requests : Remembered(plan[r])

Rest ==
  /\ reply \in [kind : ReplyKind, evicted : BOOLEAN]
  /\ deleted \subseteq Groups
  /\ \A r \in Requests : pc[r] = "idle" => op[r] = NoOp /\ plan[r] = NoPlan

Typed == Tables /\ Memory /\ Rest
TypeInv == IInv /\ Typed

LEMMA OperationFields ==
  \A o \in Operations :
    /\ o.kind = "register" => o.anchor \in Anchor /\ o.own \subseteq GateRole /\ o.refs \subseteq Groups
    /\ o.kind = "attach" => o.groupRef \in Groups /\ o.role \in GateRole
    /\ o.kind = "detach" => o.groupRef \in Groups
    /\ o.kind = "groupRegister" => o.groupRef \in Groups /\ o.portal \in Portals
    /\ o.kind = "groupDelete" => o.groupRef \in Groups
BY RoutingOperationsAssumption
DEF Registrations, Attachments, Detachments, GroupRegistrations, GroupDeletions

LEMMA Wanted ==
  ASSUME Shape, NEW r \in Requests, op[r].kind # "none"
  PROVE  op[r] \in Operations
BY DEF Shape, NoOp

LEMMA NoPlanRemembered == Remembered(NoPlan)
<1>1. <<>> \in Seq(Entry) /\ Len(<<>>) = 0
  OBVIOUS
<1>2. QED BY <1>1, MaxRootsAssumption DEF Remembered, NoPlan, Plan

LEMMA PlanUpdates ==
  ASSUME NEW what \in Plan, Remembered(what)
  PROVE  /\ \A refs \in SUBSET Groups : Remembered([what EXCEPT !.refs = refs])
         /\ \A role \in GateRole \cup {NoRole} : Remembered([what EXCEPT !.role = role])
         /\ \A a \in Anchor \cup {NoAnchor} : Remembered([what EXCEPT !.anchor = a])
         /\ \A roots \in Seq(Entry) :
              Len(roots) <= MaxRoots => Remembered([what EXCEPT !.entries = roots])
BY DEF Remembered, Plan

LEMMA MemoryUpdate ==
  ASSUME Memory, NEW r \in Requests, NEW what, Remembered(what), plan' = [plan EXCEPT ![r] = what]
  PROVE  Memory'
<1>1. what \in Plan
  BY DEF Remembered
<1>2. plan' \in [Requests -> Plan]
  BY <1>1 DEF Memory
<1>3. ASSUME NEW q \in Requests PROVE Len(plan'[q].entries) <= MaxRoots
  <2>1. CASE q = r
    BY <2>1 DEF Memory, Remembered
  <2>2. CASE q # r
    BY <2>2 DEF Memory, Remembered
  <2>3. QED BY <2>1, <2>2
<1>4. QED BY <1>2, <1>3 DEF Memory, Remembered

LEMMA ObserveTyped ==
  ASSUME TypeInv, NEW r \in Requests, Observe(r)
  PROVE  deleted' \subseteq Groups /\ deleted \subseteq deleted'
BY DEF TypeInv, Typed, Rest, Observe

LEMMA AnswerTyped ==
  ASSUME TypeInv, NEW r \in Requests, NEW kind \in ReplyKind, NEW evicted \in BOOLEAN,
         Answer(r, kind, evicted), Tables'
  PROVE  Typed'
<1>1. Memory'
  <2>1. plan' = [plan EXCEPT ![r] = NoPlan]
    BY DEF Answer
  <2>. QED BY <2>1, NoPlanRemembered, MemoryUpdate DEF TypeInv, Typed
<1>2. deleted' \subseteq Groups
  BY ObserveTyped DEF Answer
<1>3. reply' \in [kind : ReplyKind, evicted : BOOLEAN]
  BY DEF Answer
<1>4. ASSUME NEW q \in Requests, pc'[q] = "idle" PROVE op'[q] = NoOp /\ plan'[q] = NoPlan
  <2>1. CASE q = r
    BY <2>1 DEF Answer, TypeInv, Typed, Memory, IInv, Shape
  <2>2. CASE q # r
    BY <1>4, <2>2 DEF Answer, TypeInv, Typed, Memory, Rest, IInv, Shape
  <2>3. QED BY <2>1, <2>2
<1>5. QED BY <1>1, <1>2, <1>3, <1>4 DEF Typed, Rest

LEMMA ProceedTyped ==
  ASSUME TypeInv, NEW r \in Requests, NEW step \in PC \ {"idle"}, NEW what,
         Remembered(what), Proceed(r, step, what), Tables'
  PROVE  Typed'
<1>1. Memory'
  <2>1. plan' = [plan EXCEPT ![r] = what]
    BY DEF Proceed
  <2>. QED BY <2>1, MemoryUpdate DEF TypeInv, Typed
<1>2. deleted' \subseteq Groups
  BY ObserveTyped DEF Proceed
<1>3. reply' \in [kind : ReplyKind, evicted : BOOLEAN]
  BY DEF Proceed, NoReply, ReplyKind
<1>4. ASSUME NEW q \in Requests, pc'[q] = "idle" PROVE op'[q] = NoOp /\ plan'[q] = NoPlan
  <2>1. CASE q = r
    BY <1>4, <2>1 DEF Proceed, TypeInv, Typed, Memory, IInv, Shape
  <2>2. CASE q # r
    BY <1>4, <2>2 DEF Proceed, TypeInv, Typed, Memory, Rest, IInv, Shape
  <2>3. QED BY <2>1, <2>2
<1>5. QED BY <1>1, <1>2, <1>3, <1>4 DEF Typed, Rest

LEMMA GoTyped ==
  ASSUME TypeInv, NEW r \in Requests, NEW step \in PC \ {"idle"}, Go(r, step), Tables'
  PROVE  Typed'
BY ProceedTyped DEF Go, TypeInv, Typed, Memory

\* A step that leaves the tables alone.
LEMMA Untouched == ASSUME TypeInv, UNCHANGED tables PROVE Tables'
BY DEF TypeInv, Typed, Tables, tables

LEMMA SubmitTyped == ASSUME TypeInv, NEW r \in Requests, Submit(r) PROVE Typed'
<1>. PICK o \in Operations :
       LET named == IF o.kind = "register" THEN o.refs ELSE {}
       IN /\ op' = [op EXCEPT ![r] = o]
          /\ plan' = [plan EXCEPT ![r] = [NoPlan EXCEPT !.refs = named]]
          /\ pc' = [pc EXCEPT ![r] = IF named = {} THEN "read" ELSE "refs"]
  BY DEF Submit
<1>. PICK named : named = IF o.kind = "register" THEN o.refs ELSE {}
  OBVIOUS
<1>. PICK what : what = [NoPlan EXCEPT !.refs = named]
  OBVIOUS
<1>1. Remembered(what)
  <2>1. named \in SUBSET Groups
    BY OperationFields
  <2>2. NoPlan \in Plan
    BY NoPlanRemembered DEF Remembered
  <2>3. QED BY <2>1, <2>2, NoPlanRemembered, PlanUpdates
<1>2. /\ op' = [op EXCEPT ![r] = o] /\ plan' = [plan EXCEPT ![r] = what]
      /\ pc' = [pc EXCEPT ![r] = IF named = {} THEN "read" ELSE "refs"]
      /\ reply' = NoReply /\ UNCHANGED <<tables, deleted>>
  BY DEF Submit
<1>3. Memory'
  BY <1>1, <1>2, MemoryUpdate DEF TypeInv, Typed
<1>4. ASSUME NEW q \in Requests, pc'[q] = "idle" PROVE op'[q] = NoOp /\ plan'[q] = NoPlan
  <2>1. q # r /\ pc[q] = "idle"
    BY <1>2, <1>4 DEF TypeInv, IInv, Shape
  <2>2. QED BY <1>2, <2>1 DEF TypeInv, Typed, Rest, IInv, Shape, Memory
<1>5. Tables'
  BY <1>2, Untouched
<1>6. reply' \in [kind : ReplyKind, evicted : BOOLEAN] /\ deleted' \subseteq Groups
  BY <1>2 DEF NoReply, ReplyKind, TypeInv, Typed, Rest
<1>7. QED BY <1>3, <1>4, <1>5, <1>6 DEF Typed, Rest

LEMMA Steps == /\ {"none", "ok", "unknown-doc", "unknown-group", "anchor-mismatch",
                   "cross-portal", "error"} \subseteq ReplyKind
               /\ {"refs", "read", "create", "reread", "refresh", "group", "decide", "push",
                   "relabel", "pull", "members", "delete"} \subseteq PC \ {"idle"}
BY DEF ReplyKind, PC

LEMMA RegisterExistingTyped ==
  ASSUME TypeInv, NEW r \in Requests, RegisterExisting(r), UNCHANGED tables
  PROVE  Typed'
<1>1. CASE Answer(r, "anchor-mismatch", FALSE) \/ Answer(r, "ok", FALSE)
  BY <1>1, AnswerTyped, Untouched, Steps
<1>2. CASE Proceed(r, "refresh", [plan[r] EXCEPT !.entries = groupRoots])
  <2>1. Remembered([plan[r] EXCEPT !.entries = groupRoots])
    BY PlanUpdates DEF TypeInv, Typed, Memory, Tables
  <2>2. QED BY <1>2, <2>1, ProceedTyped, Untouched, Steps
<1>3. QED BY <1>1, <1>2 DEF RegisterExisting

LEMMA RegisterTyped ==
  ASSUME TypeInv, NEW r \in Requests,
         RegisterRefs(r) \/ RegisterRead(r) \/ RegisterCreate(r) \/ RegisterReread(r)
           \/ RegisterRefresh(r)
  PROVE  Typed'
<1>0. op[r].anchor \in Anchor /\ op[r].own \subseteq GateRole
  <2>1. op[r].kind = "register"
    BY DEF RegisterRefs, RegisterRead, RegisterCreate, RegisterReread, RegisterRefresh, At
  <2>2. QED BY <2>1, Wanted, OperationFields DEF TypeInv, IInv
<1>1. CASE RegisterRefs(r)
  <2>0. Tables'
    BY <1>1, Untouched DEF RegisterRefs
  <2>1. CASE Answer(r, "unknown-group", FALSE) \/ Answer(r, "cross-portal", FALSE)
    BY <2>0, <2>1, AnswerTyped, Steps
  <2>2. ASSUME NEW g \in plan[r].refs,
               Proceed(r, IF plan[r].refs = {g} THEN "read" ELSE "refs",
                       [plan[r] EXCEPT !.refs = @ \ {g}])
        PROVE  Typed'
    <3>1. plan[r] \in Plan /\ Remembered(plan[r]) /\ plan[r].refs \ {g} \in SUBSET Groups
      BY DEF TypeInv, Typed, Memory, Plan
    <3>2. Remembered([plan[r] EXCEPT !.refs = plan[r].refs \ {g}])
      BY <3>1, PlanUpdates
    <3>3. [plan[r] EXCEPT !.refs = @ \ {g}] = [plan[r] EXCEPT !.refs = plan[r].refs \ {g}]
      BY <3>1 DEF Plan
    <3>4. QED BY <2>0, <2>2, <3>2, <3>3, ProceedTyped, Steps
  <2>3. QED BY <1>1, <2>1, <2>2 DEF RegisterRefs
<1>2. CASE RegisterRead(r)
  <2>1. UNCHANGED tables /\ (Go(r, "create") \/ RegisterExisting(r))
    BY <1>2 DEF RegisterRead
  <2>2. QED BY <2>1, RegisterExistingTyped, GoTyped, Untouched, Steps
<1>3. CASE RegisterCreate(r)
  <2>1. Tables'
    <3>1. CASE UNCHANGED tables
      BY <3>1, Untouched
    <3>2. CASE /\ anchor' = op[r].anchor /\ ownRoots' = op[r].own
               /\ groupRoots' = <<>> /\ portalOf' = portalOf
      <4>1. <<>> \in Seq(Entry) /\ Len(<<>>) = 0
        OBVIOUS
      <4>2. QED BY <1>0, <3>2, <4>1, MaxRootsAssumption DEF TypeInv, Typed, Tables
    <3>3. QED BY <1>3, <3>1, <3>2 DEF RegisterCreate
  <2>2. Answer(r, "ok", FALSE) \/ Go(r, "reread")
    BY <1>3 DEF RegisterCreate
  <2>3. QED BY <2>1, <2>2, AnswerTyped, GoTyped, Steps
<1>4. CASE RegisterReread(r)
  <2>1. UNCHANGED tables /\ (Answer(r, "error", FALSE) \/ RegisterExisting(r))
    BY <1>4 DEF RegisterReread
  <2>2. QED BY <2>1, RegisterExistingTyped, AnswerTyped, Untouched, Steps
<1>5. CASE RegisterRefresh(r)
  <2>1. Remembered(plan[r])
    BY DEF TypeInv, Typed, Memory
  <2>2. Tables'
    BY <1>0, <1>5, <2>1 DEF RegisterRefresh, Remembered, Plan, TypeInv, Typed, Tables
  <2>3. QED BY <1>5, <2>2, AnswerTyped, Steps DEF RegisterRefresh, AnswerWrite
<1>6. QED BY <1>1, <1>2, <1>3, <1>4, <1>5

LEMMA AttachTyped ==
  ASSUME TypeInv, NEW r \in Requests,
         AttachRead(r) \/ AttachGroup(r) \/ AttachDecide(r) \/ AttachPush(r) \/ AttachRelabel(r)
  PROVE  Typed'
<1>0. op[r].groupRef \in Groups /\ op[r].role \in GateRole
  <2>1. op[r].kind = "attach"
    BY DEF AttachRead, AttachGroup, AttachDecide, AttachPush, AttachRelabel, At
  <2>2. QED BY <2>1, Wanted, OperationFields DEF TypeInv, IInv
<1>1. CASE AttachRead(r)
  <2>1. Remembered([plan[r] EXCEPT !.anchor = anchor])
    BY PlanUpdates DEF TypeInv, Typed, Memory, Tables
  <2>2. QED BY <1>1, <2>1, AnswerTyped, ProceedTyped, Untouched, Steps DEF AttachRead
<1>2. CASE AttachGroup(r) \/ AttachDecide(r)
  <2>1. UNCHANGED tables
    BY <1>2 DEF AttachGroup, AttachDecide
  <2>2. \/ \E k \in {"unknown-group", "cross-portal", "ok"} : Answer(r, k, FALSE)
        \/ \E step \in {"decide", "push", "relabel"} : Go(r, step)
    BY <1>2 DEF AttachGroup, AttachDecide
  <2>3. QED BY <2>1, <2>2, AnswerTyped, GoTyped, Untouched, Steps
<1>3. CASE AttachPush(r)
  <2>. PICK e \in Entry : e = [groupRef |-> op[r].groupRef, role |-> op[r].role]
    BY <1>0 DEF Entry
  <2>1. groupRoots' = Append(groupRoots, e) /\ Len(groupRoots) < MaxRoots
        /\ UNCHANGED <<anchor, ownRoots, portalOf>>
    BY <1>3 DEF AttachPush
  <2>2. Tables'
    BY <2>1, MaxRootsAssumption DEF TypeInv, Typed, Tables
  <2>3. QED BY <1>3, <2>2, AnswerTyped, Steps DEF AttachPush, AnswerWrite
<1>4. CASE AttachRelabel(r)
  <2>1. Tables'
    BY <1>0, <1>4, RelabelMoves DEF AttachRelabel, TypeInv, Typed, Tables
  <2>2. QED BY <1>4, <2>1, AnswerTyped, Steps DEF AttachRelabel, AnswerWrite
<1>5. QED BY <1>1, <1>2, <1>3, <1>4

LEMMA DetachTyped ==
  ASSUME TypeInv, NEW r \in Requests,
         DetachRead(r) \/ DetachDecide(r) \/ DetachPull(r) \/ DetachMembers(r)
  PROVE  Typed'
<1>1. CASE DetachRead(r)
  <2>. PICK role \in GateRole \cup {NoRole} : role = RoleOf(groupRoots, op[r].groupRef)
    BY RoleOfType DEF TypeInv, Typed, Tables
  <2>1. Remembered([plan[r] EXCEPT !.role = role])
    BY PlanUpdates DEF TypeInv, Typed, Memory
  <2>2. UNCHANGED tables /\ (\/ Answer(r, "unknown-doc", FALSE)
                             \/ Proceed(r, "decide", [plan[r] EXCEPT !.role = role]))
    BY <1>1 DEF DetachRead
  <2>3. QED BY <2>1, <2>2, AnswerTyped, ProceedTyped, Untouched, Steps
<1>2. CASE DetachDecide(r)
  BY <1>2, AnswerTyped, GoTyped, Untouched, Steps DEF DetachDecide
<1>3. CASE DetachPull(r)
  <2>1. Tables'
    <3>1. groupRoots' \in Seq(Entry) /\ Len(groupRoots') <= Len(groupRoots)
      BY <1>3, WithoutShrinks DEF DetachPull, KeptWell, TypeInv, Typed, Tables
    <3>2. QED BY <1>3, <3>1, MaxRootsAssumption DEF DetachPull, TypeInv, Typed, Tables
  <2>2. QED BY <1>3, <2>1, AnswerTyped, GoTyped, Steps DEF DetachPull
<1>4. CASE DetachMembers(r)
  BY <1>4, AnswerTyped, Untouched, Steps DEF DetachMembers
<1>5. QED BY <1>1, <1>2, <1>3, <1>4

LEMMA GroupTyped ==
  ASSUME TypeInv, NEW r \in Requests,
         GroupRegisterRead(r) \/ GroupRegisterCreate(r) \/ GroupRegisterReread(r)
           \/ GroupDeleteRead(r) \/ GroupDelete(r) \/ DatabaseError(r)
  PROVE  Typed'
<1>1. Tables'
  <2>1. CASE UNCHANGED tables
    BY <2>1, Untouched
  <2>2. CASE GroupRegisterCreate(r) /\ portalOf' = [portalOf EXCEPT ![op[r].groupRef] = op[r].portal]
             /\ UNCHANGED <<anchor, ownRoots, groupRoots>>
    <3>1. op[r].portal \in Portals
      BY <2>2, Wanted, OperationFields DEF GroupRegisterCreate, At, TypeInv, IInv
    <3>2. QED BY <2>2, <3>1 DEF TypeInv, Typed, Tables
  <2>3. CASE GroupDelete(r)
    BY <2>3 DEF GroupDelete, TypeInv, Typed, Tables
  <2>4. QED BY <2>1, <2>2, <2>3 DEF GroupRegisterRead, GroupRegisterCreate, GroupRegisterReread,
            GroupDeleteRead, DatabaseError
<1>2. \/ \E k \in {"ok", "anchor-mismatch", "error", "unknown-group"} : Answer(r, k, FALSE)
      \/ \E step \in {"create", "reread", "delete"} : Go(r, step)
  BY DEF GroupRegisterRead, GroupRegisterCreate, GroupRegisterReread, GroupExisting,
         GroupDeleteRead, GroupDelete, DatabaseError, AnswerWrite
<1>3. QED BY <1>1, <1>2, AnswerTyped, GoTyped, Steps

LEMMA InitTyped == Init => Typed
<1>1. <<>> \in Seq(Entry) /\ Len(<<>>) = 0
  OBVIOUS
<1>2. QED BY <1>1, NoPlanRemembered, MaxRootsAssumption
          DEF Init, Typed, Tables, Memory, Rest, Remembered, NoReply, ReplyKind

LEMMA NextTyped == ASSUME TypeInv, [Next]_vars PROVE TypeInv'
<1>1. IInv'
  BY NextIInv DEF TypeInv
<1>2. CASE UNCHANGED vars
  BY <1>1, <1>2 DEF vars, tables, TypeInv, Typed, Tables, Memory, Rest, Remembered
<1>3. QED BY <1>1, <1>2, SubmitTyped, RegisterTyped, AttachTyped, DetachTyped, GroupTyped
          DEF Next, Step, TypeInv

LEMMA TypesHold == Spec => []TypeInv
<1>1. Init => TypeInv
  BY InitIInv, InitTyped DEF TypeInv
<1>2. TypeInv /\ [Next]_vars => TypeInv'
  BY NextTyped
<1>3. QED BY <1>1, <1>2, PTL DEF Spec

\* The tables keep their shape, within the bound on the entries, and a request
\* that has been answered leaves nothing behind for the next one in its slot.
THEOREM TypeCorrect == Spec => []TypeOK
<1>1. TypeInv => TypeOK
  BY DEF TypeInv, Typed, IInv, Shape, Tables, Memory, Rest, TypeOK
<1>2. QED BY <1>1, TypesHold, PTL

----------------------------------------------------------------------------
(* Who moves a group. *)

\* A routed group changes its role, comes or goes only by an attach or a detach
\* that names it, or by a register that is overtaken (register.ts:22, "must never
\* silently detach groups").
THEOREM OnlyNamedMove == Spec => OnlyNamedGroupsMove
<1>. DEFINE Moved(g) == RoleOf(groupRoots', g) # RoleOf(groupRoots, g)
            Cause(r, g) ==
              /\ pc'[r] # pc[r]
              /\ \/ op[r].kind \in {"attach", "detach"} /\ op[r].groupRef = g
                 \/ At(r, "refresh", "register") /\ overtaken[r]
<1>1. ASSUME TypeInv, [Next]_vars, NEW g \in Groups, Moved(g)
      PROVE  \E r \in Requests : Cause(r, g)
  <2>. USE <1>1
  <2>. PICK old \in Seq(Entry) : old = groupRoots
    BY DEF TypeInv, Typed, Tables
  <2>1. PICK r \in Requests : Step(r) /\ groupRoots' # groupRoots
    BY DEF Next, Submit, vars, tables
  <2>2. (\A kind, evicted : Answer(r, kind, evicted) => pc'[r] = "idle")
          /\ \A step, what : Proceed(r, step, what) => pc'[r] = step
    BY DEF Answer, Proceed, TypeInv, IInv, Shape
  <2>3. CASE RegisterCreate(r)
    BY <2>1, <2>3 DEF RegisterCreate, TypeInv, IInv, Rootless, tables
  <2>4. CASE RegisterRefresh(r)
    <3>1. At(r, "refresh", "register") /\ pc'[r] = "idle"
      BY <2>2, <2>4 DEF RegisterRefresh, AnswerWrite
    <3>2. overtaken[r]
      BY <2>1, <2>4, <3>1 DEF RegisterRefresh, At, TypeInv, IInv, RefreshDecided, Shape
    <3>3. QED BY <3>1, <3>2 DEF At
  <2>5. CASE AttachPush(r)
    <3>1. op[r].kind = "attach" /\ pc[r] = "push" /\ pc'[r] = "idle"
      BY <2>2, <2>5 DEF AttachPush, At, AnswerWrite
    <3>. PICK named \in Groups, role \in GateRole : named = op[r].groupRef /\ role = op[r].role
      BY <3>1, Wanted, OperationFields DEF TypeInv, IInv
    <3>. PICK e : e = [groupRef |-> named, role |-> role]
      OBVIOUS
    <3>2. e \in Entry /\ e.groupRef = named /\ groupRoots' = Append(old, e)
      BY <2>5 DEF AttachPush, Entry
    <3>3. g = named
      BY <3>2, PushSpares
    <3>4. QED BY <3>1, <3>3
  <2>6. CASE AttachRelabel(r)
    <3>1. op[r].kind = "attach" /\ pc[r] = "relabel" /\ pc'[r] = "idle"
      BY <2>2, <2>6 DEF AttachRelabel, At, AnswerWrite
    <3>. PICK named \in Groups, role \in GateRole : named = op[r].groupRef /\ role = op[r].role
      BY <3>1, Wanted, OperationFields DEF TypeInv, IInv
    <3>2. groupRoots' = Relabelled(old, named, role)
      BY <2>6 DEF AttachRelabel
    <3>3. g = named
      BY <3>2, RelabelSpares
    <3>4. QED BY <3>1, <3>3
  <2>7. CASE DetachPull(r)
    <3>1. op[r].kind = "detach" /\ pc[r] = "pull" /\ pc'[r] \in {"idle", "members"}
      BY <2>2, <2>7 DEF DetachPull, At, Go
    <3>. PICK named : named = op[r].groupRef
      OBVIOUS
    <3>2. groupRoots' = Without(old, named)
      BY <2>7 DEF DetachPull
    <3>3. g = named
      BY <3>2, WithoutSpares
    <3>4. QED BY <3>1, <3>3
  <2>8. QED BY <2>1, <2>3, <2>4, <2>5, <2>6, <2>7 DEF Step, RegisterRefs, RegisterRead,
     RegisterReread, DatabaseError, AttachRead, AttachGroup, AttachDecide,
     DetachRead, DetachDecide, DetachMembers, GroupRegisterRead, GroupRegisterCreate,
     GroupRegisterReread, GroupDeleteRead, GroupDelete, tables
<1>2. TypeInv /\ [Next]_vars =>
        [\A g \in Groups : RoleOf(groupRoots', g) # RoleOf(groupRoots, g) =>
           \E r \in Requests :
             /\ pc'[r] # pc[r]
             /\ \/ op[r].kind \in {"attach", "detach"} /\ op[r].groupRef = g
                \/ At(r, "refresh", "register") /\ overtaken[r]]_vars
  BY <1>1
<1>3. QED BY <1>2, TypesHold, PTL DEF Spec, OnlyNamedGroupsMove

----------------------------------------------------------------------------
(* The steps of the others. *)

\* What r does leaves q where it is, and overtakes it if it changes the tables.
LEMMA OthersStep ==
  ASSUME IInv, [Next]_vars, NEW q \in Requests, ~ (Submit(q) \/ Step(q))
  PROVE  /\ pc'[q] = pc[q] /\ op'[q] = op[q] /\ plan'[q] = plan[q]
         /\ pc[q] # "idle" /\ ~overtaken'[q] => ~overtaken[q] /\ tables' = tables
<1>1. ASSUME NEW r \in Requests \ {q}, Observe(r), pc'[q] = pc[q]
      PROVE  pc[q] # "idle" /\ ~overtaken'[q] => ~overtaken[q] /\ tables' = tables
  BY <1>1 DEF Observe
<1>2. ASSUME NEW r \in Requests \ {q}, \E kind, evicted : Answer(r, kind, evicted)
      PROVE  Observe(r) /\ pc'[q] = pc[q] /\ op'[q] = op[q] /\ plan'[q] = plan[q]
  BY <1>2 DEF Answer, IInv, Shape
<1>3. ASSUME NEW r \in Requests \ {q}, \E step, what : Proceed(r, step, what)
      PROVE  Observe(r) /\ pc'[q] = pc[q] /\ op'[q] = op[q] /\ plan'[q] = plan[q]
  BY <1>3 DEF Proceed, IInv, Shape
<1>4. ASSUME NEW r \in Requests \ {q}, Submit(r)
      PROVE  /\ pc'[q] = pc[q] /\ op'[q] = op[q] /\ plan'[q] = plan[q]
             /\ overtaken' = overtaken /\ tables' = tables
  BY <1>4 DEF Submit, IInv, Shape
<1>5. CASE \E r \in Requests \ {q} : Submit(r)
  BY <1>4, <1>5
<1>6. CASE \E r \in Requests \ {q} : Step(r)
  <2>. PICK r \in Requests \ {q} : Step(r)
    BY <1>6
  <2>1. (\E kind, evicted : Answer(r, kind, evicted)) \/ (\E step, what : Proceed(r, step, what))
    BY AnswersOrProceeds
  <2>2. QED BY <1>1, <1>2, <1>3, <2>1
<1>7. CASE UNCHANGED vars
  BY <1>7 DEF vars
<1>8. QED BY <1>5, <1>6, <1>7 DEF Next

\* Every step is observed, and a step that keeps the portals deletes nothing.
LEMMA Watched ==
  ASSUME [Next]_vars
  PROVE  \/ deleted' = deleted /\ UNCHANGED tables
         \/ deleted' = deleted \cup {g \in Groups : portalOf[g] # NoPortal /\ portalOf'[g] = NoPortal}
<1>1. ASSUME NEW r, Step(r) PROVE Observe(r)
  <2>1. (\E kind, evicted : Answer(r, kind, evicted)) \/ (\E step, what : Proceed(r, step, what))
    BY <1>1, AnswersOrProceeds
  <2>2. QED BY <2>1 DEF Answer, Proceed
<1>2. QED BY <1>1 DEF Next, Submit, Observe, vars

\* A group's portal changes only when its row goes, and then it was deleted.
LEMMA PortalStays ==
  ASSUME TypeInv, [Next]_vars, NEW g \in Groups \ deleted', portalOf[g] # NoPortal
  PROVE  portalOf'[g] = portalOf[g] /\ g \notin deleted
<1>1. \/ portalOf' = portalOf
      \/ \E r \in Requests : GroupRegisterCreate(r) \/ GroupDelete(r)
  BY DEF Next, Submit, Step, RegisterRefs, RegisterRead, RegisterReread, RegisterCreate,
     RegisterRefresh, DatabaseError, AttachRead, AttachGroup, AttachDecide, AttachPush,
     AttachRelabel, DetachRead, DetachDecide, DetachPull, DetachMembers, GroupRegisterRead,
     GroupRegisterReread, GroupDeleteRead, vars, tables
<1>2. portalOf'[g] \in {portalOf[g], NoPortal}
  <2>1. ASSUME NEW r \in Requests, GroupRegisterCreate(r)
        PROVE  portalOf'[g] = portalOf[g]
    BY <2>1 DEF GroupRegisterCreate, tables, TypeInv, Typed, Tables
  <2>2. ASSUME NEW r \in Requests, GroupDelete(r)
        PROVE  portalOf'[g] \in {portalOf[g], NoPortal}
    BY <2>2 DEF GroupDelete, TypeInv, Typed, Tables
  <2>3. QED BY <1>1, <2>1, <2>2
<1>3. QED BY <1>2, Watched DEF tables

----------------------------------------------------------------------------
(* The portals. *)

\* g is on the document's portal, unless it was ever deleted.
OnPortal(g) == g \notin deleted => portalOf[g] = anchor.portal
PortalsAgree(entries) == \A i \in DOMAIN entries : OnPortal(entries[i].groupRef)

Checked(r) ==
  /\ pc[r] = "refresh" => PortalsAgree(plan[r].entries)
  /\ At(r, "group", "attach") => plan[r].anchor = anchor
  /\ pc[r] \in {"decide", "push"} /\ op[r].kind = "attach" => OnPortal(op[r].groupRef)

PortalInv == TypeInv /\ PortalsAgree(groupRoots) /\ \A r \in Requests : Checked(r)

\* A row there is has a portal.
LEMMA AnchorHasPortal ==
  ASSUME TypeInv, anchor # NoAnchor
  PROVE  anchor.portal \in Portals /\ anchor.portal # NoPortal
BY AbsenceAssumption DEF TypeInv, Typed, Tables, Anchor

\* Once on the document's portal, on it for good.
LEMMA OnPortalStays ==
  ASSUME TypeInv, [Next]_vars, NEW g \in Groups, anchor # NoAnchor, OnPortal(g)
  PROVE  OnPortal(g)'
<1>. SUFFICES ASSUME g \notin deleted' PROVE portalOf'[g] = anchor'.portal
  BY DEF OnPortal
<1>1. anchor' = anchor
  BY AnchorStays DEF TypeInv
<1>2. g \notin deleted
  BY Watched
<1>3. portalOf[g] = anchor.portal /\ portalOf[g] # NoPortal
  BY <1>2, AnchorHasPortal DEF OnPortal
<1>4. QED BY <1>1, <1>3, PortalStays

LEMMA AgreeStays ==
  ASSUME TypeInv, [Next]_vars, NEW entries \in Seq(Entry), entries # <<>> => anchor # NoAnchor,
         PortalsAgree(entries)
  PROVE  \A i \in DOMAIN entries : OnPortal(entries[i].groupRef)'
<1>. TAKE i \in DOMAIN entries
<1>. PICK g \in Groups : g = entries[i].groupRef
  <2>1. entries[i] \in Entry
    OBVIOUS
  <2>2. QED BY <2>1 DEF Entry
<1>1. OnPortal(g) /\ anchor # NoAnchor
  BY DEF PortalsAgree
<1>2. OnPortal(g)'
  BY <1>1, OnPortalStays
<1>3. QED BY <1>2 DEF OnPortal

\* A request that goes from one step to the next has passed the check for it.
LEMMA OwnCheck ==
  ASSUME PortalInv, [Next]_vars, NEW r \in Requests, Step(r)
  PROVE  Checked(r)'
<1>. USE DEF PortalInv, TypeInv, IInv, Shape
<1>1. CASE \E kind, evicted : Answer(r, kind, evicted)
  BY <1>1 DEF Answer, Checked, At
<1>2. CASE \E step \in {"refs", "read", "create", "reread", "relabel", "pull", "members", "delete"} :
              \E what : Proceed(r, step, what)
  BY <1>2 DEF Proceed, Checked, At
<1>3. CASE UNCHANGED tables /\ Proceed(r, "refresh", [plan[r] EXCEPT !.entries = groupRoots])
  <2>1. deleted' = deleted
    BY <1>3 DEF Proceed, Observe, tables
  <2>2. plan'[r].entries = groupRoots /\ pc'[r] = "refresh"
    BY <1>3 DEF Proceed, Fields
  <2>3. QED BY <1>3, <2>1, <2>2 DEF Checked, At, PortalsAgree, OnPortal, tables
<1>4. CASE AttachRead(r) /\ Proceed(r, "group", [plan[r] EXCEPT !.anchor = anchor])
  <2>1. plan'[r].anchor = anchor /\ pc'[r] = "group" /\ anchor' = anchor
    BY <1>4 DEF AttachRead, Proceed, Fields, tables
  <2>2. QED BY <2>1 DEF Checked, At
<1>5. CASE AttachGroup(r) /\ portalOf[op[r].groupRef] = plan[r].anchor.portal /\ Go(r, "decide")
  <2>1. plan[r].anchor = anchor /\ pc'[r] = "decide" /\ op' = op /\ UNCHANGED tables
    BY <1>5 DEF AttachGroup, Checked, Go, Proceed, At
  <2>2. QED BY <1>5, <2>1 DEF Checked, At, OnPortal, tables
<1>6. CASE AttachDecide(r) /\ Go(r, "push")
  <2>1. OnPortal(op[r].groupRef) /\ pc'[r] = "push" /\ op' = op /\ UNCHANGED tables
        /\ deleted' = deleted
    BY <1>6 DEF AttachDecide, Checked, Go, Proceed, At, Observe, tables
  <2>2. QED BY <2>1 DEF Checked, At, OnPortal, tables
<1>7. CASE DetachRead(r) \/ DetachDecide(r) \/ DetachPull(r)
  <2>1. op[r].kind = "detach"
    BY <1>7 DEF DetachRead, DetachDecide, DetachPull, At
  <2>2. CASE \E step \in {"decide", "pull", "members"} : \E what : Proceed(r, step, what)
    BY <2>1, <2>2 DEF Proceed, Checked, At
  <2>3. QED BY <1>1, <1>7, <2>2 DEF DetachRead, DetachDecide, DetachPull, Go
<1>8. QED BY <1>1, <1>2, <1>3, <1>4, <1>5, <1>6, <1>7 DEF Step, RegisterRefs, RegisterRead,
  RegisterCreate, RegisterReread, RegisterRefresh, RegisterExisting, AttachRead, AttachGroup,
  AttachDecide, AttachPush, AttachRelabel, DetachMembers, GroupRegisterRead, GroupRegisterCreate,
  GroupRegisterReread, GroupExisting, GroupDeleteRead, GroupDelete, DatabaseError, AnswerWrite, Go

\* The checks of the others keep their force.
LEMMA OthersCheck ==
  ASSUME PortalInv, [Next]_vars, NEW q \in Requests, ~ (Submit(q) \/ Step(q))
  PROVE  Checked(q)'
<1>. DEFINE ref == op[q].groupRef
<1>1. pc'[q] = pc[q] /\ op'[q] = op[q] /\ plan'[q] = plan[q]
  BY OthersStep DEF PortalInv, TypeInv
<1>2. Checked(q) /\ RowIsThere(q) /\ RefreshDecided(q)
  BY DEF PortalInv, TypeInv, IInv
<1>3. ASSUME pc[q] = "refresh" PROVE PortalsAgree(plan[q].entries)'
  <2>. PICK entries \in Seq(Entry) : entries = plan[q].entries
    BY DEF PortalInv, TypeInv, Typed, Memory, Plan
  <2>1. anchor # NoAnchor /\ PortalsAgree(entries)
    BY <1>2, <1>3, Asked DEF RefreshDecided, Checked, PortalInv, TypeInv, IInv
  <2>2. \A i \in DOMAIN entries : OnPortal(entries[i].groupRef)'
    BY <2>1, AgreeStays DEF PortalInv
  <2>3. plan'[q].entries = entries
    BY <1>1
  <2>4. QED BY <2>2, <2>3 DEF PortalsAgree, OnPortal
<1>4. ASSUME At(q, "group", "attach") PROVE plan'[q].anchor = anchor'
  <2>1. anchor # NoAnchor /\ plan[q].anchor = anchor
    BY <1>2, <1>4 DEF RowIsThere, Late, Checked, At
  <2>2. QED BY <1>1, <2>1, AnchorStays DEF PortalInv, TypeInv
<1>5. ASSUME pc[q] \in {"decide", "push"}, op[q].kind = "attach" PROVE OnPortal(op[q].groupRef)'
  <2>. PICK g \in Groups : g = op[q].groupRef
    BY <1>5, Wanted, OperationFields DEF PortalInv, TypeInv, IInv
  <2>1. anchor # NoAnchor /\ OnPortal(g)
    BY <1>2, <1>5 DEF RowIsThere, Late, Checked
  <2>2. OnPortal(g)'
    BY <2>1, OnPortalStays DEF PortalInv
  <2>3. QED BY <1>1, <2>2 DEF OnPortal
<1>6. QED BY <1>1, <1>3, <1>4, <1>5 DEF Checked, At

LEMMA SubmitChecked ==
  ASSUME PortalInv, NEW r \in Requests, Submit(r)
  PROVE  Checked(r)'
<1>1. pc'[r] \in {"read", "refs"}
  BY DEF Submit, PortalInv, TypeInv, IInv, Shape
<1>2. QED BY <1>1 DEF Checked, At

\* The entries a step writes: those there were, those of a checked plan, or the
\* checked group's.
LEMMA WrittenEntries ==
  ASSUME PortalInv, [Next]_vars
  PROVE  PortalsAgree(groupRoots)'
<1>. USE DEF PortalInv, TypeInv
<1>. PICK old \in Seq(Entry) : old = groupRoots
  BY DEF Typed, Tables
<1>0. old # <<>> => anchor # NoAnchor
  BY DEF IInv, Rootless
<1>1. \A i \in DOMAIN old : OnPortal(old[i].groupRef)'
  BY <1>0, AgreeStays
<1>2. CASE groupRoots' = groupRoots
  BY <1>1, <1>2 DEF PortalsAgree, OnPortal
<1>3. ASSUME NEW r \in Requests, RegisterCreate(r), groupRoots' = <<>>
      PROVE  PortalsAgree(groupRoots)'
  BY <1>3 DEF PortalsAgree
<1>4. ASSUME NEW r \in Requests, RegisterRefresh(r)
      PROVE  PortalsAgree(groupRoots)'
  <2>. PICK entries \in Seq(Entry) : entries = plan[r].entries
    BY DEF Typed, Memory, Plan
  <2>1. anchor # NoAnchor /\ PortalsAgree(entries)
    BY <1>4, Asked DEF RegisterRefresh, At, RefreshDecided, Checked, IInv
  <2>2. \A i \in DOMAIN entries : OnPortal(entries[i].groupRef)'
    BY <2>1, AgreeStays
  <2>3. groupRoots' = entries
    BY <1>4 DEF RegisterRefresh
  <2>4. QED BY <2>2, <2>3 DEF PortalsAgree, OnPortal
<1>5. ASSUME NEW r \in Requests, AttachPush(r)
      PROVE  PortalsAgree(groupRoots)'
  <2>. PICK g \in Groups, role \in GateRole : g = op[r].groupRef /\ role = op[r].role
    BY <1>5, Wanted, OperationFields DEF AttachPush, At, IInv
  <2>. PICK e : e = [groupRef |-> g, role |-> role]
    OBVIOUS
  <2>0. e.groupRef = g
    OBVIOUS
  <2>1. anchor # NoAnchor /\ OnPortal(g)
    BY <1>5 DEF AttachPush, At, RowIsThere, Late, Checked, IInv
  <2>2. OnPortal(g)'
    BY <2>1, OnPortalStays
  <2>3. groupRoots' = Append(old, e)
    BY <1>5 DEF AttachPush
  <2>4. \A i \in DOMAIN groupRoots' : (i \in DOMAIN old /\ groupRoots'[i] = old[i]) \/ groupRoots'[i] = e
    BY <2>3
  <2>5. QED BY <1>1, <2>0, <2>2, <2>4 DEF PortalsAgree, OnPortal
<1>6. ASSUME NEW r \in Requests, AttachRelabel(r)
      PROVE  PortalsAgree(groupRoots)'
  <2>. PICK g \in Groups, role \in GateRole : g = op[r].groupRef /\ role = op[r].role
    BY <1>6, Wanted, OperationFields DEF AttachRelabel, At, IInv
  <2>1. groupRoots' = Relabelled(old, g, role)
    BY <1>6 DEF AttachRelabel
  <2>2. /\ groupRoots' \in Seq(Entry) /\ Len(groupRoots') = Len(old)
        /\ \A i \in DOMAIN old : groupRoots'[i].groupRef = old[i].groupRef
    BY <2>1, RelabelMoves
  <2>3. DOMAIN groupRoots' = DOMAIN old
    BY <2>2
  <2>4. QED BY <1>1, <2>2, <2>3 DEF PortalsAgree, OnPortal
<1>7. ASSUME NEW r \in Requests, DetachPull(r)
      PROVE  PortalsAgree(groupRoots)'
  <2>1. groupRoots' = Without(old, op[r].groupRef)
    BY <1>7 DEF DetachPull
  <2>2. \A i \in DOMAIN groupRoots' : \E j \in DOMAIN old : groupRoots'[i] = old[j]
    BY <2>1, WithoutShrinks DEF KeptWell
  <2>3. QED BY <1>1, <2>2 DEF PortalsAgree, OnPortal
<1>8. QED BY <1>2, <1>3, <1>4, <1>5, <1>6, <1>7 DEF Next, Submit, Step, RegisterRefs, RegisterRead,
     RegisterReread, RegisterCreate, DatabaseError, AttachRead, AttachGroup, AttachDecide,
     DetachRead, DetachDecide, DetachMembers, GroupRegisterRead, GroupRegisterCreate,
     GroupRegisterReread, GroupDeleteRead, GroupDelete, vars, tables

LEMMA NextPortalInv == ASSUME PortalInv, [Next]_vars PROVE PortalInv'
<1>1. TypeInv'
  BY NextTyped DEF PortalInv
<1>2. \A r \in Requests : Checked(r)'
  BY OwnCheck, OthersCheck, SubmitChecked
<1>3. QED BY <1>1, <1>2, WrittenEntries DEF PortalInv

\* A group in the routing table exists and is on the document's portal, unless
\* it was ever deleted (attach.ts, cross-portal rule; group-delete.ts).
THEOREM GroupsShareThePortal == Spec => []SamePortal
<1>1. Init => PortalInv
  <2>1. ASSUME Init PROVE PortalsAgree(groupRoots) /\ \A r \in Requests : Checked(r)
    BY <2>1 DEF Init, PortalsAgree, Checked, At
  <2>2. QED BY <2>1, InitIInv, InitTyped DEF PortalInv, TypeInv
<1>2. PortalInv /\ [Next]_vars => PortalInv'
  BY NextPortalInv
<1>3. PortalInv => SamePortal
  BY DEF PortalInv, PortalsAgree, OnPortal, SamePortal
<1>4. QED BY <1>1, <1>2, <1>3, PTL DEF Spec

----------------------------------------------------------------------------
(* A request that nobody overtook acts on the entries it has read. *)

Unmoved(r) ==
  ~overtaken[r] =>
    /\ At(r, "push", "attach") => EntriesOf(groupRoots, op[r].groupRef) = {}
    /\ At(r, "relabel", "attach") => EntriesOf(groupRoots, op[r].groupRef) # {}
    /\ pc[r] \in {"decide", "pull"} /\ op[r].kind = "detach" =>
         plan[r].role = RoleOf(groupRoots, op[r].groupRef)

ReadInv == TypeInv /\ \A r \in Requests : Unmoved(r)

LEMMA OwnUnmoved ==
  ASSUME ReadInv, [Next]_vars, NEW r \in Requests, Step(r)
  PROVE  Unmoved(r)'
<1>. USE DEF ReadInv, TypeInv, IInv, Shape
<1>. PICK ref : ref = op[r].groupRef
  OBVIOUS
<1>1. CASE \E kind, evicted : Answer(r, kind, evicted)
  BY <1>1 DEF Answer, Unmoved, At
<1>2. CASE \E step \in {"refs", "read", "create", "reread", "refresh", "group", "members", "delete"} :
              \E what : Proceed(r, step, what)
  BY <1>2 DEF Proceed, Unmoved, At
<1>3. CASE AttachGroup(r) /\ Go(r, "decide")
  BY <1>3 DEF AttachGroup, Go, Proceed, Unmoved, At
<1>4. CASE AttachDecide(r) /\ \E step \in {"push", "relabel"} : Go(r, step)
  <2>0. groupRoots \in Seq(Entry) /\ groupRoots' = groupRoots /\ op' = op /\ op[r].kind = "attach"
    BY <1>4 DEF AttachDecide, Go, Proceed, tables, Typed, Tables, At
  <2>1. /\ pc'[r] = "push" => RoleOf(groupRoots, ref) = NoRole
        /\ pc'[r] = "relabel" => RoleOf(groupRoots, ref) # NoRole
    BY <1>4 DEF AttachDecide, Go, Proceed, Answer
  <2>2. RoleOf(groupRoots, ref) = NoRole <=> EntriesOf(groupRoots, ref) = {}
    BY <2>0, RoleOfType
  <2>3. EntriesOf(groupRoots, op[r].groupRef)' = EntriesOf(groupRoots, ref)
    BY <2>0
  <2>4. QED BY <2>0, <2>1, <2>2, <2>3 DEF Unmoved, At
<1>5. CASE DetachRead(r) /\ Proceed(r, "decide", [plan[r] EXCEPT !.role = RoleOf(groupRoots, op[r].groupRef)])
  <2>1. groupRoots' = groupRoots /\ op' = op /\ pc'[r] = "decide"
        /\ plan'[r].role = RoleOf(groupRoots, ref)
    BY <1>5 DEF DetachRead, Proceed, tables, Fields
  <2>2. RoleOf(groupRoots, op[r].groupRef)' = RoleOf(groupRoots, ref)
    BY <2>1
  <2>3. QED BY <2>1, <2>2 DEF Unmoved, At
<1>6. CASE DetachDecide(r) /\ Go(r, "pull")
  <2>1. /\ UNCHANGED <<groupRoots, op>> /\ plan'[r] = plan[r] /\ pc[r] = "decide" /\ pc'[r] = "pull"
        /\ op[r].kind = "detach" /\ (~overtaken'[r] => ~overtaken[r])
    BY <1>6 DEF DetachDecide, Go, Proceed, tables, At, Observe
  <2>2. ~overtaken'[r] => plan[r].role = RoleOf(groupRoots, ref)
    BY <2>1 DEF Unmoved
  <2>3. RoleOf(groupRoots, op[r].groupRef)' = RoleOf(groupRoots, ref)
    BY <2>1
  <2>4. QED BY <2>1, <2>2, <2>3 DEF Unmoved, At
<1>7. QED BY <1>1, <1>2, <1>3, <1>4, <1>5, <1>6 DEF Step, RegisterRefs, RegisterRead,
  RegisterCreate, RegisterReread, RegisterRefresh, RegisterExisting, AttachRead, AttachGroup,
  AttachDecide, AttachPush, AttachRelabel, DetachRead, DetachDecide, DetachPull, DetachMembers,
  GroupRegisterRead, GroupRegisterCreate, GroupRegisterReread, GroupExisting, GroupDeleteRead,
  GroupDelete, DatabaseError, AnswerWrite, Go

LEMMA OthersUnmoved ==
  ASSUME ReadInv, [Next]_vars, NEW q \in Requests, ~ (Submit(q) \/ Step(q))
  PROVE  Unmoved(q)'
<1>1. pc'[q] = pc[q] /\ op'[q] = op[q] /\ plan'[q] = plan[q]
      /\ (pc[q] # "idle" /\ ~overtaken'[q] => ~overtaken[q] /\ groupRoots' = groupRoots)
  BY OthersStep DEF ReadInv, TypeInv, tables
<1>2. Unmoved(q)
  BY DEF ReadInv
<1>. SUFFICES ASSUME ~overtaken'[q], pc[q] # "idle" PROVE Unmoved(q)'
  BY <1>1 DEF Unmoved, At
<1>3. ~overtaken[q] /\ groupRoots' = groupRoots
  BY <1>1
<1>4. /\ EntriesOf(groupRoots, op[q].groupRef)' = EntriesOf(groupRoots, op[q].groupRef)
      /\ RoleOf(groupRoots, op[q].groupRef)' = RoleOf(groupRoots, op[q].groupRef)
  BY <1>1, <1>3 DEF EntriesOf, RoleOf, FirstOf
<1>5. QED BY <1>1, <1>2, <1>3, <1>4 DEF Unmoved, At

LEMMA ReadsHold == Spec => []ReadInv
<1>1. Init => ReadInv
  <2>1. ASSUME Init PROVE \A r \in Requests : Unmoved(r)
    BY <2>1 DEF Init, Unmoved, At
  <2>2. QED BY <2>1, InitIInv, InitTyped DEF ReadInv, TypeInv
<1>2. ASSUME ReadInv, [Next]_vars PROVE ReadInv'
  <2>1. TypeInv'
    BY <1>2, NextTyped DEF ReadInv
  <2>2. ASSUME NEW r \in Requests, Submit(r) PROVE Unmoved(r)'
    <3>1. pc'[r] \in {"read", "refs"}
      BY <1>2, <2>2 DEF Submit, ReadInv, TypeInv, IInv, Shape
    <3>2. QED BY <3>1 DEF Unmoved, At
  <2>3. QED BY <1>2, <2>1, <2>2, OwnUnmoved, OthersUnmoved DEF ReadInv
<1>3. ReadInv /\ [Next]_vars => ReadInv'
  BY <1>2
<1>4. QED BY <1>1, <1>3, PTL DEF Spec

\* When an attach that nobody overtook is acknowledged, the role that every
\* reader finds for the group is the one it asked for (group-attach.ts).
THEOREM AttachGivesTheRole == Spec => AttachMovesRole
<1>. DEFINE Moves(r) == op[r].kind = "attach" /\ Answers(r, "ok") /\ ~overtaken[r] =>
                          RoleOf(groupRoots', op[r].groupRef) = op[r].role
<1>1. ASSUME ReadInv, [Next]_vars, NEW r \in Requests PROVE Moves(r)
  <2>. SUFFICES ASSUME op[r].kind = "attach", Answers(r, "ok"), ~overtaken[r]
                PROVE  RoleOf(groupRoots', op[r].groupRef) = op[r].role
    OBVIOUS
  <2>. USE <1>1 DEF ReadInv, TypeInv, IInv, Shape
  <2>1. Step(r) /\ pc'[r] = "idle" /\ reply'.kind = "ok"
    BY OwnStep DEF Answers, Submit
  <2>2. op[r].groupRef \in Groups /\ op[r].role \in GateRole /\ groupRoots \in Seq(Entry)
    BY Wanted, OperationFields DEF Typed, Tables
  <2>3. CASE AttachDecide(r) /\ RoleOf(groupRoots, op[r].groupRef) = op[r].role
    BY <2>3 DEF AttachDecide, tables
  <2>4. CASE AttachPush(r)
    <3>1. EntriesOf(groupRoots, op[r].groupRef) = {}
      BY <2>4 DEF AttachPush, Unmoved, At
    <3>2. QED BY <2>2, <2>4, <3>1, Pushed DEF AttachPush
  <2>5. CASE AttachRelabel(r)
    <3>1. EntriesOf(groupRoots, op[r].groupRef) # {}
      BY <2>5 DEF AttachRelabel, Unmoved, At
    <3>2. QED BY <2>2, <2>5, <3>1, RelabelMoves DEF AttachRelabel
  <2>6. QED BY <2>1, <2>3, <2>4, <2>5 DEF Step, RegisterRefs, RegisterRead, RegisterCreate,
    RegisterReread, RegisterRefresh, AttachRead, AttachGroup, AttachDecide, DetachRead,
    DetachDecide, DetachPull, DetachMembers, GroupRegisterRead, GroupRegisterCreate,
    GroupRegisterReread, GroupDeleteRead, GroupDelete, DatabaseError, Answer, Go, Proceed, At
<1>2. ReadInv /\ [Next]_vars => [\A r \in Requests : Moves(r)]_vars
  BY <1>1
<1>3. QED BY <1>2, ReadsHold, PTL DEF Spec, AttachMovesRole

\* A detach that takes an edit entry away goes on to report the group's members
\* (attach.ts, "to detect a detach-from-edit"), unless it fails.
THEOREM DetachReportsEdit == Spec => DetachFromEditReported
<1>. DEFINE Reported(r) ==
       /\ At(r, "pull", "detach") /\ pc'[r] # "pull" /\ groupRoots' # groupRoots
       /\ ~overtaken[r] /\ RoleOf(groupRoots, op[r].groupRef) = "edit"
       => pc'[r] = "members" \/ Answers(r, "error")
<1>1. ASSUME ReadInv, [Next]_vars, NEW r \in Requests PROVE Reported(r)
  <2>. SUFFICES ASSUME At(r, "pull", "detach"), pc'[r] # "pull", groupRoots' # groupRoots,
                       ~overtaken[r], RoleOf(groupRoots, op[r].groupRef) = "edit"
                PROVE  pc'[r] = "members" \/ Answers(r, "error")
    OBVIOUS
  <2>. USE <1>1 DEF ReadInv, TypeInv, IInv, Shape
  <2>1. Step(r) /\ plan[r].role = "edit"
    BY OwnStep DEF Submit, At, Unmoved
  <2>2. DetachPull(r)
    BY <2>1 DEF Step, RegisterRefs, RegisterRead, RegisterCreate, RegisterReread, RegisterRefresh,
      AttachRead, AttachGroup, AttachDecide, AttachPush, AttachRelabel, DetachRead, DetachDecide,
      DetachMembers, GroupRegisterRead, GroupRegisterCreate, GroupRegisterReread, GroupDeleteRead,
      GroupDelete, DatabaseError, At, tables
  <2>3. QED BY <2>1, <2>2 DEF DetachPull, Go, Proceed, Answer, Answers, At
<1>2. ReadInv /\ [Next]_vars => [\A r \in Requests : Reported(r)]_vars
  BY <1>1
<1>3. QED BY <1>2, ReadsHold, PTL DEF Spec, DetachFromEditReported

----------------------------------------------------------------------------
(* No request waits for another, and none goes round in circles. *)

\* How many steps a request may be away from its answer, the lookups of the
\* groups it named counted as one.
StageOf == [idle |-> 0, members |-> 1, refresh |-> 1, push |-> 1, relabel |-> 1, delete |-> 1,
            pull |-> 2, reread |-> 2, create |-> 3, decide |-> 3, group |-> 4, read |-> 5,
            refs |-> 6]

\* The request comes closer to its answer, or has one group less to look up.
Forward(r) ==
  \/ StageOf[pc'[r]] < StageOf[pc[r]]
  \/ /\ pc[r] = "refs" /\ pc'[r] = "refs"
     /\ plan'[r].refs \subseteq plan[r].refs /\ plan'[r].refs # plan[r].refs

LEMMA StageOrder ==
  /\ \A s \in PC \ {"idle"} : StageOf["idle"] < StageOf[s]
  /\ StageOf["refs"] > StageOf["read"] /\ StageOf["read"] > StageOf["create"]
  /\ StageOf["read"] > StageOf["refresh"] /\ StageOf["read"] > StageOf["group"]
  /\ StageOf["read"] > StageOf["decide"] /\ StageOf["read"] > StageOf["delete"]
  /\ StageOf["create"] > StageOf["reread"] /\ StageOf["reread"] > StageOf["refresh"]
  /\ StageOf["group"] > StageOf["decide"] /\ StageOf["decide"] > StageOf["relabel"]
  /\ StageOf["decide"] > StageOf["push"] /\ StageOf["decide"] > StageOf["pull"]
  /\ StageOf["decide"] > StageOf["members"] /\ StageOf["pull"] > StageOf["members"]
BY DEF StageOf, PC

LEMMA AnswerIsForward ==
  ASSUME IInv, NEW r \in Requests, pc[r] # "idle", pc'[r] = "idle"
  PROVE  Forward(r)
BY StageOrder DEF Forward, IInv, Shape

LEMMA StepIsForward ==
  ASSUME IInv, NEW r \in Requests, Step(r)
  PROVE  Forward(r)
<1>0. /\ pc[r] \in PC /\ \A kind, evicted : Answer(r, kind, evicted) => pc'[r] = "idle"
      /\ \A step, what : Proceed(r, step, what) => pc'[r] = step /\ plan'[r] = what
  BY DEF Answer, Proceed, IInv, Shape
<1>1. pc[r] # "idle"
  BY DEF Step, At, RegisterRefs, RegisterRead, RegisterCreate, RegisterReread, RegisterRefresh,
         AttachRead, AttachGroup, AttachDecide, AttachPush, AttachRelabel, DetachRead,
         DetachDecide, DetachPull, DetachMembers, GroupRegisterRead, GroupRegisterCreate,
         GroupRegisterReread, GroupDeleteRead, GroupDelete, DatabaseError
<1>2. CASE pc'[r] = "idle"
  BY <1>1, <1>2, AnswerIsForward
<1>3. CASE RegisterRefs(r) /\ pc'[r] # "idle"
  <2>1. PICK g \in plan[r].refs :
          Proceed(r, IF plan[r].refs = {g} THEN "read" ELSE "refs", [plan[r] EXCEPT !.refs = @ \ {g}])
    BY <1>0, <1>3 DEF RegisterRefs
  <2>2. plan'[r].refs = plan[r].refs \ {g} /\ pc'[r] \in {"read", "refs"} /\ pc[r] = "refs"
    BY <1>0, <1>3, <2>1 DEF RegisterRefs, At, IInv, Shape, Fields
  <2>3. QED BY <2>2, StageOrder DEF Forward
<1>4. CASE (RegisterRead(r) \/ RegisterCreate(r) \/ RegisterReread(r) \/ RegisterRefresh(r))
             /\ pc'[r] # "idle"
  BY <1>0, <1>4, StageOrder DEF Forward, RegisterRead, RegisterCreate, RegisterReread,
     RegisterRefresh, RegisterExisting, AnswerWrite, Go, At
<1>5. CASE (AttachRead(r) \/ AttachGroup(r) \/ AttachDecide(r) \/ AttachPush(r) \/ AttachRelabel(r))
             /\ pc'[r] # "idle"
  BY <1>0, <1>5, StageOrder DEF Forward, AttachRead, AttachGroup, AttachDecide, AttachPush,
     AttachRelabel, AnswerWrite, Go, At
<1>6. CASE (DetachRead(r) \/ DetachDecide(r) \/ DetachPull(r) \/ DetachMembers(r))
             /\ pc'[r] # "idle"
  BY <1>0, <1>6, StageOrder DEF Forward, DetachRead, DetachDecide, DetachPull, DetachMembers, Go, At
<1>7. CASE (GroupRegisterRead(r) \/ GroupRegisterCreate(r) \/ GroupRegisterReread(r)
              \/ GroupDeleteRead(r) \/ GroupDelete(r))
             /\ pc'[r] # "idle"
  BY <1>0, <1>7, StageOrder DEF Forward, GroupRegisterRead, GroupRegisterCreate,
     GroupRegisterReread, GroupExisting, GroupDeleteRead, GroupDelete, AnswerWrite, Go, At
<1>8. QED BY <1>0, <1>2, <1>3, <1>4, <1>5, <1>6, <1>7 DEF Step, DatabaseError

\* A request under way moves only by steps of its own, and each of them takes it
\* forward: register.ts, attach.ts and their group counterparts have no loop that
\* another request's writes could keep running.
THEOREM RequestsGoForward ==
  Spec => [][\A r \in Requests :
               /\ Step(r) => Forward(r)
               /\ pc[r] # "idle" /\ ~Step(r) => pc'[r] = pc[r]]_vars
<1>1. ASSUME IInv, [Next]_vars, NEW r \in Requests, pc[r] # "idle", ~Step(r)
      PROVE  pc'[r] = pc[r]
  BY <1>1, OwnStep DEF Submit
<1>2. IInv /\ [Next]_vars =>
        [\A r \in Requests :
           /\ Step(r) => Forward(r)
           /\ pc[r] # "idle" /\ ~Step(r) => pc'[r] = pc[r]]_vars
  BY <1>1, StepIsForward
<1>3. QED BY <1>2, Inductive, PTL DEF Spec
=============================================================================
