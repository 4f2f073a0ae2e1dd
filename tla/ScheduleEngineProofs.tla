------------------------- MODULE ScheduleEngineProofs -------------------------
(* Proofs about ScheduleEngine, for any number of schedules, any documents and *)
(* folder, any clock, and any depth of the walks that callbacks nest.          *)
EXTENDS ScheduleEngine, FiniteSetTheorems, SequenceTheorems, TLAPS

(* The walks on the stack: a take-over is the innermost and knows only        *)
(* schedules there are, a thermostat's list is reapplied alone, and callbacks *)
(* run only under a walk.                                                     *)
Walks ==
  /\ stack = <<>> => ~open
  /\ \A k \in DOMAIN stack :
       /\ stack[k].kind = "over" => /\ k = Len(stack) /\ ~open
                                    /\ stack[k].id \in DOMAIN entries
                                    /\ \A x \in DOMAIN stack[k].todo : stack[k].todo[x] \in DOMAIN entries
       /\ stack[k].kind = "reapply" => Len(stack) = 1 /\ ~open

(* No two schedules that drive share a target, and only one that drives runs  *)
(* a list.                                                                    *)
Apart == \A i, j \in DOMAIN entries :
  i # j /\ entries[i].active /\ entries[j].active => ~Sharing(entries[i].doc, entries[j].doc)
OnlyDriversRun == \A i \in DOMAIN entries : entries[i].mode # 0 => entries[i].active

(* A list is walked once, and not while it waits. *)
IsWalk(k, i, run) == stack[k].kind = "list" /\ stack[k].id = i /\ stack[k].run = run
WalkedOnce ==
  /\ \A k, l \in DOMAIN stack :
       stack[k].kind = "list" /\ IsWalk(l, stack[k].id, stack[k].run) => k = l
  /\ \A i \in DOMAIN entries, k \in DOMAIN stack : IsWalk(k, i, entries[i].run) => ~entries[i].waiting

(* What the loop still has to bring up to date. *)
InHand(kind, i, g) == \E k \in DOMAIN jobs : jobs[k] = Job(kind, i, g)
BeingReapplied(i, t) ==
  \E k \in DOMAIN stack : /\ stack[k].kind = "reapply" /\ stack[k].id = i /\ stack[k].run = entries[i].run
                          /\ stack[k].target = t /\ stack[k].at <= Max(PassedOn(entries[i], t))
RelayRight(i, r) ==
  entries[i].mode # 0 /\ PassedOn(entries[i], r) # {} =>
    InHand("follow", i, r) \/ relay[r] = LastOn(entries[i], r).value
ThermostatRight(i, t) ==
  entries[i].mode # 0 /\ PassedOn(entries[i], t) # {} =>
    \/ Max(PassedOn(entries[i], t)) \in entries[i].lost
    \/ InHand("reapply", i, t) \/ BeingReapplied(i, t)
    \/ Ready(LastOn(entries[i], t)) /\ Effect(thermo[t], LastOn(entries[i], t)) = thermo[t]
TargetsRight == \A i \in DOMAIN entries : /\ \A r \in Switches \ held : RelayRight(i, r)
                                          /\ \A t \in Thermostats : ThermostatRight(i, t)

(* A list to start, or a point to run, is the one in force. *)
ToStart(i) == \E k \in DOMAIN stack : /\ stack[k].kind = "starts"
                                      /\ \E x \in DOMAIN stack[k].todo : stack[k].todo[x] = i
Started(i) == entries[i].mode = InForce(entries[i].doc, WeekMinuteOf(minute))
PointsInForce ==
  \A k \in DOMAIN stack : stack[k].kind = "due" =>
    \A x \in DOMAIN stack[k].todo :
      stack[k].todo[x][1] \in DOMAIN entries =>
        stack[k].todo[x][2] = InForce(entries[stack[k].todo[x][1]].doc, WeekMinuteOf(minute))
(* The minute that counts is not behind the clock, nor ahead of it by more    *)
(* than a small step back.                                                    *)
ClockOnTime ==
  clockValid => minute >= local \div Minute /\ (SetBackAgain \/ MinuteCounted)
OnTime ==
  /\ ClockOnTime
  /\ PointsInForce
  /\ \A i \in DOMAIN entries : entries[i].active /\ clockValid => Started(i) \/ ToStart(i) \/ IsDue(i)
-----------------------------------------------------------------------------
(* Finite sets of numbers *)

Rank(S, i) == Cardinality({j \in S : j <= i})

(* In a finite set of numbers each has its place, and no place is left out. *)
LEMMA RankOnto ==
  ASSUME NEW S, IsFiniteSet(S), S \subseteq Int
  PROVE  /\ Cardinality(S) \in Nat
         /\ \A i \in S : Rank(S, i) \in 1..Cardinality(S)
         /\ \A i, j \in S : Rank(S, i) = Rank(S, j) => i = j
         /\ \A k \in 1..Cardinality(S) : \E i \in S : Rank(S, i) = k
<1>1. Cardinality(S) \in Nat
  BY FS_CardinalityType
<1>2. ASSUME NEW i \in S
      PROVE  Rank(S, i) \in 1..Cardinality(S)
  <2>1. PICK below \in SUBSET S : below = {j \in S : j <= i}
    OBVIOUS
  <2>2. IsFiniteSet(below) /\ Cardinality(below) \in Nat /\ Cardinality(below) <= Cardinality(S)
    BY <2>1, FS_Subset, FS_CardinalityType
  <2>3. below # {}
    BY <2>1
  <2>4. Cardinality(below) # 0
    BY <2>2, <2>3, FS_EmptySet
  <2> QED
    BY <1>1, <2>1, <2>2, <2>4 DEF Rank
<1>3. ASSUME NEW i \in S, NEW j \in S, i < j
      PROVE  Rank(S, i) # Rank(S, j)
  <2>1. PICK upTo \in SUBSET S : upTo = {x \in S : x <= j}
    OBVIOUS
  <2>2. PICK below \in SUBSET upTo : below = {x \in S : x <= i}
    <3>1. i \in Int /\ j \in Int /\ \A x \in S : x \in Int
      OBVIOUS
    <3>2. \A x \in S : x <= i => x <= j
      BY <1>3, <3>1
    <3> QED
      BY <2>1, <3>2
  <2>3. IsFiniteSet(upTo)
    BY FS_Subset
  <2>4. j \in upTo /\ j \notin below
    BY <1>3, <2>1, <2>2
  <2>5. Cardinality(below) # Cardinality(upTo)
    BY <2>3, <2>4, FS_Subset
  <2> QED
    BY <2>1, <2>2, <2>5 DEF Rank
<1>4. \A i, j \in S : Rank(S, i) = Rank(S, j) => i = j
  <2>1. \A i, j \in S : i = j \/ i < j \/ j < i
    OBVIOUS
  <2> QED
    BY <1>3, <2>1
<1>5. PICK f : f = [i \in S |-> Rank(S, i)]
  OBVIOUS
<1>6. f \in Injection(S, 1..Cardinality(S))
  BY <1>2, <1>4, <1>5 DEF Injection, IsInjective
<1>7. IsFiniteSet(1..Cardinality(S)) /\ Cardinality(1..Cardinality(S)) = Cardinality(S)
  BY <1>1, FS_Interval
<1>8. f \in Surjection(S, 1..Cardinality(S))
  BY <1>6, <1>7, FS_Injection
<1> QED
  BY <1>1, <1>2, <1>4, <1>5, <1>8 DEF Surjection

LEMMA MaxFacts ==
  ASSUME NEW S, IsFiniteSet(S), S \subseteq Int, S # {}
  PROVE  Max(S) \in S /\ \A x \in S : x <= Max(S)
<1>1. Cardinality(S) \in 1..Cardinality(S)
  BY FS_EmptySet, FS_CardinalityType
<1>2. PICK m \in S : Rank(S, m) = Cardinality(S)
  BY <1>1, RankOnto
<1>3. PICK below \in SUBSET S : below = {x \in S : x <= m}
  OBVIOUS
<1>4. below = S
  BY <1>2, <1>3, FS_Subset DEF Rank
<1>5. \A x \in S : x <= m
  BY <1>3, <1>4
<1>6. \A x \in S : m >= x
  BY <1>5
<1> QED
  BY <1>6 DEF Max

LEMMA MinFacts ==
  ASSUME NEW S, IsFiniteSet(S), S \subseteq Int, S # {}
  PROVE  Min(S) \in S /\ \A x \in S : Min(S) <= x
<1>1. 1 \in 1..Cardinality(S)
  BY FS_EmptySet, FS_CardinalityType
<1>2. PICK m \in S : Rank(S, m) = 1
  BY <1>1, RankOnto
<1>3. PICK below \in SUBSET S : below = {x \in S : x <= m}
  OBVIOUS
<1>4. IsFiniteSet(below) /\ Cardinality(below) = 1 /\ m \in below
  BY <1>2, <1>3, FS_Subset DEF Rank
<1>5. below = {m}
  BY <1>4, FS_Singleton
<1>6. \A x \in S : m <= x
  BY <1>3, <1>5
<1> QED
  BY <1>6 DEF Min

LEMMA IdsFacts ==
  /\ Ids \subseteq Int /\ IsFiniteSet(Ids) /\ \A S \in SUBSET Ids : IsFiniteSet(S)
<1>1. IsFiniteSet(Ids)
  BY ScheduleAssumption, FS_Interval DEF Ids
<1>2. \A S \in SUBSET Ids : IsFiniteSet(S)
  BY <1>1, FS_Subset
<1> QED
  BY <1>1, <1>2, ScheduleAssumption DEF Ids

(* Sorted takes every id of a set in turn, and nothing else. *)
LEMMA SortedFacts ==
  ASSUME NEW S \in SUBSET Ids
  PROVE  /\ Sorted(S) \in Seq(S) /\ Len(Sorted(S)) = Cardinality(S)
         /\ \A k \in DOMAIN Sorted(S) : Sorted(S)[k] \in S
         /\ \A i \in S : \E k \in DOMAIN Sorted(S) : Sorted(S)[k] = i
         /\ Sorted(S) = <<>> <=> S = {}
<1>1. IsFiniteSet(S) /\ S \subseteq Int
  BY IdsFacts
<1>2. /\ Cardinality(S) \in Nat
      /\ \A i \in S : Rank(S, i) \in 1..Cardinality(S)
      /\ \A i, j \in S : Rank(S, i) = Rank(S, j) => i = j
      /\ \A k \in 1..Cardinality(S) : \E i \in S : Rank(S, i) = k
  BY <1>1, RankOnto
<1>3. Sorted(S) = [k \in 1..Cardinality(S) |-> CHOOSE i \in S : Rank(S, i) = k]
  BY DEF Sorted, Rank
<1>4. \A k \in 1..Cardinality(S) : Sorted(S)[k] \in S /\ Rank(S, Sorted(S)[k]) = k
  BY <1>2, <1>3
<1>5. \A i \in S : Sorted(S)[Rank(S, i)] = i
  BY <1>2, <1>4
<1>6. Sorted(S) \in Seq(S) /\ Len(Sorted(S)) = Cardinality(S) /\ DOMAIN Sorted(S) = 1..Cardinality(S)
  <2>1. Sorted(S) \in [1..Cardinality(S) -> S]
    BY <1>3, <1>4
  <2> QED
    BY <1>2, <2>1
<1>7. Cardinality(S) = 0 <=> S = {}
  BY <1>1, FS_EmptySet
<1> QED
  BY <1>2, <1>4, <1>5, <1>6, <1>7
-----------------------------------------------------------------------------
(* Who drives *)

(* refresh_ goes by id, so who drives is settled from the first on. *)
MayDrive(ents, f, i) ==
  /\ i \in DOMAIN ents
  /\ ents[i].enabled
  /\ \A j \in 1..(i - 1) : f[j] => ~Sharing(ents[i].doc, ents[j].doc)
Goes(ents) == CHOOSE f : f = [i \in 1..N |-> MayDrive(ents, f, i)]

LEMMA DriversRuns ==
  ASSUME NEW ents
  PROVE  Drivers(ents) = {i \in Ids : Goes(ents)[i]}
BY DEF Drivers, Goes, MayDrive, Ids

LEMMA GoesDefined ==
  ASSUME NEW ents
  PROVE  \E f \in [1..N -> BOOLEAN] : \A i \in 1..N : f[i] <=> MayDrive(ents, f, i)
<1> DEFINE Upto(f, n) == \A i \in 1..n : f[i] <=> MayDrive(ents, f, i)
<1> DEFINE bad == {n \in 0..N : ~\E f \in [1..N -> BOOLEAN] : Upto(f, n)}
<1>0. N \in Nat
  BY ScheduleAssumption
<1>1. ASSUME bad # {}
      PROVE  FALSE
  <2>1. IsFiniteSet(bad) /\ bad \subseteq Int
    <3>1. IsFiniteSet(0..N)
      BY <1>0, FS_Interval
    <3>2. bad \in SUBSET (0..N)
      OBVIOUS
    <3>3. IsFiniteSet(bad)
      BY <3>1, <3>2, FS_Subset
    <3> QED
      BY <1>0, <3>2, <3>3
  <2>2. PICK n \in bad : \A m \in bad : n <= m
    BY <1>1, <2>1, MinFacts
  <2>3. n \in 0..N /\ ~\E f \in [1..N -> BOOLEAN] : Upto(f, n)
    BY <2>2
  <2>4. n # 0
    <3>1. [i \in 1..N |-> TRUE] \in [1..N -> BOOLEAN]
      OBVIOUS
    <3>2. ASSUME NEW f PROVE Upto(f, 0)
      OBVIOUS
    <3> HIDE DEF Upto
    <3> QED
      BY <2>3, <3>1, <3>2
  <2>5. n - 1 \in 0..N /\ n - 1 \notin bad
    <3> HIDE DEF bad
    <3> QED
      BY <1>0, <2>2, <2>3, <2>4
  <2>6. PICK f \in [1..N -> BOOLEAN] : Upto(f, n - 1)
    <3> HIDE DEF Upto
    <3> QED
      BY <2>5
  <2>7. PICK b \in BOOLEAN : b <=> MayDrive(ents, f, n)
    OBVIOUS
  <2>8. PICK g \in [1..N -> BOOLEAN] : g = [f EXCEPT ![n] = b]
    OBVIOUS
  <2>9. n \in 1..N /\ g[n] = b /\ \A j \in 1..N : j # n => g[j] = f[j]
    BY <1>0, <2>3, <2>4, <2>8
  <2>10. ASSUME NEW i \in 1..n
        PROVE  MayDrive(ents, g, i) <=> MayDrive(ents, f, i)
    BY <1>0, <2>9 DEF MayDrive
  <2>11. Upto(g, n)
    <3>1. ASSUME NEW i \in 1..n
          PROVE  g[i] <=> MayDrive(ents, g, i)
      <4>1. CASE i = n
        BY <2>7, <2>9, <2>10, <4>1
      <4>2. CASE i # n
        <5>1. i \in 1..(n - 1) /\ i \in 1..N
          BY <1>0, <2>9, <4>2
        <5> QED
          BY <2>6, <2>9, <2>10, <4>2, <5>1
      <4> QED
        BY <4>1, <4>2
    <3> QED
      BY <3>1
  <2> QED
    BY <2>3, <2>11
<1>2. N \in 0..N /\ N \notin bad
  BY <1>0, <1>1
<1>3. PICK f \in [1..N -> BOOLEAN] : Upto(f, N)
  <2> HIDE DEF Upto
  <2> QED
    BY <1>2
<1> QED
  BY <1>3

LEMMA GoesFacts ==
  ASSUME NEW ents, NEW i \in 1..N
  PROVE  Goes(ents)[i] <=> MayDrive(ents, Goes(ents), i)
<1>1. PICK f \in [1..N -> BOOLEAN] : \A j \in 1..N : f[j] <=> MayDrive(ents, f, j)
  BY GoesDefined
<1>2. \A j \in 1..N : MayDrive(ents, f, j) \in BOOLEAN
  BY DEF MayDrive
<1>3. f = [j \in 1..N |-> MayDrive(ents, f, j)]
  BY <1>1, <1>2, Zenon
<1>4. Goes(ents) = [j \in 1..N |-> MayDrive(ents, Goes(ents), j)]
  BY <1>3, Zenon DEF Goes
<1> QED
  BY <1>4, Zenon

LEMMA DriversFacts ==
  ASSUME NEW ents
  PROVE  /\ Drivers(ents) \subseteq Ids \cap DOMAIN ents
         /\ \A i \in Ids \cap DOMAIN ents :
              i \in Drivers(ents) <=> /\ ents[i].enabled
                                      /\ \A j \in Drivers(ents) : j < i => ~Sharing(ents[i].doc, ents[j].doc)
<1>1. \A i \in Ids : i \in Drivers(ents) <=> MayDrive(ents, Goes(ents), i)
  BY DriversRuns, GoesFacts DEF Ids
<1>2. \A i \in Ids : i \in Drivers(ents) <=> Goes(ents)[i]
  BY DriversRuns
<1>3. \A i \in Ids : \A j \in 1..(i - 1) : j \in Ids /\ j < i
  BY ScheduleAssumption DEF Ids
<1>4. \A i, j \in Ids : j < i => j \in 1..(i - 1)
  BY ScheduleAssumption DEF Ids
<1>5. Drivers(ents) \subseteq Ids
  BY DriversRuns
<1> QED
  BY <1>1, <1>2, <1>3, <1>4, <1>5 DEF MayDrive
-----------------------------------------------------------------------------
(* Documents, lists and points *)

LEMMA DocFacts ==
  ASSUME NEW d \in Docs
  PROVE  /\ d.modes \in Seq(Seq(Actions))
         /\ \A m \in 1..Len(d.modes) : d.modes[m] \in Seq(Actions)
         /\ DOMAIN d.points \subseteq Int /\ DOMAIN d.points # {} /\ IsFiniteSet(DOMAIN d.points)
         /\ \A p \in DOMAIN d.points : p \in 0..(Week - 1) /\ d.points[p] \in 1..Len(d.modes)
<1>1. d.modes \in Seq(Seq(Actions)) /\ DOMAIN d.points \subseteq 0..(Week - 1) /\ DOMAIN d.points # {}
      /\ \A m \in DOMAIN d.points : d.points[m] \in DOMAIN d.modes
  BY ScheduleAssumption
<1>2. IsFiniteSet(0..(Week - 1))
  BY ScheduleAssumption, FS_Interval
<1>3. IsFiniteSet(DOMAIN d.points)
  BY <1>1, <1>2, FS_Subset
<1> QED
  BY <1>1, <1>3

LEMMA PointFacts ==
  ASSUME NEW d \in Docs, NEW w \in Nat
  PROVE  /\ PointAt(d, w) \in DOMAIN d.points /\ PointAt(d, w) \in 0..(Week - 1)
         /\ InForce(d, w) \in 1..Len(d.modes)
         /\ IF \E p \in DOMAIN d.points : p <= w
            THEN PointAt(d, w) <= w /\ \A p \in DOMAIN d.points : p <= w => p <= PointAt(d, w)
            ELSE \A p \in DOMAIN d.points : p <= PointAt(d, w)
<1>1. PICK before \in SUBSET DOMAIN d.points : before = {p \in DOMAIN d.points : p <= w}
  OBVIOUS
<1>2. IsFiniteSet(before)
  BY DocFacts, FS_Subset
<1>3. CASE before # {}
  <2>1. PointAt(d, w) = Max(before)
    BY <1>1, <1>3 DEF PointAt
  <2>2. Max(before) \in before /\ \A p \in before : p <= Max(before)
    BY <1>2, <1>3, MaxFacts, DocFacts
  <2> QED
    BY <1>1, <2>1, <2>2, DocFacts DEF InForce
<1>4. CASE before = {}
  <2>1. PointAt(d, w) = Max(DOMAIN d.points)
    BY <1>1, <1>4 DEF PointAt
  <2>2. Max(DOMAIN d.points) \in DOMAIN d.points /\ \A p \in DOMAIN d.points : p <= Max(DOMAIN d.points)
    BY MaxFacts, DocFacts
  <2> QED
    BY <1>1, <1>4, <2>1, <2>2, DocFacts DEF InForce
<1> QED
  BY <1>3, <1>4

(* A schedule's entry, and its list. *)
EntryOK(e) ==
  /\ e \in Entry /\ e.mode \in 0..Len(e.doc.modes)
  /\ e.next \in 0..(IF e.mode = 0 THEN 0 ELSE Len(e.doc.modes[e.mode]))

LEMMA ListFacts ==
  ASSUME NEW e, EntryOK(e)
  PROVE  /\ List(e) \in Seq(Actions) /\ Len(List(e)) \in Nat /\ e.next \in 0..Len(List(e))
         /\ \A k \in 1..Len(List(e)) : List(e)[k] \in Actions
<1>1. e.doc \in Docs /\ e.mode \in 0..Len(e.doc.modes)
  BY DEF EntryOK, Entry
<1>2. CASE e.mode = 0
  BY <1>2 DEF List, EntryOK
<1>3. CASE e.mode # 0
  <2>1. e.doc.modes[e.mode] \in Seq(Actions)
    BY <1>1, <1>3, DocFacts
  <2> QED
    BY <1>3, <2>1 DEF List, EntryOK
<1> QED
  BY <1>2, <1>3

LEMMA ActionFacts ==
  ASSUME NEW a \in Actions
  PROVE  \/ a.type = "wait" /\ ~Drives(a)
         \/ a.type = "relay" /\ Drives(a) /\ a.target \in Relays /\ a.value \in {"on", "off"}
         \/ /\ a.type = "thermostat" /\ Drives(a) /\ a.target \in Thermostats
            /\ a.value \in {"on", "off", "target", "preset"}
BY DEF Actions, Wait, RelayAction, ThermostatAction, Drives

LEMMA PassedFacts ==
  ASSUME NEW e, EntryOK(e), NEW g
  PROVE  /\ PassedOn(e, g) \subseteq 1..e.next /\ PassedOn(e, g) \subseteq Int
         /\ PassedOn(e, g) \subseteq 1..Len(List(e)) /\ IsFiniteSet(PassedOn(e, g))
         /\ PassedOn(e, g) # {} => /\ Max(PassedOn(e, g)) \in PassedOn(e, g)
                                   /\ \A k \in PassedOn(e, g) : k <= Max(PassedOn(e, g))
         /\ \A k \in PassedOn(e, g) : /\ List(e)[k] \in Actions
                                      /\ Drives(List(e)[k]) /\ List(e)[k].target = g
<1>1. e.next \in Nat /\ e.next <= Len(List(e)) /\ Len(List(e)) \in Nat
  BY ListFacts
<1>2. PassedOn(e, g) \subseteq 1..e.next
  BY DEF PassedOn
<1>3. IsFiniteSet(1..e.next)
  BY <1>1, FS_Interval
<1>4. IsFiniteSet(PassedOn(e, g))
  BY <1>2, <1>3, FS_Subset
<1>5. PassedOn(e, g) \subseteq Int
  BY <1>1, <1>2
<1>6. PassedOn(e, g) \subseteq 1..Len(List(e))
  BY <1>1, <1>2
<1>7. PassedOn(e, g) # {} => /\ Max(PassedOn(e, g)) \in PassedOn(e, g)
                             /\ \A k \in PassedOn(e, g) : k <= Max(PassedOn(e, g))
  BY <1>4, <1>5, MaxFacts
<1>8. \A k \in PassedOn(e, g) : List(e)[k] \in Actions /\ Drives(List(e)[k]) /\ List(e)[k].target = g
  BY <1>6, ListFacts DEF PassedOn
<1> QED
  BY <1>2, <1>4, <1>5, <1>6, <1>7, <1>8

(* Whatever a list drives is a target of its schedule. *)
LEMMA PassedNamed ==
  ASSUME NEW e, EntryOK(e), NEW k \in 1..Len(List(e)), Drives(List(e)[k])
  PROVE  List(e)[k].target \in TargetsOf(e.doc)
<1>1. e.mode # 0
  BY ListFacts DEF List
<1>2. e.mode \in DOMAIN e.doc.modes /\ List(e) = e.doc.modes[e.mode]
  <2>1. e.doc \in Docs /\ e.mode \in 1..Len(e.doc.modes)
    BY <1>1 DEF EntryOK, Entry
  <2> QED
    BY <1>1, <2>1, DocFacts DEF List
<1>3. PICK l : l = List(e)
  OBVIOUS
<1>4. l \in {e.doc.modes[m] : m \in DOMAIN e.doc.modes} /\ k \in DOMAIN l
  BY <1>2, <1>3, ListFacts
<1>5. l[k] \in UNION {{l1[k1] : k1 \in DOMAIN l1} : l1 \in {e.doc.modes[m] : m \in DOMAIN e.doc.modes}}
  BY <1>4
<1> QED
  BY <1>3, <1>5 DEF TargetsOf

LEMMA SharingFacts ==
  ASSUME NEW d, NEW e, NEW g \in TargetsOf(d) \cap TargetsOf(e)
  PROVE  Sharing(d, e) /\ Sharing(e, d)
BY DEF Sharing

LEMMA SharingSymmetric ==
  ASSUME NEW d, NEW e
  PROVE  Sharing(d, e) <=> Sharing(e, d)
BY DEF Sharing
-----------------------------------------------------------------------------
(* Runs *)

LEMMA ImageFinite ==
  ASSUME NEW S, IsFiniteSet(S), NEW f, f = [x \in S |-> f[x]], NEW T, T = {f[x] : x \in S}
  PROVE  IsFiniteSet(T)
<1>1. f \in Surjection(S, T)
  BY DEF Surjection
<1> QED
  BY <1>1, FS_Surjection

LEMMA RunsOfFinite ==
  ASSUME TypeOK, NEW i \in Ids
  PROVE  IsFiniteSet(RunsOf(i))
<1>1. IsFiniteSet({w.run : w \in {x \in waits : x.id = i}})
  <2>1. IsFiniteSet({x \in waits : x.id = i})
    BY FS_Subset DEF TypeOK
  <2>2. PICK f : f = [x \in {y \in waits : y.id = i} |-> x.run]
    OBVIOUS
  <2>3. {w.run : w \in {x \in waits : x.id = i}} = {f[x] : x \in {y \in waits : y.id = i}}
    BY <2>2
  <2> QED
    BY <2>1, <2>2, <2>3, ImageFinite
<1>2. IsFiniteSet({jobs[k].run : k \in {x \in DOMAIN jobs : jobs[x].id = i}})
  <2>1. IsFiniteSet(DOMAIN jobs)
    BY FS_Interval DEF TypeOK
  <2>2. PICK S \in SUBSET DOMAIN jobs : S = {x \in DOMAIN jobs : jobs[x].id = i}
    OBVIOUS
  <2>3. IsFiniteSet(S)
    BY <2>1, <2>2, FS_Subset
  <2>4. PICK f : f = [x \in S |-> jobs[x].run]
    OBVIOUS
  <2>5. {jobs[k].run : k \in S} = {f[x] : x \in S}
    BY <2>4
  <2> QED
    BY <2>2, <2>3, <2>4, <2>5, ImageFinite
<1>3. IsFiniteSet({stack[k].run : k \in {x \in DOMAIN stack : stack[x].kind \in {"list", "reapply"}
                                                             /\ stack[x].id = i}})
  <2>1. IsFiniteSet(DOMAIN stack)
    BY FS_Interval DEF TypeOK
  <2>2. PICK S \in SUBSET DOMAIN stack : S = {x \in DOMAIN stack : stack[x].kind \in {"list", "reapply"}
                                                                 /\ stack[x].id = i}
    OBVIOUS
  <2>3. IsFiniteSet(S)
    BY <2>1, <2>2, FS_Subset
  <2>4. PICK f : f = [x \in S |-> stack[x].run]
    OBVIOUS
  <2>5. {stack[k].run : k \in S} = {f[x] : x \in S}
    BY <2>4
  <2> QED
    BY <2>2, <2>3, <2>4, <2>5, ImageFinite
<1>4. IsFiniteSet({entries[j].run : j \in DOMAIN entries \cap {i}})
  <2>1. {entries[j].run : j \in DOMAIN entries \cap {i}} \in SUBSET {entries[i].run}
    OBVIOUS
  <2>2. IsFiniteSet({entries[i].run})
    BY FS_Singleton
  <2> QED
    BY <2>1, <2>2, FS_Subset
<1> QED
  BY <1>1, <1>2, <1>3, <1>4, FS_Union DEF RunsOf

(* A new run is nobody's: no wait, job or walk of the schedule has it. *)
LEMMA NewRunFacts ==
  ASSUME TypeOK, NEW i \in Ids
  PROVE  /\ NewRun(i) \in Nat
         /\ \A w \in waits : w.id = i => w.run # NewRun(i)
         /\ \A k \in DOMAIN jobs : jobs[k].id = i => jobs[k].run # NewRun(i)
         /\ \A k \in DOMAIN stack : stack[k].kind \in {"list", "reapply"} /\ stack[k].id = i
                                      => stack[k].run # NewRun(i)
         /\ i \in DOMAIN entries => entries[i].run # NewRun(i)
<1>1. IsFiniteSet(RunsOf(i)) /\ Cardinality(RunsOf(i)) \in Nat
  BY RunsOfFinite, FS_CardinalityType
<1>2. PICK all : all = 1..(Cardinality(RunsOf(i)) + 1)
  OBVIOUS
<1>3. IsFiniteSet(all) /\ Cardinality(all) = Cardinality(RunsOf(i)) + 1 /\ all \subseteq Nat
  BY <1>1, <1>2, FS_Interval
<1>4. ~(all \subseteq RunsOf(i))
  <2>1. CASE all \in SUBSET RunsOf(i)
    <3>1. Cardinality(all) <= Cardinality(RunsOf(i))
      BY <1>1, <2>1, FS_Subset
    <3> QED
      BY <1>1, <1>3, <3>1
  <2> QED
    BY <2>1
<1>5. PICK new \in SUBSET all : new = all \ RunsOf(i)
  OBVIOUS
<1>6. IsFiniteSet(new) /\ new # {} /\ new \subseteq Int
  <2>1. IsFiniteSet(new)
    BY <1>3, FS_Subset
  <2>2. new # {}
    BY <1>4, <1>5
  <2>3. new \subseteq Int
    BY <1>3
  <2> QED
    BY <2>1, <2>2, <2>3
<1>7. Min(new) \in new
  BY <1>6, MinFacts
<1>8. NewRun(i) \in Nat /\ NewRun(i) \notin RunsOf(i)
  BY <1>2, <1>3, <1>5, <1>7 DEF NewRun
<1> QED
  BY <1>8 DEF RunsOf
-----------------------------------------------------------------------------
(* Frames *)

LEMMA Pushed ==
  ASSUME NEW s \in Seq(Frame), NEW t \in Seq(Frame)
  PROVE  /\ s \o t \in Seq(Frame) /\ Len(s \o t) = Len(s) + Len(t)
         /\ \A k \in DOMAIN s : k \in DOMAIN (s \o t) /\ (s \o t)[k] = s[k]
         /\ \A k \in DOMAIN t : Len(s) + k \in DOMAIN (s \o t) /\ (s \o t)[Len(s) + k] = t[k]
         /\ \A k \in DOMAIN (s \o t) : \/ k \in DOMAIN s /\ (s \o t)[k] = s[k]
                                       \/ /\ k \notin DOMAIN s /\ k - Len(s) \in DOMAIN t
                                          /\ (s \o t)[k] = t[k - Len(s)]
OBVIOUS

LEMMA BelowFacts ==
  ASSUME TypeOK, stack # <<>>
  PROVE  /\ Len(stack) \in DOMAIN stack /\ Top = stack[Len(stack)] /\ Top \in Frame
         /\ Below \in Seq(Frame) /\ Len(Below) = Len(stack) - 1
         /\ \A k \in DOMAIN Below : k \in DOMAIN stack /\ k < Len(stack) /\ Below[k] = stack[k]
         /\ \A k \in DOMAIN stack : k # Len(stack) => k \in DOMAIN Below
<1>1. stack \in Seq(Frame)
  BY DEF TypeOK
<1>2. PICK n \in Nat : Len(stack) = n + 1
  BY <1>1
<1>3. /\ SubSeq(stack, 1, n) \in Seq(Frame) /\ Len(SubSeq(stack, 1, n)) = n
      /\ \A k \in 1..n : SubSeq(stack, 1, n)[k] = stack[k]
  <2>1. \A k \in 1..n : stack[k] \in Frame
    BY <1>1, <1>2
  <2>2. /\ SubSeq(stack, 1, n) \in Seq(Frame)
        /\ Len(SubSeq(stack, 1, n)) = IF 1 <= n THEN n - 1 + 1 ELSE 0
        /\ \A k \in 1..(n - 1 + 1) : SubSeq(stack, 1, n)[k] = stack[1 + k - 1]
    BY <2>1, SubSeqProperties
  <2>3. n - 1 + 1 = n /\ \A k \in 1..n : 1 + k - 1 = k
    OBVIOUS
  <2> QED
    BY <2>2, <2>3
<1>4. Below = SubSeq(stack, 1, n)
  <2>1. Len(stack) - 1 = n
    BY <1>2
  <2> QED
    BY <2>1 DEF Below
<1> QED
  BY <1>1, <1>2, <1>3, <1>4 DEF Top

LEMMA FrameFacts ==
  ASSUME NEW f \in Frame
  PROVE  /\ f.kind \in {"list", "reapply", "starts", "due", "over"}
         /\ f.kind = "list" => f.id \in Ids /\ f.run \in Nat
         /\ f.kind = "reapply" => f.id \in Ids /\ f.run \in Nat /\ f.target \in Thermostats /\ f.at \in Nat
         /\ f.kind = "starts" => /\ f.todo \in Seq(Ids) /\ f.todo # <<>> /\ Head(f.todo) = f.todo[1]
                                 /\ 1 \in DOMAIN f.todo /\ f.todo[1] \in Ids
         /\ f.kind = "due" => /\ f.todo \in Seq(Ids \X Nat) /\ f.todo # <<>> /\ Head(f.todo) = f.todo[1]
                              /\ 1 \in DOMAIN f.todo /\ f.todo[1] \in Ids \X Nat
         /\ f.kind = "over" => f.id \in Ids /\ f.todo \in Seq(Ids)
BY DEF Frame, Pass

LEMMA NewFrames ==
  /\ \A i \in Ids, run \in Nat : /\ ListWalk(i, run) \in Seq(Frame) /\ Len(ListWalk(i, run)) = 1
                                 /\ ListWalk(i, run)[1].kind = "list" /\ ListWalk(i, run)[1].id = i
                                 /\ ListWalk(i, run)[1].run = run
  /\ \A i \in Ids, run \in Nat, t \in Thermostats, at \in Nat :
       LET w == ReapplyWalk(i, run, t, at)
       IN /\ w \in Seq(Frame) /\ Len(w) = 1
          /\ w[1].kind = "reapply" /\ w[1].id = i /\ w[1].run = run /\ w[1].target = t /\ w[1].at = at
  /\ \A i \in Ids, todo \in Seq(Ids) :
       LET w == TakeOverOf(i, todo)
       IN /\ w \in Seq(Frame) /\ Len(w) = 1
          /\ w[1].kind = "over" /\ w[1].id = i /\ w[1].todo = todo
BY DEF Frame, ListWalk, ReapplyWalk, TakeOverOf

LEMMA StartsFacts ==
  ASSUME NEW todo \in Seq(Ids)
  PROVE  /\ Starts(todo) \in Seq(Frame) /\ Len(Starts(todo)) \in {0, 1}
         /\ todo = <<>> => Starts(todo) = <<>>
         /\ todo # <<>> => /\ Len(Starts(todo)) = 1
                           /\ Starts(todo)[1].kind = "starts" /\ Starts(todo)[1].todo = todo
<1>1. CASE todo = <<>>
  BY <1>1 DEF Starts
<1>2. CASE todo # <<>>
  <2>1. PICK f : f = [kind |-> "starts", todo |-> todo]
    OBVIOUS
  <2>2. f \in Frame /\ f.kind = "starts" /\ f.todo = todo
    BY <1>2, <2>1 DEF Frame, Pass
  <2>3. Starts(todo) = <<f>>
    BY <1>2, <2>1 DEF Starts
  <2> QED
    BY <1>2, <2>2, <2>3
<1> QED
  BY <1>1, <1>2

LEMMA DueFacts ==
  ASSUME NEW todo \in Seq(Ids \X Nat)
  PROVE  /\ Due(todo) \in Seq(Frame) /\ Len(Due(todo)) \in {0, 1}
         /\ todo = <<>> => Due(todo) = <<>>
         /\ todo # <<>> => /\ Len(Due(todo)) = 1
                           /\ Due(todo)[1].kind = "due" /\ Due(todo)[1].todo = todo
<1>1. CASE todo = <<>>
  BY <1>1 DEF Due
<1>2. CASE todo # <<>>
  <2>1. PICK f : f = [kind |-> "due", todo |-> todo]
    OBVIOUS
  <2>2. f \in Frame /\ f.kind = "due" /\ f.todo = todo
    BY <1>2, <2>1 DEF Frame, Pass
  <2>3. Due(todo) = <<f>>
    BY <1>2, <2>1 DEF Due
  <2> QED
    BY <1>2, <2>2, <2>3
<1> QED
  BY <1>1, <1>2

LEMMA OnFacts ==
  ASSUME TypeOK, NEW kind, On(kind)
  PROVE  stack # <<>> /\ Top \in Frame /\ Top.kind = kind
<1>1. stack # <<>> /\ Top.kind = kind
  BY DEF On, Quiet
<1> QED
  BY <1>1, BelowFacts

LEMMA NotOver ==
  ASSUME TypeOK, Walks, MayCall
  PROVE  ~On("over") /\ Returned = stack
<1>1. CASE stack = <<>>
  BY <1>1 DEF On, Quiet, Returned
<1>2. CASE stack # <<>>
  BY <1>2, BelowFacts DEF On, Quiet, Returned, MayCall, Walks
<1> QED
  BY <1>1, <1>2
-----------------------------------------------------------------------------
(* Entries *)

LEMMA TypeEntries ==
  ASSUME TypeOK
  PROVE  DOMAIN entries \subseteq Ids /\ \A i \in DOMAIN entries : EntryOK(entries[i])
BY DEF TypeOK, EntryOK

(* A list that is stopped, whatever it is stopped for. *)
Stops(e, i) == e.mode = 0 /\ e.next = 0 /\ ~e.waiting /\ e.run = NewRun(i)
(* A list that is left where it is. *)
SameList(e, f) == /\ e.doc = f.doc /\ e.mode = f.mode /\ e.next = f.next
                  /\ e.run = f.run /\ e.waiting = f.waiting /\ e.lost = f.lost
SameFile(e, f) == e.doc = f.doc /\ e.enabled = f.enabled /\ e.newer = f.newer

LEMMA CancelledFacts ==
  ASSUME TypeOK, NEW i \in Ids, NEW e, EntryOK(e), NEW c, c = Cancelled(i, e)
  PROVE  EntryOK(c) /\ Stops(c, i) /\ SameFile(c, e) /\ c.active = e.active /\ c.lost = {}
<1>1. NewRun(i) \in Nat
  BY NewRunFacts
<1>2. e \in Entry
  BY DEF EntryOK
<1>3. /\ c \in Entry /\ c.mode = 0 /\ c.next = 0 /\ c.waiting = FALSE /\ c.run = NewRun(i) /\ c.lost = {}
      /\ c.doc = e.doc /\ c.enabled = e.enabled /\ c.newer = e.newer /\ c.active = e.active
  BY <1>1, <1>2 DEF Cancelled, Entry
<1>4. Len(e.doc.modes) \in Nat
  BY <1>2, DocFacts DEF Entry
<1> QED
  BY <1>3, <1>4 DEF EntryOK, Stops, SameFile

LEMMA NewEntryFacts ==
  ASSUME TypeOK, NEW i \in Ids, NEW d \in Docs, NEW b \in BOOLEAN, NEW e, e = NewEntry(i, d, b)
  PROVE  EntryOK(e) /\ Stops(e, i) /\ ~e.active /\ e.enabled = b /\ e.doc = d
<1>1. NewRun(i) \in Nat
  BY NewRunFacts
<1>2. Len(d.modes) \in Nat
  BY DocFacts
<1>3. e \in Entry /\ e.mode = 0 /\ e.next = 0 /\ e.waiting = FALSE /\ e.run = NewRun(i)
      /\ e.active = FALSE /\ e.enabled = b /\ e.doc = d
  BY <1>1 DEF NewEntry, Entry
<1> QED
  BY <1>2, <1>3 DEF EntryOK, Stops

LEMMA PutFacts ==
  ASSUME NEW i, NEW e, NEW p, p = Put(i, e)
  PROVE  /\ DOMAIN p = DOMAIN entries \cup {i} /\ p[i] = e
         /\ \A j \in DOMAIN entries \ {i} : p[j] = entries[j]
         /\ DOMAIN p \ {i} = DOMAIN entries \ {i}
         /\ \A j \in DOMAIN p : j # i => j \in DOMAIN entries /\ p[j] = entries[j]
BY DEF Put

LEMMA RefreshedFacts ==
  ASSUME TypeOK, NEW ents, DOMAIN ents \subseteq Ids, \A j \in DOMAIN ents : EntryOK(ents[j]),
         NEW active, NEW i \in DOMAIN ents, NEW r, r = Refreshed(ents, active)[i]
  PROVE  /\ EntryOK(r) /\ SameFile(r, ents[i]) /\ (r.active <=> i \in active)
         /\ IF ents[i].active /\ i \notin active THEN Stops(r, i) ELSE SameList(r, ents[i])
<1>1. PICK b \in BOOLEAN : b = (i \in active)
  <2>1. CASE i \in active
    <3>1. (i \in active) = TRUE
      BY <2>1
    <3> QED
      BY <3>1
  <2>2. CASE i \notin active
    <3>1. (i \in active) = FALSE
      BY <2>2
    <3> QED
      BY <3>1
  <2> QED
    BY <2>1, <2>2
<1>2. CASE ents[i].active /\ i \notin active
  <2>1. PICK c : c = Cancelled(i, ents[i])
    OBVIOUS
  <2>2. EntryOK(c) /\ Stops(c, i) /\ SameFile(c, ents[i])
    BY <2>1, CancelledFacts
  <2>3. r = [c EXCEPT !.active = b]
    BY <1>1, <1>2, <2>1 DEF Refreshed
  <2>4. c \in Entry
    BY <2>2 DEF EntryOK
  <2>5. /\ r \in Entry /\ r.active = b /\ r.doc = c.doc /\ r.enabled = c.enabled /\ r.newer = c.newer
        /\ r.mode = c.mode /\ r.next = c.next /\ r.waiting = c.waiting /\ r.run = c.run /\ r.lost = c.lost
    BY <2>3, <2>4 DEF Entry
  <2> QED
    BY <1>1, <1>2, <2>2, <2>5 DEF EntryOK, Stops, SameFile
<1>3. CASE ~(ents[i].active /\ i \notin active)
  <2>1. PICK c : c = ents[i]
    OBVIOUS
  <2>3. r = [c EXCEPT !.active = b]
    BY <1>1, <1>3, <2>1 DEF Refreshed
  <2>4. c \in Entry /\ EntryOK(c)
    BY <2>1 DEF EntryOK
  <2>5. /\ r \in Entry /\ r.active = b /\ r.doc = c.doc /\ r.enabled = c.enabled /\ r.newer = c.newer
        /\ r.mode = c.mode /\ r.next = c.next /\ r.waiting = c.waiting /\ r.run = c.run /\ r.lost = c.lost
    BY <2>3, <2>4 DEF Entry
  <2> QED
    BY <1>1, <1>3, <2>1, <2>4, <2>5 DEF EntryOK, SameList, SameFile
<1> QED
  BY <1>2, <1>3
-----------------------------------------------------------------------------
(* Changes that settle *)

In(todo, j) == \E x \in DOMAIN todo : todo[x] = j
Unmoved(j) == /\ j \in DOMAIN entries /\ SameList(entries'[j], entries[j])
              /\ entries[j].active => entries'[j].active

(* What create, Save, restore, remove and the flag do but for the files: only *)
(* i comes, goes or changes, every list goes on or is stopped, who drives is  *)
(* settled, and whoever is to start is in the pass.                           *)
SettledStep(i) ==
  /\ DOMAIN entries' \subseteq Ids /\ DOMAIN entries' \ {i} = DOMAIN entries \ {i}
  /\ \A j \in DOMAIN entries' : /\ EntryOK(entries'[j]) /\ (Stops(entries'[j], j) \/ Unmoved(j))
                                /\ j # i => SameFile(entries'[j], entries[j])
  /\ \A j \in DOMAIN entries' :
       entries'[j].active <=> /\ entries'[j].enabled
                              /\ \A k \in DOMAIN entries' :
                                   k < j /\ entries'[k].active => ~Sharing(entries'[j].doc, entries'[k].doc)
  /\ waits' \subseteq waits
  /\ \A w \in waits \ waits' : w.id \in DOMAIN entries' => Stops(entries'[w.id], w.id)
  /\ \E todo \in Seq(Ids) :
       /\ stack' = Returned \o Starts(todo)
       /\ \A j \in DOMAIN entries' :
            entries'[j].active => In(todo, j) \/ (Unmoved(j) /\ entries[j].active)
  /\ UNCHANGED <<jobs, open, clockValid, local, minute, relay, held, thermo>>

LEMMA TodoFacts ==
  ASSUME NEW i \in Ids, NEW S \in SUBSET Ids, NEW own, NEW first, first = (IF own THEN <<i>> ELSE <<>>)
  PROVE  /\ first \o Sorted(S) \in Seq(Ids)
         /\ own => In(first \o Sorted(S), i)
         /\ \A j \in S : In(first \o Sorted(S), j)
<1>1. Sorted(S) \in Seq(Ids) /\ \A j \in S : \E k \in DOMAIN Sorted(S) : Sorted(S)[k] = j
  BY SortedFacts
<1>2. first \in Seq(Ids) /\ (own => Len(first) = 1 /\ first[1] = i)
  OBVIOUS
<1>3. PICK t \in Seq(Ids) : t = Sorted(S)
  BY <1>1
<1>4. /\ first \o t \in Seq(Ids)
      /\ \A k \in DOMAIN first : k \in DOMAIN (first \o t) /\ (first \o t)[k] = first[k]
      /\ \A k \in DOMAIN t : Len(first) + k \in DOMAIN (first \o t) /\ (first \o t)[Len(first) + k] = t[k]
  BY <1>2
<1>5. own => 1 \in DOMAIN first
  BY <1>2
<1> QED
  BY <1>1, <1>2, <1>3, <1>4, <1>5 DEF In

LEMMA SettleGives ==
  ASSUME TypeOK, NEW i \in Ids, NEW ents, NEW cancelled, NEW save,
         DOMAIN ents \subseteq Ids, DOMAIN ents \ {i} = DOMAIN entries \ {i},
         \A j \in DOMAIN ents : EntryOK(ents[j]),
         \A j \in DOMAIN ents : j # i => ents[j] = entries[j],
         i \in DOMAIN ents => \/ Stops(ents[i], i) /\ (save \/ ~ents[i].active)
                              \/ /\ i \in DOMAIN entries /\ SameList(ents[i], entries[i])
                                 /\ ents[i].active = entries[i].active,
         cancelled \subseteq {i},
         i \in DOMAIN ents /\ i \in cancelled => Stops(ents[i], i),
         Settle(ents, cancelled, i, save),
         UNCHANGED <<jobs, open, clockValid, local, minute, relay, held, thermo>>
  PROVE  /\ SettledStep(i) /\ DOMAIN entries' = DOMAIN ents
         /\ i \in DOMAIN ents => SameFile(entries'[i], ents[i])
<1>1. PICK active : active = Drivers(ents)
  OBVIOUS
<1>2. PICK started \in SUBSET Ids : started = {j \in active : ~ents[j].active}
  BY <1>1, DriversFacts
<1>3. PICK own \in BOOLEAN : own = (i \in DOMAIN ents /\ ((save /\ ents[i].enabled) \/ i \in started))
  OBVIOUS
<1>4. /\ entries' = Refreshed(ents, active)
      /\ waits' = WaitsWithout(StoppedBy(ents, active) \cup cancelled)
      /\ stack' = Returned \o Starts((IF own THEN <<i>> ELSE <<>>) \o Sorted(started \ {i}))
  BY <1>1, <1>2, <1>3 DEF Settle
<1>5. DOMAIN entries' = DOMAIN ents
  BY <1>4 DEF Refreshed
<1>6. ASSUME NEW j \in DOMAIN ents
      PROVE  /\ EntryOK(entries'[j]) /\ SameFile(entries'[j], ents[j]) /\ (entries'[j].active <=> j \in active)
             /\ IF ents[j].active /\ j \notin active THEN Stops(entries'[j], j) ELSE SameList(entries'[j], ents[j])
  BY <1>4, RefreshedFacts
<1>7. ASSUME NEW j \in DOMAIN entries'
      PROVE  /\ EntryOK(entries'[j]) /\ (Stops(entries'[j], j) \/ Unmoved(j))
             /\ j # i => SameFile(entries'[j], entries[j])
  <2>1. CASE ents[j].active /\ j \notin active
    BY <1>5, <1>6, <2>1
  <2>2. CASE ~(ents[j].active /\ j \notin active)
    <3>1. SameList(entries'[j], ents[j]) /\ (ents[j].active => entries'[j].active)
      BY <1>5, <1>6, <2>2
    <3>2. CASE j # i
      BY <1>5, <1>6, <3>1, <3>2 DEF Unmoved
    <3>3. CASE j = i
      BY <1>5, <1>6, <3>1, <3>3 DEF Unmoved, Stops, SameList
    <3> QED
      BY <3>2, <3>3
  <2> QED
    BY <2>1, <2>2
<1>8. \A j \in DOMAIN entries' :
        entries'[j].active <=> /\ entries'[j].enabled
                               /\ \A k \in DOMAIN entries' :
                                    k < j /\ entries'[k].active => ~Sharing(entries'[j].doc, entries'[k].doc)
  <2>1. \A j \in DOMAIN ents : j \in active <=> /\ ents[j].enabled
                                                /\ \A k \in active : k < j => ~Sharing(ents[j].doc, ents[k].doc)
    BY <1>1, DriversFacts
  <2>2. active \subseteq DOMAIN ents
    BY <1>1, DriversFacts
  <2> QED
    BY <1>5, <1>6, <2>1, <2>2 DEF SameFile
<1>9. waits' \subseteq waits /\ \A w \in waits \ waits' : w.id \in DOMAIN entries' => Stops(entries'[w.id], w.id)
  <2>1. ASSUME NEW w \in waits \ waits', w.id \in DOMAIN entries'
        PROVE  Stops(entries'[w.id], w.id)
    <3>1. w.id \in StoppedBy(ents, active) \/ w.id \in cancelled
      BY <1>4, <2>1 DEF WaitsWithout
    <3>2. CASE w.id \in StoppedBy(ents, active)
      BY <1>6, <3>2 DEF StoppedBy
    <3>3. CASE w.id \in cancelled
      BY <1>5, <1>6, <2>1, <3>3 DEF Stops, SameList
    <3> QED
      BY <3>1, <3>2, <3>3
  <2> QED
    BY <1>4, <2>1 DEF WaitsWithout
<1>10. PICK first : first = (IF own THEN <<i>> ELSE <<>>)
  OBVIOUS
<1>11. PICK todo \in Seq(Ids) : /\ todo = first \o Sorted(started \ {i})
                                /\ own => In(todo, i)
                                /\ \A j \in started \ {i} : In(todo, j)
  <2>1. PICK S \in SUBSET Ids : S = started \ {i}
    OBVIOUS
  <2>2. /\ first \o Sorted(S) \in Seq(Ids)
        /\ own => In(first \o Sorted(S), i)
        /\ \A j \in S : In(first \o Sorted(S), j)
    BY <1>10, TodoFacts
  <2> QED
    BY <2>1, <2>2
<1>12. ASSUME NEW j \in DOMAIN entries', entries'[j].active
       PROVE  In(todo, j) \/ (Unmoved(j) /\ entries[j].active)
  <2>0. j \in active /\ j \in DOMAIN ents
    BY <1>5, <1>6, <1>12
  <2>1. CASE j \in started
    BY <1>3, <1>11, <2>0, <2>1
  <2>2. CASE j \notin started
    <3>1. ents[j].active /\ SameList(entries'[j], ents[j])
      BY <1>2, <1>6, <2>0, <2>2
    <3>2. CASE j # i
      BY <2>0, <3>1, <3>2, <1>12 DEF Unmoved
    <3>3. CASE j = i /\ Stops(ents[i], i) /\ save
      <4>1. ents[i].enabled
        BY <1>1, <2>0, <3>3, DriversFacts
      <4> QED
        BY <1>3, <1>11, <2>0, <3>3, <4>1
    <3>4. CASE j = i /\ i \in DOMAIN entries /\ SameList(ents[i], entries[i]) /\ ents[i].active = entries[i].active
      BY <1>12, <3>1, <3>4 DEF Unmoved, SameList
    <3> QED
      BY <2>0, <3>1, <3>2, <3>3, <3>4
  <2> QED
    BY <2>1, <2>2
<1>13. stack' = Returned \o Starts(todo)
  BY <1>4, <1>10, <1>11
<1>14. SettledStep(i)
  <2>1. DOMAIN entries' \subseteq Ids /\ DOMAIN entries' \ {i} = DOMAIN entries \ {i}
    BY <1>5
  <2> QED
    BY <1>7, <1>8, <1>9, <1>12, <1>13, <2>1 DEF SettledStep
<1> QED
  BY <1>5, <1>6, <1>14

LEMMA AddSettles ==
  ASSUME TypeOK, Walks, NEW i \in Ids, NEW d \in Docs, NEW enabled \in BOOLEAN, Add(i, d, enabled)
  PROVE  SettledStep(i) /\ i \in DOMAIN entries' /\ SameFile(entries'[i], NewEntry(i, d, enabled))
<1>1. PICK e : e = NewEntry(i, d, enabled)
  OBVIOUS
<1>2. EntryOK(e) /\ Stops(e, i) /\ ~e.active
  BY <1>1, NewEntryFacts
<1>3. PICK ents : ents = Put(i, e)
  OBVIOUS
<1>4. /\ DOMAIN ents = DOMAIN entries \cup {i} /\ ents[i] = e
      /\ DOMAIN ents \ {i} = DOMAIN entries \ {i} /\ \A j \in DOMAIN ents : j # i => ents[j] = entries[j]
  BY <1>3 DEF Put
<1>5. PICK none : none = {}
  OBVIOUS
<1>8. Settle(ents, none, i, TRUE) /\ UNCHANGED <<jobs, open, clockValid, local, minute, relay, held, thermo>>
  BY <1>1, <1>3, <1>5 DEF Add
<1>6. DOMAIN ents \subseteq Ids /\ \A j \in DOMAIN ents : EntryOK(ents[j])
  BY <1>2, <1>4, TypeEntries
<1>7. SettledStep(i) /\ DOMAIN entries' = DOMAIN ents /\ (i \in DOMAIN ents => SameFile(entries'[i], ents[i]))
  <2>1. none \subseteq {i} /\ (i \in DOMAIN ents /\ i \in none => Stops(ents[i], i))
    BY <1>5
  <2>2. i \in DOMAIN ents => \/ Stops(ents[i], i) /\ (TRUE \/ ~ents[i].active)
                             \/ /\ i \in DOMAIN entries /\ SameList(ents[i], entries[i])
                                /\ ents[i].active = entries[i].active
    BY <1>2, <1>4
  <2> QED
    BY <1>4, <1>6, <1>8, <2>1, <2>2, SettleGives
<1> QED
  BY <1>1, <1>4, <1>7

LEMMA ReplaceSettles ==
  ASSUME TypeOK, Walks, NEW i \in Ids, NEW d \in Docs, NEW enabled \in BOOLEAN, Replace(i, d, enabled)
  PROVE  /\ SettledStep(i) /\ i \in DOMAIN entries'
         /\ SameFile(entries'[i], [entries[i] EXCEPT !.doc = d, !.enabled = enabled])
<1>1. PICK c : c = Cancelled(i, entries[i])
  OBVIOUS
<1>2. EntryOK(c) /\ Stops(c, i) /\ c.newer = entries[i].newer
  BY <1>1, CancelledFacts, TypeEntries DEF Replace, SameFile
<1>3. PICK e : e = [c EXCEPT !.doc = d, !.enabled = enabled]
  OBVIOUS
<1>4. /\ e \in Entry /\ e.mode = 0 /\ e.next = 0 /\ ~e.waiting /\ e.run = NewRun(i)
      /\ e.doc = d /\ e.enabled = enabled /\ e.newer = entries[i].newer
  BY <1>2, <1>3 DEF EntryOK, Entry, Stops
<1>5. EntryOK(e) /\ Stops(e, i)
  BY <1>4, DocFacts DEF EntryOK, Stops
<1>6. PICK ents : ents = Put(i, e)
  OBVIOUS
<1>7. /\ DOMAIN ents = DOMAIN entries \cup {i} /\ ents[i] = e
      /\ DOMAIN ents \ {i} = DOMAIN entries \ {i} /\ \A j \in DOMAIN ents : j # i => ents[j] = entries[j]
  BY <1>6 DEF Put
<1>8. Settle(ents, {i}, i, TRUE) /\ UNCHANGED <<jobs, open, clockValid, local, minute, relay, held, thermo>>
  BY <1>1, <1>3, <1>6 DEF Replace
<1>9. DOMAIN ents \subseteq Ids /\ \A j \in DOMAIN ents : EntryOK(ents[j])
  BY <1>5, <1>7, TypeEntries
<1>10. SettledStep(i) /\ DOMAIN entries' = DOMAIN ents /\ (i \in DOMAIN ents => SameFile(entries'[i], ents[i]))
  BY <1>5, <1>7, <1>8, <1>9, SettleGives
<1>11. i \in DOMAIN entries /\ entries[i] \in Entry
  BY TypeEntries DEF Replace, EntryOK
<1> QED
  BY <1>4, <1>7, <1>10, <1>11 DEF SameFile, Entry

LEMMA RemoveSettles ==
  ASSUME TypeOK, Walks, NEW i \in Ids, NEW file, Remove(i, file)
  PROVE  SettledStep(i) /\ i \notin DOMAIN entries'
<1>1. PICK ents : ents = [j \in DOMAIN entries \ {i} |-> entries[j]]
  OBVIOUS
<1>2. Settle(ents, {i}, i, FALSE) /\ UNCHANGED <<jobs, open, clockValid, local, minute, relay, held, thermo>>
  BY <1>1 DEF Remove
<1>3. DOMAIN ents = DOMAIN entries \ {i} /\ \A j \in DOMAIN ents : ents[j] = entries[j]
  BY <1>1
<1>4. DOMAIN ents \subseteq Ids /\ \A j \in DOMAIN ents : EntryOK(ents[j])
  BY <1>3, TypeEntries
<1>5. SettledStep(i) /\ DOMAIN entries' = DOMAIN ents
  BY <1>2, <1>3, <1>4, SettleGives
<1> QED
  BY <1>3, <1>5

LEMMA FlagFacts ==
  ASSUME TypeOK, NEW i \in DOMAIN entries, NEW b \in BOOLEAN, NEW e, e = [entries[i] EXCEPT !.enabled = b]
  PROVE  /\ EntryOK(e) /\ SameList(e, entries[i]) /\ e.active = entries[i].active
         /\ e.enabled = b /\ e.doc = entries[i].doc /\ e.newer = entries[i].newer
<1>1. entries[i] \in Entry /\ EntryOK(entries[i])
  BY TypeEntries DEF EntryOK
<1>2. /\ e \in Entry /\ e.enabled = b /\ e.doc = entries[i].doc /\ e.newer = entries[i].newer
      /\ e.mode = entries[i].mode /\ e.next = entries[i].next /\ e.run = entries[i].run
      /\ e.waiting = entries[i].waiting /\ e.lost = entries[i].lost /\ e.active = entries[i].active
  BY <1>1 DEF Entry
<1> QED
  BY <1>1, <1>2 DEF EntryOK, SameList

LEMMA FlagSettles ==
  ASSUME TypeOK, NEW i \in DOMAIN entries, NEW b \in BOOLEAN,
         Settle(Put(i, [entries[i] EXCEPT !.enabled = b]), {}, i, FALSE),
         UNCHANGED <<jobs, open, clockValid, local, minute, relay, held, thermo>>
  PROVE  /\ SettledStep(i) /\ i \in DOMAIN entries'
         /\ SameFile(entries'[i], [entries[i] EXCEPT !.enabled = b])
<1>0. i \in Ids
  BY TypeEntries
<1>1. PICK e : e = [entries[i] EXCEPT !.enabled = b]
  OBVIOUS
<1>2. EntryOK(e) /\ SameList(e, entries[i]) /\ e.active = entries[i].active
  BY <1>1, FlagFacts
<1>3. PICK ents : ents = Put(i, e)
  OBVIOUS
<1>4. /\ DOMAIN ents = DOMAIN entries /\ ents[i] = e
      /\ DOMAIN ents \ {i} = DOMAIN entries \ {i} /\ \A j \in DOMAIN ents : j # i => ents[j] = entries[j]
  BY <1>3 DEF Put
<1>5. PICK none : none = {}
  OBVIOUS
<1>8. Settle(ents, none, i, FALSE)
  BY <1>1, <1>3, <1>5
<1>6. DOMAIN ents \subseteq Ids /\ \A j \in DOMAIN ents : EntryOK(ents[j])
  BY <1>2, <1>4, TypeEntries
<1>7. SettledStep(i) /\ DOMAIN entries' = DOMAIN ents /\ (i \in DOMAIN ents => SameFile(entries'[i], ents[i]))
  <2>1. none \subseteq {i} /\ (i \in DOMAIN ents /\ i \in none => Stops(ents[i], i))
    BY <1>5
  <2>2. i \in DOMAIN ents => \/ Stops(ents[i], i) /\ (FALSE \/ ~ents[i].active)
                             \/ /\ i \in DOMAIN entries /\ SameList(ents[i], entries[i])
                                /\ ents[i].active = entries[i].active
    BY <1>2, <1>4
  <2> QED
    BY <1>4, <1>6, <1>8, <2>1, <2>2, <1>0, SettleGives
<1> QED
  BY <1>1, <1>4, <1>7

LEMMA DisableSettles ==
  ASSUME TypeOK, Walks, NEW i \in Ids, NEW saved \in BOOLEAN, Disable(i, saved)
  PROVE  /\ SettledStep(i) /\ i \in DOMAIN entries /\ i \in DOMAIN entries'
         /\ SameFile(entries'[i], [entries[i] EXCEPT !.enabled = FALSE])
<1>1. i \in DOMAIN entries /\ Settle(Put(i, [entries[i] EXCEPT !.enabled = FALSE]), {}, i, FALSE)
      /\ UNCHANGED <<jobs, open, clockValid, local, minute, relay, held, thermo>>
  BY DEF Disable
<1> QED
  BY <1>1, FlagSettles

LEMMA EnableSettles ==
  ASSUME TypeOK, Walks, NEW i \in Ids, NEW saved \in BOOLEAN, Enable(i, saved)
  PROVE  /\ SettledStep(i) /\ i \in DOMAIN entries /\ i \in DOMAIN entries'
         /\ SameFile(entries'[i], [entries[i] EXCEPT !.enabled = TRUE])
<1>1. i \in DOMAIN entries /\ Settle(Put(i, [entries[i] EXCEPT !.enabled = TRUE]), {}, i, FALSE)
      /\ UNCHANGED <<jobs, open, clockValid, local, minute, relay, held, thermo>>
  BY DEF Enable, EnableNow
<1> QED
  BY <1>1, FlagSettles

LEMMA TakenOverSettles ==
  ASSUME TypeOK, Walks, NEW saved \in BOOLEAN, TakenOver(saved)
  PROVE  /\ SettledStep(Top.id) /\ Top.id \in DOMAIN entries /\ Top.id \in DOMAIN entries'
         /\ SameFile(entries'[Top.id], [entries[Top.id] EXCEPT !.enabled = TRUE])
<1>1. Top.id \in DOMAIN entries
  BY OnFacts, BelowFacts DEF TakenOver, Walks
<1>2. /\ Settle(Put(Top.id, [entries[Top.id] EXCEPT !.enabled = TRUE]), {}, Top.id, FALSE)
      /\ UNCHANGED <<jobs, open, clockValid, local, minute, relay, held, thermo>>
  BY DEF TakenOver, EnableNow
<1> QED
  BY <1>1, <1>2, FlagSettles
-----------------------------------------------------------------------------
(* Types *)

LEMMA ReturnedFacts ==
  ASSUME TypeOK
  PROVE  Returned \in Seq(Frame)
<1>1. CASE On("over")
  BY <1>1, OnFacts, BelowFacts DEF Returned
<1>2. CASE ~On("over")
  BY <1>2 DEF Returned, TypeOK
<1> QED
  BY <1>1, <1>2

LEMMA FileFacts ==
  ASSUME NEW e, EntryOK(e)
  PROVE  FileOf(e) \in File
BY DEF EntryOK, Entry, FileOf, File

LEMMA WriteTypes ==
  ASSUME TypeOK, NEW i \in Ids, NEW e, EntryOK(e)
  PROVE  /\ Write(i, e) => files' \in [Ids -> File] /\ unsaved' \subseteq Ids
         /\ \A saved \in BOOLEAN : SaveFlag(e, i, saved) => files' \in [Ids -> File] /\ unsaved' \subseteq Ids
<1>1. files \in [Ids -> File] /\ unsaved \subseteq Ids
  BY DEF TypeOK
<1>2. [files EXCEPT ![i] = FileOf(e)] \in [Ids -> File]
  BY <1>1, FileFacts
<1>3. unsaved \ {i} \subseteq Ids /\ unsaved \cup {i} \subseteq Ids
  BY <1>1
<1>4. Write(i, e) => files' \in [Ids -> File] /\ unsaved' \subseteq Ids
  BY <1>2, <1>3 DEF Write
<1>5. ASSUME NEW saved \in BOOLEAN, SaveFlag(e, i, saved)
      PROVE  files' \in [Ids -> File] /\ unsaved' \subseteq Ids
  BY <1>1, <1>2, <1>3, <1>5 DEF SaveFlag
<1> QED
  BY <1>4, <1>5

LEMMA SettledType ==
  ASSUME TypeOK, NEW i \in Ids, SettledStep(i), files' \in [Ids -> File], unsaved' \subseteq Ids,
         left' = left, i \in DOMAIN entries \/ left = {}
  PROVE  TypeOK'
<1>1. DOMAIN entries' \subseteq Ids /\ \A j \in DOMAIN entries' : EntryOK(entries'[j])
  BY DEF SettledStep
<1>2. left' \subseteq Ids \ DOMAIN entries'
  BY DEF SettledStep, TypeOK
<1>3. waits' \subseteq [id : Ids, run : Nat] /\ IsFiniteSet(waits')
  <2>1. waits' \in SUBSET waits
    BY DEF SettledStep
  <2> QED
    BY <2>1, FS_Subset DEF TypeOK
<1>4. stack' \in Seq(Frame)
  BY ReturnedFacts, StartsFacts, Pushed DEF SettledStep
<1>5. UNCHANGED <<jobs, open, clockValid, local, minute, relay, held, thermo>>
  BY DEF SettledStep
<1> QED
  BY <1>1, <1>2, <1>3, <1>4, <1>5 DEF TypeOK, EntryOK

LEMMA AddType ==
  ASSUME TypeOK, Walks, NEW i \in Ids, NEW d \in Docs, NEW enabled \in BOOLEAN, Add(i, d, enabled)
  PROVE  TypeOK'
<1>1. PICK e : e = NewEntry(i, d, enabled) /\ Write(i, e)
  BY DEF Add
<1>2. files' \in [Ids -> File] /\ unsaved' \subseteq Ids
  BY <1>1, NewEntryFacts, WriteTypes
<1> QED
  BY <1>2, AddSettles, SettledType DEF Add

LEMMA ReplaceType ==
  ASSUME TypeOK, Walks, NEW i \in Ids, NEW d \in Docs, NEW enabled \in BOOLEAN, Replace(i, d, enabled)
  PROVE  TypeOK'
<1>1. PICK c : c = Cancelled(i, entries[i])
  OBVIOUS
<1>2. EntryOK(c) /\ Stops(c, i)
  BY <1>1, CancelledFacts, TypeEntries DEF Replace
<1>3. PICK e : e = [c EXCEPT !.doc = d, !.enabled = enabled] /\ Write(i, e)
  BY <1>1 DEF Replace
<1>4. e \in Entry
  BY <1>2, <1>3 DEF EntryOK, Entry
<1>5. files' \in [Ids -> File] /\ unsaved' \subseteq Ids
  BY <1>3, <1>4 DEF Write, TypeOK, FileOf, File, Entry
<1> QED
  BY <1>5, ReplaceSettles, SettledType DEF Replace

LEMMA RemoveType ==
  ASSUME TypeOK, Walks, NEW i \in Ids, NEW file \in {NoFile, BadFile, files[i]}, Remove(i, file)
  PROVE  TypeOK'
<1>1. files' \in [Ids -> File] /\ unsaved' \subseteq Ids
  <2>1. file \in File
    BY DEF TypeOK, File
  <2>2. files' = [files EXCEPT ![i] = file] /\ unsaved' \subseteq unsaved \cup {i}
    BY DEF Remove
  <2> QED
    BY <2>1, <2>2 DEF TypeOK
<1> QED
  BY <1>1, RemoveSettles, SettledType DEF Remove

LEMMA RemoveNotLoadedType ==
  ASSUME TypeOK, NEW i \in Ids, NEW file \in {NoFile, BadFile}, RemoveNotLoaded(i, file)
  PROVE  TypeOK'
<1>1. files' \in [Ids -> File]
  BY DEF RemoveNotLoaded, TypeOK, File
<1>2. left' \subseteq left /\ UNCHANGED <<entries, waits, jobs, stack, open, clockValid, local, minute, relay,
                                          held, thermo, unsaved>>
  BY DEF RemoveNotLoaded
<1> QED
  BY <1>1, <1>2 DEF TypeOK

LEMMA FlagType ==
  ASSUME TypeOK, NEW i \in Ids, SettledStep(i), i \in DOMAIN entries, NEW b \in BOOLEAN, NEW saved \in BOOLEAN,
         NEW e, e = [entries[i] EXCEPT !.enabled = b], UNCHANGED left,
         SaveFlag(e, i, saved) \/ UNCHANGED <<files, unsaved>>
  PROVE  TypeOK'
<1>1. files' \in [Ids -> File] /\ unsaved' \subseteq Ids
  <2>1. EntryOK(e)
    BY FlagFacts
  <2> QED
    BY <2>1, WriteTypes DEF TypeOK
<1> QED
  BY <1>1, SettledType

LEMMA DisableType ==
  ASSUME TypeOK, Walks, NEW i \in Ids, NEW saved \in BOOLEAN, Disable(i, saved)
  PROVE  TypeOK'
<1>1. PICK e : e = [entries[i] EXCEPT !.enabled = FALSE]
  OBVIOUS
<1>2. SaveFlag(e, i, saved) \/ UNCHANGED <<files, unsaved>>
  BY <1>1 DEF Disable
<1> QED
  BY <1>1, <1>2, DisableSettles, FlagType DEF Disable

LEMMA EnableType ==
  ASSUME TypeOK, Walks, NEW i \in Ids, NEW saved \in BOOLEAN, Enable(i, saved)
  PROVE  TypeOK'
<1>1. PICK e : e = [entries[i] EXCEPT !.enabled = TRUE]
  OBVIOUS
<1>2. SaveFlag(e, i, saved) \/ UNCHANGED <<files, unsaved>>
  BY <1>1 DEF Enable, EnableNow
<1> QED
  BY <1>1, <1>2, EnableSettles, FlagType DEF Enable

LEMMA TakenOverType ==
  ASSUME TypeOK, Walks, NEW saved \in BOOLEAN, TakenOver(saved)
  PROVE  TypeOK'
<1>1. PICK e : e = [entries[Top.id] EXCEPT !.enabled = TRUE]
  OBVIOUS
<1>2. SaveFlag(e, Top.id, saved) \/ UNCHANGED <<files, unsaved>>
  BY <1>1 DEF TakenOver, EnableNow
<1>3. Top.id \in Ids /\ Top.id \in DOMAIN entries /\ SettledStep(Top.id)
  BY TakenOverSettles, TypeEntries
<1> QED
  BY <1>1, <1>2, <1>3, FlagType DEF TakenOver

(* Whoever a take-over disables is there, and the stack grows by one. *)
LEMMA TakeOverFacts ==
  ASSUME TypeOK, NEW i \in Ids, TakeOver(i)
  PROVE  /\ i \in DOMAIN entries
         /\ \E todo \in Seq(Ids) : /\ stack' = stack \o TakeOverOf(i, todo)
                                   /\ \A x \in DOMAIN todo : todo[x] \in DOMAIN entries
<1>1. PICK S \in SUBSET Ids : S = {j \in DOMAIN entries \ {i} : entries[j].enabled
                                                              /\ Sharing(entries[i].doc, entries[j].doc)}
  BY TypeEntries
<1>2. Sorted(S) \in Seq(Ids) /\ \A x \in DOMAIN Sorted(S) : Sorted(S)[x] \in S
  BY SortedFacts
<1>3. i \in DOMAIN entries /\ stack' = stack \o TakeOverOf(i, Sorted(S))
  BY <1>1 DEF TakeOver
<1> QED
  BY <1>1, <1>2, <1>3

LEMMA TakeOverType ==
  ASSUME TypeOK, NEW i \in Ids, TakeOver(i)
  PROVE  TypeOK'
<1>1. stack' \in Seq(Frame)
  <2>1. PICK todo \in Seq(Ids) : stack' = stack \o TakeOverOf(i, todo)
    BY TakeOverFacts
  <2>2. stack \in Seq(Frame) /\ TakeOverOf(i, todo) \in Seq(Frame)
    BY NewFrames DEF TypeOK
  <2> QED
    BY <2>1, <2>2, Pushed
<1> QED
  BY <1>1 DEF TakeOver, TypeOK

(* A list that stays in its place, though what it lost may change, its wait   *)
(* end or its schedule be disabled.                                           *)
Stays(j) ==
  /\ EntryOK(entries'[j]) /\ entries'[j].doc = entries[j].doc /\ entries'[j].newer = entries[j].newer
  /\ entries'[j].active = entries[j].active /\ entries'[j].mode = entries[j].mode
  /\ entries'[j].next = entries[j].next /\ entries'[j].run = entries[j].run
AllStay == DOMAIN entries' = DOMAIN entries /\ \A j \in DOMAIN entries : Stays(j)

LEMMA StopOtherFacts ==
  ASSUME TypeOK, Walks, NEW saved \in BOOLEAN, StopOther(saved)
  PROVE  /\ AllStay /\ Top.id \in DOMAIN entries /\ Top.todo # <<>> /\ Top.todo \in Seq(Ids)
         /\ \A x \in DOMAIN Top.todo : Top.todo[x] \in DOMAIN entries
         /\ \E j \in DOMAIN entries :
              /\ j = Head(Top.todo) /\ SaveFlag([entries[j] EXCEPT !.enabled = FALSE], j, saved)
              /\ entries'[j] = [entries[j] EXCEPT !.enabled = FALSE]
              /\ \A k \in DOMAIN entries : k # j => entries'[k] = entries[k]
         /\ \A j \in DOMAIN entries : SameList(entries'[j], entries[j])
         /\ stack' = Below \o TakeOverOf(Top.id, Tail(Top.todo)) /\ Tail(Top.todo) \in Seq(Ids)
         /\ \A x \in DOMAIN Tail(Top.todo) : Tail(Top.todo)[x] \in DOMAIN entries
<1>1. stack # <<>> /\ Top \in Frame /\ Top.kind = "over" /\ Top.todo # <<>>
  BY OnFacts DEF StopOther
<1>2. PICK top : top = Top
  OBVIOUS
<1>3. /\ top.id \in DOMAIN entries /\ top.todo \in Seq(Ids)
      /\ \A x \in DOMAIN top.todo : top.todo[x] \in DOMAIN entries
  BY <1>1, <1>2, BelowFacts, FrameFacts DEF Walks
<1>4. PICK todo \in Seq(Ids) : todo = top.todo /\ todo # <<>>
  BY <1>1, <1>2, <1>3
<1>5. /\ Head(todo) = todo[1] /\ 1 \in DOMAIN todo /\ Tail(todo) \in Seq(Ids)
      /\ \A x \in DOMAIN Tail(todo) : x + 1 \in DOMAIN todo /\ Tail(todo)[x] = todo[x + 1]
  BY <1>4
<1>6. PICK j \in DOMAIN entries : j = Head(todo)
  BY <1>3, <1>4, <1>5
<1>7. PICK e : e = [entries[j] EXCEPT !.enabled = FALSE]
  OBVIOUS
<1>8. /\ EntryOK(e) /\ SameList(e, entries[j]) /\ e.active = entries[j].active /\ e.newer = entries[j].newer
  BY <1>7, FlagFacts, TypeEntries
<1>9. entries' = Put(j, e) /\ SaveFlag(e, j, saved) /\ stack' = Below \o TakeOverOf(top.id, Tail(todo))
  BY <1>2, <1>4, <1>6, <1>7 DEF StopOther
<1>10. DOMAIN entries' = DOMAIN entries /\ entries'[j] = e
       /\ \A k \in DOMAIN entries : k # j => entries'[k] = entries[k]
  BY <1>9 DEF Put
<1>11. \A k \in DOMAIN entries : SameList(entries'[k], entries[k]) /\ Stays(k)
  BY <1>8, <1>10, TypeEntries DEF SameList, Stays
<1>12. todo = Top.todo /\ top.id = Top.id
  BY <1>2, <1>4
<1>13. AllStay
  BY <1>10, <1>11 DEF AllStay
<1>14. \E k \in DOMAIN entries :
         /\ k = Head(Top.todo) /\ SaveFlag([entries[k] EXCEPT !.enabled = FALSE], k, saved)
         /\ entries'[k] = [entries[k] EXCEPT !.enabled = FALSE]
         /\ \A l \in DOMAIN entries : l # k => entries'[l] = entries[l]
  <2>1. j = Head(Top.todo) /\ SaveFlag([entries[j] EXCEPT !.enabled = FALSE], j, saved)
    BY <1>6, <1>7, <1>9, <1>12
  <2>2. entries'[j] = [entries[j] EXCEPT !.enabled = FALSE]
    BY <1>7, <1>10
  <2>3. \A l \in DOMAIN entries : l # j => entries'[l] = entries[l]
    BY <1>10
  <2> QED
    BY <2>1, <2>2, <2>3, Zenon
<1>15. /\ Top.id \in DOMAIN entries /\ Top.todo # <<>> /\ Top.todo \in Seq(Ids)
       /\ \A x \in DOMAIN Top.todo : Top.todo[x] \in DOMAIN entries
  BY <1>3, <1>4, <1>12
<1>16. stack' = Below \o TakeOverOf(Top.id, Tail(Top.todo)) /\ Tail(Top.todo) \in Seq(Ids)
  BY <1>5, <1>9, <1>12
<1>17. \A x \in DOMAIN Tail(Top.todo) : Tail(Top.todo)[x] \in DOMAIN entries
  BY <1>5, <1>12, <1>15
<1> QED
  BY <1>11, <1>13, <1>14, <1>15, <1>16, <1>17

LEMMA StopOtherType ==
  ASSUME TypeOK, Walks, NEW saved \in BOOLEAN, StopOther(saved)
  PROVE  TypeOK'
<1>1. PICK j \in DOMAIN entries : SaveFlag([entries[j] EXCEPT !.enabled = FALSE], j, saved)
  BY StopOtherFacts
<1>2. PICK e : e = [entries[j] EXCEPT !.enabled = FALSE]
  OBVIOUS
<1>3. EntryOK(e) /\ j \in Ids /\ SaveFlag(e, j, saved)
  BY <1>1, <1>2, FlagFacts, TypeEntries
<1>4. files' \in [Ids -> File] /\ unsaved' \subseteq Ids
  BY <1>3, WriteTypes
<1>5. AllStay /\ stack' = Below \o TakeOverOf(Top.id, Tail(Top.todo)) /\ Tail(Top.todo) \in Seq(Ids)
      /\ Top.id \in Ids
  BY StopOtherFacts, TypeEntries
<1>6. stack' \in Seq(Frame)
  <2>1. Below \in Seq(Frame)
    BY BelowFacts, OnFacts DEF StopOther
  <2> QED
    <3>1. PICK t \in Seq(Frame) : t = TakeOverOf(Top.id, Tail(Top.todo))
      BY <1>5, NewFrames
    <3> QED
      BY <1>5, <2>1, <3>1, Pushed
<1>7. DOMAIN entries' \subseteq Ids /\ \A k \in DOMAIN entries' : EntryOK(entries'[k])
  BY <1>5, TypeEntries DEF AllStay, Stays
<1>8. UNCHANGED <<left, waits, jobs, open, clockValid, local, minute, relay, held, thermo>>
      /\ DOMAIN entries' = DOMAIN entries
  BY <1>5 DEF StopOther, AllStay
<1> QED
  BY <1>4, <1>6, <1>7, <1>8 DEF TypeOK, EntryOK
-----------------------------------------------------------------------------
(* Lists that begin *)

(* run_ on i: its list begins, and whatever wait it had is gone. *)
Begun(i, mode) ==
  /\ i \in DOMAIN entries /\ entries[i].active /\ DOMAIN entries' = DOMAIN entries
  /\ \A j \in DOMAIN entries : j # i => entries'[j] = entries[j]
  /\ EntryOK(entries'[i]) /\ SameFile(entries'[i], entries[i]) /\ entries'[i].active
  /\ entries'[i].mode = mode /\ entries'[i].next = 0 /\ ~entries'[i].waiting /\ entries'[i].run = NewRun(i)
  /\ waits' \subseteq waits /\ \A w \in waits \ waits' : w.id = i

LEMMA BeginFacts ==
  ASSUME TypeOK, NEW i \in DOMAIN entries, entries[i].active,
         NEW mode \in 1..Len(entries[i].doc.modes), NEW rest, Begin(i, mode, rest)
  PROVE  Begun(i, mode) /\ stack' = Below \o rest \o ListWalk(i, NewRun(i))
<1>1. PICK c : c = Cancelled(i, entries[i])
  OBVIOUS
<1>2. i \in Ids /\ EntryOK(c) /\ Stops(c, i) /\ SameFile(c, entries[i]) /\ c.active = entries[i].active
  BY <1>1, CancelledFacts, TypeEntries
<1>3. PICK e : e = [c EXCEPT !.mode = mode]
  OBVIOUS
<1>4. c \in Entry /\ c.doc = entries[i].doc
  BY <1>2 DEF EntryOK, SameFile
<1>5. Len(c.doc.modes) \in Nat /\ Len(c.doc.modes[mode]) \in Nat
  BY <1>4, DocFacts DEF Entry
<1>6. /\ e \in Entry /\ e.mode = mode /\ e.next = 0 /\ ~e.waiting /\ e.run = NewRun(i) /\ e.active
      /\ e.doc = c.doc /\ e.enabled = c.enabled /\ e.newer = c.newer
  <2>1. mode \in Nat
    BY <1>4, <1>5
  <2>2. /\ e \in Entry /\ e.mode = mode /\ e.next = c.next /\ e.waiting = c.waiting /\ e.run = c.run
        /\ e.active = c.active /\ e.doc = c.doc /\ e.enabled = c.enabled /\ e.newer = c.newer
    BY <1>3, <1>4, <2>1 DEF Entry
  <2> QED
    BY <1>2, <2>2 DEF Stops
<1>7. EntryOK(e) /\ SameFile(e, entries[i])
  BY <1>2, <1>4, <1>5, <1>6 DEF EntryOK, SameFile
<1>8. entries' = Put(i, e) /\ waits' = WaitsWithout({i}) /\ stack' = Below \o rest \o ListWalk(i, NewRun(i))
  BY <1>1, <1>3 DEF Begin
<1>9. DOMAIN entries' = DOMAIN entries /\ entries'[i] = e
      /\ \A j \in DOMAIN entries : j # i => entries'[j] = entries[j]
  BY <1>8 DEF Put
<1>10. waits' \subseteq waits /\ \A w \in waits \ waits' : w.id = i
  BY <1>8 DEF WaitsWithout
<1> QED
  BY <1>6, <1>7, <1>8, <1>9, <1>10 DEF Begun

(* One start or one point of a pass: i's list of the point in force begins on *)
(* top of what is left of the pass, or i is passed over.                      *)
LEMMA StartNextFacts ==
  ASSUME TypeOK, StartNext
  PROVE  /\ On("starts") /\ Top.todo \in Seq(Ids) /\ Top.todo # <<>> /\ Head(Top.todo) \in Ids
         /\ Tail(Top.todo) \in Seq(Ids)
         /\ LET i == Head(Top.todo)
                rest == Starts(Tail(Top.todo))
            IN \/ /\ clockValid /\ Begun(i, InForce(entries[i].doc, WeekMinuteOf(minute)))
                  /\ stack' = Below \o rest \o ListWalk(i, NewRun(i))
               \/ /\ ~(i \in DOMAIN entries /\ entries[i].active /\ clockValid)
                  /\ stack' = Below \o rest /\ UNCHANGED <<entries, waits>>
<1>1. On("starts") /\ Top.todo \in Seq(Ids) /\ Top.todo # <<>> /\ Head(Top.todo) \in Ids
  BY OnFacts, FrameFacts DEF StartNext
<1>2. Tail(Top.todo) \in Seq(Ids)
  BY <1>1
<1>3. PICK i, rest : i = Head(Top.todo) /\ rest = Starts(Tail(Top.todo))
  OBVIOUS
<1>4. CASE i \in DOMAIN entries /\ entries[i].active /\ clockValid
  <2>1. PICK mode : mode = InForce(entries[i].doc, WeekMinuteOf(minute))
    OBVIOUS
  <2>2. WeekMinuteOf(minute) \in Nat
    BY ScheduleAssumption DEF WeekMinuteOf, TypeOK
  <2>3. entries[i].doc \in Docs
    BY <1>4, TypeEntries DEF EntryOK, Entry
  <2>4. mode \in 1..Len(entries[i].doc.modes)
    BY <2>1, <2>2, <2>3, PointFacts
  <2>5. Begin(i, mode, rest)
    BY <1>3, <1>4, <2>1 DEF StartNext
  <2>6. Begun(i, mode) /\ stack' = Below \o rest \o ListWalk(i, NewRun(i))
    BY <1>4, <2>4, <2>5, BeginFacts
  <2> QED
    BY <1>1, <1>2, <1>3, <1>4, <2>1, <2>6
<1>5. CASE ~(i \in DOMAIN entries /\ entries[i].active /\ clockValid)
  BY <1>1, <1>2, <1>3, <1>5 DEF StartNext
<1> QED
  BY <1>4, <1>5

LEMMA RunNextPointFacts ==
  ASSUME TypeOK, RunNextPoint
  PROVE  /\ On("due") /\ Top.todo \in Seq(Ids \X Nat) /\ Top.todo # <<>> /\ Head(Top.todo) \in Ids \X Nat
         /\ Tail(Top.todo) \in Seq(Ids \X Nat)
         /\ LET i == Head(Top.todo)[1]
                mode == Head(Top.todo)[2]
                rest == Due(Tail(Top.todo))
            IN \/ Begun(i, mode) /\ stack' = Below \o rest \o ListWalk(i, NewRun(i))
               \/ /\ ~(i \in DOMAIN entries /\ entries[i].active /\ mode \in DOMAIN entries[i].doc.modes)
                  /\ stack' = Below \o rest /\ UNCHANGED <<entries, waits>>
<1>1. On("due") /\ Top.todo \in Seq(Ids \X Nat) /\ Top.todo # <<>> /\ Head(Top.todo) \in Ids \X Nat
  BY OnFacts, FrameFacts DEF RunNextPoint
<1>2. Tail(Top.todo) \in Seq(Ids \X Nat)
  BY <1>1
<1>3. PICK i, mode, rest : i = Head(Top.todo)[1] /\ mode = Head(Top.todo)[2] /\ rest = Due(Tail(Top.todo))
  OBVIOUS
<1>4. CASE i \in DOMAIN entries /\ entries[i].active /\ mode \in DOMAIN entries[i].doc.modes
  <2>1. entries[i].doc \in Docs
    BY <1>4, TypeEntries DEF EntryOK, Entry
  <2>2. mode \in 1..Len(entries[i].doc.modes)
    BY <1>4, <2>1, DocFacts
  <2>3. Begin(i, mode, rest)
    BY <1>3, <1>4 DEF RunNextPoint
  <2>4. Begun(i, mode) /\ stack' = Below \o rest \o ListWalk(i, NewRun(i))
    BY <1>4, <2>2, <2>3, BeginFacts
  <2> QED
    BY <1>1, <1>2, <1>3, <2>4
<1>5. CASE ~(i \in DOMAIN entries /\ entries[i].active /\ mode \in DOMAIN entries[i].doc.modes)
  BY <1>1, <1>2, <1>3, <1>5 DEF RunNextPoint
<1> QED
  BY <1>4, <1>5

(* What both leave on the stack. *)
PassLeaves(rest) ==
  /\ rest \in Seq(Frame) /\ Len(rest) \in {0, 1}
  /\ \/ stack' = Below \o rest /\ UNCHANGED <<entries, waits>>
     \/ \E i \in DOMAIN entries : \E mode : /\ Begun(i, mode)
                                            /\ stack' = Below \o rest \o ListWalk(i, NewRun(i))

LEMMA StartNextLeaves ==
  ASSUME TypeOK, StartNext
  PROVE  PassLeaves(Starts(Tail(Top.todo)))
BY StartNextFacts, StartsFacts DEF PassLeaves, Begun

LEMMA RunNextPointLeaves ==
  ASSUME TypeOK, RunNextPoint
  PROVE  PassLeaves(Due(Tail(Top.todo)))
BY RunNextPointFacts, DueFacts DEF PassLeaves, Begun

LEMMA PassStack ==
  ASSUME TypeOK, stack # <<>>, NEW rest, PassLeaves(rest)
  PROVE  stack' \in Seq(Frame)
<1>1. Below \in Seq(Frame) /\ rest \in Seq(Frame)
  BY BelowFacts DEF PassLeaves
<1>2. PICK b \in Seq(Frame) : b = Below \o rest
  BY <1>1, Pushed
<1>3. CASE stack' = Below \o rest
  BY <1>2, <1>3
<1>4. ASSUME NEW i \in DOMAIN entries, stack' = Below \o rest \o ListWalk(i, NewRun(i))
      PROVE  stack' \in Seq(Frame)
  <2>1. i \in Ids /\ NewRun(i) \in Nat
    BY NewRunFacts, TypeEntries
  <2>2. PICK l \in Seq(Frame) : l = ListWalk(i, NewRun(i))
    BY <2>1, NewFrames
  <2> QED
    BY <1>2, <1>4, <2>2, Pushed
<1> QED
  BY <1>3, <1>4 DEF PassLeaves

LEMMA PassType ==
  ASSUME TypeOK, stack # <<>>, NEW rest, PassLeaves(rest), open' = FALSE,
         UNCHANGED <<files, left, jobs, clockValid, local, minute, relay, held, thermo, unsaved>>
  PROVE  TypeOK'
<1>1. stack' \in Seq(Frame)
  BY PassStack
<1>2. CASE UNCHANGED <<entries, waits>>
  BY <1>1, <1>2 DEF TypeOK
<1>3. ASSUME NEW i \in DOMAIN entries, NEW mode, Begun(i, mode)
      PROVE  TypeOK'
  <2>1. DOMAIN entries' = DOMAIN entries /\ \A j \in DOMAIN entries' : EntryOK(entries'[j])
    BY <1>3, TypeEntries DEF Begun
  <2>2. waits' \in SUBSET waits
    BY <1>3 DEF Begun
  <2>3. IsFiniteSet(waits') /\ waits' \subseteq [id : Ids, run : Nat]
    BY <2>2, FS_Subset DEF TypeOK
  <2> QED
    BY <1>1, <2>1, <2>3 DEF TypeOK, EntryOK
<1> QED
  BY <1>2, <1>3 DEF PassLeaves

LEMMA StartNextType ==
  ASSUME TypeOK, StartNext
  PROVE  TypeOK'
BY StartNextLeaves, PassType DEF StartNext, On, Quiet

LEMMA RunNextPointType ==
  ASSUME TypeOK, RunNextPoint
  PROVE  TypeOK'
BY RunNextPointLeaves, PassType DEF RunNextPoint, On, Quiet
-----------------------------------------------------------------------------
(* Actions and jobs *)

LEMMA NoThermostatFacts == NoThermostat \notin Thermostat /\ NoThermostat.mode = "gone"
BY DEF NoThermostat, Thermostat

LEMMA EffectFacts ==
  ASSUME NEW t \in Thermostat, NEW a, a.value \in {"on", "off", "target", "preset"}
  PROVE  /\ Effect(t, a) \in Thermostat /\ Effect(t, a).preset = t.preset
         /\ Effect(Effect(t, a), a) = Effect(t, a)
         /\ \A r \in Refusal(t, a) : r \in Thermostat
<1>1. PICK off : off = [t EXCEPT !.mode = "off"]
  OBVIOUS
<1>2. PICK on : on = [t EXCEPT !.mode = "on"]
  OBVIOUS
<1>3. PICK set : set = [t EXCEPT !.mode = "on", !.value = a.value]
  OBVIOUS
<1>4. off \in Thermostat /\ off.preset = t.preset /\ [off EXCEPT !.mode = "off"] = off
  BY <1>1 DEF Thermostat
<1>5. on \in Thermostat /\ on.preset = t.preset /\ [on EXCEPT !.mode = "on"] = on
  BY <1>2 DEF Thermostat
<1>6. CASE a.value = "off"
  BY <1>1, <1>4, <1>6 DEF Effect, Refusal
<1>7. CASE a.value = "on"
  BY <1>2, <1>5, <1>7 DEF Effect, Refusal
<1>8. CASE a.value \in {"target", "preset"}
  <2>1. set \in Thermostat /\ set.preset = t.preset /\ [set EXCEPT !.mode = "on", !.value = a.value] = set
    BY <1>3, <1>8 DEF Thermostat
  <2>2. Effect(t, a) = set /\ Effect(set, a) = [set EXCEPT !.mode = "on", !.value = a.value]
    BY <1>3, <1>8 DEF Effect
  <2>3. \A r \in Refusal(t, a) : r \in Thermostat
    BY <1>2, <1>5 DEF Refusal
  <2> QED
    BY <2>1, <2>2, <2>3
<1> QED
  BY <1>6, <1>7, <1>8

(* The thermostat is, from then on, as the action sets it. *)
SetBy(a) == /\ thermo'[a.target] # NoThermostat /\ (a.value = "preset" => thermo'[a.target].preset)
            /\ Effect(thermo'[a.target], a) = thermo'[a.target]

(* The thermostat, and the entry, that an action leaves. *)
LEMMA ApplyThermostatFacts ==
  ASSUME TypeOK, NEW i \in Ids, NEW e, EntryOK(e), NEW k \in 1..Len(List(e)), k \in Nat,
         List(e)[k].type = "thermostat", NEW f, f = [e EXCEPT !.lost = @ \cup {k}],
         ApplyThermostat(i, e, k)
  PROVE  LET a == List(e)[k]
         IN /\ thermo' \in [Thermostats -> Thermostat \cup {NoThermostat}]
            /\ \A t \in Thermostats : t # a.target => thermo'[t] = thermo[t]
            /\ EntryOK(f) /\ f.doc = e.doc /\ f.newer = e.newer /\ f.active = e.active /\ f.mode = e.mode
            /\ f.next = e.next /\ f.run = e.run /\ f.waiting = e.waiting /\ f.enabled = e.enabled
            /\ f.lost = e.lost \cup {k}
            /\ \/ entries' = Put(i, f)
               \/ /\ entries' = Put(i, e) /\ SetBy(a)
<1>1. PICK a \in Actions : a = List(e)[k]
  BY ListFacts
<1>2. a.target \in Thermostats /\ a.value \in {"on", "off", "target", "preset"} /\ a.type = "thermostat"
  BY <1>1, ActionFacts
<1>3. e \in Entry
  BY DEF EntryOK
<1>4. /\ f \in Entry /\ f.doc = e.doc /\ f.newer = e.newer /\ f.active = e.active /\ f.mode = e.mode
      /\ f.next = e.next /\ f.run = e.run /\ f.waiting = e.waiting /\ f.enabled = e.enabled
      /\ f.lost = e.lost \cup {k}
  BY <1>3 DEF Entry
<1>5. EntryOK(f)
  BY <1>4 DEF EntryOK
<1>6. PICK t : t = thermo[a.target]
  OBVIOUS
<1>7. Ready(a) => t \in Thermostat
  BY <1>2, <1>6 DEF Ready, TypeOK
<1>8. CASE Ready(a) /\ thermo' = [thermo EXCEPT ![a.target] = Effect(t, a)] /\ entries' = Put(i, e)
  <2>1. PICK u \in Thermostat : u = Effect(t, a) /\ Effect(u, a) = u /\ u.preset = t.preset
    BY <1>2, <1>7, <1>8, EffectFacts
  <2>2. thermo' \in [Thermostats -> Thermostat \cup {NoThermostat}] /\ thermo'[a.target] = u
        /\ \A x \in Thermostats : x # a.target => thermo'[x] = thermo[x]
    BY <1>2, <1>8, <2>1 DEF TypeOK
  <2>3. SetBy(a)
    BY <1>6, <1>8, <2>1, <2>2, NoThermostatFacts DEF Ready, SetBy
  <2> QED
    BY <1>1, <1>4, <1>5, <1>8, <2>1, <2>2, <2>3
<1>9. ASSUME Ready(a), NEW r \in Refusal(t, a), thermo' = [thermo EXCEPT ![a.target] = r], entries' = Put(i, f)
      PROVE  /\ thermo' \in [Thermostats -> Thermostat \cup {NoThermostat}]
             /\ \A x \in Thermostats : x # a.target => thermo'[x] = thermo[x]
  <2>1. r \in Thermostat
    BY <1>2, <1>7, <1>9, EffectFacts
  <2> QED
    BY <1>2, <1>9, <2>1 DEF TypeOK
<1>10. CASE entries' = Put(i, f) /\ UNCHANGED thermo
  BY <1>1, <1>4, <1>5, <1>10 DEF TypeOK
<1>11. \/ Ready(a) /\ thermo' = [thermo EXCEPT ![a.target] = Effect(t, a)] /\ entries' = Put(i, e)
       \/ Ready(a) /\ entries' = Put(i, f) /\ \E r \in Refusal(t, a) : thermo' = [thermo EXCEPT ![a.target] = r]
       \/ entries' = Put(i, f) /\ UNCHANGED thermo
  BY <1>1, <1>6 DEF ApplyThermostat
<1> QED
  BY <1>1, <1>4, <1>5, <1>8, <1>9, <1>10, <1>11

(* advance_ takes one action of i's list. *)
Advanced(i) ==
  /\ On("list") /\ Top.id = i /\ Runs(i, Top.run) /\ DOMAIN entries' = DOMAIN entries
  /\ \A j \in DOMAIN entries : j # i => entries'[j] = entries[j]
  /\ EntryOK(entries'[i]) /\ SameFile(entries'[i], entries[i]) /\ entries'[i].active
  /\ entries'[i].mode = entries[i].mode /\ entries'[i].run = entries[i].run
  /\ entries'[i].next = entries[i].next + 1 /\ List(entries'[i]) = List(entries[i])
  /\ entries'[i].next \in 1..Len(List(entries'[i]))
Taken(i) == List(entries[i])[entries[i].next + 1]

AdvanceWaits(i) ==
  /\ Taken(i).type = "wait" /\ entries'[i].waiting /\ entries'[i].lost = entries[i].lost
  /\ waits' = waits \cup {[id |-> i, run |-> entries[i].run]}
  /\ stack' = Below /\ open' = FALSE /\ UNCHANGED <<relay, thermo>>
AdvanceRelay(i) ==
  /\ Taken(i).type = "relay" /\ entries'[i].waiting = entries[i].waiting /\ entries'[i].lost = entries[i].lost
  /\ ApplyRelay(Taken(i)) /\ open' = Written(Taken(i)) /\ UNCHANGED <<waits, stack, thermo>>
AdvanceThermostat(i) ==
  LET a == Taken(i) IN
  /\ a.type = "thermostat" /\ entries'[i].waiting = entries[i].waiting
  /\ open' = FALSE /\ UNCHANGED <<waits, stack, relay>>
  /\ thermo' \in [Thermostats -> Thermostat \cup {NoThermostat}]
  /\ \A t \in Thermostats : t # a.target => thermo'[t] = thermo[t]
  /\ \/ entries'[i].lost = entries[i].lost \cup {entries'[i].next}
     \/ /\ entries'[i].lost = entries[i].lost
        /\ SetBy(a)

LEMMA AdvanceFacts ==
  ASSUME TypeOK, Advance
  PROVE  \E i \in DOMAIN entries : /\ Advanced(i)
                                   /\ AdvanceWaits(i) \/ AdvanceRelay(i) \/ AdvanceThermostat(i)
<1>1. PICK i \in DOMAIN entries : /\ i = Top.id /\ On("list") /\ Runs(i, Top.run)
                                  /\ entries[i].next < Len(List(entries[i]))
  BY DEF Advance, Runs
<1>2. i \in Ids /\ EntryOK(entries[i]) /\ entries[i] \in Entry /\ entries[i].run = Top.run /\ entries[i].active
      /\ entries[i].next \in Nat /\ entries[i].mode # 0
  BY <1>1, TypeEntries DEF EntryOK, Entry, Runs
<1>3. PICK k \in Nat : k = entries[i].next + 1
  BY <1>2
<1>4. PICK e : e = [entries[i] EXCEPT !.next = k]
  OBVIOUS
<1>5. /\ e \in Entry /\ e.next = k /\ e.doc = entries[i].doc /\ e.enabled = entries[i].enabled
      /\ e.newer = entries[i].newer /\ e.active = entries[i].active /\ e.mode = entries[i].mode
      /\ e.waiting = entries[i].waiting /\ e.run = entries[i].run /\ e.lost = entries[i].lost
  BY <1>2, <1>4 DEF Entry
<1>6. List(e) = List(entries[i]) /\ Len(List(e)) \in Nat
  BY <1>2, <1>5, ListFacts DEF List
<1>7. k \in 1..Len(List(e))
  <2>1. Len(List(entries[i])) = Len(List(e)) /\ entries[i].next < Len(List(e)) /\ entries[i].next \in Nat
    BY <1>1, <1>2, <1>6
  <2> QED
    BY <1>3, <1>6, <2>1
<1>8. EntryOK(e)
  BY <1>2, <1>5, <1>7 DEF EntryOK, List
<1>9. PICK a \in Actions : a = List(e)[k]
  BY <1>7, <1>8, ListFacts
<1>10. \/ /\ a.type = "wait" /\ entries' = Put(i, [e EXCEPT !.waiting = TRUE])
          /\ waits' = waits \cup {[id |-> i, run |-> Top.run]}
          /\ stack' = Below /\ open' = FALSE /\ UNCHANGED <<relay, thermo>>
       \/ /\ a.type = "relay" /\ ApplyRelay(a) /\ entries' = Put(i, e)
          /\ open' = Written(a) /\ UNCHANGED <<waits, stack, thermo>>
       \/ /\ a.type = "thermostat" /\ ApplyThermostat(i, e, k) /\ open' = FALSE
          /\ UNCHANGED <<waits, stack, relay>>
  BY <1>1, <1>3, <1>4, <1>9 DEF Advance
<1>11. ASSUME NEW g, g \in Entry, entries' = Put(i, g), EntryOK(g), g.next = k, g.doc = e.doc, g.enabled = e.enabled,
              g.newer = e.newer, g.active = e.active, g.mode = e.mode, g.run = e.run
       PROVE  Advanced(i) /\ entries'[i] = g /\ Taken(i) = a
  <2>1. DOMAIN entries' = DOMAIN entries /\ entries'[i] = g
        /\ \A j \in DOMAIN entries : j # i => entries'[j] = entries[j]
    BY <1>11 DEF Put
  <2>2. List(g) = List(e)
    BY <1>11 DEF List
  <2>3. EntryOK(entries'[i]) /\ SameFile(entries'[i], entries[i]) /\ entries'[i].active
    BY <1>2, <1>5, <1>11, <2>1 DEF SameFile
  <2>4. /\ entries'[i].mode = entries[i].mode /\ entries'[i].run = entries[i].run
        /\ entries'[i].next = entries[i].next + 1 /\ List(entries'[i]) = List(entries[i])
        /\ entries'[i].next \in 1..Len(List(entries'[i]))
    BY <1>3, <1>5, <1>6, <1>7, <1>11, <2>1, <2>2
  <2>5. Taken(i) = a
    BY <1>3, <1>6, <1>9 DEF Taken
  <2> QED
    BY <1>1, <2>1, <2>3, <2>4, <2>5 DEF Advanced
<1>12. CASE /\ a.type = "wait" /\ entries' = Put(i, [e EXCEPT !.waiting = TRUE])
            /\ waits' = waits \cup {[id |-> i, run |-> Top.run]}
            /\ stack' = Below /\ open' = FALSE /\ UNCHANGED <<relay, thermo>>
  <2>1. PICK g : g = [e EXCEPT !.waiting = TRUE]
    OBVIOUS
  <2>2. /\ g \in Entry /\ g.next = k /\ g.doc = e.doc /\ g.enabled = e.enabled /\ g.newer = e.newer
        /\ g.active = e.active /\ g.mode = e.mode /\ g.run = e.run /\ g.waiting /\ g.lost = e.lost
    BY <1>5, <2>1 DEF Entry
  <2>3. EntryOK(g)
    BY <1>8, <2>2, <1>5 DEF EntryOK
  <2>4. Advanced(i) /\ entries'[i] = g /\ Taken(i) = a
    BY <1>11, <1>12, <2>1, <2>2, <2>3
  <2> QED
    BY <1>2, <1>5, <1>12, <2>2, <2>4 DEF AdvanceWaits
<1>13. CASE /\ a.type = "relay" /\ ApplyRelay(a) /\ entries' = Put(i, e)
            /\ open' = Written(a) /\ UNCHANGED <<waits, stack, thermo>>
  <2>1. Advanced(i) /\ entries'[i] = e /\ Taken(i) = a
    BY <1>5, <1>8, <1>11, <1>13
  <2> QED
    BY <1>5, <1>13, <2>1 DEF AdvanceRelay
<1>14. CASE /\ a.type = "thermostat" /\ ApplyThermostat(i, e, k) /\ open' = FALSE
            /\ UNCHANGED <<waits, stack, relay>>
  <2>1. PICK f : f = [e EXCEPT !.lost = @ \cup {k}]
    OBVIOUS
  <2>2. /\ thermo' \in [Thermostats -> Thermostat \cup {NoThermostat}]
        /\ \A t \in Thermostats : t # a.target => thermo'[t] = thermo[t]
        /\ EntryOK(f) /\ f.doc = e.doc /\ f.newer = e.newer /\ f.active = e.active /\ f.mode = e.mode
        /\ f.next = e.next /\ f.run = e.run /\ f.waiting = e.waiting /\ f.enabled = e.enabled
        /\ f.lost = e.lost \cup {k}
        /\ \/ entries' = Put(i, f)
           \/ /\ entries' = Put(i, e) /\ SetBy(a)
    BY <1>2, <1>7, <1>8, <1>9, <1>14, <2>1, ApplyThermostatFacts
  <2>3. CASE entries' = Put(i, f)
    <3>1. f \in Entry
      BY <2>2 DEF EntryOK
    <3>2. Advanced(i) /\ entries'[i] = f /\ Taken(i) = a
      BY <1>5, <1>11, <2>2, <2>3, <3>1
    <3> QED
      BY <1>5, <1>14, <2>2, <3>2 DEF AdvanceThermostat
  <2>4. CASE entries' = Put(i, e) /\ SetBy(a)
    <3>1. Advanced(i) /\ entries'[i] = e /\ Taken(i) = a
      BY <1>5, <1>8, <1>11, <2>4
    <3> QED
      BY <1>5, <1>14, <2>2, <2>4, <3>1 DEF AdvanceThermostat
  <2> QED
    BY <2>2, <2>3, <2>4
<1> QED
  BY <1>10, <1>12, <1>13, <1>14

LEMMA ApplyRelayFacts ==
  ASSUME TypeOK, NEW a \in Actions, a.type = "relay", ApplyRelay(a)
  PROVE  /\ relay' \in Values
         /\ a.target \in Switches \ held => relay'[a.target] = a.value
         /\ \A r \in Switches : r # a.target => relay'[r] = relay[r]
<1>1. a.target \in Relays /\ a.value \in {"on", "off"} /\ relay \in [Relays -> {"on", "off"}]
  BY ActionFacts DEF TypeOK, Values
<1>2. Switches \subseteq Relays
  BY ScheduleAssumption
<1> QED
  BY <1>1, <1>2 DEF ApplyRelay, Values

LEMMA AdvanceType ==
  ASSUME TypeOK, Advance
  PROVE  TypeOK'
<1>1. PICK i \in DOMAIN entries : Advanced(i) /\ (AdvanceWaits(i) \/ AdvanceRelay(i) \/ AdvanceThermostat(i))
  BY AdvanceFacts
<1>2. DOMAIN entries' = DOMAIN entries /\ \A j \in DOMAIN entries' : EntryOK(entries'[j])
  BY <1>1, TypeEntries DEF Advanced
<1>3. UNCHANGED <<files, left, jobs, clockValid, local, minute, held, unsaved>>
  BY DEF Advance
<1>4. Below \in Seq(Frame) /\ stack \in Seq(Frame)
  BY <1>1, OnFacts, BelowFacts DEF Advanced, TypeOK
<1>5. Taken(i) \in Actions
  BY <1>1, <1>2, ListFacts DEF Advanced, Taken
<1>6. CASE AdvanceWaits(i)
  <2>1. i \in Ids /\ entries[i].run \in Nat
    BY TypeEntries DEF EntryOK, Entry
  <2>2. waits' = waits \cup {[id |-> i, run |-> entries[i].run]} /\ stack' = Below /\ open' = FALSE
        /\ UNCHANGED <<relay, thermo>>
    BY <1>6 DEF AdvanceWaits
  <2>3. waits' \subseteq [id : Ids, run : Nat] /\ IsFiniteSet(waits')
    <3>1. PICK w : w = [id |-> i, run |-> entries[i].run]
      OBVIOUS
    <3>2. IsFiniteSet(waits) /\ waits \subseteq [id : Ids, run : Nat] /\ w \in [id : Ids, run : Nat]
      BY <2>1, <3>1 DEF TypeOK
    <3>3. IsFiniteSet(waits \cup {w})
      BY <3>2, FS_AddElement
    <3> QED
      BY <2>2, <3>1, <3>2, <3>3
  <2> QED
    BY <1>2, <1>3, <1>4, <2>2, <2>3 DEF TypeOK, EntryOK
<1>7. CASE AdvanceRelay(i)
  <2>1. open' \in BOOLEAN /\ UNCHANGED <<waits, stack, thermo>>
    BY <1>7 DEF AdvanceRelay, Written
  <2>2. relay' \in Values
    BY <1>5, <1>7, ApplyRelayFacts DEF AdvanceRelay
  <2> QED
    BY <1>2, <1>3, <2>1, <2>2 DEF TypeOK, EntryOK
<1>8. CASE AdvanceThermostat(i)
  <2>1. open' = FALSE /\ UNCHANGED <<waits, stack, relay>> /\ thermo' \in [Thermostats -> Thermostat \cup {NoThermostat}]
    BY <1>8 DEF AdvanceThermostat
  <2> QED
    BY <1>2, <1>3, <2>1 DEF TypeOK, EntryOK
<1> QED
  BY <1>1, <1>6, <1>7, <1>8

LEMMA EndWalkType ==
  ASSUME TypeOK, EndWalk
  PROVE  TypeOK'
<1>1. stack' \in Seq(Frame)
  BY OnFacts, BelowFacts DEF EndWalk
<1> QED
  BY <1>1 DEF EndWalk, TypeOK

(* The wait is over: its list, if it is the one that runs, goes on. *)
WaitEnded(w) ==
  /\ waits' = waits \ {w} /\ AllStay
  /\ \A j \in DOMAIN entries : j # w.id => entries'[j] = entries[j]
  /\ \/ /\ w.id \in DOMAIN entries /\ entries[w.id].run = w.run /\ ~entries'[w.id].waiting
        /\ SameFile(entries'[w.id], entries[w.id]) /\ entries'[w.id].lost = entries[w.id].lost
        /\ stack' = ListWalk(w.id, w.run)
     \/ /\ ~(w.id \in DOMAIN entries /\ entries[w.id].run = w.run) /\ UNCHANGED <<entries, stack>>

LEMMA WaitEndsFacts ==
  ASSUME TypeOK, NEW w \in waits, WaitEnds(w)
  PROVE  WaitEnded(w)
<1>0. waits' = waits \ {w}
  BY DEF WaitEnds
<1>1. CASE w.id \in DOMAIN entries /\ entries[w.id].run = w.run
  <2>1. PICK i \in DOMAIN entries : i = w.id
    BY <1>1
  <2>2. PICK e : e = [entries[i] EXCEPT !.waiting = FALSE]
    OBVIOUS
  <2>3. entries[i] \in Entry /\ EntryOK(entries[i])
    BY TypeEntries DEF EntryOK
  <2>4. /\ e \in Entry /\ e.doc = entries[i].doc /\ e.enabled = entries[i].enabled /\ e.newer = entries[i].newer
        /\ e.active = entries[i].active /\ e.mode = entries[i].mode /\ e.next = entries[i].next
        /\ e.run = entries[i].run /\ e.lost = entries[i].lost /\ ~e.waiting
    BY <2>2, <2>3 DEF Entry
  <2>5. EntryOK(e)
    BY <2>3, <2>4 DEF EntryOK
  <2>6. entries' = Put(i, e) /\ stack' = ListWalk(i, w.run)
    BY <1>1, <2>1, <2>2 DEF WaitEnds
  <2>7. DOMAIN entries' = DOMAIN entries /\ entries'[i] = e
        /\ \A j \in DOMAIN entries : j # i => entries'[j] = entries[j]
    BY <2>6 DEF Put
  <2>8. AllStay
    BY <2>4, <2>5, <2>7, TypeEntries DEF AllStay, Stays
  <2> QED
    BY <1>0, <1>1, <2>1, <2>4, <2>6, <2>7, <2>8 DEF WaitEnded, SameFile
<1>2. CASE ~(w.id \in DOMAIN entries /\ entries[w.id].run = w.run)
  <2>1. UNCHANGED <<entries, stack>>
    BY <1>2 DEF WaitEnds
  <2>2. AllStay
    BY <2>1, TypeEntries DEF AllStay, Stays
  <2> QED
    BY <1>0, <1>2, <2>1, <2>2 DEF WaitEnded
<1> QED
  BY <1>1, <1>2

LEMMA WaitEndsType ==
  ASSUME TypeOK, NEW w \in waits, WaitEnds(w)
  PROVE  TypeOK'
<1>1. WaitEnded(w)
  BY WaitEndsFacts
<1>2. DOMAIN entries' = DOMAIN entries /\ \A j \in DOMAIN entries' : EntryOK(entries'[j])
  BY <1>1 DEF WaitEnded, AllStay, Stays
<1>3. waits' \subseteq [id : Ids, run : Nat] /\ IsFiniteSet(waits')
  <2>1. waits' \in SUBSET waits
    BY <1>1 DEF WaitEnded
  <2> QED
    BY <2>1, FS_Subset DEF TypeOK
<1>4. stack' \in Seq(Frame)
  <2>1. w.id \in Ids /\ w.run \in Nat /\ stack \in Seq(Frame)
    BY DEF TypeOK
  <2>2. ListWalk(w.id, w.run) \in Seq(Frame)
    BY <2>1, NewFrames
  <2> QED
    BY <1>1, <2>1, <2>2 DEF WaitEnded
<1> QED
  BY <1>2, <1>3, <1>4 DEF TypeOK, EntryOK, WaitEnds
-----------------------------------------------------------------------------
(* What the loop is to do, the relays and the thermostats *)

JobSet == [kind : {"follow"}, id : Ids, run : Nat, target : Switches]
     \cup [kind : {"reapply"}, id : Ids, run : Nat, target : Thermostats]

(* A job for each of ids, and only for them. *)
LEMMA JobsForFacts ==
  ASSUME TypeOK, NEW S \in SUBSET DOMAIN entries, NEW kind, NEW g,
         (kind = "follow" /\ g \in Switches) \/ (kind = "reapply" /\ g \in Thermostats)
  PROVE  /\ JobsFor(kind, S, g) \in Seq(JobSet)
         /\ \A i \in S : \E k \in DOMAIN JobsFor(kind, S, g) : JobsFor(kind, S, g)[k] = Job(kind, i, g)
         /\ \A k \in DOMAIN JobsFor(kind, S, g) : \E i \in S : JobsFor(kind, S, g)[k] = Job(kind, i, g)
<1>1. S \in SUBSET Ids
  BY TypeEntries
<1>2. PICK s \in Seq(S) : s = Sorted(S) /\ Len(s) = Cardinality(S) /\ \A i \in S : \E k \in DOMAIN s : s[k] = i
  <2>1. Sorted(S) \in Seq(S) /\ Len(Sorted(S)) = Cardinality(S)
        /\ \A i \in S : \E k \in DOMAIN Sorted(S) : Sorted(S)[k] = i
    BY <1>1, SortedFacts
  <2> QED
    BY <2>1
<1>3. PICK n \in Nat : n = Cardinality(S) /\ DOMAIN s = 1..n /\ \A k \in 1..n : s[k] \in S
  BY <1>2
<1>4. JobsFor(kind, S, g) = [k \in 1..n |-> Job(kind, s[k], g)]
  BY <1>2, <1>3 DEF JobsFor
<1>5. \A i \in S : Job(kind, i, g) \in JobSet
  <2>1. ASSUME NEW i \in S
        PROVE  Job(kind, i, g) \in JobSet
    <3>1. i \in Ids /\ entries[i].run \in Nat
      BY TypeEntries DEF EntryOK, Entry
    <3> QED
      BY <3>1 DEF Job, JobSet
  <2> QED
    BY <2>1
<1>6. JobsFor(kind, S, g) \in [1..n -> JobSet]
  BY <1>3, <1>4, <1>5
<1>7. JobsFor(kind, S, g) \in Seq(JobSet) /\ DOMAIN JobsFor(kind, S, g) = 1..n
  BY <1>6
<1> QED
  BY <1>2, <1>3, <1>4, <1>7

LEMMA JobsAppended ==
  ASSUME TypeOK, NEW more \in Seq(JobSet)
  PROVE  /\ jobs \o more \in Seq(JobSet)
         /\ \A k \in DOMAIN jobs : \E l \in DOMAIN (jobs \o more) : (jobs \o more)[l] = jobs[k]
         /\ \A k \in DOMAIN more : \E l \in DOMAIN (jobs \o more) : (jobs \o more)[l] = more[k]
         /\ \A l \in DOMAIN (jobs \o more) : \/ \E k \in DOMAIN jobs : (jobs \o more)[l] = jobs[k]
                                             \/ \E k \in DOMAIN more : (jobs \o more)[l] = more[k]
<1>1. jobs \in Seq(JobSet)
  BY DEF TypeOK, JobSet
<1>2. PICK all : all = jobs \o more
  OBVIOUS
<1>3. /\ all \in Seq(JobSet) /\ DOMAIN all = 1..(Len(jobs) + Len(more))
      /\ \A k \in DOMAIN jobs : k \in DOMAIN all /\ all[k] = jobs[k]
      /\ \A k \in DOMAIN more : Len(jobs) + k \in DOMAIN all /\ all[Len(jobs) + k] = more[k]
      /\ \A k \in DOMAIN all : \/ k \in DOMAIN jobs /\ all[k] = jobs[k]
                               \/ k - Len(jobs) \in DOMAIN more /\ all[k] = more[k - Len(jobs)]
  BY <1>1, <1>2
<1> QED
  BY <1>2, <1>3

LEMMA HoldType ==
  ASSUME TypeOK, NEW r \in Switches, NEW value \in {"on", "off"}, Hold(r, value)
  PROVE  TypeOK'
BY ScheduleAssumption DEF TypeOK, Hold, Values

LEMMA ReleaseType ==
  ASSUME TypeOK, NEW r \in Switches, NEW value \in {"on", "off"}, Release(r, value)
  PROVE  TypeOK'
<1>1. PICK S \in SUBSET DOMAIN entries : S = Followers(r)
  BY DEF Followers
<1>6. PICK kind : kind = "follow"
  OBVIOUS
<1>2. jobs' = jobs \o JobsFor(kind, S, r)
  BY <1>1, <1>6 DEF Release
<1>3. JobsFor(kind, S, r) \in Seq(JobSet)
  <2>1. (kind = "follow" /\ r \in Switches) \/ (kind = "reapply" /\ r \in Thermostats)
    BY <1>6
  <2> QED
    BY <2>1, JobsForFacts
<1>4. jobs' \in Seq(JobSet)
  BY <1>2, <1>3, JobsAppended
<1>5. relay' \in Values /\ held' \subseteq Switches
  BY ScheduleAssumption DEF Release, TypeOK, Values
<1> QED
  BY <1>4, <1>5 DEF TypeOK, Release, JobSet

(* What the hub's change of a thermostat leaves in the lists that passed it. *)
LEMMA ClimateChangeFacts ==
  ASSUME TypeOK, NEW t \in Thermostats, NEW after, ClimateChange(t, after)
  PROVE  /\ AllStay
         /\ \A i \in DOMAIN entries : entries'[i].waiting = entries[i].waiting /\ entries'[i].enabled = entries[i].enabled
         /\ \A i \in DOMAIN entries : i \notin Followers(t) => entries'[i] = entries[i]
         /\ \A i \in Followers(t) :
              entries'[i].lost = (entries[i].lost \ PassedOn(entries[i], t)) \cup Lost(entries[i], t)
<1>1. entries' = [i \in DOMAIN entries |->
        IF i \in Followers(t)
        THEN [entries[i] EXCEPT !.lost = (@ \ PassedOn(entries[i], t)) \cup Lost(entries[i], t)]
        ELSE entries[i]]
  BY DEF ClimateChange
<1>2. DOMAIN entries' = DOMAIN entries /\ \A i \in DOMAIN entries : i \notin Followers(t) => entries'[i] = entries[i]
  BY <1>1
<1>3. ASSUME NEW i \in DOMAIN entries, i \in Followers(t)
      PROVE  /\ Stays(i) /\ entries'[i].waiting = entries[i].waiting /\ entries'[i].enabled = entries[i].enabled
             /\ entries'[i].lost = (entries[i].lost \ PassedOn(entries[i], t)) \cup Lost(entries[i], t)
  <2>1. PICK e : e = entries[i]
    OBVIOUS
  <2>2. EntryOK(e) /\ e \in Entry
    BY <2>1, TypeEntries DEF EntryOK
  <2>3. PICK lost : lost = (e.lost \ PassedOn(e, t)) \cup Lost(e, t)
    OBVIOUS
  <2>4. lost \in SUBSET Nat
    <3>1. PassedOn(e, t) \subseteq 1..e.next /\ e.next \in Nat
      BY <2>2, PassedFacts DEF Entry
    <3>2. Lost(e, t) \subseteq PassedOn(e, t)
      BY DEF Lost
    <3>3. e.lost \subseteq Nat
      BY <2>2 DEF Entry
    <3> QED
      BY <2>3, <3>1, <3>2, <3>3
  <2>5. entries'[i] = [e EXCEPT !.lost = lost]
    BY <1>1, <1>3, <2>1, <2>3
  <2>6. PICK f : f = [e EXCEPT !.lost = lost]
    OBVIOUS
  <2>7. /\ f \in Entry /\ f.doc = e.doc /\ f.enabled = e.enabled /\ f.newer = e.newer /\ f.active = e.active
        /\ f.mode = e.mode /\ f.next = e.next /\ f.run = e.run /\ f.waiting = e.waiting /\ f.lost = lost
    BY <2>2, <2>4, <2>6 DEF Entry
  <2>8. EntryOK(f)
    BY <2>2, <2>7 DEF EntryOK
  <2> QED
    BY <2>1, <2>3, <2>5, <2>6, <2>7, <2>8 DEF Stays
<1>4. ASSUME NEW i \in DOMAIN entries, i \notin Followers(t)
      PROVE  Stays(i) /\ entries'[i].waiting = entries[i].waiting /\ entries'[i].enabled = entries[i].enabled
  BY <1>2, <1>4, TypeEntries DEF Stays
<1>5. Followers(t) \subseteq DOMAIN entries
  BY DEF Followers
<1> QED
  BY <1>2, <1>3, <1>4, <1>5 DEF AllStay

LEMMA ClimateChangeJobs ==
  ASSUME TypeOK, NEW t \in Thermostats, NEW after, ClimateChange(t, after)
  PROVE  /\ jobs' \in Seq(JobSet)
         /\ \A k \in DOMAIN jobs : \E l \in DOMAIN jobs' : jobs'[l] = jobs[k]
         /\ \A i \in Followers(t) : Back(entries[i], t) => \E l \in DOMAIN jobs' : jobs'[l] = Job("reapply", i, t)
<1>1. PICK S \in SUBSET DOMAIN entries : S = {i \in Followers(t) : Back(entries[i], t)}
  BY DEF Followers
<1>2. PICK kind : kind = "reapply"
  OBVIOUS
<1>3. PICK more : more = JobsFor(kind, S, t)
  OBVIOUS
<1>4. jobs' = jobs \o more
  BY <1>1, <1>2, <1>3 DEF ClimateChange
<1>5. more \in Seq(JobSet) /\ \A i \in S : \E k \in DOMAIN more : more[k] = Job(kind, i, t)
  <2>1. (kind = "follow" /\ t \in Switches) \/ (kind = "reapply" /\ t \in Thermostats)
    BY <1>2
  <2> QED
    BY <1>3, <2>1, JobsForFacts
<1>6. jobs' \in Seq(JobSet) /\ (\A k \in DOMAIN jobs : \E l \in DOMAIN jobs' : jobs'[l] = jobs[k])
      /\ \A k \in DOMAIN more : \E l \in DOMAIN jobs' : jobs'[l] = more[k]
  BY <1>4, <1>5, JobsAppended
<1>7. ASSUME NEW i \in Followers(t), Back(entries[i], t)
      PROVE  \E l \in DOMAIN jobs' : jobs'[l] = Job("reapply", i, t)
  <2>1. i \in S
    BY <1>1, <1>7
  <2>2. PICK k \in DOMAIN more : more[k] = Job(kind, i, t)
    BY <1>5, <2>1
  <2> QED
    BY <1>2, <1>6, <2>2
<1> QED
  BY <1>6, <1>7

After(t) == IF thermo[t] = NoThermostat THEN Created ELSE {NoThermostat} \cup Edited(t)

LEMMA AfterFacts ==
  ASSUME TypeOK, NEW t \in Thermostats, NEW after \in After(t)
  PROVE  after \in Thermostat \cup {NoThermostat}
<1>1. Created \subseteq Thermostat \cup {NoThermostat}
  BY DEF Created, Thermostat
<1>2. CASE thermo[t] = NoThermostat
  BY <1>1, <1>2 DEF After
<1>3. CASE thermo[t] # NoThermostat
  <2>1. PICK u \in Thermostat : u = thermo[t]
    BY <1>3 DEF TypeOK
  <2>2. [u EXCEPT !.preset = ~@] \in Thermostat
    BY DEF Thermostat
  <2> QED
    BY <1>3, <2>1, <2>2 DEF After, Edited
<1> QED
  BY <1>2, <1>3

LEMMA ClimateChangeType ==
  ASSUME TypeOK, NEW t \in Thermostats, NEW after \in After(t), ClimateChange(t, after)
  PROVE  TypeOK'
<1>1. DOMAIN entries' = DOMAIN entries /\ \A j \in DOMAIN entries' : EntryOK(entries'[j])
  BY ClimateChangeFacts DEF AllStay, Stays
<1>2. jobs' \in Seq(JobSet)
  BY ClimateChangeJobs
<1>3. thermo' \in [Thermostats -> Thermostat \cup {NoThermostat}]
  <2>1. after \in Thermostat \cup {NoThermostat} /\ thermo' = [thermo EXCEPT ![t] = after]
    BY AfterFacts DEF ClimateChange
  <2> QED
    BY <2>1 DEF TypeOK
<1> QED
  BY <1>1, <1>2, <1>3 DEF TypeOK, EntryOK, ClimateChange, JobSet

(* The job at the head, and those left once it is taken. *)
LEMMA HeadJob ==
  ASSUME TypeOK, jobs # <<>>
  PROVE  /\ Head(jobs) \in JobSet /\ Tail(jobs) \in Seq(JobSet)
         /\ \A k \in DOMAIN jobs : \/ jobs[k] = Head(jobs)
                                   \/ \E l \in DOMAIN Tail(jobs) : Tail(jobs)[l] = jobs[k]
         /\ Head(jobs).id \in Ids /\ Head(jobs).run \in Nat
         /\ Head(jobs).kind = "follow" => Head(jobs).target \in Switches
         /\ Head(jobs).kind = "reapply" => Head(jobs).target \in Thermostats
<1>1. PICK q \in Seq(JobSet) : q = jobs /\ q # <<>>
  BY DEF TypeOK, JobSet
<1>2. /\ Head(q) \in JobSet /\ Tail(q) \in Seq(JobSet) /\ Head(q) = q[1] /\ 1 \in DOMAIN q
      /\ DOMAIN Tail(q) = 1..(Len(q) - 1) /\ \A k \in DOMAIN Tail(q) : Tail(q)[k] = q[k + 1]
  BY <1>1
<1>3. \A k \in DOMAIN q : k # 1 => k - 1 \in DOMAIN Tail(q) /\ Tail(q)[k - 1] = q[k]
  BY <1>1, <1>2
<1>4. \A k \in DOMAIN q : q[k] = Head(q) \/ \E l \in DOMAIN Tail(q) : Tail(q)[l] = q[k]
  BY <1>2, <1>3
<1>5. PICK j \in JobSet : j = Head(q)
  BY <1>2
<1>6. /\ j.id \in Ids /\ j.run \in Nat /\ (j.kind = "follow" => j.target \in Switches)
      /\ (j.kind = "reapply" => j.target \in Thermostats)
  BY <1>5 DEF JobSet
<1> QED
  BY <1>1, <1>2, <1>4, <1>5, <1>6

(* follow_relay_ sets the relay as its list last did, and touches nothing else. *)
LEMMA FollowRelayFacts ==
  ASSUME TypeOK, FollowRelay
  PROVE  /\ relay' \in Values /\ Head(jobs).kind = "follow" /\ jobs # <<>> /\ jobs' = Tail(jobs)
         /\ \A r \in Switches \ held : r # Head(jobs).target => relay'[r] = relay[r]
         /\ Runs(Head(jobs).id, Head(jobs).run) /\ Head(jobs).target \notin held
              /\ PassedOn(entries[Head(jobs).id], Head(jobs).target) # {}
              => relay'[Head(jobs).target] = LastOn(entries[Head(jobs).id], Head(jobs).target).value
         /\ ~(Runs(Head(jobs).id, Head(jobs).run) /\ PassedOn(entries[Head(jobs).id], Head(jobs).target) # {})
              => UNCHANGED relay
<1>1. jobs # <<>> /\ jobs' = Tail(jobs) /\ Head(jobs).kind = "follow"
  BY DEF FollowRelay
<1>2. PICK i, run, r : i = Head(jobs).id /\ run = Head(jobs).run /\ r = Head(jobs).target
  OBVIOUS
<1>3. r \in Switches
  BY <1>1, <1>2, HeadJob
<1>4. CASE Runs(i, run) /\ PassedOn(entries[i], r) # {}
  <2>1. EntryOK(entries[i])
    BY <1>4, TypeEntries DEF Runs
  <2>2. PICK m \in PassedOn(entries[i], r) : m = Max(PassedOn(entries[i], r))
    BY <1>4, <2>1, PassedFacts
  <2>3. PICK a \in Actions : a = List(entries[i])[m] /\ Drives(a) /\ a.target = r
    BY <2>1, PassedFacts
  <2>4. a = LastOn(entries[i], r)
    BY <2>2, <2>3 DEF LastOn
  <2>5. a.type = "relay"
    <3>1. r \notin Thermostats
      BY <1>3, ScheduleAssumption
    <3> QED
      BY <2>3, <3>1, ActionFacts
  <2>6. ApplyRelay(a)
    BY <1>2, <1>4, <2>4 DEF FollowRelay
  <2>7. relay' \in Values /\ (r \in Switches \ held => relay'[r] = a.value)
        /\ \A s \in Switches : s # r => relay'[s] = relay[s]
    BY <2>3, <2>5, <2>6, ApplyRelayFacts
  <2> QED
    BY <1>1, <1>2, <1>3, <1>4, <2>4, <2>7
<1>5. CASE ~(Runs(i, run) /\ PassedOn(entries[i], r) # {})
  <2>1. relay' = relay
    BY <1>2, <1>5 DEF FollowRelay
  <2> QED
    BY <1>1, <1>2, <1>5, <2>1 DEF TypeOK
<1> QED
  BY <1>4, <1>5

LEMMA FollowRelayType ==
  ASSUME TypeOK, FollowRelay
  PROVE  TypeOK'
<1>1. relay' \in Values /\ jobs # <<>> /\ jobs' = Tail(jobs)
  BY FollowRelayFacts
<1>2. jobs' \in Seq(JobSet)
  BY <1>1, HeadJob
<1> QED
  BY <1>1, <1>2 DEF TypeOK, FollowRelay, JobSet

LEMMA ReapplyType ==
  ASSUME TypeOK, Reapply
  PROVE  TypeOK'
<1>1. jobs # <<>> /\ Head(jobs).kind = "reapply" /\ jobs' = Tail(jobs)
      /\ stack' = ReapplyWalk(Head(jobs).id, Head(jobs).run, Head(jobs).target, 1)
  BY DEF Reapply
<1>2. stack' \in Seq(Frame)
  BY <1>1, HeadJob, NewFrames
<1>3. jobs' \in Seq(JobSet)
  BY <1>1, HeadJob
<1> QED
  BY <1>2, <1>3 DEF TypeOK, Reapply, JobSet

(* reapply_ takes action k of i's list again, the next one on its thermostat. *)
Reapplied(i, k) ==
  /\ i = Top.id /\ Runs(i, Top.run) /\ Top.target \in Thermostats /\ AllStay
  /\ \A j \in DOMAIN entries : j # i => entries'[j] = entries[j]
  /\ k \in PassedOn(entries[i], Top.target) /\ k \in Nat /\ Top.at <= k
  /\ \A l \in PassedOn(entries[i], Top.target) : Top.at <= l => k <= l
  /\ entries'[i].waiting = entries[i].waiting /\ entries'[i].enabled = entries[i].enabled
  /\ thermo' \in [Thermostats -> Thermostat \cup {NoThermostat}]
  /\ \A t \in Thermostats : t # Top.target => thermo'[t] = thermo[t]
  /\ \/ entries'[i].lost = entries[i].lost \cup {k}
     \/ entries'[i].lost = entries[i].lost /\ SetBy(List(entries[i])[k])
  /\ stack' = Below \o ReapplyWalk(i, Top.run, Top.target, k + 1)
ReapplyDone ==
  /\ stack' = Below /\ UNCHANGED <<entries, thermo>>
  /\ Runs(Top.id, Top.run) => \A l \in PassedOn(entries[Top.id], Top.target) : l < Top.at

LEMMA ReapplyNextFacts ==
  ASSUME TypeOK, ReapplyNext
  PROVE  /\ On("reapply") /\ Top.id \in Ids /\ Top.run \in Nat /\ Top.target \in Thermostats /\ Top.at \in Nat
         /\ ReapplyDone \/ \E i \in DOMAIN entries : \E k \in Nat : Reapplied(i, k)
<1>1. On("reapply") /\ Top.id \in Ids /\ Top.run \in Nat /\ Top.target \in Thermostats /\ Top.at \in Nat
  BY OnFacts, FrameFacts DEF ReapplyNext
<1>2. PICK i, run, g, at : i = Top.id /\ run = Top.run /\ g = Top.target /\ at = Top.at
  OBVIOUS
<1>3. PICK ahead : ahead = {k \in PassedOn(entries[i], g) : k >= at}
  OBVIOUS
<1>4. CASE Runs(i, run) /\ ahead # {}
  <2>1. i \in DOMAIN entries /\ entries[i].mode # 0
    BY <1>4 DEF Runs
  <2>2. PICK e : e = entries[i]
    OBVIOUS
  <2>3. EntryOK(e) /\ e \in Entry
    BY <2>1, <2>2, TypeEntries DEF EntryOK
  <2>4. /\ PassedOn(e, g) \subseteq 1..e.next /\ PassedOn(e, g) \subseteq Int /\ IsFiniteSet(PassedOn(e, g))
        /\ PassedOn(e, g) \subseteq 1..Len(List(e))
        /\ \A k \in PassedOn(e, g) : List(e)[k] \in Actions /\ Drives(List(e)[k]) /\ List(e)[k].target = g
    BY <2>3, PassedFacts
  <2>5. ahead \in SUBSET PassedOn(e, g)
    BY <1>3, <2>2
  <2>6. Min(ahead) \in ahead /\ \A l \in ahead : Min(ahead) <= l
    <3>1. IsFiniteSet(ahead) /\ ahead \subseteq Int
      BY <2>4, <2>5, FS_Subset
    <3> QED
      BY <1>4, <3>1, MinFacts
  <2>7. PICK k \in PassedOn(e, g) : k = Min(ahead) /\ k >= at /\ \A l \in ahead : k <= l
    BY <1>3, <2>5, <2>6
  <2>8. k \in Nat /\ k \in 1..Len(List(e)) /\ at \in Nat
    BY <1>1, <1>2, <2>3, <2>4, <2>7 DEF Entry
  <2>9. PICK a \in Actions : a = List(e)[k] /\ Drives(a) /\ a.target = g
    BY <2>4, <2>7
  <2>10. a.type = "thermostat"
    <3>1. g \notin Relays
      BY <1>1, <1>2, ScheduleAssumption
    <3> QED
      BY <2>9, <3>1, ActionFacts
  <2>11. PICK f : f = [e EXCEPT !.lost = @ \cup {k}]
    OBVIOUS
  <2>12. ApplyThermostat(i, e, k) /\ stack' = Below \o ReapplyWalk(i, run, g, k + 1)
    BY <1>2, <1>3, <1>4, <2>2, <2>7 DEF ReapplyNext
  <2>13. i \in Ids
    BY <1>1, <1>2
  <2>14. /\ thermo' \in [Thermostats -> Thermostat \cup {NoThermostat}]
         /\ \A t \in Thermostats : t # a.target => thermo'[t] = thermo[t]
         /\ EntryOK(f) /\ f.doc = e.doc /\ f.newer = e.newer /\ f.active = e.active /\ f.mode = e.mode
         /\ f.next = e.next /\ f.run = e.run /\ f.waiting = e.waiting /\ f.enabled = e.enabled
         /\ f.lost = e.lost \cup {k}
         /\ \/ entries' = Put(i, f)
            \/ entries' = Put(i, e) /\ SetBy(a)
    BY <2>3, <2>8, <2>9, <2>10, <2>11, <2>12, <2>13, ApplyThermostatFacts
  <2>15. \A l \in PassedOn(e, g) : at <= l => k <= l
    <3>1. \A l \in PassedOn(e, g) : l \in Int
      BY <2>4
    <3>2. \A l \in PassedOn(e, g) : at <= l => l \in ahead
      BY <1>3, <2>2, <2>8, <3>1
    <3> QED
      BY <2>7, <3>2
  <2>16. ASSUME NEW h, entries' = Put(i, h), EntryOK(h), h.doc = e.doc, h.newer = e.newer, h.active = e.active,
                h.mode = e.mode, h.next = e.next, h.run = e.run
         PROVE  AllStay /\ entries'[i] = h /\ \A j \in DOMAIN entries : j # i => entries'[j] = entries[j]
    <3>1. DOMAIN entries' = DOMAIN entries /\ entries'[i] = h
          /\ \A j \in DOMAIN entries : j # i => entries'[j] = entries[j]
      BY <2>1, <2>16 DEF Put
    <3>2. \A j \in DOMAIN entries : Stays(j)
      BY <2>2, <2>16, <3>1, TypeEntries DEF Stays
    <3> QED
      BY <3>1, <3>2 DEF AllStay
  <2>17. CASE entries' = Put(i, f)
    <3>1. AllStay /\ entries'[i] = f /\ \A j \in DOMAIN entries : j # i => entries'[j] = entries[j]
      BY <2>14, <2>16, <2>17
    <3>2. Reapplied(i, k)
      BY <1>1, <1>2, <1>4, <2>2, <2>7, <2>8, <2>9, <2>12, <2>14, <2>15, <3>1 DEF Reapplied
    <3> QED
      BY <1>1, <2>1, <2>8, <3>2
  <2>18. CASE entries' = Put(i, e) /\ SetBy(a)
    <3>1. AllStay /\ entries'[i] = e /\ \A j \in DOMAIN entries : j # i => entries'[j] = entries[j]
      BY <2>3, <2>16, <2>18
    <3>2. Reapplied(i, k)
      BY <1>1, <1>2, <1>4, <2>2, <2>7, <2>8, <2>9, <2>12, <2>14, <2>15, <2>18, <3>1 DEF Reapplied
    <3> QED
      BY <1>1, <2>1, <2>8, <3>2
  <2> QED
    BY <2>14, <2>17, <2>18
<1>5. CASE ~(Runs(i, run) /\ ahead # {})
  <2>1. stack' = Below /\ UNCHANGED <<entries, thermo>>
    BY <1>2, <1>3, <1>5 DEF ReapplyNext
  <2>2. ASSUME Runs(i, run), NEW l \in PassedOn(entries[i], g)
        PROVE  l < at
    <3>1. EntryOK(entries[i])
      BY <2>2, TypeEntries DEF Runs
    <3>2. l \in Int /\ at \in Nat
      BY <1>1, <1>2, <3>1, PassedFacts
    <3> QED
      BY <1>3, <1>5, <2>2, <3>2
  <2> QED
    BY <1>1, <1>2, <2>1, <2>2 DEF ReapplyDone
<1> QED
  BY <1>4, <1>5

LEMMA ReapplyNextType ==
  ASSUME TypeOK, ReapplyNext
  PROVE  TypeOK'
<1>1. Below \in Seq(Frame)
  BY ReapplyNextFacts, OnFacts, BelowFacts
<1>2. UNCHANGED <<files, left, waits, jobs, clockValid, local, minute, relay, held, unsaved>> /\ open' = FALSE
  BY DEF ReapplyNext
<1>3. CASE ReapplyDone
  BY <1>1, <1>2, <1>3 DEF ReapplyDone, TypeOK
<1>4. ASSUME NEW i \in DOMAIN entries, NEW k \in Nat, Reapplied(i, k)
      PROVE  TypeOK'
  <2>1. DOMAIN entries' = DOMAIN entries /\ \A j \in DOMAIN entries' : EntryOK(entries'[j])
    BY <1>4 DEF Reapplied, AllStay, Stays
  <2>2. stack' \in Seq(Frame)
    <3>1. i \in Ids /\ Top.run \in Nat /\ Top.target \in Thermostats /\ k + 1 \in Nat
      BY TypeEntries, ReapplyNextFacts
    <3>2. PICK w \in Seq(Frame) : w = ReapplyWalk(i, Top.run, Top.target, k + 1)
      BY <3>1, NewFrames
    <3> QED
      BY <1>1, <1>4, <3>2, Pushed DEF Reapplied
  <2>3. thermo' \in [Thermostats -> Thermostat \cup {NoThermostat}]
    BY <1>4 DEF Reapplied
  <2> QED
    BY <1>2, <2>1, <2>2, <2>3 DEF TypeOK, EntryOK
<1> QED
  BY <1>3, <1>4, ReapplyNextFacts
-----------------------------------------------------------------------------
(* The clock and the boot *)

LEMMA AllFacts ==
  ASSUME TypeOK
  PROVE  /\ All \in Seq(Ids) /\ \A i \in DOMAIN entries : In(All, i)
         /\ Starts(All) \in Seq(Frame)
<1>1. PICK S \in SUBSET Ids : S = DOMAIN entries
  BY TypeEntries
<1>2. Sorted(S) \in Seq(Ids) /\ \A i \in S : \E k \in DOMAIN Sorted(S) : Sorted(S)[k] = i
  BY SortedFacts
<1> QED
  BY <1>1, <1>2, StartsFacts DEF All, In

LEMMA DivFacts ==
  ASSUME NEW now \in Nat
  PROVE  now \div Minute \in Nat /\ WeekMinuteOf(now) \in 0..(Week - 1)
BY ScheduleAssumption DEF WeekMinuteOf

(* A schedule's point is due when its minute is later than the one that counts. *)
PointIsDue(i, to) ==
  /\ i \in DOMAIN entries /\ entries[i].active
  /\ to - ((WeekMinuteOf(to) - PointAt(entries[i].doc, WeekMinuteOf(to)) + Week) % Week) > minute

LEMMA PointsDueFacts ==
  ASSUME TypeOK, NEW to \in Nat
  PROVE  /\ PointsDue(to) \in Seq(Ids \X Nat)
         /\ \A x \in DOMAIN PointsDue(to) :
              /\ PointIsDue(PointsDue(to)[x][1], to)
              /\ PointsDue(to)[x][2] = InForce(entries[PointsDue(to)[x][1]].doc, WeekMinuteOf(to))
         /\ \A i \in DOMAIN entries : PointIsDue(i, to) => \E x \in DOMAIN PointsDue(to) : PointsDue(to)[x][1] = i
<1>1. PICK w \in Nat : w = WeekMinuteOf(to)
  BY DivFacts
<1>2. PICK S \in SUBSET DOMAIN entries : S = {i \in DOMAIN entries : PointIsDue(i, to)}
  OBVIOUS
<1>3. S \in SUBSET Ids
  BY TypeEntries
<1>4. PICK s : /\ s = Sorted(S) /\ s \in Seq(S) /\ Len(s) = Cardinality(S) /\ \A k \in DOMAIN s : s[k] \in S
               /\ \A i \in S : \E k \in DOMAIN s : s[k] = i
  BY <1>3, SortedFacts
<1>5. PICK n \in Nat : n = Cardinality(S) /\ DOMAIN s = 1..n
  BY <1>4
<1>6. PointsDue(to) = [k \in 1..n |-> <<s[k], InForce(entries[s[k]].doc, w)>>]
  <2>1. S = {i \in DOMAIN entries : entries[i].active /\ to - ((w - PointAt(entries[i].doc, w) + Week) % Week) > minute}
    BY <1>1, <1>2 DEF PointIsDue
  <2> QED
    BY <1>1, <1>4, <1>5, <2>1 DEF PointsDue
<1>7. \A k \in 1..n : s[k] \in Ids /\ InForce(entries[s[k]].doc, w) \in Nat
  <2>1. ASSUME NEW k \in 1..n
        PROVE  s[k] \in Ids /\ InForce(entries[s[k]].doc, w) \in Nat
    <3>1. s[k] \in DOMAIN entries /\ s[k] \in Ids
      BY <1>3, <1>4, <1>5
    <3>2. entries[s[k]].doc \in Docs
      BY <3>1, TypeEntries DEF EntryOK, Entry
    <3>3. InForce(entries[s[k]].doc, w) \in 1..Len(entries[s[k]].doc.modes)
      BY <3>2, PointFacts
    <3> QED
      BY <3>1, <3>2, <3>3, DocFacts
  <2> QED
    BY <2>1
<1>8. PointsDue(to) \in Seq(Ids \X Nat) /\ DOMAIN PointsDue(to) = 1..n
  <2>1. PointsDue(to) \in [1..n -> Ids \X Nat]
    BY <1>6, <1>7
  <2> QED
    BY <2>1
<1>9. \A x \in 1..n : PointsDue(to)[x] = <<s[x], InForce(entries[s[x]].doc, w)>>
  BY <1>6
<1>10. \A x \in 1..n : PointIsDue(s[x], to)
  BY <1>2, <1>4, <1>5
<1>11. \A i \in DOMAIN entries : PointIsDue(i, to) => \E x \in 1..n : s[x] = i
  BY <1>2, <1>4, <1>5
<1> QED
  <2>1. PICK due : due = PointsDue(to)
    OBVIOUS
  <2>2. /\ due \in Seq(Ids \X Nat) /\ DOMAIN due = 1..n
        /\ \A x \in 1..n : due[x][1] = s[x] /\ due[x][2] = InForce(entries[due[x][1]].doc, w)
    BY <1>8, <1>9, <2>1
  <2>3. \A x \in DOMAIN due : PointIsDue(due[x][1], to) /\ due[x][2] = InForce(entries[due[x][1]].doc, w)
    BY <1>10, <2>2
  <2>4. \A i \in DOMAIN entries : PointIsDue(i, to) => \E x \in DOMAIN due : due[x][1] = i
    BY <1>11, <2>2
  <2> QED
    BY <1>1, <2>1, <2>2, <2>3, <2>4

LEMMA ClockValidType ==
  ASSUME TypeOK, NEW now \in Nat, ClockValid(now)
  PROVE  TypeOK'
BY AllFacts, DivFacts DEF TypeOK, ClockValid

LEMMA JumpType ==
  ASSUME TypeOK, NEW now \in Nat, NEW passed, Jump(now, passed)
  PROVE  TypeOK'
BY AllFacts, DivFacts DEF TypeOK, Jump

LEMMA TickType ==
  ASSUME TypeOK, NEW now \in Nat, NEW passed, Tick(now, passed)
  PROVE  TypeOK'
<1>1. now \div Minute \in Nat
  BY DivFacts
<1>2. PICK to \in Nat : to = now \div Minute
  BY <1>1
<1>3. Due(PointsDue(to)) \in Seq(Frame)
  BY PointsDueFacts, DueFacts
<1>4. minute' \in Nat /\ stack' \in Seq(Frame)
  BY <1>2, <1>3 DEF Tick, TypeOK
<1> QED
  BY <1>4 DEF TypeOK, Tick

(* What a boot loads: nothing runs, and who drives is settled. *)
LEMMA BootFacts ==
  ASSUME NEW f \in [Ids -> File], NEW full \in Nat, NEW b, b = Boot(f, full)
  PROVE  /\ DOMAIN b = Loaded(f, full) /\ DOMAIN b \subseteq Ids
         /\ \A i \in DOMAIN b : /\ EntryOK(b[i]) /\ b[i].mode = 0 /\ b[i].next = 0 /\ ~b[i].waiting
                                /\ FileOf(b[i]) = f[i] /\ f[i] \notin {NoFile, BadFile}
         /\ \A i \in DOMAIN b :
              b[i].active <=> /\ b[i].enabled
                              /\ \A j \in DOMAIN b : j < i /\ b[j].active => ~Sharing(b[i].doc, b[j].doc)
         /\ LeftForHeap(f, full) \subseteq Ids \ DOMAIN b
<1>1. PICK ents : ents = [i \in Loaded(f, full) |->
        [doc |-> f[i].doc, enabled |-> f[i].enabled, newer |-> f[i].newer, active |-> FALSE,
         mode |-> 0, next |-> 0, waiting |-> FALSE, run |-> 1, lost |-> {}]]
  OBVIOUS
<1>2. PICK active : active = Drivers(ents)
  OBVIOUS
<1>3. b = [i \in DOMAIN ents |-> [ents[i] EXCEPT !.active = i \in active]]
  BY <1>1, <1>2 DEF Boot
<1>4. DOMAIN ents = Loaded(f, full) /\ DOMAIN b = DOMAIN ents /\ Loaded(f, full) \subseteq Ids
  BY <1>1, <1>3 DEF Loaded, Loadable
<1>5. ASSUME NEW i \in DOMAIN ents
      PROVE  /\ EntryOK(b[i]) /\ b[i].mode = 0 /\ b[i].next = 0 /\ ~b[i].waiting
             /\ FileOf(b[i]) = f[i] /\ f[i] \notin {NoFile, BadFile}
             /\ (b[i].active <=> i \in active) /\ b[i].enabled = ents[i].enabled /\ b[i].doc = ents[i].doc
    <2>1. PICK g \in [doc : Docs, enabled : BOOLEAN, newer : BOOLEAN] : g = f[i]
      BY <1>4 DEF Loaded, Loadable, File
    <2>2. f[i] \notin {NoFile, BadFile}
      BY <1>4 DEF Loaded, Loadable
    <2>3. PICK e : e = [doc |-> g.doc, enabled |-> g.enabled, newer |-> g.newer, active |-> FALSE,
                        mode |-> 0, next |-> 0, waiting |-> FALSE, run |-> 1, lost |-> {}]
      OBVIOUS
    <2>4. ents[i] = e
      BY <1>1, <2>1, <2>3
    <2>5. e \in Entry /\ e.doc = g.doc /\ e.enabled = g.enabled /\ e.newer = g.newer
          /\ e.mode = 0 /\ e.next = 0 /\ e.waiting = FALSE
      BY <2>3 DEF Entry
    <2>6. PICK a \in BOOLEAN : a = (i \in active)
      <3>1. CASE i \in active
        <4>1. (i \in active) = TRUE
          BY <3>1
        <4> QED
          BY <4>1
      <3>2. CASE i \notin active
        <4>1. (i \in active) = FALSE
          BY <3>2
        <4> QED
          BY <4>1
      <3> QED
        BY <3>1, <3>2
    <2>7. b[i] = [e EXCEPT !.active = a]
      BY <1>3, <2>4, <2>6
    <2>8. PICK h : h = [e EXCEPT !.active = a]
      OBVIOUS
    <2>9. h \in Entry /\ h.doc = g.doc /\ h.enabled = g.enabled /\ h.newer = g.newer
          /\ h.mode = 0 /\ h.next = 0 /\ h.waiting = FALSE /\ h.active = a
      BY <2>5, <2>8 DEF Entry
    <2>10. EntryOK(h)
      <3>1. Len(h.doc.modes) \in Nat
        BY <2>9, DocFacts DEF Entry
      <3> QED
        BY <2>9, <3>1 DEF EntryOK
    <2>11. FileOf(h) = g
      BY <2>1, <2>9 DEF FileOf
    <2> QED
      BY <2>1, <2>2, <2>4, <2>5, <2>6, <2>7, <2>8, <2>9, <2>10, <2>11
<1>6. /\ active \subseteq DOMAIN ents
      /\ \A i \in DOMAIN ents :
           i \in active <=> /\ ents[i].enabled
                            /\ \A j \in active : j < i => ~Sharing(ents[i].doc, ents[j].doc)
  BY <1>2, <1>4, DriversFacts
<1>7. \A i \in DOMAIN b :
        b[i].active <=> /\ b[i].enabled
                        /\ \A j \in DOMAIN b : j < i /\ b[j].active => ~Sharing(b[i].doc, b[j].doc)
  BY <1>4, <1>5, <1>6
<1>8. LeftForHeap(f, full) \subseteq Ids \ DOMAIN b
  <2>1. \A i \in Loaded(f, full) : i \in Int /\ i < full
    BY IdsFacts DEF Loaded, Loadable
  <2>2. \A i \in LeftForHeap(f, full) : i \in Ids /\ i >= full
    BY DEF LeftForHeap
  <2> QED
    BY <1>4, <2>1, <2>2
<1> QED
  BY <1>4, <1>5, <1>7, <1>8

LEMMA FullFacts == \A full \in 1..(N + 1) : full \in Nat
BY ScheduleAssumption

LEMMA RebootType ==
  ASSUME TypeOK, NEW full \in 1..(N + 1), Reboot(full)
  PROVE  TypeOK'
<1>1. files \in [Ids -> File] /\ full \in Nat
  BY FullFacts DEF TypeOK
<1>2. entries' = Boot(files, full) /\ left' = LeftForHeap(files, full) /\ unsaved' = LeftAlone(files, full)
  BY DEF Reboot
<1>3. /\ DOMAIN entries' \subseteq Ids /\ \A i \in DOMAIN entries' : EntryOK(entries'[i])
      /\ left' \subseteq Ids \ DOMAIN entries'
  BY <1>1, <1>2, BootFacts
<1>4. unsaved' \subseteq Ids
  BY <1>2 DEF LeftAlone, Loadable
<1>5. waits' \subseteq [id : Ids, run : Nat] /\ IsFiniteSet(waits')
  BY FS_EmptySet DEF Reboot
<1>6. jobs' \in Seq(JobSet) /\ stack' \in Seq(Frame)
  BY DEF Reboot
<1>7. /\ open' \in BOOLEAN /\ clockValid' \in BOOLEAN /\ local' \in Nat /\ minute' \in Nat
      /\ UNCHANGED <<files, relay, held, thermo>>
  BY DEF Reboot
<1> QED
  BY <1>3, <1>4, <1>5, <1>6, <1>7 DEF TypeOK, EntryOK, JobSet

LEMMA InitType ==
  ASSUME Init
  PROVE  /\ TypeOK /\ stack = <<>> /\ ~open /\ ~clockValid
         /\ \E full \in Nat : /\ entries = Boot(files, full) /\ left = LeftForHeap(files, full)
                              /\ unsaved = LeftAlone(files, full)
<1>1. PICK full \in Nat : /\ entries = Boot(files, full) /\ left = LeftForHeap(files, full)
                          /\ unsaved = LeftAlone(files, full)
  BY FullFacts DEF Init
<1>2. files \in [Ids -> File]
  BY ScheduleAssumption DEF Init, File
<1>3. /\ DOMAIN entries \subseteq Ids /\ \A i \in DOMAIN entries : EntryOK(entries[i])
      /\ left \subseteq Ids \ DOMAIN entries
  BY <1>1, <1>2, BootFacts
<1>4. unsaved \subseteq Ids
  BY <1>1 DEF LeftAlone, Loadable
<1>5. waits \subseteq [id : Ids, run : Nat] /\ IsFiniteSet(waits)
  BY FS_EmptySet DEF Init
<1>6. relay \in Values /\ held \subseteq Switches /\ thermo \in [Thermostats -> Thermostat \cup {NoThermostat}]
  BY DEF Init, Values
<1>7. jobs \in Seq(JobSet) /\ stack \in Seq(Frame)
  BY DEF Init
<1>8. open = FALSE /\ clockValid = FALSE /\ local \in Nat /\ minute \in Nat /\ stack = <<>>
  BY DEF Init
<1>9. TypeOK
  BY <1>2, <1>3, <1>4, <1>5, <1>6, <1>7, <1>8 DEF TypeOK, EntryOK, JobSet
<1> QED
  BY <1>1, <1>8, <1>9

LEMMA UnchangedType ==
  ASSUME TypeOK, UNCHANGED vars
  PROVE  TypeOK'
BY DEF TypeOK, vars
-----------------------------------------------------------------------------
(* The walks under way *)

(* What a step does to the walks under way. *)
KeepsWalks == \A k \in DOMAIN stack : stack[k].kind \in {"list", "reapply"} =>
                                        k \in DOMAIN stack' /\ stack'[k] = stack[k]
NoNewWalks == \A k \in DOMAIN stack' : stack'[k].kind \in {"list", "reapply"} =>
                                         k \in DOMAIN stack /\ stack[k] = stack'[k]
Plain(s) == \A k \in DOMAIN s : s[k].kind \notin {"over", "reapply"}

LEMMA PlainFacts ==
  ASSUME TypeOK, Walks
  PROVE  /\ MayCall => Plain(stack)
         /\ \A kind \in {"list", "starts", "due"} : On(kind) => Plain(stack)
         /\ stack # <<>> => Plain(Below)
<1>1. stack \in Seq(Frame)
  BY DEF TypeOK
<1>2. CASE stack = <<>>
  BY <1>2 DEF Plain, On, Quiet
<1>3. CASE stack # <<>>
  <2>1. /\ Len(stack) \in DOMAIN stack /\ Top = stack[Len(stack)]
        /\ \A k \in DOMAIN Below : k \in DOMAIN stack /\ k < Len(stack) /\ Below[k] = stack[k]
    BY <1>3, BelowFacts
  <2>2. MayCall => Plain(stack)
    BY <1>3 DEF MayCall, Quiet, Walks, Plain
  <2>3. \A kind \in {"list", "starts", "due"} : On(kind) => Plain(stack)
    <3>1. ASSUME NEW kind \in {"list", "starts", "due"}, On(kind), NEW k \in DOMAIN stack
          PROVE  stack[k].kind \notin {"over", "reapply"}
      <4>1. stack[Len(stack)].kind \in {"list", "starts", "due"}
        BY <2>1, <3>1 DEF On
      <4>2. stack[k].kind \in {"over", "reapply"} => k = Len(stack)
        <5>1. k \in 1..Len(stack) /\ Len(stack) \in Nat
          BY <1>1, <3>1
        <5> QED
          BY <5>1 DEF Walks
      <4> QED
        BY <4>1, <4>2
    <3> QED
      BY <3>1 DEF Plain
  <2>4. Plain(Below)
    <3>1. \A k \in DOMAIN stack : stack[k].kind \in {"over", "reapply"} => k = Len(stack)
      <4>1. DOMAIN stack = 1..Len(stack) /\ Len(stack) \in Nat
        BY <1>1
      <4> QED
        BY <4>1 DEF Walks
    <3>2. \A k \in DOMAIN Below : k # Len(stack)
      BY <1>1, <2>1
    <3> QED
      BY <2>1, <3>1, <3>2 DEF Plain
  <2> QED
    BY <2>2, <2>3, <2>4
<1> QED
  BY <1>2, <1>3

LEMMA PlainJoined ==
  ASSUME NEW s \in Seq(Frame), NEW t \in Seq(Frame), Plain(s), Plain(t)
  PROVE  Plain(s \o t)
BY DEF Plain

LEMMA PlainWalks ==
  ASSUME Plain(stack)', stack' = <<>> => ~open'
  PROVE  Walks'
BY DEF Plain, Walks

LEMMA PlainStarts ==
  ASSUME NEW todo \in Seq(Ids)
  PROVE  Plain(Starts(todo))
<1>1. PICK s : s = Starts(todo) /\ s \in Seq(Frame) /\ Len(s) \in {0, 1} /\ (Len(s) = 1 => s[1].kind = "starts")
  <2>1. /\ Starts(todo) \in Seq(Frame) /\ Len(Starts(todo)) \in {0, 1}
        /\ todo = <<>> => Starts(todo) = <<>>
        /\ todo # <<>> => Len(Starts(todo)) = 1 /\ Starts(todo)[1].kind = "starts"
    BY StartsFacts
  <2> QED
    BY <2>1
<1> QED
  BY <1>1 DEF Plain

LEMMA PlainDue ==
  ASSUME NEW todo \in Seq(Ids \X Nat)
  PROVE  Plain(Due(todo))
<1>1. PICK s : s = Due(todo) /\ s \in Seq(Frame) /\ Len(s) \in {0, 1} /\ (Len(s) = 1 => s[1].kind = "due")
  <2>1. /\ Due(todo) \in Seq(Frame) /\ Len(Due(todo)) \in {0, 1}
        /\ todo = <<>> => Due(todo) = <<>>
        /\ todo # <<>> => Len(Due(todo)) = 1 /\ Due(todo)[1].kind = "due"
    BY DueFacts
  <2> QED
    BY <2>1
<1> QED
  BY <1>1 DEF Plain

LEMMA PlainWalk ==
  ASSUME NEW i \in Ids, NEW run \in Nat
  PROVE  Plain(ListWalk(i, run))
<1>1. PICK s : s = ListWalk(i, run) /\ s \in Seq(Frame) /\ Len(s) = 1 /\ s[1].kind = "list"
  <2>1. ListWalk(i, run) \in Seq(Frame) /\ Len(ListWalk(i, run)) = 1 /\ ListWalk(i, run)[1].kind = "list"
    BY NewFrames
  <2> QED
    BY <2>1
<1> QED
  BY <1>1 DEF Plain

(* The stack a change that settles leaves: a take-over that is on top returns, *)
(* and a pass is put there.                                                    *)
LEMMA SettledStack ==
  ASSUME TypeOK, Walks, NEW i, SettledStep(i), MayCall \/ On("over")
  PROVE  Walks' /\ KeepsWalks /\ NoNewWalks
<1>1. PICK todo \in Seq(Ids) : stack' = Returned \o Starts(todo)
  BY DEF SettledStep
<1>2. PICK p \in Seq(Frame), s \in Seq(Frame) : p = Returned /\ s = Starts(todo) /\ Plain(s)
                                              /\ \A k \in DOMAIN s : s[k].kind \notin {"list", "reapply"}
  <2>1. Starts(todo) \in Seq(Frame) /\ Returned \in Seq(Frame) /\ Plain(Starts(todo))
    BY ReturnedFacts, StartsFacts, PlainStarts
  <2>2. \A k \in DOMAIN Starts(todo) : Starts(todo)[k].kind = "starts"
    <3>1. /\ Len(Starts(todo)) \in {0, 1} /\ (todo = <<>> => Starts(todo) = <<>>)
          /\ todo # <<>> => Len(Starts(todo)) = 1 /\ Starts(todo)[1].kind = "starts"
      BY StartsFacts
    <3> QED
      BY <2>1, <3>1
  <2> QED
    BY <2>1, <2>2
<1>3. stack' = p \o s /\ open' = open
  BY <1>1, <1>2 DEF SettledStep
<1>4. Plain(p) /\ (stack = <<>> => p = <<>>) /\ (On("over") => ~open)
      /\ (\A k \in DOMAIN p : k \in DOMAIN stack /\ p[k] = stack[k])
      /\ \A k \in DOMAIN stack : stack[k].kind \in {"list", "reapply"} => k \in DOMAIN p
  <2>1. CASE On("over")
    <3>1. stack # <<>> /\ p = Below
      BY <1>2, <2>1 DEF Returned, On, Quiet
    <3>2. /\ Len(stack) \in DOMAIN stack /\ Top = stack[Len(stack)]
          /\ \A k \in DOMAIN Below : k \in DOMAIN stack /\ Below[k] = stack[k]
          /\ \A k \in DOMAIN stack : k # Len(stack) => k \in DOMAIN Below
      BY <3>1, BelowFacts
    <3>3. stack[Len(stack)].kind = "over"
      BY <2>1, <3>2 DEF On
    <3>4. ~open
      BY <3>2, <3>3 DEF Walks
    <3> QED
      BY <3>1, <3>2, <3>3, <3>4, PlainFacts
  <2>2. CASE ~On("over")
    <3>1. p = stack
      BY <1>2, <2>2 DEF Returned
    <3> QED
      BY <2>2, <3>1, PlainFacts
  <2> QED
    BY <2>1, <2>2
<1>5. Plain(stack)'
  <2>1. Plain(p \o s)
    BY <1>2, <1>4, PlainJoined
  <2> QED
    BY <1>3, <2>1 DEF Plain
<1>6. stack' = <<>> => ~open'
  <2>1. stack' = <<>> => p = <<>>
    <3>1. Len(p \o s) = Len(p) + Len(s) /\ Len(p) \in Nat /\ Len(s) \in Nat
      OBVIOUS
    <3>2. stack' = <<>> => Len(p) = 0
      BY <1>3, <3>1
    <3> QED
      BY <3>2
  <2>2. p = <<>> => ~open
    <3>1. CASE On("over")
      BY <1>4, <3>1
    <3>2. CASE ~On("over")
      BY <1>2, <3>2 DEF Returned, Walks
    <3> QED
      BY <3>1, <3>2
  <2> QED
    BY <1>3, <2>1, <2>2
<1>7. Walks'
  BY <1>5, <1>6, PlainWalks
<1>8. /\ \A k \in DOMAIN p : k \in DOMAIN stack' /\ stack'[k] = p[k]
      /\ \A k \in DOMAIN stack' : \/ k \in DOMAIN p /\ stack'[k] = p[k]
                                  \/ k - Len(p) \in DOMAIN s /\ stack'[k] = s[k - Len(p)]
  BY <1>3, Pushed
<1>9. KeepsWalks
  BY <1>4, <1>8 DEF KeepsWalks
<1>10. NoNewWalks
  BY <1>2, <1>4, <1>8 DEF NoNewWalks
<1> QED
  BY <1>7, <1>9, <1>10

LEMMA SameWalks ==
  ASSUME Walks, UNCHANGED <<stack, open>>, DOMAIN entries' = DOMAIN entries
  PROVE  Walks' /\ KeepsWalks /\ NoNewWalks
BY DEF Walks, KeepsWalks, NoNewWalks

(* Something other than a walk is put on the stack, or in the place of what was *)
(* on top of it.                                                                *)
LEMMA StackedOn ==
  ASSUME TypeOK, NEW p \in Seq(Frame), NEW t \in Seq(Frame), stack' = p \o t,
         \A k \in DOMAIN t : t[k].kind \notin {"list", "reapply"},
         \/ p = stack
         \/ stack # <<>> /\ p = Below /\ Top.kind \notin {"list", "reapply"}
  PROVE  KeepsWalks /\ NoNewWalks
<1>1. /\ \A k \in DOMAIN p : k \in DOMAIN stack' /\ stack'[k] = p[k]
      /\ \A k \in DOMAIN stack' : \/ k \in DOMAIN p /\ stack'[k] = p[k]
                                  \/ k - Len(p) \in DOMAIN t /\ stack'[k] = t[k - Len(p)]
  BY Pushed
<1>2. /\ \A k \in DOMAIN p : k \in DOMAIN stack /\ p[k] = stack[k]
      /\ \A k \in DOMAIN stack : stack[k].kind \in {"list", "reapply"} => k \in DOMAIN p
  BY BelowFacts
<1> QED
  BY <1>1, <1>2 DEF KeepsWalks, NoNewWalks

(* A take-over on top of plain walks. *)
LEMMA OverWalks ==
  ASSUME NEW p \in Seq(Frame), NEW t \in Seq(Frame), Plain(p), stack' = p \o t, ~open', Len(t) = 1,
         t[1].kind = "over", t[1].id \in DOMAIN entries',
         \A x \in DOMAIN t[1].todo : t[1].todo[x] \in DOMAIN entries'
  PROVE  Walks'
<1>1. /\ Len(stack') = Len(p) + 1 /\ Len(p) \in Nat
      /\ \A k \in DOMAIN stack' : \/ k \in DOMAIN p /\ stack'[k] = p[k]
                                  \/ k - Len(p) \in DOMAIN t /\ stack'[k] = t[k - Len(p)]
  BY Pushed
<1>2. \A k \in DOMAIN stack' : k \in DOMAIN p \/ (k = Len(stack') /\ stack'[k] = t[1])
  <2>1. DOMAIN t = {1} /\ DOMAIN stack' = 1..Len(stack')
    OBVIOUS
  <2>2. ASSUME NEW k \in DOMAIN stack', k - Len(p) \in DOMAIN t, stack'[k] = t[k - Len(p)]
        PROVE  k = Len(stack') /\ stack'[k] = t[1]
    <3>1. k \in Nat /\ k - Len(p) = 1
      BY <2>1, <2>2
    <3>2. k = Len(stack')
      BY <1>1, <3>1
    <3> QED
      BY <2>2, <3>1, <3>2
  <2> QED
    BY <1>1, <2>2
<1>3. \A k \in DOMAIN stack' : k \in DOMAIN p => stack'[k].kind \notin {"over", "reapply"}
  BY <1>1, Pushed DEF Plain
<1> QED
  BY <1>2, <1>3 DEF Walks

LEMMA TakeOverWalks ==
  ASSUME TypeOK, Walks, NEW i \in Ids, TakeOver(i)
  PROVE  Walks' /\ KeepsWalks /\ NoNewWalks
<1>1. PICK todo \in Seq(Ids) : /\ stack' = stack \o TakeOverOf(i, todo)
                               /\ \A x \in DOMAIN todo : todo[x] \in DOMAIN entries
  BY TakeOverFacts
<1>2. PICK t \in Seq(Frame) : t = TakeOverOf(i, todo) /\ Len(t) = 1 /\ t[1].kind = "over" /\ t[1].id = i
                              /\ t[1].todo = todo
  BY NewFrames
<1>3. stack \in Seq(Frame) /\ Plain(stack) /\ i \in DOMAIN entries /\ entries' = entries /\ ~open'
  BY PlainFacts DEF TakeOver, TypeOK
<1>4. \A k \in DOMAIN t : t[k].kind \notin {"list", "reapply"}
  BY <1>2
<1>5. KeepsWalks /\ NoNewWalks
  BY <1>1, <1>2, <1>3, <1>4, StackedOn
<1>6. Walks'
  BY <1>1, <1>2, <1>3, OverWalks
<1> QED
  BY <1>5, <1>6

LEMMA StopOtherWalks ==
  ASSUME TypeOK, Walks, NEW saved \in BOOLEAN, StopOther(saved)
  PROVE  Walks' /\ KeepsWalks /\ NoNewWalks
<1>1. PICK i \in Ids, todo \in Seq(Ids) :
        /\ i \in DOMAIN entries /\ i = Top.id /\ todo = Tail(Top.todo)
        /\ stack' = Below \o TakeOverOf(i, todo) /\ \A x \in DOMAIN todo : todo[x] \in DOMAIN entries
  BY StopOtherFacts, TypeEntries
<1>2. PICK t \in Seq(Frame) : t = TakeOverOf(i, todo) /\ Len(t) = 1 /\ t[1].kind = "over" /\ t[1].id = i
                              /\ t[1].todo = todo
  BY NewFrames
<1>3. stack # <<>> /\ Top.kind = "over" /\ Below \in Seq(Frame) /\ Plain(Below)
  BY OnFacts, BelowFacts, PlainFacts DEF StopOther
<1>4. DOMAIN entries' = DOMAIN entries /\ ~open'
  <2>1. DOMAIN entries' = DOMAIN entries
    BY StopOtherFacts DEF AllStay
  <2>2. ~open
    BY <1>3, BelowFacts DEF Walks
  <2> QED
    BY <2>1, <2>2 DEF StopOther
<1>5. \A k \in DOMAIN t : t[k].kind \notin {"list", "reapply"}
  BY <1>2
<1>6. KeepsWalks /\ NoNewWalks
  BY <1>1, <1>2, <1>3, <1>5, StackedOn
<1>7. Walks'
  BY <1>1, <1>2, <1>3, <1>4, OverWalks
<1> QED
  BY <1>6, <1>7

(* A pass leaves the walks there were, and puts at most one on top. *)
BegunStep(i, mode) ==
  /\ Begun(i, mode) /\ Len(stack') \in DOMAIN stack'
  /\ stack'[Len(stack')].kind = "list" /\ stack'[Len(stack')].id = i
  /\ stack'[Len(stack')].run = NewRun(i)
  /\ \A k \in DOMAIN stack' : stack'[k].kind \in {"list", "reapply"} /\ k # Len(stack') =>
       k \in DOMAIN stack /\ stack[k] = stack'[k]
PassStep == \/ NoNewWalks /\ UNCHANGED <<entries, waits>>
            \/ \E i \in DOMAIN entries : \E mode : BegunStep(i, mode)

LEMMA PassWalks ==
  ASSUME TypeOK, Walks, On("starts") \/ On("due"), NEW rest, PassLeaves(rest), Plain(rest),
         \A k \in DOMAIN rest : rest[k].kind # "list", open' = FALSE
  PROVE  Walks' /\ KeepsWalks /\ PassStep
<1>1. stack # <<>> /\ Top.kind \in {"starts", "due"} /\ Below \in Seq(Frame) /\ Plain(Below)
  BY PlainFacts, BelowFacts DEF On, Quiet
<1>2. rest \in Seq(Frame) /\ \A k \in DOMAIN rest : rest[k].kind \notin {"list", "reapply"}
  BY DEF PassLeaves, Plain
<1>3. PICK p \in Seq(Frame) : p = Below \o rest /\ Plain(p)
  <2>1. Below \o rest \in Seq(Frame)
    BY <1>1, <1>2, Pushed
  <2>2. Plain(Below \o rest)
    BY <1>1, <1>2, PlainJoined
  <2> QED
    BY <2>1, <2>2
<1>4. \A k \in DOMAIN stack : stack[k].kind \in {"list", "reapply"} => k \in DOMAIN p /\ p[k] = stack[k]
  <2>1. ASSUME NEW k \in DOMAIN stack, stack[k].kind \in {"list", "reapply"}
        PROVE  k \in DOMAIN p /\ p[k] = stack[k]
    <3>1. k # Len(stack)
      BY <1>1, <2>1, BelowFacts
    <3>2. k \in DOMAIN Below /\ Below[k] = stack[k]
      BY <1>1, <3>1, BelowFacts
    <3> QED
      BY <1>1, <1>2, <1>3, <3>2, Pushed
  <2> QED
    BY <2>1
<1>5. \A k \in DOMAIN p : p[k].kind \in {"list", "reapply"} => k \in DOMAIN stack /\ stack[k] = p[k]
  <2>1. ASSUME NEW k \in DOMAIN p, p[k].kind \in {"list", "reapply"}
        PROVE  k \in DOMAIN stack /\ stack[k] = p[k]
    <3>1. \/ k \in DOMAIN Below /\ p[k] = Below[k]
          \/ k - Len(Below) \in DOMAIN rest /\ p[k] = rest[k - Len(Below)]
      BY <1>1, <1>2, <1>3, Pushed
    <3>2. k \in DOMAIN Below /\ p[k] = Below[k]
      BY <1>2, <2>1, <3>1
    <3> QED
      BY <1>1, <3>2, BelowFacts
  <2> QED
    BY <2>1
<1>6. CASE stack' = Below \o rest /\ UNCHANGED <<entries, waits>>
  <2>1. KeepsWalks /\ NoNewWalks /\ Plain(stack)'
    BY <1>3, <1>4, <1>5, <1>6 DEF KeepsWalks, NoNewWalks, Plain
  <2> QED
    BY <1>6, <2>1, PlainWalks DEF PassStep
<1>7. ASSUME NEW i \in DOMAIN entries, NEW mode, Begun(i, mode), stack' = Below \o rest \o ListWalk(i, NewRun(i))
      PROVE  Walks' /\ KeepsWalks /\ BegunStep(i, mode)
  <2>1. i \in Ids /\ NewRun(i) \in Nat
    BY NewRunFacts, TypeEntries
  <2>2. PICK t \in Seq(Frame) : t = ListWalk(i, NewRun(i)) /\ Len(t) = 1 /\ t[1].kind = "list" /\ t[1].id = i
                                /\ t[1].run = NewRun(i) /\ Plain(t)
    BY <2>1, NewFrames, PlainWalk
  <2>3. stack' = p \o t
    BY <1>3, <1>7, <2>2
  <2>4. Plain(stack)'
    <3>1. Plain(p \o t)
      BY <1>3, <2>2, PlainJoined
    <3> QED
      BY <2>3, <3>1 DEF Plain
  <2>5. /\ Len(stack') = Len(p) + 1 /\ Len(p) \in Nat /\ Len(stack') \in DOMAIN stack' /\ stack'[Len(stack')] = t[1]
    <3>1. PICK q \in Seq(Frame) : q = p \o t
      BY Pushed
    <3>2. /\ Len(q) = Len(p) + Len(t) /\ Len(p) \in Nat /\ Len(q) \in DOMAIN q
          /\ \A k \in DOMAIN t : q[Len(p) + k] = t[k]
      <4>1. Len(q) = Len(p) + Len(t) /\ Len(p) \in Nat /\ Len(t) = 1 /\ \A k \in DOMAIN t : q[Len(p) + k] = t[k]
        <5>1. Len(p \o t) = Len(p) + Len(t) /\ \A k \in DOMAIN t : (p \o t)[Len(p) + k] = t[k]
          BY Pushed
        <5>2. Len(p) \in Nat
          OBVIOUS
        <5> QED
          BY <2>2, <3>1, <5>1, <5>2
      <4> QED
        BY <4>1
    <3>3. 1 \in DOMAIN t /\ Len(t) = 1
      BY <2>2
    <3> QED
      BY <2>3, <3>1, <3>2, <3>3
  <2>6. \A k \in DOMAIN p : k \in DOMAIN stack' /\ stack'[k] = p[k]
    BY <2>3, Pushed
  <2>7. \A k \in DOMAIN stack' : k # Len(stack') => k \in DOMAIN p
    BY <2>3, <2>5
  <2>8. KeepsWalks
    BY <1>4, <2>6 DEF KeepsWalks
  <2>9. Walks'
    BY <2>4, PlainWalks
  <2> QED
    BY <1>5, <1>7, <2>2, <2>5, <2>6, <2>7, <2>8, <2>9 DEF BegunStep
<1> QED
  BY <1>6, <1>7 DEF PassLeaves, PassStep

LEMMA StartNextWalks ==
  ASSUME TypeOK, Walks, StartNext
  PROVE  Walks' /\ KeepsWalks /\ PassStep
<1>1. On("starts") /\ Tail(Top.todo) \in Seq(Ids) /\ open' = FALSE
  BY StartNextFacts DEF StartNext
<1>2. PICK rest : rest = Starts(Tail(Top.todo)) /\ PassLeaves(rest) /\ Plain(rest)
  BY <1>1, StartNextLeaves, PlainStarts
<1>3. \A k \in DOMAIN rest : rest[k].kind # "list"
  <2>1. /\ rest \in Seq(Frame) /\ Len(rest) \in {0, 1} /\ (Tail(Top.todo) = <<>> => rest = <<>>)
        /\ Tail(Top.todo) # <<>> => Len(rest) = 1 /\ rest[1].kind = "starts"
    BY <1>1, <1>2, StartsFacts
  <2> QED
    BY <2>1
<1> QED
  BY <1>1, <1>2, <1>3, PassWalks

LEMMA RunNextPointWalks ==
  ASSUME TypeOK, Walks, RunNextPoint
  PROVE  Walks' /\ KeepsWalks /\ PassStep
<1>1. On("due") /\ Tail(Top.todo) \in Seq(Ids \X Nat) /\ open' = FALSE
  BY RunNextPointFacts DEF RunNextPoint
<1>2. PICK rest : rest = Due(Tail(Top.todo)) /\ PassLeaves(rest) /\ Plain(rest)
  BY <1>1, RunNextPointLeaves, PlainDue
<1>3. \A k \in DOMAIN rest : rest[k].kind # "list"
  <2>1. /\ rest \in Seq(Frame) /\ Len(rest) \in {0, 1} /\ (Tail(Top.todo) = <<>> => rest = <<>>)
        /\ Tail(Top.todo) # <<>> => Len(rest) = 1 /\ rest[1].kind = "due"
    BY <1>1, <1>2, DueFacts
  <2> QED
    BY <2>1
<1> QED
  BY <1>1, <1>2, <1>3, PassWalks

LEMMA BelowWalks ==
  ASSUME TypeOK, Walks, stack # <<>>, stack' = Below, open' = FALSE
  PROVE  Walks' /\ NoNewWalks
<1>1. Plain(stack)'
  BY PlainFacts DEF Plain
<1>2. NoNewWalks
  BY BelowFacts DEF NoNewWalks
<1> QED
  BY <1>1, <1>2, PlainWalks

LEMMA AdvanceWalks ==
  ASSUME TypeOK, Walks, Advance
  PROVE  Walks' /\ NoNewWalks
<1>1. On("list") /\ stack # <<>>
  BY DEF Advance, On, Quiet
<1>2. PICK i \in DOMAIN entries : AdvanceWaits(i) \/ AdvanceRelay(i) \/ AdvanceThermostat(i)
  BY AdvanceFacts
<1>3. CASE AdvanceWaits(i)
  BY <1>1, <1>3, BelowWalks DEF AdvanceWaits
<1>4. CASE AdvanceRelay(i) \/ AdvanceThermostat(i)
  <2>1. stack' = stack /\ Plain(stack)
    BY <1>1, <1>4, PlainFacts DEF AdvanceRelay, AdvanceThermostat
  <2>2. Plain(stack)' /\ stack' # <<>>
    BY <1>1, <2>1 DEF Plain
  <2>3. NoNewWalks
    BY <2>1 DEF NoNewWalks
  <2> QED
    BY <2>2, <2>3, PlainWalks
<1> QED
  BY <1>2, <1>3, <1>4

LEMMA EndWalkWalks ==
  ASSUME TypeOK, Walks, EndWalk
  PROVE  Walks' /\ NoNewWalks
BY BelowWalks DEF EndWalk, On, Quiet

LEMMA WaitEndsWalks ==
  ASSUME TypeOK, Walks, NEW w \in waits, WaitEnds(w)
  PROVE  Walks'
<1>1. WaitEnded(w) /\ stack = <<>> /\ ~open'
  BY WaitEndsFacts DEF WaitEnds, Quiet, Walks
<1>2. w.id \in Ids /\ w.run \in Nat
  BY DEF TypeOK
<1>3. CASE stack' = ListWalk(w.id, w.run)
  <2>1. Plain(stack)'
    <3>1. Plain(ListWalk(w.id, w.run))
      BY <1>2, PlainWalk
    <3> QED
      BY <1>3, <3>1 DEF Plain
  <2> QED
    BY <1>1, <2>1, PlainWalks
<1>4. CASE stack' = stack
  BY <1>1, <1>4 DEF Walks
<1> QED
  BY <1>1, <1>3, <1>4 DEF WaitEnded

(* A thermostat's list is reapplied, alone on the stack. *)
LEMMA AloneWalks ==
  ASSUME NEW i \in Ids, NEW run \in Nat, NEW t \in Thermostats, NEW at \in Nat,
         stack' = ReapplyWalk(i, run, t, at), ~open'
  PROVE  /\ Walks' /\ DOMAIN stack' = {1} /\ stack'[1].kind = "reapply" /\ stack'[1].id = i
         /\ stack'[1].run = run /\ stack'[1].target = t /\ stack'[1].at = at
<1>1. PICK w \in Seq(Frame) : /\ w = ReapplyWalk(i, run, t, at) /\ Len(w) = 1 /\ w[1].kind = "reapply"
                              /\ w[1].id = i /\ w[1].run = run /\ w[1].target = t /\ w[1].at = at
  <2>1. /\ ReapplyWalk(i, run, t, at) \in Seq(Frame) /\ Len(ReapplyWalk(i, run, t, at)) = 1
        /\ ReapplyWalk(i, run, t, at)[1].kind = "reapply" /\ ReapplyWalk(i, run, t, at)[1].id = i
        /\ ReapplyWalk(i, run, t, at)[1].run = run /\ ReapplyWalk(i, run, t, at)[1].target = t
        /\ ReapplyWalk(i, run, t, at)[1].at = at
    BY NewFrames
  <2> QED
    BY <2>1
<1>2. DOMAIN w = {1} /\ w # <<>>
  <2>1. Len(w) = 1
    BY <1>1
  <2>2. DOMAIN w = 1..Len(w)
    OBVIOUS
  <2>3. DOMAIN w = 1..1 /\ 1..1 = {1}
    BY <2>1, <2>2
  <2>4. w # <<>>
    <3>1. 1 \in DOMAIN w /\ DOMAIN <<>> = 1..0
      BY <2>3
    <3>2. DOMAIN w # DOMAIN <<>>
      BY <3>1
    <3> QED
      BY <3>2
  <2> QED
    BY <2>3, <2>4
<1> QED
  BY <1>1, <1>2 DEF Walks

LEMMA ReapplyWalks ==
  ASSUME TypeOK, Walks, Reapply
  PROVE  /\ Walks' /\ stack = <<>> /\ DOMAIN stack' = {1} /\ stack'[1].kind = "reapply"
         /\ stack'[1].id = Head(jobs).id /\ stack'[1].run = Head(jobs).run
         /\ stack'[1].target = Head(jobs).target /\ stack'[1].at = 1
<1>1. jobs # <<>> /\ Head(jobs).kind = "reapply" /\ stack = <<>> /\ ~open'
      /\ stack' = ReapplyWalk(Head(jobs).id, Head(jobs).run, Head(jobs).target, 1)
  BY DEF Reapply, Quiet, Walks
<1>2. Head(jobs).id \in Ids /\ Head(jobs).run \in Nat /\ Head(jobs).target \in Thermostats
  BY <1>1, HeadJob
<1> QED
  BY <1>1, <1>2, AloneWalks

(* The walk that reapplies is the only one, and only it goes on. *)
LEMMA ReapplyNextWalks ==
  ASSUME TypeOK, Walks, ReapplyNext
  PROVE  /\ Walks' /\ DOMAIN stack = {1} /\ stack[1] = Top
         /\ \/ ReapplyDone /\ stack' = <<>>
            \/ \E i \in DOMAIN entries : \E k \in Nat :
                 /\ Reapplied(i, k) /\ DOMAIN stack' = {1} /\ stack'[1].kind = "reapply"
                 /\ stack'[1].id = i /\ stack'[1].run = Top.run /\ stack'[1].target = Top.target
                 /\ stack'[1].at = k + 1
<1>1. On("reapply") /\ Top.id \in Ids /\ Top.run \in Nat /\ Top.target \in Thermostats /\ open' = FALSE
  BY ReapplyNextFacts DEF ReapplyNext
<1>2. /\ stack # <<>> /\ stack \in Seq(Frame) /\ Len(stack) \in DOMAIN stack /\ Top = stack[Len(stack)]
      /\ Below \in Seq(Frame) /\ Len(Below) = Len(stack) - 1
  BY <1>1, BelowFacts DEF On, Quiet, TypeOK
<1>3. Len(stack) = 1
  BY <1>1, <1>2 DEF On, Walks
<1>4. DOMAIN stack = {1} /\ stack[1] = Top /\ Below = <<>>
  BY <1>2, <1>3
<1>5. CASE ReapplyDone
  <2>1. stack' = <<>>
    BY <1>4, <1>5 DEF ReapplyDone
  <2>2. Walks'
    BY <1>1, <2>1 DEF Walks
  <2> QED
    BY <1>4, <1>5, <2>1, <2>2
<1>6. ASSUME NEW i \in DOMAIN entries, NEW k \in Nat, Reapplied(i, k)
      PROVE  /\ Walks' /\ DOMAIN stack' = {1} /\ stack'[1].kind = "reapply"
             /\ stack'[1].id = i /\ stack'[1].run = Top.run /\ stack'[1].target = Top.target
             /\ stack'[1].at = k + 1
  <2>1. i \in Ids /\ k + 1 \in Nat
    BY TypeEntries
  <2>2. ReapplyWalk(i, Top.run, Top.target, k + 1) \in Seq(Frame)
    BY <1>1, <2>1, NewFrames
  <2>3. stack' = ReapplyWalk(i, Top.run, Top.target, k + 1)
    <3>1. PICK w \in Seq(Frame) : w = ReapplyWalk(i, Top.run, Top.target, k + 1)
      BY <2>2
    <3>2. stack' = <<>> \o w
      BY <1>4, <1>6, <3>1 DEF Reapplied
    <3> QED
      BY <3>1, <3>2
  <2> QED
    BY <1>1, <2>1, <2>3, AloneWalks
<1> QED
  BY <1>4, <1>5, <1>6, ReapplyNextFacts

LEMMA ClockWalks ==
  ASSUME TypeOK, Walks, NEW now \in Nat, NEW passed, ClockValid(now) \/ Jump(now, passed) \/ Tick(now, passed)
  PROVE  Walks' /\ stack = <<>> /\ NoNewWalks
<1>1. stack = <<>> /\ ~open'
  BY DEF ClockValid, Jump, Tick, Quiet, Walks
<1>2. PICK to \in Nat : to = now \div Minute
  BY DivFacts
<1>3. Plain(Starts(All)) /\ Plain(Due(PointsDue(to)))
  BY AllFacts, PointsDueFacts, PlainStarts, PlainDue
<1>4. \A k \in DOMAIN Starts(All) : Starts(All)[k].kind # "list"
  <2>1. PICK s \in Seq(Frame) : s = Starts(All) /\ Len(s) \in {0, 1} /\ (Len(s) = 1 => s[1].kind = "starts")
    <3>1. /\ Starts(All) \in Seq(Frame) /\ Len(Starts(All)) \in {0, 1} /\ (All = <<>> => Starts(All) = <<>>)
          /\ All # <<>> => Len(Starts(All)) = 1 /\ Starts(All)[1].kind = "starts"
      BY AllFacts, StartsFacts
    <3> QED
      BY <3>1
  <2> QED
    BY <2>1
<1>5. \A k \in DOMAIN Due(PointsDue(to)) : Due(PointsDue(to))[k].kind # "list"
  <2>1. PICK s \in Seq(Frame) : s = Due(PointsDue(to)) /\ Len(s) \in {0, 1} /\ (Len(s) = 1 => s[1].kind = "due")
    <3>1. PICK d \in Seq(Ids \X Nat) : d = PointsDue(to)
      BY PointsDueFacts
    <3>2. /\ Due(d) \in Seq(Frame) /\ Len(Due(d)) \in {0, 1} /\ (d = <<>> => Due(d) = <<>>)
          /\ d # <<>> => Len(Due(d)) = 1 /\ Due(d)[1].kind = "due"
      BY DueFacts
    <3> QED
      BY <3>1, <3>2
  <2> QED
    BY <2>1
<1>6. stack' \in {Starts(All), Due(PointsDue(to)), <<>>}
  BY <1>1, <1>2 DEF ClockValid, Jump, Tick
<1>7. Plain(stack)' /\ \A k \in DOMAIN stack' : stack'[k].kind # "list"
  BY <1>3, <1>4, <1>5, <1>6 DEF Plain
<1>8. NoNewWalks
  BY <1>7 DEF NoNewWalks, Plain
<1> QED
  BY <1>1, <1>7, <1>8, PlainWalks

LEMMA RebootWalks ==
  ASSUME NEW full, Reboot(full)
  PROVE  Walks'
BY DEF Reboot, Walks
-----------------------------------------------------------------------------
(* Every step by its kind *)

(* Every step is one of these. *)
Settling(i) == SettledStep(i) /\ KeepsWalks /\ NoNewWalks
(* What relays and thermostats go through but for the lists. *)
Outside == \/ FollowRelay
           \/ \E r \in Switches, value \in {"on", "off"} : Hold(r, value) \/ Release(r, value)
           \/ \E t \in Thermostats : \E after \in After(t) : ClimateChange(t, after)
Bystander == /\ UNCHANGED <<jobs, relay, held, thermo>>
             /\ \A j \in DOMAIN entries : entries'[j].lost = entries[j].lost
(* No list moves, and the flags change in a take-over alone. *)
Aside ==
  /\ Outside \/ Bystander
  /\ AllStay /\ \A j \in DOMAIN entries : entries'[j].waiting = entries[j].waiting
  /\ UNCHANGED waits /\ KeepsWalks /\ NoNewWalks
  /\ \/ On("over")'
     \/ ~On("over") /\ \A j \in DOMAIN entries : entries'[j].enabled = entries[j].enabled
OnePass == (StartNext \/ RunNextPoint) /\ KeepsWalks /\ PassStep
OneWaitEnds == \E w \in waits : WaitEnds(w)
OneReboot == \E full \in 1..(N + 1) : Reboot(full)
StepKind == \/ \E i \in Ids : Settling(i)
            \/ Aside \/ OnePass \/ Advance \/ EndWalk \/ OneWaitEnds \/ Reapply \/ ReapplyNext \/ OneReboot

LEMMA AllSame ==
  ASSUME TypeOK, entries' = entries
  PROVE  /\ AllStay
         /\ \A j \in DOMAIN entries : /\ entries'[j].waiting = entries[j].waiting
                                      /\ entries'[j].enabled = entries[j].enabled
                                      /\ entries'[j].lost = entries[j].lost
BY TypeEntries DEF AllStay, Stays

LEMMA CallsNotOver ==
  ASSUME TypeOK, Walks, MayCall \/ Quiet
  PROVE  ~On("over")
BY NotOver DEF On

LEMMA CallKinds ==
  ASSUME TypeOK, Walks, NEW i \in Ids,
         \/ \E d \in Docs, enabled \in BOOLEAN : Add(i, d, enabled) \/ Replace(i, d, enabled)
         \/ \E file \in {NoFile, BadFile, files[i]} : Remove(i, file)
         \/ \E file \in {NoFile, BadFile} : RemoveNotLoaded(i, file)
         \/ \E saved \in BOOLEAN : Disable(i, saved) \/ Enable(i, saved)
         \/ TakeOver(i)
  PROVE  TypeOK' /\ Walks' /\ (Settling(i) \/ Aside)
<1>1. ASSUME NEW d \in Docs, NEW enabled \in BOOLEAN, Add(i, d, enabled)
      PROVE  TypeOK' /\ Walks' /\ Settling(i)
  BY <1>1, AddType, AddSettles, SettledStack DEF Add, Settling
<1>2. ASSUME NEW d \in Docs, NEW enabled \in BOOLEAN, Replace(i, d, enabled)
      PROVE  TypeOK' /\ Walks' /\ Settling(i)
  BY <1>2, ReplaceType, ReplaceSettles, SettledStack DEF Replace, Settling
<1>3. ASSUME NEW file \in {NoFile, BadFile, files[i]}, Remove(i, file)
      PROVE  TypeOK' /\ Walks' /\ Settling(i)
  BY <1>3, RemoveType, RemoveSettles, SettledStack DEF Remove, Settling
<1>4. ASSUME NEW file \in {NoFile, BadFile}, RemoveNotLoaded(i, file)
      PROVE  TypeOK' /\ Walks' /\ Aside
  <2>1. UNCHANGED <<entries, waits, stack, open>> /\ MayCall /\ UNCHANGED <<jobs, relay, held, thermo>>
    BY <1>4 DEF RemoveNotLoaded
  <2>2. Bystander
    BY <2>1, AllSame DEF Bystander
  <2> QED
    BY <1>4, <2>1, <2>2, RemoveNotLoadedType, AllSame, SameWalks, CallsNotOver DEF Aside
<1>5. ASSUME NEW saved \in BOOLEAN, Disable(i, saved)
      PROVE  TypeOK' /\ Walks' /\ Settling(i)
  BY <1>5, DisableType, DisableSettles, SettledStack DEF Disable, Settling
<1>6. ASSUME NEW saved \in BOOLEAN, Enable(i, saved)
      PROVE  TypeOK' /\ Walks' /\ Settling(i)
  BY <1>6, EnableType, EnableSettles, SettledStack DEF Enable, Settling
<1>7. CASE TakeOver(i)
  <2>1. UNCHANGED <<entries, waits>>
    BY <1>7 DEF TakeOver
  <2>3. Bystander
    BY <1>7, <2>1, AllSame DEF TakeOver, Bystander
  <2>2. On("over")'
    <3>1. PICK todo \in Seq(Ids) : stack' = stack \o TakeOverOf(i, todo)
      BY <1>7, TakeOverFacts
    <3>2. PICK t \in Seq(Frame) : t = TakeOverOf(i, todo) /\ Len(t) = 1 /\ t[1].kind = "over"
      BY NewFrames
    <3>3. stack \in Seq(Frame)
      BY DEF TypeOK
    <3>4. Len(stack \o t) = Len(stack) + 1 /\ (stack \o t)[Len(stack) + 1] = t[1] /\ Len(stack) \in Nat
      BY <3>2, <3>3, Pushed
    <3>5. stack' # <<>> /\ stack'[Len(stack')].kind = "over"
      BY <3>1, <3>2, <3>4
    <3> QED
      BY <3>5 DEF On, Quiet, Top
  <2> QED
    BY <1>7, <2>1, <2>2, <2>3, TakeOverType, TakeOverWalks, AllSame DEF Aside
<1> QED
  BY <1>1, <1>2, <1>3, <1>4, <1>5, <1>6, <1>7

LEMMA StopOtherKind ==
  ASSUME TypeOK, Walks, NEW saved \in BOOLEAN, StopOther(saved)
  PROVE  TypeOK' /\ Walks' /\ Aside
<1>1. AllStay /\ \A j \in DOMAIN entries : SameList(entries'[j], entries[j])
  BY StopOtherFacts
<1>2. waits' = waits
  BY DEF StopOther
<1>4. Bystander
  BY <1>1 DEF StopOther, SameList, Bystander
<1>3. On("over")'
  <2>1. PICK i \in Ids, todo \in Seq(Ids) : i = Top.id /\ todo = Tail(Top.todo) /\ stack' = Below \o TakeOverOf(i, todo)
    BY StopOtherFacts, TypeEntries
  <2>2. PICK t \in Seq(Frame) : t = TakeOverOf(i, todo) /\ Len(t) = 1 /\ t[1].kind = "over"
    BY NewFrames
  <2>3. Below \in Seq(Frame)
    BY OnFacts, BelowFacts DEF StopOther
  <2>4. Len(Below \o t) = Len(Below) + 1 /\ (Below \o t)[Len(Below) + 1] = t[1] /\ Len(Below) \in Nat
    BY <2>2, <2>3, Pushed
  <2>5. stack' # <<>> /\ stack'[Len(stack')].kind = "over"
    BY <2>1, <2>2, <2>4
  <2> QED
    BY <2>5 DEF On, Quiet, Top
<1> QED
  BY <1>1, <1>2, <1>3, <1>4, StopOtherType, StopOtherWalks DEF Aside, SameList

LEMMA TakenOverKind ==
  ASSUME TypeOK, Walks, NEW saved \in BOOLEAN, TakenOver(saved)
  PROVE  TypeOK' /\ Walks' /\ \E i \in Ids : Settling(i)
<1>1. On("over") /\ Top.id \in Ids /\ SettledStep(Top.id)
  BY TakenOverSettles, TypeEntries DEF TakenOver
<1> QED
  BY <1>1, TakenOverType, SettledStack DEF Settling

LEMMA LoopKinds ==
  ASSUME TypeOK, Walks, StartNext \/ RunNextPoint \/ Advance \/ EndWalk \/ ReapplyNext \/ OneWaitEnds \/ Reapply
  PROVE  TypeOK' /\ Walks' /\ (OnePass \/ Advance \/ EndWalk \/ ReapplyNext \/ OneWaitEnds \/ Reapply)
<1>1. CASE StartNext
  BY <1>1, StartNextType, StartNextWalks DEF OnePass
<1>2. CASE RunNextPoint
  BY <1>2, RunNextPointType, RunNextPointWalks DEF OnePass
<1>3. CASE Advance
  BY <1>3, AdvanceType, AdvanceWalks
<1>4. CASE EndWalk
  BY <1>4, EndWalkType, EndWalkWalks
<1>5. CASE ReapplyNext
  BY <1>5, ReapplyNextType, ReapplyNextWalks
<1>6. CASE OneWaitEnds
  BY <1>6, WaitEndsType, WaitEndsWalks DEF OneWaitEnds
<1>7. CASE Reapply
  BY <1>7, ReapplyType, ReapplyWalks
<1> QED
  BY <1>1, <1>2, <1>3, <1>4, <1>5, <1>6, <1>7

LEMMA OutsideKinds ==
  ASSUME TypeOK, Walks,
         \/ FollowRelay
         \/ \E r \in Switches, value \in {"on", "off"} : Hold(r, value) \/ Release(r, value)
         \/ \E t \in Thermostats : \E after \in After(t) : ClimateChange(t, after)
         \/ \E now \in Clocks : \/ ClockValid(now)
                                \/ \E passed \in Stalls : Jump(now, passed) \/ Tick(now, passed)
         \/ UNCHANGED vars
  PROVE  TypeOK' /\ Walks' /\ Aside
<1>1. CASE FollowRelay
  <2>1. UNCHANGED <<entries, waits, stack, open>> /\ Quiet
    BY <1>1 DEF FollowRelay
  <2> QED
    BY <1>1, <2>1, FollowRelayType, AllSame, SameWalks, CallsNotOver DEF Aside, Outside
<1>2. ASSUME NEW r \in Switches, NEW value \in {"on", "off"}, Hold(r, value)
      PROVE  TypeOK' /\ Walks' /\ Aside
  <2>1. UNCHANGED <<entries, waits, stack, open>> /\ MayCall
    BY <1>2 DEF Hold
  <2> QED
    BY <1>2, <2>1, HoldType, AllSame, SameWalks, CallsNotOver DEF Aside, Outside
<1>3. ASSUME NEW r \in Switches, NEW value \in {"on", "off"}, Release(r, value)
      PROVE  TypeOK' /\ Walks' /\ Aside
  <2>1. UNCHANGED <<entries, waits, stack, open>> /\ MayCall
    BY <1>3 DEF Release
  <2> QED
    BY <1>3, <2>1, ReleaseType, AllSame, SameWalks, CallsNotOver DEF Aside, Outside
<1>4. ASSUME NEW t \in Thermostats, NEW after \in After(t), ClimateChange(t, after)
      PROVE  TypeOK' /\ Walks' /\ Aside
  <2>1. UNCHANGED <<waits, stack, open>> /\ MayCall
    BY <1>4 DEF ClimateChange
  <2>2. /\ AllStay
        /\ \A i \in DOMAIN entries : entries'[i].waiting = entries[i].waiting /\ entries'[i].enabled = entries[i].enabled
    BY <1>4, ClimateChangeFacts
  <2>3. DOMAIN entries' = DOMAIN entries
    BY <2>2 DEF AllStay
  <2> QED
    BY <1>4, <2>1, <2>2, <2>3, ClimateChangeType, SameWalks, CallsNotOver DEF Aside, Outside
<1>5. ASSUME NEW now \in Clocks, NEW passed, ClockValid(now) \/ Jump(now, passed) \/ Tick(now, passed)
      PROVE  TypeOK' /\ Walks' /\ Aside
  <2>0. now \in Nat
    BY ScheduleAssumption
  <2>1. UNCHANGED <<entries, waits>> /\ Quiet
    BY <1>5 DEF ClockValid, Jump, Tick
  <2>2. TypeOK'
    BY <1>5, <2>0, ClockValidType, JumpType, TickType
  <2>3. Walks' /\ stack = <<>> /\ NoNewWalks
    BY <1>5, <2>0, ClockWalks
  <2>4. KeepsWalks
    BY <2>3 DEF KeepsWalks
  <2>5. Bystander
    BY <1>5, <2>1, AllSame DEF ClockValid, Jump, Tick, Bystander
  <2> QED
    BY <2>1, <2>2, <2>3, <2>4, <2>5, AllSame, CallsNotOver DEF Aside
<1>6. CASE UNCHANGED vars
  <2>1. UNCHANGED <<entries, waits, stack, open>>
    BY <1>6 DEF vars
  <2>2. On("over")' \/ ~On("over")
    BY <2>1 DEF On, Quiet, Top
  <2>3. Bystander
    BY <1>6, <2>1, AllSame DEF vars, Bystander
  <2> QED
    BY <1>6, <2>1, <2>2, <2>3, UnchangedType, AllSame, SameWalks DEF Aside
<1> QED
  BY <1>1, <1>2, <1>3, <1>4, <1>5, <1>6

LEMMA StepKinds ==
  ASSUME TypeOK, Walks, [Next]_vars
  PROVE  TypeOK' /\ Walks' /\ StepKind
<1>1. ASSUME NEW i \in Ids,
             \/ \E d \in Docs, enabled \in BOOLEAN : Add(i, d, enabled) \/ Replace(i, d, enabled)
             \/ \E file \in {NoFile, BadFile, files[i]} : Remove(i, file)
             \/ \E file \in {NoFile, BadFile} : RemoveNotLoaded(i, file)
             \/ \E saved \in BOOLEAN : Disable(i, saved) \/ Enable(i, saved)
             \/ TakeOver(i)
      PROVE  TypeOK' /\ Walks' /\ StepKind
  BY <1>1, CallKinds DEF StepKind
<1>2. ASSUME NEW saved \in BOOLEAN, StopOther(saved) \/ TakenOver(saved)
      PROVE  TypeOK' /\ Walks' /\ StepKind
  BY <1>2, StopOtherKind, TakenOverKind DEF StepKind
<1>3. CASE StartNext \/ RunNextPoint \/ Advance \/ EndWalk \/ ReapplyNext \/ OneWaitEnds \/ Reapply
  BY <1>3, LoopKinds DEF StepKind
<1>4. CASE \/ FollowRelay
           \/ \E r \in Switches, value \in {"on", "off"} : Hold(r, value) \/ Release(r, value)
           \/ \E t \in Thermostats : \E after \in After(t) : ClimateChange(t, after)
           \/ \E now \in Clocks : \/ ClockValid(now)
                                  \/ \E passed \in Stalls : Jump(now, passed) \/ Tick(now, passed)
           \/ UNCHANGED vars
  BY <1>4, OutsideKinds DEF StepKind
<1>5. ASSUME NEW full \in 1..(N + 1), Reboot(full)
      PROVE  TypeOK' /\ Walks' /\ StepKind
  BY <1>5, RebootType, RebootWalks DEF StepKind, OneReboot
<1> QED
  BY <1>1, <1>2, <1>3, <1>4, <1>5, Zenon DEF Next, OneWaitEnds, After
-----------------------------------------------------------------------------
(* Who drives *)

Exact == \A i \in DOMAIN entries :
  entries[i].active <=> /\ entries[i].enabled
                        /\ \A j \in DOMAIN entries :
                             j < i /\ entries[j].active => ~Sharing(entries[i].doc, entries[j].doc)
SameDrivers == /\ DOMAIN entries' = DOMAIN entries
               /\ \A j \in DOMAIN entries : entries'[j].active = entries[j].active /\ entries'[j].doc = entries[j].doc
Drivings == DriversExact /\ Apart /\ OnlyDriversRun

LEMMA ExactApart ==
  ASSUME DOMAIN entries \subseteq Ids, Exact
  PROVE  Apart
<1>1. SUFFICES ASSUME NEW i \in DOMAIN entries, NEW j \in DOMAIN entries, i # j, entries[i].active, entries[j].active
      PROVE  ~Sharing(entries[i].doc, entries[j].doc)
  BY DEF Apart
<1>2. i \in Int /\ j \in Int
  BY IdsFacts
<1>3. CASE j < i
  BY <1>1, <1>3 DEF Exact
<1>4. CASE i < j
  <2>1. ~Sharing(entries[j].doc, entries[i].doc)
    BY <1>1, <1>4 DEF Exact
  <2> QED
    BY <2>1, SharingSymmetric
<1> QED
  BY <1>1, <1>2, <1>3, <1>4

LEMMA ExactThen ==
  ASSUME DOMAIN entries' \subseteq Ids, Exact'
  PROVE  DriversExact' /\ Apart'
<1>1. SUFFICES ASSUME NEW i \in DOMAIN entries', NEW j \in DOMAIN entries', i # j, entries'[i].active, entries'[j].active
      PROVE  ~Sharing(entries'[i].doc, entries'[j].doc)
  BY DEF Apart, Exact, DriversExact
<1>2. i \in Int /\ j \in Int
  BY IdsFacts
<1>3. CASE j < i
  BY <1>1, <1>3 DEF Exact
<1>4. CASE i < j
  <2>1. ~Sharing(entries'[j].doc, entries'[i].doc)
    BY <1>1, <1>4 DEF Exact
  <2> QED
    BY <2>1, SharingSymmetric
<1> QED
  BY <1>1, <1>2, <1>3, <1>4

LEMMA SameDrive ==
  ASSUME Drivings, SameDrivers,
         On("over")' \/ (~On("over") /\ \A j \in DOMAIN entries : entries'[j].enabled = entries[j].enabled)
  PROVE  DriversExact' /\ Apart'
<1>1. Apart'
  BY DEF Drivings, Apart, SameDrivers
<1>2. CASE On("over")'
  BY <1>1, <1>2 DEF DriversExact
<1>3. CASE ~On("over") /\ \A j \in DOMAIN entries : entries'[j].enabled = entries[j].enabled
  BY <1>1, <1>3 DEF DriversExact, SameDrivers, Drivings
<1> QED
  BY <1>2, <1>3

LEMMA OnOneKind ==
  ASSUME NEW kind \in {"list", "starts", "due", "reapply"}, On(kind)
  PROVE  ~On("over")
BY DEF On

LEMMA DrivingsKept ==
  ASSUME TypeOK, Walks, Drivings, StepKind, TypeOK'
  PROVE  Drivings'
<1>0. DOMAIN entries' \subseteq Ids
  BY DEF TypeOK
<1>1. ASSUME NEW i \in Ids, Settling(i)
      PROVE  Drivings'
  <2>1. Exact'
    BY <1>1 DEF Settling, SettledStep, Exact
  <2>2. OnlyDriversRun'
    BY <1>1 DEF Settling, SettledStep, Stops, Unmoved, SameList, OnlyDriversRun, Drivings
  <2> QED
    BY <1>0, <2>1, <2>2, ExactThen DEF Drivings
<1>2. CASE Aside
  <2>1. SameDrivers /\ OnlyDriversRun'
    BY <1>2 DEF Aside, AllStay, Stays, SameDrivers, OnlyDriversRun, Drivings
  <2> QED
    BY <1>2, <2>1, SameDrive DEF Aside, Drivings
<1>3. CASE OnePass
  <2>1. ~On("over")
    BY <1>3, OnOneKind DEF OnePass, StartNext, RunNextPoint
  <2>2. SameDrivers /\ OnlyDriversRun' /\ \A j \in DOMAIN entries : entries'[j].enabled = entries[j].enabled
    <3>1. CASE UNCHANGED entries
      BY <3>1 DEF SameDrivers, OnlyDriversRun, Drivings
    <3>2. ASSUME NEW i \in DOMAIN entries, NEW mode, Begun(i, mode)
          PROVE  SameDrivers /\ OnlyDriversRun' /\ \A j \in DOMAIN entries : entries'[j].enabled = entries[j].enabled
      <4>1. entries[i].active /\ entries'[i].active /\ entries'[i].active \in BOOLEAN /\ entries[i].active \in BOOLEAN
        BY <3>2, TypeEntries DEF Begun, EntryOK, Entry
      <4> QED
        BY <3>2, <4>1 DEF Begun, SameFile, SameDrivers, OnlyDriversRun, Drivings
    <3> QED
      BY <1>3, <3>1, <3>2 DEF OnePass, PassStep, BegunStep
  <2> QED
    BY <2>1, <2>2, SameDrive DEF Drivings
<1>4. CASE Advance
  <2>1. PICK i \in DOMAIN entries : Advanced(i)
    BY <1>4, AdvanceFacts
  <2>2. entries[i].active /\ entries'[i].active /\ entries'[i].active \in BOOLEAN /\ entries[i].active \in BOOLEAN
    BY <2>1, TypeEntries DEF Advanced, Runs, EntryOK, Entry
  <2>3. SameDrivers /\ OnlyDriversRun' /\ \A j \in DOMAIN entries : entries'[j].enabled = entries[j].enabled
    BY <2>1, <2>2 DEF Advanced, SameFile, SameDrivers, OnlyDriversRun, Drivings
  <2>4. ~On("over")
    BY <2>1, OnOneKind DEF Advanced
  <2> QED
    BY <2>3, <2>4, SameDrive DEF Drivings
<1>5. CASE UNCHANGED entries /\ ~On("over")
  <2>1. SameDrivers /\ OnlyDriversRun' /\ \A j \in DOMAIN entries : entries'[j].enabled = entries[j].enabled
    BY <1>5 DEF SameDrivers, OnlyDriversRun, Drivings
  <2> QED
    BY <1>5, <2>1, SameDrive DEF Drivings
<1>6. CASE EndWalk
  BY <1>5, <1>6, OnOneKind DEF EndWalk
<1>7. CASE Reapply
  BY <1>5, <1>7 DEF Reapply, On
<1>8. CASE OneWaitEnds
  <2>1. PICK w \in waits : WaitEnded(w) /\ Quiet
    BY <1>8, WaitEndsFacts DEF OneWaitEnds, WaitEnds
  <2>2. SameDrivers /\ OnlyDriversRun' /\ \A j \in DOMAIN entries : entries'[j].enabled = entries[j].enabled
    BY <2>1 DEF WaitEnded, AllStay, Stays, SameFile, SameDrivers, OnlyDriversRun, Drivings
  <2> QED
    BY <2>1, <2>2, SameDrive DEF Drivings, On
<1>9. CASE ReapplyNext
  <2>1. On("reapply") /\ (ReapplyDone \/ \E i \in DOMAIN entries : \E k \in Nat : Reapplied(i, k))
    BY <1>9, ReapplyNextFacts
  <2>2. ~On("over")
    BY <2>1, OnOneKind
  <2>3. CASE ReapplyDone
    BY <1>5, <2>2, <2>3 DEF ReapplyDone
  <2>4. ASSUME NEW i \in DOMAIN entries, NEW k \in Nat, Reapplied(i, k)
        PROVE  Drivings'
    <3>1. SameDrivers /\ OnlyDriversRun' /\ \A j \in DOMAIN entries : entries'[j].enabled = entries[j].enabled
      BY <2>4 DEF Reapplied, AllStay, Stays, SameDrivers, OnlyDriversRun, Drivings
    <3> QED
      BY <2>2, <3>1, SameDrive DEF Drivings
  <2> QED
    BY <2>1, <2>3, <2>4
<1>10. CASE OneReboot
  <2>1. PICK full \in Nat : entries' = Boot(files, full)
    BY <1>10, FullFacts DEF OneReboot, Reboot
  <2>2. files \in [Ids -> File]
    BY DEF TypeOK
  <2>3. Exact' /\ OnlyDriversRun'
    BY <2>1, <2>2, BootFacts DEF Exact, OnlyDriversRun
  <2> QED
    BY <1>0, <2>3, ExactThen DEF Drivings
<1> QED
  BY <1>1, <1>2, <1>3, <1>4, <1>6, <1>7, <1>8, <1>9, <1>10 DEF StepKind
-----------------------------------------------------------------------------
(* Walks and waits *)

LEMMA WalkedOnceKept ==
  ASSUME TypeOK, Walks, WalkedOnce, StepKind, TypeOK'
  PROVE  WalkedOnce'
<1>1. ASSUME NoNewWalks,
             \A i \in DOMAIN entries' : \/ /\ i \in DOMAIN entries /\ entries'[i].run = entries[i].run
                                           /\ entries'[i].waiting => entries[i].waiting
                                        \/ ~entries'[i].waiting
      PROVE  WalkedOnce'
  BY <1>1 DEF WalkedOnce, NoNewWalks, IsWalk
<1>2. ASSUME NEW i \in Ids, Settling(i)
      PROVE  WalkedOnce'
  <2>1. \A j \in DOMAIN entries' : \/ /\ j \in DOMAIN entries /\ entries'[j].run = entries[j].run
                                      /\ entries'[j].waiting => entries[j].waiting
                                   \/ ~entries'[j].waiting
    BY <1>2 DEF Settling, SettledStep, Stops, Unmoved, SameList
  <2> QED
    BY <1>1, <1>2, <2>1 DEF Settling
<1>3. CASE Aside
  BY <1>1, <1>3 DEF Aside, AllStay, Stays
<1>4. CASE OnePass
  <2>1. CASE NoNewWalks /\ UNCHANGED <<entries, waits>>
    BY <1>1, <2>1
  <2>2. ASSUME NEW i \in DOMAIN entries, NEW mode, BegunStep(i, mode)
        PROVE  WalkedOnce'
    <3>1. i \in Ids /\ \A k \in DOMAIN stack : stack[k].kind = "list" /\ stack[k].id = i => stack[k].run # NewRun(i)
      BY NewRunFacts, TypeEntries
    <3>2. PICK n : n = Len(stack') /\ n \in DOMAIN stack'
      BY <2>2 DEF BegunStep
    <3>3. \A k \in DOMAIN stack' : stack'[k].kind = "list" /\ k # n => k \in DOMAIN stack /\ stack[k] = stack'[k]
      BY <2>2, <3>2 DEF BegunStep
    <3>4. /\ DOMAIN entries' = DOMAIN entries /\ ~entries'[i].waiting
          /\ \A j \in DOMAIN entries : j # i => entries'[j] = entries[j]
      BY <2>2 DEF BegunStep, Begun
    <3>5. stack'[n].kind = "list" /\ stack'[n].id = i /\ stack'[n].run = NewRun(i)
      BY <2>2, <3>2 DEF BegunStep
    <3>6. \A k, l \in DOMAIN stack' :
            stack'[k].kind = "list" /\ stack'[l].kind = "list" /\ stack'[l].id = stack'[k].id /\ stack'[l].run = stack'[k].run
              => k = l
      <4>1. SUFFICES ASSUME NEW k \in DOMAIN stack', NEW l \in DOMAIN stack', stack'[k].kind = "list",
                            stack'[l].kind = "list", stack'[l].id = stack'[k].id, stack'[l].run = stack'[k].run
                     PROVE  k = l
        OBVIOUS
      <4>2. CASE k # n /\ l # n
        BY <3>3, <4>1, <4>2 DEF WalkedOnce, IsWalk
      <4>3. CASE k = n /\ l # n
        BY <3>1, <3>3, <3>5, <4>1, <4>3
      <4>4. CASE k # n /\ l = n
        BY <3>1, <3>3, <3>5, <4>1, <4>4
      <4> QED
        BY <4>2, <4>3, <4>4
    <3>7. \A j \in DOMAIN entries', k \in DOMAIN stack' :
            stack'[k].kind = "list" /\ stack'[k].id = j /\ stack'[k].run = entries'[j].run => ~entries'[j].waiting
      <4>1. SUFFICES ASSUME NEW j \in DOMAIN entries', NEW k \in DOMAIN stack', j # i, stack'[k].kind = "list",
                            stack'[k].id = j, stack'[k].run = entries'[j].run
                     PROVE  ~entries'[j].waiting
        BY <3>4
      <4>2. k # n
        BY <3>5, <4>1
      <4> QED
        BY <3>3, <3>4, <4>1, <4>2 DEF WalkedOnce, IsWalk
    <3> QED
      BY <3>6, <3>7 DEF WalkedOnce, IsWalk
  <2> QED
    BY <1>4, <2>1, <2>2 DEF OnePass, PassStep
<1>5. CASE Advance
  <2>1. PICK i \in DOMAIN entries : Advanced(i) /\ (AdvanceWaits(i) \/ AdvanceRelay(i) \/ AdvanceThermostat(i))
    BY <1>5, AdvanceFacts
  <2>2. NoNewWalks
    BY <1>5, AdvanceWalks
  <2>3. CASE AdvanceRelay(i) \/ AdvanceThermostat(i)
    <3>1. \A j \in DOMAIN entries' : /\ j \in DOMAIN entries /\ entries'[j].run = entries[j].run
                                     /\ entries'[j].waiting => entries[j].waiting
      BY <2>1, <2>3 DEF Advanced, AdvanceRelay, AdvanceThermostat
    <3> QED
      BY <1>1, <2>2, <3>1
  <2>4. CASE AdvanceWaits(i)
    <3>1. On("list") /\ Top.id = i /\ Top.run = entries[i].run /\ stack' = Below
      BY <2>1, <2>4 DEF Advanced, AdvanceWaits, Runs
    <3>2. /\ Len(stack) \in DOMAIN stack /\ IsWalk(Len(stack), i, entries[i].run)
          /\ \A k \in DOMAIN stack' : k \in DOMAIN stack /\ k < Len(stack) /\ stack'[k] = stack[k]
      BY <3>1, BelowFacts DEF On, Quiet, IsWalk
    <3>3. \A k \in DOMAIN stack' : k \in DOMAIN stack /\ k # Len(stack) /\ stack'[k] = stack[k]
      <4>1. Len(stack) \in Nat
        BY DEF TypeOK
      <4>2. \A k \in DOMAIN stack' : k # Len(stack)
        BY <3>2, <4>1
      <4> QED
        BY <3>2, <4>2
    <3>4. /\ DOMAIN entries' = DOMAIN entries /\ entries'[i].run = entries[i].run
          /\ \A j \in DOMAIN entries : j # i => entries'[j] = entries[j]
      BY <2>1 DEF Advanced
    <3>5. \A k \in DOMAIN stack' : ~(stack'[k].kind = "list" /\ stack'[k].id = i /\ stack'[k].run = entries[i].run)
      BY <3>2, <3>3 DEF WalkedOnce, IsWalk
    <3>6. \A k, l \in DOMAIN stack' :
            stack'[k].kind = "list" /\ stack'[l].kind = "list" /\ stack'[l].id = stack'[k].id /\ stack'[l].run = stack'[k].run
              => k = l
      BY <3>3 DEF WalkedOnce, IsWalk
    <3>7. \A j \in DOMAIN entries', k \in DOMAIN stack' :
            stack'[k].kind = "list" /\ stack'[k].id = j /\ stack'[k].run = entries'[j].run => ~entries'[j].waiting
      BY <3>3, <3>4, <3>5 DEF WalkedOnce, IsWalk
    <3> QED
      BY <3>6, <3>7 DEF WalkedOnce, IsWalk
  <2> QED
    BY <2>1, <2>3, <2>4
<1>6. CASE EndWalk
  BY <1>1, <1>6, EndWalkWalks DEF EndWalk
<1>7. CASE OneWaitEnds
  <2>1. PICK w \in waits : WaitEnded(w) /\ stack = <<>>
    BY <1>7, WaitEndsFacts DEF OneWaitEnds, WaitEnds, Quiet
  <2>2. CASE UNCHANGED <<entries, stack>>
    BY <2>2 DEF WalkedOnce, IsWalk
  <2>3. CASE ~entries'[w.id].waiting /\ stack' = ListWalk(w.id, w.run)
    <3>1. w.id \in Ids /\ w.run \in Nat
      BY DEF TypeOK
    <3>2. PICK t \in Seq(Frame) : t = ListWalk(w.id, w.run) /\ Len(t) = 1 /\ t[1].kind = "list" /\ t[1].id = w.id
      BY <3>1, NewFrames
    <3>3. \A k, l \in DOMAIN stack' : k = l /\ stack'[k].id = w.id
      BY <2>3, <3>2
    <3> QED
      BY <2>3, <3>3 DEF WalkedOnce, IsWalk
  <2> QED
    BY <2>1, <2>2, <2>3 DEF WaitEnded
<1>8. CASE Reapply \/ ReapplyNext
  <2>1. \A k \in DOMAIN stack' : stack'[k].kind # "list"
    <3>1. CASE Reapply
      BY <3>1, ReapplyWalks
    <3>2. CASE ReapplyNext
      BY <3>2, ReapplyNextWalks
    <3> QED
      BY <1>8, <3>1, <3>2
  <2> QED
    BY <2>1 DEF WalkedOnce, IsWalk
<1>9. CASE OneReboot
  BY <1>9 DEF OneReboot, Reboot, WalkedOnce
<1> QED
  BY <1>2, <1>3, <1>4, <1>5, <1>6, <1>7, <1>8, <1>9 DEF StepKind

Unfinished(j) == entries[j].mode # 0 /\ entries[j].next < Len(List(entries[j]))
OnItsWay(j) == \/ entries[j].waiting /\ [id |-> j, run |-> entries[j].run] \in waits
               \/ \E k \in DOMAIN stack : IsWalk(k, j, entries[j].run)

LEMMA NeverStallForm == ListsNeverStall <=> \A j \in DOMAIN entries : Unfinished(j) => OnItsWay(j)
BY DEF ListsNeverStall, Unfinished, OnItsWay, IsWalk

LEMMA NeverStallThen ==
  ASSUME \A j \in DOMAIN entries' : Unfinished(j)' => OnItsWay(j)'
  PROVE  ListsNeverStall'
BY DEF ListsNeverStall, Unfinished, OnItsWay, IsWalk

(* A list that keeps its place keeps on its way as long as its wait, or its walk, is there. *)
LEMMA StaysOnItsWay ==
  ASSUME ListsNeverStall, NEW j \in DOMAIN entries, j \in DOMAIN entries', Unfinished(j)',
         entries'[j].mode = entries[j].mode, entries'[j].next = entries[j].next,
         entries'[j].doc = entries[j].doc, entries'[j].run = entries[j].run,
         entries[j].waiting => entries'[j].waiting,
         entries[j].waiting /\ [id |-> j, run |-> entries[j].run] \in waits => [id |-> j, run |-> entries[j].run] \in waits',
         \A k \in DOMAIN stack : IsWalk(k, j, entries[j].run) =>
           k \in DOMAIN stack' /\ stack'[k] = stack[k]
  PROVE  OnItsWay(j)'
<1>1. Unfinished(j)
  BY DEF Unfinished, List
<1>2. OnItsWay(j)
  BY <1>1, NeverStallForm
<1>3. CASE entries[j].waiting /\ [id |-> j, run |-> entries[j].run] \in waits
  BY <1>3 DEF OnItsWay
<1>4. ASSUME NEW k \in DOMAIN stack, IsWalk(k, j, entries[j].run)
      PROVE  OnItsWay(j)'
  BY <1>4 DEF OnItsWay, IsWalk
<1> QED
  BY <1>2, <1>3, <1>4 DEF OnItsWay

LEMMA NeverStallKept ==
  ASSUME TypeOK, Walks, Drivings, ListsNeverStall, StepKind, TypeOK'
  PROVE  ListsNeverStall'
<1>1. SUFFICES ASSUME NEW j \in DOMAIN entries', Unfinished(j)'
               PROVE  OnItsWay(j)'
  BY NeverStallThen
<1>2. entries'[j].mode # 0
  BY <1>1 DEF Unfinished
<1>3. ASSUME NEW i \in Ids, Settling(i)
      PROVE  OnItsWay(j)'
  <2>1. Unmoved(j)
    BY <1>2, <1>3 DEF Settling, SettledStep, Stops
  <2>2. [id |-> j, run |-> entries[j].run] \in waits => [id |-> j, run |-> entries[j].run] \in waits'
    BY <1>2, <1>3 DEF Settling, SettledStep, Stops
  <2>3. \A k \in DOMAIN stack : IsWalk(k, j, entries[j].run) => k \in DOMAIN stack' /\ stack'[k] = stack[k]
    BY <1>3 DEF Settling, KeepsWalks, IsWalk
  <2> QED
    BY <1>1, <2>1, <2>2, <2>3, StaysOnItsWay DEF Unmoved, SameList
<1>4. CASE Aside
  <2>1. Stays(j) /\ j \in DOMAIN entries /\ entries'[j].waiting = entries[j].waiting /\ waits' = waits
    BY <1>4 DEF Aside, AllStay
  <2>2. \A k \in DOMAIN stack : IsWalk(k, j, entries[j].run) => k \in DOMAIN stack' /\ stack'[k] = stack[k]
    BY <1>4 DEF Aside, KeepsWalks, IsWalk
  <2> QED
    BY <1>1, <2>1, <2>2, StaysOnItsWay DEF Stays
<1>5. CASE OnePass
  <2>1. \A k \in DOMAIN stack : IsWalk(k, j, entries[j].run) => k \in DOMAIN stack' /\ stack'[k] = stack[k]
    BY <1>5 DEF OnePass, KeepsWalks, IsWalk
  <2>2. CASE UNCHANGED <<entries, waits>>
    BY <1>1, <2>1, <2>2, StaysOnItsWay
  <2>3. ASSUME NEW i \in DOMAIN entries, NEW mode, BegunStep(i, mode)
        PROVE  OnItsWay(j)'
    <3>1. Begun(i, mode) /\ DOMAIN entries' = DOMAIN entries
      BY <2>3 DEF BegunStep, Begun
    <3>2. CASE j = i
      <4>1. /\ Len(stack') \in DOMAIN stack' /\ stack'[Len(stack')].kind = "list" /\ stack'[Len(stack')].id = j
            /\ stack'[Len(stack')].run = entries'[j].run
        BY <2>3, <3>1, <3>2 DEF BegunStep, Begun
      <4> QED
        BY <4>1 DEF OnItsWay, IsWalk
    <3>3. CASE j # i
      <4>1. entries'[j] = entries[j] /\ j \in DOMAIN entries
        BY <3>1, <3>3 DEF Begun
      <4>2. [id |-> j, run |-> entries[j].run] \in waits => [id |-> j, run |-> entries[j].run] \in waits'
        BY <3>1, <3>3 DEF Begun
      <4> QED
        BY <1>1, <2>1, <4>1, <4>2, StaysOnItsWay
    <3> QED
      BY <3>2, <3>3
  <2> QED
    BY <1>5, <2>2, <2>3 DEF OnePass, PassStep
<1>6. CASE Advance
  <2>1. PICK i \in DOMAIN entries : Advanced(i) /\ (AdvanceWaits(i) \/ AdvanceRelay(i) \/ AdvanceThermostat(i))
    BY <1>6, AdvanceFacts
  <2>2. /\ On("list") /\ Top.id = i /\ Top.run = entries[i].run /\ DOMAIN entries' = DOMAIN entries
        /\ entries'[i].run = entries[i].run /\ \A k \in DOMAIN entries : k # i => entries'[k] = entries[k]
    BY <2>1 DEF Advanced, Runs
  <2>3. /\ Len(stack) \in DOMAIN stack /\ Top = stack[Len(stack)] /\ IsWalk(Len(stack), i, entries[i].run)
        /\ stack' = Below => \A k \in DOMAIN stack : k # Len(stack) => k \in DOMAIN stack' /\ stack'[k] = stack[k]
    BY <2>2, BelowFacts DEF On, Quiet, IsWalk
  <2>4. waits' = waits \/ waits' = waits \cup {[id |-> i, run |-> entries[i].run]}
    BY <2>1 DEF AdvanceWaits, AdvanceRelay, AdvanceThermostat
  <2>5. CASE j = i
    <3>1. CASE AdvanceWaits(i)
      BY <2>2, <2>5, <3>1 DEF AdvanceWaits, OnItsWay
    <3>2. CASE AdvanceRelay(i) \/ AdvanceThermostat(i)
      <4>1. stack' = stack
        BY <3>2 DEF AdvanceRelay, AdvanceThermostat
      <4> QED
        BY <2>2, <2>3, <2>5, <4>1 DEF OnItsWay, IsWalk
    <3> QED
      BY <2>1, <3>1, <3>2
  <2>6. CASE j # i
    <3>1. j \in DOMAIN entries /\ entries'[j] = entries[j]
      BY <2>2, <2>6
    <3>2. stack' = stack \/ stack' = Below
      BY <2>1 DEF AdvanceWaits, AdvanceRelay, AdvanceThermostat
    <3>3. \A k \in DOMAIN stack : IsWalk(k, j, entries[j].run) => k \in DOMAIN stack' /\ stack'[k] = stack[k]
      BY <2>3, <2>6, <3>2 DEF IsWalk
    <3> QED
      BY <1>1, <2>4, <3>1, <3>3, StaysOnItsWay
  <2> QED
    BY <2>5, <2>6
<1>7. CASE EndWalk
  <2>1. On("list") /\ UNCHANGED <<entries, waits>> /\ stack' = Below
        /\ ~(Runs(Top.id, Top.run) /\ entries[Top.id].next < Len(List(entries[Top.id])))
    BY <1>7 DEF EndWalk
  <2>2. /\ Len(stack) \in DOMAIN stack /\ Top = stack[Len(stack)]
        /\ \A k \in DOMAIN stack : k # Len(stack) => k \in DOMAIN stack' /\ stack'[k] = stack[k]
    BY <2>1, BelowFacts DEF On, Quiet
  <2>3. ~IsWalk(Len(stack), j, entries[j].run)
    <3>1. Unfinished(j) /\ j \in DOMAIN entries
      BY <1>1, <2>1 DEF Unfinished
    <3>2. entries[j].active
      BY <3>1 DEF Drivings, OnlyDriversRun, Unfinished
    <3> QED
      BY <2>1, <2>2, <3>1, <3>2 DEF IsWalk, Runs, Unfinished
  <2>4. \A k \in DOMAIN stack : IsWalk(k, j, entries[j].run) => k \in DOMAIN stack' /\ stack'[k] = stack[k]
    BY <2>2, <2>3
  <2> QED
    BY <1>1, <2>1, <2>4, StaysOnItsWay
<1>8. CASE OneWaitEnds
  <2>1. PICK w \in waits : WaitEnded(w) /\ stack = <<>>
    BY <1>8, WaitEndsFacts DEF OneWaitEnds, WaitEnds, Quiet
  <2>2. j \in DOMAIN entries /\ Stays(j) /\ waits' = waits \ {w}
    BY <2>1 DEF WaitEnded, AllStay
  <2>3. CASE w.id = j /\ w.run = entries[j].run
    <3>1. stack' = ListWalk(j, entries[j].run)
      BY <2>1, <2>2, <2>3 DEF WaitEnded
    <3>2. j \in Ids /\ entries[j].run \in Nat
      BY <2>2, TypeEntries DEF EntryOK, Entry
    <3>3. PICK t \in Seq(Frame) : t = ListWalk(j, entries[j].run) /\ Len(t) = 1 /\ t[1].kind = "list"
                                  /\ t[1].id = j /\ t[1].run = entries[j].run
      BY <3>2, NewFrames
    <3>4. 1 \in DOMAIN t
      BY <3>3
    <3> QED
      BY <2>2, <3>1, <3>3, <3>4 DEF OnItsWay, IsWalk, Stays
  <2>4. CASE ~(w.id = j /\ w.run = entries[j].run)
    <3>1. entries'[j].waiting = entries[j].waiting
      BY <2>1, <2>2, <2>4 DEF WaitEnded
    <3>2. [id |-> j, run |-> entries[j].run] # w
      BY <2>4
    <3>3. [id |-> j, run |-> entries[j].run] \in waits => [id |-> j, run |-> entries[j].run] \in waits'
      BY <2>2, <3>2
    <3>4. /\ entries'[j].mode = entries[j].mode /\ entries'[j].next = entries[j].next
          /\ entries'[j].doc = entries[j].doc /\ entries'[j].run = entries[j].run
      BY <2>2 DEF Stays
    <3>5. DOMAIN stack = {}
      BY <2>1
    <3>6. \A k \in DOMAIN stack : IsWalk(k, j, entries[j].run) => k \in DOMAIN stack' /\ stack'[k] = stack[k]
      BY <3>5
    <3> QED
      BY <1>1, <2>2, <3>1, <3>3, <3>4, <3>6, StaysOnItsWay
  <2> QED
    BY <2>3, <2>4
<1>9. CASE Reapply
  <2>1. entries' = entries /\ waits' = waits /\ stack = <<>>
    BY <1>9 DEF Reapply, Quiet
  <2>2. DOMAIN stack = {}
    BY <2>1
  <2>3. \A k \in DOMAIN stack : IsWalk(k, j, entries[j].run) => k \in DOMAIN stack' /\ stack'[k] = stack[k]
    BY <2>2
  <2>4. j \in DOMAIN entries /\ entries'[j] = entries[j]
    BY <2>1
  <2> QED
    BY <1>1, <2>1, <2>3, <2>4, StaysOnItsWay
<1>10. CASE ReapplyNext
  <2>1. \A k \in DOMAIN stack : stack[k].kind # "list"
    BY <1>10, ReapplyNextWalks, ReapplyNextFacts DEF On
  <2>2. waits' = waits
    BY <1>10 DEF ReapplyNext
  <2>3. j \in DOMAIN entries /\ entries'[j].waiting = entries[j].waiting /\ Stays(j)
    <3>1. CASE ReapplyDone
      BY <3>1, AllSame DEF ReapplyDone, AllStay
    <3>2. ASSUME NEW i \in DOMAIN entries, NEW k \in Nat, Reapplied(i, k)
          PROVE  j \in DOMAIN entries /\ entries'[j].waiting = entries[j].waiting /\ Stays(j)
      BY <3>2 DEF Reapplied, AllStay
    <3> QED
      BY <1>10, <3>1, <3>2, ReapplyNextFacts
  <2> QED
    BY <1>1, <2>1, <2>2, <2>3, StaysOnItsWay DEF Stays, IsWalk
<1>11. CASE OneReboot
  <2>1. PICK full \in Nat : entries' = Boot(files, full)
    BY <1>11, FullFacts DEF OneReboot, Reboot
  <2>2. files \in [Ids -> File]
    BY DEF TypeOK
  <2> QED
    BY <1>2, <2>1, <2>2, BootFacts
<1> QED
  BY <1>3, <1>4, <1>5, <1>6, <1>7, <1>8, <1>9, <1>10, <1>11 DEF StepKind

(* No action of a list in its wait. *)
LEMMA WaitsKeptStep ==
  ASSUME TypeOK, Walks, WalkedOnce, StepKind, TypeOK',
         NEW i \in DOMAIN entries \cap DOMAIN entries',
         entries[i].waiting, entries'[i].mode # 0, entries'[i].run = entries[i].run
  PROVE  entries'[i].next = entries[i].next
<1>1. ASSUME NEW j \in Ids, Settling(j)
      PROVE  entries'[i].next = entries[i].next
  BY <1>1 DEF Settling, SettledStep, Stops, Unmoved, SameList
<1>2. CASE Aside
  BY <1>2 DEF Aside, AllStay, Stays
<1>3. CASE OnePass
  <2>1. ASSUME NEW j \in DOMAIN entries, NEW mode, BegunStep(j, mode)
        PROVE  entries'[i].next = entries[i].next
    <3>1. j \in Ids /\ entries[j].run # NewRun(j)
      BY NewRunFacts, TypeEntries
    <3> QED
      BY <2>1, <3>1 DEF BegunStep, Begun
  <2> QED
    BY <1>3, <2>1 DEF OnePass, PassStep
<1>4. CASE Advance
  <2>1. PICK j \in DOMAIN entries : Advanced(j)
    BY <1>4, AdvanceFacts
  <2>2. /\ On("list") /\ Top.id = j /\ Top.run = entries[j].run
        /\ \A k \in DOMAIN entries : k # j => entries'[k] = entries[k]
    BY <2>1 DEF Advanced, Runs
  <2>3. Len(stack) \in DOMAIN stack /\ IsWalk(Len(stack), j, entries[j].run)
    BY <2>2, BelowFacts DEF On, Quiet, IsWalk
  <2>4. j # i
    BY <2>3 DEF WalkedOnce
  <2> QED
    BY <2>2, <2>4
<1>5. CASE EndWalk \/ Reapply
  BY <1>5 DEF EndWalk, Reapply
<1>6. CASE OneWaitEnds
  <2>1. PICK w \in waits : WaitEnded(w)
    BY <1>6, WaitEndsFacts DEF OneWaitEnds
  <2> QED
    BY <2>1 DEF WaitEnded, AllStay, Stays
<1>7. CASE ReapplyNext
  BY <1>7, ReapplyNextFacts DEF ReapplyDone, Reapplied, AllStay, Stays
<1>8. CASE OneReboot
  <2>1. PICK full \in Nat : entries' = Boot(files, full)
    BY <1>8, FullFacts DEF OneReboot, Reboot
  <2>2. files \in [Ids -> File]
    BY DEF TypeOK
  <2> QED
    BY <2>1, <2>2, BootFacts
<1> QED
  BY <1>1, <1>2, <1>3, <1>4, <1>5, <1>6, <1>7, <1>8 DEF StepKind
-----------------------------------------------------------------------------
(* Who drives, and that no list stalls *)

(* The inductive invariant. *)
LInv == TypeOK /\ Walks /\ Drivings /\ WalkedOnce /\ ListsNeverStall

LEMMA InitLists == Init => LInv
<1>1. SUFFICES ASSUME Init PROVE LInv
  OBVIOUS
<1>2. PICK full \in Nat : entries = Boot(files, full)
  BY <1>1, InitType
<1>3. TypeOK /\ stack = <<>> /\ ~open
  BY <1>1, InitType
<1>4. files \in [Ids -> File] /\ DOMAIN stack = {}
  BY <1>3 DEF TypeOK
<1>5. Exact /\ DOMAIN entries \subseteq Ids
  BY <1>2, <1>4, BootFacts DEF Exact
<1>6. \A i \in DOMAIN entries : entries[i].mode = 0
  BY <1>2, <1>4, BootFacts
<1>7. Walks /\ WalkedOnce
  BY <1>3, <1>4 DEF Walks, WalkedOnce
<1>8. DriversExact /\ Apart
  BY <1>5, ExactApart DEF DriversExact, Exact
<1>9. OnlyDriversRun /\ ListsNeverStall
  BY <1>6 DEF OnlyDriversRun, ListsNeverStall
<1> QED
  BY <1>3, <1>7, <1>8, <1>9 DEF LInv, Drivings

LEMMA NextLists == LInv /\ [Next]_vars => LInv'
BY StepKinds, DrivingsKept, WalkedOnceKept, NeverStallKept DEF LInv

LEMMA ListsInvariant == Spec => []LInv
BY InitLists, NextLists, PTL DEF Spec

(* Every schedule is in a mode of its document and within its list, every     *)
(* walk, wait and job is one of an id there is, whatever calls a relay's      *)
(* callbacks make while lists are walked (schedule_engine.cpp).               *)
THEOREM TypeCorrect == Spec => []TypeOK
BY ListsInvariant, PTL DEF LInv

(* Of the enabled schedules exactly those drive their targets that no driver  *)
(* before them by id shares one with, after every change and at every boot    *)
(* (refresh_, settle_, check_target_free_).                                   *)
THEOREM DriversAlwaysExact == Spec => []DriversExact
<1>1. LInv => DriversExact
  BY DEF LInv, Drivings
<1> QED
  BY <1>1, ListsInvariant, PTL

(* A list short of its end is walked, or its wait is in the scheduler,        *)
(* whatever an action set off while it was walked (advance_, cancel_, run_).  *)
THEOREM NoListEverStalls == Spec => []ListsNeverStall
BY ListsInvariant, PTL DEF LInv

(* A list takes no action in its wait, though an older walk of the same       *)
(* schedule comes back to it meanwhile (advance_, cancel_).                   *)
THEOREM WaitsAlwaysKept == Spec => WaitsKept
<1>1. LInv /\ [Next]_vars =>
        [\A i \in DOMAIN entries \cap DOMAIN entries' :
           (/\ entries[i].waiting /\ entries'[i].mode # 0
            /\ entries'[i].run = entries[i].run)
             => entries'[i].next = entries[i].next]_vars
  BY StepKinds, WaitsKeptStep DEF LInv
<1> QED
  BY <1>1, ListsInvariant, PTL DEF Spec, WaitsKept
-----------------------------------------------------------------------------
(* What the lists set *)

(* A list that is left alone, but for what it missed. *)
Keeps(j) == /\ j \in DOMAIN entries /\ entries'[j].doc = entries[j].doc /\ entries'[j].mode = entries[j].mode
            /\ entries'[j].next = entries[j].next /\ entries'[j].run = entries[j].run

LEMMA SamePassed ==
  ASSUME NEW e, NEW f, e.doc = f.doc, e.mode = f.mode, e.next = f.next
  PROVE  \A g : PassedOn(e, g) = PassedOn(f, g) /\ LastOn(e, g) = LastOn(f, g)
<1>1. List(e) = List(f)
  BY DEF List
<1> QED
  BY <1>1 DEF PassedOn, LastOn

LEMMA StaysKeeps ==
  ASSUME NEW j \in DOMAIN entries, Stays(j) \/ Unmoved(j) \/ entries'[j] = entries[j]
  PROVE  Keeps(j)
BY DEF Stays, Unmoved, SameList, Keeps

(* The last action passed on a target. *)
LEMMA LastFacts ==
  ASSUME TypeOK, NEW j \in DOMAIN entries, NEW g, PassedOn(entries[j], g) # {}
  PROVE  /\ entries[j].mode # 0
         /\ Max(PassedOn(entries[j], g)) \in PassedOn(entries[j], g)
         /\ LastOn(entries[j], g) \in Actions /\ Drives(LastOn(entries[j], g)) /\ LastOn(entries[j], g).target = g
         /\ g \in TargetsOf(entries[j].doc)
<1>1. EntryOK(entries[j])
  BY TypeEntries
<1>2. PICK k \in PassedOn(entries[j], g) : k = Max(PassedOn(entries[j], g))
  BY <1>1, PassedFacts
<1>3. k \in 1..Len(List(entries[j])) /\ List(entries[j])[k] \in Actions
      /\ Drives(List(entries[j])[k]) /\ List(entries[j])[k].target = g
  BY <1>1, PassedFacts
<1>4. List(entries[j])[k].target \in TargetsOf(entries[j].doc)
  BY <1>1, <1>3, PassedNamed
<1>5. entries[j].mode # 0
  BY <1>1, <1>3, ListFacts DEF List
<1> QED
  BY <1>2, <1>3, <1>4, <1>5 DEF LastOn

(* No two lists that run set one target. *)
LEMMA SetApart ==
  ASSUME TypeOK, Apart, OnlyDriversRun, NEW i \in DOMAIN entries, entries[i].active,
         NEW g \in TargetsOf(entries[i].doc), NEW j \in DOMAIN entries,
         entries[j].mode # 0, PassedOn(entries[j], g) # {}
  PROVE  j = i
<1>1. g \in TargetsOf(entries[j].doc)
  BY LastFacts
<1>2. Sharing(entries[i].doc, entries[j].doc)
  BY <1>1, SharingFacts
<1> QED
  BY <1>2 DEF Apart, OnlyDriversRun

LEMMA RelayStaysRight ==
  ASSUME NEW j, Keeps(j), NEW r, RelayRight(j, r), relay'[r] = relay[r],
         InHand("follow", j, r) => InHand("follow", j, r)'
  PROVE  RelayRight(j, r)'
<1>1. PassedOn(entries'[j], r) = PassedOn(entries[j], r) /\ LastOn(entries'[j], r) = LastOn(entries[j], r)
  BY SamePassed DEF Keeps
<1> QED
  BY <1>1 DEF Keeps, RelayRight

LEMMA ThermostatStaysRight ==
  ASSUME NEW j, Keeps(j), NEW t, ThermostatRight(j, t), thermo'[t] = thermo[t],
         LastOn(entries[j], t).target = t \/ PassedOn(entries[j], t) = {},
         Max(PassedOn(entries[j], t)) \in entries[j].lost => Max(PassedOn(entries[j], t)) \in entries'[j].lost,
         InHand("reapply", j, t) => InHand("reapply", j, t)',
         BeingReapplied(j, t) => BeingReapplied(j, t)'
  PROVE  ThermostatRight(j, t)'
<1>1. PassedOn(entries'[j], t) = PassedOn(entries[j], t) /\ LastOn(entries'[j], t) = LastOn(entries[j], t)
  BY SamePassed DEF Keeps
<1>2. CASE PassedOn(entries[j], t) = {}
  BY <1>1, <1>2 DEF ThermostatRight
<1>3. CASE LastOn(entries[j], t).target = t
  <2>1. Ready(LastOn(entries[j], t)) => Ready(LastOn(entries[j], t))'
    BY <1>1, <1>3 DEF Ready
  <2> QED
    BY <1>1, <2>1 DEF Keeps, ThermostatRight, Ready
<1> QED
  BY <1>2, <1>3

LEMMA SameJobs ==
  ASSUME NEW j, Keeps(j), \A k \in DOMAIN jobs : \E l \in DOMAIN jobs' : jobs'[l] = jobs[k]
  PROVE  \A kind, g : InHand(kind, j, g) => InHand(kind, j, g)'
BY DEF InHand, Job, Keeps

LEMMA StillReapplied ==
  ASSUME NEW j, Keeps(j), KeepsWalks
  PROVE  \A t : BeingReapplied(j, t) => BeingReapplied(j, t)'
<1>1. \A t : PassedOn(entries'[j], t) = PassedOn(entries[j], t)
  BY SamePassed DEF Keeps
<1> QED
  BY <1>1 DEF BeingReapplied, Keeps, KeepsWalks

Right(j) == /\ \A r \in Switches \ held : RelayRight(j, r)
            /\ \A t \in Thermostats : ThermostatRight(j, t)
NobodyReapplied == \A k \in DOMAIN stack : stack[k].kind # "reapply"

LEMMA RightForm ==
  /\ TargetsRight <=> \A j \in DOMAIN entries : Right(j)
  /\ (\A j \in DOMAIN entries' : Right(j)') => TargetsRight'
BY DEF TargetsRight, Right

LEMMA OnReapplyAlone ==
  ASSUME TypeOK, Walks, On("list") \/ stack = <<>>
  PROVE  NobodyReapplied
<1>1. CASE stack = <<>>
  <2>1. DOMAIN stack = {}
    BY <1>1
  <2> QED
    BY <2>1 DEF NobodyReapplied
<1>2. CASE On("list")
  BY <1>2, PlainFacts DEF Plain, NobodyReapplied
<1> QED
  BY <1>1, <1>2

(* What no step does anything to. *)
LEMMA StillRight ==
  ASSUME TypeOK, NEW j \in DOMAIN entries, Right(j), Keeps(j),
         entries'[j].lost = entries[j].lost, UNCHANGED <<jobs, relay, held, thermo>>,
         KeepsWalks \/ NobodyReapplied
  PROVE  Right(j)'
<1>1. \A kind, g : InHand(kind, j, g) => InHand(kind, j, g)'
  BY SameJobs
<1>2. \A t : BeingReapplied(j, t) => BeingReapplied(j, t)'
  BY StillReapplied DEF NobodyReapplied, BeingReapplied
<1>3. \A r \in Switches \ held : RelayRight(j, r)'
  BY <1>1, RelayStaysRight DEF Right
<1>4. ASSUME NEW t \in Thermostats
      PROVE  ThermostatRight(j, t)'
  <2>1. LastOn(entries[j], t).target = t \/ PassedOn(entries[j], t) = {}
    BY LastFacts
  <2> QED
    BY <1>1, <1>2, <2>1, ThermostatStaysRight DEF Right
<1> QED
  BY <1>3, <1>4 DEF Right

(* An entry in no mode has set nothing. *)
LEMMA NothingSet ==
  ASSUME NEW j, entries'[j].mode = 0 \/ entries'[j].next = 0
  PROVE  Right(j)'
<1>1. CASE entries'[j].mode = 0
  BY <1>1 DEF Right, RelayRight, ThermostatRight
<1>2. CASE entries'[j].next = 0
  <2>1. 1..0 = {}
    OBVIOUS
  <2>2. \A g : PassedOn(entries'[j], g) = {}
    BY <1>2, <2>1 DEF PassedOn
  <2> QED
    BY <2>2 DEF Right, RelayRight, ThermostatRight
<1> QED
  BY <1>1, <1>2

(* An action of the list of i.  A target of i is nobody else's. *)
LEMMA AdvanceRelayRight ==
  ASSUME TypeOK, Drivings, TargetsRight, TypeOK',
         NEW i \in DOMAIN entries, Advanced(i), AdvanceWaits(i) \/ AdvanceRelay(i) \/ AdvanceThermostat(i),
         NEW j \in DOMAIN entries, NEW r \in Switches \ held, UNCHANGED <<jobs, held>>
  PROVE  RelayRight(j, r)'
<1>0. PICK e, f : e = entries[i] /\ f = entries'[i]
  OBVIOUS
<1>1. EntryOK(e) /\ EntryOK(f) /\ f.doc = e.doc /\ f.mode = e.mode /\ f.run = e.run /\ f.next = e.next + 1
      /\ List(f) = List(e) /\ f.next \in 1..Len(List(f)) /\ e.active /\ e.mode # 0 /\ f.mode # 0 /\ e.next \in Nat
  BY <1>0, TypeEntries DEF Advanced, SameFile, Runs, EntryOK, Entry
<1>2. PICK a \in Actions : a = Taken(i) /\ a = List(f)[f.next] /\ a = List(e)[f.next]
  BY <1>0, <1>1, ListFacts DEF Taken
<1>3. (Drives(a) => a.target \in TargetsOf(e.doc)) /\ (a.type # "wait" <=> Drives(a))
  BY <1>1, <1>2, PassedNamed DEF Drives
<1>4. /\ (a.type = "relay" /\ a.target = r) => relay'[r] = a.value
      /\ ~(a.type = "relay" /\ a.target = r) => relay'[r] = relay[r]
  <2>1. CASE AdvanceRelay(i)
    BY <1>2, <2>1, ApplyRelayFacts DEF AdvanceRelay
  <2>2. CASE AdvanceWaits(i) \/ AdvanceThermostat(i)
    BY <1>2, <2>2 DEF AdvanceWaits, AdvanceThermostat
  <2> QED
    BY <2>1, <2>2
<1>5. RelayRight(j, r)
  BY DEF TargetsRight
<1>6. CASE j # i
  <2>1. entries'[j] = entries[j] /\ Keeps(j)
    BY <1>6, StaysKeeps DEF Advanced
  <2>2. \A kind, g : InHand(kind, j, g) => InHand(kind, j, g)'
    BY <2>1, SameJobs
  <2>3. CASE ~(a.type = "relay" /\ a.target = r)
    BY <1>4, <1>5, <2>1, <2>2, <2>3, RelayStaysRight
  <2>4. CASE a.type = "relay" /\ a.target = r
    <3>1. ~(entries[j].mode # 0 /\ PassedOn(entries[j], r) # {})
      BY <1>0, <1>1, <1>3, <1>6, <2>4, SetApart DEF Drivings
    <3> QED
      BY <2>1, <3>1 DEF RelayRight
  <2> QED
    BY <2>3, <2>4
<1>7. CASE j = i
  <2>1. CASE Drives(a) /\ a.target = r
    <3>1. a.type = "relay"
      <4>1. a.type = "thermostat" => a.target \in Thermostats
        BY ActionFacts
      <4>2. r \notin Thermostats
        BY ScheduleAssumption
      <4> QED
        BY <2>1, <4>1, <4>2, ActionFacts
    <3>2. LastOn(f, r) = a
      <4>1. f.next \in PassedOn(f, r) /\ PassedOn(f, r) \subseteq 1..f.next /\ f.next \in Nat
        BY <1>1, <1>2, <2>1 DEF PassedOn
      <4>2. Max(PassedOn(f, r)) \in PassedOn(f, r) /\ \A k \in PassedOn(f, r) : k <= Max(PassedOn(f, r))
        BY <1>1, <4>1, PassedFacts
      <4>3. Max(PassedOn(f, r)) = f.next
        BY <4>1, <4>2
      <4> QED
        BY <1>2, <4>3 DEF LastOn
    <3> QED
      BY <1>0, <1>4, <1>7, <2>1, <3>1, <3>2 DEF RelayRight
  <2>2. CASE ~(Drives(a) /\ a.target = r)
    <3>1. PassedOn(f, r) = PassedOn(e, r)
      BY <1>1, <1>2, <2>2 DEF PassedOn
    <3>2. LastOn(f, r) = LastOn(e, r)
      BY <1>1, <3>1 DEF LastOn
    <3>3. relay'[r] = relay[r]
      BY <1>3, <1>4, <2>2
    <3>4. InHand("follow", i, r) => InHand("follow", i, r)'
      BY <1>0, <1>1 DEF InHand, Job
    <3> QED
      BY <1>0, <1>1, <1>5, <1>7, <3>1, <3>2, <3>3, <3>4 DEF RelayRight
  <2> QED
    BY <2>1, <2>2
<1> QED
  BY <1>6, <1>7

LEMMA AdvanceThermostatRight ==
  ASSUME TypeOK, Walks, Drivings, TargetsRight, TypeOK',
         NEW i \in DOMAIN entries, Advanced(i), AdvanceWaits(i) \/ AdvanceRelay(i) \/ AdvanceThermostat(i),
         NEW j \in DOMAIN entries, NEW t \in Thermostats, UNCHANGED jobs
  PROVE  ThermostatRight(j, t)'
<1>0. PICK e, f : e = entries[i] /\ f = entries'[i]
  OBVIOUS
<1>1. EntryOK(e) /\ EntryOK(f) /\ f.doc = e.doc /\ f.mode = e.mode /\ f.run = e.run /\ f.next = e.next + 1
      /\ List(f) = List(e) /\ f.next \in 1..Len(List(f)) /\ e.active /\ e.mode # 0 /\ f.mode # 0 /\ e.next \in Nat
  BY <1>0, TypeEntries DEF Advanced, SameFile, Runs, EntryOK, Entry
<1>2. PICK a \in Actions : a = Taken(i) /\ a = List(f)[f.next] /\ a = List(e)[f.next]
  BY <1>0, <1>1, ListFacts DEF Taken
<1>3. (Drives(a) => a.target \in TargetsOf(e.doc)) /\ (a.type # "wait" <=> Drives(a))
  BY <1>1, <1>2, PassedNamed DEF Drives
<1>4. /\ (a.type = "thermostat" /\ a.target = t) => f.next \in f.lost \/ SetBy(a)
      /\ ~(a.type = "thermostat" /\ a.target = t) => thermo'[t] = thermo[t]
      /\ e.lost \subseteq f.lost
  <2>1. CASE AdvanceThermostat(i)
    BY <1>0, <1>2, <2>1 DEF AdvanceThermostat
  <2>2. CASE AdvanceWaits(i) \/ AdvanceRelay(i)
    BY <1>0, <1>2, <2>2 DEF AdvanceWaits, AdvanceRelay
  <2> QED
    BY <2>1, <2>2
<1>5. ThermostatRight(j, t)
  BY DEF TargetsRight
<1>50. \A k : ~BeingReapplied(k, t)
  BY OnReapplyAlone DEF Advanced, NobodyReapplied, BeingReapplied
<1>6. CASE j # i
  <2>1. entries'[j] = entries[j] /\ Keeps(j)
    BY <1>6, StaysKeeps DEF Advanced
  <2>2. \A kind, g : InHand(kind, j, g) => InHand(kind, j, g)'
    BY <2>1, SameJobs
  <2>3. CASE ~(a.type = "thermostat" /\ a.target = t)
    <3>1. LastOn(entries[j], t).target = t \/ PassedOn(entries[j], t) = {}
      BY LastFacts
    <3>2. thermo'[t] = thermo[t] /\ (InHand("reapply", j, t) => InHand("reapply", j, t)')
      BY <1>4, <2>2, <2>3
    <3>3. Max(PassedOn(entries[j], t)) \in entries[j].lost => Max(PassedOn(entries[j], t)) \in entries'[j].lost
      BY <2>1
    <3>4. BeingReapplied(j, t) => BeingReapplied(j, t)'
      BY <1>50
    <3> QED
      BY <1>5, <2>1, <3>1, <3>2, <3>3, <3>4, ThermostatStaysRight
  <2>4. CASE a.type = "thermostat" /\ a.target = t
    <3>1. ~(entries[j].mode # 0 /\ PassedOn(entries[j], t) # {})
      BY <1>0, <1>1, <1>3, <1>6, <2>4, SetApart DEF Drivings
    <3> QED
      BY <2>1, <3>1 DEF ThermostatRight
  <2> QED
    BY <2>3, <2>4
<1>7. CASE j = i
  <2>1. CASE Drives(a) /\ a.target = t
    <3>1. a.type = "thermostat"
      <4>1. a.type = "relay" => a.target \in Relays
        BY ActionFacts
      <4>2. t \notin Relays
        BY ScheduleAssumption
      <4> QED
        BY <2>1, <4>1, <4>2, ActionFacts
    <3>2. LastOn(f, t) = a /\ Max(PassedOn(f, t)) = f.next
      <4>1. f.next \in PassedOn(f, t) /\ PassedOn(f, t) \subseteq 1..f.next /\ f.next \in Nat
        BY <1>1, <1>2, <2>1 DEF PassedOn
      <4>2. Max(PassedOn(f, t)) \in PassedOn(f, t) /\ \A k \in PassedOn(f, t) : k <= Max(PassedOn(f, t))
        BY <1>1, <4>1, PassedFacts
      <4>3. Max(PassedOn(f, t)) = f.next
        BY <4>1, <4>2
      <4> QED
        BY <1>2, <4>3 DEF LastOn
    <3>3. f.next \in f.lost \/ SetBy(a)
      BY <1>4, <2>1, <3>1
    <3>4. SetBy(a) => Ready(a)' /\ Effect(thermo'[t], a) = thermo'[t]
      BY <2>1 DEF SetBy, Ready
    <3> QED
      BY <1>0, <1>7, <3>2, <3>3, <3>4 DEF ThermostatRight, Ready
  <2>2. CASE ~(Drives(a) /\ a.target = t)
    <3>1. PassedOn(f, t) = PassedOn(e, t)
      BY <1>1, <1>2, <2>2 DEF PassedOn
    <3>2. LastOn(f, t) = LastOn(e, t)
      BY <1>1, <3>1 DEF LastOn
    <3>3. thermo'[t] = thermo[t]
      BY <1>3, <1>4, <2>2
    <3>4. InHand("reapply", i, t) => InHand("reapply", i, t)'
      BY <1>0, <1>1 DEF InHand, Job
    <3>5. PassedOn(e, t) # {} => LastOn(e, t).target = t
      BY <1>0, LastFacts
    <3>6. CASE PassedOn(e, t) = {}
      BY <1>0, <1>7, <3>1, <3>6 DEF ThermostatRight
    <3>7. CASE PassedOn(e, t) # {}
      <4>1. \/ Max(PassedOn(e, t)) \in e.lost \/ InHand("reapply", i, t)
            \/ Ready(LastOn(e, t)) /\ Effect(thermo[t], LastOn(e, t)) = thermo[t]
        BY <1>0, <1>1, <1>5, <1>50, <1>7, <3>7 DEF ThermostatRight
      <4>2. \/ Max(PassedOn(f, t)) \in f.lost \/ InHand("reapply", i, t)'
            \/ Ready(LastOn(f, t))' /\ Effect(thermo'[t], LastOn(f, t)) = thermo'[t]
        BY <1>0, <1>4, <3>1, <3>2, <3>3, <3>4, <3>5, <3>7, <4>1 DEF Ready
      <4> QED
        BY <1>0, <1>7, <4>2 DEF ThermostatRight, Ready
    <3> QED
      BY <3>6, <3>7
  <2> QED
    BY <2>1, <2>2
<1> QED
  BY <1>6, <1>7

LEMMA ReapplyRight ==
  ASSUME TypeOK, Drivings, TargetsRight, Reapply, TypeOK', NEW j \in DOMAIN entries
  PROVE  Right(j)'
<1>1. /\ entries' = entries /\ relay' = relay /\ held' = held /\ thermo' = thermo /\ stack = <<>> /\ jobs # <<>>
      /\ jobs' = Tail(jobs) /\ Head(jobs).kind = "reapply"
      /\ stack' = ReapplyWalk(Head(jobs).id, Head(jobs).run, Head(jobs).target, 1)
  BY DEF Reapply, Quiet
<1>2. /\ entries'[j] = entries[j] /\ Keeps(j) /\ DOMAIN stack = {}
  BY <1>1, StaysKeeps
<1>3. \A k \in DOMAIN jobs : jobs[k] = Head(jobs) \/ \E l \in DOMAIN jobs' : jobs'[l] = jobs[k]
  BY <1>1, HeadJob
<1>4. \A kind, g : InHand(kind, j, g) => InHand(kind, j, g)' \/ Job(kind, j, g) = Head(jobs)
  BY <1>2, <1>3 DEF InHand, Job
<1>5. ASSUME NEW r \in Switches \ held
      PROVE  RelayRight(j, r)'
  <2>1. Job("follow", j, r).kind = "follow"
    BY DEF Job
  <2>2. InHand("follow", j, r) => InHand("follow", j, r)'
    BY <1>1, <1>4, <2>1
  <2>3. RelayRight(j, r)
    BY DEF TargetsRight
  <2> QED
    BY <1>1, <1>2, <2>2, <2>3, RelayStaysRight
<1>6. ASSUME NEW t \in Thermostats
      PROVE  ThermostatRight(j, t)'
  <2>1. LastOn(entries[j], t).target = t \/ PassedOn(entries[j], t) = {}
    BY LastFacts
  <2>2. ThermostatRight(j, t) /\ ~BeingReapplied(j, t)
    BY <1>2 DEF TargetsRight, BeingReapplied
  <2>3. CASE Job("reapply", j, t) # Head(jobs)
    <3>1. InHand("reapply", j, t) => InHand("reapply", j, t)'
      BY <1>4, <2>3
    <3>2. Max(PassedOn(entries[j], t)) \in entries[j].lost => Max(PassedOn(entries[j], t)) \in entries'[j].lost
      BY <1>2
    <3>3. thermo'[t] = thermo[t] /\ (BeingReapplied(j, t) => BeingReapplied(j, t)')
      BY <1>1, <2>2
    <3> QED
      BY <1>2, <2>1, <2>2, <3>1, <3>2, <3>3, ThermostatStaysRight
  <2>4. CASE Job("reapply", j, t) = Head(jobs) /\ PassedOn(entries[j], t) # {}
    <3>1. Head(jobs).id = j /\ Head(jobs).run = entries[j].run /\ Head(jobs).target = t
      BY <2>4 DEF Job
    <3>2. j \in Ids /\ entries[j].run \in Nat /\ EntryOK(entries[j])
      BY TypeEntries DEF EntryOK, Entry
    <3>3. PICK w \in Seq(Frame) : /\ w = ReapplyWalk(j, entries[j].run, t, 1) /\ Len(w) = 1
                                  /\ w[1].kind = "reapply" /\ w[1].id = j /\ w[1].run = entries[j].run
                                  /\ w[1].target = t /\ w[1].at = 1
      <4>1. 1 \in Nat
        OBVIOUS
      <4> QED
        BY <3>2, <4>1, NewFrames
    <3>4. stack' = w /\ 1 \in DOMAIN w
      BY <1>1, <3>1, <3>3
    <3>5. 1 <= Max(PassedOn(entries[j], t))
      <4>1. Max(PassedOn(entries[j], t)) \in 1..entries[j].next
        BY <2>4, <3>2, PassedFacts
      <4>2. entries[j].next \in Nat
        BY <3>2, ListFacts
      <4> QED
        BY <4>1, <4>2
    <3>6. BeingReapplied(j, t)'
      BY <1>2, <3>3, <3>4, <3>5 DEF BeingReapplied
    <3> QED
      BY <3>6 DEF ThermostatRight
  <2>5. CASE PassedOn(entries[j], t) = {}
    BY <1>2, <2>5 DEF ThermostatRight
  <2> QED
    BY <2>3, <2>4, <2>5
<1> QED
  BY <1>1, <1>5, <1>6 DEF Right

LEMMA ReapplyNextRight ==
  ASSUME TypeOK, Walks, Drivings, TargetsRight, ReapplyNext, TypeOK', NEW j \in DOMAIN entries
  PROVE  Right(j)'
<1>1. UNCHANGED <<jobs, relay, held>> /\ DOMAIN stack = {1} /\ stack[1] = Top
  BY ReapplyNextWalks DEF ReapplyNext
<1>2. Keeps(j)
  BY ReapplyNextFacts DEF ReapplyDone, Reapplied, AllStay, Stays, Keeps
<1>3. \A kind, g : InHand(kind, j, g) => InHand(kind, j, g)'
  BY <1>1, <1>2, SameJobs
<1>4. \A r \in Switches \ held : RelayRight(j, r)'
  BY <1>1, <1>2, <1>3, RelayStaysRight DEF TargetsRight
<1>5. ASSUME NEW t \in Thermostats
      PROVE  ThermostatRight(j, t)'
  <2>0. EntryOK(entries[j]) /\ ThermostatRight(j, t)
    BY TypeEntries DEF TargetsRight
  <2>1. SUFFICES ASSUME PassedOn(entries[j], t) # {} PROVE ThermostatRight(j, t)'
    <3>1. PassedOn(entries'[j], t) = PassedOn(entries[j], t)
      BY <1>2, SamePassed DEF Keeps
    <3> QED
      BY <3>1 DEF ThermostatRight
  <2>2. PICK last \in PassedOn(entries[j], t) :
          /\ last = Max(PassedOn(entries[j], t)) /\ last \in Int
          /\ LastOn(entries[j], t) = List(entries[j])[last] /\ LastOn(entries[j], t).target = t
    BY <2>0, <2>1, LastFacts, PassedFacts DEF LastOn
  <2>3. entries[j].mode # 0 /\ entries[j].active /\ t \in TargetsOf(entries[j].doc)
    BY <2>1, LastFacts DEF Drivings, OnlyDriversRun
  <2>4. CASE ReapplyDone
    <3>1. ~BeingReapplied(j, t)
      <4>1. SUFFICES ASSUME Top.id = j, Top.run = entries[j].run, Top.target = t, Top.at <= last
                     PROVE  FALSE
        BY <1>1, <2>2 DEF BeingReapplied
      <4>2. last < Top.at /\ Top.at \in Nat
        BY <2>3, <2>4, <4>1, ReapplyNextFacts DEF ReapplyDone, Runs
      <4> QED
        BY <2>2, <4>1, <4>2
    <3> QED
      BY <1>2, <1>3, <2>0, <2>2, <2>4, <3>1, ThermostatStaysRight DEF ReapplyDone
  <2>5. ASSUME NEW i \in DOMAIN entries, NEW k \in Nat, Reapplied(i, k),
               DOMAIN stack' = {1}, stack'[1].kind = "reapply", stack'[1].id = i, stack'[1].run = Top.run,
               stack'[1].target = Top.target, stack'[1].at = k + 1
        PROVE  ThermostatRight(j, t)'
    <3>1. entries[i].active /\ EntryOK(entries[i]) /\ Top.target \in TargetsOf(entries[i].doc)
      <4>1. PassedOn(entries[i], Top.target) # {}
        BY <2>5 DEF Reapplied
      <4> QED
        BY <2>5, <4>1, LastFacts, TypeEntries DEF Reapplied, Runs
    <3>2. CASE ~(j = i /\ t = Top.target)
      <4>1. t # Top.target
        BY <2>1, <2>3, <3>1, <3>2, SetApart DEF Drivings
      <4>2. ~BeingReapplied(j, t)
        BY <1>1, <4>1 DEF BeingReapplied
      <4>3. entries[j].lost \subseteq entries'[j].lost
        BY <2>5 DEF Reapplied
      <4>4. thermo'[t] = thermo[t]
        BY <2>5, <4>1 DEF Reapplied
      <4> QED
        BY <1>2, <1>3, <2>0, <2>2, <4>2, <4>3, <4>4, ThermostatStaysRight
    <3>3. CASE j = i /\ t = Top.target
      <4>1. PassedOn(entries'[j], t) = PassedOn(entries[j], t) /\ LastOn(entries'[j], t) = LastOn(entries[j], t)
        BY <1>2, SamePassed DEF Keeps
      <4>2. k <= last
        BY <2>0, <2>2, <2>5, <3>3, PassedFacts DEF Reapplied
      <4>3. CASE k = last
        <5>1. last \in entries'[j].lost \/ SetBy(LastOn(entries[j], t))
          BY <2>2, <2>5, <3>3, <4>3 DEF Reapplied
        <5>2. SetBy(LastOn(entries[j], t)) =>
                 Ready(LastOn(entries[j], t))' /\ Effect(thermo'[t], LastOn(entries[j], t)) = thermo'[t]
          <6>1. LastOn(entries'[j], t).target = t
            BY <2>2, <4>1
          <6> QED
            BY <2>2, <4>1, <6>1 DEF SetBy, Ready
        <5> QED
          BY <2>2, <4>1, <5>1, <5>2 DEF ThermostatRight, Ready
      <4>4. CASE k # last
        <5>1. k + 1 <= last
          BY <2>2, <4>2, <4>4
        <5>2. stack'[1].run = entries'[j].run
          BY <1>2, <2>5, <3>3 DEF Keeps, Reapplied, Runs
        <5>3. BeingReapplied(j, t)'
          BY <2>2, <2>5, <3>3, <4>1, <5>1, <5>2 DEF BeingReapplied
        <5> QED
          BY <5>3 DEF ThermostatRight
      <4> QED
        BY <4>3, <4>4
    <3> QED
      BY <3>2, <3>3
  <2> QED
    BY <2>4, <2>5, ReapplyNextWalks
<1> QED
  BY <1>1, <1>4, <1>5 DEF Right

(* A step that leaves the lists and the thermostats to themselves: only what  *)
(* it does to the relays is to be shown.                                      *)
LEMMA RelaysAsideRight ==
  ASSUME TypeOK, TargetsRight, NEW j \in DOMAIN entries, UNCHANGED <<entries, thermo, stack>>,
         \A k \in DOMAIN jobs : jobs[k].kind = "reapply" => \E l \in DOMAIN jobs' : jobs'[l] = jobs[k],
         \A r \in Switches \ held' : RelayRight(j, r)'
  PROVE  Right(j)'
<1>1. Keeps(j) /\ entries'[j] = entries[j] /\ KeepsWalks
  BY StaysKeeps DEF KeepsWalks
<1>2. ASSUME NEW t \in Thermostats
      PROVE  ThermostatRight(j, t)'
  <2>1. InHand("reapply", j, t) => InHand("reapply", j, t)'
    BY <1>1 DEF InHand, Job
  <2>2. LastOn(entries[j], t).target = t \/ PassedOn(entries[j], t) = {}
    BY LastFacts
  <2>3. BeingReapplied(j, t) => BeingReapplied(j, t)'
    BY <1>1, StillReapplied
  <2>4. ThermostatRight(j, t) /\ thermo'[t] = thermo[t]
    BY DEF TargetsRight
  <2>5. Max(PassedOn(entries[j], t)) \in entries[j].lost => Max(PassedOn(entries[j], t)) \in entries'[j].lost
    BY <1>1
  <2> QED
    BY <1>1, <2>1, <2>2, <2>3, <2>4, <2>5, ThermostatStaysRight
<1> QED
  BY <1>2 DEF Right

LEMMA FollowRelayRight ==
  ASSUME TypeOK, Drivings, TargetsRight, FollowRelay, NEW j \in DOMAIN entries
  PROVE  Right(j)'
<1>1. /\ entries' = entries /\ thermo' = thermo /\ stack' = stack /\ held' = held
      /\ jobs # <<>> /\ jobs' = Tail(jobs) /\ Head(jobs).kind = "follow"
  BY FollowRelayFacts DEF FollowRelay
<1>2. \A k \in DOMAIN jobs : jobs[k] = Head(jobs) \/ \E l \in DOMAIN jobs' : jobs'[l] = jobs[k]
  BY <1>1, HeadJob
<1>3. Keeps(j) /\ entries'[j] = entries[j]
  BY <1>1, StaysKeeps
<1>4. PICK i, run, g : i = Head(jobs).id /\ run = Head(jobs).run /\ g = Head(jobs).target
  OBVIOUS
<1>5. /\ \A r \in Switches \ held : r # g => relay'[r] = relay[r]
      /\ Runs(i, run) /\ g \notin held /\ PassedOn(entries[i], g) # {} => relay'[g] = LastOn(entries[i], g).value
      /\ ~(Runs(i, run) /\ PassedOn(entries[i], g) # {}) => relay' = relay
  BY <1>4, FollowRelayFacts
<1>6. ASSUME NEW r \in Switches \ held
      PROVE  RelayRight(j, r)'
  <2>1. PassedOn(entries'[j], r) = PassedOn(entries[j], r) /\ LastOn(entries'[j], r) = LastOn(entries[j], r)
    BY <1>3
  <2>2. CASE PassedOn(entries[j], r) = {}
    BY <2>1, <2>2 DEF RelayRight
  <2>3. CASE PassedOn(entries[j], r) # {} /\ Runs(i, run) /\ g = r /\ PassedOn(entries[i], g) # {}
    <3>1. entries[i].active /\ g \in TargetsOf(entries[i].doc) /\ entries[j].mode # 0 /\ i \in DOMAIN entries
      BY <2>3, LastFacts DEF Runs
    <3>2. j = i
      BY <2>3, <3>1, SetApart DEF Drivings
    <3> QED
      BY <1>5, <2>1, <2>3, <3>2 DEF RelayRight
  <2>4. CASE PassedOn(entries[j], r) # {} /\ ~(Runs(i, run) /\ g = r /\ PassedOn(entries[i], g) # {})
    <3>1. relay'[r] = relay[r]
      BY <1>5, <2>4
    <3>2. Job("follow", j, r) # Head(jobs)
      <4>1. SUFFICES ASSUME Job("follow", j, r) = Head(jobs) PROVE FALSE
        OBVIOUS
      <4>2. i = j /\ run = entries[j].run /\ g = r
        BY <1>4, <4>1 DEF Job
      <4>3. entries[j].mode # 0 /\ entries[j].active
        BY <2>4, LastFacts DEF Drivings, OnlyDriversRun
      <4> QED
        BY <2>4, <4>2, <4>3 DEF Runs
    <3>3. InHand("follow", j, r) => InHand("follow", j, r)'
      BY <1>2, <1>3, <3>2 DEF InHand, Job
    <3> QED
      BY <1>3, <3>1, <3>3, RelayStaysRight DEF TargetsRight
  <2> QED
    BY <2>2, <2>3, <2>4
<1>7. \A k \in DOMAIN jobs : jobs[k].kind = "reapply" => \E l \in DOMAIN jobs' : jobs'[l] = jobs[k]
  BY <1>1, <1>2
<1> QED
  BY <1>1, <1>6, <1>7, RelaysAsideRight

LEMMA HoldRight ==
  ASSUME TypeOK, TargetsRight, NEW r \in Switches, NEW value \in {"on", "off"}, Hold(r, value), NEW j \in DOMAIN entries
  PROVE  Right(j)'
<1>1. UNCHANGED <<entries, thermo, stack, jobs>> /\ held' = held \cup {r} /\ relay' = [relay EXCEPT ![r] = value]
  BY DEF Hold
<1>2. Keeps(j)
  BY <1>1, StaysKeeps
<1>3. \A kind, g : InHand(kind, j, g) => InHand(kind, j, g)'
  BY <1>1, <1>2, SameJobs
<1>4. ASSUME NEW s \in Switches \ held'
      PROVE  RelayRight(j, s)'
  <2>1. s \in Switches \ held /\ relay'[s] = relay[s]
    BY <1>1
  <2> QED
    BY <1>2, <1>3, <2>1, RelayStaysRight DEF TargetsRight
<1> QED
  BY <1>1, <1>4, RelaysAsideRight

LEMMA ReleaseRight ==
  ASSUME TypeOK, Drivings, TargetsRight, NEW r \in Switches, NEW value \in {"on", "off"}, Release(r, value),
         NEW j \in DOMAIN entries
  PROVE  Right(j)'
<1>1. /\ UNCHANGED <<entries, thermo, stack>> /\ held' = held \ {r} /\ relay' = [relay EXCEPT ![r] = value]
      /\ jobs' = jobs \o JobsFor("follow", Followers(r), r)
  BY DEF Release
<1>2. Keeps(j) /\ entries'[j] = entries[j]
  BY <1>1, StaysKeeps
<1>3. PICK kind : kind = "follow"
  OBVIOUS
<1>4. PICK S \in SUBSET DOMAIN entries : S = Followers(r)
  BY DEF Followers
<1>5. PICK more \in Seq(JobSet) : /\ more = JobsFor(kind, S, r)
                                  /\ \A i \in S : \E k \in DOMAIN more : more[k] = Job(kind, i, r)
  BY <1>3, JobsForFacts
<1>6. /\ \A k \in DOMAIN jobs : \E l \in DOMAIN jobs' : jobs'[l] = jobs[k]
      /\ \A i \in S : \E l \in DOMAIN jobs' : jobs'[l] = Job(kind, i, r)
  <2>1. jobs' = jobs \o more
    BY <1>1, <1>3, <1>4, <1>5
  <2>2. /\ \A k \in DOMAIN jobs : \E l \in DOMAIN (jobs \o more) : (jobs \o more)[l] = jobs[k]
        /\ \A k \in DOMAIN more : \E l \in DOMAIN (jobs \o more) : (jobs \o more)[l] = more[k]
    BY JobsAppended
  <2>3. ASSUME NEW i \in S
        PROVE  \E l \in DOMAIN jobs' : jobs'[l] = Job(kind, i, r)
    <3>1. PICK k \in DOMAIN more : more[k] = Job(kind, i, r)
      BY <1>5
    <3>2. PICK l \in DOMAIN (jobs \o more) : (jobs \o more)[l] = more[k]
      BY <2>2
    <3> QED
      BY <2>1, <3>1, <3>2
  <2>4. \A k \in DOMAIN jobs : \E l \in DOMAIN jobs' : jobs'[l] = jobs[k]
    BY <2>1, <2>2, Zenon
  <2> QED
    BY <2>3, <2>4
<1>7. \A k, g : InHand(k, j, g) => InHand(k, j, g)'
  BY <1>2, <1>6, SameJobs
<1>8. ASSUME NEW s \in Switches \ held'
      PROVE  RelayRight(j, s)'
  <2>1. CASE s # r
    <3>1. s \in Switches \ held /\ relay'[s] = relay[s]
      BY <1>1, <2>1
    <3> QED
      BY <1>2, <1>7, <3>1, RelayStaysRight DEF TargetsRight
  <2>2. CASE s = r /\ PassedOn(entries[j], r) # {}
    <3>1. entries[j].mode # 0 /\ entries[j].active /\ r \in TargetsOf(entries[j].doc)
      BY <2>2, LastFacts DEF Drivings, OnlyDriversRun
    <3>2. j \in S
      BY <1>4, <3>1 DEF Followers, NamesTarget
    <3>3. InHand("follow", j, s)'
      BY <1>2, <1>3, <1>6, <2>2, <3>2 DEF InHand, Job
    <3> QED
      BY <3>3 DEF RelayRight
  <2>3. CASE s = r /\ PassedOn(entries[j], r) = {}
    BY <1>2, <2>3 DEF RelayRight
  <2> QED
    BY <2>1, <2>2, <2>3
<1> QED
  BY <1>1, <1>6, <1>8, RelaysAsideRight

LEMMA EditedFacts ==
  ASSUME TypeOK, NEW t \in Thermostats, NEW after \in After(t), after # NoThermostat, thermo[t] # NoThermostat,
         NEW a, a.value \in {"on", "off", "target", "preset"}, Effect(thermo[t], a) = thermo[t]
  PROVE  Effect(after, a) = after
<1>1. PICK m \in Thermostat : m = thermo[t]
  BY DEF TypeOK
<1>2. after = [m EXCEPT !.preset = ~m.preset]
  BY <1>1 DEF After, Edited
<1>3. after \in Thermostat /\ after.mode = m.mode /\ after.value = m.value
  BY <1>1, <1>2 DEF Thermostat
<1>4. CASE a.value = "off"
  <2>1. PICK x : x = [m EXCEPT !.mode = "off"]
    OBVIOUS
  <2>2. x.mode = "off" /\ x = m
    BY <1>1, <1>4, <2>1 DEF Effect, Thermostat
  <2>3. [after EXCEPT !.mode = "off"] = after
    BY <1>3, <2>2 DEF Thermostat
  <2> QED
    BY <1>4, <2>3 DEF Effect
<1>5. CASE a.value = "on"
  <2>1. PICK x : x = [m EXCEPT !.mode = "on"]
    OBVIOUS
  <2>2. x.mode = "on" /\ x = m
    BY <1>1, <1>5, <2>1 DEF Effect, Thermostat
  <2>3. [after EXCEPT !.mode = "on"] = after
    BY <1>3, <2>2 DEF Thermostat
  <2> QED
    BY <1>5, <2>3 DEF Effect
<1>6. CASE a.value \in {"target", "preset"}
  <2>1. PICK x : x = [m EXCEPT !.mode = "on", !.value = a.value]
    OBVIOUS
  <2>2. x.mode = "on" /\ x.value = a.value /\ x = m
    BY <1>1, <1>6, <2>1 DEF Effect, Thermostat
  <2>3. [after EXCEPT !.mode = "on", !.value = a.value] = after
    BY <1>3, <2>2 DEF Thermostat
  <2> QED
    BY <1>6, <2>3 DEF Effect
<1> QED
  BY <1>4, <1>5, <1>6

LEMMA ClimateChangeRight ==
  ASSUME TypeOK, Drivings, TargetsRight, NEW g \in Thermostats, NEW after \in After(g), ClimateChange(g, after),
         NEW j \in DOMAIN entries
  PROVE  Right(j)'
<1>1. UNCHANGED <<relay, held, stack>> /\ thermo' = [thermo EXCEPT ![g] = after]
  BY DEF ClimateChange
<1>2. Keeps(j) /\ KeepsWalks
  BY <1>1, ClimateChangeFacts DEF AllStay, Stays, Keeps, KeepsWalks
<1>3. /\ \A k \in DOMAIN jobs : \E l \in DOMAIN jobs' : jobs'[l] = jobs[k]
      /\ \A i \in Followers(g) : Back(entries[i], g) => \E l \in DOMAIN jobs' : jobs'[l] = Job("reapply", i, g)
  BY ClimateChangeJobs
<1>4. \A kind, x : InHand(kind, j, x) => InHand(kind, j, x)'
  BY <1>2, <1>3, SameJobs
<1>5. \A r \in Switches \ held : RelayRight(j, r)'
  BY <1>1, <1>2, <1>4, RelayStaysRight DEF TargetsRight
<1>6. \A t : BeingReapplied(j, t) => BeingReapplied(j, t)'
  BY <1>2, StillReapplied
<1>7. ASSUME NEW t \in Thermostats
      PROVE  ThermostatRight(j, t)'
  <2>1. EntryOK(entries[j]) /\ ThermostatRight(j, t)
    BY TypeEntries DEF TargetsRight
  <2>2. PassedOn(entries'[j], t) = PassedOn(entries[j], t) /\ LastOn(entries'[j], t) = LastOn(entries[j], t)
    BY <1>2, SamePassed DEF Keeps
  <2>3. CASE PassedOn(entries[j], t) = {}
    BY <2>2, <2>3 DEF ThermostatRight
  <2>4. CASE PassedOn(entries[j], t) # {}
    <3>1. PICK a \in Actions, last \in PassedOn(entries[j], t) :
            /\ last = Max(PassedOn(entries[j], t)) /\ a = LastOn(entries[j], t)
            /\ a = List(entries[j])[last] /\ a.target = t
      BY <2>4, LastFacts DEF LastOn
    <3>2. /\ entries[j].mode # 0 /\ entries[j].active /\ t \in TargetsOf(entries[j].doc)
          /\ a.value \in {"on", "off", "target", "preset"}
      BY <2>4, <3>1, LastFacts, ActionFacts DEF Drivings, OnlyDriversRun
    <3>3. CASE t # g
      <4>1. last \notin PassedOn(entries[j], g)
        BY <2>1, <3>1, <3>3, PassedFacts
      <4>2. last \in entries[j].lost => last \in entries'[j].lost
        BY <4>1, ClimateChangeFacts
      <4>3. thermo'[t] = thermo[t]
        BY <1>1, <3>3
      <4> QED
        BY <1>2, <1>4, <1>6, <2>1, <3>1, <4>2, <4>3, ThermostatStaysRight
    <3>4. CASE t = g
      <4>1. j \in Followers(g)
        BY <3>2, <3>4 DEF Followers, NamesTarget
      <4>2. entries'[j].lost = (entries[j].lost \ PassedOn(entries[j], g)) \cup Lost(entries[j], g)
        BY <4>1, ClimateChangeFacts
      <4>3. CASE last \in Lost(entries[j], g)
        BY <2>2, <3>1, <4>2, <4>3 DEF ThermostatRight
      <4>4. CASE last \notin Lost(entries[j], g) /\ last \in entries[j].lost
        <5>1. Back(entries[j], g)
          BY <3>1, <3>4, <4>4 DEF Back
        <5>2. PICK l \in DOMAIN jobs' : jobs'[l] = Job("reapply", j, g)
          BY <1>3, <4>1, <5>1
        <5>3. InHand("reapply", j, t)'
          BY <1>2, <3>4, <5>2 DEF InHand, Job, Keeps
        <5> QED
          BY <5>3 DEF ThermostatRight
      <4>5. CASE last \notin Lost(entries[j], g) /\ last \notin entries[j].lost
        <5>1. thermo'[t] = after
          BY <1>1, <3>4 DEF TypeOK
        <5>2. after # NoThermostat /\ (a.value = "preset" => after.preset)
          BY <3>1, <3>4, <4>5, <5>1 DEF Lost
        <5>3. Ready(a)'
          BY <3>1, <5>1, <5>2 DEF Ready
        <5>4. CASE InHand("reapply", j, t) \/ BeingReapplied(j, t)
          BY <1>4, <1>6, <5>4 DEF ThermostatRight
        <5>5. CASE Ready(a) /\ Effect(thermo[t], a) = thermo[t]
          <6>1. thermo[t] # NoThermostat
            BY <3>1, <5>5 DEF Ready
          <6>2. Effect(after, a) = after
            BY <3>2, <3>4, <5>2, <5>5, <6>1, EditedFacts
          <6> QED
            BY <2>2, <3>1, <5>1, <5>3, <6>2 DEF ThermostatRight, Ready
        <5> QED
          BY <2>1, <2>4, <3>1, <3>2, <4>5, <5>4, <5>5 DEF ThermostatRight
      <4> QED
        BY <4>3, <4>4, <4>5
    <3> QED
      BY <3>3, <3>4
  <2> QED
    BY <2>3, <2>4
<1> QED
  BY <1>1, <1>5, <1>7 DEF Right

LEMMA TargetsRightKept ==
  ASSUME LInv, TargetsRight, StepKind, TypeOK'
  PROVE  TargetsRight'
<1>0. TypeOK /\ Walks /\ Drivings
  BY DEF LInv
<1>1. SUFFICES ASSUME NEW j \in DOMAIN entries' PROVE Right(j)'
  BY RightForm
<1>2. CASE entries'[j].mode = 0
  BY <1>2, NothingSet
<1>3. j \in DOMAIN entries => Right(j)
  BY RightForm
<1>4. ASSUME NEW i \in Ids, Settling(i), entries'[j].mode # 0
      PROVE  Right(j)'
  <2>1. Unmoved(j) /\ KeepsWalks /\ UNCHANGED <<jobs, relay, held, thermo>>
    BY <1>4 DEF Settling, SettledStep, Stops
  <2>2. j \in DOMAIN entries /\ Keeps(j) /\ entries'[j].lost = entries[j].lost
    BY <2>1, StaysKeeps DEF Unmoved, SameList
  <2> QED
    BY <1>0, <1>3, <2>1, <2>2, StillRight
<1>5. CASE Aside /\ Bystander
  <2>1. j \in DOMAIN entries /\ Keeps(j) /\ KeepsWalks
    BY <1>5, StaysKeeps DEF Aside, AllStay
  <2> QED
    BY <1>0, <1>3, <1>5, <2>1, StillRight DEF Bystander
<1>6. CASE Aside /\ Outside
  <2>1. j \in DOMAIN entries
    BY <1>6 DEF Aside, AllStay
  <2> QED
    BY <1>0, <1>6, <2>1, FollowRelayRight, HoldRight, ReleaseRight, ClimateChangeRight DEF Outside
<1>7. CASE OnePass
  <2>1. UNCHANGED <<jobs, relay, held, thermo>> /\ KeepsWalks
    BY <1>7 DEF OnePass, StartNext, RunNextPoint
  <2>2. CASE UNCHANGED entries
    <3>1. j \in DOMAIN entries /\ entries'[j] = entries[j] /\ Keeps(j)
      BY <2>2, StaysKeeps
    <3> QED
      BY <1>0, <1>3, <2>1, <3>1, StillRight
  <2>3. ASSUME NEW i \in DOMAIN entries, NEW mode, BegunStep(i, mode)
        PROVE  Right(j)'
    <3>1. CASE j = i
      BY <2>3, <3>1, NothingSet DEF BegunStep, Begun
    <3>2. CASE j # i
      <4>1. j \in DOMAIN entries /\ entries'[j] = entries[j]
        BY <2>3, <3>2 DEF BegunStep, Begun
      <4> QED
        BY <1>0, <1>3, <2>1, <4>1, StillRight, StaysKeeps
    <3> QED
      BY <3>1, <3>2
  <2> QED
    BY <1>7, <2>2, <2>3 DEF OnePass, PassStep
<1>8. CASE Advance
  <2>1. PICK i \in DOMAIN entries : Advanced(i) /\ (AdvanceWaits(i) \/ AdvanceRelay(i) \/ AdvanceThermostat(i))
    BY <1>0, <1>8, AdvanceFacts
  <2>2. j \in DOMAIN entries
    BY <2>1 DEF Advanced
  <2>3. UNCHANGED <<jobs, held>>
    BY <1>8 DEF Advance
  <2> QED
    BY <1>0, <2>1, <2>2, <2>3, AdvanceRelayRight, AdvanceThermostatRight DEF Right
<1>9. CASE EndWalk
  <2>1. UNCHANGED <<entries, jobs, relay, held, thermo>> /\ On("list")
    BY <1>9 DEF EndWalk
  <2>2. j \in DOMAIN entries /\ entries'[j] = entries[j] /\ NobodyReapplied
    BY <1>0, <2>1, OnReapplyAlone
  <2> QED
    BY <1>0, <1>3, <2>1, <2>2, StillRight, StaysKeeps
<1>10. CASE OneWaitEnds
  <2>1. PICK w \in waits : WaitEnded(w) /\ stack = <<>> /\ UNCHANGED <<jobs, relay, held, thermo>>
    BY <1>0, <1>10, WaitEndsFacts DEF OneWaitEnds, WaitEnds, Quiet
  <2>2. j \in DOMAIN entries /\ Keeps(j) /\ entries'[j].lost = entries[j].lost
    BY <2>1, StaysKeeps DEF WaitEnded, AllStay
  <2>3. NobodyReapplied
    BY <1>0, <2>1, OnReapplyAlone
  <2> QED
    BY <1>0, <1>3, <2>1, <2>2, <2>3, StillRight
<1>11. CASE Reapply
  <2>1. j \in DOMAIN entries
    BY <1>11 DEF Reapply
  <2> QED
    BY <1>0, <1>11, <2>1, ReapplyRight
<1>12. CASE ReapplyNext
  <2>1. j \in DOMAIN entries
    BY <1>0, <1>12, ReapplyNextFacts DEF ReapplyDone, Reapplied, AllStay
  <2> QED
    BY <1>0, <1>12, <2>1, ReapplyNextRight
<1>13. CASE OneReboot
  <2>1. PICK full \in Nat : entries' = Boot(files, full)
    BY <1>13, FullFacts DEF OneReboot, Reboot
  <2>2. files \in [Ids -> File]
    BY <1>0 DEF TypeOK
  <2>3. entries'[j].mode = 0
    BY <2>1, <2>2, BootFacts
  <2> QED
    BY <2>3, NothingSet
<1> QED
  BY <1>2, <1>4, <1>5, <1>6, <1>7, <1>8, <1>9, <1>10, <1>11, <1>12, <1>13 DEF StepKind, Aside

(* Lists and what they set. *)
TInv == LInv /\ TargetsRight

LEMMA InitTargets == Init => TInv
<1>1. SUFFICES ASSUME Init PROVE TargetsRight
  BY InitLists DEF TInv
<1>2. PICK full \in Nat : entries = Boot(files, full)
  BY <1>1, InitType
<1>3. files \in [Ids -> File]
  BY <1>1, InitType DEF TypeOK
<1>4. \A i \in DOMAIN entries : entries[i].mode = 0
  BY <1>2, <1>3, BootFacts
<1> QED
  BY <1>4 DEF TargetsRight, RelayRight, ThermostatRight

LEMMA TargetsInvariant == Spec => []TInv
<1>1. TInv /\ [Next]_vars => TInv'
  BY NextLists, StepKinds, TargetsRightKept DEF TInv, LInv
<1> QED
  BY <1>1, InitTargets, PTL DEF Spec

(* Once the loop is done with what it deferred, a relay nobody holds is as the *)
(* list in force last set it, whoever held it meanwhile and whatever was       *)
(* saved, stopped or restarted since (on_released_, follow_relay_).            *)
THEOREM RelaysAlwaysFollow == Spec => []RelaysFollow
<1>1. TInv => RelaysFollow
  BY DEF TInv, TargetsRight, RelayRight, InHand, RelaysFollow
<1> QED
  BY <1>1, TargetsInvariant, PTL

(* So is a thermostat, through its removals, its returns without the preset    *)
(* and its refusals, unless its last action is noted as lost                   *)
(* (on_climate_change_, reapply_, mark_lost_).                                 *)
THEOREM ThermostatsAlwaysFollow == Spec => []ThermostatsFollow
<1>1. ASSUME TInv, stack = <<>>
      PROVE  \A i, t : ~BeingReapplied(i, t)
  <2>1. DOMAIN stack = {}
    BY <1>1
  <2> QED
    BY <2>1 DEF BeingReapplied
<1>2. TInv => ThermostatsFollow
  BY <1>1 DEF TInv, TargetsRight, ThermostatRight, InHand, ThermostatsFollow, Quiet
<1> QED
  BY <1>2, TargetsInvariant, PTL
-----------------------------------------------------------------------------
(* What flash holds *)

LEMMA SameFileFacts ==
  ASSUME NEW e, NEW f, SameFile(e, f)
  PROVE  FileOf(e) = FileOf(f)
BY DEF SameFile, FileOf

(* Nothing is told, and nothing is written. *)
FilesAlone ==
  /\ DOMAIN entries' = DOMAIN entries /\ \A j \in DOMAIN entries : SameFile(entries'[j], entries[j])
  /\ UNCHANGED <<files, left, unsaved>>

LEMMA AloneFlash ==
  ASSUME FlashAgrees, FilesAlone
  PROVE  FlashAgrees'
<1>1. \A j \in DOMAIN entries : FileOf(entries'[j]) = FileOf(entries[j])
  BY SameFileFacts DEF FilesAlone
<1> QED
  BY <1>1 DEF FilesAlone, FlashAgrees

(* Only the file of i is written, and only i comes, goes or changes its flag. *)
LEMMA OneFlash ==
  ASSUME FlashAgrees, NEW i \in Ids, DOMAIN entries' \ {i} = DOMAIN entries \ {i},
         \A j \in DOMAIN entries' : j # i => SameFile(entries'[j], entries[j]),
         left' = left, unsaved' \ {i} = unsaved \ {i}, \A j \in Ids \ {i} : files'[j] = files[j],
         i \in DOMAIN entries' /\ i \notin unsaved' => files'[i] = FileOf(entries'[i]),
         i \notin DOMAIN entries' /\ i \notin unsaved' => files'[i] \in {NoFile, BadFile}
  PROVE  FlashAgrees'
<1>1. SUFFICES ASSUME NEW j \in Ids \ unsaved', j # i
               PROVE  /\ j \in DOMAIN entries' => files'[j] = FileOf(entries'[j])
                      /\ j \notin DOMAIN entries' /\ files'[j] \notin {NoFile, BadFile} => j \in left'
  BY DEF FlashAgrees
<1>2. j \notin unsaved /\ files'[j] = files[j] /\ (j \in DOMAIN entries' <=> j \in DOMAIN entries)
  BY <1>1
<1>3. j \in DOMAIN entries' => FileOf(entries'[j]) = FileOf(entries[j])
  BY <1>1, SameFileFacts
<1> QED
  BY <1>2, <1>3 DEF FlashAgrees

(* A flag, written or not. *)
LEMMA FlagFlash ==
  ASSUME TypeOK, FlashAgrees, NEW i \in DOMAIN entries, NEW b \in BOOLEAN, NEW saved \in BOOLEAN,
         NEW e, e = [entries[i] EXCEPT !.enabled = b],
         IF entries[i].enabled # b THEN SaveFlag(e, i, saved) ELSE UNCHANGED <<files, unsaved>>,
         DOMAIN entries' = DOMAIN entries, left' = left,
         \A j \in DOMAIN entries' : j # i => SameFile(entries'[j], entries[j]),
         SameFile(entries'[i], e)
  PROVE  FlashAgrees'
<1>1. FileOf(entries'[i]) = FileOf(e) /\ files \in [Ids -> File] /\ i \in Ids
  BY SameFileFacts, TypeEntries DEF TypeOK
<1>2. CASE entries[i].enabled # b
  <2>1. /\ files' = IF saved THEN [files EXCEPT ![i] = FileOf(e)] ELSE files
        /\ unsaved' = IF saved THEN unsaved \ {i} ELSE unsaved \cup {i}
    BY <1>2 DEF SaveFlag
  <2>2. unsaved' \ {i} = unsaved \ {i} /\ (\A j \in Ids \ {i} : files'[j] = files[j])
        /\ (i \notin unsaved' => files'[i] = FileOf(e))
    BY <1>1, <2>1
  <2> QED
    BY <1>1, <2>2, OneFlash
<1>3. CASE entries[i].enabled = b
  <2>1. SameFile(e, entries[i])
    BY <1>3, FlagFacts DEF SameFile
  <2>2. UNCHANGED <<files, left, unsaved>> /\ SameFile(entries'[i], entries[i])
    BY <1>3, <2>1 DEF SameFile
  <2> QED
    BY <2>2, AloneFlash DEF FilesAlone
<1> QED
  BY <1>2, <1>3

LEMMA SettledFlag ==
  ASSUME TypeOK, Walks, FlashAgrees, NEW i \in DOMAIN entries, NEW b \in BOOLEAN, NEW saved \in BOOLEAN,
         IF entries[i].enabled # b THEN SaveFlag([entries[i] EXCEPT !.enabled = b], i, saved)
         ELSE UNCHANGED <<files, unsaved>>,
         SettledStep(i), i \in DOMAIN entries', SameFile(entries'[i], [entries[i] EXCEPT !.enabled = b]), left' = left
  PROVE  FlashAgrees'
<1>1. DOMAIN entries' = DOMAIN entries /\ \A j \in DOMAIN entries' : j # i => SameFile(entries'[j], entries[j])
  BY DEF SettledStep
<1>2. PICK e : e = [entries[i] EXCEPT !.enabled = b]
  OBVIOUS
<1> QED
  BY <1>1, <1>2, FlagFlash

LEMMA AddFlash ==
  ASSUME TypeOK, Walks, FlashAgrees, NEW i \in Ids, NEW d \in Docs, NEW enabled \in BOOLEAN, Add(i, d, enabled)
  PROVE  FlashAgrees'
<1>1. PICK e : e = NewEntry(i, d, enabled)
  OBVIOUS
<1>2. files' = [files EXCEPT ![i] = FileOf(e)] /\ unsaved' = unsaved \ {i} /\ left' = left /\ files \in [Ids -> File]
  BY <1>1 DEF Add, Write, TypeOK
<1>3. SettledStep(i) /\ i \in DOMAIN entries' /\ FileOf(entries'[i]) = FileOf(e)
  BY <1>1, AddSettles, SameFileFacts
<1>4. files'[i] = FileOf(entries'[i]) /\ \A j \in Ids \ {i} : files'[j] = files[j]
  BY <1>2, <1>3
<1>5. /\ DOMAIN entries' \ {i} = DOMAIN entries \ {i} /\ unsaved' \ {i} = unsaved \ {i}
      /\ \A j \in DOMAIN entries' : j # i => SameFile(entries'[j], entries[j])
  BY <1>2, <1>3 DEF SettledStep
<1> QED
  BY <1>2, <1>3, <1>4, <1>5, OneFlash

LEMMA ReplaceFlash ==
  ASSUME TypeOK, Walks, FlashAgrees, NEW i \in Ids, NEW d \in Docs, NEW enabled \in BOOLEAN, Replace(i, d, enabled)
  PROVE  FlashAgrees'
<1>1. PICK c : c = Cancelled(i, entries[i])
  OBVIOUS
<1>2. EntryOK(c) /\ c.newer = entries[i].newer /\ entries[i] \in Entry
  BY <1>1, CancelledFacts, TypeEntries DEF Replace, SameFile, EntryOK
<1>3. PICK e : e = [c EXCEPT !.doc = d, !.enabled = enabled]
  OBVIOUS
<1>4. files' = [files EXCEPT ![i] = FileOf(e)] /\ unsaved' = unsaved \ {i} /\ left' = left /\ files \in [Ids -> File]
  BY <1>1, <1>3 DEF Replace, Write, TypeOK
<1>5. PICK r : r = [entries[i] EXCEPT !.doc = d, !.enabled = enabled]
  OBVIOUS
<1>6. SameFile(r, e)
  BY <1>2, <1>3, <1>5 DEF SameFile, EntryOK, Entry
<1>7. SettledStep(i) /\ i \in DOMAIN entries' /\ SameFile(entries'[i], r)
  BY <1>5, ReplaceSettles
<1>8. FileOf(entries'[i]) = FileOf(e)
  BY <1>6, <1>7, SameFileFacts DEF SameFile
<1>9. files'[i] = FileOf(entries'[i]) /\ \A j \in Ids \ {i} : files'[j] = files[j]
  BY <1>4, <1>8
<1>10. /\ DOMAIN entries' \ {i} = DOMAIN entries \ {i} /\ unsaved' \ {i} = unsaved \ {i}
       /\ \A j \in DOMAIN entries' : j # i => SameFile(entries'[j], entries[j])
  BY <1>4, <1>7 DEF SettledStep
<1> QED
  BY <1>4, <1>7, <1>9, <1>10, OneFlash

LEMMA RemoveFlash ==
  ASSUME TypeOK, Walks, FlashAgrees, NEW i \in Ids, NEW file, Remove(i, file)
  PROVE  FlashAgrees'
<1>1. /\ file \in {NoFile, BadFile, files[i]} /\ files' = [files EXCEPT ![i] = file] /\ files \in [Ids -> File]
      /\ unsaved' = IF file = files[i] THEN unsaved \cup {i} ELSE unsaved \ {i}
      /\ left' = left
  BY DEF Remove, TypeOK
<1>2. SettledStep(i) /\ i \notin DOMAIN entries'
  BY RemoveSettles
<1>3. /\ unsaved' \ {i} = unsaved \ {i} /\ \A j \in Ids \ {i} : files'[j] = files[j]
      /\ i \notin unsaved' => files'[i] \in {NoFile, BadFile}
  BY <1>1
<1>4. /\ DOMAIN entries' \ {i} = DOMAIN entries \ {i}
      /\ \A j \in DOMAIN entries' : j # i => SameFile(entries'[j], entries[j])
  BY <1>2 DEF SettledStep
<1> QED
  BY <1>1, <1>2, <1>3, <1>4, OneFlash

LEMMA RemoveNotLoadedFlash ==
  ASSUME TypeOK, FlashAgrees, NEW i \in Ids, NEW file, RemoveNotLoaded(i, file)
  PROVE  FlashAgrees'
<1>1. /\ i \in left /\ file \in {NoFile, BadFile} /\ files' = [files EXCEPT ![i] = file] /\ files \in [Ids -> File]
      /\ left' = left \ {i} /\ UNCHANGED <<entries, unsaved>> /\ i \notin DOMAIN entries
  BY DEF RemoveNotLoaded, TypeOK
<1>2. files'[i] \in {NoFile, BadFile} /\ \A j \in Ids \ {i} : files'[j] = files[j]
  BY <1>1
<1> QED
  BY <1>1, <1>2 DEF FlashAgrees

LEMMA CallFlash ==
  ASSUME TypeOK, Walks, FlashAgrees, NEW i \in Ids, NEW saved \in BOOLEAN,
         Disable(i, saved) \/ Enable(i, saved) \/ TakeOver(i)
  PROVE  FlashAgrees'
<1>1. CASE Disable(i, saved)
  <2>1. i \in DOMAIN entries /\ left' = left /\ entries[i].enabled \in BOOLEAN
        /\ IF entries[i].enabled # FALSE THEN SaveFlag([entries[i] EXCEPT !.enabled = FALSE], i, saved)
           ELSE UNCHANGED <<files, unsaved>>
    <3>1. entries[i].enabled \in BOOLEAN /\ i \in DOMAIN entries
      BY <1>1, TypeEntries DEF Disable, EntryOK, Entry
    <3> QED
      BY <1>1, <3>1 DEF Disable
  <2>2. /\ SettledStep(i) /\ i \in DOMAIN entries'
        /\ SameFile(entries'[i], [entries[i] EXCEPT !.enabled = FALSE])
    BY <1>1, DisableSettles
  <2>3. PICK b \in BOOLEAN : b = FALSE
    OBVIOUS
  <2> QED
    BY <2>1, <2>2, <2>3, SettledFlag
<1>2. CASE Enable(i, saved)
  <2>1. i \in DOMAIN entries /\ left' = left
        /\ IF entries[i].enabled # TRUE THEN SaveFlag([entries[i] EXCEPT !.enabled = TRUE], i, saved)
           ELSE UNCHANGED <<files, unsaved>>
    <3>1. entries[i].enabled \in BOOLEAN /\ i \in DOMAIN entries
      BY <1>2, TypeEntries DEF Enable, EntryOK, Entry
    <3> QED
      BY <1>2, <3>1 DEF Enable, EnableNow
  <2>2. /\ SettledStep(i) /\ i \in DOMAIN entries'
        /\ SameFile(entries'[i], [entries[i] EXCEPT !.enabled = TRUE])
    BY <1>2, EnableSettles
  <2>3. PICK b \in BOOLEAN : b = TRUE
    OBVIOUS
  <2> QED
    BY <2>1, <2>2, <2>3, SettledFlag
<1>3. CASE TakeOver(i)
  BY <1>3, AloneFlash DEF TakeOver, FilesAlone, SameFile
<1> QED
  BY <1>1, <1>2, <1>3

LEMMA StopOtherFlash ==
  ASSUME TypeOK, Walks, FlashAgrees, NEW saved \in BOOLEAN, StopOther(saved)
  PROVE  FlashAgrees'
<1>1. PICK j \in DOMAIN entries :
        /\ SaveFlag([entries[j] EXCEPT !.enabled = FALSE], j, saved)
        /\ entries'[j] = [entries[j] EXCEPT !.enabled = FALSE]
        /\ \A k \in DOMAIN entries : k # j => entries'[k] = entries[k]
  BY StopOtherFacts
<1>2. PICK e : e = [entries[j] EXCEPT !.enabled = FALSE]
  OBVIOUS
<1>3. DOMAIN entries' = DOMAIN entries /\ left' = left
  BY StopOtherFacts DEF StopOther, AllStay
<1>4. j \in Ids /\ files \in [Ids -> File]
  BY TypeEntries DEF TypeOK
<1>5. /\ files' = IF saved THEN [files EXCEPT ![j] = FileOf(e)] ELSE files
      /\ unsaved' = IF saved THEN unsaved \ {j} ELSE unsaved \cup {j}
  BY <1>1, <1>2 DEF SaveFlag
<1>6. /\ unsaved' \ {j} = unsaved \ {j} /\ \A k \in Ids \ {j} : files'[k] = files[k]
      /\ j \notin unsaved' => files'[j] = FileOf(entries'[j])
  BY <1>1, <1>2, <1>4, <1>5
<1>7. \A k \in DOMAIN entries' : k # j => SameFile(entries'[k], entries[k])
  BY <1>1, <1>3 DEF SameFile
<1> QED
  BY <1>3, <1>4, <1>6, <1>7, OneFlash

LEMMA TakenOverFlash ==
  ASSUME TypeOK, Walks, FlashAgrees, NEW saved \in BOOLEAN, TakenOver(saved)
  PROVE  FlashAgrees'
<1>1. PICK i : i = Top.id
  OBVIOUS
<1>2. /\ SettledStep(i) /\ i \in DOMAIN entries /\ i \in DOMAIN entries'
      /\ SameFile(entries'[i], [entries[i] EXCEPT !.enabled = TRUE])
  BY <1>1, TakenOverSettles
<1>3. entries[i].enabled \in BOOLEAN
  BY <1>2, TypeEntries DEF EntryOK, Entry
<1>4. /\ left' = left
      /\ IF entries[i].enabled # TRUE THEN SaveFlag([entries[i] EXCEPT !.enabled = TRUE], i, saved)
         ELSE UNCHANGED <<files, unsaved>>
  BY <1>1, <1>3 DEF TakenOver, EnableNow
<1>5. PICK b \in BOOLEAN : b = TRUE
  OBVIOUS
<1> QED
  BY <1>2, <1>4, <1>5, SettledFlag

LEMMA LoopFlash ==
  ASSUME TypeOK, FlashAgrees,
         \/ StartNext \/ RunNextPoint \/ Advance \/ EndWalk \/ ReapplyNext
         \/ FollowRelay \/ Reapply \/ \E w \in waits : WaitEnds(w)
  PROVE  FlashAgrees'
<1>1. UNCHANGED <<files, left, unsaved>>
  BY DEF StartNext, RunNextPoint, Advance, EndWalk, ReapplyNext, FollowRelay, Reapply, WaitEnds
<1>2. CASE entries' = entries
  BY <1>1, <1>2, AloneFlash DEF FilesAlone, SameFile
<1>3. ASSUME StartNext \/ RunNextPoint
      PROVE  FlashAgrees'
  <2>1. ASSUME NEW i \in DOMAIN entries, NEW mode, Begun(i, mode)
        PROVE  FlashAgrees'
    BY <1>1, <2>1, AloneFlash DEF FilesAlone, Begun, SameFile
  <2> QED
    BY <1>2, <1>3, <2>1, StartNextLeaves, RunNextPointLeaves DEF PassLeaves
<1>4. CASE Advance
  <2>1. PICK i \in DOMAIN entries : Advanced(i)
    BY <1>4, AdvanceFacts
  <2> QED
    BY <1>1, <2>1, AloneFlash DEF FilesAlone, Advanced, SameFile
<1>5. CASE ReapplyNext
  <2>1. ASSUME NEW i \in DOMAIN entries, NEW k \in Nat, Reapplied(i, k)
        PROVE  FlashAgrees'
    BY <1>1, <2>1, AloneFlash DEF FilesAlone, Reapplied, AllStay, Stays, SameFile
  <2> QED
    BY <1>2, <1>5, <2>1, ReapplyNextFacts DEF ReapplyDone
<1>6. ASSUME NEW w \in waits, WaitEnds(w)
      PROVE  FlashAgrees'
  <2>1. WaitEnded(w)
    BY <1>6, WaitEndsFacts
  <2> QED
    BY <1>1, <1>2, <2>1, AloneFlash DEF FilesAlone, WaitEnded, AllStay, SameFile
<1>7. CASE EndWalk \/ FollowRelay \/ Reapply
  BY <1>2, <1>7 DEF EndWalk, FollowRelay, Reapply
<1> QED
  BY <1>3, <1>4, <1>5, <1>6, <1>7

LEMMA OutsideFlash ==
  ASSUME TypeOK, FlashAgrees,
         \/ \E r \in Switches, value \in {"on", "off"} : Hold(r, value) \/ Release(r, value)
         \/ \E t \in Thermostats : \E after \in After(t) : ClimateChange(t, after)
         \/ \E now \in Clocks : \/ ClockValid(now)
                                \/ \E passed \in Stalls : Jump(now, passed) \/ Tick(now, passed)
         \/ UNCHANGED vars
  PROVE  FlashAgrees'
<1>1. ASSUME NEW t \in Thermostats, NEW after \in After(t), ClimateChange(t, after)
      PROVE  FlashAgrees'
  <2>1. FilesAlone
    BY <1>1, ClimateChangeFacts DEF ClimateChange, FilesAlone, AllStay, Stays, SameFile
  <2> QED
    BY <2>1, AloneFlash
<1>2. CASE UNCHANGED <<entries, files, left, unsaved>>
  BY <1>2, AloneFlash DEF FilesAlone, SameFile
<1>3. CASE \E r \in Switches, value \in {"on", "off"} : Hold(r, value) \/ Release(r, value)
  BY <1>2, <1>3 DEF Hold, Release
<1>4. CASE \E now \in Clocks : \/ ClockValid(now)
                               \/ \E passed \in Stalls : Jump(now, passed) \/ Tick(now, passed)
  BY <1>2, <1>4 DEF ClockValid, Jump, Tick
<1>5. CASE UNCHANGED vars
  BY <1>2, <1>5 DEF vars
<1> QED
  BY <1>1, <1>3, <1>4, <1>5

(* What a boot loads, and what it tells or leaves, is all there is. *)
LEMMA BootFlash ==
  ASSUME NEW f \in [Ids -> File], NEW full \in Nat
  PROVE  \A i \in Ids \ LeftAlone(f, full) :
           /\ i \in DOMAIN Boot(f, full) => f[i] = FileOf(Boot(f, full)[i])
           /\ i \notin DOMAIN Boot(f, full) /\ f[i] \notin {NoFile, BadFile} => i \in LeftForHeap(f, full)
<1>1. PICK b : b = Boot(f, full)
  OBVIOUS
<1>2. DOMAIN b = Loaded(f, full) /\ \A i \in DOMAIN b : FileOf(b[i]) = f[i]
  BY <1>1, BootFacts
<1>3. \A i \in Ids : f[i] \notin {NoFile, BadFile} => i \in Loadable(f)
  BY DEF Loadable
<1> QED
  BY <1>1, <1>2, <1>3 DEF LeftAlone

LEMMA NextFlash ==
  ASSUME TypeOK, Walks, FlashAgrees, [Next]_vars
  PROVE  FlashAgrees'
<1>1. ASSUME NEW i \in Ids,
             \/ \E d \in Docs, enabled \in BOOLEAN : Add(i, d, enabled) \/ Replace(i, d, enabled)
             \/ \E file \in {NoFile, BadFile, files[i]} : Remove(i, file)
             \/ \E file \in {NoFile, BadFile} : RemoveNotLoaded(i, file)
             \/ \E saved \in BOOLEAN : Disable(i, saved) \/ Enable(i, saved)
             \/ TakeOver(i)
      PROVE  FlashAgrees'
  <2>1. CASE TakeOver(i)
    <3>1. TRUE \in BOOLEAN
      OBVIOUS
    <3> QED
      BY <2>1, <3>1, CallFlash
  <2> QED
    BY <1>1, <2>1, AddFlash, ReplaceFlash, RemoveFlash, RemoveNotLoadedFlash, CallFlash
<1>2. ASSUME NEW saved \in BOOLEAN, StopOther(saved) \/ TakenOver(saved)
      PROVE  FlashAgrees'
  BY <1>2, StopOtherFlash, TakenOverFlash
<1>3. CASE \/ StartNext \/ RunNextPoint \/ Advance \/ EndWalk \/ ReapplyNext
           \/ FollowRelay \/ Reapply \/ \E w \in waits : WaitEnds(w)
  BY <1>3, LoopFlash
<1>4. CASE \/ \E r \in Switches, value \in {"on", "off"} : Hold(r, value) \/ Release(r, value)
           \/ \E t \in Thermostats : \E after \in After(t) : ClimateChange(t, after)
           \/ \E now \in Clocks : \/ ClockValid(now)
                                  \/ \E passed \in Stalls : Jump(now, passed) \/ Tick(now, passed)
           \/ UNCHANGED vars
  BY <1>4, OutsideFlash
<1>5. ASSUME NEW full \in 1..(N + 1), Reboot(full)
      PROVE  FlashAgrees'
  <2>1. /\ full \in Nat /\ entries' = Boot(files, full) /\ left' = LeftForHeap(files, full)
        /\ unsaved' = LeftAlone(files, full) /\ files' = files /\ files \in [Ids -> File]
    BY <1>5, FullFacts DEF Reboot, TypeOK
  <2> QED
    BY <2>1, BootFlash DEF FlashAgrees
<1> QED
  BY <1>1, <1>2, <1>3, <1>4, <1>5, Zenon DEF Next, After

(* Unless a call or the boot told otherwise, flash says what memory says, so   *)
(* the next boot, at any moment, brings back every schedule as it is and none  *)
(* that was removed (save_, delete_file_, load_).                              *)
THEOREM FlashAlwaysAgrees == Spec => []FlashAgrees
<1>1. Init => FlashAgrees
  <2>1. SUFFICES ASSUME Init PROVE FlashAgrees
    OBVIOUS
  <2>2. PICK full \in Nat : /\ entries = Boot(files, full) /\ left = LeftForHeap(files, full)
                            /\ unsaved = LeftAlone(files, full)
    BY <2>1, InitType
  <2>3. files \in [Ids -> File]
    BY <2>1, InitType DEF TypeOK
  <2> QED
    BY <2>2, <2>3, BootFlash DEF FlashAgrees
<1>2. LInv /\ FlashAgrees /\ [Next]_vars => FlashAgrees'
  BY NextFlash DEF LInv
<1> QED
  BY <1>1, <1>2, ListsInvariant, PTL DEF Spec
-----------------------------------------------------------------------------
(* Minutes and weeks *)

(* Quotient and remainder, for products and sums of a fixed divisor. *)
LEMMA Multiples ==
  ASSUME NEW d \in Nat \ {0}, NEW a \in Int, NEW b \in Int
  PROVE  /\ a < b => a * d + d <= b * d
         /\ a <= b => a * d <= b * d
<1>1. CASE a < b
  <2>1. PICK n \in Nat : b = a + 1 + n
    <3>1. b - (a + 1) \in Nat /\ b = a + 1 + (b - (a + 1))
      BY <1>1
    <3> QED
      BY <3>1
  <2>2. b * d = a * d + d + n * d
    BY <2>1
  <2>3. n * d \in Nat
    OBVIOUS
  <2>4. a * d \in Int
    OBVIOUS
  <2> QED
    BY <1>1, <2>2, <2>3, <2>4
<1>2. CASE a = b
  BY <1>2
<1>3. a * d \in Int /\ b * d \in Int
  OBVIOUS
<1> QED
  BY <1>1, <1>2, <1>3

LEMMA Division ==
  ASSUME NEW d \in Nat \ {0}, NEW n \in Nat
  PROVE  /\ n \div d \in Nat /\ n % d \in 0..(d - 1) /\ n = (n \div d) * d + (n % d)
         /\ (n \div d) * d <= n /\ n < (n \div d) * d + d
<1>1. n \div d \in Nat /\ n % d \in 0..(d - 1)
  OBVIOUS
<1>2. n = d * (n \div d) + (n % d)
  OBVIOUS
<1>3. PICK q \in Nat, r \in 0..(d - 1) : q = n \div d /\ r = n % d
  BY <1>1
<1>4. n = d * q + r /\ d * q = q * d
  BY <1>2, <1>3
<1>5. PICK m \in Int : m = q * d
  OBVIOUS
<1> QED
  BY <1>3, <1>4, <1>5

LEMMA Quotient ==
  ASSUME NEW d \in Nat \ {0}, NEW n \in Nat, NEW q \in Int, NEW r \in 0..(d - 1), n = q * d + r
  PROVE  n \div d = q /\ n % d = r
<1>1. PICK k \in Nat, s \in 0..(d - 1), kd \in Int, qd \in Int :
        k = n \div d /\ s = n % d /\ kd = k * d /\ qd = q * d /\ n = kd + s /\ n = qd + r
  BY Division
<1>2. ~(k < q)
  <2>1. k < q => kd + d <= qd
    BY <1>1, Multiples
  <2> QED
    BY <1>1, <2>1
<1>3. ~(q < k)
  <2>1. q < k => qd + d <= kd
    BY <1>1, Multiples
  <2> QED
    BY <1>1, <2>1
<1>4. k = q
  BY <1>2, <1>3
<1> QED
  BY <1>1, <1>4

LEMMA QuotientGrows ==
  ASSUME NEW d \in Nat \ {0}, NEW m \in Nat, NEW n \in Nat, m <= n
  PROVE  m \div d <= n \div d
<1>1. PICK k \in Nat : k = m \div d /\ k * d <= m
  BY Division
<1>2. PICK l \in Nat : l = n \div d /\ n < l * d + d
  BY Division
<1>3. ~(l < k)
  <2>1. PICK kd \in Int : kd = k * d
    OBVIOUS
  <2>2. PICK ld \in Int : ld = l * d
    OBVIOUS
  <2>3. kd <= m /\ n < ld + d
    BY <1>1, <1>2, <2>1, <2>2
  <2>4. l < k => ld + d <= kd
    BY <2>1, <2>2, Multiples
  <2> QED
    BY <2>3, <2>4
<1> QED
  BY <1>1, <1>2, <1>3

(* The point a list is for stays in force as long as no minute of a later one *)
(* comes up: the last point before to - back is the last before to.           *)
LEMMA StillInForce ==
  ASSUME NEW d \in Docs, NEW to \in Nat, NEW m \in Nat, m < to,
         NEW week, week = WeekMinuteOf(to),
         to - ((week - PointAt(d, week) + Week) % Week) <= m
  PROVE  InForce(d, WeekMinuteOf(m)) = InForce(d, week)
<1>1. PICK W \in Nat \ {0} : W = Week
  BY ScheduleAssumption
<1>2. week \in 0..(W - 1) /\ week \in Nat
  BY <1>1, DivFacts
<1>3. PICK p \in 0..(W - 1) : /\ p = PointAt(d, week) /\ p \in DOMAIN d.points
                              /\ IF \E x \in DOMAIN d.points : x <= week
                                 THEN p <= week /\ \A x \in DOMAIN d.points : x <= week => x <= p
                                 ELSE \A x \in DOMAIN d.points : x <= p
  BY <1>1, <1>2, PointFacts
<1>4. \A x \in DOMAIN d.points : x \in 0..(W - 1)
  BY <1>1, ScheduleAssumption
<1>5. PICK back \in 0..(W - 1) : /\ back = (week - p + W) % W /\ to - back <= m
                                 /\ p <= week => back = week - p
                                 /\ p > week => back = week - p + W
  <2>1. week - p + W \in Nat
    BY <1>2, <1>3
  <2>2. CASE p <= week
    <3>1. (week - p + W) % W = week - p
      <4>1. PICK r \in 0..(W - 1) : r = week - p
        BY <1>2, <1>3, <2>2
      <4>2. PICK n \in Nat : n = week - p + W
        BY <2>1
      <4>3. n = 1 * W + r
        BY <1>2, <4>1, <4>2
      <4>4. n % W = r
        BY <4>3, Quotient
      <4> QED
        BY <4>1, <4>2, <4>4
    <3> QED
      BY <1>1, <1>2, <1>3, <2>2, <3>1
  <2>3. CASE p > week
    <3>1. (week - p + W) % W = week - p + W
      <4>1. PICK r \in 0..(W - 1) : r = week - p + W
        BY <1>2, <1>3, <2>3
      <4>2. r \in Nat /\ r = 0 * W + r
        BY <4>1
      <4>3. r % W = r
        BY <4>2, Quotient
      <4> QED
        BY <4>1, <4>3
    <3> QED
      BY <1>1, <1>2, <1>3, <2>3, <3>1
  <2> QED
    BY <1>2, <1>3, <2>2, <2>3
<1>60. PICK q \in Nat : to = q * W + week
  <2>1. to \div W \in Nat /\ to = (to \div W) * W + (to % W)
    BY Division
  <2>2. week = to % W
    BY <1>1 DEF WeekMinuteOf
  <2> QED
    BY <2>1, <2>2
<1>6. PICK qW \in Int : qW = q * W /\ to = qW + week
  <2>1. q * W \in Int
    OBVIOUS
  <2> QED
    BY <1>60, <2>1
<1>7. PICK v \in 0..(W - 1) : /\ v = WeekMinuteOf(m)
                              /\ m >= qW => v = m - qW
                              /\ m < qW => v = m - qW + W
  <2>1. CASE m >= qW
    <3>1. PICK r \in 0..(W - 1) : r = m - qW
      BY <1>2, <1>6, <2>1
    <3>2. m % W = m - qW
      <4>1. m = q * W + r
        <5>1. m = qW + r
          BY <3>1
        <5>2. qW = q * W
          BY <1>6
        <5> QED
          BY <5>1, <5>2, Zenon
      <4>0. PICK z \in Int : z = q
        OBVIOUS
      <4>3. m = z * W + r
        BY <4>0, <4>1
      <4>2. m % W = r
        BY <4>3, Quotient
      <4> QED
        BY <3>1, <4>2
    <3> QED
      BY <1>1, <2>1, <3>1, <3>2 DEF WeekMinuteOf
  <2>2. CASE m < qW
    <3>1. PICK r \in 0..(W - 1) : r = m - qW + W
      BY <1>2, <1>5, <1>6, <2>2
    <3>2. PICK o \in Int : o = q - 1
      OBVIOUS
    <3>3. m % W = m - qW + W
      <4>1. o * W = q * W - W
        BY <3>2
      <4>2. m = o * W + r
        <5>1. m = qW - W + r
          BY <3>1
        <5>2. qW = q * W
          BY <1>6
        <5>3. m = q * W - W + r
          BY <5>1, <5>2, Zenon
        <5> QED
          BY <4>1, <5>3, Zenon
      <4>3. m % W = r
        BY <4>2, Quotient
      <4> QED
        BY <3>1, <4>3
    <3> QED
      BY <1>1, <2>2, <3>1, <3>3 DEF WeekMinuteOf
  <2> QED
    BY <1>6, <2>1, <2>2
<1>8. PICK o \in 0..(W - 1) : /\ o = PointAt(d, v) /\ o \in DOMAIN d.points
                              /\ IF \E x \in DOMAIN d.points : x <= v
                                 THEN o <= v /\ \A x \in DOMAIN d.points : x <= v => x <= o
                                 ELSE \A x \in DOMAIN d.points : x <= o
  <2>1. v \in Nat
    OBVIOUS
  <2> QED
    BY <1>1, <2>1, PointFacts
<1>9. o = p
  <2>1. CASE p <= week
    <3>1. p <= v /\ v <= week
      BY <1>2, <1>3, <1>5, <1>6, <1>7, <2>1
    <3>2. o <= v /\ p <= o
      BY <1>3, <1>8, <3>1
    <3>3. o <= p
      <4>1. o <= week
        BY <1>2, <3>1, <3>2
      <4> QED
        BY <1>3, <1>8, <4>1
    <3> QED
      BY <3>2, <3>3
  <2>2. CASE p > week /\ m >= qW
    <3>1. v <= week
      BY <1>2, <1>6, <1>7, <2>2
    <3> QED
      BY <1>2, <1>3, <1>4, <1>8, <2>2, <3>1
  <2>3. CASE p > week /\ m < qW
    <3>1. p <= v
      BY <1>2, <1>3, <1>5, <1>6, <1>7, <2>3
    <3> QED
      BY <1>2, <1>3, <1>4, <1>8, <2>3, <3>1
  <2> QED
    BY <1>2, <1>3, <1>6, <2>1, <2>2, <2>3
<1> QED
  BY <1>3, <1>7, <1>8, <1>9 DEF InForce
-----------------------------------------------------------------------------
(* The list in force *)

KeepsPasses == \A k \in DOMAIN stack : stack[k].kind \in {"starts", "due"} =>
                                         \E l \in DOMAIN stack' : stack'[l] = stack[k]
NoNewPoints == \A l \in DOMAIN stack' : stack'[l].kind = "due" => \E k \in DOMAIN stack : stack[k] = stack'[l]
(* No point is left to run for a document it is not of. *)
DueDocs == \A j \in DOMAIN entries' : IsDue(j) => j \in DOMAIN entries /\ entries'[j].doc = entries[j].doc
SameStart(j) == /\ j \in DOMAIN entries /\ entries[j].active
                /\ entries'[j].mode = entries[j].mode /\ entries'[j].doc = entries[j].doc

LEMMA OnTimeForm ==
  /\ OnTime <=> /\ ClockOnTime /\ PointsInForce
                /\ \A i \in DOMAIN entries : entries[i].active /\ clockValid => Started(i) \/ ToStart(i) \/ IsDue(i)
  /\ /\ ClockOnTime' /\ PointsInForce'
     /\ \A i \in DOMAIN entries' : entries'[i].active /\ clockValid' => Started(i)' \/ ToStart(i)' \/ IsDue(i)'
     => OnTime'
BY DEF OnTime

LEMMA PointsKept ==
  ASSUME PointsInForce, DueDocs, NoNewPoints, UNCHANGED minute
  PROVE  PointsInForce'
<1>1. SUFFICES ASSUME NEW l \in DOMAIN stack', stack'[l].kind = "due", NEW x \in DOMAIN stack'[l].todo,
                      NEW i, i = stack'[l].todo[x][1], i \in DOMAIN entries'
               PROVE  stack'[l].todo[x][2] = InForce(entries'[i].doc, WeekMinuteOf(minute))
  BY DEF PointsInForce
<1>2. PICK k \in DOMAIN stack : stack[k] = stack'[l]
  BY <1>1 DEF NoNewPoints
<1>3. IsDue(i)
  BY <1>1, <1>2 DEF IsDue
<1>4. i \in DOMAIN entries /\ entries'[i].doc = entries[i].doc
  BY <1>1, <1>3 DEF DueDocs
<1> QED
  BY <1>1, <1>2, <1>4 DEF PointsInForce

LEMMA StillStarted ==
  ASSUME OnTime, KeepsPasses, UNCHANGED <<clockValid, minute>>,
         NEW j, SameStart(j), clockValid
  PROVE  Started(j)' \/ ToStart(j)' \/ IsDue(j)'
<1>1. Started(j) \/ ToStart(j) \/ IsDue(j)
  BY OnTimeForm DEF SameStart
<1>2. Started(j) => Started(j)'
  BY DEF Started, SameStart
<1>3. ASSUME ToStart(j) PROVE ToStart(j)'
  <2>1. PICK k \in DOMAIN stack : stack[k].kind = "starts" /\ \E x \in DOMAIN stack[k].todo : stack[k].todo[x] = j
    BY <1>3 DEF ToStart
  <2>2. PICK l \in DOMAIN stack' : stack'[l] = stack[k]
    BY <2>1 DEF KeepsPasses
  <2> QED
    BY <2>1, <2>2 DEF ToStart
<1>4. ASSUME IsDue(j) PROVE IsDue(j)'
  <2>1. PICK k \in DOMAIN stack : stack[k].kind = "due" /\ \E x \in DOMAIN stack[k].todo : stack[k].todo[x][1] = j
    BY <1>4 DEF IsDue
  <2>2. PICK l \in DOMAIN stack' : stack'[l] = stack[k]
    BY <2>1 DEF KeepsPasses
  <2> QED
    BY <2>1, <2>2 DEF IsDue
<1> QED
  BY <1>1, <1>2, <1>3, <1>4

(* Every step the clock takes no part in. *)
LEMMA OnTimeKept ==
  ASSUME OnTime, KeepsPasses, NoNewPoints, DueDocs, UNCHANGED <<clockValid, local, minute>>,
         \A j \in DOMAIN entries' : entries'[j].active => ToStart(j)' \/ SameStart(j)
  PROVE  OnTime'
<1>1. ClockOnTime' /\ PointsInForce'
  BY OnTimeForm, PointsKept DEF ClockOnTime, MinuteCounted
<1>2. ASSUME NEW j \in DOMAIN entries', entries'[j].active, clockValid'
      PROVE  Started(j)' \/ ToStart(j)' \/ IsDue(j)'
  BY <1>2, StillStarted
<1> QED
  BY <1>1, <1>2, OnTimeForm

(* A step that leaves every list, and puts no walk but a list's or a        *)
(* take-over's on the stack.                                                *)
StackGrows == \/ stack' = stack
              \/ \E t \in Seq(Frame) : /\ \A k \in DOMAIN t : t[k].kind \notin {"starts", "due"}
                                       /\ \/ stack' = stack \o t
                                          \/ /\ stack # <<>> /\ Top.kind \notin {"starts", "due"}
                                             /\ stack' = Below \o t

LEMMA GrownFacts ==
  ASSUME TypeOK, StackGrows
  PROVE  KeepsPasses /\ NoNewPoints
<1>1. CASE stack' = stack
  BY <1>1 DEF KeepsPasses, NoNewPoints
<1>2. ASSUME NEW t \in Seq(Frame), \A k \in DOMAIN t : t[k].kind \notin {"starts", "due"}, stack' = stack \o t
      PROVE  KeepsPasses /\ NoNewPoints
  <2>1. stack \in Seq(Frame)
    BY DEF TypeOK
  <2>2. /\ \A k \in DOMAIN stack : k \in DOMAIN (stack \o t) /\ (stack \o t)[k] = stack[k]
        /\ \A k \in DOMAIN (stack \o t) : \/ k \in DOMAIN stack /\ (stack \o t)[k] = stack[k]
                                          \/ \E l \in DOMAIN t : (stack \o t)[k] = t[l]
    BY <2>1, Pushed
  <2>3. /\ \A k \in DOMAIN stack : k \in DOMAIN stack' /\ stack'[k] = stack[k]
        /\ \A k \in DOMAIN stack' : \/ k \in DOMAIN stack /\ stack'[k] = stack[k]
                                    \/ \E l \in DOMAIN t : stack'[k] = t[l]
    BY <1>2, <2>2
  <2> QED
    BY <1>2, <2>3 DEF KeepsPasses, NoNewPoints
<1>3. ASSUME NEW t \in Seq(Frame), \A k \in DOMAIN t : t[k].kind \notin {"starts", "due"},
             stack # <<>>, Top.kind \notin {"starts", "due"}, stack' = Below \o t
      PROVE  KeepsPasses /\ NoNewPoints
  <2>1. /\ Below \in Seq(Frame) /\ Len(stack) \in DOMAIN stack /\ Top = stack[Len(stack)]
        /\ \A k \in DOMAIN Below : k \in DOMAIN stack /\ Below[k] = stack[k]
        /\ \A k \in DOMAIN stack : k # Len(stack) => k \in DOMAIN Below
    BY <1>3, BelowFacts
  <2>2. /\ \A k \in DOMAIN Below : k \in DOMAIN (Below \o t) /\ (Below \o t)[k] = Below[k]
        /\ \A k \in DOMAIN (Below \o t) : \/ k \in DOMAIN Below /\ (Below \o t)[k] = Below[k]
                                          \/ \E l \in DOMAIN t : (Below \o t)[k] = t[l]
    BY <2>1, Pushed
  <2>3. /\ \A k \in DOMAIN Below : k \in DOMAIN stack' /\ stack'[k] = Below[k]
        /\ \A k \in DOMAIN stack' : \/ k \in DOMAIN Below /\ stack'[k] = Below[k]
                                    \/ \E l \in DOMAIN t : stack'[k] = t[l]
    BY <1>3, <2>2
  <2>4. KeepsPasses
    <3>1. \A k \in DOMAIN stack : stack[k].kind \in {"starts", "due"} => k # Len(stack)
      BY <1>3, <2>1
    <3>2. \A k \in DOMAIN stack : k # Len(stack) => k \in DOMAIN stack' /\ stack'[k] = stack[k]
      BY <2>1, <2>3
    <3> QED
      BY <3>1, <3>2 DEF KeepsPasses
  <2>5. NoNewPoints
    <3>1. \A k \in DOMAIN stack' : stack'[k].kind = "due" => ~\E l \in DOMAIN t : stack'[k] = t[l]
      BY <1>3
    <3> QED
      BY <2>1, <2>3, <3>1 DEF NoNewPoints
  <2> QED
    BY <2>4, <2>5
<1> QED
  BY <1>1, <1>2, <1>3 DEF StackGrows
-----------------------------------------------------------------------------
(* The list in force: changes *)

(* What a change leaves of the passes: those under way, and one more of the   *)
(* lists to start.                                                            *)
LEMMA SettledPasses ==
  ASSUME TypeOK, NEW i, SettledStep(i)
  PROVE  /\ KeepsPasses /\ NoNewPoints
         /\ \A j \in DOMAIN entries' : entries'[j].active => ToStart(j)' \/ SameStart(j)
<1>1. PICK todo \in Seq(Ids) :
        /\ stack' = Returned \o Starts(todo)
        /\ \A j \in DOMAIN entries' : entries'[j].active => In(todo, j) \/ (Unmoved(j) /\ entries[j].active)
  BY DEF SettledStep
<1>2. PICK p \in Seq(Frame), s \in Seq(Frame) : p = Returned /\ s = Starts(todo)
  BY ReturnedFacts, StartsFacts
<1>3. /\ Len(s) \in {0, 1}
      /\ \A k \in DOMAIN s : s[k].kind = "starts"
      /\ todo # <<>> => Len(s) = 1 /\ s[1].kind = "starts" /\ s[1].todo = todo
  <2>1. /\ Len(s) \in {0, 1} /\ (todo = <<>> => s = <<>>)
        /\ todo # <<>> => Len(s) = 1 /\ s[1].kind = "starts" /\ s[1].todo = todo
    BY <1>2, StartsFacts
  <2> QED
    BY <2>1
<1>4. /\ \A k \in DOMAIN p : k \in DOMAIN stack /\ p[k] = stack[k]
      /\ \A k \in DOMAIN stack : stack[k].kind \in {"starts", "due"} => k \in DOMAIN p
  <2>1. CASE On("over")
    <3>1. stack # <<>> /\ p = Below /\ Top.kind = "over"
      BY <1>2, <2>1 DEF Returned, On, Quiet
    <3>2. /\ Len(stack) \in DOMAIN stack /\ Top = stack[Len(stack)]
          /\ \A k \in DOMAIN Below : k \in DOMAIN stack /\ Below[k] = stack[k]
          /\ \A k \in DOMAIN stack : k # Len(stack) => k \in DOMAIN Below
      BY <3>1, BelowFacts
    <3> QED
      BY <3>1, <3>2
  <2>2. CASE ~On("over")
    BY <1>2, <2>2 DEF Returned
  <2> QED
    BY <2>1, <2>2
<1>5. /\ \A k \in DOMAIN (p \o s) : \/ k \in DOMAIN p /\ (p \o s)[k] = p[k]
                                    \/ \E l \in DOMAIN s : (p \o s)[k] = s[l]
      /\ \A k \in DOMAIN p : k \in DOMAIN (p \o s) /\ (p \o s)[k] = p[k]
      /\ \A k \in DOMAIN s : Len(p) + k \in DOMAIN (p \o s) /\ (p \o s)[Len(p) + k] = s[k]
  BY <1>2, Pushed
<1>6. /\ \A k \in DOMAIN stack' : \/ k \in DOMAIN p /\ stack'[k] = p[k]
                                  \/ \E l \in DOMAIN s : stack'[k] = s[l]
      /\ \A k \in DOMAIN p : k \in DOMAIN stack' /\ stack'[k] = p[k]
      /\ \A k \in DOMAIN s : Len(p) + k \in DOMAIN stack' /\ stack'[Len(p) + k] = s[k]
  BY <1>1, <1>2, <1>5
<1>7. KeepsPasses
  BY <1>4, <1>6 DEF KeepsPasses
<1>8. NoNewPoints
  BY <1>3, <1>4, <1>6 DEF NoNewPoints
<1>9. ASSUME NEW j \in DOMAIN entries', In(todo, j) PROVE ToStart(j)'
  <2>1. PICK x \in DOMAIN todo : todo[x] = j
    BY <1>9 DEF In
  <2>2. 1 \in DOMAIN s /\ s[1].kind = "starts" /\ s[1].todo = todo
    BY <1>3, <2>1
  <2>3. PICK l \in DOMAIN stack' : stack'[l] = s[1]
    BY <1>6, <2>2
  <2> QED
    BY <2>1, <2>2, <2>3 DEF ToStart
<1>10. ASSUME NEW j \in DOMAIN entries', Unmoved(j), entries[j].active PROVE SameStart(j)
  BY <1>10 DEF Unmoved, SameList, SameStart
<1> QED
  BY <1>1, <1>7, <1>8, <1>9, <1>10

LEMMA SettledOnTime ==
  ASSUME TypeOK, OnTime, NEW i, SettledStep(i),
         i \in DOMAIN entries' /\ IsDue(i) => i \in DOMAIN entries /\ entries'[i].doc = entries[i].doc
  PROVE  OnTime'
<1>1. /\ KeepsPasses /\ NoNewPoints
      /\ \A j \in DOMAIN entries' : entries'[j].active => ToStart(j)' \/ SameStart(j)
  BY SettledPasses
<1>2. DueDocs
  BY DEF SettledStep, SameFile, DueDocs
<1>3. UNCHANGED <<clockValid, local, minute>>
  BY DEF SettledStep
<1> QED
  BY <1>1, <1>2, <1>3, OnTimeKept

(* Nobody saves a schedule a point of which is due in this very tick. *)
LEMMA CallsOnTime ==
  ASSUME TypeOK, Walks, OnTime, ~SaveWhileDue, NEW i \in Ids,
         \/ \E d \in Docs, enabled \in BOOLEAN : Add(i, d, enabled) \/ Replace(i, d, enabled)
         \/ \E file \in {NoFile, BadFile, files[i]} : Remove(i, file)
         \/ \E saved \in BOOLEAN : Disable(i, saved) \/ Enable(i, saved)
  PROVE  OnTime'
<1>1. ASSUME NEW d \in Docs, NEW enabled \in BOOLEAN, Add(i, d, enabled) PROVE OnTime'
  <2>1. ~IsDue(i)
    BY <1>1 DEF Add
  <2> QED
    BY <1>1, <2>1, AddSettles, SettledOnTime
<1>2. ASSUME NEW d \in Docs, NEW enabled \in BOOLEAN, Replace(i, d, enabled) PROVE OnTime'
  <2>1. ~IsDue(i)
    BY <1>2 DEF Replace
  <2> QED
    BY <1>2, <2>1, ReplaceSettles, SettledOnTime
<1>3. ASSUME NEW file \in {NoFile, BadFile, files[i]}, Remove(i, file) PROVE OnTime'
  BY <1>3, RemoveSettles, SettledOnTime
<1>4. ASSUME NEW saved \in BOOLEAN, Disable(i, saved) PROVE OnTime'
  <2>0. PICK b \in BOOLEAN : b = FALSE
    OBVIOUS
  <2>1. /\ SettledStep(i) /\ i \in DOMAIN entries /\ i \in DOMAIN entries'
        /\ SameFile(entries'[i], [entries[i] EXCEPT !.enabled = b])
    BY <1>4, <2>0, DisableSettles
  <2>2. entries'[i].doc = entries[i].doc
    BY <2>1, FlagFacts DEF SameFile
  <2> QED
    BY <2>1, <2>2, SettledOnTime
<1>5. ASSUME NEW saved \in BOOLEAN, Enable(i, saved) PROVE OnTime'
  <2>0. PICK b \in BOOLEAN : b = TRUE
    OBVIOUS
  <2>1. /\ SettledStep(i) /\ i \in DOMAIN entries /\ i \in DOMAIN entries'
        /\ SameFile(entries'[i], [entries[i] EXCEPT !.enabled = b])
    BY <1>5, <2>0, EnableSettles
  <2>2. entries'[i].doc = entries[i].doc
    BY <2>1, FlagFacts DEF SameFile
  <2> QED
    BY <2>1, <2>2, SettledOnTime
<1> QED
  BY <1>1, <1>2, <1>3, <1>4, <1>5

LEMMA TakenOverOnTime ==
  ASSUME TypeOK, Walks, OnTime, NEW saved \in BOOLEAN, TakenOver(saved)
  PROVE  OnTime'
<1>0. PICK b \in BOOLEAN : b = TRUE
  OBVIOUS
<1>1. PICK i \in DOMAIN entries : /\ i = Top.id /\ SettledStep(i) /\ i \in DOMAIN entries'
                                  /\ SameFile(entries'[i], [entries[i] EXCEPT !.enabled = b])
  BY <1>0, TakenOverSettles
<1>2. entries'[i].doc = entries[i].doc
  BY <1>1, FlagFacts DEF SameFile
<1> QED
  BY <1>1, <1>2, SettledOnTime

LEMMA GrownOnTime ==
  ASSUME TypeOK, OnTime, StackGrows, UNCHANGED <<clockValid, local, minute>>,
         \A j \in DOMAIN entries' : /\ j \in DOMAIN entries /\ entries'[j].doc = entries[j].doc
                                    /\ entries'[j].active = entries[j].active /\ entries'[j].mode = entries[j].mode
  PROVE  OnTime'
<1>1. KeepsPasses /\ NoNewPoints
  BY GrownFacts
<1>2. DueDocs
  BY DEF DueDocs
<1>3. \A j \in DOMAIN entries' : entries'[j].active => SameStart(j)
  BY DEF SameStart
<1> QED
  BY <1>1, <1>2, <1>3, OnTimeKept

LEMMA PoppedGrows ==
  ASSUME TypeOK, stack # <<>>, Top.kind \notin {"starts", "due"}, stack' = Below
  PROVE  StackGrows
<1>0. <<>> \in Seq(Frame)
  OBVIOUS
<1>1. PICK t \in Seq(Frame) : t = <<>>
  BY <1>0, Zenon
<1>2. Below \in Seq(Frame)
  BY BelowFacts
<1>3. Below \o t = Below
  BY <1>1, <1>2
<1>4. \A k \in DOMAIN t : t[k].kind \notin {"starts", "due"}
  BY <1>1
<1> QED
  BY <1>3, <1>4 DEF StackGrows

LEMMA PushedGrows ==
  ASSUME NEW t \in Seq(Frame), Len(t) = 1, t[1].kind \notin {"starts", "due"},
         \/ stack' = stack \o t
         \/ stack # <<>> /\ Top.kind \notin {"starts", "due"} /\ stack' = Below \o t
  PROVE  StackGrows
<1>1. \A k \in DOMAIN t : t[k].kind \notin {"starts", "due"}
  OBVIOUS
<1> QED
  BY <1>1 DEF StackGrows
-----------------------------------------------------------------------------
(* The list in force: the steps of walks, and what happens outside *)

LEMMA TakeOverOnTime ==
  ASSUME TypeOK, OnTime, NEW i \in Ids, TakeOver(i)
  PROVE  OnTime'
<1>1. PICK todo \in Seq(Ids) : stack' = stack \o TakeOverOf(i, todo)
  BY TakeOverFacts
<1>2. PICK t \in Seq(Frame) : t = TakeOverOf(i, todo) /\ Len(t) = 1 /\ t[1].kind = "over"
  BY NewFrames
<1>3. StackGrows
  BY <1>1, <1>2, PushedGrows
<1> QED
  BY <1>3, GrownOnTime DEF TakeOver

LEMMA StopOtherOnTime ==
  ASSUME TypeOK, Walks, OnTime, NEW saved \in BOOLEAN, StopOther(saved)
  PROVE  OnTime'
<1>1. PICK i \in Ids, todo \in Seq(Ids) : stack' = Below \o TakeOverOf(i, todo)
  BY StopOtherFacts, TypeEntries
<1>2. PICK t \in Seq(Frame) : t = TakeOverOf(i, todo) /\ Len(t) = 1 /\ t[1].kind = "over"
  BY NewFrames
<1>3. StackGrows
  <2>1. stack # <<>> /\ Top.kind = "over"
    BY DEF StopOther, On, Quiet
  <2> QED
    BY <1>1, <1>2, <2>1, PushedGrows
<1>4. AllStay
  BY StopOtherFacts
<1> QED
  BY <1>3, <1>4, GrownOnTime DEF StopOther, AllStay, Stays

LEMMA AdvanceOnTime ==
  ASSUME TypeOK, OnTime, Advance
  PROVE  OnTime'
<1>1. PICK i \in DOMAIN entries : Advanced(i) /\ (AdvanceWaits(i) \/ AdvanceRelay(i) \/ AdvanceThermostat(i))
  BY AdvanceFacts
<1>2. stack # <<>> /\ Top.kind = "list"
  BY DEF Advance, On, Quiet
<1>3. stack' = Below \/ stack' = stack
  BY <1>1 DEF AdvanceWaits, AdvanceRelay, AdvanceThermostat
<1>4. StackGrows
  <2>1. stack' = stack => StackGrows
    BY DEF StackGrows
  <2> QED
    BY <1>2, <1>3, <2>1, PoppedGrows
<1>5. \A j \in DOMAIN entries' : /\ j \in DOMAIN entries /\ entries'[j].doc = entries[j].doc
                                 /\ entries'[j].active = entries[j].active /\ entries'[j].mode = entries[j].mode
  <2>1. entries[i].active /\ entries'[i].active
    BY <1>1 DEF Advanced, Runs
  <2>2. entries[i].active = TRUE /\ entries'[i].active = TRUE
    <3>1. EntryOK(entries[i]) /\ EntryOK(entries'[i])
      BY <1>1, TypeEntries DEF Advanced
    <3>2. entries[i].active \in BOOLEAN /\ entries'[i].active \in BOOLEAN
      BY <3>1 DEF EntryOK, Entry
    <3> QED
      BY <2>1, <3>2
  <2> QED
    BY <1>1, <2>2 DEF Advanced, SameFile
<1> QED
  BY <1>4, <1>5, GrownOnTime DEF Advance

LEMMA EndWalkOnTime ==
  ASSUME TypeOK, OnTime, EndWalk
  PROVE  OnTime'
<1>1. stack # <<>> /\ Top.kind = "list" /\ stack' = Below /\ UNCHANGED <<entries, clockValid, local, minute>>
  BY DEF EndWalk, On, Quiet
<1> QED
  BY <1>1, PoppedGrows, GrownOnTime

LEMMA WaitEndsOnTime ==
  ASSUME TypeOK, OnTime, NEW w \in waits, WaitEnds(w)
  PROVE  OnTime'
<1>1. WaitEnded(w) /\ stack = <<>> /\ UNCHANGED <<clockValid, local, minute>>
  BY WaitEndsFacts DEF WaitEnds, Quiet
<1>2. StackGrows
  <2>1. stack' = stack => StackGrows
    BY DEF StackGrows
  <2>2. ASSUME stack' = ListWalk(w.id, w.run) PROVE StackGrows
    <3>1. w.id \in Ids /\ w.run \in Nat
      BY DEF TypeOK
    <3>2. PICK t \in Seq(Frame) : t = ListWalk(w.id, w.run) /\ Len(t) = 1 /\ t[1].kind = "list"
      BY <3>1, NewFrames
    <3>3. stack \o t = t
      BY <1>1, <3>2
    <3> QED
      BY <2>2, <3>2, <3>3, PushedGrows
  <2> QED
    BY <1>1, <2>1, <2>2 DEF WaitEnded
<1> QED
  BY <1>1, <1>2, GrownOnTime DEF WaitEnded, AllStay, Stays

LEMMA ReapplyOnTime ==
  ASSUME TypeOK, OnTime, Reapply
  PROVE  OnTime'
<1>1. /\ stack = <<>> /\ jobs # <<>> /\ Head(jobs).kind = "reapply" /\ UNCHANGED <<entries, clockValid, local, minute>>
      /\ stack' = ReapplyWalk(Head(jobs).id, Head(jobs).run, Head(jobs).target, 1)
  BY DEF Reapply, Quiet
<1>2. Head(jobs).id \in Ids /\ Head(jobs).run \in Nat /\ Head(jobs).target \in Thermostats
  BY <1>1, HeadJob
<1>3. PICK t \in Seq(Frame) : t = stack' /\ Len(t) = 1 /\ t[1].kind = "reapply"
  BY <1>1, <1>2, NewFrames
<1>4. stack \o t = t
  BY <1>1, <1>3
<1>5. StackGrows
  BY <1>3, <1>4, PushedGrows
<1> QED
  BY <1>1, <1>5, GrownOnTime

LEMMA ReapplyNextOnTime ==
  ASSUME TypeOK, OnTime, ReapplyNext
  PROVE  OnTime'
<1>1. /\ stack # <<>> /\ Top.kind = "reapply" /\ UNCHANGED <<clockValid, local, minute>>
      /\ Top.id \in Ids /\ Top.run \in Nat /\ Top.target \in Thermostats
      /\ ReapplyDone \/ \E i \in DOMAIN entries : \E k \in Nat : Reapplied(i, k)
  BY ReapplyNextFacts DEF ReapplyNext, On, Quiet
<1>2. CASE ReapplyDone
  BY <1>1, <1>2, PoppedGrows, GrownOnTime DEF ReapplyDone
<1>3. ASSUME NEW i \in DOMAIN entries, NEW k \in Nat, Reapplied(i, k) PROVE OnTime'
  <2>1. stack' = Below \o ReapplyWalk(i, Top.run, Top.target, k + 1) /\ i \in Ids /\ AllStay
    BY <1>1, <1>3 DEF Reapplied
  <2>4. PICK run \in Nat, g \in Thermostats, at \in Nat : run = Top.run /\ g = Top.target /\ at = k + 1
    BY <1>1
  <2>5. /\ ReapplyWalk(i, run, g, at) \in Seq(Frame) /\ Len(ReapplyWalk(i, run, g, at)) = 1
        /\ ReapplyWalk(i, run, g, at)[1].kind = "reapply"
    BY <2>1, NewFrames
  <2>2. PICK t \in Seq(Frame) : t = ReapplyWalk(i, run, g, at) /\ Len(t) = 1 /\ t[1].kind = "reapply"
    BY <2>5
  <2>3. StackGrows
    BY <1>1, <2>1, <2>2, <2>4, PushedGrows
  <2> QED
    BY <1>1, <2>1, <2>3, GrownOnTime DEF AllStay, Stays
<1> QED
  BY <1>1, <1>2, <1>3

LEMMA OutsideOnTime ==
  ASSUME TypeOK, OnTime,
         \/ \E i \in Ids : \E file \in {NoFile, BadFile} : RemoveNotLoaded(i, file)
         \/ FollowRelay
         \/ \E r \in Switches, value \in {"on", "off"} : Hold(r, value) \/ Release(r, value)
         \/ \E t \in Thermostats : \E after \in After(t) : ClimateChange(t, after)
         \/ UNCHANGED vars
  PROVE  OnTime'
<1>1. StackGrows /\ UNCHANGED <<clockValid, local, minute>>
  <2>1. UNCHANGED <<stack, clockValid, local, minute>>
    BY DEF RemoveNotLoaded, FollowRelay, Hold, Release, ClimateChange, vars
  <2> QED
    BY <2>1 DEF StackGrows
<1>2. AllStay
  <2>1. CASE entries' = entries
    BY <2>1, AllSame
  <2>2. ASSUME NEW t \in Thermostats, NEW after \in After(t), ClimateChange(t, after) PROVE AllStay
    BY <2>2, ClimateChangeFacts
  <2>3. entries' = entries \/ \E t \in Thermostats : \E after \in After(t) : ClimateChange(t, after)
    BY DEF RemoveNotLoaded, FollowRelay, Hold, Release, vars
  <2> QED
    BY <2>1, <2>2, <2>3
<1> QED
  BY <1>1, <1>2, GrownOnTime DEF AllStay, Stays
-----------------------------------------------------------------------------
(* The list in force: one start, or one point, of a pass *)

LEMMA PassFrames ==
  ASSUME TypeOK, stack # <<>>, NEW rest, PassLeaves(rest)
  PROVE  /\ \A k \in DOMAIN stack : k # Len(stack) => \E l \in DOMAIN stack' : stack'[l] = stack[k]
         /\ \A k \in DOMAIN rest : \E l \in DOMAIN stack' : stack'[l] = rest[k]
         /\ \A l \in DOMAIN stack' : stack'[l].kind = "due" =>
              \/ \E k \in DOMAIN stack : stack[k] = stack'[l]
              \/ \E k \in DOMAIN rest : rest[k] = stack'[l]
<1>1. PICK p \in Seq(Frame), r \in Seq(Frame) : p = Below /\ r = rest
  BY BelowFacts DEF PassLeaves
<1>2. /\ \A k \in DOMAIN p : k \in DOMAIN stack /\ p[k] = stack[k]
      /\ \A k \in DOMAIN stack : k # Len(stack) => k \in DOMAIN p
  BY <1>1, BelowFacts
<1>3. PICK u \in Seq(Frame) : u = p \o r
  BY <1>1, Pushed
<1>4. /\ \A k \in DOMAIN p : k \in DOMAIN u /\ u[k] = p[k]
      /\ \A k \in DOMAIN r : \E l \in DOMAIN u : u[l] = r[k]
      /\ \A l \in DOMAIN u : (\E k \in DOMAIN p : p[k] = u[l]) \/ (\E k \in DOMAIN r : r[k] = u[l])
  <2>1. /\ \A k \in DOMAIN p : k \in DOMAIN (p \o r) /\ (p \o r)[k] = p[k]
        /\ \A k \in DOMAIN r : Len(p) + k \in DOMAIN (p \o r) /\ (p \o r)[Len(p) + k] = r[k]
        /\ \A l \in DOMAIN (p \o r) : \/ l \in DOMAIN p /\ (p \o r)[l] = p[l]
                                      \/ l - Len(p) \in DOMAIN r /\ (p \o r)[l] = r[l - Len(p)]
    BY Pushed
  <2>2. /\ \A k \in DOMAIN p : k \in DOMAIN u /\ u[k] = p[k]
        /\ \A k \in DOMAIN r : Len(p) + k \in DOMAIN u /\ u[Len(p) + k] = r[k]
        /\ \A l \in DOMAIN u : \/ l \in DOMAIN p /\ u[l] = p[l]
                               \/ l - Len(p) \in DOMAIN r /\ u[l] = r[l - Len(p)]
    BY <1>3, <2>1
  <2> QED
    BY <2>2
<1>5. PICK w \in Seq(Frame) : stack' = u \o w /\ \A k \in DOMAIN w : w[k].kind = "list"
  <2>1. CASE stack' = Below \o rest
    <3>1. PICK w \in Seq(Frame) : w = <<>>
      <4>1. <<>> \in Seq(Frame)
        OBVIOUS
      <4> QED
        BY <4>1, Zenon
    <3>2. u \o w = u
      BY <3>1
    <3>3. DOMAIN w = {}
      BY <3>1
    <3> QED
      BY <1>1, <1>3, <2>1, <3>2, <3>3
  <2>2. ASSUME NEW i \in DOMAIN entries, stack' = Below \o rest \o ListWalk(i, NewRun(i))
        PROVE  \E w \in Seq(Frame) : stack' = u \o w /\ \A k \in DOMAIN w : w[k].kind = "list"
    <3>1. i \in Ids /\ NewRun(i) \in Nat
      BY TypeEntries, NewRunFacts
    <3>2. PICK w \in Seq(Frame) : w = ListWalk(i, NewRun(i)) /\ Len(w) = 1 /\ w[1].kind = "list"
      BY <3>1, NewFrames
    <3>3. \A k \in DOMAIN w : w[k].kind = "list"
      BY <3>2
    <3> QED
      BY <1>1, <1>3, <2>2, <3>2, <3>3
  <2> QED
    BY <2>1, <2>2 DEF PassLeaves
<1>6. /\ \A k \in DOMAIN u : k \in DOMAIN stack' /\ stack'[k] = u[k]
      /\ \A l \in DOMAIN stack' : (\E k \in DOMAIN u : u[k] = stack'[l]) \/ (\E k \in DOMAIN w : w[k] = stack'[l])
  <2>1. /\ \A k \in DOMAIN u : k \in DOMAIN (u \o w) /\ (u \o w)[k] = u[k]
        /\ \A l \in DOMAIN (u \o w) : \/ l \in DOMAIN u /\ (u \o w)[l] = u[l]
                                      \/ l - Len(u) \in DOMAIN w /\ (u \o w)[l] = w[l - Len(u)]
    BY Pushed
  <2>2. /\ \A k \in DOMAIN u : k \in DOMAIN stack' /\ stack'[k] = u[k]
        /\ \A l \in DOMAIN stack' : \/ l \in DOMAIN u /\ stack'[l] = u[l]
                                    \/ l - Len(u) \in DOMAIN w /\ stack'[l] = w[l - Len(u)]
    BY <1>5, <2>1
  <2> QED
    BY <2>2
<1>7. ASSUME NEW k \in DOMAIN stack, k # Len(stack)
      PROVE  \E l \in DOMAIN stack' : stack'[l] = stack[k]
  <2>1. k \in DOMAIN p /\ p[k] = stack[k]
    BY <1>2, <1>7
  <2>2. k \in DOMAIN u /\ u[k] = stack[k]
    BY <1>4, <2>1
  <2> QED
    BY <1>6, <2>2
<1>8. ASSUME NEW k \in DOMAIN rest
      PROVE  \E l \in DOMAIN stack' : stack'[l] = rest[k]
  <2>1. PICK l \in DOMAIN u : u[l] = rest[k]
    BY <1>1, <1>4, <1>8
  <2> QED
    BY <1>6, <2>1
<1>9. ASSUME NEW l \in DOMAIN stack', stack'[l].kind = "due"
      PROVE  \/ \E k \in DOMAIN stack : stack[k] = stack'[l]
             \/ \E k \in DOMAIN rest : rest[k] = stack'[l]
  <2>1. PICK m \in DOMAIN u : u[m] = stack'[l]
    BY <1>5, <1>6, <1>9
  <2>2. (\E k \in DOMAIN p : p[k] = u[m]) \/ (\E k \in DOMAIN r : r[k] = u[m])
    BY <1>4
  <2>3. (\E k \in DOMAIN p : p[k] = u[m]) => \E k \in DOMAIN stack : stack[k] = u[m]
    BY <1>2
  <2>4. (\E k \in DOMAIN r : r[k] = u[m]) => \E k \in DOMAIN rest : rest[k] = u[m]
    BY <1>1
  <2> QED
    BY <2>1, <2>2, <2>3, <2>4
<1> QED
  BY <1>7, <1>8, <1>9

(* Whose turn it was has the list in force, whatever of the pass is left is    *)
(* still to come.                                                             *)
LEMMA PassOnTime ==
  ASSUME TypeOK, OnTime, stack # <<>>, NEW rest, PassLeaves(rest), NEW i,
         UNCHANGED <<clockValid, local, minute>>, DOMAIN entries' = DOMAIN entries,
         \A j \in DOMAIN entries : /\ entries'[j].doc = entries[j].doc /\ (entries'[j].active => entries[j].active)
                                   /\ j # i => entries'[j] = entries[j],
         i \in DOMAIN entries /\ entries[i].active /\ clockValid => Started(i)',
         Top.kind = "starts" => \A x \in DOMAIN Top.todo :
           Top.todo[x] = i \/ \E l \in DOMAIN rest : rest[l].kind = "starts" /\ In(rest[l].todo, Top.todo[x]),
         Top.kind = "due" => \A x \in DOMAIN Top.todo :
           Top.todo[x][1] = i \/ \E l \in DOMAIN rest : rest[l].kind = "due" /\ In(rest[l].todo, Top.todo[x]),
         \A l \in DOMAIN rest : rest[l].kind = "due" =>
           Top.kind = "due" /\ \A x \in DOMAIN rest[l].todo : In(Top.todo, rest[l].todo[x])
  PROVE  OnTime'
<1>1. /\ \A k \in DOMAIN stack : k # Len(stack) => \E l \in DOMAIN stack' : stack'[l] = stack[k]
      /\ \A k \in DOMAIN rest : \E l \in DOMAIN stack' : stack'[l] = rest[k]
      /\ \A l \in DOMAIN stack' : stack'[l].kind = "due" =>
           \/ \E k \in DOMAIN stack : stack[k] = stack'[l]
           \/ \E k \in DOMAIN rest : rest[k] = stack'[l]
  BY PassFrames
<1>2. Len(stack) \in DOMAIN stack /\ Top = stack[Len(stack)]
  BY BelowFacts
<1>3. ClockOnTime'
  BY OnTimeForm DEF ClockOnTime, MinuteCounted
<1>4. PointsInForce'
  <2>1. SUFFICES ASSUME NEW l \in DOMAIN stack', stack'[l].kind = "due", NEW x \in DOMAIN stack'[l].todo,
                        NEW n, n = stack'[l].todo[x][1], n \in DOMAIN entries'
                 PROVE  stack'[l].todo[x][2] = InForce(entries'[n].doc, WeekMinuteOf(minute))
    BY DEF PointsInForce
  <2>2. PICK k \in DOMAIN stack : stack[k].kind = "due" /\ \E y \in DOMAIN stack[k].todo : stack[k].todo[y] = stack'[l].todo[x]
    <3>1. CASE \E k \in DOMAIN stack : stack[k] = stack'[l]
      BY <2>1, <3>1
    <3>2. CASE \E k \in DOMAIN rest : rest[k] = stack'[l]
      <4>1. PICK k \in DOMAIN rest : rest[k] = stack'[l]
        BY <3>2
      <4>2. Top.kind = "due" /\ In(Top.todo, stack'[l].todo[x])
        BY <2>1, <4>1
      <4> QED
        BY <1>2, <4>2 DEF In
    <3> QED
      BY <1>1, <2>1, <3>1, <3>2
  <2>3. PICK y \in DOMAIN stack[k].todo : stack[k].todo[y] = stack'[l].todo[x]
    BY <2>2
  <2>4. stack[k].todo[y][2] = InForce(entries[n].doc, WeekMinuteOf(minute))
    BY <2>1, <2>2, <2>3, OnTimeForm DEF PointsInForce
  <2> QED
    BY <2>1, <2>3, <2>4
<1>5. ASSUME NEW j \in DOMAIN entries', entries'[j].active, clockValid'
      PROVE  Started(j)' \/ ToStart(j)' \/ IsDue(j)'
  <2>1. CASE j = i
    BY <1>5, <2>1
  <2>2. CASE j # i
    <3>1. Started(j) \/ ToStart(j) \/ IsDue(j)
      BY <1>5, OnTimeForm
    <3>2. Started(j) => Started(j)'
      BY <1>5, <2>2 DEF Started
    <3>3. ASSUME ToStart(j) PROVE ToStart(j)'
      <4>1. PICK k \in DOMAIN stack : stack[k].kind = "starts" /\ \E x \in DOMAIN stack[k].todo : stack[k].todo[x] = j
        BY <3>3 DEF ToStart
      <4>2. \E l \in DOMAIN stack' : stack'[l].kind = "starts" /\ \E x \in DOMAIN stack'[l].todo : stack'[l].todo[x] = j
        <5>1. CASE k # Len(stack)
          <6>1. PICK l \in DOMAIN stack' : stack'[l] = stack[k]
            BY <1>1, <5>1
          <6> QED
            BY <4>1, <6>1
        <5>2. CASE k = Len(stack)
          <6>1. PICK l \in DOMAIN rest : rest[l].kind = "starts" /\ In(rest[l].todo, j)
            BY <1>2, <2>2, <4>1, <5>2
          <6>2. PICK m \in DOMAIN stack' : stack'[m] = rest[l]
            BY <1>1
          <6> QED
            BY <6>1, <6>2 DEF In
        <5> QED
          BY <5>1, <5>2
      <4> QED
        BY <4>2 DEF ToStart
    <3>4. ASSUME IsDue(j) PROVE IsDue(j)'
      <4>1. PICK k \in DOMAIN stack : stack[k].kind = "due" /\ \E x \in DOMAIN stack[k].todo : stack[k].todo[x][1] = j
        BY <3>4 DEF IsDue
      <4>2. \E l \in DOMAIN stack' : stack'[l].kind = "due" /\ \E x \in DOMAIN stack'[l].todo : stack'[l].todo[x][1] = j
        <5>1. CASE k # Len(stack)
          <6>1. PICK l \in DOMAIN stack' : stack'[l] = stack[k]
            BY <1>1, <5>1
          <6> QED
            BY <4>1, <6>1
        <5>2. CASE k = Len(stack)
          <6>0. PICK x \in DOMAIN Top.todo : Top.todo[x][1] = j
            BY <1>2, <4>1, <5>2
          <6>1. PICK l \in DOMAIN rest : rest[l].kind = "due" /\ In(rest[l].todo, Top.todo[x])
            BY <1>2, <2>2, <4>1, <5>2, <6>0
          <6>2. PICK m \in DOMAIN stack' : stack'[m] = rest[l]
            BY <1>1
          <6>3. PICK y \in DOMAIN rest[l].todo : rest[l].todo[y] = Top.todo[x]
            BY <6>1 DEF In
          <6> QED
            BY <6>0, <6>1, <6>2, <6>3
        <5> QED
          BY <5>1, <5>2
      <4> QED
        BY <4>2 DEF IsDue
    <3> QED
      BY <3>1, <3>2, <3>3, <3>4
  <2> QED
    BY <2>1, <2>2
<1> QED
  BY <1>3, <1>4, <1>5, OnTimeForm
-----------------------------------------------------------------------------
(* The list in force: turn by turn *)

LEMMA TailIn ==
  ASSUME NEW S, NEW s \in Seq(S), s # <<>>
  PROVE  /\ \A x \in DOMAIN s : s[x] = Head(s) \/ (Tail(s) # <<>> /\ In(Tail(s), s[x]))
         /\ \A x \in DOMAIN Tail(s) : In(s, Tail(s)[x])
<1>1. /\ Tail(s) \in Seq(S) /\ Len(Tail(s)) = Len(s) - 1 /\ Len(s) \in Nat \ {0} /\ Head(s) = s[1]
      /\ \A x \in 1..(Len(s) - 1) : Tail(s)[x] = s[x + 1]
  OBVIOUS
<1>2. DOMAIN s = 1..Len(s) /\ DOMAIN Tail(s) = 1..(Len(s) - 1)
  BY <1>1
<1>3. ASSUME NEW x \in DOMAIN s, x # 1
      PROVE  Tail(s) # <<>> /\ In(Tail(s), s[x])
  <2>1. x - 1 \in DOMAIN Tail(s) /\ Tail(s)[x - 1] = s[x]
    BY <1>1, <1>2, <1>3
  <2>2. DOMAIN <<>> = {}
    OBVIOUS
  <2> QED
    BY <2>1, <2>2 DEF In
<1>4. ASSUME NEW x \in DOMAIN Tail(s)
      PROVE  In(s, Tail(s)[x])
  <2>1. x + 1 \in DOMAIN s /\ Tail(s)[x] = s[x + 1]
    BY <1>1, <1>2
  <2> QED
    BY <2>1 DEF In
<1> QED
  BY <1>1, <1>3, <1>4

LEMMA StartNextOnTime ==
  ASSUME TypeOK, OnTime, StartNext
  PROVE  OnTime'
<1>1. PICK i \in Ids, todo \in Seq(Ids), tail \in Seq(Ids) :
        /\ todo = Top.todo /\ todo # <<>> /\ i = Head(todo) /\ tail = Tail(todo)
        /\ stack # <<>> /\ Top.kind = "starts"
        /\ \/ clockValid /\ Begun(i, InForce(entries[i].doc, WeekMinuteOf(minute)))
           \/ /\ ~(i \in DOMAIN entries /\ entries[i].active /\ clockValid)
              /\ UNCHANGED entries
  BY StartNextFacts DEF StartNext, On, Quiet
<1>2. PICK rest : rest = Starts(tail) /\ PassLeaves(rest)
  BY <1>1, StartNextLeaves
<1>3. /\ \A x \in DOMAIN todo : todo[x] = i \/ (tail # <<>> /\ In(tail, todo[x]))
      /\ \A x \in DOMAIN tail : In(todo, tail[x])
  BY <1>1, TailIn
<1>4. /\ tail # <<>> => 1 \in DOMAIN rest /\ rest[1].kind = "starts" /\ rest[1].todo = tail
      /\ \A l \in DOMAIN rest : rest[l].kind = "starts"
  <2>1. /\ rest \in Seq(Frame) /\ Len(rest) \in {0, 1} /\ (tail = <<>> => rest = <<>>)
        /\ tail # <<>> => Len(rest) = 1 /\ rest[1].kind = "starts" /\ rest[1].todo = tail
    BY <1>2, StartsFacts
  <2> QED
    BY <2>1
<1>5. /\ DOMAIN entries' = DOMAIN entries
      /\ \A j \in DOMAIN entries : /\ entries'[j].doc = entries[j].doc /\ (entries'[j].active => entries[j].active)
                                   /\ j # i => entries'[j] = entries[j]
      /\ i \in DOMAIN entries /\ entries[i].active /\ clockValid => Started(i)'
  BY <1>1 DEF Begun, SameFile, Started, StartNext
<1>6. UNCHANGED <<clockValid, local, minute>>
  BY DEF StartNext
<1>7. Top.kind = "starts" => \A x \in DOMAIN Top.todo :
        Top.todo[x] = i \/ \E l \in DOMAIN rest : rest[l].kind = "starts" /\ In(rest[l].todo, Top.todo[x])
  BY <1>1, <1>3, <1>4
<1>8. /\ Top.kind # "due" /\ \A l \in DOMAIN rest : rest[l].kind # "due"
  BY <1>1, <1>4
<1> QED
  BY <1>1, <1>2, <1>5, <1>6, <1>7, <1>8, PassOnTime

LEMMA RunNextPointOnTime ==
  ASSUME TypeOK, OnTime, RunNextPoint
  PROVE  OnTime'
<1>1. PICK head \in Ids \X Nat, todo \in Seq(Ids \X Nat), tail \in Seq(Ids \X Nat) :
        /\ todo = Top.todo /\ todo # <<>> /\ head = Head(todo) /\ tail = Tail(todo)
        /\ stack # <<>> /\ Top.kind = "due"
        /\ \/ Begun(head[1], head[2])
           \/ /\ ~(/\ head[1] \in DOMAIN entries /\ entries[head[1]].active
                   /\ head[2] \in DOMAIN entries[head[1]].doc.modes)
              /\ UNCHANGED entries
  BY RunNextPointFacts DEF RunNextPoint, On, Quiet
<1>2. PICK rest : rest = Due(tail) /\ PassLeaves(rest)
  BY <1>1, RunNextPointLeaves
<1>3. /\ \A x \in DOMAIN todo : todo[x] = head \/ (tail # <<>> /\ In(tail, todo[x]))
      /\ \A x \in DOMAIN tail : In(todo, tail[x])
  BY <1>1, TailIn
<1>4. /\ tail # <<>> => 1 \in DOMAIN rest /\ rest[1].kind = "due" /\ rest[1].todo = tail
      /\ \A l \in DOMAIN rest : rest[l].kind = "due" /\ rest[l].todo = tail
  <2>1. /\ rest \in Seq(Frame) /\ Len(rest) \in {0, 1} /\ (tail = <<>> => rest = <<>>)
        /\ tail # <<>> => Len(rest) = 1 /\ rest[1].kind = "due" /\ rest[1].todo = tail
    BY <1>2, DueFacts
  <2> QED
    BY <2>1
<1>5. PICK i \in Ids : i = head[1]
  OBVIOUS
<1>6. UNCHANGED <<clockValid, local, minute>>
  BY DEF RunNextPoint
<1>7. i \in DOMAIN entries => head[2] = InForce(entries[i].doc, WeekMinuteOf(minute))
  <2>1. Len(stack) \in DOMAIN stack /\ Top = stack[Len(stack)]
    BY <1>1, BelowFacts
  <2>2. 1 \in DOMAIN todo /\ todo[1] = head
    BY <1>1
  <2> QED
    BY <1>1, <1>5, <2>1, <2>2, OnTimeForm DEF PointsInForce
<1>8. i \in DOMAIN entries => InForce(entries[i].doc, WeekMinuteOf(minute)) \in DOMAIN entries[i].doc.modes
  <2>1. ASSUME i \in DOMAIN entries
        PROVE  InForce(entries[i].doc, WeekMinuteOf(minute)) \in DOMAIN entries[i].doc.modes
    <3>1. entries[i].doc \in Docs /\ WeekMinuteOf(minute) \in Nat
      <4>1. WeekMinuteOf(minute) \in 0..(Week - 1)
        BY DivFacts DEF TypeOK
      <4>2. WeekMinuteOf(minute) \in Nat
        BY <4>1
      <4> QED
        BY <2>1, <4>2, TypeEntries DEF EntryOK, Entry
    <3>2. InForce(entries[i].doc, WeekMinuteOf(minute)) \in 1..Len(entries[i].doc.modes)
      BY <3>1, PointFacts
    <3>3. DOMAIN entries[i].doc.modes = 1..Len(entries[i].doc.modes)
      BY <3>1, DocFacts
    <3> QED
      BY <3>2, <3>3
  <2> QED
    BY <2>1
<1>9. /\ DOMAIN entries' = DOMAIN entries
      /\ \A j \in DOMAIN entries : /\ entries'[j].doc = entries[j].doc /\ (entries'[j].active => entries[j].active)
                                   /\ j # i => entries'[j] = entries[j]
      /\ i \in DOMAIN entries /\ entries[i].active /\ clockValid => Started(i)'
  <2>1. CASE Begun(i, head[2])
    BY <1>6, <1>7, <2>1 DEF Begun, SameFile, Started
  <2>2. CASE UNCHANGED entries /\ ~(i \in DOMAIN entries /\ entries[i].active)
    BY <2>2
  <2> QED
    BY <1>1, <1>5, <1>7, <1>8, <2>1, <2>2
<1>10. /\ Top.kind = "due" /\ \A l \in DOMAIN rest : rest[l].kind = "due"
       /\ \A x \in DOMAIN Top.todo :
            Top.todo[x][1] = i \/ \E l \in DOMAIN rest : rest[l].kind = "due" /\ In(rest[l].todo, Top.todo[x])
       /\ \A l \in DOMAIN rest : \A x \in DOMAIN rest[l].todo : In(Top.todo, rest[l].todo[x])
  <2>1. \A x \in DOMAIN todo :
          todo[x][1] = i \/ \E l \in DOMAIN rest : rest[l].kind = "due" /\ In(rest[l].todo, todo[x])
    BY <1>3, <1>4, <1>5
  <2>2. \A l \in DOMAIN rest : \A x \in DOMAIN rest[l].todo : In(todo, rest[l].todo[x])
    BY <1>3, <1>4
  <2> QED
    BY <1>1, <1>4, <2>1, <2>2
<1>11. Top.kind # "starts"
  BY <1>10
<1>12. \A l \in DOMAIN rest : rest[l].kind = "due" =>
         Top.kind = "due" /\ \A x \in DOMAIN rest[l].todo : In(Top.todo, rest[l].todo[x])
  BY <1>10
<1>13. stack # <<>> /\ PassLeaves(rest)
  BY <1>1, <1>2
<1>14. \A x \in DOMAIN Top.todo :
         Top.todo[x][1] = i \/ \E l \in DOMAIN rest : rest[l].kind = "due" /\ In(rest[l].todo, Top.todo[x])
  BY <1>10
<1> QED
  BY <1>6, <1>9, <1>11, <1>12, <1>13, <1>14, PassOnTime
-----------------------------------------------------------------------------
(* The list in force: the clock *)

LEMMA ClockSetOnTime ==
  ASSUME TypeOK, NEW now \in Nat, NEW passed, ClockValid(now) \/ Jump(now, passed)
  PROVE  OnTime'
<1>1. /\ UNCHANGED entries /\ local' = now /\ minute' = now \div Minute /\ stack' = Starts(All)
  BY DEF ClockValid, Jump
<1>2. PICK s \in Seq(Frame) :
        /\ s = stack' /\ Len(s) \in {0, 1}
        /\ All = <<>> => s = <<>>
        /\ All # <<>> => Len(s) = 1 /\ s[1].kind = "starts" /\ s[1].todo = All
  <2>1. All \in Seq(Ids)
    BY AllFacts
  <2>2. /\ Starts(All) \in Seq(Frame) /\ Len(Starts(All)) \in {0, 1}
        /\ All = <<>> => Starts(All) = <<>>
        /\ All # <<>> => Len(Starts(All)) = 1 /\ Starts(All)[1].kind = "starts" /\ Starts(All)[1].todo = All
    BY <2>1, StartsFacts
  <2> QED
    BY <1>1, <2>2
<1>3. \A l \in DOMAIN s : s[l].kind = "starts"
  BY <1>2
<1>4. PointsInForce'
  BY <1>2, <1>3 DEF PointsInForce
<1>5. ClockOnTime'
  BY <1>1, DivFacts DEF ClockOnTime, MinuteCounted
<1>6. ASSUME NEW j \in DOMAIN entries' PROVE ToStart(j)'
  <2>1. PICK x \in DOMAIN All : All[x] = j
    BY <1>1, AllFacts DEF In
  <2>2. 1 \in DOMAIN s /\ s[1].kind = "starts" /\ s[1].todo = All
    BY <1>2, <2>1
  <2> QED
    BY <1>2, <2>1, <2>2 DEF ToStart
<1> QED
  BY <1>4, <1>5, <1>6, OnTimeForm

LEMMA RebootOnTime ==
  ASSUME NEW full, Reboot(full)
  PROVE  OnTime'
<1>1. ~clockValid' /\ stack' = <<>> /\ DOMAIN <<>> = {}
  BY DEF Reboot
<1>2. PointsInForce' /\ ClockOnTime'
  BY <1>1 DEF PointsInForce, ClockOnTime
<1> QED
  BY <1>1, <1>2, OnTimeForm

(* The minute that counts is the clock's, or ahead of it by a minute at most: *)
(* the clock went back from it once, and no further than a jump.              *)
LEMMA TickClock ==
  ASSUME TypeOK, OnTime, NEW now \in Nat, NEW passed \in Nat, Tick(now, passed)
  PROVE  ClockOnTime' /\ (now \div Minute > minute => minute' = now \div Minute)
<1>1. PICK M \in Nat \ {0} : M = Minute
  BY ScheduleAssumption
<1>2. PICK to \in Nat : to = now \div M
  BY <1>1, Division
<1>3. PICK was \in Nat : was = local \div M
  BY <1>1, Division DEF TypeOK
<1>4. /\ local \in Nat /\ minute \in Nat /\ clockValid /\ local' = now
      /\ to > minute => minute' = to
      /\ to <= minute => minute' = minute
  BY <1>1, <1>2 DEF TypeOK, Tick
<1>5. minute' \in Nat /\ minute' >= to
  BY <1>2, <1>4
<1>6. MinuteCounted' \/ SetBackAgain
  <2> SUFFICES ASSUME ~SetBackAgain PROVE MinuteCounted'
    OBVIOUS
  <2>1. local - now + passed <= M
    <3>1. -((now - local) - passed) <= M
      BY <1>1, <1>4 DEF Tick, IsJump
    <3> QED
      BY <1>1, <1>4, <3>1
  <2>2. now < local => ~(was < minute)
    BY <1>1, <1>3 DEF Tick
  <2>3. PICK at \in Int : at = minute * M
    BY <1>4
  <2>4. was = minute \/ (minute > was /\ at - local <= M)
    BY <1>1, <1>3, <1>4, <2>3, OnTimeForm DEF ClockOnTime, MinuteCounted
  <2>5. was = minute => at <= local
    <3>1. was * M <= local
      BY <1>1, <1>3, <1>4, Division
    <3> QED
      BY <2>3, <3>1
  <2>6. to < minute => at - now <= M
    BY <1>1, <1>2, <1>3, <1>4, <2>1, <2>2, <2>3, <2>4, <2>5
  <2>7. CASE to >= minute
    BY <1>1, <1>2, <1>4, <2>7 DEF MinuteCounted
  <2>8. CASE to < minute
    <3>1. minute' = minute /\ minute * M - now <= M /\ minute > to
      BY <1>2, <1>4, <2>3, <2>6, <2>8
    <3> QED
      BY <1>1, <1>2, <1>4, <3>1 DEF MinuteCounted
  <2> QED
    BY <1>2, <1>4, <2>7, <2>8
<1> QED
  BY <1>1, <1>2, <1>4, <1>5, <1>6 DEF ClockOnTime

LEMMA TickOnTime ==
  ASSUME TypeOK, OnTime, NEW now \in Nat, NEW passed \in Nat, Tick(now, passed)
  PROVE  OnTime'
<1>1. ClockOnTime'
  BY TickClock
<1>2. UNCHANGED <<entries, clockValid>> /\ stack = <<>> /\ clockValid
  BY DEF Tick, Quiet
<1>3. \A j \in DOMAIN entries : entries[j].active => Started(j)
  <2>1. DOMAIN stack = {}
    BY <1>2
  <2>2. \A j \in DOMAIN entries : ~ToStart(j) /\ ~IsDue(j)
    BY <2>1 DEF ToStart, IsDue
  <2> QED
    BY <1>2, <2>2, OnTimeForm
<1>4. PICK to \in Nat : to = now \div Minute
  BY DivFacts
<1>5. CASE ~(to > minute)
  <2>1. UNCHANGED <<minute, stack>>
    BY <1>4, <1>5 DEF Tick
  <2>2. PointsInForce'
    BY <1>2, <2>1, OnTimeForm DEF PointsInForce
  <2>3. \A j \in DOMAIN entries' : entries'[j].active => Started(j)'
    BY <1>2, <1>3, <2>1 DEF Started
  <2> QED
    BY <1>1, <2>2, <2>3, OnTimeForm
<1>6. CASE to > minute
  <2>1. minute' = to /\ stack' = Due(PointsDue(to)) /\ minute \in Nat
    BY <1>4, <1>6 DEF Tick, TypeOK
  <2>2. PICK due \in Seq(Ids \X Nat) :
          /\ due = PointsDue(to)
          /\ \A x \in DOMAIN due : /\ PointIsDue(due[x][1], to)
                                   /\ due[x][2] = InForce(entries[due[x][1]].doc, WeekMinuteOf(to))
          /\ \A i \in DOMAIN entries : PointIsDue(i, to) => \E x \in DOMAIN due : due[x][1] = i
    BY PointsDueFacts
  <2>3. PICK s \in Seq(Frame) :
          /\ s = stack' /\ \A l \in DOMAIN s : s[l].kind = "due" /\ s[l].todo = due
          /\ due # <<>> => 1 \in DOMAIN s
    <3>1. /\ Due(due) \in Seq(Frame) /\ Len(Due(due)) \in {0, 1}
          /\ due = <<>> => Due(due) = <<>>
          /\ due # <<>> => Len(Due(due)) = 1 /\ Due(due)[1].kind = "due" /\ Due(due)[1].todo = due
      BY DueFacts
    <3>2. PICK s \in Seq(Frame) :
            /\ s = Due(due) /\ Len(s) \in {0, 1} /\ (due = <<>> => s = <<>>)
            /\ due # <<>> => Len(s) = 1 /\ s[1].kind = "due" /\ s[1].todo = due
      BY <3>1
    <3>3. (\A l \in DOMAIN s : s[l].kind = "due" /\ s[l].todo = due) /\ (due # <<>> => 1 \in DOMAIN s)
      BY <3>2
    <3> QED
      BY <2>1, <2>2, <3>2, <3>3
  <2>4. PointsInForce'
    BY <1>2, <2>1, <2>2, <2>3 DEF PointsInForce
  <2>5. ASSUME NEW j \in DOMAIN entries', entries'[j].active
        PROVE  Started(j)' \/ IsDue(j)'
    <3>1. j \in DOMAIN entries /\ entries[j].active /\ entries'[j] = entries[j] /\ entries[j].doc \in Docs
      BY <1>2, <2>5, TypeEntries DEF EntryOK, Entry
    <3>2. CASE PointIsDue(j, to)
      <4>1. PICK x \in DOMAIN due : due[x][1] = j
        BY <2>2, <3>1, <3>2
      <4>2. due # <<>>
        BY <4>1
      <4> QED
        BY <2>3, <4>1, <4>2 DEF IsDue
    <3>3. CASE ~PointIsDue(j, to)
      <4>1. PICK week : week = WeekMinuteOf(to)
        OBVIOUS
      <4>2. to - ((week - PointAt(entries[j].doc, week) + Week) % Week) <= minute
        <5>1. ~(to - ((week - PointAt(entries[j].doc, week) + Week) % Week) > minute)
          BY <3>1, <3>3, <4>1 DEF PointIsDue
        <5>2. week \in 0..(Week - 1) /\ week \in Nat
          BY <4>1, DivFacts
        <5>3. PointAt(entries[j].doc, week) \in 0..(Week - 1)
          BY <3>1, <5>2, PointFacts
        <5>4. PICK back \in Int : back = (week - PointAt(entries[j].doc, week) + Week) % Week
          BY <5>2, <5>3, ScheduleAssumption
        <5> QED
          BY <2>1, <5>1, <5>4
      <4>3. InForce(entries[j].doc, WeekMinuteOf(minute)) = InForce(entries[j].doc, week)
        BY <1>6, <2>1, <3>1, <4>1, <4>2, StillInForce
      <4> QED
        BY <1>3, <2>1, <3>1, <4>1, <4>3 DEF Started
    <3> QED
      BY <3>2, <3>3
  <2> QED
    BY <1>1, <2>4, <2>5, OnTimeForm
<1> QED
  BY <1>5, <1>6
-----------------------------------------------------------------------------
(* The list in force, always *)

MInv == TypeOK /\ Walks /\ OnTime

LEMMA QuietOnTime ==
  ASSUME MInv, Quiet, clockValid
  PROVE  /\ minute >= local \div Minute
         /\ SetBackAgain \/ MinuteCounted
         /\ ListInForce
<1>1. DOMAIN stack = {}
  BY DEF Quiet
<1>2. \A i \in DOMAIN entries : ~ToStart(i) /\ ~IsDue(i)
  BY <1>1 DEF ToStart, IsDue
<1>3. ClockOnTime /\ \A i \in DOMAIN entries : entries[i].active => Started(i)
  BY <1>2, OnTimeForm DEF MInv
<1> QED
  BY <1>3 DEF ClockOnTime, ListInForce, Started

LEMMA InitOnTime == Init => OnTime
<1> SUFFICES ASSUME Init PROVE OnTime
  OBVIOUS
<1>1. stack = <<>> /\ ~clockValid /\ DOMAIN <<>> = {}
  BY DEF Init
<1>2. PointsInForce /\ ClockOnTime
  BY <1>1 DEF PointsInForce, ClockOnTime
<1> QED
  BY <1>1, <1>2, OnTimeForm

LEMMA NextOnTime ==
  ASSUME ~SaveWhileDue, TypeOK, Walks, OnTime, [Next]_vars
  PROVE  OnTime'
<1>1. ASSUME NEW i \in Ids,
             \/ \E d \in Docs, enabled \in BOOLEAN : Add(i, d, enabled) \/ Replace(i, d, enabled)
             \/ \E file \in {NoFile, BadFile, files[i]} : Remove(i, file)
             \/ \E saved \in BOOLEAN : Disable(i, saved) \/ Enable(i, saved)
      PROVE  OnTime'
  BY <1>1, CallsOnTime
<1>2. ASSUME NEW i \in Ids, TakeOver(i) PROVE OnTime'
  BY <1>2, TakeOverOnTime
<1>3. ASSUME NEW saved \in BOOLEAN, StopOther(saved) \/ TakenOver(saved) PROVE OnTime'
  BY <1>3, StopOtherOnTime, TakenOverOnTime
<1>4. CASE StartNext \/ RunNextPoint \/ Advance \/ EndWalk \/ ReapplyNext \/ Reapply
  BY <1>4, StartNextOnTime, RunNextPointOnTime, AdvanceOnTime, EndWalkOnTime, ReapplyNextOnTime, ReapplyOnTime
<1>5. ASSUME NEW w \in waits, WaitEnds(w) PROVE OnTime'
  BY <1>5, WaitEndsOnTime
<1>6. CASE \/ \E i \in Ids : \E file \in {NoFile, BadFile} : RemoveNotLoaded(i, file)
           \/ FollowRelay
           \/ \E r \in Switches, value \in {"on", "off"} : Hold(r, value) \/ Release(r, value)
           \/ \E t \in Thermostats : \E after \in After(t) : ClimateChange(t, after)
           \/ UNCHANGED vars
  BY <1>6, OutsideOnTime
<1>7. ASSUME NEW now \in Clocks,
             ClockValid(now) \/ \E passed \in Stalls : Jump(now, passed) \/ Tick(now, passed)
      PROVE  OnTime'
  <2>1. now \in Nat /\ Stalls \subseteq Nat
    BY ScheduleAssumption
  <2> QED
    BY <1>7, <2>1, ClockSetOnTime, TickOnTime
<1>8. ASSUME NEW full \in 1..(N + 1), Reboot(full) PROVE OnTime'
  BY <1>8, RebootOnTime
<1> QED
  BY <1>1, <1>2, <1>3, <1>4, <1>5, <1>6, <1>7, <1>8, Zenon DEF Next, After

(* With nothing under way the minute that counts is not behind the clock, and *)
(* every schedule that drives has the list of the point in force: for every   *)
(* set of documents, every length of the week and of a minute, and whatever    *)
(* the clock does, unless a callback saves a schedule a point of which is due  *)
(* in this very tick (tick_, start_, run_).                                    *)
THEOREM ListAlwaysInForce ==
  ASSUME ~SaveWhileDue
  PROVE  Spec => [](Quiet /\ clockValid => minute >= local \div Minute /\ ListInForce)
<1>1. Init => MInv
  BY InitOnTime, InitLists DEF MInv, LInv
<1>2. MInv /\ [Next]_vars => MInv'
  BY NextOnTime, StepKinds DEF MInv
<1>3. MInv => (Quiet /\ clockValid => minute >= local \div Minute /\ ListInForce)
  BY QuietOnTime
<1> QED
  BY <1>1, <1>2, <1>3, PTL DEF Spec

(* And the minute that counts is the clock's, or ahead of it by a small step   *)
(* back at most, unless the clock is set back by a little twice in a row.      *)
THEOREM ModeAlwaysInForce ==
  ASSUME ~SaveWhileDue, ~SetBackAgain
  PROVE  Spec => []ModeInForce
<1>1. Init => MInv
  BY InitOnTime, InitLists DEF MInv, LInv
<1>2. MInv /\ [Next]_vars => MInv'
  BY NextOnTime, StepKinds DEF MInv
<1>3. MInv => ModeInForce
  BY QuietOnTime DEF ModeInForce
<1> QED
  BY <1>1, <1>2, <1>3, PTL DEF Spec
=============================================================================
