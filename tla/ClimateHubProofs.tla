-------------------------- MODULE ClimateHubProofs ---------------------------
(* Proofs about ClimateHub, for any number of thermostats, relays and pool  *)
(* entities, any documents and any folder, and with writes that fail.       *)
EXTENDS ClimateHub, FiniteSetTheorems, TLAPS

(* Whoever takes over is known, does not run, and has no relay in vain: the *)
(* take-overs of a thermostat without its sensor are refused.               *)
TakeOver ==
  job.pc \in {"waiters", "holders"} =>
    /\ job.id \in Ids /\ Stored(job.id) /\ job.id \notin running
    /\ job.pc = "waiters" => docs[job.id].sensor = "ok"
    /\ job.pc = "holders" => \/ docs[job.id].sensor = "ok"
                             \/ HeldBy(job.id) = {} /\ Holders(job.id, docs[job.id]) = {}

(* Past the waiters only a running thermostat can be in its way. *)
WaitersCleared ==
  job.pc = "holders" =>
    \A j \in Ids \ {job.id} : Waits(j) => Names(docs[job.id]) \cap Names(docs[j]) = {}

(* What waits for the flush is there to be written. *)
DirtyStored == \A i \in dirty : Stored(i)

IInv == TypeOK /\ ClaimsMatch /\ TakeOver /\ WaitersCleared /\ DirtyStored
-----------------------------------------------------------------------------
(* Types *)

LEMMA IdFacts ==
  /\ Nobody \in 0..N /\ Nobody \notin Ids
  /\ \A i \in Ids : i \in 0..N /\ i + 1 \in 1..(N + 1) /\ i # Nobody
  /\ \A o \in 0..N : o = Nobody \/ o \in Ids
  /\ 1 \in 1..(N + 1)
  BY HubAssumption DEF Ids, Nobody

LEMMA FlagSet ==
  ASSUME NEW d \in Doc, NEW e \in BOOLEAN, NEW f, f = [d EXCEPT !.enabled = e]
  PROVE  /\ f \in Doc /\ f.enabled = e
         /\ f.sensor = d.sensor /\ f.heat = d.heat /\ f.cool = d.cool
         /\ f.target = d.target /\ f.newer = d.newer
  BY DEF Doc

LEMMA TargetSet ==
  ASSUME NEW d \in Doc, NEW t \in Targets, NEW f, f = [d EXCEPT !.target = t]
  PROVE  /\ f \in Doc /\ f.enabled = d.enabled
         /\ f.sensor = d.sensor /\ f.heat = d.heat /\ f.cool = d.cool
         /\ f.newer = d.newer
  BY DEF Doc

LEMMA DraftFacts == ASSUME NEW d \in Drafts PROVE d \in Doc
<1>1. PICK e \in BOOLEAN, s \in Shapes, t \in Targets :
        d = [enabled |-> e, sensor |-> s.sensor, heat |-> s.heat, cool |-> s.cool,
             target |-> t, newer |-> FALSE]
  BY DEF Drafts
<1>2. s \in [sensor : Sensors, heat : Relays \cup {NoRelay}, cool : Relays \cup {NoRelay}]
  BY HubAssumption
<1> QED
  BY <1>1, <1>2 DEF Doc

LEMMA StoredFacts ==
  ASSUME TypeOK, NEW i \in Ids
  PROVE  Stored(i) => /\ docs[i] \in Doc
                      /\ docs[i].enabled \in BOOLEAN /\ docs[i].newer \in BOOLEAN
                      /\ Names(docs[i]) \subseteq Relays
  BY DEF TypeOK, Stored, Doc, Names

LEMMA WrittenFacts ==
  ASSUME TypeOK, NEW i \in Ids, NEW d \in Doc, NEW ok
  PROVE  Written(i, d, ok) \in [Ids -> File]
  BY DEF TypeOK, Written, File

LEMMA NoReasonFact == NoReason \in Reason
  BY IdFacts DEF NoReason, Because, Reason, Why

LEMMA ReasonFacts ==
  ASSUME TypeOK, NEW i, NEW d \in Doc
  PROVE  /\ NoReason \in Reason
         /\ StartObstacle(i, d) \in Reason /\ RestartObstacle(i, d) \in Reason
<1>1. \A why \in Why : Because(why) \in Reason
  BY IdFacts DEF Because, Reason
<1>2. NoReason \in Reason
  BY <1>1 DEF NoReason, Why
<1>3. \A r \in Relays \cup {NoRelay} : ClaimObstacle(i, r) \in Reason
  <2> SUFFICES ASSUME NEW r \in Relays \cup {NoRelay} PROVE ClaimObstacle(i, r) \in Reason
    OBVIOUS
  <2>1. CASE r = NoRelay
    BY <1>2, <2>1 DEF ClaimObstacle
  <2>2. CASE r # NoRelay
    <3>1. owner[r] \in 0..N
      BY <2>2 DEF TypeOK
    <3>2. /\ [why |-> "held", relay |-> r, by |-> owner[r]] \in Reason
          /\ [why |-> "missing", relay |-> r, by |-> Nobody] \in Reason
      BY <3>1, IdFacts DEF Reason, Why
    <3> QED
      BY <1>2, <2>2, <3>2 DEF ClaimObstacle
  <2> QED
    BY <2>1, <2>2
<1>4. ClaimsObstacle(i, d) \in Reason
  BY <1>3 DEF ClaimsObstacle, Doc
<1>5. Because("sensor") \in Reason /\ Because("entity") \in Reason
  BY <1>1 DEF Why
<1> QED
  BY <1>2, <1>4, <1>5 DEF StartObstacle, RestartObstacle
-----------------------------------------------------------------------------
(* What starting, stopping and saving leave of the pool and the claims *)

LEMMA ClearFacts ==
  ASSUME NEW i, NEW d \in Doc, ClaimsObstacle(i, d) = NoReason
  PROVE  \A r \in Names(d) : owner[r] \in {Nobody, i}
<1>1. \A r : r # NoRelay /\ owner[r] \notin {Nobody, i} => ClaimObstacle(i, r).why = "held"
  BY DEF ClaimObstacle
<1>2. NoReason.why = "none"
  BY DEF NoReason, Because
<1>3. ClaimObstacle(i, d.heat) = NoReason /\ ClaimObstacle(i, d.cool) = NoReason
  BY DEF ClaimsObstacle
<1> QED
  BY <1>1, <1>2, <1>3 DEF Names

LetGoBy(i, r) == IF owner[r] = i THEN Nobody ELSE owner[r]

LEMMA StartFacts ==
  ASSUME TypeOK, NEW i \in Ids, NEW d \in Doc, Start(i, d)
  PROVE  /\ running' \subseteq Ids /\ owner' \in [Relays -> 0..N]
         /\ reason' \in [Ids -> Reason] /\ freed' \subseteq Relays /\ entityFreed' = entityFreed
         /\ \/ /\ running' = running \cup {i} /\ d.sensor = "ok"
               /\ \A r \in Names(d) : owner[r] \in {Nobody, i}
               /\ \A r \in Relays : owner'[r] = IF r \in Names(d) THEN i ELSE owner[r]
            \/ running' = running /\ owner' = owner /\ d.sensor # "ok"
            \/ running' = running /\ \A r \in Relays : owner'[r] = LetGoBy(i, r)
<1>1. reason' \in [Ids -> Reason] /\ entityFreed' = entityFreed
  BY ReasonFacts DEF Start, StoreReason, TypeOK
<1>2. ClaimAll(i, d) \in [Relays -> 0..N] /\ LetGoAll(i) \in [Relays -> 0..N]
  BY IdFacts DEF TypeOK, ClaimAll, LetGoAll
<1>3. CASE StartObstacle(i, d) = NoReason
  <2>1. /\ Because("sensor") # NoReason /\ Because("entity") # NoReason
    BY DEF Because, NoReason
  <2>2. d.sensor = "ok" /\ ClaimsObstacle(i, d) = NoReason
    BY <1>3, <2>1 DEF StartObstacle, RestartObstacle
  <2>3. \A r \in Names(d) : owner[r] \in {Nobody, i}
    BY <2>2, ClearFacts
  <2>4. running' = running \cup {i} /\ owner' = ClaimAll(i, d) /\ freed' = freed
    BY <1>3 DEF Start
  <2>5. \A r \in Relays : owner'[r] = IF r \in Names(d) THEN i ELSE owner[r]
    BY <2>4 DEF ClaimAll
  <2> QED
    BY <1>1, <1>2, <2>2, <2>3, <2>4, <2>5 DEF TypeOK
<1>4. CASE StartObstacle(i, d) # NoReason /\ StartObstacle(i, d).why = "sensor"
  <2>1. running' = running /\ owner' = owner /\ freed' = freed
    BY <1>4 DEF Start
  <2>2. d.sensor # "ok"
    <3>1. \A r : ClaimObstacle(i, r).why # "sensor"
      BY DEF ClaimObstacle, NoReason, Because
    <3>2. ClaimsObstacle(i, d).why # "sensor" /\ Because("entity").why # "sensor"
      BY <3>1 DEF ClaimsObstacle, Because
    <3> QED
      BY <1>4, <3>2 DEF StartObstacle, RestartObstacle
  <2> QED
    BY <1>1, <2>1, <2>2 DEF TypeOK
<1>5. CASE StartObstacle(i, d) # NoReason /\ StartObstacle(i, d).why # "sensor"
  <2>1. running' = running /\ owner' = LetGoAll(i) /\ freed' = freed \cup HeldBy(i)
    BY <1>5 DEF Start
  <2>2. \A r \in Relays : owner'[r] = LetGoBy(i, r)
    BY <2>1 DEF LetGoAll, LetGoBy
  <2>3. freed' \subseteq Relays
    BY <2>1 DEF TypeOK, HeldBy
  <2> QED
    BY <1>1, <1>2, <2>1, <2>2, <2>3 DEF TypeOK
<1> QED
  BY <1>3, <1>4, <1>5

LEMMA StopFacts ==
  ASSUME TypeOK, NEW i \in Ids, Stop(i)
  PROVE  /\ running' \subseteq Ids /\ owner' \in [Relays -> 0..N]
         /\ freed' \subseteq Relays /\ entityFreed' \in BOOLEAN
         /\ running' = running \ {i}
         /\ \A r \in Relays : owner'[r] = LetGoBy(i, r)
  BY IdFacts DEF TypeOK, Stop, LetGoAll, LetGoBy, HeldBy

LEMMA RestartFacts ==
  ASSUME TypeOK, NEW i \in Ids, NEW d \in Doc, Restart(i, d)
  PROVE  /\ running' \subseteq Ids /\ owner' \in [Relays -> 0..N]
         /\ reason' \in [Ids -> Reason] /\ freed' \subseteq Relays /\ entityFreed' \in BOOLEAN
         /\ \/ /\ running' = running \ {i}
               /\ \A r \in Relays : owner'[r] = LetGoBy(i, r)
            \/ /\ running' = running
               /\ \A r \in Names(d) : owner[r] \in {Nobody, i}
               /\ \A r \in Relays : owner'[r] = IF r \in Names(d) THEN i ELSE LetGoBy(i, r)
<1>1. CASE RestartObstacle(i, d) # NoReason
  <2>1. Stop(i) /\ StoreReason(i, RestartObstacle(i, d))
    BY <1>1 DEF Restart
  <2>2. reason' \in [Ids -> Reason]
    BY <2>1, ReasonFacts DEF StoreReason, TypeOK
  <2> QED
    BY <2>1, <2>2, StopFacts
<1>2. CASE RestartObstacle(i, d) = NoReason
  <2>1. Because("sensor") # NoReason
    BY DEF Because, NoReason
  <2>2. \A r \in Names(d) : owner[r] \in {Nobody, i}
    BY <1>2, <2>1, ClearFacts DEF RestartObstacle
  <2>3. /\ owner' = [r \in Relays |-> IF r \in Names(d) THEN i
                                      ELSE IF owner[r] = i THEN Nobody ELSE owner[r]]
        /\ freed' = freed \cup (HeldBy(i) \ Names(d))
        /\ running' = running /\ entityFreed' = entityFreed /\ reason' = reason
    BY <1>2 DEF Restart
  <2>4. \A r \in Relays : owner'[r] = IF r \in Names(d) THEN i ELSE LetGoBy(i, r)
    BY <2>3 DEF LetGoBy
  <2>5. owner' \in [Relays -> 0..N] /\ freed' \subseteq Relays
    BY <2>3, IdFacts DEF TypeOK, HeldBy
  <2> QED
    BY <2>2, <2>3, <2>4, <2>5 DEF TypeOK
<1> QED
  BY <1>1, <1>2
-----------------------------------------------------------------------------
(* How the claims stay matched, whatever the call *)

LEMMA ClaimsFacts ==
  ASSUME TypeOK, ClaimsMatch
  PROVE  /\ \A r \in Relays : owner[r] # Nobody =>
              /\ owner[r] \in Ids /\ docs[owner[r]] # NoDoc /\ r \in Names(docs[owner[r]])
              /\ owner[r] \in running \/ (job.pc = "holders" /\ job.id = owner[r])
         /\ \A j \in running :
              /\ j \in Ids /\ j # Nobody /\ docs[j] # NoDoc /\ docs[j].enabled
              /\ \A r \in Names(docs[j]) : r \in Relays /\ owner[r] = j
<1>1. \A r \in Relays : owner[r] \in 0..N
  BY DEF TypeOK
<1>2. running \subseteq Ids
  BY DEF TypeOK
<1> QED
  BY <1>1, <1>2, IdFacts DEF ClaimsMatch, Stored, Enabled, HeldBy

LEMMA ClaimsAfter ==
  ASSUME \A r \in Relays : owner'[r] # Nobody =>
           /\ docs'[owner'[r]] # NoDoc /\ r \in Names(docs'[owner'[r]])
           /\ owner'[r] \in running',
         \A j \in running' :
           /\ docs'[j] # NoDoc /\ docs'[j].enabled
           /\ \A r \in Names(docs'[j]) : r \in Relays /\ owner'[r] = j
  PROVE  ClaimsMatch'
  BY DEF ClaimsMatch, Stored, Enabled, HeldBy

LEMMA Unheld ==
  ASSUME TypeOK, ClaimsMatch, NEW i \in Ids, i \notin running,
         job.pc = "holders" => job.id # i
  PROVE  /\ \A r \in Relays : owner[r] # i /\ LetGoBy(i, r) = owner[r]
         /\ HeldBy(i) = {} /\ running \ {i} = running
<1>1. \A r \in Relays : owner[r] # i
  BY ClaimsFacts, IdFacts
<1> QED
  BY <1>1 DEF LetGoBy, HeldBy

LEMMA ClaimsOnStop ==
  ASSUME TypeOK, ClaimsMatch, NEW i \in Ids, job.pc # "holders",
         running' = running \ {i}, \A r \in Relays : owner'[r] = LetGoBy(i, r),
         \A j \in Ids \ {i} : docs'[j] = docs[j]
  PROVE  ClaimsMatch'
<1>1. ASSUME NEW r \in Relays, owner'[r] # Nobody
      PROVE  /\ docs'[owner'[r]] # NoDoc /\ r \in Names(docs'[owner'[r]])
             /\ owner'[r] \in running'
  <2>1. owner'[r] = owner[r] /\ owner[r] # i /\ owner[r] # Nobody
    BY <1>1 DEF LetGoBy
  <2>2. docs'[owner[r]] = docs[owner[r]]
    BY <2>1, ClaimsFacts
  <2> QED
    BY <2>1, <2>2, ClaimsFacts
<1>2. ASSUME NEW j \in running'
      PROVE  /\ docs'[j] # NoDoc /\ docs'[j].enabled
             /\ \A r \in Names(docs'[j]) : r \in Relays /\ owner'[r] = j
  <2>1. j \in running /\ j # i /\ docs'[j] = docs[j]
    BY <1>2, ClaimsFacts
  <2> QED
    BY <2>1, ClaimsFacts DEF LetGoBy
<1> QED
  BY <1>1, <1>2, ClaimsAfter

LEMMA ClaimsOnStart ==
  ASSUME TypeOK, ClaimsMatch, NEW i \in Ids, NEW d \in Doc, Start(i, d),
         d.enabled, i \notin running, job.pc = "holders" => job.id = i,
         HeldBy(i) \subseteq Names(d), d.sensor = "ok" \/ HeldBy(i) = {},
         docs'[i] = d, \A j \in Ids \ {i} : docs'[j] = docs[j]
  PROVE  ClaimsMatch'
<1>0. d # NoDoc /\ Names(d) \subseteq Relays /\ i # Nobody
  BY HubAssumption, IdFacts DEF Names, Doc
<1>1. ASSUME NEW r \in Relays, owner[r] # Nobody, owner[r] # i
      PROVE  /\ docs'[owner[r]] # NoDoc /\ r \in Names(docs'[owner[r]])
             /\ owner[r] \in running
  <2>1. docs'[owner[r]] = docs[owner[r]]
    BY <1>1, ClaimsFacts
  <2> QED
    BY <1>1, <2>1, ClaimsFacts
<1>2. ASSUME NEW j \in running
      PROVE  /\ docs'[j] # NoDoc /\ docs'[j].enabled /\ j # i
             /\ \A r \in Names(docs'[j]) : r \in Relays /\ owner[r] = j /\ owner[r] # Nobody
  <2>1. j \in Ids /\ j # i /\ docs'[j] = docs[j]
    BY <1>2, ClaimsFacts
  <2> QED
    BY <1>2, <2>1, ClaimsFacts
<1>3. CASE /\ running' = running \cup {i}
           /\ \A r \in Names(d) : owner[r] \in {Nobody, i}
           /\ \A r \in Relays : owner'[r] = IF r \in Names(d) THEN i ELSE owner[r]
  <2>1. ASSUME NEW r \in Relays, owner'[r] # Nobody
        PROVE  /\ docs'[owner'[r]] # NoDoc /\ r \in Names(docs'[owner'[r]])
               /\ owner'[r] \in running'
    <3>1. CASE r \in Names(d)
      <4>1. owner'[r] = i
        BY <1>3, <3>1
      <4> QED
        BY <1>0, <1>3, <3>1, <4>1
    <3>2. CASE r \notin Names(d)
      <4>1. owner'[r] = owner[r] /\ owner[r] # i
        BY <1>3, <3>2 DEF HeldBy
      <4> QED
        BY <1>1, <1>3, <2>1, <4>1
    <3> QED
      BY <3>1, <3>2
  <2>2. ASSUME NEW j \in running'
        PROVE  /\ docs'[j] # NoDoc /\ docs'[j].enabled
               /\ \A r \in Names(docs'[j]) : r \in Relays /\ owner'[r] = j
    <3>1. CASE j = i
      BY <1>0, <1>3, <3>1
    <3>2. CASE j # i
      <4>1. j \in running
        BY <1>3, <2>2, <3>2
      <4> QED
        BY <1>2, <1>3, <4>1
    <3> QED
      BY <3>1, <3>2
  <2> QED
    BY <2>1, <2>2, ClaimsAfter
<1>4. CASE /\ running' = running
           /\ \A r \in Relays : owner'[r] = LetGoBy(i, r)
  <2>1. ASSUME NEW r \in Relays, owner'[r] # Nobody
        PROVE  /\ docs'[owner'[r]] # NoDoc /\ r \in Names(docs'[owner'[r]])
               /\ owner'[r] \in running'
    <3>1. owner'[r] = owner[r] /\ owner[r] # i
      BY <1>4, <2>1 DEF LetGoBy
    <3> QED
      BY <1>1, <1>4, <2>1, <3>1
  <2>2. ASSUME NEW j \in running'
        PROVE  /\ docs'[j] # NoDoc /\ docs'[j].enabled
               /\ \A r \in Names(docs'[j]) : r \in Relays /\ owner'[r] = j
    BY <1>2, <1>4, <2>2 DEF LetGoBy
  <2> QED
    BY <2>1, <2>2, ClaimsAfter
<1>5. CASE running' = running /\ owner' = owner /\ d.sensor # "ok"
  <2>1. \A r \in Relays : owner'[r] = LetGoBy(i, r)
    BY <1>5 DEF HeldBy, LetGoBy
  <2> QED
    BY <1>4, <1>5, <2>1
<1> QED
  BY <1>3, <1>4, <1>5, StartFacts

LEMMA ClaimsOnRestart ==
  ASSUME TypeOK, ClaimsMatch, NEW i \in Ids, NEW d \in Doc, Restart(i, d),
         d.enabled, i \in running, job.pc # "holders",
         docs'[i] = d, \A j \in Ids \ {i} : docs'[j] = docs[j]
  PROVE  ClaimsMatch'
<1>0. d # NoDoc /\ Names(d) \subseteq Relays /\ i # Nobody
  BY HubAssumption, IdFacts DEF Names, Doc
<1>1. CASE running' = running \ {i} /\ \A r \in Relays : owner'[r] = LetGoBy(i, r)
  BY <1>1, ClaimsOnStop
<1>2. CASE /\ running' = running
           /\ \A r \in Names(d) : owner[r] \in {Nobody, i}
           /\ \A r \in Relays : owner'[r] = IF r \in Names(d) THEN i ELSE LetGoBy(i, r)
  <2>1. ASSUME NEW r \in Relays, owner'[r] # Nobody
        PROVE  /\ docs'[owner'[r]] # NoDoc /\ r \in Names(docs'[owner'[r]])
               /\ owner'[r] \in running'
    <3>1. CASE r \in Names(d)
      <4>1. owner'[r] = i
        BY <1>2, <3>1
      <4> QED
        BY <1>0, <1>2, <3>1, <4>1
    <3>2. CASE r \notin Names(d)
      <4>1. owner'[r] = owner[r] /\ owner[r] # i /\ owner[r] # Nobody
        BY <1>2, <2>1, <3>2 DEF LetGoBy
      <4>2. docs'[owner[r]] = docs[owner[r]]
        BY <4>1, ClaimsFacts
      <4> QED
        BY <1>2, <4>1, <4>2, ClaimsFacts
    <3> QED
      BY <3>1, <3>2
  <2>2. ASSUME NEW j \in running'
        PROVE  /\ docs'[j] # NoDoc /\ docs'[j].enabled
               /\ \A r \in Names(docs'[j]) : r \in Relays /\ owner'[r] = j
    <3>1. CASE j = i
      BY <1>0, <1>2, <3>1
    <3>2. CASE j # i
      <4>1. j \in running /\ docs'[j] = docs[j] /\ j # Nobody
        BY <1>2, <2>2, <3>2, ClaimsFacts
      <4>2. \A r \in Names(docs[j]) : r \in Relays /\ owner[r] = j
        BY <4>1, ClaimsFacts
      <4>3. \A r \in Names(docs[j]) : owner'[r] = j
        BY <1>2, <3>2, <4>1, <4>2 DEF LetGoBy
      <4> QED
        BY <4>1, <4>2, <4>3, ClaimsFacts
    <3> QED
      BY <3>1, <3>2
  <2> QED
    BY <2>1, <2>2, ClaimsAfter
<1> QED
  BY <1>1, <1>2, RestartFacts

(* A call that moves no claim and nobody in the pool, and changes of the     *)
(* documents at most a flag of one that does not run and what a user moves.  *)
LEMMA ClaimsOnFlags ==
  ASSUME TypeOK, ClaimsMatch, UNCHANGED <<running, owner>>,
         \A j \in Ids : Stored(j) => docs'[j] # NoDoc /\ Names(docs'[j]) = Names(docs[j]),
         \A j \in running : docs'[j].enabled = docs[j].enabled,
         job.pc = "holders" => job'.pc = "holders" /\ job'.id = job.id
  PROVE  ClaimsMatch'
<1>1. \A r \in Relays : owner'[r] # Nobody =>
        /\ docs'[owner'[r]] # NoDoc /\ r \in Names(docs'[owner'[r]])
        /\ owner'[r] \in running' \/ (job'.pc = "holders" /\ job'.id = owner'[r])
  BY ClaimsFacts DEF Stored
<1>2. \A j \in running' :
        /\ docs'[j] # NoDoc /\ docs'[j].enabled
        /\ \A r \in Names(docs'[j]) : r \in Relays /\ owner'[r] = j
  BY ClaimsFacts DEF Stored
<1> QED
  BY <1>1, <1>2 DEF ClaimsMatch, Stored, Enabled, HeldBy
-----------------------------------------------------------------------------
(* One lemma for each kind of call *)

LEMMA IdleFacts == /\ Idle \in Job /\ Idle.pc = "idle"
                   /\ \A i \in Ids : [Idle EXCEPT !.pc = "waiters", !.id = i] \in Job
                   /\ \A i \in Ids : [Idle EXCEPT !.pc = "holders", !.id = i] \in Job
                   /\ [Idle EXCEPT !.pc = "boot"] \in Job
<1>1. Idle \in Job /\ Idle.pc = "idle"
  BY IdFacts DEF Idle, Job, Stages, Nobody
<1>2. ASSUME NEW pc \in Stages, NEW i \in Ids
      PROVE  [Idle EXCEPT !.pc = pc] \in Job /\ [Idle EXCEPT !.pc = pc, !.id = i] \in Job
  <2>1. PICK j \in Job : j = [Idle EXCEPT !.pc = pc]
    BY <1>1 DEF Job
  <2>2. [j EXCEPT !.id = i] \in Job
    BY IdFacts DEF Job
  <2> QED
    BY <2>1, <2>2
<1>3. [Idle EXCEPT !.pc = "boot"] \in Job
  BY <1>1 DEF Job, Stages
<1> QED
  BY <1>1, <1>2, <1>3 DEF Stages

LEMMA NoTakeOver ==
  ASSUME job'.pc \notin {"waiters", "holders"}
  PROVE  TakeOver' /\ WaitersCleared'
  BY DEF TakeOver, WaitersCleared

LEMMA DirtyKept ==
  ASSUME IInv, NEW i \in Ids, dirty' \subseteq dirty, docs'[i] # NoDoc \/ i \notin dirty',
         \A j \in Ids \ {i} : docs'[j] = docs[j]
  PROVE  DirtyStored'
  BY DEF IInv, DirtyStored, TypeOK, Stored

LEMMA ThenWaitersFacts ==
  ASSUME entityFreed' \in BOOLEAN, NEW i \in 0..N, ThenWaiters(i)
  PROVE  job' \in Job /\ job'.pc \notin {"waiters", "holders"}
  BY IdFacts DEF ThenWaiters, Job, Stages

LEMMA AddInv ==
  ASSUME IInv, job = Idle, NEW i \in Ids, NEW d \in Drafts, Add(i, d)
  PROVE  IInv'
<1>1. TypeOK /\ ClaimsMatch /\ d \in Doc /\ job.pc = "idle"
  BY DraftFacts, IdleFacts DEF IInv
<1>2. docs' \in [Ids -> Doc \cup {NoDoc}] /\ files' \in [Ids -> File]
  BY <1>1, WrittenFacts DEF Add, TypeOK
<1>3. i \notin running
  BY <1>1, ClaimsFacts DEF Add, Stored
<1>4. HeldBy(i) = {} /\ running \ {i} = running /\ \A r \in Relays : LetGoBy(i, r) = owner[r]
  BY <1>1, <1>3, Unheld
<1>5. docs'[i] = d /\ \A j \in Ids \ {i} : docs'[j] = docs[j]
  BY <1>1 DEF Add, TypeOK
<1>8. DirtyStored'
  <2>1. d # NoDoc /\ dirty' = dirty
    BY <1>1, HubAssumption DEF Add
  <2> QED
    BY <1>5, <2>1, DirtyKept
<1>6. CASE d.enabled
  <2>1. Start(i, d)
    BY <1>6 DEF Add
  <2>2. /\ running' \subseteq Ids /\ owner' \in [Relays -> 0..N]
        /\ reason' \in [Ids -> Reason] /\ freed' \subseteq Relays /\ entityFreed' = entityFreed
    BY <1>1, <2>1, StartFacts
  <2>3. TypeOK'
    BY <1>1, <1>2, <2>2 DEF TypeOK, Add
  <2>4. ClaimsMatch'
    BY <1>1, <1>3, <1>4, <1>5, <1>6, <2>1, ClaimsOnStart
  <2> QED
    BY <1>1, <1>8, <2>3, <2>4, NoTakeOver DEF IInv, Add
<1>7. CASE ~d.enabled
  <2>1. UNCHANGED <<running, owner, reason, freed, entityFreed>>
    BY <1>7 DEF Add
  <2>2. TypeOK'
    BY <1>1, <1>2, <2>1 DEF TypeOK, Add
  <2>3. ClaimsMatch'
    BY <1>1, <1>4, <1>5, <2>1, ClaimsOnStop
  <2> QED
    BY <1>1, <1>8, <2>2, <2>3, NoTakeOver DEF IInv, Add
<1> QED
  BY <1>6, <1>7

LEMMA ReplaceInv ==
  ASSUME IInv, job = Idle, NEW i \in Ids, NEW d \in Drafts, Replace(i, d)
  PROVE  IInv'
<1>1. TypeOK /\ ClaimsMatch /\ d \in Doc /\ job.pc = "idle"
  BY DraftFacts, IdleFacts DEF IInv
<1>2. /\ docs' \in [Ids -> Doc \cup {NoDoc}] /\ files' \in [Ids -> File]
      /\ dirty' \subseteq Ids /\ memoryOnly' \subseteq Ids /\ persisted' \in BOOLEAN
      /\ announced' \subseteq Relays
  BY <1>1, WrittenFacts DEF Replace, TypeOK
<1>3. docs'[i] = d /\ \A j \in Ids \ {i} : docs'[j] = docs[j]
  BY <1>1 DEF Replace, TypeOK
<1>4. StoreReason(i, NoReason) => reason' \in [Ids -> Reason]
  BY <1>1, ReasonFacts DEF StoreReason, TypeOK
<1>5. /\ running' \subseteq Ids /\ owner' \in [Relays -> 0..N]
      /\ reason' \in [Ids -> Reason] /\ freed' \subseteq Relays /\ entityFreed' \in BOOLEAN
      /\ ClaimsMatch'
  <2>1. CASE i \in running /\ ~d.enabled
    <3>1. Stop(i) /\ StoreReason(i, NoReason)
      BY <2>1 DEF Replace
    <3> QED
      BY <1>1, <1>3, <1>4, <3>1, StopFacts, ClaimsOnStop
  <2>2. CASE i \in running /\ d.enabled
    <3>1. Restart(i, d)
      BY <2>2 DEF Replace
    <3> QED
      BY <1>1, <1>3, <2>2, <3>1, RestartFacts, ClaimsOnRestart
  <2>3. CASE i \notin running /\ d.enabled
    <3>1. Start(i, d)
      BY <2>3 DEF Replace
    <3>2. HeldBy(i) = {}
      BY <1>1, <2>3, Unheld
    <3>3. ClaimsMatch'
      BY <1>1, <1>3, <2>3, <3>1, <3>2, ClaimsOnStart
    <3>4. entityFreed \in BOOLEAN
      BY <1>1 DEF TypeOK
    <3> QED
      BY <1>1, <3>1, <3>3, <3>4, StartFacts
  <2>4. CASE i \notin running /\ ~d.enabled
    <3>1. StoreReason(i, NoReason) /\ UNCHANGED <<running, owner, freed, entityFreed>>
      BY <2>4 DEF Replace
    <3>2. running \ {i} = running /\ \A r \in Relays : LetGoBy(i, r) = owner[r]
      BY <1>1, <2>4, Unheld
    <3>3. ClaimsMatch'
      BY <1>1, <1>3, <3>1, <3>2, ClaimsOnStop
    <3> QED
      BY <1>1, <1>4, <3>1, <3>3 DEF TypeOK
  <2> QED
    BY <2>1, <2>2, <2>3, <2>4
<1>6. job' \in Job /\ job'.pc \notin {"waiters", "holders"}
  BY <1>5, IdFacts, ThenWaitersFacts DEF Replace
<1>7. TypeOK'
  BY <1>2, <1>5, <1>6 DEF TypeOK
<1>8. DirtyStored'
  BY <1>3, DirtyKept DEF Replace
<1> QED
  BY <1>5, <1>6, <1>7, <1>8, NoTakeOver DEF IInv

LEMMA RemoveInv == ASSUME IInv, NEW i \in Ids, Remove(i) PROVE IInv'
<1>1. TypeOK /\ ClaimsMatch /\ job.pc = "idle"
  BY IdleFacts DEF IInv, Remove
<1>2. /\ docs' \in [Ids -> Doc \cup {NoDoc}]
      /\ dirty' \subseteq Ids /\ memoryOnly' \subseteq Ids /\ persisted' \in BOOLEAN
      /\ announced' \subseteq Relays
  BY <1>1 DEF Remove, TypeOK
<1>3. files' \in [Ids -> File]
  <2>1. PICK left \in Remains(i) : files' = [files EXCEPT ![i] = left]
    BY DEF Remove
  <2>2. left \in File
    BY <1>1, <2>1 DEF Remains, File, TypeOK
  <2> QED
    BY <1>1, <2>1, <2>2 DEF TypeOK
<1>4. reason' \in [Ids -> Reason]
  BY <1>1, NoReasonFact DEF StoreReason, TypeOK, Remove
<1>5. \A j \in Ids \ {i} : docs'[j] = docs[j]
  BY <1>1 DEF Remove, TypeOK
<1>6. /\ running' \subseteq Ids /\ owner' \in [Relays -> 0..N]
      /\ freed' \subseteq Relays /\ entityFreed' \in BOOLEAN
      /\ ClaimsMatch'
  <2>1. CASE i \in running
    <3>1. Stop(i)
      BY <2>1 DEF Remove
    <3> QED
      BY <1>1, <1>5, <3>1, StopFacts, ClaimsOnStop
  <2>2. CASE i \notin running
    <3>1. UNCHANGED <<running, owner, freed, entityFreed>>
      BY <2>2 DEF Remove
    <3>2. running \ {i} = running /\ \A r \in Relays : LetGoBy(i, r) = owner[r]
      BY <1>1, <2>2, Unheld
    <3>3. ClaimsMatch'
      BY <1>1, <1>5, <3>1, <3>2, ClaimsOnStop
    <3> QED
      BY <1>1, <3>1, <3>3 DEF TypeOK
  <2> QED
    BY <2>1, <2>2
<1>7. job' \in Job /\ job'.pc \notin {"waiters", "holders"}
  BY <1>6, IdFacts, ThenWaitersFacts DEF Remove
<1>8. TypeOK'
  BY <1>2, <1>3, <1>4, <1>6, <1>7 DEF TypeOK
<1>9. DirtyStored'
  BY <1>5, DirtyKept DEF Remove
<1> QED
  BY <1>6, <1>7, <1>8, <1>9, NoTakeOver DEF IInv

LEMMA DisableInv == ASSUME IInv, NEW i \in Ids, Disable(i) PROVE IInv'
<1>1. TypeOK /\ ClaimsMatch /\ job.pc = "idle" /\ Stored(i)
  BY IdleFacts DEF IInv, Disable
<1>2. docs[i] \in Doc
  BY <1>1, StoredFacts
<1>3. /\ docs' \in [Ids -> Doc \cup {NoDoc}] /\ files' \in [Ids -> File]
      /\ dirty' \subseteq dirty /\ persisted' \in BOOLEAN /\ docs'[i] # NoDoc
      /\ \A j \in Ids \ {i} : docs'[j] = docs[j]
  <2>1. CASE docs[i].enabled
    <3>1. PICK ok, d : /\ d = [docs[i] EXCEPT !.enabled = FALSE]
                       /\ docs' = [docs EXCEPT ![i] = d]
                       /\ files' = Written(i, d, ok)
                       /\ persisted' = Reaches(d, ok)
                       /\ dirty' = dirty \ {i}
      BY <2>1 DEF Disable
    <3>2. d \in Doc
      BY <1>2, <3>1, FlagSet
    <3>3. Reaches(d, ok) \in BOOLEAN
      BY DEF Reaches
    <3>4. Written(i, d, ok) \in [Ids -> File]
      BY <1>1, <3>2, WrittenFacts
    <3>5. d # NoDoc
      BY <3>2, HubAssumption
    <3> QED
      BY <1>1, <3>1, <3>2, <3>3, <3>4, <3>5 DEF TypeOK
  <2>2. CASE ~docs[i].enabled
    BY <1>1, <2>2 DEF Disable, TypeOK, Stored
  <2> QED
    BY <2>1, <2>2
<1>4. /\ reason' \in [Ids -> Reason] /\ memoryOnly' \subseteq Ids /\ announced' \subseteq Relays
  BY <1>1, NoReasonFact DEF StoreReason, TypeOK, Disable
<1>5. /\ running' \subseteq Ids /\ owner' \in [Relays -> 0..N]
      /\ freed' \subseteq Relays /\ entityFreed' \in BOOLEAN
      /\ ClaimsMatch'
  <2>1. CASE i \in running
    <3>1. Stop(i)
      BY <2>1 DEF Disable
    <3> QED
      BY <1>1, <1>3, <3>1, StopFacts, ClaimsOnStop
  <2>2. CASE i \notin running
    <3>1. UNCHANGED <<running, owner, freed, entityFreed>>
      BY <2>2 DEF Disable
    <3>2. running \ {i} = running /\ \A r \in Relays : LetGoBy(i, r) = owner[r]
      BY <1>1, <2>2, Unheld
    <3>3. ClaimsMatch'
      BY <1>1, <1>3, <3>1, <3>2, ClaimsOnStop
    <3> QED
      BY <1>1, <3>1, <3>3 DEF TypeOK
  <2> QED
    BY <2>1, <2>2
<1>6. job' \in Job /\ job'.pc \notin {"waiters", "holders"}
  BY <1>5, IdFacts, ThenWaitersFacts DEF Disable
<1>7. TypeOK'
  BY <1>1, <1>3, <1>4, <1>5, <1>6 DEF TypeOK
<1>8. DirtyStored'
  BY <1>3, DirtyKept
<1> QED
  BY <1>5, <1>6, <1>7, <1>8, NoTakeOver DEF IInv

LEMMA EnableInv ==
  ASSUME IInv, NEW i \in Ids, NEW takeOver \in BOOLEAN, Enable(i, takeOver)
  PROVE  IInv'
<1>1. /\ TypeOK /\ ClaimsMatch /\ job.pc = "idle" /\ Stored(i) /\ i \notin running
      /\ persisted' = TRUE
      /\ UNCHANGED <<docs, files, running, owner, reason, dirty, freed, entityFreed,
                     announced, memoryOnly>>
  BY IdleFacts DEF IInv, Enable
<1>2. HeldBy(i) = {}
  BY <1>1, Unheld
<1>3. ClaimsMatch'
  BY <1>1, ClaimsOnFlags DEF Stored
<1>6. DirtyStored'
  BY <1>1 DEF IInv, DirtyStored, Stored
<1>4. CASE Savable(i, docs[i])
  <2>1. job' = [Idle EXCEPT !.pc = "holders", !.id = i]
    BY <1>4 DEF Enable
  <2>2. job' \in Job /\ job'.pc = "holders" /\ job'.id = i
    BY <2>1, IdleFacts DEF Job, Idle
  <2>3. TypeOK'
    BY <1>1, <2>2 DEF TypeOK
  <2>4. Holders(i, docs[i]) = {}
    BY <1>4 DEF Savable
  <2>5. TakeOver'
    BY <1>1, <1>2, <2>2, <2>4 DEF TakeOver, Stored, Holders, HeldBy
  <2>6. WaitersCleared'
    <3>1. ASSUME NEW j \in Ids \ {i}, Waits(j) PROVE Names(docs[i]) \cap Names(docs[j]) = {}
      <4>1. j \notin Reservers(i, docs[i])
        BY <1>4 DEF Savable
      <4>2. \A r \in Names(docs[i]) \cap Names(docs[j]) : owner[r] = i
        BY <3>1, <4>1 DEF Reservers
      <4>3. Names(docs[i]) \subseteq Relays
        BY <1>1, StoredFacts
      <4> QED
        BY <1>2, <4>2, <4>3 DEF HeldBy
    <3> QED
      BY <1>1, <2>2, <3>1 DEF WaitersCleared, Waits, Enabled, Stored
  <2> QED
    BY <1>3, <1>6, <2>3, <2>5, <2>6 DEF IInv
<1>5. CASE ~Savable(i, docs[i])
  <2>1. job' = [Idle EXCEPT !.pc = "waiters", !.id = i] /\ OnDevice(docs[i])
    BY <1>5 DEF Enable
  <2>2. job' \in Job /\ job'.pc = "waiters" /\ job'.id = i
    BY <2>1, IdleFacts DEF Job, Idle
  <2>3. TypeOK'
    BY <1>1, <2>2 DEF TypeOK
  <2>4. TakeOver'
    BY <1>1, <2>1, <2>2 DEF TakeOver, Stored, OnDevice
  <2> QED
    BY <1>3, <1>6, <2>2, <2>3, <2>4 DEF IInv, WaitersCleared
<1> QED
  BY <1>4, <1>5

(* What a take-over does to the document of the one in its way. *)
LEMMA StoreDisabledFacts ==
  ASSUME TypeOK, NEW j \in Ids, NEW i \in Ids, Stored(j), StoreDisabled(j, i)
  PROVE  /\ docs' \in [Ids -> Doc \cup {NoDoc}] /\ files' \in [Ids -> File]
         /\ dirty' \subseteq dirty /\ memoryOnly' \subseteq Ids /\ persisted' \in BOOLEAN
         /\ reason' \in [Ids -> Reason]
         /\ docs'[j] # NoDoc /\ ~docs'[j].enabled /\ Names(docs'[j]) = Names(docs[j])
         /\ \A k \in Ids \ {j} : docs'[k] = docs[k]
<1>1. docs[j] \in Doc
  BY StoredFacts
<1>2. PICK d : d = [docs[j] EXCEPT !.enabled = FALSE]
  OBVIOUS
<1>3. /\ d \in Doc /\ ~d.enabled /\ d # NoDoc
      /\ d.heat = docs[j].heat /\ d.cool = docs[j].cool
  <2>1. PICK off \in BOOLEAN : off = FALSE
    OBVIOUS
  <2>2. d = [docs[j] EXCEPT !.enabled = off]
    BY <1>2, <2>1
  <2>3. d \in Doc /\ d.enabled = off /\ d.heat = docs[j].heat /\ d.cool = docs[j].cool
    BY <1>1, <2>2, FlagSet
  <2>4. d # NoDoc
    BY <2>3, HubAssumption
  <2> QED
    BY <2>1, <2>3, <2>4
<1>4. docs' = [docs EXCEPT ![j] = d]
  BY <1>2 DEF StoreDisabled
<1>5. docs' \in [Ids -> Doc \cup {NoDoc}] /\ docs'[j] = d /\ \A k \in Ids \ {j} : docs'[k] = docs[k]
  BY <1>3, <1>4 DEF TypeOK
<1>6. dirty' \subseteq dirty /\ reason' \in [Ids -> Reason]
  BY NoReasonFact DEF StoreDisabled, StoreReason, TypeOK
<1>7. files' \in [Ids -> File] /\ memoryOnly' \subseteq Ids /\ persisted' \in BOOLEAN
  <2>1. CASE docs[i].newer
    <3>1. PICK ok \in Outcomes :
            /\ files' = IF j \in dirty THEN Written(j, docs[j], ok) ELSE files
            /\ persisted' = FALSE
            /\ memoryOnly' = memoryOnly \cup {k \in {j} : files'[k] \in Doc /\ files'[k].enabled}
      BY <2>1 DEF StoreDisabled
    <3>2. Written(j, docs[j], ok) \in [Ids -> File]
      BY <1>1, WrittenFacts
    <3> QED
      BY <3>1, <3>2 DEF TypeOK
  <2>2. CASE ~docs[i].newer
    <3>1. PICK ok \in Outcomes :
            /\ files' = Written(j, d, ok)
            /\ persisted' = (persisted /\ Reaches(d, ok))
            /\ memoryOnly' = memoryOnly
      BY <1>2, <2>2 DEF StoreDisabled
    <3>2. Written(j, d, ok) \in [Ids -> File]
      BY <1>3, WrittenFacts
    <3>3. (persisted /\ Reaches(d, ok)) \in BOOLEAN
      OBVIOUS
    <3> QED
      BY <3>1, <3>2, <3>3 DEF TypeOK
  <2> QED
    BY <2>1, <2>2
<1> QED
  BY <1>3, <1>5, <1>6, <1>7 DEF Names

LEMMA DisableWaiterInv == ASSUME IInv, DisableWaiter PROVE IInv'
<1>1. /\ TypeOK /\ ClaimsMatch /\ job.pc = "waiters"
      /\ UNCHANGED <<running, owner, freed, entityFreed, announced, job>>
  BY DEF IInv, DisableWaiter
<1>2. /\ job.id \in Ids /\ Stored(job.id) /\ job.id \notin running /\ docs[job.id].sensor = "ok"
  BY <1>1 DEF IInv, TakeOver
<1>3. PICK j \in Ids : IsFirst(j, Claimants) /\ StoreDisabled(j, job.id)
  BY DEF DisableWaiter
<1>4. j # job.id /\ Waits(j) /\ Stored(j) /\ j \notin running
  BY <1>3 DEF IsFirst, Claimants, Reservers, Waits, Enabled
<1>5. /\ docs' \in [Ids -> Doc \cup {NoDoc}] /\ files' \in [Ids -> File]
      /\ dirty' \subseteq dirty /\ memoryOnly' \subseteq Ids /\ persisted' \in BOOLEAN
      /\ reason' \in [Ids -> Reason]
      /\ docs'[j] # NoDoc /\ ~docs'[j].enabled /\ Names(docs'[j]) = Names(docs[j])
      /\ \A k \in Ids \ {j} : docs'[k] = docs[k]
  BY <1>1, <1>2, <1>3, <1>4, StoreDisabledFacts
<1>6. TypeOK'
  BY <1>1, <1>5 DEF TypeOK
<1>7. ClaimsMatch'
  <2>1. \A k \in Ids : Stored(k) => docs'[k] # NoDoc /\ Names(docs'[k]) = Names(docs[k])
    BY <1>5 DEF Stored
  <2>2. \A k \in running : docs'[k].enabled = docs[k].enabled
    BY <1>1, <1>4, <1>5, ClaimsFacts
  <2> QED
    BY <1>1, <2>1, <2>2, ClaimsOnFlags
<1>8. docs'[job.id] = docs[job.id]
  BY <1>2, <1>4, <1>5
<1>9. DirtyStored'
  BY <1>5, DirtyKept
<1> QED
  BY <1>1, <1>2, <1>6, <1>7, <1>8, <1>9 DEF IInv, TakeOver, WaitersCleared, Stored

LEMMA ToHoldersInv == ASSUME IInv, ToHolders PROVE IInv'
<1>1. /\ TypeOK /\ ClaimsMatch /\ job.pc = "waiters" /\ Claimants = {}
      /\ UNCHANGED <<docs, files, running, owner, reason, dirty, freed, entityFreed,
                     announced, persisted, memoryOnly>>
  BY DEF IInv, ToHolders
<1>2. /\ job.id \in Ids /\ Stored(job.id) /\ job.id \notin running /\ docs[job.id].sensor = "ok"
  BY <1>1 DEF IInv, TakeOver
<1>3. job' \in Job /\ job'.pc = "holders" /\ job'.id = job.id
  BY <1>1 DEF ToHolders, TypeOK, Job, Stages
<1>4. TypeOK'
  BY <1>1, <1>3 DEF TypeOK
<1>5. ClaimsMatch'
  BY <1>1, ClaimsOnFlags DEF Stored
<1>6. ASSUME NEW j \in Ids \ {job.id}, Waits(j)
      PROVE  Names(docs[job.id]) \cap Names(docs[j]) = {}
  <2>1. \A r \in Relays : owner[r] # job.id
    BY <1>1, <1>2, Unheld
  <2>2. \A r \in Names(docs[job.id]) \cap Names(docs[j]) : owner[r] = job.id
    BY <1>1, <1>6 DEF Claimants, Reservers
  <2>3. Names(docs[job.id]) \subseteq Relays
    BY <1>1, <1>2, StoredFacts
  <2> QED
    BY <2>1, <2>2, <2>3
<1>7. WaitersCleared'
  BY <1>1, <1>3, <1>6 DEF WaitersCleared, Waits, Enabled, Stored
<1>8. TakeOver'
  BY <1>1, <1>2, <1>3 DEF TakeOver, Stored
<1>9. DirtyStored'
  BY <1>1 DEF IInv, DirtyStored, Stored
<1> QED
  BY <1>4, <1>5, <1>7, <1>8, <1>9 DEF IInv

LEMMA HolderFacts ==
  ASSUME TypeOK, NEW i \in Ids, NEW d \in Doc, Holders(i, d) # {}
  PROVE  /\ HolderOf(i, d) \in Holders(i, d)
         /\ \E r \in Names(d) : r \in Relays /\ owner[r] = HolderOf(i, d)
<1>1. Holders(i, d) = {o \in {owner[r] : r \in Names(d)} : o \notin {Nobody, i}}
  BY DEF Holders
<1>2. PICK r \in Names(d) : owner[r] \notin {Nobody, i}
  BY <1>1
<1>3. CASE d.heat # NoRelay /\ owner[d.heat] \notin {Nobody, i}
  <2>1. HolderOf(i, d) = owner[d.heat] /\ d.heat \in Names(d) /\ d.heat \in Relays
    BY <1>3 DEF HolderOf, Names, Doc
  <2> QED
    BY <1>1, <1>3, <2>1
<1>4. CASE ~(d.heat # NoRelay /\ owner[d.heat] \notin {Nobody, i})
  <2>1. r = d.cool /\ r # NoRelay /\ HolderOf(i, d) = owner[r] /\ r \in Relays
    BY <1>2, <1>4 DEF Names, HolderOf, Doc
  <2> QED
    BY <1>1, <1>2, <2>1
<1> QED
  BY <1>3, <1>4

(* What the pool and the claims are after a holder made way for i. *)
LEMMA DisableHolderFacts ==
  ASSUME IInv, DisableHolder
  PROVE  \E i, j \in Ids :
           /\ i = job.id /\ i # j /\ Stored(i) /\ i \notin running /\ j \in running
           /\ docs[i] \in Doc /\ docs[i].sensor = "ok" /\ Names(docs[i]) \subseteq Relays
           /\ StoreDisabled(j, i)
           /\ running' = running \ {j}
           /\ \A r \in Relays : owner'[r] = IF owner[r] # j THEN owner[r]
                                            ELSE IF r \in Names(docs[i]) THEN i ELSE Nobody
           /\ freed' = freed \cup (HeldBy(j) \ Names(docs[i]))
           /\ owner' \in [Relays -> 0..N] /\ freed' \subseteq Relays
<1>1. TypeOK /\ ClaimsMatch /\ job.pc = "holders" /\ Holders(job.id, docs[job.id]) # {}
  BY DEF IInv, DisableHolder
<1>2. /\ job.id \in Ids /\ Stored(job.id) /\ job.id \notin running /\ docs[job.id].sensor = "ok"
  BY <1>1 DEF IInv, TakeOver
<1>3. docs[job.id] \in Doc /\ Names(docs[job.id]) \subseteq Relays
  BY <1>1, <1>2, StoredFacts
<1>4. PICK i, j : i \in Ids /\ i = job.id /\ j = HolderOf(i, docs[i])
  BY <1>2
<1>5. j \in Holders(i, docs[i]) /\ \E r \in Relays : owner[r] = j
  BY <1>1, <1>3, <1>4, HolderFacts
<1>6. j # i /\ j # Nobody
  BY <1>5 DEF Holders
<1>7. j \in Ids /\ j \in running
  BY <1>1, <1>4, <1>5, <1>6, ClaimsFacts
<1>8. /\ StoreDisabled(j, i)
      /\ owner' = [r \in Relays |-> IF owner[r] # j THEN owner[r]
                                    ELSE IF r \in Names(docs[i]) THEN i ELSE Nobody]
      /\ freed' = freed \cup (HeldBy(j) \ Names(docs[i]))
      /\ running' = running \ {j}
  BY <1>4 DEF DisableHolder
<1>9. owner' \in [Relays -> 0..N] /\ freed' \subseteq Relays
  BY <1>1, <1>4, <1>8, IdFacts DEF TypeOK, HeldBy
<1>10. \A r \in Relays : owner'[r] = IF owner[r] # j THEN owner[r]
                                     ELSE IF r \in Names(docs[i]) THEN i ELSE Nobody
  BY <1>8
<1> QED
  BY <1>2, <1>3, <1>4, <1>6, <1>7, <1>8, <1>9, <1>10

LEMMA DisableHolderInv == ASSUME IInv, DisableHolder PROVE IInv'
<1>1. /\ TypeOK /\ ClaimsMatch /\ job.pc = "holders" /\ entityFreed' = TRUE
      /\ announced' = announced /\ job' = job
  BY DEF IInv, DisableHolder
<1>2. PICK i, j \in Ids :
        /\ i = job.id /\ i # j /\ Stored(i) /\ i \notin running /\ j \in running
        /\ docs[i] \in Doc /\ docs[i].sensor = "ok" /\ Names(docs[i]) \subseteq Relays
        /\ StoreDisabled(j, i)
        /\ running' = running \ {j}
        /\ \A r \in Relays : owner'[r] = IF owner[r] # j THEN owner[r]
                                         ELSE IF r \in Names(docs[i]) THEN i ELSE Nobody
        /\ freed' = freed \cup (HeldBy(j) \ Names(docs[i]))
        /\ owner' \in [Relays -> 0..N] /\ freed' \subseteq Relays
  BY DisableHolderFacts
<1>3. Stored(j)
  BY <1>1, <1>2, ClaimsFacts DEF Stored
<1>4. /\ docs' \in [Ids -> Doc \cup {NoDoc}] /\ files' \in [Ids -> File]
      /\ dirty' \subseteq dirty /\ memoryOnly' \subseteq Ids /\ persisted' \in BOOLEAN
      /\ reason' \in [Ids -> Reason]
      /\ docs'[j] # NoDoc /\ ~docs'[j].enabled /\ Names(docs'[j]) = Names(docs[j])
      /\ \A k \in Ids \ {j} : docs'[k] = docs[k]
  BY <1>1, <1>2, <1>3, StoreDisabledFacts
<1>5. TypeOK'
  BY <1>1, <1>2, <1>4 DEF TypeOK
<1>6. ClaimsMatch'
  <2>1. ASSUME NEW r \in Relays, owner'[r] # Nobody
        PROVE  /\ docs'[owner'[r]] # NoDoc /\ r \in Names(docs'[owner'[r]])
               /\ owner'[r] \in running' \/ (job'.pc = "holders" /\ job'.id = owner'[r])
    <3>1. CASE owner[r] = j
      <4>1. owner'[r] = i /\ r \in Names(docs[i]) /\ docs'[i] = docs[i]
        BY <1>2, <1>4, <2>1, <3>1
      <4> QED
        BY <1>1, <1>2, <4>1 DEF Stored
    <3>2. CASE owner[r] # j
      <4>1. owner'[r] = owner[r]
        BY <1>2, <3>2
      <4>2. docs'[owner[r]] = docs[owner[r]]
        BY <1>1, <1>4, <2>1, <3>2, <4>1, ClaimsFacts
      <4> QED
        BY <1>1, <1>2, <2>1, <3>2, <4>1, <4>2, ClaimsFacts
    <3> QED
      BY <3>1, <3>2
  <2>2. ASSUME NEW k \in running'
        PROVE  /\ docs'[k] # NoDoc /\ docs'[k].enabled
               /\ \A r \in Names(docs'[k]) : r \in Relays /\ owner'[r] = k
    <3>1. k \in running /\ k # j /\ docs'[k] = docs[k]
      BY <1>1, <1>2, <1>4, <2>2, ClaimsFacts
    <3> QED
      BY <1>1, <1>2, <3>1, ClaimsFacts
  <2> QED
    BY <2>1, <2>2 DEF ClaimsMatch, Stored, Enabled, HeldBy
<1>7. docs'[i] = docs[i]
  BY <1>2, <1>4
<1>8. TakeOver'
  BY <1>1, <1>2, <1>7 DEF TakeOver, Stored
<1>9. WaitersCleared'
  <2>1. ASSUME NEW k \in Ids \ {i}, Waits(k)'
        PROVE  Names(docs[i]) \cap Names(docs'[k]) = {}
    <3>1. k # j
      BY <1>4, <2>1 DEF Waits, Enabled
    <3>2. docs'[k] = docs[k] /\ k \notin running
      BY <1>2, <1>4, <2>1, <3>1 DEF Waits
    <3>3. Waits(k)
      BY <2>1, <3>2 DEF Waits, Enabled, Stored
    <3> QED
      BY <1>1, <1>2, <2>1, <3>2, <3>3 DEF IInv, WaitersCleared
  <2> QED
    BY <1>1, <1>2, <1>7, <2>1 DEF WaitersCleared
<1>10. DirtyStored'
  BY <1>2, <1>4, DirtyKept
<1> QED
  BY <1>5, <1>6, <1>8, <1>9, <1>10 DEF IInv

LEMMA StartEnabledInv == ASSUME IInv, StartEnabled PROVE IInv'
<1>1. TypeOK /\ ClaimsMatch /\ job.pc = "holders" /\ Holders(job.id, docs[job.id]) = {}
  BY DEF IInv, StartEnabled
<1>2. PICK i, d : /\ i \in Ids /\ i = job.id /\ Stored(i) /\ i \notin running
                  /\ docs[i].sensor = "ok" \/ HeldBy(i) = {}
                  /\ d = [docs[i] EXCEPT !.enabled = TRUE]
  BY <1>1 DEF IInv, TakeOver
<1>3. docs[i] \in Doc
  BY <1>1, <1>2, StoredFacts
<1>4. /\ d \in Doc /\ d.enabled /\ d.sensor = docs[i].sensor
      /\ d.heat = docs[i].heat /\ d.cool = docs[i].cool
  <2>1. PICK on \in BOOLEAN : on = TRUE
    OBVIOUS
  <2>2. d = [docs[i] EXCEPT !.enabled = on]
    BY <1>2, <2>1
  <2>3. d \in Doc /\ d.enabled = on /\ d.sensor = docs[i].sensor
        /\ d.heat = docs[i].heat /\ d.cool = docs[i].cool
    BY <1>3, <2>2, FlagSet
  <2> QED
    BY <2>1, <2>3
<1>5. Start(i, d) /\ ThenWaiters(i) /\ announced' = announced /\ memoryOnly' = memoryOnly \ {i}
  BY <1>2 DEF StartEnabled
<1>6. /\ docs'[i] = d /\ \A j \in Ids \ {i} : docs'[j] = docs[j]
      /\ docs' \in [Ids -> Doc \cup {NoDoc}] /\ files' \in [Ids -> File]
      /\ dirty' \subseteq dirty /\ persisted' \in BOOLEAN
  <2>1. CASE docs[i].enabled
    <3>1. docs[i] = d
      <4>1. docs[i].enabled = TRUE
        BY <1>3, <2>1 DEF Doc
      <4> QED
        BY <1>2, <1>3, <4>1 DEF Doc
    <3> QED
      BY <1>1, <1>2, <2>1, <3>1 DEF StartEnabled, TypeOK
  <2>2. CASE ~docs[i].enabled
    <3>1. PICK ok \in Outcomes : /\ docs' = [docs EXCEPT ![i] = d]
                                 /\ files' = Written(i, d, ok)
                                 /\ persisted' = (persisted /\ Reaches(d, ok))
                                 /\ dirty' = dirty \ {i}
      BY <1>2, <2>2 DEF StartEnabled
    <3>2. Written(i, d, ok) \in [Ids -> File]
      BY <1>1, <1>2, <1>4, WrittenFacts
    <3>3. (persisted /\ Reaches(d, ok)) \in BOOLEAN
      OBVIOUS
    <3> QED
      BY <1>1, <1>2, <1>4, <3>1, <3>2, <3>3 DEF TypeOK
  <2> QED
    BY <2>1, <2>2
<1>7. HeldBy(i) \subseteq Names(d)
  <2>1. \A r \in Relays : owner[r] = i => r \in Names(docs[i])
    BY <1>1, <1>2, ClaimsFacts, IdFacts
  <2> QED
    BY <1>4, <2>1 DEF HeldBy, Names
<1>8. ClaimsMatch'
  BY <1>1, <1>2, <1>4, <1>5, <1>6, <1>7, ClaimsOnStart
<1>9. /\ running' \subseteq Ids /\ owner' \in [Relays -> 0..N]
      /\ reason' \in [Ids -> Reason] /\ freed' \subseteq Relays /\ entityFreed' = entityFreed
  BY <1>1, <1>2, <1>4, <1>5, StartFacts
<1>10. entityFreed' \in BOOLEAN
  BY <1>1, <1>9 DEF TypeOK
<1>11. job' \in Job /\ job'.pc \notin {"waiters", "holders"}
  BY <1>2, <1>5, <1>10, IdFacts, ThenWaitersFacts
<1>12. TypeOK'
  BY <1>1, <1>5, <1>6, <1>9, <1>10, <1>11 DEF TypeOK
<1>13. DirtyStored'
  <2>1. d # NoDoc
    BY <1>4, HubAssumption
  <2> QED
    BY <1>2, <1>6, <2>1, DirtyKept
<1> QED
  BY <1>8, <1>11, <1>12, <1>13, NoTakeOver DEF IInv

LEMMA TryWaiterInv ==
  ASSUME IInv, job.pc \in {"boot", "on_relays", "on_entities"}, NEW i \in Waiters, TryWaiter(i)
  PROVE  IInv'
<1>1. /\ TypeOK /\ ClaimsMatch /\ i \in Ids /\ Stored(i) /\ docs[i].enabled /\ i \notin running
      /\ Start(i, docs[i])
      /\ UNCHANGED <<docs, files, dirty, announced, persisted, memoryOnly>>
  BY DEF IInv, Waiters, Waits, Enabled, TryWaiter
<1>2. docs[i] \in Doc
  BY <1>1, StoredFacts
<1>3. HeldBy(i) = {}
  BY <1>1, Unheld
<1>4. ClaimsMatch'
  BY <1>1, <1>2, <1>3, ClaimsOnStart
<1>5. job' \in Job /\ job'.pc = job.pc
  <2>1. i + 1 \in 1..(N + 1) /\ job \in Job
    BY <1>1, IdFacts DEF TypeOK
  <2>2. job' = [job EXCEPT !.at = i + 1]
    BY DEF TryWaiter
  <2> QED
    BY <2>1, <2>2 DEF Job
<1>6. /\ running' \subseteq Ids /\ owner' \in [Relays -> 0..N]
      /\ reason' \in [Ids -> Reason] /\ freed' \subseteq Relays /\ entityFreed' = entityFreed
  BY <1>1, <1>2, StartFacts
<1>7. TypeOK'
  BY <1>1, <1>5, <1>6 DEF TypeOK
<1>8. DirtyStored'
  BY <1>1 DEF IInv, DirtyStored, Stored
<1> QED
  BY <1>4, <1>5, <1>7, <1>8, NoTakeOver DEF IInv

LEMMA SetTargetInv == ASSUME IInv, NEW i \in Ids, NEW t \in Targets, SetTarget(i, t) PROVE IInv'
<1>1. /\ TypeOK /\ ClaimsMatch /\ Stored(i) /\ job.pc = "idle" /\ job' = job
      /\ UNCHANGED <<files, running, owner, reason, freed, entityFreed, announced,
                     persisted, memoryOnly>>
  BY IdleFacts DEF IInv, SetTarget
<1>2. PICK d : d = [docs[i] EXCEPT !.target = t]
  OBVIOUS
<1>3. docs[i] \in Doc
  BY <1>1, StoredFacts
<1>4. /\ d \in Doc /\ d # NoDoc /\ d.enabled = docs[i].enabled /\ d.heat = docs[i].heat
      /\ d.cool = docs[i].cool
  BY <1>2, <1>3, TargetSet, HubAssumption
<1>5. docs' = [docs EXCEPT ![i] = d] /\ dirty' \subseteq dirty \cup {i}
  BY <1>2 DEF SetTarget
<1>6. /\ docs' \in [Ids -> Doc \cup {NoDoc}] /\ docs'[i] = d
      /\ \A j \in Ids \ {i} : docs'[j] = docs[j]
  BY <1>1, <1>4, <1>5 DEF TypeOK
<1>7. TypeOK'
  BY <1>1, <1>5, <1>6 DEF TypeOK
<1>8. ClaimsMatch'
  <2>1. Names(d) = Names(docs[i])
    BY <1>4 DEF Names
  <2>2. \A j \in Ids : Stored(j) => docs'[j] # NoDoc /\ Names(docs'[j]) = Names(docs[j])
    BY <1>4, <1>6, <2>1 DEF Stored
  <2>3. \A j \in running : docs'[j].enabled = docs[j].enabled
    BY <1>1, <1>4, <1>6, ClaimsFacts
  <2> QED
    BY <1>1, <2>2, <2>3, ClaimsOnFlags
<1>9. DirtyStored'
  BY <1>1, <1>4, <1>5, <1>6 DEF IInv, DirtyStored, TypeOK, Stored
<1> QED
  BY <1>1, <1>7, <1>8, <1>9, NoTakeOver DEF IInv

LEMMA FlushedFacts ==
  ASSUME IInv, NEW written \in SUBSET dirty
  PROVE  Flushed(written) \in [Ids -> File]
<1>1. \A i \in written : docs[i] \in Doc
  BY StoredFacts DEF IInv, DirtyStored, TypeOK
<1> QED
  BY <1>1 DEF IInv, TypeOK, Flushed, File

LEMMA FlushInv == ASSUME IInv, Flush PROVE IInv'
<1>1. /\ TypeOK /\ ClaimsMatch /\ job.pc = "idle" /\ dirty' = {}
      /\ UNCHANGED <<docs, running, owner, reason, freed, entityFreed, announced,
                     job, persisted, memoryOnly>>
  BY IdleFacts DEF IInv, Flush
<1>2. files' \in [Ids -> File]
  <2>1. PICK lost : files' = Flushed(dirty \ lost)
    BY DEF Flush
  <2> QED
    BY <2>1, FlushedFacts
<1>3. TypeOK'
  BY <1>1, <1>2 DEF TypeOK
<1>4. ClaimsMatch'
  BY <1>1, ClaimsOnFlags DEF Stored
<1> QED
  BY <1>1, <1>3, <1>4, NoTakeOver DEF IInv, DirtyStored

LEMMA PowerCutInv == ASSUME IInv, PowerCut PROVE IInv'
<1>1. PICK folder \in [Ids -> File] : Boot(folder)
  <2>1. PICK written \in SUBSET dirty : Boot(Flushed(written))
    BY DEF PowerCut
  <2> QED
    BY <2>1, FlushedFacts
<1>2. \A i \in Loaded(folder) : folder[i] \in Doc
  BY DEF Loaded
<1>3. /\ running' = {} /\ dirty' = {} /\ freed' = {} /\ entityFreed' = FALSE
      /\ announced' = {} /\ memoryOnly' = {} /\ persisted' = TRUE /\ files' = folder
      /\ docs' = [i \in Ids |-> IF i \in Loaded(folder) THEN folder[i] ELSE NoDoc]
      /\ owner' = [r \in Relays |-> Nobody] /\ reason' = [i \in Ids |-> NoReason]
      /\ job' = [Idle EXCEPT !.pc = "boot"]
  BY <1>1 DEF Boot
<1>4. docs' \in [Ids -> Doc \cup {NoDoc}]
  BY <1>2, <1>3
<1>5. owner' \in [Relays -> 0..N] /\ reason' \in [Ids -> Reason]
  BY <1>3, NoReasonFact, IdFacts
<1>6. job' \in Job /\ job'.pc = "boot"
  BY <1>3, IdleFacts DEF Idle
<1>7. TypeOK'
  BY <1>3, <1>4, <1>5, <1>6 DEF TypeOK
<1>8. ClaimsMatch'
  BY <1>3 DEF ClaimsMatch
<1> QED
  BY <1>3, <1>6, <1>7, <1>8, NoTakeOver DEF IInv, DirtyStored

LEMMA InitInv == Init => IInv
<1> SUFFICES ASSUME Init PROVE IInv
  OBVIOUS
<1>1. \A i \in Loaded(files) : files[i] \in Doc
  BY DEF Loaded
<1>2. files \in [Ids -> File]
  BY HubAssumption DEF Init
<1>3. docs \in [Ids -> Doc \cup {NoDoc}]
  BY <1>1 DEF Init
<1>4. owner \in [Relays -> 0..N] /\ reason \in [Ids -> Reason]
  BY NoReasonFact, IdFacts DEF Init
<1>5. job \in Job /\ job.pc = "boot"
  BY IdleFacts DEF Init, Idle
<1>6. TypeOK
  BY <1>2, <1>3, <1>4, <1>5 DEF TypeOK, Init
<1>7. ClaimsMatch
  BY DEF ClaimsMatch, Init
<1> QED
  BY <1>5, <1>6, <1>7 DEF IInv, TakeOver, WaitersCleared, DirtyStored, Init

(* A step that touches neither documents nor claims, and no take-over. *)
LEMMA AsideInv ==
  ASSUME IInv, TypeOK', UNCHANGED <<docs, running, owner, dirty>>,
         job.pc # "holders", job'.pc \notin {"waiters", "holders"}
  PROVE  IInv'
<1>1. ClaimsMatch'
  BY ClaimsOnFlags DEF IInv, Stored
<1> QED
  BY <1>1, NoTakeOver DEF IInv, DirtyStored, Stored

LEMMA JobStepInv == ASSUME IInv, JobStep PROVE IInv'
<1>1. TypeOK /\ job \in Job
  BY DEF IInv, TypeOK
<1>2. CASE StartLoaded
  <2>1. PICK i \in Waiters : job.pc = "boot" /\ TryWaiter(i)
    BY <1>2 DEF StartLoaded, IsFirst
  <2> QED
    BY <2>1, TryWaiterInv
<1>3. CASE Booted
  <2>1. /\ job.pc = "boot" /\ job' = Idle
        /\ UNCHANGED <<docs, files, running, owner, reason, dirty, freed, entityFreed,
                       announced, persisted, memoryOnly>>
    BY <1>3 DEF Booted
  <2>2. TypeOK'
    BY <1>1, <2>1, IdleFacts DEF TypeOK
  <2> QED
    BY <2>1, <2>2, IdleFacts, AsideInv
<1>4. CASE DisableWaiter
  BY <1>4, DisableWaiterInv
<1>5. CASE ToHolders
  BY <1>5, ToHoldersInv
<1>6. CASE DisableHolder
  BY <1>6, DisableHolderInv
<1>7. CASE StartEnabled
  BY <1>7, StartEnabledInv
<1>8. CASE StartOnRelay
  <2>1. PICK i \in Waiters : job.pc = "on_relays" /\ TryWaiter(i)
    BY <1>8 DEF StartOnRelay, IsFirst, OnRelay
  <2> QED
    BY <2>1, TryWaiterInv
<1>9. CASE ToEntities
  <2>1. /\ job.pc = "on_relays" /\ job' = [job EXCEPT !.pc = "on_entities", !.at = 1]
        /\ entityFreed' = FALSE
        /\ UNCHANGED <<docs, files, running, owner, reason, dirty, freed, announced,
                       persisted, memoryOnly>>
    BY <1>9 DEF ToEntities
  <2>2. job' \in Job /\ job'.pc = "on_entities"
    <3>1. PICK pc \in Stages, at \in 1..(N + 1) : pc = "on_entities" /\ at = 1
      BY IdFacts DEF Stages
    <3>2. [job EXCEPT !.pc = pc] \in Job /\ [job EXCEPT !.pc = pc].pc = pc
      BY <1>1 DEF Job
    <3>3. PICK j \in Job : j = [job EXCEPT !.pc = pc] /\ j.pc = pc
      BY <3>2
    <3>4. [j EXCEPT !.at = at] \in Job /\ [j EXCEPT !.at = at].pc = pc
      BY <3>3 DEF Job
    <3> QED
      BY <2>1, <3>1, <3>3, <3>4
  <2>3. TypeOK'
    BY <1>1, <2>1, <2>2 DEF TypeOK
  <2> QED
    BY <2>1, <2>2, <2>3, AsideInv
<1>10. CASE StartOnEntity
  <2>1. PICK i \in Waiters : job.pc = "on_entities" /\ TryWaiter(i)
    BY <1>10 DEF StartOnEntity, IsFirst, OnEntity
  <2> QED
    BY <2>1, TryWaiterInv
<1>11. CASE Announce
  <2>1. /\ job.pc = "on_entities" /\ job' = Idle /\ freed' = {} /\ announced' \subseteq Relays
        /\ UNCHANGED <<docs, files, running, owner, reason, dirty, entityFreed, persisted,
                       memoryOnly>>
    BY <1>1, <1>11 DEF Announce, TypeOK
  <2>2. TypeOK'
    BY <1>1, <2>1, IdleFacts DEF TypeOK
  <2> QED
    BY <2>1, <2>2, IdleFacts, AsideInv
<1> QED
  BY <1>2, <1>3, <1>4, <1>5, <1>6, <1>7, <1>8, <1>9, <1>10, <1>11 DEF JobStep

LEMMA NextInv == IInv /\ [Next]_vars => IInv'
<1> SUFFICES ASSUME IInv, [Next]_vars PROVE IInv'
  OBVIOUS
<1>1. ASSUME NEW i \in Ids, NEW d \in Drafts, Create(i, d) \/ Update(i, d) \/ Restore(i, d)
      PROVE  IInv'
  BY <1>1, AddInv, ReplaceInv DEF Create, Update, Restore
<1>2. ASSUME NEW i \in Ids, Remove(i) \/ Disable(i)
      PROVE  IInv'
  BY <1>2, RemoveInv, DisableInv
<1>3. ASSUME NEW i \in Ids, EnableRunning(i)
      PROVE  IInv'
  <2>1. /\ job.pc = "idle" /\ persisted' = TRUE
        /\ UNCHANGED <<docs, files, running, owner, reason, dirty, freed, entityFreed,
                       announced, job, memoryOnly>>
    BY <1>3, IdleFacts DEF EnableRunning
  <2>2. TypeOK'
    BY <2>1 DEF IInv, TypeOK
  <2> QED
    BY <2>1, <2>2, AsideInv
<1>4. ASSUME NEW i \in Ids, NEW takeOver \in BOOLEAN, Enable(i, takeOver)
      PROVE  IInv'
  BY <1>4, EnableInv
<1>5. ASSUME NEW i \in Ids, NEW t \in Targets, SetTarget(i, t)
      PROVE  IInv'
  BY <1>5, SetTargetInv
<1>6. CASE UNCHANGED vars
  BY <1>6 DEF vars, IInv, TypeOK, ClaimsMatch, TakeOver, WaitersCleared, DirtyStored,
     Stored, Enabled, Waits, HeldBy, Holders
<1> QED
  BY <1>1, <1>2, <1>3, <1>4, <1>5, <1>6, JobStepInv, FlushInv, PowerCutInv DEF Next
-----------------------------------------------------------------------------
(* Results *)

LEMMA Invariant == Spec => []IInv
  BY InitInv, NextInv, PTL DEF Spec

(* Documents, files, claims, reasons and the call in progress stay what     *)
(* their readers take them for, whatever the calls and power cuts.          *)
THEOREM TypeCorrect == Spec => []TypeOK
<1>1. IInv => TypeOK
  BY DEF IInv
<1> QED
  BY <1>1, Invariant, PTL

(* However calls, take-overs, failing writes and power cuts follow one      *)
(* another, a relay is claimed by one thermostat that names it, and all the *)
(* relays a running thermostat drives are its own: no two drive one relay.  *)
THEOREM ClaimsAlwaysMatch == Spec => []ClaimsMatch
<1>1. IInv => ClaimsMatch
  BY DEF IInv
<1> QED
  BY <1>1, Invariant, PTL
-----------------------------------------------------------------------------
(* No relay is stolen *)

(* A step after which each claimed relay is as it was or free. *)
NoneTaken == \A r \in Relays : owner[r] # Nobody => owner'[r] \in {Nobody, owner[r]}

NotStolen ==
  \A r \in Relays : owner[r] # Nobody /\ owner'[r] \notin {Nobody, owner[r]}
    => ~docs'[owner[r]].enabled /\ owner[r] \notin running'

LEMMA StartTakesNone ==
  ASSUME TypeOK, NEW i \in Ids, NEW d \in Doc, Start(i, d)
  PROVE  NoneTaken
  BY StartFacts DEF NoneTaken, LetGoBy

LEMMA AddTakesNone ==
  ASSUME IInv, NEW i \in Ids, NEW d \in Drafts, Add(i, d)
  PROVE  NoneTaken
<1>1. CASE d.enabled
  BY <1>1, DraftFacts, StartTakesNone DEF Add, IInv
<1>2. CASE ~d.enabled
  BY <1>2 DEF Add, NoneTaken
<1> QED
  BY <1>1, <1>2

LEMMA ReplaceTakesNone ==
  ASSUME IInv, NEW i \in Ids, NEW d \in Drafts, Replace(i, d)
  PROVE  NoneTaken
<1>1. TypeOK /\ d \in Doc
  BY DraftFacts DEF IInv
<1>2. CASE i \in running /\ ~d.enabled
  <2>1. Stop(i)
    BY <1>2 DEF Replace
  <2> QED
    BY <1>1, <2>1, StopFacts DEF NoneTaken, LetGoBy
<1>3. CASE i \in running /\ d.enabled
  <2>1. Restart(i, d)
    BY <1>3 DEF Replace
  <2> QED
    BY <1>1, <2>1, RestartFacts DEF NoneTaken, LetGoBy
<1>4. CASE i \notin running /\ d.enabled
  <2>1. Start(i, d)
    BY <1>4 DEF Replace
  <2> QED
    BY <1>1, <2>1, StartTakesNone
<1>5. CASE i \notin running /\ ~d.enabled
  BY <1>5 DEF Replace, NoneTaken
<1> QED
  BY <1>2, <1>3, <1>4, <1>5

LEMMA StopsTakeNone ==
  ASSUME IInv, NEW i \in Ids, Remove(i) \/ Disable(i)
  PROVE  NoneTaken
<1>1. Stop(i) \/ owner' = owner
  BY DEF Remove, Disable
<1>2. CASE Stop(i)
  BY <1>2, StopFacts DEF IInv, NoneTaken, LetGoBy
<1> QED
  BY <1>1, <1>2 DEF NoneTaken

LEMMA TryWaiterTakesNone ==
  ASSUME IInv, NEW i \in Ids, Waits(i), TryWaiter(i)
  PROVE  NoneTaken
<1>1. docs[i] \in Doc
  BY StoredFacts DEF IInv, Waits, Enabled
<1> QED
  BY <1>1, StartTakesNone DEF TryWaiter, IInv

LEMMA StartEnabledTakesNone ==
  ASSUME IInv, StartEnabled
  PROVE  NoneTaken
<1>1. PICK i, d : /\ i \in Ids /\ i = job.id /\ Stored(i)
                  /\ d = [docs[i] EXCEPT !.enabled = TRUE] /\ Start(i, d)
  BY DEF IInv, TakeOver, StartEnabled
<1>2. d \in Doc
  <2>1. PICK on \in BOOLEAN : on = TRUE
    OBVIOUS
  <2>2. d = [docs[i] EXCEPT !.enabled = on] /\ docs[i] \in Doc
    BY <1>1, <2>1, StoredFacts DEF IInv
  <2> QED
    BY <2>2, FlagSet
<1> QED
  BY <1>1, <1>2, StartTakesNone DEF IInv

LEMMA DisableHolderSteals ==
  ASSUME IInv, DisableHolder
  PROVE  NotStolen
<1>1. PICK i, j \in Ids :
        /\ Stored(i) /\ j \in running /\ StoreDisabled(j, i) /\ running' = running \ {j}
        /\ \A r \in Relays : owner'[r] = IF owner[r] # j THEN owner[r]
                                         ELSE IF r \in Names(docs[i]) THEN i ELSE Nobody
  BY DisableHolderFacts
<1>2. Stored(j)
  BY <1>1, ClaimsFacts DEF IInv, Stored
<1>3. ~docs'[j].enabled
  BY <1>1, <1>2, StoreDisabledFacts DEF IInv
<1> QED
  BY <1>1, <1>3 DEF NotStolen

LEMMA NextStealsNot == IInv /\ [Next]_vars => NotStolen
<1> SUFFICES ASSUME IInv, [Next]_vars PROVE NotStolen
  OBVIOUS
<1>1. NoneTaken => NotStolen
  BY DEF NoneTaken, NotStolen
<1>2. owner' = owner => NoneTaken
  BY DEF NoneTaken
<1>3. ASSUME NEW i \in Ids, NEW d \in Drafts, Create(i, d) \/ Update(i, d) \/ Restore(i, d)
      PROVE  NoneTaken
  BY <1>3, AddTakesNone, ReplaceTakesNone DEF Create, Update, Restore
<1>4. ASSUME NEW i \in Ids, Remove(i) \/ Disable(i) \/ EnableRunning(i)
      PROVE  NoneTaken
  BY <1>2, <1>4, StopsTakeNone DEF EnableRunning
<1>5. ASSUME NEW i \in Ids, NEW takeOver \in BOOLEAN, Enable(i, takeOver)
      PROVE  NoneTaken
  BY <1>2, <1>5 DEF Enable
<1>6. ASSUME NEW i \in Ids, NEW t \in Targets, SetTarget(i, t)
      PROVE  NoneTaken
  BY <1>2, <1>6 DEF SetTarget
<1>7. CASE StartLoaded \/ StartOnRelay \/ StartOnEntity
  <2>1. PICK i \in Ids : Waits(i) /\ TryWaiter(i)
    BY <1>7 DEF StartLoaded, StartOnRelay, StartOnEntity, IsFirst, OnRelay, OnEntity, Waiters
  <2> QED
    BY <1>1, <2>1, TryWaiterTakesNone
<1>8. CASE Booted \/ DisableWaiter \/ ToHolders \/ ToEntities \/ Announce \/ Flush
  BY <1>1, <1>2, <1>8 DEF Booted, DisableWaiter, ToHolders, ToEntities, Announce, Flush
<1>9. CASE PowerCut
  BY <1>1, <1>9 DEF PowerCut, Boot, NoneTaken
<1>10. CASE UNCHANGED vars
  BY <1>1, <1>2, <1>10 DEF vars
<1> QED
  BY <1>1, <1>3, <1>4, <1>5, <1>6, <1>7, <1>8, <1>9, <1>10, StartEnabledTakesNone,
     DisableHolderSteals DEF Next, JobStep

(* No call and no start of a waiting thermostat takes a relay another one   *)
(* holds: only a take-over does, and in the step that hands the relay over  *)
(* the other is disabled and stopped.                                       *)
THEOREM RelaysNeverStolen == Spec => NeverStolen
<1>1. IInv /\ [Next]_vars =>
        [\A r \in Relays : owner[r] # Nobody /\ owner'[r] \notin {Nobody, owner[r]}
           => ~docs'[owner[r]].enabled /\ owner[r] \notin running']_vars
  BY NextStealsNot DEF NotStolen
<1> QED
  BY <1>1, Invariant, PTL DEF Spec, NeverStolen
-----------------------------------------------------------------------------
(* No second claimant is made *)

LEMMA ExclusiveOn ==
  ASSUME TypeOK, NEW i \in Ids, Exclusive(docs), \A j \in Ids \ {i} : docs'[j] = docs[j],
         docs'[i] \in Doc /\ docs'[i].enabled =>
           \A j \in Ids \ {i} : Enabled(j) => Names(docs'[i]) \cap Names(docs[j]) = {}
  PROVE  Exclusive(docs')
<1> SUFFICES ASSUME NEW a \in Ids, NEW b \in Ids, a # b, docs'[a] \in Doc, docs'[b] \in Doc,
                    docs'[a].enabled, docs'[b].enabled
             PROVE  Names(docs'[a]) \cap Names(docs'[b]) = {}
  BY DEF Exclusive
<1>1. \A j \in Ids \ {i} : docs'[j] \in Doc /\ docs'[j].enabled => Enabled(j)
  BY HubAssumption DEF Enabled, Stored
<1>2. CASE a = i
  BY <1>1, <1>2
<1>3. CASE b = i
  BY <1>1, <1>3
<1>4. CASE a # i /\ b # i
  BY <1>4 DEF Exclusive
<1> QED
  BY <1>2, <1>3, <1>4

LEMMA ExclusiveOnFlags ==
  ASSUME Exclusive(docs),
         \A j \in Ids : docs'[j] \in Doc /\ docs'[j].enabled =>
           docs[j] \in Doc /\ docs[j].enabled /\ Names(docs'[j]) = Names(docs[j])
  PROVE  Exclusive(docs')
  BY DEF Exclusive

(* What check_savable_ accepts is in nobody's way. *)
LEMMA SavableFacts ==
  ASSUME TypeOK, ClaimsMatch, Exclusive(docs), job.pc # "holders",
         NEW i \in Ids, NEW d \in Doc, Savable(i, d)
  PROVE  \A j \in Ids \ {i} : Enabled(j) => Names(d) \cap Names(docs[j]) = {}
<1> SUFFICES ASSUME NEW j \in Ids \ {i}, Enabled(j), NEW r \in Names(d), r \in Names(docs[j])
             PROVE  FALSE
  OBVIOUS
<1>1. r \in Relays /\ Stored(j) /\ docs[j] \in Doc /\ docs[j].enabled
  BY StoredFacts DEF Enabled
<1>2. CASE j \in running
  <2>1. owner[r] = j /\ j # Nobody
    BY <1>1, <1>2, ClaimsFacts
  <2>2. j \in Holders(i, d)
    BY <2>1 DEF Holders
  <2> QED
    BY <2>2 DEF Savable
<1>3. CASE j \notin running
  <2>1. Waits(j) /\ j \notin Reservers(i, d)
    BY <1>3 DEF Waits, Savable
  <2>2. owner[r] = i
    BY <2>1 DEF Reservers
  <2>3. i \in running /\ Stored(i) /\ docs[i].enabled /\ r \in Names(docs[i])
    BY <1>1, <2>2, IdFacts, ClaimsFacts DEF Stored
  <2>4. docs[i] \in Doc
    BY <2>3, StoredFacts
  <2> QED
    BY <1>1, <2>3, <2>4 DEF Exclusive
<1> QED
  BY <1>2, <1>3

LEMMA AddExclusive ==
  ASSUME IInv, job = Idle, Exclusive(docs), NEW i \in Ids, NEW d \in Drafts,
         Add(i, d) \/ Replace(i, d)
  PROVE  Exclusive(docs')
<1>1. TypeOK /\ ClaimsMatch /\ d \in Doc /\ job.pc # "holders"
  BY DraftFacts, IdleFacts DEF IInv
<1>2. docs' = [docs EXCEPT ![i] = d] /\ (d.enabled => Savable(i, d))
  BY DEF Add, Replace
<1>3. docs'[i] = d /\ \A j \in Ids \ {i} : docs'[j] = docs[j]
  BY <1>1, <1>2 DEF TypeOK
<1> QED
  BY <1>1, <1>2, <1>3, SavableFacts, ExclusiveOn

LEMMA StoreDisabledExclusive ==
  ASSUME TypeOK, Exclusive(docs), NEW i \in Ids, NEW j \in Ids, Stored(j), StoreDisabled(j, i)
  PROVE  Exclusive(docs')
<1>1. ~docs'[j].enabled /\ \A k \in Ids \ {j} : docs'[k] = docs[k]
  BY StoreDisabledFacts
<1> QED
  BY <1>1, ExclusiveOn

LEMMA StartEnabledExclusive ==
  ASSUME IInv, Exclusive(docs), StartEnabled
  PROVE  Exclusive(docs')
<1>1. TypeOK /\ ClaimsMatch /\ job.pc = "holders"
  BY DEF IInv, StartEnabled
<1>2. PICK i \in Ids : i = job.id /\ Stored(i) /\ Holders(i, docs[i]) = {}
  BY <1>1 DEF IInv, TakeOver, StartEnabled
<1>3. docs[i] \in Doc /\ Names(docs[i]) \subseteq Relays
  BY <1>1, <1>2, StoredFacts
<1>4. CASE docs[i].enabled
  BY <1>2, <1>4 DEF StartEnabled
<1>5. CASE ~docs[i].enabled
  <2>1. PICK on, d : on \in BOOLEAN /\ on = TRUE /\ d = [docs[i] EXCEPT !.enabled = on]
    OBVIOUS
  <2>2. docs' = [docs EXCEPT ![i] = d]
    BY <1>2, <1>5, <2>1 DEF StartEnabled
  <2>3. d \in Doc /\ d.heat = docs[i].heat /\ d.cool = docs[i].cool
    <3>1. on \in BOOLEAN /\ d = [docs[i] EXCEPT !.enabled = on]
      BY <2>1
    <3> QED
      BY <1>3, <3>1, FlagSet
  <2>4. docs'[i] = d /\ \A j \in Ids \ {i} : docs'[j] = docs[j]
    BY <1>1, <2>2 DEF TypeOK
  <2>5. Names(d) = Names(docs[i])
    BY <2>3 DEF Names
  <2>6. ASSUME NEW j \in Ids \ {i}, Enabled(j), NEW r \in Names(docs[i]), r \in Names(docs[j])
        PROVE  FALSE
    <3>1. CASE j \in running
      <4>1. owner[r] = j /\ j # Nobody
        BY <1>1, <2>6, <3>1, ClaimsFacts
      <4>2. j \in Holders(i, docs[i])
        BY <2>6, <4>1 DEF Holders
      <4> QED
        BY <1>2, <4>2
    <3>2. CASE j \notin running
      BY <1>1, <1>2, <2>6, <3>2 DEF IInv, WaitersCleared, Waits
    <3> QED
      BY <3>1, <3>2
  <2> QED
    BY <1>1, <2>4, <2>5, <2>6, ExclusiveOn
<1> QED
  BY <1>4, <1>5

LEMMA FlagsExclusive ==
  ASSUME IInv, Exclusive(docs), NEW i \in Ids, Remove(i) \/ Disable(i)
  PROVE  Exclusive(docs')
<1>1. TypeOK /\ Stored(i)
  BY DEF IInv, Remove, Disable
<1>2. CASE Remove(i)
  <2>1. docs'[i] = NoDoc /\ \A j \in Ids \ {i} : docs'[j] = docs[j]
    BY <1>1, <1>2 DEF Remove, TypeOK
  <2> QED
    BY <1>1, <2>1, ExclusiveOn, HubAssumption
<1>3. CASE Disable(i) /\ ~docs[i].enabled
  BY <1>3 DEF Disable
<1>4. CASE Disable(i) /\ docs[i].enabled
  <2>1. PICK off, d : off \in BOOLEAN /\ off = FALSE /\ d = [docs[i] EXCEPT !.enabled = off]
    OBVIOUS
  <2>2. docs' = [docs EXCEPT ![i] = d]
    BY <1>4, <2>1 DEF Disable
  <2>3. ~d.enabled
    BY <1>1, <2>1, StoredFacts, FlagSet
  <2>4. docs'[i] = d /\ \A j \in Ids \ {i} : docs'[j] = docs[j]
    BY <1>1, <2>2 DEF TypeOK
  <2> QED
    BY <1>1, <2>3, <2>4, ExclusiveOn
<1> QED
  BY <1>2, <1>3, <1>4

LEMMA TargetExclusive ==
  ASSUME IInv, Exclusive(docs), NEW i \in Ids, NEW t \in Targets, SetTarget(i, t)
  PROVE  Exclusive(docs')
<1>1. TypeOK /\ docs[i] \in Doc
  BY StoredFacts DEF IInv, SetTarget
<1>2. PICK d : d = [docs[i] EXCEPT !.target = t]
  OBVIOUS
<1>3. docs' = [docs EXCEPT ![i] = d]
  BY <1>2 DEF SetTarget
<1>4. d.enabled = docs[i].enabled /\ d.heat = docs[i].heat /\ d.cool = docs[i].cool
  BY <1>1, <1>2, TargetSet
<1>5. docs'[i] = d /\ \A j \in Ids \ {i} : docs'[j] = docs[j]
  BY <1>1, <1>3 DEF TypeOK
<1>6. Names(d) = Names(docs[i])
  BY <1>4 DEF Names
<1> QED
  BY <1>1, <1>4, <1>5, <1>6, ExclusiveOnFlags

LEMMA NextExclusive ==
  IInv /\ [Next]_vars => (Exclusive(docs) /\ ~PowerCut => Exclusive(docs'))
<1> SUFFICES ASSUME IInv, [Next]_vars, Exclusive(docs), ~PowerCut PROVE Exclusive(docs')
  OBVIOUS
<1>1. ASSUME NEW i \in Ids, NEW d \in Drafts, Create(i, d) \/ Update(i, d) \/ Restore(i, d)
      PROVE  Exclusive(docs')
  BY <1>1, AddExclusive DEF Create, Update, Restore
<1>2. ASSUME NEW i \in Ids, Remove(i) \/ Disable(i) \/ EnableRunning(i)
      PROVE  Exclusive(docs')
  BY <1>2, FlagsExclusive DEF EnableRunning
<1>3. ASSUME NEW i \in Ids, NEW takeOver \in BOOLEAN, Enable(i, takeOver)
      PROVE  Exclusive(docs')
  BY <1>3 DEF Enable
<1>4. ASSUME NEW i \in Ids, NEW t \in Targets, SetTarget(i, t)
      PROVE  Exclusive(docs')
  BY <1>4, TargetExclusive
<1>5. CASE StartLoaded \/ StartOnRelay \/ StartOnEntity
  <2>1. docs' = docs
    BY <1>5 DEF StartLoaded, StartOnRelay, StartOnEntity, TryWaiter
  <2> QED
    BY <2>1
<1>6. CASE DisableWaiter
  <2>1. PICK j \in Ids : Stored(j) /\ job.id \in Ids /\ StoreDisabled(j, job.id)
    BY <1>6 DEF DisableWaiter, IsFirst, Claimants, Reservers, Waits, Enabled, IInv, TakeOver
  <2> QED
    BY <2>1, StoreDisabledExclusive DEF IInv
<1>7. CASE DisableHolder
  <2>1. PICK i, j \in Ids : j \in running /\ StoreDisabled(j, i)
    BY <1>7, DisableHolderFacts
  <2>2. Stored(j)
    BY <2>1, ClaimsFacts DEF IInv, Stored
  <2> QED
    BY <2>1, <2>2, StoreDisabledExclusive DEF IInv
<1>8. CASE StartEnabled
  BY <1>8, StartEnabledExclusive
<1>9. CASE Booted \/ ToHolders \/ ToEntities \/ Announce \/ Flush
  <2>1. docs' = docs
    BY <1>9 DEF Booted, ToHolders, ToEntities, Announce, Flush
  <2> QED
    BY <2>1
<1>10. CASE UNCHANGED vars
  <2>1. docs' = docs
    BY <1>10 DEF vars
  <2> QED
    BY <2>1
<1> QED
  BY <1>1, <1>2, <1>3, <1>4, <1>5, <1>6, <1>7, <1>8, <1>9, <1>10 DEF Next, JobStep

(* No Save, restore, enabling or take-over makes two enabled thermostats    *)
(* that name one relay where there were none, whether they run or wait: the *)
(* checks against holders and waiters leave nobody out.                     *)
THEOREM StaysExclusive == Spec => ExclusiveKept
<1>1. IInv /\ [Next]_vars => [Exclusive(docs) /\ ~PowerCut => Exclusive(docs')]_vars
  BY NextExclusive
<1> QED
  BY <1>1, Invariant, PTL DEF Spec, ExclusiveKept
-----------------------------------------------------------------------------
(* Every release is announced *)

(* Notes of what came free are kept inside the calls that end in            *)
(* start_waiters_ only, and the one of the pool not past its first act.     *)
Settled ==
  /\ job.pc \in {"idle", "boot", "waiters"} => freed = {} /\ ~entityFreed
  /\ job.pc = "on_entities" => ~entityFreed

(* What a step lets go is noted, and what was noted stays so. *)
Noted ==
  /\ \A r \in Relays : owner[r] # Nobody /\ owner'[r] = Nobody => r \in freed'
  /\ freed \subseteq freed'

LEMMA StopNotes == ASSUME NEW i, Stop(i) PROVE Noted
  BY DEF Stop, LetGoAll, HeldBy, Noted

LEMMA StartNotes ==
  ASSUME NEW i \in Ids, NEW d, Start(i, d)
  PROVE  Noted /\ entityFreed' = entityFreed /\ (HeldBy(i) = {} => freed' = freed)
<1>1. entityFreed' = entityFreed
  BY DEF Start
<1>2. CASE StartObstacle(i, d) = NoReason
  <2>1. owner' = ClaimAll(i, d) /\ freed' = freed
    BY <1>2 DEF Start
  <2> QED
    BY <1>1, <2>1, IdFacts DEF ClaimAll, Noted
<1>3. CASE StartObstacle(i, d) # NoReason /\ StartObstacle(i, d).why = "sensor"
  <2>1. owner' = owner /\ freed' = freed
    BY <1>3 DEF Start
  <2> QED
    BY <1>1, <2>1 DEF Noted
<1>4. CASE StartObstacle(i, d) # NoReason /\ StartObstacle(i, d).why # "sensor"
  <2>1. owner' = LetGoAll(i) /\ freed' = freed \cup HeldBy(i)
    BY <1>4 DEF Start
  <2> QED
    BY <1>1, <2>1 DEF LetGoAll, HeldBy, Noted
<1> QED
  BY <1>2, <1>3, <1>4

LEMMA RestartNotes == ASSUME NEW i \in Ids, NEW d, Restart(i, d) PROVE Noted
<1>1. CASE RestartObstacle(i, d) # NoReason
  BY <1>1, StopNotes DEF Restart
<1>2. CASE RestartObstacle(i, d) = NoReason
  <2>1. /\ owner' = [r \in Relays |-> IF r \in Names(d) THEN i
                                      ELSE IF owner[r] = i THEN Nobody ELSE owner[r]]
        /\ freed' = freed \cup (HeldBy(i) \ Names(d))
    BY <1>2 DEF Restart
  <2> QED
    BY <2>1, IdFacts DEF HeldBy, Noted
<1> QED
  BY <1>1, <1>2

(* What every step but an announcement and a power cut does to the notes. *)
NotesKept == Noted /\ Settled' /\ announced' = announced

LEMMA ThenWaitersSettles == ASSUME NEW i, ThenWaiters(i) PROVE Settled'
<1>1. job'.pc = "on_relays"
  BY DEF ThenWaiters
<1> QED
  BY <1>1 DEF Settled

LEMMA CallNotes ==
  ASSUME IInv, Settled, job = Idle, NEW i \in Ids, NEW d \in Drafts, Add(i, d) \/ Replace(i, d)
  PROVE  NotesKept
<1>1. TypeOK /\ ClaimsMatch /\ job.pc = "idle"
  BY IdleFacts DEF IInv
<1>2. CASE Add(i, d)
  <2>1. HeldBy(i) = {}
    BY <1>1, <1>2, Unheld, ClaimsFacts DEF Add, Stored
  <2>2. Noted /\ UNCHANGED <<freed, entityFreed>>
    <3>1. CASE d.enabled
      BY <1>2, <2>1, <3>1, StartNotes DEF Add
    <3>2. CASE ~d.enabled
      BY <1>2, <3>2 DEF Add, Noted
    <3> QED
      BY <3>1, <3>2
  <2> QED
    BY <1>2, <2>2 DEF NotesKept, Settled, Add
<1>3. CASE Replace(i, d)
  <2>1. Noted
    <3>1. CASE i \in running /\ ~d.enabled
      BY <1>3, <3>1, StopNotes DEF Replace
    <3>2. CASE i \in running /\ d.enabled
      BY <1>3, <3>2, RestartNotes DEF Replace
    <3>3. CASE i \notin running /\ d.enabled
      BY <1>3, <3>3, StartNotes DEF Replace
    <3>4. CASE i \notin running /\ ~d.enabled
      BY <1>3, <3>4 DEF Replace, Noted
    <3> QED
      BY <3>1, <3>2, <3>3, <3>4
  <2> QED
    BY <1>3, <2>1, ThenWaitersSettles DEF NotesKept, Replace
<1> QED
  BY <1>2, <1>3

LEMMA StopCallNotes ==
  ASSUME NEW i \in Ids, Remove(i) \/ Disable(i)
  PROVE  NotesKept
<1>1. Stop(i) \/ UNCHANGED <<owner, freed>>
  BY DEF Remove, Disable
<1>2. Noted
  BY <1>1, StopNotes DEF Noted
<1>3. Settled' /\ announced' = announced
  BY ThenWaitersSettles DEF Remove, Disable
<1> QED
  BY <1>2, <1>3 DEF NotesKept

LEMMA EnableNotes ==
  ASSUME Settled, NEW i \in Ids, NEW takeOver \in BOOLEAN, Enable(i, takeOver)
  PROVE  NotesKept
<1>1. job.pc = "idle" /\ job'.pc \in {"waiters", "holders"}
  BY IdleFacts DEF Enable, Idle
<1>2. UNCHANGED <<owner, freed, entityFreed, announced>>
  BY DEF Enable
<1> QED
  BY <1>1, <1>2 DEF NotesKept, Noted, Settled

LEMMA TryWaiterNotes ==
  ASSUME IInv, Settled, job.pc \in {"boot", "on_relays", "on_entities"},
         NEW i \in Waiters, TryWaiter(i)
  PROVE  NotesKept
<1>1. i \in Ids /\ i \notin running /\ TypeOK /\ ClaimsMatch /\ Start(i, docs[i])
  BY DEF Waiters, Waits, IInv, TryWaiter
<1>2. HeldBy(i) = {}
  BY <1>1, Unheld
<1>3. Noted /\ UNCHANGED <<freed, entityFreed, announced>>
  BY <1>1, <1>2, StartNotes DEF TryWaiter
<1>4. job'.pc = job.pc
  BY <1>1 DEF TryWaiter, TypeOK, Job
<1> QED
  BY <1>3, <1>4 DEF NotesKept, Settled

LEMMA TakeOverNotes ==
  ASSUME IInv, Settled, DisableWaiter \/ ToHolders \/ DisableHolder \/ StartEnabled
  PROVE  NotesKept
<1>1. CASE DisableWaiter
  BY <1>1 DEF DisableWaiter, NotesKept, Noted, Settled
<1>2. CASE ToHolders
  <2>1. job'.pc = "holders" /\ UNCHANGED <<owner, freed, announced>>
    BY <1>2 DEF ToHolders, IInv, TypeOK, Job
  <2> QED
    BY <2>1 DEF NotesKept, Noted, Settled
<1>3. CASE DisableHolder
  <2>1. PICK i, j \in Ids :
          /\ \A r \in Relays : owner'[r] = IF owner[r] # j THEN owner[r]
                                           ELSE IF r \in Names(docs[i]) THEN i ELSE Nobody
          /\ freed' = freed \cup (HeldBy(j) \ Names(docs[i]))
    BY <1>3, DisableHolderFacts
  <2>2. Noted
    BY <2>1, IdFacts DEF Noted, HeldBy
  <2>3. job.pc = "holders" /\ job' = job /\ announced' = announced
    BY <1>3 DEF DisableHolder
  <2> QED
    BY <2>2, <2>3 DEF NotesKept, Settled
<1>4. CASE StartEnabled
  <2>1. PICK i, d : /\ i \in Ids /\ i = job.id /\ Start(i, d) /\ ThenWaiters(i)
                    /\ announced' = announced
    BY <1>4 DEF StartEnabled, IInv, TakeOver
  <2> QED
    BY <2>1, StartNotes, ThenWaitersSettles DEF NotesKept
<1> QED
  BY <1>1, <1>2, <1>3, <1>4

(* What the last step of a call does to the notes, and a power cut. *)
Told ==
  /\ \A r \in Relays : owner[r] # Nobody /\ owner'[r] = Nobody => r \in freed' \/ PowerCut
  /\ \A r \in freed : r \in freed' \/ r \in announced' \/ owner'[r] # Nobody \/ PowerCut
  /\ \A r \in announced' \ announced : owner'[r] = Nobody
  /\ job' = Idle => freed' = {} /\ ~entityFreed'

LEMMA KeptTells == ASSUME NotesKept PROVE Settled' /\ Told
<1>1. Settled' /\ announced' = announced /\ freed \subseteq freed'
      /\ \A r \in Relays : owner[r] # Nobody /\ owner'[r] = Nobody => r \in freed'
  BY DEF NotesKept, Noted
<1>2. job' = Idle => freed' = {} /\ ~entityFreed'
  BY <1>1, IdleFacts DEF Settled
<1> QED
  BY <1>1, <1>2 DEF Told

LEMMA NextTells == IInv /\ Settled /\ [Next]_vars => Settled' /\ Told
<1> SUFFICES ASSUME IInv, Settled, [Next]_vars PROVE Settled' /\ Told
  OBVIOUS
<1>1. UNCHANGED <<owner, freed, entityFreed, announced, job>> => NotesKept
  BY DEF NotesKept, Noted, Settled
<1>2. ASSUME NEW i \in Ids, NEW d \in Drafts, Create(i, d) \/ Update(i, d) \/ Restore(i, d)
      PROVE  NotesKept
  BY <1>2, CallNotes DEF Create, Update, Restore
<1>3. ASSUME NEW i \in Ids, Remove(i) \/ Disable(i) \/ EnableRunning(i)
      PROVE  NotesKept
  BY <1>1, <1>3, StopCallNotes DEF EnableRunning
<1>4. ASSUME NEW i \in Ids, NEW takeOver \in BOOLEAN, Enable(i, takeOver)
      PROVE  NotesKept
  BY <1>4, EnableNotes
<1>5. ASSUME NEW i \in Ids, NEW t \in Targets, SetTarget(i, t)
      PROVE  NotesKept
  BY <1>1, <1>5 DEF SetTarget
<1>6. StartLoaded \/ StartOnRelay \/ StartOnEntity => NotesKept
  <2>1. StartLoaded \/ StartOnRelay \/ StartOnEntity =>
          \E i \in Waiters : job.pc \in {"boot", "on_relays", "on_entities"} /\ TryWaiter(i)
    BY DEF StartLoaded, StartOnRelay, StartOnEntity, IsFirst, OnRelay, OnEntity
  <2> QED
    BY <2>1, TryWaiterNotes
<1>7. Booted => NotesKept
  <2>1. Booted => /\ job.pc = "boot" /\ job'.pc = "idle"
                  /\ UNCHANGED <<owner, freed, entityFreed, announced>>
    BY IdleFacts DEF Booted
  <2> QED
    BY <2>1 DEF NotesKept, Noted, Settled
<1>8. ToEntities => NotesKept
  <2>1. ToEntities => /\ job'.pc = "on_entities" /\ entityFreed' = FALSE
                      /\ UNCHANGED <<owner, freed, announced>>
    BY DEF ToEntities, IInv, TypeOK, Job
  <2> QED
    BY <2>1 DEF NotesKept, Noted, Settled
<1>9. Flush => NotesKept
  BY <1>1 DEF Flush
<1>10. Announce => Settled' /\ Told
  <2> SUFFICES ASSUME Announce PROVE Settled' /\ Told
    OBVIOUS
  <2>1. /\ job.pc = "on_entities" /\ job' = Idle /\ freed' = {}
        /\ announced' = {r \in freed : owner[r] = Nobody}
        /\ owner' = owner /\ entityFreed' = entityFreed
    BY DEF Announce
  <2>2. ~entityFreed
    BY <2>1 DEF Settled
  <2>3. freed \subseteq Relays
    BY DEF IInv, TypeOK
  <2> QED
    BY <2>1, <2>2, <2>3, IdleFacts DEF Settled, Told
<1>11. PowerCut => Settled' /\ Told
  <2> SUFFICES ASSUME PowerCut PROVE Settled' /\ Told
    OBVIOUS
  <2>1. freed' = {} /\ announced' = {} /\ entityFreed' = FALSE /\ job' = [Idle EXCEPT !.pc = "boot"]
    BY DEF PowerCut, Boot
  <2> QED
    BY <2>1 DEF Settled, Told
<1>12. UNCHANGED vars => NotesKept
  BY <1>1 DEF vars
<1> QED
  BY <1>2, <1>3, <1>4, <1>5, <1>6, <1>7, <1>8, <1>9, <1>10, <1>11, <1>12, TakeOverNotes,
     KeptTells DEF Next, JobStep

LEMMA InitSettled == Init => Settled
  BY IdleFacts DEF Init, Settled

(* Nothing that any call, failure or take-over lets go is lost on the way:   *)
(* it is announced before the call ends, unless someone took it meanwhile,   *)
(* and only what is free is announced.                                       *)
THEOREM EveryReleaseAnnounced == Spec => ReleasesAnnounced
<1>1. IInv /\ Settled /\ [Next]_vars => Settled'
  BY NextTells
<1>2. IInv /\ Settled /\ [Next]_vars =>
        [/\ \A r \in Relays : owner[r] # Nobody /\ owner'[r] = Nobody => r \in freed' \/ PowerCut
         /\ \A r \in freed : r \in freed' \/ r \in announced' \/ owner'[r] # Nobody \/ PowerCut
         /\ \A r \in announced' \ announced : owner'[r] = Nobody
         /\ job' = Idle => freed' = {} /\ ~entityFreed']_vars
  BY NextTells DEF Told
<1> QED
  BY <1>1, <1>2, InitSettled, Invariant, PTL DEF Spec, ReleasesAnnounced
-----------------------------------------------------------------------------
(* Nobody is forgotten *)

(* Who waits although what was noted of it is no longer so: a call that      *)
(* starts, clears the way or loops over the waiters will still come to it.   *)
FreedFor(k) == Names(docs[k]) \cap freed # {}
Pending(k) ==
  \/ job.pc = "boot" /\ k >= job.at
  \/ /\ job.pc \in {"waiters", "holders"}
     /\ \/ k = job.id
        \/ reason[k].why = "held" /\ reason[k].relay \in Names(docs[k]) \cap freed
        \/ reason[k].why = "entity" /\ entityFreed
  \/ job.pc = "on_relays" /\ k # job.id /\ k >= job.at /\ FreedFor(k)
  \/ /\ job.pc = "on_relays" \/ (job.pc = "on_entities" /\ k >= job.at)
     /\ k # job.id /\ reason[k].why = "entity" /\ job.entity
Reasoned == \A k \in Ids : Waits(k) => StillTrue(k) \/ Pending(k)

(* A relay is noted as held by another only. *)
ByOthers == \A k \in Ids : reason[k].why = "held" => reason[k].by \notin {Nobody, k}

(* The loop of load_ skips nobody. *)
BootsAll == job.pc = "boot" => job.id = Nobody

WInv == Reasoned /\ ByOthers /\ BootsAll

LEMMA StillTrueFacts ==
  ASSUME NEW k, reason[k] \in Reason
  PROVE  StillTrue(k) <=>
           \/ reason[k].why = "sensor" /\ docs[k].sensor # "ok"
           \/ reason[k].why = "entity" /\ NoSlotFree
           \/ /\ reason[k].why = "held" /\ reason[k].relay \in Names(docs[k])
              /\ owner[reason[k].relay] = reason[k].by
           \/ reason[k].why = "missing" /\ reason[k].relay \in Names(docs[k]) \ Switches
<1>1. CASE reason[k].why = "sensor" BY <1>1 DEF StillTrue
<1>2. CASE reason[k].why = "entity" BY <1>2 DEF StillTrue
<1>3. CASE reason[k].why = "held" BY <1>3 DEF StillTrue
<1>4. CASE reason[k].why = "missing" BY <1>4 DEF StillTrue
<1>5. CASE reason[k].why = "none" BY <1>5 DEF StillTrue
<1>6. reason[k].why \in Why BY DEF Reason
<1> QED
  BY <1>1, <1>2, <1>3, <1>4, <1>5, <1>6 DEF Why

(* The pool stays full while it grows. *)
LEMMA FullStays ==
  ASSUME NoSlotFree, running \subseteq running', running' \subseteq Ids
  PROVE  NoSlotFree'
<1>1. IsFiniteSet(running')
  <2>1. IsFiniteSet(Ids) BY HubAssumption, FS_Interval DEF Ids
  <2>2. QED BY <2>1, FS_Subset
<1>2. Cardinality(running) <= Cardinality(running') /\ IsFiniteSet(running)
  BY <1>1, FS_Subset
<1>3. Cardinality(running) \in Nat /\ Cardinality(running') \in Nat
  BY <1>1, <1>2, FS_CardinalityType
<1> QED
  BY <1>2, <1>3, HubAssumption DEF NoSlotFree

LEMMA StaysTrue ==
  ASSUME NEW k, reason[k] \in Reason, StillTrue(k), reason'[k] = reason[k],
         Names(docs'[k]) = Names(docs[k]), docs'[k].sensor = docs[k].sensor,
         reason[k].why = "entity" => running \subseteq running' /\ running' \subseteq Ids,
         reason[k].why = "held" => owner'[reason[k].relay] = owner[reason[k].relay]
  PROVE  StillTrue(k)'
<1>1. CASE reason[k].why = "sensor" BY <1>1 DEF StillTrue
<1>2. CASE reason[k].why = "entity" BY <1>2, FullStays DEF StillTrue
<1>3. CASE reason[k].why = "held" BY <1>3 DEF StillTrue
<1>4. CASE reason[k].why = "missing" BY <1>4 DEF StillTrue
<1>5. CASE reason[k].why = "none" BY <1>5 DEF StillTrue
<1>6. reason[k].why \in Why BY DEF Reason
<1> QED
  BY <1>1, <1>2, <1>3, <1>4, <1>5, <1>6 DEF Why

(* What keeps a thermostat from starting is so. *)
LEMMA ObstacleFacts ==
  ASSUME NEW i, NEW d \in Doc, NEW o, o = StartObstacle(i, d) \/ o = RestartObstacle(i, d)
  PROVE  \/ o = NoReason
         \/ o.why = "sensor" /\ d.sensor # "ok"
         \/ o.why = "entity" /\ NoSlotFree
         \/ o.why = "held" /\ o.relay \in Names(d) /\ o.by = owner[o.relay] /\ o.by \notin {Nobody, i}
         \/ o.why = "missing" /\ o.relay \in Names(d) \ Switches
<1>1. /\ Because("sensor").why = "sensor" /\ Because("entity").why = "entity"
  BY DEF Because
<1>2. ASSUME NEW r, r \in Names(d) \/ r = NoRelay, NEW c, c = ClaimObstacle(i, r)
      PROVE  \/ c = NoReason
             \/ c.why = "held" /\ c.relay \in Names(d) /\ c.by = owner[c.relay] /\ c.by \notin {Nobody, i}
             \/ c.why = "missing" /\ c.relay \in Names(d) \ Switches
  BY <1>2 DEF ClaimObstacle
<1>3. d.heat \in Names(d) \/ d.heat = NoRelay
  BY DEF Names
<1>4. d.cool \in Names(d) \/ d.cool = NoRelay
  BY DEF Names
<1>5. ASSUME NEW c, c = ClaimsObstacle(i, d)
      PROVE  \/ c = NoReason
             \/ c.why = "held" /\ c.relay \in Names(d) /\ c.by = owner[c.relay] /\ c.by \notin {Nobody, i}
             \/ c.why = "missing" /\ c.relay \in Names(d) \ Switches
  BY <1>2, <1>3, <1>4, <1>5 DEF ClaimsObstacle
<1> QED
  BY <1>1, <1>5 DEF StartObstacle, RestartObstacle

(* So whoever does not start knows why. *)
LEMMA StartsOrKnows ==
  ASSUME TypeOK, NEW i \in Ids, NEW d \in Doc, Start(i, d), docs'[i] = d
  PROVE  /\ i \in running' \/ StillTrue(i)'
         /\ reason'[i].why = "held" => reason'[i].by \notin {Nobody, i}
         /\ \A k \in Ids \ {i} : reason'[k] = reason[k]
<1>1. PICK o : o = StartObstacle(i, d)
  OBVIOUS
<1>2. reason'[i] = o /\ \A k \in Ids \ {i} : reason'[k] = reason[k]
  BY <1>1 DEF Start, StoreReason, TypeOK
<1>3. CASE o = NoReason
  <2>1. i \in running' /\ o.why = "none"
    BY <1>1, <1>3 DEF Start, NoReason, Because
  <2> QED
    BY <1>2, <2>1
<1>4. CASE o # NoReason
  <2>1. running' = running /\ (owner' = owner \/ owner' = LetGoAll(i))
    BY <1>1, <1>4 DEF Start
  <2>2. NoSlotFree' = NoSlotFree
    BY <2>1 DEF NoSlotFree
  <2>3. Names(d) \subseteq Relays
    BY DEF Names, Doc
  <2>4. \A r \in Names(d) : owner[r] # i => owner'[r] = owner[r]
    BY <2>1, <2>3 DEF LetGoAll
  <2>5. \/ o.why = "sensor" /\ d.sensor # "ok"
        \/ o.why = "entity" /\ NoSlotFree
        \/ o.why = "held" /\ o.relay \in Names(d) /\ o.by = owner[o.relay] /\ o.by \notin {Nobody, i}
        \/ o.why = "missing" /\ o.relay \in Names(d) \ Switches
    BY <1>1, <1>4, ObstacleFacts
  <2>6. StillTrue(i)'
    BY <1>2, <2>2, <2>4, <2>5 DEF StillTrue
  <2> QED
    BY <1>2, <2>5, <2>6
<1> QED
  BY <1>3, <1>4

LEMMA RestartsOrKnows ==
  ASSUME TypeOK, ByOthers, NEW i \in Ids, i \in running, NEW d \in Doc, Restart(i, d), docs'[i] = d
  PROVE  /\ i \in running' \/ StillTrue(i)'
         /\ reason'[i].why = "held" => reason'[i].by \notin {Nobody, i}
         /\ \A k \in Ids \ {i} : reason'[k] = reason[k]
         /\ running' = running \/ entityFreed'
<1>1. PICK o : o = RestartObstacle(i, d)
  OBVIOUS
<1>2. CASE o = NoReason
  BY <1>1, <1>2 DEF Restart, ByOthers
<1>3. CASE o # NoReason
  <2>1. /\ running' = running \ {i} /\ owner' = LetGoAll(i) /\ entityFreed'
        /\ reason'[i] = o /\ \A k \in Ids \ {i} : reason'[k] = reason[k]
    BY <1>1, <1>3 DEF Restart, Stop, StoreReason, TypeOK
  <2>2. Names(d) \subseteq Relays
    BY DEF Names, Doc
  <2>3. \A r \in Names(d) : owner[r] # i => owner'[r] = owner[r]
    BY <2>1, <2>2 DEF LetGoAll
  <2>4. o.why # "entity"
    <3>1. \A r : ClaimObstacle(i, r).why # "entity"
      BY DEF ClaimObstacle, NoReason, Because
    <3> QED
      BY <1>1, <3>1 DEF RestartObstacle, ClaimsObstacle, Because
  <2>5. \/ o.why = "sensor" /\ d.sensor # "ok"
        \/ o.why = "held" /\ o.relay \in Names(d) /\ o.by = owner[o.relay] /\ o.by \notin {Nobody, i}
        \/ o.why = "missing" /\ o.relay \in Names(d) \ Switches
    BY <1>1, <1>3, <2>4, ObstacleFacts
  <2>6. StillTrue(i)'
    BY <2>1, <2>3, <2>5 DEF StillTrue
  <2> QED
    BY <2>1, <2>5, <2>6
<1> QED
  BY <1>2, <1>3

(* Between two calls nobody is pending. *)
LEMMA IdleReasons == ASSUME WInv, job = Idle, NEW k \in Ids, Waits(k) PROVE StillTrue(k)
  BY IdleFacts DEF WInv, Reasoned, Pending

(* A waiting thermostat whose document and reason a step leaves alone, the   *)
(* relay it waits for included.                                              *)
LEMMA HeldRelay ==
  ASSUME TypeOK, ByOthers, NEW k \in Ids, Waits(k), StillTrue(k), reason[k].why = "held"
  PROVE  /\ reason[k].relay \in Relays /\ reason[k].relay \in Names(docs[k])
         /\ owner[reason[k].relay] \notin {Nobody, k}
<1>1. reason[k].relay \in Names(docs[k]) /\ owner[reason[k].relay] = reason[k].by
  BY DEF StillTrue
<1> QED
  BY <1>1, StoredFacts DEF ByOthers, Waits, Enabled

(* The calls that end in start_waiters_, about one thermostat. *)
LEMMA CallReasons ==
  ASSUME TypeOK, TypeOK', ByOthers, NEW i \in Ids, NEW skip \in {i, Nobody}, ThenWaiters(skip),
         \A k \in Ids \ {i} : /\ docs'[k] = docs[k] /\ reason'[k] = reason[k]
                              /\ k \in running' => k \in running
                              /\ k \in running => k \in running',
         \A k \in Ids \ {i} : Waits(k) => \/ StillTrue(k)
                                          \/ reason[k].why = "held" /\ FreedFor(k)
                                          \/ reason[k].why = "entity" /\ entityFreed,
         Noted, NoneTaken, entityFreed => entityFreed', i \in running => i \in running' \/ entityFreed',
         Waits(i)' => skip = i /\ StillTrue(i)', reason'[i].why = "held" => reason'[i].by \notin {Nobody, i}
  PROVE  WInv'
<1>1. job'.pc = "on_relays" /\ job'.id = skip /\ job'.at = 1 /\ job'.entity = entityFreed'
  BY DEF ThenWaiters
<1>2. ByOthers'
  BY DEF ByOthers
<1>3. ASSUME NEW k \in Ids \ {i}, Waits(k)'
      PROVE  StillTrue(k)' \/ Pending(k)'
  <2>1. Waits(k) /\ k # skip /\ k >= 1
    BY <1>3, IdFacts DEF Waits, Enabled, Stored, Ids
  <2>2. reason[k] \in Reason
    BY DEF TypeOK
  <2>3. FreedFor(k) => FreedFor(k)'
    BY DEF FreedFor, Noted
  <2>4. CASE FreedFor(k)'
    BY <1>1, <2>1, <2>4 DEF Pending
  <2>5. CASE reason[k].why = "entity" /\ entityFreed'
    BY <1>1, <2>1, <2>5 DEF Pending
  <2>6. CASE ~FreedFor(k)' /\ ~(reason[k].why = "entity" /\ entityFreed')
    <3>1. StillTrue(k)
      BY <2>1, <2>3, <2>6
    <3>2. reason[k].why = "held" => owner'[reason[k].relay] = owner[reason[k].relay]
      <4> SUFFICES ASSUME reason[k].why = "held" PROVE owner'[reason[k].relay] = owner[reason[k].relay]
        OBVIOUS
      <4>1. /\ reason[k].relay \in Relays /\ reason[k].relay \in Names(docs'[k])
            /\ owner[reason[k].relay] # Nobody
        BY <2>1, <3>1, HeldRelay
      <4>2. reason[k].relay \notin freed'
        BY <2>6, <4>1 DEF FreedFor
      <4> QED
        BY <4>1, <4>2 DEF Noted, NoneTaken
    <3>3. reason[k].why = "entity" => running \subseteq running' /\ running' \subseteq Ids
      BY <2>6 DEF TypeOK
    <3> QED
      BY <2>2, <3>1, <3>2, <3>3, StaysTrue
  <2> QED
    BY <2>4, <2>5, <2>6
<1> QED
  BY <1>1, <1>2, <1>3 DEF WInv, Reasoned, BootsAll

(* A call that ends at once: the reasons of the others stay true. *)
LEMMA AddReasons ==
  ASSUME IInv, TypeOK', WInv, job = Idle, NEW i \in Ids, NEW d \in Drafts, Add(i, d)
  PROVE  WInv'
<1>1. /\ TypeOK /\ ClaimsMatch /\ job.pc = "idle" /\ ~Stored(i) /\ d \in Doc /\ job' = job
      /\ docs'[i] = d /\ \A j \in Ids \ {i} : docs'[j] = docs[j]
  BY IdleFacts, DraftFacts DEF IInv, Add, TypeOK
<1>2. i \notin running /\ \A r \in Relays : owner[r] # i
  <2>1. i \notin running
    BY <1>1, ClaimsFacts DEF Stored
  <2> QED
    BY <1>1, <2>1, Unheld
<1>3. CASE d.enabled
  <2>1. Start(i, d)
    BY <1>3 DEF Add
  <2>2. /\ running \subseteq running' /\ running' \subseteq Ids /\ running' \subseteq running \cup {i}
        /\ \A r \in Relays : owner[r] # Nobody => owner'[r] = owner[r]
    BY <1>1, <1>2, <2>1, StartFacts DEF LetGoBy
  <2>3. /\ i \in running' \/ StillTrue(i)'
        /\ reason'[i].why = "held" => reason'[i].by \notin {Nobody, i}
        /\ \A k \in Ids \ {i} : reason'[k] = reason[k]
    BY <1>1, <2>1, StartsOrKnows
  <2>4. ASSUME NEW k \in Ids \ {i}, Waits(k)'
        PROVE  StillTrue(k)'
    <3>1. Waits(k)
      BY <1>1, <2>2, <2>4 DEF Waits, Enabled, Stored
    <3>2. StillTrue(k) /\ reason[k] \in Reason
      BY <1>1, <3>1, IdleReasons DEF TypeOK
    <3>3. reason[k].why = "held" => owner'[reason[k].relay] = owner[reason[k].relay]
      BY <1>1, <2>2, <3>1, <3>2, HeldRelay DEF WInv
    <3> QED
      BY <1>1, <2>2, <2>3, <3>2, <3>3, StaysTrue
  <2> QED
    BY <1>1, <2>3, <2>4 DEF WInv, Reasoned, ByOthers, BootsAll, Waits
<1>4. CASE ~d.enabled
  <2>1. UNCHANGED <<running, owner, reason>>
    BY <1>4 DEF Add
  <2>2. ASSUME NEW k \in Ids, Waits(k)'
        PROVE  StillTrue(k)'
    <3>1. k # i /\ Waits(k)
      BY <1>1, <1>4, <2>1, <2>2 DEF Waits, Enabled, Stored
    <3>2. StillTrue(k) /\ reason[k] \in Reason /\ running' \subseteq Ids
      BY <1>1, <2>1, <3>1, IdleReasons DEF TypeOK
    <3> QED
      BY <1>1, <2>1, <3>1, <3>2, StaysTrue
  <2> QED
    BY <1>1, <2>1, <2>2 DEF WInv, Reasoned, ByOthers, BootsAll
<1> QED
  BY <1>3, <1>4

LEMMA ReplaceReasons ==
  ASSUME IInv, TypeOK', WInv, Settled, job = Idle, NEW i \in Ids, NEW d \in Drafts, Replace(i, d)
  PROVE  WInv'
<1>1. /\ TypeOK /\ ClaimsMatch /\ d \in Doc /\ ThenWaiters(i) /\ ByOthers
      /\ docs'[i] = d /\ \A j \in Ids \ {i} : docs'[j] = docs[j]
  BY IdleFacts, DraftFacts DEF IInv, Replace, TypeOK, WInv
<1>2. NoneTaken /\ ~entityFreed
  BY ReplaceTakesNone, IdleFacts DEF Settled
<1>3. Noted
  BY CallNotes DEF NotesKept
<1>4. \A k \in Ids \ {i} : Waits(k) => StillTrue(k)
  BY IdleReasons
<1>5. NoReason.why = "none"
  BY DEF NoReason, Because
<1>6. /\ \A k \in Ids \ {i} : /\ reason'[k] = reason[k]
                              /\ k \in running' => k \in running
                              /\ k \in running => k \in running'
      /\ i \in running => i \in running' \/ entityFreed'
      /\ Waits(i)' => StillTrue(i)'
      /\ reason'[i].why = "held" => reason'[i].by \notin {Nobody, i}
  <2>1. CASE ~d.enabled
    <3>1. /\ StoreReason(i, NoReason) /\ ~Waits(i)'
          /\ Stop(i) \/ (i \notin running /\ running' = running)
      BY <1>1, <2>1 DEF Replace, Waits, Enabled
    <3> QED
      BY <1>1, <1>5, <3>1 DEF StoreReason, TypeOK, Stop
  <2>2. CASE i \in running /\ d.enabled
    <3>1. Restart(i, d)
      BY <2>2 DEF Replace
    <3>2. \A k \in Ids \ {i} : k \in running' <=> k \in running
      BY <1>1, <3>1, RestartFacts
    <3> QED
      BY <1>1, <2>2, <3>1, <3>2, RestartsOrKnows DEF Waits
  <2>3. CASE i \notin running /\ d.enabled
    <3>1. Start(i, d)
      BY <2>3 DEF Replace
    <3>2. \A k \in Ids \ {i} : k \in running' <=> k \in running
      BY <1>1, <3>1, StartFacts
    <3> QED
      BY <1>1, <2>3, <3>1, <3>2, StartsOrKnows DEF Waits
  <2> QED
    BY <2>1, <2>2, <2>3
<1> QED
  BY <1>1, <1>2, <1>3, <1>4, <1>6, CallReasons

LEMMA StopReasons ==
  ASSUME IInv, TypeOK', WInv, Settled, NEW i \in Ids, Remove(i) \/ Disable(i)
  PROVE  WInv'
<1>0. TypeOK /\ job = Idle /\ job.pc = "idle"
  BY IdleFacts DEF IInv, Remove, Disable
<1>1. PICK skip \in {i, Nobody} : ThenWaiters(skip)
  BY DEF Remove, Disable
<1>2. NoneTaken /\ Noted /\ ~entityFreed
  BY <1>0, StopsTakeNone, StopCallNotes DEF NotesKept, Settled
<1>3. \A k \in Ids \ {i} : docs'[k] = docs[k]
  BY <1>0 DEF Remove, Disable, TypeOK
<1>4. ~Waits(i)'
  <2>1. CASE Remove(i)
    BY <1>0, <2>1 DEF Remove, Waits, Enabled, Stored, TypeOK
  <2>2. CASE Disable(i) /\ docs[i].enabled
    <3>1. docs[i] \in Doc
      BY <1>0, <2>2, StoredFacts DEF Disable
    <3>2. docs'[i] = [docs[i] EXCEPT !.enabled = FALSE]
      BY <1>0, <2>2 DEF Disable, TypeOK
    <3>3. docs'[i].enabled = FALSE
      BY <3>1, <3>2, FlagSet DEF Doc
    <3> QED
      BY <3>3 DEF Waits, Enabled
  <2>3. CASE Disable(i) /\ ~docs[i].enabled
    BY <2>3 DEF Disable, Waits, Enabled
  <2> QED
    BY <2>1, <2>2, <2>3
<1>5. /\ \A k \in Ids \ {i} : /\ reason'[k] = reason[k]
                              /\ k \in running' => k \in running
                              /\ k \in running => k \in running'
      /\ i \in running => i \in running' \/ entityFreed'
  <2>1. Stop(i) \/ (i \notin running /\ running' = running)
    BY DEF Remove, Disable
  <2>2. StoreReason(i, NoReason)
    BY DEF Remove, Disable
  <2> QED
    BY <1>0, <2>1, <2>2 DEF Stop, StoreReason, TypeOK
<1>6. reason'[i].why # "held"
  BY <1>0 DEF Remove, Disable, StoreReason, NoReason, Because, TypeOK
<1>7. \A k \in Ids \ {i} : Waits(k) => StillTrue(k)
  BY <1>0, IdleReasons
<1> QED
  BY <1>0, <1>1, <1>2, <1>3, <1>4, <1>5, <1>6, <1>7, CallReasons DEF WInv

(* Past the holders, the one that takes over starts or knows why not. *)
LEMMA StartEnabledReasons ==
  ASSUME IInv, TypeOK', WInv, StartEnabled
  PROVE  WInv'
<1>1. TypeOK /\ ByOthers /\ job.pc = "holders"
  BY DEF IInv, WInv, StartEnabled
<1>2. PICK i, d : /\ i \in Ids /\ i = job.id /\ Stored(i) /\ i \notin running
                  /\ d = [docs[i] EXCEPT !.enabled = TRUE] /\ Start(i, d) /\ ThenWaiters(i)
  BY <1>1 DEF IInv, TakeOver, StartEnabled
<1>3. docs[i] \in Doc
  BY <1>1, <1>2, StoredFacts
<1>4. d \in Doc
  <2>1. PICK on \in BOOLEAN : on = TRUE
    OBVIOUS
  <2> QED
    BY <1>2, <1>3, <2>1, FlagSet
<1>5. docs'[i] = d /\ \A k \in Ids \ {i} : docs'[k] = docs[k]
  <2>1. CASE docs[i].enabled
    <3>1. docs[i] = d
      <4>1. docs[i].enabled = TRUE
        BY <1>3, <2>1 DEF Doc
      <4> QED
        BY <1>2, <1>3, <4>1 DEF Doc
    <3> QED
      BY <1>2, <2>1, <3>1 DEF StartEnabled
  <2>2. CASE ~docs[i].enabled
    BY <1>1, <1>2, <2>2 DEF StartEnabled, TypeOK
  <2> QED
    BY <2>1, <2>2
<1>6. NoneTaken /\ Noted /\ entityFreed' = entityFreed
  BY <1>2, StartEnabledTakesNone, StartNotes
<1>7. /\ i \in running' \/ StillTrue(i)'
      /\ reason'[i].why = "held" => reason'[i].by \notin {Nobody, i}
      /\ \A k \in Ids \ {i} : reason'[k] = reason[k]
  BY <1>1, <1>2, <1>4, <1>5, StartsOrKnows
<1>8. \A k \in Ids \ {i} : k \in running' <=> k \in running
  BY <1>1, <1>2, <1>4, StartFacts
<1>9. \A k \in Ids \ {i} : Waits(k) => \/ StillTrue(k)
                                       \/ reason[k].why = "held" /\ FreedFor(k)
                                       \/ reason[k].why = "entity" /\ entityFreed
  BY <1>1, <1>2 DEF WInv, Reasoned, Pending, FreedFor
<1> QED
  BY <1>1, <1>2, <1>5, <1>6, <1>7, <1>8, <1>9, CallReasons DEF Waits

(* The loops over the waiters: the one tried starts or knows why not, and    *)
(* those after it are still to come.                                         *)
LEMMA TryReasons ==
  ASSUME IInv, WInv, NEW i \in Waiters, TryWaiter(i),
         \/ job.pc = "boot" /\ IsFirst(i, Waiters)
         \/ job.pc = "on_relays" /\ IsFirst(i, OnRelay)
         \/ job.pc = "on_entities" /\ IsFirst(i, OnEntity)
  PROVE  WInv'
<1>1. /\ TypeOK /\ ClaimsMatch /\ ByOthers /\ i \in Ids /\ Stored(i) /\ i \notin running
      /\ Start(i, docs[i]) /\ docs' = docs
  BY DEF IInv, WInv, Waiters, Waits, Enabled, TryWaiter
<1>2. docs[i] \in Doc /\ HeldBy(i) = {} /\ \A r \in Relays : owner[r] # i
  BY <1>1, StoredFacts, Unheld
<1>3. /\ running \subseteq running' /\ running' \subseteq Ids /\ running' \subseteq running \cup {i}
      /\ \A r \in Relays : owner[r] # Nobody => owner'[r] = owner[r]
  BY <1>1, <1>2, StartFacts DEF LetGoBy
<1>4. /\ i \in running' \/ StillTrue(i)'
      /\ reason'[i].why = "held" => reason'[i].by \notin {Nobody, i}
      /\ \A k \in Ids \ {i} : reason'[k] = reason[k]
  BY <1>1, <1>2, StartsOrKnows
<1>5. freed' = freed
  BY <1>1, <1>2, StartNotes
<1>6. job'.pc = job.pc /\ job'.id = job.id /\ job'.entity = job.entity /\ job'.at = i + 1
  BY <1>1 DEF TryWaiter, TypeOK, Job
<1>7. ASSUME NEW k \in Ids \ {i}, Waits(k)'
      PROVE  StillTrue(k)' \/ Pending(k)'
  <2>1. Waits(k)
    BY <1>1, <1>3, <1>7 DEF Waits, Enabled, Stored
  <2>2. CASE StillTrue(k)
    <3>1. reason[k] \in Reason
      BY <1>1 DEF TypeOK
    <3>2. reason[k].why = "held" => owner'[reason[k].relay] = owner[reason[k].relay]
      BY <1>1, <1>3, <2>1, <2>2, HeldRelay
    <3> QED
      BY <1>1, <1>3, <1>4, <2>2, <3>1, <3>2, StaysTrue
  <2>3. CASE Pending(k)
    <3>1. \A S : IsFirst(i, S) /\ k \in S => k >= i + 1
      BY <1>1 DEF IsFirst, Ids
    <3>2. CASE job.pc = "boot" /\ k >= job.at
      <4>1. k \in Waiters
        BY <2>1, <3>2, IdFacts DEF Waiters, WInv, BootsAll
      <4> QED
        BY <1>6, <3>1, <3>2, <4>1 DEF Pending
    <3>3. CASE job.pc = "on_relays" /\ k # job.id /\ k >= job.at /\ FreedFor(k)
      <4>1. k \in OnRelay
        BY <2>1, <3>3 DEF Waiters, OnRelay, FreedFor
      <4> QED
        BY <1>1, <1>5, <1>6, <3>1, <3>3, <4>1 DEF Pending, FreedFor
    <3>4. CASE job.pc = "on_relays" /\ k # job.id /\ reason[k].why = "entity" /\ job.entity
      BY <1>4, <1>6, <3>4 DEF Pending
    <3>5. CASE job.pc = "on_entities" /\ k >= job.at /\ k # job.id /\ reason[k].why = "entity" /\ job.entity
      <4>1. k \in OnEntity
        BY <2>1, <3>5 DEF Waiters, OnEntity
      <4> QED
        BY <1>4, <1>6, <3>1, <3>5, <4>1 DEF Pending
    <3> QED
      BY <2>3, <3>2, <3>3, <3>4, <3>5 DEF Pending
  <2> QED
    BY <2>1, <2>2, <2>3 DEF WInv, Reasoned
<1>8. Waits(i)' => StillTrue(i)'
  BY <1>4 DEF Waits
<1>9. ByOthers' /\ BootsAll'
  BY <1>4, <1>6 DEF WInv, ByOthers, BootsAll
<1> QED
  BY <1>7, <1>8, <1>9 DEF WInv, Reasoned

LEMMA EnableReasons ==
  ASSUME IInv, WInv, NEW i \in Ids, NEW takeOver \in BOOLEAN, Enable(i, takeOver)
  PROVE  WInv'
<1>1. job = Idle /\ UNCHANGED <<docs, running, owner, reason>> /\ job'.pc \in {"waiters", "holders"}
  BY IdleFacts DEF Enable, Idle
<1>2. \A k \in Ids : Waits(k) => StillTrue(k)
  BY <1>1, IdleReasons
<1> QED
  BY <1>1, <1>2 DEF WInv, Reasoned, ByOthers, BootsAll, StillTrue, Waits, Enabled, Stored, NoSlotFree

(* A step of a take-over that stops or disables one in the way, j. *)
LEMMA DisabledReasons ==
  ASSUME IInv, TypeOK', WInv, NEW i \in Ids, NEW j \in Ids, Stored(j), StoreDisabled(j, i),
         job.pc \in {"waiters", "holders"}, i = job.id, job' = job, freed \subseteq freed',
         running' = running \/ (entityFreed' /\ running' = running \ {j}), entityFreed => entityFreed',
         \A k \in Ids \ {i, j}, r \in Relays :
           Waits(k) /\ r \in Names(docs[k]) /\ owner[r] # Nobody => owner'[r] = owner[r] \/ r \in freed'
  PROVE  WInv'
<1>1. TypeOK /\ ByOthers
  BY DEF IInv, WInv
<1>2. ~docs'[j].enabled /\ \A k \in Ids \ {j} : docs'[k] = docs[k]
  BY <1>1, StoreDisabledFacts
<1>3. reason'[j].why # "held" /\ \A k \in Ids \ {j} : reason'[k] = reason[k]
  BY <1>1 DEF StoreDisabled, StoreReason, NoReason, Because, TypeOK
<1>4. ASSUME NEW k \in Ids \ {i, j}, Waits(k)'
      PROVE  StillTrue(k)' \/ Pending(k)'
  <2>1. Waits(k) /\ docs'[k] = docs[k] /\ reason'[k] = reason[k] /\ reason[k] \in Reason
    BY <1>1, <1>2, <1>3, <1>4 DEF Waits, Enabled, Stored, TypeOK
  <2>2. CASE Pending(k)
    BY <2>1, <2>2 DEF Pending
  <2>3. CASE StillTrue(k) /\ ~Pending(k)'
    <3>1. reason[k].why = "held" => owner'[reason[k].relay] = owner[reason[k].relay]
      BY <1>1, <2>1, <2>3, HeldRelay DEF Pending
    <3>2. reason[k].why = "entity" => running \subseteq running' /\ running' \subseteq Ids
      BY <2>1, <2>3 DEF Pending, TypeOK
    <3> QED
      BY <2>1, <2>3, <3>1, <3>2, StaysTrue
  <2> QED
    BY <2>1, <2>2, <2>3 DEF WInv, Reasoned
<1>5. ~Waits(j)' /\ Pending(i)'
  BY <1>2 DEF Waits, Enabled, Pending
<1>6. ByOthers' /\ BootsAll'
  BY <1>1, <1>3 DEF ByOthers, BootsAll
<1> QED
  BY <1>4, <1>5, <1>6 DEF WInv, Reasoned

LEMMA TakeOverReasons ==
  ASSUME IInv, TypeOK', WInv, DisableWaiter \/ DisableHolder
  PROVE  WInv'
<1>1. CASE DisableWaiter
  <2>1. job.pc = "waiters" /\ UNCHANGED <<running, owner, freed, entityFreed, job>> /\ job.id \in Ids
    BY <1>1 DEF DisableWaiter, IInv, TakeOver
  <2>2. PICK j \in Ids : IsFirst(j, Claimants) /\ StoreDisabled(j, job.id)
    BY <1>1 DEF DisableWaiter
  <2>3. Stored(j)
    BY <2>2 DEF IsFirst, Claimants, Reservers, Waits, Enabled
  <2> QED
    BY <2>1, <2>2, <2>3, DisabledReasons
<1>2. CASE DisableHolder
  <2>1. job.pc = "holders" /\ job' = job /\ entityFreed' = TRUE
    BY <1>2 DEF DisableHolder
  <2>2. PICK i, j \in Ids :
          /\ i = job.id /\ i # j /\ j \in running /\ StoreDisabled(j, i)
          /\ running' = running \ {j}
          /\ \A r \in Relays : owner'[r] = IF owner[r] # j THEN owner[r]
                                           ELSE IF r \in Names(docs[i]) THEN i ELSE Nobody
          /\ freed' = freed \cup (HeldBy(j) \ Names(docs[i]))
    BY <1>2, DisableHolderFacts
  <2>3. Stored(j)
    BY <2>2, ClaimsFacts DEF IInv, Stored
  <2>4. ASSUME NEW k \in Ids \ {i, j}, NEW r \in Relays, Waits(k), r \in Names(docs[k])
        PROVE  owner'[r] = owner[r] \/ r \in freed'
    <3>1. r \notin Names(docs[i])
      BY <2>1, <2>2, <2>4 DEF IInv, WaitersCleared
    <3> QED
      BY <2>2, <3>1 DEF HeldBy
  <2> QED
    BY <2>1, <2>2, <2>3, <2>4, DisabledReasons
<1> QED
  BY <1>1, <1>2

(* The steps between the loops of a call, and those that leave reasons and   *)
(* claims alone.                                                             *)
LEMMA ReasonsStay ==
  ASSUME IInv, WInv, UNCHANGED <<running, owner, reason>>,
         \A k \in Ids : Stored(k)' => /\ Stored(k) /\ Names(docs'[k]) = Names(docs[k])
                                     /\ docs'[k].enabled = docs[k].enabled /\ docs'[k].sensor = docs[k].sensor,
         \A k \in Ids : Waits(k) /\ Pending(k) => StillTrue(k) \/ Pending(k)',
         job'.pc = "boot" => job'.id = Nobody
  PROVE  WInv'
<1>1. ASSUME NEW k \in Ids, Waits(k)'
      PROVE  StillTrue(k)' \/ Pending(k)'
  <2>1. Waits(k)
    BY <1>1 DEF Waits, Enabled
  <2>2. StillTrue(k) => StillTrue(k)'
    <3>1. reason[k] \in Reason /\ running' \subseteq Ids
      BY DEF IInv, TypeOK
    <3> QED
      BY <1>1, <2>1, <3>1, StaysTrue DEF Waits, Enabled
  <2> QED
    BY <2>1, <2>2 DEF WInv, Reasoned
<1> QED
  BY <1>1 DEF WInv, Reasoned, ByOthers, BootsAll

LEMMA LoopReasons ==
  ASSUME IInv, WInv, ToHolders \/ ToEntities \/ Announce \/ Booted
  PROVE  WInv'
<1>1. UNCHANGED <<docs, running, owner, reason>> /\ job \in Job
  BY DEF ToHolders, ToEntities, Announce, Booted, IInv, TypeOK
<1>2. \A k \in Ids : /\ (Stored(k)' <=> Stored(k)) /\ Names(docs'[k]) = Names(docs[k])
                    /\ docs'[k].enabled = docs[k].enabled /\ docs'[k].sensor = docs[k].sensor
  BY <1>1 DEF Stored
<1>3. CASE ToHolders
  <2>1. /\ job.pc = "waiters" /\ job'.pc = "holders" /\ job'.id = job.id
        /\ freed' = freed /\ entityFreed' = entityFreed
    BY <1>1, <1>3 DEF ToHolders, Job
  <2>2. \A k \in Ids : Pending(k) => Pending(k)'
    BY <1>1, <2>1 DEF Pending
  <2> QED
    BY <1>1, <1>2, <2>1, <2>2, ReasonsStay
<1>4. CASE ToEntities
  <2>1. /\ job.pc = "on_relays" /\ OnRelay = {} /\ job' = [job EXCEPT !.pc = "on_entities", !.at = 1]
    BY <1>4 DEF ToEntities
  <2>2. /\ job'.pc = "on_entities" /\ job'.at = 1 /\ job'.id = job.id /\ job'.entity = job.entity
    BY <1>1, <2>1 DEF Job
  <2>3. \A k \in Ids : Waits(k) /\ Pending(k) => Pending(k)'
    <3> SUFFICES ASSUME NEW k \in Ids, Waits(k), Pending(k) PROVE Pending(k)'
      OBVIOUS
    <3>1. ~(k # job.id /\ k >= job.at /\ FreedFor(k))
      BY <2>1 DEF OnRelay, Waiters, FreedFor
    <3>2. k >= 1
      BY DEF Ids
    <3> QED
      BY <1>1, <2>1, <2>2, <3>1, <3>2 DEF Pending
  <2> QED
    BY <1>1, <1>2, <2>2, <2>3, ReasonsStay
<1>5. CASE Announce
  <2>1. job.pc = "on_entities" /\ job'.pc = "idle" /\ ~MoreOnEntities
    BY <1>5, IdleFacts DEF Announce
  <2>2. \A k \in Ids : Waits(k) /\ Pending(k) => StillTrue(k)
    <3> SUFFICES ASSUME NEW k \in Ids, Waits(k), Pending(k) PROVE StillTrue(k)
      OBVIOUS
    <3>1. k \in OnEntity /\ job.entity /\ reason[k].why = "entity"
      BY <2>1 DEF Pending, OnEntity, Waiters
    <3>2. NoSlotFree
      BY <2>1, <3>1 DEF MoreOnEntities
    <3> QED
      BY <3>1, <3>2 DEF StillTrue
  <2> QED
    BY <1>1, <1>2, <2>1, <2>2, ReasonsStay
<1>6. CASE Booted
  <2>1. job.pc = "boot" /\ job'.pc = "idle" /\ Waiters = {}
    BY <1>6, IdleFacts DEF Booted
  <2>2. \A k \in Ids : Waits(k) => ~Pending(k)
    BY <2>1, IdFacts DEF Pending, Waiters, WInv, BootsAll
  <2> QED
    BY <1>1, <1>2, <2>1, <2>2, ReasonsStay
<1> QED
  BY <1>3, <1>4, <1>5, <1>6

LEMMA OtherReasons ==
  ASSUME IInv, WInv, job = Idle, job' = job, UNCHANGED <<running, owner, reason>>,
         docs' = docs \/ \E i \in Ids, t \in Targets : SetTarget(i, t)
  PROVE  WInv'
<1>1. \A k \in Ids : ~Pending(k)
  BY IdleFacts DEF Pending
<1>2. CASE docs' = docs
  <2>1. \A k \in Ids : /\ (Stored(k)' <=> Stored(k)) /\ Names(docs'[k]) = Names(docs[k])
                      /\ docs'[k].enabled = docs[k].enabled /\ docs'[k].sensor = docs[k].sensor
    BY <1>2 DEF Stored
  <2> QED
    BY <1>1, <2>1, IdleFacts, ReasonsStay
<1>3. ASSUME NEW i \in Ids, NEW t \in Targets, SetTarget(i, t)
      PROVE  WInv'
  <2>1. Stored(i) /\ docs[i] \in Doc /\ docs \in [Ids -> Doc \cup {NoDoc}]
    BY <1>3, StoredFacts DEF SetTarget, IInv, TypeOK
  <2>2. PICK d : d = [docs[i] EXCEPT !.target = t]
    OBVIOUS
  <2>3. d.enabled = docs[i].enabled /\ d.sensor = docs[i].sensor /\ Names(d) = Names(docs[i])
    BY <2>1, <2>2, TargetSet DEF Names
  <2>4. docs'[i] = d /\ \A k \in Ids \ {i} : docs'[k] = docs[k]
    BY <1>3, <2>1, <2>2 DEF SetTarget
  <2>5. ASSUME NEW k \in Ids, Stored(k)'
        PROVE  /\ Stored(k) /\ Names(docs'[k]) = Names(docs[k])
               /\ docs'[k].enabled = docs[k].enabled /\ docs'[k].sensor = docs[k].sensor
    BY <2>1, <2>3, <2>4, <2>5 DEF Stored
  <2> QED
    BY <1>1, <2>5, IdleFacts, ReasonsStay
<1> QED
  BY <1>2, <1>3

(* A boot has nobody running and everybody still to try. *)
LEMMA BootReasons ==
  ASSUME job' = [Idle EXCEPT !.pc = "boot"], reason' = [i \in Ids |-> NoReason]
  PROVE  WInv'
<1>1. job'.pc = "boot" /\ job'.at = 1 /\ job'.id = Nobody
  BY DEF Idle, Nobody
<1>2. \A k \in Ids : k >= 1 /\ reason'[k].why # "held"
  BY DEF Ids, NoReason, Because
<1> QED
  BY <1>1, <1>2 DEF WInv, Reasoned, ByOthers, BootsAll, Pending

LEMMA InitReasons == Init => WInv
<1> SUFFICES ASSUME Init PROVE WInv
  OBVIOUS
<1>1. job.pc = "boot" /\ job.at = 1 /\ job.id = Nobody
  BY DEF Init, Idle, Nobody
<1>2. \A k \in Ids : k >= 1 /\ reason[k].why # "held"
  BY DEF Init, Ids, NoReason, Because
<1> QED
  BY <1>1, <1>2 DEF WInv, Reasoned, ByOthers, BootsAll, Pending

LEMMA NextReasons == IInv /\ Settled /\ WInv /\ [Next]_vars => WInv'
<1> SUFFICES ASSUME IInv, Settled, WInv, [Next]_vars PROVE WInv'
  OBVIOUS
<1>0. TypeOK'
  BY NextInv DEF IInv
<1>1. ASSUME NEW i \in Ids, NEW d \in Drafts, Create(i, d) \/ Update(i, d) \/ Restore(i, d)
      PROVE  WInv'
  BY <1>0, <1>1, AddReasons, ReplaceReasons DEF Create, Update, Restore
<1>2. ASSUME NEW i \in Ids, Remove(i) \/ Disable(i)
      PROVE  WInv'
  BY <1>0, <1>2, StopReasons
<1>3. ASSUME NEW i \in Ids, EnableRunning(i)
      PROVE  WInv'
  BY <1>3, OtherReasons DEF EnableRunning
<1>4. ASSUME NEW i \in Ids, NEW takeOver \in BOOLEAN, Enable(i, takeOver)
      PROVE  WInv'
  BY <1>4, EnableReasons
<1>5. ASSUME NEW i \in Ids, NEW t \in Targets, SetTarget(i, t)
      PROVE  WInv'
  BY <1>5, OtherReasons DEF SetTarget
<1>6. CASE Flush
  BY <1>6, OtherReasons DEF Flush
<1>7. CASE PowerCut
  BY <1>7, BootReasons DEF PowerCut, Boot
<1>8. CASE StartLoaded
  <2>1. PICK i \in Waiters : job.pc = "boot" /\ IsFirst(i, Waiters) /\ TryWaiter(i)
    BY <1>8 DEF StartLoaded, IsFirst
  <2> QED
    BY <2>1, TryReasons
<1>9. CASE StartOnRelay
  <2>1. PICK i \in Waiters : job.pc = "on_relays" /\ IsFirst(i, OnRelay) /\ TryWaiter(i)
    BY <1>9 DEF StartOnRelay, IsFirst, OnRelay
  <2> QED
    BY <2>1, TryReasons
<1>10. CASE StartOnEntity
  <2>1. PICK i \in Waiters : job.pc = "on_entities" /\ IsFirst(i, OnEntity) /\ TryWaiter(i)
    BY <1>10 DEF StartOnEntity, IsFirst, OnEntity
  <2> QED
    BY <2>1, TryReasons
<1>11. CASE UNCHANGED vars
  BY <1>11 DEF vars, WInv, Reasoned, ByOthers, BootsAll, Pending, FreedFor, StillTrue, Waits, Enabled, Stored, NoSlotFree
<1> QED
  BY <1>0, <1>1, <1>2, <1>3, <1>4, <1>5, <1>6, <1>7, <1>8, <1>9, <1>10, <1>11, LoopReasons,
     TakeOverReasons, StartEnabledReasons DEF Next, JobStep

LEMMA ReasonsInvariant == Spec => [](IInv /\ WInv)
<1>1. IInv /\ Settled /\ [Next]_vars => Settled'
  BY NextTells
<1> QED
  BY <1>1, InitSettled, InitReasons, NextReasons, Invariant, PTL DEF Spec

(* Whatever calls, take-overs and power cuts came before, what a waiting     *)
(* thermostat is told between two calls is true of the pool and the claims   *)
(* at that moment.                                                           *)
THEOREM ReasonsAlwaysCurrent == Spec => []ReasonsCurrent
<1>1. WInv => ReasonsCurrent
  BY IdleReasons DEF ReasonsCurrent
<1> QED
  BY <1>1, ReasonsInvariant, PTL

(* And nobody is left waiting for what is there: between two calls no enabled *)
(* thermostat that stands still could start.                                 *)
THEOREM NobodyEverForgotten == Spec => []NobodyForgotten
<1>1. ASSUME IInv, WInv, job = Idle, NEW i \in Ids, Waits(i)
      PROVE  StartObstacle(i, docs[i]) # NoReason
  <2>1. StillTrue(i) /\ TypeOK /\ ByOthers /\ reason[i] \in Reason /\ docs[i] \in Doc
    BY <1>1, IdleReasons, StoredFacts DEF IInv, WInv, TypeOK, Waits, Enabled
  <2>2. Because("sensor") # NoReason /\ Because("entity") # NoReason
    BY DEF Because, NoReason
  <2>3. \A r : r # NoRelay /\ (owner[r] \notin {Nobody, i} \/ (owner[r] = Nobody /\ r \notin Switches))
                => ClaimObstacle(i, r) # NoReason
    BY DEF ClaimObstacle, NoReason, Because
  <2>4. ASSUME NEW r \in Names(docs[i]), ClaimObstacle(i, r) # NoReason
        PROVE  ClaimsObstacle(i, docs[i]) # NoReason
    BY <2>4 DEF ClaimsObstacle, Names
  <2>5. ClaimsObstacle(i, docs[i]) # NoReason => StartObstacle(i, docs[i]) # NoReason
    BY <2>2 DEF StartObstacle, RestartObstacle
  <2>6. CASE reason[i].why = "held"
    BY <1>1, <2>1, <2>3, <2>4, <2>5, <2>6, HeldRelay DEF Names
  <2>7. CASE reason[i].why = "missing"
    <3>1. reason[i].relay \in Names(docs[i]) \ Switches
      BY <2>1, <2>7 DEF StillTrue
    <3>2. reason[i].relay \in Relays /\ reason[i].relay # NoRelay
      BY <2>1, <3>1 DEF Names, Doc
    <3>3. owner[reason[i].relay] # i
      <4>1. ClaimsMatch /\ i \notin running /\ job.pc # "holders"
        BY <1>1, IdleFacts DEF IInv, Waits
      <4> QED
        BY <2>1, <3>2, <4>1, Unheld
    <3> QED
      BY <2>3, <2>4, <2>5, <3>1, <3>2, <3>3
  <2>8. CASE reason[i].why \in {"sensor", "entity"}
    BY <2>1, <2>2, <2>8 DEF StillTrue, StartObstacle, RestartObstacle
  <2> QED
    BY <2>1, <2>6, <2>7, <2>8, StillTrueFacts
<1>2. IInv /\ WInv => NobodyForgotten
  BY <1>1 DEF NobodyForgotten
<1> QED
  BY <1>2, ReasonsInvariant, PTL
-----------------------------------------------------------------------------
(* Files of a newer firmware *)

IsNewer(f) == f \in Doc /\ f.newer

(* Such a file is known for what it is: it is never taken for one of ours. *)
NewerKnown == \A i \in Ids : Stored(i) /\ IsNewer(files[i]) => docs[i].newer

LEMMA WrittenAt ==
  ASSUME TypeOK, NEW i \in Ids, NEW d, NEW ok, NEW k \in Ids
  PROVE  Written(i, d, ok)[k] = IF k = i /\ ok /\ ~d.newer THEN d ELSE files[k]
  BY DEF TypeOK, Written, Reaches

LEMMA FlagFacts ==
  ASSUME TypeOK, NEW i \in Ids, Stored(i), NEW d,
         d = [docs[i] EXCEPT !.enabled = TRUE] \/ d = [docs[i] EXCEPT !.enabled = FALSE]
  PROVE  d \in Doc /\ d # NoDoc /\ d.newer = docs[i].newer
<1>1. PICK e \in BOOLEAN : d = [docs[i] EXCEPT !.enabled = e]
  OBVIOUS
<1>2. docs[i] \in Doc
  BY StoredFacts
<1>3. d \in Doc /\ d.newer = docs[i].newer
  BY <1>1, <1>2, FlagSet
<1> QED
  BY <1>3, HubAssumption

(* What a step but a power cut does to a document and its file: both are    *)
(* left, or known as before; or the file is not a newer firmware's, before   *)
(* or after; or the thermostat is removed.                                   *)
Guarded(k) ==
  \/ files'[k] = files[k] /\ (Stored(k)' => Stored(k) /\ docs'[k].newer = docs[k].newer)
  \/ ~IsNewer(files[k]) /\ ~IsNewer(files'[k])
  \/ Remove(k) /\ ~Stored(k)'

LEMMA GuardedLeft ==
  ASSUME NEW k, docs'[k] = docs[k], files'[k] = files[k]
  PROVE  Guarded(k)
  BY DEF Guarded, Stored

(* A document under another flag, and its file if the write gets through. *)
LEMMA GuardedFlag ==
  ASSUME TypeOK, NewerKnown, NEW i \in Ids, Stored(i), NEW d, d.newer = docs[i].newer, NEW w, NEW ok,
         docs' = [docs EXCEPT ![i] = d], w.newer = docs[i].newer, files' = files \/ files' = Written(i, w, ok)
  PROVE  \A k \in Ids : Guarded(k)
<1>1. docs'[i] = d /\ \A k \in Ids \ {i} : docs'[k] = docs[k]
  BY DEF TypeOK
<1>2. \A k \in Ids \ {i} : files'[k] = files[k]
  BY WrittenAt
<1>3. files'[i] = files[i] \/ (files'[i] = w /\ ~w.newer)
  BY WrittenAt
<1>4. Guarded(i)
  BY <1>1, <1>3 DEF Guarded, Stored, NewerKnown, IsNewer
<1> QED
  BY <1>1, <1>2, <1>4, GuardedLeft

LEMMA GuardedDisabled ==
  ASSUME TypeOK, NewerKnown, NEW i \in Ids, NEW j \in Ids, Stored(j), StoreDisabled(j, i)
  PROVE  \A k \in Ids : Guarded(k)
<1>1. PICK d : d = [docs[j] EXCEPT !.enabled = FALSE]
  OBVIOUS
<1>2. d.newer = docs[j].newer
  BY <1>1, FlagFacts
<1>3. docs' = [docs EXCEPT ![j] = d]
  BY <1>1 DEF StoreDisabled
<1>4. \E ok : files' = files \/ files' = Written(j, docs[j], ok) \/ files' = Written(j, d, ok)
  BY <1>1 DEF StoreDisabled
<1> QED
  BY <1>2, <1>3, <1>4, GuardedFlag

LEMMA NextGuarded ==
  ASSUME IInv, NewerKnown, [Next]_vars, ~PowerCut, NEW k \in Ids
  PROVE  Guarded(k)
<1>0. TypeOK
  BY DEF IInv
<1>1. ASSUME NEW i \in Ids, NEW d \in Drafts, Create(i, d) \/ Update(i, d) \/ Restore(i, d)
      PROVE  Guarded(k)
  <2>1. d \in Doc /\ ~d.newer
    BY DraftFacts DEF Drafts
  <2>0. docs' = [docs EXCEPT ![i] = d] /\ files' = Written(i, d, TRUE)
    BY <1>1 DEF Create, Update, Restore, Add, Replace
  <2>2. \A j \in Ids \ {i} : docs'[j] = docs[j] /\ files'[j] = files[j]
    <3>1. \A j \in Ids \ {i} : docs'[j] = docs[j]
      BY <1>0, <2>0 DEF TypeOK
    <3>2. \A j \in Ids \ {i} : Written(i, d, TRUE)[j] = files[j]
      BY <1>0 DEF Written, Reaches, TypeOK
    <3> QED
      BY <2>0, <3>1, <3>2
  <2>3. files'[i] = d
    BY <1>0, <2>0, <2>1, WrittenAt
  <2>4. ~IsNewer(files[i])
    <3>1. NoFile \notin Doc
      BY HubAssumption
    <3> QED
      BY <1>1, <3>1 DEF Create, Update, Restore, Add, Replace, NewerKnown, IsNewer
  <2>5. Guarded(i)
    BY <2>1, <2>3, <2>4 DEF Guarded, IsNewer
  <2> QED
    BY <2>2, <2>5, GuardedLeft
<1>2. ASSUME NEW i \in Ids, Remove(i)
      PROVE  Guarded(k)
  <2>1. docs'[i] = NoDoc /\ \A j \in Ids \ {i} : docs'[j] = docs[j] /\ files'[j] = files[j]
    BY <1>0, <1>2 DEF Remove, TypeOK
  <2> QED
    BY <1>2, <2>1, GuardedLeft DEF Guarded, Stored
<1>3. ASSUME NEW i \in Ids, Disable(i)
      PROVE  Guarded(k)
  <2>1. CASE docs[i].enabled
    <3>1. PICK d, ok : /\ d = [docs[i] EXCEPT !.enabled = FALSE] /\ docs' = [docs EXCEPT ![i] = d]
                       /\ files' = Written(i, d, ok)
      BY <1>3, <2>1 DEF Disable
    <3>2. Stored(i) /\ d.newer = docs[i].newer
      BY <1>0, <1>3, <3>1, FlagFacts DEF Disable
    <3> QED
      BY <1>0, <3>1, <3>2, GuardedFlag
  <2>2. CASE ~docs[i].enabled
    BY <1>3, <2>2, GuardedLeft DEF Disable
  <2> QED
    BY <2>1, <2>2
<1>4. ASSUME NEW i \in Ids, NEW t \in Targets, SetTarget(i, t)
      PROVE  Guarded(k)
  <2>1. PICK d : d = [docs[i] EXCEPT !.target = t]
    OBVIOUS
  <2>2. Stored(i) /\ d.newer = docs[i].newer
    BY <1>0, <1>4, <2>1, StoredFacts, TargetSet DEF SetTarget
  <2>3. docs' = [docs EXCEPT ![i] = d] /\ files' = files
    BY <1>4, <2>1 DEF SetTarget
  <2> QED
    BY <1>0, <2>2, <2>3, GuardedFlag
<1>5. CASE DisableWaiter
  <2>1. PICK j \in Ids : Stored(j) /\ job.id \in Ids /\ StoreDisabled(j, job.id)
    BY <1>5 DEF DisableWaiter, IsFirst, Claimants, Reservers, Waits, Enabled, IInv, TakeOver
  <2> QED
    BY <1>0, <2>1, GuardedDisabled
<1>6. CASE DisableHolder
  <2>1. PICK i, j \in Ids : j \in running /\ StoreDisabled(j, i)
    BY <1>6, DisableHolderFacts
  <2>2. Stored(j)
    BY <2>1, ClaimsFacts DEF IInv, Stored
  <2> QED
    BY <1>0, <2>1, <2>2, GuardedDisabled
<1>7. CASE StartEnabled
  <2>1. PICK i \in Ids : i = job.id /\ Stored(i)
    BY <1>7 DEF StartEnabled, IInv, TakeOver
  <2>2. CASE docs[i].enabled
    BY <1>7, <2>1, <2>2, GuardedLeft DEF StartEnabled
  <2>3. CASE ~docs[i].enabled
    <3>1. PICK d, ok : /\ d = [docs[i] EXCEPT !.enabled = TRUE] /\ docs' = [docs EXCEPT ![i] = d]
                       /\ files' = Written(i, d, ok)
      BY <1>7, <2>1, <2>3 DEF StartEnabled
    <3>2. d.newer = docs[i].newer
      BY <1>0, <2>1, <3>1, FlagFacts
    <3> QED
      BY <1>0, <2>1, <3>1, <3>2, GuardedFlag
  <2> QED
    BY <2>2, <2>3
<1>8. CASE Flush
  <2>1. PICK written \in SUBSET dirty : files' = Flushed(written) /\ docs' = docs
    BY <1>8 DEF Flush
  <2>2. files'[k] = files[k] \/ (k \in dirty /\ ~docs[k].newer /\ files'[k] = docs[k])
    BY <2>1 DEF Flushed
  <2>3. k \in dirty => Stored(k)
    BY DEF IInv, DirtyStored
  <2> QED
    BY <2>1, <2>2, <2>3, GuardedLeft DEF Guarded, NewerKnown, IsNewer
<1>9. UNCHANGED <<docs, files>> => Guarded(k)
  BY GuardedLeft
<1>10. CASE \/ \E i \in Ids : EnableRunning(i) \/ \E takeOver \in BOOLEAN : Enable(i, takeOver)
            \/ StartLoaded \/ Booted \/ ToHolders \/ StartOnRelay \/ ToEntities \/ StartOnEntity \/ Announce
  BY <1>9, <1>10 DEF EnableRunning, Enable, StartLoaded, Booted, ToHolders, StartOnRelay, ToEntities, StartOnEntity,
     Announce, TryWaiter
<1>11. CASE UNCHANGED vars
  BY <1>9, <1>11 DEF vars
<1> QED
  BY <1>1, <1>2, <1>3, <1>4, <1>5, <1>6, <1>7, <1>8, <1>10, <1>11 DEF Next, JobStep

(* A power cut leaves the files that the flush did not get to. *)
LEMMA CutFiles ==
  ASSUME IInv, PowerCut
  PROVE  \A k \in Ids : /\ \/ files'[k] = files[k]
                           \/ k \in dirty /\ Stored(k) /\ ~docs[k].newer /\ files'[k] = docs[k]
                        /\ docs'[k] = IF k \in Loaded(files') THEN files'[k] ELSE NoDoc
<1>1. PICK written \in SUBSET dirty : Boot(Flushed(written))
  BY DEF PowerCut
<1> QED
  BY <1>1 DEF Boot, Flushed, IInv, DirtyStored

LEMMA NextNewer ==
  ASSUME IInv, NewerKnown, [Next]_vars
  PROVE  NewerKnown' /\ \A i \in Ids : IsNewer(files[i]) => files'[i] = files[i] \/ Remove(i)
<1>1. CASE PowerCut
  <2>1. ASSUME NEW i \in Ids
        PROVE  /\ Stored(i)' => docs'[i] = files'[i]
               /\ IsNewer(files[i]) => files'[i] = files[i]
    BY <1>1, CutFiles DEF Stored, NewerKnown
  <2> QED
    BY <2>1 DEF NewerKnown, IsNewer
<1>2. CASE ~PowerCut
  <2>1. \A i \in Ids : Guarded(i)
    BY <1>2, NextGuarded
  <2> QED
    BY <2>1 DEF Guarded, NewerKnown, IsNewer
<1> QED
  BY <1>1, <1>2

LEMMA InitNewer == Init => NewerKnown
  BY DEF Init, NewerKnown, Stored, IsNewer

(* Whatever the calls, take-overs and flushes, a file of a newer firmware     *)
(* stays what it is until its thermostat is removed.                          *)
THEOREM NewerNeverRewritten == Spec => NewerUntouched
<1>1. IInv /\ NewerKnown /\ [Next]_vars => NewerKnown'
  BY NextNewer
<1>2. IInv /\ NewerKnown /\ [Next]_vars =>
        [\A i \in Ids : files[i] \in Doc /\ files[i].newer => files'[i] = files[i] \/ Remove(i)]_vars
  BY NextNewer DEF IsNewer
<1> QED
  BY <1>1, <1>2, InitNewer, Invariant, PTL DEF Spec, NewerUntouched
-----------------------------------------------------------------------------
(* Files of this firmware *)

(* Folders that load_ takes in whole and this firmware wrote, on a flash that *)
(* takes every write.                                                         *)
OwnFolders ==
  /\ ~WriteMayFail
  /\ \A f \in InitFiles : /\ Cardinality({i \in Ids : f[i] \in Doc}) <= Max
                          /\ \A i \in Ids : ~IsNewer(f[i])

(* The file of a document says the same but for what waits for the flush, in  *)
(* the middle of a call too, and there is no other.                           *)
Mirrored(k) ==
  IF Stored(k)
  THEN /\ ~docs[k].newer /\ files[k] \in Doc /\ ~files[k].newer
       /\ files[k].enabled = docs[k].enabled /\ Names(files[k]) = Names(docs[k])
       /\ k \in dirty \/ files[k] = docs[k]
  ELSE files[k] \notin Doc
FInv == Cardinality(Stores) <= Max /\ \A k \in Ids : Mirrored(k)

LEMMA StoresFacts == IsFiniteSet(Ids) /\ IsFiniteSet(Stores) /\ Cardinality(Stores) \in Nat
<1>1. IsFiniteSet(Ids)
  BY HubAssumption, FS_Interval DEF Ids
<1>2. IsFiniteSet(Stores)
  BY <1>1, FS_Subset DEF Stores
<1> QED
  BY <1>1, <1>2, FS_CardinalityType

(* A folder that is not too many is loaded whole. *)
LEMMA LoadedWhole ==
  ASSUME NEW f, Cardinality({i \in Ids : f[i] \in Doc}) <= Max
  PROVE  Loaded(f) = {i \in Ids : f[i] \in Doc}
<1>1. PICK good : good = {i \in Ids : f[i] \in Doc}
  OBVIOUS
<1>2. IsFiniteSet(good) /\ Cardinality(good) \in Nat /\ good \subseteq Ids
  BY <1>1, StoresFacts, FS_Subset, FS_CardinalityType
<1>3. ASSUME NEW i \in good
      PROVE  Cardinality({j \in good : j < i}) < Max
  <2>1. PICK before \in SUBSET good : before = {j \in good : j < i}
    OBVIOUS
  <2>2. before # good
    BY <1>2, <2>1 DEF Ids
  <2>3. Cardinality(before) \in Nat /\ Cardinality(before) <= Cardinality(good)
        /\ Cardinality(before) # Cardinality(good)
    BY <1>2, <2>2, FS_Subset, FS_CardinalityType
  <2> QED
    BY <1>1, <1>2, <2>1, <2>3, HubAssumption
<1> QED
  BY <1>1, <1>3 DEF Loaded

(* What a step but a power cut does to a document and its file. *)
FileStep(k) ==
  \/ docs'[k] = docs[k] /\ files'[k] = files[k] /\ (k \in dirty => k \in dirty')
  \/ docs'[k] \in Doc /\ ~docs'[k].newer /\ files'[k] = docs'[k]
  \/ docs'[k] = NoDoc /\ files'[k] = NoFile
  \/ /\ Stored(k) /\ docs'[k] \in Doc /\ ~docs'[k].newer /\ docs'[k].enabled = docs[k].enabled
     /\ Names(docs'[k]) = Names(docs[k]) /\ files'[k] = files[k] /\ k \in dirty'

LEMMA MirroredAfter ==
  ASSUME NEW k \in Ids, Mirrored(k), FileStep(k)
  PROVE  Mirrored(k)'
<1>1. NoDoc \notin Doc /\ NoFile \notin Doc
  BY HubAssumption
<1>2. CASE docs'[k] = docs[k] /\ files'[k] = files[k] /\ (k \in dirty => k \in dirty')
  BY <1>2 DEF Mirrored, Stored
<1>3. CASE docs'[k] \in Doc /\ ~docs'[k].newer /\ files'[k] = docs'[k]
  BY <1>1, <1>3 DEF Mirrored, Stored
<1>4. CASE docs'[k] = NoDoc /\ files'[k] = NoFile
  BY <1>1, <1>4 DEF Mirrored, Stored
<1>5. CASE /\ Stored(k) /\ docs'[k] \in Doc /\ ~docs'[k].newer /\ docs'[k].enabled = docs[k].enabled
           /\ Names(docs'[k]) = Names(docs[k]) /\ files'[k] = files[k] /\ k \in dirty'
  BY <1>1, <1>5 DEF Mirrored, Stored
<1> QED
  BY <1>2, <1>3, <1>4, <1>5 DEF FileStep

(* One document changed and written. *)
LEMMA SavedSteps ==
  ASSUME TypeOK, NEW i \in Ids, NEW d \in Doc, ~d.newer,
         docs' = [docs EXCEPT ![i] = d], files' = Written(i, d, TRUE), dirty \ {i} \subseteq dirty'
  PROVE  \A k \in Ids : FileStep(k)
<1>1. docs'[i] = d /\ \A k \in Ids \ {i} : docs'[k] = docs[k]
  BY DEF TypeOK
<1>2. files'[i] = d /\ \A k \in Ids \ {i} : files'[k] = files[k]
  BY WrittenAt
<1> QED
  BY <1>1, <1>2 DEF FileStep

LEMMA FlagSteps ==
  ASSUME TypeOK, NEW i \in Ids, Stored(i), ~docs[i].newer, NEW d, NEW ok, ok = TRUE,
         d = [docs[i] EXCEPT !.enabled = TRUE] \/ d = [docs[i] EXCEPT !.enabled = FALSE],
         docs' = [docs EXCEPT ![i] = d], files' = Written(i, d, ok), dirty \ {i} \subseteq dirty'
  PROVE  \A k \in Ids : FileStep(k)
BY FlagFacts, SavedSteps

LEMMA LeftSteps ==
  ASSUME UNCHANGED <<docs, files, dirty>>
  PROVE  \A k \in Ids : FileStep(k)
BY DEF FileStep

LEMMA DisabledSteps ==
  ASSUME TypeOK, FInv, ~WriteMayFail, NEW i \in Ids, NEW j \in Ids, Stored(i), Stored(j), StoreDisabled(j, i)
  PROVE  \A k \in Ids : FileStep(k)
<1>1. PICK d : d = [docs[j] EXCEPT !.enabled = FALSE]
  OBVIOUS
<1>2. ~docs[i].newer /\ ~docs[j].newer
  BY DEF FInv, Mirrored
<1>3. docs' = [docs EXCEPT ![j] = d] /\ files' = Written(j, d, TRUE) /\ dirty' = dirty \ {j}
  BY <1>1, <1>2 DEF StoreDisabled, Outcomes
<1> QED
  BY <1>1, <1>2, <1>3, FlagSteps

LEMMA NextFiles ==
  ASSUME IInv, FInv, ~WriteMayFail, [Next]_vars, ~PowerCut, NEW k \in Ids
  PROVE  FileStep(k)
<1>0. TypeOK
  BY DEF IInv
<1>1. ASSUME NEW i \in Ids, NEW d \in Drafts, Create(i, d) \/ Update(i, d) \/ Restore(i, d)
      PROVE  FileStep(k)
  <2>1. d \in Doc /\ ~d.newer
    BY DraftFacts DEF Drafts
  <2>2. /\ docs' = [docs EXCEPT ![i] = d] /\ files' = Written(i, d, TRUE)
        /\ dirty \ {i} \subseteq dirty'
    BY <1>1 DEF Create, Update, Restore, Add, Replace
  <2> QED
    BY <1>0, <2>1, <2>2, SavedSteps
<1>2. ASSUME NEW i \in Ids, Remove(i)
      PROVE  FileStep(k)
  <2>1. docs' = [docs EXCEPT ![i] = NoDoc] /\ files' = [files EXCEPT ![i] = NoFile] /\ dirty' = dirty \ {i}
    BY <1>2 DEF Remove, Remains
  <2>2. docs'[k] = (IF k = i THEN NoDoc ELSE docs[k]) /\ files'[k] = (IF k = i THEN NoFile ELSE files[k])
    BY <1>0, <2>1 DEF TypeOK
  <2> QED
    BY <2>1, <2>2 DEF FileStep
<1>3. ASSUME NEW i \in Ids, Disable(i)
      PROVE  FileStep(k)
  <2>1. CASE docs[i].enabled
    <3>1. PICK d, ok : /\ d = [docs[i] EXCEPT !.enabled = FALSE] /\ docs' = [docs EXCEPT ![i] = d]
                       /\ files' = Written(i, d, ok) /\ ok = TRUE /\ dirty' = dirty \ {i}
      BY <1>3, <2>1 DEF Disable, Outcomes
    <3>2. Stored(i) /\ ~docs[i].newer
      BY <1>3 DEF Disable, FInv, Mirrored
    <3> QED
      BY <1>0, <3>1, <3>2, FlagSteps
  <2>2. CASE ~docs[i].enabled
    BY <1>3, <2>2, LeftSteps DEF Disable
  <2> QED
    BY <2>1, <2>2
<1>4. ASSUME NEW i \in Ids, NEW t \in Targets, SetTarget(i, t)
      PROVE  FileStep(k)
  <2>1. PICK d : d = [docs[i] EXCEPT !.target = t]
    OBVIOUS
  <2>2. Stored(i) /\ ~docs[i].newer /\ docs[i] \in Doc
    BY <1>0, <1>4, StoredFacts DEF SetTarget, FInv, Mirrored
  <2>3. d \in Doc /\ d.enabled = docs[i].enabled /\ Names(d) = Names(docs[i]) /\ ~d.newer
    BY <2>1, <2>2, TargetSet DEF Names
  <2>4. docs' = [docs EXCEPT ![i] = d] /\ files' = files /\ dirty' = dirty \cup {i}
    BY <1>4, <2>1, <2>2 DEF SetTarget
  <2>5. docs'[i] = d /\ \A j \in Ids \ {i} : docs'[j] = docs[j]
    BY <1>0, <2>4 DEF TypeOK
  <2> QED
    BY <2>2, <2>3, <2>4, <2>5 DEF FileStep
<1>5. CASE DisableWaiter
  <2>1. PICK j \in Ids : Stored(j) /\ job.id \in Ids /\ Stored(job.id) /\ StoreDisabled(j, job.id)
    BY <1>5 DEF DisableWaiter, IsFirst, Claimants, Reservers, Waits, Enabled, IInv, TakeOver
  <2> QED
    BY <1>0, <2>1, DisabledSteps
<1>6. CASE DisableHolder
  <2>1. PICK i, j \in Ids : Stored(i) /\ j \in running /\ StoreDisabled(j, i)
    BY <1>6, DisableHolderFacts
  <2>2. Stored(j)
    BY <2>1, ClaimsFacts DEF IInv, Stored
  <2> QED
    BY <1>0, <2>1, <2>2, DisabledSteps
<1>7. CASE StartEnabled
  <2>1. PICK i \in Ids : i = job.id /\ Stored(i)
    BY <1>7 DEF StartEnabled, IInv, TakeOver
  <2>2. CASE docs[i].enabled
    BY <1>7, <2>1, <2>2, LeftSteps DEF StartEnabled
  <2>3. CASE ~docs[i].enabled
    <3>1. PICK d, ok : /\ d = [docs[i] EXCEPT !.enabled = TRUE] /\ docs' = [docs EXCEPT ![i] = d]
                       /\ files' = Written(i, d, ok) /\ ok = TRUE /\ dirty' = dirty \ {i}
      BY <1>7, <2>1, <2>3 DEF StartEnabled, Outcomes
    <3>2. ~docs[i].newer
      BY <2>1 DEF FInv, Mirrored
    <3> QED
      BY <1>0, <2>1, <3>1, <3>2, FlagSteps
  <2> QED
    BY <2>2, <2>3
<1>8. CASE Flush
  <2>1. files' = Flushed(dirty) /\ docs' = docs /\ dirty' = {}
    BY <1>8 DEF Flush
  <2>2. files'[k] = IF k \in dirty /\ ~docs[k].newer THEN docs[k] ELSE files[k]
    BY <2>1 DEF Flushed
  <2>3. k \in dirty => docs[k] \in Doc /\ ~docs[k].newer
    BY <1>0, StoredFacts DEF IInv, DirtyStored, FInv, Mirrored
  <2> QED
    BY <2>1, <2>2, <2>3 DEF FileStep
<1>9. CASE \/ \E i \in Ids : EnableRunning(i) \/ \E takeOver \in BOOLEAN : Enable(i, takeOver)
           \/ StartLoaded \/ Booted \/ ToHolders \/ StartOnRelay \/ ToEntities \/ StartOnEntity \/ Announce
  BY <1>9, LeftSteps DEF EnableRunning, Enable, StartLoaded, Booted, ToHolders, StartOnRelay, ToEntities, StartOnEntity,
     Announce, TryWaiter
<1>10. CASE UNCHANGED vars
  BY <1>10, LeftSteps DEF vars
<1> QED
  BY <1>1, <1>2, <1>3, <1>4, <1>5, <1>6, <1>7, <1>8, <1>9, <1>10 DEF Next, JobStep

(* Only a document that is there changes, except by Add. *)
LEMMA NextStores ==
  ASSUME IInv, [Next]_vars, ~PowerCut, ~\E i \in Ids, d \in Drafts : Add(i, d)
  PROVE  Stores' \subseteq Stores
<1>0. TypeOK
  BY DEF IInv
<1>1. docs' = docs \/ \E i, d : Stored(i) /\ docs' = [docs EXCEPT ![i] = d]
  <2>1. ASSUME NEW i \in Ids, NEW d \in Drafts, Create(i, d) \/ Update(i, d) \/ Restore(i, d)
        PROVE  Stored(i) /\ docs' = [docs EXCEPT ![i] = d]
    BY <2>1 DEF Create, Update, Restore, Replace
  <2>2. ASSUME NEW i \in Ids, Remove(i)
        PROVE  Stored(i) /\ docs' = [docs EXCEPT ![i] = NoDoc]
    BY <2>2 DEF Remove
  <2>3. ASSUME NEW i \in Ids, Disable(i)
        PROVE  docs' = docs \/ \E d : Stored(i) /\ docs' = [docs EXCEPT ![i] = d]
    BY <2>3 DEF Disable
  <2>4. ASSUME NEW i \in Ids, NEW t \in Targets, SetTarget(i, t)
        PROVE  \E d : Stored(i) /\ docs' = [docs EXCEPT ![i] = d]
    BY <2>4 DEF SetTarget
  <2>5. CASE DisableWaiter
    <3>1. PICK j \in Ids : Stored(j) /\ StoreDisabled(j, job.id)
      BY <2>5 DEF DisableWaiter, IsFirst, Claimants, Reservers, Waits, Enabled
    <3> QED
      BY <3>1 DEF StoreDisabled
  <2>6. CASE DisableHolder
    <3>1. PICK i, j \in Ids : j \in running /\ StoreDisabled(j, i)
      BY <2>6, DisableHolderFacts
    <3>2. Stored(j)
      BY <3>1, ClaimsFacts DEF IInv, Stored
    <3> QED
      BY <3>1, <3>2 DEF StoreDisabled
  <2>7. CASE StartEnabled
    <3>1. Stored(job.id)
      BY <2>7 DEF StartEnabled, IInv, TakeOver
    <3> QED
      BY <2>7, <3>1 DEF StartEnabled
  <2>8. CASE \/ \E i \in Ids : EnableRunning(i) \/ \E takeOver \in BOOLEAN : Enable(i, takeOver)
             \/ StartLoaded \/ Booted \/ ToHolders \/ StartOnRelay \/ ToEntities \/ StartOnEntity \/ Announce
             \/ Flush
    BY <2>8 DEF EnableRunning, Enable, StartLoaded, Booted, ToHolders, StartOnRelay, ToEntities, StartOnEntity,
       Announce, Flush, TryWaiter
  <2>9. CASE UNCHANGED vars
    BY <2>9 DEF vars
  <2> QED
    BY <2>1, <2>2, <2>3, <2>4, <2>5, <2>6, <2>7, <2>8, <2>9 DEF Next, JobStep
<1> QED
  BY <1>0, <1>1 DEF Stores, Stored, TypeOK

(* A step adds a document only where there is room. *)
LEMMA StoresKept ==
  ASSUME IInv, [Next]_vars, ~PowerCut, Cardinality(Stores) <= Max
  PROVE  Cardinality(Stores') <= Max
<1>1. CASE \E i \in Ids, d \in Drafts : Add(i, d)
  <2>1. PICK i \in Ids, d \in Drafts : Add(i, d)
    BY <1>1
  <2>2. Stores' \subseteq Stores \cup {i} /\ Cardinality(Stores) < Max
    BY <2>1 DEF Add, Stores, Stored, IInv, TypeOK
  <2>3. IsFiniteSet(Stores \cup {i}) /\ Cardinality(Stores \cup {i}) <= Cardinality(Stores) + 1
    BY StoresFacts, FS_AddElement
  <2>4. IsFiniteSet(Stores') /\ Cardinality(Stores') <= Cardinality(Stores \cup {i})
    BY <2>2, <2>3, FS_Subset
  <2>5. Cardinality(Stores') \in Nat /\ Cardinality(Stores \cup {i}) \in Nat
    BY <2>3, <2>4, FS_CardinalityType
  <2> QED
    BY <2>2, <2>3, <2>4, <2>5, StoresFacts, HubAssumption
<1>2. CASE ~\E i \in Ids, d \in Drafts : Add(i, d)
  <2>1. Stores' \subseteq Stores
    BY <1>2, NextStores
  <2>2. IsFiniteSet(Stores') /\ Cardinality(Stores') <= Cardinality(Stores)
    BY <2>1, StoresFacts, FS_Subset
  <2>3. Cardinality(Stores') \in Nat
    BY <2>2, FS_CardinalityType
  <2> QED
    BY <2>2, <2>3, StoresFacts, HubAssumption
<1> QED
  BY <1>1, <1>2

(* A boot takes the folder in as it is. *)
LEMMA BootFiles ==
  ASSUME NEW folder, NEW store, \A i \in Ids : store[i] = IF i \in Loaded(folder) THEN folder[i] ELSE NoDoc,
         Cardinality({i \in Ids : folder[i] \in Doc}) <= Max
  PROVE  \A i \in Ids : store[i] = IF folder[i] \in Doc THEN folder[i] ELSE NoDoc
BY LoadedWhole

LEMMA CutMirrors ==
  ASSUME IInv, FInv, PowerCut
  PROVE  FInv'
<1>1. \A k \in Ids : /\ \/ files'[k] = files[k]
                        \/ k \in dirty /\ Stored(k) /\ ~docs[k].newer /\ files'[k] = docs[k]
                      /\ docs'[k] = IF k \in Loaded(files') THEN files'[k] ELSE NoDoc
  BY CutFiles
<1>2. \A k \in Ids : Stored(k) => docs[k] \in Doc
  BY StoredFacts DEF IInv
<1>3. \A k \in Ids : (files'[k] \in Doc <=> Stored(k)) /\ (Stored(k) => ~files'[k].newer)
  BY <1>1, <1>2 DEF FInv, Mirrored
<1>4. {k \in Ids : files'[k] \in Doc} = Stores
  BY <1>3 DEF Stores
<1>5. \A k \in Ids : docs'[k] = IF files'[k] \in Doc THEN files'[k] ELSE NoDoc
  BY <1>1, <1>4, BootFiles DEF FInv
<1>6. NoDoc \notin Doc
  BY HubAssumption
<1>7. Stores' = Stores
  BY <1>3, <1>5, <1>6 DEF Stores, Stored
<1>8. \A k \in Ids : Mirrored(k)'
  BY <1>3, <1>5, <1>6 DEF Mirrored, Stored
<1> QED
  BY <1>7, <1>8 DEF FInv

LEMMA NextMirrors ==
  ASSUME IInv, FInv, ~WriteMayFail, [Next]_vars
  PROVE  FInv'
<1>1. CASE ~PowerCut
  <2>1. \A k \in Ids : Mirrored(k)'
    BY <1>1, NextFiles, MirroredAfter DEF FInv
  <2>2. Cardinality(Stores') <= Max
    BY <1>1, StoresKept DEF FInv
  <2> QED
    BY <2>1, <2>2 DEF FInv
<1> QED
  BY <1>1, CutMirrors

LEMMA InitMirrors ==
  ASSUME OwnFolders, Init
  PROVE  FInv
<1>1. /\ Cardinality({i \in Ids : files[i] \in Doc}) <= Max
      /\ \A i \in Ids : ~IsNewer(files[i])
      /\ \A i \in Ids : docs[i] = IF i \in Loaded(files) THEN files[i] ELSE NoDoc
  BY DEF Init, OwnFolders
<1>2. \A i \in Ids : docs[i] = IF files[i] \in Doc THEN files[i] ELSE NoDoc
  BY <1>1, BootFiles
<1>3. NoDoc \notin Doc
  BY HubAssumption
<1>4. Stores = {i \in Ids : files[i] \in Doc}
  BY <1>2, <1>3 DEF Stores, Stored
<1>5. \A k \in Ids : Mirrored(k)
  BY <1>1, <1>2, <1>3 DEF Mirrored, Stored, IsNewer
<1> QED
  BY <1>1, <1>4, <1>5 DEF FInv

LEMMA FilesInvariant == ASSUME OwnFolders PROVE Spec => [](IInv /\ FInv)
<1>1. Init => FInv
  BY InitMirrors
<1>2. IInv /\ FInv /\ [Next]_vars => FInv'
  BY NextMirrors DEF OwnFolders
<1> QED
  BY <1>1, <1>2, Invariant, PTL DEF Spec

(* With such folders the file of a thermostat is its document between two     *)
(* calls, except for what the next flush will write, and a reboot finds       *)
(* nobody else.                                                                *)
THEOREM FilesAlwaysFollow == ASSUME OwnFolders PROVE Spec => []FilesFollow
<1>1. FInv => FilesFollow
  BY DEF FInv, Mirrored, FilesFollow, Loaded
<1> QED
  BY <1>1, FilesInvariant, PTL

(* And wherever a call, a flush or a take-over is cut off, no two files are    *)
(* left enabled on one relay where there were none.                            *)
THEOREM FilesStayApart == ASSUME OwnFolders PROVE Spec => FilesKeptApart
<1>1. ASSUME FInv
      PROVE  \A k \in Ids : files[k] \in Doc => /\ Stored(k) /\ docs[k].enabled = files[k].enabled
                                                /\ Names(docs[k]) = Names(files[k])
  BY <1>1 DEF FInv, Mirrored, Stored
<1>2. ASSUME IInv, FInv, [Next]_vars, Exclusive(docs)
      PROVE  Exclusive(files')
  <2>0. \A k \in Ids : Stored(k) => docs[k] \in Doc
    BY <1>2, StoredFacts DEF IInv
  <2>1. CASE PowerCut
    <3>1. \A k \in Ids : \/ files'[k] = files[k]
                         \/ k \in dirty /\ Stored(k) /\ ~docs[k].newer /\ files'[k] = docs[k]
      BY <1>2, <2>1, CutFiles
    <3>2. \A k \in Ids : files'[k] \in Doc => /\ docs[k] \in Doc /\ docs[k].enabled = files'[k].enabled
                                              /\ Names(docs[k]) = Names(files'[k])
      BY <1>1, <1>2, <2>0, <3>1
    <3> QED
      BY <1>2, <3>2 DEF Exclusive
  <2>2. CASE ~PowerCut
    <3>1. Exclusive(docs')
      BY <1>2, <2>2, NextExclusive
    <3>2. FInv' /\ TypeOK'
      BY <1>2, NextMirrors, NextInv DEF OwnFolders, IInv
    <3>3. \A k \in Ids : files'[k] \in Doc => /\ docs'[k] \in Doc /\ docs'[k].enabled = files'[k].enabled
                                              /\ Names(docs'[k]) = Names(files'[k])
      BY <3>2 DEF FInv, Mirrored, Stored, TypeOK
    <3> QED
      BY <3>1, <3>3 DEF Exclusive
  <2> QED
    BY <2>1, <2>2
<1>3. IInv /\ FInv /\ [Next]_vars => [Exclusive(docs) /\ Exclusive(files) /\ NoneNewer => Exclusive(files')]_vars
  BY <1>2
<1> QED
  BY <1>3, FilesInvariant, PTL DEF Spec, FilesKeptApart
=============================================================================
