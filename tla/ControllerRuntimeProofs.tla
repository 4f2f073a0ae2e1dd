----------------------- MODULE ControllerRuntimeProofs ------------------------
(* Proofs about ControllerRuntime, for every set of documents, readings,     *)
(* limits, intervals and dwells.                                             *)
EXTENDS ControllerRuntime, RelayClaimOpsProofs

(* What the thermostat acts on is what the hub heard of its sensor last. *)
Heeds(c, r, heard) ==
  /\ r.hasSample = heard[c.sensor].seen
  /\ r.hasSample => r.silent = heard[c.sensor].age /\ r.temp = heard[c.sensor].value

(* What is left of an earlier document or mode cannot close a relay: the     *)
(* latch is of the mode, and so is each duty unless the law is due.          *)
Served(c, r) ==
  /\ r.latch \in {"idle"} \cup Driven(c)
  /\ ~r.due => \A d \in Directions : r.duty[d] # 0 => d \in Driven(c)

(* A calibration is around the target and on a relay of the document. *)
RunApart(c, r) ==
  Calibrating(r) =>
    /\ c.kind = "pid" /\ c.target = r.run.target /\ r.run.dir \in Driven(c)
    /\ \A d \in Directions \ {r.run.dir} : r.duty[d] = 0

(* Every move that waits to be put back is remembered. *)
MovesKnown(claims) == \A d \in Directions : claims[d].pending => claims[d].moved

Sound(c, r, heard) == Heeds(c, r, heard) /\ Served(c, r) /\ RunApart(c, r)

IInv ==
  /\ TypeOK /\ MovesKnown(rt.claim)
  /\ IF running THEN Sound(doc, rt, last) ELSE ~Calibrating(rt) /\ ~passed
  /\ passed /\ Calibrating(rt) => rt.fault = "none"
  /\ ClosedForCause /\ NoPauseIntegrated
-----------------------------------------------------------------------------
(* The fields of the runtime, and what each part of a handler leaves of them. *)

LEMMA RuntimeSet ==
  ASSUME NEW r \in Runtime
  PROVE  /\ \A v \in [Directions -> Claim] : [r EXCEPT !.claim = v] \in Runtime
         /\ \A v \in BOOLEAN : /\ [r EXCEPT !.hasSample = v] \in Runtime
                               /\ [r EXCEPT !.due = v] \in Runtime
                               /\ [r EXCEPT !.controlled = v] \in Runtime
         /\ \A v \in 0..(Timeout + 1) : [r EXCEPT !.silent = v] \in Runtime
         /\ \A v \in Int : [r EXCEPT !.temp = v] \in Runtime
         /\ \A v \in Faults : [r EXCEPT !.fault = v] \in Runtime
         /\ \A v \in 0..Interval : [r EXCEPT !.sinceControl = v] \in Runtime
         /\ \A v \in Runs : [r EXCEPT !.run = v] \in Runtime
         /\ \A v \in Latches : [r EXCEPT !.latch = v] \in Runtime
         /\ \A v \in [Directions -> 0..Period] : /\ [r EXCEPT !.duty = v] \in Runtime
                                                /\ [r EXCEPT !.phase = v] \in Runtime
  BY DEF Runtime

LEMMA RuntimeTypes ==
  ASSUME NEW r \in Runtime
  PROVE  /\ r.claim \in [Directions -> Claim]
         /\ r.hasSample \in BOOLEAN /\ r.due \in BOOLEAN /\ r.controlled \in BOOLEAN
         /\ r.silent \in 0..(Timeout + 1) /\ r.temp \in Int /\ r.fault \in Faults
         /\ r.sinceControl \in 0..Interval /\ r.run \in Runs /\ r.latch \in Latches
         /\ r.duty \in [Directions -> 0..Period] /\ r.phase \in [Directions -> 0..Period]
  BY DEF Runtime

LEMMA Zeros == 0 \in 0..Interval /\ 0 \in 0..(Timeout + 1) /\ 0 \in 0..MaxRun /\ 0 \in 0..Period
  BY RuntimeAssumption

LEMMA RefreshFaultFacts ==
  ASSUME NEW r \in Runtime, NEW c \in Documents, NEW n, n = RefreshFault(r, c)
  PROVE  /\ n \in Runtime /\ n.fault = Fault(r, c) /\ (r.due => n.due)
         /\ n.claim = r.claim /\ n.hasSample = r.hasSample /\ n.silent = r.silent /\ n.temp = r.temp
         /\ n.controlled = r.controlled /\ n.sinceControl = r.sinceControl /\ n.run = r.run
         /\ n.latch = r.latch /\ n.duty = r.duty /\ n.phase = r.phase
<1>1. PICK f \in Faults : f = Fault(r, c)
  BY DEF Fault, Faults
<1>2. PICK due \in BOOLEAN : due = (r.due \/ (CutsOut(r.fault) /\ ~CutsOut(f)))
  BY RuntimeTypes
<1>3. n = [r EXCEPT !.fault = f, !.due = due]
  BY <1>1, <1>2 DEF RefreshFault
<1>4. PICK m \in Runtime : m = [r EXCEPT !.fault = f]
  BY <1>1, RuntimeSet
<1>5. n = [m EXCEPT !.due = due]
  BY <1>3, <1>4
<1>6. n \in Runtime
  BY <1>2, <1>4, <1>5, RuntimeSet
<1> QED
  BY <1>1, <1>2, <1>3, <1>6 DEF Runtime

(* The modes serve relays of the document only. *)
LEMMA DrivenFacts ==
  ASSUME NEW c \in Documents
  PROVE  c.outs \subseteq Directions /\ Driven(c) \subseteq c.outs /\ c.sensor \in Sensors
  BY DEF Documents, Driven

LEMMA EndRunFacts ==
  ASSUME NEW r \in Runtime, NEW n, n = EndRun(r)
  PROVE  /\ n \in Runtime /\ ~Calibrating(n)
         /\ IF Calibrating(r) THEN ~n.controlled /\ n.due /\ n.duty = Open ELSE n = r
         /\ n.claim = r.claim /\ n.hasSample = r.hasSample /\ n.silent = r.silent /\ n.temp = r.temp
         /\ n.fault = r.fault /\ n.sinceControl = r.sinceControl /\ n.latch = r.latch
<1>1. CASE ~Calibrating(r)
  BY <1>1 DEF EndRun
<1>2. CASE Calibrating(r)
  <2>1. n = [r EXCEPT !.run = NoRun, !.duty = Open, !.controlled = FALSE, !.due = TRUE]
    BY <1>2 DEF EndRun
  <2>2. NoRun \in Runs /\ Open \in [Directions -> 0..Period]
    BY RuntimeAssumption DEF NoRun, Runs, Open
  <2>3. PICK a \in Runtime : a = [r EXCEPT !.run = NoRun]
    BY <2>2, RuntimeSet
  <2>4. PICK b \in Runtime : b = [a EXCEPT !.duty = Open]
    BY <2>2, RuntimeSet
  <2>5. PICK d \in Runtime : d = [b EXCEPT !.controlled = FALSE]
    BY RuntimeSet
  <2>6. n = [d EXCEPT !.due = TRUE]
    BY <2>1, <2>3, <2>4, <2>5
  <2>7. n \in Runtime
    BY <2>6, RuntimeSet
  <2> QED
    BY <1>2, <2>1, <2>7 DEF Runtime, Calibrating
<1> QED
  BY <1>1, <1>2

LEMMA AllOffFacts ==
  ASSUME NEW r \in Runtime, MovesKnown(r.claim), NEW c \in Documents, NEW paced \in BOOLEAN,
         NEW n, n = AllOff(r, c, paced)
  PROVE  /\ n \in Runtime /\ n.duty = Open /\ MovesKnown(n.claim)
         /\ \A d \in c.outs : n.claim[d].relay => paced /\ n.claim[d].pending
<1> DEFINE claims == [d \in Directions |-> IF d \in c.outs THEN ForceOff(r.claim[d], paced) ELSE r.claim[d]]
<1>1. ASSUME NEW d \in Directions
      PROVE  /\ r.claim[d] \in Claim /\ (r.claim[d].pending => r.claim[d].moved)
             /\ d \in c.outs => LET f == ForceOff(r.claim[d], paced)
                                IN /\ f \in Claim /\ (f.pending => f.moved)
                                   /\ f.relay => paced /\ f.pending
  <2>1. r.claim[d] \in Claim /\ (r.claim[d].pending => r.claim[d].moved)
    BY RuntimeTypes DEF MovesKnown
  <2>2. PICK f : f = ForceOff(r.claim[d], paced)
    OBVIOUS
  <2>3. Driving(r.claim[d], FALSE, f) /\ (~paced => ~f.relay)
    BY <2>1, <2>2, ForceOffFacts
  <2>4. f.relay => f.pending
    BY <2>1, <2>2, ForceOffOpens
  <2> QED
    BY <2>1, <2>2, <2>3, <2>4 DEF Driving
<1>2. claims \in [Directions -> Claim] /\ MovesKnown(claims)
  BY <1>1 DEF MovesKnown
<1>3. \A d \in c.outs : claims[d].relay => paced /\ claims[d].pending
  BY <1>1, DrivenFacts
<1>4. Open \in [Directions -> 0..Period]
  BY RuntimeAssumption DEF Open
<1>5. n = [r EXCEPT !.duty = Open, !.claim = claims]
  BY DEF AllOff
<1> HIDE DEF claims
<1>6. PICK a \in Runtime : a = [r EXCEPT !.duty = Open]
  BY <1>4, RuntimeSet
<1>7. n = [a EXCEPT !.claim = claims]
  BY <1>5, <1>6
<1>8. n \in Runtime
  BY <1>2, <1>7, RuntimeSet
<1>9. n.claim = claims /\ n.duty = Open
  BY <1>5 DEF Runtime
<1> QED
  BY <1>2, <1>3, <1>5, <1>8, <1>9 DEF Runtime

LEMMA ControlFacts ==
  ASSUME NEW r \in Runtime, NEW c \in Documents, NEW out \in -Period..Period,
         r.latch \in {"idle"} \cup Driven(c), NEW n, n = Control(r, c, out)
  PROVE  /\ n \in Runtime /\ n.latch \in {"idle"} \cup Driven(c)
         /\ \A d \in Directions : n.duty[d] # 0 => d \in Driven(c)
         /\ n.sinceControl = 0 /\ ~n.due /\ n.controlled
         /\ n.claim = r.claim /\ n.hasSample = r.hasSample /\ n.silent = r.silent /\ n.temp = r.temp
         /\ n.fault = r.fault /\ n.run = r.run /\ n.phase = r.phase
<1> DEFINE new == Latched(r.latch, c, r.temp)
           kept == IF c.kind = "pid" THEN r.latch ELSE new
           duty == IF c.kind = "pid"
                   THEN [d \in Directions |-> IF d \in Driven(c) THEN Share(d, out) ELSE 0]
                   ELSE [d \in Directions |-> IF new = d THEN Period ELSE 0]
<1>1. new \in {"idle"} \cup Driven(c)
  BY DEF Latched
<1>2. kept \in {"idle"} \cup Driven(c) /\ kept \in Latches
  BY <1>1, DrivenFacts DEF Latches
<1>3. /\ duty \in [Directions -> 0..Period]
      /\ \A d \in Directions : duty[d] # 0 => d \in Driven(c)
  <2>1. CASE c.kind = "pid"
    <3>1. \A d \in Directions : Share(d, out) \in 0..Period
      BY RuntimeAssumption DEF Share
    <3> QED
      BY <2>1, <3>1, RuntimeAssumption
  <2>2. CASE c.kind # "pid"
    BY <1>1, <2>2, RuntimeAssumption DEF Directions
  <2> QED
    BY <2>1, <2>2
<1>4. n = [r EXCEPT !.duty = duty, !.latch = kept, !.sinceControl = 0, !.controlled = TRUE, !.due = FALSE]
  BY DEF Control
<1> HIDE DEF new, kept, duty
<1>5. PICK a \in Runtime : a = [r EXCEPT !.duty = duty]
  BY <1>3, RuntimeSet
<1>6. PICK b \in Runtime : b = [a EXCEPT !.latch = kept]
  BY <1>2, RuntimeSet
<1>7. PICK d \in Runtime : d = [b EXCEPT !.sinceControl = 0]
  <2>1. 0 \in 0..Interval
    BY RuntimeAssumption
  <2> QED
    BY <2>1, RuntimeSet
<1>8. PICK e \in Runtime : e = [d EXCEPT !.controlled = TRUE]
  BY RuntimeSet
<1>9. n = [e EXCEPT !.due = FALSE]
  BY <1>4, <1>5, <1>6, <1>7, <1>8
<1>10. n \in Runtime
  BY <1>9, RuntimeSet
<1>11. n.latch = kept /\ n.duty = duty
  BY <1>4 DEF Runtime
<1> QED
  BY <1>2, <1>3, <1>4, <1>10, <1>11 DEF Runtime

(* No pulse without a duty. *)
LEMMA PulseFacts ==
  ASSUME NEW duty \in 0..Period, NEW phase \in 0..Period, InPulse(duty, phase)
  PROVE  duty # 0
  BY RuntimeAssumption DEF InPulse

LEMMA DriveFacts ==
  ASSUME NEW r \in Runtime, MovesKnown(r.claim), NEW c \in Documents, NEW n, n = Drive(r, c)
  PROVE  /\ n \in Runtime /\ MovesKnown(n.claim)
         /\ \A d \in c.outs : n.claim[d].relay =>
              r.duty[d] # 0 \/ n.claim[d].wait = "min_on" \/ n.claim[d].pending
         /\ n.hasSample = r.hasSample /\ n.silent = r.silent /\ n.temp = r.temp /\ n.fault = r.fault
         /\ n.due = r.due /\ n.controlled = r.controlled /\ n.sinceControl = r.sinceControl
         /\ n.run = r.run /\ n.latch = r.latch /\ n.duty = r.duty
<1> DEFINE wanted(d) == InPulse(r.duty[d], Started(r.phase[d]))
           claims == [d \in Directions |-> IF d \in c.outs THEN Request(r.claim[d], wanted(d)) ELSE r.claim[d]]
           phase == [d \in Directions |-> IF d \in c.outs THEN Started(r.phase[d]) ELSE r.phase[d]]
<1>1. phase \in [Directions -> 0..Period]
  BY RuntimeTypes, RuntimeAssumption DEF Started
<1>2. ASSUME NEW d \in Directions
      PROVE  /\ r.claim[d] \in Claim /\ (r.claim[d].pending => r.claim[d].moved)
             /\ LET f == Request(r.claim[d], wanted(d))
                IN /\ f \in Claim /\ (f.pending => f.moved)
                   /\ f.relay => r.duty[d] # 0 \/ f.wait = "min_on" \/ f.pending
  <2>1. r.claim[d] \in Claim /\ (r.claim[d].pending => r.claim[d].moved)
    BY RuntimeTypes DEF MovesKnown
  <2>2. PICK want \in BOOLEAN : want = wanted(d)
    BY DEF InPulse
  <2>3. want => r.duty[d] # 0
    <3>1. r.duty[d] \in 0..Period /\ Started(r.phase[d]) \in 0..Period
      BY RuntimeTypes, RuntimeAssumption DEF Started
    <3> QED
      BY <2>2, <3>1, PulseFacts
  <2>4. PICK f : f = Request(r.claim[d], want)
    OBVIOUS
  <2>5. Driving(r.claim[d], want, f)
    BY <2>1, <2>4, RequestFacts
  <2>6. f.wait = IF f.state = want \/ f.pending THEN "none" ELSE IF f.state THEN "min_on" ELSE "min_off"
    BY <2>1, <2>4, RequestWaits
  <2>7. f \in Claim /\ (f.pending => f.moved) /\ f.relay = f.state /\ f.state \in BOOLEAN
    BY <2>5, FieldTypes DEF Driving
  <2>8. f.relay => r.duty[d] # 0 \/ f.wait = "min_on" \/ f.pending
    BY <2>3, <2>6, <2>7
  <2> QED
    BY <2>1, <2>2, <2>4, <2>7, <2>8
<1> HIDE DEF wanted
<1>3. claims \in [Directions -> Claim] /\ MovesKnown(claims)
  BY <1>2 DEF MovesKnown
<1>4. \A d \in c.outs : claims[d].relay => r.duty[d] # 0 \/ claims[d].wait = "min_on" \/ claims[d].pending
  BY <1>2, DrivenFacts
<1>5. n = [r EXCEPT !.phase = phase, !.claim = claims]
  BY DEF Drive, wanted
<1> HIDE DEF claims, phase
<1>6. PICK a \in Runtime : a = [r EXCEPT !.phase = phase]
  BY <1>1, RuntimeSet
<1>7. n = [a EXCEPT !.claim = claims]
  BY <1>5, <1>6
<1>8. n \in Runtime
  BY <1>3, <1>7, RuntimeSet
<1>9. n.claim = claims
  BY <1>5 DEF Runtime
<1> QED
  BY <1>3, <1>4, <1>5, <1>8, <1>9 DEF Runtime

(* A reading moves the run's own duty, or ends the run. *)
LEMMA FeedFacts ==
  ASSUME NEW r \in Runtime, Calibrating(r), NEW temp \in Int, NEW tuned \in Tuned,
         NEW n, n = Feed(r, temp, tuned)
  PROVE  /\ n \in Runtime
         /\ \/ n = EndRun(r)
            \/ n.run = r.run /\ \A d \in Directions \ {r.run.dir} : n.duty[d] = 0
         /\ n.claim = r.claim /\ n.hasSample = r.hasSample /\ n.silent = r.silent /\ n.temp = r.temp
         /\ n.fault = r.fault /\ n.sinceControl = r.sinceControl /\ n.latch = r.latch
         /\ r.due => n.due
<1>1. CASE n = EndRun(r)
  BY <1>1, EndRunFacts
<1>2. CASE n # EndRun(r)
  <2> DEFINE duty == [d \in Directions |-> IF d = r.run.dir /\ tuned = "on" THEN Period ELSE 0]
  <2>1. n = [r EXCEPT !.duty = duty]
    BY <1>2 DEF Feed
  <2>2. /\ duty \in [Directions -> 0..Period]
        /\ \A d \in Directions \ {r.run.dir} : duty[d] = 0
    BY RuntimeAssumption
  <2> HIDE DEF duty
  <2>3. n \in Runtime
    BY <2>1, <2>2, RuntimeSet
  <2> QED
    BY <2>1, <2>2, <2>3 DEF Runtime
<1> QED
  BY <1>1, <1>2

(* A start takes over the hub's reading and lets go of latch and law. *)
LEMMA BeginFacts ==
  ASSUME TypeOK, NEW r \in Runtime, ~Calibrating(r), NEW previous, NEW c \in Documents,
         NEW n, n = Begin(r, previous, c)
  PROVE  /\ n \in Runtime /\ Sound(c, n, last) /\ ~Calibrating(n)
         /\ n.claim = r.claim /\ n.sinceControl = r.sinceControl
         /\ n.controlled => /\ r.controlled /\ previous.sensor = c.sensor
                            /\ previous.kind = "pid" /\ c.kind = "pid"
<1> DEFINE same == previous # Stopped /\ previous.sensor = c.sensor
           keepPid == same /\ previous.kind = "pid" /\ c.kind = "pid"
           keepLatch == previous # Stopped /\ previous.kind = "bang_bang" /\ c.kind = "bang_bang"
           on == {d \in Driven(c) : IF keepLatch THEN r.latch = d ELSE r.claim[d].state}
           latch == IF "heat" \in on THEN "heat" ELSE IF "cool" \in on THEN "cool" ELSE "idle"
           heard == last[c.sensor]
           silent == IF heard.seen THEN heard.age ELSE IF same THEN r.silent ELSE 0
           begun == [Heard(r, c.sensor, same) EXCEPT !.latch = latch, !.due = TRUE,
                                                     !.controlled = @ /\ keepPid]
<1>1. /\ heard.seen \in BOOLEAN /\ heard.age \in 0..(Timeout + 1) /\ heard.value \in Int
      /\ silent \in 0..(Timeout + 1)
  <2>1. 0 \in 0..(Timeout + 1)
    BY RuntimeAssumption
  <2> QED
    BY <2>1, DrivenFacts, RuntimeTypes DEF TypeOK
<1>2. latch \in {"idle"} \cup Driven(c) /\ latch \in Latches
  BY DrivenFacts DEF Latches
<1>3. n = RefreshFault(begun, c)
  BY DEF Begin
<1>4. PICK controlled \in BOOLEAN : controlled = (r.controlled /\ keepPid)
  OBVIOUS
<1>5. PICK h : h = [r EXCEPT !.hasSample = heard.seen, !.temp = heard.value, !.silent = silent]
  OBVIOUS
<1>6. Heard(r, c.sensor, same) = h
  BY <1>5 DEF Heard
<1> HIDE DEF silent, latch, heard
<1>7. h \in Runtime
  <2>1. PICK a \in Runtime : a = [r EXCEPT !.hasSample = heard.seen]
    BY <1>1, RuntimeSet
  <2>2. PICK b \in Runtime : b = [a EXCEPT !.temp = heard.value]
    BY <1>1, RuntimeSet
  <2>3. h = [b EXCEPT !.silent = silent]
    BY <1>5, <2>1, <2>2
  <2> QED
    BY <1>1, <2>3, RuntimeSet
<1>8. /\ h.hasSample = heard.seen /\ h.temp = heard.value /\ h.silent = silent
      /\ h.claim = r.claim /\ h.controlled = r.controlled /\ h.sinceControl = r.sinceControl
      /\ h.run = r.run
  BY <1>5 DEF Runtime
<1>9. begun = [h EXCEPT !.latch = latch, !.due = TRUE, !.controlled = controlled]
  BY <1>4, <1>6, <1>8
<1> HIDE DEF begun, keepPid
<1>10. begun \in Runtime
  <2>1. PICK a \in Runtime : a = [h EXCEPT !.latch = latch]
    BY <1>2, <1>7, RuntimeSet
  <2>2. PICK b \in Runtime : b = [a EXCEPT !.due = TRUE]
    BY RuntimeSet
  <2>3. begun = [b EXCEPT !.controlled = controlled]
    BY <1>9, <2>1, <2>2
  <2> QED
    BY <2>3, RuntimeSet
<1>11. /\ begun.latch = latch /\ begun.due /\ begun.controlled = controlled
       /\ begun.hasSample = heard.seen /\ begun.temp = heard.value /\ begun.silent = silent
       /\ begun.claim = r.claim /\ begun.sinceControl = r.sinceControl /\ begun.run = r.run
  BY <1>7, <1>8, <1>9 DEF Runtime
<1>12. /\ n \in Runtime /\ n.latch = latch /\ n.due /\ n.controlled = controlled
       /\ n.hasSample = heard.seen /\ n.temp = heard.value /\ n.silent = silent
       /\ n.claim = r.claim /\ n.sinceControl = r.sinceControl /\ n.run = r.run
  BY <1>3, <1>10, <1>11, RefreshFaultFacts
<1>13. ~Calibrating(n)
  BY <1>12 DEF Calibrating
<1>14. Sound(c, n, last)
  BY <1>1, <1>2, <1>12, <1>13 DEF Sound, Heeds, Served, RunApart, heard, silent
<1> QED
  BY <1>4, <1>12, <1>13, <1>14 DEF keepPid

LEMMA IdleFacts ==
  ASSUME NEW claims \in [Directions -> Claim], NEW n, n = Idle(claims)
  PROVE  /\ n \in Runtime /\ n.claim = claims
         /\ ~Calibrating(n) /\ ~n.controlled /\ ~n.hasSample
<1>1. /\ 0 \in 0..(Timeout + 1) /\ 0 \in 0..Interval /\ NoRun \in Runs
      /\ Open \in [Directions -> 0..Period]
      /\ [d \in Directions |-> Period] \in [Directions -> 0..Period]
  BY RuntimeAssumption DEF NoRun, Runs, Open
<1>2. n \in Runtime
  BY <1>1 DEF Idle, Runtime, Faults, Latches
<1> QED
  BY <1>2 DEF Idle, Calibrating

(* What a document lets go of is opened, what it takes starts clean. *)
LEMMA ClaimedFacts ==
  ASSUME NEW claims \in [Directions -> Claim], MovesKnown(claims), NEW outs \in SUBSET Directions,
         NEW c \in Documents, NEW n, n = Claimed(claims, outs, c)
  PROVE  n \in [Directions -> Claim] /\ MovesKnown(n)
<1>1. PICK paced \in BOOLEAN : paced = FALSE
  OBVIOUS
<1>2. ASSUME NEW d \in Directions PROVE n[d] \in Claim /\ (n[d].pending => n[d].moved)
  <2>1. claims[d] \in Claim /\ (claims[d].pending => claims[d].moved) /\ DwellAt[d] \in Dwells
    BY RuntimeAssumption DEF MovesKnown
  <2>2. CASE d \in outs \ c.outs
    <3>1. n[d] = ForceOff(claims[d], paced)
      BY <1>1, <2>2 DEF Claimed
    <3>2. Driving(claims[d], FALSE, n[d])
      BY <2>1, <3>1, ForceOffFacts
    <3> QED
      BY <3>2 DEF Driving
  <2>3. CASE d \in c.outs \ outs
    <3>1. n[d] = Anew(claims[d], DwellAt[d])
      BY <2>3 DEF Claimed
    <3> QED
      BY <2>1, <3>1, AnewFacts
  <2>4. CASE ~(d \in outs \ c.outs) /\ ~(d \in c.outs \ outs)
    <3>1. n[d] = claims[d]
      BY <2>4 DEF Claimed
    <3> QED
      BY <2>1, <3>1
  <2> QED
    BY <2>2, <2>3, <2>4
<1>3. n = [d \in Directions |-> n[d]]
  BY DEF Claimed
<1> QED
  BY <1>2, <1>3 DEF MovesKnown
-----------------------------------------------------------------------------
(* The invariant, action by action. *)

LEMMA InitInv == Init => IInv
<1> SUFFICES ASSUME Init PROVE IInv
  OBVIOUS
<1>1. PICK claims : rt = Idle(claims) /\ claims = [d \in Directions |->
        [relay |-> FALSE, state |-> FALSE, age |-> MaxAge, putBack |-> MaxAge, moves |-> 0, moved |-> FALSE,
         pending |-> FALSE, fresh |-> TRUE, wait |-> "none", dwell |-> DwellAt[d]]]
  BY DEF Init
<1>2. ASSUME NEW d \in Directions PROVE claims[d] \in Claim /\ ~claims[d].pending
  <2>1. DwellAt[d] \in Dwells /\ 0 \in 0..ContestMoves
    BY RuntimeAssumption, ClaimAssumption
  <2> QED
    BY <1>1, <2>1, Numbers DEF Claim, Waits
<1>3. claims \in [Directions -> Claim] /\ MovesKnown(claims)
  BY <1>1, <1>2 DEF MovesKnown
<1>4. rt \in Runtime /\ rt.claim = claims /\ ~Calibrating(rt)
  BY <1>1, <1>3, IdleFacts
<1>5. TypeOK
  <2>1. 0 \in 0..(Timeout + 1) /\ 0 \in 0..Interval
    BY RuntimeAssumption
  <2>2. last \in [Sensors -> [seen : BOOLEAN, age : 0..(Timeout + 1), value : Int]]
    <3>1. [seen |-> FALSE, age |-> 0, value |-> 0] \in [seen : BOOLEAN, age : 0..(Timeout + 1), value : Int]
      BY <2>1
    <3> QED
      BY <3>1 DEF Init
  <2> QED
    BY <1>4, <2>1, <2>2 DEF Init, TypeOK
<1> QED
  BY <1>3, <1>4, <1>5 DEF Init, IInv, running, ClosedForCause, NoPauseIntegrated

(* Outside a pass, what a pass promises asks for nothing. *)
LEMMA CalledInv ==
  ASSUME TypeOK', ~passed', MovesKnown(rt'.claim),
         IF doc' # Stopped THEN Sound(doc', rt', last') ELSE ~Calibrating(rt'),
         doc' # Stopped /\ ~Calibrating(rt') /\ rt'.controlled => rt'.sinceControl <= unbroken'
  PROVE  IInv'
  BY DEF IInv, running, ClosedForCause, NoPauseIntegrated

LEMMA RuntimeInv ==
  ASSUME IInv
  PROVE  /\ rt \in Runtime /\ MovesKnown(rt.claim) /\ unbroken \in 0..Interval /\ passed \in BOOLEAN
         /\ running => doc \in Documents /\ Sound(doc, rt, last)
         /\ ~running => ~Calibrating(rt) /\ doc = Stopped
         /\ running /\ ~Calibrating(rt) /\ rt.controlled => rt.sinceControl <= unbroken
  BY DEF IInv, TypeOK, running, NoPauseIntegrated

LEMMA WatchFacts ==
  ASSUME IInv, NEW pauses \in BOOLEAN, Watch(pauses)
  PROVE  /\ unbroken' \in 0..Interval
         /\ ~pauses /\ ~Calibrating(rt) /\ ~Calibrating(rt') => unbroken' = unbroken
  BY RuntimeAssumption DEF Watch, IInv, TypeOK

LEMMA CalledFacts ==
  ASSUME IInv, Called(FALSE)
  PROVE  /\ ~passed' /\ passed' \in BOOLEAN /\ unbroken' \in 0..Interval
         /\ ~Calibrating(rt) /\ ~Calibrating(rt') => unbroken' = unbroken
<1>1. passed' = FALSE
  BY DEF Called
<1>2. unbroken' = IF Calibrating(rt) \/ Calibrating(rt') THEN 0 ELSE unbroken
  BY DEF Called, Watch
<1>3. unbroken \in 0..Interval /\ 0 \in 0..Interval
  BY RuntimeInv, RuntimeAssumption
<1> QED
  BY <1>1, <1>2, <1>3

LEMMA CommandInv ==
  ASSUME IInv, NEW mode \in Modes, NEW target \in Targets, Command(mode, target)
  PROVE  IInv'
<1> DEFINE c == [doc EXCEPT !.mode = mode, !.target = target]
<1>1. running /\ doc' = c /\ UNCHANGED last /\ Called(FALSE)
  BY DEF Command
<1>2. doc \in Documents /\ rt \in Runtime /\ Sound(doc, rt, last)
  BY <1>1, RuntimeInv
<1>3. target \in Int
  BY RuntimeAssumption DEF Targets, Documents
<1>4. c \in Documents /\ c.outs = doc.outs /\ c.sensor = doc.sensor /\ c.kind = doc.kind
      /\ c.mode = mode /\ c.target = target
  BY <1>2, <1>3 DEF Documents
<1> HIDE DEF c
<1>5. PICK e : e = IF Disturbs(c) THEN EndRun(rt) ELSE rt
  OBVIOUS
<1>6. /\ e \in Runtime /\ e.claim = rt.claim /\ e.hasSample = rt.hasSample /\ e.silent = rt.silent
      /\ e.temp = rt.temp /\ e.sinceControl = rt.sinceControl /\ e.latch = rt.latch
      /\ e = rt \/ ~Calibrating(e)
      /\ Calibrating(rt) /\ ~Calibrating(e) => ~e.controlled
  BY <1>2, <1>5, EndRunFacts
<1>7. PICK r : r = Relatched(e, c)
  OBVIOUS
<1>8. /\ r \in Runtime /\ r.latch = IF c.mode # doc.mode THEN "idle" ELSE e.latch
      /\ r.claim = e.claim /\ r.hasSample = e.hasSample /\ r.silent = e.silent /\ r.temp = e.temp
      /\ r.sinceControl = e.sinceControl /\ r.controlled = e.controlled /\ r.run = e.run /\ r.duty = e.duty
  <2>1. "idle" \in Latches
    BY DEF Latches
  <2>2. CASE c.mode # doc.mode
    <3>1. r = [e EXCEPT !.latch = "idle"]
      BY <1>7, <2>2 DEF Relatched
    <3>2. r \in Runtime
      BY <1>6, <2>1, <3>1, RuntimeSet
    <3> QED
      BY <1>6, <2>2, <3>1, <3>2 DEF Runtime
  <2>3. CASE c.mode = doc.mode
    BY <1>6, <1>7, <2>3 DEF Relatched
  <2> QED
    BY <2>2, <2>3
<1>9. rt' = [r EXCEPT !.due = TRUE]
  BY <1>5, <1>7 DEF Command, c
<1>10. /\ rt' \in Runtime /\ rt'.due /\ rt'.latch = r.latch /\ rt'.claim = rt.claim
       /\ rt'.hasSample = rt.hasSample /\ rt'.silent = rt.silent /\ rt'.temp = rt.temp
       /\ rt'.sinceControl = rt.sinceControl /\ rt'.controlled = e.controlled /\ rt'.run = e.run
       /\ rt'.duty = e.duty
  <2>1. rt' \in Runtime
    BY <1>8, <1>9, RuntimeSet
  <2> QED
    BY <1>6, <1>8, <1>9, <2>1 DEF Runtime
<1>11. Calibrating(rt') <=> Calibrating(e)
  BY <1>10 DEF Calibrating
<1>12. Served(c, rt')
  BY <1>2, <1>4, <1>6, <1>8, <1>10 DEF Served, Sound, Driven
<1>13. RunApart(c, rt')
  <2>1. CASE ~Calibrating(rt')
    BY <2>1 DEF RunApart
  <2>2. CASE Calibrating(rt')
    <3>1. e = rt /\ Calibrating(rt) /\ ~Disturbs(c)
      BY <1>2, <1>5, <1>6, <1>11, <2>2, EndRunFacts
    <3>2. c.mode = doc.mode /\ c.target = doc.target
      BY <3>1 DEF Disturbs
    <3> QED
      BY <1>2, <1>4, <1>10, <3>1, <3>2 DEF RunApart, Sound, Driven
  <2> QED
    BY <2>1, <2>2
<1>14. Sound(doc', rt', last')
  BY <1>1, <1>2, <1>4, <1>10, <1>12, <1>13 DEF Sound, Heeds
<1>15. TypeOK'
  BY <1>1, <1>4, <1>10, CalledFacts DEF TypeOK, IInv
<1>16. ~Calibrating(rt') /\ rt'.controlled => rt'.sinceControl <= unbroken'
  <2>1. ~Calibrating(rt') /\ rt'.controlled => ~Calibrating(rt) /\ rt.controlled
    BY <1>2, <1>5, <1>6, <1>10, <1>11, EndRunFacts
  <2>2. ~Calibrating(rt) /\ rt.controlled => rt.sinceControl <= unbroken
    BY <1>1, RuntimeInv
  <2>3. ~Calibrating(rt) /\ ~Calibrating(rt') => unbroken' = unbroken
    BY <1>1, CalledFacts
  <2> QED
    BY <1>10, <2>1, <2>2, <2>3
<1>17. MovesKnown(rt'.claim)
  BY <1>10, RuntimeInv
<1> QED
  BY <1>1, <1>4, <1>14, <1>15, <1>16, <1>17, RuntimeAssumption, CalledFacts, CalledInv

LEMMA SaveInv == ASSUME IInv, NEW c \in Docs, Save(c) PROVE IInv'
<1>1. PICK pauses \in BOOLEAN : pauses = (doc.kind # c.kind \/ doc.sensor # c.sensor)
  OBVIOUS
<1>2. running /\ doc' = c /\ UNCHANGED last /\ passed' = FALSE /\ Watch(pauses)
  BY <1>1 DEF Save, Called
<1>3. c \in Documents /\ c # Stopped
  BY RuntimeAssumption
<1>4. doc \in Documents /\ rt \in Runtime /\ MovesKnown(rt.claim)
  BY <1>2, RuntimeInv
<1>5. PICK e \in Runtime : e = EndRun(rt)
  BY <1>4, EndRunFacts
<1>6. PICK claims : claims = Claimed(e.claim, doc.outs, c)
  OBVIOUS
<1>7. claims \in [Directions -> Claim] /\ MovesKnown(claims)
  <2>1. e.claim \in [Directions -> Claim] /\ MovesKnown(e.claim)
    BY <1>4, <1>5, EndRunFacts, RuntimeTypes
  <2>2. doc.outs \in SUBSET Directions
    BY <1>4, DrivenFacts
  <2> QED
    BY <1>3, <1>6, <2>1, <2>2, ClaimedFacts
<1>8. PICK r \in Runtime : r = [e EXCEPT !.claim = claims]
  BY <1>5, <1>7, RuntimeSet
<1>9. /\ r.claim = claims /\ ~Calibrating(r) /\ r.controlled = e.controlled
      /\ r.sinceControl = rt.sinceControl /\ (e.controlled => ~Calibrating(rt) /\ rt.controlled)
  <2>1. r.claim = claims /\ r.controlled = e.controlled /\ r.sinceControl = e.sinceControl /\ r.run = e.run
    BY <1>8 DEF Runtime
  <2> QED
    BY <1>4, <1>5, <2>1, EndRunFacts DEF Calibrating
<1>10. rt' = Begin(r, doc, c)
  BY <1>5, <1>6, <1>8 DEF Save
<1>11. /\ rt' \in Runtime /\ Sound(c, rt', last) /\ ~Calibrating(rt')
       /\ rt'.claim = r.claim /\ rt'.sinceControl = r.sinceControl
       /\ rt'.controlled => r.controlled /\ doc.sensor = c.sensor /\ doc.kind = "pid" /\ c.kind = "pid"
  BY <1>3, <1>9, <1>10, BeginFacts DEF IInv
<1>12. unbroken' \in 0..Interval
  BY <1>2, WatchFacts
<1>13. TypeOK'
  BY <1>2, <1>3, <1>11, <1>12 DEF TypeOK, IInv
<1>14. rt'.controlled => rt'.sinceControl <= unbroken'
  <2>1. SUFFICES ASSUME rt'.controlled PROVE rt'.sinceControl <= unbroken'
    OBVIOUS
  <2>2. ~pauses /\ ~Calibrating(rt) /\ rt.controlled
    BY <1>1, <1>9, <1>11, <2>1
  <2>3. unbroken' = unbroken
    BY <1>2, <1>11, <2>2, WatchFacts
  <2> QED
    BY <1>2, <1>9, <1>11, <2>2, <2>3, RuntimeInv
<1>15. Sound(doc', rt', last')
  BY <1>2, <1>11
<1> QED
  BY <1>2, <1>3, <1>7, <1>9, <1>11, <1>13, <1>14, <1>15, CalledInv

LEMMA StartInv ==
  ASSUME IInv, NEW c \in Docs, NEW handed \in SUBSET c.outs, NEW age \in Age, Start(c, handed, age)
  PROVE  IInv'
<1>1. doc' = c /\ UNCHANGED last /\ passed' = FALSE /\ unbroken' = 0
  BY DEF Start, Called, Watch
<1>2. c \in Documents /\ c # Stopped
  BY RuntimeAssumption
<1>3. rt \in Runtime /\ MovesKnown(rt.claim) /\ rt.claim \in [Directions -> Claim]
  BY RuntimeInv, RuntimeTypes
<1>4. PICK left : left = [d \in Directions |-> IF d \in handed
                           THEN [rt.claim[d] EXCEPT !.relay = TRUE, !.state = TRUE, !.age = age]
                           ELSE rt.claim[d]]
  OBVIOUS
<1>5. ASSUME NEW d \in Directions PROVE left[d] \in Claim /\ (left[d].pending => left[d].moved)
  <2>1. rt.claim[d] \in Claim /\ (rt.claim[d].pending => rt.claim[d].moved)
    BY <1>3 DEF MovesKnown
  <2>2. CASE d \in handed
    <3>1. PICK a \in Claim : a = [rt.claim[d] EXCEPT !.relay = TRUE]
      BY <2>1, FieldSet
    <3>2. PICK b \in Claim : b = [a EXCEPT !.state = TRUE]
      BY FieldSet
    <3>3. left[d] = [b EXCEPT !.age = age]
      BY <1>4, <2>2, <3>1, <3>2
    <3>4. left[d] \in Claim
      BY <3>3, FieldSet
    <3>5. left[d].pending = rt.claim[d].pending /\ left[d].moved = rt.claim[d].moved
      BY <2>1, <3>1, <3>2, <3>3 DEF Claim
    <3> QED
      BY <2>1, <3>4, <3>5
  <2>3. CASE d \notin handed
    BY <1>4, <2>1, <2>3
  <2> QED
    BY <2>2, <2>3
<1>6. left \in [Directions -> Claim] /\ MovesKnown(left)
  BY <1>4, <1>5 DEF MovesKnown
<1>7. PICK claims : claims = Claimed(left, {}, c)
  OBVIOUS
<1>8. claims \in [Directions -> Claim] /\ MovesKnown(claims)
  <2>1. {} \in SUBSET Directions
    OBVIOUS
  <2> QED
    BY <1>2, <1>6, <1>7, <2>1, ClaimedFacts
<1>9. PICK r \in Runtime : r = Idle(claims) /\ r.claim = claims /\ ~Calibrating(r) /\ ~r.controlled
  BY <1>8, IdleFacts
<1>10. rt' = Begin(r, Stopped, c)
  BY <1>4, <1>7, <1>9 DEF Start
<1>11. /\ rt' \in Runtime /\ Sound(c, rt', last) /\ ~Calibrating(rt') /\ rt'.claim = claims
       /\ ~rt'.controlled
  BY <1>2, <1>9, <1>10, BeginFacts DEF IInv
<1>12. TypeOK'
  BY <1>1, <1>2, <1>11, Zeros DEF TypeOK, IInv
<1>13. Sound(doc', rt', last')
  BY <1>1, <1>11
<1> QED
  BY <1>1, <1>2, <1>8, <1>11, <1>12, <1>13, CalledInv

LEMMA StopInv == ASSUME IInv, Stop PROVE IInv'
<1>1. running /\ doc' = Stopped /\ UNCHANGED last /\ passed' = FALSE /\ unbroken' = 0
  BY DEF Stop, Called, Watch
<1>2. doc \in Documents /\ rt \in Runtime /\ MovesKnown(rt.claim)
  BY <1>1, RuntimeInv
<1>3. PICK e \in Runtime : e = EndRun(rt) /\ MovesKnown(e.claim)
  BY <1>2, EndRunFacts
<1>4. PICK paced \in BOOLEAN : paced = FALSE
  OBVIOUS
<1>5. PICK n \in Runtime : n = AllOff(e, doc, paced) /\ MovesKnown(n.claim)
  BY <1>2, <1>3, AllOffFacts
<1>6. rt' = Idle(n.claim)
  BY <1>3, <1>4, <1>5 DEF Stop
<1>7. n.claim \in [Directions -> Claim]
  BY <1>5, RuntimeTypes
<1>8. rt' \in Runtime /\ rt'.claim = n.claim /\ ~Calibrating(rt')
  BY <1>6, <1>7, IdleFacts
<1>9. TypeOK'
  BY <1>1, <1>8, Zeros DEF TypeOK, IInv
<1> QED
  BY <1>1, <1>5, <1>8, <1>9, CalledInv

(* A run that ends, or goes on, leaves nothing of itself in the law. *)
LEMMA EndedSound ==
  ASSUME NEW r \in Runtime, NEW c \in Documents, NEW heard, Sound(c, r, heard), NEW n, n = EndRun(r)
  PROVE  Sound(c, n, heard)
<1>1. CASE ~Calibrating(r)
  BY <1>1, EndRunFacts
<1>2. CASE Calibrating(r)
  BY <1>2, EndRunFacts DEF Sound, Heeds, Served, RunApart
<1> QED
  BY <1>1, <1>2

LEMMA FedSound ==
  ASSUME NEW r \in Runtime, NEW c \in Documents, Calibrating(r),
         c.kind = "pid", c.target = r.run.target, r.run.dir \in Driven(c),
         r.latch \in {"idle"} \cup Driven(c),
         NEW temp \in Int, NEW tuned \in Tuned, NEW n, n = Feed(r, temp, tuned)
  PROVE  Served(c, n) /\ RunApart(c, n) /\ (~Calibrating(n) => ~n.controlled)
<1>1. CASE n = EndRun(r)
  BY <1>1, EndRunFacts DEF Served, RunApart
<1>2. CASE n # EndRun(r)
  <2>1. n.run = r.run /\ (\A d \in Directions \ {r.run.dir} : n.duty[d] = 0) /\ n.latch = r.latch
    BY <1>2, FeedFacts
  <2>2. Calibrating(n)
    BY <2>1 DEF Calibrating
  <2> QED
    BY <2>1, <2>2 DEF Served, RunApart
<1> QED
  BY <1>1, <1>2

LEMMA CancelRunInv == ASSUME IInv, CancelRun PROVE IInv'
<1>1. running /\ doc' = doc /\ UNCHANGED last /\ Called(FALSE) /\ rt' = EndRun(rt) /\ Calibrating(rt)
  BY DEF CancelRun
<1>2. doc \in Documents /\ rt \in Runtime /\ Sound(doc, rt, last) /\ MovesKnown(rt.claim)
  BY <1>1, RuntimeInv
<1>3. /\ rt' \in Runtime /\ ~Calibrating(rt') /\ ~rt'.controlled /\ MovesKnown(rt'.claim)
      /\ Sound(doc, rt', last)
  BY <1>1, <1>2, EndRunFacts, EndedSound
<1>4. TypeOK'
  BY <1>1, <1>2, <1>3, CalledFacts DEF TypeOK, IInv
<1>5. Sound(doc', rt', last') /\ doc' # Stopped /\ ~passed'
  BY <1>1, <1>3, CalledFacts DEF running
<1> QED
  BY <1>3, <1>4, <1>5, CalledInv

LEMMA StartRunInv ==
  ASSUME IInv, NEW d \in Directions, NEW tuned \in Tuned, StartRun(d, tuned)
  PROVE  IInv'
<1> DEFINE run == [dir |-> d, target |-> doc.target, age |-> 0]
<1>1. /\ running /\ doc' = doc /\ UNCHANGED last /\ Called(FALSE)
      /\ doc.kind = "pid" /\ ~Calibrating(rt) /\ d \in Driven(doc)
  BY DEF StartRun
<1>2. doc \in Documents /\ rt \in Runtime /\ Sound(doc, rt, last) /\ MovesKnown(rt.claim)
  BY <1>1, RuntimeInv
<1>3. run \in Runs /\ run # NoRun
  <2>1. doc.target \in Int
    BY <1>2 DEF Documents
  <2>2. d # "none"
    BY DEF Directions
  <2> QED
    BY <2>1, <2>2, Zeros DEF Runs, NoRun
<1>4. PICK r \in Runtime : r = [rt EXCEPT !.run = run]
  BY <1>2, <1>3, RuntimeSet
<1>5. /\ r.run = run /\ r.claim = rt.claim /\ r.hasSample = rt.hasSample /\ r.silent = rt.silent
      /\ r.temp = rt.temp /\ r.latch = rt.latch
  BY <1>2, <1>4 DEF Runtime
<1>6. /\ Calibrating(r) /\ doc.target = r.run.target /\ r.run.dir \in Driven(doc)
      /\ r.latch \in {"idle"} \cup Driven(doc)
  BY <1>1, <1>2, <1>3, <1>5 DEF Calibrating, Sound, Served
<1>7. rt' = IF rt.hasSample THEN Feed(r, rt.temp, tuned) ELSE [r EXCEPT !.duty = Open]
  BY <1>4 DEF StartRun
<1>8. /\ rt' \in Runtime /\ rt'.claim = rt.claim /\ rt'.hasSample = rt.hasSample
      /\ rt'.silent = rt.silent /\ rt'.temp = rt.temp
      /\ Served(doc, rt') /\ RunApart(doc, rt') /\ (~Calibrating(rt') => ~rt'.controlled)
  <2>1. CASE rt.hasSample
    <3>1. rt.temp \in Int /\ rt' = Feed(r, rt.temp, tuned)
      BY <1>2, <1>7, <2>1, RuntimeTypes
    <3>2. /\ rt' \in Runtime /\ rt'.claim = r.claim /\ rt'.hasSample = r.hasSample
          /\ rt'.silent = r.silent /\ rt'.temp = r.temp
      BY <1>6, <3>1, FeedFacts
    <3>3. Served(doc, rt') /\ RunApart(doc, rt') /\ (~Calibrating(rt') => ~rt'.controlled)
      BY <1>1, <1>2, <1>6, <3>1, FedSound
    <3> QED
      BY <1>5, <3>2, <3>3
  <2>2. CASE ~rt.hasSample
    <3>1. rt' = [r EXCEPT !.duty = Open] /\ Open \in [Directions -> 0..Period]
      BY <1>7, <2>2, Zeros DEF Open
    <3>2. rt' \in Runtime
      BY <3>1, RuntimeSet
    <3>3. /\ rt'.duty = Open /\ rt'.claim = r.claim /\ rt'.hasSample = r.hasSample
          /\ rt'.silent = r.silent /\ rt'.temp = r.temp /\ rt'.run = r.run /\ rt'.latch = r.latch
      BY <3>1 DEF Runtime
    <3>4. Calibrating(rt') /\ \A e \in Directions : rt'.duty[e] = 0
      BY <1>6, <3>3 DEF Calibrating, Open
    <3> QED
      BY <1>1, <1>5, <1>6, <3>2, <3>3, <3>4 DEF Served, RunApart
  <2> QED
    BY <2>1, <2>2
<1>9. Sound(doc', rt', last') /\ doc' # Stopped /\ ~passed' /\ MovesKnown(rt'.claim)
  BY <1>1, <1>2, <1>8, CalledFacts DEF Sound, Heeds, running
<1>10. TypeOK'
  BY <1>1, <1>2, <1>8, CalledFacts DEF TypeOK, IInv
<1> QED
  BY <1>8, <1>9, <1>10, CalledInv

LEMMA ElsewhereInv == ASSUME IInv, NEW d \in Directions, Elsewhere(d) PROVE IInv'
<1>1. UNCHANGED <<doc, last>> /\ Called(FALSE) /\ rt' = [rt EXCEPT !.claim[d].relay = ~@]
  BY DEF Elsewhere
<1>2. rt \in Runtime /\ rt.claim \in [Directions -> Claim] /\ MovesKnown(rt.claim)
  BY RuntimeInv, RuntimeTypes
<1>3. PICK moved \in Claim : moved = [rt.claim[d] EXCEPT !.relay = ~@]
  <2>1. rt.claim[d] \in Claim /\ (~rt.claim[d].relay) \in BOOLEAN
    BY <1>2
  <2> QED
    BY <2>1, FieldSet
<1>4. PICK claims : claims = [rt.claim EXCEPT ![d] = moved]
  OBVIOUS
<1>5. claims \in [Directions -> Claim] /\ MovesKnown(claims)
  <2>1. moved.pending = rt.claim[d].pending /\ moved.moved = rt.claim[d].moved
    BY <1>2, <1>3 DEF Claim
  <2> QED
    BY <1>2, <1>4, <2>1 DEF MovesKnown
<1>6. rt' = [rt EXCEPT !.claim = claims]
  BY <1>1, <1>3, <1>4
<1>7. rt' \in Runtime
  BY <1>2, <1>5, <1>6, RuntimeSet
<1>8. /\ rt'.claim = claims /\ rt'.hasSample = rt.hasSample /\ rt'.silent = rt.silent
      /\ rt'.temp = rt.temp /\ rt'.latch = rt.latch /\ rt'.due = rt.due /\ rt'.duty = rt.duty
      /\ rt'.run = rt.run /\ rt'.controlled = rt.controlled /\ rt'.sinceControl = rt.sinceControl
  BY <1>2, <1>6 DEF Runtime
<1>9. Calibrating(rt') <=> Calibrating(rt)
  BY <1>8 DEF Calibrating
<1>10. TypeOK'
  BY <1>1, <1>7, CalledFacts DEF TypeOK, IInv
<1>11. CASE running
  <2>1. Sound(doc', rt', last') /\ doc' # Stopped /\ ~passed'
    BY <1>1, <1>8, <1>9, <1>11, RuntimeInv, CalledFacts DEF Sound, Heeds, Served, RunApart, running
  <2>2. ~Calibrating(rt') /\ rt'.controlled => rt'.sinceControl <= unbroken'
    BY <1>1, <1>8, <1>9, <1>11, RuntimeInv, CalledFacts
  <2> QED
    BY <1>5, <1>8, <1>10, <2>1, <2>2, CalledInv
<1>12. CASE ~running
  BY <1>1, <1>5, <1>8, <1>9, <1>10, <1>12, RuntimeInv, CalledFacts, CalledInv DEF running
<1> QED
  BY <1>11, <1>12

LEMMA SampleInv ==
  ASSUME IInv, NEW s \in Sensors, NEW value \in Readings[s], NEW tuned \in Tuned, Sample(s, value, tuned)
  PROVE  IInv'
<1>1. /\ doc' = doc /\ Called(FALSE)
      /\ last' = [last EXCEPT ![s] = [seen |-> TRUE, age |-> 0, value |-> value]]
  BY DEF Sample
<1>2. value \in Int
  BY RuntimeAssumption DEF Sensors
<1>3. /\ last' \in [Sensors -> [seen : BOOLEAN, age : 0..(Timeout + 1), value : Int]]
      /\ last'[s].seen /\ last'[s].age = 0 /\ last'[s].value = value
      /\ \A other \in Sensors \ {s} : last'[other] = last[other]
  <2>1. [seen |-> TRUE, age |-> 0, value |-> value] \in [seen : BOOLEAN, age : 0..(Timeout + 1), value : Int]
    BY <1>2, Zeros
  <2>2. last \in [Sensors -> [seen : BOOLEAN, age : 0..(Timeout + 1), value : Int]]
    BY DEF IInv, TypeOK
  <2> HIDE DEF Sensors
  <2> QED
    BY <1>1, <2>1, <2>2
<1>4. rt \in Runtime /\ MovesKnown(rt.claim)
  BY RuntimeInv
<1>5. CASE running /\ doc.sensor = s
  <2>1. doc \in Documents /\ Sound(doc, rt, last)
    BY <1>5, RuntimeInv
  <2>2. PICK r : r = IF Calibrating(rt) THEN Feed(rt, value, tuned) ELSE rt
    OBVIOUS
  <2>3. rt' = [r EXCEPT !.hasSample = TRUE, !.silent = 0, !.temp = value]
    BY <1>5, <2>2 DEF Sample
  <2>4. /\ r \in Runtime /\ r.claim = rt.claim /\ r.sinceControl = rt.sinceControl
        /\ Served(doc, r) /\ RunApart(doc, r)
        /\ ~Calibrating(r) /\ r.controlled => r = rt
    <3>1. CASE Calibrating(rt)
      <4>1. r = Feed(rt, value, tuned)
        BY <2>2, <3>1
      <4>2. /\ doc.kind = "pid" /\ doc.target = rt.run.target /\ rt.run.dir \in Driven(doc)
            /\ rt.latch \in {"idle"} \cup Driven(doc)
        BY <2>1, <3>1 DEF Sound, Served, RunApart
      <4> QED
        BY <1>2, <1>4, <2>1, <3>1, <4>1, <4>2, FeedFacts, FedSound
    <3>2. CASE ~Calibrating(rt)
      BY <1>4, <2>1, <2>2, <3>2 DEF Sound
    <3> QED
      BY <3>1, <3>2
  <2>5. rt' \in Runtime
    <3>1. PICK a \in Runtime : a = [r EXCEPT !.hasSample = TRUE]
      BY <2>4, RuntimeSet
    <3>2. PICK b \in Runtime : b = [a EXCEPT !.silent = 0]
      BY Zeros, RuntimeSet
    <3>3. rt' = [b EXCEPT !.temp = value]
      BY <2>3, <3>1, <3>2
    <3> QED
      BY <1>2, <3>3, RuntimeSet
  <2>6. /\ rt'.hasSample /\ rt'.silent = 0 /\ rt'.temp = value /\ rt'.claim = r.claim /\ rt'.run = r.run
        /\ rt'.latch = r.latch /\ rt'.due = r.due /\ rt'.duty = r.duty
        /\ rt'.controlled = r.controlled /\ rt'.sinceControl = r.sinceControl
    BY <2>3, <2>4 DEF Runtime
  <2>7. Calibrating(rt') <=> Calibrating(r)
    BY <2>6 DEF Calibrating
  <2>8. Heeds(doc, rt', last')
    BY <1>3, <1>5, <2>6 DEF Heeds
  <2>9. Served(doc, rt') /\ RunApart(doc, rt')
    BY <2>4, <2>6, <2>7 DEF Served, RunApart
  <2>10. ~Calibrating(rt') /\ rt'.controlled => rt'.sinceControl <= unbroken'
    BY <1>1, <1>5, <2>4, <2>6, <2>7, RuntimeInv, CalledFacts
  <2>11. TypeOK'
    BY <1>1, <1>3, <2>5, CalledFacts DEF TypeOK, IInv
  <2>12. Sound(doc', rt', last') /\ doc' # Stopped /\ ~passed'
    BY <1>1, <1>5, <2>8, <2>9, CalledFacts DEF Sound, running
  <2> QED
    BY <1>4, <2>4, <2>6, <2>10, <2>11, <2>12, CalledInv
<1>6. CASE ~(running /\ doc.sensor = s)
  <2>1. rt' = rt
    BY <1>6 DEF Sample
  <2>2. TypeOK'
    BY <1>1, <1>3, <1>4, <2>1, CalledFacts DEF TypeOK, IInv
  <2>3. CASE running
    <3>1. doc \in Documents /\ Sound(doc, rt, last) /\ doc.sensor \in Sensors \ {s}
      BY <1>6, <2>3, RuntimeInv, DrivenFacts
    <3>2. Sound(doc', rt', last') /\ doc' # Stopped /\ ~passed'
      BY <1>1, <1>3, <2>1, <2>3, <3>1, CalledFacts DEF Sound, Heeds, running
    <3>3. ~Calibrating(rt') /\ rt'.controlled => rt'.sinceControl <= unbroken'
      BY <1>1, <2>1, <2>3, RuntimeInv, CalledFacts
    <3> QED
      BY <1>4, <2>1, <2>2, <3>2, <3>3, CalledInv
  <2>4. CASE ~running
    BY <1>1, <1>4, <2>1, <2>2, <2>4, RuntimeInv, CalledFacts, CalledInv DEF running
  <2> QED
    BY <2>3, <2>4
<1> QED
  BY <1>5, <1>6

LEMMA UpToFacts ==
  ASSUME NEW limit \in Nat, NEW a \in 0..limit
  PROVE  UpTo(limit, a) \in 0..limit /\ \A b \in 0..limit : a <= b => UpTo(limit, a) <= UpTo(limit, b)
  BY DEF UpTo

LEMMA TimeInv == ASSUME IInv, Time PROVE IInv'
<1>1. /\ doc' = doc /\ passed' = FALSE
      /\ last' = [s \in Sensors |-> [last[s] EXCEPT !.age = UpTo(Timeout + 1, @)]]
      /\ unbroken' = IF running THEN UpTo(Interval, unbroken) ELSE 0
  BY DEF Time
<1>2. rt \in Runtime /\ MovesKnown(rt.claim) /\ unbroken \in 0..Interval
  BY RuntimeInv
<1>3. /\ last' \in [Sensors -> [seen : BOOLEAN, age : 0..(Timeout + 1), value : Int]]
      /\ \A s \in Sensors : /\ last'[s].seen = last[s].seen /\ last'[s].value = last[s].value
                            /\ last'[s].age = UpTo(Timeout + 1, last[s].age)
  <2> HIDE DEF Sensors
  <2>1. last \in [Sensors -> [seen : BOOLEAN, age : 0..(Timeout + 1), value : Int]] /\ Timeout + 1 \in Nat
    BY RuntimeAssumption DEF IInv, TypeOK
  <2>2. ASSUME NEW s \in Sensors
        PROVE  /\ last'[s] \in [seen : BOOLEAN, age : 0..(Timeout + 1), value : Int]
               /\ last'[s].seen = last[s].seen /\ last'[s].value = last[s].value
               /\ last'[s].age = UpTo(Timeout + 1, last[s].age)
    <3>1. UpTo(Timeout + 1, last[s].age) \in 0..(Timeout + 1)
      BY <2>1, UpToFacts
    <3>2. last'[s] = [last[s] EXCEPT !.age = UpTo(Timeout + 1, last[s].age)]
      BY <1>1
    <3> QED
      BY <2>1, <3>1, <3>2
  <2> QED
    BY <1>1, <2>2
<1>4. PICK silent \in 0..(Timeout + 1) : silent = UpTo(Timeout + 1, rt.silent)
  <2>1. Timeout + 1 \in Nat
    BY RuntimeAssumption
  <2> QED
    BY <1>2, <2>1, RuntimeTypes, UpToFacts
<1>5. PICK since \in 0..Interval : since = UpTo(Interval, rt.sinceControl)
  BY <1>2, RuntimeAssumption, RuntimeTypes, UpToFacts
<1>6. PICK run \in Runs : /\ run = IF Calibrating(rt) THEN Longer(rt.run) ELSE rt.run
                         /\ run.dir = rt.run.dir /\ run.target = rt.run.target
  <2>1. rt.run \in Runs
    BY <1>2, RuntimeTypes
  <2>2. PICK age \in 0..MaxRun : age = UpTo(MaxRun, rt.run.age)
    BY <2>1, RuntimeAssumption, UpToFacts DEF Runs
  <2>3. Longer(rt.run) = [rt.run EXCEPT !.age = age]
    BY <2>2 DEF Longer
  <2>4. Longer(rt.run) \in Runs
    BY <2>1, <2>3 DEF Runs
  <2>5. Longer(rt.run).dir = rt.run.dir /\ Longer(rt.run).target = rt.run.target
    BY <2>1, <2>3 DEF Runs
  <2> QED
    BY <2>1, <2>4, <2>5
<1>7. PICK phase \in [Directions -> 0..Period] :
        phase = [d \in Directions |-> IF rt.phase[d] = Period THEN rt.phase[d] ELSE (rt.phase[d] + 1) % Period]
  <2>1. ASSUME NEW d \in Directions
        PROVE  (IF rt.phase[d] = Period THEN rt.phase[d] ELSE (rt.phase[d] + 1) % Period) \in 0..Period
    <3>1. rt.phase[d] \in 0..Period
      BY <1>2, RuntimeTypes
    <3>2. PICK a \in Int : a = rt.phase[d] + 1
      BY <3>1
    <3>3. PICK period \in Nat \ {0} : period = Period
      BY RuntimeAssumption
    <3>4. a % period \in 0..(period - 1)
      OBVIOUS
    <3> QED
      BY <3>1, <3>2, <3>3, <3>4
  <2> QED
    BY <2>1
<1>8. PICK claims : claims = [d \in Directions |-> Aged(rt.claim[d])]
  OBVIOUS
<1>9. claims \in [Directions -> Claim] /\ MovesKnown(claims)
  <2>1. ASSUME NEW d \in Directions
        PROVE  Aged(rt.claim[d]) \in Claim /\ (Aged(rt.claim[d]).pending => Aged(rt.claim[d]).moved)
    <3>1. rt.claim[d] \in Claim /\ (rt.claim[d].pending => rt.claim[d].moved)
      BY <1>2, RuntimeTypes DEF MovesKnown
    <3> QED
      BY <3>1, AgedFacts
  <2> QED
    BY <1>8, <2>1 DEF MovesKnown
<1>10. rt' = [rt EXCEPT !.silent = silent, !.sinceControl = since, !.run = run, !.phase = phase, !.claim = claims]
  BY <1>4, <1>5, <1>6, <1>7, <1>8 DEF Time
<1>11. rt' \in Runtime
  <2>1. PICK a \in Runtime : a = [rt EXCEPT !.silent = silent]
    BY <1>2, RuntimeSet
  <2>2. PICK b \in Runtime : b = [a EXCEPT !.sinceControl = since]
    BY RuntimeSet
  <2>3. PICK c \in Runtime : c = [b EXCEPT !.run = run]
    BY RuntimeSet
  <2>4. PICK d \in Runtime : d = [c EXCEPT !.phase = phase]
    BY RuntimeSet
  <2>5. rt' = [d EXCEPT !.claim = claims]
    BY <1>10, <2>1, <2>2, <2>3, <2>4
  <2> QED
    BY <1>9, <2>5, RuntimeSet
<1>12. /\ rt'.silent = silent /\ rt'.sinceControl = since /\ rt'.run = run /\ rt'.claim = claims
       /\ rt'.hasSample = rt.hasSample /\ rt'.temp = rt.temp /\ rt'.latch = rt.latch
       /\ rt'.due = rt.due /\ rt'.duty = rt.duty /\ rt'.controlled = rt.controlled
  BY <1>2, <1>10 DEF Runtime
<1>13. /\ unbroken' \in 0..Interval
       /\ running /\ rt.sinceControl <= unbroken => rt'.sinceControl <= unbroken'
  <2>1. rt.sinceControl \in 0..Interval /\ Interval \in Nat
    BY <1>2, RuntimeTypes, RuntimeAssumption
  <2>2. UpTo(Interval, unbroken) \in 0..Interval
    BY <1>2, <2>1, UpToFacts
  <2>3. rt.sinceControl <= unbroken => UpTo(Interval, rt.sinceControl) <= UpTo(Interval, unbroken)
    BY <1>2, <2>1, UpToFacts
  <2> QED
    BY <1>1, <1>5, <1>12, <2>2, <2>3, Zeros
<1>14. TypeOK'
  BY <1>1, <1>3, <1>11, <1>13 DEF TypeOK, IInv
<1>15. CASE running
  <2>1. doc \in Documents /\ Sound(doc, rt, last) /\ doc.sensor \in Sensors
    BY <1>15, RuntimeInv, DrivenFacts
  <2>2. Heeds(doc, rt', last')
    BY <1>3, <1>4, <1>12, <2>1 DEF Heeds, Sound
  <2>3. Served(doc, rt')
    BY <1>12, <2>1 DEF Served, Sound
  <2>4. (Calibrating(rt') => Calibrating(rt)) /\ (Calibrating(rt) => Calibrating(rt'))
    <3>1. CASE Calibrating(rt)
      <4>1. run.dir \in Directions
        BY <1>6, <2>1, <3>1, DrivenFacts DEF Sound, RunApart
      <4>2. run # NoRun
        BY <4>1 DEF Directions, NoRun
      <4> QED
        BY <1>12, <3>1, <4>2 DEF Calibrating
    <3>2. CASE ~Calibrating(rt)
      BY <1>6, <1>12, <3>2 DEF Calibrating
    <3> QED
      BY <3>1, <3>2
  <2>5. RunApart(doc, rt')
    BY <1>6, <1>12, <2>1, <2>4 DEF RunApart, Sound
  <2>6. Sound(doc', rt', last') /\ doc' # Stopped
    BY <1>1, <1>15, <2>2, <2>3, <2>5 DEF Sound, running
  <2>7. ~Calibrating(rt') /\ rt'.controlled => rt'.sinceControl <= unbroken'
    BY <1>12, <1>13, <1>15, <2>4, RuntimeInv
  <2> QED
    BY <1>1, <1>9, <1>12, <1>14, <2>6, <2>7, CalledInv
<1>16. CASE ~running
  <2>1. ~Calibrating(rt) /\ doc' = Stopped
    BY <1>1, <1>16, RuntimeInv
  <2>2. ~Calibrating(rt')
    BY <1>6, <1>12, <2>1 DEF Calibrating
  <2> QED
    BY <1>1, <1>9, <1>12, <1>14, <2>1, <2>2, CalledInv
<1> QED
  BY <1>15, <1>16

LEMMA FaultFacts ==
  ASSUME NEW r \in Runtime, NEW c \in Documents, ~CutsOut(Fault(r, c))
  PROVE  r.silent <= Timeout /\ (r.hasSample => r.temp <= MaxTemp)
  BY RuntimeTypes, RuntimeAssumption DEF Fault, CutsOut

LEMMA PassInv ==
  ASSUME IInv, NEW out \in -Period..Period, NEW spent \in BOOLEAN, Pass(out, spent)
  PROVE  IInv'
<1>1. PICK refreshed : refreshed = RefreshFault(rt, doc)
  OBVIOUS
<1>2. PICK r : r = IF Calibrating(rt) /\ (refreshed.fault # "none" \/ rt.run.age >= MaxRun \/ spent)
                   THEN EndRun(refreshed) ELSE refreshed
  OBVIOUS
<1>3. PICK pause \in BOOLEAN : pause = (CutsOut(r.fault) \/ doc.mode = "off" \/ ~r.hasSample)
  OBVIOUS
<1>4. PICK paced \in BOOLEAN : paced = (r.hasSample /\ ~CutsOut(r.fault))
  OBVIOUS
<1>5. PICK due \in BOOLEAN : due = (~Calibrating(r) /\ (r.due \/ r.sinceControl >= Interval))
  OBVIOUS
<1>6. /\ running /\ doc' = doc /\ last' = last /\ passed' = TRUE /\ Watch(pause)
      /\ rt' = IF pause THEN AllOff([r EXCEPT !.controlled = FALSE], doc, paced)
               ELSE Drive(IF due THEN Control(r, doc, out) ELSE r, doc)
  BY <1>1, <1>2, <1>3, <1>4, <1>5 DEF Pass
<1>7. doc \in Documents /\ rt \in Runtime /\ Sound(doc, rt, last) /\ MovesKnown(rt.claim)
  BY <1>6, RuntimeInv
<1>8. /\ refreshed \in Runtime /\ refreshed.fault = Fault(rt, doc) /\ refreshed.run = rt.run
      /\ refreshed.claim = rt.claim /\ refreshed.controlled = rt.controlled
      /\ refreshed.sinceControl = rt.sinceControl /\ refreshed.hasSample = rt.hasSample
      /\ refreshed.silent = rt.silent /\ refreshed.temp = rt.temp
      /\ Sound(doc, refreshed, last)
  <2>1. /\ refreshed \in Runtime /\ refreshed.fault = Fault(rt, doc) /\ (rt.due => refreshed.due)
        /\ refreshed.claim = rt.claim /\ refreshed.hasSample = rt.hasSample
        /\ refreshed.silent = rt.silent /\ refreshed.temp = rt.temp
        /\ refreshed.controlled = rt.controlled /\ refreshed.sinceControl = rt.sinceControl
        /\ refreshed.run = rt.run /\ refreshed.latch = rt.latch /\ refreshed.duty = rt.duty
    BY <1>1, <1>7, RefreshFaultFacts
  <2> QED
    BY <1>7, <2>1 DEF Sound, Heeds, Served, RunApart, Calibrating
<1>9. Calibrating(refreshed) <=> Calibrating(rt)
  BY <1>8 DEF Calibrating
<1>10. /\ r \in Runtime /\ Sound(doc, r, last) /\ r.fault = Fault(rt, doc) /\ r.claim = rt.claim
       /\ r.hasSample = rt.hasSample /\ r.silent = rt.silent /\ r.temp = rt.temp
       /\ r.sinceControl = rt.sinceControl
       /\ Calibrating(r) => r.fault = "none"
       /\ ~Calibrating(r) /\ r.controlled => ~Calibrating(rt) /\ rt.controlled
  BY <1>2, <1>7, <1>8, <1>9, EndRunFacts, EndedSound
<1>11. CutsOut(r.fault) \/ (rt.silent <= Timeout /\ (rt.hasSample => rt.temp <= MaxTemp))
  BY <1>7, <1>10, FaultFacts
<1>12. doc.sensor \in Sensors /\ doc.outs \subseteq Directions
  BY <1>7, DrivenFacts
<1>13. rt.hasSample /\ ~CutsOut(r.fault) =>
         last[doc.sensor].seen /\ last[doc.sensor].age <= Timeout /\ last[doc.sensor].value <= MaxTemp
  BY <1>7, <1>11 DEF Sound, Heeds
<1>14. unbroken' \in 0..Interval
  BY <1>6, WatchFacts
<1>15. CASE pause
  <2>1. PICK p : p = [r EXCEPT !.controlled = FALSE]
    OBVIOUS
  <2>2. p \in Runtime
    BY <1>10, <2>1, RuntimeSet
  <2>3. /\ p.claim = r.claim /\ p.hasSample = r.hasSample /\ p.silent = r.silent /\ p.temp = r.temp
        /\ p.fault = r.fault /\ p.due = r.due /\ p.run = r.run /\ p.latch = r.latch /\ ~p.controlled
    BY <1>10, <2>1 DEF Runtime
  <2>4. rt' = AllOff(p, doc, paced)
    BY <1>6, <1>15, <2>1
  <2>5. MovesKnown(p.claim)
    BY <1>7, <1>10, <2>3
  <2>6. /\ rt' \in Runtime /\ rt'.duty = Open /\ MovesKnown(rt'.claim)
        /\ \A d \in doc.outs : rt'.claim[d].relay => paced /\ rt'.claim[d].pending
        /\ rt'.hasSample = p.hasSample /\ rt'.silent = p.silent /\ rt'.temp = p.temp /\ rt'.fault = p.fault
        /\ rt'.due = p.due /\ rt'.controlled = p.controlled
        /\ rt'.run = p.run /\ rt'.latch = p.latch
    <3>1. PICK n : n = AllOff(p, doc, paced)
      OBVIOUS
    <3>2. \A d \in doc.outs : n.claim[d].relay => paced /\ n.claim[d].pending
      BY <1>7, <2>2, <2>5, <3>1, AllOffFacts
    <3>3. rt' = n
      BY <2>4, <3>1
    <3>4. n \in Runtime /\ n.duty = Open /\ MovesKnown(n.claim)
      BY <1>7, <2>2, <2>5, <3>1, AllOffFacts
    <3>5. n.hasSample = p.hasSample /\ n.silent = p.silent /\ n.temp = p.temp /\ n.fault = p.fault
      BY <2>2, <3>1 DEF AllOff, Runtime
    <3>6. n.due = p.due /\ n.controlled = p.controlled /\ n.run = p.run /\ n.latch = p.latch
      BY <2>2, <3>1 DEF AllOff, Runtime
    <3> QED
      BY <3>2, <3>3, <3>4, <3>5, <3>6
  <2>7. /\ \A d \in Directions : rt'.duty[d] = 0
        /\ Calibrating(rt') => Calibrating(r)
    BY <2>3, <2>6 DEF Open, Calibrating
  <2>8. Sound(doc, rt', last)
    BY <1>10, <2>3, <2>6, <2>7 DEF Sound, Heeds, Served, RunApart
  <2>9. Calibrating(rt') => rt'.fault = "none"
    BY <1>10, <2>3, <2>6, <2>7
  <2>10. ClosedForCause'
    BY <1>4, <1>6, <1>10, <1>13, <2>6 DEF ClosedForCause
  <2>11. NoPauseIntegrated'
    BY <2>3, <2>6 DEF NoPauseIntegrated
  <2>12. TypeOK'
    BY <1>6, <1>14, <2>6 DEF TypeOK, IInv
  <2> QED
    BY <1>6, <2>6, <2>8, <2>9, <2>10, <2>11, <2>12 DEF IInv, running
<1>16. CASE ~pause
  <2>1. PICK x : x = IF due THEN Control(r, doc, out) ELSE r
    OBVIOUS
  <2>2. /\ x \in Runtime /\ x.claim = r.claim /\ x.hasSample = r.hasSample /\ x.silent = r.silent
        /\ x.temp = r.temp /\ x.fault = r.fault /\ x.run = r.run
        /\ x.latch \in {"idle"} \cup Driven(doc)
        /\ \A d \in Directions : x.duty[d] # 0 => d \in Driven(doc)
        /\ IF due THEN x.sinceControl = 0 ELSE x = r
    <3>1. r.latch \in {"idle"} \cup Driven(doc)
      BY <1>10 DEF Sound, Served
    <3>2. CASE due
      BY <1>7, <1>10, <2>1, <3>1, <3>2, ControlFacts
    <3>3. CASE ~due
      <4>1. x = r
        BY <2>1, <3>3
      <4>2. CASE Calibrating(r)
        BY <1>10, <3>1, <3>3, <4>1, <4>2 DEF Sound, RunApart
      <4>3. CASE ~Calibrating(r)
        BY <1>5, <1>10, <3>1, <3>3, <4>1, <4>3 DEF Sound, Served
      <4> QED
        BY <4>2, <4>3
    <3> QED
      BY <3>2, <3>3
  <2>3. Calibrating(x) => Calibrating(r) /\ x = r
    BY <1>5, <2>2 DEF Calibrating
  <2>4. Sound(doc, x, last)
    BY <1>10, <2>2, <2>3 DEF Sound, Heeds, Served, RunApart
  <2>5. rt' = Drive(x, doc) /\ MovesKnown(x.claim)
    BY <1>6, <1>7, <1>10, <1>16, <2>1, <2>2
  <2>6. /\ rt' \in Runtime /\ MovesKnown(rt'.claim)
        /\ \A d \in doc.outs : rt'.claim[d].relay =>
              x.duty[d] # 0 \/ rt'.claim[d].wait = "min_on" \/ rt'.claim[d].pending
        /\ rt'.hasSample = x.hasSample /\ rt'.silent = x.silent /\ rt'.temp = x.temp /\ rt'.fault = x.fault
        /\ rt'.due = x.due /\ rt'.controlled = x.controlled /\ rt'.sinceControl = x.sinceControl
        /\ rt'.run = x.run /\ rt'.latch = x.latch /\ rt'.duty = x.duty
    BY <1>7, <2>2, <2>5, DriveFacts
  <2>7. Calibrating(rt') <=> Calibrating(x)
    BY <2>6 DEF Calibrating
  <2>8. Sound(doc, rt', last)
    BY <2>4, <2>6, <2>7 DEF Sound, Heeds, Served, RunApart
  <2>9. Calibrating(rt') => rt'.fault = "none"
    BY <1>10, <2>2, <2>3, <2>6, <2>7
  <2>10. ClosedForCause'
    <3>1. last[doc.sensor].seen /\ last[doc.sensor].age <= Timeout /\ last[doc.sensor].value <= MaxTemp
      BY <1>3, <1>10, <1>13, <1>16
    <3>2. \A d \in doc.outs : x.duty[d] # 0 => d \in Serves(doc.mode)
      BY <1>12, <2>2 DEF Driven
    <3> QED
      BY <1>6, <2>6, <3>1, <3>2 DEF ClosedForCause
  <2>11. NoPauseIntegrated'
    <3>1. SUFFICES ASSUME ~Calibrating(rt'), rt'.controlled PROVE rt'.sinceControl <= unbroken'
      BY DEF NoPauseIntegrated
    <3>2. CASE due
      BY <1>14, <2>2, <2>6, <3>2, RuntimeAssumption
    <3>3. CASE ~due
      <4>1. x = r /\ ~Calibrating(rt) /\ rt.controlled /\ rt'.sinceControl = rt.sinceControl
        BY <1>10, <2>2, <2>6, <2>7, <3>1, <3>3
      <4>2. unbroken' = unbroken
        BY <1>6, <1>16, <3>1, <4>1, WatchFacts
      <4> QED
        BY <1>6, <4>1, <4>2, RuntimeInv
    <3> QED
      BY <3>2, <3>3
  <2>12. TypeOK'
    BY <1>6, <1>14, <2>6 DEF TypeOK, IInv
  <2> QED
    BY <1>6, <2>6, <2>8, <2>9, <2>10, <2>11, <2>12 DEF IInv, running
<1> QED
  BY <1>15, <1>16

LEMMA NextInv == IInv /\ [Next]_vars => IInv'
<1> SUFFICES ASSUME IInv, [Next]_vars PROVE IInv'
  OBVIOUS
<1>1. CASE UNCHANGED vars
  BY <1>1 DEF vars, IInv, TypeOK, running, ClosedForCause, NoPauseIntegrated
<1> QED
  BY <1>1, TimeInv, StopInv, CancelRunInv, PassInv, SampleInv, ElsewhereInv, StartRunInv, CommandInv,
     SaveInv, StartInv
  DEF Next
-----------------------------------------------------------------------------
(* Every reachable state is well typed, whatever documents Saves bring. *)
THEOREM TypeCorrect == Spec => []TypeOK
<1>1. IInv => TypeOK
  BY DEF IInv
<1> QED
  BY <1>1, InitInv, NextInv, PTL DEF Spec

(* A relay closed after a pass has its cause: a fresh reading within the     *)
(* limit, and the mode, its own min_on or a move to be put back.             *)
THEOREM RelaysClosedForCause == Spec => []ClosedForCause
<1>1. IInv => ClosedForCause
  BY DEF IInv
<1> QED
  BY <1>1, InitInv, NextInv, PTL DEF Spec

(* A calibration is never left running around what it did not begin with. *)
THEOREM RunsUndisturbed == Spec => []RunUndisturbed
<1>1. IInv => RunUndisturbed
  BY DEF IInv, Sound, RunApart, RunUndisturbed
<1> QED
  BY <1>1, InitInv, NextInv, PTL DEF Spec

(* What the PID integrates over is time it was in control. *)
THEOREM PausesNotIntegrated == Spec => []NoPauseIntegrated
<1>1. IInv => NoPauseIntegrated
  BY DEF IInv
<1> QED
  BY <1>1, InitInv, NextInv, PTL DEF Spec
=============================================================================
