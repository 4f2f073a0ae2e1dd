------------------------- MODULE ControllerRuntime -------------------------
(***************************************************************************)
(* The control loop of one running thermostat                              *)
(* (components/climate_hub/controller_runtime.cpp) with the calibration    *)
(* it may run, over the claims on its relays: readings, silence, faults,   *)
(* commands, Saves, calibrations and moves of a relay from elsewhere, in   *)
(* any order between two passes of the loop.                               *)
(*                                                                         *)
(* Times are ages, each saturated past what it is compared with.  What a   *)
(* PID and the tuner of a calibration compute is any output; gains, the    *)
(* action and the rest of what the entity shows are left out.              *)
(***************************************************************************)
EXTENDS RelayClaimOps, FiniteSets

CONSTANTS
  Docs,      \* the documents a Save may bring
  Stopped,
  DwellAt,   \* by direction: the minimum times of its output
  Readings,  \* by sensor: what it may read
  MaxTemp,   \* safety.max_temperature
  Timeout,   \* safety.sensor_timeout_s
  Interval,  \* update_interval_s
  Period,    \* period_s of both outputs
  MaxRun     \* AUTOTUNE_MAX_MS

Directions == {"heat", "cool"}
Modes == {"off", "heat_cool"} \cup Directions
Sensors == DOMAIN Readings
Targets == {c.target : c \in Docs}
Documents == [kind : {"bang_bang", "pid"}, outs : SUBSET Directions, sensor : Sensors, mode : Modes, target : Int]

ASSUME RuntimeAssumption ==
  /\ Docs \subseteq Documents /\ Stopped \notin Documents
  /\ DwellAt \in [Directions -> Dwells]
  /\ Readings \in [Sensors -> SUBSET Int] /\ MaxTemp \in Int
  /\ Timeout \in Nat /\ Interval \in Nat /\ MaxRun \in Nat /\ Period \in Nat \ {0}

VARIABLES
  doc,       \* the running document, or Stopped
  rt,        \* the members of ControllerRuntime, with the claims
  last,      \* by sensor: the reading the hub saw last
  unbroken,  \* how long one law has been in control, on one sensor, without a pause
  passed     \* the last step was a pass of the loop

vars == <<doc, rt, last, unbroken, passed>>

running == doc # Stopped

Faults == {"none", "sensor_stale", "overtemp", "relay_contested"}
Latches == {"idle"} \cup Directions
Runs == [dir : {"none"} \cup Directions, target : Int, age : 0..MaxRun]
Runtime == [claim : [Directions -> Claim], hasSample : BOOLEAN, silent : 0..(Timeout + 1), temp : Int,
            fault : Faults, due : BOOLEAN, controlled : BOOLEAN, sinceControl : 0..Interval, run : Runs,
            latch : Latches, duty : [Directions -> 0..Period], phase : [Directions -> 0..Period]]

TypeOK ==
  /\ doc \in Documents \cup {Stopped}
  /\ rt \in Runtime
  /\ last \in [Sensors -> [seen : BOOLEAN, age : 0..(Timeout + 1), value : Int]]
  /\ unbroken \in 0..Interval /\ passed \in BOOLEAN

UpTo(limit, a) == IF a < limit THEN a + 1 ELSE a
-----------------------------------------------------------------------------
(* Documents: kind, outs (the directions with a relay), sensor, mode, target *)

Serves(mode) == CASE mode = "off" -> {} [] mode = "heat_cool" -> Directions [] OTHER -> {mode}
Supported(c) == {"off"} \cup c.outs \cup (IF c.outs = Directions THEN {"heat_cool"} ELSE {})
Driven(c) == Serves(c.mode) \cap c.outs

NoRun == [dir |-> "none", target |-> 0, age |-> 0]
Calibrating(r) == r.run # NoRun
Open == [d \in Directions |-> 0]

(* HysteresisCore::update; the band is the target itself here. *)
Latched(latch, c, temp) ==
  IF temp < c.target THEN IF "heat" \in Driven(c) THEN "heat" ELSE "idle"
  ELSE IF temp > c.target THEN IF "cool" \in Driven(c) THEN "cool" ELSE "idle"
  ELSE IF Driven(c) = Directions THEN "idle" ELSE latch

(* DutyCycler::update, by a duty and a phase in Period steps. *)
InPulse(duty, phase) == duty = Period \/ phase < duty
Started(phase) == IF phase = Period THEN 0 ELSE phase
-----------------------------------------------------------------------------
(* What a pass and a call are made of *)

CutsOut(fault) == fault \in {"sensor_stale", "overtemp"}
Fault(r, c) ==
  IF r.silent > Timeout THEN "sensor_stale"
  ELSE IF r.hasSample /\ r.temp > MaxTemp THEN "overtemp"
  ELSE IF \E d \in c.outs : Contested(r.claim[d]) THEN "relay_contested"
  ELSE "none"
RefreshFault(r, c) == [r EXCEPT !.fault = Fault(r, c), !.due = @ \/ (CutsOut(r.fault) /\ ~CutsOut(Fault(r, c)))]

(* all_relays_off_ *)
AllOff(r, c, paced) ==
  [r EXCEPT !.duty = Open,
            !.claim = [d \in Directions |-> IF d \in c.outs THEN ForceOff(@[d], paced) ELSE @[d]]]

(* Mutant of EndRun: the law goes on as if it had been in control. *)
EndRunControlled(r) == IF Calibrating(r) THEN [r EXCEPT !.run = NoRun, !.duty = Open, !.due = TRUE] ELSE r
(* end_autotune *)
EndRun(r) ==
  IF Calibrating(r)
  THEN [r EXCEPT !.run = NoRun, !.duty = Open, !.controlled = FALSE, !.due = TRUE] ELSE r

(* The duty of one direction when a PID puts out out. *)
Share(d, out) == IF d = "heat" /\ out > 0 THEN out ELSE IF d = "cool" /\ out < 0 THEN -out ELSE 0

(* run_control_ *)
Control(r, c, out) ==
  LET latch == Latched(r.latch, c, r.temp)
      duty == IF c.kind = "pid"
              THEN [d \in Directions |-> IF d \in Driven(c) THEN Share(d, out) ELSE 0]
              ELSE [d \in Directions |-> IF latch = d THEN Period ELSE 0]
  IN [r EXCEPT !.duty = duty, !.latch = IF c.kind = "pid" THEN @ ELSE latch,
               !.sinceControl = 0, !.controlled = TRUE, !.due = FALSE]

(* drive_outputs_ *)
Drive(r, c) ==
  [r EXCEPT !.phase = [d \in Directions |-> IF d \in c.outs THEN Started(@[d]) ELSE @[d]],
            !.claim = [d \in Directions |->
                         IF d \in c.outs THEN Request(@[d], InPulse(r.duty[d], Started(r.phase[d]))) ELSE @[d]]]

(* feed_autotune_ of a tuner that wants its relay on or off, or ends: with     *)
(* gains, which complete_autotune_ stores, or for want of a switch, or noise.   *)
Tuned == {"on", "off", "ends"}
Feed(r, temp, tuned) ==
  IF temp > MaxTemp \/ r.run.age >= MaxRun \/ tuned = "ends"
  THEN EndRun(r)
  ELSE [r EXCEPT !.duty = [d \in Directions |-> IF d = r.run.dir /\ tuned = "on" THEN Period ELSE 0]]

(* What a start takes over from the last reading the hub saw.                  *)
(* Mutant of Heard: a Save counts as a reading. *)
HeardAtOnce(r, sensor, same) ==
  [r EXCEPT !.hasSample = last[sensor].seen, !.temp = last[sensor].value, !.silent = 0]
Heard(r, sensor, same) ==
  [r EXCEPT !.hasSample = last[sensor].seen, !.temp = last[sensor].value,
            !.silent = IF last[sensor].seen THEN last[sensor].age ELSE IF same THEN @ ELSE 0]

(* start, on the document previous before a Save. *)
Begin(r, previous, c) ==
  LET same == previous # Stopped /\ previous.sensor = c.sensor
      keepPid == same /\ previous.kind = "pid" /\ c.kind = "pid"
      keepLatch == previous # Stopped /\ previous.kind = "bang_bang" /\ c.kind = "bang_bang"
      on == {d \in Driven(c) : IF keepLatch THEN r.latch = d ELSE r.claim[d].state}
  IN RefreshFault([Heard(r, c.sensor, same) EXCEPT
       !.latch = IF "heat" \in on THEN "heat" ELSE IF "cool" \in on THEN "cool" ELSE "idle",
       !.due = TRUE, !.controlled = @ /\ keepPid], c)

(* How long the law has been in control; a pass that pauses starts it over. *)
Watch(pauses) ==
  unbroken' = IF pauses \/ Calibrating(rt) \/ Calibrating(rt') THEN 0 ELSE unbroken
Called(pauses) == passed' = FALSE /\ Watch(pauses)
-----------------------------------------------------------------------------
(* The loop and the surroundings *)

(* tick *)
Pass(out, spent) ==
  /\ running /\ (spent => Calibrating(rt)) /\ (doc.kind = "pid" \/ out = 0)
  /\ LET refreshed == RefreshFault(rt, doc)
         r == IF Calibrating(rt) /\ (refreshed.fault # "none" \/ rt.run.age >= MaxRun \/ spent)
              THEN EndRun(refreshed) ELSE refreshed
         pause == CutsOut(r.fault) \/ doc.mode = "off" \/ ~r.hasSample
         due == ~Calibrating(r) /\ (r.due \/ r.sinceControl >= Interval)
     IN /\ rt' = IF pause
                 THEN AllOff([r EXCEPT !.controlled = FALSE], doc, r.hasSample /\ ~CutsOut(r.fault))
                 ELSE Drive(IF due THEN Control(r, doc, out) ELSE r, doc)
        /\ Watch(pause)
  /\ passed' = TRUE
  /\ UNCHANGED <<doc, last>>

Longer(run) == [run EXCEPT !.age = UpTo(MaxRun, @)]
Time ==
  /\ rt' = [rt EXCEPT !.silent = UpTo(Timeout + 1, @), !.sinceControl = UpTo(Interval, @),
                      !.run = IF Calibrating(rt) THEN Longer(@) ELSE @,
                      !.phase = [d \in Directions |-> IF @[d] = Period THEN @[d] ELSE (@[d] + 1) % Period],
                      !.claim = [d \in Directions |-> Aged(@[d])]]
  /\ last' = [s \in Sensors |-> [last[s] EXCEPT !.age = UpTo(Timeout + 1, @)]]
  /\ unbroken' = IF running THEN UpTo(Interval, unbroken) ELSE 0
  /\ passed' = FALSE
  /\ UNCHANGED doc

(* on_sample_, of a sensor that may be the running thermostat's. *)
Sample(s, value, tuned) ==
  /\ Calibrating(rt) \/ tuned = "off"
  /\ last' = [last EXCEPT ![s] = [seen |-> TRUE, age |-> 0, value |-> value]]
  /\ rt' = IF running /\ doc.sensor = s
           THEN LET r == IF Calibrating(rt) THEN Feed(rt, value, tuned) ELSE rt
                IN [r EXCEPT !.hasSample = TRUE, !.silent = 0, !.temp = value]
           ELSE rt
  /\ Called(FALSE)
  /\ UNCHANGED doc

Elsewhere(d) ==
  /\ rt' = [rt EXCEPT !.claim[d].relay = ~@]
  /\ Called(FALSE)
  /\ UNCHANGED <<doc, last>>
-----------------------------------------------------------------------------
(* Calls *)

(* Mutant of Disturbs: only another mode. *)
DisturbsByMode(c) == c.mode # doc.mode
Disturbs(c) == c.mode # doc.mode \/ c.target # doc.target

Relatched(r, c) == IF c.mode # doc.mode THEN [r EXCEPT !.latch = "idle"] ELSE r

(* apply_, of a preset, a mode or a target. *)
Command(mode, target) ==
  /\ running /\ mode \in Supported(doc)
  /\ LET c == [doc EXCEPT !.mode = mode, !.target = target]
         r == Relatched(IF Disturbs(c) THEN EndRun(rt) ELSE rt, c)
     IN doc' = c /\ rt' = [r EXCEPT !.due = TRUE]
  /\ Called(FALSE)
  /\ UNCHANGED last

(* start_autotune and begin_autotune *)
StartRun(d, tuned) ==
  /\ running /\ doc.kind = "pid" /\ ~Calibrating(rt) /\ tuned # "ends"
  /\ d \in Driven(doc) /\ rt.fault = "none"
  /\ LET r == [rt EXCEPT !.run = [dir |-> d, target |-> doc.target, age |-> 0]]
     IN rt' = IF rt.hasSample THEN Feed(r, rt.temp, tuned) ELSE [r EXCEPT !.duty = Open]
  /\ Called(FALSE)
  /\ UNCHANGED <<doc, last>>

CancelRun ==
  /\ running /\ Calibrating(rt)
  /\ rt' = EndRun(rt)
  /\ Called(FALSE)
  /\ UNCHANGED <<doc, last>>

(* The claims of c, after those of the document before: what c does not name  *)
(* is opened and let go, what it did not name is resumed.                      *)
Claimed(claims, outs, c) ==
  [d \in Directions |-> CASE d \in outs \ c.outs -> ForceOff(claims[d], FALSE)
                          [] d \in c.outs \ outs -> Anew(claims[d], DwellAt[d])
                          [] OTHER -> claims[d]]

(* replace_ and restart_ *)
Save(c) ==
  /\ running
  /\ doc' = c
  /\ rt' = Begin([EndRun(rt) EXCEPT !.claim = Claimed(@, doc.outs, c)], doc, c)
  /\ Called(doc.kind # c.kind \/ doc.sensor # c.sensor)
  /\ UNCHANGED last

(* start_, on relays of which a thermostat that gave way may have left some   *)
(* closed.                                                                     *)
Idle(claims) ==
  [claim |-> claims, hasSample |-> FALSE, silent |-> 0, temp |-> 0, fault |-> "none",
   due |-> TRUE, controlled |-> FALSE, sinceControl |-> 0, run |-> NoRun, latch |-> "idle",
   duty |-> Open, phase |-> [d \in Directions |-> Period]]
Start(c, handed, age) ==
  /\ ~running
  /\ doc' = c
  /\ LET left == [d \in Directions |-> IF d \in handed
                                       THEN [rt.claim[d] EXCEPT !.relay = TRUE, !.state = TRUE, !.age = age]
                                       ELSE rt.claim[d]]
     IN rt' = Begin(Idle(Claimed(left, {}, c)), Stopped, c)
  /\ Called(TRUE)
  /\ UNCHANGED last

(* stop_ *)
Stop ==
  /\ running
  /\ doc' = Stopped
  /\ rt' = Idle(AllOff(EndRun(rt), doc, FALSE).claim)
  /\ Called(TRUE)
  /\ UNCHANGED last

Init ==
  /\ doc = Stopped
  /\ rt = Idle([d \in Directions |->
       [relay |-> FALSE, state |-> FALSE, age |-> MaxAge, putBack |-> MaxAge, moves |-> 0, moved |-> FALSE,
        pending |-> FALSE, fresh |-> TRUE, wait |-> "none", dwell |-> DwellAt[d]]])
  /\ last = [s \in Sensors |-> [seen |-> FALSE, age |-> 0, value |-> 0]]
  /\ unbroken = 0 /\ passed = FALSE

Next ==
  \/ Time \/ Stop \/ CancelRun
  \/ \E out \in -Period..Period, spent \in BOOLEAN : Pass(out, spent)
  \/ \E s \in Sensors : \E value \in Readings[s], tuned \in Tuned : Sample(s, value, tuned)
  \/ \E d \in Directions : Elsewhere(d) \/ \E tuned \in Tuned : StartRun(d, tuned)
  \/ \E mode \in Modes, target \in Targets : Command(mode, target)
  \/ \E c \in Docs : Save(c) \/ \E handed \in SUBSET c.outs, age \in Age : Start(c, handed, age)

Spec == Init /\ [][Next]_vars
-----------------------------------------------------------------------------
(***************************************************************************)
(* Properties                                                              *)
(***************************************************************************)

(* A relay that is closed after a pass has a cause for it: a reading of the    *)
(* sensor of the latest document, within the timeout and the temperature limit; *)
(* and a mode that serves it, or its own min_on, or a move from elsewhere that  *)
(* waits to be put back.  Saves, calibrations, commands, a latch from before,   *)
(* dwells and hand-overs give it none (refresh_fault_, start, apply_, tick).    *)
ClosedForCause ==
  passed => \A d \in doc.outs : rt.claim[d].relay =>
    /\ last[doc.sensor].seen /\ last[doc.sensor].age <= Timeout /\ last[doc.sensor].value <= MaxTemp
    /\ d \in Serves(doc.mode) \/ rt.claim[d].wait = "min_on" \/ rt.claim[d].pending

(* A calibration measures what it began with: no command, Save, fault or stop *)
(* leaves one running around another target, on a relay the mode does not      *)
(* serve, or with the other relay wanted (apply_, replace_, tick).             *)
RunUndisturbed ==
  Calibrating(rt) =>
    /\ running /\ doc.kind = "pid" /\ doc.target = rt.run.target
    /\ rt.run.dir \in Driven(doc)
    /\ \A d \in Directions \ {rt.run.dir} : passed => rt.duty[d] = 0
    /\ passed => rt.fault = "none"

(* The time the PID is to integrate over at its next turn is time it was in    *)
(* control: no cut-out, mode off, missing reading, calibration, other sensor or *)
(* other law within it (tick, start, end_autotune).                             *)
NoPauseIntegrated ==
  running /\ ~Calibrating(rt) /\ rt.controlled => rt.sinceControl <= unbroken
=============================================================================
