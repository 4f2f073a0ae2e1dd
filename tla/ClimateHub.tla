----------------------------- MODULE ClimateHub ------------------------------
(***************************************************************************)
(* The climate hub (components/climate_hub/climate_hub.cpp): thermostats   *)
(* kept as documents in memory and as files on flash, the ones that run in *)
(* a pool of climate entities, and the relays they claim.                  *)
(*                                                                         *)
(* Every mutator is one job on the loop task, so no other call sees its    *)
(* middle; a loss of power does.  A mutator that writes one file is one    *)
(* action.  A take-over, which writes several, and the start of waiting    *)
(* thermostats, a loop over the store, are one action per round, with job  *)
(* saying where the call is.                                               *)
(*                                                                         *)
(* A document is reduced to what decides who runs: its flag, whether its   *)
(* sensor is usable, the relays it names, and one value, target, for the   *)
(* state a user moves (setpoint, preset, mode).  A thermostat is its place *)
(* in the order of ids.  Names, revisions and calibrations are left out.   *)
(***************************************************************************)
EXTENDS Integers, FiniteSets

CONSTANTS
  N,            \* ids, in the order the store sorts them
  Max,          \* max_controllers
  Slots,        \* entities build_pool_ found room for
  Relays, NoRelay,
  Switches,     \* the relays on the device; another one is named but missing
  Shapes,       \* the [sensor, heat, cool] a document may have
  Targets,
  NoDoc, NoFile,
  BadFile,      \* a file the loader refuses, blank ones among them
  WriteMayFail, \* whether a write to flash may fail
  InitFiles     \* what the folder may hold at the first boot

Ids == 1..N
Sensors == {"ok", "absent", "not_celsius"}

Doc == [enabled : BOOLEAN, sensor : Sensors, heat : Relays \cup {NoRelay},
        cool : Relays \cup {NoRelay}, target : Targets, newer : BOOLEAN]

File == Doc \cup {NoFile, BadFile}

ASSUME HubAssumption ==
  /\ N \in Nat /\ Max \in Nat /\ Slots \in Nat
  /\ NoRelay \notin Relays /\ Switches \subseteq Relays
  /\ Shapes \subseteq [sensor : Sensors, heat : Relays \cup {NoRelay}, cool : Relays \cup {NoRelay}]
  /\ WriteMayFail \in BOOLEAN
  /\ NoDoc \notin Doc /\ NoFile \notin Doc /\ BadFile \notin Doc
  /\ NoFile # BadFile
  /\ InitFiles \subseteq [Ids -> File]

VARIABLES
  docs,        \* store_
  files,       \* the folder on flash
  running,     \* the ids whose document a slot's runtime holds
  owner,       \* claims_: the id each relay is claimed by, or Nobody
  reason,      \* waiting_: why an enabled thermostat does not run
  dirty,       \* dirty_: changed in memory, to be written by the next flush
  freed,       \* freed_: let go in this job and not announced yet
  entityFreed, \* entity_freed_
  announced,   \* the relays the last finished job told switch_hold about
  job,         \* the call in progress
  persisted,   \* Result::persisted of the last Save, removal or set_enabled()
  memoryOnly   \* enabled in their files, disabled by a newer firmware's take-over, and
               \* by no call of their own since

vars == <<docs, files, running, owner, reason, dirty, freed, entityFreed,
          announced, job, persisted, memoryOnly>>

Nobody == 0

\* job.pc: nothing, setup(), the two loops of a take-over, those of start_waiters_
Stages == {"idle", "boot", "waiters", "holders", "on_relays", "on_entities"}
Job == [pc : Stages, id : 0..N, at : 1..(N + 1), entity : BOOLEAN]
Idle == [pc |-> "idle", id |-> 0, at |-> 1, entity |-> FALSE]

Why == {"none", "sensor", "entity", "held", "missing"}
Reason == [why : Why, relay : Relays \cup {NoRelay}, by : 0..N]
Because(why) == [why |-> why, relay |-> NoRelay, by |-> Nobody]
NoReason == Because("none")

TypeOK ==
  /\ docs \in [Ids -> Doc \cup {NoDoc}]
  /\ files \in [Ids -> File]
  /\ running \subseteq Ids
  /\ owner \in [Relays -> 0..N]
  /\ reason \in [Ids -> Reason]
  /\ dirty \subseteq Ids
  /\ freed \subseteq Relays
  /\ entityFreed \in BOOLEAN
  /\ announced \subseteq Relays
  /\ job \in Job
  /\ persisted \in BOOLEAN
  /\ memoryOnly \subseteq Ids
-----------------------------------------------------------------------------
(* Reads *)

Stored(i) == docs[i] # NoDoc
Stores == {i \in Ids : Stored(i)}
Enabled(i) == Stored(i) /\ docs[i].enabled
Waits(i) == Enabled(i) /\ i \notin running
Names(d) == {d.heat, d.cool} \ {NoRelay}
HeldBy(i) == {r \in Relays : owner[r] = i}
NoSlotFree == Cardinality(running) >= Slots

(* holder_of_: who else holds a relay of d, the heating one first. *)
Holders(i, d) == {owner[r] : r \in Names(d)} \ {Nobody, i}
HolderOf(i, d) ==
  IF d.heat # NoRelay /\ owner[d.heat] \notin {Nobody, i}
  THEN owner[d.heat] ELSE owner[d.cool]

(* Mutant of Reservers: whoever is stored is in the way, waiting or not. *)
AnyReservers(i, d) == {j \in Ids \ {i} : Stored(j) /\ Names(d) \cap Names(docs[j]) # {}}
(* reserver_of_: who else is enabled, waits, and names a relay of d that i  *)
(* does not hold already.                                                   *)
Reservers(i, d) ==
  {j \in Ids \ {i} : Waits(j) /\ \E r \in Names(d) \cap Names(docs[j]) : owner[r] # i}

IsFirst(i, S) == i \in S /\ \A j \in S : i <= j

(* Mutant of Savable: only who holds a relay is in the way. *)
SavablePastWaiters(i, d) == d.sensor # "not_celsius" /\ Holders(i, d) = {}
(* check_savable_ *)
Savable(i, d) == /\ d.sensor # "not_celsius"
                 /\ Holders(i, d) = {}
                 /\ Reservers(i, d) = {}

(* check_entities_ *)
OnDevice(d) == d.sensor = "ok" /\ Names(d) \subseteq Switches

(* Mutant of ClaimObstacle: a relay of another is taken as it is. *)
MissingOnly(i, r) ==
  IF r = NoRelay \/ r \in Switches THEN NoReason
  ELSE [why |-> "missing", relay |-> r, by |-> Nobody]
(* acquire_claims_: what keeps i from one relay. *)
ClaimObstacle(i, r) ==
  IF r = NoRelay THEN NoReason
  ELSE IF owner[r] \notin {Nobody, i} THEN [why |-> "held", relay |-> r, by |-> owner[r]]
  ELSE IF owner[r] = Nobody /\ r \notin Switches
       THEN [why |-> "missing", relay |-> r, by |-> Nobody]
  ELSE NoReason

ClaimsObstacle(i, d) ==
  IF ClaimObstacle(i, d.heat) # NoReason THEN ClaimObstacle(i, d.heat)
  ELSE ClaimObstacle(i, d.cool)

(* What start_ and restart_ stumble on, in the order they look. *)
RestartObstacle(i, d) ==
  IF d.sensor # "ok" THEN Because("sensor") ELSE ClaimsObstacle(i, d)
StartObstacle(i, d) ==
  IF d.sensor = "ok" /\ NoSlotFree THEN Because("entity") ELSE RestartObstacle(i, d)
-----------------------------------------------------------------------------
(* Running and stopping: what start_, restart_ and stop_ do to the claims,  *)
(* the pool and the reasons.                                                *)

LetGoAll(i) == [r \in Relays |-> IF owner[r] = i THEN Nobody ELSE owner[r]]
ClaimAll(i, d) == [r \in Relays |-> IF r \in Names(d) THEN i ELSE owner[r]]

(* Mutant of StoreReason: a thermostat that waits already keeps its reason. *)
FirstReason(i, why) ==
  reason' = IF reason[i] # NoReason /\ why # NoReason THEN reason ELSE [reason EXCEPT ![i] = why]
StoreReason(i, why) == reason' = [reason EXCEPT ![i] = why]

Start(i, d) ==
  LET obstacle == StartObstacle(i, d)
  IN  /\ StoreReason(i, obstacle)
      /\ UNCHANGED entityFreed
      /\ IF obstacle = NoReason
         THEN /\ running' = running \cup {i}
              /\ owner' = ClaimAll(i, d)
              /\ UNCHANGED freed
         ELSE /\ UNCHANGED running
              /\ IF obstacle.why = "sensor"
                 THEN UNCHANGED <<owner, freed>>
                 ELSE /\ owner' = LetGoAll(i)
                      /\ freed' = freed \cup HeldBy(i)

(* Mutant of Stop: the entity that came free is not noted. *)
StopQuietly(i) ==
  /\ running' = running \ {i}
  /\ owner' = LetGoAll(i)
  /\ freed' = freed \cup HeldBy(i)
  /\ UNCHANGED entityFreed
Stop(i) ==
  /\ running' = running \ {i}
  /\ owner' = LetGoAll(i)
  /\ freed' = freed \cup HeldBy(i)
  /\ entityFreed' = TRUE

(* Mutant of Restart: the relays it no longer names are kept. *)
RestartKeeping(i, d) ==
  LET obstacle == RestartObstacle(i, d)
  IN  IF obstacle # NoReason
      THEN Stop(i) /\ StoreReason(i, obstacle)
      ELSE owner' = ClaimAll(i, d) /\ UNCHANGED <<running, freed, entityFreed, reason>>
(* A Save of a running thermostat: it keeps the relays it still names. *)
Restart(i, d) ==
  LET obstacle == RestartObstacle(i, d)
  IN  IF obstacle # NoReason
      THEN Stop(i) /\ StoreReason(i, obstacle)
      ELSE /\ owner' = [r \in Relays |-> IF r \in Names(d) THEN i
                                         ELSE IF owner[r] = i THEN Nobody ELSE owner[r]]
           /\ freed' = freed \cup (HeldBy(i) \ Names(d))
           /\ UNCHANGED <<running, entityFreed, reason>>

(* save_: a newer firmware's file is never written. *)
Outcomes == IF WriteMayFail THEN BOOLEAN ELSE {TRUE}
(* Mutant of Reaches: any document is written. *)
AnyReaches(d, ok) == ok
Reaches(d, ok) == ok /\ ~d.newer
(* Mutant of Written: a file whose flag is right is left as it is. *)
WrittenOnFlag(i, d, ok) ==
  IF Reaches(d, ok) /\ ~(files[i] \in Doc /\ files[i].enabled = d.enabled)
  THEN [files EXCEPT ![i] = d] ELSE files
Written(i, d, ok) == IF Reaches(d, ok) THEN [files EXCEPT ![i] = d] ELSE files

(* The end of replace_, remove and set_enabled: start_waiters_, whose first *)
(* act is to take the entity_freed_ flag.                                   *)
ThenWaiters(skip) == job' = [pc |-> "on_relays", id |-> skip, at |-> 1, entity |-> entityFreed']
-----------------------------------------------------------------------------
(* Mutators *)

Drafts == {[enabled |-> e, sensor |-> s.sensor, heat |-> s.heat, cool |-> s.cool,
            target |-> t, newer |-> FALSE] : e \in BOOLEAN, s \in Shapes, t \in Targets}

(* Past every refusal and the write, a document that was not there. *)
Add(i, d) ==
  /\ ~Stored(i) /\ Cardinality(Stores) < Max
  /\ files[i] = NoFile
  /\ d.enabled => Savable(i, d)
  /\ files' = Written(i, d, TRUE)
  /\ docs' = [docs EXCEPT ![i] = d]
  /\ persisted' = TRUE
  /\ IF d.enabled THEN Start(i, d)
     ELSE UNCHANGED <<running, owner, reason, freed, entityFreed>>
  /\ UNCHANGED <<dirty, announced, job, memoryOnly>>

(* Past every refusal and the write, a document over the one that is there. *)
Replace(i, d) ==
  /\ Stored(i) /\ ~docs[i].newer
  /\ d.enabled => Savable(i, d)
  /\ files' = Written(i, d, TRUE)
  /\ docs' = [docs EXCEPT ![i] = d]
  /\ dirty' = dirty \ {i}
  /\ memoryOnly' = memoryOnly \ {i}
  /\ persisted' = TRUE
  /\ CASE i \in running /\ ~d.enabled -> Stop(i) /\ StoreReason(i, NoReason)
       [] i \in running /\ d.enabled -> Restart(i, d)
       [] i \notin running /\ d.enabled -> Start(i, d)
       [] OTHER -> /\ StoreReason(i, NoReason)
                   /\ UNCHANGED <<running, owner, freed, entityFreed>>
  /\ ThenWaiters(i)
  /\ UNCHANGED announced

Create(i, d) == job = Idle /\ Add(i, d)
Update(i, d) == job = Idle /\ Replace(i, d)
Restore(i, d) == job = Idle /\ (Add(i, d) \/ Replace(i, d))

(* delete_file_ removes the file, or blanks it, or leaves it. *)
Remains(i) == IF WriteMayFail /\ files[i] # NoFile THEN {NoFile, BadFile, files[i]} ELSE {NoFile}

Remove(i) ==
  /\ job = Idle /\ Stored(i)
  /\ IF i \in running THEN Stop(i)
     ELSE UNCHANGED <<running, owner, freed, entityFreed>>
  /\ \E left \in Remains(i) :
       /\ files' = [files EXCEPT ![i] = left]
       /\ persisted' = (left \in {NoFile, BadFile})
  /\ docs' = [docs EXCEPT ![i] = NoDoc]
  /\ dirty' = dirty \ {i}
  /\ memoryOnly' = memoryOnly \ {i}
  /\ StoreReason(i, NoReason)
  /\ ThenWaiters(Nobody)
  /\ UNCHANGED announced

(* set_enabled(id, false) *)
Disable(i) ==
  /\ job = Idle /\ Stored(i)
  /\ StoreReason(i, NoReason)
  /\ IF docs[i].enabled
     THEN \E ok \in Outcomes :
            LET d == [docs[i] EXCEPT !.enabled = FALSE]
            IN  /\ docs' = [docs EXCEPT ![i] = d]
                /\ files' = Written(i, d, ok)
                /\ persisted' = Reaches(d, ok)
                /\ dirty' = dirty \ {i}
     ELSE /\ persisted' = TRUE
          /\ UNCHANGED <<docs, files, dirty>>
  /\ memoryOnly' = memoryOnly \ {i}
  /\ IF i \in running THEN Stop(i)
     ELSE UNCHANGED <<running, owner, freed, entityFreed>>
  /\ ThenWaiters(i)
  /\ UNCHANGED announced

(* Mutant of Enable: the flag is on flash before the way is clear. *)
EnableOnFlashFirst(i, takeOver) ==
  /\ job = Idle /\ Stored(i) /\ i \notin running
  /\ docs[i].sensor # "not_celsius"
  /\ ~Savable(i, docs[i]) =>
       /\ takeOver /\ OnDevice(docs[i])
       /\ NoSlotFree => Holders(i, docs[i]) # {}
  /\ files' = Written(i, [docs[i] EXCEPT !.enabled = TRUE], TRUE)
  /\ persisted' = TRUE
  /\ job' = [Idle EXCEPT !.pc = IF Savable(i, docs[i]) THEN "holders" ELSE "waiters", !.id = i]
  /\ UNCHANGED <<docs, running, owner, reason, dirty, freed, entityFreed, announced, memoryOnly>>
(* set_enabled(id, true): past the refusals, it clears the way first. *)
Enable(i, takeOver) ==
  /\ job = Idle /\ Stored(i) /\ i \notin running
  /\ docs[i].sensor # "not_celsius"
  /\ ~Savable(i, docs[i]) =>
       /\ takeOver /\ OnDevice(docs[i])
       /\ NoSlotFree => Holders(i, docs[i]) # {}
  /\ persisted' = TRUE
  /\ job' = [Idle EXCEPT !.pc = IF Savable(i, docs[i]) THEN "holders" ELSE "waiters", !.id = i]
  /\ UNCHANGED <<docs, files, running, owner, reason, dirty, freed, entityFreed, announced, memoryOnly>>

(* Enabling one that runs already changes nothing and says so. *)
EnableRunning(i) ==
  /\ job = Idle /\ i \in running
  /\ persisted' = TRUE
  /\ UNCHANGED <<docs, files, running, owner, reason, dirty, freed, entityFreed, announced, job, memoryOnly>>

(* Of a take-over by i, what happens to the other's flag and file.  For a   *)
(* newer firmware's thermostat only the flag in memory goes, and a change   *)
(* the other had waiting is written under the flag its file has.            *)
StoreDisabled(j, i) ==
  /\ \E ok \in Outcomes :
       IF docs[i].newer
       THEN /\ files' = IF j \in dirty THEN Written(j, docs[j], ok) ELSE files
            /\ persisted' = FALSE
            /\ memoryOnly' = memoryOnly \cup {k \in {j} : files'[k] \in Doc /\ files'[k].enabled}
       ELSE LET d == [docs[j] EXCEPT !.enabled = FALSE]
            IN  /\ files' = Written(j, d, ok)
                /\ persisted' = (persisted /\ Reaches(d, ok))
                /\ UNCHANGED memoryOnly
  /\ docs' = [docs EXCEPT ![j].enabled = FALSE]
  /\ dirty' = dirty \ {j}
  /\ StoreReason(j, NoReason)

Claimants == Reservers(job.id, docs[job.id])

DisableWaiter ==
  /\ job.pc = "waiters"
  /\ \E j \in Ids : IsFirst(j, Claimants) /\ StoreDisabled(j, job.id)
  /\ UNCHANGED <<running, owner, freed, entityFreed, announced, job>>

ToHolders ==
  /\ job.pc = "waiters" /\ Claimants = {}
  /\ job' = [job EXCEPT !.pc = "holders"]
  /\ UNCHANGED <<docs, files, running, owner, reason, dirty, freed, entityFreed,
                 announced, persisted, memoryOnly>>

(* hand_over_ and stop_: what both name changes hands, the rest is let go. *)
DisableHolder ==
  LET i == job.id
      j == HolderOf(i, docs[i])
  IN  /\ job.pc = "holders" /\ Holders(i, docs[i]) # {}
      /\ StoreDisabled(j, i)
      /\ owner' = [r \in Relays |-> IF owner[r] # j THEN owner[r]
                                    ELSE IF r \in Names(docs[i]) THEN i ELSE Nobody]
      /\ freed' = freed \cup (HeldBy(j) \ Names(docs[i]))
      /\ running' = running \ {j}
      /\ entityFreed' = TRUE
      /\ UNCHANGED <<announced, job>>

(* Nobody is left in the way: the flag is stored and the thermostat starts. *)
StartEnabled ==
  LET i == job.id
      d == [docs[i] EXCEPT !.enabled = TRUE]
  IN  /\ job.pc = "holders" /\ Holders(i, docs[i]) = {}
      /\ IF docs[i].enabled
         THEN UNCHANGED <<docs, files, dirty, persisted>>
         ELSE \E ok \in Outcomes :
                /\ docs' = [docs EXCEPT ![i] = d]
                /\ files' = Written(i, d, ok)
                /\ persisted' = (persisted /\ Reaches(d, ok))
                /\ dirty' = dirty \ {i}
      /\ memoryOnly' = memoryOnly \ {i}
      /\ Start(i, d)
      /\ ThenWaiters(i)
      /\ UNCHANGED announced

(* Mutant of SetTarget: only a running thermostat's change is written. *)
SetTargetRunning(i, t) ==
  /\ job = Idle /\ Stored(i) /\ t # docs[i].target
  /\ docs' = [docs EXCEPT ![i].target = t]
  /\ dirty' = IF i \in running /\ ~docs[i].newer THEN dirty \cup {i} ELSE dirty
  /\ UNCHANGED <<files, running, owner, reason, freed, entityFreed, announced,
                 job, persisted, memoryOnly>>
(* set_setpoint, apply_preset, turn_on, turn_off and control from Home      *)
(* Assistant: live at once, written by a later flush.                       *)
SetTarget(i, t) ==
  /\ job = Idle /\ Stored(i) /\ t # docs[i].target
  /\ docs' = [docs EXCEPT ![i].target = t]
  /\ dirty' = IF docs[i].newer THEN dirty ELSE dirty \cup {i}
  /\ UNCHANGED <<files, running, owner, reason, freed, entityFreed, announced,
                 job, persisted, memoryOnly>>
-----------------------------------------------------------------------------
(* start_waiters_ and announce_released_ *)

(* Whom the loop in progress still has to try; the skipped id is the one    *)
(* the call was about.                                                      *)
Waiters == {i \in Ids : Waits(i) /\ i >= job.at /\ i # job.id}
OnRelay == {i \in Waiters : Names(docs[i]) \cap freed # {}}
OnEntity == {i \in Waiters : reason[i].why = "entity"}

TryWaiter(i) ==
  /\ Start(i, docs[i])
  /\ job' = [job EXCEPT !.at = i + 1]
  /\ UNCHANGED <<docs, files, dirty, announced, persisted, memoryOnly>>

StartOnRelay ==
  /\ job.pc = "on_relays"
  /\ \E i \in Ids : IsFirst(i, OnRelay) /\ TryWaiter(i)

ToEntities ==
  /\ job.pc = "on_relays" /\ OnRelay = {}
  /\ job' = [job EXCEPT !.pc = "on_entities", !.at = 1]
  /\ entityFreed' = FALSE
  /\ UNCHANGED <<docs, files, running, owner, reason, dirty, freed, announced, persisted, memoryOnly>>

MoreOnEntities == job.entity /\ ~NoSlotFree /\ OnEntity # {}

StartOnEntity ==
  /\ job.pc = "on_entities" /\ MoreOnEntities
  /\ \E i \in Ids : IsFirst(i, OnEntity) /\ TryWaiter(i)

(* Mutant of Announce: what another thermostat took meanwhile is announced too. *)
AnnounceAll ==
  /\ job.pc = "on_entities" /\ ~MoreOnEntities
  /\ announced' = freed /\ freed' = {} /\ job' = Idle
  /\ UNCHANGED <<docs, files, running, owner, reason, dirty, entityFreed, persisted, memoryOnly>>
Announce ==
  /\ job.pc = "on_entities" /\ ~MoreOnEntities
  /\ announced' = {r \in freed : owner[r] = Nobody}
  /\ freed' = {}
  /\ job' = Idle
  /\ UNCHANGED <<docs, files, running, owner, reason, dirty, entityFreed, persisted, memoryOnly>>
-----------------------------------------------------------------------------
(* Flash and power *)

Flushed(written) == [i \in Ids |-> IF i \in written /\ ~docs[i].newer THEN docs[i] ELSE files[i]]

(* flush_dirty_ writes each, a failure is only logged, and none is kept. *)
Flush ==
  /\ job = Idle /\ dirty # {}
  /\ \E lost \in IF WriteMayFail THEN SUBSET dirty ELSE {{}} :
       files' = Flushed(dirty \ lost)
  /\ dirty' = {}
  /\ UNCHANGED <<docs, running, owner, reason, freed, entityFreed, announced,
                 job, persisted, memoryOnly>>

(* load_: the first Max files the loader accepts, in the order of names. *)
Loaded(folder) ==
  LET good == {i \in Ids : folder[i] \in Doc}
  IN  {i \in good : Cardinality({j \in good : j < i}) < Max}

Boot(folder) ==
  /\ docs' = [i \in Ids |-> IF i \in Loaded(folder) THEN folder[i] ELSE NoDoc]
  /\ files' = folder
  /\ running' = {} /\ owner' = [r \in Relays |-> Nobody]
  /\ reason' = [i \in Ids |-> NoReason]
  /\ dirty' = {} /\ freed' = {} /\ entityFreed' = FALSE /\ announced' = {}
  /\ job' = [Idle EXCEPT !.pc = "boot"]
  /\ persisted' = TRUE /\ memoryOnly' = {}

(* A cut in the middle of a flush leaves some of it written; an orderly      *)
(* restart (on_shutdown) all of it.                                          *)
PowerCut == \E written \in IF job = Idle THEN SUBSET dirty ELSE {{}} : Boot(Flushed(written))

(* The end of load_: every enabled thermostat, in the order of ids. *)
StartLoaded ==
  /\ job.pc = "boot"
  /\ \E i \in Ids : IsFirst(i, Waiters) /\ TryWaiter(i)

Booted ==
  /\ job.pc = "boot" /\ Waiters = {}
  /\ job' = Idle
  /\ UNCHANGED <<docs, files, running, owner, reason, dirty, freed, entityFreed,
                 announced, persisted, memoryOnly>>

Init ==
  /\ files \in InitFiles
  /\ docs = [i \in Ids |-> IF i \in Loaded(files) THEN files[i] ELSE NoDoc]
  /\ running = {} /\ owner = [r \in Relays |-> Nobody]
  /\ reason = [i \in Ids |-> NoReason]
  /\ dirty = {} /\ freed = {} /\ entityFreed = FALSE /\ announced = {}
  /\ job = [Idle EXCEPT !.pc = "boot"]
  /\ persisted = TRUE /\ memoryOnly = {}

JobStep == \/ StartLoaded \/ Booted
           \/ DisableWaiter \/ ToHolders \/ DisableHolder \/ StartEnabled
           \/ StartOnRelay \/ ToEntities \/ StartOnEntity \/ Announce

Next ==
  \/ \E i \in Ids, d \in Drafts : Create(i, d) \/ Update(i, d) \/ Restore(i, d)
  \/ \E i \in Ids : Remove(i) \/ Disable(i) \/ EnableRunning(i)
  \/ \E i \in Ids, takeOver \in BOOLEAN : Enable(i, takeOver)
  \/ \E i \in Ids, t \in Targets : SetTarget(i, t)
  \/ JobStep
  \/ Flush
  \/ PowerCut

Spec == Init /\ [][Next]_vars
(* A job runs to its end: nothing else runs on the loop task meanwhile. *)
FairSpec == Spec /\ WF_vars(JobStep)
(* Each pass of the loop ends in a flush once the oldest change is old       *)
(* enough; a later change does not put it off, and calls come in between.    *)
FlushSpec == FairSpec /\ SF_vars(Flush)
-----------------------------------------------------------------------------
(* Claims *)

(* A relay is claimed by a running thermostat that names it, or handed to    *)
(* the one whose take-over is in progress; and a running one is enabled and  *)
(* holds every relay it names, so no two ever drive the same relay.          *)
ClaimsMatch ==
  /\ \A r \in Relays : owner[r] # Nobody =>
       /\ Stored(owner[r]) /\ r \in Names(docs[owner[r]])
       /\ owner[r] \in running \/ (job.pc = "holders" /\ job.id = owner[r])
  /\ \A i \in running : Enabled(i) /\ Names(docs[i]) \subseteq HeldBy(i)

(* A relay never passes from one thermostat to another behind the first's    *)
(* back: whoever loses it to a take-over is stored disabled in that step.    *)
NeverStolen ==
  [][\A r \in Relays : owner[r] # Nobody /\ owner'[r] \notin {Nobody, owner[r]}
       => ~docs'[owner[r]].enabled /\ owner[r] \notin running']_vars

(* Two enabled thermostats that name one relay come from the files of a boot *)
(* only: no Save, restore, enabling or take-over makes the first such pair,  *)
(* running or waiting.                                                       *)
Exclusive(d) ==
  \A i, j \in Ids : i # j /\ d[i] \in Doc /\ d[j] \in Doc /\ d[i].enabled /\ d[j].enabled
                    => Names(d[i]) \cap Names(d[j]) = {}
ExclusiveKept == [][Exclusive(docs) /\ ~PowerCut => Exclusive(docs')]_vars

(* Waiters *)

(* Between two calls an enabled thermostat that does not run could not       *)
(* start: what a stop, a Save or a removal freed was offered to everyone it  *)
(* suits, and nobody is left waiting for what is there.                      *)
NobodyForgotten ==
  job = Idle => \A i \in Ids : Waits(i) => StartObstacle(i, docs[i]) # NoReason

(* waiting_reason() is the truth now, not when it was noted: the relay it    *)
(* names is still held by the thermostat it names, the pool is still full.   *)
StillTrue(i) ==
  CASE reason[i].why = "sensor"  -> docs[i].sensor # "ok"
    [] reason[i].why = "entity"  -> NoSlotFree
    [] reason[i].why = "held"    -> /\ reason[i].relay \in Names(docs[i])
                                    /\ owner[reason[i].relay] = reason[i].by
    [] reason[i].why = "missing" -> reason[i].relay \in Names(docs[i]) \ Switches
    [] reason[i].why = "none"    -> FALSE
ReasonsCurrent == job = Idle => \A i \in Ids : Waits(i) => StillTrue(i)

(* Whatever is let go is noted for the announcement, what was noted is       *)
(* announced or taken again before the call ends, and what is announced is   *)
(* free: bindings drive only relays that no thermostat holds.                *)
ReleasesAnnounced ==
  [][/\ \A r \in Relays : owner[r] # Nobody /\ owner'[r] = Nobody => r \in freed' \/ PowerCut
     /\ \A r \in freed : r \in freed' \/ r \in announced' \/ owner'[r] # Nobody \/ PowerCut
     /\ \A r \in announced' \ announced : owner'[r] = Nobody
     /\ job' = Idle => freed' = {} /\ ~entityFreed']_vars

(* The loops of a take-over and of start_waiters_ end, however many wait:    *)
(* the loop task is not stuck in a call.                                     *)
CallsEnd == <>[][~PowerCut]_vars => (job # Idle ~> job = Idle)

(* Files *)

(* Between two calls the file of a thermostat is its document, except for    *)
(* what the next flush will write.                                           *)
FilesFollow ==
  job = Idle => \A i \in Ids \ dirty :
    IF Stored(i) THEN docs[i].newer \/ files[i] = docs[i] ELSE i \notin Loaded(files)

(* Cut the power in the middle of a take-over, a flush or anything else: no  *)
(* step leaves two files of this firmware enabled on one relay, whatever of  *)
(* the call's writes is still undone.                                        *)
NoneNewer == \A i \in Stores : ~docs[i].newer
FilesKeptApart ==
  [][Exclusive(docs) /\ Exclusive(files) /\ NoneNewer => Exclusive(files')]_vars
(* What the README says of two enabled thermostats on one relay: only files  *)
(* written by hand or a restore bring them about.                            *)
FilesExclusive == Exclusive(files)

(* A newer firmware's file stays as it is until the thermostat is removed:   *)
(* no flush, flag, take-over or Save of this firmware rewrites it.           *)
NewerUntouched ==
  [][\A i \in Ids : files[i] \in Doc /\ files[i].newer => files'[i] = files[i] \/ Remove(i)]_vars

(* A slider dragged without end does not keep its thermostat off the flash:  *)
(* again and again every file has the value of its document.                 *)
TargetsWritten ==
  <>[][~PowerCut]_vars =>
    []<>(\A i \in Ids : Stored(i) /\ ~docs[i].newer => files[i].target = docs[i].target)

(* What the README says of a take-over by a newer firmware's thermostat: the *)
(* files of those it disabled stay enabled.                                  *)
TakenOverStayEnabled ==
  \A i \in memoryOnly : files[i] \in Doc => files[i].enabled

(* What climate_hub.h says of persisted: when a stop is answered with        *)
(* persisted, a reboot does not undo it.                                     *)
StopPersisted ==
  [][\A i \in Ids : Disable(i) /\ persisted' /\ files'[i] \in Doc => ~files'[i].enabled]_vars
=============================================================================
