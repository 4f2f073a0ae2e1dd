# TLA+ for the JetHome ESPHome components

TLA+ models of the components under `src/components/`, which run on ESPHome on an ESP32: the
thermostats of `climate_hub`, the relays they hold, the schedules, rules and bindings that share
those relays, and the way calls from other tasks reach the loop. TLC checks small instances, TLAPS proves what holds for all of them.
`PROJECT.json` lists the runs, the mutants, the lines each definition translates, the hazards and
the theorems.

## 1. The system

One loop task runs every component's `loop()` in turn, the scheduler's timers and the deferred
calls. The web server's handlers run on another task and hand their work to the loop
(`loop_job`). What must survive a restart is a JSON file on LittleFS or a record of ESPHome's
preferences, written a while after the change. Nothing stops a panel, Home Assistant, an automation
or a schedule from switching a relay that a thermostat holds.

```
 web editors ──loop_job──┐            Home Assistant, automations, schedules, menu
                         ▼                         │ set_enabled, set_setpoint, …
                   climate_hub  ◄──────────────────┘
   documents, files, pool │ acquire / let go / hand over            ┌── panel, HA, rules
                          ▼                                         ▼
        controller_runtime ──request / force_off──► relay_claim ──► switch
                          │ let go, once nobody waits for it
                          ▼
                     switch_hold ──► bindings, schedules
```

### Components

| Component | State | Operations | What makes it correct |
| --- | --- | --- | --- |
| `climate_hub`: hub | documents, files, pool slots and who runs in them, relay claims, waiting reasons, what is unwritten | create, update, restore, remove, set_enabled with or without a take-over, targets, debounced flush, boot | one thermostat to a relay; nobody waits for what is free; files say after a cut of power what a boot may run |
| `climate_hub`: `RelayClaim` | where it left the relay and when, moves from elsewhere, a pending one | request, force_off, resume, set_owner | minimum on and off times, no fight with a second writer, cut-outs at once |
| `climate_hub`: `ControllerRuntime` | reading, faults, autotune session, demand | tick, start, stop, calibrate | a relay is closed for a cause only; a calibration ends when what it measures moves, and no pause is integrated over |
| `loop_job` | one slot of four states for each call | run on loop, give up | a job runs once and before its caller returns, or never |
| `bindings`, `switch_hold` | binding table, level marks, walks over it, holders of a switch | input edge, release, edit, also from an action | a follower is as its input, a toggle is flipped once by each press |
| `schedules` | documents, files, which drive their targets, lists under way and their waits, deferred jobs | create, update, restore, remove, flag, take-over, tick, clock jump, release, thermostat back or gone | the list of the point in force runs once and to its end; targets are as it left them |
| `automations`: rules that run | rules, runs, delayed steps, events being offered | trigger, step, delay, stop, restart, edit, rebuild | every run ends or has its timer; no rule is destroyed under its own step |
| `automations`: files | the folder, the file of each rule | load, repair, add, rename, remove | every rule is in one file and no removed one comes back |
| `virtual_inputs` | source, delays and pending level of each slot | level, loop pass, save, remove, boot | a level held for the delay comes through, over a wrap of the clock |
| `ntp_servers` | server list, who is asked, record | reply, timeout, set | a late reply is not another server's; what is asked is what a boot reads |
| `config_base`, `config_json`, `entity_config` | records, dirty types, one pending save | edit, save, shutdown | a change reaches flash |
| `dallas_scan` | slot of each address, offsets | boot, replace, flush | a sensor keeps its number and its offset |
| `crash_report` | kept reports on flash | rotate | a cut of power loses the oldest at most |
| `littlefs_storage` | wipe request | factory reset, mount | wiped once, before anything is mounted |
| `firmware_rollback` | otadata | confirm, roll back | something bootable remains |
| `timezone_settings`, `status_indicator`, `web_auth`, `web_file_browser` | one record, or one upload | set, apply | see the plan |
| web editors, `entity_config`, `panel_text`, `virtual_display`, `i2c_eeprom`, `jethome_*`, `modbus_map`, vendored copies | little or none over time | request to call, formatting, drawing | not modelled: conversions and I/O |

### What is hard here

* **A cut of power** between two of the several files a take-over writes, or with a change still
  waiting for the flush. `ClimateHub` has one action for each round of those loops, and
  `PowerCut` is enabled in every state.
* **Waiting.** A thermostat that lacks a relay or a climate entity starts when one comes free,
  out of the middle of another call, and may free something itself by failing.
* **Order.** The waiters have their turn before `switch_hold` announces the release; the holder is
  stopped after the relay was handed over; a Save supersedes what waits for the flush.
* **Two writers of one relay**, at any moment between two passes.
* **A caller's deadline** racing the start of its job, which holds references into the caller's
  stack.
* **Re-entry** (bindings, automations, schedules). A write to a relay runs whatever hangs on it, on
  the same stack, and that may change the table, the list or the rule that is being walked. The
  three models keep the walks as frames on a stack, one step of each being an action.
* **What is read now and used later**: points due, a timer's sequence number, a deferred job, a
  late reply.

## 2. The modules

| Module | Models | Extends |
| --- | --- | --- |
| `ClimateHub` | `climate_hub.cpp`: documents, files, pool, claims, waiters | |
| `MCClimateHub` | its instances for TLC | `ClimateHub` |
| `ClimateHubProofs` | theorems | `ClimateHub`, `TLAPS` |
| `RelayClaimOps` | `relay_claim.cpp`: each method as an operator on a record | |
| `RelayClaim` | one relay over its life: claimed, driven, moved, released, handed over, rebooted | `RelayClaimOps` |
| `MCRelayClaim` | its instance | `RelayClaim` |
| `RelayClaimOpsProofs` | what each method leaves of a claim: lemmas | `RelayClaimOps`, `TLAPS` |
| `RelayClaimProofs` | theorems | `RelayClaim`, `RelayClaimOpsProofs` |
| `LoopCall` | what `run_on_loop()` promises | |
| `LoopJob` | `loop_job.h`: slots, items, callers, the loop | instantiates `LoopCall` |
| `LoopJobProofs` | theorems, the refinement among them | `LoopJob`, `TLAPS` |
| `ScheduleEngine` | `schedule_engine.cpp`, with the documents of `schedule_config.cpp` | |
| `MCScheduleEngine` | its scenes for TLC | `ScheduleEngine` |
| `ScheduleEngineProofs` | theorems | `ScheduleEngine`, `TLAPS` |
| `AutomationRuntime` | `runtime_automation.cpp` and the dispatching half of `automation_storage.cpp` | |
| `MCAutomationRuntime` | its scenes | `AutomationRuntime` |
| `AutomationRuntimeProofs` | theorems | `AutomationRuntime`, `TLAPS` |
| `AutomationFiles` | the files of `automation_storage.cpp` | |
| `MCAutomationFiles` | any folder of three files | `AutomationFiles` |
| `Bindings` | `bindings.cpp`, with the records of `entity_config`, the keeper of `config_base`, `switch_hold` | |
| `VirtualInputs` | `virtual_inputs.cpp`, `delay_line.cpp` | |
| `ControllerRuntime` | `controller_runtime.cpp`, the latch, the duty cycler, and how the hub starts, saves, stops and calibrates one | `RelayClaimOps` |
| `ControllerRuntimeProofs` | theorems | `ControllerRuntime`, `RelayClaimOpsProofs` |
| `NtpServers` | `ntp_servers.cpp` | |
| `CrashReport` | `crash_report.cpp` | |
| `Parts` | `AutomationFiles`, `VirtualInputs`, `Bindings`, `NtpServers` and `CrashReport`, side by side | instantiates them |
| `PartsProofs` | theorems | `Parts`, `TLAPS`, three of the library's theorem modules |
| `MCParts` | the scenes of `Parts` and of `ControllerRuntime` for TLC | `Parts`, `ControllerRuntime` |

An operator with the comment *Mutant of X* is `X` with a plausible bug. No specification uses it;
the runs listed under `mutants` do, to show that the property can see that bug.

### ClimateHub

`docs` is `store_`, `files` the folder, `running` the ids of the slots in use, `owner` is
`claims_`, `reason` is `waiting_`; `dirty`, `freed` and `entityFreed` are the members of that
name. `announced` is what the last `announce_released_` told `switch_hold`, `persisted` the field
of the last `Result`, and `memoryOnly` an observer of the thermostats a newer firmware's take-over
disabled. Ids are numbers: the store sorts by id, and every loop over it goes in that order.

A document keeps its flag, the two relays it names, whether its sensor is usable, absent or not
in °C, one `target` for what a user moves (setpoint, preset and mode share one path to flash), and
`newer` for a file of a newer firmware. `start_`, `restart_` and `stop_` are operators on the next
state; `Restart` keeps the pool entity and the relays it still names.

The hub runs on the loop task only, so a call that writes one file is one action. Two loops are
not: `set_enabled()` with a take-over (`Enable`, then `DisableWaiter` or `ToHolders`, then
`DisableHolder`, then `StartEnabled`), because each round writes a file, and `start_waiters_`
(`StartOnRelay`, `ToEntities`, `StartOnEntity`, `Announce`), because each start may free or take
what the next one needs. `job` says where the call is, and nothing but `PowerCut` comes between.
`StartLoaded` and `Booted` are the last loop of `load_`. A loop that would never end
shows as a job that never gets back to `Idle`: see `CallsEnd`.

The index `at` and the skipped id of `start_waiters_` are in `job`. A save without a take-over
refuses on anyone who holds *or waits for* a relay (`Savable`); that is `check_savable_`.

Left out: names, the pool's slot names and renames, the `revision` a calibration moves,
calibrations, how Home Assistant is told to list an entity again, and the periodic retry of
`capture_loop_task`: calls come after the boot has set it. A failed write is explored in one run
only (`WriteMayFail`), see `hub_stop_lost`.

### RelayClaim

`claim` is the object and the switch it holds: `relay` is the switch's own state, `state` is
`state_`, `moves`, `moved`, `pending` and `fresh` the members of those names, `dwell` the minimum
times of the holder's output. Timestamps become ages, saturated past every threshold they are
compared with: the class counts milliseconds on 64 bits, so nothing wraps. With no claim on the
relay, `claim` is the record `relay_history_` keeps of it.

`Pass` is one `tick` of the holder, which ends in one `request` or `force_off` on every branch:
`demand` picks which. `Elsewhere` is anything else switching the relay between two passes.
`Acquire`, `HandOver` and `LetGo` are what the hub does with a claim. `foreign`, `sinceOwn`,
`sincePut` and `others` are notes of an observer at the relay's terminals: they are computed from
the relay's movements only, so a property that relates them to the claim says something of both.

### ControllerRuntime

`rt` holds the members of the class with the claims of both relays, which `Request`, `ForceOff` and
`Anew` of `RelayClaimOps` change; `doc` is the running document, `last` what the hub remembers of
each sensor, which outlives Saves and starts. `Pass` is `tick`. A `Save` is `replace_` and
`restart_`; a `Start` may find relays closed, handed over by the thermostat it replaces. Temperatures
and duties are small numbers and times are ages; what a PID puts out, and whether the tuner of a
calibration wants its relay, ends or is spent, is chosen freely at each turn. `unbroken` is an
observer's: how long one law has been in control with nothing in between, which
`NoPauseIntegrated` compares with the time the PID is about to integrate over.

Left out: gains, the action and whatever else the entity shows, a period or a minimum time that a
Save changes, a relay that a Save replaces by another of the same direction, and `release_claim`,
after which a take-over stops this thermostat in the same job.

### LoopJob

One step for each access to the slot's atomic. A slot is freed by its last reference; one that is
freed is allocated again by a later call, so several items of calls that gave up may be in the
scheduler beside a new one. The scheduler may take them in any order.

`LoopCall` knows no slots: a call is asked, then done alone and answered, or refused.
`LoopJob` implements it under `call[c] = CallOf(c)`.

### ScheduleEngine

`entries` is `entries_` by id: document, flag, `active` for the one that drives its targets, the
list in force (`mode`, `next`, `run`, `waiting`) and the actions a thermostat lost. `waits` is what
the scheduler holds, `jobs` what `later_` deferred, `stack` the walks under way: a tick with the
points still to run, a take-over with the schedules still to stop, `start_all_`, or a list. An
action of a list is one step; while the callbacks of the relay it wrote run (`open`), every
operation of the engine is possible, the ones on the schedule that plays included. `unsaved` notes
the ids whose last answer said that flash was not written, and those a boot left alone as more than
`max_schedules`, which only its log tells.

A small step of the clock back is absorbed and leaves the minute as it was, until the clock has
passed it again. Several of them before that add up, and the minute that counts may then be ahead of
the clock by more than one small step; no document says otherwise. `SetBackAgain` lets the clock do so. It is `FALSE` in both runs, whose
three readings leave no room for it (with `TRUE` they have the same states), and `ModeInForce`
bounds the minute's lead for that case only; that the lists are those of the minute that counts
does not depend on it (`ListAlwaysInForce`).

Left out: names, revisions, colours and the JSON. A schedule deleted and created again under
its id has the revision it had at first. Files past `max_schedules` are not counted as not loaded.

### AutomationRuntime

`rule` holds each rule's document, whether it is enabled and built, and `gen`, which object it is;
`runs` is `runs_`; `timers` the scheduler, by rule and sequence number; `stack` the events being
offered to the rules in turn and the runs being stepped. A switch step writes the relay, whose
callback offers the new state to every rule before the step goes on. `settled` is an observer: the
rules whose relay nothing else moved or held since their trigger's last edge.

An input moves in the middle of a step only if no older move of it is still offered, and on at most
`MaxNested` frames: a `restart` rule that toggles its own trigger with no delay calls itself
without an end in the code too. Clicks, thresholds, sensors and cron times are triggers like any
other; only a condition on one input is kept.

### AutomationFiles

A name stands for the file it maps to and a body for the rest of a rule. `Boot` loads in any order
of the folder and resolves duplicates; `RepairRule` is one write of `normalize_filenames_`;
`DropOld` the deletion that follows a write elsewhere, which may blank the file instead.
`promised` are the bodies that are on flash as far as their author was told.

`PowerOff` is enabled once the boot's repairs are done, between the two writes of a rename too
(which leaves the rule in two files), but not in the middle of the repairs: there, power lost
in a swap of two files loses a rule, and a file that was vacated but not yet deleted brings a rule
back twice when the write to its owner fails. A cut between the two writes of a rename while the store
is full leaves a file more than a boot loads, and the copy that was not loaded may bring back a rule
that was removed; the theorems exclude it by name (`RoomAtCut`, section 4). Two
more cases are visible in the source and left out by `Orphans` and `WritesFail`: a rule that names
a missing entity is not written, so a swap with it overwrites a file that `README.md:120` of the
component says is never rewritten; and a rename whose write fails leaves the new name in
`config.file`, so a removal later deletes nothing and the old file brings the rule back.

### Bindings

`table` is `bindings_`, `listening` is `subscribed_`, `marks` is `level_only_`, `stack` the walks of
`on_input_state_`. `record` and `flip` are the records of `entity_config`, `dirty` and `pending`
the keeper, `file` what it wrote last. `handed` notes the followers that another hand moved since
their input spoke, `due` what its presses make of a relay that toggles.

`acting` is true while a relay that has just changed may run its actions: those edit a binding or
move another input, on top of the walk. With `NestedRemovals` they may drop a binding too, and then
`FollowsInput` fails: the walk goes by index, so it skips the entry after the one dropped.
`bindings.cpp:187` says of those actions that they "may append to the table" and nothing of
dropping, so that is left out of the run and not listed as a finding. `Missing` are the inputs a
record may name and this firmware lacks: such a binding is kept and drives nothing. Likewise left
out: an input that moves again while its older level is being walked, whose later followers end on
the older level; actions that move an input during the walk of `setup()`; and power lost between
the file of a deleted virtual input, written at once, and the unbinding, which waits for the save.

The first inversion of an input that has no level or filter yet shows nothing. Every `save()` arms
the delay anew, so a change that keeps coming stays in memory until the shutdown writes it.

### VirtualInputs, NtpServers, CrashReport

`VirtualInputs` counts milliseconds modulo 8 for 2^32, and beside that clock `stood` counts without
a width for how long each level has stood: `DelaysKept` relates the two.

`NtpServers` keeps who is asked, the timer and the replies lwIP has handed over but the loop has
not heard of. `asked` and `answered` are an observer's. A reply is late by any time, by any server
that was asked. Left out are `last_sync`, the rules of `check_servers` and the saturation of a wait
for a poll that never comes.

`CrashReport` has one action for each call of the filesystem, which may fail, and a reset, a loss of
power or another crash after each. A reset between the rename and `clear_record_` saves the same
record again, which `ReportsKept` allows; a boot cut off loses at most one report, several in a row
one each.

### Parts and MCParts

Five components that share no state, `Parts`, and a thermostat: each step is one component's, so the
product says nothing that each does not say alone. `scene` picks what plays in a behaviour of
`MCParts`, the others stand as they began, and the run checks the sum of the state spaces rather
than the product. `Bindings` has two scenes: `drive` for walks, holds and releases, `keep` for edits,
failing writes, cuts of power and restarts. `ControllerRuntime` has four, each with the documents and
events that can meet in it (`InScene`). The theorems are about `SpecParts`, where any component
may step at any time, from any of the states each begins in.

## 3. The runs

| Run | Instance | What it shows |
| --- | --- | --- |
| `relay_claim` | floor 2, quiet 3, contest at 3 moves, ages to 4, a heater (0/1) and a compressor (3/4) | `DwellKept`, `PutBacksSpaced`, `OnlyMovesCount`, `Settles` |
| `loop_job` | 2 callers, 3 slots, a time-out of 2 polls | `CallsReturn`, and `KeepsPromise`: it implements `LoopCall` |
| `hub` | 3 thermostats, pool of 2, relays r1 to r3, r4 missing, any folder of files | `ClaimsMatch`, `NeverStolen`, `ExclusiveKept`, `NobodyForgotten`, `ReasonsCurrent`, `ReleasesAnnounced`, `FilesFollow`, `FilesKeptApart` |
| `hub_live` | 2 thermostats, pool of 1, 2 targets, files of newer firmware | `CallsEnd`, `TargetsWritten`, `NewerUntouched` |
| `schedules` | 3 ids, 2 relays, 1 thermostat, a week of 2 minutes, in four scenes | `DriversExact`, `ListsNeverStall`, `RelaysFollow`, `ThermostatsFollow`, `ModeInForce`, `FlashAgrees`, `WaitsKept` |
| `automations` | 2 rules of 2 runs, an input, 2 relays, a thermostat, in three scenes | `RunsDriven`, `NotPulledAway`, `BuiltWhenThere`, `FollowLands` |
| `parts` | six components, below | `FolderExact`, `RefusedKept`, `DelaysKept`, `FollowsInput`, `TogglesOnPresses`, `SettingsKept`, `ServersStored`, `AnswersCredited`, `ReportsKept`, `ClosedForCause`, `RunUndisturbed`, `NoPauseIntegrated` |
| `schedules_stale_point`, `automation_files_lost` | as `schedules`, any folder of 3 files | as below |
| `hub_taken_over`, `hub_stop_lost`, `hub_files_apart` | 2 thermostats | a documented promise that the code does not keep, below |

**Bounds.** Three thermostats are the least with which a take-over has to clear two others away, a
release has two waiters, or a start frees something for a third; two are enough for one to fail
while another waits. A pool of two for three makes it run full, and with three relays it may be all that a
thermostat waits for. The shapes give a document one relay as the heating or the cooling one, two
relays, a relay that is missing, a sensor that is missing or one not in °C.
`Targets` has one value in `hub` and two in `hub_live`, where the flush matters. Three slots for
two callers let one item of a call that gave up stay beside two current ones. In `relay_claim` the
heater's dwells lie under the floor and the compressor's at or over the quiet time, so every
comparison of the three thresholds goes both ways; `MaxAge` is the largest of them.

`schedules` plays in scenes (`MCScheduleEngine`), each of which lets a part of the surroundings
move. Two schedules that share a relay and a third that shares with one of them are what
`settle_` has to decide between; a list of an action, a wait and an action can be cut off before,
in and after the wait; a clock of three readings goes forward, jumps and steps back; three frames
hold a tick, the list it runs and the one a callback starts. A callback saves no schedule whose
point is due in the same tick (`SaveWhileDue`): see `schedules_stale_point`. `automations` has in
each scene the rules that can meet: followers of one input in `single` and in `restart`, a parallel
rule and one that wakes itself, and rules that name a thermostat. Two runs of a rule make its table
full.

In `parts`, folders have three files, which lets two rules sit in each other's and a third be
missing or refused; while a file is refused no rule sits in another's (`TidyFolders`), and no write
fails: see `automation_files_lost` for the rest. Two slots of `VirtualInputs` share a source, with a
delay either way, both and none, and the loop is away for two steps at most, which carries a delay over
the wrap of a clock of 8. Two relays with up to three bindings each are bound to a
contact and a virtual input, follow and toggle; two walks on the stack are one and the one its
actions start. Three NTP servers of which two are compiled in make lists of none to three; the
wait doubles once. Five crashes fill three reports and push two out. For a thermostat every time is
one step: the time-out, the interval, the longest calibration, the minimum on time of the cooling
relay; readings lie below, at and over the temperature limit, which is the target of most documents
too. Two sensors, one of them silent until it speaks, tell a Save that keeps its sensor from one
that does not; `moved` has a writer from elsewhere, with a contest at the first counted move.

**Fairness.** `RelayClaim`: `WF(Pass)` and `WF(Tick)`, as the loop runs every registered component
on each pass and time goes on. `Settles` assumes on top that the writers from elsewhere stop
(`Calm`) and that the relay stays claimed. `LoopJob`: a caller's task runs, and a job that has
begun ends. *Not* that the loop takes an item: it may be stuck, and `CallsReturn` must hold all
the same. `ClimateHub`: `WF(JobStep)`, as a call runs to its end before the loop does anything
else, and `SF(Flush)`, as `loop()` compares the age of the *first* unwritten change on every pass,
which calls in between interrupt but do not put off. `CallsEnd` and `TargetsWritten` assume that
the power is not cut for ever again. The other modules state safety only: what must come in the
end is bounded by an observer's count (`DelaysKept`, `AnswersCredited`) or said of the states in
which nothing is under way or deferred (`RelaysFollow`, `FollowLands`, `RunsDriven`).

Deadlock is checked in every run.

### What disagrees with the documentation

* `hub_taken_over`. `README.md:317` of the hub says that a take-over by a newer firmware's
  thermostat disables the others in memory only and their files stay enabled. The next change of
  target of one of them is flushed with its whole document, the disabled flag included.
* `hub_stop_lost`. `climate_hub.h:41` says that `persisted` is false when a reboot undoes the
  change. A stop whose write fails is answered so; the same stop again finds nothing to change,
  writes nothing and answers `persisted: true`, and a reboot still starts the thermostat.
* `hub_files_apart`. `README.md:263` says that two enabled thermostats on one relay come only
  from files written by hand or a restore. Stop a newer firmware's thermostat (its file cannot be
  written and stays enabled), create another on its relay, and there are two enabled files.
  `FilesKeptApart` is about the steps taken while the store has no document of a newer firmware. That
  is not enough for a proof: one that was there before may have taken a relay over in memory only,
  and the file it left enabled outlives it. The theorem supposes a folder without any.
* `schedules_stale_point`. `README.md:99` of the schedules says that a Save runs the list of the
  point in force. A tick collects the points due, by schedule and mode, before it runs the first;
  a relay's callback that saves the second schedule meanwhile has its list started and then
  replaced by the mode the old document had under that index.
* `automation_files_lost`. `automation_storage.cpp:930` says that a rule whose file is taken by one
  the loader refused stays where it is. Nothing marks that file as occupied, so if it bears another
  rule's name, that rule's repair writes over it and the first is gone from flash.

## 4. The proofs

All are for any value of the constants that satisfies the named assumptions.

**RelayClaimProofs** (`ClaimAssumption`: the floor is at least 1 and at most the quiet time,
`MaxAge` at least the quiet time and every dwell). `TypeCorrect`, `CountsOnlyMoves`,
`CutOutsOpen`, `DwellsKept`, `PutBacksApart`. None of these is inductive as it stands, since they
relate the observer's notes to fields that each method updates in its own order. The invariant
`IInv` links the two sides:

* `AgesLag`: the claim's age is never more than the time since it last switched or put back, so a
  dwell the claim thinks over is over; likewise `putBack` and `sincePut`;
* `FreshIsClean`: before a new holder's first pass nothing is pending, moved or counted;
* `ForeignShows`: a pending move is a remembered one, and while none is pending the relay is where
  something else put it exactly when it is not where the claim left it;
* `UnmovedIsQuiet`: a claim that has seen no move has no put-back in the last quiet time;
* `MovesLag`: moves counted, with one more to come for a relay out of place, are at most `others`.

Each method has a lemma on what it does to these (`RequestFacts`, `ForceOffFacts`, …, in
`RelayClaimOpsProofs`), `NextInv` puts them together by action, and the action properties follow
from `IInv` and those lemmas.

**ControllerRuntimeProofs** (`ClaimAssumption` and `RuntimeAssumption`: documents, readings, times
and dwells are of their kinds). Any set of documents, readings and limits. `TypeCorrect`,
`RelaysClosedForCause`, `RunsUndisturbed`, `PausesNotIntegrated`. `ClosedForCause` speaks of what
the hub heard of the sensor, `tick` of its own copy, so the invariant has:

* `Heeds`: the thermostat has a reading exactly when the hub heard one of this document's sensor,
  and then its age and value are those;
* `Served`: the latch is of the document and its mode, and a duty left over from another mode waits
  for a turn of the law that is due;
* `RunApart`: a calibration is around the document's target, on one of its relays, with no duty for
  the other;
* `MovesKnown`: a move that waits to be put back is remembered.

A pass is followed part by part: `RefreshFault`, the end of a calibration, the law, the drive, and
the two claims, each of which rests on `RequestWaits` and `ForceOffOpens` of `RelayClaimOpsProofs`.

**LoopJobProofs** (`LoopJobAssumption`). `TypeCorrect`, `JobsAreCalledFor`, `OrphansNeverRun`,
and `PromiseKept`, that `LoopJob` implements `LoopCall`. The invariant adds that two callers never
wait on one slot, that a slot in `run()` is not queued too, and that a slot is `running` exactly
between the exchange and the publication. `StepRefines` has one step for each action: `Exchange`
is `Begin` or a stutter, `Publish` is `End`, `Abandon` is `Refuse`, and so on.

**ClimateHubProofs** (`HubAssumption`: `NoRelay` is no relay, the documents are made of known
relays and sensors, and no marker is a document). Any number of ids, relays and pool entities, any
folder at the first boot, writes that fail. `TypeCorrect`, `ClaimsAlwaysMatch`,
`RelaysNeverStolen`, `StaysExclusive`, `EveryReleaseAnnounced`. `ClaimsMatch` alone is not
inductive: `StartEnabled` would leave the relays of a thermostat that took over and cannot run
claimed for nobody. `IInv` adds what a take-over in progress has made true:

* `TakeOver`: the one that takes over is stored and does not run, and by its own sensor it can,
  unless there was nothing to take (`set_enabled` refuses such a take-over first);
* `WaitersCleared`: past the waiters, nobody enabled but the running ones names its relays;
* `DirtyStored`: what waits for the flush is in the store.

`StartFacts`, `StopFacts` and `RestartFacts` say what the three operations leave of the pool and
the claims; `ClaimsOnStart`, `ClaimsOnStop`, `ClaimsOnRestart` and `ClaimsOnFlags` that each keeps
`ClaimsMatch`; each action has a lemma on top of those. `StaysExclusive` needs the invariant:
`check_savable_` looks past a waiter whose relay the saved thermostat holds itself, which is
sound only because whoever holds a relay is enabled and names it (`SavableFacts`).
`EveryReleaseAnnounced` has an invariant of its own, `Settled`: between calls, and until a
take-over meets its first holder, nothing is noted as freed.

`ReasonsAlwaysCurrent` and `NobodyEverForgotten` come from one invariant, `Reasoned`: in the middle
of a call too, what is noted of a waiter is still so, *or* the call will come to it (`Pending`):
its relay or the pool entity is noted as freed and the loop of `start_waiters_` has not passed it
yet, or it is the one that takes over, or the boot has not reached it. With no call in progress
nothing is pending, so every reason is the truth (`ReasonsCurrent`) and therefore an obstacle
(`NobodyForgotten`). `StartsOrKnows` and `RestartsOrKnows` say that a start either succeeds or
notes a true reason, `StaysTrue` when a reason outlives a step. `ByOthers` and `BootsAll` are the
two facts it leans on.

`NewerNeverRewritten` has `NewerKnown`: a stored thermostat whose file is a newer firmware's is one
in memory too, so that `save_` passes it over. `FilesAlwaysFollow` and `FilesStayApart` suppose
`OwnFolders`, which the folders of `hub` satisfy: every write succeeds, and any folder at the first
boot holds no more documents than the store and none of a newer firmware. Each part is needed: a
write that fails leaves a document ahead of its file (`hub_stop_lost`), a file over the store's
capacity is there with no document of it, and a newer firmware's may leave one enabled beside
another (`hub_files_apart`). The invariant is `Mirrored`, file by file, in the middle of a call too:
flag and relays are as in the document always, the rest unless it waits for the flush.

**ScheduleEngineProofs** (`ScheduleAssumption`: documents name modes they have at minutes of the
week, and the folder holds such documents). Any number of schedules, any documents, folder and
clock, and walks nested as deep as `MaxFrames` says. The typing carries much of it: what is
left of a pass is never empty, `next` is within the list. Three invariants on top of one another:

* `LInv`: `Walks` (a take-over is the innermost walk and its schedules are all there, a list is
  reapplied alone), `Drivings` (`DriversExact`, no two that drive share a target, only drivers run a
  list), `WalkedOnce` (a list is on the stack once, and not while it waits) and `ListsNeverStall`.
  `DriversAlwaysExact`, `NoListEverStalls` and `WaitsAlwaysKept` follow.
* `TInv` adds `TargetsRight`: a relay nobody holds, or a thermostat, is as the last action passed on
  it says *or* a deferred job, a walk in progress or the list of lost actions still stands for it.
  `RelaysAlwaysFollow` and `ThermostatsAlwaysFollow` are what remains of that when nothing is
  deferred or under way.
* `MInv` has `OnTime`: each schedule that drives is in the mode of the minute that counts, or a walk
  in progress has yet to start it or to run its point, and the points still to run are those of
  that minute. `ListAlwaysInForce` needs `~SaveWhileDue`, without which `schedules_stale_point`
  refutes it; `ModeAlwaysInForce` needs `~SetBackAgain` too.

`refresh_` decides in the order of ids, each by those before it. Its model is a recursive function,
and that such a function is what its equation says is an induction over ids: `GoesDefined` has it from
the least id at which the two would differ. `StillInForce` is the arithmetic of a tick: if no
point falls in the minutes stepped over, the mode in force is the same, over the end of a week
and of as many weeks as were slept through. `FlashAlwaysAgrees` is inductive with `LInv`.

**AutomationRuntimeProofs** (`AutomationAssumption`: a rule's configurations are of their kind, and no
entity is an input and a relay). Any
number of rules, lists, inputs, relays and thermostats, any nesting. `RunsAlwaysDriven`,
`NeverPulledAway`, `AlwaysBuiltWhenThere`, `FollowersAlwaysLand`. The invariant `RInv` splits `RunsDriven` into what each
step changes on its own, and adds what it is silent on:

* `OnlyBuiltRun`; `ToldApart`: two runs of a rule differ in their token and in their sequence
  number, so a timer cannot be another run's;
* `SteppedOnce`, `OneDriver`: a run is on the stack once or has its timer, never both, never neither;
* `OwnTimers`: a timer is of a run that is there;
* `BuiltUnlessPending`: a rule is built when what it names is there, or a rebuild for it waits.

Every action is one of a few steps as far as these can tell (`NothingDriven`, `RunBegins`,
`RunWaits`, `RunEnds`, `StepLeft`, `TimerDrives`, `RunsStop`), each with a lemma. That `free_seq_`
finds a number none of the runs has is a pigeonhole argument over the finite list of runs.

`FollowersAlwaysLand` has a second invariant, `FollowInv`. `FollowLands` speaks of the moments when nothing
is under way, which is not inductive. In between, an event on the stack says what its input still is
(`OffersTrue`), a rule that follows has one run at most, of its first list (`OneRunOf`), and each such
rule has yet to hear of the last edge, *or* its run, which has the follow before it, carries that
edge's state, *or* the relay is already so (`LandsOf`). The theorem supposes `[]FollowersApart`: no
*other* rule has a step on the relay of a rule that follows. Two rules that write one relay may each
leave it as the other wants, so without it the property is not true of every set of rules; the
scenes of run `automations` satisfy it, and what the rule's own earlier steps do to the relay is free.

**PartsProofs** (`PartsAssumption`). Each component keeps an invariant of its own state, which the
steps of the others leave alone (`ReportsAlone`, `ServersAlone`, `PoolAlone`, `BoundAlone`,
`FolderAlone`).

* `DelaysAlwaysKept` (`DelayAssumption`: the longest delay and the longest absence of the loop are
  less than the clock's width together; files name sources there are or one this firmware lacks). Any
  pool, delays and width. `LineKept`: while a change is pending, the time it was noted at and
  the time its level has stood make up the clock *or* the clock and its width, so the difference
  that may have wrapped is that time (`ElapsedIs`), and no pass found the wait over; otherwise the
  line is at its level. `SlotKept` carries it to what the sensor shows.
* `ServersAlwaysStored` and `AnswersAlwaysCredited` (`ServersAssumption`: the lead is no longer than
  the poll, and what is in use is a list; that `SelectSeq` of a list is one is an induction, so it is
  assumed and TLC evaluates it). `WaitRuns`: with the network there for the loop, the time the server
  in use has been asked and what is left of its wait make up that wait exactly, until it is over
  and the loop is away.
* `ReportsAlwaysKept` (`ReportsAssumption`: at least one report is kept, and `Nothing` is not a
  crash), with `InOrder` and four facts on where a rotation is: the record in RAM is of the last
  crash, what is written aside or in front is that record, the shift moves onto a name it freed,
  and nothing is dropped before the oldest.
* `SettingsAlwaysKept`, `FollowersAlwaysFollow` and `TogglesAlwaysOnPresses` (`BindingsAssumption`:
  records and files are of their kinds, an input is not also a missing one). Any relays, inputs and
  records, and walks nested as deep as `MaxWalks` says. First the table: `SetInForce` says
  that `set_binding` puts in force what it is given and leaves every other relay as it was,
  `TablesInForce` the same of a whole file or of a deletion, a recursion over the relays, from the
  least relay at which it would fail, and `SetPlaces` that nothing but a removal moves an entry.
  Two invariants:
  * `KeptInv`: a table has one entry to a relay, what is in force is what the records say
    (`InForceRecorded`), and what is not dirty is on flash, a type being dirty with no save
    scheduled only if its write failed (`WrittenUnlessDirty`). It holds in the middle of walks and
    with `NestedRemovals`, so `SettingsAlwaysKept` has no hypothesis.
  * `BoundInv` adds the walks. `FollowsInput` speaks of the moments between them, which is not
    inductive; in between, a follower is as its input *or* a walk under way has yet to reach its
    entry (`FollowersCopy`), and a toggle is as its presses make it exactly when no walk with a press
    has yet to reach it, or it is held (`TogglesFlip`). That a walk under way carries the level its
    input still shows, and that no two are of one input, is `OneWalkPerInput`; that whoever drives a
    relay is listened to and no mark is left over is `Listened`. Both theorems suppose
    `~NestedRemovals`: a removal in a walk moves the next entry to a place that walk has passed.
* `FolderAlwaysExact` and `RefusedAlwaysKept` (`FilesAssumption`: there are at least as many names as
  rules, the code tries that many suffixes). Any rules, names, bodies and order of the folder. First
  the duplicates: `Mended` says that `resolve_duplicates_` gives a rule an id and a name none of those
  before it has, as one is always left over (`OneLeftOver`, a pigeonhole on finite sets), and
  `ResolvedMended` that after the last no two share one; both go from the least place at which they
  would fail. `AllRead` says a boot loads every rule of a folder that fits. Two invariants follow:
  * in a repair, `InRepair`: a rule in a file of another's name leaves it in the first round, with
    nothing in its way (`LeavesFirst`); any other is held by the file it is in (`StaysHeld`); two are in
    one file only if that is to be a third's (`AloneInFile`); a file with a rule in it is somebody's or
    will be (`FilesOwned`), what is next deleted is nobody's (`OldIsNobodys`), and a rule that has to
    stay where it was is kept out by a file that was not loaded (`MovesFromLoaded`);
  * after it, `WhileUp`: each rule is held by a file that no other is in or has the name of
    (`EachInItsFile`), and a file a rename has still to delete holds a body that is promised
    (`OldIsApart`).

  `CutMends` says the folder a cut of power leaves can be mended again. Both theorems have two
  hypotheses. `FoldersMend`: every write is done, no rule names a missing entity, and each first folder
  fits the store and is tidy or has no file the loader refuses; the folders of run `parts` are such,
  `automation_files_lost` shows what becomes of others. `RoomAtCut`: no power is lost between the two
  writes of a rename *while the store is full*. The cut leaves one file more than a boot loads, and a
  rule removed later comes back from the copy it did not load. Run `parts` has as many names as places,
  so a full store has no name free to rename to and the case cannot come; the run alone did not show
  that the hypothesis is needed.

The type invariants, and `JobsHaveCallers`, `OrphansAbandoned` (which `KeepsPromise` covers) and
`CutOutOpens` (of which `ClosedForCause` says more), are proved and not listed by the runs. Every
other theorem states a property of a run, except `ListAlwaysInForce`, the half of
`ModeInForce` that holds of every clock.

**Only model-checked.**

* `Settles`, `CallsReturn`, `CallsEnd`, `TargetsWritten`: liveness is beyond TLAPS.

## 5. The plan

In this order; each with a run, a mutant for each property, and its part of the map.

1. Which folders `FolderExact` holds of when writes fail (`FoldersMend` without its first two parts),
   with the cases listed under AutomationFiles set apart, and a proof for those.
2. The revision and the write of a calibration in `ClimateHub`. An abstract relay lock that
   `ClimateHub` implements, and the schedules, rules and bindings composed with it in place of the
   `Hold` and `Release` each has for itself.
3. `DallasSlots`, the wipe request of `littlefs_storage`, `FirmwareRollback`: crash recovery, each
   small.
4. If there is time: pool names, `timezone_settings`, `status_indicator`, uploads.

## 6. Not modelled

The floating-point control laws, JSON and string handling, HTTP, drawing, and what the vendored
copies share with upstream: `web_device_dashboard/dashboard_index.h` is a page, and the web
components turn a request into one of the calls above. What each model leaves out of its own
component is said under its name in section 2 and in `PROJECT.json`.
