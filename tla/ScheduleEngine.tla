--------------------------- MODULE ScheduleEngine ---------------------------
(***************************************************************************)
(* The schedules (components/schedules/schedule_engine.cpp): documents of  *)
(* switch points that pick a list of actions, and the lists that run on    *)
(* relays and thermostats, with waits between their actions.               *)
(*                                                                         *)
(* A write to a relay runs whatever hangs on it, on the same stack, and    *)
(* that may save, stop or delete the schedule whose list is being walked.  *)
(* So a walk is a frame on a stack and one action of the list is one step; *)
(* while the relay's callbacks run (open), every operation is possible.    *)
(*                                                                         *)
(* A document is reduced to its points and its lists; names, revisions and *)
(* colours are left out, and memory is a Save that is refused, which       *)
(* changes nothing, and a boot that stops early.  Minutes of the week and  *)
(* the clock are small numbers.  A schedule is its place in the order of   *)
(* ids.                                                                    *)
(***************************************************************************)
EXTENDS Integers, Sequences, FiniteSets, FiniteSetsExt

CONSTANTS
  N,             \* ids, in the order the engine sorts them
  MaxSchedules,  \* max_schedules
  Relays, Switches,   \* the relays a document may name, and those on the device
  Thermostats,
  Docs,          \* the documents a Save may bring
  InitFiles,     \* what the folder may hold at the first boot
  NoFile,
  BadFile,       \* a file the loader refuses
  Week,          \* minutes in a week
  Minute,        \* clock units in a minute, and a minute is JUMP_TOLERANCE_S
  Clocks,        \* local clock readings
  Stalls,        \* clock units the loop's own count may move between two ticks
  SaveWhileDue,  \* whether a callback may save a schedule whose point is due in this very tick
  SetBackAgain,  \* whether the clock may be set back by a little once more before it has
                 \* passed the minute it was set back from
  MaxFrames, MaxJobs \* bounds on the walks under way and on the deferred jobs

Ids == 1..N
Targets == Relays \cup Thermostats
Values == [Relays -> {"on", "off"}]

(* doc.points maps a minute of the week to the index of a mode; a mode is   *)
(* its list of actions.                                                     *)
Wait == [type |-> "wait"]
RelayAction(r, value) == [type |-> "relay", target |-> r, value |-> value]
ThermostatAction(t, value) == [type |-> "thermostat", target |-> t, value |-> value]

NoThermostat == [mode |-> "gone", value |-> "none", preset |-> FALSE]

Actions == {Wait} \cup {RelayAction(r, v) : r \in Relays, v \in {"on", "off"}}
  \cup {ThermostatAction(t, v) : t \in Thermostats, v \in {"on", "off", "target", "preset"}}

ASSUME ScheduleAssumption ==
  /\ N \in Nat /\ MaxSchedules \in Nat /\ Week \in Nat \ {0} /\ Minute \in Nat \ {0}
  /\ Clocks \subseteq Nat /\ Stalls \subseteq Nat /\ {SaveWhileDue, SetBackAgain} \subseteq BOOLEAN
  /\ Switches \subseteq Relays /\ Relays \cap Thermostats = {}
  /\ \A d \in Docs : /\ d.modes \in Seq(Seq(Actions))
                     /\ DOMAIN d.points \subseteq 0..(Week - 1) /\ DOMAIN d.points # {}
                     /\ \A m \in DOMAIN d.points : d.points[m] \in DOMAIN d.modes
  /\ NoFile # BadFile /\ {NoFile, BadFile} \cap [doc : Docs, enabled : BOOLEAN, newer : BOOLEAN] = {}
  /\ InitFiles \subseteq [Ids -> [doc : Docs, enabled : BOOLEAN, newer : BOOLEAN] \cup {NoFile, BadFile}]

VARIABLES
  entries,   \* entries_: by id, the schedules held
  files,     \* the folder on flash
  left,      \* left_for_heap_
  waits,     \* the waits the scheduler holds, each for one list of one entry
  jobs,      \* what later_ deferred to the loop
  stack,     \* the walks under way, the innermost last
  open,      \* a relay's callbacks run now
  clockValid, local, minute,  \* clock_valid_, mark_.local_s, mark_.minute
  relay,     \* the state of each relay
  held,      \* the relays a running thermostat holds
  thermo,    \* each thermostat as the hub has it
  unsaved    \* the ids told persisted: false since their file was last written,
             \* or left alone by the boot as more than max_schedules

vars == <<entries, files, left, waits, jobs, stack, open, clockValid, local,
          minute, relay, held, thermo, unsaved>>

Entry == [doc : Docs, enabled : BOOLEAN, newer : BOOLEAN, active : BOOLEAN,
          mode : Nat, next : Nat, waiting : BOOLEAN, run : Nat, lost : SUBSET Nat]
File == [doc : Docs, enabled : BOOLEAN, newer : BOOLEAN] \cup {NoFile, BadFile}
Thermostat == [mode : {"on", "off"}, value : {"none", "target", "preset"}, preset : BOOLEAN]
(* The walks, and what is left of a pass; no pass is kept once it is done. *)
Pass(Item) == Seq(Item) \ {<<>>}
Frame == [kind : {"list"}, id : Ids, run : Nat]
    \cup [kind : {"reapply"}, id : Ids, run : Nat, target : Thermostats, at : Nat]
    \cup [kind : {"starts"}, todo : Pass(Ids)]
    \cup [kind : {"due"}, todo : Pass(Ids \X Nat)]
    \cup [kind : {"over"}, id : Ids, todo : Seq(Ids)]

(* A schedule is in a mode of its document, or in none, and within its list. *)
TypeOK ==
  /\ DOMAIN entries \subseteq Ids
  /\ \A i \in DOMAIN entries :
       LET e == entries[i]
       IN /\ e \in Entry /\ e.mode \in 0..Len(e.doc.modes)
          /\ e.next \in 0..(IF e.mode = 0 THEN 0 ELSE Len(e.doc.modes[e.mode]))
  /\ files \in [Ids -> File]
  /\ left \subseteq Ids \ DOMAIN entries
  /\ waits \subseteq [id : Ids, run : Nat] /\ IsFiniteSet(waits)
  /\ jobs \in Seq([kind : {"follow"}, id : Ids, run : Nat, target : Switches]
               \cup [kind : {"reapply"}, id : Ids, run : Nat, target : Thermostats])
  /\ stack \in Seq(Frame)
  /\ open \in BOOLEAN /\ clockValid \in BOOLEAN
  /\ local \in Nat /\ minute \in Nat
  /\ relay \in Values /\ held \subseteq Switches
  /\ thermo \in [Thermostats -> Thermostat \cup {NoThermostat}]
  /\ unsaved \subseteq Ids
-----------------------------------------------------------------------------
(* Documents *)

List(e) == IF e.mode = 0 THEN <<>> ELSE e.doc.modes[e.mode]
Drives(a) == a.type # "wait"
TargetsOf(d) == {a.target : a \in {b \in UNION {{l[k] : k \in DOMAIN l} :
                                       l \in {d.modes[m] : m \in DOMAIN d.modes}} : Drives(b)}}
NamesTarget(i, g) == g \in TargetsOf(entries[i].doc)

(* in_force: the last point at or before the minute, else the week's last. *)
PointAt(d, w) ==
  LET before == {p \in DOMAIN d.points : p <= w}
  IN Max(IF before # {} THEN before ELSE DOMAIN d.points)
InForce(d, w) == d.points[PointAt(d, w)]

WeekMinuteOf(m) == m % Week

(* The actions on g the list passed. *)
PassedOn(e, g) == {k \in 1..e.next : Drives(List(e)[k]) /\ List(e)[k].target = g}
LastOn(e, g) == List(e)[Max(PassedOn(e, g))]

(* thermostat_ready_ *)
Ready(a) == /\ thermo[a.target] # NoThermostat
            /\ a.value = "preset" => thermo[a.target].preset
-----------------------------------------------------------------------------
(* Runs.  next_run_ never repeats, and a list is only ever told from other  *)
(* lists of the same id: a number no wait, job or walk of the id holds is   *)
(* as good as a new one.                                                    *)

RunsOf(i) == {w.run : w \in {x \in waits : x.id = i}}
       \cup {jobs[k].run : k \in {x \in DOMAIN jobs : jobs[x].id = i}}
       \cup {stack[k].run : k \in {x \in DOMAIN stack : stack[x].kind \in {"list", "reapply"}
                                                       /\ stack[x].id = i}}
       \cup {entries[j].run : j \in DOMAIN entries \cap {i}}
NewRun(i) == Min((1..(Cardinality(RunsOf(i)) + 1)) \ RunsOf(i))

(* Mutant of Cancelled: the list keeps its run. *)
CancelledInPlace(i, e) ==
  [e EXCEPT !.waiting = FALSE, !.mode = 0, !.next = 0, !.lost = {}]
(* cancel_ *)
Cancelled(i, e) ==
  [e EXCEPT !.waiting = FALSE, !.mode = 0, !.next = 0, !.lost = {}, !.run = NewRun(i)]
WaitsWithout(S) == {w \in waits : ~(w.id \in S /\ entries[w.id].waiting)}

Put(i, e) == [j \in DOMAIN entries \cup {i} |-> IF j = i THEN e ELSE entries[j]]

Quiet == stack = <<>>
Top == stack[Len(stack)]
On(kind) == ~Quiet /\ Top.kind = kind
Below == SubSeq(stack, 1, Len(stack) - 1)
(* The stack once a take-over, if that is what is on top, has returned. *)
Returned == IF On("over") THEN Below ELSE stack

ListWalk(i, run) == <<[kind |-> "list", id |-> i, run |-> run]>>
ReapplyWalk(i, run, g, at) ==
  <<[kind |-> "reapply", id |-> i, run |-> run, target |-> g, at |-> at]>>
(* The lists still to start, and the points still to run, of a pass. *)
Starts(todo) == IF todo = <<>> THEN <<>> ELSE <<[kind |-> "starts", todo |-> todo]>>
Due(todo) == IF todo = <<>> THEN <<>> ELSE <<[kind |-> "due", todo |-> todo]>>
TakeOverOf(i, todo) == <<[kind |-> "over", id |-> i, todo |-> todo]>>

(* Where calls come from: the loop between walks, or a relay's callback. *)
MayCall == Quiet \/ (open /\ Len(stack) < MaxFrames)
-----------------------------------------------------------------------------
(* Who drives what *)

Sharing(d, e) == TargetsOf(d) \cap TargetsOf(e) # {}

(* Mutant of Drivers: whoever is enabled before it is in the way. *)
DriversPastEnabled(ents) ==
  {i \in DOMAIN ents : ents[i].enabled
       /\ \A j \in DOMAIN ents : j < i /\ ents[j].enabled => ~Sharing(ents[i].doc, ents[j].doc)}
(* refresh_: by id, each enabled one runs unless one before it that runs    *)
(* drives a target of it.                                                   *)
Drivers(ents) ==
  LET runs[i \in 1..N] ==
        /\ i \in DOMAIN ents
        /\ ents[i].enabled
        /\ \A j \in 1..(i - 1) : runs[j] => ~Sharing(ents[i].doc, ents[j].doc)
  IN {i \in Ids : runs[i]}

Refreshed(ents, active) ==
  [i \in DOMAIN ents |-> [(IF ents[i].active /\ i \notin active THEN Cancelled(i, ents[i])
                           ELSE ents[i]) EXCEPT !.active = i \in active]]
StoppedBy(ents, active) == {i \in DOMAIN ents : ents[i].active /\ i \notin active}

Sorted(S) == [k \in 1..Cardinality(S) |->
                CHOOSE i \in S : Cardinality({j \in S : j <= i}) = k]

(* settle_ on the table a change leaves, the lists of cancelled stopped: i   *)
(* runs its list when saved enabled or newly free, and so does every other   *)
(* schedule that became free.                                                *)
Settle(ents, cancelled, i, save) ==
  LET active == Drivers(ents)
      started == {j \in active : ~ents[j].active}
      own == i \in DOMAIN ents /\ ((save /\ ents[i].enabled) \/ i \in started)
  IN /\ entries' = Refreshed(ents, active)
     /\ waits' = WaitsWithout(StoppedBy(ents, active) \cup cancelled)
     /\ stack' = Returned \o Starts((IF own THEN <<i>> ELSE <<>>) \o Sorted(started \ {i}))

(* Mutant of TargetFree: only who is enabled and before it is in the way. *)
TargetFreeBefore(i, d) ==
  \A j \in DOMAIN entries : entries[j].active /\ j < i => ~Sharing(entries[j].doc, d)
(* check_target_free_ *)
TargetFree(i, d) ==
  \A j \in DOMAIN entries \ {i} : entries[j].active => ~Sharing(entries[j].doc, d)
-----------------------------------------------------------------------------
(* Changes.  A Save that is refused or not written changes nothing.         *)

NewEntry(i, d, enabled) ==
  [doc |-> d, enabled |-> enabled, newer |-> FALSE, active |-> FALSE, mode |-> 0,
   next |-> 0, waiting |-> FALSE, run |-> NewRun(i), lost |-> {}]
FileOf(e) == [doc |-> e.doc, enabled |-> e.enabled, newer |-> e.newer]
Write(i, e) == /\ files' = [files EXCEPT ![i] = FileOf(e)]
               /\ unsaved' = unsaved \ {i}

IsDue(i) == \E k \in DOMAIN stack : /\ stack[k].kind = "due"
                                    /\ \E x \in DOMAIN stack[k].todo : stack[k].todo[x][1] = i

(* create(), and restore() of an id no schedule and no file has: add_ *)
Add(i, d, enabled) ==
  LET e == NewEntry(i, d, enabled) IN
  /\ MayCall
  /\ i \notin DOMAIN entries /\ files[i] = NoFile
  /\ Cardinality(DOMAIN entries) < MaxSchedules
  /\ left = {}
  /\ IsDue(i) => SaveWhileDue
  /\ enabled => TargetFree(i, d)
  /\ Write(i, e)
  /\ Settle(Put(i, e), {}, i, TRUE)
  /\ UNCHANGED <<left, jobs, open, clockValid, local, minute, relay, held, thermo>>

(* update(), and restore() over a schedule: replace_ *)
Replace(i, d, enabled) ==
  /\ MayCall
  /\ i \in DOMAIN entries /\ ~entries[i].newer
  /\ IsDue(i) => SaveWhileDue
  /\ enabled => TargetFree(i, d)
  /\ LET e == [Cancelled(i, entries[i]) EXCEPT !.doc = d, !.enabled = enabled]
     IN Write(i, e) /\ Settle(Put(i, e), {i}, i, TRUE)
  /\ UNCHANGED <<left, jobs, open, clockValid, local, minute, relay, held, thermo>>

(* remove(): delete_file_ empties the file that will not go, and the next    *)
(* boot refuses it; when that fails too, the file stays.                     *)
Remove(i, file) ==
  /\ MayCall
  /\ i \in DOMAIN entries
  /\ file \in {NoFile, BadFile, files[i]}
  /\ files' = [files EXCEPT ![i] = file]
  /\ unsaved' = IF file = files[i] THEN unsaved \cup {i} ELSE unsaved \ {i}
  /\ Settle([j \in DOMAIN entries \ {i} |-> entries[j]], {i}, i, FALSE)
  /\ UNCHANGED <<left, jobs, open, clockValid, local, minute, relay, held, thermo>>

(* remove_not_loaded_ *)
RemoveNotLoaded(i, file) ==
  /\ MayCall
  /\ i \in left
  /\ file \in {NoFile, BadFile}
  /\ files' = [files EXCEPT ![i] = file]
  /\ left' = left \ {i}
  /\ UNCHANGED <<entries, waits, jobs, stack, open, clockValid, local, minute, relay, held,
                 thermo, unsaved>>

(* Mutant of SaveFlag: a file left alone is answered as written. *)
SaveFlagAnswered(e, i, saved) ==
  /\ files' = IF saved /\ ~e.newer THEN [files EXCEPT ![i] = FileOf(e)] ELSE files
  /\ unsaved' = IF saved THEN unsaved \ {i} ELSE unsaved \cup {i}
(* A flag that changed, on its way to flash: save_ writes no newer          *)
(* firmware's file, and nothing when the write fails.                        *)
SaveFlag(e, i, saved) ==
  /\ saved => ~e.newer
  /\ files' = IF saved THEN [files EXCEPT ![i] = FileOf(e)] ELSE files
  /\ unsaved' = IF saved THEN unsaved \ {i} ELSE unsaved \cup {i}

(* set_enabled(false) *)
Disable(i, saved) ==
  /\ MayCall
  /\ i \in DOMAIN entries
  /\ LET e == [entries[i] EXCEPT !.enabled = FALSE]
     IN /\ IF entries[i].enabled THEN SaveFlag(e, i, saved)
           ELSE saved /\ UNCHANGED <<files, unsaved>>
        /\ Settle(Put(i, e), {}, i, FALSE)
  /\ UNCHANGED <<left, jobs, open, clockValid, local, minute, relay, held, thermo>>

(* set_enabled(true) to its end, what a take-over had to stop stopped. *)
EnableNow(i, saved) ==
  LET e == [entries[i] EXCEPT !.enabled = TRUE]
  IN /\ IF entries[i].enabled THEN saved /\ UNCHANGED <<files, unsaved>>
        ELSE SaveFlag(e, i, saved)
     /\ Settle(Put(i, e), {}, i, FALSE)

Enable(i, saved) ==
  /\ MayCall
  /\ i \in DOMAIN entries
  /\ TargetFree(i, entries[i].doc)
  /\ EnableNow(i, saved)
  /\ UNCHANGED <<left, jobs, open, clockValid, local, minute, relay, held, thermo>>

(* set_enabled(true, take_over) over others: each is disabled and its file   *)
(* written, unless the file of the one taking over could not be.             *)
TakeOver(i) ==
  /\ MayCall
  /\ i \in DOMAIN entries
  /\ ~TargetFree(i, entries[i].doc)
  /\ stack' = stack \o TakeOverOf(i, Sorted(
       {j \in DOMAIN entries \ {i} : entries[j].enabled /\ Sharing(entries[i].doc, entries[j].doc)}))
  /\ open' = FALSE
  /\ UNCHANGED <<entries, files, left, waits, jobs, clockValid, local, minute, relay, held,
                 thermo, unsaved>>

StopOther(saved) ==
  /\ On("over") /\ Top.todo # <<>>
  /\ LET j == Head(Top.todo)
         e == [entries[j] EXCEPT !.enabled = FALSE]
     IN /\ entries' = Put(j, e)
        /\ saved => ~entries[Top.id].newer
        /\ SaveFlag(e, j, saved)
  /\ stack' = Below \o TakeOverOf(Top.id, Tail(Top.todo))
  /\ UNCHANGED <<left, waits, jobs, open, clockValid, local, minute, relay, held, thermo>>

TakenOver(saved) ==
  /\ On("over") /\ Top.todo = <<>>
  /\ EnableNow(Top.id, saved)
  /\ UNCHANGED <<left, jobs, open, clockValid, local, minute, relay, held, thermo>>
-----------------------------------------------------------------------------
(* Lists *)

(* Mutant of Runs: whatever list the schedule runs now takes the step. *)
RunsAny(i, run) == i \in DOMAIN entries /\ entries[i].active /\ entries[i].mode # 0
(* What every walk, wait and job asks before it goes on. *)
Runs(i, run) == /\ i \in DOMAIN entries /\ entries[i].run = run
                /\ entries[i].active /\ entries[i].mode # 0

(* run_: whatever list ran is stopped, and the mode's starts. *)
Begin(i, mode, rest) ==
  /\ entries' = Put(i, [Cancelled(i, entries[i]) EXCEPT !.mode = mode])
  /\ waits' = WaitsWithout({i})
  /\ stack' = Below \o rest \o ListWalk(i, NewRun(i))

(* One start_ of a pass over ids. *)
StartNext ==
  /\ On("starts")
  /\ LET i == Head(Top.todo)
         rest == Starts(Tail(Top.todo))
     IN IF i \in DOMAIN entries /\ entries[i].active /\ clockValid
        THEN Begin(i, InForce(entries[i].doc, WeekMinuteOf(minute)), rest)
        ELSE stack' = Below \o rest /\ UNCHANGED <<entries, waits>>
  /\ open' = FALSE
  /\ UNCHANGED <<files, left, jobs, clockValid, local, minute, relay, held, thermo, unsaved>>

(* One run_ of the points a tick found due. *)
RunNextPoint ==
  /\ On("due")
  /\ LET i == Head(Top.todo)[1]
         mode == Head(Top.todo)[2]
         rest == Due(Tail(Top.todo))
     IN IF i \in DOMAIN entries /\ entries[i].active /\ mode \in DOMAIN entries[i].doc.modes
        THEN Begin(i, mode, rest)
        ELSE stack' = Below \o rest /\ UNCHANGED <<entries, waits>>
  /\ open' = FALSE
  /\ UNCHANGED <<files, left, jobs, clockValid, local, minute, relay, held, thermo, unsaved>>

(* Mutant of ApplyRelay: a held relay is written too. *)
ApplyRelayHeld(a) ==
  relay' = IF a.target \in Switches THEN [relay EXCEPT ![a.target] = a.value] ELSE relay
(* apply_relay_: not on the device or a running thermostat's, it is left    *)
(* alone.                                                                    *)
ApplyRelay(a) ==
  relay' = IF a.target \in Switches \ held THEN [relay EXCEPT ![a.target] = a.value] ELSE relay
Written(a) == a.target \in Switches \ held

(* apply_thermostat_: a preset or a target turns an off thermostat on first, *)
(* so a refusal may leave it on.                                             *)
Effect(t, a) ==
  CASE a.value = "off" -> [t EXCEPT !.mode = "off"]
    [] a.value = "on" -> [t EXCEPT !.mode = "on"]
    [] OTHER -> [t EXCEPT !.mode = "on", !.value = a.value]
Refusal(t, a) == {t} \cup (IF a.value \in {"preset", "target"} THEN {[t EXCEPT !.mode = "on"]} ELSE {})

ApplyThermostat(i, e, k) ==
  LET a == List(e)[k]
      t == thermo[a.target]
      lost == Put(i, [e EXCEPT !.lost = @ \cup {k}])
  IN \/ /\ Ready(a)
        /\ thermo' = [thermo EXCEPT ![a.target] = Effect(t, a)]
        /\ entries' = Put(i, e)
     \/ /\ Ready(a)
        /\ \E refused \in Refusal(t, a) : thermo' = [thermo EXCEPT ![a.target] = refused]
        /\ entries' = lost
     \/ /\ ~Ready(a)
        /\ entries' = lost
        /\ UNCHANGED thermo

(* advance_, one action. *)
Advance ==
  /\ On("list")
  /\ Runs(Top.id, Top.run) /\ entries[Top.id].next < Len(List(entries[Top.id]))
  /\ LET i == Top.id
         k == entries[i].next + 1
         e == [entries[i] EXCEPT !.next = k]
         a == List(e)[k]
     IN \/ /\ a.type = "wait"
           /\ entries' = Put(i, [e EXCEPT !.waiting = TRUE])
           /\ waits' = waits \cup {[id |-> i, run |-> Top.run]}
           /\ stack' = Below
           /\ open' = FALSE
           /\ UNCHANGED <<relay, thermo>>
        \/ /\ a.type = "relay"
           /\ ApplyRelay(a)
           /\ entries' = Put(i, e)
           /\ open' = Written(a)
           /\ UNCHANGED <<waits, stack, thermo>>
        \/ /\ a.type = "thermostat"
           /\ ApplyThermostat(i, e, k)
           /\ open' = FALSE
           /\ UNCHANGED <<waits, stack, relay>>
  /\ UNCHANGED <<files, left, jobs, clockValid, local, minute, held, unsaved>>

(* The list ended, or the walk is an older list's. *)
EndWalk ==
  /\ On("list")
  /\ ~(Runs(Top.id, Top.run) /\ entries[Top.id].next < Len(List(entries[Top.id])))
  /\ stack' = Below
  /\ open' = FALSE
  /\ UNCHANGED <<entries, files, left, waits, jobs, clockValid, local, minute, relay, held,
                 thermo, unsaved>>

(* The wait of a list is over. *)
WaitEnds(w) ==
  /\ Quiet
  /\ waits' = waits \ {w}
  /\ IF w.id \in DOMAIN entries /\ entries[w.id].run = w.run
     THEN /\ entries' = Put(w.id, [entries[w.id] EXCEPT !.waiting = FALSE])
          /\ stack' = ListWalk(w.id, w.run)
     ELSE UNCHANGED <<entries, stack>>
  /\ UNCHANGED <<files, left, jobs, open, clockValid, local, minute, relay, held, thermo, unsaved>>
-----------------------------------------------------------------------------
(* What a list missed *)

Job(kind, i, g) == [kind |-> kind, id |-> i, run |-> entries[i].run, target |-> g]
JobsFor(kind, ids, g) == [k \in 1..Cardinality(ids) |-> Job(kind, Sorted(ids)[k], g)]
(* Mutant of Followers: only lists that wait. *)
FollowersWaiting(g) == {i \in DOMAIN entries : entries[i].active /\ entries[i].waiting /\ NamesTarget(i, g)}
Followers(g) == {i \in DOMAIN entries : entries[i].active /\ entries[i].mode # 0 /\ NamesTarget(i, g)}

(* A thermostat starts on the relay, and drives it. *)
Hold(r, value) ==
  /\ MayCall
  /\ r \in Switches \ held
  /\ held' = held \cup {r}
  /\ relay' = [relay EXCEPT ![r] = value]
  /\ UNCHANGED <<entries, files, left, waits, jobs, stack, open, clockValid, local, minute,
                 thermo, unsaved>>

(* It lets the relay go: on_released_ *)
Release(r, value) ==
  /\ MayCall
  /\ r \in held
  /\ Len(jobs) < MaxJobs
  /\ held' = held \ {r}
  /\ relay' = [relay EXCEPT ![r] = value]
  /\ jobs' = jobs \o JobsFor("follow", Followers(r), r)
  /\ UNCHANGED <<entries, files, left, waits, stack, open, clockValid, local, minute,
                 thermo, unsaved>>

(* The hub creates or removes a thermostat or changes its presets, and tells: *)
(* on_climate_change_                                                         *)
(* Mutant of Lost: only a thermostat that went is noted, not a preset. *)
LostGone(e, t) == {k \in PassedOn(e, t) : thermo'[t] = NoThermostat}
Lost(e, t) == {k \in PassedOn(e, t) : thermo'[t] = NoThermostat \/ (List(e)[k].value = "preset" /\ ~thermo'[t].preset)}
Back(e, t) == (PassedOn(e, t) \cap e.lost) \ Lost(e, t) # {}

ClimateChange(t, after) ==
  /\ MayCall
  /\ Len(jobs) < MaxJobs
  /\ thermo[t].mode # after.mode \/ thermo[t].preset # after.preset
  /\ thermo' = [thermo EXCEPT ![t] = after]
  /\ entries' = [i \in DOMAIN entries |->
       IF i \in Followers(t)
       THEN [entries[i] EXCEPT !.lost = (@ \ PassedOn(entries[i], t)) \cup Lost(entries[i], t)]
       ELSE entries[i]]
  /\ jobs' = jobs \o JobsFor("reapply", {i \in Followers(t) : Back(entries[i], t)}, t)
  /\ UNCHANGED <<files, left, waits, stack, open, clockValid, local, minute, relay, held, unsaved>>

(* follow_relay_ *)
FollowRelay ==
  /\ Quiet /\ jobs # <<>> /\ Head(jobs).kind = "follow"
  /\ LET j == Head(jobs)
     IN IF Runs(j.id, j.run) /\ PassedOn(entries[j.id], j.target) # {}
        THEN ApplyRelay(LastOn(entries[j.id], j.target))
        ELSE UNCHANGED relay
  /\ jobs' = Tail(jobs)
  /\ UNCHANGED <<entries, files, left, waits, stack, open, clockValid, local, minute, held,
                 thermo, unsaved>>

(* reapply_, from its start and an action at a time. *)
Reapply ==
  /\ Quiet /\ jobs # <<>> /\ Head(jobs).kind = "reapply"
  /\ stack' = ReapplyWalk(Head(jobs).id, Head(jobs).run, Head(jobs).target, 1)
  /\ jobs' = Tail(jobs)
  /\ UNCHANGED <<entries, files, left, waits, open, clockValid, local, minute, relay, held,
                 thermo, unsaved>>

ReapplyNext ==
  /\ On("reapply")
  /\ LET i == Top.id
         ahead == {k \in PassedOn(entries[i], Top.target) : k >= Top.at}
     IN IF Runs(i, Top.run) /\ ahead # {}
        THEN /\ ApplyThermostat(i, entries[i], Min(ahead))
             /\ stack' = Below \o ReapplyWalk(i, Top.run, Top.target, Min(ahead) + 1)
        ELSE /\ stack' = Below
             /\ UNCHANGED <<entries, thermo>>
  /\ open' = FALSE
  /\ UNCHANGED <<files, left, waits, jobs, clockValid, local, minute, relay, held, unsaved>>
-----------------------------------------------------------------------------
(* The clock *)

All == Sorted(DOMAIN entries)

(* tick_ finds the clock valid for the first time. *)
ClockValid(now) ==
  /\ Quiet /\ ~clockValid
  /\ clockValid' = TRUE
  /\ local' = now /\ minute' = now \div Minute
  /\ stack' = Starts(All)
  /\ UNCHANGED <<entries, files, left, waits, jobs, open, relay, held, thermo, unsaved>>

(* Mutant of IsJump: only a clock set forward is a jump. *)
IsJumpForward(now, passed) == (now - local) - passed > Minute
(* A clock set apart from the loop's own count. *)
IsJump(now, passed) ==
  LET drift == (now - local) - passed IN drift > Minute \/ -drift > Minute

(* The points of the minutes a tick stepped over, the latest of each. *)
PointsDue(to) ==
  LET week == WeekMinuteOf(to)
      back(i) == (week - PointAt(entries[i].doc, week) + Week) % Week
      due == {i \in DOMAIN entries : entries[i].active /\ to - back(i) > minute}
  IN [k \in 1..Cardinality(due) |->
        <<Sorted(due)[k], InForce(entries[Sorted(due)[k]].doc, week)>>]

Jump(now, passed) ==
  /\ Quiet /\ clockValid /\ IsJump(now, passed)
  /\ local' = now /\ minute' = now \div Minute
  /\ stack' = Starts(All)
  /\ UNCHANGED <<entries, files, left, waits, jobs, open, clockValid, relay, held, thermo, unsaved>>

(* The same minute or a small step back waits until it is passed again. *)
Tick(now, passed) ==
  /\ Quiet /\ clockValid /\ ~IsJump(now, passed)
  /\ now < local /\ local \div Minute < minute => SetBackAgain
  /\ local' = now
  /\ IF now \div Minute > minute
     THEN minute' = now \div Minute /\ stack' = Due(PointsDue(now \div Minute))
     ELSE UNCHANGED <<minute, stack>>
  /\ UNCHANGED <<entries, files, left, waits, jobs, open, clockValid, relay, held, thermo, unsaved>>
-----------------------------------------------------------------------------
(* Boots.  Files load in the order of ids up to max_schedules, until the     *)
(* heap is short: from full on they stay on flash.                           *)

Loadable(f) == {i \in Ids : f[i] \notin {NoFile, BadFile}}
Loaded(f, full) == {i \in Loadable(f) : i < full /\ Cardinality({j \in Loadable(f) : j < i}) < MaxSchedules}
LeftForHeap(f, full) ==
  IF Cardinality(Loaded(f, full)) < MaxSchedules THEN {i \in Ids : i >= full /\ f[i] # NoFile} ELSE {}
(* Told in the log alone: more than max_schedules. *)
LeftAlone(f, full) == Loadable(f) \ (Loaded(f, full) \cup LeftForHeap(f, full))

Boot(f, full) ==
  LET ents == [i \in Loaded(f, full) |->
        [doc |-> f[i].doc, enabled |-> f[i].enabled, newer |-> f[i].newer, active |-> FALSE,
         mode |-> 0, next |-> 0, waiting |-> FALSE, run |-> 1, lost |-> {}]]
  IN [i \in DOMAIN ents |-> [ents[i] EXCEPT !.active = i \in Drivers(ents)]]

(* A restart or a loss of power, in the middle of a walk or a take-over too. *)
Reboot(full) ==
  /\ entries' = Boot(files, full)
  /\ left' = LeftForHeap(files, full)
  /\ waits' = {} /\ jobs' = <<>> /\ stack' = <<>> /\ open' = FALSE
  /\ clockValid' = FALSE /\ local' = 0 /\ minute' = 0
  /\ unsaved' = LeftAlone(files, full)
  /\ UNCHANGED <<files, relay, held, thermo>>

Init ==
  /\ files \in InitFiles
  /\ \E full \in 1..(N + 1) : /\ entries = Boot(files, full) /\ left = LeftForHeap(files, full)
                               /\ unsaved = LeftAlone(files, full)
  /\ waits = {} /\ jobs = <<>> /\ stack = <<>> /\ open = FALSE
  /\ clockValid = FALSE /\ local = 0 /\ minute = 0
  /\ relay = [r \in Relays |-> "off"] /\ held = {}
  /\ thermo = [t \in Thermostats |-> NoThermostat]

Created == {NoThermostat} \cup [mode : {"off", "on"}, value : {"none"}, preset : BOOLEAN]
Edited(t) == {[thermo[t] EXCEPT !.preset = ~@]}

Next ==
  \/ \E i \in Ids : \/ \E d \in Docs, enabled \in BOOLEAN : Add(i, d, enabled) \/ Replace(i, d, enabled)
                    \/ \E file \in {NoFile, BadFile, files[i]} : Remove(i, file)
                    \/ \E file \in {NoFile, BadFile} : RemoveNotLoaded(i, file)
                    \/ \E saved \in BOOLEAN : Disable(i, saved) \/ Enable(i, saved)
                    \/ TakeOver(i)
  \/ \E saved \in BOOLEAN : StopOther(saved) \/ TakenOver(saved)
  \/ StartNext \/ RunNextPoint \/ Advance \/ EndWalk \/ ReapplyNext
  \/ \E w \in waits : WaitEnds(w)
  \/ FollowRelay \/ Reapply
  \/ \E r \in Switches, value \in {"on", "off"} : Hold(r, value) \/ Release(r, value)
  \/ \E t \in Thermostats :
       \E after \in IF thermo[t] = NoThermostat THEN Created ELSE {NoThermostat} \cup Edited(t) :
         ClimateChange(t, after)
  \/ \E now \in Clocks : \/ ClockValid(now)
                         \/ \E passed \in Stalls : Jump(now, passed) \/ Tick(now, passed)
  \/ \E full \in 1..(N + 1) : Reboot(full)

Spec == Init /\ [][Next]_vars
-----------------------------------------------------------------------------
(***************************************************************************)
(* Properties                                                              *)
(***************************************************************************)

(* Of the enabled schedules each drives its targets, all of them, unless one *)
(* before it by id that drives shares one: after every create, Save,         *)
(* restore, removal, flag and take-over and at every boot, so no two ever    *)
(* drive one target and nobody waits for one that does not run               *)
(* (refresh_, settle_).  A take-over in progress has yet to settle.          *)
DriversExact ==
  On("over") \/ \A i \in DOMAIN entries :
    entries[i].active <=> /\ entries[i].enabled
                          /\ \A j \in DOMAIN entries :
                               j < i /\ entries[j].active => ~Sharing(entries[i].doc, entries[j].doc)

(* A list short of its end is being walked, or its wait is in the scheduler: *)
(* whatever an action set off, a Save, a flag, a new point or a jump of the  *)
(* clock, no list stops half-way for good (advance_, cancel_).               *)
ListsNeverStall ==
  \A i \in DOMAIN entries :
    entries[i].mode # 0 /\ entries[i].next < Len(List(entries[i])) =>
      \/ entries[i].waiting /\ [id |-> i, run |-> entries[i].run] \in waits
      \/ \E k \in DOMAIN stack : stack[k].kind = "list" /\ stack[k].id = i /\ stack[k].run = entries[i].run

(* Once the loop is done with what it deferred, a relay nobody holds is as   *)
(* the list in force of the schedule that drives it last set it, whoever     *)
(* held it meanwhile and whatever was saved, stopped or restarted between    *)
(* the release and the pass that follows it (on_released_, follow_relay_).   *)
RelaysFollow ==
  Quiet => \A i \in DOMAIN entries, r \in Switches \ held :
    (/\ entries[i].active /\ entries[i].mode # 0 /\ PassedOn(entries[i], r) # {}
     /\ \A k \in DOMAIN jobs : jobs[k] # Job("follow", i, r))
      => relay[r] = LastOn(entries[i], r).value

(* The same of a thermostat: it is as the last action on it set it, unless    *)
(* that action is among those that wait for it to come back, through           *)
(* removals, returns without the preset and refusals (on_climate_change_,      *)
(* reapply_, mark_lost_).                                                      *)
ThermostatsFollow ==
  Quiet => \A i \in DOMAIN entries, t \in Thermostats :
    (/\ entries[i].active /\ entries[i].mode # 0 /\ PassedOn(entries[i], t) # {}
     /\ Max(PassedOn(entries[i], t)) \notin entries[i].lost
     /\ \A k \in DOMAIN jobs : jobs[k] # Job("reapply", i, t))
      => Ready(LastOn(entries[i], t)) /\ Effect(thermo[t], LastOn(entries[i], t)) = thermo[t]

(* Between walks every schedule that drives its targets has the list of the   *)
(* point in force, and the minute that counts is the clock's, a small step     *)
(* back aside: neither a jump, a stall, a Save nor a target set free leaves an  *)
(* older list (tick_, start_).                                                  *)
MinuteCounted ==
  \/ minute = local \div Minute
  \/ minute > local \div Minute /\ minute * Minute - local <= Minute
ListInForce ==
  \A i \in DOMAIN entries :
    entries[i].active => entries[i].mode = InForce(entries[i].doc, WeekMinuteOf(minute))
ModeInForce == Quiet /\ clockValid => MinuteCounted /\ ListInForce

(* A list in its wait takes no action before that wait is over, though an     *)
(* older walk of the same schedule, one that a callback of its relay replaced   *)
(* by this list, comes back to the schedule meanwhile (advance_).               *)
WaitsKept ==
  [][\A i \in DOMAIN entries \cap DOMAIN entries' :
       (/\ entries[i].waiting /\ entries'[i].mode # 0
        /\ entries'[i].run = entries[i].run)
         => entries'[i].next = entries[i].next]_vars

(* Unless a call or the boot told otherwise, the folder says what memory      *)
(* says, so the next boot, at any moment, a take-over's middle included,       *)
(* brings back every schedule as it is and none that was removed (save_,       *)
(* delete_file_).                                                              *)
FlashAgrees ==
  \A i \in Ids \ unsaved :
    /\ i \in DOMAIN entries => files[i] = FileOf(entries[i])
    /\ i \notin DOMAIN entries /\ files[i] \notin {NoFile, BadFile} => i \in left
=============================================================================
