-------------------------- MODULE MCScheduleEngine ---------------------------
(***************************************************************************)
(* Instances of ScheduleEngine for TLC.  A behaviour plays in one scene,   *)
(* which lets only a part of the surroundings move: relays and the clock,  *)
(* thermostats and the clock, or the files, with no clock at all.          *)
(***************************************************************************)
EXTENDS ScheduleEngine

CONSTANTS r1, r2, t1, Scenes

VARIABLE scene

(* A relay on, a wait, and off; then on again. *)
Pulse == [points |-> [m \in {0, 1} |-> m + 1],
          modes |-> <<<<RelayAction(r1, "on"), Wait, RelayAction(r1, "off")>>,
                      <<RelayAction(r1, "on")>>>>]
(* Another relay at the same minutes. *)
Other == [points |-> [m \in {0, 1} |-> 2 - m],
          modes |-> <<<<RelayAction(r2, "on")>>, <<RelayAction(r2, "off")>>>>]
(* The same, its modes the other way round. *)
Swapped == [points |-> [m \in {0, 1} |-> m + 1], modes |-> Other.modes]
(* Both relays, one of them after a wait. *)
Both == [points |-> [m \in {1} |-> 1],
         modes |-> <<<<RelayAction(r2, "on"), Wait, RelayAction(r1, "on")>>>>]
(* A target, a wait and a preset on a thermostat, and it off. *)
Warm == [points |-> [m \in {0, 1} |-> m + 1],
         modes |-> <<<<ThermostatAction(t1, "target"), Wait, ThermostatAction(t1, "preset")>>,
                     <<ThermostatAction(t1, "on"), ThermostatAction(t1, "off")>>>>]

AllDocs == {Pulse, Other, Swapped, Both, Warm}
SceneDocs == CASE scene = "relays" -> {Pulse}
               [] scene = "points" -> {Pulse, Other}
               [] scene = "modes" -> {Pulse, Other, Swapped}
               [] scene = "thermostats" -> {Warm}
               [] scene = "files" -> {Pulse, Other, Both}

(* The folder empty, or written by hand or by a newer firmware. *)
Named(i) == CASE i = 1 -> {Pulse} [] i = 2 -> {Other, Both} [] i = 3 -> {Other, Both}
ByHand(i) == [doc : Named(i), enabled : BOOLEAN, newer : IF i = 3 THEN BOOLEAN ELSE {FALSE}]
Empty == [i \in Ids |-> NoFile]
Folders == {Empty} \cup {f \in [Ids -> UNION {ByHand(i) : i \in Ids} \cup {BadFile}] :
                           \A i \in Ids : f[i] \in ByHand(i) \cup (IF i = 1 THEN {BadFile} ELSE {})}

Held == {i \in Ids : files'[i] \notin {NoFile, BadFile}}
InScene ==
  /\ \A i \in Held : files'[i].doc \in SceneDocs
  /\ scene \in {"points", "modes"} /\ 1 \in Held => files'[1].doc = Pulse
  /\ scene \in {"relays", "thermostats"} => Held \subseteq {1}
  /\ scene \in {"points", "modes"} => Held \subseteq {1, 2}
  /\ held' \subseteq (IF scene = "relays" THEN {r1} ELSE {})
  /\ scene # "thermostats" => thermo' = thermo
  /\ scene = "files" => ~clockValid' /\ \A i \in Held : files'[i].doc \in Named(i)
  /\ scene # "files" => /\ unsaved' = {} /\ left' = {} /\ \A i \in Ids : files'[i] # BadFile

SceneInit == /\ Init /\ scene \in Scenes
             /\ scene # "files" => files = Empty
             /\ left # {} => scene = "files"
SceneNext == Next /\ InScene /\ UNCHANGED scene
SceneSpec == SceneInit /\ [][SceneNext]_<<vars, scene>>
=============================================================================
