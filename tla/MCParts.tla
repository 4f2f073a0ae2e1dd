------------------------------ MODULE MCParts ------------------------------
(***************************************************************************)
(* The components of Parts and a thermostat for TLC: in a behaviour one    *)
(* scene of one of them plays, and the others stand as they began.         *)
(***************************************************************************)
EXTENDS Parts, ControllerRuntime

CONSTANTS n1, n2, n3, lamp, fan, b1, v1, gone, s1, c1, c2, t1, t2

VARIABLE scene
-----------------------------------------------------------------------------
(* Folders of up to three files, each rule in any file, under any name; while  *)
(* a file is one the loader refused, no rule sits in the file of another's     *)
(* name and no two share one.                                                   *)
RuleNames == {n1, n2, n3}
Written == [id : {1}, name : {n1, n2}, body : {lamp}] \cup [id : {0, 1, 2}, name : {n1, n2}, body : {fan}]
Rules(f) == {n \in RuleNames : f[n] \in Written}
TidyFolders ==
  {f \in [RuleNames -> Written \cup {Absent, Refused}] :
     \A a, b \in Rules(f) : a # b =>
       /\ f[a].body # f[b].body
       /\ (\E n \in RuleNames : f[n] = Refused) => f[a].name \notin {b, f[b].name}}

What == {lamp, fan}
-----------------------------------------------------------------------------
(* Two slots that share a source, with a delay either way, both and none, and *)
(* a file left by hand.                                                         *)
After(on, off) == [source |-> b1, on |-> on, off |-> off]
TwoSlots == {1, 2}
Delays == <<{After(0, 3), After(2, 3)}, {After(2, 0)}>>
ByHand == {BadFile, [s \in TwoSlots |-> [source |-> Foreign, on |-> 0, off |-> 0]]}
-----------------------------------------------------------------------------
(* Two relays, one of them heated, on a contact and a virtual input.          *)
Bind(b, mode) == [input |-> b, mode |-> mode]
Unbound == Bind(NoInput, "none")
Kinds == <<{Unbound, Bind(b1, "follow"), Bind(v1, "follow")},
           {Unbound, Bind(v1, "follow"), Bind(b1, "toggle"), Bind(gone, "follow")}>>
Straight == [b \in {b1, v1} |-> FALSE]
DriveFile == [switch |-> <<Bind(v1, "follow"), Unbound>>, binary_sensor |-> Straight]
KeepFiles == [switch : {<<Unbound, Bind(gone, "follow")>>, BadFile}, binary_sensor : {Straight, BadFile}]

RecordFiles == {DriveFile} \cup KeepFiles

(* What a thermostat, the inputs and the walks do, with edits the keeper has  *)
(* yet to write; and what the keeper does, while no input has a level.         *)
Driving ==
  /\ recordsFile' = recordsFile
  /\ record'[1] # Unbound /\ record'[2].input # gone
  /\ Bound!ready /\ Bound!Still /\ dirty # Bound!Types => dirty' # dirty
Keeping ==
  /\ record'[1].input # b1 /\ record'[2].mode # "toggle"
  /\ state' \in {state, [b \in {b1, v1} |-> NoLevel]}
  /\ Bound!ready => \/ held' = held /\ relay' = relay
                    \/ started' = "boot"
-----------------------------------------------------------------------------
(* Two servers compiled in, one of which may be set ahead of the other, and   *)
(* another.                                                                     *)
ServerLists == {<<>>, <<s1>>, <<c2>>}
OfDevice == <<c1, c2>>
-----------------------------------------------------------------------------
(* A thermostat in four scenes.  law: two relays, bang-bang or PID, the first *)
(* perhaps handed over closed.  sensor: a Save that moves it to a sensor that *)
(* is silent, or reports.  moved: its relay is moved from elsewhere while it  *)
(* calibrates or not.  calibration: one or two relays, other targets and modes. *)
Thermostat(kind, outs, sensor, mode, target) ==
  [kind |-> kind, outs |-> outs, sensor |-> sensor, mode |-> mode, target |-> target]
BangBang == Thermostat("bang_bang", {"heat", "cool"}, t1, "heat", 1)
Heater == Thermostat("pid", {"heat"}, t1, "heat", 1)
Moved == Thermostat("pid", {"heat"}, t2, "heat", 1)
Wide == Thermostat("pid", {"heat", "cool"}, t1, "heat_cool", 1)
Cooler == Thermostat("pid", {"cool"}, t1, "cool", 2)
Scenes ==
  [law |-> {BangBang, Heater}, sensor |-> {Heater, Moved}, moved |-> {Heater}, calibration |-> {Wide, Cooler}]
SceneDocs == UNION {Scenes[s] : s \in DOMAIN Scenes}
Temperatures == [sensor \in {t1, t2} |-> IF sensor = t1 THEN 0..2 ELSE {0}]
Minima == [heat |-> [on |-> 0, off |-> 0], cool |-> [on |-> 1, off |-> 0]]
HeldFor == {Minima.heat, Minima.cool}

(* What may happen in each; the calibrations end too hot, or in a call.       *)
Undisturbed(d) == rt'.claim[d].relay = rt'.claim[d].state
AllOpen == \A d \in Directions : ~rt'.claim[d].relay
InScene ==
  /\ doc' # Stopped =>
       \E c \in Scenes[scene] : <<doc'.kind, doc'.outs, doc'.sensor>> = <<c.kind, c.outs, c.sensor>>
  /\ scene = "calibration" \/ doc' = Stopped \/ doc'.target = 1
  /\ scene = "sensor" \/ ~last'[t2].seen
  /\ scene = "moved" \/ Undisturbed("heat")
  /\ Undisturbed("cool")
  /\ scene \in {"law", "sensor"} => ~Calibrating(rt')
  /\ scene = "law" \/ last'[t1].value # 1
  /\ doc = Stopped /\ scene # "law" => AllOpen
  /\ scene = "calibration" =>
       /\ doc = Stopped /\ doc' # Stopped => doc'.outs = Directions
       /\ doc' # Stopped =>
            doc'.mode \in (IF doc'.outs = Directions THEN {"heat_cool", "heat", "off"} ELSE {"cool"})
       /\ last'[t1].value = 0 \/ Calibrating(rt) \/ doc = Stopped
       /\ doc' = doc \/ Calibrating(rt) \/ Stopped \in {doc, doc'}
-----------------------------------------------------------------------------
InitScenes ==
  /\ InitParts /\ Init
  /\ scene \in {"files", "pool", "drive", "keep", "ntp", "crashes"} \cup DOMAIN Scenes
  /\ scene # "files" => files = [n \in RuleNames |-> Absent]
  /\ recordsFile \in IF scene = "keep" THEN KeepFiles ELSE {DriveFile}

NextScenes ==
  /\ scene' = scene
  /\ \/ /\ UNCHANGED vars
        /\ \/ scene = "files" /\ FilesStep
           \/ scene = "pool" /\ PoolStep
           \/ scene = "drive" /\ BoundStep /\ Driving
           \/ scene = "keep" /\ BoundStep /\ Keeping
           \/ scene = "ntp" /\ NtpStep
           \/ scene = "crashes" /\ CrashesStep
     \/ scene \in DOMAIN Scenes /\ Next /\ InScene = TRUE /\ UNCHANGED parts

SpecScenes == InitScenes /\ [][NextScenes]_<<scene, parts, vars>>
=============================================================================
