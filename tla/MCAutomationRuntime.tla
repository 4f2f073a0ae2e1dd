------------------------ MODULE MCAutomationRuntime ------------------------
(***************************************************************************)
(* Two rules.  A behaviour plays in one scene: relays that follow an input *)
(* and that a thermostat or a hand may take; rules that wake themselves;   *)
(* or thermostats that come and go under the rules that name them.         *)
(***************************************************************************)
EXTENDS AutomationRuntime

CONSTANTS b1, r1, r2, t1

VARIABLE scene

Rule(mode, on, edge, cond, then, else) ==
  [mode |-> mode, on |-> on, edge |-> edge, cond |-> cond, then |-> then, else |-> else]

(* The relay follows the input a while later. *)
Follow(mode) == Rule(mode, b1, BOOLEAN, NoCond, <<Delay, SwitchStep(r1, "follow")>>, <<>>)
(* A copy of the rule for every move of the relay it moves itself. *)
Echo == Rule("parallel", r2, BOOLEAN, NoCond, <<SwitchStep(r2, "toggle"), Delay>>, <<>>)
(* Off and on again starts the rule over, from inside its own step. *)
Again == Rule("restart", r2, {TRUE}, NoCond,
              <<Delay, SwitchStep(r2, "off"), SwitchStep(r2, "on"), Delay>>, <<>>)
(* A relay while the input allows it, else a thermostat. *)
Heat == Rule("single", r2, BOOLEAN, b1,
             <<SwitchStep(r2, "off")>>, <<ClimateStep(t1, "follow"), SwitchStep(r2, "off")>>)

SceneKinds(i) == CASE scene = "follow" -> {Follow(IF i = 1 THEN "single" ELSE "restart")}
                   [] scene = "self" -> IF i = 1 THEN {Again} ELSE {Echo, Again}
                   [] scene = "climate" -> IF i = 1 THEN {Heat} ELSE {Echo}
Kinds == [i \in RuleIds |-> {Follow("single"), Follow("restart"), Echo, Again, Heat}]

InScene ==
  /\ \A i \in RuleIds : rule'[i].gen # 0 => rule'[i].config \in SceneKinds(i)
  /\ scene = "follow" => relay'[r2] = relay[r2] /\ held' \subseteq {r1} /\ ~(rule'[1].gen # 0 /\ rule'[2].gen # 0)
  /\ scene # "follow" => held' = {} /\ relay'[r1] = relay[r1]
  /\ scene = "climate" \/ there' = {}
  /\ scene = "self" => input' = input

SceneInit == Init /\ scene \in {"follow", "self", "climate"}
SceneNext == Next /\ InScene /\ UNCHANGED scene
SceneSpec == SceneInit /\ [][SceneNext]_<<vars, scene>>
=============================================================================
