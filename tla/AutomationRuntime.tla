------------------------- MODULE AutomationRuntime -------------------------
(***************************************************************************)
(* The rules of components/automations while they run (runtime_automation, *)
(* and the dispatching half of automation_storage): events are offered to  *)
(* every rule in turn, a rule that is triggered starts a run, a run plays  *)
(* its list of steps with delays between them.                             *)
(*                                                                         *)
(* A step that writes a switch comes back into the engine on the same      *)
(* stack: the switch's own callback offers the new state to every rule,    *)
(* the one that plays included.  So events being offered and runs being    *)
(* stepped are frames on a stack.                                          *)
(*                                                                         *)
(* A rule has one trigger and names its entities; conditions that read     *)
(* sensors, clicks, thresholds and cron times are triggers like any other  *)
(* and are left out.                                                       *)
(***************************************************************************)
EXTENDS Integers, Sequences, FiniteSets, FiniteSetsExt

CONSTANTS
  NRules,       \* rules, in the order they are offered events
  Inputs, Relays, Climates,  \* no entity is of two kinds
  Configs,      \* what each rule may be
  MaxRuns,      \* MAX_RUNS
  MaxNested     \* bound on the stack an input may move on top of

RuleIds == 1..NRules

(* config: mode is single, restart or parallel; on is the entity that       *)
(* triggers it and edge the states that do; cond is an input that must be    *)
(* on, or NoCond; then and else are lists of steps.                          *)
NoCond == "none"
SwitchStep(target, what) == [type |-> "switch", target |-> target, what |-> what]
Delay == [type |-> "delay"]
ClimateStep(target, what) == [type |-> "climate", target |-> target, what |-> what]

Whats == {"on", "off", "toggle", "follow"}
Steps == {Delay} \cup {SwitchStep(r, what) : r \in Relays, what \in Whats}
  \cup {ClimateStep(t, what) : t \in Climates, what \in Whats}
Config == [mode : {"single", "restart", "parallel"}, on : Inputs \cup Relays, edge : SUBSET BOOLEAN,
           cond : Inputs \cup {NoCond}, then : Seq(Steps), else : Seq(Steps)]

ASSUME AutomationAssumption ==
  /\ NRules \in Nat /\ Inputs \cap Relays = {}
  /\ \A i \in RuleIds : Configs[i] \subseteq Config

VARIABLES
  rule,     \* the rules held: config, enabled, built, gen (which object it is)
  runs,     \* runs_ of each rule
  timers,   \* the scheduler: at most one timer for each rule and sequence number
  stack,    \* the events being offered and the runs being stepped
  rebuilds, \* the climates whose rules wait to be rebuilt
  input, relay, climate,
  there,    \* the thermostats the hub has
  held,     \* the relays a running thermostat drives
  settled   \* by rule: since its last edge nothing stood between it and its relay

vars == <<rule, runs, timers, stack, rebuilds, input, relay, climate, there, held, settled>>
-----------------------------------------------------------------------------
NoRule == [config |-> "none", enabled |-> FALSE, built |-> FALSE, gen |-> 0]
Exists(i) == rule[i].gen # 0
Held == [config : Config, enabled : BOOLEAN, built : BOOLEAN, gen : Nat \ {0}]
Run == [seq : Nat, token : Nat, cursor : Nat, branch : {"then", "else"}, hasState : BOOLEAN, state : BOOLEAN]
Timer == [id : RuleIds, seq : Nat, token : Nat]
Frame == [kind : {"offer"}, entity : Inputs \cup Relays, state : BOOLEAN, level : BOOLEAN, next : 1..(NRules + 1)]
    \cup [kind : {"step"}, id : RuleIds, token : Nat, gen : Nat, scheduled : BOOLEAN]

(* A run is within the list it plays. *)
TypeOK ==
  /\ DOMAIN rule = RuleIds /\ \A i \in RuleIds : IF Exists(i) THEN rule[i] \in Held ELSE rule[i] = NoRule
  /\ runs \in [RuleIds -> Seq(Run)]
  /\ \A i \in RuleIds : \A k \in DOMAIN runs[i] :
       Exists(i) /\ runs[i][k].cursor <= Len(rule[i].config[runs[i][k].branch])
  /\ timers \subseteq Timer /\ IsFiniteSet(timers)
  /\ stack \in Seq(Frame)
  /\ rebuilds \subseteq Climates /\ there \subseteq Climates /\ held \subseteq Relays
  /\ input \in [Inputs -> BOOLEAN] /\ relay \in [Relays -> BOOLEAN] /\ climate \in [Climates -> BOOLEAN]
  /\ settled \subseteq RuleIds

Moves(list, t) == \E k \in DOMAIN list : list[k].type = "climate" /\ list[k].target = t
(* Mutant of Names: only the first list is looked through. *)
NamesThen(config, t) == Moves(config.then, t)
(* names_climate *)
Names(config, t) == Moves(config.then, t) \/ Moves(config.else, t)
(* build: every step of both lists finds what it names. *)
Buildable(config, hub) == \A t \in Climates : Moves(config.then \o config.else, t) => t \in hub

Quiet == stack = <<>>
Top == stack[Len(stack)]
On(kind) == ~Quiet /\ Top.kind = kind
Below == SubSeq(stack, 1, Len(stack) - 1)
(* dispatching_ is above zero exactly while there are frames. *)
Dispatching == ~Quiet

Offer(entity, state, level) ==
  <<[kind |-> "offer", entity |-> entity, state |-> state, level |-> level, next |-> 1]>>
Stepping(i, token, scheduled) ==
  <<[kind |-> "step", id |-> i, token |-> token, gen |-> rule[i].gen, scheduled |-> scheduled]>>

(* Tokens and objects are told apart only while something still holds them.  *)
Tokens(i) == {runs[i][k].token : k \in DOMAIN runs[i]}
        \cup {t.token : t \in {x \in timers : x.id = i}}
        \cup {stack[k].token : k \in {x \in DOMAIN stack : stack[x].kind = "step" /\ stack[x].id = i}}
Fresh(S) == Min((1..(Cardinality(S) + 1)) \ S)
Gens(i) == {stack[k].gen : k \in {x \in DOMAIN stack : stack[x].kind = "step" /\ stack[x].id = i}}

(* Mutant of FreeSeq: the first number, whoever has it. *)
FreeSeqFirst(rs) == 0
(* free_seq_ *)
FreeSeq(rs) == Min((0..Len(rs)) \ {rs[k].seq : k \in DOMAIN rs})

(* Mutant of WithoutTimers: only the first run's timer is cancelled. *)
WithoutFirstTimer(i, ts) == {t \in ts : ~(t.id = i /\ t.seq = 0 /\ runs[i] # <<>>)}
(* stop(): the timer of every run is cancelled. *)
WithoutTimers(i, ts) == {t \in ts : ~(t.id = i /\ \E k \in DOMAIN runs[i] : runs[i][k].seq = t.seq)}

(* find_run_: where the run stands in the table, 0 when it is gone. *)
FindRun(i, token) ==
  LET found == {k \in DOMAIN runs[i] : runs[i][k].token = token}
  IN IF found = {} THEN 0 ELSE Min(found)
Drop(rs, k) == SubSeq(rs, 1, k - 1) \o SubSeq(rs, k + 1, Len(rs))
-----------------------------------------------------------------------------
(* Starting a run *)

Passes(config) == config.cond = NoCond \/ input[config.cond]

(* Mutant of CopyState: the edge is ignored and its state too. *)
CopyStateNot(rs, hasState, state) == rs
(* A run under way in single mode takes over the state of the edge that is   *)
(* ignored.                                                                   *)
CopyState(rs, hasState, state) ==
  IF hasState THEN [k \in DOMAIN rs |-> [rs[k] EXCEPT !.hasState = TRUE, !.state = state]] ELSE rs

(* start_; under is the stack it returns to. *)
Start(i, hasState, state, forced, under) ==
  LET config == rule[i].config
      refused == runs[i] # <<>> /\ \/ config.mode = "single"
                                   \/ config.mode = "parallel" /\ Len(runs[i]) >= MaxRuns
      before == IF config.mode = "restart" THEN <<>> ELSE runs[i]
      run == [seq |-> FreeSeq(before), token |-> Fresh(Tokens(i)), cursor |-> 0,
              branch |-> IF forced \/ Passes(config) THEN "then" ELSE "else",
              hasState |-> hasState, state |-> hasState /\ state]
  IN IF refused
     THEN /\ runs' = IF config.mode = "single"
                     THEN [runs EXCEPT ![i] = CopyState(@, hasState, state)] ELSE runs
          /\ stack' = under
          /\ UNCHANGED timers
     ELSE /\ runs' = [runs EXCEPT ![i] = Append(before, run)]
          /\ timers' = IF config.mode = "restart" THEN WithoutTimers(i, timers) ELSE timers
          /\ stack' = under \o Stepping(i, run.token, FALSE)

Fires(config, ev) == ev.entity = config.on /\ ev.state \in config.edge /\ ~ev.level

(* Rules whose relay is to be as their input. *)
Follows(config) ==
  /\ config.mode # "parallel" /\ config.edge = BOOLEAN /\ config.on \in Inputs
  /\ config.cond = NoCond
  /\ config.then # <<>> /\ config.then[Len(config.then)].type = "switch"
  /\ config.then[Len(config.then)].what = "follow"

(* The run in the way of the edge has played its last step. *)
TooLate(i) == /\ rule[i].config.mode = "single"
              /\ \E k \in DOMAIN runs[i] : runs[i][k].cursor = Len(rule[i].config[runs[i][k].branch])

(* for_each_rule: the event is offered to the next rule. *)
OfferNext ==
  /\ On("offer")
  /\ LET i == Top.next
         under == Below \o <<[Top EXCEPT !.next = i + 1]>>
     IN IF i > NRules
        THEN stack' = Below /\ UNCHANGED <<runs, timers, settled>>
        ELSE IF rule[i].built /\ Fires(rule[i].config, Top) /\ rule[i].enabled
        THEN /\ Start(i, TRUE, Top.state, FALSE, under)
             /\ settled' = IF TooLate(i) \/ ~Follows(rule[i].config) THEN settled \ {i} ELSE settled \cup {i}
        ELSE /\ stack' = under
             /\ settled' = IF Exists(i) /\ rule[i].config.on = Top.entity THEN settled \ {i} ELSE settled
             /\ UNCHANGED <<runs, timers>>
  /\ UNCHANGED <<rule, rebuilds, input, relay, climate, there, held>>
-----------------------------------------------------------------------------
(* Stepping a run *)

Value(what, run, now) ==
  CASE what = "on" -> TRUE [] what = "off" -> FALSE [] what = "toggle" -> ~now
    [] what = "follow" -> IF run.hasState THEN run.state ELSE now

StepRun(i) == rule[i].config[runs[i][FindRun(i, Top.token)].branch]
Live == On("step") /\ FindRun(Top.id, Top.token) # 0
Current == runs[Top.id][FindRun(Top.id, Top.token)]
List == rule[Top.id].config[Current.branch]
Next_ == List[Current.cursor + 1]
Moved(i, k) == [runs EXCEPT ![i][k].cursor = @ + 1]

(* play_switch_: a state that changes is offered to the rules before the     *)
(* step returns; a relay a thermostat drives is left alone.                   *)
PlaySwitch ==
  /\ Live /\ Current.cursor < Len(List) /\ Next_.type = "switch"
  /\ LET i == Top.id
         r == Next_.target
         value == IF r \in held THEN relay[r] ELSE Value(Next_.what, Current, relay[r])
     IN /\ runs' = Moved(i, FindRun(i, Top.token))
        /\ relay' = [relay EXCEPT ![r] = value]
        /\ stack' = stack \o IF value # relay[r] THEN Offer(r, value, FALSE) ELSE <<>>
        /\ settled' = IF r \in held THEN settled \ {i} ELSE settled
  /\ UNCHANGED <<rule, timers, rebuilds, input, climate, there, held>>

(* schedule_delay replaces the timer of the same rule and number. *)
Scheduled(i, run) == {t \in timers : ~(t.id = i /\ t.seq = run.seq)}
                     \cup {[id |-> i, seq |-> run.seq, token |-> run.token]}

(* A delay, or a thermostat's step met on the stack of a callback, which     *)
(* waits for the next loop pass.                                              *)
Wait ==
  /\ Live /\ Current.cursor < Len(List)
  /\ Next_.type = "delay" \/ (Next_.type = "climate" /\ ~Top.scheduled)
  /\ runs' = IF Next_.type = "delay" THEN Moved(Top.id, FindRun(Top.id, Top.token)) ELSE runs
  /\ timers' = Scheduled(Top.id, Current)
  /\ stack' = Below
  /\ UNCHANGED <<rule, rebuilds, input, relay, climate, there, held, settled>>

(* play_climate_: one the hub dropped is left out and the run goes on. *)
PlayClimate ==
  /\ Live /\ Current.cursor < Len(List) /\ Next_.type = "climate" /\ Top.scheduled
  /\ runs' = Moved(Top.id, FindRun(Top.id, Top.token))
  /\ climate' = IF Next_.target \in there
                THEN [climate EXCEPT ![Next_.target] = Value(Next_.what, Current, @)] ELSE climate
  /\ UNCHANGED <<rule, timers, stack, rebuilds, input, relay, there, held, settled>>

(* finish_run_ *)
EndRun ==
  /\ Live /\ Current.cursor = Len(List)
  /\ runs' = [runs EXCEPT ![Top.id] = Drop(@, FindRun(Top.id, Top.token))]
  /\ stack' = Below
  /\ UNCHANGED <<rule, timers, rebuilds, input, relay, climate, there, held, settled>>

(* The run was stopped or replaced under its own step. *)
LeaveRun ==
  /\ On("step") /\ ~Live
  /\ stack' = Below
  /\ UNCHANGED <<rule, runs, timers, rebuilds, input, relay, climate, there, held, settled>>

TimerFires(t) ==
  /\ Quiet /\ t \in timers
  /\ timers' = timers \ {t}
  /\ stack' = Stepping(t.id, t.token, TRUE)
  /\ UNCHANGED <<rule, runs, rebuilds, input, relay, climate, there, held, settled>>

(* run_automation *)
RunNow(i) ==
  /\ ~Dispatching /\ rule[i].built
  /\ Start(i, FALSE, FALSE, TRUE, <<>>)
  /\ settled' = settled \ {i}
  /\ UNCHANGED <<rule, rebuilds, input, relay, climate, there, held>>
-----------------------------------------------------------------------------
(* Edits: refused while a rule is being driven (run_on_loop_). *)

(* The object of a rule is destroyed, its runs stopped, and another put in   *)
(* its place.                                                                 *)
Replaced(i, new) ==
  /\ rule' = [rule EXCEPT ![i] = new]
  /\ runs' = [runs EXCEPT ![i] = <<>>]
  /\ timers' = WithoutTimers(i, timers)

New(i, config) == [config |-> config, enabled |-> TRUE, built |-> TRUE, gen |-> Fresh(Gens(i))]

(* add_automation, or update_automation over a rule: it must build. *)
Save(i, config) ==
  /\ ~Dispatching
  /\ Buildable(config, there)
  /\ Replaced(i, New(i, config))
  /\ settled' = settled \ {i}
  /\ UNCHANGED <<stack, rebuilds, input, relay, climate, there, held>>

Remove(i) ==
  /\ ~Dispatching /\ Exists(i)
  /\ Replaced(i, NoRule)
  /\ settled' = settled \ {i}
  /\ UNCHANGED <<stack, rebuilds, input, relay, climate, there, held>>

(* set_enable_automation: a rule switched off stops its runs. *)
SetEnabled(i, enable) ==
  /\ ~Dispatching /\ Exists(i) /\ rule[i].enabled # enable
  /\ rule' = [rule EXCEPT ![i].enabled = enable]
  /\ runs' = IF enable \/ ~rule[i].built THEN runs ELSE [runs EXCEPT ![i] = <<>>]
  /\ timers' = IF enable \/ ~rule[i].built THEN timers ELSE WithoutTimers(i, timers)
  /\ settled' = settled \ {i}
  /\ UNCHANGED <<stack, rebuilds, input, relay, climate, there, held>>
-----------------------------------------------------------------------------
(* Thermostats come and go *)

(* rebuild_rules_: of the rules that name t, those that cannot be built are   *)
(* dropped with their runs and those that can and are not are built; one that *)
(* is built and still can be is left running.                                  *)
Rebuild(t, hub) ==
  LET named == {i \in RuleIds : Exists(i) /\ Names(rule[i].config, t)}
      drop == {i \in named : rule[i].built /\ ~Buildable(rule[i].config, hub)}
      make == {i \in named : ~rule[i].built /\ Buildable(rule[i].config, hub)}
  IN /\ rule' = [i \in RuleIds |->
           IF i \in drop THEN [rule[i] EXCEPT !.built = FALSE]
           ELSE IF i \in make THEN [rule[i] EXCEPT !.built = TRUE, !.gen = Fresh(Gens(i))]
           ELSE rule[i]]
     /\ runs' = [i \in RuleIds |-> IF i \in drop THEN <<>> ELSE runs[i]]
     /\ timers' = {x \in timers : x.id \in drop => x \in WithoutTimers(x.id, timers)}
     /\ settled' = settled \ (drop \cup make)

(* Mutant of MustWait: a rebuild never waits. *)
NeverWaits == FALSE
(* A lambda behind a step may be what changed the hub. *)
MustWait == Dispatching

(* on_climate_change_, from the loop or from under a rule's own step. *)
ClimateChange(t) ==
  /\ Quiet \/ On("offer")
  /\ there' = IF t \in there THEN there \ {t} ELSE there \cup {t}
  /\ IF MustWait
     THEN /\ rebuilds' = rebuilds \cup {t}
          /\ UNCHANGED <<rule, runs, timers, settled>>
     ELSE Rebuild(t, there') /\ UNCHANGED rebuilds
  /\ UNCHANGED <<stack, input, relay, climate, held>>

Rebuilds(t) ==
  /\ Quiet /\ t \in rebuilds
  /\ rebuilds' = rebuilds \ {t}
  /\ Rebuild(t, there)
  /\ UNCHANGED <<stack, input, relay, climate, there, held>>

(* An input moves, on the loop or behind a switch that a rule wrote, but not  *)
(* while an older move of its own is still offered: a level announced by        *)
(* expect_level is no edge.                                                     *)
InputMoves(b, level) ==
  /\ Quiet \/ (On("offer") /\ Len(stack) <= MaxNested)
  /\ \A n \in DOMAIN stack : stack[n].kind = "offer" => stack[n].entity # b
  /\ input' = [input EXCEPT ![b] = ~@]
  /\ stack' = stack \o Offer(b, ~input[b], level)
  /\ UNCHANGED <<rule, runs, timers, rebuilds, relay, climate, there, held, settled>>

(* A running thermostat takes a relay or lets it go. *)
Hold(r) ==
  /\ Quiet
  /\ held' = IF r \in held THEN held \ {r} ELSE held \cup {r}
  /\ UNCHANGED <<rule, runs, timers, stack, rebuilds, input, relay, climate, there, settled>>

(* Its demand, or a hand, moves a relay. *)
RelayMoves(r) ==
  /\ Quiet
  /\ relay' = [relay EXCEPT ![r] = ~@]
  /\ stack' = Offer(r, ~relay[r], FALSE)
  /\ settled' = {}
  /\ UNCHANGED <<rule, runs, timers, rebuilds, input, climate, there, held>>

Init ==
  /\ rule = [i \in RuleIds |-> NoRule] /\ runs = [i \in RuleIds |-> <<>>]
  /\ timers = {} /\ stack = <<>> /\ rebuilds = {}
  /\ input = [b \in Inputs |-> FALSE] /\ relay = [r \in Relays |-> FALSE]
  /\ climate = [t \in Climates |-> FALSE] /\ there = {} /\ held = {} /\ settled = {}

Next ==
  \/ OfferNext \/ PlaySwitch \/ Wait \/ PlayClimate \/ EndRun \/ LeaveRun
  \/ \E t \in timers : TimerFires(t)
  \/ \E i \in RuleIds : \/ RunNow(i) \/ Remove(i)
                        \/ \E config \in Configs[i] : Save(i, config)
                        \/ \E enable \in BOOLEAN : SetEnabled(i, enable)
  \/ \E t \in Climates : ClimateChange(t) \/ Rebuilds(t)
  \/ \E b \in Inputs, level \in BOOLEAN : InputMoves(b, level)
  \/ \E r \in Relays : Hold(r) \/ RelayMoves(r)

Spec == Init /\ [][Next]_vars
-----------------------------------------------------------------------------
(***************************************************************************)
(* Properties                                                              *)
(***************************************************************************)

(* Every run is being stepped or has the one timer that goes on with it, and *)
(* every timer is that of a run: whatever a step restarts, stops or starts    *)
(* beside itself, no run hangs for good, none is stepped twice and no timer   *)
(* of a stopped run is left for a later one with its number (start_, stop,    *)
(* free_seq_, step_).                                                         *)
RunsDriven ==
  /\ \A i \in RuleIds : \A k \in DOMAIN runs[i] :
       LET timed == \E t \in timers : t = [id |-> i, seq |-> runs[i][k].seq, token |-> runs[i][k].token]
           stepped == {n \in DOMAIN stack : /\ stack[n].kind = "step" /\ stack[n].id = i
                                            /\ stack[n].token = runs[i][k].token}
       IN IF timed THEN stepped = {} ELSE Cardinality(stepped) = 1
  /\ \A t \in timers : \E k \in DOMAIN runs[t.id] :
       runs[t.id][k].seq = t.seq /\ runs[t.id][k].token = t.token

(* A rule is never destroyed under a step of it, though what it writes may    *)
(* change the thermostats it names (run_on_loop_, rebuild_rules_).            *)
NotPulledAway ==
  \A n \in DOMAIN stack : stack[n].kind = "step" =>
    rule[stack[n].id].built /\ rule[stack[n].id].gen = stack[n].gen

(* Once no rebuild waits, exactly the rules whose thermostats are there are    *)
(* built: none drops out for good and none plays for a thermostat that is gone *)
(* (rebuild_rules_).                                                           *)
BuiltWhenThere ==
  Quiet /\ rebuilds = {} => \A i \in RuleIds :
    Exists(i) => (rule[i].built <=> Buildable(rule[i].config, there))

(* A rule that is not parallel and ends with a follow leaves its relay as the *)
(* last edge was, though that edge came while it ran and was ignored, unless  *)
(* the follow had played or a thermostat or a hand had the relay (start_).     *)
FollowLands ==
  Quiet => \A i \in settled :
    rule[i].built /\ runs[i] = <<>> =>
      relay[rule[i].config.then[Len(rule[i].config.then)].target] = input[rule[i].config.on]
=============================================================================
