------------------------------ MODULE Bindings ------------------------------
(***************************************************************************)
(* Inputs that drive relays with no rule in between (components/bindings), *)
(* with the records that set them (entity_config), the keeper that writes  *)
(* those after a delay (config_base, config_json), the thermostats that    *)
(* hold relays (switch_hold) and the virtual inputs that are deleted.      *)
(*                                                                         *)
(* A binding drives its relay in the middle of a walk over the table; the  *)
(* relay's own actions run on that stack, and may edit a binding or move   *)
(* another input, which starts a walk of its own.                          *)
(***************************************************************************)
EXTENDS Integers, Sequences, FiniteSets, SequencesExt

CONSTANTS
  NRelays,
  Inputs,
  Missing,    \* inputs a record may name and this firmware lacks
  Virtual,    \* the inputs that may be deleted and take no inversion
  Bindables,  \* by relay: what its record may bind it to
  InitFiles,  \* the records on flash at first
  Heated,     \* the relays a thermostat may drive
  MaxWalks,   \* bound on the walks on the stack
  NestedRemovals, \* whether a relay's action may drop a binding in a walk
  NoLevel, NoInput, BadFile

Relays == 1..NRelays
Types == {"switch", "binary_sensor"}
Binding(b, mode) == [input |-> b, mode |-> mode]
Unbound == Binding(NoInput, "none")
Settings == [input : Inputs \cup Missing \cup {NoInput}, mode : {"none", "follow", "toggle"}]
Dropped(e) == e.mode = "none" \/ e.input = NoInput
Contents == [switch |-> [Relays -> Settings], binary_sensor |-> [Inputs -> BOOLEAN]]

BindingsAssumption ==
  /\ NRelays \in Nat /\ Virtual \subseteq Inputs /\ Heated \subseteq Relays
  /\ Bindables \in [Relays -> SUBSET Settings]
  /\ \A f \in InitFiles : \A type \in Types : f[type] \in Contents[type] \cup {BadFile}
  /\ \A type \in Types : BadFile \notin Contents[type]
  /\ NoLevel \notin BOOLEAN /\ NoInput \notin Inputs \cup Missing /\ Inputs \cap Missing = {}

VARIABLES
  state,           \* by input: what its binary sensor shows, inverted or not
  relay,
  held,            \* the relays a running thermostat drives
  table,           \* bindings_: [output, input, mode], in the order they were made
  listening,       \* subscribed_
  marks,           \* level_only_, by input
  phase,           \* off, boot until setup is done, or up
  stack,           \* the walks under way
  acting,          \* a relay has just changed: its actions may run
  record, flip,    \* the records: by relay its binding, by input its inversion
  dirty, pending,  \* the keeper: types not written, and whether a save is scheduled
  file,            \* flash: the records of each type, or BadFile
  handed,          \* the followers moved by someone else since their input spoke
  due,             \* by relay that toggles: what its presses make it, or NoLevel
  failed           \* the types whose last write failed

outputs == <<relay, handed, due>>
manager == <<table, listening, marks, phase, stack>>
keeper == <<record, flip, dirty, pending, file, failed>>
vars == <<state, outputs, manager, acting, held, keeper>>
-----------------------------------------------------------------------------
Still == stack = <<>>
ready == phase = "up"
Walk(kind, b, level, rising) == [kind |-> kind, input |-> b, level |-> level, rising |-> rising, next |-> 1]
Known(b) == b \in Inputs /\ state[b] # NoLevel
IndexOf(t, r) == SelectInSeq(t, LAMBDA x : x.output = r)
At(r) == IndexOf(table, r)
Bound(r) == At(r) # 0
ModeOf(r) == IF Bound(r) THEN table[At(r)].mode ELSE "none"
FollowsOf(t, b) == {t[k].output : k \in {x \in DOMAIN t : t[x].input = b /\ t[x].mode = "follow"}}
TogglesOf(t, b) == {t[k].output : k \in {x \in DOMAIN t : t[x].input = b /\ t[x].mode = "toggle"}}

(* drive_output_, toggle_output_ and writable_output_: a held relay is left   *)
(* alone.                                                                      *)
Driven(r, level) == IF r \in held THEN relay ELSE [relay EXCEPT ![r] = level]
Drive(r, level) == relay' = Driven(r, level) /\ acting' = (relay' # relay)

(* Mutant of Announced: an input nobody listens to takes a mark too. *)
AnnouncedAlways(b) == [marks EXCEPT ![b] = @ + 1]
(* expect_level *)
Announced(b) == IF b \in listening THEN [marks EXCEPT ![b] = @ + 1] ELSE marks
(* take_level_only_ *)
Taken(m, b) == [m EXCEPT ![b] = IF @ > 0 THEN @ - 1 ELSE 0]

(* The listener of an input that shows level now; m are the marks before it.  *)
(* Before setup a level is a boot level, which setup drives once.              *)
Heard(b, level, m) ==
  IF b \notin listening
  THEN marks' = m /\ UNCHANGED stack
  ELSE /\ marks' = Taken(m, b)
       /\ stack' = IF ready
                   THEN Append(stack, Walk("input", b, level, m[b] = 0 /\ level /\ state[b] = FALSE))
                   ELSE stack

(* What an input's level is to its relays: a follower is no longer as another *)
(* left it, and a press is owed to each toggle that is free.                    *)
Spoken(b, press) ==
  /\ handed' = IF ready THEN handed \ FollowsOf(table, b) ELSE handed
  /\ due' = [r \in Relays |-> IF ready /\ press /\ r \in TogglesOf(table, b) \ held /\ due[r] # NoLevel
                              THEN ~due[r] ELSE due[r]]

(* An input moves: on the loop, or as an action of a relay in a walk, unless  *)
(* it is the one being walked.                                                  *)
MayMove(b) ==
  \/ phase # "off" /\ Still
  \/ acting /\ ready /\ Len(stack) < MaxWalks /\ \A k \in DOMAIN stack : stack[k].input # b
InputMoves(b, level) ==
  /\ MayMove(b) /\ state[b] # level
  /\ state' = [state EXCEPT ![b] = level]
  /\ Heard(b, level, marks)
  /\ Spoken(b, level /\ state[b] = FALSE)
  /\ acting' = FALSE
  /\ UNCHANGED <<relay, held, table, listening, phase, keeper>>

(* on_input_state_: the walk reaches the next entry of the table as it is now. *)
WalkNext ==
  /\ ~Still
  /\ LET w == stack[Len(stack)]
         below == SubSeq(stack, 1, Len(stack) - 1)
     IN IF w.next > Len(table)
        THEN /\ stack' = below
             /\ phase' = "up"
             /\ acting' = FALSE
             /\ UNCHANGED relay
        ELSE LET e == table[w.next]
             IN /\ stack' = Append(below, [w EXCEPT !.next = @ + 1])
                /\ CASE w.kind = "setup" /\ e.mode = "follow" /\ Known(e.input) -> Drive(e.output, state[e.input])
                     [] w.kind = "input" /\ e.input = w.input /\ e.mode = "follow" -> Drive(e.output, w.level)
                     [] w.kind = "input" /\ e.input = w.input /\ e.mode = "toggle" /\ w.rising ->
                          Drive(e.output, ~relay[e.output])
                     [] OTHER -> UNCHANGED relay /\ acting' = FALSE
                /\ UNCHANGED phase
  /\ UNCHANGED <<state, handed, due, table, listening, marks, held, keeper>>
-----------------------------------------------------------------------------
(* The records *)

(* set_binding, of a relay the table has or not; remove_binding for none. *)
TableWith(t, r, e) ==
  LET k == IndexOf(t, r)
      entry == [output |-> r, input |-> e.input, mode |-> e.mode]
  IN IF Dropped(e) THEN IF k = 0 THEN t ELSE RemoveAt(t, k)
     ELSE IF k = 0 THEN Append(t, entry) ELSE [t EXCEPT ![k] = entry]

(* The records es of the relays rs, applied one after the other. *)
TablesWith(t, rs, es) ==
  LET after[r \in 0..NRelays] == IF r = 0 THEN t
                                 ELSE IF r \in rs THEN TableWith(after[r - 1], r, es[r]) ELSE after[r - 1]
  IN after[NRelays]

(* A new or changed follow takes its input's level at once. *)
SetBinding(r, e) ==
  LET new == table' # table /\ e.mode # "none" /\ e.input \in Inputs
      takes == ready /\ new /\ e.mode = "follow" /\ Known(e.input)
  IN /\ table' = TableWith(table, r, e)
     /\ listening' = IF new THEN listening \cup {e.input} ELSE listening
     /\ IF takes THEN Drive(r, state[e.input]) ELSE UNCHANGED <<relay, acting>>
     /\ handed' = IF table' = table THEN handed
                  ELSE IF e.mode = "follow" /\ ~takes THEN handed \cup {r} ELSE handed \ {r}
     /\ due' = [due EXCEPT ![r] = IF table' = table THEN @
                                 ELSE IF e.mode = "toggle" /\ Still THEN relay[r] ELSE NoLevel]

(* Mutant of Scheduled: a save already scheduled is cancelled only. *)
ScheduledOnce(p) == ~p
(* ConfigKeeperBase::save: the timer starts again. *)
Scheduled(p) == TRUE
Marked(type) == dirty' = dirty \cup {type} /\ pending' = Scheduled(pending)

(* commit_: an edit from the panel, the API or a lambda, applied at once and   *)
(* written after the delay.                                                     *)
Edit(r, e) ==
  /\ ready /\ (Still \/ acting) /\ e # record[r]
  /\ ~Still /\ ~NestedRemovals => ~(Bound(r) /\ Dropped(e))
  /\ record' = [record EXCEPT ![r] = e]
  /\ SetBinding(r, e)
  /\ Marked("switch")
  /\ UNCHANGED <<state, marks, phase, stack, held, flip, file, failed>>

(* set_inverted: the filter shows the same contact the other way round, which *)
(* is announced as a level.                                                     *)
Invert(b) ==
  /\ Still /\ ready /\ b \notin Virtual
  /\ flip' = [flip EXCEPT ![b] = ~@]
  /\ IF state[b] = NoLevel
     THEN UNCHANGED <<state, marks, stack, handed, due>>
     ELSE /\ state' = [state EXCEPT ![b] = ~@]
          /\ Heard(b, ~state[b], Announced(b))
          /\ Spoken(b, FALSE)
  /\ acting' = FALSE
  /\ Marked("binary_sensor")
  /\ UNCHANGED <<relay, held, table, listening, phase, record, file, failed>>

(* VirtualInputs::remove: the input loses its state, and every record that     *)
(* names it its Bind to.                                                        *)
DeleteInput(b) ==
  LET named == {r \in Relays : record[r].input = b}
  IN /\ Still /\ ready /\ b \in Virtual
     /\ state' = [state EXCEPT ![b] = NoLevel]
     /\ record' = [r \in Relays |-> IF r \in named THEN [record[r] EXCEPT !.input = NoInput] ELSE record[r]]
     /\ table' = TablesWith(table, named, record')
     /\ handed' = handed \ named
     /\ due' = [r \in Relays |-> IF r \in named THEN NoLevel ELSE due[r]]
     /\ IF named # {} THEN Marked("switch") ELSE UNCHANGED <<dirty, pending>>
  /\ UNCHANGED <<relay, acting, held, listening, marks, phase, stack, flip, file, failed>>
-----------------------------------------------------------------------------
(* Relays and their holders *)

RelayMoves(r) ==
  /\ Still /\ ready
  /\ relay' = [relay EXCEPT ![r] = ~@]
  /\ handed' = IF ModeOf(r) = "follow" THEN handed \cup {r} ELSE handed
  /\ due' = [due EXCEPT ![r] = IF @ = NoLevel THEN @ ELSE relay'[r]]
  /\ UNCHANGED <<state, manager, acting, held, keeper>>

Hold(r) ==
  /\ Still /\ ready /\ r \in Heated \ held
  /\ held' = held \cup {r}
  /\ UNCHANGED <<state, outputs, manager, acting, keeper>>

(* Mutant of Retaken: what the input was when the thermostat took the relay   *)
(* is not looked at again.                                                      *)
RetakenNot(r) == FALSE
(* notify_released and on_released_: a follow copies its input again. *)
Retaken(r) == ModeOf(r) = "follow" /\ Known(table[At(r)].input)
Release(r) ==
  /\ Still /\ ready /\ r \in held
  /\ held' = held \ {r}
  /\ IF Retaken(r)
     THEN relay' = [relay EXCEPT ![r] = state[table[At(r)].input]] /\ acting' = (relay' # relay)
     ELSE UNCHANGED <<relay, acting>>
  /\ handed' = IF Bound(r) /\ Known(table[At(r)].input) THEN handed \ {r} ELSE handed
  /\ UNCHANGED due
  /\ UNCHANGED <<state, manager, keeper>>
-----------------------------------------------------------------------------
(* The keeper *)

Records == [switch |-> record, binary_sensor |-> flip]
(* save_all_: every type that is dirty is written; one that failed stays so. *)
Saved(written) == dirty \cap written
FileAfter(written) == [type \in Types |-> IF type \in Saved(written) THEN Records[type] ELSE file[type]]
Write(written) ==
  /\ file' = FileAfter(written)
  /\ dirty' = dirty \ Saved(written)
  /\ failed' = (failed \cup dirty) \ written

SaveDue(written) ==
  /\ Still /\ pending
  /\ pending' = FALSE
  /\ Write(written)
  /\ UNCHANGED <<state, outputs, manager, acting, held, record, flip>>

(* What a boot makes of the files: the records are applied to a table that     *)
(* starts empty, and the thermostats take their relays before the bindings.     *)
Booted(f, holds) ==
  LET records == IF f.switch = BadFile THEN [r \in Relays |-> Unbound] ELSE f.switch
  IN /\ record' = records
     /\ flip' = IF f.binary_sensor = BadFile THEN [b \in Inputs |-> FALSE] ELSE f.binary_sensor
     /\ state' = [b \in Inputs |-> NoLevel]
     /\ table' = TablesWith(<<>>, Relays, records)
     /\ listening' = {table'[k].input : k \in DOMAIN table'} \cap Inputs
     /\ marks' = [b \in Inputs |-> 0]
     /\ phase' = "boot" /\ acting' = FALSE /\ stack' = <<>>
     /\ relay' = [r \in Relays |-> FALSE]
     /\ held' = holds
     /\ dirty' = {} /\ pending' = FALSE /\ failed' = {}
     /\ handed' = {}
     /\ due' = [r \in Relays |-> IF \E k \in DOMAIN table' : table'[k].output = r /\ table'[k].mode = "toggle"
                                 THEN FALSE ELSE NoLevel]

(* A loss of power. *)
PowerCut == UNCHANGED file /\ \E holds \in SUBSET Heated : Booted(file, holds)

(* A restart lets the keeper write first, whatever is scheduled (on_shutdown). *)
Restart(written) ==
  /\ Still /\ ready
  /\ file' = FileAfter(written)
  /\ \E holds \in SUBSET Heated : Booted(file', holds)

(* setup: every follower takes the level its input came up with. *)
Setup ==
  /\ phase = "boot" /\ Still
  /\ stack' = <<Walk("setup", NoInput, FALSE, FALSE)>>
  /\ UNCHANGED <<state, outputs, table, listening, marks, phase, acting, held, keeper>>

Init ==
  /\ file \in InitFiles
  /\ record = [r \in Relays |-> Unbound] /\ flip = [b \in Inputs |-> FALSE]
  /\ state = [b \in Inputs |-> NoLevel]
  /\ table = <<>> /\ listening = {} /\ marks = [b \in Inputs |-> 0]
  /\ phase = "off" /\ acting = FALSE /\ stack = <<>>
  /\ relay = [r \in Relays |-> FALSE] /\ held = {}
  /\ dirty = {} /\ pending = FALSE /\ failed = {}
  /\ handed = {} /\ due = [r \in Relays |-> NoLevel]

Next ==
  \/ \E b \in Inputs : Invert(b) \/ DeleteInput(b) \/ \E level \in BOOLEAN : InputMoves(b, level)
  \/ WalkNext \/ Setup
  \/ \E r \in Relays : RelayMoves(r) \/ Hold(r) \/ Release(r) \/ \E e \in Bindables[r] : Edit(r, e)
  \/ \E written \in SUBSET Types : SaveDue(written) \/ Restart(written)
  \/ PowerCut

Spec == Init /\ [][Next]_vars
-----------------------------------------------------------------------------
(***************************************************************************)
(* Properties                                                              *)
(***************************************************************************)

(* A relay bound to follow an input is as that input, whatever actions of      *)
(* relays edit the table in the middle of a walk, whoever held it meanwhile     *)
(* and whichever of its input's levels came at a boot: unless another hand      *)
(* moved it since the input last spoke (on_input_state_, set_binding,           *)
(* on_released_, setup).                                                        *)
FollowsInput ==
  Still /\ ready => \A k \in DOMAIN table :
    /\ table[k].mode = "follow" /\ Known(table[k].input)
    /\ table[k].output \notin held \cup handed
    => relay[table[k].output] = state[table[k].input]

(* A relay bound to toggle is flipped once by each press of its input and by   *)
(* nothing else of it: not a boot level, a level that came back, an inversion   *)
(* or a deletion (ensure_listener_, expect_level).                              *)
TogglesOnPresses ==
  Still /\ ready => \A r \in Relays :
    ModeOf(r) = "toggle" /\ due[r] # NoLevel => relay[r] = due[r]

(* What is in force is what the records say and, once no save is scheduled,    *)
(* what the files say, but for a type whose write failed; a restart writes      *)
(* that too (set_binding, unbind_input, ConfigKeeperBase).                      *)
SettingsKept ==
  ready => /\ \A r \in Relays :
                LET inForce == IF Bound(r) THEN Binding(table[At(r)].input, table[At(r)].mode) ELSE Unbound
                IN inForce = IF Dropped(record[r]) THEN Unbound ELSE record[r]
           /\ ~pending => \A type \in Types \ failed : file[type] \in {Records[type], BadFile}
=============================================================================
