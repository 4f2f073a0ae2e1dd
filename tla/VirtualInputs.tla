--------------------------- MODULE VirtualInputs ---------------------------
(***************************************************************************)
(* The pool of virtual inputs (components/virtual_inputs): each slot in    *)
(* use follows a physical input through an on delay and an off delay, told *)
(* by a clock of milliseconds that wraps.                                  *)
(*                                                                         *)
(* A write that fails, and a save or a delete while nothing can be kept,   *)
(* change nothing and are left out.  Names, labels, the web page's order   *)
(* and Home Assistant's reconnect are left out too.                        *)
(***************************************************************************)
EXTENDS Integers, FiniteSets, FiniteSetsExt, Functions

CONSTANTS
  Slots, Sources,
  Foreign,     \* a source this firmware lacks: only a file edited by hand names it
  Configs,     \* by slot: what it may follow, and its delays
  HandFiles,   \* what a person may leave in the file
  Modulus,     \* 2^32
  MaxStall,    \* bound: the longest the loop is away
  NoLevel,     \* a sensor without a state
  Unused,        \* a slot not in use
  BadFile      \* a file that does not load

VARIABLES
  clock,    \* millis()
  stalled,  \* milliseconds since the last loop pass
  source,   \* by source: its state
  config,   \* by slot: what it follows, or Unused
  line,     \* by slot: its DelayLine
  shown,    \* by slot: the state of its binary sensor
  file,
  mounted,  \* can_save()
  stood,    \* by slot: how long the level it follows has stood, counted apart from clock
  before    \* by slot: what it showed when that level came

vars == <<clock, stalled, source, config, line, shown, file, mounted, stood, before>>

Empty == [s \in Slots |-> Unused]
Longest == Max({Max({c.on, c.off}) : c \in UNION Range(Configs)})
Cap == Longest + MaxStall + 1
InUse(s) == config[s] # Unused
FileLoaded == file # BadFile

(* A delay, of a day at most, and an absence of the loop fit the clock.       *)
Settings(from) == [source : from, on : 0..Longest, off : 0..Longest]
Tables == [Slots -> Settings(Sources \cup {Foreign}) \cup {Unused}]
DelayAssumption ==
  /\ {MaxStall, Modulus, Longest} \subseteq Nat /\ Cap <= Modulus
  /\ Configs \in [Slots -> SUBSET Settings(Sources)] /\ HandFiles \subseteq Tables \cup {BadFile}
  /\ BadFile \notin Tables /\ Unused \notin Settings(Sources \cup {Foreign})
  /\ NoLevel \notin BOOLEAN /\ Foreign \notin Sources
-----------------------------------------------------------------------------
(* DelayLine; since_ is read only while a change is pending, and 0 else here. *)

(* reset *)
ResetLine == [output |-> FALSE, level |-> FALSE, hasLevel |-> FALSE, pending |-> FALSE, since |-> 0]

(* Mutant of Elapsed: the clock does not wrap. *)
ElapsedUnwrapped(now, since) == now - since
Elapsed(now, since) == (now - since) % Modulus

WaitOf(l, c) == IF l.output THEN c.off ELSE c.on

(* tick *)
TickLine(l, c, now) ==
  IF l.pending /\ Elapsed(now, l.since) >= WaitOf(l, c)
  THEN [l EXCEPT !.output = l.level, !.pending = FALSE, !.since = 0] ELSE l

(* restart and retarget_: the wait is counted afresh. *)
RestartLine(l, c, level, now) ==
  LET counts == level # l.output
  IN TickLine([l EXCEPT !.level = level, !.hasLevel = TRUE,
                        !.pending = counts, !.since = IF counts THEN now ELSE 0], c, now)

(* feed: a level it had already changes nothing. *)
FeedLine(l, c, level, now) ==
  IF l.hasLevel /\ l.level = level THEN l ELSE RestartLine(l, c, level, now)

(* forget_level *)
ForgetLevel(l) == [l EXCEPT !.hasLevel = FALSE, !.pending = FALSE, !.since = 0]
-----------------------------------------------------------------------------
(* Mutant of LineStarted: a level that is there is fed, not restarted. *)
LineFed(l, c, now) ==
  IF c.source = Foreign THEN ResetLine
  ELSE IF source[c.source] = NoLevel THEN ForgetLevel(l)
  ELSE FeedLine(l, c, source[c.source], now)
(* start_ *)
LineStarted(l, c, now) ==
  IF c.source = Foreign THEN ResetLine
  ELSE IF source[c.source] = NoLevel THEN ForgetLevel(l)
  ELSE RestartLine(l, c, source[c.source], now)

(* publish_; a slot that only forgot its level is not published. *)
Shown(s, l, published) == IF published THEN l.output ELSE shown[s]
Stands(s) == IF shown[s] = NoLevel THEN FALSE ELSE shown[s]

(* on_source_: every slot that follows it, in one callback. *)
SourceReports(b, level) ==
  LET fed == {s \in Slots : InUse(s) /\ config[s].source = b}
      new == {s \in fed : ~line[s].hasLevel \/ line[s].level # level}
  IN /\ source[b] # level
     /\ source' = [source EXCEPT ![b] = level]
     /\ line' = [s \in Slots |-> IF s \in fed THEN FeedLine(line[s], config[s], level, clock) ELSE line[s]]
     /\ shown' = [s \in Slots |-> Shown(s, line'[s], s \in fed)]
     /\ stood' = [s \in Slots |-> IF s \in new THEN 0 ELSE stood[s]]
     /\ before' = [s \in Slots |-> IF s \in new THEN Stands(s) ELSE before[s]]
  /\ UNCHANGED <<clock, stalled, config, file, mounted>>

(* A source may lose its state: the callback has no level to hand over. *)
SourceLost(b) ==
  /\ source[b] # NoLevel
  /\ source' = [source EXCEPT ![b] = NoLevel]
  /\ UNCHANGED <<clock, stalled, config, line, shown, file, mounted, stood, before>>

Millisecond ==
  /\ stalled < MaxStall
  /\ clock' = (clock + 1) % Modulus
  /\ stalled' = stalled + 1
  /\ stood' = [s \in Slots |-> IF line[s].hasLevel THEN Min({stood[s] + 1, Cap}) ELSE 0]
  /\ UNCHANGED <<source, config, line, shown, file, mounted, before>>

LoopPass ==
  /\ line' = [s \in Slots |-> IF InUse(s) THEN TickLine(line[s], config[s], clock) ELSE line[s]]
  /\ shown' = [s \in Slots |-> Shown(s, line'[s], line'[s].output # line[s].output)]
  /\ stalled' = 0
  /\ UNCHANGED <<clock, source, config, file, mounted, stood, before>>

CanKeep == mounted /\ FileLoaded

(* save: written first, then put in force. *)
Save(s, c) ==
  /\ CanKeep /\ c \in Configs[s] /\ c # config[s]
  /\ LET l == IF InUse(s) THEN line[s] ELSE ResetLine
     IN /\ line' = [line EXCEPT ![s] = LineStarted(l, c, clock)]
        /\ shown' = [shown EXCEPT ![s] = Shown(s, line'[s], source[c.source] # NoLevel)]
  /\ file' = [config EXCEPT ![s] = c]
  /\ config' = [config EXCEPT ![s] = c]
  /\ stood' = [stood EXCEPT ![s] = 0]
  /\ before' = [before EXCEPT ![s] = Stands(s)]
  /\ UNCHANGED <<clock, stalled, source, mounted>>

(* remove *)
Remove(s) ==
  /\ CanKeep /\ InUse(s)
  /\ file' = [config EXCEPT ![s] = Unused]
  /\ config' = [config EXCEPT ![s] = Unused]
  /\ line' = [line EXCEPT ![s] = ResetLine]
  /\ shown' = [shown EXCEPT ![s] = NoLevel]
  /\ stood' = [stood EXCEPT ![s] = 0] /\ before' = [before EXCEPT ![s] = FALSE]
  /\ UNCHANGED <<clock, stalled, source, mounted>>

(* setup, of a partition that may not mount and a file that may have been    *)
(* edited; the inputs report later.                                            *)
Reboot(f, mounts) ==
  LET table == IF mounts /\ f # BadFile THEN f ELSE Empty
  IN /\ file' = f /\ mounted' = mounts
     /\ config' = table
     /\ source' = [b \in Sources |-> NoLevel]
     /\ line' = [s \in Slots |-> ResetLine]
     /\ shown' = [s \in Slots |-> IF table[s] # Unused /\ table[s].source = Foreign THEN FALSE ELSE NoLevel]
     /\ clock' = 0 /\ stalled' = 0
     /\ stood' = [s \in Slots |-> 0] /\ before' = [s \in Slots |-> FALSE]

Init ==
  /\ clock = 0 /\ stalled = 0 /\ mounted = TRUE
  /\ source = [b \in Sources |-> NoLevel]
  /\ config = Empty /\ file = Empty
  /\ line = [s \in Slots |-> ResetLine] /\ shown = [s \in Slots |-> NoLevel]
  /\ stood = [s \in Slots |-> 0] /\ before = [s \in Slots |-> FALSE]

Next ==
  \/ \E b \in Sources : SourceLost(b) \/ \E level \in BOOLEAN : SourceReports(b, level)
  \/ Millisecond \/ LoopPass
  \/ \E s \in Slots : Remove(s) \/ \E c \in Configs[s] : Save(s, c)
  \/ \E f \in {file} \cup HandFiles, mounts \in BOOLEAN : Reboot(f, mounts)

Spec == Init /\ [][Next]_vars
-----------------------------------------------------------------------------
(***************************************************************************)
(* Properties                                                              *)
(***************************************************************************)

(* A slot shows the level it follows once that has stood for its delay, at    *)
(* the first loop pass after, and until then what it showed before: whatever   *)
(* the clock's width, the pulses, the saves in between and the slots that      *)
(* share a source; a new level, a new source and new delays start the count    *)
(* again (DelayLine, on_source_, start_, loop).                                 *)
DelayKept(s) ==
  LET level == line[s].level
      delay == IF level THEN config[s].on ELSE config[s].off
  IN /\ stood[s] < delay => shown[s] = before[s]
     /\ delay = 0 \/ stood[s] - stalled >= delay => shown[s] = level
DelaysKept == \A s \in Slots : InUse(s) /\ line[s].hasLevel => DelayKept(s)
=============================================================================
