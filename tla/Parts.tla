------------------------------- MODULE Parts -------------------------------
(***************************************************************************)
(* Five components that share no state, side by side: the folder of rules, *)
(* the virtual inputs, the bindings, the NTP servers and the reports of    *)
(* crashes.  Each step is one component's.                                 *)
(***************************************************************************)
EXTENDS Integers

CONSTANTS
  Names, Bodies, Orphans, MaxRules, Folders, Absent, Refused, WritesFail,
  Slots, Sources, Foreign, Configs, HandFiles, Modulus, MaxStall, NoLevel, Unused, BadFile,
  NRelays, Inputs, Missing, Virtual, Bindables, InitFiles, Heated, MaxWalks, NestedRemovals, NoInput,
  Lists, Compiled, AnswerTime, Poll, Lead, MaxBackoff, MaxReplies, MaxAway, Nobody,
  Keep, MaxCrashes, Nothing

VARIABLES
  files, phase, rules, round, at, loaded, occupied, dropping, promised,
  clock, stalled, source, config, line, shown, slotsFile, mounted, stood, before,
  state, relay, held, table, listening, marks, started, stack, acting, record, flip, dirty, pending,
  recordsFile, handed, due, failed,
  servers, fallback, stored, index, armed, left, misses, connected, wasConnected, replies, away, asked, answered,
  crash, inRam, tmp, slot, step, shifting, dropped

Files == INSTANCE AutomationFiles
Pool == INSTANCE VirtualInputs WITH file <- slotsFile
Bound == INSTANCE Bindings WITH phase <- started, file <- recordsFile
Ntp == INSTANCE NtpServers WITH stalled <- away, MaxStall <- MaxAway
Crashes == INSTANCE CrashReport WITH record <- inRam, at <- shifting

ASSUME PartsAssumption ==
  /\ Files!FilesAssumption /\ Pool!DelayAssumption /\ Bound!BindingsAssumption /\ Ntp!ServersAssumption
  /\ Crashes!ReportsAssumption
-----------------------------------------------------------------------------
folder == <<files, phase, rules, round, at, loaded, occupied, dropping, promised>>
pool == <<clock, stalled, source, config, line, shown, slotsFile, mounted, stood, before>>
bound == <<state, relay, held, table, listening, marks, started, stack, acting, record, flip, dirty, pending,
           recordsFile, handed, due, failed>>
ntp == <<servers, fallback, stored, index, armed, left, misses, connected, wasConnected, replies, away, asked, answered>>
crashes == <<crash, inRam, tmp, slot, step, shifting, dropped>>
parts == <<folder, pool, bound, ntp, crashes>>

InitParts == Files!Init /\ Pool!Init /\ Bound!Init /\ Ntp!Init /\ Crashes!Init

FilesStep == Files!Next /\ UNCHANGED <<pool, bound, ntp, crashes>>
PoolStep == Pool!Next /\ UNCHANGED <<folder, bound, ntp, crashes>>
BoundStep == Bound!Next /\ UNCHANGED <<folder, pool, ntp, crashes>>
NtpStep == Ntp!Next /\ UNCHANGED <<folder, pool, bound, crashes>>
CrashesStep == Crashes!Next /\ UNCHANGED <<folder, pool, bound, ntp>>
NextParts == FilesStep \/ PoolStep \/ BoundStep \/ NtpStep \/ CrashesStep

SpecParts == InitParts /\ [][NextParts]_parts
-----------------------------------------------------------------------------
(* The folder of rules holds what its author was told is kept, and no more,   *)
(* whatever a boot repairs in it (normalize_filenames_, delete_file_).          *)
FolderExact == Files!FolderExact

(* A file the loader refused is its author's: no repair, rename or new rule   *)
(* writes over it (add_automation_, update_automation_).                        *)
RefusedKept == [][Files!RefusedStays]_folder

(* A virtual input shows a level once it has stood for its delay, and what it *)
(* showed before until then (DelayLine).                                        *)
DelaysKept == Pool!DelaysKept

(* A relay that follows an input is as that input, unless another hand moved   *)
(* it since (on_input_state_, set_binding, on_released_).                       *)
FollowsInput == Bound!FollowsInput

(* A relay that toggles is flipped once by each press and by nothing else     *)
(* (ensure_listener_, expect_level).                                            *)
TogglesOnPresses == Bound!TogglesOnPresses

(* What is in force is what the records say and, once no save is due, what is  *)
(* on flash (set_binding, ConfigKeeperBase).                                    *)
SettingsKept == Bound!SettingsKept

(* A server that answers is kept to its next poll, one that does not is left   *)
(* when its wait is over, and late replies of others change neither             *)
(* (on_answer_, loop).                                                          *)
AnswersCredited == [][Ntp!Credit]_ntp

(* The servers asked are those the next boot reads (configure, setup).        *)
ServersStored == Ntp!ServersStored

(* Reports of crashes stay in order, and a boot cut off anywhere loses at most *)
(* the oldest (rotate_, write_report_).                                         *)
ReportsKept == [][Crashes!Keeping]_crashes
=============================================================================
