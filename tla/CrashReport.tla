---------------------------- MODULE CrashReport ----------------------------
(***************************************************************************)
(* The reports of crashes kept on flash (components/crash_report): the     *)
(* record of the last crash lives in RAM that outlasts a reset, and a boot *)
(* writes it aside, shifts the reports kept and puts it in front of them,  *)
(* one call of the filesystem at a time, each of which may fail and after  *)
(* each of which the device may reset.                                     *)
(*                                                                         *)
(* A report is the number of its crash.  A partition that does not mount   *)
(* and a record that reports no lines change nothing and are left out.     *)
(***************************************************************************)
EXTENDS Integers, FiniteSets, FiniteSetsExt

CONSTANTS
  Keep,        \* keep_
  MaxCrashes,  \* bound on the crashes of a behaviour
  Nothing

VARIABLES
  crash,    \* the crashes so far
  record,   \* has_record_: the crash RAM holds
  tmp,      \* crash.tmp
  slot,     \* crash0.txt and on
  step,     \* what setup does next, or "up"
  at,       \* the report rotate_ moves next
  dropped   \* the reports this boot removed

vars == <<crash, record, tmp, slot, step, at, dropped>>

(* keep is validated to 1..16; Nothing is not the number of a crash. *)
ReportsAssumption == Keep \in Nat \ {0} /\ Nothing \notin Nat

Places == 0..(Keep - 1)
Kept(s) == {s[i] : i \in Places} \ {Nothing}

Reports == 1..crash
TypeOK ==
  /\ crash \in Nat
  /\ record \in Reports \cup {Nothing} /\ tmp \in Reports \cup {Nothing}
  /\ slot \in [Places -> Reports \cup {Nothing}]
  /\ step \in {"boot", "write", "oldest", "shift", "clear", "up"}
  /\ at \in -1..(Keep - 1)
  /\ dropped \subseteq Reports

(* setup *)
Boot ==
  /\ step = "boot"
  /\ step' = IF record = Nothing THEN "up" ELSE "write"
  /\ UNCHANGED <<crash, record, tmp, slot, at, dropped>>

(* Mutant of WriteAside: whether the report was written is not asked. *)
WriteAsideUnasked(ok) ==
  /\ step = "write"
  /\ tmp' \in IF ok THEN {record} ELSE {tmp, Nothing}
  /\ step' = "oldest"
  /\ UNCHANGED <<crash, record, slot, at, dropped>>
(* write_report_: what could not be opened stays, what could not be written   *)
(* goes.                                                                        *)
WriteAside(ok) ==
  /\ step = "write"
  /\ tmp' \in IF ok THEN {record} ELSE {tmp, Nothing}
  /\ step' = IF ok THEN "oldest" ELSE "up"
  /\ UNCHANGED <<crash, record, slot, at, dropped>>

(* A shift that stops drops the report written aside. *)
GiveUp == step' = "up" /\ tmp' = Nothing /\ UNCHANGED <<slot, at, dropped>>

(* rotate_: the oldest is removed, *)
RemoveOldest(ok) ==
  /\ step = "oldest"
  /\ IF ok \/ slot[Keep - 1] = Nothing
     THEN /\ slot' = [slot EXCEPT ![Keep - 1] = Nothing]
          /\ dropped' = dropped \cup ({slot[Keep - 1]} \ {Nothing})
          /\ step' = "shift" /\ at' = Keep - 2
          /\ UNCHANGED tmp
     ELSE GiveUp
  /\ UNCHANGED <<crash, record>>

(* A name not used yet is no failure. *)
Stops(ok) == ~ok /\ slot[at] # Nothing

(* and each of the others moves onto the name the step before freed. *)
ShiftOne(ok) ==
  /\ step = "shift" /\ at >= 0
  /\ IF Stops(ok)
     THEN GiveUp
     ELSE /\ slot' = IF ok /\ slot[at] # Nothing THEN [slot EXCEPT ![at + 1] = slot[at], ![at] = Nothing] ELSE slot
          /\ at' = at - 1
          /\ UNCHANGED <<step, tmp, dropped>>
  /\ UNCHANGED <<crash, record>>

PutInFront(ok) ==
  /\ step = "shift" /\ at < 0
  /\ IF ok
     THEN slot' = [slot EXCEPT ![0] = tmp] /\ tmp' = Nothing /\ step' = "clear" /\ UNCHANGED <<at, dropped>>
     ELSE GiveUp
  /\ UNCHANGED <<crash, record>>

(* clear_record_, only once it is on flash. *)
ClearRecord ==
  /\ step = "clear"
  /\ record' = Nothing /\ step' = "up"
  /\ UNCHANGED <<crash, tmp, slot, at, dropped>>
-----------------------------------------------------------------------------
(* A reset keeps the record, a loss of power does not, and a crash, in the    *)
(* middle of this too, puts its own in its place.                              *)
Restart(kept) ==
  /\ record' = kept
  /\ step' = "boot" /\ at' = 0 /\ dropped' = {}
  /\ UNCHANGED <<tmp, slot>>
Reset == Restart(record) /\ UNCHANGED crash
PowerLost == Restart(Nothing) /\ UNCHANGED crash
Crash == crash < MaxCrashes /\ crash' = crash + 1 /\ Restart(crash + 1)

Init ==
  /\ crash = 0 /\ record = Nothing /\ tmp = Nothing
  /\ slot = [i \in Places |-> Nothing]
  /\ step = "boot" /\ at = 0 /\ dropped = {}

Next ==
  \/ Boot \/ ClearRecord \/ Reset \/ PowerLost \/ Crash
  \/ \E ok \in BOOLEAN : WriteAside(ok) \/ RemoveOldest(ok) \/ ShiftOne(ok) \/ PutInFront(ok)

Spec == Init /\ [][Next]_vars
-----------------------------------------------------------------------------
(***************************************************************************)
(* Properties                                                              *)
(***************************************************************************)

(* Whatever call fails and wherever a boot is cut off, the reports kept stay  *)
(* in the order of their crashes, a boot loses at most one and no newer one    *)
(* than those it keeps, and a record leaves RAM only for the front of them      *)
(* (rotate_, write_report_, setup).                                             *)
InOrder(s) == \A i, j \in Places : i < j /\ s[i] # Nothing /\ s[j] # Nothing => s[i] >= s[j]
Keeping ==
  /\ InOrder(slot')
  /\ LET lost == Kept(slot) \ Kept(slot') IN
       lost # {} => dropped = {} /\ \A old \in lost, new \in Kept(slot') : old < new
  /\ step = "clear" /\ step' = "up" => slot[0] = record /\ record # Nothing
ReportsKept == [][Keeping]_vars
=============================================================================
