-------------------------- MODULE AutomationFiles --------------------------
(***************************************************************************)
(* The files of the rules (components/automations/automation_storage.cpp): *)
(* what a boot loads, how it puts every rule back into the file of its     *)
(* name, one write at a time, and how rules added, renamed and removed     *)
(* reach the folder.                                                       *)
(*                                                                         *)
(* A name stands for the file it maps to (sanitize_filename_), and a body  *)
(* for all the rest of a rule.  The folder is meant to be written by hand, *)
(* so at a boot it may hold anything.                                      *)
(***************************************************************************)
EXTENDS Integers, Sequences, FiniteSets, FiniteSetsExt, Functions

CONSTANTS
  Names, Bodies,
  Orphans,     \* the bodies that name an entity the device lacks
  MaxRules,    \* MAX_AUTOMATIONS
  Folders,     \* what the folder may hold at first
  Absent, Refused,  \* no file; one the loader refuses, a blanked one too
  WritesFail   \* whether a write may fail

VARIABLES
  files,     \* the folder: by name, what the file holds
  phase,     \* off, repair or up
  rules,     \* config_storage_
  round, at, \* how far normalize_filenames_ is
  loaded,    \* the files rules were loaded from
  occupied,  \* the files of rules that could not leave them
  dropping,  \* the file to delete next, or Absent
  promised   \* the bodies the device holds on flash for their author

vars == <<files, phase, rules, round, at, loaded, occupied, dropping, promised>>

Content(id, name, body) == [id |-> id, name |-> name, body |-> body]
Contents == [id : Nat, name : Names, body : Bodies]

(* There are names enough for every rule to have one of its own, as there are *)
(* suffixes to try (resolve_duplicates_).                                       *)
FilesAssumption ==
  /\ MaxRules \in Nat /\ IsFiniteSet(Names) /\ Cardinality(Names) >= MaxRules
  /\ Absent \notin Names \cup Contents /\ Refused \notin Contents /\ Absent # Refused
  /\ \A f \in Folders : f \in [Names -> Contents \cup {Absent, Refused}]

Saved(f) == files[f] \notin {Absent, Refused}
FileOf(c) == Content(c.id, c.name, c.body)

(* save_automation_to_file_ writes no rule that names a missing entity. *)
Writes(c, saved) == (saved => c.body \notin Orphans) /\ (~saved => WritesFail \/ c.body \in Orphans)

(* Mutant of Deleted: a file that will not go is left whole. *)
DeletedOrLeft(f, how) == [files EXCEPT ![f] = IF @ = Absent \/ how = Refused THEN @ ELSE how]
(* delete_file_: removed, or else blanked. *)
Deleted(f, how) == [files EXCEPT ![f] = IF @ = Absent THEN @ ELSE how]
-----------------------------------------------------------------------------
(* A boot *)

Taken(rs, name, but) == \E k \in DOMAIN rs : k # but /\ rs[k].name = name
FreeId(rs) == Min((1..(Len(rs) + 1)) \ {rs[k].id : k \in DOMAIN rs})

(* An id of none, or one a rule before it has. *)
Restamped(rs, k) == rs[k].id = 0 \/ \E j \in 1..(k - 1) : rs[j].id = rs[k].id

Stamped(rs, k) ==
  IF Restamped(rs, k) THEN [rs EXCEPT ![k] = [@ EXCEPT !.id = FreeId(rs), !.changed = TRUE]] ELSE rs

(* A name another rule has: "<name> 2" and on is some name that is free.      *)
Renamed(rs, k) ==
  LET free == {n \in Names : ~Taken(rs, n, 0)}
  IN IF Taken(rs, rs[k].name, k) /\ free # {}
     THEN [rs EXCEPT ![k] = [@ EXCEPT !.name = CHOOSE n \in free : TRUE, !.changed = TRUE]] ELSE rs

(* resolve_duplicates_: ids first, then names, in the order they were read.   *)
Resolved(rs) ==
  LET n == Len(rs)
      after[k \in 0..2 * n] ==
        IF k = 0 THEN rs ELSE IF k <= n THEN Stamped(after[k - 1], k) ELSE Renamed(after[k - 1], k - n)
  IN after[2 * n]

(* setup: the files are read in any order, up to MAX_AUTOMATIONS of them. *)
Boot(order) ==
  /\ phase = "off"
  /\ rules' = Resolved([k \in DOMAIN order |->
                 [id |-> files[order[k]].id, name |-> files[order[k]].name, body |-> files[order[k]].body,
                  file |-> order[k], changed |-> FALSE]])
  /\ phase' = "repair"
  /\ round' = 0 /\ at' = 1 /\ occupied' = {} /\ dropping' = Absent
  /\ loaded' = Range(order)
  /\ promised' = {files[f].body : f \in {n \in Names : Saved(n)}}
  /\ UNCHANGED files

Canonical == {rules[k].name : k \in DOMAIN rules}
Moved(c) == c.file # c.name
(* Mutant of Vacating: all in one round. *)
VacatingNone(c) == FALSE
(* A rule in a file that is another's by name leaves it in the first round. *)
Vacating(c) == Moved(c) /\ c.file \in Canonical
(* Mutant of Blocked: a file the loader refused is written over. *)
BlockedOccupied(c) == c.name \in occupied
Blocked(c) == c.name \in occupied \/ (Moved(c) /\ c.name \notin loaded /\ files[c.name] # Absent)

(* normalize_filenames_, one rule of a round: written to the file of its     *)
(* name, and the one it leaves deleted next unless another rule's is to be    *)
(* there.                                                                     *)
RepairRule(saved) ==
  /\ phase = "repair" /\ dropping = Absent /\ at <= Len(rules)
  /\ LET c == rules[at]
         due == (Moved(c) \/ c.changed) /\ (Vacating(c) <=> round = 0)
         to == [c EXCEPT !.file = c.name]
     IN IF ~due \/ Blocked(c)
        THEN saved /\ UNCHANGED <<files, rules, occupied, dropping>>
        ELSE /\ Writes(to, saved)
             /\ files' = IF saved THEN [files EXCEPT ![c.name] = FileOf(to)] ELSE files
             /\ rules' = IF saved THEN [rules EXCEPT ![at] = to] ELSE rules
             /\ occupied' = IF ~saved /\ Moved(c) THEN occupied \cup {c.file} ELSE occupied
             /\ dropping' = IF saved /\ Moved(c) /\ ~Vacating(c) THEN c.file ELSE Absent
  /\ at' = at + 1
  /\ UNCHANGED <<phase, round, loaded, promised>>

NextRound ==
  /\ phase = "repair" /\ dropping = Absent /\ at > Len(rules)
  /\ IF round = 0 THEN round' = 1 /\ at' = 1 /\ UNCHANGED phase
                  ELSE phase' = "up" /\ round' = 0 /\ at' = 1
  /\ UNCHANGED <<files, rules, loaded, occupied, dropping, promised>>

(* The second half of a move or a rename. *)
DropOld(how) ==
  /\ dropping # Absent /\ how \in {Absent, Refused}
  /\ files' = Deleted(dropping, how)
  /\ dropping' = Absent
  /\ UNCHANGED <<phase, rules, round, at, loaded, occupied, promised>>
-----------------------------------------------------------------------------
(* The API *)

Idle == phase = "up" /\ dropping = Absent
(* A name no rule has and no file the loader refused. *)
Free(name, but) == ~Taken(rules, name, but) /\ files[name] = Absent
New(name, body) == [id |-> FreeId(rules), name |-> name, body |-> body, file |-> name, changed |-> FALSE]

(* add_automation_: a rule that names a missing entity is refused. *)
Add(name, body, saved) ==
  /\ Idle /\ Len(rules) < MaxRules
  /\ Free(name, 0) /\ body \notin Orphans /\ \A k \in DOMAIN rules : rules[k].body # body
  /\ Writes(New(name, body), saved)
  /\ rules' = Append(rules, New(name, body))
  /\ files' = IF saved THEN [files EXCEPT ![name] = FileOf(New(name, body))] ELSE files
  /\ promised' = IF saved THEN promised \cup {body} ELSE promised
  /\ UNCHANGED <<phase, round, at, loaded, occupied, dropping>>

(* update_automation_ under another name: the new file is written before the *)
(* old one is dropped.                                                        *)
Rename(k, name, saved) ==
  /\ Idle /\ k \in DOMAIN rules
  /\ name # rules[k].name /\ Free(name, k) /\ rules[k].body \notin Orphans
  /\ LET c == [rules[k] EXCEPT !.name = name, !.file = name]
     IN /\ Writes(c, saved)
        /\ rules' = [rules EXCEPT ![k] = c]
        /\ files' = IF saved THEN [files EXCEPT ![name] = FileOf(c)] ELSE files
  /\ dropping' = IF saved THEN rules[k].file ELSE Absent
  /\ UNCHANGED <<phase, round, at, loaded, occupied, promised>>

(* update_automation_ and set_enable_automation_ under the same name write    *)
(* the rule where it is.                                                       *)
Rewrite(k, saved) ==
  /\ Idle /\ k \in DOMAIN rules
  /\ Writes(rules[k], saved)
  /\ files' = IF saved THEN [files EXCEPT ![rules[k].file] = FileOf(rules[k])] ELSE files
  /\ promised' = IF saved THEN promised \cup {rules[k].body} ELSE promised
  /\ UNCHANGED <<phase, rules, round, at, loaded, occupied, dropping>>

(* remove_automation_ *)
Remove(k, how) ==
  /\ Idle /\ k \in DOMAIN rules /\ how \in {Absent, Refused}
  /\ rules' = SubSeq(rules, 1, k - 1) \o SubSeq(rules, k + 1, Len(rules))
  /\ files' = Deleted(rules[k].file, how)
  /\ promised' = promised \cap {rules'[j].body : j \in DOMAIN rules'}
  /\ UNCHANGED <<phase, round, at, loaded, occupied, dropping>>

(* A restart, or power lost between the two writes of a rename; one lost in   *)
(* the middle of the repairs is left out.                                      *)
PowerOff ==
  /\ phase = "up"
  /\ phase' = "off" /\ rules' = <<>> /\ round' = 0 /\ at' = 1
  /\ loaded' = {} /\ occupied' = {} /\ dropping' = Absent
  /\ UNCHANGED <<files, promised>>

Orders == {o \in UNION {[1..n -> {f \in Names : Saved(f)}] : n \in 0..MaxRules} :
             /\ IsInjective(o)
             /\ Len(o) = Min({MaxRules, Cardinality({f \in Names : Saved(f)})})}

Init ==
  /\ files \in Folders
  /\ phase = "off" /\ rules = <<>> /\ round = 0 /\ at = 1
  /\ loaded = {} /\ occupied = {} /\ dropping = Absent
  /\ promised = {files[f].body : f \in {n \in Names : Saved(n)}}

Next ==
  \/ \E order \in Orders : Boot(order)
  \/ \E saved \in BOOLEAN : RepairRule(saved)
  \/ NextRound
  \/ \E how \in {Absent, Refused} : DropOld(how)
  \/ \E name \in Names, body \in Bodies, saved \in BOOLEAN : Add(name, body, saved)
  \/ \E k \in DOMAIN rules, saved \in BOOLEAN :
       \/ Rewrite(k, saved)
       \/ \E name \in Names : Rename(k, name, saved)
  \/ \E k \in DOMAIN rules, how \in {Absent, Refused} : Remove(k, how)
  \/ PowerOff

Spec == Init /\ [][Next]_vars
-----------------------------------------------------------------------------
(***************************************************************************)
(* Properties                                                              *)
(***************************************************************************)

(* Every rule its author put into the folder or was told is kept is in some   *)
(* file that loads, whenever the device is up: no rule in another's file and    *)
(* no rename drops one (normalize_filenames_).                                  *)
InSomeFile(body) == \E f \in Names : Saved(f) /\ files[f].body = body
NothingLost == phase = "up" => \A body \in promised : InSomeFile(body)

(* And no file brings back at the next boot what was removed (delete_file_).    *)
FolderExact ==
  /\ NothingLost
  /\ Idle => \A f \in Names : Saved(f) => files[f].body \in promised

(* A file the loader refused, and one blanked, is never written by a repair,  *)
(* an added rule or a rename: it is its author's (normalize_filenames_,        *)
(* add_automation_, update_automation_).                                       *)
RefusedStays == \A f \in Names : files[f] = Refused => files'[f] = Refused
RefusedKept == [][RefusedStays]_vars
=============================================================================
