------------------------------ MODULE PartsProofs ------------------------------
(***************************************************************************)
(* Proofs about the components of Parts, each from the invariant of its    *)
(* own state: what the others do leaves that state as it is.               *)
(***************************************************************************)
EXTENDS Parts, Sequences, SequenceTheorems, WellFoundedInduction, FiniteSetTheorems, TLAPS
-----------------------------------------------------------------------------
(***************************************************************************)
(* Reports of crashes, for every number of reports kept and of crashes.    *)
(***************************************************************************)

(* The record is of the last crash; what is written aside or in front while  *)
(* it is still in RAM is that record.                                       *)
RecordIsLast == inRam # Nothing => inRam = crash
WrittenAside ==
  /\ step = "write" => inRam # Nothing
  /\ step \in {"oldest", "shift"} => inRam # Nothing /\ tmp = inRam
  /\ step = "clear" => inRam # Nothing /\ slot[0] = inRam

(* The shift moves onto a name it freed itself. *)
Freed == step = "shift" => shifting + 1 \in Crashes!Places /\ slot[shifting + 1] = Nothing

(* A boot removes once. *)
DroppedLater == step \in {"boot", "write", "oldest"} => dropped = {}

ReportsInv == Crashes!TypeOK /\ RecordIsLast /\ WrittenAside /\ Freed /\ DroppedLater /\ Crashes!InOrder(slot)
-----------------------------------------------------------------------------
(* Only the name that becomes Nothing, or that held a report and gets another, *)
(* loses one.                                                                   *)
LEMMA LostOnlyAt ==
  ASSUME NEW s, NEW t, NEW k \in Crashes!Places, \A i \in Crashes!Places \ {k} : t[i] = s[i]
  PROVE  Crashes!Kept(s) \ Crashes!Kept(t) \subseteq {s[k]} \ {Nothing}
BY DEF Crashes!Kept

LEMMA ReportsInit == ASSUME Crashes!ReportsAssumption, Crashes!Init PROVE ReportsInv
BY SMTT(20) DEF Crashes!ReportsAssumption, Crashes!Init, ReportsInv, Crashes!TypeOK, RecordIsLast, WrittenAside, Freed, DroppedLater, Crashes!InOrder,
     Crashes!Places, Crashes!Reports

(* A boot that starts anew finds the reports as they were.  *)
LEMMA RestartInv ==
  ASSUME Crashes!ReportsAssumption, ReportsInv, NEW kept \in {inRam, Nothing, crash + 1}, Crashes!Restart(kept),
         crash' = IF kept = crash + 1 THEN crash + 1 ELSE crash
  PROVE  ReportsInv'
<1> USE DEF Crashes!ReportsAssumption, Crashes!Places
<1>0. Crashes!TypeOK BY DEF ReportsInv
<1>1. crash' \in Nat /\ Crashes!Reports \subseteq Crashes!Reports' BY <1>0 DEF Crashes!TypeOK, Crashes!Reports
<1>2. kept \in Crashes!Reports' \cup {Nothing} BY <1>0 DEF Crashes!TypeOK, Crashes!Reports, ReportsInv, RecordIsLast
<1>3. Crashes!TypeOK'
  <2>1. slot' \in [Crashes!Places -> Crashes!Reports' \cup {Nothing}] BY <1>0, <1>1 DEF Crashes!TypeOK, Crashes!Restart
  <2>2. tmp' \in Crashes!Reports' \cup {Nothing} BY <1>0, <1>1 DEF Crashes!TypeOK, Crashes!Restart
  <2>3. QED BY <1>0, <1>1, <1>2, <2>1, <2>2 DEF Crashes!TypeOK, Crashes!Restart
<1>4. RecordIsLast' BY <1>0 DEF Crashes!TypeOK, Crashes!Restart, ReportsInv, RecordIsLast, Crashes!Reports
<1>5. WrittenAside' /\ Freed' /\ DroppedLater' /\ Crashes!InOrder(slot)'
  BY DEF Crashes!Restart, ReportsInv, WrittenAside, Freed, DroppedLater, Crashes!InOrder
<1>6. QED BY <1>3, <1>4, <1>5 DEF ReportsInv

LEMMA RemoveOldestInv == ASSUME Crashes!ReportsAssumption, ReportsInv, NEW ok \in BOOLEAN, Crashes!RemoveOldest(ok) PROVE ReportsInv'
<1> USE DEF Crashes!ReportsAssumption, Crashes!Places
<1>0. Crashes!TypeOK BY DEF ReportsInv
<1>1. CASE step' = "up" BY <1>1, <1>0 DEF Crashes!RemoveOldest, Crashes!GiveUp, ReportsInv, Crashes!TypeOK, Crashes!Reports, RecordIsLast, WrittenAside, Freed,
                                DroppedLater, Crashes!InOrder
<1>2. CASE step' = "shift"
  <2>1. slot' = [slot EXCEPT ![Keep - 1] = Nothing] /\ shifting' = Keep - 2 /\ step = "oldest"
        /\ dropped' = dropped \cup ({slot[Keep - 1]} \ {Nothing}) /\ UNCHANGED <<crash, inRam, tmp>>
    BY <1>2 DEF Crashes!RemoveOldest, Crashes!GiveUp
  <2>2. slot' \in [Crashes!Places -> Crashes!Reports \cup {Nothing}] BY <2>1, <1>0 DEF Crashes!TypeOK
  <2>3. slot[Keep - 1] \in Crashes!Reports \cup {Nothing} BY <1>0 DEF Crashes!TypeOK
  <2>4. dropped' \subseteq Crashes!Reports BY <2>1, <2>3, <1>0 DEF Crashes!TypeOK
  <2>5. Crashes!TypeOK' BY <2>1, <2>2, <2>4, <1>0, <1>2 DEF Crashes!TypeOK, Crashes!Reports
  <2>6. Crashes!InOrder(slot')
    <3>1. \A i \in Crashes!Places : slot'[i] = IF i = Keep - 1 THEN Nothing ELSE slot[i] BY <2>1, <1>0 DEF Crashes!TypeOK
    <3>2. Crashes!InOrder(slot) BY DEF ReportsInv
    <3>3. QED BY <3>1, <3>2 DEF Crashes!InOrder
  <2>7. Freed' BY <2>1, <1>0 DEF Freed, Crashes!TypeOK
  <2>8. RecordIsLast' /\ WrittenAside' /\ DroppedLater'
    BY <2>1, <1>2 DEF ReportsInv, RecordIsLast, WrittenAside, DroppedLater
  <2>9. QED BY <2>5, <2>6, <2>7, <2>8 DEF ReportsInv
<1>3. QED BY <1>1, <1>2 DEF Crashes!RemoveOldest, Crashes!GiveUp

LEMMA ShiftOneInv == ASSUME Crashes!ReportsAssumption, ReportsInv, NEW ok \in BOOLEAN, Crashes!ShiftOne(ok) PROVE ReportsInv'
<1> USE DEF Crashes!ReportsAssumption, Crashes!Places
<1>0. Crashes!TypeOK BY DEF ReportsInv
<1>1. CASE Crashes!Stops(ok) BY <1>1, <1>0 DEF Crashes!ShiftOne, Crashes!GiveUp, ReportsInv, Crashes!TypeOK, Crashes!Reports, RecordIsLast, WrittenAside, Freed,
                             DroppedLater, Crashes!InOrder
<1>2. CASE ~Crashes!Stops(ok)
  <2>1. step = "shift" /\ shifting >= 0 /\ shifting' = shifting - 1 /\ UNCHANGED <<step, tmp, dropped, crash, inRam>>
        /\ slot' = IF ok /\ slot[shifting] # Nothing THEN [slot EXCEPT ![shifting + 1] = slot[shifting], ![shifting] = Nothing] ELSE slot
    BY <1>2 DEF Crashes!ShiftOne
  <2>2. shifting \in Crashes!Places /\ shifting + 1 \in Crashes!Places BY <2>1, <1>0 DEF Crashes!TypeOK, ReportsInv, Freed
  <2>3. slot[shifting + 1] = Nothing BY <2>1 DEF ReportsInv, Freed
  <2>4. slot' \in [Crashes!Places -> Crashes!Reports \cup {Nothing}] BY <2>1, <2>2, <1>0 DEF Crashes!TypeOK
  <2>5. Crashes!TypeOK' BY <2>1, <2>4, <1>0 DEF Crashes!TypeOK, Crashes!Reports
  <2>6. slot'[shifting] = Nothing BY <2>1, <2>2, <1>0, <1>2 DEF Crashes!TypeOK, Crashes!Stops
  <2>7. Freed'
    <3>1. shifting' + 1 = shifting BY <2>1, <1>0 DEF Crashes!TypeOK
    <3>2. QED BY <3>1, <2>1, <2>2, <2>6 DEF Freed
  <2>8. Crashes!InOrder(slot')
    <3>1. CASE slot' = slot BY <3>1 DEF ReportsInv
    <3>2. CASE slot' # slot
      <4>1. \A i \in Crashes!Places : slot'[i] = IF i = shifting THEN Nothing ELSE IF i = shifting + 1 THEN slot[shifting] ELSE slot[i]
        BY <3>2, <2>1, <2>2, <1>0 DEF Crashes!TypeOK
      <4>2. Crashes!InOrder(slot) BY DEF ReportsInv
      <4>3. SUFFICES ASSUME NEW i \in Crashes!Places, NEW j \in Crashes!Places, i < j, slot'[i] # Nothing, slot'[j] # Nothing
                     PROVE  slot'[i] >= slot'[j]
        BY DEF Crashes!InOrder
      <4>4. CASE i = shifting + 1 BY <4>1, <4>2, <4>3, <4>4, <2>2 DEF Crashes!InOrder
      <4>5. CASE j = shifting + 1 BY <4>1, <4>2, <4>3, <4>5, <2>2 DEF Crashes!InOrder
      <4>6. QED BY <4>1, <4>2, <4>3, <4>4, <4>5 DEF Crashes!InOrder
    <3>3. QED BY <3>1, <3>2
  <2>9. RecordIsLast' /\ WrittenAside' /\ DroppedLater'
    BY <2>1 DEF ReportsInv, RecordIsLast, WrittenAside, DroppedLater
  <2>10. QED BY <2>5, <2>7, <2>8, <2>9 DEF ReportsInv
<1>3. QED BY <1>1, <1>2

LEMMA PutInFrontInv == ASSUME Crashes!ReportsAssumption, ReportsInv, NEW ok \in BOOLEAN, Crashes!PutInFront(ok) PROVE ReportsInv'
<1> USE DEF Crashes!ReportsAssumption, Crashes!Places
<1>0. Crashes!TypeOK BY DEF ReportsInv
<1>1. CASE ~ok BY <1>1, <1>0 DEF Crashes!PutInFront, Crashes!GiveUp, ReportsInv, Crashes!TypeOK, Crashes!Reports, RecordIsLast, WrittenAside, Freed,
                      DroppedLater, Crashes!InOrder
<1>2. CASE ok
  <2>1. slot' = [slot EXCEPT ![0] = tmp] /\ tmp' = Nothing /\ step = "shift" /\ step' = "clear"
        /\ UNCHANGED <<shifting, dropped, crash, inRam>>
    BY <1>2 DEF Crashes!PutInFront
  <2>2. 0 \in Crashes!Places OBVIOUS
  <2>3. \A i \in Crashes!Places : slot'[i] = IF i = 0 THEN tmp ELSE slot[i] BY <2>1, <2>2, <1>0 DEF Crashes!TypeOK
  <2>4. slot' \in [Crashes!Places -> Crashes!Reports \cup {Nothing}] BY <2>1, <1>0 DEF Crashes!TypeOK
  <2>5. Crashes!TypeOK' BY <2>1, <2>4, <1>0 DEF Crashes!TypeOK, Crashes!Reports
  <2>6. tmp = inRam /\ inRam = crash BY <2>1 DEF ReportsInv, WrittenAside, RecordIsLast
  <2>7. \A i \in Crashes!Places : slot[i] # Nothing => crash >= slot[i] BY <1>0 DEF Crashes!TypeOK, Crashes!Reports
  <2>8. Crashes!InOrder(slot)
    BY DEF ReportsInv
  <2>9. Crashes!InOrder(slot') BY <2>3, <2>6, <2>7, <2>8 DEF Crashes!InOrder
  <2>10. RecordIsLast' /\ WrittenAside' /\ Freed' /\ DroppedLater'
    BY <2>1, <2>2, <2>3, <2>6 DEF ReportsInv, RecordIsLast, WrittenAside, Freed, DroppedLater
  <2>11. QED BY <2>5, <2>9, <2>10 DEF ReportsInv
<1>3. QED BY <1>1, <1>2

LEMMA ReportsStep == ASSUME Crashes!ReportsAssumption, ReportsInv, [Crashes!Next]_crashes PROVE ReportsInv'
<1> USE DEF Crashes!ReportsAssumption
<1>0. Crashes!TypeOK BY DEF ReportsInv
<1>1. CASE Crashes!Boot BY <1>1, <1>0 DEF Crashes!Boot, ReportsInv, Crashes!TypeOK, Crashes!Reports, RecordIsLast, WrittenAside, Freed, DroppedLater, Crashes!InOrder
<1>2. CASE Crashes!ClearRecord
  BY <1>2, <1>0 DEF Crashes!ClearRecord, ReportsInv, Crashes!TypeOK, Crashes!Reports, RecordIsLast, WrittenAside, Freed, DroppedLater, Crashes!InOrder
<1>3. CASE Crashes!Reset
  <2>1. inRam # crash + 1 BY <1>0 DEF Crashes!TypeOK, Crashes!Reports
  <2>2. QED BY <1>3, <2>1, RestartInv DEF Crashes!Reset
<1>4. CASE Crashes!PowerLost
  <2>1. Nothing # crash + 1 BY <1>0 DEF Crashes!TypeOK
  <2>2. QED BY <1>4, <2>1, RestartInv DEF Crashes!PowerLost
<1>5. CASE Crashes!Crash BY <1>5, RestartInv DEF Crashes!Crash
<1>6. ASSUME NEW ok \in BOOLEAN, Crashes!WriteAside(ok) PROVE ReportsInv'
  BY <1>6, <1>0 DEF Crashes!WriteAside, ReportsInv, Crashes!TypeOK, Crashes!Reports, RecordIsLast, WrittenAside, Freed, DroppedLater, Crashes!InOrder
<1>7. CASE UNCHANGED crashes
  BY <1>7, <1>0 DEF crashes, ReportsInv, Crashes!TypeOK, Crashes!Reports, RecordIsLast, WrittenAside, Freed, DroppedLater, Crashes!InOrder
<1>8. QED BY <1>1, <1>2, <1>3, <1>4, <1>5, <1>6, <1>7, RemoveOldestInv, ShiftOneInv, PutInFrontInv DEF Crashes!Next

(* A step loses a report only by removing the oldest.  *)
LEMMA LosesOldest == ASSUME Crashes!ReportsAssumption, ReportsInv, [Crashes!Next]_crashes, Crashes!Kept(slot) \ Crashes!Kept(slot') # {}
                     PROVE  \E ok \in BOOLEAN : Crashes!RemoveOldest(ok) /\ step' = "shift"
<1> USE DEF Crashes!ReportsAssumption, Crashes!Places
<1>0. Crashes!TypeOK BY DEF ReportsInv
<1>1. slot' # slot OBVIOUS
<1>2. ASSUME NEW ok \in BOOLEAN, Crashes!ShiftOne(ok) PROVE FALSE
  <2>1. step = "shift" /\ shifting \in Crashes!Places /\ slot[shifting + 1] = Nothing
    BY <1>2, <1>0 DEF Crashes!ShiftOne, Crashes!TypeOK, ReportsInv, Freed
  <2>2. slot' = [slot EXCEPT ![shifting + 1] = slot[shifting], ![shifting] = Nothing] BY <1>1, <1>2 DEF Crashes!ShiftOne, Crashes!GiveUp
  <2>2a. slot[shifting] # Nothing BY <1>1, <1>2 DEF Crashes!ShiftOne, Crashes!GiveUp
  <2>3. shifting + 1 \in Crashes!Places BY <2>1 DEF ReportsInv, Freed
  <2>4. \A i \in Crashes!Places : slot'[i] = IF i = shifting THEN Nothing ELSE IF i = shifting + 1 THEN slot[shifting] ELSE slot[i]
    BY <2>2, <2>1, <1>0 DEF Crashes!TypeOK
  <2>5. \A i \in Crashes!Places : slot[i] # Nothing => \E j \in Crashes!Places : slot'[j] = slot[i]
    <3>1. SUFFICES ASSUME NEW i \in Crashes!Places, slot[i] # Nothing PROVE \E j \in Crashes!Places : slot'[j] = slot[i] OBVIOUS
    <3>2. CASE i = shifting BY <3>2, <2>3, <2>4, <2>1
    <3>3. CASE i # shifting BY <3>1, <3>3, <2>1, <2>4
    <3>4. QED BY <3>2, <3>3
  <2>6. QED BY <2>5 DEF Crashes!Kept
<1>3. ASSUME NEW ok \in BOOLEAN, Crashes!PutInFront(ok) PROVE FALSE
  <2>1. slot' = [slot EXCEPT ![0] = tmp] /\ step = "shift" /\ shifting < 0 BY <1>1, <1>3 DEF Crashes!PutInFront, Crashes!GiveUp
  <2>2. shifting + 1 = 0 /\ 0 \in Crashes!Places BY <2>1, <1>0 DEF Crashes!TypeOK
  <2>3. slot[0] = Nothing BY <2>1, <2>2 DEF ReportsInv, Freed
  <2>4. \A i \in Crashes!Places \ {0} : slot'[i] = slot[i] BY <2>1, <1>0 DEF Crashes!TypeOK
  <2>5. QED BY <2>2, <2>3, <2>4, LostOnlyAt
<1>4. ASSUME NEW ok \in BOOLEAN, Crashes!RemoveOldest(ok) PROVE step' = "shift" BY <1>1, <1>4 DEF Crashes!RemoveOldest, Crashes!GiveUp
<1>5. QED BY <1>1, <1>2, <1>3, <1>4 DEF Crashes!Next, crashes, Crashes!Boot, Crashes!ClearRecord, Crashes!Reset, Crashes!PowerLost, Crashes!Crash, Crashes!Restart, Crashes!WriteAside

LEMMA StepKeeps == ASSUME Crashes!ReportsAssumption, ReportsInv, [Crashes!Next]_crashes PROVE Crashes!Keeping
<1> USE DEF Crashes!ReportsAssumption, Crashes!Places
<1>0. Crashes!TypeOK /\ Crashes!InOrder(slot) BY DEF ReportsInv
<1>1. Crashes!InOrder(slot') BY ReportsStep DEF ReportsInv, Crashes!InOrder
<1>2. ASSUME Crashes!Kept(slot) \ Crashes!Kept(slot') # {}, NEW old \in Crashes!Kept(slot) \ Crashes!Kept(slot'), NEW new \in Crashes!Kept(slot')
      PROVE  old < new
  <2>1. step = "oldest" /\ slot' = [slot EXCEPT ![Keep - 1] = Nothing]
    BY <1>2, LosesOldest DEF Crashes!RemoveOldest, Crashes!GiveUp
  <2>2. \A i \in Crashes!Places : slot'[i] = IF i = Keep - 1 THEN Nothing ELSE slot[i] BY <2>1, <1>0 DEF Crashes!TypeOK
  <2>3. PICK i \in Crashes!Places : slot'[i] = new /\ new # Nothing BY DEF Crashes!Kept
  <2>4. old = slot[Keep - 1] /\ old # Nothing /\ Keep - 1 \in Crashes!Places BY <2>2, LostOnlyAt
  <2>5. i < Keep - 1 /\ slot[i] = new BY <2>2, <2>3
  <2>6. new >= old BY <1>0, <2>3, <2>4, <2>5 DEF Crashes!InOrder
  <2>7. new # old BY <1>2
  <2>8. new \in Nat /\ old \in Nat BY <1>0, <2>3, <2>4, <2>5 DEF Crashes!TypeOK, Crashes!Reports
  <2>9. QED BY <2>6, <2>7, <2>8
<1>3. ASSUME Crashes!Kept(slot) \ Crashes!Kept(slot') # {} PROVE dropped = {}
  BY <1>3, LosesOldest DEF Crashes!RemoveOldest, ReportsInv, DroppedLater
<1>4. step = "clear" /\ step' = "up" => slot[0] = inRam /\ inRam # Nothing BY DEF ReportsInv, WrittenAside
<1>5. QED BY <1>1, <1>2, <1>3, <1>4 DEF Crashes!Keeping
-----------------------------------------------------------------------------
(* A step of the parts is one of this one or none. *)
LEMMA ReportsAlone == [NextParts]_parts => [Crashes!Next]_crashes
BY DEF NextParts, FilesStep, PoolStep, BoundStep, NtpStep, CrashesStep, parts

LEMMA ReportsInvariance == SpecParts => []ReportsInv
<1>0. Crashes!ReportsAssumption BY PartsAssumption
<1>1. InitParts => ReportsInv BY <1>0, ReportsInit DEF InitParts
<1>2. ReportsInv /\ [NextParts]_parts => ReportsInv' BY <1>0, ReportsAlone, ReportsStep
<1>3. QED BY <1>1, <1>2, PTL DEF SpecParts

(* Whatever call fails and wherever a boot is cut off, the reports stay in the *)
(* order of their crashes, a boot loses at most one, the oldest, and a record   *)
(* leaves RAM only for the front of them (rotate_, write_report_, setup).       *)
THEOREM ReportsAlwaysKept == SpecParts => ReportsKept
<1>0. Crashes!ReportsAssumption BY PartsAssumption
<1>1. ReportsInv /\ [NextParts]_parts => [Crashes!Keeping]_crashes BY <1>0, ReportsAlone, StepKeeps
<1>2. QED BY <1>1, ReportsInvariance, PTL DEF SpecParts, ReportsKept
-----------------------------------------------------------------------------
(***************************************************************************)
(* NTP servers, for every list of names and every poll.                    *)
(***************************************************************************)

(* What is in force and what is stored are of the lists there are.  *)
ServersTyped ==
  /\ servers \in Lists \cup {<<>>} /\ fallback \in BOOLEAN
  /\ stored = Nobody \/ stored \in [servers : Lists, fallback : BOOLEAN]

(* The counters; index and replies take any values. *)
CountersTyped ==
  /\ armed \in {"no", "next", "first"} /\ left \in Nat
  /\ misses \in Nat /\ asked \in Nat /\ away \in 0..MaxAway
  /\ connected \in BOOLEAN /\ wasConnected \in BOOLEAN /\ answered \in BOOLEAN

(* How long the server in use has: to answer, or to its next poll. *)
WaitNow == IF ~answered THEN Ntp!AnswerWait(Len(Ntp!in_use), misses)
           ELSE IF index = 1 THEN Poll + AnswerTime ELSE Poll - Lead

(* Of several, with the network there for the loop, the time a server has been *)
(* asked and what is left of its wait make up that wait, but for what the loop  *)
(* was away.                                                                    *)
WaitRuns ==
  wasConnected /\ Len(Ntp!in_use) > 1 =>
    /\ armed # "no"
    /\ WaitNow <= asked + left /\ asked + left <= WaitNow + away
    /\ left > 0 => asked + left = WaitNow

ServersInv == ServersTyped /\ CountersTyped /\ Ntp!ServersStored /\ WaitRuns
-----------------------------------------------------------------------------
LEMMA MaxOfTwo == ASSUME NEW a \in Int, NEW b \in Int PROVE Ntp!Max({a, b}) = IF a >= b THEN a ELSE b
BY DEF Ntp!Max

LEMMA MinOfTwo == ASSUME NEW a \in Int, NEW b \in Int PROVE Ntp!Min({a, b}) = IF a <= b THEN a ELSE b
BY DEF Ntp!Min

LEMMA ServersNumbers ==
  ASSUME Ntp!ServersAssumption
  PROVE  AnswerTime \in Nat /\ Poll \in Nat /\ Lead \in Nat /\ Lead <= Poll /\ MaxBackoff \in Nat /\ MaxAway \in Nat
BY DEF Ntp!ServersAssumption

(* The wait for an answer is never shorter than one, and no longer than the    *)
(* poll's own.                                                                  *)
LEMMA AnswerWaitBounds ==
  ASSUME Ntp!ServersAssumption, NEW n \in Nat, NEW missed \in Nat
  PROVE  /\ Ntp!AnswerWait(n, missed) \in Nat /\ AnswerTime <= Ntp!AnswerWait(n, missed)
         /\ Ntp!AnswerWait(n, missed) <= Poll + AnswerTime
<1> USE ServersNumbers
<1> DEFINE turns == missed \div Ntp!Max({n, 1})
           rounds == Ntp!Min({turns, MaxBackoff})
           doubled == AnswerTime * 2^rounds
<1>1. Ntp!Max({n, 1}) \in Nat /\ Ntp!Max({n, 1}) > 0 BY MaxOfTwo
<1>2. turns \in Nat BY <1>1
<1> HIDE DEF turns
<1>3. rounds \in Nat BY <1>2, MinOfTwo
<1> HIDE DEF rounds
<1>4. 2^rounds \in Int BY <1>3
<1>5. doubled \in Int BY <1>4 DEF doubled
<1> HIDE DEF doubled
<1>6. Ntp!Min({doubled, Poll}) \in Int /\ Ntp!Min({doubled, Poll}) <= Poll BY <1>5, MinOfTwo
<1>7. Ntp!AnswerWait(n, missed) = Ntp!Max({AnswerTime, Ntp!Min({doubled, Poll})})
  BY DEF Ntp!AnswerWait, doubled, rounds, turns
<1>8. AnswerTime \in Int BY ServersNumbers
<1> DEFINE wait == Ntp!Min({doubled, Poll})
<1> HIDE DEF rounds, turns, wait
<1>9. wait \in Int /\ wait <= Poll BY <1>6 DEF wait
<1>10. Ntp!AnswerWait(n, missed) = IF AnswerTime >= wait THEN AnswerTime ELSE wait
  BY <1>7, <1>8, <1>9, MaxOfTwo DEF wait
<1>11. QED BY <1>9, <1>10

LEMMA InUseLength == ASSUME Ntp!ServersAssumption, ServersTyped PROVE Len(Ntp!in_use) \in Nat
BY DEF Ntp!ServersAssumption, ServersTyped, Ntp!in_use

LEMMA WaitNowBounds ==
  ASSUME Ntp!ServersAssumption, ServersTyped, CountersTyped
  PROVE  WaitNow \in Nat /\ WaitNow <= Poll + AnswerTime
<1>1. CASE answered BY <1>1, ServersNumbers DEF WaitNow
<1>2. CASE ~answered
  <2>1. misses \in Nat BY DEF CountersTyped
  <2>2. QED BY <1>2, <2>1, InUseLength, AnswerWaitBounds DEF WaitNow
<1>3. QED BY <1>1, <1>2

LEMMA ServersInit == ASSUME Ntp!ServersAssumption, Ntp!Init PROVE ServersInv
<1>1. left \in Nat BY ServersNumbers DEF Ntp!Init
<1>2. ServersTyped BY DEF Ntp!Init, ServersTyped
<1>3. CountersTyped
  <2>1. misses = 0 /\ asked = 0 /\ away = 0 /\ connected = FALSE /\ wasConnected = FALSE /\ answered = FALSE BY DEF Ntp!Init
  <2>2. away \in 0..MaxAway /\ misses \in Nat /\ asked \in Nat BY <2>1, ServersNumbers
  <2>3. armed \in {"no", "next", "first"} BY DEF Ntp!Init
  <2>4. QED BY <1>1, <2>1, <2>2, <2>3, Zenon DEF CountersTyped
<1>4. Ntp!ServersStored BY DEF Ntp!Init, Ntp!ServersStored, Ntp!Settings, Ntp!Default
<1>5. WaitRuns BY DEF Ntp!Init, WaitRuns
<1>6. QED BY <1>2, <1>3, <1>4, <1>5 DEF ServersInv

(* Whoever is asked is asked from now on. *)
LEMMA AskRuns ==
  ASSUME Ntp!ServersAssumption, ServersTyped', NEW i, NEW n, n = Len(Ntp!in_use'), NEW missed \in Nat, Ntp!Ask(i, n, missed),
         away' \in 0..MaxAway, connected' \in BOOLEAN, wasConnected' \in BOOLEAN
  PROVE  CountersTyped' /\ WaitRuns'
<1>1. n \in Nat BY DEF Ntp!ServersAssumption, ServersTyped, Ntp!in_use
<1>2. Ntp!AnswerWait(n, missed) \in Nat BY <1>1, AnswerWaitBounds
<1>3. CountersTyped' BY <1>2 DEF CountersTyped, Ntp!Ask
<1>4. n > 1 => WaitNow' = left' /\ asked' = 0 /\ armed' = "next" BY DEF Ntp!Ask, WaitNow
<1>5. QED BY <1>1, <1>2, <1>3, <1>4 DEF WaitRuns, Ntp!Ask

(* A pass of the loop with the network there, as it was. *)
LEMMA SteadyPass ==
  ASSUME Ntp!LoopPass, Ntp!in_use # <<>>, connected, wasConnected, left \in Nat
  PROVE  /\ wasConnected' = wasConnected
         /\ armed = "no" \/ left > 0 => UNCHANGED <<index, misses, armed, left, asked, answered>>
         /\ armed = "first" /\ left = 0 => Ntp!Ask(1, Len(Ntp!in_use), misses)
         /\ armed = "next" /\ left = 0 =>
              Ntp!Ask((index % Len(Ntp!in_use)) + 1, Len(Ntp!in_use), Ntp!Missed(Len(Ntp!in_use)))
<1>1. wasConnected' = wasConnected
      /\ CASE armed = "no" \/ left > 0 -> UNCHANGED <<index, misses, armed, left, asked, answered>>
           [] armed = "first" /\ left = 0 -> Ntp!Ask(1, Len(Ntp!in_use), misses)
           [] armed = "next" /\ left = 0 ->
                Ntp!Ask((index % Len(Ntp!in_use)) + 1, Len(Ntp!in_use), Ntp!Missed(Len(Ntp!in_use)))
  BY DEF Ntp!LoopPass
<1>2. CASE armed = "no" BY <1>1, <1>2
<1>3. CASE left > 0
  <2>1. left # 0 BY <1>3
  <2>2. QED BY <1>1, <1>3, <2>1
<1>4. CASE ~(armed = "no") /\ ~(left > 0) BY <1>1, <1>4
<1>5. QED BY <1>2, <1>3, <1>4

LEMMA ServersStep == ASSUME Ntp!ServersAssumption, ServersInv, [Ntp!Next]_ntp PROVE ServersInv'
<1>0. ServersTyped /\ CountersTyped /\ Ntp!ServersStored /\ WaitRuns BY DEF ServersInv
<1>1. ASSUME NEW online \in BOOLEAN, Ntp!Boot(online) PROVE ServersInv'
  <2>1. stored' = stored /\ servers' = Ntp!Settings.servers /\ fallback' = Ntp!Settings.fallback
        /\ Ntp!Ask(1, Len(Ntp!InUse(servers', fallback')), 0)
        /\ connected' = online /\ wasConnected' = online /\ away' = 0
    BY <1>1 DEF Ntp!Boot
  <2>2. servers' = servers /\ fallback' = fallback BY <2>1, <1>0 DEF Ntp!ServersStored
  <2>3. ServersTyped' /\ Ntp!ServersStored' BY <2>1, <2>2, <1>0 DEF ServersTyped, Ntp!ServersStored, Ntp!Settings
  <2>4. away' \in 0..MaxAway BY <2>1, ServersNumbers
  <2>5. Ntp!InUse(servers', fallback') = Ntp!in_use' BY DEF Ntp!in_use
  <2>6. QED BY <2>1, <2>3, <2>4, <2>5, AskRuns DEF ServersInv
<1>2. CASE Ntp!Tick
  <2>1. away < MaxAway /\ away' = away + 1 /\ left' = Ntp!Max({left - 1, 0})
        /\ asked' = Ntp!Min({asked + 1, Poll + AnswerTime + MaxAway + 1})
        /\ UNCHANGED <<servers, fallback, stored, index, armed, misses, connected, wasConnected, answered>>
    BY <1>2 DEF Ntp!Tick, Ntp!list
  <2>2. left' = IF left > 0 THEN left - 1 ELSE 0 BY <2>1, <1>0, MaxOfTwo DEF CountersTyped
  <2>3. asked' = IF asked < Poll + AnswerTime + MaxAway + 1 THEN asked + 1 ELSE Poll + AnswerTime + MaxAway + 1
    BY <2>1, <1>0, MinOfTwo, ServersNumbers DEF CountersTyped
  <2>4. WaitNow' = WaitNow /\ Ntp!in_use' = Ntp!in_use BY <2>1 DEF WaitNow, Ntp!in_use
  <2>5. ServersTyped' /\ Ntp!ServersStored' BY <2>1, <1>0 DEF ServersTyped, Ntp!ServersStored, Ntp!Settings
  <2>6. CountersTyped' BY <2>1, <2>2, <2>3, <1>0, ServersNumbers DEF CountersTyped
  <2>7. WaitNow \in Nat /\ WaitNow <= Poll + AnswerTime BY <1>0, WaitNowBounds
  <2>8. left \in Nat /\ asked \in Nat /\ away \in Nat BY <1>0, ServersNumbers DEF CountersTyped
  <2>9. ASSUME wasConnected, Len(Ntp!in_use) > 1
        PROVE  /\ armed' # "no" /\ WaitNow <= asked' + left' /\ asked' + left' <= WaitNow + away'
               /\ left' > 0 => asked' + left' = WaitNow
    <3>1. armed # "no" /\ WaitNow <= asked + left /\ asked + left <= WaitNow + away
          /\ (left > 0 => asked + left = WaitNow)
      BY <2>9, <1>0 DEF WaitRuns
    <3>2. asked < Poll + AnswerTime + MaxAway + 1 BY <3>1, <2>1, <2>7, <2>8, ServersNumbers
    <3>3. QED BY <3>1, <3>2, <2>1, <2>2, <2>3, <2>7, <2>8, ServersNumbers
  <2>10. WaitRuns' BY <2>1, <2>4, <2>9 DEF WaitRuns
  <2>11. QED BY <2>5, <2>6, <2>10 DEF ServersInv
<1>3. CASE Ntp!LoopPass
  <2>1. away' = 0 /\ UNCHANGED <<servers, fallback, stored, connected>> BY <1>3 DEF Ntp!LoopPass, Ntp!list
  <2>2. ServersTyped' /\ Ntp!ServersStored' /\ Ntp!in_use' = Ntp!in_use
    BY <2>1, <1>0 DEF ServersTyped, Ntp!ServersStored, Ntp!Settings, Ntp!in_use
  <2>3. away' \in 0..MaxAway BY <2>1, ServersNumbers
  <2>4. ASSUME NEW i, NEW missed \in Nat, Ntp!Ask(i, Len(Ntp!in_use), missed), wasConnected' \in BOOLEAN
        PROVE  ServersInv'
    <3>1. connected' \in BOOLEAN BY <2>1, <1>0 DEF CountersTyped
    <3>2. QED BY <2>2, <2>3, <2>4, <3>1, AskRuns DEF ServersInv
  <2>5. ASSUME UNCHANGED <<index, misses, armed, left, asked, answered>>, wasConnected' \in BOOLEAN,
               wasConnected' => wasConnected, left > 0 \/ ~wasConnected' \/ ~(Len(Ntp!in_use) > 1)
        PROVE  ServersInv'
    <3>1. CountersTyped' BY <2>1, <2>3, <2>5, <1>0 DEF CountersTyped
    <3>2. WaitNow' = WaitNow BY <2>2, <2>5 DEF WaitNow
    <3>3. WaitNow \in Nat /\ left \in Nat /\ asked \in Nat BY <1>0, WaitNowBounds DEF CountersTyped
    <3>4. WaitRuns' BY <2>1, <2>2, <2>5, <3>2, <3>3, <1>0 DEF WaitRuns
    <3>5. QED BY <2>2, <3>1, <3>4 DEF ServersInv
  <2>6. misses \in Nat /\ wasConnected \in BOOLEAN /\ Len(Ntp!in_use) \in Nat /\ left \in Nat
    BY <1>0, InUseLength DEF CountersTyped
  <2>7. CASE Ntp!in_use = <<>>
    <3>1. Len(Ntp!in_use) = 0 BY <2>7
    <3>2. UNCHANGED <<wasConnected, index, misses, armed, left, asked, answered>> BY <1>3, <2>7 DEF Ntp!LoopPass
    <3>3. QED BY <3>1, <3>2, <2>5, <2>6
  <2>8. CASE Ntp!in_use # <<>> /\ connected /\ ~wasConnected
    <3>1. wasConnected' = TRUE /\ Ntp!Ask(1, Len(Ntp!in_use), 0) BY <1>3, <2>8 DEF Ntp!LoopPass
    <3>2. QED BY <3>1, <2>4
  <2>9. CASE Ntp!in_use # <<>> /\ ~connected
    <3>1. wasConnected' = FALSE /\ UNCHANGED <<index, misses, armed, left, asked, answered>> BY <1>3, <2>9 DEF Ntp!LoopPass
    <3>2. QED BY <3>1, <2>5
  <2>10. CASE Ntp!in_use # <<>> /\ connected /\ wasConnected
    <3>1. /\ wasConnected' = wasConnected
          /\ armed = "no" \/ left > 0 => UNCHANGED <<index, misses, armed, left, asked, answered>>
          /\ armed = "first" /\ left = 0 => Ntp!Ask(1, Len(Ntp!in_use), misses)
          /\ armed = "next" /\ left = 0 =>
               Ntp!Ask((index % Len(Ntp!in_use)) + 1, Len(Ntp!in_use), Ntp!Missed(Len(Ntp!in_use)))
      BY <1>3, <2>10, <2>6, SteadyPass
    <3>2. Ntp!Missed(Len(Ntp!in_use)) \in Nat
      <4>1. misses + 1 \in Nat /\ Len(Ntp!in_use) * MaxBackoff \in Nat BY <2>6, ServersNumbers
      <4>2. QED BY <4>1, MinOfTwo DEF Ntp!Missed
    <3>3. CASE armed = "no" \/ left > 0
      <4>1. UNCHANGED <<index, misses, armed, left, asked, answered>> BY <3>1, <3>3, <2>6
      <4>2. left > 0 \/ ~(Len(Ntp!in_use) > 1) BY <3>3, <2>10, <1>0 DEF WaitRuns
      <4>3. QED BY <4>1, <4>2, <3>1, <2>5, <2>6
    <3>4. CASE armed = "first" /\ left = 0 BY <3>1, <3>4, <2>4, <2>6
    <3>5. CASE armed = "next" /\ left = 0 BY <3>1, <3>2, <3>5, <2>4, <2>6
    <3>6. armed \in {"no", "next", "first"} BY <1>0 DEF CountersTyped
    <3>7. QED BY <3>3, <3>4, <3>5, <3>6, <2>6
  <2>11. QED BY <2>7, <2>8, <2>9, <2>10
<1>4. CASE Ntp!Reply
  <2>1. UNCHANGED <<servers, fallback, stored, index, armed, left, misses, connected, wasConnected, away, asked, answered>>
    BY <1>4 DEF Ntp!Reply, Ntp!list
  <2>2. QED BY <2>1, <1>0 DEF ServersInv, ServersTyped, CountersTyped, WaitRuns, WaitNow, Ntp!in_use, Ntp!ServersStored,
             Ntp!Settings
<1>5. CASE Ntp!Answer
  <2>1. UNCHANGED <<servers, fallback, stored, index, connected, wasConnected, away>> BY <1>5 DEF Ntp!Answer, Ntp!list
  <2>2. ServersTyped' /\ Ntp!ServersStored' /\ Ntp!in_use' = Ntp!in_use
    BY <2>1, <1>0 DEF ServersTyped, Ntp!ServersStored, Ntp!Settings, Ntp!in_use
  <2>3. CASE Ntp!Credited(Head(replies))
    <3>1. /\ misses' = 0 /\ asked' = 0 /\ answered' = TRUE
          /\ armed' = IF Len(Ntp!in_use) < 2 THEN "no" ELSE IF index = 1 THEN "next" ELSE "first"
          /\ left' = IF Len(Ntp!in_use) < 2 THEN 0 ELSE IF index = 1 THEN Poll + AnswerTime ELSE Poll - Lead
      BY <1>5, <2>3 DEF Ntp!Answer, Ntp!Credited
    <3>2. left' \in Nat /\ armed' \in {"no", "next", "first"} BY <3>1, ServersNumbers
    <3>3. misses' \in Nat /\ asked' \in Nat BY <3>1
    <3>4. CountersTyped' BY <3>1, <3>2, <3>3, <2>1, <1>0, Zenon DEF CountersTyped
    <3>5. Len(Ntp!in_use) \in Nat /\ away \in Nat BY <1>0, InUseLength, ServersNumbers DEF CountersTyped
    <3>6. Len(Ntp!in_use) > 1 => WaitNow' = left' /\ armed' # "no" BY <3>1, <3>5, <2>1 DEF WaitNow
    <3>7. WaitRuns' BY <3>1, <3>2, <3>5, <3>6, <2>1, <2>2 DEF WaitRuns
    <3>8. QED BY <2>2, <3>4, <3>7 DEF ServersInv
  <2>4. CASE ~Ntp!Credited(Head(replies))
    <3>1. UNCHANGED <<misses, armed, left, asked>> BY <1>5, <2>4 DEF Ntp!Answer, Ntp!Credited
    <3>2. answered' = answered BY <1>5, <2>4, <1>0 DEF Ntp!Answer, Ntp!Credited, CountersTyped
    <3>3. QED BY <2>1, <2>2, <3>1, <3>2, <1>0 DEF ServersInv, CountersTyped, WaitRuns, WaitNow
  <2>5. QED BY <2>3, <2>4
<1>6. CASE Ntp!NetworkChanges
  <2>1. UNCHANGED <<servers, fallback, stored, index, armed, left, misses, wasConnected, away, asked, answered>>
        /\ connected' \in BOOLEAN
    BY <1>6 DEF Ntp!NetworkChanges, Ntp!list
  <2>2. QED BY <2>1, <1>0 DEF ServersInv, ServersTyped, CountersTyped, WaitRuns, WaitNow, Ntp!in_use, Ntp!ServersStored,
             Ntp!Settings
<1>7. ASSUME NEW own \in Lists, NEW fb \in BOOLEAN, NEW reported \in BOOLEAN,
             Ntp!Configure([servers |-> own, fallback |-> fb], reported)
      PROVE  ServersInv'
  <2>1. PICK new \in [servers : Lists, fallback : BOOLEAN] : new = [servers |-> own, fallback |-> fb] OBVIOUS
  <2>2. UNCHANGED <<connected, wasConnected, away>> /\ stored' \in {new, stored} /\ (reported => stored' = new)
    BY <1>7, <2>1 DEF Ntp!Configure
  <2>3. new # Nobody /\ new = [servers |-> new.servers, fallback |-> new.fallback] /\ new.servers \in Lists
        /\ new.fallback \in BOOLEAN
    BY DEF Ntp!ServersAssumption
  <2>4. CASE Ntp!TakesEffect(new, reported)
    <3>1. servers' = new.servers /\ fallback' = new.fallback /\ Ntp!Ask(1, Len(Ntp!InUse(new.servers, new.fallback)), 0)
      BY <1>7, <2>1, <2>4 DEF Ntp!Configure
    <3>2. stored' = new BY <2>2, <2>4 DEF Ntp!TakesEffect
    <3>3. ServersTyped' /\ Ntp!ServersStored'
      BY <3>1, <3>2, <2>3 DEF ServersTyped, Ntp!ServersStored, Ntp!Settings
    <3>4. Ntp!InUse(new.servers, new.fallback) = Ntp!in_use' BY <3>1 DEF Ntp!in_use
    <3>5. away' \in 0..MaxAway /\ connected' \in BOOLEAN /\ wasConnected' \in BOOLEAN BY <2>2, <1>0 DEF CountersTyped
    <3>6. QED BY <3>1, <3>3, <3>4, <3>5, AskRuns DEF ServersInv
  <2>5. CASE ~Ntp!TakesEffect(new, reported)
    <3>1. UNCHANGED <<servers, fallback, index, armed, left, misses, asked, answered>>
      BY <1>7, <2>1, <2>5 DEF Ntp!Configure
    <3>2. stored' = stored BY <2>2, <2>5 DEF Ntp!TakesEffect
    <3>3. QED BY <2>2, <3>1, <3>2, <1>0 DEF ServersInv, ServersTyped, CountersTyped, WaitRuns, WaitNow, Ntp!in_use,
               Ntp!ServersStored, Ntp!Settings
  <2>6. QED BY <2>4, <2>5
<1>8. CASE UNCHANGED ntp
  BY <1>8, <1>0 DEF ntp, ServersInv, ServersTyped, CountersTyped, WaitRuns, WaitNow, Ntp!in_use, Ntp!ServersStored, Ntp!Settings
<1>9. QED BY <1>1, <1>2, <1>3, <1>4, <1>5, <1>6, <1>7, <1>8, Zenon DEF Ntp!Next

(* A server is not left before its wait is over, nor asked beyond it but for   *)
(* what the loop was away.                                                      *)
LEMMA ServersCredited == ASSUME Ntp!ServersAssumption, ServersInv, [Ntp!Next]_ntp PROVE Ntp!Credit
<1>0. ServersTyped /\ CountersTyped /\ WaitRuns BY DEF ServersInv
<1>1. WaitNow \in Nat /\ left \in Nat /\ asked \in Nat /\ away \in 0..MaxAway
  BY <1>0, WaitNowBounds DEF CountersTyped
<1>2. Ntp!Steady => asked <= WaitNow + MaxAway BY <1>0, <1>1, ServersNumbers DEF Ntp!Steady, WaitRuns
<1>3. ASSUME Ntp!Steady, index' # index, Ntp!LoopPass PROVE asked >= IF answered THEN Poll - Lead ELSE AnswerTime
  <2>1. Len(Ntp!in_use) \in Nat /\ misses \in Nat BY <1>0, InUseLength DEF CountersTyped
  <2>2. left = 0
    <3>1. Ntp!in_use # <<>>
      <4>1. SUFFICES ASSUME Ntp!in_use = <<>> PROVE FALSE OBVIOUS
      <4>2. Len(Ntp!in_use) = 0 BY <4>1
      <4>3. QED BY <4>2, <1>3 DEF Ntp!Steady
    <3>2. left > 0 => index' = index BY <1>1, <1>3, <3>1, SteadyPass DEF Ntp!Steady
    <3>3. QED BY <3>2, <1>3, <1>1
  <2>3. asked >= WaitNow BY <1>3, <1>0, <1>1, <2>2 DEF WaitRuns, Ntp!Steady
  <2>4. WaitNow >= IF answered THEN Poll - Lead ELSE AnswerTime
    <3>1. CASE answered BY <3>1, ServersNumbers DEF WaitNow
    <3>2. CASE ~answered BY <3>2, <2>1, AnswerWaitBounds, ServersNumbers DEF WaitNow
    <3>3. QED BY <3>1, <3>2
  <2>5. QED BY <2>3, <2>4, <1>1, ServersNumbers
<1>4. QED BY <1>2, <1>3 DEF Ntp!Credit, WaitNow

LEMMA ServersAlone == [NextParts]_parts => [Ntp!Next]_ntp
BY DEF NextParts, FilesStep, PoolStep, BoundStep, NtpStep, CrashesStep, parts

LEMMA ServersInvariance == SpecParts => []ServersInv
<1>0. Ntp!ServersAssumption BY PartsAssumption
<1>1. InitParts => ServersInv BY <1>0, ServersInit DEF InitParts
<1>2. ServersInv /\ [NextParts]_parts => ServersInv' BY <1>0, ServersAlone, ServersStep
<1>3. QED BY <1>1, <1>2, PTL DEF SpecParts

(* The servers asked are those the next boot reads, whichever record a flush   *)
(* failed for (configure, setup).                                               *)
THEOREM ServersAlwaysStored == SpecParts => []ServersStored
<1>1. ServersInv => ServersStored BY DEF ServersInv, ServersStored
<1>2. QED BY <1>1, ServersInvariance, PTL

(* A server that answers is kept to its next poll, one that does not is left   *)
(* when its wait is over, however long the list, the poll and the loop's       *)
(* absences, and late replies change neither (on_answer_, loop).               *)
THEOREM AnswersAlwaysCredited == SpecParts => AnswersCredited
<1>0. Ntp!ServersAssumption BY PartsAssumption
<1>1. ServersInv /\ [NextParts]_parts => [Ntp!Credit]_ntp BY <1>0, ServersAlone, ServersCredited
<1>2. QED BY <1>1, ServersInvariance, PTL DEF SpecParts, AnswersCredited
-----------------------------------------------------------------------------
(***************************************************************************)
(* Virtual inputs, for every pool, every delay and every width of the      *)
(* clock they fit.                                                         *)
(***************************************************************************)

Lines == [output : BOOLEAN, level : BOOLEAN, hasLevel : BOOLEAN, pending : BOOLEAN, since : 0..(Modulus - 1)]

PoolTyped ==
  /\ clock \in 0..(Modulus - 1) /\ stalled \in 0..MaxStall
  /\ source \in [Sources -> BOOLEAN \cup {NoLevel}]
  /\ config \in Pool!Tables /\ slotsFile \in Pool!Tables \cup {BadFile}
  /\ line \in [Slots -> Lines] /\ shown \in [Slots -> BOOLEAN \cup {NoLevel}]
  /\ stood \in [Slots -> 0..Pool!Cap] /\ before \in [Slots -> BOOLEAN]

(* A line l of settings c at the time now, with the loop away for a, whose     *)
(* level has stood for st, and that shows sh and showed bf before it.  While a  *)
(* change is pending the clock counts what the level has stood, perhaps past    *)
(* its end, and no pass found it over.                                          *)
Delay(l, c) == IF l.level THEN c.on ELSE c.off
LineKept(l, c, now, a, st, sh, bf) ==
  /\ sh = l.output
  /\ l.pending => /\ l.level # l.output /\ bf = l.output
                  /\ Delay(l, c) > 0 /\ st - a < Delay(l, c)
                  /\ l.since + st = now \/ l.since + st = now + Modulus
  /\ ~l.pending => l.output = l.level /\ (st < Delay(l, c) => bf = l.level)

(* A slot shows what its line has put out, if it shows anything.  *)
SlotKept(s) ==
  /\ Pool!Stands(s) = line[s].output
  /\ ~Pool!InUse(s) => ~line[s].output
  /\ Pool!InUse(s) /\ line[s].hasLevel =>
       LineKept(line[s], config[s], clock, stalled, stood[s], shown[s], before[s])

PoolInv == PoolTyped /\ \A s \in Slots : SlotKept(s)
-----------------------------------------------------------------------------
LEMMA PoolNumbers ==
  ASSUME Pool!DelayAssumption
  PROVE  /\ MaxStall \in Nat /\ Modulus \in Nat \ {0} /\ Pool!Longest \in Nat /\ Pool!Cap \in Nat
         /\ Pool!Cap = Pool!Longest + MaxStall + 1 /\ Pool!Cap <= Modulus
BY DEF Pool!DelayAssumption, Pool!Cap

LEMMA Multiples ==
  ASSUME NEW d \in Nat \ {0}, NEW k \in Int
  PROVE  (k >= 1 => d * k >= d) /\ (k <= -1 => d * k <= -d)
OBVIOUS

LEMMA Within ==
  ASSUME NEW m \in Nat \ {0}, NEW a \in 0..(m - 1)
  PROVE  a % m = a
<1>1. PICK q \in Int, r \in 0..(m - 1) : a = m * q + r /\ a % m = r
  OBVIOUS
<1>2. PICK mq \in Int : mq = m * q OBVIOUS
<1>3. q = 0 \/ q >= 1 \/ q <= -1 OBVIOUS
<1>4. q = 0 => mq = 0 BY <1>2
<1>5. (q >= 1 => mq >= m) /\ (q <= -1 => mq <= -m) BY <1>2, Multiples
<1>6. QED BY <1>1, <1>2, <1>3, <1>4, <1>5

(* A difference that wrapped. *)
LEMMA Below ==
  ASSUME NEW m \in Nat \ {0}, NEW a \in 0..(m - 1)
  PROVE  (a - m) % m = a
<1>1. PICK n \in Int : n = a - m
  OBVIOUS
<1>2. n \div m \in Int /\ n % m \in 0..(m - 1)
  OBVIOUS
<1>3. n = m * (n \div m) + (n % m)
  OBVIOUS
<1>4. PICK q \in Int, r \in 0..(m - 1) : n = m * q + r /\ n % m = r
  BY <1>2, <1>3
<1>5. PICK mq \in Int : mq = m * q
  OBVIOUS
<1>6. m * (q + 1) = mq + m
  BY <1>5
<1>7. (q + 1 >= 1 => mq + m >= m) /\ (q + 1 <= -1 => mq + m <= -m)
  BY <1>6, Multiples
<1>8. q = -1 => mq = -m
  BY <1>5
<1>9. QED
  BY <1>1, <1>4, <1>5, <1>7, <1>8

(* The clock tells a wait that is shorter than its width. *)
LEMMA ElapsedIs ==
  ASSUME Pool!DelayAssumption, NEW now \in 0..(Modulus - 1), NEW since \in 0..(Modulus - 1), NEW st \in 0..(Modulus - 1),
         since + st = now \/ since + st = now + Modulus
  PROVE  Pool!Elapsed(now, since) = st
<1>0. Modulus \in Nat \ {0} BY PoolNumbers
<1>1. CASE since + st = now
  <2>1. now - since = st BY <1>1, <1>0
  <2>2. QED BY <2>1, <1>0, Within DEF Pool!Elapsed
<1>2. CASE since + st = now + Modulus
  <2>1. now - since = st - Modulus BY <1>2, <1>0
  <2>2. QED BY <2>1, <1>0, Below DEF Pool!Elapsed
<1>3. QED BY <1>1, <1>2

(* A clock that goes on. *)
LEMMA ClockGoesOn ==
  ASSUME Pool!DelayAssumption, NEW now \in 0..(Modulus - 1)
  PROVE  (now + 1) % Modulus = IF now + 1 = Modulus THEN 0 ELSE now + 1
<1>0. Modulus \in Nat \ {0} BY PoolNumbers
<1>1. CASE now + 1 = Modulus
  <2>1. Modulus % Modulus = 0 BY <1>0
  <2>2. QED BY <1>1, <2>1
<1>2. CASE now + 1 # Modulus
  <2>1. now + 1 \in 0..(Modulus - 1) BY <1>0, <1>2
  <2>2. QED BY <1>0, <1>2, <2>1, Within
<1>3. QED BY <1>1, <1>2
-----------------------------------------------------------------------------
(* What becomes of a line that keeps its delay. *)

LEMMA LineFields ==
  ASSUME NEW l \in Lines
  PROVE  /\ l.output \in BOOLEAN /\ l.level \in BOOLEAN /\ l.hasLevel \in BOOLEAN /\ l.pending \in BOOLEAN
         /\ l.since \in 0..(Modulus - 1)
BY DEF Lines

LEMMA DelayNumber ==
  ASSUME Pool!DelayAssumption, NEW from, NEW c \in Pool!Settings(from), NEW l \in Lines
  PROVE  Delay(l, c) \in 0..Pool!Longest
BY LineFields DEF Pool!Settings, Delay

(* The tick either puts the level out or changes nothing. *)
LEMMA TickIs ==
  ASSUME NEW l \in Lines, NEW c, NEW now, NEW t, t = Pool!TickLine(l, c, now), Pool!DelayAssumption
  PROVE  \/ t = l /\ ~(l.pending /\ Pool!Elapsed(now, l.since) >= Pool!WaitOf(l, c))
         \/ /\ l.pending /\ Pool!Elapsed(now, l.since) >= Pool!WaitOf(l, c)
            /\ t \in Lines /\ t.output = l.level /\ t.level = l.level /\ t.hasLevel = l.hasLevel /\ ~t.pending
<1>0. Modulus \in Nat \ {0} BY PoolNumbers
<1>1. CASE l.pending /\ Pool!Elapsed(now, l.since) >= Pool!WaitOf(l, c)
  <2>1. t = [l EXCEPT !.output = l.level, !.pending = FALSE, !.since = 0] BY <1>1 DEF Pool!TickLine
  <2>2. PICK level \in BOOLEAN : level = l.level BY LineFields
  <2>3. t = [l EXCEPT !.output = level, !.pending = FALSE, !.since = 0] /\ 0 \in 0..(Modulus - 1) BY <1>0, <2>1, <2>2
  <2>4. t \in Lines BY <2>3 DEF Lines
  <2>5. t.output = level /\ t.level = l.level /\ t.hasLevel = l.hasLevel /\ ~t.pending BY <2>3 DEF Lines
  <2>6. QED BY <1>1, <2>2, <2>4, <2>5
<1>2. CASE ~(l.pending /\ Pool!Elapsed(now, l.since) >= Pool!WaitOf(l, c)) BY <1>2 DEF Pool!TickLine
<1>3. QED BY <1>1, <1>2

(* A pass of the loop. *)
LEMMA TickKeeps ==
  ASSUME Pool!DelayAssumption, NEW l \in Lines, NEW from, NEW c \in Pool!Settings(from), NEW now \in 0..(Modulus - 1),
         NEW a \in 0..MaxStall, NEW st \in 0..Pool!Cap, NEW sh, NEW bf, LineKept(l, c, now, a, st, sh, bf),
         NEW t, t = Pool!TickLine(l, c, now)
  PROVE  LineKept(t, c, now, 0, st, t.output, bf)
<1>1. /\ MaxStall \in Nat /\ Modulus \in Nat \ {0} /\ Pool!Longest \in Nat
      /\ Pool!Cap = Pool!Longest + MaxStall + 1 /\ Pool!Cap <= Modulus
  BY PoolNumbers
<1>2. Delay(l, c) \in 0..Pool!Longest BY DelayNumber
<1>3. ASSUME l.pending PROVE Pool!Elapsed(now, l.since) = st /\ Pool!WaitOf(l, c) = Delay(l, c)
  <2>1. st \in 0..(Modulus - 1) BY <1>1, <1>2, <1>3 DEF LineKept
  <2>2. l.since \in 0..(Modulus - 1) BY LineFields
  <2>3. l.since + st = now \/ l.since + st = now + Modulus BY <1>3 DEF LineKept
  <2>4. Pool!Elapsed(now, l.since) = st BY <2>1, <2>2, <2>3, ElapsedIs
  <2>5. Pool!WaitOf(l, c) = Delay(l, c) BY <1>3, LineFields DEF LineKept, Pool!WaitOf, Delay
  <2>6. QED BY <2>4, <2>5
<1>4. CASE t = l /\ ~(l.pending /\ Pool!Elapsed(now, l.since) >= Pool!WaitOf(l, c))
  <2>1. l.pending => st - 0 < Delay(l, c) BY <1>2, <1>3, <1>4
  <2>2. QED BY <1>4, <2>1 DEF LineKept
<1>5. CASE /\ l.pending /\ Pool!Elapsed(now, l.since) >= Pool!WaitOf(l, c)
           /\ t \in Lines /\ t.output = l.level /\ t.level = l.level /\ t.hasLevel = l.hasLevel /\ ~t.pending
  <2>1. ~(st < Delay(t, c)) BY <1>2, <1>3, <1>5 DEF Delay
  <2>2. QED BY <1>5, <2>1 DEF LineKept
<1>6. QED BY <1>4, <1>5, TickIs

(* The wait is counted afresh. *)
LEMMA RestartKeeps ==
  ASSUME Pool!DelayAssumption, NEW l \in Lines, NEW from, NEW c \in Pool!Settings(from), NEW now \in 0..(Modulus - 1),
         NEW a \in 0..MaxStall, NEW level \in BOOLEAN, NEW t, t = Pool!RestartLine(l, c, level, now)
  PROVE  t \in Lines /\ t.hasLevel /\ LineKept(t, c, now, a, 0, t.output, l.output)
<1>1. MaxStall \in Nat /\ Modulus \in Nat \ {0} /\ Pool!Longest \in Nat BY PoolNumbers
<1>2. PICK r \in Lines : /\ r.output = l.output /\ r.level = level /\ r.hasLevel
                         /\ r.pending => level # l.output /\ r.since = now
                         /\ ~r.pending => level = l.output
                         /\ t = Pool!TickLine(r, c, now)
  <2>1. PICK counts \in BOOLEAN : counts = (level # l.output) OBVIOUS
  <2>2. PICK since \in 0..(Modulus - 1) : since = IF counts THEN now ELSE 0 BY <1>1
  <2>3. PICK r : r = [l EXCEPT !.level = level, !.hasLevel = TRUE, !.pending = counts, !.since = since] OBVIOUS
  <2>4. r \in Lines BY <2>3 DEF Lines
  <2>5. r.output = l.output /\ r.level = level /\ r.hasLevel /\ r.pending = counts /\ r.since = since BY <2>3 DEF Lines
  <2>6. t = Pool!TickLine(r, c, now) BY <2>1, <2>2, <2>3 DEF Pool!RestartLine
  <2>7. r.pending => level # l.output /\ r.since = now BY <2>1, <2>2, <2>5
  <2>8. ~r.pending => level = l.output BY <2>1, <2>5
  <2>9. QED BY <2>4, <2>5, <2>6, <2>7, <2>8
<1>3. Delay(r, c) \in 0..Pool!Longest BY DelayNumber
<1>4. ASSUME r.pending PROVE Pool!Elapsed(now, r.since) = 0 /\ Pool!WaitOf(r, c) = Delay(r, c)
  <2>1. r.since = now /\ r.level # r.output BY <1>2, <1>4
  <2>2. 0 \in 0..(Modulus - 1) /\ now + 0 = now BY <1>1
  <2>3. Pool!Elapsed(now, r.since) = 0 BY <2>1, <2>2, ElapsedIs
  <2>4. Pool!WaitOf(r, c) = Delay(r, c) BY <2>1, LineFields DEF Pool!WaitOf, Delay
  <2>5. QED BY <2>3, <2>4
<1>5. CASE t = r /\ ~(r.pending /\ Pool!Elapsed(now, r.since) >= Pool!WaitOf(r, c))
  <2>1. r.pending => Delay(r, c) > 0 /\ 0 - a < Delay(r, c) BY <1>1, <1>3, <1>4, <1>5
  <2>2. r.pending => r.since + 0 = now BY <1>2, <1>1
  <2>3. ~r.pending => r.output = r.level BY <1>2
  <2>4. LineKept(r, c, now, a, 0, r.output, l.output) BY <1>2, <2>1, <2>2, <2>3 DEF LineKept
  <2>5. QED BY <1>2, <1>5, <2>4
<1>6. CASE /\ r.pending /\ Pool!Elapsed(now, r.since) >= Pool!WaitOf(r, c)
           /\ t \in Lines /\ t.output = r.level /\ t.level = r.level /\ t.hasLevel = r.hasLevel /\ ~t.pending
  <2>1. ~(0 < Delay(t, c)) BY <1>3, <1>4, <1>6 DEF Delay
  <2>2. QED BY <1>2, <1>6, <2>1 DEF LineKept
<1>7. \/ t = r /\ ~(r.pending /\ Pool!Elapsed(now, r.since) >= Pool!WaitOf(r, c))
      \/ /\ r.pending /\ Pool!Elapsed(now, r.since) >= Pool!WaitOf(r, c)
         /\ t \in Lines /\ t.output = r.level /\ t.level = r.level /\ t.hasLevel = r.hasLevel /\ ~t.pending
  <2>1. t = Pool!TickLine(r, c, now) BY <1>2
  <2>2. QED BY <2>1, TickIs
<1>8. QED BY <1>5, <1>6, <1>7

(* A level the line has already changes nothing. *)
LEMMA FeedKeeps ==
  ASSUME Pool!DelayAssumption, NEW l \in Lines, NEW from, NEW c \in Pool!Settings(from), NEW now \in 0..(Modulus - 1),
         NEW a \in 0..MaxStall, NEW level \in BOOLEAN, NEW t, t = Pool!FeedLine(l, c, level, now)
  PROVE  /\ t \in Lines /\ t.hasLevel
         /\ l.hasLevel /\ l.level = level => t = l
         /\ ~l.hasLevel \/ l.level # level => LineKept(t, c, now, a, 0, t.output, l.output)
<1>1. CASE l.hasLevel /\ l.level = level BY <1>1 DEF Pool!FeedLine
<1>2. CASE ~(l.hasLevel /\ l.level = level)
  <2>1. t = Pool!RestartLine(l, c, level, now) BY <1>2 DEF Pool!FeedLine
  <2>2. QED BY <1>2, <2>1, RestartKeeps
<1>3. QED BY <1>1, <1>2

(* A millisecond, which a pending wait counts. *)
LEMMA MillisecondKeeps ==
  ASSUME Pool!DelayAssumption, NEW l \in Lines, NEW from, NEW c \in Pool!Settings(from), NEW now \in 0..(Modulus - 1),
         NEW a \in 0..MaxStall, a < MaxStall, NEW st \in 0..Pool!Cap, NEW sh, NEW bf, LineKept(l, c, now, a, st, sh, bf)
  PROVE  LineKept(l, c, (now + 1) % Modulus, a + 1, Pool!Min({st + 1, Pool!Cap}), sh, bf)
<1>1. /\ MaxStall \in Nat /\ Modulus \in Nat \ {0} /\ Pool!Longest \in Nat
      /\ Pool!Cap = Pool!Longest + MaxStall + 1 /\ Pool!Cap <= Modulus
  BY PoolNumbers
<1>2. Delay(l, c) \in 0..Pool!Longest BY DelayNumber
<1>3. PICK st1 \in Nat : st1 = Pool!Min({st + 1, Pool!Cap}) /\ st1 = IF st < Pool!Cap THEN st + 1 ELSE Pool!Cap
  BY <1>1, SMT DEF Pool!Min
<1>4. PICK now1 \in Int : now1 = (now + 1) % Modulus /\ now1 = IF now + 1 = Modulus THEN 0 ELSE now + 1
  BY <1>1, ClockGoesOn
<1>5. l.since \in 0..(Modulus - 1) BY LineFields
<1>6. ASSUME l.pending
      PROVE  st1 - (a + 1) < Delay(l, c) /\ (l.since + st1 = now1 \/ l.since + st1 = now1 + Modulus)
  <2>1. st - a < Delay(l, c) /\ (l.since + st = now \/ l.since + st = now + Modulus) BY <1>6 DEF LineKept
  <2>2. st1 = st + 1 /\ st + 1 < Modulus BY <1>1, <1>2, <1>3, <2>1
  <2>3. st1 - (a + 1) < Delay(l, c) BY <2>1, <2>2, <1>2
  <2>4. l.since + st1 = now1 \/ l.since + st1 = now1 + Modulus BY <1>1, <1>4, <1>5, <2>1, <2>2
  <2>5. QED BY <2>3, <2>4
<1>7. st1 < Delay(l, c) => st < Delay(l, c) BY <1>1, <1>2, <1>3
<1>8. LineKept(l, c, now1, a + 1, st1, sh, bf) BY <1>6, <1>7 DEF LineKept
<1>9. QED BY <1>3, <1>4, <1>8

(* Whoever starts a slot counts its wait afresh, or forgets its level. *)
LEMMA StartKeeps ==
  ASSUME Pool!DelayAssumption, PoolTyped, NEW l \in Lines, NEW c \in Pool!Settings(Sources), NEW now \in 0..(Modulus - 1),
         NEW a \in 0..MaxStall, NEW t, t = Pool!LineStarted(l, c, now)
  PROVE  /\ t \in Lines
         /\ source[c.source] = NoLevel => ~t.hasLevel /\ t.output = l.output
         /\ source[c.source] # NoLevel => LineKept(t, c, now, a, 0, t.output, l.output)
<1>1. c.source \in Sources /\ c.source # Foreign BY DEF Pool!Settings, Pool!DelayAssumption
<1>2. CASE source[c.source] = NoLevel
  <2>1. t = [l EXCEPT !.hasLevel = FALSE, !.pending = FALSE, !.since = 0] /\ 0 \in 0..(Modulus - 1)
    BY <1>1, <1>2, PoolNumbers DEF Pool!LineStarted, Pool!ForgetLevel
  <2>2. t \in Lines /\ ~t.hasLevel /\ t.output = l.output BY <2>1 DEF Lines
  <2>3. QED BY <1>2, <2>2
<1>3. CASE source[c.source] # NoLevel
  <2>1. PICK level \in BOOLEAN : level = source[c.source] BY <1>1, <1>3 DEF PoolTyped
  <2>2. t = Pool!RestartLine(l, c, level, now) BY <1>1, <1>3, <2>1 DEF Pool!LineStarted
  <2>3. QED BY <1>3, <2>2, RestartKeeps
<1>4. QED BY <1>2, <1>3
-----------------------------------------------------------------------------
LEMMA PoolInit == ASSUME Pool!DelayAssumption, Pool!Init PROVE PoolInv
<1>0. /\ MaxStall \in Nat /\ Modulus \in Nat \ {0} /\ Pool!Longest \in Nat /\ Pool!Cap \in Nat
  BY PoolNumbers
<1>1. Pool!ResetLine \in Lines /\ Pool!ResetLine.output = FALSE /\ ~Pool!ResetLine.hasLevel
  BY <1>0 DEF Pool!ResetLine, Lines
<1>2. Pool!Empty \in Pool!Tables BY DEF Pool!Empty, Pool!Tables
<1>3. PoolTyped BY <1>0, <1>1, <1>2 DEF Pool!Init, PoolTyped
<1>4. ASSUME NEW s \in Slots PROVE SlotKept(s)
  <2>1. line[s] = Pool!ResetLine /\ shown[s] = NoLevel /\ config[s] = Unused
    BY DEF Pool!Init, Pool!Empty
  <2>2. QED BY <1>1, <2>1 DEF SlotKept, Pool!Stands, Pool!InUse
<1>5. QED BY <1>3, <1>4 DEF PoolInv

LEMMA PoolReports ==
  ASSUME Pool!DelayAssumption, PoolInv, NEW b \in Sources, NEW level \in BOOLEAN, Pool!SourceReports(b, level)
  PROVE  PoolInv'
<1>0. PoolTyped /\ \A s \in Slots : SlotKept(s) BY DEF PoolInv
<1> DEFINE fed == {s \in Slots : Pool!InUse(s) /\ config[s].source = b}
           new == {s \in fed : ~line[s].hasLevel \/ line[s].level # level}
<1>1. /\ source' = [source EXCEPT ![b] = level]
      /\ line' = [s \in Slots |-> IF s \in fed THEN Pool!FeedLine(line[s], config[s], level, clock) ELSE line[s]]
      /\ shown' = [s \in Slots |-> Pool!Shown(s, line'[s], s \in fed)]
      /\ stood' = [s \in Slots |-> IF s \in new THEN 0 ELSE stood[s]]
      /\ before' = [s \in Slots |-> IF s \in new THEN Pool!Stands(s) ELSE before[s]]
      /\ UNCHANGED <<clock, stalled, config, slotsFile, mounted>>
  BY DEF Pool!SourceReports
<1>2. ASSUME NEW s \in fed
      PROVE  /\ line'[s] \in Lines /\ line'[s].hasLevel
             /\ s \notin new => line'[s] = line[s] /\ line[s].hasLevel
             /\ s \in new => LineKept(line'[s], config[s], clock, stalled, 0, line'[s].output, line[s].output)
  <2>1. config[s] \in Pool!Settings(Sources \cup {Foreign}) /\ line[s] \in Lines /\ clock \in 0..(Modulus - 1)
        /\ stalled \in 0..MaxStall
    BY <1>0 DEF PoolTyped, Pool!Tables, Pool!InUse
  <2>2. line'[s] = Pool!FeedLine(line[s], config[s], level, clock) BY <1>1
  <2>3. /\ line'[s] \in Lines /\ line'[s].hasLevel
        /\ line[s].hasLevel /\ line[s].level = level => line'[s] = line[s]
        /\ ~line[s].hasLevel \/ line[s].level # level =>
             LineKept(line'[s], config[s], clock, stalled, 0, line'[s].output, line[s].output)
    BY <2>1, <2>2, FeedKeeps
  <2>4. QED BY <2>3
<1>3. ASSUME NEW s \in Slots \ fed
      PROVE  line'[s] = line[s] /\ shown'[s] = shown[s] /\ stood'[s] = stood[s] /\ before'[s] = before[s]
  BY <1>1 DEF Pool!Shown
<1>4. ASSUME NEW s \in fed
      PROVE  /\ shown'[s] = line'[s].output
             /\ stood'[s] = IF s \in new THEN 0 ELSE stood[s]
             /\ before'[s] = IF s \in new THEN line[s].output ELSE before[s]
  BY <1>0, <1>1 DEF Pool!Shown, SlotKept
<1>5. config' = config BY <1>1
<1> HIDE DEF fed, new
<1>5a. fed \subseteq Slots /\ new \subseteq fed BY DEF fed, new
<1>6. PoolTyped'
  <2>1. source' \in [Sources -> BOOLEAN \cup {NoLevel}] BY <1>0, <1>1 DEF PoolTyped
  <2>2. \A s \in Slots : line'[s] \in Lines BY <1>0, <1>2, <1>3 DEF PoolTyped
  <2>3. \A s \in Slots : line[s].output \in BOOLEAN /\ line'[s].output \in BOOLEAN
    BY <1>0, <2>2, LineFields DEF PoolTyped
  <2>4. \A s \in Slots : shown'[s] \in BOOLEAN \cup {NoLevel} BY <1>0, <1>3, <1>4, <2>3 DEF PoolTyped
  <2>5. \A s \in Slots : stood'[s] \in 0..Pool!Cap BY <1>0, <1>3, <1>4, PoolNumbers DEF PoolTyped
  <2>6. \A s \in Slots : before'[s] \in BOOLEAN
    <3>1. \A s \in Slots : before[s] \in BOOLEAN BY <1>0 DEF PoolTyped
    <3>2. QED BY <3>1, <1>3, <1>4, <2>3, Zenon
  <2>7. line' \in [Slots -> Lines] BY <1>1, <2>2
  <2>8. shown' \in [Slots -> BOOLEAN \cup {NoLevel}] BY <1>1, <2>4
  <2>9. stood' \in [Slots -> 0..Pool!Cap] BY <1>1, <2>5
  <2>10. before' \in [Slots -> BOOLEAN]
    <3>1. before' = [s \in Slots |-> before'[s]] BY <1>1
    <3>2. QED BY <3>1, <2>6, Zenon
  <2>11. QED BY <1>0, <1>1, <2>1, <2>7, <2>8, <2>9, <2>10 DEF PoolTyped
<1>7. ASSUME NEW s \in Slots PROVE SlotKept(s)'
  <2>1. CASE s \notin fed
    <3>1. UNCHANGED <<line[s], shown[s], stood[s], before[s], config, clock, stalled>> BY <1>1, <1>3, <2>1
    <3>2. SlotKept(s) BY <1>0
    <3>3. QED BY <3>1, <3>2 DEF SlotKept, Pool!Stands, Pool!InUse
  <2>2. CASE s \in fed
    <3>1. line'[s] \in Lines /\ line'[s].output \in BOOLEAN BY <1>2, <2>2, LineFields
    <3>2. Pool!Stands(s)' = line'[s].output
      <4>1. shown'[s] = line'[s].output BY <1>4, <2>2
      <4>2. shown'[s] # NoLevel BY <4>1, <3>1 DEF Pool!DelayAssumption
      <4>3. QED BY <4>1, <4>2 DEF Pool!Stands
    <3>3. Pool!InUse(s)' BY <2>2, <1>5 DEF fed, Pool!InUse
    <3>4. LineKept(line'[s], config'[s], clock', stalled', stood'[s], shown'[s], before'[s])
      <4>1. CASE s \in new BY <4>1, <1>1, <1>2, <1>4, <1>5, <2>2
      <4>2. CASE s \notin new
        <5>1. line'[s] = line[s] /\ line[s].hasLevel /\ stood'[s] = stood[s] /\ before'[s] = before[s]
              /\ shown'[s] = line[s].output
          BY <4>2, <1>2, <1>4, <2>2
        <5>2. LineKept(line[s], config[s], clock, stalled, stood[s], shown[s], before[s])
          BY <1>0, <5>1, <2>2 DEF SlotKept, fed
        <5>3. QED BY <5>1, <5>2, <1>1 DEF LineKept
      <4>3. QED BY <4>1, <4>2
    <3>5. QED BY <3>2, <3>3, <3>4 DEF SlotKept
  <2>3. QED BY <2>1, <2>2
<1>8. QED BY <1>6, <1>7 DEF PoolInv

LEMMA PoolTicks == ASSUME Pool!DelayAssumption, PoolInv, Pool!Millisecond PROVE PoolInv'
<1>0. PoolTyped /\ \A s \in Slots : SlotKept(s) BY DEF PoolInv
<1>1. /\ stalled < MaxStall /\ clock' = (clock + 1) % Modulus /\ stalled' = stalled + 1
      /\ stood' = [s \in Slots |-> IF line[s].hasLevel THEN Pool!Min({stood[s] + 1, Pool!Cap}) ELSE 0]
      /\ UNCHANGED <<source, config, line, shown, slotsFile, mounted, before>>
  BY DEF Pool!Millisecond
<1>2. MaxStall \in Nat /\ Modulus \in Nat \ {0} /\ Pool!Cap \in Nat BY PoolNumbers
<1>3. clock \in 0..(Modulus - 1) /\ stalled \in 0..MaxStall /\ stood \in [Slots -> 0..Pool!Cap] BY <1>0 DEF PoolTyped
<1>4. clock' \in 0..(Modulus - 1) BY <1>1, <1>2, <1>3
<1>5. \A s \in Slots : stood'[s] \in 0..Pool!Cap
  <2>1. SUFFICES ASSUME NEW s \in Slots PROVE stood'[s] \in 0..Pool!Cap OBVIOUS
  <2>2. stood[s] + 1 \in Nat BY <1>3
  <2>3. Pool!Min({stood[s] + 1, Pool!Cap}) \in 0..Pool!Cap BY <1>2, <2>2, SMT DEF Pool!Min
  <2>4. QED BY <1>1, <1>2, <2>3
<1>6. PoolTyped'
  <2>1. stood' \in [Slots -> 0..Pool!Cap] BY <1>1, <1>5
  <2>2. QED BY <1>0, <1>1, <1>2, <1>3, <1>4, <2>1 DEF PoolTyped
<1>7. ASSUME NEW s \in Slots PROVE SlotKept(s)'
  <2>1. SlotKept(s) BY <1>0
  <2>2. ASSUME Pool!InUse(s), line[s].hasLevel
        PROVE  LineKept(line[s], config[s], clock', stalled', stood'[s], shown[s], before[s])
    <3>1. config[s] \in Pool!Settings(Sources \cup {Foreign}) /\ line[s] \in Lines
      BY <1>0, <2>2 DEF PoolTyped, Pool!Tables, Pool!InUse
    <3>2. LineKept(line[s], config[s], clock, stalled, stood[s], shown[s], before[s]) BY <2>1, <2>2 DEF SlotKept
    <3>3. stood'[s] = Pool!Min({stood[s] + 1, Pool!Cap}) BY <1>1, <2>2
    <3>4. QED BY <1>1, <1>3, <3>1, <3>2, <3>3, MillisecondKeeps
  <2>3. QED BY <1>1, <2>1, <2>2 DEF SlotKept, Pool!Stands, Pool!InUse
<1>8. QED BY <1>6, <1>7 DEF PoolInv

LEMMA PoolPasses == ASSUME Pool!DelayAssumption, PoolInv, Pool!LoopPass PROVE PoolInv'
<1>0. PoolTyped /\ \A s \in Slots : SlotKept(s) BY DEF PoolInv
<1>1. /\ line' = [s \in Slots |-> IF Pool!InUse(s) THEN Pool!TickLine(line[s], config[s], clock) ELSE line[s]]
      /\ shown' = [s \in Slots |-> Pool!Shown(s, line'[s], line'[s].output # line[s].output)]
      /\ stalled' = 0
      /\ UNCHANGED <<clock, source, config, slotsFile, mounted, stood, before>>
  BY DEF Pool!LoopPass
<1>2. \A s \in Slots : line[s] \in Lines BY <1>0 DEF PoolTyped
<1>3. ASSUME NEW s \in Slots
      PROVE  line'[s] \in Lines /\ (line'[s].output # line[s].output => Pool!InUse(s))
             /\ line'[s].hasLevel = line[s].hasLevel
  <2>1. CASE Pool!InUse(s)
    <3>1. line'[s] = Pool!TickLine(line[s], config[s], clock) BY <1>1, <2>1
    <3>2. line'[s] = line[s] \/ (line'[s] \in Lines /\ line'[s].hasLevel = line[s].hasLevel) BY <3>1, <1>2, TickIs
    <3>3. QED BY <2>1, <3>2, <1>2
  <2>2. CASE ~Pool!InUse(s) BY <1>1, <1>2, <2>2
  <2>3. QED BY <2>1, <2>2
<1>4. \A s \in Slots : line[s].output \in BOOLEAN /\ line'[s].output \in BOOLEAN BY <1>2, <1>3, LineFields
<1>5. \A s \in Slots : shown'[s] = IF line'[s].output # line[s].output THEN line'[s].output ELSE shown[s]
  BY <1>1 DEF Pool!Shown
<1>6. PoolTyped'
  <2>1. line' \in [Slots -> Lines] BY <1>1, <1>3
  <2>2. \A s \in Slots : shown'[s] \in BOOLEAN \cup {NoLevel} BY <1>0, <1>4, <1>5 DEF PoolTyped
  <2>3. shown' \in [Slots -> BOOLEAN \cup {NoLevel}] BY <1>1, <2>2
  <2>4. stalled' \in 0..MaxStall BY <1>1, PoolNumbers
  <2>5. QED BY <1>0, <1>1, <2>1, <2>3, <2>4 DEF PoolTyped
<1>7. ASSUME NEW s \in Slots PROVE SlotKept(s)'
  <2>0. SlotKept(s) BY <1>0
  <2>1. Pool!Stands(s)' = line'[s].output
    <3>1. CASE line'[s].output = line[s].output BY <3>1, <1>5, <2>0 DEF SlotKept, Pool!Stands
    <3>2. CASE line'[s].output # line[s].output
      <4>1. shown'[s] = line'[s].output BY <3>2, <1>5
      <4>2. shown'[s] # NoLevel BY <4>1, <1>4 DEF Pool!DelayAssumption
      <4>3. QED BY <4>1, <4>2 DEF Pool!Stands
    <3>3. QED BY <3>1, <3>2
  <2>2. ASSUME Pool!InUse(s), line'[s].hasLevel
        PROVE  LineKept(line'[s], config[s], clock, 0, stood[s], shown'[s], before[s])
    <3>1. config[s] \in Pool!Settings(Sources \cup {Foreign}) /\ line[s] \in Lines /\ clock \in 0..(Modulus - 1)
          /\ stalled \in 0..MaxStall /\ stood[s] \in 0..Pool!Cap
      BY <1>0, <2>2 DEF PoolTyped, Pool!Tables, Pool!InUse
    <3>2. LineKept(line[s], config[s], clock, stalled, stood[s], shown[s], before[s])
      BY <2>0, <2>2, <1>3 DEF SlotKept
    <3>3. line'[s] = Pool!TickLine(line[s], config[s], clock) BY <1>1, <2>2
    <3>4. LineKept(line'[s], config[s], clock, 0, stood[s], line'[s].output, before[s])
      BY <3>1, <3>2, <3>3, TickKeeps
    <3>5. shown'[s] = line'[s].output BY <1>5, <3>2 DEF LineKept
    <3>6. QED BY <3>4, <3>5
  <2>3. ~Pool!InUse(s) => ~line'[s].output BY <1>1, <2>0 DEF SlotKept
  <2>4. QED BY <1>1, <2>1, <2>2, <2>3 DEF SlotKept, Pool!InUse
<1>8. QED BY <1>6, <1>7 DEF PoolInv

LEMMA PoolSaves ==
  ASSUME Pool!DelayAssumption, PoolInv, NEW s \in Slots, NEW c \in Configs[s], Pool!Save(s, c)
  PROVE  PoolInv'
<1>0. PoolTyped /\ \A i \in Slots : SlotKept(i) BY DEF PoolInv
<1>1. c \in Pool!Settings(Sources) /\ c \in Pool!Settings(Sources \cup {Foreign}) /\ c # Unused
  BY DEF Pool!DelayAssumption, Pool!Settings
<1>2. PICK l : l = IF Pool!InUse(s) THEN line[s] ELSE Pool!ResetLine OBVIOUS
<1>3. /\ line' = [line EXCEPT ![s] = Pool!LineStarted(l, c, clock)]
      /\ shown' = [shown EXCEPT ![s] = Pool!Shown(s, line'[s], source[c.source] # NoLevel)]
      /\ slotsFile' = [config EXCEPT ![s] = c] /\ config' = [config EXCEPT ![s] = c]
      /\ stood' = [stood EXCEPT ![s] = 0] /\ before' = [before EXCEPT ![s] = Pool!Stands(s)]
      /\ UNCHANGED <<clock, stalled, source, mounted>>
  BY <1>2 DEF Pool!Save
<1>4. 0 \in 0..(Modulus - 1) /\ 0 \in 0..Pool!Cap BY PoolNumbers
<1>5. l \in Lines /\ l.output \in BOOLEAN /\ Pool!Stands(s) = l.output
  <2>1. SlotKept(s) /\ line[s] \in Lines BY <1>0 DEF PoolTyped
  <2>2. CASE Pool!InUse(s) BY <1>2, <2>1, <2>2, LineFields DEF SlotKept
  <2>3. CASE ~Pool!InUse(s)
    <3>1. l \in Lines /\ l.output = FALSE BY <1>2, <1>4, <2>3 DEF Pool!ResetLine, Lines
    <3>2. line[s].output = FALSE BY <2>1, <2>3, LineFields DEF SlotKept
    <3>3. QED BY <3>1, <3>2, <2>1 DEF SlotKept
  <2>4. QED BY <2>2, <2>3
<1>6. PICK t : t = Pool!LineStarted(l, c, clock) OBVIOUS
<1>7. clock \in 0..(Modulus - 1) /\ stalled \in 0..MaxStall BY <1>0 DEF PoolTyped
<1>8. /\ t \in Lines
      /\ source[c.source] = NoLevel => ~t.hasLevel /\ t.output = l.output
      /\ source[c.source] # NoLevel => LineKept(t, c, clock, stalled, 0, t.output, l.output)
  BY <1>0, <1>1, <1>5, <1>6, <1>7, StartKeeps
<1>9. t.output \in BOOLEAN BY <1>8, LineFields
<1>10. /\ line'[s] = t /\ config'[s] = c /\ stood'[s] = 0 /\ before'[s] = l.output
       /\ shown'[s] = IF source[c.source] # NoLevel THEN t.output ELSE shown[s]
  <2>1. line'[s] = t /\ config'[s] = c /\ stood'[s] = 0 /\ before'[s] = l.output
    BY <1>0, <1>3, <1>5, <1>6 DEF PoolTyped, Pool!Tables
  <2>2. shown'[s] = Pool!Shown(s, line'[s], source[c.source] # NoLevel) BY <1>0, <1>3 DEF PoolTyped
  <2>3. QED BY <2>1, <2>2 DEF Pool!Shown
<1>11. ASSUME NEW i \in Slots, i # s
       PROVE  UNCHANGED <<line[i], config[i], shown[i], stood[i], before[i]>>
  BY <1>0, <1>3, <1>11 DEF PoolTyped, Pool!Tables
<1>12. PoolTyped'
  <2>1. line' \in [Slots -> Lines] BY <1>0, <1>3, <1>6, <1>8 DEF PoolTyped
  <2>2. config' \in Pool!Tables /\ slotsFile' \in Pool!Tables BY <1>0, <1>1, <1>3 DEF PoolTyped, Pool!Tables
  <2>3. shown'[s] \in BOOLEAN \cup {NoLevel} BY <1>0, <1>9, <1>10 DEF PoolTyped
  <2>4. shown' \in [Slots -> BOOLEAN \cup {NoLevel}]
    <3>1. shown' = [shown EXCEPT ![s] = shown'[s]] BY <1>0, <1>3 DEF PoolTyped
    <3>2. QED BY <1>0, <2>3, <3>1 DEF PoolTyped
  <2>5. stood' \in [Slots -> 0..Pool!Cap] BY <1>0, <1>3, <1>4 DEF PoolTyped
  <2>6. before' \in [Slots -> BOOLEAN]
    <3>1. Pool!Stands(s) \in BOOLEAN BY <1>5
    <3>2. QED BY <1>0, <1>3, <3>1 DEF PoolTyped
  <2>7. QED BY <1>0, <1>3, <2>1, <2>2, <2>4, <2>5, <2>6 DEF PoolTyped
<1>13. SlotKept(s)'
  <2>1. Pool!InUse(s)' BY <1>1, <1>10 DEF Pool!InUse
  <2>2. CASE source[c.source] = NoLevel
    <3>1. shown'[s] = shown[s] /\ t.output = l.output /\ ~line'[s].hasLevel BY <1>8, <1>10, <2>2
    <3>2. Pool!Stands(s)' = line'[s].output BY <3>1, <1>5, <1>10 DEF Pool!Stands
    <3>3. QED BY <2>1, <3>1, <3>2 DEF SlotKept
  <2>3. CASE source[c.source] # NoLevel
    <3>1. shown'[s] = t.output /\ shown'[s] # NoLevel BY <1>9, <1>10, <2>3 DEF Pool!DelayAssumption
    <3>2. Pool!Stands(s)' = line'[s].output BY <3>1, <1>10 DEF Pool!Stands
    <3>3. LineKept(line'[s], config'[s], clock', stalled', stood'[s], shown'[s], before'[s])
      BY <3>1, <1>3, <1>8, <1>10, <2>3
    <3>4. QED BY <2>1, <3>2, <3>3 DEF SlotKept
  <2>4. QED BY <2>2, <2>3
<1>14. ASSUME NEW i \in Slots, i # s PROVE SlotKept(i)'
  <2>1. SlotKept(i) BY <1>0
  <2>2. QED BY <2>1, <1>3, <1>11, <1>14 DEF SlotKept, Pool!Stands, Pool!InUse
<1>15. QED BY <1>12, <1>13, <1>14 DEF PoolInv

LEMMA PoolRemoves ==
  ASSUME Pool!DelayAssumption, PoolInv, NEW s \in Slots, Pool!Remove(s)
  PROVE  PoolInv'
<1>0. PoolTyped /\ \A i \in Slots : SlotKept(i) BY DEF PoolInv
<1>1. /\ line' = [line EXCEPT ![s] = Pool!ResetLine] /\ shown' = [shown EXCEPT ![s] = NoLevel]
      /\ slotsFile' = [config EXCEPT ![s] = Unused] /\ config' = [config EXCEPT ![s] = Unused]
      /\ stood' = [stood EXCEPT ![s] = 0] /\ before' = [before EXCEPT ![s] = FALSE]
      /\ UNCHANGED <<clock, stalled, source, mounted>>
  BY DEF Pool!Remove
<1>2. 0 \in 0..(Modulus - 1) /\ 0 \in 0..Pool!Cap BY PoolNumbers
<1>3. Pool!ResetLine \in Lines /\ Pool!ResetLine.output = FALSE BY <1>2 DEF Pool!ResetLine, Lines
<1>4. PoolTyped' BY <1>0, <1>1, <1>2, <1>3 DEF PoolTyped, Pool!Tables
<1>5. SlotKept(s)'
  <2>1. line'[s] = Pool!ResetLine /\ config'[s] = Unused /\ shown'[s] = NoLevel
    BY <1>0, <1>1 DEF PoolTyped, Pool!Tables
  <2>2. QED BY <1>3, <2>1 DEF SlotKept, Pool!Stands, Pool!InUse
<1>6. ASSUME NEW i \in Slots, i # s PROVE SlotKept(i)'
  <2>1. SlotKept(i) BY <1>0
  <2>2. UNCHANGED <<line[i], config[i], shown[i], stood[i], before[i]>>
    BY <1>0, <1>1, <1>6 DEF PoolTyped, Pool!Tables
  <2>3. QED BY <2>1, <2>2, <1>1 DEF SlotKept, Pool!Stands, Pool!InUse
<1>7. QED BY <1>4, <1>5, <1>6 DEF PoolInv

LEMMA PoolBoots ==
  ASSUME Pool!DelayAssumption, PoolInv, NEW f \in {slotsFile} \cup HandFiles, NEW mounts \in BOOLEAN, Pool!Reboot(f, mounts)
  PROVE  PoolInv'
<1>0. PoolTyped BY DEF PoolInv
<1>1. PICK pooled : pooled = IF mounts /\ f # BadFile THEN f ELSE Pool!Empty OBVIOUS
<1>2. /\ slotsFile' = f /\ config' = pooled /\ source' = [b \in Sources |-> NoLevel]
      /\ line' = [s \in Slots |-> Pool!ResetLine]
      /\ shown' = [s \in Slots |-> IF pooled[s] # Unused /\ pooled[s].source = Foreign THEN FALSE ELSE NoLevel]
      /\ clock' = 0 /\ stalled' = 0 /\ stood' = [s \in Slots |-> 0] /\ before' = [s \in Slots |-> FALSE]
  BY <1>1 DEF Pool!Reboot
<1>3. f \in Pool!Tables \cup {BadFile} BY <1>0 DEF PoolTyped, Pool!DelayAssumption
<1>4. pooled \in Pool!Tables
  <2>1. Pool!Empty \in Pool!Tables BY DEF Pool!Empty, Pool!Tables
  <2>2. QED BY <1>1, <1>3, <2>1
<1>5. 0 \in 0..(Modulus - 1) /\ 0 \in 0..Pool!Cap /\ 0 \in 0..MaxStall BY PoolNumbers
<1>6. Pool!ResetLine \in Lines /\ Pool!ResetLine.output = FALSE /\ ~Pool!ResetLine.hasLevel
  BY <1>5 DEF Pool!ResetLine, Lines
<1>7. PoolTyped' BY <1>2, <1>3, <1>4, <1>5, <1>6 DEF PoolTyped
<1>8. ASSUME NEW s \in Slots PROVE SlotKept(s)'
  <2>1. line'[s] = Pool!ResetLine /\ shown'[s] \in {FALSE, NoLevel} BY <1>2
  <2>2. Pool!Stands(s)' = FALSE BY <2>1 DEF Pool!Stands
  <2>3. QED BY <1>6, <2>1, <2>2 DEF SlotKept
<1>9. QED BY <1>7, <1>8 DEF PoolInv

LEMMA PoolStepKeeps == ASSUME Pool!DelayAssumption, PoolInv, [Pool!Next]_pool PROVE PoolInv'
<1>0. PoolTyped /\ \A s \in Slots : SlotKept(s) BY DEF PoolInv
<1>1. ASSUME NEW b \in Sources, Pool!SourceLost(b) PROVE PoolInv'
  <2>1. source' = [source EXCEPT ![b] = NoLevel]
        /\ UNCHANGED <<clock, stalled, config, line, shown, slotsFile, mounted, stood, before>>
    BY <1>1 DEF Pool!SourceLost
  <2>2. PoolTyped' BY <1>0, <2>1 DEF PoolTyped
  <2>3. \A s \in Slots : SlotKept(s)' BY <1>0, <2>1 DEF SlotKept, Pool!Stands, Pool!InUse
  <2>4. QED BY <2>2, <2>3 DEF PoolInv
<1>2. CASE UNCHANGED pool
  <2>1. PoolTyped' BY <1>0, <1>2 DEF PoolTyped, pool
  <2>2. \A s \in Slots : SlotKept(s)' BY <1>0, <1>2 DEF SlotKept, Pool!Stands, Pool!InUse, pool
  <2>3. QED BY <2>1, <2>2 DEF PoolInv
<1>3. QED BY <1>1, <1>2, PoolReports, PoolTicks, PoolPasses, PoolSaves, PoolRemoves, PoolBoots, Zenon DEF Pool!Next

(* What a line keeps is what its slot shows. *)
LEMMA PoolShows == ASSUME Pool!DelayAssumption, PoolInv PROVE DelaysKept
<1>1. SUFFICES ASSUME NEW s \in Slots, Pool!InUse(s), line[s].hasLevel PROVE Pool!DelayKept(s)
  BY DEF DelaysKept, Pool!DelaysKept
<1>2. LineKept(line[s], config[s], clock, stalled, stood[s], shown[s], before[s]) BY <1>1 DEF PoolInv, SlotKept
<1>3. config[s] \in Pool!Settings(Sources \cup {Foreign}) /\ line[s] \in Lines /\ stood[s] \in Int /\ stalled \in Int
  <2>1. PoolTyped BY DEF PoolInv
  <2>2. QED BY <1>1, <2>1, PoolNumbers DEF PoolTyped, Pool!Tables, Pool!InUse
<1>4. PICK delay \in Int : delay = Delay(line[s], config[s]) /\ delay = IF line[s].level THEN config[s].on ELSE config[s].off
  BY <1>3, DelayNumber DEF Delay
<1>5. CASE line[s].pending BY <1>2, <1>3, <1>4, <1>5 DEF LineKept, Pool!DelayKept
<1>6. CASE ~line[s].pending BY <1>2, <1>3, <1>4, <1>6 DEF LineKept, Pool!DelayKept
<1>7. QED BY <1>5, <1>6

LEMMA PoolAlone == [NextParts]_parts => [Pool!Next]_pool
BY DEF NextParts, FilesStep, PoolStep, BoundStep, NtpStep, CrashesStep, parts

(* A virtual input shows a level once it has stood for its delay, and what it  *)
(* showed before until then, whatever the clock's width, the pulses and the     *)
(* saves in between (DelayLine, on_source_, start_, loop).                      *)
THEOREM DelaysAlwaysKept == SpecParts => []DelaysKept
<1>0. Pool!DelayAssumption BY PartsAssumption
<1>1. InitParts => PoolInv BY <1>0, PoolInit DEF InitParts
<1>2. PoolInv /\ [NextParts]_parts => PoolInv' BY <1>0, PoolAlone, PoolStepKeeps
<1>3. PoolInv => DelaysKept BY <1>0, PoolShows
<1>4. QED BY <1>1, <1>2, <1>3, PTL DEF SpecParts
-----------------------------------------------------------------------------
(***************************************************************************)
(* The table of bindings.                                                  *)
(***************************************************************************)

(* A table has one entry of a relay. *)
Entries == [output : Bound!Relays, input : Inputs \cup Missing, mode : {"follow", "toggle"}]
OnePerRelay(t) == \A j, k \in DOMAIN t : t[j].output = t[k].output => j = k
GoodTables == {t \in Seq(Entries) : OnePerRelay(t)}

(* What a relay is bound to, in a table and by a record. *)
InForce(t, r) ==
  IF Bound!IndexOf(t, r) = 0 THEN Bound!Unbound
  ELSE Bound!Binding(t[Bound!IndexOf(t, r)].input, t[Bound!IndexOf(t, r)].mode)
Recorded(e) == IF Bound!Dropped(e) THEN Bound!Unbound ELSE e

LEMMA IndexFacts ==
  ASSUME NEW t \in GoodTables, NEW r
  PROVE  /\ Bound!IndexOf(t, r) = 0 => \A k \in DOMAIN t : t[k].output # r
         /\ Bound!IndexOf(t, r) # 0 => Bound!IndexOf(t, r) \in DOMAIN t /\ t[Bound!IndexOf(t, r)].output = r
         /\ \A k \in DOMAIN t : t[k].output = r => Bound!IndexOf(t, r) = k
<1> DEFINE I == {i \in 1..Len(t) : t[i].output = r}
<1>1. Len(t) \in Nat /\ DOMAIN t = 1..Len(t) BY DEF GoodTables
<1>2. Bound!IndexOf(t, r) = IF I # {} THEN Bound!Min(I) ELSE 0 BY DEF Bound!IndexOf, Bound!SelectInSeq
<1>3. CASE I = {} BY <1>1, <1>2, <1>3
<1>4. ASSUME NEW k \in I PROVE Bound!Min(I) = k
  <2>1. \A y \in I : y = k BY <1>1, <1>4 DEF GoodTables, OnePerRelay
  <2>2. \A y \in I : k <= y BY <2>1, <1>1
  <2>3. Bound!Min(I) \in I
    <3> HIDE DEF I
    <3>1. \E x \in I : \A y \in I : x <= y BY <2>2, <1>4
    <3>2. QED BY <3>1 DEF Bound!Min
  <2>4. QED BY <2>1, <2>3
<1>5. CASE I # {}
  <2>1. PICK k \in I : TRUE BY <1>5
  <2>2. Bound!IndexOf(t, r) = k BY <1>2, <1>4, <1>5
  <2>3. k \in DOMAIN t /\ k # 0 /\ t[k].output = r BY <1>1
  <2>4. \A j \in DOMAIN t : t[j].output = r => j = k BY <2>3 DEF GoodTables, OnePerRelay
  <2>5. QED BY <2>2, <2>3, <2>4
<1>6. QED BY <1>3, <1>5

LEMMA RemoveFacts ==
  ASSUME NEW S, NEW t \in Seq(S), NEW k \in 1..Len(t)
  PROVE  /\ Bound!RemoveAt(t, k) \in Seq(S)
         /\ Len(Bound!RemoveAt(t, k)) = Len(t) - 1
         /\ \A i \in 1..(Len(t) - 1) : Bound!RemoveAt(t, k)[i] = IF i < k THEN t[i] ELSE t[i + 1]
<1> DEFINE lower == SubSeq(t, 1, k - 1)
           upper == SubSeq(t, k + 1, Len(t))
<1>0. Len(t) \in Nat /\ \A i \in 1..Len(t) : t[i] \in S OBVIOUS
<1>1. /\ lower \in Seq(S) /\ Len(lower) = k - 1
      /\ \A i \in 1..(k - 1) : lower[i] = t[i]
  BY <1>0, SubSeqProperties
<1>2. /\ upper \in Seq(S) /\ Len(upper) = Len(t) - k
      /\ \A i \in 1..(Len(t) - k) : upper[i] = t[k + i]
  <2>1. \A i \in (k + 1)..Len(t) : t[i] \in S BY <1>0
  <2>2. /\ upper \in Seq(S) /\ Len(upper) = IF k + 1 <= Len(t) THEN Len(t) - (k + 1) + 1 ELSE 0
        /\ \A i \in 1..(Len(t) - (k + 1) + 1) : upper[i] = t[k + 1 + i - 1]
    BY <1>0, <2>1, SubSeqProperties
  <2> HIDE DEF upper, lower
  <2>3. QED BY <1>0, <2>2
<1>3. Bound!RemoveAt(t, k) = lower \o upper BY DEF Bound!RemoveAt
<1> HIDE DEF lower, upper
<1>4. /\ lower \o upper \in Seq(S) /\ Len(lower \o upper) = Len(t) - 1
      /\ \A i \in 1..(Len(t) - 1) : (lower \o upper)[i] = IF i <= k - 1 THEN lower[i] ELSE upper[i - (k - 1)]
  <2>1. k - 1 \in Nat /\ k - 1 + (Len(t) - k) = Len(t) - 1 BY <1>0
  <2>2. /\ lower \o upper \in Seq(S) /\ Len(lower \o upper) = Len(lower) + Len(upper)
        /\ \A i \in 1..(Len(lower) + Len(upper)) : (lower \o upper)[i] = IF i <= Len(lower) THEN lower[i] ELSE upper[i - Len(lower)]
    BY <1>1, <1>2, ConcatProperties
  <2>3. Len(lower) + Len(upper) = Len(t) - 1 BY <1>1, <1>2, <2>1
  <2>4. QED BY <1>1, <2>2, <2>3
<1>5. ASSUME NEW i \in 1..(Len(t) - 1)
      PROVE  (lower \o upper)[i] = IF i < k THEN t[i] ELSE t[i + 1]
  <2>1. CASE i < k BY <1>0, <1>1, <1>4, <2>1
  <2>2. CASE ~(i < k)
    <3>1. i - (k - 1) \in 1..(Len(t) - k) /\ k + (i - (k - 1)) = i + 1 BY <1>0, <2>2
    <3>2. QED BY <1>0, <1>2, <1>4, <2>2, <3>1
  <2>3. QED BY <2>1, <2>2
<1>6. QED BY <1>3, <1>4, <1>5

(* A relay whose entries two tables share is bound alike in both. *)
LEMMA SameInForce ==
  ASSUME NEW t \in GoodTables, NEW u \in GoodTables, NEW r,
         \A k \in DOMAIN t : t[k].output = r => \E j \in DOMAIN u : u[j] = t[k],
         \A j \in DOMAIN u : u[j].output = r => \E k \in DOMAIN t : t[k] = u[j]
  PROVE  InForce(u, r) = InForce(t, r)
<1>1. CASE Bound!IndexOf(t, r) = 0
  <2>1. Bound!IndexOf(u, r) = 0 BY <1>1, IndexFacts
  <2>2. QED BY <1>1, <2>1 DEF InForce
<1>2. CASE Bound!IndexOf(t, r) # 0
  <2>1. PICK k \in DOMAIN t : k = Bound!IndexOf(t, r) /\ t[k].output = r BY <1>2, IndexFacts
  <2>2. PICK j \in DOMAIN u : u[j] = t[k] BY <2>1
  <2>3. Bound!IndexOf(u, r) = j BY <2>1, <2>2, IndexFacts
  <2>4. j # 0 BY DEF GoodTables
  <2>5. QED BY <1>2, <2>1, <2>2, <2>3, <2>4 DEF InForce
<1>3. QED BY <1>1, <1>2

LEMMA InForceEntry ==
  ASSUME NEW t \in GoodTables, NEW k \in DOMAIN t
  PROVE  InForce(t, t[k].output) = Bound!Binding(t[k].input, t[k].mode)
<1>1. Bound!IndexOf(t, t[k].output) = k BY IndexFacts
<1>2. k # 0 BY DEF GoodTables
<1>3. QED BY <1>1, <1>2 DEF InForce

EntryOf(r, e) == [output |-> r, input |-> e.input, mode |-> e.mode]

LEMMA EntryFacts ==
  ASSUME NEW r \in Bound!Relays, NEW e \in Bound!Settings, ~Bound!Dropped(e)
  PROVE  EntryOf(r, e) \in Entries /\ Bound!Binding(EntryOf(r, e).input, EntryOf(r, e).mode) = e
BY DEF EntryOf, Entries, Bound!Settings, Bound!Dropped, Bound!Binding

(* How set_binding changes the table, in its four cases. *)
LEMMA SetCases ==
  ASSUME NEW t \in GoodTables, NEW r \in Bound!Relays, NEW e \in Bound!Settings
  PROVE  LET u == Bound!TableWith(t, r, e)
             k == Bound!IndexOf(t, r)
         IN \/ Bound!Dropped(e) /\ k = 0 /\ u = t
            \/ Bound!Dropped(e) /\ k # 0 /\ u = Bound!RemoveAt(t, k)
            \/ ~Bound!Dropped(e) /\ k = 0 /\ u = Append(t, EntryOf(r, e))
            \/ ~Bound!Dropped(e) /\ k # 0 /\ u = [t EXCEPT ![k] = EntryOf(r, e)]
BY DEF Bound!TableWith, EntryOf

(* A binding set leaves the places of the others, unless one is removed. *)
LEMMA SetPlaces ==
  ASSUME NEW t \in GoodTables, NEW r \in Bound!Relays, NEW e \in Bound!Settings,
         NEW u, u = Bound!TableWith(t, r, e), Bound!Dropped(e) => Bound!IndexOf(t, r) = 0
  PROVE  /\ u \in GoodTables
         /\ DOMAIN t \subseteq DOMAIN u
         /\ \A k \in DOMAIN t : t[k].output # r => u[k] = t[k]
         /\ \A k \in DOMAIN u : u[k].output # r => k \in DOMAIN t /\ t[k] = u[k]
         /\ \A k \in DOMAIN u : u[k].output = r => ~Bound!Dropped(e) /\ u[k] = EntryOf(r, e)
         /\ ~Bound!Dropped(e) => \E k \in DOMAIN u : u[k] = EntryOf(r, e)
<1> DEFINE x == EntryOf(r, e)
<1>0. t \in Seq(Entries) /\ OnePerRelay(t) /\ Len(t) \in Nat /\ DOMAIN t = 1..Len(t) BY DEF GoodTables
<1>1. CASE Bound!Dropped(e)
  <2>1. u = t /\ Bound!IndexOf(t, r) = 0 BY <1>1, SetCases
  <2>2. QED BY <1>1, <2>1, IndexFacts
<1>2. CASE ~Bound!Dropped(e)
  <2>0. x \in Entries /\ x.output = r BY <1>2, EntryFacts DEF EntryOf
  <2> HIDE DEF x
  <2>1. CASE Bound!IndexOf(t, r) = 0
    <3>1. u = Append(t, x) BY <1>2, <2>1, SetCases DEF x
    <3>2. \A k \in DOMAIN t : t[k].output # r BY <2>1, IndexFacts
    <3>3. u \in Seq(Entries) /\ Len(u) = Len(t) + 1 /\ DOMAIN u = 1..(Len(t) + 1) BY <1>0, <2>0, <3>1
    <3>4. \A k \in DOMAIN u : u[k] = IF k = Len(t) + 1 THEN x ELSE t[k] BY <1>0, <2>0, <3>1, <3>3
    <3>5. OnePerRelay(u) BY <1>0, <2>0, <3>2, <3>3, <3>4 DEF OnePerRelay
    <3>6. u \in GoodTables BY <3>3, <3>5 DEF GoodTables
    <3>7. \A k \in DOMAIN t : k \in DOMAIN u /\ u[k] = t[k] BY <1>0, <3>3, <3>4
    <3>8. Len(t) + 1 \in DOMAIN u /\ u[Len(t) + 1] = x BY <1>0, <3>3, <3>4
    <3>9. \A k \in DOMAIN u : k \notin DOMAIN t => k = Len(t) + 1 BY <1>0, <3>3
    <3>10. QED BY <1>2, <2>0, <3>2, <3>6, <3>7, <3>8, <3>9 DEF x
  <2>2. CASE Bound!IndexOf(t, r) # 0
    <3>1. PICK i \in DOMAIN t : i = Bound!IndexOf(t, r) /\ t[i].output = r /\ \A k \in DOMAIN t : t[k].output = r => k = i
      BY <2>2, IndexFacts
    <3>2. u = [t EXCEPT ![i] = x] BY <1>2, <2>2, <3>1, SetCases DEF x
    <3>3. u \in Seq(Entries) /\ DOMAIN u = DOMAIN t BY <1>0, <2>0, <3>2
    <3>4. \A k \in DOMAIN u : u[k] = IF k = i THEN x ELSE t[k] BY <1>0, <3>2, <3>3
    <3>5. OnePerRelay(u) BY <1>0, <2>0, <3>1, <3>3, <3>4 DEF OnePerRelay
    <3>6. u \in GoodTables BY <3>3, <3>5 DEF GoodTables
    <3>7. QED BY <1>2, <2>0, <3>1, <3>3, <3>4, <3>6 DEF x
  <2>3. QED BY <2>1, <2>2
<1>3. QED BY <1>1, <1>2

LEMMA SetInForce ==
  ASSUME NEW t \in GoodTables, NEW r \in Bound!Relays, NEW e \in Bound!Settings, NEW u, u = Bound!TableWith(t, r, e)
  PROVE  /\ u \in GoodTables
         /\ InForce(u, r) = Recorded(e)
         /\ \A q \in Bound!Relays \ {r} : InForce(u, q) = InForce(t, q)
<1>0. t \in Seq(Entries) /\ OnePerRelay(t) /\ Len(t) \in Nat /\ DOMAIN t = 1..Len(t) BY DEF GoodTables
<1>1. CASE Bound!Dropped(e) => Bound!IndexOf(t, r) = 0
  <2>1. /\ u \in GoodTables
        /\ \A k \in DOMAIN t : t[k].output # r => k \in DOMAIN u /\ u[k] = t[k]
        /\ \A k \in DOMAIN u : u[k].output # r => k \in DOMAIN t /\ t[k] = u[k]
        /\ \A k \in DOMAIN u : u[k].output = r => ~Bound!Dropped(e) /\ u[k] = EntryOf(r, e)
        /\ ~Bound!Dropped(e) => \E k \in DOMAIN u : u[k] = EntryOf(r, e)
    BY <1>1, SetPlaces
  <2>2. \A q \in Bound!Relays \ {r} : InForce(u, q) = InForce(t, q) BY <2>1, SameInForce
  <2>3. CASE Bound!Dropped(e)
    <3>1. Bound!IndexOf(u, r) = 0 BY <2>1, <2>3, IndexFacts
    <3>2. QED BY <2>1, <2>2, <2>3, <3>1 DEF InForce, Recorded
  <2>4. CASE ~Bound!Dropped(e)
    <3>1. PICK k \in DOMAIN u : u[k] = EntryOf(r, e) BY <2>1, <2>4
    <3>2. u[k].output = r BY <3>1 DEF EntryOf
    <3>3. InForce(u, r) = Bound!Binding(u[k].input, u[k].mode) BY <2>1, <3>2, InForceEntry
    <3>4. InForce(u, r) = e BY <2>4, <3>1, <3>3, EntryFacts
    <3>5. QED BY <2>1, <2>2, <2>4, <3>4 DEF Recorded
  <2>5. QED BY <2>3, <2>4
<1>2. CASE Bound!Dropped(e) /\ Bound!IndexOf(t, r) # 0
  <2>1. PICK i \in DOMAIN t : i = Bound!IndexOf(t, r) /\ t[i].output = r /\ \A k \in DOMAIN t : t[k].output = r => k = i
    BY <1>2, IndexFacts
  <2>2. u = Bound!RemoveAt(t, i) BY <1>2, <2>1, SetCases
  <2>3. /\ u \in Seq(Entries) /\ Len(u) = Len(t) - 1
        /\ \A k \in 1..(Len(t) - 1) : u[k] = IF k < i THEN t[k] ELSE t[k + 1]
    BY <1>0, <2>2, RemoveFacts
  <2>4. DOMAIN u = 1..(Len(t) - 1) BY <2>3
  <2> DEFINE was(k) == IF k < i THEN k ELSE k + 1
  <2>5. \A k \in DOMAIN u : was(k) \in DOMAIN t /\ was(k) # i /\ u[k] = t[was(k)] BY <1>0, <2>1, <2>3, <2>4
  <2>6. \A j, k \in DOMAIN u : was(j) = was(k) => j = k BY <1>0, <2>1, <2>4
  <2>7. \A k \in DOMAIN t : k # i => \E j \in DOMAIN u : was(j) = k
    <3>1. SUFFICES ASSUME NEW k \in DOMAIN t, k # i PROVE \E j \in DOMAIN u : was(j) = k OBVIOUS
    <3>2. CASE k < i
      <4>1. k \in DOMAIN u /\ was(k) = k BY <1>0, <2>1, <2>4, <3>2
      <4>2. QED BY <4>1
    <3>3. CASE k > i
      <4>1. k - 1 \in DOMAIN u /\ was(k - 1) = k BY <1>0, <2>1, <2>4, <3>3
      <4>2. QED BY <4>1
    <3>4. QED BY <1>0, <3>1, <3>2, <3>3
  <2> HIDE DEF was
  <2>8. OnePerRelay(u) BY <1>0, <2>5, <2>6 DEF OnePerRelay
  <2>9. u \in GoodTables BY <2>3, <2>8 DEF GoodTables
  <2>10. \A k \in DOMAIN u : u[k].output # r BY <2>1, <2>5
  <2>11. Bound!IndexOf(u, r) = 0 BY <2>9, <2>10, IndexFacts
  <2>12. InForce(u, r) = Recorded(e) BY <1>2, <2>11 DEF InForce, Recorded
  <2>13. \A k \in DOMAIN t : t[k].output # r => \E j \in DOMAIN u : u[j] = t[k] BY <2>1, <2>5, <2>7
  <2>14. \A j \in DOMAIN u : \E k \in DOMAIN t : t[k] = u[j] BY <2>5
  <2>15. \A q \in Bound!Relays \ {r} : InForce(u, q) = InForce(t, q) BY <2>9, <2>13, <2>14, SameInForce
  <2>16. QED BY <2>9, <2>12, <2>15
<1>3. QED BY <1>1, <1>2
-----------------------------------------------------------------------------
(* Records applied one after the other: a recursion over the relays, told by  *)
(* the first relay at which it would fail.                                      *)
LEMMA LeastOf == ASSUME NEW S, S \subseteq Nat, S # {} PROVE \E m \in S : \A x \in S : m <= x
<1>1. PICK m \in S : \A x \in S : <<x, m>> \notin OpToRel(<, Nat) BY NatLessThanWellFounded, WFMin
<1>2. \A x \in S : ~(x < m) BY <1>1 DEF OpToRel
<1>3. \A x \in S : m <= x BY <1>2
<1>4. QED BY <1>3

AfterRelay(f, t, rs, es, r) ==
  IF r = 0 THEN t ELSE IF r \in rs THEN Bound!TableWith(f[r - 1], r, es[r]) ELSE f[r - 1]
AllTables(t, rs, es) == CHOOSE f : f = [r \in 0..NRelays |-> AfterRelay(f, t, rs, es, r)]

LEMMA TablesRun ==
  ASSUME NEW t, NEW rs, NEW es
  PROVE  Bound!TablesWith(t, rs, es) = AllTables(t, rs, es)[NRelays]
BY DEF Bound!TablesWith, AllTables, AfterRelay

LEMMA OneMoreRelay ==
  ASSUME NRelays \in Nat, NEW t \in GoodTables, NEW rs \in SUBSET Bound!Relays, NEW es \in [Bound!Relays -> Bound!Settings],
         NEW f, NEW r \in 1..NRelays, f[r - 1] \in GoodTables
  PROVE  AfterRelay(f, t, rs, es, r) \in GoodTables
<1>1. r # 0 /\ r \in Bound!Relays /\ es[r] \in Bound!Settings BY DEF Bound!Relays
<1>2. CASE r \in rs BY <1>1, <1>2, SetInForce DEF AfterRelay
<1>3. CASE r \notin rs BY <1>1, <1>3 DEF AfterRelay
<1>4. QED BY <1>2, <1>3

LEMMA TablesDefined ==
  ASSUME NRelays \in Nat, NEW t \in GoodTables, NEW rs \in SUBSET Bound!Relays, NEW es \in [Bound!Relays -> Bound!Settings]
  PROVE  \E f \in [0..NRelays -> GoodTables] : \A r \in 0..NRelays : f[r] = AfterRelay(f, t, rs, es, r)
<1> DEFINE Upto(f, n) == \A r \in 0..n : f[r] = AfterRelay(f, t, rs, es, r)
           bad == {n \in 0..NRelays : ~\E f \in [0..NRelays -> GoodTables] : Upto(f, n)}
<1>1. ASSUME bad # {} PROVE FALSE
  <2>1. bad \subseteq Nat OBVIOUS
  <2>2. PICK n \in bad : \A m \in bad : n <= m
    <3> HIDE DEF bad
    <3>1. QED BY <1>1, <2>1, LeastOf
  <2>3. n \in 0..NRelays /\ ~\E f \in [0..NRelays -> GoodTables] : Upto(f, n) OBVIOUS
  <2>4. n # 0
    <3>1. [r \in 0..NRelays |-> t] \in [0..NRelays -> GoodTables] OBVIOUS
    <3>2. Upto([r \in 0..NRelays |-> t], 0) BY DEF AfterRelay
    <3> HIDE DEF Upto
    <3>3. QED BY <2>3, <3>1, <3>2
  <2>5. n - 1 \in 0..NRelays /\ n - 1 \notin bad
    <3> HIDE DEF bad
    <3>1. QED BY <2>2, <2>3, <2>4
  <2>6. PICK f \in [0..NRelays -> GoodTables] : Upto(f, n - 1)
    <3> HIDE DEF Upto
    <3>1. QED BY <2>5
  <2>7. PICK u \in GoodTables : u = AfterRelay(f, t, rs, es, n)
    <3>1. n \in 1..NRelays /\ f[n - 1] \in GoodTables BY <2>3, <2>4
    <3>2. QED BY <3>1, OneMoreRelay
  <2>8. PICK g \in [0..NRelays -> GoodTables] : g = [f EXCEPT ![n] = u] OBVIOUS
  <2>9. g[n] = u /\ \A r \in 0..NRelays : r # n => g[r] = f[r] BY <2>3, <2>8
  <2>10. ASSUME NEW r \in 0..n PROVE AfterRelay(g, t, rs, es, r) = AfterRelay(f, t, rs, es, r)
    <3>1. r = 0 \/ g[r - 1] = f[r - 1] BY <2>3, <2>9
    <3>2. QED BY <3>1 DEF AfterRelay
  <2>11. Upto(g, n)
    <3>1. \A r \in 0..n : r # n => r \in 0..(n - 1) BY <2>3
    <3>2. \A r \in 0..n : r \in 0..NRelays BY <2>3
    <3>3. QED BY <2>6, <2>7, <2>9, <2>10, <3>1, <3>2
  <2>12. QED
    <3> HIDE DEF Upto
    <3>1. QED BY <2>3, <2>11
<1>2. NRelays \notin bad
  <2> HIDE DEF bad
  <2>1. QED BY <1>1
<1>3. PICK f \in [0..NRelays -> GoodTables] : Upto(f, NRelays)
  <2> HIDE DEF Upto
  <2>1. QED BY <1>2
<1>4. QED BY <1>3

(* The relays named are bound as their records say, the others as they were.  *)
LEMMA TablesInForce ==
  ASSUME NRelays \in Nat, NEW t \in GoodTables, NEW rs \in SUBSET Bound!Relays, NEW es \in [Bound!Relays -> Bound!Settings]
  PROVE  /\ Bound!TablesWith(t, rs, es) \in GoodTables
         /\ \A q \in Bound!Relays :
              InForce(Bound!TablesWith(t, rs, es), q) = IF q \in rs THEN Recorded(es[q]) ELSE InForce(t, q)
<1> DEFINE all == AllTables(t, rs, es)
<1>1. \A r \in 0..NRelays : all[r] = AfterRelay(all, t, rs, es, r)
  <2>1. PICK f \in [0..NRelays -> GoodTables] : \A r \in 0..NRelays : f[r] = AfterRelay(f, t, rs, es, r)
    BY TablesDefined
  <2>2. f = [r \in 0..NRelays |-> AfterRelay(f, t, rs, es, r)] BY <2>1, Zenon
  <2>3. all = [r \in 0..NRelays |-> AfterRelay(all, t, rs, es, r)] BY <2>2, Zenon DEF AllTables
  <2>4. QED BY <2>3, Zenon
<1> HIDE DEF all
<1> DEFINE Good(n) == /\ all[n] \in GoodTables
                      /\ \A q \in Bound!Relays : InForce(all[n], q) = IF q \in rs /\ q <= n THEN Recorded(es[q]) ELSE InForce(t, q)
           bad == {n \in 0..NRelays : ~Good(n)}
<1>2. ASSUME bad # {} PROVE FALSE
  <2>1. bad \subseteq Nat OBVIOUS
  <2>2. PICK n \in bad : \A m \in bad : n <= m
    <3> HIDE DEF bad
    <3>1. QED BY <1>2, <2>1, LeastOf
  <2>3. n \in 0..NRelays /\ ~Good(n) OBVIOUS
  <2>4. n # 0
    <3>1. all[0] = t BY <1>1 DEF AfterRelay
    <3>2. \A q \in Bound!Relays : ~(q <= 0) BY DEF Bound!Relays
    <3>3. Good(0) BY <3>1, <3>2
    <3> HIDE DEF Good
    <3>4. QED BY <2>3, <3>3
  <2>5. n - 1 \in 0..NRelays /\ Good(n - 1)
    <3>1. n - 1 \in 0..NRelays /\ n - 1 \notin bad
      <4> HIDE DEF bad
      <4>1. QED BY <2>2, <2>3, <2>4
    <3> HIDE DEF Good
    <3>2. QED BY <3>1
  <2>6. n \in Bound!Relays /\ es[n] \in Bound!Settings BY <2>3, <2>4 DEF Bound!Relays
  <2>7. \A q \in Bound!Relays : q # n => (q <= n <=> q <= n - 1) BY <2>3 DEF Bound!Relays
  <2>8. CASE n \in rs
    <3>1. all[n] = Bound!TableWith(all[n - 1], n, es[n]) BY <1>1, <2>3, <2>4, <2>8 DEF AfterRelay
    <3>2. all[n] \in GoodTables /\ InForce(all[n], n) = Recorded(es[n])
          /\ \A q \in Bound!Relays \ {n} : InForce(all[n], q) = InForce(all[n - 1], q)
      BY <2>5, <2>6, <3>1, SetInForce
    <3>3. n <= n BY <2>3
    <3>4. Good(n) BY <2>5, <2>7, <2>8, <3>2, <3>3
    <3>5. QED BY <2>3, <3>4
  <2>9. CASE n \notin rs
    <3>1. all[n] = all[n - 1] BY <1>1, <2>3, <2>4, <2>9 DEF AfterRelay
    <3>2. Good(n) BY <2>5, <2>7, <2>9, <3>1
    <3>3. QED BY <2>3, <3>2
  <2>10. QED BY <2>8, <2>9
<1>3. Good(NRelays)
  <2> HIDE DEF Good
  <2>1. QED BY <1>2
<1>4. \A q \in Bound!Relays : q <= NRelays BY DEF Bound!Relays
<1>5. QED BY <1>3, <1>4, TablesRun DEF all

LEMMA NoneInForce == <<>> \in GoodTables /\ \A r : InForce(<<>>, r) = Bound!Unbound
<1>1. <<>> \in GoodTables BY DEF GoodTables, OnePerRelay
<1>2. \A r : Bound!IndexOf(<<>>, r) = 0 BY <1>1, IndexFacts
<1>3. QED BY <1>1, <1>2 DEF InForce
-----------------------------------------------------------------------------
(***************************************************************************)
(* The invariant of the bindings.                                          *)
(***************************************************************************)
Walks ==
  [kind : {"setup", "input"}, input : Inputs \cup {NoInput}, level : BOOLEAN, rising : BOOLEAN, next : Nat \ {0}]

BoundTyped ==
  /\ state \in [Inputs -> BOOLEAN \cup {NoLevel}] /\ relay \in [Bound!Relays -> BOOLEAN]
  /\ table \in GoodTables /\ stack \in Seq(Walks) /\ started \in {"off", "boot", "up"}
  /\ held \subseteq Bound!Relays /\ due \in [Bound!Relays -> BOOLEAN \cup {NoLevel}]

RecordsTyped ==
  /\ record \in [Bound!Relays -> Bound!Settings] /\ flip \in [Inputs -> BOOLEAN]
  /\ \A type \in Bound!Types : recordsFile[type] \in Bound!Contents[type] \cup {BadFile}

(* Whoever drives a relay is listened to, and a mark is taken in the step that *)
(* leaves it.                                                                   *)
Listened ==
  /\ \A k \in DOMAIN table : table[k].input \in Inputs => table[k].input \in listening
  /\ marks = [b \in Inputs |-> 0]

(* A boot walks once; then each walk is of an input of its own, with the level *)
(* that input shows.                                                            *)
OfInput(w) == w.kind = "input" /\ w.input \in Inputs /\ state[w.input] = w.level
OneWalkPerInput ==
  /\ started = "off" => stack = <<>> /\ table = <<>>
  /\ started = "boot" => \A j \in DOMAIN stack : j = 1 /\ stack[j].kind = "setup" /\ ~stack[j].rising
  /\ started = "up" => \A j \in DOMAIN stack : OfInput(stack[j])
  /\ started = "up" => \A i, j \in DOMAIN stack : stack[i].input = stack[j].input => i = j

(* A follower is as its input, or a walk has yet to reach it. *)
Reaches(w, k) == w.next <= k /\ (w.kind = "setup" \/ w.input = table[k].input)
FollowComes(k) == \E j \in DOMAIN stack : Reaches(stack[j], k)
Follower(k) ==
  /\ table[k].mode = "follow" /\ table[k].input \in Inputs /\ state[table[k].input] # NoLevel
  /\ table[k].output \notin held /\ table[k].output \notin handed
Copied(k) == relay[table[k].output] = state[table[k].input]
FollowersCopy ==
  started = "up" \/ stack # <<>> => \A k \in DOMAIN table : Follower(k) => Copied(k) \/ FollowComes(k)

(* A toggle is as its presses make it, or a walk with one has yet to reach it. *)
PressComes(k) == \E j \in DOMAIN stack : stack[j].next <= k /\ stack[j].rising /\ stack[j].input = table[k].input
Pressed(k) == table[k].mode = "toggle" /\ due[table[k].output] # NoLevel
Flips(k) == table[k].output \notin held /\ PressComes(k)
TogglesFlip ==
  \A k \in DOMAIN table : Pressed(k) => (relay[table[k].output] = due[table[k].output] <=> ~Flips(k))

(* What is in force is what the records say, and what is not dirty is on flash *)
(* or the flash is bad; a type is left dirty with no save scheduled only if it  *)
(* failed.                                                                      *)
InForceRecorded == started # "off" => \A r \in Bound!Relays : InForce(table, r) = Recorded(record[r])
WrittenUnlessDirty ==
  started # "off" => /\ \A type \in Bound!Types \ dirty : recordsFile[type] \in {Bound!Records[type], BadFile}
                     /\ ~pending => dirty \subseteq failed

(* The records alone, whatever the walks do. *)
KeptInv ==
  /\ table \in GoodTables /\ started \in {"off", "boot", "up"} /\ (started = "off" => stack = <<>>)
  /\ RecordsTyped /\ InForceRecorded /\ WrittenUnlessDirty

BoundInv == BoundTyped /\ Listened /\ OneWalkPerInput /\ FollowersCopy /\ TogglesFlip
-----------------------------------------------------------------------------
LEMMA BoundNumbers ==
  ASSUME Bound!BindingsAssumption
  PROVE  /\ NRelays \in Nat /\ Heated \subseteq Bound!Relays /\ NoLevel \notin BOOLEAN
         /\ NoInput \notin Inputs /\ NoInput \notin Missing
         /\ \A r \in Bound!Relays : Bindables[r] \subseteq Bound!Settings
BY DEF Bound!BindingsAssumption

LEMMA AppendFacts ==
  ASSUME NEW S, NEW s \in Seq(S), NEW x \in S
  PROVE  /\ Append(s, x) \in Seq(S) /\ DOMAIN Append(s, x) = DOMAIN s \cup {Len(s) + 1}
         /\ Append(s, x)[Len(s) + 1] = x /\ \A j \in DOMAIN s : Append(s, x)[j] = s[j]
         /\ Len(s) + 1 \notin DOMAIN s
OBVIOUS

LEMMA EntryFields ==
  ASSUME NEW t \in GoodTables, NEW k \in DOMAIN t
  PROVE  /\ t[k].output \in Bound!Relays /\ t[k].mode \in {"follow", "toggle"}
         /\ t[k].input \in Inputs \cup Missing /\ k \in Nat /\ k >= 1
         /\ \A j \in DOMAIN t : t[j].output = t[k].output => j = k
<1>1. t \in Seq(Entries) /\ OnePerRelay(t) BY DEF GoodTables
<1>2. t[k] \in Entries /\ k \in Nat /\ k >= 1 BY <1>1
<1>3. QED BY <1>1, <1>2 DEF Entries, OnePerRelay

(* Between the walks a follower is as its input, a toggle as its presses. *)
LEMMA StillExact ==
  ASSUME BoundInv, stack = <<>>
  PROVE  /\ started = "up" => \A k \in DOMAIN table : Follower(k) => Copied(k)
         /\ \A k \in DOMAIN table : Pressed(k) => relay[table[k].output] = due[table[k].output]
<1>1. DOMAIN stack = {} OBVIOUS
<1>2. \A k \in DOMAIN table : ~FollowComes(k) /\ ~PressComes(k) BY <1>1 DEF FollowComes, PressComes
<1>3. \A k \in DOMAIN table : ~Flips(k) BY <1>2 DEF Flips
<1>4. QED BY <1>2, <1>3 DEF BoundInv, FollowersCopy, TogglesFlip

(* An entry another table has for the same relay. *)
LEMMA EntryBack ==
  ASSUME NEW t \in GoodTables, NEW u \in GoodTables, NEW k \in DOMAIN u,
         InForce(u, u[k].output) = InForce(t, u[k].output)
  PROVE  \E j \in DOMAIN t : t[j] = u[k]
<1> DEFINE q == u[k].output
<1>1. InForce(u, q) = Bound!Binding(u[k].input, u[k].mode) BY InForceEntry
<1>2. u[k].mode # "none" BY EntryFields
<1>3. Bound!IndexOf(t, q) # 0 BY <1>1, <1>2 DEF InForce, Bound!Unbound, Bound!Binding
<1>4. PICK j \in DOMAIN t : j = Bound!IndexOf(t, q) /\ t[j].output = q BY <1>3, IndexFacts
<1>5. Bound!Binding(t[j].input, t[j].mode) = Bound!Binding(u[k].input, u[k].mode) BY <1>1, <1>3, <1>4 DEF InForce
<1>6. t[j].input = u[k].input /\ t[j].mode = u[k].mode BY <1>5 DEF Bound!Binding
<1>7. t[j] \in Entries /\ u[k] \in Entries BY DEF GoodTables
<1>8. QED BY <1>4, <1>6, <1>7 DEF Entries
-----------------------------------------------------------------------------
(* The records: most steps leave them as they are. *)
LEMMA KeptSame ==
  ASSUME KeptInv, UNCHANGED <<table, record, flip, dirty, pending, recordsFile, failed>>,
         started # "off" \/ (started' = started /\ stack' = stack), started' \in {started, "up"}
  PROVE  KeptInv'
<1>1. started' # "off" => started # "off" BY DEF KeptInv
<1>2. started' \in {"off", "boot", "up"} /\ (started' = "off" => stack' = <<>>) BY DEF KeptInv
<1>3. RecordsTyped' BY DEF KeptInv, RecordsTyped
<1>4. InForceRecorded' BY <1>1 DEF KeptInv, InForceRecorded
<1>5. WrittenUnlessDirty' BY <1>1 DEF KeptInv, WrittenUnlessDirty, Bound!Records
<1>6. QED BY <1>2, <1>3, <1>4, <1>5 DEF KeptInv

LEMMA SwitchDirty ==
  ASSUME KeptInv, started = "up", started' = "up", dirty' = dirty \cup {"switch"}, pending' = TRUE,
         UNCHANGED <<flip, recordsFile>>
  PROVE  WrittenUnlessDirty'
BY DEF KeptInv, WrittenUnlessDirty, Bound!Records, Bound!Types

LEMMA InvertKept == ASSUME KeptInv, NEW b \in Inputs, Bound!Invert(b) PROVE KeptInv'
<1>1. /\ started = "up" /\ flip' = [flip EXCEPT ![b] = ~@]
      /\ dirty' = dirty \cup {"binary_sensor"} /\ pending' = TRUE
      /\ UNCHANGED <<table, started, record, recordsFile, failed>>
  BY DEF Bound!Invert, Bound!Marked, Bound!Scheduled, Bound!ready
<1>2. RecordsTyped'
  <2>1. flip' \in [Inputs -> BOOLEAN] BY <1>1 DEF KeptInv, RecordsTyped
  <2>2. QED BY <1>1, <2>1 DEF KeptInv, RecordsTyped
<1>3. InForceRecorded' BY <1>1 DEF KeptInv, InForceRecorded
<1>4. WrittenUnlessDirty' BY <1>1 DEF KeptInv, WrittenUnlessDirty, Bound!Records, Bound!Types
<1>5. QED BY <1>1, <1>2, <1>3, <1>4 DEF KeptInv

(* An edit, in a walk or not, puts in force what it records. *)
LEMMA EditKept ==
  ASSUME KeptInv, Bound!BindingsAssumption, NEW r \in Bound!Relays, NEW e \in Bindables[r], Bound!Edit(r, e)
  PROVE  KeptInv'
<1>1. /\ started = "up" /\ record' = [record EXCEPT ![r] = e] /\ table' = Bound!TableWith(table, r, e)
      /\ dirty' = dirty \cup {"switch"} /\ pending' = TRUE
      /\ UNCHANGED <<started, flip, recordsFile, failed>>
  BY DEF Bound!Edit, Bound!SetBinding, Bound!Marked, Bound!Scheduled, Bound!ready
<1>2. e \in Bound!Settings BY BoundNumbers
<1>3. table \in GoodTables /\ record \in [Bound!Relays -> Bound!Settings] /\ InForceRecorded BY DEF KeptInv, RecordsTyped
<1>4. record' \in [Bound!Relays -> Bound!Settings] /\ record'[r] = e /\ \A q \in Bound!Relays : q # r => record'[q] = record[q]
  BY <1>1, <1>2, <1>3
<1>5. table' \in GoodTables /\ InForce(table', r) = Recorded(e)
      /\ \A q \in Bound!Relays \ {r} : InForce(table', q) = InForce(table, q)
  BY <1>1, <1>2, <1>3, SetInForce
<1>6. RecordsTyped' BY <1>1, <1>4 DEF KeptInv, RecordsTyped
<1>7. InForceRecorded' BY <1>1, <1>3, <1>4, <1>5 DEF InForceRecorded
<1>8. WrittenUnlessDirty' BY <1>1, SwitchDirty
<1>9. QED BY <1>1, <1>5, <1>6, <1>7, <1>8 DEF KeptInv

LEMMA DeleteKept ==
  ASSUME KeptInv, Bound!BindingsAssumption, NEW b \in Inputs, Bound!DeleteInput(b)
  PROVE  KeptInv'
<1>n. PICK named : named = {r \in Bound!Relays : record[r].input = b} OBVIOUS
<1>0. table \in GoodTables /\ record \in [Bound!Relays -> Bound!Settings] /\ named \in SUBSET Bound!Relays /\ NRelays \in Nat
      /\ RecordsTyped /\ InForceRecorded /\ WrittenUnlessDirty
  BY <1>n, BoundNumbers DEF KeptInv, RecordsTyped
<1>1. /\ started = "up"
      /\ record' = [r \in Bound!Relays |-> IF r \in named THEN [record[r] EXCEPT !.input = NoInput] ELSE record[r]]
      /\ table' = Bound!TablesWith(table, named, record')
      /\ named # {} => dirty' = dirty \cup {"switch"} /\ pending' = TRUE
      /\ named = {} => UNCHANGED <<dirty, pending>>
      /\ UNCHANGED <<started, flip, recordsFile, failed>>
  BY <1>n DEF Bound!DeleteInput, Bound!ready, Bound!Marked, Bound!Scheduled
<1>2. ASSUME NEW r \in Bound!Relays
      PROVE  record'[r] \in Bound!Settings /\ (r \notin named => record'[r] = record[r])
  BY <1>0, <1>1 DEF Bound!Settings
<1>3. PICK es \in [Bound!Relays -> Bound!Settings] : es = record' BY <1>1, <1>2
<1>4. table' \in GoodTables
      /\ \A q \in Bound!Relays : InForce(table', q) = IF q \in named THEN Recorded(record'[q]) ELSE InForce(table, q)
  <2>1. PICK u : u = Bound!TablesWith(table, named, es) OBVIOUS
  <2>2. u \in GoodTables /\ \A q \in Bound!Relays : InForce(u, q) = IF q \in named THEN Recorded(es[q]) ELSE InForce(table, q)
    BY <1>0, <2>1, TablesInForce
  <2>3. QED BY <1>1, <1>3, <2>1, <2>2
<1>5. RecordsTyped' BY <1>0, <1>1, <1>3 DEF RecordsTyped
<1>6. InForceRecorded' BY <1>0, <1>1, <1>2, <1>4 DEF InForceRecorded
<1>7. WrittenUnlessDirty'
  <2>1. CASE named # {} BY <1>1, <2>1, SwitchDirty
  <2>2. CASE named = {}
    <3>1. record' = record BY <1>0, <1>1, <2>2
    <3>2. QED BY <1>0, <1>1, <2>2, <3>1 DEF WrittenUnlessDirty, Bound!Records
  <2>3. QED BY <2>1, <2>2
<1>8. QED BY <1>1, <1>4, <1>5, <1>6, <1>7 DEF KeptInv

LEMMA SaveKept ==
  ASSUME KeptInv, NEW written \in SUBSET Bound!Types, Bound!SaveDue(written)
  PROVE  KeptInv'
<1>1. Bound!Write(written) /\ pending' = FALSE /\ UNCHANGED <<table, started, stack, record, flip>>
  BY DEF Bound!SaveDue, Bound!manager
<1>2. /\ \A type \in Bound!Types : recordsFile'[type] = IF type \in dirty \cap written THEN Bound!Records[type] ELSE recordsFile[type]
      /\ dirty' = dirty \ written /\ failed' = (failed \cup dirty) \ written
  BY <1>1 DEF Bound!Write, Bound!FileAfter, Bound!Saved
<1>3. \A type \in Bound!Types : Bound!Records[type] \in Bound!Contents[type]
  BY DEF KeptInv, RecordsTyped, Bound!Records, Bound!Contents, Bound!Types
<1>4. RecordsTyped' BY <1>1, <1>2, <1>3 DEF KeptInv, RecordsTyped
<1>5. InForceRecorded' BY <1>1 DEF KeptInv, InForceRecorded
<1>6. Bound!Records' = Bound!Records BY <1>1 DEF Bound!Records
<1>7. WrittenUnlessDirty' BY <1>1, <1>2, <1>6 DEF KeptInv, WrittenUnlessDirty
<1>8. QED BY <1>1, <1>4, <1>5, <1>7 DEF KeptInv

(* A boot finds in force what its file says. *)
LEMMA BootKept ==
  ASSUME NRelays \in Nat, NEW f, NEW holds \in SUBSET Heated, Bound!Booted(f, holds), recordsFile' = f,
         \A type \in Bound!Types : f[type] \in Bound!Contents[type] \cup {BadFile}
  PROVE  KeptInv'
<1> DEFINE records == IF f.switch = BadFile THEN [r \in Bound!Relays |-> Bound!Unbound] ELSE f.switch
<1>1. /\ record' = records
      /\ flip' = IF f.binary_sensor = BadFile THEN [b \in Inputs |-> FALSE] ELSE f.binary_sensor
      /\ table' = Bound!TablesWith(<<>>, Bound!Relays, records)
      /\ started' = "boot" /\ dirty' = {} /\ pending' = FALSE
  BY DEF Bound!Booted
<1>2. f.switch \in [Bound!Relays -> Bound!Settings] \cup {BadFile} /\ f.binary_sensor \in [Inputs -> BOOLEAN] \cup {BadFile}
  BY DEF Bound!Types, Bound!Contents
<1>3. Bound!Unbound \in Bound!Settings BY DEF Bound!Unbound, Bound!Binding, Bound!Settings
<1>4. records \in [Bound!Relays -> Bound!Settings] BY <1>2, <1>3
<1> HIDE DEF records
<1>5. flip' \in [Inputs -> BOOLEAN] BY <1>1, <1>2
<1>6. table' \in GoodTables /\ \A q \in Bound!Relays : InForce(table', q) = Recorded(record'[q])
  <2>1. <<>> \in GoodTables BY NoneInForce
  <2>2. Bound!Relays \in SUBSET Bound!Relays OBVIOUS
  <2>3. /\ Bound!TablesWith(<<>>, Bound!Relays, records) \in GoodTables
        /\ \A q \in Bound!Relays : InForce(Bound!TablesWith(<<>>, Bound!Relays, records), q) = Recorded(records[q])
    BY <1>4, <2>1, <2>2, TablesInForce
  <2>4. QED BY <1>1, <2>3
<1>7. RecordsTyped' BY <1>1, <1>4, <1>5 DEF RecordsTyped
<1>8. InForceRecorded' BY <1>6 DEF InForceRecorded
<1>9. WrittenUnlessDirty'
  <2>1. Bound!Records' = [switch |-> record', binary_sensor |-> flip'] BY DEF Bound!Records
  <2>2. recordsFile'["switch"] \in {Bound!Records'["switch"], BadFile} BY <1>1, <2>1 DEF records
  <2>3. recordsFile'["binary_sensor"] \in {Bound!Records'["binary_sensor"], BadFile} BY <1>1, <2>1
  <2>4. QED BY <1>1, <2>2, <2>3 DEF WrittenUnlessDirty, Bound!Types
<1>10. QED BY <1>1, <1>6, <1>7, <1>8, <1>9 DEF KeptInv

(* A restart boots from what its last save wrote, a loss of power from what    *)
(* was on flash.                                                                *)
LEMMA RebootKept ==
  ASSUME KeptInv, NRelays \in Nat, Bound!PowerCut \/ \E written \in SUBSET Bound!Types : Bound!Restart(written)
  PROVE  KeptInv'
<1>1. \A type \in Bound!Types : Bound!Records[type] \in Bound!Contents[type]
  BY DEF KeptInv, RecordsTyped, Bound!Records, Bound!Contents, Bound!Types
<1>2. CASE Bound!PowerCut
  <2>1. PICK holds \in SUBSET Heated : Bound!Booted(recordsFile, holds) BY <1>2 DEF Bound!PowerCut
  <2>2. recordsFile' = recordsFile BY <1>2 DEF Bound!PowerCut
  <2>3. \A type \in Bound!Types : recordsFile[type] \in Bound!Contents[type] \cup {BadFile} BY DEF KeptInv, RecordsTyped
  <2>4. QED BY <2>1, <2>2, <2>3, BootKept
<1>3. ASSUME NEW written \in SUBSET Bound!Types, Bound!Restart(written) PROVE KeptInv'
  <2>1. PICK f : f = Bound!FileAfter(written) OBVIOUS
  <2>2. recordsFile' = f BY <1>3, <2>1 DEF Bound!Restart
  <2>3. PICK holds \in SUBSET Heated : Bound!Booted(f, holds) BY <1>3, <2>2 DEF Bound!Restart
  <2>4. \A type \in Bound!Types : f[type] \in Bound!Contents[type] \cup {BadFile}
    BY <1>1, <2>1 DEF KeptInv, RecordsTyped, Bound!FileAfter
  <2>5. QED BY <2>2, <2>3, <2>4, BootKept
<1>4. QED BY <1>2, <1>3

LEMMA KeptStep == ASSUME KeptInv, Bound!BindingsAssumption, [Bound!Next]_bound PROVE KeptInv'
<1>0. NRelays \in Nat BY BoundNumbers
<1>1. ASSUME NEW b \in Inputs, Bound!Invert(b) \/ Bound!DeleteInput(b) \/ \E level \in BOOLEAN : Bound!InputMoves(b, level)
      PROVE  KeptInv'
  <2>1. ASSUME NEW level \in BOOLEAN, Bound!InputMoves(b, level) PROVE KeptInv'
    <3>1. started # "off" /\ UNCHANGED <<table, started, record, flip, dirty, pending, recordsFile, failed>>
      BY <2>1 DEF Bound!InputMoves, Bound!MayMove, Bound!ready, Bound!keeper
    <3>2. QED BY <3>1, KeptSame
  <2>2. QED BY <1>1, <2>1, InvertKept, DeleteKept
<1>2. ASSUME NEW r \in Bound!Relays,
             \/ Bound!RelayMoves(r) \/ Bound!Hold(r) \/ Bound!Release(r)
             \/ \E e \in Bindables[r] : Bound!Edit(r, e)
      PROVE  KeptInv'
  <2>1. CASE Bound!RelayMoves(r) \/ Bound!Hold(r) \/ Bound!Release(r)
    <3>1. UNCHANGED <<table, started, stack, record, flip, dirty, pending, recordsFile, failed>>
      BY <2>1 DEF Bound!RelayMoves, Bound!Hold, Bound!Release, Bound!keeper, Bound!manager
    <3>2. QED BY <3>1, KeptSame
  <2>2. QED BY <1>2, <2>1, EditKept
<1>3. CASE Bound!WalkNext \/ Bound!Setup
  <2>1. /\ started # "off" /\ started' \in {started, "up"}
        /\ UNCHANGED <<table, record, flip, dirty, pending, recordsFile, failed>>
    BY <1>3 DEF Bound!WalkNext, Bound!Setup, Bound!keeper, Bound!Still, KeptInv
  <2>2. QED BY <2>1, KeptSame
<1>4. ASSUME NEW written \in SUBSET Bound!Types, Bound!SaveDue(written) \/ Bound!Restart(written) PROVE KeptInv'
  BY <1>0, <1>4, SaveKept, RebootKept
<1>5. CASE Bound!PowerCut BY <1>0, <1>5, RebootKept
<1>6. CASE UNCHANGED bound
  <2>1. UNCHANGED <<table, started, stack, record, flip, dirty, pending, recordsFile, failed>> BY <1>6 DEF bound
  <2>2. QED BY <2>1, KeptSame
<1>7. CASE Bound!Next BY <1>1, <1>2, <1>3, <1>4, <1>5, <1>7, Zenon DEF Bound!Next
<1>8. QED BY <1>6, <1>7

LEMMA KeptInit == ASSUME Bound!BindingsAssumption, Bound!Init PROVE KeptInv
<1>1. /\ recordsFile \in InitFiles /\ record = [r \in Bound!Relays |-> Bound!Unbound] /\ flip = [b \in Inputs |-> FALSE]
      /\ table = <<>> /\ started = "off" /\ stack = <<>>
  BY DEF Bound!Init
<1>2. Bound!Unbound \in Bound!Settings BY DEF Bound!Unbound, Bound!Binding, Bound!Settings
<1>3. table \in GoodTables BY <1>1, NoneInForce
<1>4. RecordsTyped
  <2>1. \A type \in Bound!Types : recordsFile[type] \in Bound!Contents[type] \cup {BadFile}
    BY <1>1 DEF Bound!BindingsAssumption
  <2>2. QED BY <1>1, <1>2, <2>1 DEF RecordsTyped
<1>5. InForceRecorded /\ WrittenUnlessDirty BY <1>1 DEF InForceRecorded, WrittenUnlessDirty
<1>6. QED BY <1>1, <1>3, <1>4, <1>5 DEF KeptInv

LEMMA KeptShows == ASSUME KeptInv PROVE SettingsKept
<1>1. ASSUME started = "up", NEW r \in Bound!Relays
      PROVE  (IF Bound!Bound(r) THEN Bound!Binding(table[Bound!At(r)].input, table[Bound!At(r)].mode) ELSE Bound!Unbound)
             = IF Bound!Dropped(record[r]) THEN Bound!Unbound ELSE record[r]
  BY <1>1 DEF KeptInv, InForceRecorded, InForce, Recorded, Bound!Bound, Bound!At
<1>2. ASSUME started = "up", ~pending, NEW type \in Bound!Types \ failed
      PROVE  recordsFile[type] \in {Bound!Records[type], BadFile}
  BY <1>2 DEF KeptInv, WrittenUnlessDirty
<1>3. QED BY <1>1, <1>2 DEF SettingsKept, Bound!SettingsKept, Bound!ready

LEMMA BoundAlone == [NextParts]_parts => [Bound!Next]_bound
BY DEF NextParts, FilesStep, PoolStep, BoundStep, NtpStep, CrashesStep, parts

LEMMA KeptInvariance == SpecParts => []KeptInv
<1>0. Bound!BindingsAssumption BY PartsAssumption
<1>1. InitParts => KeptInv BY <1>0, KeptInit DEF InitParts
<1>2. KeptInv /\ [NextParts]_parts => KeptInv' BY <1>0, BoundAlone, KeptStep
<1>3. QED BY <1>1, <1>2, PTL DEF SpecParts

(* What is in force is what the records say, and, once no save is due, what is *)
(* on flash but for a write that failed, whatever edits, deletions, restarts    *)
(* and cuts come between (set_binding, unbind_input, ConfigKeeperBase).         *)
THEOREM SettingsAlwaysKept == SpecParts => []SettingsKept
<1>1. KeptInv => SettingsKept BY KeptShows
<1>2. QED BY <1>1, KeptInvariance, PTL
-----------------------------------------------------------------------------
(* An input speaks: its relays are owed a walk, if anyone listens. *)
LEMMA SpeaksUp ==
  ASSUME BoundInv, Bound!BindingsAssumption, NEW b \in Inputs, NEW level \in BOOLEAN, NEW press \in BOOLEAN,
         state' = [state EXCEPT ![b] = level], Bound!Spoken(b, press), started = "up", b \in listening,
         stack' = Append(stack, Bound!Walk("input", b, level, press)), \A j \in DOMAIN stack : stack[j].input # b,
         UNCHANGED <<relay, held, table, listening, started>>
  PROVE  BoundTyped' /\ OneWalkPerInput' /\ FollowersCopy' /\ TogglesFlip'
<1> DEFINE w == Bound!Walk("input", b, level, press)
<1>n. PICK n : n = Len(stack) + 1 OBVIOUS
<1>0. BoundTyped /\ OneWalkPerInput /\ FollowersCopy /\ TogglesFlip /\ table \in GoodTables BY DEF BoundInv, BoundTyped
<1>1. w \in Walks /\ w.input = b /\ w.kind = "input" /\ w.level = level /\ w.rising = press /\ w.next = 1 BY DEF Bound!Walk, Walks
<1> HIDE DEF w
<1>2. /\ stack' \in Seq(Walks) /\ DOMAIN stack' = DOMAIN stack \cup {n} /\ stack'[n] = w
      /\ \A j \in DOMAIN stack : stack'[j] = stack[j]
      /\ n \notin DOMAIN stack
  BY <1>0, <1>1, <1>n, AppendFacts DEF BoundTyped, w
<1>3. state'[b] = level /\ \A c \in Inputs : c # b => state'[c] = state[c] BY <1>0 DEF BoundTyped
<1>4. /\ handed' = handed \ Bound!FollowsOf(table, b)
      /\ due' = [r \in Bound!Relays |-> IF press /\ r \in Bound!TogglesOf(table, b) \ held /\ due[r] # NoLevel
                                        THEN ~due[r] ELSE due[r]]
  BY Zenon DEF Bound!Spoken, Bound!ready
<1>5. BoundTyped'
  <2>1. state' \in [Inputs -> BOOLEAN \cup {NoLevel}] BY <1>0 DEF BoundTyped
  <2>2. \A r \in Bound!Relays : due'[r] \in BOOLEAN \cup {NoLevel} BY <1>0, <1>4 DEF BoundTyped
  <2>3. due' \in [Bound!Relays -> BOOLEAN \cup {NoLevel}] BY <1>4, <2>2
  <2>4. QED BY <1>0, <1>2, <2>1, <2>3 DEF BoundTyped
<1>6. OneWalkPerInput'
  <2>1. \A j \in DOMAIN stack : OfInput(stack[j])' BY <1>0, <1>2, <1>3 DEF OneWalkPerInput, OfInput
  <2>2. OfInput(stack[n])' BY <1>1, <1>2, <1>3 DEF OfInput
  <2>3. \A i, j \in DOMAIN stack' : stack'[i].input = stack'[j].input => i = j BY <1>0, <1>1, <1>2 DEF OneWalkPerInput
  <2>4. QED BY <1>2, <2>1, <2>2, <2>3 DEF OneWalkPerInput
<1>7. FollowersCopy'
  <2>1. SUFFICES ASSUME NEW k \in DOMAIN table, Follower(k)' PROVE Copied(k)' \/ FollowComes(k)'
    BY DEF FollowersCopy
  <2>2. k >= 1 /\ \A j \in DOMAIN table : table[j].output = table[k].output => j = k BY <1>0, EntryFields
  <2>3. CASE table[k].input = b
    <3>1. Reaches(stack[n], k)' BY <1>1, <1>2, <2>2, <2>3 DEF Reaches
    <3>2. QED BY <1>2, <3>1 DEF FollowComes
  <2>4. CASE table[k].input # b
    <3>1. table[k].output \notin Bound!FollowsOf(table, b) BY <2>2, <2>4 DEF Bound!FollowsOf
    <3>2. Follower(k) /\ (Copied(k) => Copied(k)') BY <1>3, <1>4, <2>1, <2>4, <3>1 DEF Follower, Copied
    <3>3. FollowComes(k) => FollowComes(k)' BY <1>2 DEF FollowComes, Reaches
    <3>4. QED BY <1>0, <3>2, <3>3 DEF FollowersCopy
  <2>5. QED BY <2>3, <2>4
<1>8. TogglesFlip'
  <2>1. SUFFICES ASSUME NEW k \in DOMAIN table, Pressed(k)'
                 PROVE  relay[table[k].output] = due'[table[k].output] <=> ~Flips(k)'
    BY DEF TogglesFlip
  <2>2. k >= 1 /\ table[k].output \in Bound!Relays /\ \A j \in DOMAIN table : table[j].output = table[k].output => j = k
    BY <1>0, EntryFields
  <2>3. relay[table[k].output] \in BOOLEAN /\ due[table[k].output] \in BOOLEAN \cup {NoLevel} BY <1>0, <2>2 DEF BoundTyped
  <2>4. Pressed(k)
    <3>1. due[table[k].output] # NoLevel BY <1>4, <2>1, <2>2 DEF Pressed
    <3>2. QED BY <2>1, <3>1 DEF Pressed
  <2>5. relay[table[k].output] = due[table[k].output] <=> ~Flips(k) BY <1>0, <2>4 DEF TogglesFlip
  <2>6. CASE table[k].input = b
    <3>1. ~PressComes(k) BY <2>6 DEF PressComes
    <3>2. relay[table[k].output] = due[table[k].output] BY <2>5, <3>1 DEF Flips
    <3>3. PressComes(k)' <=> press BY <1>1, <1>2, <2>2, <2>6 DEF PressComes
    <3>4. table[k].output \in Bound!TogglesOf(table, b) BY <2>4, <2>6 DEF Pressed, Bound!TogglesOf
    <3>5. due'[table[k].output] = IF press /\ table[k].output \notin held THEN ~due[table[k].output] ELSE due[table[k].output]
      BY <1>4, <2>2, <2>4, <3>4 DEF Pressed
    <3>6. Flips(k)' <=> press /\ table[k].output \notin held BY <3>3 DEF Flips
    <3>7. CASE press /\ table[k].output \notin held
      <4>1. due'[table[k].output] = ~due[table[k].output] BY <3>5, <3>7
      <4>2. due[table[k].output] \in BOOLEAN BY <2>3, <2>4 DEF Pressed
      <4>3. due'[table[k].output] # relay[table[k].output] BY <3>2, <4>1, <4>2
      <4>4. QED BY <3>6, <3>7, <4>3
    <3>8. CASE ~(press /\ table[k].output \notin held)
      <4>1. due'[table[k].output] = due[table[k].output] BY <3>5, <3>8
      <4>2. QED BY <3>2, <3>6, <3>8, <4>1
    <3>9. QED BY <3>7, <3>8
  <2>7. CASE table[k].input # b
    <3>1. table[k].output \notin Bound!TogglesOf(table, b) BY <2>2, <2>7 DEF Bound!TogglesOf
    <3>2. due'[table[k].output] = due[table[k].output] BY <1>4, <2>2, <3>1
    <3>3. PressComes(k)' <=> PressComes(k) BY <1>1, <1>2, <2>7 DEF PressComes
    <3>4. QED BY <2>5, <3>2, <3>3 DEF Flips
  <2>8. QED BY <2>6, <2>7
<1>9. QED BY <1>5, <1>6, <1>7, <1>8

(* Nobody hears it: no relay is bound to it, or no walk starts before setup. *)
LEMMA SpeaksUnheard ==
  ASSUME BoundInv, Bound!BindingsAssumption, NEW b \in Inputs, NEW level \in BOOLEAN, NEW press \in BOOLEAN,
         state' = [state EXCEPT ![b] = level], Bound!Spoken(b, press), b \notin listening \/ started = "boot",
         started = "boot" => stack = <<>>, \A j \in DOMAIN stack : stack[j].input # b, started # "off",
         UNCHANGED <<relay, held, table, listening, started, stack>>
  PROVE  BoundTyped' /\ OneWalkPerInput' /\ FollowersCopy' /\ TogglesFlip'
<1>0. BoundTyped /\ OneWalkPerInput /\ FollowersCopy /\ TogglesFlip /\ table \in GoodTables /\ Listened BY DEF BoundInv, BoundTyped
<1>1. state'[b] = level /\ \A c \in Inputs : c # b => state'[c] = state[c] BY <1>0 DEF BoundTyped
<1>2. handed' \subseteq handed /\ \A r \in handed : r \notin handed' => started = "up" /\ r \in Bound!FollowsOf(table, b)
  BY DEF Bound!Spoken, Bound!ready
<1>3. due' = [r \in Bound!Relays |-> IF started = "up" /\ press /\ r \in Bound!TogglesOf(table, b) \ held /\ due[r] # NoLevel
                                     THEN ~due[r] ELSE due[r]]
  BY Zenon DEF Bound!Spoken, Bound!ready
<1>4. started = "up" => Bound!FollowsOf(table, b) = {} /\ Bound!TogglesOf(table, b) = {}
  BY <1>0 DEF Listened, Bound!FollowsOf, Bound!TogglesOf
<1>5. handed' = handed BY <1>2, <1>4
<1>6. \A r \in Bound!Relays : due'[r] = due[r] BY <1>3, <1>4
<1>7. due' = due BY <1>0, <1>3, <1>6 DEF BoundTyped
<1>8. BoundTyped'
  <2>1. state' \in [Inputs -> BOOLEAN \cup {NoLevel}] BY <1>0 DEF BoundTyped
  <2>2. QED BY <1>0, <1>7, <2>1 DEF BoundTyped
<1>9. OneWalkPerInput' BY <1>0, <1>1 DEF OneWalkPerInput, OfInput
<1>10. FollowersCopy'
  <2>1. SUFFICES ASSUME started = "up", NEW k \in DOMAIN table, Follower(k)' PROVE Copied(k)' \/ FollowComes(k)'
    <3>1. started = "up" \/ stack = <<>> BY <1>0 DEF BoundTyped
    <3>2. QED BY <3>1 DEF FollowersCopy
  <2>2. table[k].input # b BY <1>0, <2>1 DEF Follower, Listened
  <2>3. Follower(k) /\ (Copied(k) => Copied(k)') BY <1>1, <1>5, <2>1, <2>2 DEF Follower, Copied
  <2>4. FollowComes(k) => FollowComes(k)' BY DEF FollowComes, Reaches
  <2>5. QED BY <1>0, <2>1, <2>3, <2>4 DEF FollowersCopy
<1>11. TogglesFlip' BY <1>0, <1>7 DEF TogglesFlip, Pressed, Flips, PressComes
<1>12. QED BY <1>8, <1>9, <1>10, <1>11
-----------------------------------------------------------------------------
(* A walk ends at the end of the table, where it has nothing left to reach. *)
LEMMA TopRemoved ==
  ASSUME NEW s \in Seq(Walks), s # <<>>
  PROVE  /\ Len(s) \in DOMAIN s /\ s[Len(s)] \in Walks
         /\ SubSeq(s, 1, Len(s) - 1) \in Seq(Walks)
         /\ DOMAIN SubSeq(s, 1, Len(s) - 1) = DOMAIN s \ {Len(s)}
         /\ \A j \in DOMAIN s \ {Len(s)} : SubSeq(s, 1, Len(s) - 1)[j] = s[j]
         /\ Len(SubSeq(s, 1, Len(s) - 1)) + 1 = Len(s)
<1>1. Len(s) \in Nat /\ Len(s) >= 1 BY EmptySeq
<1>2. \A i \in 1..(Len(s) - 1) : s[i] \in Walks OBVIOUS
<1> DEFINE below == SubSeq(s, 1, Len(s) - 1)
<1>3. /\ below \in Seq(Walks) /\ Len(below) = IF 1 <= Len(s) - 1 THEN Len(s) - 1 - 1 + 1 ELSE 0
      /\ \A i \in 1..(Len(s) - 1 - 1 + 1) : below[i] = s[1 + i - 1]
  BY <1>1, <1>2, SubSeqProperties
<1> HIDE DEF below
<1> DEFINE size == Len(s)
<1>4a. size \in Nat /\ size >= 1 /\ Len(below) = IF 1 <= size - 1 THEN size - 1 - 1 + 1 ELSE 0 BY <1>1, <1>3
<1> HIDE DEF size
<1>4b. Len(below) = size - 1 BY <1>4a
<1>4. Len(below) = Len(s) - 1 BY <1>4b DEF size
<1>5. \A i \in 1..(Len(s) - 1) : below[i] = s[i] BY <1>1, <1>3
<1>6. DOMAIN below = 1..(Len(s) - 1) BY <1>3, <1>4
<1>7. DOMAIN s = 1..Len(s) OBVIOUS
<1>8. DOMAIN below = DOMAIN s \ {Len(s)} BY <1>1, <1>6, <1>7
<1>9. QED BY <1>1, <1>3, <1>4, <1>5, <1>6, <1>7, <1>8 DEF below

LEMMA WalkEnds ==
  ASSUME BoundInv, Bound!WalkNext, stack[Len(stack)].next > Len(table)
  PROVE  BoundTyped' /\ OneWalkPerInput' /\ FollowersCopy' /\ TogglesFlip'
<1>n. PICK n : n = Len(stack) OBVIOUS
<1>0. BoundTyped /\ OneWalkPerInput /\ FollowersCopy /\ TogglesFlip /\ table \in GoodTables /\ stack \in Seq(Walks)
  BY DEF BoundInv, BoundTyped
<1>1. stack # <<>> /\ stack' = SubSeq(stack, 1, Len(stack) - 1) /\ started' = "up" /\ relay' = relay
      /\ UNCHANGED <<state, handed, due, table, held>>
  BY DEF Bound!WalkNext, Bound!Still
<1>2. /\ n \in DOMAIN stack /\ stack' \in Seq(Walks) /\ DOMAIN stack' = DOMAIN stack \ {n}
      /\ \A j \in DOMAIN stack \ {n} : stack'[j] = stack[j]
  BY <1>0, <1>1, <1>n, TopRemoved
<1>3. started # "off" BY <1>0, <1>1 DEF OneWalkPerInput
<1>4. \A k \in DOMAIN table : ~(stack[n].next <= k)
  <2>1. Len(table) \in Nat /\ DOMAIN table = 1..Len(table) BY <1>0 DEF GoodTables
  <2>0. stack[n] \in Walks BY <1>0, <1>2
  <2>2. stack[n].next \in Nat BY <2>0 DEF Walks
  <2>3. QED BY <1>n, <2>1, <2>2
<1>5. BoundTyped' BY <1>0, <1>1, <1>2 DEF BoundTyped
<1>6. OneWalkPerInput'
  <2>1. CASE started = "boot"
    <3>1. DOMAIN stack' = {} BY <1>0, <1>2, <2>1 DEF OneWalkPerInput
    <3>2. QED BY <1>1, <3>1 DEF OneWalkPerInput
  <2>2. CASE started = "up"
    <3>1. \A j \in DOMAIN stack' : j \in DOMAIN stack /\ stack'[j] = stack[j] BY <1>2
    <3>2. \A j \in DOMAIN stack : OfInput(stack[j]) BY <1>0, <2>2 DEF OneWalkPerInput
    <3>3. \A j \in DOMAIN stack' : OfInput(stack[j])' BY <1>1, <3>1, <3>2 DEF OfInput
    <3>4. \A i, j \in DOMAIN stack' : stack'[i].input = stack'[j].input => i = j BY <1>0, <2>2, <3>1 DEF OneWalkPerInput
    <3>5. QED BY <1>1, <3>3, <3>4 DEF OneWalkPerInput
  <2>3. QED BY <1>0, <1>3, <2>1, <2>2 DEF BoundTyped
<1>7. FollowersCopy'
  <2>1. SUFFICES ASSUME NEW k \in DOMAIN table, Follower(k)' PROVE Copied(k)' \/ FollowComes(k)'
    BY <1>1 DEF FollowersCopy
  <2>2. Follower(k) /\ (Copied(k) => Copied(k)') BY <1>1, <2>1 DEF Follower, Copied
  <2>3. FollowComes(k) => FollowComes(k)' BY <1>1, <1>2, <1>4 DEF FollowComes, Reaches
  <2>4. QED BY <1>0, <1>1, <2>2, <2>3 DEF FollowersCopy
<1>8. TogglesFlip'
  <2>1. \A k \in DOMAIN table : PressComes(k)' <=> PressComes(k) BY <1>1, <1>2, <1>4 DEF PressComes
  <2>2. QED BY <1>0, <1>1, <2>1 DEF TogglesFlip, Pressed, Flips
<1>9. QED BY <1>5, <1>6, <1>7, <1>8

(* What a walk's visit does to the relay of the entry it reaches. *)
LEMMA VisitDrives ==
  ASSUME BoundInv, Bound!WalkNext, NEW w, w = stack[Len(stack)], NEW e, e = table[w.next], ~(w.next > Len(table)),
         e \in Entries, w \in Walks, w.kind = "input" => OfInput(w)
  PROVE  /\ relay' \in [Bound!Relays -> BOOLEAN]
         /\ \A r \in Bound!Relays : r # e.output => relay'[r] = relay[r]
         /\ e.output \in held => relay' = relay
         /\ e.mode = "follow" /\ e.input \in Inputs /\ state[e.input] # NoLevel /\ e.output \notin held
            /\ (w.kind = "setup" \/ w.input = e.input)
            => relay'[e.output] = state[e.input]
         /\ e.mode = "follow" /\ ~(w.kind = "setup" \/ w.input = e.input) => relay' = relay
         /\ e.mode = "toggle" /\ e.output \notin held /\ w.kind = "input" /\ w.input = e.input /\ w.rising
            => relay'[e.output] = ~relay[e.output]
         /\ e.mode = "toggle" /\ ~(w.kind = "input" /\ w.input = e.input /\ w.rising) => relay' = relay
<1>0. relay \in [Bound!Relays -> BOOLEAN] /\ state \in [Inputs -> BOOLEAN \cup {NoLevel}] BY DEF BoundInv, BoundTyped
<1>1. /\ e.output \in Bound!Relays /\ e.mode \in {"follow", "toggle"} BY DEF Entries
<1>2. /\ w.kind \in {"setup", "input"} /\ w.level \in BOOLEAN /\ w.rising \in BOOLEAN BY DEF Walks
<1>3. (CASE w.kind = "setup" /\ e.mode = "follow" /\ Bound!Known(e.input) -> Bound!Drive(e.output, state[e.input])
        [] w.kind = "input" /\ e.input = w.input /\ e.mode = "follow" -> Bound!Drive(e.output, w.level)
        [] w.kind = "input" /\ e.input = w.input /\ e.mode = "toggle" /\ w.rising -> Bound!Drive(e.output, ~relay[e.output])
        [] OTHER -> UNCHANGED relay /\ acting' = FALSE)
  BY DEF Bound!WalkNext
<1>4. ASSUME NEW level \in BOOLEAN, Bound!Drive(e.output, level)
      PROVE  /\ relay' \in [Bound!Relays -> BOOLEAN]
             /\ \A r \in Bound!Relays : r # e.output => relay'[r] = relay[r]
             /\ e.output \in held => relay' = relay
             /\ e.output \notin held => relay'[e.output] = level
  BY <1>0, <1>1, <1>4 DEF Bound!Drive, Bound!Driven
<1>5. CASE w.kind = "setup" /\ e.mode = "follow" /\ Bound!Known(e.input)
  <2>1. state[e.input] \in BOOLEAN BY <1>0, <1>5 DEF Bound!Known
  <2>2. Bound!Drive(e.output, state[e.input]) BY <1>3, <1>5
  <2>3. QED BY <1>4, <1>5, <2>1, <2>2
<1>6. CASE w.kind = "input" /\ e.input = w.input /\ e.mode = "follow"
  <2>1. Bound!Drive(e.output, w.level) BY <1>3, <1>6
  <2>2. state[e.input] = w.level BY <1>6 DEF OfInput
  <2>3. QED BY <1>2, <1>4, <1>6, <2>1, <2>2
<1>7. CASE w.kind = "input" /\ e.input = w.input /\ e.mode = "toggle" /\ w.rising
  <2>1. Bound!Drive(e.output, ~relay[e.output]) BY <1>3, <1>7
  <2>2. PICK level \in BOOLEAN : level = ~relay[e.output] BY <1>0, <1>1
  <2>3. Bound!Drive(e.output, level) BY <2>1, <2>2, Zenon
  <2>4. relay'[e.output] = level \/ e.output \in held BY <1>4, <2>3
  <2>5. QED BY <1>4, <1>7, <2>2, <2>3, <2>4
<1>8. CASE /\ ~(w.kind = "setup" /\ e.mode = "follow" /\ Bound!Known(e.input))
           /\ ~(w.kind = "input" /\ e.input = w.input /\ e.mode = "follow")
           /\ ~(w.kind = "input" /\ e.input = w.input /\ e.mode = "toggle" /\ w.rising)
  <2>1. relay' = relay BY <1>3, <1>8
  <2>2. QED BY <1>0, <1>2, <1>8, <2>1 DEF Bound!Known
<1>9. QED BY <1>5, <1>6, <1>7, <1>8

LEMMA WalkGoesOn ==
  ASSUME BoundInv, Bound!WalkNext, ~(stack[Len(stack)].next > Len(table))
  PROVE  BoundTyped' /\ OneWalkPerInput' /\ FollowersCopy' /\ TogglesFlip'
<1>n. PICK n : n = Len(stack) OBVIOUS
<1>w. PICK w : w = stack[n] OBVIOUS
<1>e. PICK e : e = table[w.next] OBVIOUS
<1>0. BoundTyped /\ OneWalkPerInput /\ FollowersCopy /\ TogglesFlip /\ table \in GoodTables /\ stack \in Seq(Walks)
  BY DEF BoundInv, BoundTyped
<1>1. stack # <<>> /\ stack' = Append(SubSeq(stack, 1, Len(stack) - 1), [w EXCEPT !.next = @ + 1])
      /\ UNCHANGED <<state, handed, due, table, held, started>>
  BY <1>n, <1>w DEF Bound!WalkNext, Bound!Still
<1>2. n \in DOMAIN stack /\ w \in Walks BY <1>0, <1>1, <1>n, <1>w, TopRemoved
<1>3. w.next \in DOMAIN table /\ w.next \in Nat
  <2>1. Len(table) \in Nat /\ DOMAIN table = 1..Len(table) BY <1>0 DEF GoodTables
  <2>2. w.next \in Nat \ {0} BY <1>2 DEF Walks
  <2>3. QED BY <1>n, <1>w, <2>1, <2>2
<1>4. PICK v : v = [w EXCEPT !.next = @ + 1] OBVIOUS
<1>5. v \in Walks /\ v.kind = w.kind /\ v.input = w.input /\ v.level = w.level /\ v.rising = w.rising /\ v.next = w.next + 1
  BY <1>2, <1>4 DEF Walks
<1>6. /\ stack' \in Seq(Walks) /\ DOMAIN stack' = DOMAIN stack /\ stack'[n] = v
      /\ \A j \in DOMAIN stack \ {n} : stack'[j] = stack[j]
  <2> DEFINE below == SubSeq(stack, 1, Len(stack) - 1)
  <2>1. /\ below \in Seq(Walks) /\ DOMAIN below = DOMAIN stack \ {n} /\ Len(below) + 1 = n
        /\ \A j \in DOMAIN stack \ {n} : below[j] = stack[j]
    BY <1>0, <1>1, <1>n, TopRemoved
  <2>2. stack' = Append(below, v) BY <1>1, <1>4
  <2> HIDE DEF below
  <2>3. /\ Append(below, v) \in Seq(Walks) /\ DOMAIN Append(below, v) = DOMAIN below \cup {n}
        /\ Append(below, v)[n] = v /\ \A j \in DOMAIN below : Append(below, v)[j] = below[j]
    BY <1>5, <2>1, AppendFacts
  <2>4. QED BY <1>2, <2>1, <2>2, <2>3
<1>7. started \in {"boot", "up"} BY <1>0, <1>1 DEF OneWalkPerInput, BoundTyped
<1>8. /\ started = "boot" => w.kind = "setup" /\ ~w.rising
      /\ started = "up" => OfInput(w)
  BY <1>0, <1>2, <1>w DEF OneWalkPerInput
<1>9. e \in Entries BY <1>0, <1>3, <1>e DEF GoodTables
<1>10. /\ relay' \in [Bound!Relays -> BOOLEAN]
       /\ \A r \in Bound!Relays : r # e.output => relay'[r] = relay[r]
       /\ e.output \in held => relay' = relay
       /\ e.mode = "follow" /\ e.input \in Inputs /\ state[e.input] # NoLevel /\ e.output \notin held
          /\ (w.kind = "setup" \/ w.input = e.input)
          => relay'[e.output] = state[e.input]
       /\ e.mode = "follow" /\ ~(w.kind = "setup" \/ w.input = e.input) => relay' = relay
       /\ e.mode = "toggle" /\ e.output \notin held /\ w.kind = "input" /\ w.input = e.input /\ w.rising
          => relay'[e.output] = ~relay[e.output]
       /\ e.mode = "toggle" /\ ~(w.kind = "input" /\ w.input = e.input /\ w.rising) => relay' = relay
  <2>1. w.kind = "input" => OfInput(w) BY <1>7, <1>8
  <2>2. QED BY <1>2, <1>9, <1>n, <1>w, <1>e, <2>1, VisitDrives
<1>11. \A k \in DOMAIN table : k # w.next => table[k].output # e.output BY <1>0, <1>3, <1>e, EntryFields
<1>12. \A k \in DOMAIN table : k \in Nat /\ table[k].output \in Bound!Relays BY <1>0, EntryFields
<1>13. \A k \in DOMAIN table : k # w.next => (v.next <= k <=> w.next <= k) BY <1>3, <1>5, <1>12
<1>14. ~(v.next <= w.next) BY <1>3, <1>5
<1>14a. \A j \in DOMAIN stack : /\ stack'[j].kind = stack[j].kind /\ stack'[j].input = stack[j].input
                                /\ stack'[j].level = stack[j].level /\ stack'[j].rising = stack[j].rising
  BY <1>5, <1>6, <1>w
<1>14b. \A j \in DOMAIN stack : \A k \in DOMAIN table :
          k # w.next \/ j # n => (stack'[j].next <= k <=> stack[j].next <= k)
  BY <1>6, <1>13, <1>w
<1>15. BoundTyped' BY <1>0, <1>1, <1>6, <1>10 DEF BoundTyped
<1>16. OneWalkPerInput'
  <2>2. CASE started = "boot"
    <3>1. \A j \in DOMAIN stack' : j = 1 /\ stack'[j].kind = "setup" /\ ~stack'[j].rising
      BY <1>0, <1>6, <1>14a, <2>2 DEF OneWalkPerInput
    <3>2. QED BY <1>1, <2>2, <3>1 DEF OneWalkPerInput
  <2>3. CASE started = "up"
    <3>1. \A j \in DOMAIN stack : OfInput(stack[j]) BY <1>0, <2>3 DEF OneWalkPerInput
    <3>2. \A j \in DOMAIN stack : OfInput(stack[j])' BY <1>1, <1>14a, <3>1 DEF OfInput
    <3>3. \A i, j \in DOMAIN stack' : stack'[i].input = stack'[j].input => i = j
      BY <1>0, <1>6, <1>14a, <2>3 DEF OneWalkPerInput
    <3>4. QED BY <1>1, <1>6, <2>3, <3>2, <3>3 DEF OneWalkPerInput
  <2>4. QED BY <1>7, <2>2, <2>3
<1>17. FollowersCopy'
  <2>1. SUFFICES ASSUME NEW k \in DOMAIN table, Follower(k)' PROVE Copied(k)' \/ FollowComes(k)'
    BY <1>1 DEF FollowersCopy
  <2>2. Follower(k) BY <1>1, <2>1 DEF Follower
  <2>3. Copied(k) \/ FollowComes(k) BY <1>0, <1>1, <2>2 DEF FollowersCopy
  <2>4. CASE k = w.next
    <3>1. table[k] = e /\ e.mode = "follow" /\ e.input \in Inputs /\ state[e.input] # NoLevel /\ e.output \notin held
      BY <1>e, <2>2, <2>4 DEF Follower
    <3>2. CASE w.kind = "setup" \/ w.input = e.input BY <1>1, <1>10, <3>1, <3>2 DEF Copied
    <3>3. CASE ~(w.kind = "setup" \/ w.input = e.input)
      <4>1. Copied(k) => Copied(k)' BY <1>1, <1>10, <3>1, <3>3 DEF Copied
      <4>2. ~Reaches(stack[n], k) BY <1>w, <3>1, <3>3 DEF Reaches
      <4>3. FollowComes(k) => FollowComes(k)' BY <1>1, <1>6, <4>2 DEF FollowComes, Reaches
      <4>4. QED BY <2>3, <4>1, <4>3
    <3>4. QED BY <3>2, <3>3
  <2>5. CASE k # w.next
    <3>1. Copied(k) => Copied(k)' BY <1>1, <1>10, <1>11, <1>12, <2>5 DEF Copied
    <3>2. FollowComes(k) => FollowComes(k)' BY <1>1, <1>6, <1>14a, <1>14b, <2>5 DEF FollowComes, Reaches
    <3>3. QED BY <2>3, <3>1, <3>2
  <2>6. QED BY <2>4, <2>5
<1>18. TogglesFlip'
  <2>1. SUFFICES ASSUME NEW k \in DOMAIN table, Pressed(k)'
                 PROVE  relay'[table[k].output] = due[table[k].output] <=> ~Flips(k)'
    BY <1>1 DEF TogglesFlip
  <2>2. Pressed(k) BY <1>1, <2>1 DEF Pressed
  <2>3. relay[table[k].output] = due[table[k].output] <=> ~Flips(k) BY <1>0, <2>2 DEF TogglesFlip
  <2>4. relay[table[k].output] \in BOOLEAN /\ due[table[k].output] \in BOOLEAN
    BY <1>0, <1>12, <2>2 DEF BoundTyped, Pressed
  <2>5. CASE k # w.next
    <3>1. relay'[table[k].output] = relay[table[k].output] BY <1>10, <1>11, <1>12, <2>5
    <3>2. PressComes(k)' <=> PressComes(k) BY <1>1, <1>6, <1>14a, <1>14b, <2>5 DEF PressComes
    <3>3. QED BY <1>1, <2>3, <3>1, <3>2 DEF Flips
  <2>6. CASE k = w.next
    <3>1. table[k] = e /\ e.mode = "toggle" BY <1>e, <2>2, <2>6 DEF Pressed
    <3>2. CASE w.input = e.input /\ w.rising
      <4>1. started = "up" /\ w.kind = "input" BY <1>7, <1>8, <3>2 DEF OfInput
      <4>2. PressComes(k)
        <5>1. w.next <= k BY <1>3, <2>6
        <5>2. QED BY <1>2, <1>w, <3>1, <3>2, <5>1 DEF PressComes
      <4>3. ~PressComes(k)'
        <5>1. \A j \in DOMAIN stack \ {n} : stack'[j].input # e.input BY <1>0, <1>2, <1>6, <1>w, <3>2, <4>1 DEF OneWalkPerInput
        <5>2. QED BY <1>1, <1>6, <1>14, <2>6, <3>1, <5>1 DEF PressComes
      <4>4. CASE e.output \in held BY <1>1, <1>10, <2>3, <3>1, <4>3, <4>4 DEF Flips
      <4>5. CASE e.output \notin held
        <5>1. relay[e.output] # due[e.output] BY <2>3, <3>1, <4>2, <4>5 DEF Flips
        <5>2. relay'[e.output] = ~relay[e.output] BY <1>10, <3>1, <3>2, <4>1, <4>5
        <5>3. relay'[e.output] = due[e.output] BY <2>4, <3>1, <5>1, <5>2
        <5>4. QED BY <3>1, <4>3, <5>3 DEF Flips
      <4>6. QED BY <4>4, <4>5
    <3>3. CASE ~(w.input = e.input /\ w.rising)
      <4>1. relay' = relay BY <1>10, <3>1, <3>3
      <4>2. PressComes(k)' <=> PressComes(k)
        <5>1. ~(stack[n].rising /\ stack[n].input = table[k].input) BY <1>w, <3>1, <3>3
        <5>2. ~(stack'[n].rising /\ stack'[n].input = table[k].input) BY <1>2, <1>14a, <5>1
        <5>3. \A j \in DOMAIN stack : j # n => (stack'[j].next <= k <=> stack[j].next <= k) BY <1>14b
        <5>4. QED BY <1>1, <1>6, <5>1, <5>2, <5>3 DEF PressComes
      <4>3. QED BY <1>1, <2>3, <4>1, <4>2 DEF Flips
    <3>4. QED BY <3>2, <3>3
  <2>7. QED BY <2>5, <2>6
<1>19. QED BY <1>15, <1>16, <1>17, <1>18
-----------------------------------------------------------------------------
LEMMA InputSpeaks ==
  ASSUME BoundInv, Bound!BindingsAssumption, NEW b \in Inputs, NEW level \in BOOLEAN, NEW press \in BOOLEAN, NEW m,
         state' = [state EXCEPT ![b] = level], Bound!Heard(b, level, m), Bound!Spoken(b, press),
         b \in listening => press = (m[b] = 0 /\ level /\ state[b] = FALSE) /\ Bound!Taken(m, b) = marks,
         b \notin listening => m = marks,
         started = "boot" => stack = <<>>, \A j \in DOMAIN stack : stack[j].input # b, started # "off",
         UNCHANGED <<relay, held, table, listening, started>>
  PROVE  BoundTyped' /\ OneWalkPerInput' /\ FollowersCopy' /\ TogglesFlip' /\ Listened'
<1>1. marks' = marks BY DEF Bound!Heard
<1>2. Listened' BY <1>1 DEF BoundInv, Listened
<1>3. started \in {"boot", "up"} BY DEF BoundInv, BoundTyped
<1>4. CASE started = "up" /\ b \in listening
  <2>1. stack' = Append(stack, Bound!Walk("input", b, level, m[b] = 0 /\ level /\ state[b] = FALSE))
    BY <1>4 DEF Bound!Heard, Bound!ready
  <2>2. stack' = Append(stack, Bound!Walk("input", b, level, press)) BY <1>4, <2>1, Zenon
  <2>3. QED BY <1>2, <1>4, <2>2, SpeaksUp
<1>5. CASE ~(started = "up" /\ b \in listening)
  <2>1. stack' = stack BY <1>5 DEF Bound!Heard, Bound!ready
  <2>2. b \notin listening \/ started = "boot" BY <1>3, <1>5
  <2>3. QED BY <1>2, <2>1, <2>2, SpeaksUnheard
<1>6. QED BY <1>4, <1>5

LEMMA InputMovesKeeps ==
  ASSUME BoundInv, Bound!BindingsAssumption, NEW b \in Inputs, NEW level \in BOOLEAN, Bound!InputMoves(b, level)
  PROVE  BoundInv'
<1>1. /\ Bound!MayMove(b) /\ state' = [state EXCEPT ![b] = level] /\ Bound!Heard(b, level, marks)
      /\ Bound!Spoken(b, level /\ state[b] = FALSE)
      /\ UNCHANGED <<relay, held, table, listening, started>>
  BY DEF Bound!InputMoves
<1>2. marks = [c \in Inputs |-> 0] BY DEF BoundInv, Listened
<1>3. marks[b] = 0 /\ Bound!Taken(marks, b) = marks BY <1>2 DEF Bound!Taken
<1>4. PICK press \in BOOLEAN : press = (level /\ state[b] = FALSE) OBVIOUS
<1>5. Bound!Spoken(b, press) BY <1>1, <1>4, Zenon
<1>6. press = (marks[b] = 0 /\ level /\ state[b] = FALSE) BY <1>3, <1>4
<1>7. stack = <<>> => DOMAIN stack = {} OBVIOUS
<1>8. started = "boot" => stack = <<>> BY <1>1 DEF Bound!MayMove, Bound!Still, Bound!ready
<1>9. started # "off" /\ \A j \in DOMAIN stack : stack[j].input # b
  BY <1>1, <1>7 DEF Bound!MayMove, Bound!Still, Bound!ready
<1>10. BoundTyped' /\ OneWalkPerInput' /\ FollowersCopy' /\ TogglesFlip' /\ Listened'
  BY <1>1, <1>3, <1>5, <1>6, <1>8, <1>9, InputSpeaks
<1>11. QED BY <1>10 DEF BoundInv

LEMMA InvertKeeps ==
  ASSUME BoundInv, Bound!BindingsAssumption, NEW b \in Inputs, Bound!Invert(b)
  PROVE  BoundInv'
<1>1. stack = <<>> /\ started = "up" /\ UNCHANGED <<relay, held, table, listening, started>>
  BY DEF Bound!Invert, Bound!Still, Bound!ready
<1>2. marks = [c \in Inputs |-> 0] /\ BoundTyped BY DEF BoundInv, Listened
<1>3. DOMAIN stack = {} BY <1>1
<1>4. BoundTyped' /\ OneWalkPerInput' /\ FollowersCopy' /\ TogglesFlip' /\ Listened'
  <2>1. CASE state[b] = NoLevel
    <3>1. UNCHANGED <<state, marks, stack, handed, due>> BY <2>1 DEF Bound!Invert
    <3>2. BoundTyped' /\ Listened' BY <1>1, <3>1 DEF BoundInv, BoundTyped, Listened
    <3>3. OneWalkPerInput' BY <1>1, <3>1 DEF BoundInv, OneWalkPerInput, OfInput
    <3>4. FollowersCopy' BY <1>1, <3>1 DEF BoundInv, FollowersCopy, Follower, Copied, FollowComes, Reaches
    <3>5. TogglesFlip' BY <1>1, <3>1 DEF BoundInv, TogglesFlip, Pressed, Flips, PressComes
    <3>6. QED BY <3>2, <3>3, <3>4, <3>5
  <2>2. CASE state[b] # NoLevel
    <3>1. state[b] \in BOOLEAN BY <1>2, <2>2 DEF BoundTyped
    <3>2. PICK level \in BOOLEAN : level = ~state[b] BY <3>1
    <3>3. state' = [state EXCEPT ![b] = ~state[b]] /\ Bound!Heard(b, ~state[b], Bound!Announced(b)) /\ Bound!Spoken(b, FALSE)
      BY <2>2 DEF Bound!Invert
    <3>4. state' = [state EXCEPT ![b] = level] /\ Bound!Heard(b, level, Bound!Announced(b)) BY <3>2, <3>3, Zenon
    <3>5. PICK m : m = Bound!Announced(b) OBVIOUS
    <3>6. b \notin listening => m = marks BY <3>5 DEF Bound!Announced
    <3>7. b \in listening => m[b] = 1 /\ Bound!Taken(m, b) = marks BY <1>2, <3>5 DEF Bound!Announced, Bound!Taken
    <3>8. b \in listening => FALSE = (m[b] = 0 /\ level /\ state[b] = FALSE) BY <3>7
    <3>9. Bound!Heard(b, level, m) BY <3>4, <3>5
    <3>10. QED BY <1>1, <1>3, <3>3, <3>4, <3>6, <3>7, <3>8, <3>9, InputSpeaks
  <2>3. QED BY <2>1, <2>2
<1>5. QED BY <1>4 DEF BoundInv

LEMMA WalkKeeps ==
  ASSUME BoundInv, Bound!WalkNext
  PROVE  BoundInv'
<1>1. UNCHANGED <<table, listening, marks>> BY DEF Bound!WalkNext
<1>2. BoundTyped' /\ OneWalkPerInput' /\ FollowersCopy' /\ TogglesFlip' BY WalkEnds, WalkGoesOn
<1>3. Listened' BY <1>1 DEF BoundInv, Listened
<1>4. QED BY <1>2, <1>3 DEF BoundInv

LEMMA SetupKeeps ==
  ASSUME BoundInv, Bound!BindingsAssumption, Bound!Setup
  PROVE  BoundInv'
<1>1. /\ started = "boot" /\ stack = <<>> /\ stack' = <<Bound!Walk("setup", NoInput, FALSE, FALSE)>>
      /\ UNCHANGED <<state, relay, handed, due, table, listening, marks, started, held>>
  BY DEF Bound!Setup, Bound!outputs, Bound!Still
<1>2. PICK w : w = Bound!Walk("setup", NoInput, FALSE, FALSE) OBVIOUS
<1>3. w \in Walks /\ w.kind = "setup" /\ w.rising = FALSE /\ w.next = 1 BY <1>2 DEF Bound!Walk, Walks
<1>4. stack' \in Seq(Walks) /\ DOMAIN stack' = {1} /\ stack'[1] = w
  <2>1. <<w>> \in Seq(Walks) /\ Len(<<w>>) = 1 /\ <<w>>[1] = w BY <1>3
  <2>2. DOMAIN <<w>> = {1} BY <2>1
  <2>3. stack' = <<w>> BY <1>1, <1>2
  <2>4. QED BY <2>1, <2>2, <2>3
<1>5. BoundTyped' BY <1>1, <1>4 DEF BoundInv, BoundTyped
<1>6. OneWalkPerInput' BY <1>1, <1>3, <1>4 DEF OneWalkPerInput
<1>7. FollowersCopy'
  <2>1. SUFFICES ASSUME NEW k \in DOMAIN table PROVE FollowComes(k)' BY <1>1 DEF FollowersCopy
  <2>2. k >= 1 BY EntryFields DEF BoundInv, BoundTyped
  <2>3. QED BY <1>3, <1>4, <2>2 DEF FollowComes, Reaches
<1>8. TogglesFlip'
  <2>1. \A k \in DOMAIN table : ~PressComes(k)' BY <1>3, <1>4 DEF PressComes
  <2>2. \A k \in DOMAIN table : Pressed(k) => relay[table[k].output] = due[table[k].output] BY <1>1, StillExact
  <2>3. QED BY <1>1, <2>1, <2>2 DEF TogglesFlip, Flips, Pressed
<1>9. Listened' BY <1>1 DEF BoundInv, Listened
<1>10. QED BY <1>5, <1>6, <1>7, <1>8, <1>9 DEF BoundInv
-----------------------------------------------------------------------------
(* With no walk under way, it is enough that followers are as their inputs and *)
(* toggles as their presses.                                                    *)
LEMMA StillKeeps ==
  ASSUME stack' = <<>>, started' = "up",
         \A k \in DOMAIN table' : Follower(k)' => Copied(k)',
         \A k \in DOMAIN table' : Pressed(k)' => relay'[table'[k].output] = due'[table'[k].output]
  PROVE  OneWalkPerInput' /\ FollowersCopy' /\ TogglesFlip'
<1>1. DOMAIN stack' = {} OBVIOUS
<1>2. OneWalkPerInput' BY <1>1 DEF OneWalkPerInput
<1>3. FollowersCopy' BY DEF FollowersCopy
<1>4. TogglesFlip' BY <1>1 DEF TogglesFlip, Flips, PressComes
<1>5. QED BY <1>2, <1>3, <1>4

(* The mode of a relay is that of its entry. *)
LEMMA ModeFacts ==
  ASSUME table \in GoodTables, NEW r
  PROVE  /\ \A k \in DOMAIN table : table[k].output = r =>
              Bound!Bound(r) /\ Bound!At(r) = k /\ Bound!ModeOf(r) = table[k].mode
         /\ Bound!Bound(r) => Bound!At(r) \in DOMAIN table /\ table[Bound!At(r)].output = r
<1>1. \A k \in DOMAIN table : k # 0 BY DEF GoodTables
<1>2. QED BY <1>1, IndexFacts DEF Bound!Bound, Bound!At, Bound!ModeOf

LEMMA HolderKeeps ==
  ASSUME BoundInv, Bound!BindingsAssumption, NEW r \in Bound!Relays, Bound!RelayMoves(r) \/ Bound!Hold(r) \/ Bound!Release(r)
  PROVE  BoundInv'
<1>0. BoundTyped /\ table \in GoodTables /\ relay \in [Bound!Relays -> BOOLEAN]
      /\ due \in [Bound!Relays -> BOOLEAN \cup {NoLevel}] /\ Heated \subseteq Bound!Relays
  BY BoundNumbers DEF BoundInv, BoundTyped
<1>1. /\ stack = <<>> /\ started = "up"
      /\ UNCHANGED <<state, table, listening, marks, started, stack>>
  BY DEF Bound!RelayMoves, Bound!Hold, Bound!Release, Bound!manager, Bound!Still, Bound!ready
<1>2. /\ \A k \in DOMAIN table : Follower(k) => Copied(k)
      /\ \A k \in DOMAIN table : Pressed(k) => relay[table[k].output] = due[table[k].output]
  BY <1>1, StillExact
<1>3. \A k \in DOMAIN table : table[k].output \in Bound!Relays BY <1>0, EntryFields
<1>4. BoundTyped' /\ OneWalkPerInput' /\ FollowersCopy' /\ TogglesFlip'
  <2>1. CASE Bound!RelayMoves(r)
    <3>1. /\ relay' = [relay EXCEPT ![r] = ~@] /\ held' = held
          /\ handed' = IF Bound!ModeOf(r) = "follow" THEN handed \cup {r} ELSE handed
          /\ due' = [due EXCEPT ![r] = IF @ = NoLevel THEN @ ELSE relay'[r]]
      BY <2>1 DEF Bound!RelayMoves
    <3>2. relay' \in [Bound!Relays -> BOOLEAN] /\ \A q \in Bound!Relays : q # r => relay'[q] = relay[q] BY <1>0, <3>1
    <3>3. due' \in [Bound!Relays -> BOOLEAN \cup {NoLevel}] /\ (\A q \in Bound!Relays : q # r => due'[q] = due[q])
          /\ due'[r] \in {NoLevel, relay'[r]}
      BY <1>0, <3>1, <3>2
    <3>4. BoundTyped' BY <1>0, <1>1, <3>1, <3>2, <3>3 DEF BoundTyped
    <3>5. ASSUME NEW k \in DOMAIN table, Follower(k)' PROVE Copied(k)'
      <4>1. Follower(k) /\ table[k].output \notin handed' BY <1>1, <3>1, <3>5 DEF Follower
      <4>2. table[k].output # r BY <1>0, <3>1, <4>1, ModeFacts DEF Follower
      <4>3. QED BY <1>1, <1>2, <1>3, <3>2, <4>1, <4>2 DEF Copied
    <3>6. ASSUME NEW k \in DOMAIN table, Pressed(k)' PROVE relay'[table[k].output] = due'[table[k].output]
      <4>1. CASE table[k].output = r BY <1>1, <3>3, <3>6, <4>1 DEF Pressed
      <4>2. CASE table[k].output # r
        <5>1. Pressed(k) BY <1>1, <1>3, <3>3, <3>6, <4>2 DEF Pressed
        <5>2. QED BY <1>2, <1>3, <3>2, <3>3, <4>2, <5>1
      <4>3. QED BY <4>1, <4>2
    <3>7. QED BY <1>1, <3>4, <3>5, <3>6, StillKeeps
  <2>2. CASE Bound!Hold(r)
    <3>1. held' = held \cup {r} /\ UNCHANGED <<relay, handed, due>> BY <2>2 DEF Bound!Hold, Bound!outputs
    <3>2. BoundTyped' BY <1>0, <1>1, <3>1 DEF BoundTyped
    <3>3. \A k \in DOMAIN table : Follower(k)' => Copied(k)' BY <1>1, <1>2, <3>1 DEF Follower, Copied
    <3>4. \A k \in DOMAIN table : Pressed(k)' => relay'[table[k].output] = due'[table[k].output]
      BY <1>1, <1>2, <3>1 DEF Pressed
    <3>5. QED BY <1>1, <3>2, <3>3, <3>4, StillKeeps
  <2>3. CASE Bound!Release(r)
    <3>1. /\ held' = held \ {r} /\ due' = due /\ handed' \subseteq handed
          /\ \A q \in handed : q \notin handed' => q = r
      BY <2>3 DEF Bound!Release
    <3>2. CASE Bound!Retaken(r)
      <4>1. PICK i \in DOMAIN table : i = Bound!At(r) /\ table[i].output = r /\ table[i].mode = "follow"
                                      /\ Bound!Known(table[i].input)
        <5>1. Bound!ModeOf(r) = "follow" /\ Bound!Known(table[Bound!At(r)].input) BY <3>2 DEF Bound!Retaken
        <5>2. Bound!Bound(r) BY <5>1 DEF Bound!ModeOf
        <5>3. QED BY <1>0, <5>1, <5>2, ModeFacts
      <4>2. relay' = [relay EXCEPT ![r] = state[table[i].input]] BY <2>3, <3>2, <4>1 DEF Bound!Release
      <4>3. state[table[i].input] \in BOOLEAN BY <1>0, <4>1 DEF BoundTyped, Bound!Known
      <4>4. /\ relay' \in [Bound!Relays -> BOOLEAN] /\ relay'[r] = state[table[i].input]
            /\ \A q \in Bound!Relays : q # r => relay'[q] = relay[q]
        BY <1>0, <4>2, <4>3
      <4>5. BoundTyped' BY <1>0, <1>1, <3>1, <4>4 DEF BoundTyped
      <4>6. \A k \in DOMAIN table : table[k].output = r => k = i BY <1>0, <4>1, EntryFields
      <4>7. ASSUME NEW k \in DOMAIN table, Follower(k)' PROVE Copied(k)'
        <5>1. CASE k = i BY <1>1, <4>1, <4>4, <5>1 DEF Copied
        <5>2. CASE k # i
          <6>1. table[k].output # r BY <4>6, <5>2
          <6>2. Follower(k) BY <1>1, <3>1, <4>7, <6>1 DEF Follower
          <6>3. QED BY <1>1, <1>2, <1>3, <4>4, <6>1, <6>2 DEF Copied
        <5>3. QED BY <5>1, <5>2
      <4>8. ASSUME NEW k \in DOMAIN table, Pressed(k)' PROVE relay'[table[k].output] = due'[table[k].output]
        <5>1. Pressed(k) BY <1>1, <3>1, <4>8 DEF Pressed
        <5>2. table[k].output # r BY <4>1, <4>6, <5>1 DEF Pressed
        <5>3. QED BY <1>2, <1>3, <3>1, <4>4, <5>1, <5>2
      <4>9. QED BY <1>1, <4>5, <4>7, <4>8, StillKeeps
    <3>3. CASE ~Bound!Retaken(r)
      <4>1. relay' = relay BY <2>3, <3>3 DEF Bound!Release
      <4>2. BoundTyped' BY <1>0, <1>1, <3>1, <4>1 DEF BoundTyped
      <4>3. ASSUME NEW k \in DOMAIN table, Follower(k)' PROVE Copied(k)'
        <5>1. CASE table[k].output = r
          <6>1. Bound!Retaken(r) BY <1>0, <1>1, <4>3, <5>1, ModeFacts DEF Bound!Retaken, Follower, Bound!Known
          <6>2. QED BY <3>3, <6>1
        <5>2. CASE table[k].output # r
          <6>1. Follower(k) BY <1>1, <3>1, <4>3, <5>2 DEF Follower
          <6>2. QED BY <1>1, <1>2, <4>1, <6>1 DEF Copied
        <5>3. QED BY <5>1, <5>2
      <4>4. \A k \in DOMAIN table : Pressed(k)' => relay'[table[k].output] = due'[table[k].output]
        BY <1>1, <1>2, <3>1, <4>1 DEF Pressed
      <4>5. QED BY <1>1, <4>2, <4>3, <4>4, StillKeeps
    <3>4. QED BY <3>2, <3>3
  <2>4. QED BY <2>1, <2>2, <2>3
<1>5. Listened' BY <1>1 DEF BoundInv, Listened
<1>6. QED BY <1>4, <1>5 DEF BoundInv
-----------------------------------------------------------------------------
(* A binding is removed between the walks: the others are bound as they were. *)
LEMMA EditRemoves ==
  ASSUME BoundInv, Bound!BindingsAssumption, NEW r \in Bound!Relays, NEW e \in Bound!Settings, Bound!SetBinding(r, e),
         Bound!Dropped(e), started = "up", stack = <<>>, UNCHANGED <<state, marks, started, stack, held>>
  PROVE  BoundTyped' /\ OneWalkPerInput' /\ FollowersCopy' /\ TogglesFlip' /\ Listened'
<1>0. BoundTyped /\ Listened /\ table \in GoodTables /\ due \in [Bound!Relays -> BOOLEAN \cup {NoLevel}]
      /\ relay \in [Bound!Relays -> BOOLEAN]
  BY DEF BoundInv, BoundTyped
<1>1. e.mode # "none" => e.input \notin Inputs BY BoundNumbers DEF Bound!Dropped
<1>2. /\ table' = Bound!TableWith(table, r, e) /\ relay' = relay /\ listening' = listening
      /\ handed \subseteq handed' \cup {r}
      /\ due' = [due EXCEPT ![r] = IF table' = table THEN @ ELSE IF e.mode = "toggle" /\ Bound!Still THEN relay[r] ELSE NoLevel]
  BY <1>1 DEF Bound!SetBinding, Bound!Dropped, Bound!Known
<1>2a. handed' \subseteq handed \cup {r} BY DEF Bound!SetBinding
<1>3. table' \in GoodTables /\ InForce(table', r) = Bound!Unbound
      /\ \A q \in Bound!Relays \ {r} : InForce(table', q) = InForce(table, q)
  BY <1>0, <1>2, SetInForce DEF Recorded
<1>4. \A q \in Bound!Relays : q # r => due'[q] = due[q] BY <1>0, <1>2
<1>5. due' \in [Bound!Relays -> BOOLEAN \cup {NoLevel}] BY <1>0, <1>2
<1>6. ASSUME NEW k \in DOMAIN table'
      PROVE  table'[k].output \in Bound!Relays \ {r} /\ \E j \in DOMAIN table : table[j] = table'[k]
  <2>1. table'[k].output \in Bound!Relays /\ table'[k].mode # "none" BY <1>3, EntryFields
  <2>2. InForce(table', table'[k].output) = Bound!Binding(table'[k].input, table'[k].mode) BY <1>3, InForceEntry
  <2>3. table'[k].output # r
    <3>1. SUFFICES ASSUME table'[k].output = r PROVE FALSE OBVIOUS
    <3>2. Bound!Binding(table'[k].input, table'[k].mode) = Bound!Unbound BY <1>3, <2>2, <3>1
    <3>3. table'[k].mode = "none" BY <3>2 DEF Bound!Binding, Bound!Unbound
    <3>4. QED BY <2>1, <3>3
  <2>4. QED BY <1>0, <1>3, <2>1, <2>3, EntryBack
<1>7. BoundTyped' BY <1>0, <1>2, <1>2a, <1>3, <1>5 DEF BoundTyped
<1>8. ASSUME NEW k \in DOMAIN table', Follower(k)' PROVE Copied(k)'
  <2>1. PICK j \in DOMAIN table : table[j] = table'[k] /\ table[j].output # r BY <1>6
  <2>2. Follower(j) BY <1>2, <1>8, <2>1 DEF Follower
  <2>3. Copied(j) BY <2>2, StillExact
  <2>4. QED BY <1>2, <2>1, <2>3 DEF Copied
<1>9. ASSUME NEW k \in DOMAIN table', Pressed(k)' PROVE relay'[table'[k].output] = due'[table'[k].output]
  <2>1. PICK j \in DOMAIN table : table[j] = table'[k] /\ table[j].output \in Bound!Relays \ {r} BY <1>6
  <2>2. Pressed(j) BY <1>4, <1>9, <2>1 DEF Pressed
  <2>3. relay[table[j].output] = due[table[j].output] BY <2>2, StillExact
  <2>4. QED BY <1>2, <1>4, <2>1, <2>3
<1>10. OneWalkPerInput' /\ FollowersCopy' /\ TogglesFlip' BY <1>8, <1>9, StillKeeps
<1>11. Listened' BY <1>0, <1>2, <1>6 DEF Listened
<1>12. QED BY <1>7, <1>10, <1>11

(* A binding is added or changed: the others keep their places in the table, so *)
(* walks under way go on to them.                                               *)
LEMMA EditSets ==
  ASSUME BoundInv, Bound!BindingsAssumption, NEW r \in Bound!Relays, NEW e \in Bound!Settings, Bound!SetBinding(r, e),
         Bound!Dropped(e) => Bound!IndexOf(table, r) = 0, started = "up", UNCHANGED <<state, marks, started, stack, held>>
  PROVE  BoundTyped' /\ OneWalkPerInput' /\ FollowersCopy' /\ TogglesFlip' /\ Listened'
<1> DEFINE new == table' # table /\ e.mode # "none" /\ e.input \in Inputs
           takes == new /\ e.mode = "follow" /\ Bound!Known(e.input)
<1>0. BoundTyped /\ Listened /\ table \in GoodTables /\ due \in [Bound!Relays -> BOOLEAN \cup {NoLevel}]
      /\ relay \in [Bound!Relays -> BOOLEAN] /\ state \in [Inputs -> BOOLEAN \cup {NoLevel}]
      /\ OneWalkPerInput /\ FollowersCopy /\ TogglesFlip
  BY DEF BoundInv, BoundTyped
<1>1. /\ table' = Bound!TableWith(table, r, e)
      /\ listening' = IF new THEN listening \cup {e.input} ELSE listening
      /\ takes => Bound!Drive(r, state[e.input])
      /\ ~takes => relay' = relay
      /\ handed' = IF table' = table THEN handed
                   ELSE IF e.mode = "follow" /\ ~takes THEN handed \cup {r} ELSE handed \ {r}
      /\ due' = [due EXCEPT ![r] = IF table' = table THEN @ ELSE IF e.mode = "toggle" /\ Bound!Still THEN relay[r] ELSE NoLevel]
  BY DEF Bound!SetBinding, Bound!ready
<1>2. /\ table' \in GoodTables
      /\ DOMAIN table \subseteq DOMAIN table'
      /\ \A k \in DOMAIN table : table[k].output # r => table'[k] = table[k]
      /\ \A k \in DOMAIN table' : table'[k].output # r => k \in DOMAIN table /\ table[k] = table'[k]
      /\ \A k \in DOMAIN table' : table'[k].output = r => ~Bound!Dropped(e) /\ table'[k] = EntryOf(r, e)
  BY <1>0, <1>1, SetPlaces
<1>3. /\ relay' \in [Bound!Relays -> BOOLEAN]
      /\ \A q \in Bound!Relays : q # r => relay'[q] = relay[q]
      /\ takes /\ r \notin held => relay'[r] = state[e.input]
  <2>1. CASE takes
    <3>1. state[e.input] \in BOOLEAN BY <1>0, <2>1 DEF Bound!Known
    <3>2. QED BY <1>0, <1>1, <2>1, <3>1 DEF Bound!Drive, Bound!Driven
  <2>2. CASE ~takes BY <1>0, <1>1, <2>2
  <2>3. QED BY <2>1, <2>2
<1>4. /\ due' \in [Bound!Relays -> BOOLEAN \cup {NoLevel}]
      /\ \A q \in Bound!Relays : q # r => due'[q] = due[q]
      /\ due'[r] = IF table' = table THEN due[r] ELSE IF e.mode = "toggle" /\ stack = <<>> THEN relay[r] ELSE NoLevel
  <2>1. due'[r] = IF table' = table THEN due[r] ELSE IF e.mode = "toggle" /\ stack = <<>> THEN relay[r] ELSE NoLevel
    BY <1>0, <1>1 DEF Bound!Still
  <2>2. due'[r] \in BOOLEAN \cup {NoLevel} BY <1>0, <2>1
  <2>3. QED BY <1>0, <1>1, <2>1, <2>2
<1>5. handed' \subseteq handed \cup {r} /\ \A q \in handed : q # r => q \in handed' BY <1>1
<1>6. BoundTyped' BY <1>0, <1>2, <1>3, <1>4, <1>5 DEF BoundTyped
<1>7. OneWalkPerInput' BY <1>0 DEF OneWalkPerInput, OfInput
<1>8. \A k \in DOMAIN table' : table'[k].output \in Bound!Relays BY <1>2, EntryFields
<1>9. \A k \in DOMAIN table' : table'[k].output = r =>
        table'[k].input = e.input /\ table'[k].mode = e.mode /\ ~Bound!Dropped(e)
  BY <1>2 DEF EntryOf
<1> HIDE DEF new, takes
<1>10. FollowersCopy'
  <2>1. SUFFICES ASSUME NEW k \in DOMAIN table', Follower(k)' PROVE Copied(k)' \/ FollowComes(k)'
    BY DEF FollowersCopy
  <2>2. CASE table' = table /\ ~takes
    <3>1. relay' = relay /\ handed' = handed BY <1>1, <2>2
    <3>2. Follower(k) BY <2>1, <2>2, <3>1 DEF Follower
    <3>3. Copied(k) \/ FollowComes(k) BY <1>0, <2>2, <3>2 DEF FollowersCopy
    <3>4. QED BY <2>2, <3>1, <3>3 DEF Copied, FollowComes, Reaches
  <2>3. CASE table'[k].output = r /\ ~(table' = table /\ ~takes)
    <3>1. e.mode = "follow" /\ e.input \in Inputs /\ state[e.input] # NoLevel /\ r \notin held
      BY <1>9, <2>1, <2>3 DEF Follower
    <3>2. table' # table BY <2>3 DEF takes, new
    <3>3. takes BY <3>1, <3>2 DEF takes, new, Bound!Known
    <3>4. relay'[r] = state[e.input] BY <1>3, <3>1, <3>3
    <3>5. QED BY <1>9, <2>3, <3>4 DEF Copied
  <2>4. CASE table'[k].output # r
    <3>1. k \in DOMAIN table /\ table[k] = table'[k] BY <1>2, <2>4
    <3>2. Follower(k) BY <1>5, <2>1, <2>4, <3>1 DEF Follower
    <3>3. Copied(k) \/ FollowComes(k) BY <1>0, <3>1, <3>2 DEF FollowersCopy
    <3>4. Copied(k) => Copied(k)' BY <1>3, <1>8, <2>4, <3>1 DEF Copied
    <3>5. FollowComes(k) => FollowComes(k)' BY <3>1 DEF FollowComes, Reaches
    <3>6. QED BY <3>3, <3>4, <3>5
  <2>5. QED BY <2>2, <2>3, <2>4
<1>11. TogglesFlip'
  <2>1. SUFFICES ASSUME NEW k \in DOMAIN table', Pressed(k)'
                 PROVE  relay'[table'[k].output] = due'[table'[k].output] <=> ~Flips(k)'
    BY DEF TogglesFlip
  <2>2. CASE table'[k].output = r /\ table' # table
    <3>1. e.mode = "toggle" /\ due'[r] # NoLevel BY <1>9, <2>1, <2>2 DEF Pressed
    <3>2. stack = <<>> /\ due'[r] = relay[r] BY <1>4, <2>2, <3>1
    <3>3. relay' = relay BY <1>1, <3>1 DEF takes
    <3>4. DOMAIN stack' = {} BY <3>2
    <3>5. ~Flips(k)' BY <3>4 DEF Flips, PressComes
    <3>6. QED BY <2>2, <3>2, <3>3, <3>5
  <2>3. CASE table' = table
    <3>1. due'[table[k].output] = due[table[k].output] BY <1>4, <1>8, <2>3
    <3>2. relay' = relay BY <1>1, <2>3 DEF takes, new
    <3>3. Pressed(k) BY <2>1, <2>3, <3>1 DEF Pressed
    <3>4. relay[table[k].output] = due[table[k].output] <=> ~Flips(k) BY <1>0, <2>3, <3>3 DEF TogglesFlip
    <3>5. Flips(k)' <=> Flips(k) BY <2>3 DEF Flips, PressComes
    <3>6. QED BY <2>3, <3>1, <3>2, <3>4, <3>5
  <2>4. CASE table'[k].output # r
    <3>1. k \in DOMAIN table /\ table[k] = table'[k] BY <1>2, <2>4
    <3>2. due'[table[k].output] = due[table[k].output] /\ relay'[table[k].output] = relay[table[k].output]
      BY <1>3, <1>4, <1>8, <2>4, <3>1
    <3>3. Pressed(k) BY <2>1, <3>1, <3>2 DEF Pressed
    <3>4. relay[table[k].output] = due[table[k].output] <=> ~Flips(k) BY <1>0, <3>1, <3>3 DEF TogglesFlip
    <3>5. Flips(k)' <=> Flips(k) BY <3>1 DEF Flips, PressComes
    <3>6. QED BY <3>1, <3>2, <3>4, <3>5
  <2>5. QED BY <2>2, <2>3, <2>4
<1>12. Listened'
  <2>1. SUFFICES ASSUME NEW k \in DOMAIN table', table'[k].input \in Inputs PROVE table'[k].input \in listening'
    BY <1>0 DEF Listened
  <2>2. listening \subseteq listening' BY <1>1
  <2>3. CASE table'[k].output = r /\ table' # table
    <3>1. new BY <1>9, <2>1, <2>3 DEF new, Bound!Dropped
    <3>2. QED BY <1>1, <1>9, <2>3, <3>1
  <2>4. CASE table'[k].output # r \/ table' = table
    <3>1. k \in DOMAIN table /\ table[k] = table'[k] BY <1>2, <2>4
    <3>2. QED BY <1>0, <2>1, <2>2, <3>1 DEF Listened
  <2>5. QED BY <2>3, <2>4
<1>13. QED BY <1>6, <1>7, <1>10, <1>11, <1>12

LEMMA EditKeeps ==
  ASSUME BoundInv, Bound!BindingsAssumption, ~NestedRemovals, NEW r \in Bound!Relays, NEW e \in Bindables[r], Bound!Edit(r, e)
  PROVE  BoundInv'
<1>1. /\ started = "up" /\ Bound!SetBinding(r, e) /\ UNCHANGED <<state, marks, started, stack, held>>
      /\ stack = <<>> \/ ~(Bound!IndexOf(table, r) # 0 /\ Bound!Dropped(e))
  BY DEF Bound!Edit, Bound!Still, Bound!ready, Bound!Bound, Bound!At
<1>2. e \in Bound!Settings BY BoundNumbers
<1>3. BoundTyped' /\ OneWalkPerInput' /\ FollowersCopy' /\ TogglesFlip' /\ Listened'
  BY <1>1, <1>2, EditRemoves, EditSets
<1>4. QED BY <1>3 DEF BoundInv

(* The relays that lose their input are bound no more, the others as they were. *)
LEMMA DeleteKeeps ==
  ASSUME BoundInv, KeptInv, KeptInv', NEW b \in Inputs, Bound!DeleteInput(b)
  PROVE  BoundInv'
<1>n. PICK named : named = {r \in Bound!Relays : record[r].input = b} OBVIOUS
<1>0. BoundTyped /\ Listened /\ table \in GoodTables /\ table' \in GoodTables /\ named \subseteq Bound!Relays
      /\ state \in [Inputs -> BOOLEAN \cup {NoLevel}] /\ due \in [Bound!Relays -> BOOLEAN \cup {NoLevel}]
  BY <1>n DEF BoundInv, BoundTyped, KeptInv
<1>1. /\ stack = <<>> /\ started = "up" /\ state' = [state EXCEPT ![b] = NoLevel]
      /\ record' = [r \in Bound!Relays |-> IF r \in named THEN [record[r] EXCEPT !.input = NoInput] ELSE record[r]]
      /\ handed' = handed \ named
      /\ due' = [r \in Bound!Relays |-> IF r \in named THEN NoLevel ELSE due[r]]
      /\ UNCHANGED <<relay, held, listening, marks, started, stack>>
  BY <1>n DEF Bound!DeleteInput, Bound!Still, Bound!ready
<1>2. ASSUME NEW q \in Bound!Relays
      PROVE  InForce(table', q) = IF q \in named THEN Bound!Unbound ELSE InForce(table, q)
  <2>1. InForce(table, q) = Recorded(record[q]) /\ InForce(table', q) = Recorded(record'[q])
    BY <1>1 DEF KeptInv, InForceRecorded
  <2>2. record[q] \in Bound!Settings BY DEF KeptInv, RecordsTyped
  <2>3. q \in named => Recorded(record'[q]) = Bound!Unbound BY <1>1, <2>2 DEF Bound!Settings, Recorded, Bound!Dropped
  <2>4. q \notin named => record'[q] = record[q] BY <1>1
  <2>5. QED BY <2>1, <2>3, <2>4
<1>3. ASSUME NEW k \in DOMAIN table'
      PROVE  table'[k].output \in Bound!Relays \ named /\ \E j \in DOMAIN table : table[j] = table'[k]
  <2>1. table'[k].output \in Bound!Relays /\ table'[k].mode # "none" BY <1>0, EntryFields
  <2>2. InForce(table', table'[k].output) = Bound!Binding(table'[k].input, table'[k].mode) BY <1>0, InForceEntry
  <2>3. table'[k].output \notin named
    <3>1. SUFFICES ASSUME table'[k].output \in named PROVE FALSE OBVIOUS
    <3>2. Bound!Binding(table'[k].input, table'[k].mode) = Bound!Unbound BY <1>2, <2>1, <2>2, <3>1
    <3>3. table'[k].mode = "none" BY <3>2 DEF Bound!Binding, Bound!Unbound
    <3>4. QED BY <2>1, <3>3
  <2>4. InForce(table', table'[k].output) = InForce(table, table'[k].output) BY <1>2, <2>1, <2>3
  <2>5. QED BY <1>0, <2>1, <2>3, <2>4, EntryBack
<1>4. \A q \in Bound!Relays : q \notin named => due'[q] = due[q] BY <1>1
<1>5. BoundTyped'
  <2>1. state' \in [Inputs -> BOOLEAN \cup {NoLevel}] BY <1>0, <1>1
  <2>2. due' \in [Bound!Relays -> BOOLEAN \cup {NoLevel}] BY <1>0, <1>1
  <2>3. QED BY <1>0, <1>1, <2>1, <2>2 DEF BoundTyped
<1>6. ASSUME NEW k \in DOMAIN table', Follower(k)' PROVE Copied(k)'
  <2>1. PICK j \in DOMAIN table : table[j] = table'[k] /\ table[j].output \notin named BY <1>3
  <2>2. table[j].input \in Inputs /\ state'[table[j].input] # NoLevel BY <1>6, <2>1 DEF Follower
  <2>3. state'[table[j].input] = state[table[j].input] BY <1>0, <1>1, <2>2
  <2>4. Follower(j) BY <1>1, <1>6, <2>1, <2>2, <2>3 DEF Follower
  <2>5. Copied(j) BY <1>1, <2>4, StillExact
  <2>6. QED BY <1>1, <2>1, <2>3, <2>5 DEF Copied
<1>7. ASSUME NEW k \in DOMAIN table', Pressed(k)' PROVE relay'[table'[k].output] = due'[table'[k].output]
  <2>1. PICK j \in DOMAIN table : table[j] = table'[k] /\ table[j].output \in Bound!Relays \ named BY <1>3
  <2>2. Pressed(j) BY <1>4, <1>7, <2>1 DEF Pressed
  <2>3. relay[table[j].output] = due[table[j].output] BY <1>1, <2>2, StillExact
  <2>4. QED BY <1>1, <1>4, <2>1, <2>3
<1>8. OneWalkPerInput' /\ FollowersCopy' /\ TogglesFlip' BY <1>1, <1>6, <1>7, StillKeeps
<1>9. Listened' BY <1>0, <1>1, <1>3 DEF Listened
<1>10. QED BY <1>5, <1>8, <1>9 DEF BoundInv
-----------------------------------------------------------------------------
(* Steps that leave the bindings, what they drive and the walks as they are. *)
LEMMA BoundSame ==
  ASSUME BoundInv, UNCHANGED <<state, relay, held, table, listening, marks, started, stack, handed, due>>
  PROVE  BoundInv'
<1>1. BoundTyped' /\ Listened' BY DEF BoundInv, BoundTyped, Listened
<1>2. OneWalkPerInput' BY DEF BoundInv, OneWalkPerInput, OfInput
<1>3. FollowersCopy' BY DEF BoundInv, FollowersCopy, Follower, Copied, FollowComes, Reaches
<1>4. TogglesFlip' BY DEF BoundInv, TogglesFlip, Pressed, Flips, PressComes
<1>5. QED BY <1>1, <1>2, <1>3, <1>4 DEF BoundInv

(* After a boot no relay is driven before setup has walked the table. *)
LEMMA BootKeeps ==
  ASSUME Bound!BindingsAssumption, NEW f, NEW holds \in SUBSET Heated, Bound!Booted(f, holds), table' \in GoodTables
  PROVE  BoundInv'
<1>1. /\ state' = [b \in Inputs |-> NoLevel]
      /\ listening' = {table'[k].input : k \in DOMAIN table'} \cap Inputs
      /\ marks' = [b \in Inputs |-> 0]
      /\ started' = "boot" /\ stack' = <<>>
      /\ relay' = [r \in Bound!Relays |-> FALSE]
      /\ held' = holds /\ handed' = {}
      /\ due' = [r \in Bound!Relays |-> IF \E k \in DOMAIN table' : table'[k].output = r /\ table'[k].mode = "toggle"
                                        THEN FALSE ELSE NoLevel]
  BY DEF Bound!Booted
<1>2. \A r \in Bound!Relays : due'[r] \in {FALSE, NoLevel} BY <1>1
<1>3. BoundTyped'
  <2>1. due' \in [Bound!Relays -> BOOLEAN \cup {NoLevel}] BY <1>1, <1>2
  <2>2. state' \in [Inputs -> BOOLEAN \cup {NoLevel}] /\ relay' \in [Bound!Relays -> BOOLEAN] /\ stack' \in Seq(Walks) BY <1>1
  <2>3. held' \subseteq Bound!Relays /\ started' = "boot" BY <1>1, BoundNumbers
  <2>4. QED BY <2>1, <2>2, <2>3 DEF BoundTyped
<1>4. Listened' BY <1>1 DEF Listened
<1>5. DOMAIN stack' = {} BY <1>1
<1>6. OneWalkPerInput' BY <1>1, <1>5 DEF OneWalkPerInput
<1>7. FollowersCopy' BY <1>1 DEF FollowersCopy
<1>8. TogglesFlip'
  <2>1. SUFFICES ASSUME NEW k \in DOMAIN table', Pressed(k)'
                 PROVE  relay'[table'[k].output] = due'[table'[k].output] /\ ~Flips(k)'
    BY DEF TogglesFlip
  <2>2. table'[k].output \in Bound!Relays BY EntryFields
  <2>3. due'[table'[k].output] = FALSE BY <1>2, <2>1, <2>2 DEF Pressed
  <2>4. QED BY <1>1, <1>5, <2>2, <2>3 DEF Flips, PressComes
<1>9. QED BY <1>3, <1>4, <1>6, <1>7, <1>8 DEF BoundInv

LEMMA BoundInit == ASSUME Bound!BindingsAssumption, Bound!Init PROVE BoundInv
<1>1. /\ state = [b \in Inputs |-> NoLevel] /\ table = <<>> /\ marks = [b \in Inputs |-> 0]
      /\ started = "off" /\ stack = <<>> /\ relay = [r \in Bound!Relays |-> FALSE] /\ held = {}
      /\ due = [r \in Bound!Relays |-> NoLevel]
  BY DEF Bound!Init
<1>2. table \in GoodTables /\ DOMAIN table = {} /\ DOMAIN stack = {} BY <1>1, NoneInForce
<1>3. BoundTyped
  <2>1. stack \in Seq(Walks) BY <1>1
  <2>2. QED BY <1>1, <1>2, <2>1 DEF BoundTyped
<1>4. Listened /\ OneWalkPerInput /\ FollowersCopy /\ TogglesFlip
  BY <1>1, <1>2 DEF Listened, OneWalkPerInput, FollowersCopy, TogglesFlip
<1>5. QED BY <1>3, <1>4 DEF BoundInv

LEMMA BoundStepKeeps ==
  ASSUME BoundInv, KeptInv, KeptInv', Bound!BindingsAssumption, ~NestedRemovals, [Bound!Next]_bound
  PROVE  BoundInv'
<1>0. table' \in GoodTables BY DEF KeptInv
<1>1. ASSUME NEW b \in Inputs, Bound!Invert(b) \/ Bound!DeleteInput(b) \/ \E level \in BOOLEAN : Bound!InputMoves(b, level)
      PROVE  BoundInv'
  BY <1>1, InvertKeeps, DeleteKeeps, InputMovesKeeps
<1>2. ASSUME NEW r \in Bound!Relays,
             \/ Bound!RelayMoves(r) \/ Bound!Hold(r) \/ Bound!Release(r)
             \/ \E e \in Bindables[r] : Bound!Edit(r, e)
      PROVE  BoundInv'
  BY <1>2, HolderKeeps, EditKeeps
<1>3. ASSUME NEW written \in SUBSET Bound!Types, Bound!SaveDue(written) PROVE BoundInv'
  <2>1. UNCHANGED <<state, relay, held, table, listening, marks, started, stack, handed, due>>
    BY <1>3 DEF Bound!SaveDue, Bound!outputs, Bound!manager
  <2>2. QED BY <2>1, BoundSame
<1>4. ASSUME NEW written \in SUBSET Bound!Types, Bound!Restart(written) PROVE BoundInv'
  BY <1>0, <1>4, BootKeeps DEF Bound!Restart
<1>5. CASE Bound!PowerCut BY <1>0, <1>5, BootKeeps DEF Bound!PowerCut
<1>6. CASE UNCHANGED bound
  <2>1. UNCHANGED <<state, relay, held, table, listening, marks, started, stack, handed, due>> BY <1>6 DEF bound
  <2>2. QED BY <2>1, BoundSame
<1>7. CASE Bound!Next BY <1>1, <1>2, <1>3, <1>4, <1>5, <1>7, WalkKeeps, SetupKeeps, Zenon DEF Bound!Next
<1>8. QED BY <1>6, <1>7

LEMMA BoundShows ==
  ASSUME BoundInv, Bound!BindingsAssumption
  PROVE  FollowsInput /\ TogglesOnPresses
<1>0. table \in GoodTables BY DEF BoundInv, BoundTyped
<1>1. FollowsInput
  BY StillExact DEF FollowsInput, Bound!FollowsInput, Bound!Still, Bound!ready, Bound!Known, Follower, Copied
<1>2. TogglesOnPresses
  <2>1. SUFFICES ASSUME stack = <<>>, NEW r \in Bound!Relays, Bound!ModeOf(r) = "toggle", due[r] # NoLevel
                 PROVE  relay[r] = due[r]
    BY DEF TogglesOnPresses, Bound!TogglesOnPresses, Bound!Still
  <2>2. Bound!Bound(r) BY <2>1 DEF Bound!ModeOf
  <2>3. PICK k \in DOMAIN table : k = Bound!At(r) /\ table[k].output = r BY <1>0, <2>2, ModeFacts
  <2>4. Pressed(k) BY <2>1, <2>2, <2>3 DEF Pressed, Bound!ModeOf
  <2>5. QED BY <2>1, <2>3, <2>4, StillExact
<1>3. QED BY <1>1, <1>2

LEMMA BoundInvariance == ASSUME ~NestedRemovals PROVE SpecParts => []BoundInv
<1>0. Bound!BindingsAssumption BY PartsAssumption
<1>1. InitParts => BoundInv BY <1>0, BoundInit DEF InitParts
<1>2. KeptInv /\ KeptInv' /\ BoundInv /\ [NextParts]_parts => BoundInv' BY <1>0, BoundAlone, BoundStepKeeps
<1>3. QED BY <1>1, <1>2, KeptInvariance, PTL DEF SpecParts

(* A relay that follows an input is as that input between the walks, however  *)
(* walks nest and whatever is edited in them, unless another hand moved it     *)
(* (on_input_state_, set_binding, on_released_): if no relay's action drops a  *)
(* binding in a walk, which makes the walk skip the next one.                   *)
THEOREM FollowersAlwaysFollow == ASSUME ~NestedRemovals PROVE SpecParts => []FollowsInput
<1>1. BoundInv => FollowsInput BY PartsAssumption, BoundShows
<1>2. QED BY <1>1, BoundInvariance, PTL

(* A relay that toggles is flipped once by each press of its input and by      *)
(* nothing else of it (ensure_listener_, expect_level), under the same          *)
(* condition.                                                                   *)
THEOREM TogglesAlwaysOnPresses == ASSUME ~NestedRemovals PROVE SpecParts => []TogglesOnPresses
<1>1. BoundInv => TogglesOnPresses BY PartsAssumption, BoundShows
<1>2. QED BY <1>1, BoundInvariance, PTL
-----------------------------------------------------------------------------
(***************************************************************************)
(* The folder of rules, for every number of rules and every name and body. *)
(***************************************************************************)

(* The operators on finite sets there are those here. *)
LEMMA SameCardinality == ASSUME NEW S PROVE Files!Cardinality(S) = Cardinality(S) /\ (Files!IsFiniteSet(S) <=> IsFiniteSet(S))
<1>1. Files!IsFiniteSet(S) <=> IsFiniteSet(S) BY DEF Files!IsFiniteSet, IsFiniteSet
<1>2. Files!Cardinality(S) = Cardinality(S) BY <1>1 DEF Files!Cardinality, Cardinality
<1>3. QED BY <1>1, <1>2

(* More things than places: one is in none. *)
LEMMA OneLeftOver ==
  ASSUME NEW D, IsFiniteSet(D), NEW g, NEW S, IsFiniteSet(S), Cardinality(D) < Cardinality(S)
  PROVE  \E x \in S : \A k \in D : g[k] # x
<1>1. SUFFICES ASSUME \A x \in S : \E k \in D : g[k] = x PROVE FALSE OBVIOUS
<1> DEFINE h == [x \in S |-> CHOOSE k \in D : g[k] = x]
<1>2. h \in [S -> D] /\ \A x \in S : g[h[x]] = x BY <1>1
<1> HIDE DEF h
<1>3. PICK x \in S, y \in S : x # y /\ h[x] = h[y] BY <1>2, FS_PigeonHole
<1>4. QED BY <1>2, <1>3
-----------------------------------------------------------------------------
RuleSet == [id : Nat, name : Names, body : Bodies, file : Names, changed : BOOLEAN]

(* t is rs with other ids and names, a name changed only where it had to be.   *)
Like(rs, t) ==
  /\ t \in Seq(RuleSet) /\ Len(t) = Len(rs)
  /\ \A k \in 1..Len(rs) : /\ t[k].file = rs[k].file /\ t[k].body = rs[k].body
                           /\ t[k].name = rs[k].name \/ t[k].changed = TRUE
ApartUpto(t, m) == \A i \in 1..m : \A j \in 1..Len(t) : t[i].name = t[j].name => i = j
Mended(rs, t, m) ==
  /\ Like(rs, t) /\ ApartUpto(t, m)
  /\ ApartUpto(rs, Len(rs)) => \A k \in 1..Len(rs) : t[k].name = rs[k].name

LEMMA RulePut ==
  ASSUME NEW t \in Seq(RuleSet), NEW k \in 1..Len(t), NEW c \in RuleSet, NEW u, u = [t EXCEPT ![k] = c]
  PROVE  u \in Seq(RuleSet) /\ Len(u) = Len(t) /\ u[k] = c /\ \A i \in 1..Len(t) : i # k => u[i] = t[i]
OBVIOUS

LEMMA FreeIdIsNat == ASSUME NEW t, t \in Seq(RuleSet) PROVE Files!FreeId(t) \in Nat
<1> DEFINE n == Len(t)
           g == [k \in DOMAIN t |-> t[k].id]
           S == (1..(n + 1)) \ {t[k].id : k \in DOMAIN t}
<1>1. n \in Nat /\ DOMAIN t = 1..n OBVIOUS
<1>2. IsFiniteSet(1..n) /\ Cardinality(1..n) = n /\ IsFiniteSet(1..(n + 1)) /\ Cardinality(1..(n + 1)) = n + 1
  BY <1>1, FS_Interval
<1>3. PICK x \in 1..(n + 1) : \A k \in 1..n : g[k] # x
  <2> HIDE DEF n, g, S
  <2>1. PICK D, P : D = 1..n /\ P = 1..(n + 1) OBVIOUS
  <2>2. IsFiniteSet(D) /\ IsFiniteSet(P) /\ Cardinality(D) < Cardinality(P) BY <1>1, <1>2, <2>1
  <2>3. \E x \in P : \A k \in D : g[k] # x BY <2>2, OneLeftOver
  <2>4. QED BY <2>1, <2>3
<1>4. x \in S BY <1>1, <1>3
<1>5. S \subseteq Nat BY <1>1
<1>6. PICK m \in S : \A y \in S : m <= y
  <2> HIDE DEF S
  <2>1. QED BY <1>4, <1>5, LeastOf
<1>7. Files!FreeId(t) = Files!Min(S) BY DEF Files!FreeId
<1>8. Files!Min(S) \in S BY <1>6 DEF Files!Min
<1>9. QED BY <1>5, <1>7, <1>8

LEMMA StampedMends ==
  ASSUME NEW rs \in Seq(RuleSet), NEW t, Mended(rs, t, 0), NEW k \in 1..Len(rs)
  PROVE  Mended(rs, Files!Stamped(t, k), 0)
<1>0. t \in Seq(RuleSet) /\ Len(t) = Len(rs) BY DEF Mended, Like
<1>1. CASE ~Files!Restamped(t, k) BY <1>1 DEF Files!Stamped
<1>2. CASE Files!Restamped(t, k)
  <2>1. PICK id \in Nat : id = Files!FreeId(t) BY <1>0, FreeIdIsNat
  <2>2. PICK u : u = [t EXCEPT ![k] = [@ EXCEPT !.id = id, !.changed = TRUE]] OBVIOUS
  <2>3. k \in 1..Len(t) /\ t[k] \in RuleSet BY <1>0
  <2> DEFINE c == [t[k] EXCEPT !.id = id, !.changed = TRUE]
  <2>3a. c \in RuleSet BY <2>3 DEF RuleSet
  <2>3b. u = [t EXCEPT ![k] = c] BY <2>2
  <2>4. u \in Seq(RuleSet) /\ Len(u) = Len(t) /\ u[k] = c /\ \A i \in 1..Len(t) : i # k => u[i] = t[i]
    <3> HIDE DEF c
    <3>1. QED BY <1>0, <2>3, <2>3a, <2>3b, RulePut
  <2>5. \A i \in 1..Len(t) : /\ u[i].file = t[i].file /\ u[i].body = t[i].body /\ u[i].name = t[i].name
                             /\ u[i].changed = t[i].changed \/ u[i].changed = TRUE
    <3>1. SUFFICES ASSUME NEW i \in 1..Len(t)
                   PROVE  /\ u[i].file = t[i].file /\ u[i].body = t[i].body /\ u[i].name = t[i].name
                          /\ u[i].changed = t[i].changed \/ u[i].changed = TRUE
      OBVIOUS
    <3>2. CASE i = k
      <4>1. QED BY <2>4, <3>2, <2>3 DEF RuleSet
    <3>3. CASE i # k BY <3>3, <2>4
    <3>4. QED BY <3>2, <3>3
  <2>6. Like(rs, u) BY <1>0, <2>4, <2>5 DEF Mended, Like
  <2>7. ApartUpto(u, 0) BY DEF ApartUpto
  <2>8. QED BY <1>0, <2>2, <2>1, <1>2, <2>5, <2>6, <2>7 DEF Mended, Files!Stamped
<1>3. QED BY <1>1, <1>2

LEMMA RenamedMends ==
  ASSUME Files!FilesAssumption, NEW rs \in Seq(RuleSet), Len(rs) <= MaxRules, NEW k \in 1..Len(rs),
         NEW t, Mended(rs, t, k - 1)
  PROVE  Mended(rs, Files!Renamed(t, k), k)
<1> DEFINE n == Len(rs)
           free == {x \in Names : ~Files!Taken(t, x, 0)}
<1>0. t \in Seq(RuleSet) /\ Len(t) = n /\ n \in Nat /\ DOMAIN t = 1..n BY DEF Mended, Like
<1>1. CASE ~Files!Taken(t, t[k].name, k)
  <2>1. Files!Renamed(t, k) = t BY <1>1 DEF Files!Renamed
  <2>2. \A j \in 1..n : j # k => t[j].name # t[k].name BY <1>0, <1>1 DEF Files!Taken
  <2>3. ApartUpto(t, k)
    <3>1. \A i \in 1..k : i = k \/ i \in 1..(k - 1) BY <1>0
    <3>2. QED BY <1>0, <2>2, <3>1 DEF Mended, ApartUpto
  <2>4. QED BY <2>1, <2>3 DEF Mended
<1>2. CASE Files!Taken(t, t[k].name, k)
  <2>1. PICK l \in 1..n : l # k /\ t[l].name = t[k].name BY <1>0, <1>2 DEF Files!Taken
  <2>2. free # {}
    <3> DEFINE D == (1..n) \ {k}
               g == [j \in D |-> t[j].name]
    <3>1. IsFiniteSet(1..n) /\ Cardinality(1..n) = n
      <4> HIDE DEF n
      <4>1. QED BY <1>0, FS_Interval
    <3>2. IsFiniteSet(D) /\ Cardinality(D) = n - 1 BY <3>1, FS_RemoveElement
    <3>3. IsFiniteSet(Names) /\ Cardinality(Names) >= MaxRules /\ MaxRules \in Nat BY SameCardinality DEF Files!FilesAssumption
    <3>4. Cardinality(Names) \in Nat BY <3>3, FS_CardinalityType
    <3>5. PICK x \in Names : \A j \in D : g[j] # x
      <4> HIDE DEF D, g
      <4>1. Cardinality(D) < Cardinality(Names) BY <1>0, <3>2, <3>3, <3>4
      <4>2. QED BY <3>2, <3>3, <4>1, OneLeftOver
    <3>6. \A j \in 1..n : t[j].name # x
      <4>1. \A j \in 1..n : j # k => t[j].name # x BY <3>5
      <4>2. QED BY <4>1, <2>1
    <3>7. x \in free BY <1>0, <3>6 DEF Files!Taken
    <3>8. QED BY <3>7
  <2>3. PICK x \in free : x = CHOOSE y \in free : TRUE BY <2>2
  <2>4. PICK u : u = [t EXCEPT ![k] = [@ EXCEPT !.name = x, !.changed = TRUE]] OBVIOUS
  <2>5. u = Files!Renamed(t, k) BY <1>2, <2>2, <2>3, <2>4 DEF Files!Renamed
  <2>6. x \in Names /\ \A j \in 1..n : t[j].name # x
    <3>1. 0 \notin 1..n BY <1>0
    <3>2. QED BY <1>0, <3>1 DEF Files!Taken
  <2> HIDE DEF free
  <2>7. k \in 1..n /\ t[k] \in RuleSet BY <1>0
  <2> DEFINE c == [t[k] EXCEPT !.name = x, !.changed = TRUE]
  <2>8. c \in RuleSet /\ u = [t EXCEPT ![k] = c] BY <2>4, <2>6, <2>7 DEF RuleSet
  <2>9. u \in Seq(RuleSet) /\ Len(u) = n /\ u[k] = c /\ \A i \in 1..n : i # k => u[i] = t[i]
    <3> HIDE DEF c
    <3>1. QED BY <1>0, <2>7, <2>8, RulePut
  <2>10. \A i \in 1..n : i # k => u[i] = t[i] BY <2>9
  <2>11. u[k].file = t[k].file /\ u[k].body = t[k].body /\ u[k].name = x /\ u[k].changed = TRUE BY <2>7, <2>9 DEF RuleSet
  <2>12. Like(rs, u)
    <3>1. Like(rs, t) BY DEF Mended
    <3>2. QED BY <2>9, <2>10, <2>11, <3>1 DEF Like
  <2>13. ApartUpto(u, k)
    <3>1. SUFFICES ASSUME NEW i \in 1..k, NEW j \in 1..n, u[i].name = u[j].name, i # j PROVE FALSE BY <2>9 DEF ApartUpto
    <3>2. i \in 1..n BY <1>0
    <3>3. CASE i = k BY <3>1, <3>3, <2>6, <2>10, <2>11
    <3>4. CASE j = k BY <3>1, <3>2, <3>4, <2>6, <2>10, <2>11
    <3>5. CASE i # k /\ j # k
      <4>1. i \in 1..(k - 1) BY <3>5, <1>0
      <4>2. ApartUpto(t, k - 1) BY DEF Mended
      <4>3. u[i] = t[i] /\ u[j] = t[j] BY <3>2, <3>5, <2>10
      <4>4. QED BY <3>1, <4>1, <4>2, <4>3, <1>0 DEF ApartUpto
    <3>6. QED BY <3>3, <3>4, <3>5
  <2>14. ~ApartUpto(rs, Len(rs))
    <3>1. SUFFICES ASSUME ApartUpto(rs, n) PROVE FALSE OBVIOUS
    <3>2. t[k].name = rs[k].name /\ t[l].name = rs[l].name BY <3>1 DEF Mended
    <3>3. QED BY <2>1, <3>1, <3>2 DEF ApartUpto
  <2>15. QED BY <2>5, <2>12, <2>13, <2>14 DEF Mended
<1>3. QED BY <1>1, <1>2
-----------------------------------------------------------------------------
AfterMend(f, rs, k) ==
  IF k = 0 THEN rs ELSE IF k <= Len(rs) THEN Files!Stamped(f[k - 1], k) ELSE Files!Renamed(f[k - 1], k - Len(rs))
AllMended(rs) == CHOOSE f : f = [k \in 0..2 * Len(rs) |-> AfterMend(f, rs, k)]

LEMMA MendsRun == ASSUME NEW rs PROVE Files!Resolved(rs) = AllMended(rs)[2 * Len(rs)]
BY DEF Files!Resolved, AllMended, AfterMend

(* How many rules have their names after so many mends. *)
Done(rs, k) == IF k <= Len(rs) THEN 0 ELSE k - Len(rs)

LEMMA OneMoreMend ==
  ASSUME Files!FilesAssumption, NEW rs \in Seq(RuleSet), Len(rs) <= MaxRules, NEW k \in 0..2 * Len(rs), NEW f,
         k # 0 => Mended(rs, f[k - 1], Done(rs, k - 1))
  PROVE  Mended(rs, AfterMend(f, rs, k), Done(rs, k))
<1>0. Len(rs) \in Nat OBVIOUS
<1>1. CASE k = 0
  <2>1. AfterMend(f, rs, k) = rs /\ Done(rs, k) = 0 BY <1>0, <1>1 DEF AfterMend, Done
  <2>2. Mended(rs, rs, 0) BY DEF Mended, Like, ApartUpto
  <2>3. QED BY <2>1, <2>2
<1>2. CASE k # 0 /\ k <= Len(rs)
  <2>1. k \in 1..Len(rs) /\ Done(rs, k) = 0 /\ Done(rs, k - 1) = 0 BY <1>0, <1>2 DEF Done
  <2>2. PICK t : t = f[k - 1] OBVIOUS
  <2>3. Mended(rs, t, 0) BY <1>2, <2>1, <2>2
  <2>4. Mended(rs, Files!Stamped(t, k), 0) BY <2>1, <2>3, StampedMends
  <2>5. QED BY <1>2, <2>1, <2>2, <2>4 DEF AfterMend
<1>3. CASE k > Len(rs)
  <2>1. PICK m \in 1..Len(rs) : m = k - Len(rs) BY <1>0, <1>3
  <2>2. Done(rs, k) = m /\ Done(rs, k - 1) = m - 1 /\ k # 0 BY <1>0, <1>3, <2>1 DEF Done
  <2>3. PICK t : t = f[k - 1] OBVIOUS
  <2>4. Mended(rs, t, m - 1) BY <2>2, <2>3
  <2>5. Mended(rs, Files!Renamed(t, m), m) BY <2>1, <2>4, RenamedMends
  <2>6. AfterMend(f, rs, k) = Files!Renamed(t, m) BY <1>0, <1>3, <2>1, <2>2, <2>3 DEF AfterMend
  <2>7. QED BY <2>2, <2>5, <2>6
<1>4. QED BY <1>0, <1>1, <1>2, <1>3

LEMMA MendsDefined ==
  ASSUME Files!FilesAssumption, NEW rs \in Seq(RuleSet), Len(rs) <= MaxRules
  PROVE  \E f : DOMAIN f = 0..2 * Len(rs) /\ f = [k \in 0..2 * Len(rs) |-> AfterMend(f, rs, k)]
<1>0. PICK last \in Nat : last = 2 * Len(rs) OBVIOUS
<1> DEFINE Upto(f, n) == \A k \in 0..n : f[k] = AfterMend(f, rs, k) /\ Mended(rs, f[k], Done(rs, k))
           bad == {n \in 0..last : ~\E f \in [0..last -> Seq(RuleSet)] : Upto(f, n)}
<1>1. ASSUME bad # {} PROVE FALSE
  <2>1. bad \subseteq Nat OBVIOUS
  <2>2. PICK n \in bad : \A m \in bad : n <= m
    <3> HIDE DEF bad
    <3>1. QED BY <1>1, <2>1, LeastOf
  <2>3. n \in 0..last /\ ~\E f \in [0..last -> Seq(RuleSet)] : Upto(f, n) OBVIOUS
  <2>4. PICK f \in [0..last -> Seq(RuleSet)] : n # 0 => Upto(f, n - 1)
    <3>1. CASE n = 0
      <4>1. [k \in 0..last |-> rs] \in [0..last -> Seq(RuleSet)] OBVIOUS
      <4> HIDE DEF Upto
      <4>2. QED BY <3>1, <4>1
    <3>2. CASE n # 0
      <4>1. n - 1 \in 0..last /\ n - 1 \notin bad
        <5> HIDE DEF bad
        <5>1. QED BY <2>2, <2>3, <3>2
      <4> HIDE DEF Upto
      <4>2. QED BY <4>1
    <3>3. QED BY <3>1, <3>2
  <2>5. n # 0 => Mended(rs, f[n - 1], Done(rs, n - 1)) BY <2>3, <2>4
  <2>6. Mended(rs, AfterMend(f, rs, n), Done(rs, n)) BY <1>0, <2>3, <2>5, OneMoreMend
  <2>7. PICK u \in Seq(RuleSet) : u = AfterMend(f, rs, n) BY <2>6 DEF Mended, Like
  <2>8. PICK g \in [0..last -> Seq(RuleSet)] : g = [f EXCEPT ![n] = u] OBVIOUS
  <2>9. g[n] = u /\ \A k \in 0..last : k # n => g[k] = f[k] BY <2>3, <2>8
  <2>10. ASSUME NEW k \in 0..n PROVE AfterMend(g, rs, k) = AfterMend(f, rs, k)
    <3>1. k = 0 \/ g[k - 1] = f[k - 1] BY <2>3, <2>9
    <3>2. QED BY <3>1 DEF AfterMend
  <2>11. Upto(g, n)
    <3>1. SUFFICES ASSUME NEW k \in 0..n PROVE g[k] = AfterMend(g, rs, k) /\ Mended(rs, g[k], Done(rs, k)) OBVIOUS
    <3>2. CASE k = n BY <3>2, <2>6, <2>7, <2>9, <2>10
    <3>3. CASE k # n
      <4>1. k \in 0..(n - 1) /\ k \in 0..last /\ n # 0 BY <2>3, <3>3
      <4>2. f[k] = AfterMend(f, rs, k) /\ Mended(rs, f[k], Done(rs, k)) BY <4>1, <2>4
      <4>3. QED BY <4>1, <4>2, <3>3, <2>9, <2>10
    <3>4. QED BY <3>2, <3>3
  <2>12. QED
    <3> HIDE DEF Upto
    <3>1. QED BY <2>3, <2>11
<1>2. last \notin bad
  <2> HIDE DEF bad
  <2>1. QED BY <1>1
<1>3. PICK f \in [0..last -> Seq(RuleSet)] : Upto(f, last)
  <2> HIDE DEF Upto
  <2>1. QED BY <1>2
<1>4. f = [k \in 0..last |-> AfterMend(f, rs, k)] BY <1>3
<1>5. QED BY <1>0, <1>4

(* The rules a boot goes on with are those read, with a name each. *)
LEMMA ResolvedMended ==
  ASSUME Files!FilesAssumption, NEW rs \in Seq(RuleSet), Len(rs) <= MaxRules
  PROVE  Mended(rs, Files!Resolved(rs), Len(rs))
<1>0. PICK n \in Nat : n = Len(rs) OBVIOUS
<1> DEFINE f == AllMended(rs)
<1>1. f = [k \in 0..2 * n |-> AfterMend(f, rs, k)]
  <2>1. PICK g : g = [k \in 0..2 * n |-> AfterMend(g, rs, k)] BY <1>0, MendsDefined
  <2>2. QED BY <1>0, <2>1 DEF AllMended
<1> HIDE DEF f
<1>2. \A k \in 0..2 * n : f[k] = AfterMend(f, rs, k) BY <1>1
<1> DEFINE bad == {k \in 0..2 * n : ~Mended(rs, f[k], Done(rs, k))}
<1>3. ASSUME bad # {} PROVE FALSE
  <2>1. PICK k \in bad : \A m \in bad : k <= m
    <3>1. bad \subseteq Nat OBVIOUS
    <3> HIDE DEF bad
    <3>2. QED BY <1>3, <3>1, LeastOf
  <2>2. k \in 0..2 * n /\ ~Mended(rs, f[k], Done(rs, k)) OBVIOUS
  <2>3. k # 0 => k - 1 \in 0..2 * n /\ k - 1 \notin bad
    <3> HIDE DEF bad
    <3>1. QED BY <2>1, <2>2
  <2>4. k # 0 => Mended(rs, f[k - 1], Done(rs, k - 1)) BY <2>3
  <2>5. Mended(rs, AfterMend(f, rs, k), Done(rs, k)) BY <1>0, <2>2, <2>4, OneMoreMend
  <2>6. QED BY <1>2, <2>2, <2>5
<1>4. Mended(rs, f[2 * n], Done(rs, 2 * n))
  <2>1. 2 * n \in 0..2 * n BY <1>0
  <2>2. QED BY <1>3, <2>1
<1>5. Done(rs, 2 * n) = n BY <1>0 DEF Done
<1>6. QED BY <1>0, <1>4, <1>5, MendsRun DEF f
-----------------------------------------------------------------------------
SavedIn(f) == {n \in Names : f[n] \notin {Absent, Refused}}
(* No file holds the rule of another file, or one of the same name.  *)
Tidy(f) == \A a, b \in SavedIn(f) : a # b => f[a].name \notin {b, f[b].name}
Whole(f) == \A n \in Names : f[n] # Refused
Fits(f) == Cardinality(SavedIn(f)) <= MaxRules

FilesTyped ==
  /\ files \in [Names -> Files!Contents \cup {Absent, Refused}] /\ phase \in {"off", "repair", "up"}
  /\ rules \in Seq(RuleSet) /\ Len(rules) <= MaxRules /\ dropping \in Names \cup {Absent}
  /\ round \in {0, 1} /\ at \in Nat /\ at >= 1 /\ occupied = {}

WhileOff == phase = "off" => (Tidy(files) \/ Whole(files)) /\ Fits(files) /\ dropping = Absent /\ rules = <<>>

NamesApart == \A j, k \in DOMAIN rules : rules[j].name = rules[k].name => j = k
OfRules == phase # "off" => NamesApart /\ promised = {rules[k].body : k \in DOMAIN rules}

(* What the file of a rule holds. *)
Held(k) == Files!Saved(rules[k].file) /\ files[rules[k].file].body = rules[k].body
Titled(k) == files[rules[k].file].name = rules[k].name
Squats(k) == Files!Vacating(rules[k])
Stuck(k) == Files!Blocked(rules[k])
(* The repairs have yet to come to a rule. *)
Ahead(k) == round = 0 \/ k >= at

(* A rule in a file of another's name leaves it in the first round, and until  *)
(* then may be the only one that knows what the file held.                      *)
LeavesFirst == \A k \in DOMAIN rules : Squats(k) => round = 0 /\ k >= at /\ ~Stuck(k)
StaysHeld ==
  \A k \in DOMAIN rules : ~Squats(k) =>
    /\ Held(k)
    /\ Titled(k) \/ (rules[k].changed = TRUE /\ Ahead(k) /\ ~Stuck(k))
(* No two are in one file but that of a third. *)
AloneInFile == \A j, k \in DOMAIN rules : rules[j].file = rules[k].file /\ rules[j].file \notin Files!Canonical => j = k
(* A rule that stays where it was is kept out by a file that was not loaded. *)
MovesFromLoaded ==
  /\ \A k \in DOMAIN rules : Files!Moved(rules[k]) => rules[k].file \in loaded
  /\ \A k \in DOMAIN rules : Files!Moved(rules[k]) /\ ~Ahead(k) => rules[k].name \notin loaded
  /\ \A f \in loaded \cap Files!Canonical : Files!Saved(f)
(* A file is a rule's, or will be, or goes next. *)
FilesOwned ==
  \A f \in Names : Files!Saved(f) =>
    \/ f = dropping
    \/ \E k \in DOMAIN rules : rules[k].file = f
    \/ \E k \in DOMAIN rules : Files!Moved(rules[k]) /\ rules[k].name = f /\ f \in loaded
OldIsNobodys ==
  dropping # Absent => /\ dropping \notin Files!Canonical /\ Files!Saved(dropping)
                       /\ \A k \in DOMAIN rules : rules[k].file # dropping
InRepair ==
  phase = "repair" => LeavesFirst /\ StaysHeld /\ AloneInFile /\ MovesFromLoaded /\ FilesOwned /\ OldIsNobodys

EachInItsFile ==
  /\ \A j, k \in DOMAIN rules : rules[j].file \in {rules[k].file, rules[k].name} => j = k
  /\ \A k \in DOMAIN rules : Held(k) /\ Titled(k)
  /\ \A f \in Names : Files!Saved(f) => f = dropping \/ \E k \in DOMAIN rules : rules[k].file = f
(* The file a rename leaves holds the rule under its old name. *)
OldIsApart ==
  dropping # Absent =>
    /\ Files!Saved(dropping) /\ files[dropping].body \in promised
    /\ \A k \in DOMAIN rules : /\ rules[k].file \notin {dropping, files[dropping].name}
                               /\ rules[k].name \notin {dropping, files[dropping].name}
WhileUp == phase = "up" => EachInItsFile /\ OldIsApart

FolderInv == FilesTyped /\ WhileOff /\ OfRules /\ InRepair /\ WhileUp

(* Every write is done, and the folder fits and is tidy or holds nothing the   *)
(* loader refuses.                                                              *)
FoldersMend == ~WritesFail /\ Orphans = {} /\ \A f \in Folders : (Tidy(f) \/ Whole(f)) /\ Fits(f)

(* No power is lost between the two writes of a rename while the store is full. *)
RoomAtCut == phase = "up" /\ phase' = "off" => dropping = Absent \/ Len(rules) < MaxRules
-----------------------------------------------------------------------------
LEMMA SavedContent ==
  ASSUME FilesTyped, NEW f \in Names
  PROVE  Files!Saved(f) <=> files[f] \in Files!Contents
<1>1. files[f] \in Files!Contents \cup {Absent, Refused} BY DEF FilesTyped
<1>2. Absent \notin Files!Contents /\ Refused \notin Files!Contents BY PartsAssumption DEF Files!FilesAssumption
<1>3. QED BY <1>1, <1>2 DEF Files!Saved

LEMMA RuleFields ==
  ASSUME FilesTyped, NEW k \in DOMAIN rules
  PROVE  rules[k] \in RuleSet /\ rules[k].file \in Names /\ rules[k].name \in Names /\ rules[k].body \in Bodies
<1>1. rules[k] \in RuleSet BY DEF FilesTyped
<1>2. QED BY <1>1 DEF RuleSet

LEMMA FileOfContent == ASSUME NEW c \in RuleSet
  PROVE Files!FileOf(c) \in Files!Contents /\ Files!FileOf(c).name = c.name /\ Files!FileOf(c).body = c.body
BY DEF RuleSet, Files!FileOf, Files!Content, Files!Contents

LEMMA WritesDone == ASSUME FoldersMend, NEW c, NEW saved \in BOOLEAN, Files!Writes(c, saved) PROVE saved = TRUE
BY DEF FoldersMend, Files!Writes

LEMMA FolderInit == ASSUME FoldersMend, Files!Init PROVE FolderInv
<1>0. Files!FilesAssumption BY PartsAssumption
<1>1. /\ files \in Folders /\ phase = "off" /\ rules = <<>> /\ round = 0 /\ at = 1
      /\ occupied = {} /\ dropping = Absent
  BY DEF Files!Init
<1>2. FilesTyped BY <1>0, <1>1 DEF FilesTyped, Files!FilesAssumption
<1>3. WhileOff BY <1>1 DEF WhileOff, FoldersMend
<1>4. OfRules /\ InRepair /\ WhileUp BY <1>1 DEF OfRules, InRepair, WhileUp
<1>5. QED BY <1>2, <1>3, <1>4 DEF FolderInv

(* The files read are all those saved. *)
LEMMA AllRead ==
  ASSUME FolderInv, phase = "off", NEW order \in Files!Orders
  PROVE  /\ order \in Seq(Names) /\ Len(order) <= MaxRules /\ \A j, k \in DOMAIN order : order[j] = order[k] => j = k
         /\ Files!Range(order) = SavedIn(files)
<1>0. Files!FilesAssumption BY PartsAssumption
<1> DEFINE S == SavedIn(files)
<1>1. S = {f \in Names : Files!Saved(f)} BY DEF SavedIn, Files!Saved
<1>2. IsFiniteSet(Names) /\ MaxRules \in Nat BY <1>0, SameCardinality DEF Files!FilesAssumption
<1>3. IsFiniteSet(S)
  <2>1. S \in SUBSET Names BY <1>1
  <2>2. QED BY <1>2, <2>1, FS_Subset
<1>4. Cardinality(S) \in Nat /\ Cardinality(S) <= MaxRules
  <2>1. Fits(files) BY DEF FolderInv, WhileOff
  <2>2. QED BY <1>3, <2>1, FS_CardinalityType DEF Fits
<1>5. PICK n \in 0..MaxRules : order \in [1..n -> S]
  BY <1>1 DEF Files!Orders
<1>6. Len(order) = n /\ n \in Nat /\ order \in Seq(Names) BY <1>1, <1>2, <1>5
<1>7. \A j, k \in DOMAIN order : order[j] = order[k] => j = k BY DEF Files!Orders, Files!IsInjective
<1>8. n = Cardinality(S)
  <2>1. Len(order) = Files!Min({MaxRules, Files!Cardinality(S)}) BY <1>1 DEF Files!Orders
  <2>2. PICK c \in Nat : c = Cardinality(S) /\ c <= MaxRules BY <1>4
  <2>3. n = Files!Min({MaxRules, c}) BY <1>6, <2>1, <2>2, SameCardinality
  <2>4. Files!Min({MaxRules, c}) = c BY <1>2, <2>2 DEF Files!Min
  <2>5. QED BY <2>2, <2>3, <2>4
<1>9. Files!Range(order) = S
  <2>1. order \in Injection(1..n, S) BY <1>5, <1>7 DEF Injection, IsInjective
  <2>2. Cardinality(1..n) = n BY <1>6, FS_Interval
  <2> HIDE DEF S
  <2>3. order \in Surjection(1..n, S) BY <1>3, <1>8, <2>1, <2>2, FS_Injection
  <2>4. QED BY <1>5, <2>3 DEF Surjection, Files!Range
<1>10. QED BY <1>2, <1>5, <1>6, <1>7, <1>9

LEMMA BootMends ==
  ASSUME FoldersMend, FolderInv, NEW order \in Files!Orders, Files!Boot(order)
  PROVE  FolderInv'
<1>0. Files!FilesAssumption /\ FilesTyped BY PartsAssumption DEF FolderInv
<1> DEFINE rs == [k \in DOMAIN order |->
                 [id |-> files[order[k]].id, name |-> files[order[k]].name, body |-> files[order[k]].body,
                  file |-> order[k], changed |-> FALSE]]
<1>1. /\ phase = "off" /\ rules' = Files!Resolved(rs) /\ phase' = "repair" /\ round' = 0 /\ at' = 1 /\ occupied' = {}
      /\ dropping' = Absent /\ loaded' = Files!Range(order) /\ files' = files
      /\ promised' = {files[f].body : f \in {n \in Names : Files!Saved(n)}}
  BY DEF Files!Boot
<1>2. /\ order \in Seq(Names) /\ Len(order) <= MaxRules /\ \A j, k \in DOMAIN order : order[j] = order[k] => j = k
      /\ Files!Range(order) = SavedIn(files)
  BY <1>1, AllRead
<1>3. \A f \in Names : f \in SavedIn(files) <=> Files!Saved(f) BY DEF SavedIn, Files!Saved
<1>4. \A k \in DOMAIN order : order[k] \in Names /\ Files!Saved(order[k]) /\ files[order[k]] \in Files!Contents
  <2>1. SUFFICES ASSUME NEW k \in DOMAIN order PROVE order[k] \in Names /\ Files!Saved(order[k]) /\ files[order[k]] \in Files!Contents OBVIOUS
  <2>2. order[k] \in Names /\ order[k] \in SavedIn(files) BY <1>2 DEF Files!Range
  <2>3. QED BY <1>0, <1>3, <2>2, SavedContent
<1>5. rs \in Seq(RuleSet) /\ Len(rs) = Len(order)
  <2>1. \A k \in DOMAIN order : rs[k] \in RuleSet BY <1>4 DEF RuleSet, Files!Contents
  <2>2. DOMAIN order = 1..Len(order) /\ Len(order) \in Nat BY <1>2
  <2>3. rs = [k \in 1..Len(order) |-> rs[k]] BY <2>2
  <2> HIDE DEF rs
  <2>4. QED BY <2>1, <2>2, <2>3
<1>6. \A k \in DOMAIN order : rs[k].name = files[order[k]].name /\ rs[k].body = files[order[k]].body /\ rs[k].file = order[k] OBVIOUS
<1> HIDE DEF rs
<1>7. PICK n \in Nat : n = Len(order) /\ DOMAIN order = 1..n BY <1>2
<1>8. Mended(rs, rules', n) BY <1>0, <1>1, <1>2, <1>5, <1>7, ResolvedMended
<1>9. rules' \in Seq(RuleSet) /\ Len(rules') = n /\ DOMAIN rules' = 1..n BY <1>5, <1>7, <1>8 DEF Mended, Like
<1>10. \A k \in 1..n : /\ rules'[k].file = order[k] /\ rules'[k].body = files[order[k]].body
                       /\ rules'[k].name = files[order[k]].name \/ rules'[k].changed = TRUE
  BY <1>5, <1>6, <1>7, <1>8 DEF Mended, Like
<1>11. \A j, k \in 1..n : rules'[j].name = rules'[k].name => j = k BY <1>8, <1>9 DEF Mended, ApartUpto
<1>12. FilesTyped' BY <1>0, <1>1, <1>2, <1>7, <1>9 DEF FilesTyped
<1>13. \A f \in Names : Files!Saved(f) => \E k \in 1..n : order[k] = f
  <2>1. SUFFICES ASSUME NEW f \in Names, Files!Saved(f) PROVE \E k \in 1..n : order[k] = f OBVIOUS
  <2>2. f \in Files!Range(order) BY <1>2, <1>3, <2>1
  <2>3. QED BY <1>7, <2>2 DEF Files!Range
<1>14. OfRules'
  <2>1. promised' = {rules'[k].body : k \in DOMAIN rules'}
    <3>1. \A k \in 1..n : order[k] \in Names /\ Files!Saved(order[k]) BY <1>4, <1>7
    <3>2. {files[f].body : f \in {x \in Names : Files!Saved(x)}} = {files[order[k]].body : k \in 1..n} BY <1>13, <3>1
    <3>3. {files[order[k]].body : k \in 1..n} = {rules'[k].body : k \in 1..n} BY <1>10
    <3>4. QED BY <1>1, <1>9, <3>2, <3>3
  <2>2. NamesApart' BY <1>9, <1>11 DEF NamesApart
  <2>3. QED BY <2>1, <2>2 DEF OfRules
<1>15. InRepair'
  <2>0. \A f \in Names : Files!Saved(f)' <=> Files!Saved(f) BY <1>1 DEF Files!Saved
  <2>1. \A k \in 1..n : order[k] \in Names /\ Files!Saved(order[k]) BY <1>4, <1>7
  <2>2. \A k \in 1..n : rules'[k] \in RuleSet BY <1>9
  <2>2a. \A k \in 1..n : rules'[k].name \in Names BY <2>2 DEF RuleSet
  <2>3. \A k \in 1..n : Held(k)' BY <1>1, <1>10, <2>0, <2>1 DEF Held
  <2>4. \A k \in 1..n : Whole(files) => ~Stuck(k)'
    <3>1. SUFFICES ASSUME Whole(files), NEW k \in 1..n PROVE ~Stuck(k)' OBVIOUS
    <3>2. rules'[k].name \in Names /\ files[rules'[k].name] # Refused BY <3>1, <2>2a DEF Whole
    <3>3. files[rules'[k].name] # Absent => rules'[k].name \in loaded' BY <1>1, <1>2, <1>3, <3>2 DEF Files!Saved
    <3>4. QED BY <1>1, <3>3 DEF Stuck, Files!Blocked
  <2>5. Tidy(files) => \A j, k \in 1..n : j # k => files[order[j]].name \notin {order[k], files[order[k]].name}
    <3>1. \A j \in 1..n : order[j] \in SavedIn(files) BY <1>3, <2>1
    <3>2. \A j, k \in 1..n : j # k => order[j] # order[k] BY <1>2, <1>7
    <3>3. QED BY <3>1, <3>2 DEF Tidy
  <2>6. Tidy(files) => \A k \in 1..n : rules'[k].name = files[order[k]].name
    <3>1. SUFFICES ASSUME Tidy(files) PROVE \A k \in 1..n : rules'[k].name = files[order[k]].name OBVIOUS
    <3>2. ApartUpto(rs, n) BY <2>5, <3>1, <1>5, <1>6, <1>7 DEF ApartUpto
    <3>3. QED BY <1>5, <1>6, <1>7, <1>8, <3>2 DEF Mended
  <2>7. Tidy(files) => \A k \in 1..n : ~Squats(k)'
    <3>1. SUFFICES ASSUME Tidy(files), NEW k \in 1..n, Files!Moved(rules'[k]), rules'[k].file \in Files!Canonical' PROVE FALSE
      BY Zenon DEF Squats, Files!Vacating
    <3>2. PICK j \in 1..n : rules'[j].name = order[k] BY <3>1, <1>9, <1>10 DEF Files!Canonical
    <3>3. j # k BY <3>1, <3>2, <1>10 DEF Files!Moved
    <3>4. QED BY <3>1, <3>2, <3>3, <2>5, <2>6
  <2>8. Tidy(files) \/ Whole(files) BY <1>1 DEF FolderInv, WhileOff
  <2>9. LeavesFirst' BY <1>1, <1>9, <2>4, <2>7, <2>8 DEF LeavesFirst
  <2>10. StaysHeld'
    <3>1. SUFFICES ASSUME NEW k \in 1..n, ~(Titled(k)') PROVE rules'[k].changed = TRUE /\ Ahead(k)' /\ ~Stuck(k)'
      BY <1>9, <2>3 DEF StaysHeld
    <3>2. rules'[k].name # files[order[k]].name BY <1>1, <1>10, <3>1 DEF Titled
    <3>3. Whole(files) /\ rules'[k].changed = TRUE BY <3>2, <2>6, <2>8, <1>10
    <3>4. QED BY <3>3, <2>4, <1>1 DEF Ahead
  <2>11. AloneInFile' BY <1>2, <1>7, <1>9, <1>10 DEF AloneInFile
  <2>12. MovesFromLoaded'
    <3>1. \A k \in 1..n : order[k] \in loaded' BY <1>1, <1>7 DEF Files!Range
    <3>2. \A f \in loaded' : Files!Saved(f) BY <1>1, <1>2 DEF SavedIn, Files!Saved
    <3>2a. loaded' \subseteq Names BY <1>1, <1>2 DEF SavedIn
    <3>3. QED BY <1>1, <1>9, <1>10, <2>0, <3>1, <3>2, <3>2a DEF MovesFromLoaded, Ahead
  <2>13. FilesOwned' BY <1>9, <1>10, <1>13, <2>0 DEF FilesOwned
  <2>14. OldIsNobodys' BY <1>1 DEF OldIsNobodys
  <2>15. QED BY <2>9, <2>10, <2>11, <2>12, <2>13, <2>14 DEF InRepair
<1>16. WhileOff' /\ WhileUp' BY <1>1 DEF WhileOff, WhileUp
<1>17. QED BY <1>12, <1>14, <1>15, <1>16 DEF FolderInv
-----------------------------------------------------------------------------
(* A rule not due, or one that cannot go: the next one's turn. *)
LEMMA SkippedMends ==
  ASSUME FolderInv, phase = "repair", at <= Len(rules),
         \/ ~((Files!Moved(rules[at]) \/ rules[at].changed) /\ (Squats(at) <=> round = 0))
         \/ Stuck(at),
         at' = at + 1, UNCHANGED <<files, phase, rules, round, loaded, occupied, dropping, promised>>
  PROVE  FolderInv'
<1>0. FilesTyped /\ at \in Nat /\ at >= 1 /\ occupied = {} /\ round \in {0, 1} BY DEF FolderInv, FilesTyped
<1>1. FilesTyped' BY <1>0 DEF FilesTyped
<1>2. LeavesFirst /\ StaysHeld /\ AloneInFile /\ MovesFromLoaded /\ FilesOwned /\ OldIsNobodys BY DEF FolderInv, InRepair
<1>3. at \in DOMAIN rules BY <1>0 DEF FilesTyped
<1>4. \A k \in DOMAIN rules : (Squats(k)' <=> Squats(k)) /\ (Stuck(k)' <=> Stuck(k)) /\ (Held(k)' <=> Held(k)) /\ (Titled(k)' <=> Titled(k))
  BY DEF Squats, Stuck, Held, Titled, Files!Vacating, Files!Blocked, Files!Canonical, Files!Moved, Files!Saved
<1>5. \A k \in DOMAIN rules : Ahead(k)' => Ahead(k)
  <2>1. \A k \in DOMAIN rules : k \in Nat BY <1>0 DEF FilesTyped
  <2>2. QED BY <1>0, <2>1 DEF Ahead
<1>6. \A k \in DOMAIN rules : Ahead(k) /\ ~(Ahead(k)') => k = at /\ round = 1
  <2>1. \A k \in DOMAIN rules : k \in Nat BY <1>0 DEF FilesTyped
  <2>2. QED BY <1>0, <2>1 DEF Ahead
<1>7. Squats(at) => Files!Moved(rules[at]) BY DEF Squats, Files!Vacating
<1>8. ~Squats(at) BY <1>2, <1>3, <1>7 DEF LeavesFirst
<1>9. LeavesFirst'
  <2>1. \A k \in DOMAIN rules : k \in Nat BY <1>0 DEF FilesTyped
  <2>2. \A k \in DOMAIN rules : Squats(k) => k >= at + 1 BY <1>0, <1>2, <1>8, <2>1 DEF LeavesFirst
  <2>3. QED BY <1>2, <1>4, <2>2 DEF LeavesFirst
<1>10. StaysHeld'
  <2>1. SUFFICES ASSUME NEW k \in DOMAIN rules, ~Squats(k), ~Titled(k), rules[k].changed = TRUE, Ahead(k), ~Stuck(k) PROVE Ahead(k)'
    BY <1>2, <1>4 DEF StaysHeld
  <2>2. k # at \/ round # 1 BY <2>1, <1>8
  <2>3. QED BY <2>1, <2>2, <1>6
<1>11. MovesFromLoaded'
  <2>1. \A k \in DOMAIN rules : Files!Moved(rules[k]) /\ ~(Ahead(k)') => rules[k].name \notin loaded
    <3>1. SUFFICES ASSUME NEW k \in DOMAIN rules, Files!Moved(rules[k]), ~(Ahead(k)'), Ahead(k) PROVE rules[k].name \notin loaded
      BY <1>2 DEF MovesFromLoaded
    <3>2. k = at /\ round = 1 BY <3>1, <1>6
    <3>3. Stuck(at) BY <3>1, <3>2, <1>8
    <3>4. QED BY <1>0, <3>2, <3>3 DEF Stuck, Files!Blocked
  <2>2. QED BY <1>2, <2>1 DEF MovesFromLoaded, Files!Canonical, Files!Saved, Files!Moved
<1>12. AloneInFile' /\ FilesOwned' /\ OldIsNobodys'
  BY <1>2 DEF AloneInFile, FilesOwned, OldIsNobodys, Files!Canonical, Files!Saved, Files!Moved
<1>13. InRepair' BY <1>9, <1>10, <1>11, <1>12 DEF InRepair
<1>14. OfRules' BY DEF FolderInv, OfRules, NamesApart
<1>15. WhileOff' /\ WhileUp' BY DEF WhileOff, WhileUp
<1>16. QED BY <1>1, <1>13, <1>14, <1>15 DEF FolderInv

(* A rule written to the file of its name. *)
Puts(to) ==
  /\ phase = "repair" /\ dropping = Absent /\ at <= Len(rules) /\ ~Stuck(at)
  /\ to = [rules[at] EXCEPT !.file = rules[at].name]
  /\ files' = [files EXCEPT ![rules[at].name] = Files!FileOf(to)]
  /\ rules' = [rules EXCEPT ![at] = to]
  /\ dropping' = IF Files!Moved(rules[at]) /\ ~Squats(at) THEN rules[at].file ELSE Absent
  /\ at' = at + 1 /\ UNCHANGED <<phase, round, loaded, occupied, promised>>

LEMMA PutMends ==
  ASSUME FolderInv, NEW to, Puts(to)
  PROVE  FolderInv' /\ files[rules[at].name] # Refused
<1>0. FilesTyped /\ at \in Nat /\ at >= 1 /\ occupied = {} /\ round \in {0, 1} /\ Absent \notin Names
      /\ phase = "repair" /\ dropping = Absent /\ at <= Len(rules)
  BY PartsAssumption DEF Puts, FolderInv, FilesTyped, Files!FilesAssumption
<1>1. PICK n \in Nat : n = Len(rules) /\ DOMAIN rules = 1..n BY <1>0 DEF FilesTyped
<1>2. LeavesFirst /\ StaysHeld /\ AloneInFile /\ MovesFromLoaded /\ FilesOwned BY <1>0 DEF FolderInv, InRepair
<1>3. PICK i \in 1..n : i = at BY <1>0, <1>1
<1>4. PICK old \in Names, name \in Names, body \in Bodies : old = rules[i].file /\ name = rules[i].name /\ body = rules[i].body
  BY <1>0, <1>1, <1>3, RuleFields
<1>4a. /\ to = [rules[i] EXCEPT !.file = name] /\ rules' = [rules EXCEPT ![i] = to]
       /\ files' = [files EXCEPT ![name] = Files!FileOf(to)]
  BY <1>3, <1>4 DEF Puts
<1>4b. dropping' = IF Files!Moved(rules[i]) /\ ~Squats(i) THEN old ELSE Absent
  BY <1>3, <1>4 DEF Puts
<1>4c. ~Stuck(i) /\ at' = i + 1 /\ UNCHANGED <<phase, round, loaded, occupied, promised>> BY <1>3 DEF Puts
<1>5. to \in RuleSet /\ to.file = name /\ to.name = name /\ to.body = body
  <2>1. rules[i] \in RuleSet BY <1>0, <1>1, <1>3, RuleFields
  <2>2. QED BY <1>4a, <2>1, <1>3, <1>4 DEF RuleSet
<1>6. /\ rules' \in Seq(RuleSet) /\ Len(rules') = n /\ DOMAIN rules' = 1..n
      /\ rules'[i] = to /\ \A k \in 1..n : k # i => rules'[k] = rules[k]
  <2>1. rules \in Seq(RuleSet) BY <1>0 DEF FilesTyped
  <2>2. QED BY <1>4a, <1>1, <1>3, <1>5, <2>1, RulePut
<1>7. PICK content \in Files!Contents : content = Files!FileOf(to) /\ content.name = name /\ content.body = body BY <1>5, FileOfContent
<1>8. files \in [Names -> Files!Contents \cup {Absent, Refused}] BY <1>0 DEF FilesTyped
<1>9. files' \in [Names -> Files!Contents \cup {Absent, Refused}] /\ files'[name] = content /\ \A f \in Names : f # name => files'[f] = files[f]
  BY <1>4a, <1>3, <1>4, <1>7, <1>8
<1>10. FilesTyped'
  <2>1. Len(rules') <= MaxRules BY <1>0, <1>1, <1>6 DEF FilesTyped
  <2>2. dropping' \in Names \cup {Absent} BY <1>4b, <1>3, <1>4
  <2>3. QED BY <1>4c, <1>0, <1>6, <1>9, <2>1, <2>2 DEF FilesTyped
<1>11. \A k \in 1..n : rules'[k].name = rules[k].name /\ rules'[k].body = rules[k].body /\ rules'[k].changed = rules[k].changed
  <2>1. to.changed = rules[i].changed
    <3>1. rules[i] \in RuleSet BY <1>0, <1>1, <1>3, RuleFields
    <3>2. QED BY <1>4a, <3>1 DEF RuleSet
  <2>2. QED BY <1>3, <1>4, <1>5, <1>6, <2>1
<1>12. Files!Canonical' = Files!Canonical BY <1>1, <1>6, <1>11 DEF Files!Canonical
<1>13. NamesApart /\ promised = {rules[k].body : k \in 1..n} BY <1>0, <1>1 DEF FolderInv, OfRules
<1>14. \A k \in 1..n : k # i => rules[k].name # name BY <1>1, <1>3, <1>4, <1>13 DEF NamesApart
<1>15. name \in Files!Canonical /\ \A k \in 1..n : rules[k].name \in Files!Canonical BY <1>1, <1>3, <1>4 DEF Files!Canonical
<1>16. \A k \in 1..n : rules[k].file \in Names /\ rules[k].name \in Names BY <1>0, <1>1, RuleFields
<1>17. Files!Saved(name)' /\ \A f \in Names : f # name => (Files!Saved(f)' <=> Files!Saved(f))
  <2>1. content \notin {Absent, Refused} BY PartsAssumption DEF Files!FilesAssumption
  <2>2. QED BY <1>9, <2>1 DEF Files!Saved
<1>18. ~(Squats(i)') BY <1>5, <1>6 DEF Squats, Files!Vacating, Files!Moved
<1>19. \A k \in 1..n : k # i => (Squats(k)' <=> Squats(k)) /\ (Stuck(k)' <=> Stuck(k))
  <2>1. SUFFICES ASSUME NEW k \in 1..n, k # i PROVE (Squats(k)' <=> Squats(k)) /\ (Stuck(k)' <=> Stuck(k)) OBVIOUS
  <2>2. rules'[k] = rules[k] /\ rules[k].name \in Names /\ rules[k].name # name BY <2>1, <1>6, <1>14, <1>16
  <2>3. files'[rules[k].name] = files[rules[k].name] BY <2>2, <1>9
  <2>4. Squats(k)' <=> Squats(k)
    <3>1. Squats(k) <=> rules[k].file # rules[k].name /\ rules[k].file \in Files!Canonical
      BY DEF Squats, Files!Vacating, Files!Moved
    <3>2. Squats(k)' <=> rules'[k].file # rules'[k].name /\ rules'[k].file \in Files!Canonical'
      BY DEF Squats, Files!Vacating, Files!Moved
    <3>3. QED BY <1>12, <2>2, <3>1, <3>2
  <2>5. Stuck(k)' <=> Stuck(k) BY <1>4c, <2>2, <2>3 DEF Stuck, Files!Blocked, Files!Moved
  <2>6. QED BY <2>4, <2>5
<1>20. \A k \in 1..n : k # i => (Ahead(k)' <=> Ahead(k)) /\ (k >= i => k >= i + 1) BY <1>4c, <1>0, <1>3 DEF Ahead
<1>21. LeavesFirst' BY <1>4c, <1>1, <1>2, <1>3, <1>6, <1>18, <1>19, <1>20 DEF LeavesFirst
(* What another rule that does not squat holds is not in the file written. *)
<1>22. \A k \in 1..n : k # i /\ ~Squats(k) => rules[k].file # name
  <2>1. SUFFICES ASSUME NEW k \in 1..n, k # i, ~Squats(k), rules[k].file = name PROVE FALSE OBVIOUS
  <2>2. rules[k].name = name BY <2>1, <1>15 DEF Squats, Files!Vacating, Files!Moved
  <2>3. QED BY <2>1, <2>2, <1>14
<1>23. StaysHeld'
  <2>1. SUFFICES ASSUME NEW k \in 1..n, ~(Squats(k)')
                 PROVE  Held(k)' /\ (Titled(k)' \/ (rules'[k].changed = TRUE /\ Ahead(k)' /\ ~(Stuck(k)')))
    BY <1>6 DEF StaysHeld
  <2>2. CASE k = i
    <3>1. Held(k)' /\ Titled(k)' BY <2>2, <1>5, <1>6, <1>7, <1>9, <1>17 DEF Held, Titled
    <3>2. QED BY <3>1
  <2>3. CASE k # i
    <3>1. ~Squats(k) /\ rules'[k] = rules[k] /\ rules[k].file \in Names /\ rules[k].file # name
      BY <2>1, <2>3, <1>6, <1>16, <1>19, <1>22
    <3>2. Held(k)' <=> Held(k) BY <3>1, <1>9, <1>17 DEF Held
    <3>3. Titled(k)' <=> Titled(k) BY <3>1, <1>9 DEF Titled
    <3>4. Held(k) /\ (Titled(k) \/ (rules[k].changed = TRUE /\ Ahead(k) /\ ~Stuck(k))) BY <3>1, <1>1, <1>2 DEF StaysHeld
    <3>5. QED BY <3>1, <3>2, <3>3, <3>4, <2>3, <1>19, <1>20
  <2>4. QED BY <2>2, <2>3
<1>24. AloneInFile'
  <2>1. SUFFICES ASSUME NEW j \in 1..n, NEW k \in 1..n, rules'[j].file = rules'[k].file, rules'[j].file \notin Files!Canonical PROVE j = k
    BY <1>6, <1>12 DEF AloneInFile
  <2>2. j # i /\ k # i BY <2>1, <1>5, <1>6, <1>15
  <2>3. QED BY <2>1, <2>2, <1>1, <1>2, <1>6 DEF AloneInFile
<1>25. MovesFromLoaded'
  <2>1. ~Files!Moved(rules'[i]) BY <1>5, <1>6 DEF Files!Moved
  <2>2. \A f \in loaded \cap Files!Canonical : f \in Names BY <1>1, <1>16 DEF Files!Canonical
  <2>3. QED BY <1>4c, <2>1, <2>2, <1>1, <1>2, <1>6, <1>12, <1>17, <1>20 DEF MovesFromLoaded, Files!Moved
<1>26. FilesOwned'
  <2>1. SUFFICES ASSUME NEW f \in Names, Files!Saved(f)', f # name, \A k \in 1..n : rules'[k].file # f, f # dropping'
                 PROVE  \E k \in 1..n : Files!Moved(rules'[k]) /\ rules'[k].name = f /\ f \in loaded
    BY <1>4c, <1>5, <1>6 DEF FilesOwned, Files!Moved
  <2>2. CASE f = old
    <3>1. Squats(i) /\ old \in loaded BY <1>4b, <2>1, <2>2, <1>1, <1>2, <1>3, <1>4 DEF MovesFromLoaded, Files!Moved
    <3>2. PICK j \in 1..n : rules[j].name = f BY <3>1, <2>2, <1>1, <1>3, <1>4 DEF Squats, Files!Vacating, Files!Canonical
    <3>3. j # i BY <3>2, <2>1, <1>3, <1>4
    <3>4. QED BY <3>1, <3>2, <3>3, <2>1, <2>2, <1>6 DEF Files!Moved
  <2>3. CASE f # old
    <3>1. \A k \in 1..n : rules[k].file # f BY <2>1, <2>3, <1>3, <1>4, <1>6
    <3>2. Files!Saved(f) /\ f # dropping BY <1>4b, <2>1, <1>0, <1>17
    <3>3. PICK k \in 1..n : Files!Moved(rules[k]) /\ rules[k].name = f /\ f \in loaded BY <3>1, <3>2, <1>1, <1>2 DEF FilesOwned
    <3>4. k # i BY <3>3, <2>1, <1>3, <1>4
    <3>5. QED BY <3>3, <3>4, <1>6
  <2>4. QED BY <2>2, <2>3
<1>27. OldIsNobodys'
  <2>1. SUFFICES ASSUME dropping' # Absent PROVE dropping' \notin Files!Canonical /\ Files!Saved(dropping)' /\ \A k \in 1..n : rules'[k].file # dropping'
    BY <1>6, <1>12 DEF OldIsNobodys
  <2>2. dropping' = old /\ old # name /\ ~Squats(i) BY <1>4b, <2>1, <1>3, <1>4 DEF Files!Moved
  <2>3. old \notin Files!Canonical BY <2>2, <1>3, <1>4 DEF Squats, Files!Vacating, Files!Moved
  <2>4. Files!Saved(old) BY <2>2, <1>1, <1>2, <1>3, <1>4 DEF StaysHeld, Held
  <2>5. \A k \in 1..n : k # i => rules[k].file # old BY <2>3, <1>1, <1>2, <1>3, <1>4 DEF AloneInFile
  <2>6. Files!Saved(old)' BY <2>2, <2>4, <1>17
  <2>7. Files!Saved(dropping)' BY <2>2, <2>6 DEF Files!Saved
  <2>8. QED BY <2>2, <2>3, <2>5, <2>7, <1>5, <1>6
<1>28. InRepair' BY <1>0, <1>4c, <1>21, <1>23, <1>24, <1>25, <1>26, <1>27 DEF InRepair
<1>29. OfRules'
  <2>1. promised' = {rules'[k].body : k \in 1..n} BY <1>4c, <1>11, <1>13
  <2>2. NamesApart' BY <1>1, <1>6, <1>11, <1>13 DEF NamesApart
  <2>3. QED BY <2>1, <2>2, <1>6 DEF OfRules
<1>30. WhileOff' /\ WhileUp' BY <1>0, <1>4c DEF WhileOff, WhileUp
<1>31. files[name] # Refused
  <2>1. CASE Files!Moved(rules[i])
    <3>1. name \in loaded \/ files[name] = Absent BY <1>4c, <2>1, <1>0, <1>3, <1>4 DEF Stuck, Files!Blocked
    <3>2. QED BY <3>1, <1>2, <1>15, PartsAssumption DEF MovesFromLoaded, Files!Saved, Files!FilesAssumption
  <2>2. CASE ~Files!Moved(rules[i])
    <3>1. old = name /\ ~Squats(i) BY <2>2, <1>3, <1>4 DEF Files!Moved, Squats, Files!Vacating
    <3>2. QED BY <3>1, <1>1, <1>2, <1>3, <1>4 DEF StaysHeld, Held, Files!Saved
  <2>3. QED BY <2>1, <2>2
<1>32. QED BY <1>3, <1>4, <1>10, <1>28, <1>29, <1>30, <1>31 DEF FolderInv
LEMMA RepairMends ==
  ASSUME FoldersMend, FolderInv, NEW saved \in BOOLEAN, Files!RepairRule(saved)
  PROVE  FolderInv' /\ Files!RefusedStays
<1> DEFINE c == rules[at]
           its == (Files!Moved(c) \/ c.changed) /\ (Files!Vacating(c) <=> round = 0)
           to == [c EXCEPT !.file = c.name]
<1>1. /\ phase = "repair" /\ dropping = Absent /\ at <= Len(rules) /\ at' = at + 1
      /\ UNCHANGED <<phase, round, loaded, promised>>
  BY DEF Files!RepairRule
<1>2. CASE ~its \/ Files!Blocked(c)
  <2>1. UNCHANGED <<files, rules, occupied, dropping>> BY <1>2 DEF Files!RepairRule
  <2>2. ~((Files!Moved(rules[at]) \/ rules[at].changed) /\ (Squats(at) <=> round = 0)) \/ Stuck(at)
    BY <1>2 DEF Squats, Stuck
  <2>3. FolderInv' BY <1>1, <2>1, <2>2, SkippedMends
  <2>4. Files!RefusedStays BY <2>1 DEF Files!RefusedStays
  <2>5. QED BY <2>3, <2>4
<1>3. CASE its /\ ~Files!Blocked(c)
  <2>1. /\ Files!Writes(to, saved)
        /\ files' = IF saved THEN [files EXCEPT ![c.name] = Files!FileOf(to)] ELSE files
        /\ rules' = IF saved THEN [rules EXCEPT ![at] = to] ELSE rules
        /\ occupied' = IF ~saved /\ Files!Moved(c) THEN occupied \cup {c.file} ELSE occupied
        /\ dropping' = IF saved /\ Files!Moved(c) /\ ~Files!Vacating(c) THEN c.file ELSE Absent
    BY <1>3 DEF Files!RepairRule
  <2>2. saved = TRUE BY <2>1, WritesDone
  <2>3. Puts(to) BY <1>1, <1>3, <2>1, <2>2 DEF Puts, Squats, Stuck
  <2> HIDE DEF to, its
  <2>4. FolderInv' /\ files[rules[at].name] # Refused BY <2>3, PutMends
  <2>5. files \in [Names -> Files!Contents \cup {Absent, Refused}] BY DEF FolderInv, FilesTyped
  <2>6. Files!RefusedStays BY <2>1, <2>2, <2>4, <2>5 DEF Files!RefusedStays
  <2>7. QED BY <2>4, <2>6
<1>4. QED BY <1>2, <1>3

LEMMA RoundMends == ASSUME FolderInv, Files!NextRound PROVE FolderInv'
<1>0. /\ FilesTyped /\ Absent \notin Names /\ round \in {0, 1} /\ phase = "repair" /\ dropping = Absent /\ at > Len(rules)
      /\ UNCHANGED <<files, rules, loaded, occupied, dropping, promised>>
  BY PartsAssumption DEF Files!NextRound, FolderInv, FilesTyped, Files!FilesAssumption
<1>1. PICK n \in Nat : n = Len(rules) /\ DOMAIN rules = 1..n /\ at \in Nat /\ n < at BY <1>0 DEF FilesTyped
<1>2. LeavesFirst /\ StaysHeld /\ AloneInFile /\ MovesFromLoaded /\ FilesOwned /\ NamesApart BY <1>0 DEF FolderInv, InRepair, OfRules
<1>3. \A k \in 1..n : ~Squats(k) /\ Held(k)
  <2>1. \A k \in 1..n : ~Squats(k) BY <1>1, <1>2 DEF LeavesFirst
  <2>2. QED BY <1>1, <1>2, <2>1 DEF StaysHeld
<1>4. \A k \in 1..n : (Held(k)' <=> Held(k)) /\ (Titled(k)' <=> Titled(k))
  BY <1>0 DEF Held, Titled, Files!Saved
<1>5. OfRules' BY <1>0, <1>2 DEF FolderInv, OfRules, NamesApart
<1>6. CASE round = 0
  <2>1. round' = 1 /\ at' = 1 /\ phase' = phase BY <1>6 DEF Files!NextRound
  <2>2. FilesTyped' BY <1>0, <2>1 DEF FilesTyped
  <2>3. \A k \in 1..n : (Squats(k)' <=> Squats(k)) /\ (Stuck(k)' <=> Stuck(k))
    BY <1>0 DEF Squats, Stuck, Files!Vacating, Files!Blocked, Files!Canonical, Files!Moved
  <2>4. \A k \in 1..n : Ahead(k)' BY <2>1 DEF Ahead
  <2>5. LeavesFirst' BY <1>0, <1>1, <1>3, <2>3 DEF LeavesFirst
  <2>6. StaysHeld' BY <1>0, <1>1, <1>2, <1>3, <1>4, <2>3, <2>4 DEF StaysHeld
  <2>7. MovesFromLoaded'
    <3>1. (\A k \in DOMAIN rules : Files!Moved(rules[k]) => rules[k].file \in loaded)'
      BY <1>0, <1>2 DEF MovesFromLoaded, Files!Moved
    <3>2. (\A f \in loaded \cap Files!Canonical : Files!Saved(f))'
      BY <1>0, <1>2 DEF MovesFromLoaded, Files!Canonical, Files!Saved
    <3>3. QED BY <1>0, <1>1, <2>4, <3>1, <3>2 DEF MovesFromLoaded
  <2>8. AloneInFile' /\ FilesOwned' /\ OldIsNobodys'
    BY <1>0, <1>2 DEF AloneInFile, FilesOwned, OldIsNobodys, Files!Canonical, Files!Saved, Files!Moved
  <2>9. InRepair' BY <2>5, <2>6, <2>7, <2>8 DEF InRepair
  <2>10. WhileOff' /\ WhileUp' BY <1>0, <2>1 DEF WhileOff, WhileUp
  <2>11. QED BY <1>5, <2>2, <2>9, <2>10 DEF FolderInv
<1>7. CASE round = 1
  <2>1. phase' = "up" /\ round' = 0 /\ at' = 1 BY <1>7 DEF Files!NextRound
  <2>2. FilesTyped' BY <1>0, <2>1 DEF FilesTyped
  <2>3. \A k \in 1..n : ~Ahead(k) BY <1>1, <1>7 DEF Ahead
  <2>4. \A k \in 1..n : Titled(k) BY <1>1, <1>2, <1>3, <2>3 DEF StaysHeld
  <2>5. \A k \in 1..n : rules[k].file # rules[k].name => rules[k].file \notin Files!Canonical
    BY <1>3 DEF Squats, Files!Vacating, Files!Moved
  <2>6. \A k \in 1..n : rules[k].name \in Files!Canonical BY <1>1 DEF Files!Canonical
  <2>7. \A j, k \in 1..n : rules[j].file \in {rules[k].file, rules[k].name} => j = k
    <3>1. SUFFICES ASSUME NEW j \in 1..n, NEW k \in 1..n, rules[j].file \in {rules[k].file, rules[k].name} PROVE j = k OBVIOUS
    <3>2. CASE rules[j].file \in Files!Canonical
      <4>1. rules[j].file = rules[j].name BY <3>2, <2>5
      <4>2. rules[j].name = rules[k].name BY <3>1, <3>2, <4>1, <2>5
      <4>3. QED BY <4>2, <1>1, <1>2 DEF NamesApart
    <3>3. CASE rules[j].file \notin Files!Canonical
      <4>1. rules[j].file = rules[k].file BY <3>1, <3>3, <2>6
      <4>2. QED BY <3>3, <4>1, <1>1, <1>2 DEF AloneInFile
    <3>4. QED BY <3>2, <3>3
  <2>8. \A f \in Names : Files!Saved(f) => \E k \in 1..n : rules[k].file = f
    <3>1. SUFFICES ASSUME NEW f \in Names, Files!Saved(f) PROVE \E k \in 1..n : rules[k].file = f OBVIOUS
    <3>2. ~\E k \in 1..n : Files!Moved(rules[k]) /\ rules[k].name = f /\ f \in loaded
      BY <1>1, <1>2, <2>3 DEF MovesFromLoaded
    <3>3. QED BY <3>1, <3>2, <1>0, <1>1, <1>2 DEF FilesOwned
  <2>9. EachInItsFile' BY <1>0, <1>1, <1>3, <1>4, <2>4, <2>7, <2>8 DEF EachInItsFile, Files!Saved
  <2>10. OldIsApart' BY <1>0 DEF OldIsApart
  <2>11. WhileUp' /\ WhileOff' /\ InRepair' BY <2>1, <2>9, <2>10 DEF WhileUp, WhileOff, InRepair
  <2>12. QED BY <1>5, <2>2, <2>11 DEF FolderInv
<1>8. QED BY <1>0, <1>6, <1>7

LEMMA DropMends ==
  ASSUME FolderInv, NEW how \in {Absent, Refused}, Files!DropOld(how)
  PROVE  FolderInv' /\ Files!RefusedStays
<1>0. /\ FilesTyped /\ Absent \notin Names /\ dropping # Absent /\ dropping' = Absent
      /\ files' = [files EXCEPT ![dropping] = IF @ = Absent THEN @ ELSE how]
      /\ UNCHANGED <<phase, rules, round, at, loaded, occupied, promised>>
  BY PartsAssumption DEF Files!DropOld, Files!Deleted, FolderInv, Files!FilesAssumption
<1>1. PICK n \in Nat : n = Len(rules) /\ DOMAIN rules = 1..n BY <1>0 DEF FilesTyped
<1>2. PICK old \in Names : old = dropping BY <1>0 DEF FilesTyped
<1>3. /\ files \in [Names -> Files!Contents \cup {Absent, Refused}] /\ files' \in [Names -> Files!Contents \cup {Absent, Refused}]
      /\ files'[old] \in {Absent, Refused} /\ \A f \in Names : f # old => files'[f] = files[f]
  BY <1>0, <1>2 DEF FilesTyped
<1>4. FilesTyped' BY <1>0, <1>3 DEF FilesTyped
<1>5. phase \in {"repair", "up"} BY <1>0 DEF FolderInv, FilesTyped, WhileOff
<1>6. ~(Files!Saved(old)') /\ \A f \in Names : f # old => (Files!Saved(f)' <=> Files!Saved(f)) BY <1>3 DEF Files!Saved
<1>7. \A k \in 1..n : rules[k].file \in Names /\ rules[k].name \in Names BY <1>0, <1>1, RuleFields
<1>8. OfRules' BY <1>0, <1>5 DEF FolderInv, OfRules, NamesApart
<1>9. Files!Saved(old) => Files!RefusedStays BY <1>3 DEF Files!RefusedStays, Files!Saved
<1>10. (\A k \in 1..n : rules[k].file # old) => \A k \in 1..n : (Held(k)' <=> Held(k)) /\ (Titled(k)' <=> Titled(k))
  <2>1. SUFFICES ASSUME NEW k \in 1..n, rules[k].file # old PROVE (Held(k)' <=> Held(k)) /\ (Titled(k)' <=> Titled(k)) OBVIOUS
  <2>2. rules' = rules /\ rules[k].file \in Names BY <1>0, <1>7
  <2>3. files'[rules[k].file] = files[rules[k].file] BY <1>3, <2>1, <2>2
  <2>4. QED BY <2>2, <2>3 DEF Held, Titled, Files!Saved
<1>11. CASE phase = "repair"
  <2>1. LeavesFirst /\ StaysHeld /\ AloneInFile /\ MovesFromLoaded /\ FilesOwned BY <1>11 DEF FolderInv, InRepair
  <2>2. old \notin Files!Canonical /\ Files!Saved(old) /\ \A k \in 1..n : rules[k].file # old
    BY <1>0, <1>1, <1>2, <1>11 DEF FolderInv, InRepair, OldIsNobodys
  <2>3. Files!Canonical' = Files!Canonical BY <1>0 DEF Files!Canonical
  <2>4. \A k \in 1..n : (Squats(k)' <=> Squats(k)) /\ (Stuck(k)' <=> Stuck(k)) /\ (Ahead(k)' <=> Ahead(k))
    <3>1. SUFFICES ASSUME NEW k \in 1..n PROVE (Squats(k)' <=> Squats(k)) /\ (Stuck(k)' <=> Stuck(k)) /\ (Ahead(k)' <=> Ahead(k)) OBVIOUS
    <3>2. Squats(k)' <=> Squats(k) BY <1>0 DEF Squats, Files!Vacating, Files!Moved, Files!Canonical
    <3>3. rules[k].name # old /\ rules[k].name \in Names BY <2>2, <1>1, <1>7 DEF Files!Canonical
    <3>4. files'[rules[k].name] = files[rules[k].name] BY <1>3, <3>3
    <3>5. Stuck(k)' <=> Stuck(k) BY <1>0, <3>4 DEF Stuck, Files!Blocked, Files!Moved
    <3>6. QED BY <1>0, <3>2, <3>5 DEF Ahead
  <2>5. LeavesFirst' BY <1>0, <1>1, <2>1, <2>4 DEF LeavesFirst
  <2>6. StaysHeld' BY <1>0, <1>1, <1>10, <2>1, <2>2, <2>4 DEF StaysHeld
  <2>7. AloneInFile' BY <1>0, <2>1, <2>3 DEF AloneInFile
  <2>8. MovesFromLoaded'
    <3>1. \A f \in loaded \cap Files!Canonical : f \in Names /\ f # old BY <1>1, <1>7, <2>2 DEF Files!Canonical
    <3>2. QED BY <1>0, <1>1, <1>6, <2>1, <2>3, <2>4, <3>1 DEF MovesFromLoaded, Files!Moved
  <2>9. FilesOwned' BY <1>0, <1>2, <1>6, <2>1 DEF FilesOwned, Files!Moved
  <2>10. OldIsNobodys' BY <1>0 DEF OldIsNobodys
  <2>11. InRepair' BY <2>5, <2>6, <2>7, <2>8, <2>9, <2>10 DEF InRepair
  <2>12. WhileOff' /\ WhileUp' BY <1>0, <1>11 DEF WhileOff, WhileUp
  <2>13. QED BY <1>4, <1>8, <1>9, <2>2, <2>11, <2>12 DEF FolderInv
<1>12. CASE phase = "up"
  <2>1. EachInItsFile BY <1>12 DEF FolderInv, WhileUp
  <2>2. Files!Saved(old) /\ \A k \in 1..n : rules[k].file # old
    BY <1>0, <1>1, <1>2, <1>12 DEF FolderInv, WhileUp, OldIsApart
  <2>3. EachInItsFile'
    <3>1. \A f \in Names : Files!Saved(f)' => \E k \in 1..n : rules[k].file = f BY <1>1, <1>2, <1>6, <2>1 DEF EachInItsFile
    <3>2. \A k \in 1..n : Held(k)' /\ Titled(k)' BY <1>1, <1>10, <2>1, <2>2 DEF EachInItsFile
    <3>3. QED BY <1>0, <1>1, <2>1, <3>1, <3>2 DEF EachInItsFile
  <2>4. OldIsApart' BY <1>0 DEF OldIsApart
  <2>5. WhileOff' /\ InRepair' /\ WhileUp' BY <1>0, <1>12, <2>3, <2>4 DEF WhileOff, InRepair, WhileUp
  <2>6. QED BY <1>4, <1>8, <1>9, <2>2, <2>5 DEF FolderInv
<1>13. QED BY <1>5, <1>11, <1>12
-----------------------------------------------------------------------------
(* The API runs on rules that are each in the file of its name. *)
LEMMA IdleFacts ==
  ASSUME FolderInv, Files!Idle
  PROVE  /\ FilesTyped /\ EachInItsFile /\ NamesApart /\ phase = "up" /\ dropping = Absent
         /\ promised = {rules[k].body : k \in DOMAIN rules}
         /\ files \in [Names -> Files!Contents \cup {Absent, Refused}]
         /\ DOMAIN rules = 1..Len(rules) /\ Len(rules) \in Nat
         /\ \A k \in DOMAIN rules : rules[k].file \in Names /\ rules[k].name \in Names /\ Files!Saved(rules[k].file)
         /\ \A f \in Names : Files!Saved(f) => \E k \in DOMAIN rules : rules[k].file = f
         /\ Absent \notin Names /\ Absent \notin Files!Contents /\ Refused \notin Files!Contents /\ Absent # Refused
<1>1. Absent \notin Names /\ Absent \notin Files!Contents /\ Refused \notin Files!Contents /\ Absent # Refused
  BY PartsAssumption DEF Files!FilesAssumption
<1>2. phase = "up" /\ dropping = Absent /\ FilesTyped /\ EachInItsFile BY DEF Files!Idle, FolderInv, WhileUp
<1>3. NamesApart /\ promised = {rules[k].body : k \in DOMAIN rules} BY <1>2 DEF FolderInv, OfRules
<1>4. DOMAIN rules = 1..Len(rules) /\ Len(rules) \in Nat BY <1>2 DEF FilesTyped
<1>5. files \in [Names -> Files!Contents \cup {Absent, Refused}] BY <1>2 DEF FilesTyped
<1>6. \A k \in DOMAIN rules : rules[k].file \in Names /\ rules[k].name \in Names /\ Files!Saved(rules[k].file)
  BY <1>2, RuleFields DEF EachInItsFile, Held
<1>7. \A f \in Names : Files!Saved(f) => \E k \in DOMAIN rules : rules[k].file = f BY <1>1, <1>2 DEF EachInItsFile
<1>8. QED BY <1>1, <1>2, <1>3, <1>4, <1>5, <1>6, <1>7

LEMMA StillUp ==
  ASSUME FilesTyped', phase' = "up", NamesApart', promised' = {rules'[k].body : k \in DOMAIN rules'}, EachInItsFile', OldIsApart'
  PROVE  FolderInv'
BY DEF FolderInv, OfRules, WhileOff, InRepair, WhileUp

LEMMA AddMends ==
  ASSUME FoldersMend, FolderInv, NEW name \in Names, NEW body \in Bodies, NEW saved \in BOOLEAN, Files!Add(name, body, saved)
  PROVE  FolderInv' /\ Files!RefusedStays
<1> DEFINE new == Files!New(name, body)
<1>0. /\ Files!Idle /\ Len(rules) < MaxRules /\ files[name] = Absent /\ \A k \in DOMAIN rules : k # 0 => rules[k].name # name
      /\ Files!Writes(new, saved) /\ rules' = Append(rules, new)
      /\ files' = IF saved THEN [files EXCEPT ![name] = Files!FileOf(new)] ELSE files
      /\ promised' = IF saved THEN promised \cup {body} ELSE promised
      /\ UNCHANGED <<phase, round, at, loaded, occupied, dropping>>
  BY DEF Files!Add, Files!Free, Files!Taken
<1>1. /\ FilesTyped /\ EachInItsFile /\ NamesApart /\ phase = "up" /\ dropping = Absent
      /\ promised = {rules[k].body : k \in DOMAIN rules}
      /\ files \in [Names -> Files!Contents \cup {Absent, Refused}]
      /\ DOMAIN rules = 1..Len(rules) /\ Len(rules) \in Nat
      /\ \A k \in DOMAIN rules : rules[k].file \in Names /\ rules[k].name \in Names /\ Files!Saved(rules[k].file)
      /\ \A f \in Names : Files!Saved(f) => \E k \in DOMAIN rules : rules[k].file = f
      /\ Absent \notin Names /\ Absent \notin Files!Contents /\ Refused \notin Files!Contents /\ Absent # Refused
  BY <1>0, IdleFacts
<1>2. PICK n \in Nat : n = Len(rules) /\ DOMAIN rules = 1..n BY <1>1
<1>3. saved = TRUE BY <1>0, WritesDone
<1>4. PICK c \in RuleSet : c = new /\ c.name = name /\ c.file = name /\ c.body = body
  <2>1. Files!FreeId(rules) \in Nat BY <1>1, FreeIdIsNat DEF FilesTyped
  <2>2. new \in RuleSet /\ new.name = name /\ new.file = name /\ new.body = body BY <2>1 DEF Files!New, RuleSet
  <2> HIDE DEF new
  <2>3. QED BY <2>2
<1> HIDE DEF new
<1>5. PICK content \in Files!Contents : content = Files!FileOf(c) /\ content.name = name /\ content.body = body BY <1>4, FileOfContent
<1>6. /\ rules' \in Seq(RuleSet) /\ Len(rules') = n + 1 /\ DOMAIN rules' = 1..(n + 1)
      /\ rules'[n + 1] = c /\ \A k \in 1..n : rules'[k] = rules[k]
  <2>1. rules \in Seq(RuleSet) /\ rules' = Append(rules, c) BY <1>0, <1>1, <1>4 DEF FilesTyped
  <2>2. QED BY <2>1, <1>2
<1>7. /\ files' \in [Names -> Files!Contents \cup {Absent, Refused}] /\ files'[name] = content
      /\ \A f \in Names : f # name => files'[f] = files[f]
  <2>1. files' = [files EXCEPT ![name] = content] BY <1>0, <1>3, <1>4, <1>5
  <2>2. QED BY <2>1, <1>1
<1>8. FilesTyped'
  <2>1. Len(rules') <= MaxRules BY <1>0, <1>2, <1>6, PartsAssumption DEF Files!FilesAssumption
  <2>2. QED BY <2>1, <1>0, <1>1, <1>6, <1>7 DEF FilesTyped
<1>9. \A k \in 1..n : rules[k].file # name /\ rules[k].name # name
  <2>1. ~Files!Saved(name) BY <1>0 DEF Files!Saved
  <2>2. \A k \in 1..n : k # 0 OBVIOUS
  <2>3. QED BY <2>1, <2>2, <1>0, <1>1, <1>2
<1>10. \A k \in 1..(n + 1) : k = n + 1 \/ k \in 1..n BY <1>2
<1>11. NamesApart' BY <1>1, <1>2, <1>4, <1>6, <1>9, <1>10 DEF NamesApart
<1>12. promised' = {rules'[k].body : k \in DOMAIN rules'}
  <2>1. {rules'[k].body : k \in 1..(n + 1)} = {rules'[k].body : k \in 1..n} \cup {rules'[n + 1].body} BY <1>10
  <2>2. {rules'[k].body : k \in 1..n} = {rules[k].body : k \in 1..n} BY <1>6
  <2>3. promised' = promised \cup {body} BY <1>0, <1>3
  <2>4. QED BY <2>1, <2>2, <2>3, <1>1, <1>2, <1>4, <1>6
<1>13. Files!Saved(name)' /\ \A f \in Names : f # name => (Files!Saved(f)' <=> Files!Saved(f)) BY <1>1, <1>7 DEF Files!Saved
<1>14. EachInItsFile'
  <2>1. \A j, k \in 1..(n + 1) : rules'[j].file \in {rules'[k].file, rules'[k].name} => j = k
    <3>1. SUFFICES ASSUME NEW j \in 1..(n + 1), NEW k \in 1..(n + 1), rules'[j].file \in {rules'[k].file, rules'[k].name} PROVE j = k
      OBVIOUS
    <3>2. CASE j = n + 1 BY <3>1, <3>2, <1>4, <1>6, <1>9, <1>10
    <3>3. CASE k = n + 1 BY <3>1, <3>3, <1>4, <1>6, <1>9, <1>10
    <3>4. CASE j \in 1..n /\ k \in 1..n BY <3>1, <3>4, <1>1, <1>2, <1>6 DEF EachInItsFile
    <3>5. QED BY <3>2, <3>3, <3>4, <1>10
  <2>2. \A k \in 1..(n + 1) : Held(k)' /\ Titled(k)'
    <3>1. SUFFICES ASSUME NEW k \in 1..(n + 1) PROVE Held(k)' /\ Titled(k)' OBVIOUS
    <3>2. CASE k = n + 1 BY <3>2, <1>4, <1>5, <1>6, <1>7, <1>13 DEF Held, Titled
    <3>3. CASE k \in 1..n
      <4>1. rules'[k] = rules[k] /\ rules[k].file \in Names /\ rules[k].file # name BY <3>3, <1>1, <1>2, <1>6, <1>9
      <4>2. files'[rules[k].file] = files[rules[k].file] BY <4>1, <1>7
      <4>3. Held(k) /\ Titled(k) BY <3>3, <1>1, <1>2 DEF EachInItsFile
      <4>4. QED BY <4>1, <4>2, <4>3 DEF Held, Titled, Files!Saved
    <3>4. QED BY <3>2, <3>3, <1>10
  <2>3. \A f \in Names : Files!Saved(f)' => \E k \in 1..(n + 1) : rules'[k].file = f
    <3>1. SUFFICES ASSUME NEW f \in Names, Files!Saved(f)' PROVE \E k \in 1..(n + 1) : rules'[k].file = f OBVIOUS
    <3>2. CASE f = name BY <3>2, <1>4, <1>6
    <3>3. CASE f # name
      <4>1. PICK k \in 1..n : rules[k].file = f BY <3>1, <3>3, <1>1, <1>2, <1>13
      <4>2. k \in 1..(n + 1) BY <4>1
      <4>3. QED BY <4>1, <4>2, <1>6
    <3>4. QED BY <3>2, <3>3
  <2>4. QED BY <2>1, <2>2, <2>3, <1>6 DEF EachInItsFile
<1>15. OldIsApart' BY <1>0, <1>1 DEF OldIsApart
<1>16. phase' = "up" BY <1>0, <1>1
<1>17. FolderInv' BY <1>8, <1>11, <1>12, <1>14, <1>15, <1>16, StillUp
<1>18. Files!RefusedStays BY <1>0, <1>1, <1>7 DEF Files!RefusedStays
<1>19. QED BY <1>17, <1>18

LEMMA RenameMends ==
  ASSUME FoldersMend, FolderInv, NEW i \in DOMAIN rules, NEW name \in Names, NEW saved \in BOOLEAN, Files!Rename(i, name, saved)
  PROVE  FolderInv' /\ Files!RefusedStays
<1> DEFINE to == [rules[i] EXCEPT !.name = name, !.file = name]
<1>0. /\ Files!Idle /\ files[name] = Absent /\ name # rules[i].name /\ \A k \in DOMAIN rules : k # i => rules[k].name # name
      /\ Files!Writes(to, saved) /\ rules' = [rules EXCEPT ![i] = to]
      /\ files' = IF saved THEN [files EXCEPT ![name] = Files!FileOf(to)] ELSE files
      /\ dropping' = IF saved THEN rules[i].file ELSE Absent
      /\ UNCHANGED <<phase, round, at, loaded, occupied, promised>>
  BY DEF Files!Rename, Files!Free, Files!Taken
<1>1. /\ FilesTyped /\ EachInItsFile /\ NamesApart /\ phase = "up" /\ dropping = Absent
      /\ promised = {rules[k].body : k \in DOMAIN rules}
      /\ files \in [Names -> Files!Contents \cup {Absent, Refused}]
      /\ DOMAIN rules = 1..Len(rules) /\ Len(rules) \in Nat
      /\ \A k \in DOMAIN rules : rules[k].file \in Names /\ rules[k].name \in Names /\ Files!Saved(rules[k].file)
      /\ \A f \in Names : Files!Saved(f) => \E k \in DOMAIN rules : rules[k].file = f
      /\ Absent \notin Names /\ Absent \notin Files!Contents /\ Refused \notin Files!Contents /\ Absent # Refused
  BY <1>0, IdleFacts
<1>2. PICK n \in Nat : n = Len(rules) /\ DOMAIN rules = 1..n BY <1>1
<1>3. saved = TRUE BY <1>0, WritesDone
<1>4. PICK old \in Names, title \in Names : old = rules[i].file /\ title = rules[i].name BY <1>1
<1>5. PICK c \in RuleSet : c = to /\ c.name = name /\ c.file = name /\ c.body = rules[i].body
  <2>1. rules[i] \in RuleSet BY <1>1, RuleFields
  <2>2. to \in RuleSet /\ to.name = name /\ to.file = name /\ to.body = rules[i].body BY <2>1 DEF RuleSet
  <2> HIDE DEF to
  <2>3. QED BY <2>2
<1> HIDE DEF to
<1>6. PICK content \in Files!Contents : content = Files!FileOf(c) /\ content.name = name /\ content.body = rules[i].body
  BY <1>5, FileOfContent
<1>7. /\ rules' \in Seq(RuleSet) /\ Len(rules') = n /\ DOMAIN rules' = 1..n
      /\ rules'[i] = c /\ \A k \in 1..n : k # i => rules'[k] = rules[k]
  <2>1. rules \in Seq(RuleSet) /\ rules' = [rules EXCEPT ![i] = c] /\ i \in 1..Len(rules) BY <1>0, <1>1, <1>5 DEF FilesTyped
  <2>2. QED BY <2>1, <1>2, RulePut
<1>8. /\ files' \in [Names -> Files!Contents \cup {Absent, Refused}] /\ files'[name] = content
      /\ \A f \in Names : f # name => files'[f] = files[f]
  <2>1. files' = [files EXCEPT ![name] = content] BY <1>0, <1>3, <1>5, <1>6
  <2>2. QED BY <2>1, <1>1
<1>9. dropping' = old BY <1>0, <1>3, <1>4
<1>10. FilesTyped'
  <2>1. Len(rules') <= MaxRules BY <1>1, <1>2, <1>7 DEF FilesTyped
  <2>2. QED BY <2>1, <1>0, <1>1, <1>7, <1>8, <1>9 DEF FilesTyped
<1>11. \A k \in 1..n : rules[k].file # name /\ rules[k].name # name
  <2>1. ~Files!Saved(name) BY <1>0 DEF Files!Saved
  <2>2. QED BY <2>1, <1>0, <1>1, <1>2
<1>12. NamesApart' BY <1>1, <1>2, <1>5, <1>7, <1>11 DEF NamesApart
<1>13. promised' = {rules'[k].body : k \in DOMAIN rules'}
  <2>1. \A k \in 1..n : rules'[k].body = rules[k].body BY <1>5, <1>7
  <2>2. QED BY <2>1, <1>0, <1>1, <1>2, <1>7
<1>14. Files!Saved(name)' /\ \A f \in Names : f # name => (Files!Saved(f)' <=> Files!Saved(f)) BY <1>1, <1>8 DEF Files!Saved
<1>15. EachInItsFile'
  <2>1. \A j, k \in 1..n : rules'[j].file \in {rules'[k].file, rules'[k].name} => j = k
    <3>1. SUFFICES ASSUME NEW j \in 1..n, NEW k \in 1..n, rules'[j].file \in {rules'[k].file, rules'[k].name} PROVE j = k
      OBVIOUS
    <3>2. CASE j = i BY <3>1, <3>2, <1>5, <1>7, <1>11
    <3>3. CASE k = i BY <3>1, <3>3, <1>5, <1>7, <1>11
    <3>4. CASE j # i /\ k # i BY <3>1, <3>4, <1>1, <1>2, <1>7 DEF EachInItsFile
    <3>5. QED BY <3>2, <3>3, <3>4
  <2>2. \A k \in 1..n : Held(k)' /\ Titled(k)'
    <3>1. SUFFICES ASSUME NEW k \in 1..n PROVE Held(k)' /\ Titled(k)' OBVIOUS
    <3>2. CASE k = i BY <3>2, <1>5, <1>6, <1>7, <1>8, <1>14 DEF Held, Titled
    <3>3. CASE k # i
      <4>1. rules'[k] = rules[k] /\ rules[k].file \in Names /\ rules[k].file # name BY <3>3, <1>1, <1>2, <1>7, <1>11
      <4>2. files'[rules[k].file] = files[rules[k].file] BY <4>1, <1>8
      <4>3. Held(k) /\ Titled(k) BY <1>1, <1>2 DEF EachInItsFile
      <4>4. QED BY <4>1, <4>2, <4>3 DEF Held, Titled, Files!Saved
    <3>4. QED BY <3>2, <3>3
  <2>3. \A f \in Names : Files!Saved(f)' => f = old \/ \E k \in 1..n : rules'[k].file = f
    <3>1. SUFFICES ASSUME NEW f \in Names, Files!Saved(f)', f # old PROVE \E k \in 1..n : rules'[k].file = f OBVIOUS
    <3>2. CASE f = name BY <3>2, <1>2, <1>5, <1>7
    <3>3. CASE f # name
      <4>1. PICK k \in 1..n : rules[k].file = f BY <3>1, <3>3, <1>1, <1>2, <1>14
      <4>2. k # i BY <3>1, <4>1, <1>4
      <4>3. QED BY <4>1, <4>2, <1>7
    <3>4. QED BY <3>2, <3>3
  <2>4. QED BY <2>1, <2>2, <2>3, <1>7, <1>9 DEF EachInItsFile
<1>16. OldIsApart'
  <2>1. old # name /\ title # name BY <1>2, <1>4, <1>11
  <2>2. Held(i) /\ Titled(i) BY <1>1 DEF EachInItsFile
  <2>3. files'[old] = files[old] /\ Files!Saved(old)' /\ files[old].name = title /\ files[old].body = rules[i].body
    BY <2>1, <2>2, <1>1, <1>4, <1>8, <1>14 DEF Held, Titled
  <2>4. rules[i].body \in promised' BY <1>0, <1>1
  <2>5. \A k \in 1..n : rules'[k].file \notin {old, title} /\ rules'[k].name \notin {old, title}
    <3>1. SUFFICES ASSUME NEW k \in 1..n, k # i PROVE rules[k].file \notin {old, title} /\ rules[k].name \notin {old, title}
      BY <2>1, <1>5, <1>7
    <3>2. rules[k].file \notin {old, title} BY <3>1, <1>1, <1>2, <1>4 DEF EachInItsFile
    <3>3. rules[k].name # old BY <3>1, <1>1, <1>2, <1>4 DEF EachInItsFile
    <3>4. rules[k].name # title BY <3>1, <1>1, <1>2, <1>4 DEF NamesApart
    <3>5. QED BY <3>2, <3>3, <3>4
  <2>6. Files!Saved(dropping)' BY <2>3, <1>9 DEF Files!Saved
  <2>7. QED BY <2>3, <2>4, <2>5, <2>6, <1>7, <1>9 DEF OldIsApart
<1>17. phase' = "up" BY <1>0, <1>1
<1>18. FolderInv' BY <1>10, <1>12, <1>13, <1>15, <1>16, <1>17, StillUp
<1>19. Files!RefusedStays BY <1>0, <1>1, <1>8 DEF Files!RefusedStays
<1>20. QED BY <1>18, <1>19

LEMMA RewriteMends ==
  ASSUME FoldersMend, FolderInv, NEW i \in DOMAIN rules, NEW saved \in BOOLEAN, Files!Rewrite(i, saved)
  PROVE  FolderInv' /\ Files!RefusedStays
<1>0. /\ Files!Idle /\ Files!Writes(rules[i], saved)
      /\ files' = IF saved THEN [files EXCEPT ![rules[i].file] = Files!FileOf(rules[i])] ELSE files
      /\ promised' = IF saved THEN promised \cup {rules[i].body} ELSE promised
      /\ UNCHANGED <<phase, rules, round, at, loaded, occupied, dropping>>
  BY DEF Files!Rewrite
<1>1. /\ FilesTyped /\ EachInItsFile /\ NamesApart /\ phase = "up" /\ dropping = Absent
      /\ promised = {rules[k].body : k \in DOMAIN rules}
      /\ files \in [Names -> Files!Contents \cup {Absent, Refused}]
      /\ \A k \in DOMAIN rules : rules[k].file \in Names /\ rules[k].name \in Names /\ Files!Saved(rules[k].file)
      /\ \A f \in Names : Files!Saved(f) => \E k \in DOMAIN rules : rules[k].file = f
      /\ Absent \notin Names /\ Absent \notin Files!Contents /\ Refused \notin Files!Contents /\ Absent # Refused
  BY <1>0, IdleFacts
<1>2. saved = TRUE BY <1>0, WritesDone
<1>3. PICK own \in Names : own = rules[i].file /\ Files!Saved(own) BY <1>1
<1>4. PICK content \in Files!Contents : content = Files!FileOf(rules[i]) /\ content.name = rules[i].name /\ content.body = rules[i].body
  <2>1. rules[i] \in RuleSet BY <1>1, RuleFields
  <2>2. QED BY <2>1, FileOfContent
<1>5. /\ files' \in [Names -> Files!Contents \cup {Absent, Refused}] /\ files'[own] = content
      /\ \A f \in Names : f # own => files'[f] = files[f]
  <2>1. files' = [files EXCEPT ![own] = content] BY <1>0, <1>2, <1>3, <1>4
  <2>2. QED BY <2>1, <1>1
<1>6. \A f \in Names : Files!Saved(f)' <=> Files!Saved(f) BY <1>1, <1>3, <1>5 DEF Files!Saved
<1>7. FilesTyped' BY <1>0, <1>1, <1>5 DEF FilesTyped
<1>8. NamesApart' BY <1>0, <1>1 DEF NamesApart
<1>9. promised' = {rules'[k].body : k \in DOMAIN rules'} BY <1>0, <1>1, <1>2
<1>10. EachInItsFile'
  <2>1. \A k \in DOMAIN rules : Held(k)' /\ Titled(k)'
    <3>1. SUFFICES ASSUME NEW k \in DOMAIN rules PROVE Held(k)' /\ Titled(k)' OBVIOUS
    <3>2. CASE k = i BY <3>2, <1>0, <1>3, <1>4, <1>5, <1>6 DEF Held, Titled
    <3>3. CASE k # i
      <4>1. rules'[k] = rules[k] /\ rules[k].file \in Names /\ rules[k].file # own BY <3>3, <1>0, <1>1, <1>3 DEF EachInItsFile
      <4>2. files'[rules[k].file] = files[rules[k].file] BY <4>1, <1>5
      <4>3. Held(k) /\ Titled(k) BY <1>1 DEF EachInItsFile
      <4>4. QED BY <4>1, <4>2, <4>3 DEF Held, Titled, Files!Saved
    <3>4. QED BY <3>2, <3>3
  <2>2. QED BY <2>1, <1>0, <1>1, <1>6 DEF EachInItsFile
<1>11. OldIsApart' /\ phase' = "up" BY <1>0, <1>1 DEF OldIsApart
<1>12. FolderInv' BY <1>7, <1>8, <1>9, <1>10, <1>11, StillUp
<1>13. Files!RefusedStays BY <1>3, <1>5 DEF Files!RefusedStays, Files!Saved
<1>14. QED BY <1>12, <1>13

LEMMA RemoveMends ==
  ASSUME FolderInv, NEW i \in DOMAIN rules, NEW how \in {Absent, Refused}, Files!Remove(i, how)
  PROVE  FolderInv' /\ Files!RefusedStays
<1>0. /\ Files!Idle /\ rules' = SubSeq(rules, 1, i - 1) \o SubSeq(rules, i + 1, Len(rules))
      /\ files' = Files!Deleted(rules[i].file, how)
      /\ promised' = promised \cap {rules'[j].body : j \in DOMAIN rules'}
      /\ UNCHANGED <<phase, round, at, loaded, occupied, dropping>>
  BY DEF Files!Remove
<1>1. /\ FilesTyped /\ EachInItsFile /\ NamesApart /\ phase = "up" /\ dropping = Absent
      /\ promised = {rules[k].body : k \in DOMAIN rules}
      /\ files \in [Names -> Files!Contents \cup {Absent, Refused}]
      /\ DOMAIN rules = 1..Len(rules) /\ Len(rules) \in Nat
      /\ \A k \in DOMAIN rules : rules[k].file \in Names /\ rules[k].name \in Names /\ Files!Saved(rules[k].file)
      /\ \A f \in Names : Files!Saved(f) => \E k \in DOMAIN rules : rules[k].file = f
      /\ Absent \notin Names /\ Absent \notin Files!Contents /\ Refused \notin Files!Contents /\ Absent # Refused
  BY <1>0, IdleFacts
<1>2. PICK n \in Nat : n = Len(rules) /\ DOMAIN rules = 1..n /\ i \in 1..n BY <1>1
<1>3. PICK own \in Names : own = rules[i].file /\ Files!Saved(own) BY <1>1
<1> DEFINE was == [j \in 1..(n - 1) |-> IF j < i THEN j ELSE j + 1]
<1>4. /\ \A j \in 1..(n - 1) : was[j] \in 1..n /\ was[j] # i
      /\ \A j, k \in 1..(n - 1) : was[j] = was[k] => j = k
      /\ \A k \in 1..n : k # i => \E j \in 1..(n - 1) : was[j] = k
  <2>1. i \in 1..n BY <1>2
  <2>2. \A j \in 1..(n - 1) : was[j] = IF j < i THEN j ELSE j + 1 OBVIOUS
  <2> HIDE DEF was
  <2>3. \A j \in 1..(n - 1) : was[j] \in 1..n /\ was[j] # i BY <2>1, <2>2
  <2>4. \A j, k \in 1..(n - 1) : was[j] = was[k] => j = k BY <2>1, <2>2
  <2>5. \A k \in 1..n : k # i => \E j \in 1..(n - 1) : was[j] = k
    <3>1. SUFFICES ASSUME NEW k \in 1..n, k # i PROVE \E j \in 1..(n - 1) : was[j] = k OBVIOUS
    <3>2. CASE k < i
      <4>1. k \in 1..(n - 1) BY <2>1, <3>2
      <4>2. QED BY <2>2, <3>2, <4>1
    <3>3. CASE k > i
      <4>1. k - 1 \in 1..(n - 1) /\ ~(k - 1 < i) /\ k - 1 + 1 = k BY <2>1, <3>3
      <4>2. QED BY <2>2, <4>1
    <3>4. QED BY <3>1, <3>2, <3>3, <2>1
  <2>6. QED BY <2>3, <2>4, <2>5
<1>5. rules' \in Seq(RuleSet) /\ Len(rules') = n - 1 /\ DOMAIN rules' = 1..(n - 1) /\ \A j \in 1..(n - 1) : rules'[j] = rules[was[j]]
  <2>1. rules \in Seq(RuleSet) /\ i \in 1..Len(rules) BY <1>1 DEF FilesTyped
  <2>2. rules' = Bound!RemoveAt(rules, i) BY <1>0 DEF Bound!RemoveAt
  <2>3. /\ rules' \in Seq(RuleSet) /\ Len(rules') = n - 1
        /\ \A j \in 1..(n - 1) : rules'[j] = IF j < i THEN rules[j] ELSE rules[j + 1]
    BY <2>1, <2>2, <1>2, RemoveFacts
  <2>4. DOMAIN rules' = 1..(n - 1) BY <2>3
  <2>5. \A j \in 1..(n - 1) : rules'[j] = rules[was[j]] BY <2>3
  <2>6. QED BY <2>3, <2>4, <2>5
<1> HIDE DEF was
<1>6. /\ files' \in [Names -> Files!Contents \cup {Absent, Refused}] /\ files'[own] \in {Absent, Refused}
      /\ \A f \in Names : f # own => files'[f] = files[f]
  <2>1. files' = [files EXCEPT ![own] = IF @ = Absent THEN @ ELSE how] BY <1>0, <1>3 DEF Files!Deleted
  <2>2. QED BY <2>1, <1>1
<1>7. FilesTyped'
  <2>1. Len(rules') <= MaxRules
    <3>1. n <= MaxRules /\ MaxRules \in Nat BY <1>1, <1>2, PartsAssumption DEF FilesTyped, Files!FilesAssumption
    <3>2. QED BY <3>1, <1>5
  <2>2. QED BY <2>1, <1>0, <1>1, <1>5, <1>6 DEF FilesTyped
<1>8. NamesApart'
  <2>1. SUFFICES ASSUME NEW j \in 1..(n - 1), NEW k \in 1..(n - 1), rules'[j].name = rules'[k].name PROVE was[j] = was[k]
    BY <1>4, <1>5 DEF NamesApart
  <2>2. rules[was[j]].name = rules[was[k]].name /\ was[j] \in 1..n /\ was[k] \in 1..n BY <2>1, <1>4, <1>5
  <2>3. QED BY <2>2, <1>1, <1>2 DEF NamesApart
<1>9. promised' = {rules'[k].body : k \in DOMAIN rules'}
  <2>1. {rules'[k].body : k \in DOMAIN rules'} \subseteq promised
    <3>1. SUFFICES ASSUME NEW j \in 1..(n - 1) PROVE rules'[j].body \in promised BY <1>5
    <3>2. PICK k \in 1..n : rules'[j] = rules[k] BY <1>4, <1>5
    <3>3. QED BY <3>2, <1>1, <1>2
  <2>2. QED BY <2>1, <1>0
<1>10. EachInItsFile'
  <2>1. \A j \in 1..(n - 1) : Held(j)' /\ Titled(j)'
    <3>1. SUFFICES ASSUME NEW j \in 1..(n - 1) PROVE Held(j)' /\ Titled(j)' OBVIOUS
    <3>2. PICK k \in 1..n : k = was[j] /\ k # i /\ rules'[j] = rules[k] BY <1>4, <1>5
    <3>3. rules[k].file \in Names /\ rules[k].file # own BY <3>2, <1>1, <1>2, <1>3 DEF EachInItsFile
    <3>4. files'[rules[k].file] = files[rules[k].file] BY <3>3, <1>6
    <3>5. Held(k) /\ Titled(k) BY <1>1, <1>2 DEF EachInItsFile
    <3>6. QED BY <3>2, <3>4, <3>5 DEF Held, Titled, Files!Saved
  <2>2. \A j, k \in 1..(n - 1) : rules'[j].file \in {rules'[k].file, rules'[k].name} => j = k
    <3>1. SUFFICES ASSUME NEW j \in 1..(n - 1), NEW k \in 1..(n - 1), rules'[j].file \in {rules'[k].file, rules'[k].name}
                   PROVE  was[j] = was[k]
      BY <1>4
    <3>2. /\ rules[was[j]].file \in {rules[was[k]].file, rules[was[k]].name}
          /\ was[j] \in 1..n /\ was[k] \in 1..n
      BY <3>1, <1>4, <1>5
    <3>3. QED BY <3>2, <1>1, <1>2 DEF EachInItsFile
  <2>3. \A f \in Names : Files!Saved(f)' => \E j \in 1..(n - 1) : rules'[j].file = f
    <3>1. SUFFICES ASSUME NEW f \in Names, Files!Saved(f)' PROVE \E j \in 1..(n - 1) : rules'[j].file = f OBVIOUS
    <3>2. f # own /\ Files!Saved(f) BY <3>1, <1>6 DEF Files!Saved
    <3>3. PICK k \in 1..n : rules[k].file = f /\ k # i BY <3>2, <1>1, <1>2, <1>3
    <3>4. QED BY <3>3, <1>4, <1>5
  <2>4. QED BY <2>1, <2>2, <2>3, <1>5 DEF EachInItsFile
<1>11. OldIsApart' /\ phase' = "up" BY <1>0, <1>1 DEF OldIsApart
<1>12. FolderInv' BY <1>7, <1>8, <1>9, <1>10, <1>11, StillUp
<1>13. Files!RefusedStays BY <1>3, <1>6 DEF Files!RefusedStays, Files!Saved
<1>14. QED BY <1>12, <1>13
LEMMA CutMends ==
  ASSUME FolderInv, Files!PowerOff, dropping = Absent \/ Len(rules) < MaxRules
  PROVE  FolderInv'
<1>0. /\ FilesTyped /\ EachInItsFile /\ OldIsApart /\ NamesApart /\ phase' = "off" /\ rules' = <<>> /\ round' = 0 /\ at' = 1
      /\ occupied' = {} /\ dropping' = Absent /\ files' = files
  BY DEF Files!PowerOff, FolderInv, WhileUp, OfRules
<1>1. PICK n \in Nat : n = Len(rules) /\ DOMAIN rules = 1..n /\ n <= MaxRules BY <1>0 DEF FilesTyped
<1>2. /\ IsFiniteSet(Names) /\ MaxRules \in Nat /\ Absent \notin Names BY PartsAssumption, SameCardinality DEF Files!FilesAssumption
<1>3. FilesTyped' BY <1>0, <1>2 DEF FilesTyped
<1>4. SavedIn(files) \subseteq Names /\ \A f \in Names : f \in SavedIn(files) <=> Files!Saved(f) BY DEF SavedIn, Files!Saved
<1>5. \A f \in SavedIn(files) : f = dropping \/ \E k \in 1..n : rules[k].file = f BY <1>0, <1>1, <1>4 DEF EachInItsFile
<1>6. Tidy(files)
  <2>1. SUFFICES ASSUME NEW a \in SavedIn(files), NEW b \in SavedIn(files), a # b PROVE files[a].name \notin {b, files[b].name}
    BY DEF Tidy
  <2>2. a # Absent /\ b # Absent BY <1>2, <1>4
  <2>3. CASE a = dropping
    <3>1. PICK k \in 1..n : rules[k].file = b BY <2>1, <2>3, <1>5
    <3>2. files[b].name = rules[k].name BY <3>1, <1>0, <1>1 DEF EachInItsFile, Titled
    <3>3. QED BY <2>2, <2>3, <3>1, <3>2, <1>0, <1>1 DEF OldIsApart
  <2>4. CASE b = dropping
    <3>1. PICK k \in 1..n : rules[k].file = a BY <2>1, <2>4, <1>5
    <3>2. files[a].name = rules[k].name BY <3>1, <1>0, <1>1 DEF EachInItsFile, Titled
    <3>3. QED BY <2>2, <2>4, <3>1, <3>2, <1>0, <1>1 DEF OldIsApart
  <2>5. CASE a # dropping /\ b # dropping
    <3>1. PICK j \in 1..n, k \in 1..n : rules[j].file = a /\ rules[k].file = b BY <2>5, <1>5
    <3>2. files[a].name = rules[j].name /\ files[b].name = rules[k].name BY <3>1, <1>0, <1>1 DEF EachInItsFile, Titled
    <3>3. rules[j].name # b BY <2>1, <3>1, <1>0, <1>1 DEF EachInItsFile
    <3>4. rules[j].name # rules[k].name BY <2>1, <3>1, <1>0, <1>1 DEF NamesApart
    <3>5. QED BY <3>2, <3>3, <3>4
  <2>6. QED BY <2>3, <2>4, <2>5
<1>7. Fits(files)
  <2> DEFINE m == IF dropping = Absent THEN n ELSE n + 1
             g == [k \in 1..m |-> IF k = n + 1 THEN dropping ELSE rules[k].file]
  <2>1. m \in Nat /\ m <= MaxRules BY <1>1, <1>2
  <2>2. \A f \in SavedIn(files) : \E k \in 1..m : g[k] = f
    <3>1. SUFFICES ASSUME NEW f \in SavedIn(files) PROVE \E k \in 1..m : g[k] = f OBVIOUS
    <3>2. CASE f = dropping
      <4>1. n + 1 \in 1..m BY <3>2, <1>2, <1>4
      <4>2. QED BY <3>2, <4>1
    <3>3. CASE f # dropping
      <4>1. PICK k \in 1..n : rules[k].file = f BY <3>3, <1>5
      <4>2. k \in 1..m /\ k # n + 1 OBVIOUS
      <4>3. QED BY <4>1, <4>2
    <3>4. QED BY <3>2, <3>3
  <2> HIDE DEF g, m
  <2>3. SavedIn(files) \in SUBSET Names BY <1>4
  <2>4. IsFiniteSet(SavedIn(files)) BY <1>2, <2>3, FS_Subset
  <2>5. PICK D : D = 1..m OBVIOUS
  <2>6. IsFiniteSet(D) /\ Cardinality(D) = m BY <2>1, <2>5, FS_Interval
  <2>7. Cardinality(SavedIn(files)) \in Nat BY <2>4, FS_CardinalityType
  <2>8. ~(Cardinality(D) < Cardinality(SavedIn(files)))
    <3>1. ~\E x \in SavedIn(files) : \A k \in D : g[k] # x BY <2>2, <2>5
    <3>2. QED BY <2>4, <2>6, <3>1, OneLeftOver
  <2>9. QED BY <2>1, <2>6, <2>7, <2>8, <1>2 DEF Fits
<1>8. WhileOff' /\ OfRules' /\ InRepair' /\ WhileUp' BY <1>0, <1>6, <1>7 DEF WhileOff, OfRules, InRepair, WhileUp
<1>9. QED BY <1>3, <1>8 DEF FolderInv

LEMMA FolderSame == ASSUME FolderInv, UNCHANGED folder PROVE FolderInv' /\ Files!RefusedStays
<1>0. UNCHANGED <<files, phase, rules, round, at, loaded, occupied, dropping, promised>> BY DEF folder
<1>1. FilesTyped' /\ WhileOff' BY <1>0 DEF FolderInv, FilesTyped, WhileOff
<1>2. OfRules' BY <1>0 DEF FolderInv, OfRules, NamesApart
<1>3. \A k : (Squats(k)' <=> Squats(k)) /\ (Stuck(k)' <=> Stuck(k)) /\ (Ahead(k)' <=> Ahead(k)) /\ (Held(k)' <=> Held(k)) /\ (Titled(k)' <=> Titled(k))
  BY <1>0 DEF Squats, Stuck, Ahead, Held, Titled, Files!Vacating, Files!Blocked, Files!Canonical, Files!Moved, Files!Saved
<1>4. InRepair'
  <2>1. SUFFICES ASSUME phase = "repair" PROVE (LeavesFirst /\ StaysHeld /\ AloneInFile /\ MovesFromLoaded /\ FilesOwned /\ OldIsNobodys)'
    BY <1>0 DEF InRepair
  <2>2. LeavesFirst /\ StaysHeld /\ AloneInFile /\ MovesFromLoaded /\ FilesOwned /\ OldIsNobodys BY <2>1 DEF FolderInv, InRepair
  <2>3. LeavesFirst' /\ StaysHeld' BY <1>0, <1>3, <2>2 DEF LeavesFirst, StaysHeld
  <2>4. MovesFromLoaded' BY <1>0, <1>3, <2>2 DEF MovesFromLoaded, Files!Canonical, Files!Moved, Files!Saved
  <2>5. AloneInFile' /\ FilesOwned' /\ OldIsNobodys'
    BY <1>0, <2>2 DEF AloneInFile, FilesOwned, OldIsNobodys, Files!Canonical, Files!Moved, Files!Saved
  <2>6. QED BY <2>3, <2>4, <2>5
<1>5. WhileUp'
  <2>1. phase = "up" => EachInItsFile /\ OldIsApart BY DEF FolderInv, WhileUp
  <2>2. EachInItsFile => EachInItsFile' BY <1>0, <1>3 DEF EachInItsFile, Files!Saved
  <2>3. OldIsApart => OldIsApart' BY <1>0 DEF OldIsApart, Files!Saved
  <2>4. QED BY <1>0, <2>1, <2>2, <2>3 DEF WhileUp
<1>6. QED BY <1>0, <1>1, <1>2, <1>4, <1>5 DEF FolderInv, Files!RefusedStays

LEMMA FolderStepKeeps ==
  ASSUME FoldersMend, FolderInv, [Files!Next]_folder, [RoomAtCut]_folder
  PROVE  FolderInv' /\ Files!RefusedStays
<1>1. ASSUME NEW order \in Files!Orders, Files!Boot(order) PROVE FolderInv' /\ Files!RefusedStays
  BY <1>1, BootMends DEF Files!Boot, Files!RefusedStays
<1>2. ASSUME NEW saved \in BOOLEAN, Files!RepairRule(saved) PROVE FolderInv' /\ Files!RefusedStays BY <1>2, RepairMends
<1>3. CASE Files!NextRound BY <1>3, RoundMends DEF Files!NextRound, Files!RefusedStays
<1>4. ASSUME NEW how \in {Absent, Refused}, Files!DropOld(how) PROVE FolderInv' /\ Files!RefusedStays BY <1>4, DropMends
<1>5. ASSUME NEW name \in Names, NEW body \in Bodies, NEW saved \in BOOLEAN, Files!Add(name, body, saved)
      PROVE  FolderInv' /\ Files!RefusedStays
  BY <1>5, AddMends
<1>6. ASSUME NEW k \in DOMAIN rules, NEW saved \in BOOLEAN, Files!Rewrite(k, saved) \/ \E name \in Names : Files!Rename(k, name, saved)
      PROVE  FolderInv' /\ Files!RefusedStays
  BY <1>6, RewriteMends, RenameMends
<1>7. ASSUME NEW k \in DOMAIN rules, NEW how \in {Absent, Refused}, Files!Remove(k, how) PROVE FolderInv' /\ Files!RefusedStays
  BY <1>7, RemoveMends
<1>8. CASE Files!PowerOff
  <2>1. phase = "up" /\ phase' = "off" /\ files' = files BY <1>8 DEF Files!PowerOff
  <2>2. dropping = Absent \/ Len(rules) < MaxRules BY <2>1 DEF RoomAtCut, folder
  <2>3. QED BY <1>8, <2>1, <2>2, CutMends DEF Files!RefusedStays
<1>9. CASE UNCHANGED folder BY <1>9, FolderSame
<1>10. CASE Files!Next BY <1>1, <1>2, <1>3, <1>4, <1>5, <1>6, <1>7, <1>8, <1>10, Zenon DEF Files!Next
<1>11. QED BY <1>9, <1>10

LEMMA FolderShows == ASSUME FolderInv PROVE FolderExact
<1>1. Files!NothingLost
  <2>1. SUFFICES ASSUME phase = "up", NEW body \in promised PROVE Files!InSomeFile(body) BY DEF Files!NothingLost
  <2>2. FilesTyped /\ EachInItsFile /\ promised = {rules[k].body : k \in DOMAIN rules} BY <2>1 DEF FolderInv, WhileUp, OfRules
  <2>3. PICK k \in DOMAIN rules : rules[k].body = body BY <2>2
  <2>4. Held(k) /\ rules[k].file \in Names BY <2>2, RuleFields DEF EachInItsFile
  <2>5. QED BY <2>3, <2>4 DEF Held, Files!InSomeFile
<1>2. ASSUME Files!Idle, NEW f \in Names, Files!Saved(f) PROVE files[f].body \in promised
  <2>1. /\ EachInItsFile /\ promised = {rules[k].body : k \in DOMAIN rules}
        /\ \A x \in Names : Files!Saved(x) => \E k \in DOMAIN rules : rules[k].file = x
    BY <1>2, IdleFacts
  <2>2. PICK k \in DOMAIN rules : rules[k].file = f BY <1>2, <2>1
  <2>3. files[f].body = rules[k].body BY <2>1, <2>2 DEF EachInItsFile, Held
  <2>4. QED BY <2>1, <2>3
<1>3. QED BY <1>1, <1>2 DEF FolderExact, Files!FolderExact
-----------------------------------------------------------------------------
LEMMA FolderAlone == [NextParts]_parts => [Files!Next]_folder
BY DEF NextParts, FilesStep, PoolStep, BoundStep, NtpStep, CrashesStep, parts

LEMMA FolderInvariance == ASSUME FoldersMend PROVE SpecParts /\ [][RoomAtCut]_folder => []FolderInv
<1>1. InitParts => FolderInv BY FolderInit DEF InitParts
<1>2. FolderInv /\ [NextParts]_parts /\ [RoomAtCut]_folder => FolderInv' BY FolderAlone, FolderStepKeeps
<1>3. QED BY <1>1, <1>2, PTL DEF SpecParts

(* The folder of rules holds what its author was told is kept, and no more,   *)
(* however many rules a boot finds in the files of others and under the same    *)
(* name (resolve_duplicates_, normalize_filenames_, delete_file_): as long as   *)
(* FoldersMend says, and RoomAtCut.                                             *)
THEOREM FolderAlwaysExact == ASSUME FoldersMend PROVE SpecParts /\ [][RoomAtCut]_folder => []FolderExact
<1>1. FolderInv => FolderExact BY FolderShows
<1>2. QED BY <1>1, FolderInvariance, PTL

(* A file the loader refused, or a removal blanked, is never written over,     *)
(* under the same conditions (normalize_filenames_, add_automation_,            *)
(* update_automation_).                                                         *)
THEOREM RefusedAlwaysKept == ASSUME FoldersMend PROVE SpecParts /\ [][RoomAtCut]_folder => RefusedKept
<1>1. FolderInv /\ [NextParts]_parts /\ [RoomAtCut]_folder => [Files!RefusedStays]_folder BY FolderAlone, FolderStepKeeps
<1>2. QED BY <1>1, FolderInvariance, PTL DEF SpecParts, RefusedKept
=============================================================================
