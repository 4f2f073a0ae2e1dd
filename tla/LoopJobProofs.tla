---------------------------- MODULE LoopJobProofs ----------------------------
(* Proofs about LoopJob, for any number of callers, slots and polls. *)
EXTENDS LoopJob, TLAPS

HasCaller(s) == \E c \in Callers : slotOf[c] = s

(* A slot is one caller's: two calls never share an answer. *)
SlotsApart == \A c, d \in Callers : Waiting(c) /\ slotOf[c] = slotOf[d] => c = d

(* Why the promise is kept: an unsettled slot has its caller, an item in the *)
(* scheduler has not run, and only the slot in run() is running.             *)
Unsettled == \A s \in Slots : state[s] \in {"pending", "running"} => HasCaller(s)
NotRunYet == \A s \in Slots : s \in queued => state[s] \in {"pending", "abandoned"} /\ s # inLoop
RunningInLoop == \A s \in Slots : state[s] = "running" <=> InJob(s)

Inv == TypeOK /\ SlotsApart /\ Unsettled /\ NotRunYet /\ RunningInLoop

LEMMA InitInv == Init => Inv
  BY LoopJobAssumption
  DEF Init, Inv, TypeOK, States, SlotsApart, Waiting, Unsettled, HasCaller, NotRunYet,
      RunningInLoop, InJob

LEMMA NextInv == Inv /\ [Next]_vars => Inv'
<1> SUFFICES ASSUME Inv, [Next]_vars PROVE Inv'
  OBVIOUS
<1> USE LoopJobAssumption
      DEF Inv, TypeOK, States, SlotsApart, Waiting, Unsettled, HasCaller, NotRunYet,
          RunningInLoop, InJob
<1>1. ASSUME NEW c \in Callers, NEW s \in Slots, Call(c, s) PROVE Inv'
  BY <1>1 DEF Call, Freed
<1>2. ASSUME NEW s \in Slots, Dequeue(s) PROVE Inv'
  BY <1>2 DEF Dequeue
<1>3. CASE Exchange
  BY <1>3 DEF Exchange
<1>4. ASSUME NEW returned \in BOOLEAN, RunJob(returned) PROVE Inv'
  BY <1>4 DEF RunJob
<1>5. CASE Publish
  BY <1>5 DEF Publish
<1>6. ASSUME NEW c \in Callers, Poll(c) PROVE Inv'
  BY <1>6 DEF Poll
<1>7. ASSUME NEW c \in Callers, Abandon(c) PROVE Inv'
  BY <1>7 DEF Abandon
<1>8. ASSUME NEW c \in Callers, GiveUp(c) PROVE Inv'
  BY <1>8 DEF GiveUp, Returns
<1>9. ASSUME NEW c \in Callers, Answer(c) PROVE Inv'
  BY <1>9 DEF Answer, Returns
<1>10. CASE UNCHANGED vars
  BY <1>10 DEF vars
<1> QED
  BY <1>1, <1>2, <1>3, <1>4, <1>5, <1>6, <1>7, <1>8, <1>9, <1>10 DEF Next, JobStep, CallerStep

(* Every reachable state is well typed. *)
THEOREM TypeCorrect == Spec => []TypeOK
<1>1. Inv => TypeOK
  BY DEF Inv
<1> QED
  BY <1>1, InitInv, NextInv, PTL DEF Spec

(* A job that runs has its caller still inside the call, so the locals it    *)
(* captured by reference are alive.                                          *)
THEOREM JobsAreCalledFor == Spec => []JobsHaveCallers
<1>1. Inv => JobsHaveCallers
  BY DEF Inv, Unsettled, RunningInLoop, JobsHaveCallers, HasCaller
<1> QED
  BY <1>1, InitInv, NextInv, PTL DEF Spec

(* What is left in the scheduler after its caller was told no never runs. *)
THEOREM OrphansNeverRun == Spec => []OrphansAbandoned
<1>1. Inv => OrphansAbandoned
  BY DEF Inv, Unsettled, NotRunYet, OrphansAbandoned, Orphaned, HasCaller
<1> QED
  BY <1>1, InitInv, NextInv, PTL DEF Spec
-----------------------------------------------------------------------------
(* The refinement.  A step of the handshake moves one caller's call, or none. *)

(* What every call is unless its slot's state or result, or its caller's     *)
(* slot, changes.                                                            *)
LEMMA CallKept ==
  ASSUME NEW c \in Callers, slotOf'[c] = slotOf[c],
         Waiting(c) => /\ state[slotOf[c]] \in States
                       /\ state'[slotOf[c]] = state[slotOf[c]]
                       /\ state[slotOf[c]] = "done" => result'[slotOf[c]] = result[slotOf[c]]
  PROVE  CallOf(c)' = CallOf(c)
<1>1. CASE ~Waiting(c)
  BY <1>1 DEF CallOf, Waiting
<1>2. CASE Waiting(c) /\ state[slotOf[c]] # "done"
  BY <1>2 DEF CallOf, Waiting, States
<1>3. CASE Waiting(c) /\ state[slotOf[c]] = "done"
  BY <1>3 DEF CallOf, Waiting
<1> QED
  BY <1>1, <1>2, <1>3

LEMMA InitRefines == Init => Promise!Init
  BY DEF Init, Promise!Init, CallOf, Waiting

LEMMA StepRefines ==
  Inv /\ [Next]_vars => [Promise!Next]_<<[c \in Callers |-> CallOf(c)], answer>>
<1> DEFINE calls == [c \in Callers |-> CallOf(c)]
           kept == UNCHANGED <<calls, answer>>
<1> SUFFICES ASSUME Inv, [Next]_vars PROVE Promise!Next \/ kept
  OBVIOUS
<1> USE LoopJobAssumption DEF Inv, TypeOK, States
<1>1. ASSUME NEW c \in Callers, NEW s \in Slots, Call(c, s) PROVE Promise!Ask(c)
  <2>1. CallOf(c) = "idle" /\ CallOf(c)' = "asked" /\ UNCHANGED answer
    BY <1>1 DEF Call, CallOf, Waiting
  <2>2. \A d \in Callers \ {c} : CallOf(d)' = CallOf(d)
    BY <1>1, CallKept DEF Call, Freed, Waiting
  <2> QED
    BY <2>1, <2>2 DEF Promise!Ask, Promise!Moves
<1>2. ASSUME NEW s \in Slots, Dequeue(s) PROVE kept
  <2>1. \A c \in Callers : CallOf(c)' = CallOf(c)
    BY <1>2, CallKept DEF Dequeue, Waiting
  <2> QED
    BY <1>2, <2>1 DEF Dequeue
<1>3. ASSUME Exchange, state[inLoop] = "pending" PROVE \E c \in Callers : Promise!Begin(c)
  <2>1. PICK c \in Callers : slotOf[c] = inLoop
    BY <1>3 DEF Exchange, Unsettled, HasCaller
  <2>2. CallOf(c) = "asked" /\ CallOf(c)' = "doing" /\ UNCHANGED answer
    BY <1>3, <2>1 DEF Exchange, CallOf, Waiting
  <2>3. \A d \in Callers \ {c} : CallOf(d)' = CallOf(d)
    BY <1>3, <2>1, CallKept DEF Exchange, SlotsApart, Waiting
  <2>4. \A d \in Callers : CallOf(d) # "doing"
    BY <1>3 DEF Exchange, CallOf, Waiting, RunningInLoop, InJob
  <2> QED
    BY <2>2, <2>3, <2>4 DEF Promise!Begin, Promise!Moves
<1>4. ASSUME Exchange, state[inLoop] # "pending" PROVE kept
  <2>1. \A c \in Callers : CallOf(c)' = CallOf(c)
    BY <1>4, CallKept DEF Exchange, Waiting
  <2> QED
    BY <1>4, <2>1 DEF Exchange
<1>5. ASSUME NEW returned \in BOOLEAN, RunJob(returned) PROVE kept
  <2>1. state[inLoop] = "running"
    BY <1>5 DEF RunJob, RunningInLoop, InJob
  <2>2. \A c \in Callers : CallOf(c)' = CallOf(c)
    BY <1>5, <2>1, CallKept DEF RunJob, Waiting
  <2> QED
    BY <1>5, <2>2 DEF RunJob
<1>6. ASSUME Publish PROVE \E c \in Callers : Promise!End(c)
  <2>1. state[inLoop] = "running"
    BY <1>6 DEF Publish, RunningInLoop, InJob
  <2>2. PICK c \in Callers : slotOf[c] = inLoop
    BY <1>6, <2>1 DEF Publish, Unsettled, HasCaller
  <2>3. CallOf(c) = "doing" /\ CallOf(c)' \in {"did_true", "did_false"} /\ UNCHANGED answer
    BY <1>6, <2>1, <2>2 DEF Publish, CallOf, Waiting
  <2>4. \A d \in Callers \ {c} : CallOf(d)' = CallOf(d)
    BY <1>6, <2>2, CallKept DEF Publish, SlotsApart, Waiting
  <2> QED
    BY <2>3, <2>4 DEF Promise!End, Promise!Moves
<1>7. ASSUME NEW c \in Callers, Poll(c) PROVE kept
  <2>1. \A d \in Callers : CallOf(d)' = CallOf(d)
    BY <1>7, CallKept DEF Poll, Waiting
  <2> QED
    BY <1>7, <2>1 DEF Poll
<1>8. ASSUME NEW c \in Callers, Abandon(c) PROVE Promise!Refuse(c)
  <2>1. CallOf(c) = "asked" /\ CallOf(c)' = "refused" /\ UNCHANGED answer
    BY <1>8 DEF Abandon, CallOf, Waiting
  <2>2. \A d \in Callers \ {c} : CallOf(d)' = CallOf(d)
    BY <1>8, CallKept DEF Abandon, SlotsApart, Waiting
  <2> QED
    BY <2>1, <2>2 DEF Promise!Refuse, Promise!Moves
<1>9. ASSUME NEW c \in Callers, GiveUp(c) PROVE Promise!Return(c)
  <2>1. CallOf(c) = "refused" /\ CallOf(c)' = "idle"
    BY <1>9 DEF GiveUp, Returns, CallOf, Waiting
  <2>2. \A d \in Callers \ {c} : CallOf(d)' = CallOf(d)
    BY <1>9, CallKept DEF GiveUp, Returns, Waiting
  <2> QED
    BY <1>9, <2>1, <2>2 DEF GiveUp, Returns, Promise!Return, Promise!Moves
<1>10. ASSUME NEW c \in Callers, Answer(c) PROVE Promise!Return(c)
  <2>1. /\ CallOf(c) = IF result[slotOf[c]] THEN "did_true" ELSE "did_false"
        /\ CallOf(c)' = "idle"
    BY <1>10 DEF Answer, Returns, CallOf, Waiting
  <2>2. \A d \in Callers \ {c} : CallOf(d)' = CallOf(d)
    BY <1>10, CallKept DEF Answer, Returns, Waiting
  <2>3. result[slotOf[c]] \in BOOLEAN /\ answer' = [answer EXCEPT ![c] = result[slotOf[c]]]
    BY <1>10 DEF Answer, Returns, Waiting
  <2>4. CASE result[slotOf[c]] = TRUE
    <3>1. CallOf(c) = "did_true" /\ answer' = [answer EXCEPT ![c] = TRUE]
      BY <2>1, <2>3, <2>4
    <3>2. Promise!Moves(c, CallOf(c), "idle")
      BY <2>1, <2>2 DEF Promise!Moves
    <3> QED
      BY <3>1, <3>2 DEF Promise!Return
  <2>5. CASE result[slotOf[c]] = FALSE
    <3>1. CallOf(c) = "did_false" /\ answer' = [answer EXCEPT ![c] = FALSE]
      BY <2>1, <2>3, <2>5
    <3>2. Promise!Moves(c, CallOf(c), "idle")
      BY <2>1, <2>2 DEF Promise!Moves
    <3> QED
      BY <3>1, <3>2 DEF Promise!Return
  <2> QED
    BY <2>3, <2>4, <2>5
<1>11. ASSUME UNCHANGED vars PROVE kept
  <2>1. \A c \in Callers : CallOf(c)' = CallOf(c)
    BY <1>11, CallKept DEF vars, Waiting
  <2> QED
    BY <1>11, <2>1 DEF vars
<1> QED
  BY <1>1, <1>2, <1>3, <1>4, <1>5, <1>6, <1>7, <1>8, <1>9, <1>10, <1>11
  DEF Next, JobStep, CallerStep, Promise!Next

(* The handshake implements LoopCall: whatever the race at the deadline, a   *)
(* caller hears the truth about its job, and jobs are done one at a time.    *)
THEOREM PromiseKept == Spec => KeepsPromise
<1> QED
  BY InitInv, NextInv, InitRefines, StepRefines, PTL DEF Spec, KeepsPromise, Promise!Spec
=============================================================================
