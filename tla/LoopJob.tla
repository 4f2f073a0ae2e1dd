------------------------------- MODULE LoopJob -------------------------------
(***************************************************************************)
(* The handshake between a caller waiting on another task and the loop     *)
(* task running its job (components/loop_job/loop_job.h).  The caller and  *)
(* the deferred item share a slot; the item outlives a caller that gave    *)
(* up, so a new call may meet the items of earlier ones in the scheduler.  *)
(* Each access to the slot's atomic is a step of its own.                  *)
(***************************************************************************)
EXTENDS Integers

CONSTANTS Callers,   \* tasks other than the loop's, one call at a time each
          Slots,     \* LoopJobSlot objects that may be alive at once
          NoSlot,
          Polls      \* LOOP_JOB_TIMEOUT_MS in polls

ASSUME LoopJobAssumption == NoSlot \notin Slots /\ Polls \in Nat

VARIABLES state,    \* state_ of each slot
          result,   \* result_ of each slot
          queued,   \* slots whose deferred item waits in the scheduler
          inLoop,   \* the slot whose run() the loop task is in
          step,     \* what is left of that run()
          slotOf,   \* the slot each caller waits on
          waited,   \* polls each caller has waited
          answer    \* what each caller's last call returned

vars == <<state, result, queued, inLoop, step, slotOf, waited, answer>>

States == {"pending", "running", "done", "abandoned"}

TypeOK ==
  /\ state \in [Slots -> States] /\ result \in [Slots -> BOOLEAN]
  /\ queued \subseteq Slots /\ inLoop \in Slots \cup {NoSlot}
  /\ step \in {"exchange", "job", "publish"}
  /\ slotOf \in [Callers -> Slots \cup {NoSlot}]
  /\ waited \in [Callers -> 0..Polls] /\ answer \in [Callers -> BOOLEAN]

Init ==
  /\ state = [s \in Slots |-> "done"] /\ result = [s \in Slots |-> FALSE]
  /\ queued = {} /\ inLoop = NoSlot /\ step = "exchange"
  /\ slotOf = [c \in Callers |-> NoSlot]
  /\ waited = [c \in Callers |-> 0] /\ answer = [c \in Callers |-> TRUE]

(* Freed by the last shared_ptr: the item's, the caller's or run()'s. *)
Freed(s) == s \notin queued /\ s # inLoop /\ \A c \in Callers : slotOf[c] # s

Call(c, s) ==
  /\ slotOf[c] = NoSlot /\ Freed(s)
  /\ slotOf' = [slotOf EXCEPT ![c] = s]
  /\ state' = [state EXCEPT ![s] = "pending"]
  /\ result' = [result EXCEPT ![s] = FALSE]
  /\ queued' = queued \cup {s}
  /\ waited' = [waited EXCEPT ![c] = 0]
  /\ UNCHANGED <<inLoop, step, answer>>

(* The scheduler takes a deferred item, in no order a caller may count on. *)
Dequeue(s) ==
  /\ inLoop = NoSlot /\ s \in queued
  /\ queued' = queued \ {s} /\ inLoop' = s /\ step' = "exchange"
  /\ UNCHANGED <<state, result, slotOf, waited, answer>>

(* Mutant of Exchange: the slot is taken whatever its state. *)
ExchangeBlindly ==
  /\ inLoop # NoSlot /\ step = "exchange"
  /\ state' = [state EXCEPT ![inLoop] = "running"] /\ step' = "job"
  /\ UNCHANGED <<inLoop, result, queued, slotOf, waited, answer>>
(* run(): win the slot or leave it, *)
Exchange ==
  /\ inLoop # NoSlot /\ step = "exchange"
  /\ IF state[inLoop] = "pending"
     THEN /\ state' = [state EXCEPT ![inLoop] = "running"]
          /\ step' = "job" /\ UNCHANGED inLoop
     ELSE /\ inLoop' = NoSlot /\ UNCHANGED <<state, step>>
  /\ UNCHANGED <<result, queued, slotOf, waited, answer>>

(* do the job and keep what it returned, *)
RunJob(returned) ==
  /\ inLoop # NoSlot /\ step = "job"
  /\ result' = [result EXCEPT ![inLoop] = returned]
  /\ step' = "publish"
  /\ UNCHANGED <<state, queued, inLoop, slotOf, waited, answer>>

(* and only then say it is done. *)
Publish ==
  /\ inLoop # NoSlot /\ step = "publish"
  /\ state' = [state EXCEPT ![inLoop] = "done"]
  /\ inLoop' = NoSlot /\ step' = "exchange"
  /\ UNCHANGED <<result, queued, slotOf, waited, answer>>

Waiting(c) == slotOf[c] # NoSlot

(* A poll that finds the job not done, and the time not up. *)
Poll(c) ==
  /\ Waiting(c) /\ state[slotOf[c]] # "done" /\ waited[c] < Polls
  /\ waited' = [waited EXCEPT ![c] = @ + 1]
  /\ UNCHANGED <<state, result, queued, inLoop, step, slotOf, answer>>

Returns(c, told) ==
  /\ slotOf' = [slotOf EXCEPT ![c] = NoSlot]
  /\ waited' = [waited EXCEPT ![c] = 0]
  /\ answer' = [answer EXCEPT ![c] = told]

(* The wait is up and the job has not begun: it never will. *)
Abandon(c) ==
  /\ Waiting(c) /\ waited[c] = Polls /\ state[slotOf[c]] = "pending"
  /\ state' = [state EXCEPT ![slotOf[c]] = "abandoned"]
  /\ UNCHANGED <<result, queued, inLoop, step, slotOf, waited, answer>>

GiveUp(c) ==
  /\ Waiting(c) /\ state[slotOf[c]] = "abandoned"
  /\ Returns(c, FALSE)
  /\ UNCHANGED <<state, result, queued, inLoop, step>>

(* Mutant of Answer: what is done past the deadline is not heard. *)
AnswerInTime(c) ==
  /\ Waiting(c) /\ waited[c] < Polls /\ state[slotOf[c]] = "done"
  /\ Returns(c, result[slotOf[c]])
  /\ UNCHANGED <<state, result, queued, inLoop, step>>
(* Done in time, or begun at the deadline and waited for all the same. *)
Answer(c) ==
  /\ Waiting(c) /\ state[slotOf[c]] = "done"
  /\ Returns(c, result[slotOf[c]])
  /\ UNCHANGED <<state, result, queued, inLoop, step>>

CallerStep(c) == Poll(c) \/ Abandon(c) \/ GiveUp(c) \/ Answer(c)
JobStep == (\E returned \in BOOLEAN : RunJob(returned)) \/ Publish

Next ==
  \/ \E c \in Callers, s \in Slots : Call(c, s)
  \/ \E s \in Slots : Dequeue(s)
  \/ Exchange \/ JobStep
  \/ \E c \in Callers : CallerStep(c)

Spec == Init /\ [][Next]_vars

(* The callers' tasks run and a job that began comes to its end.  The loop  *)
(* may be stuck in something else, or the owner have failed and its items   *)
(* never run: nothing makes Dequeue happen.                                 *)
FairSpec == Spec /\ WF_vars(JobStep) /\ \A c \in Callers : WF_vars(CallerStep(c))
-----------------------------------------------------------------------------
InJob(s) == inLoop = s /\ step \in {"job", "publish"}

(* A job captures its caller's locals by reference: while it runs, its       *)
(* caller is still inside the call that made it, however late that began.    *)
JobsHaveCallers == \A s \in Slots : InJob(s) => \E c \in Callers : slotOf[c] = s

(* Once a caller has been told that its job did not run, no item left in     *)
(* the scheduler can run it: what is queued and has lost its caller is       *)
(* abandoned for good.                                                       *)
Orphaned(s) == s \in queued /\ \A c \in Callers : slotOf[c] # s
OrphansAbandoned == \A s \in Slots : Orphaned(s) => state[s] = "abandoned"

(* Every call returns, though the loop may never come to it. *)
CallsReturn == \A c \in Callers : Waiting(c) ~> ~Waiting(c)

(* The handshake keeps LoopCall's promise, call by call. *)
CallOf(c) ==
  IF ~Waiting(c) THEN "idle"
  ELSE CASE state[slotOf[c]] = "pending"   -> "asked"
         [] state[slotOf[c]] = "running"   -> "doing"
         [] state[slotOf[c]] = "abandoned" -> "refused"
         [] state[slotOf[c]] = "done"      -> IF result[slotOf[c]] THEN "did_true" ELSE "did_false"
Promise == INSTANCE LoopCall WITH call <- [c \in Callers |-> CallOf(c)]
KeepsPromise == Promise!Spec
=============================================================================
