------------------------------ MODULE LoopCall -------------------------------
(***************************************************************************)
(* What run_on_loop() promises (components/loop_job/loop_job.h): a call    *)
(* from another task either has its job done once, alone, before it        *)
(* returns, and hears what the job returned, or is refused and its job     *)
(* never runs.                                                             *)
(***************************************************************************)
CONSTANT Callers

VARIABLES call,   \* where each caller's call is
          answer  \* what its last call returned; TRUE before any did

Phases == {"idle", "asked", "doing", "did_true", "did_false", "refused"}

Init == /\ call = [c \in Callers |-> "idle"]
        /\ answer = [c \in Callers |-> TRUE]

Moves(c, from, to) == call[c] = from /\ call' = [call EXCEPT ![c] = to]

Ask(c) == Moves(c, "idle", "asked") /\ UNCHANGED answer

Begin(c) == /\ \A other \in Callers : call[other] # "doing"
            /\ Moves(c, "asked", "doing")
            /\ UNCHANGED answer

End(c) == /\ Moves(c, "doing", "did_true") \/ Moves(c, "doing", "did_false")
          /\ UNCHANGED answer

Refuse(c) == Moves(c, "asked", "refused") /\ UNCHANGED answer

Return(c) == /\ \/ Moves(c, "did_true", "idle") /\ answer' = [answer EXCEPT ![c] = TRUE]
                \/ /\ Moves(c, "did_false", "idle") \/ Moves(c, "refused", "idle")
                   /\ answer' = [answer EXCEPT ![c] = FALSE]

Next == \E c \in Callers : Ask(c) \/ Begin(c) \/ End(c) \/ Refuse(c) \/ Return(c)

Spec == Init /\ [][Next]_<<call, answer>>
=============================================================================
