---------------------------- MODULE RelayClaimOps ----------------------------
(***************************************************************************)
(* The exclusive hold a thermostat has on one relay, as operators on a     *)
(* record (components/climate_hub/relay_claim.cpp).  Each operator returns *)
(* what one method of RelayClaim leaves behind.                            *)
(*                                                                         *)
(* The two timestamps of the class, on a clock of 64 bits that never       *)
(* wraps, are ages here: age is now - last_change_ms_, putBack is          *)
(* now - put_back_ms_, both saturating at MaxAge, past every threshold     *)
(* they are compared with.  The count of moves saturates at ContestMoves,  *)
(* the only value it is compared with.  relay is the switch's own state.   *)
(***************************************************************************)
EXTENDS Integers

CONSTANTS Floor,        \* PUT_BACK_FLOOR_MS
          Quiet,        \* CONTEST_QUIET_MS
          ContestMoves, \* CONTEST_MOVES
          MaxAge,       \* where an age saturates
          Dwells        \* the [on, off] minimum dwells a holder may bring

ASSUME ClaimAssumption ==
  /\ Floor \in Nat \ {0} /\ Quiet \in Nat /\ Floor <= Quiet
  /\ ContestMoves \in Nat \ {0}
  /\ MaxAge \in Nat /\ Quiet <= MaxAge
  /\ Dwells \subseteq [on : 0..MaxAge, off : 0..MaxAge]

Age == 0..MaxAge
Older(a) == IF a < MaxAge THEN a + 1 ELSE a

\* RelayWait, what kept the relay from the last request
Waits == {"none", "min_on", "min_off"}

Claim == [relay : BOOLEAN, state : BOOLEAN, age : Age, putBack : Age,
          moves : 0..ContestMoves, moved : BOOLEAN, pending : BOOLEAN,
          fresh : BOOLEAN, wait : Waits, dwell : Dwells]

(* Mutant of DwellOf: the dwells are swapped. *)
OtherDwellOf(c) == IF c.state THEN c.dwell.off ELSE c.dwell.on
DwellOf(c) == IF c.state THEN c.dwell.on ELSE c.dwell.off

(* Mutant of DwellOver: no floor under a position something else chose. *)
DwellOverNoFloor(c) == c.age >= DwellOf(c)
(* A position something else chose is kept for the floor at least. *)
DwellOver(c) == /\ c.age >= DwellOf(c)
                /\ c.pending => c.age >= Floor

IsQuiet(c) == ~c.pending /\ c.putBack >= Quiet
Contested(c) == c.moves >= ContestMoves /\ ~IsQuiet(c)

ForgetMoves(c) == [c EXCEPT !.moves = 0, !.moved = FALSE]
Outgrown(c) == IF c.moved /\ IsQuiet(c) THEN ForgetMoves(c) ELSE c

CountMove(c) == [c EXCEPT !.moves = IF @ < ContestMoves THEN @ + 1 ELSE @]

(* Mutant of Settled: the move stays pending after it is undone. *)
SettledStillPending(c) == IF c.pending THEN [c EXCEPT !.putBack = 0] ELSE c
Settled(c) == IF c.pending THEN [c EXCEPT !.pending = FALSE, !.putBack = 0] ELSE c

Apply(c, on) == [Settled(c) EXCEPT !.state = on, !.age = 0, !.relay = on]

(* The relay is not where the claim left it. *)
SettleMove(c, want, paced) ==
  LET movedTo == ~c.state
      there   == [c EXCEPT !.state = movedTo, !.age = 0]
      noted   == IF c.fresh THEN c
                 ELSE IF want = movedTo THEN [c EXCEPT !.moved = TRUE]
                 ELSE CountMove([c EXCEPT !.moved = TRUE])
  IN  IF want = movedTo /\ DwellOver(c)
      THEN Apply(c, want)
      ELSE IF paced /\ c.moved
           THEN IF want = movedTo THEN Settled(there)
                ELSE CountMove([there EXCEPT !.pending = TRUE])
           ELSE [Apply(noted, c.state) EXCEPT !.putBack = 0]

(***************************************************************************)
(* request(want).  The branch for a claim not yet initialized is dead: the *)
(* hub resumes every claim it makes (climate_hub.cpp:1110-1115).           *)
(***************************************************************************)
Request(claim, want) ==
  LET c    == Outgrown(claim)
      next == IF c.relay # c.state THEN SettleMove(c, want, TRUE)
              ELSE IF want = c.state THEN Settled(c)
              ELSE IF DwellOver(c) THEN Apply(c, want)
              ELSE c
  IN  [next EXCEPT !.fresh = FALSE,
                   !.wait = IF next.state = want \/ next.pending THEN "none"
                            ELSE IF next.state THEN "min_on" ELSE "min_off"]

(* force_off(paced) *)
ForceOff(claim, paced) ==
  LET c    == Outgrown(claim)
      next == IF ~c.relay
              THEN IF c.state THEN Apply(c, FALSE) ELSE Settled(c)
              ELSE IF ~c.state THEN SettleMove(c, FALSE, paced)
              ELSE IF ~paced \/ ~c.pending \/ DwellOver(c) THEN Apply(c, FALSE)
              ELSE c
  IN  [next EXCEPT !.fresh = FALSE, !.wait = "none"]

(* Mutant of Anew: the moves an earlier holder saw stay counted. *)
AnewCounting(c, dwell) == [c EXCEPT !.pending = FALSE, !.fresh = TRUE, !.wait = "none", !.dwell = dwell]
(* What set_owner() and resume() share: nothing held against the new holder. *)
Anew(c, dwell) == [ForgetMoves(c) EXCEPT !.pending = FALSE, !.fresh = TRUE,
                                         !.wait = "none", !.dwell = dwell]

(* Time passes: the switch stays, both ages grow. *)
Aged(c) == [c EXCEPT !.age = Older(@), !.putBack = Older(@)]
=============================================================================
