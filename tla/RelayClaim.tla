----------------------------- MODULE RelayClaim ------------------------------
(***************************************************************************)
(* One relay of the climate hub over its life: claimed by one thermostat   *)
(* after another, driven on every pass of the loop, moved from elsewhere   *)
(* between two passes (a panel, Home Assistant, an automation: nothing     *)
(* stops them), and carried over a restart of the device.                  *)
(***************************************************************************)
EXTENDS RelayClaimOps

VARIABLES
  claim,     \* the claim and its switch; with no claim, relay_history_'s record
  claimed,   \* whether a claim on the relay exists
  demand,    \* what the holder's tick asks of the claim on its next pass
  \* What an observer at the relay's terminals notes; the code holds none of it.
  foreign,   \* the relay is where something else put it, and the demand is not met
  sinceOwn,  \* since the claim last switched the relay, or the device started
  sincePut,  \* since the claim last undid a move from elsewhere, for this holder
  others     \* moves from elsewhere the holder has seen or may see, saturating

vars == <<claim, claimed, demand, foreign, sinceOwn, sincePut, others>>

(* "on" and "off" reach the claim as request(); "mode_off" as a paced and   *)
(* "cut_out" as an unpaced force_off().                                     *)
Demands == {"on", "off", "mode_off", "cut_out"}
Want == demand = "on"
Paced == demand # "cut_out"

TypeOK ==
  /\ claim \in Claim /\ claimed \in BOOLEAN /\ demand \in Demands
  /\ foreign \in BOOLEAN /\ sinceOwn \in Age /\ sincePut \in Age
  /\ others \in 0..ContestMoves

(* A boot: the switch shows what its restore mode left, nothing is claimed, *)
(* and the relay counts as opened at time 0, when the clock starts.         *)
Booted(relay, dwell) ==
  [relay |-> relay, state |-> FALSE, age |-> 0, putBack |-> MaxAge, moves |-> 0,
   moved |-> FALSE, pending |-> FALSE, fresh |-> TRUE, wait |-> "none", dwell |-> dwell]

Init ==
  /\ \E relay \in BOOLEAN, dwell \in Dwells : claim = Booted(relay, dwell)
  /\ claimed = FALSE /\ demand \in Demands
  /\ foreign = FALSE /\ sinceOwn = 0 /\ sincePut = MaxAge /\ others = 0

(* acquire_claims_ makes a claim that resumes the relay's last switching.   *)
(* The new claim's put_back_ms_ is 0, the boot; nothing reads it before a   *)
(* move sets it, so its age starts past every threshold.                    *)
Acquire(dwell) ==
  /\ ~claimed
  /\ claimed' = TRUE
  /\ claim' = [Anew(claim, dwell) EXCEPT !.putBack = MaxAge]
  /\ UNCHANGED <<demand, foreign, sinceOwn, sincePut, others>>

(* One pass of the loop over the holder: its tick ends in one call. *)
Driven(c) == IF demand \in {"on", "off"} THEN Request(c, Want) ELSE ForceOff(c, Paced)

Observed(after) ==
  LET switched == after.relay # claim.relay
  IN  /\ foreign' = (foreign /\ ~switched /\ after.relay # Want)
      /\ sinceOwn' = IF switched THEN 0 ELSE sinceOwn
      /\ sincePut' = IF switched /\ foreign THEN 0 ELSE sincePut

Pass ==
  /\ claimed
  /\ claim' = Driven(claim)
  /\ Observed(Driven(claim))
  /\ UNCHANGED <<claimed, demand, others>>

(* The mode, the reading, the fault or the PWM of the holder moves its demand. *)
ChangeDemand(d) ==
  /\ d # demand
  /\ demand' = d
  /\ UNCHANGED <<claim, claimed, foreign, sinceOwn, sincePut, others>>

(* hand_over_: the claim goes to another thermostat with the relay as it is. *)
HandOver(dwell) ==
  /\ claimed
  /\ claim' = Anew(claim, dwell)
  /\ foreign' = FALSE /\ sincePut' = MaxAge /\ others' = 0
  /\ UNCHANGED <<claimed, demand, sinceOwn>>

(* let_go_ opens the relay and keeps the switching; the claim is destroyed. *)
LetGo ==
  LET open == ForceOff(claim, FALSE)
  IN  /\ claimed
      /\ claimed' = FALSE
      /\ claim' = Anew(open, claim.dwell)
      /\ sinceOwn' = IF open.relay # claim.relay THEN 0 ELSE sinceOwn
      /\ foreign' = FALSE /\ sincePut' = MaxAge /\ others' = 0
      /\ UNCHANGED demand

(* Something else switches the relay.  Before a new holder's first look, as *)
(* while nobody holds it, that counts as no move.                           *)
Elsewhere ==
  /\ claim' = [claim EXCEPT !.relay = ~@]
  /\ IF claim.fresh
     THEN UNCHANGED <<foreign, others>>
     ELSE /\ foreign' = ~foreign
          /\ others' = IF others < ContestMoves THEN others + 1 ELSE others
  /\ UNCHANGED <<claimed, demand, sinceOwn, sincePut>>

Tick ==
  /\ claim' = Aged(claim)
  /\ sinceOwn' = Older(sinceOwn) /\ sincePut' = Older(sincePut)
  /\ UNCHANGED <<claimed, demand, foreign, others>>

(* A reset loses the claim, relay_history_ and the clock. *)
Reboot ==
  /\ \E relay \in BOOLEAN : claim' = Booted(relay, claim.dwell)
  /\ claimed' = FALSE
  /\ foreign' = FALSE /\ sinceOwn' = 0 /\ sincePut' = MaxAge /\ others' = 0
  /\ UNCHANGED demand

Next ==
  \/ \E dwell \in Dwells : Acquire(dwell) \/ HandOver(dwell)
  \/ Pass
  \/ \E d \in Demands : ChangeDemand(d)
  \/ LetGo
  \/ Elsewhere
  \/ Tick
  \/ Reboot

Spec == Init /\ [][Next]_vars

(* The loop runs every registered component without end, and time passes. *)
Fairness == WF_vars(Pass) /\ WF_vars(Tick)
FairSpec == Spec /\ Fairness
-----------------------------------------------------------------------------
Switches == claim'.relay # claim.relay

(* What a first look finds out of place: restored by a boot, or moved while  *)
(* nobody held the relay.                                                    *)
FoundMoved == claim.fresh /\ claim.relay # claim.state

(* Contact and compressor wear: outside the undoing of a move from          *)
(* elsewhere, a pass never closes the relay sooner than min_off after the    *)
(* claim's last switching, and a demand never opens it sooner than min_on,   *)
(* across modes, cut-outs, hand-overs, releases and restarts; only mode off  *)
(* and cut-outs open it early.                                               *)
DwellKept ==
  [][Pass /\ Switches /\ ~foreign /\ ~FoundMoved =>
       /\ claim'.relay => sinceOwn >= claim.dwell.off
       /\ (~claim'.relay /\ demand = "off") => sinceOwn >= claim.dwell.on]_vars

(* A writer that keeps at it gets one put-back per dwell, not one per pass:  *)
(* for one holder, unless a cut-out drives the relay, two undone moves are   *)
(* PUT_BACK_FLOOR_MS and the dwell of the position apart, unless the earlier *)
(* one is long enough ago to be forgotten.                                   *)
PutBacksSpaced ==
  [][Pass /\ Switches /\ foreign /\ Paced =>
       /\ sincePut >= Floor
       /\ sincePut >= Quiet \/ sincePut >= (IF claim.relay THEN claim.dwell.on ELSE claim.dwell.off)]_vars

(* A sensor or over-temperature cut-out opens the relay on the very next     *)
(* pass, whatever dwell, put-back or contest is running.                     *)
CutOutOpens == claimed /\ demand = "cut_out" => ~Driven(claim).relay

(* relay_contested is never raised on the claim's own switching, on a boot   *)
(* or on what an earlier holder saw: a counted move is a move from elsewhere.*)
OnlyMovesCount == claim.moves <= others

(* When the others leave the relay alone and the holder keeps its demand,    *)
(* the relay gets there, and a contest, if any, is over.                     *)
Calm == <>[][Pass \/ Tick]_vars
Settles == Calm /\ <>[]claimed => <>[](claim.relay = Want /\ ~Contested(claim))
=============================================================================
