---------------------------- MODULE MCClimateHub -----------------------------
(* Instances of ClimateHub for TLC. *)
EXTENDS ClimateHub

CONSTANTS r1, r2, r3, r4

Shape(s, h, c) == [sensor |-> s, heat |-> h, cool |-> c]

(* One relay each, both relays, and a sensor that is not there. *)
PairShapes == {Shape("ok", r1, NoRelay), Shape("ok", r1, r2), Shape("ok", NoRelay, r2),
               Shape("absent", r1, NoRelay)}

(* One relay, alone or with another. *)
RelayShapes == {Shape("ok", r1, NoRelay), Shape("ok", r1, r2)}
(* With a third relay, so that the pool may be all a thermostat waits for,   *)
(* and a relay that is not on the device.                                    *)
WaitingShapes ==
  PairShapes \cup {Shape("ok", r3, NoRelay), Shape("ok", r1, r4), Shape("not_celsius", r2, NoRelay)}

Stale(newer) == {[enabled |-> e, sensor |-> s.sensor, heat |-> s.heat, cool |-> s.cool,
                  target |-> CHOOSE t \in Targets : TRUE, newer |-> newer] :
                    e \in BOOLEAN, s \in Shapes}

(* Folders written by hand: anything, conflicts and refused files included. *)
AnyFolder == [Ids -> Stale(FALSE) \cup {NoFile, BadFile}]
(* No two enabled on one relay, some of the files written by a newer firmware. *)
MixedFolder == {f \in [Ids -> Stale(TRUE) \cup Stale(FALSE) \cup {NoFile}] : Exclusive(f)}
EmptyFolder == {[i \in Ids |-> NoFile]}
=============================================================================
