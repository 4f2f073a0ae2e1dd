------------------------- MODULE RelayClaimOpsProofs -------------------------
(***************************************************************************)
(* What each method of RelayClaim leaves of a well-typed claim, for every  *)
(* floor, quiet time, dwell and count: the lemmas the proofs about a claim *)
(* alone and about the thermostat that holds it rest on.                   *)
(***************************************************************************)
EXTENDS RelayClaimOps, TLAPS

(* What the methods leave of a well-typed claim, field by field. *)

LEMMA FieldSet ==
  ASSUME NEW c \in Claim
  PROVE  /\ \A v \in BOOLEAN : /\ [c EXCEPT !.relay = v] \in Claim
                               /\ [c EXCEPT !.state = v] \in Claim
                               /\ [c EXCEPT !.moved = v] \in Claim
                               /\ [c EXCEPT !.pending = v] \in Claim
                               /\ [c EXCEPT !.fresh = v] \in Claim
         /\ \A v \in Age : /\ [c EXCEPT !.age = v] \in Claim
                           /\ [c EXCEPT !.putBack = v] \in Claim
         /\ \A v \in 0..ContestMoves : [c EXCEPT !.moves = v] \in Claim
         /\ \A v \in Waits : [c EXCEPT !.wait = v] \in Claim
         /\ \A v \in Dwells : [c EXCEPT !.dwell = v] \in Claim
<1> USE ClaimAssumption DEF Claim
<1>1. \A v \in BOOLEAN : /\ [c EXCEPT !.relay = v] \in Claim
                         /\ [c EXCEPT !.state = v] \in Claim
                         /\ [c EXCEPT !.moved = v] \in Claim
                         /\ [c EXCEPT !.pending = v] \in Claim
                         /\ [c EXCEPT !.fresh = v] \in Claim
  OBVIOUS
<1>2. \A v \in Age : /\ [c EXCEPT !.age = v] \in Claim
                     /\ [c EXCEPT !.putBack = v] \in Claim
  OBVIOUS
<1>3. \A v \in 0..ContestMoves : [c EXCEPT !.moves = v] \in Claim
  OBVIOUS
<1>4. \A v \in Waits : [c EXCEPT !.wait = v] \in Claim
  OBVIOUS
<1>5. \A v \in Dwells : [c EXCEPT !.dwell = v] \in Claim
  OBVIOUS
<1> QED
  BY <1>1, <1>2, <1>3, <1>4, <1>5

LEMMA FieldTypes ==
  ASSUME NEW c \in Claim
  PROVE  /\ c.relay \in BOOLEAN /\ c.state \in BOOLEAN /\ c.moved \in BOOLEAN
         /\ c.pending \in BOOLEAN /\ c.fresh \in BOOLEAN
         /\ c.age \in 0..MaxAge /\ c.putBack \in 0..MaxAge /\ c.moves \in 0..ContestMoves
         /\ c.dwell.on \in 0..MaxAge /\ c.dwell.off \in 0..MaxAge
  BY ClaimAssumption DEF Claim, Age

LEMMA Numbers == /\ 0 \in Age /\ MaxAge \in Age /\ 0 \in 0..ContestMoves
                 /\ \A a \in Age : Older(a) \in Age /\ Older(a) >= a
                 /\ \A a, b \in Age : a <= b => Older(a) <= Older(b)
  BY ClaimAssumption DEF Age, Older

(* What Outgrown leaves alone, and what it may forget. *)
LEMMA OutgrownFacts ==
  ASSUME NEW c \in Claim, NEW o, o = Outgrown(c)
  PROVE  /\ o \in Claim
         /\ o.relay = c.relay /\ o.state = c.state /\ o.age = c.age
         /\ o.putBack = c.putBack /\ o.pending = c.pending /\ o.fresh = c.fresh
         /\ o.dwell = c.dwell
         /\ \/ o.moved = c.moved /\ o.moves = c.moves
            \/ ~o.moved /\ o.moves = 0 /\ IsQuiet(c)
<1>1. ForgetMoves(c) \in Claim
  BY FieldSet, Numbers DEF ForgetMoves
<1> QED
  BY <1>1 DEF Outgrown, ForgetMoves, Claim

LEMMA SettledFacts ==
  ASSUME NEW c \in Claim, NEW s, s = Settled(c)
  PROVE  /\ s \in Claim
         /\ s.relay = c.relay /\ s.state = c.state /\ s.age = c.age
         /\ s.moves = c.moves /\ s.moved = c.moved /\ s.fresh = c.fresh /\ s.dwell = c.dwell
         /\ ~s.pending
         /\ s.putBack = IF c.pending THEN 0 ELSE c.putBack
<1>1. CASE c.pending
  <2>1. s \in Claim
    BY <1>1, FieldSet, Numbers DEF Settled
  <2> QED
    BY <1>1, <2>1 DEF Settled, Claim
<1>2. CASE ~c.pending
  BY <1>2 DEF Settled
<1> QED
  BY <1>1, <1>2

LEMMA ApplyFacts ==
  ASSUME NEW c \in Claim, NEW on \in BOOLEAN, NEW a, a = Apply(c, on)
  PROVE  /\ a \in Claim
         /\ a.relay = on /\ a.state = on /\ a.age = 0
         /\ a.moves = c.moves /\ a.moved = c.moved /\ a.fresh = c.fresh /\ a.dwell = c.dwell
         /\ ~a.pending
         /\ a.putBack = IF c.pending THEN 0 ELSE c.putBack
<1>1. PICK s \in Claim : s = Settled(c)
  BY SettledFacts
<1>2. a = [s EXCEPT !.state = on, !.age = 0, !.relay = on]
  BY <1>1 DEF Apply
<1>3. [s EXCEPT !.state = on, !.age = 0] \in Claim
  BY <1>1, FieldSet, Numbers
<1>4. a \in Claim
  BY <1>2, <1>3, FieldSet
<1> QED
  BY <1>1, <1>2, <1>4, SettledFacts DEF Claim

(* A move undone at once: the relay back where the claim had it. *)
BackTo(c, d) == [Apply(c, d.state) EXCEPT !.putBack = 0]
LEMMA BackToFacts ==
  ASSUME NEW c \in Claim, NEW d \in Claim, NEW s, s = BackTo(c, d)
  PROVE  /\ s \in Claim
         /\ s.relay = d.state /\ s.state = d.state /\ s.age = 0 /\ ~s.pending /\ s.putBack = 0
         /\ s.moves = c.moves /\ s.moved = c.moved /\ s.dwell = c.dwell
<1>0. PICK on \in BOOLEAN : on = d.state
  BY FieldTypes
<1>1. PICK t \in Claim : t = Settled(c)
  BY SettledFacts
<1>2. s = [t EXCEPT !.state = on, !.age = 0, !.relay = on, !.putBack = 0]
  BY <1>0, <1>1 DEF BackTo, Apply
<1>3. PICK u \in Claim : u = [t EXCEPT !.state = on, !.age = 0]
  BY FieldSet, Numbers
<1>4. PICK v \in Claim : v = [u EXCEPT !.relay = on]
  BY FieldSet
<1>5. s \in Claim
  <2>1. s = [v EXCEPT !.putBack = 0]
    BY <1>2, <1>3, <1>4
  <2> QED
    BY <2>1, FieldSet, Numbers
<1>6. /\ t.moves = c.moves /\ t.moved = c.moved /\ t.dwell = c.dwell /\ ~t.pending
  BY <1>1, SettledFacts
<1>7. /\ s.relay = on /\ s.state = on /\ s.age = 0 /\ s.putBack = 0
      /\ s.pending = t.pending /\ s.moves = t.moves /\ s.moved = t.moved /\ s.dwell = t.dwell
  BY <1>2 DEF Claim
<1> QED
  BY <1>0, <1>5, <1>6, <1>7

LEMMA CountMoveFacts ==
  ASSUME NEW c \in Claim, NEW m, m = CountMove(c)
  PROVE  /\ m \in Claim
         /\ m.relay = c.relay /\ m.state = c.state /\ m.age = c.age /\ m.putBack = c.putBack
         /\ m.moved = c.moved /\ m.pending = c.pending /\ m.fresh = c.fresh /\ m.dwell = c.dwell
         /\ m.moves >= c.moves
         /\ m.moves <= c.moves + 1
<1>1. (IF c.moves < ContestMoves THEN c.moves + 1 ELSE c.moves) \in 0..ContestMoves
  BY FieldTypes, ClaimAssumption
<1>2. m = [c EXCEPT !.moves = IF c.moves < ContestMoves THEN c.moves + 1 ELSE c.moves]
  BY DEF CountMove
<1>3. m \in Claim
  BY <1>1, <1>2, FieldSet
<1> QED
  BY <1>1, <1>2, <1>3, FieldTypes, ClaimAssumption DEF Claim

(* Either the move is taken as the new position, or it is undone at once. *)
TakenIn(c, want, paced, s) ==
  /\ s.relay = c.relay /\ s.moved = c.moved
  /\ s.pending => c.moved /\ paced
  /\ ~s.pending => want = s.relay
Undone(c, want, paced, s) ==
  /\ s.relay # c.relay /\ ~s.pending /\ s.putBack = 0
  /\ ~paced \/ ~c.moved
  /\ s.moved \/ c.fresh

LEMMA SettleMoveFacts ==
  ASSUME NEW c \in Claim, NEW want \in BOOLEAN, NEW paced \in BOOLEAN, c.relay # c.state,
         NEW s, s = SettleMove(c, want, paced)
  PROVE  /\ s \in Claim
         /\ s.relay = s.state /\ s.dwell = c.dwell
         /\ s.age = 0 /\ s.putBack \in {0, c.putBack}
         /\ s.moves <= c.moves + 1
         /\ c.fresh /\ ~c.moved => s.moves = c.moves
         /\ c.moved => s.moved
         /\ TakenIn(c, want, paced, s) \/ Undone(c, want, paced, s)
<1> DEFINE there == [c EXCEPT !.state = ~c.state, !.age = 0]
           counted == [there EXCEPT !.pending = TRUE]
           remembered == [c EXCEPT !.moved = TRUE]
           noted == IF c.fresh THEN c
                    ELSE IF want = ~c.state THEN remembered
                    ELSE CountMove(remembered)
<1>0. c.relay = ~c.state /\ c.state \in BOOLEAN /\ c.moves \in 0..ContestMoves
  BY FieldTypes
<1>1. there \in Claim /\ counted \in Claim /\ remembered \in Claim
  <2>1. [c EXCEPT !.state = ~c.state] \in Claim
    BY <1>0, FieldSet
  <2>2. there \in Claim
    BY <2>1, FieldSet, Numbers
  <2> QED
    BY <2>2, FieldSet
<1>2. /\ there.relay = c.relay /\ there.state = c.relay /\ there.age = 0
      /\ there.moves = c.moves /\ there.moved = c.moved /\ there.dwell = c.dwell
      /\ there.putBack = c.putBack /\ there.fresh = c.fresh
  BY <1>0, <1>1 DEF Claim
<1>3. CASE want = ~c.state /\ DwellOver(c)
  <2>1. s = Apply(c, want)
    BY <1>3 DEF SettleMove
  <2>2. /\ s \in Claim /\ s.relay = want /\ s.state = want /\ s.age = 0 /\ ~s.pending
        /\ s.moves = c.moves /\ s.moved = c.moved /\ s.dwell = c.dwell
        /\ s.putBack \in {0, c.putBack}
    BY <2>1, ApplyFacts
  <2> QED
    BY <1>0, <1>3, <2>2 DEF TakenIn
<1>4. CASE ~(want = ~c.state /\ DwellOver(c)) /\ paced /\ c.moved /\ want = ~c.state
  <2>1. s = Settled(there)
    BY <1>4 DEF SettleMove
  <2> HIDE DEF there
  <2>2. /\ s \in Claim /\ s.relay = c.relay /\ s.state = c.relay /\ s.age = 0 /\ ~s.pending
        /\ s.moves = c.moves /\ s.moved = c.moved /\ s.dwell = c.dwell
        /\ s.putBack \in {0, c.putBack}
    BY <1>1, <1>2, <2>1, SettledFacts
  <2>3. TakenIn(c, want, paced, s)
    BY <1>0, <1>4, <2>2 DEF TakenIn
  <2>4. s.moves <= c.moves + 1
    BY <1>0, <2>2
  <2>5. s.relay = s.state
    BY <2>2
  <2>6. c.moved => s.moved
    BY <2>2
  <2> QED
    BY <2>2, <2>3, <2>4, <2>5, <2>6
<1>5. CASE ~(want = ~c.state /\ DwellOver(c)) /\ paced /\ c.moved /\ want # ~c.state
  <2>1. s = CountMove(counted)
    BY <1>5 DEF SettleMove
  <2>2. /\ counted.relay = c.relay /\ counted.state = c.relay /\ counted.age = 0
        /\ counted.moves = c.moves /\ counted.moved = c.moved /\ counted.dwell = c.dwell
        /\ counted.putBack = c.putBack /\ counted.pending
    BY <1>1, <1>2 DEF Claim
  <2> HIDE DEF counted
  <2>3. /\ s \in Claim /\ s.relay = c.relay /\ s.state = c.relay /\ s.age = 0 /\ s.pending
        /\ s.moves <= c.moves + 1 /\ s.moved = c.moved /\ s.dwell = c.dwell
        /\ s.putBack = c.putBack
    BY <1>1, <2>1, <2>2, CountMoveFacts
  <2> QED
    BY <1>0, <1>5, <2>3 DEF TakenIn
<1>6. CASE ~(want = ~c.state /\ DwellOver(c)) /\ ~(paced /\ c.moved)
  <2>1. /\ noted \in Claim
        /\ noted.state = c.state /\ noted.dwell = c.dwell
        /\ noted.moves <= c.moves + 1 /\ noted.moved \in BOOLEAN
        /\ c.fresh => noted = c
        /\ ~c.fresh => noted.moved
    <3>1. /\ remembered.state = c.state /\ remembered.dwell = c.dwell
          /\ remembered.moves = c.moves /\ remembered.moved
      BY <1>1 DEF Claim
    <3> HIDE DEF remembered
    <3>2. PICK counting : counting = CountMove(remembered)
      OBVIOUS
    <3>3. /\ counting \in Claim /\ counting.state = c.state /\ counting.dwell = c.dwell
          /\ counting.moves <= c.moves + 1 /\ counting.moved
      BY <1>1, <3>1, <3>2, CountMoveFacts
    <3>4. noted = IF c.fresh THEN c ELSE IF want = ~c.state THEN remembered ELSE counting
      BY <3>2
    <3> QED
      BY <1>0, <1>1, <3>1, <3>3, <3>4, FieldTypes
  <2>2. s = BackTo(noted, c)
    BY <1>6 DEF SettleMove, BackTo
  <2> HIDE DEF noted, there, counted, remembered
  <2>3. PICK k \in Claim : k = noted
    BY <2>1
  <2>4. s = BackTo(k, c)
    BY <2>2, <2>3
  <2>5. s \in Claim
    BY <2>4, BackToFacts
  <2>6. /\ s.relay = c.state /\ s.state = c.state /\ s.age = 0 /\ ~s.pending /\ s.putBack = 0
        /\ s.moves = k.moves /\ s.moved = k.moved /\ s.dwell = k.dwell
    BY <2>4, BackToFacts
  <2>7. /\ s.relay = s.state /\ s.dwell = c.dwell /\ s.age = 0 /\ s.putBack = 0
        /\ s.moves = noted.moves /\ s.moved = noted.moved /\ ~s.pending
        /\ s.relay = c.state
    BY <2>1, <2>3, <2>6
  <2>8. /\ s.moves <= c.moves + 1
        /\ c.fresh => s.moves = c.moves /\ s.moved = c.moved
        /\ ~c.fresh => s.moved
    BY <2>1, <2>7
  <2>9. /\ c.fresh /\ ~c.moved => s.moves = c.moves
        /\ c.moved => s.moved
    BY <1>0, <2>8
  <2>10. Undone(c, want, paced, s)
    BY <1>0, <1>6, <2>7, <2>8 DEF Undone
  <2> QED
    BY <2>5, <2>7, <2>8, <2>9, <2>10
<1> QED
  BY <1>3, <1>4, <1>5, <1>6

(* What a request or a paced or unpaced force_off may make of a claim: it    *)
(* ends where the relay is, and it switches the relay either back from a     *)
(* move or, on its own, past the dwell.                                      *)
Driving(c, want, r) ==
  /\ r \in Claim
  /\ r.relay = r.state /\ ~r.fresh /\ r.dwell = c.dwell
  /\ r.age \in {0, c.age} /\ r.putBack \in {0, c.putBack}
  /\ IF c.relay # c.state /\ (~c.fresh \/ c.moved) THEN r.moves <= c.moves + 1 ELSE r.moves <= c.moves
  /\ r.pending => r.moved
  /\ ~r.moved => ~c.moved \/ IsQuiet(c)
  /\ r.relay = c.relay /\ ~r.pending => r.relay = want \/ (c.relay = c.state /\ ~c.pending)
  /\ r.relay # c.relay =>
       /\ r.age = 0
       /\ c.pending => r.putBack = 0
       /\ c.relay # c.state => r.putBack = 0 /\ (r.moved \/ c.fresh)

(* The switchings a pace applies to. *)
PacedSwitching(c, r) ==
  r.relay # c.relay =>
    IF c.relay = c.state THEN ~c.pending \/ DwellOver(c) ELSE ~c.moved \/ IsQuiet(c)

LEMMA RequestFacts ==
  ASSUME NEW c \in Claim, NEW want \in BOOLEAN, c.pending => c.moved,
         NEW r, r = Request(c, want)
  PROVE  /\ Driving(c, want, r)
         /\ PacedSwitching(c, r)
         /\ r.relay # c.relay /\ c.relay = c.state => DwellOver(c) /\ want = r.relay
<1> DEFINE o == Outgrown(c)
           next == IF o.relay # o.state THEN SettleMove(o, want, TRUE)
                   ELSE IF want = o.state THEN Settled(o)
                   ELSE IF DwellOver(o) THEN Apply(o, want)
                   ELSE o
           wait == IF next.state = want \/ next.pending THEN "none"
                   ELSE IF next.state THEN "min_on" ELSE "min_off"
<1>0. o \in Claim /\ DwellOver(o) = DwellOver(c)
  BY OutgrownFacts DEF DwellOver, DwellOf
<1>1. /\ o.relay = c.relay /\ o.state = c.state /\ o.age = c.age
      /\ o.putBack = c.putBack /\ o.pending = c.pending /\ o.fresh = c.fresh
      /\ o.dwell = c.dwell
      /\ \/ o.moved = c.moved /\ o.moves = c.moves
         \/ ~o.moved /\ o.moves = 0 /\ IsQuiet(c)
  BY OutgrownFacts
<1>2. r = [next EXCEPT !.fresh = FALSE, !.wait = wait]
  BY DEF Request
<1>3. ASSUME NEW n \in Claim, n = next
      PROVE  /\ r \in Claim /\ ~r.fresh
             /\ r.relay = n.relay /\ r.state = n.state /\ r.age = n.age /\ r.putBack = n.putBack
             /\ r.moves = n.moves /\ r.moved = n.moved /\ r.pending = n.pending
             /\ r.dwell = n.dwell
  <2>1. wait \in Waits
    BY DEF Waits
  <2> HIDE DEF wait, next
  <2>2. PICK seen \in Claim : seen = [n EXCEPT !.fresh = FALSE]
    BY FieldSet
  <2>3. r = [seen EXCEPT !.wait = wait]
    BY <1>2, <1>3, <2>2
  <2>4. r \in Claim
    BY <2>1, <2>3, FieldSet
  <2> QED
    BY <1>2, <1>3, <2>4 DEF Claim
<1>4. /\ c.relay \in BOOLEAN /\ c.state \in BOOLEAN /\ c.moves \in Nat
      /\ c.moved \in BOOLEAN /\ c.fresh \in BOOLEAN
  BY FieldTypes, ClaimAssumption
<1> HIDE DEF o, wait
<1>5. CASE o.relay # o.state
  <2>0. PICK paced \in BOOLEAN : paced = TRUE
    OBVIOUS
  <2>1. PICK n : n = SettleMove(o, want, paced)
    OBVIOUS
  <2>2. /\ n \in Claim
        /\ n.relay = n.state /\ n.dwell = o.dwell
        /\ n.age = 0 /\ n.putBack \in {0, o.putBack}
        /\ n.moves <= o.moves + 1
        /\ o.fresh /\ ~o.moved => n.moves = o.moves
        /\ o.moved => n.moved
        /\ TakenIn(o, want, paced, n) \/ Undone(o, want, paced, n)
    BY <1>0, <1>5, <2>1, SettleMoveFacts
  <2>3. n = next
    BY <1>5, <2>0, <2>1
  <2> HIDE DEF next
  <2>4. /\ r \in Claim /\ ~r.fresh
        /\ r.relay = n.relay /\ r.state = n.state /\ r.age = n.age /\ r.putBack = n.putBack
        /\ r.moves = n.moves /\ r.moved = n.moved /\ r.pending = n.pending
        /\ r.dwell = n.dwell
    BY <1>3, <2>2, <2>3
  <2>5. n.moves \in Nat
    BY <2>2, FieldTypes, ClaimAssumption
  <2>6. CASE TakenIn(o, want, paced, n)
    BY <1>1, <1>4, <1>5, <2>2, <2>4, <2>5, <2>6 DEF Driving, PacedSwitching, TakenIn
  <2>7. CASE Undone(o, want, paced, n)
    BY <1>1, <1>4, <1>5, <2>0, <2>2, <2>4, <2>5, <2>7 DEF Driving, PacedSwitching, Undone
  <2> QED
    BY <2>2, <2>6, <2>7
<1>6. CASE o.relay = o.state /\ want = o.state
  <2>1. PICK n : n = Settled(o)
    OBVIOUS
  <2>2. /\ n \in Claim /\ n.relay = o.relay /\ n.state = o.state /\ n.age = o.age
        /\ n.moves = o.moves /\ n.moved = o.moved /\ n.dwell = o.dwell
        /\ ~n.pending
        /\ n.putBack = IF o.pending THEN 0 ELSE o.putBack
    BY <1>0, <2>1, SettledFacts
  <2>3. n = next
    BY <1>6, <2>1
  <2> HIDE DEF next
  <2> QED
    BY <1>1, <1>3, <1>4, <1>6, <2>2, <2>3 DEF Driving, PacedSwitching
<1>7. CASE o.relay = o.state /\ want # o.state /\ DwellOver(o)
  <2>1. PICK n : n = Apply(o, want)
    OBVIOUS
  <2>2. /\ n \in Claim /\ n.relay = want /\ n.state = want /\ n.age = 0
        /\ n.moves = o.moves /\ n.moved = o.moved /\ n.dwell = o.dwell
        /\ ~n.pending
        /\ n.putBack = IF o.pending THEN 0 ELSE o.putBack
    BY <1>0, <2>1, ApplyFacts
  <2>3. n = next
    BY <1>7, <2>1
  <2> HIDE DEF next
  <2> QED
    BY <1>0, <1>1, <1>3, <1>4, <1>7, <2>2, <2>3 DEF Driving, PacedSwitching
<1>8. CASE o.relay = o.state /\ want # o.state /\ ~DwellOver(o)
  <2>1. o = next
    BY <1>8
  <2> HIDE DEF next
  <2> QED
    BY <1>0, <1>1, <1>3, <1>4, <1>8, <2>1 DEF Driving, PacedSwitching, IsQuiet
<1> QED
  BY <1>5, <1>6, <1>7, <1>8

LEMMA ForceOffFacts ==
  ASSUME NEW c \in Claim, NEW paced \in BOOLEAN, c.pending => c.moved,
         NEW r, r = ForceOff(c, paced)
  PROVE  /\ Driving(c, FALSE, r)
         /\ paced => PacedSwitching(c, r)
         /\ ~paced => ~r.relay
         /\ r.relay => c.relay
<1> DEFINE o == Outgrown(c)
           next == IF ~o.relay
                   THEN IF o.state THEN Apply(o, FALSE) ELSE Settled(o)
                   ELSE IF ~o.state THEN SettleMove(o, FALSE, paced)
                   ELSE IF ~paced \/ ~o.pending \/ DwellOver(o) THEN Apply(o, FALSE)
                   ELSE o
<1>0. o \in Claim /\ DwellOver(o) = DwellOver(c)
  BY OutgrownFacts DEF DwellOver, DwellOf
<1>1. /\ o.relay = c.relay /\ o.state = c.state /\ o.age = c.age
      /\ o.putBack = c.putBack /\ o.pending = c.pending /\ o.fresh = c.fresh
      /\ o.dwell = c.dwell
      /\ \/ o.moved = c.moved /\ o.moves = c.moves
         \/ ~o.moved /\ o.moves = 0 /\ IsQuiet(c)
  BY OutgrownFacts
<1>2. r = [next EXCEPT !.fresh = FALSE, !.wait = "none"]
  BY DEF ForceOff
<1>3. ASSUME NEW n \in Claim, n = next
      PROVE  /\ r \in Claim /\ ~r.fresh
             /\ r.relay = n.relay /\ r.state = n.state /\ r.age = n.age /\ r.putBack = n.putBack
             /\ r.moves = n.moves /\ r.moved = n.moved /\ r.pending = n.pending
             /\ r.dwell = n.dwell
  <2> HIDE DEF next
  <2>1. [n EXCEPT !.fresh = FALSE] \in Claim
    BY FieldSet
  <2>2. r \in Claim
    BY <1>2, <1>3, <2>1, FieldSet DEF Waits
  <2> QED
    BY <1>2, <1>3, <2>2 DEF Claim
<1>4. /\ c.relay \in BOOLEAN /\ c.state \in BOOLEAN /\ c.moves \in Nat
      /\ c.moved \in BOOLEAN /\ c.fresh \in BOOLEAN
  BY FieldTypes, ClaimAssumption
<1> HIDE DEF o
<1>5. CASE o.relay # o.state /\ o.relay
  <2>0. PICK want \in BOOLEAN : want = FALSE
    OBVIOUS
  <2>1. PICK n : n = SettleMove(o, want, paced)
    OBVIOUS
  <2>2. /\ n \in Claim
        /\ n.relay = n.state /\ n.dwell = o.dwell
        /\ n.age = 0 /\ n.putBack \in {0, o.putBack}
        /\ n.moves <= o.moves + 1
        /\ o.fresh /\ ~o.moved => n.moves = o.moves
        /\ o.moved => n.moved
        /\ TakenIn(o, want, paced, n) \/ Undone(o, want, paced, n)
    <3>1. o.relay # o.state
      BY <1>5
    <3> QED
      BY <1>0, <2>1, <3>1, SettleMoveFacts
  <2>3. n = next
    BY <1>1, <1>4, <1>5, <2>0, <2>1
  <2> HIDE DEF next
  <2>4. /\ r \in Claim /\ ~r.fresh
        /\ r.relay = n.relay /\ r.state = n.state /\ r.age = n.age /\ r.putBack = n.putBack
        /\ r.moves = n.moves /\ r.moved = n.moved /\ r.pending = n.pending
        /\ r.dwell = n.dwell
    BY <1>3, <2>2, <2>3
  <2>5. n.moves \in Nat /\ n.relay \in BOOLEAN
    BY <2>2, FieldTypes, ClaimAssumption
  <2>6. c.relay /\ ~c.state /\ c.relay # c.state
    BY <1>1, <1>4, <1>5
  <2>7. r.relay = r.state /\ ~r.fresh /\ r.dwell = c.dwell /\ r.age = 0 /\ r.putBack \in {0, c.putBack}
    BY <1>1, <2>2, <2>4
  <2>8. IF c.relay # c.state /\ (~c.fresh \/ c.moved) THEN r.moves <= c.moves + 1 ELSE r.moves <= c.moves
    <3>1. r.moves <= o.moves + 1 /\ r.moves \in Nat
      BY <2>2, <2>4, <2>5
    <3>2. c.fresh /\ ~o.moved => r.moves = o.moves
      BY <1>1, <2>2, <2>4
    <3>3. o.moves = c.moves \/ o.moves = 0
      BY <1>1
    <3>4. c.fresh /\ ~c.moved => ~o.moved
      BY <1>1
    <3> QED
      BY <1>4, <2>6, <3>1, <3>2, <3>3, <3>4
  <2>9. /\ ~r.moved => ~c.moved \/ IsQuiet(c)
        /\ r.moved \/ ~o.moved
    BY <1>1, <2>2, <2>4
  <2>10. CASE TakenIn(o, want, paced, n)
    <3>1. r.relay = c.relay /\ (r.pending => r.moved) /\ (~r.pending => r.relay = want) /\ (r.pending => paced)
      BY <1>1, <2>4, <2>10 DEF TakenIn
    <3>3. Driving(c, FALSE, r) /\ PacedSwitching(c, r)
      BY <2>0, <2>4, <2>6, <2>7, <2>8, <2>9, <3>1 DEF Driving, PacedSwitching
    <3>4. ~paced => ~r.relay
      BY <2>0, <3>1
    <3> QED
      BY <2>6, <3>3, <3>4
  <2>11. CASE Undone(o, want, paced, n)
    <3>1. ~r.relay /\ ~r.pending /\ r.putBack = 0 /\ (r.moved \/ c.fresh) /\ (~paced \/ ~o.moved)
      BY <1>1, <2>4, <2>5, <2>6, <2>11 DEF Undone
    <3>2. ~o.moved => ~c.moved \/ IsQuiet(c)
      BY <1>1
    <3>3. Driving(c, FALSE, r)
      BY <2>4, <2>6, <2>7, <2>8, <2>9, <3>1 DEF Driving
    <3>4. paced => PacedSwitching(c, r)
      BY <2>6, <3>1, <3>2 DEF PacedSwitching
    <3> QED
      BY <3>1, <3>3, <3>4
  <2> QED
    BY <2>2, <2>10, <2>11
<1>6. CASE ~o.relay /\ ~o.state
  <2>1. PICK n : n = Settled(o)
    OBVIOUS
  <2>2. /\ n \in Claim /\ n.relay = o.relay /\ n.state = o.state /\ n.age = o.age
        /\ n.moves = o.moves /\ n.moved = o.moved /\ n.dwell = o.dwell
        /\ ~n.pending
        /\ n.putBack = IF o.pending THEN 0 ELSE o.putBack
    BY <1>0, <2>1, SettledFacts
  <2>3. n = next
    BY <1>6, <2>1
  <2> HIDE DEF next
  <2> QED
    BY <1>1, <1>3, <1>4, <1>6, <2>2, <2>3 DEF Driving, PacedSwitching
<1>7. CASE (~o.relay /\ o.state) \/ (o.relay /\ o.state /\ (~paced \/ ~o.pending \/ DwellOver(o)))
  <2>0. PICK want \in BOOLEAN : want = FALSE
    OBVIOUS
  <2>1. PICK n : n = Apply(o, want)
    OBVIOUS
  <2>2. /\ n \in Claim /\ n.relay = want /\ n.state = want /\ n.age = 0
        /\ n.moves = o.moves /\ n.moved = o.moved /\ n.dwell = o.dwell
        /\ ~n.pending
        /\ n.putBack = IF o.pending THEN 0 ELSE o.putBack
    BY <1>0, <2>1, ApplyFacts
  <2>3. n = next
    BY <1>7, <2>0, <2>1
  <2> HIDE DEF next
  <2>4. /\ r \in Claim /\ ~r.fresh
        /\ r.relay = n.relay /\ r.state = n.state /\ r.age = n.age /\ r.putBack = n.putBack
        /\ r.moves = n.moves /\ r.moved = n.moved /\ r.pending = n.pending
        /\ r.dwell = n.dwell
    BY <1>3, <2>2, <2>3
  <2> QED
    BY <1>0, <1>1, <1>4, <1>7, <2>0, <2>2, <2>4 DEF Driving, PacedSwitching
<1>8. CASE o.relay /\ o.state /\ ~(~paced \/ ~o.pending \/ DwellOver(o))
  <2>1. o = next
    BY <1>8
  <2> HIDE DEF next
  <2>2. /\ r \in Claim /\ ~r.fresh
        /\ r.relay = o.relay /\ r.state = o.state /\ r.age = o.age /\ r.putBack = o.putBack
        /\ r.moves = o.moves /\ r.moved = o.moved /\ r.pending = o.pending
        /\ r.dwell = o.dwell
    BY <1>0, <1>3, <2>1
  <2>3. c.relay /\ c.state /\ c.relay = c.state /\ c.pending /\ c.moved /\ paced
    BY <1>1, <1>4, <1>8
  <2>4. o.moves = c.moves /\ o.moved = c.moved
    BY <1>1, <2>3 DEF IsQuiet
  <2>5. PacedSwitching(c, r)
    BY <1>1, <2>2 DEF PacedSwitching
  <2>6. ~paced => ~r.relay
    BY <2>3
  <2>7. r.relay => c.relay
    BY <2>3
  <2>11. r.relay = r.state /\ ~r.fresh /\ r.dwell = c.dwell
    BY <1>1, <2>2, <1>8
  <2>12. r.age \in {0, c.age} /\ r.putBack \in {0, c.putBack}
    BY <1>1, <2>2
  <2>13. IF c.relay # c.state /\ (~c.fresh \/ c.moved) THEN r.moves <= c.moves + 1 ELSE r.moves <= c.moves
    BY <1>4, <2>2, <2>3, <2>4
  <2>14. r.pending /\ r.moved /\ r.relay = c.relay
    BY <1>1, <2>2, <2>3, <2>4
  <2>8. Driving(c, FALSE, r)
    BY <2>2, <2>11, <2>12, <2>13, <2>14 DEF Driving
  <2> QED
    BY <2>5, <2>6, <2>7, <2>8
<1> QED
  BY <1>1, <1>4, <1>5, <1>6, <1>7, <1>8

(* What a request says it waits for is what keeps the relay from it. *)
LEMMA RequestWaits ==
  ASSUME NEW c \in Claim, NEW want \in BOOLEAN, NEW r, r = Request(c, want)
  PROVE  r.wait = IF r.state = want \/ r.pending THEN "none"
                  ELSE IF r.state THEN "min_on" ELSE "min_off"
<1> DEFINE Closed(n) == [n EXCEPT !.fresh = FALSE,
                                  !.wait = IF n.state = want \/ n.pending THEN "none"
                                           ELSE IF n.state THEN "min_on" ELSE "min_off"]
<1>1. PICK o \in Claim : o = Outgrown(c)
  BY OutgrownFacts
<1>2. PICK paced \in BOOLEAN : paced = TRUE
  OBVIOUS
<1>3. CASE o.relay # o.state
  <2>1. PICK n \in Claim : n = SettleMove(o, want, paced)
    BY <1>3, SettleMoveFacts
  <2>2. r = Closed(n)
    BY <1>1, <1>2, <1>3, <2>1 DEF Request
  <2> QED
    BY <2>2 DEF Claim
<1>4. CASE o.relay = o.state /\ want = o.state
  <2>1. PICK n \in Claim : n = Settled(o)
    BY SettledFacts
  <2>2. r = Closed(n)
    BY <1>1, <1>4, <2>1 DEF Request
  <2> QED
    BY <2>2 DEF Claim
<1>5. CASE o.relay = o.state /\ want # o.state /\ DwellOver(o)
  <2>1. PICK n \in Claim : n = Apply(o, want)
    BY ApplyFacts
  <2>2. r = Closed(n)
    BY <1>1, <1>5, <2>1 DEF Request
  <2> QED
    BY <2>2 DEF Claim
<1>6. CASE o.relay = o.state /\ want # o.state /\ ~DwellOver(o)
  <2>1. r = Closed(o)
    BY <1>1, <1>6 DEF Request
  <2> QED
    BY <2>1 DEF Claim
<1> QED
  BY <1>3, <1>4, <1>5, <1>6

(* Only a move that waits to be put back outlasts a force_off. *)
LEMMA ForceOffOpens ==
  ASSUME NEW c \in Claim, NEW paced \in BOOLEAN, NEW r, r = ForceOff(c, paced)
  PROVE  r.relay => r.pending
<1> DEFINE Forced(n) == [n EXCEPT !.fresh = FALSE, !.wait = "none"]
<1>0. PICK off \in BOOLEAN : off = FALSE
  OBVIOUS
<1>1. PICK o \in Claim : o = Outgrown(c)
  BY OutgrownFacts
<1>2. o.relay \in BOOLEAN /\ o.state \in BOOLEAN
  BY FieldTypes
<1>3. CASE ~o.relay /\ ~o.state
  <2>1. PICK n \in Claim : n = Settled(o)
    BY SettledFacts
  <2>2. r = Forced(n) /\ n.relay = o.relay
    BY <1>1, <1>3, <2>1, SettledFacts DEF ForceOff
  <2> QED
    BY <1>3, <2>2 DEF Claim
<1>4. CASE o.relay /\ ~o.state
  <2>1. o.relay # o.state
    BY <1>4
  <2>2. PICK n : n = SettleMove(o, off, paced)
    OBVIOUS
  <2>3. n \in Claim /\ (TakenIn(o, off, paced, n) \/ Undone(o, off, paced, n))
    BY <2>1, <2>2, SettleMoveFacts
  <2>4. n.relay \in BOOLEAN /\ (n.relay => n.pending)
    BY <1>0, <1>2, <1>4, <2>3, FieldTypes DEF TakenIn, Undone
  <2>5. r = Forced(n)
    BY <1>0, <1>1, <1>4, <2>2 DEF ForceOff
  <2> QED
    BY <2>3, <2>4, <2>5 DEF Claim
<1>5. CASE o.state /\ (~o.relay \/ ~paced \/ ~o.pending \/ DwellOver(o))
  <2>1. PICK n : n = Apply(o, off)
    OBVIOUS
  <2>2. n \in Claim /\ n.relay = off
    BY <2>1, ApplyFacts
  <2>3. r = Forced(n)
    BY <1>0, <1>1, <1>5, <2>1 DEF ForceOff
  <2> QED
    BY <1>0, <2>2, <2>3 DEF Claim
<1>6. CASE o.relay /\ o.state /\ paced /\ o.pending /\ ~DwellOver(o)
  <2>1. r = Forced(o)
    BY <1>1, <1>6 DEF ForceOff
  <2> QED
    BY <1>6, <2>1 DEF Claim
<1> QED
  BY <1>2, <1>3, <1>4, <1>5, <1>6

LEMMA AnewFacts ==
  ASSUME NEW c \in Claim, NEW dwell \in Dwells, NEW a, a = Anew(c, dwell)
  PROVE  /\ a \in Claim
         /\ a.relay = c.relay /\ a.state = c.state /\ a.age = c.age /\ a.putBack = c.putBack
         /\ a.fresh /\ ~a.pending /\ ~a.moved /\ a.moves = 0
<1>1. PICK f : f = ForgetMoves(c)
  OBVIOUS
<1>2. /\ f \in Claim /\ f.relay = c.relay /\ f.state = c.state /\ f.age = c.age
      /\ f.putBack = c.putBack /\ ~f.moved /\ f.moves = 0
  <2>1. [c EXCEPT !.moves = 0] \in Claim
    BY FieldSet, Numbers
  <2>2. f \in Claim
    BY <1>1, <2>1, FieldSet DEF ForgetMoves
  <2> QED
    BY <1>1, <2>2 DEF ForgetMoves, Claim
<1>3. a = [f EXCEPT !.pending = FALSE, !.fresh = TRUE, !.wait = "none", !.dwell = dwell]
  BY <1>1 DEF Anew
<1>4. [f EXCEPT !.pending = FALSE] \in Claim
  BY <1>2, FieldSet
<1>5. [f EXCEPT !.pending = FALSE, !.fresh = TRUE] \in Claim
  BY <1>4, FieldSet
<1>6. [f EXCEPT !.pending = FALSE, !.fresh = TRUE, !.wait = "none"] \in Claim
  BY <1>5, FieldSet DEF Waits
<1>7. a \in Claim
  <2>1. PICK g \in Claim : g = [f EXCEPT !.pending = FALSE, !.fresh = TRUE, !.wait = "none"]
    BY <1>6
  <2>2. [g EXCEPT !.dwell = dwell] \in Claim
    BY FieldSet
  <2>3. a = [g EXCEPT !.dwell = dwell]
    BY <1>3, <2>1
  <2> QED
    BY <2>2, <2>3
<1> QED
  BY <1>2, <1>3, <1>7 DEF Claim

LEMMA AgedFacts ==
  ASSUME NEW c \in Claim, NEW a, a = Aged(c)
  PROVE  /\ a \in Claim
         /\ a.age = Older(c.age) /\ a.putBack = Older(c.putBack)
         /\ a.relay = c.relay /\ a.state = c.state /\ a.fresh = c.fresh
         /\ a.pending = c.pending /\ a.moved = c.moved /\ a.moves = c.moves
<1>1. c.age \in Age /\ c.putBack \in Age
  BY DEF Claim
<1>2. a = [c EXCEPT !.age = Older(c.age), !.putBack = Older(c.putBack)]
  BY DEF Aged
<1>3. PICK aged \in Claim : aged = [c EXCEPT !.age = Older(c.age)]
  BY <1>1, FieldSet, Numbers
<1>4. a \in Claim
  <2>1. a = [aged EXCEPT !.putBack = Older(c.putBack)]
    BY <1>2, <1>3
  <2>2. Older(c.putBack) \in Age
    BY <1>1, Numbers
  <2> QED
    BY <2>1, <2>2, FieldSet
<1> QED
  BY <1>2, <1>4 DEF Claim
=============================================================================
