-------------------------- MODULE RelayClaimProofs ---------------------------
(* Proofs about RelayClaim, for every floor, quiet time, dwell and count. *)
EXTENDS RelayClaim, RelayClaimOpsProofs

(* The claim's two ages never run ahead of what the observer measures. *)
AgesLag == /\ claim.age <= sinceOwn /\ claim.age <= sincePut
           /\ claim.putBack <= sincePut

(* A claim not looked at yet has nothing held against its holder. *)
FreshIsClean == /\ ~claimed => claim.fresh /\ sincePut = MaxAge
                /\ claim.fresh => ~foreign /\ ~claim.pending /\ ~claim.moved /\ claim.moves = 0

(* With no put-back to come, the relay is out of place exactly when         *)
(* something else put it where it is.                                       *)
ForeignShows ==
  /\ claim.pending => claim.moved
  /\ ~claim.pending /\ ~claim.fresh => (foreign <=> claim.relay # claim.state)

(* A claim that remembers no move has undone none for a quiet time. *)
UnmovedIsQuiet == ~claim.moved => sincePut >= Quiet

(* A move not taken in yet leaves room for itself in the count. *)
MovesLag ==
  \/ others = ContestMoves
  \/ claim.moves + (IF claim.relay # claim.state /\ ~claim.fresh THEN 1 ELSE 0) <= others

IInv == TypeOK /\ AgesLag /\ FreshIsClean /\ ForeignShows /\ UnmovedIsQuiet /\ MovesLag
-----------------------------------------------------------------------------
(* The invariant. *)

LEMMA InitInv == Init => IInv
<1> SUFFICES ASSUME Init PROVE IInv
  OBVIOUS
<1>1. PICK relay \in BOOLEAN, dwell \in Dwells : claim = Booted(relay, dwell)
  BY DEF Init
<1>2. claim \in Claim
  BY <1>1, Numbers DEF Booted, Claim, Waits
<1>3. /\ claim.age = 0 /\ claim.putBack = MaxAge /\ claim.fresh /\ ~claim.pending
      /\ ~claim.moved /\ claim.moves = 0
  BY <1>1 DEF Booted
<1>4. TypeOK
  BY <1>2, Numbers, ClaimAssumption DEF Init, TypeOK
<1>5. AgesLag /\ UnmovedIsQuiet
  BY <1>3, ClaimAssumption DEF Init, AgesLag, UnmovedIsQuiet
<1>6. FreshIsClean /\ ForeignShows /\ MovesLag
  BY <1>3 DEF Init, FreshIsClean, ForeignShows, MovesLag
<1> QED
  BY <1>4, <1>5, <1>6 DEF IInv

(* Enough for a claim made anew, whose observer starts over. *)
LEMMA CleanInv ==
  ASSUME claim' \in Claim, claimed' \in BOOLEAN, demand' \in Demands,
         claim'.fresh, ~claim'.pending, ~claim'.moved, claim'.moves = 0,
         ~foreign', foreign' \in BOOLEAN, sincePut' = MaxAge, sinceOwn' \in Age,
         claim'.age <= sinceOwn', others' \in 0..ContestMoves
  PROVE  IInv'
<1>1. claim'.age <= MaxAge /\ claim'.putBack <= MaxAge /\ Quiet <= MaxAge
  BY FieldTypes, ClaimAssumption
<1> QED
  BY <1>1, Numbers
  DEF IInv, TypeOK, AgesLag, FreshIsClean, ForeignShows, UnmovedIsQuiet, MovesLag

LEMMA PassInv == ASSUME IInv, Pass PROVE IInv'
<1>1. /\ claim \in Claim /\ demand \in Demands /\ (claim.pending => claim.moved)
      /\ claimed /\ claimed' /\ demand' = demand /\ others' = others
  BY DEF IInv, TypeOK, ForeignShows, Pass
<1>2. Want \in BOOLEAN /\ Driving(claim, Want, claim')
  <2>1. CASE demand \in {"on", "off"}
    BY <1>1, <2>1, RequestFacts DEF Pass, Driven, Want
  <2>2. CASE demand \notin {"on", "off"}
    BY <1>1, <2>2, ForceOffFacts DEF Pass, Driven, Want, Paced
  <2> QED
    BY <2>1, <2>2
<1>3. /\ foreign' = (foreign /\ claim'.relay = claim.relay /\ claim'.relay # Want)
      /\ sinceOwn' = (IF claim'.relay # claim.relay THEN 0 ELSE sinceOwn)
      /\ sincePut' = (IF claim'.relay # claim.relay /\ foreign THEN 0 ELSE sincePut)
  BY DEF Pass, Observed
<1>4. /\ sinceOwn \in 0..MaxAge /\ sincePut \in 0..MaxAge /\ others \in 0..ContestMoves
      /\ foreign \in BOOLEAN
      /\ claim.age \in Nat /\ claim.putBack \in Nat /\ claim.moves \in Nat
      /\ claim'.age \in Nat /\ claim'.putBack \in Nat /\ claim'.moves \in 0..ContestMoves
  BY <1>1, <1>2, FieldTypes, ClaimAssumption DEF IInv, TypeOK, Age, Driving
<1>5. TypeOK'
  BY <1>1, <1>2, <1>3, <1>4, Numbers DEF TypeOK, Driving, Age
\* A switching with the relay elsewhere on purpose undoes the move.
<1>6. claim'.relay # claim.relay /\ foreign => claim'.putBack = 0 /\ claim'.moved
  BY <1>2 DEF IInv, FreshIsClean, ForeignShows, IsQuiet, Driving
<1>7. AgesLag'
  BY <1>2, <1>3, <1>4, <1>6, ClaimAssumption DEF IInv, AgesLag, Driving
<1>8. FreshIsClean'
  BY <1>1, <1>2 DEF FreshIsClean, Driving
<1>9. ForeignShows'
  BY <1>1, <1>2, <1>3 DEF IInv, FreshIsClean, ForeignShows, Driving
<1>10. UnmovedIsQuiet'
  BY <1>2, <1>3, <1>4, <1>6, ClaimAssumption DEF IInv, AgesLag, UnmovedIsQuiet, IsQuiet, Driving
<1>11. MovesLag'
  BY <1>1, <1>2, <1>4 DEF IInv, FreshIsClean, MovesLag, Driving
<1> QED
  BY <1>5, <1>7, <1>8, <1>9, <1>10, <1>11 DEF IInv

LEMMA NextInv == IInv /\ [Next]_vars => IInv'
<1> SUFFICES ASSUME IInv, [Next]_vars PROVE IInv'
  OBVIOUS
<1>0. /\ claim \in Claim /\ claimed \in BOOLEAN /\ demand \in Demands /\ foreign \in BOOLEAN
      /\ sinceOwn \in Age /\ sincePut \in Age /\ others \in 0..ContestMoves
      /\ claim.age \in Age /\ claim.putBack \in Age
      /\ claim.age <= sinceOwn /\ claim.age <= sincePut /\ claim.putBack <= sincePut
      /\ claim.pending => claim.moved
  BY FieldTypes DEF IInv, TypeOK, AgesLag, ForeignShows, Age
<1>1. ASSUME NEW dwell \in Dwells, Acquire(dwell) PROVE IInv'
  <2>1. PICK a : a = Anew(claim, dwell)
    OBVIOUS
  <2>2. /\ a \in Claim /\ a.age = claim.age /\ a.fresh /\ ~a.pending /\ ~a.moved /\ a.moves = 0
    BY <1>0, <2>1, AnewFacts
  <2>3. claim' = [a EXCEPT !.putBack = MaxAge]
    BY <1>1, <2>1 DEF Acquire
  <2>4. claim' \in Claim
    BY <2>2, <2>3, FieldSet, Numbers
  <2>5. /\ claim'.age = claim.age /\ claim'.fresh /\ ~claim'.pending
        /\ ~claim'.moved /\ claim'.moves = 0
    BY <2>2, <2>3, <2>4 DEF Claim
  <2>6. /\ claimed' \in BOOLEAN /\ demand' = demand /\ foreign' = foreign /\ others' = others
        /\ sinceOwn' = sinceOwn /\ sincePut' = sincePut
    BY <1>1 DEF Acquire
  <2>7. ~foreign /\ sincePut = MaxAge
    BY <1>1 DEF Acquire, IInv, FreshIsClean
  <2> QED
    BY <1>0, <2>4, <2>5, <2>6, <2>7, CleanInv
<1>2. CASE Pass
  BY <1>2, PassInv
<1>3. ASSUME NEW d \in Demands, ChangeDemand(d) PROVE IInv'
  BY <1>3
  DEF ChangeDemand, IInv, TypeOK, AgesLag, FreshIsClean, ForeignShows, UnmovedIsQuiet, MovesLag
<1>4. ASSUME NEW dwell \in Dwells, HandOver(dwell) PROVE IInv'
  <2>1. /\ claim' \in Claim /\ claim'.age = claim.age /\ claim'.fresh /\ ~claim'.pending
        /\ ~claim'.moved /\ claim'.moves = 0
    BY <1>0, <1>4, AnewFacts DEF HandOver
  <2>2. /\ claimed' \in BOOLEAN /\ demand' = demand /\ foreign' = FALSE /\ others' = 0
        /\ sinceOwn' = sinceOwn /\ sincePut' = MaxAge
    BY <1>0, <1>4 DEF HandOver
  <2> QED
    BY <1>0, <2>1, <2>2, CleanInv, Numbers
<1>5. CASE LetGo
  <2>1. PICK open : open = ForceOff(claim, FALSE)
    OBVIOUS
  <2>2. Driving(claim, FALSE, open)
    BY <1>0, <2>1, ForceOffFacts
  <2>3. claim' = Anew(open, claim.dwell) /\ claim.dwell \in Dwells /\ open \in Claim
    BY <1>0, <1>5, <2>1, <2>2 DEF LetGo, Driving, Claim
  <2>4. /\ claim' \in Claim /\ claim'.age = open.age /\ claim'.fresh /\ ~claim'.pending
        /\ ~claim'.moved /\ claim'.moves = 0
    BY <2>3, AnewFacts
  <2>5. /\ claimed' \in BOOLEAN /\ demand' = demand /\ foreign' = FALSE /\ others' = 0
        /\ sinceOwn' = (IF open.relay # claim.relay THEN 0 ELSE sinceOwn)
        /\ sincePut' = MaxAge
    BY <1>0, <1>5, <2>1 DEF LetGo
  <2>6. claim'.age <= sinceOwn' /\ sinceOwn' \in Age
    BY <1>0, <2>2, <2>4, <2>5, Numbers, ClaimAssumption DEF Driving, Age
  <2> QED
    BY <1>0, <2>4, <2>5, <2>6, CleanInv, Numbers
<1>6. CASE Elsewhere
  <2>1. claim' = [claim EXCEPT !.relay = ~claim.relay] /\ claim.relay \in BOOLEAN
    BY <1>0, <1>6, FieldTypes DEF Elsewhere
  <2>2. claim' \in Claim
    BY <1>0, <2>1, FieldSet
  <2>3. /\ claim'.relay = ~claim.relay /\ claim'.state = claim.state /\ claim'.age = claim.age
        /\ claim'.putBack = claim.putBack /\ claim'.fresh = claim.fresh
        /\ claim'.pending = claim.pending /\ claim'.moved = claim.moved
        /\ claim'.moves = claim.moves
    BY <1>0, <2>1, <2>2 DEF Claim
  <2>4. /\ claimed' = claimed /\ demand' = demand /\ sinceOwn' = sinceOwn /\ sincePut' = sincePut
        /\ claim.fresh => foreign' = foreign /\ others' = others
        /\ ~claim.fresh => /\ foreign' = ~foreign
                           /\ others' = IF others < ContestMoves THEN others + 1 ELSE others
    BY <1>6 DEF Elsewhere
  <2>5. others' \in 0..ContestMoves
    BY <1>0, <2>4, ClaimAssumption
  <2>6. TypeOK'
    BY <1>0, <2>2, <2>4, <2>5 DEF TypeOK
  <2>7. AgesLag' /\ FreshIsClean' /\ UnmovedIsQuiet'
    BY <2>3, <2>4 DEF IInv, AgesLag, FreshIsClean, UnmovedIsQuiet
  <2>8. ForeignShows'
    BY <1>0, <2>1, <2>3, <2>4, FieldTypes DEF IInv, ForeignShows
  <2>9. MovesLag'
    BY <1>0, <2>3, <2>4, FieldTypes, ClaimAssumption DEF IInv, MovesLag, FreshIsClean
  <2> QED
    BY <2>6, <2>7, <2>8, <2>9 DEF IInv
<1>7. CASE Tick
  <2>1. /\ claim' \in Claim
        /\ claim'.age = Older(claim.age) /\ claim'.putBack = Older(claim.putBack)
        /\ claim'.relay = claim.relay /\ claim'.state = claim.state
        /\ claim'.fresh = claim.fresh /\ claim'.pending = claim.pending
        /\ claim'.moved = claim.moved /\ claim'.moves = claim.moves
    BY <1>0, <1>7, AgedFacts DEF Tick
  <2>2. /\ claimed' = claimed /\ demand' = demand /\ foreign' = foreign /\ others' = others
        /\ sinceOwn' = Older(sinceOwn) /\ sincePut' = Older(sincePut)
    BY <1>7 DEF Tick
  <2>3. TypeOK'
    BY <1>0, <2>1, <2>2, Numbers DEF TypeOK
  <2>4. AgesLag'
    BY <1>0, <2>1, <2>2, Numbers DEF AgesLag
  <2>5. FreshIsClean' /\ ForeignShows' /\ MovesLag'
    BY <2>1, <2>2, ClaimAssumption DEF IInv, FreshIsClean, ForeignShows, MovesLag, Older
  <2>6. UnmovedIsQuiet'
    BY <1>0, <2>1, <2>2, ClaimAssumption DEF IInv, UnmovedIsQuiet, Older, Age
  <2> QED
    BY <2>3, <2>4, <2>5, <2>6 DEF IInv
<1>8. CASE Reboot
  <2>1. PICK relay \in BOOLEAN : claim' = Booted(relay, claim.dwell)
    BY <1>8 DEF Reboot
  <2>2. claim.dwell \in Dwells
    BY <1>0 DEF Claim
  <2>3. claim' \in Claim
    BY <2>1, <2>2, Numbers DEF Booted, Claim, Waits
  <2>4. /\ claim'.age = 0 /\ claim'.fresh /\ ~claim'.pending /\ ~claim'.moved /\ claim'.moves = 0
    BY <2>1 DEF Booted
  <2>5. /\ claimed' \in BOOLEAN /\ demand' = demand /\ foreign' = FALSE /\ others' = 0
        /\ sinceOwn' = 0 /\ sincePut' = MaxAge
    BY <1>8 DEF Reboot
  <2>6. claim'.age <= sinceOwn' /\ sinceOwn' \in Age /\ others' \in 0..ContestMoves
    BY <2>4, <2>5, Numbers
  <2> QED
    BY <1>0, <2>3, <2>4, <2>5, <2>6, CleanInv
<1>9. CASE UNCHANGED vars
  BY <1>9
  DEF vars, IInv, TypeOK, AgesLag, FreshIsClean, ForeignShows, UnmovedIsQuiet, MovesLag
<1> QED
  BY <1>1, <1>2, <1>3, <1>4, <1>5, <1>6, <1>7, <1>8, <1>9 DEF Next
-----------------------------------------------------------------------------
(* Every reachable state is well typed. *)
THEOREM TypeCorrect == Spec => []TypeOK
<1>1. IInv => TypeOK
  BY DEF IInv
<1> QED
  BY <1>1, InitInv, NextInv, PTL DEF Spec

(* relay_contested counts moves from elsewhere only. *)
THEOREM CountsOnlyMoves == Spec => []OnlyMovesCount
<1>1. IInv => OnlyMovesCount
  <2> SUFFICES ASSUME IInv PROVE OnlyMovesCount
    OBVIOUS
  <2>1. claim.moves \in 0..ContestMoves /\ others \in 0..ContestMoves
    BY FieldTypes DEF IInv, TypeOK
  <2> QED
    BY <2>1, ClaimAssumption DEF IInv, MovesLag, OnlyMovesCount
<1> QED
  BY <1>1, InitInv, NextInv, PTL DEF Spec

(* A step of Pass, read from the invariant. *)
LEMMA PassFacts ==
  ASSUME IInv, Pass
  PROVE  /\ claim \in Claim
         /\ demand \in {"on", "off"} => claim' = Request(claim, Want)
         /\ demand \notin {"on", "off"} => claim' = ForceOff(claim, Paced)
         /\ Want \in BOOLEAN /\ Paced \in BOOLEAN
         /\ claim.pending => claim.moved
         /\ claim.age <= sinceOwn /\ claim.age <= sincePut /\ claim.putBack <= sincePut
         /\ claim.age \in Nat /\ claim.putBack \in Nat
         /\ sinceOwn \in Nat /\ sincePut \in Nat
         /\ claim.relay \in BOOLEAN /\ claim.state \in BOOLEAN /\ claim'.relay \in BOOLEAN
<1>1. claim \in Claim /\ sinceOwn \in Age /\ sincePut \in Age /\ claim' \in Claim
  BY PassInv DEF IInv, TypeOK
<1>2. sinceOwn \in Nat /\ sincePut \in Nat /\ claim.age \in Nat /\ claim.putBack \in Nat
  BY <1>1, FieldTypes, ClaimAssumption DEF Age
<1> QED
  BY <1>1, <1>2, FieldTypes DEF Pass, Driven, IInv, ForeignShows, AgesLag, Want, Paced

(* A cut-out opens the relay on the next pass, from every reachable claim.   *)
THEOREM CutOutsOpen == Spec => []CutOutOpens
<1>1. IInv => CutOutOpens
  <2> SUFFICES ASSUME IInv, demand = "cut_out", NEW r, r = Driven(claim) PROVE ~r.relay
    BY DEF CutOutOpens
  <2>1. claim \in Claim /\ (claim.pending => claim.moved)
    BY DEF IInv, TypeOK, ForeignShows
  <2>2. PICK paced \in BOOLEAN : paced = FALSE
    OBVIOUS
  <2>3. r = ForceOff(claim, paced)
    BY <2>2 DEF Driven, Paced
  <2> QED
    BY <2>1, <2>2, <2>3, ForceOffFacts
<1> QED
  BY <1>1, InitInv, NextInv, PTL DEF Spec

(* The dwell that protects the compressor outlives modes, hand-overs,        *)
(* releases and restarts: the claim never switches sooner on its own.        *)
THEOREM DwellsKept == Spec => DwellKept
<1>1. IInv /\ [Next]_vars =>
        [Pass /\ Switches /\ ~foreign /\ ~FoundMoved =>
           /\ claim'.relay => sinceOwn >= claim.dwell.off
           /\ (~claim'.relay /\ demand = "off") => sinceOwn >= claim.dwell.on]_vars
  <2> SUFFICES ASSUME IInv, Pass, Switches, ~foreign, ~FoundMoved
               PROVE  /\ claim'.relay => sinceOwn >= claim.dwell.off
                      /\ (~claim'.relay /\ demand = "off") => sinceOwn >= claim.dwell.on
    OBVIOUS
  <2>0. /\ claim \in Claim /\ Want \in BOOLEAN /\ Paced \in BOOLEAN
        /\ claim.pending => claim.moved
        /\ claim.age <= sinceOwn /\ claim.age \in Nat /\ sinceOwn \in Nat
        /\ claim.relay \in BOOLEAN /\ claim.state \in BOOLEAN /\ claim'.relay \in BOOLEAN
        /\ claim.dwell.on \in 0..MaxAge /\ claim.dwell.off \in 0..MaxAge
    BY PassFacts, FieldTypes
  <2>1. CASE demand \in {"on", "off"}
    <3>1. /\ PacedSwitching(claim, claim')
          /\ claim.relay = claim.state => DwellOver(claim)
      BY <2>0, <2>1, PassFacts, RequestFacts DEF Switches
    <3>2. claim.relay = claim.state
      BY <2>0, <3>1
      DEF IInv, ForeignShows, FoundMoved, Switches, PacedSwitching, IsQuiet
    <3> QED
      BY <2>0, <3>1, <3>2, ClaimAssumption DEF DwellOver, DwellOf, Switches
  <2>2. CASE demand \notin {"on", "off"}
    BY <2>0, <2>2, PassFacts, ForceOffFacts DEF Switches
  <2> QED
    BY <2>1, <2>2
<1> QED
  BY <1>1, InitInv, NextInv, PTL DEF Spec, DwellKept

(* Two put-backs for one holder are the floor and the dwell apart. *)
THEOREM PutBacksApart == Spec => PutBacksSpaced
<1>1. IInv /\ [Next]_vars =>
        [Pass /\ Switches /\ foreign /\ Paced =>
           /\ sincePut >= Floor
           /\ sincePut >= Quiet \/ sincePut >= (IF claim.relay THEN claim.dwell.on ELSE claim.dwell.off)]_vars
  <2> SUFFICES ASSUME IInv, Pass, Switches, foreign, Paced
               PROVE  /\ sincePut >= Floor
                      /\ \/ sincePut >= Quiet
                         \/ sincePut >= (IF claim.relay THEN claim.dwell.on ELSE claim.dwell.off)
    OBVIOUS
  <2>0. /\ claim \in Claim /\ Want \in BOOLEAN /\ Paced = TRUE
        /\ claim.pending => claim.moved
        /\ claim.age <= sincePut /\ claim.putBack <= sincePut
        /\ claim.age \in Nat /\ claim.putBack \in Nat /\ sincePut \in Nat
        /\ claim.dwell.on \in 0..MaxAge /\ claim.dwell.off \in 0..MaxAge
    BY PassFacts, FieldTypes DEF Paced
  <2>1. PacedSwitching(claim, claim')
    <3>1. CASE demand \in {"on", "off"}
      BY <2>0, <3>1, PassFacts, RequestFacts
    <3>2. CASE demand \notin {"on", "off"}
      BY <2>0, <3>2, PassFacts, ForceOffFacts
    <3> QED
      BY <3>1, <3>2
  <2>2. CASE claim.relay = claim.state
    <3>1. claim.pending /\ DwellOver(claim)
      BY <2>1, <2>2 DEF IInv, FreshIsClean, ForeignShows, Switches, PacedSwitching
    <3> QED
      BY <2>0, <2>2, <3>1, ClaimAssumption DEF DwellOver, DwellOf
  <2>3. CASE claim.relay # claim.state
    <3>1. ~claim.moved \/ IsQuiet(claim)
      BY <2>1, <2>3 DEF Switches, PacedSwitching
    <3> QED
      BY <2>0, <3>1, ClaimAssumption DEF IInv, UnmovedIsQuiet, IsQuiet
  <2> QED
    BY <2>2, <2>3
<1> QED
  BY <1>1, InitInv, NextInv, PTL DEF Spec, PutBacksSpaced
=============================================================================
