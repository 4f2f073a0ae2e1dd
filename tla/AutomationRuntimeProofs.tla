----------------------- MODULE AutomationRuntimeProofs -----------------------
(* Proofs about AutomationRuntime, for any number of rules, any configurations *)
(* they may have, any inputs, relays and thermostats, and any depth of the     *)
(* steps and events that callbacks nest.                                      *)
EXTENDS AutomationRuntime, FiniteSetTheorems, SequenceTheorems, WellFoundedInduction, TLAPS

(* Only a rule that is built has runs, and its runs are told apart.          *)
OnlyBuiltRun == \A i \in RuleIds : \A k \in DOMAIN runs[i] : rule[i].built
ToldApart ==
  \A i \in RuleIds : \A k, l \in DOMAIN runs[i] :
    runs[i][k].token = runs[i][l].token \/ runs[i][k].seq = runs[i][l].seq => k = l

(* A run is stepped at most once, and either stepped or timed.               *)
IsStep(n, i, token) == stack[n].kind = "step" /\ stack[n].id = i /\ stack[n].token = token
Timed(i, run) == [id |-> i, seq |-> run.seq, token |-> run.token] \in timers
Stepped(i, token) == \E n \in DOMAIN stack : IsStep(n, i, token)
SteppedOnce ==
  \A n, m \in DOMAIN stack : stack[n].kind = "step" /\ IsStep(m, stack[n].id, stack[n].token) => n = m
OneDriver ==
  \A i \in RuleIds : \A k \in DOMAIN runs[i] : Timed(i, runs[i][k]) <=> ~Stepped(i, runs[i][k].token)
OwnTimers ==
  \A t \in timers : \E k \in DOMAIN runs[t.id] : runs[t.id][k].seq = t.seq /\ runs[t.id][k].token = t.token

Driven == OnlyBuiltRun /\ ToldApart /\ SteppedOnce /\ OneDriver /\ OwnTimers

(* Rules whose thermostats came or went since they were last rebuilt.        *)
Pending(i) == \E t \in rebuilds : Names(rule[i].config, t)
BuiltUnlessPending ==
  \A i \in RuleIds : Exists(i) /\ ~Pending(i) => (rule[i].built <=> Buildable(rule[i].config, there))
-----------------------------------------------------------------------------
(* Numbers that are free *)

LEMMA MinFacts ==
  ASSUME NEW S, S \subseteq Nat, S # {}
  PROVE  Min(S) \in S /\ \A x \in S : Min(S) <= x
<1>1. PICK m \in S : \A x \in S : <<x, m>> \notin OpToRel(<, Nat)
  BY NatLessThanWellFounded, WFMin
<1>2. \A x \in S : ~(x < m)
  BY <1>1 DEF OpToRel
<1>3. \A x \in S : m <= x
  BY <1>2
<1> QED
  BY <1>3 DEF Min

LEMMA ImageFinite ==
  ASSUME NEW S, IsFiniteSet(S), NEW f, f = [x \in S |-> f[x]], NEW T, T = {f[x] : x \in S}
  PROVE  IsFiniteSet(T) /\ Cardinality(T) <= Cardinality(S)
<1>1. f \in Surjection(S, T)
  BY DEF Surjection
<1> QED
  BY <1>1, FS_Surjection

(* Among one more number than a set has members, one is not in it. *)
LEMMA OneFree ==
  ASSUME NEW S, IsFiniteSet(S), NEW a \in Int, NEW b \in Int, Cardinality(S) < b - a + 1, a <= b
  PROVE  (a..b) \ S # {}
<1>1. IsFiniteSet(a..b) /\ Cardinality(a..b) = b - a + 1
  BY FS_Interval
<1>2. PICK all : all = a..b
  OBVIOUS
<1>3. ~(all \in SUBSET S)
  <2>1. all \in SUBSET S => Cardinality(all) <= Cardinality(S)
    BY FS_Subset
  <2>2. Cardinality(S) \in Nat
    BY FS_CardinalityType
  <2> QED
    BY <1>1, <1>2, <2>1, <2>2
<1> QED
  BY <1>2, <1>3

LEMMA FreshFacts ==
  ASSUME NEW S, IsFiniteSet(S)
  PROVE  Fresh(S) \in Nat \ {0} /\ Fresh(S) \notin S
<1>1. PICK n \in Nat : n = Cardinality(S)
  BY FS_CardinalityType
<1>2. (1..(n + 1)) \ S # {}
  BY <1>1, OneFree
<1>3. PICK free : free = (1..(n + 1)) \ S
  OBVIOUS
<1>4. free \subseteq Nat /\ free # {}
  BY <1>2, <1>3
<1>5. Min(free) \in free
  BY <1>4, MinFacts
<1>6. Fresh(S) = Min(free)
  BY <1>1, <1>3 DEF Fresh
<1> QED
  BY <1>3, <1>5, <1>6

LEMMA FreeSeqFacts ==
  ASSUME NEW rs \in Seq(Run)
  PROVE  FreeSeq(rs) \in Nat /\ \A k \in DOMAIN rs : rs[k].seq # FreeSeq(rs)
<1>1. PICK n \in Nat : n = Len(rs) /\ DOMAIN rs = 1..n
  OBVIOUS
<1>2. IsFiniteSet(1..n) /\ Cardinality(1..n) = n
  BY FS_Interval
<1>3. PICK f : f = [k \in 1..n |-> rs[k].seq]
  OBVIOUS
<1>4. PICK used : used = {f[k] : k \in 1..n}
  OBVIOUS
<1>5. used = {rs[k].seq : k \in DOMAIN rs}
  BY <1>1, <1>3, <1>4
<1>6. IsFiniteSet(used) /\ Cardinality(used) <= n
  <2>1. f = [k \in 1..n |-> f[k]]
    BY <1>3
  <2> QED
    BY <1>2, <1>4, <2>1, ImageFinite
<1>7. (0..n) \ used # {}
  <2>1. Cardinality(used) \in Nat
    BY <1>6, FS_CardinalityType
  <2>2. Cardinality(used) < n - 0 + 1
    BY <1>6, <2>1
  <2> QED
    BY <1>6, <2>2, OneFree
<1>8. PICK free : free = (0..n) \ used
  OBVIOUS
<1>9. free \subseteq Nat /\ free # {}
  BY <1>7, <1>8
<1>10. Min(free) \in free
  BY <1>9, MinFacts
<1>11. FreeSeq(rs) = Min(free)
  BY <1>1, <1>5, <1>8 DEF FreeSeq
<1> QED
  BY <1>5, <1>8, <1>9, <1>10, <1>11
-----------------------------------------------------------------------------
(* Frames *)

LEMMA RuleFacts ==
  ASSUME TypeOK, NEW i \in RuleIds
  PROVE  /\ rule[i].gen \in Nat /\ rule[i].built \in BOOLEAN
         /\ rule[i].built => Exists(i)
         /\ Exists(i) => /\ rule[i] \in Held /\ rule[i].config \in Config
                         /\ rule[i].config.then \in Seq(Steps) /\ rule[i].config.else \in Seq(Steps)
         /\ runs[i] \in Seq(Run)
         /\ \A k \in DOMAIN runs[i] : runs[i][k] \in Run
<1>1. PICK r : r = rule[i]
  OBVIOUS
<1>2. IF r.gen # 0 THEN r \in Held ELSE r = NoRule
  BY <1>1 DEF TypeOK, Exists
<1>3. r = NoRule => r.gen = 0 /\ r.built \in BOOLEAN /\ ~r.built
  BY DEF NoRule
<1>4. r \in Held => /\ r.gen \in Nat \ {0} /\ r.built \in BOOLEAN
                    /\ r.config \in Config
  BY DEF Held
<1>5. PICK c : c = r.config
  OBVIOUS
<1>6. c \in Config => c.then \in Seq(Steps) /\ c.else \in Seq(Steps)
  BY DEF Config
<1>7. runs[i] \in Seq(Run)
  BY DEF TypeOK
<1>8. \A k \in DOMAIN runs[i] : runs[i][k] \in Run
  BY <1>7
<1>9. r.gen \in Nat /\ r.built \in BOOLEAN /\ (r.built => r.gen # 0) /\ (r.gen # 0 => r \in Held)
  <2>1. CASE r = NoRule
    BY <1>3, <2>1
  <2>2. CASE r \in Held
    BY <1>4, <2>2
  <2> QED
    BY <1>2, <2>1, <2>2
<1>10. r.gen # 0 => r.config \in Config /\ r.config.then \in Seq(Steps) /\ r.config.else \in Seq(Steps)
  BY <1>4, <1>5, <1>6, <1>9
<1> QED
  BY <1>1, <1>7, <1>8, <1>9, <1>10 DEF Exists

LEMMA RunFacts ==
  ASSUME NEW run \in Run
  PROVE  /\ run.seq \in Nat /\ run.token \in Nat /\ run.cursor \in Nat /\ run.branch \in {"then", "else"}
         /\ run.hasState \in BOOLEAN /\ run.state \in BOOLEAN
BY DEF Run

(* The list a run plays. *)
LEMMA ListFacts ==
  ASSUME NEW config \in Config, NEW branch \in {"then", "else"}
  PROVE  /\ config[branch] \in Seq(Steps)
         /\ config[branch] = IF branch = "then" THEN config.then ELSE config.else
<1>1. CASE branch = "then"
  BY <1>1 DEF Config
<1>2. CASE branch = "else"
  BY <1>2 DEF Config
<1> QED
  BY <1>1, <1>2

LEMMA FrameFacts ==
  ASSUME NEW f \in Frame
  PROVE  /\ f.kind \in {"offer", "step"}
         /\ f.kind = "offer" => /\ f.entity \in Inputs \cup Relays /\ f.state \in BOOLEAN /\ f.level \in BOOLEAN
                                /\ f.next \in 1..(NRules + 1)
         /\ f.kind = "step" => /\ f.id \in RuleIds /\ f.token \in Nat /\ f.gen \in Nat /\ f.scheduled \in BOOLEAN
BY DEF Frame

LEMMA OfferFacts ==
  ASSUME NEW entity \in Inputs \cup Relays, NEW state \in BOOLEAN, NEW level \in BOOLEAN,
         NEW o, o = Offer(entity, state, level)
  PROVE  o \in Seq(Frame) /\ Len(o) = 1 /\ o[1].kind = "offer"
<1>1. PICK f : f = [kind |-> "offer", entity |-> entity, state |-> state, level |-> level, next |-> 1]
  OBVIOUS
<1>2. f \in Frame /\ f.kind = "offer"
  BY <1>1, AutomationAssumption DEF Frame
<1>3. o = <<f>>
  BY <1>1 DEF Offer
<1> QED
  BY <1>2, <1>3

LEMMA SteppingFacts ==
  ASSUME TypeOK, NEW i \in RuleIds, NEW token \in Nat, NEW scheduled \in BOOLEAN,
         NEW w, w = Stepping(i, token, scheduled)
  PROVE  /\ w \in Seq(Frame) /\ Len(w) = 1
         /\ w[1].kind = "step" /\ w[1].id = i /\ w[1].token = token /\ w[1].gen = rule[i].gen
<1>1. PICK f : f = [kind |-> "step", id |-> i, token |-> token, gen |-> rule[i].gen, scheduled |-> scheduled]
  OBVIOUS
<1>2. f \in Frame /\ f.kind = "step" /\ f.id = i /\ f.token = token /\ f.gen = rule[i].gen
  BY <1>1, RuleFacts DEF Frame
<1>3. w = <<f>>
  BY <1>1 DEF Stepping
<1> QED
  BY <1>2, <1>3

LEMMA Pushed ==
  ASSUME NEW s \in Seq(Frame), NEW t \in Seq(Frame)
  PROVE  /\ s \o t \in Seq(Frame) /\ Len(s \o t) = Len(s) + Len(t)
         /\ \A k \in DOMAIN s : k \in DOMAIN (s \o t) /\ (s \o t)[k] = s[k]
         /\ \A k \in DOMAIN t : Len(s) + k \in DOMAIN (s \o t) /\ (s \o t)[Len(s) + k] = t[k]
         /\ \A k \in DOMAIN (s \o t) : \/ k \in DOMAIN s /\ (s \o t)[k] = s[k]
                                       \/ /\ k \notin DOMAIN s /\ k - Len(s) \in DOMAIN t
                                          /\ (s \o t)[k] = t[k - Len(s)]
OBVIOUS

LEMMA BelowFacts ==
  ASSUME TypeOK, stack # <<>>
  PROVE  /\ Len(stack) \in DOMAIN stack /\ Top = stack[Len(stack)] /\ Top \in Frame
         /\ Below \in Seq(Frame) /\ Len(Below) = Len(stack) - 1
         /\ \A k \in DOMAIN Below : k \in DOMAIN stack /\ k < Len(stack) /\ Below[k] = stack[k]
         /\ \A k \in DOMAIN stack : k # Len(stack) => k \in DOMAIN Below
<1>1. stack \in Seq(Frame)
  BY DEF TypeOK
<1>2. PICK n \in Nat : Len(stack) = n + 1
  BY <1>1
<1>3. /\ SubSeq(stack, 1, n) \in Seq(Frame) /\ Len(SubSeq(stack, 1, n)) = n
      /\ \A k \in 1..n : SubSeq(stack, 1, n)[k] = stack[k]
  <2>1. \A k \in 1..n : stack[k] \in Frame
    BY <1>1, <1>2
  <2>2. /\ SubSeq(stack, 1, n) \in Seq(Frame)
        /\ Len(SubSeq(stack, 1, n)) = IF 1 <= n THEN n - 1 + 1 ELSE 0
        /\ \A k \in 1..(n - 1 + 1) : SubSeq(stack, 1, n)[k] = stack[1 + k - 1]
    BY <2>1, SubSeqProperties
  <2>3. n - 1 + 1 = n /\ \A k \in 1..n : 1 + k - 1 = k
    OBVIOUS
  <2> QED
    BY <2>2, <2>3
<1>4. Below = SubSeq(stack, 1, n)
  <2>1. Len(stack) - 1 = n
    BY <1>2
  <2> QED
    BY <2>1 DEF Below
<1> QED
  BY <1>1, <1>2, <1>3, <1>4 DEF Top

(* The frame on top is of the kind an action asks for. *)
LEMMA OnFacts ==
  ASSUME TypeOK, NEW kind, On(kind)
  PROVE  stack # <<>> /\ Top.kind = kind /\ Top \in Frame
BY BelowFacts DEF On, Quiet
-----------------------------------------------------------------------------
(* Tokens and objects *)

LEMMA TokensFinite ==
  ASSUME TypeOK, NEW i \in RuleIds
  PROVE  IsFiniteSet(Tokens(i))
<1>1. IsFiniteSet({runs[i][k].token : k \in DOMAIN runs[i]})
  <2>1. IsFiniteSet(DOMAIN runs[i])
    BY FS_Interval, RuleFacts
  <2>2. PICK f : f = [k \in DOMAIN runs[i] |-> runs[i][k].token]
    OBVIOUS
  <2>3. {runs[i][k].token : k \in DOMAIN runs[i]} = {f[k] : k \in DOMAIN runs[i]}
    BY <2>2
  <2> QED
    BY <2>1, <2>2, <2>3, ImageFinite
<1>2. IsFiniteSet({t.token : t \in {x \in timers : x.id = i}})
  <2>1. IsFiniteSet({x \in timers : x.id = i})
    BY FS_Subset DEF TypeOK
  <2>2. PICK f : f = [t \in {x \in timers : x.id = i} |-> t.token]
    OBVIOUS
  <2>3. {t.token : t \in {x \in timers : x.id = i}} = {f[t] : t \in {x \in timers : x.id = i}}
    BY <2>2
  <2> QED
    BY <2>1, <2>2, <2>3, ImageFinite
<1>3. IsFiniteSet({stack[k].token : k \in {x \in DOMAIN stack : stack[x].kind = "step" /\ stack[x].id = i}})
  <2>1. IsFiniteSet(DOMAIN stack)
    BY FS_Interval DEF TypeOK
  <2>2. PICK S \in SUBSET DOMAIN stack : S = {x \in DOMAIN stack : stack[x].kind = "step" /\ stack[x].id = i}
    OBVIOUS
  <2>3. IsFiniteSet(S)
    BY <2>1, <2>2, FS_Subset
  <2>4. PICK f : f = [k \in S |-> stack[k].token]
    OBVIOUS
  <2>5. {stack[k].token : k \in S} = {f[k] : k \in S}
    BY <2>4
  <2> QED
    BY <2>2, <2>3, <2>4, <2>5, ImageFinite
<1> QED
  BY <1>1, <1>2, <1>3, FS_Union DEF Tokens

(* A new run is nobody's: no run, timer or step of the rule has its token. *)
LEMMA NewToken ==
  ASSUME TypeOK, NEW i \in RuleIds, NEW token, token = Fresh(Tokens(i))
  PROVE  /\ token \in Nat
         /\ \A k \in DOMAIN runs[i] : runs[i][k].token # token
         /\ \A t \in timers : t.id = i => t.token # token
         /\ \A n \in DOMAIN stack : ~IsStep(n, i, token)
<1>1. token \in Nat /\ token \notin Tokens(i)
  BY TokensFinite, FreshFacts
<1> QED
  BY <1>1 DEF Tokens, IsStep

LEMMA NewGen ==
  ASSUME TypeOK, NEW i \in RuleIds
  PROVE  Fresh(Gens(i)) \in Nat \ {0}
<1>1. IsFiniteSet(Gens(i))
  <2>1. IsFiniteSet(DOMAIN stack)
    BY FS_Interval DEF TypeOK
  <2>2. PICK S \in SUBSET DOMAIN stack : S = {x \in DOMAIN stack : stack[x].kind = "step" /\ stack[x].id = i}
    OBVIOUS
  <2>3. IsFiniteSet(S)
    BY <2>1, <2>2, FS_Subset
  <2>4. PICK f : f = [k \in S |-> stack[k].gen]
    OBVIOUS
  <2>5. {stack[k].gen : k \in S} = {f[k] : k \in S}
    BY <2>4
  <2> QED
    BY <2>2, <2>3, <2>4, <2>5, ImageFinite DEF Gens
<1> QED
  BY <1>1, FreshFacts
-----------------------------------------------------------------------------
(* What an action does to runs, steps and timers, and that it keeps the runs  *)
(* driven: nothing, or a run is changed in place; one begins; one goes from a *)
(* step to a timer, ends, or back; a step of no run is left; runs are stopped *)

KeepsSteps ==
  \A n \in DOMAIN stack : stack[n].kind = "step" => n \in DOMAIN stack' /\ stack'[n] = stack[n]
NoNewSteps ==
  \A n \in DOMAIN stack' : stack'[n].kind = "step" => n \in DOMAIN stack /\ stack[n] = stack'[n]
SameRuns ==
  \A i \in RuleIds : /\ DOMAIN runs'[i] = DOMAIN runs[i]
                     /\ \A k \in DOMAIN runs[i] : runs'[i][k].seq = runs[i][k].seq
                                                  /\ runs'[i][k].token = runs[i][k].token

LEMMA NothingDriven ==
  ASSUME TypeOK, Driven, KeepsSteps, NoNewSteps, SameRuns, UNCHANGED <<rule, timers>>
  PROVE  Driven'
<1>1. OnlyBuiltRun'
  BY DEF Driven, OnlyBuiltRun, SameRuns
<1>2. ToldApart'
  BY DEF Driven, ToldApart, SameRuns
<1>3. SteppedOnce'
  BY DEF Driven, SteppedOnce, IsStep, NoNewSteps
<1>4. \A i \in RuleIds : \A token : Stepped(i, token) <=> Stepped(i, token)'
  BY DEF Stepped, IsStep, KeepsSteps, NoNewSteps
<1>5. OneDriver'
  <2> SUFFICES ASSUME NEW i \in RuleIds, NEW k \in DOMAIN runs'[i]
               PROVE  Timed(i, runs[i][k])' <=> ~Stepped(i, runs[i][k].token)'
    BY DEF OneDriver
  <2>1. k \in DOMAIN runs[i] /\ runs'[i][k].seq = runs[i][k].seq /\ runs'[i][k].token = runs[i][k].token
    BY DEF SameRuns
  <2>2. Timed(i, runs[i][k]) <=> ~Stepped(i, runs[i][k].token)
    BY <2>1 DEF Driven, OneDriver
  <2>3. Stepped(i, runs[i][k].token) <=> (\E n \in DOMAIN stack' : stack'[n].kind = "step" /\ stack'[n].id = i
                                                               /\ stack'[n].token = runs'[i][k].token)
    BY <1>4, <2>1 DEF Stepped, IsStep
  <2> QED
    BY <2>1, <2>2, <2>3 DEF Timed, Stepped, IsStep
<1>6. OwnTimers'
  <2>1. \A t \in timers : t.id \in RuleIds
    BY DEF TypeOK, Timer
  <2> QED
    BY <2>1 DEF Driven, OwnTimers, SameRuns
<1> QED
  BY <1>1, <1>2, <1>3, <1>5, <1>6 DEF Driven

(* One more step on the stack, of the run with this token. *)
Enters(i, token) ==
  /\ KeepsSteps
  /\ \E n \in DOMAIN stack' :
       /\ n \notin DOMAIN stack
       /\ stack'[n].kind = "step" /\ stack'[n].id = i /\ stack'[n].token = token
       /\ \A m \in DOMAIN stack' : stack'[m].kind = "step" /\ m # n => m \in DOMAIN stack /\ stack[m] = stack'[m]

LEMMA EntersOnce ==
  ASSUME SteppedOnce, NEW i, NEW token, ~Stepped(i, token), Enters(i, token)
  PROVE  /\ SteppedOnce'
         /\ \A j, other : Stepped(j, other)' <=> (Stepped(j, other) \/ (j = i /\ other = token))
BY DEF SteppedOnce, Stepped, IsStep, Enters, KeepsSteps

(* The step on top is left. *)
Leaves ==
  /\ NoNewSteps
  /\ \A n \in DOMAIN stack : n # Len(stack) => n \in DOMAIN stack' /\ stack'[n] = stack[n]
  /\ Len(stack) \notin DOMAIN stack'

LEMMA LeavesOnce ==
  ASSUME SteppedOnce, stack # <<>>, Len(stack) \in DOMAIN stack, Top.kind = "step", Leaves
  PROVE  /\ SteppedOnce'
         /\ \A j, other : Stepped(j, other)' <=> Stepped(j, other) /\ ~(j = Top.id /\ other = Top.token)
BY DEF SteppedOnce, Stepped, IsStep, Leaves, NoNewSteps, Top

(* A run begins: beside the others of the rule, or in their place. *)
LEMMA RunBegins ==
  ASSUME TypeOK, Driven, UNCHANGED rule, NEW i \in RuleIds, rule[i].built, NEW run \in Run, NEW before \in Seq(Run),
         \/ before = runs[i] /\ timers' = timers
         \/ before = <<>> /\ timers' = {t \in timers : t.id # i},
         \A k \in DOMAIN before : before[k].seq # run.seq,
         run.token = Fresh(Tokens(i)), Enters(i, run.token),
         runs' = [runs EXCEPT ![i] = Append(before, run)]
  PROVE  Driven'
<1> DEFINE new == Len(before) + 1
<1>1. /\ new \notin DOMAIN before
      /\ runs'[i][new] = run /\ \A k \in DOMAIN before : runs'[i][k] = before[k] /\ k \in DOMAIN runs[i] /\ before[k] = runs[i][k]
      /\ DOMAIN runs'[i] = DOMAIN before \cup {new}
      /\ \A j \in RuleIds : j # i => runs'[j] = runs[j]
  <2>1. i \in DOMAIN runs
    BY DEF TypeOK
  <2>2. runs'[i] = Append(before, run) /\ \A j \in RuleIds : j # i => runs'[j] = runs[j]
    BY <2>1 DEF TypeOK
  <2>3. DOMAIN before = 1..Len(before) /\ Len(before) \in Nat
    OBVIOUS
  <2>4. /\ DOMAIN Append(before, run) = 1..(Len(before) + 1) /\ Append(before, run)[Len(before) + 1] = run
        /\ \A k \in 1..Len(before) : Append(before, run)[k] = before[k]
    OBVIOUS
  <2>5. \A k \in DOMAIN before : k \in DOMAIN runs[i] /\ before[k] = runs[i][k]
    <3>1. CASE before = <<>>
      <4>1. DOMAIN before = {}
        BY <3>1
      <4> QED
        BY <4>1
    <3> QED
      BY <3>1
  <2> QED
    BY <2>2, <2>3, <2>4, <2>5
<1>2. /\ \A k \in DOMAIN runs[i] : runs[i][k].token # run.token
      /\ \A t \in timers : t.id = i => t.token # run.token
      /\ ~Stepped(i, run.token)
  BY NewToken DEF Stepped
<1>3. /\ SteppedOnce'
      /\ \A j, other : Stepped(j, other)' <=> (Stepped(j, other) \/ (j = i /\ other = run.token))
  BY <1>2, EntersOnce DEF Driven
<1>4. OnlyBuiltRun'
  BY <1>1 DEF Driven, OnlyBuiltRun
<1>5. ToldApart'
  <2> SUFFICES ASSUME NEW j \in RuleIds, NEW k \in DOMAIN runs'[j], NEW l \in DOMAIN runs'[j],
                      runs'[j][k].token = runs'[j][l].token \/ runs'[j][k].seq = runs'[j][l].seq
               PROVE  k = l
    BY DEF ToldApart
  <2>1. CASE j # i
    BY <1>1, <2>1 DEF Driven, ToldApart
  <2>2. CASE j = i
    <3>1. CASE k \in DOMAIN before /\ l \in DOMAIN before
      BY <1>1, <2>2, <3>1 DEF Driven, ToldApart
    <3>2. \A x \in DOMAIN before : runs'[i][x].token # run.token /\ runs'[i][x].seq # run.seq
      BY <1>1, <1>2
    <3> QED
      BY <1>1, <2>2, <3>1, <3>2
  <2> QED
    BY <2>1, <2>2
<1>6. \A t \in timers' : t \in timers
  OBVIOUS
<1>7. \A j \in RuleIds : \A r : Timed(j, r) /\ (j # i \/ (before = runs[i] /\ timers' = timers)) => Timed(j, r)'
  BY DEF Timed
<1>8. OneDriver'
  <2> SUFFICES ASSUME NEW j \in RuleIds, NEW k \in DOMAIN runs'[j]
               PROVE  Timed(j, runs[j][k])' <=> ~Stepped(j, runs[j][k].token)'
    BY DEF OneDriver
  <2>1. PICK r : r = runs'[j][k]
    OBVIOUS
  <2>2. Timed(j, r)' <=> ~Stepped(j, r.token)'
    <3>1. CASE j = i /\ k = new
      <4>1. r = run
        BY <1>1, <2>1, <3>1
      <4>2. ~Timed(j, r)'
        BY <1>2, <1>6, <3>1, <4>1 DEF Timed
      <4> QED
        BY <1>3, <3>1, <4>1, <4>2
    <3>2. CASE j # i \/ k # new
      <4>1. k \in DOMAIN runs[j] /\ r = runs[j][k] /\ (j # i \/ (before = runs[i] /\ timers' = timers))
        <5>1. CASE j # i
          BY <1>1, <2>1, <5>1
        <5>2. CASE j = i
          <6>1. k \in DOMAIN before /\ before # <<>>
            <7>1. k \in DOMAIN before
              BY <1>1, <3>2, <5>2
            <7>2. before = <<>> => DOMAIN before = {}
              OBVIOUS
            <7> QED
              BY <7>1, <7>2
          <6> QED
            BY <1>1, <2>1, <5>2, <6>1
        <5> QED
          BY <5>1, <5>2
      <4>2. Timed(j, r) <=> ~Stepped(j, r.token)
        BY <4>1 DEF Driven, OneDriver
      <4>3. Timed(j, r)' <=> Timed(j, r)
        BY <1>6, <1>7, <4>1 DEF Timed
      <4>4. Stepped(j, r.token)' <=> Stepped(j, r.token)
        BY <1>2, <1>3, <4>1
      <4> QED
        BY <4>2, <4>3, <4>4
    <3> QED
      BY <3>1, <3>2
  <2> QED
    BY <2>1, <2>2
<1>9. OwnTimers'
  <2> SUFFICES ASSUME NEW t \in timers'
               PROVE  \E k \in DOMAIN runs'[t.id] : runs'[t.id][k].seq = t.seq /\ runs'[t.id][k].token = t.token
    BY DEF OwnTimers
  <2>1. t \in timers /\ t.id \in RuleIds
    BY <1>6 DEF TypeOK, Timer
  <2>2. PICK k \in DOMAIN runs[t.id] : runs[t.id][k].seq = t.seq /\ runs[t.id][k].token = t.token
    BY <2>1 DEF Driven, OwnTimers
  <2>3. CASE t.id # i
    BY <1>1, <2>1, <2>2, <2>3
  <2>4. CASE t.id = i
    <3>1. before = runs[i]
      BY <2>4
    <3> QED
      BY <1>1, <2>2, <2>4, <3>1
  <2> QED
    BY <2>3, <2>4
<1> QED
  BY <1>3, <1>4, <1>5, <1>8, <1>9 DEF Driven

LEMMA ScheduledFacts ==
  ASSUME NEW i \in RuleIds, NEW run \in Run, NEW ts, ts = Scheduled(i, run), timers \subseteq Timer, IsFiniteSet(timers)
  PROVE  /\ ts \subseteq Timer /\ IsFiniteSet(ts)
         /\ \A t : t \in ts <=> \/ t \in timers /\ ~(t.id = i /\ t.seq = run.seq)
                                \/ t = [id |-> i, seq |-> run.seq, token |-> run.token]
<1>1. PICK new : new = [id |-> i, seq |-> run.seq, token |-> run.token]
  OBVIOUS
<1>2. new \in Timer
  BY <1>1, RunFacts DEF Timer
<1>3. PICK kept \in SUBSET timers : kept = {t \in timers : ~(t.id = i /\ t.seq = run.seq)}
  OBVIOUS
<1>4. ts = kept \cup {new}
  BY <1>1, <1>3 DEF Scheduled
<1>5. IsFiniteSet(kept)
  BY <1>3, FS_Subset
<1>6. IsFiniteSet(ts)
  BY <1>4, <1>5, FS_AddElement
<1> QED
  BY <1>1, <1>2, <1>3, <1>4, <1>6

(* The run on top leaves its step for its timer. *)
LEMMA RunWaits ==
  ASSUME TypeOK, Driven, UNCHANGED rule, SameRuns, stack # <<>>, Top.kind = "step", Leaves,
         NEW i \in RuleIds, i = Top.id, NEW k \in DOMAIN runs[i], runs[i][k].token = Top.token,
         timers' = Scheduled(i, runs[i][k])
  PROVE  Driven'
<1>1. /\ Len(stack) \in DOMAIN stack /\ runs[i][k] \in Run
      /\ timers \subseteq Timer /\ IsFiniteSet(timers)
  BY BelowFacts, RuleFacts DEF TypeOK
<1>2. /\ SteppedOnce'
      /\ \A j, other : Stepped(j, other)' <=> (Stepped(j, other) /\ ~(j = i /\ other = runs[i][k].token))
  BY <1>1, LeavesOnce DEF Driven
<1>3. Stepped(i, runs[i][k].token)
  BY <1>1 DEF Stepped, IsStep, Top
<1>4. ~Timed(i, runs[i][k])
  BY <1>3 DEF Driven, OneDriver
<1>5. PICK new : new = [id |-> i, seq |-> runs[i][k].seq, token |-> runs[i][k].token]
  OBVIOUS
<1>6. \A t \in timers : ~(t.id = i /\ t.seq = runs[i][k].seq)
  <2> SUFFICES ASSUME NEW t \in timers, t.id = i, t.seq = runs[i][k].seq
               PROVE  FALSE
    OBVIOUS
  <2>1. PICK l \in DOMAIN runs[i] : runs[i][l].seq = t.seq /\ runs[i][l].token = t.token
    BY DEF Driven, OwnTimers
  <2>2. l = k
    BY <2>1 DEF Driven, ToldApart
  <2>3. t = new
    BY <1>5, <2>1, <2>2 DEF TypeOK, Timer
  <2> QED
    BY <1>4, <1>5, <2>3 DEF Timed
<1>7. timers' = timers \cup {new}
  BY <1>1, <1>5, <1>6, ScheduledFacts
<1>8. OnlyBuiltRun' /\ ToldApart'
  BY DEF Driven, OnlyBuiltRun, ToldApart, SameRuns
<1>9. OneDriver'
  <2> SUFFICES ASSUME NEW j \in RuleIds, NEW l \in DOMAIN runs'[j]
               PROVE  Timed(j, runs[j][l])' <=> ~Stepped(j, runs[j][l].token)'
    BY DEF OneDriver
  <2>1. l \in DOMAIN runs[j] /\ runs'[j][l].seq = runs[j][l].seq /\ runs'[j][l].token = runs[j][l].token
    BY DEF SameRuns
  <2>2. Timed(j, runs[j][l]) <=> ~Stepped(j, runs[j][l].token)
    BY <2>1 DEF Driven, OneDriver
  <2>3. PICK x : x = [id |-> j, seq |-> runs[j][l].seq, token |-> runs[j][l].token]
    OBVIOUS
  <2>4. Timed(j, runs[j][l])' <=> (x \in timers \/ x = new)
    BY <1>7, <2>1, <2>3 DEF Timed
  <2>5. Stepped(j, runs[j][l].token)' <=> (Stepped(j, runs[j][l].token) /\ ~(j = i /\ runs[j][l].token = runs[i][k].token))
    <3>1. PICK token : token = runs[j][l].token
      OBVIOUS
    <3>2. Stepped(j, token)' <=> (Stepped(j, token) /\ ~(j = i /\ token = runs[i][k].token))
      BY <1>2
    <3>3. Stepped(j, runs[j][l].token)' <=> Stepped(j, token)'
      BY <2>1, <3>1 DEF Stepped, IsStep
    <3> QED
      BY <3>1, <3>2, <3>3
  <2>6. CASE j = i /\ runs[j][l].token = runs[i][k].token
    <3>1. l = k
      BY <2>1, <2>6 DEF Driven, ToldApart
    <3>2. x = new
      BY <1>5, <2>3, <2>6, <3>1
    <3> QED
      BY <2>4, <2>5, <2>6, <3>2
  <2>7. CASE ~(j = i /\ runs[j][l].token = runs[i][k].token)
    <3>1. x # new
      BY <1>5, <2>3, <2>7
    <3> QED
      BY <2>2, <2>3, <2>4, <2>5, <2>7, <3>1 DEF Timed
  <2> QED
    BY <2>6, <2>7
<1>10. OwnTimers'
  <2> SUFFICES ASSUME NEW t \in timers'
               PROVE  \E l \in DOMAIN runs'[t.id] : runs'[t.id][l].seq = t.seq /\ runs'[t.id][l].token = t.token
    BY DEF OwnTimers
  <2>1. CASE t \in timers
    <3>1. t.id \in RuleIds
      BY <2>1 DEF TypeOK, Timer
    <3> QED
      BY <2>1, <3>1 DEF Driven, OwnTimers, SameRuns
  <2>2. CASE t = new
    BY <1>5, <2>2 DEF SameRuns
  <2> QED
    BY <1>7, <2>1, <2>2
<1> QED
  BY <1>2, <1>8, <1>9, <1>10 DEF Driven

(* The run on top ends with its step. *)
LEMMA RunEnds ==
  ASSUME TypeOK, Driven, UNCHANGED <<rule, timers>>, stack # <<>>, Top.kind = "step", Leaves,
         NEW i \in RuleIds, i = Top.id, NEW k \in DOMAIN runs[i], runs[i][k].token = Top.token,
         \A j \in RuleIds : j # i => runs'[j] = runs[j], DOMAIN runs'[i] \subseteq Int,
         \A l \in DOMAIN runs'[i] : \E o \in DOMAIN runs[i] : /\ runs'[i][l] = runs[i][o] /\ o # k
                                                              /\ o = IF l < k THEN l ELSE l + 1,
         \A o \in DOMAIN runs[i] : o # k => \E l \in DOMAIN runs'[i] : runs'[i][l] = runs[i][o]
  PROVE  Driven'
<1>1. Len(stack) \in DOMAIN stack
  BY BelowFacts
<1>2. /\ SteppedOnce'
      /\ \A j, other : Stepped(j, other)' <=> (Stepped(j, other) /\ ~(j = i /\ other = runs[i][k].token))
  BY <1>1, LeavesOnce DEF Driven
<1>3. Stepped(i, runs[i][k].token)
  BY <1>1 DEF Stepped, IsStep, Top
<1>4. ~Timed(i, runs[i][k])
  BY <1>3 DEF Driven, OneDriver
<1>5. OnlyBuiltRun'
  BY DEF Driven, OnlyBuiltRun
<1>6. ToldApart'
  <2> SUFFICES ASSUME NEW j \in RuleIds, NEW a \in DOMAIN runs'[j], NEW b \in DOMAIN runs'[j],
                      runs'[j][a].token = runs'[j][b].token \/ runs'[j][a].seq = runs'[j][b].seq
               PROVE  a = b
    BY DEF ToldApart
  <2>1. CASE j # i
    BY <2>1 DEF Driven, ToldApart
  <2>2. CASE j = i
    <3>1. PICK x \in DOMAIN runs[i] : runs'[i][a] = runs[i][x] /\ x # k /\ x = IF a < k THEN a ELSE a + 1
      BY <2>2
    <3>2. PICK y \in DOMAIN runs[i] : runs'[i][b] = runs[i][y] /\ y # k /\ y = IF b < k THEN b ELSE b + 1
      BY <2>2
    <3>3. x = y
      BY <2>2, <3>1, <3>2 DEF Driven, ToldApart
    <3>4. a \in Int /\ b \in Int /\ k \in Int
      <4>1. runs[i] \in Seq(Run)
        BY RuleFacts
      <4>2. DOMAIN runs[i] \subseteq Int
        BY <4>1
      <4> QED
        BY <2>2, <4>2
    <3> QED
      BY <3>1, <3>2, <3>3, <3>4
  <2> QED
    BY <2>1, <2>2
<1>7. OneDriver'
  <2> SUFFICES ASSUME NEW j \in RuleIds, NEW l \in DOMAIN runs'[j]
               PROVE  Timed(j, runs[j][l])' <=> ~Stepped(j, runs[j][l].token)'
    BY DEF OneDriver
  <2>1. PICK o \in DOMAIN runs[j] : runs'[j][l] = runs[j][o] /\ ~(j = i /\ o = k)
    OBVIOUS
  <2>2. PICK r : r = runs[j][o]
    OBVIOUS
  <2>3. ~(j = i /\ r.token = runs[i][k].token)
    BY <2>1, <2>2 DEF Driven, ToldApart
  <2>4. Timed(j, r) <=> ~Stepped(j, r.token)
    BY <2>2 DEF Driven, OneDriver
  <2>5. Timed(j, r)' <=> Timed(j, r)
    BY DEF Timed
  <2>6. Stepped(j, r.token)' <=> Stepped(j, r.token)
    BY <1>2, <2>3
  <2> QED
    BY <2>1, <2>2, <2>4, <2>5, <2>6
<1>8. OwnTimers'
  <2> SUFFICES ASSUME NEW t \in timers
               PROVE  \E l \in DOMAIN runs'[t.id] : runs'[t.id][l].seq = t.seq /\ runs'[t.id][l].token = t.token
    BY DEF OwnTimers
  <2>1. t \in Timer /\ t.id \in RuleIds
    BY DEF TypeOK, Timer
  <2>2. PICK o \in DOMAIN runs[t.id] : runs[t.id][o].seq = t.seq /\ runs[t.id][o].token = t.token
    BY DEF Driven, OwnTimers
  <2>3. ~(t.id = i /\ o = k)
    <3>1. t.id = i /\ o = k => t = [id |-> i, seq |-> runs[i][k].seq, token |-> runs[i][k].token]
      BY <2>1, <2>2 DEF Timer
    <3> QED
      BY <1>4, <3>1 DEF Timed
  <2>4. PICK l \in DOMAIN runs'[t.id] : runs'[t.id][l] = runs[t.id][o]
    <3>1. CASE t.id = i
      BY <2>3, <3>1
    <3>2. CASE t.id # i
      BY <2>1, <3>2
    <3> QED
      BY <3>1, <3>2
  <2> QED
    BY <2>2, <2>4
<1> QED
  BY <1>2, <1>5, <1>6, <1>7, <1>8 DEF Driven

(* A step whose run was stopped or replaced is left. *)
LEMMA StepLeft ==
  ASSUME TypeOK, Driven, UNCHANGED <<rule, runs, timers>>, stack # <<>>, Top.kind = "step", Leaves,
         \A k \in DOMAIN runs[Top.id] : runs[Top.id][k].token # Top.token
  PROVE  Driven'
<1>1. Len(stack) \in DOMAIN stack
  BY BelowFacts
<1>2. /\ SteppedOnce'
      /\ \A j, other : Stepped(j, other)' <=> (Stepped(j, other) /\ ~(j = Top.id /\ other = Top.token))
  BY <1>1, LeavesOnce DEF Driven
<1>3. OneDriver'
  <2> SUFFICES ASSUME NEW j \in RuleIds, NEW k \in DOMAIN runs'[j]
               PROVE  Timed(j, runs[j][k])' <=> ~Stepped(j, runs[j][k].token)'
    BY DEF OneDriver
  <2>1. PICK r : r = runs[j][k]
    OBVIOUS
  <2>2. ~(j = Top.id /\ r.token = Top.token)
    BY <2>1
  <2>3. Timed(j, r) <=> ~Stepped(j, r.token)
    BY <2>1 DEF Driven, OneDriver
  <2>4. Timed(j, r)' <=> Timed(j, r)
    BY DEF Timed
  <2>5. Stepped(j, r.token)' <=> Stepped(j, r.token)
    BY <1>2, <2>2
  <2> QED
    BY <2>1, <2>3, <2>4, <2>5
<1> QED
  BY <1>2, <1>3 DEF Driven, OnlyBuiltRun, ToldApart, OwnTimers

(* A timer becomes the step of its run. *)
LEMMA TimerDrives ==
  ASSUME TypeOK, Driven, UNCHANGED <<rule, runs>>, NEW t \in timers, stack = <<>>,
         timers' = timers \ {t}, Enters(t.id, t.token)
  PROVE  Driven'
<1>1. t \in Timer /\ t.id \in RuleIds
  BY DEF TypeOK, Timer
<1>2. PICK k \in DOMAIN runs[t.id] : runs[t.id][k].seq = t.seq /\ runs[t.id][k].token = t.token
  BY DEF Driven, OwnTimers
<1>3. \A j, other : ~Stepped(j, other)
  <2>1. DOMAIN stack = {}
    OBVIOUS
  <2> QED
    BY <2>1 DEF Stepped
<1>4. /\ SteppedOnce'
      /\ \A j, other : Stepped(j, other)' <=> (Stepped(j, other) \/ (j = t.id /\ other = t.token))
  BY <1>3, EntersOnce DEF Driven
<1>5. OneDriver'
  <2> SUFFICES ASSUME NEW j \in RuleIds, NEW l \in DOMAIN runs'[j]
               PROVE  Timed(j, runs[j][l])' <=> ~Stepped(j, runs[j][l].token)'
    BY DEF OneDriver
  <2>1. PICK r : r = runs[j][l]
    OBVIOUS
  <2>2. Timed(j, r)
    BY <1>3, <2>1 DEF Driven, OneDriver
  <2>3. PICK x : x = [id |-> j, seq |-> r.seq, token |-> r.token]
    OBVIOUS
  <2>4. Timed(j, r)' <=> x # t
    BY <2>2, <2>3 DEF Timed
  <2>5. x = t <=> j = t.id /\ r.token = t.token
    <3>1. x = t => j = t.id /\ r.token = t.token
      BY <2>3
    <3>2. ASSUME j = t.id, r.token = t.token
          PROVE  x = t
      <4>1. l = k
        BY <1>2, <2>1, <3>2 DEF Driven, ToldApart
      <4> QED
        BY <1>1, <1>2, <2>1, <2>3, <3>2, <4>1 DEF Timer
    <3> QED
      BY <3>1, <3>2
  <2>6. Stepped(j, r.token)' <=> (j = t.id /\ r.token = t.token)
    BY <1>3, <1>4
  <2> QED
    BY <2>1, <2>4, <2>5, <2>6
<1> QED
  BY <1>4, <1>5 DEF Driven, OnlyBuiltRun, ToldApart, OwnTimers

(* The runs of some rules are stopped and their timers cancelled; the others  *)
(* are still built.                                                           *)
LEMMA RunsStop ==
  ASSUME TypeOK, Driven, stack = <<>>, UNCHANGED stack, NEW gone,
         \A i \in RuleIds : i \in gone => DOMAIN runs'[i] = {},
         \A i \in RuleIds : i \notin gone => runs'[i] = runs[i] /\ (rule[i].built => rule'[i].built),
         timers' = {t \in timers : t.id \notin gone}
  PROVE  Driven'
<1>1. DOMAIN stack = {}
  OBVIOUS
<1>2. SteppedOnce' /\ \A j, other : ~Stepped(j, other) /\ ~Stepped(j, other)'
  BY <1>1 DEF SteppedOnce, Stepped
<1>3. OnlyBuiltRun' /\ ToldApart'
  BY DEF Driven, OnlyBuiltRun, ToldApart
<1>4. OneDriver'
  <2> SUFFICES ASSUME NEW j \in RuleIds, NEW k \in DOMAIN runs'[j]
               PROVE  Timed(j, runs[j][k])' <=> ~Stepped(j, runs[j][k].token)'
    BY DEF OneDriver
  <2>1. j \notin gone /\ runs'[j] = runs[j]
    OBVIOUS
  <2>2. PICK r : r = runs[j][k]
    OBVIOUS
  <2>3. Timed(j, r)
    BY <1>2, <2>1, <2>2 DEF Driven, OneDriver
  <2>4. Timed(j, r)'
    BY <2>1, <2>3 DEF Timed
  <2> QED
    BY <1>2, <2>1, <2>2, <2>4
<1>5. OwnTimers'
  <2>1. \A t \in timers : t.id \in RuleIds
    BY DEF TypeOK, Timer
  <2> QED
    BY <2>1 DEF Driven, OwnTimers
<1> QED
  BY <1>2, <1>3, <1>4, <1>5 DEF Driven

LEMMA TimersGone ==
  ASSUME Driven, NEW i \in RuleIds
  PROVE  WithoutTimers(i, timers) = {t \in timers : t.id # i}
BY DEF Driven, OwnTimers, WithoutTimers
-----------------------------------------------------------------------------
(* The run on top and its list *)

LEMMA FindRunFacts ==
  ASSUME TypeOK, NEW i \in RuleIds, NEW token, NEW at, at = FindRun(i, token)
  PROVE  /\ at # 0 => at \in DOMAIN runs[i] /\ runs[i][at].token = token
         /\ at = 0 => \A k \in DOMAIN runs[i] : runs[i][k].token # token
<1>1. PICK found : found = {k \in DOMAIN runs[i] : runs[i][k].token = token}
  OBVIOUS
<1>2. found \subseteq Nat /\ 0 \notin found
  <2>1. DOMAIN runs[i] = 1..Len(runs[i]) /\ Len(runs[i]) \in Nat
    BY RuleFacts
  <2> QED
    BY <1>1, <2>1
<1>3. at = IF found = {} THEN 0 ELSE Min(found)
  BY <1>1 DEF FindRun
<1>4. found # {} => Min(found) \in found
  BY <1>2, MinFacts
<1> QED
  BY <1>1, <1>2, <1>3, <1>4

LEMMA StepFacts ==
  ASSUME NEW s \in Steps
  PROVE  /\ s.type \in {"delay", "switch", "climate"}
         /\ s.type = "switch" => s.target \in Relays /\ s.what \in Whats
         /\ s.type = "climate" => s.target \in Climates /\ s.what \in Whats
<1>1. CASE s = Delay
  BY <1>1 DEF Delay
<1>2. ASSUME NEW r \in Relays, NEW what \in Whats, s = SwitchStep(r, what)
      PROVE  s.type = "switch" /\ s.target \in Relays /\ s.what \in Whats
  BY <1>2 DEF SwitchStep
<1>3. ASSUME NEW t \in Climates, NEW what \in Whats, s = ClimateStep(t, what)
      PROVE  s.type = "climate" /\ s.target \in Climates /\ s.what \in Whats
  BY <1>3 DEF ClimateStep
<1> QED
  BY <1>1, <1>2, <1>3 DEF Steps

LEMMA LiveFacts ==
  ASSUME TypeOK, Live, NEW i, i = Top.id, NEW k, k = FindRun(Top.id, Top.token)
  PROVE  /\ stack # <<>> /\ Top \in Frame /\ Top.kind = "step" /\ i \in RuleIds
         /\ k \in DOMAIN runs[i] /\ runs[i][k].token = Top.token
         /\ Current = runs[i][k] /\ runs[i][k] \in Run
         /\ Exists(i) /\ rule[i].config \in Config
         /\ List \in Seq(Steps) /\ Current.cursor <= Len(List)
         /\ Current.cursor < Len(List) => Next_ \in Steps
<1>1. stack # <<>> /\ Top \in Frame /\ Top.kind = "step"
  BY OnFacts DEF Live
<1>2. i \in RuleIds /\ Top.token \in Nat
  BY <1>1, FrameFacts
<1>3. k \in DOMAIN runs[i] /\ runs[i][k].token = Top.token
  <2>1. k # 0
    BY DEF Live
  <2> QED
    BY <1>2, <2>1, FindRunFacts
<1>4. Current = runs[i][k] /\ runs[i][k] \in Run
  BY <1>2, <1>3, RuleFacts DEF Current
<1>5. Exists(i) /\ runs[i][k].cursor <= Len(rule[i].config[runs[i][k].branch])
  BY <1>2, <1>3 DEF TypeOK
<1>6. rule[i].config \in Config
  BY <1>2, <1>5, RuleFacts
<1>7. List = rule[i].config[runs[i][k].branch]
  BY <1>4 DEF List
<1>8. List \in Seq(Steps) /\ Current.cursor \in Nat
  BY <1>4, <1>6, <1>7, ListFacts, RunFacts
<1>9. Current.cursor <= Len(List)
  BY <1>4, <1>5, <1>7
<1>10. Current.cursor < Len(List) => Next_ \in Steps
  BY <1>8 DEF Next_
<1> QED
  BY <1>1, <1>2, <1>3, <1>4, <1>5, <1>6, <1>8, <1>9, <1>10

LEMMA DropFacts ==
  ASSUME NEW rs \in Seq(Run), NEW k \in DOMAIN rs, NEW d, d = Drop(rs, k)
  PROVE  /\ d \in Seq(Run)
         /\ \A l \in DOMAIN d : \E o \in DOMAIN rs : d[l] = rs[o] /\ o # k /\ o = IF l < k THEN l ELSE l + 1
         /\ \A o \in DOMAIN rs : o # k => \E l \in DOMAIN d : d[l] = rs[o]
<1>1. PICK n \in Nat : n = Len(rs) /\ DOMAIN rs = 1..n
  OBVIOUS
<1>2. k \in 1..n /\ \A x \in 1..n : rs[x] \in Run
  BY <1>1
<1>3. PICK a : a = SubSeq(rs, 1, k - 1)
  OBVIOUS
<1>4. PICK b : b = SubSeq(rs, k + 1, n)
  OBVIOUS
<1>5. a \in Seq(Run) /\ Len(a) = k - 1 /\ \A x \in 1..(k - 1) : a[x] = rs[x]
  <2>1. \A x \in 1..(k - 1) : rs[x] \in Run
    BY <1>2
  <2>2. /\ SubSeq(rs, 1, k - 1) \in Seq(Run)
        /\ Len(SubSeq(rs, 1, k - 1)) = IF 1 <= k - 1 THEN k - 1 - 1 + 1 ELSE 0
        /\ \A x \in 1..(k - 1 - 1 + 1) : SubSeq(rs, 1, k - 1)[x] = rs[1 + x - 1]
    BY <1>2, <2>1, SubSeqProperties
  <2>3. k - 1 - 1 + 1 = k - 1 /\ \A x \in 1..(k - 1) : 1 + x - 1 = x
    BY <1>2
  <2>4. (IF 1 <= k - 1 THEN k - 1 - 1 + 1 ELSE 0) = k - 1
    BY <1>2
  <2> QED
    BY <1>3, <2>2, <2>3, <2>4
<1>6. b \in Seq(Run) /\ Len(b) = n - k /\ \A x \in 1..(n - k) : b[x] = rs[k + x]
  <2>1. \A x \in (k + 1)..n : rs[x] \in Run
    BY <1>2
  <2>2. /\ SubSeq(rs, k + 1, n) \in Seq(Run)
        /\ Len(SubSeq(rs, k + 1, n)) = IF k + 1 <= n THEN n - (k + 1) + 1 ELSE 0
        /\ \A x \in 1..(n - (k + 1) + 1) : SubSeq(rs, k + 1, n)[x] = rs[k + 1 + x - 1]
    BY <1>2, <2>1, SubSeqProperties
  <2>3. n - (k + 1) + 1 = n - k /\ \A x \in 1..(n - k) : k + 1 + x - 1 = k + x
    BY <1>2
  <2>4. (IF k + 1 <= n THEN n - (k + 1) + 1 ELSE 0) = n - k
    BY <1>2
  <2> QED
    BY <1>4, <2>2, <2>3, <2>4
<1>7. d = a \o b
  BY <1>1, <1>3, <1>4 DEF Drop
<1>8. d \in Seq(Run) /\ Len(d) = n - 1 /\ DOMAIN d = 1..(n - 1)
  <2>1. a \o b \in Seq(Run) /\ Len(a \o b) = Len(a) + Len(b)
    BY <1>5, <1>6, ConcatProperties
  <2>2. Len(a) + Len(b) = n - 1 /\ n - 1 \in Nat
    BY <1>2, <1>5, <1>6
  <2>3. DOMAIN (a \o b) = 1..Len(a \o b)
    BY <2>1
  <2> QED
    BY <1>7, <2>1, <2>2, <2>3
<1>9. \A l \in 1..(n - 1) : d[l] = IF l < k THEN rs[l] ELSE rs[l + 1]
  <2> SUFFICES ASSUME NEW l \in 1..(n - 1)
               PROVE  d[l] = IF l < k THEN rs[l] ELSE rs[l + 1]
    OBVIOUS
  <2>1. (a \o b)[l] = IF l <= Len(a) THEN a[l] ELSE b[l - Len(a)]
    <3>1. l \in 1..(Len(a) + Len(b))
      BY <1>2, <1>5, <1>6
    <3> QED
      BY <1>5, <1>6, <3>1, ConcatProperties
  <2>2. CASE l < k
    <3>1. l <= Len(a) /\ l \in 1..(k - 1)
      BY <1>2, <1>5, <2>2
    <3>2. d[l] = a[l]
      BY <1>7, <2>1, <3>1
    <3> QED
      BY <1>5, <2>2, <3>1, <3>2
  <2>3. CASE ~(l < k)
    <3>1. l - (k - 1) \in 1..(n - k) /\ k + (l - (k - 1)) = l + 1
      BY <1>2, <2>3
    <3>2. b[l - (k - 1)] = rs[k + (l - (k - 1))]
      BY <1>6, <3>1
    <3>3. ~(l <= Len(a)) /\ Len(a) = k - 1
      BY <1>2, <1>5, <2>3
    <3>4. d[l] = b[l - (k - 1)]
      BY <1>7, <2>1, <3>3
    <3>5. d[l] = rs[l + 1]
      BY <3>1, <3>2, <3>4
    <3> QED
      BY <2>3, <3>5
  <2> QED
    BY <2>2, <2>3
<1>10. \A l \in DOMAIN d : \E o \in DOMAIN rs : d[l] = rs[o] /\ o # k /\ o = IF l < k THEN l ELSE l + 1
  <2> SUFFICES ASSUME NEW l \in 1..(n - 1)
               PROVE  \E o \in DOMAIN rs : d[l] = rs[o] /\ o # k /\ o = IF l < k THEN l ELSE l + 1
    BY <1>8
  <2>1. PICK o : o = IF l < k THEN l ELSE l + 1
    OBVIOUS
  <2>2. o \in DOMAIN rs /\ o # k
    BY <1>1, <1>2, <2>1
  <2>3. d[l] = rs[o]
    BY <1>9, <2>1
  <2> QED
    BY <2>1, <2>2, <2>3
<1>11. \A o \in DOMAIN rs : o # k => \E l \in DOMAIN d : d[l] = rs[o]
  <2> SUFFICES ASSUME NEW o \in 1..n, o # k
               PROVE  \E l \in DOMAIN d : d[l] = rs[o]
    BY <1>1
  <2>1. CASE o < k
    <3>1. o \in 1..(n - 1)
      BY <1>2, <2>1
    <3> QED
      BY <1>8, <1>9, <2>1, <3>1
  <2>2. CASE ~(o < k)
    <3>1. o - 1 \in 1..(n - 1) /\ ~(o - 1 < k) /\ o - 1 + 1 = o
      BY <1>2, <2>2
    <3> QED
      BY <1>8, <1>9, <3>1
  <2> QED
    BY <2>1, <2>2
<1> QED
  BY <1>8, <1>10, <1>11

LEMMA MovedFacts ==
  ASSUME TypeOK, NEW i \in RuleIds, NEW k \in DOMAIN runs[i], NEW moved, moved = Moved(i, k)
  PROVE  /\ moved \in [RuleIds -> Seq(Run)]
         /\ \A j \in RuleIds : j # i => moved[j] = runs[j]
         /\ DOMAIN moved[i] = DOMAIN runs[i]
         /\ \A l \in DOMAIN runs[i] : l # k => moved[i][l] = runs[i][l]
         /\ moved[i][k].cursor = runs[i][k].cursor + 1 /\ moved[i][k].branch = runs[i][k].branch
         /\ moved[i][k].seq = runs[i][k].seq /\ moved[i][k].token = runs[i][k].token
<1>1. runs[i] \in Seq(Run) /\ runs[i][k] \in Run
  BY RuleFacts
<1>2. PICK run : run = [runs[i][k] EXCEPT !.cursor = @ + 1]
  OBVIOUS
<1>3. PICK rs : rs = [runs[i] EXCEPT ![k] = run]
  OBVIOUS
<1>4. /\ run \in Run
      /\ run.cursor = runs[i][k].cursor + 1 /\ run.branch = runs[i][k].branch
      /\ run.seq = runs[i][k].seq /\ run.token = runs[i][k].token
  <2>1. PICK r \in Run : r = runs[i][k]
    BY <1>1
  <2>2. PICK c \in Nat : c = r.cursor + 1
    BY RunFacts
  <2>3. run = [r EXCEPT !.cursor = c]
    BY <1>2, <2>1, <2>2
  <2>4. run \in Run /\ run.cursor = c /\ run.branch = r.branch /\ run.seq = r.seq /\ run.token = r.token
    BY <2>3 DEF Run
  <2> QED
    BY <2>1, <2>2, <2>4
<1>5. rs \in Seq(Run) /\ DOMAIN rs = DOMAIN runs[i] /\ rs[k] = run /\ \A l \in DOMAIN runs[i] : l # k => rs[l] = runs[i][l]
  BY <1>1, <1>3, <1>4
<1>6. moved = [runs EXCEPT ![i] = rs]
  BY <1>2, <1>3 DEF Moved
<1>7. moved[i] = rs /\ moved \in [RuleIds -> Seq(Run)] /\ \A j \in RuleIds : j # i => moved[j] = runs[j]
  BY <1>5, <1>6 DEF TypeOK
<1> QED
  BY <1>2, <1>4, <1>5, <1>7
-----------------------------------------------------------------------------
(* The stack an action leaves *)

(* A step that is put on the stack is one of a rule that is built.           *)
StepsBuilt ==
  \A n \in DOMAIN stack' : stack'[n].kind = "step" =>
    \/ n \in DOMAIN stack /\ stack[n] = stack'[n]
    \/ rule[stack'[n].id].built /\ rule[stack'[n].id].gen = stack'[n].gen

LEMMA StackKept ==
  ASSUME UNCHANGED stack
  PROVE  KeepsSteps /\ NoNewSteps /\ StepsBuilt
BY DEF KeepsSteps, NoNewSteps, StepsBuilt

LEMMA StackGrows ==
  ASSUME TypeOK, NEW t \in Seq(Frame), \A k \in DOMAIN t : t[k].kind = "offer", stack' = stack \o t
  PROVE  stack' \in Seq(Frame) /\ KeepsSteps /\ NoNewSteps /\ StepsBuilt
<1>1. stack \in Seq(Frame)
  BY DEF TypeOK
<1>2. /\ stack \o t \in Seq(Frame)
      /\ \A k \in DOMAIN stack : k \in DOMAIN (stack \o t) /\ (stack \o t)[k] = stack[k]
      /\ \A k \in DOMAIN (stack \o t) : \/ k \in DOMAIN stack /\ (stack \o t)[k] = stack[k]
                                        \/ /\ k \notin DOMAIN stack /\ k - Len(stack) \in DOMAIN t
                                           /\ (stack \o t)[k] = t[k - Len(stack)]
  BY <1>1, Pushed
<1>3. KeepsSteps
  BY <1>2 DEF KeepsSteps
<1>4. NoNewSteps
  BY <1>2 DEF NoNewSteps
<1> QED
  BY <1>2, <1>3, <1>4 DEF StepsBuilt, NoNewSteps

LEMMA TopLeft ==
  ASSUME TypeOK, stack # <<>>, stack' = Below
  PROVE  /\ stack' \in Seq(Frame) /\ NoNewSteps /\ StepsBuilt /\ Leaves
         /\ Top.kind = "offer" => KeepsSteps
<1>1. /\ Len(stack) \in DOMAIN stack /\ Top = stack[Len(stack)]
      /\ stack' \in Seq(Frame) /\ Len(stack') = Len(stack) - 1
      /\ \A k \in DOMAIN stack' : k \in DOMAIN stack /\ k < Len(stack) /\ stack'[k] = stack[k]
      /\ \A k \in DOMAIN stack : k # Len(stack) => k \in DOMAIN stack'
  BY BelowFacts
<1>2. NoNewSteps
  BY <1>1 DEF NoNewSteps
<1>3. Len(stack) \notin DOMAIN stack'
  <2>1. stack \in Seq(Frame)
    BY DEF TypeOK
  <2> QED
    BY <1>1, <2>1
<1>4. Leaves
  BY <1>1, <1>2, <1>3 DEF Leaves
<1>5. Top.kind = "offer" => KeepsSteps
  BY <1>1 DEF KeepsSteps
<1> QED
  BY <1>1, <1>2, <1>4, <1>5 DEF StepsBuilt, NoNewSteps

(* The stack once the event on top was offered to the next rule. *)
LEMMA OfferMoved ==
  ASSUME TypeOK, On("offer"), Top.next <= NRules,
         NEW under, under = Below \o <<[Top EXCEPT !.next = Top.next + 1]>>
  PROVE  /\ under \in Seq(Frame) /\ DOMAIN under = DOMAIN stack
         /\ \A n \in DOMAIN stack : stack[n].kind = "step" => under[n] = stack[n]
         /\ \A n \in DOMAIN under : under[n].kind = "step" => under[n] = stack[n]
<1>1. stack # <<>> /\ Top.kind = "offer" /\ Top \in Frame
  BY OnFacts
<1>2. PICK f : f = [Top EXCEPT !.next = Top.next + 1]
  OBVIOUS
<1>3. f \in Frame /\ f.kind = "offer"
  <2>1. PICK o \in Frame : o = Top
    BY <1>1
  <2>2. o \in [kind : {"offer"}, entity : Inputs \cup Relays, state : BOOLEAN, level : BOOLEAN, next : 1..(NRules + 1)]
    BY <1>1, <2>1 DEF Frame
  <2>3. PICK next : next = o.next + 1
    OBVIOUS
  <2>4. next \in 1..(NRules + 1)
    BY <2>1, <2>2, <2>3, AutomationAssumption
  <2>5. f = [o EXCEPT !.next = next]
    BY <1>2, <2>1, <2>3
  <2>6. f \in [kind : {"offer"}, entity : Inputs \cup Relays, state : BOOLEAN, level : BOOLEAN, next : 1..(NRules + 1)]
    BY <2>2, <2>4, <2>5
  <2> QED
    BY <2>6 DEF Frame
<1>4. PICK t \in Seq(Frame) : t = <<f>> /\ Len(t) = 1 /\ t[1] = f /\ DOMAIN t = {1}
  <2>1. <<f>> \in Seq(Frame) /\ Len(<<f>>) = 1 /\ <<f>>[1] = f /\ DOMAIN <<f>> = {1}
    BY <1>3
  <2> QED
    BY <2>1, Zenon
<1>5. /\ Len(stack) \in DOMAIN stack /\ Top = stack[Len(stack)]
      /\ Below \in Seq(Frame) /\ Len(Below) = Len(stack) - 1
      /\ \A k \in DOMAIN Below : k \in DOMAIN stack /\ k < Len(stack) /\ Below[k] = stack[k]
      /\ \A k \in DOMAIN stack : k # Len(stack) => k \in DOMAIN Below
  BY <1>1, BelowFacts
<1>6. /\ Below \o t \in Seq(Frame) /\ Len(Below \o t) = Len(Below) + Len(t)
      /\ \A k \in DOMAIN Below : k \in DOMAIN (Below \o t) /\ (Below \o t)[k] = Below[k]
      /\ \A k \in DOMAIN (Below \o t) : \/ k \in DOMAIN Below /\ (Below \o t)[k] = Below[k]
                                        \/ /\ k \notin DOMAIN Below /\ k - Len(Below) \in DOMAIN t
                                           /\ (Below \o t)[k] = t[k - Len(Below)]
  BY <1>4, <1>5, Pushed
<1>7. under = Below \o t
  BY <1>2, <1>4
<1>8. stack \in Seq(Frame)
  BY DEF TypeOK
<1>9. Len(under) = Len(stack) /\ under \in Seq(Frame)
  BY <1>4, <1>5, <1>6, <1>7, <1>8
<1>10. DOMAIN under = DOMAIN stack
  BY <1>8, <1>9
<1>11. \A n \in DOMAIN stack : stack[n].kind = "step" => under[n] = stack[n]
  BY <1>1, <1>5, <1>6, <1>7
<1>12. \A n \in DOMAIN under : under[n].kind = "step" => under[n] = stack[n]
  BY <1>3, <1>4, <1>5, <1>6, <1>7
<1> QED
  BY <1>9, <1>10, <1>11, <1>12

(* A step put on top. *)
LEMMA StepEntered ==
  ASSUME TypeOK, NEW under \in Seq(Frame), DOMAIN under = DOMAIN stack,
         \A n \in DOMAIN stack : stack[n].kind = "step" => under[n] = stack[n],
         \A n \in DOMAIN under : under[n].kind = "step" => under[n] = stack[n],
         NEW i \in RuleIds, rule[i].built, NEW token \in Nat, NEW scheduled \in BOOLEAN,
         stack' = under \o Stepping(i, token, scheduled)
  PROVE  stack' \in Seq(Frame) /\ Enters(i, token) /\ StepsBuilt
<1>1. PICK w : w = Stepping(i, token, scheduled)
  OBVIOUS
<1>2. /\ w \in Seq(Frame) /\ Len(w) = 1
      /\ w[1].kind = "step" /\ w[1].id = i /\ w[1].token = token /\ w[1].gen = rule[i].gen
  BY <1>1, SteppingFacts
<1>3. DOMAIN w = {1}
  BY <1>2
<1>4. /\ under \o w \in Seq(Frame)
      /\ \A k \in DOMAIN under : k \in DOMAIN (under \o w) /\ (under \o w)[k] = under[k]
      /\ \A k \in DOMAIN w : Len(under) + k \in DOMAIN (under \o w) /\ (under \o w)[Len(under) + k] = w[k]
      /\ \A k \in DOMAIN (under \o w) : \/ k \in DOMAIN under /\ (under \o w)[k] = under[k]
                                        \/ /\ k \notin DOMAIN under /\ k - Len(under) \in DOMAIN w
                                           /\ (under \o w)[k] = w[k - Len(under)]
  BY <1>2, Pushed
<1>5. stack' = under \o w
  BY <1>1
<1>6. PICK n : n = Len(under) + 1
  OBVIOUS
<1>7. n \in DOMAIN stack' /\ stack'[n] = w[1]
  BY <1>3, <1>4, <1>5, <1>6
<1>8. n \notin DOMAIN stack
  BY <1>6
<1>9. \A k \in DOMAIN stack' : k = n \/ (k \in DOMAIN under /\ stack'[k] = under[k])
  <2> SUFFICES ASSUME NEW k \in DOMAIN stack', k \notin DOMAIN under
               PROVE  k = n
    BY <1>4, <1>5
  <2>1. k - Len(under) = 1
    BY <1>3, <1>4, <1>5
  <2>2. k \in Int /\ Len(under) \in Int
    BY <1>4, <1>5
  <2> QED
    BY <1>6, <2>1, <2>2
<1>10. KeepsSteps
  BY <1>4, <1>5 DEF KeepsSteps
<1>11. Enters(i, token)
  <2>1. stack'[n].kind = "step" /\ stack'[n].id = i /\ stack'[n].token = token
    BY <1>2, <1>7
  <2>2. \A m \in DOMAIN stack' : stack'[m].kind = "step" /\ m # n => m \in DOMAIN stack /\ stack[m] = stack'[m]
    BY <1>9
  <2> QED
    BY <1>7, <1>8, <1>10, <2>1, <2>2, Zenon DEF Enters
<1>12. StepsBuilt
  BY <1>2, <1>7, <1>9 DEF StepsBuilt
<1> QED
  BY <1>4, <1>5, <1>11, <1>12
-----------------------------------------------------------------------------
(* Starting a run *)

(* The part of TypeOK that is about what rules do. *)
RunsTyped ==
  /\ runs \in [RuleIds -> Seq(Run)]
  /\ \A i \in RuleIds : \A k \in DOMAIN runs[i] :
       Exists(i) /\ runs[i][k].cursor <= Len(rule[i].config[runs[i][k].branch])
TimersTyped == timers \subseteq Timer /\ IsFiniteSet(timers)
WorkTyped == RunsTyped /\ TimersTyped /\ stack \in Seq(Frame)

LEMMA RunsPut ==
  ASSUME TypeOK, UNCHANGED rule, NEW i \in RuleIds, NEW rs \in Seq(Run), runs' = [runs EXCEPT ![i] = rs],
         \A k \in DOMAIN rs : Exists(i) /\ rs[k].cursor <= Len(rule[i].config[rs[k].branch])
  PROVE  /\ RunsTyped'
         /\ runs'[i] = rs /\ \A j \in RuleIds : j # i => runs'[j] = runs[j]
<1>1. /\ runs' \in [RuleIds -> Seq(Run)]
      /\ runs'[i] = rs /\ \A j \in RuleIds : j # i => runs'[j] = runs[j]
  BY DEF TypeOK
<1>2. ASSUME NEW j \in RuleIds, NEW k \in DOMAIN runs'[j]
      PROVE  rule[j].gen # 0 /\ runs'[j][k].cursor <= Len(rule[j].config[runs'[j][k].branch])
  <2>1. CASE j = i
    BY <1>1, <2>1 DEF Exists
  <2>2. CASE j # i
    BY <1>1, <2>2 DEF TypeOK, Exists
  <2> QED
    BY <2>1, <2>2
<1> QED
  BY <1>1, <1>2 DEF RunsTyped, Exists

LEMMA WorkKept ==
  ASSUME TypeOK
  PROVE  /\ UNCHANGED <<rule, runs>> => RunsTyped'
         /\ UNCHANGED timers => TimersTyped'
         /\ UNCHANGED stack => stack' \in Seq(Frame)
         /\ \A ts \in SUBSET timers : timers' = ts => TimersTyped'
<1>1. UNCHANGED <<rule, runs>> => RunsTyped'
  BY DEF TypeOK, RunsTyped, Exists
<1>2. UNCHANGED timers => TimersTyped'
  BY DEF TypeOK, TimersTyped
<1>3. \A ts \in SUBSET timers : timers' = ts => TimersTyped'
  <2> SUFFICES ASSUME NEW ts \in SUBSET timers, timers' = ts
               PROVE  TimersTyped'
    OBVIOUS
  <2>1. IsFiniteSet(ts)
    BY FS_Subset DEF TypeOK
  <2> QED
    BY <2>1 DEF TypeOK, TimersTyped
<1> QED
  BY <1>1, <1>2, <1>3 DEF TypeOK

(* A run in the way takes over the state of the edge that is ignored. *)
LEMMA CopyFacts ==
  ASSUME NEW hasState \in BOOLEAN, NEW state \in BOOLEAN
  PROVE  \A rs \in Seq(Run) :
           /\ CopyState(rs, hasState, state) \in Seq(Run) /\ DOMAIN CopyState(rs, hasState, state) = DOMAIN rs
           /\ \A k \in DOMAIN rs :
                /\ CopyState(rs, hasState, state)[k].seq = rs[k].seq
                /\ CopyState(rs, hasState, state)[k].token = rs[k].token
                /\ CopyState(rs, hasState, state)[k].cursor = rs[k].cursor
                /\ CopyState(rs, hasState, state)[k].branch = rs[k].branch
<1> SUFFICES ASSUME NEW rs \in Seq(Run), NEW copied, copied = CopyState(rs, hasState, state)
             PROVE  /\ copied \in Seq(Run) /\ DOMAIN copied = DOMAIN rs
                    /\ \A k \in DOMAIN rs : /\ copied[k].seq = rs[k].seq /\ copied[k].token = rs[k].token
                                            /\ copied[k].cursor = rs[k].cursor /\ copied[k].branch = rs[k].branch
  OBVIOUS
<1>1. CASE ~hasState
  BY <1>1 DEF CopyState
<1>2. CASE hasState
  <2>1. copied = [k \in DOMAIN rs |-> [rs[k] EXCEPT !.hasState = TRUE, !.state = state]]
    BY <1>2 DEF CopyState
  <2>2. ASSUME NEW k \in DOMAIN rs
        PROVE  /\ copied[k] \in Run
               /\ copied[k].seq = rs[k].seq /\ copied[k].token = rs[k].token
               /\ copied[k].cursor = rs[k].cursor /\ copied[k].branch = rs[k].branch
    <3>1. PICK r \in Run : r = rs[k]
      OBVIOUS
    <3>2. PICK c : c = [r EXCEPT !.hasState = TRUE, !.state = state]
      OBVIOUS
    <3>3. copied[k] = c
      BY <2>1, <3>1, <3>2
    <3>4. c \in Run /\ c.seq = r.seq /\ c.token = r.token /\ c.cursor = r.cursor /\ c.branch = r.branch
      BY <3>2 DEF Run
    <3> QED
      BY <3>1, <3>3, <3>4
  <2>3. DOMAIN copied = DOMAIN rs
    BY <2>1
  <2>4. copied \in Seq(Run)
    <3>1. PICK n \in Nat : DOMAIN rs = 1..n
      OBVIOUS
    <3>2. copied \in [1..n -> Run]
      BY <2>1, <2>2, <3>1
    <3> QED
      BY <3>2
  <2> QED
    BY <2>2, <2>3, <2>4
<1> QED
  BY <1>1, <1>2

LEMMA StartWorks ==
  ASSUME TypeOK, Driven, UNCHANGED rule, NEW i \in RuleIds, rule[i].built,
         NEW hasState \in BOOLEAN, NEW state \in BOOLEAN, NEW forced \in BOOLEAN,
         NEW under \in Seq(Frame), DOMAIN under = DOMAIN stack,
         \A n \in DOMAIN stack : stack[n].kind = "step" => under[n] = stack[n],
         \A n \in DOMAIN under : under[n].kind = "step" => under[n] = stack[n],
         Start(i, hasState, state, forced, under)
  PROVE  WorkTyped' /\ Driven' /\ StepsBuilt
<1> DEFINE config == rule[i].config
           refused == runs[i] # <<>> /\ \/ config.mode = "single"
                                        \/ config.mode = "parallel" /\ Len(runs[i]) >= MaxRuns
           before == IF config.mode = "restart" THEN <<>> ELSE runs[i]
           branch == IF forced \/ Passes(config) THEN "then" ELSE "else"
           run == [seq |-> FreeSeq(before), token |-> Fresh(Tokens(i)), cursor |-> 0, branch |-> branch,
                   hasState |-> hasState, state |-> hasState /\ state]
<1>1. Exists(i) /\ runs[i] \in Seq(Run) /\ config \in Config
  BY RuleFacts
<1>2. CASE refused
  <2>1. /\ runs' = IF config.mode = "single" THEN [runs EXCEPT ![i] = CopyState(runs[i], hasState, state)] ELSE runs
        /\ stack' = under /\ timers' = timers
    BY <1>2, Zenon DEF Start
  <2>2. KeepsSteps /\ NoNewSteps /\ StepsBuilt
    BY <2>1 DEF KeepsSteps, NoNewSteps, StepsBuilt
  <2>3. RunsTyped' /\ SameRuns
    <3>1. CASE config.mode = "single"
      <4>0. PICK rs \in Seq(Run) : rs = runs[i]
        BY <1>1
      <4>1. PICK copied : copied = CopyState(rs, hasState, state)
        OBVIOUS
      <4>2. /\ copied \in Seq(Run) /\ DOMAIN copied = DOMAIN runs[i]
            /\ \A k \in DOMAIN runs[i] : /\ copied[k].seq = runs[i][k].seq /\ copied[k].token = runs[i][k].token
                                         /\ copied[k].cursor = runs[i][k].cursor /\ copied[k].branch = runs[i][k].branch
        <5>1. /\ copied \in Seq(Run) /\ DOMAIN copied = DOMAIN rs
              /\ \A k \in DOMAIN rs : /\ copied[k].seq = rs[k].seq /\ copied[k].token = rs[k].token
                                      /\ copied[k].cursor = rs[k].cursor /\ copied[k].branch = rs[k].branch
          BY <4>1, CopyFacts
        <5> QED
          BY <4>0, <5>1
      <4>3. runs' = [runs EXCEPT ![i] = copied]
        BY <2>1, <3>1, <4>0, <4>1
      <4>4. \A k \in DOMAIN copied : Exists(i) /\ copied[k].cursor <= Len(rule[i].config[copied[k].branch])
        BY <4>2 DEF TypeOK
      <4>5. RunsTyped' /\ runs'[i] = copied /\ \A j \in RuleIds : j # i => runs'[j] = runs[j]
        BY <4>2, <4>3, <4>4, RunsPut
      <4> QED
        BY <4>2, <4>5 DEF SameRuns
    <3>2. CASE config.mode # "single"
      BY <2>1, <3>2, WorkKept DEF SameRuns
    <3> QED
      BY <3>1, <3>2
  <2>4. Driven'
    BY <2>1, <2>2, <2>3, NothingDriven
  <2> QED
    BY <2>1, <2>2, <2>3, <2>4, WorkKept DEF WorkTyped
<1>3. CASE ~refused
  <2>1. /\ runs' = [runs EXCEPT ![i] = Append(before, run)]
        /\ timers' = IF config.mode = "restart" THEN WithoutTimers(i, timers) ELSE timers
        /\ stack' = under \o Stepping(i, run.token, FALSE)
    BY <1>3, Zenon DEF Start
  <2>2. PICK bef \in Seq(Run) : bef = before
    <3>1. <<>> \in Seq(Run)
      OBVIOUS
    <3> QED
      BY <1>1, <3>1
  <2>3. FreeSeq(bef) \in Nat /\ \A k \in DOMAIN bef : bef[k].seq # FreeSeq(bef)
    BY <2>2, FreeSeqFacts
  <2>4. Fresh(Tokens(i)) \in Nat
    BY NewToken
  <2>5. PICK b \in {"then", "else"} : b = branch
    OBVIOUS
  <2>6. PICK st \in BOOLEAN : st = (hasState /\ state)
    OBVIOUS
  <2>7. PICK seq \in Nat : seq = FreeSeq(bef)
    BY <2>3
  <2>8. PICK token \in Nat : token = Fresh(Tokens(i))
    BY <2>4
  <2>9. PICK r : r = [seq |-> seq, token |-> token, cursor |-> 0, branch |-> b, hasState |-> hasState, state |-> st]
    OBVIOUS
  <2>10. r \in Run /\ r.seq = seq /\ r.token = token /\ r.cursor = 0 /\ r.branch = b
    BY <2>9 DEF Run
  <2>11. r = run
    BY <2>2, <2>5, <2>6, <2>7, <2>8, <2>9, Zenon
  <2>12. runs' = [runs EXCEPT ![i] = Append(bef, r)] /\ stack' = under \o Stepping(i, token, FALSE)
    BY <2>1, <2>2, <2>10, <2>11
  <2>13. \/ bef = runs[i] /\ timers' = timers
         \/ bef = <<>> /\ timers' = {t \in timers : t.id # i}
    BY <2>1, <2>2, TimersGone
  <2>14. stack' \in Seq(Frame) /\ Enters(i, token) /\ StepsBuilt
    <3>1. PICK no \in BOOLEAN : no = FALSE
      OBVIOUS
    <3>2. stack' = under \o Stepping(i, token, no)
      BY <2>12, <3>1
    <3> QED
      BY <3>2, StepEntered
  <2>15. Driven'
    <3>1. \A k \in DOMAIN bef : bef[k].seq # r.seq
      BY <2>3, <2>7, <2>10
    <3>2. r.token = Fresh(Tokens(i)) /\ Enters(i, r.token)
      BY <2>8, <2>10, <2>14
    <3> QED
      BY <2>10, <2>12, <2>13, <3>1, <3>2, RunBegins
  <2>16. RunsTyped'
    <3>1. PICK rs : rs = Append(bef, r)
      OBVIOUS
    <3>2. rs \in Seq(Run) /\ \A k \in DOMAIN rs : rs[k] = r \/ (k \in DOMAIN bef /\ rs[k] = bef[k])
      BY <2>10, <3>1
    <3>3. \A k \in DOMAIN bef : k \in DOMAIN runs[i] /\ bef[k] = runs[i][k]
      <4>1. CASE bef = <<>>
        <5>1. DOMAIN bef = {}
          BY <4>1
        <5> QED
          BY <5>1
      <4> QED
        BY <2>13, <4>1
    <3>4. r.cursor <= Len(rule[i].config[r.branch])
      <4>1. rule[i].config[b] \in Seq(Steps)
        BY <1>1, ListFacts
      <4>2. Len(rule[i].config[b]) \in Nat
        BY <4>1
      <4> QED
        BY <2>10, <4>2
    <3>5. \A k \in DOMAIN rs : rs[k].cursor <= Len(rule[i].config[rs[k].branch])
      <4> SUFFICES ASSUME NEW k \in DOMAIN rs
                   PROVE  rs[k].cursor <= Len(rule[i].config[rs[k].branch])
        OBVIOUS
      <4>1. CASE rs[k] = r
        BY <3>4, <4>1
      <4>2. CASE k \in DOMAIN runs[i] /\ rs[k] = runs[i][k]
        BY <4>2 DEF TypeOK
      <4> QED
        BY <3>2, <3>3, <4>1, <4>2
    <3>6. runs' = [runs EXCEPT ![i] = rs]
      BY <2>12, <3>1
    <3> QED
      BY <1>1, <3>2, <3>5, <3>6, RunsPut
  <2>17. TimersTyped'
    <3>1. PICK ts \in SUBSET timers : timers' = ts
      BY <2>13
    <3> QED
      BY <3>1, WorkKept
  <2> QED
    BY <2>14, <2>15, <2>16, <2>17 DEF WorkTyped
<1> QED
  BY <1>2, <1>3
-----------------------------------------------------------------------------
(* The actions: types, and that the runs stay driven *)

(* The part of TypeOK that rules do not write. *)
WorldTyped ==
  /\ rebuilds \subseteq Climates /\ there \subseteq Climates /\ held \subseteq Relays
  /\ input \in [Inputs -> BOOLEAN] /\ relay \in [Relays -> BOOLEAN] /\ climate \in [Climates -> BOOLEAN]
  /\ settled \subseteq RuleIds

LEMMA TypeFromParts ==
  ASSUME TypeOK, UNCHANGED rule, WorkTyped', WorldTyped'
  PROVE  TypeOK'
<1>1. DOMAIN rule' = RuleIds /\ \A i \in RuleIds : IF rule'[i].gen # 0 THEN rule'[i] \in Held ELSE rule'[i] = NoRule
  BY DEF TypeOK, Exists
<1> QED
  BY <1>1 DEF TypeOK, WorkTyped, RunsTyped, TimersTyped, WorldTyped, Exists

LEMMA WorldKept ==
  ASSUME TypeOK, UNCHANGED <<rebuilds, input, relay, climate, there, held>>, settled' \subseteq RuleIds
  PROVE  WorldTyped'
BY DEF TypeOK, WorldTyped

LEMMA OfferNextWorks ==
  ASSUME TypeOK, Driven, OfferNext
  PROVE  TypeOK' /\ Driven' /\ StepsBuilt
<1>1. /\ On("offer") /\ UNCHANGED <<rule, rebuilds, input, relay, climate, there, held>>
      /\ Top \in Frame /\ Top.kind = "offer" /\ stack # <<>>
  BY OnFacts DEF OfferNext
<1>2. PICK i : i = Top.next
  OBVIOUS
<1>3. i \in 1..(NRules + 1) /\ NRules \in Nat
  BY <1>1, <1>2, FrameFacts, AutomationAssumption
<1>4. PICK under : under = Below \o <<[Top EXCEPT !.next = Top.next + 1]>>
  OBVIOUS
<1>5. WorkTyped' /\ Driven' /\ StepsBuilt
  <2>1. CASE i > NRules
    <3>1. stack' = Below /\ UNCHANGED <<runs, timers>>
      BY <1>2, <2>1 DEF OfferNext
    <3>2. stack' \in Seq(Frame) /\ NoNewSteps /\ StepsBuilt /\ KeepsSteps
      BY <1>1, <3>1, TopLeft
    <3>3. SameRuns
      BY <3>1 DEF SameRuns
    <3> QED
      BY <1>1, <3>1, <3>2, <3>3, NothingDriven, WorkKept DEF WorkTyped
  <2>2. CASE ~(i > NRules)
    <3>1. i \in RuleIds /\ Top.next <= NRules
      BY <1>2, <1>3, <2>2 DEF RuleIds
    <3>2. /\ under \in Seq(Frame) /\ DOMAIN under = DOMAIN stack
          /\ \A n \in DOMAIN stack : stack[n].kind = "step" => under[n] = stack[n]
          /\ \A n \in DOMAIN under : under[n].kind = "step" => under[n] = stack[n]
      BY <1>1, <1>4, <3>1, OfferMoved
    <3>3. under = Below \o <<[Top EXCEPT !.next = i + 1]>>
      BY <1>2, <1>4
    <3>4. CASE rule[i].built /\ Fires(rule[i].config, Top) /\ rule[i].enabled
      <4>1. Start(i, TRUE, Top.state, FALSE, under)
        BY <1>2, <2>2, <3>3, <3>4 DEF OfferNext
      <4>2. Top.state \in BOOLEAN
        BY <1>1, FrameFacts
      <4>3. PICK state \in BOOLEAN : state = Top.state
        BY <4>2
      <4>4. PICK yes \in BOOLEAN : yes = TRUE
        OBVIOUS
      <4>5. PICK no \in BOOLEAN : no = FALSE
        OBVIOUS
      <4>6. Start(i, yes, state, no, under)
        BY <4>1, <4>3, <4>4, <4>5
      <4> QED
        BY <1>1, <3>1, <3>2, <3>4, <4>6, StartWorks
    <3>5. CASE ~(rule[i].built /\ Fires(rule[i].config, Top) /\ rule[i].enabled)
      <4>1. stack' = under /\ UNCHANGED <<runs, timers>>
        BY <1>2, <2>2, <3>3, <3>5 DEF OfferNext
      <4>2. KeepsSteps /\ NoNewSteps /\ StepsBuilt
        BY <3>2, <4>1 DEF KeepsSteps, NoNewSteps, StepsBuilt
      <4>3. SameRuns
        BY <4>1 DEF SameRuns
      <4> QED
        BY <1>1, <3>2, <4>1, <4>2, <4>3, NothingDriven, WorkKept DEF WorkTyped
    <3> QED
      BY <3>4, <3>5
  <2> QED
    BY <2>1, <2>2
<1>6. settled' \subseteq RuleIds
  <2>1. settled \subseteq RuleIds
    BY DEF TypeOK
  <2>2. CASE i > NRules
    BY <1>2, <2>1, <2>2 DEF OfferNext
  <2>3. CASE ~(i > NRules)
    <3>1. i \in RuleIds
      BY <1>3, <2>3 DEF RuleIds
    <3>2. settled' \in {settled, settled \ {i}, settled \cup {i}}
      BY <1>2, <2>3 DEF OfferNext
    <3> QED
      BY <2>1, <3>1, <3>2
  <2> QED
    BY <2>2, <2>3
<1> QED
  BY <1>1, <1>5, <1>6, TypeFromParts, WorldKept

LEMMA ValueTyped ==
  ASSUME NEW what \in Whats, NEW run \in Run, NEW now \in BOOLEAN
  PROVE  Value(what, run, now) \in BOOLEAN
<1>1. run.state \in BOOLEAN
  BY RunFacts
<1> QED
  BY <1>1 DEF Value, Whats

(* A run moves on to its next step. *)
LEMMA RunMoves ==
  ASSUME TypeOK, UNCHANGED rule, Live, Current.cursor < Len(List),
         runs' = Moved(Top.id, FindRun(Top.id, Top.token))
  PROVE  RunsTyped' /\ SameRuns
<1>1. PICK i : i = Top.id
  OBVIOUS
<1>2. PICK k : k = FindRun(Top.id, Top.token)
  OBVIOUS
<1>3. /\ i \in RuleIds /\ k \in DOMAIN runs[i] /\ Current = runs[i][k] /\ runs[i][k] \in Run
      /\ Exists(i) /\ List \in Seq(Steps)
  BY <1>1, <1>2, LiveFacts
<1>4. PICK moved : moved = Moved(i, k)
  OBVIOUS
<1>5. /\ moved \in [RuleIds -> Seq(Run)]
      /\ \A j \in RuleIds : j # i => moved[j] = runs[j]
      /\ DOMAIN moved[i] = DOMAIN runs[i]
      /\ \A l \in DOMAIN runs[i] : l # k => moved[i][l] = runs[i][l]
      /\ moved[i][k].cursor = runs[i][k].cursor + 1 /\ moved[i][k].branch = runs[i][k].branch
      /\ moved[i][k].seq = runs[i][k].seq /\ moved[i][k].token = runs[i][k].token
  BY <1>3, <1>4, MovedFacts
<1>6. runs' = moved
  BY <1>1, <1>2, <1>4
<1>7. SameRuns
  <2> SUFFICES ASSUME NEW j \in RuleIds
               PROVE  /\ DOMAIN moved[j] = DOMAIN runs[j]
                      /\ \A l \in DOMAIN runs[j] : moved[j][l].seq = runs[j][l].seq
                                                   /\ moved[j][l].token = runs[j][l].token
    BY <1>6 DEF SameRuns
  <2>1. CASE j = i
    BY <1>5, <2>1
  <2>2. CASE j # i
    BY <1>5, <2>2
  <2> QED
    BY <2>1, <2>2
<1>8. moved[i][k].cursor <= Len(rule[i].config[moved[i][k].branch])
  <2>1. List = rule[i].config[runs[i][k].branch]
    BY <1>1, <1>3 DEF List
  <2>2. runs[i][k].cursor \in Nat /\ Len(List) \in Nat
    BY <1>3, RunFacts
  <2>3. runs[i][k].cursor < Len(List)
    BY <1>3
  <2>4. runs[i][k].cursor + 1 <= Len(List)
    BY <2>2, <2>3
  <2> QED
    BY <1>5, <2>1, <2>4
<1>9. \A j \in RuleIds : \A l \in DOMAIN moved[j] :
        rule[j].gen # 0 /\ moved[j][l].cursor <= Len(rule[j].config[moved[j][l].branch])
  <2> SUFFICES ASSUME NEW j \in RuleIds, NEW l \in DOMAIN moved[j]
               PROVE  rule[j].gen # 0 /\ moved[j][l].cursor <= Len(rule[j].config[moved[j][l].branch])
    OBVIOUS
  <2>1. CASE j = i /\ l = k
    BY <1>3, <1>8, <2>1 DEF Exists
  <2>2. CASE ~(j = i /\ l = k)
    <3>1. l \in DOMAIN runs[j] /\ moved[j][l] = runs[j][l]
      BY <1>5, <2>2
    <3> QED
      BY <3>1 DEF TypeOK, Exists
  <2> QED
    BY <2>1, <2>2
<1> QED
  BY <1>5, <1>6, <1>7, <1>9 DEF RunsTyped, Exists

LEMMA PlaySwitchWorks ==
  ASSUME TypeOK, Driven, PlaySwitch
  PROVE  TypeOK' /\ Driven' /\ StepsBuilt
<1>1. /\ Live /\ Current.cursor < Len(List) /\ Next_.type = "switch"
      /\ UNCHANGED <<rule, timers, rebuilds, input, climate, there, held>>
      /\ runs' = Moved(Top.id, FindRun(Top.id, Top.token))
  BY DEF PlaySwitch
<1>2. PICK r : r = Next_.target
  OBVIOUS
<1>3. PICK value : value = IF r \in held THEN relay[r] ELSE Value(Next_.what, Current, relay[r])
  OBVIOUS
<1>4. /\ relay' = [relay EXCEPT ![r] = value]
      /\ stack' = stack \o (IF value # relay[r] THEN Offer(r, value, FALSE) ELSE <<>>)
      /\ settled' = IF r \in held THEN settled \ {Top.id} ELSE settled
  BY <1>2, <1>3 DEF PlaySwitch
<1>5. r \in Relays /\ value \in BOOLEAN
  <2>1. Next_ \in Steps /\ Current \in Run
    BY <1>1, LiveFacts
  <2>2. r \in Relays /\ Next_.what \in Whats
    BY <1>1, <1>2, <2>1, StepFacts
  <2>3. relay[r] \in BOOLEAN
    BY <2>2 DEF TypeOK
  <2>4. Value(Next_.what, Current, relay[r]) \in BOOLEAN
    BY <2>1, <2>2, <2>3, ValueTyped
  <2> QED
    BY <1>3, <2>2, <2>3, <2>4
<1>6. RunsTyped' /\ SameRuns
  BY <1>1, RunMoves
<1>7. stack' \in Seq(Frame) /\ KeepsSteps /\ NoNewSteps /\ StepsBuilt
  <2>1. CASE value # relay[r]
    <3>1. PICK v \in BOOLEAN : v = value
      BY <1>5
    <3>2. PICK no \in BOOLEAN : no = FALSE
      OBVIOUS
    <3>3. PICK o : o = Offer(r, v, no)
      OBVIOUS
    <3>4. o \in Seq(Frame) /\ Len(o) = 1 /\ o[1].kind = "offer"
      BY <1>5, <3>3, OfferFacts
    <3>5. stack' = stack \o o
      BY <1>4, <2>1, <3>1, <3>2, <3>3
    <3>6. \A k \in DOMAIN o : o[k].kind = "offer"
      BY <3>4
    <3> QED
      BY <3>4, <3>5, <3>6, StackGrows
  <2>2. CASE value = relay[r]
    <3>1. stack' = stack \o <<>>
      BY <1>4, <2>2
    <3>2. stack \in Seq(Frame)
      BY DEF TypeOK
    <3>3. stack' = stack
      BY <3>1, <3>2, ConcatEmptySeq
    <3> QED
      BY <3>2, <3>3, StackKept
  <2> QED
    BY <2>1, <2>2
<1>8. Driven'
  BY <1>1, <1>6, <1>7, NothingDriven
<1>9. WorldTyped'
  <2>1. relay' \in [Relays -> BOOLEAN]
    BY <1>4, <1>5 DEF TypeOK
  <2>2. settled' \subseteq RuleIds
    BY <1>4 DEF TypeOK
  <2> QED
    BY <1>1, <2>1, <2>2 DEF TypeOK, WorldTyped
<1> QED
  BY <1>1, <1>6, <1>7, <1>8, <1>9, WorkKept, TypeFromParts DEF WorkTyped

LEMMA PlayClimateWorks ==
  ASSUME TypeOK, Driven, PlayClimate
  PROVE  TypeOK' /\ Driven' /\ StepsBuilt
<1>1. /\ Live /\ Current.cursor < Len(List) /\ Next_.type = "climate"
      /\ runs' = Moved(Top.id, FindRun(Top.id, Top.token))
      /\ climate' = IF Next_.target \in there
                    THEN [climate EXCEPT ![Next_.target] = Value(Next_.what, Current, climate[Next_.target])] ELSE climate
      /\ UNCHANGED <<rule, timers, stack, rebuilds, input, relay, there, held, settled>>
  BY DEF PlayClimate
<1>2. PICK t : t = Next_.target
  OBVIOUS
<1>3. PICK value : value = Value(Next_.what, Current, climate[t])
  OBVIOUS
<1>4. t \in Climates /\ value \in BOOLEAN
  <2>1. Next_ \in Steps /\ Current \in Run
    BY <1>1, LiveFacts
  <2>2. t \in Climates /\ Next_.what \in Whats
    BY <1>1, <1>2, <2>1, StepFacts
  <2>3. climate[t] \in BOOLEAN
    BY <2>2 DEF TypeOK
  <2> QED
    BY <1>3, <2>1, <2>2, <2>3, ValueTyped
<1>5. climate' \in [Climates -> BOOLEAN]
  BY <1>1, <1>2, <1>3, <1>4 DEF TypeOK
<1>6. RunsTyped' /\ SameRuns
  BY <1>1, RunMoves
<1>7. KeepsSteps /\ NoNewSteps /\ StepsBuilt
  BY <1>1, StackKept
<1>8. Driven'
  BY <1>1, <1>6, <1>7, NothingDriven
<1>9. WorldTyped'
  BY <1>1, <1>5 DEF TypeOK, WorldTyped
<1> QED
  BY <1>1, <1>6, <1>7, <1>8, <1>9, WorkKept, TypeFromParts DEF WorkTyped

LEMMA WaitWorks ==
  ASSUME TypeOK, Driven, Wait
  PROVE  TypeOK' /\ Driven' /\ StepsBuilt
<1>1. /\ Live /\ Current.cursor < Len(List)
      /\ \/ runs' = Moved(Top.id, FindRun(Top.id, Top.token))
         \/ runs' = runs
      /\ timers' = Scheduled(Top.id, Current) /\ stack' = Below
      /\ UNCHANGED <<rule, rebuilds, input, relay, climate, there, held, settled>>
  BY DEF Wait
<1>2. PICK i : i = Top.id
  OBVIOUS
<1>3. PICK k : k = FindRun(Top.id, Top.token)
  OBVIOUS
<1>4. /\ stack # <<>> /\ Top.kind = "step" /\ i \in RuleIds
      /\ k \in DOMAIN runs[i] /\ runs[i][k].token = Top.token
      /\ Current = runs[i][k] /\ runs[i][k] \in Run
  BY <1>1, <1>2, <1>3, LiveFacts
<1>5. RunsTyped' /\ SameRuns
  <2>1. CASE runs' = runs
    BY <1>1, <2>1, WorkKept DEF SameRuns
  <2>2. CASE runs' # runs
    BY <1>1, <2>2, RunMoves
  <2> QED
    BY <2>1, <2>2
<1>6. stack' \in Seq(Frame) /\ Leaves /\ StepsBuilt
  BY <1>1, <1>4, TopLeft
<1>7. timers' = Scheduled(i, runs[i][k])
  BY <1>1, <1>2, <1>4
<1>8. Driven'
  BY <1>1, <1>2, <1>4, <1>5, <1>6, <1>7, RunWaits
<1>9. TimersTyped'
  <2>1. PICK ts : ts = timers'
    OBVIOUS
  <2>2. timers \subseteq Timer /\ IsFiniteSet(timers)
    BY DEF TypeOK
  <2>3. PICK run \in Run : run = runs[i][k]
    BY <1>4
  <2>4. ts = Scheduled(i, run)
    BY <1>7, <2>1, <2>3
  <2>5. ts \subseteq Timer /\ IsFiniteSet(ts)
    BY <1>4, <2>2, <2>4, ScheduledFacts
  <2> QED
    BY <2>1, <2>5 DEF TimersTyped
<1>10. WorldTyped'
  BY <1>1 DEF TypeOK, WorldTyped
<1> QED
  BY <1>1, <1>5, <1>6, <1>8, <1>9, <1>10, TypeFromParts DEF WorkTyped

LEMMA EndRunWorks ==
  ASSUME TypeOK, Driven, EndRun
  PROVE  TypeOK' /\ Driven' /\ StepsBuilt
<1>1. /\ Live /\ stack' = Below
      /\ runs' = [runs EXCEPT ![Top.id] = Drop(runs[Top.id], FindRun(Top.id, Top.token))]
      /\ UNCHANGED <<rule, timers, rebuilds, input, relay, climate, there, held, settled>>
  BY DEF EndRun
<1>2. PICK i : i = Top.id
  OBVIOUS
<1>3. PICK k : k = FindRun(Top.id, Top.token)
  OBVIOUS
<1>4. /\ stack # <<>> /\ Top.kind = "step" /\ i \in RuleIds
      /\ k \in DOMAIN runs[i] /\ runs[i][k].token = Top.token
  BY <1>1, <1>2, <1>3, LiveFacts
<1>5. PICK rs \in Seq(Run) : rs = runs[i]
  BY <1>4, RuleFacts
<1>6. PICK d : d = Drop(rs, k)
  OBVIOUS
<1>7. /\ d \in Seq(Run)
      /\ \A l \in DOMAIN d : \E o \in DOMAIN rs : d[l] = rs[o] /\ o # k /\ o = IF l < k THEN l ELSE l + 1
      /\ \A o \in DOMAIN rs : o # k => \E l \in DOMAIN d : d[l] = rs[o]
  BY <1>4, <1>5, <1>6, DropFacts
<1>8. runs' = [runs EXCEPT ![i] = d]
  BY <1>1, <1>2, <1>3, <1>5, <1>6
<1>9. \A l \in DOMAIN d : Exists(i) /\ d[l].cursor <= Len(rule[i].config[d[l].branch])
  BY <1>4, <1>5, <1>7 DEF TypeOK
<1>10. RunsTyped' /\ runs'[i] = d /\ \A j \in RuleIds : j # i => runs'[j] = runs[j]
  BY <1>1, <1>4, <1>7, <1>8, <1>9, RunsPut
<1>11. stack' \in Seq(Frame) /\ Leaves /\ StepsBuilt
  BY <1>1, <1>4, TopLeft
<1>12. Driven'
  <2>1. DOMAIN runs'[i] \subseteq Int
    BY <1>7, <1>10
  <2>2. \A l \in DOMAIN runs'[i] : \E o \in DOMAIN runs[i] : /\ runs'[i][l] = runs[i][o] /\ o # k
                                                             /\ o = IF l < k THEN l ELSE l + 1
    BY <1>5, <1>7, <1>10
  <2>3. \A o \in DOMAIN runs[i] : o # k => \E l \in DOMAIN runs'[i] : runs'[i][l] = runs[i][o]
    BY <1>5, <1>7, <1>10
  <2> QED
    BY <1>1, <1>2, <1>4, <1>10, <1>11, <2>1, <2>2, <2>3, RunEnds
<1>13. WorldTyped'
  BY <1>1 DEF TypeOK, WorldTyped
<1> QED
  BY <1>1, <1>10, <1>11, <1>12, <1>13, WorkKept, TypeFromParts DEF WorkTyped

LEMMA LeaveRunWorks ==
  ASSUME TypeOK, Driven, LeaveRun
  PROVE  TypeOK' /\ Driven' /\ StepsBuilt
<1>1. /\ On("step") /\ ~Live /\ stack' = Below
      /\ UNCHANGED <<rule, runs, timers, rebuilds, input, relay, climate, there, held, settled>>
  BY DEF LeaveRun
<1>2. stack # <<>> /\ Top.kind = "step" /\ Top \in Frame
  BY <1>1, OnFacts
<1>3. \A k \in DOMAIN runs[Top.id] : runs[Top.id][k].token # Top.token
  <2>1. PICK at : at = FindRun(Top.id, Top.token)
    OBVIOUS
  <2>2. at = 0 /\ Top.id \in RuleIds
    BY <1>1, <1>2, <2>1, FrameFacts DEF Live
  <2> QED
    BY <2>1, <2>2, FindRunFacts
<1>4. stack' \in Seq(Frame) /\ Leaves /\ StepsBuilt
  BY <1>1, <1>2, TopLeft
<1>5. Driven'
  BY <1>1, <1>2, <1>3, <1>4, StepLeft
<1>6. WorldTyped'
  BY <1>1 DEF TypeOK, WorldTyped
<1> QED
  BY <1>1, <1>4, <1>5, <1>6, WorkKept, TypeFromParts DEF WorkTyped

LEMMA TimerFiresWorks ==
  ASSUME TypeOK, Driven, NEW t \in timers, TimerFires(t)
  PROVE  TypeOK' /\ Driven' /\ StepsBuilt
<1>1. /\ stack = <<>> /\ timers' = timers \ {t}
      /\ stack' = Stepping(t.id, t.token, TRUE)
      /\ UNCHANGED <<rule, runs, rebuilds, input, relay, climate, there, held, settled>>
  BY DEF TimerFires, Quiet
<1>2. t.id \in RuleIds /\ t.token \in Nat /\ rule[t.id].built
  <2>1. t.id \in RuleIds /\ t.token \in Nat
    BY DEF TypeOK, Timer
  <2> QED
    BY <2>1 DEF Driven, OwnTimers, OnlyBuiltRun
<1>3. stack' \in Seq(Frame) /\ Enters(t.id, t.token) /\ StepsBuilt
  <2>1. PICK yes \in BOOLEAN : yes = TRUE
    OBVIOUS
  <2>2. stack' = Stepping(t.id, t.token, yes)
    BY <1>1, <2>1
  <2>3. Stepping(t.id, t.token, yes) \in Seq(Frame)
    BY <1>2, SteppingFacts
  <2>4. stack' = <<>> \o Stepping(t.id, t.token, yes)
    BY <2>2, <2>3, ConcatEmptySeq
  <2>5. stack \in Seq(Frame)
    BY DEF TypeOK
  <2>6. PICK under \in Seq(Frame) : under = stack
    BY <2>5
  <2>7. stack' = under \o Stepping(t.id, t.token, yes)
    BY <1>1, <2>4, <2>6
  <2> QED
    BY <1>2, <2>6, <2>7, StepEntered
<1>4. Driven'
  BY <1>1, <1>3, TimerDrives
<1>5. TimersTyped'
  <2>1. PICK ts \in SUBSET timers : ts = timers \ {t}
    OBVIOUS
  <2> QED
    BY <1>1, <2>1, WorkKept
<1>6. WorldTyped'
  BY <1>1 DEF TypeOK, WorldTyped
<1> QED
  BY <1>1, <1>3, <1>4, <1>5, <1>6, WorkKept, TypeFromParts DEF WorkTyped

LEMMA RunNowWorks ==
  ASSUME TypeOK, Driven, NEW i \in RuleIds, RunNow(i)
  PROVE  TypeOK' /\ Driven' /\ StepsBuilt
<1>1. /\ stack = <<>> /\ rule[i].built /\ Start(i, FALSE, FALSE, TRUE, <<>>) /\ settled' = settled \ {i}
      /\ UNCHANGED <<rule, rebuilds, input, relay, climate, there, held>>
  BY DEF RunNow, Dispatching, Quiet
<1>2. PICK yes \in BOOLEAN : yes = TRUE
  OBVIOUS
<1>3. PICK no \in BOOLEAN : no = FALSE
  OBVIOUS
<1>4. stack \in Seq(Frame)
  BY DEF TypeOK
<1>5. PICK under \in Seq(Frame) : under = stack
  BY <1>4
<1>6. Start(i, no, no, yes, under)
  BY <1>1, <1>2, <1>3, <1>5
<1>7. WorkTyped' /\ Driven' /\ StepsBuilt
  BY <1>1, <1>5, <1>6, StartWorks
<1>8. WorldTyped'
  BY <1>1 DEF TypeOK, WorldTyped
<1> QED
  BY <1>1, <1>7, <1>8, TypeFromParts

LEMMA InputMovesWorks ==
  ASSUME TypeOK, Driven, NEW b \in Inputs, NEW level \in BOOLEAN, InputMoves(b, level)
  PROVE  TypeOK' /\ Driven' /\ StepsBuilt
<1>1. /\ input' = [input EXCEPT ![b] = ~input[b]]
      /\ stack' = stack \o Offer(b, ~input[b], level)
      /\ UNCHANGED <<rule, runs, timers, rebuilds, relay, climate, there, held, settled>>
  BY DEF InputMoves
<1>2. PICK value \in BOOLEAN : value = ~input[b]
  OBVIOUS
<1>3. input' \in [Inputs -> BOOLEAN]
  BY <1>1, <1>2 DEF TypeOK
<1>4. PICK o : o = Offer(b, value, level)
  OBVIOUS
<1>5. o \in Seq(Frame) /\ Len(o) = 1 /\ o[1].kind = "offer"
  BY <1>4, OfferFacts
<1>6. stack' = stack \o o
  BY <1>1, <1>2, <1>4
<1>7. stack' \in Seq(Frame) /\ KeepsSteps /\ NoNewSteps /\ StepsBuilt
  <2>1. \A k \in DOMAIN o : o[k].kind = "offer"
    BY <1>5
  <2> QED
    BY <1>5, <1>6, <2>1, StackGrows
<1>8. SameRuns
  BY <1>1 DEF SameRuns
<1>9. Driven'
  BY <1>1, <1>7, <1>8, NothingDriven
<1>10. WorldTyped'
  BY <1>1, <1>3 DEF TypeOK, WorldTyped
<1> QED
  BY <1>1, <1>7, <1>9, <1>10, WorkKept, TypeFromParts DEF WorkTyped

LEMMA RelayMovesWorks ==
  ASSUME TypeOK, Driven, NEW r \in Relays, RelayMoves(r)
  PROVE  TypeOK' /\ Driven' /\ StepsBuilt
<1>1. /\ stack = <<>> /\ relay' = [relay EXCEPT ![r] = ~relay[r]]
      /\ stack' = Offer(r, ~relay[r], FALSE) /\ settled' = {}
      /\ UNCHANGED <<rule, runs, timers, rebuilds, input, climate, there, held>>
  BY DEF RelayMoves, Quiet
<1>2. PICK value \in BOOLEAN : value = ~relay[r]
  OBVIOUS
<1>3. PICK no \in BOOLEAN : no = FALSE
  OBVIOUS
<1>4. relay' \in [Relays -> BOOLEAN]
  BY <1>1, <1>2 DEF TypeOK
<1>5. PICK o : o = Offer(r, value, no)
  OBVIOUS
<1>6. o \in Seq(Frame) /\ Len(o) = 1 /\ o[1].kind = "offer"
  BY <1>5, OfferFacts
<1>7. stack' = stack \o o
  <2>1. stack' = o
    BY <1>1, <1>2, <1>3, <1>5
  <2> QED
    BY <1>1, <1>6, <2>1, ConcatEmptySeq
<1>8. stack' \in Seq(Frame) /\ KeepsSteps /\ NoNewSteps /\ StepsBuilt
  <2>1. \A k \in DOMAIN o : o[k].kind = "offer"
    BY <1>6
  <2> QED
    BY <1>6, <1>7, <2>1, StackGrows
<1>9. SameRuns
  BY <1>1 DEF SameRuns
<1>10. Driven'
  BY <1>1, <1>8, <1>9, NothingDriven
<1>11. WorldTyped'
  BY <1>1, <1>4 DEF TypeOK, WorldTyped
<1> QED
  BY <1>1, <1>8, <1>10, <1>11, WorkKept, TypeFromParts DEF WorkTyped

LEMMA HoldWorks ==
  ASSUME TypeOK, Driven, NEW r \in Relays, Hold(r)
  PROVE  TypeOK' /\ Driven' /\ StepsBuilt
<1>1. /\ held' = IF r \in held THEN held \ {r} ELSE held \cup {r}
      /\ UNCHANGED <<rule, runs, timers, stack, rebuilds, input, relay, climate, there, settled>>
  BY DEF Hold
<1>2. KeepsSteps /\ NoNewSteps /\ StepsBuilt
  BY <1>1, StackKept
<1>3. SameRuns
  BY <1>1 DEF SameRuns
<1>4. Driven'
  BY <1>1, <1>2, <1>3, NothingDriven
<1>5. WorldTyped'
  BY <1>1 DEF TypeOK, WorldTyped
<1> QED
  BY <1>1, <1>2, <1>4, <1>5, WorkKept, TypeFromParts DEF WorkTyped
-----------------------------------------------------------------------------
(* The actions that change rules, all of them with nothing on the stack *)

RulesTyped ==
  DOMAIN rule = RuleIds /\ \A i \in RuleIds : IF Exists(i) THEN rule[i] \in Held ELSE rule[i] = NoRule

(* Some rules lose their runs; those that keep them stay what they were.     *)
LEMMA RulesChange ==
  ASSUME TypeOK, Driven, stack = <<>>, UNCHANGED stack, RulesTyped', WorldTyped',
         NEW gone \in SUBSET RuleIds,
         \A i \in gone : runs'[i] = <<>>,
         \A i \in RuleIds \ gone : /\ runs'[i] = runs[i] /\ (rule[i].built => rule'[i].built)
                                   /\ Exists(i) => Exists(i)' /\ rule'[i].config = rule[i].config,
         DOMAIN runs' = RuleIds, runs' = [i \in RuleIds |-> runs'[i]],
         timers' = {t \in timers : t.id \notin gone}
  PROVE  TypeOK' /\ Driven' /\ StepsBuilt
<1>1. \A i \in RuleIds : i \in gone => DOMAIN runs'[i] = {}
  <2>1. DOMAIN <<>> = {}
    OBVIOUS
  <2> QED
    BY <2>1, Zenon
<1>2. Driven'
  BY <1>1, RunsStop
<1>3. RunsTyped'
  <2>1. \A i \in RuleIds : runs'[i] \in Seq(Run)
    <3>1. <<>> \in Seq(Run)
      OBVIOUS
    <3> QED
      BY <3>1, RuleFacts
  <2>2. runs' \in [RuleIds -> Seq(Run)]
    BY <2>1
  <2>3. ASSUME NEW i \in RuleIds, NEW k \in DOMAIN runs'[i]
        PROVE  Exists(i)' /\ runs'[i][k].cursor <= Len(rule'[i].config[runs'[i][k].branch])
    <3>1. i \notin gone /\ runs'[i] = runs[i] /\ k \in DOMAIN runs[i]
      BY <1>1, <2>3
    <3>2. Exists(i) /\ runs[i][k].cursor <= Len(rule[i].config[runs[i][k].branch])
      BY <3>1 DEF TypeOK
    <3>3. Exists(i)' /\ rule'[i].config = rule[i].config
      BY <3>1, <3>2
    <3> QED
      BY <3>1, <3>2, <3>3
  <2> QED
    BY <2>2, <2>3, Zenon DEF RunsTyped
<1>4. TimersTyped'
  <2>1. PICK ts \in SUBSET timers : ts = {t \in timers : t.id \notin gone}
    OBVIOUS
  <2> QED
    BY <2>1, WorkKept
<1>5. stack' \in Seq(Frame)
  BY DEF TypeOK
<1> QED
  BY <1>2, <1>3, <1>4, <1>5, StackKept DEF TypeOK, RulesTyped, RunsTyped, TimersTyped, WorldTyped

LEMMA ReplacedWorks ==
  ASSUME TypeOK, Driven, stack = <<>>, UNCHANGED stack, WorldTyped',
         NEW i \in RuleIds, NEW new, Replaced(i, new), (IF new.gen # 0 THEN new \in Held ELSE new = NoRule)
  PROVE  /\ TypeOK' /\ Driven' /\ StepsBuilt
         /\ rule'[i] = new /\ \A j \in RuleIds : j # i => rule'[j] = rule[j]
<1>1. /\ DOMAIN rule' = RuleIds /\ rule'[i] = new /\ \A j \in RuleIds : j # i => rule'[j] = rule[j]
  BY DEF Replaced, TypeOK
<1>2. /\ DOMAIN runs' = RuleIds /\ runs'[i] = <<>> /\ \A j \in RuleIds : j # i => runs'[j] = runs[j]
      /\ runs' = [j \in RuleIds |-> runs'[j]]
  BY DEF Replaced, TypeOK
<1>3. timers' = {t \in timers : t.id \notin {i}}
  BY TimersGone DEF Replaced
<1>4. RulesTyped'
  <2>1. \A j \in RuleIds : IF rule'[j].gen # 0 THEN rule'[j] \in Held ELSE rule'[j] = NoRule
    <3> SUFFICES ASSUME NEW j \in RuleIds
                 PROVE  IF rule'[j].gen # 0 THEN rule'[j] \in Held ELSE rule'[j] = NoRule
      OBVIOUS
    <3>1. CASE j = i
      BY <1>1, <3>1
    <3>2. CASE j # i
      BY <1>1, <3>2 DEF TypeOK, Exists
    <3> QED
      BY <3>1, <3>2
  <2> QED
    BY <1>1, <2>1 DEF RulesTyped, Exists
<1>5. PICK gone \in SUBSET RuleIds : gone = {i}
  OBVIOUS
<1>6. \A j \in RuleIds \ gone : /\ runs'[j] = runs[j] /\ (rule[j].built => rule'[j].built)
                                /\ Exists(j) => Exists(j)' /\ rule'[j].config = rule[j].config
  BY <1>1, <1>2, <1>5 DEF Exists
<1>7. \A j \in gone : runs'[j] = <<>>
  BY <1>2, <1>5
<1>8. timers' = {t \in timers : t.id \notin gone}
  BY <1>3, <1>5
<1>9. TypeOK' /\ Driven' /\ StepsBuilt
  BY <1>2, <1>4, <1>6, <1>7, <1>8, RulesChange
<1> QED
  BY <1>1, <1>9

LEMMA SaveWorks ==
  ASSUME TypeOK, Driven, NEW i \in RuleIds, NEW config \in Configs[i], Save(i, config)
  PROVE  /\ TypeOK' /\ Driven' /\ StepsBuilt
         /\ rule'[i].config = config /\ rule'[i].built /\ Buildable(config, there)
         /\ \A j \in RuleIds : j # i => rule'[j] = rule[j]
<1>1. /\ stack = <<>> /\ Buildable(config, there) /\ Replaced(i, New(i, config)) /\ settled' = settled \ {i}
      /\ UNCHANGED <<stack, rebuilds, input, relay, climate, there, held>>
  BY DEF Save, Dispatching, Quiet
<1>2. PICK gen \in Nat \ {0} : gen = Fresh(Gens(i))
  BY NewGen
<1>3. PICK new : new = [config |-> config, enabled |-> TRUE, built |-> TRUE, gen |-> gen]
  OBVIOUS
<1>4. new = New(i, config)
  BY <1>2, <1>3 DEF New
<1>5. config \in Config
  BY AutomationAssumption
<1>6. new \in Held /\ new.gen # 0 /\ new.built /\ new.config = config
  BY <1>3, <1>5 DEF Held
<1>7. WorldTyped'
  BY <1>1 DEF TypeOK, WorldTyped
<1>8. Replaced(i, new)
  BY <1>1, <1>4
<1>9. TypeOK' /\ Driven' /\ StepsBuilt /\ rule'[i] = new /\ \A j \in RuleIds : j # i => rule'[j] = rule[j]
  BY <1>1, <1>6, <1>7, <1>8, ReplacedWorks
<1> QED
  BY <1>1, <1>6, <1>9

LEMMA RemoveWorks ==
  ASSUME TypeOK, Driven, NEW i \in RuleIds, Remove(i)
  PROVE  /\ TypeOK' /\ Driven' /\ StepsBuilt
         /\ ~Exists(i)' /\ \A j \in RuleIds : j # i => rule'[j] = rule[j]
<1>1. /\ stack = <<>> /\ Replaced(i, NoRule) /\ settled' = settled \ {i}
      /\ UNCHANGED <<stack, rebuilds, input, relay, climate, there, held>>
  BY DEF Remove, Dispatching, Quiet
<1>2. PICK new : new = NoRule
  OBVIOUS
<1>3. new.gen = 0
  BY <1>2 DEF NoRule
<1>4. WorldTyped'
  BY <1>1 DEF TypeOK, WorldTyped
<1>5. Replaced(i, new)
  BY <1>1, <1>2
<1>6. TypeOK' /\ Driven' /\ StepsBuilt /\ rule'[i] = new /\ \A j \in RuleIds : j # i => rule'[j] = rule[j]
  BY <1>1, <1>2, <1>3, <1>4, <1>5, ReplacedWorks
<1> QED
  BY <1>3, <1>6 DEF Exists

LEMMA SetEnabledWorks ==
  ASSUME TypeOK, Driven, NEW i \in RuleIds, NEW enable \in BOOLEAN, SetEnabled(i, enable)
  PROVE  /\ TypeOK' /\ Driven' /\ StepsBuilt
         /\ \A j \in RuleIds : /\ Exists(j)' <=> Exists(j)
                               /\ Exists(j) => rule'[j].config = rule[j].config /\ (rule'[j].built <=> rule[j].built)
<1>1. /\ stack = <<>> /\ Exists(i)
      /\ rule' = [rule EXCEPT ![i].enabled = enable]
      /\ runs' = IF enable \/ ~rule[i].built THEN runs ELSE [runs EXCEPT ![i] = <<>>]
      /\ timers' = IF enable \/ ~rule[i].built THEN timers ELSE WithoutTimers(i, timers)
      /\ settled' = settled \ {i}
      /\ UNCHANGED <<stack, rebuilds, input, relay, climate, there, held>>
  BY DEF SetEnabled, Dispatching, Quiet
<1>2. WorldTyped'
  BY <1>1 DEF TypeOK, WorldTyped
<1>3. PICK r \in Held : r = rule[i]
  BY <1>1, RuleFacts
<1>4. PICK new : new = [r EXCEPT !.enabled = enable]
  OBVIOUS
<1>5. new \in Held /\ new.gen = r.gen /\ new.config = r.config /\ (new.built <=> r.built)
  BY <1>4 DEF Held
<1>6. DOMAIN rule' = RuleIds /\ rule'[i] = new /\ \A j \in RuleIds : j # i => rule'[j] = rule[j]
  BY <1>1, <1>3, <1>4 DEF TypeOK
<1>7. RulesTyped'
  <2>1. \A j \in RuleIds : IF rule'[j].gen # 0 THEN rule'[j] \in Held ELSE rule'[j] = NoRule
    <3> SUFFICES ASSUME NEW j \in RuleIds
                 PROVE  IF rule'[j].gen # 0 THEN rule'[j] \in Held ELSE rule'[j] = NoRule
      OBVIOUS
    <3>1. CASE j = i
      BY <1>1, <1>3, <1>5, <1>6, <3>1 DEF Exists
    <3>2. CASE j # i
      BY <1>6, <3>2 DEF TypeOK, Exists
    <3> QED
      BY <3>1, <3>2
  <2> QED
    BY <1>6, <2>1 DEF RulesTyped, Exists
<1>8. \A j \in RuleIds : /\ Exists(j)' <=> Exists(j)
                         /\ rule'[j].config = rule[j].config /\ (rule'[j].built <=> rule[j].built)
  BY <1>3, <1>5, <1>6 DEF Exists
<1>9. PICK gone \in SUBSET RuleIds : gone = IF enable \/ ~rule[i].built THEN {} ELSE {i}
  OBVIOUS
<1>10. /\ DOMAIN runs' = RuleIds /\ runs' = [j \in RuleIds |-> runs'[j]]
       /\ \A j \in gone : runs'[j] = <<>>
       /\ \A j \in RuleIds \ gone : runs'[j] = runs[j]
       /\ timers' = {t \in timers : t.id \notin gone}
  <2>1. CASE enable \/ ~rule[i].built
    BY <1>1, <1>9, <2>1 DEF TypeOK
  <2>2. CASE ~(enable \/ ~rule[i].built)
    <3>1. gone = {i} /\ timers' = {t \in timers : t.id # i} /\ runs' = [runs EXCEPT ![i] = <<>>]
      BY <1>1, <1>9, <2>2, TimersGone
    <3> QED
      BY <3>1 DEF TypeOK
  <2> QED
    BY <2>1, <2>2
<1>11. TypeOK' /\ Driven' /\ StepsBuilt
  BY <1>1, <1>2, <1>7, <1>8, <1>10, RulesChange
<1> QED
  BY <1>8, <1>11

(* What a rule names is what either of its lists moves. *)
LEMMA NamesFacts ==
  ASSUME NEW config \in Config, NEW t
  PROVE  Moves(config.then \o config.else, t) <=> Names(config, t)
<1>1. PICK a \in Seq(Steps) : a = config.then
  BY DEF Config
<1>2. PICK b \in Seq(Steps) : b = config.else
  BY DEF Config
<1>3. PICK c : c = a \o b
  OBVIOUS
<1>4. /\ \A k \in DOMAIN a : k \in DOMAIN c /\ c[k] = a[k]
      /\ \A k \in DOMAIN b : Len(a) + k \in DOMAIN c /\ c[Len(a) + k] = b[k]
      /\ \A k \in DOMAIN c : \/ k \in DOMAIN a /\ c[k] = a[k]
                             \/ k - Len(a) \in DOMAIN b /\ c[k] = b[k - Len(a)]
  BY <1>3
<1>5. Moves(a, t) => Moves(c, t)
  BY <1>4 DEF Moves
<1>6. Moves(b, t) => Moves(c, t)
  <2> SUFFICES ASSUME NEW k \in DOMAIN b, b[k].type = "climate", b[k].target = t
               PROVE  Moves(c, t)
    BY Zenon DEF Moves
  <2>1. PICK l : l = Len(a) + k
    OBVIOUS
  <2>2. l \in DOMAIN c /\ c[l] = b[k]
    BY <1>4, <2>1
  <2> QED
    BY <2>2, Zenon DEF Moves
<1>7. Moves(c, t) => (Moves(a, t) \/ Moves(b, t))
  BY <1>4 DEF Moves
<1> QED
  BY <1>1, <1>2, <1>3, <1>5, <1>6, <1>7 DEF Names

LEMMA BuildableFacts ==
  ASSUME NEW config \in Config, NEW hub
  PROVE  Buildable(config, hub) <=> \A t \in Climates : Names(config, t) => t \in hub
BY NamesFacts DEF Buildable

LEMMA RebuildWorks ==
  ASSUME TypeOK, Driven, stack = <<>>, NEW t \in Climates, NEW hub, Rebuild(t, hub),
         UNCHANGED <<stack, input, relay, climate, held>>, rebuilds' \subseteq Climates, there' \subseteq Climates
  PROVE  /\ TypeOK' /\ Driven' /\ StepsBuilt
         /\ \A i \in RuleIds :
              /\ Exists(i)' <=> Exists(i)
              /\ Exists(i) => /\ rule'[i].config = rule[i].config
                              /\ rule'[i].built <=> IF Names(rule[i].config, t) THEN Buildable(rule[i].config, hub)
                                                    ELSE rule[i].built
<1> DEFINE named == {i \in RuleIds : Exists(i) /\ Names(rule[i].config, t)}
           drop == {i \in named : rule[i].built /\ ~Buildable(rule[i].config, hub)}
           make == {i \in named : ~rule[i].built /\ Buildable(rule[i].config, hub)}
<1>1. /\ rule' = [i \in RuleIds |->
           IF i \in drop THEN [rule[i] EXCEPT !.built = FALSE]
           ELSE IF i \in make THEN [rule[i] EXCEPT !.built = TRUE, !.gen = Fresh(Gens(i))]
           ELSE rule[i]]
      /\ runs' = [i \in RuleIds |-> IF i \in drop THEN <<>> ELSE runs[i]]
      /\ timers' = {x \in timers : x.id \in drop => x \in WithoutTimers(x.id, timers)}
      /\ settled' = settled \ (drop \cup make)
  BY Zenon DEF Rebuild
<1>2. WorldTyped'
  <2>1. settled' \subseteq RuleIds
    BY <1>1 DEF TypeOK
  <2> QED
    BY <2>1 DEF TypeOK, WorldTyped
<1>3. ASSUME NEW i \in RuleIds
      PROVE  /\ IF rule'[i].gen # 0 THEN rule'[i] \in Held ELSE rule'[i] = NoRule
             /\ Exists(i)' <=> Exists(i)
             /\ i \notin drop /\ rule[i].built => rule'[i].built
             /\ Exists(i) => /\ rule'[i].config = rule[i].config
                             /\ rule'[i].built <=> IF Names(rule[i].config, t) THEN Buildable(rule[i].config, hub)
                                                   ELSE rule[i].built
  <2>1. CASE i \in drop
    <3>1. PICK r \in Held : r = rule[i]
      BY <2>1, RuleFacts
    <3>2. PICK new : new = [r EXCEPT !.built = FALSE]
      OBVIOUS
    <3>3. new \in Held /\ new.gen = r.gen /\ new.config = r.config /\ ~new.built /\ r.gen # 0
      BY <3>2 DEF Held
    <3>4. rule'[i] = new
      BY <1>1, <2>1, <3>1, <3>2
    <3> QED
      BY <2>1, <3>1, <3>3, <3>4 DEF Exists
  <2>2. CASE i \in make
    <3>1. PICK r \in Held : r = rule[i]
      BY <2>2, RuleFacts
    <3>2. PICK gen \in Nat \ {0} : gen = Fresh(Gens(i))
      BY NewGen
    <3>3. PICK new : new = [r EXCEPT !.built = TRUE, !.gen = gen]
      OBVIOUS
    <3>4. new \in Held /\ new.gen = gen /\ new.config = r.config /\ new.built
      BY <3>3 DEF Held
    <3>5. i \notin drop
      BY <2>2
    <3>6. rule'[i] = new
      BY <1>1, <2>2, <3>1, <3>2, <3>3, <3>5
    <3> QED
      BY <2>2, <3>1, <3>4, <3>6 DEF Exists
  <2>3. CASE i \notin drop /\ i \notin make
    <3>1. rule'[i] = rule[i]
      BY <1>1, <2>3
    <3>2. Exists(i) /\ Names(rule[i].config, t) => (rule[i].built <=> Buildable(rule[i].config, hub))
      BY <2>3
    <3>3. IF rule[i].gen # 0 THEN rule[i] \in Held ELSE rule[i] = NoRule
      BY DEF TypeOK, Exists
    <3> QED
      BY <3>1, <3>2, <3>3 DEF Exists
  <2> QED
    BY <2>1, <2>2, <2>3
<1>4. RulesTyped'
  <2>1. DOMAIN rule' = RuleIds
    BY <1>1
  <2> QED
    BY <1>3, <2>1 DEF RulesTyped, Exists
<1>5. PICK gone \in SUBSET RuleIds : gone = drop
  OBVIOUS
<1>6. /\ DOMAIN runs' = RuleIds /\ runs' = [i \in RuleIds |-> runs'[i]]
      /\ \A i \in gone : runs'[i] = <<>>
      /\ \A i \in RuleIds \ gone : runs'[i] = runs[i]
  BY <1>1, <1>5
<1>7. timers' = {x \in timers : x.id \notin gone}
  <2>1. \A x \in timers : x.id \in gone => x \notin WithoutTimers(x.id, timers)
    BY TimersGone
  <2> QED
    BY <1>1, <1>5, <2>1
<1>8. \A i \in RuleIds \ gone : /\ runs'[i] = runs[i] /\ (rule[i].built => rule'[i].built)
                                /\ Exists(i) => Exists(i)' /\ rule'[i].config = rule[i].config
  BY <1>3, <1>5, <1>6
<1>9. TypeOK' /\ Driven' /\ StepsBuilt
  BY <1>2, <1>4, <1>6, <1>7, <1>8, RulesChange
<1> QED
  BY <1>3, <1>9
-----------------------------------------------------------------------------
(* Rules stay under their steps, and built when their thermostats are there *)

LEMMA StepsStay ==
  ASSUME NotPulledAway, UNCHANGED rule, StepsBuilt
  PROVE  NotPulledAway'
<1> SUFFICES ASSUME NEW n \in DOMAIN stack', stack'[n].kind = "step"
             PROVE  rule[stack'[n].id].built /\ rule[stack'[n].id].gen = stack'[n].gen
  BY DEF NotPulledAway
<1>1. CASE n \in DOMAIN stack /\ stack[n] = stack'[n]
  BY <1>1 DEF NotPulledAway
<1> QED
  BY <1>1 DEF StepsBuilt

LEMMA NoSteps ==
  ASSUME stack' = <<>>
  PROVE  NotPulledAway'
<1>1. DOMAIN stack' = {}
  OBVIOUS
<1> QED
  BY <1>1 DEF NotPulledAway

LEMMA BuiltStays ==
  ASSUME BuiltUnlessPending, UNCHANGED <<rebuilds, there>>,
         \A i \in RuleIds : Exists(i)' =>
           \/ /\ Exists(i) /\ rule'[i].config = rule[i].config /\ (rule'[i].built <=> rule[i].built)
           \/ rule'[i].built /\ Buildable(rule'[i].config, there)
  PROVE  BuiltUnlessPending'
<1> SUFFICES ASSUME NEW i \in RuleIds, Exists(i)', ~Pending(i)'
             PROVE  rule'[i].built <=> Buildable(rule'[i].config, there)
  BY DEF BuiltUnlessPending
<1>1. CASE rule'[i].built /\ Buildable(rule'[i].config, there)
  BY <1>1
<1>2. CASE Exists(i) /\ rule'[i].config = rule[i].config /\ (rule'[i].built <=> rule[i].built)
  <2>1. ~Pending(i)
    BY <1>2 DEF Pending
  <2> QED
    BY <1>2, <2>1 DEF BuiltUnlessPending
<1> QED
  BY <1>1, <1>2

LEMMA RebuildBuilt ==
  ASSUME TypeOK, BuiltUnlessPending, NEW t \in Climates, rebuilds \subseteq rebuilds' \cup {t},
         \A x \in Climates : x # t => (x \in there' <=> x \in there),
         \A i \in RuleIds :
              /\ Exists(i)' <=> Exists(i)
              /\ Exists(i) => /\ rule'[i].config = rule[i].config
                              /\ rule'[i].built <=> IF Names(rule[i].config, t) THEN Buildable(rule[i].config, there')
                                                    ELSE rule[i].built
  PROVE  BuiltUnlessPending'
<1> SUFFICES ASSUME NEW i \in RuleIds, Exists(i)', ~Pending(i)'
             PROVE  rule'[i].built <=> Buildable(rule'[i].config, there')
  BY DEF BuiltUnlessPending
<1>1. PICK c \in Config : c = rule[i].config /\ c = rule'[i].config
  BY RuleFacts
<1>2. CASE Names(c, t)
  BY <1>1, <1>2
<1>3. CASE ~Names(c, t)
  <2>1. \A x \in rebuilds' : ~Names(c, x)
    BY <1>1 DEF Pending
  <2>2. ~Pending(i)
    BY <1>1, <1>3, <2>1 DEF Pending
  <2>3. rule[i].built <=> Buildable(c, there)
    BY <1>1, <2>2 DEF BuiltUnlessPending
  <2>4. Buildable(c, there') <=> Buildable(c, there)
    <3>1. PICK hub : hub = there'
      OBVIOUS
    <3>2. Buildable(c, hub) <=> \A x \in Climates : Names(c, x) => x \in hub
      BY BuildableFacts
    <3>3. Buildable(c, there) <=> \A x \in Climates : Names(c, x) => x \in there
      BY BuildableFacts
    <3> QED
      BY <1>3, <3>1, <3>2, <3>3
  <2> QED
    BY <1>1, <1>3, <2>3, <2>4
<1> QED
  BY <1>2, <1>3

LEMMA RebuildsWorks ==
  ASSUME TypeOK, Driven, BuiltUnlessPending, NEW t \in Climates, Rebuilds(t)
  PROVE  TypeOK' /\ Driven' /\ NotPulledAway' /\ BuiltUnlessPending'
<1>1. /\ stack = <<>> /\ rebuilds' = rebuilds \ {t} /\ Rebuild(t, there)
      /\ UNCHANGED <<stack, input, relay, climate, there, held>>
  BY DEF Rebuilds, Quiet
<1>2. rebuilds' \subseteq Climates /\ there' \subseteq Climates
  BY <1>1 DEF TypeOK
<1>3. PICK hub : hub = there
  OBVIOUS
<1>4. /\ TypeOK' /\ Driven'
      /\ \A i \in RuleIds :
           /\ Exists(i)' <=> Exists(i)
           /\ Exists(i) => /\ rule'[i].config = rule[i].config
                           /\ rule'[i].built <=> IF Names(rule[i].config, t) THEN Buildable(rule[i].config, hub)
                                                 ELSE rule[i].built
  BY <1>1, <1>2, <1>3, RebuildWorks
<1>5. BuiltUnlessPending'
  <2>1. /\ rebuilds \subseteq rebuilds' \cup {t} /\ there' = hub
        /\ \A x \in Climates : x # t => (x \in there' <=> x \in there)
    BY <1>1, <1>3
  <2> QED
    BY <1>4, <2>1, RebuildBuilt
<1> QED
  BY <1>1, <1>4, <1>5, NoSteps

LEMMA ClimateChangeWorks ==
  ASSUME TypeOK, Driven, NotPulledAway, BuiltUnlessPending, NEW t \in Climates, ClimateChange(t)
  PROVE  TypeOK' /\ Driven' /\ NotPulledAway' /\ BuiltUnlessPending'
<1>1. /\ there' = IF t \in there THEN there \ {t} ELSE there \cup {t}
      /\ UNCHANGED <<stack, input, relay, climate, held>>
  BY DEF ClimateChange
<1>2. there' \subseteq Climates /\ \A x \in Climates : x # t => (x \in there' <=> x \in there)
  BY <1>1 DEF TypeOK
<1>3. CASE MustWait
  <2>1. rebuilds' = rebuilds \cup {t} /\ UNCHANGED <<rule, runs, timers, settled>>
    BY <1>3 DEF ClimateChange
  <2>2. KeepsSteps /\ NoNewSteps /\ StepsBuilt
    BY <1>1, StackKept
  <2>3. SameRuns
    BY <2>1 DEF SameRuns
  <2>4. Driven'
    BY <2>1, <2>2, <2>3, NothingDriven
  <2>5. WorldTyped'
    BY <1>1, <1>2, <2>1 DEF TypeOK, WorldTyped
  <2>6. TypeOK'
    BY <1>1, <2>1, <2>5, WorkKept, TypeFromParts DEF WorkTyped
  <2>7. BuiltUnlessPending'
    <3> SUFFICES ASSUME NEW i \in RuleIds, Exists(i)', ~Pending(i)'
                 PROVE  rule[i].built <=> Buildable(rule[i].config, there')
      BY <2>1 DEF BuiltUnlessPending
    <3>1. Exists(i) /\ ~Pending(i) /\ ~Names(rule[i].config, t)
      BY <2>1 DEF Exists, Pending
    <3>2. PICK c \in Config : c = rule[i].config
      BY <3>1, RuleFacts
    <3>3. rule[i].built <=> Buildable(c, there)
      BY <3>1, <3>2 DEF BuiltUnlessPending
    <3>4. PICK hub : hub = there'
      OBVIOUS
    <3>5. Buildable(c, hub) <=> \A x \in Climates : Names(c, x) => x \in hub
      BY BuildableFacts
    <3>6. Buildable(c, there) <=> \A x \in Climates : Names(c, x) => x \in there
      BY BuildableFacts
    <3>7. Buildable(c, hub) <=> Buildable(c, there)
      BY <1>2, <3>1, <3>2, <3>4, <3>5, <3>6
    <3> QED
      BY <3>2, <3>3, <3>4, <3>7
  <2> QED
    BY <2>1, <2>2, <2>4, <2>6, <2>7, StepsStay
<1>4. CASE ~MustWait
  <2>1. stack = <<>> /\ UNCHANGED rebuilds /\ Rebuild(t, there')
    BY <1>4 DEF ClimateChange, MustWait, Dispatching, Quiet
  <2>2. PICK hub : hub = there'
    OBVIOUS
  <2>3. Rebuild(t, hub)
    BY <2>1, <2>2
  <2>4. rebuilds' \subseteq Climates
    BY <2>1 DEF TypeOK
  <2>5. /\ TypeOK' /\ Driven'
        /\ \A i \in RuleIds :
             /\ Exists(i)' <=> Exists(i)
             /\ Exists(i) => /\ rule'[i].config = rule[i].config
                             /\ rule'[i].built <=> IF Names(rule[i].config, t) THEN Buildable(rule[i].config, hub)
                                                   ELSE rule[i].built
    BY <1>1, <1>2, <2>1, <2>3, <2>4, RebuildWorks
  <2>6. BuiltUnlessPending'
    BY <1>2, <2>1, <2>2, <2>5, RebuildBuilt
  <2> QED
    BY <1>1, <2>1, <2>5, <2>6, NoSteps
<1> QED
  BY <1>3, <1>4
-----------------------------------------------------------------------------
(* The invariant *)

RInv == TypeOK /\ Driven /\ NotPulledAway /\ BuiltUnlessPending

LEMMA InitRuns ==
  ASSUME Init
  PROVE  RInv
<1>1. /\ rule = [i \in RuleIds |-> NoRule] /\ runs = [i \in RuleIds |-> <<>>]
      /\ timers = {} /\ stack = <<>> /\ rebuilds = {}
      /\ input = [b \in Inputs |-> FALSE] /\ relay = [r \in Relays |-> FALSE]
      /\ climate = [t \in Climates |-> FALSE] /\ there = {} /\ held = {} /\ settled = {}
  BY DEF Init
<1>2. \A i \in RuleIds : rule[i] = NoRule /\ ~Exists(i)
  BY <1>1 DEF NoRule, Exists
<1>3. DOMAIN <<>> = {} /\ <<>> \in Seq(Run) /\ <<>> \in Seq(Frame)
  OBVIOUS
<1>4. DOMAIN stack = {} /\ \A i \in RuleIds : DOMAIN runs[i] = {}
  <2>1. \A i \in RuleIds : runs[i] = <<>>
    BY <1>1
  <2> QED
    BY <1>1, <1>3, <2>1, Zenon
<1>5. runs \in [RuleIds -> Seq(Run)]
  <2>1. PICK none \in Seq(Run) : none = <<>>
    BY <1>3
  <2>2. runs = [i \in RuleIds |-> none]
    BY <1>1, <2>1
  <2> QED
    BY <2>2
<1>6. IsFiniteSet(timers)
  BY <1>1, FS_EmptySet
<1>7. /\ input \in [Inputs -> BOOLEAN] /\ relay \in [Relays -> BOOLEAN] /\ climate \in [Climates -> BOOLEAN]
  BY <1>1
<1>8. DOMAIN rule = RuleIds /\ \A i \in RuleIds : IF Exists(i) THEN rule[i] \in Held ELSE rule[i] = NoRule
  BY <1>1, <1>2
<1>9. TypeOK
  BY <1>1, <1>3, <1>4, <1>5, <1>6, <1>7, <1>8 DEF TypeOK
<1>10. Driven
  BY <1>1, <1>4 DEF Driven, OnlyBuiltRun, ToldApart, SteppedOnce, OneDriver, OwnTimers
<1> QED
  BY <1>2, <1>4, <1>9, <1>10 DEF RInv, NotPulledAway, BuiltUnlessPending

(* The rules stay as they are. *)
LEMMA RulesKept ==
  ASSUME RInv, TypeOK', Driven', StepsBuilt, UNCHANGED <<rule, rebuilds, there>>
  PROVE  RInv'
<1>1. NotPulledAway'
  BY StepsStay DEF RInv
<1>2. BuiltUnlessPending'
  <2>1. \A i \in RuleIds : Exists(i)' => /\ Exists(i) /\ rule'[i].config = rule[i].config
                                         /\ (rule'[i].built <=> rule[i].built)
    BY DEF Exists
  <2> QED
    BY <2>1, BuiltStays DEF RInv
<1> QED
  BY <1>1, <1>2 DEF RInv

LEMMA NextRuns ==
  ASSUME RInv, Next
  PROVE  RInv'
<1>0. TypeOK /\ Driven /\ NotPulledAway /\ BuiltUnlessPending
  BY DEF RInv
<1>1. ASSUME OfferNext PROVE RInv'
  BY <1>0, <1>1, OfferNextWorks, RulesKept DEF OfferNext
<1>2. ASSUME PlaySwitch PROVE RInv'
  BY <1>0, <1>2, PlaySwitchWorks, RulesKept DEF PlaySwitch
<1>3. ASSUME Wait PROVE RInv'
  BY <1>0, <1>3, WaitWorks, RulesKept DEF Wait
<1>4. ASSUME PlayClimate PROVE RInv'
  BY <1>0, <1>4, PlayClimateWorks, RulesKept DEF PlayClimate
<1>5. ASSUME EndRun PROVE RInv'
  BY <1>0, <1>5, EndRunWorks, RulesKept DEF EndRun
<1>6. ASSUME LeaveRun PROVE RInv'
  BY <1>0, <1>6, LeaveRunWorks, RulesKept DEF LeaveRun
<1>7. ASSUME NEW t \in timers, TimerFires(t) PROVE RInv'
  BY <1>0, <1>7, TimerFiresWorks, RulesKept DEF TimerFires
<1>8. ASSUME NEW i \in RuleIds, RunNow(i) PROVE RInv'
  BY <1>0, <1>8, RunNowWorks, RulesKept DEF RunNow
<1>9. ASSUME NEW i \in RuleIds, Remove(i) PROVE RInv'
  <2>1. /\ TypeOK' /\ Driven'
        /\ ~Exists(i)' /\ \A j \in RuleIds : j # i => rule'[j] = rule[j]
    BY <1>0, <1>9, RemoveWorks
  <2>2. stack' = <<>> /\ UNCHANGED <<rebuilds, there>>
    BY <1>9 DEF Remove, Dispatching, Quiet
  <2>3. BuiltUnlessPending'
    <3>1. \A j \in RuleIds : Exists(j)' => /\ Exists(j) /\ rule'[j].config = rule[j].config
                                           /\ (rule'[j].built <=> rule[j].built)
      BY <2>1 DEF Exists
    <3> QED
      BY <1>0, <2>2, <3>1, BuiltStays
  <2> QED
    BY <2>1, <2>2, <2>3, NoSteps DEF RInv
<1>10. ASSUME NEW i \in RuleIds, NEW config \in Configs[i], Save(i, config) PROVE RInv'
  <2>1. /\ TypeOK' /\ Driven'
        /\ rule'[i].config = config /\ rule'[i].built /\ Buildable(config, there)
        /\ \A j \in RuleIds : j # i => rule'[j] = rule[j]
    BY <1>0, <1>10, SaveWorks
  <2>2. stack' = <<>> /\ UNCHANGED <<rebuilds, there>>
    BY <1>10 DEF Save, Dispatching, Quiet
  <2>3. BuiltUnlessPending'
    <3>1. \A j \in RuleIds : Exists(j)' =>
            \/ /\ Exists(j) /\ rule'[j].config = rule[j].config /\ (rule'[j].built <=> rule[j].built)
            \/ rule'[j].built /\ Buildable(rule'[j].config, there)
      BY <2>1 DEF Exists
    <3> QED
      BY <1>0, <2>2, <3>1, BuiltStays
  <2> QED
    BY <2>1, <2>2, <2>3, NoSteps DEF RInv
<1>11. ASSUME NEW i \in RuleIds, NEW enable \in BOOLEAN, SetEnabled(i, enable) PROVE RInv'
  <2>1. /\ TypeOK' /\ Driven'
        /\ \A j \in RuleIds : /\ Exists(j)' <=> Exists(j)
                              /\ Exists(j) => rule'[j].config = rule[j].config /\ (rule'[j].built <=> rule[j].built)
    BY <1>0, <1>11, SetEnabledWorks
  <2>2. stack' = <<>> /\ UNCHANGED <<rebuilds, there>>
    BY <1>11 DEF SetEnabled, Dispatching, Quiet
  <2>3. BuiltUnlessPending'
    BY <1>0, <2>1, <2>2, BuiltStays
  <2> QED
    BY <2>1, <2>2, <2>3, NoSteps DEF RInv
<1>12. ASSUME NEW t \in Climates, ClimateChange(t) PROVE RInv'
  BY <1>0, <1>12, ClimateChangeWorks DEF RInv
<1>13. ASSUME NEW t \in Climates, Rebuilds(t) PROVE RInv'
  BY <1>0, <1>13, RebuildsWorks DEF RInv
<1>14. ASSUME NEW b \in Inputs, NEW level \in BOOLEAN, InputMoves(b, level) PROVE RInv'
  BY <1>0, <1>14, InputMovesWorks, RulesKept DEF InputMoves
<1>15. ASSUME NEW r \in Relays, Hold(r) PROVE RInv'
  BY <1>0, <1>15, HoldWorks, RulesKept DEF Hold
<1>16. ASSUME NEW r \in Relays, RelayMoves(r) PROVE RInv'
  BY <1>0, <1>16, RelayMovesWorks, RulesKept DEF RelayMoves
<1> QED
  BY <1>1, <1>2, <1>3, <1>4, <1>5, <1>6, <1>7, <1>8, <1>9, <1>10, <1>11, <1>12, <1>13, <1>14, <1>15, <1>16, Zenon
     DEF Next

LEMMA StutterRuns ==
  ASSUME RInv, UNCHANGED vars
  PROVE  RInv'
BY DEF vars, RInv, TypeOK, Exists, Driven, OnlyBuiltRun, ToldApart, SteppedOnce, IsStep, OneDriver, Timed, Stepped,
       OwnTimers, NotPulledAway, BuiltUnlessPending, Pending

LEMMA RunsInvariant == Spec => []RInv
<1>1. Init => RInv
  BY InitRuns
<1>2. RInv /\ [Next]_vars => RInv'
  BY NextRuns, StutterRuns
<1> QED
  BY <1>1, <1>2, PTL DEF Spec
-----------------------------------------------------------------------------
(* Relays that follow an input *)

(* A rule's last step, the follow of Follows, moves this relay. *)
Target(config) == config.then[Len(config.then)].target
Writes(config, r) ==
  \E branch \in {"then", "else"} : \E k \in DOMAIN config[branch] :
    config[branch][k].type = "switch" /\ config[branch][k].target = r
(* No other rule moves the relay of a rule that follows. *)
FollowersApart ==
  \A i, j \in RuleIds : i # j /\ Exists(i) /\ Exists(j) /\ Follows(rule[i].config) =>
    ~Writes(rule[j].config, Target(rule[i].config))

(* An input does not move while a move of it is offered. *)
OffersTrue ==
  \A n \in DOMAIN stack : stack[n].kind = "offer" /\ stack[n].entity \in Inputs => stack[n].state = input[stack[n].entity]
(* A rule that follows has one run at most, of its first list. *)
OneRunOf(i) ==
  Exists(i) /\ Follows(rule[i].config) => Len(runs[i]) <= 1 /\ \A k \in DOMAIN runs[i] : runs[i][k].branch = "then"
(* It has yet to hear of the last edge, or its run knows of it or has played  *)
(* the follow.                                                                *)
Unheard(i) == \E n \in DOMAIN stack : stack[n].kind = "offer" /\ stack[n].entity = rule[i].config.on /\ stack[n].next <= i
Playing(i) == \E k \in DOMAIN runs[i] : runs[i][k].cursor < Len(rule[i].config.then)
Heard(i) ==
  IF Playing(i) THEN \A k \in DOMAIN runs[i] : runs[i][k].hasState = TRUE /\ runs[i][k].state = input[rule[i].config.on]
                ELSE relay[Target(rule[i].config)] = input[rule[i].config.on]
LandsOf(i) == i \in settled => rule[i].built /\ Follows(rule[i].config) /\ (Unheard(i) \/ Heard(i))
FollowInv == OffersTrue /\ \A i \in RuleIds : OneRunOf(i) /\ LandsOf(i)
-----------------------------------------------------------------------------
(* What an action leaves of the events offered. *)
KeepsOffers ==
  \A n \in DOMAIN stack : stack[n].kind = "offer" => n \in DOMAIN stack' /\ stack'[n] = stack[n]
NoNewOffers ==
  \A n \in DOMAIN stack' : stack'[n].kind = "offer" =>
    \/ stack'[n].entity \notin Inputs
    \/ n \in DOMAIN stack /\ stack[n].kind = "offer" /\ stack'[n].entity = stack[n].entity /\ stack'[n].state = stack[n].state

LEMMA OffersStayTrue ==
  ASSUME OffersTrue, NoNewOffers, UNCHANGED input
  PROVE  OffersTrue'
BY DEF OffersTrue, NoNewOffers

LEMMA StaysUnheard ==
  ASSUME KeepsOffers, NEW i, rule'[i].config = rule[i].config
  PROVE  Unheard(i) => Unheard(i)'
BY DEF KeepsOffers, Unheard

(* A rule the action has nothing to do with. *)
LEMMA LeftAlone ==
  ASSUME NEW i \in RuleIds, OneRunOf(i), LandsOf(i), UNCHANGED runs[i], rule'[i].config = rule[i].config, Exists(i)' => Exists(i),
         rule[i].built => rule'[i].built, i \in settled' => i \in settled,
         Unheard(i) => Unheard(i)', Unheard(i)' \/ input'[rule[i].config.on] = input[rule[i].config.on],
         i \in settled /\ Follows(rule[i].config) => relay'[Target(rule[i].config)] = relay[Target(rule[i].config)]
  PROVE  OneRunOf(i)' /\ LandsOf(i)'
<1>1. PICK c : c = rule[i].config OBVIOUS
<1>2. rule'[i].config = c BY <1>1
<1>3. OneRunOf(i)'
  <2>1. Exists(i) /\ Follows(c) => Len(runs[i]) <= 1 /\ \A k \in DOMAIN runs[i] : runs[i][k].branch = "then" BY <1>1 DEF OneRunOf
  <2>2. QED BY <1>2, <2>1 DEF OneRunOf
<1>4. LandsOf(i)'
  <2>1. SUFFICES ASSUME i \in settled' PROVE rule'[i].built /\ Follows(c) /\ (Unheard(i)' \/ Heard(i)')
    BY <1>2, Zenon DEF LandsOf
  <2>2. i \in settled /\ rule[i].built /\ Follows(c) /\ (Unheard(i) \/ Heard(i)) BY <1>1, <2>1 DEF LandsOf
  <2>3. Heard(i) /\ ~Unheard(i)' => Heard(i)'
    <3>1. Playing(i)' <=> Playing(i) BY <1>1, <1>2 DEF Playing
    <3>2. relay'[Target(c)] = relay[Target(c)] BY <1>1, <2>2
    <3>3. QED BY <1>1, <1>2, <3>1, <3>2 DEF Heard
  <2>4. QED BY <2>2, <2>3
<1>5. QED BY <1>3, <1>4

(* A rule that is put aside. *)
LEMMA PutAside ==
  ASSUME NEW i \in RuleIds, runs'[i] = <<>>, i \notin settled'
  PROVE  OneRunOf(i)' /\ LandsOf(i)'
BY DEF OneRunOf, LandsOf
-----------------------------------------------------------------------------
(* The stack *)

LEMMA OffersGrow ==
  ASSUME TypeOK, NEW t \in Seq(Frame), stack' = stack \o t, \A k \in DOMAIN t : t[k].kind = "offer" => t[k].entity \notin Inputs
  PROVE  KeepsOffers /\ NoNewOffers
<1>1. stack \in Seq(Frame) BY DEF TypeOK
<1>2. QED BY <1>1, Pushed DEF KeepsOffers, NoNewOffers

LEMMA StepGone ==
  ASSUME TypeOK, stack # <<>>, Top.kind = "step", stack' = Below
  PROVE  KeepsOffers /\ NoNewOffers
BY BelowFacts DEF KeepsOffers, NoNewOffers

LEMMA SameOffers == ASSUME UNCHANGED stack PROVE KeepsOffers /\ NoNewOffers
BY DEF KeepsOffers, NoNewOffers
-----------------------------------------------------------------------------
(* A rule that follows, at its own step *)

LEMMA FollowsFacts ==
  ASSUME NEW config \in Config, Follows(config)
  PROVE  /\ config.then \in Seq(Steps) /\ Len(config.then) \in Nat /\ Len(config.then) # 0
         /\ config.mode = "single" \/ config.mode = "restart"
         /\ config.on \in Inputs /\ Target(config) \in Relays
         /\ config.then[Len(config.then)].type = "switch" /\ config.then[Len(config.then)].what = "follow"
<1>1. config.then \in Seq(Steps) /\ config.mode \in {"single", "restart", "parallel"} BY DEF Config
<1>2. config.then # <<>> BY DEF Follows
<1>3. Len(config.then) \in Nat /\ Len(config.then) # 0 BY <1>1, <1>2
<1>4. config.then[Len(config.then)] \in Steps BY <1>1, <1>3
<1>5. Target(config) \in Relays BY <1>4, StepFacts DEF Follows, Target
<1>6. QED BY <1>1, <1>3, <1>5 DEF Follows

LEMMA OwnRun ==
  ASSUME TypeOK, Live, NEW i, i = Top.id, Follows(rule[i].config), OneRunOf(i)
  PROVE  /\ i \in RuleIds /\ FindRun(i, Top.token) = 1 /\ Len(runs[i]) = 1 /\ DOMAIN runs[i] = {1} /\ runs[i][1] \in Run
         /\ Current = runs[i][1] /\ List = rule[i].config.then /\ rule[i].config \in Config /\ Exists(i)
         /\ Current.cursor \in Nat /\ Current.cursor <= Len(rule[i].config.then)
         /\ Playing(i) <=> Current.cursor < Len(rule[i].config.then)
<1>1. PICK k : k = FindRun(i, Top.token) OBVIOUS
<1>2. /\ i \in RuleIds /\ k \in DOMAIN runs[i] /\ Current = runs[i][k] /\ runs[i][k] \in Run /\ Exists(i)
      /\ rule[i].config \in Config /\ Current.cursor <= Len(List)
  BY <1>1, LiveFacts
<1>3. PICK rs \in Seq(Run) : rs = runs[i] BY <1>2, RuleFacts
<1>4. Len(rs) <= 1 /\ runs[i][k].branch = "then" BY <1>2, <1>3 DEF OneRunOf
<1>5. Len(rs) = 1 /\ DOMAIN rs = {1} /\ k = 1
  <2>1. PICK n \in Nat : n = Len(rs) /\ DOMAIN rs = 1..n BY <1>3
  <2>2. k \in 1..n /\ n <= 1 BY <1>2, <1>3, <1>4, <2>1
  <2>3. n = 1 /\ k = 1 BY <2>2
  <2>4. 1..1 = {1} OBVIOUS
  <2>5. QED BY <2>1, <2>3, <2>4
<1>6. List = rule[i].config.then
  <2>1. List = rule[i].config[runs[i][k].branch] BY <1>1, <1>2 DEF List
  <2>2. rule[i].config["then"] = rule[i].config.then OBVIOUS
  <2>3. QED BY <1>4, <2>1, <2>2
<1>7. Current.cursor \in Nat BY <1>2, RunFacts
<1>8. Playing(i) <=> Current.cursor < Len(rule[i].config.then) BY <1>2, <1>3, <1>5 DEF Playing
<1>9. QED BY <1>1, <1>2, <1>3, <1>5, <1>6, <1>7, <1>8

LEMMA MovedState ==
  ASSUME TypeOK, NEW i \in RuleIds, NEW k \in DOMAIN runs[i], NEW moved, moved = Moved(i, k)
  PROVE  moved[i][k].hasState = runs[i][k].hasState /\ moved[i][k].state = runs[i][k].state
<1>1. PICK rs \in Seq(Run) : rs = runs[i] BY RuleFacts
<1>2. PICK r \in Run : r = rs[k] BY <1>1
<1>3. PICK c \in Nat : c = r.cursor + 1 BY <1>2, RunFacts
<1>4. PICK new : new = [r EXCEPT !.cursor = c] OBVIOUS
<1>5. new.hasState = r.hasState /\ new.state = r.state BY <1>4 DEF Run
<1>6. PICK put : put = [rs EXCEPT ![k] = new] OBVIOUS
<1>7. put[k] = new BY <1>1, <1>6
<1>8. moved[i] = put
  <2>1. moved = [runs EXCEPT ![i] = put] BY <1>1, <1>2, <1>3, <1>4, <1>6 DEF Moved
  <2>2. DOMAIN runs = RuleIds BY DEF TypeOK
  <2>3. QED BY <2>1, <2>2
<1>9. QED BY <1>1, <1>2, <1>5, <1>7, <1>8

(* A step of the rule's own but a switch's, or one of another rule. *)
LEMMA OtherRunMoves ==
  ASSUME TypeOK, Live, runs' = Moved(Top.id, FindRun(Top.id, Top.token)), NEW j \in RuleIds, j # Top.id
  PROVE  runs'[j] = runs[j]
<1>1. PICK i, k : i = Top.id /\ k = FindRun(Top.id, Top.token) OBVIOUS
<1>2. i \in RuleIds /\ k \in DOMAIN runs[i] BY <1>1, LiveFacts
<1>3. PICK moved : moved = Moved(i, k) OBVIOUS
<1>4. moved[j] = runs[j] BY <1>1, <1>2, <1>3, MovedFacts
<1>5. QED BY <1>1, <1>3, <1>4

LEMMA OwnRunMoves ==
  ASSUME TypeOK, Live, runs' = Moved(Top.id, FindRun(Top.id, Top.token)), UNCHANGED rule, NEW i, i = Top.id,
         Follows(rule[i].config), OneRunOf(i), Current.cursor < Len(List)
  PROVE  /\ OneRunOf(i)' /\ DOMAIN runs'[i] = {1}
         /\ runs'[i][1].cursor = Current.cursor + 1
         /\ runs'[i][1].hasState = Current.hasState /\ runs'[i][1].state = Current.state
<1>1. /\ i \in RuleIds /\ FindRun(i, Top.token) = 1 /\ Len(runs[i]) = 1 /\ DOMAIN runs[i] = {1}
      /\ Current = runs[i][1]
  BY OwnRun
<1>2. PICK moved : moved = Moved(i, 1) OBVIOUS
<1>3. runs' = moved BY <1>1, <1>2
<1>4. /\ DOMAIN moved[i] = {1} /\ moved[i] \in Seq(Run) /\ moved[i][1].cursor = runs[i][1].cursor + 1
      /\ moved[i][1].branch = runs[i][1].branch
      /\ moved[i][1].hasState = runs[i][1].hasState /\ moved[i][1].state = runs[i][1].state
  <2>1. 1 \in DOMAIN runs[i] BY <1>1
  <2>2. QED BY <1>1, <1>2, <2>1, MovedFacts, MovedState
<1>5. Len(moved[i]) = 1
  <2>1. PICK m \in Seq(Run) : m = moved[i] BY <1>4
  <2>2. PICK n \in Nat : n = Len(m) /\ DOMAIN m = 1..n BY <2>1
  <2>3. 1..n = {1} BY <1>4, <2>1, <2>2
  <2>4. n = 1
    <3>1. n >= 1 /\ (n >= 2 => 2 \in 1..n) BY <2>3
    <3>2. QED BY <2>2, <2>3, <3>1
  <2>5. QED BY <2>1, <2>2, <2>4
<1>6. runs[i][1].branch = "then" /\ Exists(i)
  <2>1. Exists(i) BY OwnRun
  <2>2. 1 \in DOMAIN runs[i] BY <1>1
  <2>3. QED BY <2>1, <2>2 DEF OneRunOf
<1>7. OneRunOf(i)' BY <1>3, <1>4, <1>5, <1>6 DEF OneRunOf
<1>8. QED BY <1>1, <1>3, <1>4, <1>7
-----------------------------------------------------------------------------
(* The steps of a run *)

LEMMA PlaySwitchLands ==
  ASSUME TypeOK, FollowersApart, FollowInv, PlaySwitch
  PROVE  FollowInv'
<1>1. PICK i, r, value :
        /\ i = Top.id /\ r = Next_.target
        /\ value = IF r \in held THEN relay[r] ELSE Value(Next_.what, Current, relay[r])
  OBVIOUS
<1>2. /\ Live /\ Current.cursor < Len(List) /\ Next_.type = "switch" /\ UNCHANGED <<rule, input>>
      /\ runs' = Moved(Top.id, FindRun(Top.id, Top.token)) /\ relay' = [relay EXCEPT ![r] = value]
      /\ stack' = stack \o IF value # relay[r] THEN Offer(r, value, FALSE) ELSE <<>>
      /\ settled' = IF r \in held THEN settled \ {i} ELSE settled
  BY <1>1 DEF PlaySwitch
<1>3. /\ i \in RuleIds /\ Exists(i) /\ rule[i].config \in Config /\ Next_ \in Steps /\ r \in Relays
      /\ List \in Seq(Steps) /\ Current \in Run
  <2>1. /\ i \in RuleIds /\ Exists(i) /\ rule[i].config \in Config /\ Next_ \in Steps /\ List \in Seq(Steps)
        /\ Current \in Run
    BY <1>1, <1>2, LiveFacts
  <2>2. QED BY <1>1, <1>2, <2>1, StepFacts
<1>4. relay \in [Relays -> BOOLEAN] BY DEF TypeOK
<1>5. value \in BOOLEAN
  <2>1. Next_.what \in Whats BY <1>2, <1>3, StepFacts
  <2>2. relay[r] \in BOOLEAN BY <1>3, <1>4
  <2>3. QED BY <1>1, <1>3, <2>1, <2>2, ValueTyped
<1>6. KeepsOffers /\ NoNewOffers
  <2>1. PICK t : t = IF value # relay[r] THEN Offer(r, value, FALSE) ELSE <<>> OBVIOUS
  <2>2. t \in Seq(Frame) /\ \A k \in DOMAIN t : t[k].kind = "offer" => t[k].entity \notin Inputs
    <3>1. CASE value # relay[r]
      <4>1. PICK f : f = [kind |-> "offer", entity |-> r, state |-> value, level |-> FALSE, next |-> 1] OBVIOUS
      <4>2. f.entity \notin Inputs BY <1>3, <4>1, AutomationAssumption
      <4>3. t = <<f>> BY <2>1, <3>1, <4>1 DEF Offer
      <4>4. t \in Seq(Frame) BY <1>3, <1>5, <2>1, <3>1, OfferFacts
      <4>5. \A k \in DOMAIN t : t[k] = f BY <4>3
      <4>6. QED BY <4>2, <4>4, <4>5
    <3>2. CASE ~(value # relay[r]) BY <2>1, <3>2
    <3>3. QED BY <3>1, <3>2
  <2>3. QED BY <1>2, <2>1, <2>2, OffersGrow
<1>7. OffersTrue' BY <1>2, <1>6, OffersStayTrue DEF FollowInv
<1>8. ASSUME NEW j \in RuleIds PROVE OneRunOf(j)' /\ LandsOf(j)'
  <2>0. OneRunOf(j) /\ LandsOf(j) /\ (Unheard(j) => Unheard(j)') /\ UNCHANGED rule[j]
    BY <1>2, <1>6, StaysUnheard DEF FollowInv
  <2>1. CASE j # i
    <3>1. runs'[j] = runs[j] BY <1>1, <1>2, <2>1, OtherRunMoves
    <3>2. j \in settled' => j \in settled BY <1>2
    <3>3. ASSUME j \in settled, Follows(rule[j].config)
          PROVE  relay'[Target(rule[j].config)] = relay[Target(rule[j].config)]
      <4>1. Exists(j) BY <3>3, <2>0, RuleFacts DEF LandsOf
      <4>2. ~Writes(rule[i].config, Target(rule[j].config)) BY <1>3, <2>1, <3>3, <4>1 DEF FollowersApart
      <4>3. PICK b \in {"then", "else"} : List = rule[i].config[b]
        <5>1. Current.branch \in {"then", "else"} BY <1>3, RunFacts
        <5>2. QED BY <1>1, <5>1 DEF List
      <4>4. Current.cursor + 1 \in DOMAIN List
        <5>1. Current.cursor \in Nat BY <1>3, RunFacts
        <5>2. QED BY <1>2, <1>3, <5>1
      <4>5. r # Target(rule[j].config)
        <5>1. List[Current.cursor + 1] = Next_ BY DEF Next_
        <5>2. QED BY <1>1, <1>2, <4>2, <4>3, <4>4, <5>1 DEF Writes
      <4>6. QED BY <1>2, <1>4, <4>5
    <3>4. QED BY <1>2, <2>0, <3>1, <3>2, <3>3, LeftAlone DEF Exists
  <2>2. CASE j = i
    <3>1. CASE ~Follows(rule[i].config)
      BY <1>2, <2>0, <2>2, <3>1 DEF OneRunOf, LandsOf
    <3>2. CASE Follows(rule[i].config)
      <4>1. /\ OneRunOf(i)' /\ DOMAIN runs'[i] = {1} /\ runs'[i][1].cursor = Current.cursor + 1
            /\ runs'[i][1].hasState = Current.hasState /\ runs'[i][1].state = Current.state
        BY <1>1, <1>2, <2>0, <2>2, <3>2, OwnRunMoves
      <4>2. /\ DOMAIN runs[i] = {1} /\ Current = runs[i][1] /\ List = rule[i].config.then
            /\ Current.cursor \in Nat /\ Playing(i)
        BY <1>1, <1>2, <2>0, <2>2, <3>2, OwnRun
      <4>3. ASSUME i \in settled', ~Unheard(i)' PROVE rule'[i].built /\ Heard(i)'
        <5>1. i \in settled /\ r \notin held BY <1>2, <4>3
        <5>2. rule[i].built /\ Heard(i) BY <2>0, <2>2, <4>3, <5>1 DEF LandsOf
        <5>3. Current.hasState = TRUE /\ Current.state = input[rule[i].config.on] BY <4>2, <5>2 DEF Heard
        <5>4. CASE Playing(i)'
          BY <1>2, <4>1, <5>2, <5>3, <5>4 DEF Heard
        <5>5. CASE ~Playing(i)'
          <6>1. PICK n \in Nat : n = Len(rule[i].config.then) BY <1>3, <3>2, FollowsFacts
          <6>2. ~(Current.cursor + 1 < n) BY <1>2, <4>1, <5>5, <6>1 DEF Playing
          <6>3. Current.cursor < n BY <1>2, <4>2, <6>1
          <6>4. Current.cursor + 1 = n BY <4>2, <6>2, <6>3
          <6>5. Next_ = rule[i].config.then[n] BY <4>2, <6>4 DEF Next_
          <6>6. r = Target(rule[i].config) /\ Next_.what = "follow"
            BY <1>1, <1>3, <3>2, <6>1, <6>5, FollowsFacts DEF Target
          <6>7. value = Current.state BY <1>1, <5>1, <5>3, <6>6 DEF Value
          <6>8. relay'[r] = input[rule[i].config.on] BY <1>2, <1>3, <1>4, <5>3, <6>7
          <6>9. QED BY <1>2, <5>2, <5>5, <6>6, <6>8 DEF Heard
        <5>6. QED BY <5>4, <5>5
      <4>4. LandsOf(i)'
        <5>1. i \in settled' => rule'[i].built
          <6>1. i \in settled' => i \in settled BY <1>2
          <6>2. QED BY <1>2, <2>0, <2>2, <6>1 DEF LandsOf
        <5>2. Follows(rule'[i].config) BY <1>2, <3>2
        <5>3. QED BY <4>3, <5>1, <5>2 DEF LandsOf
      <4>5. QED BY <2>2, <4>1, <4>4
    <3>3. QED BY <3>1, <3>2
  <2>3. QED BY <2>1, <2>2
<1>9. QED BY <1>7, <1>8 DEF FollowInv

(* A delay or a thermostat's step that is passed is never the last. *)
LEMMA PassedLands ==
  ASSUME TypeOK, FollowInv, Live, Current.cursor < Len(List), Next_.type # "switch", KeepsOffers, NoNewOffers,
         runs' = Moved(Top.id, FindRun(Top.id, Top.token)), UNCHANGED <<rule, input, relay, settled>>
  PROVE  FollowInv'
<1>1. OffersTrue' BY OffersStayTrue DEF FollowInv
<1>2. PICK i \in RuleIds : i = Top.id /\ rule[i].config \in Config BY LiveFacts
<1>3. ASSUME NEW j \in RuleIds PROVE OneRunOf(j)' /\ LandsOf(j)'
  <2>0. OneRunOf(j) /\ LandsOf(j) /\ (Unheard(j) => Unheard(j)') /\ UNCHANGED rule[j]
    BY StaysUnheard DEF FollowInv
  <2>1. CASE j # i
    <3>1. runs'[j] = runs[j] BY <1>2, <2>1, OtherRunMoves
    <3>2. QED BY <2>0, <3>1, LeftAlone DEF Exists
  <2>2. CASE j = i
    <3>1. CASE ~Follows(rule[i].config) BY <2>0, <2>2, <3>1 DEF OneRunOf, LandsOf
    <3>2. CASE Follows(rule[i].config)
      <4>1. /\ OneRunOf(i)' /\ DOMAIN runs'[i] = {1} /\ runs'[i][1].cursor = Current.cursor + 1
            /\ runs'[i][1].hasState = Current.hasState /\ runs'[i][1].state = Current.state
        BY <1>2, <2>0, <2>2, <3>2, OwnRunMoves
      <4>2. /\ DOMAIN runs[i] = {1} /\ Current = runs[i][1] /\ List = rule[i].config.then
            /\ Current.cursor \in Nat /\ Playing(i)
        BY <1>2, <2>0, <2>2, <3>2, OwnRun
      <4>3. Playing(i)'
        <5>1. PICK n \in Nat : n = Len(rule[i].config.then) BY <1>2, <3>2, FollowsFacts
        <5>2. rule[i].config.then[n].type = "switch" BY <1>2, <3>2, <5>1, FollowsFacts
        <5>3. Current.cursor + 1 # n BY <4>2, <5>2 DEF Next_
        <5>4. Current.cursor + 1 < n BY <4>2, <5>1, <5>3
        <5>5. QED BY <4>1, <5>1, <5>4 DEF Playing
      <4>4. Heard(i) => Heard(i)' BY <4>1, <4>2, <4>3 DEF Heard
      <4>5. LandsOf(i)' BY <2>0, <2>2, <4>4 DEF LandsOf
      <4>6. QED BY <2>2, <4>1, <4>5
    <3>3. QED BY <3>1, <3>2
  <2>3. QED BY <2>1, <2>2
<1>4. QED BY <1>1, <1>3 DEF FollowInv

(* Neither the rules, their runs nor what they move. *)
LEMMA NothingLands ==
  ASSUME FollowInv, KeepsOffers, NoNewOffers, UNCHANGED <<rule, runs, input, relay, settled>>
  PROVE  FollowInv'
<1>1. OffersTrue' BY OffersStayTrue DEF FollowInv
<1>2. ASSUME NEW j \in RuleIds PROVE OneRunOf(j)' /\ LandsOf(j)'
  <2>1. OneRunOf(j) /\ LandsOf(j) /\ (Unheard(j) => Unheard(j)') BY StaysUnheard DEF FollowInv
  <2>2. QED BY <2>1, LeftAlone DEF Exists
<1>3. QED BY <1>1, <1>2 DEF FollowInv

LEMMA WaitLands == ASSUME TypeOK, FollowInv, Wait PROVE FollowInv'
<1>1. /\ Live /\ Current.cursor < Len(List) /\ stack' = Below /\ UNCHANGED <<rule, input, relay, settled>>
      /\ Next_.type = "delay" \/ Next_.type = "climate"
      /\ runs' = IF Next_.type = "delay" THEN Moved(Top.id, FindRun(Top.id, Top.token)) ELSE runs
  BY DEF Wait
<1>2. stack # <<>> /\ Top.kind = "step" BY <1>1, LiveFacts
<1>3. KeepsOffers /\ NoNewOffers BY <1>1, <1>2, StepGone
<1>4. CASE Next_.type = "delay" BY <1>1, <1>3, <1>4, PassedLands
<1>5. CASE Next_.type # "delay" BY <1>1, <1>3, <1>5, NothingLands
<1>6. QED BY <1>4, <1>5

LEMMA PlayClimateLands == ASSUME TypeOK, FollowInv, PlayClimate PROVE FollowInv'
<1>1. /\ Live /\ Current.cursor < Len(List) /\ Next_.type = "climate" /\ UNCHANGED <<rule, stack, input, relay, settled>>
      /\ runs' = Moved(Top.id, FindRun(Top.id, Top.token))
  BY DEF PlayClimate
<1>2. KeepsOffers /\ NoNewOffers BY <1>1, SameOffers
<1>3. QED BY <1>1, <1>2, PassedLands

LEMMA EndRunLands == ASSUME TypeOK, FollowInv, EndRun PROVE FollowInv'
<1>1. PICK i, k : i = Top.id /\ k = FindRun(Top.id, Top.token) OBVIOUS
<1>2. /\ Live /\ Current.cursor = Len(List) /\ stack' = Below /\ UNCHANGED <<rule, input, relay, settled>>
      /\ runs' = [runs EXCEPT ![i] = Drop(@, k)]
  BY <1>1 DEF EndRun
<1>3. stack # <<>> /\ Top.kind = "step" /\ i \in RuleIds /\ rule[i].config \in Config BY <1>1, <1>2, LiveFacts
<1>4. KeepsOffers /\ NoNewOffers BY <1>2, <1>3, StepGone
<1>5. OffersTrue' BY <1>2, <1>4, OffersStayTrue DEF FollowInv
<1>6. ASSUME NEW j \in RuleIds PROVE OneRunOf(j)' /\ LandsOf(j)'
  <2>0. OneRunOf(j) /\ LandsOf(j) /\ (Unheard(j) => Unheard(j)') /\ UNCHANGED rule[j]
    BY <1>2, <1>4, StaysUnheard DEF FollowInv
  <2>1. CASE j # i
    <3>1. runs'[j] = runs[j]
      <4>1. PICK d : d = Drop(runs[i], k) OBVIOUS
      <4>2. DOMAIN runs = RuleIds BY DEF TypeOK
      <4>3. runs' = [runs EXCEPT ![i] = d] BY <1>2, <4>1
      <4>4. QED BY <2>1, <4>2, <4>3
    <3>2. QED BY <1>2, <2>0, <3>1, LeftAlone DEF Exists
  <2>2. CASE j = i
    <3>1. CASE ~Follows(rule[i].config) BY <1>2, <2>0, <2>2, <3>1 DEF OneRunOf, LandsOf
    <3>2. CASE Follows(rule[i].config)
      <4>1. /\ k = 1 /\ Len(runs[i]) = 1 /\ DOMAIN runs[i] = {1} /\ Current = runs[i][1]
            /\ List = rule[i].config.then /\ ~Playing(i)
        <5>1. /\ FindRun(i, Top.token) = 1 /\ Len(runs[i]) = 1 /\ DOMAIN runs[i] = {1} /\ Current = runs[i][1]
              /\ List = rule[i].config.then /\ (Playing(i) <=> Current.cursor < Len(rule[i].config.then))
              /\ Current.cursor \in Nat
          BY <1>1, <1>2, <2>0, <2>2, <3>2, OwnRun
        <5>2. ~Playing(i) BY <1>2, <5>1
        <5>3. QED BY <1>1, <5>1, <5>2
      <4>2. runs'[i] = <<>>
        <5>1. PICK rs \in Seq(Run) : rs = runs[i] BY <1>3, RuleFacts
        <5>2. Drop(rs, 1) = <<>>
          <6>1. SubSeq(rs, 1, 0) = <<>> /\ SubSeq(rs, 2, 1) = <<>> BY <5>1
          <6>2. Len(rs) = 1 BY <4>1, <5>1
          <6>3. Drop(rs, 1) = SubSeq(rs, 1, 0) \o SubSeq(rs, 2, 1) BY <6>2 DEF Drop
          <6>4. QED BY <6>1, <6>3
        <5>3. DOMAIN runs = RuleIds BY DEF TypeOK
        <5>4. Drop(runs[i], k) = <<>> BY <4>1, <5>1, <5>2
        <5>5. runs' = [runs EXCEPT ![i] = <<>>] BY <1>2, <5>4
        <5>6. QED BY <1>3, <5>3, <5>5
      <4>3. OneRunOf(i)' /\ ~Playing(i)' BY <4>2 DEF OneRunOf, Playing
      <4>4. Heard(i) => Heard(i)' BY <1>2, <4>1, <4>3 DEF Heard
      <4>5. LandsOf(i)' BY <1>2, <2>0, <2>2, <4>4 DEF LandsOf
      <4>6. QED BY <2>2, <4>3, <4>5
    <3>3. QED BY <3>1, <3>2
  <2>3. QED BY <2>1, <2>2
<1>7. QED BY <1>5, <1>6 DEF FollowInv

LEMMA LeaveRunLands == ASSUME TypeOK, FollowInv, LeaveRun PROVE FollowInv'
<1>1. On("step") /\ stack' = Below /\ UNCHANGED <<rule, runs, input, relay, settled>> BY DEF LeaveRun
<1>2. stack # <<>> /\ Top.kind = "step" BY <1>1, OnFacts
<1>3. KeepsOffers /\ NoNewOffers BY <1>1, <1>2, StepGone
<1>4. QED BY <1>1, <1>3, NothingLands

LEMMA TimerFiresLands == ASSUME TypeOK, FollowInv, NEW t \in timers, TimerFires(t) PROVE FollowInv'
<1>1. /\ stack = <<>> /\ stack' = Stepping(t.id, t.token, TRUE) /\ UNCHANGED <<rule, runs, input, relay, settled>>
  BY DEF TimerFires, Quiet
<1>2. KeepsOffers /\ NoNewOffers
  <2>1. \A n \in DOMAIN stack' : stack'[n].kind = "step" BY <1>1 DEF Stepping
  <2>2. DOMAIN stack = {} BY <1>1
  <2>3. QED BY <2>1, <2>2 DEF KeepsOffers, NoNewOffers
<1>3. QED BY <1>1, <1>2, NothingLands
-----------------------------------------------------------------------------
(* Runs that begin, and events that are offered *)

LEMMA StartOther ==
  ASSUME TypeOK, NEW i \in RuleIds, NEW hasState, NEW state, NEW forced, NEW under, Start(i, hasState, state, forced, under)
  PROVE  /\ \A j \in RuleIds : j # i => runs'[j] = runs[j]
         /\ stack' = under \/ \E token \in Nat : stack' = under \o Stepping(i, token, FALSE)
<1>1. DOMAIN runs = RuleIds BY DEF TypeOK
<1>2. PICK a, b, token :
        /\ runs' = runs \/ runs' = [runs EXCEPT ![i] = a] \/ runs' = [runs EXCEPT ![i] = b]
        /\ token = Fresh(Tokens(i))
        /\ stack' = under \/ stack' = under \o Stepping(i, token, FALSE)
  BY DEF Start
<1>3. token \in Nat BY <1>2, NewToken
<1>4. QED BY <1>1, <1>2, <1>3

(* Of a rule that follows: the run in the way takes over the state, or it is  *)
(* the only run there is now.                                                 *)
LEMMA StartOwn ==
  ASSUME TypeOK, UNCHANGED rule, NEW i \in RuleIds, Exists(i), Follows(rule[i].config), OneRunOf(i),
         NEW hasState \in BOOLEAN, NEW state \in BOOLEAN, NEW forced, NEW under, Start(i, hasState, state, forced, under)
  PROVE  /\ OneRunOf(i)'
         /\ \/ rule[i].config.mode = "single" /\ runs[i] # <<>> /\ runs'[i] = CopyState(runs[i], hasState, state)
            \/ /\ DOMAIN runs'[i] = {1} /\ runs'[i][1].cursor = 0
               /\ runs'[i][1].hasState = hasState /\ runs'[i][1].state = (hasState /\ state)
<1> DEFINE config == rule[i].config
           refused == runs[i] # <<>> /\ \/ config.mode = "single"
                                        \/ config.mode = "parallel" /\ Len(runs[i]) >= MaxRuns
           before == IF config.mode = "restart" THEN <<>> ELSE runs[i]
           branch == IF forced \/ Passes(config) THEN "then" ELSE "else"
           run == [seq |-> FreeSeq(before), token |-> Fresh(Tokens(i)), cursor |-> 0, branch |-> branch,
                   hasState |-> hasState, state |-> hasState /\ state]
<1>1. config \in Config /\ runs[i] \in Seq(Run) BY RuleFacts
<1>2. config.mode = "single" \/ config.mode = "restart" BY <1>1, FollowsFacts
<1>3. DOMAIN runs = RuleIds BY DEF TypeOK
<1>4. CASE refused
  <2>1. config.mode = "single" BY <1>2, <1>4
  <2>2. runs' = [runs EXCEPT ![i] = CopyState(runs[i], hasState, state)] BY <1>4, <2>1, Zenon DEF Start
  <2>3. PICK copied : copied = CopyState(runs[i], hasState, state) OBVIOUS
  <2>4. runs'[i] = copied BY <1>3, <2>2, <2>3
  <2>5. /\ copied \in Seq(Run) /\ DOMAIN copied = DOMAIN runs[i]
        /\ \A k \in DOMAIN runs[i] : copied[k].branch = runs[i][k].branch
    BY <1>1, <2>3, CopyFacts
  <2>6. Len(copied) = Len(runs[i])
    <3>1. PICK rs \in Seq(Run), cs \in Seq(Run) : rs = runs[i] /\ cs = copied BY <1>1, <2>5
    <3>2. DOMAIN rs = DOMAIN cs BY <2>5, <3>1
    <3>3. Len(rs) = Len(cs)
      <4>1. PICK n \in Nat, m \in Nat : n = Len(rs) /\ m = Len(cs) /\ DOMAIN rs = 1..n /\ DOMAIN cs = 1..m BY <3>1
      <4>2. 1..n = 1..m BY <3>2, <4>1
      <4>3. n = m
        <5>1. n > 0 => n \in 1..m BY <4>2
        <5>2. m > 0 => m \in 1..n BY <4>2
        <5>3. QED BY <4>1, <5>1, <5>2
      <4>4. QED BY <4>1, <4>3
    <3>4. QED BY <3>1, <3>3
  <2>7. OneRunOf(i)' BY <2>4, <2>5, <2>6 DEF OneRunOf
  <2>8. QED BY <1>4, <2>1, <2>3, <2>4, <2>7
<1>5. CASE ~refused
  <2>1. runs' = [runs EXCEPT ![i] = Append(before, run)] BY <1>5, Zenon DEF Start
  <2>2. before = <<>> BY <1>2, <1>5
  <2>3. branch = "then" BY DEF Passes, Follows
  <2>4. PICK new : new = run OBVIOUS
  <2>5. /\ new.branch = "then" /\ new.cursor = 0 /\ new.hasState = hasState /\ new.state = (hasState /\ state)
    BY <2>3, <2>4
  <2>6. runs'[i] = Append(before, new) BY <1>3, <2>1, <2>4
  <2>7. runs'[i] = Append(<<>>, new)
    <3> HIDE DEF before, run
    <3>1. QED BY <2>2, <2>6
  <2>8. Len(runs'[i]) = 1 /\ DOMAIN runs'[i] = {1} /\ runs'[i][1] = new
    <3> HIDE DEF before, run
    <3>1. PICK S : S = {new} OBVIOUS
    <3>1a. new \in S /\ <<>> \in Seq(S) BY <3>1
    <3>2. Len(Append(<<>>, new)) = 1 /\ DOMAIN Append(<<>>, new) = {1} /\ Append(<<>>, new)[1] = new BY <3>1a
    <3>3. QED BY <2>7, <3>2
  <2>9. OneRunOf(i)' BY <2>5, <2>8 DEF OneRunOf
  <2>10. QED BY <2>5, <2>8, <2>9
<1>6. QED BY <1>4, <1>5

(* The stack once the event on top was offered to rule i. *)
LEMMA OfferedStack ==
  ASSUME TypeOK, On("offer"), Top.next <= NRules,
         NEW under, under = Below \o <<[Top EXCEPT !.next = Top.next + 1]>>,
         \/ stack' = under
         \/ \E i \in RuleIds, token \in Nat : stack' = under \o Stepping(i, token, FALSE)
  PROVE  /\ NoNewOffers
         /\ \A n \in DOMAIN stack : stack[n].kind = "offer" =>
              /\ n \in DOMAIN stack' /\ stack'[n].kind = "offer" /\ stack'[n].entity = stack[n].entity
              /\ stack'[n].next = IF n = Len(stack) THEN Top.next + 1 ELSE stack[n].next
<1>1. stack # <<>> /\ Top.kind = "offer" /\ Top \in Frame BY OnFacts
<1>2. PICK f : f = [Top EXCEPT !.next = Top.next + 1] OBVIOUS
<1>3. f.kind = "offer" /\ f.entity = Top.entity /\ f.state = Top.state /\ f.next = Top.next + 1
  <2>1. PICK o \in Frame : o = Top BY <1>1
  <2>2. o \in [kind : {"offer"}, entity : Inputs \cup Relays, state : BOOLEAN, level : BOOLEAN, next : 1..(NRules + 1)]
    BY <1>1, <2>1 DEF Frame
  <2>3. QED BY <1>2, <2>1, <2>2
<1>4. under \in Seq(Frame) /\ DOMAIN under = DOMAIN stack BY OfferMoved
<1>5. /\ Len(stack) \in DOMAIN stack /\ Top = stack[Len(stack)]
      /\ Below \in Seq(Frame) /\ Len(Below) = Len(stack) - 1
      /\ \A k \in DOMAIN Below : k \in DOMAIN stack /\ k < Len(stack) /\ Below[k] = stack[k]
      /\ \A k \in DOMAIN stack : k # Len(stack) => k \in DOMAIN Below
  BY <1>1, BelowFacts
<1>6. stack \in Seq(Frame) BY DEF TypeOK
<1>7. \A n \in DOMAIN stack : under[n] = IF n = Len(stack) THEN f ELSE stack[n]
  <2>1. PICK b \in Seq(Frame) : b = Below BY <1>5
  <2>2. under = b \o <<f>> BY <1>2, <2>1
  <2>3. PICK n \in Nat : n = Len(b) /\ Len(stack) = n + 1 /\ DOMAIN b = 1..n BY <1>5, <1>6, <2>1
  <2>4. under[n + 1] = f /\ \A k \in 1..n : under[k] = b[k] BY <2>2, <2>3
  <2>5. QED BY <1>5, <2>1, <2>3, <2>4
<1>8. \A n \in DOMAIN under : n \in DOMAIN stack' /\ stack'[n] = under[n]
  <2>1. ASSUME NEW i \in RuleIds, NEW token \in Nat, stack' = under \o Stepping(i, token, FALSE)
        PROVE  \A n \in DOMAIN under : n \in DOMAIN stack' /\ stack'[n] = under[n]
    <3>1. PICK w : w = Stepping(i, token, FALSE) OBVIOUS
    <3>2. w \in Seq(Frame) BY <3>1, SteppingFacts
    <3>3. PICK u : u = under \o w OBVIOUS
    <3>4. \A n \in DOMAIN under : n \in DOMAIN u /\ u[n] = under[n] BY <1>4, <3>2, <3>3, Pushed
    <3>5. stack' = u BY <2>1, <3>1, <3>3
    <3>6. QED BY <3>4, <3>5
  <2>2. QED BY <2>1
<1>9. \A n \in DOMAIN stack' : stack'[n].kind = "offer" => n \in DOMAIN under /\ stack'[n] = under[n]
  <2>1. ASSUME NEW i \in RuleIds, NEW token \in Nat, stack' = under \o Stepping(i, token, FALSE)
        PROVE  \A n \in DOMAIN stack' : stack'[n].kind = "offer" => n \in DOMAIN under /\ stack'[n] = under[n]
    <3>1. PICK scheduled \in BOOLEAN : scheduled = FALSE OBVIOUS
    <3>1a. PICK w : w = Stepping(i, token, scheduled) OBVIOUS
    <3>2. w \in Seq(Frame) /\ Len(w) = 1 /\ w[1].kind = "step" BY <3>1a, SteppingFacts
    <3>3. DOMAIN w = {1} BY <3>2
    <3>4. PICK u : u = under \o w OBVIOUS
    <3>5. \A n \in DOMAIN u : \/ n \in DOMAIN under /\ u[n] = under[n]
                              \/ n - Len(under) \in DOMAIN w /\ u[n] = w[n - Len(under)]
      <4>1. \A n \in DOMAIN (under \o w) : \/ n \in DOMAIN under /\ (under \o w)[n] = under[n]
                                           \/ /\ n \notin DOMAIN under /\ n - Len(under) \in DOMAIN w
                                              /\ (under \o w)[n] = w[n - Len(under)]
        BY <1>4, <3>2, Pushed
      <4>2. QED BY <3>4, <4>1
    <3>6. stack' = u BY <2>1, <3>1, <3>1a, <3>4
    <3>7. QED BY <3>2, <3>3, <3>5, <3>6
  <2>2. QED BY <2>1
<1>10. NoNewOffers BY <1>1, <1>3, <1>4, <1>5, <1>7, <1>9 DEF NoNewOffers
<1>11. QED BY <1>1, <1>3, <1>4, <1>5, <1>7, <1>8, <1>10

(* The rule the edge starts. *)
LEMMA EdgeHeard ==
  ASSUME TypeOK, UNCHANGED <<rule, input>>, NEW i \in RuleIds, Exists(i), Follows(rule[i].config), OneRunOf(i), ~TooLate(i),
         NEW state, state = input[rule[i].config.on], NEW under, Start(i, TRUE, state, FALSE, under)
  PROVE  OneRunOf(i)' /\ Heard(i)'
<1>1. rule[i].config \in Config /\ runs[i] \in Seq(Run) BY RuleFacts
<1>2. PICK n \in Nat : n = Len(rule[i].config.then) /\ n # 0 BY <1>1, FollowsFacts
<1>3. state \in BOOLEAN
  <2>1. rule[i].config.on \in Inputs BY <1>1, FollowsFacts
  <2>2. QED BY <2>1 DEF TypeOK
<1>4. /\ OneRunOf(i)'
      /\ \/ rule[i].config.mode = "single" /\ runs[i] # <<>> /\ runs'[i] = CopyState(runs[i], TRUE, state)
         \/ /\ DOMAIN runs'[i] = {1} /\ runs'[i][1].cursor = 0
            /\ runs'[i][1].hasState = TRUE /\ runs'[i][1].state = (TRUE /\ state)
  BY <1>3, StartOwn
<1>5. CASE rule[i].config.mode = "single" /\ runs[i] # <<>> /\ runs'[i] = CopyState(runs[i], TRUE, state)
  <2>1. PICK rs \in Seq(Run) : rs = runs[i] BY <1>1
  <2>2. 1 \in DOMAIN rs BY <1>5, <2>1
  <2>3. PICK copied : copied = [k \in DOMAIN rs |-> [rs[k] EXCEPT !.hasState = TRUE, !.state = state]] OBVIOUS
  <2>4. runs'[i] = copied BY <1>5, <2>1, <2>3 DEF CopyState
  <2>5. \A k \in DOMAIN rs : copied[k].cursor = rs[k].cursor /\ copied[k].hasState = TRUE /\ copied[k].state = state
    <3>1. ASSUME NEW k \in DOMAIN rs
          PROVE  copied[k].cursor = rs[k].cursor /\ copied[k].hasState = TRUE /\ copied[k].state = state
      <4>1. PICK r \in Run : r = rs[k] BY <2>1
      <4>2. PICK new : new = [r EXCEPT !.hasState = TRUE, !.state = state] OBVIOUS
      <4>3. new.cursor = r.cursor /\ new.hasState = TRUE /\ new.state = state BY <4>2 DEF Run
      <4>4. copied[k] = new BY <2>3, <4>1, <4>2
      <4>5. QED BY <4>1, <4>3, <4>4
    <3>2. QED BY <3>1
  <2>6. DOMAIN copied = DOMAIN rs BY <2>3
  <2>7. rs[1].cursor < n
    <3>1. rs[1].branch = "then" BY <2>1, <2>2 DEF OneRunOf
    <3>2. rule[i].config["then"] = rule[i].config.then OBVIOUS
    <3>3. rs[1].cursor # n BY <1>2, <1>5, <2>1, <2>2, <3>1, <3>2 DEF TooLate
    <3>4. rs[1].cursor <= n BY <1>2, <2>1, <2>2, <3>1, <3>2 DEF TypeOK
    <3>5. rs[1].cursor \in Nat BY <2>1, <2>2, RunFacts
    <3>6. QED BY <3>3, <3>4, <3>5
  <2>8. Playing(i)' BY <1>2, <2>2, <2>4, <2>5, <2>6, <2>7 DEF Playing
  <2>9. Heard(i)' BY <2>4, <2>5, <2>6, <2>8 DEF Heard
  <2>10. QED BY <1>4, <2>9
<1>6. CASE /\ DOMAIN runs'[i] = {1} /\ runs'[i][1].cursor = 0
           /\ runs'[i][1].hasState = TRUE /\ runs'[i][1].state = (TRUE /\ state)
  <2>1. Playing(i)' BY <1>2, <1>6 DEF Playing
  <2>2. runs'[i][1].state = state BY <1>3, <1>6
  <2>3. Heard(i)' BY <1>6, <2>1, <2>2 DEF Heard
  <2>4. QED BY <1>4, <2>3
<1>7. QED BY <1>4, <1>5, <1>6

LEMMA OfferNextLands == ASSUME TypeOK, FollowInv, OfferNext PROVE FollowInv'
<1>1. /\ On("offer") /\ UNCHANGED <<rule, input, relay>> /\ Top \in Frame /\ Top.kind = "offer" /\ stack # <<>>
  BY OnFacts DEF OfferNext
<1>2. PICK i : i = Top.next OBVIOUS
<1>3. i \in 1..(NRules + 1) /\ NRules \in Nat BY <1>1, <1>2, FrameFacts, AutomationAssumption
<1>4. /\ Len(stack) \in DOMAIN stack /\ Top = stack[Len(stack)] /\ stack \in Seq(Frame)
      /\ \A k \in DOMAIN stack : k # Len(stack) => k \in DOMAIN Below
      /\ \A k \in DOMAIN Below : k \in DOMAIN stack /\ Below[k] = stack[k]
  BY <1>1, BelowFacts DEF TypeOK
<1>5. CASE i > NRules
  <2>1. stack' = Below /\ UNCHANGED <<runs, settled>> BY <1>2, <1>5 DEF OfferNext
  <2>2. NoNewOffers BY <1>4, <2>1 DEF NoNewOffers
  <2>3. OffersTrue' BY <1>1, <2>2, OffersStayTrue DEF FollowInv
  <2>4. ASSUME NEW j \in RuleIds PROVE OneRunOf(j)' /\ LandsOf(j)'
    <3>1. Unheard(j) => Unheard(j)'
      <4>1. ASSUME NEW n \in DOMAIN stack, stack[n].kind = "offer", stack[n].entity = rule[j].config.on, stack[n].next <= j
            PROVE  n \in DOMAIN stack' /\ stack'[n] = stack[n]
        <5>1. j <= NRules /\ j \in Nat BY <1>3 DEF RuleIds
        <5>2. n # Len(stack) BY <1>2, <1>3, <1>4, <1>5, <4>1, <5>1
        <5>3. QED BY <1>4, <2>1, <5>2
      <4>2. QED BY <1>1, <4>1 DEF Unheard
    <3>2. OneRunOf(j) /\ LandsOf(j) BY DEF FollowInv
    <3>3. QED BY <1>1, <2>1, <3>1, <3>2, LeftAlone DEF Exists
  <2>5. QED BY <2>3, <2>4 DEF FollowInv
<1>6. CASE i <= NRules
  <2>0. i \in RuleIds BY <1>3, <1>6 DEF RuleIds
  <2>1. PICK under : under = Below \o <<[Top EXCEPT !.next = Top.next + 1]>> OBVIOUS
  <2>2. PICK fired : fired <=> rule[i].built /\ Fires(rule[i].config, Top) /\ rule[i].enabled OBVIOUS
  <2>3. /\ fired => /\ Start(i, TRUE, Top.state, FALSE, under)
                    /\ settled' = IF TooLate(i) \/ ~Follows(rule[i].config) THEN settled \ {i} ELSE settled \cup {i}
        /\ ~fired => /\ stack' = under /\ UNCHANGED runs
                     /\ settled' = IF Exists(i) /\ rule[i].config.on = Top.entity THEN settled \ {i} ELSE settled
    <3>1. ~(i > NRules) BY <1>3, <1>6
    <3>2. QED BY <1>2, <2>1, <2>2, <3>1, Zenon DEF OfferNext
  <2>4. /\ \A j \in RuleIds : j # i => runs'[j] = runs[j]
        /\ stack' = under \/ \E token \in Nat : stack' = under \o Stepping(i, token, FALSE)
    BY <2>0, <2>3, StartOther
  <2>5. /\ NoNewOffers
        /\ \A n \in DOMAIN stack : stack[n].kind = "offer" =>
             /\ n \in DOMAIN stack' /\ stack'[n].kind = "offer" /\ stack'[n].entity = stack[n].entity
             /\ stack'[n].next = IF n = Len(stack) THEN Top.next + 1 ELSE stack[n].next
    <3>1. Top.next <= NRules BY <1>2, <1>6
    <3>2. \/ stack' = under
          \/ \E k \in RuleIds, token \in Nat : stack' = under \o Stepping(k, token, FALSE)
      BY <2>0, <2>4
    <3>3. QED BY <1>1, <2>1, <3>1, <3>2, OfferedStack
  <2>6. OffersTrue' BY <1>1, <2>5, OffersStayTrue DEF FollowInv
  <2>7. ASSUME NEW j \in RuleIds, j # i \/ rule[j].config.on # Top.entity
        PROVE  Unheard(j) => Unheard(j)'
    <3>1. ASSUME NEW n \in DOMAIN stack, stack[n].kind = "offer", stack[n].entity = rule[j].config.on, stack[n].next <= j
          PROVE  stack'[n].next <= j
      <4>1. CASE n = Len(stack)
        <5>1. i <= j /\ j # i /\ i \in Nat /\ j \in Nat BY <1>2, <1>3, <1>4, <2>7, <3>1, <4>1 DEF RuleIds
        <5>2. i + 1 <= j BY <5>1
        <5>3. QED BY <1>2, <2>5, <3>1, <4>1, <5>2
      <4>2. CASE n # Len(stack) BY <2>5, <3>1, <4>2
      <4>3. QED BY <4>1, <4>2
    <3>2. QED BY <1>1, <2>5, <3>1 DEF Unheard
  <2>8. ASSUME NEW j \in RuleIds PROVE OneRunOf(j)' /\ LandsOf(j)'
    <3>0. OneRunOf(j) /\ LandsOf(j) BY DEF FollowInv
    <3>1. CASE j # i
      <4>1. j \in settled' => j \in settled BY <2>3, <3>1
      <4>2. QED BY <1>1, <2>4, <2>7, <3>0, <3>1, <4>1, LeftAlone DEF Exists
    <3>2. CASE j = i /\ ~fired /\ rule[i].config.on # Top.entity
      <4>1. j \in settled' => j \in settled BY <2>3, <3>2
      <4>2. QED BY <1>1, <2>3, <2>7, <3>0, <3>2, <4>1, LeftAlone DEF Exists
    <3>3. CASE j = i /\ ~fired /\ rule[i].config.on = Top.entity
      <4>1. OneRunOf(i)' BY <1>1, <2>3, <3>0, <3>3 DEF OneRunOf, Exists
      <4>2. i \notin settled'
        <5>1. CASE Exists(i) BY <2>3, <3>3, <5>1
        <5>2. CASE ~Exists(i)
          <6>1. i \notin settled BY <2>0, <3>0, <3>3, <5>2, RuleFacts DEF LandsOf
          <6>2. QED BY <2>3, <3>3, <6>1
        <5>3. QED BY <5>1, <5>2
      <4>3. QED BY <3>3, <4>1, <4>2 DEF LandsOf
    <3>4. CASE j = i /\ fired
      <4>0. rule[i].built /\ Fires(rule[i].config, Top) /\ Exists(i) /\ Top.state \in BOOLEAN
        BY <1>1, <2>0, <2>2, <3>4, RuleFacts, FrameFacts
      <4>1. CASE ~Follows(rule[i].config)
        <5>1. i \notin settled' BY <2>3, <3>4, <4>1
        <5>2. QED BY <1>1, <3>4, <4>1, <5>1 DEF OneRunOf, LandsOf
      <4>2. CASE Follows(rule[i].config)
        <5>1. Start(i, TRUE, Top.state, FALSE, under) BY <2>3, <3>4
        <5>2. OneRunOf(i)' BY <1>1, <2>0, <3>0, <3>4, <4>0, <4>2, <5>1, StartOwn
        <5>3. CASE TooLate(i)
          <6>1. i \notin settled' BY <2>3, <3>4, <5>3
          <6>2. QED BY <3>4, <5>2, <6>1 DEF LandsOf
        <5>4. CASE ~TooLate(i)
          <6>1. Top.entity = rule[i].config.on /\ Top.entity \in Inputs
            BY <4>0, <4>2 DEF Fires, Follows
          <6>2. Top.state = input[rule[i].config.on] BY <1>1, <1>4, <6>1 DEF FollowInv, OffersTrue
          <6>3. Heard(i)' BY <1>1, <2>0, <3>0, <3>4, <4>0, <4>2, <5>1, <5>4, <6>2, EdgeHeard
          <6>4. QED BY <1>1, <3>4, <4>0, <4>2, <5>2, <6>3 DEF LandsOf
        <5>5. QED BY <5>3, <5>4
      <4>3. QED BY <4>1, <4>2
    <3>5. QED BY <3>1, <3>2, <3>3, <3>4
  <2>9. QED BY <2>6, <2>8 DEF FollowInv
<1>7. QED BY <1>3, <1>5, <1>6

LEMMA RunNowLands == ASSUME TypeOK, FollowInv, NEW i \in RuleIds, RunNow(i) PROVE FollowInv'
<1>1. /\ stack = <<>> /\ rule[i].built /\ Start(i, FALSE, FALSE, TRUE, <<>>) /\ settled' = settled \ {i}
      /\ UNCHANGED <<rule, input, relay>>
  BY DEF RunNow, Dispatching, Quiet
<1>2. /\ \A j \in RuleIds : j # i => runs'[j] = runs[j]
      /\ stack' = <<>> \/ \E token \in Nat : stack' = <<>> \o Stepping(i, token, FALSE)
  BY <1>1, StartOther
<1>3. \A n \in DOMAIN stack' : stack'[n].kind = "step"
  <2>1. ASSUME NEW token \in Nat, stack' = <<>> \o Stepping(i, token, FALSE)
        PROVE  \A n \in DOMAIN stack' : stack'[n].kind = "step"
    <3>1. PICK f : f = [kind |-> "step", id |-> i, token |-> token, gen |-> rule[i].gen, scheduled |-> FALSE] OBVIOUS
    <3>2. stack' = <<>> \o <<f>> BY <2>1, <3>1 DEF Stepping
    <3>3. PICK S : S = {f} OBVIOUS
    <3>4. <<>> \in Seq(S) /\ <<f>> \in Seq(S) BY <3>3
    <3>5. stack' \in Seq(S) BY <3>2, <3>4
    <3>6. \A n \in DOMAIN stack' : stack'[n] = f BY <3>3, <3>5
    <3>7. QED BY <3>1, <3>6
  <2>2. stack' = <<>> => DOMAIN stack' = {} OBVIOUS
  <2>3. QED BY <1>2, <2>1, <2>2
<1>4. KeepsOffers /\ NoNewOffers
  <2>1. DOMAIN stack = {} BY <1>1
  <2>2. QED BY <1>3, <2>1 DEF KeepsOffers, NoNewOffers
<1>5. OffersTrue' BY <1>1, <1>4, OffersStayTrue DEF FollowInv
<1>6. ASSUME NEW j \in RuleIds PROVE OneRunOf(j)' /\ LandsOf(j)'
  <2>0. OneRunOf(j) /\ LandsOf(j) /\ (Unheard(j) => Unheard(j)') BY <1>1, <1>4, StaysUnheard DEF FollowInv
  <2>1. CASE j # i BY <1>1, <1>2, <2>0, <2>1, LeftAlone DEF Exists
  <2>2. CASE j = i
    <3>1. LandsOf(i)' BY <1>1 DEF LandsOf
    <3>2. CASE Follows(rule[i].config)
      <4>1. Exists(i) BY <1>1, RuleFacts
      <4>2. OneRunOf(i)' BY <1>1, <2>0, <2>2, <3>2, <4>1, StartOwn
      <4>3. QED BY <2>2, <3>1, <4>2
    <3>3. CASE ~Follows(rule[i].config) BY <1>1, <2>2, <3>1, <3>3 DEF OneRunOf
    <3>4. QED BY <3>2, <3>3
  <2>3. QED BY <2>1, <2>2
<1>7. QED BY <1>5, <1>6 DEF FollowInv
-----------------------------------------------------------------------------
(* Inputs and relays that move *)

(* An input's move is offered to every rule, and no older move of it is still. *)
LEMMA InputMovesLands ==
  ASSUME TypeOK, FollowInv, NEW b \in Inputs, NEW level \in BOOLEAN, InputMoves(b, level)
  PROVE  FollowInv'
<1>1. /\ \A n \in DOMAIN stack : stack[n].kind = "offer" => stack[n].entity # b
      /\ input' = [input EXCEPT ![b] = ~@] /\ stack' = stack \o Offer(b, ~input[b], level)
      /\ UNCHANGED <<rule, runs, relay, settled>>
  BY DEF InputMoves
<1>2. input \in [Inputs -> BOOLEAN] /\ stack \in Seq(Frame) BY DEF TypeOK
<1>3. PICK f : f = [kind |-> "offer", entity |-> b, state |-> ~input[b], level |-> level, next |-> 1] OBVIOUS
<1>4. PICK t : t = <<f>> OBVIOUS
<1>5. t \in Seq(Frame) /\ Len(t) = 1 /\ DOMAIN t = {1} /\ t[1] = f
  <2>1. (~input[b]) \in BOOLEAN /\ b \in Inputs \cup Relays OBVIOUS
  <2>2. t = Offer(b, ~input[b], level) BY <1>3, <1>4 DEF Offer
  <2>3. t \in Seq(Frame) BY <2>1, <2>2, OfferFacts
  <2>4. QED BY <1>4, <2>3
<1>6. stack' = stack \o t BY <1>1, <1>3, <1>4 DEF Offer
<1>7. /\ \A k \in DOMAIN stack : k \in DOMAIN stack' /\ stack'[k] = stack[k]
      /\ Len(stack) + 1 \in DOMAIN stack' /\ stack'[Len(stack) + 1] = f
      /\ \A k \in DOMAIN stack' : (k \in DOMAIN stack /\ stack'[k] = stack[k]) \/ stack'[k] = f
  BY <1>2, <1>5, <1>6, Pushed
<1>8. f.kind = "offer" /\ f.entity = b /\ f.state = ~input[b] /\ f.next = 1 BY <1>3
<1>9. input'[b] = ~input[b] /\ \A o \in Inputs : o # b => input'[o] = input[o] BY <1>1, <1>2
<1>10. OffersTrue'
  <2>1. ASSUME NEW n \in DOMAIN stack', stack'[n].kind = "offer", stack'[n].entity \in Inputs
        PROVE  stack'[n].state = input'[stack'[n].entity]
    <3>1. CASE stack'[n] = f BY <1>8, <1>9, <3>1
    <3>2. CASE n \in DOMAIN stack /\ stack'[n] = stack[n]
      <4>1. stack[n].entity # b BY <1>1, <2>1, <3>2
      <4>2. stack[n].state = input[stack[n].entity] BY <2>1, <3>2 DEF FollowInv, OffersTrue
      <4>3. QED BY <1>9, <2>1, <3>2, <4>1, <4>2
    <3>3. QED BY <1>7, <3>1, <3>2
  <2>2. QED BY <2>1 DEF OffersTrue
<1>11. ASSUME NEW j \in RuleIds PROVE OneRunOf(j)' /\ LandsOf(j)'
  <2>1. OneRunOf(j) /\ LandsOf(j) BY DEF FollowInv
  <2>2. KeepsOffers BY <1>7 DEF KeepsOffers
  <2>3. Unheard(j) => Unheard(j)' BY <1>1, <2>2, StaysUnheard
  <2>4. CASE rule[j].config.on = b
    <3>1. 1 <= j BY AutomationAssumption DEF RuleIds
    <3>2. Unheard(j)' BY <1>1, <1>7, <1>8, <2>4, <3>1 DEF Unheard
    <3>3. QED BY <1>1, <2>1, <2>3, <3>2, LeftAlone DEF Exists
  <2>5. CASE rule[j].config.on # b
    <3>1. input'[rule[j].config.on] = input[rule[j].config.on] BY <1>1, <1>2, <2>5
    <3>2. QED BY <1>1, <2>1, <2>3, <3>1, LeftAlone DEF Exists
  <2>6. QED BY <2>4, <2>5
<1>12. QED BY <1>10, <1>11 DEF FollowInv

(* Nobody is settled after a hand's move. *)
LEMMA RelayMovesLands == ASSUME TypeOK, FollowInv, NEW r \in Relays, RelayMoves(r) PROVE FollowInv'
<1>1. stack = <<>> /\ stack' = Offer(r, ~relay[r], FALSE) /\ settled' = {} /\ UNCHANGED <<rule, runs, input>>
  BY DEF RelayMoves, Quiet
<1>2. \A n \in DOMAIN stack' : stack'[n].entity = r
  <2>1. PICK f : f = [kind |-> "offer", entity |-> r, state |-> ~relay[r], level |-> FALSE, next |-> 1] OBVIOUS
  <2>2. stack' = <<f>> BY <1>1, <2>1 DEF Offer
  <2>3. \A n \in DOMAIN <<f>> : <<f>>[n] = f OBVIOUS
  <2>4. QED BY <2>1, <2>2, <2>3
<1>3. OffersTrue' BY <1>2, AutomationAssumption DEF OffersTrue
<1>4. \A j \in RuleIds : OneRunOf(j)' /\ LandsOf(j)' BY <1>1 DEF FollowInv, OneRunOf, LandsOf, Exists
<1>5. QED BY <1>3, <1>4 DEF FollowInv

LEMMA HoldLands == ASSUME FollowInv, NEW r \in Relays, Hold(r) PROVE FollowInv'
<1>1. UNCHANGED <<rule, runs, stack, input, relay, settled>> BY DEF Hold
<1>2. QED BY <1>1, SameOffers, NothingLands
-----------------------------------------------------------------------------
(* Edits and rebuilds: each rule is as it was or put aside. *)

LEMMA EditLands ==
  ASSUME FollowInv, KeepsOffers, NoNewOffers, UNCHANGED <<input, relay>>,
         \A j \in RuleIds : \/ runs'[j] = <<>> /\ j \notin settled'
                            \/ /\ runs'[j] = runs[j] /\ rule'[j].config = rule[j].config /\ (Exists(j)' <=> Exists(j))
                               /\ rule[j].built => rule'[j].built
                               /\ j \in settled' => j \in settled
  PROVE  FollowInv'
<1>1. OffersTrue' BY OffersStayTrue DEF FollowInv
<1>2. ASSUME NEW j \in RuleIds PROVE OneRunOf(j)' /\ LandsOf(j)'
  <2>1. CASE runs'[j] = <<>> /\ j \notin settled' BY <2>1, PutAside
  <2>2. CASE /\ runs'[j] = runs[j] /\ rule'[j].config = rule[j].config /\ (Exists(j)' <=> Exists(j))
             /\ rule[j].built => rule'[j].built
             /\ j \in settled' => j \in settled
    <3>1. OneRunOf(j) /\ LandsOf(j) /\ (Unheard(j) => Unheard(j)') BY <2>2, StaysUnheard DEF FollowInv
    <3>2. QED BY <2>2, <3>1, LeftAlone
  <2>3. QED BY <2>1, <2>2
<1>3. QED BY <1>1, <1>2 DEF FollowInv

LEMMA ReplacedLands ==
  ASSUME TypeOK, FollowInv, NEW i \in RuleIds, NEW new, Replaced(i, new), settled' = settled \ {i},
         UNCHANGED <<stack, input, relay>>
  PROVE  FollowInv'
<1>1. DOMAIN rule = RuleIds /\ DOMAIN runs = RuleIds BY DEF TypeOK
<1>2. rule' = [rule EXCEPT ![i] = new] /\ runs' = [runs EXCEPT ![i] = <<>>] BY DEF Replaced
<1>3. runs'[i] = <<>> /\ i \notin settled' BY <1>1, <1>2
<1>4. \A j \in RuleIds : j # i => runs'[j] = runs[j] /\ rule'[j] = rule[j] BY <1>1, <1>2
<1>5. QED BY <1>3, <1>4, SameOffers, EditLands DEF Exists

LEMMA SetEnabledLands ==
  ASSUME TypeOK, FollowInv, NEW i \in RuleIds, NEW enable \in BOOLEAN, SetEnabled(i, enable)
  PROVE  FollowInv'
<1>1. DOMAIN rule = RuleIds /\ DOMAIN runs = RuleIds BY DEF TypeOK
<1>2. /\ Exists(i) /\ rule' = [rule EXCEPT ![i].enabled = enable] /\ settled' = settled \ {i}
      /\ runs' = runs \/ runs' = [runs EXCEPT ![i] = <<>>]
      /\ UNCHANGED <<stack, input, relay>>
  BY DEF SetEnabled
<1>3. \A j \in RuleIds : j # i => rule'[j] = rule[j] /\ runs'[j] = runs[j] BY <1>1, <1>2
<1>4. runs'[i] = runs[i] \/ runs'[i] = <<>> BY <1>1, <1>2
<1>5. rule'[i].config = rule[i].config /\ rule'[i].built = rule[i].built /\ rule'[i].gen = rule[i].gen
  <2>1. PICK r \in Held : r = rule[i] BY <1>2, RuleFacts
  <2>2. PICK new : new = [r EXCEPT !.enabled = enable] OBVIOUS
  <2>3. new.config = r.config /\ new.built = r.built /\ new.gen = r.gen BY <2>2 DEF Held
  <2>4. rule'[i] = new BY <1>1, <1>2, <2>1, <2>2
  <2>5. QED BY <2>1, <2>3, <2>4
<1>6. QED BY <1>2, <1>3, <1>4, <1>5, SameOffers, EditLands DEF Exists

LEMMA RebuildLands ==
  ASSUME TypeOK, Driven, FollowInv, stack = <<>>, NEW t \in Climates, NEW hub, Rebuild(t, hub),
         UNCHANGED <<stack, input, relay, climate, held>>, rebuilds' \subseteq Climates, there' \subseteq Climates
  PROVE  FollowInv'
<1> DEFINE named == {i \in RuleIds : Exists(i) /\ Names(rule[i].config, t)}
           drop == {i \in named : rule[i].built /\ ~Buildable(rule[i].config, hub)}
           make == {i \in named : ~rule[i].built /\ Buildable(rule[i].config, hub)}
<1>1. runs' = [i \in RuleIds |-> IF i \in drop THEN <<>> ELSE runs[i]] /\ settled' = settled \ (drop \cup make)
  BY Zenon DEF Rebuild
<1>2. \A i \in RuleIds : /\ Exists(i)' <=> Exists(i)
                         /\ Exists(i) => /\ rule'[i].config = rule[i].config
                                         /\ rule'[i].built <=> IF Names(rule[i].config, t) THEN Buildable(rule[i].config, hub)
                                                               ELSE rule[i].built
  BY RebuildWorks
<1>3. \A i \in RuleIds : ~Exists(i) => rule'[i] = rule[i]
  <2>1. TypeOK' BY RebuildWorks
  <2>2. QED BY <1>2, <2>1 DEF TypeOK
<1>4. ASSUME NEW j \in RuleIds, j \notin drop
      PROVE  rule'[j].config = rule[j].config /\ (rule[j].built => rule'[j].built)
  <2>1. CASE Exists(j) BY <1>2, <1>4, <2>1
  <2>2. CASE ~Exists(j) BY <1>3, <2>2
  <2>3. QED BY <2>1, <2>2
<1>5. ASSUME NEW j \in RuleIds
      PROVE  \/ runs'[j] = <<>> /\ j \notin settled'
             \/ /\ runs'[j] = runs[j] /\ rule'[j].config = rule[j].config /\ (Exists(j)' <=> Exists(j))
                /\ rule[j].built => rule'[j].built
                /\ j \in settled' => j \in settled
  <2>1. CASE j \in drop
    <3> HIDE DEF drop, make
    <3>1. QED BY <1>1, <2>1
  <2>2. CASE j \notin drop
    <3>1. rule'[j].config = rule[j].config /\ (rule[j].built => rule'[j].built) /\ (Exists(j)' <=> Exists(j))
      BY <1>2, <1>4, <2>2
    <3> HIDE DEF drop, make
    <3>2. runs'[j] = runs[j] /\ (j \in settled' => j \in settled) BY <1>1, <2>2
    <3>3. QED BY <3>1, <3>2
  <2>3. QED BY <2>1, <2>2
<1>6. QED BY <1>5, SameOffers, EditLands

LEMMA RebuildsLands == ASSUME TypeOK, Driven, FollowInv, NEW t \in Climates, Rebuilds(t) PROVE FollowInv'
<1>1. /\ stack = <<>> /\ Rebuild(t, there) /\ UNCHANGED <<stack, input, relay, climate, held>>
      /\ rebuilds' = rebuilds \ {t} /\ there' = there
  BY DEF Rebuilds, Quiet
<1>2. rebuilds' \subseteq Climates /\ there' \subseteq Climates BY <1>1 DEF TypeOK
<1>3. QED BY <1>1, <1>2, RebuildLands

LEMMA ClimateChangeLands == ASSUME TypeOK, Driven, FollowInv, NEW t \in Climates, ClimateChange(t) PROVE FollowInv'
<1>1. /\ there' = (IF t \in there THEN there \ {t} ELSE there \cup {t})
      /\ UNCHANGED <<stack, input, relay, climate, held>>
  BY DEF ClimateChange
<1>2. CASE stack # <<>>
  <2>1. UNCHANGED <<rule, runs, settled>> BY <1>2 DEF ClimateChange, MustWait, Dispatching, Quiet
  <2>2. QED BY <1>1, <2>1, SameOffers, NothingLands
<1>3. CASE stack = <<>>
  <2>1. Rebuild(t, there') /\ rebuilds' = rebuilds BY <1>3 DEF ClimateChange, MustWait, Dispatching, Quiet
  <2>2. rebuilds' \subseteq Climates /\ there' \subseteq Climates BY <1>1, <2>1 DEF TypeOK
  <2>3. QED BY <1>1, <1>3, <2>1, <2>2, RebuildLands
<1>4. QED BY <1>2, <1>3
-----------------------------------------------------------------------------
LEMMA FollowInit == Init => FollowInv
<1>1. SUFFICES ASSUME Init PROVE FollowInv OBVIOUS
<1>2. stack = <<>> /\ settled = {} /\ \A i \in RuleIds : rule[i].gen = 0 BY <1>1 DEF Init, NoRule
<1>3. DOMAIN stack = {} BY <1>2
<1>4. QED BY <1>2, <1>3 DEF FollowInv, OffersTrue, OneRunOf, LandsOf, Exists

LEMMA FollowStep ==
  ASSUME RInv, FollowersApart, FollowInv, Next
  PROVE  FollowInv'
<1>0. TypeOK /\ Driven BY DEF RInv
<1>1. ASSUME OfferNext PROVE FollowInv' BY <1>0, <1>1, OfferNextLands
<1>2. ASSUME PlaySwitch PROVE FollowInv' BY <1>0, <1>2, PlaySwitchLands
<1>3. ASSUME Wait PROVE FollowInv' BY <1>0, <1>3, WaitLands
<1>4. ASSUME PlayClimate PROVE FollowInv' BY <1>0, <1>4, PlayClimateLands
<1>5. ASSUME EndRun PROVE FollowInv' BY <1>0, <1>5, EndRunLands
<1>6. ASSUME LeaveRun PROVE FollowInv' BY <1>0, <1>6, LeaveRunLands
<1>7. ASSUME NEW t \in timers, TimerFires(t) PROVE FollowInv' BY <1>0, <1>7, TimerFiresLands
<1>8. ASSUME NEW i \in RuleIds, RunNow(i) PROVE FollowInv' BY <1>0, <1>8, RunNowLands
<1>9. ASSUME NEW i \in RuleIds, Remove(i) PROVE FollowInv'
  <2>1. Replaced(i, NoRule) /\ settled' = settled \ {i} /\ UNCHANGED <<stack, input, relay>> BY <1>9 DEF Remove
  <2>2. QED BY <1>0, <2>1, ReplacedLands
<1>10. ASSUME NEW i \in RuleIds, NEW config \in Configs[i], Save(i, config) PROVE FollowInv'
  <2>1. Replaced(i, New(i, config)) /\ settled' = settled \ {i} /\ UNCHANGED <<stack, input, relay>> BY <1>10 DEF Save
  <2>2. QED BY <1>0, <2>1, ReplacedLands
<1>11. ASSUME NEW i \in RuleIds, NEW enable \in BOOLEAN, SetEnabled(i, enable) PROVE FollowInv'
  BY <1>0, <1>11, SetEnabledLands
<1>12. ASSUME NEW t \in Climates, ClimateChange(t) PROVE FollowInv' BY <1>0, <1>12, ClimateChangeLands
<1>13. ASSUME NEW t \in Climates, Rebuilds(t) PROVE FollowInv' BY <1>0, <1>13, RebuildsLands
<1>14. ASSUME NEW b \in Inputs, NEW level \in BOOLEAN, InputMoves(b, level) PROVE FollowInv'
  BY <1>0, <1>14, InputMovesLands
<1>15. ASSUME NEW r \in Relays, Hold(r) PROVE FollowInv' BY <1>15, HoldLands
<1>16. ASSUME NEW r \in Relays, RelayMoves(r) PROVE FollowInv' BY <1>0, <1>16, RelayMovesLands
<1>17. QED
  BY <1>1, <1>2, <1>3, <1>4, <1>5, <1>6, <1>7, <1>8, <1>9, <1>10, <1>11, <1>12, <1>13, <1>14, <1>15, <1>16, Zenon
     DEF Next

LEMMA FollowStutter == FollowInv /\ UNCHANGED vars => FollowInv'
<1>1. SUFFICES ASSUME FollowInv, UNCHANGED vars PROVE FollowInv' OBVIOUS
<1>2. UNCHANGED <<rule, runs, stack, input, relay, settled>> BY <1>1 DEF vars
<1>3. QED BY <1>1, <1>2, SameOffers, NothingLands

LEMMA FollowInvariance == Spec /\ []FollowersApart => []FollowInv
<1>1. RInv /\ FollowersApart /\ FollowInv /\ [Next]_vars => FollowInv' BY FollowStep, FollowStutter
<1>2. QED BY <1>1, FollowInit, RunsInvariant, PTL DEF Spec
-----------------------------------------------------------------------------
(* Theorems *)

(* Whatever its rules do to one another, the runtime keeps its types: every    *)
(* run stands within the list it plays, and only a rule that is held has runs. *)
THEOREM TypeCorrect == Spec => []TypeOK
<1>1. RInv => TypeOK
  BY DEF RInv
<1> QED
  BY <1>1, RunsInvariant, PTL

(* Every run has exactly one thing that goes on with it, a step under way or a *)
(* timer, and every timer has its run (start_, stop, free_seq_, step_).        *)
THEOREM RunsAlwaysDriven == Spec => []RunsDriven
<1>1. ASSUME RInv
      PROVE  RunsDriven
  <2>1. TypeOK /\ SteppedOnce /\ OneDriver /\ OwnTimers
    BY <1>1 DEF RInv, Driven
  <2>2. ASSUME NEW i \in RuleIds, NEW k \in DOMAIN runs[i], NEW stepped,
               stepped = {n \in DOMAIN stack : /\ stack[n].kind = "step" /\ stack[n].id = i
                                               /\ stack[n].token = runs[i][k].token}
        PROVE  IF \E t \in timers : t = [id |-> i, seq |-> runs[i][k].seq, token |-> runs[i][k].token]
               THEN stepped = {} ELSE Cardinality(stepped) = 1
    <3>1. Timed(i, runs[i][k]) <=> ~Stepped(i, runs[i][k].token)
      BY <2>1 DEF OneDriver
    <3>2. (\E t \in timers : t = [id |-> i, seq |-> runs[i][k].seq, token |-> runs[i][k].token])
            <=> Timed(i, runs[i][k])
      BY DEF Timed
    <3>3. Stepped(i, runs[i][k].token) <=> stepped # {}
      BY <2>2 DEF Stepped, IsStep
    <3>4. ASSUME stepped # {}
          PROVE  Cardinality(stepped) = 1
      <4>1. PICK n \in stepped : TRUE
        BY <3>4
      <4>2. stepped = {n}
        BY <2>1, <2>2, <4>1 DEF SteppedOnce, IsStep
      <4> QED
        BY <4>2, FS_Singleton
    <3> QED
      BY <3>1, <3>2, <3>3, <3>4
  <2>3. \A t \in timers : \E k \in DOMAIN runs[t.id] : runs[t.id][k].seq = t.seq /\ runs[t.id][k].token = t.token
    BY <2>1 DEF OwnTimers
  <2>4. ASSUME NEW i \in RuleIds, NEW k \in DOMAIN runs[i]
        PROVE  IF \E t \in timers : t = [id |-> i, seq |-> runs[i][k].seq, token |-> runs[i][k].token]
               THEN {n \in DOMAIN stack : /\ stack[n].kind = "step" /\ stack[n].id = i
                                          /\ stack[n].token = runs[i][k].token} = {}
               ELSE Cardinality({n \in DOMAIN stack : /\ stack[n].kind = "step" /\ stack[n].id = i
                                                      /\ stack[n].token = runs[i][k].token}) = 1
    <3>1. PICK stepped : stepped = {n \in DOMAIN stack : /\ stack[n].kind = "step" /\ stack[n].id = i
                                                         /\ stack[n].token = runs[i][k].token}
      OBVIOUS
    <3>2. IF \E t \in timers : t = [id |-> i, seq |-> runs[i][k].seq, token |-> runs[i][k].token]
          THEN stepped = {} ELSE Cardinality(stepped) = 1
      BY <2>2, <3>1, Zenon
    <3> QED
      BY <3>1, <3>2, Zenon
  <2> QED
    BY <2>3, <2>4, Zenon DEF RunsDriven
<1> QED
  BY <1>1, RunsInvariant, PTL

(* A rule is never destroyed or rebuilt under a step of it (run_on_loop_,       *)
(* rebuild_rules_).                                                           *)
THEOREM NeverPulledAway == Spec => []NotPulledAway
<1>1. RInv => NotPulledAway
  BY DEF RInv
<1> QED
  BY <1>1, RunsInvariant, PTL

(* With no rebuild waiting, the rules that are built are exactly those whose  *)
(* thermostats are there (rebuild_rules_, on_climate_change_).                 *)
THEOREM AlwaysBuiltWhenThere == Spec => []BuiltWhenThere
<1>1. RInv => BuiltWhenThere
  BY DEF RInv, BuiltUnlessPending, BuiltWhenThere, Pending
<1> QED
  BY <1>1, RunsInvariant, PTL

(* A rule that ends with a follow, and whose relay no other rule moves, leaves *)
(* the relay as its input's last edge was, whatever callbacks nest and though  *)
(* the edge came in the middle of a run (start_, play_switch_).                *)
THEOREM FollowersAlwaysLand == Spec /\ []FollowersApart => []FollowLands
<1>1. RInv /\ FollowInv => FollowLands
  <2>0. RInv => settled \subseteq RuleIds BY DEF RInv, TypeOK
  <2>1. SUFFICES ASSUME FollowInv, Quiet, NEW i \in settled, i \in RuleIds, rule[i].built, runs[i] = <<>>
                 PROVE  relay[Target(rule[i].config)] = input[rule[i].config.on]
    BY <2>0 DEF FollowLands, Target
  <2>2. DOMAIN stack = {} BY <2>1 DEF Quiet
  <2>3. Heard(i) BY <2>1, <2>2 DEF FollowInv, LandsOf, Unheard
  <2>4. DOMAIN runs[i] = {} BY <2>1
  <2>5. ~Playing(i) BY <2>4 DEF Playing
  <2>6. QED BY <2>3, <2>5 DEF Heard
<1>2. QED BY <1>1, FollowInvariance, RunsInvariant, PTL
=============================================================================
