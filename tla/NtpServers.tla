----------------------------- MODULE NtpServers -----------------------------
(***************************************************************************)
(* The NTP servers the device asks, one at a time (components/ntp_servers):*)
(* who is asked next as servers answer or not, the network comes and goes  *)
(* and the list is changed, and the record the list is kept in.            *)
(*                                                                         *)
(* lwIP takes a reply on its own task and hands the loop the name it asked *)
(* then, so the loop hears of it later.  Time counts in steps.             *)
(* What check_servers refuses changes nothing and is left out.             *)
(***************************************************************************)
EXTENDS Integers, Sequences, FiniteSets, SequencesExt, FiniteSetsExt

CONSTANTS
  Lists,       \* what the list may be set to
  Compiled,    \* fallback_servers_
  AnswerTime,  \* ANSWER_MS
  Poll,        \* poll_ms_()
  Lead,        \* RETURN_LEAD_MS
  MaxBackoff,  \* MAX_BACKOFF
  MaxReplies,  \* bound on the replies the loop has not heard of
  MaxStall,    \* bound: the longest the loop is away
  Nobody       \* nothing stored

VARIABLES
  servers, fallback,
  stored,      \* the record flash holds: what the next boot reads
  index,       \* in in_use_, from 1
  armed,       \* "no", "next" or "first": what happens once the wait is over
  left,        \* of the wait
  misses,
  connected, wasConnected,
  replies,     \* deferred: by whom each was sent
  stalled,     \* since the last loop pass
  asked,       \* how long the server in use has been asked, or since its last answer
  answered     \* whether it has answered meanwhile

vars == <<servers, fallback, stored, index, armed, left, misses, connected, wasConnected, replies, stalled, asked, answered>>
list == <<servers, fallback, stored>>

Default == [servers |-> <<>>, fallback |-> TRUE]
Settings == IF stored = Nobody THEN Default ELSE stored

(* rebuild_ *)
InUse(own, fb) == own \o (IF fb THEN SelectSeq(Compiled, LAMBDA s : ~Contains(own, s)) ELSE <<>>)
in_use == InUse(servers, fallback)
Current == in_use[index]

(* The poll is never as short as the lead, and what is in use is a list.      *)
ServersAssumption ==
  /\ {AnswerTime, Poll, Lead, MaxBackoff, MaxStall} \subseteq Nat /\ Lead <= Poll
  /\ Nobody \notin [servers : Lists, fallback : BOOLEAN]
  /\ \A own \in Lists \cup {<<>>}, fb \in BOOLEAN : Len(InUse(own, fb)) \in Nat
-----------------------------------------------------------------------------
(* answer_wait_, with no limit a whole number of rounds beyond the last. *)
AnswerWait(n, missed) ==
  LET rounds == Min({missed \div Max({n, 1}), MaxBackoff})
  IN Max({AnswerTime, Min({AnswerTime * 2^rounds, Poll})})
Missed(n) == Min({misses + 1, n * MaxBackoff})

(* ask_, of a list of n; one server is lwIP's to retry. *)
Ask(i, n, missed) ==
  /\ index' = i /\ misses' = missed
  /\ armed' = IF n > 1 THEN "next" ELSE "no"
  /\ left' = IF n > 1 THEN AnswerWait(n, missed) ELSE 0
  /\ asked' = 0 /\ answered' = FALSE

(* setup *)
Boot(online) ==
  /\ servers' = Settings.servers /\ fallback' = Settings.fallback
  /\ connected' = online /\ wasConnected' = online
  /\ replies' = <<>> /\ stalled' = 0
  /\ Ask(1, Len(InUse(servers', fallback')), 0)
  /\ UNCHANGED stored

Tick ==
  /\ stalled < MaxStall
  /\ stalled' = stalled + 1
  /\ left' = Max({left - 1, 0})
  /\ asked' = Min({asked + 1, Poll + AnswerTime + MaxStall + 1})
  /\ UNCHANGED <<list, index, armed, misses, connected, wasConnected, replies, answered>>

(* loop *)
LoopPass ==
  /\ stalled' = 0
  /\ CASE in_use = <<>> -> UNCHANGED <<wasConnected, index, misses, armed, left, asked, answered>>
       [] in_use # <<>> /\ connected /\ ~wasConnected -> wasConnected' = TRUE /\ Ask(1, Len(in_use), 0)
       [] in_use # <<>> /\ ~connected -> wasConnected' = FALSE /\ UNCHANGED <<index, misses, armed, left, asked, answered>>
       [] OTHER -> /\ UNCHANGED wasConnected
                   /\ CASE armed = "no" \/ left > 0 -> UNCHANGED <<index, misses, armed, left, asked, answered>>
                        [] armed = "first" /\ left = 0 -> Ask(1, Len(in_use), misses)
                        [] armed = "next" /\ left = 0 ->
                             Ask((index % Len(in_use)) + 1, Len(in_use), Missed(Len(in_use)))
  /\ UNCHANGED <<list, connected, replies>>

(* on_reply_, on lwIP's task. *)
Reply ==
  /\ connected /\ in_use # <<>> /\ Len(replies) < MaxReplies
  /\ replies' = Append(replies, Current)
  /\ UNCHANGED <<list, index, armed, left, misses, connected, wasConnected, stalled, asked, answered>>

(* Mutant of Credited: any answer is the current server's. *)
CreditedAny(server) == in_use # <<>>
Credited(server) == in_use # <<>> /\ server = Current

(* on_answer_: the first server has to miss its next poll, any other makes    *)
(* way for the first before its own.                                            *)
Answer ==
  /\ replies # <<>>
  /\ replies' = Tail(replies)
  /\ IF Credited(Head(replies))
     THEN /\ misses' = 0
          /\ armed' = IF Len(in_use) < 2 THEN "no" ELSE IF index = 1 THEN "next" ELSE "first"
          /\ left' = IF Len(in_use) < 2 THEN 0 ELSE IF index = 1 THEN Poll + AnswerTime ELSE Poll - Lead
     ELSE UNCHANGED <<misses, armed, left>>
  /\ LET own == in_use # <<>> /\ Head(replies) = Current
     IN answered' = (answered \/ own) /\ asked' = IF own THEN 0 ELSE asked
  /\ UNCHANGED <<list, index, connected, wasConnected, stalled>>

NetworkChanges ==
  /\ connected' = ~connected
  /\ UNCHANGED <<list, index, armed, left, misses, wasConnected, replies, stalled, asked, answered>>

(* Mutant of TakesEffect: a flush that failed changes nothing. *)
TakesEffectReported(new, reported) == reported
(* store_ and flash_holds_: a flush that failed may have failed for another   *)
(* record.                                                                      *)
TakesEffect(new, reported) == reported \/ stored' = new

(* configure *)
Configure(new, reported) ==
  /\ new # [servers |-> servers, fallback |-> fallback]
  /\ stored' \in IF reported THEN {new} ELSE {new, stored}
  /\ IF TakesEffect(new, reported)
     THEN servers' = new.servers /\ fallback' = new.fallback /\ Ask(1, Len(InUse(new.servers, new.fallback)), 0)
     ELSE UNCHANGED <<servers, fallback, index, armed, left, misses, asked, answered>>
  /\ UNCHANGED <<connected, wasConnected, replies, stalled>>

Init ==
  /\ stored = Nobody
  /\ servers = <<>> /\ fallback = TRUE
  /\ index = 1 /\ misses = 0
  /\ armed = (IF Len(Compiled) > 1 THEN "next" ELSE "no")
  /\ left = (IF Len(Compiled) > 1 THEN AnswerTime ELSE 0)
  /\ connected = FALSE /\ wasConnected = FALSE
  /\ replies = <<>> /\ stalled = 0 /\ asked = 0 /\ answered = FALSE

Next ==
  \/ \E online \in BOOLEAN : Boot(online)
  \/ Tick \/ LoopPass \/ Reply \/ Answer \/ NetworkChanges
  \/ \E own \in Lists, fb, reported \in BOOLEAN : Configure([servers |-> own, fallback |-> fb], reported)

Spec == Init /\ [][Next]_vars
-----------------------------------------------------------------------------
(***************************************************************************)
(* Properties                                                              *)
(***************************************************************************)

(* Online, a server of several that does not answer is left for the next one  *)
(* when its wait is over, however late replies of those asked before it come;   *)
(* one that answers is not left before its next poll is due; and after any but  *)
(* the first, the first is asked before that poll (on_answer_, loop).           *)
Steady == connected /\ wasConnected /\ Len(in_use) > 1
Credit ==
  /\ Steady => asked <= (IF ~answered THEN AnswerWait(Len(in_use), misses)
                         ELSE IF index = 1 THEN Poll + AnswerTime ELSE Poll - Lead) + MaxStall
  /\ Steady /\ index' # index /\ LoopPass => asked >= IF answered THEN Poll - Lead ELSE AnswerTime
AnswersCredited == [][Credit]_vars

(* What the device asks is what the next boot reads, whichever record a flush *)
(* failed for (configure, setup).                                               *)
ServersStored == [servers |-> servers, fallback |-> fallback] = Settings
=============================================================================
