------------------------------ MODULE DemoLoop ------------------------------
(***************************************************************************)
(* The demo loop: round after round, one thread raises an episode,         *)
(* diagnoses it (from the runbook wiki, or by hypotheses that a language   *)
(* model debates), acts, verifies, learns, and publishes each step to the  *)
(* dashboard and to the log.  The wiki and the log are files and outlive   *)
(* the process, which may stop, or die of an exception, anywhere.          *)
(* How an action is guarded is module GuardedAction.                       *)
(***************************************************************************)
EXTENDS Runbooks, Sequences

CONSTANTS
  Episodes,   \* the symptoms an episode can have
  Causes,     \* root causes the model names
  CauseOf,    \* symptoms -> root cause of the top-ranked hypothesis
  Budgets,    \* answers a client may take of its backend, as configured
  MaxEvents,  \* events the dashboard keeps
  MaxRounds,  \* bound: rounds, over all processes
  MaxStops    \* bound: stops of the process

ASSUME EpisodeAssumption ==
  /\ \A S \in Episodes : IsFiniteSet(S)
  /\ CauseOf \in [Episodes -> Causes]
ASSUME LimitAssumption ==
  Budgets \cup {MaxRounds, MaxStops} \subseteq Nat /\ MaxEvents \in Nat \ {0}

VARIABLES
  pc,        \* where the loop stands
  symptoms, ruleOnly, budget, \* what it was started with
  round,     \* rounds begun, which number the incidents
  disk,      \* the wiki's files
  torn,      \* a file of the wiki is half written
  wiki,      \* the wiki as the round has loaded it
  heard,     \* causes the answers of the round's client named
  diagnosis, \* the round's root cause, and how it was reached
  fate,      \* what became of the round's incident
  ring,      \* the dashboard's events
  alias,     \* incident the dashboard takes the episode's key for
  log,       \* what smoke tells of the log
  lessons,   \* resolutions saved so far (history)
  stops

vars == <<pc, symptoms, ruleOnly, budget, round, disk, torn, wiki, heard, diagnosis, fate,
          ring, alias, log, lessons, stops>>
started == <<symptoms, ruleOnly, budget>>
files == <<disk, torn, lessons>>

NoRound == 0
Blank == ""
Modes == {Blank, "runbook_hit", "rule_only", "single_pass_fallback", "debate"}
Undiagnosed == [cause |-> CHOOSE c \in Causes : TRUE, mode |-> Blank]

Init == /\ pc = "idle" /\ round = 0
        /\ symptoms \in Episodes /\ ruleOnly \in BOOLEAN /\ budget \in Budgets
        /\ disk = Empty /\ torn = FALSE /\ wiki = Empty /\ heard = << >>
        /\ diagnosis = Undiagnosed /\ fate = Blank /\ ring = << >> /\ alias = NoRound
        /\ log = [stages |-> {}, first |-> Blank] /\ lessons = {} /\ stops = 0
-----------------------------------------------------------------------------
(* An event names its incident, or its episode's key only, which is the    *)
(* same in every round, or neither; of is the round that published it.     *)
Keyed(stage) == [stage |-> stage, names |-> "key", of |-> round, state |-> Blank]
Named(stage) == [stage |-> stage, names |-> "incident", of |-> round, state |-> Blank]
Bare(stage) == [stage |-> stage, names |-> "none", of |-> round, state |-> Blank]

Newest(s) == IF Len(s) <= MaxEvents THEN s ELSE SubSeq(s, Len(s) - MaxEvents + 1, Len(s))

Logged(s) == [log EXCEPT !.stages = @ \cup {s[i].stage : i \in DOMAIN s}]

(* Slip: the key's first incident is kept.                                 *)
ShowFirst(s) ==
  /\ ring' = Newest(ring \o s)
  /\ alias' = IF alias = NoRound /\ \E i \in DOMAIN s : s[i].names = "incident"
              THEN round ELSE alias

(* _ingest_op: an event goes to the ring, and one that names its incident  *)
(* beside its episode's key makes the key stand for that incident.         *)
Show(s) ==
  /\ ring' = Newest(ring \o s)
  /\ alias' = IF \E i \in DOMAIN s : s[i].names = "incident" THEN round ELSE alias

(* Events published one after the other: recorder first, then dashboard.   *)
Publish(s) == Show(s) /\ log' = Logged(s)
-----------------------------------------------------------------------------
(* Slip: the wiki is not read again once its directory is known.           *)
PerceiveUnread ==
  /\ pc = "idle" /\ round < MaxRounds /\ ~torn
  /\ pc' = "diagnose" /\ round' = round + 1
  /\ heard' = << >> /\ diagnosis' = Undiagnosed /\ fate' = Blank
  /\ LET ep == [Keyed("perceive") EXCEPT !.of = round + 1] IN Publish(<<ep>>)
  /\ UNCHANGED <<started, files, wiki, stops>>

(* run_demo, to the episode.  Each round loads the wiki and takes a client *)
(* with a budget of its own; half a file fails the load, and the loop.     *)
Perceive ==
  /\ pc = "idle" /\ round < MaxRounds /\ ~torn
  /\ pc' = "diagnose" /\ round' = round + 1
  /\ wiki' = disk /\ heard' = << >> /\ diagnosis' = Undiagnosed /\ fate' = Blank
  /\ LET ep == [Keyed("perceive") EXCEPT !.of = round + 1] IN Publish(<<ep>>)
  /\ UNCHANGED <<started, files, stops>>

LoadFails ==
  /\ pc = "idle" /\ torn
  /\ pc' = "dead"
  /\ UNCHANGED <<started, round, files, wiki, heard, diagnosis, fate, ring, alias, log, stops>>

Conclude(to, cause, mode) ==
  /\ pc' = to /\ diagnosis' = [cause |-> cause, mode |-> mode]
  /\ UNCHANGED <<started, round, files, wiki, fate, ring, alias, log, stops>>

(* diagnose: the wiki first; else the top hypothesis as it is (rule_only)  *)
(* or debated.                                                             *)
Diagnose ==
  /\ pc = "diagnose" /\ UNCHANGED heard
  /\ \/ \E c \in Matches(wiki, symptoms) : Conclude("diagnosed", c, "runbook_hit")
     \/ /\ Matches(wiki, symptoms) = {}
        /\ \/ ruleOnly /\ Conclude("diagnosed", CauseOf[symptoms], "rule_only")
           \/ ~ruleOnly /\ Conclude("proposer", CauseOf[symptoms], "single_pass_fallback")

(* Slip: the debate goes on without the answer it did not get.             *)
NoAnswerGoesOn(role) ==
  /\ pc = role /\ UNCHANGED heard
  /\ CASE role = "proposer" -> Conclude("critic", diagnosis.cause, "single_pass_fallback")
       [] role = "critic"   -> Conclude("arbiter", diagnosis.cause, "single_pass_fallback")
       [] role = "arbiter"  -> Conclude("diagnosed", diagnosis.cause, "single_pass_fallback")

(* complete_json returns None: the budget is spent, or the backend's       *)
(* answer is none.  What was proposed stands.                              *)
NoAnswer(role) ==
  /\ pc = role /\ UNCHANGED heard
  /\ Conclude("diagnosed", diagnosis.cause, "single_pass_fallback")

(* An answer in time; the proposer's and the arbiter's names a cause, or   *)
(* leaves it.  The critic's is only passed on.                             *)
Answer(role, cause) ==
  /\ pc = role /\ Len(heard) < budget
  /\ heard' = Append(heard, cause)
  /\ CASE role = "proposer" -> Conclude("critic", cause, "single_pass_fallback")
       [] role = "critic"   -> Conclude("arbiter", diagnosis.cause, "single_pass_fallback")
       [] role = "arbiter"  -> Conclude("diagnosed", cause, "debate")

Roles == {"proposer", "critic", "arbiter"}

(* The backend raises in time, or answers with no object: nothing catches  *)
(* it.                                                                     *)
AnswerRaises(role) ==
  /\ pc = role /\ Len(heard) < budget
  /\ pc' = "dead"
  /\ UNCHANGED <<started, round, files, wiki, heard, diagnosis, fate, ring, alias, log, stops>>

(* max_wall_seconds pass without an answer.  None is as good as returned,  *)
(* but leaving the executor's with-block waits for the call to end: the    *)
(* loop stands for as long as the backend hangs, which may be for ever.    *)
TimesOut(role) ==
  /\ pc = role /\ Len(heard) < budget
  /\ pc' = "late"
  /\ UNCHANGED <<started, round, files, wiki, heard, diagnosis, fate, ring, alias, log, stops>>

(* The call ends after all: what it answers or raises is dropped, and it   *)
(* has cost nothing of the budget.                                         *)
LateEnds ==
  /\ pc = "late" /\ UNCHANGED heard
  /\ Conclude("diagnosed", diagnosis.cause, "single_pass_fallback")
-----------------------------------------------------------------------------
Step(from, to, s) ==
  /\ pc = from /\ pc' = to
  /\ Publish(s)
  /\ UNCHANGED <<started, round, files, heard, diagnosis, stops>>

(* The diagnosis is published; run makes the incident and decides.         *)
Decide ==
  /\ Step("diagnosed", "execute",
          <<Keyed("diagnose"), Named("incident"), Named("decide"), Named("incident")>>)
  /\ UNCHANGED <<wiki, fate>>

(* The shield lets the winner pass, and the command leaves, or not.        *)
Execute ==
  /\ Step("execute", "verify",
          <<Named("shield"), Bare("act"), Named("status"), Named("incident"), Named("incident")>>)
  /\ UNCHANGED <<wiki, fate>>

Escalate ==
  /\ Step("execute", "report", <<Named("shield"), Named("status"), Named("incident")>>)
  /\ fate' = "ESCALATED" /\ UNCHANGED wiki

(* verify_outcome: improved is resolved and learned from, anything else is *)
(* left in DIAGNOSING for a retry.                                         *)
Resolve ==
  /\ Step("verify", "save", <<Named("verify")>>)
  /\ fate' = "RESOLVED" /\ wiki' = Resolution(wiki, symptoms, diagnosis.cause)

Retry ==
  /\ Step("verify", "report", <<Named("verify"), Named("incident")>>)
  /\ fate' = "DIAGNOSING" /\ UNCHANGED wiki

(* save: the entry's file is emptied, then written.                        *)
OpenFile ==
  /\ pc = "save"
  /\ pc' = "write" /\ torn' = TRUE
  /\ UNCHANGED <<started, round, disk, lessons, wiki, heard, diagnosis, fate, ring, alias, log,
                 stops>>

WriteFile ==
  /\ pc = "write"
  /\ pc' = "learn" /\ torn' = FALSE /\ disk' = wiki
  /\ lessons' = lessons \cup {[tokens |-> symptoms, cause |-> diagnosis.cause]}
  /\ UNCHANGED <<started, round, wiki, heard, diagnosis, fate, ring, alias, log, stops>>

Learn == /\ Step("learn", "report", <<Named("learn"), Named("incident")>>)
         /\ UNCHANGED <<wiki, fate>>

(* The result, whose state an escalated run does not report; the shield's  *)
(* rehearsal, which publishes a block; and the round's badge.              *)
Report ==
  /\ pc = "report" /\ pc' = "idle"
  /\ LET executed == fate # "ESCALATED"
         s == <<[Named("result") EXCEPT !.state = IF executed THEN fate ELSE Blank],
                Named("shield"), Named("status"), Named("demo")>> IN
     /\ Show(s)
     /\ log' = IF log.first # Blank THEN Logged(s)
               ELSE [Logged(s) EXCEPT !.first = IF executed THEN "executed" ELSE "not"]
  /\ UNCHANGED <<started, round, files, wiki, heard, diagnosis, fate, stops>>

(* The rounds are over: smoke asserts over the whole log, to which earlier *)
(* processes wrote too, and takes its first result.                        *)
Smoke ==
  /\ pc = "idle" /\ round > 0
  /\ pc' = IF {"perceive", "diagnose", "act"} \subseteq log.stages /\ log.first = "executed"
           THEN "served" ELSE "dead"
  /\ UNCHANGED <<started, round, files, wiki, heard, diagnosis, fate, ring, alias, log, stops>>

(* The process stops, and is started again with the files it left.         *)
Stop ==
  /\ pc # "dead" /\ stops < MaxStops
  /\ pc' = "dead" /\ stops' = stops + 1
  /\ UNCHANGED <<started, round, files, wiki, heard, diagnosis, fate, ring, alias, log>>

Restart ==
  /\ pc = "dead" /\ round < MaxRounds
  /\ pc' = "idle"
  /\ symptoms' \in Episodes /\ ruleOnly' \in BOOLEAN /\ budget' \in Budgets
  /\ wiki' = Empty /\ heard' = << >> /\ diagnosis' = Undiagnosed /\ fate' = Blank
  /\ ring' = << >> /\ alias' = NoRound
  /\ UNCHANGED <<round, files, log, stops>>

Next == \/ Perceive \/ LoadFails \/ Diagnose
        \/ \E r \in Roles : \/ NoAnswer(r) \/ AnswerRaises(r) \/ TimesOut(r)
                           \/ \E c \in Causes : Answer(r, c)
        \/ LateEnds
        \/ Decide \/ Execute \/ Escalate \/ Resolve \/ Retry
        \/ OpenFile \/ WriteFile \/ Learn \/ Report
        \/ Smoke \/ Stop \/ Restart

(* No fairness: a backend that hangs may hold the loop for good.           *)
Spec == Init /\ [][Next]_vars
-----------------------------------------------------------------------------
(* snapshot: an event belongs to the incident it names, or that its key    *)
(* stands for by now; a card shows the last event of each stage.           *)
CardOf(e) == CASE e.names = "incident" -> e.of
               [] e.names = "key" -> alias
               [] OTHER -> NoRound

OnCard(i, stage) ==
  LET at == {k \in DOMAIN ring : CardOf(ring[k]) = i /\ ring[k].stage = stage} IN
  IF at = {} THEN {} ELSE {ring[CHOOSE k \in at : \A j \in at : j <= k]}

InRound == pc \notin {"idle", "dead", "served"}

(* The wiki, the round's diagnosis and the dashboard hold what the code    *)
(* can put there; within a round the wiki knows all the files did.         *)
TypeOK ==
  /\ DOMAIN disk \subseteq Causes
  /\ \A c \in DOMAIN disk :
       /\ disk[c].tokens \subseteq UNION Episodes /\ disk[c].occurrences \in 1..round
       /\ InRound => c \in DOMAIN wiki /\ disk[c].occurrences <= wiki[c].occurrences
  /\ diagnosis \in [cause : Causes, mode : Modes] /\ heard \in Seq(Causes) /\ Len(heard) <= budget
  /\ Len(ring) <= MaxEvents /\ alias \in 0..round
  /\ diagnosis.mode = "runbook_hit" => \E l \in lessons : l.cause = diagnosis.cause

(* All that was taught about a cause.                                      *)
Known(cause) == UNION {l.tokens : l \in {k \in lessons : k.cause = cause}}

(* What a resolved incident taught is found again when its symptoms come   *)
(* back (harness_loop.py:83), in this process or a later one.  It is lost  *)
(* in two ways only: with a file that a stop left half written, which no   *)
(* later round gets past; or by symptoms too few to be matched, or too     *)
(* small a part of all that has been taught about their cause.             *)
LearnsFromSuccess ==
  /\ torn /\ InRound => pc = "write"
  /\ \A l \in lessons :
       \/ torn \/ Matches(disk, l.tokens) # {}
       \/ l.tokens = {} \/ Cardinality(l.tokens) < MinTokens
       \/ Num * Cardinality(Known(l.cause)) > Den * Cardinality(l.tokens)

(* A diagnosis is what its mode says of it (AD-13): a debate heard all     *)
(* three roles and took the arbiter's cause; a fallback did not, and took  *)
(* the proposer's cause if it heard it and the top hypothesis if not; the  *)
(* wiki and the bare rules asked nobody.  Answers that were late, none, or *)
(* beyond the budget in any role make no difference to that.               *)
DebateIsHeard ==
  /\ diagnosis.mode = "debate" => Len(heard) = 3 /\ diagnosis.cause = heard[3]
  /\ diagnosis.mode = "single_pass_fallback" =>
       /\ Len(heard) < 3
       /\ diagnosis.cause = IF heard = << >> THEN CauseOf[symptoms] ELSE heard[1]
  /\ diagnosis.mode \in {"runbook_hit", "rule_only"} => heard = << >>

(* When a round is over, its incident's card on the dashboard is whole and *)
(* all of it the round's own, although the episode's key was every earlier *)
(* round's as well (dashboard.py:304); it shows the state the incident was *)
(* left in, where its command was sent.                                    *)
LatestIsWhole ==
  (pc = "idle" /\ fate # Blank) =>
    /\ \A stage \in {"perceive", "diagnose", "decide", "incident", "shield", "result"} :
         OnCard(round, stage) # {} /\ \A e \in OnCard(round, stage) : e.of = round
    /\ \A e \in OnCard(round, "result") : e.state = IF fate = "ESCALATED" THEN Blank ELSE fate
=============================================================================
