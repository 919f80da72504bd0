--------------------------- MODULE GuardedAction ---------------------------
(***************************************************************************)
(* The guarded-action pipeline: one diagnosis after the other is turned    *)
(* into an incident, a candidate action, a shielded command, and a verdict *)
(* on its effect, from which the incident is resolved, retried or          *)
(* escalated and the resolved ones are learned from.  One thread runs it;  *)
(* a step is one committed write or one published message, because the     *)
(* process may stop, and a publish or a file write may fail, after each.   *)
(***************************************************************************)
EXTENDS IncidentTable

CONSTANTS IncidentIds, NoId, RetryMax, IncidentTtl,
          MaxTime,     \* bound on the wall clock
          MaxStops     \* crashes and failed calls

ASSUME NoIdAssumption == NoId \notin IncidentIds
ASSUME RunAssumption == {RetryMax, IncidentTtl, MaxTime, MaxStops} \subseteq Nat

VARIABLES
  incidents,  \* the FSM's table
  run,        \* the pipeline's locals
  sent,       \* commands published: <<incident, command, target>>
  verdicts,   \* ops/verify events: incident -> classification
  occurrences,\* of the runbook of the one root cause seen
  metrics,    \* incidents with a metric row
  time,       \* wall clock
  stops

vars == <<incidents, run, sent, verdicts, occurrences, metrics, time, stops>>

(* The two commands of mapping.yaml, in tenths of their unit. *)
Commands ==
  {[name |-> "fc_controller", min |-> 0, max |-> 500,
    safeMin |-> 10, safeMax |-> 400, default |-> 100],
   [name |-> "pressure_controller", min |-> 0, max |-> 2000,
    safeMin |-> 100, safeMax |-> 1800, default |-> 1000]}

Clamp(c, x) == IF x < c.safeMin THEN c.safeMin ELSE IF x > c.safeMax THEN c.safeMax ELSE x

(* generate: two reductions of the default by a part of the safe span, and *)
(* what the red team adds.  Scoring picks one of these, or to do nothing.  *)
Targets(c) ==
  LET span == c.safeMax - c.safeMin IN
    {Clamp(c, c.default - (k * span) \div 5) : k \in {1, 2}} \cup {(c.max * 3) \div 2, -5}

NoAction == [noop |-> TRUE]

Winners == {NoAction} \cup
  UNION {{[noop |-> FALSE, command |-> c, target |-> x] : x \in Targets(c)} : c \in Commands}

Idle == [pc |-> "idle", id |-> NoId, ts |-> 0, winner |-> NoAction, verdict |-> ""]

Init == /\ incidents = << >>
        /\ run = Idle
        /\ sent = {} /\ verdicts = << >> /\ occurrences = 0 /\ metrics = {}
        /\ time = 0 /\ stops = 0

At(pc) == run.pc = pc
Me == run.id
Go(pc) == run' = [run EXCEPT !.pc = pc]

(* transition on the running incident, stamped with the diagnosis' time. *)
Move(ev, pc) ==
  /\ \E to \in NextIncidentState(ev, incidents[Me].state) :
       incidents' = [incidents EXCEPT ![Me].state = to, ![Me].updated = run.ts]
  /\ Go(pc)
  /\ UNCHANGED <<sent, verdicts, occurrences, metrics, time, stops>>
-----------------------------------------------------------------------------
(* run, up to the plan.  create() is given no time and takes the wall      *)
(* clock; the diagnosis carries the event time of replayed telemetry.      *)
Create(i, ts) ==
  /\ At("idle") /\ i \notin DOMAIN incidents
  /\ incidents' = [j \in DOMAIN incidents \cup {i} |->
                     IF j = i THEN [state |-> "DETECTED", retries |-> 0, updated |-> time]
                     ELSE incidents[j]]
  /\ run' = [pc |-> "detect", id |-> i, ts |-> ts, winner |-> NoAction, verdict |-> ""]
  /\ UNCHANGED <<sent, verdicts, occurrences, metrics, time, stops>>

StartDetected == At("detect") /\ Move("start_detected", "diagnose")
Diagnose == At("diagnose") /\ Move("diagnose", "decide")

Decide(w) ==
  /\ At("decide")
  /\ run' = [run EXCEPT !.pc = "plan", !.winner = w]
  /\ UNCHANGED <<incidents, sent, verdicts, occurrences, metrics, time, stops>>

Plan == At("plan") /\ Move("plan", "execute")

(* SafetyShield.evaluate. *)
Allows(w) ==
  /\ ~w.noop
  /\ w.command.safeMin <= w.target /\ w.target <= w.command.safeMax
  /\ w.command.min <= w.target /\ w.target <= w.command.max

(* ActExecutor.execute: the verdict's event, then the command. *)
Execute ==
  /\ At("execute")
  /\ IF Allows(run.winner)
     THEN /\ sent' = sent \cup {<<Me, run.winner.command, run.winner.target>>}
          /\ Go("act")
     ELSE Go("escalate") /\ UNCHANGED sent
  /\ UNCHANGED <<incidents, verdicts, occurrences, metrics, time, stops>>

Escalate == At("escalate") /\ Move("escalate", "idle")
Act == At("act") /\ Move("act", "verify")
Verify == At("verify") /\ Move("verify", "classify")

(* classify: from means of floating-point samples, here any of its values. *)
Classify(c) ==
  /\ At("classify")
  /\ run' = [run EXCEPT !.pc = "outcome", !.verdict = c]
  /\ verdicts' = [i \in DOMAIN verdicts \cup {Me} |-> IF i = Me THEN c ELSE verdicts[i]]
  /\ UNCHANGED <<incidents, sent, occurrences, metrics, time, stops>>

(* Slip: whatever did not make things worse resolves the incident. *)
ImprovedOrNot == run.verdict # "worsened"
Improved == run.verdict = "improved"

Retried(state, more) ==
  /\ incidents' = [incidents EXCEPT ![Me].state = state, ![Me].updated = run.ts,
                                    ![Me].retries = @ + more]
  /\ Go("idle")
  /\ UNCHANGED <<sent, verdicts, occurrences, metrics, time, stops>>

RetryOrEscalate(state, more) ==
  IF incidents[Me].retries < RetryMax THEN Retried(state, more) ELSE Move("escalate", "idle")

(* Slips: the name of the event is written for the state; a retry is not   *)
(* counted; the hook is run before the resolve is committed.               *)
OutcomeNamed ==
  /\ At("outcome")
  /\ \/ Improved /\ Move("resolve", "distill")
     \/ ~Improved /\ RetryOrEscalate("retry", 1)

OutcomeUncounted ==
  /\ At("outcome")
  /\ \/ Improved /\ Move("resolve", "distill")
     \/ ~Improved /\ RetryOrEscalate("DIAGNOSING", 0)

OutcomeLearnsFirst ==
  /\ At("outcome")
  /\ \/ Improved /\ Go("distill")
        /\ UNCHANGED <<incidents, sent, verdicts, occurrences, metrics, time, stops>>
     \/ ~Improved /\ RetryOrEscalate("DIAGNOSING", 1)

(* verify_outcome.  A retry writes DIAGNOSING by itself, and run returns.  *)
(* Nothing in the program runs the incident again, so that the bound on    *)
(* retries is met only when it is zero.                                    *)
VerifyOutcome ==
  /\ At("outcome")
  /\ \/ Improved /\ Move("resolve", "distill")
     \/ ~Improved /\ RetryOrEscalate("DIAGNOSING", 1)

(* The distill hook, after the resolve is committed: runbook, then metric. *)
Distill ==
  /\ At("distill")
  /\ occurrences' = occurrences + 1
  /\ Go("record")
  /\ UNCHANGED <<incidents, sent, verdicts, metrics, time, stops>>

Record ==
  /\ At("record")
  /\ metrics' = metrics \cup {Me}
  /\ Go("idle")
  /\ UNCHANGED <<incidents, sent, verdicts, occurrences, time, stops>>
-----------------------------------------------------------------------------
(* Slip: closed incidents are swept too. *)
SweepAll(i) ==
  /\ At("idle") /\ i \in DOMAIN incidents
  /\ time - incidents[i].updated > IncidentTtl
  /\ incidents' = [incidents EXCEPT ![i].state = "ESCALATED", ![i].updated = time]
  /\ UNCHANGED <<run, sent, verdicts, occurrences, metrics, time, stops>>

(* Slip: whoever sweeps does not wait for the pipeline to be idle. *)
SweepRunning(i) ==
  /\ i \in DOMAIN incidents /\ incidents[i].state \notin IncidentTerminal
  /\ time - incidents[i].updated > IncidentTtl
  /\ incidents' = [incidents EXCEPT ![i].state = "ESCALATED", ![i].updated = time]
  /\ UNCHANGED <<run, sent, verdicts, occurrences, metrics, time, stops>>

(* resume_unfinished, between runs, by whoever restarts the store.         *)
Sweep(i) ==
  /\ At("idle") /\ i \in DOMAIN incidents
  /\ incidents[i].state \notin IncidentTerminal
  /\ time - incidents[i].updated > IncidentTtl
  /\ incidents' = [incidents EXCEPT ![i].state = "ESCALATED", ![i].updated = time]
  /\ UNCHANGED <<run, sent, verdicts, occurrences, metrics, time, stops>>

(* The process stops, or an unguarded publish or write raises out of run.  *)
Stop == /\ stops < MaxStops /\ ~At("idle")
        /\ stops' = stops + 1
        /\ run' = Idle
        /\ UNCHANGED <<incidents, sent, verdicts, occurrences, metrics, time>>

Tick == /\ time < MaxTime
        /\ time' = time + 1
        /\ UNCHANGED <<incidents, run, sent, verdicts, occurrences, metrics, stops>>

Next == \/ \E i \in IncidentIds, ts \in 0..MaxTime : ts <= time /\ Create(i, ts)
        \/ StartDetected \/ Diagnose \/ (\E w \in Winners : Decide(w)) \/ Plan
        \/ Execute \/ Escalate \/ Act \/ Verify
        \/ \E c \in {"improved", "no_change", "worsened"} : Classify(c)
        \/ VerifyOutcome \/ Distill \/ Record
        \/ \E i \in IncidentIds : Sweep(i)
        \/ Stop \/ Tick

Spec == Init /\ [][Next]_vars
-----------------------------------------------------------------------------
(* The table, the pipeline's locals and what was learned hold only what    *)
(* the code can put there; a run belongs to an incident of the table.      *)
TypeOK ==
  /\ DOMAIN incidents \subseteq IncidentIds
  /\ \A i \in DOMAIN incidents :
       incidents[i] \in [state : IncidentStates, retries : 0..RetryMax, updated : 0..MaxTime]
  /\ run.winner \in Winners /\ run.verdict \in {"", "improved", "no_change", "worsened"}
  /\ ~At("idle") => Me \in DOMAIN incidents
  /\ metrics \subseteq IncidentIds /\ occurrences \in Nat

Acted(i) == \E s \in sent : s[1] = i
Resolved == {i \in DOMAIN incidents : incidents[i].state = "RESOLVED"}

(* No silent completion (AD-9): a resolved incident had its command        *)
(* executed and its effect verified as an improvement, whatever stopped,   *)
(* failed or was swept in between.                                         *)
ResolvedWasImproved ==
  \A i \in Resolved : Acted(i) /\ i \in DOMAIN verdicts /\ verdicts[i] = "improved"

(* A command that left is never forgotten: its incident stands at least    *)
(* where the command was planned, or has counted the attempt as a retry,   *)
(* and it is never sent twice.                                             *)
ActedIsTracked ==
  \A i \in IncidentIds :
    Acted(i) =>
      /\ i \in DOMAIN incidents
      /\ \/ incidents[i].state \notin {"DETECTED", "DIAGNOSING"}
         \/ incidents[i].retries > 0
      /\ Cardinality({s \in sent : s[1] = i}) = 1

(* Learning is from resolved incidents only, and each counts once (AD-3,   *)
(* AD-11): a stop between resolve and hook may lose a lesson, never make   *)
(* one up.                                                                 *)
LearnedFromResolved ==
  metrics \subseteq Resolved /\ occurrences <= Cardinality(Resolved)

(* What is closed stays closed, its row untouched: the retry, which writes *)
(* DIAGNOSING past the table (fsm.py:182), never takes up an incident that *)
(* the sweep or the pipeline has already escalated or resolved, and the    *)
(* sweep never ages one, however runs, stops and sweeps follow each other. *)
ClosedIsFinal ==
  [][\A i \in DOMAIN incidents :
       incidents[i].state \in IncidentTerminal => incidents'[i] = incidents[i]]_vars

Fsm == INSTANCE IncidentStore

(* Every write of the pipeline and the sweep is one the incident FSM       *)
(* offers: its states move along the table or by a counted retry.          *)
UsesFsm == Fsm!Spec
=============================================================================
