------------------------ MODULE GuardedActionProofs ------------------------
(***************************************************************************)
(* Theorems about the guarded-action pipeline, for any incidents, retry    *)
(* bound, TTL, clock and number of stops.                                  *)
(***************************************************************************)
EXTENDS GuardedAction, FiniteSetTheorems, TLAPS

(* A step of the table leads to a state of the FSM, and only a resolve     *)
(* leads to RESOLVED.                                                      *)
LEMMA TableLemma ==
  ASSUME NEW ev, NEW s, NEW to \in NextIncidentState(ev, s)
  PROVE  to \in IncidentStates /\ (to = "RESOLVED" => ev = "resolve")
BY DEF NextIncidentState, IncidentTransitions, IncidentStates, IncidentTerminal

Rows == [state : IncidentStates, retries : 0..RetryMax, updated : 0..MaxTime]
Classes == {"improved", "no_change", "worsened"}
Points == {"idle", "detect", "diagnose", "decide", "plan", "execute", "act", "escalate",
           "verify", "classify", "outcome", "distill", "record"}
Runs == [pc : Points, id : IncidentIds \cup {NoId}, ts : 0..MaxTime,
         winner : Winners, verdict : Classes \cup {""}]

(* TypeOK with what it rests on: the table is a function of such rows, the *)
(* locals are a record, and the clock stays within its bound.              *)
Typed ==
  /\ DOMAIN incidents \subseteq IncidentIds
  /\ incidents \in [DOMAIN incidents -> Rows]
  /\ run \in Runs
  /\ run.pc # "idle" => run.id \in DOMAIN incidents
  /\ metrics \subseteq IncidentIds /\ occurrences \in Nat
  /\ time \in 0..MaxTime

LEMMA IdleLemma == Idle \in Runs /\ Idle.pc = "idle"
<1>1. NoAction \in Winners
  BY DEF Winners
<1> QED BY <1>1, RunAssumption DEF Idle, Runs, Points

LEMMA TypedInit == Init => Typed
<1> SUFFICES ASSUME Init PROVE Typed
  OBVIOUS
<1>1. DOMAIN incidents = {} /\ incidents \in [{} -> Rows]
  BY DEF Init
<1>2. time \in 0..MaxTime /\ metrics = {} /\ occurrences \in Nat
  BY RunAssumption DEF Init
<1> QED BY <1>1, <1>2, IdleLemma DEF Init, Typed

(* A move along the table keeps the types, wherever the run goes on.       *)
LEMMA MoveTyped ==
  ASSUME NEW ev, NEW pc \in Points, Typed, run.pc # "idle", Move(ev, pc)
  PROVE  Typed'
<1>1. PICK to \in NextIncidentState(ev, incidents[Me].state) :
        incidents' = [incidents EXCEPT ![Me].state = to, ![Me].updated = run.ts]
  BY DEF Move
<1>2. to \in IncidentStates
  BY TableLemma
<1>3. /\ DOMAIN incidents' = DOMAIN incidents
      /\ incidents' \in [DOMAIN incidents -> Rows]
  BY <1>1, <1>2 DEF Typed, Rows, Runs, Me
<1>4. run' \in Runs /\ run'.id = run.id
  BY DEF Move, Go, Typed, Runs
<1> QED BY <1>3, <1>4 DEF Move, Typed
LEMMA RetriedTyped ==
  ASSUME NEW more \in 0..1, Typed, run.pc # "idle", incidents[Me].retries < RetryMax,
         Retried("DIAGNOSING", more)
  PROVE  Typed'
<1>1. "DIAGNOSING" \in IncidentStates
  BY DEF IncidentStates
<1>2. Me \in DOMAIN incidents /\ incidents[Me].retries + more \in 0..RetryMax
  BY RunAssumption DEF Typed, Rows, Me
<1>3. /\ DOMAIN incidents' = DOMAIN incidents
      /\ incidents' \in [DOMAIN incidents -> Rows]
  BY <1>1, <1>2, ZenonT(60) DEF Retried, Typed, Rows, Runs, Me
<1>4. run' \in Runs /\ run'.pc = "idle"
  BY DEF Retried, Go, Typed, Runs, Points
<1> QED BY <1>3, <1>4 DEF Retried, Typed

LEMMA TypedNext == Typed /\ [Next]_vars => Typed'
<1> SUFFICES ASSUME Typed, [Next]_vars PROVE Typed'
  OBVIOUS
<1>1. ASSUME NEW i \in IncidentIds, NEW ts \in 0..MaxTime, Create(i, ts) PROVE Typed'
  <2>1. [state |-> "DETECTED", retries |-> 0, updated |-> time] \in Rows
    BY RunAssumption DEF Rows, IncidentStates, Typed
  <2>2. /\ DOMAIN incidents' = DOMAIN incidents \cup {i}
        /\ incidents' \in [DOMAIN incidents \cup {i} -> Rows]
    BY <1>1, <2>1 DEF Create, Typed
  <2>3. NoAction \in Winners
    BY DEF Winners
  <2>4. run' \in Runs /\ run'.id = i
    BY <1>1, <2>3 DEF Create, Runs, Points
  <2> QED BY <1>1, <2>2, <2>4 DEF Create, Typed
<1>2. CASE StartDetected
  BY <1>2, MoveTyped DEF StartDetected, At, Points
<1>3. CASE Diagnose
  BY <1>3, MoveTyped DEF Diagnose, At, Points
<1>4. ASSUME NEW w \in Winners, Decide(w) PROVE Typed'
  <2>1. run' \in Runs /\ run'.id = run.id /\ run.pc # "idle"
    BY <1>4 DEF Decide, At, Typed, Runs, Points
  <2> QED BY <1>4, <2>1 DEF Decide, Typed
<1>5. CASE Plan
  BY <1>5, MoveTyped DEF Plan, At, Points
<1>6. CASE Execute
  <2>1. run' \in Runs /\ run'.id = run.id /\ run.pc # "idle"
    <3>1. CASE Allows(run.winner)
      BY <1>6, <3>1 DEF Execute, Go, At, Typed, Runs, Points
    <3>2. CASE ~Allows(run.winner)
      BY <1>6, <3>2 DEF Execute, Go, At, Typed, Runs, Points
    <3> QED BY <3>1, <3>2
  <2> QED BY <1>6, <2>1 DEF Execute, Typed
<1>7. CASE Escalate
  BY <1>7, MoveTyped DEF Escalate, At, Points
<1>8. CASE Act
  BY <1>8, MoveTyped DEF Act, At, Points
<1>9. CASE Verify
  BY <1>9, MoveTyped DEF Verify, At, Points
<1>10. ASSUME NEW c \in Classes, Classify(c) PROVE Typed'
  <2>1. run' \in Runs /\ run'.id = run.id /\ run.pc # "idle"
    BY <1>10 DEF Classify, At, Typed, Runs, Points
  <2> QED BY <1>10, <2>1 DEF Classify, Typed
<1>11. CASE VerifyOutcome
  <2>1. run.pc # "idle"
    BY <1>11 DEF VerifyOutcome, At
  <2>2. CASE Move("resolve", "distill")
    BY <2>1, <2>2, MoveTyped DEF Points
  <2>3. CASE Retried("DIAGNOSING", 1) /\ incidents[Me].retries < RetryMax
    BY <2>1, <2>3, RetriedTyped
  <2>4. CASE Move("escalate", "idle")
    BY <2>1, <2>4, MoveTyped DEF Points
  <2> QED BY <1>11, <2>2, <2>3, <2>4 DEF VerifyOutcome, RetryOrEscalate
<1>12. CASE Distill
  <2>1. run' \in Runs /\ run'.id = run.id /\ run.pc # "idle"
    BY <1>12 DEF Distill, Go, At, Typed, Runs, Points
  <2> QED BY <1>12, <2>1 DEF Distill, Typed
<1>13. CASE Record
  <2>1. run' \in Runs /\ run'.pc = "idle" /\ Me \in DOMAIN incidents
    BY <1>13 DEF Record, Go, At, Me, Typed, Runs, Points
  <2> QED BY <1>13, <2>1 DEF Record, Typed
<1>14. ASSUME NEW i \in IncidentIds, Sweep(i) PROVE Typed'
  <2>1. "ESCALATED" \in IncidentStates
    BY DEF IncidentStates, IncidentTerminal
  <2>2. /\ DOMAIN incidents' = DOMAIN incidents
        /\ incidents' \in [DOMAIN incidents -> Rows]
    BY <1>14, <2>1 DEF Sweep, Typed, Rows
  <2> QED BY <1>14, <2>2 DEF Sweep, Typed
<1>15. CASE Stop
  BY <1>15, IdleLemma DEF Stop, Typed
<1>16. CASE Tick
  BY <1>16, RunAssumption DEF Tick, Typed
<1>17. CASE UNCHANGED vars
  BY <1>17 DEF vars, Typed
<1> QED BY <1>1, <1>2, <1>3, <1>4, <1>5, <1>6, <1>7, <1>8, <1>9, <1>10, <1>11, <1>12, <1>13,
           <1>14, <1>15, <1>16, <1>17 DEF Next, Classes

(* The table, the locals and what was learned are well formed in every     *)
(* behaviour of the pipeline, stops and sweeps included.                   *)
THEOREM TypeCorrect == Spec => []TypeOK
<1>1. Typed => TypeOK
  <2> SUFFICES ASSUME Typed PROVE TypeOK
    OBVIOUS
  <2>1. \A i \in DOMAIN incidents : incidents[i] \in Rows
    BY DEF Typed
  <2>2. run.winner \in Winners /\ run.verdict \in Classes \cup {""}
    BY DEF Typed, Runs
  <2> QED BY <2>1, <2>2 DEF Typed, TypeOK, Rows, Classes, At, Me
<1> QED BY <1>1, TypedInit, TypedNext, PTL DEF Spec
(* What the pipeline knows at each of its points: from act on its command  *)
(* has left; the verdict it is about to apply is the one published last    *)
(* for its incident; and until it resolves it, its incident is not         *)
(* resolved, so that a verdict published now contradicts no resolution.    *)
Working == {"detect", "diagnose", "decide", "plan", "execute", "act", "escalate", "verify",
            "classify", "outcome"}

Knows ==
  /\ verdicts \in [DOMAIN verdicts -> Classes]
  /\ run.pc \in {"act", "verify", "classify", "outcome"} => Acted(Me)
  /\ run.pc = "outcome" => Me \in DOMAIN verdicts /\ verdicts[Me] = run.verdict
  /\ run.pc \in Working => incidents[Me].state # "RESOLVED"

IInv == Typed /\ Knows /\ ResolvedWasImproved

(* A move along the table other than a resolve keeps the invariant when it *)
(* goes on to a point that asks no more than the one it leaves.            *)
LEMMA MoveKeeps ==
  ASSUME NEW ev, NEW pc \in Points \ {"outcome"}, IInv, run.pc # "idle", Move(ev, pc),
         ev # "resolve", pc \in {"act", "verify", "classify"} => Acted(Me)
  PROVE  Knows' /\ ResolvedWasImproved'
<1>1. PICK to \in NextIncidentState(ev, incidents[Me].state) :
        incidents' = [incidents EXCEPT ![Me].state = to, ![Me].updated = run.ts]
  BY DEF Move
<1>2. to # "RESOLVED"
  BY TableLemma
<1>3. /\ DOMAIN incidents' = DOMAIN incidents /\ Me \in DOMAIN incidents
      /\ incidents'[Me].state = to
      /\ \A i \in DOMAIN incidents : i # Me => incidents'[i] = incidents[i]
  BY <1>1 DEF IInv, Typed, Rows, Me
<1>4. Resolved' \subseteq Resolved
  BY <1>2, <1>3 DEF Resolved
<1>5. UNCHANGED <<sent, verdicts>> /\ Me' = Me /\ run'.pc = pc
  BY DEF Move, Go, IInv, Typed, Runs, Me
<1>6. ResolvedWasImproved'
  BY <1>4, <1>5 DEF IInv, ResolvedWasImproved, Acted
<1>7. Knows'
  BY <1>2, <1>3, <1>5 DEF IInv, Knows, Acted
<1> QED BY <1>6, <1>7

(* Steps that leave the table, the commands and the verdicts alone.        *)
LEMMA RestKeeps ==
  ASSUME IInv, UNCHANGED <<incidents, sent, verdicts>>,
         \/ run'.pc \notin Working
         \/ run'.pc \in {"plan", "escalate"} /\ run.pc \in Working /\ Me' = Me
         \/ run' = run
  PROVE  Knows' /\ ResolvedWasImproved'
<1>1. ResolvedWasImproved'
  BY DEF IInv, ResolvedWasImproved, Resolved, Acted
<1>2. Knows'
  BY DEF IInv, Knows, Working, Acted, Me
<1> QED BY <1>1, <1>2

LEMMA KnowsInit == Init => IInv
<1> SUFFICES ASSUME Init PROVE IInv
  OBVIOUS
<1>1. Resolved = {}
  BY DEF Init, Resolved
<1>2. verdicts \in [DOMAIN verdicts -> Classes]
  BY DEF Init
<1>3. run.pc = "idle"
  BY IdleLemma DEF Init
<1> QED BY <1>1, <1>2, <1>3, TypedInit DEF IInv, Knows, Working, ResolvedWasImproved

LEMMA KnowsNext == IInv /\ [Next]_vars => IInv'
<1> SUFFICES ASSUME IInv, [Next]_vars PROVE Knows' /\ ResolvedWasImproved'
  BY TypedNext DEF IInv
<1>1. ASSUME NEW i \in IncidentIds, NEW ts \in 0..MaxTime, Create(i, ts)
      PROVE  Knows' /\ ResolvedWasImproved'
  <2>1. /\ i \notin DOMAIN incidents
        /\ DOMAIN incidents' = DOMAIN incidents \cup {i}
        /\ incidents'[i].state = "DETECTED"
        /\ \A j \in DOMAIN incidents : incidents'[j] = incidents[j]
    BY <1>1 DEF Create
  <2>2. Resolved' \subseteq Resolved
    BY <2>1 DEF Resolved
  <2>3. UNCHANGED <<sent, verdicts>> /\ Me' = i /\ run'.pc = "detect"
    BY <1>1 DEF Create, Me
  <2>4. ResolvedWasImproved'
    BY <2>2, <2>3 DEF IInv, ResolvedWasImproved, Acted
  <2>5. Knows'
    BY <2>1, <2>3 DEF IInv, Knows
  <2> QED BY <2>4, <2>5
<1>2. CASE StartDetected
  BY <1>2, MoveKeeps DEF StartDetected, At, Points
<1>3. CASE Diagnose
  BY <1>3, MoveKeeps DEF Diagnose, At, Points
<1>4. ASSUME NEW w \in Winners, Decide(w) PROVE Knows' /\ ResolvedWasImproved'
  <2>1. run'.pc = "plan" /\ Me' = Me /\ run.pc \in Working
    BY <1>4 DEF Decide, At, Me, Working, IInv, Typed, Runs
  <2> QED BY <1>4, <2>1, RestKeeps DEF Decide
<1>5. CASE Plan
  BY <1>5, MoveKeeps DEF Plan, At, Points
<1>6. CASE Execute
  <2>1. CASE Allows(run.winner)
    <3>1. /\ sent' = sent \cup {<<Me, run.winner.command, run.winner.target>>}
          /\ run'.pc = "act" /\ Me' = Me /\ run.pc = "execute"
          /\ UNCHANGED <<incidents, verdicts>>
      BY <1>6, <2>1 DEF Execute, Go, At, Me, IInv, Typed, Runs
    <3>2. Acted(Me)'
      <4> DEFINE c == <<Me, run.winner.command, run.winner.target>>
      <4>1. c \in sent' /\ c[1] = Me'
        BY <3>1
      <4> HIDE DEF c
      <4> QED BY <4>1 DEF Acted
    <3>3. \A i : Acted(i) => Acted(i)'
      BY <3>1 DEF Acted
    <3>4. ResolvedWasImproved'
      BY <3>1, <3>3 DEF IInv, ResolvedWasImproved, Resolved
    <3>5. Knows'
      BY <3>1, <3>2 DEF IInv, Knows, Working
    <3> QED BY <3>4, <3>5
  <2>2. CASE ~Allows(run.winner)
    <3>1. run'.pc = "escalate" /\ Me' = Me /\ run.pc \in Working
      BY <1>6, <2>2 DEF Execute, Go, At, Me, Working, IInv, Typed, Runs
    <3> QED BY <1>6, <2>2, <3>1, RestKeeps DEF Execute
  <2> QED BY <2>1, <2>2
<1>7. CASE Escalate
  BY <1>7, MoveKeeps DEF Escalate, At, Points
<1>8. CASE Act
  BY <1>8, MoveKeeps DEF Act, At, Points, IInv, Knows
<1>9. CASE Verify
  BY <1>9, MoveKeeps DEF Verify, At, Points, IInv, Knows
<1>10. ASSUME NEW c \in Classes, Classify(c) PROVE Knows' /\ ResolvedWasImproved'
  <2>1. /\ UNCHANGED <<incidents, sent>> /\ run.pc = "classify"
        /\ run'.pc = "outcome" /\ Me' = Me /\ run'.verdict = c
    BY <1>10 DEF Classify, At, Me, IInv, Typed, Runs
  <2>2. /\ verdicts' \in [DOMAIN verdicts' -> Classes]
        /\ DOMAIN verdicts' = DOMAIN verdicts \cup {Me} /\ verdicts'[Me] = c
        /\ \A i \in DOMAIN verdicts : i # Me => verdicts'[i] = verdicts[i]
    BY <1>10 DEF Classify, IInv, Knows
  <2>3. Me \notin Resolved
    BY <2>1 DEF IInv, Knows, Working, Resolved
  <2>4. ResolvedWasImproved'
    BY <2>1, <2>2, <2>3 DEF IInv, ResolvedWasImproved, Resolved, Acted
  <2>5. Knows'
    BY <2>1, <2>2 DEF IInv, Knows, Working, Acted
  <2> QED BY <2>4, <2>5
<1>11. CASE VerifyOutcome
  <2>1. run.pc = "outcome"
    BY <1>11 DEF VerifyOutcome, At
  <2>2. CASE Improved /\ Move("resolve", "distill")
    <3>1. PICK to \in NextIncidentState("resolve", incidents[Me].state) :
            incidents' = [incidents EXCEPT ![Me].state = to, ![Me].updated = run.ts]
      BY <2>2 DEF Move
    <3>2. /\ DOMAIN incidents' = DOMAIN incidents
          /\ \A i \in DOMAIN incidents : i # Me => incidents'[i] = incidents[i]
      BY <3>1
    <3>3. Resolved' \subseteq Resolved \cup {Me}
      BY <3>2 DEF Resolved
    <3>4. Acted(Me) /\ Me \in DOMAIN verdicts /\ verdicts[Me] = "improved"
      BY <2>1, <2>2 DEF IInv, Knows, Improved
    <3>5. UNCHANGED <<sent, verdicts>> /\ run'.pc = "distill"
      BY <2>2 DEF Move, Go, IInv, Typed, Runs
    <3>6. ResolvedWasImproved'
      BY <3>3, <3>4, <3>5 DEF IInv, ResolvedWasImproved, Acted
    <3>7. Knows'
      BY <3>5 DEF IInv, Knows, Working
    <3> QED BY <3>6, <3>7
  <2>3. CASE Retried("DIAGNOSING", 1)
    <3>1. /\ DOMAIN incidents' = DOMAIN incidents /\ Me \in DOMAIN incidents
          /\ incidents'[Me].state = "DIAGNOSING"
          /\ \A i \in DOMAIN incidents : i # Me => incidents'[i] = incidents[i]
      BY <2>1, <2>3 DEF Retried, IInv, Typed, Rows, Me
    <3>2. Resolved' \subseteq Resolved
      BY <3>1 DEF Resolved
    <3>3. UNCHANGED <<sent, verdicts>> /\ run'.pc = "idle"
      BY <2>3 DEF Retried, Go, IInv, Typed, Runs
    <3>4. ResolvedWasImproved'
      BY <3>2, <3>3 DEF IInv, ResolvedWasImproved, Acted
    <3>5. Knows'
      BY <3>3 DEF IInv, Knows, Working
    <3> QED BY <3>4, <3>5
  <2>4. CASE Move("escalate", "idle")
    BY <2>1, <2>4, MoveKeeps DEF Points
  <2> QED BY <1>11, <2>2, <2>3, <2>4 DEF VerifyOutcome, RetryOrEscalate
<1>12. CASE Distill
  <2>1. run'.pc = "record"
    BY <1>12 DEF Distill, Go, IInv, Typed, Runs
  <2> QED BY <1>12, <2>1, RestKeeps DEF Distill, Working
<1>13. CASE Record
  <2>1. run'.pc = "idle"
    BY <1>13 DEF Record, Go, IInv, Typed, Runs
  <2> QED BY <1>13, <2>1, RestKeeps DEF Record, Working
<1>14. ASSUME NEW i \in IncidentIds, Sweep(i) PROVE Knows' /\ ResolvedWasImproved'
  <2>1. /\ DOMAIN incidents' = DOMAIN incidents
        /\ incidents'[i].state = "ESCALATED"
        /\ \A j \in DOMAIN incidents : j # i => incidents'[j] = incidents[j]
    BY <1>14 DEF Sweep, IInv, Typed, Rows
  <2>2. Resolved' \subseteq Resolved
    BY <2>1 DEF Resolved
  <2>3. UNCHANGED <<run, sent, verdicts>> /\ run.pc = "idle"
    BY <1>14 DEF Sweep, At
  <2>4. ResolvedWasImproved'
    BY <2>2, <2>3 DEF IInv, ResolvedWasImproved, Acted
  <2>5. Knows'
    BY <2>3 DEF IInv, Knows, Working
  <2> QED BY <2>4, <2>5
<1>15. CASE Stop
  BY <1>15, IdleLemma, RestKeeps DEF Stop, Working
<1>16. CASE Tick
  BY <1>16, RestKeeps DEF Tick
<1>17. CASE UNCHANGED vars
  BY <1>17, RestKeeps DEF vars
<1> QED BY <1>1, <1>2, <1>3, <1>4, <1>5, <1>6, <1>7, <1>8, <1>9, <1>10, <1>11, <1>12, <1>13,
           <1>14, <1>15, <1>16, <1>17 DEF Next, Classes

(* No silent completion (AD-9): an incident is resolved only after its     *)
(* command has left and the verdict on its effect was an improvement.      *)
THEOREM NoSilentCompletion == Spec => []ResolvedWasImproved
<1>1. IInv => ResolvedWasImproved
  BY DEF IInv
<1> QED BY <1>1, KnowsInit, KnowsNext, PTL DEF Spec

-----------------------------------------------------------------------------
(***************************************************************************)
(* What a move along the table does: one row's state is written, never a   *)
(* resolved one's, and the run goes on.                                    *)
(***************************************************************************)
Rewrites(i, to) ==
  /\ i \in DOMAIN incidents /\ DOMAIN incidents' = DOMAIN incidents
  /\ incidents'[i].state = to
  /\ \A j \in DOMAIN incidents : j # i => incidents'[j] = incidents[j]

Goes(pc) == run'.pc = pc /\ run'.id = run.id

LEMMA MoveEffect ==
  ASSUME IInv, run.pc # "idle", NEW ev, NEW pc, Move(ev, pc)
  PROVE  /\ UNCHANGED <<sent, verdicts, occurrences, metrics>> /\ Goes(pc)
         /\ \E to \in NextIncidentState(ev, incidents[Me].state) :
              Rewrites(Me, to) /\ incidents'[Me].retries = incidents[Me].retries
<1>1. Goes(pc)
  BY DEF Move, Go, Goes, IInv, Typed, Runs
<1>2. Me \in DOMAIN incidents /\ incidents[Me] \in Rows
  BY DEF IInv, Typed, Me
<1>3. PICK to \in NextIncidentState(ev, incidents[Me].state) :
        incidents' = [incidents EXCEPT ![Me].state = to, ![Me].updated = run.ts]
  BY DEF Move
<1>4. Rewrites(Me, to) /\ incidents'[Me].retries = incidents[Me].retries
  BY <1>2, <1>3 DEF Rewrites, Rows, IInv, Typed
<1> QED BY <1>1, <1>3, <1>4 DEF Move

LEMMA FromLemma ==
  ASSUME NEW ev, NEW s, NEW to \in NextIncidentState(ev, s)
  PROVE  /\ s # "RESOLVED"
         /\ to \in {"DETECTED", "DIAGNOSING"} => ev \in {"start_detected", "diagnose", "retry"}
         /\ ev = "plan" => to = "PLANNING"
BY DEF NextIncidentState, IncidentTransitions, IncidentStates, IncidentTerminal

LEMMA RetriedEffect ==
  ASSUME IInv, run.pc # "idle", Retried("DIAGNOSING", 1)
  PROVE  /\ UNCHANGED <<sent, verdicts, occurrences, metrics>> /\ Goes("idle")
         /\ Rewrites(Me, "DIAGNOSING") /\ incidents'[Me].retries > 0
<1>1. Me \in DOMAIN incidents /\ incidents[Me] \in Rows
  BY DEF IInv, Typed, Me
<1>2. Goes("idle")
  BY DEF Retried, Go, Goes, IInv, Typed, Runs
<1>3. Rewrites(Me, "DIAGNOSING") /\ incidents'[Me].retries = incidents[Me].retries + 1
  BY <1>1 DEF Retried, Rewrites, Rows, IInv, Typed
<1>4. incidents[Me].retries \in Nat
  BY <1>1, RunAssumption DEF Rows
<1> QED BY <1>2, <1>3, <1>4 DEF Retried

(***************************************************************************)
(* A command that left.  Until the run has sent its command the incident   *)
(* has none, since its id was new; when it sends, the row is in PLANNING,  *)
(* since no sweep comes between; and from there the states before the plan *)
(* are reached by a counted retry alone.                                   *)
(***************************************************************************)
Tracked(i) ==
  /\ i \in DOMAIN incidents
  /\ incidents[i].state \notin {"DETECTED", "DIAGNOSING"} \/ incidents[i].retries > 0

Tracks ==
  /\ \A i \in IncidentIds : Acted(i) => Tracked(i)
  /\ \A r, s \in sent : r[1] = s[1] => r = s
  /\ run.pc \in {"detect", "diagnose", "decide", "plan", "execute"} => ~Acted(Me)
  /\ run.pc = "execute" => incidents[Me].state = "PLANNING"

LEMMA MoveTracks ==
  ASSUME IInv, Tracks, NEW ev, NEW pc \in Points, run.pc # "idle", Move(ev, pc),
         \/ ev \in {"start_detected", "diagnose"} /\ ~Acted(Me)
         \/ ev \in {"plan", "act", "verify", "resolve", "escalate"},
         pc \in {"detect", "diagnose", "decide", "plan", "execute"} => ~Acted(Me),
         pc = "execute" => ev = "plan"
  PROVE  Tracks'
<1>1. /\ UNCHANGED sent /\ Goes(pc)
      /\ \E to \in NextIncidentState(ev, incidents[Me].state) :
           Rewrites(Me, to) /\ incidents'[Me].retries = incidents[Me].retries
  BY MoveEffect
<1>2. PICK to \in NextIncidentState(ev, incidents[Me].state) :
        Rewrites(Me, to) /\ incidents'[Me].retries = incidents[Me].retries
  BY <1>1
<1>3. /\ to \in {"DETECTED", "DIAGNOSING"} => ev \in {"start_detected", "diagnose", "retry"}
      /\ ev = "plan" => to = "PLANNING"
  BY <1>2, FromLemma
<1>4. \A i : Acted(i)' <=> Acted(i)
  BY <1>1 DEF Acted
<1>5. Acted(Me) => incidents'[Me].state \notin {"DETECTED", "DIAGNOSING"}
  BY <1>2, <1>3 DEF Rewrites
<1>6. ASSUME NEW i \in IncidentIds, Acted(i) PROVE Tracked(i)'
  BY <1>2, <1>5, <1>6 DEF Tracks, Tracked, Rewrites
<1>7. Me' = Me /\ run'.pc = pc
  BY <1>1 DEF Goes, Me
<1>8. pc = "execute" => incidents'[Me].state = "PLANNING"
  BY <1>2, <1>3 DEF Rewrites
<1> QED BY <1>1, <1>4, <1>6, <1>7, <1>8 DEF Tracks

(* Steps that write no row and send nothing. *)
LEMMA RestTracks ==
  ASSUME Tracks, UNCHANGED <<incidents, sent>>,
         \/ run'.pc \notin {"detect", "diagnose", "decide", "plan", "execute"}
         \/ run.pc = "decide" /\ Goes("plan")
         \/ run' = run
  PROVE  Tracks'
BY DEF Tracks, Tracked, Acted, Goes, Me

LEMMA ExecuteTracks ==
  ASSUME IInv, Tracks, Execute
  PROVE  Tracks'
<1>1. CASE Allows(run.winner)
  <2> DEFINE c == <<Me, run.winner.command, run.winner.target>>
  <2>1. /\ sent' = sent \cup {c} /\ Goes("act") /\ run.pc = "execute"
        /\ UNCHANGED incidents
    BY <1>1 DEF Execute, Go, Goes, At, IInv, Typed, Runs
  <2>2. c[1] = Me
    OBVIOUS
  <2> HIDE DEF c
  <2>3. ~Acted(Me) /\ incidents[Me].state = "PLANNING" /\ Me \in DOMAIN incidents
    BY <2>1 DEF Tracks, IInv, Typed, Me
  <2>4. Tracked(Me)
    BY <2>3 DEF Tracked
  <2>5. \A i : Acted(i)' => Acted(i) \/ i = Me
    BY <2>1, <2>2 DEF Acted
  <2>6. \A i \in IncidentIds : Acted(i)' => Tracked(i)'
    BY <2>1, <2>4, <2>5 DEF Tracks, Tracked
  <2>7. \A r, s \in sent' : r[1] = s[1] => r = s
    BY <2>1, <2>2, <2>3 DEF Tracks, Acted
  <2> QED BY <2>1, <2>6, <2>7 DEF Tracks, Goes
<1>2. CASE ~Allows(run.winner)
  <2>1. UNCHANGED <<incidents, sent>> /\ Goes("escalate")
    BY <1>2 DEF Execute, Go, Goes, IInv, Typed, Runs
  <2> QED BY <2>1, RestTracks DEF Goes
<1> QED BY <1>1, <1>2

LEMMA TracksNext == IInv /\ Tracks /\ [Next]_vars => Tracks'
<1> SUFFICES ASSUME IInv, Tracks, [Next]_vars PROVE Tracks'
  OBVIOUS
<1> USE DEF At
<1>1. ASSUME NEW i \in IncidentIds, NEW ts \in 0..MaxTime, Create(i, ts) PROVE Tracks'
  <2>1. /\ i \notin DOMAIN incidents /\ DOMAIN incidents' = DOMAIN incidents \cup {i}
        /\ \A j \in DOMAIN incidents : incidents'[j] = incidents[j]
        /\ UNCHANGED sent /\ run'.pc = "detect" /\ Me' = i
    BY <1>1 DEF Create, Me
  <2>2. ~Acted(i)
    BY <2>1 DEF Tracks, Tracked
  <2>3. \A j \in IncidentIds : Acted(j) => Tracked(j)'
    BY <2>1 DEF Tracks, Tracked
  <2> QED BY <2>1, <2>2, <2>3 DEF Tracks, Acted
<1>2. CASE StartDetected \/ Diagnose \/ Plan
  BY <1>2, MoveTracks DEF StartDetected, Diagnose, Plan, Points, Tracks
<1>3. ASSUME NEW w \in Winners, Decide(w) PROVE Tracks'
  <2>1. UNCHANGED <<incidents, sent>> /\ run.pc = "decide" /\ Goes("plan")
    BY <1>3 DEF Decide, Goes, IInv, Typed, Runs
  <2> QED BY <2>1, RestTracks
<1>4. CASE Escalate \/ Act \/ Verify
  BY <1>4, MoveTracks DEF Escalate, Act, Verify, Points
<1>5. ASSUME NEW c \in Classes, Classify(c) PROVE Tracks'
  <2>1. UNCHANGED <<incidents, sent>> /\ run'.pc = "outcome"
    BY <1>5 DEF Classify, IInv, Typed, Runs
  <2> QED BY <2>1, RestTracks
<1>6. CASE VerifyOutcome
  <2>1. CASE Move("resolve", "distill")
    BY <1>6, <2>1, MoveTracks DEF VerifyOutcome, Points
  <2>2. CASE Move("escalate", "idle")
    BY <1>6, <2>2, MoveTracks DEF VerifyOutcome, Points
  <2>3. CASE Retried("DIAGNOSING", 1)
    <3>1. /\ UNCHANGED sent /\ Goes("idle") /\ Rewrites(Me, "DIAGNOSING")
          /\ incidents'[Me].retries > 0
      BY <1>6, <2>3, RetriedEffect DEF VerifyOutcome
    <3>2. \A j \in IncidentIds : Acted(j) => Tracked(j)'
      BY <3>1 DEF Tracks, Tracked, Rewrites
    <3> QED BY <3>1, <3>2 DEF Tracks, Acted, Goes
  <2> QED BY <1>6, <2>1, <2>2, <2>3 DEF VerifyOutcome, RetryOrEscalate
<1>7. CASE Distill \/ Record
  <2>1. UNCHANGED <<incidents, sent>> /\ run'.pc \in {"record", "idle"}
    BY <1>7 DEF Distill, Record, Go, IInv, Typed, Runs
  <2> QED BY <2>1, RestTracks
<1>8. ASSUME NEW i \in IncidentIds, Sweep(i) PROVE Tracks'
  <2>1. /\ UNCHANGED <<run, sent>> /\ Rewrites(i, "ESCALATED") /\ run.pc = "idle"
    BY <1>8 DEF Sweep, Rewrites, IInv, Typed, Rows
  <2>2. \A j \in IncidentIds : Acted(j) => Tracked(j)'
    BY <2>1 DEF Tracks, Tracked, Rewrites
  <2> QED BY <2>1, <2>2 DEF Tracks, Acted
<1>9. CASE Stop
  BY <1>9, IdleLemma, RestTracks DEF Stop
<1>10. CASE Tick \/ UNCHANGED vars
  BY <1>10, RestTracks DEF Tick, vars
<1> QED BY <1>1, <1>2, <1>3, <1>4, <1>5, <1>6, <1>7, <1>8, <1>9, <1>10, ExecuteTracks
        DEF Next, Classes

(* A command that left is never forgotten and never sent twice: for any    *)
(* incidents, retry bound, sweeps and stops.                               *)
THEOREM NothingIsForgotten == Spec => []ActedIsTracked
<1>1. Init => Tracks
  <2>1. ASSUME Init PROVE sent = {} /\ run.pc = "idle"
    BY <2>1, IdleLemma DEF Init
  <2> QED BY <2>1 DEF Tracks, Acted
<1>2. Tracks => ActedIsTracked
  <2> SUFFICES ASSUME Tracks, NEW i \in IncidentIds, Acted(i)
               PROVE  /\ i \in DOMAIN incidents
                      /\ \/ incidents[i].state \notin {"DETECTED", "DIAGNOSING"}
                         \/ incidents[i].retries > 0
                      /\ Cardinality({s \in sent : s[1] = i}) = 1
    BY DEF ActedIsTracked
  <2>1. PICK c \in sent : c[1] = i
    BY DEF Acted
  <2>2. {s \in sent : s[1] = i} = {c}
    BY <2>1 DEF Tracks
  <2>3. Cardinality({s \in sent : s[1] = i}) = 1
    BY <2>2, FS_Singleton
  <2> QED BY <2>3 DEF Tracks, Tracked
<1> QED BY <1>1, <1>2, KnowsInit, KnowsNext, TracksNext, PTL DEF Spec

(***************************************************************************)
(* What is learned.  A resolved incident stays resolved, and the lesson    *)
(* the hook is about to write is of one not yet counted.                   *)
(***************************************************************************)
Due == IF run.pc = "distill" THEN 1 ELSE 0

Learns ==
  /\ IsFiniteSet(DOMAIN incidents)
  /\ metrics \subseteq Resolved
  /\ occurrences + Due <= Cardinality(Resolved)
  /\ run.pc \in {"distill", "record"} => Me \in Resolved

LEMMA ResolvedFinite ==
  ASSUME Learns
  PROVE  IsFiniteSet(Resolved) /\ Cardinality(Resolved) \in Nat
<1>1. Resolved \subseteq DOMAIN incidents
  BY DEF Resolved
<1> QED BY <1>1, FS_Subset, FS_CardinalityType DEF Learns

(* The resolved ones are the same, and nothing is learned. *)
LEMMA RestLearns ==
  ASSUME IInv, Learns, Resolved' = Resolved, IsFiniteSet(DOMAIN incidents'),
         UNCHANGED <<occurrences, metrics>>,
         run'.pc \notin {"distill", "record"} \/ run' = run
  PROVE  Learns'
<1>1. Cardinality(Resolved) \in Nat /\ occurrences \in Nat
  BY ResolvedFinite DEF IInv, Typed
<1>2. occurrences + Due' <= Cardinality(Resolved)
  BY <1>1 DEF Learns, Due
<1> QED BY <1>2 DEF Learns, Me

LEMMA RewrittenResolved ==
  ASSUME NEW i, NEW to, Rewrites(i, to), incidents[i].state # "RESOLVED"
  PROVE  /\ Resolved' = IF to = "RESOLVED" THEN Resolved \cup {i} ELSE Resolved
         /\ i \notin Resolved /\ DOMAIN incidents' = DOMAIN incidents
BY DEF Rewrites, Resolved

LEMMA MoveLearns ==
  ASSUME IInv, Learns, NEW ev, NEW pc \in Points \ {"distill", "record"}, run.pc # "idle",
         Move(ev, pc), ev # "resolve"
  PROVE  Learns'
<1>1. /\ UNCHANGED <<occurrences, metrics>> /\ Goes(pc)
      /\ \E to \in NextIncidentState(ev, incidents[Me].state) : Rewrites(Me, to)
  BY MoveEffect
<1>2. PICK to \in NextIncidentState(ev, incidents[Me].state) : Rewrites(Me, to)
  BY <1>1
<1>3. to # "RESOLVED" /\ incidents[Me].state # "RESOLVED"
  BY <1>2, TableLemma, FromLemma
<1>4. Resolved' = Resolved /\ DOMAIN incidents' = DOMAIN incidents
  BY <1>2, <1>3, RewrittenResolved
<1> QED BY <1>1, <1>4, RestLearns DEF Learns, Goes

LEMMA LearnsNext == IInv /\ Learns /\ [Next]_vars => Learns'
<1> SUFFICES ASSUME IInv, Learns, [Next]_vars PROVE Learns'
  OBVIOUS
<1> USE DEF At
<1>0. /\ Cardinality(Resolved) \in Nat /\ occurrences \in Nat /\ IsFiniteSet(Resolved)
      /\ IsFiniteSet(DOMAIN incidents)
  BY ResolvedFinite DEF IInv, Typed, Learns
<1>1. ASSUME NEW i \in IncidentIds, NEW ts \in 0..MaxTime, Create(i, ts) PROVE Learns'
  <2>1. /\ i \notin DOMAIN incidents /\ DOMAIN incidents' = DOMAIN incidents \cup {i}
        /\ \A j \in DOMAIN incidents : incidents'[j] = incidents[j]
        /\ incidents'[i].state = "DETECTED"
        /\ UNCHANGED <<occurrences, metrics>> /\ run'.pc = "detect"
    BY <1>1 DEF Create
  <2>2. Resolved' = Resolved
    BY <2>1 DEF Resolved
  <2>3. IsFiniteSet(DOMAIN incidents')
    BY <1>0, <2>1, FS_AddElement
  <2> QED BY <2>1, <2>2, <2>3, RestLearns
<1>2. CASE StartDetected \/ Diagnose \/ Plan \/ Escalate \/ Act \/ Verify
  BY <1>2, MoveLearns DEF StartDetected, Diagnose, Plan, Escalate, Act, Verify, Points
<1>3. CASE (\E w \in Winners : Decide(w)) \/ Execute \/ (\E c \in Classes : Classify(c)) \/ Tick
           \/ UNCHANGED vars
  <2>1. /\ UNCHANGED <<incidents, occurrences, metrics>>
        /\ run'.pc \notin {"distill", "record"} \/ run' = run
    BY <1>3 DEF Decide, Execute, Classify, Tick, vars, Go, IInv, Typed, Runs
  <2>2. Resolved' = Resolved
    BY <2>1 DEF Resolved
  <2> QED BY <1>0, <2>1, <2>2, RestLearns
<1>4. CASE VerifyOutcome
  <2>1. run.pc = "outcome" /\ incidents[Me].state # "RESOLVED"
    BY <1>4 DEF VerifyOutcome, IInv, Knows, Working
  <2>2. CASE Move("resolve", "distill")
    <3>1. /\ UNCHANGED <<occurrences, metrics>> /\ Goes("distill")
          /\ \E to \in NextIncidentState("resolve", incidents[Me].state) : Rewrites(Me, to)
      BY <2>1, <2>2, MoveEffect
    <3>2. Rewrites(Me, "RESOLVED")
      BY <3>1 DEF NextIncidentState, IncidentTransitions, IncidentStates, IncidentTerminal
    <3>3. Resolved' = Resolved \cup {Me} /\ Me \notin Resolved
      BY <2>1, <3>2, RewrittenResolved
    <3>4. Cardinality(Resolved') = Cardinality(Resolved) + 1
      BY <1>0, <3>3, FS_AddElement
    <3>5. Due = 0 /\ Due' = 1 /\ Me' = Me
      BY <2>1, <3>1 DEF Due, Goes, Me
    <3>6. occurrences' + Due' <= Cardinality(Resolved')
      BY <1>0, <3>1, <3>4, <3>5 DEF Learns
    <3> QED BY <1>0, <3>1, <3>2, <3>3, <3>5, <3>6 DEF Learns, Rewrites
  <2>3. CASE Move("escalate", "idle")
    BY <2>1, <2>3, MoveLearns DEF Points
  <2>4. CASE Retried("DIAGNOSING", 1)
    <3>1. /\ UNCHANGED <<occurrences, metrics>> /\ Goes("idle") /\ Rewrites(Me, "DIAGNOSING")
      BY <2>1, <2>4, RetriedEffect
    <3>2. Resolved' = Resolved /\ DOMAIN incidents' = DOMAIN incidents
      BY <2>1, <3>1, RewrittenResolved
    <3> QED BY <1>0, <3>1, <3>2, RestLearns DEF Goes
  <2> QED BY <1>4, <2>2, <2>3, <2>4 DEF VerifyOutcome, RetryOrEscalate
<1>5. CASE Distill
  <2>1. /\ UNCHANGED <<incidents, metrics>> /\ occurrences' = occurrences + 1
        /\ run.pc = "distill" /\ Goes("record")
    BY <1>5 DEF Distill, Go, Goes, IInv, Typed, Runs
  <2>2. Resolved' = Resolved /\ Due = 1 /\ Due' = 0 /\ Me' = Me
    BY <2>1 DEF Resolved, Due, Goes, Me
  <2> QED BY <1>0, <2>1, <2>2 DEF Learns
<1>6. CASE Record
  <2>1. /\ UNCHANGED <<incidents, occurrences>> /\ metrics' = metrics \cup {Me}
        /\ run.pc = "record" /\ Goes("idle")
    BY <1>6 DEF Record, Go, Goes, IInv, Typed, Runs
  <2>2. Resolved' = Resolved /\ Due = 0 /\ Due' = 0
    BY <2>1 DEF Resolved, Due, Goes
  <2> QED BY <1>0, <2>1, <2>2 DEF Learns, Goes
<1>7. ASSUME NEW i \in IncidentIds, Sweep(i) PROVE Learns'
  <2>1. /\ UNCHANGED <<run, occurrences, metrics>> /\ Rewrites(i, "ESCALATED")
        /\ incidents[i].state # "RESOLVED"
    BY <1>7 DEF Sweep, Rewrites, IInv, Typed, Rows, IncidentTerminal
  <2>2. Resolved' = Resolved /\ DOMAIN incidents' = DOMAIN incidents
    BY <2>1, RewrittenResolved
  <2> QED BY <1>0, <2>1, <2>2, RestLearns
<1>8. CASE Stop
  <2>1. UNCHANGED <<incidents, occurrences, metrics>> /\ run'.pc = "idle"
    BY <1>8, IdleLemma DEF Stop
  <2>2. Resolved' = Resolved
    BY <2>1 DEF Resolved
  <2> QED BY <1>0, <2>1, <2>2, RestLearns
<1> QED BY <1>1, <1>2, <1>3, <1>4, <1>5, <1>6, <1>7, <1>8 DEF Next, Classes

(* Learning is from resolved incidents only, each counted at most once,    *)
(* wherever the pipeline is stopped.                                       *)
THEOREM LessonsAreEarned == Spec => []LearnedFromResolved
<1>1. Init => Learns
  <2> SUFFICES ASSUME Init PROVE Learns
    OBVIOUS
  <2>1. DOMAIN incidents = {} /\ metrics = {} /\ occurrences = 0 /\ run.pc = "idle"
    BY IdleLemma DEF Init
  <2>2. Resolved = {}
    BY <2>1 DEF Resolved
  <2> QED BY <2>1, <2>2, FS_EmptySet DEF Learns, Due
<1>2. IInv /\ Learns => LearnedFromResolved
  <2> SUFFICES ASSUME IInv, Learns PROVE LearnedFromResolved
    OBVIOUS
  <2>1. Cardinality(Resolved) \in Nat /\ occurrences \in Nat
    BY ResolvedFinite DEF IInv, Typed
  <2> QED BY <2>1 DEF Learns, Due, LearnedFromResolved
<1> QED BY <1>1, <1>2, KnowsInit, KnowsNext, LearnsNext, PTL DEF Spec

(***************************************************************************)
(* What is closed.  From its creation to its outcome a run's incident is   *)
(* open, since no sweep comes while it runs, so that even the retry, which *)
(* asks no table, rewrites no closed row.                                  *)
(***************************************************************************)
Open == run.pc \in Working => incidents[Me].state \notin IncidentTerminal

LEMMA OnwardLemma ==
  ASSUME NEW ev \in {"start_detected", "diagnose", "plan", "act", "verify"}, NEW s,
         NEW to \in NextIncidentState(ev, s)
  PROVE  to \notin IncidentTerminal
BY DEF NextIncidentState, IncidentTransitions, IncidentStates, IncidentTerminal

LEMMA OpenNext == IInv /\ Open /\ [Next]_vars => Open'
<1> SUFFICES ASSUME IInv, Open, [Next]_vars, run'.pc \in Working
             PROVE  incidents'[Me'].state \notin IncidentTerminal
  BY DEF Open
<1> USE DEF At
<1>1. ASSUME NEW i \in IncidentIds, NEW ts \in 0..MaxTime, Create(i, ts)
      PROVE  incidents'[Me'].state \notin IncidentTerminal
  <2>1. incidents'[i].state = "DETECTED" /\ Me' = i
    BY <1>1 DEF Create, Me
  <2> QED BY <2>1 DEF IncidentTerminal
<1>2. CASE StartDetected \/ Diagnose \/ Plan \/ Act \/ Verify
  <2>1. PICK ev \in {"start_detected", "diagnose", "plan", "act", "verify"}, pc \in Points :
          run.pc # "idle" /\ Move(ev, pc)
    BY <1>2 DEF StartDetected, Diagnose, Plan, Act, Verify, Points
  <2>2. PICK to \in NextIncidentState(ev, incidents[Me].state) : Rewrites(Me, to)
    BY <2>1, MoveEffect
  <2>3. Me' = Me
    BY <2>1, MoveEffect DEF Goes, Me
  <2> QED BY <2>2, <2>3, OnwardLemma DEF Rewrites
<1>3. CASE Escalate \/ VerifyOutcome
  <2>1. run'.pc \in {"idle", "distill"}
    BY <1>3, MoveEffect, RetriedEffect
       DEF Escalate, VerifyOutcome, RetryOrEscalate, Goes
  <2> QED BY <2>1 DEF Working
<1>4. CASE (\E w \in Winners : Decide(w)) \/ Execute \/ (\E c \in Classes : Classify(c))
  <2>1. UNCHANGED incidents /\ Me' = Me /\ run.pc \in Working
    BY <1>4 DEF Decide, Execute, Classify, Go, Me, Working, IInv, Typed, Runs
  <2> QED BY <2>1 DEF Open
<1>5. CASE Distill \/ Record \/ Stop
  <2>1. run'.pc \in {"idle", "record"}
    BY <1>5, IdleLemma DEF Distill, Record, Stop, Go, IInv, Typed, Runs
  <2> QED BY <2>1 DEF Working
<1>6. ASSUME NEW i \in IncidentIds, Sweep(i) PROVE FALSE
  BY <1>6 DEF Sweep, Working
<1>7. CASE Tick \/ UNCHANGED vars
  BY <1>7 DEF Tick, vars, Open, Me
<1> QED BY <1>1, <1>2, <1>3, <1>4, <1>5, <1>6, <1>7 DEF Next, Classes

(* A closed incident's row is never written again, by a run, a retry or a  *)
(* sweep, for any incidents, retry bound, TTL, clock and stops.            *)
THEOREM ClosedStaysClosed == Spec => ClosedIsFinal
<1> DEFINE Final == \A i \in DOMAIN incidents :
                      incidents[i].state \in IncidentTerminal => incidents'[i] = incidents[i]
<1>1. Init => Open
  BY IdleLemma DEF Init, Open, Working
<1>2. IInv /\ Open /\ [Next]_vars => [Final]_vars
  <2> SUFFICES ASSUME IInv, Open, [Next]_vars PROVE Final
    OBVIOUS
  <2> USE DEF At
  <2>1. ASSUME NEW i, NEW to, Rewrites(i, to), incidents[i].state \notin IncidentTerminal
        PROVE  Final
    BY <2>1 DEF Rewrites
  <2>2. ASSUME NEW i \in IncidentIds, NEW ts \in 0..MaxTime, Create(i, ts) PROVE Final
    BY <2>2 DEF Create
  <2>3. CASE StartDetected \/ Diagnose \/ Plan \/ Escalate \/ Act \/ Verify
    <3>1. run.pc \in Working
      BY <2>3 DEF StartDetected, Diagnose, Plan, Escalate, Act, Verify, Working
    <3>2. PICK ev, pc : run.pc # "idle" /\ Move(ev, pc)
      BY <2>3 DEF StartDetected, Diagnose, Plan, Escalate, Act, Verify
    <3>3. \E to : Rewrites(Me, to)
      BY <3>2, MoveEffect
    <3> QED BY <2>1, <3>1, <3>3 DEF Open
  <2>4. CASE VerifyOutcome
    <3>1. run.pc = "outcome" /\ run.pc \in Working
      BY <2>4 DEF VerifyOutcome, Working
    <3>2. \E to : Rewrites(Me, to)
      BY <2>4, <3>1, MoveEffect, RetriedEffect DEF VerifyOutcome, RetryOrEscalate
    <3> QED BY <2>1, <3>1, <3>2 DEF Open
  <2>5. ASSUME NEW i \in IncidentIds, Sweep(i) PROVE Final
    BY <2>5 DEF Sweep
  <2>6. CASE (\E w \in Winners : Decide(w)) \/ Execute \/ (\E c \in Classes : Classify(c))
             \/ Distill \/ Record \/ Stop \/ Tick \/ UNCHANGED vars
    BY <2>6 DEF Decide, Execute, Classify, Distill, Record, Stop, Tick, vars
  <2> QED BY <2>2, <2>3, <2>4, <2>5, <2>6 DEF Next, Classes
<1> QED BY <1>1, <1>2, KnowsInit, KnowsNext, OpenNext, PTL DEF Spec, ClosedIsFinal

(***************************************************************************)
(* The FSM the pipeline uses.                                              *)
(***************************************************************************)
LEMMA SameTable ==
  /\ \A ev, s : Fsm!NextIncidentState(ev, s) = NextIncidentState(ev, s)
  /\ Fsm!IncidentTerminal = IncidentTerminal
BY DEF Fsm!NextIncidentState, NextIncidentState, Fsm!IncidentStates, IncidentStates,
   Fsm!IncidentTerminal, IncidentTerminal, Fsm!IncidentTransitions, IncidentTransitions

LEMMA FsmMove ==
  ASSUME IInv, NEW ev \in IncidentEvents, NEW pc, run.pc # "idle", Move(ev, pc)
  PROVE  Fsm!Next
<1>1. Me \in DOMAIN incidents /\ Me \in IncidentIds /\ run.ts \in 0..MaxTime
  BY DEF IInv, Typed, Runs, Me
<1>2. Fsm!Transition(Me, ev, run.ts)
  BY <1>1, SameTable DEF Move, Fsm!Transition
<1> QED BY <1>1, <1>2 DEF Fsm!Next, Fsm!Times, Fsm!IncidentEvents, IncidentEvents

(* Every write of the pipeline, and of the sweep, is one the FSM offers.   *)
THEOREM FsmIsUsed == Spec => UsesFsm
<1>1. Init => Fsm!Init
  BY DEF Init, Fsm!Init
<1>2. IInv /\ [Next]_vars => [Fsm!Next]_incidents
  <2> SUFFICES ASSUME IInv, [Next]_vars PROVE Fsm!Next \/ UNCHANGED incidents
    OBVIOUS
  <2> USE DEF At
  <2>1. ASSUME NEW i \in IncidentIds, NEW ts \in 0..MaxTime, Create(i, ts) PROVE Fsm!Next
    <3>1. Fsm!Create(i, time) /\ time \in Fsm!Times
      BY <2>1 DEF Create, Fsm!Create, Fsm!Times, IInv, Typed
    <3> QED BY <3>1 DEF Fsm!Next
  <2>2. CASE StartDetected \/ Diagnose \/ Plan \/ Escalate \/ Act \/ Verify
    BY <2>2, FsmMove DEF StartDetected, Diagnose, Plan, Escalate, Act, Verify, IncidentEvents
  <2>3. CASE (\E w \in Winners : Decide(w)) \/ Execute \/ (\E c \in Classes : Classify(c))
             \/ Distill \/ Record \/ Stop \/ Tick \/ UNCHANGED vars
    BY <2>3 DEF Decide, Execute, Classify, Distill, Record, Stop, Tick, vars
  <2>4. CASE VerifyOutcome
    <3>1. CASE Improved
      BY <2>4, <3>1, FsmMove DEF VerifyOutcome, IncidentEvents
    <3>2. CASE ~Improved
      <4>1. Me \in DOMAIN incidents /\ Me \in IncidentIds /\ run.ts \in 0..MaxTime
        BY <2>4 DEF VerifyOutcome, IInv, Typed, Runs, Me
      <4>2. Fsm!RetryOrEscalate(Me, run.ts)
        BY <2>4, <3>2, <4>1, SameTable DEF VerifyOutcome, RetryOrEscalate, Retried, Move,
           Fsm!RetryOrEscalate, Fsm!Transition
      <4> QED BY <4>1, <4>2 DEF Fsm!Next, Fsm!Times
    <3> QED BY <3>1, <3>2
  <2>5. ASSUME NEW i \in IncidentIds, Sweep(i) PROVE Fsm!Next
    <3>1. Fsm!SweepOne(i, time) /\ time \in Fsm!Times
      BY <2>5, SameTable DEF Sweep, Fsm!SweepOne, Fsm!Stalled, Fsm!Times, IInv, Typed
    <3> QED BY <3>1 DEF Fsm!Next
  <2> QED BY <2>1, <2>2, <2>3, <2>4, <2>5 DEF Next, Classes
<1> QED BY <1>1, <1>2, KnowsInit, KnowsNext, PTL DEF Spec, UsesFsm, Fsm!Spec
=============================================================================
