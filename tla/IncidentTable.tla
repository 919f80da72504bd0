--------------------------- MODULE IncidentTable ---------------------------
(***************************************************************************)
(* The vocabulary of the incident FSM: its states and the single           *)
(* transition table.                                                       *)
(***************************************************************************)
EXTENDS Integers, FiniteSets

IncidentTerminal == {"RESOLVED", "ESCALATED"}

IncidentStates ==
  {"DETECTED", "DIAGNOSING", "PLANNING", "ACTING", "VERIFYING"} \cup IncidentTerminal

(* <<event, from, to>>.  The entry of human_approve from DETECTED names no *)
(* real state: transition() writes ESCALATED for it.                       *)
IncidentTransitions ==
  {<<"start_detected", "DETECTED", "DETECTED">>,
   <<"diagnose", "DETECTED", "DIAGNOSING">>,
   <<"plan", "DIAGNOSING", "PLANNING">>,
   <<"plan", "VERIFYING", "PLANNING">>,
   <<"act", "PLANNING", "ACTING">>,
   <<"verify", "ACTING", "VERIFYING">>,
   <<"resolve", "VERIFYING", "RESOLVED">>,
   <<"resolve", "PLANNING", "RESOLVED">>,
   <<"retry", "VERIFYING", "DIAGNOSING">>,
   <<"human_approve", "ESCALATED", "PLANNING">>,
   <<"human_approve", "ACTING", "ACTING">>,
   <<"human_approve", "DETECTED", "ESCALATED">>}
  \cup {<<"escalate", s, "ESCALATED">> : s \in IncidentStates \ IncidentTerminal}

IncidentEvents ==
  {"start_detected", "diagnose", "plan", "act", "verify", "resolve", "retry",
   "escalate", "human_approve"}

NextIncidentState(ev, s) ==
  {to \in IncidentStates : <<ev, s, to>> \in IncidentTransitions}
=============================================================================
