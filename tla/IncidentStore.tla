--------------------------- MODULE IncidentStore ---------------------------
(***************************************************************************)
(* The incident store behind its FSM, for callers in any order: incidents  *)
(* are minted, moved along the table, retried a bounded number of times,   *)
(* and swept by the TTL.  Stamps come from the caller: creation and sweep  *)
(* use the wall clock, transitions the event time of the diagnosis, and    *)
(* the two are compared with one another.                                  *)
(***************************************************************************)
EXTENDS IncidentTable

CONSTANTS IncidentIds, RetryMax, IncidentTtl, MaxTime

VARIABLE incidents   \* the table: incident id -> row

Times == 0..MaxTime

Init == incidents = << >>

(* create: the only minter of incident ids. *)
Create(i, now) ==
  /\ i \notin DOMAIN incidents
  /\ incidents' = [j \in DOMAIN incidents \cup {i} |->
                     IF j = i THEN [state |-> "DETECTED", retries |-> 0, updated |-> now]
                     ELSE incidents[j]]

(* transition: an event the table does not list is refused. *)
Transition(i, ev, ts) ==
  /\ i \in DOMAIN incidents
  /\ \E to \in NextIncidentState(ev, incidents[i].state) :
       incidents' = [incidents EXCEPT ![i].state = to, ![i].updated = ts]

(* verify_outcome without improvement: the retry writes the state itself,  *)
(* whatever state the row is in; past the bound the table escalates.       *)
RetryOrEscalate(i, ts) ==
  /\ i \in DOMAIN incidents
  /\ IF incidents[i].retries < RetryMax
     THEN incidents' = [incidents EXCEPT ![i].state = "DIAGNOSING", ![i].updated = ts,
                                         ![i].retries = @ + 1]
     ELSE Transition(i, "escalate", ts)

(* resume_unfinished: unfinished incidents untouched for the TTL are       *)
(* escalated, one committed row after the other.                           *)
Stalled(i, now) == /\ incidents[i].state \notin IncidentTerminal
                   /\ now - incidents[i].updated > IncidentTtl

SweepOne(i, now) ==
  /\ i \in DOMAIN incidents /\ Stalled(i, now)
  /\ incidents' = [incidents EXCEPT ![i].state = "ESCALATED", ![i].updated = now]

Next == \E i \in IncidentIds, ts \in Times :
          \/ Create(i, ts)
          \/ \E ev \in IncidentEvents : Transition(i, ev, ts)
          \/ RetryOrEscalate(i, ts)
          \/ SweepOne(i, ts)

Spec == Init /\ [][Next]_incidents
=============================================================================
