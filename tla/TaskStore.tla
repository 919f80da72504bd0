----------------------------- MODULE TaskStore -----------------------------
(***************************************************************************)
(* The coordination task store: one SQLite table of task rows, every call  *)
(* serialised by the store's lock, so that a call is one step.  Callers    *)
(* are unconstrained here: any public method may be called at any time.    *)
(*                                                                         *)
(* The columns nothing in the store depends on (request text, cursor,      *)
(* replan count, approval id, evidence, fail step) are abstracted: their   *)
(* setters only refresh the row's "updated" stamp.                         *)
(***************************************************************************)
EXTENDS TaskTable

CONSTANTS TaskIds,     \* the t- ids the store can mint
          Incidents,   \* incident ids
          NoIncident,  \* SQL NULL in source_incident_id
          Playbooks,   \* playbook ids
          Ttl,         \* ttl_seconds
          MaxClock     \* bound on the wall clock

ASSUME NoIncidentAssumption == NoIncident \notin Incidents
ASSUME TtlAssumption == Ttl \in Nat /\ MaxClock \in Nat

VARIABLES tasks,       \* the table: task id -> row
          clock        \* time.time()

vars == <<tasks, clock>>

Row == [incident : Incidents \cup {NoIncident}, playbook : Playbooks,
        priority : Priorities, state : States, updated : 0..MaxClock]

(* A row is live until it reaches a terminal state. *)
Live(t) == tasks[t].state \notin Terminal

Pair(t) == <<tasks[t].incident, tasks[t].playbook>>

(* live_pair: the rows the partial unique index covers. *)
LivePair(i, pb) ==
  {t \in DOMAIN tasks : Live(t) /\ tasks[t].incident = i /\ tasks[t].playbook = pb}

Init == tasks = << >> /\ clock = 0

Insert(t, row) ==
  tasks' = [u \in DOMAIN tasks \cup {t} |-> IF u = t THEN row ELSE tasks[u]]

(* Slips: an insert in a state outside the closed set; an insert without   *)
(* the unique index; a priority written without being compared.            *)
MintOpened(t, i, pb, p) ==
  /\ t \notin DOMAIN tasks
  /\ i # NoIncident => LivePair(i, pb) = {}
  /\ Insert(t, [incident |-> i, playbook |-> pb, priority |-> p,
                state |-> "OPENED", updated |-> clock])
  /\ UNCHANGED clock

MintUnindexed(t, i, pb, p) ==
  /\ t \notin DOMAIN tasks
  /\ Insert(t, [incident |-> i, playbook |-> pb, priority |-> p,
                state |-> "RECEIVED", updated |-> clock])
  /\ UNCHANGED clock

SetPriority(t, p) ==
  /\ t \in DOMAIN tasks
  /\ tasks' = [tasks EXCEPT ![t].priority = p, ![t].updated = clock]
  /\ UNCHANGED clock

(***************************************************************************)
(* mint: INSERT in state RECEIVED.  The unique index refuses a second live *)
(* row of a pair (IntegrityError, nothing written); it does not cover rows *)
(* without an incident.                                                    *)
(***************************************************************************)
Mint(t, i, pb, p) ==
  /\ t \notin DOMAIN tasks
  /\ i # NoIncident => LivePair(i, pb) = {}
  /\ Insert(t, [incident |-> i, playbook |-> pb, priority |-> p,
                state |-> "RECEIVED", updated |-> clock])
  /\ UNCHANGED clock

(* raise_priority_if_lower: it does not look at the state of the row. *)
RaisePriority(t, p) ==
  /\ t \in DOMAIN tasks
  /\ Rank(p) > Rank(tasks[t].priority)
  /\ tasks' = [tasks EXCEPT ![t].priority = p, ![t].updated = clock]
  /\ UNCHANGED clock

(* transition, and the update_state it calls. *)
Transition(t, ev) ==
  /\ t \in DOMAIN tasks
  /\ \E to \in Outcome(ev, tasks[t].state) :
       tasks' = [tasks EXCEPT ![t].state = to, ![t].updated = clock]
  /\ UNCHANGED clock

(* set_cursor, set_approval, set_evidence, bump_replan: one abstracted     *)
(* column each, and no check of the row's state.                           *)
SetColumn(t) ==
  /\ t \in DOMAIN tasks
  /\ tasks' = [tasks EXCEPT ![t].updated = clock]
  /\ UNCHANGED clock

Expired(t) == tasks[t].state \in Waits /\ clock - tasks[t].updated > Ttl

(* resume_unfinished: every human wait untouched for longer than the TTL   *)
(* is cancelled, in one call under the store's lock.                       *)
ResumeUnfinished ==
  /\ tasks' = [t \in DOMAIN tasks |->
                 IF Expired(t)
                 THEN [tasks[t] EXCEPT !.state = "CANCELLED", !.updated = clock]
                 ELSE tasks[t]]
  /\ UNCHANGED clock

Tick == /\ clock < MaxClock
        /\ clock' = clock + 1
        /\ UNCHANGED tasks

Next == \/ \E t \in TaskIds, i \in Incidents \cup {NoIncident},
              pb \in Playbooks, p \in Priorities : Mint(t, i, pb, p)
        \/ \E t \in TaskIds, p \in Priorities : RaisePriority(t, p)
        \/ \E t \in TaskIds, ev \in Events : Transition(t, ev)
        \/ \E t \in TaskIds : SetColumn(t)
        \/ ResumeUnfinished
        \/ Tick

Spec == Init /\ [][Next]_vars
-----------------------------------------------------------------------------
(* The table holds well-formed rows only: every state written is a state   *)
(* of the closed set, every priority one of the three classes.             *)
TypeOK == /\ DOMAIN tasks \subseteq TaskIds
          /\ tasks \in [DOMAIN tasks -> Row]
          /\ clock \in 0..MaxClock

(* Idempotent spawn (AD-1): an (incident, playbook) pair never has two     *)
(* live tasks, whatever calls are made in whatever order.  It rests on the *)
(* index at mint time and on no transition ever reviving a closed row.     *)
OneLivePair ==
  \A t, u \in DOMAIN tasks :
    /\ t # u
    /\ Live(t) /\ Live(u)
    /\ tasks[t].incident # NoIncident
    => Pair(t) # Pair(u)

(* The abstract state the table stands for: which tasks live, for which    *)
(* pair, with which priority.                                              *)
MapLife == [t \in TaskIds |-> IF t \notin DOMAIN tasks THEN "unborn"
                              ELSE IF Live(t) THEN "live" ELSE "done"]

MapPair == [t \in TaskIds |->
              IF t \in DOMAIN tasks /\ tasks[t].incident # NoIncident
              THEN Pair(t) ELSE NoIncident]

MapRank == [t \in TaskIds |->
              IF t \in DOMAIN tasks THEN Rank(tasks[t].priority) ELSE 0]

Life == INSTANCE TaskLife WITH
          Pairs <- Incidents \X Playbooks, NoPair <- NoIncident,
          life <- MapLife, pair <- MapPair, rank <- MapRank

(* Every call of the store is a step of the abstract life, or none: a      *)
(* closed task stays closed, a priority never drops, no pair is doubled.   *)
ImplementsLife == Life!Spec
=============================================================================
