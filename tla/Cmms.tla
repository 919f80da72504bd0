-------------------------------- MODULE Cmms --------------------------------
(***************************************************************************)
(* The simulated CMMS behind the tool port: its tables, what a create      *)
(* fills in, what is found again; and what the port asks of an intent      *)
(* before it calls create.  A table is the sequence of its rows.  A        *)
(* payload is a function of the fields it gives, evidence the set of its   *)
(* keys.                                                                   *)
(***************************************************************************)
EXTENDS Naturals, FiniteSets, SequencesExt, TLC

Table == [work_order |-> "work_orders", incident_record |-> "incident_records",
          notification |-> "notifications", approval_request |-> "approval_requests",
          report |-> "reports"]
Kinds == DOMAIN Table

(* The columns a kind's payload fills, and those that have a default.      *)
Columns ==
  [work_order |-> {"device_id", "wo_type", "summary", "priority", "evidence"},
   incident_record |-> {"source_incident_id", "note"},
   notification |-> {"recipient", "message"},
   approval_request |-> {"device_id", "action", "options", "evidence"},
   report |-> {"summary", "owner", "trace", "evidence"}]
Defaults == [wo_type |-> "corrective", priority |-> "ROUTINE", trace |-> "",
             options |-> {}, evidence |-> {}]
Status == [work_order |-> "OPEN", incident_record |-> "", notification |-> "SENT",
           approval_request |-> "PENDING", report |-> "REPORTED"]

Given(p, f, default) == IF f \in DOMAIN p THEN p[f] ELSE default

Empty == [t \in Range(Table) \cup {"maintenance_history", "production_context"} |-> << >>]

(* A field without a default that is not given raises.                     *)
Lacks(kind, p) == Columns[kind] \ (DOMAIN Defaults \cup DOMAIN p)

NewRow(kind, p, id, now) ==
  [id |-> id, task_id |-> Given(p, "task_id", ""), status |-> Status[kind], created |-> now]
    @@ [f \in Columns[kind] |-> IF f \in DOMAIN p THEN p[f] ELSE Defaults[f]]

Insert(db, kind, p, id, now) ==
  IF Lacks(kind, p) # {} THEN db
  ELSE [db EXCEPT ![Table[kind]] = Append(@, NewRow(kind, p, id, now))]

Decide(db, id, status) ==
  [db EXCEPT !["approval_requests"] =
     [i \in DOMAIN @ |-> IF @[i].id = id THEN [@[i] EXCEPT !.status = status] ELSE @[i]]]

(* The seeds of a start: history once, orders anew each time.              *)
SeedHistory(db, seed) ==
  IF db["maintenance_history"] # << >> THEN db ELSE [db EXCEPT !["maintenance_history"] = seed]
SeedProduction(db, orders) ==
  [db EXCEPT !["production_context"] =
     FoldLeft(LAMBDA rows, o : Append(SelectSeq(rows, LAMBDA r : r.id # o.id), o), @, orders)]
Opened(db, seed, orders) == SeedProduction(SeedHistory(db, seed), orders)

(* list_by_key: by device where key says so, else by task; a table without *)
(* the column raises and is passed over, incident records are not asked.   *)
Found(db, key, value) ==
  LET Matching(t) == SelectSeq(db[t], LAMBDA r :
        IF key = "device_id" THEN "device_id" \in DOMAIN r /\ r.device_id = value ELSE r.task_id = value)
  IN FlattenSeq([i \in 1..4 |->
       Matching(<<"work_orders", "approval_requests", "notifications", "reports">>[i])])

(* lookup: the newest first, up to a limit; active orders, all of them.    *)
Limit == [maintenance_history |-> 50, work_orders |-> 200, approval_requests |-> 200,
          reports |-> 100, notifications |-> 100]
Lookup(db, t) ==
  IF t = "production_context" THEN SelectSeq(db[t], LAMBDA r : r.status = "active")
  ELSE IF t \notin DOMAIN Limit THEN << >>
  ELSE LET sorted == SortSeq(db[t], LAMBDA a, b : a.created > b.created) IN
       SubSeq(sorted, 1, IF Len(sorted) < Limit[t] THEN Len(sorted) ELSE Limit[t])
-----------------------------------------------------------------------------
(* The port's validation.                                                  *)
Required ==
  [work_order |-> {"device_id", "summary", "priority", "idempotency_key", "evidence"},
   incident_record |-> {"source_incident_id", "note"},
   notification |-> {"recipient", "message"},
   approval_request |-> {"device_id", "action", "options", "evidence"},
   report |-> {"summary", "owner", "evidence"}]
RequiredEvidence == {"device", "signal", "value", "event_time", "age", "staleness"}
Priorities == {"SAFETY", "URGENT", "ROUTINE"}

MayAct(kind, state) ==
  \/ state \in {"COORDINATING", "EXECUTING"}
  \/ kind = "approval_request" /\ state = "AWAITING_APPROVAL"

(* A caller is [task, state, priority]; a task the reader does not know    *)
(* has the state "".                                                       *)
Validates(kind, p, by, devices) ==
  /\ Required[kind] \subseteq DOMAIN p
  /\ kind \in {"work_order", "approval_request"} => p.device_id \in devices
  /\ by.task # "" /\ by.state # "" => MayAct(kind, by.state)
  /\ LET pr == IF by.priority # "" THEN by.priority ELSE Given(p, "priority", "ROUTINE") IN
     pr # "" => pr \in Priorities
  /\ kind = "work_order" => RequiredEvidence \subseteq p.evidence
  /\ kind \in {"report", "approval_request"} => p.evidence # {}

KeyOf(kind, p, by) ==
  IF Given(p, "idempotency_key", "") # "" THEN p.idempotency_key
  ELSE <<by.task, kind, Given(p, "device_id", "")>>

(* One call of the port that nothing interrupts, over [db, keys]; it       *)
(* answers with an id, or NoAnswer.                                         *)
NoAnswer == 0
Call(st, kind, p, by, devices, id) ==
  LET key == KeyOf(kind, p, by)
      refused == [st EXCEPT !.answer = NoAnswer] IN
  IF ~Validates(kind, p, by, devices) THEN refused
  ELSE IF key \in DOMAIN st.keys THEN [st EXCEPT !.answer = st.keys[key]]
  ELSE IF Lacks(kind, p) # {} THEN refused
  ELSE [db |-> Insert(st.db, kind, p, id, id), keys |-> (key :> id) @@ st.keys, answer |-> id]
-----------------------------------------------------------------------------
(* What the supervisor hands the port: in the act stage a work order, the  *)
(* incident's record and a notification, then the report.                  *)
WorkOrder(task, device, evidence) ==
  [task_id |-> task, device_id |-> device, summary |-> "work", priority |-> "ROUTINE",
   evidence |-> evidence, idempotency_key |-> <<task, "work_order", device>>]
IncidentRecord(incident) == [source_incident_id |-> incident, note |-> "work"]
Notification(message) == [recipient |-> "maintenance_manager", message |-> message]
Report(evidence) == [summary |-> "done", owner |-> "supervisor", trace |-> "trace", evidence |-> evidence]
ApprovalRequest(task, device, action, evidence) ==
  [device_id |-> device, action |-> action, options |-> {"proceed", "cancel"},
   evidence |-> evidence, idempotency_key |-> <<task, action, "approval">>]
=============================================================================
