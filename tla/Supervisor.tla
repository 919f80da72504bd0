----------------------------- MODULE Supervisor -----------------------------
(***************************************************************************)
(* The coordination supervisor: drive threads that walk tasks through      *)
(* their playbooks under one lock, decision threads that apply a human's   *)
(* verdict WITHOUT that lock before driving on, the approval records and   *)
(* artifacts of the tool port, and the control-room cards the verdicts are *)
(* read from.  A step is one call that other threads, or a restart, can    *)
(* come before or after: a store or port write with the reads that decide  *)
(* it, and a bus event with what the (synchronous) dashboard makes of it.  *)
(***************************************************************************)
EXTENDS TaskTable, Playbooks, FiniteSets

CONSTANTS TaskIds, Incidents,
          None,          \* no incident, no task, no thread
          Threads,       \* drive and decision threads alive at once
          UsedPlaybooks, \* the playbooks requested
          Severities,    \* severities the detector raises
          Doors,         \* how tasks come in: "human", "detector"
          Verdicts,      \* the decisions people take
          MaxFaults,     \* backend failures
          MaxClicks,     \* decisions sent for one approval card
          MaxCrashes,    \* restarts of the process
          MaxAsks        \* clarification questions

ASSUME NoneAssumption == None \notin Incidents \cup TaskIds \cup Threads \cup UsedPlaybooks
ASSUME UsedAssumption == UsedPlaybooks \subseteq PlaybookIds /\ UsedPlaybooks # {}
ASSUME InputsAssumption == /\ Severities \subseteq DOMAIN SeverityPriority
                           /\ Verdicts \subseteq {"APPROVED", "DENIED"}
ASSUME BoundsAssumption == {MaxFaults, MaxClicks, MaxCrashes, MaxAsks} \subseteq Nat

VARIABLES
  tasks,    \* the store's table: task id -> row
  records,  \* the apr_ record of a task's gate: "none" or its status
  made,     \* artifacts created for a task, as the port's key registry has them
  thr,      \* the threads' program counters and local variables
  lock,     \* _drive_lock: its holder or None
  pending,  \* tasks a drive thread has been spawned for, not yet running
  dash,     \* the control-room card of a task
  budget    \* what the environment has spent of its bounds

persistent == <<tasks, records, made>>
vars == <<persistent, thr, lock, pending, dash, budget>>

Gates == UNION {GatesOf(pb) : pb \in UsedPlaybooks}
Kinds == {"work_order", "incident_record", "notification", "report"}
MaxRounds == 24

(* An empty text: a column not yet written, an event that carries nothing. *)
NoText == ""

NewRow(i, pb, pr) ==
  [incident |-> i, playbook |-> pb, priority |-> pr, state |-> "RECEIVED",
   cursor |-> 0, replans |-> 0, approval |-> NoText, approved |-> {}, obs |-> FALSE]

Rest == [pc |-> "idle", task |-> None, pos |-> 1, approved |-> {}, obs |-> FALSE,
         snap |-> <<NoText, 0>>, round |-> 0, card |-> NoText, verdict |-> NoText]

Blank == [state |-> NoText, card |-> NoText]

Init == /\ tasks = << >>
        /\ records = [t \in TaskIds |-> [g \in Gates |-> "none"]]
        /\ made = [t \in TaskIds |-> {}]
        /\ thr = [p \in Threads |-> Rest]
        /\ lock = None
        /\ pending = {}
        /\ dash = [t \in TaskIds |-> Blank]
        /\ budget = [faults |-> 0, crashes |-> 0, asks |-> 0,
                     clicks |-> [t \in TaskIds |-> [g \in Gates |-> 0]]]
-----------------------------------------------------------------------------
Row(p) == tasks[thr[p].task]
Stages(t) == StagesOf(tasks[t].playbook)

(* stage_cursor: 0 stands for '', n for the text of n - 1; '' is read as   *)
(* the first stage.                                                        *)
Pos(t) == IF tasks[t].cursor = 0 THEN 1 ELSE tasks[t].cursor

At(p, pc) == thr[p].pc = pc
Goto(p, pc) == thr' = [thr EXCEPT ![p].pc = pc]
SetRow(t, f, v) == tasks' = [tasks EXCEPT ![t][f] = v]
Stage(p) == Stages(thr[p].task)[thr[p].pos]
AtEnd(p) == thr[p].pos > Len(Stages(thr[p].task))

(* store.transition on the thread's task; a refused event raises, and the  *)
(* exception ends the thread.  card: what the dashboard then shows.        *)
Attempt(p, ev, pc, card) ==
  LET t == thr[p].task IN
    \/ /\ \E to \in Outcome(ev, tasks[t].state) : SetRow(t, "state", to)
       /\ dash' = [dash EXCEPT ![t] = card]
       /\ Goto(p, pc)
    \/ /\ ~Accepts(ev, tasks[t].state)
       /\ Goto(p, "release")
       /\ UNCHANGED <<tasks, dash>>

Card(p) == dash[thr[p].task]
Closed(p, s) == [Card(p) EXCEPT !.state = s]
-----------------------------------------------------------------------------
(* Doors.  ingest_request: the opened event carries the task.              *)
Ingest(t, pb) ==
  /\ "human" \in Doors
  /\ t \notin DOMAIN tasks
  /\ tasks' = [u \in DOMAIN tasks \cup {t} |->
                 IF u = t THEN NewRow(None, pb, PlaybookTable[pb].priority) ELSE tasks[u]]
  /\ dash' = [dash EXCEPT ![t].state = "RECEIVED"]
  /\ pending' = pending \cup {t}
  /\ UNCHANGED <<records, made, thr, lock, budget>>

(* Slip: only tasks not yet started count as live. *)
FreshTasks(i, pb) ==
  {t \in DOMAIN tasks : /\ tasks[t].incident = i /\ tasks[t].playbook = pb
                        /\ tasks[t].state = "RECEIVED"}

LiveTasks(i, pb) ==
  {t \in DOMAIN tasks : /\ tasks[t].incident = i /\ tasks[t].playbook = pb
                        /\ tasks[t].state \notin Terminal}

(* spawn_from_incident, called by the one detector thread at every scan    *)
(* that still sees the incident: mint, or raise and drive the live task.   *)
SpawnFromIncident(i, pb, severity) ==
  /\ "detector" \in Doors
  /\ LET pr == SeverityPriority[severity] IN
       \/ /\ LiveTasks(i, pb) = {}
          /\ \E t \in TaskIds \ DOMAIN tasks :
               /\ tasks' = [u \in DOMAIN tasks \cup {t} |->
                              IF u = t THEN NewRow(i, pb, pr) ELSE tasks[u]]
               /\ pending' = pending \cup {t}
       \/ \E t \in LiveTasks(i, pb) :
            /\ tasks' = [tasks EXCEPT ![t].priority =
                           IF Rank(pr) > Rank(@) THEN pr ELSE @]
            /\ pending' = pending \cup {t}
  /\ UNCHANGED <<records, made, thr, lock, dash, budget>>

(* _spawn_drive's thread gets to run. *)
StartDrive(p, t) ==
  /\ At(p, "idle") /\ t \in pending
  /\ thr' = [thr EXCEPT ![p].pc = "acquire", ![p].task = t]
  /\ pending' = pending \ {t}
  /\ UNCHANGED <<persistent, lock, dash, budget>>

(* request_clarification and the in_reply_to request that answers it: both *)
(* run on their caller's thread, without the lock.                         *)
RequestClarification(t) ==
  /\ budget.asks < MaxAsks
  /\ t \in DOMAIN tasks
  /\ tasks[t].state \in {"RECEIVED", "PLANNING"}
  /\ SetRow(t, "state", "AWAITING_CLARIFICATION")
  /\ budget' = [budget EXCEPT !.asks = @ + 1]
  /\ UNCHANGED <<records, made, thr, lock, pending, dash>>

ClarificationReply(t) ==
  /\ MaxAsks > 0
  /\ t \in DOMAIN tasks
  /\ \E to \in Outcome("clarify_reply", tasks[t].state) : SetRow(t, "state", to)
  /\ UNCHANGED <<records, made, thr, lock, pending, dash, budget>>
-----------------------------------------------------------------------------
(* Slip: the drive lock is forgotten. *)
AcquireUnlocked(p) ==
  /\ At(p, "acquire")
  /\ lock' = p
  /\ thr' = [thr EXCEPT ![p].pc = "snap", ![p].round = 1]
  /\ UNCHANGED <<persistent, pending, dash, budget>>

(* _drive: rounds of advance under the lock. *)
Acquire(p) ==
  /\ At(p, "acquire") /\ lock = None
  /\ lock' = p
  /\ thr' = [thr EXCEPT ![p].pc = "snap", ![p].round = 1]
  /\ UNCHANGED <<persistent, pending, dash, budget>>

Snap(p) ==
  /\ At(p, "snap")
  /\ thr' = [thr EXCEPT ![p].pc = "enter", ![p].snap = <<Row(p).state, Row(p).cursor>>]
  /\ UNCHANGED <<persistent, lock, pending, dash, budget>>

(* Slip: a drive is a single round of advance. *)
CheckOnce(p) ==
  /\ At(p, "check") /\ Goto(p, "release")
  /\ UNCHANGED <<persistent, lock, pending, dash, budget>>

(* The rounds end without progress, or after 24 of them. *)
Check(p) ==
  /\ At(p, "check")
  /\ IF \/ thr[p].snap = <<Row(p).state, Row(p).cursor>>
        \/ thr[p].round = MaxRounds
     THEN Goto(p, "release")
     ELSE thr' = [thr EXCEPT ![p].pc = "snap", ![p].round = @ + 1]
  /\ UNCHANGED <<persistent, lock, pending, dash, budget>>

Release(p) ==
  /\ At(p, "release")
  /\ thr' = [thr EXCEPT ![p] = Rest]
  /\ lock' = IF lock = p THEN None ELSE lock
  /\ UNCHANGED <<persistent, pending, dash, budget>>

(* advance up to the stage loop: what the row says is loaded into locals.  *)
Load(p) ==
  thr' = [thr EXCEPT ![p].pc = "stage", ![p].pos = Pos(thr[p].task),
                     ![p].approved = Row(p).approved, ![p].obs = Row(p).obs]

(* Slip: any unfinished task is taken back to PLANNING, a waiting one too. *)
EnterUnchecked(p) ==
  /\ At(p, "enter")
  /\ IF Row(p).state \in Terminal THEN Goto(p, "release") /\ UNCHANGED tasks
     ELSE SetRow(thr[p].task, "state", "PLANNING") /\ Load(p)
  /\ UNCHANGED <<records, made, lock, pending, dash, budget>>

Enter(p) ==
  /\ At(p, "enter")
  /\ LET s == Row(p).state IN
       \/ /\ s \in Terminal \cup {"AWAITING_APPROVAL"}
          /\ Goto(p, "release") /\ UNCHANGED tasks
       \/ /\ s = "RECEIVED"
          /\ SetRow(thr[p].task, "state", "PLANNING") /\ Load(p)
       \/ /\ s = "AWAITING_CLARIFICATION"
          /\ SetRow(thr[p].task, "state", "PLANNING") /\ Load(p)
       \/ /\ s \notin Terminal \cup Waits \cup {"RECEIVED"}
          /\ Load(p) /\ UNCHANGED tasks
  /\ UNCHANGED <<records, made, lock, pending, dash, budget>>

(* The stage loop.  A coordination stage moves the task to COORDINATING.   *)
MustPlan(p) == Row(p).state = "PLANNING" /\ Stage(p) \in CoordinationStages
(* Slip: one grant opens every gate of the task. *)
MustAskOnce(p) == Stage(p) \in GatesOf(Row(p).playbook) /\ thr[p].approved = {}
(* Slip: a task raised to a higher priority goes ahead without being asked for. *)
MustAskRoutine(p) ==
  /\ Stage(p) \in GatesOf(Row(p).playbook) \ thr[p].approved
  /\ Row(p).priority = "ROUTINE"
MustAsk(p) == Stage(p) \in GatesOf(Row(p).playbook) \ thr[p].approved

PlanDone(p) ==
  /\ At(p, "stage") /\ ~AtEnd(p) /\ MustPlan(p)
  /\ Attempt(p, "plan_done", "stage", Card(p))
  /\ UNCHANGED <<records, made, lock, pending, budget>>

(* What the port refuses to create: writes of a task not in a state to     *)
(* act, and anything that must carry evidence without any.                 *)
Refuses(t, kind, obs) ==
  \/ tasks[t].state \notin
       {"COORDINATING", "EXECUTING"} \cup
       (IF kind = "approval_request" THEN {"AWAITING_APPROVAL"} ELSE {})
  \/ kind \in {"work_order", "report", "approval_request"} /\ ~obs

(* _execute_stage: the handoff event shows the task's state; the report    *)
(* artifact is created, and its failure ignored; no agent fails.           *)
Execute(p) ==
  /\ At(p, "stage") /\ ~AtEnd(p) /\ ~MustPlan(p) /\ ~MustAsk(p)
  /\ LET t == thr[p].task IN
       /\ dash' = [dash EXCEPT ![t].state = tasks[t].state]
       /\ IF Stage(p) = "report" /\ ~Refuses(t, "report", thr[p].obs)
          THEN \/ made' = [made EXCEPT ![t] = @ \cup {"report"}] /\ UNCHANGED budget
               \/ /\ budget.faults < MaxFaults
                  /\ budget' = [budget EXCEPT !.faults = @ + 1]
                  /\ UNCHANGED made
          ELSE UNCHANGED <<made, budget>>
  /\ Goto(p, "cursor")
  /\ UNCHANGED <<tasks, records, lock, pending>>

SetCursor(p) ==
  /\ At(p, "cursor")
  /\ SetRow(thr[p].task, "cursor", thr[p].pos + 1)
  /\ thr' = [thr EXCEPT ![p].pos = @ + 1,
                        ![p].pc = CASE Stage(p) = "observe" -> "save"
                                    [] Stage(p) = "act" -> "work_order"
                                    [] OTHER -> "stage"]
  /\ UNCHANGED <<records, made, lock, pending, dash, budget>>

(* The evidence column is overwritten with what advance loaded of it. *)
SaveEvidence(p) ==
  /\ At(p, "save")
  /\ tasks' = [tasks EXCEPT ![thr[p].task].obs = TRUE,
                            ![thr[p].task].approved = thr[p].approved]
  /\ thr' = [thr EXCEPT ![p].pc = "stage", ![p].obs = TRUE]
  /\ UNCHANGED <<records, made, lock, pending, dash, budget>>

(* Slip: the result of the port is not looked at. *)
CreateUnchecked(p, kind, pc) ==
  LET t == thr[p].task IN
    /\ \/ made' = [made EXCEPT ![t] = @ \cup {kind}] /\ ~Refuses(t, kind, thr[p].obs)
       \/ UNCHANGED made
    /\ Goto(p, pc)
    /\ UNCHANGED <<tasks, records, lock, pending, dash, budget>>

(* ToolPort.create for an artifact of the act stage.  A kind made for the  *)
(* task before is found by its key and reused.  A backend failure leaves   *)
(* nothing behind, or (work orders are read back) an artifact the key      *)
(* registry knows.                                                         *)
Create(p, kind, pc) ==
  LET t == thr[p].task
      with == [made EXCEPT ![t] = @ \cup {kind}] IN
    /\ \/ /\ Refuses(t, kind, thr[p].obs)
          /\ Goto(p, "act_failed") /\ UNCHANGED <<made, budget>>
       \/ /\ ~Refuses(t, kind, thr[p].obs)
          /\ made' = with /\ Goto(p, pc) /\ UNCHANGED budget
       \/ /\ ~Refuses(t, kind, thr[p].obs) /\ kind \notin made[t]
          /\ budget.faults < MaxFaults
          /\ budget' = [budget EXCEPT !.faults = @ + 1]
          /\ made' \in {made} \cup (IF kind = "work_order" THEN {with} ELSE {})
          /\ Goto(p, "act_failed")
    /\ UNCHANGED <<tasks, records, lock, pending, dash>>

(* _apply_action: work order, incident record if any, notification. *)
ApplyAction(p) ==
  \/ At(p, "work_order")
     /\ Create(p, "work_order", IF Row(p).incident = None THEN "notify" ELSE "record")
  \/ At(p, "record") /\ Create(p, "incident_record", "notify")
  \/ At(p, "notify") /\ Create(p, "notification", "stage")

(* replan_or_partial for the act stage. *)
GiveUpOrRetry(p) ==
  /\ At(p, "act_failed")
  /\ IF Row(p).replans < Cap(Row(p).playbook, "act")
     THEN /\ SetRow(thr[p].task, "replans", Row(p).replans + 1)
          /\ Goto(p, "back") /\ UNCHANGED dash
     ELSE Attempt(p, "partial", "release", Closed(p, "PARTIAL"))
  /\ UNCHANGED <<records, made, lock, pending, budget>>

(* Slip: the back-edge's target is not found, and index 0 is taken. *)
GoBackToStart(p) ==
  /\ At(p, "back")
  /\ SetRow(thr[p].task, "cursor", 1)
  /\ Goto(p, "replan")
  /\ UNCHANGED <<records, made, lock, pending, dash, budget>>

GoBack(p) ==
  /\ At(p, "back")
  /\ SetRow(thr[p].task, "cursor", TargetOf(Row(p).playbook, "act"))
  /\ Goto(p, "replan")
  /\ UNCHANGED <<records, made, lock, pending, dash, budget>>

Replan(p) ==
  /\ At(p, "replan")
  /\ Attempt(p, "replan", "check", Card(p))
  /\ UNCHANGED <<records, made, lock, pending, budget>>

Finish(p) ==
  /\ At(p, "stage") /\ AtEnd(p)
  /\ IF Row(p).state = "REPORTED"
     THEN Goto(p, "release") /\ UNCHANGED <<tasks, dash>>
     ELSE Attempt(p, "report", "release", Closed(p, "REPORTED"))
  /\ UNCHANGED <<records, made, lock, pending, budget>>
-----------------------------------------------------------------------------
(* _request_approval. *)
Park(p) ==
  /\ At(p, "stage") /\ ~AtEnd(p) /\ ~MustPlan(p) /\ MustAsk(p)
  /\ Attempt(p, "request_approval", "request", Card(p))
  /\ UNCHANGED <<records, made, lock, pending, budget>>

CreateRequest(p) ==
  LET t == thr[p].task
      new == records[t][Stage(p)] = "none"
      with == IF new THEN [records EXCEPT ![t][Stage(p)] = "PENDING"] ELSE records IN
    /\ At(p, "request")
    /\ \/ /\ Refuses(t, "approval_request", thr[p].obs)
          /\ Goto(p, "no_request") /\ UNCHANGED <<records, budget>>
       \/ /\ ~Refuses(t, "approval_request", thr[p].obs)
          /\ records' = with /\ Goto(p, "publish") /\ UNCHANGED budget
       \/ /\ ~Refuses(t, "approval_request", thr[p].obs) /\ new
          /\ budget.faults < MaxFaults
          /\ budget' = [budget EXCEPT !.faults = @ + 1]
          /\ records' \in {records, with}
          /\ Goto(p, "no_request")
    /\ UNCHANGED <<tasks, made, lock, pending, dash>>

(* Slip: the request's id is not written to the row. *)
PublishWithoutId(p) ==
  /\ At(p, "publish")
  /\ dash' = [dash EXCEPT ![thr[p].task] =
                [state |-> "AWAITING_APPROVAL", card |-> Stage(p)]]
  /\ Goto(p, "check")
  /\ UNCHANGED <<persistent, lock, pending, budget>>

(* set_approval, then the event that puts the card on the dashboard. *)
PublishRequest(p) ==
  /\ At(p, "publish")
  /\ SetRow(thr[p].task, "approval", Stage(p))
  /\ dash' = [dash EXCEPT ![thr[p].task] =
                [state |-> "AWAITING_APPROVAL", card |-> Stage(p)]]
  /\ Goto(p, "check")
  /\ UNCHANGED <<records, made, lock, pending, budget>>

FailRequest(p) ==
  /\ At(p, "no_request")
  /\ Attempt(p, "failed", "release", Closed(p, "FAILED"))
  /\ UNCHANGED <<records, made, lock, pending, budget>>
-----------------------------------------------------------------------------
(* A decision card is on the screen. *)
Shown(t) == dash[t].state = "AWAITING_APPROVAL" /\ dash[t].card # NoText

(* publish_decision, by the autopilot or over HTTP: handle_approval runs   *)
(* on the publisher's thread.                                              *)
Decide(p, t, verdict) ==
  /\ At(p, "idle") /\ Shown(t)
  /\ budget.clicks[t][dash[t].card] < MaxClicks
  /\ budget' = [budget EXCEPT !.clicks[t][dash[t].card] = @ + 1]
  /\ thr' = [thr EXCEPT ![p].pc = "validate", ![p].task = t,
                        ![p].card = dash[t].card, ![p].verdict = verdict]
  /\ UNCHANGED <<persistent, lock, pending, dash>>

Validate(p) ==
  /\ At(p, "validate")
  /\ Goto(p, IF Row(p).state = "AWAITING_APPROVAL" /\ Row(p).approval = thr[p].card
             THEN "status" ELSE "release")
  /\ UNCHANGED <<persistent, lock, pending, dash, budget>>

(* update_approval_status, and the separate read that verifies it. *)
UpdateStatus(p) ==
  /\ At(p, "status")
  /\ records' = [records EXCEPT ![thr[p].task][thr[p].card] = thr[p].verdict]
  /\ Goto(p, "read_back")
  /\ UNCHANGED <<tasks, made, lock, pending, dash, budget>>

(* Slip: a decision read back is taken for a grant. *)
ReadBackGrant(p) ==
  /\ At(p, "read_back")
  /\ Goto(p, IF records[thr[p].task][thr[p].card] = thr[p].verdict
             THEN "read_row" ELSE "release")
  /\ UNCHANGED <<persistent, lock, pending, dash, budget>>

ReadBack(p) ==
  /\ At(p, "read_back")
  /\ LET ok == records[thr[p].task][thr[p].card] = thr[p].verdict IN
       Goto(p, CASE ~ok -> "release"
                 [] ok /\ thr[p].verdict = "APPROVED" -> "read_row"
                 [] ok /\ thr[p].verdict = "DENIED" -> "deny")
  /\ UNCHANGED <<persistent, lock, pending, dash, budget>>

(* The row is read again: the stage granted is the one its cursor names.   *)
ReadRow(p) ==
  /\ At(p, "read_row")
  /\ LET n == Pos(thr[p].task)
         here == {Stages(thr[p].task)[m] : m \in DOMAIN Stages(thr[p].task) \cap {n}} IN
       thr' = [thr EXCEPT ![p].pc = "grant", ![p].obs = Row(p).obs,
                          ![p].approved = Row(p).approved \cup here]
  /\ UNCHANGED <<persistent, lock, pending, dash, budget>>

SaveGrant(p) ==
  /\ At(p, "grant")
  /\ tasks' = [tasks EXCEPT ![thr[p].task].obs = thr[p].obs,
                            ![thr[p].task].approved = thr[p].approved]
  /\ Goto(p, "approve")
  /\ UNCHANGED <<records, made, lock, pending, dash, budget>>

Approve(p) ==
  /\ At(p, "approve")
  /\ Attempt(p, "approve", "granted", Card(p))
  /\ UNCHANGED <<records, made, lock, pending, budget>>

(* approval_granted clears the card; then the decider drives. *)
PublishGrant(p) ==
  /\ At(p, "granted")
  /\ dash' = [dash EXCEPT ![thr[p].task] = [state |-> "EXECUTING", card |-> NoText]]
  /\ thr' = [thr EXCEPT ![p] = [Rest EXCEPT !.pc = "acquire", !.task = thr[p].task]]
  /\ UNCHANGED <<persistent, lock, pending, budget>>

Deny(p) ==
  /\ At(p, "deny")
  /\ Attempt(p, "deny", "release", [state |-> "PARTIAL", card |-> NoText])
  /\ UNCHANGED <<records, made, lock, pending, budget>>
-----------------------------------------------------------------------------
(* The process is restarted: SQLite keeps the tables, the rest is gone,    *)
(* and nothing drives the unfinished tasks but the detector.               *)
Crash ==
  /\ budget.crashes < MaxCrashes
  /\ budget' = [budget EXCEPT !.crashes = @ + 1]
  /\ thr' = [p \in Threads |-> Rest]
  /\ lock' = None
  /\ pending' = {}
  /\ dash' = [t \in TaskIds |-> Blank]
  /\ UNCHANGED persistent

Drive(p) == \/ Acquire(p) \/ Snap(p) \/ Check(p) \/ Release(p) \/ Enter(p)
            \/ PlanDone(p) \/ Execute(p) \/ SetCursor(p) \/ SaveEvidence(p)
            \/ ApplyAction(p) \/ GiveUpOrRetry(p) \/ GoBack(p) \/ Replan(p)
            \/ Finish(p)

Request(p) == Park(p) \/ CreateRequest(p) \/ PublishRequest(p) \/ FailRequest(p)

HandleApproval(p) == \/ Validate(p) \/ UpdateStatus(p) \/ ReadBack(p) \/ ReadRow(p)
                     \/ SaveGrant(p) \/ Approve(p) \/ PublishGrant(p) \/ Deny(p)

Step(p) == Drive(p) \/ Request(p) \/ HandleApproval(p)

Next == \/ \E p \in Threads : Step(p)
        \/ \E p \in Threads, t \in TaskIds : StartDrive(p, t)
        \/ \E p \in Threads, t \in TaskIds, v \in Verdicts : Decide(p, t, v)
        \/ \E t \in TaskIds, pb \in UsedPlaybooks : Ingest(t, pb)
        \/ \E i \in Incidents, pb \in UsedPlaybooks, s \in Severities :
             SpawnFromIncident(i, pb, s)
        \/ \E t \in TaskIds : RequestClarification(t) \/ ClarificationReply(t)
        \/ Crash

Spec == Init /\ [][Next]_vars

(* The interpreter runs every thread that can run, a spawned thread starts,*)
(* and (people, or the autopilot) somebody decides on a card that stays on *)
(* the screen.                                                             *)
Scheduling ==
  /\ \A p \in Threads : WF_vars(Step(p))
  /\ \A t \in TaskIds : WF_vars(\E p \in Threads : StartDrive(p, t))
Deciding ==
  \A t \in TaskIds : WF_vars(\E p \in Threads, v \in Verdicts : Decide(p, t, v))

FairSpec == Spec /\ Scheduling /\ Deciding
-----------------------------------------------------------------------------
Rows == [incident : Incidents \cup {None}, playbook : UsedPlaybooks,
         priority : Priorities, state : States, cursor : 0..8, replans : 0..3,
         approval : Gates \cup {NoText}, approved : SUBSET StageMenu, obs : BOOLEAN]

Pcs == {"idle", "acquire", "snap", "check", "release", "enter", "stage", "cursor",
        "save", "work_order", "record", "notify", "act_failed", "back", "replan",
        "request", "publish", "no_request", "validate", "status", "read_back",
        "read_row", "grant", "approve", "granted", "deny"}

(* The table, the threads' locals, the lock and the screen hold only what  *)
(* the code can put there; a thread inside advance holds the drive lock.   *)
TypeOK ==
  /\ DOMAIN tasks \subseteq TaskIds /\ tasks \in [DOMAIN tasks -> Rows]
  /\ records \in [TaskIds -> [Gates -> {"none", "PENDING", "APPROVED", "DENIED"}]]
  /\ made \in [TaskIds -> SUBSET Kinds]
  /\ \A p \in Threads : /\ thr[p].pc \in Pcs
                        /\ At(p, "idle") \/ thr[p].task \in DOMAIN tasks
                        /\ thr[p].pos \in 1..8 /\ thr[p].approved \subseteq StageMenu
                        /\ thr[p].round > 0 => lock = p
  /\ lock \in Threads \cup {None}
  /\ pending \subseteq DOMAIN tasks
  /\ \A t \in TaskIds : dash[t].state \in States \cup {NoText} /\ dash[t].card \in Gates \cup {NoText}

(* The approval gate (AD-8): a task is past a gated stage, or has made the *)
(* work order of a gated act, only when the request raised for that very   *)
(* stage stands approved; a grant for one gate never opens the next, and   *)
(* one that is being applied never races the driver past a gate.           *)
GatesHold ==
  \A t \in DOMAIN tasks, g \in Gates :
    /\ g \in GatesOf(tasks[t].playbook)
    /\ \/ Pos(t) > StageIndex(tasks[t].playbook, g)
       \/ g = "act" /\ "work_order" \in made[t]
    => records[t][g] = "APPROVED"

(* A denial is the end: once the request a task is parked on is denied,    *)
(* the task advances no more and nothing more is created for it, however   *)
(* its drivers and the decision are interleaved.                           *)
DenialIsFinal ==
  [][\A t \in DOMAIN tasks :
       (\E g \in Gates : records[t][g] = "DENIED") =>
         /\ tasks'[t].cursor = tasks[t].cursor /\ made'[t] = made[t]
         /\ tasks'[t].state \in {tasks[t].state, "PARTIAL"}]_vars

(* No silent completion (AD-6): a task reported as done has walked its     *)
(* whole playbook and has its work order, its notification and, if it came *)
(* from an incident, the incident record, whatever failed on the way.      *)
ReportedIsDone ==
  \A t \in DOMAIN tasks :
    tasks[t].state = "REPORTED" =>
      /\ Pos(t) = Len(Stages(t)) + 1
      /\ {"work_order", "notification"} \subseteq made[t]
      /\ tasks[t].incident # None => "incident_record" \in made[t]

(* Nobody works on the task and nobody is about to. *)
Quiet(t) == t \notin pending /\ \A p \in Threads : thr[p].task # t

(* The control room and the store agree whenever a task is at rest: the    *)
(* decision card is on the screen exactly when the task waits for it, and  *)
(* cites the pending request the store has for the task.  A missing card   *)
(* would leave the task waiting for a decision nobody can take.            *)
ConsoleAgrees ==
  \A t \in DOMAIN tasks :
    Quiet(t) =>
      /\ Shown(t) <=> tasks[t].state = "AWAITING_APPROVAL"
      /\ Shown(t) => /\ dash[t].card = tasks[t].approval
                     /\ records[t][dash[t].card] = "PENDING"

(* Every accepted task is brought to an end, when cards are decided on. *)
Settles ==
  \A t \in TaskIds :
    (t \in DOMAIN tasks) ~> (t \in DOMAIN tasks /\ tasks[t].state \in Terminal)
-----------------------------------------------------------------------------
(* The walk a task's row stands for.  Between the bump of replan_count and *)
(* the write of the cursor the task is already at the re-entered stage.    *)
WalkBook == [t \in TaskIds |-> IF t \in DOMAIN tasks THEN tasks[t].playbook ELSE None]

WalkAt ==
  [t \in TaskIds |->
     IF t \notin DOMAIN tasks THEN 1
     ELSE IF \E p \in Threads : At(p, "back") /\ thr[p].task = t
     THEN TargetOf(tasks[t].playbook, "act") ELSE Pos(t)]

WalkTries == [t \in TaskIds |-> IF t \in DOMAIN tasks THEN tasks[t].replans ELSE 0]

WalkGranted == [t \in TaskIds |-> {g \in Gates : records[t][g] = "APPROVED"}]

WalkOutcome ==
  [t \in TaskIds |->
     IF t \notin DOMAIN tasks \/ tasks[t].state \notin Terminal THEN "open"
     ELSE IF tasks[t].state = "REPORTED" THEN "reported" ELSE "given_up"]

Walk == INSTANCE PlaybookWalk WITH
          Idle <- None, Books <- UsedPlaybooks, book <- WalkBook, at <- WalkAt,
          tries <- WalkTries, granted <- WalkGranted, outcome <- WalkOutcome

(* Whatever threads, decisions and faults do, each task walks its playbook *)
(* as declared: one stage at a time, gates granted first, back-edges only, *)
(* at most as often as their cap, reported only from the end (AD-3).       *)
ImplementsWalk == Walk!Spec

(* The calls the supervisor makes of the store, seen at the store: rows    *)
(* with the columns it keeps abstract left out and a clock that stands.    *)
StoreRows ==
  [t \in DOMAIN tasks |->
     [incident |-> tasks[t].incident, playbook |-> tasks[t].playbook,
      priority |-> tasks[t].priority, state |-> tasks[t].state, updated |-> 0]]

Store == INSTANCE TaskStore WITH
           NoIncident <- None, Playbooks <- UsedPlaybooks, Ttl <- 0, MaxClock <- 0,
           tasks <- StoreRows, clock <- 0

(* Every step of the supervisor is a call the store admits, or none: no    *)
(* state is written but through the transition table, and re-spawning an   *)
(* incident's task never doubles it.                                       *)
UsesStore == Store!Spec
=============================================================================
