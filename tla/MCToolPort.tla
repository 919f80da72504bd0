----------------------------- MODULE MCToolPort -----------------------------
(***************************************************************************)
(* The tool port's run, with what validation, the CMMS and the recorded    *)
(* trail promise, and what they do not, over small inputs.                 *)
(***************************************************************************)
EXTENDS ToolPort, SequencesExt, TLC

C == INSTANCE Cmms
T == INSTANCE Trail

Devices == {"motor", "gas"}
By(state, priority) == [task |-> "tk", state |-> state, priority |-> priority]
Acting == By("EXECUTING", "ROUTINE")
Fresh0 == [db |-> C!Empty, keys |-> << >>, answer |-> C!NoAnswer]

(* The calls of one round of the act stage, each with an id of its own.    *)
Act(st, message, n) ==
  LET wo == C!Call(st, "work_order", C!WorkOrder("tk", "motor", C!RequiredEvidence), Acting, Devices, n)
      rec == C!Call(wo, "incident_record", C!IncidentRecord("inc"), Acting, Devices, n + 1)
      ntf == C!Call(rec, "notification", C!Notification(message), Acting, Devices, n + 2) IN
  <<wo.answer, rec.answer, ntf.answer, ntf>>
-----------------------------------------------------------------------------
(* Whatever fields an intent gives, one that is validated is never refused *)
(* by the create behind it for a field that is missing.                    *)
Field == [device_id |-> "motor", evidence |-> C!RequiredEvidence, priority |-> "URGENT",
          idempotency_key |-> "k"]
ASSUME ValidatedIsCreated ==
  \A kind \in C!Kinds :
    \A fields \in SUBSET (C!Columns[kind] \cup {"priority", "idempotency_key", "task_id"}) :
      LET p == [f \in fields |-> IF f \in DOMAIN Field THEN Field[f] ELSE "x"] IN
      C!Validates(kind, p, Acting, Devices) => C!Lacks(kind, p) = {}

(* A task that is over, or waits for a person, writes nothing, but for its *)
(* approval request; a task the store does not know writes what it likes.  *)
ASSUME OnlyActingTasksWrite ==
  \A state \in {"", "RECEIVED", "PLANNING", "COORDINATING", "AWAITING_APPROVAL", "EXECUTING",
                "VERIFYING", "REPORTED", "PARTIAL", "FAILED", "CANCELLED"} :
    LET by == By(state, "ROUTINE") IN
    /\ C!Validates("work_order", C!WorkOrder("tk", "motor", C!RequiredEvidence), by, Devices)
         <=> state \in {"", "COORDINATING", "EXECUTING"}
    /\ C!Validates("approval_request", C!ApprovalRequest("tk", "motor", "act", {"device"}), by, Devices)
         <=> state \in {"", "COORDINATING", "EXECUTING", "AWAITING_APPROVAL"}

(* The act stage tried again reuses all it made, so that the second        *)
(* round's words reach nobody: without a key of its own, a notification    *)
(* goes by task and kind alone.                                            *)
ASSUME RetriedActIsReused ==
  LET once == Act(Fresh0, "Preventive work", 1)
      twice == Act(once[4], "Corrective work", 11) IN
  /\ SubSeq(once, 1, 3) = <<1, 2, 3>> /\ SubSeq(twice, 1, 3) = <<1, 2, 3>>
  /\ twice[4].db = once[4].db
  /\ Last(twice[4].db["notifications"]).message = "Preventive work"

(* The CMMS finds a task's work order by the task, and none of its other   *)
(* artifacts: only the action agent puts the task into its payload.        *)
ASSUME OnlyWorkOrdersKnowTheirTask ==
  LET gate == C!Call(Fresh0, "approval_request", C!ApprovalRequest("tk", "motor", "act", {"device"}),
                     By("AWAITING_APPROVAL", "ROUTINE"), Devices, 9)
      done == C!Call(Act(gate, "work", 1)[4], "report", C!Report({"device"}), Acting, Devices, 10) IN
  /\ done.answer = 10 /\ Cardinality(DOMAIN done.keys) = 5
  /\ [i \in DOMAIN C!Found(done.db, "task_id", "tk") |-> C!Found(done.db, "task_id", "tk")[i].id] = <<1>>
  /\ Len(C!Found(done.db, "device_id", "motor")) = 2

(* A key another kind used answers for this one too, as a success.         *)
ASSUME KeysCrossKinds ==
  LET ntf == C!Call(Fresh0, "notification", [idempotency_key |-> "k"] @@ C!Notification("work"),
                    Acting, Devices, 1)
      rpt == C!Call(ntf, "report", [idempotency_key |-> "k"] @@ C!Report({"device"}), Acting, Devices, 2) IN
  rpt.answer = 1 /\ rpt.db["reports"] = << >>

(* Starts after the first leave the history alone, and bring every order   *)
(* of the seed back to what the seed says, next to those it dropped.       *)
Order(id, status) == [id |-> id, status |-> status]
ASSUME StartsSeedOnce ==
  \A first, second \in {<< >>, <<Order("a", "active")>>, <<Order("b", "active"), Order("a", "closed")>>} :
    LET once == C!Opened(C!Empty, <<[id |-> 1, created |-> 5]>>, first)
        twice == C!Opened(once, <<[id |-> 2, created |-> 9]>>, second)
        orders == twice["production_context"] IN
    /\ twice["maintenance_history"] = once["maintenance_history"]
    /\ IsInjective([i \in DOMAIN orders |-> orders[i].id])
    /\ {o.id : o \in Range(orders)} = {o.id : o \in Range(first) \cup Range(second)}
    /\ Range(second) \subseteq Range(orders)

(* The oldest of more requests than the limit is not listed, though it is  *)
(* the one still pending.                                                  *)
Request(i) == C!NewRow("approval_request", C!ApprovalRequest("tk", "motor", "act", {"device"}), i, i)
ASSUME OldestPendingIsHidden ==
  \A n \in {2, 200, 201} :
    LET rows == [i \in 1..n |-> IF i = 1 THEN Request(1) ELSE [Request(i) EXCEPT !.status = "APPROVED"]]
        listed == C!Lookup([C!Empty EXCEPT !["approval_requests"] = rows], "approval_requests") IN
    (\E r \in Range(listed) : r.status = "PENDING") <=> n <= 200

(* A decision changes the request it names, and no other row.              *)
ASSUME DecisionsAreApart ==
  LET db == [C!Empty EXCEPT !["approval_requests"] = <<Request(1), Request(2)>>] IN
  \A id \in 1..3 :
    LET rows == C!Decide(db, id, "DENIED")["approval_requests"] IN
    \A i \in 1..2 : rows[i].id = i /\ (rows[i].status = "DENIED" <=> i = id)
-----------------------------------------------------------------------------
Frame(f, id, ev) == [family |-> f, id |-> id, event |-> ev, body |-> "b"]
Frames == {Frame("task", t, ev) : t \in {"t", "u"},
             ev \in {"handoff", "approval_requested", "approval_granted", "closed"}}
           \cup {Frame("tool", "report", ev) : ev \in {"invoked", "result"}}
           \cup {Frame("tele", "s", "")}
Trails == UNION {[1..n -> Frames] : n \in 0..3}

(* Timeline and counts agree, except for decisions, which only the counts' *)
(* set of tasks knows of; nothing else of the trail is shown.              *)
ASSUME TimelineAgrees ==
  \A trail \in Trails :
    LET lines == T!Rendered(trail)  sum == T!Summary(trail)
        Lines(w) == Len(SelectSeq(lines, LAMBDA l : l[1] = w)) IN
    /\ Lines("done") = sum.closed /\ Lines("gate") = sum.approvals
    /\ {l[2] : l \in {x \in Range(lines) : x[1] \in {"stage", "gate", "done"}}} \subseteq sum.tasks
    /\ Lines("tool") = FoldLeft(LAMBDA n, f : IF f.family = "tool" THEN n + 1 ELSE n, 0, trail)
    /\ (\A f \in Range(trail) : f.event # "approval_granted") =>
         sum.tasks = {l[2] : l \in {x \in Range(lines) : x[1] \in {"stage", "gate", "done"}}}

(* A log torn once is never readable again, however it is written on, and  *)
(* the first frame of the next process is lost with the torn one.          *)
ASSUME TornOnceTornForEver ==
  \A before \in UNION {[1..n -> Frames] : n \in 0..1}, after \in UNION {[1..n -> Frames] : n \in 0..2} :
    LET log == FoldLeft(T!Write, Append(before, T!Torn(TRUE)), after) IN
    /\ ~T!Readable(log) /\ T!Handled(log) = before
    /\ Len(log) = Len(before) + (IF after = << >> THEN 1 ELSE Len(after))
=============================================================================
