----------------------------- MODULE TaskTable -----------------------------
(***************************************************************************)
(* The vocabulary of the coordination task store: the task states, the     *)
(* single transition table, and the priority classes.  Everything that     *)
(* reads or writes a task row (the store itself, the supervisor) shares    *)
(* these definitions.                                                      *)
(***************************************************************************)
EXTENDS Naturals

(* Priority classes in order of precedence. *)
Priorities == {"ROUTINE", "URGENT", "SAFETY"}

Rank(p) == CASE p = "ROUTINE" -> 1
             [] p = "URGENT"  -> 2
             [] p = "SAFETY"  -> 3

Terminal == {"REPORTED", "PARTIAL", "FAILED", "CANCELLED"}

Active == {"RECEIVED", "PLANNING", "COORDINATING", "AWAITING_APPROVAL",
           "EXECUTING", "VERIFYING", "AWAITING_CLARIFICATION", "PREEMPTED"}

States == Active \cup Terminal

(* The two human waits, the only states the wall-clock TTL applies to. *)
Waits == {"AWAITING_APPROVAL", "AWAITING_CLARIFICATION"}

(***************************************************************************)
(* The transition table as a set of <<event, from, to>>.  An event not     *)
(* listed for a state is refused by the store with a ValueError.           *)
(***************************************************************************)
Transitions ==
  {<<"start_planning", "RECEIVED", "PLANNING">>,
   <<"start_planning", "AWAITING_CLARIFICATION", "PLANNING">>,
   <<"plan_done", "PLANNING", "COORDINATING">>,
   <<"request_approval", "COORDINATING", "AWAITING_APPROVAL">>,
   <<"request_approval", "EXECUTING", "AWAITING_APPROVAL">>,
   <<"approve", "AWAITING_APPROVAL", "COORDINATING">>,
   <<"deny", "AWAITING_APPROVAL", "PARTIAL">>,
   <<"start_executing", "COORDINATING", "EXECUTING">>,
   <<"start_executing", "AWAITING_APPROVAL", "EXECUTING">>,
   <<"start_verifying", "EXECUTING", "VERIFYING">>,
   <<"report", "VERIFYING", "REPORTED">>,
   <<"report", "COORDINATING", "REPORTED">>,
   <<"request_clarification", "RECEIVED", "AWAITING_CLARIFICATION">>,
   <<"request_clarification", "PLANNING", "AWAITING_CLARIFICATION">>,
   <<"resume", "PREEMPTED", "PLANNING">>,
   <<"clarify_reply", "AWAITING_CLARIFICATION", "RECEIVED">>}
  \cup {<<"replan", s, "PLANNING">> :
          s \in Active \ {"AWAITING_APPROVAL", "PREEMPTED"}}
  \cup {<<"preempt", s, "PREEMPTED">> : s \in Active \ {"PREEMPTED"}}
  \cup {<<"partial", s, "PARTIAL">> : s \in Active}
  \cup {<<"failed", s, "FAILED">> : s \in Active}
  \cup {<<"cancel", s, "CANCELLED">> : s \in Waits \cup {"RECEIVED", "PLANNING"}}
  \cup {<<"timeout_ttl", s, "CANCELLED">> : s \in Waits}

Events == {"start_planning", "plan_done", "request_approval", "approve", "deny",
           "start_executing", "start_verifying", "report",
           "request_clarification", "replan", "preempt", "resume",
           "clarify_reply", "partial", "failed", "cancel", "timeout_ttl"}

(* What transition() finds in the table for an event in a state: the state *)
(* it leads to, or nothing when the event is refused.                      *)
Outcome(ev, s) == {to \in States : <<ev, s, to>> \in Transitions}

Accepts(ev, s) == Outcome(ev, s) # {}
=============================================================================
