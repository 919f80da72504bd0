-------------------------------- MODULE Trail --------------------------------
(***************************************************************************)
(* Reading a recorded trail back: the log's lines, the timeline rendered   *)
(* from them and its counts.  A frame is [family, id, event, body]; a line *)
(* of the log is a frame, or Torn: what is left of a write that a stop cut *)
(* off, open until the next write ends its line.                           *)
(***************************************************************************)
EXTENDS Naturals, FiniteSets, SequencesExt

Torn(open) == [family |-> "torn", open |-> open]
IsTorn(f) == f.family = "torn"

(* write appends, also to a log another process left: onto a torn line the *)
(* frame is lost with it.                                                  *)
Write(log, f) ==
  IF log # << >> /\ Last(log) = Torn(TRUE) THEN Append(Front(log), Torn(FALSE)) ELSE Append(log, f)

(* replay and topics_in parse every line: a torn one raises, after replay  *)
(* handed on the lines before it.                                          *)
Readable(log) == SelectInSeq(log, IsTorn) = 0
Handled(log) == IF Readable(log) THEN log ELSE SubSeq(log, 1, SelectInSeq(log, IsTorn) - 1)
TopicsIn(log, family) == SelectSeq(log, LAMBDA f : f.family = family)

(* render_trail: a line per frame it knows, in the trail's order.          *)
LineOf(f) ==
  IF f.family = "tool" THEN <<"tool", f.id, f.event>>
  ELSE CASE f.event = "opened"             -> <<"open", f.id>>
         [] f.event = "handoff"            -> <<"stage", f.id, f.body>>
         [] f.event = "approval_requested" -> <<"gate", f.id, f.body>>
         [] f.event = "closed"             -> <<"done", f.id, f.body>>

Shown(f) == \/ f.family = "tool"
            \/ f.family = "task" /\ f.event \in {"opened", "handoff", "approval_requested", "closed"}

Rendered(trail) ==
  LET shown == SelectSeq(trail, Shown) IN
  IF shown = << >> THEN <<<<"(empty trail)">>>> ELSE [i \in DOMAIN shown |-> LineOf(shown[i])]

(* summarize_trail *)
Summary(trail) ==
  LET Task(f) == f.family = "task"
      Count(Test(_)) == Len(SelectSeq(trail, Test)) IN
  [tasks |-> {f.id : f \in Range(SelectSeq(trail, Task))},
   approvals |-> Count(LAMBDA f : Task(f) /\ f.event = "approval_requested"),
   closed |-> Count(LAMBDA f : Task(f) /\ f.event = "closed"),
   tools |-> [t \in {f.id : f \in Range(SelectSeq(trail, LAMBDA f : f.family = "tool"))} |->
                Count(LAMBDA f : f.family = "tool" /\ f.id = t)]]
=============================================================================
