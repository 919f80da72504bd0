---------------------------- MODULE ControlRoom ----------------------------
(***************************************************************************)
(* The control room: the dashboard folds the supervisor's task events into *)
(* a bounded table of records, and cards for gates that wait; humans and   *)
(* the approval autopilot decide on the cards they see.  The supervisor is *)
(* the desk here: when it opens, parks and closes tasks, and which         *)
(* decisions it takes; how it does so is module Supervisor.                *)
(* Time is kept as ages, which stop at Delay: nothing tells older apart.   *)
(***************************************************************************)
EXTENDS Naturals, Sequences, FiniteSets

CONSTANTS
  Tasks,
  Policies,   \* the policies the autopilot may be started with
  Cap,        \* records the dashboard keeps
  Delay,      \* seconds the autopilot leaves a card on the screen
  MaxGates,   \* bound: gates of one task
  MaxFails,   \* bound: polls cut off by an exception
  NoTask

ASSUME CapAssumption == Cap \in Nat \ {0}
ASSUME DelayAssumption == Delay \in Nat
ASSUME NoTaskAssumption == NoTask \notin Tasks
ASSUME BoundsAssumption == MaxGates \in Nat /\ MaxFails \in Nat
ASSUME PolicyAssumption == Policies \subseteq {"auto", "human", "deny-first"}

VARIABLES
  desk,    \* task -> its phase and the number of its last gate
  board,   \* the records' tasks, oldest first (an OrderedDict)
  record,  \* task -> what its record shows; a pruned record is kept frozen
  policy,
  timer,   \* _first_seen, as ages
  denied,  \* _denied
  poll,    \* the autopilot's locals
  shown,   \* age of the last card of a task (history)
  younger, \* tasks whose record was made after the task's card (history)
  helped,  \* tasks not left to the autopilot alone (history)
  fails

vars == <<desk, board, record, policy, timer, denied, poll, shown, younger, helped, fails>>

Phases == {"absent", "working", "parked", "closed"}
Verdicts == {"APPROVED", "DENIED"}
NoCard == 0
Blank == [state |-> "", card |-> NoCard]
NoPoll == [at |-> "idle", left |-> << >>, task |-> NoTask, card |-> NoCard,
           verdict |-> "APPROVED"]

OnBoard(t) == \E i \in DOMAIN board : board[i] = t
Without(f, t) == [u \in DOMAIN f \ {t} |-> f[u]]

Init == /\ desk = [t \in Tasks |-> [phase |-> "absent", gate |-> 0]]
        /\ board = << >> /\ record = [t \in Tasks |-> Blank]
        /\ policy \in Policies /\ timer = << >> /\ denied = {} /\ poll = NoPoll
        /\ shown = [t \in Tasks |-> 0] /\ younger = [t \in Tasks |-> {}]
        /\ helped = {} /\ fails = 0
-----------------------------------------------------------------------------
(* Slip: the table is pruned from its newest end.                          *)
PruneNewest(s) == IF Len(s) <= Cap THEN s ELSE SubSeq(s, 1, Cap)

(* Slip: one record more than the cap stays.                               *)
PruneLate(s) == IF Len(s) <= Cap + 1 THEN s ELSE Tail(s)

(* _prune: the oldest records go, whatever they show.                      *)
Prune(s) == IF Len(s) <= Cap THEN s ELSE SubSeq(s, Len(s) - Cap + 1, Len(s))

(* _ingest_task: an event makes the record of a task it does not find,     *)
(* blank but for what the event carries.                                   *)
Shown(t) == IF OnBoard(t) THEN record[t] ELSE Blank

Fold(t, shows) ==
  /\ board' = Prune(IF OnBoard(t) THEN board ELSE Append(board, t))
  /\ record' = [record EXCEPT ![t] = shows]
  /\ younger' = IF OnBoard(t) THEN younger
                ELSE [u \in Tasks |-> IF u = t THEN {} ELSE younger[u] \cup {t}]

(* The supervisor opens a task, of a request or an incident.               *)
Open(t, s) ==
  /\ desk[t].phase = "absent"
  /\ desk' = [desk EXCEPT ![t].phase = "working"]
  /\ Fold(t, [Shown(t) EXCEPT !.state = s])
  /\ UNCHANGED <<policy, timer, denied, poll, shown, helped, fails>>

(* A stage is handed over or done: the record shows the state in the task  *)
(* that comes with the event.                                              *)
Work(t) ==
  /\ desk[t].phase = "working"
  /\ Fold(t, [Shown(t) EXCEPT !.state = "EXECUTING"])
  /\ UNCHANGED <<desk, policy, timer, denied, poll, shown, helped, fails>>

(* The drive an autopilot's approval started has come to rest.             *)
DriveReturns(t) ==
  poll' = IF poll.at = "driving" /\ poll.task = t THEN [poll EXCEPT !.at = "decided"] ELSE poll

Park(t) ==
  /\ desk[t].phase = "working" /\ desk[t].gate < MaxGates
  /\ desk' = [desk EXCEPT ![t] = [phase |-> "parked", gate |-> @.gate + 1]]
  /\ Fold(t, [state |-> "AWAITING_APPROVAL", card |-> desk'[t].gate])
  /\ shown' = [shown EXCEPT ![t] = 0]
  /\ DriveReturns(t)
  /\ UNCHANGED <<policy, timer, denied, helped, fails>>

Close(t) ==
  /\ desk[t].phase = "working"
  /\ desk' = [desk EXCEPT ![t].phase = "closed"]
  /\ Fold(t, [Shown(t) EXCEPT !.state = "REPORTED"])
  /\ DriveReturns(t)
  /\ UNCHANGED <<policy, timer, denied, shown, helped, fails>>

(* handle_approval takes a decision that cites the gate the task waits at; *)
(* a denial is published as two events.                                    *)
Takes(t, card) == desk[t].phase = "parked" /\ desk[t].gate = card

Apply(t, verdict) ==
  IF verdict = "APPROVED"
  THEN /\ desk' = [desk EXCEPT ![t].phase = "working"]
       /\ Fold(t, [state |-> "EXECUTING", card |-> NoCard])
  ELSE /\ desk' = [desk EXCEPT ![t].phase = "closed"]
       /\ Fold(t, [state |-> "PARTIAL", card |-> NoCard])

(* A human decides on a card seen in a browser; a card that has been       *)
(* decided meanwhile is refused, and nothing changes.                      *)
HumanDecides(t, verdict) ==
  /\ Takes(t, desk[t].gate)
  /\ Apply(t, verdict)
  /\ helped' = helped \cup {t}
  /\ UNCHANGED <<policy, timer, denied, poll, shown, fails>>
-----------------------------------------------------------------------------
(* poll goes through the records as they are listed when it starts, each   *)
(* read when its turn comes.                                               *)
PollStart ==
  /\ poll.at = "idle" /\ board # << >>
  /\ poll' = [NoPoll EXCEPT !.at = "looking", !.left = board]
  /\ UNCHANGED <<desk, board, record, policy, timer, denied, shown, younger, helped, fails>>

Past(p) == IF Len(p.left) = 1 THEN NoPoll
           ELSE [NoPoll EXCEPT !.at = "looking", !.left = Tail(p.left)]

(* Slip: the first gate of a task is not denied, later ones are.           *)
VerdictByHabit(t) == IF policy = "deny-first" /\ t \in denied THEN "DENIED" ELSE "APPROVED"

Verdict(t) == IF policy = "deny-first" /\ t \notin denied THEN "DENIED" ELSE "APPROVED"

(* Slip: every look starts the timer anew.                                 *)
StartedAnew(t) == [u \in DOMAIN timer \cup {t} |-> IF u = t THEN 0 ELSE timer[u]]

(* setdefault: a timer of the task that runs already is left running.      *)
Started(t) == IF t \in DOMAIN timer THEN timer
              ELSE [u \in DOMAIN timer \cup {t} |-> IF u = t THEN 0 ELSE timer[u]]

(* One record: not waiting, its timer is dropped; waiting without a card,  *)
(* nothing; otherwise its timer runs, and decides when it is due.          *)
Look ==
  /\ poll.at = "looking"
  /\ LET t == Head(poll.left) IN
       \/ /\ record[t].state # "AWAITING_APPROVAL"
          /\ timer' = Without(timer, t)
          /\ poll' = Past(poll)
       \/ /\ record[t].state = "AWAITING_APPROVAL" /\ record[t].card = NoCard
          /\ poll' = Past(poll)
          /\ UNCHANGED timer
       \/ /\ record[t].state = "AWAITING_APPROVAL" /\ record[t].card # NoCard
          /\ timer' = Started(t)
          /\ poll' = IF timer'[t] >= Delay /\ policy # "human"
                     THEN [poll EXCEPT !.at = "citing", !.task = t, !.card = record[t].card,
                                       !.verdict = Verdict(t)]
                     ELSE Past(poll)
  /\ UNCHANGED <<desk, board, record, policy, denied, shown, younger, helped, fails>>

(* publish_decision runs the supervisor on this thread, and the drive an   *)
(* approval starts.  A refused decision counts as published as well.       *)
Cast ==
  /\ poll.at = "citing"
  /\ \/ /\ Takes(poll.task, poll.card)
        /\ Apply(poll.task, poll.verdict)
        /\ poll' = [poll EXCEPT !.at = IF poll.verdict = "APPROVED" THEN "driving" ELSE "decided"]
     \/ /\ ~Takes(poll.task, poll.card)
        /\ poll' = [poll EXCEPT !.at = "decided"]
        /\ UNCHANGED <<desk, board, record, younger>>
  /\ UNCHANGED <<policy, timer, denied, shown, helped, fails>>

(* Slip: the timer runs on after a decision.                               *)
BookKeepingTimer ==
  /\ poll.at = "decided"
  /\ denied' = IF poll.verdict = "DENIED" THEN denied \cup {poll.task} ELSE denied
  /\ poll' = Past(poll)
  /\ UNCHANGED <<desk, board, record, policy, timer, shown, younger, helped, fails>>

Book ==
  /\ poll.at = "decided"
  /\ denied' = IF poll.verdict = "DENIED" THEN denied \cup {poll.task} ELSE denied
  /\ timer' = Without(timer, poll.task)
  /\ poll' = Past(poll)
  /\ UNCHANGED <<desk, board, record, policy, shown, younger, helped, fails>>

(* The publish raises, before the supervisor took the decision or out of   *)
(* the drive: the loop of start goes on with a new poll, nothing booked.   *)
PollFails ==
  /\ poll.at \in {"citing", "driving"} /\ fails < MaxFails
  /\ fails' = fails + 1 /\ helped' = helped \cup {poll.task}
  /\ poll' = NoPoll
  /\ UNCHANGED <<desk, board, record, policy, timer, denied, shown, younger>>

Older(a) == IF a < Delay THEN a + 1 ELSE a

Tick ==
  /\ timer' = [t \in DOMAIN timer |-> Older(timer[t])]
  /\ shown' = [t \in Tasks |-> IF desk[t].phase = "parked" THEN Older(shown[t]) ELSE shown[t]]
  /\ UNCHANGED <<desk, board, record, policy, denied, poll, younger, helped, fails>>

Autopilot == PollStart \/ Look \/ Cast \/ Book

Drive(t) == Park(t) \/ Close(t)

Next == \/ \E t \in Tasks : \/ \E s \in {"", "RECEIVED"} : Open(t, s)
                            \/ Work(t) \/ Drive(t)
                            \/ \E v \in Verdicts : HumanDecides(t, v)
        \/ Autopilot \/ PollFails \/ Tick

Spec == Init /\ [][Next]_vars

(* The autopilot polls in an endless loop, time passes, and a driven task  *)
(* comes to rest (module Supervisor).                                      *)
FairSpec == /\ Spec /\ WF_vars(Autopilot) /\ WF_vars(Tick)
            /\ \A t \in Tasks : WF_vars(Drive(t))
-----------------------------------------------------------------------------
(* Records, timers and the locals of a poll are well formed, and no task   *)
(* has two records.                                                        *)
TypeOK ==
  /\ desk \in [Tasks -> [phase : Phases, gate : 0..MaxGates]]
  /\ board \in Seq(Tasks) /\ Len(board) <= Cap
  /\ \A i, j \in DOMAIN board : board[i] = board[j] => i = j
  /\ \A t \in Tasks : record[t].card \in 0..desk[t].gate
  /\ policy \in Policies
  /\ DOMAIN timer \subseteq Tasks /\ \A t \in DOMAIN timer : timer[t] \in 0..Delay
  /\ denied \subseteq Tasks /\ helped \subseteq Tasks
  /\ poll.at \in {"idle", "looking", "citing", "driving", "decided"}
  /\ poll.at = "looking" => poll.left # << >>
  /\ poll.at \in {"citing", "driving", "decided"} => poll.task \in Tasks

OnScreen(t) == OnBoard(t) /\ record[t].card = desk[t].gate

(* A task that waits for a human has its card on the screen, until as many *)
(* records as the table holds were made after its own: no busier room      *)
(* costs a gate its card sooner (dashboard.py:244).                        *)
WaitingIsShown ==
  \A t \in Tasks : desk[t].phase = "parked" =>
    OnScreen(t) \/ Cardinality(younger[t]) >= Cap

(* A card is left on the screen for the delay before the autopilot decides *)
(* (auto_loop.py:97-100), in a task no human decided on and no failed poll *)
(* was cut off at, also when its record was pruned meanwhile.              *)
GraceGiven ==
  poll.at = "citing" /\ Takes(poll.task, poll.card) =>
    shown[poll.task] >= Delay \/ poll.task \in helped

(* Under deny-first no task passes its first gate on the word of the       *)
(* autopilot alone (auto_loop.py:103).                                     *)
DenyFirstHolds ==
  \A t \in Tasks : policy = "deny-first" /\ desk[t].gate > 1 => t \in helped

(* Under a policy that decides, a gate does not stay closed for ever while *)
(* its card is on the screen.                                              *)
GatesAreDecided ==
  policy # "human" =>
    \A t \in Tasks : desk[t].phase = "parked" ~> (desk[t].phase # "parked" \/ ~OnScreen(t))
=============================================================================
