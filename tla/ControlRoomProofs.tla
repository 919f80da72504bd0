------------------------- MODULE ControlRoomProofs -------------------------
(***************************************************************************)
(* Theorems about the control room, for any tasks, any room for records,   *)
(* any delay, number of gates and of polls that are cut off.               *)
(***************************************************************************)
EXTENDS ControlRoom, SequenceTheorems, FiniteSetTheorems, TLAPS

Points == {"idle", "looking", "citing", "driving", "decided"}
Polls == [at : Points, left : Seq(Tasks), task : Tasks \cup {NoTask}, card : Nat,
          verdict : Verdicts]
Desks == [Tasks -> [phase : Phases, gate : 0..MaxGates]]
States == {"", "RECEIVED", "EXECUTING", "AWAITING_APPROVAL", "REPORTED", "PARTIAL"}
Records == [Tasks -> [state : States, card : Nat]]

(* What TypeOK leaves to the reader of Init, and what a poll knows.        *)
PollTyped ==
  /\ poll \in Polls
  /\ poll.at # "idle" => poll.left # << >>
  /\ poll.at \in {"citing", "driving", "decided"} => poll.task \in Tasks

Typed ==
  /\ desk \in Desks /\ record \in Records /\ PollTyped
  /\ policy \in Policies /\ denied \subseteq Tasks /\ helped \subseteq Tasks

Distinct(s) == \A i, j \in DOMAIN s : s[i] = s[j] => i = j
Table == board \in Seq(Tasks) /\ Len(board) <= Cap /\ Distinct(board)

(* No record shows a gate its task has not reached.                        *)
Cards == \A t \in Tasks : record[t].card <= desk[t].gate

Timers == DOMAIN timer \subseteq Tasks /\ \A t \in DOMAIN timer : timer[t] \in 0..Delay

TInv == Typed /\ Table /\ Cards /\ Timers
-----------------------------------------------------------------------------
(* Between two polls nothing is carried.                                   *)
LEMMA NoPollLemma == NoPoll \in Polls /\ NoPoll.at = "idle"
BY DEF NoPoll, Polls, Points, Verdicts, NoCard

(* A poll done with one task goes on to the next, or ends after the last.  *)
LEMMA PastLemma ==
  ASSUME NEW p \in Polls, p.left # << >>
  PROVE  /\ Past(p) \in Polls /\ Past(p).at \in {"idle", "looking"}
         /\ Past(p).at = "looking" => Past(p).left # << >>
<1>1. p.left \in Seq(Tasks)
  BY DEF Polls
<1>2. Tail(p.left) \in Seq(Tasks) /\ Len(Tail(p.left)) = Len(p.left) - 1
  BY <1>1
<1>3. ASSUME Len(p.left) # 1, Tail(p.left) = << >> PROVE FALSE
  <2>1. Len(p.left) \in Nat \ {0}
    BY <1>1, EmptySeq
  <2>2. Len(Tail(p.left)) # 0
    BY <1>2, <1>3, <2>1
  <2> QED BY <1>3, <2>2, EmptySeq, Zenon
<1> QED BY <1>2, <1>3, NoPollLemma DEF Past, Polls, Points, NoPoll, Verdicts, NoCard

(* Going past a task leaves a well-formed poll.                            *)
LEMMA PastTyped ==
  ASSUME poll \in Polls, poll.left # << >>, poll' = Past(poll)
  PROVE  PollTyped'
<1>1. Past(poll) \in Polls /\ Past(poll).at \in {"idle", "looking"}
      /\ (Past(poll).at = "looking" => Past(poll).left # << >>)
  BY PastLemma
<1> HIDE DEF Past
<1> QED BY <1>1 DEF PollTyped

(* The table stays within its cap and has no task twice.                   *)
LEMMA PruneLemma ==
  ASSUME NEW s \in Seq(Tasks), Distinct(s), Len(s) <= Cap + 1
  PROVE  Prune(s) \in Seq(Tasks) /\ Len(Prune(s)) <= Cap /\ Distinct(Prune(s))
<1>1. CASE Len(s) <= Cap
  BY <1>1 DEF Prune
<1>2. CASE Len(s) = Cap + 1
  <2>1. Prune(s) = SubSeq(s, 2, Len(s))
    BY <1>2, CapAssumption DEF Prune
  <2>2. /\ Prune(s) \in Seq(Tasks) /\ Len(Prune(s)) = Cap
        /\ \A i \in 1..Cap : Prune(s)[i] = s[i + 1]
    BY <1>2, <2>1, CapAssumption
  <2> QED BY <1>2, <2>2, CapAssumption, SMTT(30) DEF Distinct
<1> QED BY <1>1, <1>2, CapAssumption

(* An event of a task leaves the table within its cap (dashboard.py:244).  *)
LEMMA FoldTable ==
  ASSUME NEW t \in Tasks, NEW shows, Table, Fold(t, shows)
  PROVE  Table'
<1> DEFINE s == IF OnBoard(t) THEN board ELSE Append(board, t)
<1>1. s \in Seq(Tasks) /\ Len(s) <= Cap + 1
  BY CapAssumption DEF Table
<1>2. Distinct(s)
  BY DEF Table, Distinct, OnBoard
<1>3. board' = Prune(s)
  BY DEF Fold
<1> HIDE DEF s
<1> QED BY <1>1, <1>2, <1>3, PruneLemma DEF Table

(* What an event leaves behind.                                            *)
Shows == [state : States, card : Nat]

(* An event changes the record of its task alone.                          *)
LEMMA FoldLemma ==
  ASSUME NEW t \in Tasks, NEW shows \in Shows, record \in Records, Table, Fold(t, shows)
  PROVE  /\ Table' /\ record' \in Records /\ record'[t] = shows
         /\ \A u \in Tasks : u # t => record'[u] = record[u]
<1>1. Table'
  BY FoldTable
<1>2. record' = [record EXCEPT ![t] = shows]
  BY DEF Fold
<1> QED BY <1>1, <1>2 DEF Records, Shows

(* What a task shows is a record, with a card no later than its gate.      *)
LEMMA ShownLemma ==
  ASSUME NEW t \in Tasks, Typed, Cards
  PROVE  Shown(t) \in Shows /\ Shown(t).card <= desk[t].gate
<1>1. record[t] \in Shows /\ record[t].card <= desk[t].gate
  BY DEF Typed, Records, Shows, Cards
<1>2. Blank \in Shows /\ Blank.card = 0
  BY DEF Blank, Shows, States, NoCard
<1>3. desk[t].gate \in Nat
  BY BoundsAssumption DEF Typed, Desks
<1> QED BY <1>1, <1>2, <1>3 DEF Shown

(* The room opens with an empty table, no timers and no poll.              *)
LEMMA TInvInit == Init => TInv
<1> SUFFICES ASSUME Init PROVE TInv
  OBVIOUS
<1>1. desk \in Desks
  BY BoundsAssumption DEF Init, Desks, Phases
<1>5. Blank \in [state : States, card : Nat]
  BY DEF Blank, States, NoCard
<1>6. record \in Records
  BY <1>5 DEF Init, Records
<1>7. Blank.card = 0 /\ \A t \in Tasks : record[t] = Blank /\ desk[t].gate = 0
  BY DEF Init, Blank, NoCard
<1>8. Cards
  BY <1>7 DEF Cards
<1>2. Table
  BY CapAssumption DEF Init, Table, Distinct
<1>3. Timers
  BY DEF Init, Timers
<1>4. /\ poll \in Polls /\ poll.at = "idle"
      /\ policy \in Policies /\ denied \subseteq Tasks /\ helped \subseteq Tasks
  BY NoPollLemma DEF Init
<1> QED BY <1>1, <1>2, <1>3, <1>4, <1>6, <1>8 DEF TInv, Typed, PollTyped

(* A decision that is taken: a grant sends the task on, a denial ends it.  *)
LEMMA ApplyTInv ==
  ASSUME NEW t \in Tasks, NEW v \in Verdicts, TInv, Apply(t, v)
  PROVE  /\ Table' /\ Cards' /\ desk' \in Desks /\ record' \in Records
         /\ desk' = [desk EXCEPT ![t].phase = IF v = "APPROVED" THEN "working" ELSE "closed"]
<1>1. PICK shows \in Shows : shows.card = 0 /\ Fold(t, shows)
  BY DEF Apply, Shows, States, NoCard
<1>2. desk' = [desk EXCEPT ![t].phase = IF v = "APPROVED" THEN "working" ELSE "closed"]
  BY DEF Apply
<1>3. desk' \in Desks /\ \A u \in Tasks : desk'[u].gate = desk[u].gate
  BY <1>2 DEF TInv, Typed, Desks, Phases
<1>4. Table' /\ record' \in Records /\ record'[t] = shows
         /\ \A u \in Tasks : u # t => record'[u] = record[u]
  BY <1>1, FoldLemma DEF TInv, Typed
<1>5. Cards'
  BY <1>1, <1>3, <1>4, BoundsAssumption DEF TInv, Cards, Desks
<1> QED BY <1>2, <1>3, <1>4, <1>5

(* An event of a task whose gate is not less than the card it shows.       *)
LEMMA EventTInv ==
  ASSUME NEW t \in Tasks, NEW shows \in Shows, TInv, Fold(t, shows),
         desk' \in Desks, shows.card <= desk'[t].gate,
         \A u \in Tasks : u # t => desk'[u] = desk[u]
  PROVE  Table' /\ Cards' /\ record' \in Records
<1>1. /\ Table' /\ record' \in Records /\ record'[t] = shows
      /\ \A u \in Tasks : u # t => record'[u] = record[u]
  BY FoldLemma DEF TInv, Typed
<1>2. Cards'
  BY <1>1 DEF TInv, Cards
<1> QED BY <1>1, <1>2

(* A drive that returns leaves the poll where it was, or decided.          *)
LEMMA ReturnTyped ==
  ASSUME NEW t \in Tasks, PollTyped, DriveReturns(t)
  PROVE  PollTyped'
BY DEF DriveReturns, PollTyped, Polls, Points

(* A timer the autopilot starts is within its delay (auto_loop.py:126).    *)
LEMMA StartedLemma ==
  ASSUME NEW t \in Tasks, Timers
  PROVE  DOMAIN Started(t) \subseteq Tasks /\ \A u \in DOMAIN Started(t) : Started(t)[u] \in 0..Delay
BY DelayAssumption DEF Timers, Started

(* Dropping a timer keeps the others as they are.                          *)
LEMMA WithoutLemma ==
  ASSUME NEW t, Timers
  PROVE  /\ DOMAIN Without(timer, t) \subseteq Tasks
         /\ \A u \in DOMAIN Without(timer, t) : Without(timer, t)[u] \in 0..Delay
BY DEF Timers, Without

(* Every step of a task, a person, the autopilot or the clock keeps TInv.  *)
LEMMA TInvNext == TInv /\ [Next]_vars => TInv'
<1> SUFFICES ASSUME TInv, [Next]_vars PROVE TInv'
  OBVIOUS
<1>1. ASSUME NEW t \in Tasks, NEW s \in {"", "RECEIVED"}, Open(t, s) PROVE TInv'
  <2>1. desk' \in Desks /\ desk'[t].gate = desk[t].gate /\ \A u \in Tasks : u # t => desk'[u] = desk[u]
    BY <1>1 DEF Open, TInv, Typed, Desks, Phases
  <2>2. [Shown(t) EXCEPT !.state = s] \in Shows /\ [Shown(t) EXCEPT !.state = s].card <= desk[t].gate
    BY ShownLemma DEF TInv, Shows, States
  <2>3. Table' /\ Cards' /\ record' \in Records
    BY <1>1, <2>1, <2>2, EventTInv DEF Open
  <2> QED BY <1>1, <2>1, <2>3 DEF Open, TInv, Typed, PollTyped, Timers
<1>2. ASSUME NEW t \in Tasks, Work(t) PROVE TInv'
  <2>1. [Shown(t) EXCEPT !.state = "EXECUTING"] \in Shows
        /\ [Shown(t) EXCEPT !.state = "EXECUTING"].card <= desk[t].gate
    BY ShownLemma DEF TInv, Shows, States
  <2>2. desk' = desk /\ desk' \in Desks
    BY <1>2 DEF Work, TInv, Typed
  <2>3. Fold(t, [Shown(t) EXCEPT !.state = "EXECUTING"])
    BY <1>2 DEF Work
  <2>4. Table' /\ Cards' /\ record' \in Records
    <3> DEFINE shows == [Shown(t) EXCEPT !.state = "EXECUTING"]
    <3>1. shows.card <= desk'[t].gate /\ \A u \in Tasks : u # t => desk'[u] = desk[u]
      BY <2>1, <2>2
    <3>2. shows \in Shows /\ Fold(t, shows)
      BY <2>1, <2>3
    <3> HIDE DEF shows
    <3> QED BY <1>2, <2>2, <3>1, <3>2, EventTInv
  <2> QED BY <1>2, <2>4 DEF Work, TInv, Typed, PollTyped, Timers
<1>3. ASSUME NEW t \in Tasks, Park(t) PROVE TInv'
  <2>1. desk' \in Desks /\ \A u \in Tasks : u # t => desk'[u] = desk[u]
    BY <1>3, BoundsAssumption DEF Park, TInv, Typed, Desks, Phases
  <2>2. desk'[t].gate \in Nat
    BY <2>1, BoundsAssumption DEF Desks
  <2>3. [state |-> "AWAITING_APPROVAL", card |-> desk'[t].gate] \in Shows
    BY <2>2 DEF Shows, States
  <2>4. Table' /\ Cards' /\ record' \in Records
    <3> DEFINE shows == [state |-> "AWAITING_APPROVAL", card |-> desk'[t].gate]
    <3>1. shows \in Shows /\ Fold(t, shows) /\ shows.card <= desk'[t].gate
      BY <1>3, <2>2, <2>3 DEF Park
    <3> HIDE DEF shows
    <3> QED BY <1>3, <2>1, <3>1, EventTInv
  <2>5. PollTyped'
    BY <1>3, ReturnTyped DEF Park, TInv, Typed
  <2> QED BY <1>3, <2>1, <2>4, <2>5 DEF Park, TInv, Typed, Timers
<1>4. ASSUME NEW t \in Tasks, Close(t) PROVE TInv'
  <2>1. desk' \in Desks /\ desk'[t].gate = desk[t].gate /\ \A u \in Tasks : u # t => desk'[u] = desk[u]
    BY <1>4 DEF Close, TInv, Typed, Desks, Phases
  <2>2. [Shown(t) EXCEPT !.state = "REPORTED"] \in Shows
        /\ [Shown(t) EXCEPT !.state = "REPORTED"].card <= desk[t].gate
    BY ShownLemma DEF TInv, Shows, States
  <2>3. Table' /\ Cards' /\ record' \in Records
    BY <1>4, <2>1, <2>2, EventTInv DEF Close
  <2>4. PollTyped'
    BY <1>4, ReturnTyped DEF Close, TInv, Typed
  <2> QED BY <1>4, <2>1, <2>3, <2>4 DEF Close, TInv, Typed, Timers
<1>5. ASSUME NEW t \in Tasks, NEW v \in Verdicts, HumanDecides(t, v) PROVE TInv'
  BY <1>5, ApplyTInv DEF HumanDecides, TInv, Typed, PollTyped, Timers
<1>6. CASE PollStart
  <2>1. PollTyped'
    BY <1>6, NoPollLemma DEF PollStart, TInv, Table, PollTyped, Polls, Points
  <2> QED BY <1>6, <2>1 DEF PollStart, TInv, Typed, Table, Cards, Timers, OnBoard
<1>7. CASE Look
  <2> DEFINE t == Head(poll.left)
  <2>1. poll.left \in Seq(Tasks) /\ poll.left # << >> /\ poll \in Polls
    BY <1>7 DEF Look, TInv, Typed, PollTyped, Polls
  <2>2. t \in Tasks
    BY <2>1, HeadTailProperties
  <2>3. ASSUME poll' = Past(poll) PROVE PollTyped'
    BY <2>1, <2>3, PastTyped
  <2>4. ASSUME poll' = [poll EXCEPT !.at = "citing", !.task = t, !.card = record[t].card,
                                    !.verdict = Verdict(t)]
        PROVE  PollTyped'
    <3>1. record[t].card \in Nat /\ Verdict(t) \in Verdicts
      BY <2>2 DEF TInv, Typed, Records, Verdict, Verdicts
    <3> QED BY <2>1, <2>2, <2>4, <3>1 DEF PollTyped, Polls, Points
  <2>5. PollTyped'
    BY <1>7, <2>3, <2>4 DEF Look
  <2>6. timer' \in {timer, Without(timer, t), Started(t)}
    BY <1>7 DEF Look
  <2>7. Timers'
    BY <2>2, <2>6, StartedLemma, WithoutLemma DEF TInv, Timers
  <2> QED BY <1>7, <2>5, <2>7 DEF Look, TInv, Typed, Table, Cards
<1>8. CASE Cast
  <2>1. poll.task \in Tasks /\ poll.verdict \in Verdicts /\ poll \in Polls /\ poll.left # << >>
    BY <1>8 DEF Cast, TInv, Typed, PollTyped, Polls
  <2>2. PollTyped'
    BY <1>8, <2>1 DEF Cast, PollTyped, Polls, Points
  <2>3. Table' /\ Cards' /\ desk' \in Desks /\ record' \in Records
    BY <1>8, <2>1, ApplyTInv DEF Cast, TInv, Typed, Table, Cards
  <2> QED BY <1>8, <2>2, <2>3 DEF Cast, TInv, Typed, Timers
<1>9. CASE Book
  <2>1. poll \in Polls /\ poll.left # << >> /\ poll.task \in Tasks
    BY <1>9 DEF Book, TInv, Typed, PollTyped
  <2>2. PollTyped'
    BY <1>9, <2>1, PastTyped DEF Book
  <2>3. Timers'
    BY <1>9, WithoutLemma DEF Book, TInv, Timers
  <2>4. denied' \subseteq Tasks
    BY <1>9, <2>1 DEF Book, TInv, Typed
  <2> QED BY <1>9, <2>2, <2>3, <2>4 DEF Book, TInv, Typed, Table, Cards
<1>10. CASE PollFails
  <2>1. PollTyped'
    BY <1>10, NoPollLemma DEF PollFails, PollTyped
  <2> QED BY <1>10, <2>1 DEF PollFails, TInv, Typed, PollTyped, Table, Cards, Timers
<1>11. CASE Tick
  <2>1. Timers'
    BY <1>11, DelayAssumption DEF Tick, TInv, Timers, Older
  <2> QED BY <1>11, <2>1 DEF Tick, TInv, Typed, PollTyped, Table, Cards
<1>12. CASE UNCHANGED vars
  BY <1>12 DEF vars, TInv, Typed, PollTyped, Table, Cards, Timers
<1> QED BY <1>1, <1>2, <1>3, <1>4, <1>5, <1>6, <1>7, <1>8, <1>9, <1>10, <1>11, <1>12
        DEF Next, Drive, Autopilot

(* Every record, timer and poll is well formed, and no task has two        *)
(* records, however many tasks there are and however small the room.       *)
THEOREM TypeCorrect == Spec => []TypeOK
<1>1. TInv => TypeOK
  <2> SUFFICES ASSUME TInv PROVE TypeOK
    OBVIOUS
  <2>1. \A t \in Tasks : record[t].card \in 0..desk[t].gate
    BY BoundsAssumption DEF TInv, Typed, Cards, Desks, Records
  <2> QED BY <2>1 DEF TInv, Typed, PollTyped, Table, Distinct, Timers, TypeOK, Desks, Polls, Points
<1> QED BY <1>1, TInvInit, TInvNext, PTL DEF Spec
-----------------------------------------------------------------------------
(* Who is left to the autopilot alone, under deny-first, is at most at the *)
(* first gate, and never past it; whom it denied is closed.                *)
Alone(t) == policy = "deny-first" /\ t \notin helped

AtFirst ==
  \A t \in Tasks : Alone(t) =>
    /\ desk[t].gate <= 1
    /\ desk[t].gate = 1 => desk[t].phase \in {"parked", "closed"}
    /\ t \in denied => desk[t].phase = "closed"

(* The verdict a poll carries is the one its task's history asks for.      *)
Carried ==
  /\ poll.at = "citing" => poll.card \in 1..desk[poll.task].gate
  /\ poll.at = "driving" => poll.verdict = "APPROVED"
  /\ Alone(poll.task) =>
       /\ poll.at = "citing" /\ poll.verdict = "APPROVED" => poll.task \in denied
       /\ poll.at = "decided" /\ poll.verdict = "DENIED" => desk[poll.task].phase = "closed"

DInv == TInv /\ AtFirst /\ Carried

(* A step that leaves what a poll carries alone keeps it, if no task that  *)
(* is closed is opened again and no gate is taken back.                    *)
LEMMA CarriedKept ==
  ASSUME DInv, TInv', UNCHANGED <<policy, denied>>, helped \subseteq helped',
         poll' = poll \/ poll'.at = "idle"
           \/ (poll.at = "driving" /\ poll'.at = "decided" /\ poll' = [poll EXCEPT !.at = "decided"]),
         \A t \in Tasks : /\ desk[t].gate <= desk'[t].gate
                          /\ desk[t].phase = "closed" => desk'[t].phase = "closed"
  PROVE  Carried'
<1>1. CASE poll' = poll
  <2>1. poll.at \in {"citing", "decided"} => poll.task \in Tasks
    BY DEF DInv, TInv, Typed, PollTyped
  <2>2. \A t \in Tasks : desk[t].gate \in Nat /\ desk'[t].gate \in Nat
    BY BoundsAssumption DEF DInv, TInv, Typed, Desks
  <2>3. poll.at = "citing" => poll.card \in 1..desk[poll.task].gate
    BY DEF DInv, Carried
  <2>4. poll.at = "citing" => poll.card \in 1..desk'[poll.task].gate
    BY <2>1, <2>2, <2>3
  <2> QED BY <1>1, <2>1, <2>4 DEF DInv, Carried, Alone
<1>2. CASE poll'.at = "idle"
  BY <1>2 DEF Carried
<1>3. CASE poll.at = "driving" /\ poll' = [poll EXCEPT !.at = "decided"]
  <2>1. poll'.at = "decided" /\ poll'.verdict = "APPROVED"
    BY <1>3 DEF DInv, Carried, TInv, Typed, PollTyped, Polls
  <2> QED BY <2>1 DEF Carried
<1> QED BY <1>1, <1>2, <1>3

(* A task that is not closed may change phase: no gate moves back and no  *)
(* closed task is opened.                                                  *)
LEMMA PhaseKept ==
  ASSUME NEW t \in Tasks, NEW x \in Phases, desk \in Desks, desk[t].phase # "closed",
         desk' = [desk EXCEPT ![t].phase = x]
  PROVE  \A u \in Tasks : /\ desk[u].gate <= desk'[u].gate
                          /\ desk[u].phase = "closed" => desk'[u].phase = "closed"
BY BoundsAssumption DEF Desks

(* Nobody is past a gate when the room opens.                              *)
LEMMA DInvInit == Init => DInv
<1> SUFFICES ASSUME Init PROVE DInv
  OBVIOUS
<1>1. AtFirst
  BY DEF Init, AtFirst
<1>2. Carried
  BY NoPollLemma DEF Init, Carried
<1> QED BY <1>1, <1>2, TInvInit DEF DInv

(* Every step keeps what deny-first rests on.                              *)
LEMMA DInvNext == DInv /\ [Next]_vars => DInv'
<1> SUFFICES ASSUME DInv, [Next]_vars PROVE DInv'
  OBVIOUS
<1>0. TInv /\ TInv'
  BY TInvNext DEF DInv
<1>1. ASSUME NEW t \in Tasks, NEW s \in {"", "RECEIVED"}, Open(t, s) PROVE DInv'
  <2>1. /\ desk' = [desk EXCEPT ![t].phase = "working"] /\ desk[t].phase = "absent"
        /\ UNCHANGED <<policy, denied, poll, helped>>
    BY <1>1 DEF Open
  <2>2. AtFirst'
    BY <2>1 DEF AtFirst, Alone, DInv, TInv, Typed, Desks
  <2>3. desk \in Desks /\ "working" \in Phases /\ desk[t].phase # "closed"
    BY <2>1 DEF DInv, TInv, Typed, Phases
  <2>4. \A u \in Tasks : /\ desk[u].gate <= desk'[u].gate
                         /\ desk[u].phase = "closed" => desk'[u].phase = "closed"
    BY <1>1, <2>1, <2>3, PhaseKept, Zenon
  <2> QED BY <1>0, <2>1, <2>2, <2>4, CarriedKept DEF DInv
<1>2. ASSUME NEW t \in Tasks, Park(t) PROVE DInv'
  <2>1. /\ desk[t].phase = "working"
        /\ desk' = [desk EXCEPT ![t] = [phase |-> "parked", gate |-> @.gate + 1]]
        /\ DriveReturns(t) /\ UNCHANGED <<policy, denied, helped>>
    BY <1>2 DEF Park
  <2>2. AtFirst'
    BY <2>1, BoundsAssumption DEF AtFirst, Alone, DInv, TInv, Typed, Desks
  <2>3. desk[t].gate \in Nat /\ desk'[t].gate = desk[t].gate + 1
    BY <2>1, BoundsAssumption DEF DInv, TInv, Typed, Desks
  <2>4. \A u \in Tasks : u # t => desk'[u] = desk[u] /\ desk[u].gate \in Nat
    BY <2>1, BoundsAssumption DEF DInv, TInv, Typed, Desks
  <2>5. \A u \in Tasks : /\ desk[u].gate <= desk'[u].gate
                         /\ desk[u].phase = "closed" => desk'[u].phase = "closed"
    BY <2>1, <2>3, <2>4
  <2> QED BY <1>0, <2>1, <2>2, <2>5, CarriedKept DEF DInv, DriveReturns
<1>3. ASSUME NEW t \in Tasks, Close(t) PROVE DInv'
  <2>1. /\ desk[t].phase = "working" /\ desk' = [desk EXCEPT ![t].phase = "closed"]
        /\ DriveReturns(t) /\ UNCHANGED <<policy, denied, helped>>
    BY <1>3 DEF Close
  <2>2. AtFirst'
    BY <2>1 DEF AtFirst, Alone, DInv, TInv, Typed, Desks
  <2>3. \A u \in Tasks : /\ desk[u].gate <= desk'[u].gate
                         /\ desk[u].phase = "closed" => desk'[u].phase = "closed"
    BY <2>1, BoundsAssumption DEF DInv, TInv, Typed, Desks
  <2> QED BY <1>0, <2>1, <2>2, <2>3, CarriedKept DEF DInv, DriveReturns
<1>4. ASSUME NEW t \in Tasks, NEW v \in Verdicts, HumanDecides(t, v) PROVE DInv'
  <2>1. /\ desk' = [desk EXCEPT ![t].phase = IF v = "APPROVED" THEN "working" ELSE "closed"]
        /\ desk[t].phase = "parked" /\ UNCHANGED <<policy, denied, poll>> /\ helped' = helped \cup {t}
    BY <1>0, <1>4, ApplyTInv DEF HumanDecides, Takes
  <2>2. AtFirst'
    BY <2>1 DEF AtFirst, Alone, DInv, TInv, Typed, Desks
  <2>3. \A u \in Tasks : /\ desk[u].gate <= desk'[u].gate
                         /\ desk[u].phase = "closed" => desk'[u].phase = "closed"
    BY <2>1, BoundsAssumption DEF DInv, TInv, Typed, Desks
  <2> QED BY <1>0, <2>1, <2>2, <2>3, CarriedKept DEF DInv
<1>5. CASE Look
  <2> DEFINE t == Head(poll.left)
  <2>1. AtFirst'
    BY <1>5 DEF Look, DInv, AtFirst, Alone
  <2>2. poll.left \in Seq(Tasks) /\ poll.left # << >> /\ poll \in Polls /\ t \in Tasks
    BY <1>0, <1>5, HeadTailProperties DEF Look, TInv, Typed, PollTyped, Polls
  <2>3. ASSUME poll' = Past(poll) PROVE Carried'
    BY <2>2, <2>3, PastLemma DEF Carried
  <2>4. ASSUME record[t].card # NoCard,
               poll' = [poll EXCEPT !.at = "citing", !.task = t, !.card = record[t].card,
                                    !.verdict = Verdict(t)]
        PROVE  Carried'
    <3>1. record[t].card \in 1..desk[t].gate
      BY <1>0, <2>2, <2>4, BoundsAssumption, SMTT(30) DEF TInv, Typed, Cards, Records, Desks, NoCard
    <3>2. /\ poll'.at = "citing" /\ poll'.task = t
          /\ poll'.card = record[t].card /\ poll'.verdict = Verdict(t)
      BY <2>2, <2>4 DEF Polls
    <3>3. UNCHANGED <<policy, helped, denied, desk>>
      BY <1>5 DEF Look
    <3>4. Alone(t) /\ Verdict(t) = "APPROVED" => t \in denied
      BY DEF Alone, Verdict
    <3> HIDE DEF t
    <3> QED BY <3>1, <3>2, <3>3, <3>4 DEF Carried, Alone
  <2> QED BY <1>0, <1>5, <2>1, <2>3, <2>4 DEF Look, DInv
<1>6. CASE Cast
  <2>1. /\ poll.at = "citing" /\ poll.task \in Tasks /\ poll.verdict \in Verdicts /\ poll \in Polls
        /\ UNCHANGED <<policy, denied, helped>>
    BY <1>0, <1>6 DEF Cast, TInv, Typed, PollTyped, Polls
  <2>2. CASE Takes(poll.task, poll.card)
    <3>1. /\ desk' = [desk EXCEPT ![poll.task].phase =
                        IF poll.verdict = "APPROVED" THEN "working" ELSE "closed"]
          /\ desk[poll.task].phase = "parked"
          /\ poll' = [poll EXCEPT !.at = IF poll.verdict = "APPROVED" THEN "driving" ELSE "decided"]
      BY <1>0, <1>6, <2>1, <2>2, ApplyTInv DEF Cast, Takes
    <3>2. Alone(poll.task) => poll.verdict # "APPROVED"
      BY <2>1, <3>1 DEF DInv, AtFirst, Carried
    <3>3. AtFirst'
      BY <2>1, <3>1, <3>2 DEF AtFirst, Alone, DInv, TInv, Typed, Desks
    <3>4. Carried'
      BY <1>0, <2>1, <3>1, <3>2 DEF Carried, Alone, TInv, Typed, Desks, Polls, Verdicts
    <3> QED BY <1>0, <3>3, <3>4 DEF DInv
  <2>3. CASE ~Takes(poll.task, poll.card)
    <3>1. desk' = desk /\ poll' = [poll EXCEPT !.at = "decided"]
      BY <1>6, <2>3 DEF Cast
    <3>2. AtFirst'
      BY <2>1, <3>1 DEF AtFirst, Alone, DInv
    <3>3. Alone(poll.task) => desk[poll.task].phase = "closed"
      BY <2>1, <2>3, BoundsAssumption DEF DInv, TInv, Typed, Desks, AtFirst, Carried, Takes
    <3>4. Carried'
      BY <2>1, <3>1, <3>3 DEF Carried, Alone, Polls
    <3> QED BY <1>0, <3>2, <3>4 DEF DInv
  <2> QED BY <2>2, <2>3
<1>7. CASE Book
  <2>1. /\ poll.at = "decided" /\ poll \in Polls /\ poll.left # << >> /\ poll.task \in Tasks
        /\ poll' = Past(poll) /\ UNCHANGED <<policy, desk, helped>>
        /\ denied' = IF poll.verdict = "DENIED" THEN denied \cup {poll.task} ELSE denied
    BY <1>0, <1>7 DEF Book, TInv, Typed, PollTyped
  <2>2. AtFirst'
    BY <2>1 DEF DInv, AtFirst, Carried, Alone
  <2>3. Carried'
    BY <2>1, PastLemma DEF Carried
  <2> QED BY <1>0, <2>2, <2>3 DEF DInv
<1>8. CASE PollStart \/ PollFails
  <2>1. /\ UNCHANGED <<policy, desk, denied>> /\ helped \subseteq helped'
        /\ poll'.at \in {"looking", "idle"}
    BY <1>8, NoPollLemma DEF PollStart, PollFails, Polls
  <2>2. AtFirst'
    BY <2>1 DEF DInv, AtFirst, Alone
  <2>3. Carried'
    BY <2>1 DEF Carried
  <2> QED BY <1>0, <2>2, <2>3 DEF DInv
<1>9. CASE UNCHANGED <<desk, policy, denied, poll, helped>>
  BY <1>0, <1>9 DEF DInv, AtFirst, Carried, Alone
<1> QED BY <1>1, <1>2, <1>3, <1>4, <1>5, <1>6, <1>7, <1>8, <1>9
        DEF Next, Drive, Autopilot, Work, Tick, vars

(* Under deny-first no task passes its first gate unless a person decided  *)
(* on it or one of its polls was cut off (auto_loop.py:103): the denial    *)
(* that opens the rehearsed scenario cannot be skipped by timers that run  *)
(* on, stale cards, or records that are pruned.                            *)
THEOREM FirstGateIsDenied == Spec => []DenyFirstHolds
<1>1. DInv => DenyFirstHolds
  BY BoundsAssumption DEF DInv, AtFirst, Alone, DenyFirstHolds, TInv, Typed, Desks
<1> QED BY <1>1, DInvInit, DInvNext, PTL DEF Spec
-----------------------------------------------------------------------------
(* What an event shows is what became of its task: every step leaves the   *)
(* table alone, or is the event of one task.                               *)
Event(t, shows) ==
  /\ Fold(t, shows)
  /\ \A u \in Tasks : u # t => desk'[u] = desk[u]
  /\ desk'[t].phase # "absent"
  /\ shows.state = "AWAITING_APPROVAL" <=> desk'[t].phase = "parked"
  /\ desk'[t].phase = "parked" => shows.card = desk'[t].gate

LEMMA EventLemma ==
  ASSUME TInv, [Next]_vars
  PROVE  \/ UNCHANGED <<desk, board, record, younger>>
         \/ \E t \in Tasks, shows \in Shows : Event(t, shows)
<1>1. ASSUME NEW t \in Tasks, NEW s \in {"", "RECEIVED"}, Open(t, s)
      PROVE  \E shows \in Shows : Event(t, shows)
  <2> DEFINE shows == [Shown(t) EXCEPT !.state = s]
  <2>1. shows \in Shows /\ shows.state = s
    BY ShownLemma DEF TInv, Shows, States
  <2>2. Fold(t, shows) /\ desk' = [desk EXCEPT ![t].phase = "working"]
    BY <1>1 DEF Open
  <2> HIDE DEF shows
  <2> QED BY <2>1, <2>2 DEF Event, TInv, Typed, Desks
<1>2. ASSUME NEW t \in Tasks, Work(t)
      PROVE  \E shows \in Shows : Event(t, shows)
  <2> DEFINE shows == [Shown(t) EXCEPT !.state = "EXECUTING"]
  <2>1. shows \in Shows /\ shows.state = "EXECUTING"
    BY ShownLemma DEF TInv, Shows, States
  <2>2. Fold(t, shows) /\ desk' = desk /\ desk[t].phase = "working"
    BY <1>2 DEF Work
  <2> HIDE DEF shows
  <2> QED BY <2>1, <2>2 DEF Event
<1>3. ASSUME NEW t \in Tasks, Park(t)
      PROVE  \E shows \in Shows : Event(t, shows)
  <2> DEFINE shows == [state |-> "AWAITING_APPROVAL", card |-> desk'[t].gate]
  <2>1. /\ \A u \in Tasks : u # t => desk'[u] = desk[u]
        /\ desk'[t].phase = "parked" /\ desk'[t].gate \in Nat
    BY <1>3, BoundsAssumption DEF Park, TInv, Typed, Desks
  <2>2. shows \in Shows /\ shows.state = "AWAITING_APPROVAL" /\ shows.card = desk'[t].gate
    BY <2>1 DEF Shows, States
  <2>3. Fold(t, shows)
    BY <1>3 DEF Park
  <2> HIDE DEF shows
  <2> QED BY <2>1, <2>2, <2>3 DEF Event
<1>4. ASSUME NEW t \in Tasks, Close(t)
      PROVE  \E shows \in Shows : Event(t, shows)
  <2> DEFINE shows == [Shown(t) EXCEPT !.state = "REPORTED"]
  <2>1. shows \in Shows /\ shows.state = "REPORTED"
    BY ShownLemma DEF TInv, Shows, States
  <2>2. Fold(t, shows) /\ desk' = [desk EXCEPT ![t].phase = "closed"]
    BY <1>4 DEF Close
  <2> HIDE DEF shows
  <2> QED BY <2>1, <2>2 DEF Event, TInv, Typed, Desks
<1>5. ASSUME NEW t \in Tasks, NEW v, Apply(t, v)
      PROVE  \E shows \in Shows : Event(t, shows)
  <2>1. CASE v = "APPROVED"
    <3> DEFINE shows == [state |-> "EXECUTING", card |-> NoCard]
    <3>1. shows \in Shows /\ shows.state = "EXECUTING"
      BY DEF Shows, States, NoCard
    <3>2. Fold(t, shows) /\ desk' = [desk EXCEPT ![t].phase = "working"]
      BY <1>5, <2>1 DEF Apply
    <3> HIDE DEF shows
    <3> QED BY <3>1, <3>2 DEF Event, TInv, Typed, Desks
  <2>2. CASE v # "APPROVED"
    <3> DEFINE shows == [state |-> "PARTIAL", card |-> NoCard]
    <3>1. shows \in Shows /\ shows.state = "PARTIAL"
      BY DEF Shows, States, NoCard
    <3>2. Fold(t, shows) /\ desk' = [desk EXCEPT ![t].phase = "closed"]
      BY <1>5, <2>2 DEF Apply
    <3> HIDE DEF shows
    <3> QED BY <3>1, <3>2 DEF Event, TInv, Typed, Desks
  <2> QED BY <2>1, <2>2
<1>6. ASSUME NEW t \in Tasks, NEW v \in Verdicts, HumanDecides(t, v)
      PROVE  \E shows \in Shows : Event(t, shows)
  BY <1>5, <1>6 DEF HumanDecides
<1>7. CASE Cast
  <2>1. poll.task \in Tasks
    BY <1>7 DEF Cast, TInv, Typed, PollTyped
  <2>2. Apply(poll.task, poll.verdict) \/ UNCHANGED <<desk, board, record, younger>>
    BY <1>7 DEF Cast
  <2> QED BY <1>5, <2>1, <2>2
<1>8. CASE PollStart \/ Look \/ Book \/ PollFails \/ Tick \/ UNCHANGED vars
  BY <1>8 DEF PollStart, Look, Book, PollFails, Tick, vars
<1> QED BY <1>1, <1>2, <1>3, <1>4, <1>6, <1>7, <1>8 DEF Next, Drive, Autopilot
-----------------------------------------------------------------------------
(* A record asks for a decision exactly while its task waits, and shows    *)
(* the gate it waits at, pruned or not.                                    *)
Faced ==
  \A t \in Tasks :
    /\ record[t].state = "AWAITING_APPROVAL" <=> desk[t].phase = "parked"
    /\ desk[t].phase = "parked" => record[t].card = desk[t].gate

(* Records stand in the order they were made in, and one that has left the *)
(* table has seen as many made after it as the table holds.                *)
Full(t) == Cardinality(younger[t]) >= Cap

Seats ==
  /\ younger \in [Tasks -> SUBSET Tasks] /\ \A t \in Tasks : IsFiniteSet(younger[t])
  /\ \A i, j \in DOMAIN board : i < j => board[j] \in younger[board[i]]

Gone == \A t \in Tasks : desk[t].phase # "absent" => OnBoard(t) \/ Full(t)

WInv == TInv /\ Faced /\ Seats /\ Gone

(* A set that holds Cap different tasks of the table is full.              *)
LEMMA FullLemma ==
  ASSUME NEW Y, IsFiniteSet(Y), NEW s, Distinct(s), DOMAIN s = 1..Cap,
         \A i \in DOMAIN s : s[i] \in Y
  PROVE  Cardinality(Y) >= Cap
<1> DEFINE f == [i \in 1..Cap |-> s[i]]
<1>1. f \in Injection(1..Cap, Y)
  BY DEF Injection, IsInjective, Distinct
<1>2. Cardinality(1..Cap) = Cap
  BY CapAssumption, FS_Interval
<1>3. Cardinality(1..Cap) <= Cardinality(Y)
  <2> HIDE DEF f
  <2> QED BY <1>1, FS_Injection
<1>4. Cardinality(Y) \in Nat
  BY FS_CardinalityType
<1> QED BY <1>2, <1>3, <1>4, CapAssumption

(* An event puts its task on the table; another leaves it only full.       *)
LEMMA FoldSeats ==
  ASSUME NEW t \in Tasks, NEW shows, Table, Seats, Fold(t, shows)
  PROVE  /\ Seats' /\ OnBoard(t)'
         /\ \A u \in Tasks : u # t /\ (OnBoard(u) \/ Full(u)) => OnBoard(u)' \/ Full(u)'
<1>1. CASE OnBoard(t)
  <2>1. board' = board /\ younger' = younger
    BY <1>1 DEF Fold, Prune, Table
  <2> QED BY <1>1, <2>1 DEF Seats, OnBoard, Full
<1>2. CASE ~OnBoard(t)
  <2> DEFINE s == Append(board, t)
             n == Len(board)
  <2>1. /\ n \in Nat /\ n <= Cap /\ DOMAIN board = 1..n
        /\ s \in Seq(Tasks) /\ Len(s) = n + 1 /\ s[n + 1] = t
        /\ \A i \in 1..n : s[i] = board[i] /\ board[i] # t /\ board[i] \in Tasks
    BY <1>2 DEF Table, OnBoard
  <2>2. board' = Prune(s)
    BY <1>2 DEF Fold
  <2>3. /\ younger' \in [Tasks -> SUBSET Tasks]
        /\ younger'[t] = {} /\ \A u \in Tasks : u # t => younger'[u] = younger[u] \cup {t}
    BY <1>2 DEF Fold, Seats
  <2>4. ASSUME NEW u \in Tasks PROVE IsFiniteSet(younger'[u])
    <3>1. CASE u = t
      BY <2>3, <3>1, FS_EmptySet
    <3>2. CASE u # t
      <4>1. IsFiniteSet(younger[u]) /\ younger'[u] = younger[u] \cup {t}
        BY <2>3, <3>2 DEF Seats
      <4> QED BY <4>1, FS_AddElement
    <3> QED BY <3>1, <3>2
  <2>5. \A i, j \in 1..(n + 1) : i < j => s[j] \in younger'[s[i]]
    <3> SUFFICES ASSUME NEW i \in 1..(n + 1), NEW j \in 1..(n + 1), i < j
                 PROVE  s[j] \in younger'[s[i]]
      OBVIOUS
    <3>1. i \in 1..n /\ s[i] = board[i] /\ s[i] \in Tasks /\ s[i] # t
      BY <2>1
    <3>2. CASE j = n + 1
      BY <2>1, <2>3, <3>1, <3>2
    <3>3. CASE j \in 1..n
      <4>1. board[j] \in younger[board[i]] /\ s[j] = board[j]
        BY <2>1, <3>1, <3>3 DEF Seats
      <4> QED BY <2>3, <3>1, <4>1
    <3> QED BY <2>1, <3>2, <3>3
  <2>6. Distinct(s)
    BY <1>2 DEF Table, Distinct, OnBoard
  <2>7. ASSUME NEW u \in Tasks, u # t, Full(u) PROVE Full(u)'
    <3>1. younger'[u] = younger[u] \cup {t} /\ IsFiniteSet(younger[u])
      BY <2>3, <2>7 DEF Seats
    <3>2. Cardinality(younger'[u]) \in {Cardinality(younger[u]), Cardinality(younger[u]) + 1}
      BY <3>1, FS_AddElement
    <3>3. Cardinality(younger[u]) \in Nat
      BY <3>1, FS_CardinalityType
    <3> QED BY <2>7, <3>2, <3>3, CapAssumption DEF Full
  <2> HIDE DEF s
  <2>8. CASE n < Cap
    <3>1. board' = s
      BY <2>1, <2>2, <2>8, CapAssumption DEF Prune
    <3>2. DOMAIN s = 1..(n + 1)
      BY <2>1
    <3>3. Seats'
      BY <2>3, <2>4, <2>5, <3>1, <3>2 DEF Seats
    <3>4. OnBoard(t)' /\ \A u \in Tasks : OnBoard(u) => OnBoard(u)'
      BY <2>1, <3>1, <3>2 DEF OnBoard
    <3> QED BY <2>7, <3>3, <3>4
  <2>9. CASE n = Cap
    <3>1. board' = SubSeq(s, 2, n + 1)
      BY <2>1, <2>2, <2>9, CapAssumption DEF Prune
    <3>2. DOMAIN board' = 1..Cap /\ \A i \in 1..Cap : board'[i] = s[i + 1]
      BY <2>1, <2>9, <3>1, CapAssumption
    <3>3. Seats'
      <4>1. ASSUME NEW i \in 1..Cap, NEW j \in 1..Cap, i < j
            PROVE  board'[j] \in younger'[board'[i]]
        <5>1. i + 1 \in 1..(n + 1) /\ j + 1 \in 1..(n + 1) /\ i + 1 < j + 1
          BY <2>9, <4>1, CapAssumption
        <5>2. s[j + 1] \in younger'[s[i + 1]]
          BY <2>5, <5>1
        <5>3. board'[i] = s[i + 1] /\ board'[j] = s[j + 1]
          BY <3>2
        <5> QED BY <5>2, <5>3
      <4> QED BY <2>3, <2>4, <3>2, <4>1 DEF Seats
    <3>4. OnBoard(t)'
      BY <2>1, <2>9, <3>2, CapAssumption DEF OnBoard
    <3>5. ASSUME NEW u \in Tasks, u # t, OnBoard(u) PROVE OnBoard(u)' \/ Full(u)'
      <4>1. PICK i \in 1..n : board[i] = u /\ s[i] = u
        BY <2>1, <3>5 DEF OnBoard
      <4>2. CASE i > 1
        <5>1. i - 1 \in 1..Cap /\ board'[i - 1] = u
          BY <2>1, <2>9, <3>2, <4>1, <4>2
        <5> QED BY <3>2, <5>1 DEF OnBoard
      <4>3. CASE i = 1
        <5>1. \A j \in 1..Cap : board'[j] \in younger'[u]
          <6> SUFFICES ASSUME NEW j \in 1..Cap PROVE board'[j] \in younger'[u]
            OBVIOUS
          <6>1. 1 \in 1..(n + 1) /\ j + 1 \in 1..(n + 1) /\ 1 < j + 1
            BY <2>9, CapAssumption
          <6>2. s[j + 1] \in younger'[s[1]]
            BY <2>5, <6>1
          <6>3. board'[j] = s[j + 1] /\ s[1] = u
            BY <3>2, <4>1, <4>3
          <6> QED BY <6>2, <6>3
        <5>2. Distinct(board')
          <6> SUFFICES ASSUME NEW j \in 1..Cap, NEW k \in 1..Cap, board'[j] = board'[k]
                       PROVE  j = k
            BY <3>2 DEF Distinct
          <6>1. s[j + 1] = s[k + 1] /\ j + 1 \in DOMAIN s /\ k + 1 \in DOMAIN s
            BY <2>1, <2>9, <3>2, CapAssumption
          <6>2. j + 1 = k + 1
            BY <2>6, <6>1 DEF Distinct
          <6> QED BY <6>2
        <5> QED BY <2>4, <3>2, <5>1, <5>2, FullLemma DEF Full
      <4> QED BY <2>1, <4>1, <4>2, <4>3
    <3> QED BY <2>7, <3>3, <3>4, <3>5
  <2>10. n < Cap \/ n = Cap
    BY <2>1, CapAssumption
  <2> HIDE DEF n
  <2> QED BY <2>8, <2>9, <2>10
<1> QED BY <1>1, <1>2

LEMMA WInvInit == Init => WInv
<1> SUFFICES ASSUME Init PROVE WInv
  OBVIOUS
<1>1. Faced
  BY DEF Init, Faced, Blank
<1>2. Seats
  BY FS_EmptySet DEF Init, Seats
<1>3. Gone
  BY DEF Init, Gone
<1> QED BY <1>1, <1>2, <1>3, TInvInit DEF WInv

LEMMA WInvNext == WInv /\ [Next]_vars => WInv'
<1> SUFFICES ASSUME TInv, Faced, Seats, Gone, [Next]_vars PROVE Faced' /\ Seats' /\ Gone'
  BY TInvNext DEF WInv
<1>1. ASSUME UNCHANGED <<desk, board, record, younger>> PROVE Faced' /\ Seats' /\ Gone'
  BY <1>1 DEF Faced, Seats, Gone, OnBoard, Full
<1>2. ASSUME NEW t \in Tasks, NEW shows \in Shows, Event(t, shows)
      PROVE  Faced' /\ Seats' /\ Gone'
  <2>1. /\ record'[t] = shows
        /\ \A u \in Tasks : u # t => record'[u] = record[u]
    BY <1>2, FoldLemma DEF Event, TInv, Typed
  <2>2. Faced'
    BY <1>2, <2>1 DEF Event, Faced
  <2>3. /\ Seats' /\ OnBoard(t)'
        /\ \A u \in Tasks : u # t /\ (OnBoard(u) \/ Full(u)) => OnBoard(u)' \/ Full(u)'
    BY <1>2, FoldSeats DEF Event, TInv
  <2>4. Gone'
    BY <1>2, <2>3 DEF Event, Gone
  <2> QED BY <2>2, <2>3, <2>4
<1> QED BY <1>1, <1>2, EventLemma

LEMMA WInvHolds == Spec => []WInv
BY WInvInit, WInvNext, PTL DEF Spec

(* A task that waits for a person has its card on the screen until as many *)
(* records as the table holds were made after its own (dashboard.py:244):  *)
(* only a busy room costs a gate its card, never a late or a blank event.  *)
THEOREM WaitersAreShown == Spec => []WaitingIsShown
<1>1. WInv => WaitingIsShown
  BY DEF WInv, Faced, Gone, WaitingIsShown, OnScreen, Full
<1> QED BY <1>1, WInvHolds, PTL
-----------------------------------------------------------------------------
(* A timer that runs is that of a card that is on the screen at least as   *)
(* long, of a task that is closed or was helped, or of one whose decision  *)
(* is being taken and not booked yet: none outlives its gate.              *)
Booking(t) == poll.at \in {"driving", "decided"} /\ poll.task = t

Timed ==
  \A t \in DOMAIN timer :
    \/ t \in helped
    \/ desk[t].phase = "closed"
    \/ desk[t].phase = "parked" /\ timer[t] <= shown[t]
    \/ Booking(t)

Cited ==
  poll.at = "citing" /\ Takes(poll.task, poll.card) =>
    shown[poll.task] >= Delay \/ poll.task \in helped

Ages == shown \in [Tasks -> 0..Delay]

GInv == Timed /\ Cited /\ Ages

(* An event of a task that was not waiting leaves the timers true.         *)
LEMMA EventGrace ==
  ASSUME TInv, DInv, GInv, NEW t \in Tasks, desk[t].phase # "parked", desk[t].phase # "closed",
         \A u \in Tasks : u # t => desk'[u] = desk[u] /\ shown'[u] = shown[u],
         DriveReturns(t) \/ poll' = poll, UNCHANGED <<timer, helped>>, shown' \in [Tasks -> 0..Delay],
         desk'[t].phase = "parked" => desk'[t].gate = desk[t].gate + 1
  PROVE  GInv'
<1>1. poll \in Polls /\ (poll.at \in {"citing", "driving", "decided"} => poll.task \in Tasks)
  BY DEF TInv, Typed, PollTyped
<1>2. /\ poll'.task = poll.task /\ poll'.card = poll.card
      /\ poll'.at = "citing" <=> poll.at = "citing"
      /\ poll.at \in {"driving", "decided"} => poll'.at \in {"driving", "decided"}
  BY <1>1 DEF DriveReturns, Polls, Points
<1>3. Timed'
  <2> SUFFICES ASSUME NEW u \in DOMAIN timer
               PROVE  \/ u \in helped
                      \/ desk'[u].phase = "closed"
                      \/ desk'[u].phase = "parked" /\ timer[u] <= shown'[u]
                      \/ Booking(u)'
    BY DEF Timed
  <2>1. u \in Tasks
    BY DEF TInv, Timers
  <2>2. \/ u \in helped
        \/ desk[u].phase = "closed"
        \/ desk[u].phase = "parked" /\ timer[u] <= shown[u]
        \/ Booking(u)
    BY DEF GInv, Timed
  <2>3. Booking(u) => Booking(u)'
    BY <1>2 DEF Booking
  <2> QED BY <2>1, <2>2, <2>3
<1>4. Cited'
  <2> SUFFICES ASSUME poll'.at = "citing", Takes(poll.task, poll.card)'
               PROVE  shown'[poll.task] >= Delay \/ poll.task \in helped
    BY <1>2 DEF Cited, Takes
  <2>1. poll.at = "citing" /\ poll.task \in Tasks /\ poll.card \in 1..desk[poll.task].gate
    BY <1>1, <1>2 DEF DInv, Carried
  <2>2. poll.task # t
    <3>1. ASSUME poll.task = t PROVE FALSE
      <4>1. desk'[t].phase = "parked" /\ desk'[t].gate = poll.card
        BY <1>2, <3>1 DEF Takes
      <4>2. desk[t].gate \in Nat /\ poll.card <= desk[t].gate /\ poll.card = desk[t].gate + 1
        BY <2>1, <3>1, <4>1, BoundsAssumption DEF TInv, Typed, Desks
      <4> QED BY <4>2
    <3> QED BY <3>1
  <2>3. Takes(poll.task, poll.card) /\ shown'[poll.task] = shown[poll.task]
    BY <1>2, <2>1, <2>2 DEF Takes
  <2> QED BY <2>1, <2>3 DEF GInv, Cited
<1> QED BY <1>3, <1>4 DEF GInv, Ages

LEMMA GInvInit == Init => GInv
<1> SUFFICES ASSUME Init PROVE GInv
  OBVIOUS
<1>1. Ages
  BY DelayAssumption DEF Init, Ages
<1>2. Timed
  BY DEF Init, Timed
<1>3. Cited
  BY DEF Init, Cited, NoPoll
<1> QED BY <1>1, <1>2, <1>3 DEF GInv

LEMMA GInvNext == DInv /\ WInv /\ GInv /\ [Next]_vars => GInv'
<1> SUFFICES ASSUME TInv, DInv, WInv, GInv, [Next]_vars PROVE GInv'
  BY DEF WInv
<1>0. \A t \in DOMAIN timer : t \in Tasks /\ timer[t] \in 0..Delay
  BY DEF TInv, Timers
<1>1. ASSUME NEW t \in Tasks, NEW s \in {"", "RECEIVED"}, Open(t, s) PROVE GInv'
  <2>1. desk'[t].phase = "working" /\ \A u \in Tasks : u # t => desk'[u] = desk[u]
    BY <1>1 DEF Open, TInv, Typed, Desks
  <2> QED BY <1>1, <2>1, EventGrace DEF Open, GInv, Ages
<1>2. ASSUME NEW t \in Tasks, Work(t) PROVE GInv'
  BY <1>2, EventGrace DEF Work, GInv, Ages
<1>3. ASSUME NEW t \in Tasks, Park(t) PROVE GInv'
  <2>1. /\ desk'[t].gate = desk[t].gate + 1
        /\ \A u \in Tasks : u # t => desk'[u] = desk[u] /\ shown'[u] = shown[u]
        /\ shown' \in [Tasks -> 0..Delay]
    BY <1>3, DelayAssumption DEF Park, TInv, Typed, Desks, GInv, Ages
  <2> QED BY <1>3, <2>1, EventGrace DEF Park
<1>4. ASSUME NEW t \in Tasks, Close(t) PROVE GInv'
  <2>1. desk'[t].phase = "closed" /\ \A u \in Tasks : u # t => desk'[u] = desk[u]
    BY <1>4 DEF Close, TInv, Typed, Desks
  <2> QED BY <1>4, <2>1, EventGrace DEF Close, GInv, Ages
<1>5. ASSUME NEW t \in Tasks, NEW v \in Verdicts, HumanDecides(t, v) PROVE GInv'
  <2>1. /\ desk' = [desk EXCEPT ![t].phase = IF v = "APPROVED" THEN "working" ELSE "closed"]
        /\ helped' = helped \cup {t} /\ UNCHANGED <<timer, poll, shown>>
    BY <1>5, ApplyTInv DEF HumanDecides
  <2>2. \A u \in Tasks : u # t => desk'[u] = desk[u]
    BY <2>1 DEF TInv, Typed, Desks
  <2>3. Timed'
    BY <1>0, <2>1, <2>2 DEF GInv, Timed, Booking
  <2>4. Cited'
    <3>1. poll.at = "citing" => poll.task \in Tasks
      BY DEF TInv, Typed, PollTyped
    <3> QED BY <2>1, <2>2, <3>1 DEF GInv, Cited, Takes
  <2> QED BY <2>1, <2>3, <2>4 DEF GInv, Ages
<1>6. CASE PollStart
  <2>1. poll.at = "idle" /\ poll'.at = "looking" /\ UNCHANGED <<desk, timer, helped, shown>>
    BY <1>6, NoPollLemma DEF PollStart, Polls
  <2> QED BY <2>1 DEF GInv, Timed, Cited, Ages, Booking
<1>7. CASE Look
  <2> DEFINE t == Head(poll.left)
  <2>1. /\ poll.at = "looking" /\ poll \in Polls /\ poll.left # << >> /\ t \in Tasks
        /\ UNCHANGED <<desk, record, helped, shown>>
    BY <1>7, HeadTailProperties DEF Look, TInv, Typed, PollTyped, Polls
  <2>2. \A u \in DOMAIN timer : \/ u \in helped
                                \/ desk[u].phase = "closed"
                                \/ desk[u].phase = "parked" /\ timer[u] <= shown[u]
    BY <2>1 DEF GInv, Timed, Booking
  <2>3. CASE timer' = Without(timer, t) \/ timer' = timer
    <3>1. \A u \in DOMAIN timer' : u \in DOMAIN timer /\ timer'[u] = timer[u]
      BY <2>3 DEF Without
    <3>2. Timed'
      BY <2>1, <2>2, <3>1 DEF Timed
    <3>3. CASE poll' = Past(poll)
      <4>1. poll'.at # "citing"
        BY <2>1, <3>3, PastLemma
      <4> QED BY <2>1, <3>2, <4>1 DEF GInv, Cited, Ages
    <3>4. CASE /\ record[t].state = "AWAITING_APPROVAL" /\ timer' = Started(t)
               /\ timer'[t] >= Delay
               /\ poll' = [poll EXCEPT !.at = "citing", !.task = t, !.card = record[t].card,
                                       !.verdict = Verdict(t)]
      <4>1. desk[t].phase = "parked"
        BY <2>1, <3>4 DEF WInv, Faced
      <4>2. t \in DOMAIN timer'
        BY <3>4 DEF Started
      <4>3. t \in helped \/ timer'[t] <= shown[t]
        BY <2>2, <3>1, <4>1, <4>2
      <4>4. timer'[t] \in Nat /\ shown[t] \in Nat
        BY <1>0, <2>1, <3>1, <4>2, DelayAssumption DEF GInv, Ages
      <4>5. t \in helped \/ shown[t] >= Delay
        BY <3>4, <4>3, <4>4, DelayAssumption
      <4>6. poll'.task = t
        BY <2>1, <3>4 DEF Polls
      <4> QED BY <2>1, <3>2, <4>5, <4>6 DEF GInv, Cited, Ages
    <3> QED BY <1>7, <3>3, <3>4 DEF Look
  <2>4. CASE record[t].state = "AWAITING_APPROVAL" /\ timer' = Started(t) /\ t \notin DOMAIN timer
    <3>1. desk[t].phase = "parked"
      BY <2>1, <2>4 DEF WInv, Faced
    <3>2. /\ DOMAIN timer' = DOMAIN timer \cup {t} /\ timer'[t] = 0
          /\ \A u \in DOMAIN timer : timer'[u] = timer[u]
      BY <2>4 DEF Started
    <3>3. shown[t] \in Nat
      BY <2>1, DelayAssumption DEF GInv, Ages
    <3>4. Timed'
      BY <2>1, <2>2, <3>1, <3>2, <3>3 DEF Timed
    <3>5. Cited'
      <4>1. CASE poll' = Past(poll)
        BY <2>1, <4>1, PastLemma DEF Cited
      <4>2. CASE /\ timer'[t] >= Delay
                 /\ poll' = [poll EXCEPT !.at = "citing", !.task = t, !.card = record[t].card,
                                         !.verdict = Verdict(t)]
        <5>1. poll'.task = t
          BY <2>1, <4>2 DEF Polls
        <5>2. shown'[t] >= Delay
          BY <2>1, <3>2, <3>3, <4>2, DelayAssumption
        <5> QED BY <5>1, <5>2 DEF Cited
      <4> QED BY <1>7, <4>1, <4>2 DEF Look
    <3> QED BY <2>1, <3>4, <3>5 DEF GInv, Ages
  <2> QED BY <1>7, <2>3, <2>4 DEF Look, Started
<1>8. CASE Cast
  <2>1. /\ poll.at = "citing" /\ poll.task \in Tasks /\ poll.verdict \in Verdicts /\ poll \in Polls
        /\ UNCHANGED <<timer, helped, shown>>
    BY <1>8 DEF Cast, TInv, Typed, PollTyped, Polls
  <2>2. /\ poll'.at \in {"driving", "decided"} /\ poll'.task = poll.task
        /\ poll.verdict = "APPROVED" /\ Takes(poll.task, poll.card) => poll'.at = "driving"
    BY <1>8, <2>1 DEF Cast, Polls
  <2>3. \A u \in Tasks : u # poll.task => desk'[u] = desk[u]
    <3>1. CASE Takes(poll.task, poll.card)
      <4>1. desk' = [desk EXCEPT ![poll.task].phase =
                       IF poll.verdict = "APPROVED" THEN "working" ELSE "closed"]
        BY <1>8, <2>1, <3>1, ApplyTInv DEF Cast
      <4> QED BY <4>1 DEF TInv, Typed, Desks
    <3>2. CASE ~Takes(poll.task, poll.card)
      BY <1>8, <3>2 DEF Cast
    <3> QED BY <3>1, <3>2
  <2>4. Timed'
    BY <1>0, <2>1, <2>2, <2>3 DEF GInv, Timed, Booking
  <2>5. Cited'
    BY <2>2 DEF Cited
  <2> QED BY <2>1, <2>4, <2>5 DEF GInv, Ages
<1>9. CASE Book
  <2>1. /\ poll.at = "decided" /\ poll \in Polls /\ poll.left # << >>
        /\ poll' = Past(poll) /\ timer' = Without(timer, poll.task)
        /\ UNCHANGED <<desk, helped, shown>>
    BY <1>9 DEF Book, TInv, Typed, PollTyped
  <2>2. \A u \in DOMAIN timer' : u \in DOMAIN timer /\ u # poll.task /\ timer'[u] = timer[u]
    BY <2>1 DEF Without
  <2>3. Timed'
    BY <2>1, <2>2 DEF GInv, Timed, Booking
  <2>4. poll'.at # "citing"
    BY <2>1, PastLemma
  <2> QED BY <2>1, <2>3, <2>4 DEF GInv, Cited, Ages
<1>10. CASE PollFails
  <2>1. /\ helped' = helped \cup {poll.task} /\ poll'.at = "idle"
        /\ UNCHANGED <<desk, timer, shown>>
    BY <1>10, NoPollLemma DEF PollFails
  <2>2. Timed'
    BY <2>1 DEF GInv, Timed, Booking
  <2> QED BY <2>1, <2>2 DEF GInv, Cited, Ages
<1>11. CASE Tick
  <2>1. UNCHANGED <<desk, poll, helped>>
    BY <1>11 DEF Tick
  <2>2. /\ DOMAIN timer' = DOMAIN timer /\ \A t \in DOMAIN timer : timer'[t] = Older(timer[t])
        /\ \A t \in Tasks : shown'[t] = IF desk[t].phase = "parked" THEN Older(shown[t]) ELSE shown[t]
    BY <1>11 DEF Tick
  <2>3. \A a, b \in 0..Delay : /\ Older(a) \in 0..Delay /\ Older(a) >= a
                               /\ a <= b => Older(a) <= Older(b)
    BY DelayAssumption DEF Older
  <2>4. Ages'
    BY <1>11, <2>3 DEF Tick, GInv, Ages
  <2>5. Timed'
    <3> SUFFICES ASSUME NEW u \in DOMAIN timer
                 PROVE  \/ u \in helped
                        \/ desk[u].phase = "closed"
                        \/ desk[u].phase = "parked" /\ timer'[u] <= shown'[u]
                        \/ Booking(u)
      BY <2>1, <2>2 DEF Timed, Booking
    <3>1. u \in Tasks /\ timer[u] \in 0..Delay /\ shown[u] \in 0..Delay
      BY <1>0 DEF GInv, Ages
    <3>2. desk[u].phase = "parked" /\ timer[u] <= shown[u] => timer'[u] <= shown'[u]
      BY <2>2, <2>3, <3>1
    <3> QED BY <3>2 DEF GInv, Timed
  <2>6. Cited'
    <3> SUFFICES ASSUME poll.at = "citing", Takes(poll.task, poll.card)
                 PROVE  shown'[poll.task] >= Delay \/ poll.task \in helped
      BY <2>1 DEF Cited, Takes
    <3>1. poll.task \in Tasks
      BY DEF TInv, Typed, PollTyped
    <3>2. shown[poll.task] \in 0..Delay /\ shown'[poll.task] = Older(shown[poll.task])
      BY <2>2, <3>1 DEF GInv, Ages, Takes
    <3>3. shown[poll.task] >= Delay \/ poll.task \in helped
      BY DEF GInv, Cited
    <3>4. shown'[poll.task] >= shown[poll.task] /\ shown'[poll.task] \in 0..Delay
      BY <2>3, <3>2
    <3> QED BY <3>2, <3>3, <3>4, DelayAssumption
  <2> QED BY <2>4, <2>5, <2>6 DEF GInv
<1>12. CASE UNCHANGED vars
  BY <1>12 DEF vars, GInv, Timed, Cited, Ages, Booking, Takes
<1> QED BY <1>1, <1>2, <1>3, <1>4, <1>5, <1>6, <1>7, <1>8, <1>9, <1>10, <1>11, <1>12
        DEF Next, Drive, Autopilot

(* A card is on the screen for the delay before the autopilot decides on   *)
(* it (auto_loop.py:97-100), in every task no person decided on and no     *)
(* failed poll was cut off at: no timer of an earlier gate runs on into a  *)
(* later one, for a decision is booked before the next record is read.     *)
THEOREM GraceIsGiven == Spec => []GraceGiven
<1>1. GInv => GraceGiven
  BY DEF GInv, Cited, GraceGiven
<1> QED BY <1>1, DInvInit, DInvNext, WInvHolds, GInvInit, GInvNext, PTL DEF Spec
=============================================================================
