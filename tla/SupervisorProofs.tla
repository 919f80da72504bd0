-------------------------- MODULE SupervisorProofs --------------------------
(***************************************************************************)
(* Theorems about the supervisor, for any number of tasks, threads and     *)
(* incidents, any of the seed playbooks and any number of backend faults.  *)
(***************************************************************************)
EXTENDS Supervisor, TLAPS

(***************************************************************************)
(* The playbooks.  What the proofs need of them: a stage that is gated, or *)
(* that acts, occurs once; the act stage's back-edge goes back, at most    *)
(* three times; every playbook fits a cursor.                              *)
(***************************************************************************)
LEMMA Unique ==
  ASSUME NEW pb, NEW s, NEW k \in Nat,
         DOMAIN StagesOf(pb) \subseteq Nat,
         k \in DOMAIN StagesOf(pb), StagesOf(pb)[k] = s,
         \A m \in DOMAIN StagesOf(pb) : StagesOf(pb)[m] = s => m = k,
         \A m \in 1..k : m \in DOMAIN StagesOf(pb)
  PROVE  StageIndex(pb, s) = k
BY DEF StageIndex

LEMMA OneEdge ==
  ASSUME NEW pb, NEW s, NEW to, NEW n, BackEdges(pb, s) = {<<s, to, n>>}
  PROVE  /\ Cap(pb, s) = n /\ TargetOf(pb, s) = StageIndex(pb, to)
         /\ BackEdges(pb, s) # {}
<1> DEFINE e == CHOOSE x \in BackEdges(pb, s) : TRUE
<1>1. BackEdges(pb, s) # {} /\ e = <<s, to, n>>
  OBVIOUS
<1>2. e[2] = to /\ e[3] = n
  BY <1>1
<1> QED BY <1>1, <1>2 DEF Cap, TargetOf

(* The three facts, of one playbook. *)
Walkable(pb) ==
  LET act == StageIndex(pb, "act") IN
  /\ DOMAIN StagesOf(pb) = 1..Len(StagesOf(pb)) /\ Len(StagesOf(pb)) \in 1..7
  /\ \A n \in DOMAIN StagesOf(pb) : StagesOf(pb)[n] \in StageMenu
  /\ GatesOf(pb) \subseteq StageMenu
  /\ act \in DOMAIN StagesOf(pb) /\ StagesOf(pb)[act] = "act"
  /\ \A n \in DOMAIN StagesOf(pb) :
       StagesOf(pb)[n] \in GatesOf(pb) \cup {"act"} => StageIndex(pb, StagesOf(pb)[n]) = n
  /\ \A g \in GatesOf(pb) : 
       StageIndex(pb, g) \in DOMAIN StagesOf(pb) /\ StagesOf(pb)[StageIndex(pb, g)] = g
  /\ Cap(pb, "act") \in 0..3
  /\ Cap(pb, "act") > 0 => TargetOf(pb, "act") \in 1..(act - 1) /\ BackEdges(pb, "act") # {}

(* The numbers of a walkable playbook: where "act" and the gates stand, and *)
(* where the back-edge from "act" leads.                                   *)
LEMMA BookFacts ==
  ASSUME NEW pb, Walkable(pb)
  PROVE  /\ DOMAIN StagesOf(pb) = 1..Len(StagesOf(pb)) /\ Len(StagesOf(pb)) \in 1..7
         /\ StageIndex(pb, "act") \in 1..Len(StagesOf(pb)) /\ StageIndex(pb, "act") \in 1..7
         /\ \A g \in GatesOf(pb) : StageIndex(pb, g) \in 1..Len(StagesOf(pb))
         /\ Cap(pb, "act") > 0 =>
              /\ TargetOf(pb, "act") \in 1..(StageIndex(pb, "act") - 1)
              /\ TargetOf(pb, "act") \in 1..8
              /\ TargetOf(pb, "act") \in 1..(Len(StagesOf(pb)) + 1)
<1> DEFINE len == Len(StagesOf(pb))
           act == StageIndex(pb, "act")
           to == TargetOf(pb, "act")
<1>1. DOMAIN StagesOf(pb) = 1..len /\ len \in 1..7 /\ act \in 1..len
  BY DEF Walkable
<1>2. \A g \in GatesOf(pb) : StageIndex(pb, g) \in 1..len
  BY DEF Walkable
<1>3. Cap(pb, "act") > 0 => to \in 1..(act - 1)
  BY DEF Walkable
<1> HIDE DEF len, act, to
<1>4. act \in 1..7 /\ \A x \in 1..(act - 1) : x \in 1..8 /\ x \in 1..(len + 1)
  BY <1>1
<1> QED BY <1>1, <1>2, <1>3, <1>4 DEF len, act, to

LEMMA GenericWalkable == Walkable("generic")
<1> DEFINE pb == "generic"
<1>1. /\ StagesOf(pb) = <<"observe", "plan", "act", "verify", "report">>
      /\ GatesOf(pb) = {"act"}
      /\ BackEdges(pb, "act") = {<<"act", "plan", 2>>}
  BY DEF PlaybookTable, StagesOf, GatesOf, BackEdges
<1> HIDE DEF pb
<1>2. StageIndex(pb, "act") = 3 /\ StageIndex(pb, "plan") = 2
  BY <1>1, Unique
<1>3. Cap(pb, "act") = 2 /\ TargetOf(pb, "act") = 2 /\ BackEdges(pb, "act") # {}
  <2>1. /\ Cap(pb, "act") = 2 /\ TargetOf(pb, "act") = StageIndex(pb, "plan")
        /\ BackEdges(pb, "act") # {}
    BY <1>1, OneEdge, Zenon
  <2> QED BY <2>1, <1>2
<1>4. /\ DOMAIN StagesOf(pb) = 1..Len(StagesOf(pb)) /\ Len(StagesOf(pb)) \in 1..7
      /\ \A n \in DOMAIN StagesOf(pb) : StagesOf(pb)[n] \in StageMenu
      /\ GatesOf(pb) \subseteq StageMenu
  BY <1>1 DEF StageMenu
<1>5. /\ \A n \in DOMAIN StagesOf(pb) : StagesOf(pb)[n] \in GatesOf(pb) \cup {"act"}
           => StageIndex(pb, StagesOf(pb)[n]) = n
      /\ \A g \in GatesOf(pb) \cup {"act"} :
           StageIndex(pb, g) \in DOMAIN StagesOf(pb) /\ StagesOf(pb)[StageIndex(pb, g)] = g
  BY <1>1, <1>2
<1>6. /\ Cap(pb, "act") \in 0..3
      /\ Cap(pb, "act") > 0 => TargetOf(pb, "act") \in 1..(StageIndex(pb, "act") - 1)
                              /\ BackEdges(pb, "act") # {}
  BY <1>2, <1>3
<1>7. Walkable(pb)
  BY <1>4, <1>5, <1>6, ZenonT(60) DEF Walkable
<1> QED BY <1>7 DEF pb

LEMMA LineWalkable == Walkable("line_inspection_timeout")
<1> DEFINE pb == "line_inspection_timeout"
<1>1. /\ StagesOf(pb) = <<"observe", "plan", "act", "verify", "report">>
      /\ GatesOf(pb) = {}
      /\ BackEdges(pb, "act") = {<<"act", "observe", 3>>}
  BY DEF PlaybookTable, StagesOf, GatesOf, BackEdges
<1> HIDE DEF pb
<1>2. StageIndex(pb, "act") = 3 /\ StageIndex(pb, "observe") = 1
  BY <1>1, Unique
<1>3. Cap(pb, "act") = 3 /\ TargetOf(pb, "act") = 1 /\ BackEdges(pb, "act") # {}
  <2>1. /\ Cap(pb, "act") = 3 /\ TargetOf(pb, "act") = StageIndex(pb, "observe")
        /\ BackEdges(pb, "act") # {}
    BY <1>1, OneEdge, Zenon
  <2> QED BY <2>1, <1>2
<1>4. /\ DOMAIN StagesOf(pb) = 1..Len(StagesOf(pb)) /\ Len(StagesOf(pb)) \in 1..7
      /\ \A n \in DOMAIN StagesOf(pb) : StagesOf(pb)[n] \in StageMenu
      /\ GatesOf(pb) \subseteq StageMenu
  BY <1>1 DEF StageMenu
<1>5. /\ \A n \in DOMAIN StagesOf(pb) : StagesOf(pb)[n] \in GatesOf(pb) \cup {"act"}
           => StageIndex(pb, StagesOf(pb)[n]) = n
      /\ \A g \in GatesOf(pb) \cup {"act"} :
           StageIndex(pb, g) \in DOMAIN StagesOf(pb) /\ StagesOf(pb)[StageIndex(pb, g)] = g
  BY <1>1, <1>2
<1>6. /\ Cap(pb, "act") \in 0..3
      /\ Cap(pb, "act") > 0 => TargetOf(pb, "act") \in 1..(StageIndex(pb, "act") - 1)
                              /\ BackEdges(pb, "act") # {}
  BY <1>2, <1>3
<1>7. Walkable(pb)
  BY <1>4, <1>5, <1>6, ZenonT(60) DEF Walkable
<1> QED BY <1>7 DEF pb

LEMMA ConflictWalkable == Walkable("conflict_assessment")
<1> DEFINE pb == "conflict_assessment"
<1>1. /\ StagesOf(pb) = <<"observe", "analyze", "analyze", "adjudicate", "act", "verify",
                           "report">>
      /\ GatesOf(pb) = {"adjudicate", "act"}
      /\ BackEdges(pb, "act") = {}
  BY DEF PlaybookTable, StagesOf, GatesOf, BackEdges
<1> HIDE DEF pb
<1>2. StageIndex(pb, "act") = 5 /\ StageIndex(pb, "adjudicate") = 4
  BY <1>1, Unique
<1>3. Cap(pb, "act") = 0
  BY <1>1 DEF Cap
<1>4. /\ DOMAIN StagesOf(pb) = 1..Len(StagesOf(pb)) /\ Len(StagesOf(pb)) \in 1..7
      /\ \A n \in DOMAIN StagesOf(pb) : StagesOf(pb)[n] \in StageMenu
      /\ GatesOf(pb) \subseteq StageMenu
  BY <1>1 DEF StageMenu
<1>5. /\ \A n \in DOMAIN StagesOf(pb) : StagesOf(pb)[n] \in GatesOf(pb) \cup {"act"}
           => StageIndex(pb, StagesOf(pb)[n]) = n
      /\ \A g \in GatesOf(pb) \cup {"act"} :
           StageIndex(pb, g) \in DOMAIN StagesOf(pb) /\ StagesOf(pb)[StageIndex(pb, g)] = g
  BY <1>1, <1>2
<1>6. /\ Cap(pb, "act") \in 0..3
      /\ Cap(pb, "act") > 0 => TargetOf(pb, "act") \in 1..(StageIndex(pb, "act") - 1)
                              /\ BackEdges(pb, "act") # {}
  BY <1>2, <1>3
<1>7. Walkable(pb)
  BY <1>4, <1>5, <1>6, ZenonT(60) DEF Walkable
<1> QED BY <1>7 DEF pb

LEMMA PrepareWalkable == Walkable("prepare_inspection")
<1> DEFINE pb == "prepare_inspection"
<1>1. /\ StagesOf(pb) = <<"observe", "plan", "analyze", "adjudicate", "act", "verify",
                           "report">>
      /\ GatesOf(pb) = {"adjudicate", "act"}
      /\ BackEdges(pb, "act") = {<<"act", "plan", 2>>}
  BY DEF PlaybookTable, StagesOf, GatesOf, BackEdges
<1> HIDE DEF pb
<1>2. StageIndex(pb, "act") = 5 /\ StageIndex(pb, "adjudicate") = 4
  BY <1>1, Unique
<1>3. Cap(pb, "act") = 2 /\ TargetOf(pb, "act") = 2 /\ BackEdges(pb, "act") # {}
  <2>1. /\ Cap(pb, "act") = 2 /\ TargetOf(pb, "act") = StageIndex(pb, "plan")
        /\ BackEdges(pb, "act") # {}
    BY <1>1, OneEdge, Zenon
  <2>2. StageIndex(pb, "plan") = 2
    BY <1>1, Unique
  <2> QED BY <2>1, <2>2
<1>4. /\ DOMAIN StagesOf(pb) = 1..Len(StagesOf(pb)) /\ Len(StagesOf(pb)) \in 1..7
      /\ \A n \in DOMAIN StagesOf(pb) : StagesOf(pb)[n] \in StageMenu
      /\ GatesOf(pb) \subseteq StageMenu
  BY <1>1 DEF StageMenu
<1>5. /\ \A n \in DOMAIN StagesOf(pb) : StagesOf(pb)[n] \in GatesOf(pb) \cup {"act"}
           => StageIndex(pb, StagesOf(pb)[n]) = n
      /\ \A g \in GatesOf(pb) \cup {"act"} :
           StageIndex(pb, g) \in DOMAIN StagesOf(pb) /\ StagesOf(pb)[StageIndex(pb, g)] = g
  BY <1>1, <1>2
<1>6. /\ Cap(pb, "act") \in 0..3
      /\ Cap(pb, "act") > 0 => TargetOf(pb, "act") \in 1..(StageIndex(pb, "act") - 1)
                              /\ BackEdges(pb, "act") # {}
  BY <1>2, <1>3
<1>7. Walkable(pb)
  BY <1>4, <1>5, <1>6, ZenonT(60) DEF Walkable
<1> QED BY <1>7 DEF pb

LEMMA PlaybookLemma == \A pb \in UsedPlaybooks : Walkable(pb)
<1>1. PlaybookIds = {"generic", "line_inspection_timeout", "conflict_assessment",
                     "prepare_inspection"}
  BY DEF PlaybookIds, PlaybookTable
<1> QED BY <1>1, UsedAssumption, GenericWalkable, LineWalkable, ConflictWalkable,
           PrepareWalkable
-----------------------------------------------------------------------------
(***************************************************************************)
(* What the lock protects.  A thread at one of the points of Holding has   *)
(* the drive lock; nobody else moves a task's cursor, and whoever writes a *)
(* task's state without the lock (a decision, a clarification) finds it in *)
(* a state no walking thread leaves it in.                                 *)
(***************************************************************************)
Acting == {"work_order", "record", "notify", "act_failed", "back"}
Walking == {"stage", "cursor", "save", "replan"} \cup Acting
Asking == {"request", "publish", "no_request"}
Holding == {"snap", "enter", "check"} \cup Walking \cup Asking
Judging == {"status", "read_back", "read_row", "grant", "approve", "deny"}

Decided == {"APPROVED", "DENIED"}

ActAt(t) == StageIndex(tasks[t].playbook, "act")

Locals == [pc : Pcs, task : TaskIds \cup {None}, pos : 1..8, approved : SUBSET StageMenu,
           obs : BOOLEAN, snap : (States \cup {NoText}) \X (0..8), round : Nat,
           card : Gates \cup {NoText}, verdict : Verdicts \cup {NoText}]

Cards == [state : States \cup {NoText}, card : Gates \cup {NoText}]
Ledgers == [TaskIds -> [Gates -> {"none", "PENDING", "APPROVED", "DENIED"}]]
Budgets == [faults : Nat, crashes : Nat, asks : Nat, clicks : [TaskIds -> [Gates -> Nat]]]

Typed ==
  /\ DOMAIN tasks \subseteq TaskIds /\ tasks \in [DOMAIN tasks -> Rows]
  /\ records \in Ledgers
  /\ made \in [TaskIds -> SUBSET Kinds]
  /\ thr \in [Threads -> Locals]
  /\ lock \in Threads \cup {None}
  /\ pending \subseteq DOMAIN tasks
  /\ dash \in [TaskIds -> Cards]
  /\ budget \in Budgets

(* The cursor stays within the playbook, or one past its end. *)
Fits(t) == Pos(t) \in 1..(Len(Stages(t)) + 1)

(* A thread's locals and its task's row. *)
Bound(p) ==
  LET t == thr[p].task
      pc == thr[p].pc IN
    /\ pc # "idle" => t \in DOMAIN tasks
    /\ thr[p].round > 0 => lock = p
    /\ pc \in Holding => thr[p].round > 0
    /\ pc \in Walking => tasks[t].state \notin Terminal \cup {"AWAITING_APPROVAL"}
    /\ pc \in (Walking \cup Asking) \ {"replan"} => thr[p].pos = Pos(t)
    /\ pc \in Asking \cup {"cursor"} => thr[p].pos \in DOMAIN Stages(t)
    /\ pc \in Asking => Stage(p) \in GatesOf(tasks[t].playbook)
    /\ pc \in Acting => Pos(t) = ActAt(t) + 1
    /\ pc = "back" => Cap(tasks[t].playbook, "act") > 0
    /\ pc \in Judging \cup {"validate"} => thr[p].card \in Gates /\ thr[p].verdict \in Verdicts

(* Only what is in the store is on the screen. *)
Screened == \A t \in TaskIds : dash[t].state # NoText => t \in DOMAIN tasks

Locked == /\ Typed /\ Screened
          /\ \A t \in DOMAIN tasks : Fits(t)
          /\ \A p \in Threads : Bound(p)

LEMMA RestLemma == Rest \in Locals /\ Rest.pc = "idle" /\ Rest.round = 0
BY DEF Rest, Locals, Pcs

(* Only the row of t is written: its columns, and those of the others.     *)
Elsewhere(p) == \A q \in Threads : q # p => thr'[q] = thr[q]
Others(t) == /\ DOMAIN tasks' = DOMAIN tasks
             /\ \A u \in DOMAIN tasks : u # t => tasks'[u] = tasks[u]
Kept(t) == /\ tasks'[t].playbook = tasks[t].playbook
           /\ tasks'[t].incident = tasks[t].incident
           /\ tasks'[t].replans = tasks[t].replans
Columns(t) == /\ tasks'[t].cursor = tasks[t].cursor
              /\ tasks'[t].approval = tasks[t].approval
              /\ tasks'[t].approved = tasks[t].approved

LEMMA GotoLemma ==
  ASSUME thr \in [Threads -> Locals], NEW p \in Threads, NEW pc \in Pcs, Goto(p, pc)
  PROVE  /\ thr' \in [Threads -> Locals] /\ Elsewhere(p)
         /\ thr'[p].pc = pc /\ thr'[p].task = thr[p].task /\ thr'[p].pos = thr[p].pos
         /\ thr'[p].approved = thr[p].approved /\ thr'[p].obs = thr[p].obs
         /\ thr'[p].round = thr[p].round
         /\ thr'[p].card = thr[p].card /\ thr'[p].verdict = thr[p].verdict
<1> DEFINE r == [thr[p] EXCEPT !.pc = pc]
<1>1. thr[p] \in Locals
  OBVIOUS
<1>2. thr' = [thr EXCEPT ![p] = r]
  BY DEF Goto
<1>3. /\ r.pc = pc /\ r.task = thr[p].task /\ r.pos = thr[p].pos
      /\ r.approved = thr[p].approved /\ r.obs = thr[p].obs /\ r.round = thr[p].round
      /\ r.card = thr[p].card /\ r.verdict = thr[p].verdict
  BY <1>1 DEF Locals
<1>4. r \in Locals
  BY <1>1 DEF Locals
<1> HIDE DEF r
<1>5. thr' \in [Threads -> Locals] /\ Elsewhere(p) /\ thr'[p] = r
  BY <1>2, <1>4 DEF Elsewhere
<1> QED BY <1>3, <1>5

LEMMA StateLemma ==
  ASSUME tasks \in [DOMAIN tasks -> Rows], NEW t \in DOMAIN tasks, NEW s \in States,
         SetRow(t, "state", s)
  PROVE  /\ tasks' \in [DOMAIN tasks -> Rows] /\ Others(t) /\ Kept(t) /\ Columns(t)
         /\ tasks'[t].state = s
BY DEF SetRow, Rows, Others, Kept, Columns

LEMMA CursorLemma ==
  ASSUME tasks \in [DOMAIN tasks -> Rows], NEW t \in DOMAIN tasks, NEW n \in 0..8,
         SetRow(t, "cursor", n)
  PROVE  /\ tasks' \in [DOMAIN tasks -> Rows] /\ Others(t) /\ Kept(t)
         /\ tasks'[t].cursor = n /\ tasks'[t].state = tasks[t].state
         /\ tasks'[t].approval = tasks[t].approval /\ tasks'[t].approved = tasks[t].approved
BY DEF SetRow, Rows, Others, Kept

LEMMA ApprovalLemma ==
  ASSUME tasks \in [DOMAIN tasks -> Rows], NEW t \in DOMAIN tasks,
         NEW g \in Gates \cup {NoText}, SetRow(t, "approval", g)
  PROVE  /\ tasks' \in [DOMAIN tasks -> Rows] /\ Others(t) /\ Kept(t)
         /\ tasks'[t].approval = g /\ tasks'[t].state = tasks[t].state
         /\ tasks'[t].cursor = tasks[t].cursor /\ tasks'[t].approved = tasks[t].approved
BY DEF SetRow, Rows, Others, Kept

LEMMA ReplansLemma ==
  ASSUME tasks \in [DOMAIN tasks -> Rows], NEW t \in DOMAIN tasks, NEW n \in 0..3,
         SetRow(t, "replans", n)
  PROVE  /\ tasks' \in [DOMAIN tasks -> Rows] /\ Others(t) /\ Columns(t)
         /\ tasks'[t].replans = n /\ tasks'[t].state = tasks[t].state
         /\ tasks'[t].playbook = tasks[t].playbook
         /\ tasks'[t].incident = tasks[t].incident
BY DEF SetRow, Rows, Others, Columns

LEMMA GrantLemma ==
  ASSUME tasks \in [DOMAIN tasks -> Rows], NEW t \in DOMAIN tasks, NEW obs \in BOOLEAN,
         NEW A \in SUBSET StageMenu,
         tasks' = [tasks EXCEPT ![t].obs = obs, ![t].approved = A]
  PROVE  /\ tasks' \in [DOMAIN tasks -> Rows] /\ Others(t) /\ Kept(t)
         /\ tasks'[t].approved = A /\ tasks'[t].state = tasks[t].state
         /\ tasks'[t].cursor = tasks[t].cursor /\ tasks'[t].approval = tasks[t].approval
BY ZenonT(60) DEF Rows, Others, Kept

(* A transition that is accepted leaves a live state for one of the closed *)
(* set; a refused one writes nothing and ends the drive.                   *)
LEMMA TableLemma ==
  ASSUME NEW ev, NEW s, NEW to \in Outcome(ev, s)
  PROVE  to \in States /\ s \in Active /\ s \notin Terminal
BY DEF Outcome, Transitions, States, Active, Terminal, Waits

LEMMA AttemptLemma ==
  ASSUME Typed, NEW p \in Threads, thr[p].task \in DOMAIN tasks, NEW ev, NEW pc \in Pcs,
         NEW card \in Cards,
         Attempt(p, ev, pc, card)
  PROVE  /\ dash' \in [TaskIds -> Cards]
         /\ \/ /\ Goto(p, pc)
               /\ \E to \in Outcome(ev, tasks[thr[p].task].state) :
                    SetRow(thr[p].task, "state", to)
            \/ /\ Goto(p, "release") /\ UNCHANGED tasks
               /\ ~Accepts(ev, tasks[thr[p].task].state)
BY DEF Attempt, Typed

LEMMA BoundFrame ==
  ASSUME NEW p \in Threads, Bound(p), thr'[p] = thr[p],
         thr[p].round > 0 => lock' = lock,
         thr[p].pc # "idle" => /\ thr[p].task \in DOMAIN tasks'
                               /\ tasks'[thr[p].task].playbook = tasks[thr[p].task].playbook,
         thr[p].pc \in Holding => tasks'[thr[p].task].cursor = tasks[thr[p].task].cursor,
         thr[p].pc \in Walking =>
           tasks'[thr[p].task].state \notin Terminal \cup {"AWAITING_APPROVAL"}
  PROVE  Bound(p)'
BY DEF Bound, Holding, Walking, Asking, Acting, Judging, Stage, Stages, ActAt, Pos, At

LEMMA RowLemma ==
  ASSUME Locked, NEW p \in Threads, thr[p].pc # "idle"
  PROVE  /\ thr[p].task \in DOMAIN tasks /\ thr[p].task \in TaskIds /\ Row(p) \in Rows
         /\ Walkable(Row(p).playbook) /\ Card(p) \in Cards
         /\ \A s \in States : Closed(p, s) \in Cards
<1>1. thr[p].task \in DOMAIN tasks /\ thr[p].task \in TaskIds
  BY DEF Locked, Typed, Bound
<1>2. Row(p) \in Rows
  BY <1>1 DEF Locked, Typed, Row
<1>3. Walkable(Row(p).playbook)
  BY <1>2, PlaybookLemma DEF Rows
<1>4. Card(p) \in Cards
  BY <1>1 DEF Locked, Typed, Card
<1>5. ASSUME NEW s \in States PROVE Closed(p, s) \in Cards
  BY <1>4 DEF Closed, Cards
<1> QED BY <1>1, <1>2, <1>3, <1>4, <1>5

LEMMA StageLemma ==
  ASSUME Locked, NEW p \in Threads, thr[p].pc \in Asking
  PROVE  Stage(p) \in Gates
<1>1. Stage(p) \in GatesOf(Row(p).playbook)
  BY DEF Locked, Bound, Row
<1>2. Row(p) \in Rows
  BY RowLemma DEF Asking
<1> QED BY <1>1, <1>2 DEF Rows, Gates

LEMMA AttemptTyped ==
  ASSUME Locked, NEW p \in Threads, thr[p].pc # "idle", NEW ev, NEW pc \in Pcs,
         NEW card \in Cards, Attempt(p, ev, pc, card),
         UNCHANGED <<records, made, lock, pending, budget>>
  PROVE  Typed'
<1>1. thr[p].task \in DOMAIN tasks
  BY RowLemma
<1>2. thr' \in [Threads -> Locals]
  BY <1>1, AttemptLemma, GotoLemma, ZenonT(60) DEF Locked, Typed, Pcs
<1>3. tasks' \in [DOMAIN tasks -> Rows] /\ DOMAIN tasks' = DOMAIN tasks
  BY <1>1, AttemptLemma, StateLemma, TableLemma DEF Locked, Typed, Others
<1>4. dash' \in [TaskIds -> Cards]
  BY <1>1, AttemptLemma DEF Locked
<1> QED BY <1>2, <1>3, <1>4 DEF Locked, Typed

LEMMA TypedDrive ==
  ASSUME Locked, NEW p \in Threads, Drive(p)
  PROVE  Typed'
<1> USE DEF Typed
<1>1. CASE Acquire(p)
  <2>1. thr' \in [Threads -> Locals]
    <3>1. thr[p] \in Locals
      BY DEF Locked
    <3>2. thr'[p] = [thr[p] EXCEPT !.pc = "snap", !.round = 1]
      BY <1>1, <3>1 DEF Acquire, Locked, Locals
    <3>3. [thr[p] EXCEPT !.pc = "snap", !.round = 1] \in Locals
      BY <3>1 DEF Locals, Pcs
    <3>4. thr'[p] \in Locals
      BY <3>2, <3>3
    <3> QED BY <1>1, <3>4 DEF Acquire, Locked
  <2> QED BY <1>1, <2>1 DEF Acquire, persistent, Locked
<1>2. CASE Snap(p)
  <2>1. <<Row(p).state, Row(p).cursor>> \in (States \cup {NoText}) \X (0..8)
    BY <1>2, RowLemma DEF Snap, At, Rows
  <2>2. thr' \in [Threads -> Locals]
    <3>1. thr[p] \in Locals
      BY DEF Locked
    <3> DEFINE S == (States \cup {NoText}) \X (0..8)
               seen == <<Row(p).state, Row(p).cursor>>
    <3>2. thr'[p] = [thr[p] EXCEPT !.pc = "enter", !.snap = seen]
      BY <1>2, <3>1 DEF Snap, Locked, Locals
    <3>3. seen \in S
      BY <2>1
    <3> HIDE DEF S, seen
    <3>4. [thr[p] EXCEPT !.pc = "enter", !.snap = seen] \in Locals
      BY <3>1, <3>3 DEF Locals, Pcs, S
    <3>5. thr'[p] \in Locals
      BY <3>2, <3>4
    <3> QED BY <1>2, <3>5 DEF Snap, Locked
  <2> QED BY <1>2, <2>2 DEF Snap, persistent, Locked
<1>3. CASE Check(p)
  <2>1. thr' \in [Threads -> Locals]
    <3>1. CASE Goto(p, "release")
      BY <3>1, GotoLemma DEF Locked, Pcs
    <3>2. CASE thr' = [thr EXCEPT ![p].pc = "snap", ![p].round = @ + 1]
      <4>1. thr[p] \in Locals
        BY DEF Locked
      <4> DEFINE n == thr[p].round + 1
      <4>2. thr'[p] = [thr[p] EXCEPT !.pc = "snap", !.round = n] /\ n \in Nat
        BY <3>2, <4>1 DEF Locked, Locals
      <4> HIDE DEF n
      <4>3. thr'[p] \in Locals
        BY <4>1, <4>2, ZenonT(60) DEF Locals, Pcs
      <4> QED BY <3>2, <4>3 DEF Locked
    <3> QED BY <1>3, <3>1, <3>2 DEF Check
  <2> QED BY <1>3, <2>1 DEF Check, persistent, Locked
<1>4. CASE Release(p)
  BY <1>4, RestLemma DEF Release, persistent, Locked
<1>5. CASE Enter(p)
  <2>1. /\ thr[p].task \in DOMAIN tasks /\ Row(p) \in Rows
    BY <1>5, RowLemma DEF Enter, At
  <2>2. Pos(thr[p].task) \in 1..8
    BY <2>1 DEF Pos, Row, Rows
  <2>3. ASSUME Load(p) PROVE thr' \in [Threads -> Locals]
    <3>1. thr[p] \in Locals
      BY DEF Locked
    <3>2. thr'[p] = [thr[p] EXCEPT !.pc = "stage", !.pos = Pos(thr[p].task),
                                   !.approved = Row(p).approved, !.obs = Row(p).obs]
      BY <2>3, <3>1 DEF Load, Locked, Locals
    <3>3. thr'[p] \in Locals
      BY <2>1, <2>2, <3>1, <3>2, ZenonT(60) DEF Locals, Pcs, Rows
    <3> QED BY <2>3, <3>3 DEF Load, Locked
  <2>4. thr' \in [Threads -> Locals]
    BY <1>5, <2>3, GotoLemma DEF Enter, Locked, Pcs
  <2>5. \/ UNCHANGED tasks
        \/ tasks' \in [DOMAIN tasks -> Rows] /\ DOMAIN tasks' = DOMAIN tasks
    <3>1. "PLANNING" \in States
      BY DEF States, Active
    <3>2. UNCHANGED tasks \/ SetRow(thr[p].task, "state", "PLANNING")
      BY <1>5 DEF Enter
    <3> QED BY <2>1, <3>1, <3>2, StateLemma DEF Others, Locked
  <2> QED BY <1>5, <2>4, <2>5 DEF Enter, Locked
<1>6. CASE PlanDone(p)
  BY <1>6, AttemptTyped, RowLemma DEF PlanDone, At, Pcs, Locked
<1>7. CASE Execute(p)
  <2>1. thr' \in [Threads -> Locals]
    BY <1>7, GotoLemma DEF Execute, Locked, Pcs
  <2>2. thr[p].task \in TaskIds /\ Row(p).state \in States
    BY <1>7, RowLemma DEF Execute, At, Rows
  <2>3. dash' \in [TaskIds -> Cards]
    BY <1>7, <2>2 DEF Execute, Cards, Locked, Row
  <2>4. made' \in [TaskIds -> SUBSET Kinds]
    BY <1>7, <2>2 DEF Execute, Kinds, Locked
  <2>5. budget' \in Budgets
    BY <1>7 DEF Execute, Budgets, Locked
  <2> QED BY <1>7, <2>1, <2>3, <2>4, <2>5 DEF Execute, Locked
<1>8. CASE SetCursor(p)
  <2>1. /\ thr[p].task \in DOMAIN tasks /\ Walkable(Row(p).playbook)
    BY <1>8, RowLemma DEF SetCursor, At
  <2>2. thr[p].pos \in 1..7
    BY <1>8, <2>1 DEF SetCursor, At, Locked, Bound, Walkable, Stages, Row
  <2>3. tasks' \in [DOMAIN tasks -> Rows] /\ DOMAIN tasks' = DOMAIN tasks
    BY <1>8, <2>1, <2>2, CursorLemma DEF SetCursor, Others, Locked
  <2>4. thr' \in [Threads -> Locals]
    <3>1. thr[p] \in Locals
      BY DEF Locked
    <3> DEFINE n == thr[p].pos + 1
    <3>2. PICK pc \in Pcs : thr'[p] = [thr[p] EXCEPT !.pos = n, !.pc = pc]
      BY <1>8, <3>1 DEF SetCursor, Locked, Locals, Pcs
    <3>3. n \in 1..8
      BY <2>2
    <3> HIDE DEF n
    <3>4. thr'[p] \in Locals
      BY <3>1, <3>2, <3>3 DEF Locals
    <3> QED BY <1>8, <3>4 DEF SetCursor, Locked
  <2> QED BY <1>8, <2>3, <2>4 DEF SetCursor, Locked
<1>9. CASE SaveEvidence(p)
  <2>1. thr[p].task \in DOMAIN tasks /\ thr[p].approved \in SUBSET StageMenu
    BY <1>9, RowLemma DEF SaveEvidence, At, Locked, Locals
  <2>2. tasks' \in [DOMAIN tasks -> Rows] /\ DOMAIN tasks' = DOMAIN tasks
    BY <1>9, <2>1, GrantLemma DEF SaveEvidence, Others, Locked
  <2>3. thr' \in [Threads -> Locals]
    <3>1. thr[p] \in Locals
      BY DEF Locked
    <3>2. thr'[p] = [thr[p] EXCEPT !.pc = "stage", !.obs = TRUE]
      BY <1>9, <3>1 DEF SaveEvidence, Locked, Locals
    <3>3. thr'[p] \in Locals
      BY <3>1, <3>2 DEF Locals, Pcs
    <3> QED BY <1>9, <3>3 DEF SaveEvidence, Locked
  <2> QED BY <1>9, <2>2, <2>3 DEF SaveEvidence, Locked
<1>10. CASE ApplyAction(p)
  <2>1. PICK kind \in Kinds, pc \in Pcs : Create(p, kind, pc)
    BY <1>10 DEF ApplyAction, Kinds, Pcs
  <2>2. thr' \in [Threads -> Locals]
    BY <2>1, GotoLemma DEF Create, Locked, Pcs
  <2>3. thr[p].task \in TaskIds
    BY <1>10, RowLemma DEF ApplyAction, At
  <2>4. made' \in [TaskIds -> SUBSET Kinds]
    BY <2>1, <2>3 DEF Create, Locked
  <2>5. budget' \in Budgets
    BY <2>1, SMTT(30) DEF Create, Budgets, Locked
  <2> QED BY <2>1, <2>2, <2>4, <2>5 DEF Create, Locked
<1>11. CASE GiveUpOrRetry(p)
  <2>1. /\ thr[p].task \in DOMAIN tasks /\ Row(p) \in Rows /\ Walkable(Row(p).playbook)
        /\ Closed(p, "PARTIAL") \in Cards
    BY <1>11, RowLemma DEF GiveUpOrRetry, At, States, Terminal
  <2>2. CASE Row(p).replans < Cap(Row(p).playbook, "act")
    <3>1. Row(p).replans + 1 \in 0..3
      BY <2>1, <2>2 DEF Walkable, Rows
    <3>2. SetRow(thr[p].task, "replans", Row(p).replans + 1) /\ Goto(p, "back")
      BY <1>11, <2>2 DEF GiveUpOrRetry
    <3>3. tasks' \in [DOMAIN tasks -> Rows] /\ DOMAIN tasks' = DOMAIN tasks
      BY <2>1, <3>1, <3>2, ReplansLemma DEF Others, Locked
    <3>4. thr' \in [Threads -> Locals]
      BY <3>2, GotoLemma DEF Locked, Pcs
    <3> QED BY <1>11, <2>2, <3>3, <3>4 DEF GiveUpOrRetry, Locked
  <2>3. CASE Attempt(p, "partial", "release", Closed(p, "PARTIAL"))
    BY <1>11, <2>1, <2>3, AttemptTyped DEF GiveUpOrRetry, At, Pcs, Locked
  <2> QED BY <1>11, <2>2, <2>3 DEF GiveUpOrRetry
<1>12. CASE GoBack(p)
  <2>1. /\ thr[p].task \in DOMAIN tasks /\ Row(p) \in Rows /\ Walkable(Row(p).playbook)
        /\ Cap(Row(p).playbook, "act") > 0
    BY <1>12, RowLemma DEF GoBack, At, Locked, Bound, Row
  <2>2. TargetOf(Row(p).playbook, "act") \in 0..8
    BY <2>1 DEF Walkable
  <2>3. tasks' \in [DOMAIN tasks -> Rows] /\ DOMAIN tasks' = DOMAIN tasks
    BY <1>12, <2>1, <2>2, CursorLemma DEF GoBack, Others, Locked
  <2>4. thr' \in [Threads -> Locals]
    BY <1>12, GotoLemma DEF GoBack, Locked, Pcs
  <2> QED BY <1>12, <2>3, <2>4 DEF GoBack, Locked
<1>13. CASE Replan(p)
  BY <1>13, AttemptTyped, RowLemma DEF Replan, At, Pcs, Locked
<1>14. CASE Finish(p)
  <2>1. Closed(p, "REPORTED") \in Cards
    BY <1>14, RowLemma DEF Finish, At, States, Terminal
  <2>2. CASE Attempt(p, "report", "release", Closed(p, "REPORTED"))
    BY <1>14, <2>1, <2>2, AttemptTyped DEF Finish, At, Pcs, Locked
  <2>3. CASE Goto(p, "release") /\ UNCHANGED <<tasks, dash>>
    BY <1>14, <2>3, GotoLemma DEF Finish, Locked, Pcs
  <2> QED BY <1>14, <2>2, <2>3 DEF Finish
<1> QED BY <1>1, <1>2, <1>3, <1>4, <1>5, <1>6, <1>7, <1>8, <1>9, <1>10, <1>11, <1>12,
           <1>13, <1>14 DEF Drive

LEMMA LedgerLemma ==
  ASSUME records \in Ledgers, NEW t \in TaskIds, NEW g \in Gates
  PROVE  [records EXCEPT ![t][g] = "PENDING"] \in Ledgers
BY DEF Ledgers

LEMMA TypedRequest ==
  ASSUME Locked, NEW p \in Threads, Request(p)
  PROVE  Typed'
<1> USE DEF Typed
<1>1. CASE Park(p)
  BY <1>1, AttemptTyped, RowLemma DEF Park, At, Pcs, Locked
<1>2. CASE CreateRequest(p)
  <2>1. thr[p].task \in TaskIds /\ Stage(p) \in Gates
    BY <1>2, RowLemma, StageLemma DEF CreateRequest, At, Asking
  <2>2. records' \in Ledgers
    BY <1>2, <2>1, LedgerLemma, SMTT(60) DEF CreateRequest, Locked
  <2>3. thr' \in [Threads -> Locals]
    BY <1>2, GotoLemma DEF CreateRequest, Locked, Pcs
  <2>4. budget' \in Budgets
    BY <1>2 DEF CreateRequest, Budgets, Locked
  <2> QED BY <1>2, <2>2, <2>3, <2>4 DEF CreateRequest, Locked
<1>3. CASE PublishRequest(p)
  <2>1. /\ thr[p].task \in DOMAIN tasks /\ thr[p].task \in TaskIds /\ Stage(p) \in Gates
    BY <1>3, RowLemma, StageLemma DEF PublishRequest, At, Asking
  <2>2. tasks' \in [DOMAIN tasks -> Rows] /\ DOMAIN tasks' = DOMAIN tasks
    BY <1>3, <2>1, ApprovalLemma DEF PublishRequest, Others, Locked
  <2>3. [state |-> "AWAITING_APPROVAL", card |-> Stage(p)] \in Cards
    BY <2>1 DEF Cards, States, Active
  <2>4. dash' \in [TaskIds -> Cards]
    BY <1>3, <2>1, <2>3 DEF PublishRequest, Locked
  <2>5. thr' \in [Threads -> Locals]
    BY <1>3, GotoLemma DEF PublishRequest, Locked, Pcs
  <2> QED BY <1>3, <2>2, <2>4, <2>5 DEF PublishRequest, Locked
<1>4. CASE FailRequest(p)
  <2>1. Closed(p, "FAILED") \in Cards
    BY <1>4, RowLemma DEF FailRequest, At, States, Terminal
  <2> QED BY <1>4, <2>1, AttemptTyped DEF FailRequest, At, Pcs, Locked
<1> QED BY <1>1, <1>2, <1>3, <1>4 DEF Request

LEMMA TypedApproval ==
  ASSUME Locked, NEW p \in Threads, HandleApproval(p)
  PROVE  Typed'
<1> USE DEF Typed
<1>1. CASE Validate(p)
  <2>1. thr' \in [Threads -> Locals]
    BY <1>1, GotoLemma DEF Validate, Locked, Pcs
  <2> QED BY <1>1, <2>1 DEF Validate, persistent, Locked
<1>2. CASE UpdateStatus(p)
  <2>1. thr[p].task \in TaskIds /\ thr[p].card \in Gates /\ thr[p].verdict \in Decided
    BY <1>2, RowLemma, InputsAssumption
    DEF UpdateStatus, At, Judging, Locked, Bound, Decided
  <2>2. records' \in Ledgers
    BY <1>2, <2>1 DEF UpdateStatus, Ledgers, Locked, Decided
  <2>3. thr' \in [Threads -> Locals]
    BY <1>2, GotoLemma DEF UpdateStatus, Locked, Pcs
  <2> QED BY <1>2, <2>2, <2>3 DEF UpdateStatus, Locked
<1>3. CASE ReadBack(p)
  <2>1. thr[p].verdict \in Decided
    BY <1>3, InputsAssumption, SMTT(30) DEF ReadBack, At, Judging, Locked, Bound, Decided
  <2>2. thr' \in [Threads -> Locals]
    BY <1>3, <2>1, GotoLemma DEF ReadBack, Locked, Pcs, Decided
  <2> QED BY <1>3, <2>2 DEF ReadBack, persistent, Locked
<1>4. CASE ReadRow(p)
  <2> DEFINE t == thr[p].task
             here == {Stages(t)[m] : m \in DOMAIN Stages(t) \cap {Pos(t)}}
             A == Row(p).approved \cup here
  <2>1. Row(p) \in Rows /\ Walkable(Row(p).playbook)
    BY <1>4, RowLemma DEF ReadRow, At
  <2>2. A \in SUBSET StageMenu /\ Row(p).obs \in BOOLEAN
    <3>1. Row(p).approved \in SUBSET StageMenu /\ Row(p).obs \in BOOLEAN
      BY <2>1 DEF Rows
    <3>2. here \in SUBSET StageMenu
      BY <2>1, ZenonT(60) DEF Walkable, Stages, Row
    <3> QED BY <3>1, <3>2
  <2>3. thr[p] \in Locals
    BY DEF Locked
  <2>4. thr'[p] = [thr[p] EXCEPT !.pc = "grant", !.obs = Row(p).obs, !.approved = A]
    BY <1>4, <2>3 DEF ReadRow, Locked, Locals
  <2> HIDE DEF A
  <2>5. thr'[p] \in Locals
    BY <2>2, <2>3, <2>4, ZenonT(60) DEF Locals, Pcs
  <2> QED BY <1>4, <2>5 DEF ReadRow, persistent, Locked
<1>5. CASE SaveGrant(p)
  <2>1. /\ thr[p].task \in DOMAIN tasks /\ thr[p].approved \in SUBSET StageMenu
        /\ thr[p].obs \in BOOLEAN
    BY <1>5, RowLemma DEF SaveGrant, At, Locked, Locals
  <2>2. tasks' \in [DOMAIN tasks -> Rows] /\ DOMAIN tasks' = DOMAIN tasks
    BY <1>5, <2>1, GrantLemma DEF SaveGrant, Others, Locked
  <2>3. thr' \in [Threads -> Locals]
    BY <1>5, GotoLemma DEF SaveGrant, Locked, Pcs
  <2> QED BY <1>5, <2>2, <2>3 DEF SaveGrant, Locked
<1>6. CASE Approve(p)
  BY <1>6, AttemptTyped, RowLemma DEF Approve, At, Pcs, Locked
<1>7. CASE PublishGrant(p)
  <2>1. thr[p].task \in TaskIds
    BY <1>7, RowLemma DEF PublishGrant, At
  <2>2. [state |-> "EXECUTING", card |-> NoText] \in Cards
    BY DEF Cards, States, Active
  <2>3. [Rest EXCEPT !.pc = "acquire", !.task = thr[p].task] \in Locals
    BY <2>1, RestLemma, ZenonT(60) DEF Locals, Pcs
  <2> QED BY <1>7, <2>1, <2>2, <2>3 DEF PublishGrant, persistent, Locked
<1>8. CASE Deny(p)
  <2>1. [state |-> "PARTIAL", card |-> NoText] \in Cards
    BY DEF Cards, States, Terminal
  <2> QED BY <1>8, <2>1, AttemptTyped DEF Deny, At, Pcs, Locked
<1> QED BY <1>1, <1>2, <1>3, <1>4, <1>5, <1>6, <1>7, <1>8 DEF HandleApproval

(* A row the detector or a requester adds.                                 *)
LEMMA NewRowLemma ==
  ASSUME NEW i \in Incidents \cup {None}, NEW pb \in UsedPlaybooks, NEW pr \in Priorities
  PROVE  NewRow(i, pb, pr) \in Rows
BY DEF NewRow, Rows, States, Active

LEMMA PriorityLemma ==
  /\ \A pb \in UsedPlaybooks : PlaybookTable[pb].priority \in Priorities
  /\ \A s \in Severities : SeverityPriority[s] \in Priorities
<1>1. \A pb \in PlaybookIds : PlaybookTable[pb].priority \in Priorities
  BY DEF PlaybookIds, PlaybookTable, Priorities
<1>2. \A s \in DOMAIN SeverityPriority : SeverityPriority[s] \in Priorities
  BY DEF SeverityPriority, Priorities
<1> QED BY <1>1, <1>2, UsedAssumption, InputsAssumption

LEMMA TypedDoors ==
  /\ \A p \in Threads, t \in TaskIds : Locked /\ StartDrive(p, t) => Typed'
  /\ \A p \in Threads, t \in TaskIds, v \in Verdicts : Locked /\ Decide(p, t, v) => Typed'
  /\ \A t \in TaskIds, pb \in UsedPlaybooks : Locked /\ Ingest(t, pb) => Typed'
  /\ \A i \in Incidents, pb \in UsedPlaybooks, s \in Severities :
       Locked /\ SpawnFromIncident(i, pb, s) => Typed'
  /\ \A t \in TaskIds :
       Locked /\ (RequestClarification(t) \/ ClarificationReply(t)) => Typed'
  /\ Locked /\ (Crash \/ UNCHANGED vars) => Typed'
<1> USE DEF Typed
<1>1. ASSUME NEW p \in Threads, NEW t \in TaskIds, Locked, StartDrive(p, t)
      PROVE  Typed'
  <2>1. thr[p] \in Locals
    BY <1>1 DEF Locked
  <2>2. thr'[p] = [thr[p] EXCEPT !.pc = "acquire", !.task = t]
    BY <1>1, <2>1 DEF StartDrive, Locked, Locals
  <2>3. [thr[p] EXCEPT !.pc = "acquire", !.task = t] \in Locals
    BY <2>1 DEF Locals, Pcs
  <2>4. thr' \in [Threads -> Locals]
    BY <1>1, <2>2, <2>3 DEF StartDrive, Locked
  <2> QED BY <1>1, <2>4 DEF StartDrive, persistent, Locked
<1>2. ASSUME NEW p \in Threads, NEW t \in TaskIds, NEW v \in Verdicts, Locked, Decide(p, t, v)
      PROVE  Typed'
  <2>1. thr[p] \in Locals /\ dash[t].card \in Gates
    BY <1>2 DEF Locked, Decide, Shown, Cards
  <2> DEFINE g == dash[t].card
  <2>2. thr'[p] = [thr[p] EXCEPT !.pc = "validate", !.task = t, !.card = g, !.verdict = v]
    BY <1>2, <2>1 DEF Decide, Locked, Locals
  <2>3. budget' \in Budgets
    <3>1. budget.clicks[t][g] + 1 \in Nat
      BY <1>2, <2>1 DEF Locked, Budgets
    <3> DEFINE n == budget.clicks[t][g] + 1
    <3>2. budget' = [budget EXCEPT !.clicks[t][g] = n]
      BY <1>2 DEF Decide
    <3> HIDE DEF n
    <3>3. [budget EXCEPT !.clicks[t][g] = n] \in Budgets
      BY <1>2, <3>1 DEF Locked, Budgets, n
    <3> QED BY <3>2, <3>3
  <2> HIDE DEF g
  <2>4. [thr[p] EXCEPT !.pc = "validate", !.task = t, !.card = g, !.verdict = v] \in Locals
    BY <2>1 DEF Locals, Pcs, g
  <2>5. thr' \in [Threads -> Locals]
    BY <1>2, <2>2, <2>4 DEF Decide, Locked
  <2> QED BY <1>2, <2>3, <2>5 DEF Decide, persistent, Locked
<1>3. ASSUME NEW t \in TaskIds, NEW pb \in UsedPlaybooks, Locked, Ingest(t, pb)
      PROVE  Typed'
  <2>1. NewRow(None, pb, PlaybookTable[pb].priority) \in Rows
    BY NewRowLemma, PriorityLemma
  <2>2. tasks' \in [DOMAIN tasks' -> Rows] /\ DOMAIN tasks' = DOMAIN tasks \cup {t}
    BY <1>3, <2>1 DEF Ingest, Locked
  <2>3. dash' \in [TaskIds -> Cards]
    BY <1>3 DEF Ingest, Locked, Cards, States, Active
  <2>4. pending' \subseteq DOMAIN tasks'
    BY <1>3, <2>2 DEF Ingest, Locked
  <2> QED BY <1>3, <2>2, <2>3, <2>4 DEF Ingest, Locked
<1>4. ASSUME NEW i \in Incidents, NEW pb \in UsedPlaybooks, NEW s \in Severities, Locked,
             SpawnFromIncident(i, pb, s)
      PROVE  Typed'
  <2> DEFINE pr == SeverityPriority[s]
  <2>1. NewRow(i, pb, pr) \in Rows /\ pr \in Priorities
    BY NewRowLemma, PriorityLemma
  <2> HIDE DEF pr
  <2>2. /\ tasks' \in [DOMAIN tasks' -> Rows] /\ DOMAIN tasks' \subseteq TaskIds
        /\ pending' \subseteq DOMAIN tasks'
    <3> DEFINE Minted(t) == tasks' = [u \in DOMAIN tasks \cup {t} |->
                                        IF u = t THEN NewRow(i, pb, pr) ELSE tasks[u]]
               Raised(t) == tasks' = [tasks EXCEPT ![t].priority =
                                        IF Rank(pr) > Rank(@) THEN pr ELSE @]
    <3>1. PICK t \in TaskIds : /\ pending' = pending \cup {t}
                               /\ \/ t \notin DOMAIN tasks /\ Minted(t)
                                  \/ t \in DOMAIN tasks /\ Raised(t)
      BY <1>4 DEF SpawnFromIncident, LiveTasks, pr, Locked
    <3>2. CASE Minted(t)
      BY <1>4, <2>1, <3>1, <3>2 DEF Locked
    <3>3. CASE t \in DOMAIN tasks /\ Raised(t)
      <4>1. tasks' \in [DOMAIN tasks -> Rows]
        BY <1>4, <2>1, <3>3, ZenonT(60) DEF Locked, Rows
      <4> QED BY <1>4, <3>1, <3>3, <4>1 DEF Locked
    <3> QED BY <3>1, <3>2, <3>3
  <2> QED BY <1>4, <2>2 DEF SpawnFromIncident, Locked
<1>5. ASSUME NEW t \in TaskIds, Locked, RequestClarification(t) \/ ClarificationReply(t)
      PROVE  Typed'
  <2>1. PICK to \in States : SetRow(t, "state", to)
    BY <1>5, TableLemma
    DEF RequestClarification, ClarificationReply, States, Active
  <2>2. t \in DOMAIN tasks
    BY <1>5 DEF RequestClarification, ClarificationReply
  <2>3. tasks' \in [DOMAIN tasks -> Rows] /\ DOMAIN tasks' = DOMAIN tasks
    BY <1>5, <2>1, <2>2, StateLemma DEF Others, Locked
  <2>4. budget' \in Budgets
    BY <1>5 DEF RequestClarification, ClarificationReply, Locked, Budgets
  <2> QED BY <1>5, <2>3, <2>4 DEF RequestClarification, ClarificationReply, Locked
<1>6. ASSUME Locked, Crash \/ UNCHANGED vars PROVE Typed'
  <2>1. Blank \in Cards
    BY DEF Blank, Cards
  <2>2. budget' \in Budgets
    BY <1>6 DEF Crash, vars, Locked, Budgets
  <2> QED BY <1>6, <2>1, <2>2, RestLemma DEF Crash, vars, persistent, Locked
<1> QED BY <1>1, <1>2, <1>3, <1>4, <1>5, <1>6

LEMMA TypedNext == Locked /\ [Next]_vars => Typed'
BY TypedDrive, TypedRequest, TypedApproval, TypedDoors DEF Next, Step

(* Whom a step leaves alone.  First: the other threads, when the one that  *)
(* steps has the lock.                                                     *)
LEMMA HeldFrame ==
  ASSUME Locked, NEW p \in Threads, NEW q \in Threads, q # p, thr[p].round > 0,
         thr'[q] = thr[q],
         \A u \in DOMAIN tasks : /\ u \in DOMAIN tasks'
                                 /\ tasks'[u].playbook = tasks[u].playbook
  PROVE  Bound(q)'
<1>1. Bound(q) /\ lock = p
  BY DEF Locked, Bound
<1>2. ~(thr[q].round > 0)
  BY <1>1 DEF Bound
<1>3. thr[q].pc \notin Holding
  BY <1>1, <1>2 DEF Bound
<1> QED BY <1>1, <1>2, <1>3, BoundFrame DEF Bound, Holding

(* Second: a thread, when a step without the lock writes a state.          *)
LEMMA FreeFrame ==
  ASSUME Locked, NEW q \in Threads, thr'[q] = thr[q], lock' = lock,
         \A u \in DOMAIN tasks :
           /\ u \in DOMAIN tasks'
           /\ tasks'[u].playbook = tasks[u].playbook /\ tasks'[u].cursor = tasks[u].cursor
           /\ tasks[u].state \notin Terminal \cup {"AWAITING_APPROVAL"} =>
                tasks'[u].state \notin Terminal \cup {"AWAITING_APPROVAL"}
  PROVE  Bound(q)'
<1>1. Bound(q)
  BY DEF Locked
<1>2. thr[q].pc # "idle" => thr[q].task \in DOMAIN tasks
  BY <1>1 DEF Bound
<1>3. thr[q].pc \in Walking => tasks[thr[q].task].state \notin Terminal \cup {"AWAITING_APPROVAL"}
  BY <1>1 DEF Bound
<1>4. "idle" \notin Holding /\ "idle" \notin Walking
  BY DEF Holding, Walking, Asking, Acting
<1> QED BY <1>1, <1>2, <1>3, <1>4, BoundFrame

LEMMA FitsFrame ==
  ASSUME Locked,
         \A u \in DOMAIN tasks' : /\ u \in DOMAIN tasks
                                  /\ tasks'[u].playbook = tasks[u].playbook
                                  /\ tasks'[u].cursor = tasks[u].cursor
  PROVE  \A u \in DOMAIN tasks' : Fits(u)'
BY DEF Locked, Fits, Pos, Stages

(* A thread at rest is bound to nothing.                                   *)
LEMMA IdleBound ==
  ASSUME NEW p \in Threads, thr'[p].round = 0,
         \/ thr'[p].pc = "idle"
         \/ thr'[p].pc = "acquire" /\ thr'[p].task \in DOMAIN tasks'
  PROVE  Bound(p)'
BY DEF Bound, Holding, Walking, Asking, Acting, Judging

(* The table's row of one task is written, by the holder of the lock.      *)
LEMMA AttemptBound ==
  ASSUME Locked, NEW p \in Threads, thr[p].pc \in Holding, NEW ev, NEW pc \in Pcs,
         NEW card \in Cards, Attempt(p, ev, pc, card),
         UNCHANGED <<records, made, lock, pending, budget>>
  PROVE  /\ \A t \in DOMAIN tasks' : Fits(t)'
         /\ \A q \in Threads : q # p => Bound(q)'
<1>1. thr[p].pc # "idle" /\ thr[p].round > 0 /\ Bound(p)
  BY DEF Locked, Bound, Holding, Walking, Asking, Acting
<1>2. thr[p].task \in DOMAIN tasks
  BY <1>1, RowLemma
<1>3. Elsewhere(p)
  BY <1>2, AttemptLemma, GotoLemma, ZenonT(60) DEF Locked, Typed, Pcs
<1>4. /\ DOMAIN tasks' = DOMAIN tasks
      /\ \A u \in DOMAIN tasks : /\ tasks'[u].playbook = tasks[u].playbook
                                 /\ tasks'[u].cursor = tasks[u].cursor
  <2>1. CASE UNCHANGED tasks
    BY <2>1
  <2>2. CASE \E s \in States : SetRow(thr[p].task, "state", s)
    BY <1>2, <2>2, StateLemma DEF Locked, Typed, Others, Kept, Columns
  <2> QED BY <1>2, <2>1, <2>2, AttemptLemma, TableLemma DEF Locked
<1> QED BY <1>1, <1>3, <1>4, HeldFrame, FitsFrame DEF Elsewhere

Fitted == (\A t \in DOMAIN tasks : Fits(t)) /\ \A p \in Threads : Bound(p)

(* A transition after which the thread leaves the row alone.               *)
LEMMA LeaveAttempt ==
  ASSUME Locked, NEW p \in Threads, thr[p].pc # "idle", UNCHANGED lock,
         NEW ev, NEW pc \in {"release", "check", "granted"}, pc = "check" => thr[p].round > 0,
         NEW card \in Cards, Attempt(p, ev, pc, card)
  PROVE  Bound(p)'
<1>1. Bound(p) /\ thr[p].task \in DOMAIN tasks
  BY RowLemma DEF Locked
<1>2. \/ Goto(p, pc)
      \/ Goto(p, "release")
  BY <1>1, AttemptLemma DEF Locked, Pcs
<1>3. /\ thr'[p].task = thr[p].task /\ thr'[p].round = thr[p].round
      /\ thr'[p].pc \in {pc, "release"}
  BY <1>2, GotoLemma DEF Locked, Typed, Pcs
<1>4. UNCHANGED tasks \/ \E s \in States : SetRow(thr[p].task, "state", s)
  BY <1>1, AttemptLemma, TableLemma DEF Locked, Pcs
<1>5. thr[p].task \in DOMAIN tasks'
  BY <1>1, <1>4, StateLemma DEF Locked, Typed, Others
<1> QED BY <1>1, <1>3, <1>5 DEF Bound, Holding, Walking, Asking, Acting, Judging

(* A stage that is run in COORDINATING.                                    *)
LEMMA PlanAttempt ==
  ASSUME Locked, NEW p \in Threads, thr[p].pc = "stage", UNCHANGED lock,
         NEW card \in Cards, Attempt(p, "plan_done", "stage", card)
  PROVE  Bound(p)'
<1> DEFINE t == thr[p].task
<1>1. Bound(p) /\ t \in DOMAIN tasks /\ Typed
  BY RowLemma DEF Locked
<1>2. CASE Goto(p, "stage") /\ \E s \in {"COORDINATING"} : SetRow(t, "state", s)
  <2>1. "COORDINATING" \in States
    BY DEF States, Active
  <2>2. /\ Others(t) /\ Kept(t) /\ Columns(t) /\ tasks'[t].state = "COORDINATING"
    BY <1>1, <1>2, <2>1, StateLemma DEF Typed
  <2>3. /\ thr'[p].task = t /\ thr'[p].round = thr[p].round
        /\ thr'[p].pos = thr[p].pos /\ thr'[p].pc = "stage"
    BY <1>1, <1>2, GotoLemma DEF Typed, Pcs
  <2> QED BY <1>1, <2>2, <2>3 DEF Bound, Others, Kept, Columns, Pos, Terminal,
             Holding, Walking, Asking, Acting, Judging
<1>3. CASE Goto(p, "release") /\ UNCHANGED tasks
  <2>1. /\ thr'[p].task = t /\ thr'[p].round = thr[p].round /\ thr'[p].pc = "release"
    BY <1>1, <1>3, GotoLemma DEF Typed, Pcs
  <2> QED BY <1>1, <1>3, <2>1 DEF Bound, Holding, Walking, Asking, Acting, Judging
<1>4. Outcome("plan_done", tasks[t].state) \subseteq {"COORDINATING"}
  BY DEF Outcome, Transitions
<1> QED BY <1>1, <1>2, <1>3, <1>4, AttemptLemma DEF Pcs

LEMMA BoundDrive ==
  ASSUME Locked, NEW p \in Threads, Drive(p)
  PROVE  Fitted'
<1> USE DEF Holding, Walking, Asking, Acting, Judging
<1>0. Bound(p) /\ Typed /\ thr[p] \in Locals
  BY DEF Locked, Typed
<1>1. CASE Acquire(p)
  <2>1. lock = None /\ lock' = p /\ Elsewhere(p) /\ UNCHANGED tasks
    BY <1>1 DEF Acquire, Elsewhere, persistent, Locked, Typed
  <2>2. ASSUME NEW q \in Threads, q # p PROVE Bound(q)'
    <3>1. Bound(q) /\ ~(thr[q].round > 0)
      BY <2>1, NoneAssumption DEF Locked, Bound
    <3> QED BY <2>1, <2>2, <3>1, BoundFrame DEF Bound, Elsewhere
  <2>3. thr'[p].pc = "snap" /\ thr'[p].task = thr[p].task /\ thr'[p].round = 1
    BY <1>1, <1>0 DEF Acquire, Locals, Typed
  <2>4. Bound(p)'
    BY <1>0, <1>1, <2>1, <2>3 DEF Bound, Acquire, At
  <2> QED BY <2>1, <2>2, <2>4, FitsFrame DEF Fitted
<1>2. CASE Snap(p)
  <2>1. /\ thr'[p].pc = "enter" /\ thr'[p].task = thr[p].task
        /\ thr'[p].round = thr[p].round /\ Elsewhere(p)
    BY <1>2, <1>0 DEF Snap, Locals, Typed, Elsewhere
  <2>2. UNCHANGED <<tasks, lock>> /\ At(p, "snap")
    BY <1>2 DEF Snap, persistent
  <2>3. Bound(p)'
    BY <1>0, <2>1, <2>2 DEF Bound, At
  <2>4. thr[p].round > 0
    BY <1>0, <2>2 DEF Bound, At
  <2> QED BY <2>1, <2>2, <2>3, <2>4, HeldFrame, FitsFrame DEF Fitted, Elsewhere
<1>3. CASE Check(p)
  <2>1. /\ thr'[p].pc \in {"release", "snap"} /\ thr'[p].task = thr[p].task
        /\ thr'[p].round > 0 /\ Elsewhere(p)
    BY <1>3, <1>0 DEF Check, Goto, Locals, Typed, Elsewhere, Bound, At
  <2>2. UNCHANGED <<tasks, lock>> /\ At(p, "check")
    BY <1>3 DEF Check, persistent
  <2>3. thr[p].round > 0
    BY <1>0, <2>2 DEF Bound, At
  <2>4. Bound(p)'
    BY <1>0, <2>1, <2>2, <2>3 DEF Bound, At
  <2> QED BY <2>1, <2>2, <2>3, <2>4, HeldFrame, FitsFrame DEF Fitted, Elsewhere
<1>4. CASE Release(p)
  <2>1. Elsewhere(p) /\ thr'[p] = Rest /\ UNCHANGED tasks
    BY <1>4, <1>0 DEF Release, Elsewhere, persistent, Typed
  <2>2. Bound(p)'
    BY <2>1, RestLemma, IdleBound
  <2>3. ASSUME NEW q \in Threads, q # p PROVE Bound(q)'
    <3>1. Bound(q)
      BY DEF Locked
    <3>2. thr[q].round > 0 => lock' = lock
      BY <1>4, <2>3, <3>1 DEF Bound, Release
    <3> QED BY <2>1, <2>3, <3>1, <3>2, BoundFrame DEF Bound, Elsewhere
  <2> QED BY <2>1, <2>2, <2>3, FitsFrame DEF Fitted
<1>5. CASE Enter(p)
  <2> DEFINE t == thr[p].task
  <2>1. /\ t \in DOMAIN tasks /\ At(p, "enter") /\ thr[p].round > 0 /\ UNCHANGED lock
        /\ lock = p
    BY <1>5, <1>0, RowLemma DEF Enter, At, Bound
  <2>2. /\ Others(t) /\ tasks'[t].cursor = tasks[t].cursor
        /\ tasks'[t].playbook = tasks[t].playbook
        /\ \/ Goto(p, "release")
           \/ Load(p) /\ tasks'[t].state \notin Terminal \cup {"AWAITING_APPROVAL"}
    <3>1. CASE UNCHANGED tasks
      BY <1>5, <3>1 DEF Enter, Others, Waits, Terminal, Row
    <3>2. CASE SetRow(t, "state", "PLANNING") /\ Load(p)
      <4>1. "PLANNING" \in States \ (Terminal \cup {"AWAITING_APPROVAL"})
        BY DEF States, Active, Terminal
      <4> QED BY <1>0, <2>1, <3>2, <4>1, StateLemma DEF Typed, Kept, Columns
    <3> QED BY <1>5, <3>1, <3>2 DEF Enter
  <2>3. /\ Elsewhere(p) /\ thr'[p].task = t /\ thr'[p].round = thr[p].round
        /\ \/ thr'[p].pc = "release"
           \/ /\ thr'[p].pc = "stage" /\ thr'[p].pos = Pos(t)
              /\ tasks'[t].state \notin Terminal \cup {"AWAITING_APPROVAL"}
    <3>1. CASE Goto(p, "release")
      BY <1>0, <3>1, GotoLemma DEF Typed, Pcs
    <3>2. CASE Load(p)
      BY <1>0, <2>2, <3>2 DEF Load, Typed, Locals, Elsewhere, Goto
    <3> QED BY <2>2, <3>1, <3>2
  <2>4. Bound(p)'
    BY <1>0, <2>1, <2>2, <2>3 DEF Bound, Others, Pos, At
  <2>5. \A u \in DOMAIN tasks : /\ u \in DOMAIN tasks'
                                /\ tasks'[u].playbook = tasks[u].playbook
                                /\ tasks'[u].cursor = tasks[u].cursor
    BY <2>2 DEF Others
  <2> QED BY <2>1, <2>2, <2>3, <2>4, <2>5, HeldFrame, FitsFrame DEF Fitted, Elsewhere, Others
<1>6. CASE PlanDone(p)
  <2>1. At(p, "stage") /\ Attempt(p, "plan_done", "stage", Card(p)) /\ UNCHANGED lock
    BY <1>6 DEF PlanDone
  <2>2. Card(p) \in Cards
    BY <2>1, RowLemma DEF At
  <2>3. /\ \A t \in DOMAIN tasks' : Fits(t)'
        /\ \A q \in Threads : q # p => Bound(q)'
    BY <1>6, <2>1, <2>2, AttemptBound DEF PlanDone, At, Pcs
  <2>4. Bound(p)'
    BY <2>1, <2>2, PlanAttempt DEF At
  <2> QED BY <2>3, <2>4 DEF Fitted
<1>7. CASE Execute(p)
  <2>1. /\ At(p, "stage") /\ ~AtEnd(p) /\ UNCHANGED <<tasks, lock>> /\ Goto(p, "cursor")
        /\ thr[p].task \in DOMAIN tasks /\ thr[p].round > 0 /\ lock = p
    BY <1>7, <1>0, RowLemma DEF Execute, At, Bound
  <2>2. /\ Elsewhere(p) /\ thr'[p].pc = "cursor" /\ thr'[p].task = thr[p].task
        /\ thr'[p].round = thr[p].round /\ thr'[p].pos = thr[p].pos
    BY <1>0, <2>1, GotoLemma, SMTT(60) DEF Typed, Pcs
  <2>3. thr[p].pos \in DOMAIN Stages(thr[p].task)
    BY <1>0, <2>1, RowLemma DEF AtEnd, At, Walkable, Row, Stages, Locals
  <2>4. Bound(p)'
    BY <1>0, <2>1, <2>2, <2>3 DEF Bound, At, Pos, Stages
  <2> QED BY <2>1, <2>2, <2>4, HeldFrame, FitsFrame DEF Fitted, Elsewhere
<1>8. CASE SetCursor(p)
  <2> DEFINE t == thr[p].task
  <2>1. /\ At(p, "cursor") /\ SetRow(t, "cursor", thr[p].pos + 1) /\ UNCHANGED lock
        /\ t \in DOMAIN tasks /\ Walkable(tasks[t].playbook) /\ thr[p].round > 0 /\ lock = p
        /\ thr[p].pos \in DOMAIN Stages(t)
    BY <1>8, <1>0, RowLemma DEF SetCursor, At, Bound, Row
  <2> DEFINE n == thr[p].pos
             last == Len(Stages(t))
  <2>2. n \in 1..last /\ last \in 1..7 /\ n + 1 \in 0..8 /\ n + 1 \in 1..(last + 1)
    <3>1. n \in 1..last /\ last \in 1..7
      BY <2>1 DEF Walkable, Stages
    <3> HIDE DEF n, last
    <3> QED BY <3>1
  <2>3. /\ Others(t) /\ tasks'[t].cursor = thr[p].pos + 1 /\ Kept(t)
        /\ tasks'[t].state = tasks[t].state
    BY <1>0, <2>1, <2>2, CursorLemma DEF Typed
  <2>4. /\ Elsewhere(p) /\ thr'[p].task = t /\ thr'[p].round = thr[p].round
        /\ thr'[p].pos = thr[p].pos + 1
        /\ \/ thr'[p].pc \in {"save", "stage"}
           \/ thr'[p].pc = "work_order" /\ Stage(p) = "act"
    BY <1>0, <1>8 DEF SetCursor, Typed, Locals, Elsewhere
  <2>5. Stage(p) = "act" => thr[p].pos = ActAt(t)
    BY <2>1 DEF Walkable, Stage, Stages, ActAt
  <2>6. Pos(t)' = thr[p].pos + 1 /\ ActAt(t)' = ActAt(t) /\ Stages(t)' = Stages(t)
    <3>1. thr[p].pos + 1 # 0
      BY <2>2
    <3>2. ActAt(t)' = ActAt(t) /\ Stages(t)' = Stages(t)
      BY <2>3, <2>4 DEF ActAt, Stages, Kept
    <3> QED BY <2>3, <2>4, <3>1, <3>2 DEF Pos
  <2>7. Bound(p)'
    BY <1>0, <2>1, <2>3, <2>4, <2>5, <2>6 DEF Bound, Others, At, Pos, ActAt
  <2>8. ASSUME NEW u \in DOMAIN tasks' PROVE Fits(u)'
    <3>1. CASE u = t
      <4>1. thr[p].pos + 1 \in 1..(Len(Stages(t)) + 1)
        BY <2>2
      <4> QED BY <2>4, <2>6, <3>1, <4>1 DEF Fits
    <3>2. CASE u # t
      BY <2>3, <3>2 DEF Locked, Fits, Others, Pos, Stages
    <3> QED BY <3>1, <3>2
  <2> QED BY <2>1, <2>3, <2>4, <2>7, <2>8, HeldFrame DEF Fitted, Elsewhere, Others, Kept
<1>9. CASE SaveEvidence(p)
  <2> DEFINE t == thr[p].task
  <2>1. /\ At(p, "save") /\ UNCHANGED lock /\ t \in DOMAIN tasks /\ thr[p].round > 0
        /\ lock = p /\ thr[p].approved \in SUBSET StageMenu
    BY <1>9, <1>0, RowLemma DEF SaveEvidence, At, Bound, Locals
  <2>2. /\ Others(t) /\ tasks'[t].cursor = tasks[t].cursor /\ Kept(t)
        /\ tasks'[t].state = tasks[t].state
    BY <1>0, <1>9, <2>1, GrantLemma, ZenonT(60) DEF Typed, SaveEvidence
  <2>3. /\ Elsewhere(p) /\ thr'[p].task = t /\ thr'[p].round = thr[p].round
        /\ thr'[p].pos = thr[p].pos /\ thr'[p].pc = "stage"
    BY <1>0, <1>9 DEF SaveEvidence, Typed, Locals, Elsewhere
  <2>4. Bound(p)'
    BY <1>0, <2>1, <2>2, <2>3 DEF Bound, Others, At, Pos
  <2> QED BY <2>1, <2>2, <2>3, <2>4, HeldFrame, FitsFrame DEF Fitted, Elsewhere, Others, Kept
<1>10. CASE ApplyAction(p)
  <2>1. /\ thr[p].pc \in Acting /\ UNCHANGED <<tasks, lock>>
        /\ \E pc \in {"record", "notify", "act_failed", "stage"} : Goto(p, pc)
    BY <1>10 DEF ApplyAction, Create, At
  <2>2. thr[p].task \in DOMAIN tasks /\ thr[p].round > 0 /\ lock = p
    BY <1>0, <2>1 DEF Bound
  <2>3. /\ Elsewhere(p) /\ thr'[p].task = thr[p].task /\ thr'[p].round = thr[p].round
        /\ thr'[p].pos = thr[p].pos
        /\ thr'[p].pc \in {"record", "notify", "act_failed", "stage"}
    BY <1>0, <2>1, GotoLemma DEF Typed, Pcs
  <2>4. Bound(p)'
    BY <1>0, <2>1, <2>2, <2>3 DEF Bound, Pos, ActAt
  <2> QED BY <2>1, <2>2, <2>3, <2>4, HeldFrame, FitsFrame DEF Fitted, Elsewhere
<1>11. CASE GiveUpOrRetry(p)
  <2>1. At(p, "act_failed") /\ UNCHANGED lock
    BY <1>11 DEF GiveUpOrRetry
  <2>2. CASE Row(p).replans < Cap(Row(p).playbook, "act")
    <3> DEFINE t == thr[p].task
               n == Row(p).replans + 1
    <3>1. /\ t \in DOMAIN tasks /\ Row(p) \in Rows /\ Walkable(Row(p).playbook)
          /\ thr[p].round > 0 /\ lock = p
      BY <1>0, <2>1, RowLemma DEF At, Bound
    <3>2. n \in 0..3 /\ Cap(Row(p).playbook, "act") > 0
      BY <2>2, <3>1 DEF Walkable, Rows
    <3>3. SetRow(t, "replans", n) /\ Goto(p, "back")
      BY <1>11, <2>2 DEF GiveUpOrRetry
    <3> HIDE DEF n
    <3>4. /\ Others(t) /\ Columns(t) /\ tasks'[t].playbook = tasks[t].playbook
          /\ tasks'[t].state = tasks[t].state
      BY <1>0, <3>1, <3>2, <3>3, ReplansLemma DEF Typed
    <3>5. /\ Elsewhere(p) /\ thr'[p].task = t /\ thr'[p].round = thr[p].round
          /\ thr'[p].pos = thr[p].pos /\ thr'[p].pc = "back"
      BY <1>0, <3>3, GotoLemma DEF Typed, Pcs
    <3>6. Bound(p)'
      BY <1>0, <2>1, <3>1, <3>2, <3>4, <3>5 DEF Bound, Others, Columns, At, Pos, ActAt, Row
    <3> QED BY <2>1, <3>1, <3>4, <3>5, <3>6, HeldFrame, FitsFrame
            DEF Fitted, Elsewhere, Others, Columns
  <2>3. CASE Attempt(p, "partial", "release", Closed(p, "PARTIAL"))
    <3>1. Closed(p, "PARTIAL") \in Cards
      BY <2>1, RowLemma DEF At, States, Terminal
    <3>2. /\ \A t \in DOMAIN tasks' : Fits(t)'
          /\ \A q \in Threads : q # p => Bound(q)'
      BY <1>11, <2>1, <2>3, <3>1, AttemptBound DEF GiveUpOrRetry, At, Pcs
    <3>3. Bound(p)'
      BY <1>0, <2>1, <2>3, <3>1, LeaveAttempt DEF At
    <3> QED BY <3>2, <3>3 DEF Fitted
  <2> QED BY <1>11, <2>2, <2>3 DEF GiveUpOrRetry
<1>12. CASE GoBack(p)
  <2> DEFINE t == thr[p].task
             to == TargetOf(tasks[t].playbook, "act")
  <2>1. /\ At(p, "back") /\ SetRow(t, "cursor", to) /\ UNCHANGED lock /\ Goto(p, "replan")
        /\ t \in DOMAIN tasks /\ Walkable(tasks[t].playbook) /\ thr[p].round > 0 /\ lock = p
        /\ Cap(tasks[t].playbook, "act") > 0
    BY <1>12, <1>0, RowLemma, SMTT(30) DEF GoBack, At, Bound, Row
  <2>2. to \in 1..8 /\ to \in 1..(Len(Stages(t)) + 1) /\ to # 0
    BY <2>1, BookFacts DEF Stages
  <2> HIDE DEF to
  <2>3. /\ Others(t) /\ tasks'[t].cursor = to /\ Kept(t)
        /\ tasks'[t].state = tasks[t].state
    BY <1>0, <2>1, <2>2, CursorLemma DEF Typed
  <2>4. /\ Elsewhere(p) /\ thr'[p].task = t /\ thr'[p].round = thr[p].round
        /\ thr'[p].pc = "replan"
    BY <1>0, <2>1, GotoLemma DEF Typed, Pcs
  <2>5. Bound(p)'
    BY <1>0, <2>1, <2>3, <2>4 DEF Bound, Others, At
  <2>6. ASSUME NEW u \in DOMAIN tasks' PROVE Fits(u)'
    <3>1. CASE u = t
      BY <2>2, <2>3, <3>1 DEF Fits, Pos, Kept, Stages
    <3>2. CASE u # t
      BY <2>3, <3>2 DEF Locked, Fits, Others, Pos, Stages
    <3> QED BY <3>1, <3>2
  <2> QED BY <2>1, <2>3, <2>4, <2>5, <2>6, HeldFrame DEF Fitted, Elsewhere, Others, Kept
<1>13. CASE Replan(p)
  <2>1. At(p, "replan") /\ Attempt(p, "replan", "check", Card(p)) /\ UNCHANGED lock
    BY <1>13 DEF Replan
  <2>2. Card(p) \in Cards
    BY <2>1, RowLemma DEF At
  <2>3. /\ \A t \in DOMAIN tasks' : Fits(t)'
        /\ \A q \in Threads : q # p => Bound(q)'
    BY <1>13, <2>1, <2>2, AttemptBound DEF Replan, At, Pcs
  <2>4. Bound(p)'
    BY <1>0, <2>1, <2>2, LeaveAttempt DEF At, Bound
  <2> QED BY <2>3, <2>4 DEF Fitted
<1>14. CASE Finish(p)
  <2>1. At(p, "stage") /\ UNCHANGED lock
    BY <1>14 DEF Finish
  <2>2. CASE Attempt(p, "report", "release", Closed(p, "REPORTED"))
    <3>1. Closed(p, "REPORTED") \in Cards
      BY <2>1, RowLemma DEF At, States, Terminal
    <3>2. /\ \A t \in DOMAIN tasks' : Fits(t)'
          /\ \A q \in Threads : q # p => Bound(q)'
      BY <1>14, <2>1, <2>2, <3>1, AttemptBound DEF Finish, At, Pcs
    <3>3. Bound(p)'
      BY <1>0, <2>1, <2>2, <3>1, LeaveAttempt DEF At
    <3> QED BY <3>2, <3>3 DEF Fitted
  <2>3. CASE Goto(p, "release") /\ UNCHANGED tasks
    <3>1. /\ Elsewhere(p) /\ thr'[p].task = thr[p].task /\ thr'[p].round = thr[p].round
          /\ thr'[p].pc = "release"
      BY <1>0, <2>3, GotoLemma DEF Typed, Pcs
    <3>2. Bound(p)' /\ thr[p].round > 0
      BY <1>0, <2>1, <2>3, <3>1 DEF Bound, At
    <3> QED BY <2>1, <2>3, <3>1, <3>2, HeldFrame, FitsFrame DEF Fitted, Elsewhere
  <2> QED BY <1>14, <2>2, <2>3 DEF Finish
<1> QED BY <1>1, <1>2, <1>3, <1>4, <1>5, <1>6, <1>7, <1>8, <1>9, <1>10, <1>11, <1>12,
           <1>13, <1>14 DEF Drive

LEMMA BoundRequest ==
  ASSUME Locked, NEW p \in Threads, Request(p)
  PROVE  Fitted'
<1> USE DEF Holding, Walking, Asking, Acting, Judging
<1>0. Bound(p) /\ Typed /\ thr[p] \in Locals
  BY DEF Locked, Typed
<1>1. CASE Park(p)
  <2> DEFINE t == thr[p].task
  <2>1. /\ At(p, "stage") /\ ~AtEnd(p) /\ MustAsk(p) /\ UNCHANGED lock
        /\ Attempt(p, "request_approval", "request", Card(p))
        /\ t \in DOMAIN tasks /\ Card(p) \in Cards /\ Walkable(tasks[t].playbook)
    BY <1>1, RowLemma DEF Park, At, Row
  <2>2. /\ \A u \in DOMAIN tasks' : Fits(u)'
        /\ \A q \in Threads : q # p => Bound(q)'
    BY <1>1, <2>1, AttemptBound DEF Park, At, Pcs
  <2>3. thr[p].pos \in DOMAIN Stages(t) /\ Stage(p) \in GatesOf(tasks[t].playbook)
    BY <1>0, <2>1 DEF AtEnd, Walkable, Stages, Locals, MustAsk, Row
  <2>4. /\ DOMAIN tasks' = DOMAIN tasks
        /\ tasks'[t].playbook = tasks[t].playbook /\ tasks'[t].cursor = tasks[t].cursor
    <3>1. UNCHANGED tasks \/ \E s \in States : SetRow(t, "state", s)
      BY <1>0, <2>1, AttemptLemma, TableLemma DEF Pcs
    <3> QED BY <1>0, <2>1, <3>1, StateLemma DEF Typed, Others, Kept, Columns
  <2>5. /\ thr'[p].task = t /\ thr'[p].round = thr[p].round /\ thr'[p].pos = thr[p].pos
        /\ thr'[p].pc \in {"request", "release"}
    <3>1. Goto(p, "request") \/ Goto(p, "release")
      BY <1>0, <2>1, AttemptLemma DEF Pcs
    <3> QED BY <1>0, <3>1, GotoLemma DEF Typed, Pcs
  <2>6. Bound(p)'
    BY <1>0, <2>1, <2>3, <2>4, <2>5 DEF Bound, At, Pos, Stage, Stages
  <2> QED BY <2>2, <2>6 DEF Fitted
<1>2. CASE CreateRequest(p)
  <2>1. /\ At(p, "request") /\ UNCHANGED <<tasks, lock>>
        /\ \E pc \in {"publish", "no_request"} : Goto(p, pc)
    BY <1>2 DEF CreateRequest
  <2>2. thr[p].task \in DOMAIN tasks /\ thr[p].round > 0 /\ lock = p
    BY <1>0, <2>1 DEF Bound, At
  <2>3. /\ Elsewhere(p) /\ thr'[p].task = thr[p].task /\ thr'[p].round = thr[p].round
        /\ thr'[p].pos = thr[p].pos /\ thr'[p].pc \in {"publish", "no_request"}
    BY <1>0, <2>1, GotoLemma DEF Typed, Pcs
  <2>4. Bound(p)'
    BY <1>0, <2>1, <2>2, <2>3 DEF Bound, Pos, Stage, Stages, At
  <2> QED BY <2>1, <2>2, <2>3, <2>4, HeldFrame, FitsFrame DEF Fitted, Elsewhere
<1>3. CASE PublishRequest(p)
  <2> DEFINE t == thr[p].task
  <2>1. /\ At(p, "publish") /\ UNCHANGED lock /\ Goto(p, "check")
        /\ SetRow(t, "approval", Stage(p)) /\ Stage(p) \in Gates \cup {NoText}
        /\ t \in DOMAIN tasks /\ thr[p].round > 0 /\ lock = p
    BY <1>0, <1>3, StageLemma DEF PublishRequest, At, Bound
  <2>2. Others(t) /\ tasks'[t].cursor = tasks[t].cursor /\ Kept(t)
    BY <1>0, <2>1, ApprovalLemma DEF Typed
  <2>3. /\ Elsewhere(p) /\ thr'[p].task = t /\ thr'[p].round = thr[p].round
        /\ thr'[p].pc = "check"
    BY <1>0, <2>1, GotoLemma DEF Typed, Pcs
  <2>4. Bound(p)'
    BY <1>0, <2>1, <2>2, <2>3 DEF Bound, Others
  <2> QED BY <2>1, <2>2, <2>3, <2>4, HeldFrame, FitsFrame DEF Fitted, Elsewhere, Others, Kept
<1>4. CASE FailRequest(p)
  <2>1. /\ At(p, "no_request") /\ UNCHANGED lock
        /\ Attempt(p, "failed", "release", Closed(p, "FAILED"))
    BY <1>4 DEF FailRequest
  <2>2. Closed(p, "FAILED") \in Cards
    BY <2>1, RowLemma DEF At, States, Terminal
  <2>3. /\ \A t \in DOMAIN tasks' : Fits(t)'
        /\ \A q \in Threads : q # p => Bound(q)'
    BY <1>4, <2>1, <2>2, AttemptBound DEF FailRequest, At, Pcs
  <2>4. Bound(p)'
    BY <1>0, <2>1, <2>2, LeaveAttempt DEF At
  <2> QED BY <2>3, <2>4 DEF Fitted
<1> QED BY <1>1, <1>2, <1>3, <1>4 DEF Request

(* What every step of a decision leaves alone, seen by the other threads.  *)
LEMMA DeciderFrame ==
  ASSUME Locked, NEW p \in Threads, thr[p].pc # "idle", Elsewhere(p), lock' = lock,
         Bound(p)',
         \/ UNCHANGED tasks
         \/ /\ Others(thr[p].task) /\ Kept(thr[p].task)
            /\ tasks'[thr[p].task].cursor = tasks[thr[p].task].cursor
            /\ \/ tasks'[thr[p].task].state = tasks[thr[p].task].state
               \/ tasks[thr[p].task].state = "AWAITING_APPROVAL"
  PROVE  Fitted'
<1>1. /\ DOMAIN tasks' = DOMAIN tasks
      /\ \A u \in DOMAIN tasks :
           /\ tasks'[u].playbook = tasks[u].playbook /\ tasks'[u].cursor = tasks[u].cursor
           /\ tasks[u].state \notin Terminal \cup {"AWAITING_APPROVAL"} =>
                tasks'[u].state \notin Terminal \cup {"AWAITING_APPROVAL"}
  BY DEF Others, Kept
<1> QED BY <1>1, FreeFrame, FitsFrame DEF Fitted, Elsewhere

LEMMA BoundApproval ==
  ASSUME Locked, NEW p \in Threads, HandleApproval(p)
  PROVE  Fitted'
<1> USE DEF Holding, Walking, Asking, Acting, Judging
<1>0. Bound(p) /\ Typed /\ thr[p] \in Locals
  BY DEF Locked, Typed
<1>1. CASE Validate(p) \/ UpdateStatus(p) \/ ReadBack(p)
  <2>1. /\ thr[p].pc \in {"validate", "status", "read_back"} /\ UNCHANGED <<tasks, lock>>
    BY <1>1 DEF Validate, UpdateStatus, ReadBack, persistent, At
  <2>2. thr[p].verdict \in Decided /\ thr[p].task \in DOMAIN tasks
    BY <1>0, <2>1, InputsAssumption DEF Bound, Decided
  <2>3. \E pc \in {"status", "read_back", "read_row", "deny", "release"} : Goto(p, pc)
    BY <1>1, <2>2 DEF Validate, UpdateStatus, ReadBack, Decided
  <2>4. /\ Elsewhere(p) /\ thr'[p].task = thr[p].task /\ thr'[p].round = thr[p].round
        /\ thr'[p].card = thr[p].card /\ thr'[p].verdict = thr[p].verdict
        /\ thr'[p].pc \in {"status", "read_back", "read_row", "deny", "release"}
    BY <1>0, <2>3, GotoLemma DEF Typed, Pcs
  <2>5. Bound(p)'
    BY <1>0, <2>1, <2>2, <2>4 DEF Bound
  <2> QED BY <2>1, <2>4, <2>5, DeciderFrame
<1>2. CASE ReadRow(p)
  <2>1. At(p, "read_row") /\ UNCHANGED <<tasks, lock>>
    BY <1>2 DEF ReadRow, persistent
  <2>2. /\ Elsewhere(p) /\ thr'[p].task = thr[p].task /\ thr'[p].round = thr[p].round
        /\ thr'[p].card = thr[p].card /\ thr'[p].verdict = thr[p].verdict
        /\ thr'[p].pc = "grant"
    BY <1>0, <1>2 DEF ReadRow, Typed, Locals, Elsewhere
  <2>3. Bound(p)'
    BY <1>0, <2>1, <2>2 DEF Bound, At
  <2> QED BY <2>1, <2>2, <2>3, DeciderFrame DEF At
<1>3. CASE SaveGrant(p)
  <2>1. /\ At(p, "grant") /\ UNCHANGED lock /\ Goto(p, "approve")
        /\ thr[p].task \in DOMAIN tasks /\ thr[p].approved \in SUBSET StageMenu
        /\ thr[p].obs \in BOOLEAN
    BY <1>0, <1>3 DEF SaveGrant, At, Bound, Locals
  <2>2. /\ Others(thr[p].task) /\ Kept(thr[p].task)
        /\ tasks'[thr[p].task].cursor = tasks[thr[p].task].cursor
        /\ tasks'[thr[p].task].state = tasks[thr[p].task].state
    <3> DEFINE obs == thr[p].obs
               A == thr[p].approved
    <3>1. tasks' = [tasks EXCEPT ![thr[p].task].obs = obs, ![thr[p].task].approved = A]
      BY <1>3 DEF SaveGrant
    <3>2. obs \in BOOLEAN /\ A \in SUBSET StageMenu
      BY <2>1
    <3> HIDE DEF obs, A
    <3> QED BY <1>0, <2>1, <3>1, <3>2, GrantLemma DEF Typed
  <2>3. /\ Elsewhere(p) /\ thr'[p].task = thr[p].task /\ thr'[p].round = thr[p].round
        /\ thr'[p].card = thr[p].card /\ thr'[p].verdict = thr[p].verdict
        /\ thr'[p].pc = "approve"
    BY <1>0, <2>1, GotoLemma DEF Typed, Pcs
  <2>4. Bound(p)'
    BY <1>0, <2>1, <2>2, <2>3 DEF Bound, At, Others
  <2> QED BY <2>1, <2>2, <2>3, <2>4, DeciderFrame DEF At
<1>4. CASE Approve(p) \/ Deny(p)
  <2>1. PICK ev \in {"approve", "deny"}, pc \in {"granted", "release"}, card \in Cards :
          Attempt(p, ev, pc, card)
    <3>1. CASE Approve(p)
      BY <3>1, RowLemma DEF Approve, At
    <3>2. CASE Deny(p)
      <4>1. [state |-> "PARTIAL", card |-> NoText] \in Cards
        BY DEF Cards, States, Terminal
      <4> QED BY <3>2, <4>1 DEF Deny
    <3> QED BY <1>4, <3>1, <3>2
  <2>2. thr[p].pc \in {"approve", "deny"} /\ UNCHANGED lock
    BY <1>4 DEF Approve, Deny, At
  <2>3. thr[p].pc # "idle" /\ thr[p].task \in DOMAIN tasks
    BY <2>2, RowLemma
  <2>4. Bound(p)'
    BY <2>1, <2>2, <2>3, LeaveAttempt
  <2>5. Elsewhere(p)
    BY <1>0, <2>1, <2>3, AttemptLemma, GotoLemma, ZenonT(60) DEF Typed, Pcs
  <2>6. /\ \A s : Outcome("approve", s) # {} => s = "AWAITING_APPROVAL"
        /\ \A s : Outcome("deny", s) # {} => s = "AWAITING_APPROVAL"
    BY DEF Outcome, Transitions
  <2>7. \/ UNCHANGED tasks
        \/ \E s \in States : SetRow(thr[p].task, "state", s)
                             /\ tasks[thr[p].task].state = "AWAITING_APPROVAL"
    <3>1. \/ UNCHANGED tasks
          \/ \E s \in Outcome(ev, tasks[thr[p].task].state) : SetRow(thr[p].task, "state", s)
      BY <1>0, <2>1, <2>3, AttemptLemma DEF Pcs
    <3> QED BY <2>1, <2>6, <3>1, TableLemma
  <2>8. \/ UNCHANGED tasks
        \/ /\ Others(thr[p].task) /\ Kept(thr[p].task) /\ Columns(thr[p].task)
           /\ tasks[thr[p].task].state = "AWAITING_APPROVAL"
    BY <1>0, <2>3, <2>7, StateLemma DEF Typed
  <2> QED BY <2>2, <2>3, <2>4, <2>5, <2>8, DeciderFrame DEF Columns
<1>5. CASE PublishGrant(p)
  <2>1. At(p, "granted") /\ UNCHANGED <<tasks, lock>> /\ thr[p].task \in DOMAIN tasks
    BY <1>5, <1>0 DEF PublishGrant, persistent, Bound, At
  <2>2. /\ Elsewhere(p) /\ thr'[p].pc = "acquire" /\ thr'[p].round = 0
        /\ thr'[p].task = thr[p].task
    BY <1>0, <1>5 DEF PublishGrant, Typed, Rest, Elsewhere
  <2>3. Bound(p)'
    BY <2>1, <2>2, IdleBound
  <2> QED BY <2>1, <2>2, <2>3, DeciderFrame DEF At
<1> QED BY <1>1, <1>2, <1>3, <1>4, <1>5 DEF HandleApproval

(* A new row, with its cursor at the start.                                *)
LEMMA OpenedFrame ==
  ASSUME Locked, NEW t \in TaskIds \ DOMAIN tasks, NEW i, NEW pb \in UsedPlaybooks, NEW pr,
         tasks' = [u \in DOMAIN tasks \cup {t} |->
                     IF u = t THEN NewRow(i, pb, pr) ELSE tasks[u]],
         UNCHANGED <<thr, lock>>
  PROVE  Fitted'
<1>1. /\ DOMAIN tasks' = DOMAIN tasks \cup {t}
      /\ \A u \in DOMAIN tasks : u \in DOMAIN tasks' /\ tasks'[u] = tasks[u]
      /\ tasks'[t].cursor = 0 /\ tasks'[t].playbook = pb
  BY DEF NewRow
<1>2. \A q \in Threads : Bound(q)'
  BY <1>1, FreeFrame
<1>3. ASSUME NEW u \in DOMAIN tasks' PROVE Fits(u)'
  <2>1. CASE u = t
    <3>1. Walkable(pb)
      BY PlaybookLemma
    <3>2. Len(StagesOf(pb)) \in 1..7
      BY <3>1 DEF Walkable
    <3>3. 1 \in 1..(Len(StagesOf(pb)) + 1)
      BY <3>2
    <3> QED BY <1>1, <2>1, <3>3 DEF Fits, Pos, Stages
  <2>2. CASE u # t
    BY <1>1, <2>2 DEF Locked, Fits, Pos, Stages
  <2> QED BY <2>1, <2>2
<1> QED BY <1>2, <1>3 DEF Fitted

LEMMA BoundDoors ==
  /\ \A p \in Threads, t \in TaskIds : Locked /\ StartDrive(p, t) => Fitted'
  /\ \A p \in Threads, t \in TaskIds, v \in Verdicts : Locked /\ Decide(p, t, v) => Fitted'
  /\ \A t \in TaskIds, pb \in UsedPlaybooks : Locked /\ Ingest(t, pb) => Fitted'
  /\ \A i \in Incidents, pb \in UsedPlaybooks, s \in Severities :
       Locked /\ SpawnFromIncident(i, pb, s) => Fitted'
  /\ \A t \in TaskIds :
       Locked /\ (RequestClarification(t) \/ ClarificationReply(t)) => Fitted'
  /\ Locked /\ (Crash \/ UNCHANGED vars) => Fitted'
<1>1. ASSUME NEW p \in Threads, NEW t \in TaskIds, Locked, StartDrive(p, t)
      PROVE  Fitted'
  <2>1. /\ At(p, "idle") /\ t \in DOMAIN tasks /\ UNCHANGED <<tasks, lock>>
    BY <1>1 DEF StartDrive, Locked, Typed, persistent
  <2>2. /\ Elsewhere(p) /\ thr'[p].pc = "acquire" /\ thr'[p].task = t
        /\ thr'[p].round = thr[p].round
    BY <1>1 DEF StartDrive, Elsewhere, Locked, Typed, Locals
  <2>3. Bound(p)'
    BY <1>1, <2>1, <2>2
    DEF Bound, Locked, Holding, Walking, Asking, Acting, Judging
  <2> QED BY <1>1, <2>1, <2>2, <2>3, FreeFrame, FitsFrame DEF Fitted, Elsewhere
<1>2. ASSUME NEW p \in Threads, NEW t \in TaskIds, NEW v \in Verdicts, Locked, Decide(p, t, v)
      PROVE  Fitted'
  <2>0. "AWAITING_APPROVAL" # NoText
    BY Zenon DEF NoText
  <2>1. /\ At(p, "idle") /\ UNCHANGED <<tasks, lock>> /\ dash[t].card \in Gates
        /\ t \in DOMAIN tasks
    BY <1>2, <2>0 DEF Decide, Shown, Locked, Screened, Typed, Cards, persistent
  <2>2. /\ Elsewhere(p) /\ thr'[p].pc = "validate" /\ thr'[p].task = t
        /\ thr'[p].round = thr[p].round /\ thr'[p].card = dash[t].card
        /\ thr'[p].verdict = v
    BY <1>2 DEF Decide, Elsewhere, Locked, Typed, Locals
  <2>3. Bound(p)'
    BY <1>2, <2>1, <2>2
    DEF Bound, Locked, Holding, Walking, Asking, Acting, Judging
  <2> QED BY <1>2, <2>1, <2>2, <2>3, FreeFrame, FitsFrame DEF Fitted, Elsewhere
<1>3. ASSUME NEW t \in TaskIds, NEW pb \in UsedPlaybooks, Locked, Ingest(t, pb)
      PROVE  Fitted'
  BY <1>3, OpenedFrame DEF Ingest
<1>4. ASSUME NEW i \in Incidents, NEW pb \in UsedPlaybooks, NEW s \in Severities, Locked,
             SpawnFromIncident(i, pb, s)
      PROVE  Fitted'
  <2> DEFINE pr == SeverityPriority[s]
             Minted(t) == tasks' = [u \in DOMAIN tasks \cup {t} |->
                                      IF u = t THEN NewRow(i, pb, pr) ELSE tasks[u]]
             Raised(t) == tasks' = [tasks EXCEPT ![t].priority =
                                      IF Rank(pr) > Rank(@) THEN pr ELSE @]
  <2>1. PICK t \in TaskIds : \/ t \notin DOMAIN tasks /\ Minted(t)
                             \/ t \in DOMAIN tasks /\ Raised(t)
    BY <1>4 DEF SpawnFromIncident, LiveTasks, Locked, Typed
  <2>2. UNCHANGED <<thr, lock>>
    BY <1>4 DEF SpawnFromIncident
  <2>3. CASE t \notin DOMAIN tasks /\ Minted(t)
    BY <1>4, <2>2, <2>3, OpenedFrame
  <2>4. CASE t \in DOMAIN tasks /\ Raised(t)
    <3>1. /\ DOMAIN tasks' = DOMAIN tasks
          /\ \A u \in DOMAIN tasks : /\ tasks'[u].playbook = tasks[u].playbook
                                     /\ tasks'[u].cursor = tasks[u].cursor
                                     /\ tasks'[u].state = tasks[u].state
      BY <1>4, <2>4 DEF Locked, Typed, Rows
    <3> QED BY <1>4, <2>2, <3>1, FreeFrame, FitsFrame DEF Fitted
  <2> QED BY <2>1, <2>3, <2>4
<1>5. ASSUME NEW t \in TaskIds, Locked, RequestClarification(t) \/ ClarificationReply(t)
      PROVE  Fitted'
  <2>1. t \in DOMAIN tasks /\ UNCHANGED <<thr, lock>>
    BY <1>5 DEF RequestClarification, ClarificationReply
  <2>2. Outcome("clarify_reply", tasks[t].state) \subseteq {"RECEIVED"}
    BY DEF Outcome, Transitions
  <2>3. PICK s \in {"AWAITING_CLARIFICATION", "RECEIVED"} : SetRow(t, "state", s)
    BY <1>5, <2>2 DEF RequestClarification, ClarificationReply
  <2>4. s \in States /\ s \notin Terminal \cup {"AWAITING_APPROVAL"}
    BY DEF States, Active, Terminal
  <2>5. Others(t) /\ Kept(t) /\ Columns(t) /\ tasks'[t].state = s
    BY <1>5, <2>1, <2>3, <2>4, StateLemma DEF Locked, Typed
  <2>6. /\ DOMAIN tasks' = DOMAIN tasks
        /\ \A u \in DOMAIN tasks :
             /\ tasks'[u].playbook = tasks[u].playbook /\ tasks'[u].cursor = tasks[u].cursor
             /\ tasks[u].state \notin Terminal \cup {"AWAITING_APPROVAL"} =>
                  tasks'[u].state \notin Terminal \cup {"AWAITING_APPROVAL"}
    BY <2>4, <2>5 DEF Others, Kept, Columns
  <2> QED BY <1>5, <2>1, <2>6, FreeFrame, FitsFrame DEF Fitted
<1>6. ASSUME Locked, Crash \/ UNCHANGED vars PROVE Fitted'
  <2>1. CASE Crash
    <3>1. UNCHANGED tasks /\ \A p \in Threads : thr'[p] = Rest
      BY <2>1 DEF Crash, persistent
    <3> QED BY <1>6, <3>1, RestLemma, IdleBound, FitsFrame DEF Fitted
  <2>2. CASE UNCHANGED vars
    BY <1>6, <2>2, FreeFrame, FitsFrame DEF Fitted, vars, persistent
  <2> QED BY <1>6, <2>1, <2>2
<1> QED BY <1>1, <1>2, <1>3, <1>4, <1>5, <1>6

LEMMA ScreenedNext == Locked /\ [Next]_vars => Screened'
<1> SUFFICES ASSUME Locked, [Next]_vars PROVE Screened'
  OBVIOUS
<1>0. Typed /\ Screened
  BY DEF Locked
<1> USE DEF Typed, Screened
<1>1. ASSUME NEW p \in Threads, Step(p) PROVE Screened'
  <2>1. thr[p].pc # "idle"
    BY <1>1 DEF Step, Drive, Request, HandleApproval, At, Acquire, Snap, Check, Release, Enter,
       PlanDone, Execute, SetCursor, SaveEvidence, ApplyAction, GiveUpOrRetry, GoBack, Replan,
       Finish, Park, CreateRequest, PublishRequest, FailRequest, Validate, UpdateStatus,
       ReadBack, ReadRow, SaveGrant, Approve, PublishGrant, Deny
  <2>2. thr[p].task \in DOMAIN tasks
    BY <2>1, RowLemma, SMTT(30)
  <2>3. DOMAIN tasks' = DOMAIN tasks
    BY <1>1, ZenonT(60) DEF Step, Drive, Request, HandleApproval, Acquire, Snap, Check, Release, Enter,
       PlanDone, Execute, SetCursor, SaveEvidence, ApplyAction, Create, GiveUpOrRetry, GoBack,
       Replan, Finish, Park, CreateRequest, PublishRequest, FailRequest, Validate, UpdateStatus,
       ReadBack, ReadRow, SaveGrant, Approve, PublishGrant, Deny, SetRow, Attempt, persistent
  <2>4. \A u \in TaskIds : u # thr[p].task => dash'[u] = dash[u]
    BY <1>0, <1>1 DEF Step, Drive, Request, HandleApproval, Acquire, Snap, Check, Release, Enter,
       PlanDone, Execute, SetCursor, SaveEvidence, ApplyAction, Create, GiveUpOrRetry, GoBack,
       Replan, Finish, Park, CreateRequest, PublishRequest, FailRequest, Validate, UpdateStatus,
       ReadBack, ReadRow, SaveGrant, Approve, PublishGrant, Deny, Attempt
  <2> QED BY <1>0, <2>2, <2>3, <2>4
<1>2. ASSUME NEW t \in TaskIds, NEW pb, Ingest(t, pb) PROVE Screened'
  BY <1>0, <1>2 DEF Ingest
<1>3. ASSUME NEW i, NEW pb, NEW s, SpawnFromIncident(i, pb, s) PROVE Screened'
  BY <1>0, <1>3 DEF SpawnFromIncident
<1>4. ASSUME NEW t \in TaskIds, RequestClarification(t) \/ ClarificationReply(t)
      PROVE  Screened'
  BY <1>0, <1>4 DEF RequestClarification, ClarificationReply, SetRow
<1>5. CASE Crash
  BY <1>5 DEF Crash, Blank
<1>6. ASSUME NEW p, NEW t, NEW v, StartDrive(p, t) \/ Decide(p, t, v) PROVE Screened'
  BY <1>0, <1>6 DEF StartDrive, Decide, persistent
<1>7. CASE UNCHANGED vars
  BY <1>0, <1>7 DEF vars, persistent
<1> QED BY <1>1, <1>2, <1>3, <1>4, <1>5, <1>6, <1>7 DEF Next

LEMMA LockedInit == Init => Locked
<1> SUFFICES ASSUME Init PROVE Locked
  OBVIOUS
<1>1. Blank \in Cards
  BY DEF Blank, Cards
<1>2. Typed
  BY <1>1, RestLemma DEF Init, Typed, Ledgers, Budgets
<1>3. \A p \in Threads : Bound(p)
  BY RestLemma DEF Init, Bound, Holding, Walking, Asking, Acting, Judging
<1> QED BY <1>2, <1>3 DEF Locked, Init, Screened, Blank

LEMMA LockedNext == Locked /\ [Next]_vars => Locked'
<1>1. Locked /\ [Next]_vars => Fitted'
  BY BoundDrive, BoundRequest, BoundApproval, BoundDoors DEF Next, Step
<1> QED BY <1>1, TypedNext, ScreenedNext DEF Locked, Fitted

(* The table, the threads' locals, the lock and the screen only ever hold  *)
(* what the code can put there, and whoever is inside advance has the lock.*)
THEOREM TypeCorrect == Spec => []TypeOK
<1>1. Locked => TypeOK
  <2> SUFFICES ASSUME Locked PROVE TypeOK
    OBVIOUS
  <2>1. /\ DOMAIN tasks \subseteq TaskIds /\ tasks \in [DOMAIN tasks -> Rows]
        /\ made \in [TaskIds -> SUBSET Kinds] /\ lock \in Threads \cup {None}
        /\ pending \subseteq DOMAIN tasks
    BY DEF Locked, Typed
  <2>2. records \in [TaskIds -> [Gates -> {"none", "PENDING", "APPROVED", "DENIED"}]]
    BY DEF Locked, Typed, Ledgers
  <2>3. \A p \in Threads : /\ thr[p].pc \in Pcs
                           /\ At(p, "idle") \/ thr[p].task \in DOMAIN tasks
                           /\ thr[p].pos \in 1..8 /\ thr[p].approved \subseteq StageMenu
                           /\ thr[p].round > 0 => lock = p
    BY DEF Locked, Typed, Bound, Locals, At
  <2>4. \A t \in TaskIds : /\ dash[t].state \in States \cup {NoText}
                           /\ dash[t].card \in Gates \cup {NoText}
    BY DEF Locked, Typed, Cards
  <2> QED BY <2>1, <2>2, <2>3, <2>4 DEF TypeOK
<1> QED BY <1>1, LockedInit, LockedNext, PTL DEF Spec

-----------------------------------------------------------------------------
(***************************************************************************)
(* With one decision per card: what a decision finds when it is applied.   *)
(***************************************************************************)
(* The request of gate g is the one its task is parked on. *)
ParkedOn(t, g) ==
  /\ tasks[t].approval = g
  /\ Pos(t) \in DOMAIN Stages(t) /\ Stages(t)[Pos(t)] = g

(* A task's row against its approval records. *)
Standing(t) ==
  /\ \A g \in tasks[t].approved : g \in Gates /\ records[t][g] = "APPROVED"
  /\ tasks[t].approval # NoText =>
       \/ tasks[t].approval \in tasks[t].approved
       \/ /\ ParkedOn(t, tasks[t].approval)
          /\ tasks[t].state \in Terminal \cup {"AWAITING_APPROVAL"}

Ruled(t) ==
  \A g \in Gates :
    /\ records[t][g] \in Decided => budget.clicks[t][g] > 0
    /\ records[t][g] = "DENIED" =>
         /\ t \in DOMAIN tasks
         /\ \/ tasks[t].state = "PARTIAL"
            \/ tasks[t].state = "AWAITING_APPROVAL" /\ ParkedOn(t, g)

(* A thread's locals against its task's row and records. *)
Judged(p) ==
  LET t == thr[p].task
      pc == thr[p].pc
      g == thr[p].card IN
    /\ pc \in Walking => thr[p].approved = tasks[t].approved
    /\ pc \in Asking => tasks[t].state = "AWAITING_APPROVAL" /\ tasks[t].approval # Stage(p)
    /\ pc = "cursor" /\ Stage(p) \in GatesOf(tasks[t].playbook)
         => records[t][Stage(p)] = "APPROVED"
    /\ pc \in Judging \cup {"validate"} => budget.clicks[t][g] > 0
    /\ pc \in {"validate", "status"} => records[t][g] \notin Decided
    /\ pc \in Judging => tasks[t].state = "AWAITING_APPROVAL" /\ ParkedOn(t, g)
    /\ pc = "read_back" => records[t][g] = thr[p].verdict
    /\ pc \in {"read_row", "grant", "approve"} => records[t][g] = "APPROVED"
    /\ pc = "grant" => /\ g \in thr[p].approved
                       /\ \A h \in thr[p].approved : h \in Gates /\ records[t][h] = "APPROVED"
    /\ pc = "approve" => g \in tasks[t].approved
    /\ pc = "deny" => records[t][g] = "DENIED"

(* Two decisions being applied to a task are for two cards. *)
Apart(p, q) ==
  /\ thr[p].pc \in Judging \cup {"validate"} /\ thr[q].pc \in Judging \cup {"validate"}
  /\ thr[p].task = thr[q].task /\ thr[p].card = thr[q].card
  => p = q

Gated(t) ==
  \A g \in GatesOf(tasks[t].playbook) :
    \/ Pos(t) > StageIndex(tasks[t].playbook, g)
    \/ g = "act" /\ "work_order" \in made[t]
    => records[t][g] = "APPROVED"

(* Nothing is made for a task before it is in the store. *)
Unmade == \A t \in TaskIds \ DOMAIN tasks : made[t] = {}

Once == /\ \A t \in DOMAIN tasks : Standing(t) /\ Gated(t)
        /\ Unmade
        /\ \A t \in TaskIds : Ruled(t)
        /\ \A p \in Threads : Judged(p)
        /\ \A p, q \in Threads : Apart(p, q)

-----------------------------------------------------------------------------
(***************************************************************************)
(* What each step does, in the terms the proofs below use.                 *)
(***************************************************************************)
Moved(p, pc) ==
  /\ Elsewhere(p) /\ thr'[p].pc = pc /\ thr'[p].task = thr[p].task
  /\ thr'[p].pos = thr[p].pos /\ thr'[p].approved = thr[p].approved
  /\ thr'[p].card = thr[p].card /\ thr'[p].verdict = thr[p].verdict

Put(t, s) == Others(t) /\ Kept(t) /\ Columns(t) /\ tasks'[t].state = s

SameClicks == budget'.clicks = budget.clicks

LEMMA MovedLemma ==
  ASSUME Locked, NEW p \in Threads, NEW pc \in Pcs, Goto(p, pc)
  PROVE  Moved(p, pc)
BY GotoLemma DEF Moved, Locked, Typed

LEMMA PutLemma ==
  ASSUME Locked, NEW t \in DOMAIN tasks, NEW s \in States, SetRow(t, "state", s)
  PROVE  Put(t, s)
BY StateLemma DEF Put, Locked, Typed

(* A transition: which states it is taken from, and where it leads.        *)
LEMMA AttemptEffect ==
  ASSUME Locked, NEW p \in Threads, thr[p].pc # "idle", NEW ev, NEW pc \in Pcs,
         NEW card \in Cards, Attempt(p, ev, pc, card)
  PROVE  \/ /\ Moved(p, pc)
            /\ \E s \in Outcome(ev, Row(p).state) : Put(thr[p].task, s)
         \/ /\ Moved(p, "release") /\ UNCHANGED tasks
            /\ ~Accepts(ev, Row(p).state)
<1>1. thr[p].task \in DOMAIN tasks /\ "release" \in Pcs /\ Typed
  BY RowLemma DEF Pcs, Locked
<1>2. CASE Goto(p, pc) /\ \E s \in Outcome(ev, Row(p).state) : SetRow(thr[p].task, "state", s)
  BY <1>1, <1>2, MovedLemma, PutLemma, TableLemma
<1>3. CASE Goto(p, "release") /\ UNCHANGED tasks /\ ~Accepts(ev, Row(p).state)
  BY <1>1, <1>3, MovedLemma
<1> QED BY <1>1, <1>2, <1>3, AttemptLemma DEF Row

(* Which states an event of the supervisor's is accepted in.               *)
LEMMA OutcomeLemma ==
  /\ \A s : Outcome("plan_done", s) = IF s = "PLANNING" THEN {"COORDINATING"} ELSE {}
  /\ \A s : Outcome("request_approval", s) =
              IF s \in {"COORDINATING", "EXECUTING"} THEN {"AWAITING_APPROVAL"} ELSE {}
  /\ \A s : Outcome("approve", s) = IF s = "AWAITING_APPROVAL" THEN {"COORDINATING"} ELSE {}
  /\ \A s : Outcome("deny", s) = IF s = "AWAITING_APPROVAL" THEN {"PARTIAL"} ELSE {}
  /\ \A s : Outcome("report", s) =
              IF s \in {"VERIFYING", "COORDINATING"} THEN {"REPORTED"} ELSE {}
  /\ \A s : Outcome("replan", s) =
              IF s \in Active \ {"AWAITING_APPROVAL", "PREEMPTED"} THEN {"PLANNING"} ELSE {}
  /\ \A s : Outcome("partial", s) = IF s \in Active THEN {"PARTIAL"} ELSE {}
  /\ \A s : Outcome("failed", s) = IF s \in Active THEN {"FAILED"} ELSE {}
  /\ \A s : Outcome("clarify_reply", s) =
              IF s = "AWAITING_CLARIFICATION" THEN {"RECEIVED"} ELSE {}
BY DEF Outcome, Transitions, States, Active, Terminal, Waits

(* Steps that only move a thread.                                          *)
Silent == UNCHANGED <<tasks, records, made, budget>>

LEMMA SilentEffect ==
  ASSUME Locked, NEW p \in Threads,
         Acquire(p) \/ Snap(p) \/ Check(p) \/ Release(p) \/ Validate(p) \/ ReadBack(p)
           \/ PublishGrant(p)
  PROVE  /\ Silent /\ Elsewhere(p)
         /\ \/ thr'[p].pc \in {"idle", "acquire", "release", "snap", "enter"}
            \/ /\ At(p, "validate") /\ Moved(p, "status")
               /\ Row(p).state = "AWAITING_APPROVAL" /\ Row(p).approval = thr[p].card
            \/ /\ At(p, "read_back") /\ records[thr[p].task][thr[p].card] = thr[p].verdict
               /\ \/ Moved(p, "read_row") /\ thr[p].verdict = "APPROVED"
                  \/ Moved(p, "deny") /\ thr[p].verdict = "DENIED"
<1>0. Typed /\ thr[p] \in Locals
  BY DEF Locked, Typed
<1>1. CASE Acquire(p) \/ Snap(p)
  BY <1>0, <1>1 DEF Acquire, Snap, Silent, persistent, Elsewhere, Typed, Locals
<1>2. CASE Check(p)
  BY <1>0, <1>2 DEF Check, Goto, Silent, persistent, Elsewhere, Typed, Locals
<1>3. CASE Release(p)
  BY <1>0, <1>3, RestLemma DEF Release, Silent, persistent, Elsewhere, Typed
<1>6. CASE PublishGrant(p)
  <2>1. [Rest EXCEPT !.pc = "acquire", !.task = thr[p].task].pc = "acquire"
    BY DEF Rest
  <2> QED BY <1>0, <1>6, <2>1 DEF PublishGrant, Silent, persistent, Elsewhere, Typed
<1>4. CASE Validate(p)
  <2>1. \/ Goto(p, "release")
        \/ /\ Goto(p, "status")
           /\ Row(p).state = "AWAITING_APPROVAL" /\ Row(p).approval = thr[p].card
    BY <1>4, SMTT(30) DEF Validate
  <2> QED BY <1>4, <2>1, MovedLemma DEF Validate, Silent, persistent, Pcs, Moved
<1>5. CASE ReadBack(p)
  <2>1. thr[p].verdict \in Decided
    BY <1>5, InputsAssumption, SMTT(30) DEF ReadBack, At, Judging, Locked, Bound, Decided
  <2>2. \/ Goto(p, "release")
        \/ /\ records[thr[p].task][thr[p].card] = thr[p].verdict
           /\ \/ Goto(p, "read_row") /\ thr[p].verdict = "APPROVED"
              \/ Goto(p, "deny") /\ thr[p].verdict = "DENIED"
    BY <1>5, <2>1 DEF ReadBack, Decided
  <2> QED BY <1>5, <2>2, MovedLemma, ZenonT(60) DEF ReadBack, Silent, persistent, Pcs, Moved
<1> QED BY <1>1, <1>2, <1>3, <1>4, <1>5, <1>6

LEMMA EnterEffect ==
  ASSUME Locked, NEW p \in Threads, Enter(p)
  PROVE  LET t == thr[p].task IN
    /\ UNCHANGED <<records, made, budget>> /\ Elsewhere(p) /\ At(p, "enter")
    /\ t \in DOMAIN tasks
    /\ \/ Moved(p, "release") /\ UNCHANGED tasks
       \/ /\ thr'[p].pc = "stage" /\ thr'[p].task = t /\ thr'[p].pos = Pos(t)
          /\ thr'[p].approved = tasks[t].approved
          /\ tasks[t].state \notin Terminal \cup {"AWAITING_APPROVAL"}
          /\ UNCHANGED tasks \/ Put(t, "PLANNING")
<1> DEFINE t == thr[p].task
<1>0. /\ Typed /\ thr[p] \in Locals /\ t \in DOMAIN tasks /\ At(p, "enter")
      /\ UNCHANGED <<records, made, budget>>
  BY RowLemma DEF Locked, Typed, Enter, At
<1>1. CASE Goto(p, "release") /\ UNCHANGED tasks
  BY <1>0, <1>1, MovedLemma DEF Pcs, Moved
<1>2. CASE /\ tasks[t].state \notin Terminal \cup {"AWAITING_APPROVAL"} /\ Load(p)
           /\ UNCHANGED tasks \/ SetRow(t, "state", "PLANNING")
  <2>1. /\ Elsewhere(p) /\ thr'[p].pc = "stage" /\ thr'[p].task = t /\ thr'[p].pos = Pos(t)
        /\ thr'[p].approved = tasks[t].approved
    BY <1>0, <1>2 DEF Load, Elsewhere, Typed, Locals, Row
  <2>2. UNCHANGED tasks \/ Put(t, "PLANNING")
    BY <1>0, <1>2, PutLemma DEF States, Active
  <2> QED BY <1>0, <1>2, <2>1, <2>2
<1>3. "RECEIVED" \notin Terminal /\ "AWAITING_CLARIFICATION" \notin Terminal
  BY DEF Terminal
<1> QED BY <1>1, <1>2, <1>3 DEF Enter, Row, Waits

LEMMA PlanEffect ==
  ASSUME Locked, NEW p \in Threads, PlanDone(p)
  PROVE  /\ UNCHANGED <<records, made, budget>> /\ At(p, "stage")
         /\ \/ Moved(p, "stage") /\ Put(thr[p].task, "COORDINATING")
            \/ Moved(p, "release") /\ UNCHANGED tasks
<1>1. Card(p) \in Cards
  BY RowLemma DEF PlanDone, At
<1> QED BY <1>1, AttemptEffect, OutcomeLemma DEF PlanDone, At, Pcs, Row

LEMMA ExecuteEffect ==
  ASSUME Locked, NEW p \in Threads, Execute(p)
  PROVE  LET t == thr[p].task IN
    /\ UNCHANGED <<tasks, records>> /\ SameClicks /\ At(p, "stage") /\ Moved(p, "cursor")
    /\ ~MustAsk(p) /\ thr[p].pos \in DOMAIN Stages(t)
    /\ \A u \in TaskIds : made'[u] \in {made[u], made[u] \cup {"report"}}
<1>1. thr[p].task \in DOMAIN tasks /\ Walkable(Row(p).playbook) /\ thr[p].pos \in 1..8
  BY RowLemma, SMTT(30) DEF Execute, At, Locked, Typed, Locals
<1>2. thr[p].pos \in DOMAIN Stages(thr[p].task)
  BY <1>1, BookFacts DEF Execute, AtEnd, Stages, Row
<1>3. SameClicks
  BY DEF Execute, SameClicks, Locked, Typed, Budgets
<1>4. \A u \in TaskIds : made'[u] \in {made[u], made[u] \cup {"report"}}
  BY DEF Execute, Locked, Typed
<1> QED BY <1>2, <1>3, <1>4, MovedLemma DEF Execute, Pcs

LEMMA SetCursorEffect ==
  ASSUME Locked, NEW p \in Threads, SetCursor(p)
  PROVE  LET t == thr[p].task IN
    /\ UNCHANGED <<records, made, budget>> /\ At(p, "cursor") /\ t \in DOMAIN tasks
    /\ Others(t) /\ Kept(t) /\ tasks'[t].state = tasks[t].state
    /\ tasks'[t].approval = tasks[t].approval /\ tasks'[t].approved = tasks[t].approved
    /\ tasks'[t].cursor = thr[p].pos + 1 /\ Pos(t) = thr[p].pos
    /\ thr[p].pos \in 1..Len(Stages(t)) /\ Walkable(tasks[t].playbook)
    /\ Elsewhere(p) /\ thr'[p].task = t /\ thr'[p].approved = thr[p].approved
    /\ thr'[p].pos = thr[p].pos + 1
    /\ \/ thr'[p].pc \in {"save", "stage"} /\ Stage(p) # "act"
       \/ thr'[p].pc = "work_order" /\ Stage(p) = "act"
<1> DEFINE t == thr[p].task
           n == thr[p].pos
           last == Len(Stages(t))
<1>0. Bound(p) /\ Typed /\ thr[p] \in Locals
  BY DEF Locked, Typed
<1>1. /\ At(p, "cursor") /\ SetRow(t, "cursor", n + 1) /\ t \in DOMAIN tasks
      /\ Walkable(tasks[t].playbook) /\ n \in DOMAIN Stages(t) /\ Pos(t) = n
  BY <1>0, RowLemma DEF SetCursor, At, Bound, Row, Walking
<1>2. n \in 1..last /\ last \in 1..7
  BY <1>1 DEF Walkable, Stages
<1>3. n + 1 \in 0..8
  <2> HIDE DEF n, last
  <2> QED BY <1>2
<1>4. /\ Others(t) /\ tasks'[t].cursor = n + 1 /\ Kept(t)
      /\ tasks'[t].state = tasks[t].state
      /\ tasks'[t].approval = tasks[t].approval /\ tasks'[t].approved = tasks[t].approved
  BY <1>0, <1>1, <1>3, CursorLemma DEF Typed
<1>5. /\ Elsewhere(p) /\ thr'[p].task = t /\ thr'[p].approved = thr[p].approved
      /\ thr'[p].pos = n + 1
      /\ \/ thr'[p].pc \in {"save", "stage"} /\ Stage(p) # "act"
         \/ thr'[p].pc = "work_order" /\ Stage(p) = "act"
  BY <1>0 DEF SetCursor, Typed, Locals, Elsewhere
<1> QED BY <1>1, <1>2, <1>4, <1>5 DEF SetCursor

LEMMA SaveEffect ==
  ASSUME Locked, NEW p \in Threads, SaveEvidence(p)
  PROVE  LET t == thr[p].task IN
    /\ UNCHANGED <<records, made, budget>> /\ At(p, "save") /\ Moved(p, "stage")
    /\ t \in DOMAIN tasks /\ Others(t) /\ Kept(t)
    /\ tasks'[t].approved = thr[p].approved /\ tasks'[t].state = tasks[t].state
    /\ tasks'[t].cursor = tasks[t].cursor /\ tasks'[t].approval = tasks[t].approval
<1> DEFINE t == thr[p].task
<1>0. Typed /\ thr[p] \in Locals /\ t \in DOMAIN tasks
  BY RowLemma DEF Locked, Typed, SaveEvidence, At
<1>1. Moved(p, "stage")
  BY <1>0 DEF SaveEvidence, Moved, Elsewhere, Typed, Locals
<1>2. thr[p].approved \in SUBSET StageMenu
  BY <1>0 DEF Locals
<1>3. /\ Others(t) /\ Kept(t)
      /\ tasks'[t].approved = thr[p].approved /\ tasks'[t].state = tasks[t].state
      /\ tasks'[t].cursor = tasks[t].cursor /\ tasks'[t].approval = tasks[t].approval
  <2> DEFINE A == thr[p].approved
  <2>1. tasks' = [tasks EXCEPT ![t].obs = TRUE, ![t].approved = A]
    BY DEF SaveEvidence
  <2>2. A \in SUBSET StageMenu
    BY <1>2
  <2> HIDE DEF A
  <2>3. /\ Others(t) /\ Kept(t) /\ tasks'[t].approved = A /\ tasks'[t].state = tasks[t].state
        /\ tasks'[t].cursor = tasks[t].cursor /\ tasks'[t].approval = tasks[t].approval
    BY <1>0, <2>1, <2>2, GrantLemma DEF Typed
  <2> QED BY <2>3 DEF A
<1> QED BY <1>0, <1>1, <1>3 DEF SaveEvidence

(* Where the act stage goes next, and what it has then made.               *)
LEMMA ActEffect ==
  ASSUME Locked, NEW p \in Threads, ApplyAction(p)
  PROVE  LET t == thr[p].task IN
    /\ UNCHANGED <<tasks, records>> /\ SameClicks /\ t \in DOMAIN tasks /\ t \in TaskIds
    /\ thr[p].pc \in {"work_order", "record", "notify"}
    /\ \A u \in TaskIds : made[u] \subseteq made'[u] /\ (u # t => made'[u] = made[u])
    /\ \/ Moved(p, "act_failed")
       \/ /\ At(p, "work_order") /\ "work_order" \in made'[t]
          /\ \/ tasks[t].incident = None /\ Moved(p, "notify")
             \/ tasks[t].incident # None /\ Moved(p, "record")
       \/ At(p, "record") /\ Moved(p, "notify") /\ "incident_record" \in made'[t]
       \/ At(p, "notify") /\ Moved(p, "stage") /\ "notification" \in made'[t]
<1> DEFINE t == thr[p].task
<1>1. /\ UNCHANGED <<tasks, records>> /\ thr[p].pc \in {"work_order", "record", "notify"}
  BY DEF ApplyAction, Create, At
<1>2. t \in DOMAIN tasks /\ t \in TaskIds
  BY <1>1, RowLemma
<1>3. SameClicks
  BY DEF ApplyAction, Create, SameClicks, Locked, Typed, Budgets
<1>4. \A u \in TaskIds : made[u] \subseteq made'[u] /\ (u # t => made'[u] = made[u])
  BY DEF ApplyAction, Create, Locked, Typed
<1>5. ASSUME NEW kind, NEW pc, Create(p, kind, pc)
      PROVE  Goto(p, "act_failed") \/ (Goto(p, pc) /\ kind \in made'[t])
  BY <1>2, <1>5 DEF Create, Locked, Typed
<1>6. \/ Goto(p, "act_failed")
      \/ /\ At(p, "work_order") /\ "work_order" \in made'[t]
         /\ \/ tasks[t].incident = None /\ Goto(p, "notify")
            \/ tasks[t].incident # None /\ Goto(p, "record")
      \/ At(p, "record") /\ Goto(p, "notify") /\ "incident_record" \in made'[t]
      \/ At(p, "notify") /\ Goto(p, "stage") /\ "notification" \in made'[t]
  BY <1>5 DEF ApplyAction, Row
<1> QED BY <1>1, <1>2, <1>3, <1>4, <1>6, MovedLemma DEF Pcs

LEMMA GiveUpEffect ==
  ASSUME Locked, NEW p \in Threads, GiveUpOrRetry(p)
  PROVE  LET t == thr[p].task IN
    /\ UNCHANGED <<records, made, budget>> /\ At(p, "act_failed") /\ t \in DOMAIN tasks
    /\ \/ /\ Moved(p, "back") /\ Others(t) /\ Columns(t)
          /\ tasks'[t].state = tasks[t].state /\ tasks'[t].playbook = tasks[t].playbook
          /\ tasks'[t].incident = tasks[t].incident
          /\ tasks[t].replans < Cap(tasks[t].playbook, "act")
          /\ tasks'[t].replans = tasks[t].replans + 1
       \/ Moved(p, "release") /\ Put(t, "PARTIAL")
<1> DEFINE t == thr[p].task
           n == Row(p).replans + 1
<1>0. /\ Typed /\ t \in DOMAIN tasks /\ Row(p) \in Rows /\ Walkable(Row(p).playbook)
      /\ Closed(p, "PARTIAL") \in Cards
  BY RowLemma DEF Locked, GiveUpOrRetry, At, States, Terminal
<1>1. CASE Row(p).replans < Cap(Row(p).playbook, "act")
  <2>1. n \in 0..3
    BY <1>0, <1>1 DEF Walkable, Rows
  <2>2. SetRow(t, "replans", n) /\ Goto(p, "back")
    BY <1>1 DEF GiveUpOrRetry
  <2> HIDE DEF n
  <2>3. /\ Others(t) /\ Columns(t) /\ tasks'[t].state = tasks[t].state
        /\ tasks'[t].playbook = tasks[t].playbook /\ tasks'[t].replans = n
        /\ tasks'[t].incident = tasks[t].incident
    BY <1>0, <2>1, <2>2, ReplansLemma DEF Typed
  <2> QED BY <1>0, <1>1, <2>2, <2>3, MovedLemma DEF GiveUpOrRetry, Pcs, Row, n
<1>2. CASE ~(Row(p).replans < Cap(Row(p).playbook, "act"))
  <2>1. Attempt(p, "partial", "release", Closed(p, "PARTIAL")) /\ At(p, "act_failed")
    BY <1>2 DEF GiveUpOrRetry
  <2>2. Row(p).state \in Active
    BY <1>0, <2>1 DEF Locked, Bound, Walking, Acting, At, Rows, States, Row
  <2>3. Outcome("partial", Row(p).state) = {"PARTIAL"}
    BY <2>2, OutcomeLemma
  <2>4. Moved(p, "release") /\ Put(t, "PARTIAL")
    BY <1>0, <2>1, <2>3, AttemptEffect DEF At, Pcs, Accepts
  <2> QED BY <1>0, <2>1, <2>4 DEF GiveUpOrRetry
<1> QED BY <1>1, <1>2

LEMMA GoBackEffect ==
  ASSUME Locked, NEW p \in Threads, GoBack(p)
  PROVE  LET t == thr[p].task IN
    /\ UNCHANGED <<records, made, budget>> /\ At(p, "back") /\ Moved(p, "replan")
    /\ t \in DOMAIN tasks /\ Walkable(tasks[t].playbook)
    /\ Others(t) /\ Kept(t) /\ tasks'[t].state = tasks[t].state
    /\ tasks'[t].approval = tasks[t].approval /\ tasks'[t].approved = tasks[t].approved
    /\ tasks'[t].cursor = TargetOf(tasks[t].playbook, "act")
    /\ tasks'[t].cursor \in 1..(ActAt(t) - 1) /\ ActAt(t) \in 1..7
<1> DEFINE t == thr[p].task
           to == TargetOf(tasks[t].playbook, "act")
<1>1. /\ Typed /\ At(p, "back") /\ SetRow(t, "cursor", to) /\ t \in DOMAIN tasks
      /\ Walkable(tasks[t].playbook) /\ Cap(tasks[t].playbook, "act") > 0
  BY RowLemma, SMTT(30) DEF GoBack, At, Bound, Row, Locked
<1>2. to \in 1..(ActAt(t) - 1) /\ ActAt(t) \in 1..7
  BY <1>1, BookFacts DEF ActAt
<1>3. to \in 0..8
  BY <1>2
<1> HIDE DEF to
<1>4. /\ Others(t) /\ tasks'[t].cursor = to /\ Kept(t) /\ tasks'[t].state = tasks[t].state
      /\ tasks'[t].approval = tasks[t].approval /\ tasks'[t].approved = tasks[t].approved
  BY <1>1, <1>3, CursorLemma DEF Typed
<1> QED BY <1>1, <1>2, <1>4, MovedLemma DEF GoBack, Pcs, to

LEMMA ReplanEffect ==
  ASSUME Locked, NEW p \in Threads, Replan(p)
  PROVE  LET t == thr[p].task IN
    /\ UNCHANGED <<records, made, budget>> /\ At(p, "replan") /\ t \in DOMAIN tasks
    /\ \/ Moved(p, "check") /\ Put(t, "PLANNING")
       \/ Moved(p, "release") /\ UNCHANGED tasks
<1>1. At(p, "replan") /\ Card(p) \in Cards /\ thr[p].task \in DOMAIN tasks
  BY RowLemma DEF Replan, At
<1>2. Outcome("replan", Row(p).state) \subseteq {"PLANNING"}
  BY OutcomeLemma
<1> QED BY <1>1, <1>2, AttemptEffect DEF Replan, At, Pcs

LEMMA FinishEffect ==
  ASSUME Locked, NEW p \in Threads, Finish(p)
  PROVE  LET t == thr[p].task IN
    /\ UNCHANGED <<records, made, budget>> /\ At(p, "stage") /\ AtEnd(p)
    /\ t \in DOMAIN tasks /\ Moved(p, "release")
    /\ UNCHANGED tasks \/ Put(t, "REPORTED")
<1>1. At(p, "stage") /\ Closed(p, "REPORTED") \in Cards /\ thr[p].task \in DOMAIN tasks
  BY RowLemma DEF Finish, At, States, Terminal
<1>2. Outcome("report", Row(p).state) \subseteq {"REPORTED"}
  BY OutcomeLemma
<1>3. CASE Attempt(p, "report", "release", Closed(p, "REPORTED"))
  BY <1>1, <1>2, <1>3, AttemptEffect DEF Finish, At, Pcs
<1>4. CASE Goto(p, "release") /\ UNCHANGED tasks
  BY <1>1, <1>4, MovedLemma DEF Finish, Pcs
<1> QED BY <1>3, <1>4 DEF Finish

LEMMA ParkEffect ==
  ASSUME Locked, NEW p \in Threads, Park(p)
  PROVE  LET t == thr[p].task IN
    /\ UNCHANGED <<records, made, budget>> /\ At(p, "stage") /\ MustAsk(p)
    /\ t \in DOMAIN tasks
    /\ \/ Moved(p, "request") /\ Put(t, "AWAITING_APPROVAL")
       \/ Moved(p, "release") /\ UNCHANGED tasks
<1>1. At(p, "stage") /\ Card(p) \in Cards /\ thr[p].task \in DOMAIN tasks
  BY RowLemma DEF Park, At
<1>2. Outcome("request_approval", Row(p).state) \subseteq {"AWAITING_APPROVAL"}
  BY OutcomeLemma
<1> QED BY <1>1, <1>2, AttemptEffect DEF Park, At, Pcs

(* A request that is there already keeps its status.                       *)
SameVerdicts ==
  \A u \in TaskIds, g \in Gates :
    /\ records'[u][g] # records[u][g] => records[u][g] = "none" /\ records'[u][g] = "PENDING"

LEMMA CreateRequestEffect ==
  ASSUME Locked, NEW p \in Threads, CreateRequest(p)
  PROVE  /\ UNCHANGED <<tasks, made>> /\ SameClicks /\ At(p, "request") /\ SameVerdicts
         /\ Moved(p, "publish") \/ Moved(p, "no_request")
<1>1. thr[p].task \in TaskIds /\ Stage(p) \in Gates
  BY RowLemma, StageLemma DEF CreateRequest, At, Asking
<1> DEFINE t == thr[p].task
           g == Stage(p)
<1>2. \/ UNCHANGED records
      \/ records[t][g] = "none" /\ records' = [records EXCEPT ![t][g] = "PENDING"]
  BY DEF CreateRequest
<1> HIDE DEF g
<1>3. SameVerdicts
  BY <1>1, <1>2 DEF SameVerdicts, Locked, Typed, Ledgers, g
<1>4. SameClicks
  BY DEF CreateRequest, SameClicks, Locked, Typed, Budgets
<1> QED BY <1>3, <1>4, MovedLemma DEF CreateRequest, Pcs

LEMMA PublishEffect ==
  ASSUME Locked, NEW p \in Threads, PublishRequest(p)
  PROVE  LET t == thr[p].task IN
    /\ UNCHANGED <<records, made, budget>> /\ At(p, "publish") /\ Moved(p, "check")
    /\ t \in DOMAIN tasks /\ Others(t) /\ Kept(t) /\ tasks'[t].state = tasks[t].state
    /\ tasks'[t].cursor = tasks[t].cursor /\ tasks'[t].approved = tasks[t].approved
    /\ tasks'[t].approval = Stage(p)
<1>1. Stage(p) \in Gates \cup {NoText} /\ thr[p].task \in DOMAIN tasks
  BY RowLemma, StageLemma DEF PublishRequest, At, Asking
<1> QED BY <1>1, ApprovalLemma, MovedLemma DEF PublishRequest, Pcs, Locked, Typed

LEMMA FailEffect ==
  ASSUME Locked, NEW p \in Threads, FailRequest(p)
  PROVE  LET t == thr[p].task IN
    /\ UNCHANGED <<records, made, budget>> /\ At(p, "no_request") /\ Moved(p, "release")
    /\ t \in DOMAIN tasks
    /\ UNCHANGED tasks \/ Put(t, "FAILED")
<1>1. /\ At(p, "no_request") /\ Closed(p, "FAILED") \in Cards /\ thr[p].task \in DOMAIN tasks
  BY RowLemma DEF FailRequest, At, States, Terminal
<1>2. Outcome("failed", Row(p).state) \subseteq {"FAILED"}
  BY OutcomeLemma
<1> QED BY <1>1, <1>2, AttemptEffect DEF FailRequest, At, Pcs

LEMMA UpdateEffect ==
  ASSUME Locked, NEW p \in Threads, UpdateStatus(p)
  PROVE  LET t == thr[p].task
             g == thr[p].card IN
    /\ UNCHANGED <<tasks, made, budget>> /\ At(p, "status") /\ Moved(p, "read_back")
    /\ t \in DOMAIN tasks /\ t \in TaskIds /\ g \in Gates /\ thr[p].verdict \in Decided
    /\ records' = [records EXCEPT ![t][g] = thr[p].verdict]
    /\ records'[t][g] = thr[p].verdict
    /\ \A u \in TaskIds, h \in Gates : u # t \/ h # g => records'[u][h] = records[u][h]
<1>1. /\ At(p, "status") /\ thr[p].task \in DOMAIN tasks /\ thr[p].task \in TaskIds
      /\ thr[p].card \in Gates /\ thr[p].verdict \in Decided
  BY RowLemma, InputsAssumption DEF UpdateStatus, At, Locked, Bound, Judging, Decided
<1> QED BY <1>1, MovedLemma DEF UpdateStatus, Pcs, Locked, Typed, Ledgers

LEMMA ReadRowEffect ==
  ASSUME Locked, NEW p \in Threads, ReadRow(p)
  PROVE  LET t == thr[p].task IN
    /\ Silent /\ At(p, "read_row") /\ t \in DOMAIN tasks
    /\ Elsewhere(p) /\ thr'[p].pc = "grant" /\ thr'[p].task = t
    /\ thr'[p].card = thr[p].card /\ thr'[p].verdict = thr[p].verdict
    /\ \A h : h \in thr'[p].approved <=>
                \/ h \in tasks[t].approved
                \/ Pos(t) \in DOMAIN Stages(t) /\ h = Stages(t)[Pos(t)]
<1>1. /\ Typed /\ thr[p] \in Locals /\ thr[p].task \in DOMAIN tasks
  BY RowLemma DEF Locked, Typed, ReadRow, At
<1> DEFINE t == thr[p].task
           here == {Stages(t)[m] : m \in DOMAIN Stages(t) \cap {Pos(t)}}
<1>2. /\ Elsewhere(p) /\ thr'[p].pc = "grant" /\ thr'[p].task = t
      /\ thr'[p].card = thr[p].card /\ thr'[p].verdict = thr[p].verdict
      /\ thr'[p].approved = tasks[t].approved \cup here
  BY <1>1 DEF ReadRow, Elsewhere, Typed, Locals, Row
<1>3. \A h : h \in here <=> Pos(t) \in DOMAIN Stages(t) /\ h = Stages(t)[Pos(t)]
  OBVIOUS
<1> QED BY <1>1, <1>2, <1>3 DEF ReadRow, Silent, persistent

LEMMA SaveGrantEffect ==
  ASSUME Locked, NEW p \in Threads, SaveGrant(p)
  PROVE  LET t == thr[p].task IN
    /\ UNCHANGED <<records, made, budget>> /\ At(p, "grant") /\ Moved(p, "approve")
    /\ t \in DOMAIN tasks /\ Others(t) /\ Kept(t)
    /\ tasks'[t].approved = thr[p].approved /\ tasks'[t].state = tasks[t].state
    /\ tasks'[t].cursor = tasks[t].cursor /\ tasks'[t].approval = tasks[t].approval
<1> DEFINE t == thr[p].task
           A == thr[p].approved
           obs == thr[p].obs
<1>1. /\ Typed /\ t \in DOMAIN tasks /\ A \in SUBSET StageMenu /\ obs \in BOOLEAN
      /\ tasks' = [tasks EXCEPT ![t].obs = obs, ![t].approved = A]
  BY RowLemma DEF Locked, Typed, SaveGrant, At, Locals
<1> HIDE DEF A, obs
<1>2. /\ Others(t) /\ Kept(t) /\ tasks'[t].approved = A /\ tasks'[t].state = tasks[t].state
      /\ tasks'[t].cursor = tasks[t].cursor /\ tasks'[t].approval = tasks[t].approval
  BY <1>1, GrantLemma DEF Typed
<1> QED BY <1>1, <1>2, MovedLemma DEF SaveGrant, Pcs, A

LEMMA VerdictEffect ==
  ASSUME Locked, NEW p \in Threads, Approve(p) \/ Deny(p)
  PROVE  LET t == thr[p].task IN
    /\ UNCHANGED <<records, made, budget>> /\ t \in DOMAIN tasks
    /\ \/ /\ At(p, "approve")
          /\ \/ /\ Moved(p, "granted") /\ Put(t, "COORDINATING")
                /\ tasks[t].state = "AWAITING_APPROVAL"
             \/ Moved(p, "release") /\ UNCHANGED tasks
       \/ /\ At(p, "deny") /\ Moved(p, "release")
          /\ \/ Put(t, "PARTIAL") /\ tasks[t].state = "AWAITING_APPROVAL"
             \/ UNCHANGED tasks
<1>1. CASE Approve(p)
  <2>1. At(p, "approve") /\ Card(p) \in Cards /\ thr[p].task \in DOMAIN tasks
    BY <1>1, RowLemma DEF Approve, At
  <2>2. \A s \in Outcome("approve", Row(p).state) :
          s = "COORDINATING" /\ Row(p).state = "AWAITING_APPROVAL"
    BY OutcomeLemma
  <2>3. \/ /\ Moved(p, "granted")
           /\ \E s \in Outcome("approve", Row(p).state) : Put(thr[p].task, s)
        \/ Moved(p, "release") /\ UNCHANGED tasks
    BY <1>1, <2>1, AttemptEffect DEF Approve, At, Pcs
  <2> QED BY <1>1, <2>1, <2>2, <2>3 DEF Approve, Row
<1>2. CASE Deny(p)
  <2>1. /\ At(p, "deny") /\ thr[p].task \in DOMAIN tasks
        /\ [state |-> "PARTIAL", card |-> NoText] \in Cards
    BY <1>2, RowLemma DEF Deny, At, Cards, States, Terminal
  <2>2. \A s \in Outcome("deny", Row(p).state) :
          s = "PARTIAL" /\ Row(p).state = "AWAITING_APPROVAL"
    BY OutcomeLemma
  <2>3. \/ /\ Moved(p, "release")
           /\ \E s \in Outcome("deny", Row(p).state) : Put(thr[p].task, s)
        \/ Moved(p, "release") /\ UNCHANGED tasks
    BY <1>2, <2>1, AttemptEffect DEF Deny, At, Pcs
  <2> QED BY <1>2, <2>1, <2>2, <2>3 DEF Deny, Row
<1> QED BY <1>1, <1>2

-----------------------------------------------------------------------------
(***************************************************************************)
(* What a step leaves true of the rows and threads it does not touch.      *)
(***************************************************************************)
Clicked == \A u \in TaskIds, g \in Gates : budget.clicks[u][g] > 0 => budget'.clicks[u][g] > 0
NoOrder(t) == \A u \in TaskIds \ {t} : "work_order" \in made'[u] => "work_order" \in made[u]
SameRow(t) == Columns(t) /\ tasks'[t].state = tasks[t].state
              /\ tasks'[t].playbook = tasks[t].playbook

LEMMA ClickedLemma == SameClicks => Clicked
BY DEF SameClicks, Clicked

LEMMA RowFrame ==
  ASSUME Locked, NEW u \in DOMAIN tasks, Standing(u), Gated(u),
         tasks'[u].playbook = tasks[u].playbook, Columns(u), SameVerdicts,
         \/ tasks'[u].state = tasks[u].state
         \/ tasks[u].approval = NoText \/ tasks[u].approval \in tasks[u].approved,
         "work_order" \in made'[u] => "work_order" \in made[u]
  PROVE  Standing(u)' /\ Gated(u)'
<1>1. u \in TaskIds /\ tasks[u].playbook \in UsedPlaybooks
  BY DEF Locked, Typed, Rows
<1>2. Standing(u)'
  <2>1. /\ tasks'[u].approved = tasks[u].approved /\ tasks'[u].approval = tasks[u].approval
        /\ \A g : ParkedOn(u, g) => ParkedOn(u, g)'
    BY DEF Columns, ParkedOn, Pos, Stages
  <2>2. \A g \in Gates : records[u][g] = "APPROVED" => records'[u][g] = "APPROVED"
    BY <1>1 DEF SameVerdicts
  <2> QED BY <2>1, <2>2 DEF Standing
<1>3. Gated(u)'
  <2>1. GatesOf(tasks[u].playbook) \subseteq Gates
    BY <1>1 DEF Gates
  <2>2. \A g \in Gates : records[u][g] = "APPROVED" => records'[u][g] = "APPROVED"
    BY <1>1 DEF SameVerdicts
  <2> QED BY <2>1, <2>2 DEF Gated, Columns, Pos
<1> QED BY <1>2, <1>3

LEMMA RuledFrame ==
  ASSUME NEW u \in TaskIds, Ruled(u), SameVerdicts, Clicked,
         u \in DOMAIN tasks =>
           /\ u \in DOMAIN tasks' /\ tasks'[u].playbook = tasks[u].playbook
           /\ \/ Columns(u) /\ tasks'[u].state = tasks[u].state
              \/ \A g \in Gates : records[u][g] # "DENIED"
  PROVE  Ruled(u)'
<1> SUFFICES ASSUME NEW g \in Gates
             PROVE  /\ records'[u][g] \in Decided => budget'.clicks[u][g] > 0
                    /\ records'[u][g] = "DENIED" =>
                         /\ u \in DOMAIN tasks'
                         /\ \/ tasks'[u].state = "PARTIAL"
                            \/ tasks'[u].state = "AWAITING_APPROVAL" /\ ParkedOn(u, g)'
  BY DEF Ruled
<1>1. records'[u][g] \in Decided => records'[u][g] = records[u][g]
  BY DEF SameVerdicts, Decided
<1>2. records'[u][g] \in Decided => budget'.clicks[u][g] > 0
  BY <1>1 DEF Ruled, Clicked
<1>3. ASSUME records'[u][g] = "DENIED"
      PROVE  /\ u \in DOMAIN tasks'
             /\ \/ tasks'[u].state = "PARTIAL"
                \/ tasks'[u].state = "AWAITING_APPROVAL" /\ ParkedOn(u, g)'
  <2>1. records[u][g] = "DENIED"
    BY <1>1, <1>3 DEF Decided
  <2>2. u \in DOMAIN tasks /\ Columns(u) /\ tasks'[u].state = tasks[u].state
    BY <2>1, SMTT(30) DEF Ruled
  <2> QED BY <2>1, <2>2 DEF Ruled, Columns, ParkedOn, Pos, Stages
<1> QED BY <1>2, <1>3

LEMMA JudgedFrame ==
  ASSUME Locked, NEW q \in Threads, Judged(q), thr'[q] = thr[q], SameVerdicts, Clicked,
         thr[q].pc \in Walking \cup Asking \cup Judging =>
           Columns(thr[q].task) /\ tasks'[thr[q].task].playbook = tasks[thr[q].task].playbook,
         thr[q].pc \in Asking \cup Judging =>
           tasks'[thr[q].task].state = tasks[thr[q].task].state
  PROVE  Judged(q)'
<1> DEFINE t == thr[q].task
           pc == thr[q].pc
           g == thr[q].card
<1>1. pc # "idle" => t \in TaskIds /\ GatesOf(tasks[t].playbook) \subseteq Gates
  BY RowLemma DEF Rows, Gates, Row
<1>2. pc \in Judging \cup {"validate"} => g \in Gates
  BY DEF Locked, Bound
<1>3. pc \in Walking => thr'[q].approved = tasks'[t].approved
  BY DEF Judged, Columns
<1>4. pc \in Asking => /\ tasks'[t].state = "AWAITING_APPROVAL"
                       /\ tasks'[t].approval # StagesOf(tasks'[t].playbook)[thr[q].pos]
  BY DEF Judged, Columns, Stage, Stages
<1>5. pc = "cursor" /\ Stage(q)' \in GatesOf(tasks'[t].playbook)
        => records'[t][Stage(q)'] = "APPROVED"
  <2> SUFFICES ASSUME pc = "cursor", Stage(q)' \in GatesOf(tasks'[t].playbook)
               PROVE  records'[t][Stage(q)'] = "APPROVED"
    OBVIOUS
  <2>1. tasks'[t].playbook = tasks[t].playbook /\ thr'[q].task = t
    BY DEF Walking
  <2>2. Stage(q)' = Stage(q)
    BY <2>1 DEF Stage, Stages
  <2>3. Stage(q) \in GatesOf(tasks[t].playbook) /\ Stage(q) \in Gates /\ t \in TaskIds
    BY <1>1, <2>1, <2>2
  <2>4. records[t][Stage(q)] = "APPROVED"
    BY <2>3 DEF Judged
  <2> QED BY <2>2, <2>3, <2>4 DEF SameVerdicts
<1>6. pc \in Judging \cup {"validate"} => budget'.clicks[t][g] > 0
  BY <1>1, <1>2 DEF Judged, Clicked, Judging
<1>7. pc \in {"validate", "status"} => records'[t][g] \notin Decided
  BY <1>1, <1>2 DEF Judged, SameVerdicts, Judging, Decided
<1>8. pc \in Judging => tasks'[t].state = "AWAITING_APPROVAL" /\ ParkedOn(t, g)'
  BY DEF Judged, Columns, ParkedOn, Pos, Stages
<1>9. /\ pc = "read_back" => records'[t][g] = thr[q].verdict
      /\ pc \in {"read_row", "grant", "approve"} => records'[t][g] = "APPROVED"
      /\ pc = "deny" => records'[t][g] = "DENIED"
  <2>1. pc = "read_back" => thr[q].verdict \in Decided
    BY InputsAssumption DEF Locked, Bound, Judging, Decided
  <2> QED BY <1>1, <1>2, <2>1 DEF Judged, SameVerdicts, Judging, Decided
<1>10. pc = "grant" => /\ g \in thr[q].approved
                       /\ \A h \in thr[q].approved : h \in Gates /\ records'[t][h] = "APPROVED"
  BY <1>1 DEF Judged, SameVerdicts
<1>11. pc = "approve" => g \in tasks'[t].approved
  BY DEF Judged, Columns, Judging
<1>12. Stage(q)' = StagesOf(tasks'[t].playbook)[thr[q].pos]
  BY DEF Stage, Stages
<1> QED BY <1>3, <1>4, <1>5, <1>6, <1>7, <1>8, <1>9, <1>10, <1>11, <1>12 DEF Judged

LEMMA LooseJudged ==
  ASSUME NEW p \in Threads,
         thr'[p].pc \in {"idle", "acquire", "snap", "enter", "check", "release", "granted"}
  PROVE  Judged(p)'
BY DEF Judged, Walking, Asking, Acting, Judging

LEMMA ApartFrame ==
  ASSUME \A p, q \in Threads : Apart(p, q), NEW p \in Threads, Elsewhere(p),
         thr'[p].pc \in Judging \cup {"validate"} =>
           /\ thr[p].pc \in Judging \cup {"validate"}
           /\ thr'[p].task = thr[p].task /\ thr'[p].card = thr[p].card
  PROVE  \A q, r \in Threads : Apart(q, r)'
BY DEF Apart, Elsewhere

(* The rows, when one of them is written. *)
LEMMA RowsFrame ==
  ASSUME Locked, Once, NEW t \in DOMAIN tasks, Others(t), SameVerdicts, Clicked, NoOrder(t),
         \A u \in TaskIds \ DOMAIN tasks : made'[u] = made[u],
         Standing(t)' /\ Gated(t)' /\ Ruled(t)'
  PROVE  /\ \A u \in DOMAIN tasks' : Standing(u)' /\ Gated(u)'
         /\ Unmade' /\ \A u \in TaskIds : Ruled(u)'
<1>1. DOMAIN tasks' = DOMAIN tasks /\ DOMAIN tasks \subseteq TaskIds
  BY DEF Others, Locked, Typed
<1>2. ASSUME NEW u \in DOMAIN tasks, u # t PROVE Standing(u)' /\ Gated(u)'
  BY <1>1, <1>2, RowFrame DEF Once, Others, Columns, NoOrder
<1>3. Unmade'
  BY <1>1 DEF Once, Unmade
<1>4. ASSUME NEW u \in TaskIds, u # t PROVE Ruled(u)'
  <2>1. u \in DOMAIN tasks => tasks'[u] = tasks[u]
    BY <1>4 DEF Others
  <2> QED BY <1>1, <1>4, <2>1, RuledFrame DEF Once, Columns
<1> QED BY <1>1, <1>2, <1>3, <1>4

(* A thread's step that writes one row at most. *)
LEMMA StepFrame ==
  ASSUME Locked, Once, NEW p \in Threads, NEW t \in DOMAIN tasks, Elsewhere(p), Others(t),
         SameVerdicts, Clicked, NoOrder(t),
         \A u \in TaskIds \ DOMAIN tasks : made'[u] = made[u],
         thr'[p].pc \in Judging \cup {"validate"} =>
           /\ thr[p].pc \in Judging \cup {"validate"}
           /\ thr'[p].task = thr[p].task /\ thr'[p].card = thr[p].card,
         \/ SameRow(t)
         \/ \A q \in Threads : q # p /\ thr[q].task = t =>
                                 thr[q].pc \notin Walking \cup Asking \cup Judging,
         Standing(t)' /\ Gated(t)' /\ Ruled(t)', Judged(p)'
  PROVE  Once'
<1>1. ASSUME NEW q \in Threads, q # p PROVE Judged(q)'
  <2>1. thr'[q] = thr[q] /\ Judged(q)
    BY <1>1 DEF Elsewhere, Once
  <2>2. thr[q].pc \in Walking \cup Asking \cup Judging =>
          /\ Columns(thr[q].task)
          /\ tasks'[thr[q].task].playbook = tasks[thr[q].task].playbook
          /\ tasks'[thr[q].task].state = tasks[thr[q].task].state
    <3>1. thr[q].pc # "idle" => thr[q].task \in DOMAIN tasks
      BY RowLemma
    <3>2. thr[q].pc \in Walking \cup Asking \cup Judging => thr[q].pc # "idle"
      BY DEF Walking, Asking, Acting, Judging
    <3> QED BY <1>1, <3>1, <3>2 DEF Others, SameRow, Columns
  <2> QED BY <2>1, <2>2, JudgedFrame
<1>2. \A q, r \in Threads : Apart(q, r)'
  BY ApartFrame DEF Once
<1> QED BY <1>1, <1>2, RowsFrame DEF Once

(* Nothing is being decided for the task and nothing was denied. *)
Free(t) ==
  /\ tasks[t].approval = NoText \/ tasks[t].approval \in tasks[t].approved
  /\ \A g \in Gates : records[t][g] # "DENIED"
  /\ \A q \in Threads : thr[q].task = t => thr[q].pc \notin Judging

LEMMA FreeLemma ==
  ASSUME Locked, Once, NEW t \in DOMAIN tasks,
         \/ tasks[t].state \notin Terminal \cup {"AWAITING_APPROVAL"}
         \/ \E p \in Threads : thr[p].pc \in Asking /\ thr[p].task = t
  PROVE  Free(t)
<1>1. t \in TaskIds /\ Standing(t) /\ Ruled(t)
  BY DEF Once, Locked, Typed
<1>2. CASE tasks[t].state \notin Terminal \cup {"AWAITING_APPROVAL"}
  BY <1>1, <1>2 DEF Free, Standing, Ruled, Once, Judged, Terminal
<1>3. ASSUME NEW p \in Threads, thr[p].pc \in Asking, thr[p].task = t PROVE Free(t)
  <2>1. /\ tasks[t].state = "AWAITING_APPROVAL" /\ thr[p].pos = Pos(t)
        /\ tasks[t].approval # Stage(p)
    BY <1>3 DEF Once, Judged, Locked, Bound, Asking
  <2>2. \A g : ~ParkedOn(t, g)
    BY <1>3, <2>1 DEF ParkedOn, Stage
  <2>3. "AWAITING_APPROVAL" \notin Terminal /\ "PARTIAL" # "AWAITING_APPROVAL"
    BY DEF Terminal
  <2>4. \A q \in Threads : thr[q].task = t => thr[q].pc \notin Judging
    BY <2>2 DEF Once, Judged
  <2> QED BY <1>1, <2>1, <2>2, <2>3, <2>4 DEF Free, Standing, Ruled
<1> QED BY <1>2, <1>3

(* Who has the lock is alone at a task that is free. *)
LEMMA HeldAlone ==
  ASSUME Locked, NEW p \in Threads, thr[p].round > 0, NEW t, Free(t)
  PROVE  \A q \in Threads : q # p /\ thr[q].task = t =>
                              thr[q].pc \notin Walking \cup Asking \cup Judging
BY DEF Locked, Bound, Holding, Free

(* A change of state of a task that is free. *)
LEMMA FreeRow ==
  ASSUME Locked, Once, NEW t \in DOMAIN tasks, Free(t), Others(t),
         tasks'[t].playbook = tasks[t].playbook, Columns(t), SameVerdicts, Clicked,
         "work_order" \in made'[t] => "work_order" \in made[t]
  PROVE  Standing(t)' /\ Gated(t)' /\ Ruled(t)'
<1>1. t \in TaskIds /\ Standing(t) /\ Gated(t) /\ Ruled(t)
  BY DEF Once, Locked, Typed
<1> QED BY <1>1, RowFrame, RuledFrame DEF Free, Others

(* A row that stays as it is. *)
LEMMA SameRowLemma ==
  ASSUME Locked, Once, NEW t \in DOMAIN tasks, Others(t), SameRow(t), SameVerdicts, Clicked,
         "work_order" \in made'[t] => "work_order" \in made[t]
  PROVE  Standing(t)' /\ Gated(t)' /\ Ruled(t)'
<1>1. t \in TaskIds /\ Standing(t) /\ Gated(t) /\ Ruled(t)
  BY DEF Once, Locked, Typed
<1> QED BY <1>1, RowFrame, RuledFrame DEF SameRow, Others

LEMMA QuietLemma ==
  ASSUME UNCHANGED <<records, made, budget>>
  PROVE  /\ SameVerdicts /\ Clicked /\ \A t : NoOrder(t)
         /\ \A u \in TaskIds : made'[u] = made[u]
BY DEF SameVerdicts, Clicked, NoOrder

(* A thread moves, and writes nothing but a state of a task that is free.  *)
LEMMA HeldState ==
  ASSUME Locked, Once, NEW p \in Threads, thr[p].pc \in Holding,
         UNCHANGED <<records, made, budget>>, Elsewhere(p),
         thr'[p].pc \notin Judging \cup {"validate"}, Judged(p)',
         \/ UNCHANGED tasks
         \/ Free(thr[p].task) /\ \E s : Put(thr[p].task, s)
  PROVE  Once'
<1>1. thr[p].task \in DOMAIN tasks /\ thr[p].round > 0
  BY RowLemma DEF Holding, Walking, Asking, Acting, Locked, Bound
<1>2. CASE UNCHANGED tasks
  <2>1. Others(thr[p].task) /\ SameRow(thr[p].task)
    BY <1>2 DEF Others, SameRow, Columns
  <2> QED BY <1>1, <2>1, SameRowLemma, StepFrame, QuietLemma
<1>3. ASSUME Free(thr[p].task), NEW s, Put(thr[p].task, s) PROVE Once'
  <2>1. /\ Others(thr[p].task) /\ Columns(thr[p].task)
        /\ tasks'[thr[p].task].playbook = tasks[thr[p].task].playbook
    BY <1>3 DEF Put, Kept
  <2> QED BY <1>1, <1>3, <2>1, FreeRow, HeldAlone, StepFrame, QuietLemma
<1> QED BY <1>2, <1>3

(* A thread that only moves. *)
LEMMA OnceSilent ==
  ASSUME Locked, Once, NEW p \in Threads, Silent, Elsewhere(p), Judged(p)',
         thr'[p].pc \in Judging \cup {"validate"} =>
           /\ thr[p].pc \in Judging \cup {"validate"}
           /\ thr'[p].task = thr[p].task /\ thr'[p].card = thr[p].card
  PROVE  Once'
<1>1. ASSUME NEW q \in Threads, q # p PROVE Judged(q)'
  BY <1>1, QuietLemma, JudgedFrame DEF Once, Elsewhere, Silent, Columns
<1>2. \A q, r \in Threads : Apart(q, r)'
  BY ApartFrame DEF Once
<1>3. ASSUME NEW u \in DOMAIN tasks PROVE Standing(u)' /\ Gated(u)'
  BY <1>3, QuietLemma, RowFrame DEF Once, Silent, Columns
<1>4. ASSUME NEW u \in TaskIds PROVE Ruled(u)'
  BY <1>4, QuietLemma, RuledFrame DEF Once, Silent, Columns
<1> QED BY <1>1, <1>2, <1>3, <1>4 DEF Once, Silent, Unmade

(* Inside advance the task is free. *)
LEMMA WalkingFree ==
  ASSUME Locked, Once, NEW p \in Threads, thr[p].pc \in Walking \cup Asking
  PROVE  Free(thr[p].task) /\ thr[p].task \in DOMAIN tasks /\ thr[p].pc \in Holding
<1>1. thr[p].task \in DOMAIN tasks /\ thr[p].pc \in Holding
  BY RowLemma DEF Walking, Asking, Acting, Holding
<1> QED BY <1>1, FreeLemma DEF Locked, Bound

LEMMA OnceLoose ==
  ASSUME Locked, Once, NEW p \in Threads, Acquire(p) \/ Snap(p) \/ Check(p) \/ Release(p)
  PROVE  Once'
<1>1. /\ Silent /\ Elsewhere(p)
      /\ thr'[p].pc \in {"idle", "acquire", "release", "snap", "enter"}
  BY SilentEffect DEF Acquire, Snap, Check, Release, At
<1> QED BY <1>1, LooseJudged, OnceSilent DEF Judging

LEMMA OnceEnter ==
  ASSUME Locked, Once, NEW p \in Threads, Enter(p)
  PROVE  Once'
<1> DEFINE t == thr[p].task
<1>1. /\ UNCHANGED <<records, made, budget>> /\ Elsewhere(p) /\ thr[p].pc \in Holding
      /\ t \in DOMAIN tasks
  BY EnterEffect DEF At, Holding
<1>2. CASE Moved(p, "release") /\ UNCHANGED tasks
  BY <1>1, <1>2, LooseJudged, HeldState DEF Moved, Judging
<1>3. CASE /\ thr'[p].pc = "stage" /\ thr'[p].task = t /\ thr'[p].approved = tasks[t].approved
           /\ tasks[t].state \notin Terminal \cup {"AWAITING_APPROVAL"}
           /\ UNCHANGED tasks \/ Put(t, "PLANNING")
  <2>1. Free(t)
    BY <1>1, <1>3, FreeLemma
  <2>2. tasks'[t].approved = tasks[t].approved
    BY <1>3 DEF Put, Columns
  <2>3. Judged(p)'
    BY <1>3, <2>2 DEF Judged, Asking, Judging
  <2> QED BY <1>1, <1>3, <2>1, <2>3, HeldState DEF Judging
<1> QED BY <1>2, <1>3, EnterEffect

(* The steps of advance that move the task by a transition. *)
LEMMA OnceTransitions ==
  ASSUME Locked, Once, NEW p \in Threads, PlanDone(p) \/ Replan(p) \/ Finish(p) \/ Park(p)
  PROVE  Once'
<1> DEFINE t == thr[p].task
<1>1. /\ UNCHANGED <<records, made, budget>> /\ thr[p].pc \in Walking
  BY PlanEffect, ReplanEffect, FinishEffect, ParkEffect DEF At, Walking
<1>2. Free(t) /\ t \in DOMAIN tasks /\ thr[p].pc \in Holding
  BY <1>1, WalkingFree
<1>3. CASE Replan(p) \/ Finish(p)
  <2>1. /\ Elsewhere(p) /\ thr'[p].pc \in {"check", "release"}
        /\ UNCHANGED tasks \/ \E s : Put(t, s)
    BY <1>3, ReplanEffect, FinishEffect DEF Moved
  <2> QED BY <1>1, <1>2, <2>1, LooseJudged, HeldState DEF Judging
<1>4. CASE PlanDone(p)
  <2>1. CASE Moved(p, "stage") /\ Put(t, "COORDINATING")
    <3>1. thr'[p].approved = tasks'[thr'[p].task].approved /\ thr'[p].pc = "stage"
      BY <1>1, <2>1 DEF Moved, Put, Columns, Once, Judged
    <3>2. Judged(p)'
      BY <3>1 DEF Judged, Asking, Judging
    <3> QED BY <1>1, <1>2, <2>1, <3>2, HeldState, SMTT(30) DEF Judging, Moved
  <2>2. CASE Moved(p, "release") /\ UNCHANGED tasks
    BY <1>1, <1>2, <2>2, LooseJudged, HeldState DEF Judging, Moved
  <2> QED BY <1>4, <2>1, <2>2, PlanEffect
<1>5. CASE Park(p)
  <2>1. CASE Moved(p, "request") /\ Put(t, "AWAITING_APPROVAL")
    <3>1. /\ thr'[p].pc = "request" /\ thr'[p].task = t /\ tasks'[t].state = "AWAITING_APPROVAL"
          /\ tasks'[t].approval = tasks[t].approval /\ Stage(p)' = Stage(p)
      BY <2>1 DEF Moved, Put, Columns, Kept, Stage, Stages
    <3>2. tasks[t].approval # Stage(p)
      <4>1. Stage(p) \in GatesOf(Row(p).playbook) \ tasks[t].approved
        BY <1>1, <1>5, ParkEffect DEF MustAsk, Once, Judged
      <4>2. Stage(p) \in StageMenu
        BY <1>1, <4>1, RowLemma DEF Walkable, Walking, Acting
      <4>3. NoText \notin StageMenu
        BY Zenon DEF NoText, StageMenu
      <4> QED BY <1>2, <4>1, <4>2, <4>3 DEF Free
    <3>3. Judged(p)'
      BY <3>1, <3>2 DEF Judged, Walking, Acting, Judging
    <3> QED BY <1>1, <1>2, <2>1, <3>1, <3>3, HeldState DEF Judging, Moved
  <2>2. CASE Moved(p, "release") /\ UNCHANGED tasks
    BY <1>1, <1>2, <2>2, LooseJudged, HeldState DEF Judging, Moved
  <2> QED BY <1>5, <2>1, <2>2, ParkEffect
<1> QED BY <1>3, <1>4, <1>5

LEMMA OnceExecute ==
  ASSUME Locked, Once, NEW p \in Threads, Execute(p)
  PROVE  Once'
<1> DEFINE t == thr[p].task
<1>1. /\ UNCHANGED <<tasks, records>> /\ At(p, "stage") /\ Moved(p, "cursor") /\ ~MustAsk(p)
      /\ Clicked /\ SameVerdicts
      /\ \A u \in TaskIds : made'[u] \in {made[u], made[u] \cup {"report"}}
  BY ExecuteEffect, ClickedLemma DEF SameVerdicts
<1>2. Free(t) /\ t \in DOMAIN tasks /\ thr[p].pc \in Holding /\ t \in TaskIds
  BY <1>1, WalkingFree, RowLemma DEF At, Walking
<1>3. NoOrder(t) /\ ("work_order" \in made'[t] => "work_order" \in made[t])
  BY <1>1, <1>2 DEF NoOrder
<1>4. \A u \in TaskIds \ DOMAIN tasks : made'[u] = made[u]
  BY <1>2 DEF Execute, Locked, Typed
<1>5. Others(t) /\ SameRow(t)
  BY <1>1 DEF Others, SameRow, Columns
<1>6. Judged(p)'
  <2>1. /\ thr[p].approved = tasks[t].approved /\ Standing(t)
        /\ GatesOf(tasks[t].playbook) \subseteq Gates
    BY <1>1, <1>2, RowLemma DEF Once, Judged, At, Walking, Rows, Row, Gates
  <2>2. /\ thr'[p].pc = "cursor" /\ thr'[p].task = t /\ thr'[p].approved = thr[p].approved
        /\ Stage(p)' = Stage(p)
    BY <1>1 DEF Moved, Stage, Stages
  <2>3. Stage(p) \in GatesOf(tasks[t].playbook) => records[t][Stage(p)] = "APPROVED"
    BY <1>1, <2>1 DEF MustAsk, Standing, Row
  <2> QED BY <1>1, <2>1, <2>2, <2>3 DEF Judged, Asking, Judging
<1> QED BY <1>1, <1>2, <1>3, <1>4, <1>5, <1>6, SameRowLemma, StepFrame DEF Moved, Judging

LEMMA OnceAdvance ==
  ASSUME Locked, Once, NEW p \in Threads, SetCursor(p)
  PROVE  Once'
<1> DEFINE t == thr[p].task
           n == thr[p].pos
<1>1. /\ UNCHANGED <<records, made, budget>> /\ At(p, "cursor") /\ t \in DOMAIN tasks
      /\ Others(t) /\ Kept(t) /\ tasks'[t].state = tasks[t].state
      /\ tasks'[t].approval = tasks[t].approval /\ tasks'[t].approved = tasks[t].approved
      /\ tasks'[t].cursor = n + 1 /\ Pos(t) = n
      /\ n \in 1..Len(Stages(t)) /\ Walkable(tasks[t].playbook)
      /\ Elsewhere(p) /\ thr'[p].task = t /\ thr'[p].approved = thr[p].approved
      /\ thr'[p].pc \in {"save", "stage", "work_order"}
  BY SetCursorEffect, SMTT(30)
<1>2. Free(t) /\ thr[p].pc \in Holding /\ t \in TaskIds /\ thr[p].round > 0
  BY <1>1, WalkingFree, RowLemma DEF At, Walking, Locked, Bound
<1>3. Standing(t)'
  BY <1>1, <1>2 DEF Once, Standing, Free
<1>4. Ruled(t)'
  BY <1>1, <1>2 DEF Once, Ruled, Free
<1>5. Gated(t)'
  <2>1. ASSUME NEW g \in GatesOf(tasks[t].playbook),
               n + 1 > StageIndex(tasks[t].playbook, g) \/ (g = "act" /\ "work_order" \in made[t])
        PROVE  records[t][g] = "APPROVED"
    <3> DEFINE k == StageIndex(tasks[t].playbook, g)
    <3>1. k \in 1..Len(Stages(t)) /\ Stages(t)[k] = g
      BY <1>1 DEF Walkable, Stages
    <3>2. CASE n > k \/ (g = "act" /\ "work_order" \in made[t])
      BY <1>1, <3>2, SMTT(30) DEF Once, Gated
    <3>3. CASE n = k
      BY <1>1, <3>1, <3>3 DEF Once, Judged, Stage, At
    <3>4. n > k \/ n = k \/ (g = "act" /\ "work_order" \in made[t])
      <4> HIDE DEF k, n
      <4>1. k \in Nat /\ n \in Nat
        BY <1>1, <3>1, BookFacts DEF Stages
      <4> QED BY <2>1, <4>1, SMTT(30) DEF k
    <3> QED BY <3>2, <3>3, <3>4, SMTT(30)
  <2>2. Pos(t)' = n + 1
    <3>1. n + 1 # 0
      BY <1>1
    <3> QED BY <1>1, <3>1 DEF Pos
  <2> QED BY <1>1, <2>1, <2>2 DEF Gated, Kept
<1>6. Judged(p)'
  <2>1. thr[p].approved = tasks[t].approved
    BY <1>1 DEF Once, Judged, At, Walking
  <2> QED BY <1>1, <2>1, SMTT(30) DEF Judged, Asking, Judging
<1>7. \A q \in Threads : q # p /\ thr[q].task = t =>
                           thr[q].pc \notin Walking \cup Asking \cup Judging
  BY <1>2, HeldAlone
<1> QED BY <1>1, <1>3, <1>4, <1>5, <1>6, <1>7, QuietLemma, StepFrame DEF Judging

LEMMA OnceSave ==
  ASSUME Locked, Once, NEW p \in Threads, SaveEvidence(p)
  PROVE  Once'
<1> DEFINE t == thr[p].task
<1>1. /\ UNCHANGED <<records, made, budget>> /\ At(p, "save") /\ Moved(p, "stage")
      /\ t \in DOMAIN tasks /\ Others(t) /\ Kept(t)
      /\ tasks'[t].approved = thr[p].approved /\ tasks'[t].state = tasks[t].state
      /\ tasks'[t].cursor = tasks[t].cursor /\ tasks'[t].approval = tasks[t].approval
  BY SaveEffect
<1>2. thr[p].approved = tasks[t].approved
  BY <1>1 DEF Once, Judged, At, Walking
<1>3. SameRow(t)
  BY <1>1, <1>2 DEF SameRow, Columns, Kept
<1>4. Judged(p)'
  BY <1>1 DEF Judged, Asking, Judging, Moved
<1> QED BY <1>1, <1>3, <1>4, SameRowLemma, QuietLemma, StepFrame DEF Moved, Judging

LEMMA OnceAct ==
  ASSUME Locked, Once, NEW p \in Threads, ApplyAction(p)
  PROVE  Once'
<1> DEFINE t == thr[p].task
<1>1. /\ UNCHANGED <<tasks, records>> /\ SameClicks /\ t \in DOMAIN tasks /\ t \in TaskIds
      /\ thr[p].pc \in Acting
      /\ \A u \in TaskIds : u # t => made'[u] = made[u]
      /\ \E pc \in {"act_failed", "record", "notify", "stage"} : Moved(p, pc)
  BY ActEffect DEF Acting
<1>0. thr'[p].task = t
  BY <1>1 DEF Moved
<1>2. SameVerdicts /\ Clicked /\ NoOrder(t) /\ Others(t) /\ SameRow(t)
  BY <1>1, ClickedLemma DEF SameVerdicts, NoOrder, Others, SameRow, Columns
<1>3. Standing(t)' /\ Ruled(t)'
  <2>1. Standing(t) /\ Ruled(t)
    BY <1>1 DEF Once
  <2>2. Standing(t)'
    BY <1>0, <1>1, <2>1 DEF Standing, ParkedOn, Pos, Stages
  <2> QED BY <1>0, <1>1, <1>2, <2>1, <2>2, RuledFrame DEF SameRow
<1>4. Gated(t)'
  <2>1. Pos(t) = ActAt(t) + 1 /\ Walkable(tasks[t].playbook) /\ thr[p].pc # "idle"
    BY <1>1, RowLemma DEF Locked, Bound, Acting, Row
  <2>2. Pos(t) > StageIndex(tasks[t].playbook, "act")
    <3> DEFINE k == StageIndex(tasks[t].playbook, "act")
    <3>1. k \in Nat /\ Pos(t) = k + 1
      <4>1. k \in 1..Len(StagesOf(tasks[t].playbook)) /\ Pos(t) = k + 1
        BY <2>1 DEF ActAt, Walkable
      <4> QED BY <4>1, SMTT(30)
    <3> HIDE DEF k
    <3>2. k + 1 > k
      BY <3>1
    <3> QED BY <3>1, <3>2 DEF k
  <2>3. ASSUME NEW g \in GatesOf(tasks[t].playbook),
               Pos(t) > StageIndex(tasks[t].playbook, g) \/ g = "act"
        PROVE  records[t][g] = "APPROVED"
    BY <1>1, <2>2, <2>3 DEF Once, Gated
  <2> QED BY <1>0, <1>1, <2>3 DEF Gated, Pos
<1>5. Judged(p)'
  <2>1. thr[p].approved = tasks[t].approved
    BY <1>1 DEF Once, Judged, Walking
  <2> QED BY <1>1, <2>1 DEF Judged, Asking, Judging, Moved
<1>6. thr'[p].pc \notin Judging \cup {"validate"} /\ Elsewhere(p)
  BY <1>1 DEF Moved, Judging
<1>7. \A u \in TaskIds \ DOMAIN tasks : made'[u] = made[u]
  BY <1>1
<1> QED BY <1>0, <1>1, <1>2, <1>3, <1>4, <1>5, <1>6, <1>7, StepFrame

LEMMA OnceGiveUp ==
  ASSUME Locked, Once, NEW p \in Threads, GiveUpOrRetry(p)
  PROVE  Once'
<1> DEFINE t == thr[p].task
<1>1. /\ UNCHANGED <<records, made, budget>> /\ At(p, "act_failed") /\ t \in DOMAIN tasks
  BY GiveUpEffect
<1>2. Free(t) /\ thr[p].pc \in Holding
  BY <1>1, WalkingFree DEF At, Walking, Acting
<1>3. CASE Moved(p, "release") /\ Put(t, "PARTIAL")
  BY <1>1, <1>2, <1>3, LooseJudged, HeldState DEF Moved, Judging
<1>4. CASE /\ Moved(p, "back") /\ Others(t) /\ Columns(t)
           /\ tasks'[t].state = tasks[t].state /\ tasks'[t].playbook = tasks[t].playbook
  <2>1. SameRow(t)
    BY <1>4, SMTT(30) DEF SameRow
  <2>2. thr'[p].approved = tasks'[t].approved
    BY <1>1, <1>4 DEF Once, Judged, At, Walking, Acting, Moved, Columns
  <2>3. Judged(p)'
    BY <1>4, <2>2 DEF Judged, Asking, Judging, Moved
  <2> QED BY <1>1, <1>4, <2>1, <2>3, SameRowLemma, QuietLemma, StepFrame DEF Moved, Judging
<1> QED BY <1>3, <1>4, GiveUpEffect

LEMMA OnceGoBack ==
  ASSUME Locked, Once, NEW p \in Threads, GoBack(p)
  PROVE  Once'
<1> DEFINE t == thr[p].task
<1>1. /\ UNCHANGED <<records, made, budget>> /\ At(p, "back") /\ Moved(p, "replan")
      /\ t \in DOMAIN tasks /\ Walkable(tasks[t].playbook)
      /\ Others(t) /\ Kept(t) /\ tasks'[t].state = tasks[t].state
      /\ tasks'[t].approval = tasks[t].approval /\ tasks'[t].approved = tasks[t].approved
      /\ tasks'[t].cursor \in 1..(ActAt(t) - 1) /\ ActAt(t) \in 1..7
  BY GoBackEffect
<1>0. thr'[p].task = t
  BY <1>1, SMTT(30) DEF Moved
<1>2. Free(t) /\ thr[p].pc \in Holding /\ t \in TaskIds /\ thr[p].round > 0
  BY <1>1, WalkingFree, RowLemma DEF At, Walking, Acting, Locked, Bound
<1>3. Standing(t)'
  BY <1>0, <1>1, <1>2 DEF Once, Standing, Free
<1>4. Ruled(t)'
  BY <1>0, <1>1, <1>2 DEF Once, Ruled, Free
<1>5. Gated(t)'
  <2>1. Pos(t) = ActAt(t) + 1
    BY <1>1 DEF Locked, Bound, At, Acting
  <2>2. Pos(t)' = tasks'[t].cursor
    BY <1>0, <1>1 DEF Pos
  <2>3. ASSUME NEW g \in GatesOf(tasks[t].playbook),
               Pos(t)' > StageIndex(tasks[t].playbook, g)
        PROVE  Pos(t) > StageIndex(tasks[t].playbook, g)
    <3> DEFINE k == StageIndex(tasks[t].playbook, g)
               a == ActAt(t)
               c == tasks'[t].cursor
    <3>1. k \in 1..7
      <4> DEFINE len == Len(StagesOf(tasks[t].playbook))
      <4>1. k \in 1..len /\ len \in 1..7
        <5>1. Walkable(tasks[t].playbook)
          BY <1>1
        <5> QED BY <5>1, BookFacts, Zenon
      <4> HIDE DEF k, len
      <4> QED BY <4>1
    <3>2. c \in 1..(a - 1) /\ a \in 1..7 /\ c > k
      BY <1>1, <2>2, <2>3
    <3> HIDE DEF k, a, c
    <3>3. a + 1 > k
      BY <3>1, <3>2
    <3> QED BY <2>1, <3>3, SMTT(30) DEF a, k
  <2> QED BY <1>0, <1>1, <2>3 DEF Gated, Once, Kept
<1>6. Judged(p)'
  <2>1. thr[p].approved = tasks[t].approved
    BY <1>1 DEF Once, Judged, At, Walking, Acting
  <2> QED BY <1>1, <2>1, SMTT(30) DEF Judged, Asking, Judging, Moved
<1>7. \A q \in Threads : q # p /\ thr[q].task = t =>
                           thr[q].pc \notin Walking \cup Asking \cup Judging
  BY <1>2, HeldAlone
<1> QED BY <1>0, <1>1, <1>3, <1>4, <1>5, <1>6, <1>7, QuietLemma, StepFrame DEF Judging, Moved

LEMMA OnceDrive == \A p \in Threads : Locked /\ Once /\ Drive(p) => Once'
BY OnceLoose, OnceEnter, OnceTransitions, OnceExecute, OnceAdvance, OnceSave, OnceAct,
   OnceGiveUp, OnceGoBack DEF Drive

LEMMA OnceRequest == \A p \in Threads : Locked /\ Once /\ Request(p) => Once'
<1> SUFFICES ASSUME Locked, Once, NEW p \in Threads, Request(p) PROVE Once'
  OBVIOUS
<1> DEFINE t == thr[p].task
<1>1. CASE Park(p)
  BY <1>1, OnceTransitions
<1>2. CASE CreateRequest(p)
  <2>1. /\ UNCHANGED <<tasks, made>> /\ Clicked /\ At(p, "request") /\ SameVerdicts
        /\ Moved(p, "publish") \/ Moved(p, "no_request")
    BY <1>2, CreateRequestEffect, ClickedLemma
  <2>2. t \in DOMAIN tasks /\ thr'[p].task = t
    BY <2>1, WalkingFree DEF At, Asking, Moved
  <2>3. Others(t) /\ SameRow(t) /\ NoOrder(t)
    BY <2>1, <2>2 DEF Others, SameRow, Columns, NoOrder
  <2>4. Stage(p)' = Stage(p) /\ thr'[p].pc \in {"publish", "no_request"} /\ Elsewhere(p)
    BY <2>1 DEF Stage, Stages, Moved
  <2>5. tasks[t].state = "AWAITING_APPROVAL" /\ tasks[t].approval # Stage(p)
    BY <2>1 DEF Once, Judged, At, Asking
  <2>6. Judged(p)'
    BY <2>1, <2>2, <2>4, <2>5 DEF Judged, Walking, Acting, Judging
  <2>7. thr'[p].pc \notin Judging \cup {"validate"}
    BY <2>4 DEF Judging
  <2>8. Standing(t)' /\ Gated(t)' /\ Ruled(t)'
    BY <2>1, <2>2, <2>3, SameRowLemma
  <2> QED BY <2>1, <2>2, <2>3, <2>4, <2>6, <2>7, <2>8, StepFrame
<1>3. CASE PublishRequest(p)
  <2>1. /\ UNCHANGED <<records, made, budget>> /\ At(p, "publish") /\ Moved(p, "check")
        /\ t \in DOMAIN tasks /\ Others(t) /\ Kept(t) /\ tasks'[t].state = tasks[t].state
        /\ tasks'[t].cursor = tasks[t].cursor /\ tasks'[t].approved = tasks[t].approved
        /\ tasks'[t].approval = Stage(p)
    BY <1>3, PublishEffect
  <2>2. Free(t) /\ thr[p].pc \in Holding /\ thr'[p].task = t
    BY <2>1, WalkingFree, SMTT(30) DEF At, Asking, Moved
  <2>3. /\ tasks[t].state = "AWAITING_APPROVAL" /\ thr[p].pos = Pos(t)
        /\ thr[p].pos \in DOMAIN Stages(t) /\ thr[p].round > 0
    BY <2>1, <2>2 DEF Once, Judged, Locked, Bound, At, Asking
  <2>4. ParkedOn(t, Stage(p))'
    <3>1. Pos(t)' = Pos(t) /\ Stages(t)' = Stages(t) /\ thr'[p].pos = thr[p].pos
      BY <2>1, <2>2 DEF Pos, Stages, Kept, Moved
    <3> QED BY <2>1, <2>2, <2>3, <3>1 DEF ParkedOn, Stage
  <2>5. Standing(t)'
    <3>1. tasks'[t].approval = Stage(p)'
      BY <2>1, <2>2, <2>4 DEF ParkedOn
    <3> QED BY <2>1, <2>2, <2>3, <2>4, <3>1 DEF Standing, Once
  <2>6. Ruled(t)'
    BY <2>1, <2>2 DEF Ruled, Once, Free, Locked, Typed
  <2>7. Gated(t)'
    BY <2>1, <2>2 DEF Gated, Once, Pos, Kept
  <2>8. \A q \in Threads : q # p /\ thr[q].task = t =>
                             thr[q].pc \notin Walking \cup Asking \cup Judging
    BY <2>2, <2>3, HeldAlone
  <2>9. Judged(p)' /\ Elsewhere(p) /\ thr'[p].pc \notin Judging \cup {"validate"}
    BY <2>1, LooseJudged DEF Moved, Judging
  <2> QED BY <2>1, <2>2, <2>5, <2>6, <2>7, <2>8, <2>9, QuietLemma, StepFrame
<1>4. CASE FailRequest(p)
  <2>1. /\ UNCHANGED <<records, made, budget>> /\ At(p, "no_request") /\ Moved(p, "release")
        /\ UNCHANGED tasks \/ Put(t, "FAILED")
    BY <1>4, FailEffect
  <2>2. Free(t) /\ thr[p].pc \in Holding
    BY <2>1, WalkingFree DEF At, Asking
  <2>3. Judged(p)' /\ Elsewhere(p) /\ thr'[p].pc \notin Judging \cup {"validate"}
    BY <2>1, LooseJudged DEF Moved, Judging
  <2> QED BY <2>1, <2>2, <2>3, HeldState
<1> QED BY <1>1, <1>2, <1>3, <1>4 DEF Request

(* Who judges a task is alone at it, but for what changes nothing. *)
LEMMA JudgeAlone ==
  ASSUME Locked, Once, NEW p \in Threads, thr[p].pc \in Judging
  PROVE  LET t == thr[p].task IN
    /\ t \in DOMAIN tasks /\ t \in TaskIds /\ thr[p].card \in Gates
    /\ tasks[t].state = "AWAITING_APPROVAL" /\ ParkedOn(t, thr[p].card)
    /\ \A h \in Gates : records[t][h] = "DENIED" => h = thr[p].card
    /\ \A q \in Threads : q # p /\ thr[q].task = t =>
                            thr[q].pc \notin Walking \cup Asking \cup Judging
<1> DEFINE t == thr[p].task
<1>1. /\ t \in DOMAIN tasks /\ t \in TaskIds /\ thr[p].card \in Gates
      /\ tasks[t].state = "AWAITING_APPROVAL" /\ ParkedOn(t, thr[p].card)
  BY RowLemma DEF Judging, Locked, Bound, Once, Judged
<1>2. \A h \in Gates : records[t][h] = "DENIED" => h = thr[p].card
  BY <1>1 DEF Once, Ruled, ParkedOn
<1>3. ASSUME NEW q \in Threads, q # p, thr[q].task = t
      PROVE  thr[q].pc \notin Walking \cup Asking \cup Judging
  <2>1. thr[q].pc \notin Walking
    BY <1>1, <1>3 DEF Locked, Bound
  <2>2. thr[q].pc \notin Asking
    BY <1>1, <1>3, WalkingFree DEF Free
  <2>3. thr[q].pc \notin Judging
    BY <1>1, <1>3 DEF Once, Judged, Apart, ParkedOn
  <2> QED BY <2>1, <2>2, <2>3
<1> QED BY <1>1, <1>2, <1>3

(* The verdict is written to the record. *)
LEMMA OnceUpdate ==
  ASSUME Locked, Once, NEW p \in Threads, UpdateStatus(p)
  PROVE  Once'
<1> DEFINE t == thr[p].task
           g == thr[p].card
<1>1. /\ UNCHANGED <<tasks, made, budget>> /\ At(p, "status") /\ Moved(p, "read_back")
      /\ t \in DOMAIN tasks /\ t \in TaskIds /\ g \in Gates /\ thr[p].verdict \in Decided
      /\ records'[t][g] = thr[p].verdict
      /\ \A u \in TaskIds, h \in Gates : u # t \/ h # g => records'[u][h] = records[u][h]
  BY UpdateEffect
<1>2. /\ records[t][g] \notin Decided /\ budget.clicks[t][g] > 0
      /\ tasks[t].state = "AWAITING_APPROVAL" /\ ParkedOn(t, g)
  BY <1>1 DEF Once, Judged, At, Judging
<1>3. \A u \in TaskIds, h \in Gates : records[u][h] = "APPROVED" => records'[u][h] = "APPROVED"
  BY <1>1, <1>2 DEF Decided
<1>4. ASSUME NEW u \in DOMAIN tasks PROVE Standing(u)' /\ Gated(u)'
  <2>1. u \in TaskIds /\ GatesOf(tasks[u].playbook) \subseteq Gates /\ Standing(u) /\ Gated(u)
    BY <1>4 DEF Locked, Typed, Rows, Gates, Once
  <2>2. Standing(u)'
    BY <1>1, <1>3, <2>1 DEF Standing, ParkedOn, Pos, Stages
  <2>3. Gated(u)'
    BY <1>1, <1>3, <2>1 DEF Gated, Pos
  <2> QED BY <2>2, <2>3
<1>5. ASSUME NEW u \in TaskIds PROVE Ruled(u)'
  <2>1. Ruled(u)
    BY DEF Once
  <2>2. CASE u # t
    BY <1>1, <2>1, <2>2 DEF Ruled, ParkedOn, Pos, Stages
  <2>3. CASE u = t
    <3>1. \A h : ParkedOn(u, h)' <=> ParkedOn(u, h)
      BY <1>1, SMTT(30) DEF ParkedOn, Pos, Stages
    <3> QED BY <1>1, <1>2, <2>1, <2>3, <3>1 DEF Ruled
  <2> QED BY <2>2, <2>3
<1>6. ASSUME NEW q \in Threads, q # p PROVE Judged(q)'
  <2>1. /\ Judged(q) /\ thr'[q] = thr[q]
        /\ thr[q].pc \in Judging \cup {"validate"} => thr[q].card \in Gates
        /\ thr[q].pc # "idle" => /\ thr[q].task \in TaskIds
                                 /\ GatesOf(tasks[thr[q].task].playbook) \subseteq Gates
    BY <1>1, <1>6, RowLemma DEF Once, Moved, Elsewhere, Locked, Bound, Rows, Gates, Row
  <2>2. thr[q].pc \in Judging \cup {"validate"} => thr[q].task # t \/ thr[q].card # g
    BY <1>1, <1>6 DEF Once, Apart, At, Judging
  <2>3. thr[q].pc \in Judging \cup {"validate"} =>
          records'[thr[q].task][thr[q].card] = records[thr[q].task][thr[q].card]
    BY <1>1, <2>1, <2>2 DEF Judging
  <2>4. Stage(q)' = Stage(q) /\ (\A u, h : ParkedOn(u, h)' <=> ParkedOn(u, h))
    BY <1>1, <2>1 DEF Stage, Stages, ParkedOn, Pos
  <2>5. thr[q].pc = "cursor" /\ Stage(q) \in GatesOf(tasks[thr[q].task].playbook)
          => records'[thr[q].task][Stage(q)] = "APPROVED"
    BY <1>3, <2>1 DEF Judged
  <2>6. thr[q].pc = "grant" =>
          \A h \in thr[q].approved : h \in Gates /\ records'[thr[q].task][h] = "APPROVED"
    BY <1>3, <2>1 DEF Judged
  <2> QED BY <1>1, <2>1, <2>3, <2>4, <2>5, <2>6, SMTT(30) DEF Judged, Judging
<1>7. Judged(p)'
  <2>1. ParkedOn(t, g)'
    BY <1>1, <1>2 DEF ParkedOn, Pos, Stages, Moved
  <2> QED BY <1>1, <1>2, <2>1 DEF Judged, Moved, Walking, Asking, Acting
<1>8. \A q, r \in Threads : Apart(q, r)'
  BY <1>1, ApartFrame DEF Once, Moved, At, Judging
<1> QED BY <1>1, <1>4, <1>5, <1>6, <1>7, <1>8 DEF Once, Unmade

LEMMA OnceGrant ==
  ASSUME Locked, Once, NEW p \in Threads, ReadRow(p) \/ SaveGrant(p)
  PROVE  Once'
<1> DEFINE t == thr[p].task
           g == thr[p].card
<1>1. CASE ReadRow(p)
  <2>1. /\ Silent /\ At(p, "read_row") /\ t \in DOMAIN tasks
        /\ Elsewhere(p) /\ thr'[p].pc = "grant" /\ thr'[p].task = t
        /\ thr'[p].card = g /\ thr'[p].verdict = thr[p].verdict
        /\ \A h : h \in thr'[p].approved <=>
                    \/ h \in tasks[t].approved
                    \/ Pos(t) \in DOMAIN Stages(t) /\ h = Stages(t)[Pos(t)]
    BY <1>1, ReadRowEffect, SMTT(30)
  <2>2. /\ tasks[t].state = "AWAITING_APPROVAL" /\ ParkedOn(t, g) /\ g \in Gates
        /\ records[t][g] = "APPROVED" /\ budget.clicks[t][g] > 0 /\ Standing(t)
    BY <2>1, JudgeAlone DEF Once, Judged, At, Judging
  <2>3. \A h : h \in thr'[p].approved <=> h \in tasks[t].approved \/ h = g
    BY <2>1, <2>2 DEF ParkedOn
  <2>4. ParkedOn(t, g)'
    BY <2>1, <2>2 DEF ParkedOn, Pos, Stages, Silent
  <2>5. \A h \in thr'[p].approved : h \in Gates /\ records[t][h] = "APPROVED"
    BY <2>2, <2>3 DEF Standing
  <2>6. Judged(p)'
    BY <2>1, <2>2, <2>3, <2>4, <2>5 DEF Judged, Silent, Walking, Asking, Acting
  <2> QED BY <2>1, <2>6, OnceSilent DEF At, Judging
<1>2. CASE SaveGrant(p)
  <2>1. /\ UNCHANGED <<records, made, budget>> /\ At(p, "grant") /\ Moved(p, "approve")
        /\ t \in DOMAIN tasks /\ Others(t) /\ Kept(t)
        /\ tasks'[t].approved = thr[p].approved /\ tasks'[t].state = tasks[t].state
        /\ tasks'[t].cursor = tasks[t].cursor /\ tasks'[t].approval = tasks[t].approval
    BY <1>2, SaveGrantEffect, SMTT(30)
  <2>2. /\ tasks[t].state = "AWAITING_APPROVAL" /\ ParkedOn(t, g) /\ g \in Gates
        /\ t \in TaskIds /\ records[t][g] = "APPROVED" /\ budget.clicks[t][g] > 0
        /\ g \in thr[p].approved /\ \A h \in Gates : records[t][h] = "DENIED" => h = g
        /\ \A h \in thr[p].approved : h \in Gates /\ records[t][h] = "APPROVED"
        /\ \A q \in Threads : q # p /\ thr[q].task = t =>
                                thr[q].pc \notin Walking \cup Asking \cup Judging
    BY <2>1, JudgeAlone DEF Once, Judged, At, Judging
  <2>3. thr'[p].pc = "approve" /\ thr'[p].task = t /\ thr'[p].card = g /\ Elsewhere(p)
    BY <2>1 DEF Moved
  <2>4. \A h : ParkedOn(t, h) => ParkedOn(t, h)'
    BY <2>1, <2>3 DEF ParkedOn, Pos, Stages, Kept
  <2>5. Standing(t)'
    BY <2>1, <2>2, <2>3 DEF Standing, ParkedOn
  <2>6. Gated(t)'
    BY <2>1, <2>3 DEF Once, Gated, Pos, Kept
  <2>7. Ruled(t)'
    <3>1. \A h \in Gates : records[t][h] # "DENIED"
      BY <2>2
    <3> QED BY <2>1, <2>2, <2>3, <3>1 DEF Once, Ruled
  <2>8. Judged(p)'
    BY <2>1, <2>2, <2>3, <2>4 DEF Judged, Walking, Asking, Acting
  <2> QED BY <2>1, <2>2, <2>3, <2>5, <2>6, <2>7, <2>8, QuietLemma, StepFrame DEF At, Judging
<1> QED BY <1>1, <1>2

(* The task leaves the gate. *)
LEMMA OnceVerdict ==
  ASSUME Locked, Once, NEW p \in Threads, Approve(p) \/ Deny(p)
  PROVE  Once'
<1> DEFINE t == thr[p].task
           g == thr[p].card
<1>1. /\ UNCHANGED <<records, made, budget>> /\ thr[p].pc \in Judging
      /\ \E pc \in {"granted", "release"} : Moved(p, pc)
      /\ \/ UNCHANGED tasks
         \/ At(p, "approve") /\ Put(t, "COORDINATING")
         \/ At(p, "deny") /\ Put(t, "PARTIAL")
  BY VerdictEffect DEF At, Judging
<1>2. /\ t \in DOMAIN tasks /\ t \in TaskIds /\ g \in Gates
      /\ tasks[t].state = "AWAITING_APPROVAL" /\ ParkedOn(t, g)
      /\ \A h \in Gates : records[t][h] = "DENIED" => h = g
      /\ \A q \in Threads : q # p /\ thr[q].task = t =>
                              thr[q].pc \notin Walking \cup Asking \cup Judging
  BY <1>1, JudgeAlone
<1>3. /\ Judged(p)' /\ Elsewhere(p) /\ thr'[p].pc \notin Judging \cup {"validate"}
      /\ thr'[p].task = t
  BY <1>1, LooseJudged DEF Moved, Judging
<1>4. CASE UNCHANGED tasks
  BY <1>1, <1>3, <1>4, OnceSilent DEF Silent
<1>5. ASSUME NEW s \in {"COORDINATING", "PARTIAL"}, Put(t, s),
             s = "COORDINATING" => At(p, "approve")
      PROVE  Once'
  <2>1. /\ Others(t) /\ Columns(t) /\ tasks'[t].playbook = tasks[t].playbook
        /\ tasks'[t].state = s /\ Kept(t)
    BY <1>5 DEF Put, Kept
  <2>2. Standing(t)'
    <3>1. \A h : ParkedOn(t, h) => ParkedOn(t, h)'
      BY <1>3, <2>1 DEF ParkedOn, Pos, Stages, Columns
    <3>2. s = "COORDINATING" => tasks[t].approval \in tasks[t].approved
      BY <1>2, <1>5 DEF Once, Judged, At, ParkedOn
    <3>3. "PARTIAL" \in Terminal
      BY DEF Terminal
    <3> QED BY <1>1, <1>2, <1>3, <1>5, <2>1, <3>1, <3>2, <3>3 DEF Once, Standing, Columns
  <2>3. Gated(t)'
    BY <1>1, <1>2, <1>3, <2>1 DEF Once, Gated, Pos, Columns
  <2>4. Ruled(t)'
    <3>1. s = "COORDINATING" => records[t][g] = "APPROVED"
      BY <1>5 DEF Once, Judged, At
    <3> QED BY <1>1, <1>2, <1>3, <1>5, <2>1, <3>1 DEF Once, Ruled, Others
  <2> QED BY <1>1, <1>2, <1>3, <2>1, <2>2, <2>3, <2>4, QuietLemma, StepFrame
<1> QED BY <1>1, <1>4, <1>5

LEMMA OnceApproval == \A p \in Threads : Locked /\ Once /\ HandleApproval(p) => Once'
<1> SUFFICES ASSUME Locked, Once, NEW p \in Threads, HandleApproval(p) PROVE Once'
  OBVIOUS
<1> DEFINE t == thr[p].task
           g == thr[p].card
<1>1. CASE Validate(p) \/ ReadBack(p) \/ PublishGrant(p)
  <2>1. Silent /\ Elsewhere(p)
    BY <1>1, SilentEffect
  <2>2. CASE thr'[p].pc \in {"idle", "acquire", "release", "snap", "enter"}
    BY <2>1, <2>2, LooseJudged, OnceSilent DEF Judging
  <2>3. CASE /\ At(p, "validate") /\ Moved(p, "status")
             /\ Row(p).state = "AWAITING_APPROVAL" /\ Row(p).approval = g
    <3>1. /\ t \in DOMAIN tasks /\ t \in TaskIds /\ g \in Gates /\ Standing(t)
          /\ budget.clicks[t][g] > 0 /\ records[t][g] \notin Decided
      BY <2>3, RowLemma DEF At, Locked, Bound, Once, Judged
    <3>2. g # NoText
      <4>1. Gates \subseteq StageMenu
        BY PlaybookLemma DEF Gates, Walkable
      <4>2. NoText \notin StageMenu
        BY Zenon DEF NoText, StageMenu
      <4> QED BY <3>1, <4>1, <4>2
    <3>3. ParkedOn(t, g)
      BY <2>3, <3>1, <3>2 DEF Standing, Row, Decided
    <3>4. ParkedOn(t, g)'
      BY <2>1, <2>3, <3>3 DEF ParkedOn, Pos, Stages, Silent, Moved
    <3>5. Judged(p)'
      BY <2>1, <2>3, <3>1, <3>4 DEF Judged, Moved, Silent, Walking, Asking, Acting, Row
    <3> QED BY <2>1, <2>3, <3>5, OnceSilent DEF Moved, At
  <2>4. CASE /\ At(p, "read_back") /\ records[t][g] = thr[p].verdict
             /\ \/ Moved(p, "read_row") /\ thr[p].verdict = "APPROVED"
                \/ Moved(p, "deny") /\ thr[p].verdict = "DENIED"
    <3>1. /\ tasks[t].state = "AWAITING_APPROVAL" /\ ParkedOn(t, g)
          /\ budget.clicks[t][g] > 0
      BY <2>4 DEF At, Once, Judged, Judging
    <3>2. thr'[p].task = t /\ thr'[p].card = g /\ thr'[p].pc \in {"read_row", "deny"}
      BY <2>4 DEF Moved
    <3>3. ParkedOn(t, g)'
      BY <2>1, <3>1, <3>2 DEF ParkedOn, Pos, Stages, Silent
    <3>4. Judged(p)'
      BY <2>1, <2>4, <3>1, <3>2, <3>3 DEF Judged, Moved, Silent, Walking, Asking, Acting
    <3> QED BY <2>1, <2>4, <3>2, <3>4, OnceSilent DEF At, Judging
  <2> QED BY <1>1, <2>2, <2>3, <2>4, SilentEffect
<1> QED BY <1>1, OnceUpdate, OnceGrant, OnceVerdict DEF HandleApproval

(* What comes in at the doors: a row as minted, or a priority raised. *)
Fresh(u) == /\ tasks'[u].playbook \in UsedPlaybooks /\ tasks'[u].state = "RECEIVED"
            /\ tasks'[u].cursor = 0 /\ tasks'[u].replans = 0
            /\ tasks'[u].approval = NoText /\ tasks'[u].approved = {}

Opened == /\ UNCHANGED <<records, made, thr, budget>>
          /\ DOMAIN tasks \subseteq DOMAIN tasks'
          /\ \A u \in DOMAIN tasks : SameRow(u) /\ Kept(u)
          /\ \A u \in DOMAIN tasks' \ DOMAIN tasks : Fresh(u)
          /\ \A u, w \in DOMAIN tasks' \ DOMAIN tasks : u = w

LEMMA MintedLemma ==
  ASSUME Locked, NEW t \in TaskIds \ DOMAIN tasks, NEW i, NEW pb \in UsedPlaybooks, NEW pr,
         tasks' = [u \in DOMAIN tasks \cup {t} |->
                     IF u = t THEN NewRow(i, pb, pr) ELSE tasks[u]],
         UNCHANGED <<records, made, thr, budget>>
  PROVE  Opened
<1>1. /\ DOMAIN tasks' = DOMAIN tasks \cup {t} /\ tasks'[t] = NewRow(i, pb, pr)
      /\ \A u \in DOMAIN tasks : tasks'[u] = tasks[u]
  OBVIOUS
<1> QED BY <1>1 DEF Opened, Fresh, NewRow, SameRow, Columns, Kept

LEMMA OpenedLemma ==
  /\ \A t \in TaskIds, pb \in UsedPlaybooks : Locked /\ Ingest(t, pb) => Opened
  /\ \A i \in Incidents, pb \in UsedPlaybooks, s \in Severities :
       Locked /\ SpawnFromIncident(i, pb, s) => Opened
<1>1. ASSUME NEW t \in TaskIds, NEW pb \in UsedPlaybooks, Locked, Ingest(t, pb)
      PROVE  Opened
  BY <1>1, MintedLemma DEF Ingest
<1>2. ASSUME NEW i \in Incidents, NEW pb \in UsedPlaybooks, NEW s \in Severities, Locked,
             SpawnFromIncident(i, pb, s)
      PROVE  Opened
  <2> DEFINE pr == SeverityPriority[s]
             Minted(t) == tasks' = [u \in DOMAIN tasks \cup {t} |->
                                      IF u = t THEN NewRow(i, pb, pr) ELSE tasks[u]]
             Raised(t) == tasks' = [tasks EXCEPT ![t].priority =
                                      IF Rank(pr) > Rank(@) THEN pr ELSE @]
  <2>1. PICK t \in TaskIds : \/ t \notin DOMAIN tasks /\ Minted(t)
                             \/ t \in DOMAIN tasks /\ Raised(t)
    BY <1>2 DEF SpawnFromIncident, LiveTasks, Locked, Typed
  <2>2. UNCHANGED <<records, made, thr, budget>>
    BY <1>2 DEF SpawnFromIncident
  <2>3. CASE t \notin DOMAIN tasks /\ Minted(t)
    BY <1>2, <2>2, <2>3, MintedLemma
  <2>4. CASE t \in DOMAIN tasks /\ Raised(t)
    <3>1. DOMAIN tasks' = DOMAIN tasks /\ \A u \in DOMAIN tasks : SameRow(u) /\ Kept(u)
      BY <1>2, <2>4 DEF Locked, Typed, Rows, SameRow, Columns, Kept
    <3> QED BY <2>2, <3>1 DEF Opened
  <2> QED BY <2>1, <2>3, <2>4
<1> QED BY <1>1, <1>2

LEMMA OnceOpened ==
  ASSUME Locked, Once, Opened, DOMAIN tasks' \subseteq TaskIds
  PROVE  Once'
<1>0. DOMAIN tasks \subseteq TaskIds
  BY DEF Locked, Typed
<1>1. ASSUME NEW q \in Threads PROVE Judged(q)'
  <2>1. thr[q].pc \in Walking \cup Asking \cup Judging => thr[q].task \in DOMAIN tasks
    BY RowLemma DEF Walking, Asking, Acting, Judging
  <2> QED BY <2>1, QuietLemma, JudgedFrame DEF Once, Opened, SameRow
<1>2. \A q, r \in Threads : Apart(q, r)'
  BY DEF Once, Opened, Apart
<1>3. ASSUME NEW u \in DOMAIN tasks PROVE Standing(u)' /\ Gated(u)'
  BY <1>3, QuietLemma, RowFrame DEF Once, Opened, SameRow
<1>4. ASSUME NEW u \in DOMAIN tasks' \ DOMAIN tasks PROVE Standing(u)' /\ Gated(u)'
  <2>1. Fresh(u) /\ made'[u] = {} /\ Walkable(tasks'[u].playbook)
    BY <1>4, PlaybookLemma DEF Opened, Once, Unmade, Fresh
  <2>2. \A g \in GatesOf(tasks'[u].playbook) : StageIndex(tasks'[u].playbook, g) >= 1
    BY <2>1 DEF Walkable
  <2>3. Pos(u)' = 1
    BY <2>1 DEF Pos, Fresh
  <2>4. \A g \in GatesOf(tasks'[u].playbook) : StageIndex(tasks'[u].playbook, g) \in Nat
    BY <2>1 DEF Walkable
  <2> QED BY <2>1, <2>2, <2>3, <2>4 DEF Standing, Gated, Fresh
<1>5. ASSUME NEW u \in TaskIds PROVE Ruled(u)'
  BY <1>5, QuietLemma, RuledFrame DEF Once, Opened, SameRow
<1> QED BY <1>0, <1>1, <1>2, <1>3, <1>4, <1>5 DEF Once, Unmade, Opened

(* A clarification is asked for, or answered, before anything is decided.  *)
ClarifyEffect(t) ==
  /\ t \in DOMAIN tasks /\ UNCHANGED <<records, made, thr>> /\ SameClicks
  /\ tasks[t].state \notin Terminal \cup {"AWAITING_APPROVAL"}
  /\ \E s \in {"AWAITING_CLARIFICATION", "RECEIVED"} : Put(t, s)

LEMMA ClarifyLemma ==
  ASSUME Locked, NEW t \in TaskIds, RequestClarification(t) \/ ClarificationReply(t)
  PROVE  ClarifyEffect(t)
<1>1. CASE RequestClarification(t)
  <2>1. "AWAITING_CLARIFICATION" \in States
    BY DEF States, Active
  <2>2. SameClicks
    BY <1>1 DEF RequestClarification, SameClicks, Locked, Typed, Budgets
  <2>3. tasks[t].state \notin Terminal \cup {"AWAITING_APPROVAL"}
    BY <1>1 DEF RequestClarification, Terminal
  <2> QED BY <1>1, <2>1, <2>2, <2>3, PutLemma DEF RequestClarification, ClarifyEffect
<1>2. CASE ClarificationReply(t)
  <2>1. "RECEIVED" \in States
    BY DEF States, Active
  <2>2. tasks[t].state = "AWAITING_CLARIFICATION" /\ SetRow(t, "state", "RECEIVED")
    BY <1>2, OutcomeLemma DEF ClarificationReply
  <2>3. tasks[t].state \notin Terminal \cup {"AWAITING_APPROVAL"}
    BY <2>2 DEF Terminal
  <2> QED BY <1>2, <2>1, <2>2, <2>3, PutLemma DEF ClarificationReply, ClarifyEffect, SameClicks
<1> QED BY <1>1, <1>2

LEMMA OnceClarify ==
  ASSUME Locked, Once, NEW t \in TaskIds, ClarifyEffect(t)
  PROVE  Once'
<1>1. /\ t \in DOMAIN tasks /\ Others(t) /\ Columns(t) /\ UNCHANGED <<made, thr>>
      /\ tasks'[t].playbook = tasks[t].playbook /\ SameVerdicts /\ Clicked
  BY ClickedLemma DEF ClarifyEffect, Put, Kept, SameVerdicts
<1>2. Free(t)
  BY FreeLemma DEF ClarifyEffect
<1>3. \A q \in Threads : thr[q].task = t => thr[q].pc \notin Asking \cup Judging
  BY <1>2 DEF Free, Once, Judged, ClarifyEffect
<1>4. ASSUME NEW q \in Threads PROVE Judged(q)'
  <2>1. thr[q].pc \in Walking \cup Asking \cup Judging => thr[q].task \in DOMAIN tasks
    BY RowLemma DEF Walking, Asking, Acting, Judging
  <2> QED BY <1>1, <1>3, <2>1, JudgedFrame DEF Once, Others, Columns
<1>5. \A q, r \in Threads : Apart(q, r)'
  BY <1>1 DEF Once, Apart
<1>6. NoOrder(t)
  BY <1>1 DEF NoOrder
<1> QED BY <1>1, <1>2, <1>4, <1>5, <1>6, FreeRow, RowsFrame DEF Once

(* One decision for a card: nobody is applying another to it, and the      *)
(* request it cites has not been decided.                                  *)
LEMMA OnceDecide ==
  ASSUME MaxClicks <= 1, Locked, Once, NEW p \in Threads, NEW t \in TaskIds,
         NEW v \in Verdicts, Decide(p, t, v)
  PROVE  Once'
<1> DEFINE g == dash[t].card
           n == budget.clicks[t][g] + 1
<1>1. g \in Gates /\ Typed /\ thr[p] \in Locals
  BY DEF Locked, Typed, Decide, Shown, Cards
<1>2. /\ At(p, "idle") /\ UNCHANGED <<tasks, records, made>> /\ Elsewhere(p)
      /\ thr'[p].pc = "validate" /\ thr'[p].task = t /\ thr'[p].card = g
  BY <1>1 DEF Decide, Elsewhere, Typed, Locals, persistent
<1>3. budget.clicks[t][g] = 0
  <2>1. budget.clicks[t][g] \in Nat /\ budget.clicks[t][g] < MaxClicks /\ MaxClicks \in Nat
    BY <1>1, BoundsAssumption DEF Decide, Typed, Budgets
  <2> QED BY <2>1
<1>4. /\ budget'.clicks[t][g] > 0
      /\ \A u \in TaskIds, h \in Gates : u # t \/ h # g =>
           budget'.clicks[u][h] = budget.clicks[u][h]
  <2>1. budget' = [budget EXCEPT !.clicks[t][g] = n] /\ n > 0
    BY <1>3 DEF Decide
  <2> HIDE DEF n
  <2>2. budget'.clicks[t][g] = n
    BY <1>1, <2>1 DEF Typed, Budgets
  <2>3. \A u \in TaskIds, h \in Gates : u # t \/ h # g =>
           budget'.clicks[u][h] = budget.clicks[u][h]
    BY <1>1, <2>1 DEF Typed, Budgets
  <2> QED BY <2>1, <2>2, <2>3
<1>5. Clicked /\ SameVerdicts
  BY <1>2, <1>4 DEF Clicked, SameVerdicts
<1>6. records[t][g] \notin Decided
  BY <1>1, <1>3 DEF Once, Ruled
<1>7. \A q \in Threads : thr[q].pc \in Judging \cup {"validate"} =>
                           thr[q].task # t \/ thr[q].card # g
  BY <1>3 DEF Once, Judged
<1>8. ASSUME NEW q \in Threads, q # p PROVE Judged(q)'
  BY <1>2, <1>5, <1>8, JudgedFrame DEF Once, Elsewhere, Columns
<1>9. Judged(p)'
  <2>1. budget'.clicks[thr'[p].task][thr'[p].card] > 0
    BY <1>2, <1>4
  <2>2. records'[thr'[p].task][thr'[p].card] \notin Decided
    BY <1>2, <1>6
  <2>3. thr'[p].pc = "validate"
    BY <1>2
  <2> QED BY <2>1, <2>2, <2>3 DEF Judged, Walking, Asking, Acting, Judging
<1>10. \A q, r \in Threads : Apart(q, r)'
  <2> SUFFICES ASSUME NEW q \in Threads, NEW r \in Threads,
                      thr'[q].pc \in Judging \cup {"validate"},
                      thr'[r].pc \in Judging \cup {"validate"},
                      thr'[q].task = thr'[r].task, thr'[q].card = thr'[r].card
               PROVE  q = r
    BY DEF Apart
  <2>1. CASE q # p /\ r # p
    BY <1>2, <2>1 DEF Once, Apart, Elsewhere
  <2>2. CASE q = p /\ r # p
    BY <1>2, <1>7, <2>2 DEF Elsewhere
  <2>3. CASE q # p /\ r = p
    BY <1>2, <1>7, <2>3 DEF Elsewhere
  <2> QED BY <2>1, <2>2, <2>3
<1>11. ASSUME NEW u \in DOMAIN tasks PROVE Standing(u)' /\ Gated(u)'
  BY <1>2, <1>5, <1>11, RowFrame DEF Once, Columns
<1>12. ASSUME NEW u \in TaskIds PROVE Ruled(u)'
  BY <1>2, <1>5, <1>12, RuledFrame DEF Once, Columns
<1> QED BY <1>2, <1>8, <1>9, <1>10, <1>11, <1>12 DEF Once, Unmade

LEMMA OnceCrash ==
  ASSUME Locked, Once, Crash \/ UNCHANGED vars
  PROVE  Once'
<1>1. UNCHANGED <<tasks, records, made>> /\ SameClicks
  BY DEF Crash, vars, persistent, SameClicks, Locked, Typed, Budgets
<1>2. Clicked /\ SameVerdicts
  BY <1>1, ClickedLemma DEF SameVerdicts
<1>3. ASSUME NEW u \in DOMAIN tasks PROVE Standing(u)' /\ Gated(u)'
  BY <1>1, <1>2, <1>3, RowFrame DEF Once, Columns
<1>4. ASSUME NEW u \in TaskIds PROVE Ruled(u)'
  BY <1>1, <1>2, <1>4, RuledFrame DEF Once, Columns
<1>5. CASE Crash
  <2>1. \A q \in Threads : thr'[q] = Rest
    BY <1>5 DEF Crash
  <2>2. \A q \in Threads : Judged(q)'
    BY <2>1, RestLemma, LooseJudged
  <2>3. \A q, r \in Threads : Apart(q, r)'
    BY <2>1, RestLemma DEF Apart, Judging
  <2> QED BY <1>1, <1>3, <1>4, <2>2, <2>3 DEF Once, Unmade
<1>6. CASE UNCHANGED vars
  <2>1. \A q \in Threads : Judged(q)'
    BY <1>1, <1>2, <1>6, JudgedFrame DEF Once, vars, Columns
  <2>2. \A q, r \in Threads : Apart(q, r)'
    BY <1>6 DEF Once, Apart, vars
  <2> QED BY <1>1, <1>3, <1>4, <2>1, <2>2 DEF Once, Unmade
<1> QED BY <1>5, <1>6

LEMMA OnceNext == MaxClicks <= 1 /\ Locked /\ Once /\ [Next]_vars => Once'
<1> SUFFICES ASSUME MaxClicks <= 1, Locked, Once, [Next]_vars PROVE Once'
  OBVIOUS
<1>1. ASSUME NEW p \in Threads, NEW t \in TaskIds, StartDrive(p, t) PROVE Once'
  <2>1. Silent /\ Elsewhere(p) /\ thr'[p].pc = "acquire"
    BY <1>1 DEF StartDrive, Silent, Elsewhere, persistent, Locked, Typed, Locals
  <2> QED BY <2>1, LooseJudged, OnceSilent DEF Judging
<1>2. DOMAIN tasks' \subseteq TaskIds
  BY LockedNext DEF Locked, Typed
<1> QED BY <1>1, <1>2, OnceDrive, OnceRequest, OnceApproval, OpenedLemma, OnceOpened,
           ClarifyLemma, OnceClarify, OnceDecide, OnceCrash DEF Next, Step

LEMMA OnceInit == Init => Once
BY RestLemma DEF Init, Once, Unmade, Ruled, Decided, Judged, Apart, Walking, Asking, Acting,
   Judging

(***************************************************************************)
(* The gate and the denial, from what is true with one decision per card.  *)
(* A second decision for a card, which the code takes, breaks both.        *)
(***************************************************************************)
(* With one decision per card, no task is past a gate, and none has its    *)
(* gated work order, but with the grant of that gate: whatever number of   *)
(* tasks, threads, failures, clarifications and restarts there are.        *)
THEOREM GatesAlwaysHold == MaxClicks <= 1 => (Spec => []GatesHold)
<1> SUFFICES ASSUME MaxClicks <= 1 PROVE Spec => []GatesHold
  OBVIOUS
<1>1. Init => Locked /\ Once
  BY LockedInit, OnceInit
<1>2. (Locked /\ Once) /\ [Next]_vars => (Locked /\ Once)'
  BY LockedNext, OnceNext
<1>3. Locked /\ Once => GatesHold
  BY DEF Once, Gated, GatesHold
<1> QED BY <1>1, <1>2, <1>3, PTL DEF Spec

(* A task that was denied. *)
Denied(t) == \E g \in Gates : records[t][g] = "DENIED"
Stands(t) == /\ tasks'[t].cursor = tasks[t].cursor /\ made'[t] = made[t]
             /\ tasks'[t].state \in {tasks[t].state, "PARTIAL"}

LEMMA DeniedLemma ==
  ASSUME Locked, Once, NEW t \in DOMAIN tasks, Denied(t)
  PROVE  /\ tasks[t].state \in Terminal \cup {"AWAITING_APPROVAL"}
         /\ \A p \in Threads : thr[p].task = t =>
              thr[p].pc \notin Walking \cup Asking \cup {"read_row", "grant", "approve"}
<1>1. t \in TaskIds
  BY DEF Locked, Typed
<1>2. tasks[t].state \in Terminal \cup {"AWAITING_APPROVAL"}
  BY <1>1 DEF Denied, Once, Ruled, Terminal
<1>3. ASSUME NEW p \in Threads, thr[p].task = t
      PROVE  thr[p].pc \notin Walking \cup Asking \cup {"read_row", "grant", "approve"}
  <2>1. thr[p].pc \notin Walking \cup Asking
    BY <1>3, WalkingFree DEF Free, Denied
  <2>2. thr[p].pc \notin {"read_row", "grant", "approve"}
    <3>1. thr[p].pc \in {"read_row", "grant", "approve"} =>
            /\ records[t][thr[p].card] = "APPROVED"
            /\ \A h \in Gates : records[t][h] = "DENIED" => h = thr[p].card
      BY <1>3, JudgeAlone DEF Judging, Once, Judged
    <3> QED BY <3>1 DEF Denied
  <2> QED BY <2>1, <2>2
<1> QED BY <1>2, <1>3

LEMMA DeniedStep ==
  ASSUME Locked, Once, NEW t \in DOMAIN tasks, Denied(t), NEW p \in Threads, Step(p)
  PROVE  Stands(t)
<1>0. /\ t \in TaskIds /\ tasks[t].state \in Terminal \cup {"AWAITING_APPROVAL"}
      /\ thr[p].task = t =>
           thr[p].pc \notin Walking \cup Asking \cup {"read_row", "grant", "approve"}
  BY DeniedLemma DEF Locked, Typed
<1> USE DEF Stands
<1>1. CASE Acquire(p) \/ Snap(p) \/ Check(p) \/ Release(p) \/ Validate(p) \/ ReadBack(p)
             \/ PublishGrant(p)
  BY <1>1, SilentEffect DEF Silent
<1>2. CASE Enter(p)
  BY <1>0, <1>2, EnterEffect DEF Put, Others
<1>3. CASE PlanDone(p)
  BY <1>0, <1>3, PlanEffect DEF At, Walking, Put, Others
<1>4. CASE Execute(p)
  <2>1. thr[p].task # t
    BY <1>0, <1>4, ExecuteEffect DEF At, Walking
  <2> QED BY <1>0, <1>4, <2>1 DEF Execute, Locked, Typed
<1>5. CASE SetCursor(p)
  BY <1>0, <1>5, SetCursorEffect DEF At, Walking, Others
<1>6. CASE SaveEvidence(p)
  BY <1>0, <1>6, SaveEffect DEF At, Walking, Others
<1>7. CASE ApplyAction(p)
  BY <1>0, <1>7, ActEffect DEF Acting, Walking
<1>8. CASE GiveUpOrRetry(p)
  BY <1>0, <1>8, GiveUpEffect DEF At, Acting, Walking, Put, Others
<1>9. CASE GoBack(p)
  BY <1>0, <1>9, GoBackEffect DEF At, Acting, Walking, Others
<1>10. CASE Replan(p)
  BY <1>0, <1>10, ReplanEffect DEF At, Walking, Put, Others
<1>11. CASE Finish(p)
  BY <1>0, <1>11, FinishEffect DEF At, Walking, Put, Others
<1>12. CASE Park(p)
  BY <1>0, <1>12, ParkEffect DEF At, Walking, Put, Others
<1>13. CASE CreateRequest(p)
  BY <1>13, CreateRequestEffect
<1>14. CASE PublishRequest(p)
  BY <1>0, <1>14, PublishEffect DEF At, Asking, Others
<1>15. CASE FailRequest(p)
  BY <1>0, <1>15, FailEffect DEF At, Asking, Put, Others
<1>16. CASE UpdateStatus(p)
  BY <1>16, UpdateEffect
<1>17. CASE ReadRow(p)
  BY <1>17, ReadRowEffect DEF Silent
<1>18. CASE SaveGrant(p)
  BY <1>0, <1>18, SaveGrantEffect DEF At, Others
<1>19. CASE Approve(p) \/ Deny(p)
  BY <1>0, <1>19, VerdictEffect, SMTT(30) DEF At, Put, Others, Columns
<1> QED BY <1>1, <1>2, <1>3, <1>4, <1>5, <1>6, <1>7, <1>8, <1>9, <1>10, <1>11, <1>12, <1>13,
           <1>14, <1>15, <1>16, <1>17, <1>18, <1>19
        DEF Step, Drive, Request, HandleApproval

LEMMA DeniedNext ==
  ASSUME Locked, Once, NEW t \in DOMAIN tasks, Denied(t), [Next]_vars
  PROVE  Stands(t)
<1>0. tasks[t].state \in Terminal \cup {"AWAITING_APPROVAL"}
  BY DeniedLemma
<1>1. ASSUME NEW p \in Threads, Step(p) PROVE Stands(t)
  BY <1>1, DeniedStep
<1>2. ASSUME Opened PROVE Stands(t)
  BY <1>2 DEF Opened, SameRow, Columns, Stands
<1>3. ASSUME NEW u, ClarifyEffect(u) PROVE Stands(t)
  BY <1>0, <1>3 DEF ClarifyEffect, Put, Others, Stands
<1>4. CASE UNCHANGED <<tasks, made>>
  BY <1>4 DEF Stands
<1> QED BY <1>1, <1>2, <1>3, <1>4, OpenedLemma, ClarifyLemma
        DEF Next, StartDrive, Decide, Crash, vars, persistent

(* With one decision per card, a denied task never moves again, but to be  *)
(* closed as PARTIAL, and nothing more is made for it.                     *)
THEOREM DenialStaysFinal == MaxClicks <= 1 => (Spec => DenialIsFinal)
<1> SUFFICES ASSUME MaxClicks <= 1 PROVE Spec => DenialIsFinal
  OBVIOUS
<1>1. Init => Locked /\ Once
  BY LockedInit, OnceInit
<1>2. (Locked /\ Once) /\ [Next]_vars => (Locked /\ Once)'
  BY LockedNext, OnceNext
<1>3. Locked /\ Once /\ [Next]_vars =>
        [\A t \in DOMAIN tasks :
           (\E g \in Gates : records[t][g] = "DENIED") =>
             /\ tasks'[t].cursor = tasks[t].cursor /\ made'[t] = made[t]
             /\ tasks'[t].state \in {tasks[t].state, "PARTIAL"}]_vars
  BY DeniedNext DEF Denied, Stands
<1> QED BY <1>1, <1>2, <1>3, PTL DEF Spec, DenialIsFinal

-----------------------------------------------------------------------------
(***************************************************************************)
(* Without restarts: a task past its act stage has everything the stage    *)
(* makes, or somebody is still at it, or it has been given up.             *)
(***************************************************************************)
Complete(t) ==
  /\ {"work_order", "notification"} \subseteq made[t]
  /\ tasks[t].incident # None => "incident_record" \in made[t]

Tended(t) ==
  /\ Pos(t) > ActAt(t) =>
       \/ Complete(t)
       \/ tasks[t].state \in Terminal \ {"REPORTED"}
       \/ \E p \in Threads : thr[p].pc \in Acting /\ thr[p].task = t
  /\ tasks[t].state = "REPORTED" => Pos(t) = Len(Stages(t)) + 1 /\ Complete(t)

Producing(p) ==
  LET t == thr[p].task IN
    /\ thr[p].pc \in {"record", "notify"} => "work_order" \in made[t]
    /\ thr[p].pc = "notify" /\ tasks[t].incident # None => "incident_record" \in made[t]

Done == /\ \A t \in DOMAIN tasks : Tended(t)
        /\ \A p \in Threads : Producing(p)

MadeMore == \A u \in TaskIds : made[u] \subseteq made'[u]

(* A row whose cursor stays: its state, if written, was open and is not    *)
(* written to REPORTED; who was acting still is.                           *)
LEMMA TendedFrame ==
  ASSUME Locked, NEW u \in DOMAIN tasks, Tended(u), MadeMore,
         tasks'[u].playbook = tasks[u].playbook, tasks'[u].incident = tasks[u].incident,
         tasks'[u].cursor = tasks[u].cursor,
         \/ tasks'[u].state = tasks[u].state
         \/ tasks[u].state \notin Terminal /\ tasks'[u].state # "REPORTED",
         \/ tasks'[u].state \in Terminal \ {"REPORTED"}
         \/ \A q \in Threads : thr[q].pc \in Acting /\ thr[q].task = u =>
                                 thr'[q].pc \in Acting /\ thr'[q].task = u
  PROVE  Tended(u)'
<1>1. u \in TaskIds
  BY DEF Locked, Typed
<1>2. Pos(u)' = Pos(u) /\ ActAt(u)' = ActAt(u) /\ Stages(u)' = Stages(u)
  BY DEF Pos, ActAt, Stages
<1>3. Complete(u) => Complete(u)'
  BY <1>1 DEF Complete, MadeMore
<1> QED BY <1>2, <1>3 DEF Tended

LEMMA ProducingFrame ==
  ASSUME Locked, NEW q \in Threads, Producing(q), thr'[q] = thr[q], MadeMore,
         thr[q].pc # "idle" => tasks'[thr[q].task].incident = tasks[thr[q].task].incident
  PROVE  Producing(q)'
<1>1. thr[q].pc # "idle" => thr[q].task \in TaskIds
  BY RowLemma
<1> QED BY <1>1 DEF Producing, MadeMore

(* A thread's step, but for what it does to its own row. *)
LEMMA DoneFrame ==
  ASSUME Locked, Done, NEW p \in Threads, NEW t \in DOMAIN tasks, thr[p].task = t,
         Elsewhere(p), Others(t), tasks'[t].incident = tasks[t].incident, MadeMore,
         Tended(t)', Producing(p)'
  PROVE  Done'
<1>1. ASSUME NEW u \in DOMAIN tasks, u # t PROVE Tended(u)'
  <2>1. tasks'[u] = tasks[u]
    BY <1>1 DEF Others
  <2>2. \A q \in Threads : thr[q].pc \in Acting /\ thr[q].task = u =>
                             thr'[q].pc \in Acting /\ thr'[q].task = u
    BY <1>1 DEF Elsewhere
  <2>3. Tended(u)
    BY DEF Done
  <2> QED BY <2>1, <2>2, <2>3, TendedFrame
<1>2. ASSUME NEW q \in Threads, q # p PROVE Producing(q)'
  <2>1. thr[q].pc # "idle" => thr[q].task \in DOMAIN tasks
    BY RowLemma
  <2>2. thr[q].pc # "idle" => tasks'[thr[q].task].incident = tasks[thr[q].task].incident
    BY <2>1 DEF Others
  <2> QED BY <1>2, <2>2, ProducingFrame DEF Done, Elsewhere
<1>3. DOMAIN tasks' = DOMAIN tasks
  BY DEF Others
<1> QED BY <1>1, <1>2, <1>3 DEF Done

(* A thread that does not act writes a state, or nothing. *)
LEMMA DoneState ==
  ASSUME Locked, Done, NEW p \in Threads, NEW t \in DOMAIN tasks, thr[p].task = t,
         Elsewhere(p), MadeMore, thr'[p].pc \notin {"record", "notify"},
         \/ thr[p].pc \notin Acting \/ tasks'[t].state \in Terminal \ {"REPORTED"}
         \/ thr'[p].pc \in Acting /\ thr'[p].task = t,
         \/ UNCHANGED tasks
         \/ \E s : s # "REPORTED" /\ tasks[t].state \notin Terminal /\ Put(t, s)
  PROVE  Done'
<1>1. /\ Others(t) /\ Kept(t) /\ Columns(t)
      /\ \/ tasks'[t].state = tasks[t].state
         \/ tasks[t].state \notin Terminal /\ tasks'[t].state # "REPORTED"
  BY DEF Put, Others, Kept, Columns
<1>2. \/ tasks'[t].state \in Terminal \ {"REPORTED"}
      \/ \A q \in Threads : thr[q].pc \in Acting /\ thr[q].task = t =>
                              thr'[q].pc \in Acting /\ thr'[q].task = t
  BY DEF Elsewhere
<1>3. Tended(t)'
  BY <1>1, <1>2, TendedFrame DEF Done, Kept, Columns
<1>4. Producing(p)'
  BY DEF Producing
<1> QED BY <1>1, <1>3, <1>4, DoneFrame DEF Kept

(* Nobody else acts on a task than who has the lock. *)
LEMMA NobodyActs ==
  ASSUME Locked, NEW p \in Threads, thr[p].round > 0, thr[p].pc \notin Acting
  PROVE  \A q \in Threads : thr[q].pc \notin Acting
BY DEF Locked, Bound, Holding, Walking, Acting

LEMMA DoneDrive ==
  ASSUME Locked, Done, NEW p \in Threads, Drive(p)
  PROVE  Done'
<1> DEFINE t == thr[p].task
<1> USE DEF At
<1>0. ASSUME UNCHANGED <<records, made, budget>> PROVE MadeMore
  BY <1>0 DEF MadeMore
<1>1. CASE Acquire(p) \/ Snap(p) \/ Check(p) \/ Release(p)
  <2>1. /\ Silent /\ Elsewhere(p) /\ thr[p].pc \notin Acting /\ thr[p].pc # "idle"
        /\ thr'[p].pc \in {"idle", "acquire", "release", "snap", "enter"}
    BY <1>1, SilentEffect DEF Acquire, Snap, Check, Release, Acting
  <2>2. t \in DOMAIN tasks
    BY <2>1, RowLemma
  <2> QED BY <1>0, <2>1, <2>2, DoneState DEF Silent
<1>2. CASE Enter(p)
  <2>1. /\ UNCHANGED <<records, made, budget>> /\ Elsewhere(p) /\ thr[p].pc \notin Acting
        /\ t \in DOMAIN tasks /\ thr'[p].pc \in {"release", "stage"}
        /\ \/ UNCHANGED tasks
           \/ Put(t, "PLANNING") /\ tasks[t].state \notin Terminal
    BY <1>2, EnterEffect DEF Acting, Moved
  <2> QED BY <1>0, <2>1, DoneState
<1>3. CASE PlanDone(p) \/ Replan(p)
  <2>1. /\ UNCHANGED <<records, made, budget>> /\ Elsewhere(p)
        /\ thr[p].pc \in {"stage", "replan"}
        /\ thr'[p].pc \in {"release", "stage", "check"}
        /\ UNCHANGED tasks \/ Put(t, "PLANNING") \/ Put(t, "COORDINATING")
    BY <1>3, PlanEffect, ReplanEffect DEF Moved
  <2>2. thr[p].pc \notin Acting /\ t \in DOMAIN tasks /\ tasks[t].state \notin Terminal
    BY <2>1, RowLemma DEF Acting, Walking, Locked, Bound
  <2> QED BY <1>0, <2>1, <2>2, DoneState
<1>4. CASE Execute(p)
  <2>1. /\ UNCHANGED tasks /\ thr[p].pc = "stage" /\ Moved(p, "cursor")
        /\ \A u \in TaskIds : made'[u] \in {made[u], made[u] \cup {"report"}}
    BY <1>4, ExecuteEffect
  <2>2. MadeMore /\ t \in DOMAIN tasks /\ thr[p].pc \notin Acting
    BY <2>1, RowLemma DEF MadeMore, Acting
  <2> QED BY <2>1, <2>2, DoneState DEF Moved
<1>5. CASE SetCursor(p)
  <2>1. /\ UNCHANGED <<records, made, budget>> /\ thr[p].pc = "cursor" /\ t \in DOMAIN tasks
        /\ Others(t) /\ Kept(t) /\ tasks'[t].state = tasks[t].state
        /\ tasks'[t].cursor = thr[p].pos + 1 /\ Pos(t) = thr[p].pos
        /\ thr[p].pos \in 1..Len(Stages(t)) /\ Walkable(tasks[t].playbook)
        /\ Elsewhere(p) /\ thr'[p].task = t
        /\ \/ thr'[p].pc \in {"save", "stage"} /\ Stage(p) # "act"
           \/ thr'[p].pc = "work_order"
    BY <1>5, SetCursorEffect
  <2>2. /\ tasks[t].state \notin Terminal /\ thr[p].round > 0 /\ thr[p].pc \notin Acting
    BY <2>1 DEF Acting, Walking, Holding, Locked, Bound
  <2>3. Tended(t)'
    <3> DEFINE n == thr[p].pos
               a == ActAt(t)
    <3>1. Pos(t)' = n + 1 /\ ActAt(t)' = a
      <4>1. n + 1 # 0
        BY <2>1
      <4> QED BY <2>1, <4>1 DEF Pos, ActAt, Kept
    <3>2. a \in Nat /\ n \in Nat
      <4>1. a \in 1..Len(Stages(t)) /\ Len(Stages(t)) \in 1..7
        BY <2>1, SMTT(30) DEF Walkable, ActAt, Stages
      <4> QED BY <2>1, <4>1, SMTT(30)
    <3>3. Stage(p) # "act" => n # a
      BY <2>1 DEF Walkable, ActAt, Stages, Stage
    <3>4. CASE thr'[p].pc = "work_order"
      BY <2>1, <2>2, <3>4 DEF Tended, Acting, Terminal
    <3>5. CASE Stage(p) # "act"
      <4>1. ASSUME n + 1 > a PROVE n > a
        <5> HIDE DEF n, a
        <5> QED BY <3>2, <3>3, <3>5, <4>1
      <4>2. n > a => Complete(t)
        BY <2>1, <2>2, NobodyActs DEF Done, Tended
      <4>3. Complete(t) => Complete(t)'
        BY <2>1 DEF Complete, Kept
      <4> QED BY <2>1, <2>2, <3>1, <4>1, <4>2, <4>3 DEF Tended, Terminal
    <3> QED BY <2>1, <3>4, <3>5
  <2>4. Producing(p)'
    BY <2>1 DEF Producing
  <2> QED BY <1>0, <2>1, <2>3, <2>4, DoneFrame DEF Kept
<1>6. CASE SaveEvidence(p)
  <2>1. /\ UNCHANGED <<records, made, budget>> /\ thr[p].pc = "save" /\ Moved(p, "stage")
        /\ t \in DOMAIN tasks /\ Others(t) /\ Kept(t)
        /\ tasks'[t].state = tasks[t].state /\ tasks'[t].cursor = tasks[t].cursor
    BY <1>6, SaveEffect
  <2>2. Producing(p)' /\ Elsewhere(p) /\ thr'[p].task = t
    BY <2>1 DEF Producing, Moved
  <2>3. \A q \in Threads : thr[q].pc \in Acting /\ thr[q].task = t =>
                             thr'[q].pc \in Acting /\ thr'[q].task = t
    BY <2>1, <2>2 DEF Elsewhere, Acting
  <2>4. Tended(t)'
    BY <1>0, <2>1, <2>2, <2>3, TendedFrame DEF Done, Kept
  <2> QED BY <1>0, <2>1, <2>2, <2>4, DoneFrame DEF Kept
<1>7. CASE ApplyAction(p)
  <2>1. /\ UNCHANGED tasks /\ t \in DOMAIN tasks /\ t \in TaskIds
        /\ thr[p].pc \in {"work_order", "record", "notify"} /\ MadeMore
    BY <1>7, ActEffect DEF MadeMore
  <2>2. Producing(p)
    BY DEF Done
  <2>3. made[t] \subseteq made'[t]
    BY <2>1 DEF MadeMore
  <2>4. CASE Moved(p, "act_failed")
    BY <2>1, <2>4, DoneState DEF Moved, Acting
  <2>5. CASE /\ thr[p].pc = "work_order" /\ "work_order" \in made'[t]
             /\ \/ tasks[t].incident = None /\ Moved(p, "notify")
                \/ tasks[t].incident # None /\ Moved(p, "record")
    <3>1. Producing(p)'
      BY <2>1, <2>5 DEF Moved, Producing
    <3>2. thr'[p].pc \in Acting /\ thr'[p].task = t /\ Elsewhere(p) /\ Others(t)
      BY <2>1, <2>5 DEF Moved, Acting, Others
    <3>3. Tended(t)'
      BY <2>1, <3>2, TendedFrame DEF Done, Elsewhere
    <3> QED BY <2>1, <3>1, <3>2, <3>3, DoneFrame
  <2>6. CASE thr[p].pc = "record" /\ Moved(p, "notify") /\ "incident_record" \in made'[t]
    <3>1. Producing(p)'
      BY <2>1, <2>2, <2>3, <2>6 DEF Moved, Producing
    <3>2. thr'[p].pc \in Acting /\ thr'[p].task = t /\ Elsewhere(p) /\ Others(t)
      BY <2>1, <2>6 DEF Moved, Acting, Others
    <3>3. Tended(t)'
      BY <2>1, <3>2, TendedFrame DEF Done, Elsewhere
    <3> QED BY <2>1, <3>1, <3>2, <3>3, DoneFrame
  <2>7. CASE thr[p].pc = "notify" /\ Moved(p, "stage") /\ "notification" \in made'[t]
    <3>1. Producing(p)' /\ thr'[p].task = t /\ Elsewhere(p) /\ Others(t)
      BY <2>1, <2>7 DEF Moved, Producing, Others
    <3>2. Complete(t)'
      BY <2>1, <2>2, <2>3, <2>7, <3>1 DEF Producing, Complete
    <3>3. tasks[t].state \notin Terminal
      BY <2>1 DEF Walking, Acting, Locked, Bound
    <3>4. Tended(t)'
      BY <2>1, <3>1, <3>2, <3>3 DEF Tended, Terminal
    <3> QED BY <2>1, <3>1, <3>4, DoneFrame
  <2> QED BY <1>7, <2>4, <2>5, <2>6, <2>7, ActEffect
<1>8. CASE GiveUpOrRetry(p)
  <2>1. /\ UNCHANGED <<records, made, budget>> /\ thr[p].pc = "act_failed" /\ t \in DOMAIN tasks
    BY <1>8, GiveUpEffect
  <2>2. tasks[t].state \notin Terminal
    BY <2>1 DEF Walking, Acting, Locked, Bound
  <2>3. CASE Moved(p, "release") /\ Put(t, "PARTIAL")
    <3>1. tasks'[t].state \in Terminal \ {"REPORTED"}
      BY <2>3 DEF Put, Terminal
    <3> QED BY <1>0, <2>1, <2>2, <2>3, <3>1, DoneState DEF Moved
  <2>4. CASE /\ Moved(p, "back") /\ Others(t) /\ Columns(t)
             /\ tasks'[t].state = tasks[t].state /\ tasks'[t].playbook = tasks[t].playbook
             /\ tasks'[t].incident = tasks[t].incident
    <3>1. /\ Producing(p)' /\ thr'[p].task = t /\ Elsewhere(p) /\ thr'[p].pc \in Acting
      BY <2>4 DEF Moved, Producing, Acting
    <3>2. Tended(t)'
      BY <1>0, <2>1, <2>4, <3>1, TendedFrame DEF Done, Elsewhere, Columns
    <3> QED BY <1>0, <2>1, <2>4, <3>1, <3>2, DoneFrame
  <2> QED BY <1>8, <2>3, <2>4, GiveUpEffect
<1>9. CASE GoBack(p)
  <2>1. /\ UNCHANGED <<records, made, budget>> /\ thr[p].pc = "back" /\ Moved(p, "replan")
        /\ t \in DOMAIN tasks /\ Others(t) /\ Kept(t) /\ tasks'[t].state = tasks[t].state
        /\ tasks'[t].cursor \in 1..(ActAt(t) - 1) /\ ActAt(t) \in 1..7
    BY <1>9, GoBackEffect
  <2>2. tasks[t].state \notin Terminal
    BY <2>1 DEF Walking, Acting, Locked, Bound
  <2>3. thr'[p].task = t /\ Producing(p)' /\ Elsewhere(p)
    BY <2>1 DEF Moved, Producing
  <2>4. ~(Pos(t)' > ActAt(t)')
    <3>1. Pos(t)' = tasks'[t].cursor /\ ActAt(t)' = ActAt(t)
      BY <2>1, <2>3 DEF Pos, ActAt, Kept
    <3> DEFINE c == tasks'[t].cursor
               a == ActAt(t)
    <3>2. c \in 1..(a - 1) /\ a \in 1..7
      BY <2>1
    <3> HIDE DEF c, a
    <3>3. ~(c > a)
      BY <3>2
    <3> QED BY <3>1, <3>3 DEF c, a
  <2>5. Tended(t)'
    BY <2>1, <2>2, <2>3, <2>4 DEF Tended, Terminal
  <2> QED BY <1>0, <2>1, <2>3, <2>5, DoneFrame DEF Kept
<1>10. CASE Finish(p)
  <2>1. /\ UNCHANGED <<records, made, budget>> /\ thr[p].pc = "stage" /\ AtEnd(p)
        /\ t \in DOMAIN tasks /\ Moved(p, "release")
        /\ UNCHANGED tasks \/ Put(t, "REPORTED")
    BY <1>10, FinishEffect
  <2>2. /\ thr[p].pc \notin Acting /\ thr[p].round > 0 /\ thr[p].pos = Pos(t)
        /\ tasks[t].state \notin Terminal /\ Fits(t) /\ Walkable(tasks[t].playbook)
    BY <2>1, RowLemma DEF Acting, Walking, Holding, Locked, Bound, Row
  <2>3. CASE UNCHANGED tasks
    BY <1>0, <2>1, <2>2, <2>3, DoneState DEF Moved
  <2>4. CASE Put(t, "REPORTED")
    <3> DEFINE n == Len(Stages(t))
               a == ActAt(t)
               k == Pos(t)
    <3>1. n \in 1..7 /\ a \in 1..n /\ k \in 1..(n + 1) /\ k > n
      BY <2>1, <2>2 DEF Walkable, ActAt, Stages, Fits, AtEnd
    <3>2. k = n + 1 /\ k > a
      <4> HIDE DEF n, a, k
      <4> QED BY <3>1
    <3>3. Complete(t)
      BY <2>1, <2>2, <3>2, NobodyActs DEF Done, Tended
    <3>4. /\ Others(t) /\ Kept(t) /\ Columns(t) /\ thr'[p].task = t /\ Elsewhere(p)
          /\ Producing(p)'
      BY <2>1, <2>4 DEF Put, Moved, Producing
    <3>5. Complete(t)' /\ Pos(t)' = Pos(t) /\ Stages(t)' = Stages(t)
      BY <2>1, <3>3, <3>4 DEF Complete, Kept, Pos, Stages, Columns
    <3>6. Tended(t)'
      BY <3>2, <3>4, <3>5 DEF Tended
    <3> QED BY <1>0, <2>1, <3>4, <3>6, DoneFrame, SMTT(30) DEF Kept
  <2> QED BY <2>1, <2>3, <2>4
<1> QED BY <1>1, <1>2, <1>3, <1>4, <1>5, <1>6, <1>7, <1>8, <1>9, <1>10 DEF Drive

LEMMA DoneStep == \A p \in Threads : Locked /\ Done /\ Step(p) => Done'
<1> SUFFICES ASSUME Locked, Done, NEW p \in Threads, Step(p) PROVE Done'
  OBVIOUS
<1> DEFINE t == thr[p].task
<1> USE DEF At
<1>0. ASSUME UNCHANGED <<records, made, budget>> PROVE MadeMore
  BY <1>0 DEF MadeMore
<1>1. CASE Drive(p)
  BY <1>1, DoneDrive
<1>2. CASE Park(p)
  <2>1. /\ UNCHANGED <<records, made, budget>> /\ thr[p].pc = "stage" /\ t \in DOMAIN tasks
        /\ Elsewhere(p) /\ thr'[p].pc \in {"request", "release"}
        /\ UNCHANGED tasks \/ Put(t, "AWAITING_APPROVAL")
    BY <1>2, ParkEffect DEF Moved
  <2>2. tasks[t].state \notin Terminal /\ thr[p].pc \notin Acting
    BY <2>1 DEF Walking, Acting, Locked, Bound
  <2> QED BY <1>0, <2>1, <2>2, DoneState
<1>3. CASE CreateRequest(p)
  <2>1. /\ UNCHANGED <<tasks, made>> /\ thr[p].pc = "request" /\ Elsewhere(p)
        /\ thr'[p].pc \in {"publish", "no_request"}
    BY <1>3, CreateRequestEffect DEF Moved
  <2>2. t \in DOMAIN tasks /\ thr[p].pc \notin Acting /\ MadeMore
    BY <2>1, RowLemma DEF Acting, MadeMore
  <2> QED BY <2>1, <2>2, DoneState
<1>4. CASE PublishRequest(p)
  <2>1. /\ UNCHANGED <<records, made, budget>> /\ thr[p].pc = "publish" /\ Moved(p, "check")
        /\ t \in DOMAIN tasks /\ Others(t) /\ Kept(t) /\ tasks'[t].state = tasks[t].state
        /\ tasks'[t].cursor = tasks[t].cursor
    BY <1>4, PublishEffect
  <2>2. Producing(p)' /\ thr'[p].task = t /\ Elsewhere(p) /\ thr[p].pc \notin Acting
    BY <2>1 DEF Moved, Producing, Acting
  <2>3. Tended(t)'
    BY <1>0, <2>1, <2>2, TendedFrame DEF Done, Elsewhere, Kept
  <2> QED BY <1>0, <2>1, <2>2, <2>3, DoneFrame DEF Kept
<1>5. CASE FailRequest(p)
  <2>1. /\ UNCHANGED <<records, made, budget>> /\ thr[p].pc = "no_request"
        /\ Moved(p, "release") /\ t \in DOMAIN tasks
        /\ UNCHANGED tasks \/ Put(t, "FAILED")
    BY <1>5, FailEffect
  <2>2. CASE UNCHANGED tasks
    BY <1>0, <2>1, <2>2, DoneState DEF Moved, Acting
  <2>3. CASE Put(t, "FAILED")
    <3>1. /\ tasks'[t].state = "FAILED" /\ Others(t) /\ Kept(t) /\ thr'[p].task = t
          /\ Producing(p)' /\ Elsewhere(p)
      BY <2>1, <2>3 DEF Put, Moved, Producing
    <3>2. Tended(t)'
      BY <3>1 DEF Tended, Terminal
    <3> QED BY <1>0, <2>1, <3>1, <3>2, DoneFrame DEF Kept
  <2> QED BY <2>1, <2>2, <2>3
<1>6. CASE Validate(p) \/ ReadBack(p) \/ PublishGrant(p)
  <2>1. /\ Silent /\ Elsewhere(p) /\ thr[p].pc \in {"validate", "read_back", "granted"}
        /\ thr'[p].pc \notin {"record", "notify"}
    BY <1>6, SilentEffect DEF Validate, ReadBack, PublishGrant, Moved
  <2>2. t \in DOMAIN tasks /\ thr[p].pc \notin Acting
    BY <2>1, RowLemma DEF Acting
  <2> QED BY <1>0, <2>1, <2>2, DoneState, SMTT(30) DEF Silent
<1>7. CASE UpdateStatus(p)
  <2>1. /\ UNCHANGED <<tasks, made, budget>> /\ thr[p].pc = "status" /\ Moved(p, "read_back")
        /\ t \in DOMAIN tasks
    BY <1>7, UpdateEffect
  <2>2. MadeMore /\ thr[p].pc \notin Acting
    BY <2>1 DEF MadeMore, Acting
  <2> QED BY <2>1, <2>2, DoneState DEF Moved
<1>8. CASE ReadRow(p)
  <2>1. /\ Silent /\ thr[p].pc = "read_row" /\ t \in DOMAIN tasks
        /\ Elsewhere(p) /\ thr'[p].pc = "grant" /\ thr[p].pc \notin Acting
    BY <1>8, ReadRowEffect DEF Acting
  <2> QED BY <1>0, <2>1, DoneState DEF Silent
<1>9. CASE SaveGrant(p)
  <2>1. /\ UNCHANGED <<records, made, budget>> /\ thr[p].pc = "grant" /\ Moved(p, "approve")
        /\ t \in DOMAIN tasks /\ Others(t) /\ Kept(t) /\ tasks'[t].state = tasks[t].state
        /\ tasks'[t].cursor = tasks[t].cursor
    BY <1>9, SaveGrantEffect
  <2>2. Producing(p)' /\ thr'[p].task = t /\ Elsewhere(p) /\ thr[p].pc \notin Acting
    BY <2>1 DEF Moved, Producing, Acting
  <2>3. Tended(t)'
    BY <1>0, <2>1, <2>2, TendedFrame DEF Done, Elsewhere, Kept
  <2> QED BY <1>0, <2>1, <2>2, <2>3, DoneFrame DEF Kept
<1>10. CASE Approve(p) \/ Deny(p)
  <2>1. /\ UNCHANGED <<records, made, budget>> /\ thr[p].pc \in {"approve", "deny"}
        /\ t \in DOMAIN tasks /\ Elsewhere(p) /\ thr'[p].pc \in {"granted", "release"}
        /\ \/ UNCHANGED tasks
           \/ /\ tasks[t].state = "AWAITING_APPROVAL"
              /\ Put(t, "COORDINATING") \/ Put(t, "PARTIAL")
    BY <1>10, VerdictEffect DEF Moved
  <2>2. thr[p].pc \notin Acting /\ "AWAITING_APPROVAL" \notin Terminal
    BY <2>1 DEF Acting, Terminal
  <2> QED BY <1>0, <2>1, <2>2, DoneState
<1> QED BY <1>1, <1>2, <1>3, <1>4, <1>5, <1>6, <1>7, <1>8, <1>9, <1>10
        DEF Step, Request, HandleApproval

LEMMA DoneNext == MaxCrashes = 0 /\ Locked /\ Done /\ [Next]_vars => Done'
<1> SUFFICES ASSUME MaxCrashes = 0, Locked, Done, [Next]_vars PROVE Done'
  OBVIOUS
<1>1. ASSUME NEW p \in Threads, NEW t \in TaskIds, NEW v,
             StartDrive(p, t) \/ Decide(p, t, v)
      PROVE  Done'
  <2>1. /\ UNCHANGED <<tasks, made>> /\ Elsewhere(p) /\ thr[p].pc = "idle"
        /\ thr'[p].pc \in {"acquire", "validate"}
    BY <1>1 DEF StartDrive, Decide, At, Elsewhere, persistent, Locked, Typed, Locals
  <2>2. ASSUME NEW u \in DOMAIN tasks PROVE Tended(u)'
    BY <2>1, <2>2, TendedFrame DEF Done, Elsewhere, MadeMore, Acting
  <2>3. ASSUME NEW q \in Threads PROVE Producing(q)'
    BY <2>1, <2>3 DEF Done, Producing, Elsewhere
  <2> QED BY <2>1, <2>2, <2>3 DEF Done
<1>2. CASE Opened
  <2>1. MadeMore
    BY <1>2 DEF Opened, MadeMore
  <2>2. ASSUME NEW u \in DOMAIN tasks PROVE Tended(u)'
    BY <1>2, <2>1, <2>2, TendedFrame DEF Done, Opened, SameRow, Columns, Kept
  <2>3. ASSUME NEW u \in DOMAIN tasks' \ DOMAIN tasks PROVE Tended(u)'
    <3>1. Fresh(u) /\ Walkable(tasks'[u].playbook)
      BY <1>2, <2>3, PlaybookLemma DEF Opened, Fresh
    <3>2. Pos(u)' = 1 /\ ActAt(u)' \in Nat /\ ActAt(u)' >= 1
      BY <3>1 DEF Fresh, Pos, ActAt, Walkable
    <3> QED BY <3>1, <3>2 DEF Tended, Fresh
  <2>4. ASSUME NEW q \in Threads PROVE Producing(q)'
    <3>1. thr[q].pc # "idle" => thr[q].task \in DOMAIN tasks
      BY RowLemma
    <3> QED BY <1>2, <2>1, <2>4, <3>1, ProducingFrame DEF Done, Opened, Kept
  <2> QED BY <2>2, <2>3, <2>4 DEF Done
<1>3. ASSUME NEW t \in TaskIds, ClarifyEffect(t) PROVE Done'
  <2>1. /\ t \in DOMAIN tasks /\ UNCHANGED <<made, thr>> /\ Others(t) /\ Columns(t) /\ Kept(t)
        /\ tasks[t].state \notin Terminal /\ tasks'[t].state # "REPORTED" /\ MadeMore
    BY <1>3 DEF ClarifyEffect, Put, MadeMore
  <2>2. ASSUME NEW u \in DOMAIN tasks PROVE Tended(u)'
    BY <2>1, <2>2, TendedFrame DEF Done, Others, Columns, Kept
  <2>3. ASSUME NEW q \in Threads PROVE Producing(q)'
    <3>1. thr[q].pc # "idle" => thr[q].task \in DOMAIN tasks
      BY RowLemma
    <3> QED BY <2>1, <2>3, <3>1, ProducingFrame DEF Done, Others, Kept
  <2> QED BY <2>1, <2>2, <2>3 DEF Done, Others
<1>4. CASE UNCHANGED vars
  <2>1. MadeMore
    BY <1>4 DEF vars, persistent, MadeMore
  <2>2. ASSUME NEW u \in DOMAIN tasks PROVE Tended(u)'
    BY <1>4, <2>1, <2>2, TendedFrame DEF Done, vars, persistent
  <2>3. ASSUME NEW q \in Threads PROVE Producing(q)'
    BY <1>4, <2>1, <2>3, ProducingFrame DEF Done, vars, persistent
  <2> QED BY <1>4, <2>2, <2>3 DEF Done, vars, persistent
<1>5. ~Crash
  <2>1. budget.crashes \in Nat
    BY DEF Locked, Typed, Budgets
  <2> QED BY <2>1 DEF Crash
<1> QED BY <1>1, <1>2, <1>3, <1>4, <1>5, DoneStep, OpenedLemma, ClarifyLemma DEF Next

(* Without restarts, a task is reported only from the end of its playbook  *)
(* and with everything its act stage makes, whatever fails and however     *)
(* often a card is decided.                                                *)
THEOREM ReportsAreTrue == MaxCrashes = 0 => (Spec => []ReportedIsDone)
<1> SUFFICES ASSUME MaxCrashes = 0 PROVE Spec => []ReportedIsDone
  OBVIOUS
<1>1. Init => Locked /\ Done
  BY LockedInit, RestLemma DEF Init, Done, Producing
<1>2. (Locked /\ Done) /\ [Next]_vars => (Locked /\ Done)'
  BY LockedNext, DoneNext
<1>3. Locked /\ Done => ReportedIsDone
  BY DEF Done, Tended, Complete, ReportedIsDone
<1> QED BY <1>1, <1>2, <1>3, PTL DEF Spec

-----------------------------------------------------------------------------
(***************************************************************************)
(* The calls of the store.                                                 *)
(***************************************************************************)
StoreStep == Store!Next \/ UNCHANGED StoreRows

(* A transition the table allows. *)
LEMMA StoreState ==
  ASSUME Locked, NEW t \in DOMAIN tasks, NEW ev \in Events,
         NEW to \in Outcome(ev, tasks[t].state), SetRow(t, "state", to)
  PROVE  StoreStep
<1>1. t \in TaskIds /\ \A u \in DOMAIN tasks : tasks[u] \in Rows
  BY DEF Locked, Typed
<1>2. tasks' = [tasks EXCEPT ![t].state = to]
  BY DEF SetRow
<1>3. StoreRows' = [StoreRows EXCEPT ![t].state = to, ![t].updated = 0]
  BY <1>1, <1>2 DEF StoreRows, Rows
<1>4. t \in DOMAIN StoreRows /\ to \in Store!Outcome(ev, StoreRows[t].state)
        /\ ev \in Store!Events
  BY DEF StoreRows, Outcome, Store!Outcome, States, Store!States, Active, Store!Active,
     Terminal, Store!Terminal, Transitions, Store!Transitions, Waits, Store!Waits,
     Events, Store!Events
<1>5. Store!Transition(t, ev)
  BY <1>3, <1>4 DEF Store!Transition
<1> QED BY <1>1, <1>4, <1>5 DEF StoreStep, Store!Next

(* A column the store does not look at. *)
LEMMA StoreColumn ==
  ASSUME Locked, NEW t \in DOMAIN tasks, NEW f \in {"cursor", "approval", "replans"}, NEW v,
         SetRow(t, f, v)
  PROVE  StoreStep
<1>1. \A u \in DOMAIN tasks : tasks[u] \in Rows
  BY DEF Locked, Typed
<1>2. /\ DOMAIN tasks' = DOMAIN tasks
      /\ \A u \in DOMAIN tasks :
           /\ tasks'[u].incident = tasks[u].incident /\ tasks'[u].playbook = tasks[u].playbook
           /\ tasks'[u].priority = tasks[u].priority /\ tasks'[u].state = tasks[u].state
  BY <1>1 DEF SetRow, Rows
<1> QED BY <1>2 DEF StoreStep, StoreRows

LEMMA StoreEvidence ==
  ASSUME Locked, NEW t \in DOMAIN tasks, NEW obs, NEW A,
         tasks' = [tasks EXCEPT ![t].obs = obs, ![t].approved = A]
  PROVE  StoreStep
<1>1. \A u \in DOMAIN tasks : tasks[u] \in Rows
  BY DEF Locked, Typed
<1>2. /\ DOMAIN tasks' = DOMAIN tasks
      /\ \A u \in DOMAIN tasks :
           /\ tasks'[u].incident = tasks[u].incident /\ tasks'[u].playbook = tasks[u].playbook
           /\ tasks'[u].priority = tasks[u].priority /\ tasks'[u].state = tasks[u].state
  BY <1>1 DEF Rows
<1> QED BY <1>2 DEF StoreStep, StoreRows

LEMMA StoreAttempt ==
  ASSUME Locked, NEW p \in Threads, thr[p].pc # "idle", NEW ev \in Events, NEW pc,
         NEW card, Attempt(p, ev, pc, card)
  PROVE  StoreStep
<1>1. thr[p].task \in DOMAIN tasks
  BY RowLemma
<1>2. CASE \E to \in Outcome(ev, tasks[thr[p].task].state) : SetRow(thr[p].task, "state", to)
  BY <1>1, <1>2, StoreState
<1>3. CASE UNCHANGED tasks
  BY <1>3, SMTT(30) DEF StoreStep, StoreRows
<1> QED BY <1>2, <1>3 DEF Attempt

LEMMA StoreThread == \A p \in Threads : Locked /\ Step(p) => StoreStep
<1> SUFFICES ASSUME Locked, NEW p \in Threads, Step(p) PROVE StoreStep
  OBVIOUS
<1>0. thr[p].pc # "idle" => thr[p].task \in DOMAIN tasks
  BY RowLemma
<1> USE DEF At
<1>1. CASE UNCHANGED tasks
  BY <1>1 DEF StoreStep, StoreRows
<1>2. CASE Enter(p)
  <2>1. Outcome("start_planning", "RECEIVED") = {"PLANNING"}
        /\ Outcome("start_planning", "AWAITING_CLARIFICATION") = {"PLANNING"}
    BY DEF Outcome, Transitions, States, Active, Terminal, Waits
  <2>2. \/ UNCHANGED tasks
        \/ /\ Row(p).state \in {"RECEIVED", "AWAITING_CLARIFICATION"}
           /\ SetRow(thr[p].task, "state", "PLANNING")
    BY <1>2 DEF Enter
  <2>3. "start_planning" \in Events /\ thr[p].task \in DOMAIN tasks
    BY <1>0, <1>2 DEF Events, Enter
  <2> QED BY <1>1, <2>1, <2>2, <2>3, StoreState DEF Row
<1>3. CASE PlanDone(p) \/ Replan(p) \/ Finish(p) \/ Park(p) \/ FailRequest(p) \/ Approve(p)
             \/ Deny(p)
  <2>1. \/ UNCHANGED tasks
        \/ \E ev \in Events : \E pc, card : Attempt(p, ev, pc, card)
    BY <1>3 DEF PlanDone, Replan, Finish, Park, FailRequest, Approve, Deny, Events
  <2>2. thr[p].pc # "idle"
    BY <1>3 DEF PlanDone, Replan, Finish, Park, FailRequest, Approve, Deny
  <2> QED BY <1>1, <2>1, <2>2, StoreAttempt
<1>4. CASE SetCursor(p) \/ GoBack(p) \/ PublishRequest(p)
  <2>1. PICK f \in {"cursor", "approval"} : \E v : SetRow(thr[p].task, f, v)
    BY <1>4 DEF SetCursor, GoBack, PublishRequest
  <2>2. thr[p].task \in DOMAIN tasks
    BY <1>0, <1>4 DEF SetCursor, GoBack, PublishRequest
  <2> QED BY <2>1, <2>2, StoreColumn
<1>5. CASE SaveEvidence(p) \/ SaveGrant(p)
  <2>1. thr[p].task \in DOMAIN tasks
    BY <1>0, <1>5 DEF SaveEvidence, SaveGrant
  <2> DEFINE t == thr[p].task
             obs == IF At(p, "save") THEN TRUE ELSE thr[p].obs
             A == thr[p].approved
  <2>2. tasks' = [tasks EXCEPT ![t].obs = obs, ![t].approved = A]
    BY <1>5 DEF SaveEvidence, SaveGrant
  <2>3. t \in DOMAIN tasks
    BY <2>1
  <2> HIDE DEF t, obs, A
  <2> QED BY <2>2, <2>3, StoreEvidence
<1>6. CASE GiveUpOrRetry(p)
  <2>1. thr[p].task \in DOMAIN tasks /\ thr[p].pc # "idle" /\ "partial" \in Events
    BY <1>0, <1>6 DEF GiveUpOrRetry, Events
  <2>2. \/ SetRow(thr[p].task, "replans", Row(p).replans + 1)
        \/ Attempt(p, "partial", "release", Closed(p, "PARTIAL"))
    BY <1>6 DEF GiveUpOrRetry
  <2> QED BY <2>1, <2>2, StoreColumn, StoreAttempt
<1> QED BY <1>1, <1>2, <1>3, <1>4, <1>5, <1>6
    DEF Step, Drive, Request, HandleApproval, Acquire, Snap, Check, Release, Execute,
        ApplyAction, Create, CreateRequest, Validate, UpdateStatus, ReadBack, ReadRow,
        PublishGrant, persistent

LEMMA StoreMint ==
  ASSUME Locked, NEW t \in TaskIds \ DOMAIN tasks, NEW i \in Incidents \cup {None},
         NEW pb \in UsedPlaybooks, NEW pr \in Priorities,
         i # None => LiveTasks(i, pb) = {},
         tasks' = [u \in DOMAIN tasks \cup {t} |->
                     IF u = t THEN NewRow(i, pb, pr) ELSE tasks[u]]
  PROVE  StoreStep
<1>1. DOMAIN StoreRows = DOMAIN tasks
  BY DEF StoreRows
<1>2. i # None => Store!LivePair(i, pb) = {}
  BY DEF Store!LivePair, LiveTasks, Store!Live, StoreRows, Terminal, Store!Terminal
<1>3. Store!Insert(t, [incident |-> i, playbook |-> pb, priority |-> pr,
                       state |-> "RECEIVED", updated |-> 0])
  BY DEF Store!Insert, StoreRows, NewRow
<1>4. Store!Mint(t, i, pb, pr)
  BY <1>1, <1>2, <1>3 DEF Store!Mint
<1> QED BY <1>4 DEF StoreStep, Store!Next, Priorities, Store!Priorities

LEMMA StorePriority ==
  ASSUME Locked, NEW t \in DOMAIN tasks, NEW pr, tasks' = [tasks EXCEPT ![t].priority = pr]
  PROVE  StoreRows' = [StoreRows EXCEPT ![t].priority = pr, ![t].updated = 0]
<1>1. t \in TaskIds /\ \A u \in DOMAIN tasks : tasks[u] \in Rows
  BY DEF Locked, Typed
<1> QED BY <1>1 DEF StoreRows, Rows

LEMMA StoreRaise ==
  ASSUME Locked, NEW t \in DOMAIN tasks, NEW pr \in Priorities,
         tasks' = [tasks EXCEPT ![t].priority = IF Rank(pr) > Rank(@) THEN pr ELSE @]
  PROVE  StoreStep
<1>1. t \in TaskIds /\ \A u \in DOMAIN tasks : tasks[u] \in Rows
  BY DEF Locked, Typed
<1>2. CASE Rank(pr) > Rank(tasks[t].priority)
  <2>1. tasks' = [tasks EXCEPT ![t].priority = pr]
    BY <1>1, <1>2
  <2>2. StoreRows' = [StoreRows EXCEPT ![t].priority = pr, ![t].updated = 0]
    BY <2>1, StorePriority
  <2>3. Store!Rank(pr) > Store!Rank(StoreRows[t].priority) /\ t \in DOMAIN StoreRows
    BY <1>2 DEF Rank, Store!Rank, StoreRows
  <2>4. Store!RaisePriority(t, pr)
    BY <2>2, <2>3 DEF Store!RaisePriority
  <2> QED BY <1>1, <2>4 DEF StoreStep, Store!Next, Priorities, Store!Priorities
<1>3. CASE ~(Rank(pr) > Rank(tasks[t].priority))
  <2>1. \A u \in DOMAIN tasks : tasks'[u] = tasks[u]
    BY <1>1, <1>3 DEF Rows
  <2> QED BY <2>1 DEF StoreStep, StoreRows
<1> QED BY <1>2, <1>3

LEMMA StoreDoors ==
  /\ \A t \in TaskIds, pb \in UsedPlaybooks : Locked /\ Ingest(t, pb) => StoreStep
  /\ \A i \in Incidents, pb \in UsedPlaybooks, s \in Severities :
       Locked /\ SpawnFromIncident(i, pb, s) => StoreStep
  /\ \A t \in TaskIds :
       Locked /\ (RequestClarification(t) \/ ClarificationReply(t)) => StoreStep
<1>1. ASSUME NEW t \in TaskIds, NEW pb \in UsedPlaybooks, Locked, Ingest(t, pb)
      PROVE  StoreStep
  BY <1>1, StoreMint, PriorityLemma DEF Ingest
<1>2. ASSUME NEW i \in Incidents, NEW pb \in UsedPlaybooks, NEW s \in Severities, Locked,
             SpawnFromIncident(i, pb, s)
      PROVE  StoreStep
  <2> DEFINE pr == SeverityPriority[s]
             Minted(t) == tasks' = [u \in DOMAIN tasks \cup {t} |->
                                      IF u = t THEN NewRow(i, pb, pr) ELSE tasks[u]]
             Raised(t) == tasks' = [tasks EXCEPT ![t].priority =
                                      IF Rank(pr) > Rank(@) THEN pr ELSE @]
  <2>1. PICK t \in TaskIds : \/ t \notin DOMAIN tasks /\ Minted(t) /\ LiveTasks(i, pb) = {}
                             \/ t \in DOMAIN tasks /\ Raised(t)
    BY <1>2 DEF SpawnFromIncident, LiveTasks, Locked, Typed
  <2>2. pr \in Priorities
    BY PriorityLemma
  <2>3. CASE t \notin DOMAIN tasks /\ Minted(t) /\ LiveTasks(i, pb) = {}
    BY <1>2, <2>2, <2>3, StoreMint
  <2>4. CASE t \in DOMAIN tasks /\ Raised(t)
    BY <1>2, <2>2, <2>4, StoreRaise
  <2> QED BY <2>1, <2>3, <2>4
<1>3. ASSUME NEW t \in TaskIds, Locked, RequestClarification(t) \/ ClarificationReply(t)
      PROVE  StoreStep
  <2>1. t \in DOMAIN tasks
    BY <1>3 DEF RequestClarification, ClarificationReply
  <2>2. CASE RequestClarification(t)
    <3>1. /\ Outcome("request_clarification", "RECEIVED") = {"AWAITING_CLARIFICATION"}
          /\ Outcome("request_clarification", "PLANNING") = {"AWAITING_CLARIFICATION"}
          /\ "request_clarification" \in Events
      BY DEF Outcome, Transitions, States, Active, Terminal, Waits, Events
    <3> QED BY <1>3, <2>1, <2>2, <3>1, StoreState DEF RequestClarification
  <2>3. CASE ClarificationReply(t)
    <3>1. "clarify_reply" \in Events
      BY DEF Events
    <3> QED BY <1>3, <2>1, <2>3, <3>1, StoreState DEF ClarificationReply
  <2> QED BY <1>3, <2>2, <2>3
<1> QED BY <1>1, <1>2, <1>3

(* Every step of the supervisor is a call of the store, or none: for any   *)
(* tasks, threads, faults, clicks and restarts.                            *)
THEOREM StoreIsUsed == Spec => UsesStore
<1>1. Init => Store!Init
  BY SMTT(30) DEF Init, Store!Init, StoreRows
<1>2. Locked /\ [Next]_vars => [Store!Next]_Store!vars
  <2> SUFFICES ASSUME Locked, [Next]_vars PROVE StoreStep
    BY DEF StoreStep, Store!vars
  <2>1. CASE UNCHANGED tasks
    BY <2>1 DEF StoreStep, StoreRows
  <2> QED BY <2>1, StoreThread, StoreDoors
          DEF Next, StartDrive, Decide, Crash, vars, persistent
<1> QED BY <1>1, <1>2, LockedInit, LockedNext, PTL DEF Spec, UsesStore, Store!Spec

-----------------------------------------------------------------------------
(***************************************************************************)
(* The walk.  The playbooks are the same on both sides.                    *)
(***************************************************************************)
LEMMA SameBooks ==
  /\ \A pb : Walk!StagesOf(pb) = StagesOf(pb) /\ Walk!GatesOf(pb) = GatesOf(pb)
  /\ \A pb, s : /\ Walk!StageIndex(pb, s) = StageIndex(pb, s)
                /\ Walk!BackEdges(pb, s) = BackEdges(pb, s)
                /\ Walk!Cap(pb, s) = Cap(pb, s) /\ Walk!TargetOf(pb, s) = TargetOf(pb, s)
  /\ Walk!StageMenu = StageMenu
<1>1. Walk!PlaybookTable = PlaybookTable
  BY DEF Walk!PlaybookTable, PlaybookTable
<1>2. \A pb : Walk!StagesOf(pb) = StagesOf(pb) /\ Walk!GatesOf(pb) = GatesOf(pb)
  BY <1>1 DEF Walk!StagesOf, StagesOf, Walk!GatesOf, GatesOf
<1>3. \A pb, s : Walk!StageIndex(pb, s) = StageIndex(pb, s)
  BY <1>2 DEF Walk!StageIndex, StageIndex
<1>4. \A pb, s : Walk!BackEdges(pb, s) = BackEdges(pb, s)
  BY <1>1 DEF Walk!BackEdges, BackEdges
<1>5. \A pb, s : Walk!Cap(pb, s) = Cap(pb, s) /\ Walk!TargetOf(pb, s) = TargetOf(pb, s)
  BY DEF Walk!Cap, Cap, Walk!TargetOf, TargetOf, Walk!BackEdges, BackEdges,
     Walk!StageIndex, StageIndex, Walk!StagesOf, StagesOf, Walk!PlaybookTable, PlaybookTable
<1>6. Walk!StageMenu = StageMenu
  BY DEF Walk!StageMenu, StageMenu
<1> QED BY <1>2, <1>3, <1>4, <1>5, <1>6

WalkStep == Walk!Next \/ UNCHANGED Walk!vars

(* The back-edge is taken, its target not yet written to the row. *)
Returning(t) == \E p \in Threads : At(p, "back") /\ thr[p].task = t

SameAt(u) == WalkAt'[u] = WalkAt[u]
SameTries(u) == WalkTries'[u] = WalkTries[u]
SameGranted(u) == WalkGranted'[u] = WalkGranted[u]
SameOutcome(u) == WalkOutcome'[u] = WalkOutcome[u]
SameBook(u) == WalkBook'[u] = WalkBook[u]
SameWalk(u) == SameBook(u) /\ SameAt(u) /\ SameTries(u) /\ SameGranted(u) /\ SameOutcome(u)

LEMMA WalkRow ==
  ASSUME NEW t \in TaskIds, t \in DOMAIN tasks
  PROVE  /\ WalkBook[t] = tasks[t].playbook /\ WalkTries[t] = tasks[t].replans
         /\ WalkAt[t] = IF Returning(t) THEN TargetOf(tasks[t].playbook, "act") ELSE Pos(t)
         /\ WalkGranted[t] = {g \in Gates : records[t][g] = "APPROVED"}
         /\ WalkOutcome[t] = IF tasks[t].state \notin Terminal THEN "open"
                             ELSE IF tasks[t].state = "REPORTED" THEN "reported" ELSE "given_up"
BY DEF WalkBook, WalkTries, WalkAt, WalkGranted, WalkOutcome, Returning

LEMMA WalkUnborn ==
  ASSUME NEW t \in TaskIds, t \notin DOMAIN tasks
  PROVE  /\ WalkBook[t] = None /\ WalkTries[t] = 0 /\ WalkAt[t] = 1
         /\ WalkGranted[t] = {g \in Gates : records[t][g] = "APPROVED"}
         /\ WalkOutcome[t] = "open"
BY DEF WalkBook, WalkTries, WalkAt, WalkGranted, WalkOutcome

LEMMA WalkSame == (\A u \in TaskIds : SameWalk(u)) => WalkStep
BY DEF SameWalk, SameBook, SameAt, SameTries, SameGranted, SameOutcome, WalkStep, Walk!vars,
       WalkBook, WalkTries, WalkAt, WalkGranted, WalkOutcome

SameGrants(u) == \A g \in Gates : records'[u][g] = "APPROVED" <=> records[u][g] = "APPROVED"
SameEnd(u) == \/ tasks'[u].state = tasks[u].state
              \/ tasks[u].state \notin Terminal /\ tasks'[u].state \notin Terminal

(* A task the step leaves where it is. *)
LEMMA StillLemma ==
  ASSUME NEW u \in TaskIds, u \in DOMAIN tasks' <=> u \in DOMAIN tasks,
         u \in DOMAIN tasks => /\ tasks'[u].playbook = tasks[u].playbook
                               /\ tasks'[u].cursor = tasks[u].cursor
                               /\ tasks'[u].replans = tasks[u].replans
                               /\ SameEnd(u),
         Returning(u)' <=> Returning(u), SameGrants(u)
  PROVE  SameWalk(u)
<1>1. SameGranted(u)
  BY DEF SameGranted, WalkGranted, SameGrants
<1>2. CASE u \in DOMAIN tasks
  <2>1. SameBook(u) /\ SameTries(u)
    BY <1>2 DEF SameBook, SameTries, WalkBook, WalkTries
  <2>2. SameAt(u)
    BY <1>2 DEF SameAt, WalkAt, Returning, Pos
  <2>3. SameOutcome(u)
    BY <1>2 DEF SameOutcome, WalkOutcome, SameEnd, Terminal
  <2> QED BY <1>1, <2>1, <2>2, <2>3 DEF SameWalk
<1>3. CASE u \notin DOMAIN tasks
  BY <1>1, <1>3 DEF SameWalk, SameBook, SameAt, SameTries, SameOutcome,
     WalkBook, WalkAt, WalkTries, WalkOutcome
<1> QED BY <1>2, <1>3

LEMMA ReturningFrame ==
  ASSUME NEW p \in Threads, Elsewhere(p), NEW u,
         \/ thr[p].pc # "back" /\ thr'[p].pc # "back"
         \/ thr[p].task # u /\ thr'[p].task # u
  PROVE  Returning(u)' <=> Returning(u)
BY DEF Returning, Elsewhere, At

LEMMA WalkShape ==
  /\ WalkBook = [u \in TaskIds |-> WalkBook[u]] /\ WalkBook' = [u \in TaskIds |-> WalkBook'[u]]
  /\ WalkAt = [u \in TaskIds |-> WalkAt[u]] /\ WalkAt' = [u \in TaskIds |-> WalkAt'[u]]
  /\ WalkTries = [u \in TaskIds |-> WalkTries[u]]
  /\ WalkTries' = [u \in TaskIds |-> WalkTries'[u]]
  /\ WalkGranted = [u \in TaskIds |-> WalkGranted[u]]
  /\ WalkGranted' = [u \in TaskIds |-> WalkGranted'[u]]
  /\ WalkOutcome = [u \in TaskIds |-> WalkOutcome[u]]
  /\ WalkOutcome' = [u \in TaskIds |-> WalkOutcome'[u]]
BY DEF WalkBook, WalkAt, WalkTries, WalkGranted, WalkOutcome

(* The steps of the walk, told by what changes at one task. *)
LEMMA WalkStart ==
  ASSUME NEW t \in TaskIds, NEW pb \in UsedPlaybooks,
         \A u \in TaskIds \ {t} : SameWalk(u),
         SameAt(t), SameTries(t), SameGranted(t), SameOutcome(t),
         WalkBook[t] = None, WalkBook'[t] = pb
  PROVE  WalkStep
<1>1. WalkBook' = [WalkBook EXCEPT ![t] = pb]
  BY WalkShape DEF SameWalk, SameBook
<1>2. UNCHANGED <<WalkAt, WalkTries, WalkGranted, WalkOutcome>>
  BY WalkShape DEF SameWalk, SameAt, SameTries, SameGranted, SameOutcome
<1>3. Walk!Start(t, pb)
  BY <1>1, <1>2 DEF Walk!Start
<1> QED BY <1>3 DEF WalkStep, Walk!Next

LEMMA WalkGrant ==
  ASSUME NEW t \in TaskIds, NEW g \in StageMenu,
         \A u \in TaskIds \ {t} : SameWalk(u),
         SameBook(t), SameAt(t), SameTries(t), SameOutcome(t),
         WalkBook[t] # None, WalkOutcome[t] = "open",
         WalkGranted'[t] = WalkGranted[t] \cup {g}
  PROVE  WalkStep
<1>1. WalkGranted' = [WalkGranted EXCEPT ![t] = @ \cup {g}]
  BY WalkShape DEF SameWalk, SameGranted
<1>2. UNCHANGED <<WalkAt, WalkTries, WalkBook, WalkOutcome>>
  BY WalkShape DEF SameWalk, SameAt, SameTries, SameBook, SameOutcome
<1>3. Walk!Grant(t, g)
  BY <1>1, <1>2 DEF Walk!Grant, Walk!Walking
<1> QED BY <1>3, SameBooks DEF WalkStep, Walk!Next

LEMMA WalkForward ==
  ASSUME NEW t \in TaskIds, \A u \in TaskIds \ {t} : SameWalk(u),
         SameBook(t), SameTries(t), SameGranted(t), SameOutcome(t),
         WalkBook[t] # None, WalkOutcome[t] = "open",
         NEW n, n < Len(StagesOf(WalkBook[t])) + 1,
         StagesOf(WalkBook[t])[n] \in GatesOf(WalkBook[t])
           => StagesOf(WalkBook[t])[n] \in WalkGranted[t],
         WalkAt[t] = n, WalkAt'[t] = n + 1
  PROVE  WalkStep
<1>1. WalkAt' = [WalkAt EXCEPT ![t] = @ + 1]
  BY WalkShape DEF SameWalk, SameAt
<1>2. UNCHANGED <<WalkGranted, WalkTries, WalkBook, WalkOutcome>>
  BY WalkShape DEF SameWalk, SameGranted, SameTries, SameBook, SameOutcome
<1>3. WalkAt[t] < Walk!Len1(t)
  BY SameBooks DEF Walk!Len1
<1>4. LET s == Walk!StagesOf(WalkBook[t])[WalkAt[t]]
      IN  s \in Walk!GatesOf(WalkBook[t]) => s \in WalkGranted[t]
  BY SameBooks
<1>5. Walk!Forward(t)
  BY <1>1, <1>2, <1>3, <1>4 DEF Walk!Forward, Walk!Walking
<1> QED BY <1>5 DEF WalkStep, Walk!Next

LEMMA WalkBack ==
  ASSUME NEW t \in TaskIds, NEW s \in StageMenu, \A u \in TaskIds \ {t} : SameWalk(u),
         SameBook(t), SameGranted(t), SameOutcome(t),
         WalkBook[t] # None, WalkOutcome[t] = "open", BackEdges(WalkBook[t], s) # {},
         WalkAt[t] = StageIndex(WalkBook[t], s) + 1, WalkTries[t] < Cap(WalkBook[t], s),
         WalkAt'[t] = TargetOf(WalkBook[t], s), WalkTries'[t] = WalkTries[t] + 1
  PROVE  WalkStep
<1>1. WalkAt' = [WalkAt EXCEPT ![t] = TargetOf(WalkBook[t], s)]
  BY WalkShape DEF SameWalk, SameAt
<1>2. WalkTries' = [WalkTries EXCEPT ![t] = @ + 1]
  BY WalkShape DEF SameWalk, SameTries
<1>3. UNCHANGED <<WalkGranted, WalkBook, WalkOutcome>>
  BY WalkShape DEF SameWalk, SameGranted, SameBook, SameOutcome
<1>4. Walk!Back(t, s)
  BY <1>1, <1>2, <1>3, SameBooks DEF Walk!Back, Walk!Walking
<1> QED BY <1>4, SameBooks DEF WalkStep, Walk!Next

LEMMA WalkEnd ==
  ASSUME NEW t \in TaskIds, \A u \in TaskIds \ {t} : SameWalk(u),
         SameBook(t), SameGranted(t), SameAt(t), SameTries(t),
         WalkBook[t] # None, WalkOutcome[t] = "open",
         \/ WalkOutcome'[t] = "given_up"
         \/ /\ WalkOutcome'[t] = "reported"
            /\ WalkAt[t] = Len(StagesOf(WalkBook[t])) + 1
  PROVE  WalkStep
<1>1. WalkOutcome' = [WalkOutcome EXCEPT ![t] = WalkOutcome'[t]]
  BY WalkShape DEF SameWalk, SameOutcome
<1>2. UNCHANGED <<WalkAt, WalkTries, WalkBook, WalkGranted>>
  BY WalkShape DEF SameWalk, SameAt, SameTries, SameBook, SameGranted
<1>3. CASE WalkOutcome'[t] = "given_up"
  <2>1. Walk!GiveUp(t)
    BY <1>1, <1>2, <1>3 DEF Walk!GiveUp, Walk!Walking
  <2> QED BY <2>1 DEF WalkStep, Walk!Next
<1>4. CASE WalkOutcome'[t] = "reported" /\ WalkAt[t] = Len(StagesOf(WalkBook[t])) + 1
  <2>1. WalkAt[t] = Walk!Len1(t)
    BY <1>4, SameBooks DEF Walk!Len1
  <2>2. Walk!Report(t)
    BY <1>1, <1>2, <1>4, <2>1 DEF Walk!Report, Walk!Walking
  <2> QED BY <2>2 DEF WalkStep, Walk!Next
<1> QED BY <1>3, <1>4

(* A thread's step at its task: the other tasks stay where they are. *)
LEMMA OthersStill ==
  ASSUME NEW p \in Threads, Elsewhere(p), thr'[p].task = thr[p].task,
         Others(thr[p].task), \A u \in TaskIds \ {thr[p].task} : SameGrants(u)
  PROVE  \A u \in TaskIds \ {thr[p].task} : SameWalk(u)
<1>1. ASSUME NEW u \in TaskIds, u # thr[p].task PROVE SameWalk(u)
  <2>1. Returning(u)' <=> Returning(u)
    BY <1>1, ReturningFrame
  <2> QED BY <1>1, <2>1, StillLemma DEF Others, SameEnd
<1> QED BY <1>1

(* A step that leaves every row in its place. *)
LEMMA WalkStill ==
  ASSUME NEW p \in Threads, Elsewhere(p), thr[p].pc # "back", thr'[p].pc # "back",
         \A u \in TaskIds : SameGrants(u), NEW t,
         \/ UNCHANGED tasks
         \/ /\ Others(t) /\ Kept(t) /\ tasks'[t].cursor = tasks[t].cursor /\ SameEnd(t)
  PROVE  WalkStep
<1>1. ASSUME NEW u \in TaskIds PROVE SameWalk(u)
  <2>1. Returning(u)' <=> Returning(u)
    BY ReturningFrame
  <2> QED BY <1>1, <2>1, StillLemma DEF Others, Kept, SameEnd
<1> QED BY <1>1, WalkSame

(* Who holds the lock is the only one on the way back. *)
LEMMA NobodyReturns ==
  ASSUME Locked, NEW p \in Threads, thr[p].round > 0, thr[p].pc # "back", NEW t
  PROVE  ~Returning(t)
BY DEF Returning, Locked, Bound, Holding, Walking, Acting, At

LEMMA WalkTask ==
  ASSUME Locked, NEW t \in DOMAIN tasks, tasks[t].state \notin Terminal
  PROVE  /\ t \in TaskIds /\ WalkBook[t] = tasks[t].playbook /\ WalkBook[t] # None
         /\ WalkOutcome[t] = "open" /\ tasks[t].playbook \in UsedPlaybooks
<1>1. t \in TaskIds /\ tasks[t] \in Rows
  BY DEF Locked, Typed
<1>2. tasks[t].playbook \in UsedPlaybooks
  BY <1>1 DEF Rows
<1> QED BY <1>1, <1>2, WalkRow, NoneAssumption

(* A live task's state is written. *)
LEMMA WalkState ==
  ASSUME Locked, NEW p \in Threads, Elsewhere(p), UNCHANGED records,
         thr[p].pc # "back", thr'[p].pc # "back", thr'[p].task = thr[p].task,
         thr[p].task \in DOMAIN tasks, tasks[thr[p].task].state \notin Terminal,
         NEW s, Put(thr[p].task, s),
         s = "REPORTED" => /\ ~Returning(thr[p].task)
                           /\ Pos(thr[p].task) = Len(Stages(thr[p].task)) + 1
  PROVE  WalkStep
<1> DEFINE t == thr[p].task
<1>1. /\ Others(t) /\ Kept(t) /\ tasks'[t].cursor = tasks[t].cursor /\ tasks'[t].state = s
      /\ \A u : SameGrants(u)
  BY DEF Put, Columns, SameGrants
<1>2. CASE s \notin Terminal
  BY <1>1, <1>2, WalkStill DEF SameEnd
<1>3. CASE s \in Terminal
  <2>1. \A u \in TaskIds \ {t} : SameWalk(u)
    BY <1>1, OthersStill
  <2>2. /\ t \in TaskIds /\ WalkBook[t] = tasks[t].playbook /\ WalkBook[t] # None
        /\ WalkOutcome[t] = "open" /\ t \in DOMAIN tasks'
    BY <1>1, WalkTask DEF Others
  <2>3. SameBook(t) /\ SameTries(t)
    BY <1>1, <2>2 DEF SameBook, SameTries, WalkBook, WalkTries, Kept
  <2>4. SameGranted(t)
    BY <1>1 DEF SameGranted, WalkGranted, SameGrants
  <2>5. Returning(t)' <=> Returning(t)
    BY ReturningFrame
  <2>6. SameAt(t)
    BY <1>1, <2>2, <2>5 DEF SameAt, WalkAt, Pos, Kept, Returning
  <2>7. WalkOutcome'[t] = IF s = "REPORTED" THEN "reported" ELSE "given_up"
    BY <1>1, <1>3, <2>2 DEF WalkOutcome
  <2>8. s = "REPORTED" => WalkAt[t] = Len(StagesOf(WalkBook[t])) + 1
    BY <2>2, WalkRow DEF Stages
  <2> QED BY <2>1, <2>2, <2>3, <2>4, <2>6, <2>7, <2>8, WalkEnd
<1> QED BY <1>2, <1>3

(* A gate is passed. *)
LEMMA WalkSetCursor ==
  ASSUME Locked, Once, NEW p \in Threads, SetCursor(p)
  PROVE  WalkStep
<1> DEFINE t == thr[p].task
           n == thr[p].pos
           pb == tasks[t].playbook
<1>1. /\ UNCHANGED records /\ At(p, "cursor") /\ t \in DOMAIN tasks /\ Others(t) /\ Kept(t)
      /\ tasks'[t].state = tasks[t].state /\ tasks'[t].cursor = n + 1 /\ Pos(t) = n
      /\ n \in 1..Len(Stages(t)) /\ Elsewhere(p) /\ thr'[p].task = t
      /\ thr'[p].pc # "back" /\ Walkable(pb)
  BY SetCursorEffect, SMTT(30)
<1>2. /\ tasks[t].state \notin Terminal /\ thr[p].round > 0 /\ thr[p].pc # "back"
      /\ Stage(p) \in GatesOf(pb) => records[t][Stage(p)] = "APPROVED"
  BY <1>1 DEF Locked, Bound, Walking, Holding, At, Once, Judged
<1>3. /\ t \in TaskIds /\ WalkBook[t] = pb /\ WalkBook[t] # None
      /\ WalkOutcome[t] = "open" /\ pb \in UsedPlaybooks /\ t \in DOMAIN tasks'
  BY <1>1, <1>2, WalkTask DEF Others
<1>4. \A u \in TaskIds : SameGrants(u)
  BY <1>1 DEF SameGrants
<1>5. \A u \in TaskIds \ {t} : SameWalk(u)
  BY <1>1, <1>4, OthersStill
<1>6. SameBook(t) /\ SameTries(t) /\ SameGranted(t) /\ SameOutcome(t)
  BY <1>1, <1>3, <1>4 DEF SameBook, SameTries, SameGranted, SameOutcome, SameGrants,
     WalkBook, WalkTries, WalkGranted, WalkOutcome, Kept
<1>7. ~Returning(t) /\ ~Returning(t)'
  BY <1>1, <1>2, NobodyReturns, ReturningFrame
<1>8. WalkAt[t] = n /\ WalkAt'[t] = n + 1
  <2>1. n + 1 # 0 /\ n + 1 = Pos(t)'
    BY <1>1 DEF Pos
  <2> QED BY <1>1, <1>3, <1>7, <2>1, WalkRow DEF WalkAt, Returning, Pos
<1>9. Stage(p) \in GatesOf(pb) => Stage(p) \in WalkGranted[t]
  <2>1. Stage(p) \in GatesOf(pb) => Stage(p) \in Gates
    BY <1>3 DEF Gates
  <2>2. WalkGranted[t] = {g \in Gates : records[t][g] = "APPROVED"}
    BY <1>1, <1>3, WalkRow
  <2> QED BY <1>2, <2>1, <2>2
<1>10. n < Len(StagesOf(pb)) + 1
  <2> DEFINE len == Len(StagesOf(pb))
  <2>1. len \in 1..7 /\ n \in 1..len
    BY <1>1 DEF Walkable, Stages
  <2> HIDE DEF len, n
  <2>2. n < len + 1
    BY <2>1
  <2> QED BY <2>2, SMTT(30) DEF len, n
<1>11. StagesOf(pb)[n] = Stage(p)
  BY DEF Stage, Stages
<1> HIDE DEF n
<1> QED BY <1>3, <1>5, <1>6, <1>8, <1>9, <1>10, <1>11, WalkForward

(* The back-edge is taken when the count is raised... *)
LEMMA WalkGiveUpOrRetry ==
  ASSUME Locked, NEW p \in Threads, GiveUpOrRetry(p)
  PROVE  WalkStep
<1> DEFINE t == thr[p].task
           pb == tasks[t].playbook
<1>1. /\ UNCHANGED records /\ At(p, "act_failed") /\ t \in DOMAIN tasks
      /\ \/ /\ Moved(p, "back") /\ Others(t) /\ Columns(t)
            /\ tasks'[t].state = tasks[t].state /\ tasks'[t].playbook = pb
            /\ tasks[t].replans < Cap(pb, "act") /\ tasks'[t].replans = tasks[t].replans + 1
         \/ Moved(p, "release") /\ Put(t, "PARTIAL")
  BY GiveUpEffect
<1>2. /\ tasks[t].state \notin Terminal /\ thr[p].round > 0 /\ thr[p].pc # "back"
      /\ Pos(t) = ActAt(t) + 1
  BY <1>1 DEF Locked, Bound, Walking, Holding, Acting, At
<1>3. /\ t \in TaskIds /\ WalkBook[t] = pb /\ WalkBook[t] # None
      /\ WalkOutcome[t] = "open" /\ pb \in UsedPlaybooks
  BY <1>1, <1>2, WalkTask
<1>4. CASE Moved(p, "release") /\ Put(t, "PARTIAL")
  BY <1>1, <1>2, <1>4, WalkState DEF Moved
<1>5. CASE /\ Moved(p, "back") /\ Others(t) /\ Columns(t)
           /\ tasks'[t].state = tasks[t].state /\ tasks'[t].playbook = pb
           /\ tasks[t].replans < Cap(pb, "act") /\ tasks'[t].replans = tasks[t].replans + 1
  <2>1. \A u \in TaskIds : SameGrants(u)
    BY <1>1 DEF SameGrants
  <2>2. \A u \in TaskIds \ {t} : SameWalk(u)
    BY <1>5, <2>1, OthersStill DEF Moved
  <2>3. SameBook(t) /\ SameGranted(t) /\ SameOutcome(t) /\ t \in DOMAIN tasks'
    BY <1>1, <1>3, <1>5, <2>1 DEF SameBook, SameGranted, SameOutcome, SameGrants,
       WalkBook, WalkGranted, WalkOutcome, Others
  <2>4. ~Returning(t) /\ Returning(t)'
    BY <1>2, <1>5, NobodyReturns DEF Returning, Moved, At
  <2>5. /\ WalkAt[t] = StageIndex(WalkBook[t], "act") + 1
        /\ WalkTries[t] < Cap(WalkBook[t], "act")
    BY <1>1, <1>2, <1>3, <1>5, <2>4, WalkRow DEF ActAt
  <2>6. /\ WalkAt'[t] = TargetOf(WalkBook[t], "act")
        /\ WalkTries'[t] = WalkTries[t] + 1
    <3>1. /\ tasks'[t].playbook = WalkBook[t] /\ tasks'[t].replans = WalkTries[t] + 1
          /\ thr'[p].task = t
      BY <1>1, <1>3, <1>5, WalkRow DEF Moved
    <3> QED BY <1>3, <2>3, <2>4, <3>1 DEF WalkAt, WalkTries, Returning
  <2>7. Walkable(pb) /\ tasks[t].replans \in Nat
    BY <1>1, <1>3, PlaybookLemma, SMTT(30) DEF Locked, Typed, Rows
  <2>8. BackEdges(WalkBook[t], "act") # {}
    <3> DEFINE c == Cap(pb, "act")
               r == tasks[t].replans
    <3>1. c \in 0..3 /\ r \in Nat /\ r < c
      BY <1>5, <2>7 DEF Walkable
    <3> HIDE DEF c, r
    <3>2. c > 0
      BY <3>1
    <3> QED BY <1>3, <2>7, <3>2, ZenonT(60) DEF Walkable, c
  <2>9. "act" \in StageMenu
    BY DEF StageMenu
  <2> QED BY <1>3, <2>2, <2>3, <2>5, <2>6, <2>8, <2>9, WalkBack
<1> QED BY <1>1, <1>4, <1>5

(* ...and the row follows. *)
LEMMA WalkGoBack ==
  ASSUME Locked, NEW p \in Threads, GoBack(p)
  PROVE  WalkStep
<1> DEFINE t == thr[p].task
           pb == tasks[t].playbook
           to == TargetOf(pb, "act")
<1>1. /\ UNCHANGED records /\ At(p, "back") /\ Moved(p, "replan") /\ t \in DOMAIN tasks
      /\ Others(t) /\ Kept(t) /\ tasks'[t].state = tasks[t].state
      /\ tasks'[t].cursor = to /\ tasks'[t].cursor \in 1..(ActAt(t) - 1)
  BY GoBackEffect
<1>2. t \in TaskIds /\ t \in DOMAIN tasks'
  BY <1>1 DEF Locked, Typed, Others
<1>3. \A u \in TaskIds : SameGrants(u)
  BY <1>1 DEF SameGrants
<1>4. \A u \in TaskIds \ {t} : SameWalk(u)
  BY <1>1, <1>3, OthersStill DEF Moved
<1>5. SameBook(t) /\ SameTries(t) /\ SameGranted(t) /\ SameOutcome(t)
  BY <1>1, <1>2, <1>3 DEF SameBook, SameTries, SameGranted, SameOutcome, SameGrants,
     WalkBook, WalkTries, WalkGranted, WalkOutcome, Kept
<1>6. Returning(t)
  BY <1>1 DEF Returning
<1>7. ~Returning(t)'
  <2>1. thr[p].round > 0
    BY <1>1 DEF Locked, Bound, Holding, Walking, Acting, At
  <2>2. \A q \in Threads : q # p => thr[q].pc # "back"
    BY <2>1 DEF Locked, Bound, Holding, Walking, Acting
  <2>3. thr'[p].pc # "back"
    BY <1>1 DEF Moved
  <2> QED BY <1>1, <2>2, <2>3 DEF Returning, Moved, Elsewhere, At
<1>8. SameAt(t)
  <2>1. WalkAt[t] = to
    BY <1>1, <1>2, <1>6, WalkRow
  <2>2. Pos(t)' = tasks'[t].cursor
    BY <1>1 DEF Pos, Moved
  <2>3. WalkAt'[t] = Pos(t)'
    BY <1>1, <1>2, <1>7 DEF WalkAt, Returning, Pos, Moved
  <2> QED BY <1>1, <2>1, <2>2, <2>3 DEF SameAt
<1>9. SameWalk(t)
  BY <1>5, <1>8 DEF SameWalk
<1> HIDE DEF t
<1>10. \A u \in TaskIds : SameWalk(u)
  BY <1>4, <1>9
<1> QED BY <1>10, WalkSame

(* A verdict on a task that waits for it. *)
LEMMA WalkUpdateStatus ==
  ASSUME Locked, Once, NEW p \in Threads, UpdateStatus(p)
  PROVE  WalkStep
<1> DEFINE t == thr[p].task
           g == thr[p].card
           v == thr[p].verdict
<1>1. /\ UNCHANGED tasks /\ At(p, "status") /\ Moved(p, "read_back") /\ t \in DOMAIN tasks
      /\ t \in TaskIds /\ g \in Gates /\ v \in Decided /\ records'[t][g] = v
      /\ \A u \in TaskIds, h \in Gates : u # t \/ h # g => records'[u][h] = records[u][h]
  BY UpdateEffect
<1>2. /\ tasks[t].state = "AWAITING_APPROVAL" /\ records[t][g] \notin Decided
      /\ tasks[t].state \notin Terminal
  BY <1>1 DEF Once, Judged, At, Judging, Terminal
<1>3. /\ WalkBook[t] # None /\ WalkOutcome[t] = "open"
  BY <1>1, <1>2, WalkTask
<1>4. thr[p].pc # "back" /\ thr'[p].pc # "back" /\ Elsewhere(p) /\ thr'[p].task = t
  BY <1>1 DEF Moved, At
<1>5. CASE v = "DENIED"
  <2>1. \A u \in TaskIds : SameGrants(u)
    BY <1>1, <1>2, <1>5 DEF SameGrants, Decided
  <2> QED BY <1>1, <1>4, <2>1, WalkStill
<1>6. CASE v = "APPROVED"
  <2>1. \A u \in TaskIds \ {t} : SameGrants(u)
    BY <1>1 DEF SameGrants
  <2>2. \A u \in TaskIds \ {t} : SameWalk(u)
    BY <1>1, <1>4, <2>1, OthersStill DEF Others
  <2>3. Returning(t)' <=> Returning(t)
    BY <1>4, ReturningFrame
  <2>4. SameBook(t) /\ SameAt(t) /\ SameTries(t) /\ SameOutcome(t)
    BY <1>1, <1>4, <2>3 DEF SameBook, SameAt, SameTries, SameOutcome,
       WalkBook, WalkAt, WalkTries, WalkOutcome, Returning, Pos
  <2>5. WalkGranted'[t] = WalkGranted[t] \cup {g}
    BY <1>1, <1>6 DEF WalkGranted
  <2>6. g \in StageMenu
    BY <1>1, PlaybookLemma DEF Gates, Walkable
  <2> QED BY <1>1, <1>3, <2>2, <2>4, <2>5, <2>6, WalkGrant
<1> QED BY <1>1, <1>5, <1>6 DEF Decided

LEMMA WalkDrive == \A p \in Threads : Locked /\ Once /\ Drive(p) => WalkStep
<1> SUFFICES ASSUME Locked, Once, NEW p \in Threads, Drive(p) PROVE WalkStep
  OBVIOUS
<1> DEFINE t == thr[p].task
<1> USE DEF At
<1>0. ASSUME UNCHANGED records PROVE \A u : SameGrants(u)
  BY <1>0 DEF SameGrants
<1>1. CASE Acquire(p) \/ Snap(p) \/ Check(p) \/ Release(p)
  <2>1. /\ Silent /\ Elsewhere(p) /\ thr[p].pc # "back"
        /\ thr'[p].pc \in {"idle", "acquire", "release", "snap", "enter"}
    BY <1>1, SilentEffect DEF Acquire, Snap, Check, Release
  <2> QED BY <1>0, <2>1, WalkStill DEF Silent
<1>2. CASE Enter(p)
  <2>1. /\ UNCHANGED records /\ Elsewhere(p) /\ thr[p].pc = "enter" /\ thr'[p].pc # "back"
        /\ \/ UNCHANGED tasks
           \/ tasks[t].state \notin Terminal /\ Put(t, "PLANNING")
    BY <1>2, EnterEffect DEF Moved
  <2>2. "PLANNING" \notin Terminal
    BY DEF Terminal
  <2> QED BY <1>0, <2>1, <2>2, WalkStill DEF Put, Columns, SameEnd
<1>3. CASE PlanDone(p) \/ Replan(p)
  <2>1. /\ UNCHANGED records /\ Elsewhere(p) /\ thr[p].pc \in {"stage", "replan"}
        /\ thr'[p].pc # "back"
        /\ UNCHANGED tasks \/ Put(t, "COORDINATING") \/ Put(t, "PLANNING")
    BY <1>3, PlanEffect, ReplanEffect DEF Moved
  <2>2. /\ tasks[t].state \notin Terminal
        /\ "PLANNING" \notin Terminal /\ "COORDINATING" \notin Terminal
    BY <2>1 DEF Terminal, Locked, Bound, Walking
  <2> QED BY <1>0, <2>1, <2>2, WalkStill DEF Put, Columns, SameEnd
<1>4. CASE Execute(p)
  <2>1. /\ UNCHANGED <<tasks, records>> /\ Elsewhere(p) /\ thr[p].pc # "back"
        /\ thr'[p].pc # "back"
    BY <1>4, ExecuteEffect DEF Moved
  <2> QED BY <1>0, <2>1, WalkStill
<1>5. CASE SaveEvidence(p)
  <2>1. /\ UNCHANGED records /\ Elsewhere(p) /\ thr[p].pc # "back" /\ thr'[p].pc # "back"
        /\ Others(t) /\ Kept(t) /\ tasks'[t].state = tasks[t].state
        /\ tasks'[t].cursor = tasks[t].cursor
    BY <1>5, SaveEffect DEF Moved
  <2> QED BY <1>0, <2>1, WalkStill DEF SameEnd
<1>6. CASE ApplyAction(p)
  <2>1. /\ UNCHANGED <<tasks, records>> /\ Elsewhere(p) /\ thr[p].pc # "back"
        /\ thr'[p].pc # "back"
    BY <1>6, ActEffect DEF Moved
  <2> QED BY <1>0, <2>1, WalkStill
<1>7. CASE Finish(p)
  <2>1. /\ UNCHANGED records /\ thr[p].pc = "stage" /\ AtEnd(p) /\ t \in DOMAIN tasks
        /\ Moved(p, "release")
        /\ UNCHANGED tasks \/ Put(t, "REPORTED")
    BY <1>7, FinishEffect
  <2>2. /\ thr[p].round > 0 /\ thr[p].pos = Pos(t) /\ tasks[t].state \notin Terminal
        /\ Fits(t) /\ Walkable(tasks[t].playbook)
    BY <2>1, RowLemma DEF Walking, Holding, Locked, Bound, Row
  <2>3. CASE UNCHANGED tasks
    BY <1>0, <2>1, <2>3, WalkStill DEF Moved
  <2>4. CASE Put(t, "REPORTED")
    <3>1. ~Returning(t)
      BY <2>1, <2>2, NobodyReturns
    <3> DEFINE n == Len(Stages(t))
               k == Pos(t)
    <3>2. n \in 1..7 /\ k \in 1..(n + 1) /\ k > n
      BY <2>1, <2>2 DEF Walkable, Stages, Fits, AtEnd
    <3>3. k = n + 1
      <4> HIDE DEF n, k
      <4> QED BY <3>2
    <3> QED BY <2>1, <2>2, <2>4, <3>1, <3>3, WalkState DEF Moved
  <2> QED BY <2>1, <2>3, <2>4
<1> QED BY <1>1, <1>2, <1>3, <1>4, <1>5, <1>6, <1>7, WalkSetCursor, WalkGiveUpOrRetry,
           WalkGoBack DEF Drive

LEMMA WalkThread == \A p \in Threads : Locked /\ Once /\ Step(p) => WalkStep
<1> SUFFICES ASSUME Locked, Once, NEW p \in Threads, Step(p) PROVE WalkStep
  OBVIOUS
<1> DEFINE t == thr[p].task
<1> USE DEF At
<1>0. ASSUME UNCHANGED records PROVE \A u : SameGrants(u)
  BY <1>0 DEF SameGrants
<1>1. CASE Park(p)
  <2>1. /\ UNCHANGED records /\ Elsewhere(p) /\ thr[p].pc = "stage" /\ thr'[p].pc # "back"
        /\ UNCHANGED tasks \/ Put(t, "AWAITING_APPROVAL")
    BY <1>1, ParkEffect DEF Moved
  <2>2. tasks[t].state \notin Terminal /\ "AWAITING_APPROVAL" \notin Terminal
    BY <2>1 DEF Terminal, Locked, Bound, Walking
  <2> QED BY <1>0, <2>1, <2>2, WalkStill DEF Put, Columns, SameEnd
<1>2. CASE CreateRequest(p)
  <2>1. /\ UNCHANGED tasks /\ SameVerdicts /\ Elsewhere(p) /\ thr[p].pc # "back"
        /\ thr'[p].pc # "back"
    BY <1>2, CreateRequestEffect DEF Moved
  <2>2. \A u \in TaskIds : SameGrants(u)
    BY <2>1 DEF SameGrants, SameVerdicts
  <2> QED BY <2>1, <2>2, WalkStill
<1>3. CASE PublishRequest(p) \/ SaveGrant(p)
  <2>1. /\ UNCHANGED records /\ Elsewhere(p) /\ thr[p].pc # "back" /\ thr'[p].pc # "back"
        /\ Others(t) /\ Kept(t) /\ tasks'[t].state = tasks[t].state
        /\ tasks'[t].cursor = tasks[t].cursor
    BY <1>3, PublishEffect, SaveGrantEffect DEF Moved
  <2> QED BY <1>0, <2>1, WalkStill DEF SameEnd
<1>4. CASE FailRequest(p)
  <2>1. /\ UNCHANGED records /\ thr[p].pc = "no_request" /\ Moved(p, "release")
        /\ t \in DOMAIN tasks
        /\ UNCHANGED tasks \/ Put(t, "FAILED")
    BY <1>4, FailEffect
  <2>2. tasks[t].state \notin Terminal
    BY <2>1 DEF Once, Judged, Asking, Terminal
  <2>3. CASE UNCHANGED tasks
    BY <1>0, <2>1, <2>3, WalkStill DEF Moved
  <2>4. CASE Put(t, "FAILED")
    BY <2>1, <2>2, <2>4, WalkState DEF Moved
  <2> QED BY <2>1, <2>3, <2>4
<1>5. CASE Validate(p) \/ ReadBack(p) \/ PublishGrant(p)
  <2>1. /\ Silent /\ Elsewhere(p) /\ thr[p].pc # "back" /\ thr'[p].pc # "back"
    BY <1>5, SilentEffect DEF Validate, ReadBack, PublishGrant, Moved
  <2> QED BY <1>0, <2>1, WalkStill DEF Silent
<1>6. CASE ReadRow(p)
  <2>1. Silent /\ Elsewhere(p) /\ thr[p].pc # "back" /\ thr'[p].pc # "back"
    BY <1>6, ReadRowEffect
  <2> QED BY <1>0, <2>1, WalkStill DEF Silent
<1>7. CASE Approve(p) \/ Deny(p)
  <2>1. /\ UNCHANGED records /\ t \in DOMAIN tasks /\ thr[p].pc # "back" /\ thr'[p].pc # "back"
        /\ Elsewhere(p) /\ thr'[p].task = t
        /\ \/ UNCHANGED tasks
           \/ /\ tasks[t].state = "AWAITING_APPROVAL"
              /\ Put(t, "COORDINATING") \/ Put(t, "PARTIAL")
    BY <1>7, VerdictEffect DEF Moved
  <2>2. CASE UNCHANGED tasks
    BY <1>0, <2>1, <2>2, WalkStill
  <2>3. ASSUME NEW s \in {"COORDINATING", "PARTIAL"}, Put(t, s),
               tasks[t].state = "AWAITING_APPROVAL"
        PROVE  WalkStep
    <3>1. tasks[t].state \notin Terminal
      BY <2>3 DEF Terminal
    <3> QED BY <2>1, <2>3, <3>1, WalkState
  <2> QED BY <2>1, <2>2, <2>3
<1> QED BY <1>1, <1>2, <1>3, <1>4, <1>5, <1>6, <1>7, WalkDrive, WalkUpdateStatus
        DEF Step, Request, HandleApproval

LEMMA WalkOpened ==
  ASSUME Locked, Opened, DOMAIN tasks' \subseteq TaskIds
  PROVE  WalkStep
<1>1. \A u : SameGrants(u) /\ (Returning(u)' <=> Returning(u))
  BY DEF Opened, SameGrants, Returning, At
<1>2. ASSUME NEW u \in TaskIds, u \notin DOMAIN tasks' \ DOMAIN tasks PROVE SameWalk(u)
  <2>1. u \in DOMAIN tasks' <=> u \in DOMAIN tasks
    BY <1>2 DEF Opened
  <2> QED BY <1>1, <1>2, <2>1, StillLemma DEF Opened, SameRow, Columns, Kept, SameEnd
<1>3. CASE DOMAIN tasks' \ DOMAIN tasks = {}
  BY <1>2, <1>3, WalkSame
<1>4. ASSUME NEW t \in DOMAIN tasks' \ DOMAIN tasks PROVE WalkStep
  <2>1. t \in TaskIds /\ Fresh(t) /\ tasks'[t].playbook \in UsedPlaybooks
    BY <1>4 DEF Opened, Fresh
  <2>2. \A u \in TaskIds \ {t} : SameWalk(u)
    BY <1>2, <1>4 DEF Opened
  <2>3. ~Returning(t) /\ ~Returning(t)'
    BY <1>1, <1>4, RowLemma DEF Returning, At
  <2>4. /\ WalkBook[t] = None /\ WalkTries[t] = 0 /\ WalkAt[t] = 1
        /\ WalkOutcome[t] = "open"
    BY <1>4, <2>1, WalkUnborn
  <2>5. "RECEIVED" \notin Terminal
    BY DEF Terminal
  <2>6. /\ WalkBook'[t] = tasks'[t].playbook /\ WalkTries'[t] = 0 /\ WalkAt'[t] = 1
        /\ WalkOutcome'[t] = "open"
    BY <1>4, <2>1, <2>3, <2>5 DEF WalkBook, WalkTries, WalkAt, WalkOutcome, Returning, Fresh, Pos
  <2>7. SameAt(t) /\ SameTries(t) /\ SameGranted(t) /\ SameOutcome(t)
    BY <1>1, <2>1, <2>4, <2>6 DEF SameAt, SameTries, SameGranted, SameOutcome, SameGrants,
       WalkGranted
  <2> QED BY <2>1, <2>2, <2>4, <2>6, <2>7, WalkStart
<1> QED BY <1>3, <1>4

(* With one decision for each card and no restart, and whatever else       *)
(* threads, clarifications and backend faults do, each task walks its      *)
(* playbook as declared.                                                   *)
THEOREM WalksItsPlaybook == MaxClicks <= 1 /\ MaxCrashes = 0 => (Spec => ImplementsWalk)
<1> SUFFICES ASSUME MaxClicks <= 1, MaxCrashes = 0 PROVE Spec => ImplementsWalk
  OBVIOUS
<1>1. Init => Walk!Init
  <2> SUFFICES ASSUME Init PROVE Walk!Init
    OBVIOUS
  <2>1. /\ DOMAIN tasks = {}
        /\ \A t \in TaskIds : {g \in Gates : records[t][g] = "APPROVED"} = {}
    BY DEF Init
  <2> QED BY <2>1 DEF Walk!Init, WalkBook, WalkAt, WalkTries, WalkGranted, WalkOutcome
<1>2. (Locked /\ Once) /\ [Next]_vars => [Walk!Next]_Walk!vars
  <2> SUFFICES ASSUME Locked, Once, [Next]_vars PROVE WalkStep
    BY DEF WalkStep, Walk!vars
  <2>1. ASSUME NEW p \in Threads, NEW t \in TaskIds, NEW v,
               StartDrive(p, t) \/ Decide(p, t, v)
        PROVE  WalkStep
    <3>1. /\ UNCHANGED <<tasks, records>> /\ Elsewhere(p) /\ thr[p].pc = "idle"
          /\ thr'[p].pc \in {"acquire", "validate"}
      BY <2>1 DEF StartDrive, Decide, At, Elsewhere, persistent, Locked, Typed, Locals
    <3> QED BY <3>1, WalkStill DEF SameGrants
  <2>2. CASE Opened
    <3>1. DOMAIN tasks' \subseteq TaskIds
      BY LockedNext DEF Locked, Typed
    <3> QED BY <2>2, <3>1, WalkOpened
  <2>3. ASSUME NEW t \in TaskIds, ClarifyEffect(t) PROVE WalkStep
    <3>1. /\ Others(t) /\ Kept(t) /\ tasks'[t].cursor = tasks[t].cursor
          /\ tasks[t].state \notin Terminal /\ tasks'[t].state \notin Terminal
          /\ UNCHANGED <<records, thr>>
      BY <2>3 DEF ClarifyEffect, Put, Columns, Terminal
    <3>2. ASSUME NEW u \in TaskIds PROVE SameWalk(u)
      BY <3>1, <3>2, StillLemma DEF SameGrants, Returning, At, Others, Kept, SameEnd
    <3> QED BY <3>2, WalkSame
  <2>4. CASE UNCHANGED vars
    <3>1. ASSUME NEW u \in TaskIds PROVE SameWalk(u)
      BY <2>4, <3>1, StillLemma DEF SameGrants, Returning, At, SameEnd, vars, persistent
    <3> QED BY <3>1, WalkSame
  <2>5. ~Crash
    <3>1. budget.crashes \in Nat
      BY DEF Locked, Typed, Budgets
    <3> QED BY <3>1 DEF Crash
  <2> QED BY <2>1, <2>2, <2>3, <2>4, <2>5, WalkThread, OpenedLemma, ClarifyLemma DEF Next
<1>3. Init => Locked /\ Once
  BY LockedInit, OnceInit
<1>4. (Locked /\ Once) /\ [Next]_vars => (Locked /\ Once)'
  BY LockedNext, OnceNext
<1> QED BY <1>1, <1>2, <1>3, <1>4, PTL DEF Spec, ImplementsWalk, Walk!Spec

-----------------------------------------------------------------------------
(***************************************************************************)
(* The console.  Between two writes of one call the screen and the store   *)
(* disagree; what keeps them together is who is in between: a thread that  *)
(* asks will show its card, one that applies a verdict will take it away.  *)
(* With a second gate a grant published late would take away the wrong     *)
(* card, so the theorem is about playbooks with one gate at most.          *)
(***************************************************************************)
OneGate == \A pb \in UsedPlaybooks : \A g, h \in GatesOf(pb) : g = h

Asked(t) == \E p \in Threads : thr[p].task = t /\ thr[p].pc \in Asking
Applying(t) == \E p \in Threads : thr[p].task = t /\ thr[p].pc \in Judging \ {"status"}
Granting(t) == \E p \in Threads : thr[p].task = t /\ thr[p].pc = "granted"

(* A task's card against its row and its records. *)
Console(t) ==
  /\ dash[t].card \in {NoText, tasks[t].approval}
  /\ tasks[t].approval \in {NoText} \cup GatesOf(tasks[t].playbook)
  /\ \A g \in Gates : records[t][g] = "APPROVED" =>
       \/ g \in tasks[t].approved
       \/ tasks[t].state = "AWAITING_APPROVAL" /\ ParkedOn(t, g)
  /\ tasks[t].state = "AWAITING_APPROVAL" =>
       \/ Asked(t)
       \/ Shown(t) /\ (records[t][dash[t].card] = "PENDING" \/ Applying(t))
  /\ Shown(t) => tasks[t].state = "AWAITING_APPROVAL" \/ Granting(t)

(* What a thread in between knows of its task. *)
Applied(p) ==
  LET t == thr[p].task
      pc == thr[p].pc IN
    /\ pc \in Asking => Stage(p) \notin tasks[t].approved
    /\ pc = "publish" => records[t][Stage(p)] = "PENDING"
    /\ pc = "grant" => tasks[t].approved \subseteq thr[p].approved
    /\ pc = "granted" => /\ tasks[t].state # "AWAITING_APPROVAL"
                         /\ tasks[t].approval \in tasks[t].approved

(* Nothing is shown or granted for a task before it is in the store. *)
Unseen == \A t \in TaskIds \ DOMAIN tasks :
            dash[t].card = NoText /\ \A g \in Gates : records[t][g] # "APPROVED"

Facing == /\ \A t \in DOMAIN tasks : Console(t)
          /\ \A p \in Threads : Applied(p)
          /\ Unseen

(* Only the card, or the records, of t are written. *)
OnlyCard(t) == \A u \in TaskIds : u # t => dash'[u] = dash[u]
OnlyRecords(t) == \A u \in TaskIds : u # t => records'[u] = records[u]

(* Who was in between at u still is. *)
Told(u) == /\ Asked(u) => Asked(u)'
           /\ Applying(u) => Applying(u)'
           /\ Granting(u) => Granting(u)'

Telling == Asking \cup (Judging \ {"status"}) \cup {"granted"}

(* Threads move, but none into or out of the places in between. *)
Bystanding == \A q \in Threads :
  thr'[q] # thr[q] => thr[q].pc \notin Telling /\ thr'[q].pc \notin Telling

LEMMA ToldLemma ==
  ASSUME Bystanding, NEW u
  PROVE  Told(u)
BY DEF Bystanding, Told, Telling, Asked, Applying, Granting

LEMMA ConsoleFrame ==
  ASSUME NEW u, Console(u), Told(u),
         tasks'[u].state = tasks[u].state, tasks'[u].approval = tasks[u].approval,
         tasks'[u].approved = tasks[u].approved, tasks'[u].playbook = tasks[u].playbook,
         tasks'[u].cursor = tasks[u].cursor,
         records'[u] = records[u], dash'[u] = dash[u]
  PROVE  Console(u)'
<1>1. Shown(u)' <=> Shown(u)
  BY DEF Shown
<1>2. \A g : ParkedOn(u, g)' <=> ParkedOn(u, g)
  BY DEF ParkedOn, Pos, Stages
<1> QED BY <1>1, <1>2 DEF Console, Told

LEMMA AppliedFrame ==
  ASSUME NEW q \in Threads, Applied(q), thr'[q] = thr[q],
         thr[q].pc \in Telling =>
           /\ tasks'[thr[q].task].state = tasks[thr[q].task].state
           /\ tasks'[thr[q].task].approval = tasks[thr[q].task].approval
           /\ tasks'[thr[q].task].approved = tasks[thr[q].task].approved
           /\ tasks'[thr[q].task].playbook = tasks[thr[q].task].playbook
           /\ records'[thr[q].task] = records[thr[q].task]
  PROVE  Applied(q)'
BY DEF Applied, Telling, Asking, Judging, Stage, Stages

(* A thread outside the places in between knows nothing yet. *)
LEMMA AppliedLoose ==
  ASSUME NEW q \in Threads, thr'[q].pc \notin Telling
  PROVE  Applied(q)'
BY DEF Applied, Telling, Asking, Judging

(* Nothing is written but the locals of bystanders. *)
LEMMA CalmStep ==
  ASSUME Facing, Bystanding, UNCHANGED <<tasks, records, dash>>
  PROVE  Facing'
<1>1. \A u \in DOMAIN tasks : Console(u)'
  BY ToldLemma, ConsoleFrame DEF Facing
<1>2. \A q \in Threads : Applied(q)'
  BY AppliedFrame, AppliedLoose DEF Facing, Bystanding
<1> QED BY <1>1, <1>2 DEF Facing, Unseen

(* A task that waits for nobody is worked on. *)
LEMMA WorkStep ==
  ASSUME Locked, Once, Facing, Bystanding, NEW t \in DOMAIN tasks, Others(t), OnlyCard(t),
         UNCHANGED records,
         tasks[t].state # "AWAITING_APPROVAL", tasks'[t].state # "AWAITING_APPROVAL",
         tasks'[t].playbook = tasks[t].playbook, tasks'[t].approval = tasks[t].approval,
         tasks'[t].approved = tasks[t].approved,
         dash'[t].card = dash[t].card, Shown(t)' => Shown(t)
  PROVE  Facing'
<1>0. DOMAIN tasks \subseteq TaskIds /\ DOMAIN tasks' = DOMAIN tasks
  BY DEF Locked, Typed, Others
<1>1. ASSUME NEW u \in DOMAIN tasks, u # t PROVE Console(u)'
  BY <1>0, <1>1, ToldLemma, ConsoleFrame DEF Facing, Others, OnlyCard
<1>2. Console(t)'
  <2>1. Console(t) /\ Told(t)
    BY ToldLemma DEF Facing
  <2> QED BY <2>1 DEF Console, Told
<1>3. ASSUME NEW q \in Threads PROVE Applied(q)'
  <2>1. CASE thr'[q].pc \notin Telling
    BY <2>1, AppliedLoose
  <2>2. CASE thr'[q] = thr[q] /\ thr[q].pc \in Telling
    <3>1. thr[q].task \in DOMAIN tasks
      BY <2>2, RowLemma DEF Telling, Asking, Judging
    <3>2. CASE thr[q].task # t
      BY <2>2, <3>1, <3>2, AppliedFrame DEF Facing, Others
    <3>3. CASE thr[q].task = t
      <4>1. thr[q].pc = "granted"
        BY <2>2, <3>3 DEF Once, Judged, Telling
      <4> QED BY <2>2, <3>3, <4>1 DEF Facing, Applied, Asking
    <3> QED BY <3>2, <3>3
  <2> QED BY <2>1, <2>2 DEF Bystanding
<1> QED BY <1>0, <1>1, <1>2, <1>3 DEF Facing, Unseen, OnlyCard

(* Nobody else is in between at t. *)
Alone(p, t) == \A q \in Threads :
  q # p /\ thr[q].task = t => thr[q].pc \notin Asking \cup Judging \cup {"granted"}

(* A thread writes the row, the card or the records of its own task. *)
LEMMA OwnStep ==
  ASSUME Locked, Facing, NEW p \in Threads, NEW t \in DOMAIN tasks, thr[p].task = t,
         Elsewhere(p), Others(t), OnlyCard(t), OnlyRecords(t),
         Alone(p, t) \/ UNCHANGED <<tasks, records>>,
         Console(t)', Applied(p)'
  PROVE  Facing'
<1>0. DOMAIN tasks \subseteq TaskIds /\ DOMAIN tasks' = DOMAIN tasks
  BY DEF Locked, Typed, Others
<1>1. ASSUME NEW u \in DOMAIN tasks, u # t PROVE Console(u)'
  <2>1. Told(u)
    BY <1>1 DEF Told, Asked, Applying, Granting, Elsewhere
  <2> QED BY <1>0, <1>1, <2>1, ConsoleFrame DEF Facing, Others, OnlyCard, OnlyRecords
<1>2. ASSUME NEW q \in Threads, q # p PROVE Applied(q)'
  <2>1. thr'[q] = thr[q] /\ Applied(q)
    BY <1>2 DEF Elsewhere, Facing
  <2>2. CASE thr[q].pc \notin Telling
    BY <2>1, <2>2, AppliedLoose
  <2>3. CASE thr[q].pc \in Telling
    <3>1. thr[q].task \in DOMAIN tasks
      BY <2>3, RowLemma DEF Telling, Asking, Judging
    <3>2. thr[q].task # t \/ UNCHANGED <<tasks, records>>
      BY <1>2, <2>3 DEF Alone, Telling
    <3> QED BY <1>0, <2>1, <3>1, <3>2, AppliedFrame DEF Others, OnlyRecords
  <2> QED BY <2>2, <2>3
<1> QED BY <1>0, <1>1, <1>2 DEF Facing, Unseen, OnlyCard, OnlyRecords

(* What an attempted transition does to the screen. *)
LEMMA ScreenLemma ==
  ASSUME Locked, NEW t \in TaskIds, NEW card \in Cards, dash' = [dash EXCEPT ![t] = card]
  PROVE  dash'[t] = card /\ OnlyCard(t)
BY DEF Locked, Typed, OnlyCard

LEMMA AttemptScreen ==
  ASSUME Locked, NEW p \in Threads, thr[p].pc # "idle", NEW ev, NEW pc, NEW card \in Cards,
         Attempt(p, ev, pc, card)
  PROVE  /\ OnlyCard(thr[p].task)
         /\ \/ dash'[thr[p].task] = card
            \/ UNCHANGED dash /\ ~Accepts(ev, Row(p).state)
<1>1. thr[p].task \in TaskIds
  BY RowLemma
<1> QED BY <1>1, ScreenLemma DEF Attempt, OnlyCard, Row

(* A driver works on a task that waits for nobody. *)
LEMMA WorkMove ==
  ASSUME Locked, Once, Facing, NEW p \in Threads, thr[p].pc \in Walking \cup {"enter"},
         NEW t, t = thr[p].task, Elsewhere(p), thr'[p].pc \notin Telling, UNCHANGED records,
         OnlyCard(t), dash'[t].card = dash[t].card,
         dash'[t].state \in {dash[t].state} \cup (States \ {"AWAITING_APPROVAL"}),
         tasks[t].state # "AWAITING_APPROVAL",
         \/ UNCHANGED tasks
         \/ /\ Others(t) /\ tasks'[t].state # "AWAITING_APPROVAL"
            /\ tasks'[t].playbook = tasks[t].playbook
            /\ tasks'[t].approval = tasks[t].approval
            /\ tasks'[t].approved = tasks[t].approved
  PROVE  Facing'
<1>1. t \in DOMAIN tasks
  BY RowLemma DEF Walking, Acting
<1>2. Bystanding
  BY DEF Bystanding, Elsewhere, Telling, Walking, Acting, Asking, Judging
<1>3. Shown(t)' => Shown(t)
  BY DEF Shown
<1>4. Others(t) /\ tasks'[t].state # "AWAITING_APPROVAL"
  BY DEF Others
<1>5. /\ tasks'[t].playbook = tasks[t].playbook
      /\ tasks'[t].approval = tasks[t].approval
      /\ tasks'[t].approved = tasks[t].approved
  OBVIOUS
<1> QED BY <1>1, <1>2, <1>3, <1>4, <1>5, WorkStep

LEMMA FacingDrive == \A p \in Threads : Locked /\ Once /\ Facing /\ Drive(p) => Facing'
<1> SUFFICES ASSUME NEW p \in Threads, Locked, Once, Facing, Drive(p) PROVE Facing'
  OBVIOUS
<1> DEFINE t == thr[p].task
<1>1. CASE Acquire(p) \/ Snap(p) \/ Check(p) \/ Release(p)
  <2>1. /\ UNCHANGED dash /\ thr[p].pc \in {"acquire", "snap", "check", "release"}
    BY <1>1 DEF Acquire, Snap, Check, Release, At
  <2>2. Silent /\ Elsewhere(p) /\ thr'[p].pc \in {"idle", "acquire", "release", "snap", "enter"}
    BY <1>1, <2>1, SilentEffect DEF At
  <2>3. Bystanding
    BY <2>1, <2>2 DEF Bystanding, Elsewhere, Telling, Asking, Judging
  <2> QED BY <2>1, <2>2, <2>3, CalmStep DEF Silent
<1>2. CASE Enter(p)
  <2>1. UNCHANGED dash
    BY <1>2 DEF Enter
  <2>2. At(p, "enter") /\ Elsewhere(p) /\ UNCHANGED records /\ t \in DOMAIN tasks
    BY <1>2, EnterEffect
  <2>3. CASE UNCHANGED tasks
    <3>1. thr'[p].pc \in {"release", "stage"}
      BY <1>2, EnterEffect DEF Moved
    <3>2. Bystanding
      BY <2>2, <3>1 DEF Bystanding, Elsewhere, Telling, Asking, Judging, At
    <3> QED BY <2>1, <2>2, <2>3, <3>2, CalmStep
  <2>4. CASE thr'[p].pc = "stage" /\ Put(t, "PLANNING")
             /\ tasks[t].state \notin Terminal \cup {"AWAITING_APPROVAL"}
    BY <2>1, <2>2, <2>4, WorkMove
       DEF Put, Kept, Columns, OnlyCard, Telling, Asking, Judging, At
  <2> QED BY <1>2, <2>3, <2>4, EnterEffect
<1>3. ASSUME thr[p].pc \in Walking, Drive(p)
      PROVE  t \in DOMAIN tasks /\ t \in TaskIds /\ tasks[t].state # "AWAITING_APPROVAL"
             /\ tasks[t].state \in States /\ dash[t] \in Cards /\ Card(p) = dash[t]
  <2>1. t \in DOMAIN tasks /\ t \in TaskIds
    BY <1>3, WalkingFree DEF Locked, Typed
  <2> QED BY <1>3, <2>1 DEF Locked, Typed, Bound, Rows, Card
<1>4. CASE PlanDone(p) \/ Replan(p)
  <2>1. thr[p].pc \in Walking /\ UNCHANGED records
    BY <1>4 DEF PlanDone, Replan, Walking, Acting, At
  <2>2. OnlyCard(t) /\ dash'[t] = dash[t]
    <3>1. \E ev, pc : Attempt(p, ev, pc, Card(p))
      BY <1>4 DEF PlanDone, Replan
    <3> QED BY <2>1, <3>1, <1>3, AttemptScreen DEF Walking, Acting
  <2>3. /\ Elsewhere(p) /\ thr'[p].pc \in {"stage", "check", "release"}
        /\ UNCHANGED tasks \/ Put(t, "COORDINATING") \/ Put(t, "PLANNING")
    BY <1>4, PlanEffect, ReplanEffect DEF Moved
  <2>4. \/ UNCHANGED tasks
        \/ /\ Others(t) /\ tasks'[t].state # "AWAITING_APPROVAL"
           /\ tasks'[t].playbook = tasks[t].playbook
           /\ tasks'[t].approval = tasks[t].approval
           /\ tasks'[t].approved = tasks[t].approved
    BY <2>3 DEF Put, Kept, Columns
  <2>5. thr'[p].pc \notin Telling
    BY <2>3 DEF Telling, Asking, Judging
  <2> QED BY <1>3, <2>1, <2>2, <2>3, <2>4, <2>5, WorkMove
<1>5. CASE Execute(p)
  <2>1. thr[p].pc \in Walking /\ UNCHANGED <<tasks, records>> /\ Moved(p, "cursor")
    BY <1>5, ExecuteEffect DEF Walking, At
  <2>2. dash' = [dash EXCEPT ![t].state = tasks[t].state]
    BY <1>5 DEF Execute
  <2>3. OnlyCard(t) /\ dash'[t].card = dash[t].card /\ dash'[t].state = tasks[t].state
    BY <1>3, <2>1, <2>2 DEF OnlyCard, Cards, Locked, Typed
  <2> QED BY <1>3, <2>1, <2>3, WorkMove DEF Moved, Telling, Asking, Judging
<1>6. CASE SetCursor(p)
  <2>1. thr[p].pc \in Walking /\ thr'[p].pc \in {"save", "work_order", "stage"} /\ UNCHANGED dash
    BY <1>6 DEF SetCursor, Walking, At, Locked, Typed
  <2> QED BY <1>3, <1>6, <2>1, SetCursorEffect, WorkMove
       DEF Kept, OnlyCard, Telling, Asking, Judging
<1>7. CASE SaveEvidence(p)
  <2>1. thr[p].pc \in Walking /\ UNCHANGED dash /\ thr[p].approved = tasks[t].approved
    BY <1>7 DEF SaveEvidence, Walking, At, Once, Judged
  <2> QED BY <1>3, <1>7, <2>1, SaveEffect, WorkMove
       DEF Kept, Moved, OnlyCard, Telling, Asking, Judging
<1>8. CASE ApplyAction(p)
  <2>1. /\ UNCHANGED dash
    BY <1>8 DEF ApplyAction, Create
  <2>2. /\ UNCHANGED <<tasks, records>> /\ Elsewhere(p)
        /\ thr[p].pc \in {"work_order", "record", "notify"}
        /\ thr'[p].pc \in {"act_failed", "notify", "record", "stage"}
    BY <1>8, ActEffect DEF Moved
  <2>3. Bystanding
    BY <2>2 DEF Bystanding, Elsewhere, Telling, Asking, Judging
  <2> QED BY <2>1, <2>2, <2>3, CalmStep
<1>9. CASE GiveUpOrRetry(p) \/ Finish(p)
  <2>1. thr[p].pc \in Walking /\ UNCHANGED records
    BY <1>9 DEF GiveUpOrRetry, Finish, Walking, Acting, At
  <2>2. /\ OnlyCard(t) /\ dash'[t].card = dash[t].card
        /\ dash'[t].state \in {dash[t].state} \cup {"PARTIAL", "REPORTED"}
    <3>1. \/ UNCHANGED dash
          \/ \E s \in {"PARTIAL", "REPORTED"} : \E ev, pc : Attempt(p, ev, pc, Closed(p, s))
      BY <1>9 DEF GiveUpOrRetry, Finish
    <3>2. CASE UNCHANGED dash
      BY <3>2 DEF OnlyCard
    <3>3. ASSUME NEW s \in {"PARTIAL", "REPORTED"}, NEW ev, NEW pc,
                 Attempt(p, ev, pc, Closed(p, s))
          PROVE  OnlyCard(t) /\ (dash'[t] = Closed(p, s) \/ UNCHANGED dash)
      <4>1. Closed(p, s) \in Cards /\ thr[p].pc # "idle"
        BY <2>1, RowLemma DEF States, Terminal, Walking, Acting
      <4> QED BY <3>3, <4>1, AttemptScreen
    <3>4. \A s : Closed(p, s).card = dash[t].card /\ Closed(p, s).state = s
      BY <1>3, <2>1 DEF Closed, Cards
    <3> QED BY <3>1, <3>2, <3>3, <3>4
  <2>3. /\ Elsewhere(p) /\ thr'[p].pc \in {"back", "release"}
        /\ \/ UNCHANGED tasks
           \/ /\ Others(t) /\ Columns(t) /\ tasks'[t].playbook = tasks[t].playbook
              /\ tasks'[t].state \in {tasks[t].state, "PARTIAL", "REPORTED"}
    BY <1>9, GiveUpEffect, FinishEffect DEF Moved, Put, Kept
  <2>4. thr'[p].pc \notin Telling /\ {"PARTIAL", "REPORTED"} \subseteq States
    BY <2>3 DEF Telling, Asking, Judging, States, Terminal
  <2> QED BY <1>3, <2>1, <2>2, <2>3, <2>4, WorkMove DEF Columns
<1>10. CASE GoBack(p)
  <2>1. thr[p].pc \in Walking /\ UNCHANGED dash
    BY <1>10 DEF GoBack, Walking, Acting, At
  <2> QED BY <1>3, <1>10, <2>1, GoBackEffect, WorkMove
       DEF Kept, Moved, OnlyCard, Telling, Asking, Judging
<1> QED BY <1>1, <1>2, <1>4, <1>5, <1>6, <1>7, <1>8, <1>9, <1>10 DEF Drive

LEMMA GatesAreNamed == NoText \notin Gates
<1>1. NoText \notin StageMenu
  BY DEF NoText, StageMenu
<1>2. \A pb \in UsedPlaybooks : GatesOf(pb) \subseteq StageMenu
  BY PlaybookLemma DEF Walkable
<1> QED BY <1>1, <1>2 DEF Gates

(* Who holds the lock is alone in between at its task. *)
LEMMA AskerAlone ==
  ASSUME Locked, Once, Facing, NEW p \in Threads, thr[p].pc \in Asking,
         NEW t, t = thr[p].task
  PROVE  /\ Alone(p, t) /\ tasks[t].state = "AWAITING_APPROVAL" /\ Stage(p) \in Gates
         /\ Stage(p) \in GatesOf(tasks[t].playbook)
         /\ t \in DOMAIN tasks /\ t \in TaskIds /\ Free(t) /\ dash[t] \in Cards
<1>1. Free(t) /\ t \in DOMAIN tasks /\ thr[p].round > 0
  BY WalkingFree DEF Locked, Bound
<1>2. t \in TaskIds /\ dash[t] \in Cards
  BY <1>1 DEF Locked, Typed
<1>3. tasks[t].state = "AWAITING_APPROVAL"
  BY DEF Once, Judged
<1>4. Stage(p) \in Gates /\ Stage(p) \in GatesOf(tasks[t].playbook)
  BY StageLemma DEF Locked, Bound
<1>5. \A q \in Threads : thr[q].task = t => thr[q].pc # "granted"
  BY <1>3 DEF Facing, Applied
<1> QED BY <1>1, <1>2, <1>3, <1>4, <1>5, HeldAlone DEF Alone

LEMMA FacingPark ==
  ASSUME OneGate, Locked, Once, Facing, NEW p \in Threads, Park(p)
  PROVE  Facing'
<1> DEFINE t == thr[p].task
<1>1. /\ UNCHANGED records /\ At(p, "stage") /\ MustAsk(p) /\ t \in DOMAIN tasks
      /\ \/ Moved(p, "request") /\ Put(t, "AWAITING_APPROVAL")
         \/ Moved(p, "release") /\ UNCHANGED tasks
  BY ParkEffect, SMTT(30)
<1>2. /\ thr[p].pc \in Walking /\ tasks[t].state # "AWAITING_APPROVAL" /\ t \in TaskIds
      /\ thr[p].approved = tasks[t].approved /\ thr[p].round > 0 /\ Free(t)
  BY <1>1, WalkingFree DEF At, Walking, Locked, Typed, Bound, Once, Judged
<1>3. UNCHANGED dash
  <2>1. dash[t] \in Cards /\ Card(p) = dash[t]
    BY <1>2 DEF Locked, Typed, Card
  <2>2. OnlyCard(t) /\ dash'[t] = dash[t]
    BY <1>1, <2>1, AttemptScreen DEF Park, At
  <2>3. dash' = [dash EXCEPT ![t] = dash[t]] \/ dash' = dash
    BY <2>1 DEF Park, Attempt
  <2> QED BY <2>3 DEF Locked, Typed
<1>4. CASE Moved(p, "release") /\ UNCHANGED tasks
  <2>1. Bystanding
    BY <1>1, <1>4 DEF Bystanding, Moved, Elsewhere, Telling, Asking, Judging, At
  <2> QED BY <1>1, <1>3, <1>4, <2>1, CalmStep
<1>5. CASE Moved(p, "request") /\ Put(t, "AWAITING_APPROVAL")
  <2>1. PICK u : u = t
    OBVIOUS
  <2>2. /\ Others(u) /\ tasks'[u].state = "AWAITING_APPROVAL" /\ Columns(u) /\ Kept(u)
        /\ Elsewhere(p) /\ thr'[p].pc = "request" /\ thr'[p].task = u /\ u \in DOMAIN tasks
        /\ Stage(p)' = Stage(p) /\ u \in TaskIds /\ thr[p].task = u
        /\ tasks[u].state # "AWAITING_APPROVAL"
    BY <1>1, <1>2, <1>5, <2>1 DEF Put, Moved, Kept, Stage, Stages
  <2>3. Console(u) /\ Standing(u)
    BY <2>2 DEF Facing, Once
  <2>4. Asked(u)'
    BY <2>2 DEF Asked, Asking
  <2>5. Console(u)'
    BY <1>1, <1>3, <2>2, <2>3, <2>4 DEF Console, Columns, Kept
  <2>6. Stage(p) \notin tasks[u].approved /\ Stage(p) \in GatesOf(tasks[u].playbook)
    BY <1>1, <1>2, <2>1 DEF MustAsk, Row
  <2>7. Applied(p)'
    BY <2>2, <2>6 DEF Applied, Columns
  <2>8. Alone(p, u)
    <3>1. ASSUME NEW q \in Threads, thr[q].pc = "granted", thr[q].task = u PROVE FALSE
      <4>1. tasks[u].approval \in tasks[u].approved
        BY <3>1 DEF Facing, Applied
      <4>2. tasks[u].approval # NoText
        BY <2>3, <4>1, GatesAreNamed DEF Standing
      <4>3. tasks[u].approval = Stage(p)
        BY <2>3, <2>6, <4>2, <2>2 DEF OneGate, Console, Locked, Typed, Rows
      <4> QED BY <2>6, <4>1, <4>3
    <3> QED BY <1>2, <2>1, <3>1, HeldAlone DEF Alone
  <2> QED BY <1>1, <1>3, <2>2, <2>5, <2>7, <2>8, OwnStep DEF OnlyCard, OnlyRecords
<1> QED BY <1>1, <1>4, <1>5

LEMMA FacingCreate ==
  ASSUME Locked, Once, Facing, NEW p \in Threads, CreateRequest(p)
  PROVE  Facing'
<1>0. At(p, "request") /\ UNCHANGED <<tasks, dash>> /\ SameVerdicts
      /\ (Moved(p, "publish") \/ Moved(p, "no_request"))
  BY CreateRequestEffect DEF CreateRequest
<1>1. PICK t : t = thr[p].task
  OBVIOUS
<1>2. /\ Alone(p, t) /\ tasks[t].state = "AWAITING_APPROVAL" /\ Stage(p) \in Gates
      /\ t \in DOMAIN tasks /\ t \in TaskIds /\ Free(t) /\ thr[p].pc \in Asking
  BY <1>0, <1>1, AskerAlone DEF At, Asking
<1>3. PICK g : g = Stage(p)
  OBVIOUS
<1>4. /\ Elsewhere(p) /\ thr'[p].task = t /\ thr'[p].pc \in {"publish", "no_request"}
      /\ Stage(p)' = g
  BY <1>0, <1>1, <1>3 DEF Moved, Stage, Stages
<1>5. \/ UNCHANGED records
      \/ records[t][g] = "none" /\ records' = [records EXCEPT ![t][g] = "PENDING"]
  BY <1>1, <1>3 DEF CreateRequest
<1>6. thr'[p].pc = "publish" =>
        \/ UNCHANGED records /\ records[t][g] # "none"
        \/ records[t][g] = "none" /\ records' = [records EXCEPT ![t][g] = "PENDING"]
  <2>1. "publish" # "no_request"
    OBVIOUS
  <2>2. Goto(p, "no_request") => thr'[p].pc = "no_request"
    BY GotoLemma DEF Locked, Typed, Pcs
  <2> QED BY <1>1, <1>3, <2>1, <2>2 DEF CreateRequest
<1>7. OnlyRecords(t)
  BY <1>2, <1>3, <1>5 DEF OnlyRecords, Locked, Typed, Ledgers
<1>8. Console(t) /\ Applied(p) /\ Judged(p)
  BY <1>2 DEF Facing, Once
<1>9. Asked(t)'
  BY <1>4 DEF Asked, Asking
<1>10. Console(t)'
  <2>1. \A h \in Gates : records'[t][h] = "APPROVED" => records[t][h] = "APPROVED"
    BY <1>0, <1>2 DEF SameVerdicts
  <2>2. (Shown(t)' <=> Shown(t)) /\ \A h : ParkedOn(t, h)' <=> ParkedOn(t, h)
    BY <1>0 DEF Shown, ParkedOn, Pos, Stages
  <2> QED BY <1>0, <1>2, <1>8, <1>9, <2>1, <2>2 DEF Console
<1>11. g \notin tasks[t].approved /\ g \in Gates
  BY <1>1, <1>2, <1>3, <1>8 DEF Applied
<1>12. thr'[p].pc = "publish" => records'[t][g] = "PENDING"
  <2>1. records[t] \in [Gates -> {"none", "PENDING", "APPROVED", "DENIED"}]
    BY <1>2 DEF Locked, Typed, Ledgers
  <2>2. records[t][g] # "DENIED"
    BY <1>2, <1>11 DEF Free
  <2>3. records[t][g] # "APPROVED"
    <3>1. ~ParkedOn(t, g)
      BY <1>1, <1>2, <1>3, <1>8 DEF Judged, ParkedOn
    <3> QED BY <1>8, <1>11, <3>1 DEF Console
  <2>4. records[t][g] = "none" /\ records' = [records EXCEPT ![t][g] = "PENDING"]
        => records'[t][g] = "PENDING"
    BY <1>2, <1>11 DEF Locked, Typed, Ledgers
  <2> QED BY <1>6, <1>11, <2>1, <2>2, <2>3, <2>4
<1>13. Applied(p)'
  BY <1>0, <1>4, <1>11, <1>12 DEF Applied
<1>14. Others(t) /\ OnlyCard(t)
  BY <1>0 DEF Others, OnlyCard
<1> QED BY <1>1, <1>2, <1>4, <1>7, <1>10, <1>13, <1>14, OwnStep

LEMMA FacingPublish ==
  ASSUME Locked, Once, Facing, NEW p \in Threads, PublishRequest(p)
  PROVE  Facing'
<1>1. PICK t : t = thr[p].task
  OBVIOUS
<1>2. PICK g : g = Stage(p)
  OBVIOUS
<1>3. /\ UNCHANGED records /\ At(p, "publish") /\ Moved(p, "check")
      /\ t \in DOMAIN tasks /\ Others(t) /\ Kept(t) /\ tasks'[t].state = tasks[t].state
      /\ tasks'[t].cursor = tasks[t].cursor /\ tasks'[t].approved = tasks[t].approved
      /\ tasks'[t].approval = g
  BY <1>1, <1>2, PublishEffect
<1>4. /\ Alone(p, t) /\ tasks[t].state = "AWAITING_APPROVAL" /\ g \in Gates /\ t \in TaskIds
      /\ g \in GatesOf(tasks[t].playbook) /\ Free(t)
  BY <1>1, <1>2, <1>3, AskerAlone DEF At, Asking
<1>5. dash'[t].state = "AWAITING_APPROVAL" /\ dash'[t].card = g /\ OnlyCard(t)
  <2>1. dash' = [dash EXCEPT ![t] = [state |-> "AWAITING_APPROVAL", card |-> g]]
    BY <1>1, <1>2 DEF PublishRequest
  <2> QED BY <1>4, <2>1 DEF OnlyCard, Locked, Typed
<1>6. g # NoText
  BY <1>4, GatesAreNamed
<1>7. records[t][g] = "PENDING"
  BY <1>1, <1>2, <1>3 DEF Facing, Applied, At
<1>8. Shown(t)'
  BY <1>5, <1>6 DEF Shown
<1>9. \A h \in Gates : records[t][h] = "APPROVED" => h \in tasks[t].approved
  BY <1>3, <1>4, GatesAreNamed DEF Facing, Console, Free, ParkedOn
<1>10. Console(t)'
  BY <1>3, <1>4, <1>5, <1>7, <1>8, <1>9 DEF Console, Kept
<1>11. Applied(p)'
  BY <1>3, AppliedLoose DEF Moved, Telling, Asking, Judging
<1> QED BY <1>1, <1>3, <1>4, <1>5, <1>10, <1>11, OwnStep DEF Moved, OnlyRecords

LEMMA FacingFail ==
  ASSUME Locked, Once, Facing, NEW p \in Threads, FailRequest(p)
  PROVE  Facing'
<1>1. PICK t : t = thr[p].task
  OBVIOUS
<1>2. /\ UNCHANGED records /\ At(p, "no_request") /\ Moved(p, "release") /\ t \in DOMAIN tasks
      /\ UNCHANGED tasks \/ Put(t, "FAILED")
  BY <1>1, FailEffect
<1>3. /\ Alone(p, t) /\ tasks[t].state = "AWAITING_APPROVAL" /\ t \in TaskIds /\ Free(t)
      /\ dash[t] \in Cards
  BY <1>1, <1>2, AskerAlone DEF At, Asking
<1>4. Accepts("failed", tasks[t].state)
  BY <1>3 DEF Accepts, Outcome, Transitions, States, Active, Terminal, Waits
<1>5. /\ dash' = [dash EXCEPT ![t] = Closed(p, "FAILED")]
      /\ \E to \in Outcome("failed", tasks[t].state) : SetRow(t, "state", to)
  BY <1>1, <1>4 DEF FailRequest, Attempt
<1>6. Put(t, "FAILED")
  BY <1>2, <1>3, <1>5, OutcomeLemma, PutLemma DEF States, Terminal
<1>7. dash'[t] = Closed(p, "FAILED") /\ OnlyCard(t)
  BY <1>3, <1>5 DEF OnlyCard, Locked, Typed
<1>8. dash'[t].state = "FAILED" /\ dash'[t].card = dash[t].card
  BY <1>1, <1>3, <1>7 DEF Closed, Card, Cards
<1>9. Console(t) /\ NoText \notin Gates
  BY <1>2, GatesAreNamed DEF Facing
<1>10. \A h \in Gates : records[t][h] = "APPROVED" => h \in tasks[t].approved
  BY <1>3, <1>9 DEF Console, Free, ParkedOn
<1>11. Console(t)'
  BY <1>2, <1>6, <1>8, <1>9, <1>10 DEF Console, Put, Kept, Columns, Shown
<1>12. Applied(p)'
  BY <1>2, AppliedLoose DEF Moved, Telling, Asking, Judging
<1> QED BY <1>1, <1>2, <1>3, <1>6, <1>7, <1>11, <1>12, OwnStep DEF Put, Moved, OnlyRecords

(* Who applies a verdict is alone in between at its task. *)
LEMMA JudgeFaces ==
  ASSUME Locked, Once, Facing, NEW p \in Threads, thr[p].pc \in Judging,
         NEW t, t = thr[p].task
  PROVE  /\ Alone(p, t) /\ tasks[t].state = "AWAITING_APPROVAL" /\ ParkedOn(t, thr[p].card)
         /\ t \in DOMAIN tasks /\ t \in TaskIds /\ thr[p].card \in Gates /\ ~Asked(t)
         /\ dash[t] \in Cards /\ Card(p) = dash[t] /\ Console(t) /\ Shown(t)
         /\ tasks[t].approval = thr[p].card
<1>1. /\ t \in DOMAIN tasks /\ t \in TaskIds /\ thr[p].card \in Gates
      /\ tasks[t].state = "AWAITING_APPROVAL" /\ ParkedOn(t, thr[p].card)
      /\ \A q \in Threads : q # p /\ thr[q].task = t =>
                              thr[q].pc \notin Walking \cup Asking \cup Judging
  BY JudgeAlone
<1>2. \A q \in Threads : thr[q].task = t => thr[q].pc # "granted"
  BY <1>1 DEF Facing, Applied
<1>3. ~Asked(t)
  BY <1>1 DEF Asked, Asking, Judging
<1>4. dash[t] \in Cards /\ Card(p) = dash[t] /\ Console(t)
  BY <1>1 DEF Locked, Typed, Card, Facing
<1>5. Shown(t)
  BY <1>1, <1>3, <1>4 DEF Console
<1>6. Alone(p, t)
  BY <1>1, <1>2 DEF Alone
<1> QED BY <1>1, <1>3, <1>4, <1>5, <1>6 DEF ParkedOn

(* A thread that goes on applying its verdict. *)
LEMMA StillApplying ==
  ASSUME Locked, Once, Facing, NEW p \in Threads, thr[p].pc \in Judging,
         NEW t, t = thr[p].task, Elsewhere(p), thr'[p].task = t,
         thr'[p].pc \in Judging \ {"status"}, Applied(p)',
         Others(t), UNCHANGED dash, OnlyRecords(t),
         tasks'[t].state = tasks[t].state, tasks'[t].approval = tasks[t].approval,
         tasks'[t].playbook = tasks[t].playbook, tasks'[t].cursor = tasks[t].cursor,
         \A h \in Gates : h # thr[p].card =>
           records'[t][h] = records[t][h] /\ (h \in tasks[t].approved => h \in tasks'[t].approved)
  PROVE  Facing'
<1>1. /\ Alone(p, t) /\ tasks[t].state = "AWAITING_APPROVAL" /\ ParkedOn(t, thr[p].card)
      /\ t \in DOMAIN tasks /\ Console(t) /\ Shown(t)
  BY JudgeFaces
<1>2. Applying(t)' /\ Shown(t)'
  BY <1>1 DEF Applying, Shown
<1>3. \A h : ParkedOn(t, h)' <=> ParkedOn(t, h)
  BY SMTT(30) DEF ParkedOn, Pos, Stages
<1>4. Console(t)'
  BY <1>1, <1>2, <1>3 DEF Console
<1> QED BY <1>1, <1>4, OwnStep DEF OnlyCard

LEMMA FacingUpdate ==
  ASSUME Locked, Once, Facing, NEW p \in Threads,
         UpdateStatus(p) \/ ReadBack(p) \/ ReadRow(p) \/ SaveGrant(p)
  PROVE  Facing'
<1>1. PICK t : t = thr[p].task
  BY SMTT(30)
<1>2. UNCHANGED dash
  BY DEF UpdateStatus, ReadBack, ReadRow, SaveGrant
<1>3. CASE UpdateStatus(p)
  <2>1. /\ UNCHANGED tasks /\ At(p, "status") /\ Moved(p, "read_back")
        /\ \A u \in TaskIds, h \in Gates :
             u # t \/ h # thr[p].card => records'[u][h] = records[u][h]
        /\ records' = [records EXCEPT ![t][thr[p].card] = thr[p].verdict]
    BY <1>1, <1>3, UpdateEffect
  <2>2. t \in TaskIds
    BY <1>1, <2>1, RowLemma DEF At
  <2>3. OnlyRecords(t) /\ Others(t)
    BY <2>1, <2>2 DEF OnlyRecords, Others, Locked, Typed, Ledgers
  <2>4. Applied(p)'
    BY <2>1 DEF Applied, Moved, Asking
  <2> QED BY <1>1, <1>2, <2>1, <2>2, <2>3, <2>4, StillApplying DEF Moved, Judging, At
<1>4. CASE ReadBack(p)
  <2>1. /\ At(p, "read_back") /\ UNCHANGED <<tasks, records>>
    BY <1>4 DEF ReadBack, persistent
  <2>2. Moved(p, "read_row") \/ Moved(p, "deny")
    <3>1. records[t][thr[p].card] = thr[p].verdict
      BY <1>1, <2>1 DEF Once, Judged, At
    <3>2. thr[p].verdict \in {"APPROVED", "DENIED"}
      BY <2>1, InputsAssumption DEF Locked, Bound, Judging, At
    <3>3. Goto(p, "read_row") \/ Goto(p, "deny")
      BY <1>1, <1>4, <3>1, <3>2 DEF ReadBack
    <3> QED BY <3>3, MovedLemma DEF Pcs
  <2>3. Applied(p)' /\ Others(t) /\ OnlyRecords(t)
    BY <2>1, <2>2 DEF Applied, Moved, Asking, Others, OnlyRecords
  <2> QED BY <1>1, <1>2, <2>1, <2>2, <2>3, StillApplying, SMTT(30) DEF Moved, Judging, At
<1>5. CASE ReadRow(p)
  <2>1. /\ Silent /\ At(p, "read_row") /\ Elsewhere(p) /\ thr'[p].pc = "grant"
        /\ thr'[p].task = t
        /\ \A h \in tasks[t].approved : h \in thr'[p].approved
    BY <1>1, <1>5, ReadRowEffect
  <2>2. Applied(p)' /\ Others(t) /\ OnlyRecords(t)
    BY <2>1 DEF Applied, Asking, Others, OnlyRecords, Silent
  <2> QED BY <1>1, <1>2, <2>1, <2>2, StillApplying DEF Judging, At, Silent
<1>6. CASE SaveGrant(p)
  <2>1. /\ UNCHANGED records /\ At(p, "grant") /\ Moved(p, "approve")
        /\ Others(t) /\ Kept(t)
        /\ tasks'[t].approved = thr[p].approved /\ tasks'[t].state = tasks[t].state
        /\ tasks'[t].cursor = tasks[t].cursor /\ tasks'[t].approval = tasks[t].approval
    BY <1>1, <1>6, SaveGrantEffect
  <2>2. tasks[t].approved \subseteq thr[p].approved
    BY <1>1, <2>1 DEF Facing, Applied, At
  <2>3. Applied(p)' /\ OnlyRecords(t)
    BY <2>1 DEF Applied, Moved, Asking, OnlyRecords
  <2> QED BY <1>1, <1>2, <2>1, <2>2, <2>3, StillApplying DEF Moved, Judging, At, Kept
<1> QED BY <1>3, <1>4, <1>5, <1>6

LEMMA FacingApprove ==
  ASSUME Locked, Once, Facing, NEW p \in Threads, Approve(p)
  PROVE  Facing'
<1>1. PICK t : t = thr[p].task
  OBVIOUS
<1>2. PICK g : g = thr[p].card
  OBVIOUS
<1>3. thr[p].pc = "approve"
  BY DEF Approve, At
<1>4. /\ Alone(p, t) /\ tasks[t].state = "AWAITING_APPROVAL" /\ ParkedOn(t, g)
      /\ t \in DOMAIN tasks /\ t \in TaskIds /\ dash[t] \in Cards /\ Card(p) = dash[t]
      /\ Console(t) /\ tasks[t].approval = g
  BY <1>1, <1>2, <1>3, JudgeFaces DEF Judging
<1>5. g \in tasks[t].approved
  BY <1>1, <1>2, <1>3 DEF Once, Judged
<1>6. OnlyCard(t) /\ dash'[t] = dash[t] /\ UNCHANGED records
  BY <1>1, <1>3, <1>4, AttemptScreen DEF Approve
<1>7. Moved(p, "granted") /\ Put(t, "COORDINATING")
  <2>1. Accepts("approve", tasks[t].state)
    BY <1>4 DEF Accepts, Outcome, Transitions, States, Active, Terminal, Waits
  <2>2. Goto(p, "granted")
    BY <1>1, <2>1 DEF Approve, Attempt
  <2>3. thr'[p].pc = "granted"
    BY <2>2, MovedLemma DEF Moved, Pcs
  <2> QED BY <1>1, <1>3, <2>3, VerdictEffect DEF Moved, At
<1>8. Granting(t)'
  BY <1>1, <1>7 DEF Granting, Moved
<1>9. \A h \in Gates : records[t][h] = "APPROVED" => h \in tasks[t].approved
  BY <1>4, <1>5 DEF Console, ParkedOn
<1>10. Console(t)'
  BY <1>4, <1>6, <1>7, <1>8, <1>9 DEF Console, Put, Kept, Columns
<1>11. Applied(p)'
  BY <1>1, <1>4, <1>5, <1>7 DEF Applied, Moved, Put, Columns, Asking
<1> QED BY <1>1, <1>4, <1>6, <1>7, <1>10, <1>11, OwnStep DEF Put, Moved, OnlyRecords

LEMMA FacingGranted ==
  ASSUME Locked, Once, Facing, NEW p \in Threads, PublishGrant(p)
  PROVE  Facing'
<1>1. PICK t : t = thr[p].task
  OBVIOUS
<1>2. At(p, "granted") /\ UNCHANGED <<tasks, records>> /\ Elsewhere(p)
  BY SilentEffect DEF PublishGrant, Silent
<1>3. t \in DOMAIN tasks /\ t \in TaskIds /\ Console(t)
  BY <1>1, <1>2, RowLemma DEF At, Facing
<1>4. tasks[t].state # "AWAITING_APPROVAL"
  BY <1>1, <1>2 DEF Facing, Applied, At
<1>5. dash'[t].state = "EXECUTING" /\ dash'[t].card = NoText /\ OnlyCard(t)
  <2>1. dash' = [dash EXCEPT ![t] = [state |-> "EXECUTING", card |-> NoText]]
    BY <1>1 DEF PublishGrant
  <2> QED BY <1>3, <2>1 DEF OnlyCard, Locked, Typed
<1>6. Console(t)'
  BY <1>2, <1>3, <1>4, <1>5 DEF Console, Shown
<1>7. thr'[p].pc = "acquire"
  BY <1>2 DEF PublishGrant, Locked, Typed, Rest
<1>8. Applied(p)'
  BY <1>7, AppliedLoose DEF Telling, Asking, Judging
<1> QED BY <1>1, <1>2, <1>3, <1>5, <1>6, <1>8, OwnStep DEF Others, OnlyRecords

LEMMA FacingDeny ==
  ASSUME Locked, Once, Facing, NEW p \in Threads, Deny(p)
  PROVE  Facing'
<1>1. PICK t : t = thr[p].task
  OBVIOUS
<1>2. PICK g : g = thr[p].card
  OBVIOUS
<1>3. thr[p].pc = "deny" /\ UNCHANGED records
  BY DEF Deny, At
<1>4. /\ Alone(p, t) /\ tasks[t].state = "AWAITING_APPROVAL" /\ ParkedOn(t, g)
      /\ t \in DOMAIN tasks /\ t \in TaskIds /\ Console(t) /\ tasks[t].approval = g
  BY <1>1, <1>2, <1>3, JudgeFaces DEF Judging
<1>5. records[t][g] = "DENIED"
  BY <1>1, <1>2, <1>3 DEF Once, Judged
<1>6. Accepts("deny", tasks[t].state)
  BY <1>4 DEF Accepts, Outcome, Transitions, States, Active, Terminal, Waits
<1>7. dash'[t].state = "PARTIAL" /\ dash'[t].card = NoText /\ OnlyCard(t)
  <2>1. dash' = [dash EXCEPT ![t] = [state |-> "PARTIAL", card |-> NoText]]
    BY <1>1, <1>6 DEF Deny, Attempt
  <2> QED BY <1>4, <2>1 DEF OnlyCard, Locked, Typed
<1>8. Moved(p, "release") /\ Put(t, "PARTIAL")
  <2>1. \E to \in Outcome("deny", tasks[t].state) : SetRow(t, "state", to)
    BY <1>1, <1>6 DEF Deny, Attempt
  <2>2. Put(t, "PARTIAL")
    BY <1>4, <2>1, OutcomeLemma, PutLemma DEF States, Terminal
  <2>3. Moved(p, "release")
    BY <1>3, VerdictEffect DEF At
  <2> QED BY <2>2, <2>3
<1>9. \A h \in Gates : records[t][h] = "APPROVED" => h \in tasks[t].approved
  BY <1>4, <1>5 DEF Console, ParkedOn
<1>10. Console(t)'
  BY <1>3, <1>4, <1>7, <1>8, <1>9 DEF Console, Put, Kept, Columns, Shown
<1>11. Applied(p)'
  BY <1>8, AppliedLoose DEF Moved, Telling, Asking, Judging
<1> QED BY <1>1, <1>3, <1>4, <1>7, <1>8, <1>10, <1>11, OwnStep DEF Put, Moved, OnlyRecords

LEMMA FacingStep ==
  OneGate => \A p \in Threads : Locked /\ Once /\ Facing /\ Step(p) => Facing'
<1> SUFFICES ASSUME OneGate, NEW p \in Threads, Locked, Once, Facing, Step(p) PROVE Facing'
  OBVIOUS
<1>1. CASE Validate(p)
  <2>1. /\ UNCHANGED <<tasks, records, dash>> /\ thr[p].pc = "validate"
        /\ (Goto(p, "status") \/ Goto(p, "release"))
    BY <1>1 DEF Validate, persistent, At
  <2>2. Elsewhere(p) /\ thr'[p].pc \in {"status", "release"}
    BY <2>1, MovedLemma DEF Moved, Pcs
  <2>3. Bystanding
    BY <2>1, <2>2 DEF Bystanding, Elsewhere, Telling, Asking, Judging
  <2> QED BY <2>1, <2>3, CalmStep
<1> QED BY <1>1, FacingDrive, FacingPark, FacingCreate, FacingPublish, FacingFail,
           FacingUpdate, FacingApprove, FacingGranted, FacingDeny
        DEF Step, Request, HandleApproval

(* A new task has neither card nor request. *)
LEMMA FacingOpened ==
  ASSUME Locked, Facing, Opened, DOMAIN tasks' \subseteq TaskIds,
         \A u \in DOMAIN tasks : dash'[u] = dash[u],
         \A u \in TaskIds : dash'[u].card = dash[u].card
  PROVE  Facing'
<1>0. /\ DOMAIN tasks \subseteq TaskIds /\ DOMAIN tasks \subseteq DOMAIN tasks'
      /\ UNCHANGED <<records, thr>>
  BY DEF Locked, Typed, Opened
<1>1. ASSUME NEW u \in DOMAIN tasks PROVE Console(u)'
  <2>1. Told(u) /\ Console(u)
    BY <1>0, <1>1 DEF Told, Asked, Applying, Granting, Facing
  <2> QED BY <1>0, <1>1, <2>1, ConsoleFrame DEF Opened, SameRow, Columns, Kept
<1>2. ASSUME NEW u \in DOMAIN tasks' \ DOMAIN tasks PROVE Console(u)'
  <2>1. /\ dash'[u].card = NoText /\ \A g \in Gates : records'[u][g] # "APPROVED"
    BY <1>0, <1>2 DEF Facing, Unseen
  <2>2. Fresh(u)
    BY <1>2 DEF Opened
  <2> QED BY <2>1, <2>2 DEF Console, Fresh, Shown
<1>3. ASSUME NEW q \in Threads PROVE Applied(q)'
  <2>1. thr[q].pc \in Telling => thr[q].task \in DOMAIN tasks
    BY RowLemma DEF Telling, Asking, Judging
  <2> QED BY <1>0, <2>1, AppliedFrame DEF Facing, Opened, SameRow, Columns, Kept
<1>4. Unseen'
  BY <1>0 DEF Facing, Unseen
<1> QED BY <1>1, <1>2, <1>3, <1>4 DEF Facing

LEMMA FacingNext ==
  OneGate /\ MaxCrashes = 0 /\ Locked /\ Once /\ Facing /\ [Next]_vars => Facing'
<1> SUFFICES ASSUME OneGate, MaxCrashes = 0, Locked, Once, Facing, [Next]_vars PROVE Facing'
  OBVIOUS
<1>1. ASSUME NEW p \in Threads, NEW t \in TaskIds, NEW v,
             StartDrive(p, t) \/ Decide(p, t, v)
      PROVE  Facing'
  <2>1. /\ UNCHANGED <<tasks, records, dash>> /\ Elsewhere(p) /\ thr[p].pc = "idle"
        /\ thr'[p].pc \in {"acquire", "validate"}
    BY <1>1 DEF StartDrive, Decide, At, Elsewhere, persistent, Locked, Typed, Locals
  <2>2. Bystanding
    BY <2>1 DEF Bystanding, Elsewhere, Telling, Asking, Judging
  <2> QED BY <2>1, <2>2, CalmStep
<1>2. DOMAIN tasks' \subseteq TaskIds
  BY LockedNext DEF Locked, Typed
<1>3. ASSUME NEW t \in TaskIds, NEW pb \in UsedPlaybooks, Ingest(t, pb) PROVE Facing'
  <2>1. /\ dash' = [dash EXCEPT ![t].state = "RECEIVED"] /\ t \notin DOMAIN tasks
    BY <1>3 DEF Ingest
  <2>2. /\ \A u \in DOMAIN tasks : dash'[u] = dash[u]
        /\ \A u \in TaskIds : dash'[u].card = dash[u].card
    BY <2>1 DEF Locked, Typed, Cards
  <2> QED BY <1>2, <1>3, <2>2, OpenedLemma, FacingOpened
<1>4. ASSUME NEW i \in Incidents, NEW pb \in UsedPlaybooks, NEW s \in Severities,
             SpawnFromIncident(i, pb, s)
      PROVE  Facing'
  <2>1. UNCHANGED dash
    BY <1>4 DEF SpawnFromIncident
  <2> QED BY <1>2, <1>4, <2>1, OpenedLemma, FacingOpened
<1>5. ASSUME NEW t \in TaskIds, RequestClarification(t) \/ ClarificationReply(t)
      PROVE  Facing'
  <2>1. ClarifyEffect(t)
    BY <1>5, ClarifyLemma
  <2>2. UNCHANGED dash /\ t \in DOMAIN tasks
    BY <1>5, <2>1 DEF RequestClarification, ClarificationReply, ClarifyEffect
  <2>3. /\ Others(t) /\ UNCHANGED <<records, thr>> /\ tasks[t].state # "AWAITING_APPROVAL"
        /\ tasks'[t].state # "AWAITING_APPROVAL" /\ Kept(t) /\ Columns(t)
    BY <2>1 DEF ClarifyEffect, Put
  <2>4. Bystanding /\ OnlyCard(t) /\ (Shown(t)' => Shown(t))
    BY <2>2, <2>3 DEF Bystanding, OnlyCard, Shown
  <2> QED BY <2>2, <2>3, <2>4, WorkStep DEF Kept, Columns
<1>6. CASE UNCHANGED vars
  <2>1. UNCHANGED <<tasks, records, dash>> /\ Bystanding
    BY <1>6 DEF vars, persistent, Bystanding
  <2> QED BY <2>1, CalmStep
<1>7. ~Crash
  <2>1. budget.crashes \in Nat
    BY DEF Locked, Typed, Budgets
  <2> QED BY <2>1 DEF Crash
<1> QED BY <1>1, <1>3, <1>4, <1>5, <1>6, <1>7, FacingStep DEF Next

LEMMA FacingInit == Init => Facing
<1> SUFFICES ASSUME Init PROVE Facing
  OBVIOUS
<1>1. \A p \in Threads : Applied(p)
  BY RestLemma DEF Init, Applied, Asking
<1>2. Unseen
  BY DEF Init, Unseen, Blank
<1> QED BY <1>1, <1>2 DEF Init, Facing

(* With one decision per card, playbooks of one gate and no restart, the   *)
(* console shows for a task at rest exactly the request the store waits    *)
(* for, whatever drivers, decisions, failures and clarifications do.       *)
THEOREM ConsoleIsTrue ==
  OneGate /\ MaxClicks <= 1 /\ MaxCrashes = 0 => (Spec => []ConsoleAgrees)
<1> SUFFICES ASSUME OneGate, MaxClicks <= 1, MaxCrashes = 0 PROVE Spec => []ConsoleAgrees
  OBVIOUS
<1>1. Init => Locked /\ Once /\ Facing
  BY LockedInit, OnceInit, FacingInit
<1>2. (Locked /\ Once /\ Facing) /\ [Next]_vars => (Locked /\ Once /\ Facing)'
  BY LockedNext, OnceNext, FacingNext
<1>3. Locked /\ Once /\ Facing => ConsoleAgrees
  <2> SUFFICES ASSUME Facing, NEW t \in DOMAIN tasks, Quiet(t)
               PROVE  /\ Shown(t) <=> tasks[t].state = "AWAITING_APPROVAL"
                      /\ Shown(t) => /\ dash[t].card = tasks[t].approval
                                     /\ records[t][dash[t].card] = "PENDING"
    BY DEF ConsoleAgrees
  <2>1. ~Asked(t) /\ ~Applying(t) /\ ~Granting(t)
    BY DEF Quiet, Asked, Applying, Granting
  <2>2. Console(t)
    BY DEF Facing
  <2> QED BY <2>1, <2>2 DEF Console, Shown
<1> QED BY <1>1, <1>2, <1>3, PTL DEF Spec
=============================================================================
