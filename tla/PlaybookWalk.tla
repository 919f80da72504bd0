---------------------------- MODULE PlaybookWalk ----------------------------
(***************************************************************************)
(* What the supervisor promises about a task, without threads, locks, tool *)
(* calls or restarts: the task walks its playbook one stage at a time; a   *)
(* gated stage is passed only after a human granted it; the only way back  *)
(* is a declared back-edge, at most as often as its cap allows; it is      *)
(* reported only from the end of the playbook, and may be given up at any  *)
(* point before.                                                           *)
(***************************************************************************)
EXTENDS Playbooks

CONSTANTS TaskIds, Idle, Books   \* Idle: no playbook yet; Books: those in use

VARIABLES book,      \* TaskIds -> Books \cup {Idle}
          at,        \* TaskIds -> the stage to run next, one past the end when none
          tries,     \* TaskIds -> back-edges taken
          granted,   \* TaskIds -> gates a human granted
          outcome    \* TaskIds -> "open" | "reported" | "given_up"

vars == <<book, at, tries, granted, outcome>>

Len1(t) == Len(StagesOf(book[t])) + 1

Init == /\ book = [t \in TaskIds |-> Idle]
        /\ at = [t \in TaskIds |-> 1]
        /\ tries = [t \in TaskIds |-> 0]
        /\ granted = [t \in TaskIds |-> {}]
        /\ outcome = [t \in TaskIds |-> "open"]

Walking(t) == book[t] # Idle /\ outcome[t] = "open"

Start(t, pb) ==
  /\ book[t] = Idle
  /\ book' = [book EXCEPT ![t] = pb]
  /\ UNCHANGED <<at, tries, granted, outcome>>

Grant(t, g) ==
  /\ Walking(t)
  /\ granted' = [granted EXCEPT ![t] = @ \cup {g}]
  /\ UNCHANGED <<book, at, tries, outcome>>

Forward(t) ==
  /\ Walking(t) /\ at[t] < Len1(t)
  /\ LET s == StagesOf(book[t])[at[t]] IN s \in GatesOf(book[t]) => s \in granted[t]
  /\ at' = [at EXCEPT ![t] = @ + 1]
  /\ UNCHANGED <<book, tries, granted, outcome>>

(* Stage s was run and failed. *)
Back(t, s) ==
  /\ Walking(t) /\ BackEdges(book[t], s) # {}
  /\ at[t] = StageIndex(book[t], s) + 1
  /\ tries[t] < Cap(book[t], s)
  /\ at' = [at EXCEPT ![t] = TargetOf(book[t], s)]
  /\ tries' = [tries EXCEPT ![t] = @ + 1]
  /\ UNCHANGED <<book, granted, outcome>>

Report(t) ==
  /\ Walking(t) /\ at[t] = Len1(t)
  /\ outcome' = [outcome EXCEPT ![t] = "reported"]
  /\ UNCHANGED <<book, at, tries, granted>>

GiveUp(t) ==
  /\ Walking(t)
  /\ outcome' = [outcome EXCEPT ![t] = "given_up"]
  /\ UNCHANGED <<book, at, tries, granted>>

Next == \E t \in TaskIds :
          \/ \E pb \in Books : Start(t, pb)
          \/ \E g \in StageMenu : Grant(t, g)
          \/ \E s \in StageMenu : Back(t, s)
          \/ Forward(t) \/ Report(t) \/ GiveUp(t)

Spec == Init /\ [][Next]_vars
=============================================================================
