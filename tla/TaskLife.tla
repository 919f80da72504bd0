------------------------------ MODULE TaskLife ------------------------------
(***************************************************************************)
(* What the task layer promises about the life of its tasks, without       *)
(* saying how: a task is opened once, lives, and is closed for good; its   *)
(* priority only ever hardens; and at most one task is alive for an        *)
(* (incident, playbook) pair, however often the incident is reported.      *)
(***************************************************************************)
EXTENDS Naturals

CONSTANTS TaskIds,   \* task identifiers
          Pairs,     \* (incident, playbook) pairs
          NoPair     \* the pair of a task no incident asked for

VARIABLES life,      \* TaskIds -> "unborn" | "live" | "done"
          pair,      \* TaskIds -> Pairs \cup {NoPair}
          rank       \* TaskIds -> 0..3, the weight of the priority class

vars == <<life, pair, rank>>

Init == /\ life = [t \in TaskIds |-> "unborn"]
        /\ pair = [t \in TaskIds |-> NoPair]
        /\ rank = [t \in TaskIds |-> 0]

Open(t, k, r) ==
  /\ life[t] = "unborn"
  /\ k # NoPair => \A u \in TaskIds : life[u] = "live" => pair[u] # k
  /\ life' = [life EXCEPT ![t] = "live"]
  /\ pair' = [pair EXCEPT ![t] = k]
  /\ rank' = [rank EXCEPT ![t] = r]

Harden(t, r) ==
  /\ life[t] # "unborn"
  /\ r > rank[t]
  /\ rank' = [rank EXCEPT ![t] = r]
  /\ UNCHANGED <<life, pair>>

(* One step may close several tasks: a TTL sweep does. *)
Close(S) ==
  /\ S # {}
  /\ \A t \in S : life[t] = "live"
  /\ life' = [t \in TaskIds |-> IF t \in S THEN "done" ELSE life[t]]
  /\ UNCHANGED <<pair, rank>>

Next == \/ \E t \in TaskIds, k \in Pairs \cup {NoPair}, r \in 1..3 : Open(t, k, r)
        \/ \E t \in TaskIds, r \in 1..3 : Harden(t, r)
        \/ \E S \in SUBSET TaskIds : Close(S)

Spec == Init /\ [][Next]_vars
=============================================================================
