-------------------------- MODULE TaskStoreProofs --------------------------
(***************************************************************************)
(* Theorems of the task store, for any number of tasks, incidents and      *)
(* playbooks and any clock bound.                                          *)
(***************************************************************************)
EXTENDS TaskStore, TLAPS

(* What the transition table can do: only live states have outgoing        *)
(* transitions, and they lead to states of the closed set.                 *)
LEMMA TableLemma ==
  ASSUME NEW ev, NEW s, NEW to \in Outcome(ev, s)
  PROVE  to \in States /\ s \notin Terminal
BY DEF Outcome, Transitions, States, Active, Terminal, Waits

LEMMA RankLemma ==
  ASSUME NEW p \in Priorities
  PROVE  Rank(p) \in 1..3
BY DEF Priorities, Rank

(* Rows are always well formed, whatever calls are made.                   *)
THEOREM TypeCorrect == Spec => []TypeOK
<1>1. Init => TypeOK
  BY TtlAssumption DEF Init, TypeOK
<1>2. TypeOK /\ [Next]_vars => TypeOK'
  <2> SUFFICES ASSUME TypeOK, [Next]_vars
               PROVE  TypeOK'
    OBVIOUS
  <2> USE DEF TypeOK, Row
  <2>1. ASSUME NEW t \in TaskIds, NEW i \in Incidents \cup {NoIncident},
               NEW pb \in Playbooks, NEW p \in Priorities, Mint(t, i, pb, p)
        PROVE  TypeOK'
    <3>1. "RECEIVED" \in States
      BY DEF States, Active
    <3>2. QED
      BY <2>1, <3>1 DEF Mint, Insert
  <2>2. ASSUME NEW t \in TaskIds, NEW p \in Priorities, RaisePriority(t, p)
        PROVE  TypeOK'
    BY <2>2 DEF RaisePriority
  <2>3. ASSUME NEW t \in TaskIds, NEW ev \in Events, Transition(t, ev)
        PROVE  TypeOK'
    <3>1. PICK to \in Outcome(ev, tasks[t].state) :
            tasks' = [tasks EXCEPT ![t].state = to, ![t].updated = clock]
      BY <2>3 DEF Transition
    <3>2. to \in States
      BY TableLemma
    <3>3. QED
      BY <2>3, <3>1, <3>2 DEF Transition
  <2>4. ASSUME NEW t \in TaskIds, SetColumn(t)
        PROVE  TypeOK'
    BY <2>4 DEF SetColumn
  <2>5. CASE ResumeUnfinished
    <3>1. "CANCELLED" \in States
      BY DEF States, Terminal
    <3>2. QED
      BY <2>5, <3>1 DEF ResumeUnfinished
  <2>6. CASE Tick
    BY <2>6, TtlAssumption DEF Tick
  <2>7. CASE UNCHANGED vars
    BY <2>7 DEF vars
  <2>8. QED
    BY <2>1, <2>2, <2>3, <2>4, <2>5, <2>6, <2>7 DEF Next
<1>3. QED
  BY <1>1, <1>2, PTL DEF Spec

(***************************************************************************)
(* The unique index at mint time keeps a pair single only because no call  *)
(* brings a closed row back to life; both halves are needed at every step. *)
(***************************************************************************)
THEOREM OneLivePairHolds == Spec => []OneLivePair
<1>1. Init => OneLivePair
  BY DEF Init, OneLivePair
<1>2. TypeOK /\ OneLivePair /\ [Next]_vars => OneLivePair'
  <2> SUFFICES ASSUME TypeOK, OneLivePair, [Next]_vars
               PROVE  OneLivePair'
    OBVIOUS
  <2> USE DEF TypeOK, OneLivePair, Row, Live, Pair
  <2>1. ASSUME NEW t \in TaskIds, NEW i \in Incidents \cup {NoIncident},
               NEW pb \in Playbooks, NEW p \in Priorities, Mint(t, i, pb, p)
        PROVE  OneLivePair'
    BY <2>1 DEF Mint, Insert, LivePair
  <2>2. ASSUME NEW t \in TaskIds, NEW p \in Priorities, RaisePriority(t, p)
        PROVE  OneLivePair'
    BY <2>2 DEF RaisePriority
  <2>3. ASSUME NEW t \in TaskIds, NEW ev \in Events, Transition(t, ev)
        PROVE  OneLivePair'
    <3>1. PICK to \in Outcome(ev, tasks[t].state) :
            tasks' = [tasks EXCEPT ![t].state = to, ![t].updated = clock]
      BY <2>3 DEF Transition
    <3>2. Live(t)
      BY <3>1, TableLemma
    <3>3. QED
      BY <2>3, <3>1, <3>2 DEF Transition
  <2>4. ASSUME NEW t \in TaskIds, SetColumn(t)
        PROVE  OneLivePair'
    BY <2>4 DEF SetColumn
  <2>5. CASE ResumeUnfinished
    <3>1. DOMAIN tasks' = DOMAIN tasks
      BY <2>5 DEF ResumeUnfinished
    <3>2. ASSUME NEW t \in DOMAIN tasks
          PROVE  Pair(t)' = Pair(t) /\ (Live(t)' => Live(t))
      BY <2>5 DEF ResumeUnfinished, Expired, Waits, Terminal
    <3>3. ASSUME NEW t \in DOMAIN tasks
          PROVE  (tasks[t].incident)' = tasks[t].incident
      BY <2>5 DEF ResumeUnfinished
    <3>4. QED
      BY <3>1, <3>2, <3>3
  <2>6. CASE Tick
    BY <2>6 DEF Tick
  <2>7. CASE UNCHANGED vars
    BY <2>7 DEF vars
  <2>8. QED
    BY <2>1, <2>2, <2>3, <2>4, <2>5, <2>6, <2>7 DEF Next
<1>3. QED
  BY <1>1, <1>2, TypeCorrect, PTL DEF Spec

(***************************************************************************)
(* Refinement: every call of the store is a step of the abstract life of a *)
(* task or changes nothing of it.                                          *)
(***************************************************************************)
THEOREM StoreImplementsLife == Spec => ImplementsLife
<1>1. Init => Life!Init
  BY DEF Init, Life!Init, MapLife, MapPair, MapRank
<1>2. TypeOK /\ OneLivePair /\ [Next]_vars => [Life!Next]_(Life!vars)
  <2> SUFFICES ASSUME TypeOK, OneLivePair, [Next]_vars
               PROVE  [Life!Next]_(Life!vars)
    OBVIOUS
  <2> USE DEF TypeOK, Row, Live, Pair
  <2>1. ASSUME NEW t \in TaskIds, NEW i \in Incidents \cup {NoIncident},
               NEW pb \in Playbooks, NEW p \in Priorities, Mint(t, i, pb, p)
        PROVE  Life!Next
    <3> DEFINE k == IF i # NoIncident THEN <<i, pb>> ELSE NoIncident
    <3>1. k \in (Incidents \X Playbooks) \cup {NoIncident} /\ Rank(p) \in 1..3
      BY RankLemma
    <3>2. MapLife[t] = "unborn"
      BY <2>1 DEF Mint, MapLife
    <3>3. ASSUME k # NoIncident, NEW u \in TaskIds, MapLife[u] = "live"
          PROVE  MapPair[u] # k
      BY <2>1, <3>3, NoIncidentAssumption DEF Mint, LivePair, MapLife, MapPair
    <3>4. MapLife' = [MapLife EXCEPT ![t] = "live"]
      BY <2>1 DEF Mint, Insert, MapLife, Terminal
    <3>5. MapPair' = [MapPair EXCEPT ![t] = k]
      BY <2>1 DEF Mint, Insert, MapPair
    <3>6. MapRank' = [MapRank EXCEPT ![t] = Rank(p)]
      BY <2>1 DEF Mint, Insert, MapRank
    <3>7. Life!Open(t, k, Rank(p))
      BY <3>2, <3>3, <3>4, <3>5, <3>6 DEF Life!Open, MapLife, MapPair, MapRank
    <3>8. QED
      BY <3>1, <3>7 DEF Life!Next
  <2>2. ASSUME NEW t \in TaskIds, NEW p \in Priorities, RaisePriority(t, p)
        PROVE  Life!Next
    <3>1. Rank(p) \in 1..3
      BY RankLemma
    <3>2. MapLife[t] # "unborn" /\ Rank(p) > MapRank[t]
      BY <2>2 DEF RaisePriority, MapLife, MapRank
    <3>3. MapRank' = [MapRank EXCEPT ![t] = Rank(p)]
      BY <2>2 DEF RaisePriority, MapRank
    <3>4. MapLife' = MapLife /\ MapPair' = MapPair
      BY <2>2 DEF RaisePriority, MapLife, MapPair
    <3>5. Life!Harden(t, Rank(p))
      BY <3>2, <3>3, <3>4 DEF Life!Harden, MapLife, MapPair, MapRank
    <3>6. QED
      BY <3>1, <3>5 DEF Life!Next
  <2>3. ASSUME NEW t \in TaskIds, NEW ev \in Events, Transition(t, ev)
        PROVE  Life!Next \/ UNCHANGED Life!vars
    <3>1. PICK to \in Outcome(ev, tasks[t].state) :
            tasks' = [tasks EXCEPT ![t].state = to, ![t].updated = clock]
      BY <2>3 DEF Transition
    <3>2. Live(t) /\ t \in DOMAIN tasks
      BY <2>3, <3>1, TableLemma DEF Transition
    <3>3. MapPair' = MapPair /\ MapRank' = MapRank
      BY <3>1, <3>2 DEF MapPair, MapRank
    <3>4. CASE to \in Terminal
      <4>1. MapLife' = [u \in TaskIds |-> IF u \in {t} THEN "done" ELSE MapLife[u]]
        BY <3>1, <3>2, <3>4 DEF MapLife
      <4>2. MapLife[t] = "live"
        BY <3>2 DEF MapLife
      <4>3. Life!Close({t})
        BY <3>3, <4>1, <4>2 DEF Life!Close, MapLife, MapPair, MapRank
      <4>4. QED
        BY <4>3 DEF Life!Next
    <3>5. CASE to \notin Terminal
      <4>1. MapLife' = MapLife
        BY <3>1, <3>2, <3>5 DEF MapLife
      <4>2. QED
        BY <3>3, <4>1 DEF Life!vars, MapLife, MapPair, MapRank
    <3>6. QED
      BY <3>4, <3>5
  <2>4. ASSUME NEW t \in TaskIds, SetColumn(t)
        PROVE  UNCHANGED Life!vars
    <3>1. MapLife' = MapLife /\ MapPair' = MapPair /\ MapRank' = MapRank
      BY <2>4 DEF SetColumn, MapLife, MapPair, MapRank
    <3>2. QED
      BY <3>1 DEF Life!vars, MapLife, MapPair, MapRank
  <2>5. CASE ResumeUnfinished
    <3> DEFINE S == {t \in DOMAIN tasks : Expired(t)}
    <3>1. MapPair' = MapPair
      BY <2>5 DEF ResumeUnfinished, MapPair
    <3>2. MapRank' = MapRank
      BY <2>5 DEF ResumeUnfinished, MapRank
    <3>3. \A t \in S : MapLife[t] = "live"
      BY DEF MapLife, Expired, Waits, Terminal
    <3>4. MapLife' = [t \in TaskIds |-> IF t \in S THEN "done" ELSE MapLife[t]]
      BY <2>5 DEF ResumeUnfinished, MapLife, Terminal
    <3>5. CASE S = {}
      BY <3>1, <3>2, <3>4, <3>5 DEF Life!vars, MapLife, MapPair, MapRank
    <3>6. CASE S # {}
      <4>1. Life!Close(S)
        BY <3>1, <3>2, <3>3, <3>4, <3>6 DEF Life!Close, MapLife, MapPair, MapRank
      <4>2. QED
        BY <4>1 DEF Life!Next
    <3>7. QED
      BY <3>5, <3>6
  <2>6. CASE Tick
    BY <2>6 DEF Tick, Life!vars, MapLife, MapPair, MapRank
  <2>7. CASE UNCHANGED vars
    BY <2>7 DEF vars, Life!vars, MapLife, MapPair, MapRank
  <2>8. QED
    BY <2>1, <2>2, <2>3, <2>4, <2>5, <2>6, <2>7 DEF Next
<1>3. QED
  BY <1>1, <1>2, TypeCorrect, OneLivePairHolds, PTL
  DEF Spec, ImplementsLife, Life!Spec
=============================================================================
