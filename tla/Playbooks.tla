----------------------------- MODULE Playbooks -----------------------------
(***************************************************************************)
(* The deterministic playbooks: the closed stage menu, the four seed       *)
(* playbooks as fixed stage sequences, the stages a human must approve,    *)
(* and the declared back-edges with their attempt caps.  Agent roles,      *)
(* device sets and stage inputs are content the control flow never reads.  *)
(***************************************************************************)
EXTENDS Naturals, Sequences

StageMenu == {"observe", "analyze", "adjudicate", "plan", "act", "verify", "report"}

(* The stages that are run in COORDINATING; earlier ones run in PLANNING.  *)
CoordinationStages == {"adjudicate", "act", "verify", "report"}

(* priority: the priority a request gets when it names none; edges: <<failed   *)
(* stage, stage to re-enter, cap>>.                                        *)
PlaybookTable ==
  [prepare_inspection |->
     [priority |-> "ROUTINE",
      stages |-> <<"observe", "plan", "analyze", "adjudicate", "act", "verify", "report">>,
      gates  |-> {"adjudicate", "act"},
      edges  |-> {<<"act", "plan", 2>>, <<"verify", "act", 2>>}],
   conflict_assessment |->
     [priority |-> "URGENT",
      stages |-> <<"observe", "analyze", "analyze", "adjudicate", "act", "verify", "report">>,
      gates  |-> {"adjudicate", "act"},
      edges  |-> {<<"adjudicate", "analyze", 1>>}],
   line_inspection_timeout |->
     [priority |-> "URGENT",
      stages |-> <<"observe", "plan", "act", "verify", "report">>,
      gates  |-> {},
      edges  |-> {<<"act", "observe", 3>>, <<"verify", "act", 2>>}],
   generic |->
     [priority |-> "ROUTINE",
      stages |-> <<"observe", "plan", "act", "verify", "report">>,
      gates  |-> {"act"},
      edges  |-> {<<"act", "plan", 2>>}]]

PlaybookIds == DOMAIN PlaybookTable

SeverityPriority == [critical |-> "SAFETY", high |-> "URGENT", medium |-> "URGENT",
                     low |-> "ROUTINE", info |-> "ROUTINE"]

StagesOf(pb) == PlaybookTable[pb].stages
GatesOf(pb)  == PlaybookTable[pb].gates

(* _stage_index: where a stage name first occurs. *)
StageIndex(pb, s) ==
  CHOOSE n \in DOMAIN StagesOf(pb) :
    /\ StagesOf(pb)[n] = s
    /\ \A m \in 1..(n - 1) : StagesOf(pb)[m] # s

BackEdges(pb, s) == {e \in PlaybookTable[pb].edges : e[1] = s}

(* back_edge_cap: no declared edge allows no re-entry at all. *)
Cap(pb, s) ==
  IF BackEdges(pb, s) = {} THEN 0 ELSE (CHOOSE e \in BackEdges(pb, s) : TRUE)[3]

TargetOf(pb, s) == StageIndex(pb, (CHOOSE e \in BackEdges(pb, s) : TRUE)[2])

(* validate() finds nothing wrong with any seed playbook: stages come from *)
(* the menu, and a back-edge re-enters a strictly earlier stage.           *)
ASSUME PlaybooksAssumption ==
  \A pb \in PlaybookIds :
    /\ \A n \in DOMAIN StagesOf(pb) : StagesOf(pb)[n] \in StageMenu
    /\ \A e \in PlaybookTable[pb].edges :
         \E n, m \in DOMAIN StagesOf(pb) :
           /\ StagesOf(pb)[n] = e[1] /\ StagesOf(pb)[m] = e[2]
           /\ StageIndex(pb, e[2]) < StageIndex(pb, e[1])
=============================================================================
