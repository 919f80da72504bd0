----------------------------- MODULE MCDemoLoop -----------------------------
(***************************************************************************)
(* The demo's episode is on the first signal of mapping.yaml, which may be *)
(* of any kind: here a flow, a pressure, a temperature, or one of a kind   *)
(* without a token.  What the episode's symptoms are, and what the top     *)
(* hypothesis names, follows from the samples the demo writes before it    *)
(* diagnoses (harness_loop.py:67-119).                                     *)
(***************************************************************************)
EXTENDS DemoLoop, EvidenceFacts

Taxonomy == {"setpoint_divergence", "feedback_offset", "temp_spike", "pressure_drop", "flow_dip",
             "noise_burst"}

(* The score of the demo's episode is 6.2.                                 *)
DemoSymptoms(kind, s) ==
  E!Symptoms(kind, 6200, E!Divergence(E!Hai, E!DemoSeries(E!Hai, s), s).norm, Taxonomy)
DemoCause(s) == E!Ranked(E!Hai, Knobs.diagnosis, E!DemoSeries(E!Hai, s), s, NoTest)[1]

Flow == {"flow_dip", "noise_burst"}
Pressure == {"pressure_drop", "noise_burst"}
Heat == {"temp_spike", "noise_burst"}
Plain == {"noise_burst"}
Unexplained(s) == <<"unexplained", s>>
Other == <<"other">>

MCEpisodes == {Flow, Pressure, Heat, Plain}
MCCauses == {Unexplained("P1_FC_01"), Unexplained("P1_P_01"), Other}
MCCauseOf == [S \in MCEpisodes |-> CASE S = Flow -> Unexplained("P1_FC_01")
                                     [] S = Pressure -> Unexplained("P1_P_01")
                                     [] OTHER -> Other]

(* That is what the samples say.  The feedback is pulled away after the    *)
(* setpoint's last sample, and a position without a partner is left out:   *)
(* no divergence is seen, although harness_loop.py:118 says it is.         *)
ASSUME DemoShowsNoDivergence ==
  /\ Flow = DemoSymptoms("flow", "P1_FC_01") /\ Pressure = DemoSymptoms("pressure", "P1_P_01")
  /\ Heat = DemoSymptoms("temperature", "P1_FC_01") /\ Plain = DemoSymptoms("raw", "P1_FC_01")
  /\ \A s \in {"P1_FC_01", "P1_P_01"} : DemoCause(s) = Unexplained(s)
=============================================================================
