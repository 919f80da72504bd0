------------------------------- MODULE Mapping -------------------------------
(***************************************************************************)
(* The dataset's contract (mapping.yaml: columns, setpoint and feedback    *)
(* pairings, commands, assets) and the runtime knobs (harness.yaml), with  *)
(* what is refused when they are loaded.  Amounts are in tenths of their   *)
(* unit, rates and thresholds in thousandths.                              *)
(***************************************************************************)
EXTENDS Integers, FiniteSets, SequencesExt

(* The first element a condition holds of, or none of them.                *)
FirstOf(s, Holds(_), none) ==
  LET i == SelectInSeq(s, Holds) IN IF i = 0 THEN none ELSE s[i]

(* Override what is given, key by key: dict.get with a default, and _as,   *)
(* which drops the keys it does not know.                                  *)
Over(defaults, given) ==
  [k \in DOMAIN defaults |-> IF k \in DOMAIN given THEN given[k] ELSE defaults[k]]

(* MappedSignal.from_dict, Command.from_dict                               *)
Column(given) == Over([signal_id |-> "", source |-> "", area |-> "", kind |-> "raw",
                       scale |-> 1000], given)
Command(given) ==
  Over([name |-> "", target |-> "", min |-> 0, max |-> 1000, safeMin |-> 0, safeMax |-> 1000,
        default |-> 0, energyCost |-> 500, riskBaseline |-> 200, effectGain |-> 900], given)

NoPair == [signal |-> "", setpoint |-> "", feedback |-> ""]
References(p) == {p.signal, p.setpoint, p.feedback}
PairFor(m, s) == FirstOf(m.pairing, LAMBDA p : s \in References(p), NoPair)
AssetFor(m, s) == FirstOf(m.assets, LAMBDA a : s \in a.signals, [name |-> "", signals |-> {}]).name
CommandFor(m, target) == FirstOf(m.commands, LAMBDA c : c.target = target, Command(<< >>))

(* by_id: the last column of an id is the one kept.                        *)
ById(m, s) == FirstOf(Reverse(m.columns), LAMBDA c : c.signal_id = s, Column(<< >>))

SignalsOfMapping(m) == {c.signal_id : c \in Range(m.columns)}

(* validate                                                                *)
MappingFaults(m) ==
  LET Each(s, f) == [i \in DOMAIN s |-> s[i][f]]
      commands == Range(m.commands) IN
  {f \in {"duplicate signal", "unknown signal", "rate", "duplicate command",
          "empty envelope", "envelope outside range"} :
     \/ f = "duplicate signal" /\ ~IsInjective(Each(m.columns, "signal_id"))
     \/ f = "unknown signal" /\ \E p \in Range(m.pairing) : ~(References(p) \subseteq SignalsOfMapping(m))
     \/ f = "rate" /\ m.rate <= 0
     \/ f = "duplicate command" /\ ~IsInjective(Each(m.commands, "name"))
     \/ f = "empty envelope" /\ \E c \in commands : c.safeMin > c.safeMax
     \/ f = "envelope outside range" /\ \E c \in commands : c.safeMin < c.min \/ c.safeMax > c.max}

(* load_mapping: what the file leaves out is empty; faults stop the program. *)
LoadedMapping(given) ==
  Over([dataset |-> "unknown", rate |-> 1000, columns |-> << >>, pairing |-> << >>,
        assets |-> << >>, commands |-> << >>, labels |-> {}], given)
LoadsMapping(m) == MappingFaults(m) = {}
-----------------------------------------------------------------------------
(* The dataclasses' defaults, of the knobs that decide anything.           *)
DefaultKnobs ==
  [runbook   |-> [jaccard_threshold |-> 600, min_tokens_match |-> 2],
   diagnosis |-> [causal_lags |-> {1, 2, 3}, correlation_min |-> 600, granger_enabled |-> TRUE,
                  max_hypotheses |-> 3],
   llm       |-> [budget_per_call_path |-> 3, max_wall_seconds |-> 8000],
   decide    |-> [alpha |-> 500, beta |-> 150, gamma |-> 200, delta |-> 150, candidate_count |-> 2],
   verify    |-> [window_samples |-> 20, improved_threshold |-> 300, worsened_threshold |-> 100],
   incident  |-> [retry_max |-> 3, ttl_seconds_event |-> 3600000],
   variant   |-> [detector |-> "adwin", diagnosis_mode |-> "full", decide_mode |-> "whatif",
                  red_team |-> FALSE, llm_offline |-> FALSE],
   trackc    |-> [stale_seconds |-> 30000, critical_seconds |-> 120000,
                  approve_ttl_seconds |-> 300000, clarify_ttl_seconds |-> 600000,
                  mode |-> "live"]]

(* HarnessConfig.load: section by section.  No knob is checked, and what   *)
(* is not known is dropped without a word.                                 *)
LoadedKnobs(given) ==
  [k \in DOMAIN DefaultKnobs |->
     IF k \in DOMAIN given THEN Over(DefaultKnobs[k], given[k]) ELSE DefaultKnobs[k]]

RuleOnly(variant) == variant.llm_offline \/ variant.diagnosis_mode = "rule_only"
DecideStatic(variant) == variant.decide_mode = "static_priors"
-----------------------------------------------------------------------------
(* mapping.yaml *)
Hai ==
  LET Col(id, src, kind) == Column([signal_id |-> id, source |-> src, kind |-> kind, area |-> "P1"])
      Pair(a, b, c) == [signal |-> a, setpoint |-> b, feedback |-> c] IN
  LoadedMapping([
    dataset |-> "HAI_21_03",
    columns |-> << Col("P1_FC_01", "P1_FT01", "flow"), Col("P1_FC_01_D", "P1_FCV01D", "setpoint"),
                   Col("P1_FC_01_Z", "P1_FCV01Z", "feedback"), Col("P1_P_01", "P1_PIT01", "pressure"),
                   Col("P1_P_01_D", "P1_PCV01D", "setpoint"), Col("P1_P_01_Z", "P1_PCV01Z", "feedback") >>,
    pairing |-> << Pair("P1_FC_01", "P1_FC_01_D", "P1_FC_01_Z"), Pair("P1_P_01", "P1_P_01_D", "P1_P_01_Z") >>,
    commands |->
      << Command([name |-> "fc_controller", target |-> "P1_FC_01_Z", min |-> 0, max |-> 500,
                  safeMin |-> 10, safeMax |-> 400, default |-> 100]),
         Command([name |-> "pressure_controller", target |-> "P1_P_01_Z", min |-> 0, max |-> 2000,
                  safeMin |-> 100, safeMax |-> 1800, default |-> 1000, energyCost |-> 300,
                  riskBaseline |-> 150, effectGain |-> 800]) >>,
    assets |-> << [name |-> "P1_FLOW_AREA", signals |-> {"P1_FC_01", "P1_FC_01_D", "P1_FC_01_Z"}],
                  [name |-> "P1_PRESSURE_AREA", signals |-> {"P1_P_01", "P1_P_01_D", "P1_P_01_Z"}] >>,
    labels |-> {"attack", "attack_P1", "attack_P2", "attack_P3"}])
=============================================================================
