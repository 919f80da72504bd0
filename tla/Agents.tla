------------------------------- MODULE Agents -------------------------------
(***************************************************************************)
(* What the stage agents make of telemetry: the observer's verdict on each *)
(* signal, and what the finding, the plan, the safety verdict and the work *)
(* order carry of it.  Agents are functions of their context: they keep no *)
(* state and write nothing.                                                *)
(***************************************************************************)
EXTENDS Registry

CONSTANTS
  Trackc,      \* the device registry
  Stale,       \* stale_seconds
  Critical     \* critical_seconds

Devices == Ids(Trackc)
SignalsOf == [d \in Devices |-> Range(SignalIds(Device(Trackc, d)))]
Neighbours == [d \in Devices |-> Related(Trackc, d)]
Signals == UNION {SignalsOf[d] : d \in Devices}
DeviceOf == [s \in Signals |-> DeviceForSignal(Trackc, s).id]

(* What an accepted registry may still break: no two devices share a       *)
(* signal's id.                                                            *)
ASSUME RegistryAssumption == LoadsRegistry(Trackc) /\ IsInjective(AllSignalIds(Trackc))
ASSUME MappingAssumption ==      \* the entries of one mapping of a file
  /\ Trackc \in Seq(Range(Trackc)) /\ IsFiniteSet(Signals)
  /\ IsInjective([i \in DOMAIN Trackc |-> Trackc[i].id])
ASSUME ThresholdsAssumption ==
  Stale \in Nat /\ Critical \in Nat /\ 0 < Stale /\ Stale < Critical

(* The devices an observe stage looks at: those the playbook declares, or  *)
(* all of them, and one round of their neighbours where the stage asks.    *)
Observed(declared, related) ==
  LET base == IF declared = {} THEN Devices ELSE declared IN
  IF related THEN base \cup UNION {Neighbours[d] : d \in base} ELSE base

(* Slip: the milder threshold is tried first.                              *)
StalenessMildFirst(age) ==
  IF age >= Stale THEN "stale" ELSE IF age >= Critical THEN "critical_stale" ELSE "fresh"

(* _staleness *)
Staleness(age) ==
  IF age >= Critical THEN "critical_stale" ELSE IF age >= Stale THEN "stale" ELSE "fresh"

(* _STALE_ORDER, for the verdicts that are compared.                       *)
StaleOrder(v) == CASE v = "fresh" -> 0 [] v = "stale" -> 1 [] v = "critical_stale" -> 2
                   [] OTHER -> 3

(* _worst *)
Worst(a, b) == IF StaleOrder(a) >= StaleOrder(b) THEN a ELSE b

(* The newest event time among the rows of some signals.                   *)
NewestTime(newest, S) ==
  LET times == {newest[s].ts : s \in S \cap DOMAIN newest} IN
  IF times = {} THEN 0 ELSE CHOOSE m \in times : \A x \in times : x <= m

(* Slip: event time alone decides.                                         *)
VerdictByEventTime(s, ref, newest, heard) ==
  IF s \notin DOMAIN newest THEN "offline"
  ELSE LET row == newest[s] IN
       IF row.ts = 0 THEN "missing_ts"
       ELSE IF row.quality \in {"offline", "error"} THEN row.quality
       ELSE Staleness(ref - row.ts)

(* _observe_signal: newest is the newest row of each signal that has one,  *)
(* heard how long ago each signal heard of since the start last arrived.   *)
Verdict(s, ref, newest, heard) ==
  IF s \notin DOMAIN newest THEN "offline"
  ELSE LET row == newest[s]
           byTime == Staleness(ref - row.ts) IN
       IF row.ts = 0 THEN "missing_ts"
       ELSE IF row.quality \in {"offline", "error"} THEN row.quality
       ELSE IF s \in DOMAIN heard THEN Worst(byTime, Staleness(heard[s]))
       ELSE byTime

(* ObserverAgent.deterministic: a verdict per signal, ages counted from    *)
(* the newest sample among the observed devices.                           *)
Observe(D, newest, heard) ==
  LET S == UNION {SignalsOf[d] : d \in D} IN
  [s \in S |-> Verdict(s, NewestTime(newest, S), newest, heard)]

(* _finding: the signals it names as degraded.                             *)
Degraded(obs) ==
  {s \in DOMAIN obs : obs[s] \in {"stale", "critical_stale", "offline", "error", "missing_ts"}}

(* _template_plan: the signals the plan lists as assumptions.              *)
Assumed(obs) == {s \in DOMAIN obs : obs[s] # "fresh"}

(* SafetyAgent: caution is for the evidence it takes for stale.            *)
SafetyVerdict(obs) ==
  IF \E s \in DOMAIN obs : obs[s] \in {"stale", "critical_stale", "offline"}
  THEN "proceed-with-caution" ELSE "proceed"

(* ActionAgent: the work order is preventive when its evidence, the first  *)
(* observation, is fresh.                                                  *)
WorkKind(obs, first) == IF obs[first] = "fresh" THEN "Preventive" ELSE "Corrective"
=============================================================================
