------------------------------ MODULE Registry ------------------------------
(***************************************************************************)
(* The closed device registry of mapping.yaml's trackc section: who a      *)
(* signal belongs to, who is adjacent to whom, and what is refused when    *)
(* the file is loaded.  A registry is the sequence of its entries, in the  *)
(* file's order, ids distinct as keys of one mapping are.  An id is the    *)
(* sequence of its words, since a signal's id is built from two others.    *)
(***************************************************************************)
EXTENDS Naturals, FiniteSets, SequencesExt

Ids(r) == {r[i].id : i \in DOMAIN r}

(* signal_ids: <device_id>_<metric> *)
SignalId(dev, sig) == dev.id \o sig.metric
SignalIds(dev) == [i \in DOMAIN dev.signals |-> SignalId(dev, dev.signals[i])]

IsAggregate(dev) == dev.members # {} /\ dev.signals = << >>

NoDevice == [id |-> << >>, signals |-> << >>, members |-> {}, relates |-> {}]

(* The first entry a condition holds of, or none.                          *)
FirstDevice(r, Holds(_)) ==
  LET i == SelectInSeq(r, Holds) IN IF i = 0 THEN NoDevice ELSE r[i]

Device(r, id) == FirstDevice(r, LAMBDA dev : dev.id = id)
DeviceForSignal(r, s) == FirstDevice(r, LAMBDA dev : s \in Range(SignalIds(dev)))

(* related: adjacency in either direction.                                 *)
Related(r, id) ==
  Device(r, id).relates \cup {dev.id : dev \in {x \in Range(r) : id \in x.relates}}

AllSignalIds(r) == FlattenSeq([i \in DOMAIN r |-> SignalIds(r[i])])

SignalUnit(r, s) ==
  LET dev == DeviceForSignal(r, s)
      i == SelectInSeq(SignalIds(dev), LAMBDA x : x = s) IN
  IF i = 0 THEN "" ELSE dev.signals[i].unit

(* validate: what is wrong with an entry; an id's shape is left to the     *)
(* words it is made of.                                                    *)
EntryFaults(r, dev) ==
  {f \in {"duplicate metric", "unknown device", "empty"} :
     \/ f = "duplicate metric" /\ ~IsInjective([i \in DOMAIN dev.signals |-> dev.signals[i].metric])
     \/ f = "unknown device" /\ ~(dev.relates \cup dev.members \subseteq Ids(r))
     \/ f = "empty" /\ dev.members = {} /\ dev.signals = << >>}

RegistryFaults(r) == UNION {EntryFaults(r, dev) : dev \in Range(r)}

(* from_config: what a file's entry leaves out is empty.                   *)
Entry(id, given) ==
  LET Field(k, default) == IF k \in DOMAIN given THEN given[k] ELSE default IN
  [id |-> id, signals |-> Field("signals", << >>),
   members |-> Field("members", {}), relates |-> Field("relates", {})]

(* _load_trackc: a registry with faults stops the program.                 *)
LoadsRegistry(r) == RegistryFaults(r) = {}
=============================================================================
