------------------------------ MODULE MCIngress ------------------------------
(***************************************************************************)
(* Two devices of one signal each, adjacent by one entry of the registry,  *)
(* one with a metric of two words; and what the registry's look-ups        *)
(* promise, over every registry of two entries with ids of one or two.     *)
(***************************************************************************)
EXTENDS Ingress, TLC

Signal(m, u) == [metric |-> m, unit |-> u]

MCRegistry ==
  << Entry(<<"motor">>, [signals |-> <<Signal(<<"shaft", "speed">>, "rpm")>>, relates |-> {<<"gas">>}]),
     Entry(<<"gas">>, [signals |-> <<Signal(<<"ppm">>, "ppm")>>]) >>
-----------------------------------------------------------------------------
Words == {<<"a">>, <<"a", "b">>}
Metrics == {<<"b">>, <<"b", "b">>}
SomeSignals == {<< >>} \cup {<<Signal(m, "A")>> : m \in Metrics}
                 \cup {<<Signal(m, "A"), Signal(n, "V")>> : m, n \in Metrics}
Unknown == <<"c">>

SomeEntries(id) ==
  {Entry(id, [signals |-> s, relates |-> x, members |-> m]) :
     s \in SomeSignals, x \in SUBSET (Words \cup {Unknown}), m \in {{}, {<<"a">>}, {Unknown}}}

SomeRegistries ==
  {<<x, y>> : x \in SomeEntries(<<"a">>), y \in SomeEntries(<<"a", "b">>)}

Accepted == {r \in SomeRegistries : LoadsRegistry(r)}

(* Adjacency has no direction, and stays inside an accepted registry.      *)
ASSUME RelatedIsSymmetric ==
  /\ \A r \in SomeRegistries : \A d, e \in Words :
       d \in Related(r, e) <=> e \in Related(r, d)
  /\ \A r \in Accepted : \A d \in Words : Related(r, d) \subseteq Ids(r)

(* In an accepted registry every signal has an owner and that owner's      *)
(* unit, and every plain device can be observed ...                        *)
ASSUME SignalsAreOwned ==
  /\ Signals = Range(AllSignalIds(Trackc))
  /\ \A r \in Accepted :
       /\ \A s \in Range(AllSignalIds(r)) :
            /\ s \in Range(SignalIds(DeviceForSignal(r, s)))
            /\ SignalUnit(r, s) \in {"A", "V"}
       /\ \A dev \in Range(r) : ~IsAggregate(dev) => SignalIds(dev) # << >>

(* ... but two devices may own the same id, and then the first of them     *)
(* answers for both: validate compares metrics within one device only.     *)
ASSUME CollisionsAreAccepted ==
  \E r \in Accepted : \E s \in Range(SignalIds(r[2])) : DeviceForSignal(r, s) = r[1]
-----------------------------------------------------------------------------
Capitals == [a |-> "A", b |-> "B", c |-> "C", telemetry |-> "Telemetry"]
InCapitals(w) == IF w \in DOMAIN Capitals THEN Capitals[w] ELSE w
InSmall(w) == IF w \in Range(Capitals) THEN CHOOSE x \in DOMAIN Capitals : Capitals[x] = w ELSE w

F == INSTANCE Frames WITH Upper <- InCapitals, Lower <- InSmall

(* A tick of the simulator comes back as one reading of every signal of    *)
(* the registry, of its owner's unit and its device's status; that is,     *)
(* what Reading says of it.                                                *)
Unforced == [id \in {} |-> "ok"]
Forced(dev) == [id \in {<<"a">>} |-> dev]
ASSUME TicksComeBack ==
  \A r \in Accepted, status \in {Unforced, Forced("offline")} :
    LET out == F!Parse(r, F!Tick(r, status,
                              [s \in Range(AllSignalIds(r)) |-> Len(s)], 7)) IN
    /\ [i \in DOMAIN out |-> out[i].signal] = AllSignalIds(r)
    /\ \A i \in DOMAIN out :
         /\ out[i].value = Len(out[i].signal) /\ out[i].unit = SignalUnit(r, out[i].signal)
         /\ out[i].ts = 7 /\ out[i].quality \in {"ok", "offline"}
    /\ \A i \in DOMAIN SignalIds(r[1]) :
         out[i].quality = Reading(7, IF status = Unforced THEN "ok" ELSE "offline").quality

(* A metric the registry writes with a capital is validated, sent, and     *)
(* never heard: keys of a frame are taken in small letters.                *)
ASSUME CapitalMetricsAreDeaf ==
  LET r == <<Entry(<<"a">>, [signals |-> <<Signal(<<"B">>, "A"), Signal(<<"b", "b">>, "V")>>])>>
      out == F!Parse(r, F!Tick(r, Unforced, [s \in Range(AllSignalIds(r)) |-> 1], 7)) IN
  /\ LoadsRegistry(r)
  /\ [i \in DOMAIN out |-> out[i].signal] = <<<<"a", "b", "b">>>>

(* Nothing in a frame makes more readings than there are metrics, or one   *)
(* without a known signal; a clock that does not parse takes them all, one *)
(* that is not there none.                                                 *)
ASSUME BadPartsAreSkipped ==
  \A epoch \in {7, F!Missing}, stamp \in {7, F!Missing, F!Bad}, v \in {1, F!Bad},
     code \in {<<"A">>, <<"C">>}, m \in {<<"b">>, <<"B">>, <<"c">>} :
    LET r == <<Entry(<<"a">>, [signals |-> <<Signal(<<"b">>, "A")>>])>>
        out == F!Parse(r, [epoch |-> epoch, stamp |-> stamp,
                           devices |-> <<[code |-> code, status |-> "ok", metrics |-> <<<<m, v>>>>]>>]) IN
    /\ (out # << >>) <=> (epoch # F!Missing \/ stamp # F!Bad) /\ v # F!Bad /\ code = <<"A">> /\ m # <<"c">>
    /\ out # << >> => /\ out[1].quality = "missing_ts" <=> epoch = F!Missing /\ stamp = F!Missing
                      /\ out[1].signal = <<"a", "b">>

(* TLS is never lost on the way from mqtt.env to the session, but it       *)
(* cannot be turned off for websockets, on any port.                       *)
Sources == {<< >>} \cup {<<<<"MQTT_PORT", n>>>> : n \in {443, 1883, 8883}}
Asked == [tls : {"", "0", "1"}, transport : {"", "tcp", "websockets"}]
ASSUME SessionsAreSafe ==
  \A lines \in Sources, ask \in Asked :
    LET env == [MQTT_TLS |-> ask.tls, MQTT_TRANSPORT |-> ask.transport]
        settings == F!Settings(env, lines)
        session == F!Session(settings) IN
    /\ ask.tls = "1" \/ settings.port \in {443, 8883} => session.tls
    /\ settings.port = 443 => session = [transport |-> "websockets", tls |-> TRUE]
    /\ session.transport = "websockets" => session.tls
    /\ settings.port = 1883 /\ ask.tls # "1" => (session.tls <=> ask.transport = "websockets")

(* The topic of an invitation, pasted whole, is the prefix it was made of, *)
(* and what is published there is heard; a topic of another environment is *)
(* kept with it, and the bridge hears nothing of what it publishes.        *)
Levels == {"hackathon", "team", "Telemetry"}
ASSUME PastedTopicsAreHeard ==
  \A prefix \in {<<x>> : x \in Levels} \cup {<<x, y>> : x, y \in Levels}, env \in {"test", "judge", "live"} :
    LET topic == F!Target(prefix, env) IN
    /\ F!Hears(prefix, topic)
    /\ F!TeamPrefix(topic) = prefix <=> env # "live"
    /\ F!Hears(F!TeamPrefix(topic), topic) <=> env # "live"
=============================================================================
