------------------------------- MODULE Frames -------------------------------
(***************************************************************************)
(* The contract's frames: how one is built and published, how it is taken  *)
(* apart again, and what mqtt.env makes of host, port and topic.  Ids and  *)
(* metrics are sequences of words as in Registry, topics of levels.        *)
(***************************************************************************)
EXTENDS Registry, Integers

CONSTANTS Upper(_), Lower(_)   \* a word in capitals, and in small letters

Folded(words) == [i \in DOMAIN words |-> Lower(words[i])]
Capital(words) == [i \in DOMAIN words |-> Upper(words[i])]

(* build_payload: a device left out of status is "ok"; a frame's metrics   *)
(* are the pairs <<metric, value>> in the order they were given.           *)
Build(values, status, epoch) ==
  [epoch |-> epoch, stamp |-> epoch,
   devices |-> [i \in DOMAIN values |->
     [code |-> Capital(values[i].id), metrics |-> values[i].metrics,
      status |-> IF values[i].id \in DOMAIN status THEN status[values[i].id] ELSE "ok"]]]

(* The simulator's tick: every metric of every device, aggregates without. *)
Tick(r, status, value, epoch) ==
  Build([i \in DOMAIN r |->
           [id |-> r[i].id,
            metrics |-> [j \in DOMAIN r[i].signals |->
              <<r[i].signals[j].metric, value[SignalId(r[i], r[i].signals[j])]>>]]],
        status, epoch)

(* parse_payload's clock: a number in epoch, else the timestamp read as    *)
(* UTC, which must parse if it is there.  No time and no value is negative *)
(* here.                                                                   *)
Missing == -1
Bad == -2
Clock(frame) == IF frame.epoch # Missing THEN frame.epoch ELSE frame.stamp

(* Devices and signals are looked up in small letters; what is unknown, or *)
(* no number, is skipped.                                                  *)
Taken(dev, entry) ==
  SelectSeq(entry.metrics, LAMBDA m :
    dev.id \o Folded(m[1]) \in Range(SignalIds(dev)) /\ m[2] # Bad)

Parse(r, frame) ==
  LET clock == Clock(frame)
      Envelopes(entry) ==
        LET dev == Device(r, Folded(entry.code))
            taken == Taken(dev, entry) IN
        [i \in DOMAIN taken |->
          LET s == dev.id \o Folded(taken[i][1]) IN
          [signal |-> s, ts |-> clock, value |-> taken[i][2], unit |-> SignalUnit(r, s),
           quality |-> IF clock = Missing THEN "missing_ts" ELSE entry.status]] IN
  IF clock = Bad THEN << >>
  ELSE FlattenSeq([i \in DOMAIN frame.devices |-> Envelopes(frame.devices[i])])
-----------------------------------------------------------------------------
(* settings_from_env: the environment, unless unset or empty, before the   *)
(* first line of the file that names the key, before the default.          *)
Unset == ""
FromFile(lines, key, default) ==
  LET i == SelectInSeq(lines, LAMBDA l : l[1] = key) IN IF i = 0 THEN default ELSE lines[i][2]
Setting(env, lines, key, default) ==
  IF key \in DOMAIN env /\ env[key] # Unset THEN env[key] ELSE FromFile(lines, key, default)

(* A port is a number (else int raises); TLS cannot be refused on the      *)
(* ports that have it, an empty transport is the port's own.               *)
Settings(env, lines) ==
  LET port == Setting(env, lines, "MQTT_PORT", 1883)
      transport == Setting(env, lines, "MQTT_TRANSPORT", Unset) IN
  [host |-> Setting(env, lines, "MQTT_HOST", Unset), port |-> port,
   tls |-> Setting(env, lines, "MQTT_TLS", Unset) \in {"1", "true"} \/ port \in {8883, 443},
   transport |-> IF transport # Unset THEN transport ELSE IF port = 443 THEN "websockets" ELSE "tcp"]

(* What connect makes of them: 443 is websockets whatever was asked for,   *)
(* and websockets are always over TLS.                                     *)
Session(settings) ==
  LET transport == IF settings.port = 443 THEN "websockets" ELSE settings.transport IN
  [transport |-> transport, tls |-> transport = "websockets" \/ settings.tls]

(* _team_prefix: the topic without the telemetry level, and without test   *)
(* or judge before it, if a level is left.                                 *)
TeamPrefix(topic) ==
  LET Ends(suffix) == Len(topic) > Len(suffix) /\ IsSuffix(suffix, Folded(topic))
      Cut(n) == SubSeq(topic, 1, Len(topic) - n) IN
  IF Ends(<<"test", "telemetry">>) \/ Ends(<<"judge", "telemetry">>) THEN Cut(2)
  ELSE IF Ends(<<"telemetry">>) THEN Cut(1) ELSE topic

(* Where publish_payload sends, and whether the bridge has subscribed to   *)
(* it.                                                                     *)
Target(prefix, env) == prefix \o <<env, "telemetry">>
Hears(prefix, topic) == \E level \in {topic[i] : i \in DOMAIN topic} : topic = prefix \o <<level, "telemetry">>
=============================================================================
