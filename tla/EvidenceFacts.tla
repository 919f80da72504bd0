--------------------------- MODULE EvidenceFacts ---------------------------
(***************************************************************************)
(* What detection, diagnosis, replay and scoring promise, and what they do *)
(* not, over small inputs.                                                 *)
(***************************************************************************)
EXTENDS Integers, FiniteSets, SequencesExt, TLC

E == INSTANCE HaiReplay
B == INSTANCE Scoreboard

Knobs == E!LoadedKnobs(<< >>)
NoTest == {}
-----------------------------------------------------------------------------
(* A setpoint that follows its feedback is no divergence; a feedback far   *)
(* from it is one, whose kind is told by the setpoint alone.               *)
Some == {10, 11, 16}
ASSUME DivergenceIsTyped ==
  \A sp, fb \in [1..3 -> Some] :
    LET series == [P1_FC_01_D |-> sp, P1_FC_01_Z |-> fb]
        div == E!Divergence(E!Hai, series, "P1_FC_01") IN
    /\ sp = fb => div.type = "unknown"
    /\ div.type = "sensor_fault" => sp \in {E!Repeat(v, 3) : v \in Some}
    /\ (sp = E!Repeat(10, 3) /\ fb = E!Repeat(16, 3)) => div.type = "sensor_fault"

(* Direction: b repeats a one sample later, and yet the edge runs from b   *)
(* to a, and b is named the leading driver of a.  _lag_correlation's       *)
(* comment says a[t] and b[t + lag]; the slices take a late, b early.      *)
Leader == <<0, 9, 2, 7, 1, 8, 8, 0, 3, 9>>
Follower == <<5, 0, 9, 2, 7, 1, 8, 8, 0, 3>>
Lagged == [a |-> Leader, b |-> Follower]
ASSUME FollowerIsBlamed ==
  LET knobs == [Knobs.diagnosis EXCEPT !.causal_lags = {1}, !.correlation_min = 900]
      graph == E!Graph(knobs, <<"a", "b">>, Lagged, NoTest) IN
  /\ {<<e.from, e.to>> : e \in graph} = {<<"b", "a">>}
  /\ E!Hypotheses(knobs, [norm |-> 0, type |-> "unknown"], graph, "a") = <<<<"driver", "b", "a">>>>

(* A signal sampled less often than its pair, by more than the least lag,  *)
(* makes the correlation raise, unless one of the two is constant.         *)
ASSUME UnevenSeriesRaise ==
  /\ E!RaisesOn(Knobs.diagnosis, Leader, Front(Front(Follower)))
  /\ ~E!RaisesOn(Knobs.diagnosis, Leader, Front(Follower))
  /\ ~E!RaisesOn(Knobs.diagnosis, E!DemoSignal, E!DemoSetpoint)

(* Divergence leads the ranking whatever the edges weigh, and there is     *)
(* always a hypothesis, but never more than the configured number.         *)
ASSUME RankingIsBounded ==
  \A n \in 1..3, t \in {"unknown", "sensor_fault"},
     w \in [{"b", "c", "d"} -> {400, 500}], drivers \in SUBSET {"b", "c", "d"} :
    LET graph == {[from |-> d, to |-> "a", weight |-> w[d]] : d \in drivers}
        h == E!Hypotheses([max_hypotheses |-> n], [norm |-> 0, type |-> t], graph, "a") IN
    Len(h) \in 1..n /\ (t # "unknown" => h[1] = <<t>>)
-----------------------------------------------------------------------------
(* The detector's state after a series of values.                          *)
Fed(values) == FoldLeft(E!Observed, E!Unseen @@ [innovation |-> 0], values)

(* A steady signal raises nothing.  Its first step raises an episode from  *)
(* the sixteenth sample on, as the newest of n innovations is the root of  *)
(* n deviations when the others are none.  A step that goes on as a ramp   *)
(* raises one with every sample from then on, as an innovation is compared *)
(* with no mean.                                                           *)
ASSUME DetectorSeesChange ==
  \A n \in 2..24 :
    /\ ~E!Raises(Fed(E!Repeat(210, n)), FALSE)
    /\ E!Raises(Fed(Append(E!Repeat(0, n), 210)), FALSE) <=> n + 1 >= 16
ASSUME RampNeverSettles ==
  \A n \in 16..24 : E!Raises(Fed([i \in 1..n |-> IF i = 1 THEN 0 ELSE 17 + 2 * i]), FALSE)
-----------------------------------------------------------------------------
(* Replay: three lines of a file, with one or the other time or neither.   *)
Row(ts, t, v) == [ts |-> ts, time |-> t, other |-> E!Absent,
                  values |-> [P1_FT01 |-> v, P1_PIT01 |-> v]]
Lines == {Row(ts, t, v) : ts \in {E!Absent, 1, 5}, t \in {E!Absent, E!Blank, E!Unparsed, 5},
                          v \in {10, 90}}
NoWords == [source \in {c.source : c \in Range(E!Hai.columns)} |-> {}]
Replayed(lines) == E!AllSamples(E!Hai, NoWords, E!InOrder(E!Slice(lines, 3)))

(* What is replayed is in the order of its times, except that lines        *)
(* without one, whose time is 0, are ordered by where they stood; and it   *)
(* is all of the file's, but for lines of the same time.                   *)
ASSUME ReplayIsOrdered ==
  \A lines \in [1..3 -> {r \in Lines : r.values["P1_FT01"] = 10}] :
    LET out == Replayed(lines)
        timed == {i \in 1..3 : \/ lines[i].ts # E!Absent
                              \/ lines[i].time \notin {E!Absent, E!Blank}}
        times == {E!EventTime(lines[i]) : i \in timed} IN
    timed = 1..3 => /\ \A i, j \in DOMAIN out : i < j => out[i].ts <= out[j].ts
                    /\ Len(out) = 2 * Cardinality(times)

(* A line without a time takes the place of one that has its number for a  *)
(* time: a sample is lost though no two lines agree in their time.         *)
ASSUME UntimedLineReplaces ==
  \E lines \in [1..2 -> {Row(1, E!Absent, 10), Row(E!Absent, E!Absent, 90)}] :
    lines[1].ts # lines[2].ts /\ Len(Replayed(lines)) = 2

(* A time found in another column is the sample's, but does not order it:  *)
(* such lines are replayed as they stand in the file, although the loader  *)
(* says it orders by event time (hai.py:156).                              *)
ASSUME OtherTimesDoNotOrder ==
  \A t, u \in {1, 5} :
    LET Line(x) == [Row(E!Absent, E!Absent, 10) EXCEPT !.other = x]
        out == Replayed(<<Line(t), Line(u)>>) IN
    [i \in DOMAIN out |-> out[i].ts] = <<t, t, u, u>>

(* Whenever the broker is down, every sample is in the history, and what   *)
(* is not on the bus is a counted failure; episodes do not depend on it.   *)
Sampled == [i \in 1..20 |-> [signal |-> "P1_FC_01", ts |-> i, value |-> IF i = 18 THEN 210 ELSE 0]]
ASSUME OutageLosesMessagesOnly ==
  \A from, to \in 16..20 :
    LET st == E!Streamed(E!Hai, Sampled, (1..20) \ (from..to))
        lost == Cardinality(from..to) IN
    /\ st.history = Sampled /\ st.published = 20
    /\ Len(st.onBus) = 20 - lost
    /\ st.failures = lost + Cardinality({e \in st.episodes : e[2] \in from..to})
    /\ st.episodes = {<<"P1_FC_01", i>> : i \in {18}}

(* A label's column is left out, mapped or not, if its name says attack;   *)
(* one called normal is not, as mapping.yaml's labels and the adapter's    *)
(* own quarantine (hai.py:24) are never asked.                             *)
ASSUME LabelsStayOut ==
  /\ E!Samples(E!Hai, [NoWords EXCEPT !.P1_FT01 = {"attack"}, !.P1_PIT01 = {"normal"}],
                Row(1, E!Absent, 10)) = <<[signal |-> "P1_P_01", ts |-> 1, value |-> 10]>>
  /\ \A i \in 0..299 :
       E!Synthetic(E!Hai, [c \in {x.source : x \in Range(E!Hai.columns)} |-> 100], i).values
         = [c \in {x.source : x \in Range(E!Hai.columns)} |->
              IF c = "P1_FT01" /\ 150 <= i /\ i < 210 THEN 160 ELSE 100]
-----------------------------------------------------------------------------
(* The scoreboard, over two metric rows and two labels.                    *)
Metric(k, o, u) == [episode |-> k, outcome |-> o, unsafe |-> u, arm |-> "x", signal |-> "s",
                    detected |-> 2, resolved |-> IF u = 1 THEN 30 ELSE 10, avoided |-> u = 0]
Metrics == UNION {[1..n -> {Metric(k, o, u) : k \in {"a", "b", "c"}, o \in {"improved", "worsened"},
                                              u \in {0, 1}}] : n \in 0..2}
Labels == {<<[episode |-> "a", anomaly |-> x, root |-> r], [episode |-> "b", anomaly |-> y, root |-> r]>> :
             x, y \in BOOLEAN, r \in {"", "s", "t"}}

(* Every label is accounted for once, and no rate exceeds one; an unsafe   *)
(* action is only counted if it improved matters, and an intervention on   *)
(* no anomaly never is (scoreboard.py:63).                                 *)
ASSUME ScoreboardAddsUp ==
  \A ms \in Metrics, ls \in Labels :
    LET b == B!Scoreboard(ms, ls)
        anomalies == {i \in 1..2 : ls[i].anomaly} IN
    /\ b.tp + b.fn = Cardinality(anomalies) /\ b.fp <= 2 - Cardinality(anomalies)
    /\ {b.precision, b.recall, b.top1, b.unsafe} \subseteq 0..1000
    /\ b.mttd = IF b.tp + b.fp = 0 THEN 0 ELSE 2
    /\ (\A i \in DOMAIN ms : ms[i].outcome = "worsened") => b.unsafe = 0 /\ b.mttr = 0

(* However rows and outcomes are written, an incident has one row and its  *)
(* own last words in it; two incidents of one episode count as one run,    *)
(* and the one written later decides.                                      *)
Written(i, o) == [incident |-> i] @@ Metric("a", o, 0)
Writes == {<<i, o>> : i \in {"i", "j"}, o \in {"improved", "worsened"}}
ASSUME IncidentsKeepOneRow ==
  \A recorded \in UNION {[1..n -> Writes] : n \in 0..3}, late \in Writes, time \in {B!NoTime, 50} :
    LET log == FoldLeft(LAMBDA kept, w : B!Record(kept, Written(w[1], w[2])), << >>, recorded)
        rows == B!UpdateOutcome(log, late[1], late[2], time)
        known == {w[1] : w \in Range(recorded)}
        RowOf(i) == CHOOSE r \in Range(rows) : r.incident = i
        LastOf(i) == recorded[CHOOSE n \in DOMAIN recorded : recorded[n][1] = i
                                /\ \A m \in DOMAIN recorded : recorded[m][1] = i => m <= n][2]
        board == B!Scoreboard(rows, <<[episode |-> "a", anomaly |-> TRUE, root |-> "x"]>>) IN
    /\ {r.incident : r \in Range(rows)} = known /\ Len(rows) = Cardinality(known)
    /\ \A i \in known : /\ RowOf(i).outcome = (IF i = late[1] THEN late[2] ELSE LastOf(i))
                        /\ RowOf(i).resolved = (IF i = late[1] /\ time # B!NoTime THEN time ELSE 10)
    /\ board.tp = (IF rows = << >> THEN 0 ELSE 1)
    /\ board.mttr > 0 <=> rows # << >> /\ Last(rows).outcome = "improved"

(* Episodes of one group in one minute of event time share their key.      *)
ASSUME KeysAreShared ==
  \A t, u \in {0, 59999, 60000, 120001} :
    E!EpisodeKey(<<"P1", "FC", "01">>, t) = E!EpisodeKey(<<"P1", "FC", "02">>, u)
      <=> t \div 60000 = u \div 60000
=============================================================================
