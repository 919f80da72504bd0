------------------------------ MODULE Evidence ------------------------------
(***************************************************************************)
(* From samples to a diagnosis: when a detector raises an episode, how far *)
(* a setpoint and its feedback diverge, which symptoms an episode has,     *)
(* which signals the causal graph connects, and how the hypotheses are     *)
(* ranked.  A series is a sequence of whole numbers, oldest first; squares *)
(* are compared where the code takes a root.                               *)
(***************************************************************************)
EXTENDS Mapping

Sum(s) == FoldLeft(+, 0, s)
SumOf(n, Term(_)) == Sum([i \in 1..n |-> Term(i)])
Positive(x) == IF x > 0 THEN x ELSE 1
Absolute(x) == IF x < 0 THEN -x ELSE x
Smaller(a, b) == IF a < b THEN a ELSE b

(* episode_key: a signal's group is its id without the last word.          *)
Bucket == 60000
EpisodeKey(id, ts) == <<IF Len(id) > 1 THEN Front(id) ELSE id, (ts \div Bucket) * Bucket>>

(* _Welford, on sums: n samples, their sum, the sum of their squares.      *)
Unseen == [n |-> 0, sum |-> 0, squares |-> 0, ema |-> 0]
Spread(w) == w.n * w.squares - w.sum * w.sum      \* n (n - 1) times the variance

(* update: the innovation is what the moving average (alpha 2/21) leaves   *)
(* of a sample; ADWIN's verdict on it is drift.                            *)
Observed(w, value) ==
  LET prev == IF w.n = 0 THEN value ELSE w.ema
      ema == prev + (2 * (value - prev)) \div 21
      innovation == Absolute(value - ema) IN
  [n |-> w.n + 1, sum |-> w.sum + innovation, squares |-> w.squares + innovation * innovation,
   ema |-> ema, innovation |-> innovation]

(* An innovation of at least four standard deviations, not of the distance *)
(* from their mean.  min_seed is nowhere asked for.                        *)
Raises(w, drift) ==
  w.n >= 2 /\ Spread(w) > 0
    /\ (drift \/ w.innovation * w.innovation * w.n * (w.n - 1) >= 16 * Spread(w))
-----------------------------------------------------------------------------
(* compute_divergence: setpoint and feedback are paired by position, up to *)
(* the shorter of them; norm is their mean gap over the setpoint's mean,   *)
(* in thousandths.                                                         *)
Norm(sp, fb) ==
  LET n == Smaller(Len(sp), Len(fb)) IN
  (1000 * SumOf(n, LAMBDA i : Absolute(sp[i] - fb[i])) * Len(sp)) \div (n * Positive(Absolute(Sum(sp))))

(* A setpoint whose deviation exceeds a fiftieth of its mean is moving.    *)
Moving(sp) == LET squares == SumOf(Len(sp), LAMBDA i : sp[i] * sp[i]) IN
              2500 * (Len(sp) * squares - Sum(sp) * Sum(sp)) > Sum(sp) * Sum(sp)

Divergence(m, series, s) ==
  LET pair == PairFor(m, s)
      sp == series[pair.setpoint]
      fb == series[pair.feedback] IN
  IF pair = NoPair \/ sp = << >> \/ fb = << >> THEN [norm |-> 0, type |-> "unknown"]
  ELSE [norm |-> Norm(sp, fb),
        type |-> IF Norm(sp, fb) <= 200 THEN "unknown"
                 ELSE IF Moving(sp) THEN "actuator_manipulation" ELSE "sensor_fault"]

(* extract_symptoms, within the taxonomy.                                  *)
Symptoms(kind, score, norm, taxonomy) ==
  taxonomy \cap
  (  (IF norm > 200 THEN {"setpoint_divergence", "feedback_offset"} ELSE {})
   \cup (CASE kind = "flow" -> {"flow_dip"} [] kind = "pressure" -> {"pressure_drop"}
           [] kind = "temperature" -> {"temp_spike"} [] OTHER -> {})
   \cup (IF score >= 6000 THEN {"noise_burst"} ELSE {}))
-----------------------------------------------------------------------------
(* Pearson, squared, in thousandths; none of a constant.                   *)
Moment(u, v) == Len(u) * SumOf(Len(u), LAMBDA i : u[i] * v[i]) - Sum(u) * Sum(v)
Constant(u) == Moment(u, u) = 0
Squared(x, y) ==
  IF Constant(x) \/ Constant(y) THEN 0
  ELSE (((1000 * Moment(x, y)) \div Moment(x, x)) * Moment(x, y)) \div Moment(y, y)

(* _lag_correlation as build calls it: a late against b early, which has   *)
(* no value, and raises, where two that vary differ in length.             *)
Late(a, lag) == SubSeq(a, lag + 1, Len(a))
Early(a, b, lag) == SubSeq(b, 1, Smaller(Len(b), Len(a) - lag))
Correlates(a, lag) == Len(a) >= 2 * lag + 4

LagCorrelation(a, b, lag) ==
  IF Correlates(a, lag) THEN Squared(Late(a, lag), Early(a, b, lag)) ELSE 0

RaisesOn(knobs, a, b) ==
  \E lag \in knobs.causal_lags :
    LET x == Late(a, lag)
        y == Early(a, b, lag) IN
    Correlates(a, lag) /\ Len(x) # Len(y) /\ ~Constant(x) /\ ~Constant(y)

Weight(knobs, a, b) ==
  LET all == {LagCorrelation(a, b, lag) : lag \in knobs.causal_lags} IN
  CHOOSE w \in all : \A x \in all : x <= w

(* build, for one pair: an association that is strong enough either way,   *)
(* directed by Granger's test where that sees a direction; causal are the  *)
(* pairs in which it finds the first to drive the second.                  *)
PairEdges(knobs, series, a, b, causal) ==
  LET w(x, y) == Weight(knobs, series[x], series[y])
      enough == (knobs.correlation_min * knobs.correlation_min) \div 1000
      tested == knobs.granger_enabled /\ Len(series[a]) >= 20 /\ Len(series[b]) >= 20
      fwd == tested /\ <<a, b>> \in causal
      rev == tested /\ <<b, a>> \in causal IN
  {e \in {[from |-> a, to |-> b, weight |-> IF rev /\ ~fwd THEN 0 ELSE w(a, b)],
          [from |-> b, to |-> a, weight |-> IF fwd THEN 0 ELSE w(b, a)]} : e.weight >= enough}

Graph(knobs, ids, series, causal) ==
  LET long == SelectSeq(ids, LAMBDA s : Len(series[s]) >= 4) IN
  UNION {PairEdges(knobs, series, long[i], long[j], causal) :
           <<i, j>> \in {p \in (DOMAIN long) \X (DOMAIN long) : p[1] < p[2]}}
-----------------------------------------------------------------------------
(* rank: divergence first, then the strongest edges into the signal; where *)
(* there is neither, the deviation is unexplained.                         *)
Drivers(graph, s) ==
  LET into == SetToSortSeq({e \in graph : e.to = s}, LAMBDA x, y : x.weight > y.weight) IN
  [i \in DOMAIN into |-> <<"driver", into[i].from, s>>]

Hypotheses(knobs, div, graph, s) ==
  LET top(q) == SubSeq(q, 1, Smaller(Len(q), knobs.max_hypotheses))
      found == (IF div.type = "unknown" THEN << >> ELSE <<<<div.type>>>>) \o top(Drivers(graph, s)) IN
  IF found = << >> THEN <<<<"unexplained", s>>>> ELSE top(found)

(* diagnose, without the wiki: the signal and its pair are reasoned over.  *)
Involved(m, s) ==
  LET pair == PairFor(m, s) IN <<s>> \o (IF pair = NoPair THEN << >> ELSE <<pair.setpoint, pair.feedback>>)

Ranked(m, knobs, series, s, causal) ==
  Hypotheses(knobs, Divergence(m, series, s), Graph(knobs, Involved(m, s), series, causal), s)
-----------------------------------------------------------------------------
(* What the demo has written of a signal and its pair when it diagnoses:   *)
(* seed_history's thirty seconds, of which the signal is high in the last  *)
(* twelve, and five of the episode, without a setpoint.                    *)
Repeat(v, n) == [i \in 1..n |-> v]
DemoSignal == Repeat(10, 18) \o Repeat(18, 12 + 5)
DemoSetpoint == Repeat(12, 30)
DemoFeedback == Repeat(12, 30) \o Repeat(30, 5)

DemoSeries(m, s) ==
  LET pair == PairFor(m, s) IN
  [x \in SignalsOfMapping(m) |->
     CASE x = s -> DemoSignal [] x = pair.setpoint -> DemoSetpoint
       [] x = pair.feedback -> DemoFeedback [] OTHER -> << >>]
=============================================================================
