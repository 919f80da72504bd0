------------------------------- MODULE Scoring -------------------------------
(***************************************************************************)
(* How DECIDE picks the action that GuardedAction then shields: candidates *)
(* scored by the objective, predicted by the plant model, which is         *)
(* calibrated from what was observed; and how VERIFY classifies the        *)
(* effect.  Terms are in 1/One, which stands for the code's floats.        *)
(***************************************************************************)
EXTENDS Mapping

One == 10000
Ratio(a, b) == (a * One) \div b
Unit(x) == IF x < 0 THEN 0 ELSE IF x > One THEN One ELSE x
Within(lo, hi, x) == IF x < lo THEN lo ELSE IF x > hi THEN hi ELSE x
Gap(a, b) == IF a < b THEN b - a ELSE a - b
Least(a, b) == IF a < b THEN a ELSE b
SafeSpan(c) == c.safeMax - c.safeMin
Mid(c) == (c.safeMin + c.safeMax) \div 2

(* PlantModel.predict: part of the way to the target, within the range.    *)
Predicted(c, gain, target, base) ==
  Within(c.min, c.max, base + (gain * (target - base)) \div 1000)

(* calibrate: the gain follows what was observed, no further than 1.5.     *)
Calibrated(c, gain, target, observed) ==
  IF target = c.default THEN gain
  ELSE LET seen == ((observed - c.default) * 1000) \div (target - c.default) IN
       (7 * gain + 3 * Within(0, 1500, seen)) \div 10

(* _risk, _safety_term, _energy_term.                                      *)
Risk(c, target) ==
  LET margin == Least(target - c.safeMin, c.safeMax - target) IN
  Unit((c.riskBaseline * (One \div 1000)) \div 2 + Unit(One - Ratio(margin, SafeSpan(c))) \div 2)

SafetyTerm(c, target, predicted) ==
  One - (6 * Ratio(Gap(target, Mid(c)), SafeSpan(c)) + 4 * Ratio(Gap(predicted, Mid(c)), SafeSpan(c))) \div 10

EnergyTerm(c, target, predicted) == Ratio(2 * c.max - target - predicted, c.max - c.safeMin) \div 2

(* score: what each way of scoring says of the four terms.  To do nothing  *)
(* leaves the breach in place.                                             *)
NoopTerms == [safety |-> Unit(One - (8 * One) \div 10), energy |-> 0, downtime |-> One, risk |-> (8 * One) \div 10]

SimulatedTerms(c, gain, target, base) ==
  LET predicted == Predicted(c, gain, target, base) IN
  [safety   |-> Unit(SafetyTerm(c, target, predicted)),
   energy   |-> Unit(EnergyTerm(c, target, predicted)),
   downtime |-> Unit(Ratio(Gap(predicted, c.default), c.max - c.min)),
   risk     |-> Risk(c, target)]

StaticTerms(c, target) ==
  [safety   |-> Unit(One - Ratio(Gap(target, Mid(c)), SafeSpan(c))),
   energy   |-> Unit(One \div 2 + Ratio(c.max - target, c.max - c.safeMin) \div 2),
   downtime |-> Unit(Ratio(Gap(target, c.default), c.max - c.min)),
   risk     |-> Risk(c, target)]

(* The objective, its weights normalised by their sum.                     *)
Weighted(w, t) ==
  LET total == w.alpha + w.beta + w.gamma + w.delta IN
  (w.alpha * t.safety + w.beta * t.energy - w.gamma * t.downtime - w.delta * t.risk)
    \div (IF total > 0 THEN total ELSE 1)

(* generate: to do nothing, reductions of the default within the safe      *)
(* envelope, and the red team's two.                                       *)
Noop == [noop |-> TRUE]
Candidate(c, x) == [noop |-> FALSE, command |-> c, target |-> x]

Candidates(c, w, redTeam) ==
  LET Reduced(k) == Candidate(c, Within(c.safeMin, c.safeMax, c.default - (k * SafeSpan(c)) \div 5)) IN
  <<Noop>> \o [i \in 1..(IF w.candidate_count > 1 THEN w.candidate_count ELSE 1) |->
                 Reduced(IF i % 2 = 1 THEN 1 ELSE 2)]
           \o (IF redTeam THEN <<Candidate(c, (c.max * 3) \div 2), Candidate(c, -5)>> ELSE << >>)

Score(x, w, static, gain, base) ==
  Weighted(w, IF x.noop THEN NoopTerms
              ELSE IF static THEN StaticTerms(x.command, x.target)
              ELSE SimulatedTerms(x.command, gain, x.target, base))

(* decide: the best score; a stable sort leaves the first of equals first. *)
Winner(c, w, static, redTeam, gain, base) ==
  LET cands == Candidates(c, w, redTeam)
      points == [i \in DOMAIN cands |-> Score(cands[i], w, static, gain, base)]
      best == CHOOSE i \in DOMAIN cands :
                \A j \in DOMAIN cands : points[j] < points[i] \/ (points[j] = points[i] /\ i <= j) IN
  cands[best]
-----------------------------------------------------------------------------
(* _mean_window: of the samples after a time, or of the newest few.        *)
Mean(s) == FoldLeft(+, 0, s) \div Len(s)
WindowAfter(series, t) == LET after == SelectSeq(series, LAMBDA x : x[1] > t) IN
                          [i \in DOMAIN after |-> after[i][2]]
WindowNewest(series, n) == LET k == Least(n, Len(series)) IN
                           [i \in 1..k |-> series[Len(series) - k + i][2]]

(* classify: no baseline or no samples tell nothing; within the thresholds *)
(* only an expected effect that was reached is an improvement.             *)
Classified(v, series, baseline, after, effect) ==
  LET newest == WindowNewest(series, v.window_samples)
      window == IF WindowAfter(series, after) # << >> THEN WindowAfter(series, after) ELSE newest
      post == Mean(window)
      change == ((post - baseline) * 1000) \div Gap(baseline, 0) IN
  IF window = << >> \/ baseline = 0 THEN "no_change"
  ELSE IF change >= v.improved_threshold THEN "improved"
  ELSE IF change <= -v.worsened_threshold THEN "worsened"
  ELSE IF post - baseline >= effect THEN "improved" ELSE "no_change"
=============================================================================
