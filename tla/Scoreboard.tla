----------------------------- MODULE Scoreboard -----------------------------
(***************************************************************************)
(* The practice scoreboard, the one reader of the labels that are kept out *)
(* of the stream: what the runs' metric rows make of labelled episodes.    *)
(* Rates are in thousandths.                                               *)
(***************************************************************************)
EXTENDS Mapping

(* The metric log: one row per incident, the latest written in its place;  *)
(* an outcome of an incident without a row is dropped, and keeps the time  *)
(* there was unless it brings one.                                         *)
Record(rows, row) == Append(SelectSeq(rows, LAMBDA r : r.incident # row.incident), row)
NoTime == -1
UpdateOutcome(rows, incident, outcome, time) ==
  [i \in DOMAIN rows |->
     IF rows[i].incident # incident THEN rows[i]
     ELSE [rows[i] EXCEPT !.outcome = outcome, !.resolved = IF time = NoTime THEN @ ELSE time]]

Share(a, b) == IF b = 0 THEN 0 ELSE (1000 * a) \div b

(* _mean *)
Mean(value(_), S) == IF S = {} THEN 0 ELSE MapThenSumSet(value, S) \div Cardinality(S)

(* compute: metric rows and labels are matched by episode, of which the    *)
(* last row counts.                                                        *)
Scoreboard(metrics, labels) ==
  LET row == [k \in {metrics[i].episode : i \in DOMAIN metrics} |->
                FirstOf(Reverse(metrics), LAMBDA r : r.episode = k, << >>)]
      label == [k \in {labels[i].episode : i \in DOMAIN labels} |->
                  FirstOf(Reverse(labels), LAMBDA l : l.episode = k, << >>)]
      Count(P(_)) == Cardinality({k \in DOMAIN label : P(k)})
      seen(k) == k \in DOMAIN row
      improved(k) == seen(k) /\ row[k].outcome = "improved"
      rated(k) == improved(k) /\ label[k].anomaly /\ label[k].root # ""
      tp == Count(LAMBDA k : label[k].anomaly /\ seen(k))
      fn == Count(LAMBDA k : label[k].anomaly /\ ~seen(k))
      fp == Count(LAMBDA k : ~label[k].anomaly /\ seen(k)) IN
  [tp |-> tp, fn |-> fn, fp |-> fp,
   precision |-> Share(tp, tp + fp), recall |-> Share(tp, tp + fn),
   top1 |-> Share(Count(LAMBDA k : rated(k) /\ label[k].root \in {row[k].arm, row[k].signal}), Count(rated)),
   mttd |-> Mean(LAMBDA k : row[k].detected, {k \in DOMAIN label : seen(k)}),
   mttr |-> Mean(LAMBDA k : row[k].resolved, {k \in DOMAIN label : improved(k)}),
   downtime_avoided |-> Count(LAMBDA k : improved(k) /\ row[k].avoided),
   unsafe |-> Share(Count(LAMBDA k : improved(k) /\ row[k].unsafe > 0), Len(metrics)),
   false_interventions |-> 0]
=============================================================================
