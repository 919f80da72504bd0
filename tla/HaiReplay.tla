------------------------------ MODULE HaiReplay ------------------------------
(***************************************************************************)
(* The HAI virtual plant: rows of a recorded slice, or synthetic ones, are *)
(* put in the order of their times and streamed, signal by signal, to the  *)
(* history, to the bus and through the detector.                           *)
(* A column's source is its name and the words that occur in the name.     *)
(***************************************************************************)
EXTENDS Evidence

IsLabel(words) == words \cap {"_normal", "attack", "benign"} # {}

(* A time that a row does not give, gives as empty text, or that cannot be *)
(* parsed; the text of the last has no blank in it, with which it would    *)
(* raise.                                                                  *)
Absent == -1
Unparsed == -2
Blank == -3
FromIso(t) == IF t \in {Unparsed, Blank} THEN 0 ELSE t

(* event_time: a number first, else the text of the time column, else of   *)
(* the first column that looks like a time, with a T and a Z in it.        *)
EventTime(row) == CASE row.ts # Absent -> row.ts
                    [] row.ts = Absent /\ row.time # Absent -> FromIso(row.time)
                    [] OTHER -> IF row.other = Absent THEN 0 ELSE FromIso(row.other)

(* load_source_slice: so many lines of the file, then one row per time;    *)
(* a row without any is keyed by the number of rows kept so far, and       *)
(* a time in any other column is not looked for here.                      *)
SliceKey(row, kept) ==
  IF row.ts = Absent /\ row.time \in {Absent, Blank} THEN kept ELSE EventTime(row)

Slice(lines, maxRows) ==
  FoldLeft(LAMBDA keyed, row :
             LET k == SliceKey(row, Cardinality(DOMAIN keyed)) IN
             [x \in DOMAIN keyed \cup {k} |-> IF x = k THEN row ELSE keyed[x]],
           << >>, SubSeq(lines, 1, Smaller(Len(lines), maxRows)))

InOrder(keyed) == LET keys == SetToSortSeq(DOMAIN keyed, LAMBDA a, b : a < b) IN
                  [i \in DOMAIN keys |-> keyed[keys[i]]]

(* synthetic_rows: the anomaly is on the first flow, or the first column,  *)
(* and sixty rows long.  What it is added to depends on the hash of the    *)
(* signal's name, which differs from process to process.                   *)
AnomalousSource(m) == FirstOf(m.columns, LAMBDA c : c.kind = "flow", m.columns[1]).source
Synthetic(m, base, i) ==
  [ts |-> i * 1000, time |-> Absent, other |-> Absent,
   values |-> [x \in {c.source : c \in Range(m.columns)} |->
                 base[x] + (IF x = AnomalousSource(m) /\ i \in 150..209 THEN 60 ELSE 0)]]

(* stream: what one row says of the mapped signals, labels left out; words *)
(* are those in the columns' names.                                        *)
Samples(m, words, row) ==
  LET told == SelectSeq(m.columns, LAMBDA c : ~IsLabel(words[c.source]) /\ c.source \in DOMAIN row.values) IN
  [i \in DOMAIN told |-> [signal |-> told[i].signal_id, ts |-> EventTime(row),
                          value |-> (row.values[told[i].source] * told[i].scale) \div 1000]]

AllSamples(m, words, rows) == FlattenSeq([i \in DOMAIN rows |-> Samples(m, words, rows[i])])

(* A sample is stored and counted, then published; a broker that is down   *)
(* costs the message, and the sample is shown to the detector all the same. *)
Nothing(m) == [history |-> << >>, onBus |-> << >>, published |-> 0, failures |-> 0, episodes |-> {},
               seen |-> [s \in SignalsOfMapping(m) |-> Unseen @@ [innovation |-> 0]]]

StreamStep(st, x, up) ==
  LET w == Observed(st.seen[x.signal], x.value)
      raised == Raises(w, FALSE) IN
  [history   |-> Append(st.history, x),
   published |-> st.published + 1,
   onBus     |-> IF up THEN Append(st.onBus, x) ELSE st.onBus,
   failures  |-> st.failures + (IF up THEN 0 ELSE IF raised THEN 2 ELSE 1),
   episodes  |-> IF raised THEN st.episodes \cup {<<x.signal, x.ts>>} ELSE st.episodes,
   seen      |-> [st.seen EXCEPT ![x.signal] = w]]

(* up: the samples at which the broker is there.                           *)
Streamed(m, samples, up) ==
  FoldLeft(LAMBDA st, i : StreamStep(st, samples[i], i \in up), Nothing(m),
           [i \in DOMAIN samples |-> i])
=============================================================================
