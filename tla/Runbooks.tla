------------------------------ MODULE Runbooks ------------------------------
(***************************************************************************)
(* The runbook wiki: what resolved incidents taught, matched by symptoms.  *)
(* A wiki is a function from root causes to entries, as record_resolution  *)
(* keeps one entry per cause; a set of symptom tokens is what telemetry    *)
(* was reduced to (extract_symptoms).                                      *)
(***************************************************************************)
EXTENDS Naturals, FiniteSets

CONSTANTS
  MinTokens,  \* min_tokens_match
  Num, Den    \* jaccard_threshold, as a fraction

ASSUME ThresholdAssumption ==
  MinTokens \in Nat /\ Num \in Nat /\ Den \in Nat /\ 0 < Num /\ Num <= Den

Empty == << >>

(* jaccard(S, T) >= jaccard_threshold                                      *)
Clears(S, T) == Num * Cardinality(S \cup T) <= Den * Cardinality(S \cap T)

(* jaccard(S, T) >= jaccard(S, U)                                          *)
AtLeastAsClose(S, T, U) ==
  Cardinality(S \cap U) * Cardinality(S \cup T) <= Cardinality(S \cap T) * Cardinality(S \cup U)

(* Slip: one token more must be shared.                                    *)
SharesMore(S, T) == Cardinality(S \cap T) > MinTokens
SharesEnough(S, T) == Cardinality(S \cap T) >= MinTokens

(* match: the closest of the entries that share enough tokens, if it is    *)
(* close enough; of equally close ones any, where the code takes the first.*)
Matches(wiki, S) ==
  LET shares == {c \in DOMAIN wiki : SharesEnough(S, wiki[c].tokens)} IN
  {c \in shares : /\ S # {} /\ Clears(S, wiki[c].tokens)
                  /\ \A d \in shares : AtLeastAsClose(S, wiki[c].tokens, wiki[d].tokens)}

(* record_resolution: an entry of the cause takes on the incident's tokens *)
(* and counts it; another cause gets an entry of its own.                  *)
Resolution(wiki, S, cause) ==
  [c \in DOMAIN wiki \cup {cause} |->
     IF c # cause THEN wiki[c]
     ELSE IF c \in DOMAIN wiki
          THEN [tokens |-> wiki[c].tokens \cup S, occurrences |-> wiki[c].occurrences + 1]
          ELSE [tokens |-> S, occurrences |-> 1]]
=============================================================================
