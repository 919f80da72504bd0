--------------------------- MODULE MCGuardedAction ---------------------------
(***************************************************************************)
(* What decides for the pipeline, evaluated over mapping.yaml's commands   *)
(* and a grid of baselines: the winners GuardedAction chooses from are the *)
(* ones the objective can choose, and a red team's candidate may be one of *)
(* them.                                                                   *)
(***************************************************************************)
EXTENDS GuardedAction

S == INSTANCE Scoring

Weights == S!LoadedKnobs(<< >>).decide
Verifies == S!LoadedKnobs(<< >>).verify
RealCommands == S!Range(S!Hai.commands)
Baselines(c) == {c.min + (k * (c.max - c.min)) \div 20 : k \in 0..20}
Won(c, static, red, base) == S!Winner(c, Weights, static, red, c.effectGain, base)

Plain(c) == [name |-> c.name, min |-> c.min, max |-> c.max,
             safeMin |-> c.safeMin, safeMax |-> c.safeMax, default |-> c.default]

(* mapping.yaml and the default knobs load, and the pipeline's commands    *)
(* are the mapping's.                                                      *)
ASSUME CommandsAreMapped ==
  S!LoadsMapping(S!Hai) /\ Commands = {Plain(c) : c \in RealCommands}

(* Whatever wins is what Decide may take: to do nothing, or a candidate of *)
(* the command; and without a red team it passes the shield.               *)
ASSUME WinnersAreCandidates ==
  \A c \in RealCommands, static, red \in BOOLEAN : \A b \in Baselines(c) :
    LET w == Won(c, static, red, b) IN
    /\ w.noop \/ [noop |-> FALSE, command |-> Plain(c), target |-> w.target] \in Winners
    /\ ~red => w.noop \/ (c.safeMin <= w.target /\ w.target <= c.safeMax)

(* With the default weights the first reduction wins on every baseline,    *)
(* either way of scoring, red team or not: no known-bad candidate ever     *)
(* reaches the shield, although action.py:84 counts on it.  It takes other *)
(* weights, here of energy alone.                                          *)
ASSUME FirstReductionWins ==
  \A c \in RealCommands, static, red \in BOOLEAN : \A b \in Baselines(c) :
    Won(c, static, red, b) = S!Candidates(c, Weights, FALSE)[2]
ASSUME RedTeamMayWin ==
  LET energy == [Weights EXCEPT !.alpha = 0, !.gamma = 0, !.delta = 0] IN
  \E c \in RealCommands : S!Winner(c, energy, FALSE, TRUE, c.effectGain, c.default).target < c.min

(* A command that works as predicted is never an improvement where it      *)
(* lowers the signal: by how much it does so, it has worsened it.  Only a  *)
(* rise improves, as only a rise is compared with the threshold, and what  *)
(* is compared with the effect is the value predicted, not its difference. *)
ASSUME OnlyRisesImprove ==
  \A c \in RealCommands : \A b \in Baselines(c) \ {0} :
    LET w == Won(c, FALSE, FALSE, b)
        post == S!Predicted(c, c.effectGain, w.target, b)
        verdict == S!Classified(Verifies, <<<<0, b>>, <<1, post>>>>, b, 0, post) IN
    /\ verdict = "improved" => post > b
    /\ 10 * (b - post) >= b => verdict = "worsened"

(* Samples up to the marked time are not looked at, unless there are none  *)
(* after it, when the newest few stand for them.                           *)
ASSUME VerdictLooksAfter ==
  \A before, after \in {5, 10, 13} :
    LET Told(series) == S!Classified(Verifies, series, 10, 1, 100) IN
    /\ Told(<<<<0, before>>, <<1, before>>, <<2, after>>>>) = Told(<<<<2, after>>>>)
    /\ Told(<<<<0, after>>, <<1, after>>>>) = Told(<<<<2, after>>>>)

(* No observation takes the plant's gain out of 0 to 1.5.                  *)
ASSUME GainIsBounded ==
  \A c \in RealCommands, gain \in {0, 900, 1500}, x \in {-5000, 0, 99, 100, 5000} :
    \A target \in Baselines(c) : S!Calibrated(c, gain, target, x) \in 0..1500
=============================================================================
