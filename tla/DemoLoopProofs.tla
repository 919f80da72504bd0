--------------------------- MODULE DemoLoopProofs ---------------------------
(***************************************************************************)
(* Theorems about the demo loop, for any episodes, causes, thresholds of   *)
(* the wiki, budgets, and numbers of rounds and stops.                     *)
(***************************************************************************)
EXTENDS DemoLoop, FiniteSetTheorems, SequenceTheorems, TLAPS

(* Where the loop stands: before the outcome of the action is known, while *)
(* what it taught is written down, and after.                              *)
Before == {"diagnose", "late", "diagnosed", "execute", "verify"} \cup Roles
Saving == {"save", "write"}
After == {"learn", "report"}
Outside == {"idle", "dead", "served"}

(* A wiki of the program: of n rounds, at most, that were resolved.        *)
Shelved(w, n) ==
  /\ DOMAIN w \subseteq Causes /\ IsFiniteSet(DOMAIN w)
  /\ \A c \in DOMAIN w : /\ w[c].tokens \subseteq UNION Episodes /\ IsFiniteSet(w[c].tokens)
                         /\ w[c].occurrences \in 1..n

(* The files, and the wiki as the round has loaded it: it is ahead of them *)
(* only from a resolution to its save.                                     *)
Shelf ==
  /\ pc \in Before \cup Saving \cup After \cup Outside
  /\ round \in Nat /\ Shelved(disk, round)
  /\ pc \in Before \cup Saving => round > 0 /\ Shelved(disk, round - 1)
  /\ pc \in Before \cup After => wiki = disk
  /\ pc \in Saving => wiki = Resolution(disk, symptoms, diagnosis.cause)

(* What was learned stands in the files, and nothing else does.            *)
Taught ==
  /\ \A c \in DOMAIN disk : disk[c].tokens = Known(c)
  /\ \A l \in lessons : /\ l.cause \in DOMAIN disk /\ l.tokens \subseteq disk[l.cause].tokens
                        /\ l.tokens \in Episodes
  /\ \A c \in DOMAIN disk : \E l \in lessons : l.cause = c

(* The round's diagnosis.                                                  *)
Diagnosed ==
  /\ symptoms \in Episodes /\ budget \in Budgets /\ heard \in Seq(Causes) /\ Len(heard) <= budget
  /\ diagnosis \in [cause : Causes, mode : Modes]
  /\ diagnosis.mode = "runbook_hit" => \E l \in lessons : l.cause = diagnosis.cause

(* The dashboard.                                                          *)
Stages == {"perceive", "diagnose", "incident", "decide", "shield", "act", "status", "verify",
           "learn", "result", "demo"}
Fates == {Blank, "ESCALATED", "RESOLVED", "DIAGNOSING"}
Events == [stage : Stages, names : {"key", "incident", "none"}, of : Nat, state : Fates]

Screen ==
  /\ ring \in Seq(Events) /\ Len(ring) <= MaxEvents
  /\ alias \in 0..round /\ fate \in Fates

IInv == Shelf /\ Taught /\ Diagnosed /\ Screen
-----------------------------------------------------------------------------
(* A resolution adds one to the count of its cause's entry, and its tokens *)
(* to the entry's; it takes nothing away.                                  *)
LEMMA ResolutionLemma ==
  ASSUME NEW w, NEW n \in Nat, Shelved(w, n), NEW S \in Episodes, NEW cause \in Causes
  PROVE  LET v == Resolution(w, S, cause) IN
         /\ Shelved(v, n + 1) /\ DOMAIN v = DOMAIN w \cup {cause}
         /\ v[cause].tokens = IF cause \in DOMAIN w THEN w[cause].tokens \cup S ELSE S
         /\ \A c \in DOMAIN w : c # cause => v[c].tokens = w[c].tokens
         /\ \A c \in DOMAIN w : /\ w[c].tokens \subseteq v[c].tokens
                                /\ w[c].occurrences <= v[c].occurrences
<1> DEFINE v == Resolution(w, S, cause)
           grown == [tokens |-> w[cause].tokens \cup S, occurrences |-> w[cause].occurrences + 1]
<1>1. DOMAIN v = DOMAIN w \cup {cause}
  BY DEF Resolution
<1>2. \A c \in DOMAIN w : c # cause => v[c] = w[c]
  BY DEF Resolution
<1>3. cause \in DOMAIN w => v[cause] = grown
  BY DEF Resolution
<1>4. cause \notin DOMAIN w => v[cause] = [tokens |-> S, occurrences |-> 1]
  BY DEF Resolution
<1>5. grown.tokens = w[cause].tokens \cup S /\ grown.occurrences = w[cause].occurrences + 1
  OBVIOUS
<1> HIDE DEF v, grown
<1>6. IsFiniteSet(S) /\ S \subseteq UNION Episodes
  BY EpisodeAssumption
<1>7. DOMAIN v \subseteq Causes /\ IsFiniteSet(DOMAIN v)
  BY <1>1, FS_AddElement DEF Shelved
<1>8. ASSUME NEW c \in DOMAIN v
      PROVE  /\ v[c].tokens \subseteq UNION Episodes /\ IsFiniteSet(v[c].tokens)
             /\ v[c].occurrences \in 1..(n + 1)
  <2>1. CASE c # cause
    BY <1>1, <1>2, <2>1 DEF Shelved
  <2>2. CASE c = cause /\ cause \in DOMAIN w
    <3>1. /\ w[cause].tokens \subseteq UNION Episodes /\ IsFiniteSet(w[cause].tokens)
          /\ w[cause].occurrences \in 1..n
      BY <2>2 DEF Shelved
    <3>2. IsFiniteSet(w[cause].tokens \cup S)
      BY <1>6, <3>1, FS_Union
    <3>3. w[cause].tokens \cup S \subseteq UNION Episodes
      BY <1>6, <3>1
    <3>4. w[cause].occurrences + 1 \in 1..(n + 1)
      BY <3>1
    <3> QED BY <1>3, <1>5, <2>2, <3>2, <3>3, <3>4
  <2>3. CASE c = cause /\ cause \notin DOMAIN w
    BY <1>4, <1>6, <2>3
  <2> QED BY <2>1, <2>2, <2>3
<1>9. /\ v[cause].tokens = IF cause \in DOMAIN w THEN w[cause].tokens \cup S ELSE S
      /\ \A c \in DOMAIN w : c # cause => v[c].tokens = w[c].tokens
  <2>1. cause \in DOMAIN w => v[cause].tokens = w[cause].tokens \cup S
    BY <1>3, <1>5
  <2>2. [tokens |-> S, occurrences |-> 1].tokens = S
    OBVIOUS
  <2>3. cause \notin DOMAIN w => v[cause].tokens = S
    BY <1>4, <2>2
  <2>4. \A c \in DOMAIN w : c # cause => v[c].tokens = w[c].tokens
    BY <1>2
  <2> QED BY <2>1, <2>3, <2>4
<1>10. ASSUME NEW c \in DOMAIN w
       PROVE  w[c].tokens \subseteq v[c].tokens /\ w[c].occurrences <= v[c].occurrences
  <2>1. w[c].occurrences \in 1..n
    BY DEF Shelved
  <2> QED BY <1>2, <1>3, <1>5, <2>1
<1> QED BY <1>1, <1>7, <1>8, <1>9, <1>10 DEF v, Shelved

(* Shelving of fewer rounds is shelving of more.                           *)
LEMMA ShelvedLemma ==
  ASSUME NEW w, NEW n \in Nat, NEW m \in Nat, n <= m, Shelved(w, n)
  PROVE  Shelved(w, m)
BY DEF Shelved

(* The ring takes what is published and stays within its limit.            *)
LEMMA NewestLemma ==
  ASSUME NEW s \in Seq(Events)
  PROVE  Newest(s) \in Seq(Events) /\ Len(Newest(s)) <= MaxEvents
<1>1. MaxEvents \in Nat /\ Len(s) \in Nat
  BY LimitAssumption
<1>2. CASE Len(s) <= MaxEvents
  BY <1>2 DEF Newest
<1>3. CASE ~(Len(s) <= MaxEvents)
  <2>1. Newest(s) = SubSeq(s, Len(s) - MaxEvents + 1, Len(s))
    BY <1>3 DEF Newest
  <2>2. Len(s) - MaxEvents + 1 \in 1..(Len(s) + 1)
    BY <1>1, <1>3
  <2> DEFINE m == Len(s) - MaxEvents + 1
  <2>3. m \in 1..(Len(s) + 1) /\ Len(s) - m + 1 = MaxEvents
    BY <1>1, <2>2
  <2> HIDE DEF m
  <2>4. SubSeq(s, m, Len(s)) \in Seq(Events) /\ Len(SubSeq(s, m, Len(s))) = MaxEvents
    BY <1>1, <2>3
  <2> QED BY <1>1, <2>1, <2>4 DEF m
<1> QED BY <1>2, <1>3

LEMMA ShowLemma ==
  ASSUME Screen, round \in Nat, NEW s \in Seq(Events), Show(s)
  PROVE  ring' \in Seq(Events) /\ Len(ring') <= MaxEvents /\ alias' \in 0..round
<1>1. ring \o s \in Seq(Events)
  BY DEF Screen
<1>2. Newest(ring \o s) \in Seq(Events) /\ Len(Newest(ring \o s)) <= MaxEvents
  BY <1>1, NewestLemma
<1>3. alias' \in {alias, round}
  BY DEF Show
<1> QED BY <1>2, <1>3 DEF Show, Screen

LEMMA Limits == Budgets \subseteq Nat /\ MaxEvents \in Nat
BY LimitAssumption

LEMMA EmptyScreen == << >> \in Seq(Events) /\ Len(<< >>) <= MaxEvents
<1>1. << >> \in Seq(Events) /\ Len(<< >>) = 0
  OBVIOUS
<1> QED BY <1>1, Limits

LEMMA EventTypes ==
  ASSUME round \in Nat, NEW stage \in Stages
  PROVE  Keyed(stage) \in Events /\ Named(stage) \in Events /\ Bare(stage) \in Events
BY DEF Keyed, Named, Bare, Events, Fates

LEMMA UndiagnosedLemma ==
  ASSUME symptoms \in Episodes
  PROVE  /\ Undiagnosed \in [cause : Causes, mode : Modes] /\ Undiagnosed.mode # "runbook_hit"
         /\ CauseOf[symptoms] \in Causes
<1>1. CauseOf[symptoms] \in Causes
  BY EpisodeAssumption
<1>2. (CHOOSE c \in Causes : TRUE) \in Causes
  BY <1>1
<1>3. Blank # "runbook_hit"
  BY Zenon DEF Blank
<1> QED BY <1>1, <1>2, <1>3 DEF Undiagnosed, Modes

(* A step of the loop that publishes leaves the files and the diagnosis.   *)
LEMMA StepLemma ==
  ASSUME IInv, NEW from, NEW to, NEW s \in Seq(Events), Step(from, to, s), fate' \in Fates
  PROVE  Taught' /\ Diagnosed' /\ Screen'
<1>1. Taught' /\ Diagnosed'
  BY DEF IInv, Taught, Known, Diagnosed, Step, files, started
<1>2. ring' \in Seq(Events) /\ Len(ring') <= MaxEvents /\ alias' \in 0..round
  BY ShowLemma DEF IInv, Shelf, Step, Publish
<1> QED BY <1>1, <1>2 DEF Screen, Step

LEMMA IInvInit == Init => IInv
<1> SUFFICES ASSUME Init PROVE IInv
  OBVIOUS
<1>1. DOMAIN Empty = {}
  BY DEF Empty
<1>2. Shelved(Empty, 0)
  BY <1>1, FS_EmptySet DEF Shelved
<1>3. Shelf
  BY <1>2 DEF Init, Shelf, Before, Saving, After, Outside, Roles
<1>4. Taught
  BY <1>1 DEF Init, Taught
<1>5. Diagnosed
  <2>1. symptoms \in Episodes /\ budget \in Budgets /\ heard = << >> /\ diagnosis = Undiagnosed
    BY DEF Init
  <2>2. budget \in Nat
    BY <2>1, Limits
  <2>3. heard \in Seq(Causes) /\ Len(heard) <= budget
    BY <2>1, <2>2
  <2>4. diagnosis \in [cause : Causes, mode : Modes] /\ diagnosis.mode # "runbook_hit"
    BY <2>1, UndiagnosedLemma
  <2> QED BY <2>1, <2>3, <2>4 DEF Diagnosed
<1>6. Screen
  <2>1. ring = << >> /\ alias = 0 /\ round = 0 /\ fate = Blank
    BY DEF Init, NoRound
  <2>2. ring \in Seq(Events) /\ Len(ring) <= MaxEvents
    BY <2>1, EmptyScreen
  <2>3. alias \in 0..round /\ fate \in Fates
    BY <2>1 DEF Fates
  <2> QED BY <2>2, <2>3 DEF Screen
<1> QED BY <1>3, <1>4, <1>5, <1>6 DEF IInv

LEMMA IInvNext == IInv /\ [Next]_vars => IInv'
<1> SUFFICES ASSUME IInv, [Next]_vars PROVE IInv'
  OBVIOUS
<1> USE DEF IInv
<1>0. /\ round \in Nat /\ symptoms \in Episodes /\ budget \in Nat /\ fate \in Fates
      /\ \A s \in Seq(Events) : Len(s) \in Nat
  BY LimitAssumption DEF Shelf, Diagnosed, Screen
(* Whatever leaves the files, the dashboard and the inputs alone keeps     *)
(* most of it.                                                             *)
<1> DEFINE SameScreen == UNCHANGED <<round, ring, alias, fate>>
           SameFiles == UNCHANGED files
           SameLoop == UNCHANGED <<started, heard, diagnosis, lessons>>
<1>a. SameScreen => Screen'
  BY DEF Screen
<1>b. SameFiles => Taught'
  BY DEF Taught, Known, files
<1>c. SameLoop => Diagnosed'
  BY DEF Diagnosed, started
<1> HIDE DEF SameScreen, SameFiles, SameLoop
<1>1. CASE Perceive
  <2>1. /\ pc' = "diagnose" /\ round' = round + 1 /\ disk' = disk /\ wiki' = disk
    BY <1>1 DEF Perceive, files
  <2>2. Shelf'
    <3>1. round + 1 - 1 = round /\ round + 1 \in Nat /\ round <= round + 1 /\ 0 < round + 1
      BY <1>0
    <3>2. Shelved(disk, round) /\ Shelved(disk, round + 1)
      BY <3>1, <1>0, ShelvedLemma DEF Shelf
    <3> QED BY <2>1, <3>1, <3>2 DEF Shelf, Before, Saving, After, Outside, Shelved
  <2>3. Taught'
    BY <1>1, <1>b DEF Perceive, SameFiles
  <2>4. Diagnosed'
    <3>1. /\ symptoms' = symptoms /\ budget' = budget /\ heard' = << >> /\ lessons' = lessons
          /\ diagnosis' = Undiagnosed
      BY <1>1 DEF Perceive, started, files
    <3>2. << >> \in Seq(Causes) /\ Len(<< >>) <= budget
      BY <1>0
    <3>3. Undiagnosed \in [cause : Causes, mode : Modes] /\ Undiagnosed.mode # "runbook_hit"
      BY <1>0, UndiagnosedLemma
    <3> QED BY <3>1, <3>2, <3>3 DEF Diagnosed
  <2>5. Screen'
    <3> DEFINE ep == [Keyed("perceive") EXCEPT !.of = round + 1]
    <3>1. ep \in Events
      <4>1. ep = [stage |-> "perceive", names |-> "key", of |-> round + 1, state |-> Blank]
        BY DEF Keyed
      <4> HIDE DEF ep
      <4>2. round + 1 \in Nat
        BY <1>0
      <4> QED BY <4>1, <4>2 DEF Events, Stages, Fates
    <3>2. Show(<<ep>>) /\ fate' = Blank
      BY <1>1 DEF Perceive, Publish
    <3> HIDE DEF ep
    <3>3. <<ep>> \in Seq(Events)
      BY <3>1
    <3>4. ring' \in Seq(Events) /\ Len(ring') <= MaxEvents /\ alias' \in 0..round
      BY <1>0, <3>2, <3>3, ShowLemma
    <3>5. alias' \in 0..(round + 1)
      BY <1>0, <3>4
    <3> QED BY <2>1, <3>2, <3>4, <3>5 DEF Screen, Fates
  <2> QED BY <2>2, <2>3, <2>4, <2>5
<1>2. CASE LoadFails
  <2>1. Shelf'
    BY <1>2 DEF LoadFails, Shelf, files, Before, Saving, After, Outside, Roles
  <2> QED BY <1>2, <1>a, <1>b, <1>c, <2>1 DEF LoadFails, SameScreen, SameFiles, SameLoop, files
<1>3. CASE Diagnose
  <2>1. /\ pc = "diagnose" /\ UNCHANGED <<round, files, wiki>> /\ SameScreen /\ SameFiles
        /\ pc' \in {"diagnosed", "proposer"} /\ UNCHANGED <<started, heard, lessons>>
    BY <1>3 DEF Diagnose, Conclude, SameScreen, SameFiles, files
  <2>2. Shelf'
    BY <2>1 DEF Shelf, files, Before, Saving, After, Outside, Roles
  <2>3. \E c \in Causes, m \in Modes :
          /\ diagnosis' = [cause |-> c, mode |-> m]
          /\ m = "runbook_hit" => c \in DOMAIN wiki
    <3>1. CauseOf[symptoms] \in Causes
      BY <1>0, UndiagnosedLemma
    <3>2. DOMAIN wiki \subseteq Causes /\ Matches(wiki, symptoms) \subseteq DOMAIN wiki
      BY <2>1 DEF Shelf, Before, Shelved, Matches
    <3>3. CASE \E c \in Matches(wiki, symptoms) : Conclude("diagnosed", c, "runbook_hit")
      BY <3>2, <3>3 DEF Conclude, Modes
    <3>4. CASE Conclude("diagnosed", CauseOf[symptoms], "rule_only")
      BY <3>1, <3>4 DEF Conclude, Modes
    <3>5. CASE Conclude("proposer", CauseOf[symptoms], "single_pass_fallback")
      BY <3>1, <3>5 DEF Conclude, Modes
    <3> QED BY <1>3, <3>3, <3>4, <3>5 DEF Diagnose
  <2>4. Diagnosed'
    <3>1. PICK c \in Causes, m \in Modes :
            /\ diagnosis' = [cause |-> c, mode |-> m]
            /\ m = "runbook_hit" => c \in DOMAIN wiki
      BY <2>3
    <3>2. DOMAIN wiki = DOMAIN disk
      BY <2>1 DEF Shelf, Before
    <3>3. m = "runbook_hit" => \E l \in lessons : l.cause = c
      BY <3>1, <3>2 DEF Taught
    <3> QED BY <2>1, <3>1, <3>3 DEF Diagnosed, started
  <2> QED BY <1>a, <1>b, <2>1, <2>2, <2>4
<1>4. ASSUME NEW role \in Roles, NoAnswer(role)
      PROVE  IInv'
  <2>1. /\ pc = role /\ pc' = "diagnosed" /\ UNCHANGED <<round, files, wiki>>
        /\ SameScreen /\ SameFiles /\ UNCHANGED <<started, heard, lessons>>
        /\ diagnosis' = [cause |-> diagnosis.cause, mode |-> "single_pass_fallback"]
    BY <1>4 DEF NoAnswer, Conclude, SameScreen, SameFiles, files
  <2>2. Shelf'
    BY <2>1, <1>4 DEF Shelf, files, Before, Saving, After, Outside, Roles
  <2>3. Diagnosed'
    BY <2>1 DEF Diagnosed, started, Modes
  <2> QED BY <1>a, <1>b, <2>1, <2>2, <2>3
<1>5. ASSUME NEW role \in Roles, NEW cause \in Causes, Answer(role, cause)
      PROVE  IInv'
  <2>1. /\ pc = role /\ Len(heard) < budget /\ heard' = Append(heard, cause)
        /\ pc' \in {"critic", "arbiter", "diagnosed"}
        /\ UNCHANGED <<round, files, wiki>>
        /\ SameScreen /\ SameFiles /\ UNCHANGED <<started, lessons>>
        /\ diagnosis'.cause \in {cause, diagnosis.cause}
        /\ diagnosis' = [cause |-> diagnosis'.cause, mode |-> diagnosis'.mode]
        /\ diagnosis'.mode \in {"single_pass_fallback", "debate"}
    <3>1. CASE role = "proposer"
      BY <1>5, <3>1 DEF Answer, Conclude, SameScreen, SameFiles, files
    <3>2. CASE role = "critic"
      BY <1>5, <3>2 DEF Answer, Conclude, SameScreen, SameFiles, files
    <3>3. CASE role = "arbiter"
      BY <1>5, <3>3 DEF Answer, Conclude, SameScreen, SameFiles, files
    <3> QED BY <1>5, <3>1, <3>2, <3>3 DEF Roles
  <2>2. Shelf'
    BY <2>1, <1>5 DEF Shelf, files, Before, Saving, After, Outside, Roles
  <2>3. heard' \in Seq(Causes) /\ Len(heard') <= budget
    BY <1>0, <2>1 DEF Diagnosed
  <2>4. diagnosis' \in [cause : Causes, mode : Modes] /\ diagnosis'.mode # "runbook_hit"
    BY <1>5, <2>1 DEF Diagnosed, Modes
  <2>5. Diagnosed'
    BY <2>1, <2>3, <2>4 DEF Diagnosed, started
  <2> QED BY <1>a, <1>b, <2>1, <2>2, <2>5
<1>6. CASE Decide
  <2> DEFINE s == <<Keyed("diagnose"), Named("incident"), Named("decide"), Named("incident")>>
  <2>1. s \in Seq(Events)
    BY <1>0, EventTypes DEF Stages
  <2>2. Step("diagnosed", "execute", s) /\ UNCHANGED <<wiki, fate>>
    BY <1>6 DEF Decide
  <2> HIDE DEF s
  <2>3. Taught' /\ Diagnosed' /\ Screen'
    BY <1>0, <2>1, <2>2, StepLemma
  <2>4. Shelf'
    BY <2>2 DEF Step, Shelf, files, Before, Saving, After, Outside, Roles
  <2> QED BY <2>3, <2>4
<1>7. CASE Execute
  <2> DEFINE s == <<Named("shield"), Bare("act"), Named("status"), Named("incident"),
                    Named("incident")>>
  <2>1. s \in Seq(Events)
    BY <1>0, EventTypes DEF Stages
  <2>2. Step("execute", "verify", s) /\ UNCHANGED <<wiki, fate>>
    BY <1>7 DEF Execute
  <2> HIDE DEF s
  <2>3. Taught' /\ Diagnosed' /\ Screen'
    BY <1>0, <2>1, <2>2, StepLemma
  <2>4. Shelf'
    BY <2>2 DEF Step, Shelf, files, Before, Saving, After, Outside, Roles
  <2> QED BY <2>3, <2>4
<1>8. CASE Escalate
  <2> DEFINE s == <<Named("shield"), Named("status"), Named("incident")>>
  <2>1. s \in Seq(Events)
    BY <1>0, EventTypes DEF Stages
  <2>2. Step("execute", "report", s) /\ fate' \in Fates /\ UNCHANGED wiki
    BY <1>8 DEF Escalate, Fates
  <2> HIDE DEF s
  <2>3. Taught' /\ Diagnosed' /\ Screen'
    BY <1>0, <2>1, <2>2, StepLemma
  <2>4. Shelf'
    BY <2>2 DEF Step, Shelf, files, Before, Saving, After, Outside, Roles
  <2> QED BY <2>3, <2>4
<1>9. CASE Resolve
  <2> DEFINE s == <<Named("verify")>>
  <2>1. s \in Seq(Events)
    BY <1>0, EventTypes DEF Stages
  <2>2. /\ Step("verify", "save", s) /\ fate' \in Fates
        /\ wiki' = Resolution(wiki, symptoms, diagnosis.cause)
    BY <1>9 DEF Resolve, Fates
  <2> HIDE DEF s
  <2>3. Taught' /\ Diagnosed' /\ Screen'
    BY <1>0, <2>1, <2>2, StepLemma
  <2>4. Shelf'
    <3>1. /\ pc = "verify" /\ pc' = "save" /\ wiki = disk /\ round > 0 /\ Shelved(disk, round - 1)
      BY <2>2 DEF Step, Shelf, Before
    <3>2. UNCHANGED <<round, disk, symptoms, diagnosis>>
      BY <2>2 DEF Step, files, started
    <3> QED BY <1>0, <2>2, <3>1, <3>2 DEF Shelf, Before, Saving, After, Outside, Roles
  <2> QED BY <2>3, <2>4
<1>10. CASE Retry
  <2> DEFINE s == <<Named("verify"), Named("incident")>>
  <2>1. s \in Seq(Events)
    BY <1>0, EventTypes DEF Stages
  <2>2. Step("verify", "report", s) /\ fate' \in Fates /\ UNCHANGED wiki
    BY <1>10 DEF Retry, Fates
  <2> HIDE DEF s
  <2>3. Taught' /\ Diagnosed' /\ Screen'
    BY <1>0, <2>1, <2>2, StepLemma
  <2>4. Shelf'
    BY <2>2 DEF Step, Shelf, files, Before, Saving, After, Outside, Roles
  <2> QED BY <2>3, <2>4
<1>11. CASE OpenFile
  <2>1. Shelf'
    BY <1>11 DEF OpenFile, Shelf, started, Before, Saving, After, Outside, Roles
  <2>2. Taught'
    BY <1>11 DEF OpenFile, Taught, Known
  <2> QED BY <1>11, <1>a, <1>c, <2>1, <2>2 DEF OpenFile, SameScreen, SameLoop
<1>12. CASE WriteFile
  <2> DEFINE cause == diagnosis.cause
  <2>1. /\ pc = "write" /\ pc' = "learn" /\ disk' = wiki /\ wiki' = wiki /\ round' = round
        /\ lessons' = lessons \cup {[tokens |-> symptoms, cause |-> cause]}
        /\ UNCHANGED <<started, heard, diagnosis>> /\ SameScreen
    BY <1>12 DEF WriteFile, SameScreen
  <2>2. /\ round > 0 /\ Shelved(disk, round - 1) /\ wiki = Resolution(disk, symptoms, cause)
    BY <2>1 DEF Shelf, Saving
  <2>3. cause \in Causes
    BY DEF Diagnosed
  <2> HIDE DEF cause
  <2>4. round - 1 \in Nat /\ round - 1 + 1 = round
    BY <1>0, <2>2
  <2>5. /\ Shelved(wiki, round) /\ DOMAIN wiki = DOMAIN disk \cup {cause}
        /\ wiki[cause].tokens = IF cause \in DOMAIN disk THEN disk[cause].tokens \cup symptoms
                                ELSE symptoms
        /\ \A c \in DOMAIN disk : c # cause => wiki[c].tokens = disk[c].tokens
    <3>1. LET v == Resolution(disk, symptoms, cause) IN
          /\ Shelved(v, round - 1 + 1) /\ DOMAIN v = DOMAIN disk \cup {cause}
          /\ v[cause].tokens = IF cause \in DOMAIN disk THEN disk[cause].tokens \cup symptoms
                               ELSE symptoms
          /\ \A c \in DOMAIN disk : c # cause => v[c].tokens = disk[c].tokens
          /\ \A c \in DOMAIN disk : /\ disk[c].tokens \subseteq v[c].tokens
                                    /\ disk[c].occurrences <= v[c].occurrences
      BY <1>0, <2>2, <2>3, <2>4, ResolutionLemma
    <3> QED BY <2>2, <2>4, <3>1
  <2>6. Shelf'
    BY <1>0, <2>1, <2>5 DEF Shelf, Before, Saving, After, Outside, Roles, Shelved
  <2>7. Taught'
    <3> DEFINE lesson == [tokens |-> symptoms, cause |-> cause]
    <3>1. \A l \in lessons' : /\ l.cause \in DOMAIN disk' /\ l.tokens \subseteq disk'[l.cause].tokens
                              /\ l.tokens \in Episodes
      BY <1>0, <2>1, <2>5 DEF Taught
    <3>x. lesson.cause = cause /\ lesson \in lessons'
      BY <2>1
    <3>2. \A c \in DOMAIN disk' : \E l \in lessons' : l.cause = c
      <4>1. ASSUME NEW c \in DOMAIN disk PROVE \E l \in lessons' : l.cause = c
        BY <2>1 DEF Taught
      <4>2. DOMAIN disk' = DOMAIN disk \cup {cause}
        BY <2>1, <2>5
      <4> HIDE DEF lesson
      <4> QED BY <4>1, <4>2, <3>x
    <3>3. ASSUME NEW c \in DOMAIN disk' PROVE disk'[c].tokens = Known(c)'
      <4> DEFINE Of(k) == {l \in lessons : l.cause = k}
                 OfNext(k) == {l \in lessons' : l.cause = k}
      <4>1. CASE c # cause
        <5>1. lesson.cause # c
          BY <4>1
        <5>2. OfNext(c) = Of(c)
          BY <2>1, <5>1
        <5>3. c \in DOMAIN disk /\ disk[c].tokens = Known(c)
          BY <2>1, <2>5, <4>1 DEF Taught
        <5> QED BY <2>1, <2>5, <4>1, <5>2, <5>3 DEF Known
      <4>2. CASE c = cause
        <5>1. OfNext(c) = Of(c) \cup {lesson}
          <6>1. lesson.cause = c
            BY <4>2
          <6> QED BY <2>1, <6>1
        <5>2. lesson.tokens = symptoms
          OBVIOUS
        <5>3. Known(c)' = Known(c) \cup symptoms
          <6> HIDE DEF lesson
          <6> QED BY <5>1, <5>2 DEF Known
        <5>4. CASE cause \in DOMAIN disk
          BY <2>1, <2>5, <4>2, <5>3, <5>4 DEF Taught
        <5>5. CASE cause \notin DOMAIN disk
          <6>1. Of(c) = {}
            BY <4>2, <5>5 DEF Taught
          <6>2. Known(c) = {}
            BY <6>1 DEF Known
          <6> QED BY <2>1, <2>5, <4>2, <5>3, <5>5, <6>2
        <5> QED BY <5>4, <5>5
      <4> QED BY <4>1, <4>2
    <3> QED BY <3>1, <3>2, <3>3 DEF Taught
  <2>8. Diagnosed'
    BY <2>1 DEF Diagnosed, started
  <2> QED BY <1>a, <2>1, <2>6, <2>7, <2>8
<1>13. CASE Learn
  <2> DEFINE s == <<Named("learn"), Named("incident")>>
  <2>1. s \in Seq(Events)
    BY <1>0, EventTypes DEF Stages
  <2>2. Step("learn", "report", s) /\ UNCHANGED <<wiki, fate>>
    BY <1>13 DEF Learn
  <2> HIDE DEF s
  <2>3. Taught' /\ Diagnosed' /\ Screen'
    BY <1>0, <2>1, <2>2, StepLemma
  <2>4. Shelf'
    BY <2>2 DEF Step, Shelf, files, Before, Saving, After, Outside, Roles
  <2> QED BY <2>3, <2>4
<1>14. CASE Report
  <2> DEFINE result == [Named("result") EXCEPT !.state = IF fate # "ESCALATED" THEN fate ELSE Blank]
             s == <<result, Named("shield"), Named("status"), Named("demo")>>
  <2>1. result \in Events
    BY <1>0 DEF Named, Events, Stages, Fates
  <2>2. Show(s) /\ UNCHANGED <<round, files, heard, diagnosis, fate>> /\ SameFiles /\ SameLoop
    BY <1>14 DEF Report, SameFiles, SameLoop, files
  <2> HIDE DEF result
  <2>3. s \in Seq(Events)
    BY <1>0, <2>1, EventTypes DEF Stages
  <2> HIDE DEF s
  <2>4. ring' \in Seq(Events) /\ Len(ring') <= MaxEvents /\ alias' \in 0..round
    BY <1>0, <2>2, <2>3, ShowLemma
  <2>5. Screen'
    BY <2>2, <2>4 DEF Screen
  <2>6. Shelf'
    BY <1>14 DEF Report, Shelf, files, Before, Saving, After, Outside, Roles
  <2> QED BY <1>b, <1>c, <2>2, <2>5, <2>6
<1>15. ASSUME NEW role \in Roles, AnswerRaises(role)
       PROVE  IInv'
  <2>1. Shelf'
    BY <1>15 DEF AnswerRaises, Shelf, files, Before, Saving, After, Outside, Roles
  <2> QED BY <1>15, <1>a, <1>b, <1>c, <2>1
          DEF AnswerRaises, SameScreen, SameFiles, SameLoop, files
<1>16. CASE Smoke
  <2>1. Shelf'
    BY <1>16 DEF Smoke, Shelf, files, Before, Saving, After, Outside, Roles
  <2> QED BY <1>16, <1>a, <1>b, <1>c, <2>1 DEF Smoke, SameScreen, SameFiles, SameLoop, files
<1>17. CASE Stop
  <2>1. Shelf'
    BY <1>17 DEF Stop, Shelf, files, Before, Saving, After, Outside, Roles
  <2> QED BY <1>17, <1>a, <1>b, <1>c, <2>1 DEF Stop, SameScreen, SameFiles, SameLoop, files
<1>18. CASE Restart
  <2>1. Shelf'
    BY <1>18 DEF Restart, Shelf, files, Before, Saving, After, Outside, Roles
  <2>2. Diagnosed'
    <3>1. /\ symptoms' \in Episodes /\ budget' \in Budgets /\ heard' = << >>
          /\ diagnosis' = Undiagnosed
      BY <1>18 DEF Restart
    <3>2. << >> \in Seq(Causes) /\ Len(<< >>) <= budget'
      BY <3>1, LimitAssumption
    <3>3. Undiagnosed \in [cause : Causes, mode : Modes] /\ Undiagnosed.mode # "runbook_hit"
      BY <1>0, UndiagnosedLemma
    <3> QED BY <3>1, <3>2, <3>3 DEF Diagnosed
  <2>3. Screen'
    <3>1. ring' = << >> /\ alias' = 0 /\ round' = round /\ fate' = Blank
      BY <1>18 DEF Restart, NoRound
    <3>2. ring' \in Seq(Events) /\ Len(ring') <= MaxEvents
      BY <3>1, EmptyScreen
    <3>3. alias' \in 0..round' /\ fate' \in Fates
      BY <1>0, <3>1 DEF Fates
    <3> QED BY <3>2, <3>3 DEF Screen
  <2> QED BY <1>18, <1>b, <2>1, <2>2, <2>3 DEF Restart, SameFiles, files
<1>19. ASSUME NEW role \in Roles, TimesOut(role)
       PROVE  IInv'
  <2>1. Shelf'
    BY <1>19 DEF TimesOut, Shelf, files, Before, Saving, After, Outside, Roles
  <2> QED BY <1>19, <1>a, <1>b, <1>c, <2>1
          DEF TimesOut, SameScreen, SameFiles, SameLoop, files
<1>20. CASE LateEnds
  <2>1. /\ pc = "late" /\ pc' = "diagnosed" /\ UNCHANGED <<round, files, wiki>>
        /\ SameScreen /\ SameFiles /\ UNCHANGED <<started, heard, lessons>>
        /\ diagnosis' = [cause |-> diagnosis.cause, mode |-> "single_pass_fallback"]
    BY <1>20 DEF LateEnds, Conclude, SameScreen, SameFiles, files
  <2>2. Shelf'
    BY <2>1 DEF Shelf, files, Before, Saving, After, Outside, Roles
  <2>3. Diagnosed'
    BY <2>1 DEF Diagnosed, started, Modes
  <2> QED BY <1>a, <1>b, <2>1, <2>2, <2>3
<1>21. CASE UNCHANGED vars
  <2>1. Shelf'
    BY <1>21 DEF vars, started, files, Shelf
  <2> QED BY <1>21, <1>a, <1>b, <1>c, <2>1
          DEF vars, started, files, SameScreen, SameFiles, SameLoop
<1> QED
  BY <1>1, <1>2, <1>3, <1>4, <1>5, <1>6, <1>7, <1>8, <1>9, <1>10, <1>11, <1>12, <1>13, <1>14,
     <1>15, <1>16, <1>17, <1>18, <1>19, <1>20, <1>21
  DEF Next

(* Of the invariant, what the runs check as TypeOK; within a round the     *)
(* wiki knows all that the files do.                                       *)
LEMMA IInvTypeOK == IInv => TypeOK
<1> SUFFICES ASSUME IInv PROVE TypeOK
  OBVIOUS
<1>1. InRound => pc \in Before \cup Saving \cup After
  BY DEF IInv, Shelf, InRound, Outside
<1>2. ASSUME NEW c \in DOMAIN disk, InRound
      PROVE  c \in DOMAIN wiki /\ disk[c].occurrences <= wiki[c].occurrences
  <2>1. CASE wiki = disk
    <3>1. disk[c].occurrences \in 1..round /\ round \in Nat
      BY DEF IInv, Shelf, Shelved
    <3> QED BY <2>1, <3>1
  <2>2. CASE pc \in Saving
    <3>1. /\ wiki = Resolution(disk, symptoms, diagnosis.cause) /\ round \in Nat
          /\ Shelved(disk, round) /\ symptoms \in Episodes /\ diagnosis.cause \in Causes
      BY <2>2 DEF IInv, Shelf, Diagnosed
    <3>2. LET v == Resolution(disk, symptoms, diagnosis.cause) IN
          /\ Shelved(v, round + 1) /\ DOMAIN v = DOMAIN disk \cup {diagnosis.cause}
          /\ v[diagnosis.cause].tokens = IF diagnosis.cause \in DOMAIN disk
                                         THEN disk[diagnosis.cause].tokens \cup symptoms
                                         ELSE symptoms
          /\ \A d \in DOMAIN disk : d # diagnosis.cause => v[d].tokens = disk[d].tokens
          /\ \A d \in DOMAIN disk : /\ disk[d].tokens \subseteq v[d].tokens
                                    /\ disk[d].occurrences <= v[d].occurrences
      BY <3>1, ResolutionLemma
    <3> QED BY <3>1, <3>2
  <2> QED BY <1>1, <1>2, <2>1, <2>2 DEF IInv, Shelf
<1>3. \A c \in DOMAIN disk : /\ disk[c].tokens \subseteq UNION Episodes
                             /\ disk[c].occurrences \in 1..round
  BY DEF IInv, Shelf, Shelved
<1>4. DOMAIN disk \subseteq Causes
  BY DEF IInv, Shelf, Shelved
<1>5. /\ diagnosis \in [cause : Causes, mode : Modes] /\ heard \in Seq(Causes) /\ Len(heard) <= budget
      /\ diagnosis.mode = "runbook_hit" => \E l \in lessons : l.cause = diagnosis.cause
  BY DEF IInv, Diagnosed
<1>6. Len(ring) <= MaxEvents /\ alias \in 0..round
  BY DEF IInv, Screen
<1> QED BY <1>2, <1>3, <1>4, <1>5, <1>6 DEF TypeOK

(* Files, diagnosis and dashboard hold what the code can put there, and a  *)
(* runbook hit rests on a resolution that was saved: in every round of     *)
(* every process, wherever an earlier one stopped.                         *)
THEOREM TypeCorrect == Spec => []TypeOK
BY IInvInit, IInvNext, IInvTypeOK, PTL DEF Spec
-----------------------------------------------------------------------------
(* Closeness compares fractions.                                           *)
LEMMA TimesMono ==
  ASSUME NEW a \in Nat, NEW b \in Nat, NEW c \in Nat, a <= b
  PROVE  a * c <= b * c
<1>1. PICK d \in Nat : b = a + d
  <2>1. b - a \in Nat /\ b = a + (b - a)
    OBVIOUS
  <2> QED BY <2>1
<1>2. b * c = a * c + d * c /\ d * c \in Nat /\ a * c \in Nat
  BY <1>1
<1> QED BY <1>2

LEMMA TimesCancel ==
  ASSUME NEW a \in Nat, NEW b \in Nat, NEW c \in Nat, c > 0, a * c <= b * c
  PROVE  a <= b
<1>1. ASSUME ~(a <= b) PROVE FALSE
  <2>1. b + 1 \in Nat /\ b + 1 <= a
    BY <1>1
  <2>2. (b + 1) * c <= a * c
    BY <2>1, TimesMono
  <2>3. (b + 1) * c = b * c + c /\ b * c \in Nat /\ a * c \in Nat
    OBVIOUS
  <2> QED BY <2>2, <2>3
<1> QED BY <1>1

LEMMA FractionLemma ==
  ASSUME NEW p \in Nat, NEW q \in Nat, NEW r \in Nat, NEW s \in Nat, NEW t \in Nat,
         NEW u \in Nat, s > 0, p * s <= r * q, r * u <= t * s
  PROVE  p * u <= t * q
<1>1. /\ p * s \in Nat /\ r * q \in Nat /\ r * u \in Nat /\ t * s \in Nat /\ p * u \in Nat
      /\ t * q \in Nat
  OBVIOUS
<1>2. (p * s) * u <= (r * q) * u
  BY <1>1, TimesMono
<1>3. (r * u) * q <= (t * s) * q
  BY <1>1, TimesMono
<1>4. (p * u) * s = (p * s) * u /\ (t * q) * s = (t * s) * q /\ (r * q) * u = (r * u) * q
  OBVIOUS
<1>5. (p * u) * s <= (t * q) * s
  BY <1>2, <1>3, <1>4
<1> QED BY <1>1, <1>5, TimesCancel

(* Of the entries that share enough with a set of symptoms one is closest. *)
LEMMA ClosestLemma ==
  ASSUME NEW w, NEW R, R # {}, IsFiniteSet(R), NEW S, IsFiniteSet(S), S # {},
         \A c \in R : IsFiniteSet(w[c].tokens)
  PROVE  \E m \in R : \A d \in R : AtLeastAsClose(S, w[m].tokens, w[d].tokens)
<1> DEFINE both(c) == Cardinality(S \cap w[c].tokens)
           all(c) == Cardinality(S \cup w[c].tokens)
           Closer(c) == {d \in R : ~AtLeastAsClose(S, w[c].tokens, w[d].tokens)}
           U == {Closer(c) : c \in R}
<1>1. ASSUME NEW c \in R PROVE both(c) \in Nat /\ all(c) \in Nat /\ all(c) > 0
  <2>1. IsFiniteSet(S \cap w[c].tokens) /\ IsFiniteSet(S \cup w[c].tokens)
    <3>1. S \cap w[c].tokens \in SUBSET S
      OBVIOUS
    <3> QED BY <3>1, FS_Subset, FS_Union
  <2>2. S \cup w[c].tokens # {}
    OBVIOUS
  <2> QED BY <2>1, <2>2, FS_CardinalityType, FS_EmptySet
<1>2. \A c, d \in R : AtLeastAsClose(S, w[c].tokens, w[d].tokens)
                        <=> both(d) * all(c) <= both(c) * all(d)
  BY DEF AtLeastAsClose
<1> HIDE DEF both, all
<1>3. U \subseteq FiniteSubsetsOf(R) /\ U # {}
  <2>1. \A V \in SUBSET R : V \in FiniteSubsetsOf(R)
    BY FS_FiniteSubsetsOfFinite
  <2>2. \A c \in R : Closer(c) \in SUBSET R
    OBVIOUS
  <2> QED BY <2>1, <2>2
<1>4. PICK u \in U : \A v \in U : ~(<<v, u>> \in StrictSubsetOrdering(R))
  <2> HIDE DEF U
  <2> QED BY <1>3, FS_StrictSubsetOrderingWellFounded, WFMin
<1>5. PICK m \in R : u = Closer(m)
  OBVIOUS
<1>6. ASSUME NEW d \in R, ~AtLeastAsClose(S, w[m].tokens, w[d].tokens) PROVE FALSE
  <2>0. /\ both(d) \in Nat /\ all(d) \in Nat /\ both(m) \in Nat /\ all(m) \in Nat
        /\ both(d) * all(m) \in Nat /\ both(m) * all(d) \in Nat
    <3>1. both(d) \in Nat /\ all(d) \in Nat /\ both(m) \in Nat /\ all(m) \in Nat
      BY <1>1
    <3> QED BY <3>1
  <2>1. ~(both(d) * all(m) <= both(m) * all(d))
    BY <1>2, <1>6
  <2>2. ASSUME NEW x \in Closer(d) PROVE x \in Closer(m)
    <3>1. x \in R /\ ~(both(x) * all(d) <= both(d) * all(x))
      BY <1>2, <2>2
    <3>2. both(x) \in Nat /\ all(x) \in Nat /\ all(m) > 0
      BY <1>1, <3>1
    <3>3. both(m) * all(d) <= both(d) * all(m)
      BY <2>0, <2>1
    <3>4. ASSUME both(x) * all(m) <= both(m) * all(x) PROVE FALSE
      <4>1. both(x) * all(d) <= both(d) * all(x)
        BY <2>0, <3>2, <3>3, <3>4, FractionLemma
      <4> QED BY <3>1, <4>1
    <3> QED BY <1>2, <3>1, <3>4
  <2>3. d \in Closer(m)
    BY <1>6
  <2>4. d \notin Closer(d)
    <3>1. both(d) * all(d) <= both(d) * all(d)
      <4>1. both(d) * all(d) \in Nat
        BY <2>0
      <4> QED BY <4>1
    <3> QED BY <1>2, <3>1
  <2>5. <<Closer(d), Closer(m)>> \in StrictSubsetOrdering(R)
    BY <2>2, <2>3, <2>4 DEF StrictSubsetOrdering
  <2> QED BY <1>4, <1>5, <2>5
<1> QED BY <1>6

(* A file is half written only while it is written, or once nothing more   *)
(* is done.                                                                *)
Half == torn /\ InRound => pc = "write"

LEMMA HalfNext == Half /\ [Next]_vars => Half'
<1> SUFFICES ASSUME Half, [Next]_vars, torn', InRound' PROVE pc' = "write"
  BY DEF Half
<1> USE DEF InRound, files
<1>1. CASE Perceive \/ Diagnose
  BY <1>1 DEF Half, Perceive, Diagnose, Conclude
<1>2. CASE LoadFails \/ Report \/ Smoke \/ Stop \/ Restart
  BY <1>2 DEF LoadFails, Report, Smoke, Stop, Restart
<1>3. ASSUME NEW role \in Roles, NoAnswer(role) \/ AnswerRaises(role) \/ TimesOut(role)
      PROVE  pc' = "write"
  <2>1. torn' = torn /\ pc \in Roles
    BY <1>3 DEF NoAnswer, AnswerRaises, TimesOut, Conclude
  <2> QED BY <2>1 DEF Half, Roles
<1>8. ASSUME NEW role \in Roles, NEW cause \in Causes, Answer(role, cause)
      PROVE  pc' = "write"
  <2>1. torn' = torn /\ pc \in Roles
    BY <1>8 DEF Roles, Answer, Conclude
  <2> QED BY <2>1 DEF Half, Roles
<1>4. CASE LateEnds
  BY <1>4 DEF Half, LateEnds, Conclude
<1>5. CASE Decide \/ Execute \/ Escalate \/ Resolve \/ Retry \/ Learn
  BY <1>5 DEF Half, Decide, Execute, Escalate, Resolve, Retry, Learn, Step
<1>6. CASE OpenFile \/ WriteFile
  BY <1>6 DEF OpenFile, WriteFile
<1>7. CASE UNCHANGED vars
  BY <1>7 DEF vars, Half
<1> QED BY <1>1, <1>2, <1>3, <1>4, <1>5, <1>6, <1>7, <1>8 DEF Next

LEMMA IInvLearns == IInv /\ Half => LearnsFromSuccess
<1> SUFFICES ASSUME IInv, NEW l \in lessons,
                    ~(l.tokens = {}), ~(Cardinality(l.tokens) < MinTokens),
                    ~(Num * Cardinality(Known(l.cause)) > Den * Cardinality(l.tokens))
             PROVE  Matches(disk, l.tokens) # {}
  BY DEF LearnsFromSuccess, Half
<1> DEFINE S == l.tokens
           own == l.cause
           shares == {c \in DOMAIN disk : SharesEnough(S, disk[c].tokens)}
<1>1. own \in DOMAIN disk /\ S \subseteq disk[own].tokens /\ IsFiniteSet(S) /\ S # {}
  BY EpisodeAssumption DEF IInv, Taught
<1>2. SUFFICES \E m \in shares : /\ Clears(S, disk[m].tokens)
                                 /\ \A d \in shares :
                                      AtLeastAsClose(S, disk[m].tokens, disk[d].tokens)
  BY <1>1 DEF Matches
<1>3. S \cap disk[own].tokens = S /\ S \cup disk[own].tokens = disk[own].tokens
  BY <1>1
<1>4. own \in shares /\ Clears(S, disk[own].tokens)
  <2>1. disk[own].tokens = Known(own) /\ IsFiniteSet(disk[own].tokens)
    BY <1>1 DEF IInv, Taught, Shelf, Shelved
  <2>2. Cardinality(S) \in Nat /\ Cardinality(Known(own)) \in Nat
    BY <1>1, <2>1, FS_CardinalityType
  <2>3. Cardinality(S) >= MinTokens
    BY <2>2, ThresholdAssumption
  <2>4. Num * Cardinality(Known(own)) \in Nat /\ Den * Cardinality(S) \in Nat
    BY <2>2, ThresholdAssumption
  <2>5. Num * Cardinality(Known(own)) <= Den * Cardinality(S)
    BY <2>4
  <2> QED BY <1>1, <1>3, <2>1, <2>3, <2>5 DEF SharesEnough, Clears
<1>5. IsFiniteSet(shares) /\ \A c \in shares : IsFiniteSet(disk[c].tokens)
  <2>1. IsFiniteSet(DOMAIN disk) /\ shares \in SUBSET DOMAIN disk
    BY DEF IInv, Shelf, Shelved
  <2>2. \A c \in DOMAIN disk : IsFiniteSet(disk[c].tokens)
    BY DEF IInv, Shelf, Shelved
  <2> QED BY <2>1, <2>2, FS_Subset
<1>6. ASSUME NEW c \in shares
      PROVE  /\ Cardinality(S \cap disk[c].tokens) \in Nat
             /\ Cardinality(S \cup disk[c].tokens) \in Nat
             /\ S # {} => Cardinality(S \cup disk[c].tokens) > 0
  <2>1. IsFiniteSet(S \cap disk[c].tokens) /\ IsFiniteSet(S \cup disk[c].tokens)
    <3>1. S \cap disk[c].tokens \in SUBSET S
      OBVIOUS
    <3> QED BY <1>1, <1>5, <3>1, FS_Subset, FS_Union
  <2>2. S # {} => S \cup disk[c].tokens # {}
    OBVIOUS
  <2> QED BY <2>1, <2>2, FS_CardinalityType, FS_EmptySet
<1> HIDE DEF shares, own
<1>7. PICK m \in shares : \A d \in shares :
             AtLeastAsClose(S, disk[m].tokens, disk[d].tokens)
  BY <1>1, <1>4, <1>5, ClosestLemma
<1>8. Clears(S, disk[m].tokens)
  <2> DEFINE a(c) == Cardinality(S \cap disk[c].tokens)
             b(c) == Cardinality(S \cup disk[c].tokens)
  <2>1. a(own) * b(m) <= a(m) * b(own)
    BY <1>4, <1>7 DEF AtLeastAsClose
  <2>2. Num * b(own) <= Den * a(own)
    BY <1>4 DEF Clears
  <2>3. a(m) \in Nat /\ b(m) \in Nat /\ a(own) \in Nat /\ b(own) \in Nat /\ b(own) > 0
    BY <1>1, <1>4, <1>6
  <2>4. (Num * b(m) <= Den * a(m)) => Clears(S, disk[m].tokens)
    BY DEF Clears
  <2> HIDE DEF a, b
  <2>5. Num \in Nat /\ Den \in Nat
    BY ThresholdAssumption
  <2>6. Den * a(own) = a(own) * Den /\ a(m) * Den = Den * a(m)
    BY <2>3, <2>5
  <2>7. Num * b(own) <= a(own) * Den
    BY <2>2, <2>6
  <2>8. Num * b(m) <= a(m) * Den
    BY <2>1, <2>3, <2>5, <2>7, FractionLemma
  <2> QED BY <2>4, <2>6, <2>8
<1> QED BY <1>7, <1>8

(* What a resolved incident taught is in the files for good, and found     *)
(* again when its symptoms come back, unless a file was left half written  *)
(* or its cause's entry has outgrown them: for any episodes, thresholds,   *)
(* and rounds and stops.                                                   *)
THEOREM SuccessIsLearned == Spec => []LearnsFromSuccess
<1>1. Init => Half
  BY DEF Init, Half
<1> QED BY <1>1, IInvInit, IInvNext, IInvLearns, HalfNext, PTL DEF Spec
-----------------------------------------------------------------------------
(* What the round has heard when it stands where it stands.                *)
Asked ==
  /\ pc = "diagnose" => heard = << >>
  /\ pc = "proposer" => Len(heard) = 0
  /\ pc = "critic" => Len(heard) = 1
  /\ pc = "arbiter" => Len(heard) = 2
  /\ pc = "late" => Len(heard) < 3
  /\ pc \in Roles \cup {"late"} => diagnosis.mode = "single_pass_fallback"
  /\ DebateIsHeard

LEMMA AskedNext == IInv /\ Asked /\ [Next]_vars => Asked'
<1> SUFFICES ASSUME IInv, Asked, [Next]_vars PROVE Asked'
  OBVIOUS
<1>0. heard \in Seq(Causes) /\ Len(heard) \in Nat
  BY DEF IInv, Diagnosed
(* Steps outside the debate.                                               *)
<1>a. ASSUME UNCHANGED <<heard, diagnosis, symptoms>>,
             pc' \notin {"diagnose", "late"} \cup Roles \/ pc' = pc
      PROVE  Asked'
  BY <1>a DEF Asked, DebateIsHeard, Roles
<1>1. CASE Perceive \/ Restart
  <2>1. /\ heard' = << >> /\ diagnosis' = Undiagnosed
        /\ pc' \in {"diagnose", "idle"}
    BY <1>1 DEF Perceive, Restart
  <2>2. diagnosis'.mode = Blank
    BY <2>1 DEF Undiagnosed
  <2> QED BY <2>1, <2>2 DEF Asked, DebateIsHeard, Roles, Blank
<1>2. CASE Diagnose
  <2>1. heard' = << >> /\ symptoms' = symptoms /\ Len(<< >>) = 0
    BY <1>2 DEF Diagnose, Conclude, Asked, started
  <2>2. CASE pc' = "diagnosed" /\ diagnosis'.mode \in {"runbook_hit", "rule_only"}
    BY <2>1, <2>2 DEF Asked, DebateIsHeard, Roles
  <2>3. CASE /\ pc' = "proposer" /\ diagnosis'.mode = "single_pass_fallback"
             /\ diagnosis'.cause = CauseOf[symptoms]
    BY <2>1, <2>3 DEF Asked, DebateIsHeard, Roles
  <2> QED BY <1>2, <2>2, <2>3 DEF Diagnose, Conclude
<1>3. ASSUME NEW role \in Roles, NoAnswer(role) \/ LateEnds PROVE Asked'
  <2>1. /\ UNCHANGED <<heard, symptoms>> /\ pc' = "diagnosed" /\ pc \in Roles \cup {"late"}
        /\ diagnosis'.cause = diagnosis.cause /\ diagnosis'.mode = "single_pass_fallback"
    BY <1>3 DEF NoAnswer, LateEnds, Conclude, started
  <2> QED BY <2>1 DEF Asked, DebateIsHeard, Roles
<1>4. ASSUME NEW role \in Roles, AnswerRaises(role) \/ TimesOut(role) PROVE Asked'
  <2>1. /\ UNCHANGED <<heard, diagnosis, symptoms>> /\ pc' \in {"dead", "late"} /\ pc \in Roles
    BY <1>4 DEF AnswerRaises, TimesOut, started
  <2> QED BY <1>0, <2>1 DEF Asked, DebateIsHeard, Roles
<1>5. ASSUME NEW role \in Roles, NEW cause \in Causes, Answer(role, cause) PROVE Asked'
  <2>1. heard' = Append(heard, cause) /\ symptoms' = symptoms
    BY <1>5 DEF Answer, Conclude, Roles, started
  <2>2. /\ Len(heard') = Len(heard) + 1 /\ heard'[Len(heard) + 1] = cause
        /\ \A i \in 1..Len(heard) : heard'[i] = heard[i]
    BY <1>0, <2>1
  <2>3. heard' # << >>
    BY <1>0, <2>2
  <2>4. CASE role = "proposer"
    <3>1. /\ Len(heard) = 0 /\ pc' = "critic" /\ diagnosis'.cause = cause
          /\ diagnosis'.mode = "single_pass_fallback"
      BY <1>5, <2>4 DEF Answer, Conclude, Asked
    <3>2. Len(heard') = 1 /\ heard'[1] = cause
      BY <2>2, <3>1
    <3> QED BY <2>1, <2>3, <3>1, <3>2 DEF Asked, DebateIsHeard, Roles
  <2>5. CASE role = "critic"
    <3>1. /\ Len(heard) = 1 /\ pc' = "arbiter" /\ diagnosis'.cause = diagnosis.cause
          /\ diagnosis'.mode = "single_pass_fallback"
          /\ diagnosis.mode = "single_pass_fallback"
      BY <1>5, <2>5 DEF Answer, Conclude, Asked, Roles
    <3>2. Len(heard') = 2 /\ heard'[1] = heard[1] /\ heard # << >>
      BY <2>2, <3>1
    <3>3. diagnosis.cause = heard[1]
      BY <3>1, <3>2 DEF Asked, DebateIsHeard
    <3> QED BY <2>1, <2>3, <3>1, <3>2, <3>3 DEF Asked, DebateIsHeard, Roles
  <2>6. CASE role = "arbiter"
    <3>1. /\ Len(heard) = 2 /\ pc' = "diagnosed" /\ diagnosis'.cause = cause
          /\ diagnosis'.mode = "debate"
      BY <1>5, <2>6 DEF Answer, Conclude, Asked
    <3>2. Len(heard') = 3 /\ heard'[3] = cause
      BY <2>2, <3>1
    <3> QED BY <3>1, <3>2 DEF Asked, DebateIsHeard, Roles
  <2> QED BY <2>4, <2>5, <2>6 DEF Roles
<1>6. CASE Decide \/ Execute \/ Escalate \/ Resolve \/ Retry \/ Learn
  BY <1>6, <1>a DEF Decide, Execute, Escalate, Resolve, Retry, Learn, Step, Roles, started
<1>7. CASE LoadFails \/ OpenFile \/ WriteFile \/ Report \/ Smoke \/ Stop
  BY <1>7, <1>a DEF LoadFails, OpenFile, WriteFile, Report, Smoke, Stop, Roles, started
<1>8. CASE UNCHANGED vars
  BY <1>8, <1>a DEF vars, started
<1> QED BY <1>1, <1>2, <1>3, <1>4, <1>5, <1>6, <1>7, <1>8 DEF Next, Roles

(* A diagnosis says by its mode whom it heard: with any budget, answers    *)
(* that are none, late, or raise, and stops.                               *)
THEOREM DiagnosisIsHonest == Spec => []DebateIsHeard
<1>1. Init => Asked
  <2> SUFFICES ASSUME Init PROVE Asked
    OBVIOUS
  <2>1. pc = "idle" /\ heard = << >> /\ diagnosis.mode = Blank
    BY DEF Init, Undiagnosed
  <2> QED BY <2>1 DEF Asked, DebateIsHeard, Roles, Blank
<1>2. Asked => DebateIsHeard
  BY DEF Asked
<1> QED BY <1>1, <1>2, IInvInit, IInvNext, AskedNext, PTL DEF Spec
-----------------------------------------------------------------------------
(* The dashboard's events are in the order of their rounds; those of round *)
(* r are among its newest n; and there is one of a stage that names the    *)
(* incident or the episode.                                                *)
Sorted(r) == /\ \A i \in DOMAIN ring : ring[i].of <= r
             /\ \A i, j \in DOMAIN ring : i < j => ring[i].of <= ring[j].of
Recent(r, n) == \A i \in DOMAIN ring : ring[i].of = r => i > Len(ring) - n
Has(r, stage) ==
  \E i \in DOMAIN ring : ring[i].of = r /\ ring[i].stage = stage /\ ring[i].names # "none"

(* Where an event of the ring was before a publication.                    *)
LEMMA ShowAt ==
  ASSUME Screen, NEW s \in Seq(Events), Show(s)
  PROVE  \E d \in 0..(Len(ring) + Len(s)) :
           /\ Len(ring') = Len(ring) + Len(s) - d
           /\ d = 0 \/ Len(ring') = MaxEvents
           /\ \A i \in 1..Len(ring') :
                ring'[i] = IF i + d <= Len(ring) THEN ring[i + d] ELSE s[i + d - Len(ring)]
<1> DEFINE t == ring \o s
<1>1. ring \in Seq(Events) /\ Len(ring) \in Nat /\ Len(s) \in Nat /\ MaxEvents \in Nat
  BY Limits DEF Screen
<1>2. t \in Seq(Events) /\ Len(t) = Len(ring) + Len(s)
  BY <1>1
<1>3. \A i \in 1..Len(t) : t[i] = IF i <= Len(ring) THEN ring[i] ELSE s[i - Len(ring)]
  BY <1>1
<1>4. ring' = Newest(t)
  BY DEF Show
<1> HIDE DEF t
<1>5. CASE Len(t) <= MaxEvents
  <2>1. ring' = t
    BY <1>4, <1>5 DEF Newest
  <2>2. 0 \in 0..(Len(ring) + Len(s)) /\ Len(ring') = Len(ring) + Len(s) - 0
    BY <1>1, <1>2, <2>1
  <2>3. \A i \in 1..Len(ring') :
          ring'[i] = IF i + 0 <= Len(ring) THEN ring[i + 0] ELSE s[i + 0 - Len(ring)]
    BY <1>1, <1>2, <1>3, <2>1
  <2> QED BY <2>2, <2>3
<1>6. CASE ~(Len(t) <= MaxEvents)
  <2> DEFINE d == Len(t) - MaxEvents
  <2>1. d \in 0..(Len(ring) + Len(s)) /\ d + 1 \in 1..(Len(t) + 1) /\ d + MaxEvents = Len(t)
    BY <1>1, <1>2, <1>6
  <2>2. ring' = SubSeq(t, d + 1, Len(t))
    BY <1>4, <1>6 DEF Newest
  <2> HIDE DEF d
  <2>3. Len(ring') = MaxEvents
    BY <1>1, <1>2, <2>1, <2>2
  <2>4. \A i \in 1..MaxEvents : ring'[i] = t[i + d]
    <3> SUFFICES ASSUME NEW i \in 1..MaxEvents PROVE ring'[i] = t[i + d]
      OBVIOUS
    <3>1. i \in 1..(Len(t) - (d + 1) + 1) /\ d + 1 + i - 1 = i + d
      BY <1>1, <1>2, <2>1
    <3> QED BY <1>1, <1>2, <2>1, <2>2, <3>1
  <2>5. \A i \in 1..MaxEvents : i + d \in 1..Len(t)
    BY <1>1, <1>2, <2>1
  <2>6. \A i \in 1..Len(ring') :
          ring'[i] = IF i + d <= Len(ring) THEN ring[i + d] ELSE s[i + d - Len(ring)]
    <3> SUFFICES ASSUME NEW i \in 1..MaxEvents
                 PROVE  ring'[i] = IF i + d <= Len(ring) THEN ring[i + d]
                                   ELSE s[i + d - Len(ring)]
      BY <2>3
    <3>1. PICK k \in 1..Len(t) : k = i + d
      BY <2>5
    <3>2. ring'[i] = t[k]
      BY <2>4, <3>1
    <3>3. t[k] = IF k <= Len(ring) THEN ring[k] ELSE s[k - Len(ring)]
      BY <1>3
    <3> QED BY <1>1, <2>1, <3>1, <3>2, <3>3
  <2>7. Len(ring') = Len(ring) + Len(s) - d
    BY <1>1, <1>2, <2>1, <2>3
  <2> QED BY <2>1, <2>3, <2>6, <2>7
<1> QED BY <1>5, <1>6

(* A publication for round r keeps the order, and drops nothing of the     *)
(* round while what it published fits.                                     *)
LEMMA TrailLemma ==
  ASSUME Screen, NEW s \in Seq(Events), Show(s), NEW r \in Nat, NEW n \in Nat,
         \A i \in DOMAIN s : s[i].of = r, Sorted(r), Recent(r, n), n + Len(s) <= MaxEvents
  PROVE  /\ Sorted(r)' /\ Recent(r, n + Len(s))'
         /\ \A stage \in Stages : Has(r, stage) => Has(r, stage)'
         /\ \A i \in DOMAIN s : s[i].names # "none" => Has(r, s[i].stage)'
         /\ \A i \in DOMAIN ring' : \/ \E j \in DOMAIN ring : ring'[i] = ring[j]
                                    \/ \E j \in DOMAIN s : ring'[i] = s[j]
<1>1. /\ Len(ring) \in Nat /\ Len(s) \in Nat /\ MaxEvents \in Nat
      /\ DOMAIN ring = 1..Len(ring) /\ DOMAIN s = 1..Len(s)
  BY Limits DEF Screen
<1>2. ring' \in Seq(Events) /\ Len(ring') \in Nat /\ DOMAIN ring' = 1..Len(ring')
  <2>1. ring \o s \in Seq(Events)
    BY DEF Screen
  <2>2. ring' \in Seq(Events)
    BY <2>1, NewestLemma DEF Show
  <2> QED BY <2>2
<1>3. PICK d \in 0..(Len(ring) + Len(s)) :
        /\ Len(ring') = Len(ring) + Len(s) - d
        /\ d = 0 \/ Len(ring') = MaxEvents
        /\ \A i \in 1..Len(ring') :
             ring'[i] = IF i + d <= Len(ring) THEN ring[i + d] ELSE s[i + d - Len(ring)]
  BY ShowAt
<1>4. d \in Nat
  BY <1>1
<1>5. ASSUME NEW i \in 1..Len(ring')
      PROVE  \/ /\ i + d \in DOMAIN ring /\ ring'[i] = ring[i + d]
             \/ /\ i + d > Len(ring) /\ i + d - Len(ring) \in DOMAIN s
                /\ ring'[i] = s[i + d - Len(ring)] /\ ring'[i].of = r
  <2>1. CASE i + d <= Len(ring)
    BY <1>1, <1>2, <1>3, <1>4, <2>1, SMTT(30)
  <2>2. CASE ~(i + d <= Len(ring))
    <3>1. i + d > Len(ring) /\ i + d - Len(ring) \in DOMAIN s
      BY <1>1, <1>2, <1>3, <1>4, <2>2
    <3>2. ring'[i] = s[i + d - Len(ring)]
      BY <1>3, <2>2
    <3> QED BY <3>1, <3>2
  <2> QED BY <2>1, <2>2
<1>6. \A i \in DOMAIN ring : ring[i].of \in Nat
  <2>1. \A i \in DOMAIN ring : ring[i] \in Events
    BY DEF Screen
  <2> QED BY <2>1 DEF Events
<1>7. Sorted(r)'
  <2>1. \A i \in DOMAIN ring' : ring'[i].of \in Nat /\ ring'[i].of <= r
    BY <1>2, <1>5, <1>6 DEF Sorted
  <2>2. ASSUME NEW i \in DOMAIN ring', NEW j \in DOMAIN ring', i < j
        PROVE  ring'[i].of <= ring'[j].of
    <3>1. CASE j + d \in DOMAIN ring /\ ring'[j] = ring[j + d]
      <4>1. i + d < j + d /\ i + d \in DOMAIN ring
        BY <1>1, <1>2, <1>4, <2>2, <3>1
      <4>2. ring'[i] = ring[i + d]
        <5>1. ~(i + d > Len(ring))
          BY <1>1, <4>1
        <5> QED BY <1>2, <1>5, <5>1
      <4> QED BY <3>1, <4>1, <4>2 DEF Sorted
    <3>2. CASE ring'[j].of = r
      BY <2>1, <3>2
    <3> QED BY <1>2, <1>5, <3>1, <3>2
  <2> QED BY <2>1, <2>2 DEF Sorted
<1>8. Recent(r, n + Len(s))'
  <2> SUFFICES ASSUME NEW i \in DOMAIN ring', ring'[i].of = r
               PROVE  i > Len(ring') - (n + Len(s))
    BY DEF Recent
  <2>1. i \in Nat
    BY <1>2
  <2>2. CASE i + d \in DOMAIN ring /\ ring'[i] = ring[i + d]
    <3>1. i + d > Len(ring) - n
      BY <2>2 DEF Recent
    <3> QED BY <1>1, <1>3, <1>4, <2>1, <3>1, SMTT(30)
  <2>3. CASE i + d > Len(ring)
    BY <1>1, <1>3, <1>4, <2>1, <2>3
  <2> QED BY <1>2, <1>5, <2>2, <2>3
<1>9. ASSUME NEW stage \in Stages, Has(r, stage) PROVE Has(r, stage)'
  <2>1. PICK k \in DOMAIN ring : ring[k].of = r /\ ring[k].stage = stage /\ ring[k].names # "none"
    BY <1>9 DEF Has
  <2>2. k > Len(ring) - n
    BY <2>1 DEF Recent
  <2>3. k - d \in 1..Len(ring') /\ k - d + d = k /\ k <= Len(ring)
    BY <1>1, <1>2, <1>3, <1>4, <2>2, SMTT(30)
  <2>4. ring'[k - d] = ring[k]
    BY <1>3, <2>3
  <2> QED BY <1>2, <2>1, <2>3, <2>4 DEF Has
<1>10. ASSUME NEW i \in DOMAIN s, s[i].names # "none" PROVE Has(r, s[i].stage)'
  <2> DEFINE k == Len(ring) + i - d
  <2>0. i \in Nat /\ i >= 1 /\ i <= Len(s)
    BY <1>1
  <2>a. Len(ring) - d >= 0
    BY <1>1, <1>3, <1>4
  <2>b. Len(ring') = Len(ring) + Len(s) - d
    BY <1>3
  <2>c. k \in 1..Len(ring')
    BY <1>1, <1>2, <1>4, <2>0, <2>a, <2>b, SMTT(30)
  <2>1. /\ k \in 1..Len(ring') /\ k + d = Len(ring) + i /\ ~(k + d <= Len(ring))
        /\ k + d - Len(ring) = i
    BY <1>1, <1>4, <2>0, <2>c, SMTT(30)
  <2> HIDE DEF k
  <2>2. ring'[k] = s[i]
    BY <1>3, <2>1
  <2> QED BY <1>2, <1>10, <2>1, <2>2 DEF Has
<1>11. ASSUME NEW i \in DOMAIN ring'
       PROVE  \/ \E j \in DOMAIN ring : ring'[i] = ring[j]
              \/ \E j \in DOMAIN s : ring'[i] = s[j]
  BY <1>2, <1>5
<1> QED BY <1>7, <1>8, <1>9, <1>10, <1>11

(* What round r has published is within the newest n events, and has told  *)
(* the stages; that of the current round.                                  *)
Since(r, n, stages) == Recent(r, n) /\ \A stage \in stages : Has(r, stage)
Upto(n, stages) == Since(round, n, stages)

Decided == {"perceive", "diagnose", "incident", "decide"}
Acted == Decided \cup {"shield"}
Over == pc = "idle" /\ fate # Blank

NoResult == \A i \in DOMAIN ring : ring[i].of = round => ring[i].stage # "result"
Truthful == \A i \in DOMAIN ring :
              ring[i].of = round /\ ring[i].stage = "result"
                => ring[i].state = IF fate = "ESCALATED" THEN Blank ELSE fate

Trail ==
  /\ Sorted(round)
  /\ pc \in {"diagnose", "late", "diagnosed"} \cup Roles => Upto(1, {"perceive"})
  /\ pc = "execute" => Upto(5, Decided)
  /\ pc = "verify" => Upto(10, Acted)
  /\ pc \in Saving \cup {"learn"} => Upto(11, Acted)
  /\ pc = "report" => Upto(13, Acted)
  /\ pc \in Before \cup Saving \cup After => NoResult
  /\ Over => Upto(17, Acted \cup {"result"}) /\ Truthful
  /\ (pc \in {"execute", "verify", "learn", "report"} \cup Saving \/ Over) => alias = round

(* Round r publishes s, and so goes on from telling S to telling T.        *)
Made(s, r) == s \in Seq(Events) /\ Show(s) /\ round' = r /\ \A i \in DOMAIN s : s[i].of = r
Within(s) == Made(s, round)
Adds(s, S, T) ==
  /\ S \subseteq Stages /\ T \subseteq Stages
  /\ \A stage \in T : \/ stage \in S
                      \/ \E i \in DOMAIN s : s[i].stage = stage /\ s[i].names # "none"

LEMMA RoundLemma ==
  ASSUME IInv, 17 <= MaxEvents, NEW s, NEW r \in Nat, Made(s, r), NEW n \in Nat, NEW m \in Nat,
         n + Len(s) <= m, m <= 17, Sorted(r), NEW S, Since(r, n, S), NEW T, Adds(s, S, T)
  PROVE  /\ Sorted(round)' /\ Upto(m, T)'
         /\ \A i \in DOMAIN ring' : \/ \E j \in DOMAIN ring : ring'[i] = ring[j]
                                    \/ \E j \in DOMAIN s : ring'[i] = s[j]
<1>0. /\ s \in Seq(Events) /\ Show(s) /\ round' = r /\ \A i \in DOMAIN s : s[i].of = r
      /\ Recent(r, n) /\ \A stage \in S : Has(r, stage)
  BY DEF Made, Since
<1>1. Screen /\ Len(s) \in Nat /\ MaxEvents \in Nat /\ n + Len(s) <= MaxEvents
  BY <1>0, Limits DEF IInv
<1>2. /\ Sorted(r)' /\ Recent(r, n + Len(s))'
      /\ \A stage \in Stages : Has(r, stage) => Has(r, stage)'
      /\ \A i \in DOMAIN s : s[i].names # "none" => Has(r, s[i].stage)'
      /\ \A i \in DOMAIN ring' : \/ \E j \in DOMAIN ring : ring'[i] = ring[j]
                                 \/ \E j \in DOMAIN s : ring'[i] = s[j]
  BY <1>0, <1>1, TrailLemma
<1>3. Sorted(round)'
  BY <1>0, <1>2 DEF Sorted
<1>4. Recent(round, m)'
  <2>1. ring' \in Seq(Events)
    BY <1>0, <1>1, ShowLemma DEF IInv, Shelf
  <2>2. Len(ring') \in Nat /\ DOMAIN ring' = 1..Len(ring')
    BY <2>1
  <2>3. \A i \in DOMAIN ring' : ring'[i].of = r => i > Len(ring') - (n + Len(s))
    BY <1>2 DEF Recent
  <2>4. \A i \in 1..Len(ring') : i > Len(ring') - (n + Len(s)) => i > Len(ring') - m
    BY <1>1, <2>2
  <2> QED BY <1>0, <2>2, <2>3, <2>4 DEF Recent
<1>5. ASSUME NEW stage \in T PROVE Has(round, stage)'
  <2>1. Has(r, stage)'
    BY <1>0, <1>2 DEF Adds
  <2> QED BY <1>0, <2>1 DEF Has
<1> QED BY <1>2, <1>3, <1>4, <1>5 DEF Upto, Since

LEMMA TrailInit == Init => Trail
<1> SUFFICES ASSUME Init PROVE Trail
  OBVIOUS
<1>1. pc = "idle" /\ fate = Blank /\ DOMAIN ring = {}
  BY DEF Init
<1>2. Sorted(round)
  BY <1>1 DEF Sorted
<1> QED BY <1>1, <1>2 DEF Trail, Over, Before, Saving, After, Roles

LEMMA WithinLemma ==
  ASSUME IInv, Trail, 17 <= MaxEvents, NEW s, Within(s), NEW n \in Nat, NEW m \in Nat,
         n + Len(s) <= m, m <= 17, NEW S, Upto(n, S), NEW T, Adds(s, S, T)
  PROVE  /\ Sorted(round)' /\ Upto(m, T)'
         /\ (NoResult /\ \A i \in DOMAIN s : s[i].stage # "result") => NoResult'
         /\ (alias = round \/ \E i \in DOMAIN s : s[i].names = "incident") => alias' = round'
         /\ \A i \in DOMAIN ring' : \/ \E j \in DOMAIN ring : ring'[i] = ring[j]
                                    \/ \E j \in DOMAIN s : ring'[i] = s[j]
<1>1. PICK r \in Nat : r = round
  BY DEF IInv, Shelf
<1>2. Sorted(r) /\ Since(r, n, S) /\ Made(s, r)
  BY <1>1 DEF Trail, Upto, Within
<1>3. round' = r /\ s \in Seq(Events) /\ Show(s) /\ \A i \in DOMAIN s : s[i].of = r
  BY <1>2 DEF Made
<1>4. /\ Sorted(round)' /\ Upto(m, T)'
      /\ \A i \in DOMAIN ring' : \/ \E j \in DOMAIN ring : ring'[i] = ring[j]
                                 \/ \E j \in DOMAIN s : ring'[i] = s[j]
  BY <1>2, RoundLemma
<1>5. (NoResult /\ \A i \in DOMAIN s : s[i].stage # "result") => NoResult'
  BY <1>1, <1>3, <1>4 DEF NoResult
<1>6. (alias = round \/ \E i \in DOMAIN s : s[i].names = "incident") => alias' = round'
  BY <1>1, <1>3 DEF Show
<1> QED BY <1>4, <1>5, <1>6

(* Steps that publish nothing keep what was published.                     *)
LEMMA QuietTrail ==
  ASSUME UNCHANGED <<round, ring, alias, fate>>
  PROVE  /\ Sorted(round)' <=> Sorted(round)
         /\ \A n, S : Upto(n, S)' <=> Upto(n, S)
         /\ NoResult' <=> NoResult
         /\ Truthful' <=> Truthful
         /\ alias' = alias /\ round' = round /\ fate' = fate
BY DEF Sorted, Upto, Since, Recent, Has, NoResult, Truthful

LEMMA TrailNext == 17 <= MaxEvents /\ IInv /\ Trail /\ [Next]_vars => Trail'
<1> SUFFICES ASSUME 17 <= MaxEvents, IInv, Trail, [Next]_vars PROVE Trail'
  OBVIOUS
<1> DEFINE Quiet == UNCHANGED <<round, ring, alias, fate>>
<1>0. round \in Nat
  BY DEF IInv, Shelf
<1>a. /\ {"perceive"} \in SUBSET Stages /\ Decided \in SUBSET Stages /\ Acted \in SUBSET Stages
      /\ Acted \cup {"result"} \in SUBSET Stages
  BY DEF Stages, Decided, Acted
<1>b. \A stage \in Stages :
        /\ Keyed(stage) \in Events /\ Named(stage) \in Events /\ Bare(stage) \in Events
        /\ Keyed(stage).of = round /\ Named(stage).of = round /\ Bare(stage).of = round
        /\ Keyed(stage).stage = stage /\ Named(stage).stage = stage /\ Bare(stage).stage = stage
        /\ Keyed(stage).names = "key" /\ Named(stage).names = "incident"
  BY <1>0, EventTypes DEF Keyed, Named, Bare
<1>1. CASE Perceive
  <2> DEFINE ep == [Keyed("perceive") EXCEPT !.of = round + 1]
  <2>1. Show(<<ep>>) /\ pc' = "diagnose" /\ round' = round + 1 /\ fate' = Blank
    BY <1>1 DEF Perceive, Publish
  <2>2. PICK r \in Nat : r = round + 1
    BY <1>0
  <2>3. ep = [stage |-> "perceive", names |-> "key", of |-> r, state |-> Blank]
    BY <2>2 DEF Keyed
  <2> HIDE DEF ep
  <2>4. ep \in Events /\ ep.of = r /\ ep.stage = "perceive" /\ ep.names = "key"
    BY <2>3 DEF Events, Stages, Fates
  <2> DEFINE s == <<ep>>
  <2>5. s \in Seq(Events) /\ Len(s) = 1 /\ DOMAIN s = {1} /\ s[1] = ep
    BY <2>4
  <2>6. \A i \in DOMAIN ring : ring[i].of \in Nat /\ ring[i].of <= round
    <3>1. \A i \in DOMAIN ring : ring[i] \in Events
      BY DEF IInv, Screen
    <3> QED BY <3>1 DEF Events, Trail, Sorted
  <2>7. Sorted(r) /\ Since(r, 0, {})
    BY <1>0, <2>2, <2>6 DEF Trail, Sorted, Recent, Since
  <2>8. Made(s, r) /\ Adds(s, {}, {"perceive"})
    BY <1>a, <2>1, <2>2, <2>4, <2>5 DEF Made, Adds
  <2> HIDE DEF s
  <2>9. /\ Sorted(round)' /\ Upto(1, {"perceive"})'
        /\ \A i \in DOMAIN ring' : \/ \E j \in DOMAIN ring : ring'[i] = ring[j]
                                   \/ \E j \in DOMAIN s : ring'[i] = s[j]
    <3>1. 0 \in Nat /\ 1 \in Nat /\ 0 + Len(s) <= 1 /\ 1 <= 17
      BY <2>5
    <3> QED BY <2>7, <2>8, <3>1, RoundLemma
  <2>10. NoResult'
    <3>1. ASSUME NEW i \in DOMAIN ring', ring'[i].of = r PROVE ring'[i].stage # "result"
      BY <1>0, <2>2, <2>4, <2>5, <2>6, <2>9, <3>1
    <3> QED BY <2>1, <2>2, <3>1 DEF NoResult
  <2> QED BY <2>1, <2>9, <2>10 DEF Trail, Over, Before, Saving, After, Roles
<1>2. ASSUME Quiet, pc' \in {"dead", "served"} PROVE Trail'
  BY <1>2, QuietTrail DEF Trail, Over, Before, Saving, After, Roles
<1>3. CASE LoadFails
  BY <1>2, <1>3 DEF LoadFails
<1>4. CASE Diagnose
  <2>1. Quiet /\ pc = "diagnose" /\ pc' \in {"diagnosed", "proposer"}
    BY <1>4 DEF Diagnose, Conclude
  <2> QED BY <2>1, QuietTrail DEF Trail, Over, Before, Saving, After, Roles
<1>5. ASSUME NEW role \in Roles, NoAnswer(role) PROVE Trail'
  <2>1. Quiet /\ pc = role /\ pc' = "diagnosed"
    BY <1>5 DEF NoAnswer, Conclude
  <2> QED BY <1>5, <2>1, QuietTrail DEF Trail, Over, Before, Saving, After, Roles
<1>21. ASSUME NEW role \in Roles, TimesOut(role) PROVE Trail'
  <2>1. Quiet /\ pc = role /\ pc' = "late"
    BY <1>21 DEF TimesOut
  <2> QED BY <1>21, <2>1, QuietTrail DEF Trail, Over, Before, Saving, After, Roles
<1>22. CASE LateEnds
  <2>1. Quiet /\ pc = "late" /\ pc' = "diagnosed"
    BY <1>22 DEF LateEnds, Conclude
  <2> QED BY <2>1, QuietTrail DEF Trail, Over, Before, Saving, After, Roles
<1>6. ASSUME NEW role \in Roles, NEW cause \in Causes, Answer(role, cause) PROVE Trail'
  <2>1. Quiet /\ pc = role /\ pc' \in {"critic", "arbiter", "diagnosed"}
    <3>1. CASE role = "proposer"
      BY <1>6, <3>1 DEF Answer, Conclude
    <3>2. CASE role = "critic"
      BY <1>6, <3>2 DEF Answer, Conclude
    <3>3. CASE role = "arbiter"
      BY <1>6, <3>3 DEF Answer, Conclude
    <3> QED BY <1>6, <3>1, <3>2, <3>3 DEF Roles
  <2> QED BY <1>6, <2>1, QuietTrail DEF Trail, Over, Before, Saving, After, Roles
<1>7. CASE Decide
  <2> DEFINE s == <<Keyed("diagnose"), Named("incident"), Named("decide"), Named("incident")>>
  <2>1. Step("diagnosed", "execute", s) /\ fate' = fate
    BY <1>7 DEF Decide
  <2>2. /\ Within(s) /\ Len(s) = 4
        /\ s[1].stage = "diagnose" /\ s[2].stage = "incident" /\ s[3].stage = "decide"
        /\ s[4].stage = "incident" /\ s[1].names = "key" /\ s[2].names = "incident"
        /\ s[3].names = "incident" /\ s[4].names = "incident"
        /\ DOMAIN s = {1, 2, 3, 4}
    BY <1>b, <2>1 DEF Step, Publish, Stages, Within, Made
  <2> HIDE DEF s
  <2>3. Upto(1, {"perceive"}) /\ NoResult
    BY <2>1 DEF Trail, Step, Before
  <2>4. Adds(s, {"perceive"}, Decided)
    BY <1>a, <2>2 DEF Adds, Decided
  <2>5. (\A i \in DOMAIN s : s[i].stage # "result") /\ \E i \in DOMAIN s : s[i].names = "incident"
    BY <2>2
  <2>6. Sorted(round)' /\ Upto(5, Decided)' /\ NoResult' /\ alias' = round'
    <3>1. 1 \in Nat /\ 5 \in Nat /\ 1 + Len(s) <= 5 /\ 5 <= 17
      BY <2>2
    <3>2. Upto(1, {"perceive"}) /\ Within(s)
      BY <2>2, <2>3
    <3>4. /\ Sorted(round)' /\ Upto(5, Decided)'
          /\ (NoResult /\ \A i \in DOMAIN s : s[i].stage # "result") => NoResult'
          /\ (alias = round \/ \E i \in DOMAIN s : s[i].names = "incident") => alias' = round'
      BY <2>4, <3>1, <3>2, WithinLemma
    <3> QED BY <2>3, <2>5, <3>4
  <2>7. pc' = "execute"
    BY <2>1 DEF Step
  <2> QED BY <2>6, <2>7 DEF Trail, Over, Before, Saving, After, Roles
<1>8. CASE Execute
  <2> DEFINE s == <<Named("shield"), Bare("act"), Named("status"), Named("incident"),
                    Named("incident")>>
  <2>1. Step("execute", "verify", s) /\ fate' = fate
    BY <1>8 DEF Execute
  <2>2. /\ Within(s) /\ Len(s) = 5
        /\ s[1].stage = "shield" /\ s[2].stage = "act" /\ s[3].stage = "status"
        /\ s[4].stage = "incident" /\ s[5].stage = "incident" /\ s[1].names = "incident"
        /\ DOMAIN s = {1, 2, 3, 4, 5}
    BY <1>b, <2>1 DEF Step, Publish, Stages, Within, Made
  <2> HIDE DEF s
  <2>3. Upto(5, Decided) /\ NoResult /\ alias = round
    BY <2>1 DEF Trail, Step, Before
  <2>4. Adds(s, Decided, Acted)
    BY <1>a, <2>2 DEF Adds, Acted
  <2>5. \A i \in DOMAIN s : s[i].stage # "result"
    BY <2>2
  <2>6. Sorted(round)' /\ Upto(10, Acted)' /\ NoResult' /\ alias' = round'
    <3>1. 5 \in Nat /\ 10 \in Nat /\ 5 + Len(s) <= 10 /\ 10 <= 17
      BY <2>2
    <3>2. /\ Sorted(round)' /\ Upto(10, Acted)'
          /\ (NoResult /\ \A i \in DOMAIN s : s[i].stage # "result") => NoResult'
          /\ (alias = round \/ \E i \in DOMAIN s : s[i].names = "incident") => alias' = round'
      BY <2>2, <2>3, <2>4, <3>1, WithinLemma
    <3> QED BY <2>3, <2>5, <3>2
  <2>7. pc' = "verify"
    BY <2>1 DEF Step
  <2> QED BY <2>6, <2>7 DEF Trail, Over, Before, Saving, After, Roles
<1>9. CASE Escalate
  <2> DEFINE s == <<Named("shield"), Named("status"), Named("incident")>>
  <2>1. Step("execute", "report", s)
    BY <1>9 DEF Escalate
  <2>2. /\ Within(s) /\ Len(s) = 3
        /\ s[1].stage = "shield" /\ s[2].stage = "status" /\ s[3].stage = "incident"
        /\ s[1].names = "incident" /\ DOMAIN s = {1, 2, 3}
    BY <1>b, <2>1 DEF Step, Publish, Stages, Within, Made
  <2> HIDE DEF s
  <2>3. Upto(5, Decided) /\ NoResult /\ alias = round
    BY <2>1 DEF Trail, Step, Before
  <2>4. Adds(s, Decided, Acted)
    BY <1>a, <2>2 DEF Adds, Acted
  <2>5. \A i \in DOMAIN s : s[i].stage # "result"
    BY <2>2
  <2>6. Sorted(round)' /\ Upto(13, Acted)' /\ NoResult' /\ alias' = round'
    <3>1. 5 \in Nat /\ 13 \in Nat /\ 5 + Len(s) <= 13 /\ 13 <= 17
      BY <2>2
    <3>2. /\ Sorted(round)' /\ Upto(13, Acted)'
          /\ (NoResult /\ \A i \in DOMAIN s : s[i].stage # "result") => NoResult'
          /\ (alias = round \/ \E i \in DOMAIN s : s[i].names = "incident") => alias' = round'
      BY <2>2, <2>3, <2>4, <3>1, WithinLemma
    <3> QED BY <2>3, <2>5, <3>2
  <2>7. pc' = "report"
    BY <2>1 DEF Step
  <2> QED BY <2>6, <2>7 DEF Trail, Over, Before, Saving, After, Roles
<1>10. CASE Resolve
  <2> DEFINE s == <<Named("verify")>>
  <2>1. Step("verify", "save", s)
    BY <1>10 DEF Resolve
  <2>2. Within(s) /\ Len(s) = 1 /\ s[1].stage = "verify" /\ DOMAIN s = {1}
    BY <1>b, <2>1 DEF Step, Publish, Stages, Within, Made
  <2> HIDE DEF s
  <2>3. Upto(10, Acted) /\ NoResult /\ alias = round
    BY <2>1 DEF Trail, Step, Before
  <2>4. \A i \in DOMAIN s : s[i].stage # "result"
    BY <2>2
  <2>5. Sorted(round)' /\ Upto(11, Acted)' /\ NoResult' /\ alias' = round'
    <3>1. 10 \in Nat /\ 11 \in Nat /\ 10 + Len(s) <= 11 /\ 11 <= 17 /\ Adds(s, Acted, Acted)
      BY <1>a, <2>2 DEF Adds
    <3>2. /\ Sorted(round)' /\ Upto(11, Acted)'
          /\ (NoResult /\ \A i \in DOMAIN s : s[i].stage # "result") => NoResult'
          /\ (alias = round \/ \E i \in DOMAIN s : s[i].names = "incident") => alias' = round'
      BY <2>2, <2>3, <3>1, WithinLemma
    <3> QED BY <2>3, <2>4, <3>2
  <2>6. pc' = "save"
    BY <2>1 DEF Step
  <2> QED BY <2>5, <2>6 DEF Trail, Over, Before, Saving, After, Roles
<1>11. CASE Retry
  <2> DEFINE s == <<Named("verify"), Named("incident")>>
  <2>1. Step("verify", "report", s)
    BY <1>11 DEF Retry
  <2>2. /\ Within(s) /\ Len(s) = 2 /\ s[1].stage = "verify" /\ s[2].stage = "incident"
        /\ DOMAIN s = {1, 2}
    BY <1>b, <2>1 DEF Step, Publish, Stages, Within, Made
  <2> HIDE DEF s
  <2>3. Upto(10, Acted) /\ NoResult /\ alias = round
    BY <2>1 DEF Trail, Step, Before
  <2>4. \A i \in DOMAIN s : s[i].stage # "result"
    BY <2>2
  <2>5. Sorted(round)' /\ Upto(13, Acted)' /\ NoResult' /\ alias' = round'
    <3>1. 10 \in Nat /\ 13 \in Nat /\ 10 + Len(s) <= 13 /\ 13 <= 17 /\ Adds(s, Acted, Acted)
      BY <1>a, <2>2 DEF Adds
    <3>2. /\ Sorted(round)' /\ Upto(13, Acted)'
          /\ (NoResult /\ \A i \in DOMAIN s : s[i].stage # "result") => NoResult'
          /\ (alias = round \/ \E i \in DOMAIN s : s[i].names = "incident") => alias' = round'
      BY <2>2, <2>3, <3>1, WithinLemma
    <3> QED BY <2>3, <2>4, <3>2
  <2>6. pc' = "report"
    BY <2>1 DEF Step
  <2> QED BY <2>5, <2>6 DEF Trail, Over, Before, Saving, After, Roles
<1>12. CASE OpenFile
  <2>1. Quiet /\ pc = "save" /\ pc' = "write"
    BY <1>12 DEF OpenFile
  <2> QED BY <2>1, QuietTrail DEF Trail, Over, Before, Saving, After, Roles
<1>13. CASE WriteFile
  <2>1. Quiet /\ pc = "write" /\ pc' = "learn"
    BY <1>13 DEF WriteFile
  <2> QED BY <2>1, QuietTrail DEF Trail, Over, Before, Saving, After, Roles
<1>14. CASE Learn
  <2> DEFINE s == <<Named("learn"), Named("incident")>>
  <2>1. Step("learn", "report", s)
    BY <1>14 DEF Learn
  <2>2. /\ Within(s) /\ Len(s) = 2 /\ s[1].stage = "learn" /\ s[2].stage = "incident"
        /\ DOMAIN s = {1, 2}
    BY <1>b, <2>1 DEF Step, Publish, Stages, Within, Made
  <2> HIDE DEF s
  <2>3. Upto(11, Acted) /\ NoResult /\ alias = round
    BY <2>1 DEF Trail, Step, After
  <2>4. \A i \in DOMAIN s : s[i].stage # "result"
    BY <2>2
  <2>5. Sorted(round)' /\ Upto(13, Acted)' /\ NoResult' /\ alias' = round'
    <3>1. 11 \in Nat /\ 13 \in Nat /\ 11 + Len(s) <= 13 /\ 13 <= 17 /\ Adds(s, Acted, Acted)
      BY <1>a, <2>2 DEF Adds
    <3>2. /\ Sorted(round)' /\ Upto(13, Acted)'
          /\ (NoResult /\ \A i \in DOMAIN s : s[i].stage # "result") => NoResult'
          /\ (alias = round \/ \E i \in DOMAIN s : s[i].names = "incident") => alias' = round'
      BY <2>2, <2>3, <3>1, WithinLemma
    <3> QED BY <2>3, <2>4, <3>2
  <2>6. pc' = "report"
    BY <2>1 DEF Step
  <2> QED BY <2>5, <2>6 DEF Trail, Over, Before, Saving, After, Roles
<1>15. CASE Report
  <2> DEFINE state == IF fate # "ESCALATED" THEN fate ELSE Blank
             result == [Named("result") EXCEPT !.state = state]
             s == <<result, Named("shield"), Named("status"), Named("demo")>>
  <2>1. pc = "report" /\ pc' = "idle" /\ Show(s) /\ round' = round /\ fate' = fate
    BY <1>15 DEF Report
  <2>2. state \in Fates
    BY DEF IInv, Screen, Fates
  <2> HIDE DEF state
  <2>3. /\ result \in Events /\ result.of = round /\ result.stage = "result"
        /\ result.names = "incident" /\ result.state = state
    BY <1>0, <2>2 DEF Named, Events, Stages
  <2> HIDE DEF result
  <2>4. /\ Within(s) /\ Len(s) = 4
        /\ s[1] = result /\ s[2].stage = "shield" /\ s[3].stage = "status" /\ s[4].stage = "demo"
        /\ DOMAIN s = {1, 2, 3, 4}
    BY <1>b, <2>1, <2>3 DEF Stages, Within, Made
  <2> HIDE DEF s
  <2>5. Upto(13, Acted) /\ NoResult /\ alias = round
    BY <2>1 DEF Trail, After
  <2>6. Adds(s, Acted, Acted \cup {"result"})
    BY <1>a, <2>3, <2>4 DEF Adds
  <2>7. /\ Sorted(round)' /\ Upto(17, Acted \cup {"result"})' /\ alias' = round'
        /\ \A i \in DOMAIN ring' : \/ \E j \in DOMAIN ring : ring'[i] = ring[j]
                                   \/ \E j \in DOMAIN s : ring'[i] = s[j]
    <3>1. 13 \in Nat /\ 17 \in Nat /\ 13 + Len(s) <= 17 /\ 17 <= 17
      BY <2>4
    <3>2. /\ Sorted(round)' /\ Upto(17, Acted \cup {"result"})'
          /\ (alias = round \/ \E i \in DOMAIN s : s[i].names = "incident") => alias' = round'
          /\ \A i \in DOMAIN ring' : \/ \E j \in DOMAIN ring : ring'[i] = ring[j]
                                     \/ \E j \in DOMAIN s : ring'[i] = s[j]
      BY <2>4, <2>5, <2>6, <3>1, WithinLemma
    <3> QED BY <2>5, <3>2
  <2>8. Truthful'
    <3>1. ASSUME NEW i \in DOMAIN ring', ring'[i].of = round, ring'[i].stage = "result"
          PROVE  ring'[i].state = state
      BY <2>3, <2>4, <2>5, <2>7, <3>1 DEF NoResult
    <3> QED BY <2>1, <3>1 DEF Truthful, state
  <2> QED BY <2>1, <2>7, <2>8 DEF Trail, Over, Before, Saving, After, Roles
<1>16. ASSUME NEW role \in Roles, AnswerRaises(role) PROVE Trail'
  BY <1>2, <1>16 DEF AnswerRaises
<1>17. CASE Smoke
  BY <1>2, <1>17 DEF Smoke
<1>18. CASE Stop
  BY <1>2, <1>18 DEF Stop
<1>19. CASE Restart
  <2>1. pc' = "idle" /\ fate' = Blank /\ DOMAIN ring' = {}
    BY <1>19 DEF Restart
  <2>2. Sorted(round)'
    BY <2>1 DEF Sorted
  <2> QED BY <2>1, <2>2 DEF Trail, Over, Before, Saving, After, Roles
<1>20. CASE UNCHANGED vars
  <2>1. Quiet /\ pc' = pc
    BY <1>20 DEF vars
  <2> QED BY <2>1, QuietTrail DEF Trail, Over
<1> QED
  BY <1>1, <1>3, <1>4, <1>5, <1>6, <1>7, <1>8, <1>9, <1>10, <1>11, <1>12, <1>13, <1>14, <1>15,
     <1>16, <1>17, <1>18, <1>19, <1>20, <1>21, <1>22
  DEF Next

(* Of some positions on the ring one is the last.                          *)
LEMMA LastLemma ==
  ASSUME NEW n \in Nat, NEW T \in SUBSET (1..n), T # {}
  PROVE  \E m \in T : \A x \in T : x <= m
<1> DEFINE Above(m) == {x \in T : x > m}
           U == {Above(m) : m \in T}
<1>0. IsFiniteSet(T) /\ \A x \in T : x \in Nat
  <2>1. IsFiniteSet(1..n)
    BY FS_Interval
  <2>2. IsFiniteSet(T)
    BY <2>1, FS_Subset
  <2> QED BY <2>2
<1>1. U \subseteq FiniteSubsetsOf(T) /\ U # {}
  <2>1. \A V \in SUBSET T : V \in FiniteSubsetsOf(T)
    BY <1>0, FS_FiniteSubsetsOfFinite
  <2> QED BY <2>1
<1>2. PICK u \in U : \A v \in U : ~(<<v, u>> \in StrictSubsetOrdering(T))
  <2> HIDE DEF U
  <2> QED BY <1>1, FS_StrictSubsetOrderingWellFounded, WFMin
<1>3. PICK m \in T : u = Above(m)
  OBVIOUS
<1>4. ASSUME NEW x \in T, ~(x <= m) PROVE FALSE
  <2>1. x \in Nat /\ m \in Nat /\ x > m
    BY <1>0, <1>4
  <2>2. Above(x) \subseteq Above(m) /\ x \in Above(m) /\ x \notin Above(x)
    <3>1. ASSUME NEW y \in T, y > x PROVE y > m
      <4>1. y \in Nat
        BY <1>0
      <4> QED BY <2>1, <3>1, <4>1
    <3>2. ~(x > x)
      BY <2>1
    <3> QED BY <2>1, <3>1, <3>2
  <2>3. <<Above(x), Above(m)>> \in StrictSubsetOrdering(T)
    BY <2>2 DEF StrictSubsetOrdering
  <2> QED BY <1>2, <1>3, <2>3
<1> QED BY <1>4

(* The last event of a stage on the round's card is the round's own.       *)
LEMMA CardLemma ==
  ASSUME IInv, Trail, alias = round, NEW stage, Has(round, stage)
  PROVE  \E k \in DOMAIN ring : /\ OnCard(round, stage) = {ring[k]}
                                /\ ring[k].of = round /\ ring[k].stage = stage
<1> DEFINE at == {k \in DOMAIN ring : CardOf(ring[k]) = round /\ ring[k].stage = stage}
           last == CHOOSE k \in at : \A j \in at : j <= k
<1>1. /\ Len(ring) \in Nat /\ DOMAIN ring = 1..Len(ring)
      /\ \A i \in DOMAIN ring : /\ ring[i].names \in {"key", "incident", "none"}
                                /\ ring[i].of \in Nat /\ ring[i].of <= round
  <2>1. \A i \in DOMAIN ring : ring[i] \in Events
    BY DEF IInv, Screen
  <2>2. \A i \in DOMAIN ring : ring[i].names \in {"key", "incident", "none"} /\ ring[i].of \in Nat
    BY <2>1 DEF Events
  <2> QED BY <2>2 DEF IInv, Screen, Trail, Sorted
<1>2. PICK own \in DOMAIN ring : /\ ring[own].of = round /\ ring[own].stage = stage
                                 /\ ring[own].names # "none"
  BY DEF Has
<1>3. own \in at
  <2>1. CASE ring[own].names = "key"
    BY <1>2, <2>1 DEF CardOf
  <2>2. CASE ring[own].names = "incident"
    BY <1>2, <2>2 DEF CardOf
  <2> QED BY <1>1, <1>2, <2>1, <2>2
<1>4. last \in at /\ \A j \in at : j <= last
  <2>1. at \in SUBSET (1..Len(ring)) /\ at # {}
    BY <1>1, <1>3
  <2> HIDE DEF at
  <2>2. \E m \in at : \A j \in at : j <= m
    BY <1>1, <2>1, LastLemma
  <2> QED BY <2>2
<1>5. OnCard(round, stage) = {ring[last]}
  BY <1>3 DEF OnCard
<1>6. last \in DOMAIN ring /\ ring[last].stage = stage /\ own <= last
  BY <1>3, <1>4
<1> HIDE DEF last
<1>7. ring[last].of = round
  <2>1. ring[own].of <= ring[last].of
    <3>1. own = last \/ own < last
      BY <1>1, <1>6
    <3>2. own = last => ring[own].of <= ring[last].of
      BY <1>1
    <3>3. own < last => ring[own].of <= ring[last].of
      BY <1>6 DEF Trail, Sorted
    <3> QED BY <3>1, <3>2, <3>3
  <2> QED BY <1>1, <1>2, <1>6, <2>1
<1> QED BY <1>5, <1>6, <1>7

LEMMA TrailWhole == IInv /\ Trail => LatestIsWhole
<1> SUFFICES ASSUME IInv, Trail, pc = "idle", fate # Blank
             PROVE  /\ \A stage \in {"perceive", "diagnose", "decide", "incident", "shield",
                                     "result"} :
                         /\ OnCard(round, stage) # {}
                         /\ \A e \in OnCard(round, stage) : e.of = round
                    /\ \A e \in OnCard(round, "result") :
                         e.state = IF fate = "ESCALATED" THEN Blank ELSE fate
  BY DEF LatestIsWhole
<1>1. alias = round /\ Truthful /\ \A stage \in Acted \cup {"result"} : Has(round, stage)
  BY DEF Trail, Over, Upto, Since
<1>2. ASSUME NEW stage \in {"perceive", "diagnose", "decide", "incident", "shield", "result"}
      PROVE  OnCard(round, stage) # {} /\ \A e \in OnCard(round, stage) : e.of = round
  <2>1. Has(round, stage)
    BY <1>1 DEF Acted, Decided
  <2>2. PICK k \in DOMAIN ring : OnCard(round, stage) = {ring[k]} /\ ring[k].of = round
    BY <1>1, <2>1, CardLemma
  <2> QED BY <2>2
<1>3. ASSUME NEW e \in OnCard(round, "result")
      PROVE  e.state = IF fate = "ESCALATED" THEN Blank ELSE fate
  <2>1. PICK k \in DOMAIN ring : /\ OnCard(round, "result") = {ring[k]}
                                 /\ ring[k].of = round /\ ring[k].stage = "result"
    BY <1>1, CardLemma
  <2> QED BY <1>1, <2>1 DEF Truthful
<1> QED BY <1>2, <1>3

(* When a round is over, its incident's card on the dashboard is whole and *)
(* all of it the round's own, however many rounds went before under the    *)
(* same key, as long as the dashboard keeps what one round publishes: 17   *)
(* events for an incident that was resolved, of the 200 it keeps.          *)
THEOREM CardsAreWhole == 17 <= MaxEvents => (Spec => []LatestIsWhole)
<1> SUFFICES ASSUME 17 <= MaxEvents PROVE Spec => []LatestIsWhole
  OBVIOUS
<1>1. Init => IInv /\ Trail
  BY IInvInit, TrailInit
<1>2. IInv /\ Trail /\ [Next]_vars => (IInv /\ Trail)'
  BY IInvNext, TrailNext
<1>3. IInv /\ Trail => LatestIsWhole
  BY TrailWhole
<1> QED BY <1>1, <1>2, <1>3, PTL DEF Spec
=============================================================================
