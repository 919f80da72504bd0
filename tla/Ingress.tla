------------------------------- MODULE Ingress -------------------------------
(***************************************************************************)
(* From the broker to what people and agents are told: the bridge connects *)
(* and reconnects on paho's network thread, parses each message, and the   *)
(* in-process bus takes every reading to the dashboard and to the history. *)
(* The dashboard's device cards and the observer judge freshness each on   *)
(* its own.  An event time is a small number, 0 the epoch of an unset      *)
(* clock; times of arrival are ages, which stop at Critical.               *)
(***************************************************************************)
EXTENDS Agents

CONSTANTS
  Statuses,   \* what devices say of themselves
  Times,      \* the event times frames carry; 0 is an unset clock's
  NoTime,     \* the event time of a reading without one
  MaxBreaks   \* bound: broken links and refused sessions, restarts

VARIABLES
  main,       \* where the harness stands in bringing the bridge up
  hosted,     \* mqtt.env names a broker
  link,       \* the session with the broker
  subscribed, \* the broker sends the team's topics over this session
  flag,       \* TrackCBridge.connected
  chip,       \* the dashboard's bridge chip
  last,       \* signal -> last point of the dashboard's series
  top,        \* newest event time among the dashboard's points
  newest,     \* signal -> newest row in the history
  heard,      \* signal -> age of its last arrival
  budget

vars == <<main, hosted, link, subscribed, flag, chip, last, top, newest, heard, budget>>
linkVars == <<main, hosted, link, subscribed, flag, chip>>
dataVars == <<last, top, newest, heard>>

ASSUME StatusAssumption == Statuses \subseteq {"ok", "error", "offline"}
ASSUME TimesAssumption == Times \subseteq Nat /\ NoTime \notin Nat

Init == /\ main = "new" /\ hosted \in BOOLEAN /\ link = "none"
        /\ subscribed = FALSE /\ flag = FALSE /\ chip = FALSE
        /\ last = << >> /\ top = 0 /\ newest = << >> /\ heard = << >>
        /\ budget = [breaks |-> 0, restarts |-> 0]
-----------------------------------------------------------------------------
(* start: the bus is bound before connect, for the chip's sake.            *)
BindBus ==
  /\ main = "new"
  /\ main' = "bound"
  /\ UNCHANGED <<hosted, link, subscribed, flag, chip, dataVars, budget>>

(* connect without a host does nothing; with one, paho opens the socket    *)
(* and runs its network thread, or raises out of connect and of main when  *)
(* the broker cannot be reached.                                           *)
ConnectNowhere ==
  /\ main = "bound" /\ ~hosted
  /\ main' = "running"
  /\ UNCHANGED <<hosted, link, subscribed, flag, chip, dataVars, budget>>

ConnectRaises ==
  /\ main = "bound" /\ hosted
  /\ main' = "dead"
  /\ UNCHANGED <<hosted, link, subscribed, flag, chip, dataVars, budget>>

Connect ==
  /\ main = "bound" /\ hosted
  /\ main' = "looping" /\ link' = "opening"
  /\ UNCHANGED <<hosted, subscribed, flag, chip, dataVars, budget>>

(* The caller's assignment, whatever the callbacks assigned meanwhile.     *)
ConnectReturns ==
  /\ main = "looping"
  /\ main' = "running" /\ flag' = TRUE
  /\ UNCHANGED <<hosted, link, subscribed, chip, dataVars, budget>>

(* _emit_heartbeat, and the dashboard's chip.                              *)
Heartbeat(up) == chip' = up

(* Slip: the topics are subscribed to on the first connect only.           *)
OnConnectOnce(accepted) ==
  /\ subscribed' = (accepted /\ budget.breaks = 0)
  /\ flag' = TRUE /\ Heartbeat(TRUE)

(* _on_connect: subscribes again, as a session does not outlive its link;  *)
(* the return code of a refused session is not looked at.                  *)
OnConnect(accepted) ==
  /\ subscribed' = accepted
  /\ flag' = TRUE /\ Heartbeat(TRUE)

(* Slip: the callbacks are assigned once the network thread runs.          *)
SessionOpensUnseen ==
  /\ link = "opening"
  /\ link' = "up"
  /\ IF main = "looping" THEN UNCHANGED <<subscribed, flag, chip>> ELSE OnConnect(TRUE)
  /\ UNCHANGED <<main, hosted, dataVars, budget>>

SessionOpens ==
  /\ link = "opening"
  /\ link' = "up"
  /\ OnConnect(TRUE)
  /\ UNCHANGED <<main, hosted, dataVars, budget>>

SessionRefused ==
  /\ link = "opening" /\ budget.breaks < MaxBreaks
  /\ link' = "refused"
  /\ OnConnect(FALSE)
  /\ budget' = [budget EXCEPT !.breaks = @ + 1]
  /\ UNCHANGED <<main, hosted, dataVars>>

(* The link breaks: messages are lost from now on, before the network      *)
(* thread notices (keepalive), runs _on_disconnect and connects again.     *)
LinkBreaks ==
  /\ link = "up" /\ budget.breaks < MaxBreaks
  /\ link' = "broken" /\ subscribed' = FALSE
  /\ budget' = [budget EXCEPT !.breaks = @ + 1]
  /\ UNCHANGED <<main, hosted, flag, chip, dataVars>>

LossNoticed ==
  /\ link \in {"broken", "refused"}
  /\ link' = "opening"
  /\ flag' = FALSE /\ Heartbeat(FALSE)
  /\ UNCHANGED <<main, hosted, subscribed, dataVars, budget>>
-----------------------------------------------------------------------------
(* parse_payload: a frame yields, device by device, a reading of each of   *)
(* its known signals, at the frame's clock and of the device's status.     *)
(* Unknown devices and signals and values that are not numbers yield none, *)
(* nor does anything in a frame whose clock does not parse.                *)
Reading(clock, status) ==
  [ts |-> clock, quality |-> IF clock = NoTime THEN "missing_ts" ELSE status]

Put(f, s, x) == [t \in DOMAIN f \cup {s} |-> IF t = s THEN x ELSE f[t]]

(* _ingest_tele, and the newest event time of all points.                  *)
ToDashboard(s, r) == /\ last' = Put(last, s, r)
                     /\ top' = IF r.ts = NoTime \/ r.ts < top THEN top ELSE r.ts

(* Slip: a reading without a time is stored too.                           *)
ToHistoryUntimed(s, r) == /\ newest' = Put(newest, s, r)
                          /\ heard' = Put(heard, s, 0)

(* _hist_ingest: a reading without a time raises and is swallowed; another *)
(* replaces the row of its signal and time, and is noted as an arrival.    *)
ToHistory(s, r) ==
  IF r.ts = NoTime THEN UNCHANGED <<newest, heard>>
  ELSE /\ newest' = IF s \in DOMAIN newest /\ r.ts < newest[s].ts THEN newest ELSE Put(newest, s, r)
       /\ heard' = Put(heard, s, 0)

(* ingest_payload: the bus takes each reading of a frame to the dashboard, *)
(* which subscribed first, then to the history.                            *)
Deliver(s, clock, status) ==
  /\ link = "up" /\ subscribed /\ main # "dead"
  /\ ToDashboard(s, Reading(clock, status))
  /\ ToHistory(s, Reading(clock, status))
  /\ UNCHANGED <<linkVars, budget>>

Tick == /\ \E s \in DOMAIN heard : heard[s] < Critical
        /\ heard' = [s \in DOMAIN heard |-> IF heard[s] < Critical THEN heard[s] + 1 ELSE heard[s]]
        /\ UNCHANGED <<linkVars, last, top, newest, budget>>

(* The process starts anew: the history's rows are in SQLite, all else is  *)
(* in memory.                                                              *)
Restart ==
  /\ main \in {"running", "dead"} /\ budget.restarts < MaxBreaks
  /\ budget' = [budget EXCEPT !.restarts = @ + 1]
  /\ main' = "new" /\ link' = "none"
  /\ subscribed' = FALSE /\ flag' = FALSE /\ chip' = FALSE
  /\ last' = << >> /\ top' = 0 /\ heard' = << >>
  /\ UNCHANGED <<hosted, newest>>

Bring == BindBus \/ ConnectNowhere \/ Connect \/ ConnectReturns

Network == SessionOpens \/ LossNoticed

Sends(s) == \E c \in Times, q \in Statuses : Deliver(s, c, q)

Next == \/ Bring \/ ConnectRaises \/ Network \/ SessionRefused \/ LinkBreaks
        \/ \E s \in Signals, c \in Times \cup {NoTime}, q \in Statuses : Deliver(s, c, q)
        \/ Tick \/ Restart

Spec == Init /\ [][Next]_vars

(* The harness goes on, paho's thread handles what happens on the socket   *)
(* and connects again; a device that is there keeps sending.               *)
FairSpec == /\ Spec /\ WF_vars(Bring) /\ WF_vars(Network)
            /\ \A s \in Signals : WF_vars(Sends(s))
-----------------------------------------------------------------------------
(* snapshot's device grid: how bad a signal is shown, on the observer's    *)
(* scale; an unset clock has no age.                                       *)
CardOf(s) ==
  LET age == top - last[s].ts IN
  CASE last[s].quality # "ok"              -> 3
    [] last[s].quality = "ok" /\ last[s].ts = 0 -> 0
    [] OTHER -> IF age >= Critical THEN 2 ELSE IF age >= Stale THEN 1 ELSE 0

(* The grid has a card for every name but its last word, which is a device *)
(* where metrics have one word; it knows nothing of the registry.          *)
CardName(s) == Front(s)
OnCard(c) == {s \in DOMAIN last : CardName(s) = c}

Card(c) == LET bad == {CardOf(s) : s \in OnCard(c)} \cup {0} IN
           CHOOSE m \in bad : \A x \in bad : x <= m

(* Session, chip and readings are well formed; a stored row has a time.    *)
TypeOK ==
  /\ main \in {"new", "bound", "looping", "running", "dead"} /\ hosted \in BOOLEAN
  /\ link \in {"none", "opening", "up", "refused", "broken"}
  /\ {subscribed, flag, chip} \subseteq BOOLEAN
  /\ \A s \in DOMAIN last : last[s].ts \in Times \cup {NoTime}
  /\ \A s \in DOMAIN newest : newest[s].ts \in Times /\ newest[s].quality \in Statuses
  /\ DOMAIN heard \subseteq DOMAIN newest /\ \A s \in DOMAIN heard : heard[s] \in 0..Critical

(* Two views of one stream: where readings come in the order of their      *)
(* times, the observer judges some signal of a card at least as bad as the *)
(* card shows the worst of them (observer.py:62, dashboard.py:449).        *)
ViewsAgree ==
  \A c \in {CardName(s) : s \in DOMAIN last} :
    (\A s \in OnCard(c) : s \in DOMAIN newest /\ newest[s] = last[s] /\ last[s].ts > 0)
    => \E s \in OnCard(c) :
         StaleOrder(Observe(Devices, newest, heard)[s]) >= Card(c)

(* The chip is green while a session is up, and otherwise only until its   *)
(* loss, or refusal, is noticed (trackc.py:289).                           *)
ChipFollowsLink ==
  (link = "up" => chip) /\ (chip => link \in {"up", "broken", "refused"})

(* A device that stopped sending is seen whatever its last event time says *)
(* (observer.py:80): an observe stage of the device or of a neighbour      *)
(* names its signal, the plan assumes it, a work order on it is corrective *)
(* and the safety agent asks for caution.                                  *)
SilenceIsSeen ==
  \A s \in DOMAIN heard, d \in Devices :
    (heard[s] = Critical /\ d \in {DeviceOf[s]} \cup Neighbours[DeviceOf[s]])
    => LET obs == Observe(Observed({d}, TRUE), newest, heard) IN
       /\ s \in Degraded(obs) \cap Assumed(obs) /\ WorkKind(obs, s) = "Corrective"
       /\ (newest[s].ts > 0 /\ newest[s].quality # "error")
          => SafetyVerdict(obs) = "proceed-with-caution"

Silent(s) == main = "running" /\ hosted /\ (s \in DOMAIN heard => heard[s] = Critical)

(* However often the link breaks or is refused, a device that keeps        *)
(* sending is heard again.                                                 *)
StreamResumes == \A s \in Signals : Silent(s) ~> ~Silent(s)
=============================================================================
