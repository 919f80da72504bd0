---------------------------- MODULE IngressProofs ----------------------------
(***************************************************************************)
(* Theorems about the way in, for any registry, any event times and        *)
(* statuses, any thresholds, and however often links break.                *)
(***************************************************************************)
EXTENDS Ingress, FiniteSetTheorems, TLAPS

(* The session and what is shown of it; and the readings.                  *)
LinkTyped ==
  /\ main \in {"new", "bound", "looping", "running", "dead"} /\ hosted \in BOOLEAN
  /\ link \in {"none", "opening", "up", "refused", "broken"}
  /\ {subscribed, flag, chip} \subseteq BOOLEAN

DataTyped ==
  /\ \A s \in DOMAIN last : last[s].ts \in Times \cup {NoTime}
  /\ \A s \in DOMAIN newest : newest[s].ts \in Times /\ newest[s].quality \in Statuses
  /\ DOMAIN heard \subseteq DOMAIN newest /\ \A s \in DOMAIN heard : heard[s] \in 0..Critical

(* The type invariant in two parts.                                        *)
LEMMA TypeParts == TypeOK <=> LinkTyped /\ DataTyped
BY DEF TypeOK, LinkTyped, DataTyped

(* A reading, whatever its clock and status, leaves well-formed points and *)
(* rows; one without a time leaves no row.                                 *)
LEMMA DeliverTyped ==
  ASSUME DataTyped, NEW s, NEW c \in Times \cup {NoTime}, NEW q \in Statuses, Deliver(s, c, q)
  PROVE  DataTyped'
<1> DEFINE r == Reading(c, q)
<1>1. r.ts = c /\ (c # NoTime => r.quality = q)
  BY DEF Reading
<1>2. last' = Put(last, s, r) /\ ToHistory(s, r)
  BY DEF Deliver, ToDashboard
<1> HIDE DEF r
<1>3. \A t \in DOMAIN last' : last'[t].ts \in Times \cup {NoTime}
  <2>1. /\ DOMAIN last' = DOMAIN last \cup {s} /\ last'[s] = r
        /\ \A t \in DOMAIN last \ {s} : last'[t] = last[t]
    BY <1>2 DEF Put
  <2> QED BY <1>1, <2>1 DEF DataTyped
<1>4. CASE c = NoTime
  BY <1>1, <1>2, <1>3, <1>4 DEF ToHistory, DataTyped
<1>5. CASE c # NoTime
  <2>1. r.ts \in Times /\ r.quality \in Statuses /\ 0 \in 0..Critical
    BY <1>1, <1>5, ThresholdsAssumption
  <2>2. /\ newest' = Put(newest, s, r) \/ (newest' = newest /\ s \in DOMAIN newest)
        /\ heard' = Put(heard, s, 0)
    BY <1>1, <1>2, <1>5 DEF ToHistory
  <2>3. /\ DOMAIN newest \subseteq DOMAIN newest' /\ s \in DOMAIN newest'
        /\ \A t \in DOMAIN newest' : newest'[t].ts \in Times /\ newest'[t].quality \in Statuses
    <3>1. CASE newest' = newest /\ s \in DOMAIN newest
      BY <3>1 DEF DataTyped
    <3>2. CASE newest' = Put(newest, s, r)
      <4>1. /\ DOMAIN newest' = DOMAIN newest \cup {s} /\ newest'[s] = r
            /\ \A t \in DOMAIN newest \ {s} : newest'[t] = newest[t]
        BY <3>2 DEF Put
      <4> QED BY <2>1, <4>1 DEF DataTyped
    <3> QED BY <2>2, <3>1, <3>2
  <2>4. /\ DOMAIN heard' \subseteq DOMAIN newest'
        /\ \A t \in DOMAIN heard' : heard'[t] \in 0..Critical
    <3>1. /\ DOMAIN heard' = DOMAIN heard \cup {s} /\ heard'[s] = 0
          /\ \A t \in DOMAIN heard \ {s} : heard'[t] = heard[t]
      BY <2>2 DEF Put
    <3> QED BY <2>1, <2>3, <3>1 DEF DataTyped
  <2> QED BY <1>3, <2>3, <2>4 DEF DataTyped
<1> QED BY <1>4, <1>5

(* Time ages what was heard of, up to Critical.                            *)
LEMMA TickTyped == DataTyped /\ Tick => DataTyped'
BY ThresholdsAssumption DEF DataTyped, Tick

(* A restart empties all but the history.                                  *)
LEMMA RestartTyped == DataTyped /\ Restart => DataTyped'
BY DEF DataTyped, Restart
-----------------------------------------------------------------------------
(* Every step keeps the session and the readings well formed.              *)
LEMMA TypeNext == TypeOK /\ [Next]_vars => TypeOK'
<1> SUFFICES ASSUME LinkTyped, DataTyped, [Next]_vars PROVE LinkTyped' /\ DataTyped'
  BY TypeParts DEF TypeOK, LinkTyped, DataTyped
<1> USE DEF dataVars, linkVars
<1>1. CASE Bring
  BY <1>1 DEF Bring, BindBus, ConnectNowhere, Connect, ConnectReturns, LinkTyped, DataTyped
<1>2. CASE ConnectRaises
  BY <1>2 DEF ConnectRaises, LinkTyped, DataTyped
<1>3. CASE Network \/ SessionRefused
  BY <1>3 DEF Network, SessionOpens, SessionRefused, LossNoticed, OnConnect, Heartbeat,
              LinkTyped, DataTyped
<1>4. CASE LinkBreaks
  BY <1>4 DEF LinkBreaks, LinkTyped, DataTyped
<1>5. ASSUME NEW s \in Signals, NEW c \in Times \cup {NoTime}, NEW q \in Statuses, Deliver(s, c, q)
      PROVE  LinkTyped' /\ DataTyped'
  <2>1. LinkTyped'
    BY <1>5 DEF Deliver, LinkTyped
  <2> QED BY <1>5, <2>1, DeliverTyped
<1>6. CASE Tick
  BY <1>6, TickTyped DEF Tick, LinkTyped
<1>7. CASE Restart
  BY <1>7, RestartTyped DEF Restart, LinkTyped
<1>8. CASE UNCHANGED vars
  BY <1>8 DEF vars, LinkTyped, DataTyped
<1> QED BY <1>1, <1>2, <1>3, <1>4, <1>5, <1>6, <1>7, <1>8 DEF Next

(* Session, chip and readings are well formed; a row of the history has a  *)
(* time and a status, and a signal that was heard of has a row, for a      *)
(* reading without a time is swallowed before both (_hist_ingest).    *)
THEOREM TypeCorrect == Spec => []TypeOK
<1>1. Init => TypeOK
  <2>1. ASSUME Init PROVE LinkTyped
    BY <2>1 DEF Init, LinkTyped
  <2>2. ASSUME Init PROVE DOMAIN last = {} /\ DOMAIN newest = {} /\ DOMAIN heard = {}
    BY <2>2 DEF Init
  <2> QED BY <2>1, <2>2, TypeParts DEF DataTyped
<1> QED BY <1>1, TypeNext, PTL DEF Spec
-----------------------------------------------------------------------------
(* No session is opened before connect is called.                          *)
NoneBeforeBound == main \in {"new", "bound"} => link = "none"

CInv == ChipFollowsLink /\ NoneBeforeBound

(* Every step keeps the chip true to the session.                         *)
LEMMA CInvNext == CInv /\ [Next]_vars => CInv'
<1> SUFFICES ASSUME CInv, [Next]_vars PROVE CInv'
  OBVIOUS
<1> USE DEF dataVars, linkVars, CInv, ChipFollowsLink, NoneBeforeBound
<1>1. CASE Bring
  BY <1>1 DEF Bring, BindBus, ConnectNowhere, Connect, ConnectReturns
<1>2. CASE ConnectRaises
  BY <1>2 DEF ConnectRaises
<1>3. CASE Network
  BY <1>3 DEF Network, SessionOpens, LossNoticed, OnConnect, Heartbeat
<1>4. CASE SessionRefused
  BY <1>4 DEF SessionRefused, OnConnect, Heartbeat
<1>5. CASE LinkBreaks
  BY <1>5 DEF LinkBreaks
<1>6. ASSUME NEW s, NEW c, NEW q, Deliver(s, c, q) PROVE CInv'
  BY <1>6 DEF Deliver
<1>7. CASE Tick
  BY <1>7 DEF Tick
<1>8. CASE Restart
  BY <1>8 DEF Restart
<1>9. CASE UNCHANGED vars
  BY <1>9 DEF vars
<1> QED BY <1>1, <1>2, <1>3, <1>4, <1>5, <1>6, <1>7, <1>8, <1>9 DEF Next

(* The chip never stays dark on a live session, and is green otherwise     *)
(* only between a loss, or refusal, and its notice (trackc.py:289): the    *)
(* bus is bound before connect, and every callback emits a heartbeat.      *)
THEOREM ChipIsTrue == Spec => []ChipFollowsLink
<1>1. Init => CInv
  BY DEF Init, CInv, ChipFollowsLink, NoneBeforeBound
<1>2. CInv => ChipFollowsLink
  BY DEF CInv
<1> QED BY <1>1, <1>2, CInvNext, PTL DEF Spec
-----------------------------------------------------------------------------
(* Naturals that have a greatest, and a least.                             *)
LEMMA GreatestLemma ==
  ASSUME NEW T, T \subseteq Nat, T # {}, IsFiniteSet(T)
  PROVE  \E m \in T : \A x \in T : x <= m
<1> DEFINE Above(m) == {x \in T : x > m}
           U == {Above(m) : m \in T}
<1>1. U \subseteq FiniteSubsetsOf(T) /\ U # {}
  <2>1. \A V \in SUBSET T : V \in FiniteSubsetsOf(T)
    BY FS_FiniteSubsetsOfFinite
  <2>2. \A m \in T : Above(m) \in SUBSET T
    OBVIOUS
  <2> QED BY <2>1, <2>2
<1>2. PICK u \in U : \A v \in U : ~(<<v, u>> \in StrictSubsetOrdering(T))
  <2> HIDE DEF U
  <2> QED BY <1>1, FS_StrictSubsetOrderingWellFounded, WFMin
<1>3. PICK m \in T : u = Above(m)
  OBVIOUS
<1>4. ASSUME NEW x \in T, ~(x <= m) PROVE FALSE
  <2>0. x \in Nat /\ m \in Nat /\ x > m /\ \A y \in T : y \in Nat
    BY <1>4
  <2>1. Above(x) \subseteq Above(m)
    <3>1. ASSUME NEW y \in T, y > x PROVE y > m
      <4>1. y \in Nat
        OBVIOUS
      <4> QED BY <2>0, <3>1, <4>1
    <3> QED BY <3>1
  <2>2. x \in Above(m) /\ x \notin Above(x)
    BY <2>0
  <2>3. <<Above(x), Above(m)>> \in StrictSubsetOrdering(T)
    BY <2>1, <2>2 DEF StrictSubsetOrdering
  <2> QED BY <1>2, <1>3, <2>3
<1> QED BY <1>4

LEMMA LeastLemma ==
  ASSUME NEW n \in Nat, NEW T, T \subseteq 1..n, T # {}
  PROVE  Min(T) \in T /\ \A x \in T : Min(T) <= x
<1> DEFINE Mirror == {n - x : x \in T}
<1>1. Mirror \subseteq 0..n /\ Mirror # {}
  OBVIOUS
<1>2. IsFiniteSet(Mirror) /\ Mirror \subseteq Nat
  <2>1. IsFiniteSet(0..n)
    BY FS_Interval
  <2>2. Mirror \in SUBSET (0..n) /\ Mirror \subseteq Nat
    BY <1>1
  <2> HIDE DEF Mirror
  <2> QED BY <2>1, <2>2, FS_Subset
<1>3. PICK m \in Mirror : \A y \in Mirror : y <= m
  <2> HIDE DEF Mirror
  <2> QED BY <1>1, <1>2, GreatestLemma
<1>4. PICK t \in T : m = n - t
  OBVIOUS
<1>5. ASSUME NEW x \in T PROVE t <= x
  <2>1. n - x \in Mirror /\ x \in 1..n /\ t \in 1..n
    OBVIOUS
  <2>2. n - x <= n - t
    BY <1>3, <1>4, <2>1
  <2> HIDE DEF Mirror
  <2> QED BY <2>1, <2>2
<1> QED BY <1>5 DEF Min
-----------------------------------------------------------------------------
(* The registry's look-ups.  The first entry a condition holds of is an    *)
(* entry it holds of.                                                      *)
LEMMA EntriesLemma ==
  /\ Len(Trackc) \in Nat /\ DOMAIN Trackc = 1..Len(Trackc)
  /\ \A i, j \in DOMAIN Trackc : Trackc[i].id = Trackc[j].id => i = j
BY MappingAssumption DEF IsInjective

LEMMA OwnerLemma ==
  ASSUME NEW s, NEW i \in DOMAIN Trackc, s \in Range(SignalIds(Trackc[i]))
  PROVE  \E j \in DOMAIN Trackc :
           DeviceForSignal(Trackc, s) = Trackc[j] /\ s \in Range(SignalIds(Trackc[j]))
<1> DEFINE I == {j \in 1..Len(Trackc) : s \in Range(SignalIds(Trackc[j]))}
<1>1. I # {} /\ I \subseteq 1..Len(Trackc) /\ 0 \notin I
  BY EntriesLemma
<1>2. Min(I) \in I
  <2> HIDE DEF I
  <2> QED BY <1>1, EntriesLemma, LeastLemma
<1>3. DeviceForSignal(Trackc, s) = Trackc[Min(I)]
  BY <1>1, <1>2 DEF DeviceForSignal, FirstDevice, SelectInSeq
<1> QED BY <1>2, <1>3, EntriesLemma

LEMMA DeviceLemma ==
  ASSUME NEW i \in DOMAIN Trackc
  PROVE  Device(Trackc, Trackc[i].id) = Trackc[i]
<1> DEFINE d == Trackc[i].id
           I == {j \in 1..Len(Trackc) : Trackc[j].id = d}
<1>1. I # {} /\ I \subseteq 1..Len(Trackc) /\ 0 \notin I
  BY EntriesLemma
<1>2. Min(I) \in I
  <2> HIDE DEF I
  <2> QED BY <1>1, EntriesLemma, LeastLemma
<1>3. Device(Trackc, d) = Trackc[Min(I)]
  BY <1>1, <1>2 DEF Device, FirstDevice, SelectInSeq
<1>4. Min(I) = i
  BY <1>2, EntriesLemma
<1> QED BY <1>3, <1>4

(* Every signal is one of its device's, and that is a device.              *)
LEMMA DeviceOfLemma ==
  ASSUME NEW s \in Signals
  PROVE  DeviceOf[s] \in Devices /\ s \in SignalsOf[DeviceOf[s]]
<1>1. PICK d \in Devices : s \in SignalsOf[d]
  BY DEF Signals
<1>2. PICK i \in DOMAIN Trackc : d = Trackc[i].id
  BY DEF Devices, Ids
<1>3. s \in Range(SignalIds(Trackc[i]))
  BY <1>1, <1>2, DeviceLemma DEF SignalsOf
<1>4. PICK j \in DOMAIN Trackc :
        DeviceForSignal(Trackc, s) = Trackc[j] /\ s \in Range(SignalIds(Trackc[j]))
  BY <1>3, OwnerLemma
<1>5. DeviceOf[s] = Trackc[j].id /\ Trackc[j].id \in Devices
  BY <1>4 DEF DeviceOf, Devices, Ids
<1>6. SignalsOf[Trackc[j].id] = Range(SignalIds(Trackc[j]))
  BY <1>5, DeviceLemma DEF SignalsOf
<1> QED BY <1>4, <1>5, <1>6

(* Adjacency has no direction and stays inside an accepted registry.       *)
LEMMA NeighboursLemma ==
  ASSUME NEW d \in Devices, NEW e \in Neighbours[d]
  PROVE  e \in Devices /\ d \in Neighbours[e]
<1>1. PICK i \in DOMAIN Trackc : d = Trackc[i].id
  BY DEF Devices, Ids
<1>2. e \in Related(Trackc, d) /\ Device(Trackc, d) = Trackc[i]
  BY <1>1, DeviceLemma DEF Neighbours
<1>3. CASE e \in Trackc[i].relates
  <2>1. Trackc[i].relates \subseteq Ids(Trackc)
    <3>1. "unknown device" \notin EntryFaults(Trackc, Trackc[i])
      BY RegistryAssumption DEF LoadsRegistry, RegistryFaults, Range
    <3> QED BY <3>1 DEF EntryFaults
  <2>2. d \in {dev.id : dev \in {x \in Range(Trackc) : e \in x.relates}}
    BY <1>1, <1>3 DEF Range
  <2> QED BY <1>3, <2>1, <2>2 DEF Devices, Neighbours, Related
<1>4. CASE e \notin Trackc[i].relates
  <2>1. PICK j \in DOMAIN Trackc : d \in Trackc[j].relates /\ e = Trackc[j].id
    BY <1>2, <1>4 DEF Related, Range
  <2>2. Device(Trackc, e) = Trackc[j] /\ e \in Devices
    BY <2>1, DeviceLemma DEF Devices, Ids
  <2> QED BY <2>1, <2>2 DEF Neighbours, Related
<1> QED BY <1>3, <1>4
-----------------------------------------------------------------------------
(* Only signals of the registry are heard of, and the dashboard's newest   *)
(* event time is no newer than the history's: a restart clears the first.  *)
Known == DOMAIN heard \subseteq Signals /\ DOMAIN newest \subseteq Signals
TopStored == top \in Nat /\ (top > 0 => \E s \in DOMAIN newest : newest[s].ts >= top)

VInv == TypeOK /\ Known /\ TopStored

(* A reading raises the dashboard's newest event time only to its own, and *)
(* it is then in the history.                                              *)
LEMMA DeliverStored ==
  ASSUME DataTyped, Known, TopStored,
         NEW s \in Signals, NEW c \in Times \cup {NoTime}, NEW q \in Statuses, Deliver(s, c, q)
  PROVE  Known' /\ TopStored'
<1> DEFINE r == Reading(c, q)
<1>1. r.ts = c
  BY DEF Reading
<1>2. /\ top' = IF r.ts = NoTime \/ r.ts < top THEN top ELSE r.ts
      /\ ToHistory(s, r)
  BY DEF Deliver, ToDashboard
<1> HIDE DEF r
<1>3. CASE c = NoTime
  BY <1>1, <1>2, <1>3 DEF ToHistory, Known, TopStored
<1>4. CASE c # NoTime
  <2>1. r.ts \in Nat /\ \A t \in DOMAIN newest : newest[t].ts \in Nat
    BY <1>1, <1>4, TimesAssumption DEF DataTyped
  <2>2. /\ newest' = IF s \in DOMAIN newest /\ r.ts < newest[s].ts THEN newest ELSE Put(newest, s, r)
        /\ heard' = Put(heard, s, 0)
    BY <1>1, <1>2, <1>4 DEF ToHistory
  <2>3. DOMAIN heard' = DOMAIN heard \cup {s}
    BY <2>2 DEF Put
  <2>4. /\ DOMAIN newest' = DOMAIN newest \cup {s}
        /\ newest'[s].ts >= r.ts
        /\ \A t \in DOMAIN newest : newest'[t].ts >= newest[t].ts /\ newest'[t].ts \in Nat
    <3>1. CASE s \in DOMAIN newest /\ r.ts < newest[s].ts
      BY <2>1, <2>2, <3>1
    <3>2. CASE ~(s \in DOMAIN newest /\ r.ts < newest[s].ts)
      <4>1. /\ DOMAIN newest' = DOMAIN newest \cup {s} /\ newest'[s] = r
            /\ \A t \in DOMAIN newest \ {s} : newest'[t] = newest[t]
        BY <2>2, <3>2, Zenon DEF Put
      <4> QED BY <2>1, <3>2, <4>1
    <3> QED BY <3>1, <3>2
  <2>5. Known'
    BY <2>3, <2>4 DEF Known, Signals
  <2>6. CASE r.ts < top
    <3>1. PICK t \in DOMAIN newest : newest[t].ts >= top
      BY <2>1, <2>6 DEF TopStored
    <3>2. t \in DOMAIN newest' /\ newest'[t].ts >= top
      BY <2>1, <2>4, <3>1 DEF TopStored
    <3>3. top' = top
      BY <1>2, <2>6
    <3> QED BY <2>5, <3>2, <3>3 DEF TopStored
  <2>7. CASE ~(r.ts < top)
    <3>1. top' = r.ts
      BY <1>1, <1>2, <1>4, <2>7
    <3> QED BY <2>1, <2>4, <2>5, <3>1 DEF TopStored
  <2> QED BY <2>6, <2>7
<1> QED BY <1>3, <1>4

LEMMA VInvNext == VInv /\ [Next]_vars => VInv'
<1> SUFFICES ASSUME TypeOK, DataTyped, Known, TopStored, [Next]_vars PROVE Known' /\ TopStored'
  BY TypeNext, TypeParts DEF VInv
<1> USE DEF dataVars, linkVars
<1>0. ASSUME UNCHANGED <<newest, top>>, DOMAIN heard' = DOMAIN heard PROVE Known' /\ TopStored'
  BY <1>0 DEF Known, TopStored, Signals
<1>1. CASE Bring
  BY <1>0, <1>1 DEF Bring, BindBus, ConnectNowhere, Connect, ConnectReturns
<1>2. CASE ConnectRaises
  BY <1>0, <1>2 DEF ConnectRaises
<1>3. CASE Network \/ SessionRefused
  BY <1>0, <1>3 DEF Network, SessionOpens, SessionRefused, LossNoticed
<1>4. CASE LinkBreaks
  BY <1>0, <1>4 DEF LinkBreaks
<1>5. ASSUME NEW s \in Signals, NEW c \in Times \cup {NoTime}, NEW q \in Statuses, Deliver(s, c, q)
      PROVE  Known' /\ TopStored'
  BY <1>5, DeliverStored
<1>6. CASE Tick
  BY <1>0, <1>6 DEF Tick
<1>7. CASE Restart
  BY <1>7 DEF Restart, Known, TopStored, Signals
<1>8. CASE UNCHANGED vars
  BY <1>0, <1>8 DEF vars
<1> QED BY <1>1, <1>2, <1>3, <1>4, <1>5, <1>6, <1>7, <1>8 DEF Next

LEMMA VInvHolds == Spec => []VInv
<1>1. Init => VInv
  <2>a. ASSUME Init PROVE LinkTyped
    BY <2>a DEF Init, LinkTyped
  <2>1. ASSUME Init PROVE DOMAIN last = {} /\ DOMAIN newest = {} /\ DOMAIN heard = {}
    BY <2>1 DEF Init
  <2>2. Init => TypeOK
    BY <2>a, <2>1, TypeParts DEF DataTyped
  <2>3. Init => Known /\ TopStored
    BY <2>1 DEF Init, Known, TopStored
  <2> QED BY <2>2, <2>3 DEF VInv
<1> QED BY <1>1, VInvNext, PTL DEF Spec
-----------------------------------------------------------------------------
(* The order of the verdicts, and the verdict on a stored row.             *)
LEMMA StalenessLemma ==
  ASSUME NEW a \in Int
  PROVE  /\ a >= Critical => Staleness(a) = "critical_stale" /\ StaleOrder(Staleness(a)) = 2
         /\ a >= Stale => StaleOrder(Staleness(a)) >= 1
         /\ Staleness(a) \in {"fresh", "stale", "critical_stale"}
         /\ StaleOrder(Staleness(a)) \in 0..2
         /\ StaleOrder(Staleness(a)) = 2 => Staleness(a) = "critical_stale"
BY ThresholdsAssumption DEF Staleness, StaleOrder

(* The reference time of an observation is that of the newest row in it.   *)
LEMMA NewestTimeLemma ==
  ASSUME DataTyped, Known, NEW S, NEW s \in S, s \in DOMAIN newest
  PROVE  /\ NewestTime(newest, S) \in Nat
         /\ \A t \in S \cap DOMAIN newest : newest[t].ts <= NewestTime(newest, S)
<1> DEFINE R == S \cap DOMAIN newest
           times == {newest[t].ts : t \in R}
           f == [t \in R |-> newest[t].ts]
<1>1. times \subseteq Nat /\ times # {}
  BY TimesAssumption DEF DataTyped
<1>2. IsFiniteSet(R)
  BY MappingAssumption, FS_Subset DEF Known
<1>3. f \in Surjection(R, times)
  BY DEF Surjection
<1>4. IsFiniteSet(times)
  <2> HIDE DEF f, R, times
  <2> QED BY <1>2, <1>3, FS_Surjection
<1>5. \E m \in times : \A x \in times : x <= m
  <2> HIDE DEF times
  <2> QED BY <1>1, <1>4, GreatestLemma
<1>6. NewestTime(newest, S) = CHOOSE m \in times : \A x \in times : x <= m
  BY <1>1 DEF NewestTime
<1>7. /\ NewestTime(newest, S) \in times
      /\ \A x \in times : x <= NewestTime(newest, S)
  <2> HIDE DEF times
  <2> QED BY <1>5, <1>6
<1> QED BY <1>1, <1>7

(* A signal not heard of for Critical seconds is judged at least           *)
(* critically stale, whatever its event time and the newest one say.       *)
LEMMA SilentVerdict ==
  ASSUME DataTyped, NEW s \in DOMAIN newest, s \in DOMAIN heard, heard[s] = Critical, NEW ref \in Int
  PROVE  /\ Verdict(s, ref, newest, heard) \in {"missing_ts", "offline", "error", "critical_stale"}
         /\ newest[s].ts > 0 /\ newest[s].quality # "error"
            => Verdict(s, ref, newest, heard) \in {"offline", "critical_stale"}
<1> DEFINE row == newest[s]
           age == ref - row.ts
<1>1. row.ts \in Nat /\ row.quality \in {"ok", "error", "offline"}
  BY TimesAssumption, StatusAssumption DEF DataTyped
<1>2. age \in Int /\ Critical \in Int
  BY <1>1, ThresholdsAssumption
<1>3. Staleness(Critical) = "critical_stale" /\ StaleOrder("critical_stale") = 2
  BY <1>2, StalenessLemma, ThresholdsAssumption DEF StaleOrder
<1>4. Verdict(s, ref, newest, heard)
        = IF row.ts = 0 THEN "missing_ts"
          ELSE IF row.quality \in {"offline", "error"} THEN row.quality
          ELSE Worst(Staleness(age), Staleness(heard[s]))
  BY DEF Verdict
<1> HIDE DEF age
<1>5. Worst(Staleness(age), Staleness(heard[s])) = "critical_stale"
  BY <1>2, <1>3, StalenessLemma DEF Worst
<1> QED BY <1>1, <1>4, <1>5

(* A device that stopped sending is seen by every observe stage of it or   *)
(* of a neighbour, whatever its last event time says (observer.py:80): the *)
(* finding degrades it, the plan assumes it, the work order is corrective  *)
(* and the safety agent asks for caution - for any registry that loads.    *)
THEOREM SilenceIsNoticed == Spec => []SilenceIsSeen
<1>1. ASSUME VInv PROVE SilenceIsSeen
  <2> SUFFICES ASSUME NEW s \in DOMAIN heard, NEW d \in Devices, heard[s] = Critical,
                      d \in {DeviceOf[s]} \cup Neighbours[DeviceOf[s]]
               PROVE  LET obs == Observe(Observed({d}, TRUE), newest, heard) IN
                      /\ s \in Degraded(obs) \cap Assumed(obs) /\ WorkKind(obs, s) = "Corrective"
                      /\ (newest[s].ts > 0 /\ newest[s].quality # "error")
                         => SafetyVerdict(obs) = "proceed-with-caution"
    BY DEF SilenceIsSeen
  <2> DEFINE D == Observed({d}, TRUE)
             S == UNION {SignalsOf[x] : x \in D}
             ref == NewestTime(newest, S)
             obs == Observe(D, newest, heard)
  <2>1. DataTyped /\ s \in Signals /\ s \in DOMAIN newest
    BY <1>1, TypeParts DEF VInv, Known, DataTyped
  <2>2. DeviceOf[s] \in Devices /\ s \in SignalsOf[DeviceOf[s]]
    BY <2>1, DeviceOfLemma
  <2>3. DeviceOf[s] \in D
    <3>1. D = {d} \cup Neighbours[d]
      BY DEF Observed
    <3>2. d # DeviceOf[s] => DeviceOf[s] \in Neighbours[d]
      BY <2>2, NeighboursLemma
    <3> QED BY <3>1, <3>2
  <2>4. s \in S
    BY <2>2, <2>3
  <2>5. ref \in Int
    <3>1. Known
      BY <1>1 DEF VInv
    <3> HIDE DEF S
    <3>2. NewestTime(newest, S) \in Nat
      BY <2>1, <2>4, <3>1, NewestTimeLemma
    <3> QED BY <3>2
  <2>6. DOMAIN obs = S /\ obs[s] = Verdict(s, ref, newest, heard)
    BY <2>4 DEF Observe
  <2> HIDE DEF D, S, ref, obs
  <2>7. /\ obs[s] \in {"missing_ts", "offline", "error", "critical_stale"}
        /\ newest[s].ts > 0 /\ newest[s].quality # "error"
           => obs[s] \in {"offline", "critical_stale"}
    BY <2>1, <2>5, <2>6, SilentVerdict
  <2>8. s \in Degraded(obs) \cap Assumed(obs) /\ WorkKind(obs, s) = "Corrective"
    BY <2>4, <2>6, <2>7 DEF Degraded, Assumed, WorkKind
  <2>9. (newest[s].ts > 0 /\ newest[s].quality # "error")
          => SafetyVerdict(obs) = "proceed-with-caution"
    BY <2>4, <2>6, <2>7 DEF SafetyVerdict
  <2> QED BY <2>8, <2>9 DEF obs, D
<1> QED BY <1>1, VInvHolds, PTL
-----------------------------------------------------------------------------
(* A card's badness is one of its signals', or none.                       *)
LEMMA CardLemma ==
  ASSUME NEW c, \A s \in DOMAIN last : CardOf(s) \in 0..3
  PROVE  \/ Card(c) = 0
         \/ \E s \in OnCard(c) : Card(c) = CardOf(s)
<1> DEFINE bad == {CardOf(s) : s \in OnCard(c)} \cup {0}
<1>1. bad \subseteq 0..3 /\ bad # {}
  BY DEF OnCard
<1>2. IsFiniteSet(bad) /\ bad \subseteq Nat
  <2>1. bad \subseteq Nat /\ \A x \in bad : x <= 3
    BY <1>1
  <2> HIDE DEF bad
  <2> QED BY <2>1, FS_BoundedSetOfNaturals
<1>3. \E m \in bad : \A x \in bad : x <= m
  <2> HIDE DEF bad
  <2> QED BY <1>1, <1>2, GreatestLemma
<1>4. Card(c) = CHOOSE m \in bad : \A x \in bad : x <= m
  BY DEF Card
<1>5. Card(c) \in bad
  <2> HIDE DEF bad
  <2> QED BY <1>3, <1>4
<1> QED BY <1>5

(* A point of the dashboard that is the history's newest row is judged by  *)
(* the observer at least as badly: its reference time is no older.         *)
LEMMA JudgedLemma ==
  ASSUME VInv, NEW s \in DOMAIN last, s \in DOMAIN newest, newest[s] = last[s], last[s].ts > 0
  PROVE  StaleOrder(Observe(Devices, newest, heard)[s]) >= CardOf(s)
<1> DEFINE ref == NewestTime(newest, Signals)
           row == newest[s]
           v == Verdict(s, ref, newest, heard)
<1>1. /\ s \in Signals /\ DataTyped /\ Known /\ TopStored
      /\ row.ts \in Nat /\ row.ts > 0 /\ row.quality \in {"ok", "error", "offline"}
  BY TypeParts, TimesAssumption, StatusAssumption DEF VInv, Known, DataTyped
<1>2. Observe(Devices, newest, heard)[s] = v
  BY <1>1 DEF Observe, Signals
<1>3. ref \in Nat /\ \A t \in Signals \cap DOMAIN newest : newest[t].ts <= ref
  BY <1>1, NewestTimeLemma
<1>4. top \in Nat /\ top <= ref
  <2>1. CASE top = 0
    BY <1>3, <2>1
  <2>2. CASE top # 0
    <3>1. PICK t \in DOMAIN newest : newest[t].ts >= top
      BY <1>1, <2>2 DEF TopStored
    <3>2. newest[t].ts <= ref /\ newest[t].ts \in Nat
      BY <1>1, <1>3, TimesAssumption DEF Known, DataTyped
    <3> QED BY <1>1, <1>3, <3>1, <3>2 DEF TopStored
  <2> QED BY <2>1, <2>2
<1> HIDE DEF ref
<1>5. CASE row.quality # "ok"
  <2>1. v = row.quality /\ StaleOrder(v) = 3
    BY <1>1, <1>5 DEF Verdict, StaleOrder
  <2>2. CardOf(s) = 3
    BY <1>5 DEF CardOf
  <2> QED BY <1>2, <2>1, <2>2
<1>6. CASE row.quality = "ok"
  <2> DEFINE age == ref - row.ts
             shown == top - row.ts
  <2>1. age \in Int /\ shown \in Int /\ shown <= age
    BY <1>1, <1>3, <1>4
  <2>2. v = IF s \in DOMAIN heard THEN Worst(Staleness(age), Staleness(heard[s]))
            ELSE Staleness(age)
    BY <1>1, <1>6 DEF Verdict
  <2>3. CardOf(s) = IF shown >= Critical THEN 2 ELSE IF shown >= Stale THEN 1 ELSE 0
    BY <1>1, <1>6 DEF CardOf
  <2> HIDE DEF age, shown, v
  <2>4. StaleOrder(v) >= StaleOrder(Staleness(age)) /\ StaleOrder(v) \in Int
    <3>1. CASE s \in DOMAIN heard
      <4>1. heard[s] \in Int
        BY <1>1, <3>1, ThresholdsAssumption DEF DataTyped
      <4>2. StaleOrder(Staleness(age)) \in 0..2 /\ StaleOrder(Staleness(heard[s])) \in 0..2
        BY <2>1, <4>1, StalenessLemma
      <4> QED BY <2>2, <3>1, <4>2 DEF Worst
    <3>2. CASE s \notin DOMAIN heard
      BY <2>1, <2>2, <3>2, StalenessLemma
    <3> QED BY <3>1, <3>2
  <2>5. StaleOrder(Staleness(age)) >= CardOf(s)
    BY <2>1, <2>3, StalenessLemma, ThresholdsAssumption
  <2> QED BY <1>2, <2>1, <2>3, <2>4, <2>5, StalenessLemma
<1> QED BY <1>5, <1>6

(* The dashboard never shows a device milder than the observer judges it   *)
(* while its newest points are the newest rows (observer.py:62,            *)
(* dashboard.py:449): the grid's reference time is no newer than the       *)
(* history's, restarts included, and silence only makes a verdict worse.   *)
THEOREM ViewsAreConsistent == Spec => []ViewsAgree
<1>1. ASSUME VInv PROVE ViewsAgree
  <2> SUFFICES ASSUME NEW p \in DOMAIN last, NEW c, c = CardName(p),
                      \A s \in OnCard(c) :
                        s \in DOMAIN newest /\ newest[s] = last[s] /\ last[s].ts > 0
               PROVE  \E s \in OnCard(c) :
                        StaleOrder(Observe(Devices, newest, heard)[s]) >= Card(c)
    BY DEF ViewsAgree
  <2>1. \A s \in DOMAIN last : CardOf(s) \in 0..3
    BY DEF CardOf
  <2>2. \A s \in OnCard(c) :
          StaleOrder(Observe(Devices, newest, heard)[s]) >= CardOf(s)
    BY <1>1, JudgedLemma DEF OnCard
  <2>3. CASE Card(c) = 0
    <3>1. PICK s \in OnCard(c) : s \in DOMAIN last
      BY DEF OnCard
    <3>2. CardOf(s) \in 0..3
      BY <2>1, <3>1
    <3>3. StaleOrder(Observe(Devices, newest, heard)[s]) >= CardOf(s)
      BY <2>2, <3>1
    <3>4. StaleOrder(Observe(Devices, newest, heard)[s]) \in 0..3
      BY DEF StaleOrder
    <3> QED BY <2>3, <3>2, <3>3, <3>4
  <2>4. CASE \E s \in OnCard(c) : Card(c) = CardOf(s)
    BY <2>2, <2>4
  <2> QED BY <2>1, <2>3, <2>4, CardLemma
<1> QED BY <1>1, VInvHolds, PTL
=============================================================================
