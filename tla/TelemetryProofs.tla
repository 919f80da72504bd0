-------------------------- MODULE TelemetryProofs --------------------------
(***************************************************************************)
(* Theorems about the history buffer and the detector, for any devices and *)
(* metrics, any capacity, and any order of event times.                    *)
(***************************************************************************)
EXTENDS Telemetry, FiniteSetTheorems, TLAPS

(* The buffer, and what was ever written into it.                          *)
Key(r) == <<r.sig, r.ts>>
Row == [sig : Signals, ts : 1..MaxStamp, quality : Qualities]
Stored == {Key(r) : r \in rows}

Buffer ==
  /\ IsFiniteSet(rows) /\ rows \subseteq Row
  /\ IsFiniteSet(written) /\ written \subseteq Signals \X (1..MaxStamp)
  /\ \A r, x \in rows : Key(r) = Key(x) => r = x
  /\ Stored \subseteq written

(* The clock, the arrivals and the detector.                               *)
Detector ==
  /\ now \in 0..MaxClock
  /\ DOMAIN arrivals \subseteq Signals /\ \A s \in DOMAIN arrivals : arrivals[s] \in 0..now
  /\ scan = [clock |-> scan.clock, now |-> scan.now, heard |-> scan.heard, left |-> scan.left]
  /\ scan.now \in 0..MaxClock /\ scan.left \subseteq Devices
  /\ raised \subseteq Devices \X (0..MaxClock)
  /\ budget \in [writes : Nat, stops : Nat]

(* The samples ever written with a newer time than one.                    *)
After(w) == {x \in written : x[2] > w[2]}

(* A set maps one to one into no smaller one.                              *)
LEMMA InjectLemma ==
  ASSUME NEW S, NEW T, IsFiniteSet(T), NEW f \in [S -> T],
         \A x, y \in S : f[x] = f[y] => x = y
  PROVE  IsFiniteSet(S) /\ Cardinality(S) <= Cardinality(T)
<1>1. f \in Injection(S, T)
  BY DEF Injection, IsInjective
<1> QED BY <1>1, FS_Injection

(* Rows are as many as their keys.                                         *)
LEMMA KeysLemma ==
  ASSUME Buffer
  PROVE  Cardinality(Stored) = Cardinality(rows)
<1> DEFINE f == [r \in rows |-> Key(r)]
<1>1. f \in Bijection(rows, Stored)
  BY DEF Buffer, Stored, Bijection, Injection, Surjection, IsInjective
<1>2. ExistsBijection(rows, Stored)
  BY <1>1 DEF ExistsBijection
<1> QED BY <1>2, FS_Bijection DEF Buffer

(* No more rows are newer than a row than samples were ever written with   *)
(* a newer time.                                                           *)
LEMMA NewerLemma ==
  ASSUME Buffer, NEW r \in rows
  PROVE  Cardinality(Newer(r)) <= Cardinality(After(Key(r)))
<1> DEFINE f == [x \in Newer(r) |-> Key(x)]
<1>1. \A x \in Newer(r) : Key(x) \in After(Key(r))
  BY DEF Newer, After, Key, Buffer, Stored
<1>2. f \in [Newer(r) -> After(Key(r))]
  BY <1>1
<1>3. \A x, y \in Newer(r) : f[x] = f[y] => x = y
  BY DEF Newer, Buffer
<1>4. IsFiniteSet(After(Key(r)))
  BY FS_Subset DEF After, Buffer
<1> HIDE DEF f
<1> QED BY <1>2, <1>3, <1>4, InjectLemma

(* Among rows there is an oldest one.                                      *)
LEMMA OldestLemma ==
  ASSUME Buffer, NEW R \in SUBSET rows, R # {}
  PROVE  \E r \in R : \A x \in R : x.ts >= r.ts
<1> DEFINE Older(r) == {x \in rows : x.ts < r.ts}
           T == {Older(r) : r \in R}
<1>1. T \subseteq FiniteSubsetsOf(rows) /\ T # {}
  <2>1. \A U \in SUBSET rows : U \in FiniteSubsetsOf(rows)
    BY FS_FiniteSubsetsOfFinite DEF Buffer
  <2>2. \A r \in R : Older(r) \in SUBSET rows
    OBVIOUS
  <2> QED BY <2>1, <2>2
<1>2. PICK t \in T : \A u \in T : ~(<<u, t>> \in StrictSubsetOrdering(rows))
  <2> HIDE DEF T
  <2> QED BY <1>1, FS_StrictSubsetOrderingWellFounded, WFMin
<1>3. PICK r \in R : t = Older(r)
  OBVIOUS
<1>4. ASSUME NEW x \in R, ~(x.ts >= r.ts) PROVE FALSE
  <2>1. x.ts \in Nat /\ r.ts \in Nat /\ \A y \in rows : y.ts \in Nat
    BY DEF Buffer, Row
  <2>2. Older(x) \subseteq Older(r) /\ x \in Older(r) /\ x \notin Older(x)
    BY <1>4, <2>1
  <2>3. <<Older(x), Older(r)>> \in StrictSubsetOrdering(rows)
    BY <2>2 DEF StrictSubsetOrdering
  <2> QED BY <1>2, <1>3, <2>3
<1> QED BY <1>4
-----------------------------------------------------------------------------
(* An insert replaces the row of its signal and time.                      *)
LEMMA InsertLemma ==
  ASSUME Buffer, NEW s \in Signals, NEW ts \in 1..MaxStamp, NEW q \in Qualities,
         Insert(s, ts, q)
  PROVE  /\ Buffer'
         /\ written' = written \cup {<<s, ts>>}
         /\ Stored' = Stored \cup {<<s, ts>>}
<1> DEFINE kept == {r \in rows : <<r.sig, r.ts>> # <<s, ts>>}
           new == [sig |-> s, ts |-> ts, quality |-> q]
<1>1. rows' = kept \cup {new} /\ written' = written \cup {<<s, ts>>}
  BY DEF Insert
<1>2. new \in Row /\ Key(new) = <<s, ts>>
  BY DEF Row, Key
<1>3. \A r \in kept : r \in rows /\ Key(r) # <<s, ts>>
  BY DEF Key
<1>4. \A r \in rows : r \in kept \/ Key(r) = <<s, ts>>
  BY DEF Key
<1>5. IsFiniteSet(kept) /\ IsFiniteSet(rows') /\ IsFiniteSet(written')
  <2>1. IsFiniteSet(kept)
    BY FS_Subset DEF Buffer
  <2> QED BY <1>1, <2>1, FS_AddElement DEF Buffer
<1> HIDE DEF kept, new
<1>6. rows' \subseteq Row
  BY <1>1, <1>2, <1>3 DEF Buffer
<1>7. written' \subseteq Signals \X (1..MaxStamp)
  BY <1>1 DEF Buffer
<1>8. \A r, x \in rows' : Key(r) = Key(x) => r = x
  BY <1>1, <1>2, <1>3 DEF Buffer
<1>9. Stored' = Stored \cup {<<s, ts>>}
  <2>1. Stored' = {Key(r) : r \in rows'}
    BY DEF Stored, Key
  <2> QED BY <1>1, <1>2, <1>3, <1>4, <2>1 DEF Stored
<1>10. Stored' \subseteq written'
  BY <1>1, <1>9 DEF Buffer
<1>11. (\A r, x \in rows : Key(r) = Key(x) => r = x)' <=> (\A r, x \in rows' : Key(r) = Key(x) => r = x)
  BY DEF Key
<1> QED BY <1>1, <1>5, <1>6, <1>7, <1>8, <1>9, <1>10, <1>11 DEF Buffer, Row, Signals, Qualities

(* What shrinks the rows keeps the buffer well formed.                     *)
LEMMA ShrinkLemma ==
  ASSUME Buffer, rows' \subseteq rows, written' = written
  PROVE  Buffer'
<1>1. IsFiniteSet(rows')
  BY FS_Subset DEF Buffer
<1>2. Stored' \subseteq Stored
  BY DEF Stored, Key
<1>3. \A r, x \in rows' : Key(r)' = Key(x)' => r = x
  BY DEF Buffer, Key
<1> QED BY <1>1, <1>2, <1>3 DEF Buffer, Row, Signals, Qualities

(* Every step keeps the buffer well formed, and no sample with fewer than  *)
(* Capacity newer ones is ever missing from it.                            *)
LEMMA BufferNext == Buffer /\ KeepsNewest /\ [Next]_vars => Buffer' /\ KeepsNewest'
<1> SUFFICES ASSUME Buffer, KeepsNewest, [Next]_vars PROVE Buffer' /\ KeepsNewest'
  OBVIOUS
<1>0. \A w \in written : Cardinality(After(w)) < Capacity => w \in Stored
  BY DEF KeepsNewest, After, Stored, Key
<1>a. ASSUME \A w \in written' : Cardinality(After(w)') < Capacity => w \in Stored'
      PROVE  KeepsNewest'
  BY <1>a DEF KeepsNewest, After, Stored, Key
<1>b. \A w : IsFiniteSet(After(w)) /\ Cardinality(After(w)) \in Nat
  BY FS_Subset, FS_CardinalityType DEF After, Buffer
<1>1. ASSUME NEW s \in Signals, NEW ts \in 1..MaxStamp, NEW q \in Qualities, Insert(s, ts, q)
      PROVE  Buffer' /\ KeepsNewest'
  <2>1. /\ Buffer' /\ written' = written \cup {<<s, ts>>}
        /\ Stored' = Stored \cup {<<s, ts>>}
    BY <1>1, InsertLemma
  <2>2. ASSUME NEW w \in written', Cardinality(After(w)') < Capacity PROVE w \in Stored'
    <3>1. CASE w = <<s, ts>>
      BY <2>1, <3>1
    <3>2. CASE w # <<s, ts>>
      <4>1. w \in written
        BY <2>1, <3>2
      <4>2. IsFiniteSet(After(w)') /\ After(w) \subseteq After(w)'
        <5>1. After(w)' \subseteq written' /\ IsFiniteSet(written')
          BY <2>1 DEF After, Buffer
        <5> QED BY <2>1, <5>1, FS_Subset DEF After
      <4>3. Cardinality(After(w)) <= Cardinality(After(w)') /\ Cardinality(After(w)') \in Nat
        BY <4>2, FS_Subset, FS_CardinalityType
      <4>4. Cardinality(After(w)) < Capacity
        BY <1>b, <2>2, <4>3, SizesAssumption
      <4> QED BY <1>0, <2>1, <4>1, <4>4
    <3> QED BY <3>1, <3>2
  <2> QED BY <1>a, <2>1, <2>2
<1>2. CASE Trim
  <2>1. rows' = {r \in rows : Cardinality(Newer(r)) < Capacity} /\ written' = written
    BY <1>2 DEF Trim
  <2>2. Buffer'
    BY <2>1, ShrinkLemma
  <2>3. ASSUME NEW w \in written', Cardinality(After(w)') < Capacity PROVE w \in Stored'
    <3>1. w \in written /\ Cardinality(After(w)) < Capacity
      BY <2>1, <2>3 DEF After
    <3>2. PICK r \in rows : Key(r) = w
      BY <1>0, <3>1 DEF Stored
    <3>3. Cardinality(Newer(r)) <= Cardinality(After(w))
      BY <3>2, NewerLemma
    <3>4. Cardinality(Newer(r)) \in Nat
      BY FS_Subset, FS_CardinalityType DEF Newer, Buffer
    <3>5. Cardinality(Newer(r)) < Capacity
      BY <1>b, <3>1, <3>3, <3>4, SizesAssumption
    <3>6. r \in rows'
      BY <2>1, <3>5
    <3> QED BY <3>2, <3>6 DEF Stored, Key
  <2> QED BY <1>a, <2>2, <2>3
<1>3. ASSUME rows' = rows, written' = written PROVE Buffer' /\ KeepsNewest'
  BY <1>3, ShrinkLemma DEF KeepsNewest
<1>4. CASE Tick \/ ScanClock \/ ScanArrivals \/ ScanFails \/ Restart \/ UNCHANGED vars
  BY <1>3, <1>4 DEF Tick, ScanClock, ScanArrivals, ScanFails, Restart, vars
<1>5. ASSUME NEW d \in Devices, Assess(d) PROVE Buffer' /\ KeepsNewest'
  BY <1>3, <1>5 DEF Assess
<1> QED BY <1>1, <1>2, <1>4, <1>5 DEF Next, Scan
-----------------------------------------------------------------------------
(* A window is no later than its clock.                                    *)
LEMMA WindowLemma ==
  ASSUME NEW t \in 0..MaxClock
  PROVE  t \div Window \in 0..MaxClock
BY SizesAssumption, LimitsAssumption

(* Every step keeps the clock, the arrivals and the incidents well formed. *)
LEMMA DetectorNext == Detector /\ [Next]_vars => Detector'
<1> SUFFICES ASSUME Detector, [Next]_vars PROVE Detector'
  OBVIOUS
<1>0. MaxClock \in Nat
  BY LimitsAssumption
<1>1. ASSUME NEW s \in Signals, NEW ts \in 1..MaxStamp, NEW q \in Qualities, Insert(s, ts, q)
      PROVE  Detector'
  <2>1. /\ DOMAIN arrivals' = DOMAIN arrivals \cup {s} /\ arrivals'[s] = now
        /\ \A u \in DOMAIN arrivals \ {s} : arrivals'[u] = arrivals[u]
    BY <1>1 DEF Insert
  <2> QED BY <1>0, <1>1, <2>1 DEF Insert, Detector, Signals
<1>2. CASE Trim
  BY <1>2 DEF Trim, Detector, Signals
<1>3. CASE Tick
  <2>1. now' = now + 1 /\ now' \in 0..MaxClock /\ UNCHANGED <<arrivals, scan, raised>>
    BY <1>0, <1>3 DEF Tick, Detector
  <2>2. \A s \in DOMAIN arrivals : arrivals[s] \in 0..(now + 1)
    BY <1>0 DEF Detector
  <2> QED BY <1>0, <1>3, <2>1, <2>2 DEF Tick, Detector, Signals
<1>4. CASE ScanClock
  <2>1. scan' = [clock |-> TRUE, now |-> now, heard |-> << >>, left |-> {}]
    BY <1>4 DEF ScanClock, Asleep
  <2>2. /\ scan' = [clock |-> scan'.clock, now |-> scan'.now, heard |-> scan'.heard, left |-> scan'.left]
        /\ scan'.now \in 0..MaxClock /\ scan'.left \subseteq Devices
    BY <2>1 DEF Detector
  <2>3. UNCHANGED <<arrivals, now, raised, budget>>
    BY <1>4 DEF ScanClock
  <2> QED BY <2>2, <2>3 DEF Detector, Signals
<1>9. CASE ScanArrivals
  BY <1>9 DEF ScanArrivals, Detector, Signals
<1>5. ASSUME NEW d \in Devices, Assess(d) PROVE Detector'
  <2>1. raised' \subseteq raised \cup {<<d, scan.now \div Window>>}
    BY <1>5 DEF Assess
  <2>2. raised' \subseteq Devices \X (0..MaxClock)
    BY <2>1, WindowLemma DEF Detector
  <2>3. /\ scan' = [clock |-> scan'.clock, now |-> scan'.now, heard |-> scan'.heard, left |-> scan'.left]
        /\ scan'.now \in 0..MaxClock /\ scan'.left \subseteq Devices
    <3>1. CASE scan' = Asleep
      BY <1>0, <3>1 DEF Asleep
    <3>2. CASE scan' = [scan EXCEPT !.left = @ \ {d}]
      <4>1. scan' = [clock |-> scan.clock, now |-> scan.now, heard |-> scan.heard, left |-> scan.left \ {d}]
        BY <3>2, Zenon DEF Detector
      <4> QED BY <4>1 DEF Detector
    <3> QED BY <1>5, <3>1, <3>2 DEF Assess
  <2> QED BY <1>5, <2>2, <2>3 DEF Assess, Detector, Signals
<1>6. CASE ScanFails
  BY <1>0, <1>6 DEF ScanFails, Asleep, Detector, Signals
<1>7. CASE Restart
  BY <1>0, <1>7 DEF Restart, Asleep, Detector, Signals
<1>8. CASE UNCHANGED vars
  BY <1>8 DEF vars, Detector, Signals
<1> QED BY <1>1, <1>2, <1>3, <1>4, <1>5, <1>6, <1>7, <1>8, <1>9 DEF Next, Scan

IInv == Buffer /\ KeepsNewest /\ Detector

LEMMA InductiveInit == Init => IInv
<1> SUFFICES ASSUME Init PROVE IInv
  OBVIOUS
<1>1. rows = {} /\ written = {} /\ IsFiniteSet({})
  BY FS_EmptySet DEF Init
<1>2. Buffer /\ KeepsNewest
  BY <1>1 DEF Buffer, KeepsNewest, Stored
<1>3. Detector
  BY LimitsAssumption DEF Init, Detector, Asleep
<1> QED BY <1>2, <1>3 DEF IInv

LEMMA Inductive == Spec => []IInv
<1>1. IInv /\ [Next]_vars => IInv'
  BY BufferNext, DetectorNext DEF IInv
<1> QED BY <1>1, InductiveInit, PTL DEF Spec

(* Rows, arrivals and incidents are well formed; a row is unique for its   *)
(* signal and event time (INSERT OR REPLACE), and was once written.        *)
THEOREM TypeCorrect == Spec => []TypeOK
<1>1. ASSUME IInv PROVE TypeOK
  <2>1. \A r \in rows : r.sig \in Signals /\ r.ts \in 1..MaxStamp /\ r.quality \in Qualities
    BY <1>1 DEF IInv, Buffer, Row
  <2>2. Stored = {<<r.sig, r.ts>> : r \in rows}
    BY DEF Stored, Key
  <2>3. Stored \subseteq written /\ Cardinality(Stored) = Cardinality(rows)
    BY <1>1, KeysLemma DEF IInv, Buffer
  <2> QED BY <1>1, <2>1, <2>2, <2>3 DEF IInv, Detector, TypeOK
<1> QED BY <1>1, Inductive, PTL

(* AD-11: the newest samples are never lost, however late and out of order *)
(* event times come, and wherever the process stops between insert and     *)
(* trim (buffer.py: _trim).                                                *)
THEOREM NewestAreKept == Spec => []KeepsNewest
<1>1. IInv => KeepsNewest
  BY DEF IInv
<1> QED BY <1>1, Inductive, PTL

(* A trim leaves less than Capacity rows and one more for every signal:    *)
(* those newer than the oldest stamp that stays, and those that share it.  *)
LEMMA TrimBounds ==
  ASSUME Buffer, Trim
  PROVE  Cardinality(rows') < Capacity + Cardinality(Signals)
<1>0. IsFiniteSet(Signals) /\ Cardinality(Signals) \in Nat
  BY SignalsAssumption, FS_Product, FS_CardinalityType DEF Signals
<1>1. rows' = {r \in rows : Cardinality(Newer(r)) < Capacity}
  BY DEF Trim
<1>2. CASE rows' = {}
  BY <1>0, <1>2, FS_EmptySet, SizesAssumption
<1>3. CASE rows' # {}
  <2>1. PICK m \in rows' : \A x \in rows' : x.ts >= m.ts
    BY <1>1, <1>3, OldestLemma
  <2> DEFINE peers == {x \in rows : x.ts = m.ts}
             f == [x \in peers |-> x.sig]
  <2>2. IsFiniteSet(peers) /\ IsFiniteSet(Newer(m))
    BY FS_Subset DEF Newer, Buffer
  <2>3. Cardinality(peers) <= Cardinality(Signals)
    <3>1. f \in [peers -> Signals]
      BY DEF Buffer, Row
    <3>2. \A x, y \in peers : f[x] = f[y] => x = y
      BY DEF Buffer, Key
    <3> HIDE DEF f, peers
    <3> QED BY <1>0, <3>1, <3>2, InjectLemma
  <2>4. rows' \subseteq peers \cup Newer(m)
    <3>1. \A x \in rows : x.ts \in Nat
      BY DEF Buffer, Row
    <3> QED BY <1>1, <2>1, <3>1 DEF Newer
  <2> HIDE DEF peers
  <2>5. /\ IsFiniteSet(peers \cup Newer(m))
        /\ Cardinality(peers \cup Newer(m)) <= Cardinality(peers) + Cardinality(Newer(m))
    <3>1. /\ Cardinality(peers \cap Newer(m)) \in Nat
          /\ Cardinality(peers) \in Nat /\ Cardinality(Newer(m)) \in Nat
      BY <2>2, FS_Intersection, FS_CardinalityType
    <3>2. /\ IsFiniteSet(peers \cup Newer(m))
          /\ Cardinality(peers \cup Newer(m))
               = Cardinality(peers) + Cardinality(Newer(m)) - Cardinality(peers \cap Newer(m))
      BY <2>2, FS_Union
    <3> QED BY <3>1, <3>2
  <2>6. Cardinality(rows') <= Cardinality(peers \cup Newer(m))
    BY <2>4, <2>5, FS_Subset
  <2>7. Cardinality(Newer(m)) < Capacity
    BY <1>1, <2>1
  <2>8. /\ Cardinality(peers) \in Nat /\ Cardinality(Newer(m)) \in Nat
        /\ Cardinality(peers \cup Newer(m)) \in Nat /\ Cardinality(rows') \in Nat
    BY <2>2, <2>4, <2>5, FS_Subset, FS_CardinalityType
  <2> QED BY <1>0, <2>3, <2>5, <2>6, <2>7, <2>8, SizesAssumption
<1> QED BY <1>2, <1>3

(* The buffer stays a ring at every trim, whatever stamps are shared.      *)
THEOREM BufferIsRing == Spec => StaysBounded
<1>1. ASSUME Detector, [Next]_vars, writing /\ ~writing' /\ budget' = budget
      PROVE  Trim
  <2>1. budget' # [budget EXCEPT !.stops = @ + 1]
    BY <1>1 DEF Detector
  <2> QED BY <1>1, <2>1 DEF Next, Insert, Tick, Scan, ScanClock, ScanArrivals, Assess, ScanFails, Restart, vars
<1>2. IInv /\ [Next]_vars
      => [writing /\ ~writing' /\ budget' = budget
            => Cardinality(rows') < Capacity + Cardinality(Signals)]_vars
  BY <1>1, TrimBounds DEF IInv
<1> QED BY <1>2, Inductive, PTL DEF Spec, StaysBounded
=============================================================================
