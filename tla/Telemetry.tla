----------------------------- MODULE Telemetry -----------------------------
(***************************************************************************)
(* From samples to incidents: the ingest thread writes the history buffer  *)
(* (insert, note the arrival, trim), and the detector thread scans it for  *)
(* devices that fell silent or report bad quality, raising one incident    *)
(* per device and time window.  Arrival times live in memory and are read  *)
(* under the buffer's lock; rows live in SQLite and are read without it,   *)
(* between the insert and the trim as well.                                *)
(***************************************************************************)
EXTENDS Integers, FiniteSets

CONSTANTS
  Devices,      \* the registry's devices that are not aggregates
  Metrics,      \* of each device; a signal is a device and a metric
  Capacity,     \* rows the buffer means to keep
  RowsPerSignal,\* newest rows the detector reads, per signal of the device
  Critical,     \* critical_seconds
  Window,       \* window_s
  MaxStamp, MaxWrites, MaxClock, MaxStops   \* bounds: stamps, writes, clock,
                                               \* restarts and failed spawns

ASSUME SizesAssumption == {Capacity, RowsPerSignal, Window} \subseteq Nat \ {0}
ASSUME SignalsAssumption == IsFiniteSet(Devices) /\ IsFiniteSet(Metrics)
ASSUME LimitsAssumption == {Critical, MaxStamp, MaxWrites, MaxClock, MaxStops} \subseteq Nat

VARIABLES
  rows,      \* telemetry: [sig, ts, quality], one per signal and event time
  arrivals,  \* signal -> wall-clock time of its last write
  writing,   \* the ingest thread holds the lock, its row not trimmed yet
  now,       \* wall clock
  scan,      \* the detector's locals
  raised,    \* incidents spawned: <<device, window>>
  written,   \* every signal and event time ever inserted (history variable)
  budget

vars == <<rows, arrivals, writing, now, scan, raised, written, budget>>

Signals == Devices \X Metrics
SignalsOf(d) == {d} \X Metrics
Qualities == {"ok", "offline"}

Asleep == [clock |-> FALSE, now |-> 0, heard |-> << >>, left |-> {}]

Init == /\ rows = {} /\ arrivals = << >> /\ writing = FALSE /\ now = 0
        /\ scan = Asleep /\ raised = {} /\ written = {}
        /\ budget = [writes |-> 0, stops |-> 0]
-----------------------------------------------------------------------------
(* Slip: an insert that does not replace the row of the same key.          *)
InsertPlain(s, ts, q) ==
  /\ ~writing /\ budget.writes < MaxWrites
  /\ budget' = [budget EXCEPT !.writes = @ + 1]
  /\ rows' = rows \cup {[sig |-> s, ts |-> ts, quality |-> q]}
  /\ arrivals' = [u \in DOMAIN arrivals \cup {s} |-> IF u = s THEN now ELSE arrivals[u]]
  /\ writing' = TRUE
  /\ written' = written \cup {<<s, ts>>}
  /\ UNCHANGED <<now, scan, raised>>

(* write: INSERT OR REPLACE, and the arrival; event times come as the      *)
(* source sends them, late and out of order too.                           *)
Insert(s, ts, q) ==
  /\ ~writing /\ budget.writes < MaxWrites
  /\ budget' = [budget EXCEPT !.writes = @ + 1]
  /\ rows' = {r \in rows : <<r.sig, r.ts>> # <<s, ts>>}
               \cup {[sig |-> s, ts |-> ts, quality |-> q]}
  /\ arrivals' = [u \in DOMAIN arrivals \cup {s} |-> IF u = s THEN now ELSE arrivals[u]]
  /\ writing' = TRUE
  /\ written' = written \cup {<<s, ts>>}
  /\ UNCHANGED <<now, scan, raised>>

Newer(r) == {x \in rows : x.ts > r.ts}

(* Slips: the limit is applied to the oldest stamps; nothing is trimmed.   *)
TrimNewest ==
  /\ writing
  /\ rows' = {r \in rows : Cardinality({x \in rows : x.ts < r.ts}) < Capacity}
  /\ writing' = FALSE
  /\ UNCHANGED <<arrivals, now, scan, raised, written, budget>>

TrimNothing ==
  /\ writing
  /\ writing' = FALSE
  /\ UNCHANGED <<rows, arrivals, now, scan, raised, written, budget>>

(* _trim: rows whose event time is among those of the Capacity newest rows *)
(* stay; a time shared by several signals keeps all of them.               *)
Trim ==
  /\ writing
  /\ rows' = {r \in rows : Cardinality(Newer(r)) < Capacity}
  /\ writing' = FALSE
  /\ UNCHANGED <<arrivals, now, scan, raised, written, budget>>

(* recent: the n newest rows of some signals, ties as they come.           *)
Recent(S, n) ==
  LET of == {r \in rows : r.sig \in S} IN
    {R \in SUBSET of :
       /\ Cardinality(R) = IF Cardinality(of) < n THEN Cardinality(of) ELSE n
       /\ \A r \in R, x \in of \ R : r.ts >= x.ts}

Tick == /\ now < MaxClock
        /\ now' = now + 1
        /\ UNCHANGED <<rows, arrivals, writing, scan, raised, written, budget>>
-----------------------------------------------------------------------------
(* scan: the clock is read, then, under the lock, the arrivals, each once; *)
(* then device after device is assessed (in the registry's order, which    *)
(* nothing depends on).  A sample may arrive after the scan's own time.    *)
ScanClock ==
  /\ scan.left = {} /\ ~scan.clock
  /\ scan' = [Asleep EXCEPT !.clock = TRUE, !.now = now]
  /\ UNCHANGED <<rows, arrivals, writing, now, raised, written, budget>>

ScanArrivals ==
  /\ scan.clock /\ ~writing
  /\ scan' = [clock |-> FALSE, now |-> scan.now, heard |-> arrivals, left |-> Devices]
  /\ UNCHANGED <<rows, arrivals, writing, now, raised, written, budget>>

(* Slip: a device has fallen silent only when all its signals have.        *)
FellSilentAll(d) ==
  \A s \in SignalsOf(d) : s \in DOMAIN scan.heard /\ scan.now - scan.heard[s] >= Critical

FellSilent(d) ==
  \E s \in SignalsOf(d) : s \in DOMAIN scan.heard /\ scan.now - scan.heard[s] >= Critical

(* The newest row of a signal, among those read, says the device is bad.   *)
ReportsBad(R) ==
  \E r \in R : r.quality # "ok" /\ \A x \in R : x.sig = r.sig => x.ts <= r.ts

Assess(d) ==
  /\ d \in scan.left
  /\ \E R \in Recent(SignalsOf(d), RowsPerSignal * Cardinality(SignalsOf(d))) :
       raised' = IF FellSilent(d) \/ ReportsBad(R)
                 THEN raised \cup {<<d, scan.now \div Window>>} ELSE raised
  /\ scan' = IF scan.left = {d} THEN Asleep ELSE [scan EXCEPT !.left = @ \ {d}]
  /\ UNCHANGED <<rows, arrivals, writing, now, written, budget>>

(* The spawn of a device's incident raises: the rest of the scan is lost.  *)
ScanFails ==
  /\ scan.left # {} /\ budget.stops < MaxStops
  /\ scan' = Asleep
  /\ budget' = [budget EXCEPT !.stops = @ + 1]
  /\ UNCHANGED <<rows, arrivals, writing, now, raised, written>>

(* The process is restarted: the rows are in SQLite, arrivals in memory.   *)
Restart ==
  /\ budget.stops < MaxStops
  /\ budget' = [budget EXCEPT !.stops = @ + 1]
  /\ arrivals' = << >> /\ writing' = FALSE /\ scan' = Asleep
  /\ UNCHANGED <<rows, now, raised, written>>

Scan == ScanClock \/ ScanArrivals \/ \E d \in Devices : Assess(d)

Next == \/ \E s \in Signals, ts \in 1..MaxStamp, q \in Qualities : Insert(s, ts, q)
        \/ Trim \/ Tick \/ Scan \/ ScanFails \/ Restart

Spec == Init /\ [][Next]_vars

(* The detector scans in an endless loop, and a write is finished.  Strong *)
(* fairness: the ingest thread leaves the lock free between two writes,    *)
(* and a scan that waits for it is not overtaken for ever.                 *)
FairSpec == Spec /\ SF_vars(Scan) /\ WF_vars(Trim)
-----------------------------------------------------------------------------
(* Rows, arrivals and incidents are well formed; a row is unique for its   *)
(* signal and event time, and was once written.                            *)
TypeOK ==
  /\ \A r \in rows : r.sig \in Signals /\ r.ts \in 1..MaxStamp /\ r.quality \in Qualities
  /\ {<<r.sig, r.ts>> : r \in rows} \subseteq written
  /\ Cardinality({<<r.sig, r.ts>> : r \in rows}) = Cardinality(rows)
  /\ DOMAIN arrivals \subseteq Signals /\ \A s \in DOMAIN arrivals : arrivals[s] <= now
  /\ raised \subseteq Devices \X (0..MaxClock)

(* Nothing among the newest samples is lost (AD-11): a sample with fewer   *)
(* than Capacity newer ones ever written is in the buffer, however late    *)
(* the samples came and whenever the process stopped.                      *)
KeepsNewest ==
  \A w \in written :
    Cardinality({x \in written : x[2] > w[2]}) < Capacity
    => \E r \in rows : <<r.sig, r.ts>> = w

(* The buffer stays a ring: after a trim it holds less than one row per    *)
(* signal beyond its capacity, the rows that share the oldest stamp.       *)
StaysBounded ==
  [][writing /\ ~writing' /\ budget' = budget
     => Cardinality(rows') < Capacity + Cardinality(Signals)]_vars

Silent(d) ==
  \E s \in SignalsOf(d) : s \in DOMAIN arrivals /\ now - arrivals[s] >= Critical

(* A device one of whose signals stopped is reported in the current window *)
(* unless it is heard again (or the process forgets it in a restart), also *)
(* when scans fail on the way.                                             *)
SilenceIsRaised ==
  \A d \in Devices : Silent(d) ~> (~Silent(d) \/ <<d, now \div Window>> \in raised)
=============================================================================
