------------------------------ MODULE ToolPort ------------------------------
(***************************************************************************)
(* The tool port: the only writer of artifacts.  A call validates its      *)
(* intent, looks its idempotency key up, creates the artifact, reads it    *)
(* back, records the key, and answers.  Artifacts and keys are in two      *)
(* databases, committed one after the other; a call may fail on the way,   *)
(* or be cut off by a restart, and its caller may try again with the same  *)
(* key.  Calls come from under the supervisor's drive lock, one at a time. *)
(* A refused intent changes nothing and is left out.                       *)
(***************************************************************************)
EXTENDS Naturals, FiniteSets

CONSTANTS
  Keys,          \* idempotency keys; each belongs to one kind of artifact
  ReadableKeys,  \* those of the kinds the backend is asked for in a read-back
  Ids,           \* backend ids (random, taken to be fresh)
  NoKey, NoId,
  MaxCalls, MaxFaults, MaxStops   \* bounds: calls, failures, restarts

ASSUME KeysAssumption == ReadableKeys \subseteq Keys /\ NoKey \notin Keys
ASSUME IdsAssumption == NoId \notin Ids
ASSUME BudgetAssumption == {MaxCalls, MaxFaults, MaxStops} \subseteq Nat

VARIABLES
  artifacts,  \* the backend's tables: [id, key]
  port_keys,  \* the registry: key -> id
  call,       \* locals of create
  reported,   \* successes answered: <<key, id>>
  lost,       \* key -> creates that left an artifact the port does not know
  budget

vars == <<artifacts, port_keys, call, reported, lost, budget>>

Idle == [pc |-> "idle", key |-> NoKey, id |-> NoId, verified |-> FALSE]

Init == /\ artifacts = {} /\ port_keys = << >> /\ reported = {}
        /\ call = Idle
        /\ lost = [k \in Keys |-> 0]
        /\ budget = [calls |-> MaxCalls, faults |-> MaxFaults, stops |-> MaxStops]

Go(pc) == call' = [call EXCEPT !.pc = pc]
At(pc) == call.pc = pc
Spend(what) == budget[what] > 0 /\ budget' = [budget EXCEPT ![what] = @ - 1]

Fresh(id) == \A a \in artifacts : a.id # id
Made(k) == {a \in artifacts : a.key = k}
-----------------------------------------------------------------------------
(* create, after _validate. *)
Begin(k) ==
  /\ At("idle") /\ Spend("calls")
  /\ call' = [Idle EXCEPT !.pc = "lookup", !.key = k]
  /\ UNCHANGED <<artifacts, port_keys, reported, lost>>

(* Slip: the registry is not consulted. *)
LookupNothing ==
  /\ At("lookup") /\ Go("create")
  /\ UNCHANGED <<artifacts, port_keys, reported, lost, budget>>

(* A known key is answered with its artifact: the read-back only fills in  *)
(* the answer, whatever it finds.                                          *)
LookupByKey ==
  /\ At("lookup")
  /\ IF call.key \in DOMAIN port_keys
     THEN /\ reported' = reported \cup {<<call.key, port_keys[call.key]>>}
          /\ call' = Idle
     ELSE Go("create") /\ UNCHANGED reported
  /\ UNCHANGED <<artifacts, port_keys, lost, budget>>

(* _create_backend. *)
CreateBackend(id) ==
  /\ At("create") /\ Fresh(id)
  /\ artifacts' = artifacts \cup {[id |-> id, key |-> call.key]}
  /\ call' = [call EXCEPT !.pc = "read_back", !.id = id]
  /\ UNCHANGED <<port_keys, reported, lost, budget>>

(* Slip: "nothing created" is not checked for. *)
CreateFailsOn ==
  /\ At("create") /\ Spend("faults") /\ Go("read_back")
  /\ UNCHANGED <<artifacts, port_keys, reported, lost>>

(* Any exception reads as "nothing created", also one that comes after the *)
(* insert: from the commit, or from reading the new row.                   *)
CreateFails ==
  /\ At("create") /\ Spend("faults") /\ call' = Idle
  /\ UNCHANGED <<artifacts, port_keys, reported, lost>>

CreateRaisesLate(id) ==
  /\ At("create") /\ Fresh(id) /\ Spend("faults") /\ call' = Idle
  /\ artifacts' = artifacts \cup {[id |-> id, key |-> call.key]}
  /\ lost' = [lost EXCEPT ![call.key] = @ + 1]
  /\ UNCHANGED <<port_keys, reported>>

(* _verify_read_back: kinds the backend is not asked for always pass.      *)
ReadBack ==
  /\ At("read_back")
  /\ \/ /\ call' = [call EXCEPT !.pc = "record", !.verified = TRUE]
        /\ UNCHANGED budget
     \/ /\ call.key \in ReadableKeys /\ Spend("faults")
        /\ call' = [call EXCEPT !.pc = "record", !.verified = FALSE]
  /\ UNCHANGED <<artifacts, port_keys, reported, lost>>

(* Slip: the key of an artifact that could not be verified is not kept.    *)
RecordVerifiedKey ==
  /\ At("record") /\ Go("answer")
  /\ port_keys' = IF call.verified
                  THEN [k \in DOMAIN port_keys \cup {call.key} |->
                          IF k = call.key THEN call.id ELSE port_keys[k]]
                  ELSE port_keys
  /\ UNCHANGED <<artifacts, reported, lost, budget>>

(* _record_key, verified or not. *)
RecordKey ==
  /\ At("record") /\ Go("answer")
  /\ port_keys' = [k \in DOMAIN port_keys \cup {call.key} |->
                     IF k = call.key THEN call.id ELSE port_keys[k]]
  /\ UNCHANGED <<artifacts, reported, lost, budget>>

Answer ==
  /\ At("answer") /\ call' = Idle
  /\ reported' = IF call.verified THEN reported \cup {<<call.key, call.id>>} ELSE reported
  /\ UNCHANGED <<artifacts, port_keys, lost, budget>>

(* The process stops (or a call raises in the registry); the databases     *)
(* stay.                                                                   *)
Stop ==
  /\ ~At("idle") /\ Spend("stops") /\ call' = Idle
  /\ lost' = IF At("read_back") \/ At("record")
             THEN [lost EXCEPT ![call.key] = @ + 1] ELSE lost
  /\ UNCHANGED <<artifacts, port_keys, reported>>

Next == \/ \E k \in Keys : Begin(k)
        \/ LookupByKey
        \/ \E id \in Ids : CreateBackend(id) \/ CreateRaisesLate(id)
        \/ CreateFails \/ ReadBack \/ RecordKey \/ Answer \/ Stop

Spec == Init /\ [][Next]_vars
-----------------------------------------------------------------------------
(* Tables and locals are well formed; ids name one artifact each, and a    *)
(* key the registry knows belongs to an artifact of the backend.           *)
TypeOK ==
  /\ \A a \in artifacts : a.id \in Ids /\ a.key \in Keys
  /\ \A a, b \in artifacts : a.id = b.id => a = b
  /\ \A k \in DOMAIN port_keys : [id |-> port_keys[k], key |-> k] \in artifacts
  /\ DOMAIN port_keys \subseteq Keys

(* No fabricated success, and no second one (AD-6): every success that was *)
(* ever answered names an artifact of the backend, and all successes of a  *)
(* key name the same one, over retries, failures and restarts.             *)
SuccessIsOneArtifact ==
  /\ \A r \in reported : [id |-> r[2], key |-> r[1]] \in artifacts
  /\ \A r, s \in reported : r[1] = s[1] => r = s

(* Every artifact beyond the first of its key is one that a create left    *)
(* behind without an answer: a late exception, or a stop before the key    *)
(* was recorded.  A failed read-back never makes the retry create again.   *)
DuplicatesExplained ==
  \A k \in Keys : Cardinality(Made(k)) <= 1 + lost[k]

(* "An existing match is reused and reported, never duplicated", on        *)
(* timeout or ambiguous failure too (AD-6).                                *)
NeverDuplicated == \A k \in Keys : Cardinality(Made(k)) <= 1
=============================================================================
