--------------------------- MODULE ToolPortProofs ---------------------------
(***************************************************************************)
(* Theorems about the tool port, for any keys, any number of calls,        *)
(* failures and restarts.                                                  *)
(***************************************************************************)
EXTENDS ToolPort, FiniteSetTheorems, TLAPS

Points == {"idle", "lookup", "create", "read_back", "record", "answer"}
Calls == [pc : Points, key : Keys \cup {NoKey}, id : Ids \cup {NoId}, verified : BOOLEAN]

(* What create knows at each of its points, and that the registry holds    *)
(* every success: the two together forbid a second success of a key.       *)
Mine == [id |-> call.id, key |-> call.key]

Knows ==
  /\ call \in Calls
  /\ call.pc # "idle" => call.key \in Keys
  /\ call.pc \in {"create", "read_back", "record"} => call.key \notin DOMAIN port_keys
  /\ call.pc \in {"read_back", "record", "answer"} => Mine \in artifacts
  /\ call.pc = "answer" => call.key \in DOMAIN port_keys /\ port_keys[call.key] = call.id

Registered == \A r \in reported : \E k \in DOMAIN port_keys : r = <<k, port_keys[k]>>

IInv == TypeOK /\ Knows /\ Registered

LEMMA IdleLemma == Idle \in Calls /\ Idle.pc = "idle"
BY DEF Idle, Calls, Points

(* A new artifact under a fresh id leaves the tables well formed.          *)
LEMMA InsertLemma ==
  ASSUME TypeOK, NEW id \in Ids, NEW k \in Keys, Fresh(id), UNCHANGED port_keys,
         artifacts' = artifacts \cup {[id |-> id, key |-> k]}
  PROVE  TypeOK'
BY DEF TypeOK, Fresh

LEMMA InductiveInit == Init => IInv
<1> SUFFICES ASSUME Init PROVE IInv
  OBVIOUS
<1>1. DOMAIN port_keys = {}
  BY DEF Init
<1>2. call \in Calls /\ call.pc = "idle"
  BY IdleLemma DEF Init
<1> QED BY <1>1, <1>2 DEF Init, IInv, TypeOK, Knows, Registered

LEMMA InductiveNext == IInv /\ [Next]_vars => IInv'
<1> SUFFICES ASSUME IInv, [Next]_vars PROVE IInv'
  OBVIOUS
<1>1. ASSUME NEW k \in Keys, Begin(k) PROVE IInv'
  <2>1. call' \in Calls /\ call'.pc = "lookup" /\ call'.key = k
    BY <1>1 DEF Begin, Idle, Calls, Points
  <2> QED BY <1>1, <2>1 DEF Begin, IInv, TypeOK, Knows, Registered
<1>2. CASE LookupByKey
  <2>1. CASE call.key \in DOMAIN port_keys
    BY <1>2, <2>1, IdleLemma DEF LookupByKey, IInv, TypeOK, Knows, Registered
  <2>2. CASE call.key \notin DOMAIN port_keys
    <3>1. call' \in Calls /\ call'.pc = "create" /\ call'.key = call.key /\ call.key \in Keys
      BY <1>2, <2>2 DEF LookupByKey, Go, At, IInv, Knows, Calls, Points
    <3> QED BY <1>2, <2>2, <3>1 DEF LookupByKey, IInv, TypeOK, Knows, Registered
  <2> QED BY <2>1, <2>2
<1>3. ASSUME NEW id \in Ids, CreateBackend(id) PROVE IInv'
  <2>1. call.key \in Keys /\ call.key \notin DOMAIN port_keys
    BY <1>3 DEF CreateBackend, At, IInv, Knows
  <2>2. TypeOK'
    BY <1>3, <2>1, InsertLemma DEF CreateBackend, IInv
  <2>3. /\ call' \in Calls /\ call'.pc = "read_back" /\ call'.key = call.key /\ call'.id = id
        /\ Mine' \in artifacts'
    BY <1>3 DEF CreateBackend, IInv, Knows, Calls, Points, Mine
  <2> QED BY <1>3, <2>1, <2>2, <2>3 DEF CreateBackend, IInv, Knows, Registered
<1>4. ASSUME NEW id \in Ids, CreateRaisesLate(id) PROVE IInv'
  <2>1. call.key \in Keys
    BY <1>4 DEF CreateRaisesLate, At, IInv, Knows
  <2>2. TypeOK'
    BY <1>4, <2>1, InsertLemma DEF CreateRaisesLate, IInv
  <2> QED BY <1>4, <2>2, IdleLemma DEF CreateRaisesLate, IInv, Knows, Registered
<1>5. CASE CreateFails
  BY <1>5, IdleLemma DEF CreateFails, IInv, TypeOK, Knows, Registered
<1>6. CASE ReadBack
  <2>1. /\ call' \in Calls /\ call'.pc = "record" /\ call.pc = "read_back"
        /\ call'.key = call.key /\ call'.id = call.id
    BY <1>6, ZenonT(60) DEF ReadBack, At, IInv, Knows, Calls, Points
  <2>2. Mine' = Mine
    BY <2>1 DEF Mine
  <2> QED BY <1>6, <2>1, <2>2 DEF ReadBack, IInv, TypeOK, Knows, Registered
<1>7. CASE RecordKey
  <2>1. /\ call' \in Calls /\ call'.pc = "answer" /\ call.pc = "record"
        /\ call'.key = call.key /\ call'.id = call.id
    BY <1>7 DEF RecordKey, Go, At, IInv, Knows, Calls, Points
  <2>2. Mine' = Mine /\ Mine \in artifacts /\ call.key \in Keys
    BY <2>1 DEF Mine, IInv, Knows
  <2>3. /\ call.key \notin DOMAIN port_keys
        /\ DOMAIN port_keys' = DOMAIN port_keys \cup {call.key}
        /\ port_keys'[call.key] = call.id
        /\ \A k \in DOMAIN port_keys : port_keys'[k] = port_keys[k]
    BY <1>7, <2>1 DEF RecordKey, IInv, Knows
  <2>4. TypeOK'
    BY <1>7, <2>2, <2>3 DEF RecordKey, IInv, TypeOK, Mine
  <2>5. Registered'
    BY <1>7, <2>3 DEF RecordKey, IInv, Registered
  <2>6. Knows'
    BY <1>7, <2>1, <2>2, <2>3 DEF RecordKey, Knows
  <2> QED BY <2>4, <2>5, <2>6 DEF IInv
<1>8. CASE Answer
  <2>1. call.key \in DOMAIN port_keys /\ port_keys[call.key] = call.id
    BY <1>8 DEF Answer, At, IInv, Knows
  <2> QED BY <1>8, <2>1, IdleLemma DEF Answer, IInv, TypeOK, Knows, Registered
<1>9. CASE Stop
  BY <1>9, IdleLemma DEF Stop, IInv, TypeOK, Knows, Registered
<1>10. CASE UNCHANGED vars
  BY <1>10 DEF vars, IInv, TypeOK, Knows, Registered, Mine
<1> QED BY <1>1, <1>2, <1>3, <1>4, <1>5, <1>6, <1>7, <1>8, <1>9, <1>10 DEF Next

(* The tables are well formed, and no key of the registry dangles, however *)
(* often calls fail or are cut off between the two databases.              *)
THEOREM TypeCorrect == Spec => []TypeOK
<1>1. IInv => TypeOK
  BY DEF IInv
<1> QED BY <1>1, InductiveInit, InductiveNext, PTL DEF Spec

(* AD-6 without its last clause: every success ever answered names an      *)
(* artifact of the backend, and all successes of one key the same one.     *)
THEOREM RetryIsSafe == Spec => []SuccessIsOneArtifact
<1>1. IInv => SuccessIsOneArtifact
  BY DEF IInv, TypeOK, Registered, SuccessIsOneArtifact
<1> QED BY <1>1, InductiveInit, InductiveNext, PTL DEF Spec
(* How many artifacts of a key there are: one for every create that left   *)
(* one behind, and one more while the port knows of it, in the registry or *)
(* in the call that has created it and not recorded the key yet.           *)
Known(k) ==
  \/ k \in DOMAIN port_keys
  \/ call.pc \in {"read_back", "record"} /\ call.key = k

Accounts(k) ==
  /\ IsFiniteSet(Made(k))
  /\ Cardinality(Made(k)) <= lost[k] + 1
  /\ ~Known(k) => Cardinality(Made(k)) <= lost[k]

Counted == lost \in [Keys -> Nat] /\ \A k \in Keys : Accounts(k)

(* A create adds one artifact to its key's and none to another key's.      *)
LEMMA MadeLemma ==
  ASSUME NEW id \in Ids, NEW k, Fresh(id), NEW j, IsFiniteSet(Made(j)),
         artifacts' = artifacts \cup {[id |-> id, key |-> k]}
  PROVE  /\ IsFiniteSet(Made(j)')
         /\ Cardinality(Made(j)') = IF j = k THEN Cardinality(Made(j)) + 1
                                            ELSE Cardinality(Made(j))
<1>1. CASE j = k
  <2>1. Made(j)' = Made(j) \cup {[id |-> id, key |-> k]}
    BY <1>1 DEF Made
  <2>2. [id |-> id, key |-> k] \notin Made(j)
    BY DEF Made, Fresh
  <2> QED BY <1>1, <2>1, <2>2, FS_AddElement
<1>2. CASE j # k
  <2>1. Made(j)' = Made(j)
    BY <1>2 DEF Made
  <2> QED BY <1>2, <2>1
<1> QED BY <1>1, <1>2

(* What leaves the tables and the count of a key alone, and forgets no     *)
(* artifact the port knows of, keeps its account.                          *)
LEMMA QuietLemma ==
  ASSUME NEW k \in Keys, Accounts(k), artifacts' = artifacts, lost'[k] = lost[k],
         Known(k) => Known(k)'
  PROVE  Accounts(k)'
<1>1. Made(k)' = Made(k)
  BY DEF Made
<1> QED BY <1>1 DEF Accounts

LEMMA CountedInit == Init => Counted
<1> SUFFICES ASSUME Init PROVE Counted
  OBVIOUS
<1>1. lost \in [Keys -> Nat] /\ \A k \in Keys : lost[k] = 0
  BY DEF Init
<1>2. ASSUME NEW k \in Keys PROVE Accounts(k)
  <2>1. Made(k) = {}
    BY DEF Init, Made
  <2>2. IsFiniteSet(Made(k)) /\ Cardinality(Made(k)) = 0
    BY <2>1, FS_EmptySet
  <2> QED BY <1>1, <2>2 DEF Accounts
<1> QED BY <1>1, <1>2 DEF Counted

LEMMA CountedNext == IInv /\ Counted /\ [Next]_vars => Counted'
<1> SUFFICES ASSUME IInv, Counted, [Next]_vars PROVE Counted'
  OBVIOUS
<1> USE DEF At
<1>1. ASSUME UNCHANGED <<artifacts, lost>>, \A k \in Keys : Known(k) => Known(k)'
      PROVE  Counted'
  BY <1>1, QuietLemma DEF Counted
<1>2. ASSUME NEW k \in Keys, Begin(k) PROVE Counted'
  BY <1>1, <1>2 DEF Begin, Known
<1>3. CASE LookupByKey
  BY <1>1, <1>3 DEF LookupByKey, Known
<1>4. ASSUME NEW id \in Ids, CreateBackend(id) PROVE Counted'
  <2>1. call.key \in Keys /\ ~Known(call.key)
    BY <1>4 DEF CreateBackend, IInv, Knows, Known
  <2>2. /\ artifacts' = artifacts \cup {[id |-> id, key |-> call.key]} /\ Fresh(id)
        /\ lost' = lost /\ port_keys' = port_keys
        /\ call'.pc = "read_back" /\ call'.key = call.key /\ call.pc = "create"
    BY <1>4 DEF CreateBackend, IInv, Knows, Calls
  <2>3. ASSUME NEW k \in Keys PROVE Accounts(k)'
    <3>1. /\ IsFiniteSet(Made(k)) /\ Cardinality(Made(k)) <= lost[k] + 1
          /\ ~Known(k) => Cardinality(Made(k)) <= lost[k]
      BY DEF Counted, Accounts
    <3>2. /\ IsFiniteSet(Made(k)')
          /\ Cardinality(Made(k)') = IF k = call.key THEN Cardinality(Made(k)) + 1
                                                    ELSE Cardinality(Made(k))
      BY <2>2, <3>1, MadeLemma
    <3>3. lost[k] \in Nat /\ Cardinality(Made(k)) \in Nat
      BY <3>1, FS_CardinalityType DEF Counted
    <3>4. (Known(k)' <=> Known(k) \/ k = call.key) /\ lost'[k] = lost[k]
      BY <2>2 DEF Known
    <3> QED BY <2>1, <3>1, <3>2, <3>3, <3>4 DEF Accounts
  <2> QED BY <2>2, <2>3 DEF Counted
<1>5. ASSUME NEW id \in Ids, CreateRaisesLate(id) PROVE Counted'
  <2>1. call.key \in Keys /\ ~Known(call.key)
    BY <1>5 DEF CreateRaisesLate, IInv, Knows, Known
  <2>2. /\ artifacts' = artifacts \cup {[id |-> id, key |-> call.key]} /\ Fresh(id)
        /\ lost' = [lost EXCEPT ![call.key] = @ + 1] /\ port_keys' = port_keys
        /\ call'.pc = "idle" /\ call.pc = "create"
    BY <1>5, IdleLemma DEF CreateRaisesLate
  <2>3. /\ lost' \in [Keys -> Nat]
        /\ \A k \in Keys : lost'[k] = IF k = call.key THEN lost[k] + 1 ELSE lost[k]
    BY <2>1, <2>2 DEF Counted
  <2>4. ASSUME NEW k \in Keys PROVE Accounts(k)'
    <3>1. /\ IsFiniteSet(Made(k)) /\ Cardinality(Made(k)) <= lost[k] + 1
          /\ ~Known(k) => Cardinality(Made(k)) <= lost[k]
      BY DEF Counted, Accounts
    <3>2. /\ IsFiniteSet(Made(k)')
          /\ Cardinality(Made(k)') = IF k = call.key THEN Cardinality(Made(k)) + 1
                                                    ELSE Cardinality(Made(k))
      BY <2>2, <3>1, MadeLemma
    <3>3. lost[k] \in Nat /\ Cardinality(Made(k)) \in Nat
      BY <3>1, FS_CardinalityType DEF Counted
    <3>4. Known(k)' <=> Known(k)
      BY <2>2 DEF Known
    <3> QED BY <2>1, <2>3, <3>1, <3>2, <3>3, <3>4 DEF Accounts
  <2> QED BY <2>3, <2>4 DEF Counted
<1>6. CASE CreateFails
  BY <1>1, <1>6 DEF CreateFails, Known
<1>7. CASE ReadBack
  <2>1. call.pc = "read_back" /\ call'.pc = "record" /\ call'.key = call.key
    BY <1>7 DEF ReadBack, IInv, Knows, Calls
  <2> QED BY <1>1, <1>7, <2>1 DEF ReadBack, Known
<1>8. CASE RecordKey
  <2>1. DOMAIN port_keys' = DOMAIN port_keys \cup {call.key}
    BY <1>8 DEF RecordKey
  <2> QED BY <1>1, <1>8, <2>1 DEF RecordKey, Known
<1>9. CASE Answer
  BY <1>1, <1>9 DEF Answer, Known
<1>10. CASE Stop
  <2>1. UNCHANGED <<artifacts, port_keys>> /\ call'.pc = "idle"
    BY <1>10, IdleLemma DEF Stop
  <2>2. CASE call.pc \notin {"read_back", "record"}
    BY <1>1, <1>10, <2>1, <2>2 DEF Stop, Known
  <2>3. CASE call.pc \in {"read_back", "record"}
    <3>1. call.key \in Keys /\ lost' = [lost EXCEPT ![call.key] = @ + 1]
      BY <1>10, <2>3 DEF Stop, IInv, Knows
    <3>2. /\ lost' \in [Keys -> Nat]
          /\ \A k \in Keys : lost'[k] = IF k = call.key THEN lost[k] + 1 ELSE lost[k]
      BY <3>1 DEF Counted
    <3>3. ASSUME NEW k \in Keys PROVE Accounts(k)'
      <4>1. CASE k # call.key
        BY <2>1, <3>2, <4>1, QuietLemma DEF Counted, Known
      <4>2. CASE k = call.key
        <5>1. Made(k)' = Made(k) /\ Accounts(k) /\ lost[k] \in Nat
          BY <2>1 DEF Made, Counted
        <5>2. Cardinality(Made(k)) \in Nat /\ lost'[k] = lost[k] + 1
          BY <3>2, <4>2, <5>1, FS_CardinalityType DEF Accounts
        <5> QED BY <5>1, <5>2 DEF Accounts
      <4> QED BY <4>1, <4>2
    <3> QED BY <3>2, <3>3 DEF Counted
  <2> QED BY <2>2, <2>3
<1>11. CASE UNCHANGED vars
  BY <1>1, <1>11 DEF vars, Known
<1> QED BY <1>2, <1>3, <1>4, <1>5, <1>6, <1>7, <1>8, <1>9, <1>10, <1>11 DEF Next

(* Every artifact of a key beyond the first is one a create left behind    *)
(* without an answer: late exceptions and stops before the key is recorded *)
(* are the only way to a duplicate, whatever else fails and however often  *)
(* the call is retried.                                                    *)
THEOREM DuplicatesAreLost == Spec => []DuplicatesExplained
<1>1. Counted => DuplicatesExplained
  <2> SUFFICES ASSUME Counted, NEW k \in Keys PROVE Cardinality(Made(k)) <= 1 + lost[k]
    BY DEF DuplicatesExplained
  <2>1. lost[k] \in Nat /\ Accounts(k)
    BY DEF Counted
  <2> QED BY <2>1, FS_CardinalityType DEF Accounts
<1> QED BY <1>1, InductiveInit, InductiveNext, CountedInit, CountedNext, PTL DEF Spec
=============================================================================
