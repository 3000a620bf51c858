----------------------- MODULE WebhookStore_proofs ------------------------
(***************************************************************************)
(* What holds of WebhookStore for every number of requests, dispatches and *)
(* uuids, every cap and every set of request bodies.                       *)
(*                                                                         *)
(* The overshoot of the cap needs a stronger invariant, Budget: it counts  *)
(* with the rows those that updates on their way may bring back and those  *)
(* that creates on their way will add.                                     *)
(***************************************************************************)
EXTENDS WebhookStore, FiniteSetTheorems, TLAPS

Creating == {r \in Request : request[r].pc = "insert"}

Saving == {r \in Request : request[r].pc = "save"}

(* The ids that updates have read and not yet saved.                       *)
Read == {request[r].id : r \in Saving}

Budget ==
  Cardinality(DOMAIN rows \cup Read) + Cardinality(Creating)
    < MaxWebhooksPerInstance + Cardinality(Request)

------------------------------------------------------------------------------
(* The empty table, a table with one more row and one with a row less are  *)
(* tables: what Put and Remove of the repository leave behind.             *)
LEMMA TableKept ==
  /\ Empty \in Table
  /\ \A t \in Table :
       /\ DOMAIN t \subseteq Webhook
       /\ \A w \in Webhook, f \in Fields :
            [v \in DOMAIN t \cup {w} |-> IF v = w THEN f ELSE t[v]] \in Table
       /\ \A w \in Webhook : [v \in DOMAIN t \ {w} |-> t[v]] \in Table
<1>1. Empty \in Table
  <2>1. Empty \in [{} -> Fields]
    BY DEF Empty
  <2> QED BY <2>1 DEF Table
<1>2. ASSUME NEW t \in Table
      PROVE  /\ DOMAIN t \subseteq Webhook
             /\ \A w \in Webhook, f \in Fields :
                  [v \in DOMAIN t \cup {w} |-> IF v = w THEN f ELSE t[v]] \in Table
             /\ \A w \in Webhook : [v \in DOMAIN t \ {w} |-> t[v]] \in Table
  <2>1. PICK ids \in SUBSET Webhook : t \in [ids -> Fields]
    BY DEF Table
  <2>2. ASSUME NEW w \in Webhook, NEW f \in Fields
        PROVE  [v \in DOMAIN t \cup {w} |-> IF v = w THEN f ELSE t[v]] \in Table
    <3>1. [v \in DOMAIN t \cup {w} |-> IF v = w THEN f ELSE t[v]]
            \in [ids \cup {w} -> Fields]
      BY <2>1
    <3>2. ids \cup {w} \in SUBSET Webhook
      OBVIOUS
    <3> QED BY <3>1, <3>2 DEF Table
  <2>3. ASSUME NEW w \in Webhook
        PROVE  [v \in DOMAIN t \ {w} |-> t[v]] \in Table
    <3>1. [v \in DOMAIN t \ {w} |-> t[v]] \in [ids \ {w} -> Fields]
      BY <2>1
    <3> QED BY <3>1 DEF Table
  <2> QED BY <2>1, <2>2, <2>3
<1> QED BY <1>1, <1>2

(* Whatever body a request has, toModel sets every field.                  *)
LEMMA ModelTyped == \A in \in Input : toModel(in) \in Fields
<1> TAKE in \in Input
<1>1. in \in WebhookInput
  BY InputAssumption
<1> QED BY <1>1 DEF WebhookInput, toModel, Fields

(* The fields that a request has at each of its calls.                     *)
LEMMA RequestFields ==
  ASSUME NEW s \in RequestState
  PROVE  /\ s.pc = "insert" => s.input \in Input
         /\ s.pc = "save" => s.id \in Webhook /\ s.input \in Input
         /\ s.pc = "store" => s.list \in Table
BY DEF RequestState, Idle

LEMMA DispatcherFields ==
  ASSUME NEW s \in DispatcherState
  PROVE  s.pc = "store" => s.list \in Table
BY DEF DispatcherState, Idle

LEMMA StatesMade ==
  /\ Idle \in RequestState /\ Idle \in DispatcherState
  /\ [pc |-> "list"] \in RequestState /\ [pc |-> "list"] \in DispatcherState
  /\ \A in \in Input : [pc |-> "insert", input |-> in] \in RequestState
  /\ \A w \in Webhook, in \in Input :
       [pc |-> "save", id |-> w, input |-> in] \in RequestState
  /\ \A t \in Table :
       /\ [pc |-> "store", list |-> t] \in RequestState
       /\ [pc |-> "store", list |-> t] \in DispatcherState
BY DEF RequestState, DispatcherState

------------------------------------------------------------------------------
(* Type correctness.                                                       *)

LEMMA TypeInit == Init => TypeOK
BY TableKept, StatesMade DEF Init, TypeOK

LEMMA TypeRequest ==
  ASSUME TypeOK, NEW r \in Request, RequestStep(r)
  PROVE  TypeOK'
<1> USE DEF TypeOK, Goes
<1>1. CASE Create(r)
  BY <1>1, StatesMade DEF Create
<1>2. CASE Insert(r)
  <2>1. PICK w \in Fresh : Put(w, toModel(request[r].input))
    BY <1>2 DEF Insert
  <2>2. w \in Webhook /\ toModel(request[r].input) \in Fields
    BY <1>2, RequestFields, ModelTyped DEF Insert, Fresh
  <2>3. rows' \in Table
    BY <2>1, <2>2, TableKept DEF Put
  <2> QED BY <1>2, <2>3, StatesMade DEF Insert
<1>3. CASE Update(r)
  <2>1. PICK w \in DOMAIN rows, in \in Input :
          Goes(r, [pc |-> "save", id |-> w, input |-> in])
    BY <1>3 DEF Update
  <2>2. w \in Webhook
    BY TableKept
  <2> QED BY <1>3, <2>1, <2>2, StatesMade DEF Update
<1>4. CASE Save(r)
  <2>1. request[r].id \in Webhook /\ toModel(request[r].input) \in Fields
    BY <1>4, RequestFields, ModelTyped DEF Save
  <2>2. rows' \in Table
    BY <1>4, <2>1, TableKept DEF Save, Put
  <2> QED BY <1>4, <2>2, StatesMade DEF Save
<1>5. CASE Delete(r)
  <2>1. rows' \in Table
    BY <1>5, TableKept DEF Delete, Remove
  <2> QED BY <1>5, <2>1, StatesMade DEF Delete
<1>6. CASE Refused(r)
  BY <1>6, StatesMade DEF Refused
<1>7. CASE Reload(r)
  BY <1>7, StatesMade DEF Reload
<1>8. CASE Store(r)
  <2>1. request[r].list \in Table
    BY <1>8, RequestFields DEF Store
  <2> QED BY <1>8, <2>1, StatesMade DEF Store, Stored
<1> QED BY <1>1, <1>2, <1>3, <1>4, <1>5, <1>6, <1>7, <1>8 DEF RequestStep

LEMMA TypeDispatcher ==
  ASSUME TypeOK, NEW d \in Dispatcher, DispatcherStep(d)
  PROVE  TypeOK'
<1> USE DEF TypeOK
<1>1. CASE Miss(d)
  BY <1>1, StatesMade DEF Miss
<1>2. CASE LazyReload(d)
  BY <1>2, StatesMade DEF LazyReload
<1>3. CASE LazyStore(d)
  <2>1. dispatcher[d].list \in Table
    BY <1>3, DispatcherFields DEF LazyStore
  <2> QED BY <1>3, <2>1, StatesMade DEF LazyStore, Stored
<1> QED BY <1>1, <1>2, <1>3 DEF DispatcherStep

LEMMA TypeStep == TypeOK /\ [Next]_vars => TypeOK'
<1> SUFFICES ASSUME TypeOK, [Next]_vars PROVE TypeOK'
  OBVIOUS
<1>1. CASE \E r \in Request : RequestStep(r)
  BY <1>1, TypeRequest
<1>2. CASE \E d \in Dispatcher : DispatcherStep(d)
  BY <1>2, TypeDispatcher
<1>3. CASE UNCHANGED vars
  BY <1>3 DEF vars, TypeOK
<1> QED BY <1>1, <1>2, <1>3 DEF Next

(* The table and the cache only ever hold complete webhooks, and every     *)
(* request is at one of the calls of its function.                         *)
THEOREM TypeCorrect == Spec => []TypeOK
<1> QED BY TypeInit, TypeStep, PTL DEF Spec

------------------------------------------------------------------------------
(* The cache.  A request that changes the table goes on to "list"; what    *)
(* leaves "list" or "store" either stores the table as it is, or sets      *)
(* overtaken.                                                              *)

LEMMA StaleRequest ==
  ASSUME TypeOK, StaleOnlyByRace, NEW r \in Request, RequestStep(r)
  PROVE  StaleOnlyByRace'
<1> USE DEF TypeOK, StaleOnlyByRace, Goes
<1>1. CASE Create(r)
  BY <1>1 DEF Create, Idle
<1>2. CASE Insert(r)
  BY <1>2 DEF Insert
<1>3. CASE Update(r)
  BY <1>3 DEF Update, Idle
<1>4. CASE Save(r)
  BY <1>4 DEF Save
<1>5. CASE Delete(r)
  BY <1>5 DEF Delete
<1>6. CASE Refused(r)
  BY <1>6 DEF Refused
<1>7. CASE Reload(r)
  <2>1. CASE Goes(r, [pc |-> "store", list |-> rows]) /\ UNCHANGED overtaken
    <3>1. request'[r].pc = "store"
      BY <2>1
    <3> QED BY <1>7, <2>1, <3>1 DEF Reload
  <2>2. CASE Goes(r, Idle) /\ overtaken' = TRUE
    BY <2>2
  <2> QED BY <1>7, <2>1, <2>2 DEF Reload
<1>8. CASE Store(r)
  BY <1>8 DEF Store, Stored
<1> QED BY <1>1, <1>2, <1>3, <1>4, <1>5, <1>6, <1>7, <1>8 DEF RequestStep

LEMMA StaleStep ==
  TypeOK /\ StaleOnlyByRace /\ [Next]_vars => StaleOnlyByRace'
<1> SUFFICES ASSUME TypeOK, StaleOnlyByRace, [Next]_vars PROVE StaleOnlyByRace'
  OBVIOUS
<1>1. CASE \E r \in Request : RequestStep(r)
  BY <1>1, StaleRequest
<1>2. CASE \E d \in Dispatcher : DispatcherStep(d)
  <2>1. PICK d \in Dispatcher : DispatcherStep(d)
    BY <1>2
  <2>2. CASE Miss(d)
    BY <2>2 DEF Miss, StaleOnlyByRace
  <2>3. CASE LazyReload(d)
    BY <2>3 DEF LazyReload, StaleOnlyByRace
  <2>4. CASE LazyStore(d)
    BY <2>4 DEF LazyStore, Stored, StaleOnlyByRace
  <2> QED BY <2>1, <2>2, <2>3, <2>4 DEF DispatcherStep
<1>3. CASE UNCHANGED vars
  BY <1>3 DEF vars, StaleOnlyByRace
<1> QED BY <1>1, <1>2, <1>3 DEF Next

(* The cache is behind the table only while a reload is on its way, or     *)
(* after one failed or was overtaken.                                      *)
THEOREM StaleOnlyByRaceHolds == Spec => []StaleOnlyByRace
<1>1. Init => StaleOnlyByRace
  BY DEF Init, StaleOnlyByRace
<1> QED BY <1>1, TypeCorrect, StaleStep, PTL DEF Spec

------------------------------------------------------------------------------
(* The cap.                                                                *)

(* The ids of updates are no more than the updates, and everything that is *)
(* counted is finite.                                                      *)
LEMMA CountsFinite ==
  ASSUME TypeOK
  PROVE  /\ IsFiniteSet(Creating) /\ IsFiniteSet(Saving) /\ IsFiniteSet(Read)
         /\ IsFiniteSet(DOMAIN rows) /\ IsFiniteSet(DOMAIN rows \cup Read)
         /\ Cardinality(Read) <= Cardinality(Saving)
<1>1. IsFiniteSet(Creating) /\ IsFiniteSet(Saving)
  BY PoolsAssumption, FS_Subset DEF Creating, Saving
<1>2. IsFiniteSet(Read) /\ Cardinality(Read) <= Cardinality(Saving)
  <2> DEFINE id == [r \in Saving |-> request[r].id]
  <2>1. id \in Surjection(Saving, Read)
    BY DEF Surjection, Read
  <2> QED BY <1>1, <2>1, FS_Surjection
<1>3. DOMAIN rows \subseteq Webhook
  BY TableKept DEF TypeOK
<1>4. IsFiniteSet(DOMAIN rows)
  BY <1>3, PoolsAssumption, FS_Subset
<1> QED BY <1>1, <1>2, <1>4, FS_Union

(* A step that adds neither to the ids nor to the creates that are counted *)
(* keeps the budget.                                                       *)
LEMMA BudgetShrinks ==
  ASSUME TypeOK, TypeOK', Budget,
         (DOMAIN rows \cup Read)' \subseteq DOMAIN rows \cup Read,
         Creating' \subseteq Creating
  PROVE  Budget'
<1>1. Cardinality((DOMAIN rows \cup Read)') <= Cardinality(DOMAIN rows \cup Read)
  BY CountsFinite, FS_Subset
<1>2. Cardinality(Creating') <= Cardinality(Creating)
  BY CountsFinite, FS_Subset
<1>3. /\ Cardinality(DOMAIN rows \cup Read) \in Nat
      /\ Cardinality(Creating) \in Nat /\ Cardinality(Request) \in Nat
      /\ Cardinality((DOMAIN rows \cup Read)') \in Nat
      /\ Cardinality(Creating') \in Nat
  <2>1. /\ IsFiniteSet((DOMAIN rows \cup Read)') /\ IsFiniteSet(Creating')
        /\ IsFiniteSet(DOMAIN rows \cup Read) /\ IsFiniteSet(Creating)
    BY CountsFinite, FS_Subset
  <2> QED BY <2>1, PoolsAssumption, FS_CardinalityType
<1> QED BY <1>1, <1>2, <1>3, CapAssumption DEF Budget

(* A create passes the test only below the cap; it and everything else     *)
(* that is on its way are different requests.                              *)
LEMMA BudgetCreate ==
  ASSUME TypeOK, TypeOK', Budget, NEW r \in Request, Create(r)
  PROVE  Budget'
<1>1. PICK in \in Input : request' = [request EXCEPT ![r] = [pc |-> "insert", input |-> in]]
  BY DEF Create, Goes
<1>2. r \notin Creating /\ r \notin Saving
  BY DEF Create, Idle, Creating, Saving
<1>3. Creating' = Creating \cup {r}
  BY <1>1 DEF Creating, TypeOK
<1>4. Saving' = Saving /\ Read' = Read
  BY <1>1, <1>2 DEF Saving, Read, TypeOK
<1>5. DOMAIN rows' = DOMAIN rows
  BY DEF Create
<1> DEFINE n == Cardinality(DOMAIN rows)
           u == Cardinality(DOMAIN rows \cup Read)
           c == Cardinality(Creating)
           s == Cardinality(Saving)
           k == Cardinality(Request)
<1>6. n \in Nat /\ u \in Nat /\ c \in Nat /\ s \in Nat /\ k \in Nat
      /\ Cardinality(Read) \in Nat
  BY CountsFinite, PoolsAssumption, FS_CardinalityType
<1>7. u <= n + s
  <2>1. u = n + Cardinality(Read) - Cardinality(DOMAIN rows \cap Read)
    BY CountsFinite, FS_Union
  <2>2. Cardinality(DOMAIN rows \cap Read) \in Nat
    BY CountsFinite, FS_Intersection, FS_CardinalityType
  <2>3. Cardinality(Read) <= s
    BY CountsFinite
  <2> HIDE DEF n, u, s
  <2> QED BY <2>1, <2>2, <2>3, <1>6
<1>8. Cardinality(Creating \cup {r}) = c + 1
  BY <1>2, CountsFinite, FS_AddElement
<1>9. c + 1 + s <= k
  <2> DEFINE A == Creating \cup {r}
  <2>1. A \cap Saving = {}
    BY <1>2 DEF Creating, Saving
  <2>2. IsFiniteSet(A) /\ IsFiniteSet(Saving) /\ A \cup Saving \subseteq Request
    BY CountsFinite, FS_AddElement DEF Creating, Saving
  <2>3. Cardinality(A \cup Saving) = Cardinality(A) + Cardinality(Saving)
    <3> HIDE DEF A
    <3>1. /\ Cardinality(A \cup Saving)
               = Cardinality(A) + Cardinality(Saving) - Cardinality(A \cap Saving)
          /\ Cardinality(A) \in Nat /\ Cardinality(Saving) \in Nat
      BY <2>2, FS_Union, FS_CardinalityType
    <3>2. Cardinality(A \cap Saving) = 0
      BY <2>1, FS_EmptySet
    <3> QED BY <3>1, <3>2
  <2>4. Cardinality(A \cup Saving) <= k
    BY <2>2, PoolsAssumption, FS_Subset
  <2> QED BY <2>3, <2>4, <1>8
<1>10. n < MaxWebhooksPerInstance
  BY DEF Create
<1>11. u + (c + 1) < MaxWebhooksPerInstance + k
  <2> HIDE DEF n, u, c, s, k
  <2> QED BY <1>6, <1>7, <1>9, <1>10, CapAssumption
<1> QED BY <1>3, <1>4, <1>5, <1>8, <1>11 DEF Budget

(* An insert turns the create that was counted into a row.                 *)
LEMMA BudgetInsert ==
  ASSUME TypeOK, TypeOK', Budget, NEW r \in Request, Insert(r)
  PROVE  Budget'
<1>1. PICK w \in Fresh : DOMAIN rows' = DOMAIN rows \cup {w}
  BY DEF Insert, Put
<1>2. request' = [request EXCEPT ![r] = [pc |-> "list"]] /\ request[r].pc = "insert"
  BY DEF Insert, Goes
<1>3. r \in Creating /\ Creating' = Creating \ {r}
  BY <1>2 DEF Creating, TypeOK
<1>4. Read' = Read
  BY <1>2 DEF Saving, Read, TypeOK
<1> DEFINE u == Cardinality(DOMAIN rows \cup Read)
           c == Cardinality(Creating)
<1>5. Cardinality(Creating') = c - 1
  BY <1>3, CountsFinite, FS_RemoveElement
<1>6. Cardinality((DOMAIN rows \cup Read) \cup {w}) <= u + 1
  <2> DEFINE U == DOMAIN rows \cup Read
  <2>1. IsFiniteSet(U) /\ Cardinality(U) \in Nat
    BY CountsFinite, FS_CardinalityType
  <2> HIDE DEF U
  <2>2. CASE w \in U
    <3>1. U \cup {w} = U
      BY <2>2
    <3> QED BY <3>1, <2>1 DEF U
  <2>3. CASE w \notin U
    <3>1. Cardinality(U \cup {w}) = Cardinality(U) + 1
      BY <2>1, <2>3, FS_AddElement
    <3> QED BY <3>1, <2>1 DEF U
  <2> QED BY <2>2, <2>3
<1>7. (DOMAIN rows \cup Read)' = (DOMAIN rows \cup Read) \cup {w}
  BY <1>1, <1>4
<1>8. /\ u \in Nat /\ c \in Nat /\ Cardinality(Request) \in Nat
      /\ Cardinality((DOMAIN rows \cup Read) \cup {w}) \in Nat
  BY CountsFinite, PoolsAssumption, FS_AddElement, FS_CardinalityType
<1>9. Cardinality((DOMAIN rows \cup Read) \cup {w}) + (c - 1)
        < MaxWebhooksPerInstance + Cardinality(Request)
  <2> HIDE DEF u, c
  <2>1. u + c < MaxWebhooksPerInstance + Cardinality(Request)
    BY DEF Budget, u, c
  <2> QED BY <2>1, <1>6, <1>8, CapAssumption
<1> QED BY <1>5, <1>7, <1>9 DEF Budget

(* The other steps only take away from what is counted: an update counts   *)
(* its id while the row is there, and a save moves it back to the rows.    *)
LEMMA BudgetStep == TypeOK /\ TypeOK' /\ Budget /\ [Next]_vars => Budget'
<1> SUFFICES ASSUME TypeOK, TypeOK', Budget, [Next]_vars PROVE Budget'
  OBVIOUS
<1>1. CASE \E r \in Request : RequestStep(r)
  <2>1. PICK r \in Request : RequestStep(r)
    BY <1>1
  <2>2. CASE Create(r)
    BY <2>2, BudgetCreate
  <2>3. CASE Insert(r)
    BY <2>3, BudgetInsert
  <2>4. CASE Update(r)
    <3>1. PICK w \in DOMAIN rows, in \in Input :
            request' = [request EXCEPT ![r] = [pc |-> "save", id |-> w, input |-> in]]
      BY <2>4 DEF Update, Goes
    <3>2. Creating' \subseteq Creating /\ Read' \subseteq Read \cup {w}
      BY <3>1 DEF Creating, Saving, Read, TypeOK
    <3> QED BY <2>4, <3>2, BudgetShrinks DEF Update
  <2>5. CASE Save(r)
    <3>1. request' = [request EXCEPT ![r] = [pc |-> "list"]]
      BY <2>5 DEF Save, Goes
    <3>2. request[r].id \in Read
      BY <2>5 DEF Save, Saving, Read
    <3>3. Creating' \subseteq Creating /\ Read' \subseteq Read
      BY <3>1 DEF Creating, Saving, Read, TypeOK
    <3>4. DOMAIN rows' = DOMAIN rows \cup {request[r].id}
      BY <2>5 DEF Save, Put
    <3> QED BY <3>2, <3>3, <3>4, BudgetShrinks
  <2>6. CASE Delete(r)
    <3>1. request' = [request EXCEPT ![r] = [pc |-> "list"]]
      BY <2>6 DEF Delete, Goes
    <3>2. Creating' \subseteq Creating /\ Read' \subseteq Read
      BY <3>1 DEF Creating, Saving, Read, TypeOK
    <3>3. DOMAIN rows' \subseteq DOMAIN rows
      BY <2>6 DEF Delete, Remove
    <3> QED BY <3>2, <3>3, BudgetShrinks
  <2>7. CASE Refused(r) \/ Store(r)
    <3>1. request' = [request EXCEPT ![r] = Idle] /\ rows' = rows
      BY <2>7 DEF Refused, Store, Goes
    <3>2. Creating' \subseteq Creating /\ Read' \subseteq Read
      BY <3>1 DEF Creating, Saving, Read, Idle, TypeOK
    <3> QED BY <3>1, <3>2, BudgetShrinks
  <2>8. CASE Reload(r)
    <3>1. \/ request' = [request EXCEPT ![r] = Idle]
          \/ request' = [request EXCEPT ![r] = [pc |-> "store", list |-> rows]]
      BY <2>8 DEF Reload, Goes
    <3>2. Creating' \subseteq Creating /\ Read' \subseteq Read
      BY <3>1 DEF Creating, Saving, Read, Idle, TypeOK
    <3> QED BY <2>8, <3>2, BudgetShrinks DEF Reload
  <2> QED BY <2>1, <2>2, <2>3, <2>4, <2>5, <2>6, <2>7, <2>8 DEF RequestStep
<1>2. CASE \E d \in Dispatcher : DispatcherStep(d)
  <2>1. UNCHANGED <<rows, request>>
    BY <1>2 DEF DispatcherStep, Miss, LazyReload, LazyStore
  <2> QED BY <2>1 DEF Budget, Read, Saving, Creating
<1>3. CASE UNCHANGED vars
  BY <1>3 DEF vars, Budget, Read, Saving, Creating
<1> QED BY <1>1, <1>2, <1>3 DEF Next

LEMMA BudgetInit == Init => Budget
<1> SUFFICES ASSUME Init PROVE Budget
  OBVIOUS
<1>1. Creating = {} /\ Read = {} /\ DOMAIN rows = {}
  BY DEF Init, Creating, Saving, Read, Idle, Empty
<1>2. Cardinality(Request) \in Nat /\ Cardinality(Request) # 0
  BY PoolsAssumption, FS_CardinalityType, FS_EmptySet
<1>3. Cardinality({}) = 0
  BY FS_EmptySet
<1> QED BY <1>1, <1>2, <1>3, CapAssumption DEF Budget

LEMMA BudgetSuffices == TypeOK /\ Budget => CapOvershoot
<1> SUFFICES ASSUME TypeOK, Budget PROVE CapOvershoot
  OBVIOUS
<1>1. Cardinality(DOMAIN rows) <= Cardinality(DOMAIN rows \cup Read)
  BY CountsFinite, FS_Subset
<1>2. /\ Cardinality(DOMAIN rows) \in Nat /\ Cardinality(Creating) \in Nat
      /\ Cardinality(DOMAIN rows \cup Read) \in Nat
      /\ Cardinality(Request) \in Nat
  BY CountsFinite, PoolsAssumption, FS_CardinalityType
<1> QED BY <1>1, <1>2, CapAssumption DEF Budget, CapOvershoot

(* An instance never has the cap plus the number of concurrent requests.   *)
THEOREM CapOvershootHolds == Spec => []CapOvershoot
<1>1. Spec => []Budget
  BY BudgetInit, BudgetStep, TypeCorrect, PTL DEF Spec
<1> QED BY <1>1, TypeCorrect, BudgetSuffices, PTL
=============================================================================
