--------------------------- MODULE WebhookStore ---------------------------
(***************************************************************************)
(* The webhooks of one instance: the table instance_webhooks, the cache    *)
(* that Dispatch reads instead of it, and the requests that change both    *)
(* (pkg/webhook/service/webhook_service.go).  Every call of the repository *)
(* is a step of its own, for nothing holds a lock over two of them.        *)
(***************************************************************************)
EXTENDS Naturals, FiniteSets

CONSTANTS
  Webhook,                \* the uuids that can be drawn (a bound)
  Request,                \* the HTTP requests served at one time (a bound)
  Dispatcher,             \* the events dispatched at one time (a bound)
  Input,                  \* the bodies of POST and PUT that are considered
  MaxWebhooksPerInstance

ASSUME PoolsAssumption ==
  /\ IsFiniteSet(Webhook) /\ IsFiniteSet(Dispatcher)
  /\ IsFiniteSet(Request) /\ Request # {}

ASSUME CapAssumption == MaxWebhooksPerInstance \in Nat

------------------------------------------------------------------------------
(* WebhookInput, reduced to a switch, the flag of ADR-0049 and a field     *)
(* with a default.  A *bool is the set of what it points to: {} is nil.    *)

Pointer == {{}, {TRUE}, {FALSE}}

WebhookInput ==
  [enabled : Pointer, ignoreFromMe : Pointer,
   chatType : {"", "any", "group", "individual"}]

ASSUME InputAssumption == Input \subseteq WebhookInput /\ Input # {}

Fields ==
  [enabled : BOOLEAN, ignoreFromMe : BOOLEAN,
   chatType : {"any", "group", "individual"}]

toModel(in) ==
  [enabled |-> in.enabled # {FALSE},
   ignoreFromMe |-> in.ignoreFromMe # {FALSE},
   chatType |-> IF in.chatType = "" THEN "any" ELSE in.chatType]

(* A table, and a list read from it: what is stored under which id.        *)
Table == UNION {[ids -> Fields] : ids \in SUBSET Webhook}

Empty == [w \in {} |-> 0]

VARIABLES
  rows,        \* the rows of instance_webhooks that belong to the instance
  loaded,      \* whether the cache has an entry for the instance
  cache,       \* that entry
  request,
  dispatcher,
  overtaken    \* history: the last store left the cache behind the table,
               \* or a reload that a change needed has failed since

vars == <<rows, loaded, cache, request, dispatcher, overtaken>>

Idle == [pc |-> "idle"]

RequestState ==
  {Idle, [pc |-> "list"]}
    \cup [pc : {"insert"}, input : Input]
    \cup [pc : {"save"}, id : Webhook, input : Input]
    \cup [pc : {"store"}, list : Table]

DispatcherState ==
  {Idle, [pc |-> "list"]} \cup [pc : {"store"}, list : Table]

(* The table and the cache hold webhooks with every field set (a chat type *)
(* that is none of the three would pass every filter), and each request is *)
(* at one of the calls it makes.                                           *)
TypeOK ==
  /\ rows \in Table
  /\ loaded \in BOOLEAN
  /\ cache \in Table
  /\ request \in [Request -> RequestState]
  /\ dispatcher \in [Dispatcher -> DispatcherState]
  /\ overtaken \in BOOLEAN

Init ==
  /\ rows = Empty
  /\ loaded = FALSE /\ cache = Empty
  /\ request = [r \in Request |-> Idle]
  /\ dispatcher = [d \in Dispatcher |-> Idle]
  /\ overtaken = FALSE

Goes(r, state) == request' = [request EXCEPT ![r] = state]

(* db.Save, which inserts a row that is not there, and db.Create.          *)
Put(w, f) ==
  rows' = [v \in DOMAIN rows \cup {w} |-> IF v = w THEN f ELSE rows[v]]

Remove(w) == rows' = [v \in DOMAIN rows \ {w} |-> rows[v]]

(* A new uuid is known to nobody.                                          *)
Fresh ==
  {w \in Webhook :
     /\ w \notin DOMAIN rows \cup DOMAIN cache
     /\ \A r \in Request :
          /\ request[r].pc = "save" => request[r].id # w
          /\ request[r].pc = "store" => w \notin DOMAIN request[r].list
     /\ \A d \in Dispatcher :
          dispatcher[d].pc = "store" => w \notin DOMAIN dispatcher[d].list}

------------------------------------------------------------------------------
(* Create: count, insert, reload.                                          *)

(* Faulty variant: the cap itself passes the test.                         *)
Create_OneMore(r) ==
  /\ request[r] = Idle
  /\ Cardinality(DOMAIN rows) <= MaxWebhooksPerInstance
  /\ \E in \in Input : Goes(r, [pc |-> "insert", input |-> in])
  /\ UNCHANGED <<rows, loaded, cache, dispatcher, overtaken>>

Create(r) ==
  /\ request[r] = Idle
  /\ Cardinality(DOMAIN rows) < MaxWebhooksPerInstance
  /\ \E in \in Input : Goes(r, [pc |-> "insert", input |-> in])
  /\ UNCHANGED <<rows, loaded, cache, dispatcher, overtaken>>

Insert(r) ==
  /\ request[r].pc = "insert"
  /\ \E w \in Fresh : Put(w, toModel(request[r].input))
  /\ Goes(r, [pc |-> "list"])
  /\ UNCHANGED <<loaded, cache, dispatcher, overtaken>>

(* Update: get, save, reload.                                              *)

Update(r) ==
  /\ request[r] = Idle
  /\ \E w \in DOMAIN rows, in \in Input :
       Goes(r, [pc |-> "save", id |-> w, input |-> in])
  /\ UNCHANGED <<rows, loaded, cache, dispatcher, overtaken>>

Save(r) ==
  /\ request[r].pc = "save"
  /\ Put(request[r].id, toModel(request[r].input))
  /\ Goes(r, [pc |-> "list"])
  /\ UNCHANGED <<loaded, cache, dispatcher, overtaken>>

(* Delete: an id that has no row is no error, and reloads too.             *)

(* Faulty variant: the cache is left as it is.                             *)
Delete_NoReload(r) ==
  /\ request[r] = Idle
  /\ \E w \in Webhook : Remove(w)
  /\ UNCHANGED <<loaded, cache, request, dispatcher, overtaken>>

Delete(r) ==
  /\ request[r] = Idle
  /\ \E w \in Webhook : Remove(w)
  /\ Goes(r, [pc |-> "list"])
  /\ UNCHANGED <<loaded, cache, dispatcher, overtaken>>

(* The database refuses the insert or the save, and the request ends.      *)
Refused(r) ==
  /\ request[r].pc \in {"insert", "save"}
  /\ Goes(r, Idle)
  /\ UNCHANGED <<rows, loaded, cache, dispatcher, overtaken>>

------------------------------------------------------------------------------
(* Reload, at the end of the three requests: read the table, store it in   *)
(* the cache.  Its error is dropped.                                       *)

Reload(r) ==
  /\ request[r].pc = "list"
  /\ \/ Goes(r, [pc |-> "store", list |-> rows]) /\ UNCHANGED overtaken
     \/ Goes(r, Idle) /\ overtaken' = TRUE
  /\ UNCHANGED <<rows, loaded, cache, dispatcher>>

Stored(list) ==
  /\ loaded' = TRUE
  /\ cache' = list
  /\ overtaken' = (list # rows)

Store(r) ==
  /\ request[r].pc = "store"
  /\ Stored(request[r].list)
  /\ Goes(r, Idle)
  /\ UNCHANGED <<rows, dispatcher>>

(* getCached, when Dispatch finds no entry: the same Reload.  One that     *)
(* finds the entry changes nothing.                                        *)

Miss(d) ==
  /\ dispatcher[d] = Idle /\ ~loaded
  /\ dispatcher' = [dispatcher EXCEPT ![d] = [pc |-> "list"]]
  /\ UNCHANGED <<rows, loaded, cache, request, overtaken>>

LazyReload(d) ==
  /\ dispatcher[d].pc = "list"
  /\ \/ dispatcher' = [dispatcher EXCEPT ![d] = [pc |-> "store", list |-> rows]]
     \/ dispatcher' = [dispatcher EXCEPT ![d] = Idle]
  /\ UNCHANGED <<rows, loaded, cache, request, overtaken>>

LazyStore(d) ==
  /\ dispatcher[d].pc = "store"
  /\ Stored(dispatcher[d].list)
  /\ dispatcher' = [dispatcher EXCEPT ![d] = Idle]
  /\ UNCHANGED <<rows, request>>

------------------------------------------------------------------------------
RequestStep(r) ==
  \/ Create(r) \/ Insert(r) \/ Update(r) \/ Save(r) \/ Delete(r)
  \/ Refused(r) \/ Reload(r) \/ Store(r)

DispatcherStep(d) == Miss(d) \/ LazyReload(d) \/ LazyStore(d)

Next ==
  \/ \E r \in Request : RequestStep(r)
  \/ \E d \in Dispatcher : DispatcherStep(d)

Spec == Init /\ [][Next]_vars

------------------------------------------------------------------------------
(* How far creates that pass the test together, and updates that bring a   *)
(* deleted row back, can push an instance over the cap: by less than the   *)
(* number of requests served at one time, however long it goes on.         *)
CapOvershoot ==
  Cardinality(DOMAIN rows) < MaxWebhooksPerInstance + Cardinality(Request)

(* The cache is behind the table only while a change has its reload still  *)
(* to do, or when its reload failed or an older list was stored over it:   *)
(* no request changes the table and forgets the cache.                     *)
StaleOnlyByRace ==
  loaded /\ cache # rows =>
    overtaken \/ \E r \in Request : request[r].pc \in {"list", "store"}
=============================================================================
