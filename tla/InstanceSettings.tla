-------------------------- MODULE InstanceSettings --------------------------
(***************************************************************************)
(* What happens to the settings of one instance: the row of the table      *)
(* instances, the copies of it that requests load and save whole           *)
(* (gorm's Save), and the copy the running client works with               *)
(* (MyClient.Instance and the fields beside it).  A setting is the number  *)
(* of the write that gave it its value, and a proxy that was removed is 0. *)
(* Of the client only what decides which copy is used is kept here; its    *)
(* life is in InstanceLifecycle.                                           *)
(***************************************************************************)
EXTENDS Naturals, FiniteSets

CONSTANTS
  Request,      \* the requests and events served, each once (a bound)
  MaxServed,    \* how many are served at one time (a bound)
  Op,           \* what they may ask for
  DefaultProxy  \* the configuration has a proxy of its own

ASSUME RequestAssumption == IsFiniteSet(Request)

ASSUME OpAssumption ==
  Op \subseteq {"connect", "disconnect", "logout", "pair", "proxy", "noproxy",
                "advanced", "reconnect", "event", "delete"}

ASSUME DefaultAssumption == DefaultProxy \in BOOLEAN

Setting == {"events", "webhook", "proxy", "advanced"}

Column == Setting \cup {"jid", "connected"}

Row == [Column -> Nat]

NoRow == [none |-> TRUE]

NoClient == [none |-> TRUE]

(* MyClient: its Instance, and the sinks and subscriptions kept beside it. *)
MyClient == [instance : Row, webhook : Nat, subscriptions : Nat]

VARIABLES
  row,          \* the row of the instance, or NoRow
  client,       \* clientPointer: "none", or a client that is "up" or "down"
  running,      \* myClientPointer: the MyClient, or NoClient
  pending,      \* the row copies that goroutines are about to start with
  watching,     \* the row copies of the supervisors that wait for a kill
  op, pc,       \* what each request asks for, and how far it is
  copy,         \* the row a request has loaded
  fresh,        \* the row it reads again for the running client
  clock,        \* the writes so far
  last,         \* history: the last write of each column
  deleted,      \* history: the last Delete was not followed by a Create
  since,        \* history: what was written after a request's load
  overtaken,    \* history: what a whole-row save may have put back
  raced         \* history: requests overlapped, or a client was restarted
                \* with a row that was not the current one, or a proxy was
                \* filled in beside a client that had already been started

memory == <<client, running, pending, watching>>
ghosts == <<last, deleted, since, overtaken>>
vars == <<row, memory, op, pc, copy, fresh, clock, ghosts, raced>>

Blank == [c \in Column |-> 0]

MyClientOf(cd) ==
  [instance |-> cd, webhook |-> cd["webhook"], subscriptions |-> cd["events"]]

Init ==
  /\ row = Blank /\ client = "up" /\ running = MyClientOf(Blank)
  /\ pending = {} /\ watching = {Blank}
  /\ op = [r \in Request |-> "none"] /\ pc = [r \in Request |-> "idle"]
  /\ copy = [r \in Request |-> Blank] /\ fresh = copy /\ clock = 0
  /\ last = Blank /\ deleted = FALSE
  /\ since = [r \in Request |-> {}] /\ overtaken = {} /\ raced = FALSE

------------------------------------------------------------------------------
(* The table.                                                              *)

Served == {r \in Request : pc[r] \notin {"idle", "done"}}

(* The copies that others hold of these columns are old now.               *)
Ages(writers, cs) ==
  since' = [r \in Request |->
              IF r \in Served \ writers THEN since[r] \cup cs ELSE since[r]]

Busy == Served # {} \/ pending # {}

Stamp(target, cs) ==
  [c \in Column |-> IF c \in cs THEN clock + 1 ELSE target[c]]

(* Columns are updated where id = ?: without the row nothing happens.      *)
UpdateColumns(writers, cs) ==
  IF row = NoRow
  THEN UNCHANGED <<row, clock, ghosts>>
  ELSE /\ row' = Stamp(row, cs) /\ last' = Stamp(last, cs)
       /\ clock' = clock + 1
       /\ overtaken' = overtaken \ cs
       /\ Ages(writers, cs)
       /\ UNCHANGED deleted

(* The fields a handler sets in its copy before it saves the whole row.    *)
Sets(o) ==
  CASE o = "connect" -> {"events", "webhook"}
    [] o = "disconnect" -> {"events"}
    [] o = "logout" -> {"connected"}
    [] o = "pair" -> {"jid", "connected"}
    [] OTHER -> {"proxy"}

(* What a save leaves of a row.                                            *)
Written(o, target) ==
  [c \in Column |-> IF c \notin Sets(o) THEN target[c]
                   ELSE IF o = "noproxy" THEN 0 ELSE clock + 1]

(* Save writes every column, and inserts the row when it is not there.     *)
Update(r) ==
  LET cs == Sets(op[r])
  IN  /\ row' = Written(op[r], copy[r]) /\ last' = Written(op[r], last)
      /\ copy' = [copy EXCEPT ![r] = row']
      /\ clock' = clock + 1
      /\ overtaken' = (overtaken \ cs) \cup (since[r] \ cs)
      /\ Ages({r}, cs)
      /\ UNCHANGED deleted

(* Faulty variant: PairSuccess saves the copy the client started with.     *)
Fetched_Running(o) ==
  IF o = "pair" /\ running # NoClient THEN running.instance ELSE row

(* The row a request starts from: the one of its token or its id, and for  *)
(* PairSuccess the one of the client's instance.                           *)
Fetched(o) == row

FirstStep(o) ==
  CASE o \in {"disconnect", "logout", "reconnect"} -> "ensure"
    [] o = "advanced" -> "column"
    [] o = "delete" -> "forget"
    [] OTHER -> "save"

Load(r, o) ==
  /\ pc[r] = "idle" /\ o # "event" /\ Cardinality(Served) < MaxServed
  /\ row # NoRow
  /\ o = "pair" => running # NoClient
  /\ op' = [op EXCEPT ![r] = o]
  /\ pc' = [pc EXCEPT ![r] = FirstStep(o)]
  /\ copy' = [copy EXCEPT ![r] = Fetched(o)]
  /\ since' = [since EXCEPT ![r] = {}]
  /\ raced' = (raced \/ Busy)
  /\ UNCHANGED <<row, memory, fresh, clock, last, deleted, overtaken>>

Goto(r, step) == pc' = [pc EXCEPT ![r] = step]

(* Who deletes the row, and who saves a copy without having seen that.     *)
DeleteRow(r) ==
  /\ pc[r] = "drop"
  /\ row' = NoRow /\ deleted' = TRUE
  /\ overtaken' = overtaken \ {"row"}
  /\ Ages({r}, {"row"})
  /\ Goto(r, "done")
  /\ UNCHANGED <<memory, op, copy, fresh, clock, last, raced>>

(* Faulty variant: a proxy is stored and nobody reconnects.                *)
AfterSave_NoReconnect(o) ==
  CASE o = "connect" -> "sync" [] o = "logout" -> "signal" [] OTHER -> "done"

AfterSave(o) ==
  CASE o = "connect" -> "sync"
    [] o = "logout" -> "signal"
    [] o \in {"proxy", "noproxy"} -> "ensure"
    [] OTHER -> "done"

(* Disconnect empties the events of the row, never those of the client.    *)
SaveRow(r) ==
  /\ pc[r] = "save"
  /\ Update(r)
  /\ Goto(r, AfterSave(op[r]))
  /\ raced' = (raced \/ op[r] = "disconnect")
  /\ UNCHANGED <<memory, op, fresh>>

(* UpdateAdvancedSettings writes its columns; copy keeps what it asked for.*)
UpdateAdvancedSettings(r) ==
  /\ pc[r] = "column"
  /\ UpdateColumns({r}, {"advanced"})
  /\ copy' = IF row = NoRow THEN copy
             ELSE [copy EXCEPT ![r] = Stamp(copy[r], {"advanced"})]
  /\ Goto(r, "sync")
  /\ UNCHANGED <<memory, op, fresh, raced>>

------------------------------------------------------------------------------
(* Bringing the settings to the running client.                            *)

Starts(cds) == pending' = pending \cup cds

(* Without the row, Connect starts a client and the other one only warns.  *)
ReadBack(r) ==
  /\ pc[r] = "sync"
  /\ IF row # NoRow
     THEN /\ fresh' = [fresh EXCEPT ![r] = row]
          /\ Goto(r, "apply")
          /\ UNCHANGED pending
     ELSE /\ Starts(IF op[r] = "connect" THEN {copy[r]} ELSE {})
          /\ Goto(r, "done")
          /\ UNCHANGED fresh
  /\ UNCHANGED <<row, client, running, watching, op, copy, clock, ghosts, raced>>

(* Faulty variant: the sinks and subscriptions are left as they were.      *)
Applied_InstanceOnly(o, new) == [running EXCEPT !.instance = new]

(* UpdateInstanceSettings and UpdateInstanceAdvancedSettings.              *)
Applied(o, new) ==
  IF o = "connect" THEN MyClientOf(new) ELSE [running EXCEPT !.instance = new]

Apply(r) ==
  /\ pc[r] = "apply"
  /\ IF running # NoClient
     THEN running' = Applied(op[r], fresh[r]) /\ UNCHANGED pending
     ELSE /\ Starts(IF op[r] = "connect" THEN {copy[r]} ELSE {})
          /\ UNCHANGED running
  /\ Goto(r, "done")
  /\ UNCHANGED <<row, client, watching, op, copy, fresh, clock, ghosts, raced>>

(* StartClient leaves a connected client alone; one whose connection fails *)
(* is left registered, and nobody waits for its kill.                      *)
StartClient(cd) ==
  /\ cd \in pending
  /\ pending' = pending \ {cd}
  /\ \/ client = "up" /\ UNCHANGED <<client, running, watching>>
     \/ /\ client # "up"
        /\ running' = MyClientOf(cd)
        /\ \/ client' = "up" /\ watching' = watching \cup {cd}
           \/ client' = "down" /\ UNCHANGED watching
  /\ UNCHANGED <<row, op, pc, copy, fresh, clock, ghosts, raced>>

(* A supervisor that hears a kill forgets the client and starts another    *)
(* one with the row it was given itself.                                   *)
Killed(cd) ==
  /\ cd \in watching
  /\ watching' = watching \ {cd} /\ Starts({cd})
  /\ raced' = (raced \/ row = NoRow \/ \E c \in Setting : cd[c] # row[c])

NobodyKilled == UNCHANGED <<watching, pending, raced>>

Startable == row # NoRow

(* StartInstance starts with the row as it is now.  A missing proxy is     *)
(* first filled in from the configuration; nothing starts if that fails.   *)
StartInstance(r, next) ==
  /\ \/ /\ Startable /\ (row["proxy"] = 0 => ~DefaultProxy)
        /\ Starts({row}) /\ Goto(r, next)
        /\ UNCHANGED <<row, clock, ghosts, raced>>
     \/ /\ Startable /\ row["proxy"] = 0 /\ DefaultProxy
        /\ UpdateColumns({}, {"proxy"})
        /\ Starts({row'}) /\ Goto(r, next)
        /\ raced' = (raced \/ client = "up" \/ pending # {})
     \/ /\ Startable => row["proxy"] = 0 /\ DefaultProxy
        /\ Goto(r, "done")
        /\ UNCHANGED <<row, clock, ghosts, pending, raced>>
  /\ UNCHANGED <<client, running, watching>>

AfterEnsure(o) ==
  CASE o = "disconnect" -> {"kill", "done"}
    [] o = "logout" -> {"save", "signal"}
    [] OTHER -> {"clean"}

(* ensureClientConnected: without a client one is started and waited for.  *)
Ensure(r) ==
  /\ pc[r] \in {"ensure", "wait"}
  /\ \/ /\ client = "up" /\ UNCHANGED <<row, memory, clock, ghosts, raced>>
        /\ \E step \in AfterEnsure(op[r]) : Goto(r, step)
     \/ /\ client = "down" \/ (client = "none" /\ pc[r] = "wait")
        /\ UNCHANGED <<row, memory, clock, ghosts, raced>> /\ Goto(r, "done")
     \/ client = "none" /\ pc[r] = "ensure" /\ StartInstance(r, "wait")
  /\ UNCHANGED <<op, copy, fresh>>

(* Disconnect waits until a supervisor has taken the kill, whose teardown  *)
(* writes the row that Disconnect will save the copy of.                   *)
Kill(r) ==
  /\ pc[r] = "kill"
  /\ \E cd \in watching : Killed(cd)
  /\ client' = "none" /\ running' = NoClient
  /\ UpdateColumns({}, {"connected"})
  /\ Goto(r, "save")
  /\ UNCHANGED <<op, copy, fresh>>

(* Logout waits five seconds for that, and forgets the client.             *)
Signal(r) ==
  /\ pc[r] = "signal"
  /\ client' = "none"
  /\ \/ NobodyKilled /\ UNCHANGED <<row, clock, ghosts, running>>
     \/ /\ \E cd \in watching : Killed(cd)
        /\ running' = NoClient
        /\ UpdateColumns({}, {"connected"})
  /\ Goto(r, "done")
  /\ UNCHANGED <<op, copy, fresh>>

(* ReconnectClient drops the client, and a supervisor may hear of it.      *)
Clean(r) ==
  /\ pc[r] = "clean"
  /\ client' = "none" /\ running' = NoClient
  /\ NobodyKilled \/ \E cd \in watching : Killed(cd)
  /\ UpdateColumns({}, {"connected"})
  /\ Goto(r, IF row = NoRow THEN "done" ELSE "restart")
  /\ UNCHANGED <<op, copy, fresh>>

Restart(r) ==
  /\ pc[r] = "restart"
  /\ StartInstance(r, "done")
  /\ UNCHANGED <<op, copy, fresh>>

(* Delete clears everything in memory; a supervisor that finds its channel *)
(* closed takes that for a kill.                                           *)
Forget(r) ==
  /\ pc[r] = "forget"
  /\ client' = "none" /\ running' = NoClient
  /\ \/ NobodyKilled /\ UNCHANGED <<row, clock, ghosts>>
     \/ (\E cd \in watching : Killed(cd)) /\ UpdateColumns({}, {"connected"})
  /\ Goto(r, "drop")
  /\ UNCHANGED <<op, copy, fresh>>

(* A Connected or a Disconnected event of the running client.              *)
Event(r) ==
  /\ pc[r] = "idle" /\ "event" \in Op /\ running # NoClient /\ client = "up"
  /\ client' \in {"up", "down"}
  /\ UpdateColumns({}, {"connected"})
  /\ op' = [op EXCEPT ![r] = "event"] /\ Goto(r, "done")
  /\ raced' = (raced \/ Busy)
  /\ UNCHANGED <<running, pending, watching, copy, fresh>>

------------------------------------------------------------------------------

RequestStep(r) ==
  \/ \E o \in Op : Load(r, o)
  \/ SaveRow(r) \/ UpdateAdvancedSettings(r) \/ ReadBack(r) \/ Apply(r)
  \/ Ensure(r) \/ Kill(r) \/ Signal(r) \/ Clean(r) \/ Restart(r)
  \/ Forget(r) \/ DeleteRow(r) \/ Event(r)

Next ==
  \/ \E r \in Request : RequestStep(r)
  \/ \E cd \in pending : StartClient(cd)

Spec == Init /\ [][Next]_vars

------------------------------------------------------------------------------

Steps == {"idle", "ensure", "wait", "kill", "save", "column", "sync", "apply",
          "clean", "restart", "signal", "forget", "drop", "done"}

(* Every copy in use was read from a row that was there.                   *)
TypeOK ==
  /\ row \in Row \cup {NoRow}
  /\ client \in {"none", "up", "down"}
  /\ running \in MyClient \cup {NoClient}
  /\ pending \subseteq Row /\ watching \subseteq Row
  /\ op \in [Request -> Op \cup {"none", "event"}]
  /\ pc \in [Request -> Steps]
  /\ copy \in [Request -> Row] /\ fresh \in [Request -> Row]
  /\ clock \in Nat /\ last \in Row
  /\ deleted \in BOOLEAN /\ raced \in BOOLEAN
  /\ since \in [Request -> SUBSET (Column \cup {"row"})]
  /\ overtaken \subseteq Column \cup {"row"}

(* A setting goes back to an older value, and a deleted instance comes     *)
(* back, only when a handler saved a whole row that it had loaded before   *)
(* the newer write (Connect, Disconnect, Logout, the proxy requests and    *)
(* PairSuccess all save whole rows).                                       *)
LostOnlyToOverlap ==
  /\ deleted /\ row # NoRow => "row" \in overtaken
  /\ row # NoRow => \A c \in Column \ overtaken : row[c] = last[c]

(* As long as requests come one at a time, and no supervisor restarts its  *)
(* client with an old row, the connected client works with the settings    *)
(* of the row: whoever changes a setting tells the client or replaces it.  *)
RunningFollowsRow ==
  ~raced /\ ~Busy /\ client = "up" /\ running # NoClient /\ row # NoRow =>
    /\ \A c \in Setting : running.instance[c] = row[c]
    /\ running.webhook = row["webhook"]
    /\ running.subscriptions = row["events"]

(* When Connect or UpdateAdvancedSettings ends with a client running, that *)
(* client has the settings asked for, or ones written since the request    *)
(* began or put back by an overlapping save.                               *)
AnswerIsInForce ==
  [][\A r \in Request :
       pc[r] = "apply" /\ pc[r]' = "done" /\ running' # NoClient =>
         LET held(c) == c \in since[r] \cup overtaken
         IN  IF op[r] = "connect"
             THEN /\ held("webhook") \/ running.webhook' >= copy[r]["webhook"]
                  /\ held("events")
                     \/ running.subscriptions' >= copy[r]["events"]
             ELSE held("advanced")
                  \/ running.instance'["advanced"] >= copy[r]["advanced"]]_vars

=============================================================================
