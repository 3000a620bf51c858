------------------------- MODULE InstanceLifecycle -------------------------
(***************************************************************************)
(* The life of ONE WhatsApp instance of the server: the goroutines that    *)
(* run StartClient (its "supervisors"), the whatsmeow clients they own,    *)
(* the maps clientPointer, myClientPointer and killChannel that every API  *)
(* request and event handler reads and writes without a lock, the kill     *)
(* channel itself (unbuffered), the presence goroutines that also receive  *)
(* from it, and the instance's row in the database.                        *)
(*                                                                         *)
(*   pkg/whatsmeow/service/whatsmeow.go      StartClient, ReconnectClient, *)
(*                                           StartInstance, the handlers   *)
(*   pkg/instance/service/instance_service.go    the API operations        *)
(*                                                                         *)
(* Goroutines, clients and channels come from finite pools; a member that  *)
(* nothing refers to any more is used again, so the pools bound what is    *)
(* alive at one time and not how long the server has been running.         *)
(***************************************************************************)
EXTENDS Integers

CONSTANTS
  Thread,          (* goroutines inside StartClient                          *)
  Client,          (* whatsmeow.Client objects                               *)
  Chan,            (* kill channels                                          *)
  Presence,        (* goroutines inside schedulePresenceUpdates              *)
  Request,         (* API requests in progress                               *)
  Reconnector,     (* goroutines the Disconnected handler starts             *)
  Ops,             (* the API operations the requests may be                 *)
  QrcodeMaxCount,  (* config.QrcodeMaxCount; 0 disables the limit            *)
  MaxCodes,        (* bound: QR codes whatsmeow offers before its timeout    *)
  Happens          (* what the environment does: a set of EnvironmentEvent   *)

(* The pools are numbered, so that the lowest free member is taken first;  *)
(* 0 stands for "no client" and "no channel" (a nil entry of the maps).    *)
ASSUME PoolsAssumption ==
  /\ Thread \subseteq Nat \ {0}
  /\ Client \subseteq Nat \ {0}
  /\ Chan \subseteq Nat \ {0}
  /\ Presence \subseteq Nat \ {0}
  /\ Request \subseteq Nat \ {0}
  /\ Reconnector \subseteq Nat \ {0}
  /\ Request \cap Reconnector = {}

ASSUME ConfigAssumption ==
  /\ QrcodeMaxCount \in Nat
  /\ MaxCodes \in Nat
  /\ Ops \subseteq {"connect", "status", "getqr", "disconnect", "reconnect",
                    "logout", "forcereconnect", "delete", "create"}

EnvironmentEvent == {"crash", "startfail", "pair", "pushname", "drop", "logout",
                     "replaced", "failure", "undecryptable", "savefail"}

ASSUME EnvironmentAssumption == Happens \subseteq EnvironmentEvent

NoClient == 0
NoChan   == 0

VARIABLES
  row,              (* the instance's row in the database                    *)
  session,          (* the store holds the device that was linked last       *)
  clientPointer,    (* clientPointer[instanceId]                             *)
  myClientPointer,  (* myClientPointer[instanceId].WAClient                  *)
  killChannel,      (* killChannel[instanceId]                               *)
  thread,           (* the StartClient goroutines                            *)
  client,           (* the whatsmeow clients                                 *)
  presence,         (* the schedulePresenceUpdates goroutines                *)
  request,          (* the API requests, and the reconnecting goroutines     *)
  process           (* "booting", "running" or "panicked"                    *)

vars == <<row, session, clientPointer, myClientPointer, killChannel, thread,
          client, presence, request, process>>

maps       == <<clientPointer, myClientPointer, killChannel>>
pointers   == <<clientPointer, myClientPointer>>
goroutines == <<thread, presence, request>>

-----------------------------------------------------------------------------
(* Types.  A row that does not exist is NoRow.                             *)

(* A jid is that of the device linked last, or of one linked before it.    *)
Jid == {"none", "linked", "old"}

Row == [exists : BOOLEAN, connected : BOOLEAN, jid : Jid]

NoRow     == [exists |-> FALSE, connected |-> FALSE, jid |-> "none"]
FreshRow  == [NoRow EXCEPT !.exists = TRUE]
PairedRow == [FreshRow EXCEPT !.connected = TRUE, !.jid = "linked"]

ThreadPc == {"none", "enter", "setup", "register", "connect", "qr", "qrSend",
             "poll", "killed"}

(* jid: cd.Instance.Jid; device: its device was found in the store;        *)
(* restarted: this call of StartClient is the supervisor's own (line 791). *)
ThreadState == [pc : ThreadPc, client : Client \cup {NoClient},
                chan : Chan \cup {NoChan}, jid : Jid, device : BOOLEAN,
                restarted : BOOLEAN]

NoThread == [pc |-> "none", client |-> NoClient, chan |-> NoChan, jid |-> "none",
             device |-> FALSE, restarted |-> FALSE]

ClientEvent == {"none", "Connected", "PairSuccess", "Disconnected",
                "LoggedOut", "ConnectFailure", "Undecryptable"}

(* id: Store.ID # nil; handler: the event handler is removed, idle, or     *)
(* blocked in the kill send of the LoggedOut case (on the channel chan);   *)
(* event: the event waiting for the handler; codes: mycli.qrcodeCount.     *)
ClientState == [socket : {"down", "up"}, loggedIn : BOOLEAN, id : BOOLEAN,
                handler : {"off", "idle", "kill"}, event : ClientEvent,
                chan : Chan \cup {NoChan}, codes : 0..MaxCodes]

NewClientState(id) ==
  [socket |-> "down", loggedIn |-> FALSE, id |-> id, handler |-> "off",
   event |-> "none", chan |-> NoChan, codes |-> 0]

PresenceState == [pc : {"none", "ready", "wait"}, chan : Chan \cup {NoChan}]
NoPresence    == [pc |-> "none", chan |-> NoChan]

RequestPc == {"none", "op", "wait", "ensured", "send", "sendTimeout", "sent",
              "clean", "remove", "kill", "forget", "update", "sleep",
              "starting", "closing", "clearing", "deleting"}

(* A goroutine that the Disconnected handler starts does what a Reconnect  *)
(* request does once it has found its client.                              *)
Caller == Request \cup Reconnector

(* row: the copy of the row the auth middleware gave the request; client:  *)
(* what it has found in clientPointer; chan: the channel it sends on.      *)
RequestState == [op : Ops \cup {"none", "reconnect"}, pc : RequestPc, row : Row,
                 client : Client \cup {NoClient}, chan : Chan \cup {NoChan}]

NoRequest == [op |-> "none", pc |-> "none", row |-> NoRow, client |-> NoClient,
              chan |-> NoChan]

TypeOK ==
  /\ row \in Row
  /\ session \in BOOLEAN
  /\ clientPointer \in Client \cup {NoClient}
  /\ myClientPointer \in Client \cup {NoClient}
  /\ killChannel \in Chan \cup {NoChan}
  /\ thread \in [Thread -> ThreadState]
  /\ client \in [Client -> ClientState]
  /\ presence \in [Presence -> PresenceState]
  /\ request \in [Caller -> RequestState]
  /\ process \in {"booting", "running", "panicked"}

-----------------------------------------------------------------------------
(* The pools: the lowest member that nothing refers to.                    *)

Lowest(S) == {x \in S : \A y \in S : x <= y}

FreeThread   == Lowest({g \in Thread : thread[g].pc = "none"})
FreePresence == Lowest({p \in Presence : presence[p].pc = "none"})

FreeReconnector == Lowest({k \in Reconnector : request[k].pc = "none"})

FreeClient ==
  Lowest({c \in Client :
            /\ c \notin {clientPointer, myClientPointer}
            /\ \A g \in Thread : thread[g].client # c
            /\ \A r \in Caller : request[r].client # c
            /\ client[c].socket = "down"
            /\ client[c].handler # "kill"
            /\ client[c].handler = "off" \/ client[c].event = "none"})

FreeChan ==
  Lowest({ch \in Chan :
            /\ ch # killChannel
            /\ \A g \in Thread : thread[g].chan # ch
            /\ \A c \in Client : client[c].chan # ch
            /\ \A p \in Presence : presence[p].chan # ch
            /\ \A r \in Caller : request[r].chan # ch})

-----------------------------------------------------------------------------
(* whatsmeow's client, as this code uses it.                               *)

Up(c) == c # NoClient /\ client[c].socket = "up"

(* IsLoggedIn() is not cleared by a disconnection: on a client whose       *)
(* socket is down it may still say TRUE.                                   *)
IsLoggedIn(c) ==
  IF c = NoClient THEN {FALSE}
  ELSE IF Up(c) THEN {client[c].loggedIn} ELSE BOOLEAN

(* The clients after c.Disconnect(), which emits no event.                 *)
Disconnected(c) ==
  IF c = NoClient THEN client
  ELSE [client EXCEPT ![c].socket = "down", ![c].loggedIn = FALSE]

(* The clients after a successful c.Logout(), which also unlinks.          *)
LoggedOut(c) ==
  [client EXCEPT ![c].socket = "down", ![c].loggedIn = FALSE, ![c].id = FALSE]

(* UpdateConnected: UPDATE ... WHERE id = ?                                *)
SetConnected(r, b) == IF r.exists THEN [r EXCEPT !.connected = b] ELSE r

(* Update: gorm's Save writes every column, and inserts a missing row.     *)
Saved(r) == [r EXCEPT !.exists = TRUE]

-----------------------------------------------------------------------------
(* The kill channel.                                                       *)

BlockedRequest(ch) ==
  {r \in Request : request[r].pc \in {"send", "sendTimeout"} /\ request[r].chan = ch}
BlockedHandler(ch) ==
  {c \in Client : client[c].handler = "kill" /\ client[c].chan = ch}
BlockedThread(ch) ==
  {g \in Thread : thread[g].pc = "qrSend" /\ thread[g].chan = ch}
WaitingPresence(ch) ==
  {p \in Presence : presence[p].pc = "wait" /\ presence[p].chan = ch}

Released(r) == [request EXCEPT ![r].pc = "sent", ![r].chan = NoChan]
HandlerDone(c) == [client EXCEPT ![c].handler = "idle", ![c].chan = NoChan]

(* select { case killChan <- true: default: }: only a goroutine parked in  *)
(* a receive takes it, and a supervisor never parks: its own select has a  *)
(* default.  A missing entry of the map sends nothing.                     *)
TryKill(ch) ==
  IF ch = NoChan \/ WaitingPresence(ch) = {} THEN UNCHANGED presence
  ELSE \E p \in WaitingPresence(ch) :
         presence' = [presence EXCEPT ![p] = NoPresence]

(* The goroutine of a StartClient call: go w.StartClient(clientData).      *)
Started(g, jid) ==
  [thread EXCEPT ![g] = [NoThread EXCEPT !.pc = "enter", !.jid = jid]]

(* StartInstance, for a row that exists.                                   *)
StartInstance ==
  \E ch \in FreeChan, g \in FreeThread :
    /\ killChannel' = ch
    /\ thread' = Started(g, row.jid)
    /\ UNCHANGED pointers

-----------------------------------------------------------------------------
(* The process.                                                            *)

Init ==
  /\ row \in {FreshRow, PairedRow}
  /\ session = (row.jid = "linked")
  /\ clientPointer = NoClient
  /\ myClientPointer = NoClient
  /\ killChannel = NoChan
  /\ thread = [g \in Thread |-> NoThread]
  /\ client = [c \in Client |-> NewClientState(FALSE)]
  /\ presence = [p \in Presence |-> NoPresence]
  /\ request = [r \in Caller |-> NoRequest]
  /\ process = "booting"

MemoryLost ==
  /\ clientPointer' = NoClient
  /\ myClientPointer' = NoClient
  /\ killChannel' = NoChan
  /\ thread' = [g \in Thread |-> NoThread]
  /\ client' = [c \in Client |-> NewClientState(FALSE)]
  /\ presence' = [p \in Presence |-> NoPresence]
  /\ request' = [r \in Caller |-> NoRequest]

Crash ==
  /\ "crash" \in Happens /\ process # "panicked"
  /\ process' = "booting"
  /\ MemoryLost
  /\ UNCHANGED <<row, session>>

Restart ==
  /\ process = "panicked"
  /\ process' = "booting"
  /\ UNCHANGED <<row, session, maps, client, goroutines>>

(* ConnectOnStartup runs beside the HTTP server: requests may come first.  *)
ConnectOnStartup ==
  /\ process = "booting"
  /\ process' = "running"
  /\ IF row.exists /\ row.connected THEN StartInstance
                                    ELSE UNCHANGED <<maps, thread>>
  /\ UNCHANGED <<row, session, client, presence, request>>

-----------------------------------------------------------------------------
(* StartClient.                                                            *)

(* Down to the device store.  A second call returns when the instance's    *)
(* client is connected; any call may return with an error of the store.    *)
(* A jid whose device is gone is started as a new device.                  *)
Enter(g) ==
  LET found == session /\ thread[g].jid = "linked" IN
  /\ thread[g].pc = "enter"
  /\ \/ /\ Up(clientPointer) \/ "startfail" \in Happens
        /\ thread' = [thread EXCEPT ![g] = NoThread]
        /\ UNCHANGED row
     \/ /\ ~Up(clientPointer)
        /\ thread' = [thread EXCEPT ![g].pc = "setup", ![g].device = found]
        /\ row' = IF thread[g].jid # "none" /\ ~found THEN SetConnected(row, FALSE)
                                                      ELSE row
  /\ UNCHANGED <<session, maps, client, presence, request, process>>

(* NewClient, at once in clientPointer ...                                 *)
NewClient(g) ==
  /\ thread[g].pc = "setup"
  /\ \E c \in FreeClient :
       /\ clientPointer' = c
       /\ client' = [client EXCEPT ![c] = NewClientState(thread[g].device)]
       /\ thread' = [thread EXCEPT ![g].pc = "register", ![g].client = c,
                                   ![g].device = FALSE]
  /\ UNCHANGED <<row, session, myClientPointer, killChannel, presence,
                 request, process>>

(* ... and, after the proxy, the event handler and myClientPointer.        *)
AddEventHandler(g) ==
  LET c == thread[g].client IN
  /\ thread[g].pc = "register"
  /\ client' = [client EXCEPT ![c].handler = "idle"]
  /\ myClientPointer' = c
  /\ thread' = [thread EXCEPT ![g].pc = "connect"]
  /\ UNCHANGED <<row, session, clientPointer, killChannel, presence,
                 request, process>>

(* Faulty variant: the call returns after a retry that succeeded.          *)
ConnectClient_RetryReturns(g) ==
  LET c == thread[g].client IN
  /\ thread[g].pc = "connect"
  /\ client' = [client EXCEPT ![c].socket = "up"]
  /\ \/ thread' = [thread EXCEPT ![g].pc = IF client[c].id THEN "poll" ELSE "qr"]
     \/ "startfail" \in Happens /\ thread' = [thread EXCEPT ![g] = NoThread]
  /\ UNCHANGED <<row, session, maps, presence, request, process>>

(* Connect, with its retries; a failure returns and leaves the client in   *)
(* the maps.                                                               *)
ConnectClient(g) ==
  LET c == thread[g].client IN
  /\ thread[g].pc = "connect"
  /\ \/ /\ client' = [client EXCEPT ![c].socket = "up"]
        /\ thread' = [thread EXCEPT ![g].pc = IF client[c].id THEN "poll" ELSE "qr"]
     \/ /\ "startfail" \in Happens
        /\ thread' = [thread EXCEPT ![g] = NoThread]
        /\ UNCHANGED client
  /\ UNCHANGED <<row, session, maps, presence, request, process>>

AtQrLimit(n) == QrcodeMaxCount > 0 /\ n >= QrcodeMaxCount

(* The next of the codes that the server has sent.  They go on, and the    *)
(* loop with them, when the client has been disconnected.                  *)
CodeComes(c) ==
  (Up(c) \/ client[c].codes > 0) /\ ~client[c].id /\ client[c].codes < MaxCodes

(* A "code" event below the limit.                                         *)
QrCode(g) ==
  LET c == thread[g].client
      n == client[c].codes + 1 IN
  /\ thread[g].pc = "qr"
  /\ CodeComes(c)
  /\ ~AtQrLimit(n)
  /\ client' = [client EXCEPT ![c].codes = n]
  /\ UNCHANGED <<row, session, maps, goroutines, process>>

(* Faulty variant: the loop is left, but not the function.                 *)
QrLimit_NoReturn(g) ==
  LET c == thread[g].client
      n == client[c].codes + 1 IN
  /\ thread[g].pc = "qr"
  /\ CodeComes(c)
  /\ AtQrLimit(n)
  /\ client' = [client EXCEPT ![c].codes = n]
  /\ row' = SetConnected(row, FALSE)
  /\ clientPointer' = NoClient
  /\ myClientPointer' = NoClient
  /\ TryKill(killChannel)
  /\ killChannel' = NoChan
  /\ thread' = [thread EXCEPT ![g].pc = "poll"]
  /\ UNCHANGED <<session, request, process>>

(* The "code" event that reaches the limit.  The client is not linked yet, *)
(* so its Logout may well be refused: the error is logged and the socket   *)
(* stays as it is.  The entries that go may be those of a newer client.    *)
QrLimit(g) ==
  LET c == thread[g].client
      n == client[c].codes + 1 IN
  /\ thread[g].pc = "qr"
  /\ CodeComes(c)
  /\ AtQrLimit(n)
  /\ \E s \in {client[c].socket, "down"} :
       client' = [client EXCEPT ![c].codes = n, ![c].socket = s]
  /\ row' = SetConnected(row, FALSE)
  /\ clientPointer' = NoClient
  /\ myClientPointer' = NoClient
  /\ TryKill(killChannel)
  /\ killChannel' = NoChan
  /\ thread' = [thread EXCEPT ![g] = NoThread]
  /\ UNCHANGED <<session, request, process>>

(* The "timeout" event: the supervisor itself sends on the kill channel,   *)
(* and blocks; the QRTimeout event comes after the send.  whatsmeow closes *)
(* the socket when it runs out of codes.                                   *)
QrTimeout(g) ==
  LET c == thread[g].client IN
  /\ thread[g].pc = "qr"
  /\ ~client[c].id /\ client[c].codes > 0
  /\ client' = Disconnected(c)
  /\ clientPointer' = NoClient
  /\ myClientPointer' = NoClient
  /\ thread' = [thread EXCEPT ![g].pc = "qrSend", ![g].chan = killChannel]
  /\ UNCHANGED <<row, session, killChannel, presence, request, process>>

(* "success", or whatever else closes the QR channel.                      *)
QrEnd(g) ==
  /\ thread[g].pc = "qr"
  /\ thread' = [thread EXCEPT ![g].pc = "poll"]
  /\ UNCHANGED <<row, session, maps, client, presence, request,
                 process>>

(* Faulty variant: only what event handlers send is taken.                 *)
PollKill_HandlersOnly(g) ==
  /\ thread[g].pc = "poll" /\ killChannel # NoChan
  /\ \E c \in BlockedHandler(killChannel) :
       /\ client' = HandlerDone(c)
       /\ thread' = [thread EXCEPT ![g].pc = "killed"]
  /\ UNCHANGED <<row, session, maps, presence, request, process>>

(* case <-w.killChannel[id]: whoever is blocked sending on the channel the *)
(* map holds at this moment is released.                                   *)
PollKill(g) ==
  /\ thread[g].pc = "poll" /\ killChannel # NoChan
  /\ \/ \E r \in BlockedRequest(killChannel) :
          /\ request' = Released(r)
          /\ thread' = [thread EXCEPT ![g].pc = "killed"]
          /\ UNCHANGED client
     \/ \E c \in BlockedHandler(killChannel) :
          /\ client' = HandlerDone(c)
          /\ thread' = [thread EXCEPT ![g].pc = "killed"]
          /\ UNCHANGED request
     \/ \E h \in BlockedThread(killChannel) :
          /\ thread' = [thread EXCEPT ![g].pc = "killed", ![h].pc = "poll",
                                      ![h].chan = NoChan]
          /\ UNCHANGED <<client, request>>
  /\ UNCHANGED <<row, session, maps, presence, process>>

(* Faulty variant: the client of the map is disconnected.                  *)
Teardown_OfMap(g) ==
  /\ thread[g].pc = "killed"
  /\ client' = Disconnected(clientPointer)
  /\ clientPointer' = NoClient
  /\ myClientPointer' = NoClient
  /\ row' = SetConnected(row, FALSE)
  /\ thread' = [thread EXCEPT ![g] =
                  [NoThread EXCEPT !.pc = "enter", !.jid = thread[g].jid,
                                   !.restarted = TRUE]]
  /\ UNCHANGED <<session, killChannel, presence, request, process>>

(* The rest of the kill case: the supervisor's own client is disconnected, *)
(* the instance's entries go, and StartClient runs again with the same cd. *)
Teardown(g) ==
  /\ thread[g].pc = "killed"
  /\ client' = Disconnected(thread[g].client)
  /\ clientPointer' = NoClient
  /\ myClientPointer' = NoClient
  /\ row' = SetConnected(row, FALSE)
  /\ thread' = [thread EXCEPT ![g] =
                  [NoThread EXCEPT !.pc = "enter", !.jid = thread[g].jid,
                                   !.restarted = TRUE]]
  /\ UNCHANGED <<session, killChannel, presence, request, process>>

-----------------------------------------------------------------------------
(* schedulePresenceUpdates: each round of the loop evaluates the channel   *)
(* in the map once and waits on that one.                                  *)

PresenceSelect(p) ==
  /\ presence[p].pc = "ready"
  /\ presence' = [presence EXCEPT ![p] = [pc |-> "wait", chan |-> killChannel]]
  /\ UNCHANGED <<row, session, maps, thread, client, request,
                 process>>

PresenceTick(p) ==
  /\ presence[p].pc = "wait"
  /\ presence' = [presence EXCEPT ![p] =
                    IF row.exists THEN [NoPresence EXCEPT !.pc = "ready"]
                                  ELSE NoPresence]
  /\ UNCHANGED <<row, session, maps, thread, client, request,
                 process>>

PresenceKill(p) ==
  LET ch == presence[p].chan IN
  /\ presence[p].pc = "wait" /\ ch # NoChan
  /\ \/ \E r \in BlockedRequest(ch) : request' = Released(r) /\ UNCHANGED <<client, thread>>
     \/ \E c \in BlockedHandler(ch) : client' = HandlerDone(c) /\ UNCHANGED <<request, thread>>
     \/ \E h \in BlockedThread(ch) :
          /\ thread' = [thread EXCEPT ![h].pc = "poll", ![h].chan = NoChan]
          /\ UNCHANGED <<client, request>>
  /\ presence' = [presence EXCEPT ![p] = NoPresence]
  /\ UNCHANGED <<row, session, maps, process>>

-----------------------------------------------------------------------------
(* What WhatsApp does to a connected client (external).                    *)

Emitted(c, e) ==
  [client EXCEPT ![c].event = IF client[c].handler = "off" THEN "none" ELSE e]

EventQueueFree(c) == client[c].event = "none"

(* Without a push name the Connected event is ignored, and the one that    *)
(* counts is the PushNameSetting that may come at any time later.          *)
Login(c) ==
  /\ Up(c) /\ client[c].id /\ ~client[c].loggedIn /\ EventQueueFree(c)
  /\ client' = [Emitted(c, "Connected") EXCEPT ![c].loggedIn = TRUE]
  /\ UNCHANGED <<row, session, maps, goroutines, process>>

PushName(c) ==
  /\ "pushname" \in Happens
  /\ Up(c) /\ client[c].id /\ EventQueueFree(c)
  /\ \/ ~client[c].loggedIn /\ client' = [client EXCEPT ![c].loggedIn = TRUE]
     \/ client[c].loggedIn /\ client' = Emitted(c, "Connected")
  /\ UNCHANGED <<row, session, maps, goroutines, process>>

(* Bound: one linked device is followed; the one before it is unlinked.    *)
Old(jid) == IF jid = "linked" THEN "old" ELSE jid

PairByQr(c) ==
  /\ "pair" \in Happens
  /\ Up(c) /\ ~client[c].id /\ EventQueueFree(c)
  /\ \E g \in Thread : thread[g].client = c /\ thread[g].pc = "qr"
  /\ client' = [Emitted(c, "PairSuccess") EXCEPT ![c].id = TRUE]
  /\ session' = TRUE
  /\ row' = [row EXCEPT !.jid = Old(@)]
  /\ thread' = [g \in Thread |-> [thread[g] EXCEPT !.jid = Old(@)]]
  /\ request' = [r \in Caller |-> [request[r] EXCEPT !.row.jid = Old(@)]]
  /\ UNCHANGED <<maps, presence, process>>

ServerDrop(c) ==
  /\ "drop" \in Happens
  /\ Up(c) /\ EventQueueFree(c)
  /\ client' = [Emitted(c, "Disconnected") EXCEPT ![c].socket = "down",
                                                  ![c].loggedIn = FALSE]
  /\ UNCHANGED <<row, session, maps, goroutines, process>>

ServerLogout(c) ==
  /\ "logout" \in Happens
  /\ Up(c) /\ client[c].id /\ EventQueueFree(c)
  /\ client' = [Emitted(c, "LoggedOut") EXCEPT ![c].socket = "down",
                                               ![c].loggedIn = FALSE,
                                               ![c].id = FALSE]
  /\ session' = FALSE
  /\ UNCHANGED <<row, maps, goroutines, process>>

(* Another connection of the same device: the handler does nothing.        *)
StreamReplaced(c) ==
  /\ "replaced" \in Happens
  /\ Up(c) /\ client[c].loggedIn
  /\ client' = Disconnected(c)
  /\ UNCHANGED <<row, session, maps, goroutines, process>>

ConnectFailure(c) ==
  /\ "failure" \in Happens
  /\ Up(c) /\ client[c].id /\ ~client[c].loggedIn /\ EventQueueFree(c)
  /\ client' = [Emitted(c, "ConnectFailure") EXCEPT ![c].socket = "down"]
  /\ UNCHANGED <<row, session, maps, goroutines, process>>

Undecryptable(c) ==
  /\ "undecryptable" \in Happens
  /\ Up(c) /\ client[c].loggedIn /\ EventQueueFree(c)
  /\ client' = Emitted(c, "Undecryptable")
  /\ UNCHANGED <<row, session, maps, goroutines, process>>

WhatsApp(c) ==
  \/ Login(c) \/ PushName(c) \/ PairByQr(c) \/ ServerDrop(c)
  \/ ServerLogout(c) \/ StreamReplaced(c) \/ ConnectFailure(c) \/ Undecryptable(c)

-----------------------------------------------------------------------------
(* myEventHandler: one event of a client at a time.                        *)

Handles(c, e) == client[c].handler = "idle" /\ client[c].event = e

Handled(c) == [client EXCEPT ![c].event = "none"]

(* Connected, PushNameSetting: one more presence goroutine each time.      *)
(* Bound: those beyond the pool Presence are not followed.                 *)
OnConnected(c) ==
  /\ Handles(c, "Connected")
  /\ client' = Handled(c)
  /\ presence' = [p \in Presence |-> IF p \in FreePresence
                                     THEN [NoPresence EXCEPT !.pc = "ready"]
                                     ELSE presence[p]]
  /\ row' = SetConnected(row, TRUE)
  /\ UNCHANGED <<session, maps, thread, request, process>>

(* The whole row is read and saved; without a row the handler panics, and  *)
(* whatsmeow recovers.                                                     *)
OnPairSuccess(c) ==
  /\ Handles(c, "PairSuccess")
  /\ client' = Handled(c)
  /\ row' = IF row.exists THEN PairedRow ELSE row
  /\ UNCHANGED <<session, maps, goroutines, process>>

(* Faulty variant: the client reconnects by itself.                        *)
OnLoggedOut_Reconnects(c) ==
  /\ Handles(c, "LoggedOut")
  /\ client' = [client EXCEPT ![c].event = "none", ![c].handler = "kill",
                              ![c].chan = killChannel, ![c].socket = "up"]
  /\ row' = SetConnected(row, FALSE)
  /\ UNCHANGED <<session, maps, goroutines, process>>

OnLoggedOut(c) ==
  /\ Handles(c, "LoggedOut")
  /\ client' = [client EXCEPT ![c].event = "none", ![c].handler = "kill",
                              ![c].chan = killChannel]
  /\ row' = SetConnected(row, FALSE)
  /\ UNCHANGED <<session, maps, goroutines, process>>

OnConnectFailure(c) ==
  /\ Handles(c, "ConnectFailure")
  /\ client' = Handled(c)
  /\ row' = SetConnected(row, FALSE)
  /\ UNCHANGED <<session, maps, goroutines, process>>

OnDisconnected(c) ==
  /\ Handles(c, "Disconnected")
  /\ client' = Handled(c)
  /\ row' = SetConnected(row, FALSE)
  /\ \E k \in FreeReconnector :
       request' = [request EXCEPT ![k] =
                     [NoRequest EXCEPT !.op = "reconnect", !.pc = "clean"]]
  /\ UNCHANGED <<session, maps, thread, presence, process>>

(* A message id that starts with 66 or 67: Disconnect, then Connect.       *)
OnUndecryptable(c) ==
  /\ Handles(c, "Undecryptable")
  /\ \E s \in {"down", "up"} :
       client' = [Handled(c) EXCEPT ![c].socket = s, ![c].loggedIn = FALSE]
  /\ UNCHANGED <<row, session, maps, goroutines, process>>

EventHandler(c) ==
  \/ OnConnected(c) \/ OnPairSuccess(c) \/ OnLoggedOut(c)
  \/ OnConnectFailure(c) \/ OnDisconnected(c) \/ OnUndecryptable(c)

-----------------------------------------------------------------------------
(* The API.  Every request but Delete, ForceReconnect and Create carries   *)
(* the row that the auth middleware loaded when it came in.                *)

SavesRow(op) == op \in {"connect", "disconnect", "logout"}

At(r, op, pc) == request[r].op = op /\ request[r].pc = pc

GoTo(r, pc) == request' = [request EXCEPT ![r].pc = pc, ![r].client = NoClient]

Done(r) == request' = [request EXCEPT ![r] = NoRequest]

Begin(r) ==
  /\ process # "panicked" /\ request[r].pc = "none" /\ row.exists
  /\ \E op \in Ops \ {"create"} :
       request' = [request EXCEPT ![r] =
                     [NoRequest EXCEPT !.op = op, !.pc = "op",
                                       !.row = IF SavesRow(op) THEN row ELSE NoRow]]
  /\ UNCHANGED <<row, session, maps, client, thread, presence, process>>

Create ==
  /\ "create" \in Ops /\ process # "panicked" /\ ~row.exists
  /\ row' = FreshRow
  /\ UNCHANGED <<session, maps, client, goroutines, process>>

(* ensureClientConnected: no client, so one is started and two seconds     *)
(* later looked up; or a client that must be connected.                    *)
NeedsClient(op) == op \in {"disconnect", "logout", "reconnect", "status"}

EnsureStart(r) ==
  /\ NeedsClient(request[r].op) /\ request[r].pc = "op"
  /\ clientPointer = NoClient
  /\ IF row.exists THEN StartInstance /\ GoTo(r, "wait")
                   ELSE UNCHANGED <<maps, thread>> /\ Done(r)
  /\ UNCHANGED <<row, session, client, presence, process>>

Ensure(r) ==
  /\ NeedsClient(request[r].op)
  /\ request[r].pc = "wait" \/ (request[r].pc = "op" /\ clientPointer # NoClient)
  /\ IF Up(clientPointer)
     THEN request' = [request EXCEPT ![r].pc = "ensured", ![r].client = clientPointer]
     ELSE Done(r)
  /\ UNCHANGED <<row, session, maps, client, thread, presence, process>>

Status(r) ==
  /\ At(r, "status", "ensured")
  /\ Done(r)
  /\ UNCHANGED <<row, session, maps, client, thread, presence, process>>

(* A plain send on the map's channel (a nil one blocks for ever).          *)
Disconnect(r) ==
  LET c == request[r].client IN
  /\ At(r, "disconnect", "ensured")
  /\ IF Up(c) /\ client[c].loggedIn
     THEN request' = [request EXCEPT ![r].pc = "send", ![r].client = NoClient,
                                     ![r].chan = killChannel]
     ELSE Done(r)
  /\ UNCHANGED <<row, session, maps, client, thread, presence, process>>

DisconnectSave(r) ==
  /\ At(r, "disconnect", "sent")
  /\ \/ row' = Saved(request[r].row)
     \/ "savefail" \in Happens /\ UNCHANGED row
  /\ Done(r)
  /\ UNCHANGED <<session, maps, client, thread, presence, process>>

(* Logout: unlink, or only disconnect a client that has not logged in, and *)
(* a send that gives up after five seconds.  Nothing is sent when the row  *)
(* of the unlinked client cannot be saved.                                 *)
Logout(r) ==
  LET c    == request[r].client
      send == [request EXCEPT ![r].pc = "sendTimeout", ![r].client = NoClient,
                              ![r].chan = killChannel] IN
  /\ At(r, "logout", "ensured")
  /\ \/ /\ Up(c) /\ client[c].loggedIn
        /\ client' = LoggedOut(c)
        /\ session' = FALSE
        /\ \/ /\ row' = Saved([request[r].row EXCEPT !.connected = FALSE])
              /\ request' = send
           \/ "savefail" \in Happens /\ Done(r) /\ UNCHANGED row
     \/ /\ Up(c) => client[c].loggedIn                 (* Logout's error; ignored *)
        /\ Done(r)
        /\ UNCHANGED <<row, session, client>>
     \/ /\ Up(c) /\ ~client[c].loggedIn
        /\ client' = Disconnected(c)
        /\ request' = send
        /\ UNCHANGED <<row, session>>
  /\ UNCHANGED <<maps, thread, presence, process>>

SendTimeout(r) ==
  /\ request[r].pc = "sendTimeout"
  /\ request' = Released(r)
  /\ UNCHANGED <<row, session, maps, client, thread, presence, process>>

LogoutForget(r) ==
  /\ At(r, "logout", "sent")
  /\ clientPointer' = NoClient
  /\ killChannel' = NoChan
  /\ Done(r)
  /\ UNCHANGED <<row, session, myClientPointer, client, thread, presence,
                 process>>

(* ReconnectClient, of a request and of the handler's goroutine: the client*)
(* that is in the map is disconnected ...                                  *)
ReconnectDisconnect(r) ==
  LET c == clientPointer IN
  /\ At(r, "reconnect", "ensured") \/ At(r, "reconnect", "clean")
  /\ client' = Disconnected(c)
  /\ request' = [request EXCEPT ![r].pc = IF c = NoClient THEN "kill" ELSE "remove",
                                 ![r].client = c]
  /\ UNCHANGED <<row, session, maps, thread, presence, process>>

(* ... and its event handler removed, when the entry in myClientPointer is *)
(* its own: the id of a handler is unique to its client.  whatsmeow waits  *)
(* for a handler that is running ...                                       *)
ReconnectRemove(r) ==
  LET c == request[r].client IN
  /\ At(r, "reconnect", "remove")
  /\ myClientPointer # NoClient => client[c].handler # "kill"
  /\ client' = IF c # NoClient /\ myClientPointer = c
               THEN [client EXCEPT ![c].handler = "off", ![c].event = "none"]
               ELSE client
  /\ GoTo(r, "kill")
  /\ UNCHANGED <<row, session, maps, thread, presence, process>>

(* ... whoever receives from the channel in the map is told ...            *)
ReconnectKill(r) ==
  /\ At(r, "reconnect", "kill")
  /\ TryKill(killChannel)
  /\ GoTo(r, "forget")
  /\ UNCHANGED <<row, session, maps, client, thread, process>>

(* ... the entries go, whosever they are by now ...                        *)
ReconnectForget(r) ==
  /\ At(r, "reconnect", "forget")
  /\ clientPointer' = NoClient
  /\ myClientPointer' = NoClient
  /\ killChannel' = NoChan
  /\ GoTo(r, "update")
  /\ UNCHANGED <<row, session, client, thread, presence, process>>

(* Faulty variant: the instance is not started again.                      *)
ReconnectUpdate_Stops(r) ==
  /\ At(r, "reconnect", "update")
  /\ row' = SetConnected(row, FALSE)
  /\ Done(r)
  /\ UNCHANGED <<session, maps, client, thread, presence, process>>

(* ... and two seconds after the row says so, if there is one, the instance*)
(* is started.                                                             *)
ReconnectUpdate(r) ==
  /\ At(r, "reconnect", "update")
  /\ row' = SetConnected(row, FALSE)
  /\ IF row.exists THEN GoTo(r, "sleep") ELSE Done(r)
  /\ UNCHANGED <<session, maps, client, thread, presence, process>>

ReconnectStart(r) ==
  /\ At(r, "reconnect", "sleep")
  /\ IF row.exists THEN StartInstance ELSE UNCHANGED <<maps, thread>>
  /\ Done(r)
  /\ UNCHANGED <<row, session, client, presence, process>>

ReconnectClient(r) ==
  \/ ReconnectDisconnect(r) \/ ReconnectRemove(r) \/ ReconnectKill(r)
  \/ ReconnectForget(r) \/ ReconnectUpdate(r) \/ ReconnectStart(r)

(* Connect saves the request's row, settings included, and then decides    *)
(* by myClientPointer whether the instance is running.                     *)
Connect(r) ==
  /\ At(r, "connect", "op")
  /\ \/ row' = Saved(request[r].row) /\ GoTo(r, "starting")
     \/ "savefail" \in Happens /\ Done(r) /\ UNCHANGED row
  /\ UNCHANGED <<session, maps, client, thread, presence, process>>

(* A proxy that cannot be parsed (removed, with a default one configured)  *)
(* is found out after the kill channel has been replaced.                  *)
ConnectStart(r) ==
  /\ At(r, "connect", "starting")
  /\ IF row.exists /\ myClientPointer # NoClient
     THEN UNCHANGED <<maps, thread>>
     ELSE /\ \E ch \in FreeChan : killChannel' = ch
          /\ \/ \E g \in FreeThread : thread' = Started(g, request[r].row.jid)
             \/ UNCHANGED thread
          /\ UNCHANGED pointers
  /\ Done(r)
  /\ UNCHANGED <<row, session, client, presence, process>>

(* What GetQr reads later changes nothing.                                 *)
GetQr(r) ==
  /\ At(r, "getqr", "op")
  /\ \/ /\ clientPointer = NoClient \/ TRUE \in IsLoggedIn(clientPointer)
        /\ row.exists
        /\ StartInstance
     \/ /\ clientPointer # NoClient => FALSE \in IsLoggedIn(clientPointer)
        /\ clientPointer = NoClient => ~row.exists
        /\ UNCHANGED <<maps, thread>>
  /\ Done(r)
  /\ UNCHANGED <<row, session, client, presence, process>>

(* ForceReconnect: ForceUpdateJid may find the linked device's jid for a   *)
(* row that has none; the new kill channel is the one it then sends on.    *)
ForceReconnect(r) ==
  /\ At(r, "forcereconnect", "op")
  /\ \/ /\ ~row.exists \/ (Up(clientPointer) /\ client[clientPointer].loggedIn)
        /\ Done(r)
        /\ UNCHANGED <<row, maps, client>>
     \/ /\ row.exists
        /\ Up(clientPointer) => ~client[clientPointer].loggedIn
        /\ \E jid \in {row.jid} \cup
                    {j \in {"linked"} : row.jid = "none" /\ session} :
             /\ row' = [row EXCEPT !.jid = jid]
             /\ \E ch \in FreeChan :
                  /\ killChannel' = ch
                  /\ \/ Done(r) /\ UNCHANGED client      (* an unreadable proxy *)
                     \/ /\ clientPointer = NoClient
                        /\ request' = [request EXCEPT ![r].pc = "starting",
                                                      ![r].row = row']
                        /\ UNCHANGED client
                     \/ /\ clientPointer # NoClient
                        /\ client' = Disconnected(clientPointer)
                        /\ request' = [request EXCEPT ![r].pc = "sendTimeout",
                                                      ![r].row = row', ![r].chan = ch]
        /\ UNCHANGED pointers
  /\ UNCHANGED <<session, thread, presence, process>>

ForceReconnectForget(r) ==
  /\ At(r, "forcereconnect", "sent")
  /\ clientPointer' = NoClient
  /\ killChannel' = NoChan
  /\ GoTo(r, "starting")
  /\ UNCHANGED <<row, session, myClientPointer, client, thread, presence,
                 process>>

ForceReconnectStart(r) ==
  /\ At(r, "forcereconnect", "starting")
  /\ \E g \in FreeThread : thread' = Started(g, request[r].row.jid)
  /\ Done(r)
  /\ UNCHANGED <<row, session, maps, client, presence, process>>

(* Delete: the client is logged out and disconnected...                    *)
Delete(r) ==
  LET c == clientPointer IN
  /\ At(r, "delete", "op")
  /\ \/ ~row.exists /\ Done(r) /\ UNCHANGED <<session, client>>
     \/ /\ row.exists
        /\ GoTo(r, "closing")
        /\ \/ /\ Up(c) /\ client[c].loggedIn
              /\ client' = LoggedOut(c)
              /\ session' = FALSE
           \/ client' = Disconnected(c) /\ UNCHANGED session
  /\ UNCHANGED <<row, maps, thread, presence, process>>

(* Closing a channel ends every receive from it, and panics every          *)
(* goroutine blocked sending on it.  gin and whatsmeow recover theirs; a   *)
(* supervisor's panic takes the process down.  after is what the request   *)
(* that closes does next.                                                  *)
Close(ch, after) ==
  IF BlockedThread(ch) # {}
  THEN MemoryLost /\ process' = "panicked"
  ELSE /\ request' = [s \in Caller |-> IF s \in BlockedRequest(ch) THEN NoRequest
                                                                   ELSE after[s]]
       /\ client' = [c \in Client |-> IF c \in BlockedHandler(ch)
                                      THEN [client[c] EXCEPT !.handler = "idle",
                                                             !.chan = NoChan]
                                      ELSE client[c]]
       /\ presence' = [p \in Presence |-> IF p \in WaitingPresence(ch)
                                          THEN NoPresence ELSE presence[p]]
       /\ clientPointer' = NoClient
       /\ killChannel' = NoChan
       /\ UNCHANGED <<thread, process>>

(* ... its entries removed and the channel closed ...                      *)
DeleteClose(r) ==
  LET after == [request EXCEPT ![r].pc = "clearing"] IN
  /\ At(r, "delete", "closing")
  /\ IF killChannel # NoChan
     THEN /\ Close(killChannel, after)
          /\ myClientPointer' = IF process' = "panicked" THEN NoClient
                                                         ELSE myClientPointer
     ELSE /\ clientPointer' = NoClient
          /\ request' = after
          /\ UNCHANGED <<myClientPointer, killChannel, client, thread, presence,
                         process>>
  /\ UNCHANGED <<row, session>>

(* Faulty variant: the client's entry is left to the caller, which has     *)
(* deleted it before.                                                      *)
ClearInstanceCache_KeepsClient(r) ==
  LET after == [request EXCEPT ![r].pc = "deleting"] IN
  /\ At(r, "delete", "clearing")
  /\ myClientPointer' = NoClient
  /\ request' = after
  /\ killChannel' = NoChan
  /\ UNCHANGED <<row, session, clientPointer, client, thread, presence,
                 process>>

(* ... ClearInstanceCache, which closes the channel of whoever has put a   *)
(* new one in the map since ...                                            *)
ClearInstanceCache(r) ==
  LET after == [request EXCEPT ![r].pc = "deleting"] IN
  /\ At(r, "delete", "clearing")
  /\ myClientPointer' = NoClient
  /\ IF killChannel # NoChan
     THEN Close(killChannel, after)
     ELSE /\ clientPointer' = NoClient
          /\ request' = after
          /\ UNCHANGED <<killChannel, client, thread, presence, process>>
  /\ UNCHANGED <<row, session>>

(* ... and the row.                                                        *)
DeleteRow(r) ==
  /\ At(r, "delete", "deleting")
  /\ row' = NoRow
  /\ Done(r)
  /\ UNCHANGED <<session, maps, client, thread, presence, process>>

-----------------------------------------------------------------------------
StartClientStep(g) ==
  \/ Enter(g) \/ NewClient(g) \/ AddEventHandler(g) \/ ConnectClient(g)
  \/ QrCode(g) \/ QrLimit(g) \/ QrTimeout(g) \/ QrEnd(g)
  \/ PollKill(g) \/ Teardown(g)

PresenceStep(p) == PresenceSelect(p) \/ PresenceTick(p) \/ PresenceKill(p)

RequestStep(r) ==
  \/ EnsureStart(r) \/ Ensure(r) \/ Status(r) \/ SendTimeout(r)
  \/ Disconnect(r) \/ DisconnectSave(r)
  \/ Logout(r) \/ LogoutForget(r)
  \/ ReconnectClient(r)
  \/ Connect(r) \/ ConnectStart(r) \/ GetQr(r)
  \/ ForceReconnect(r) \/ ForceReconnectForget(r) \/ ForceReconnectStart(r)
  \/ Delete(r) \/ DeleteClose(r) \/ ClearInstanceCache(r) \/ DeleteRow(r)

Next ==
  \/ ConnectOnStartup \/ Crash \/ Restart \/ Create
  \/ \E g \in Thread : StartClientStep(g)
  \/ \E p \in Presence : PresenceStep(p)
  \/ \E c \in Client : WhatsApp(c) \/ EventHandler(c)
  \/ \E r \in Request : Begin(r)
  \/ \E r \in Caller : RequestStep(r)

Spec == Init /\ [][Next]_vars

(* Goroutines run when they can.  A request that has begun goes on; what   *)
(* users, WhatsApp and the operating system do is not promised.            *)
Fairness ==
  /\ WF_vars(ConnectOnStartup)
  /\ \A g \in Thread : WF_vars(StartClientStep(g))
  /\ \A c \in Client : WF_vars(EventHandler(c))
  /\ \A r \in Caller : WF_vars(RequestStep(r))

FairSpec == Spec /\ Fairness

-----------------------------------------------------------------------------
(* Safety.                                                                 *)

Supervised(c) ==
  \E g \in Thread : thread[g].client = c /\ thread[g].pc \in {"qr", "poll", "killed"}

(* A connected client that the API can reach (clientPointer, what every    *)
(* operation looks up) has a StartClient goroutine that can still be told  *)
(* to stop: nobody ends the goroutine and leaves its connected client in   *)
(* the map.                                                                *)
ConnectedIsSupervised == Up(clientPointer) => Supervised(clientPointer)

(* Starts that overlap give the instance several clients, of which the maps*)
(* know the last (whatsmeow.go:396).  The others stay connected out of the *)
(* API's reach, but each still has its goroutine: no kill, however it      *)
(* crosses the starts, ends a goroutine and leaves its connection behind.  *)
(* Only the QR limit may (line 573), and a handler that reconnects its     *)
(* client, whose goroutine may have ended (line 1921).                     *)
NoneLeftConnected ==
  "undecryptable" \notin Happens =>
    \A c \in Client : Up(c) => Supervised(c) \/ AtQrLimit(client[c].codes)

(* A client WhatsApp has logged out is not connected again while its       *)
(* handler waits to deliver the kill.                                      *)
LoggedOutStaysDown ==
  \A c \in Client : client[c].handler = "kill" => ~Up(c)

(* A client that reached the QR limit has no goroutine and is in no map,   *)
(* whatever ran in between.                                                *)
QrLimitLetsGo ==
  \A c \in Client :
    AtQrLimit(client[c].codes) =>
      /\ c \notin {clientPointer, myClientPointer}
      /\ \A g \in Thread : thread[g].client # c

(* A client that the API can reach (clientPointer) has an entry in          *)
(* myClientPointer too, or a goroutine on its way to write it: without one *)
(* Connect would take the instance for stopped and start a second one, and *)
(* ReconnectClient would leave the event handler of the first in place.    *)
ReachableIsRegistered ==
  clientPointer # NoClient =>
    \/ myClientPointer # NoClient
    \/ \E g \in Thread : thread[g].pc = "register" /\ thread[g].client = clientPointer

-----------------------------------------------------------------------------
(* Liveness.  A pool that is used up is a bound of the model: the step     *)
(* that needs one more goroutine or channel waits.                         *)

PoolsLast == FreeThread # {} /\ FreeChan # {}

(* A connection that WhatsApp dropped is followed by a new StartClient of  *)
(* the instance, unless the row is gone or the process stops first.        *)
DropIsRetried ==
  \A k \in Reconnector :
    At(k, "reconnect", "clean") ~>
      \/ \E g \in Thread : thread[g].pc = "enter"
      \/ ~row.exists \/ ~PoolsLast \/ process = "booting"

(* A Disconnect request sends without a limit of time, on whatever channel *)
(* the map holds then (instance_service.go:301).  It is released, unless   *)
(* the map has another channel by then or none, or StartClient has         *)
(* returned everywhere.  (A send on nil, of an entry that was gone         *)
(* already, blocks for ever.)                                              *)
NobodyPolls == \A g \in Thread : thread[g].pc \in {"none", "qrSend"}

KillIsHeard ==
  \A r \in Request :
    (request[r].pc = "send" /\ request[r].chan # NoChan) ~>
      \/ request[r].pc # "send" \/ killChannel # request[r].chan
      \/ NobodyPolls \/ FreeClient = {}
=============================================================================
