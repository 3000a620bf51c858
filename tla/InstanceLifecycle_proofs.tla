---------------------- MODULE InstanceLifecycle_proofs ----------------------
(***************************************************************************)
(* Proofs about InstanceLifecycle, for every choice of the pools, of the   *)
(* operations and of what the environment does.                            *)
(***************************************************************************)
EXTENDS InstanceLifecycle, TLAPS

USE DEF NoClient, NoChan

(* What is taken from a pool is a free member of it.                       *)
LEMMA FreeMembers ==
  /\ \A g \in FreeThread : g \in Thread /\ thread[g].pc = "none"
  /\ \A c \in FreeClient :
       /\ c \in Client
       /\ c # clientPointer /\ c # myClientPointer
       /\ \A g \in Thread : thread[g].client # c
       /\ client[c].handler # "kill"
  /\ \A ch \in FreeChan : ch \in Chan
  /\ \A p \in FreePresence : p \in Presence
  /\ \A k \in FreeReconnector : k \in Reconnector
BY DEF FreeThread, FreeClient, FreeChan, FreePresence, FreeReconnector, Lowest

LEMMA RowTypes ==
  /\ NoRow \in Row /\ FreshRow \in Row /\ PairedRow \in Row
  /\ \A r \in Row, b \in BOOLEAN : SetConnected(r, b) \in Row
  /\ \A r \in Row : Saved(r) \in Row
BY DEF NoRow, FreshRow, PairedRow, Row, Jid, SetConnected, Saved

LEMMA RecordTypes ==
  /\ NoThread \in ThreadState
  /\ \A b \in BOOLEAN : NewClientState(b) \in ClientState
  /\ NoPresence \in PresenceState
  /\ NoRequest \in RequestState
<1>1. NoThread \in ThreadState
  BY DEF NoThread, ThreadState, ThreadPc, Jid
<1>2. \A b \in BOOLEAN : NewClientState(b) \in ClientState
  BY ConfigAssumption DEF NewClientState, ClientState, ClientEvent
<1>3. NoPresence \in PresenceState
  BY DEF NoPresence, PresenceState
<1>4. NoRequest \in RequestState
  BY RowTypes DEF NoRequest, RequestState, RequestPc
<1> QED
  BY <1>1, <1>2, <1>3, <1>4

-----------------------------------------------------------------------------
(* Type correctness.                                                       *)

LEMMA TypeInit == Init => TypeOK
BY ZenonT(60), RowTypes, RecordTypes DEF Init, TypeOK

LEMMA TypeMemoryLost ==
  ASSUME TypeOK, MemoryLost, row' \in Row, session' \in BOOLEAN,
         process' \in {"booting", "running", "panicked"}
  PROVE  TypeOK'
BY RecordTypes DEF MemoryLost, TypeOK

LEMMA TypeStartInstance ==
  ASSUME TypeOK, StartInstance
  PROVE  /\ killChannel' \in Chan \cup {NoChan}
         /\ thread' \in [Thread -> ThreadState]
         /\ UNCHANGED pointers
<1>1. PICK ch \in FreeChan, g \in FreeThread :
        killChannel' = ch /\ thread' = Started(g, row.jid) /\ UNCHANGED pointers
  BY DEF StartInstance
<1>2. row.jid \in Jid
  BY DEF TypeOK, Row
<1>3. [NoThread EXCEPT !.pc = "enter", !.jid = row.jid] \in ThreadState
  BY <1>2, RecordTypes DEF NoThread, ThreadState, ThreadPc
<1>4. thread' \in [Thread -> ThreadState]
  BY <1>1, <1>3 DEF Started, TypeOK
<1> QED
  BY <1>1, <1>4, FreeMembers

(* One field of one client changes.                                        *)
LEMMA ClientField ==
  ASSUME NEW f \in [Client -> ClientState], NEW c \in Client
  PROVE  /\ \A b \in BOOLEAN : [f EXCEPT ![c].loggedIn = b] \in [Client -> ClientState]
         /\ \A b \in BOOLEAN : [f EXCEPT ![c].id = b] \in [Client -> ClientState]
         /\ \A s \in {"down", "up"} :
              [f EXCEPT ![c].socket = s] \in [Client -> ClientState]
         /\ \A n \in 0..MaxCodes :
              [f EXCEPT ![c].codes = n] \in [Client -> ClientState]
<1>0. f[c] \in ClientState
  OBVIOUS
<1>1. ASSUME NEW b \in BOOLEAN
      PROVE  [f EXCEPT ![c].loggedIn = b] \in [Client -> ClientState]
  <2>1. [f[c] EXCEPT !.loggedIn = b] \in ClientState
    BY <1>0 DEF ClientState
  <2> QED
    BY <2>1
<1>2. ASSUME NEW b \in BOOLEAN
      PROVE  [f EXCEPT ![c].id = b] \in [Client -> ClientState]
  <2>1. [f[c] EXCEPT !.id = b] \in ClientState
    BY <1>0 DEF ClientState
  <2> QED
    BY <2>1
<1>3. ASSUME NEW s \in {"down", "up"}
      PROVE  [f EXCEPT ![c].socket = s] \in [Client -> ClientState]
  <2>1. [f[c] EXCEPT !.socket = s] \in ClientState
    BY <1>0 DEF ClientState
  <2> QED
    BY <2>1
<1>4. ASSUME NEW n \in 0..MaxCodes
      PROVE  [f EXCEPT ![c].codes = n] \in [Client -> ClientState]
  <2>1. [f[c] EXCEPT !.codes = n] \in ClientState
    BY <1>0 DEF ClientState
  <2> QED
    BY <2>1
<1> QED
  BY <1>1, <1>2, <1>3, <1>4

(* The operators that change a client, a request, a presence goroutine.    *)
LEMMA ClientUpdates ==
  ASSUME TypeOK
  PROVE  /\ \A c \in Client \cup {NoClient} :
              Disconnected(c) \in [Client -> ClientState]
         /\ \A c \in Client :
              /\ LoggedOut(c) \in [Client -> ClientState]
              /\ HandlerDone(c) \in [Client -> ClientState]
              /\ Handled(c) \in [Client -> ClientState]
              /\ \A e \in ClientEvent : Emitted(c, e) \in [Client -> ClientState]
<1>0. client \in [Client -> ClientState]
  BY DEF TypeOK
<1>1. ASSUME NEW c \in Client \cup {NoClient}
      PROVE  Disconnected(c) \in [Client -> ClientState]
  <2> DEFINE new == [client[c] EXCEPT !.socket = "down", !.loggedIn = FALSE]
  <2>1. CASE c \in Client
    <3>1. new \in ClientState
      BY <1>0, <2>1 DEF ClientState
    <3>2. Disconnected(c) = client \/ Disconnected(c) = [client EXCEPT ![c] = new]
      BY DEF Disconnected
    <3> QED
      BY <1>0, <2>1, <3>1, <3>2
  <2> QED
    BY <1>0, <2>1 DEF Disconnected
<1>2. ASSUME NEW c \in Client
      PROVE  LoggedOut(c) \in [Client -> ClientState]
  <2> DEFINE new == [client[c] EXCEPT !.socket = "down", !.loggedIn = FALSE,
                                      !.id = FALSE]
  <2>1. new \in ClientState
    BY <1>0 DEF ClientState
  <2>2. LoggedOut(c) = [client EXCEPT ![c] = new]
    BY DEF LoggedOut
  <2> QED
    BY <1>0, <2>1, <2>2
<1>3. ASSUME NEW c \in Client
      PROVE  HandlerDone(c) \in [Client -> ClientState]
  BY ZenonT(60), <1>0 DEF HandlerDone, ClientState
<1>4. ASSUME NEW c \in Client
      PROVE  Handled(c) \in [Client -> ClientState]
  BY <1>0 DEF Handled, ClientState, ClientEvent
<1>5. ASSUME NEW c \in Client, NEW e \in ClientEvent
      PROVE  Emitted(c, e) \in [Client -> ClientState]
  BY <1>0 DEF Emitted, ClientState, ClientEvent
<1> QED
  BY <1>1, <1>2, <1>3, <1>4, <1>5

LEMMA TypeReleased ==
  ASSUME TypeOK, NEW r \in Caller
  PROVE  Released(r) \in [Caller -> RequestState]
<1> DEFINE new == [request[r] EXCEPT !.pc = "sent", !.chan = NoChan]
<1>1. new \in RequestState
  BY DEF TypeOK, RequestState, RequestPc
<1>2. Released(r) = [request EXCEPT ![r] = new]
  BY DEF Released
<1> QED
  BY <1>1, <1>2 DEF TypeOK

LEMMA TypeTryKill ==
  ASSUME TypeOK, NEW ch, TryKill(ch)
  PROVE  presence' \in [Presence -> PresenceState]
BY RecordTypes DEF TypeOK, TryKill, WaitingPresence

LEMMA TypeProcess ==
  ASSUME TypeOK, ConnectOnStartup \/ Crash \/ Restart \/ Create
  PROVE  TypeOK'
<1>1. CASE ConnectOnStartup
  <2>1. CASE StartInstance
    BY <1>1, <2>1, TypeStartInstance DEF ConnectOnStartup, TypeOK, pointers
  <2>2. CASE UNCHANGED <<maps, thread>>
    BY <1>1, <2>2 DEF ConnectOnStartup, TypeOK, maps
  <2> QED
    BY <1>1, <2>1, <2>2 DEF ConnectOnStartup
<1>2. CASE Crash
  BY <1>2, TypeMemoryLost DEF Crash, TypeOK
<1>3. CASE Restart
  BY <1>3 DEF Restart, TypeOK, maps, goroutines
<1>4. CASE Create
  BY <1>4, RowTypes DEF Create, TypeOK, maps, goroutines
<1> QED
  BY <1>1, <1>2, <1>3, <1>4

LEMMA TypeThread ==
  ASSUME TypeOK, NEW g \in Thread, StartClientStep(g)
  PROVE  TypeOK'
<1> USE DEF TypeOK, maps, pointers, goroutines
<1>0. thread[g] \in ThreadState /\ thread[g].client \in Client \cup {NoClient}
  BY DEF ThreadState
<1>1. CASE Enter(g)
  <2>1. thread' \in [Thread -> ThreadState]
    <3>1. CASE thread' = [thread EXCEPT ![g] = NoThread]
      BY <3>1, RecordTypes
    <3>2. CASE thread' = [thread EXCEPT ![g].pc = "setup",
                            ![g].device = (session /\ thread[g].jid = "linked")]
      <4>1. (session /\ thread[g].jid = "linked") \in BOOLEAN
        OBVIOUS
      <4> QED
        BY <1>0, <3>2, <4>1 DEF ThreadState, ThreadPc
    <3> QED
      BY <1>1, <3>1, <3>2 DEF Enter
  <2>2. row' \in Row
    BY <1>1, RowTypes DEF Enter
  <2> QED
    BY <1>1, <2>1, <2>2 DEF Enter
<1>2. CASE NewClient(g)
  <2>1. PICK c \in FreeClient :
          /\ clientPointer' = c
          /\ client' = [client EXCEPT ![c] = NewClientState(thread[g].device)]
          /\ thread' = [thread EXCEPT ![g].pc = "register", ![g].client = c,
                                      ![g].device = FALSE]
    BY <1>2 DEF NewClient
  <2>2. c \in Client
    BY FreeMembers
  <2>3. NewClientState(thread[g].device) \in ClientState
    BY <1>0, RecordTypes DEF ThreadState
  <2>4. thread' \in [Thread -> ThreadState]
    BY <1>0, <2>1, <2>2 DEF ThreadState, ThreadPc
  <2> QED
    BY <1>2, <2>1, <2>2, <2>3, <2>4 DEF NewClient
<1>r. CASE AddEventHandler(g)
  <2>1. client' \in [Client -> ClientState]
    BY ZenonT(60), <1>r DEF AddEventHandler, ClientState
  <2>2. thread' \in [Thread -> ThreadState]
    BY <1>0, <1>r DEF AddEventHandler, ThreadState, ThreadPc
  <2> QED
    BY <1>0, <1>r, <2>1, <2>2 DEF AddEventHandler
<1>3. CASE ConnectClient(g)
  <2>1. client' \in [Client -> ClientState]
    BY <1>3 DEF ConnectClient, ClientState
  <2>2. thread' \in [Thread -> ThreadState]
    <3>1. CASE thread' = [thread EXCEPT ![g] = NoThread]
      BY <3>1, RecordTypes
    <3>2. CASE thread' = [thread EXCEPT ![g].pc =
                            IF client[thread[g].client].id THEN "poll" ELSE "qr"]
      BY <1>0, <3>2 DEF ThreadState, ThreadPc
    <3> QED
      BY <1>3, <3>1, <3>2 DEF ConnectClient
  <2> QED
    BY <1>3, <2>1, <2>2 DEF ConnectClient
<1>n. ASSUME thread[g].client \in Client, CodeComes(thread[g].client)
      PROVE  client[thread[g].client].codes + 1 \in 0..MaxCodes
  <2>1. client[thread[g].client].codes \in 0..MaxCodes
    BY <1>n DEF ClientState
  <2> QED
    BY <1>n, <2>1, ConfigAssumption DEF CodeComes
<1>4. CASE QrCode(g)
  <2> DEFINE c == thread[g].client
             n == client[c].codes + 1
  <2>1. client' = [client EXCEPT ![c].codes = n]
    BY <1>4 DEF QrCode
  <2>2. client' \in [Client -> ClientState]
    <3>1. CASE c \in Client
      <4>1. n \in 0..MaxCodes
        BY <1>4, <1>n, <3>1 DEF QrCode
      <4> HIDE DEF n, c
      <4> QED
        BY <2>1, <3>1, <4>1, ClientField
    <3>2. CASE c \notin Client
      BY <2>1, <3>2
    <3> QED
      BY <3>1, <3>2
  <2> QED
    BY <1>4, <2>2 DEF QrCode
<1>5. CASE QrLimit(g)
  <2>2. client' \in [Client -> ClientState]
    <3> DEFINE c == thread[g].client
               n == client[c].codes + 1
    <3>1. PICK s \in {client[c].socket, "down"} :
            client' = [client EXCEPT ![c].codes = n, ![c].socket = s]
      BY <1>5 DEF QrLimit
    <3>2. CASE c \in Client
      <4> DEFINE f == [client EXCEPT ![c].codes = n]
      <4>1. f \in [Client -> ClientState]
        BY <1>5, <1>n, <3>2, ClientField DEF QrLimit
      <4>2. s \in {"down", "up"}
        BY <3>1, <3>2 DEF ClientState
      <4>3. client' = [f EXCEPT ![c].socket = s]
        BY <3>1
      <4> HIDE DEF f
      <4> QED
        BY <3>2, <4>1, <4>2, <4>3, ClientField
    <3>3. CASE c \notin Client
      BY <3>1, <3>3
    <3> QED
      BY <3>2, <3>3
  <2>3. thread' \in [Thread -> ThreadState]
    BY <1>5, RecordTypes DEF QrLimit
  <2>4. presence' \in [Presence -> PresenceState]
    BY <1>5, TypeTryKill DEF QrLimit
  <2> QED
    BY <1>5, <2>2, <2>3, <2>4, RowTypes DEF QrLimit
<1>6. CASE QrTimeout(g)
  <2>1. client' \in [Client -> ClientState]
    BY <1>0, <1>6, ClientUpdates DEF QrTimeout
  <2>2. thread' \in [Thread -> ThreadState]
    BY <1>0, <1>6 DEF QrTimeout, ThreadState, ThreadPc
  <2> QED
    BY <1>6, <2>1, <2>2 DEF QrTimeout
<1>7. CASE QrEnd(g)
  BY <1>7 DEF QrEnd, ThreadState, ThreadPc
<1>8. CASE PollKill(g)
  <2>1. client' \in [Client -> ClientState]
    BY <1>8, ClientUpdates DEF PollKill, BlockedHandler
  <2>2. request' \in [Caller -> RequestState]
    BY <1>8, TypeReleased DEF PollKill, BlockedRequest, Caller
  <2>3. thread' \in [Thread -> ThreadState]
    <3>1. CASE thread' = [thread EXCEPT ![g].pc = "killed"]
      BY <1>0, <3>1 DEF ThreadState, ThreadPc
    <3>2. ASSUME NEW h \in Thread,
                 thread' = [thread EXCEPT ![g].pc = "killed", ![h].pc = "poll",
                                          ![h].chan = NoChan]
          PROVE  thread' \in [Thread -> ThreadState]
      <4> DEFINE t == [thread EXCEPT ![g] = [thread[g] EXCEPT !.pc = "killed"]]
                 u == [t[h] EXCEPT !.pc = "poll", !.chan = NoChan]
      <4>1. t \in [Thread -> ThreadState]
        BY <1>0 DEF ThreadState, ThreadPc
      <4>2. u \in ThreadState
        <5> HIDE DEF t
        <5> QED
          BY <4>1 DEF ThreadState, ThreadPc
      <4>3. thread' = [t EXCEPT ![h] = u]
        BY <3>2
      <4> QED
        <5> HIDE DEF t, u
        <5> QED
          BY <4>1, <4>2, <4>3
    <3> QED
      BY <1>8, <3>1, <3>2 DEF PollKill, BlockedThread
  <2> QED
    BY <1>8, <2>1, <2>2, <2>3 DEF PollKill
<1>9. CASE Teardown(g)
  <2>1. client' \in [Client -> ClientState]
    BY <1>0, <1>9, ClientUpdates DEF Teardown
  <2>2. thread' \in [Thread -> ThreadState]
    BY <1>0, <1>9 DEF Teardown, ThreadState, ThreadPc, NoThread
  <2> QED
    BY <1>9, <2>1, <2>2, RowTypes DEF Teardown
<1> QED
  BY <1>1, <1>2, <1>r, <1>3, <1>4, <1>5, <1>6, <1>7, <1>8, <1>9 DEF StartClientStep

LEMMA TypePresence ==
  ASSUME TypeOK, NEW p \in Presence, PresenceStep(p)
  PROVE  TypeOK'
<1> USE DEF TypeOK, maps
<1>1. CASE PresenceSelect(p)
  BY <1>1 DEF PresenceSelect, PresenceState
<1>2. CASE PresenceTick(p)
  BY <1>2 DEF PresenceTick, PresenceState, NoPresence
<1>3. CASE PresenceKill(p)
  <2>1. client' \in [Client -> ClientState]
    BY <1>3, ClientUpdates DEF PresenceKill, BlockedHandler
  <2>2. request' \in [Caller -> RequestState]
    BY <1>3, TypeReleased DEF PresenceKill, BlockedRequest, Caller
  <2>3. thread' \in [Thread -> ThreadState]
    <3>1. ASSUME NEW h \in Thread,
                 thread' = [thread EXCEPT ![h].pc = "poll", ![h].chan = NoChan]
          PROVE  thread' \in [Thread -> ThreadState]
      <4> DEFINE t == [thread[h] EXCEPT !.pc = "poll", !.chan = NoChan]
      <4>1. t \in ThreadState
        BY ZenonT(60) DEF ThreadState, ThreadPc
      <4>2. thread' = [thread EXCEPT ![h] = t]
        BY <3>1
      <4> HIDE DEF t
      <4> QED
        BY <4>1, <4>2
    <3> QED
      BY <1>3, <3>1 DEF PresenceKill, BlockedThread
  <2>4. presence' \in [Presence -> PresenceState]
    BY <1>3, RecordTypes DEF PresenceKill
  <2> QED
    BY <1>3, <2>1, <2>2, <2>3, <2>4 DEF PresenceKill
<1> QED
  BY <1>1, <1>2, <1>3 DEF PresenceStep

LEMMA TypeWhatsApp ==
  ASSUME TypeOK, NEW c \in Client, WhatsApp(c)
  PROVE  TypeOK'
<1> USE DEF TypeOK, maps, goroutines
<1>0. \A e \in ClientEvent : Emitted(c, e) \in [Client -> ClientState]
  BY ClientUpdates
<1>1. CASE Login(c)
  <2>1. Emitted(c, "Connected") \in [Client -> ClientState]
    BY <1>0 DEF ClientEvent
  <2>2. client' \in [Client -> ClientState]
    BY <1>1, <2>1, ClientField DEF Login
  <2> QED
    BY <1>1, <2>2 DEF Login
<1>2. CASE PushName(c)
  <2>1. Emitted(c, "Connected") \in [Client -> ClientState]
    BY <1>0 DEF ClientEvent
  <2>2. [client EXCEPT ![c].loggedIn = TRUE] \in [Client -> ClientState]
    BY ClientField
  <2>3. client' \in [Client -> ClientState]
    BY <1>2, <2>1, <2>2 DEF PushName
  <2> QED
    BY <1>2, <2>3 DEF PushName
<1>3. CASE PairByQr(c)
  <2>0. \A j \in Jid : Old(j) \in Jid
    BY DEF Old, Jid
  <2>1. Emitted(c, "PairSuccess") \in [Client -> ClientState]
    BY <1>0 DEF ClientEvent
  <2>2. client' \in [Client -> ClientState]
    BY <1>3, <2>1, ClientField DEF PairByQr
  <2>3. row' \in Row
    BY <1>3, <2>0 DEF PairByQr, Row
  <2>4. thread' \in [Thread -> ThreadState]
    BY ZenonT(60), <1>3, <2>0 DEF PairByQr, ThreadState
  <2>5. request' \in [Caller -> RequestState]
    <3>1. ASSUME NEW r \in Caller
          PROVE  [request[r] EXCEPT !.row.jid = Old(@)] \in RequestState
      <4>1. [request[r].row EXCEPT !.jid = Old(@)] \in Row
        BY <2>0 DEF RequestState, Row
      <4> QED
        BY <4>1 DEF RequestState
    <3> QED
      BY <1>3, <3>1 DEF PairByQr
  <2> QED
    BY <1>3, <2>2, <2>3, <2>4, <2>5 DEF PairByQr
<1>4. CASE ServerDrop(c)
  <2> DEFINE f == Emitted(c, "Disconnected")
  <2>1. f \in [Client -> ClientState]
    BY <1>0 DEF ClientEvent
  <2>2. [f[c] EXCEPT !.socket = "down", !.loggedIn = FALSE] \in ClientState
    BY ZenonT(60), <2>1 DEF ClientState
  <2>3. client' = [f EXCEPT ![c] = [f[c] EXCEPT !.socket = "down", !.loggedIn = FALSE]]
    BY <1>4 DEF ServerDrop
  <2> HIDE DEF f
  <2>4. client' \in [Client -> ClientState]
    BY <2>1, <2>2, <2>3
  <2> QED
    BY <1>4, <2>4 DEF ServerDrop
<1>5. CASE ServerLogout(c)
  <2> DEFINE f == Emitted(c, "LoggedOut")
             new == [f[c] EXCEPT !.socket = "down", !.loggedIn = FALSE, !.id = FALSE]
  <2>1. f \in [Client -> ClientState]
    BY <1>0 DEF ClientEvent
  <2>2. new \in ClientState
    BY ZenonT(60), <2>1 DEF ClientState
  <2>3. client' = [f EXCEPT ![c] = new]
    BY <1>5 DEF ServerLogout
  <2> HIDE DEF f, new
  <2>4. client' \in [Client -> ClientState]
    BY <2>1, <2>2, <2>3
  <2> QED
    BY <1>5, <2>4 DEF ServerLogout
<1>6. CASE StreamReplaced(c)
  BY <1>6, ClientUpdates DEF StreamReplaced
<1>7. CASE ConnectFailure(c)
  <2>1. Emitted(c, "ConnectFailure") \in [Client -> ClientState]
    BY <1>0 DEF ClientEvent
  <2>2. client' \in [Client -> ClientState]
    BY <1>7, <2>1, ClientField DEF ConnectFailure
  <2> QED
    BY <1>7, <2>2 DEF ConnectFailure
<1>8. CASE Undecryptable(c)
  BY <1>0, <1>8 DEF Undecryptable, ClientEvent
<1> QED
  BY <1>1, <1>2, <1>3, <1>4, <1>5, <1>6, <1>7, <1>8 DEF WhatsApp

LEMMA TypeHandler ==
  ASSUME TypeOK, NEW c \in Client, EventHandler(c)
  PROVE  TypeOK'
<1> USE DEF TypeOK, maps, goroutines
<1>0. Handled(c) \in [Client -> ClientState]
  BY ClientUpdates
<1>1. CASE OnConnected(c)
  <2>1. presence' \in [Presence -> PresenceState]
    BY <1>1 DEF OnConnected, PresenceState, NoPresence
  <2> QED
    BY <1>0, <1>1, <2>1, RowTypes DEF OnConnected
<1>2. CASE OnPairSuccess(c)
  BY <1>0, <1>2, RowTypes DEF OnPairSuccess
<1>3. CASE OnLoggedOut(c)
  <2> DEFINE new == [client[c] EXCEPT !.event = "none", !.handler = "kill",
                                      !.chan = killChannel]
  <2>1. new \in ClientState
    BY ZenonT(60) DEF ClientState, ClientEvent
  <2>2. client' = [client EXCEPT ![c] = new]
    BY <1>3 DEF OnLoggedOut
  <2> HIDE DEF new
  <2>3. client' \in [Client -> ClientState]
    BY <2>1, <2>2
  <2> QED
    BY <1>3, <2>3, RowTypes DEF OnLoggedOut
<1>4. CASE OnConnectFailure(c)
  BY <1>0, <1>4, RowTypes DEF OnConnectFailure
<1>5. CASE OnDisconnected(c)
  <2>1. PICK k \in FreeReconnector :
          request' = [request EXCEPT ![k] =
                        [NoRequest EXCEPT !.op = "reconnect", !.pc = "clean"]]
    BY <1>5 DEF OnDisconnected
  <2>2. [NoRequest EXCEPT !.op = "reconnect", !.pc = "clean"] \in RequestState
    BY RecordTypes DEF NoRequest, RequestState, RequestPc
  <2>3. request' \in [Caller -> RequestState]
    BY <2>1, <2>2
  <2> QED
    BY <1>0, <1>5, <2>3, RowTypes DEF OnDisconnected
<1>6. CASE OnUndecryptable(c)
  <2>1. PICK s \in {"down", "up"} :
          client' = [Handled(c) EXCEPT ![c].socket = s, ![c].loggedIn = FALSE]
    BY <1>6 DEF OnUndecryptable
  <2>2. [Handled(c)[c] EXCEPT !.socket = s, !.loggedIn = FALSE] \in ClientState
    BY ZenonT(60), <1>0 DEF ClientState
  <2>3. client' \in [Client -> ClientState]
    BY <1>0, <2>1, <2>2
  <2> QED
    BY <1>6, <2>3 DEF OnUndecryptable
<1> QED
  BY <1>1, <1>2, <1>3, <1>4, <1>5, <1>6 DEF EventHandler

LEMMA TypeGoTo ==
  ASSUME TypeOK, NEW r \in Caller, NEW pc \in RequestPc, GoTo(r, pc)
  PROVE  request' \in [Caller -> RequestState]
<1> DEFINE new == [request[r] EXCEPT !.pc = pc, !.client = NoClient]
<1>1. new \in RequestState
  BY DEF TypeOK, RequestState
<1>2. request' = [request EXCEPT ![r] = new]
  BY DEF GoTo
<1> QED
  BY <1>1, <1>2 DEF TypeOK

LEMMA TypeDone ==
  ASSUME TypeOK, NEW r \in Caller, Done(r)
  PROVE  request' \in [Caller -> RequestState]
BY RecordTypes DEF Done, TypeOK

LEMMA TypeReconnect ==
  ASSUME TypeOK, NEW r \in Caller, ReconnectClient(r)
  PROVE  TypeOK'
<1> DEFINE RequestOK == request' \in [Caller -> RequestState]
<1>0. /\ Done(r) => RequestOK
      /\ GoTo(r, "kill") => RequestOK
      /\ GoTo(r, "forget") => RequestOK
      /\ GoTo(r, "update") => RequestOK
      /\ GoTo(r, "sleep") => RequestOK
  BY TypeDone, TypeGoTo DEF RequestPc
<1> USE DEF TypeOK, maps, pointers
<1>1. CASE ReconnectDisconnect(r)
  <2> DEFINE pc  == IF clientPointer = NoClient THEN "kill" ELSE "remove"
             new == [request[r] EXCEPT !.pc = pc, !.client = clientPointer]
  <2>1. new \in RequestState
    BY DEF RequestState, RequestPc
  <2>2. request' = [request EXCEPT ![r] = new]
    BY <1>1 DEF ReconnectDisconnect
  <2> HIDE DEF new
  <2>3. RequestOK
    BY <2>1, <2>2
  <2> QED
    BY <1>1, <2>3, ClientUpdates DEF ReconnectDisconnect
<1>2. CASE ReconnectRemove(r)
  <2> DEFINE c   == request[r].client
             new == [client[c] EXCEPT !.handler = "off", !.event = "none"]
  <2>1. c \in Client \cup {NoClient}
    BY DEF RequestState
  <2>2. c \in Client => new \in ClientState
    BY ZenonT(60) DEF ClientState, ClientEvent
  <2>3. \/ client' = client
        \/ c # NoClient /\ client' = [client EXCEPT ![c] = new]
    BY <1>2 DEF ReconnectRemove
  <2> HIDE DEF c, new
  <2>4. client' \in [Client -> ClientState]
    BY <2>1, <2>2, <2>3
  <2> QED
    BY <1>0, <1>2, <2>4 DEF ReconnectRemove
<1>3. CASE ReconnectKill(r)
  BY <1>0, <1>3, TypeTryKill DEF ReconnectKill
<1>4. CASE ReconnectForget(r)
  BY <1>0, <1>4 DEF ReconnectForget
<1>5. CASE ReconnectUpdate(r)
  BY <1>0, <1>5, RowTypes DEF ReconnectUpdate
<1>6. CASE ReconnectStart(r)
  <2>1. CASE StartInstance
    BY <1>0, <1>6, <2>1, TypeStartInstance DEF ReconnectStart
  <2>2. CASE UNCHANGED <<maps, thread>>
    BY <1>0, <1>6, <2>2 DEF ReconnectStart
  <2> QED
    BY <1>6, <2>1, <2>2 DEF ReconnectStart
<1> QED
  BY <1>1, <1>2, <1>3, <1>4, <1>5, <1>6 DEF ReconnectClient

LEMMA TypeClose ==
  ASSUME TypeOK, NEW ch, NEW after \in [Caller -> RequestState], Close(ch, after)
  PROVE  /\ client' \in [Client -> ClientState]
         /\ presence' \in [Presence -> PresenceState]
         /\ request' \in [Caller -> RequestState]
         /\ thread' \in [Thread -> ThreadState]
         /\ clientPointer' = NoClient
         /\ killChannel' = NoChan
         /\ process' \in {"booting", "running", "panicked"}
<1>1. CASE BlockedThread(ch) # {}
  BY <1>1, RecordTypes DEF Close, MemoryLost
<1>2. CASE BlockedThread(ch) = {}
  <2>1. \A c \in Client : [client[c] EXCEPT !.handler = "idle", !.chan = NoChan]
                            \in ClientState
    BY ZenonT(60) DEF TypeOK, ClientState
  <2>2. client' \in [Client -> ClientState]
    BY <1>2, <2>1 DEF Close, TypeOK
  <2>3. presence' \in [Presence -> PresenceState]
    BY <1>2, RecordTypes DEF Close, TypeOK
  <2>4. request' \in [Caller -> RequestState]
    BY <1>2, RecordTypes DEF Close, TypeOK
  <2> QED
    BY <1>2, <2>2, <2>3, <2>4 DEF Close, TypeOK
<1> QED
  BY <1>1, <1>2

LEMMA TypeRequest ==
  ASSUME TypeOK, NEW r \in Caller, Begin(r) \/ RequestStep(r)
  PROVE  TypeOK'
<1> DEFINE RequestOK == request' \in [Caller -> RequestState]
<1>0. /\ Done(r) => RequestOK
      /\ GoTo(r, "wait") => RequestOK
      /\ GoTo(r, "starting") => RequestOK
      /\ GoTo(r, "closing") => RequestOK
  BY TypeDone, TypeGoTo DEF RequestPc
<1> USE DEF TypeOK, maps, pointers, goroutines
<1>a. request[r] \in RequestState /\ request[r].row \in Row
  BY DEF RequestState
<1>6. ASSUME NEW pc \in {"send", "sendTimeout"},
             request' = [request EXCEPT ![r].pc = pc, ![r].client = NoClient,
                                        ![r].chan = killChannel]
      PROVE  RequestOK
  <2> DEFINE new == [request[r] EXCEPT !.pc = pc, !.client = NoClient,
                                       !.chan = killChannel]
  <2>1. new \in RequestState
    BY <1>a DEF RequestState, RequestPc
  <2>2. request' = [request EXCEPT ![r] = new]
    BY <1>6
  <2> HIDE DEF new
  <2> QED
    BY <2>1, <2>2
<1>c. /\ [request EXCEPT ![r].pc = "clearing"] \in [Caller -> RequestState]
      /\ [request EXCEPT ![r].pc = "deleting"] \in [Caller -> RequestState]
  <2>1. /\ [request[r] EXCEPT !.pc = "clearing"] \in RequestState
        /\ [request[r] EXCEPT !.pc = "deleting"] \in RequestState
    BY <1>a DEF RequestState, RequestPc
  <2> QED
    BY <2>1
<1>1. CASE Begin(r)
  <2>1. \A op \in Ops, w \in Row :
          [NoRequest EXCEPT !.op = op, !.pc = "op", !.row = w] \in RequestState
    BY RecordTypes DEF NoRequest, RequestState, RequestPc
  <2>2. PICK op \in Ops :
          request' = [request EXCEPT ![r] =
                        [NoRequest EXCEPT !.op = op, !.pc = "op",
                           !.row = IF SavesRow(op) THEN row ELSE NoRow]]
    BY <1>1 DEF Begin
  <2>3. (IF SavesRow(op) THEN row ELSE NoRow) \in Row
    BY RowTypes
  <2>4. RequestOK
    BY <2>1, <2>2, <2>3
  <2> QED
    BY <1>1, <2>4 DEF Begin
<1>2. CASE EnsureStart(r) \/ GetQr(r)
  <2>1. CASE StartInstance
    BY <1>0, <1>2, <2>1, TypeStartInstance DEF EnsureStart, GetQr
  <2>2. CASE UNCHANGED <<maps, thread>>
    BY <1>0, <1>2, <2>2 DEF EnsureStart, GetQr
  <2> QED
    BY <1>2, <2>1, <2>2 DEF EnsureStart, GetQr
<1>3. CASE Ensure(r)
  <2> DEFINE new == [request[r] EXCEPT !.pc = "ensured", !.client = clientPointer]
  <2>1. new \in RequestState
    BY <1>a DEF RequestState, RequestPc
  <2>2. Done(r) \/ request' = [request EXCEPT ![r] = new]
    BY <1>3 DEF Ensure
  <2> HIDE DEF new
  <2>3. RequestOK
    BY <1>0, <2>1, <2>2
  <2> QED
    BY <1>3, <2>3 DEF Ensure
<1>4. CASE Status(r)
  BY <1>0, <1>4 DEF Status
<1>5. CASE SendTimeout(r)
  BY <1>5, TypeReleased DEF SendTimeout
<1>7. CASE Disconnect(r)
  BY <1>0, <1>6, <1>7 DEF Disconnect
<1>8. CASE DisconnectSave(r)
  BY <1>0, <1>a, <1>8, RowTypes DEF DisconnectSave
<1>9. CASE Logout(r)
  <2>1. Up(request[r].client) => request[r].client \in Client
    BY <1>a DEF Up, RequestState
  <2>2. client' \in [Client -> ClientState]
    BY <1>9, <2>1, ClientUpdates DEF Logout
  <2>3. RequestOK
    BY <1>0, <1>6, <1>9 DEF Logout
  <2>4. row' \in Row
    <3>1. [request[r].row EXCEPT !.connected = FALSE] \in Row
      BY <1>a DEF Row
    <3> QED
      BY <1>9, <3>1, RowTypes DEF Logout
  <2> QED
    BY <1>9, <2>2, <2>3, <2>4 DEF Logout
<1>10. CASE LogoutForget(r)
  BY <1>0, <1>10 DEF LogoutForget
<1>11. CASE ReconnectClient(r)
  BY <1>11, TypeReconnect
<1>12. CASE Connect(r)
  BY <1>0, <1>a, <1>12, RowTypes DEF Connect
<1>b. \A g \in FreeThread : Started(g, request[r].row.jid) \in [Thread -> ThreadState]
  <2>1. request[r].row.jid \in Jid
    BY <1>a DEF Row
  <2>2. [NoThread EXCEPT !.pc = "enter", !.jid = request[r].row.jid] \in ThreadState
    BY <2>1, RecordTypes DEF NoThread, ThreadState, ThreadPc
  <2> QED
    BY <2>2 DEF Started
<1>13. CASE ConnectStart(r)
  <2>1. thread' \in [Thread -> ThreadState]
    BY <1>b, <1>13 DEF ConnectStart
  <2>2. killChannel' \in Chan \cup {NoChan}
    BY <1>13, FreeMembers DEF ConnectStart
  <2> QED
    BY <1>0, <1>13, <2>1, <2>2 DEF ConnectStart
<1>14. CASE ForceReconnect(r)
  <2>1. CASE Done(r) /\ UNCHANGED <<row, maps, client>>
    BY <1>0, <1>14, <2>1 DEF ForceReconnect
  <2>2. ASSUME NEW jid \in Jid, row' = [row EXCEPT !.jid = jid],
               NEW ch \in FreeChan, killChannel' = ch,
               \/ Done(r) /\ UNCHANGED client
               \/ /\ request' = [request EXCEPT ![r].pc = "starting",
                                                ![r].row = row']
                  /\ UNCHANGED client
               \/ /\ client' = Disconnected(clientPointer)
                  /\ request' = [request EXCEPT ![r].pc = "sendTimeout",
                                                ![r].row = row', ![r].chan = ch]
        PROVE  /\ row' \in Row /\ killChannel' \in Chan \cup {NoChan}
               /\ client' \in [Client -> ClientState]
               /\ RequestOK
    <3>1. row' \in Row
      BY <2>2 DEF Row
    <3>2. ch \in Chan
      BY <2>2, FreeMembers
    <3>3. client' \in [Client -> ClientState]
      BY <2>2, ClientUpdates
    <3>4. RequestOK
      <4> DEFINE new == [request[r] EXCEPT !.pc = "starting", !.row = row']
                 snd == [request[r] EXCEPT !.pc = "sendTimeout", !.row = row',
                                           !.chan = ch]
      <4>1. new \in RequestState /\ snd \in RequestState
        BY <1>a, <3>1, <3>2 DEF RequestState, RequestPc
      <4>2. \/ Done(r)
            \/ request' = [request EXCEPT ![r] = new]
            \/ request' = [request EXCEPT ![r] = snd]
        BY <2>2
      <4> HIDE DEF new, snd
      <4> QED
        BY <1>0, <4>1, <4>2
    <3> QED
      BY <2>2, <3>1, <3>2, <3>3, <3>4
  <2>3. row.jid \in Jid /\ "linked" \in Jid
    BY DEF Row, Jid
  <2> QED
    BY <1>14, <2>1, <2>2, <2>3 DEF ForceReconnect
<1>15. CASE ForceReconnectForget(r)
  BY <1>0, <1>15 DEF ForceReconnectForget
<1>16. CASE ForceReconnectStart(r)
  BY <1>0, <1>b, <1>16 DEF ForceReconnectStart
<1>17. CASE Delete(r)
  <2>1. client' \in [Client -> ClientState]
    BY <1>17, ClientUpdates DEF Delete, Up
  <2> QED
    BY <1>0, <1>17, <2>1 DEF Delete
<1>18. CASE DeleteClose(r)
  <2>1. CASE killChannel # NoChan
    BY <1>c, <1>18, <2>1, TypeClose DEF DeleteClose
  <2>2. CASE killChannel = NoChan
    BY <1>c, <1>18, <2>2 DEF DeleteClose
  <2> QED
    BY <2>1, <2>2
<1>19. CASE ClearInstanceCache(r)
  <2>1. CASE killChannel # NoChan
    BY <1>c, <1>19, <2>1, TypeClose DEF ClearInstanceCache
  <2>2. CASE killChannel = NoChan
    BY <1>c, <1>19, <2>2 DEF ClearInstanceCache
  <2> QED
    BY <2>1, <2>2
<1>20. CASE DeleteRow(r)
  BY <1>0, <1>20, RowTypes DEF DeleteRow
<1> QED
  BY <1>1, <1>2, <1>3, <1>4, <1>5, <1>7, <1>8, <1>9, <1>10, <1>11, <1>12, <1>13,
     <1>14, <1>15, <1>16, <1>17, <1>18, <1>19, <1>20 DEF RequestStep

LEMMA TypeStep == TypeOK /\ [Next]_vars => TypeOK'
<1> SUFFICES ASSUME TypeOK, [Next]_vars PROVE TypeOK'
  OBVIOUS
<1>1. CASE UNCHANGED vars
  BY <1>1 DEF vars, TypeOK
<1>2. CASE Next
  BY <1>2, TypeProcess, TypeThread, TypePresence, TypeWhatsApp, TypeHandler,
     TypeRequest DEF Next, Caller
<1> QED
  BY <1>1, <1>2

(* Every state of every run is well typed: no step of a handler, a request *)
(* or a goroutine leaves a map, a row or a channel in a state that the     *)
(* code's types do not have, and the QR counter stays within its bound.    *)
THEOREM TypeCorrect == Spec => []TypeOK
BY TypeInit, TypeStep, PTL DEF Spec

-----------------------------------------------------------------------------
(* The safety invariants.  They hold together with four facts: no two      *)
(* goroutines have the same client; a client that StartClient has not      *)
(* connected yet is Dormant, so that WhatsApp can do nothing to it; one    *)
(* that has been logged out, or whose handler waits to deliver the kill,   *)
(* is Quiet; and only WhatsApp makes an event of a message that cannot be  *)
(* decrypted.                                                              *)

SoleSupervisor ==
  \A g, h \in Thread :
    thread[g].client # NoClient /\ thread[g].client = thread[h].client => g = h

Dormant(c) ==
  client[c].socket = "down" /\ client[c].event = "none" /\ client[c].handler # "kill"

Quiet(c) ==
  client[c].event = "LoggedOut" \/ client[c].handler = "kill"
    => client[c].socket = "down"

Supervises(g) == thread[g].pc \in {"qr", "poll", "killed"}

Connecting(g) == thread[g].pc \in {"register", "connect"}

ConnectsDormant ==
  \A g \in Thread :
    Connecting(g) => thread[g].client \in Client /\ Dormant(thread[g].client)

AllQuiet == \A c \in Client : Quiet(c)

PointerIsOwned ==
  clientPointer # NoClient => Supervised(clientPointer) \/ Dormant(clientPointer)

AllDecryptable ==
  "undecryptable" \notin Happens => \A c \in Client : client[c].event # "Undecryptable"

IInv ==
  /\ TypeOK
  /\ SoleSupervisor
  /\ ConnectsDormant
  /\ AllQuiet
  /\ AllDecryptable
  /\ PointerIsOwned
  /\ NoneLeftConnected
  /\ ReachableIsRegistered
  /\ QrLimitLetsGo

ClientKept(c) ==
  /\ Dormant(c) => Dormant(c)'
  /\ Quiet(c) => Quiet(c)'
  /\ AtQrLimit(client'[c].codes) => AtQrLimit(client[c].codes)
  /\ client'[c].event = "Undecryptable" =>
       client[c].event = "Undecryptable" \/ "undecryptable" \in Happens
  /\ client'[c].socket = "up" =>
       /\ client[c].socket = "up" \/ client[c].event = "Undecryptable"
       /\ AtQrLimit(client[c].codes) => AtQrLimit(client'[c].codes)

(* What every step but four leaves as it was:  the maps are only emptied, *)
(* a goroutine only lets go of its client, and of one it supervises only   *)
(* when it is down; a dormant client stays dormant.                        *)
Kept ==
  /\ clientPointer' \in {clientPointer, NoClient}
  /\ myClientPointer' \in {myClientPointer, NoClient}
  /\ clientPointer' # NoClient =>
       /\ myClientPointer' = myClientPointer
       /\ \A g \in Thread :
            /\ Supervises(g) => Supervises(g)' /\ thread'[g].client = thread[g].client
            /\ thread[g].pc = "register" =>
                 thread'[g].pc = "register" /\ thread'[g].client = thread[g].client
  /\ \A g \in Thread :
       /\ thread'[g].client \in {thread[g].client, NoClient}
       /\ Connecting(g)' => Connecting(g) /\ thread'[g].client = thread[g].client
       /\ Supervises(g) =>
            \/ Supervises(g)' /\ thread'[g].client = thread[g].client
            \/ thread[g].client \in Client => client'[thread[g].client].socket = "down"
  /\ \A c \in Client : ClientKept(c)

LEMMA KeptUnchanged ==
  ASSUME UNCHANGED <<clientPointer, myClientPointer, thread, client>>
  PROVE  Kept
BY DEF Kept, ClientKept, Dormant, Quiet, Supervises, Connecting

LEMMA KeptMemoryLost ==
  ASSUME TypeOK, MemoryLost
  PROVE  Kept
BY ConfigAssumption
   DEF MemoryLost, Kept, ClientKept, Dormant, Quiet, Supervises, Connecting,
       NoThread, NewClientState, AtQrLimit

(* A new goroutine in StartClient has no client yet.                       *)
LEMMA KeptStarted ==
  ASSUME TypeOK, NEW g \in FreeThread, NEW jid, thread' = Started(g, jid),
         UNCHANGED <<clientPointer, myClientPointer, client>>
  PROVE  Kept
<1>1. g \in Thread /\ thread[g].pc = "none"
  BY FreeMembers
<1> QED
  BY <1>1 DEF TypeOK, Started, NoThread, Kept, ClientKept, Dormant, Quiet,
                Supervises, Connecting

LEMMA KeptStartInstance ==
  ASSUME TypeOK, StartInstance \/ UNCHANGED <<maps, thread>>, UNCHANGED client
  PROVE  Kept
BY KeptStarted, KeptUnchanged DEF StartInstance, maps, pointers

(* Taking a client down keeps it, whoever does so.                         *)
LEMMA KeptClients ==
  ASSUME TypeOK, NEW d \in Client \cup {NoClient},
         \/ client' = client
         \/ client' = Disconnected(d)
         \/ d # NoClient /\ client' = LoggedOut(d)
         \/ d # NoClient /\ client' = HandlerDone(d)
  PROVE  \A c \in Client : ClientKept(c)
BY DEF TypeOK, ClientState, Disconnected, LoggedOut, HandlerDone, ClientKept,
       Dormant, Quiet

LEMMA DownIsDown ==
  ASSUME TypeOK, NEW c \in Client, client' = Disconnected(c)
  PROVE  client'[c].socket = "down"
BY PoolsAssumption DEF TypeOK, ClientState, Disconnected

LEMMA KeptThread ==
  ASSUME TypeOK, NEW g \in Thread, StartClientStep(g)
  PROVE  \/ Kept \/ NewClient(g) \/ AddEventHandler(g)
         \/ ConnectClient(g) \/ QrLimit(g)
<1> USE DEF Kept, Supervises, Connecting
<1>0. /\ thread[g] \in ThreadState /\ thread \in [Thread -> ThreadState]
      /\ thread[g].client \in Client \cup {NoClient}
  BY DEF TypeOK, ThreadState
<1>1. CASE Enter(g)
  <2>1. \A c \in Client : ClientKept(c)
    BY <1>1 DEF Enter, ClientKept, Dormant, Quiet
  <2>2. CASE thread' = [thread EXCEPT ![g] = NoThread]
    BY <1>0, <1>1, <2>1, <2>2 DEF Enter, maps, NoThread
  <2>3. CASE thread' = [thread EXCEPT ![g].pc = "setup",
                          ![g].device = (session /\ thread[g].jid = "linked")]
    <3>1. \A h \in Thread :
            /\ thread'[h].client = thread[h].client
            /\ h # g => thread'[h].pc = thread[h].pc
            /\ thread'[g].pc = "setup"
      BY <1>0, <2>3 DEF ThreadState
    <3> QED
      BY <1>1, <2>1, <3>1 DEF Enter, maps
  <2> QED
    BY <1>1, <2>2, <2>3 DEF Enter
<1>2. CASE QrCode(g)
  <2> DEFINE c == thread[g].client
  <2>1. ASSUME NEW d \in Client
        PROVE  ClientKept(d)
    <3>1. CASE client'[d] = client[d]
      BY <3>1 DEF ClientKept, Dormant, Quiet
    <3>2. CASE d = c /\ client'[c] = [client[c] EXCEPT !.codes = client[c].codes + 1]
      <4>1. /\ client'[c].socket = client[c].socket /\ client'[c].event = client[c].event
            /\ client'[c].handler = client[c].handler
            /\ client'[c].codes = client[c].codes + 1 /\ client[c].codes \in Nat
        BY <3>2, ConfigAssumption DEF TypeOK, ClientState
      <4>2. ~AtQrLimit(client[c].codes + 1) /\ ~AtQrLimit(client[c].codes)
        BY <1>2, <4>1, ConfigAssumption DEF QrCode, AtQrLimit
      <4> QED
        BY <3>2, <4>1, <4>2 DEF ClientKept, Dormant, Quiet
    <3>3. client' = [client EXCEPT ![c].codes = client[c].codes + 1]
      BY <1>2 DEF QrCode
    <3> QED
      BY <3>1, <3>2, <3>3 DEF TypeOK
  <2> QED
    BY <1>2, <2>1 DEF QrCode, maps, goroutines
<1>3. CASE QrTimeout(g)
  <2>1. \A c \in Client : ClientKept(c)
    BY <1>0, <1>3, KeptClients DEF QrTimeout
  <2>2. thread[g].client \in Client => client'[thread[g].client].socket = "down"
    BY <1>3, DownIsDown DEF QrTimeout
  <2> QED
    BY <1>0, <1>3, <2>1, <2>2 DEF QrTimeout, ThreadState
<1>4. CASE QrEnd(g)
  BY <1>0, <1>4, KeptClients DEF QrEnd, maps, ThreadState
<1>5. CASE PollKill(g)
  <2>1. \A c \in Client : ClientKept(c)
    BY <1>5, KeptClients, PoolsAssumption DEF PollKill, BlockedHandler
  <2>2. PICK f \in Thread :
          \/ thread' = [thread EXCEPT ![g].pc = "killed"]
          \/ /\ thread[f].pc = "qrSend"
             /\ thread' = [thread EXCEPT ![g].pc = "killed", ![f].pc = "poll",
                                         ![f].chan = NoChan]
    BY <1>5 DEF PollKill, BlockedThread
  <2>3. ASSUME NEW h \in Thread
        PROVE  /\ thread'[h].client = thread[h].client
               /\ \/ thread'[h].pc = thread[h].pc
                  \/ /\ thread[h].pc \in {"poll", "qrSend"}
                     /\ thread'[h].pc \in {"poll", "killed"}
    <3>0. thread[g].pc = "poll"
      BY <1>5 DEF PollKill
    <3>1. CASE thread' = [thread EXCEPT ![g].pc = "killed"]
      BY <1>0, <3>0, <3>1 DEF ThreadState
    <3>2. CASE /\ thread[f].pc = "qrSend"
               /\ thread' = [thread EXCEPT ![g].pc = "killed", ![f].pc = "poll",
                                           ![f].chan = NoChan]
      <4> DEFINE t == [thread EXCEPT ![g].pc = "killed"]
      <4>1. t \in [Thread -> ThreadState]
        BY <1>0 DEF ThreadState, ThreadPc
      <4>2. /\ t[h].client = thread[h].client
            /\ \/ t[h].pc = thread[h].pc
               \/ thread[h].pc = "poll" /\ t[h].pc = "killed"
        BY <1>0, <3>0 DEF ThreadState
      <4>3. thread' = [t EXCEPT ![f].pc = "poll", ![f].chan = NoChan]
        BY <3>2
      <4> HIDE DEF t
      <4>4. \/ thread'[h] = t[h]
            \/ h = f /\ thread'[h] = [t[f] EXCEPT !.pc = "poll", !.chan = NoChan]
        BY <4>1, <4>3
      <4>5. CASE thread'[h] = t[h]
        BY <4>2, <4>5
      <4>6. CASE h = f /\ thread'[h] = [t[f] EXCEPT !.pc = "poll", !.chan = NoChan]
        <5>1. t[f] \in ThreadState
          BY <4>1
        <5>2. thread'[h].pc = "poll" /\ thread'[h].client = t[f].client
          BY <4>6, <5>1 DEF ThreadState
        <5> QED
          BY <3>2, <4>2, <4>6, <5>2
      <4> QED
        BY <4>4, <4>5, <4>6
    <3> QED
      BY <2>2, <3>1, <3>2
  <2> QED
    BY <1>5, <2>1, <2>3 DEF PollKill, maps
<1>6. CASE Teardown(g)
  <2>1. \A c \in Client : ClientKept(c)
    BY <1>0, <1>6, KeptClients DEF Teardown
  <2>2. thread[g].client \in Client => client'[thread[g].client].socket = "down"
    BY <1>6, DownIsDown DEF Teardown
  <2> QED
    BY <1>0, <1>6, <2>1, <2>2 DEF Teardown, ThreadState, NoThread
<1> QED
  BY <1>1, <1>2, <1>3, <1>4, <1>5, <1>6 DEF StartClientStep

LEMMA KeptPresence ==
  ASSUME TypeOK, NEW p \in Presence, PresenceStep(p)
  PROVE  Kept
<1>1. CASE PresenceSelect(p) \/ PresenceTick(p)
  BY <1>1, KeptUnchanged DEF PresenceSelect, PresenceTick, maps
<1>2. CASE PresenceKill(p)
  <2>1. \A c \in Client : ClientKept(c)
    BY <1>2, KeptClients, PoolsAssumption DEF PresenceKill, BlockedHandler
  <2>2. ASSUME NEW h \in Thread
        PROVE  /\ thread'[h].client = thread[h].client
               /\ \/ thread'[h].pc = thread[h].pc
                  \/ thread[h].pc = "qrSend" /\ thread'[h].pc = "poll"
    <3>1. \/ thread' = thread
          \/ \E f \in Thread :
               /\ thread[f].pc = "qrSend"
               /\ thread' = [thread EXCEPT ![f].pc = "poll", ![f].chan = NoChan]
      BY <1>2 DEF PresenceKill, BlockedThread
    <3>2. ASSUME NEW f \in Thread, thread[f].pc = "qrSend",
                 thread' = [thread EXCEPT ![f].pc = "poll", ![f].chan = NoChan]
          PROVE  /\ thread'[h].client = thread[h].client
                 /\ \/ thread'[h].pc = thread[h].pc
                    \/ thread[h].pc = "qrSend" /\ thread'[h].pc = "poll"
      BY <3>2 DEF TypeOK, ThreadState
    <3> QED
      BY <3>1, <3>2
  <2> QED
    BY <1>2, <2>1, <2>2 DEF PresenceKill, maps, Kept, Supervises, Connecting
<1> QED
  BY <1>1, <1>2 DEF PresenceStep

LEMMA KeptWhatsApp ==
  ASSUME TypeOK, NEW c \in Client, WhatsApp(c)
  PROVE  Kept
<1> USE DEF TypeOK, ClientState, maps, goroutines
<1>1. Up(c) /\ UNCHANGED <<clientPointer, myClientPointer>>
  BY DEF WhatsApp, Login, PushName, PairByQr, ServerDrop, ServerLogout,
         StreamReplaced, ConnectFailure, Undecryptable
<1>2. \A d \in Client : d # c => client'[d] = client[d]
  BY DEF WhatsApp, Login, PushName, PairByQr, ServerDrop, ServerLogout,
         StreamReplaced, ConnectFailure, Undecryptable, Emitted, Disconnected
<1>3. client'[c].codes = client[c].codes /\ client'[c].handler = client[c].handler
  BY DEF WhatsApp, Login, PushName, PairByQr, ServerDrop, ServerLogout,
         StreamReplaced, ConnectFailure, Undecryptable, Emitted, Disconnected
<1>4. client'[c].event = "LoggedOut" =>
        client[c].event = "LoggedOut" \/ client'[c].socket = "down"
  BY DEF WhatsApp, Login, PushName, PairByQr, ServerDrop, ServerLogout,
         StreamReplaced, ConnectFailure, Undecryptable, Emitted, Disconnected
<1>u. client'[c].event = "Undecryptable" =>
        client[c].event = "Undecryptable" \/ "undecryptable" \in Happens
  BY DEF WhatsApp, Login, PushName, PairByQr, ServerDrop, ServerLogout,
         StreamReplaced, ConnectFailure, Undecryptable, Emitted, Disconnected
<1>5. \A h \in Thread :
        thread'[h].client = thread[h].client /\ thread'[h].pc = thread[h].pc
  BY DEF WhatsApp, Login, PushName, PairByQr, ServerDrop, ServerLogout,
         StreamReplaced, ConnectFailure, Undecryptable, ThreadState
<1>6. \A d \in Client : ClientKept(d)
  BY <1>1, <1>2, <1>3, <1>4, <1>u DEF ClientKept, Dormant, Quiet, Up
<1> QED
  BY <1>1, <1>5, <1>6 DEF Kept, Supervises, Connecting

LEMMA KeptHandler ==
  ASSUME TypeOK, NEW c \in Client, EventHandler(c)
  PROVE  Kept
<1> USE DEF TypeOK, ClientState, maps, goroutines, Handles, Handled
<1>1. UNCHANGED <<clientPointer, myClientPointer, thread>>
  BY DEF EventHandler, OnConnected, OnPairSuccess, OnLoggedOut, OnConnectFailure,
         OnDisconnected, OnUndecryptable
<1>2. /\ client[c].handler = "idle" /\ client[c].event # "none"
      /\ \A d \in Client : d # c => client'[d] = client[d]
  BY DEF EventHandler, OnConnected, OnPairSuccess, OnLoggedOut, OnConnectFailure,
         OnDisconnected, OnUndecryptable
<1>3. /\ client'[c].event = "none" /\ client'[c].codes = client[c].codes
      /\ client'[c].handler = "kill" =>
           client[c].event = "LoggedOut" /\ client'[c].socket = client[c].socket
      /\ client'[c].socket = client[c].socket \/ client[c].event = "Undecryptable"
  <2>1. CASE client' = [client EXCEPT ![c].event = "none"]
    BY <1>2, <2>1
  <2>2. CASE OnLoggedOut(c)
    BY <1>2, <2>2 DEF OnLoggedOut
  <2>3. CASE OnUndecryptable(c)
    BY <1>2, <2>3 DEF OnUndecryptable
  <2> QED
    BY <2>1, <2>2, <2>3 DEF EventHandler, OnConnected, OnPairSuccess,
       OnConnectFailure, OnDisconnected
<1>4. \A d \in Client : ClientKept(d)
  BY <1>2, <1>3 DEF ClientKept, Dormant, Quiet
<1> QED
  BY <1>1, <1>4 DEF Kept, Supervises, Connecting

LEMMA KeptReconnect ==
  ASSUME TypeOK, NEW r \in Caller, ReconnectClient(r)
  PROVE  Kept
<1> USE DEF maps
<1>1. CASE ReconnectDisconnect(r)
  <2>1. \A c \in Client : ClientKept(c)
    BY <1>1, KeptClients DEF ReconnectDisconnect, TypeOK
  <2> QED
    BY <1>1, <2>1 DEF ReconnectDisconnect, Kept, Supervises, Connecting
<1>2. CASE ReconnectRemove(r)
  <2> DEFINE c == request[r].client
  <2>1. ASSUME NEW d \in Client
        PROVE  ClientKept(d)
    <3>1. CASE client'[d] = client[d]
      BY <3>1 DEF ClientKept, Dormant, Quiet
    <3>2. CASE /\ client[d].handler # "kill"
               /\ client'[d] = [client[d] EXCEPT !.handler = "off", !.event = "none"]
      BY <3>2 DEF TypeOK, ClientState, ClientKept, Dormant, Quiet
    <3>3. \/ client' = client
          \/ /\ client[c].handler # "kill"
             /\ client' = [client EXCEPT ![c].handler = "off", ![c].event = "none"]
      BY <1>2 DEF ReconnectRemove
    <3>4. \/ client'[d] = client[d]
          \/ /\ client[d].handler # "kill"
             /\ client'[d] = [client[d] EXCEPT !.handler = "off", !.event = "none"]
      BY <3>3 DEF TypeOK
    <3> QED
      BY <3>1, <3>2, <3>4
  <2> QED
    BY <1>2, <2>1 DEF ReconnectRemove, Kept, Supervises, Connecting
<1>3. CASE ReconnectKill(r) \/ ReconnectUpdate(r)
  BY <1>3, KeptUnchanged DEF ReconnectKill, ReconnectUpdate
<1>4. CASE ReconnectForget(r)
  BY <1>4 DEF ReconnectForget, Kept, ClientKept, Dormant, Quiet, Supervises, Connecting
<1>5. CASE ReconnectStart(r)
  BY <1>5, KeptStartInstance DEF ReconnectStart
<1> QED
  BY <1>1, <1>2, <1>3, <1>4, <1>5 DEF ReconnectClient

LEMMA KeptClose ==
  ASSUME TypeOK, NEW ch, NEW after, Close(ch, after),
         myClientPointer' \in {myClientPointer, NoClient}
  PROVE  Kept
<1>1. CASE BlockedThread(ch) # {}
  BY <1>1, KeptMemoryLost DEF Close
<1>2. CASE BlockedThread(ch) = {}
  <2>1. \A c \in Client : ClientKept(c)
    <3> SUFFICES ASSUME NEW c \in Client PROVE ClientKept(c)
      OBVIOUS
    <3>1. CASE client'[c] = client[c]
      BY <3>1 DEF ClientKept, Dormant, Quiet
    <3>2. CASE /\ client[c].handler = "kill"
               /\ client'[c] = [client[c] EXCEPT !.handler = "idle", !.chan = NoChan]
      BY <3>2 DEF TypeOK, ClientState, ClientKept, Dormant, Quiet
    <3> QED
      BY <1>2, <3>1, <3>2 DEF Close, BlockedHandler
  <2> QED
    BY <1>2, <2>1 DEF Close, Kept, Supervises, Connecting
<1> QED
  BY <1>1, <1>2

LEMMA KeptRequest ==
  ASSUME TypeOK, NEW r \in Caller, Begin(r) \/ RequestStep(r)
  PROVE  Kept
<1>1. CASE \/ Begin(r) \/ Ensure(r) \/ Status(r) \/ SendTimeout(r) \/ Disconnect(r)
           \/ DisconnectSave(r) \/ Connect(r) \/ DeleteRow(r)
  BY <1>1, KeptUnchanged
     DEF Begin, Ensure, Status, SendTimeout, Disconnect, DisconnectSave, Connect,
         DeleteRow, maps
<1>2. CASE EnsureStart(r) \/ GetQr(r)
  BY <1>2, KeptStartInstance DEF EnsureStart, GetQr
<1>3. CASE LogoutForget(r) \/ ForceReconnectForget(r)
  BY <1>3 DEF LogoutForget, ForceReconnectForget, Kept, ClientKept, Dormant, Quiet,
              Supervises, Connecting
<1>4. CASE ReconnectClient(r)
  BY <1>4, KeptReconnect
<1>5. CASE ConnectStart(r)
  <2>1. UNCHANGED <<pointers, client>>
    BY <1>5 DEF ConnectStart, maps, pointers
  <2>2. UNCHANGED thread \/ \E g \in FreeThread : thread' = Started(g, request[r].row.jid)
    BY <1>5 DEF ConnectStart, maps
  <2> QED
    BY <2>1, <2>2, KeptStarted, KeptUnchanged DEF pointers
<1>6. CASE ForceReconnectStart(r)
  BY <1>6, KeptStarted DEF ForceReconnectStart, maps
<1>7. CASE Logout(r) \/ ForceReconnect(r) \/ Delete(r)
  <2>1. UNCHANGED <<clientPointer, myClientPointer, thread>>
    BY <1>7 DEF Logout, ForceReconnect, Delete, maps, pointers
  <2>2. \/ client' = client
        \/ client' = Disconnected(request[r].client)
        \/ Up(request[r].client) /\ client' = LoggedOut(request[r].client)
        \/ client' = Disconnected(clientPointer)
        \/ Up(clientPointer) /\ client' = LoggedOut(clientPointer)
    BY <1>7 DEF Logout, ForceReconnect, Delete, maps
  <2>3. /\ clientPointer \in Client \cup {NoClient}
        /\ request[r].client \in Client \cup {NoClient}
    BY DEF TypeOK, RequestState
  <2>4. \A c \in Client : ClientKept(c)
    BY <2>2, <2>3, KeptClients DEF Up
  <2> QED
    BY <2>1, <2>4 DEF Kept, Supervises, Connecting
<1>8. CASE DeleteClose(r)
  <2>1. CASE killChannel # NoChan
    BY <1>8, <2>1, KeptClose DEF DeleteClose
  <2>2. CASE killChannel = NoChan
    BY <1>8, <2>2 DEF DeleteClose, Kept, ClientKept, Dormant, Quiet, Supervises, Connecting
  <2> QED
    BY <2>1, <2>2
<1>9. CASE ClearInstanceCache(r)
  <2>1. CASE killChannel # NoChan
    BY <1>9, <2>1, KeptClose DEF ClearInstanceCache
  <2>2. CASE killChannel = NoChan
    BY <1>9, <2>2 DEF ClearInstanceCache, Kept, ClientKept, Dormant, Quiet,
                       Supervises, Connecting
  <2> QED
    BY <2>1, <2>2
<1> QED
  BY <1>1, <1>2, <1>3, <1>4, <1>5, <1>6, <1>7, <1>8, <1>9 DEF RequestStep

LEMMA KeptProcess ==
  ASSUME TypeOK, ConnectOnStartup \/ Crash \/ Restart \/ Create
  PROVE  Kept
<1>1. CASE ConnectOnStartup
  BY <1>1, KeptStartInstance DEF ConnectOnStartup
<1>2. CASE Crash
  BY <1>2, KeptMemoryLost DEF Crash
<1>3. CASE Restart \/ Create
  BY <1>3, KeptUnchanged DEF Restart, Create, maps, goroutines
<1> QED
  BY <1>1, <1>2, <1>3

LEMMA KeptStep ==
  ASSUME TypeOK, [Next]_vars
  PROVE  \/ Kept
         \/ \E g \in Thread : \/ NewClient(g) \/ AddEventHandler(g)
                              \/ ConnectClient(g) \/ QrLimit(g)
<1>1. CASE UNCHANGED vars
  BY <1>1, KeptUnchanged DEF vars
<1>2. CASE Next
  BY <1>2, KeptProcess, KeptThread, KeptPresence, KeptWhatsApp, KeptHandler,
     KeptRequest DEF Next, Caller
<1> QED
  BY <1>1, <1>2

(* The five ways of a step, and each preserves the invariant.              *)
LEMMA InvKept ==
  ASSUME IInv, TypeOK', Kept
  PROVE  IInv'
<1> USE DEF Kept
<1>1. SoleSupervisor'
  BY DEF IInv, SoleSupervisor
<1>2. ConnectsDormant'
  BY DEF IInv, ConnectsDormant, ClientKept, Dormant
<1>3. AllQuiet'
  BY DEF IInv, AllQuiet, ClientKept
<1>4. PointerIsOwned'
  <2> SUFFICES ASSUME clientPointer' # NoClient
               PROVE  Supervised(clientPointer)' \/ Dormant(clientPointer)'
    BY DEF PointerIsOwned
  <2>1. clientPointer' = clientPointer /\ clientPointer \in Client
    BY DEF IInv, TypeOK
  <2>2. CASE Supervised(clientPointer)
    BY <2>1, <2>2 DEF Supervised, Supervises
  <2>3. CASE Dormant(clientPointer)
    BY <2>1, <2>3 DEF ClientKept, Dormant
  <2> QED
    BY <2>1, <2>2, <2>3 DEF IInv, PointerIsOwned
<1>5. ReachableIsRegistered'
  BY DEF IInv, ReachableIsRegistered
<1>6. QrLimitLetsGo'
  BY PoolsAssumption DEF IInv, QrLimitLetsGo, ClientKept
<1>7. AllDecryptable'
  BY DEF IInv, AllDecryptable, ClientKept
<1>8. NoneLeftConnected'
  <2> SUFFICES ASSUME "undecryptable" \notin Happens,
                      NEW c \in Client, client'[c].socket = "up"
               PROVE  Supervised(c)' \/ AtQrLimit(client'[c].codes)
    BY DEF NoneLeftConnected, Up
  <2>1. client[c].socket = "up"
    BY DEF IInv, AllDecryptable, ClientKept
  <2>2. Supervised(c) \/ AtQrLimit(client[c].codes)
    BY <2>1, PoolsAssumption DEF IInv, NoneLeftConnected, Up
  <2>3. CASE Supervised(c)
    <3>1. PICK g \in Thread : thread[g].client = c /\ Supervises(g)
      BY <2>3 DEF Supervised, Supervises
    <3>2. thread'[g].client = c /\ Supervises(g)'
      BY <3>1
    <3> QED
      BY <3>2 DEF Supervised, Supervises
  <2>4. CASE AtQrLimit(client[c].codes)
    BY <2>4 DEF ClientKept
  <2> QED
    BY <2>2, <2>3, <2>4
<1> QED
  BY <1>1, <1>2, <1>3, <1>4, <1>5, <1>6, <1>7, <1>8 DEF IInv

(* The four steps are of one goroutine and its client; the other clients   *)
(* and goroutines are left alone.                                          *)
LEMMA InvOthers ==
  ASSUME IInv, TypeOK', NEW g \in Thread, NEW c,
         \A h \in Thread : h # g => thread'[h] = thread[h],
         \A d \in Client : d # c => client'[d] = client[d],
         Supervises(g) => thread[g].client = c,
         c \in Client =>
           /\ client'[c].event = client[c].event \/ client'[c].event = "none"
           /\ client'[c].socket = "up" =>
                Supervised(c)' \/ AtQrLimit(client'[c].codes)
  PROVE  AllDecryptable' /\ NoneLeftConnected'
<1>1. AllDecryptable'
  BY DEF IInv, AllDecryptable
<1>2. NoneLeftConnected'
  <2> SUFFICES ASSUME "undecryptable" \notin Happens,
                      NEW d \in Client, client'[d].socket = "up"
               PROVE  Supervised(d)' \/ AtQrLimit(client'[d].codes)
    BY DEF NoneLeftConnected, Up
  <2>1. CASE d = c
    BY <2>1
  <2>2. CASE d # c
    <3>1. client'[d] = client[d] /\ d # NoClient
      BY <2>2, PoolsAssumption
    <3>2. Supervised(d) \/ AtQrLimit(client[d].codes)
      BY <3>1 DEF IInv, NoneLeftConnected, Up
    <3>3. Supervised(d) => Supervised(d)'
      BY <2>2, <3>1 DEF Supervised, Supervises
    <3> QED
      BY <3>1, <3>2, <3>3
  <2> QED
    BY <2>1, <2>2
<1> QED
  BY <1>1, <1>2

LEMMA InvNewClient ==
  ASSUME IInv, TypeOK', NEW g \in Thread, NewClient(g)
  PROVE  IInv'
<1>1. PICK c \in FreeClient :
        /\ clientPointer' = c
        /\ client' = [client EXCEPT ![c] = NewClientState(thread[g].device)]
        /\ thread' = [thread EXCEPT ![g].pc = "register", ![g].client = c,
                                    ![g].device = FALSE]
  BY DEF NewClient
<1>2. /\ c \in Client /\ c # NoClient /\ c # myClientPointer
      /\ \A h \in Thread : thread[h].client # c
      /\ myClientPointer' = myClientPointer
  BY FreeMembers, PoolsAssumption DEF NewClient
<1>3. /\ thread'[g].client = c /\ thread'[g].pc = "register"
      /\ \A h \in Thread : h # g => thread'[h] = thread[h]
  BY <1>1 DEF IInv, TypeOK, ThreadState
<1>4. /\ client'[c].socket = "down" /\ client'[c].event = "none"
      /\ client'[c].handler = "off" /\ client'[c].codes = 0
      /\ \A d \in Client : d # c => client'[d] = client[d]
  BY <1>1, <1>2 DEF IInv, TypeOK, NewClientState
<1>5. SoleSupervisor'
  BY <1>2, <1>3 DEF IInv, SoleSupervisor
<1>6. ConnectsDormant'
  BY <1>2, <1>3, <1>4 DEF IInv, ConnectsDormant, Connecting, Dormant
<1>7. AllQuiet'
  BY <1>4 DEF IInv, AllQuiet, Quiet
<1>8. PointerIsOwned' /\ ReachableIsRegistered'
  BY <1>1, <1>3, <1>4 DEF PointerIsOwned, ReachableIsRegistered, Dormant
<1>9. QrLimitLetsGo'
  <2>1. ~AtQrLimit(client'[c].codes)
    BY <1>4, ConfigAssumption DEF AtQrLimit
  <2> SUFFICES ASSUME NEW d \in Client, AtQrLimit(client'[d].codes)
               PROVE  /\ d \notin {clientPointer', myClientPointer'}
                      /\ \A h \in Thread : thread'[h].client # d
    BY DEF QrLimitLetsGo
  <2>2. d # c /\ AtQrLimit(client[d].codes)
    BY <1>4, <2>1
  <2> QED
    BY <1>1, <1>2, <1>3, <2>2 DEF IInv, QrLimitLetsGo
<1>10. AllDecryptable' /\ NoneLeftConnected'
  <2>1. ~Supervises(g)
    BY DEF NewClient, Supervises
  <2> QED
    BY <1>3, <1>4, <2>1, InvOthers
<1> QED
  BY <1>5, <1>6, <1>7, <1>8, <1>9, <1>10 DEF IInv

LEMMA InvAddEventHandler ==
  ASSUME IInv, TypeOK', NEW g \in Thread, AddEventHandler(g)
  PROVE  IInv'
<1> DEFINE c == thread[g].client
<1>1. c \in Client /\ Dormant(c) /\ c # NoClient
  BY PoolsAssumption DEF IInv, ConnectsDormant, Connecting, AddEventHandler
<1>2. /\ \A h \in Thread : thread'[h].client = thread[h].client
      /\ thread'[g].pc = "connect"
      /\ \A h \in Thread : h # g => thread'[h] = thread[h]
  BY DEF AddEventHandler, IInv, TypeOK, ThreadState
<1>3. /\ \A d \in Client : d # c => client'[d] = client[d]
      /\ client'[c] = [client[c] EXCEPT !.handler = "idle"]
  BY DEF AddEventHandler, IInv, TypeOK
<1>4. /\ client'[c].socket = "down" /\ client'[c].event = "none"
      /\ client'[c].handler = "idle" /\ client'[c].codes = client[c].codes
  BY <1>1, <1>3 DEF IInv, TypeOK, ClientState, Dormant
<1>5. SoleSupervisor'
  BY <1>2 DEF IInv, SoleSupervisor
<1>6. ConnectsDormant'
  <2> SUFFICES ASSUME NEW h \in Thread, thread'[h].pc \in {"register", "connect"}
               PROVE  thread[h].client \in Client /\ Dormant(thread[h].client)'
    BY <1>2 DEF ConnectsDormant, Connecting, Dormant
  <2>1. CASE h = g
    BY <1>1, <1>2, <1>4, <2>1 DEF Dormant
  <2>2. CASE h # g
    <3>1. thread[h].client \in Client /\ Dormant(thread[h].client)
      BY <1>2, <2>2 DEF IInv, ConnectsDormant, Connecting
    <3>2. thread[h].client # c
      BY <1>1, <2>2 DEF IInv, SoleSupervisor
    <3>3. thread'[h].client = thread[h].client
      BY <1>2
    <3> QED
      BY <1>3, <3>1, <3>2, <3>3 DEF Dormant
  <2> QED
    BY <2>1, <2>2
<1>7. AllQuiet'
  BY <1>3, <1>4 DEF IInv, AllQuiet, Quiet
<1>8. PointerIsOwned' /\ ReachableIsRegistered'
  <2>1. clientPointer' = clientPointer /\ myClientPointer' = c
    BY DEF AddEventHandler
  <2>2. \A d \in Client : Dormant(d) => Dormant(d)'
    BY <1>3, <1>4 DEF Dormant
  <2>3. Supervised(clientPointer) => Supervised(clientPointer)'
    BY <1>2, <2>1 DEF Supervised, AddEventHandler
  <2>4. Dormant(clientPointer)' <=> /\ client'[clientPointer].socket = "down"
                                    /\ client'[clientPointer].event = "none"
                                    /\ client'[clientPointer].handler # "kill"
    BY <2>1 DEF Dormant
  <2>5. PointerIsOwned'
    BY <1>3, <1>4, <2>1, <2>3, <2>4 DEF IInv, TypeOK, PointerIsOwned, Dormant
  <2> QED
    BY <1>1, <2>1, <2>5 DEF ReachableIsRegistered
<1>9. QrLimitLetsGo'
  <2> SUFFICES ASSUME NEW d \in Client, AtQrLimit(client'[d].codes)
               PROVE  /\ d \notin {clientPointer', myClientPointer'}
                      /\ \A h \in Thread : thread'[h].client # d
    BY DEF QrLimitLetsGo
  <2>1. AtQrLimit(client[d].codes)
    BY <1>3, <1>4
  <2>2. d # c /\ d # clientPointer /\ \A h \in Thread : thread[h].client # d
    BY <2>1 DEF IInv, QrLimitLetsGo
  <2> QED
    BY <1>2, <2>2 DEF AddEventHandler
<1>10. AllDecryptable' /\ NoneLeftConnected'
  <2>1. /\ thread[g].client = c /\ client[c].event = "none"
        /\ client'[c].event = "none" /\ client'[c].socket = "down"
    BY <1>1, <1>4 DEF Dormant
  <2>2. /\ \A h \in Thread : h # g => thread'[h] = thread[h]
        /\ \A d \in Client : d # c => client'[d] = client[d]
    BY <1>2, <1>3
  <2> HIDE DEF c
  <2> QED
    BY <2>1, <2>2, InvOthers
<1> QED
  BY <1>5, <1>6, <1>7, <1>8, <1>9, <1>10 DEF IInv

LEMMA InvConnectClient ==
  ASSUME IInv, TypeOK', NEW g \in Thread, ConnectClient(g)
  PROVE  IInv'
<1> DEFINE c == thread[g].client
<1>0. UNCHANGED <<clientPointer, myClientPointer>>
  BY DEF ConnectClient, maps
<1>1. c \in Client /\ Dormant(c)
  BY DEF IInv, ConnectsDormant, Connecting, ConnectClient
<1>2. CASE Kept
  BY <1>2, InvKept
<1>3. CASE /\ client' = [client EXCEPT ![c].socket = "up"]
           /\ thread' = [thread EXCEPT ![g].pc = IF client[c].id THEN "poll" ELSE "qr"]
  <2>1. /\ thread'[g].client = c /\ thread'[g].pc \in {"poll", "qr"}
        /\ \A h \in Thread : h # g => thread'[h] = thread[h]
    BY <1>3 DEF IInv, TypeOK, ThreadState
  <2>2. /\ client'[c].event = "none" /\ client'[c].handler # "kill"
        /\ client'[c].codes = client[c].codes
        /\ \A d \in Client : d # c => client'[d] = client[d]
    BY <1>1, <1>3 DEF IInv, TypeOK, ClientState, Dormant
  <2>3. c # NoClient
    BY <1>1, PoolsAssumption
  <2>4. SoleSupervisor'
    BY <2>1 DEF IInv, SoleSupervisor
  <2>5. ConnectsDormant'
    BY <2>1, <2>2, <2>3 DEF IInv, ConnectsDormant, Connecting, Dormant, SoleSupervisor
  <2>6. AllQuiet'
    BY <2>2 DEF IInv, AllQuiet, Quiet
  <2>7. PointerIsOwned'
    <3> SUFFICES ASSUME clientPointer # NoClient
                 PROVE  Supervised(clientPointer)' \/ Dormant(clientPointer)'
      BY <1>0 DEF PointerIsOwned
    <3>1. clientPointer \in Client
      BY DEF IInv, TypeOK
    <3>2. CASE clientPointer = c
      BY <1>0, <2>1, <3>2 DEF Supervised
    <3>3. CASE clientPointer # c /\ Supervised(clientPointer)
      BY <1>0, <2>1, <3>3 DEF Supervised
    <3>4. CASE clientPointer # c /\ Dormant(clientPointer)
      BY <1>0, <2>2, <3>1, <3>4 DEF Dormant
    <3> QED
      BY <3>2, <3>3, <3>4 DEF IInv, PointerIsOwned
  <2>8. ReachableIsRegistered'
    BY <1>0, <2>1 DEF IInv, ReachableIsRegistered, ConnectClient
  <2>9. QrLimitLetsGo'
    BY <1>0, <1>1, <2>1, <2>2 DEF IInv, QrLimitLetsGo
  <2>10. AllDecryptable' /\ NoneLeftConnected'
    <3>1. Supervised(c)'
      BY <2>1 DEF Supervised
    <3>2. client'[c].event = "none" /\ Supervised(c)'
      BY <2>2, <3>1
    <3> HIDE DEF c
    <3> QED
      BY <2>1, <2>2, <3>2, InvOthers DEF c
  <2> QED
    BY <2>4, <2>5, <2>6, <2>7, <2>8, <2>9, <2>10 DEF IInv
<1>4. CASE thread' = [thread EXCEPT ![g] = NoThread] /\ UNCHANGED client
  <2>1. Kept
    BY <1>0, <1>4 DEF IInv, TypeOK, NoThread, ConnectClient, Kept, ClientKept,
                      Dormant, Quiet, Supervises, Connecting
  <2> QED
    BY <2>1, InvKept
<1> QED
  BY <1>3, <1>4 DEF ConnectClient

LEMMA InvQrLimit ==
  ASSUME IInv, TypeOK', NEW g \in Thread, QrLimit(g)
  PROVE  IInv'
<1> DEFINE c == thread[g].client
           n == client[c].codes + 1
<1>1. /\ thread[g].pc = "qr" /\ AtQrLimit(n)
      /\ clientPointer' = NoClient /\ myClientPointer' = NoClient
      /\ thread' = [thread EXCEPT ![g] = NoThread]
  BY DEF QrLimit
<1>2. c \in Client \cup {NoClient} /\ NoClient \notin Client
  BY PoolsAssumption DEF IInv, TypeOK, ThreadState
<1>3. /\ thread'[g].client = NoClient /\ thread'[g].pc = "none"
      /\ \A h \in Thread :
           h # g => thread'[h] = thread[h] /\ (c # NoClient => thread[h].client # c)
  BY <1>1 DEF IInv, TypeOK, NoThread, SoleSupervisor
<1>4. /\ \A d \in Client : d # c => client'[d] = client[d]
      /\ c \in Client =>
           /\ client'[c].event = client[c].event
           /\ client'[c].handler = client[c].handler
           /\ client'[c].socket \in {client[c].socket, "down"}
           /\ client'[c].codes = n
  <2>1. PICK s \in {client[c].socket, "down"} :
          client' = [client EXCEPT ![c].codes = n, ![c].socket = s]
    BY DEF QrLimit
  <2>2. client \in [Client -> ClientState]
    BY DEF IInv, TypeOK
  <2>3. CASE c \in Client
    <3>1. client[c] \in ClientState
      BY <2>2, <2>3
    <3> HIDE DEF c, n
    <3>2. client'[c] = [client[c] EXCEPT !.codes = n, !.socket = s]
      BY <2>1, <2>2, <2>3
    <3> QED
      BY <2>1, <2>2, <2>3, <3>1, <3>2 DEF ClientState
  <2>4. CASE c \notin Client
    BY <2>1, <2>2, <2>4
  <2> QED
    BY <2>3, <2>4
<1> HIDE DEF c, n
<1>5. SoleSupervisor'
  BY <1>3 DEF IInv, SoleSupervisor
<1>6. ConnectsDormant'
  BY <1>1, <1>2, <1>3, <1>4 DEF IInv, ConnectsDormant, Connecting, Dormant
<1>7. AllQuiet'
  BY <1>4 DEF IInv, AllQuiet, Quiet
<1>8. PointerIsOwned' /\ ReachableIsRegistered'
  BY <1>1 DEF PointerIsOwned, ReachableIsRegistered
<1>9. QrLimitLetsGo'
  BY <1>1, <1>2, <1>3, <1>4 DEF IInv, QrLimitLetsGo
<1>10. AllDecryptable' /\ NoneLeftConnected'
  BY <1>1, <1>3, <1>4, InvOthers DEF c
<1> QED
  BY <1>5, <1>6, <1>7, <1>8, <1>9, <1>10 DEF IInv

LEMMA InvInit == Init => IInv
<1> SUFFICES ASSUME Init PROVE IInv
  OBVIOUS
<1> USE DEF Init
<1>1. SoleSupervisor /\ ConnectsDormant
  BY DEF NoThread, SoleSupervisor, ConnectsDormant, Connecting
<1>2. AllQuiet /\ PointerIsOwned /\ ReachableIsRegistered
  BY DEF NewClientState, AllQuiet, Quiet, PointerIsOwned, ReachableIsRegistered
<1>3. QrLimitLetsGo
  BY ConfigAssumption DEF NewClientState, QrLimitLetsGo, AtQrLimit
<1>4. AllDecryptable /\ NoneLeftConnected
  BY DEF NewClientState, AllDecryptable, NoneLeftConnected, Up
<1> QED
  BY <1>1, <1>2, <1>3, <1>4, TypeInit DEF IInv

LEMMA InvStep == IInv /\ [Next]_vars => IInv'
<1> SUFFICES ASSUME IInv, [Next]_vars PROVE IInv'
  OBVIOUS
<1>1. TypeOK /\ TypeOK'
  BY TypeStep DEF IInv
<1>2. CASE Kept
  BY <1>1, <1>2, InvKept
<1>3. CASE \E g \in Thread : \/ NewClient(g) \/ AddEventHandler(g)
                            \/ ConnectClient(g) \/ QrLimit(g)
  BY <1>1, <1>3, InvNewClient, InvAddEventHandler, InvConnectClient, InvQrLimit
<1> QED
  BY <1>1, <1>2, <1>3, KeptStep

LEMMA InvAlways == Spec => []IInv
BY InvInit, InvStep, PTL DEF Spec

(* Of the clients that overlapping starts leave out of the maps each that  *)
(* is still connected has its StartClient goroutine, whatever kills,       *)
(* restarts (line 791) and reconnections cross the starts; all but those   *)
(* that reached the QR limit.                                              *)
THEOREM NoneLeftConnectedHolds == Spec => []NoneLeftConnected
<1>1. IInv => NoneLeftConnected
  BY DEF IInv
<1> QED
  BY <1>1, InvAlways, PTL

(* The connected client that the API finds in clientPointer always has a   *)
(* StartClient goroutine that polls, or will poll, the kill channel.       *)
THEOREM ConnectedIsSupervisedHolds == Spec => []ConnectedIsSupervised
<1>1. IInv => ConnectedIsSupervised
  BY DEF IInv, PointerIsOwned, Dormant, ConnectedIsSupervised, Up
<1> QED
  BY <1>1, InvAlways, PTL

(* A client that has been logged out stays down while its handler blocks   *)
(* in the kill send.                                                       *)
THEOREM LoggedOutStaysDownHolds == Spec => []LoggedOutStaysDown
<1>1. IInv => LoggedOutStaysDown
  BY DEF IInv, AllQuiet, Quiet, LoggedOutStaysDown, Up
<1> QED
  BY <1>1, InvAlways, PTL

(* A client in clientPointer has an entry in myClientPointer too, or gets  *)
(* one next: the dozen places that clear one map clear the other before.   *)
THEOREM ReachableIsRegisteredHolds == Spec => []ReachableIsRegistered
<1>1. IInv => ReachableIsRegistered
  BY DEF IInv
<1> QED
  BY <1>1, InvAlways, PTL

(* Once a client has used up its QR codes nothing reaches it again, for    *)
(* every limit QRCODE_MAX_COUNT.                                           *)
THEOREM QrLimitLetsGoHolds == Spec => []QrLimitLetsGo
<1>1. IInv => QrLimitLetsGo
  BY DEF IInv
<1> QED
  BY <1>1, InvAlways, PTL
=============================================================================
