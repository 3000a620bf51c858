--------------------------- MODULE WebsocketHub ---------------------------
(***************************************************************************)
(* The websocket producer (pkg/events/websocket/websocket_producer.go):    *)
(* the connection of ONE instance (clients[instanceID]), the connections   *)
(* that get every event (broadcast), the goroutine that reads from each    *)
(* connection to notice its end, and the goroutines of CallWebhook that    *)
(* write events to them, under one RWMutex.                                *)
(***************************************************************************)
EXTENDS FiniteSets

CONSTANTS
  Conn,       \* the connections open at one time (a bound)
  Producer,   \* the events being produced at one time (a bound)
  None        \* no connection

ASSUME NoneAssumption == None \notin Conn

VARIABLES
  clients,    \* clients[instanceID]
  broadcast,  \* the slice broadcast, whose order only orders the writes
  conn,       \* what the server does with each connection
  peer,       \* external: the other end of it
  producer,   \* the Produce calls, each of which holds the read lock
  latest      \* history: the connection that AddClient added last

vars == <<clients, broadcast, conn, peer, producer, latest>>

(* "add" and "remove" wait for the write lock, "read" is in ReadMessage.   *)
ConnState ==
  [pc : {"free", "add", "read", "remove"}, kind : {"instance", "broadcast"}]

Free == [pc |-> "free", kind |-> "broadcast"]

(* to: the connection that WriteJSON is writing to; left: those of the     *)
(* loop over broadcast that are still to come.                             *)
ProducerState == [to : Conn \cup {None}, left : SUBSET Conn]

Returned == [to |-> None, left |-> {}]

TypeOK ==
  /\ clients \in Conn \cup {None}
  /\ broadcast \subseteq Conn
  /\ conn \in [Conn -> ConnState]
  /\ peer \in [Conn -> {"open", "stalled", "gone"}]
  /\ producer \in [Producer -> ProducerState]
  /\ latest \in Conn \cup {None}

Init ==
  /\ clients = None /\ broadcast = {}
  /\ conn = [c \in Conn |-> Free]
  /\ peer = [c \in Conn |-> "gone"]
  /\ producer = [p \in Producer |-> Returned]
  /\ latest = None

------------------------------------------------------------------------------
(* The RWMutex: a Lock waits for the readers, and once it waits no further *)
(* reader is let in.  A Produce holds the read lock while it has anything  *)
(* to write; one that finds no connection takes it and lets it go at once. *)

ReadLocked == \E p \in Producer : producer[p] # Returned

LockWaits == \E c \in Conn : conn[c].pc \in {"add", "remove"}

------------------------------------------------------------------------------
(* ServeWs upgrades, adds the connection under the lock, and only then     *)
(* starts to read from it.                                                 *)

Upgrade(c) ==
  /\ conn[c].pc = "free"
  /\ \E k \in {"instance", "broadcast"} :
       conn' = [conn EXCEPT ![c] = [pc |-> "add", kind |-> k]]
  /\ peer' = [peer EXCEPT ![c] = "open"]
  /\ UNCHANGED <<clients, broadcast, producer, latest>>

Reads(c) == conn' = [conn EXCEPT ![c].pc = "read"]

AddBroadcastClient(c) ==
  /\ conn[c] = [pc |-> "add", kind |-> "broadcast"] /\ ~ReadLocked
  /\ broadcast' = broadcast \cup {c}
  /\ Reads(c)
  /\ UNCHANGED <<clients, peer, producer, latest>>

(* The connection that was there is forgotten, and not closed.             *)
AddClient(c) ==
  /\ conn[c] = [pc |-> "add", kind |-> "instance"] /\ ~ReadLocked
  /\ clients' = c
  /\ latest' = c
  /\ Reads(c)
  /\ UNCHANGED <<broadcast, peer, producer>>

ReadFails(c) ==
  /\ conn[c].pc = "read" /\ peer[c] = "gone"
  /\ conn' = [conn EXCEPT ![c].pc = "remove"]
  /\ UNCHANGED <<clients, broadcast, peer, producer, latest>>

(* conn.Close(), and the goroutine ends.                                   *)
Closed(c) ==
  /\ conn' = [conn EXCEPT ![c] = Free]
  /\ peer' = [peer EXCEPT ![c] = "gone"]
  /\ UNCHANGED producer

(* Faulty variant: the slice is cut off at the connection.                 *)
RemoveBroadcastClient_Cuts(c) ==
  /\ conn[c] = [pc |-> "remove", kind |-> "broadcast"] /\ ~ReadLocked
  /\ \E kept \in SUBSET (broadcast \ {c}) : broadcast' = kept
  /\ Closed(c)
  /\ UNCHANGED <<clients, latest>>

(* Faulty variant: it does not wait for the lock.                          *)
RemoveBroadcastClient_NoLock(c) ==
  /\ conn[c] = [pc |-> "remove", kind |-> "broadcast"]
  /\ broadcast' = broadcast \ {c}
  /\ Closed(c)
  /\ UNCHANGED <<clients, latest>>

RemoveBroadcastClient(c) ==
  /\ conn[c] = [pc |-> "remove", kind |-> "broadcast"] /\ ~ReadLocked
  /\ broadcast' = broadcast \ {c}
  /\ Closed(c)
  /\ UNCHANGED <<clients, latest>>

(* Faulty variant: the entry is left to whoever comes next.                *)
RemoveClient_KeepsEntry(c) ==
  /\ conn[c] = [pc |-> "remove", kind |-> "instance"] /\ ~ReadLocked
  /\ latest' = IF latest = c THEN None ELSE latest
  /\ Closed(c)
  /\ UNCHANGED <<clients, broadcast>>

(* The entry is found by the instance, whichever connection it holds.      *)
RemoveClient(c) ==
  /\ conn[c] = [pc |-> "remove", kind |-> "instance"] /\ ~ReadLocked
  /\ clients' = None
  /\ latest' = IF latest = c THEN None ELSE latest
  /\ Closed(c)
  /\ UNCHANGED broadcast

------------------------------------------------------------------------------
(* External: the other end reads what it is sent, stops reading until the  *)
(* buffers between the two are full, or goes.                              *)
Peer(c) ==
  /\ conn[c].pc # "free" /\ peer[c] # "gone"
  /\ \E s \in {"open", "stalled", "gone"} \ {peer[c]} :
       peer' = [peer EXCEPT ![c] = s]
  /\ UNCHANGED <<clients, broadcast, conn, producer, latest>>

------------------------------------------------------------------------------
(* Produce.  The dispatch of webhooks passes a url where the id belongs,   *)
(* for which there is no connection; CallWebhook passes the id.            *)
Produce(p) ==
  /\ producer[p] = Returned /\ ~LockWaits
  /\ \E first \in {None, clients} :
       producer' = [producer EXCEPT ![p] = [to |-> first, left |-> broadcast]]
  /\ UNCHANGED <<clients, broadcast, conn, peer, latest>>

Goes(p, state) ==
  /\ producer' = [producer EXCEPT ![p] = state]
  /\ UNCHANGED <<clients, broadcast, conn, peer, latest>>

NextBroadcast(p) ==
  /\ producer[p].to = None
  /\ \E c \in producer[p].left :
       Goes(p, [to |-> c, left |-> producer[p].left \ {c}])

(* There is no write deadline: on a stalled connection WriteJSON waits.    *)
Written(p) ==
  /\ producer[p].to # None /\ peer[producer[p].to] # "stalled"
  /\ Goes(p, [producer[p] EXCEPT !.to = None])

(* Faulty variant: a broadcast that fails is tried again, lock in hand.    *)
WriteFails_Retries(p) ==
  LET c == producer[p].to IN
  /\ c # None /\ peer[c] = "gone"
  /\ Goes(p, IF conn[c].kind = "instance" THEN Returned
             ELSE [to |-> None, left |-> producer[p].left \cup {c}])

(* An error of a broadcast is passed over; that of the instance's own      *)
(* connection returns, and the broadcast gets nothing.                     *)
WriteFails(p) ==
  LET c == producer[p].to IN
  /\ c # None /\ peer[c] = "gone"
  /\ Goes(p, IF conn[c].kind = "instance" THEN Returned
                                          ELSE [producer[p] EXCEPT !.to = None])

(* Two writers on one connection: gorilla panics when it notices, in a     *)
(* goroutine where nothing recovers.  The process ends, and starts again   *)
(* with nothing of all this.                                               *)
ConcurrentWrite(p) ==
  /\ producer[p].to # None
  /\ \E q \in Producer \ {p} : producer[q].to = producer[p].to
  /\ clients' = None /\ broadcast' = {} /\ latest' = None
  /\ conn' = [c \in Conn |-> Free]
  /\ peer' = [c \in Conn |-> "gone"]
  /\ producer' = [q \in Producer |-> Returned]

------------------------------------------------------------------------------
ServeWs(c) ==
  \/ AddBroadcastClient(c) \/ AddClient(c)
  \/ ReadFails(c) \/ RemoveBroadcastClient(c) \/ RemoveClient(c)

ProduceStep(p) == NextBroadcast(p) \/ Written(p) \/ WriteFails(p)

Next ==
  \/ \E c \in Conn : Upgrade(c) \/ ServeWs(c) \/ Peer(c)
  \/ \E p \in Producer : Produce(p) \/ ProduceStep(p) \/ ConcurrentWrite(p)

Spec == Init /\ [][Next]_vars

(* Goroutines run when they can.  Nothing is promised of the other ends,   *)
(* of new connections or of new events.                                    *)
FairSpec ==
  /\ Spec
  /\ \A c \in Conn : WF_vars(ServeWs(c))
  /\ \A p \in Producer : WF_vars(ProduceStep(p))

------------------------------------------------------------------------------
(* A connection in clients or in broadcast has a goroutine that reads from *)
(* it, and so will be taken out when it ends: none is written to for ever. *)
EntriesAreRead ==
  \A c \in broadcast \cup ({clients} \ {None}) :
    conn[c].pc \in {"read", "remove"}

(* A connection that gets every event stays in broadcast as long as it is  *)
(* read from, whatever is added, removed and written beside it.            *)
BroadcastIsServed ==
  \A c \in Conn :
    conn[c].pc = "read" /\ conn[c].kind = "broadcast" => c \in broadcast

(* No event is written to a connection that the server has closed.         *)
WritesAreOpen ==
  \A p \in Producer :
    producer[p].to # None => conn[producer[p].to].pc # "free"

(* A connection whose other end is gone is taken out of the hub, unless a  *)
(* stalled one holds a write, and with it the lock.                        *)
DeadIsForgotten ==
  \A c \in Conn :
    conn[c].pc = "read" /\ peer[c] = "gone" ~>
      \/ c \notin broadcast \cup {clients}
      \/ \E d \in Conn : peer[d] = "stalled"
=============================================================================
