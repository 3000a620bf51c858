------------------------ MODULE WebsocketHub_proofs ------------------------
(***************************************************************************)
(* Proofs about WebsocketHub, for any number of connections and events.    *)
(***************************************************************************)
EXTENDS WebsocketHub, TLAPS

(* The inductive invariant.  The lists of the Produce calls are part of it *)
(* because a connection is written to long after it was looked up; the     *)
(* kinds, because each kind is taken out of its own place only.            *)

Read(c) == conn[c].pc \in {"read", "remove"}

EntriesOfKind ==
  /\ clients # None => conn[clients].kind = "instance" /\ Read(clients)
  /\ \A c \in broadcast : conn[c].kind = "broadcast" /\ Read(c)

WritersOfRead ==
  \A p \in Producer :
    /\ producer[p].to # None => Read(producer[p].to)
    /\ \A c \in producer[p].left : Read(c)

IInv == TypeOK /\ EntriesOfKind /\ BroadcastIsServed /\ WritersOfRead

(* What the fields of a connection and of a Produce call may be.           *)
LEMMA Shapes ==
  ASSUME TypeOK
  PROVE  /\ \A c \in Conn : conn[c] \in ConnState
         /\ \A p \in Producer : producer[p] \in ProducerState
         /\ \A c \in Conn : /\ conn[c].pc \in {"free", "add", "read", "remove"}
                            /\ conn[c].kind \in {"instance", "broadcast"}
         /\ \A p \in Producer : /\ producer[p].to \in Conn \cup {None}
                                /\ producer[p].left \subseteq Conn
  BY DEF TypeOK, ConnState, ProducerState

(* The initial state satisfies it.                                         *)
LEMMA InvInit == Init => IInv
  BY NoneAssumption DEF Init, IInv, TypeOK, EntriesOfKind, BroadcastIsServed,
     WritersOfRead, Free, Returned, ConnState, ProducerState, Read

(* While nobody holds the read lock there is nothing left to be written.   *)
LEMMA Unlocked ==
  ASSUME ~ReadLocked, NEW p \in Producer
  PROVE  producer[p].to = None /\ producer[p].left = {}
  BY DEF ReadLocked, Returned

(* The connection's goroutine.                                             *)
LEMMA InvServe ==
  ASSUME IInv, NEW c \in Conn, Upgrade(c) \/ ServeWs(c)
  PROVE  IInv'
<1> USE NoneAssumption, Shapes, Unlocked
<1>1. CASE Upgrade(c)
  BY <1>1 DEF IInv, Upgrade, TypeOK, ConnState, EntriesOfKind,
     BroadcastIsServed, WritersOfRead, Read
<1>2. CASE AddBroadcastClient(c)
  BY <1>2 DEF IInv, AddBroadcastClient, Reads, TypeOK, ConnState,
     EntriesOfKind, BroadcastIsServed, WritersOfRead, Read
<1>3. CASE AddClient(c)
  BY <1>3 DEF IInv, AddClient, Reads, TypeOK, ConnState,
     EntriesOfKind, BroadcastIsServed, WritersOfRead, Read
<1>4. CASE ReadFails(c)
  BY <1>4 DEF IInv, ReadFails, TypeOK, ConnState,
     EntriesOfKind, BroadcastIsServed, WritersOfRead, Read
<1>5. CASE RemoveBroadcastClient(c)
  BY <1>5 DEF IInv, RemoveBroadcastClient, Closed, Free, TypeOK, ConnState,
     EntriesOfKind, BroadcastIsServed, WritersOfRead, Read
<1>6. CASE RemoveClient(c)
  BY <1>6 DEF IInv, RemoveClient, Closed, Free, TypeOK, ConnState,
     EntriesOfKind, BroadcastIsServed, WritersOfRead, Read
<1>7. QED
  BY <1>1, <1>2, <1>3, <1>4, <1>5, <1>6 DEF ServeWs

(* A step that changes the Produce calls alone keeps it when the call that *)
(* goes on writes to connections that are read from.                       *)
LEMMA InvGoes ==
  ASSUME IInv, NEW p \in Producer, NEW state \in ProducerState,
         producer' = [producer EXCEPT ![p] = state],
         state.to # None => Read(state.to),
         \A c \in state.left : Read(c),
         UNCHANGED <<clients, broadcast, conn, peer, latest>>
  PROVE  IInv'
<1>1. TypeOK'
  BY DEF IInv, TypeOK
<1>2. EntriesOfKind' /\ BroadcastIsServed'
  BY DEF IInv, EntriesOfKind, BroadcastIsServed, Read
<1>3. WritersOfRead'
  BY DEF IInv, TypeOK, WritersOfRead, Read
<1>4. QED
  BY <1>1, <1>2, <1>3 DEF IInv

(* The Produce calls.                                                      *)
LEMMA InvProduce ==
  ASSUME IInv, NEW p \in Producer, Produce(p) \/ ProduceStep(p)
  PROVE  IInv'
<1>0. producer[p] \in ProducerState /\ broadcast \subseteq Conn
      /\ clients \in Conn \cup {None}
  BY Shapes DEF IInv, TypeOK
<1>1. CASE Produce(p)
  <2>1. PICK first \in {None, clients} :
          producer' = [producer EXCEPT ![p] = [to |-> first, left |-> broadcast]]
    BY <1>1 DEF Produce
  <2>2. [to |-> first, left |-> broadcast] \in ProducerState
    BY <1>0 DEF ProducerState
  <2>3. (first # None => Read(first)) /\ \A c \in broadcast : Read(c)
    BY DEF IInv, EntriesOfKind
  <2>4. QED
    BY <1>1, <2>1, <2>2, <2>3, InvGoes DEF Produce
<1>2. CASE NextBroadcast(p)
  <2>1. PICK c \in producer[p].left :
          Goes(p, [to |-> c, left |-> producer[p].left \ {c}])
    BY <1>2 DEF NextBroadcast
  <2>2. [to |-> c, left |-> producer[p].left \ {c}] \in ProducerState
    BY <1>0 DEF ProducerState
  <2>3. Read(c) /\ \A d \in producer[p].left \ {c} : Read(d)
    BY DEF IInv, WritersOfRead
  <2>4. QED
    BY <2>1, <2>2, <2>3, InvGoes DEF Goes
<1>3. [producer[p] EXCEPT !.to = None] \in ProducerState
      /\ [producer[p] EXCEPT !.to = None].to = None
      /\ [producer[p] EXCEPT !.to = None].left = producer[p].left
  BY <1>0 DEF ProducerState
<1>4. \A c \in producer[p].left : Read(c)
  BY DEF IInv, WritersOfRead
<1>5. CASE Written(p)
  BY <1>3, <1>4, <1>5, InvGoes DEF Written, Goes
<1>6. CASE WriteFails(p)
  <2>1. Returned \in ProducerState /\ Returned.to = None /\ Returned.left = {}
    BY DEF Returned, ProducerState
  <2>2. CASE conn[producer[p].to].kind = "instance"
    BY <1>6, <2>1, <2>2, InvGoes DEF WriteFails, Goes
  <2>3. CASE conn[producer[p].to].kind # "instance"
    BY <1>3, <1>4, <1>6, <2>3, InvGoes DEF WriteFails, Goes
  <2>4. QED
    BY <2>2, <2>3
<1>7. QED
  BY <1>1, <1>2, <1>5, <1>6 DEF ProduceStep

(* Every step keeps the inductive invariant.                               *)
LEMMA InvStep == IInv /\ [Next]_vars => IInv'
<1> SUFFICES ASSUME IInv, [Next]_vars
             PROVE  IInv'
  OBVIOUS
<1>1. ASSUME NEW c \in Conn, Upgrade(c) \/ ServeWs(c)
      PROVE  IInv'
  BY <1>1, InvServe
<1>2. ASSUME NEW c \in Conn, Peer(c)
      PROVE  IInv'
  BY <1>2 DEF IInv, Peer, TypeOK, EntriesOfKind, BroadcastIsServed,
     WritersOfRead, Read
<1>3. ASSUME NEW p \in Producer, Produce(p) \/ ProduceStep(p)
      PROVE  IInv'
  BY <1>3, InvProduce
<1>4. ASSUME NEW p \in Producer, ConcurrentWrite(p)
      PROVE  IInv'
  BY <1>4, NoneAssumption DEF ConcurrentWrite, IInv, TypeOK, EntriesOfKind,
     BroadcastIsServed, WritersOfRead, Free, Returned, ConnState,
     ProducerState, Read
<1>5. CASE UNCHANGED vars
  BY <1>5 DEF vars, IInv, TypeOK, EntriesOfKind, BroadcastIsServed,
     WritersOfRead, Read
<1>6. QED
  BY <1>1, <1>2, <1>3, <1>4, <1>5 DEF Next

(* It holds in every reachable state.                                      *)
LEMMA InvAlways == Spec => []IInv
  BY InvInit, InvStep, PTL DEF Spec

(* Type correctness.                                                       *)
THEOREM TypeCorrect == Spec => []TypeOK
<1>1. IInv => TypeOK
  BY DEF IInv
<1>2. QED
  BY InvAlways, <1>1, PTL

(* Every connection the hub may write to is still read from, so that its   *)
(* end will be noticed (the reader that ServeWs starts last).              *)
THEOREM EntriesAreReadHolds == Spec => []EntriesAreRead
<1>1. IInv => EntriesAreRead
  BY DEF IInv, EntriesOfKind, EntriesAreRead, Read
<1>2. QED
  BY InvAlways, <1>1, PTL

(* No removal takes another broadcast connection out of the slice.         *)
THEOREM BroadcastIsServedHolds == Spec => []BroadcastIsServed
<1>1. IInv => BroadcastIsServed
  BY DEF IInv
<1>2. QED
  BY InvAlways, <1>1, PTL

(* The lock keeps every write away from connections that were closed.      *)
THEOREM WritesAreOpenHolds == Spec => []WritesAreOpen
<1>1. IInv => WritesAreOpen
  BY DEF IInv, WritersOfRead, WritesAreOpen, Read
<1>2. QED
  BY InvAlways, <1>1, PTL
=============================================================================
