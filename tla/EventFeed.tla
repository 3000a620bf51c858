----------------------------- MODULE EventFeed -----------------------------
(***************************************************************************)
(* The MCP server (cmd/mcp, internal/mcp, internal/events, internal/wago): *)
(* the events it gathers in a buffer from the backend's webhooks and from a*)
(* websocket that it dials again and again, the tool calls that take them  *)
(* out, the active instance the other calls are made for, and its two      *)
(* transports: stdio, one call after the other, and http, as they come.    *)
(***************************************************************************)
EXTENDS Integers, Sequences, FiniteSets

CONSTANTS
  Cap,          \* the capacity of the buffer
  EventType,    \* the types of the events that are posted to the webhook
  Token,        \* the tokens of the backend's instances
  Call,         \* the calls there can be, 1 to some number
  MinBackoff, MaxBackoff,    \* in the units of the websocket client's timer
  MaxArrivals, MaxConns,     \* bounds: events, and websocket connections
  Mixes         \* bounds: the kinds of calls and inputs met together, and
                \* how many calls

Kind == {"poll", "clear", "use", "request", "reply"}

ASSUME FeedAssumption ==
  /\ Cap \in Nat \ {0} /\ Call \subseteq Nat \ {0}
  /\ MinBackoff \in Nat \ {0} /\ MaxBackoff \in Nat
  /\ MaxBackoff >= MinBackoff
  /\ MaxArrivals \in Nat /\ MaxConns \in Nat
  /\ Mixes \subseteq
       [of : SUBSET (Kind \cup {"events", "socket", "leave"}), calls : Nat]

VARIABLES
  transport,   \* MCP_TRANSPORT
  process,     \* "up", or "ended"
  listening,   \* the receiver of webhooks, and under http the server, listens
  signalled,   \* SIGINT or SIGTERM has cancelled the context of main
  q,           \* the buffer
  ws,          \* where RunWS is, "off" without MCP_WS_URL
  backoff,     \* its next wait
  conns,       \* how many connections it has had, the last one its current
  waiters,     \* the connections with a goroutine that waits for the context
  closed,      \* the current connection has been closed by its goroutine
  active,      \* the token of the active instance
  call,        \* the tool calls
  mix,         \* the kinds of calls and inputs of this behaviour
  arrived,     \* history: how many events have been pushed
  handed,      \* history: the events polls have taken, in that order
  cleared,     \* history: the events wago_events_clear has dropped
  settled      \* history: the tokens a new call may find active

feed == <<q, arrived, handed, cleared>>
socket == <<ws, backoff, conns, waiters, closed>>
session == <<active, settled>>
main == <<transport, process, listening, signalled, mix>>
vars == <<main, feed, socket, session, call>>

NoToken == "none"

Event == [id : 1..MaxArrivals, type : EventType \cup {"untyped"}]

CallState ==
  [kind : Kind \cup {"none"},
   pc : {"idle", "run", "remaining", "sent", "answer", "end"},
   filter : EventType \cup {"any"}, limit : Nat,
   token : Token \cup {NoToken},
   step : 1..3,               \* of a reply: read, composing, text
   found : SUBSET (Token \cup {NoToken}),   \* history: what may be active
   used : SUBSET (Token \cup {NoToken}),    \* history: what it has used
   result : {"none", "ok", "error", "lost"}]

NoCall ==
  [kind |-> "none", pc |-> "idle", filter |-> "any", limit |-> 0,
   token |-> NoToken, step |-> 1, found |-> {}, used |-> {},
   result |-> "none"]

(* The buffer holds at most its capacity, events in the order they arrived.*)
TypeOK ==
  /\ transport \in {"stdio", "http"} /\ process \in {"up", "ended"}
  /\ listening \in BOOLEAN /\ signalled \in BOOLEAN
  /\ q \in Seq(Event) /\ Len(q) <= Cap
  /\ \A i, j \in DOMAIN q : i < j => q[i].id < q[j].id
  /\ ws \in {"off", "dial", "pump", "wait", "done"}
  /\ backoff \in MinBackoff..MaxBackoff
  /\ conns \in 0..MaxConns /\ waiters \subseteq 1..conns /\ closed \in BOOLEAN
  /\ active \in Token \cup {NoToken}
  /\ call \in [Call -> CallState]
  /\ mix \in Mixes

Init ==
  /\ transport \in {"stdio", "http"} /\ process = "up" /\ signalled = FALSE
  /\ listening \in BOOLEAN /\ (transport = "http" => listening)
  /\ q = <<>> /\ arrived = 0 /\ handed = <<>> /\ cleared = {}
  /\ mix \in Mixes
  /\ ws = IF "socket" \in mix.of THEN "dial" ELSE "off"
  /\ backoff = MinBackoff
  /\ conns = 0 /\ waiters = {} /\ closed = FALSE
  /\ active = NoToken /\ settled = {NoToken}
  /\ call = [c \in Call |-> NoCall]

------------------------------------------------------------------------------
(* The buffer.                                                             *)

(* Faulty variant: at its capacity it drops one event more than it needs.  *)
Room_Two(s) ==
  IF Len(s) >= Cap THEN SubSeq(s, Len(s) - Cap + 3, Len(s)) ELSE s

(* Faulty variant: one event too many is let in.                           *)
Room_Late(s) ==
  IF Len(s) > Cap THEN SubSeq(s, Len(s) - Cap + 2, Len(s)) ELSE s

(* The oldest events go, so that there is room for one.                    *)
Room(s) ==
  IF Len(s) >= Cap THEN SubSeq(s, Len(s) - Cap + 2, Len(s)) ELSE s

Push(type) ==
  /\ "events" \in mix.of /\ arrived < MaxArrivals
  /\ arrived' = arrived + 1
  /\ q' = Append(Room(q), [id |-> arrived + 1, type |-> type])
  /\ UNCHANGED <<handed, cleared>>

Matches(e, filter) == filter = "any" \/ e.type = filter

(* Faulty variant: the newest ones that match.                             *)
Taken_Newest(filter, limit) ==
  {i \in DOMAIN q :
    /\ Matches(q[i], filter)
    /\ \/ limit <= 0
       \/ Cardinality({j \in DOMAIN q : j >= i /\ Matches(q[j], filter)})
            <= limit}

(* The positions of the events a poll takes: the first that match, up to   *)
(* its limit.                                                              *)
Taken(filter, limit) ==
  {i \in DOMAIN q :
    /\ Matches(q[i], filter)
    /\ \/ limit <= 0
       \/ Cardinality({j \in DOMAIN q : j <= i /\ Matches(q[j], filter)})
            <= limit}

IdsAt(positions) == {q[i].id : i \in positions}

(* Some positions in the order they have in the buffer, and their events.  *)
InOrder(positions) ==
  CHOOSE f \in [1..Cardinality(positions) -> positions] :
    \A i, j \in DOMAIN f : i < j => f[i] < f[j]

EventsAt(positions) ==
  [k \in 1..Cardinality(positions) |-> q[InOrder(positions)[k]]]

Poll(filter, limit) ==
  LET taken == Taken(filter, limit)
  IN /\ handed' = handed \o EventsAt(taken)
     /\ q' = EventsAt(DOMAIN q \ taken)
     /\ UNCHANGED <<arrived, cleared>>

Clear ==
  /\ cleared' = cleared \cup IdsAt(DOMAIN q)
  /\ q' = <<>>
  /\ UNCHANGED <<arrived, handed>>

(* A webhook of the backend posts an event to the receiver, which shares   *)
(* the http transport's port and, with MCP_WEBHOOK_ADDR, has a server of   *)
(* its own under stdio.  In a body of another kind no type is found.       *)
Handler ==
  /\ process = "up" /\ listening
  /\ \E type \in EventType \cup {"untyped"} : Push(type)
  /\ UNCHANGED <<main, socket, session, call>>

------------------------------------------------------------------------------
(* The websocket client.                                                   *)

(* The frames of the backend are {queue, payload}: no type is found in one.*)
Frame ==
  /\ process = "up" /\ ws = "pump" /\ ~closed
  /\ Push("untyped")
  /\ UNCHANGED <<main, socket, session, call>>

Lesser(a, b) == IF a < b THEN a ELSE b

(* Every connection leaves a goroutine that waits for the context to be    *)
(* cancelled and then closes it, even if it is gone by then.               *)
Dial ==
  /\ process = "up" /\ ws = "dial"
  /\ \/ /\ signalled
        /\ ws' = "done"
        /\ UNCHANGED <<conns, waiters, closed>>
     \/ /\ ~signalled /\ conns < MaxConns
        /\ conns' = conns + 1 /\ waiters' = waiters \cup {conns + 1}
        /\ ws' = "pump" /\ closed' = FALSE
     \/ /\ ~signalled
        /\ ws' = "wait"
        /\ UNCHANGED <<conns, waiters, closed>>
  /\ UNCHANGED <<main, feed, session, call, backoff>>

(* The connection ends: the backend or the network has closed it, or its   *)
(* goroutine.                                                              *)
ReadFails ==
  /\ process = "up" /\ ws = "pump"
  /\ ws' = IF signalled THEN "done" ELSE "wait"
  /\ backoff' = MinBackoff
  /\ UNCHANGED <<main, feed, session, call, conns, waiters, closed>>

Wait ==
  /\ process = "up" /\ ws = "wait"
  /\ IF signalled
       THEN ws' = "done" /\ UNCHANGED backoff
       ELSE ws' = "dial" /\ backoff' = Lesser(2 * backoff, MaxBackoff)
  /\ UNCHANGED <<main, feed, session, call, conns, waiters, closed>>

(* Faulty variant: the goroutine ends and leaves the connection open.      *)
CloseOnDone_Open ==
  /\ process = "up" /\ signalled
  /\ \E w \in waiters : waiters' = waiters \ {w}
  /\ UNCHANGED closed
  /\ UNCHANGED <<main, feed, session, call, ws, backoff, conns>>

CloseOnDone ==
  /\ process = "up" /\ signalled
  /\ \E w \in waiters :
       /\ waiters' = waiters \ {w}
       /\ closed' = (closed \/ w = conns)
  /\ UNCHANGED <<main, feed, session, call, ws, backoff, conns>>

------------------------------------------------------------------------------
(* The tool calls.                                                         *)
InProgress == {c \in Call : call[c].pc \notin {"idle", "end"}}

Selected == {call[c].token : c \in {d \in InProgress : call[d].kind = "use"}}

Limit == {0, 1}

(* A tools/call arrives: under stdio when the one before has been answered.*)
Begin(c, new) ==
  /\ process = "up" /\ new.kind \in mix.of
  /\ IF transport = "http" THEN listening ELSE InProgress = {}
  /\ c <= mix.calls /\ call[c].pc = "idle"
  /\ \A d \in Call : d < c => call[d].pc # "idle"
  /\ call' = [d \in Call |->
       IF d = c
         THEN [new EXCEPT !.pc = "run",
                 !.found = Selected \cup
                   (IF new.kind = "use" THEN {} ELSE settled)]
         ELSE IF d \in InProgress
           THEN [call[d] EXCEPT !.found =
                   @ \cup (IF new.kind = "use" THEN {new.token} ELSE {})]
           ELSE call[d]]
  /\ UNCHANGED <<main, feed, socket, session>>

BeginPoll(c) ==
  \E f \in EventType \cup {"any"}, n \in Limit :
    Begin(c, [NoCall EXCEPT !.kind = "poll", !.filter = f, !.limit = n])

BeginClear(c) == Begin(c, [NoCall EXCEPT !.kind = "clear"])

BeginUse(c) ==
  \E t \in Token : Begin(c, [NoCall EXCEPT !.kind = "use", !.token = t])

BeginRequest(c) ==
  \E kind \in {"request", "reply"} : Begin(c, [NoCall EXCEPT !.kind = kind])

Running(c, kind) == process = "up" /\ call[c].pc = "run" /\ call[c].kind = kind

GoTo(c, pc) == call' = [call EXCEPT ![c].pc = pc]

Finish(c, result) ==
  call' = [call EXCEPT ![c].pc = "answer",
                       ![c].result = IF @ = "lost" THEN @ ELSE result]

(* wago_events_poll asks for the number that remain when the lock has been *)
(* given up.                                                               *)
EventsPoll(c) ==
  /\ Running(c, "poll")
  /\ Poll(call[c].filter, call[c].limit)
  /\ GoTo(c, "remaining")
  /\ UNCHANGED <<main, socket, session>>

EventsRemaining(c) ==
  /\ process = "up" /\ call[c].pc = "remaining"
  /\ Finish(c, "ok")
  /\ UNCHANGED <<main, feed, socket, session>>

EventsClear(c) ==
  /\ Running(c, "clear")
  /\ Clear
  /\ Finish(c, "ok")
  /\ UNCHANGED <<main, socket, session>>

(* Faulty variant: the first instance stays the active one.                *)
UseInstance_First(c) ==
  /\ Running(c, "use")
  /\ active' = IF active = NoToken THEN call[c].token ELSE active
  /\ Finish(c, "ok")
  /\ UNCHANGED <<main, feed, socket, settled>>

UseInstance(c) ==
  /\ Running(c, "use")
  /\ active' = call[c].token
  /\ Finish(c, "ok")
  /\ UNCHANGED <<main, feed, socket, settled>>

(* The context of a call is the request's under http, and main's under     *)
(* stdio, where a signal cancels it although the server goes on.           *)
Cancelled(c) ==
  IF transport = "http" THEN call[c].result = "lost" ELSE signalled

IsRequest(c) == Running(c, "request") \/ Running(c, "reply")

(* Without an active instance, and when its context has been cancelled, a  *)
(* call's request is not made.  wago_human_reply passes over what becomes  *)
(* of its second one.                                                      *)
NotMade(c) ==
  /\ IsRequest(c)
  /\ Cancelled(c) \/ active = NoToken
  /\ IF call[c].kind = "reply" /\ call[c].step = 2
       THEN call' = [call EXCEPT ![c].step = 3]
       ELSE Finish(c, "error")
  /\ UNCHANGED <<main, feed, socket, session>>

(* keyFor: every request takes the token that is active then.              *)
KeyFor(c) ==
  /\ IsRequest(c)
  /\ ~Cancelled(c) /\ active # NoToken
  /\ call' = [call EXCEPT ![c].pc = "sent", ![c].used = @ \cup {active}]
  /\ UNCHANGED <<main, feed, socket, session>>

(* The backend's answer, an error of it, or thirty seconds without one.    *)
Do(c) ==
  /\ process = "up" /\ call[c].pc = "sent"
  /\ \/ IF call[c].kind = "reply" /\ call[c].step < 3
          THEN call' = [call EXCEPT ![c].pc = "run", ![c].step = @ + 1]
          ELSE Finish(c, "ok")
     \/ IF call[c].kind = "reply" /\ call[c].step = 2
          THEN call' = [call EXCEPT ![c].pc = "run", ![c].step = 3]
          ELSE Finish(c, "error")
  /\ UNCHANGED <<main, feed, socket, session>>

(* Faulty variant: a call whose client has left is not brought to its end. *)
Answer_IfHeard(c) ==
  /\ process = "up" /\ call[c].pc = "answer" /\ call[c].result # "lost"
  /\ GoTo(c, "end")
  /\ settled' = IF call[c].kind = "use"
                  THEN {call[c].token} \cup call[c].found ELSE settled
  /\ UNCHANGED <<main, feed, socket, active>>

Answer(c) ==
  /\ process = "up" /\ call[c].pc = "answer"
  /\ GoTo(c, "end")
  /\ settled' = IF call[c].kind = "use"
                  THEN {call[c].token} \cup call[c].found ELSE settled
  /\ UNCHANGED <<main, feed, socket, active>>

------------------------------------------------------------------------------
(* The clients and the process.                                            *)

(* An http client closes its connection before it is answered.             *)
Leave(c) ==
  /\ process = "up" /\ transport = "http" /\ "leave" \in mix.of /\ c \in InProgress
  /\ call' = [call EXCEPT ![c].result = "lost"]
  /\ UNCHANGED <<main, feed, socket, session>>

Signal ==
  /\ process = "up" /\ ~signalled /\ signalled' = TRUE
  /\ UNCHANGED <<transport, process, listening, mix, feed, socket, session, call>>

(* Shutdown makes ListenAndServe return: under http main returns with it,  *)
(* and does not wait for the calls in progress as Shutdown does.           *)
Shutdown ==
  /\ process = "up" /\ signalled /\ listening
  /\ listening' = FALSE
  /\ process' = IF transport = "http" THEN "ended" ELSE process
  /\ UNCHANGED <<transport, signalled, mix, feed, socket, session, call>>

(* The client closes stdin, or stdout when an answer is to be written.     *)
Disconnect ==
  /\ process = "up" /\ transport = "stdio"
  /\ \A c \in InProgress : call[c].pc = "answer"
  /\ process' = "ended"
  /\ UNCHANGED <<transport, listening, signalled, mix, feed, socket, session, call>>

CallStep(c) ==
  \/ EventsPoll(c) \/ EventsRemaining(c) \/ EventsClear(c) \/ UseInstance(c)
  \/ NotMade(c) \/ KeyFor(c) \/ Do(c) \/ Answer(c)

Calls == \E c \in Call : CallStep(c)

(* Of its own RunWS reads on until its connection is closed.               *)
RunWS == Dial \/ Wait \/ (closed /\ ReadFails)

Clients ==
  \E c \in Call :
    BeginPoll(c) \/ BeginClear(c) \/ BeginUse(c) \/ BeginRequest(c) \/ Leave(c)

Next ==
  \/ Handler \/ Frame \/ Dial \/ ReadFails \/ Wait \/ CloseOnDone
  \/ Calls \/ Clients \/ Signal \/ Shutdown \/ Disconnect

(* The goroutines run, the timers fire and the backend's answer to a       *)
(* request comes or its time runs out.                                     *)
Fairness ==
  /\ WF_vars(Calls) /\ WF_vars(RunWS)
  /\ WF_vars(CloseOnDone) /\ WF_vars(Shutdown)

Spec == Init /\ [][Next]_vars /\ Fairness

------------------------------------------------------------------------------
InBuffer == IdsAt(DOMAIN q)

HandedIds == {handed[i].id : i \in DOMAIN handed}

(* An event is handed out by one poll only and is then gone from the       *)
(* buffer, and events of one type are handed out in the order they came in,*)
(* whatever polls with other filters and limits take in between.           *)
HandedOnceInOrder ==
  /\ HandedIds \cap (InBuffer \cup cleared) = {}
  /\ \A i, j \in DOMAIN handed :
       i < j /\ handed[i].type = handed[j].type => handed[i].id < handed[j].id

(* An event nobody has taken or cleared is lost only to newer ones, as many*)
(* as the buffer has room for.                                             *)
LostOnlyToNewer ==
  \A id \in 1..arrived :
    id \in InBuffer \cup HandedIds \cup cleared \/ arrived >= id + Cap

(* The requests of a call use a token that was active when it began or was *)
(* selected while it went on: under stdio the last one that was selected.  *)
UsesSelected ==
  /\ \A c \in Call : call[c].used \subseteq call[c].found
  /\ transport = "stdio" => \A c \in Call : Cardinality(call[c].used) <= 1

(* When the context is cancelled the websocket client and the goroutines of*)
(* all its connections end, or the process.                                *)
StopEndsSocket ==
  signalled ~>
    process = "ended" \/ (ws \in {"off", "done"} /\ waiters = {})

(* Every call comes to its end, or the process does.                       *)
CallIsAnswered ==
  \A c \in Call : c \in InProgress ~> c \notin InProgress \/ process = "ended"
=============================================================================
