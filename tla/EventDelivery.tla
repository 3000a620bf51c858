---------------------------- MODULE EventDelivery ----------------------------
(***************************************************************************)
(* The way of an event of one instance: the event handler of its client    *)
(* (myEventHandler) makes of each event a few rows and at most two posts;  *)
(* every post is carried on by two goroutines, CallWebhook (the webhooks   *)
(* of the table with their filters and names, then the settings of the     *)
(* instance itself) and SendToGlobalQueues; both publish through the one   *)
(* RabbitMQ producer, of which this module is a composition with the rest. *)
(*                                                                         *)
(* The settings and the events to come are one of the Settings, which Init *)
(* chooses; its faults bound what fails outside.  The server's side of the *)
(* stream is caused: how many of the events have happened, of which the    *)
(* handler has taken the first handled.  Two calls outside may hang for    *)
(* ever, as the code sets them no limit: the POST to a webhook and the     *)
(* write to a websocket, which holds the hub's lock meanwhile.             *)
(***************************************************************************)
EXTENDS RabbitProducer, EventRouting, SequencesExt

CONSTANTS Settings, MaxPosts

ASSUME PostsAssumption == MaxPosts \in Nat
ASSUME LanesArePublishers == Publisher = (1..MaxPosts) \X {"call", "global"}

(* A stream is of events that are about at least one message; there is a   *)
(* name of the groups and one of the contacts for each of its changes.     *)
ASSUME SettingsAssumption == \A s \in Settings :
  /\ s.faults \in Nat /\ s.conf.specific \subseteq Types
  /\ s.webhooks \in Seq(ToSet(s.webhooks))
  /\ s.stream \in Seq([kind : STRING, chat : STRING, sender : STRING, alt : STRING,
                        own : BOOLEAN, content : STRING, ids : Seq(STRING)])
  /\ \A n \in DOMAIN s.stream : s.stream[n].ids # <<>>
  /\ \A k \in {"groups", "contacts"} :
       s.names[k] \in Seq(STRING) /\ Len(s.names[k]) > Len(s.stream)

VARIABLES
  setting,      \* the one of the Settings that it is
  caused,       \* how many of the events have happened
  handled,      \* how many of them the handler has taken
  posts,        \* what it has made of them, in order
  lane,         \* the goroutines that carry the posts on
  result,       \* what became of each post at each sink of the instance
  http,         \* the goroutines of the webhook producer
  cache,        \* nameCache: the names of groups and of contacts
  seen,         \* processedMessages: receipts that have been handled
  pending,      \* the goroutines that are about to write a row
  row,          \* the rows of messages, votes and labels
  overtaken,    \* history: the rows of which two writes were under way
  read,         \* the messages marked as read
  objects,      \* the files in the media storage
  faults        \* how much more may fail

eventVars == <<setting, caused, handled, posts, lane, result, http, cache,
               seen, pending, row, overtaken, read, objects, faults>>
vars == <<rabbitVars, eventVars>>

Post == 1..MaxPosts
Kind == {"groups", "contacts"}
Sinks == <<"rabbit", "nats", "ws", "hook">>
NotLoaded == [loaded |-> FALSE, name |-> "", raced |-> FALSE]
NoLane == [pc |-> "none", w |-> 0, held |-> "no", groups |-> "", contacts |-> "",
           fetched |-> "", raced |-> FALSE]

inst == setting.inst
conf == setting.conf
stream == setting.stream
webhooks == setting.webhooks

Init ==
  /\ RabbitInit
  /\ setting \in Settings
  /\ configured = conf.amqpUrl
  /\ caused = 0 /\ handled = 0
  /\ posts = <<>>
  /\ lane = [p \in Publisher |-> NoLane]
  /\ result = [n \in Post |-> [s \in Range(Sinks) |-> "no"]]
  /\ http = {}
  /\ cache = [k \in Kind |-> NotLoaded]
  /\ seen = {} /\ pending = {} /\ row = {} /\ overtaken = {}
  /\ read = {} /\ objects = {}
  /\ faults = setting.faults

(* A panic outside the event handler ends the process.                     *)
Crashed == \E p \in Publisher : AtPub(p, {"panic"})

-----------------------------------------------------------------------------
(* Outside: the server, the broker and the network.                        *)

Changes == [groups |-> {"GroupInfo", "JoinedGroup"}, contacts |-> {"Contact", "PushName"}]

(* The name a group or a contact has by now; every change gives the next.  *)
Current(k) ==
  setting.names[k][1 + Cardinality({n \in 1..caused : stream[n].kind \in Changes[k]})]

(* The client is connected from the start, and as the events say after.    *)
Online ==
  LET last == {n \in 1..caused : stream[n].kind \in {"Connected", "Disconnected"}}
  IN last # {} => stream[CHOOSE n \in last : \A m \in last : m <= n].kind = "Connected"

Cause ==
  /\ caused < Len(stream)
  /\ caused' = caused + 1
  /\ UNCHANGED <<rabbitVars, setting, handled, posts, lane, result, http, cache, seen,
                 pending, row, overtaken, read, objects, faults>>

Fault ==
  /\ faults > 0
  /\ faults' = faults - 1

BrokerFault ==
  /\ Fault
  /\ conf.amqpUrl
  /\ BrokerStops \/ \E c \in Conn : LoseConnection(c)
  /\ UNCHANGED <<setting, caused, handled, posts, lane, result, http, cache, seen,
                 pending, row, overtaken, read, objects>>

BrokerReturns ==
  /\ BrokerStarts
  /\ UNCHANGED eventVars

LossIsNoticed ==
  /\ \E c \in Conn : Notices(c)
  /\ UNCHANGED eventVars

-----------------------------------------------------------------------------
(* The event handler.  An event has a kind, the chat and the sender it     *)
(* comes from, whether it is of the instance's own, what it contains, and  *)
(* the ids of the messages it is about.                                    *)

(* The sender is given as a hidden id with the number beside it: they are  *)
(* exchanged, so that everything after goes by the number.                 *)
Swapped(e) ==
  IF e.sender = "lid" /\ e.alt = "phone"
  THEN [e EXCEPT !.sender = "phone", !.chat = IF @ = "lid" THEN "phone" ELSE @]
  ELSE e

IgnoresGroup(e) ==
  (inst.ignoreGroups \/ conf.ignoreGroup) /\ e.chat = "group"

IgnoresStatus(e) ==
  (inst.ignoreStatus \/ conf.ignoreStatus) /\ e.chat = "broadcast"

(* Faulty variant: what the instance has sent is not taken for its own.  *)
PostOf_SentNotOwn(type, e, media) ==
  [type |-> type, event |-> handled + 1, media |-> media, chat |-> e.chat,
   sender |-> e.sender, own |-> type = "Message" /\ e.own]

(* ExtractEventMeta finds the chat and the sender of messages, receipts    *)
(* and chat presences only, and whose it is of messages only; the data of  *)
(* a button's click have none of them.                                     *)
PostOf(type, e, media) ==
  [type |-> type, event |-> handled + 1, media |-> media,
   chat |-> IF type \in {"Message", "SendMessage", "Receipt", "ChatPresence"}
            THEN e.chat ELSE "",
   sender |-> IF type \in {"Message", "SendMessage", "Receipt", "ChatPresence"}
              THEN e.sender ELSE "",
   own |-> type \in {"Message", "SendMessage"} /\ e.own]

(* Faulty variant: the second goroutine is always started.               *)
Emit_Always(new) ==
  /\ posts' = posts \o new
  /\ Len(posts') <= MaxPosts
  /\ lane' = [p \in Publisher |->
       IF p[1] \in Len(posts) + 1..Len(posts')
       THEN [NoLane EXCEPT !.pc = IF p[2] = "call" THEN "dispatch" ELSE "amqp"]
       ELSE lane[p]]

(* go CallWebhook and, with any global queues, go SendToGlobalQueues.      *)
Emit(new) ==
  /\ posts' = posts \o new
  /\ Len(posts') <= MaxPosts
  /\ lane' = [p \in Publisher |->
       IF p[1] \in Len(posts) + 1..Len(posts')
         /\ (p[2] = "call" \/ conf.amqpGlobal \/ conf.natsGlobal)
       THEN [NoLane EXCEPT !.pc = IF p[2] = "call" THEN "dispatch" ELSE "amqp"]
       ELSE lane[p]]

Silent == UNCHANGED <<posts, lane>>

(* One goroutine for each row; two for the same row are not in order.      *)
WriteRows(new) ==
  /\ pending' = pending \cup new
  /\ overtaken' = overtaken \cup {w.key : w \in {v \in new : \E u \in pending : u.key = v.key}}

Event == stream[handled + 1]

Handles(kinds) ==
  /\ ~Crashed
  /\ handled < caused
  /\ Event.kind \in kinds
  /\ handled' = handled + 1
  /\ UNCHANGED <<rabbitVars, setting, caused, result, http, cache, faults>>

HandlesOnly == UNCHANGED <<seen, pending, row, overtaken, read, objects>>

(* The events that only become a post of the same name here: what they do  *)
(* to the instance is InstanceLifecycle's.  The last five come from        *)
(* StartClient and from the send service, which post in the same way.      *)
Plain == {"Presence", "HistorySync", "ChatPresence", "CallAccept", "CallTerminate",
  "CallOfferNotice", "CallRelayLatency", "OfflineSyncCompleted", "ConnectFailure",
  "Disconnected", "LabelAssociationChat", "LabelAssociationMessage", "Contact",
  "PushName", "GroupInfo", "JoinedGroup", "NewsletterJoin", "NewsletterLeave",
  "PairSuccess", "TemporaryBan", "QRCode", "QRTimeout", "QRSuccess", "SendMessage",
  "SendStatus"}

OnPlain ==
  /\ Handles(Plain)
  /\ Emit(<<PostOf(Event.kind, Event, "none")>>)
  /\ HandlesOnly

(* A connection is posted once the account has a name.                     *)
OnConnected ==
  /\ Handles({"Connected"})
  /\ IF Event.content = "nameless" THEN Silent
     ELSE Emit(<<PostOf("Connected", Event, "none")>>)
  /\ HandlesOnly

(* The events that are not posted at all.                                  *)
OnUnposted ==
  /\ Handles({"AppState", "AppStateSyncComplete", "StreamReplaced", "IdentityChange"})
  /\ Silent
  /\ HandlesOnly

(* The data of the event are taken for a map and are not one: the handler  *)
(* panics, and the client drops the event.                                 *)
OnArchive ==
  /\ Handles({"Archive"})
  /\ Silent
  /\ HandlesOnly

(* A logout sends its own post, and the end of the handler sends it again. *)
OnLoggedOut ==
  /\ Handles({"LoggedOut"})
  /\ Emit(<<PostOf("LoggedOut", Event, "none"), PostOf("LoggedOut", Event, "none")>>)
  /\ HandlesOnly

(* A rejected call is not reported.                                        *)
OnCallOffer ==
  /\ Handles({"CallOffer"})
  /\ IF inst.rejectCall THEN Silent ELSE Emit(<<PostOf("CallOffer", Event, "none")>>)
  /\ HandlesOnly

(* A message that could be seen once is posted as it is, without the tests *)
(* of other messages; one of a certain id has the client reconnected.      *)
OnUndecryptable ==
  /\ Handles({"UndecryptableMessage"})
  /\ IF Event.content = "view_once" THEN Emit(<<PostOf("Message", Event, "none")>>) ELSE Silent
  /\ HandlesOnly

OnLabelEdit ==
  /\ Handles({"LabelEdit"})
  /\ Emit(<<PostOf("LabelEdit", Event, "none")>>)
  /\ row' = {r \in row : r.key # <<"label", Event.ids[1]>>}
              \cup {[key |-> <<"label", Event.ids[1]>>, value |-> "", at |-> handled + 1]}
  /\ UNCHANGED <<seen, pending, overtaken, read, objects>>

(* A file that cannot be fetched or stored is left out of the post.        *)
MediaOutcomes(e) ==
  CASE ~conf.webhookFiles \/ e.content # "media" -> {"none"}
    [] conf.webhookFiles /\ e.content = "media" /\ conf.minio ->
         {"skipped", "unstored", "unsigned", "url"}
    [] OTHER -> {"skipped", "base64"}

(* Store puts the object and then signs a url for it.                      *)
Stored(e, media) ==
  objects' = objects \cup (IF media \in {"unsigned", "url"} THEN {e.ids[1]} ELSE {})

(* The click of a button is posted apart, and before the message itself.   *)
Click(e) == IF e.content = "button" THEN <<PostOf("ButtonClick", e, "none")>> ELSE <<>>

(* A vote that can be decrypted is saved under the sender it came from.    *)
Vote(e) ==
  {[key |-> <<"vote", e.ids[1], e.sender>>, value |-> "", at |-> handled + 1]}

(* A message is marked as read before it is found to be ignored, and once  *)
(* more, a second later, when it is not.                                   *)
OnMessage == LET e == Swapped(Event) IN
  /\ Handles({"Message"})
  /\ read' = IF inst.readMessages THEN read \cup {e.ids[1]} ELSE read
  /\ UNCHANGED <<seen, row>>
  /\ IF IgnoresStatus(e) \/ IgnoresGroup(e) \/ e.content = "protocol"
     THEN Silent /\ UNCHANGED <<pending, overtaken, objects>>
     ELSE \E media \in MediaOutcomes(e) :
            /\ Stored(e, media)
            /\ Emit(Click(e) \o <<PostOf("Message", e, media)>>)
            /\ \/ UNCHANGED <<pending, overtaken>>
               \/ e.content = "poll" /\ WriteRows(Vote(e))

(* Faulty variant: the record of what has been handled is never read.   *)
Fresh_All(ids, status) == ids

(* processedMessages: what is not there yet.                               *)
Fresh(ids, status) == {m \in ids : <<m, status>> \notin seen}

(* A receipt counts once for each message and status, and a delivery for   *)
(* the first of its messages alone; a repeated delivery is not posted.     *)
OnReceipt ==
  /\ Handles({"Receipt"})
  /\ UNCHANGED <<row, read, objects>>
  /\ LET status == IF Event.content = "read" THEN "Read" ELSE "Delivered"
         ids == IF Event.content = "read" THEN ToSet(Event.ids) ELSE {Event.ids[1]}
         new == Fresh(ids, status)
         repeated == Event.content = "delivered" /\ new = {}
     IN IF IgnoresGroup(Event) \/ repeated
           \/ Event.content \notin {"read", "readself", "delivered"}
        THEN Silent /\ UNCHANGED <<seen, pending, overtaken>>
        ELSE /\ Emit(<<PostOf("Receipt", Event, "none")>>)
             /\ IF Event.content = "readself"
                THEN UNCHANGED <<seen, pending, overtaken>>
                ELSE /\ seen' = seen \cup (new \X {status})
                     /\ IF conf.saveMessages
                        THEN WriteRows({[key |-> <<"message", m>>, value |-> status,
                                         at |-> handled + 1] : m \in new})
                        ELSE UNCHANGED <<pending, overtaken>>

Handler ==
  \/ OnPlain \/ OnConnected \/ OnUnposted \/ OnArchive \/ OnLoggedOut \/ OnCallOffer
  \/ OnUndecryptable \/ OnLabelEdit \/ OnMessage \/ OnReceipt

(* InsertMessage and SavePollVote: the last write wins.                    *)
WriteRow == \E w \in pending :
  /\ ~Crashed
  /\ pending' = pending \ {w}
  /\ row' = {r \in row : r.key # w.key} \cup {w}
  /\ UNCHANGED <<rabbitVars, setting, caused, handled, posts, lane, result, http, cache,
                 seen, overtaken, read, objects, faults>>

(* An entry of processedMessages expires after thirty minutes.             *)
Expire == \E s \in seen :
  /\ Fault
  /\ seen' = seen \ {s}
  /\ overtaken' = overtaken \cup {<<"message", s[1]>>}
  /\ UNCHANGED <<rabbitVars, setting, caused, handled, posts, lane, result, http, cache,
                 pending, row, read, objects>>

-----------------------------------------------------------------------------
(* CallWebhook and SendToGlobalQueues.                                     *)

At(p, pcs) == lane[p].pc \in pcs /\ lane[p].held = "no" /\ ~Crashed

PostIn(p) == posts[p[1]]

Becomes(p, r) == lane' = [lane EXCEPT ![p] = r]
Goto(p, pc) == Becomes(p, [lane[p] EXCEPT !.pc = pc])

LaneOnly == UNCHANGED <<setting, caused, handled, posts, seen, pending, row,
                        overtaken, read, objects>>

CallLane == Post \X {"call"}

(* The names are looked up when any webhook's filter asks for one.         *)
Dispatch(p) ==
  /\ At(p, {"dispatch"})
  /\ LET whs == ToSet(webhooks) IN
     CASE whs = {} -> Goto(p, "invalidate")
       [] \E w \in whs : webhookNeedsNames(w) -> Goto(p, "groups")
       [] OTHER -> Becomes(p, [lane[p] EXCEPT !.pc = "match", !.w = 1])
  /\ LaneOnly /\ UNCHANGED <<rabbitVars, result, http, cache, faults>>

Fetching == [groups |-> "fetchGroups", contacts |-> "fetchContacts"]
Storing == [groups |-> "storeGroups", contacts |-> "storeContacts"]

(* The name is known: on to the contacts, or to the webhooks.              *)
Named(p, k, name) ==
  Becomes(p, IF k = "groups" THEN [lane[p] EXCEPT !.pc = "contacts", !.groups = name]
             ELSE [lane[p] EXCEPT !.pc = "match", !.w = 1, !.contacts = name])

(* groupName for a chat that is a group, contactName for any sender: the   *)
(* read lock is given up before the names are resolved.                    *)
LookUp(p, k) ==
  /\ At(p, {k})
  /\ CASE (IF k = "groups" THEN PostIn(p).chat # "group" ELSE PostIn(p).sender = "") ->
            Named(p, k, "")
       [] cache[k].loaded -> Named(p, k, cache[k].name)
       [] OTHER -> Goto(p, Fetching[k])
  /\ LaneOnly /\ UNCHANGED <<rabbitVars, result, http, cache, faults>>

(* A client that is not connected gives no names of groups, and no error.  *)
Resolve(p, k) ==
  /\ At(p, {Fetching[k]})
  /\ Becomes(p, [lane[p] EXCEPT !.pc = Storing[k], !.raced = FALSE,
        !.fetched = IF k = "groups" /\ ~Online THEN "" ELSE Current(k)])
  /\ LaneOnly /\ UNCHANGED <<rabbitVars, result, http, cache, faults>>

ResolveFails(p, k) ==
  /\ At(p, {Fetching[k]})
  /\ Fault
  /\ Named(p, k, "")
  /\ LaneOnly /\ UNCHANGED <<rabbitVars, result, http, cache>>

Store(p, k) ==
  /\ At(p, {Storing[k]})
  /\ cache' = [cache EXCEPT ![k] = [loaded |-> TRUE, name |-> lane[p].fetched,
                                    raced |-> lane[p].raced]]
  /\ Named(p, k, lane[p].fetched)
  /\ LaneOnly /\ UNCHANGED <<rabbitVars, result, http, faults>>

(* The webhook producer posts to its own url and to the one it is given,   *)
(* each from a goroutine, if the name of the queue has a dot.              *)
Spawn(p, via) ==
  http' = http \cup
    {[post |-> p[1], via |-> via, to |-> to, tries |-> 0, got |-> 0, pc |-> "post"] :
        to \in {"url"} \cup (IF conf.globalUrl THEN {"global"} ELSE {})}

(* A webhook that matches gets a POST.  Its url is passed to RabbitMQ as   *)
(* the enable, which is not honoured, to NATS likewise, and as the id of   *)
(* the instance to the websocket, so that only its broadcast is served.    *)
NextWebhook(p) == Becomes(p, [lane[p] EXCEPT !.pc = "match", !.held = "no", !.w = @ + 1])

Broadcast(p) ==
  IF webhooks[lane[p].w].ws THEN Goto(p, "cast") ELSE NextWebhook(p)

Match(p) ==
  /\ At(p, {"match"})
  /\ LET i == lane[p].w IN
     IF i > Len(webhooks)
     THEN Goto(p, "invalidate") /\ UNCHANGED <<rabbitVars, http>>
     ELSE LET w == webhooks[i] IN
          IF ~MatchesFilter(w, PostIn(p), lane[p].groups, lane[p].contacts)
          THEN NextWebhook(p) /\ UNCHANGED <<rabbitVars, http>>
          ELSE /\ Spawn(p, i)
               /\ IF w.rabbit /\ conf.amqpUrl
                  THEN Goto(p, "wait") /\ Produce(p, "url")
                  ELSE Broadcast(p) /\ UNCHANGED rabbitVars
  /\ LaneOnly /\ UNCHANGED <<result, cache, faults>>

Matched(p) ==
  /\ At(p, {"wait"})
  /\ Returns(p)
  /\ Broadcast(p)
  /\ LaneOnly /\ UNCHANGED <<result, http, cache, faults>>

(* Faulty variant: changes of contacts are forgotten.                    *)
Invalidating_NoContact == {"GroupInfo", "JoinedGroup", "Connected"}

Invalidating == {"Contact", "PushName", "GroupInfo", "JoinedGroup", "Connected"}

(* The instance's own settings let the post through.                       *)
Wanted(post) ==
  /\ ~(post.own /\ inst.ignoreFromMe)
  /\ Subscribed(inst.events, post)

(* maybeInvalidateNames, after the dispatch; then the settings of the      *)
(* instance decide whether its own sinks are served.                       *)
Invalidate(p) ==
  /\ At(p, {"invalidate"})
  /\ LET to == IF Wanted(PostIn(p)) THEN "rabbit" ELSE "done"
     IN IF PostIn(p).type \in Invalidating
        THEN /\ cache' = [k \in Kind |-> NotLoaded]
             /\ lane' = [q \in Publisher |-> IF q = p THEN [lane[p] EXCEPT !.pc = to]
                                              ELSE [lane[q] EXCEPT !.raced = TRUE]]
        ELSE Goto(p, to) /\ UNCHANGED cache
  /\ LaneOnly /\ UNCHANGED <<rabbitVars, result, http, faults>>

On(s) == s \in {"enabled", "true"}

Outcome(p, s, o) == result' = [result EXCEPT ![p[1]][s] = o]

(* Faulty variant: a failing sink is passed over.                        *)
AfterFailure_GoesOn(s) == "hook"

(* What follows a sink that fails.                                         *)
AfterFailure(s) == "done"

(* sendToQueueOrWebhook: the first sink that fails is the last.            *)
ToRabbit(p) ==
  /\ At(p, {"rabbit"})
  /\ IF On(inst.rabbit)
     THEN Goto(p, "rabbitWait") /\ Produce(p, inst.rabbit)
     ELSE Goto(p, "nats") /\ UNCHANGED rabbitVars
  /\ LaneOnly /\ UNCHANGED <<result, http, cache, faults>>

RabbitAnswers(p) ==
  /\ At(p, {"rabbitWait"})
  /\ Returns(p)
  /\ IF pub[p].pc = "ok"
     THEN /\ Outcome(p, "rabbit", IF pub[p].written = "broker" THEN "sent" ELSE "dropped")
          /\ Goto(p, "nats")
     ELSE Outcome(p, "rabbit", "failed") /\ Goto(p, AfterFailure("rabbit"))
  /\ LaneOnly /\ UNCHANGED <<http, cache, faults>>

(* A sink that publishes may fail; one that does not answers nil too.      *)
Sink(p, s, publishes, next) ==
  /\ \/ /\ Outcome(p, s, IF publishes THEN "sent" ELSE "dropped")
        /\ Becomes(p, [lane[p] EXCEPT !.pc = next, !.held = "no"])
        /\ UNCHANGED faults
     \/ /\ publishes
        /\ Fault
        /\ Outcome(p, s, "failed")
        /\ Becomes(p, [lane[p] EXCEPT !.pc = AfterFailure(s), !.held = "no"])
  /\ LaneOnly /\ UNCHANGED <<rabbitVars, http, cache>>

PassedOver(p, s, next) ==
  /\ At(p, {s})
  /\ Goto(p, next)
  /\ LaneOnly /\ UNCHANGED <<rabbitVars, result, http, cache, faults>>

(* Without a connection to NATS, or for a setting that is not honoured,    *)
(* nothing is published.                                                   *)
ToNatsServer(p) ==
  IF ~On(inst.nats) THEN PassedOver(p, "nats", "ws")
  ELSE At(p, {"nats"}) /\ Sink(p, "nats", inst.nats \in Honoured /\ conf.natsUrl, "ws")

(* The write to whoever listens, under the read lock of the hub, for a     *)
(* webhook and for the instance: its own client's error is the answer.     *)
CastEnds(p) ==
  /\ lane[p].pc = "cast"
  /\ NextWebhook(p)
  /\ LaneOnly /\ UNCHANGED <<rabbitVars, result, http, cache, faults>>

WriteEnds(p) ==
  /\ lane[p].pc = "ws" /\ On(inst.ws)
  /\ Sink(p, "ws", conf.listened, "hook")

ToWebsocket(p) ==
  \/ ~On(inst.ws) /\ PassedOver(p, "ws", "hook")
  \/ At(p, {"ws", "cast"}) /\ (CastEnds(p) \/ WriteEnds(p))

Writes(p) == At(p, {"cast"}) \/ (At(p, {"ws"}) /\ On(inst.ws))

(* A listener takes nothing more: the write hangs, with no deadline.       *)
WriteHangs(p) ==
  /\ Writes(p) /\ conf.listened
  /\ Fault
  /\ Becomes(p, [lane[p] EXCEPT !.held = "write"])
  /\ LaneOnly /\ UNCHANGED <<rabbitVars, result, http, cache>>

WriteResumes(p) ==
  /\ lane[p].held = "write" /\ ~Crashed
  /\ CastEnds(p) \/ WriteEnds(p)

WriteHolds == \E q \in Publisher : lane[q].held = "write"

(* A client that comes or goes asks for the lock: nobody gets the read lock*)
(* after it until the write that hangs has ended.                          *)
WaitsForLock(p) ==
  /\ Writes(p) /\ WriteHolds
  /\ Becomes(p, [lane[p] EXCEPT !.held = "lock"])
  /\ LaneOnly /\ UNCHANGED <<rabbitVars, result, http, cache, faults>>

GetsLock(p) ==
  /\ lane[p].held = "lock" /\ ~Crashed /\ ~WriteHolds
  /\ Becomes(p, [lane[p] EXCEPT !.held = "no"])
  /\ LaneOnly /\ UNCHANGED <<rabbitVars, result, http, cache, faults>>

ToHook(p) ==
  /\ At(p, {"hook"})
  /\ IF ~inst.hook THEN UNCHANGED <<result, http>>
     ELSE IF PostIn(p).type = "SendStatus"
     THEN Outcome(p, "hook", "dropped") /\ UNCHANGED http
     ELSE Outcome(p, "hook", "sent") /\ Spawn(p, 0)
  /\ Goto(p, "done")
  /\ LaneOnly /\ UNCHANGED <<rabbitVars, cache, faults>>

CallWebhook(p) ==
  \/ Dispatch(p) \/ Match(p) \/ Matched(p) \/ Invalidate(p)
  \/ \E k \in Kind : LookUp(p, k) \/ Resolve(p, k) \/ ResolveFails(p, k) \/ Store(p, k)
  \/ ToRabbit(p) \/ RabbitAnswers(p) \/ ToNatsServer(p) \/ ToWebsocket(p) \/ ToHook(p)
  \/ WaitsForLock(p) \/ GetsLock(p)

GlobalAmqp(p) ==
  /\ At(p, {"amqp"})
  /\ IF ToAmqp(conf, PostIn(p).type)
     THEN Goto(p, "amqpWait") /\ Produce(p, "global")
     ELSE /\ Goto(p, IF Unmapped(conf, PostIn(p).type) THEN "done" ELSE "natsGlobal")
          /\ UNCHANGED rabbitVars
  /\ LaneOnly /\ UNCHANGED <<result, http, cache, faults>>

(* Faulty variant: an error of the producer is not gone on from.         *)
GlobalAnswers_OfSuccess(p) ==
  /\ At(p, {"amqpWait"})
  /\ pub[p].pc = "ok"
  /\ Returns(p)
  /\ Goto(p, "natsGlobal")
  /\ LaneOnly /\ UNCHANGED <<result, http, cache, faults>>

GlobalAnswers(p) ==
  /\ At(p, {"amqpWait"})
  /\ Returns(p)
  /\ Goto(p, "natsGlobal")
  /\ LaneOnly /\ UNCHANGED <<result, http, cache, faults>>

(* The subject gets the event, or the failure is only logged.              *)
GlobalNats(p) ==
  /\ At(p, {"natsGlobal"})
  /\ Goto(p, IF ToNats(conf, PostIn(p).type) THEN "subject" ELSE "done")
  /\ LaneOnly /\ UNCHANGED <<rabbitVars, result, http, cache, faults>>

SendToGlobalQueues(p) == GlobalAmqp(p) \/ GlobalAnswers(p) \/ GlobalNats(p)

(* The producer works for the goroutine that has called it.                *)
RabbitWorks(p) ==
  /\ ~Crashed
  /\ Publishing(p)
  /\ UNCHANGED eventVars

-----------------------------------------------------------------------------
(* sendWebhookWithRetry: up to five times, half a minute apart.            *)
maxTries == 5

HttpBecomes(h, r) ==
  /\ http' = (http \ {h}) \cup {r}
  /\ UNCHANGED <<rabbitVars, setting, caused, handled, posts, lane, result, cache, seen,
                 pending, row, overtaken, read, objects>>

Delivered(h) ==
  /\ h.pc = "post" /\ ~Crashed
  /\ HttpBecomes(h, [h EXCEPT !.tries = @ + 1, !.got = @ + 1, !.pc = "ok"])
  /\ UNCHANGED faults

(* The receiver may have got what is taken for a failure.                  *)
NotDelivered(h) ==
  /\ h.pc = "post" /\ ~Crashed
  /\ Fault
  /\ \E lost \in {0, 1} :
       HttpBecomes(h, [h EXCEPT !.tries = @ + 1, !.got = @ + lost,
                         !.pc = IF h.tries + 1 < maxTries THEN "post" ELSE "failed"])

(* The client that posts has no time limit: the receiver may take the      *)
(* request and never answer it.                                            *)
PostHangs(h) ==
  /\ h.pc = "post" /\ ~Crashed
  /\ Fault
  /\ HttpBecomes(h, [h EXCEPT !.pc = "hangs"])

PostResumes(h) ==
  /\ h.pc = "hangs" /\ ~Crashed
  /\ HttpBecomes(h, [h EXCEPT !.pc = "post"])
  /\ UNCHANGED faults

Http == \E h \in http : Delivered(h) \/ NotDelivered(h)

(* What hangs outside, and may go on for ever.                             *)
Hanging ==
  \/ \E h \in http : PostHangs(h) \/ PostResumes(h)
  \/ \E n \in DOMAIN posts : WriteHangs(<<n, "call">>) \/ WriteResumes(<<n, "call">>)

(* The goroutines that carry the posts on.                                 *)
Lanes == \E n \in DOMAIN posts :
  \/ CallWebhook(<<n, "call">>) \/ SendToGlobalQueues(<<n, "global">>)
  \/ RabbitWorks(<<n, "call">>) \/ RabbitWorks(<<n, "global">>)

(* What the program does of itself, and the calls it makes that end.       *)
Program == Handler \/ WriteRow \/ Http \/ Lanes \/ LossIsNoticed

Next ==
  \/ Cause \/ BrokerFault \/ BrokerReturns \/ Expire \/ Hanging
  \/ Handler \/ WriteRow \/ Http \/ Lanes \/ LossIsNoticed

Spec == Init /\ [][Next]_vars

(* As long as some goroutine can go on, one does.  A call to RabbitMQ ends *)
(* with the heartbeat at the latest (rabbitmq_producer.go:98); that the    *)
(* database, the media storage, NATS and WhatsApp answer is assumed.  No   *)
(* fairness is given to what hangs.                                        *)
FairSpec == Spec /\ WF_vars(Program)

-----------------------------------------------------------------------------
(* The shape of the state.                                                 *)
TypeOK ==
  /\ RabbitTypeOK
  /\ handled \in 0..caused /\ caused \in 0..Len(stream)
  /\ Len(posts) <= MaxPosts
  /\ \A n \in DOMAIN posts : posts[n].type \in Types /\ posts[n].event \in 1..handled
  /\ \A p \in Publisher : (lane[p].pc = "none") = (p[1] > Len(posts) \/
       (p[2] = "global" /\ ~conf.amqpGlobal /\ ~conf.natsGlobal))
  /\ \A h \in http : h.tries \in 0..maxTries /\ h.got \in 0..h.tries
  /\ \A w \in row \cup pending : w.at \in 1..handled

(* What the instance has asked for reaches it: a sink that is on is given  *)
(* every post that is subscribed to, unless an earlier sink has failed     *)
(* (whatsmeow.go:2190), and nothing else.  What it is given is published,  *)
(* and drops without an error only for a setting that RabbitMQ and NATS do *)
(* not honour though sendToQueueOrWebhook does ("true",                    *)
(* rabbitmq_producer.go:203, nats_producer.go:56), where nobody listens    *)
(* (websocket_producer.go:114) or no connection was made (nats_producer.go:*)
(* 51), for a status that was sent, whose queue has no dot in its name     *)
(* (webhook_producer.go:39), and by RabbitMQ once something has failed.    *)
SinkIsOn(s) ==
  CASE s = "rabbit" -> On(inst.rabbit) [] s = "nats" -> On(inst.nats)
    [] s = "ws" -> On(inst.ws)         [] s = "hook" -> inst.hook

Publishes(s, post) ==
  CASE s = "rabbit" -> inst.rabbit \in Honoured
    [] s = "nats"   -> inst.nats \in Honoured /\ conf.natsUrl
    [] s = "ws"     -> conf.listened
    [] s = "hook"   -> post.type # "SendStatus"

NothingFailed == faults = setting.faults

SinksAreServed ==
  \A p \in CallLane : lane[p].pc = "done" =>
    \A i \in DOMAIN Sinks :
      LET n == p[1]
          s == Sinks[i]
          failedBefore == \E j \in 1..i - 1 : result[n][Sinks[j]] = "failed"
          wanted == Subscribed(inst.events, posts[n]) /\ ~(posts[n].own /\ inst.ignoreFromMe)
      IN /\ (result[n][s] # "no") = (wanted /\ SinkIsOn(s) /\ ~failedBefore)
         /\ result[n][s] = "sent" => Publishes(s, posts[n])
         /\ result[n][s] = "dropped" =>
              ~Publishes(s, posts[n]) \/ (s = "rabbit" /\ ~NothingFailed)
         /\ result[n][s] = "failed" => ~NothingFailed \/ (s = "rabbit" /\ ~conf.amqpUrl)

(* A consumer that answers an event by a message is not told of its own    *)
(* message where it has asked for that (whatsmeow.go:2000), nor of the     *)
(* groups and statuses it ignores (whatsmeow.go:1054): no queue, socket or *)
(* webhook of the instance gets them.  Only messages say whose they are    *)
(* (a receipt or the click of a button does not), and a message to be seen *)
(* once is never ignored.                                                  *)
NothingUnwanted ==
  \A n \in DOMAIN posts : LET e == stream[posts[n].event] IN
    /\ e.own /\ posts[n].type \in {"Message", "SendMessage"} =>
         /\ inst.ignoreFromMe =>
              /\ \A s \in Range(Sinks) : result[n][s] = "no"
              /\ \A h \in http : h.post = n => h.via # 0
         /\ \A h \in http : h.post = n /\ h.via # 0 =>
              ~webhooks[h.via].ignoreFromMe
    /\ e.kind \in {"Message", "Receipt"} /\ (inst.ignoreGroups \/ conf.ignoreGroup) =>
         e.chat # "group"
    /\ e.kind = "Message" /\ (inst.ignoreStatus \/ conf.ignoreStatus) => e.chat # "broadcast"

(* The four tables of types agree: where NATS gets a type of event from    *)
(* the global queues, RabbitMQ does if it has any (whatsmeow.go:2398,      *)
(* 2457), the queue was made at the start (rabbitmq_producer.go:276), and  *)
(* so does who subscribes to the group (whatsmeow.go:2040).                *)
TablesAgree ==
  \A n \in DOMAIN posts : LET t == posts[n].type IN
    /\ lane[<<n, "global">>].pc = "amqpWait" => ToLower[t] \in CreatedQueues(conf)
    /\ (lane[<<n, "global">>].pc = "subject" /\ conf.amqpGlobal /\ conf.specific = {}
          /\ conf.natsEvents \subseteq conf.amqpEvents) => ToAmqp(conf, t)
    /\ \A g \in GroupsOf(AmqpGroup, t) : Subscribed({g}, posts[n])

(* The names in the cache are those of now, unless the event that tells of *)
(* the change is still on its way (whatsmeow.go:1992), the client has been *)
(* disconnected and no connection has been posted since (a connection of   *)
(* an account that has no name is not, whatsmeow.go:868), or an            *)
(* invalidation came between the resolving of the names and their storing  *)
(* (webhook_service.go:570).                                               *)
TellsOfConnection(e) == e.kind = "Connected" /\ e.content # "nameless"

Tells(k, e) == e.kind \in Changes[k] \/ TellsOfConnection(e)

NotInvalidated ==
  {"dispatch", "match", "wait", "cast", "invalidate"} \cup Kind \cup Range(Fetching) \cup Range(Storing)

OnItsWay(k) ==
  \/ \E n \in handled + 1..caused : Tells(k, stream[n])
  \/ \E p \in CallLane : lane[p].pc \in NotInvalidated /\ Tells(k, stream[posts[p[1]].event])

ConnectionIsTold ==
  \A n \in 1..caused : stream[n].kind = "Disconnected" =>
    \E m \in n + 1..caused : TellsOfConnection(stream[m])

NamesStaleOnlyByRace ==
  \A k \in Kind : cache[k].loaded /\ cache[k].name # Current(k) =>
    cache[k].raced \/ OnItsWay(k) \/ ~ConnectionIsTold

(* A message that has been read is not taken for one that has only been    *)
(* delivered (whatsmeow.go:1637, 1662), unless two writes of its row were  *)
(* under way at once, the record of a receipt has expired, or a receipt of *)
(* its reading came before every one of its delivery.                      *)
Reads(n, m) ==
  /\ stream[n].kind = "Receipt" /\ stream[n].content = "read"
  /\ ~IgnoresGroup(stream[n]) /\ m \in ToSet(stream[n].ids)

Delivers(n, m) ==
  /\ stream[n].kind = "Receipt" /\ stream[n].content = "delivered"
  /\ ~IgnoresGroup(stream[n]) /\ m = stream[n].ids[1]

OlderRowOnlyByRace ==
  \A r \in row : LET m == r.key[2] IN
    (/\ r.key[1] = "message" /\ r.value = "Delivered" /\ r.key \notin overtaken
     /\ \A w \in pending : w.key # r.key
     /\ \E n \in 1..handled : Reads(n, m))
    => \E n \in 1..handled : Reads(n, m) /\ \A d \in 1..n : ~Delivers(d, m)

(* Every event that happens is handled and carried to its end, or the      *)
(* process has ended by a panic.  A receiver that never answers holds up   *)
(* its own POST alone (webhook_producer.go:75); a listener that takes      *)
(* nothing more holds up the post that is written to it, and those that    *)
(* wait for the lock of the hub behind it (websocket_producer.go:111), and *)
(* no event else.                                                          *)
HeldOutside(p) ==
  lane[p].held = "write" \/ (lane[p].held = "lock" /\ WriteHolds)

EventIsSettled ==
  <>[](Crashed \/
       /\ handled = caused /\ pending = {}
       /\ \A p \in Publisher : lane[p].pc \in {"none", "done", "subject"} \/ HeldOutside(p)
       /\ \A h \in http : h.pc # "post")
=============================================================================
