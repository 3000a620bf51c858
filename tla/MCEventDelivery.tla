-------------------------- MODULE MCEventDelivery --------------------------
(* The settings and the streams of events of the run, one for each of the  *)
(* situations that a property is about.                                    *)
EXTENDS EventDelivery

MCPublisher == (1..MaxPosts) \X {"call", "global"}

E(kind) == [kind |-> kind, chat |-> "phone", sender |-> "phone", alt |-> "",
            own |-> FALSE, content |-> "", ids |-> <<"m1">>]
Chat(chat, e) == [e EXCEPT !.chat = chat]
Own(e) == [e EXCEPT !.own = TRUE]
With(content, e) == [e EXCEPT !.content = content]
About(ids, e) == [e EXCEPT !.ids = ids]

NoInst == [ignoreGroups |-> FALSE, ignoreStatus |-> FALSE, ignoreFromMe |-> FALSE,
  readMessages |-> FALSE, rejectCall |-> FALSE, events |-> {"ALL"},
  rabbit |-> "off", nats |-> "off", ws |-> "off", hook |-> FALSE]
NoConf == [amqpUrl |-> FALSE, amqpGlobal |-> FALSE, specific |-> {}, amqpEvents |-> {},
  natsGlobal |-> FALSE, natsEvents |-> {}, globalUrl |-> FALSE, natsUrl |-> TRUE, listened |-> FALSE, ignoreGroup |-> FALSE,
  ignoreStatus |-> FALSE, saveMessages |-> FALSE, webhookFiles |-> FALSE, minio |-> FALSE]
AnyWebhook == [enabled |-> TRUE, ignoreFromMe |-> FALSE, events |-> {}, chatType |-> "any",
  chatIDs |-> {}, senders |-> {}, chatNames |-> {}, senderNames |-> {}, rabbit |-> FALSE, ws |-> FALSE]

Case(events) == [inst |-> NoInst, conf |-> NoConf, webhooks |-> <<>>, stream |-> events,
  names |-> [k \in Kind |-> <<"old", "new", "newer", "newest">>], faults |-> 0]

(* Every kind of event with every group of the global queues.              *)
AllKinds == Plain \cup {"Connected", "AppState", "StreamReplaced", "Archive", "LoggedOut",
                        "CallOffer", "LabelEdit"}
ByChatCases == {With(c, Chat(chat, E(k))) :
     k \in {"Message", "Receipt"}, chat \in {"phone", "group", "newsletter"}, c \in {"read", "button"}}
Tables ==
  {[Case(<<e>>) EXCEPT
      !.conf = [NoConf EXCEPT !.amqpUrl = TRUE, !.amqpGlobal = TRUE, !.specific = spec,
                  !.amqpEvents = DOMAIN AmqpGroup, !.natsGlobal = TRUE,
                  !.natsEvents = DOMAIN NatsGroup]] :
     e \in {E(k) : k \in AllKinds} \cup ByChatCases,
     spec \in {{}, {"Message", "SendStatus"}}}
  \cup {[Case(<<E(k)>>) EXCEPT
          !.conf = [NoConf EXCEPT !.natsGlobal = TRUE, !.natsEvents = {"MESSAGE"}]] :
        k \in {"Message", "Presence", "SendStatus"}}

(* One or two messages while the broker comes and goes.                    *)
OnBroker(es, on, whs, global, n) ==
  [Case(es) EXCEPT !.inst = [NoInst EXCEPT !.rabbit = on],
      !.conf = [NoConf EXCEPT !.amqpUrl = TRUE, !.amqpGlobal = global,
                  !.amqpEvents = {"MESSAGE"}],
      !.webhooks = whs, !.faults = n]
ToQueue == <<[AnyWebhook EXCEPT !.rabbit = TRUE]>>
Rabbit ==
  {OnBroker(<<E("Message")>>, on, ToQueue, FALSE, 3) : on \in {"enabled", "true"}}
  \cup {OnBroker(<<E("Message")>>, "enabled", <<>>, TRUE, 1),
        OnBroker(<<E("Message"), E("Presence")>>, "enabled", <<>>, FALSE, 1),
        [OnBroker(<<E("Message")>>, "enabled", <<>>, TRUE, 0) EXCEPT !.conf.amqpUrl = FALSE]}

(* Four sinks that may fail or drop what they get, and a receiver that does*)
(* not answer.                                                             *)
SinkCases ==
  {[Case(<<E(k)>>) EXCEPT
      !.inst = [NoInst EXCEPT !.rabbit = "enabled", !.nats = nats, !.ws = on, !.hook = TRUE,
                  !.events = events],
      !.conf = [NoConf EXCEPT !.amqpUrl = TRUE, !.listened = listened],
      !.faults = 1] :
     k \in {"Message", "SendStatus"}, on \in {"enabled", "off"}, nats \in {"true", "enabled"},
     listened \in BOOLEAN, events \in {{"ALL"}, {"MESSAGE", "NO_GROUP"}}}
  \cup {[Case(<<E("Message")>>) EXCEPT
      !.inst = [NoInst EXCEPT !.rabbit = on, !.nats = "enabled", !.ws = "true", !.hook = TRUE],
      !.conf = [NoConf EXCEPT !.amqpUrl = url, !.natsUrl = nats]] :
     on \in {"enabled", "true"}, url \in BOOLEAN, nats \in BOOLEAN}

(* A listener that hangs while two or three posts are written to it, of    *)
(* which one comes from a webhook.                                         *)
Hangs ==
  {[Case(es) EXCEPT !.inst = [NoInst EXCEPT !.ws = "enabled", !.hook = TRUE],
      !.conf = [NoConf EXCEPT !.listened = TRUE], !.webhooks = whs, !.faults = n] :
     es \in {<<E("Message"), E("Presence")>>}, n \in {1, 2},
     whs \in {<<>>, <<[AnyWebhook EXCEPT !.ws = TRUE]>>}}
Flaky == {[Case(<<E("Message")>>) EXCEPT !.inst = [NoInst EXCEPT !.hook = TRUE],
             !.conf = [NoConf EXCEPT !.globalUrl = g], !.faults = 5] : g \in BOOLEAN}

(* Groups and contacts that are renamed, and a connection lost meanwhile,  *)
(* whose account may be without a name when it is back.                    *)
NameCases ==
  {[Case(<<Chat("group", E("Message")), E(k)>>) EXCEPT
      !.webhooks = <<[AnyWebhook EXCEPT !.chatNames = {"new"}, !.senderNames = {"old"}]>>,
      !.faults = 1] : k \in {"GroupInfo", "Contact"}}
  \cup {[Case(<<E("Disconnected"), Chat("group", E("Message")), With(c, E("Connected"))>>)
      EXCEPT !.webhooks = <<[AnyWebhook EXCEPT !.chatNames = {"new"}]>>] :
    c \in {"", "nameless"}}

(* Whose messages they are, and who ignores what.                          *)
Unwanted ==
  {[Case(<<Own(Chat(chat, With(c, E(k))))>>) EXCEPT
      !.inst = [NoInst EXCEPT !.ignoreFromMe = own, !.ignoreGroups = groups, !.hook = TRUE,
                  !.ignoreStatus = groups, !.readMessages = TRUE, !.rejectCall = own],
      !.webhooks = <<[AnyWebhook EXCEPT !.ignoreFromMe = TRUE],
                     [AnyWebhook EXCEPT !.chatType = "group", !.events = {"MESSAGE"}]>>] :
     k \in {"Message", "SendMessage", "Receipt", "UndecryptableMessage", "CallOffer"},
     chat \in {"phone", "group", "broadcast"}, own \in BOOLEAN, groups \in BOOLEAN,
     c \in {"", "view_once", "button", "read", "protocol"}}

(* Receipts that are repeated or late, votes that are changed, and files.  *)
RowCases ==
  {[Case(<<With(a, E("Receipt")), About(ids, With(b, E("Receipt"))), With(a, E("Receipt"))>>)
      EXCEPT !.conf = [NoConf EXCEPT !.saveMessages = save], !.faults = f] :
     a \in {"delivered", "other"}, b \in {"read", "delivered", "readself"},
     ids \in {<<"m1">>, <<"m2", "m1">>}, save \in BOOLEAN, f \in {0, 1}}
  \cup {[Case(<<With("read", E("Receipt")), With("delivered", E("Receipt")),
                With("read", Chat(chat, E("Receipt")))>>)
      EXCEPT !.inst = [NoInst EXCEPT !.ignoreGroups = TRUE],
             !.conf = [NoConf EXCEPT !.saveMessages = TRUE]] : chat \in {"phone", "group"}}
  \cup {[Case(<<With("delivered", E("Receipt")), With("read", Chat("group", E("Receipt")))>>)
      EXCEPT !.inst = [NoInst EXCEPT !.ignoreGroups = TRUE],
             !.conf = [NoConf EXCEPT !.saveMessages = TRUE]]}
Votes ==
  {[Case(<<With("poll", E("Message")), [With("poll", E("Message")) EXCEPT !.sender = "lid",
                                          !.alt = alt]>>) EXCEPT !.faults = 0] :
     alt \in {"phone", ""}}
Files ==
  {[Case(<<With("media", E("Message"))>>) EXCEPT
      !.conf = [NoConf EXCEPT !.webhookFiles = TRUE, !.minio = m]] : m \in BOOLEAN}

MCSettings == Tables \cup Rabbit \cup SinkCases \cup Flaky \cup Hangs \cup NameCases
                \cup Unwanted \cup RowCases \cup Votes \cup Files
=============================================================================
