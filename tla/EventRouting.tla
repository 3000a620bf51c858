---------------------------- MODULE EventRouting ----------------------------
(***************************************************************************)
(* Who gets an event: the tables by which an event's type is found in the  *)
(* subscriptions of an instance (CallWebhook), in the groups of the global *)
(* queues (SendToGlobalQueues, which has the table twice), among the       *)
(* queues that are created at the start (CreateGlobalQueues), and in the   *)
(* filter of a webhook (MatchesFilter).  A type is its name in the code;   *)
(* the queue of a type is the name in lower case.                          *)
(***************************************************************************)
EXTENDS Sequences, FiniteSets

Only(f, x) == IF x \in DOMAIN f THEN f[x] ELSE {}

(* event_types.go: what a subscription may name.                           *)
AllEventTypes == {"MESSAGE", "SEND_MESSAGE", "READ_RECEIPT", "PRESENCE",
  "HISTORY_SYNC", "CHAT_PRESENCE", "CALL", "CONNECTION", "LABEL", "CONTACT",
  "GROUP", "NEWSLETTER", "QRCODE", "BUTTON_CLICK"}

IsEventType(group) == group \in AllEventTypes \cup {"ALL"}

(* The switch of CallWebhook, without the three types it treats apart.     *)
Subscription ==
  [PRESENCE      |-> {"Presence"},
   HISTORY_SYNC  |-> {"HistorySync"},
   CHAT_PRESENCE |-> {"ChatPresence", "Archive"},
   CALL          |-> {"CallOffer", "CallAccept", "CallTerminate",
                      "CallOfferNotice", "CallRelayLatency"},
   CONNECTION    |-> {"Connected", "PairSuccess", "TemporaryBan", "LoggedOut",
                      "ConnectFailure", "Disconnected"},
   LABEL         |-> {"LabelEdit", "LabelAssociationChat",
                      "LabelAssociationMessage"},
   CONTACT       |-> {"Contact", "PushName"},
   GROUP         |-> {"GroupInfo", "JoinedGroup"},
   NEWSLETTER    |-> {"NewsletterJoin", "NewsletterLeave"},
   QRCODE        |-> {"QRCode", "QRTimeout", "QRSuccess"},
   BUTTON_CLICK  |-> {"ButtonClick"},
   MESSAGE       |-> {"Message", "ButtonClick"},
   SEND_MESSAGE  |-> {"SendMessage"},
   READ_RECEIPT  |-> {"Receipt"}]

(* Messages and receipts of a group or a newsletter also reach those who   *)
(* have subscribed to groups or newsletters.                               *)
ByChat(post) ==
  IF post.type \notin {"Message", "SendMessage", "Receipt"} THEN {}
  ELSE CASE post.chat = "group" -> {"GROUP"}
         [] post.chat = "newsletter" -> {"NEWSLETTER"}
         [] OTHER -> {}

Subscribed(events, post) ==
  LET subscriptions == {g \in events : IsEventType(g)} IN
  \/ "ALL" \in subscriptions
  \/ \E g \in subscriptions : post.type \in Only(Subscription, g)
  \/ subscriptions \cap ByChat(post) # {}

(* The table of SendToGlobalQueues for AMQP_GLOBAL_EVENTS.                 *)
AmqpGroup ==
  [MESSAGE       |-> {"Message"},
   SEND_MESSAGE  |-> {"SendMessage"},
   READ_RECEIPT  |-> {"Receipt"},
   PRESENCE      |-> {"Presence"},
   HISTORY_SYNC  |-> {"HistorySync"},
   CHAT_PRESENCE |-> {"ChatPresence", "Archive"},
   CALL          |-> {"CallOffer", "CallAccept", "CallTerminate",
                      "CallOfferNotice", "CallRelayLatency"},
   CONNECTION    |-> {"Connected", "PairSuccess", "TemporaryBan", "LoggedOut",
                      "ConnectFailure", "Disconnected"},
   LABEL         |-> {"LabelEdit", "LabelAssociationChat",
                      "LabelAssociationMessage"},
   CONTACT       |-> {"Contact", "PushName"},
   GROUP         |-> {"GroupInfo", "JoinedGroup"},
   NEWSLETTER    |-> {"NewsletterJoin", "NewsletterLeave"},
   QRCODE        |-> {"QRCode", "QRTimeout", "QRSuccess"}]

(* The same table, written out a second time for NATS_GLOBAL_EVENTS.       *)
NatsGroup ==
  [MESSAGE       |-> {"Message"},
   SEND_MESSAGE  |-> {"SendMessage"},
   READ_RECEIPT  |-> {"Receipt"},
   PRESENCE      |-> {"Presence"},
   HISTORY_SYNC  |-> {"HistorySync"},
   CHAT_PRESENCE |-> {"ChatPresence", "Archive"},
   CALL          |-> {"CallOffer", "CallAccept", "CallTerminate",
                      "CallOfferNotice", "CallRelayLatency"},
   CONNECTION    |-> {"Connected", "PairSuccess", "TemporaryBan", "LoggedOut",
                      "ConnectFailure", "Disconnected"},
   LABEL         |-> {"LabelEdit", "LabelAssociationChat",
                      "LabelAssociationMessage"},
   CONTACT       |-> {"Contact", "PushName"},
   GROUP         |-> {"GroupInfo", "JoinedGroup"},
   NEWSLETTER    |-> {"NewsletterJoin", "NewsletterLeave"},
   QRCODE        |-> {"QRCode", "QRTimeout", "QRSuccess"}]

GroupsOf(table, type) == {g \in DOMAIN table : type \in table[g]}

ToLower ==
  [Message |-> "message", SendMessage |-> "sendmessage", Receipt |-> "receipt",
   Presence |-> "presence", HistorySync |-> "historysync",
   ChatPresence |-> "chatpresence", Archive |-> "archive",
   CallOffer |-> "calloffer", CallAccept |-> "callaccept",
   CallTerminate |-> "callterminate", CallOfferNotice |-> "calloffernotice",
   CallRelayLatency |-> "callrelaylatency", Connected |-> "connected",
   PairSuccess |-> "pairsuccess", TemporaryBan |-> "temporaryban",
   LoggedOut |-> "loggedout", ConnectFailure |-> "connectfailure",
   Disconnected |-> "disconnected", LabelEdit |-> "labeledit",
   LabelAssociationChat |-> "labelassociationchat",
   LabelAssociationMessage |-> "labelassociationmessage",
   Contact |-> "contact", PushName |-> "pushname", GroupInfo |-> "groupinfo",
   JoinedGroup |-> "joinedgroup", NewsletterJoin |-> "newsletterjoin",
   NewsletterLeave |-> "newsletterleave", QRCode |-> "qrcode",
   QRTimeout |-> "qrtimeout", QRSuccess |-> "qrsuccess",
   ButtonClick |-> "buttonclick", OfflineSyncCompleted |-> "offlinesynccompleted",
   SendStatus |-> "sendstatus"]

Types == DOMAIN ToLower

(* Faulty variant: a type of the label group is missing.                 *)
EventMap_NoLabelEdit ==
  [g \in DOMAIN AmqpGroup |->
     {ToLower[t] : t \in AmqpGroup[g] \ {"LabelEdit"}}]

(* CreateGlobalQueues' own table, from groups to the names of queues.      *)
EventMap ==
  [MESSAGE       |-> {"message"},
   SEND_MESSAGE  |-> {"sendmessage"},
   READ_RECEIPT  |-> {"receipt"},
   PRESENCE      |-> {"presence"},
   HISTORY_SYNC  |-> {"historysync"},
   CHAT_PRESENCE |-> {"chatpresence", "archive"},
   CALL          |-> {"calloffer", "callaccept", "callterminate",
                      "calloffernotice", "callrelaylatency"},
   CONNECTION    |-> {"connected", "pairsuccess", "temporaryban", "loggedout",
                      "connectfailure", "disconnected"},
   LABEL         |-> {"labeledit", "labelassociationchat",
                      "labelassociationmessage"},
   CONTACT       |-> {"contact", "pushname"},
   GROUP         |-> {"groupinfo", "joinedgroup"},
   NEWSLETTER    |-> {"newsletterjoin", "newsletterleave"},
   QRCODE        |-> {"qrcode", "qrtimeout", "qrsuccess"}]

(* AMQP_SPECIFIC_EVENTS comes before AMQP_GLOBAL_EVENTS, here and below.   *)
CreatedQueues(conf) ==
  CASE ~conf.amqpGlobal -> {}
    [] conf.amqpGlobal /\ conf.specific # {} ->
         {ToLower[t] : t \in conf.specific}
    [] OTHER -> UNION {Only(EventMap, g) : g \in conf.amqpEvents}

(* Without AMQP_SPECIFIC_EVENTS, a type of no group ends SendToGlobalQueues *)
(* before NATS is looked at.                                               *)
Unmapped(conf, type) ==
  conf.amqpGlobal /\ conf.specific = {} /\ GroupsOf(AmqpGroup, type) = {}

ToAmqp(conf, type) ==
  /\ conf.amqpGlobal
  /\ IF conf.specific # {} THEN type \in conf.specific
     ELSE GroupsOf(AmqpGroup, type) \cap conf.amqpEvents # {}

ToNats(conf, type) ==
  /\ conf.natsGlobal
  /\ ~Unmapped(conf, type)
  /\ GroupsOf(NatsGroup, type) \cap conf.natsEvents # {}

-----------------------------------------------------------------------------
(* MatchesFilter.  A webhook's lists of jids and of names are sets of the  *)
(* values they match, patterns included; "" is the value that is missing.  *)

(* The names of a filter are those of groups of events, while an event has *)
(* the name of its type: they agree only where both are the same word.     *)
SameWord ==
  [MESSAGE |-> {"Message"}, PRESENCE |-> {"Presence"},
   CONTACT |-> {"Contact"}, QRCODE |-> {"QRCode"}]

matchEvents(events, type) ==
  \/ events = {}
  \/ "ALL" \in events
  \/ \E e \in events : type \in Only(SameWord, e)

matchChatType(chatType, chat) ==
  CASE chatType = "any" -> TRUE
    [] chatType = "group" -> chat = "group"
    [] chatType = "individual" -> chat \notin {"", "group", "newsletter", "broadcast"}

matchPatternAllowlist(allow, value) ==
  allow = {} \/ (value # "" /\ value \in allow)

MatchesFilter(w, post, chatName, senderName) ==
  /\ w.enabled
  /\ ~(post.own /\ w.ignoreFromMe)
  /\ matchEvents(w.events, post.type)
  /\ matchChatType(w.chatType, post.chat)
  /\ matchPatternAllowlist(w.chatIDs, post.chat)
  /\ matchPatternAllowlist(w.senders, post.sender)
  /\ matchPatternAllowlist(w.chatNames, chatName)
  /\ matchPatternAllowlist(w.senderNames, senderName)

webhookNeedsNames(w) == w.chatNames # {} \/ w.senderNames # {}
=============================================================================
