--------------------------- MODULE RestApi_proofs ---------------------------
(***************************************************************************)
(* What holds of a request of the REST API, and of one made by an MCP tool,*)
(* for every body that Asked may hold.                                     *)
(*                                                                         *)
(* The tables of RestRoutes, RestHandlers, RestServices and McpTools are   *)
(* data, and the invariants hold because of what is in them: no service    *)
(* changes something before a step that may fail unless it is one of PartOf*)
(* (TameService), no middleware or handler asks for what a body cannot give*)
(* (FitHandler).  These are proved for each row first.  The rest of the    *)
(* module is about the steps of a request over any service that is tame and*)
(* any handler that fits.                                                  *)
(*                                                                         *)
(* The inductive invariant IInv is Shape (how far the request is, and what *)
(* its variables may be there), Tally (the changes made are those that the *)
(* steps so far ask for, but for the failed ones), Reached (the address is *)
(* what the body's number comes to), Smooth (while nothing has gone wrong  *)
(* the client is there, and a complete request is not refused), Turned (a  *)
(* request with something missing gets no further than the handler) and    *)
(* PanicIsKnown itself.                                                    *)
(***************************************************************************)
EXTENDS McpTools, FiniteSetTheorems, SequenceTheorems, TLAPS

------------------------------------------------------------------------------
(***************************************************************************)
(* The services: what the steps of each are, as far as their order matters,*)
(* and what the handler of each route is. Both are facts about each row of *)
(* the tables, proved table by table.                                      *)
(***************************************************************************)

Changing == {"change", "save", "send", "link", "changeIf"}

Communities == {"CommunityAdd", "CommunityRemove"}

(* The fields that the services themselves look at.                        *)
Needs(op) ==
  CASE op = "React" -> {"id"}
    [] op = "DownloadMedia" -> {"message"}
    [] op = "HistorySyncRequest" -> {"messageInfo"}
    [] op \in {"WebhookCreate", "WebhookUpdate"} -> {"url"}
    [] OTHER -> {}

(* What the steps of a service are, as far as their order matters.         *)
TameStep(op, x) ==
  /\ x.do = "own" => op \in {"React", "GetMyGroups"}
  /\ x.do = "deref" => op = "HistorySyncRequest"
  /\ x.do = "send" => op \in DOMAIN SendRoutes
  /\ x.do = "link" => op \in Communities
  /\ x.do = "changeIf" => x.field = "reset"
  /\ x.do \in {"need", "deref"} => x.field \in Needs(op)

TameService(op, s) ==
  /\ DOMAIN s = 1..Len(s) /\ Len(s) \in Nat /\ 1 <= Len(s) /\ Len(s) <= 9
  /\ \A i \in 1..Len(s) :
       /\ TameStep(op, s[i])
       /\ s[i].do \in Changing => i <= 8 /\ (i = 1 => Len(s) = 1)
       /\ s[i].do = "ready" => i > 1 /\ s[1].do = "client"
       /\ s[i].do = "link" =>
            i \in {3, 4} /\ Len(s) = 4 /\ s[3].do = "link" /\ s[4].do = "link"
  /\ \A i, j \in 1..Len(s) :
       /\ i < j /\ s[i].do \in Changing /\ op \notin PartOf =>
            s[i].do = "link" /\ s[j].do = "link"
       /\ i <= j /\ s[i].do = "try" => s[j].do \notin Changing
       /\ s[i].do = "typed" /\ s[j].do = "parse" => op = "UpdateParticipant"

CheckNames == {"none", "jids", "number", "formatJid", "contact", "numbers"}

FitHandler(op, r) ==
  /\ r.handler.failure \in {"error", "refused"}
  /\ r.check.name \in CheckNames
  /\ r.handler.nil => r.handler.body
  /\ ~r.handler.body => r.check.name = "none"
  /\ r.handler.form # {} => r.check.name \in {"none", "formatJid"}
  /\ r.handler.form \cap Coordinates = {}
  /\ r.handler.wants \cap Coordinates = {} \/ op = "SendLocation"
  /\ r.check.name = "jids" =>
       /\ r.check.fields \cap Coordinates = {}
       /\ r.check.fields \cap r.handler.lists = {} \/ op = "UpdateParticipant"
  /\ op \in Communities => r.handler.nil /\ r.handler.wants # {}
  /\ op = "UpdateParticipant" =>
       /\ r.handler.body /\ r.handler.nil /\ r.handler.form = {}
       /\ "participants" \in r.handler.wants \cap r.handler.lists
       /\ r.check.name = "jids" /\ "participants" \in r.check.fields

(* Services of up to four steps of which the last alone may change         *)
(* something.                                                              *)
Plain(op, x) == TameStep(op, x) /\ x.do \notin Changing \cup {"try", "ready"}

Final(op, x) == TameStep(op, x) /\ x.do \notin {"ready", "link"}

LEMMA TameOne ==
  ASSUME NEW op, NEW a, Final(op, a), a.do # "typed"
  PROVE  TameService(op, <<a>>)
<1> DEFINE s == <<a>>
<1>1. DOMAIN s = 1..1 /\ Len(s) = 1 /\ s[1] = a
  OBVIOUS
<1> HIDE DEF s
<1>2. TameService(op, s)
  BY <1>1 DEF TameService, Final, Changing
<1> QED BY <1>2 DEF s

LEMMA TameTwo ==
  ASSUME NEW op, NEW a, NEW b, Plain(op, a), Final(op, b),
         a.do # "typed", b.do # "typed"
  PROVE  TameService(op, <<a, b>>)
<1> DEFINE s == <<a, b>>
<1>1. DOMAIN s = 1..2 /\ Len(s) = 2 /\ s[1] = a /\ s[2] = b
  OBVIOUS
<1> HIDE DEF s
<1>2. \A i \in 1..2 : Final(op, s[i]) /\ s[i].do # "typed"
  BY <1>1 DEF Plain, Final, Changing
<1>3. s[1].do \notin Changing \cup {"try"}
  BY <1>1 DEF Plain
<1>4. TameService(op, s)
  BY <1>1, <1>2, <1>3 DEF TameService, Final, Changing
<1> QED BY <1>4 DEF s

LEMMA TameThree ==
  ASSUME NEW op, NEW a, NEW b, NEW c, Plain(op, a), Plain(op, b), Final(op, c),
         "typed" \notin {a.do, b.do, c.do} \/ "parse" \notin {a.do, b.do, c.do}
  PROVE  TameService(op, <<a, b, c>>)
<1> DEFINE s == <<a, b, c>>
<1>1. DOMAIN s = 1..3 /\ Len(s) = 3 /\ s[1] = a /\ s[2] = b /\ s[3] = c
  OBVIOUS
<1> HIDE DEF s
<1>2. \A i \in 1..3 : Final(op, s[i])
  BY <1>1 DEF Plain, Final, Changing
<1>3. \A i \in 1..3 : s[i].do \in Changing \cup {"try"} => i = 3
  BY <1>1 DEF Plain
<1>4. \A i, j \in 1..3 : ~(s[i].do = "typed" /\ s[j].do = "parse")
  BY <1>1
<1>5. TameService(op, s)
  BY <1>1, <1>2, <1>3, <1>4 DEF TameService, Final, Changing
<1> QED BY <1>5 DEF s

LEMMA TameFour ==
  ASSUME NEW op, NEW a, NEW b, NEW c, NEW d,
         Plain(op, a), Plain(op, c), Final(op, d),
         Plain(op, b) \/ (a.do = "client" /\ b.do = "ready" /\ TameStep(op, b)),
         "typed" \notin {a.do, b.do, c.do, d.do}
  PROVE  TameService(op, <<a, b, c, d>>)
<1> DEFINE s == <<a, b, c, d>>
<1>1. DOMAIN s = 1..4 /\ Len(s) = 4 /\ s[1] = a /\ s[2] = b /\ s[3] = c /\ s[4] = d
  OBVIOUS
<1> HIDE DEF s
<1>2. \A i \in 1..4 : TameStep(op, s[i]) /\ s[i].do \notin {"link", "typed"}
  BY <1>1 DEF Plain, Final, Changing
<1>3. \A i \in 1..4 : s[i].do \in Changing \cup {"try"} => i = 4
  BY <1>1 DEF Plain, Changing
<1>4. \A i \in 1..4 : s[i].do = "ready" => i = 2 /\ s[1].do = "client"
  BY <1>1 DEF Plain, Final
<1>5. TameService(op, s)
  BY <1>1, <1>2, <1>3, <1>4 DEF TameService, Final, Changing
<1> QED BY <1>5 DEF s

(* A service whose changes may be left half made.                          *)
LEMMA TameParts ==
  ASSUME NEW op \in PartOf, NEW s, DOMAIN s = 1..Len(s), Len(s) \in Nat,
         2 <= Len(s), Len(s) <= 9,
         \A i \in 1..Len(s) :
           TameStep(op, s[i]) /\ s[i].do \notin {"ready", "link", "try", "typed"},
         \A i \in 1..Len(s) : s[i].do \in Changing => 2 <= i /\ i <= 8
  PROVE  TameService(op, s)
BY DEF TameService

------------------------------------------------------------------------------
(***************************************************************************)
(* The services of each table.                                             *)
(***************************************************************************)

USE DEF Keyed, Admin, S!Step, S!StepOn, S!Client, S!Ready, S!Own, S!Ask,
   S!Look, S!Try, S!Change, S!Fetch, S!Row, S!Save, S!Votes, S!Send,
   S!Instance, S!Parse, S!ParseGiven, S!Typed, S!Need, S!Deref, S!ChangeIf,
   S!TryAgain, S!Link

LEMMA InstanceRoutesServe ==
  ASSUME NEW op \in DOMAIN InstanceRoutes
  PROVE  TameService(op, InstanceRoutes[op].service)
<1>1. InstanceRoutes[op].service \in
        {<<S!Instance>>, <<S!StepOn("instance", "body")>>}
  BY SMTT(60) DEF InstanceRoutes
<1>2. /\ TameService(op, <<S!Instance>>)
      /\ TameService(op, <<S!StepOn("instance", "body")>>)
  BY TameOne DEF Final, TameStep, Needs
<1> QED BY <1>1, <1>2

LEMMA SendRoutesServe ==
  ASSUME NEW op \in DOMAIN SendRoutes
  PROVE  TameService(op, SendRoutes[op].service)
BY TameOne, TameTwo, TameThree, TameFour DEF SendRoutes, Plain, Final,
   TameStep, Changing, Communities, SendRoutes, Needs, PartOf

LEMMA UserRoutesServe ==
  ASSUME NEW op \in DOMAIN UserRoutes
  PROVE  TameService(op, UserRoutes[op].service)
<1>1. CASE op \notin {"SetPrivacy", "GetAvatar", "CheckUser"}
  BY SMTT(60), <1>1, TameOne, TameTwo, TameThree, TameFour
     DEF UserRoutes, Plain, Final,
     TameStep, Changing, Communities, SendRoutes, Needs, PartOf, S!GetUser,
     S!GetContacts, S!GetPrivacy, S!BlockContact, S!UnblockContact,
     S!GetBlockList, S!SetProfilePicture, S!SetProfileName, S!SetProfileStatus
<1>2. CASE op = "SetPrivacy"
  <2> DEFINE s == S!SetPrivacy
  <2>1. UserRoutes[op].service = s
    BY <1>2 DEF UserRoutes
  <2>2. DOMAIN s = 1..9 /\ Len(s) = 9
    BY DEF S!SetPrivacy
  <2>3. /\ s[1].do = "client" /\ s[2].do = "change" /\ s[3].do = "change"
        /\ s[4].do = "change" /\ s[5].do = "change" /\ s[6].do = "change"
        /\ s[7].do = "change" /\ s[8].do = "change" /\ s[9].do = "look"

    BY DEF S!SetPrivacy
  <2> HIDE DEF s
  <2>4. op \in PartOf
    BY <1>2 DEF PartOf
  <2>5. \A i \in 1..Len(s) :
          TameStep(op, s[i]) /\ s[i].do \notin {"ready", "link", "try", "typed"}
    BY <1>2, <2>2, <2>3 DEF TameStep, Needs
  <2>6. \A i \in 1..Len(s) : s[i].do \in Changing => 2 <= i /\ i <= 8
    BY <2>2, <2>3 DEF Changing
  <2>. DOMAIN s = 1..Len(s) /\ Len(s) \in Nat /\ 2 <= Len(s) /\ Len(s) <= 9
    BY <2>2
  <2>7. TameService(op, s)
    BY <2>4, <2>5, <2>6, TameParts
  <2> QED BY <2>1, <2>7
<1>3. CASE op = "GetAvatar"
  <2> DEFINE s == S!GetAvatar
  <2>1. UserRoutes[op].service = s
    BY <1>3 DEF UserRoutes
  <2>2. DOMAIN s = 1..4 /\ Len(s) = 4
    BY DEF S!GetAvatar
  <2>3. /\ s[1].do = "client" /\ s[2].do = "ready" /\ s[3].do = "parse"
        /\ s[4].do = "ask"

    BY DEF S!GetAvatar
  <2> HIDE DEF s
  <2> QED
    BY <1>3, <2>1, <2>2, <2>3 DEF TameService, TameStep, Changing,
       Communities, PartOf, Needs
<1>4. CASE op = "CheckUser"
  <2> DEFINE s == S!CheckUser
  <2>1. UserRoutes[op].service = s
    BY <1>4 DEF UserRoutes
  <2>2. DOMAIN s = 1..3 /\ Len(s) = 3
    BY DEF S!CheckUser
  <2>3. s[1].do = "client" /\ s[2].do = "try" /\ s[3].do = "tryAgain"

    BY DEF S!CheckUser
  <2> HIDE DEF s
  <2> QED
    BY <1>4, <2>1, <2>2, <2>3 DEF TameService, TameStep, Changing,
       Communities, PartOf, Needs
<1> QED BY <1>1, <1>2, <1>3, <1>4

LEMMA WebhookRoutesServe ==
  ASSUME NEW op \in DOMAIN WebhookRoutes
  PROVE  TameService(op, WebhookRoutes[op].service)
BY TameOne, TameTwo, TameThree, TameFour DEF WebhookRoutes, Plain, Final,
   TameStep, Changing, Communities, SendRoutes, Needs, PartOf, S!WebhookList,
   S!WebhookCreate, S!WebhookUpdate, S!WebhookDelete

LEMMA MessageRoutesServe ==
  ASSUME NEW op \in DOMAIN MessageRoutes
  PROVE  TameService(op, MessageRoutes[op].service)
<1>1. CASE op \notin {"React"}
  BY <1>1, TameOne, TameTwo, TameThree, TameFour DEF MessageRoutes, Plain,
     Final, TameStep, Changing, Communities, SendRoutes, Needs, PartOf,
     S!ChatPresence, S!MarkRead, S!DownloadMedia, S!GetMessageStatus,
     S!DeleteMessageEveryone, S!EditMessage
<1>2. CASE op = "React"
  <2> DEFINE s == S!React
  <2>1. MessageRoutes[op].service = s
    BY <1>2 DEF MessageRoutes
  <2>2. DOMAIN s = 1..5 /\ Len(s) = 5
    BY DEF S!React
  <2>3. /\ s[1].do = "client" /\ s[2].do = "parse" /\ s[3].do = "need"
        /\ s[4].do = "change" /\ s[5].do = "own"
        /\ s[3].field = "id"
    BY DEF S!React
  <2> HIDE DEF s
  <2>4. op \in PartOf
    BY <1>2 DEF PartOf
  <2>5. \A i \in 1..Len(s) :
          TameStep(op, s[i]) /\ s[i].do \notin {"ready", "link", "try", "typed"}
    BY <1>2, <2>2, <2>3 DEF TameStep, Needs
  <2>6. \A i \in 1..Len(s) : s[i].do \in Changing => 2 <= i /\ i <= 8
    BY <2>2, <2>3 DEF Changing
  <2>. DOMAIN s = 1..Len(s) /\ Len(s) \in Nat /\ 2 <= Len(s) /\ Len(s) <= 9
    BY <2>2
  <2>7. TameService(op, s)
    BY <2>4, <2>5, <2>6, TameParts
  <2> QED BY <2>1, <2>7
<1> QED BY <1>1, <1>2

LEMMA ChatRoutesServe ==
  ASSUME NEW op \in DOMAIN ChatRoutes
  PROVE  TameService(op, ChatRoutes[op].service)
BY TameOne, TameTwo, TameThree, TameFour DEF ChatRoutes, Plain, Final,
   TameStep, Changing, Communities, SendRoutes, Needs, PartOf, S!ChatPin,
   S!ChatUnpin, S!ChatArchive, S!ChatUnarchive, S!ChatMute, S!ChatUnmute,
   S!HistorySyncRequest

LEMMA GroupRoutesServe ==
  ASSUME NEW op \in DOMAIN GroupRoutes
  PROVE  TameService(op, GroupRoutes[op].service)
<1>1. CASE op \notin {"CreateGroup", "UpdateParticipant"}
  BY SMTT(60), <1>1, TameOne, TameTwo, TameThree, TameFour
     DEF GroupRoutes, Plain,
     Final, TameStep, Changing, Communities, SendRoutes, Needs, PartOf,
     S!ListGroups, S!GetGroupInfo, S!GetGroupInviteLink, S!SetGroupPhoto,
     S!SetGroupName, S!SetGroupDescription, S!GetMyGroups, S!JoinGroupLink,
     S!LeaveGroup
<1>2. CASE op = "CreateGroup"
  <2> DEFINE s == S!CreateGroup
  <2>1. GroupRoutes[op].service = s
    BY <1>2 DEF GroupRoutes
  <2>2. DOMAIN s = 1..4 /\ Len(s) = 4
    BY DEF S!CreateGroup
  <2>3. /\ s[1].do = "client" /\ s[2].do = "parse" /\ s[3].do = "change"
        /\ s[4].do = "ask"

    BY DEF S!CreateGroup
  <2> HIDE DEF s
  <2>4. op \in PartOf
    BY <1>2 DEF PartOf
  <2>5. \A i \in 1..Len(s) :
          TameStep(op, s[i]) /\ s[i].do \notin {"ready", "link", "try", "typed"}
    BY <1>2, <2>2, <2>3 DEF TameStep, Needs
  <2>6. \A i \in 1..Len(s) : s[i].do \in Changing => 2 <= i /\ i <= 8
    BY <2>2, <2>3 DEF Changing
  <2>. DOMAIN s = 1..Len(s) /\ Len(s) \in Nat /\ 2 <= Len(s) /\ Len(s) <= 9
    BY <2>2
  <2>7. TameService(op, s)
    BY <2>4, <2>5, <2>6, TameParts
  <2> QED BY <2>1, <2>7
<1>3. CASE op = "UpdateParticipant"
  <2> DEFINE s == S!UpdateParticipant
  <2>1. GroupRoutes[op].service = s
    BY <1>3 DEF GroupRoutes
  <2>2. DOMAIN s = 1..4 /\ Len(s) = 4
    BY DEF S!UpdateParticipant
  <2>3. /\ s[1].do = "client" /\ s[2].do = "parse" /\ s[3].do = "typed"
        /\ s[4].do = "change"

    BY DEF S!UpdateParticipant
  <2> HIDE DEF s
  <2> QED
    BY <1>3, <2>1, <2>2, <2>3 DEF TameService, TameStep, Changing,
       Communities, PartOf, Needs
<1> QED BY <1>1, <1>2, <1>3

LEMMA CommunityRoutesServe ==
  ASSUME NEW op \in DOMAIN CommunityRoutes
  PROVE  TameService(op, CommunityRoutes[op].service)
<1>1. CASE op \notin {"CommunityAdd", "CommunityRemove"}
  BY <1>1, TameOne, TameTwo, TameThree, TameFour DEF CommunityRoutes, Plain,
     Final, TameStep, Changing, Communities, SendRoutes, Needs, PartOf,
     S!RejectCall, S!CreateCommunity
<1>2. CASE op = "CommunityAdd"
  <2> DEFINE s == S!CommunityAdd
  <2>1. CommunityRoutes[op].service = s
    BY <1>2 DEF CommunityRoutes
  <2>2. DOMAIN s = 1..4 /\ Len(s) = 4
    BY DEF S!CommunityAdd
  <2>3. /\ s[1].do = "client" /\ s[2].do = "parse" /\ s[3].do = "link"
        /\ s[4].do = "link"

    BY DEF S!CommunityAdd
  <2> HIDE DEF s
  <2> QED
    BY <1>2, <2>1, <2>2, <2>3 DEF TameService, TameStep, Changing,
       Communities, PartOf, Needs
<1>3. CASE op = "CommunityRemove"
  <2> DEFINE s == S!CommunityRemove
  <2>1. CommunityRoutes[op].service = s
    BY <1>3 DEF CommunityRoutes
  <2>2. DOMAIN s = 1..4 /\ Len(s) = 4
    BY DEF S!CommunityRemove
  <2>3. /\ s[1].do = "client" /\ s[2].do = "parse" /\ s[3].do = "link"
        /\ s[4].do = "link"

    BY DEF S!CommunityRemove
  <2> HIDE DEF s
  <2> QED
    BY <1>3, <2>1, <2>2, <2>3 DEF TameService, TameStep, Changing,
       Communities, PartOf, Needs
<1> QED BY <1>1, <1>2, <1>3

LEMMA LabelRoutesServe ==
  ASSUME NEW op \in DOMAIN LabelRoutes
  PROVE  TameService(op, LabelRoutes[op].service)
BY TameOne, TameTwo, TameThree, TameFour DEF LabelRoutes, Plain, Final,
   TameStep, Changing, Communities, SendRoutes, Needs, PartOf, S!ChatLabel,
   S!MessageLabel, S!EditLabel, S!GetLabels, S!ChatUnlabel, S!MessageUnlabel

LEMMA NewsletterRoutesServe ==
  ASSUME NEW op \in DOMAIN NewsletterRoutes
  PROVE  TameService(op, NewsletterRoutes[op].service)
BY TameOne, TameTwo, TameThree, TameFour DEF NewsletterRoutes, Plain, Final,
   TameStep, Changing, Communities, SendRoutes, Needs, PartOf,
   S!CreateNewsletter, S!ListNewsletter, S!GetNewsletter,
   S!GetNewsletterInvite, S!SubscribeNewsletter, S!GetNewsletterMessages,
   S!GetPollResults

HIDE DEF S!Step, S!StepOn, S!Client, S!Ready, S!Own, S!Ask, S!Look, S!Try,
   S!Change, S!Fetch, S!Row, S!Save, S!Votes, S!Send, S!Instance, S!Parse,
   S!ParseGiven, S!Typed, S!Need, S!Deref, S!ChangeIf, S!TryAgain, S!Link

------------------------------------------------------------------------------
(***************************************************************************)
(* The handlers and the middleware of each table.                          *)
(***************************************************************************)

(* What there is in the record of a handler, however it was made.          *)
IsHandler(h, b, w, l, n, f) ==
  /\ h.body = b /\ h.wants = w /\ h.lists = l /\ h.nil = n /\ h.form = {}
  /\ h.failure = f

LEMMA WantsIs ==
  ASSUME NEW w
  PROVE  /\ IsHandler(H!Wants(w), TRUE, w, {}, TRUE, "error")
         /\ DOMAIN H!Wants(w) =
              {"body", "wants", "lists", "typed", "nil", "form", "failure"}
BY DEF H!Wants, H!NoBody, IsHandler

LEMMA HandlersAre ==
  ASSUME NEW w, NEW l
  PROVE  /\ IsHandler(H!WantsLists(w, l), TRUE, w, l, TRUE, "error")
         /\ IsHandler(H!WantsTyped(w, l), TRUE, w, {}, TRUE, "error")
         /\ IsHandler(H!NoBody, FALSE, {}, {}, FALSE, "error")
         /\ IsHandler([H!NoBody EXCEPT !.failure = "refused"], FALSE, {}, {}, FALSE, "refused")
<1>1. IsHandler(H!WantsLists(w, l), TRUE, w, l, TRUE, "error")
  BY WantsIs DEF H!WantsLists, IsHandler
<1>2. IsHandler(H!WantsTyped(w, l), TRUE, w, {}, TRUE, "error")
  BY WantsIs DEF H!WantsTyped, IsHandler
<1>3. IsHandler(H!NoBody, FALSE, {}, {}, FALSE, "error")
  BY DEF H!NoBody, IsHandler
<1>4. IsHandler([H!NoBody EXCEPT !.failure = "refused"], FALSE, {}, {}, FALSE, "refused")
  BY DEF H!NoBody, IsHandler
<1> QED BY <1>1, <1>2, <1>3, <1>4

CheckFits(check, lists) ==
  /\ check.name \in CheckNames
  /\ check.name = "jids" => check.fields \cap (Coordinates \cup lists) = {}

LEMMA FitIs ==
  ASSUME NEW op, NEW s, NEW check, NEW w, NEW l, NEW h,
         IsHandler(h, TRUE, w, l, TRUE, "error"),
         w \cap Coordinates = {} \/ op = "SendLocation", op # "UpdateParticipant",
         op \in Communities => w # {}, CheckFits(check, l)
  PROVE  FitHandler(op, Keyed(check, h, s))
BY DEF IsHandler, CheckFits, FitHandler, Keyed

LEMMA FitWants ==
  ASSUME NEW op, NEW s, NEW check, NEW w,
         w \cap Coordinates = {} \/ op = "SendLocation", op # "UpdateParticipant",
         op \notin Communities, CheckFits(check, {})
  PROVE  FitHandler(op, Keyed(check, H!Wants(w), s))
BY WantsIs, FitIs

LEMMA FitTyped ==
  ASSUME NEW op, NEW s, NEW check, NEW w, NEW t,
         w \cap Coordinates = {}, op # "UpdateParticipant",
         op \notin Communities, CheckFits(check, {})
  PROVE  FitHandler(op, Keyed(check, H!WantsTyped(w, t), s))
BY HandlersAre, FitIs

LEMMA FitLists ==
  ASSUME NEW op, NEW s, NEW check, NEW w, NEW l,
         w \cap Coordinates = {}, op # "UpdateParticipant",
         op \in Communities => w # {}, CheckFits(check, l)
  PROVE  FitHandler(op, Keyed(check, H!WantsLists(w, l), s))
BY HandlersAre, FitIs

LEMMA FitForm ==
  ASSUME NEW op, NEW s, NEW check, NEW h, h.body = TRUE,
         h.failure \in {"error", "refused"},
         h.wants \cap Coordinates = {}, h.form \cap Coordinates = {},
         op # "UpdateParticipant", op \notin Communities,
         check.name \in {"none", "formatJid"}
  PROVE  FitHandler(op, Keyed(check, h, s))
BY DEF FitHandler, Keyed, CheckNames

LEMMA FitNone ==
  ASSUME NEW op, NEW s, op # "UpdateParticipant", op \notin Communities
  PROVE  /\ FitHandler(op, Keyed(None, H!NoBody, s))
         /\ FitHandler(op, Keyed(None, [H!NoBody EXCEPT !.failure = "refused"], s))
<1>1. \A h, f : IsHandler(h, FALSE, {}, {}, FALSE, f) /\ f \in {"error", "refused"} =>
        FitHandler(op, Keyed(None, h, s))
  BY DEF IsHandler, FitHandler, Keyed, None, CheckNames
<1> QED BY <1>1, HandlersAre

LEMMA FitAdmin ==
  ASSUME NEW op, NEW s, NEW h, FitHandler(op, Keyed(None, h, s))
  PROVE  FitHandler(op, Admin(h, s))
<1>1. DOMAIN Keyed(None, h, s) = {"auth", "check", "handler", "service"}
  BY DEF Keyed
<1>2. /\ Admin(h, s).handler = Keyed(None, h, s).handler
      /\ Admin(h, s).check = Keyed(None, h, s).check
  BY <1>1 DEF Admin
<1> QED BY <1>2 DEF FitHandler

USE DEF None, Jids, Number, FormatJid, Contact, Numbers, CheckNames,
   CheckFits, Coordinates, Communities

HIDE DEF Keyed, Admin

LEMMA InstanceRoutesFit ==
  ASSUME NEW op \in DOMAIN InstanceRoutes
  PROVE  FitHandler(op, InstanceRoutes[op])
<1>1. CASE op \in {"Create", "SetProxy", "ForceReconnect"}
  BY <1>1, FitWants, FitAdmin DEF InstanceRoutes, H!Create, H!SetProxy,
     H!ForceReconnect
<1>2. CASE op \in {"All", "Info", "Delete", "DeleteProxy"}
  BY <1>2, FitNone, FitAdmin DEF InstanceRoutes, H!All, H!Info, H!Delete,
     H!DeleteProxy
<1>3. CASE op = "GetLogs"
  BY <1>3, FitNone, FitAdmin DEF InstanceRoutes, H!GetLogs
<1>4. CASE op = "Connect"
  BY <1>4, FitWants DEF InstanceRoutes, H!Connect
<1>5. CASE op \in {"Status", "Qr", "Logout"}
  BY <1>5, FitNone DEF InstanceRoutes, H!Status, H!Qr, H!Logout
<1>6. CASE op = "Pair"
  BY <1>6, FitWants DEF InstanceRoutes, H!Pair
<1>7. CASE op \in {"Disconnect", "Reconnect", "GetAdvancedSettings"}
  BY <1>7, FitNone DEF InstanceRoutes, H!Disconnect, H!Reconnect,
     H!GetAdvancedSettings
<1>8. CASE op = "UpdateAdvancedSettings"
  <2>1. /\ H!UpdateAdvancedSettings.body = TRUE
        /\ H!UpdateAdvancedSettings.failure = "error"
        /\ H!UpdateAdvancedSettings.wants = {} /\ H!UpdateAdvancedSettings.form = {}
    BY DEF H!UpdateAdvancedSettings, H!Wants, H!NoBody
  <2> QED BY <1>8, <2>1, FitForm, ZenonT(60) DEF InstanceRoutes
<1> QED BY <1>1, <1>2, <1>3, <1>4, <1>5, <1>6, <1>7, <1>8 DEF InstanceRoutes

LEMMA SendRoutesFit ==
  ASSUME NEW op \in DOMAIN SendRoutes
  PROVE  FitHandler(op, SendRoutes[op])
<1>1. CASE op \in {"SendText", "SendLink", "SendSticker", "SendLocation"}
  BY <1>1, FitWants DEF SendRoutes, H!SendText, H!SendLink, H!SendSticker,
     H!SendLocation
<1>2. CASE op \in {"SendButton", "SendList"}
  BY <1>2, FitWants DEF SendRoutes, H!SendButton, H!SendList
<1>3. CASE op = "SendMedia"
  <2>1. /\ H!SendMedia.body = TRUE /\ H!SendMedia.failure = "error"
        /\ H!SendMedia.wants = {"number", "url", "type"}
        /\ H!SendMedia.form = {"number", "type", "file"}
    BY DEF H!SendMedia, H!Wants, H!NoBody
  <2> QED BY <1>3, <2>1, FitForm DEF SendRoutes
<1>4. CASE op \in {"SendAlbum", "SendPoll", "SendCarousel"}
  BY <1>4, FitLists DEF SendRoutes, H!SendAlbum, H!SendPoll, H!SendCarousel
<1>5. CASE op = "SendContact"
  BY <1>5, FitWants DEF SendRoutes, H!SendContact
<1>6. CASE op = "SendStatusText"
  <2>1. /\ H!SendStatusText.body = TRUE /\ H!SendStatusText.failure = "error"
        /\ H!SendStatusText.wants = {"text"} /\ H!SendStatusText.form = {}
    BY DEF H!SendStatusText, H!Wants, H!NoBody
  <2> QED BY <1>6, <2>1, FitForm DEF SendRoutes
<1>7. CASE op = "SendStatusMedia"
  <2>1. /\ H!SendStatusMedia.body = TRUE /\ H!SendStatusMedia.failure = "error"
        /\ H!SendStatusMedia.wants = {"url", "type"}
        /\ H!SendStatusMedia.form = {"type", "file"}
    BY DEF H!SendStatusMedia, H!Wants, H!NoBody
  <2> QED BY <1>7, <2>1, FitForm DEF SendRoutes
<1> QED BY <1>1, <1>2, <1>3, <1>4, <1>5, <1>6, <1>7 DEF SendRoutes

LEMMA UserRoutesFit ==
  ASSUME NEW op \in DOMAIN UserRoutes
  PROVE  FitHandler(op, UserRoutes[op])
<1>1. CASE op = "GetUser"
  BY <1>1, FitLists DEF UserRoutes, H!GetUser
<1>2. CASE op = "CheckUser"
  BY <1>2, FitLists DEF UserRoutes, H!CheckUser
<1>3. CASE op \in {"GetAvatar", "BlockContact", "UnblockContact"}
  BY <1>3, FitWants DEF UserRoutes, H!GetAvatar, H!BlockContact,
     H!UnblockContact
<1>4. CASE op \in {"GetContacts", "GetPrivacy", "GetBlockList"}
  BY <1>4, FitNone DEF UserRoutes, H!GetContacts, H!GetPrivacy, H!GetBlockList
<1>5. CASE op \in
             {"SetPrivacy", "SetProfilePicture", "SetProfileName", "SetProfileStatus"}
  BY <1>5, FitWants DEF UserRoutes, H!SetPrivacy, H!SetProfilePicture,
     H!SetProfileName, H!SetProfileStatus, H!PrivacySettings
<1> QED BY <1>1, <1>2, <1>3, <1>4, <1>5 DEF UserRoutes

LEMMA WebhookRoutesFit ==
  ASSUME NEW op \in DOMAIN WebhookRoutes
  PROVE  FitHandler(op, WebhookRoutes[op])
<1>1. CASE op \in {"WebhookList", "WebhookDelete"}
  BY <1>1, FitNone DEF WebhookRoutes, H!WebhookList, H!WebhookDelete
<1>2. CASE op = "WebhookCreate"
  <2>1. /\ H!WebhookCreate.body = TRUE /\ H!WebhookCreate.failure = "refused"
        /\ H!WebhookCreate.wants = {} /\ H!WebhookCreate.form = {}
    BY DEF H!WebhookCreate, H!Wants, H!NoBody
  <2> QED BY <1>2, <2>1, FitForm DEF WebhookRoutes
<1>3. CASE op = "WebhookUpdate"
  <2>1. /\ H!WebhookUpdate.body = TRUE /\ H!WebhookUpdate.failure = "refused"
        /\ H!WebhookUpdate.wants = {} /\ H!WebhookUpdate.form = {}
    BY DEF H!WebhookUpdate, H!Wants, H!NoBody
  <2> QED BY <1>3, <2>1, FitForm DEF WebhookRoutes
<1> QED BY <1>1, <1>2, <1>3 DEF WebhookRoutes

LEMMA MessageRoutesFit ==
  ASSUME NEW op \in DOMAIN MessageRoutes
  PROVE  FitHandler(op, MessageRoutes[op])
<1>1. CASE op = "React"
  BY <1>1, FitWants DEF MessageRoutes, H!React
<1>2. CASE op \in {"ChatPresence", "DeleteMessageEveryone", "EditMessage"}
  BY <1>2, FitWants DEF MessageRoutes, H!ChatPresence,
     H!DeleteMessageEveryone, H!EditMessage
<1>3. CASE op = "MarkRead"
  BY <1>3, FitLists DEF MessageRoutes, H!MarkRead
<1>4. CASE op \in {"DownloadMedia", "GetMessageStatus"}
  BY <1>4, FitWants DEF MessageRoutes, H!DownloadMedia, H!GetMessageStatus
<1> QED BY <1>1, <1>2, <1>3, <1>4 DEF MessageRoutes

LEMMA ChatRoutesFit ==
  ASSUME NEW op \in DOMAIN ChatRoutes
  PROVE  FitHandler(op, ChatRoutes[op])
<1>1. CASE op \in {"ChatPin", "ChatUnpin", "ChatArchive", "ChatUnarchive"}
  BY <1>1, FitWants DEF ChatRoutes, H!ChatPin, H!ChatUnpin, H!ChatArchive,
     H!ChatUnarchive
<1>2. CASE op \in {"ChatMute", "ChatUnmute"}
  BY <1>2, FitWants DEF ChatRoutes, H!ChatMute, H!ChatUnmute
<1>3. CASE op = "HistorySyncRequest"
  BY <1>3, FitWants DEF ChatRoutes, H!HistorySyncRequest
<1> QED BY <1>1, <1>2, <1>3 DEF ChatRoutes

LEMMA GroupRoutesFit ==
  ASSUME NEW op \in DOMAIN GroupRoutes
  PROVE  FitHandler(op, GroupRoutes[op])
<1>1. CASE op \in {"ListGroups", "GetMyGroups"}
  BY <1>1, FitNone DEF GroupRoutes, H!ListGroups, H!GetMyGroups
<1>2. CASE op \in
             {"GetGroupInfo", "GetGroupInviteLink", "SetGroupPhoto", "SetGroupName"}
  BY <1>2, FitWants DEF GroupRoutes, H!GetGroupInfo, H!GetGroupInviteLink,
     H!SetGroupPhoto, H!SetGroupName
<1>3. CASE op = "SetGroupDescription"
  BY <1>3, FitWants DEF GroupRoutes, H!SetGroupDescription
<1>4. CASE op = "CreateGroup"
  BY <1>4, FitLists DEF GroupRoutes, H!CreateGroup
<1>5. CASE op = "UpdateParticipant"
  <2>1. /\ H!UpdateParticipant.body = TRUE
        /\ H!UpdateParticipant.failure = "error"
        /\ H!UpdateParticipant.nil = TRUE /\ H!UpdateParticipant.form = {}
        /\ H!UpdateParticipant.lists = {"participants"}
        /\ H!UpdateParticipant.wants = {"groupJid", "action", "participants"}
    BY DEF H!UpdateParticipant, H!WantsLists, H!Wants, H!NoBody
  <2> QED BY <1>5, <2>1 DEF GroupRoutes, FitHandler, Keyed
<1>6. CASE op = "JoinGroupLink"
  BY <1>6, FitWants DEF GroupRoutes, H!JoinGroupLink
<1>7. CASE op = "LeaveGroup"
  BY <1>7, FitTyped DEF GroupRoutes, H!LeaveGroup
<1> QED BY <1>1, <1>2, <1>3, <1>4, <1>5, <1>6, <1>7 DEF GroupRoutes

LEMMA CommunityRoutesFit ==
  ASSUME NEW op \in DOMAIN CommunityRoutes
  PROVE  FitHandler(op, CommunityRoutes[op])
<1>1. CASE op = "RejectCall"
  BY <1>1, FitTyped DEF CommunityRoutes, H!RejectCall
<1>2. CASE op = "CreateCommunity"
  BY <1>2, FitWants DEF CommunityRoutes, H!CreateCommunity
<1>3. CASE op \in {"CommunityAdd", "CommunityRemove"}
  BY <1>3, FitLists DEF CommunityRoutes, H!CommunityAdd, H!CommunityRemove
<1> QED BY <1>1, <1>2, <1>3 DEF CommunityRoutes

LEMMA LabelRoutesFit ==
  ASSUME NEW op \in DOMAIN LabelRoutes
  PROVE  FitHandler(op, LabelRoutes[op])
<1>1. CASE op \in {"ChatLabel", "ChatUnlabel"}
  BY <1>1, FitWants DEF LabelRoutes, H!ChatLabel, H!ChatUnlabel
<1>2. CASE op \in {"MessageLabel", "EditLabel", "MessageUnlabel"}
  BY <1>2, FitWants DEF LabelRoutes, H!MessageLabel, H!EditLabel,
     H!MessageUnlabel
<1>3. CASE op = "GetLabels"
  BY <1>3, FitNone DEF LabelRoutes, H!GetLabels
<1> QED BY <1>1, <1>2, <1>3 DEF LabelRoutes

LEMMA NewsletterRoutesFit ==
  ASSUME NEW op \in DOMAIN NewsletterRoutes
  PROVE  FitHandler(op, NewsletterRoutes[op])
<1>1. CASE op = "CreateNewsletter"
  BY <1>1, FitWants DEF NewsletterRoutes, H!CreateNewsletter
<1>2. CASE op \in {"ListNewsletter", "GetPollResults"}
  BY <1>2, FitNone DEF NewsletterRoutes, H!ListNewsletter, H!GetPollResults
<1>3. CASE op \in {"GetNewsletter", "SubscribeNewsletter", "GetNewsletterMessages"}
  BY <1>3, FitTyped DEF NewsletterRoutes, H!GetNewsletter,
     H!SubscribeNewsletter, H!GetNewsletterMessages
<1>4. CASE op = "GetNewsletterInvite"
  BY <1>4, FitWants DEF NewsletterRoutes, H!GetNewsletterInvite
<1> QED BY <1>1, <1>2, <1>3, <1>4 DEF NewsletterRoutes

HIDE DEF None, Jids, Number, FormatJid, Contact, Numbers, CheckNames,
   CheckFits, Coordinates, Communities

------------------------------------------------------------------------------
(***************************************************************************)
(* The request: the shape of its state, and the changes that its steps so  *)
(* far ask for (Before), which Tally relates to those that were made.      *)
(***************************************************************************)

(* Every route is in one of the tables.                                    *)
LEMMA RoutesAre ==
  ASSUME NEW op \in DOMAIN Routes
  PROVE  \/ op \in DOMAIN InstanceRoutes /\ Routes[op] = InstanceRoutes[op]
         \/ op \in DOMAIN SendRoutes /\ Routes[op] = SendRoutes[op]
         \/ op \in DOMAIN UserRoutes /\ Routes[op] = UserRoutes[op]
         \/ op \in DOMAIN WebhookRoutes /\ Routes[op] = WebhookRoutes[op]
         \/ op \in DOMAIN MessageRoutes /\ Routes[op] = MessageRoutes[op]
         \/ op \in DOMAIN ChatRoutes /\ Routes[op] = ChatRoutes[op]
         \/ op \in DOMAIN GroupRoutes /\ Routes[op] = GroupRoutes[op]
         \/ op \in DOMAIN CommunityRoutes /\ Routes[op] = CommunityRoutes[op]
         \/ op \in DOMAIN LabelRoutes /\ Routes[op] = LabelRoutes[op]
         \/ op \in DOMAIN NewsletterRoutes /\ Routes[op] = NewsletterRoutes[op]
<1>1. \E table \in RouteTables : op \in DOMAIN table /\ Routes[op] = table[op]
  BY DEF Routes
<1> QED BY <1>1, ZenonT(60) DEF RouteTables

LEMMA RoutesAreTame ==
  ASSUME NEW op \in DOMAIN Routes
  PROVE  TameService(op, Routes[op].service) /\ FitHandler(op, Routes[op])
<1>1. CASE op \in DOMAIN InstanceRoutes /\ Routes[op] = InstanceRoutes[op]
  BY <1>1, InstanceRoutesServe, InstanceRoutesFit
<1>2. CASE op \in DOMAIN SendRoutes /\ Routes[op] = SendRoutes[op]
  BY <1>2, SendRoutesServe, SendRoutesFit
<1>3. CASE op \in DOMAIN UserRoutes /\ Routes[op] = UserRoutes[op]
  BY <1>3, UserRoutesServe, UserRoutesFit
<1>4. CASE op \in DOMAIN WebhookRoutes /\ Routes[op] = WebhookRoutes[op]
  BY <1>4, WebhookRoutesServe, WebhookRoutesFit
<1>5. CASE op \in DOMAIN MessageRoutes /\ Routes[op] = MessageRoutes[op]
  BY <1>5, MessageRoutesServe, MessageRoutesFit
<1>6. CASE op \in DOMAIN ChatRoutes /\ Routes[op] = ChatRoutes[op]
  BY <1>6, ChatRoutesServe, ChatRoutesFit
<1>7. CASE op \in DOMAIN GroupRoutes /\ Routes[op] = GroupRoutes[op]
  BY <1>7, GroupRoutesServe, GroupRoutesFit
<1>8. CASE op \in DOMAIN CommunityRoutes /\ Routes[op] = CommunityRoutes[op]
  BY <1>8, CommunityRoutesServe, CommunityRoutesFit
<1>9. CASE op \in DOMAIN LabelRoutes /\ Routes[op] = LabelRoutes[op]
  BY <1>9, LabelRoutesServe, LabelRoutesFit
<1>10. CASE op \in DOMAIN NewsletterRoutes /\ Routes[op] = NewsletterRoutes[op]
  BY <1>10, NewsletterRoutesServe, NewsletterRoutesFit
<1> QED
  BY RoutesAre, <1>1, <1>2, <1>3, <1>4, <1>5, <1>6, <1>7, <1>8, <1>9, <1>10

Early == {"key", "check", "handle"}
Late == {"serve", "started"}

Shape ==
  /\ request \in RequestType /\ TypeOK
  /\ step <= Len(Service) + 1
  /\ at = "started" => step <= Len(Service) /\ Service[step].do = "client"
  /\ at \in Early =>
       /\ step = 1 /\ changes = 0 /\ failed = {} /\ reached = Invalid
       /\ held = "none" /\ ~starting /\ ~lost
  /\ at \in Late /\ body.form = "null" /\ Route.handler.nil =>
       Route.handler.wants = {}
  /\ answer = "none" <=> at # "done"
  /\ \A x \in failed : x + 2 < step
  /\ request.op = "UpdateParticipant" => at \notin Late /\ changes = 0
  /\ request.op = "UpdateParticipant" /\ at = "handle" =>
       /\ body.form # "broken"
       /\ body.form = "json" => "participants" \notin body.given \cap body.listed

(* The changes that the steps before the k-th one make.                    *)
Asks(i) ==
  \/ Service[i].do \in {"change", "save", "send", "link"}
  \/ Service[i].do = "changeIf" /\ "reset" \in request.body.given

Before(k) == {i \in DOMAIN Service : i < k /\ Asks(i)}

LEMMA RouteIs ==
  ASSUME request \in RequestType
  PROVE  TameService(request.op, Service) /\ FitHandler(request.op, Route)
BY RoutesAreTame DEF RequestType, Service, Route

LEMMA Intervals ==
  /\ IsFiniteSet(1..9)
  /\ IsFiniteSet(1..1) /\ Cardinality(1..1) = 1
  /\ IsFiniteSet(2..8) /\ Cardinality(2..8) = 7
  /\ IsFiniteSet(1..2)
<1>1. 1 \in Int /\ 2 \in Int /\ 8 \in Int /\ 9 \in Int
  OBVIOUS
<1>2. \A a, b \in Int : /\ IsFiniteSet(a..b)
                        /\ Cardinality(a..b) = IF a > b THEN 0 ELSE b - a + 1
  <2> SUFFICES ASSUME NEW a \in Int, NEW b \in Int
               PROVE  /\ IsFiniteSet(a..b)
                      /\ Cardinality(a..b) = IF a > b THEN 0 ELSE b - a + 1
    OBVIOUS
  <2> QED BY FS_Interval
<1>3. IsFiniteSet(1..9) /\ IsFiniteSet(1..2)
  BY <1>1, <1>2
<1>4. /\ IsFiniteSet(1..1) /\ Cardinality(1..1) = IF 1 > 1 THEN 0 ELSE 1 - 1 + 1
      /\ IsFiniteSet(2..8) /\ Cardinality(2..8) = IF 2 > 8 THEN 0 ELSE 8 - 2 + 1
  BY <1>1, <1>2, Zenon
<1> QED BY <1>3, <1>4

LEMMA BeforeIs ==
  ASSUME request \in RequestType, NEW k \in 1..Len(Service) + 1
  PROVE  /\ IsFiniteSet(Before(k)) /\ Cardinality(Before(k)) \in 0..7
         /\ k <= Len(Service) =>
              Cardinality(Before(k + 1)) =
                Cardinality(Before(k)) + (IF Asks(k) THEN 1 ELSE 0)
         /\ k <= Len(Service) /\ Service[k].do = "try" =>
              Before(Len(Service) + 1) = Before(k)
<1> DEFINE n == Len(Service)
<1>1. /\ DOMAIN Service = 1..n /\ n \in Nat /\ 1 <= n /\ n <= 9
      /\ \A i \in 1..n : Service[i].do \in Changing => i <= 8 /\ (i = 1 => n = 1)
      /\ \A i, j \in 1..n : i <= j /\ Service[i].do = "try" =>
           Service[j].do \notin Changing
  BY RouteIs DEF TameService
<1>2. \A i \in 1..n : Asks(i) => Service[i].do \in Changing
  BY DEF Asks, Changing
<1> HIDE DEF n
<1>3. Before(k) \subseteq 1..9
  BY <1>1 DEF Before
<1>4. IsFiniteSet(1..9) /\ IsFiniteSet(Before(k))
  BY <1>3, Intervals, FS_Subset
<1>5. Cardinality(Before(k)) \in 0..7
  <2>1. CASE n = 1
    <3>1. Before(k) \subseteq 1..1
      BY <2>1, <1>1 DEF Before
    <3>2. IsFiniteSet(1..1) /\ Cardinality(1..1) = 1
      BY Intervals
    <3> QED BY <3>1, <3>2, FS_Subset, FS_CardinalityType
  <2>2. CASE n # 1
    <3>1. Before(k) \subseteq 2..8
      BY <2>2, <1>1, <1>2 DEF Before
    <3>2. IsFiniteSet(2..8) /\ Cardinality(2..8) = 7
      BY Intervals
    <3> QED BY <3>1, <3>2, FS_Subset, FS_CardinalityType
  <2> QED BY <2>1, <2>2
<1>6. ASSUME k <= n
      PROVE  Cardinality(Before(k + 1)) =
               Cardinality(Before(k)) + (IF Asks(k) THEN 1 ELSE 0)
  <2>1. CASE Asks(k)
    <3>1. Before(k + 1) = Before(k) \cup {k} /\ k \notin Before(k)
      BY <2>1, <1>1, <1>6 DEF Before
    <3> QED BY <3>1, <2>1, <1>4, FS_AddElement
  <2>2. CASE ~Asks(k)
    <3>1. Before(k + 1) = Before(k)
      BY <2>2, <1>1, <1>6 DEF Before
    <3> QED BY <3>1, <2>2, <1>4, FS_CardinalityType
  <2> QED BY <2>1, <2>2
<1>7. ASSUME k <= n, Service[k].do = "try"
      PROVE  Before(n + 1) = Before(k)
  BY <1>1, <1>2, <1>7 DEF Before
<1> QED BY <1>4, <1>5, <1>6, <1>7 DEF n

LEMMA PromisedIs ==
  ASSUME request \in RequestType, body.given = request.body.given
  PROVE  Promised = Cardinality(Before(Len(Service) + 1))
<1> DEFINE A == Steps({"change", "save", "send", "link"})
           B == IF "reset" \in body.given THEN Steps({"changeIf"}) ELSE {}
<1>1. /\ DOMAIN Service = 1..Len(Service) /\ Len(Service) \in Nat
      /\ 1 <= Len(Service) /\ Len(Service) <= 9
  BY RouteIs DEF TameService
<1>2. IsFiniteSet(1..9) /\ IsFiniteSet(A) /\ IsFiniteSet(B)
  <2>1. A \subseteq 1..9 /\ B \subseteq 1..9
    BY <1>1 DEF Steps
  <2> QED BY <2>1, Intervals, FS_Subset
<1>3. Before(Len(Service) + 1) = A \cup B /\ A \cap B = {}
  BY <1>1 DEF Before, Asks, Steps
<1>4. Promised = Cardinality(A) + Cardinality(B)
  BY <1>2, FS_EmptySet, FS_CardinalityType DEF Promised
<1> HIDE DEF A, B
<1>5. Cardinality(A \cup B) =
        Cardinality(A) + Cardinality(B) - Cardinality(A \cap B)
  BY <1>2, FS_Union
<1>6. Cardinality(A \cap B) = 0 /\ Cardinality(A) \in Nat /\ Cardinality(B) \in Nat
  <2>1. A \cap B = {}
    BY <1>3
  <2>2. Cardinality(A) \in Nat
    BY <1>2, FS_CardinalityType
  <2>3. Cardinality(B) \in Nat
    BY <1>2, FS_CardinalityType
  <2> QED BY <2>1, <2>2, <2>3, FS_EmptySet
<1>7. Cardinality(A \cup B) = Cardinality(A) + Cardinality(B)
  BY <1>5, <1>6
<1>8. Cardinality(Before(Len(Service) + 1)) = Cardinality(A \cup B)
  BY <1>3
<1> QED BY <1>4, <1>7, <1>8

LEMMA BodyIs ==
  ASSUME request \in RequestType,
         body = [request.body EXCEPT !.normalised = body.normalised],
         body.normalised \subseteq body.given
  PROVE  /\ body \in BodyType /\ body.form = request.body.form /\ body.given = request.body.given
         /\ body.blank = request.body.blank /\ body.listed = request.body.listed
         /\ body.to = request.body.to /\ body.formatJid = request.body.formatJid
<1>1. request.body \in BodyType
  BY DEF RequestType
<1>2. /\ body.form = request.body.form /\ body.given = request.body.given
      /\ body.blank = request.body.blank /\ body.listed = request.body.listed
      /\ body.to = request.body.to /\ body.formatJid = request.body.formatJid
  BY <1>1 DEF BodyType
<1>3. body.normalised \in SUBSET Field
  BY <1>1, <1>2 DEF BodyType
<1> QED BY <1>1, <1>2, <1>3 DEF BodyType

Serves ==
  \/ EnsureClient \/ AfterStart \/ CheckReady
  \/ ParseAddress \/ ParseGiven \/ TakeTyped \/ NeedField
  \/ Dereference \/ DereferenceBody \/ DereferenceOwn
  \/ Read \/ ReadFails \/ NoVotes \/ TryCall \/ TryAgain
  \/ ChangeWorks \/ ChangeFails \/ ChangeLost \/ SendPanics
  \/ LinkGroup \/ Succeed

(* What a step of a service comes to.                                      *)
GoesOn ==
  /\ step <= Len(Service) /\ at' = "serve" /\ step' = step + 1
  /\ UNCHANGED <<request, body, answer>>
  /\ \/ ~Asks(step) /\ UNCHANGED <<changes, failed, lost>>
     \/ Asks(step) /\ changes' = changes + 1 /\ UNCHANGED <<failed, lost>>
     \/ /\ Service[step].do = "link" /\ failed' = failed \cup {step - 2}
        /\ \/ UNCHANGED <<changes, lost>>
           \/ changes' = changes + 1 /\ lost' = TRUE

Skips ==
  /\ step <= Len(Service) /\ Service[step].do = "try"
  /\ at' = "serve" /\ step' = Len(Service) + 1
  /\ UNCHANGED <<request, body, answer, changes, failed, lost>>

Waits ==
  /\ step <= Len(Service) /\ Service[step].do = "client" /\ at' = "started"
  /\ UNCHANGED <<request, body, answer, step, changes, failed, lost>>

Stops ==
  /\ step <= Len(Service) /\ Service[step].do # "link"
  /\ at' = "done" /\ answer' \in {"refused", "notFound", "error", "panic"}
  /\ UNCHANGED <<request, body, step, failed>>
  /\ \/ UNCHANGED <<changes, lost>>
     \/ Asks(step) /\ changes' = changes + 1 /\ lost' = TRUE

Succeeds ==
  /\ step = Len(Service) + 1 /\ at' = "done" /\ answer' \in {"ok", "created"}
  /\ UNCHANGED <<request, body, step, changes, failed, lost>>

Outcome == GoesOn \/ Skips \/ Waits \/ Stops \/ Succeeds

LEMMA ItemIs ==
  ASSUME request \in RequestType, step \in 1..Len(Service),
         Service[step].do = "link"
  PROVE  Item = step - 2 /\ Item \in 1..2
<1>1. /\ step \in {3, 4} /\ Service[3].do = "link" /\ Service[4].do = "link"
      /\ Len(Service) = 4
      /\ \A i \in 1..4 : Service[i].do = "link" => i \in {3, 4}
  BY RouteIs DEF TameService
<1> DEFINE links == {i \in 1..step : Service[i].do = "link"}
<1>2. Item = Cardinality(links)
  BY DEF Item, Service
<1>3. CASE step = 3
  <2>1. links = {3}
    BY <1>1, <1>3
  <2>2. Cardinality({3}) = 1
    BY FS_Singleton
  <2>3. Item = 1
    BY <1>2, <2>1, <2>2
  <2> QED BY <1>3, <2>3
<1>4. CASE step = 4
  <2>1. links = {3} \cup {4} /\ 4 \notin {3}
    BY <1>1, <1>4
  <2>2. IsFiniteSet({3}) /\ Cardinality({3}) = 1
    BY FS_Singleton
  <2>3. 4 \notin {3}
    OBVIOUS
  <2>4. Cardinality({3} \cup {4}) = Cardinality({3}) + 1
    BY <2>2, <2>3, FS_AddElement, Zenon
  <2> HIDE DEF links
  <2>5. Cardinality(links) = 1 + 1
    BY <2>1, <2>2, <2>4, Zenon
  <2>6. Item = 2
    BY <1>2, <2>5 DEF links
  <2> QED BY <1>4, <2>6
<1> QED BY <1>1, <1>3, <1>4

LEMMA ServesIs ==
  ASSUME Shape, Serves
  PROVE  Outcome /\ at \in Late /\ (at = "started" => AfterStart)
<1>1. /\ step \in 1..10 /\ Len(Service) \in Nat /\ 1 <= Len(Service) /\ Len(Service) <= 9
      /\ Route.handler.failure \in {"error", "refused"}
      /\ \A i \in 1..Len(Service) :
           /\ Service[i].do = "link" =>
                Route.handler.nil /\ Route.handler.wants # {}
           /\ Service[i].do = "changeIf" => Service[i].field = "reset"
  <2>1. request \in RequestType /\ step \in 1..10
    BY DEF Shape, TypeOK
  <2>2. TameService(request.op, Service) /\ FitHandler(request.op, Route)
    BY <2>1, RouteIs
  <2>3. \A i \in 1..Len(Service) : TameStep(request.op, Service[i])
    BY <2>2 DEF TameService
  <2>4. request.op \in Communities => Route.handler.nil /\ Route.handler.wants # {}
    BY <2>2 DEF FitHandler
  <2> QED BY <2>1, <2>2, <2>3, <2>4 DEF TameService, FitHandler, TameStep
<1>2. body.given = request.body.given
  BY BodyIs DEF Shape, TypeOK
<1>3. ASSUME step <= Len(Service), Service[step].do = "link" PROVE Item = step - 2
  BY <1>1, <1>3, ItemIs DEF Shape
<1> USE DEF Service, Outcome
<1>4. CASE EnsureClient
  BY <1>1, <1>4 DEF EnsureClient, Does, Pass, Fail, Answer, GoTo, GoesOn,
     Stops, Waits, Asks, effects, Late
<1>5. CASE AfterStart
  BY <1>1, <1>5 DEF Shape, AfterStart, Pass, Fail, Answer, GoesOn, Stops,
     Asks, effects, Late
<1>6. CASE CheckReady \/ ParseAddress \/ ParseGiven \/ TakeTyped \/ NeedField
  BY <1>1, <1>6 DEF CheckReady, ParseAddress, ParseGiven, TakeTyped,
     NeedField, Does, Pass, Fail, Answer, GoesOn, Stops, Asks, effects, Late
<1>7. CASE Dereference \/ DereferenceOwn
  BY <1>1, <1>7 DEF Dereference, DereferenceOwn, Does, Pass, Fail, Answer,
     GoesOn, Stops, Asks, effects, Late
<1>8. CASE DereferenceBody
  BY <1>1, <1>8 DEF Shape, DereferenceBody, NilBody, Answer, Stops, effects,
     Late
<1>9. CASE Read \/ ReadFails \/ NoVotes
  BY <1>1, <1>2, <1>9 DEF Read, Reads, ReadFails, NoVotes, Does, On, Pass,
     Fail, Answer, GoesOn, Stops, Asks, effects, Late
<1>10. CASE TryCall \/ TryAgain
  BY <1>1, <1>10 DEF TryCall, TryAgain, Does, Pass, GoesOn, Skips, Asks,
     effects, Late
<1>11. CASE ChangeWorks \/ ChangeFails \/ ChangeLost \/ SendPanics
  BY <1>1, <1>2, <1>11 DEF ChangeWorks, ChangeFails, ChangeLost, SendPanics,
     Changes, Does, On, Pass, Fail, Answer, GoesOn, Stops, Asks, effects, Late
<1>12. CASE LinkGroup
  BY <1>1, <1>3, <1>12 DEF LinkGroup, Linked, Does, Pass, GoesOn, Asks,
     effects, Late
<1>13. CASE Succeed
  BY <1>1, <1>13 DEF Shape, Succeed, Answer, Succeeds, effects, Late
<1> QED
  BY <1>4, <1>5, <1>6, <1>7, <1>8, <1>9, <1>10, <1>11, <1>12, <1>13 DEF Serves

(***************************************************************************)
(* The invariant of what has been changed: as long as no answer was lost,  *)
(* each change that the steps so far ask for was made or is listed as      *)
(* failed.                                                                 *)
Tally ==
  /\ at # "done" => changes <= Cardinality(Before(step))
  /\ at # "done" /\ ~lost =>
       changes + Cardinality(failed) = Cardinality(Before(step))
  /\ AnswerIsTrue

(* All that the steps before one that may fail have changed is nothing,    *)
(* unless the operation is one of those that have parts.                   *)
LEMMA NothingBefore ==
  ASSUME request \in RequestType, step \in 1..Len(Service),
         Service[step].do # "link",
         request.op \notin PartOf
  PROVE  Cardinality(Before(step)) = 0
<1>1. DOMAIN Service = 1..Len(Service)
      /\ \A i, j \in 1..Len(Service) : i < j /\ Service[i].do \in Changing =>
           Service[j].do = "link"
  BY RouteIs DEF TameService
<1>2. Before(step) = {}
  BY <1>1 DEF Before, Asks, Changing
<1> QED BY <1>2, FS_EmptySet

LEMMA ServesKeepsTally ==
  ASSUME Shape, Tally, Serves
  PROVE  Tally'
<1>1. /\ Outcome /\ at \in Late /\ request \in RequestType
      /\ step \in 1..Len(Service) + 1
  BY ServesIs DEF Shape, TypeOK
<1>2. /\ changes \in Nat /\ failed \in SUBSET (1..2) /\ lost \in BOOLEAN
      /\ Len(Service) \in Nat /\ 1 <= Len(Service) /\ Len(Service) <= 9
      /\ IsFiniteSet(failed) /\ Cardinality(failed) \in Nat
  <2>1. /\ changes \in Nat /\ failed \in SUBSET (1..2) /\ lost \in BOOLEAN
        /\ Len(Service) \in Nat /\ 1 <= Len(Service) /\ Len(Service) <= 9
    <3>1. Len(Service) \in Nat /\ 1 <= Len(Service) /\ Len(Service) <= 9
      BY <1>1, RouteIs DEF TameService
    <3> QED BY <3>1 DEF Shape, TypeOK
  <2>2. IsFiniteSet(failed)
    BY <2>1, Intervals, FS_Subset
  <2> QED BY <2>1, <2>2, FS_CardinalityType
<1>3. /\ changes <= Cardinality(Before(step))
      /\ ~lost => changes + Cardinality(failed) = Cardinality(Before(step))
      /\ at # "done"
  BY <1>1 DEF Tally, Late
<1>4. UNCHANGED <<request, body>>
  BY <1>1 DEF Outcome, GoesOn, Skips, Waits, Stops, Succeeds
<1>5. /\ Service' = Service /\ PartOf' = PartOf /\ Promised' = Promised
      /\ (Before(step))' = Before(step')
  BY <1>4 DEF Service, Route, PartOf, Promised, Steps, Before, Asks
<1>6. CASE GoesOn
  <2>1. /\ step <= Len(Service) /\ at' = "serve" /\ step' = step + 1
        /\ Cardinality(Before(step + 1)) =
             Cardinality(Before(step)) + (IF Asks(step) THEN 1 ELSE 0)
        /\ Cardinality(Before(step)) \in Nat
    BY <1>1, <1>6, BeforeIs DEF GoesOn
  <2>2. /\ changes' <= Cardinality(Before(step'))
        /\ (~lost' => changes' + Cardinality(failed') = Cardinality(Before(step')))
    <3>1. CASE ~Asks(step) /\ UNCHANGED <<changes, failed, lost>>
      BY <3>1, <2>1, <1>3
    <3>2. CASE Asks(step) /\ changes' = changes + 1 /\ UNCHANGED <<failed, lost>>
      <4>1. changes' <= Cardinality(Before(step))  + 1
        BY <3>2, <2>1, <1>2, <1>3
      <4>2. ~lost => changes' + Cardinality(failed) = Cardinality(Before(step)) + 1
        BY <3>2, <2>1, <1>2, <1>3
      <4> QED BY <3>2, <4>1, <4>2, <2>1
    <3>3. CASE /\ Service[step].do = "link" /\ failed' = failed \cup {step - 2}
               /\ \/ UNCHANGED <<changes, lost>>
                  \/ changes' = changes + 1 /\ lost' = TRUE
      <4>1. step - 2 \notin failed /\ Asks(step)
        BY <3>3, <1>1 DEF Shape, Asks
      <4>2. Cardinality(failed') = Cardinality(failed) + 1
        BY <3>3, <4>1, <1>2, FS_AddElement
      <4>3. changes' <= Cardinality(Before(step)) + 1
        BY <3>3, <2>1, <1>2, <1>3
      <4>4. ~lost' =>
              changes' + Cardinality(failed') = Cardinality(Before(step)) + 1
        BY <3>3, <4>2, <2>1, <1>2, <1>3
      <4> QED BY <4>1, <4>3, <4>4, <2>1
    <3> QED BY <3>1, <3>2, <3>3, <1>6 DEF GoesOn
  <2>3. AnswerIsTrue'
    BY <2>1 DEF AnswerIsTrue, Told
  <2> QED BY <2>1, <2>2, <2>3, <1>5 DEF Tally
<1>7. CASE Skips
  <2>1. /\ at' = "serve" /\ step' = Len(Service) + 1
        /\ Before(Len(Service) + 1) = Before(step)
        /\ UNCHANGED <<changes, failed, lost>>
    BY <1>1, <1>7, BeforeIs DEF Skips
  <2>2. AnswerIsTrue'
    BY <2>1 DEF AnswerIsTrue, Told
  <2> QED BY <2>1, <2>2, <1>3, <1>5 DEF Tally
<1>8. CASE Waits
  <2>1. at' = "started" /\ UNCHANGED <<step, changes, failed, lost>>
    BY <1>8 DEF Waits
  <2>2. AnswerIsTrue'
    BY <2>1 DEF AnswerIsTrue, Told
  <2> QED BY <2>1, <2>2, <1>3, <1>5 DEF Tally
<1>9. CASE Stops
  <2>1. /\ at' = "done" /\ answer' \notin {"ok", "created"} /\ request' = request
        /\ (UNCHANGED <<changes, lost>>) \/ lost' = TRUE
        /\ step <= Len(Service) /\ Service[step].do # "link"
    BY <1>9 DEF Stops
  <2>2. ASSUME ~lost', request.op \notin PartOf PROVE changes' = 0
    <3>1. Cardinality(Before(step)) = 0
      BY <2>1, <2>2, <1>1, NothingBefore
    <3> QED BY <3>1, <2>1, <2>2, <1>2, <1>3
  <2>3. AnswerIsTrue'
    BY <2>1, <2>2, <1>5 DEF AnswerIsTrue, Told
  <2> QED BY <2>1, <2>3 DEF Tally
<1>10. CASE Succeeds
  <2>1. /\ at' = "done" /\ answer' \in {"ok", "created"}
        /\ UNCHANGED <<changes, failed, lost>>
        /\ step = Len(Service) + 1
    BY <1>10 DEF Succeeds
  <2>2. ~lost => changes + Cardinality(failed) = Promised
    BY <2>1, <1>1, <1>3, BodyIs, PromisedIs DEF Shape, TypeOK
  <2>3. AnswerIsTrue'
    BY <2>1, <2>2, <1>5 DEF AnswerIsTrue, Told
  <2> QED BY <2>1, <2>3 DEF Tally
<1> QED BY <1>1, <1>6, <1>7, <1>8, <1>9, <1>10 DEF Outcome

LEMMA ServesKeepsClient ==
  ASSUME Shape, Serves
  PROVE  /\ conn' = conn /\ starting' \in BOOLEAN /\ held' \in {"none", "current", "gone", "loggedOut"}
         /\ trouble' \in BOOLEAN /\ success' \in SUBSET (1..2)
<1>1. /\ starting \in BOOLEAN /\ held \in {"none", "current", "gone", "loggedOut"}
      /\ trouble \in BOOLEAN /\ success \in SUBSET (1..2)
      /\ failed \in SUBSET (1..2)
  BY DEF Shape, TypeOK
<1>2. CASE EnsureClient \/ AfterStart
  BY <1>1, <1>2 DEF EnsureClient, AfterStart, effects
<1>3. CASE CheckReady \/ ParseAddress \/ ParseGiven \/ TakeTyped \/ NeedField \/ Dereference
             \/ DereferenceOwn \/ DereferenceBody
  BY <1>1, <1>3 DEF CheckReady, ParseAddress, ParseGiven, TakeTyped,
     NeedField, Dereference, DereferenceOwn, DereferenceBody, client, effects
<1>4. CASE Read \/ ReadFails \/ NoVotes \/ TryCall \/ TryAgain
  BY <1>1, <1>4 DEF Read, ReadFails, NoVotes, TryCall, TryAgain, client, effects
<1>5. CASE ChangeWorks \/ ChangeFails \/ ChangeLost \/ SendPanics \/ Succeed
  BY <1>1, <1>5 DEF ChangeWorks, ChangeFails, ChangeLost, SendPanics, Succeed,
     client, effects
<1>6. CASE LinkGroup
  <2>1. /\ step \in 1..Len(Service) /\ Service[step].do = "link"
        /\ request \in RequestType
    BY <1>6 DEF Shape, TypeOK, LinkGroup, Does, Service
  <2>2. Item \in 1..2
    BY <2>1, ItemIs
  <2>3. success' \in SUBSET (1..2)
    BY <1>1, <1>6, <2>2 DEF LinkGroup, Linked
  <2> QED BY <1>1, <1>6, <2>3 DEF LinkGroup, client
<1> QED BY <1>2, <1>3, <1>4, <1>5, <1>6 DEF Serves

LEMMA ServesKeepsShape ==
  ASSUME Shape, Tally, Serves
  PROVE  Shape'
<1>1. /\ Outcome /\ at \in Late /\ request \in RequestType /\ step \in 1..Len(Service) + 1
      /\ Len(Service) \in Nat /\ 1 <= Len(Service) /\ Len(Service) <= 9
      /\ answer = "none"
  <2>1. /\ Len(Service) \in Nat /\ 1 <= Len(Service) /\ Len(Service) <= 9
        /\ DOMAIN Service = 1..Len(Service)
    BY RouteIs DEF Shape, TameService
  <2>2. /\ request \in RequestType /\ step \in 1..10
        /\ step <= Len(Service) + 1 /\ (answer = "none" <=> at # "done")
    BY DEF Shape, TypeOK
  <2>3. Outcome /\ at \in Late
    BY ServesIs
  <2> QED BY <2>1, <2>2, <2>3 DEF Late
<1>2. /\ UNCHANGED <<request, body>> /\ Service' = Service /\ Route' = Route
  BY <1>1 DEF Outcome, GoesOn, Skips, Waits, Stops, Succeeds, Service, Route
<1>3. /\ body = [request.body EXCEPT !.normalised = body.normalised]
      /\ body.normalised \subseteq body.given
  BY DEF Shape, TypeOK
<1>4. changes' \in 0..7
  <2>1. changes \in 0..7 /\ changes <= Cardinality(Before(step))
    BY <1>1 DEF Shape, TypeOK, Tally, Late
  <2>2. \/ changes' = changes
        \/ (changes' = changes + 1 /\ step <= Len(Service) /\ Asks(step))
    BY <1>1 DEF Outcome, GoesOn, Skips, Waits, Stops, Succeeds, Asks
  <2>3. ASSUME step <= Len(Service), Asks(step)
        PROVE  Cardinality(Before(step)) + 1 <= 7
    <3>1. step + 1 \in 1..Len(Service) + 1
      BY <1>1, <2>3
    <3>2. /\ Cardinality(Before(step + 1)) \in 0..7
          /\ Cardinality(Before(step)) \in 0..7
      BY <3>1, <1>1, BeforeIs
    <3>3. Cardinality(Before(step + 1)) = Cardinality(Before(step)) + 1
      BY <1>1, <2>3, BeforeIs
    <3> QED BY <3>2, <3>3
  <2>4. Cardinality(Before(step)) \in 0..7
    BY <1>1, BeforeIs
  <2> QED BY <2>1, <2>2, <2>3, <2>4
<1>5. /\ failed' \in SUBSET (1..2) /\ lost' \in BOOLEAN /\ \A x \in failed' : x + 2 < step'
  <2>1. failed \in SUBSET (1..2) /\ lost \in BOOLEAN /\ \A x \in failed : x + 2 < step
    BY DEF Shape, TypeOK
  <2>2. CASE UNCHANGED failed
    <3>1. /\ (lost' = lost \/ lost' = TRUE)
          /\ step' \in {step, step + 1, Len(Service) + 1}
      BY <1>1 DEF Outcome, GoesOn, Skips, Waits, Stops, Succeeds
    <3>2. lost' \in BOOLEAN
      BY <3>1, <2>1
    <3>3. step' >= step /\ step' \in Nat /\ step \in Nat
      BY <3>1, <1>1
    <3>4. \A x \in failed : x \in Nat /\ x + 2 < step
      BY <2>1
    <3>5. \A x \in failed : x + 2 < step'
      BY <3>3, <3>4
    <3> QED BY <3>2, <3>5, <2>1, <2>2
  <2>3. CASE failed' # failed
    <3>1. /\ step <= Len(Service) /\ Service[step].do = "link" /\ step' = step + 1
          /\ failed' = failed \cup {step - 2} /\ (lost' = lost \/ lost' = TRUE)
      BY <1>1, <2>3 DEF Outcome, GoesOn, Skips, Waits, Stops, Succeeds
    <3>2. step \in {3, 4}
      BY <3>1, <1>1, RouteIs DEF TameService
    <3>3. failed' \in SUBSET (1..2) /\ \A x \in failed' : x + 2 < step'
      BY <3>1, <3>2, <2>1
    <3> QED BY <3>1, <3>3, <2>1
  <2> QED BY <2>2, <2>3
<1>6. /\ at' \in {"serve", "started", "done"} /\ step' \in 1..Len(Service) + 1
      /\ answer' \in
           {"none", "ok", "created", "refused", "notFound", "error", "panic"}
      /\ (answer' = "none" <=> at' # "done")
      /\ (at' = "started" => step' <= Len(Service) /\ Service[step'].do = "client")
  BY <1>1 DEF Outcome, GoesOn, Skips, Waits, Stops, Succeeds
<1>7. TypeOK'
  <2>1. /\ body' = [request'.body EXCEPT !.normalised = body'.normalised]
        /\ body'.normalised \subseteq body'.given
    BY <1>2, <1>3
  <2>2. /\ at' \in {"key", "check", "handle", "serve", "started", "done"}
        /\ step' \in 1..10
        /\ answer' \in
             {"none", "ok", "created", "refused", "unauthorized", "notFound", "error", "panic"}
    BY <1>1, <1>6
  <2>3. /\ conn' \in {"none", "down", "pairing", "up"} /\ starting' \in BOOLEAN
        /\ held' \in {"none", "current", "gone", "loggedOut"}
        /\ trouble' \in BOOLEAN /\ success' \subseteq 1..2
    BY ServesKeepsClient DEF Shape, TypeOK
  <2> QED BY <1>4, <1>5, <2>1, <2>2, <2>3 DEF TypeOK
<1>8. at' \in Late /\ body'.form = "null" /\ (Route.handler.nil)' =>
        (Route.handler.wants)' = {}
  BY <1>1, <1>2 DEF Shape
<1>9. request'.op # "UpdateParticipant"
  BY <1>1, <1>2 DEF Shape
<1> QED BY <1>1, <1>2, <1>5, <1>6, <1>7, <1>8, <1>9 DEF Shape, Early

LEMMA CheckedIs ==
  ASSUME NEW b \in BodyType, b = body, NEW check, check.name \in CheckNames
  PROVE  \/ Checked(check) = Refused \/ Checked(check) = body
         \/ \E F \in SUBSET b.given :
              Checked(check) = [b EXCEPT !.normalised = @ \cup F]
<1> DEFINE Fine(c) == \/ c = Refused \/ c = b
                     \/ \E F \in SUBSET b.given :
                          c = [b EXCEPT !.normalised = @ \cup F]
<1>1. Fine(Refused) /\ Fine(b)
  OBVIOUS
<1>2. \A fields : Fine(Rewrite(b, fields))
  BY DEF Rewrite
<1>3. \A c : Fine(c) => Fine(OfJSON(b, c))
  BY DEF OfJSON
<1>4. \A fields : Fine(ValidateFormFields(b, fields))
  BY DEF ValidateFormFields
<1> SUFFICES Fine(Checked(check))
  OBVIOUS
<1> HIDE DEF Fine
<1>5. \A fields : Fine(ValidateJIDFields(b, fields))
  BY <1>1, <1>2, <1>3, <1>4 DEF ValidateJIDFields
<1>6. Fine(ValidateNumberField(b))
  BY <1>1, <1>2, <1>3, <1>4 DEF ValidateNumberField
<1>7. \A field : Fine(ValidateMultipleNumbers(b, field))
  BY <1>1, <1>2, <1>3 DEF ValidateMultipleNumbers
<1>8. Fine(ValidateNumberFieldWithFormatJid(b))
  BY <1>1, <1>2, <1>3 DEF ValidateNumberFieldWithFormatJid
<1>9. Fine(ValidateContactFields(b))
  BY <1>1, <1>2, <1>3 DEF ValidateContactFields
<1> QED BY <1>1, <1>5, <1>6, <1>7, <1>8, <1>9 DEF Checked, CheckNames

LEMMA BodyStays ==
  ASSUME Shape, Validate, at' = "handle"
  PROVE  /\ body' = [request.body EXCEPT !.normalised = body'.normalised]
         /\ body'.normalised \subseteq body'.given
<1>1. /\ body \in BodyType /\ request.body \in BodyType
      /\ Route.check.name \in CheckNames
  BY BodyIs, RouteIs DEF Shape, TypeOK, FitHandler, RequestType
<1>2. body' = Checked(Route.check) /\ body' # Refused
  BY DEF Validate, GoTo, Answer
<1>3. /\ body = [request.body EXCEPT !.normalised = body.normalised]
      /\ body.normalised \subseteq body.given
  BY DEF Shape, TypeOK
<1>4. CASE body' = body
  BY <1>3, <1>4
<1>5. CASE \E F \in SUBSET body.given :
             body' = [body EXCEPT !.normalised = @ \cup F]
  <2>1. PICK F \in SUBSET body.given : body' = [body EXCEPT !.normalised = @ \cup F]
    BY <1>5
  <2>2. body'.normalised = body.normalised \cup F /\ body'.given = body.given
    BY <1>1, <2>1 DEF BodyType
  <2>3. body' = [request.body EXCEPT !.normalised = body.normalised \cup F]
    BY <1>1, <1>3, <2>1 DEF BodyType
  <2> QED BY <1>3, <2>1, <2>2, <2>3
<1> QED BY <1>1, <1>2, <1>4, <1>5, CheckedIs

(* What the authentication, the middleware and the handler may do.         *)
LEMMA HandleIs ==
  ASSUME Handle
  PROVE  /\ at = "handle" /\ UNCHANGED <<request, body, step, client, effects, reached, trouble>>
         /\ \/ Bind(Route.handler) = "serve" /\ at' = "serve" /\ UNCHANGED answer
            \/ Bind(Route.handler) = "refuse" /\ at' = "done" /\ answer' = "refused"
            \/ Bind(Route.handler) = "panic" /\ at' = "done" /\ answer' = "panic"
<1>1. Bind(Route.handler) \in {"serve", "refuse", "panic"}
  BY DEF Bind
<1>2. /\ Bind(Route.handler) = "serve" => GoTo("serve") /\ UNCHANGED body
      /\ Bind(Route.handler) = "refuse" => Answer("refused")
      /\ Bind(Route.handler) = "panic" => Answer("panic")
  BY <1>1 DEF Handle
<1> QED BY <1>1, <1>2 DEF Handle, GoTo, Answer

LEMMA ValidateIs ==
  ASSUME Validate
  PROVE  /\ at = "check" /\ UNCHANGED <<request, step, client, effects, reached, trouble>>
         /\ \/ /\ Checked(Route.check) # Refused /\ at' = "handle" /\ UNCHANGED answer
               /\ body' = Checked(Route.check)
            \/ /\ Checked(Route.check) = Refused /\ at' = "done" /\ answer' = "refused"
               /\ UNCHANGED body
BY DEF Validate, GoTo, Answer

LEMMA AuthenticateIs ==
  ASSUME Authenticate
  PROVE  /\ at = "key" /\ UNCHANGED <<request, body, step, client, effects, reached, trouble>>
         /\ \/ request.key = Route.auth /\ at' = "check" /\ UNCHANGED answer
            \/ request.key # Route.auth /\ at' = "done" /\ answer' = "unauthorized"
BY DEF Authenticate, GoTo, Answer

(* A list of participants gets past neither the middleware nor the handler *)
(* of UpdateParticipant (routes.go:211).                                   *)
LEMMA ParticipantsAreRefused ==
  ASSUME Shape, request.op = "UpdateParticipant"
  PROVE  /\ Validate /\ at' = "handle" =>
              /\ body'.form # "broken"
              /\ body'.form = "json" =>
                   "participants" \notin body'.given \cap body'.listed
         /\ Handle => at' # "serve"
<1>1. /\ Route.handler.body /\ Route.handler.nil /\ Route.handler.form = {}
      /\ "participants" \in Route.handler.wants \cap Route.handler.lists
      /\ Route.check.name = "jids" /\ "participants" \in Route.check.fields
  BY RouteIs DEF Shape, FitHandler
<1>2. body \in BodyType
  BY BodyIs DEF Shape, TypeOK
<1>3. ASSUME Validate, at' = "handle"
      PROVE  /\ body'.form # "broken"
             /\ body'.form = "json" =>
                  "participants" \notin body'.given \cap body'.listed
  <2>1. body' = ValidateJIDFields(body, Route.check.fields) /\ body' # Refused
    BY <1>1, <1>3 DEF Validate, GoTo, Answer, Checked
  <2>2. body.form # "broken"
    BY <2>1 DEF ValidateJIDFields, OfJSON
  <2>3. body.form = "json" => "participants" \notin body.given \cap body.listed
    BY <1>1, <2>1 DEF ValidateJIDFields, OfJSON
  <2>4. /\ body'.form = body.form /\ body'.given = body.given
        /\ body'.listed = body.listed
    BY <1>2, <1>3, BodyStays, BodyIs DEF Shape, TypeOK, BodyType
  <2> QED BY <2>2, <2>3, <2>4
<1>4. ASSUME Handle PROVE at' # "serve"
  <2>1. at = "handle" /\ (at' = "serve" => Bind(Route.handler) = "serve")
    BY <1>4, HandleIs
  <2>2. /\ body.form # "broken" /\ body.form \in {"json", "null", "broken", "multipart"}
        /\ body.form = "json" => "participants" \notin body.given \cap body.listed
    BY <1>2, <2>1 DEF Shape, BodyType
  <2>3. Bind(Route.handler) # "serve"
    BY <1>1, <2>2 DEF Bind, Unbound
  <2> QED BY <2>1, <2>3
<1> QED BY <1>3, <1>4

LEMMA EarlyKeeps ==
  ASSUME Shape, Authenticate \/ Validate \/ Handle
  PROVE  Shape' /\ Tally'
<1>1. /\ at \in Early /\ request' = request /\ step = 1 /\ step' = 1
      /\ changes = 0 /\ failed = {}
      /\ reached = Invalid /\ held = "none" /\ ~starting /\ ~lost /\ answer = "none"
      /\ UNCHANGED <<conn, starting, held, changes, failed, success, lost, reached, trouble>>
  BY AuthenticateIs, ValidateIs, HandleIs DEF client, effects, Shape, Early
<1>2. /\ at' \in {"check", "handle", "serve", "done"}
      /\ answer' \in {"none", "unauthorized", "refused", "panic"}
      /\ (answer' = "none" <=> at' # "done")
  BY <1>1, AuthenticateIs, ValidateIs, HandleIs
<1>3. Service' = Service /\ Route' = Route
  BY <1>1 DEF Service, Route
<1>4. /\ body' = [request.body EXCEPT !.normalised = body'.normalised]
      /\ body'.normalised \subseteq body'.given
  <2>1. CASE body' = body
    BY <2>1 DEF Shape, TypeOK
  <2>2. CASE Validate /\ at' = "handle"
    BY <2>2, BodyStays
  <2> QED BY <2>1, <2>2, AuthenticateIs, ValidateIs, HandleIs
<1>5. TypeOK'
  BY <1>1, <1>2, <1>4 DEF Shape, TypeOK
<1>6. at' \in Late /\ body'.form = "null" /\ (Route.handler.nil)' =>
        (Route.handler.wants)' = {}
  <2>1. ASSUME at' = "serve"
        PROVE  body.form = "null" /\ Route.handler.nil => Route.handler.wants = {}
    <3>1. Handle /\ Bind(Route.handler) = "serve"
      BY <2>1, AuthenticateIs, ValidateIs, HandleIs
    <3>2. Route.handler.nil => Route.handler.body
      BY RouteIs DEF Shape, FitHandler
    <3> QED BY <3>1, <3>2 DEF Bind
  <2>2. at' = "serve" => body' = body
    BY AuthenticateIs, ValidateIs, HandleIs
  <2> QED BY <1>2, <1>3, <2>1, <2>2 DEF Late
<1>7. request.op = "UpdateParticipant" =>
        /\ at' \notin Late
        /\ at' = "handle" => /\ body'.form # "broken"
                             /\ body'.form = "json" =>
                                  "participants" \notin body'.given \cap body'.listed
  <2>1. (at' = "serve" => Handle) /\ (at' = "handle" => Validate)
    BY AuthenticateIs, ValidateIs, HandleIs
  <2> QED BY <1>2, <2>1, ParticipantsAreRefused DEF Late
<1>8. (Len(Service) \in Nat /\ 1 <= Len(Service)) /\ request \in RequestType
  BY RouteIs DEF Shape, TameService
<1>9. Shape'
  BY <1>1, <1>2, <1>3, <1>5, <1>6, <1>7, <1>8 DEF Shape, Early
<1>10. Tally'
  <2>1. (Before(step))' = {}
    BY <1>1, <1>8, <1>3, RouteIs DEF Before, TameService
  <2>2. AnswerIsTrue'
    BY <1>1, <1>2 DEF AnswerIsTrue, Told
  <2> QED BY <1>1, <2>1, <2>2, FS_EmptySet DEF Tally
<1> QED BY <1>9, <1>10

LEMMA EnvironmentKeeps ==
  ASSUME Shape, Tally, Environment
  PROVE  Shape' /\ Tally'
<1>1. /\ at \in Late
      /\ UNCHANGED <<request, body, at, step, changes, failed, success, lost, reached, answer>>
  BY DEF Environment, Register, StartFails, Flap, Unregister, Serving, Late,
     effects
<1>2. /\ conn' \in {"none", "down", "pairing", "up"} /\ starting' \in BOOLEAN
      /\ held' \in {"none", "current", "gone", "loggedOut"} /\ trouble' \in BOOLEAN
  BY DEF Environment, Register, StartFails, Flap, Unregister, Gone, Shape,
     TypeOK
<1>3. TypeOK'
  BY <1>1, <1>2 DEF Shape, TypeOK
<1>4. Shape'
  BY <1>1, <1>3 DEF Shape, Service, Route, Late, Early
<1>5. Tally'
  BY <1>1 DEF Tally, AnswerIsTrue, Told, Promised, Steps, Service, Route,
     PartOf, Before, Asks
<1> QED BY <1>4, <1>5

LEMMA StepKeepsRequest ==
  ASSUME Shape, [Next]_vars
  PROVE  request' = request
<1>1. CASE Serves
  BY <1>1, ServesIs DEF Outcome, GoesOn, Skips, Waits, Stops, Succeeds
<1>2. CASE Authenticate \/ Validate \/ Handle
  BY <1>2, AuthenticateIs, ValidateIs, HandleIs
<1>3. CASE Environment \/ UNCHANGED vars
  BY <1>3 DEF Environment, Register, StartFails, Flap, Unregister, vars
<1> QED BY <1>1, <1>2, <1>3 DEF Next, Program, Serves, Finished

------------------------------------------------------------------------------
(***************************************************************************)
(* The panics.                                                             *)
(***************************************************************************)

LEMMA ServesKeepsPanic ==
  ASSUME Shape, Serves
  PROVE  PanicIsKnown'
<1>1. /\ UNCHANGED <<request, body>> /\ request \in RequestType
      /\ step \in Nat /\ 1 <= step
      /\ (answer' = "panic" => step <= Len(Service))
  <2>1. request \in RequestType /\ step \in 1..10
    BY DEF Shape, TypeOK
  <2>2. Outcome /\ answer = "none"
    BY ServesIs DEF Shape, Late
  <2>3. UNCHANGED <<request, body>> /\ (answer' = "panic" => step <= Len(Service))
    BY <2>2 DEF Outcome, GoesOn, Skips, Waits, Stops, Succeeds
  <2> QED BY <2>1, <2>3
<1>2. /\ Len(Service) \in Nat /\ Route.handler.failure # "panic"
      /\ \A i \in 1..Len(Service) :
           /\ Service[i].do = "own" => request.op \in {"React", "GetMyGroups"}
           /\ Service[i].do = "deref" => request.op = "HistorySyncRequest"
           /\ Service[i].do = "send" => request.op \in DOMAIN SendRoutes
  BY <1>1, RouteIs DEF TameService, TameStep, FitHandler
<1>3. ASSUME answer' = "panic"
      PROVE  \/ Does("deref") \/ (Does("own") /\ held' = "loggedOut")
             \/ Does("send") \/ body.form = "null"
  <2>1. answer # "panic"
    BY ServesIs DEF Shape, Late
  <2>2. CASE EnsureClient \/ AfterStart \/ CheckReady \/ ParseAddress \/ ParseGiven \/ TakeTyped
             \/ NeedField \/ Read \/ ReadFails \/ NoVotes \/ TryCall \/ TryAgain
    BY <1>2, <1>3, <2>1, <2>2 DEF EnsureClient, AfterStart, CheckReady,
       ParseAddress, ParseGiven, TakeTyped, NeedField, Read, ReadFails,
       NoVotes, TryCall, TryAgain, Pass, Fail, Answer, GoTo
  <2>3. CASE Dereference \/ DereferenceOwn \/ DereferenceBody \/ SendPanics
    BY <1>3, <2>1, <2>3 DEF Dereference, DereferenceOwn, DereferenceBody,
       SendPanics, NilBody, Pass, client
  <2>4. CASE ChangeWorks \/ ChangeFails \/ ChangeLost \/ LinkGroup \/ Succeed
    BY <1>2, <1>3, <2>1, <2>4 DEF ChangeWorks, ChangeFails, ChangeLost,
       LinkGroup, Succeed, Pass, Fail, Answer
  <2> QED BY <2>2, <2>3, <2>4 DEF Serves
<1>4. ASSUME answer' = "panic"
      PROVE  Route.service[step] = Service[step] /\ step \in 1..Len(Service)
  BY <1>1, <1>2, <1>4 DEF Service
<1> QED BY <1>1, <1>2, <1>3, <1>4 DEF PanicIsKnown, Told, Does

LEMMA StepKeepsPanic ==
  ASSUME Shape, PanicIsKnown, [Next]_vars
  PROVE  PanicIsKnown'
<1>1. CASE Authenticate \/ Validate \/ Handle
  <2>1. CASE Handle
    <3>1. Bind(Route.handler) = "panic" => body.form = "null"
      BY DEF Bind
    <3> QED BY <2>1, <3>1, HandleIs DEF PanicIsKnown, Told
  <2>2. CASE Authenticate \/ Validate
    BY <2>2, AuthenticateIs, ValidateIs DEF PanicIsKnown, Told
  <2> QED BY <1>1, <2>1, <2>2
<1>2. CASE Serves
  BY <1>2, ServesKeepsPanic
<1>3. CASE Environment
  BY <1>3 DEF Environment, Register, StartFails, Flap, Unregister, Serving,
     PanicIsKnown, Told
<1>4. CASE UNCHANGED vars
  BY <1>4 DEF vars, PanicIsKnown, Told
<1> QED BY <1>1, <1>2, <1>3, <1>4 DEF Next, Program, Serves, Finished

LEMMA CreateIsSettled ==
  ASSUME NEW n
  PROVE  CreateJID(CreateJID(n)) = CreateJID(n)
<1>1. CreateJID(n).server # "none"
  BY DEF CreateJID, User, Raw, Invalid
<1> QED BY <1>1 DEF CreateJID

------------------------------------------------------------------------------
(***************************************************************************)
(* The numbers: to format one again changes nothing.                       *)
(***************************************************************************)

LEMMA StartsIs ==
  ASSUME NEW d \in Seq(0..9), NEW a \in 0..9, NEW b \in 0..9
  PROVE  StartsWith(d, <<a, b>>) <=> Len(d) >= 2 /\ d[1] = a /\ d[2] = b
<1>1. Len(d) \in Nat /\ \A i \in 1..Len(d) : d[i] \in 0..9
  OBVIOUS
<1>2. CASE Len(d) < 2
  BY <1>1, <1>2 DEF StartsWith
<1>3. CASE Len(d) >= 2
  <2>1. /\ SubSeq(d, 1, 2) \in Seq(0..9) /\ Len(SubSeq(d, 1, 2)) = 2
        /\ SubSeq(d, 1, 2)[1] = d[1] /\ SubSeq(d, 1, 2)[2] = d[2]
    BY <1>1, <1>3
  <2>2. /\ <<a, b>> \in Seq(0..9) /\ Len(<<a, b>>) = 2 /\ <<a, b>>[1] = a
        /\ <<a, b>>[2] = b
    OBVIOUS
  <2>3. ASSUME d[1] = a, d[2] = b PROVE SubSeq(d, 1, 2) = <<a, b>>
    <3>1. \A i \in 1..2 : SubSeq(d, 1, 2)[i] = <<a, b>>[i]
      BY <2>1, <2>2, <2>3
    <3> QED BY <2>1, <2>2, <3>1, SeqEqual
  <2> QED BY <1>3, <2>1, <2>2, <2>3 DEF StartsWith
<1> QED BY <1>1, <1>2, <1>3

Formatted(d) == FormatBR(FormatMXOrAR(d))

(* What is left of a number of thirteen digits from the k-th on.           *)
LEMMA RestIs ==
  ASSUME NEW d \in Seq(0..9), Len(d) = 13, NEW k \in 2..13
  PROVE  SubSeq(d, k, 13) \in Seq(0..9) /\ Len(SubSeq(d, k, 13)) = 14 - k
<1>1. \A i \in k..13 : d[i] \in 0..9
  <2>1. \A i \in 1..Len(d) : d[i] \in 0..9
    BY ElementOfSeq
  <2>2. \A i \in k..13 : i \in 1..Len(d)
    OBVIOUS
  <2> QED BY <2>1, <2>2, ZenonT(60)
<1> QED BY <1>1, SubSeqProperties

LEMMA FrontIs ==
  ASSUME NEW d \in Seq(0..9), Len(d) = 13
  PROVE  /\ SubSeq(d, 1, 4) \in Seq(0..9) /\ Len(SubSeq(d, 1, 4)) = 4
         /\ SubSeq(d, 1, 4)[2] = d[2]
<1>1. \A i \in 1..4 : d[i] \in 0..9
  <2>1. \A i \in 1..Len(d) : d[i] \in 0..9
    BY ElementOfSeq
  <2> QED BY <2>1
<1> QED BY <1>1, SubSeqProperties

(* Two sequences of digits after another.                                  *)
LEMMA JoinedIs ==
  ASSUME NEW a \in Seq(0..9), NEW b \in Seq(0..9)
  PROVE  /\ a \o b \in Seq(0..9) /\ Len(a \o b) = Len(a) + Len(b)
         /\ \A i \in 1..Len(a) : (a \o b)[i] = a[i]
BY ConcatProperties

LEMMA OfMexico ==
  ASSUME NEW d \in Seq(0..9), Len(d) = 13, StartsWith(d, <<5, 2>>)
  PROVE  /\ FormatMXOrAR(d) \in Seq(0..9) /\ Len(FormatMXOrAR(d)) = 11
         /\ StartsWith(FormatMXOrAR(d), <<5, 2>>)
<1> DEFINE rest == SubSeq(d, 5, 13)
           code == <<5, 2>>
           e == code \o rest
<1>1. 5 \in 2..13 /\ 5 \in 0..9 /\ 2 \in 0..9
  OBVIOUS
<1>2. rest \in Seq(0..9) /\ Len(rest) = 9
  <2>1. rest \in Seq(0..9) /\ Len(rest) = 14 - 5
    BY <1>1, RestIs, Zenon
  <2> QED BY <2>1
<1>3. code \in Seq(0..9) /\ Len(code) = 2 /\ code[1] = 5 /\ code[2] = 2
  OBVIOUS
<1>4. FormatMXOrAR(d) = e
  BY DEF FormatMXOrAR, From
<1> HIDE DEF rest, code
<1>5. e \in Seq(0..9) /\ Len(e) = 11 /\ e[1] = 5 /\ e[2] = 2
  <2>1. /\ e \in Seq(0..9) /\ Len(e) = Len(code) + Len(rest)
        /\ \A i \in 1..Len(code) : e[i] = code[i]
    BY <1>2, <1>3, JoinedIs
  <2> QED BY <1>2, <1>3, <2>1
<1> HIDE DEF e
<1>6. Len(e) >= 2
  BY <1>5
<1>7. StartsWith(e, <<5, 2>>)
  BY <1>1, <1>5, <1>6, StartsIs, Zenon
<1> QED BY <1>4, <1>5, <1>7

LEMMA OfArgentina ==
  ASSUME NEW d \in Seq(0..9), Len(d) = 13, StartsWith(d, <<5, 4>>),
         ~StartsWith(d, <<5, 2>>)
  PROVE  /\ FormatMXOrAR(d) \in Seq(0..9) /\ Len(FormatMXOrAR(d)) = 12
         /\ ~StartsWith(FormatMXOrAR(d), <<5, 2>>)
<1> DEFINE rest == SubSeq(d, 4, 13)
           code == <<5, 4>>
           e == code \o rest
<1>1. 4 \in 2..13 /\ 5 \in 0..9 /\ 2 \in 0..9 /\ 4 # 2
  OBVIOUS
<1>2. rest \in Seq(0..9) /\ Len(rest) = 10
  <2>1. rest \in Seq(0..9) /\ Len(rest) = 14 - 4
    BY <1>1, RestIs, Zenon
  <2> QED BY <2>1
<1>3. code \in Seq(0..9) /\ Len(code) = 2 /\ code[1] = 5 /\ code[2] = 4
  OBVIOUS
<1>4. FormatMXOrAR(d) = e
  BY DEF FormatMXOrAR, From
<1> HIDE DEF rest, code
<1>5. e \in Seq(0..9) /\ Len(e) = 12 /\ e[2] = 4
  <2>1. /\ e \in Seq(0..9) /\ Len(e) = Len(code) + Len(rest)
        /\ \A i \in 1..Len(code) : e[i] = code[i]
    BY <1>2, <1>3, JoinedIs
  <2> QED BY <1>2, <1>3, <2>1
<1> HIDE DEF e
<1>6. StartsWith(e, <<5, 2>>) <=> Len(e) >= 2 /\ e[1] = 5 /\ e[2] = 2
  BY <1>1, <1>5, StartsIs, ZenonT(60)
<1>7. ~StartsWith(e, <<5, 2>>)
  BY <1>5, <1>6
<1> QED BY <1>4, <1>5, <1>7

LEMMA OfBrazil ==
  ASSUME NEW d \in Seq(0..9), Len(d) = 13, StartsWith(d, <<5, 5>>)
  PROVE  /\ RemoveAt(d, 5) \in Seq(0..9) /\ Len(RemoveAt(d, 5)) = 12
         /\ ~StartsWith(RemoveAt(d, 5), <<5, 2>>)
<1> DEFINE front == SubSeq(d, 1, 4)
           rest == SubSeq(d, 6, 13)
           e == front \o rest
<1>1. 6 \in 2..13 /\ 5 \in 0..9 /\ 2 \in 0..9 /\ 5 # 2
  OBVIOUS
<1>2. d[2] = 5
  <2>1. StartsWith(d, <<5, 5>>) <=> Len(d) >= 2 /\ d[1] = 5 /\ d[2] = 5
    BY <1>1, StartsIs, ZenonT(60)
  <2> QED BY <2>1
<1>3. front \in Seq(0..9) /\ Len(front) = 4 /\ front[2] = d[2]
  BY FrontIs
<1>4. rest \in Seq(0..9) /\ Len(rest) = 8
  <2>1. rest \in Seq(0..9) /\ Len(rest) = 14 - 6
    BY <1>1, RestIs, Zenon
  <2> QED BY <2>1
<1>5. RemoveAt(d, 5) = e
  BY DEF RemoveAt
<1> HIDE DEF front, rest
<1>6. e \in Seq(0..9) /\ Len(e) = 12 /\ e[2] = 5
  <2>1. /\ e \in Seq(0..9) /\ Len(e) = Len(front) + Len(rest)
        /\ \A i \in 1..Len(front) : e[i] = front[i]
    BY <1>3, <1>4, JoinedIs
  <2> QED BY SMTT(60), <1>2, <1>3, <1>4, <2>1
<1> HIDE DEF e
<1>7. StartsWith(e, <<5, 2>>) <=> Len(e) >= 2 /\ e[1] = 5 /\ e[2] = 2
  BY <1>1, <1>6, StartsIs, ZenonT(60)
<1>8. ~StartsWith(e, <<5, 2>>)
  BY <1>6, <1>7
<1> QED BY <1>5, <1>6, <1>8

(* Formatting a number again changes nothing, and says how many digits it  *)
(* has taken from it.                                                      *)
LEMMA ShortIs ==
  ASSUME NEW e \in Seq(0..9), Len(e) # 13
  PROVE  Formatted(e) = e
BY DEF Formatted, FormatBR, FormatMXOrAR

LEMMA FormatIsSettled ==
  ASSUME NEW d \in Seq(0..9)
  PROVE  /\ Formatted(d) \in Seq(0..9) /\ Formatted(Formatted(d)) = Formatted(d)
         /\ Len(Formatted(d)) \in Nat /\ Len(Formatted(d)) <= Len(d)
         /\ Formatted(d) = <<>> => d = <<>>
         /\ Len(d) - Len(Formatted(d)) \in
              (IF StartsWith(Formatted(d), <<5, 2>>) THEN {0, 2} ELSE {0, 1})
<1> DEFINE Shorter(e) ==
             /\ e \in Seq(0..9) /\ Formatted(d) = e /\ Formatted(e) = e
             /\ Len(d) = 13 /\ Len(e) \in {11, 12}
             /\ (Len(e) = 11 <=> StartsWith(e, <<5, 2>>))
<1>1. ASSUME NEW e, Shorter(e)
      PROVE  /\ e # <<>> /\ Len(e) \in Nat /\ Len(e) <= Len(d)
             /\ Len(d) - Len(e) \in
                  (IF StartsWith(e, <<5, 2>>) THEN {0, 2} ELSE {0, 1})
  <2>1. Len(<<>>) = 0
    OBVIOUS
  <2>2. /\ Len(d) = 13 /\ Len(e) \in {11, 12}
        /\ (Len(e) = 11 <=> StartsWith(e, <<5, 2>>))
    BY <1>1
  <2>3. e # <<>>
    BY <2>1, <2>2
  <2>4. CASE Len(e) = 11
    BY <2>2, <2>3, <2>4
  <2>5. CASE Len(e) = 12
    BY <2>2, <2>3, <2>5
  <2> QED BY <2>2, <2>4, <2>5
<1>2. CASE Formatted(d) = d
  <2>1. Len(d) \in Nat /\ Len(d) - Len(d) = 0
    OBVIOUS
  <2> QED BY <1>2, <2>1
<1>3. CASE Len(d) = 13 /\ StartsWith(d, <<5, 2>>)
  <2> DEFINE e == FormatMXOrAR(d)
  <2>1. e \in Seq(0..9) /\ Len(e) = 11 /\ StartsWith(e, <<5, 2>>)
    BY <1>3, OfMexico
  <2>2. Formatted(d) = FormatBR(e)
    BY DEF Formatted
  <2> HIDE DEF e
  <2>. Len(e) # 13
    BY <2>1
  <2>3. Formatted(d) = e /\ Formatted(e) = e
    <3>1. FormatBR(e) = e
      BY DEF FormatBR
    <3>2. Formatted(e) = e
      BY <2>1, ShortIs
    <3> QED BY <2>2, <3>1, <3>2
  <2>4. Shorter(e)
    BY <1>3, <2>1, <2>3
  <2> QED BY <1>1, <2>3, <2>4
<1>4. CASE Len(d) = 13 /\ StartsWith(d, <<5, 4>>) /\ ~StartsWith(d, <<5, 2>>)
  <2> DEFINE e == FormatMXOrAR(d)
  <2>1. e \in Seq(0..9) /\ Len(e) = 12 /\ ~StartsWith(e, <<5, 2>>)
    BY <1>4, OfArgentina
  <2>2. Formatted(d) = FormatBR(e)
    BY DEF Formatted
  <2> HIDE DEF e
  <2>. Len(e) # 13
    BY <2>1
  <2>3. Formatted(d) = e /\ Formatted(e) = e
    <3>1. FormatBR(e) = e
      BY DEF FormatBR
    <3>2. Formatted(e) = e
      BY <2>1, ShortIs
    <3> QED BY <2>2, <3>1, <3>2
  <2>4. Shorter(e)
    BY <1>4, <2>1, <2>3
  <2> QED BY <1>1, <2>3, <2>4
<1>5. CASE /\ Len(d) = 13 /\ StartsWith(d, <<5, 5>>) /\ ~StartsWith(d, <<5, 2>>)
           /\ ~StartsWith(d, <<5, 4>>) /\ Formatted(d) # d
  <2> DEFINE e == RemoveAt(d, 5)
  <2>1. e \in Seq(0..9) /\ Len(e) = 12 /\ ~StartsWith(e, <<5, 2>>)
    BY <1>5, OfBrazil
  <2>2. Formatted(d) = e
    BY <1>5 DEF Formatted, FormatBR, FormatMXOrAR
  <2> HIDE DEF e
  <2>. Len(e) # 13
    BY <2>1
  <2>3. Formatted(e) = e
    BY <2>1, ShortIs
  <2>4. Shorter(e)
    BY <1>5, <2>1, <2>2, <2>3
  <2> QED BY <1>1, <2>2, <2>3, <2>4
<1>6. \/ Formatted(d) = d
      \/ /\ Len(d) = 13
         /\ (StartsWith(d, <<5, 2>>) \/ StartsWith(d, <<5, 4>>) \/ StartsWith(d, <<5, 5>>))
  BY DEF Formatted, FormatBR, FormatMXOrAR
<1> HIDE DEF Shorter
<1> QED BY <1>2, <1>3, <1>4, <1>5, <1>6

------------------------------------------------------------------------------
(***************************************************************************)
(* What a request reaches.                                                 *)
(***************************************************************************)

(* An address is an address of its own.                                    *)
LEMMA ParseIsSettled ==
  ASSUME NEW n
  PROVE  ParseJID(CreateJID(n)) = ParseJID(n)
BY CreateIsSettled DEF ParseJID

LEMMA ParseIs ==
  ASSUME NEW n \in NumberType, ParseJID(n) # Invalid
  PROVE  /\ n.server # "none" => ParseJID(n) = n
         /\ n.server = "none" =>
              LET jid == ParseJID(n)
              IN /\ CreateJID(jid) = jid /\ jid.rest = <<>>
                 /\ PrepareNumber(jid, TRUE).digits = jid.digits
                 /\ Len(n.digits) - Len(jid.digits) \in
                      (IF StartsWith(jid.digits, <<5, 2>>) THEN {0, 2} ELSE {0, 1})
<1> DEFINE jid == ParseJID(n)
<1>1. jid = CreateJID(n)
  BY DEF ParseJID
<1>2. CASE n.server # "none"
  BY <1>1, <1>2 DEF CreateJID
<1>3. CASE n.server = "none" /\ Length(n) >= 18
  <2>1. jid = [n EXCEPT !.server = "group", !.plus = FALSE, !.other = 0,
                        !.rest = <<>>]
    BY <1>1, <1>3 DEF CreateJID
  <2>2. jid.server = "group" /\ jid.digits = n.digits /\ jid.rest = <<>>
    BY <2>1 DEF NumberType
  <2>3. CreateJID(jid) = jid
    BY <2>2 DEF CreateJID
  <2>4. PrepareNumber(jid, TRUE) = jid
    BY <2>2, <2>3 DEF PrepareNumber
  <2>5. Len(n.digits) \in Nat /\ Len(n.digits) - Len(n.digits) = 0
    BY DEF NumberType
  <2> QED BY <1>3, <2>2, <2>3, <2>4, <2>5
<1>4. CASE n.server = "none" /\ ~(Length(n) >= 18)
  <2> DEFINE d == n.digits
             e == Formatted(d)
  <2>1. n.digits # <<>> /\ jid = [User(e) EXCEPT !.plus = TRUE]
    BY <1>1, <1>4 DEF CreateJID, Formatted
  <2>2. d \in Seq(0..9) /\ Len(d) \in Nat /\ n.other \in Nat /\ n.hyphen \in BOOLEAN
    BY DEF NumberType
  <2>3. Len(d) < 18
    BY <1>4, <2>2 DEF Length
  <2>4. /\ e \in Seq(0..9) /\ Formatted(e) = e /\ Len(e) \in Nat
        /\ Len(e) <= Len(d) /\ e # <<>>
        /\ Len(d) - Len(e) \in (IF StartsWith(e, <<5, 2>>) THEN {0, 2} ELSE {0, 1})
    BY <2>1, <2>2, FormatIsSettled
  <2> HIDE DEF d, e
  <2>5. jid =
          [server |-> "user", plus |-> TRUE, digits |-> e, hyphen |-> FALSE,
           other |-> 0, rest |-> <<>>]
    BY <2>1 DEF User, Raw
  <2> HIDE DEF jid
  <2> DEFINE bare == [jid EXCEPT !.server = "none"]
  <2>6. /\ bare.server = "none" /\ bare.digits = e /\ bare.hyphen = FALSE
        /\ bare.other = 0
    BY <2>5
  <2> HIDE DEF bare
  <2>7. CreateJID(jid) = jid
    BY <2>5 DEF CreateJID
  <2>8. ~(Length(bare) >= 18)
    BY <2>3, <2>4, <2>6, <2>2 DEF Length
  <2>9. CreateJID(bare) = jid
    <3>1. CreateJID(bare) = [User(FormatBR(FormatMXOrAR(e))) EXCEPT !.plus = TRUE]
      BY <2>4, <2>6, <2>8 DEF CreateJID
    <3>2. FormatBR(FormatMXOrAR(e)) = e
      BY <2>4 DEF Formatted
    <3> QED BY <3>1, <3>2, <2>5 DEF User, Raw
  <2>10. jid # Invalid
    BY <2>5 DEF Invalid
  <2>11. PrepareNumber(jid, TRUE) = bare
    BY <2>5, <2>9, <2>10 DEF PrepareNumber, bare
  <2>12. /\ PrepareNumber(jid, TRUE).digits = jid.digits /\ jid.digits = e
         /\ jid.rest = <<>>
    BY <2>5, <2>6, <2>11
  <2>13. Len(d) - Len(jid.digits) \in
           (IF StartsWith(jid.digits, <<5, 2>>) THEN {0, 2} ELSE {0, 1})
    BY <2>4, <2>12
  <2> HIDE DEF e
  <2> QED BY <1>4, <2>7, <2>12, <2>13 DEF jid, d
<1> QED BY <1>2, <1>3, <1>4

(* What a request reaches is what it was sent with, made an address unless *)
(* its service uses it as it is bound.                                     *)
Reached ==
  \/ reached = Invalid
  \/ Steps({"typed"}) # {} /\ reached = request.body.to
  \/ Steps({"typed"}) = {} /\ reached = ParseJID(request.body.to)

LEMMA ReachedIsSettled ==
  ASSUME Shape, Reached
  PROVE  AddressIsSettled
<1>1. request.body.to \in NumberType
  BY DEF Shape, RequestType, BodyType
<1>2. CASE reached = Invalid
  BY <1>2 DEF AddressIsSettled
<1>3. CASE Steps({"typed"}) # {} /\ reached = request.body.to
  BY <1>3 DEF AddressIsSettled
<1>4. CASE /\ reached # Invalid /\ Steps({"typed"}) = {}
           /\ reached = ParseJID(request.body.to)
  BY <1>1, <1>4, ParseIs DEF AddressIsSettled
<1> QED BY <1>2, <1>3, <1>4 DEF Reached

LEMMA StepKeepsReached ==
  ASSUME Shape, Reached, [Next]_vars
  PROVE  Reached'
<1>1. request' = request
  BY StepKeepsRequest
<1>2. CASE reached' = reached
  BY <1>1, <1>2 DEF Reached, Steps, Service, Route
<1>3. CASE ParseAddress
  <2>1. /\ reached' = reached \/ reached' = ParseJID(Value(body, On))
        /\ step \in Nat /\ 1 <= step /\ step <= Len(Service)
        /\ Service[step].do = "parse" /\ at \in Late
    BY <1>3 DEF ParseAddress, Does, Shape, TypeOK, Service, Late
  <2>2. body.to = request.body.to
    BY BodyIs DEF Shape, TypeOK
  <2>3. ParseJID(Value(body, On)) = ParseJID(request.body.to)
    BY <2>2, ParseIsSettled DEF Value
  <2>4. request.op # "UpdateParticipant" /\ request \in RequestType
    BY <2>1 DEF Shape
  <2>5. Steps({"typed"}) = {}
    BY <2>1, <2>4, RouteIs DEF Steps, TameService
  <2> QED BY <1>1, <1>2, <2>1, <2>3, <2>5 DEF Reached, Steps, Service, Route
<1>4. CASE TakeTyped
  <2>1. /\ reached' = body.to
        /\ step \in Nat /\ 1 <= step /\ step <= Len(Service)
        /\ Service[step].do = "typed"
    BY <1>4 DEF TakeTyped, Does, Shape, TypeOK, Service
  <2>2. body.to = request.body.to /\ request \in RequestType
    BY BodyIs DEF Shape, TypeOK
  <2>3. step \in Steps({"typed"})
    BY <2>1, <2>2, RouteIs DEF Steps, TameService
  <2> QED BY <1>1, <2>1, <2>2, <2>3 DEF Reached, Steps, Service, Route
<1>5. CASE ~ParseAddress /\ ~TakeTyped
  <2>1. CASE Authenticate \/ Validate \/ Handle
    BY <1>2, <2>1, AuthenticateIs, ValidateIs, HandleIs
  <2>2. CASE Environment \/ UNCHANGED vars
    BY <1>2, <2>2 DEF Environment, Register, StartFails, Flap, Unregister, vars
  <2>3. CASE Serves
    <3>1. reached' = reached
      BY <2>3, <1>5 DEF Serves, EnsureClient, AfterStart, CheckReady,
         ParseGiven, NeedField, Dereference, DereferenceBody, DereferenceOwn,
         Read, ReadFails, NoVotes, TryCall, TryAgain, ChangeWorks,
         ChangeFails, ChangeLost, SendPanics, LinkGroup, Succeed
    <3> QED BY <3>1, <1>2
  <2> QED BY <2>1, <2>2, <2>3 DEF Next, Program, Serves, Finished
<1> QED BY <1>3, <1>4, <1>5

------------------------------------------------------------------------------
(***************************************************************************)
(* A complete request is served.                                           *)
(***************************************************************************)

(* What the client looks like while nothing has failed the request.        *)
Calm ==
  /\ starting => conn = "none"
  /\ ~trouble =>
       /\ conn \in {"none", "up"} /\ held \in {"none", "current"}
       /\ held = "current" => conn = "up"
       /\ at = "serve" /\ step > 1 /\ Service[1].do = "client" => held = "current"

Exempt == request.op = "SendLocation" /\ request.body.blank # {}

Smooth ==
  /\ Calm
  /\ at = "done" /\ Complete /\ ~trouble /\ request.op # "UpdateParticipant" =>
       answer \in {"ok", "created"} \/ Exempt

LEMMA StepKeepsCalm ==
  ASSUME Shape, Calm, [Next]_vars
  PROVE  Calm' /\ (~trouble' => ~trouble)
<1>1. /\ trouble \in BOOLEAN /\ step \in Nat /\ 1 <= step
      /\ held \in {"none", "current", "gone", "loggedOut"}
      /\ (at \in Early => held = "none" /\ ~starting)
      /\ (at \in Early => step = 1)
      /\ (at = "started" => Service[step].do = "client")
  BY DEF Shape, TypeOK
<1>2. CASE Authenticate \/ Validate \/ Handle
  BY <1>1, <1>2, AuthenticateIs, ValidateIs, HandleIs DEF Calm, client, Early
<1>3. CASE EnsureClient
  BY <1>1, <1>3 DEF EnsureClient, Does, Pass, Fail, Answer, GoTo, Calm,
     Service, Route
<1>4. CASE AfterStart
  BY <1>1, <1>4 DEF AfterStart, Pass, Fail, Answer, Calm, Service, Route
<1>5. CASE Serves /\ ~EnsureClient /\ ~AfterStart
  <2>1. /\ UNCHANGED <<conn, starting, held>>
        /\ (trouble' = trouble \/ trouble' = TRUE)
    BY <1>5 DEF Serves, CheckReady, ParseAddress, ParseGiven, TakeTyped,
       NeedField, Dereference, DereferenceBody, DereferenceOwn, Read,
       ReadFails, NoVotes, TryCall, TryAgain, ChangeWorks, ChangeFails,
       ChangeLost, SendPanics, LinkGroup, Succeed, client
  <2>2. Outcome /\ at = "serve"
    BY <1>5, ServesIs DEF Late
  <2>3. request' = request
    BY <2>2 DEF Outcome, GoesOn, Skips, Waits, Stops, Succeeds
  <2>4. step = 1 => \/ Service[1].do # "client" \/ at' = "done"
    BY <1>5, <2>2, RouteIs DEF Serves, Shape, TameService, CheckReady,
       ParseAddress, ParseGiven, TakeTyped, NeedField, Dereference,
       DereferenceBody, DereferenceOwn, Read, Reads, ReadFails, NoVotes,
       TryCall, TryAgain, ChangeWorks, ChangeFails, ChangeLost, SendPanics,
       Changes, LinkGroup, Succeed, Does, Service, Answer
  <2> QED BY <1>1, <2>1, <2>2, <2>3, <2>4 DEF Calm, Service, Route
<1>6. CASE Environment
  <2>1. Service' = Service /\ at' = at /\ step' = step
    BY <1>6 DEF Environment, Register, StartFails, Flap, Unregister, Service,
       Route
  <2>2. CASE Register
    BY <1>1, <2>1, <2>2 DEF Register, Gone, Calm
  <2>3. CASE StartFails
    BY <1>1, <2>1, <2>3 DEF StartFails, Calm
  <2>4. CASE Flap
    BY <1>1, <2>1, <2>4 DEF Flap, Calm
  <2>5. CASE Unregister
    BY <1>1, <2>1, <2>5 DEF Unregister, Calm
  <2> QED BY <1>6, <2>2, <2>3, <2>4, <2>5 DEF Environment
<1>7. CASE UNCHANGED vars
  BY <1>1, <1>7 DEF vars, Calm, Service, Route
<1> QED
  BY <1>2, <1>3, <1>4, <1>5, <1>6, <1>7 DEF Next, Program, Serves, Finished

(* A complete request is refused neither by its middleware nor by its      *)
(* handler.                                                                *)
LEMMA ValidIs ==
  ASSUME ParseJID(request.body.to) # Invalid
  PROVE  CreateJID(request.body.to) # Invalid
BY DEF ParseJID, Invalid

LEMMA CompleteIsChecked ==
  ASSUME Shape, Complete, request.op # "UpdateParticipant"
  PROVE  Checked(Route.check) # Refused
<1>1. /\ body \in BodyType /\ body.form = request.body.form
      /\ body.given = request.body.given
      /\ body.blank = request.body.blank /\ body.listed = request.body.listed
      /\ body.to = request.body.to
  BY BodyIs DEF Shape, TypeOK
<1>2. FitHandler(request.op, Route)
  BY RouteIs DEF Shape
<1>3. /\ body.blank \subseteq Coordinates /\ Valid(body)
      /\ body.listed \subseteq Route.handler.lists
      /\ Route.check.name # "none" => \/ body.form = "json"
                                      \/ /\ body.form = "multipart"
                                         /\ Route.check.name = "formatJid"
  BY <1>1, <1>2, ValidIs DEF Complete, Valid, FitHandler
<1>4. "form" \in DOMAIN body /\ body.form # "refused" /\ Refused.form = "refused"
  BY <1>1 DEF BodyType, Refused
<1>5. \A fields : body # Refused /\ Rewrite(body, fields) # Refused
  BY <1>1, <1>4 DEF Rewrite, BodyType
<1>6. "number" \notin Coordinates
  BY DEF Coordinates
<1>7. CASE Route.check.name = "none"
  BY <1>5, <1>7 DEF Checked
<1>8. CASE Route.check.name = "jids"
  <2>1. /\ body.form = "json" /\ Route.check.fields \cap Coordinates = {}
        /\ Route.check.fields \cap Route.handler.lists = {}
    BY <1>2, <1>3, <1>8 DEF FitHandler
  <2> QED BY <1>3, <1>5, <1>8, <2>1 DEF Checked, ValidateJIDFields, OfJSON
<1>9. CASE Route.check.name = "number"
  BY <1>3, <1>5, <1>6, <1>9 DEF Checked, ValidateNumberField, OfJSON
<1>10. CASE Route.check.name = "formatJid"
  BY <1>3, <1>5, <1>6, <1>10 DEF Checked, ValidateNumberFieldWithFormatJid,
     OfJSON
<1>11. CASE Route.check.name = "contact"
  BY <1>3, <1>5, <1>11 DEF Checked, ValidateContactFields, OfJSON
<1>12. CASE Route.check.name = "numbers"
  BY <1>3, <1>5, <1>12 DEF Checked, ValidateMultipleNumbers, OfJSON
<1> QED
  BY <1>2, <1>7, <1>8, <1>9, <1>10, <1>11, <1>12 DEF FitHandler, CheckNames

LEMMA CompleteIsBound ==
  ASSUME Shape, Complete, ~Exempt
  PROVE  Bind(Route.handler) = "serve"
<1>1. /\ body \in BodyType /\ body.form = request.body.form
      /\ body.given = request.body.given
      /\ body.listed = request.body.listed
  BY BodyIs DEF Shape, TypeOK
<1>2. FitHandler(request.op, Route)
  BY RouteIs DEF Shape
<1>3. Given \cap (IF Exempt THEN {} ELSE Route.handler.wants) \subseteq body.given
  BY <1>1, <1>2 DEF Given, Exempt, FitHandler
<1>4. Given \cap Route.handler.form \subseteq body.given
  BY <1>1, <1>2 DEF Given, FitHandler
<1>5. CASE ~Route.handler.body
  BY <1>5 DEF Bind
<1>6. CASE Route.handler.body /\ body.form = "json"
  <2>1. Route.handler.wants \subseteq body.given
    BY <1>1, <1>3, <1>6 DEF Complete
  <2>2. ~Unbound(Route.handler)
    BY <1>1, <1>6 DEF Complete, Unbound, Given
  <2> QED BY <1>6, <2>1, <2>2 DEF Bind
<1>7. CASE Route.handler.body /\ body.form = "multipart"
  BY <1>1, <1>4, <1>7 DEF Complete, Bind
<1> QED BY <1>1, <1>5, <1>6, <1>7 DEF Complete

(* Nor by its service.                                                     *)
LEMMA CompleteIsNotFailed ==
  ASSUME Shape, Calm, Complete, Serves, at' = "done", ~trouble'
  PROVE  answer' \in {"ok", "created"}
<1>1. /\ step \in Nat /\ 1 <= step /\ request.op # "UpdateParticipant" /\ at \in Late
      /\ request \in RequestType /\ body.to = request.body.to
      /\ body.given = request.body.given
      /\ body.form = request.body.form
  BY ServesIs, BodyIs DEF Shape, TypeOK
<1>2. ~trouble /\ (at = "serve" /\ step > 1 /\ Service[1].do = "client" => Usable)
      /\ conn # "down" /\ held # "loggedOut"
  BY StepKeepsCalm DEF Calm, Usable, Next, Program, Serves
<1>3. TameService(request.op, Service) /\ FitHandler(request.op, Route)
  BY <1>1, RouteIs
<1>4. \A f : ParseJID(Value(body, f)) # Invalid
  BY <1>1, ParseIsSettled DEF Complete, Value
<1>5. ASSUME NEW i \in 1..Len(Service), Service[i].do \in {"need", "deref"}
      PROVE  Service[i].field \in body.given
  <2>1. DOMAIN Service = 1..Len(Service) /\ TameStep(request.op, Service[i])
    BY <1>3 DEF TameService
  <2>2. Service[i].field \in Given /\ Service[i].field \notin Coordinates
    BY <1>5, <2>1 DEF Complete, Steps, TameStep, Needs, Coordinates
  <2> QED BY <1>1, <2>2 DEF Given
<1>6. \A f : ~NilBody(f)
  BY <1>1, <1>3 DEF NilBody, Complete, FitHandler
<1>7. CASE EnsureClient \/ AfterStart
  BY <1>2, <1>7 DEF EnsureClient, AfterStart, Pass, Fail, Answer, GoTo
<1>8. CASE CheckReady
  <2>1. at = "serve" /\ step > 1 /\ Service[1].do = "client"
    BY <1>1, <1>3, <1>8 DEF CheckReady, Does, TameService, Service
  <2> QED BY <1>2, <1>8, <2>1 DEF CheckReady, Pass
<1>9. CASE ParseAddress \/ ParseGiven \/ TakeTyped
  BY <1>4, <1>9 DEF ParseAddress, ParseGiven, TakeTyped, Pass
<1>10. CASE NeedField \/ Dereference
  <2>1. step \in 1..Len(Service) /\ Service[step].do \in {"need", "deref"}
    BY <1>1, <1>3, <1>10 DEF NeedField, Dereference, Does, Service, TameService
  <2>2. On \in body.given
    BY <1>5, <2>1 DEF On, Service
  <2> QED BY <1>10, <2>2 DEF NeedField, Dereference, Pass
<1>11. CASE DereferenceBody \/ DereferenceOwn
  BY <1>2, <1>6, <1>11 DEF DereferenceBody, DereferenceOwn, Pass
<1>12. CASE Read \/ ReadFails \/ NoVotes \/ TryCall \/ TryAgain
  BY <1>1, <1>12 DEF Read, ReadFails, NoVotes, TryCall, TryAgain, Pass, Late
<1>13. CASE ChangeWorks \/ ChangeFails \/ ChangeLost \/ SendPanics \/ LinkGroup
  BY <1>13 DEF ChangeWorks, ChangeFails, ChangeLost, SendPanics, LinkGroup, Pass
<1>14. CASE Succeed
  BY <1>14 DEF Succeed, Answer
<1> QED BY <1>7, <1>8, <1>9, <1>10, <1>11, <1>12, <1>13, <1>14 DEF Serves

LEMMA StepKeepsSmooth ==
  ASSUME Shape, Smooth, [Next]_vars
  PROVE  Smooth'
<1>1. Calm' /\ (~trouble' => ~trouble)
  BY StepKeepsCalm DEF Smooth
<1>2. request' = request /\ Complete' = Complete /\ Exempt' = Exempt
  <2>1. request' = request
    BY StepKeepsRequest
  <2> QED BY <2>1 DEF Complete, Exempt, Given, Steps, Service, Route
<1> SUFFICES ASSUME at' = "done", Complete, ~trouble',
                    request.op # "UpdateParticipant", ~Exempt
             PROVE  answer' \in {"ok", "created"}
  BY <1>1, <1>2 DEF Smooth
<1>3. CASE Serves
  BY <1>3, CompleteIsNotFailed DEF Smooth
<1>4. CASE Authenticate
  BY <1>4, AuthenticateIs DEF Complete
<1>5. CASE Validate
  BY <1>5, ValidateIs, CompleteIsChecked
<1>6. CASE Handle
  BY <1>6, HandleIs, CompleteIsBound
<1>7. CASE Environment
  BY <1>7 DEF Environment, Register, StartFails, Flap, Unregister, Serving
<1>8. CASE UNCHANGED vars
  BY <1>1, <1>8 DEF vars, Smooth
<1> QED
  BY <1>3, <1>4, <1>5, <1>6, <1>7, <1>8 DEF Next, Program, Serves, Finished

------------------------------------------------------------------------------
(***************************************************************************)
(* The tools of the MCP server: what each sends is what its route asks for,*)
(* or, for the ones of Misfits, is what its route refuses.                 *)
(***************************************************************************)

LEMMA DomainsAre ==
  /\ DOMAIN InstanceRoutes =
       {"Create", "All", "Info", "Delete", "SetProxy", "DeleteProxy",
        "ForceReconnect", "GetLogs", "Connect", "Status", "Qr", "Pair",
        "Disconnect", "Reconnect", "Logout", "GetAdvancedSettings",
        "UpdateAdvancedSettings"}
  /\ DOMAIN SendRoutes =
       {"SendText", "SendLink", "SendMedia", "SendAlbum", "SendPoll",
        "SendSticker", "SendLocation", "SendContact", "SendButton",
        "SendList", "SendCarousel", "SendStatusText", "SendStatusMedia"}
  /\ DOMAIN UserRoutes =
       {"GetUser", "CheckUser", "GetAvatar", "GetContacts", "GetPrivacy",
        "SetPrivacy", "BlockContact", "UnblockContact", "GetBlockList",
        "SetProfilePicture", "SetProfileName", "SetProfileStatus"}
  /\ DOMAIN WebhookRoutes =
       {"WebhookList", "WebhookCreate", "WebhookUpdate", "WebhookDelete"}
  /\ DOMAIN MessageRoutes =
       {"React", "ChatPresence", "MarkRead", "DownloadMedia",
        "GetMessageStatus", "DeleteMessageEveryone", "EditMessage"}
  /\ DOMAIN ChatRoutes =
       {"ChatPin", "ChatUnpin", "ChatArchive", "ChatUnarchive", "ChatMute",
        "ChatUnmute", "HistorySyncRequest"}
  /\ DOMAIN GroupRoutes =
       {"ListGroups", "GetGroupInfo", "GetGroupInviteLink", "SetGroupPhoto",
        "SetGroupName", "SetGroupDescription", "CreateGroup",
        "UpdateParticipant", "GetMyGroups", "JoinGroupLink", "LeaveGroup"}
  /\ DOMAIN CommunityRoutes =
       {"RejectCall", "CreateCommunity", "CommunityAdd", "CommunityRemove"}
  /\ DOMAIN LabelRoutes =
       {"ChatLabel", "MessageLabel", "EditLabel", "GetLabels", "ChatUnlabel",
        "MessageUnlabel"}
  /\ DOMAIN NewsletterRoutes =
       {"CreateNewsletter", "ListNewsletter", "GetNewsletter",
        "GetNewsletterInvite", "SubscribeNewsletter", "GetNewsletterMessages",
        "GetPollResults"}
BY DEF InstanceRoutes, SendRoutes, UserRoutes, WebhookRoutes, MessageRoutes,
   ChatRoutes, GroupRoutes, CommunityRoutes, LabelRoutes, NewsletterRoutes

LEMMA InstanceRoutesAre ==
  ASSUME NEW op \in DOMAIN InstanceRoutes
  PROVE  op \in DOMAIN Routes /\ Routes[op] = InstanceRoutes[op]
<1>1. op \in DOMAIN Routes
  BY DEF Routes, RouteTables
<1> QED BY <1>1, RoutesAre, DomainsAre

LEMMA SendRoutesAre ==
  ASSUME NEW op \in DOMAIN SendRoutes
  PROVE  op \in DOMAIN Routes /\ Routes[op] = SendRoutes[op]
<1>1. op \in DOMAIN Routes
  BY DEF Routes, RouteTables
<1> QED BY <1>1, RoutesAre, DomainsAre

LEMMA UserRoutesAre ==
  ASSUME NEW op \in DOMAIN UserRoutes
  PROVE  op \in DOMAIN Routes /\ Routes[op] = UserRoutes[op]
<1>1. op \in DOMAIN Routes
  BY DEF Routes, RouteTables
<1> QED BY <1>1, RoutesAre, DomainsAre

LEMMA WebhookRoutesAre ==
  ASSUME NEW op \in DOMAIN WebhookRoutes
  PROVE  op \in DOMAIN Routes /\ Routes[op] = WebhookRoutes[op]
<1>1. op \in DOMAIN Routes
  BY DEF Routes, RouteTables
<1> QED BY <1>1, RoutesAre, DomainsAre

LEMMA MessageRoutesAre ==
  ASSUME NEW op \in DOMAIN MessageRoutes
  PROVE  op \in DOMAIN Routes /\ Routes[op] = MessageRoutes[op]
<1>1. op \in DOMAIN Routes
  BY DEF Routes, RouteTables
<1> QED BY <1>1, RoutesAre, DomainsAre

LEMMA ChatRoutesAre ==
  ASSUME NEW op \in DOMAIN ChatRoutes
  PROVE  op \in DOMAIN Routes /\ Routes[op] = ChatRoutes[op]
<1>1. op \in DOMAIN Routes
  BY DEF Routes, RouteTables
<1> QED BY <1>1, RoutesAre, DomainsAre

LEMMA GroupRoutesAre ==
  ASSUME NEW op \in DOMAIN GroupRoutes
  PROVE  op \in DOMAIN Routes /\ Routes[op] = GroupRoutes[op]
<1>1. op \in DOMAIN Routes
  BY DEF Routes, RouteTables
<1> QED BY <1>1, RoutesAre, DomainsAre

LEMMA CommunityRoutesAre ==
  ASSUME NEW op \in DOMAIN CommunityRoutes
  PROVE  op \in DOMAIN Routes /\ Routes[op] = CommunityRoutes[op]
<1>1. op \in DOMAIN Routes
  BY DEF Routes, RouteTables
<1> QED BY <1>1, RoutesAre, DomainsAre

LEMMA LabelRoutesAre ==
  ASSUME NEW op \in DOMAIN LabelRoutes
  PROVE  op \in DOMAIN Routes /\ Routes[op] = LabelRoutes[op]
<1>1. op \in DOMAIN Routes
  BY DEF Routes, RouteTables
<1> QED BY <1>1, RoutesAre, DomainsAre

LEMMA NewsletterRoutesAre ==
  ASSUME NEW op \in DOMAIN NewsletterRoutes
  PROVE  op \in DOMAIN Routes /\ Routes[op] = NewsletterRoutes[op]
<1>1. op \in DOMAIN Routes
  BY DEF Routes, RouteTables
<1> QED BY <1>1, RoutesAre, DomainsAre

(* What a tool's request must be for its route to serve it, and what makes *)
(* it one that is refused.                                                 *)
FitTool(tool) ==
  /\ tool.op \in DOMAIN Routes /\ tool.op # "UpdateParticipant"
  /\ tool.key = Routes[tool.op].auth /\ tool.blank = {}
  /\ Routes[tool.op].handler.body =>
       Routes[tool.op].handler.wants \subseteq tool.given
  /\ tool.listed = Routes[tool.op].handler.lists \cap tool.given
  /\ Needs(tool.op) \subseteq tool.given

IsTool(tool, op, key, given, listed) ==
  /\ tool.op = op /\ tool.key = key /\ tool.given = given /\ tool.blank = {}
  /\ tool.listed = listed

LEMMA ToolIs ==
  ASSUME NEW op, NEW g, NEW l
  PROVE  /\ IsTool(Tool(op, g), op, "instance", g, {})
         /\ IsTool(AdminTool(op, g), op, "admin", g, {})
         /\ IsTool(Lists(Tool(op, g), l), op, "instance", g, l)
BY DEF IsTool, Tool, AdminTool, Lists

LEMMA KeyedIs ==
  ASSUME NEW check, NEW h, NEW s
  PROVE  /\ Keyed(check, h, s).auth = "instance" /\ Keyed(check, h, s).handler = h
         /\ Admin(h, s).auth = "admin" /\ Admin(h, s).handler = h
<1>1. /\ Keyed(check, h, s).auth = "instance" /\ Keyed(check, h, s).handler = h
      /\ Keyed(None, h, s).handler = h
      /\ DOMAIN Keyed(None, h, s) = {"auth", "check", "handler", "service"}
  BY DEF Keyed
<1> QED BY <1>1 DEF Admin

(* What the lemmas that follow have in common.                             *)
LEMMA FitIsTool ==
  ASSUME NEW op \in DOMAIN Routes, op # "UpdateParticipant", NEW tool, NEW k, NEW g,
         NEW l,
         IsTool(tool, op, k, g, l), NEW h, Routes[op].auth = k,
         Routes[op].handler = h,
         h.body => h.wants \subseteq g, l = h.lists \cap g, Needs(op) \subseteq g
  PROVE  FitTool(tool)
BY DEF FitTool, IsTool

LEMMA ToolWants ==
  ASSUME NEW op \in DOMAIN Routes, NEW g, NEW w, NEW check, NEW s,
         op # "UpdateParticipant",
         Routes[op] = Keyed(check, H!Wants(w), s), w \subseteq g,
         Needs(op) \subseteq g
  PROVE  FitTool(Tool(op, g))
<1>1. Routes[op].auth = "instance" /\ Routes[op].handler = H!Wants(w)
  BY KeyedIs
<1>2. H!Wants(w).wants = w /\ H!Wants(w).lists = {}
  BY WantsIs DEF IsHandler
<1>3. IsTool(Tool(op, g), op, "instance", g, {})
  BY ToolIs
<1> QED BY <1>1, <1>2, <1>3, FitIsTool

LEMMA ToolTyped ==
  ASSUME NEW op \in DOMAIN Routes, NEW g, NEW w, NEW t, NEW check, NEW s,
         op # "UpdateParticipant",
         Routes[op] = Keyed(check, H!WantsTyped(w, t), s), w \subseteq g,
         Needs(op) \subseteq g
  PROVE  FitTool(Tool(op, g))
<1>1. Routes[op].auth = "instance" /\ Routes[op].handler = H!WantsTyped(w, t)
  BY KeyedIs
<1>2. H!WantsTyped(w, t).wants = w /\ H!WantsTyped(w, t).lists = {}
  <2>1. IsHandler(H!WantsTyped(w, t), TRUE, w, {}, TRUE, "error")
    BY HandlersAre
  <2> QED BY <2>1 DEF IsHandler
<1>3. IsTool(Tool(op, g), op, "instance", g, {})
  BY ToolIs
<1> QED BY <1>1, <1>2, <1>3, FitIsTool

LEMMA ToolLists ==
  ASSUME NEW op \in DOMAIN Routes, NEW g, NEW w, NEW l, NEW check, NEW s,
         op # "UpdateParticipant",
         Routes[op] = Keyed(check, H!WantsLists(w, l), s), w \subseteq g,
         l \subseteq g, Needs(op) \subseteq g
  PROVE  FitTool(Lists(Tool(op, g), l))
<1>1. Routes[op].auth = "instance" /\ Routes[op].handler = H!WantsLists(w, l)
  BY KeyedIs
<1>2. H!WantsLists(w, l).wants = w /\ H!WantsLists(w, l).lists = l
  <2>1. IsHandler(H!WantsLists(w, l), TRUE, w, l, TRUE, "error")
    BY HandlersAre
  <2> QED BY <2>1 DEF IsHandler
<1>3. IsTool(Lists(Tool(op, g), l), op, "instance", g, l) /\ l = l \cap g
  BY ToolIs
<1> QED BY <1>1, <1>2, <1>3, FitIsTool

LEMMA ToolNone ==
  ASSUME NEW op \in DOMAIN Routes, NEW g, NEW check, NEW s,
         op # "UpdateParticipant",
         \/ Routes[op] = Keyed(check, H!NoBody, s)
         \/ Routes[op] = Keyed(check, [H!NoBody EXCEPT !.failure = "refused"], s),
         Needs(op) \subseteq g
  PROVE  FitTool(Tool(op, g))
<1>1. \A h, f : /\ IsHandler(h, FALSE, {}, {}, FALSE, f) /\ Routes[op] = Keyed(check, h, s)
                => FitTool(Tool(op, g))
  <2> SUFFICES ASSUME NEW h, NEW f, IsHandler(h, FALSE, {}, {}, FALSE, f),
                      Routes[op] = Keyed(check, h, s)
               PROVE  FitTool(Tool(op, g))
    OBVIOUS
  <2>1. Routes[op].auth = "instance" /\ Routes[op].handler = h
    BY KeyedIs
  <2>2. h.body = FALSE /\ h.lists = {}
    BY DEF IsHandler
  <2>3. IsTool(Tool(op, g), op, "instance", g, {})
    BY ToolIs
  <2> QED BY <2>1, <2>2, <2>3, FitIsTool
<1> QED BY <1>1, HandlersAre

LEMMA ToolAdmin ==
  ASSUME NEW op \in DOMAIN Routes, NEW g, NEW h, NEW s, op # "UpdateParticipant",
         Routes[op] = Admin(h, s), h.body => h.wants \subseteq g, h.lists = {},
         Needs(op) \subseteq g
  PROVE  FitTool(AdminTool(op, g))
<1>1. Routes[op].auth = "admin" /\ Routes[op].handler = h
  BY KeyedIs
<1>2. IsTool(AdminTool(op, g), op, "admin", g, {})
  BY ToolIs
<1> QED BY <1>1, <1>2, FitIsTool

LEMMA ToolOwn ==
  ASSUME NEW op \in DOMAIN Routes, NEW g, NEW h, NEW check, NEW s,
         op # "UpdateParticipant",
         Routes[op] = Keyed(check, h, s), h.body => h.wants \subseteq g,
         h.lists = {}, Needs(op) \subseteq g
  PROVE  FitTool(Tool(op, g))
<1>1. Routes[op].auth = "instance" /\ Routes[op].handler = h
  BY KeyedIs
<1>2. IsTool(Tool(op, g), op, "instance", g, {})
  BY ToolIs
<1> QED BY <1>1, <1>2, FitIsTool

LEMMA InstanceToolsFit ==
  ASSUME NEW t \in DOMAIN InstanceTools, t \notin Misfits,
         InstanceTools[t].op # "none"
  PROVE  FitTool(InstanceTools[t])
<1>1. CASE t = "wago_instance_create"
  <2>1. H!Create.wants = {"name", "token"} /\ H!Create.lists = {}
    BY DEF H!Create, H!Wants, H!NoBody
  <2> QED
    BY <1>1, <2>1, InstanceRoutesAre, ToolAdmin DEF InstanceTools,
       InstanceRoutes, Needs
<1>2. CASE t = "wago_instance_list"
  <2>1. H!All.wants = {} /\ H!All.lists = {}
    BY DEF H!All, H!Wants, H!NoBody
  <2> QED
    BY <1>2, <2>1, InstanceRoutesAre, ToolAdmin DEF InstanceTools,
       InstanceRoutes, Needs
<1>3. CASE t = "wago_instance_delete"
  <2>1. H!Delete.wants = {} /\ H!Delete.lists = {}
    BY DEF H!Delete, H!Wants, H!NoBody
  <2> QED
    BY <1>3, <2>1, InstanceRoutesAre, ToolAdmin DEF InstanceTools,
       InstanceRoutes, Needs
<1>4. CASE t = "wago_proxy_set"
  <2>1. H!SetProxy.wants = {"host", "port"} /\ H!SetProxy.lists = {}
    BY DEF H!SetProxy, H!Wants, H!NoBody
  <2> QED
    BY <1>4, <2>1, InstanceRoutesAre, ToolAdmin DEF InstanceTools,
       InstanceRoutes, Needs
<1>5. CASE t = "wago_proxy_delete"
  <2>1. H!DeleteProxy.wants = {} /\ H!DeleteProxy.lists = {}
    BY DEF H!DeleteProxy, H!Wants, H!NoBody
  <2> QED
    BY <1>5, <2>1, InstanceRoutesAre, ToolAdmin DEF InstanceTools,
       InstanceRoutes, Needs
<1>6. CASE t \in {"wago_connect", "wago_pair"}
  BY <1>6, InstanceRoutesAre, ToolWants DEF InstanceTools, InstanceRoutes,
     Needs, H!Connect, H!Pair
<1>7. CASE t \in {"wago_qr", "wago_status", "wago_disconnect",
                  "wago_reconnect", "wago_logout", "wago_advanced_get"}
  BY <1>7, InstanceRoutesAre, ToolNone DEF InstanceTools, InstanceRoutes,
     Needs, H!Qr, H!Status, H!Disconnect, H!Reconnect, H!Logout,
     H!GetAdvancedSettings
<1>8. CASE t = "wago_advanced_set"
  <2>1. H!UpdateAdvancedSettings.wants = {} /\ H!UpdateAdvancedSettings.lists = {}
    BY DEF H!UpdateAdvancedSettings, H!Wants, H!NoBody
  <2> QED
    BY <1>8, <2>1, InstanceRoutesAre, ToolOwn DEF InstanceTools,
       InstanceRoutes, Needs
<1> QED
  BY <1>1, <1>2, <1>3, <1>4, <1>5, <1>6, <1>7, <1>8 DEF InstanceTools, Misfits

LEMMA SendToolsFit ==
  ASSUME NEW t \in DOMAIN SendTools, t \notin Misfits, SendTools[t].op # "none"
  PROVE  FitTool(SendTools[t])
<1>1. CASE t \in {"wago_send_text", "wago_send_contact", "wago_send_sticker"}
  BY <1>1, SendRoutesAre, ToolWants DEF SendTools, SendRoutes, Needs,
     H!SendText, H!SendContact, H!SendSticker
<1>2. CASE t = "wago_send_media"
  <2>1. H!SendMedia.wants = {"number", "url", "type"} /\ H!SendMedia.lists = {}
    BY DEF H!SendMedia, H!Wants, H!NoBody
  <2> QED BY <1>2, <2>1, SendRoutesAre, ToolOwn DEF SendTools, SendRoutes, Needs
<1>3. CASE t \in {"wago_send_poll", "wago_send_album"}
  BY <1>3, SendRoutesAre, ToolLists DEF SendTools, SendRoutes, Needs,
     H!SendPoll, H!SendAlbum
<1> QED BY <1>1, <1>2, <1>3 DEF SendTools, Misfits

LEMMA MessageToolsFit ==
  ASSUME NEW t \in DOMAIN MessageTools, t \notin Misfits,
         MessageTools[t].op # "none"
  PROVE  FitTool(MessageTools[t])
<1>1. CASE t = "wago_mark_read"
  BY <1>1, MessageRoutesAre, ToolLists DEF MessageTools, MessageRoutes, Needs,
     H!MarkRead
<1>2. CASE t \in {"wago_chat_presence", "wago_message_delete",
                  "wago_message_edit", "wago_message_status",
                  "wago_download_media"}
  BY <1>2, MessageRoutesAre, ToolWants DEF MessageTools, MessageRoutes, Needs,
     H!ChatPresence, H!DeleteMessageEveryone, H!EditMessage,
     H!GetMessageStatus, H!DownloadMedia
<1> QED BY <1>1, <1>2 DEF MessageTools, Misfits

LEMMA HumanToolsFit ==
  ASSUME NEW t \in DOMAIN HumanTools, t \notin Misfits, HumanTools[t].op # "none"
  PROVE  FitTool(HumanTools[t])
<1>1. CASE t = "wago_human_reply_read"
  BY <1>1, MessageRoutesAre, ToolLists DEF HumanTools, MessageRoutes, Needs,
     H!MarkRead
<1>2. CASE t = "wago_human_reply_composing"
  BY <1>2, MessageRoutesAre, ToolWants DEF HumanTools, MessageRoutes, Needs,
     H!ChatPresence
<1>3. CASE t = "wago_human_reply_text"
  BY <1>3, SendRoutesAre, ToolWants DEF HumanTools, SendRoutes, Needs,
     H!SendText
<1> QED BY <1>1, <1>2, <1>3 DEF HumanTools, Misfits

LEMMA UserToolsFit ==
  ASSUME NEW t \in DOMAIN UserTools, t \notin Misfits, UserTools[t].op # "none"
  PROVE  FitTool(UserTools[t])
<1>1. CASE t \in {"wago_check_user", "wago_user_info"}
  BY <1>1, UserRoutesAre, ToolLists DEF UserTools, UserRoutes, Needs,
     H!CheckUser, H!GetUser
<1>2. CASE t \in {"wago_user_avatar", "wago_block", "wago_unblock",
                  "wago_profile_name", "wago_profile_status",
                  "wago_profile_picture"}
  BY <1>2, UserRoutesAre, ToolWants DEF UserTools, UserRoutes, Needs,
     H!GetAvatar, H!BlockContact, H!UnblockContact, H!SetProfileName,
     H!SetProfileStatus, H!SetProfilePicture
<1>3. CASE t \in {"wago_contacts", "wago_blocklist", "wago_privacy_get"}
  BY <1>3, UserRoutesAre, ToolNone DEF UserTools, UserRoutes, Needs,
     H!GetContacts, H!GetBlockList, H!GetPrivacy
<1> QED BY <1>1, <1>2, <1>3 DEF UserTools, Misfits

LEMMA GroupToolsFit ==
  ASSUME NEW t \in DOMAIN GroupTools, t \notin Misfits, GroupTools[t].op # "none"
  PROVE  FitTool(GroupTools[t])
<1>1. CASE t = "wago_group_list"
  BY <1>1, GroupRoutesAre, ToolNone DEF GroupTools, GroupRoutes, Needs,
     H!ListGroups
<1>2. CASE t \in {"wago_group_info", "wago_group_invite_link",
                  "wago_group_name", "wago_group_description",
                  "wago_group_photo", "wago_group_join"}
  BY <1>2, GroupRoutesAre, ToolWants DEF GroupTools, GroupRoutes, Needs,
     H!GetGroupInfo, H!GetGroupInviteLink, H!SetGroupName,
     H!SetGroupDescription, H!SetGroupPhoto, H!JoinGroupLink
<1>3. CASE t = "wago_group_create"
  BY <1>3, GroupRoutesAre, ToolLists DEF GroupTools, GroupRoutes, Needs,
     H!CreateGroup
<1>4. CASE t = "wago_group_leave"
  BY <1>4, GroupRoutesAre, ToolTyped DEF GroupTools, GroupRoutes, Needs,
     H!LeaveGroup
<1> QED BY <1>1, <1>2, <1>3, <1>4 DEF GroupTools, Misfits

LEMMA WebhookToolsFit ==
  ASSUME NEW t \in DOMAIN WebhookTools, t \notin Misfits,
         WebhookTools[t].op # "none"
  PROVE  FitTool(WebhookTools[t])
<1>1. CASE t \in {"wago_webhooks_list", "wago_webhook_delete"}
  BY <1>1, WebhookRoutesAre, ToolNone DEF WebhookTools, WebhookRoutes, Needs,
     H!WebhookList, H!WebhookDelete
<1>2. CASE t = "wago_webhook_create"
  <2>1. H!WebhookCreate.wants = {} /\ H!WebhookCreate.lists = {}
    BY DEF H!WebhookCreate, H!Wants, H!NoBody
  <2> QED
    BY <1>2, <2>1, WebhookRoutesAre, ToolOwn DEF WebhookTools, WebhookRoutes,
       Needs
<1>3. CASE t = "wago_webhook_update"
  <2>1. H!WebhookUpdate.wants = {} /\ H!WebhookUpdate.lists = {}
    BY DEF H!WebhookUpdate, H!Wants, H!NoBody
  <2> QED
    BY <1>3, <2>1, WebhookRoutesAre, ToolOwn DEF WebhookTools, WebhookRoutes,
       Needs
<1> QED BY <1>1, <1>2, <1>3 DEF WebhookTools, Misfits

LEMMA MiscToolsFit ==
  ASSUME NEW t \in DOMAIN MiscTools, t \notin Misfits, MiscTools[t].op # "none"
  PROVE  FitTool(MiscTools[t])
<1>1. CASE t = "wago_community_create"
  BY <1>1, CommunityRoutesAre, ToolWants DEF MiscTools, CommunityRoutes,
     Needs, H!CreateCommunity
<1>2. CASE t \in {"wago_community_add", "wago_community_remove"}
  BY <1>2, CommunityRoutesAre, ToolLists DEF MiscTools, CommunityRoutes,
     Needs, H!CommunityAdd, H!CommunityRemove
<1>3. CASE t \in {"wago_label_chat", "wago_unlabel_chat",
                  "wago_label_message", "wago_unlabel_message"}
  BY <1>3, LabelRoutesAre, ToolWants DEF MiscTools, LabelRoutes, Needs,
     H!ChatLabel, H!ChatUnlabel, H!MessageLabel, H!MessageUnlabel
<1>4. CASE t \in {"wago_newsletter_create", "wago_newsletter_link"}
  BY <1>4, NewsletterRoutesAre, ToolWants DEF MiscTools, NewsletterRoutes,
     Needs, H!CreateNewsletter, H!GetNewsletterInvite
<1>5. CASE t \in {"wago_newsletter_list", "wago_poll_results"}
  BY <1>5, NewsletterRoutesAre, ToolNone DEF MiscTools, NewsletterRoutes,
     Needs, H!ListNewsletter, H!GetPollResults
<1>6. CASE t \in {"wago_newsletter_info", "wago_newsletter_subscribe",
                  "wago_newsletter_messages"}
  BY <1>6, NewsletterRoutesAre, ToolTyped DEF MiscTools, NewsletterRoutes,
     Needs, H!GetNewsletter, H!SubscribeNewsletter, H!GetNewsletterMessages
<1>7. CASE t = "wago_call_reject"
  BY <1>7, CommunityRoutesAre, ToolTyped DEF MiscTools, CommunityRoutes,
     Needs, H!RejectCall
<1> QED BY <1>1, <1>2, <1>3, <1>4, <1>5, <1>6, <1>7 DEF MiscTools, Misfits, Tool

(* The requests that are refused whatever happens.                         *)
MisfitTool(tool) ==
  /\ tool.key = Routes[tool.op].auth /\ Routes[tool.op].handler.body
  /\ \/ ~(Routes[tool.op].handler.wants \subseteq tool.given)
     \/ /\ tool.op = "UpdateParticipant"
        /\ "participants" \in tool.given \cap tool.listed

LEMMA SendToolsMisfit ==
  ASSUME NEW t \in DOMAIN SendTools, t \in Misfits
  PROVE  MisfitTool(SendTools[t])
<1>1. CASE t = "wago_send_link"
  <2>1. H!SendLink.body = TRUE /\ H!SendLink.wants = {"number", "text"}
    BY DEF H!SendLink, H!WantsLists, H!Wants, H!NoBody
  <2>2. /\ Routes["SendLink"].auth = "instance"
        /\ Routes["SendLink"].handler = H!SendLink
    BY SendRoutesAre, KeyedIs DEF SendRoutes
  <2>3. /\ SendTools[t].op = "SendLink" /\ SendTools[t].key = "instance"
        /\ SendTools[t].given = {"number", "url"}
    BY <1>1 DEF SendTools, Tool, Blanks, Lists
  <2> QED BY <2>1, <2>2, <2>3 DEF MisfitTool
<1>2. CASE t = "wago_send_location"
  <2>1. /\ H!SendLocation.body = TRUE
        /\ H!SendLocation.wants =
             {"number", "latitude", "longitude", "address", "name"}
    BY DEF H!SendLocation, H!WantsLists, H!Wants, H!NoBody
  <2>2. /\ Routes["SendLocation"].auth = "instance"
        /\ Routes["SendLocation"].handler = H!SendLocation
    BY SendRoutesAre, KeyedIs DEF SendRoutes
  <2>3. /\ SendTools[t].op = "SendLocation" /\ SendTools[t].key = "instance"
        /\ SendTools[t].given = {"number", "latitude", "longitude"}
    BY <1>2 DEF SendTools, Tool, Blanks, Lists
  <2> QED BY <2>1, <2>2, <2>3 DEF MisfitTool
<1> QED BY <1>1, <1>2 DEF SendTools, Misfits

LEMMA MessageToolsMisfit ==
  ASSUME NEW t \in DOMAIN MessageTools, t \in Misfits
  PROVE  MisfitTool(MessageTools[t])
<1>1. CASE t = "wago_react"
  <2>1. H!React.body = TRUE /\ H!React.wants = {"number", "reaction"}
    BY DEF H!React, H!WantsLists, H!Wants, H!NoBody
  <2>2. Routes["React"].auth = "instance" /\ Routes["React"].handler = H!React
    BY MessageRoutesAre, KeyedIs DEF MessageRoutes
  <2>3. /\ MessageTools[t].op = "React" /\ MessageTools[t].key = "instance"
        /\ MessageTools[t].given = {"number", "id"}
    BY <1>1 DEF MessageTools, Tool, Blanks, Lists
  <2> QED BY <2>1, <2>2, <2>3 DEF MisfitTool
<1> QED BY <1>1 DEF MessageTools, Misfits

LEMMA UserToolsMisfit ==
  ASSUME NEW t \in DOMAIN UserTools, t \in Misfits
  PROVE  MisfitTool(UserTools[t])
<1>1. CASE t = "wago_privacy_set"
  <2>1. H!SetPrivacy.body = TRUE /\ H!SetPrivacy.wants = H!PrivacySettings
    BY DEF H!SetPrivacy, H!WantsLists, H!Wants, H!NoBody
  <2>2. /\ Routes["SetPrivacy"].auth = "instance"
        /\ Routes["SetPrivacy"].handler = H!SetPrivacy
    BY UserRoutesAre, KeyedIs DEF UserRoutes
  <2>3. /\ UserTools[t].op = "SetPrivacy" /\ UserTools[t].key = "instance"
        /\ UserTools[t].given = {}
    BY <1>1 DEF UserTools, Tool, Blanks, Lists
  <2> QED BY <2>1, <2>2, <2>3 DEF MisfitTool, H!PrivacySettings
<1> QED BY <1>1 DEF UserTools, Misfits

LEMMA GroupToolsMisfit ==
  ASSUME NEW t \in DOMAIN GroupTools, t \in Misfits
  PROVE  MisfitTool(GroupTools[t])
<1>1. CASE t = "wago_group_participant"
  <2>1. /\ H!UpdateParticipant.body = TRUE
        /\ H!UpdateParticipant.wants = {"groupJid", "action", "participants"}
    BY DEF H!UpdateParticipant, H!WantsLists, H!Wants, H!NoBody
  <2>2. /\ Routes["UpdateParticipant"].auth = "instance"
        /\ Routes["UpdateParticipant"].handler = H!UpdateParticipant
    BY GroupRoutesAre, KeyedIs DEF GroupRoutes
  <2>3. /\ GroupTools[t].op = "UpdateParticipant"
        /\ GroupTools[t].key = "instance"
        /\ GroupTools[t].given = {"groupJid", "action", "participants"}
        /\ GroupTools[t].listed = {"participants"}
    BY <1>1 DEF GroupTools, Tool, Blanks, Lists
  <2> QED BY <2>1, <2>2, <2>3 DEF MisfitTool
<1> QED BY <1>1 DEF GroupTools, Misfits

LEMMA MiscToolsMisfit ==
  ASSUME NEW t \in DOMAIN MiscTools, t \in Misfits
  PROVE  MisfitTool(MiscTools[t])
<1>1. CASE t = "wago_label_edit"
  <2>1. H!EditLabel.body = TRUE /\ H!EditLabel.wants = {"labelId", "name"}
    BY DEF H!EditLabel, H!WantsLists, H!Wants, H!NoBody
  <2>2. /\ Routes["EditLabel"].auth = "instance"
        /\ Routes["EditLabel"].handler = H!EditLabel
    BY LabelRoutesAre, KeyedIs DEF LabelRoutes
  <2>3. /\ MiscTools[t].op = "EditLabel" /\ MiscTools[t].key = "instance"
        /\ MiscTools[t].given = {}
    BY <1>1 DEF MiscTools, Tool, Blanks, Lists
  <2> QED BY <2>1, <2>2, <2>3 DEF MisfitTool
<1> QED BY <1>1 DEF MiscTools, Misfits

LEMMA ToolsAre ==
  ASSUME NEW t \in DOMAIN BuildTools
  PROVE  \/ t \in DOMAIN InstanceTools /\ BuildTools[t] = InstanceTools[t]
         \/ t \in DOMAIN SendTools /\ BuildTools[t] = SendTools[t]
         \/ t \in DOMAIN MessageTools /\ BuildTools[t] = MessageTools[t]
         \/ t \in DOMAIN HumanTools /\ BuildTools[t] = HumanTools[t]
         \/ t \in DOMAIN UserTools /\ BuildTools[t] = UserTools[t]
         \/ t \in DOMAIN GroupTools /\ BuildTools[t] = GroupTools[t]
         \/ t \in DOMAIN WebhookTools /\ BuildTools[t] = WebhookTools[t]
         \/ t \in DOMAIN MiscTools /\ BuildTools[t] = MiscTools[t]
<1>1. \E table \in ToolTables : t \in DOMAIN table /\ BuildTools[t] = table[t]
  BY DEF BuildTools
<1> QED BY <1>1, Zenon DEF ToolTables

LEMMA ToolsAreFit ==
  ASSUME NEW t \in Routed
  PROVE  IF t \in Misfits THEN MisfitTool(BuildTools[t]) ELSE FitTool(BuildTools[t])
<1>. t \in DOMAIN BuildTools /\ BuildTools[t].op # "none"
  BY DEF Routed
<1>1. CASE t \in DOMAIN InstanceTools /\ BuildTools[t] = InstanceTools[t]
  <2>1. t \notin Misfits
    BY <1>1 DEF InstanceTools, Misfits
  <2> QED BY <1>1, <2>1, InstanceToolsFit
<1>2. CASE t \in DOMAIN SendTools /\ BuildTools[t] = SendTools[t]
  BY <1>2, SendToolsFit, SendToolsMisfit
<1>3. CASE t \in DOMAIN MessageTools /\ BuildTools[t] = MessageTools[t]
  BY <1>3, MessageToolsFit, MessageToolsMisfit
<1>4. CASE t \in DOMAIN HumanTools /\ BuildTools[t] = HumanTools[t]
  <2>1. t \notin Misfits
    BY <1>4 DEF HumanTools, Misfits
  <2> QED BY <1>4, <2>1, HumanToolsFit
<1>5. CASE t \in DOMAIN UserTools /\ BuildTools[t] = UserTools[t]
  BY <1>5, UserToolsFit, UserToolsMisfit
<1>6. CASE t \in DOMAIN GroupTools /\ BuildTools[t] = GroupTools[t]
  BY <1>6, GroupToolsFit, GroupToolsMisfit
<1>7. CASE t \in DOMAIN WebhookTools /\ BuildTools[t] = WebhookTools[t]
  <2>1. t \notin Misfits
    BY <1>7 DEF WebhookTools, Misfits
  <2> QED BY <1>7, <2>1, WebhookToolsFit
<1>8. CASE t \in DOMAIN MiscTools /\ BuildTools[t] = MiscTools[t]
  BY <1>8, MiscToolsFit, MiscToolsMisfit
<1> QED BY ToolsAre, <1>1, <1>2, <1>3, <1>4, <1>5, <1>6, <1>7, <1>8

(* A request with the wrong type in it, or with something missing, is      *)
(* refused by the middleware or by the handler.                            *)
Doomed ==
  /\ request.key = Route.auth /\ Route.handler.body /\ request.body.form = "json"
  /\ \/ ~(Route.handler.wants \subseteq request.body.given)
     \/ /\ request.op = "UpdateParticipant"
        /\ "participants" \in request.body.given \cap request.body.listed

Turned == Doomed => at \notin Late /\ (at = "done" => answer = "refused")

LEMMA StepKeepsTurned ==
  ASSUME Shape, Turned, [Next]_vars
  PROVE  Turned'
<1>1. request' = request /\ Doomed' = Doomed
  <2>1. request' = request
    BY StepKeepsRequest
  <2> QED BY <2>1 DEF Doomed, Route
<1> SUFFICES ASSUME Doomed
             PROVE  at' \notin Late /\ (at' = "done" => answer' = "refused")
  BY <1>1 DEF Turned
<1>2. CASE Serves
  BY <1>2, ServesIs DEF Turned
<1>3. CASE Authenticate
  BY <1>3, AuthenticateIs DEF Doomed, Late
<1>4. CASE Validate
  BY <1>4, ValidateIs DEF Late
<1>5. CASE Handle
  <2>1. /\ body.form = request.body.form /\ body.given = request.body.given
        /\ body.listed = request.body.listed
    BY BodyIs DEF Shape, TypeOK
  <2>2. at = "handle"
    BY <1>5, HandleIs
  <2>3. /\ ~(Route.handler.wants \subseteq body.given) /\ body.form = "json"
        /\ Route.handler.body
    BY <2>1, <2>2 DEF Doomed, Shape
  <2>4. Bind(Route.handler) = "refuse"
    BY <2>3 DEF Bind
  <2> QED BY <1>5, <2>4, HandleIs DEF Late
<1>6. CASE Environment
  BY <1>6 DEF Turned, Environment, Register, StartFails, Flap, Unregister
<1>7. CASE UNCHANGED vars
  BY <1>7 DEF Turned, vars
<1> QED
  BY <1>2, <1>3, <1>4, <1>5, <1>6, <1>7 DEF Next, Program, Serves, Finished

LEMMA ToolIsServed ==
  ASSUME Shape, Smooth, Turned, at = "done", ~trouble,
         ParseJID(request.body.to) # Invalid,
         NEW t \in Routed, request = RequestOf(BuildTools[t], request.body.to)
  PROVE  IF t \in Misfits THEN answer = "refused" ELSE answer \in {"ok", "created"}
<1> DEFINE tool == BuildTools[t]
<1>1. /\ request.op = tool.op /\ request.key = tool.key /\ request.body.form = "json"
      /\ request.body.given = tool.given /\ request.body.blank = tool.blank
      /\ request.body.listed = tool.listed
  BY DEF RequestOf
<1> HIDE DEF tool
<1>2. CASE t \in Misfits
  <2>1. MisfitTool(tool)
    BY <1>2, ToolsAreFit DEF tool
  <2>2. Doomed
    BY <1>1, <2>1 DEF MisfitTool, Doomed, Route
  <2> QED BY <1>2, <2>2 DEF Turned
<1>3. CASE t \notin Misfits
  <2>1. FitTool(tool)
    BY <1>3, ToolsAreFit DEF tool
  <2>2. request \in RequestType /\ TameService(request.op, Service)
    BY RouteIs DEF Shape
  <2>3. /\ request.body.blank = {} /\ Given = request.body.given
        /\ request.op # "UpdateParticipant"
    BY <1>1, <2>1 DEF FitTool, Given
  <2>4. \A i \in Steps({"need", "deref"}) : Service[i].field \in Given
    BY <1>1, <2>1, <2>2, <2>3 DEF Steps, TameService, TameStep, FitTool
  <2>5. /\ request.key = Route.auth
        /\ request.body.listed = Route.handler.lists \cap Given
        /\ Route.handler.body => Route.handler.wants \subseteq Given
    BY <1>1, <2>1, <2>3 DEF FitTool, Route
  <2>6. Complete
    BY <1>1, <2>3, <2>4, <2>5 DEF Complete
  <2> QED BY <1>3, <2>3, <2>6 DEF Smooth, Exempt
<1> QED BY <1>2, <1>3

------------------------------------------------------------------------------
(***************************************************************************)
(* The invariant and the theorems.                                         *)
(***************************************************************************)

IInv == Shape /\ Tally /\ PanicIsKnown /\ Reached /\ Smooth /\ Turned

LEMMA InitIInv ==
  ASSUME Init
  PROVE  IInv
<1>1. request \in RequestType /\ body = request.body
  BY AskedAssumption DEF Init
<1>2. /\ request.body \in BodyType /\ request.body.normalised = {}
      /\ body = [request.body EXCEPT !.normalised = body.normalised]
  BY <1>1 DEF RequestType, BodyType
<1>3. TypeOK
  <2>1. trouble \in BOOLEAN
    <3>1. (conn \in {"down", "pairing"}) \in BOOLEAN
      OBVIOUS
    <3> QED BY <3>1, Zenon DEF Init
  <2>2. /\ at = "key" /\ step = 1 /\ changes = 0 /\ failed = {}
        /\ success = {} /\ lost = FALSE
        /\ conn \in {"none", "down", "pairing", "up"} /\ starting = FALSE
        /\ held = "none"
        /\ answer = "none"
    BY DEF Init
  <2>3. /\ body = [request.body EXCEPT !.normalised = body.normalised]
        /\ body.normalised \subseteq body.given
    BY <1>1, <1>2
  <2>4. /\ at \in {"key", "check", "handle", "serve", "started", "done"}
        /\ answer \in
             {"none", "ok", "created", "refused", "unauthorized", "notFound", "error", "panic"}
        /\ held \in {"none", "current", "gone", "loggedOut"}
    BY <2>2
  <2>5. step \in 1..10 /\ changes \in 0..7
    BY <2>2
  <2>6. /\ starting \in BOOLEAN /\ lost \in BOOLEAN /\ failed \subseteq 1..2
        /\ success \subseteq 1..2
    BY <2>2
  <2> QED BY <2>1, <2>2, <2>3, <2>4, <2>5, <2>6 DEF TypeOK
<1>4. Len(Service) \in Nat /\ 1 <= Len(Service)
  BY <1>1, RouteIs DEF TameService
<1>5. Shape
  BY <1>1, <1>3, <1>4 DEF Init, Shape, Early, Late
<1>6. Tally
  <2>1. Before(step) = {}
    BY <1>1, RouteIs DEF Init, Before, TameService
  <2> QED BY <2>1, FS_EmptySet DEF Init, Tally, AnswerIsTrue, Told
<1>7. PanicIsKnown /\ Reached
  BY DEF Init, PanicIsKnown, Told, Reached
<1>8. Smooth
  BY DEF Init, Smooth, Calm
<1>9. Turned
  BY DEF Init, Turned, Late
<1> QED BY <1>5, <1>6, <1>7, <1>8, <1>9 DEF IInv

LEMMA NextIInv ==
  ASSUME IInv, [Next]_vars
  PROVE  IInv'
<1>1. Shape' /\ Tally'
  <2>1. CASE Authenticate \/ Validate \/ Handle
    BY <2>1, EarlyKeeps DEF IInv
  <2>2. CASE Serves
    BY <2>2, ServesKeepsShape, ServesKeepsTally DEF IInv
  <2>3. CASE Environment
    BY <2>3, EnvironmentKeeps DEF IInv
  <2>4. CASE UNCHANGED vars
    <3>1. UNCHANGED <<request, body, at, step, held, starting, conn, reached,
                      changes, failed, success, trouble, lost, answer>>
      BY <2>4 DEF vars
    <3>2. Service' = Service /\ Route' = Route
      BY <3>1 DEF Service, Route
    <3>3. Shape'
      BY <3>1, <3>2 DEF IInv, Shape, TypeOK
    <3>4. Before(step)' = Before(step)
      BY <3>1, <3>2 DEF Before, Asks
    <3>5. AnswerIsTrue'
      <4>1. Told({"ok", "created"})' <=> Told({"ok", "created"})
        BY <3>1 DEF Told
      <4>2. Told({"refused", "unauthorized", "notFound", "error", "panic"})' <=>
              Told({"refused", "unauthorized", "notFound", "error", "panic"})
        BY <3>1 DEF Told
      <4>3. Promised' = Promised
        BY <3>1, <3>2 DEF Promised, Steps
      <4> QED BY <3>1, <4>1, <4>2, <4>3 DEF IInv, Tally, AnswerIsTrue
    <3>6. Tally'
      BY <3>1, <3>4, <3>5 DEF IInv, Tally
    <3> QED BY <3>3, <3>6
  <2> QED BY <2>1, <2>2, <2>3, <2>4 DEF Next, Program, Serves, Finished
<1>2. PanicIsKnown'
  BY StepKeepsPanic DEF IInv
<1>3. Reached'
  BY StepKeepsReached DEF IInv
<1>4. Smooth'
  BY StepKeepsSmooth DEF IInv
<1>5. Turned'
  BY StepKeepsTurned DEF IInv
<1> QED BY <1>1, <1>2, <1>3, <1>4, <1>5 DEF IInv

LEMMA Invariance == Spec => []IInv
<1>1. IInv /\ [Next]_vars => IInv'
  BY NextIInv
<1> QED BY <1>1, InitIInv, PTL DEF Spec

(* A request keeps the body it was sent with but for the addresses that the*)
(* middleware rewrites (jid_validation_middleware.go:58), it is at one of  *)
(* its stages, and at most seven changes are made for it.                  *)
THEOREM TypeCorrect == Spec => []TypeOK
<1>1. IInv => TypeOK
  BY DEF IInv, Shape
<1> QED BY <1>1, Invariance, PTL

(* Unless an answer of WhatsApp was lost, a request is answered with       *)
(* success only when all it asks for was done or is listed as failed, and a*)
(* refused or failed one has changed nothing, but for the operations that  *)
(* have several parts (community_service.go:119, group_service.go:366).    *)
THEOREM AnswerIsTrueHolds == Spec => []AnswerIsTrue
<1>1. IInv => AnswerIsTrue
  BY DEF IInv, Tally
<1> QED BY <1>1, Invariance, PTL

(* A handler panics only on a body of null, on a history request without   *)
(* its message (chat_service.go:225), on a client that was logged out under*)
(* it (message_service.go:209), or in the send service.                    *)
THEOREM PanicIsKnownHolds == Spec => []PanicIsKnown
<1>1. IInv => PanicIsKnown
  BY DEF IInv
<1> QED BY <1>1, Invariance, PTL

(* A complete request is served unless something fails it, for every body  *)
(* and every number: no middleware, handler or service refuses it, but for *)
(* the two that always are (routes.go:211, send_handler.go:462).           *)
THEOREM CompleteIsServedHolds == Spec => []CompleteIsServed
<1>1. IInv => CompleteIsServed
  BY DEF IInv, Shape, Smooth, Exempt, CompleteIsServed
<1> QED BY <1>1, Invariance, PTL

(* A number is normalised once, though the middleware, the service and the *)
(* question to WhatsApp all do it, and the digits it loses are the one of  *)
(* Brazil or Argentina or the two of Mexico (utils.go:127, utils.go:149,   *)
(* utils.go:614).                                                          *)
THEOREM AddressIsSettledHolds == Spec => []AddressIsSettled
<1>1. IInv => AddressIsSettled
  BY ReachedIsSettled DEF IInv
<1> QED BY <1>1, Invariance, PTL

(* What a tool of the MCP server sends is served by its route, with any    *)
(* address, unless something fails it; the six whose schemas ask for too   *)
(* little are always refused (tools_send.go:52, tools_message.go:13).      *)
THEOREM ToolsAreServedHolds == Spec => []ToolsAreServed
<1>1. IInv => ToolsAreServed
  BY ToolIsServed DEF IInv, ToolsAreServed
<1> QED BY <1>1, Invariance, PTL
==============================================================================
