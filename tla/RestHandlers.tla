---------------------------- MODULE RestHandlers ----------------------------
(***************************************************************************)
(* What each HTTP handler wants of a request before it calls its service   *)
(* and how it answers (pkg/*/handler).  They are written alike: the body   *)
(* is bound to a struct, the fields the operation cannot do without are    *)
(* looked at one after the other, the first that is empty gives 400, and   *)
(* an error of the service gives 500.                                      *)
(***************************************************************************)

(*   wants: the fields looked at; lists: the fields of the struct that are *)
(*   arrays; typed: the ones bound as an address, without CreateJID;       *)
(*   nil: "null" leaves the struct a nil pointer; form: what is wanted of  *)
(*   a multipart body; failure: the answer to an error of the service.     *)
NoBody ==
  [body |-> FALSE, wants |-> {}, lists |-> {}, typed |-> {}, nil |-> FALSE,
   form |-> {}, failure |-> "error"]

Wants(fields) == [NoBody EXCEPT !.body = TRUE, !.wants = fields, !.nil = TRUE]

WantsLists(fields, lists) == [Wants(fields) EXCEPT !.lists = lists]

WantsTyped(fields, typed) == [Wants(fields) EXCEPT !.typed = typed]

------------------------------------------------------------------------------
(* Groups                                                                  *)
ListGroups == NoBody
GetGroupInfo == Wants({"groupJid"})
GetGroupInviteLink == Wants({"groupJid"})
SetGroupPhoto == Wants({"groupJid", "image"})
SetGroupName == Wants({"groupJid", "name"})
SetGroupDescription == Wants({"groupJid"})
CreateGroup == WantsLists({"groupName", "participants"}, {"participants"})
UpdateParticipant ==
  [WantsLists({"groupJid", "action", "participants"}, {"participants"})
     EXCEPT !.typed = {"groupJid"}]
GetMyGroups == NoBody
JoinGroupLink == Wants({"code"})
LeaveGroup == WantsTyped({"groupJid"}, {"groupJid"})

(* Users                                                                   *)
GetUser == WantsLists({"number"}, {"number"})
CheckUser == WantsLists({"number"}, {"number"})
GetAvatar == Wants({"number"})
GetContacts == NoBody
GetPrivacy == NoBody
PrivacySettings ==
  {"groupAdd", "lastSeen", "status", "profile", "readReceipts", "callAdd",
   "online"}
SetPrivacy == Wants(PrivacySettings)
BlockContact == Wants({"number"})
UnblockContact == Wants({"number"})
GetBlockList == NoBody
SetProfilePicture == Wants({"image"})
SetProfileName == Wants({"name"})
SetProfileStatus == Wants({"status"})

(* Messages                                                                *)
React == Wants({"number", "reaction"})
ChatPresence == Wants({"number", "state"})
MarkRead == WantsLists({"number", "id"}, {"id"})
DownloadMedia == Wants({})
GetMessageStatus == Wants({"id"})
DeleteMessageEveryone == Wants({"chat", "messageId"})
EditMessage == Wants({"chat", "message", "messageId"})

(* Chats                                                                   *)
ChatPin == Wants({"chat"})
ChatUnpin == Wants({"chat"})
ChatArchive == Wants({"chat"})
ChatUnarchive == Wants({"chat"})
ChatMute == Wants({"chat"})
ChatUnmute == Wants({"chat"})
HistorySyncRequest == Wants({})

(* Labels                                                                  *)
ChatLabel == Wants({"jid", "labelId"})
MessageLabel == Wants({"jid", "labelId", "messageId"})
EditLabel == Wants({"labelId", "name"})
ChatUnlabel == Wants({"jid", "labelId"})
MessageUnlabel == Wants({"jid", "labelId", "messageId"})
GetLabels == NoBody

(* Newsletters                                                             *)
CreateNewsletter == Wants({"name"})
ListNewsletter == NoBody
GetNewsletter == WantsTyped({"jid"}, {"jid"})
GetNewsletterInvite == Wants({"key"})
SubscribeNewsletter == WantsTyped({"jid"}, {"jid"})
GetNewsletterMessages == WantsTyped({"jid"}, {"jid"})

(* Communities, calls and polls                                            *)
CreateCommunity == Wants({"communityName"})
CommunityAdd == WantsLists({"communityJid", "groupJid"}, {"groupJid"})
CommunityRemove == WantsLists({"communityJid", "groupJid"}, {"groupJid"})
RejectCall == WantsTyped({}, {"callCreator"})
GetPollResults == NoBody

(* Sending.  A coordinate of 0 counts as one that is not there.            *)
SendText == Wants({"number", "text"})
SendAlbum == WantsLists({"number", "items"}, {"items"})
SendLink == Wants({"number", "text"})
SendMedia ==
  [Wants({"number", "url", "type"})
     EXCEPT !.form = {"number", "type", "file"}]
SendPoll == WantsLists({"number", "question", "options"}, {"options"})
SendSticker == Wants({"number", "sticker"})
SendLocation == Wants({"number", "latitude", "longitude", "address", "name"})
SendContact == Wants({"number", "vcard.phone", "vcard.fullName"})
SendButton == Wants({"number", "title", "description", "footer"})
SendList == Wants({"number", "title", "description", "footer", "buttonText"})
SendCarousel == WantsLists({"number", "cards"}, {"cards"})
SendStatusText == [Wants({"text"}) EXCEPT !.nil = FALSE]
SendStatusMedia ==
  [Wants({"url", "type"}) EXCEPT !.nil = FALSE, !.form = {"type", "file"}]

(* Webhooks.  It is the service that wants a URL.                          *)
WebhookList == NoBody
WebhookCreate == [Wants({}) EXCEPT !.nil = FALSE, !.failure = "refused"]
WebhookUpdate == [Wants({}) EXCEPT !.nil = FALSE, !.failure = "refused"]
WebhookDelete == NoBody

(* Instances.  What Create wants of a proxy it wants when there is one.    *)
Create == Wants({"name", "token"})
Connect == Wants({})
Reconnect == NoBody
Disconnect == NoBody
Logout == [NoBody EXCEPT !.failure = "refused"]
Status == [NoBody EXCEPT !.failure = "refused"]
Qr == [NoBody EXCEPT !.failure = "refused"]
Pair == Wants({"phone"})
All == NoBody
Info == NoBody
Delete == NoBody
SetProxy == Wants({"host", "port"})
DeleteProxy == NoBody
ForceReconnect == Wants({"number"})
GetLogs == NoBody
GetAdvancedSettings == NoBody
UpdateAdvancedSettings == [Wants({}) EXCEPT !.nil = FALSE]
=============================================================================
