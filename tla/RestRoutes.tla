----------------------------- MODULE RestRoutes -----------------------------
(***************************************************************************)
(* The routes of the HTTP interface (pkg/routes/routes.go): the key each   *)
(* one wants, its middleware, its handler and the steps of its service.    *)
(***************************************************************************)
H == INSTANCE RestHandlers
S == INSTANCE RestServices

------------------------------------------------------------------------------
(* The routes.                                                             *)
None == [name |-> "none", fields |-> {}]
Jids(fields) == [name |-> "jids", fields |-> fields]
Number == [name |-> "number", fields |-> {}]
FormatJid == [name |-> "formatJid", fields |-> {}]
Contact == [name |-> "contact", fields |-> {}]
Numbers(f) == [name |-> "numbers", fields |-> {f}]

Keyed(check, handler, service) ==
  [auth |-> "instance", check |-> check, handler |-> handler,
   service |-> service]

Admin(handler, service) ==
  [Keyed(None, handler, service) EXCEPT !.auth = "admin"]

InstanceRoutes ==
  [Create |-> Admin(H!Create, <<S!Instance>>),
   All |-> Admin(H!All, <<S!Instance>>),
   Info |-> Admin(H!Info, <<S!Instance>>),
   Delete |-> Admin(H!Delete, <<S!Instance>>),
   SetProxy |-> Admin(H!SetProxy, <<S!Instance>>),
   DeleteProxy |-> Admin(H!DeleteProxy, <<S!Instance>>),
   ForceReconnect |-> Admin(H!ForceReconnect, <<S!Instance>>),
   GetLogs |-> Admin(H!GetLogs, <<S!Instance>>),
   Connect |-> Keyed(None, H!Connect, <<S!StepOn("instance", "body")>>),
   Status |-> Keyed(None, H!Status, <<S!Instance>>),
   Qr |-> Keyed(None, H!Qr, <<S!Instance>>),
   Pair |-> Keyed(Number, H!Pair, <<S!Instance>>),
   Disconnect |-> Keyed(None, H!Disconnect, <<S!Instance>>),
   Reconnect |-> Keyed(None, H!Reconnect, <<S!Instance>>),
   Logout |-> Keyed(None, H!Logout, <<S!Instance>>),
   GetAdvancedSettings |-> Keyed(None, H!GetAdvancedSettings, <<S!Instance>>),
   UpdateAdvancedSettings |->
     Keyed(None, H!UpdateAdvancedSettings, <<S!Instance>>)]

SendRoutes ==
  [SendText |-> Keyed(FormatJid, H!SendText, <<S!Send>>),
   SendLink |-> Keyed(FormatJid, H!SendLink, <<S!Send>>),
   SendMedia |-> Keyed(FormatJid, H!SendMedia, <<S!Send>>),
   SendAlbum |-> Keyed(FormatJid, H!SendAlbum, <<S!Send>>),
   SendPoll |-> Keyed(FormatJid, H!SendPoll, <<S!Send>>),
   SendSticker |-> Keyed(FormatJid, H!SendSticker, <<S!Send>>),
   SendLocation |-> Keyed(FormatJid, H!SendLocation, <<S!Send>>),
   SendContact |-> Keyed(Contact, H!SendContact, <<S!Send>>),
   SendButton |-> Keyed(FormatJid, H!SendButton, <<S!Send>>),
   SendList |-> Keyed(FormatJid, H!SendList, <<S!Send>>),
   SendCarousel |-> Keyed(FormatJid, H!SendCarousel, <<S!Send>>),
   SendStatusText |-> Keyed(None, H!SendStatusText, <<S!Send>>),
   SendStatusMedia |-> Keyed(None, H!SendStatusMedia, <<S!Send>>)]

UserRoutes ==
  [GetUser |-> Keyed(Number, H!GetUser, S!GetUser),
   CheckUser |-> Keyed(FormatJid, H!CheckUser, S!CheckUser),
   GetAvatar |-> Keyed(Number, H!GetAvatar, S!GetAvatar),
   GetContacts |-> Keyed(None, H!GetContacts, S!GetContacts),
   GetPrivacy |-> Keyed(None, H!GetPrivacy, S!GetPrivacy),
   SetPrivacy |-> Keyed(None, H!SetPrivacy, S!SetPrivacy),
   BlockContact |-> Keyed(Number, H!BlockContact, S!BlockContact),
   UnblockContact |-> Keyed(Number, H!UnblockContact, S!UnblockContact),
   GetBlockList |-> Keyed(None, H!GetBlockList, S!GetBlockList),
   SetProfilePicture |->
     Keyed(None, H!SetProfilePicture, S!SetProfilePicture),
   SetProfileName |-> Keyed(None, H!SetProfileName, S!SetProfileName),
   SetProfileStatus |-> Keyed(None, H!SetProfileStatus, S!SetProfileStatus)]

WebhookRoutes ==
  [WebhookList |-> Keyed(None, H!WebhookList, S!WebhookList),
   WebhookCreate |-> Keyed(None, H!WebhookCreate, S!WebhookCreate),
   WebhookUpdate |-> Keyed(None, H!WebhookUpdate, S!WebhookUpdate),
   WebhookDelete |-> Keyed(None, H!WebhookDelete, S!WebhookDelete)]

MessageRoutes ==
  [React |-> Keyed(Jids({"number"}), H!React, S!React),
   ChatPresence |-> Keyed(Number, H!ChatPresence, S!ChatPresence),
   MarkRead |-> Keyed(Number, H!MarkRead, S!MarkRead),
   DownloadMedia |-> Keyed(None, H!DownloadMedia, S!DownloadMedia),
   GetMessageStatus |-> Keyed(None, H!GetMessageStatus, S!GetMessageStatus),
   DeleteMessageEveryone |->
     Keyed(Number, H!DeleteMessageEveryone, S!DeleteMessageEveryone),
   EditMessage |-> Keyed(Number, H!EditMessage, S!EditMessage)]

ChatRoutes ==
  [ChatPin |-> Keyed(Number, H!ChatPin, S!ChatPin),
   ChatUnpin |-> Keyed(Number, H!ChatUnpin, S!ChatUnpin),
   ChatArchive |-> Keyed(Number, H!ChatArchive, S!ChatArchive),
   ChatUnarchive |-> Keyed(Number, H!ChatUnarchive, S!ChatUnarchive),
   ChatMute |-> Keyed(Number, H!ChatMute, S!ChatMute),
   ChatUnmute |-> Keyed(Number, H!ChatUnmute, S!ChatUnmute),
   HistorySyncRequest |->
     Keyed(None, H!HistorySyncRequest, S!HistorySyncRequest)]

GroupRoutes ==
  [ListGroups |-> Keyed(None, H!ListGroups, S!ListGroups),
   GetGroupInfo |-> Keyed(Number, H!GetGroupInfo, S!GetGroupInfo),
   GetGroupInviteLink |->
     Keyed(Number, H!GetGroupInviteLink, S!GetGroupInviteLink),
   SetGroupPhoto |-> Keyed(Number, H!SetGroupPhoto, S!SetGroupPhoto),
   SetGroupName |-> Keyed(Number, H!SetGroupName, S!SetGroupName),
   SetGroupDescription |->
     Keyed(Number, H!SetGroupDescription, S!SetGroupDescription),
   CreateGroup |->
     Keyed(Numbers("participants"), H!CreateGroup, S!CreateGroup),
   UpdateParticipant |->
     Keyed(Jids({"number", "participants"}), H!UpdateParticipant,
           S!UpdateParticipant),
   GetMyGroups |-> Keyed(None, H!GetMyGroups, S!GetMyGroups),
   JoinGroupLink |-> Keyed(None, H!JoinGroupLink, S!JoinGroupLink),
   LeaveGroup |-> Keyed(Number, H!LeaveGroup, S!LeaveGroup)]

CommunityRoutes ==
  [RejectCall |-> Keyed(Number, H!RejectCall, S!RejectCall),
   CreateCommunity |-> Keyed(None, H!CreateCommunity, S!CreateCommunity),
   CommunityAdd |->
     Keyed(Jids({"number", "communityId"}), H!CommunityAdd, S!CommunityAdd),
   CommunityRemove |->
     Keyed(Jids({"number", "communityId"}), H!CommunityRemove,
           S!CommunityRemove)]

LabelRoutes ==
  [ChatLabel |-> Keyed(Number, H!ChatLabel, S!ChatLabel),
   MessageLabel |-> Keyed(None, H!MessageLabel, S!MessageLabel),
   EditLabel |-> Keyed(None, H!EditLabel, S!EditLabel),
   GetLabels |-> Keyed(None, H!GetLabels, S!GetLabels),
   ChatUnlabel |-> Keyed(Number, H!ChatUnlabel, S!ChatUnlabel),
   MessageUnlabel |-> Keyed(None, H!MessageUnlabel, S!MessageUnlabel)]

NewsletterRoutes ==
  [CreateNewsletter |-> Keyed(None, H!CreateNewsletter, S!CreateNewsletter),
   ListNewsletter |-> Keyed(None, H!ListNewsletter, S!ListNewsletter),
   GetNewsletter |->
     Keyed(Jids({"newsletterId"}), H!GetNewsletter, S!GetNewsletter),
   GetNewsletterInvite |->
     Keyed(Jids({"newsletterId"}), H!GetNewsletterInvite,
           S!GetNewsletterInvite),
   SubscribeNewsletter |->
     Keyed(Jids({"newsletterId"}), H!SubscribeNewsletter,
           S!SubscribeNewsletter),
   GetNewsletterMessages |->
     Keyed(Jids({"newsletterId"}), H!GetNewsletterMessages,
           S!GetNewsletterMessages),
   GetPollResults |-> Keyed(None, H!GetPollResults, S!GetPollResults)]

RouteTables ==
  {InstanceRoutes, SendRoutes, UserRoutes, WebhookRoutes, MessageRoutes,
   ChatRoutes, GroupRoutes, CommunityRoutes, LabelRoutes, NewsletterRoutes}

Routes ==
  [op \in UNION {DOMAIN table : table \in RouteTables} |->
     (CHOOSE table \in RouteTables : op \in DOMAIN table)[op]]
=============================================================================
