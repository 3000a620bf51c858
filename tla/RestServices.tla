---------------------------- MODULE RestServices ----------------------------
(***************************************************************************)
(* What each operation of the services does, as the steps it takes         *)
(* (pkg/*/service).  RestApi says what a step does.                        *)
(***************************************************************************)
EXTENDS Sequences

Step(what) == [do |-> what, field |-> "none"]

StepOn(what, f) == [do |-> what, field |-> f]

Client == Step("client")        \* ensureClientConnected
Ready == Step("ready")          \* the client is connected and logged in
Own == Step("own")              \* *client.Store.ID
Ask == Step("ask")              \* a call of the client that reads
Look == Step("look")            \* one that cannot fail
Try == Step("try")              \* one whose error is left aside
Change == Step("change")        \* a call of the client that changes something
Fetch == Step("fetch")          \* GET of a URL, or a data URL
Row == Step("row")              \* a read of the database
Save == Step("save")            \* a write of it
Votes == Step("votes")          \* 404 when there is none
Send == Step("send")            \* SendService, by its contract
Instance == Step("instance")    \* InstanceLifecycle, by its outcome
Parse(f) == StepOn("parse", f)          \* ParseJID, or an error
ParseGiven(f) == StepOn("parseGiven", f)  \* the same, when it is there
Typed(f) == StepOn("typed", f)          \* an address used as it is
Need(f) == StepOn("need", f)            \* an error when it is not there
Deref(f) == StepOn("deref", f)          \* a nil pointer when it is not there
ChangeIf(f) == StepOn("changeIf", f)    \* a change when it is set, or a read
TryAgain(f) == StepOn("tryAgain", f)    \* a second try, when it is set
Link(f) == StepOn("link", f)            \* one item of a list

------------------------------------------------------------------------------
(* Groups                                                                  *)
ListGroups == <<Client, Ask>>
GetGroupInfo == <<Client, Parse("groupJid"), Ask>>
GetGroupInviteLink == <<Client, Parse("groupJid"), ChangeIf("reset")>>
SetGroupPhoto == <<Client, Parse("groupJid"), Fetch, Change>>
SetGroupName == <<Client, Parse("groupJid"), Change>>
SetGroupDescription == <<Client, Parse("groupJid"), Change>>
(* Who has been added is asked for when the group is there.                *)
CreateGroup == <<Client, Parse("participants"), Change, Ask>>
UpdateParticipant ==
  <<Client, Parse("participants"), Typed("groupJid"), Change>>
GetMyGroups == <<Client, Ask, Own>>
JoinGroupLink == <<Client, Change>>
LeaveGroup == <<Client, Typed("groupJid"), Change>>

(* Users.  The settings of SetPrivacy are written one after the other.     *)
GetUser == <<Client, Parse("number"), Ask>>
CheckUser == <<Client, Try, TryAgain("formatJid")>>
GetAvatar == <<Client, Ready, Parse("number"), Ask>>
GetContacts == <<Client, Row>>
GetPrivacy == <<Client, Look>>
SetPrivacy ==
  <<Client, Change, Change, Change, Change, Change, Change, Change, Look>>
BlockContact == <<Client, Parse("number"), Change>>
UnblockContact == <<Client, Parse("number"), Change>>
GetBlockList == <<Client, Ask>>
SetProfilePicture == <<Client, Fetch, Change>>
SetProfileName == <<Client, Change>>
SetProfileStatus == <<Client, Change>>

(* Messages.  A participant that cannot be parsed is left out by React and *)
(* refused by MarkRead.                                                    *)
React == <<Client, Parse("number"), Need("id"), Change, Own>>
ChatPresence == <<Client, Parse("number"), Change>>
MarkRead == <<Client, Parse("number"), ParseGiven("participant"), Change>>
(* Faulty variant: what there is to download is not looked at.             *)
DownloadMedia_NoCheck == <<Client, Deref("message"), Ask>>
DownloadMedia == <<Client, Need("message"), Ask>>
GetMessageStatus == <<Client, Row>>
DeleteMessageEveryone == <<Client, Parse("chat"), Change>>
EditMessage == <<Client, Parse("chat"), Change>>

(* Chats                                                                   *)
ChatPin == <<Client, Parse("chat"), Change>>
ChatUnpin == <<Client, Parse("chat"), Change>>
ChatArchive == <<Client, Parse("chat"), Change>>
ChatUnarchive == <<Client, Parse("chat"), Change>>
ChatMute == <<Client, Parse("chat"), Change>>
ChatUnmute == <<Client, Parse("chat"), Change>>
HistorySyncRequest == <<Client, Deref("messageInfo"), Change>>

(* Labels                                                                  *)
ChatLabel == <<Client, Parse("jid"), Change>>
MessageLabel == <<Client, Parse("jid"), Change>>
EditLabel == <<Client, Change>>
ChatUnlabel == <<Client, Parse("jid"), Change>>
MessageUnlabel == <<Client, Parse("jid"), Change>>
GetLabels == <<Client, Row>>

(* Newsletters.  One whose details cannot be had is listed without them.   *)
CreateNewsletter == <<Client, Change>>
ListNewsletter == <<Client, Ask, Try>>
GetNewsletter == <<Client, Typed("jid"), Ask>>
GetNewsletterInvite == <<Client, Ask>>
SubscribeNewsletter == <<Client, Typed("jid"), Change>>
GetNewsletterMessages == <<Client, Typed("jid"), Ask>>

(* Communities, calls and polls.  Two groups stand for a list of them.     *)
CreateCommunity == <<Client, Change>>
CommunityAdd ==
  <<Client, Parse("communityJid"), Link("groupJid"), Link("groupJid")>>
CommunityRemove ==
  <<Client, Parse("communityJid"), Link("groupJid"), Link("groupJid")>>
RejectCall == <<Client, Typed("callCreator"), Change>>
GetPollResults == <<Row, Votes>>

(* Webhooks: WebhookStore has the detail.                                  *)
WebhookList == <<Row>>
WebhookCreate == <<Need("url"), Row, Save>>
WebhookUpdate == <<Row, Need("url"), Save>>
WebhookDelete == <<Save>>
=============================================================================
