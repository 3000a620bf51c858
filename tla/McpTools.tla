------------------------------ MODULE McpTools ------------------------------
(***************************************************************************)
(* The tools of the MCP server (internal/mcp/tools_*.go), each one request *)
(* to the HTTP interface, wago_human_reply three: the route it goes to, the*)
(* key it is made with and what its body holds when the model has given no *)
(* more than the tool's schema requires.                                   *)
(***************************************************************************)
EXTENDS RestApi

(*   op: the operation of the route, "none" when there is no such route;   *)
(*   given: the required arguments, under the names of the body; blank:    *)
(*   what the tool writes as "" or leaves out although the handler looks   *)
(*   at it; listed: the arrays.                                            *)
Tool(op, given) ==
  [op |-> op, key |-> "instance", given |-> given, blank |-> {},
   listed |-> {}]

Lists(tool, fields) == [tool EXCEPT !.listed = fields]

Blanks(tool, fields) == [tool EXCEPT !.blank = fields]

AdminTool(op, given) == [Tool(op, given) EXCEPT !.key = "admin"]

InstanceTools ==
  [wago_instance_create |-> AdminTool("Create", {"name", "token"}),
   wago_instance_list |-> AdminTool("All", {}),
   wago_instance_delete |-> AdminTool("Delete", {}),
   wago_proxy_set |-> AdminTool("SetProxy", {"host", "port"}),
   wago_proxy_delete |-> AdminTool("DeleteProxy", {}),
   wago_connect |-> Tool("Connect", {}),
   wago_qr |-> Tool("Qr", {}),
   wago_pair |-> Tool("Pair", {"phone"}),
   wago_status |-> Tool("Status", {}),
   wago_disconnect |-> Tool("Disconnect", {}),
   wago_reconnect |-> Tool("Reconnect", {}),
   wago_logout |-> Tool("Logout", {}),
   wago_advanced_get |-> Tool("GetAdvancedSettings", {}),
   wago_advanced_set |-> Tool("UpdateAdvancedSettings", {})]

SendTools ==
  [wago_send_text |-> Tool("SendText", {"number", "text"}),
   wago_send_media |-> Tool("SendMedia", {"number", "type", "url"}),
   wago_send_link |-> Blanks(Tool("SendLink", {"number", "url"}), {"text"}),
   wago_send_location |->
     Blanks(Tool("SendLocation", {"number", "latitude", "longitude"}),
            {"name", "address"}),
   wago_send_poll |->
     Lists(Tool("SendPoll", {"number", "question", "options"}), {"options"}),
   wago_send_contact |->
     Tool("SendContact", {"number", "vcard.fullName", "vcard.phone"}),
   wago_send_sticker |-> Tool("SendSticker", {"number", "sticker"}),
   wago_send_album |->
     Lists(Tool("SendAlbum", {"number", "items"}), {"items"})]

MessageTools ==
  [wago_react |-> Blanks(Tool("React", {"number", "id"}), {"reaction"}),
   wago_mark_read |-> Lists(Tool("MarkRead", {"number", "id"}), {"id"}),
   wago_chat_presence |-> Tool("ChatPresence", {"number", "state"}),
   wago_message_delete |->
     Tool("DeleteMessageEveryone", {"chat", "messageId"}),
   wago_message_edit |->
     Tool("EditMessage", {"chat", "messageId", "message"}),
   wago_message_status |-> Tool("GetMessageStatus", {"id"}),
   wago_download_media |-> Tool("DownloadMedia", {"message"})]

(* Faulty variant: the id of the message to mark is sent as it was given.  *)
HumanTools_OneId ==
  [wago_human_reply_read |-> Tool("MarkRead", {"number", "id"}),
   wago_human_reply_composing |-> Tool("ChatPresence", {"number", "state"}),
   wago_human_reply_text |-> Tool("SendText", {"number", "text"})]

(* The three requests of one call, with the waits between them left out.   *)
HumanTools ==
  [wago_human_reply_read |-> Lists(Tool("MarkRead", {"number", "id"}), {"id"}),
   wago_human_reply_composing |-> Tool("ChatPresence", {"number", "state"}),
   wago_human_reply_text |-> Tool("SendText", {"number", "text"})]

UserTools ==
  [wago_check_user |-> Lists(Tool("CheckUser", {"number"}), {"number"}),
   wago_user_info |-> Lists(Tool("GetUser", {"number"}), {"number"}),
   wago_user_avatar |-> Tool("GetAvatar", {"number"}),
   wago_contacts |-> Tool("GetContacts", {}),
   wago_blocklist |-> Tool("GetBlockList", {}),
   wago_block |-> Tool("BlockContact", {"number"}),
   wago_unblock |-> Tool("UnblockContact", {"number"}),
   wago_privacy_get |-> Tool("GetPrivacy", {}),
   wago_privacy_set |-> Tool("SetPrivacy", {}),
   wago_profile_name |-> Tool("SetProfileName", {"name"}),
   wago_profile_status |-> Tool("SetProfileStatus", {"status"}),
   wago_profile_picture |-> Tool("SetProfilePicture", {"image"})]

GroupTools ==
  [wago_group_list |-> Tool("ListGroups", {}),
   wago_group_info |-> Tool("GetGroupInfo", {"groupJid"}),
   wago_group_invite_link |-> Tool("GetGroupInviteLink", {"groupJid"}),
   wago_group_create |->
     Lists(Tool("CreateGroup", {"groupName", "participants"}),
           {"participants"}),
   wago_group_participant |->
     Lists(Tool("UpdateParticipant", {"groupJid", "action", "participants"}),
           {"participants"}),
   wago_group_name |-> Tool("SetGroupName", {"groupJid", "name"}),
   wago_group_description |-> Tool("SetGroupDescription", {"groupJid"}),
   wago_group_photo |-> Tool("SetGroupPhoto", {"groupJid", "image"}),
   wago_group_join |-> Tool("JoinGroupLink", {"code"}),
   wago_group_leave |-> Tool("LeaveGroup", {"groupJid"})]

WebhookTools ==
  [wago_webhooks_list |-> Tool("WebhookList", {}),
   wago_webhook_create |-> Tool("WebhookCreate", {"url"}),
   wago_webhook_update |-> Tool("WebhookUpdate", {"url"}),
   wago_webhook_delete |-> Tool("WebhookDelete", {})]

MiscTools ==
  [wago_community_create |-> Tool("CreateCommunity", {"communityName"}),
   wago_community_add |->
     Lists(Tool("CommunityAdd", {"communityJid", "groupJid"}), {"groupJid"}),
   wago_community_remove |->
     Lists(Tool("CommunityRemove", {"communityJid", "groupJid"}),
           {"groupJid"}),
   wago_labels_list |-> Tool("none", {}),
   wago_label_chat |-> Tool("ChatLabel", {"jid", "labelId"}),
   wago_unlabel_chat |-> Tool("ChatUnlabel", {"jid", "labelId"}),
   wago_label_message |->
     Tool("MessageLabel", {"jid", "labelId", "messageId"}),
   wago_unlabel_message |->
     Tool("MessageUnlabel", {"jid", "labelId", "messageId"}),
   wago_label_edit |-> Blanks(Tool("EditLabel", {}), {"labelId", "name"}),
   wago_newsletter_create |-> Tool("CreateNewsletter", {"name"}),
   wago_newsletter_list |-> Tool("ListNewsletter", {}),
   wago_newsletter_info |-> Tool("GetNewsletter", {"jid"}),
   wago_newsletter_link |-> Tool("GetNewsletterInvite", {"key"}),
   wago_newsletter_subscribe |-> Tool("SubscribeNewsletter", {"jid"}),
   wago_newsletter_messages |-> Tool("GetNewsletterMessages", {"jid"}),
   wago_poll_results |-> Tool("GetPollResults", {}),
   wago_call_reject |-> Tool("RejectCall", {"callId", "callCreator"})]

ToolTables ==
  {InstanceTools, SendTools, MessageTools, HumanTools, UserTools, GroupTools,
   WebhookTools, MiscTools}

BuildTools ==
  [tool \in UNION {DOMAIN table : table \in ToolTables} |->
     (CHOOSE table \in ToolTables : tool \in DOMAIN table)[tool]]

(* The tools that reach a route.                                           *)
Routed == {t \in DOMAIN BuildTools : BuildTools[t].op # "none"}

(* The request of a tool for a chat, a user or a group.                    *)
RequestOf(tool, to) ==
  [op |-> tool.op, key |-> tool.key,
   body |-> [form |-> "json", given |-> tool.given, blank |-> tool.blank,
             listed |-> tool.listed, normalised |-> {}, to |-> to,
             formatJid |-> "absent"]]

------------------------------------------------------------------------------
(* What the schemas of six of them do not ask for, their handlers refuse to*)
(* do without, and wago_group_participant has the trouble of its route.    *)
Misfits ==
  {"wago_send_link", "wago_send_location", "wago_react", "wago_privacy_set",
   "wago_label_edit", "wago_group_participant"}

(* A tool that is given what its schema requires, with an address that is  *)
(* one, is served when nothing fails, unless it is one of the misfits;     *)
(* those are always refused.                                               *)
ToolsAreServed ==
  at = "done" /\ ~trouble /\ ParseJID(request.body.to) # Invalid =>
    \A t \in Routed :
      request = RequestOf(BuildTools[t], request.body.to) =>
        IF t \in Misfits
          THEN answer = "refused"
          ELSE answer \in {"ok", "created"}
=============================================================================
