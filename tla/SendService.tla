---------------------------- MODULE SendService ----------------------------
(***************************************************************************)
(* The requests that send a message through one instance                   *)
(* (pkg/sendMessage/service): each looks for a connected client, starting  *)
(* or replacing it when there is none, builds its message, looks the       *)
(* client up again for every call it makes, and sends.  Meanwhile the      *)
(* instance's client comes, goes and loses its connection.                 *)
(***************************************************************************)
EXTENDS Naturals

CONSTANTS
  Request,          \* the requests of one behaviour
  Bodies,           \* Bodies[r]: what request r may ask for
  CheckUserExists,  \* config.CheckUserExists
  MaxStarting       \* StartClient goroutines under way at one time (a bound)

------------------------------------------------------------------------------
(* What a request asks for.  valid: the other required data is there and   *)
(* the file has the format its type wants.                                 *)

RetriedKind == {"text", "link", "poll", "mediaUrl", "mediaFile"}

StatusKind == {"statusText", "statusMediaUrl", "statusMediaFile"}

(* The kinds that keep the client they found, and the ones that go through *)
(* SendMessage, which looks it up again for each call.                     *)
HeldKind == StatusKind \cup {"button", "album"}

LookupKind ==
  RetriedKind \cup {"sticker", "location", "contact", "list", "carousel"}

Buttons == [reply : 0..4, pix : 0..2, other : 0..2]

BodyType ==
  [kind : HeldKind \cup LookupKind,
   to : {"user", "group", "newsletter", "badUser", "badGroup"},
   media : {"none", "image", "video", "ptv", "audio", "document", "other"},
   valid : BOOLEAN, caption : BOOLEAN, delay : BOOLEAN,
   mention : {"none", "some", "all"},
   buttons : Buttons,
   items : 0..21]

ASSUME BodiesAssumption == Bodies \in [Request -> SUBSET BodyType]
ASSUME StartingAssumption == MaxStarting \in Nat \ {0}
ASSUME CheckAssumption == CheckUserExists \in BOOLEAN

VARIABLES
  body,        \* what each request asks for
  conn,        \* clientPointer[instance]: no entry, or its client's socket
  starting,    \* StartClient goroutines that have not registered a client
  request,     \* where each request is
  delivered,   \* history: messages of a request that WhatsApp has accepted
  published,   \* events of a request handed to CallWebhook
  answer       \* what the HTTP client of the request has been told

vars == <<body, conn, starting, request, delivered, published, answer>>

instance == <<conn, starting>>
effects == <<delivered, published, answer>>

MaxRetries == 3       \* of SendText and the others in RetriedKind
MaxConnectTries == 2  \* of ensureClientConnectedWithRetry

RequestPc == {"idle", "ensure", "started", "reconnect", "restart", "build",
              "validate", "check", "checkStarted", "presence", "typing",
              "address", "send", "report", "done"}

RequestState ==
  [pc : RequestPc, attempt : 1..MaxRetries, try : 1..MaxConnectTries,
   held : {"none", "current", "gone"},   \* the client it has kept
   converted : 0..MaxRetries]            \* how often its audio was converted

(* The messages a request consists of: an album has a parent.              *)
Parts(b) == IF b.kind = "album" THEN b.items + 1 ELSE 1

(* The events that tell of it: a button and an album have none.            *)
Events(b) == IF b.kind \in {"button", "album"} THEN 0 ELSE 1

(* Every request is at one of its calls, within the two limits of its      *)
(* retries, and no part of an album is counted twice.                      *)
TypeOK ==
  /\ \A r \in Request : body[r] \in Bodies[r]
  /\ conn \in {"none", "down", "up"}
  /\ starting \in 0..MaxStarting
  /\ request \in [Request -> RequestState]
  /\ delivered \in [Request -> 0..22]
  /\ published \in [Request -> {0, 1}]
  /\ answer \in [Request -> {"none", "ok", "error", "panic"}]

Local(pc) ==
  [pc |-> pc, attempt |-> 1, try |-> 1, held |-> "none", converted |-> 0]

Init ==
  /\ body \in [Request -> UNION {Bodies[r] : r \in Request}]
  /\ \A r \in Request : body[r] \in Bodies[r]
  /\ conn \in {"none", "down", "up"} /\ starting = 0
  /\ request = [r \in Request |-> Local("idle")]
  /\ delivered = [r \in Request |-> 0]
  /\ published = [r \in Request |-> 0]
  /\ answer = [r \in Request |-> "none"]

------------------------------------------------------------------------------
(* The instance, as a request sees it: InstanceLifecycle has the detail.   *)

(* A client that leaves the map is gone for those that have kept it.       *)
Gone(q) ==
  [r \in Request |->
     IF q[r].held = "current" THEN [q[r] EXCEPT !.held = "gone"] ELSE q[r]]

(* A StartClient goroutine registers its client, which connects or not.    *)
Register ==
  /\ starting > 0 /\ starting' = starting - 1
  /\ conn' \in {"down", "up"}
  /\ request' = Gone(request)
  /\ UNCHANGED <<body, effects>>

(* It returns before that: the row or the device cannot be read.           *)
StartFails ==
  /\ starting > 0 /\ starting' = starting - 1
  /\ UNCHANGED <<body, conn, request, effects>>

(* The socket is lost, and found again by whatsmeow.                       *)
Flap ==
  /\ \/ conn = "up" /\ conn' = "down"
     \/ conn = "down" /\ conn' = "up"
  /\ UNCHANGED <<body, starting, request, effects>>

(* A kill, a logout, a reconnection of somebody else.                      *)
Remove ==
  /\ conn # "none" /\ conn' = "none"
  /\ request' = Gone(request)
  /\ UNCHANGED <<body, starting, effects>>

InstanceStep == Register \/ StartFails \/ Flap \/ Remove

------------------------------------------------------------------------------
At(r, pc) == request[r].pc = pc

GoTo(r, pc) == request' = [request EXCEPT ![r].pc = pc]

Ended(r) == [request EXCEPT ![r] = Local("done")]

Answer(r, a) ==
  /\ request' = Ended(r)
  /\ answer' = [answer EXCEPT ![r] = a]
  /\ UNCHANGED <<delivered, published>>

(* The next round of the loop of a retried kind, or the error it ends with.*)
NextAttempt(r) ==
  IF request[r].attempt < MaxRetries
    THEN /\ request' = [request EXCEPT
              ![r].pc = "ensure", ![r].attempt = @ + 1, ![r].try = 1]
         /\ UNCHANGED effects
    ELSE Answer(r, "error")

(* Faulty variant: the tries are not counted.                              *)
NextTry_Uncounted(r) ==
  request' = [request EXCEPT ![r].pc = "ensure"] /\ UNCHANGED effects

NextTry(r) ==
  IF request[r].try < MaxConnectTries
    THEN /\ request' = [request EXCEPT ![r].pc = "ensure", ![r].try = @ + 1]
         /\ UNCHANGED effects
    ELSE NextAttempt(r)

(* ensureClientConnected has failed.                                       *)
Unreachable(r) ==
  IF body[r].kind \in RetriedKind
    THEN GoTo(r, "reconnect") /\ UNCHANGED effects
    ELSE Answer(r, "error")

Found(r) ==
  request' = [request EXCEPT ![r].pc = "build", ![r].held = "current"]

(* SendList alone does not look for a client first, and SendAlbum counts   *)
(* its items before it does.                                               *)
MaxAlbumItems == 20

AlbumSize(b) == b.items >= 2 /\ b.items <= MaxAlbumItems

Arrive(r) ==
  /\ At(r, "idle")
  /\ IF body[r].kind = "album" /\ ~AlbumSize(body[r])
       THEN Answer(r, "error")
       ELSE /\ GoTo(r, IF body[r].kind = "list" THEN "build" ELSE "ensure")
            /\ UNCHANGED effects
  /\ UNCHANGED <<body, instance>>

(* StartInstance: the goroutine it starts registers the client later.      *)
StartInstance(r, waiting) ==
  /\ starting < MaxStarting /\ starting' = starting + 1
  /\ GoTo(r, waiting)
  /\ UNCHANGED effects

ensureClientConnected(r) ==
  /\ At(r, "ensure")
  /\ \/ conn = "none" /\ StartInstance(r, "started")
     \/ conn = "none" /\ Unreachable(r) /\ UNCHANGED starting  \* no such row
     \/ conn = "down" /\ Unreachable(r) /\ UNCHANGED starting
     \/ conn = "up" /\ Found(r) /\ UNCHANGED <<starting, effects>>
  /\ UNCHANGED <<body, conn>>

(* Two seconds later.                                                      *)
Recheck(r) ==
  /\ At(r, "started")
  /\ IF conn = "up" THEN Found(r) /\ UNCHANGED effects ELSE Unreachable(r)
  /\ UNCHANGED <<body, instance>>

(* ReconnectClient takes the client out whoever is using it, and starts    *)
(* another one two seconds later unless the row cannot be read.            *)
ReconnectClient(r) ==
  /\ At(r, "reconnect")
  /\ conn' = "none"
  /\ request' = [Gone(request) EXCEPT ![r].pc = "restart"]
  /\ UNCHANGED <<body, starting, effects>>

Restart(r) ==
  /\ At(r, "restart")
  /\ NextTry(r)
  /\ \/ starting < MaxStarting /\ starting' = starting + 1
     \/ UNCHANGED starting
  /\ UNCHANGED <<body, conn>>

------------------------------------------------------------------------------
(* Building the message: it can go on, fail, or begin a new attempt.       *)

(* A number that is not one, and a group that is not one.                  *)
Unparsed(b) == b.to \in {"badUser", "badGroup"}

(* SendLink reads the page and the picture of a link, and tries again.     *)
BuildLink == {"ok", "again"}

FileAccepted(b) ==
  /\ b.media \in {"image", "video", "audio", "document"}
  /\ b.media \in {"image", "video"} => b.valid
  /\ ~(b.to = "newsletter" /\ b.media = "document")

UrlAccepted(b) ==
  /\ b.media \in {"image", "video", "ptv", "audio", "document"}
  /\ b.media \in {"image", "video", "ptv"} => b.valid
  /\ ~(b.to = "newsletter" /\ b.media = "document")

(* The conversion of the audio, the download and the upload may fail.      *)
OrFails(accepted) == IF accepted THEN {"ok", "fail"} ELSE {"fail"}

(* A sticker is an http address of a picture.                              *)
BuildSticker(b) == OrFails(b.valid)

(* At most three replies, none with another type, and a pix by itself.     *)
ButtonsAllowed(n) ==
  /\ n.reply > 0 => n.reply <= 3 /\ n.other = 0
  /\ n.pix > 0 => n.reply + n.pix + n.other <= 1

BuildButton(b) == IF ButtonsAllowed(b.buttons) THEN {"ok"} ELSE {"fail"}

(* A number that cannot be parsed is refused unless formatJid is false.  A *)
(* card whose picture or video cannot be fetched goes without it.          *)
BuildCarousel(b) == IF Unparsed(b) THEN {"ok", "fail"} ELSE {"ok"}

BuildStatusText(b) == IF b.valid THEN {"ok"} ELSE {"fail"}

StatusAccepted(b) == b.media \in {"image", "video"} /\ b.valid

(* Every item of an album has a type and an address.                       *)
BuildAlbum(b) == IF b.valid /\ ~Unparsed(b) THEN {"ok"} ELSE {"fail"}

Outcomes(b) ==
  CASE b.kind \in {"text", "poll", "location", "contact", "list"} -> {"ok"}
    [] b.kind = "link" -> BuildLink
    [] b.kind = "mediaFile" -> OrFails(FileAccepted(b))
    [] b.kind = "mediaUrl" -> OrFails(UrlAccepted(b))
    [] b.kind = "sticker" -> BuildSticker(b)
    [] b.kind = "button" -> BuildButton(b)
    [] b.kind = "carousel" -> BuildCarousel(b)
    [] b.kind = "statusText" -> BuildStatusText(b)
    [] b.kind \in {"statusMediaUrl", "statusMediaFile"} ->
         OrFails(StatusAccepted(b))
    [] b.kind = "album" -> BuildAlbum(b)

(* A file is converted in place, and once more by a second attempt; an     *)
(* address is read anew.                                                   *)
Converted(b, n) ==
  CASE b.media # "audio" -> n
    [] b.kind = "mediaFile" -> n + 1
    [] b.kind = "mediaUrl" -> 1
    [] OTHER -> n

(* A status goes to status@broadcast and an album has parsed its number.   *)
AfterBuild(b) ==
  IF b.kind \in StatusKind \cup {"album"} THEN "send" ELSE "validate"

Build(r) ==
  /\ At(r, "build")
  /\ \E o \in Outcomes(body[r]) :
       CASE o = "ok" ->
              /\ request' = [request EXCEPT
                   ![r].pc = AfterBuild(body[r]),
                   ![r].converted = Converted(body[r], @)]
              /\ UNCHANGED effects
         [] o = "fail" -> Answer(r, "error")
         [] o = "again" -> NextAttempt(r)
  /\ UNCHANGED <<body, instance>>

------------------------------------------------------------------------------
(* SendMessage: the number, the presence, the mentions, the sending.       *)

(* A user is looked for on WhatsApp, with a client, if the configuration   *)
(* says so; a group, a channel or a @lid is not.                           *)
NeedsCheck(b) == CheckUserExists /\ b.to \in {"user", "badUser"}

Validate(r) ==
  /\ At(r, "validate")
  /\ IF NeedsCheck(body[r])
       THEN GoTo(r, "check") /\ UNCHANGED effects
       ELSE IF Unparsed(body[r])
              THEN Answer(r, "error")
              ELSE GoTo(r, "presence") /\ UNCHANGED effects
  /\ UNCHANGED <<body, instance>>

(* The words "client disconnected" and "no active session" in the error of *)
(* SendMessage are what a retried kind tries again for.                    *)
Disconnected(r) ==
  IF body[r].kind \in RetriedKind THEN NextAttempt(r) ELSE Answer(r, "error")

(* IsOnWhatsApp: a number that cannot be checked is validated as it is.    *)
Checked(r) ==
  \/ ~Unparsed(body[r]) /\ GoTo(r, "presence") /\ UNCHANGED effects
  \/ Answer(r, "error")

CheckClient(r) ==
  /\ At(r, "check")
  /\ \/ conn = "none" /\ StartInstance(r, "checkStarted")
     \/ conn \in {"none", "down"} /\ Disconnected(r) /\ UNCHANGED starting
     \/ conn = "up" /\ Checked(r) /\ UNCHANGED starting
  /\ UNCHANGED <<body, conn>>

CheckStarted(r) ==
  /\ At(r, "checkStarted")
  /\ IF conn = "up" THEN Checked(r) ELSE Disconnected(r)
  /\ UNCHANGED <<body, instance>>

(* The client of the next call: the one kept, or the one now in the map.   *)
(* One that has left the map may not have been disconnected yet.           *)
CanCall(r) ==
  IF body[r].kind \in HeldKind
    THEN request[r].held = "gone" \/ conn = "up"
    ELSE conn = "up"

MayFail(r, next) ==
  \/ CanCall(r) /\ GoTo(r, next) /\ UNCHANGED effects
  \/ Answer(r, "error")

(* SendChatPresence "composing", and after the delay "paused".             *)
Composing(r) ==
  /\ At(r, "presence")
  /\ IF body[r].delay
       THEN MayFail(r, "typing")
       ELSE GoTo(r, "address") /\ UNCHANGED effects
  /\ UNCHANGED <<body, instance>>

Paused(r) ==
  /\ At(r, "typing")
  /\ MayFail(r, "address")
  /\ UNCHANGED <<body, instance>>

(* The type SendMessage is told, and whether the document is in the field  *)
(* DocumentWithCaptionMessage instead of DocumentMessage.                  *)
IsMedia(b) == b.kind \in {"mediaUrl", "mediaFile"}

Captioned(b) == IsMedia(b) /\ b.media = "document" /\ b.caption

(* Faulty variant: as for the mentions, no test for the moved document.    *)
AddsContext_NoTest(b) == ~Captioned(b)

(* ContextInfo is added to either field of a document.                     *)
AddsContext(b) == TRUE

(* Mentions are only of a group, and GetGroupInfo answers who is in it.    *)
Mentions(b) ==
  b.to = "group" /\ b.mention # "none" /\ b.kind \notin {"list", "carousel"}

(* They are written into DocumentMessage, which is nil once the caption    *)
(* has moved the document.                                                 *)
AddsMentions(b) == Mentions(b) => ~Captioned(b)

Address(r) ==
  /\ At(r, "address")
  /\ IF body[r].kind \in HeldKind
       THEN GoTo(r, "send") /\ UNCHANGED effects
       ELSE \/ /\ AddsContext(body[r]) /\ AddsMentions(body[r])
               /\ Mentions(body[r]) /\ body[r].mention = "all" => CanCall(r)
               /\ GoTo(r, "send") /\ UNCHANGED effects
            \/ /\ Mentions(body[r]) /\ body[r].mention = "all"
               /\ Answer(r, "error")
            \/ /\ ~(AddsContext(body[r]) /\ AddsMentions(body[r]))
               /\ Answer(r, "panic")
  /\ UNCHANGED <<body, instance>>

(* client.SendMessage: refused, accepted, or accepted and the answer lost. *)
Accepted(r) == delivered' = [delivered EXCEPT ![r] = @ + 1]

Refused(r) == Answer(r, "error")

AnswerLost(r) ==
  /\ CanCall(r) /\ Accepted(r)
  /\ request' = Ended(r)
  /\ answer' = [answer EXCEPT ![r] = "error"]
  /\ UNCHANGED published

(* Faulty variant: whatever fails is tried again, as a lost answer is.     *)
Send_RetryAll(r) ==
  /\ At(r, "send") /\ body[r].kind # "album"
  /\ \/ /\ CanCall(r) /\ Accepted(r) /\ GoTo(r, "report")
        /\ UNCHANGED <<published, answer>>
     \/ /\ body[r].kind \in RetriedKind
        /\ request[r].attempt < MaxRetries
        /\ CanCall(r) /\ Accepted(r)
        /\ request' = [request EXCEPT
              ![r].pc = "ensure", ![r].attempt = @ + 1, ![r].try = 1]
        /\ UNCHANGED <<published, answer>>
     \/ AnswerLost(r)
     \/ Refused(r)
  /\ UNCHANGED <<body, instance>>

Send(r) ==
  /\ At(r, "send") /\ body[r].kind # "album"
  /\ \/ /\ CanCall(r) /\ Accepted(r) /\ GoTo(r, "report")
        /\ UNCHANGED <<published, answer>>
     \/ AnswerLost(r)
     \/ Refused(r)
  /\ UNCHANGED <<body, instance>>

(* The client the identifier of the sender is read from: gone from the map *)
(* it is a nil pointer, and after a logout its identifier is one.          *)
SenderKnown(r) ==
  IF body[r].kind \in HeldKind THEN TRUE ELSE conn # "none"

SenderForgotten(r) ==
  IF body[r].kind \in HeldKind
    THEN request[r].held = "gone" \/ conn # "up"
    ELSE conn # "up"

(* MessageInfo is filled in, the event handed over, the request answered.  *)
Report(r) ==
  /\ At(r, "report")
  /\ \/ /\ SenderKnown(r)
        /\ request' = Ended(r)
        /\ answer' = [answer EXCEPT ![r] = "ok"]
        /\ published' = [published EXCEPT ![r] = Events(body[r])]
        /\ UNCHANGED delivered
     \/ SenderForgotten(r) /\ Answer(r, "panic")
  /\ UNCHANGED <<body, instance>>

------------------------------------------------------------------------------
(* SendAlbum: the parent, then each item is fetched, uploaded and sent     *)
(* with the client it began with.                                          *)

AlbumPart(r) ==
  /\ At(r, "send") /\ body[r].kind = "album"
  /\ \/ /\ CanCall(r) /\ Accepted(r)
        /\ IF delivered[r] + 1 = Parts(body[r])
             THEN /\ request' = Ended(r)
                  /\ answer' = [answer EXCEPT ![r] = "ok"]
             ELSE UNCHANGED <<request, answer>>
        /\ UNCHANGED published
     \/ AnswerLost(r)
     \/ Refused(r)
  /\ UNCHANGED <<body, instance>>

------------------------------------------------------------------------------
RequestStep(r) ==
  \/ Arrive(r)
  \/ ensureClientConnected(r) \/ Recheck(r)
  \/ ReconnectClient(r) \/ Restart(r)
  \/ Build(r)
  \/ Validate(r) \/ CheckClient(r) \/ CheckStarted(r)
  \/ Composing(r) \/ Paused(r) \/ Address(r)
  \/ Send(r) \/ Report(r) \/ AlbumPart(r)

Next == InstanceStep \/ \E r \in Request : RequestStep(r)

Spec == Init /\ [][Next]_vars

(* A handler runs until it has answered, and a goroutine that has been     *)
(* started comes to the point where it registers its client.               *)
FairSpec ==
  /\ Spec
  /\ \A r \in Request : WF_vars(RequestStep(r))
  /\ WF_vars(Register \/ StartFails)

------------------------------------------------------------------------------
(* A caller sees SendContract: a message is not sent twice by the retries, *)
(* the event is handed over once and only with "ok", and an error is       *)
(* answered before everything was sent, or because the answer of WhatsApp  *)
(* to the last part was lost (send_service.go:595, :2336, :2452).          *)
Contract == INSTANCE SendContract WITH
  parts <- [r \in Request |-> Parts(body[r])],
  events <- [r \in Request |-> Events(body[r])]

KeepsContract == Contract!Spec

(* A handler panics for two reasons only: the client has gone once the     *)
(* message was sent, or mentions are added to a document that its caption  *)
(* has moved, and then nothing has been sent (send_service.go:2238, :2347).*)
PanicIsKnown ==
  \A r \in Request :
    answer[r] = "panic" =>
      IF delivered[r] = 0
        THEN Captioned(body[r]) /\ Mentions(body[r])
        ELSE delivered[r] = Parts(body[r])

(* Every request is answered in the end: the nested loops of retries stop  *)
(* whatever the instance does (send_service.go:416, :602).                 *)
RequestAnswered == \A r \in Request : <>(answer[r] # "none")
=============================================================================
