------------------------------ MODULE RestApi ------------------------------
(***************************************************************************)
(* One request to the HTTP interface, from its key to its answer: the      *)
(* authentication, the middleware and the handler its route names, and the *)
(* steps of its service, while the instance's client comes and goes and    *)
(* its calls fail.                                                         *)
(***************************************************************************)
EXTENDS FiniteSets, JidValidation, RestRoutes

CONSTANT Asked      \* the requests there can be

VARIABLES
  request,   \* the request as it was sent
  body,      \* its body, as the middleware has left it
  at, step,  \* where it is, and at which step of its service
  conn,      \* clientPointer[instance]: no entry, or its client's state
  starting,  \* a StartClient goroutine has not registered its client
  held,      \* the client the request has found
  reached,   \* history: the address its calls are made with
  changes,   \* history: the changes that have been made for it
  failed, success,  \* the lists CommunityAdd and CommunityRemove answer with
  trouble,   \* history: a client or a call has failed it
  lost,      \* history: a change was made and its answer lost
  answer     \* how it was answered: 200, 201, 400, 401, 404, 500 or a panic

vars == <<request, body, at, step, conn, starting, held, reached, changes,
          failed, success, trouble, lost, answer>>

client == <<conn, starting, held>>
effects == <<changes, failed, success, lost>>

RequestType ==
  [op : DOMAIN Routes, key : {"none", "unknown", "instance", "admin"},
   body : {b \in BodyType : b.normalised = {}}]

ASSUME AskedAssumption == Asked \subseteq RequestType

(* The request is at one of its stages, its body is the one that was sent, *)
(* with some addresses rewritten, and no change is counted twice.          *)
TypeOK ==
  /\ body = [request.body EXCEPT !.normalised = body.normalised]
  /\ body.normalised \subseteq body.given
  /\ at \in {"key", "check", "handle", "serve", "started", "done"}
  /\ step \in 1..10
  /\ conn \in {"none", "down", "pairing", "up"} /\ starting \in BOOLEAN
  /\ held \in {"none", "current", "gone", "loggedOut"}
  /\ changes \in 0..7 /\ failed \subseteq 1..2 /\ success \subseteq 1..2
  /\ trouble \in BOOLEAN /\ lost \in BOOLEAN
  /\ answer \in {"none", "ok", "created", "refused", "unauthorized",
                "notFound", "error", "panic"}

Init ==
  /\ request \in Asked /\ body = request.body
  /\ at = "key" /\ step = 1
  /\ conn \in {"none", "down", "pairing", "up"} /\ starting = FALSE
  /\ held = "none" /\ reached = Invalid
  /\ changes = 0 /\ failed = {} /\ success = {}
  /\ trouble = (conn \in {"down", "pairing"}) /\ lost = FALSE
  /\ answer = "none"

------------------------------------------------------------------------------
Route == Routes[request.op]

Answer(status) ==
  /\ at' = "done" /\ answer' = status
  /\ UNCHANGED <<request, body, step>>

GoTo(stage) == at' = stage /\ UNCHANGED <<request, step, answer>>

(* Auth wants the token of an instance, AuthAdmin the key of the server.   *)
Authenticate ==
  /\ at = "key"
  /\ IF request.key = Route.auth
       THEN GoTo("check") /\ UNCHANGED body
       ELSE Answer("unauthorized")
  /\ UNCHANGED <<client, effects, reached, trouble>>

Checked(check) ==
  CASE check.name = "none" -> body
    [] check.name = "jids" -> ValidateJIDFields(body, check.fields)
    [] check.name = "number" -> ValidateNumberField(body)
    [] check.name = "formatJid" -> ValidateNumberFieldWithFormatJid(body)
    [] check.name = "contact" -> ValidateContactFields(body)
    [] check.name = "numbers" ->
         LET field == CHOOSE f \in check.fields : TRUE
         IN ValidateMultipleNumbers(body, field)

Validate ==
  /\ at = "check"
  /\ LET checked == Checked(Route.check)
     IN IF checked = Refused
          THEN Answer("refused")
          ELSE GoTo("handle") /\ body' = checked
  /\ UNCHANGED <<client, effects, reached, trouble>>

(* The body does not fit the handler's struct.                             *)
Unbound(h) ==
  \/ body.form \in {"broken", "multipart"}
  \/ /\ body.form = "json"
     /\ \E f \in body.given \cap (h.wants \cup h.lists) :
          (f \in body.listed) # (f \in h.lists)

Bind(h) ==
  IF ~h.body THEN "serve"
  ELSE IF body.form = "multipart" /\ h.form # {}
    THEN IF h.form \subseteq body.given THEN "serve" ELSE "refuse"
  ELSE IF Unbound(h) THEN "refuse"
  ELSE IF body.form = "null" /\ h.nil /\ h.wants # {} THEN "panic"
  ELSE IF h.wants \subseteq (IF body.form = "null" THEN {} ELSE body.given)
    THEN "serve"
    ELSE "refuse"

Handle ==
  /\ at = "handle"
  /\ LET outcome == Bind(Route.handler)
     IN CASE outcome = "serve" -> GoTo("serve") /\ UNCHANGED body
          [] outcome = "refuse" -> Answer("refused")
          [] outcome = "panic" -> Answer("panic")
  /\ UNCHANGED <<client, effects, reached, trouble>>

------------------------------------------------------------------------------
(* The steps of the services.                                              *)

(* A step uses the struct, and "null" has made that a nil pointer.         *)
NilBody(f) == body.form = "null" /\ Route.handler.nil /\ f # "none"

Does(what) ==
  /\ at = "serve" /\ step <= Len(Route.service)
  /\ Route.service[step].do = what
  /\ ~NilBody(Route.service[step].field)

On == Route.service[step].field

Pass ==
  /\ step' = step + 1 /\ at' = "serve"
  /\ UNCHANGED <<request, body, answer>>

Fail == Answer(Route.handler.failure)

(* A call of the client works only while the client is connected and       *)
(* logged in.                                                              *)
Usable == held = "current" /\ conn = "up"

(* clientPointer has a connected client, or StartInstance is called.       *)
EnsureClient ==
  /\ Does("client")
  /\ \/ conn \in {"pairing", "up"} /\ held' = "current" /\ Pass
        /\ UNCHANGED <<starting, trouble>>
     \/ conn = "down" /\ Fail /\ UNCHANGED <<starting, held, trouble>>
     \/ /\ conn = "none" /\ ~starting
        /\ starting' = TRUE /\ GoTo("started")
        /\ UNCHANGED <<body, held, trouble>>
     \/ /\ conn = "none"
        /\ Fail /\ trouble' = TRUE /\ UNCHANGED <<starting, held>>
  /\ UNCHANGED <<conn, effects, reached>>

(* Two seconds later, whatever the goroutine has done by then.             *)
AfterStart ==
  /\ at = "started"
  /\ IF conn \in {"pairing", "up"}
       THEN held' = "current" /\ Pass /\ UNCHANGED trouble
       ELSE Fail /\ trouble' = TRUE /\ UNCHANGED held
  /\ UNCHANGED <<conn, starting, effects, reached>>

CheckReady ==
  /\ Does("ready")
  /\ IF Usable THEN Pass ELSE Fail
  /\ UNCHANGED <<client, effects, reached, trouble>>

ParseAddress ==
  /\ Does("parse")
  /\ LET jid == ParseJID(Value(body, On))
     IN IF jid = Invalid
          THEN Fail /\ UNCHANGED reached
          ELSE Pass /\ reached' = jid
  /\ UNCHANGED <<client, effects, trouble>>

ParseGiven ==
  /\ Does("parseGiven")
  /\ IF On \in body.given /\ ParseJID(Value(body, On)) = Invalid
       THEN Fail ELSE Pass
  /\ UNCHANGED <<client, effects, reached, trouble>>

TakeTyped ==
  /\ Does("typed")
  /\ Pass /\ reached' = body.to
  /\ UNCHANGED <<client, effects, trouble>>

NeedField ==
  /\ Does("need")
  /\ IF On \in body.given THEN Pass ELSE Fail
  /\ UNCHANGED <<client, effects, reached, trouble>>

Dereference ==
  /\ Does("deref")
  /\ IF On \in body.given THEN Pass ELSE Answer("panic")
  /\ UNCHANGED <<client, effects, reached, trouble>>

(* The handler's goroutine panics where it first uses the struct.          *)
DereferenceBody ==
  /\ at = "serve" /\ step <= Len(Route.service)
  /\ NilBody(Route.service[step].field)
  /\ Answer("panic")
  /\ UNCHANGED <<client, effects, reached, trouble>>

DereferenceOwn ==
  /\ Does("own")
  /\ IF held = "loggedOut" THEN Answer("panic") ELSE Pass
  /\ UNCHANGED <<client, effects, reached, trouble>>

(* A read of WhatsApp, of a URL or of the database.                        *)
Reads ==
  \/ Does("ask") /\ Usable
  \/ Does("changeIf") /\ On \notin body.given /\ Usable
  \/ Does("look") \/ Does("fetch") \/ Does("row") \/ Does("votes")
  \/ Does("instance")

Read ==
  /\ Reads /\ Pass
  /\ UNCHANGED <<client, effects, reached, trouble>>

ReadFails ==
  /\ \/ Does("ask") \/ Does("fetch") \/ Does("row") \/ Does("instance")
     \/ Does("changeIf") /\ On \notin body.given
  /\ Fail /\ trouble' = TRUE
  /\ UNCHANGED <<client, effects, reached>>

NoVotes ==
  /\ Does("votes") /\ Answer("notFound") /\ trouble' = TRUE
  /\ UNCHANGED <<client, effects, reached>>

(* An error is left aside: what there is is answered.                      *)
TryCall ==
  /\ Does("try")
  /\ \/ Usable /\ Pass /\ UNCHANGED trouble
     \/ /\ step' = Len(Route.service) + 1 /\ trouble' = TRUE
        /\ UNCHANGED <<request, body, at, answer>>
  /\ UNCHANGED <<client, effects, reached>>

TryAgain ==
  /\ Does("tryAgain")
  /\ \/ Pass /\ UNCHANGED trouble
     \/ body.formatJid = "true" /\ Pass /\ trouble' = TRUE
  /\ UNCHANGED <<client, effects, reached>>

Changes ==
  \/ Does("change") \/ Does("save") \/ Does("send")
  \/ Does("changeIf") /\ On \in body.given

ChangeWorks ==
  /\ Changes /\ (Does("save") \/ Does("send") \/ Usable)
  /\ Pass /\ changes' = changes + 1
  /\ UNCHANGED <<client, failed, success, lost, reached, trouble>>

ChangeFails ==
  /\ Changes
  /\ Fail /\ trouble' = TRUE
  /\ UNCHANGED <<client, effects, reached>>

(* WhatsApp has made the change, and the answer does not arrive.           *)
ChangeLost ==
  /\ Changes /\ ~Does("save")
  /\ Does("send") \/ Usable
  /\ Fail /\ changes' = changes + 1 /\ lost' = TRUE /\ trouble' = TRUE
  /\ UNCHANGED <<client, failed, success, reached>>

(* SendContract lets a send end so.                                        *)
SendPanics ==
  /\ Does("send") /\ Answer("panic") /\ trouble' = TRUE
  /\ UNCHANGED <<client, effects, reached>>

(* The item of a list that this step is about.                             *)
Item == Cardinality({i \in 1..step : Route.service[i].do = "link"})

(* Faulty variant: the list of the failed ones starts anew.                *)
Linked_OnlyLast(ok) ==
  /\ failed' = IF ok THEN failed ELSE {Item}
  /\ success' = failed' \cup {Item}

(* successList = append(failedList, ...): the ones that failed, and this.  *)
Linked(ok) ==
  /\ failed' = IF ok THEN failed ELSE failed \cup {Item}
  /\ success' = failed' \cup {Item}

LinkGroup ==
  /\ Does("link") /\ Pass
  /\ \/ /\ Usable /\ Linked(TRUE) /\ changes' = changes + 1
        /\ UNCHANGED <<lost, trouble>>
     \/ /\ Usable /\ Linked(FALSE) /\ changes' = changes + 1
        /\ lost' = TRUE /\ trouble' = TRUE
     \/ Linked(FALSE) /\ trouble' = TRUE /\ UNCHANGED <<changes, lost>>
  /\ UNCHANGED <<client, reached>>

Succeed ==
  /\ at = "serve" /\ step > Len(Route.service)
  /\ Answer(IF request.op = "WebhookCreate" THEN "created" ELSE "ok")
  /\ UNCHANGED <<client, effects, reached, trouble>>

Program ==
  \/ Authenticate \/ Validate \/ Handle
  \/ EnsureClient \/ AfterStart \/ CheckReady
  \/ ParseAddress \/ ParseGiven \/ TakeTyped \/ NeedField
  \/ Dereference \/ DereferenceBody \/ DereferenceOwn
  \/ Read \/ ReadFails \/ NoVotes \/ TryCall \/ TryAgain
  \/ ChangeWorks \/ ChangeFails \/ ChangeLost \/ SendPanics
  \/ LinkGroup \/ Succeed

------------------------------------------------------------------------------
(* The instance, as the request sees it: InstanceLifecycle has the detail. *)
(* What happens before the service looks for a client is in Init.          *)
Serving == at \in {"serve", "started"}

Gone(h) == IF held = "current" THEN held' = h ELSE UNCHANGED held

Register ==
  /\ Serving /\ starting /\ starting' = FALSE
  /\ conn' \in {"down", "pairing", "up"} /\ Gone("gone")
  /\ trouble' = (trouble \/ conn' # "up")
  /\ UNCHANGED <<request, body, at, step, effects, reached, answer>>

StartFails ==
  /\ Serving /\ starting /\ starting' = FALSE
  /\ UNCHANGED <<request, body, at, step, conn, held, effects, reached,
                 trouble, answer>>

(* The socket is lost or found again, or the QR code is scanned.           *)
Flap ==
  /\ Serving /\ conn # "none"
  /\ conn' \in {"down", "up"} \ {conn}
  /\ trouble' = TRUE
  /\ UNCHANGED <<request, body, at, step, starting, held, effects, reached,
                 answer>>

(* A kill or a reconnection by somebody else, or a logout.                 *)
Unregister ==
  /\ Serving /\ conn # "none" /\ conn' = "none"
  /\ Gone("gone") \/ Gone("loggedOut")
  /\ trouble' = TRUE
  /\ UNCHANGED <<request, body, at, step, starting, effects, reached, answer>>

Environment == Register \/ StartFails \/ Flap \/ Unregister

Finished == at = "done" /\ UNCHANGED vars

Next == Program \/ Environment \/ Finished

Spec == Init /\ [][Next]_vars

------------------------------------------------------------------------------
Service == Route.service

Steps(kinds) == {i \in DOMAIN Service : Service[i].do \in kinds}

(* The changes that a request asks for.                                    *)
Promised ==
  Cardinality(Steps({"change", "save", "send", "link"}))
    + (IF "reset" \in body.given THEN Cardinality(Steps({"changeIf"})) ELSE 0)

Told(statuses) == at = "done" /\ answer \in statuses

(* A group is made before its members are asked for, the privacy settings  *)
(* are written one by one, and React has sent its message when it looks for*)
(* its own address: an error leaves what has been done.                    *)
PartOf == {"CreateGroup", "SetPrivacy", "React"}

(* Unless an answer of WhatsApp was lost, a request is answered with       *)
(* success when everything it asks for has been done, but for the groups of*)
(* a community that are listed as failed, and what was refused or failed   *)
(* has changed nothing, but in the operations that have several parts      *)
(* (community_service.go:119, group_service.go:366).                       *)
AnswerIsTrue ==
  ~lost =>
    /\ Told({"ok", "created"}) => changes + Cardinality(failed) = Promised
    /\ Told({"refused", "unauthorized", "notFound", "error", "panic"}) =>
         changes = 0 \/ request.op \in PartOf

(* A handler panics on a "null" body, on a history request without its     *)
(* message, on a client that was logged out under it, or in SendService.   *)
PanicIsKnown ==
  Told({"panic"}) =>
    \/ body.form = "null"
    \/ request.op = "HistorySyncRequest"
    \/ request.op \in {"React", "GetMyGroups"} /\ held = "loggedOut"
    \/ request.op \in DOMAIN SendRoutes

Coordinates == {"latitude", "longitude"}

(* A coordinate of 0 is one, though SendLocation takes it for a missing    *)
(* one.                                                                    *)
Given == request.body.given \cup (request.body.blank \cap Coordinates)

Complete ==
  /\ request.key = Route.auth
  /\ request.body.blank \subseteq Coordinates
  /\ \/ ~Route.handler.body
     \/ request.body.form = "json" /\ Route.handler.wants \subseteq Given
     \/ /\ request.body.form = "multipart"
        /\ Route.handler.form # {} /\ Route.handler.form \subseteq Given
  /\ request.body.listed = Route.handler.lists \cap Given
  /\ \A i \in Steps({"need", "deref"}) : Service[i].field \in Given
  /\ ParseJID(request.body.to) # Invalid

(* A request that gives everything its handler and its service look at, in *)
(* the type they want and with a number, is served when nothing fails.  It *)
(* is so but for two: a place on the equator or on the prime meridian      *)
(* cannot be sent, and nobody can change the participants of a group,      *)
(* since the middleware of /group/participant wants a string where its     *)
(* handler wants a list (routes.go:211).                                   *)
CompleteIsServed ==
  IF request.op = "UpdateParticipant"
    THEN changes = 0
    ELSE at = "done" /\ Complete /\ ~trouble =>
           \/ answer \in {"ok", "created"}
           \/ request.op = "SendLocation" /\ request.body.blank # {}

(* A number is normalised once: to do it again, as the middleware, the     *)
(* service and the question to WhatsApp may, changes nothing, and it keeps *)
(* every digit but one of a long Brazilian or Argentine number, or two of  *)
(* a Mexican one, and nothing of what followed a ":".  What came as an     *)
(* address, or is bound as one, is used as it came.                        *)
AddressIsSettled ==
  reached # Invalid =>
    IF Steps({"typed"}) # {} \/ request.body.to.server # "none"
      THEN reached = request.body.to
      ELSE /\ CreateJID(reached) = reached /\ reached.rest = <<>>
           /\ PrepareNumber(reached, TRUE).digits = reached.digits
           /\ Len(request.body.to.digits) - Len(reached.digits) \in
                (IF StartsWith(reached.digits, <<5, 2>>) THEN {0, 2} ELSE {0, 1})
=============================================================================
