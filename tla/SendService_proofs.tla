------------------------- MODULE SendService_proofs -------------------------
(***************************************************************************)
(* What holds of SendService for every set of requests, whatever they ask  *)
(* for: its types, that it keeps SendContract, what the contract is worth, *)
(* and when a request panics.                                              *)
(*                                                                         *)
(* All need to know what a request has sent at each of its calls: nothing  *)
(* before "send", not everything there, and one message at "report".       *)
(***************************************************************************)
EXTENDS SendService, TLAPS

Before == {"idle", "ensure", "started", "reconnect", "restart", "build"}

Progress ==
  \A r \in Request :
    /\ answer[r] = "none" <=> request[r].pc # "done"
    /\ request[r].pc \notin {"send", "report", "done"} => delivered[r] = 0
    /\ request[r].pc = "send" => delivered[r] < Parts(body[r])
    /\ request[r].pc = "send" /\ body[r].kind # "album" => delivered[r] = 0
    /\ request[r].pc = "report" =>
         body[r].kind # "album" /\ delivered[r] = 1

(* The audio has been converted at most once in each attempt.              *)
Conversions ==
  \A r \in Request :
    /\ request[r].converted <= request[r].attempt
    /\ request[r].pc \in Before => request[r].converted < request[r].attempt

(* Nothing has been told of a request that has not been answered.          *)
Unpublished == \A r \in Request : answer[r] = "none" => published[r] = 0

IInv == TypeOK /\ Progress /\ Conversions /\ Unpublished

------------------------------------------------------------------------------
(* What a request asks for has a type, and one message at least.           *)
LEMMA BodyTyped ==
  ASSUME TypeOK, NEW r \in Request
  PROVE  /\ body[r] \in BodyType
         /\ Parts(body[r]) \in 1..22
         /\ body[r].kind # "album" => Parts(body[r]) = 1
         /\ Events(body[r]) \in {0, 1}
<1>1. body[r] \in BodyType
  BY BodiesAssumption DEF TypeOK
<1>2. body[r].items \in 0..21
  BY <1>1 DEF BodyType
<1> QED BY <1>1, <1>2 DEF Parts, Events

(* The state of a request has its fields.                                  *)
LEMMA StateFields ==
  ASSUME NEW s \in RequestState
  PROVE  /\ s.pc \in RequestPc /\ s.attempt \in 1..3 /\ s.try \in 1..2
         /\ s.held \in {"none", "current", "gone"} /\ s.converted \in 0..3
         /\ \A pc \in RequestPc : [s EXCEPT !.pc = pc] \in RequestState
         /\ \A pc \in RequestPc, h \in {"none", "current", "gone"} :
              [s EXCEPT !.pc = pc, !.held = h] \in RequestState
         /\ \A h \in {"none", "current", "gone"} :
              [s EXCEPT !.held = h] \in RequestState
         /\ \A pc \in RequestPc, a \in 1..3 :
              [s EXCEPT !.pc = pc, !.attempt = a, !.try = 1] \in RequestState
         /\ \A pc \in RequestPc, t \in 1..2 :
              [s EXCEPT !.pc = pc, !.try = t] \in RequestState
         /\ \A pc \in RequestPc, n \in 0..3 :
              [s EXCEPT !.pc = pc, !.converted = n] \in RequestState
<1>1. /\ s.pc \in RequestPc /\ s.attempt \in 1..3 /\ s.try \in 1..2
      /\ s.held \in {"none", "current", "gone"} /\ s.converted \in 0..3
  BY DEF RequestState, MaxRetries, MaxConnectTries
<1>2. \A pc \in RequestPc : [s EXCEPT !.pc = pc] \in RequestState
  BY DEF RequestState
<1>3. \A pc \in RequestPc, h \in {"none", "current", "gone"} :
        [s EXCEPT !.pc = pc, !.held = h] \in RequestState
  BY DEF RequestState
<1>4. \A h \in {"none", "current", "gone"} :
        [s EXCEPT !.held = h] \in RequestState
  BY DEF RequestState
<1>5. \A pc \in RequestPc, a \in 1..3 :
        [s EXCEPT !.pc = pc, !.attempt = a, !.try = 1] \in RequestState
  <2> TAKE pc \in RequestPc, a \in 1..3
  <2> DEFINE t == [s EXCEPT !.pc = pc, !.attempt = a]
  <2>1. t \in RequestState
    BY DEF RequestState, MaxRetries
  <2>2. ASSUME NEW u \in RequestState PROVE [u EXCEPT !.try = 1] \in RequestState
    BY DEF RequestState, MaxConnectTries
  <2>3. [t EXCEPT !.try = 1] \in RequestState
    BY <2>1, <2>2
  <2> QED BY <2>3
<1>6. \A pc \in RequestPc, t \in 1..2 :
        [s EXCEPT !.pc = pc, !.try = t] \in RequestState
  BY DEF RequestState, MaxConnectTries
<1>7. \A pc \in RequestPc, n \in 0..3 :
        [s EXCEPT !.pc = pc, !.converted = n] \in RequestState
  BY DEF RequestState, MaxRetries
<1> QED BY <1>1, <1>2, <1>3, <1>4, <1>5, <1>6, <1>7

LEMMA LocalTyped == \A pc \in RequestPc : Local(pc) \in RequestState
BY DEF Local, RequestState, MaxRetries, MaxConnectTries

------------------------------------------------------------------------------
(* How a step of a request looks from outside.                             *)

(* It goes to one of its other calls, up to the sending of its message.    *)
Goes(r) ==
  /\ request[r].pc \notin {"send", "report", "done"}
  /\ request'[r].pc \notin {"report", "done"}
  /\ request'[r].converted <= request'[r].attempt
  /\ request'[r].pc \in Before => request'[r].converted < request'[r].attempt
  /\ UNCHANGED effects

(* It ends with an answer that is not "ok".                                *)
Ends(r) ==
  \E a \in {"error", "panic"} :
    /\ Answer(r, a)
    /\ request[r].pc # "done"
    /\ request[r].pc = "report" => a = "panic"

(* Every state keeps its type, and the others stay where they are, but for *)
(* the client that may have gone.                                          *)
Kept(r) ==
  /\ request' \in [Request -> RequestState]
  /\ \A q \in Request \ {r} :
       \/ request'[q] = request[q]
       \/ request'[q] = [request[q] EXCEPT !.held = "gone"]

(* The number of parts that a request can ask for is typed, and no step    *)
(* changes what it asks for.                                               *)
LEMMA GoneKeeps ==
  ASSUME TypeOK
  PROVE  /\ Gone(request) \in [Request -> RequestState]
         /\ \A q \in Request :
              /\ \/ Gone(request)[q] = request[q]
                 \/ Gone(request)[q] = [request[q] EXCEPT !.held = "gone"]
              /\ Gone(request)[q].pc = request[q].pc
              /\ Gone(request)[q].attempt = request[q].attempt
              /\ Gone(request)[q].converted = request[q].converted
<1>1. ASSUME NEW q \in Request
      PROVE  /\ Gone(request)[q] \in RequestState
             /\ \/ Gone(request)[q] = request[q]
                \/ Gone(request)[q] = [request[q] EXCEPT !.held = "gone"]
  BY <1>1, StateFields DEF Gone, TypeOK
<1>2. ASSUME NEW q \in Request
      PROVE  /\ Gone(request)[q].pc = request[q].pc
             /\ Gone(request)[q].attempt = request[q].attempt
             /\ Gone(request)[q].converted = request[q].converted
  BY ZenonT(60), <1>1, <1>2 DEF TypeOK, RequestState
<1> QED BY <1>1, <1>2 DEF Gone

(* A request that goes to another call of the same attempt.                *)
LEMMA GoToKeeps ==
  ASSUME IInv, NEW r \in Request, NEW pc \in RequestPc \ {"idle", "report", "done"},
         GoTo(r, pc), UNCHANGED effects,
         request[r].pc \notin {"send", "report", "done"},
         pc \in Before => request[r].pc \in Before
  PROVE  Kept(r) /\ Goes(r)
<1>1. request[r] \in RequestState
  BY DEF IInv, TypeOK
<1>2. [request[r] EXCEPT !.pc = pc] \in RequestState
  BY <1>1, StateFields
<1>3. request'[r] = [request[r] EXCEPT !.pc = pc]
  BY DEF GoTo, IInv, TypeOK
<1>4. /\ request'[r].pc = pc
      /\ request'[r].attempt = request[r].attempt
      /\ request'[r].converted = request[r].converted
  BY <1>1, <1>3 DEF RequestState
<1>5. Kept(r)
  BY <1>2 DEF GoTo, Kept, IInv, TypeOK
<1>6. request[r].converted <= request[r].attempt
  BY DEF IInv, Conversions
<1>7. request[r].pc \in Before => request[r].converted < request[r].attempt
  BY DEF IInv, Conversions
<1> QED BY <1>4, <1>5, <1>6, <1>7 DEF Goes

(* A request that is answered.                                             *)
LEMMA AnswerKeeps ==
  ASSUME TypeOK, NEW r \in Request, NEW a, Answer(r, a)
  PROVE  Kept(r) /\ request'[r] = Local("done")
<1>1. Local("done") \in RequestState
  BY LocalTyped DEF RequestPc
<1> QED BY <1>1 DEF Answer, Ended, Kept, TypeOK

(* A request that begins a new attempt, or is out of them.                 *)
LEMMA AttemptKeeps ==
  ASSUME IInv, NEW r \in Request, NextAttempt(r),
         request[r].pc \notin {"send", "report", "done"}
  PROVE  Kept(r) /\ (Goes(r) \/ Ends(r))
<1>1. request[r] \in RequestState
  BY DEF IInv, TypeOK
<1>2. /\ request[r].attempt \in 1..3 /\ request[r].converted \in 0..3
      /\ request[r].converted <= request[r].attempt
  BY <1>1, StateFields DEF IInv, Conversions
<1>3. CASE request[r].attempt < MaxRetries
  <2> DEFINE s == [request[r] EXCEPT !.pc = "ensure",
                     !.attempt = request[r].attempt + 1, !.try = 1]
  <2>1. request[r].attempt + 1 \in 1..3
    BY <1>2, <1>3 DEF MaxRetries
  <2>2. s \in RequestState
    BY ZenonT(60), <1>1, <2>1, StateFields DEF RequestPc
  <2>3. request' = [request EXCEPT ![r] = s] /\ UNCHANGED effects
    BY <1>3 DEF NextAttempt
  <2>4. request'[r] = s
    BY <2>3 DEF IInv, TypeOK
  <2>5. /\ s.pc = "ensure" /\ s.attempt = request[r].attempt + 1
        /\ s.converted = request[r].converted
    BY <1>1 DEF RequestState
  <2>6. Kept(r)
    BY <2>2, <2>3 DEF Kept, IInv, TypeOK
  <2>7. /\ request[r].converted < request[r].attempt + 1
        /\ request[r].converted <= request[r].attempt + 1
    BY <1>2
  <2> HIDE DEF s
  <2> QED BY <1>2, <2>3, <2>4, <2>5, <2>6, <2>7 DEF Goes
<1>4. CASE ~(request[r].attempt < MaxRetries)
  <2>1. Answer(r, "error")
    BY <1>4 DEF NextAttempt
  <2> QED BY <2>1, AnswerKeeps DEF Ends, IInv
<1> QED BY <1>3, <1>4

------------------------------------------------------------------------------
(* The calls before the sending.                                           *)

LEMMA EarlyStep ==
  ASSUME IInv, NEW r \in Request,
         \/ Arrive(r) \/ ensureClientConnected(r) \/ Recheck(r)
         \/ ReconnectClient(r) \/ Restart(r) \/ Build(r)
         \/ Validate(r) \/ CheckClient(r) \/ CheckStarted(r)
         \/ Composing(r) \/ Paused(r) \/ Address(r)
  PROVE  body' = body /\ Kept(r) /\ (Goes(r) \/ Ends(r))
<1> USE DEF At
<1>0. /\ request[r] \in RequestState
      /\ request[r].converted <= request[r].attempt
      /\ request[r].attempt \in 1..3 /\ request[r].converted \in 0..3
      /\ request[r].pc \in Before => request[r].converted < request[r].attempt
  <2>1. request[r] \in RequestState
    BY DEF IInv, TypeOK
  <2> QED BY <2>1, StateFields DEF IInv, Conversions
<1>a. ASSUME NEW a \in {"error", "panic"}, Answer(r, a),
             request[r].pc \notin {"report", "done"}
      PROVE  Kept(r) /\ Ends(r)
  BY <1>a, AnswerKeeps DEF Ends, IInv
<1>f. ASSUME Found(r), UNCHANGED effects, request[r].pc \in Before
      PROVE  Kept(r) /\ Goes(r)
  <2> DEFINE s == [request[r] EXCEPT !.pc = "build", !.held = "current"]
  <2>1. s \in RequestState
    BY <1>0, StateFields DEF RequestPc
  <2>2. request' = [request EXCEPT ![r] = s]
    BY <1>f DEF Found
  <2>3. request'[r] = s
    BY <2>2 DEF IInv, TypeOK
  <2>4. /\ s.pc = "build" /\ s.attempt = request[r].attempt
        /\ s.converted = request[r].converted
    BY <1>0 DEF RequestState
  <2>5. Kept(r)
    BY <2>1, <2>2 DEF Kept, IInv, TypeOK
  <2> QED BY <1>0, <1>f, <2>3, <2>4, <2>5 DEF Goes, Before
<1>u. ASSUME Unreachable(r), request[r].pc \in {"ensure", "started"}
      PROVE  Kept(r) /\ (Goes(r) \/ Ends(r))
  <2>1. CASE GoTo(r, "reconnect") /\ UNCHANGED effects
    BY <1>u, <2>1, GoToKeeps DEF RequestPc, Before
  <2>2. CASE Answer(r, "error")
    BY <1>a, <1>u, <2>2
  <2> QED BY <1>u, <2>1, <2>2 DEF Unreachable
<1>d. ASSUME Disconnected(r), request[r].pc \in {"check", "checkStarted"}
      PROVE  Kept(r) /\ (Goes(r) \/ Ends(r))
  <2>1. CASE NextAttempt(r)
    BY <1>d, <2>1, AttemptKeeps
  <2>2. CASE Answer(r, "error")
    BY <1>a, <1>d, <2>2
  <2> QED BY <1>d, <2>1, <2>2 DEF Disconnected
<1>k. ASSUME Checked(r), request[r].pc \in {"check", "checkStarted"}
      PROVE  Kept(r) /\ (Goes(r) \/ Ends(r))
  <2>1. CASE GoTo(r, "presence") /\ UNCHANGED effects
    BY <1>k, <2>1, GoToKeeps DEF RequestPc, Before
  <2>2. CASE Answer(r, "error")
    BY <1>a, <1>k, <2>2
  <2> QED BY <1>k, <2>1, <2>2 DEF Checked
<1>1. CASE Arrive(r)
  <2>1. CASE Answer(r, "error")
    BY <1>1, <1>a, <2>1 DEF Arrive
  <2>2. CASE /\ GoTo(r, IF body[r].kind = "list" THEN "build" ELSE "ensure")
             /\ UNCHANGED effects
    BY <1>1, <2>2, GoToKeeps DEF Arrive, RequestPc, Before
  <2> QED BY <1>1, <2>1, <2>2 DEF Arrive
<1>2. CASE ensureClientConnected(r)
  <2>1. CASE StartInstance(r, "started")
    BY <1>2, <2>1, GoToKeeps
       DEF ensureClientConnected, StartInstance, RequestPc, Before
  <2>2. CASE Unreachable(r)
    BY <1>2, <1>u, <2>2 DEF ensureClientConnected
  <2>3. CASE Found(r) /\ UNCHANGED effects
    BY <1>2, <1>f, <2>3 DEF ensureClientConnected, Before
  <2> QED BY <1>2, <2>1, <2>2, <2>3 DEF ensureClientConnected
<1>3. CASE Recheck(r)
  BY <1>3, <1>f, <1>u DEF Recheck, Before
<1>4. CASE ReconnectClient(r)
  <2> DEFINE s == [Gone(request)[r] EXCEPT !.pc = "restart"]
  <2>0. TypeOK
    BY DEF IInv
  <2>1. /\ Gone(request)[r] \in RequestState
        /\ Gone(request)[r].attempt = request[r].attempt
        /\ Gone(request)[r].converted = request[r].converted
    BY <2>0, GoneKeeps
  <2>2. s \in RequestState
    BY <2>1, StateFields DEF RequestPc
  <2>3. request' = [Gone(request) EXCEPT ![r] = s]
    BY <1>4 DEF ReconnectClient
  <2>4. request'[r] = s
    BY <2>0, <2>3, GoneKeeps
  <2>5. /\ s.pc = "restart" /\ s.attempt = request[r].attempt
        /\ s.converted = request[r].converted
    BY <2>1 DEF RequestState
  <2>6. Kept(r)
    BY <2>0, <2>2, <2>3, GoneKeeps DEF Kept
  <2> QED BY <1>0, <1>4, <2>4, <2>5, <2>6 DEF Goes, ReconnectClient, Before
<1>5. CASE Restart(r)
  <2>1. CASE /\ request' = [request EXCEPT ![r].pc = "ensure", ![r].try = @ + 1]
             /\ request[r].try < MaxConnectTries
             /\ UNCHANGED effects
    <3> DEFINE s == [request[r] EXCEPT !.pc = "ensure", !.try = request[r].try + 1]
    <3>0. request[r].try \in 1..2 /\ request[r].try < 2
      BY <1>0, <2>1, StateFields DEF MaxConnectTries
    <3>1. request[r].try + 1 \in 1..2
      BY <3>0
    <3>2. s \in RequestState
      BY <1>0, <3>1, StateFields DEF RequestPc
    <3>3. request' = [request EXCEPT ![r] = s]
      BY <2>1
    <3>4. request'[r] = s
      BY <3>3 DEF IInv, TypeOK
    <3>5. /\ s.pc = "ensure" /\ s.attempt = request[r].attempt
          /\ s.converted = request[r].converted
      BY <1>0 DEF RequestState
    <3>6. Kept(r)
      BY <3>2, <3>3 DEF Kept, IInv, TypeOK
    <3> QED BY <1>0, <1>5, <2>1, <3>4, <3>5, <3>6 DEF Goes, Restart, Before
  <2>2. CASE NextAttempt(r)
    BY <1>5, <2>2, AttemptKeeps DEF Restart
  <2> QED BY <1>5, <2>1, <2>2 DEF Restart, NextTry
<1>6. CASE Build(r)
  <2>1. PICK o \in Outcomes(body[r]) :
          CASE o = "ok" ->
                 /\ request' = [request EXCEPT
                      ![r].pc = AfterBuild(body[r]),
                      ![r].converted = Converted(body[r], @)]
                 /\ UNCHANGED effects
            [] o = "fail" -> Answer(r, "error")
            [] o = "again" -> NextAttempt(r)
    BY <1>6 DEF Build
  <2>2. o \in {"ok", "fail", "again"}
    <3>1. body[r].kind \in HeldKind \cup LookupKind
      BY BodyTyped DEF BodyType, IInv
    <3> QED BY <3>1 DEF Outcomes, HeldKind, LookupKind, RetriedKind, StatusKind,
               BuildLink, OrFails, BuildSticker, BuildButton, BuildCarousel,
               BuildStatusText, BuildAlbum
  <2>3. CASE o = "ok"
    <3> DEFINE n == Converted(body[r], request[r].converted)
    <3> DEFINE s == [request[r] EXCEPT !.pc = AfterBuild(body[r]), !.converted = n]
    <3>1. request[r].converted < request[r].attempt
      BY <1>0, <1>6 DEF Build, Before
    <3>2. n \in 0..3 /\ n <= request[r].attempt
      BY <1>0, <3>1 DEF Converted
    <3>3. AfterBuild(body[r]) \in {"send", "validate"}
      BY DEF AfterBuild
    <3>4. s \in RequestState
      BY <1>0, <3>2, <3>3, StateFields DEF RequestPc
    <3>5. request' = [request EXCEPT ![r] = s] /\ UNCHANGED effects
      BY <2>1, <2>3
    <3>6. request'[r] = s
      BY <3>5 DEF IInv, TypeOK
    <3>7. /\ s.pc = AfterBuild(body[r]) /\ s.attempt = request[r].attempt
          /\ s.converted = n
      BY <1>0 DEF RequestState
    <3>8. Kept(r)
      BY <3>4, <3>5 DEF Kept, IInv, TypeOK
    <3> HIDE DEF s, n
    <3> QED BY <1>6, <3>2, <3>3, <3>5, <3>6, <3>7, <3>8 DEF Goes, Build, Before
  <2>4. CASE o = "fail"
    BY <1>6, <1>a, <2>1, <2>4 DEF Build
  <2>5. CASE o = "again"
    BY <1>6, <2>1, <2>5, AttemptKeeps DEF Build
  <2> QED BY <2>2, <2>3, <2>4, <2>5
<1>7. CASE Validate(r)
  <2>1. CASE GoTo(r, "check") /\ UNCHANGED effects
    BY <1>7, <2>1, GoToKeeps DEF Validate, RequestPc, Before
  <2>2. CASE Answer(r, "error")
    BY <1>7, <1>a, <2>2 DEF Validate
  <2>3. CASE GoTo(r, "presence") /\ UNCHANGED effects
    BY <1>7, <2>3, GoToKeeps DEF Validate, RequestPc, Before
  <2> QED BY <1>7, <2>1, <2>2, <2>3 DEF Validate
<1>8. CASE CheckClient(r)
  <2>1. CASE StartInstance(r, "checkStarted")
    BY <1>8, <2>1, GoToKeeps DEF CheckClient, StartInstance, RequestPc, Before
  <2> QED BY <1>8, <1>d, <1>k, <2>1 DEF CheckClient
<1>9. CASE CheckStarted(r)
  BY <1>9, <1>d, <1>k DEF CheckStarted
<1>10. CASE Composing(r) \/ Paused(r)
  <2>1. request[r].pc \in {"presence", "typing"} /\ body' = body
    BY <1>10 DEF Composing, Paused
  <2>2. CASE GoTo(r, "typing") /\ UNCHANGED effects
    BY <2>1, <2>2, GoToKeeps DEF RequestPc, Before
  <2>3. CASE GoTo(r, "address") /\ UNCHANGED effects
    BY <2>1, <2>3, GoToKeeps DEF RequestPc, Before
  <2>4. CASE Answer(r, "error")
    BY <1>a, <2>1, <2>4
  <2> QED BY <1>10, <2>1, <2>2, <2>3, <2>4 DEF Composing, Paused, MayFail
<1>11. CASE Address(r)
  <2>1. request[r].pc = "address" /\ body' = body
    BY <1>11 DEF Address
  <2>2. CASE GoTo(r, "send") /\ UNCHANGED effects
    BY <2>1, <2>2, GoToKeeps DEF RequestPc, Before
  <2>3. CASE Answer(r, "error") \/ Answer(r, "panic")
    BY <1>a, <2>1, <2>3
  <2> QED BY <1>11, <2>1, <2>2, <2>3 DEF Address
<1> QED BY <1>1, <1>2, <1>3, <1>4, <1>5, <1>6, <1>7, <1>8, <1>9, <1>10, <1>11
        DEF Arrive, ensureClientConnected, Recheck, ReconnectClient, Restart,
            Build, Validate, CheckClient, CheckStarted

------------------------------------------------------------------------------
(* The sending, and what is told of it.                                    *)

(* One more part has been sent, and another call of the request is next.   *)
Delivers(r) ==
  /\ delivered' = [delivered EXCEPT ![r] = @ + 1]
  /\ delivered[r] < Parts(body[r])
  /\ request[r].pc = "send"
  /\ \/ /\ body[r].kind = "album" /\ request' = request
        /\ delivered[r] + 1 # Parts(body[r])
        /\ UNCHANGED <<answer, published>>
     \/ /\ body[r].kind # "album" /\ GoTo(r, "report")
        /\ UNCHANGED <<answer, published>>
     \/ /\ request' = Ended(r)
        /\ answer' = [answer EXCEPT ![r] = "error"]
        /\ UNCHANGED published

(* "ok": after the message, or with the last part of an album.             *)
Succeeds(r) ==
  /\ request' = Ended(r)
  /\ answer' = [answer EXCEPT ![r] = "ok"]
  /\ \/ /\ request[r].pc = "report" /\ UNCHANGED delivered
        /\ published' = [published EXCEPT ![r] = Events(body[r])]
     \/ /\ request[r].pc = "send" /\ body[r].kind = "album"
        /\ delivered' = [delivered EXCEPT ![r] = @ + 1]
        /\ delivered[r] + 1 = Parts(body[r])
        /\ UNCHANGED published

LEMMA LateStep ==
  ASSUME IInv, NEW r \in Request, Send(r) \/ Report(r) \/ AlbumPart(r)
  PROVE  body' = body /\ (Delivers(r) \/ Succeeds(r) \/ Ends(r))
<1> USE DEF At, IInv, Progress
<1>1. CASE Send(r)
  <2>1. CASE AnswerLost(r)
    BY <1>1, <2>1 DEF Send, AnswerLost, Accepted, Delivers
  <2>2. CASE Refused(r)
    BY <1>1, <2>2 DEF Send, Refused, Ends
  <2> QED BY <1>1, <2>1, <2>2 DEF Send, Accepted, Delivers
<1>2. CASE Report(r)
  <2>1. CASE Answer(r, "panic")
    BY <1>2, <2>1 DEF Report, Ends
  <2> QED BY <1>2, <2>1 DEF Report, Succeeds
<1>3. CASE AlbumPart(r)
  <2>1. CASE AnswerLost(r)
    BY <1>3, <2>1 DEF AlbumPart, AnswerLost, Accepted, Delivers
  <2>2. CASE Refused(r)
    BY <1>3, <2>2 DEF AlbumPart, Refused, Ends
  <2> QED BY <1>3, <2>1, <2>2 DEF AlbumPart, Accepted, Delivers, Succeeds
<1> QED BY <1>1, <1>2, <1>3

------------------------------------------------------------------------------
(* The invariant.                                                          *)

LEMMA InitIInv == Init => IInv
<1> SUFFICES ASSUME Init PROVE IInv
  OBVIOUS
<1>1. Local("idle") \in RequestState
  BY LocalTyped DEF RequestPc
<1>2. TypeOK
  BY <1>1, StartingAssumption DEF Init, TypeOK
<1>3. /\ Local("idle").pc = "idle" /\ Local("idle").attempt = 1
      /\ Local("idle").converted = 0
  BY DEF Local
<1>4. Progress
  BY <1>3 DEF Init, Progress
<1>5. Conversions
  <2> SUFFICES ASSUME NEW r \in Request
               PROVE  /\ request[r].converted <= request[r].attempt
                      /\ request[r].converted < request[r].attempt
    BY DEF Conversions
  <2>1. request[r].converted = 0 /\ request[r].attempt = 1
    BY <1>3 DEF Init
  <2> QED BY <2>1
<1>6. Unpublished
  BY DEF Init, Unpublished
<1> QED BY <1>2, <1>4, <1>5, <1>6 DEF IInv

(* A request whose state has kept all but its client is as it was.         *)
LEMMA OtherKept ==
  ASSUME IInv, NEW r \in Request, Kept(r), NEW q \in Request, q # r
  PROVE  /\ request'[q].pc = request[q].pc
         /\ request'[q].attempt = request[q].attempt
         /\ request'[q].converted = request[q].converted
<1>1. request[q] \in RequestState
  BY DEF IInv, TypeOK
<1>2. CASE request'[q] = request[q]
  BY <1>2
<1>3. CASE request'[q] = [request[q] EXCEPT !.held = "gone"]
  BY <1>1, <1>3 DEF RequestState
<1> QED BY <1>2, <1>3 DEF Kept

LEMMA GoesIInv ==
  ASSUME IInv, NEW r \in Request, body' = body, Kept(r), Goes(r),
         conn' \in {"none", "down", "up"}, starting' \in 0..MaxStarting
  PROVE  IInv'
<1>1. TypeOK'
  BY DEF IInv, TypeOK, Kept, Goes, effects
<1>2. Progress'
  <2> SUFFICES ASSUME NEW q \in Request
               PROVE  /\ answer'[q] = "none" <=> request'[q].pc # "done"
                      /\ request'[q].pc \notin {"send", "report", "done"} =>
                           delivered'[q] = 0
                      /\ request'[q].pc = "send" =>
                           delivered'[q] < Parts(body'[q])
                      /\ request'[q].pc = "send" /\ body'[q].kind # "album" =>
                           delivered'[q] = 0
                      /\ request'[q].pc = "report" =>
                           body'[q].kind # "album" /\ delivered'[q] = 1
    BY DEF Progress
  <2>1. CASE q = r
    <3>1. delivered[r] = 0 /\ answer[r] = "none"
      BY DEF Goes, IInv, Progress
    <3>2. 0 < Parts(body[r])
      BY BodyTyped DEF IInv
    <3> QED BY <2>1, <3>1, <3>2 DEF Goes, effects
  <2>2. CASE q # r
    BY <2>2, OtherKept DEF Goes, effects, IInv, Progress
  <2> QED BY <2>1, <2>2
<1>3. Conversions'
  BY OtherKept DEF Goes, IInv, Conversions
<1>4. Unpublished'
  BY DEF Goes, effects, IInv, Unpublished
<1> QED BY <1>1, <1>2, <1>3, <1>4 DEF IInv

(* Ended: the request is as at the start, but for its call.                *)
LEMMA EndedState ==
  ASSUME TypeOK, NEW r \in Request, request' = Ended(r)
  PROVE  /\ Kept(r)
         /\ request'[r].pc = "done" /\ request'[r].attempt = 1
         /\ request'[r].converted = 0
<1>1. Local("done") \in RequestState
  BY LocalTyped DEF RequestPc
<1>2. request'[r] = Local("done") /\ Kept(r)
  BY <1>1 DEF Ended, Kept, TypeOK
<1> QED BY <1>2 DEF Local

LEMMA DoneIInv ==
  ASSUME IInv, NEW r \in Request, body' = body, request' = Ended(r),
         NEW a \in {"ok", "error", "panic"},
         answer' = [answer EXCEPT ![r] = a],
         delivered' \in [Request -> 0..22],
         \A q \in Request : q # r => delivered'[q] = delivered[q],
         published' \in [Request -> {0, 1}],
         \A q \in Request : q # r => published'[q] = published[q],
         conn' \in {"none", "down", "up"}, starting' \in 0..MaxStarting
  PROVE  IInv'
<1>0. /\ Kept(r)
      /\ request'[r].pc = "done" /\ request'[r].attempt = 1
      /\ request'[r].converted = 0
  BY EndedState DEF IInv
<1>1. TypeOK'
  BY <1>0 DEF IInv, TypeOK, Kept
<1>2. Progress'
  <2> SUFFICES ASSUME NEW q \in Request
               PROVE  /\ answer'[q] = "none" <=> request'[q].pc # "done"
                      /\ request'[q].pc \notin {"send", "report", "done"} =>
                           delivered'[q] = 0
                      /\ request'[q].pc = "send" =>
                           delivered'[q] < Parts(body'[q])
                      /\ request'[q].pc = "send" /\ body'[q].kind # "album" =>
                           delivered'[q] = 0
                      /\ request'[q].pc = "report" =>
                           body'[q].kind # "album" /\ delivered'[q] = 1
    BY DEF Progress
  <2>1. CASE q = r
    BY <1>0, <2>1 DEF IInv, TypeOK
  <2>2. CASE q # r
    <3>1. answer'[q] = answer[q]
      BY <2>2 DEF IInv, TypeOK
    <3> QED BY <1>0, <2>2, <3>1, OtherKept DEF IInv, Progress
  <2> QED BY <2>1, <2>2
<1>3. Conversions'
  <2> SUFFICES ASSUME NEW q \in Request
               PROVE  /\ request'[q].converted <= request'[q].attempt
                      /\ request'[q].pc \in Before =>
                           request'[q].converted < request'[q].attempt
    BY DEF Conversions
  <2>1. CASE q = r
    BY <1>0, <2>1
  <2>2. CASE q # r
    BY <1>0, <2>2, OtherKept DEF IInv, Conversions
  <2> QED BY <2>1, <2>2
<1>4. Unpublished'
  BY DEF IInv, TypeOK, Unpublished
<1> QED BY <1>1, <1>2, <1>3, <1>4 DEF IInv

LEMMA DeliversIInv ==
  ASSUME IInv, NEW r \in Request, body' = body, Delivers(r),
         conn' \in {"none", "down", "up"}, starting' \in 0..MaxStarting
  PROVE  IInv'
<1>1. /\ Parts(body[r]) \in 1..22 /\ delivered[r] \in 0..22
      /\ body[r].kind # "album" => Parts(body[r]) = 1
  BY BodyTyped DEF IInv, TypeOK
<1>2. delivered[r] + 1 \in 0..22
  BY <1>1 DEF Delivers
<1>3. /\ delivered' \in [Request -> 0..22]
      /\ delivered'[r] = delivered[r] + 1
      /\ \A q \in Request : q # r => delivered'[q] = delivered[q]
  BY <1>2 DEF Delivers, IInv, TypeOK
<1>4. CASE /\ request' = Ended(r)
           /\ answer' = [answer EXCEPT ![r] = "error"]
           /\ UNCHANGED published
  <2>1. published' \in [Request -> {0, 1}]
    BY <1>4 DEF IInv, TypeOK
  <2> QED BY <1>3, <1>4, <2>1, DoneIInv
<1>5. CASE /\ body[r].kind = "album" /\ request' = request
           /\ delivered[r] + 1 # Parts(body[r])
           /\ UNCHANGED <<answer, published>>
  <2>1. TypeOK'
    BY <1>3, <1>5 DEF IInv, TypeOK
  <2>2. delivered[r] + 1 < Parts(body[r])
    BY <1>1, <1>5 DEF Delivers
  <2>3. Progress'
    BY <1>3, <1>5, <2>2 DEF IInv, Progress, Delivers
  <2>4. Conversions'
    BY <1>5 DEF IInv, Conversions
  <2>5. Unpublished'
    BY <1>5 DEF IInv, Unpublished
  <2> QED BY <2>1, <2>3, <2>4, <2>5 DEF IInv
<1>6. CASE /\ body[r].kind # "album" /\ GoTo(r, "report")
           /\ UNCHANGED <<answer, published>>
  <2>1. request[r] \in RequestState /\ delivered[r] = 0 /\ answer[r] = "none"
    BY <1>6 DEF IInv, TypeOK, Progress, Delivers
  <2>2. [request[r] EXCEPT !.pc = "report"] \in RequestState
    BY <2>1, StateFields DEF RequestPc
  <2>3. Kept(r) /\ request'[r] = [request[r] EXCEPT !.pc = "report"]
    BY <1>6, <2>2 DEF GoTo, Kept, IInv, TypeOK
  <2>4. /\ request'[r].pc = "report"
        /\ request'[r].attempt = request[r].attempt
        /\ request'[r].converted = request[r].converted
    BY <2>1, <2>3 DEF RequestState
  <2>5. TypeOK'
    BY <1>3, <1>6, <2>3 DEF IInv, TypeOK, Kept
  <2>6. Progress'
    <3> SUFFICES ASSUME NEW q \in Request
                 PROVE  /\ answer'[q] = "none" <=> request'[q].pc # "done"
                        /\ request'[q].pc \notin {"send", "report", "done"} =>
                             delivered'[q] = 0
                        /\ request'[q].pc = "send" =>
                             delivered'[q] < Parts(body'[q])
                        /\ request'[q].pc = "send" /\ body'[q].kind # "album" =>
                             delivered'[q] = 0
                        /\ request'[q].pc = "report" =>
                             body'[q].kind # "album" /\ delivered'[q] = 1
      BY DEF Progress
    <3>1. CASE q = r
      BY <1>3, <1>6, <2>1, <2>4, <3>1
    <3>2. CASE q # r
      BY <1>3, <1>6, <2>3, <3>2, OtherKept DEF IInv, Progress
    <3> QED BY <3>1, <3>2
  <2>7. Conversions'
    <3> SUFFICES ASSUME NEW q \in Request
                 PROVE  /\ request'[q].converted <= request'[q].attempt
                        /\ request'[q].pc \in Before =>
                             request'[q].converted < request'[q].attempt
      BY DEF Conversions
    <3>1. CASE q = r
      BY <2>4, <3>1 DEF IInv, Conversions, Before
    <3>2. CASE q # r
      BY <2>3, <3>2, OtherKept DEF IInv, Conversions
    <3> QED BY <3>1, <3>2
  <2>8. Unpublished'
    BY <1>6 DEF IInv, Unpublished
  <2> QED BY <2>5, <2>6, <2>7, <2>8 DEF IInv
<1> QED BY <1>4, <1>5, <1>6 DEF Delivers

LEMMA SucceedsIInv ==
  ASSUME IInv, NEW r \in Request, body' = body, Succeeds(r),
         conn' \in {"none", "down", "up"}, starting' \in 0..MaxStarting
  PROVE  IInv'
<1>1. /\ Parts(body[r]) \in 1..22 /\ Events(body[r]) \in {0, 1}
      /\ delivered[r] \in 0..22
  BY BodyTyped DEF IInv, TypeOK
<1>2. /\ delivered' \in [Request -> 0..22]
      /\ \A q \in Request : q # r => delivered'[q] = delivered[q]
  BY <1>1 DEF Succeeds, IInv, TypeOK
<1>3. /\ published' \in [Request -> {0, 1}]
      /\ \A q \in Request : q # r => published'[q] = published[q]
  BY <1>1 DEF Succeeds, IInv, TypeOK
<1> QED BY <1>2, <1>3, DoneIInv DEF Succeeds

LEMMA EndsIInv ==
  ASSUME IInv, NEW r \in Request, body' = body, Ends(r),
         conn' \in {"none", "down", "up"}, starting' \in 0..MaxStarting
  PROVE  IInv'
<1>1. PICK a \in {"error", "panic"} : Answer(r, a)
  BY DEF Ends
<1>2. /\ delivered' \in [Request -> 0..22]
      /\ \A q \in Request : q # r => delivered'[q] = delivered[q]
      /\ published' \in [Request -> {0, 1}]
      /\ \A q \in Request : q # r => published'[q] = published[q]
  BY <1>1 DEF Answer, IInv, TypeOK
<1> QED BY <1>1, <1>2, DoneIInv DEF Answer

(* The instance's own steps.                                               *)
LEMMA InstanceIInv ==
  ASSUME IInv, InstanceStep
  PROVE  IInv'
<1>0. TypeOK
  BY DEF IInv
<1>1. /\ body' = body /\ UNCHANGED effects
      /\ conn' \in {"none", "down", "up"} /\ starting' \in 0..MaxStarting
      /\ request' = request \/ request' = Gone(request)
  BY <1>0, StartingAssumption
     DEF InstanceStep, Register, StartFails, Flap, Remove, TypeOK
<1>2. /\ request' \in [Request -> RequestState]
      /\ \A q \in Request :
           /\ request'[q].pc = request[q].pc
           /\ request'[q].attempt = request[q].attempt
           /\ request'[q].converted = request[q].converted
  BY <1>0, <1>1, GoneKeeps DEF TypeOK
<1>3. TypeOK'
  BY <1>0, <1>1, <1>2 DEF TypeOK, effects
<1>4. Progress'
  BY <1>1, <1>2 DEF IInv, Progress, effects
<1>5. Conversions'
  BY <1>2 DEF IInv, Conversions
<1>6. Unpublished'
  BY <1>1 DEF IInv, Unpublished, effects
<1> QED BY <1>3, <1>4, <1>5, <1>6 DEF IInv

(* What the steps of a request do to the instance.                         *)
LEMMA InstanceTyped ==
  ASSUME TypeOK, NEW r \in Request, RequestStep(r)
  PROVE  conn' \in {"none", "down", "up"} /\ starting' \in 0..MaxStarting
<1> USE StartingAssumption DEF TypeOK, instance
<1>1. CASE ensureClientConnected(r) \/ CheckClient(r)
  BY <1>1 DEF ensureClientConnected, CheckClient, StartInstance
<1>2. CASE ReconnectClient(r) \/ Restart(r)
  BY <1>2 DEF ReconnectClient, Restart
<1>3. CASE Arrive(r) \/ Recheck(r) \/ Build(r) \/ Validate(r) \/ CheckStarted(r)
  BY <1>3 DEF Arrive, Recheck, Build, Validate, CheckStarted
<1>4. CASE Composing(r) \/ Paused(r) \/ Address(r) \/ Send(r) \/ Report(r)
           \/ AlbumPart(r)
  BY <1>4 DEF Composing, Paused, Address, Send, Report, AlbumPart
<1> QED BY <1>1, <1>2, <1>3, <1>4 DEF RequestStep

(* A step of a request takes one of the forms above.                       *)
LEMMA RequestForms ==
  ASSUME IInv, NEW r \in Request, RequestStep(r)
  PROVE  /\ body' = body
         /\ \/ Kept(r) /\ Goes(r)
            \/ Ends(r) \/ Delivers(r) \/ Succeeds(r)
<1>1. CASE Send(r) \/ Report(r) \/ AlbumPart(r)
  BY <1>1, LateStep
<1>2. CASE ~(Send(r) \/ Report(r) \/ AlbumPart(r))
  BY <1>2, EarlyStep DEF RequestStep
<1> QED BY <1>1, <1>2

LEMMA NextIInv == IInv /\ [Next]_vars => IInv'
<1> SUFFICES ASSUME IInv, [Next]_vars PROVE IInv'
  OBVIOUS
<1>1. CASE InstanceStep
  BY <1>1, InstanceIInv
<1>2. CASE \E r \in Request : RequestStep(r)
  <2>1. PICK r \in Request : RequestStep(r)
    BY <1>2
  <2>2. conn' \in {"none", "down", "up"} /\ starting' \in 0..MaxStarting
    BY <2>1, InstanceTyped DEF IInv
  <2> QED BY <2>1, <2>2, RequestForms, GoesIInv, EndsIInv, DeliversIInv,
             SucceedsIInv
<1>3. CASE UNCHANGED vars
  BY <1>3 DEF vars, instance, effects, IInv, TypeOK, Progress, Conversions,
                   Unpublished
<1> QED BY <1>1, <1>2, <1>3 DEF Next

LEMMA Invariance == Spec => []IInv
BY InitIInv, NextIInv, PTL DEF Spec

(* For any number of requests and whatever they ask for, the limits of the *)
(* retries are kept and no part is counted twice (send_service.go:602).    *)
THEOREM TypeCorrect == Spec => []TypeOK
<1>1. IInv => TypeOK
  BY DEF IInv
<1> QED BY <1>1, Invariance, PTL

------------------------------------------------------------------------------
(* The panics.                                                             *)

(* A request panics in two of its calls.                                   *)
LEMMA PanicComesFrom ==
  ASSUME TypeOK, NEW r \in Request, RequestStep(r),
         answer'[r] = "panic", answer[r] # "panic"
  PROVE  \/ request[r].pc = "report"
         \/ request[r].pc = "address" /\ Captioned(body[r]) /\ Mentions(body[r])
<1> USE DEF At
<1>1. ASSUME Answer(r, "error") PROVE FALSE
  BY <1>1 DEF Answer, TypeOK
<1>2. ASSUME UNCHANGED effects PROVE FALSE
  BY <1>2 DEF effects
<1>3. ASSUME NextAttempt(r) PROVE FALSE
  BY <1>1, <1>2, <1>3 DEF NextAttempt
<1>4. ASSUME Unreachable(r) \/ Disconnected(r) \/ Checked(r) PROVE FALSE
  BY <1>1, <1>2, <1>3, <1>4 DEF Unreachable, Disconnected, Checked
<1>5. CASE Arrive(r) \/ ensureClientConnected(r) \/ Recheck(r)
           \/ ReconnectClient(r) \/ Restart(r)
  BY <1>1, <1>2, <1>3, <1>4, <1>5
     DEF Arrive, ensureClientConnected, StartInstance, Recheck, ReconnectClient,
         Restart, NextTry
<1>6. CASE Build(r)
  <2>1. PICK o \in Outcomes(body[r]) :
          CASE o = "ok" ->
                 /\ request' = [request EXCEPT
                      ![r].pc = AfterBuild(body[r]),
                      ![r].converted = Converted(body[r], @)]
                 /\ UNCHANGED effects
            [] o = "fail" -> Answer(r, "error")
            [] o = "again" -> NextAttempt(r)
    BY <1>6 DEF Build
  <2>2. o \in {"ok", "fail", "again"}
    <3>1. body[r].kind \in HeldKind \cup LookupKind
      BY BodyTyped DEF BodyType
    <3> QED BY <3>1 DEF Outcomes, HeldKind, LookupKind, RetriedKind, StatusKind,
               BuildLink, OrFails, BuildSticker, BuildButton, BuildCarousel,
               BuildStatusText, BuildAlbum
  <2> QED BY <1>1, <1>2, <1>3, <2>1, <2>2
<1>7. CASE Validate(r) \/ CheckClient(r) \/ CheckStarted(r)
           \/ Composing(r) \/ Paused(r)
  BY <1>1, <1>2, <1>4, <1>7
     DEF Validate, CheckClient, StartInstance, CheckStarted, Composing, Paused,
         MayFail
<1>8. CASE Address(r)
  BY <1>1, <1>2, <1>8 DEF Address, AddsContext, AddsMentions
<1>9. CASE Send(r) \/ AlbumPart(r)
  BY <1>1, <1>9 DEF Send, AlbumPart, AnswerLost, Refused, TypeOK
<1>10. CASE Report(r)
  BY <1>10 DEF Report
<1> QED BY <1>5, <1>6, <1>7, <1>8, <1>9, <1>10 DEF RequestStep

(* The answers and the parts of the others are not touched, nor are those  *)
(* of a request that has been answered.                                    *)
LEMMA AnsweredStays ==
  ASSUME IInv, NEW r \in Request, Goes(r) \/ Ends(r) \/ Delivers(r) \/ Succeeds(r)
  PROVE  /\ answer[r] = "none"
         /\ \A q \in Request \ {r} :
              answer'[q] = answer[q] /\ delivered'[q] = delivered[q]
BY DEF Goes, Ends, Delivers, Succeeds, effects, Answer, IInv, TypeOK, Progress

LEMMA PanicStep ==
  ASSUME IInv, PanicIsKnown, NEW r \in Request, RequestStep(r)
  PROVE  PanicIsKnown'
<1>1. /\ body' = body
      /\ Goes(r) \/ Ends(r) \/ Delivers(r) \/ Succeeds(r)
  BY RequestForms
<1>2. SUFFICES ASSUME NEW q \in Request, answer'[q] = "panic"
               PROVE  IF delivered'[q] = 0
                        THEN Captioned(body[q]) /\ Mentions(body[q])
                        ELSE delivered'[q] = Parts(body[q])
  BY <1>1 DEF PanicIsKnown
<1>3. CASE q # r
  BY <1>1, <1>2, <1>3, AnsweredStays DEF PanicIsKnown
<1>4. CASE q = r
  <2>1. /\ request[r].pc # "done"
        /\ \/ request[r].pc = "report"
           \/ /\ request[r].pc = "address"
              /\ Captioned(body[r]) /\ Mentions(body[r])
    BY <1>1, <1>2, <1>4, AnsweredStays, PanicComesFrom DEF IInv, Progress
  <2>2. delivered'[r] = delivered[r]
    BY <1>1, <1>2, <1>4, AnsweredStays
       DEF Goes, Ends, Delivers, Succeeds, effects, Answer, IInv, TypeOK
  <2>3. CASE request[r].pc = "report"
    <3>1. delivered[r] = 1 /\ Parts(body[r]) = 1
      BY <2>3, BodyTyped DEF IInv, Progress
    <3> QED BY <1>4, <2>2, <3>1
  <2>4. CASE request[r].pc = "address"
    BY <1>4, <2>1, <2>2, <2>4 DEF IInv, Progress
  <2> QED BY <2>1, <2>3, <2>4
<1> QED BY <1>3, <1>4

(* Whatever is asked for and whatever happens to the instance, a handler   *)
(* panics only for its client's sake once the message is sent, or for the  *)
(* mentions of a captioned document, with nothing sent                     *)
(* (send_service.go:2238, :2347).                                          *)
THEOREM PanicIsKnownHolds == Spec => []PanicIsKnown
<1>1. Init => PanicIsKnown
  BY DEF Init, PanicIsKnown
<1>2. IInv /\ PanicIsKnown /\ [Next]_vars => PanicIsKnown'
  <2> SUFFICES ASSUME IInv, PanicIsKnown, [Next]_vars PROVE PanicIsKnown'
    OBVIOUS
  <2>1. CASE InstanceStep \/ UNCHANGED vars
    <3>1. body' = body /\ UNCHANGED effects
      BY <2>1 DEF InstanceStep, Register, StartFails, Flap, Remove, vars, effects
    <3> QED BY <3>1 DEF PanicIsKnown, effects
  <2>2. CASE \E r \in Request : RequestStep(r)
    BY <2>2, PanicStep
  <2> QED BY <2>1, <2>2 DEF Next
<1> QED BY <1>1, <1>2, Invariance, PTL DEF Spec

------------------------------------------------------------------------------
(* The refinement.                                                         *)

LEMMA ContractInit == Init => Contract!Init
<1> SUFFICES ASSUME Init PROVE Contract!Init
  OBVIOUS
<1>1. TypeOK
  BY InitIInv DEF IInv
<1>2. \A r \in Request :
        Parts(body[r]) \in Nat \ {0} /\ Events(body[r]) \in {0, 1}
  <2> TAKE r \in Request
  <2>1. Parts(body[r]) \in 1..22 /\ Events(body[r]) \in {0, 1}
    BY <1>1, BodyTyped
  <2> QED BY <2>1
<1>3. [r \in Request |-> Parts(body[r])] \in [Request -> Nat \ {0}]
  BY <1>2
<1>4. [r \in Request |-> Events(body[r])] \in [Request -> {0, 1}]
  BY <1>2
<1> QED BY <1>3, <1>4 DEF Init, Contract!Init

LEMMA ContractStep ==
  ASSUME IInv, [Next]_vars
  PROVE  [Contract!Next]_(Contract!contractVars)
<1> DEFINE parts == [r \in Request |-> Parts(body[r])]
           events == [r \in Request |-> Events(body[r])]
<1>0. body' = body => parts' = parts /\ events' = events
  OBVIOUS
<1>1. CASE InstanceStep \/ UNCHANGED vars
  <2>1. body' = body /\ UNCHANGED effects
    BY <1>1 DEF InstanceStep, Register, StartFails, Flap, Remove, vars, effects
  <2> QED BY <1>0, <2>1 DEF effects, Contract!contractVars
<1>2. CASE \E r \in Request : RequestStep(r)
  <2>1. PICK r \in Request : RequestStep(r)
    BY <1>2
  <2>2. /\ body' = body /\ parts' = parts /\ events' = events
        /\ Goes(r) \/ Ends(r) \/ Delivers(r) \/ Succeeds(r)
    BY <1>0, <2>1, RequestForms
  <2>3. /\ delivered \in [Request -> 0..22] /\ parts[r] = Parts(body[r])
        /\ events[r] = Events(body[r]) /\ Parts(body[r]) \in 1..22
        /\ body[r].kind # "album" => Parts(body[r]) = 1
        /\ answer[r] = "none" <=> request[r].pc # "done"
    BY BodyTyped DEF IInv, TypeOK, Progress
  <2> HIDE DEF parts, events
  <2>4. CASE Goes(r)
    BY <2>2, <2>4 DEF Goes, effects, Contract!contractVars, parts, events
  <2>5. CASE Delivers(r)
    <3>1. Contract!Part(r)
      BY <2>2, <2>3, <2>5
         DEF Delivers, Contract!Part, Contract!Pending, Contract!Says,
             Contract!Deliver, parts, events
    <3> QED BY <3>1 DEF Contract!Next
  <2>6. CASE Ends(r)
    <3>1. PICK a \in {"error", "panic"} :
            /\ Answer(r, a) /\ request[r].pc # "done"
            /\ request[r].pc = "report" => a = "panic"
      BY <2>6 DEF Ends
    <3>2. CASE a = "panic"
      <4>1. Contract!Panic(r)
        BY <2>2, <2>3, <3>1, <3>2
           DEF Answer, Contract!Panic, Contract!Pending, Contract!Says,
               parts, events
      <4> QED BY <4>1 DEF Contract!Next
    <3>3. CASE a = "error"
      <4>1. delivered[r] < Parts(body[r])
        BY <2>3, <3>1, <3>3 DEF IInv, Progress
      <4>2. Contract!Fail(r)
        BY <2>2, <2>3, <3>1, <3>3, <4>1
           DEF Answer, Contract!Fail, Contract!Pending, Contract!Says,
               parts, events
      <4> QED BY <4>2 DEF Contract!Next
    <3> QED BY <3>1, <3>2, <3>3
  <2>7. CASE Succeeds(r)
    <3>1. published \in [Request -> {0, 1}]
      BY DEF IInv, TypeOK
    <3>a. /\ request[r].pc # "done" /\ published[r] = 0
          /\ request[r].pc = "report" => delivered[r] = 1
          /\ body[r].kind = "album" => Events(body[r]) = 0
      BY <2>3, <2>7 DEF IInv, Progress, Unpublished, Succeeds, Events
    <3>2. Contract!Succeed(r)
      BY <2>2, <2>3, <2>7, <3>1, <3>a
         DEF Succeeds, Contract!Succeed, Contract!Pending, Contract!Says,
             Contract!Deliver, IInv, Progress, parts, events
    <3> QED BY <3>2 DEF Contract!Next
  <2> QED BY <2>2, <2>4, <2>5, <2>6, <2>7
<1> QED BY <1>1, <1>2 DEF Next

(* Whatever is asked for, by any number of requests, and whatever happens  *)
(* to the instance, a caller sees what SendContract promises               *)
(* (send_service.go:595, :2336, :2452).                                    *)
THEOREM ImplementsContract == Spec => KeepsContract
<1>1. IInv /\ [Next]_vars => [Contract!Next]_(Contract!contractVars)
  BY ContractStep
<1> QED BY <1>1, ContractInit, Invariance, PTL DEF Spec, KeepsContract, Contract!Spec

------------------------------------------------------------------------------
(* What the contract is worth: its own invariant.                          *)
Promise ==
  /\ \A r \in Request : Parts(body[r]) \in Nat /\ Events(body[r]) \in {0, 1}
  /\ delivered \in [Request -> Nat] /\ published \in [Request -> {0, 1}]
  /\ answer \in [Request -> {"none", "ok", "error", "panic"}]
  /\ Contract!Truthful

LEMMA PromiseStep ==
  ASSUME Promise, NEW r \in Request,
         \/ Contract!Part(r) \/ Contract!Fail(r)
         \/ Contract!Panic(r) \/ Contract!Succeed(r)
  PROVE  Promise'
<1>1. \A s \in Request :
        Parts(body'[s]) = Parts(body[s]) /\ Events(body'[s]) = Events(body[s])
  BY DEF Contract!Part, Contract!Fail, Contract!Panic, Contract!Succeed
<1> USE DEF Promise, Contract!Truthful, Contract!Pending, Contract!Says
<1>2. CASE Contract!Part(r)
  BY <1>1, <1>2 DEF Contract!Part, Contract!Deliver
<1>3. CASE Contract!Fail(r) \/ Contract!Panic(r)
  BY <1>1, <1>3 DEF Contract!Fail, Contract!Panic
<1>4. CASE Contract!Succeed(r)
  <2>1. CASE UNCHANGED delivered
    BY <1>1, <1>4, <2>1 DEF Contract!Succeed
  <2>2. CASE Contract!Deliver(r)
    BY <1>1, <1>4, <2>2 DEF Contract!Succeed, Contract!Deliver
  <2> QED BY <1>4, <2>1, <2>2 DEF Contract!Succeed
<1> QED BY <1>2, <1>3, <1>4

(* Whoever keeps the contract sends no message twice and says "ok" only of *)
(* what has been sent and told (send_service.go:2336, :2452).              *)
THEOREM ContractTruthful == Contract!Spec => []Contract!Truthful
<1>1. Contract!Init => Promise
  <2> SUFFICES ASSUME Contract!Init PROVE Promise
    OBVIOUS
  <2>1. \A r \in Request : Parts(body[r]) \in Nat /\ Events(body[r]) \in {0, 1}
    BY DEF Contract!Init, Parts, Events
  <2> QED BY <2>1 DEF Contract!Init, Promise, Contract!Truthful
<1>2. Promise /\ [Contract!Next]_(Contract!contractVars) => Promise'
  <2>1. CASE Contract!Next
    BY <2>1, PromiseStep DEF Contract!Next
  <2>2. ASSUME Promise, UNCHANGED Contract!contractVars
        PROVE  Promise'
    <3>1. \A s \in Request :
            Parts(body'[s]) = Parts(body[s]) /\ Events(body'[s]) = Events(body[s])
      BY <2>2 DEF Contract!contractVars
    <3> QED BY <2>2, <3>1
            DEF Promise, Contract!Truthful, Contract!contractVars
  <2> QED BY <2>1, <2>2
<1>3. Promise => Contract!Truthful
  BY DEF Promise
<1> QED BY <1>1, <1>2, <1>3, PTL DEF Contract!Spec

(* So does SendService, through every retry and reconnection               *)
(* (send_service.go:595, :2336, :2452).                                    *)
THEOREM NothingIsSentTwice == Spec => []Contract!Truthful
BY ImplementsContract, ContractTruthful, PTL DEF KeepsContract
=============================================================================
