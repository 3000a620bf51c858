------------------------ MODULE EventDelivery_proofs ------------------------
(***************************************************************************)
(* What holds of EventDelivery for all settings, events and faults and any *)
(* number of posts and lanes.                                              *)
(*                                                                         *)
(* First the RabbitMQ producer alone (RabbitSpec), with any number of calls*)
(* at a time: CallKept is what each call knows, SharedKept what becomes of *)
(* the connection they share.  To the producer, everything else is its     *)
(* callers, so that what is proved of it holds in the whole                *)
(* (ProducerIsImplemented).                                                *)
(*                                                                         *)
(* The rest goes from Shape, the types with what ties the numbers of posts,*)
(* events and rows together, to the invariant each property needs:         *)
(*   SinksInOrder       what a post's outcomes are at each place of a lane *)
(*   Steady, AnswersAreRight                                               *)
(*                      the producer's calls do not fail before something  *)
(*                      has, and what a sink answered is true of it        *)
(*   PostsAreTrue, HttpIsWanted                                            *)
(*                      a post is one that its event gives, and each POST  *)
(*                      to a webhook is one its filter lets through        *)
(*   Routed             how far the global lane of a post has come says    *)
(*                      which tables have its type                         *)
(*   NamesAreAccounted  the names that a lane has fetched, or is about to  *)
(*                      store, are those of now or will be invalidated     *)
(*   RowsInOrder        each first receipt of a message has written its row*)
(*                      or is about to, and not out of order.              *)
(* Every step is one of the handler, of a lane of CallWebhook (which looks *)
(* names up, invalidates them or serves a sink) or of those Elsewhere; each*)
(* invariant has a lemma for each of these.                                *)
(***************************************************************************)
EXTENDS EventDelivery, FiniteSetTheorems, SequenceTheorems,
        WellFoundedInduction, TLAPS

------------------------------------------------------------------------------
(* The RabbitMQ producer, for any number of concurrent calls.              *)
Dialling == {"dial", "redial"}

Attempting == {"publish", "reensure", "redial", "reopen"}

(* A call attempts only what its enable allows, dials no more than it may, *)
(* has written nothing before it is over, and holds the nil channel only   *)
(* after a first attempt.                                                  *)
CallKept(p) ==
  /\ pub[p].pc \in Attempting =>
       pub[p].enable \in Honoured /\ pub[p].attempt \in 1..maxRetries
  /\ pub[p].pc \in Dialling => pub[p].dials < MaxDials
  /\ pub[p].pc # "ok" => pub[p].written = "nothing" /\ ~pub[p].reopened
  /\ pub[p].pc = "declare" => pub[p].chan # NoConn
  /\ pub[p].pc = "publish" /\ pub[p].chan = NoConn => pub[p].attempt > 1

(* Who finds p.conn other than ensureConnection has left it, or is about   *)
(* to replace a connection that is open, has been overlapped.              *)
SharedKept(p) ==
  /\ pub[p].pc \in {"open", "reopen"} /\ conn = NoConn => pub[p].shared
  /\ pub[p].pc \in Dialling /\ conn \in alive => pub[p].shared

CallsKept == \A p \in Publisher : CallKept(p) /\ SharedKept(p)

RabbitInv == RabbitTypeOK /\ CallsKept /\ AnswerIsTruthful

------------------------------------------------------------------------------
(* A step of the call p alone: the others, and the connection, stay.       *)
LEMMA MoveKeeps ==
  ASSUME RabbitInv, NEW p \in Publisher, NEW r \in PublisherState, Moves(p, r),
         r.pc \in Attempting =>
           r.enable \in Honoured /\ r.attempt \in 1..maxRetries,
         r.pc \in Dialling => r.dials < MaxDials,
         r.pc # "ok" => r.written = "nothing" /\ ~r.reopened,
         r.pc = "declare" => r.chan # NoConn,
         r.pc = "publish" /\ r.chan = NoConn => r.attempt > 1,
         r.pc \in {"open", "reopen"} /\ conn = NoConn => r.shared,
         r.pc \in Dialling /\ conn \in alive => r.shared,
         r.pc = "ok" =>
           /\ r.written = "nothing" <=> r.enable \notin Honoured \/ r.reopened
           /\ r.written = "lost" => r.chan \notin alive \ dying,
         r.pc = "panic" => (r.shared \/ (r.attempt > 1 /\ r.chan = NoConn))
  PROVE  RabbitInv'
<1>1. pub' = [pub EXCEPT ![p] = r] /\ UNCHANGED <<conn, alive, dying, up, configured>>
  BY DEF Moves
<1>2. RabbitTypeOK'
  BY <1>1 DEF RabbitInv, RabbitTypeOK
<1>3. /\ pub'[p] = r
      /\ \A q \in Publisher \ {p} : pub'[q] = pub[q]
  BY <1>1 DEF RabbitInv, RabbitTypeOK
<1>4. CallsKept'
  BY <1>1, <1>3 DEF RabbitInv, CallsKept, CallKept, SharedKept
<1>5. AnswerIsTruthful'
  <2>1. ASSUME NEW q \in Publisher \ {p}
        PROVE  pub'[q] = pub[q]
    BY <1>3
  <2>2. AnswerIsTruthful
    BY DEF RabbitInv
  <2>3. r.pc = "error" => r.written = "nothing"
    OBVIOUS
  <2>4. r.pc = "panic" => r.written = "nothing" /\ (r.shared \/ (r.attempt > 1 /\ r.chan = NoConn))
    OBVIOUS
  <2> QED BY <1>1, <1>3, <2>1, <2>2, <2>3, <2>4 DEF AnswerIsTruthful, AtPub
<1> QED BY <1>2, <1>4, <1>5 DEF RabbitInv

(* What the invariant says of one call, with the fields it consists of.    *)
LEMMA CallFacts ==
  ASSUME RabbitInv, NEW p \in Publisher
  PROVE  /\ pub[p] \in PublisherState
         /\ CallKept(p) /\ SharedKept(p)
         /\ conn \in Conn \cup {NoConn} /\ alive \subseteq Conn
         /\ dying \subseteq alive
BY DEF RabbitInv, RabbitTypeOK, CallsKept

LEMMA AttemptOver ==
  ASSUME NEW s \in PublisherState, s.attempt \in 1..maxRetries,
         s.written = "nothing", s.enable \in Honoured, NEW failed \in BOOLEAN,
         s.reopened <=> (~failed /\ s.attempt = maxRetries)
  PROVE  \E r \in PublisherState :
         /\ r = AfterAttempt(s, failed) /\ r.chan = s.chan
         /\ r.pc \in {"publish", "ok", "error"}
         /\ r.written = "nothing" /\ r.enable \in Honoured /\ r.attempt \in 1..maxRetries
         /\ r.pc = "publish" => r.attempt > 1
         /\ r.pc = "ok" <=> r.reopened
         /\ failed => r.pc # "ok"
<1> DEFINE r == AfterAttempt(s, failed)
<1>1. CASE s.attempt < maxRetries
  <2>1. r = [s EXCEPT !.pc = "publish", !.attempt = s.attempt + 1]
    BY <1>1 DEF AfterAttempt
  <2>2. PICK n \in 1..maxRetries : n = s.attempt + 1 /\ n > 1
    BY <1>1 DEF maxRetries
  <2>3. r = [s EXCEPT !.pc = "publish", !.attempt = n]
    BY <2>1, <2>2
  <2>4. n \in 0..maxRetries
    BY <2>2 DEF maxRetries
  <2>5. r \in PublisherState
    BY <2>3, <2>4 DEF PublisherState, PublisherPc
  <2>6. ~s.reopened
    BY <1>1 DEF maxRetries
  <2> QED BY ZenonT(60), <2>2, <2>3, <2>5, <2>6 DEF PublisherState
<1>2. CASE ~(s.attempt < maxRetries)
  <2>1. r = [s EXCEPT !.pc = IF failed THEN "error" ELSE "ok"]
    BY <1>2 DEF AfterAttempt
  <2>2. r \in PublisherState
    BY <2>1 DEF PublisherState, PublisherPc
  <2>3. s.attempt = maxRetries
    BY <1>2 DEF maxRetries
  <2> QED BY <2>1, <2>2, <2>3 DEF PublisherState
<1> QED BY <1>1, <1>2

(* A step of the call p that assigns p.conn: every other call under way is *)
(* overlapped.                                                             *)
LEMMA DialKeeps ==
  ASSUME RabbitInv, NEW p \in Publisher, NEW r \in PublisherState, Dialled(p, r),
         conn' \in alive' \cup {NoConn}, alive' \subseteq Conn,
         alive \subseteq alive', UNCHANGED <<dying, up, configured>>,
         \A q \in Publisher : pub[q].chan \notin alive' \ alive,
         r.pc \in Attempting =>
           r.enable \in Honoured /\ r.attempt \in 1..maxRetries,
         r.pc \in Dialling => r.dials < MaxDials,
         r.written = "nothing" /\ ~r.reopened,
         r.pc \in {"publish", "open", "reopen", "error"} \cup Dialling,
         r.pc = "publish" => r.attempt > 1,
         r.pc \in {"open", "reopen"} => conn' \in Conn /\ conn' # NoConn,
         r.pc \in Dialling => conn' \notin alive'
  PROVE  RabbitInv'
<1>1. /\ pub' \in [Publisher -> PublisherState]
      /\ pub'[p] = r
      /\ \A q \in Publisher \ {p} :
           IF pub[q].pc = "idle" THEN pub'[q] = pub[q]
           ELSE pub'[q] = [pub[q] EXCEPT !.shared = TRUE]
  BY ZenonT(60) DEF RabbitInv, RabbitTypeOK, Dialled, PublisherState
<1>2. RabbitTypeOK'
  BY <1>1 DEF RabbitInv, RabbitTypeOK
<1>3. \A q \in Publisher \ {p} :
        /\ pub'[q].pc = pub[q].pc /\ pub'[q].enable = pub[q].enable
        /\ pub'[q].attempt = pub[q].attempt /\ pub'[q].chan = pub[q].chan
        /\ pub'[q].dials = pub[q].dials
        /\ pub'[q].written = pub[q].written /\ pub'[q].reopened = pub[q].reopened
        /\ pub[q].pc # "idle" => pub'[q].shared
  BY <1>1 DEF RabbitInv, RabbitTypeOK, PublisherState
<1>4. ASSUME NEW q \in Publisher PROVE CallKept(q)' /\ SharedKept(q)'
  <2>1. CASE q = p
    BY <1>1, <2>1 DEF CallKept, SharedKept, Attempting, Dialling
  <2>2. CASE q # p
    BY <1>3, <2>2, CallFacts DEF CallKept, SharedKept, Dialling
  <2> QED BY <2>1, <2>2
<1>5. AnswerIsTruthful'
  <2>1. SUFFICES ASSUME NEW q \in Publisher
                 PROVE  /\ pub'[q].pc \in {"error", "panic"} => pub'[q].written = "nothing"
                        /\ pub'[q].pc = "ok" =>
                             /\ pub'[q].written = "nothing" <=>
                                  pub'[q].enable \notin Honoured \/ pub'[q].reopened
                             /\ pub'[q].written = "lost" =>
                                  pub'[q].chan \notin alive' \ dying'
                        /\ pub'[q].pc = "panic" =>
                             \/ pub'[q].shared
                             \/ pub'[q].attempt > 1 /\ pub'[q].chan = NoConn
    BY DEF AnswerIsTruthful, AtPub
  <2>2. CASE q = p
    BY <1>1, <2>2 DEF Dialling
  <2>3. CASE q # p
    BY <1>3, <2>3 DEF RabbitInv, AnswerIsTruthful, AtPub
  <2> QED BY <2>2, <2>3
<1> QED BY <1>2, <1>4, <1>5 DEF RabbitInv, CallsKept

(* The broker and its connections: what is open may only close.            *)
LEMMA BrokerKeeps ==
  ASSUME RabbitInv, Broker
  PROVE  RabbitInv'
<1>1. /\ alive' \subseteq alive /\ dying' \subseteq alive'
      /\ alive' \ dying' \subseteq alive \ dying
      /\ UNCHANGED <<conn, configured, pub>> /\ up' \in BOOLEAN
  BY DEF RabbitInv, RabbitTypeOK, Broker, LoseConnection, Notices, BrokerStops,
     BrokerStarts
<1> QED
  BY <1>1 DEF RabbitInv, RabbitTypeOK, CallsKept, CallKept, SharedKept,
     AnswerIsTruthful, AtPub


------------------------------------------------------------------------------
(* The actions.                                                            *)
LEMMA ProduceKeeps ==
  ASSUME RabbitInv, NEW p \in Publisher, NEW enable \in Enables, Produce(p, enable)
  PROVE  RabbitInv'
<1> DEFINE r == [Idle EXCEPT !.enable = enable,
                             !.pc = IF configured THEN "ensure" ELSE "error"]
<1>1. /\ r \in PublisherState /\ r.pc \in {"ensure", "error"}
      /\ r.written = "nothing" /\ ~r.reopened
  <2>1. configured \in BOOLEAN
    BY DEF RabbitInv, RabbitTypeOK
  <2>2. Idle \in PublisherState /\ Idle.written = "nothing" /\ ~Idle.reopened
    BY DEF Idle, PublisherState, PublisherPc, Enables, maxRetries, MaxDials
  <2> QED BY <2>1, <2>2 DEF PublisherState, PublisherPc
<1>2. Moves(p, r)
  BY DEF Produce
<1> HIDE DEF r
<1> QED BY <1>1, <1>2, MoveKeeps DEF Attempting, Dialling

LEMMA ReturnsKeeps ==
  ASSUME RabbitInv, NEW p \in Publisher, Returns(p)
  PROVE  RabbitInv'
<1>1. /\ Idle \in PublisherState /\ Idle.pc = "idle" /\ Idle.written = "nothing"
      /\ ~Idle.reopened
  BY DEF Idle, PublisherState, PublisherPc, Enables, maxRetries, MaxDials
<1>2. Moves(p, Idle)
  BY DEF Returns
<1> QED BY <1>1, <1>2, MoveKeeps DEF Attempting, Dialling

LEMMA EnsureKeeps ==
  ASSUME RabbitInv, NEW p \in Publisher, Ensure(p)
  PROVE  RabbitInv'
<1> USE ConnAssumption
<1> DEFINE s == pub[p]
<1>1. /\ s \in PublisherState /\ s.written = "nothing" /\ ~s.reopened
      /\ s.pc \in {"ensure", "reensure"}
  BY CallFacts DEF Ensure, AtPub, CallKept
<1>2. s.pc = "reensure" => s.enable \in Honoured /\ s.attempt \in 1..maxRetries
  BY CallFacts DEF CallKept, Attempting
<1>3. CASE conn \in alive
  <2> DEFINE r == [s EXCEPT !.pc = IF s.pc = "ensure" THEN "open" ELSE "reopen"]
  <2>1. Moves(p, r)
    BY <1>3 DEF Ensure, Goes
  <2>2. /\ r \in PublisherState /\ r.written = "nothing" /\ ~r.reopened /\ r.pc \in {"open", "reopen"}
        /\ r.pc = "reopen" => s.pc = "reensure"
        /\ r.enable = s.enable /\ r.attempt = s.attempt
    BY <1>1 DEF PublisherState, PublisherPc
  <2>3. conn # NoConn
    BY <1>3, CallFacts
  <2> HIDE DEF r
  <2> QED BY <1>2, <2>1, <2>2, <2>3, MoveKeeps DEF Attempting, Dialling
<1>4. CASE conn \notin alive
  <2> DEFINE r == [s EXCEPT !.pc = IF s.pc = "ensure" THEN "dial" ELSE "redial",
                            !.dials = 0]
  <2>1. Moves(p, r)
    BY <1>4 DEF Ensure
  <2>2. PICK n \in 0..MaxDials : n = 0 /\ n < MaxDials
    BY DEF MaxDials
  <2>3. /\ r \in PublisherState /\ r.written = "nothing" /\ ~r.reopened /\ r.pc \in Dialling
        /\ r.pc = "redial" => s.pc = "reensure"
        /\ r.enable = s.enable /\ r.attempt = s.attempt /\ r.dials = n
    BY <1>1, <2>2 DEF PublisherState, PublisherPc, Dialling
  <2> HIDE DEF r
  <2> QED BY <1>2, <1>4, <2>1, <2>2, <2>3, MoveKeeps DEF Attempting, Dialling
<1> QED BY <1>3, <1>4

LEMMA DialSucceedsKeeps ==
  ASSUME RabbitInv, NEW p \in Publisher, DialSucceeds(p)
  PROVE  RabbitInv'
<1> USE ConnAssumption
<1> DEFINE s == pub[p]
           r == [s EXCEPT !.pc = IF s.pc = "dial" THEN "open" ELSE "reopen"]
<1>1. s \in PublisherState /\ s.written = "nothing" /\ ~s.reopened /\ s.pc \in Dialling
  BY CallFacts DEF DialSucceeds, AtPub, CallKept, Dialling
<1>2. s.pc = "redial" => s.enable \in Honoured /\ s.attempt \in 1..maxRetries
  BY CallFacts DEF CallKept, Attempting
<1>3. PICK c \in Unused : conn' = c /\ alive' = alive \cup {c}
  BY DEF DialSucceeds
<1>4. c \in Conn
  BY DEF Unused
<1>5. /\ Dialled(p, r) /\ UNCHANGED <<dying, up, configured>>
      /\ \A q \in Publisher : c # pub[q].chan
  BY DEF DialSucceeds, Unused
<1>6. /\ r \in PublisherState /\ r.written = "nothing" /\ ~r.reopened /\ r.pc \in {"open", "reopen"}
      /\ r.pc = "reopen" => s.pc = "redial"
      /\ r.enable = s.enable /\ r.attempt = s.attempt
  BY <1>1 DEF PublisherState, PublisherPc, Dialling
<1> HIDE DEF r
<1>7. alive' \subseteq Conn /\ conn' \in alive' /\ conn' # NoConn
  BY <1>3, <1>4, CallFacts
<1> QED BY <1>2, <1>3, <1>4, <1>5, <1>6, <1>7, DialKeeps DEF Attempting, Dialling

LEMMA DialFailsKeeps ==
  ASSUME RabbitInv, NEW p \in Publisher, DialFails(p)
  PROVE  RabbitInv'
<1> USE ConnAssumption
<1> DEFINE s == pub[p]
           t == [s EXCEPT !.dials = s.dials + 1]
           u == IF t.dials < MaxDials THEN t
                ELSE IF t.pc = "dial" THEN [t EXCEPT !.pc = "error"]
                ELSE AfterAttempt(t, TRUE)
<1>1. s \in PublisherState /\ s.written = "nothing" /\ ~s.reopened /\ s.pc \in Dialling
  BY CallFacts DEF DialFails, AtPub, CallKept, Dialling
<1>2. s.pc = "redial" => s.enable \in Honoured /\ s.attempt \in 1..maxRetries
  BY CallFacts DEF CallKept, Attempting
<1>3. Dialled(p, u) /\ UNCHANGED <<alive, dying, up, configured>> /\ conn' = NoConn
  BY DEF DialFails
<1>4. conn' \notin alive' /\ alive' \subseteq Conn
  BY <1>3, CallFacts
<1>5. PICK n \in 0..MaxDials : n = s.dials + 1
  BY <1>1, CallFacts DEF PublisherState, MaxDials, CallKept
<1>6. t = [s EXCEPT !.dials = n]
  BY <1>5
<1>7. /\ t \in PublisherState /\ t.written = "nothing" /\ ~t.reopened /\ t.pc = s.pc
      /\ t.enable = s.enable /\ t.attempt = s.attempt /\ t.dials = n
  BY <1>1, <1>6 DEF PublisherState
<1> HIDE DEF t
<1>8. CASE n < MaxDials
  <2>1. Dialled(p, t)
    BY <1>3, <1>7, <1>8
  <2> QED
    BY <1>1, <1>2, <1>3, <1>4, <1>7, <1>8, <2>1, DialKeeps DEF Attempting, Dialling
<1>9. CASE ~(n < MaxDials) /\ t.pc = "dial"
  <2> DEFINE e == [t EXCEPT !.pc = "error"]
  <2>1. Dialled(p, e)
    BY <1>3, <1>7, <1>9
  <2>2. e \in PublisherState /\ e.pc = "error" /\ e.written = "nothing" /\ ~e.reopened
    BY <1>7 DEF PublisherState, PublisherPc
  <2> HIDE DEF e
  <2> QED BY <1>3, <1>4, <2>1, <2>2, DialKeeps DEF Attempting, Dialling
<1>10. CASE ~(n < MaxDials) /\ t.pc # "dial"
  <2>1. s.pc = "redial"
    BY <1>1, <1>7, <1>10 DEF Dialling
  <2>2. PICK e \in PublisherState :
          /\ e = AfterAttempt(t, TRUE) /\ e.pc \in {"publish", "error"}
          /\ e.written = "nothing" /\ ~e.reopened /\ e.enable \in Honoured
          /\ e.attempt \in 1..maxRetries
          /\ e.pc = "publish" => e.attempt > 1
    BY <1>2, <1>7, <2>1, <1>1, AttemptOver
  <2>3. Dialled(p, e)
    BY <1>3, <1>7, <1>10, <2>2
  <2> QED BY <1>3, <1>4, <2>2, <2>3, DialKeeps DEF Attempting, Dialling
<1> QED BY <1>8, <1>9, <1>10

(* A move that only changes pc.                                            *)
LEMMA GoesKeeps ==
  ASSUME RabbitInv, NEW p \in Publisher, NEW pc \in PublisherPc, Goes(p, pc),
         pc \in {"error", "panic", "reensure"}
                \/ (pc = "ok" /\ pub[p].enable \notin Honoured),
         pub[p].pc # "ok",
         pc = "reensure" => pub[p].pc \in Attempting,
         pc = "panic" => (pub[p].shared
                            \/ (pub[p].attempt > 1 /\ pub[p].chan = NoConn))
  PROVE  RabbitInv'
<1> DEFINE s == pub[p]
           r == [s EXCEPT !.pc = pc]
<1>1. s \in PublisherState /\ s.written = "nothing" /\ ~s.reopened
  BY CallFacts DEF CallKept
<1>2. s.pc \in Attempting => s.enable \in Honoured /\ s.attempt \in 1..maxRetries
  BY CallFacts DEF CallKept
<1>3. Moves(p, r)
  BY DEF Goes
<1>4. /\ r \in PublisherState /\ r.written = "nothing" /\ ~r.reopened /\ r.pc = pc
      /\ r.enable = s.enable /\ r.attempt = s.attempt /\ r.chan = s.chan
      /\ r.shared = s.shared
  BY <1>1 DEF PublisherState
<1> HIDE DEF r
<1> QED BY <1>2, <1>3, <1>4, MoveKeeps DEF Attempting, Dialling

LEMMA OpenKeeps ==
  ASSUME RabbitInv, NEW p \in Publisher, Open(p)
  PROVE  RabbitInv'
<1> DEFINE s == pub[p]
           r == [s EXCEPT !.pc = "declare", !.chan = conn]
<1>1. s \in PublisherState /\ s.written = "nothing" /\ ~s.reopened /\ s.pc = "open"
  BY CallFacts DEF Open, AtPub, CallKept
<1>2. CASE conn = NoConn
  <2>1. Goes(p, "panic") /\ s.shared
    BY <1>1, <1>2, CallFacts DEF Open, SharedKept
  <2> QED BY <1>1, <2>1, GoesKeeps DEF PublisherPc
<1>3. CASE conn # NoConn /\ conn \notin alive
  <2>1. Goes(p, "error")
    BY <1>3 DEF Open
  <2> QED BY <1>1, <2>1, GoesKeeps DEF PublisherPc
<1>4. CASE conn # NoConn /\ conn \in alive
  <2>1. Moves(p, r)
    BY <1>4 DEF Open
  <2>2. /\ r \in PublisherState /\ ~r.reopened /\ r.written = "nothing" /\ r.pc = "declare"
        /\ r.chan = conn
    BY <1>1, CallFacts DEF PublisherState, PublisherPc
  <2> HIDE DEF r
  <2> QED BY <1>4, <2>1, <2>2, MoveKeeps DEF Attempting, Dialling
<1> QED BY <1>2, <1>3, <1>4

LEMMA DeclareKeeps ==
  ASSUME RabbitInv, NEW p \in Publisher, Declare(p)
  PROVE  RabbitInv'
<1> DEFINE s == pub[p]
           r == [s EXCEPT !.pc = "publish", !.attempt = 1]
<1>1. /\ s \in PublisherState /\ s.written = "nothing" /\ ~s.reopened /\ s.pc = "declare"
      /\ s.chan # NoConn
  BY CallFacts DEF Declare, AtPub, CallKept
<1>2. CASE s.chan \notin alive
  <2>1. Goes(p, "error")
    BY <1>2 DEF Declare
  <2> QED BY <1>1, <2>1, GoesKeeps DEF PublisherPc
<1>3. CASE s.chan \in alive /\ s.enable \notin Honoured
  <2>1. Goes(p, "ok")
    BY <1>3 DEF Declare
  <2> QED BY <1>1, <1>3, <2>1, GoesKeeps DEF PublisherPc
<1>4. CASE s.chan \in alive /\ s.enable \in Honoured
  <2>1. Moves(p, r)
    BY <1>4 DEF Declare
  <2>2. PICK n \in 0..maxRetries : n = 1 /\ n \in 1..maxRetries
    BY DEF maxRetries
  <2>3. r = [s EXCEPT !.pc = "publish", !.attempt = n]
    BY <2>2
  <2>4. /\ r \in PublisherState /\ r.written = "nothing" /\ ~r.reopened /\ r.pc = "publish"
        /\ r.chan = s.chan /\ r.enable = s.enable /\ r.attempt = n
    BY <1>1, <2>3 DEF PublisherState, PublisherPc
  <2> HIDE DEF r
  <2> QED BY <1>1, <1>4, <2>1, <2>2, <2>4, MoveKeeps DEF Attempting, Dialling
<1> QED BY <1>2, <1>3, <1>4

LEMMA PublishKeeps ==
  ASSUME RabbitInv, NEW p \in Publisher, Publish(p) \/ PublishPanics(p)
  PROVE  RabbitInv'
<1> DEFINE s == pub[p]
           r == [s EXCEPT !.pc = "ok", !.written = IF s.chan \in dying THEN "lost" ELSE "broker"]
<1>1. /\ s \in PublisherState /\ s.written = "nothing" /\ ~s.reopened /\ s.pc = "publish"
      /\ s.enable \in Honoured
      /\ s.chan = NoConn => s.attempt > 1
  BY CallFacts DEF Publish, PublishPanics, AtPub, CallKept, Attempting
<1>2. CASE Publish(p)
  <2>1. Moves(p, r)
    BY <1>2 DEF Publish
  <2>2. /\ r \in PublisherState /\ r.pc = "ok" /\ r.chan = s.chan
        /\ r.written = IF s.chan \in dying THEN "lost" ELSE "broker"
        /\ r.enable = s.enable /\ r.reopened = s.reopened
    BY <1>1 DEF PublisherState, PublisherPc
  <2> HIDE DEF r
  <2> QED BY <1>1, <2>1, <2>2, MoveKeeps DEF Attempting, Dialling
<1>3. CASE PublishPanics(p)
  <2>1. Goes(p, "panic") /\ s.chan = NoConn
    BY <1>3 DEF PublishPanics
  <2> QED BY <1>1, <2>1, GoesKeeps DEF PublisherPc
<1> QED BY <1>2, <1>3

(* The end of an attempt, with or without an error left.                   *)
LEMMA AttemptKeeps ==
  ASSUME RabbitInv, NEW p \in Publisher, NEW s \in PublisherState,
         NEW failed \in BOOLEAN, Moves(p, AfterAttempt(s, failed)),
         s.attempt \in 1..maxRetries, s.written = "nothing", s.enable \in Honoured,
         s.reopened <=> (~failed /\ s.attempt = maxRetries)
  PROVE  RabbitInv'
<1>1. PICK r \in PublisherState :
        /\ r = AfterAttempt(s, failed)
        /\ r.pc \in {"publish", "ok", "error"}
        /\ r.written = "nothing" /\ r.enable \in Honoured /\ r.attempt \in 1..maxRetries
        /\ r.pc = "publish" => r.attempt > 1
        /\ r.pc = "ok" <=> r.reopened
  BY AttemptOver
<1> QED BY <1>1, MoveKeeps DEF Attempting, Dialling

LEMMA PublishFailsKeeps ==
  ASSUME RabbitInv, NEW p \in Publisher, PublishFails(p)
  PROVE  RabbitInv'
<1>1. /\ pub[p] \in PublisherState /\ pub[p].written = "nothing"
      /\ pub[p].pc \in Attempting /\ pub[p].pc # "ok"
      /\ pub[p].enable \in Honoured /\ pub[p].attempt \in 1..maxRetries
      /\ ~pub[p].reopened
  BY CallFacts DEF PublishFails, AtPub, CallKept, Attempting
<1>2. CASE Goes(p, "reensure")
  BY <1>1, <1>2, GoesKeeps DEF PublisherPc
<1>3. CASE Moves(p, AfterAttempt(pub[p], TRUE))
  BY <1>1, <1>3, AttemptKeeps
<1> QED BY <1>2, <1>3 DEF PublishFails

LEMMA ReopenKeeps ==
  ASSUME RabbitInv, NEW p \in Publisher, Reopen(p)
  PROVE  RabbitInv'
<1> DEFINE s == pub[p]
           nil == [s EXCEPT !.chan = NoConn]
           new == [s EXCEPT !.chan = conn,
                            !.reopened = (s.attempt = maxRetries)]
<1>1. /\ s \in PublisherState /\ s.written = "nothing" /\ ~s.reopened /\ s.pc = "reopen"
      /\ s.enable \in Honoured /\ s.attempt \in 1..maxRetries
  BY CallFacts DEF Reopen, AtPub, CallKept, Attempting
<1>2. CASE conn = NoConn
  <2>1. Goes(p, "panic") /\ s.shared
    BY <1>1, <1>2, CallFacts DEF Reopen, SharedKept
  <2> QED BY <1>1, <2>1, GoesKeeps DEF PublisherPc
<1>3. CASE conn # NoConn /\ conn \notin alive
  <2>1. Moves(p, AfterAttempt(nil, TRUE))
    BY <1>3 DEF Reopen
  <2>2. /\ nil \in PublisherState /\ nil.written = "nothing" /\ nil.enable = s.enable
        /\ nil.attempt = s.attempt /\ ~nil.reopened
    BY <1>1 DEF PublisherState
  <2> HIDE DEF nil
  <2> QED BY <1>1, <2>1, <2>2, AttemptKeeps
<1>4. CASE conn # NoConn /\ conn \in alive
  <2>1. Moves(p, AfterAttempt(new, FALSE))
    BY <1>4 DEF Reopen
  <2>2. /\ new \in PublisherState /\ new.written = "nothing" /\ new.enable = s.enable
        /\ new.attempt = s.attempt
        /\ new.reopened = (s.attempt = maxRetries)
    BY <1>1, CallFacts DEF PublisherState
  <2>3. s.attempt < maxRetries => s.attempt # maxRetries
    BY <1>1 DEF maxRetries
  <2> HIDE DEF new
  <2> QED BY <1>1, <2>1, <2>2, <2>3, AttemptKeeps
<1> QED BY <1>2, <1>3, <1>4

------------------------------------------------------------------------------
LEMMA RabbitStepKeeps ==
  ASSUME RabbitInv, [RabbitNext]_rabbitVars
  PROVE  RabbitInv'
<1>1. CASE UNCHANGED rabbitVars
  BY <1>1 DEF RabbitInv, RabbitTypeOK, CallsKept, CallKept, SharedKept,
     AnswerIsTruthful, AtPub, rabbitVars
<1>2. CASE Broker
  BY <1>2, BrokerKeeps
<1>3. ASSUME NEW p \in Publisher,
             \/ \E enable \in Enables : Produce(p, enable)
             \/ Publishing(p)
             \/ Returns(p)
      PROVE  RabbitInv'
  BY <1>3, ProduceKeeps, EnsureKeeps, DialSucceedsKeeps, DialFailsKeeps, OpenKeeps,
     DeclareKeeps, PublishKeeps, PublishFailsKeeps, ReopenKeeps, ReturnsKeeps
     DEF Publishing
<1> QED BY <1>1, <1>2, <1>3 DEF RabbitNext

LEMMA RabbitBegins == RabbitInit => RabbitInv
BY DEF RabbitInit, Idle, RabbitInv, RabbitTypeOK, CallsKept, CallKept, SharedKept,
       AnswerIsTruthful, AtPub, Attempting, Dialling, PublisherState, PublisherPc,
       Enables, MaxDials, maxRetries

LEMMA RabbitInvHolds == RabbitSpec => []RabbitInv
BY RabbitBegins, RabbitStepKeeps, PTL DEF RabbitSpec

(* Whatever the number of concurrent calls, the connections and the calls  *)
(* keep their shapes, and no call makes more attempts or dials than it may *)
(* (rabbitmq_producer.go:24-167).                                          *)
THEOREM RabbitTypeCorrect == RabbitSpec => []RabbitTypeOK
BY RabbitInvHolds, PTL DEF RabbitInv

(* Whatever the number of concurrent calls, Produce reports what became of *)
(* the event, but for the cases that AnswerIsTruthful names                *)
(* (rabbitmq_producer.go:102-240).                                         *)
THEOREM AnswersAreTruthful == RabbitSpec => []AnswerIsTruthful
BY RabbitInvHolds, PTL DEF RabbitInv

(* Only a dial that overlaps another one leaves an open connection behind  *)
(* (rabbitmq_producer.go:102).                                             *)
THEOREM ConnectionsAreKept == RabbitSpec => LiveConnectionIsKept
<1>1. ASSUME RabbitInv, [RabbitNext]_rabbitVars
      PROVE  [(conn \in alive /\ conn' # conn) =>
                \E p \in Publisher :
                  AtPub(p, {"dial", "redial"}) /\ pub[p].shared]_rabbitVars
  <2>1. SUFFICES ASSUME RabbitNext, conn \in alive, conn' # conn
                 PROVE  \E p \in Publisher :
                          AtPub(p, {"dial", "redial"}) /\ pub[p].shared
    BY <1>1
  <2>2. PICK p \in Publisher : DialSucceeds(p) \/ DialFails(p)
    BY <2>1 DEF RabbitNext, Broker, LoseConnection, Notices, BrokerStops, BrokerStarts,
       Produce, Returns, Publishing, Ensure, Open, Declare, Publish,
       PublishPanics, PublishFails, Reopen, Goes, Moves
  <2>3. AtPub(p, {"dial", "redial"})
    BY <2>2 DEF DialSucceeds, DialFails
  <2> QED BY <1>1, <2>1, <2>3, CallFacts DEF SharedKept, AtPub, Dialling
<1> QED BY <1>1, RabbitInvHolds, PTL DEF RabbitSpec, LiveConnectionIsKept

------------------------------------------------------------------------------
(* The whole implements it.                                                *)

(* The posts are no more than there are goroutines for.                    *)
PostsKept == Len(posts) <= MaxPosts /\ \E S : posts \in Seq(S)

------------------------------------------------------------------------------
LEMMA EmitKeeps ==
  ASSUME PostsKept, NEW T, NEW new \in Seq(T), Emit(new)
  PROVE  PostsKept'
<1>1. PICK S : posts \in Seq(S)
  BY DEF PostsKept
<1>2. posts' = posts \o new /\ Len(posts') <= MaxPosts
  BY DEF Emit
<1>3. posts \in Seq(S \cup T) /\ new \in Seq(S \cup T)
  BY <1>1
<1>4. posts' \in Seq(S \cup T)
  BY <1>2, <1>3
<1> QED BY <1>2, <1>4 DEF PostsKept

LEMMA HandlerKeeps ==
  ASSUME PostsKept, Handler
  PROVE  PostsKept' /\ UNCHANGED rabbitVars
<1>1. UNCHANGED rabbitVars
  BY DEF Handler, OnPlain, OnConnected, OnUnposted, OnArchive, OnLoggedOut,
         OnCallOffer, OnUndecryptable, OnLabelEdit, OnMessage, OnReceipt, Handles
<1>2. ASSUME NEW x, Emit(<<x>>)
      PROVE  PostsKept'
  BY <1>2, <<x>> \in Seq({x}), EmitKeeps
<1>3. ASSUME NEW x, NEW y, Emit(<<x, y>>)
      PROVE  PostsKept'
  BY <1>3, <<x, y>> \in Seq({x, y}), EmitKeeps
<1>4. ASSUME Silent
      PROVE  PostsKept'
  BY <1>4 DEF Silent, PostsKept
<1>5. ASSUME NEW e, NEW x, Emit(Click(e) \o <<x>>)
      PROVE  PostsKept'
  <2>1. PICK c : Click(e) = <<c>> \/ Click(e) = <<>>
    BY DEF Click
  <2>2. CASE Click(e) = <<c>>
    <3>1. <<c>> \in Seq({c, x}) /\ <<x>> \in Seq({c, x})
      OBVIOUS
    <3>2. Click(e) \o <<x>> \in Seq({c, x})
      BY <2>2, <3>1
    <3> QED BY <1>5, <3>2, EmitKeeps
  <2>3. CASE Click(e) = <<>>
    <3>1. <<>> \in Seq({x}) /\ <<x>> \in Seq({x})
      OBVIOUS
    <3>2. Click(e) \o <<x>> \in Seq({x})
      BY <2>3, <3>1
    <3> QED BY <1>5, <3>2, EmitKeeps
  <2> QED BY <2>1, <2>2, <2>3
<1>6. PostsKept'
  BY <1>2, <1>3, <1>4, <1>5 DEF Handler, OnPlain, OnConnected, OnUnposted,
     OnArchive, OnLoggedOut, OnCallOffer, OnUndecryptable, OnLabelEdit,
     OnMessage, OnReceipt
<1> QED BY <1>1, <1>6

(* What a goroutine of CallWebhook does, the writes that hang included.    *)
CallSteps(p) == CallWebhook(p) \/ WriteHangs(p) \/ WriteResumes(p)

LEMMA CallIsLaneOnly ==
  ASSUME NEW p, CallSteps(p)
  PROVE  LaneOnly
BY DEF CallSteps, CallWebhook, Dispatch, Match, Matched, Invalidate, LookUp,
   Resolve, ResolveFails, Store, ToRabbit, RabbitAnswers, ToNatsServer,
   ToWebsocket, Sink, PassedOver, CastEnds, WriteEnds, WriteHangs, WriteResumes,
   WaitsForLock, GetsLock, ToHook

(* What the producer does but for losing a connection.                     *)
CallsProducer(p) ==
  \/ UNCHANGED rabbitVars
  \/ \E enable \in Enables : Produce(p, enable)
  \/ Returns(p)

Calm ==
  \/ BrokerStarts \/ \E c \in Conn : Notices(c)
  \/ \E p \in Publisher : CallsProducer(p) \/ Publishing(p)

LEMMA CalmIsRabbitStep ==
  ASSUME Calm
  PROVE  [RabbitNext]_rabbitVars
BY DEF Calm, CallsProducer, RabbitNext, Broker

LEMMA CallWebhookSteps ==
  ASSUME NEW p, CallSteps(p)
  PROVE  UNCHANGED posts /\ CallsProducer(p)
<1>1. UNCHANGED posts
  BY CallIsLaneOnly DEF LaneOnly
<1>2. CASE ToRabbit(p) \/ Match(p) \/ Matched(p) \/ RabbitAnswers(p)
  BY <1>1, <1>2 DEF ToRabbit, Match, Matched, RabbitAnswers, On, Enables, CallsProducer
<1>3. CASE ~(ToRabbit(p) \/ Match(p) \/ Matched(p) \/ RabbitAnswers(p))
  <2>1. UNCHANGED rabbitVars
    BY <1>3 DEF CallSteps, CallWebhook, Dispatch, Invalidate, LookUp, Resolve,
       ResolveFails, Store, ToNatsServer, ToWebsocket, Sink, PassedOver, CastEnds,
       WriteEnds, WriteHangs, WriteResumes, WaitsForLock, GetsLock, ToHook
  <2> QED BY <1>1, <2>1 DEF CallsProducer
<1> QED BY <1>2, <1>3

LEMMA GlobalQueuesSteps ==
  ASSUME NEW p, SendToGlobalQueues(p)
  PROVE  UNCHANGED posts /\ CallsProducer(p)
BY DEF SendToGlobalQueues, GlobalAmqp, GlobalAnswers, GlobalNats, Enables, LaneOnly,
   CallsProducer

LEMMA LanesSteps ==
  ASSUME PostsKept, NEW n \in DOMAIN posts,
         \/ CallSteps(<<n, "call">>) \/ SendToGlobalQueues(<<n, "global">>)
         \/ RabbitWorks(<<n, "call">>) \/ RabbitWorks(<<n, "global">>)
  PROVE  UNCHANGED posts /\ Calm
<1>1. n \in 1..MaxPosts
  BY PostsAssumption DEF PostsKept
<1>2. <<n, "call">> \in Publisher /\ <<n, "global">> \in Publisher
  BY <1>1, LanesArePublishers
<1>3. ASSUME NEW p \in Publisher, RabbitWorks(p)
      PROVE  UNCHANGED posts /\ Publishing(p)
  BY <1>3 DEF RabbitWorks, eventVars
<1> QED BY <1>2, <1>3, CallWebhookSteps, GlobalQueuesSteps DEF Calm

(* The goroutines that post to a webhook.                                  *)
Posting == Http \/ \E h \in http : PostHangs(h) \/ PostResumes(h)

LEMMA OtherSteps ==
  ASSUME Cause \/ BrokerReturns \/ LossIsNoticed \/ Expire \/ WriteRow \/ Posting
  PROVE  UNCHANGED posts /\ (UNCHANGED rabbitVars \/ Calm)
<1>1. CASE Cause \/ Expire \/ WriteRow \/ Posting
  BY <1>1 DEF Cause, Expire, WriteRow, Posting, Http, Delivered, NotDelivered,
     PostHangs, PostResumes, HttpBecomes
<1>2. CASE BrokerReturns \/ LossIsNoticed
  BY <1>2 DEF BrokerReturns, LossIsNoticed, Calm, eventVars
<1> QED BY <1>1, <1>2

LEMMA StepIsCalm ==
  ASSUME PostsKept, [Next]_vars
  PROVE  PostsKept' /\ (UNCHANGED rabbitVars \/ Calm \/ BrokerFault)
<1>1. CASE UNCHANGED vars
  BY <1>1 DEF vars, eventVars, PostsKept
<1>2. CASE Handler
  BY <1>2, HandlerKeeps
<1>3. ASSUME NEW n \in DOMAIN posts,
             \/ CallSteps(<<n, "call">>) \/ SendToGlobalQueues(<<n, "global">>)
             \/ RabbitWorks(<<n, "call">>) \/ RabbitWorks(<<n, "global">>)
      PROVE  PostsKept' /\ Calm
  BY <1>3, LanesSteps DEF PostsKept
<1>4. CASE Cause \/ BrokerReturns \/ LossIsNoticed \/ Expire \/ WriteRow \/ Posting
  BY <1>4, OtherSteps DEF PostsKept
<1>5. CASE BrokerFault
  BY <1>5 DEF BrokerFault, PostsKept
<1> QED BY <1>1, <1>2, <1>3, <1>4, <1>5 DEF Next, Lanes, Hanging, CallSteps, Posting

LEMMA StepIsRabbitStep ==
  ASSUME PostsKept, [Next]_vars
  PROVE  PostsKept' /\ [RabbitNext]_rabbitVars
<1>1. BrokerFault => RabbitNext
  BY DEF BrokerFault, RabbitNext, Broker
<1> QED BY <1>1, StepIsCalm, CalmIsRabbitStep

(* The producer within the whole is the producer by itself: the goroutines *)
(* that call it, and the broker, do to it only what RabbitProducer lets    *)
(* them do (whatsmeow.go:2175, 2398, webhook_service.go:549).              *)
THEOREM ProducerIsImplemented == Spec => RabbitSpec
<1>1. Init => RabbitInit /\ PostsKept
  <2> SUFFICES ASSUME Init PROVE RabbitInit /\ PostsKept
    OBVIOUS
  <2>1. posts = <<>> /\ posts \in Seq({})
    BY DEF Init
  <2> QED BY <2>1, PostsAssumption DEF Init, PostsKept
<1>2. PostsKept /\ [Next]_vars => PostsKept' /\ [RabbitNext]_rabbitVars
  BY StepIsRabbitStep
<1> QED BY <1>1, <1>2, PTL DEF Spec, RabbitSpec

(* In the whole, whatever the settings, the events and the faults, Produce *)
(* reports what became of an event, but for the cases that are named.      *)
THEOREM DeliveryAnswersAreTruthful == Spec => []AnswerIsTruthful
BY ProducerIsImplemented, AnswersAreTruthful, PTL

(* In the whole, an open connection is left behind only by dials that      *)
(* overlap.                                                                *)
THEOREM DeliveryKeepsConnections == Spec => LiveConnectionIsKept
BY ProducerIsImplemented, ConnectionsAreKept, PTL
------------------------------------------------------------------------------
(* The shape of the state.                                                 *)
Text == STRING \cup {"", "phone"}
Media == {"none", "skipped", "unstored", "unsigned", "url", "base64"}
EventState == [kind : STRING, chat : Text, sender : Text, alt : STRING,
               own : BOOLEAN, content : STRING, ids : Seq(STRING)]
CallPcs == NotInvalidated \cup {"none", "rabbit", "rabbitWait", "nats", "ws", "hook", "done"}
GlobalPcs == {"none", "amqp", "amqpWait", "natsGlobal", "subject", "done"}
LaneState == [pc : CallPcs \cup GlobalPcs, w : Nat, held : {"no", "write", "lock"},
              groups : Text, contacts : Text, fetched : Text, raced : BOOLEAN]
PostState == [type : Types, event : Nat, media : Media, chat : Text,
              sender : Text, own : BOOLEAN]
SinkNames == {"rabbit", "nats", "ws", "hook"}
HasGlobal == conf.amqpGlobal \/ conf.natsGlobal

ServerShape ==
  /\ setting \in Settings
  /\ caused \in Nat /\ caused <= Len(stream)
  /\ handled \in Nat /\ handled <= caused
  /\ faults \in Nat /\ setting.faults \in Nat /\ faults <= setting.faults
PostsShape ==
  /\ posts \in Seq(PostState) /\ Len(posts) <= MaxPosts
  /\ \A n \in 1..Len(posts) : posts[n].event \in 1..handled
LanesShape ==
  /\ lane \in [Publisher -> LaneState]
  /\ \A n \in Post :
       lane[<<n, "call">>].pc \in CallPcs /\ lane[<<n, "global">>].pc \in GlobalPcs
  /\ \A n \in Post : lane[<<n, "call">>].pc \in {"match", "wait", "cast"} =>
       lane[<<n, "call">>].w >= 1
  /\ \A n \in Post : (lane[<<n, "call">>].pc = "none") = (n > Len(posts))
  /\ \A n \in Post :
       (lane[<<n, "global">>].pc = "none") = (n > Len(posts) \/ ~HasGlobal)
CacheState == [loaded : BOOLEAN, name : Text, raced : BOOLEAN]
CacheShape == cache \in [Kind -> CacheState]
HttpShape ==
  \A h \in http :
    /\ h \in [post : Nat, via : Nat, to : {"url", "global"}, tries : Nat, got : Nat,
              pc : {"post", "hangs", "ok", "failed"}]
    /\ h.tries <= maxTries /\ h.got <= h.tries
    /\ (h.pc \in {"post", "hangs"} => h.tries < maxTries)
    /\ h.post \in 1..Len(posts)
Outcomes == {"no", "sent", "dropped", "failed"}
ResultShape == result \in [Post -> [SinkNames -> Outcomes]]
RowsShape == \A w \in row \cup pending : w.at \in 1..handled

Shape ==
  /\ ServerShape /\ PostsShape /\ LanesShape
  /\ CacheShape /\ HttpShape /\ ResultShape /\ RowsShape


(* Every number of a set of them that is not empty is above a least one.   *)
LEMMA Least ==
  ASSUME NEW S \in SUBSET Nat, S # {}
  PROVE  \E x \in S : \A y \in S : x <= y
<1> DEFINE T == {0..n : n \in S}
<1>1. T \subseteq FiniteSubsetsOf(Nat)
  <2> SUFFICES ASSUME NEW n \in S
               PROVE  0..n \in FiniteSubsetsOf(Nat)
    OBVIOUS
  <2>1. n \in Int /\ 0 \in Int /\ 0..n \in SUBSET Nat
    OBVIOUS
  <2>2. IsFiniteSet(0..n)
    BY <2>1, FS_Interval
  <2> HIDE <2>1
  <2>3. 0..n \in {X \in SUBSET Nat : IsFiniteSet(X)}
    BY <2>1, <2>2
  <2> QED BY <2>3, Zenon DEF FiniteSubsetsOf
<1>5. T # {}
  OBVIOUS
<1>2. PICK t \in T : \A u \in T : ~(<<u, t>> \in StrictSubsetOrdering(Nat))
  BY <1>1, <1>5, FS_StrictSubsetOrderingWellFounded, WFMin
<1>3. PICK x \in S : t = 0..x
  OBVIOUS
<1>4. ASSUME NEW y \in S, y < x
      PROVE  FALSE
  <2>1. 0..y \in T
    OBVIOUS
  <2>2. 0..y \subseteq 0..x /\ x \in 0..x /\ x \notin 0..y
    BY <1>4
  <2>3. <<0..y, t>> \in StrictSubsetOrdering(Nat)
    BY <2>2, <1>3 DEF StrictSubsetOrdering
  <2> QED BY <2>1, <2>3, <1>2
<1> QED BY <1>4

LEMMA Largest ==
  ASSUME NEW c \in Nat, NEW S \in SUBSET (0..c), S # {}
  PROVE  \E x \in S : \A y \in S : y <= x
<1> DEFINE D == {c - n : n \in S}
<1>1. D \in SUBSET Nat
  OBVIOUS
<1>2. D # {}
  OBVIOUS
<1>3. PICK d \in D : \A y \in D : d <= y
  BY <1>1, <1>2, Least
<1>4. PICK n \in S : d = c - n
  OBVIOUS
<1>5. ASSUME NEW y \in S
      PROVE  y <= n
  <2>1. d <= c - y
    BY <1>3
  <2> QED BY <2>1, <1>4
<1> QED BY <1>5

LEMMA StreamShape ==
  ASSUME ServerShape
  PROVE  /\ Len(stream) \in Nat /\ DOMAIN stream = 1..Len(stream)
         /\ \A n \in 1..Len(stream) :
              stream[n] \in EventState /\ stream[n].ids # <<>>
         /\ webhooks \in Seq(ToSet(webhooks)) /\ Len(webhooks) \in Nat
         /\ \A k \in Kind : setting.names[k] \in Seq(STRING)
                            /\ Len(setting.names[k]) > Len(stream)
<1>1. setting \in Settings
  BY DEF ServerShape
<1> DEFINE Sent == [kind : STRING, chat : STRING, sender : STRING, alt : STRING,
                    own : BOOLEAN, content : STRING, ids : Seq(STRING)]
<1>2. stream \in Seq(Sent) /\ \A n \in DOMAIN stream : stream[n].ids # <<>>
  BY <1>1, SettingsAssumption DEF stream
<1>3. \A e \in Sent : e \in EventState
  BY DEF EventState, Text
<1>4. \A n \in 1..Len(stream) : stream[n] \in Sent
  BY <1>2, ElementOfSeq
<1>5. Len(stream) \in Nat /\ DOMAIN stream = 1..Len(stream)
  BY <1>2, LenProperties
<1>6. webhooks \in Seq(ToSet(webhooks))
  BY <1>1, SettingsAssumption DEF webhooks
<1>7. \A k \in Kind :
        setting.names[k] \in Seq(STRING) /\ Len(setting.names[k]) > Len(stream)
  BY <1>1, SettingsAssumption DEF Kind, stream
<1> HIDE DEF Sent
<1> QED BY <1>2, <1>3, <1>4, <1>5, <1>6, <1>7

LEMMA CurrentIsName ==
  ASSUME ServerShape, NEW k \in Kind
  PROVE  Current(k) \in STRING
<1> DEFINE S == {n \in 1..caused : stream[n].kind \in Changes[k]}
<1>1. caused \in Nat /\ caused <= Len(stream)
  BY DEF ServerShape
<1>2. IsFiniteSet(1..caused) /\ Cardinality(1..caused) = caused
  BY <1>1, FS_Interval
<1>3. S \in SUBSET (1..caused)
  OBVIOUS
<1>4. IsFiniteSet(S) /\ Cardinality(S) <= caused
  BY <1>2, <1>3, FS_Subset
<1>5. Cardinality(S) \in Nat
  BY <1>4, FS_CardinalityType
<1>6. 1 + Cardinality(S) \in 1..Len(setting.names[k])
  BY <1>1, <1>4, <1>5, StreamShape
<1> QED BY <1>6, StreamShape, ElementOfSeq DEF Current

(***************************************************************************)
(* What the handler makes of an event.                                     *)
Unignored(e) ==
  /\ e.kind \in {"Message", "Receipt"} => ~IgnoresGroup(e)
  /\ e.kind = "Message" => ~IgnoresStatus(e)

IsPostOf(q, e) ==
  /\ q.own <=> q.type \in {"Message", "SendMessage"} /\ e.own
  /\ Unignored(e)
  /\ \A k \in Kind : Tells(k, e) => q.type \in Invalidating

(* The posts that are made of the event that comes next.                   *)
Made(new) ==
  /\ new \in Seq(PostState)
  /\ \A i \in 1..Len(new) : new[i].event = handled + 1 /\ IsPostOf(new[i], Event)
  /\ \A k \in Kind : Tells(k, Event) => Len(new) > 0

Emits == \E new : Made(new) /\ Emit(new)

LEMMA SilentEmits ==
  ASSUME ServerShape, PostsShape, LanesShape, Silent,
         \A k \in Kind : ~Tells(k, Event)
  PROVE  Emits
<1>1. posts \o <<>> = posts
  BY DEF PostsShape
<1>2. Len(posts) \in Nat /\ Len(posts) <= MaxPosts
  BY DEF PostsShape
<1>3. \A p \in Publisher : p[1] \notin Len(posts) + 1..Len(posts)
  BY <1>2
<1>4. lane = [p \in Publisher |-> lane[p]]
  BY DEF LanesShape
<1>5. Emit(<<>>)
  BY <1>1, <1>2, <1>3, <1>4 DEF Emit, Silent
<1>6. <<>> \in Seq(PostState) /\ Len(<<>>) = 0
  OBVIOUS
<1>7. Made(<<>>)
  BY <1>6 DEF Made
<1> QED BY <1>5, <1>7 DEF Emits

LEMMA EventIsThere ==
  ASSUME ServerShape, handled < caused
  PROVE  handled + 1 \in 1..Len(stream) /\ Event \in EventState
BY StreamShape DEF ServerShape, Event

LEMMA SwappedIsEvent ==
  ASSUME NEW e \in EventState
  PROVE  /\ Swapped(e) \in EventState
         /\ Swapped(e).own = e.own /\ Swapped(e).kind = e.kind
         /\ Swapped(e).content = e.content /\ Swapped(e).ids = e.ids
         /\ IgnoresGroup(Swapped(e)) <=> IgnoresGroup(e)
         /\ IgnoresStatus(Swapped(e)) <=> IgnoresStatus(e)
<1>1. CASE e.sender = "lid" /\ e.alt = "phone"
  <2>1. PICK c \in Text : /\ Swapped(e) = [e EXCEPT !.sender = "phone", !.chat = c]
                            /\ c = (IF e.chat = "lid" THEN "phone" ELSE e.chat)
    BY <1>1 DEF Swapped, EventState, Text
  <2>2. Swapped(e) \in EventState /\ Swapped(e).chat = c
    BY <2>1 DEF EventState, Text
  <2>3. c = "group" <=> e.chat = "group"
    BY <2>1
  <2>4. c = "broadcast" <=> e.chat = "broadcast"
    BY <2>1
  <2>5. /\ Swapped(e).own = e.own /\ Swapped(e).kind = e.kind
        /\ Swapped(e).content = e.content /\ Swapped(e).ids = e.ids
    BY <2>1 DEF EventState
  <2>6. /\ IgnoresGroup(Swapped(e)) <=> IgnoresGroup(e)
        /\ IgnoresStatus(Swapped(e)) <=> IgnoresStatus(e)
    BY <2>2, <2>3, <2>4 DEF IgnoresGroup, IgnoresStatus
  <2> QED BY <2>2, <2>5, <2>6
<1>2. CASE ~(e.sender = "lid" /\ e.alt = "phone")
  BY <1>2 DEF Swapped
<1> QED BY <1>1, <1>2

LEMMA PostOfIsPost ==
  ASSUME ServerShape, NEW e \in EventState, NEW type \in Types, NEW media \in Media
  PROVE  /\ PostOf(type, e, media) \in PostState
         /\ PostOf(type, e, media).event = handled + 1
         /\ PostOf(type, e, media).type = type
         /\ PostOf(type, e, media).own <=> type \in {"Message", "SendMessage"} /\ e.own
<1> DEFINE q == PostOf(type, e, media)
           mine == type \in {"Message", "SendMessage"} /\ e.own
<1>5. "" \in Text /\ e.chat \in Text /\ e.sender \in Text
  BY DEF EventState, Text
<1>1. PICK c \in Text, s \in Text :
        q = [type |-> type, event |-> handled + 1, media |-> media, chat |-> c,
             sender |-> s, own |-> mine]
  BY <1>5, Zenon DEF PostOf
<1>2. mine \in BOOLEAN
  OBVIOUS
<1>3. q.own = mine
  BY <1>1
<1> HIDE DEF mine
<1>4. q \in PostState /\ q.event = handled + 1 /\ q.type = type
  BY <1>1, <1>2 DEF PostState, ServerShape
<1> QED BY <1>3, <1>4 DEF mine

(* One post, of the event that comes next.                                 *)
LEMMA OneIsMade ==
  ASSUME ServerShape, handled < caused, NEW type \in Types,
         Emit(<<PostOf(type, Event, "none")>>),
         Unignored(Event), \A k \in Kind : Tells(k, Event) => type \in Invalidating
  PROVE  Emits
<1> DEFINE q == PostOf(type, Event, "none")
<1>1. q \in PostState /\ q.event = handled + 1 /\ IsPostOf(q, Event)
  <2>1. Event \in EventState /\ "none" \in Media
    BY EventIsThere DEF Media
  <2>2. /\ q \in PostState /\ q.event = handled + 1 /\ q.type = type
        /\ q.own <=> type \in {"Message", "SendMessage"} /\ Event.own
    BY <2>1, PostOfIsPost
  <2> QED BY <2>2 DEF IsPostOf
<1> HIDE DEF q
<1>2. <<q>> \in Seq(PostState) /\ Len(<<q>>) = 1 /\ <<q>>[1] = q
  BY <1>1
<1>3. Made(<<q>>)
  BY <1>1, <1>2 DEF Made
<1> QED BY <1>3 DEF q, Emits

LEMMA PlainMakes ==
  ASSUME ServerShape, OnPlain
  PROVE  Emits
<1>1. /\ Event.kind \in Plain /\ handled < caused
      /\ Emit(<<PostOf(Event.kind, Event, "none")>>)
  BY DEF OnPlain, Handles
<1>2. Event.kind \in Types
  BY <1>1 DEF Plain, Types, ToLower
<1>3. Unignored(Event)
  BY <1>1 DEF Unignored, Plain
<1>4. \A k \in Kind : Tells(k, Event) => Event.kind \in Invalidating
  BY DEF Tells, TellsOfConnection, Kind, Changes, Invalidating
<1> QED BY <1>1, <1>2, <1>3, <1>4, OneIsMade

(* The kinds of events that neither tell of names nor are ever ignored.    *)
LEMMA OtherKinds ==
  ASSUME Event.kind \in {"AppState", "AppStateSyncComplete", "StreamReplaced", "IdentityChange",
            "Archive", "LoggedOut", "CallOffer", "UndecryptableMessage",
            "LabelEdit"}
  PROVE  Unignored(Event) /\ \A k \in Kind : ~Tells(k, Event)
BY DEF Unignored, Tells, TellsOfConnection, Kind, Changes

LEMMA UnpostedMakes ==
  ASSUME Shape, OnUnposted \/ OnArchive
  PROVE  Emits
<1>1. Silent /\ Event.kind \in {"AppState", "AppStateSyncComplete", "StreamReplaced",
                                "IdentityChange", "Archive"}
  BY DEF OnUnposted, OnArchive, Handles
<1> QED BY <1>1, OtherKinds, SilentEmits DEF Shape

LEMMA ConnectedMakes ==
  ASSUME Shape, OnConnected
  PROVE  Emits
<1>1. Event.kind = "Connected" /\ handled < caused
  BY DEF OnConnected, Handles
<1>2. CASE Event.content = "nameless"
  <2>1. Silent
    BY <1>2 DEF OnConnected
  <2>2. \A k \in Kind : ~Tells(k, Event)
    BY <1>1, <1>2 DEF Tells, TellsOfConnection, Kind, Changes
  <2> QED BY <2>1, <2>2, SilentEmits DEF Shape
<1>3. CASE Event.content # "nameless"
  <2>1. Emit(<<PostOf("Connected", Event, "none")>>)
    BY <1>3 DEF OnConnected
  <2>2. "Connected" \in Types /\ "Connected" \in Invalidating
    BY DEF Types, ToLower, Invalidating
  <2>3. Unignored(Event)
    BY <1>1 DEF Unignored
  <2> QED BY <1>1, <2>1, <2>2, <2>3, OneIsMade DEF Shape
<1> QED BY <1>2, <1>3

LEMMA OthersMake ==
  ASSUME Shape, OnCallOffer \/ OnUndecryptable \/ OnLabelEdit
  PROVE  Emits
<1>1. /\ Event.kind \in {"CallOffer", "UndecryptableMessage", "LabelEdit"} /\ handled < caused
      /\ Silent \/ \E type \in {"CallOffer", "Message", "LabelEdit"} :
                     Emit(<<PostOf(type, Event, "none")>>)
  BY DEF OnCallOffer, OnUndecryptable, OnLabelEdit, Handles
<1>2. Unignored(Event) /\ \A k \in Kind : ~Tells(k, Event)
  BY <1>1, OtherKinds
<1>3. {"CallOffer", "Message", "LabelEdit"} \subseteq Types
  BY DEF Types, ToLower
<1> QED BY <1>1, <1>2, <1>3, SilentEmits, OneIsMade DEF Shape

LEMMA LoggedOutMakes ==
  ASSUME Shape, OnLoggedOut
  PROVE  Emits
<1> DEFINE q == PostOf("LoggedOut", Event, "none")
<1>1. Event.kind = "LoggedOut" /\ handled < caused /\ Emit(<<q, q>>)
  BY DEF OnLoggedOut, Handles
<1>2. "LoggedOut" \in Types /\ "none" \in Media /\ Event \in EventState
  BY <1>1, EventIsThere DEF Types, ToLower, Media, Shape
<1>3. /\ q \in PostState /\ q.event = handled + 1
      /\ q.own <=> "LoggedOut" \in {"Message", "SendMessage"} /\ Event.own
      /\ q.type = "LoggedOut"
  BY <1>2, PostOfIsPost DEF Shape
<1>4. Unignored(Event) /\ \A k \in Kind : ~Tells(k, Event)
  BY <1>1, OtherKinds
<1>5. IsPostOf(q, Event)
  BY <1>3, <1>4 DEF IsPostOf
<1> HIDE DEF q
<1>6. /\ <<q, q>> \in Seq(PostState) /\ Len(<<q, q>>) = 2 /\ <<q, q>>[1] = q
      /\ <<q, q>>[2] = q
  BY <1>3
<1>7. Made(<<q, q>>)
  BY <1>3, <1>5, <1>6 DEF Made
<1> QED BY <1>1, <1>7 DEF Emits

LEMMA MessageMakes ==
  ASSUME Shape, OnMessage
  PROVE  Emits
<1> DEFINE e == Swapped(Event)
<1>1. Event.kind = "Message" /\ handled < caused
  BY DEF OnMessage, Handles
<1>2. /\ e \in EventState /\ e.own = Event.own /\ e.kind = "Message"
      /\ IgnoresGroup(e) <=> IgnoresGroup(Event)
      /\ IgnoresStatus(e) <=> IgnoresStatus(Event)
  BY <1>1, EventIsThere, SwappedIsEvent DEF Shape
<1>3. \A k \in Kind : ~Tells(k, Event)
  BY <1>1 DEF Tells, TellsOfConnection, Kind, Changes
<1>4. CASE IgnoresStatus(e) \/ IgnoresGroup(e) \/ e.content = "protocol"
  <2>1. Silent
    BY <1>4 DEF OnMessage
  <2> QED BY <2>1, <1>3, SilentEmits DEF Shape
<1>5. CASE ~(IgnoresStatus(e) \/ IgnoresGroup(e) \/ e.content = "protocol")
  <2>1. PICK media \in MediaOutcomes(e) : Emit(Click(e) \o <<PostOf("Message", e, media)>>)
    BY <1>5 DEF OnMessage
  <2>2. media \in Media /\ "none" \in Media
    BY <2>1 DEF MediaOutcomes, Media
  <2>3. "Message" \in Types /\ "ButtonClick" \in Types
    BY DEF Types, ToLower
  <2>4. Unignored(Event)
    BY <1>1, <1>2, <1>5 DEF Unignored
  <2> DEFINE q == PostOf("Message", e, media)
             c == PostOf("ButtonClick", e, "none")
  <2>5. /\ q \in PostState /\ q.event = handled + 1 /\ q.type = "Message"
        /\ q.own <=> "Message" \in {"Message", "SendMessage"} /\ e.own
        /\ c \in PostState /\ c.event = handled + 1 /\ c.type = "ButtonClick"
        /\ c.own <=> "ButtonClick" \in {"Message", "SendMessage"} /\ e.own
    BY <1>2, <2>2, <2>3, PostOfIsPost DEF Shape
  <2>6. IsPostOf(q, Event) /\ IsPostOf(c, Event)
    BY <1>2, <1>3, <2>4, <2>5 DEF IsPostOf
  <2>7. Click(e) = <<c>> \/ Click(e) = <<>>
    BY DEF Click
  <2> HIDE DEF q, c
  <2>8. CASE Click(e) = <<c>>
    <3> DEFINE new == <<c>> \o <<q>>
    <3>1. new \in Seq(PostState) /\ Len(new) = 2 /\ new[1] = c /\ new[2] = q
      BY <2>5
    <3> HIDE DEF new
    <3>2. Made(new)
      BY <1>3, <2>5, <2>6, <3>1 DEF Made
    <3> QED BY <2>1, <2>8, <3>2 DEF q, new, Emits
  <2>9. CASE Click(e) = <<>>
    <3> DEFINE new == <<>> \o <<q>>
    <3>1. new \in Seq(PostState) /\ Len(new) = 1 /\ new[1] = q
      BY <2>5
    <3> HIDE DEF new
    <3>2. Made(new)
      BY <1>3, <2>5, <2>6, <3>1 DEF Made
    <3> QED BY <2>1, <2>9, <3>2 DEF q, new, Emits
  <2> QED BY <2>7, <2>8, <2>9
<1> QED BY <1>4, <1>5

LEMMA ReceiptMakes ==
  ASSUME Shape, OnReceipt
  PROVE  Emits
<1>1. Event.kind = "Receipt" /\ handled < caused
  BY DEF OnReceipt, Handles
<1>2. \A k \in Kind : ~Tells(k, Event)
  BY <1>1 DEF Tells, TellsOfConnection, Kind, Changes
<1>3. Silent \/ (~IgnoresGroup(Event) /\ Emit(<<PostOf("Receipt", Event, "none")>>))
  BY DEF OnReceipt
<1>4. CASE Silent
  BY <1>4, <1>2, SilentEmits DEF Shape
<1>5. CASE ~IgnoresGroup(Event) /\ Emit(<<PostOf("Receipt", Event, "none")>>)
  <2>1. Unignored(Event)
    BY <1>1, <1>5 DEF Unignored
  <2>2. "Receipt" \in Types
    BY DEF Types, ToLower
  <2> QED BY <1>1, <1>2, <1>5, <2>1, <2>2, OneIsMade DEF Shape
<1> QED BY <1>3, <1>4, <1>5

(* Every handling of an event is the next one's, and makes posts of it.    *)
LEMMA HandlerMakes ==
  ASSUME Shape, Handler
  PROVE  /\ Emits /\ handled < caused /\ handled' = handled + 1
         /\ UNCHANGED <<rabbitVars, setting, caused, result, http, cache, faults>>
<1>1. /\ handled < caused /\ handled' = handled + 1
      /\ UNCHANGED <<rabbitVars, setting, caused, result, http, cache, faults>>
  BY DEF Handler, OnPlain, OnConnected, OnUnposted, OnArchive, OnLoggedOut,
         OnCallOffer, OnUndecryptable, OnLabelEdit, OnMessage, OnReceipt, Handles
<1>2. Emits
  BY PlainMakes, UnpostedMakes, ConnectedMakes, OthersMake, LoggedOutMakes,
     MessageMakes, ReceiptMakes DEF Handler, Shape
<1> QED BY <1>1, <1>2

LEMMA LanesOfPosts ==
  /\ \A p \in Publisher : p \in Post \X {"call", "global"} /\ p = <<p[1], p[2]>>
  /\ \A n \in Post : <<n, "call">> \in Publisher /\ <<n, "global">> \in Publisher
  /\ \A p \in CallLane : p \in Publisher /\ p = <<p[1], "call">> /\ p[1] \in Post
BY LanesArePublishers DEF Post, CallLane

(* What the posts and the goroutines are after the handler, that has made  *)
(* the new posts of an event: the earlier ones are as they were.           *)
IsNew(n) == n \in Len(posts) + 1..Len(posts')

Grows ==
  /\ Len(posts') \in Nat /\ Len(posts) <= Len(posts') /\ Len(posts') <= MaxPosts
  /\ \A n \in 1..Len(posts) : posts'[n] = posts[n]
  /\ \A n \in Len(posts) + 1..Len(posts') :
       /\ posts'[n].event = handled + 1 /\ IsPostOf(posts'[n], Event)
       /\ lane'[<<n, "call">>] = [NoLane EXCEPT !.pc = "dispatch"]
       /\ lane'[<<n, "global">>] = IF HasGlobal THEN [NoLane EXCEPT !.pc = "amqp"]
                                   ELSE lane[<<n, "global">>]
  /\ \A p \in Publisher : ~IsNew(p[1]) => lane'[p] = lane[p]
  /\ \A k \in Kind : Tells(k, Event) => Len(posts') > Len(posts)

LEMMA EmitGrows ==
  ASSUME Shape, Emits
  PROVE  /\ Grows /\ posts' \in Seq(PostState)
         /\ lane' = [p \in Publisher |-> lane'[p]]
<1>1. PICK new : Made(new) /\ Emit(new)
  BY DEF Emits
<1>2. posts' = posts \o new /\ Len(posts') <= MaxPosts
  BY <1>1 DEF Emit
<1>3. posts \in Seq(PostState) /\ new \in Seq(PostState)
  BY <1>1 DEF Made, Shape, PostsShape
<1>4. /\ posts' \in Seq(PostState) /\ Len(posts') = Len(posts) + Len(new)
      /\ \A i \in 1..Len(posts) + Len(new) :
           posts'[i] = IF i <= Len(posts) THEN posts[i] ELSE new[i - Len(posts)]
  BY <1>2, <1>3, ConcatProperties
<1>5. /\ Len(posts) \in Nat /\ Len(new) \in Nat /\ Len(posts') \in Nat
      /\ MaxPosts \in Nat
  BY <1>3, <1>4, LenProperties, PostsAssumption
<1>6. lane' = [p \in Publisher |->
         IF p[1] \in Len(posts) + 1..Len(posts') /\ (p[2] = "call" \/ HasGlobal)
         THEN [NoLane EXCEPT !.pc = IF p[2] = "call" THEN "dispatch" ELSE "amqp"]
         ELSE lane[p]]
  BY <1>1 DEF Emit, HasGlobal
<1>7. ASSUME NEW n \in Len(posts) + 1..Len(posts')
      PROVE  /\ posts'[n].event = handled + 1 /\ IsPostOf(posts'[n], Event)
             /\ lane'[<<n, "call">>] = [NoLane EXCEPT !.pc = "dispatch"]
             /\ lane'[<<n, "global">>] = IF HasGlobal THEN [NoLane EXCEPT !.pc = "amqp"]
                                         ELSE lane[<<n, "global">>]
  <2>1. n - Len(posts) \in 1..Len(new) /\ posts'[n] = new[n - Len(posts)]
    BY <1>4, <1>5
  <2>2. n \in Post
    BY <1>2, <1>5 DEF Post
  <2>3. <<n, "call">> \in Publisher /\ <<n, "global">> \in Publisher
    BY <2>2, LanesOfPosts
  <2>4. lane'[<<n, "call">>] = [NoLane EXCEPT !.pc = "dispatch"]
    BY <1>6, <2>3
  <2>5. lane'[<<n, "global">>] = IF HasGlobal THEN [NoLane EXCEPT !.pc = "amqp"]
                                 ELSE lane[<<n, "global">>]
    BY <1>6, <2>3
  <2> QED BY <1>1, <2>1, <2>4, <2>5 DEF Made
<1>8. \A p \in Publisher : ~IsNew(p[1]) => lane'[p] = lane[p]
  BY <1>6 DEF IsNew
<1>9. \A k \in Kind : Tells(k, Event) => Len(posts') > Len(posts)
  BY <1>1, <1>4, <1>5 DEF Made
<1>10. \A n \in 1..Len(posts) : posts'[n] = posts[n]
  BY <1>4, <1>5
<1>11. lane' = [p \in Publisher |-> lane'[p]]
  BY <1>6
<1>12. Len(posts) <= Len(posts')
  BY <1>4, <1>5
<1>13. Grows
  BY <1>2, <1>5, <1>7, <1>8, <1>9, <1>10, <1>12 DEF Grows
<1> QED BY <1>4, <1>11, <1>13

LEMMA GrowsShape ==
  ASSUME Shape, Grows, posts' \in Seq(PostState),
         lane' = [p \in Publisher |-> lane'[p]],
         handled < caused, handled' = handled + 1, UNCHANGED <<setting, caused>>
  PROVE  PostsShape' /\ LanesShape'
<1>1. Len(posts) \in Nat /\ handled \in Nat /\ MaxPosts \in Nat
  BY PostsAssumption DEF Shape, PostsShape, ServerShape
<1>2. \A n \in 1..Len(posts') : posts'[n].event \in 1..handled'
  <2>1. \A n \in 1..Len(posts) : posts'[n].event \in 1..handled
    BY DEF Grows, Shape, PostsShape
  <2>2. \A n \in Len(posts) + 1..Len(posts') : posts'[n].event = handled + 1
    BY DEF Grows
  <2>3. \A n \in 1..Len(posts') :
          n \in 1..Len(posts) \/ n \in Len(posts) + 1..Len(posts')
    BY <1>1 DEF Grows
  <2> QED BY <1>1, <2>1, <2>2, <2>3
<1>3. PostsShape'
  BY <1>1, <1>2 DEF PostsShape, Grows
<1>4. NoLane \in [pc : {"none"}, w : Nat, held : {"no"}, groups : Text, contacts : Text,
                  fetched : Text, raced : BOOLEAN]
  BY DEF NoLane, Text
<1>5. /\ [NoLane EXCEPT !.pc = "dispatch"] \in LaneState
      /\ [NoLane EXCEPT !.pc = "dispatch"].pc = "dispatch"
      /\ [NoLane EXCEPT !.pc = "amqp"] \in LaneState
      /\ [NoLane EXCEPT !.pc = "amqp"].pc = "amqp"
  BY <1>4 DEF LaneState, CallPcs, NotInvalidated, GlobalPcs
<1>6. "dispatch" \in CallPcs \ {"none"} /\ "amqp" \in GlobalPcs \ {"none"}
  BY DEF CallPcs, NotInvalidated, GlobalPcs
<1>7. HasGlobal' = HasGlobal
  BY DEF HasGlobal, conf
<1>8. ASSUME NEW n \in Post
      PROVE  /\ lane'[<<n, "call">>] \in LaneState /\ lane'[<<n, "global">>] \in LaneState
             /\ lane'[<<n, "call">>].pc \in CallPcs
             /\ lane'[<<n, "global">>].pc \in GlobalPcs
             /\ lane'[<<n, "call">>].pc \in {"match", "wait", "cast"} =>
                  lane'[<<n, "call">>].w >= 1
             /\ (lane'[<<n, "call">>].pc = "none") = (n > Len(posts'))
             /\ (lane'[<<n, "global">>].pc = "none") =
                  (n > Len(posts') \/ ~HasGlobal)
  <2>1. <<n, "call">> \in Publisher /\ <<n, "global">> \in Publisher
    BY LanesOfPosts
  <2>2. /\ lane[<<n, "call">>] \in LaneState /\ lane[<<n, "global">>] \in LaneState
        /\ lane[<<n, "call">>].pc \in CallPcs
        /\ lane[<<n, "global">>].pc \in GlobalPcs
        /\ lane[<<n, "call">>].pc \in {"match", "wait", "cast"} =>
             lane[<<n, "call">>].w >= 1
        /\ (lane[<<n, "call">>].pc = "none") = (n > Len(posts))
        /\ (lane[<<n, "global">>].pc = "none") = (n > Len(posts) \/ ~HasGlobal)
    BY <2>1 DEF Shape, LanesShape
  <2>3. n \in Nat /\ n >= 1 /\ Len(posts') \in Nat /\ Len(posts) <= Len(posts')
    BY <1>1 DEF Post, Grows
  <2>4. CASE IsNew(n)
    <3>1. n > Len(posts) /\ ~(n > Len(posts'))
      BY <2>3, <2>4, <1>1 DEF IsNew
    <3>2. lane'[<<n, "call">>] = [NoLane EXCEPT !.pc = "dispatch"]
      BY <2>4 DEF Grows, IsNew
    <3>3. lane'[<<n, "global">>] = IF HasGlobal THEN [NoLane EXCEPT !.pc = "amqp"]
                                   ELSE lane[<<n, "global">>]
      BY <2>4 DEF Grows, IsNew
    <3> QED BY <1>5, <1>6, <2>2, <3>1, <3>2, <3>3
  <2>5. CASE ~IsNew(n)
    <3>1. /\ lane'[<<n, "call">>] = lane[<<n, "call">>]
          /\ lane'[<<n, "global">>] = lane[<<n, "global">>]
      BY <2>1, <2>5 DEF Grows
    <3>2. (n > Len(posts)) = (n > Len(posts'))
      BY <1>1, <2>3, <2>5 DEF IsNew
    <3> QED BY <2>2, <3>1, <3>2
  <2> QED BY <2>4, <2>5
<1>9. ASSUME NEW p \in Publisher
      PROVE  lane'[p] \in LaneState
  <2>1. PICK n \in Post : p = <<n, "call">> \/ p = <<n, "global">>
    BY LanesOfPosts
  <2> QED BY <1>8, <2>1
<1>10. lane' \in [Publisher -> LaneState]
  BY <1>9
<1> QED BY <1>3, <1>7, <1>8, <1>10 DEF LanesShape

(***************************************************************************)
(* What the goroutines do.                                                 *)
LEMMA PostsHaveLanes ==
  ASSUME Shape, NEW n \in 1..Len(posts)
  PROVE  /\ n \in Post /\ <<n, "call">> \in Publisher /\ <<n, "global">> \in Publisher
         /\ <<n, "call">> \in CallLane /\ posts[n] \in PostState
         /\ lane[<<n, "call">>] \in LaneState /\ lane[<<n, "global">>] \in LaneState
<1>1. n \in Post
  BY PostsAssumption DEF Shape, PostsShape, Post
<1>2. posts[n] \in PostState
  BY DEF Shape, PostsShape
<1> QED BY <1>1, <1>2, LanesOfPosts DEF Shape, LanesShape, CallLane

LEMMA LaneMoves ==
  ASSUME Shape, NEW n \in 1..Len(posts), NEW r \in LaneState,
         NEW q \in Publisher, Becomes(q, r), UNCHANGED <<setting, posts>>,
         \/ /\ q = <<n, "call">> /\ r.pc \in CallPcs \ {"none"}
            /\ r.pc \in {"match", "wait", "cast"} => r.w >= 1
         \/ /\ q = <<n, "global">>
            /\ r.pc \in GlobalPcs \ {"none"}
            /\ lane[q].pc # "none"
  PROVE  LanesShape' /\ lane'[q] = r /\ \A p \in Publisher : p # q =>
           lane'[p] = lane[p]
<1>1. lane \in [Publisher -> LaneState]
  BY DEF Shape, LanesShape
<1>2. /\ lane' \in [Publisher -> LaneState]
      /\ lane'[q] = r /\ \A p \in Publisher : p # q => lane'[p] = lane[p]
  BY <1>1 DEF Becomes
<1>3. HasGlobal' = HasGlobal
  BY DEF HasGlobal, conf
<1>4. n \in Post /\ ~(n > Len(posts))
  <2>1. Len(posts) \in Nat
    BY DEF Shape, PostsShape
  <2>2. n \in Post
    BY PostsHaveLanes
  <2> QED BY <2>1, <2>2
<1>5. ASSUME NEW m \in Post
      PROVE  /\ lane'[<<m, "call">>].pc \in CallPcs /\ lane'[<<m, "global">>].pc \in GlobalPcs
             /\ lane'[<<m, "call">>].pc \in {"match", "wait", "cast"} =>
                  lane'[<<m, "call">>].w >= 1
             /\ (lane'[<<m, "call">>].pc = "none") = (m > Len(posts))
             /\ (lane'[<<m, "global">>].pc = "none") =
                  (m > Len(posts) \/ ~HasGlobal)
  <2>1. <<m, "call">> \in Publisher /\ <<m, "global">> \in Publisher
    BY LanesOfPosts
  <2>2. /\ lane[<<m, "call">>].pc \in CallPcs /\ lane[<<m, "global">>].pc \in GlobalPcs
        /\ lane[<<m, "call">>].pc \in {"match", "wait", "cast"} =>
             lane[<<m, "call">>].w >= 1
        /\ (lane[<<m, "call">>].pc = "none") = (m > Len(posts))
        /\ (lane[<<m, "global">>].pc = "none") = (m > Len(posts) \/ ~HasGlobal)
    BY DEF Shape, LanesShape
  <2>3. CASE q = <<m, "call">>
    <3>1. m = n /\ q # <<m, "global">>
      BY <2>3
    <3> QED BY <1>2, <1>4, <2>1, <2>2, <2>3, <3>1
  <2>4. CASE q = <<m, "global">>
    <3>1. m = n /\ q # <<m, "call">>
      BY <2>4
    <3> QED BY <1>2, <1>4, <2>1, <2>2, <2>4, <3>1
  <2>5. CASE q # <<m, "call">> /\ q # <<m, "global">>
    BY <1>2, <2>1, <2>2, <2>5
  <2> QED BY <2>3, <2>4, <2>5
<1> QED BY <1>2, <1>3, <1>5 DEF LanesShape

(* Up to the invalidation a goroutine of CallWebhook only finds out names  *)
(* and webhooks.                                                           *)
LooksUp(p) ==
  \/ Dispatch(p) \/ Match(p) \/ Matched(p) \/ CastEnds(p)
  \/ \E k \in Kind :
       LookUp(p, k) \/ Resolve(p, k) \/ ResolveFails(p, k) \/ Store(p, k)

LookedUp(p, r) ==
  /\ r \in LaneState /\ r.pc \in NotInvalidated
  /\ r.pc \in {"match", "wait", "cast"} => r.w >= 1
  /\ Becomes(p, r) /\ lane[p].pc \in NotInvalidated
  /\ UNCHANGED <<setting, caused, handled, posts, seen, pending, row, overtaken, read,
                 objects, result>>
  /\ faults' \in Nat /\ faults' <= faults

LEMMA ProgramPcs ==
  /\ Kind \cup Range(Fetching) \cup Range(Storing) =
       {"groups", "contacts", "fetchGroups", "fetchContacts", "storeGroups", "storeContacts"}
  /\ Fetching["groups"] = "fetchGroups" /\ Fetching["contacts"] = "fetchContacts"
  /\ Storing["groups"] = "storeGroups" /\ Storing["contacts"] = "storeContacts"
  /\ NotInvalidated = {"dispatch", "match", "wait", "cast", "invalidate", "groups",
       "contacts", "fetchGroups", "fetchContacts", "storeGroups", "storeContacts"}
<1>1. Range(Fetching) = {"fetchGroups", "fetchContacts"}
  BY DEF Range, Fetching
<1>2. Range(Storing) = {"storeGroups", "storeContacts"}
  BY DEF Range, Storing
<1> QED BY <1>1, <1>2 DEF NotInvalidated, Kind, Fetching, Storing

LEMMA GoingTo ==
  ASSUME Shape, NEW p \in Publisher, NEW pc, Goto(p, pc)
  PROVE  \E r : /\ Becomes(p, r) /\ r = [lane[p] EXCEPT !.pc = pc] /\ r.pc = pc
                /\ r.w = lane[p].w /\ r.fetched = lane[p].fetched
                /\ r.raced = lane[p].raced
                /\ pc \in CallPcs \cup GlobalPcs => r \in LaneState
<1>1. lane[p] \in LaneState
  BY DEF Shape, LanesShape
<1> QED BY <1>1 DEF Goto, LaneState

LEMMA NamedLooksUp ==
  ASSUME Shape, NEW p \in Publisher, NEW k \in Kind, NEW name \in Text,
         Named(p, k, name)
  PROVE  \E r \in LaneState : /\ Becomes(p, r) /\ r.pc \in {"contacts", "match"}
                              /\ r.pc = "match" => r.w >= 1
<1>1. lane[p] \in LaneState
  BY DEF Shape, LanesShape
<1> DEFINE r == IF k = "groups" THEN [lane[p] EXCEPT !.pc = "contacts", !.groups = name]
                ELSE [lane[p] EXCEPT !.pc = "match", !.w = 1, !.contacts = name]
<1>2. Becomes(p, r)
  BY DEF Named
<1>3. {"contacts", "match"} \subseteq CallPcs \cup GlobalPcs
  BY ProgramPcs DEF CallPcs
<1>4. CASE k = "groups"
  <2>1. r = [lane[p] EXCEPT !.pc = "contacts", !.groups = name]
    BY <1>4
  <2>2. r \in LaneState /\ r.pc = "contacts"
    BY <1>1, <1>3, <2>1 DEF LaneState
  <2> QED BY <1>2, <2>2
<1>5. CASE k # "groups"
  <2>1. r = [lane[p] EXCEPT !.pc = "match", !.w = 1, !.contacts = name]
    BY <1>5
  <2>2. r \in LaneState /\ r.pc = "match" /\ r.w = 1
    BY <1>1, <1>3, <2>1 DEF LaneState
  <2> HIDE DEF r
  <2> QED BY <1>2, <2>2
<1> QED BY <1>4, <1>5

LEMMA LooksUpIsLookedUp ==
  ASSUME Shape, NEW n \in 1..Len(posts), NEW p, p = <<n, "call">>, LooksUp(p)
  PROVE  \E r : LookedUp(p, r)
<1>1. p \in Publisher /\ lane[p] \in LaneState /\ n \in Post
  BY PostsHaveLanes
<1>2. UNCHANGED <<setting, caused, handled, posts, seen, pending, row, overtaken, read,
                  objects, result>>
  BY DEF LooksUp, Dispatch, Match, Matched, CastEnds, LookUp, Resolve, ResolveFails,
     Store, LaneOnly
<1>3. faults' \in Nat /\ faults' <= faults
  <2>1. UNCHANGED faults \/ Fault
    BY DEF LooksUp, Dispatch, Match, Matched, CastEnds, LookUp, Resolve,
       ResolveFails, Store
  <2> QED BY <2>1 DEF Fault, Shape, ServerShape
<1>4. lane[p].pc \in NotInvalidated
  BY ProgramPcs DEF LooksUp, Dispatch, Match, Matched, CastEnds, LookUp, Resolve,
     ResolveFails, Store, At, Kind
<1>5. NotInvalidated \subseteq CallPcs \cup GlobalPcs
  BY DEF CallPcs
<1>6. ASSUME NEW r \in LaneState, Becomes(p, r), r.pc \in NotInvalidated,
             r.pc \in {"match", "wait", "cast"} => r.w >= 1
      PROVE  \E x : LookedUp(p, x)
  BY <1>2, <1>3, <1>4, <1>6 DEF LookedUp
<1>7. ASSUME NEW pc \in NotInvalidated \ {"match", "wait", "cast"}, Goto(p, pc)
      PROVE  \E x : LookedUp(p, x)
  BY <1>1, <1>5, <1>6, <1>7, GoingTo
<1>8. ASSUME NEW k \in Kind, NEW name \in Text, Named(p, k, name)
      PROVE  \E x : LookedUp(p, x)
  BY <1>1, <1>6, <1>8, NamedLooksUp, ProgramPcs
<1>9. CASE Dispatch(p)
  <2>1. \/ Goto(p, "invalidate") \/ Goto(p, "groups")
        \/ Becomes(p, [lane[p] EXCEPT !.pc = "match", !.w = 1])
    BY <1>9 DEF Dispatch
  <2> DEFINE r == [lane[p] EXCEPT !.pc = "match", !.w = 1]
  <2>2. "match" \in CallPcs \cup GlobalPcs
    BY <1>5, ProgramPcs
  <2>3. r \in LaneState /\ r.pc = "match" /\ r.w = 1
    BY <1>1, <2>2 DEF LaneState
  <2> HIDE DEF r
  <2>4. Becomes(p, r) => \E x : LookedUp(p, x)
    BY <1>6, <2>3, ProgramPcs
  <2>5. {"invalidate", "groups"} \subseteq NotInvalidated \ {"match", "wait", "cast"}
    BY ProgramPcs
  <2> QED BY <1>7, <2>1, <2>4, <2>5 DEF r
<1>10. ASSUME lane[p].w >= 1, NextWebhook(p)
       PROVE  \E x : LookedUp(p, x)
  <2> DEFINE i == lane[p].w + 1
             r == [lane[p] EXCEPT !.pc = "match", !.held = "no", !.w = i]
  <2>1. Becomes(p, r)
    BY <1>10 DEF NextWebhook
  <2>2. i \in Nat /\ i >= 1 /\ "match" \in CallPcs \cup GlobalPcs
    BY <1>1, <1>5, <1>10, ProgramPcs DEF LaneState
  <2> HIDE DEF i
  <2>3. r \in LaneState /\ r.pc = "match" /\ r.w = i
    BY <1>1, <2>2 DEF LaneState
  <2> HIDE DEF r
  <2> QED BY <1>6, <2>1, <2>2, <2>3, ProgramPcs
<1>11. CASE Match(p) \/ Matched(p) \/ CastEnds(p)
  <2>1. lane[p].pc \in {"match", "wait", "cast"}
    BY <1>11 DEF Match, Matched, CastEnds, At
  <2>2. lane[p].w >= 1
    BY <1>1, <2>1 DEF Shape, LanesShape
  <2>3. Goto(p, "invalidate") \/ Goto(p, "wait") \/ Goto(p, "cast") \/ NextWebhook(p)
    BY <1>11 DEF Match, Matched, CastEnds, Broadcast
  <2>4. Goto(p, "wait") \/ Goto(p, "cast") => \E x : LookedUp(p, x)
    BY <1>1, <1>5, <1>6, <2>2, GoingTo, ProgramPcs
  <2>5. "invalidate" \in NotInvalidated \ {"match", "wait", "cast"}
    BY ProgramPcs
  <2> QED BY <1>7, <1>10, <2>2, <2>3, <2>4, <2>5
<1>12. ASSUME NEW k \in Kind, LookUp(p, k)
       PROVE  \E x : LookedUp(p, x)
  <2>1. cache[k].name \in Text /\ "" \in Text
    BY DEF Shape, CacheShape, CacheState, Text
  <2>2. Named(p, k, "") \/ Named(p, k, cache[k].name) \/ Goto(p, Fetching[k])
    BY <1>12 DEF LookUp
  <2>3. Fetching[k] \in NotInvalidated \ {"match", "wait", "cast"}
    BY ProgramPcs DEF Kind
  <2> QED BY <1>7, <1>8, <2>1, <2>2, <2>3
<1>13. ASSUME NEW k \in Kind, Resolve(p, k)
       PROVE  \E x : LookedUp(p, x)
  <2> DEFINE f == IF k = "groups" /\ ~Online THEN "" ELSE Current(k)
             r == [lane[p] EXCEPT !.pc = Storing[k], !.raced = FALSE, !.fetched = f]
  <2>1. Becomes(p, r)
    BY <1>13 DEF Resolve
  <2>2. f \in Text
    BY CurrentIsName DEF Shape, Text
  <2>3. Storing[k] \in NotInvalidated \ {"match", "wait", "cast"}
    BY ProgramPcs DEF Kind
  <2> HIDE DEF f
  <2>4. r \in LaneState /\ r.pc = Storing[k]
    BY <1>1, <1>5, <2>2, <2>3 DEF LaneState
  <2> HIDE DEF r
  <2> QED BY <1>6, <2>1, <2>3, <2>4
<1>14. ASSUME NEW k \in Kind, ResolveFails(p, k) \/ Store(p, k)
       PROVE  \E x : LookedUp(p, x)
  <2>1. lane[p].fetched \in Text /\ "" \in Text
    BY <1>1 DEF LaneState, Text
  <2>2. Named(p, k, "") \/ Named(p, k, lane[p].fetched)
    BY <1>14 DEF ResolveFails, Store
  <2> QED BY <1>8, <2>1, <2>2
<1> QED BY <1>9, <1>11, <1>12, <1>13, <1>14 DEF LooksUp

(* From the invalidation on: the sinks of the instance itself.             *)
PassesWs(p) == ~On(inst.ws) /\ PassedOver(p, "ws", "hook")

Serves(p) ==
  \/ Invalidate(p) \/ ToRabbit(p) \/ RabbitAnswers(p) \/ ToNatsServer(p)
  \/ PassesWs(p) \/ WriteEnds(p)
  \/ ToHook(p)

(* At a websocket it may also be held up, and goes on from where it was.   *)
Waits(p) == WriteHangs(p) \/ WaitsForLock(p) \/ GetsLock(p)

LEMMA ServesOrLooksUp ==
  ASSUME NEW p, CallSteps(p)
  PROVE  LooksUp(p) \/ Serves(p) \/ Waits(p)
BY DEF CallSteps, CallWebhook, ToWebsocket, WriteResumes, LooksUp, Serves, PassesWs, Waits

LEMMA WaitingIs ==
  ASSUME Shape, NEW n \in 1..Len(posts), NEW p, p = <<n, "call">>, Waits(p)
  PROVE  /\ \E r \in LaneState :
              /\ Becomes(p, r) /\ r.pc = lane[p].pc /\ r.w = lane[p].w
              /\ r.fetched = lane[p].fetched /\ r.raced = lane[p].raced
         /\ UNCHANGED <<rabbitVars, setting, caused, handled, posts, seen, pending, row,
                        overtaken, read, objects, result, http, cache>>
         /\ faults' \in Nat /\ faults' <= faults
<1>1. lane[p] \in LaneState
  BY PostsHaveLanes
<1>2. PICK h \in {"no", "write", "lock"} : Becomes(p, [lane[p] EXCEPT !.held = h])
  BY DEF Waits, WriteHangs, WaitsForLock, GetsLock
<1> DEFINE r == [lane[p] EXCEPT !.held = h]
<1>3. /\ r \in LaneState
      /\ r.pc = lane[p].pc /\ r.w = lane[p].w
      /\ r.fetched = lane[p].fetched /\ r.raced = lane[p].raced
  BY <1>1 DEF LaneState
<1>4. UNCHANGED <<rabbitVars, setting, caused, handled, posts, seen, pending, row,
                  overtaken, read, objects, result, http, cache>>
  BY DEF Waits, WriteHangs, WaitsForLock, GetsLock, LaneOnly
<1>5. UNCHANGED faults \/ Fault
  BY DEF Waits, WriteHangs, WaitsForLock, GetsLock
<1>6. faults' \in Nat /\ faults' <= faults
  <2>1. faults \in Nat
    BY DEF Shape, ServerShape
  <2> QED BY <1>5, <2>1 DEF Fault
<1>7. Becomes(p, r)
  BY <1>2
<1> HIDE DEF r
<1> QED BY <1>3, <1>4, <1>6, <1>7

LEMMA WaitsKeepsShape ==
  ASSUME Shape, NEW n \in 1..Len(posts), Waits(<<n, "call">>)
  PROVE  Shape'
<1> DEFINE p == <<n, "call">>
<1>1. PICK r \in LaneState : Becomes(p, r) /\ r.pc = lane[p].pc /\ r.w = lane[p].w
  BY WaitingIs
<1>2. /\ UNCHANGED <<setting, caused, handled, posts, pending, row, result, http, cache>>
      /\ faults' \in Nat /\ faults' <= faults
  BY WaitingIs
<1>3. /\ p \in Publisher /\ r.pc \in CallPcs \ {"none"}
      /\ r.pc \in {"match", "wait", "cast"} => r.w >= 1
  <2>1. p \in Publisher /\ n \in Post
    BY PostsHaveLanes
  <2>2. Len(posts) \in Nat
    BY LenProperties DEF Shape, PostsShape
  <2>3. ~(n > Len(posts))
    BY <2>2
  <2>4. lane[p].pc \in CallPcs /\ lane[p].pc # "none"
    BY <2>1, <2>3 DEF Shape, LanesShape
  <2>5. lane[p].pc \in {"match", "wait", "cast"} => lane[p].w >= 1
    BY <2>1 DEF Shape, LanesShape
  <2> QED BY <1>1, <2>1, <2>4, <2>5
<1>4. LanesShape'
  BY <1>1, <1>2, <1>3, LaneMoves
<1> QED
  BY <1>2, <1>4 DEF Shape, ServerShape, PostsShape, CacheShape, RowsShape,
     ResultShape, HttpShape, stream

LEMMA SpawnKeeps ==
  ASSUME Shape, NEW n \in 1..Len(posts), NEW via \in Nat, Spawn(<<n, "call">>, via),
         UNCHANGED posts
  PROVE  HttpShape'
<1> SUFFICES ASSUME NEW h \in http'
             PROVE  /\ h \in [post : Nat, via : Nat, to : {"url", "global"}, tries : Nat,
                              got : Nat, pc : {"post", "hangs", "ok", "failed"}]
                    /\ h.tries <= maxTries /\ h.got <= h.tries
                    /\ h.pc \in {"post", "hangs"} => h.tries < maxTries
                    /\ h.post \in 1..Len(posts')
  BY DEF HttpShape
<1>1. CASE h \in http
  BY <1>1 DEF Shape, HttpShape
<1>2. CASE h \notin http
  <2>1. PICK to \in {"url", "global"} :
          h =
            [post |-> n, via |-> via, to |-> to, tries |-> 0, got |-> 0, pc |-> "post"]
    BY <1>2 DEF Spawn
  <2> QED BY <2>1 DEF maxTries
<1> QED BY <1>1, <1>2

LEMMA LooksUpKeepsHttp ==
  ASSUME Shape, NEW n \in 1..Len(posts), LooksUp(<<n, "call">>)
  PROVE  HttpShape' /\ CacheShape'
<1> DEFINE p == <<n, "call">>
<1>1. p \in Publisher /\ lane[p] \in LaneState /\ n \in Post
  BY PostsHaveLanes
<1>2. UNCHANGED posts
  BY DEF LooksUp, Dispatch, Match, Matched, CastEnds, LookUp, Resolve, ResolveFails,
     Store, LaneOnly
<1>3. UNCHANGED http \/ Spawn(p, lane[p].w)
  BY DEF LooksUp, Dispatch, Match, Matched, CastEnds, LookUp, Resolve, ResolveFails, Store
<1>4. HttpShape'
  <2>1. CASE UNCHANGED http
    BY <1>2, <2>1 DEF Shape, HttpShape
  <2>2. CASE Spawn(p, lane[p].w)
    BY <1>1, <1>2, <2>2, SpawnKeeps DEF LaneState
  <2> QED BY <1>3, <2>1, <2>2
<1>5. \/ UNCHANGED cache
      \/ \E k \in Kind : cache' = [cache EXCEPT ![k] = [loaded |-> TRUE, name |-> lane[p].fetched,
                                                        raced |-> lane[p].raced]]
  BY DEF LooksUp, Dispatch, Match, Matched, CastEnds, LookUp, Resolve, ResolveFails, Store
<1>6. CacheShape'
  <2> DEFINE e == [loaded |-> TRUE, name |-> lane[p].fetched, raced |-> lane[p].raced]
  <2>1. e \in CacheState
    BY <1>1 DEF LaneState, CacheState
  <2> HIDE DEF e
  <2>2. UNCHANGED cache \/ \E k \in Kind : cache' = [cache EXCEPT ![k] = e]
    BY <1>5 DEF e
  <2> QED BY <2>1, <2>2 DEF Shape, CacheShape
<1> QED BY <1>4, <1>6

LEMMA LooksUpKeepsShape ==
  ASSUME Shape, NEW n \in 1..Len(posts), LooksUp(<<n, "call">>)
  PROVE  Shape'
<1> DEFINE p == <<n, "call">>
<1>1. PICK r : LookedUp(p, r)
  BY LooksUpIsLookedUp
<1>2. /\ UNCHANGED <<setting, caused, handled, posts, pending, row, result>>
      /\ faults' \in Nat /\ faults' <= faults
  BY <1>1 DEF LookedUp
<1>3. p \in Publisher /\ r \in LaneState /\ r.pc \in CallPcs \ {"none"}
  BY <1>1, PostsHaveLanes, ProgramPcs DEF LookedUp, CallPcs
<1>4. LanesShape'
  BY <1>1, <1>2, <1>3, LaneMoves DEF LookedUp
<1>5. HttpShape' /\ CacheShape'
  BY LooksUpKeepsHttp
<1>6. ServerShape' /\ PostsShape' /\ ResultShape' /\ RowsShape'
  BY <1>2 DEF Shape, ServerShape, PostsShape, ResultShape, RowsShape, stream
<1> QED BY <1>4, <1>5, <1>6 DEF Shape

LEMMA InvalidateKeepsShape ==
  ASSUME Shape, NEW n \in 1..Len(posts), Invalidate(<<n, "call">>)
  PROVE  Shape'
<1> DEFINE p == <<n, "call">>
           to == IF Wanted(posts[n]) THEN "rabbit" ELSE "done"
<1>1. p \in Publisher /\ lane[p] \in LaneState /\ n \in Post
  BY PostsHaveLanes
<1>2. UNCHANGED <<setting, caused, handled, posts, pending, row, result, http, faults>>
  BY DEF Invalidate, LaneOnly
<1>3. /\ \/ /\ cache' = [k \in Kind |-> NotLoaded]
            /\ lane' = [q \in Publisher |-> IF q = p THEN [lane[p] EXCEPT !.pc = to]
                                             ELSE [lane[q] EXCEPT !.raced = TRUE]]
         \/ Goto(p, to) /\ UNCHANGED cache
      /\ to \in {"rabbit", "done"}
  BY DEF Invalidate, PostIn
<1> HIDE DEF to
<1>4. CacheShape'
  <2>1. NotLoaded \in CacheState
    BY DEF NotLoaded, CacheState, Text
  <2> QED BY <1>3, <2>1 DEF Shape, CacheShape
<1>5. to \in CallPcs \ {"none"} /\ to \notin {"match", "wait", "cast"}
  BY <1>3 DEF CallPcs
<1>6. LanesShape'
  <2>1. CASE Goto(p, to)
    <3>1. PICK r : /\ Becomes(p, r) /\ r.pc = to
                   /\ to \in CallPcs \cup GlobalPcs => r \in LaneState
      BY <1>1, <2>1, GoingTo
    <3> QED BY <1>1, <1>2, <1>5, <3>1, LaneMoves
  <2>2. CASE lane' = [q \in Publisher |-> IF q = p THEN [lane[p] EXCEPT !.pc = to]
                                           ELSE [lane[q] EXCEPT !.raced = TRUE]]
    <3>1. \A q \in Publisher : lane[q] \in LaneState
      BY DEF Shape, LanesShape
    <3>2. \A q \in Publisher : /\ lane'[q] \in LaneState /\ lane'[q].w = lane[q].w
                               /\ lane'[q].pc = IF q = p THEN to ELSE lane[q].pc
      BY <1>5, <2>2, <3>1 DEF LaneState
    <3>3. HasGlobal' = HasGlobal
      BY <1>2 DEF HasGlobal, conf
    <3>4. \A m \in Post : /\ <<m, "call">> \in Publisher /\ <<m, "global">> \in Publisher
                          /\ <<m, "global">> # p /\ (<<m, "call">> = p => m = n)
      BY LanesOfPosts
    <3>5. lane' \in [Publisher -> LaneState]
      BY <2>2, <3>2
    <3>6. \A m \in Post : lane'[<<m, "global">>].pc = lane[<<m, "global">>].pc
      BY <3>2, <3>4
    <3>7. ~(n > Len(posts))
      <4>1. Len(posts) \in Nat
        BY DEF Shape, PostsShape
      <4> QED BY <4>1
    <3>8. \A m \in Post : /\ lane'[<<m, "call">>].pc \in CallPcs
                          /\ lane'[<<m, "call">>].pc \in {"match", "wait", "cast"} =>
                               lane'[<<m, "call">>].w >= 1
                          /\ (lane'[<<m, "call">>].pc = "none") = (m > Len(posts))
      <4> SUFFICES ASSUME NEW m \in Post
                   PROVE  /\ lane'[<<m, "call">>].pc \in CallPcs
                          /\ lane'[<<m, "call">>].pc \in {"match", "wait", "cast"} =>
                               lane'[<<m, "call">>].w >= 1
                          /\ (lane'[<<m, "call">>].pc = "none") = (m > Len(posts))
        OBVIOUS
      <4>1. CASE m = n
        <5>1. lane'[p].pc = to
          BY <1>1, <3>2
        <5> QED BY <1>5, <3>7, <4>1, <5>1
      <4>2. CASE m # n
        <5>1. <<m, "call">> # p
          BY <4>2
        <5>2. /\ lane'[<<m, "call">>].pc = lane[<<m, "call">>].pc
              /\ lane'[<<m, "call">>].w = lane[<<m, "call">>].w
          BY <3>2, <3>4, <5>1
        <5> QED BY <5>2 DEF Shape, LanesShape
      <4> QED BY <4>1, <4>2
    <3> QED BY <1>2, <3>3, <3>5, <3>6, <3>8 DEF LanesShape, Shape
  <2> QED BY <1>3, <2>1, <2>2
<1>7. ServerShape' /\ PostsShape' /\ ResultShape' /\ RowsShape' /\ HttpShape'
  BY <1>2 DEF Shape, ServerShape, PostsShape, ResultShape, RowsShape,
     HttpShape, stream
<1> QED BY <1>4, <1>6, <1>7 DEF Shape

LEMMA SinkNamesAre ==
  /\ Range(Sinks) = SinkNames /\ DOMAIN Sinks = 1..4
  /\ Sinks[1] = "rabbit" /\ Sinks[2] = "nats" /\ Sinks[3] = "ws"
  /\ Sinks[4] = "hook"
<1>1. DOMAIN Sinks = 1..4 /\ Sinks[1] = "rabbit" /\ Sinks[2] = "nats" /\ Sinks[3] = "ws"
      /\ Sinks[4] = "hook"
  BY DEF Sinks
<1>2. \A i : i \in 1..4 <=> i = 1 \/ i = 2 \/ i = 3 \/ i = 4
  OBVIOUS
<1>3. Range(Sinks) = {Sinks[i] : i \in DOMAIN Sinks}
  BY DEF Range
<1> QED BY <1>1, <1>2, <1>3 DEF SinkNames

(* What the outcomes at the sinks are after one of them.                   *)
LEMMA OutcomeIs ==
  ASSUME Shape, NEW n \in Post, NEW s \in SinkNames,
         NEW o \in Outcomes,
         Outcome(<<n, "call">>, s, o)
  PROVE  /\ ResultShape' /\ result'[n][s] = o
         /\ \A t \in SinkNames : t # s => result'[n][t] = result[n][t]
         /\ \A m \in Post : m # n => result'[m] = result[m]
<1>1. result' = [result EXCEPT ![n][s] = o]
  BY DEF Outcome
<1>2. result \in [Post -> [SinkNames -> Outcomes]]
  BY DEF Shape, ResultShape
<1>3. result' \in [Post -> [SinkNames -> Outcomes]]
  BY <1>1, <1>2
<1> QED BY <1>1, <1>2, <1>3 DEF ResultShape

(* A step of a sink: the goroutine goes on, with or without an outcome.    *)
LeavesTo(p, pc) ==
  \E r : /\ Becomes(p, r) /\ r.pc = pc
         /\ pc \in CallPcs \cup GlobalPcs => r \in LaneState

Served == {"sent", "dropped"}

SinkStep(p, s, next) ==
  /\ \/ LeavesTo(p, next) /\ result' = result /\ ~SinkIsOn(s)
     \/ LeavesTo(p, next) /\ SinkIsOn(s) /\ \E o \in Served : Outcome(p, s, o)
     \/ LeavesTo(p, "done") /\ Outcome(p, s, "failed") /\ SinkIsOn(s)
  /\ UNCHANGED <<setting, caused, handled, posts, seen, pending, row, overtaken, read,
                 objects, cache>>
  /\ faults' \in Nat /\ faults' <= faults

LEMMA SinkSteps ==
  ASSUME Shape, NEW p, NEW n \in 1..Len(posts), p = <<n, "call">>
  PROVE  /\ RabbitAnswers(p) /\ SinkIsOn("rabbit") => SinkStep(p, "rabbit", "nats")
         /\ ToRabbit(p) /\ ~On(inst.rabbit) => SinkStep(p, "rabbit", "nats")
         /\ ToNatsServer(p) => SinkStep(p, "nats", "ws")
         /\ PassesWs(p) \/ WriteEnds(p) => SinkStep(p, "ws", "hook")
         /\ ToHook(p) => SinkStep(p, "hook", "done")
<1>1. /\ SinkIsOn("rabbit") <=> On(inst.rabbit)
      /\ SinkIsOn("nats") <=> On(inst.nats)
      /\ SinkIsOn("ws") <=> On(inst.ws)
      /\ SinkIsOn("hook") <=> inst.hook
  BY DEF SinkIsOn
<1>2. faults \in Nat /\ lane[p] \in LaneState /\ p \in Publisher
  BY PostsHaveLanes DEF Shape, ServerShape
<1>3. ASSUME NEW pc, Goto(p, pc)
      PROVE  LeavesTo(p, pc)
  BY <1>2, <1>3, GoingTo DEF LeavesTo
<1>4. ASSUME NEW pc, Becomes(p, [lane[p] EXCEPT !.pc = pc, !.held = "no"])
      PROVE  LeavesTo(p, pc)
  <2> DEFINE r == [lane[p] EXCEPT !.pc = pc, !.held = "no"]
  <2>1. r.pc = pc /\ (pc \in CallPcs \cup GlobalPcs => r \in LaneState)
    BY <1>2 DEF LaneState
  <2> HIDE DEF r
  <2> QED BY <1>4, <2>1 DEF LeavesTo, r
<1>5. RabbitAnswers(p) /\ SinkIsOn("rabbit") => SinkStep(p, "rabbit", "nats")
  BY <1>2, <1>3 DEF RabbitAnswers, AfterFailure, LaneOnly, SinkStep, Served
<1>6. ToRabbit(p) /\ ~On(inst.rabbit) => SinkStep(p, "rabbit", "nats")
  BY <1>1, <1>2, <1>3 DEF ToRabbit, LaneOnly, SinkStep
<1>7. ASSUME NEW s, NEW publishes, NEW next, Sink(p, s, publishes, next), SinkIsOn(s)
      PROVE  SinkStep(p, s, next)
  <2>1. UNCHANGED faults \/ Fault
    BY <1>7 DEF Sink
  <2>2. faults' \in Nat /\ faults' <= faults
    BY <1>2, <2>1 DEF Fault
  <2>3. \/ LeavesTo(p, next) /\ \E o \in Served : Outcome(p, s, o)
        \/ LeavesTo(p, "done") /\ Outcome(p, s, "failed")
    BY <1>4, <1>7 DEF Sink, AfterFailure, Served
  <2> QED BY <1>7, <2>2, <2>3 DEF Sink, LaneOnly, SinkStep
<1>8. ASSUME NEW s, NEW next, PassedOver(p, s, next), ~SinkIsOn(s)
      PROVE  SinkStep(p, s, next)
  BY <1>2, <1>3, <1>8 DEF PassedOver, LaneOnly, SinkStep
<1>9. ToNatsServer(p) => SinkStep(p, "nats", "ws")
  BY <1>1, <1>7, <1>8 DEF ToNatsServer
<1>10. PassesWs(p) \/ WriteEnds(p) => SinkStep(p, "ws", "hook")
  BY <1>1, <1>7, <1>8 DEF PassesWs, WriteEnds
<1>11. ToHook(p) => SinkStep(p, "hook", "done")
  BY <1>1, <1>2, <1>3 DEF ToHook, LaneOnly, SinkStep, Served
<1> QED BY <1>5, <1>6, <1>9, <1>10, <1>11

LEMMA SinkStepKeeps ==
  ASSUME Shape, NEW p, NEW n \in 1..Len(posts), p = <<n, "call">>,
         NEW s \in SinkNames,
         NEW next \in {"nats", "ws", "hook", "done"}, SinkStep(p, s, next)
  PROVE  /\ LanesShape' /\ CacheShape' /\ ResultShape' /\ ServerShape'
         /\ PostsShape' /\ RowsShape'
<1>1. p \in Publisher /\ n \in Post
  BY PostsHaveLanes
<1>2. /\ UNCHANGED <<setting, caused, handled, posts, pending, row, cache>>
      /\ faults' \in Nat /\ faults' <= faults
  BY DEF SinkStep
<1>3. PICK pc \in {"nats", "ws", "hook", "done"} : LeavesTo(p, pc)
  BY DEF SinkStep
<1>4. pc \in CallPcs \ {"none"} /\ pc \notin {"match", "wait", "cast"}
  BY <1>3 DEF CallPcs
<1>5. LanesShape'
  <2>1. PICK r : Becomes(p, r) /\ r.pc = pc /\ r \in LaneState
    BY <1>3, <1>4 DEF LeavesTo
  <2> QED BY <1>1, <1>2, <1>4, <2>1, LaneMoves
<1>6. ResultShape'
  BY <1>1, OutcomeIs DEF SinkStep, Served, Outcomes, Shape, ResultShape
<1>7. CacheShape' /\ ServerShape' /\ PostsShape' /\ RowsShape'
  BY <1>2 DEF Shape, ServerShape, PostsShape, CacheShape, RowsShape, stream
<1> QED BY <1>5, <1>6, <1>7

LEMMA ServesKeepsShape ==
  ASSUME Shape, NEW n \in 1..Len(posts), Serves(<<n, "call">>),
         lane[<<n, "call">>].pc = "rabbitWait" => SinkIsOn("rabbit")
  PROVE  Shape'
<1> DEFINE p == <<n, "call">>
<1>1. CASE Invalidate(p)
  BY <1>1, InvalidateKeepsShape
<1>2. CASE ToRabbit(p) /\ On(inst.rabbit)
  <2>1. UNCHANGED <<setting, caused, handled, posts, pending, row, cache, http, result, faults>>
    BY <1>2 DEF ToRabbit, LaneOnly
  <2>2. Goto(p, "rabbitWait") /\ p \in Publisher
    BY <1>2, PostsHaveLanes DEF ToRabbit
  <2>3. "rabbitWait" \in CallPcs \ {"none"}
    BY DEF CallPcs
  <2>4. LanesShape'
    BY <2>1, <2>2, <2>3, GoingTo, LaneMoves
  <2> QED
    BY <2>1, <2>4 DEF Shape, ServerShape, PostsShape, CacheShape, RowsShape,
       ResultShape, HttpShape, stream
<1>3. ASSUME UNCHANGED http, \E s \in SinkNames,
             next \in {"nats", "ws", "hook", "done"} :
               SinkStep(p, s, next)
      PROVE  Shape'
  <2>1. UNCHANGED posts
    BY <1>3 DEF SinkStep
  <2>2. HttpShape'
    BY <1>3, <2>1 DEF Shape, HttpShape
  <2> QED BY <1>3, <2>2, SinkStepKeeps DEF Shape
<1>4. CASE ToRabbit(p) /\ ~On(inst.rabbit)
  <2>1. SinkStep(p, "rabbit", "nats")
    BY <1>4, SinkSteps
  <2>2. UNCHANGED http
    BY <1>4 DEF ToRabbit
  <2> QED BY <1>3, <2>1, <2>2 DEF SinkNames
<1>5. CASE RabbitAnswers(p)
  <2>1. lane[p].pc = "rabbitWait" /\ UNCHANGED http
    BY <1>5 DEF RabbitAnswers, At
  <2>2. SinkStep(p, "rabbit", "nats")
    BY <1>5, <2>1, SinkSteps
  <2> QED BY <1>3, <2>1, <2>2 DEF SinkNames
<1>6. CASE ToNatsServer(p) \/ PassesWs(p) \/ WriteEnds(p)
  <2>1. SinkStep(p, "nats", "ws") \/ SinkStep(p, "ws", "hook")
    BY <1>6, SinkSteps
  <2>2. UNCHANGED http
    BY <1>6 DEF ToNatsServer, PassesWs, WriteEnds, PassedOver, Sink
  <2> QED BY <1>3, <2>1, <2>2 DEF SinkNames
<1>7. CASE ToHook(p)
  <2>1. SinkStep(p, "hook", "done")
    BY <1>7, SinkSteps
  <2>2. UNCHANGED posts /\ (UNCHANGED http \/ Spawn(p, 0))
    BY <1>7 DEF ToHook, LaneOnly
  <2>3. HttpShape'
    BY <2>2, SpawnKeeps DEF Shape, HttpShape
  <2>4. "hook" \in SinkNames
    BY DEF SinkNames
  <2>5. /\ LanesShape' /\ CacheShape' /\ ResultShape' /\ ServerShape' /\ PostsShape'
        /\ RowsShape'
    BY <2>1, <2>4, SinkStepKeeps
  <2> QED BY <2>3, <2>5 DEF Shape
<1> QED BY <1>1, <1>2, <1>4, <1>5, <1>6, <1>7 DEF Serves

(* From the sinks on nothing but the goroutine itself and its outcome moves.*)
LEMMA ServesMoves ==
  ASSUME Shape, NEW n \in 1..Len(posts), NEW p, p = <<n, "call">>, Serves(p),
         ~Invalidate(p)
  PROVE  /\ \E r : Becomes(p, r)
         /\ UNCHANGED <<setting, caused, handled, posts, cache>>
         /\ lane[p].pc \in {"rabbit", "rabbitWait", "nats", "ws", "hook"}
         /\ lane'[p].pc \in {"rabbitWait", "nats", "ws", "hook", "done"}
         /\ \A q \in Publisher : q # p => lane'[q] = lane[q]
<1>1. p \in Publisher /\ lane \in [Publisher -> LaneState] /\ lane[p] \in LaneState
  BY PostsHaveLanes DEF Shape, LanesShape
<1>2. UNCHANGED <<setting, caused, handled, posts, cache>>
  BY DEF Serves, ToRabbit, RabbitAnswers, ToNatsServer, PassesWs, WriteEnds, Sink,
     PassedOver, ToHook, LaneOnly
<1>3. lane[p].pc \in {"rabbit", "rabbitWait", "nats", "ws", "hook"}
  BY DEF Serves, ToRabbit, RabbitAnswers, ToNatsServer, PassesWs, WriteEnds, PassedOver,
     ToHook, At
<1>4. \E pc \in {"rabbitWait", "nats", "ws", "hook", "done"} :
        \/ Becomes(p, [lane[p] EXCEPT !.pc = pc])
        \/ Becomes(p, [lane[p] EXCEPT !.pc = pc, !.held = "no"])
  BY DEF Serves, ToRabbit, RabbitAnswers, ToNatsServer, PassesWs, WriteEnds, Sink,
     PassedOver, ToHook, AfterFailure, Goto
<1>5. \E pc \in {"rabbitWait", "nats", "ws", "hook", "done"}, r \in LaneState :
        Becomes(p, r) /\ r.pc = pc
  <2>1. PICK pc \in {"rabbitWait", "nats", "ws", "hook", "done"} :
          \/ Becomes(p, [lane[p] EXCEPT !.pc = pc])
          \/ Becomes(p, [lane[p] EXCEPT !.pc = pc, !.held = "no"])
    BY <1>4
  <2>2. pc \in CallPcs
    BY <2>1 DEF CallPcs
  <2>3. /\ [lane[p] EXCEPT !.pc = pc] \in LaneState
        /\ [lane[p] EXCEPT !.pc = pc].pc = pc
        /\ [lane[p] EXCEPT !.pc = pc, !.held = "no"] \in LaneState
        /\ [lane[p] EXCEPT !.pc = pc, !.held = "no"].pc = pc
    BY <1>1, <2>2 DEF LaneState
  <2> QED BY <2>1, <2>3
<1> QED BY <1>1, <1>2, <1>3, <1>5 DEF Becomes

LEMMA GlobalsKeepShape ==
  ASSUME Shape, NEW n \in 1..Len(posts), SendToGlobalQueues(<<n, "global">>)
  PROVE  /\ Shape'
         /\ UNCHANGED <<setting, caused, handled, posts, seen, pending, row, overtaken, read,
                        objects, cache, http, result, faults>>
         /\ \A q \in Publisher : q # <<n, "global">> => lane'[q] = lane[q]
<1> DEFINE p == <<n, "global">>
<1>1. p \in Publisher /\ n \in Post
  BY PostsHaveLanes
<1>2. UNCHANGED <<setting, caused, handled, posts, seen, pending, row, overtaken, read,
                  objects, cache, http, result, faults>>
  BY DEF SendToGlobalQueues, GlobalAmqp, GlobalAnswers, GlobalNats, LaneOnly
<1>3. \E pc \in {"amqpWait", "done", "natsGlobal", "subject"} : Goto(p, pc)
  BY DEF SendToGlobalQueues, GlobalAmqp, GlobalAnswers, GlobalNats
<1>4. lane[p].pc # "none"
  BY DEF SendToGlobalQueues, GlobalAmqp, GlobalAnswers, GlobalNats, At
<1>5. {"amqpWait", "done", "natsGlobal", "subject"} \subseteq GlobalPcs \ {"none"}
  BY DEF GlobalPcs
<1>6. PICK r : Becomes(p, r) /\ r \in LaneState /\ r.pc \in GlobalPcs \ {"none"}
  BY <1>1, <1>3, <1>5, GoingTo
<1>7. LanesShape' /\ \A q \in Publisher : q # p => lane'[q] = lane[q]
  BY <1>1, <1>2, <1>4, <1>6, LaneMoves
<1> QED
  BY <1>2, <1>7 DEF Shape, ServerShape, PostsShape, CacheShape, RowsShape,
     ResultShape, HttpShape, stream

LEMMA HttpKeepsShape ==
  ASSUME Shape, Posting
  PROVE  /\ Shape'
         /\ UNCHANGED <<setting, caused, handled, posts, lane, seen, pending, row, overtaken, read,
                        objects, cache, result>>
         /\ \A h \in http' : \E g \in http : h.post = g.post /\ h.via = g.via
<1>1. PICK g \in http : Delivered(g) \/ NotDelivered(g) \/ PostHangs(g) \/ PostResumes(g)
  BY DEF Posting, Http
<1>2. UNCHANGED <<setting, caused, handled, posts, lane, seen, pending, row, overtaken, read,
                  objects, cache, result>>
  BY <1>1 DEF Delivered, NotDelivered, PostHangs, PostResumes, HttpBecomes
<1> DEFINE S == [post : Nat, via : Nat, to : {"url", "global"}, tries : Nat, got : Nat,
                 pc : {"post", "hangs", "ok", "failed"}]
<1>3. /\ g \in S /\ g.tries <= maxTries /\ g.got <= g.tries
      /\ g.tries < maxTries /\ g.post \in 1..Len(posts)
  BY <1>1 DEF Shape, HttpShape, Delivered, NotDelivered, PostHangs, PostResumes
<1>4. faults' \in Nat /\ faults' <= faults
  <2>1. UNCHANGED faults \/ Fault
    BY <1>1 DEF Delivered, NotDelivered, PostHangs, PostResumes
  <2> QED BY <2>1 DEF Fault, Shape, ServerShape
<1>5. PICK t \in {g.tries, g.tries + 1}, got \in {g.got, g.got + 1},
           pc \in {"post", "hangs", "ok", "failed"} :
        /\ HttpBecomes(g, [g EXCEPT !.tries = t, !.got = got, !.pc = pc])
        /\ pc \in {"post", "hangs"} => t < maxTries
        /\ got <= t
  <2>1. g.got \in Nat /\ g.tries \in Nat /\ g.tries + 1 \in Nat /\ g.got + 1 \in Nat
    BY <1>3
  <2>2. CASE Delivered(g)
    <3>1. HttpBecomes(g, [g EXCEPT !.tries = g.tries + 1, !.got = g.got + 1, !.pc = "ok"])
      BY <2>2 DEF Delivered
    <3> QED BY <1>3, <2>1, <3>1
  <2>3. CASE NotDelivered(g)
    <3>1. PICK lost \in {0, 1} :
            HttpBecomes(g, [g EXCEPT !.tries = g.tries + 1, !.got = g.got + lost,
                              !.pc =
                                IF g.tries + 1 < maxTries THEN "post" ELSE "failed"])
      BY <2>3 DEF NotDelivered
    <3>2. g.got + lost \in {g.got, g.got + 1} /\ g.got + lost <= g.tries + 1
      BY <1>3, <2>1
    <3> QED BY <3>1, <3>2
  <2>4. CASE PostHangs(g) \/ PostResumes(g)
    <3>1. PICK pc \in {"post", "hangs"} : HttpBecomes(g, [g EXCEPT !.pc = pc])
      BY <2>4 DEF PostHangs, PostResumes
    <3>2. [g EXCEPT !.pc = pc] = [g EXCEPT !.tries = g.tries, !.got = g.got, !.pc = pc]
      BY <1>3
    <3>3. HttpBecomes(g, [g EXCEPT !.tries = g.tries, !.got = g.got, !.pc = pc])
      BY <3>1, <3>2
    <3> QED BY <1>3, <3>3
  <2> QED BY <1>1, <2>2, <2>3, <2>4
<1> DEFINE r == [g EXCEPT !.tries = t, !.got = got, !.pc = pc]
<1>6. /\ r \in S /\ r.tries <= maxTries /\ r.got <= r.tries
      /\ r.pc \in {"post", "hangs"} => r.tries < maxTries
      /\ r.post = g.post /\ r.via = g.via
  <2>1. t \in Nat /\ t <= maxTries /\ got \in Nat
    BY <1>3 DEF maxTries
  <2>2. /\ r \in S /\ r.tries = t /\ r.got = got /\ r.pc = pc
        /\ r.post = g.post /\ r.via = g.via
    BY <1>3, <2>1
  <2> QED BY <1>5, <2>1, <2>2
<1>7. http' = (http \ {g}) \cup {r}
  BY <1>5 DEF HttpBecomes
<1> HIDE DEF r, S
<1>8. HttpShape'
  BY <1>2, <1>3, <1>6, <1>7 DEF Shape, HttpShape, S
<1>9. \A h \in http' : \E x \in http : h.post = x.post /\ h.via = x.via
  BY <1>6, <1>7
<1> QED
  BY <1>2, <1>4, <1>8, <1>9 DEF Shape, ServerShape, PostsShape, LanesShape,
     CacheShape, RowsShape, ResultShape, stream, HasGlobal, conf

LEMMA OutsideKeepsShape ==
  ASSUME Shape, \/ Cause \/ BrokerFault \/ BrokerReturns \/ LossIsNoticed \/ Expire
                \/ WriteRow \/ \E p \in Publisher : RabbitWorks(p)
  PROVE  Shape'
<1>1. UNCHANGED <<setting, handled, posts, lane, http, cache, result>>
  BY DEF Cause, BrokerFault, BrokerReturns, LossIsNoticed, Expire, WriteRow, RabbitWorks, eventVars
<1>2. caused' \in Nat /\ caused' <= Len(stream) /\ caused <= caused'
  <2>1. UNCHANGED caused \/ (caused < Len(stream) /\ caused' = caused + 1)
    BY DEF Cause, BrokerFault, BrokerReturns, LossIsNoticed, Expire, WriteRow, RabbitWorks,
       eventVars
  <2> QED BY <2>1, StreamShape DEF Shape, ServerShape
<1>3. faults' \in Nat /\ faults' <= faults
  <2>1. UNCHANGED faults \/ Fault
    BY DEF Cause, BrokerFault, BrokerReturns, LossIsNoticed, Expire, WriteRow, RabbitWorks,
       eventVars
  <2> QED BY <2>1 DEF Fault, Shape, ServerShape
<1>4. row' \cup pending' \subseteq row \cup pending
  BY DEF Cause, BrokerFault, BrokerReturns, LossIsNoticed, Expire, WriteRow, RabbitWorks, eventVars
<1>5. RowsShape'
  BY <1>1, <1>4 DEF Shape, RowsShape
<1>6. ServerShape'
  <2>1. handled \in Nat /\ handled <= caused /\ caused \in Nat
    BY DEF Shape, ServerShape
  <2>2. handled' <= caused'
    BY <1>1, <1>2, <2>1
  <2> QED BY <1>1, <1>2, <1>3, <2>1, <2>2 DEF Shape, ServerShape, stream
<1> QED
  BY <1>1, <1>5, <1>6 DEF Shape, PostsShape, LanesShape, CacheShape,
     HttpShape, ResultShape, stream, HasGlobal, conf

(***************************************************************************)
(* What the handler writes of an event: nothing, the row of a label or of  *)
(* a vote, or those of a receipt.                                          *)
Receives(status, n, m) == IF status = "Read" THEN Reads(n, m) ELSE Delivers(n, m)
Statuses == {"Read", "Delivered"}

WritesNothing ==
  /\ UNCHANGED <<seen, pending, row, overtaken>>
  /\ \A m, st : st \in Statuses /\ Receives(st, handled + 1, m) =>
       <<m, st>> \in seen

WritesOther ==
  /\ UNCHANGED seen
  /\ \A m, st : ~Receives(st, handled + 1, m)
  /\ \E w : /\ w.key[1] # "message" /\ w.at = handled + 1
            /\ \/ WriteRows({w}) /\ UNCHANGED row
               \/ /\ row' = {r \in row : r.key # w.key} \cup {w}
                  /\ UNCHANGED <<pending, overtaken>>

WritesReceipt(st, new) ==
  /\ \A m : m \in new <=> Receives(st, handled + 1, m) /\ <<m, st>> \notin seen
  /\ \A m, s : s \in Statuses /\ s # st => ~Receives(s, handled + 1, m)
  /\ seen' = seen \cup (new \X {st}) /\ UNCHANGED row
  /\ IF conf.saveMessages
     THEN WriteRows({[key |-> <<"message", m>>, value |-> st, at |-> handled + 1] : m \in new})
     ELSE UNCHANGED <<pending, overtaken>>

LEMMA OnlyReceiptsReceive ==
  ASSUME Event.kind # "Receipt"
  PROVE  \A m, st : ~Receives(st, handled + 1, m)
BY DEF Receives, Reads, Delivers, Event

LEMMA ReceiptWrites ==
  ASSUME OnReceipt
  PROVE  WritesNothing \/ \E st \in Statuses : \E new : WritesReceipt(st, new)
<1>1. Event.kind = "Receipt" /\ UNCHANGED row
  BY DEF OnReceipt, Handles
<1>2. ASSUME NEW m
      PROVE  /\ Reads(handled + 1, m) <=> /\ Event.content = "read" /\ ~IgnoresGroup(Event)
                                         /\ m \in ToSet(Event.ids)
             /\ Delivers(handled + 1, m) <=> /\ Event.content = "delivered" /\ ~IgnoresGroup(Event)
                                            /\ m = Event.ids[1]
  BY <1>1 DEF Reads, Delivers, Event
<1>3. CASE IgnoresGroup(Event) \/ Event.content \notin {"read", "delivered"}
  <2>1. UNCHANGED <<seen, pending, row, overtaken>>
    BY <1>1, <1>3 DEF OnReceipt
  <2>2. \A m, st : ~Receives(st, handled + 1, m)
    BY <1>2, <1>3 DEF Receives
  <2> QED BY <2>1, <2>2 DEF WritesNothing
<1>4. CASE ~IgnoresGroup(Event) /\ Event.content = "read"
  <2> DEFINE new == Fresh(ToSet(Event.ids), "Read")
  <2>1. /\ seen' = seen \cup (new \X {"Read"})
        /\ IF conf.saveMessages
           THEN WriteRows({[key |-> <<"message", m>>, value |-> "Read", at |-> handled + 1] : m \in new})
           ELSE UNCHANGED <<pending, overtaken>>
    BY <1>4 DEF OnReceipt
  <2>2. \A m :
          m \in new <=> Receives("Read", handled + 1, m) /\ <<m, "Read">> \notin seen
    BY <1>2, <1>4 DEF Receives, Fresh
  <2>3. \A m, s : s # "Read" => ~Receives(s, handled + 1, m)
    BY <1>2, <1>4 DEF Receives
  <2> QED BY <1>1, <2>1, <2>2, <2>3 DEF WritesReceipt, Statuses
<1>5. CASE ~IgnoresGroup(Event) /\ Event.content = "delivered"
  <2> DEFINE new == Fresh({Event.ids[1]}, "Delivered")
  <2>1. \A m :
          m \in new <=> Receives("Delivered", handled + 1, m) /\ <<m, "Delivered">> \notin seen
    BY <1>2, <1>5 DEF Receives, Fresh
  <2>2. \A m, s : s # "Delivered" /\ s \in Statuses => ~Receives(s, handled + 1, m)
    BY <1>2, <1>5 DEF Receives, Statuses
  <2>3. CASE new = {}
    <3>1. UNCHANGED <<seen, pending, overtaken>>
      BY <1>5, <2>3 DEF OnReceipt
    <3> QED BY <1>1, <2>1, <2>2, <2>3, <3>1 DEF WritesNothing
  <2>4. CASE new # {}
    <3>1. /\ seen' = seen \cup (new \X {"Delivered"})
          /\ IF conf.saveMessages
             THEN WriteRows({[key |-> <<"message", m>>, value |-> "Delivered",
                              at |-> handled + 1] : m \in new})
             ELSE UNCHANGED <<pending, overtaken>>
      BY <1>5, <2>4 DEF OnReceipt
    <3> QED BY <1>1, <2>1, <2>2, <3>1 DEF WritesReceipt, Statuses
  <2> QED BY <2>3, <2>4
<1> QED BY <1>3, <1>4, <1>5

LEMMA HandlerWrites ==
  ASSUME Handler
  PROVE  WritesNothing \/ WritesOther \/ \E st \in Statuses : \E new : WritesReceipt(st, new)
<1>1. CASE OnReceipt
  BY <1>1, ReceiptWrites
<1>2. CASE OnLabelEdit
  <2> DEFINE w == [key |-> <<"label", Event.ids[1]>>, value |-> "", at |-> handled + 1]
  <2>1. /\ w.key = <<"label", Event.ids[1]>> /\ w.key[1] # "message"
        /\ w.at = handled + 1
    OBVIOUS
  <2>2. /\ row' = {r \in row : r.key # w.key} \cup {w}
        /\ UNCHANGED <<pending, overtaken, seen>> /\ Event.kind = "LabelEdit"
    BY <1>2 DEF OnLabelEdit, Handles
  <2>3. \A m, st : ~Receives(st, handled + 1, m)
    BY <2>2, OnlyReceiptsReceive
  <2> HIDE DEF w
  <2> QED BY <2>1, <2>2, <2>3 DEF WritesOther
<1>3. CASE OnMessage
  <2> DEFINE e == Swapped(Event)
             w == [key |-> <<"vote", e.ids[1], e.sender>>, value |-> "", at |-> handled + 1]
  <2>1. w.key[1] # "message" /\ w.at = handled + 1 /\ Vote(e) = {w}
    BY DEF Vote
  <2>2. UNCHANGED <<seen, row>> /\ Event.kind = "Message"
    BY <1>3 DEF OnMessage, Handles
  <2>3. UNCHANGED <<pending, overtaken>> \/ WriteRows(Vote(e))
    BY <1>3 DEF OnMessage
  <2>4. \A m, st : ~Receives(st, handled + 1, m)
    BY <2>2, OnlyReceiptsReceive
  <2> HIDE DEF w, e
  <2> QED BY <2>1, <2>2, <2>3, <2>4 DEF WritesOther, WritesNothing
<1>4. CASE OnPlain \/ OnConnected \/ OnUnposted \/ OnArchive \/ OnLoggedOut \/ OnCallOffer
           \/ OnUndecryptable
  <2>1. UNCHANGED <<seen, pending, row, overtaken>>
    BY <1>4 DEF OnPlain, OnConnected, OnUnposted, OnArchive, OnLoggedOut,
       OnCallOffer, OnUndecryptable, HandlesOnly
  <2>2. Event.kind # "Receipt"
    BY <1>4 DEF OnPlain, OnConnected, OnUnposted, OnArchive, OnLoggedOut,
       OnCallOffer, OnUndecryptable, Handles, Plain
  <2> QED BY <2>1, <2>2, OnlyReceiptsReceive DEF WritesNothing
<1> QED BY <1>1, <1>2, <1>3, <1>4 DEF Handler

LEMMA HandlerKeepsShape ==
  ASSUME Shape, Handler
  PROVE  Shape'
<1>1. /\ Emits /\ handled < caused /\ handled' = handled + 1
      /\ UNCHANGED <<rabbitVars, setting, caused, result, http, cache, faults>>
  BY HandlerMakes
<1>2. Grows /\ posts' \in Seq(PostState) /\ lane' = [p \in Publisher |-> lane'[p]]
  BY <1>1, EmitGrows
<1>3. PostsShape' /\ LanesShape'
  BY <1>1, <1>2, GrowsShape
<1>4. handled \in Nat /\ caused \in Nat
  BY DEF Shape, ServerShape
<1>5. ServerShape'
  BY <1>1, <1>4 DEF Shape, ServerShape, stream
<1>6. HttpShape' /\ CacheShape' /\ ResultShape'
  <2>1. 1..Len(posts) \subseteq 1..Len(posts')
    BY <1>2 DEF Grows, Shape, PostsShape
  <2> QED BY <1>1, <2>1 DEF Shape, HttpShape, CacheShape, ResultShape
<1>7. \A w \in row' \cup pending' : w \in row \cup pending \/ w.at = handled + 1
  BY HandlerWrites DEF WritesNothing, WritesOther, WritesReceipt, WriteRows
<1>8. RowsShape'
  BY <1>1, <1>4, <1>7 DEF Shape, RowsShape
<1> QED BY <1>3, <1>5, <1>6, <1>8 DEF Shape

LEMMA InitShape == Init => Shape
<1> SUFFICES ASSUME Init
             PROVE  Shape
  OBVIOUS
<1>1. /\ setting \in Settings /\ caused = 0 /\ handled = 0 /\ posts = <<>>
      /\ faults = setting.faults /\ http = {} /\ row = {} /\ pending = {}
      /\ lane = [p \in Publisher |-> NoLane] /\ cache = [k \in Kind |-> NotLoaded]
      /\ result = [n \in Post |-> [s \in Range(Sinks) |-> "no"]]
  BY DEF Init
<1>2. ServerShape
  <2>1. faults \in Nat /\ setting.faults \in Nat /\ faults <= setting.faults
    BY <1>1, SettingsAssumption
  <2>2. stream \in Seq([kind : STRING, chat : STRING, sender : STRING, alt : STRING,
                        own : BOOLEAN, content : STRING, ids : Seq(STRING)])
    BY <1>1, SettingsAssumption DEF stream
  <2>3. Len(stream) \in Nat
    BY <2>2, LenProperties
  <2> QED BY <1>1, <2>1, <2>3 DEF ServerShape
<1>3. PostsShape
  BY <1>1, PostsAssumption DEF PostsShape
<1>4. LanesShape
  <2>1. NoLane \in LaneState /\ NoLane.pc = "none"
    BY DEF NoLane, LaneState, CallPcs, Text
  <2>2. \A p \in Publisher : lane[p] = NoLane
    BY <1>1
  <2>3. lane \in [Publisher -> LaneState]
    BY <1>1, <2>1
  <2>4. \A n \in Post :
          lane[<<n, "call">>].pc = "none" /\ lane[<<n, "global">>].pc = "none"
    BY <2>1, <2>2, LanesOfPosts
  <2>5. Len(posts) = 0 /\ \A n \in Post : n > 0
    BY <1>1 DEF Post
  <2> QED BY <2>3, <2>4, <2>5 DEF LanesShape, CallPcs, GlobalPcs
<1>5. CacheShape
  BY <1>1 DEF CacheShape, CacheState, NotLoaded, Text
<1>6. ResultShape
  BY <1>1, SinkNamesAre DEF ResultShape, Outcomes
<1>7. HttpShape /\ RowsShape
  BY <1>1 DEF HttpShape, RowsShape
<1> QED BY <1>2, <1>3, <1>4, <1>5, <1>6, <1>7 DEF Shape

------------------------------------------------------------------------------
(* The sinks.  What has become of a post by the time its goroutine is at a *)
(* point: the sinks before it are served, if they are on, those after it   *)
(* are not, and the first failure has been the end.                        *)
Passed(n, s) ==
  IF SinkIsOn(s) THEN result[n][s] \in Served ELSE result[n][s] = "no"

NotYet(n, S) == \A s \in S : result[n][s] = "no"

Untouched(n) == NotYet(n, SinkNames)
PastRabbit(n) == Passed(n, "rabbit") /\ NotYet(n, {"nats", "ws", "hook"})
PastNats(n) == Passed(n, "rabbit") /\ Passed(n, "nats") /\ NotYet(n, {"ws", "hook"})
PastWs(n) ==
  Passed(n, "rabbit") /\ Passed(n, "nats") /\ Passed(n, "ws") /\ NotYet(n, {"hook"})
AllServed(n) == \A s \in SinkNames : Passed(n, s)

FailedAt(n, s) == SinkIsOn(s) /\ result[n][s] = "failed"

Stopped(n) ==
  \/ FailedAt(n, "rabbit") /\ NotYet(n, {"nats", "ws", "hook"})
  \/ Passed(n, "rabbit") /\ FailedAt(n, "nats") /\ NotYet(n, {"ws", "hook"})
  \/ /\ Passed(n, "rabbit") /\ Passed(n, "nats") /\ FailedAt(n, "ws")
     /\ NotYet(n, {"hook"})
  \/ /\ Passed(n, "rabbit") /\ Passed(n, "nats") /\ Passed(n, "ws")
     /\ FailedAt(n, "hook")

AtItsEnd(n) ==
  \/ ~Wanted(posts[n]) /\ Untouched(n)
  \/ Wanted(posts[n]) /\ (AllServed(n) \/ Stopped(n))

Ordered(n) ==
  LET pc == lane[<<n, "call">>].pc IN
  /\ pc \in {"rabbit", "rabbitWait", "nats", "ws", "hook"} => Wanted(posts[n])
  /\ pc \in NotInvalidated \cup {"none", "rabbit", "rabbitWait"} => Untouched(n)
  /\ pc = "rabbitWait" => SinkIsOn("rabbit")
  /\ pc = "nats" => PastRabbit(n)
  /\ pc = "ws" => PastNats(n)
  /\ pc = "hook" => PastWs(n)
  /\ pc = "done" => AtItsEnd(n)

SinksInOrder == \A n \in Post : Ordered(n)

(* What is at a point does not depend on anything but the post, its        *)
(* goroutine and its outcomes.                                             *)
LEMMA OrderedStays ==
  ASSUME NEW n \in Post, Ordered(n), UNCHANGED setting, posts'[n] = posts[n],
         lane'[<<n, "call">>].pc = lane[<<n, "call">>].pc, result'[n] = result[n]
  PROVE  Ordered(n)'
<1>1. inst' = inst
  BY DEF inst
<1>2. Wanted(posts[n])' = Wanted(posts[n])
  BY <1>1 DEF Wanted
<1>3. \A s : SinkIsOn(s)' = SinkIsOn(s)
  BY <1>1 DEF SinkIsOn
<1>4. \A s : Passed(n, s)' = Passed(n, s) /\ FailedAt(n, s)' = FailedAt(n, s)
  BY <1>3 DEF Passed, FailedAt, Served
<1>5. \A S : NotYet(n, S)' = NotYet(n, S)
  BY DEF NotYet
<1>6. /\ Untouched(n)' = Untouched(n) /\ PastRabbit(n)' = PastRabbit(n)
      /\ PastNats(n)' = PastNats(n) /\ PastWs(n)' = PastWs(n)
  BY <1>4, <1>5 DEF Untouched, PastRabbit, PastNats, PastWs
<1>7. AtItsEnd(n)' = AtItsEnd(n)
  BY <1>2, <1>4, <1>5, <1>6 DEF AtItsEnd, AllServed, Stopped
<1> QED BY <1>2, <1>3, <1>6, <1>7 DEF Ordered

LEMMA UntouchedFirst ==
  ASSUME NEW n \in Post, Untouched(n), UNCHANGED <<setting, result>>,
         lane'[<<n, "call">>].pc \in NotInvalidated \cup {"none"}
  PROVE  Ordered(n)'
<1>1. lane'[<<n, "call">>].pc \notin {"rabbit", "rabbitWait", "nats", "ws", "hook", "done"}
  BY ProgramPcs
<1>2. Untouched(n)'
  BY DEF Untouched, NotYet
<1> QED BY <1>1, <1>2 DEF Ordered

LEMMA HandlerKeepsOrder ==
  ASSUME Shape, SinksInOrder, Handler
  PROVE  SinksInOrder'
<1>1. Grows /\ UNCHANGED <<setting, result>>
  BY HandlerMakes, EmitGrows
<1>2. Len(posts) \in Nat /\ Len(posts') \in Nat /\ Len(posts) <= Len(posts')
  BY <1>1 DEF Grows, Shape, PostsShape
<1> SUFFICES ASSUME NEW n \in Post
             PROVE  Ordered(n)'
  BY DEF SinksInOrder
<1>6. n \in Nat /\ n >= 1
  BY DEF Post
<1>7. /\ <<n, "call">> \in Publisher
      /\ (lane[<<n, "call">>].pc = "none") = (n > Len(posts))
  BY LanesOfPosts DEF Shape, LanesShape
<1>3. /\ Ordered(n) /\ n \in Nat /\ n >= 1 /\ <<n, "call">> \in Publisher
      /\ (lane[<<n, "call">>].pc = "none") = (n > Len(posts))
  BY <1>6, <1>7 DEF SinksInOrder
<1>4. CASE n <= Len(posts)
  <2>1. ~IsNew(n) /\ posts'[n] = posts[n]
    BY <1>1, <1>2, <1>3, <1>4 DEF IsNew, Grows
  <2>2. lane'[<<n, "call">>] = lane[<<n, "call">>]
    BY <1>1, <1>3, <2>1 DEF Grows
  <2> QED BY <1>1, <1>3, <2>1, <2>2, OrderedStays
<1>5. CASE n > Len(posts)
  <2>1. Untouched(n)
    BY <1>3, <1>5 DEF Ordered
  <2>2. CASE IsNew(n)
    <3>1. lane'[<<n, "call">>] = [NoLane EXCEPT !.pc = "dispatch"]
      BY <1>1, <2>2 DEF Grows, IsNew
    <3>2. lane'[<<n, "call">>].pc \in NotInvalidated
      BY <3>1, ProgramPcs DEF NoLane
    <3> QED BY <1>1, <2>1, <3>2, UntouchedFirst
  <2>3. CASE ~IsNew(n)
    <3>1. lane'[<<n, "call">>] = lane[<<n, "call">>]
      BY <1>1, <1>3, <2>3 DEF Grows
    <3>2. lane'[<<n, "call">>].pc = "none"
      BY <1>3, <1>5, <3>1
    <3> QED BY <1>1, <2>1, <3>2, UntouchedFirst
  <2> QED BY <2>2, <2>3
<1> QED BY <1>2, <1>3, <1>4, <1>5

(* A goroutine of CallWebhook only touches the outcomes of its own post.   *)
LEMMA CallLeavesOthers ==
  ASSUME Shape, NEW n \in 1..Len(posts), CallSteps(<<n, "call">>), NEW m \in Post,
         m # n
  PROVE  /\ lane'[<<m, "call">>].pc = lane[<<m, "call">>].pc /\ result'[m] = result[m]
         /\ UNCHANGED <<setting, posts>>
<1> DEFINE p == <<n, "call">>
<1>1. UNCHANGED <<setting, posts>>
  BY CallIsLaneOnly DEF LaneOnly
<1>2. /\ p \in Publisher /\ n \in Post /\ <<m, "call">> \in Publisher
      /\ <<m, "call">> # p
  BY PostsHaveLanes, LanesOfPosts
<1>3. lane \in [Publisher -> LaneState] /\ lane[<<m, "call">>] \in LaneState
  BY <1>2 DEF Shape, LanesShape
<1>4. ASSUME NEW r, Becomes(p, r)
      PROVE  lane'[<<m, "call">>].pc = lane[<<m, "call">>].pc
  BY <1>2, <1>3, <1>4 DEF Becomes
<1>5. ASSUME \/ result' = result
             \/ \E s \in SinkNames, o \in Outcomes : Outcome(p, s, o)
      PROVE  result'[m] = result[m]
  BY <1>2, <1>5, OutcomeIs
<1>6. CASE LooksUp(p)
  BY <1>1, <1>4, <1>5, <1>6, LooksUpIsLookedUp DEF LookedUp
<1>7. CASE Waits(p)
  BY <1>1, <1>4, <1>5, <1>7, WaitingIs
<1>8. CASE Invalidate(p)
  <2> DEFINE to == IF Wanted(PostIn(p)) THEN "rabbit" ELSE "done"
  <2>1. \/ Becomes(p, [lane[p] EXCEPT !.pc = to])
        \/ lane' = [q \in Publisher |-> IF q = p THEN [lane[p] EXCEPT !.pc = to]
                                         ELSE [lane[q] EXCEPT !.raced = TRUE]]
    BY <1>8 DEF Invalidate, Goto
  <2> HIDE DEF to
  <2>2. CASE lane' = [q \in Publisher |-> IF q = p THEN [lane[p] EXCEPT !.pc = to]
                                          ELSE [lane[q] EXCEPT !.raced = TRUE]]
    <3>1. lane'[<<m, "call">>] = [lane[<<m, "call">>] EXCEPT !.raced = TRUE]
      BY <1>2, <2>2
    <3>2. lane'[<<m, "call">>].pc = lane[<<m, "call">>].pc
      BY <1>3, <3>1 DEF LaneState
    <3> QED BY <1>1, <1>8, <3>2 DEF Invalidate
  <2> QED BY <1>1, <1>4, <1>8, <2>1, <2>2 DEF Invalidate
<1>9. CASE ToRabbit(p) /\ On(inst.rabbit)
  BY <1>1, <1>4, <1>9 DEF ToRabbit, Goto
<1>10. ASSUME NEW s \in SinkNames, NEW next, SinkStep(p, s, next)
       PROVE  /\ lane'[<<m, "call">>].pc = lane[<<m, "call">>].pc
              /\ result'[m] = result[m]
  BY <1>4, <1>5, <1>10 DEF SinkStep, LeavesTo, Served, Outcomes
<1>11. CASE RabbitAnswers(p) /\ SinkIsOn("rabbit")
  BY <1>1, <1>10, <1>11, SinkSteps DEF SinkNames
<1>12. CASE RabbitAnswers(p) /\ ~SinkIsOn("rabbit")
  <2>1. \E pc : Goto(p, pc)
    BY <1>12 DEF RabbitAnswers
  <2>2. \E s \in SinkNames, o \in Outcomes : Outcome(p, s, o)
    BY <1>12 DEF RabbitAnswers, SinkNames, Outcomes
  <2> QED BY <1>1, <1>4, <1>5, <2>1, <2>2 DEF Goto
<1>13. CASE \/ ToRabbit(p) /\ ~On(inst.rabbit)
            \/ ToNatsServer(p) \/ PassesWs(p) \/ WriteEnds(p) \/ ToHook(p)
  BY <1>1, <1>10, <1>13, SinkSteps DEF SinkNames
<1> QED BY <1>6, <1>7, <1>8, <1>9, <1>11, <1>12, <1>13, ServesOrLooksUp DEF Serves

LEMMA InvalidateOrders ==
  ASSUME Shape, SinksInOrder, NEW n \in 1..Len(posts), Invalidate(<<n, "call">>)
  PROVE  Ordered(n)'
<1> DEFINE p == <<n, "call">>
           to == IF Wanted(posts[n]) THEN "rabbit" ELSE "done"
<1>1. /\ p \in Publisher /\ n \in Post /\ lane[p] \in LaneState
      /\ lane \in [Publisher -> LaneState]
  BY PostsHaveLanes DEF Shape, LanesShape
<1>2. UNCHANGED <<setting, posts, result>> /\ lane[p].pc = "invalidate"
  BY DEF Invalidate, LaneOnly, At
<1>3. Untouched(n)
  BY <1>1, <1>2, ProgramPcs DEF SinksInOrder, Ordered
<1>4. lane'[p] = [lane[p] EXCEPT !.pc = to]
  BY <1>1 DEF Invalidate, PostIn, Goto, Becomes
<1>5. lane'[p].pc = to
  BY <1>1, <1>4 DEF LaneState
<1>6. Wanted(posts[n])' <=> Wanted(posts[n])
  BY <1>2 DEF Wanted, inst
<1>7. Untouched(n)'
  BY <1>2, <1>3 DEF Untouched, NotYet
<1>8. to \notin NotInvalidated
  BY ProgramPcs
<1>9. CASE Wanted(posts[n])
  <2>1. lane'[p].pc = "rabbit"
    BY <1>5, <1>9
  <2> QED BY <1>6, <1>7, <1>9, <2>1 DEF Ordered
<1>10. CASE ~Wanted(posts[n])
  <2>1. lane'[p].pc = "done" /\ "done" \notin NotInvalidated
    BY <1>5, <1>8, <1>10
  <2>2. AtItsEnd(n)'
    BY <1>6, <1>7, <1>10 DEF AtItsEnd
  <2> QED BY <2>1, <2>2 DEF Ordered
<1> QED BY <1>9, <1>10

(* A sink that is served, or passed over because it is off, brings a post  *)
(* to the next one; a failure brings it to its end.                        *)
LEMMA SinkStepIs ==
  ASSUME Shape, NEW p, NEW n \in 1..Len(posts), p = <<n, "call">>,
         NEW s \in SinkNames,
         NEW next \in {"nats", "ws", "hook", "done"}, SinkStep(p, s, next),
         result[n][s] = "no"
  PROVE  /\ \/ lane'[p].pc = next /\ Passed(n, s)'
            \/ lane'[p].pc = "done" /\ FailedAt(n, s)'
         /\ \A t \in SinkNames : t # s => result'[n][t] = result[n][t]
         /\ \A t \in SinkNames : t # s /\ Passed(n, t) => Passed(n, t)'
         /\ UNCHANGED <<setting, posts>>
<1>1. p \in Publisher /\ n \in Post /\ lane \in [Publisher -> LaneState]
  BY PostsHaveLanes DEF Shape, LanesShape
<1>2. UNCHANGED <<setting, posts>> /\ inst' = inst
  BY DEF SinkStep, inst
<1>3. ASSUME NEW pc, LeavesTo(p, pc)
      PROVE  lane'[p].pc = pc
  BY <1>1, <1>3 DEF LeavesTo, Becomes
<1>4. \A t \in SinkNames : t # s => result'[n][t] = result[n][t]
  BY <1>1, OutcomeIs DEF SinkStep, Served, Outcomes
<1>5. \A t \in SinkNames : t # s /\ Passed(n, t) => Passed(n, t)'
  BY <1>2, <1>4 DEF Passed, SinkIsOn
<1>6. CASE LeavesTo(p, next) /\ result' = result /\ ~SinkIsOn(s)
  BY <1>2, <1>3, <1>4, <1>5, <1>6 DEF Passed, SinkIsOn
<1>7. ASSUME LeavesTo(p, next), SinkIsOn(s), NEW o \in Served, Outcome(p, s, o)
      PROVE  lane'[p].pc = next /\ Passed(n, s)'
  <2>1. result'[n][s] = o
    BY <1>1, <1>7, OutcomeIs DEF Served, Outcomes
  <2> QED BY <1>2, <1>3, <1>7, <2>1 DEF Passed, SinkIsOn
<1>8. CASE LeavesTo(p, "done") /\ Outcome(p, s, "failed") /\ SinkIsOn(s)
  <2>1. result'[n][s] = "failed"
    BY <1>1, <1>8, OutcomeIs DEF Outcomes
  <2> QED BY <1>2, <1>3, <1>4, <1>5, <1>8, <2>1 DEF FailedAt, SinkIsOn
<1> QED BY <1>2, <1>4, <1>5, <1>6, <1>7, <1>8 DEF SinkStep

LEMMA SinksOrder ==
  ASSUME Shape, NEW n \in 1..Len(posts), Wanted(posts[n]), NEW p, p = <<n, "call">>
  PROVE  /\ Untouched(n) /\ SinkStep(p, "rabbit", "nats") => Ordered(n)'
         /\ PastRabbit(n) /\ SinkStep(p, "nats", "ws") => Ordered(n)'
         /\ PastNats(n) /\ SinkStep(p, "ws", "hook") => Ordered(n)'
         /\ PastWs(n) /\ SinkStep(p, "hook", "done") => Ordered(n)'
<1>1. /\ {"rabbit", "nats", "ws", "hook"} = SinkNames
      /\ {"nats", "ws", "hook", "done"} \cap NotInvalidated = {}
  BY ProgramPcs DEF SinkNames
<1>2. UNCHANGED <<setting, posts>> => Wanted(posts[n])'
  BY DEF Wanted, inst
<1>3. ASSUME Untouched(n), SinkStep(p, "rabbit", "nats")
      PROVE  Ordered(n)'
  <2>1. /\ \/ lane'[p].pc = "nats" /\ Passed(n, "rabbit")'
           \/ lane'[p].pc = "done" /\ FailedAt(n, "rabbit")'
        /\ \A t \in SinkNames : t # "rabbit" => result'[n][t] = result[n][t]
        /\ UNCHANGED <<setting, posts>>
    BY <1>1, <1>3, SinkStepIs DEF Untouched, NotYet
  <2>2. NotYet(n, {"nats", "ws", "hook"})'
    BY <1>1, <1>3, <2>1 DEF Untouched, NotYet
  <2> QED BY <1>1, <1>2, <2>1, <2>2 DEF Ordered, PastRabbit, AtItsEnd, Stopped
<1>4. ASSUME PastRabbit(n), SinkStep(p, "nats", "ws")
      PROVE  Ordered(n)'
  <2>1. /\ \/ lane'[p].pc = "ws" /\ Passed(n, "nats")'
           \/ lane'[p].pc = "done" /\ FailedAt(n, "nats")'
        /\ Passed(n, "rabbit")'
        /\ \A t \in SinkNames : t # "nats" => result'[n][t] = result[n][t]
        /\ UNCHANGED <<setting, posts>>
    BY <1>1, <1>4, SinkStepIs DEF PastRabbit, NotYet
  <2>2. NotYet(n, {"ws", "hook"})'
    BY <1>1, <1>4, <2>1 DEF PastRabbit, NotYet
  <2> QED BY <1>1, <1>2, <2>1, <2>2 DEF Ordered, PastNats, AtItsEnd, Stopped
<1>5. ASSUME PastNats(n), SinkStep(p, "ws", "hook")
      PROVE  Ordered(n)'
  <2>1. /\ \/ lane'[p].pc = "hook" /\ Passed(n, "ws")'
           \/ lane'[p].pc = "done" /\ FailedAt(n, "ws")'
        /\ Passed(n, "rabbit")' /\ Passed(n, "nats")'
        /\ \A t \in SinkNames : t # "ws" => result'[n][t] = result[n][t]
        /\ UNCHANGED <<setting, posts>>
    BY <1>1, <1>5, SinkStepIs DEF PastNats, NotYet
  <2>2. NotYet(n, {"hook"})'
    BY <1>1, <1>5, <2>1 DEF PastNats, NotYet
  <2> QED BY <1>1, <1>2, <2>1, <2>2 DEF Ordered, PastWs, AtItsEnd, Stopped
<1>6. ASSUME PastWs(n), SinkStep(p, "hook", "done")
      PROVE  Ordered(n)'
  <2>1. /\ lane'[p].pc = "done"
        /\ Passed(n, "hook")' \/ FailedAt(n, "hook")'
        /\ Passed(n, "rabbit")' /\ Passed(n, "nats")' /\ Passed(n, "ws")'
        /\ UNCHANGED <<setting, posts>>
    BY <1>1, <1>6, SinkStepIs DEF PastWs, NotYet
  <2> QED BY <1>1, <1>2, <2>1 DEF Ordered, AtItsEnd, AllServed, Stopped
<1> QED BY <1>3, <1>4, <1>5, <1>6

LEMMA CallKeepsOrder ==
  ASSUME Shape, SinksInOrder, NEW n \in 1..Len(posts), CallSteps(<<n, "call">>)
  PROVE  SinksInOrder'
<1> DEFINE p == <<n, "call">>
<1>1. /\ p \in Publisher /\ n \in Post /\ lane \in [Publisher -> LaneState]
      /\ Ordered(n)
  BY PostsHaveLanes DEF Shape, LanesShape, SinksInOrder
<1>2. ASSUME NEW m \in Post, m # n
      PROVE  Ordered(m)'
  <2>1. /\ lane'[<<m, "call">>].pc = lane[<<m, "call">>].pc /\ result'[m] = result[m]
        /\ UNCHANGED <<setting, posts>>
    BY <1>2, CallLeavesOthers
  <2> QED BY <2>1, OrderedStays DEF SinksInOrder
<1> SUFFICES Ordered(n)'
  BY <1>2 DEF SinksInOrder
<1>11. /\ lane[p].pc \in {"rabbit", "rabbitWait", "nats", "ws", "hook"} => Wanted(posts[n])
       /\ lane[p].pc \in NotInvalidated \cup {"none", "rabbit", "rabbitWait"} =>
            Untouched(n)
       /\ lane[p].pc = "rabbitWait" => SinkIsOn("rabbit")
       /\ lane[p].pc = "nats" => PastRabbit(n)
       /\ lane[p].pc = "ws" => PastNats(n)
       /\ lane[p].pc = "hook" => PastWs(n)
  BY <1>1 DEF Ordered
<1>3. CASE LooksUp(p)
  <2>1. PICK r : LookedUp(p, r)
    BY <1>3, LooksUpIsLookedUp
  <2>2. Untouched(n)
    BY <1>11, <2>1 DEF LookedUp
  <2>3. lane'[p] = r
    BY <1>1, <2>1 DEF LookedUp, Becomes
  <2> QED BY <1>1, <2>1, <2>2, <2>3, UntouchedFirst DEF LookedUp
<1>4. CASE Invalidate(p)
  BY <1>4, InvalidateOrders
<1>5. CASE ToRabbit(p) /\ On(inst.rabbit)
  <2>1. /\ lane[p].pc = "rabbit" /\ Goto(p, "rabbitWait")
        /\ UNCHANGED <<setting, posts, result>>
    BY <1>5 DEF ToRabbit, At, LaneOnly
  <2>2. lane'[p].pc = "rabbitWait"
    BY <1>1, <2>1 DEF Goto, Becomes, LaneState
  <2>3. Wanted(posts[n]) /\ Untouched(n) /\ SinkIsOn("rabbit")
    BY <1>5, <1>11, <2>1 DEF SinkIsOn
  <2>4. Wanted(posts[n])' /\ Untouched(n)' /\ SinkIsOn("rabbit")'
    BY <2>1, <2>3 DEF Wanted, Untouched, NotYet, SinkIsOn, inst
  <2> QED BY <2>2, <2>4, ProgramPcs DEF Ordered
<1>6. CASE ToRabbit(p) /\ ~On(inst.rabbit)
  <2>1. SinkStep(p, "rabbit", "nats") /\ lane[p].pc = "rabbit"
    BY <1>6, SinkSteps DEF ToRabbit, At
  <2> QED BY <1>11, <2>1, SinksOrder
<1>7. CASE RabbitAnswers(p)
  <2>1. lane[p].pc = "rabbitWait"
    BY <1>7 DEF RabbitAnswers, At
  <2>2. SinkStep(p, "rabbit", "nats")
    BY <1>7, <1>11, <2>1, SinkSteps
  <2> QED BY <1>11, <2>1, <2>2, SinksOrder
<1>8. CASE ToNatsServer(p)
  <2>1. lane[p].pc = "nats" /\ SinkStep(p, "nats", "ws")
    BY <1>8, SinkSteps DEF ToNatsServer, PassedOver, At
  <2> QED BY <1>11, <2>1, SinksOrder
<1>9. CASE PassesWs(p) \/ WriteEnds(p)
  <2>1. lane[p].pc = "ws" /\ SinkStep(p, "ws", "hook")
    BY <1>9, SinkSteps DEF PassesWs, WriteEnds, PassedOver, At
  <2> QED BY <1>11, <2>1, SinksOrder
<1>10. CASE ToHook(p)
  <2>1. lane[p].pc = "hook" /\ SinkStep(p, "hook", "done")
    BY <1>10, SinkSteps DEF ToHook, At
  <2> QED BY <1>11, <2>1, SinksOrder
<1>12. CASE Waits(p)
  <2>1. lane'[p].pc = lane[p].pc /\ UNCHANGED <<setting, posts, result>>
    BY <1>1, <1>12, WaitingIs DEF Becomes
  <2> QED BY <1>1, <2>1, OrderedStays
<1> QED
  BY <1>3, <1>4, <1>5, <1>6, <1>7, <1>8, <1>9, <1>10, <1>12, ServesOrLooksUp DEF Serves

(* The steps, by what they are to the posts: of the handler, of the two    *)
(* goroutines of a post, of those of the webhooks, or of none of them.     *)
Elsewhere ==
  \/ Cause \/ BrokerFault \/ BrokerReturns \/ LossIsNoticed \/ Expire \/ WriteRow
  \/ \E p \in Publisher : RabbitWorks(p)

LEMMA StepIs ==
  ASSUME Shape, Next
  PROVE  \/ Handler \/ Posting \/ Elsewhere
         \/ \E n \in 1..Len(posts) : CallSteps(<<n, "call">>)
         \/ \E n \in 1..Len(posts) : SendToGlobalQueues(<<n, "global">>)
<1>1. DOMAIN posts = 1..Len(posts)
  BY DEF Shape, PostsShape
<1>2. CASE Lanes
  <2>1. PICK n \in 1..Len(posts) :
          \/ CallWebhook(<<n, "call">>) \/ SendToGlobalQueues(<<n, "global">>)
          \/ RabbitWorks(<<n, "call">>) \/ RabbitWorks(<<n, "global">>)
    BY <1>1, <1>2 DEF Lanes
  <2>2. <<n, "call">> \in Publisher /\ <<n, "global">> \in Publisher
    BY PostsHaveLanes
  <2> QED BY <2>1, <2>2 DEF Elsewhere, CallSteps
<1>3. CASE Hanging
  BY <1>1, <1>3 DEF Hanging, Posting, CallSteps
<1> QED BY <1>2, <1>3 DEF Next, Elsewhere, Posting

LEMMA ElsewhereKeeps ==
  ASSUME Elsewhere
  PROVE  UNCHANGED <<setting, handled, posts, lane, result, http, cache>>
BY DEF Elsewhere, Cause, BrokerFault, BrokerReturns, LossIsNoticed, Expire,
   WriteRow, RabbitWorks, eventVars

LEMMA CallKeepsShape ==
  ASSUME Shape, SinksInOrder, NEW n \in 1..Len(posts), CallSteps(<<n, "call">>)
  PROVE  Shape'
<1>1. lane[<<n, "call">>].pc = "rabbitWait" => SinkIsOn("rabbit")
  BY PostsHaveLanes DEF SinksInOrder, Ordered
<1> QED BY <1>1, LooksUpKeepsShape, ServesKeepsShape, WaitsKeepsShape, ServesOrLooksUp

Sound == Shape /\ SinksInOrder

LEMMA StepKeepsSound == Sound /\ [Next]_vars => Sound'
<1> SUFFICES ASSUME Shape, SinksInOrder, [Next]_vars
             PROVE  Shape' /\ SinksInOrder'
  BY DEF Sound
<1>1. ASSUME UNCHANGED <<setting, posts, result, lane>>
      PROVE  SinksInOrder'
  BY <1>1, OrderedStays DEF SinksInOrder
<1>2. CASE UNCHANGED vars
  <2>1. UNCHANGED eventVars
    BY <1>2 DEF vars
  <2> QED
    BY <1>1, <2>1 DEF eventVars, Shape, ServerShape, PostsShape, LanesShape,
       CacheShape, HttpShape, ResultShape, RowsShape, stream, HasGlobal, conf
<1>3. CASE Handler
  BY <1>3, HandlerKeepsShape, HandlerKeepsOrder
<1>4. CASE Posting
  BY <1>1, <1>4, HttpKeepsShape
<1>5. CASE Elsewhere
  BY <1>1, <1>5, ElsewhereKeeps, OutsideKeepsShape DEF Elsewhere
<1>6. ASSUME NEW n \in 1..Len(posts), CallSteps(<<n, "call">>)
      PROVE  Shape' /\ SinksInOrder'
  BY <1>6, CallKeepsShape, CallKeepsOrder
<1>7. ASSUME NEW n \in 1..Len(posts), SendToGlobalQueues(<<n, "global">>)
      PROVE  Shape' /\ SinksInOrder'
  <2>1. /\ Shape' /\ UNCHANGED <<setting, posts, result>>
        /\ \A q \in Publisher : q # <<n, "global">> => lane'[q] = lane[q]
    BY <1>7, GlobalsKeepShape
  <2>2. \A m \in Post :
          <<m, "call">> \in Publisher /\ <<m, "call">> # <<n, "global">>
    BY LanesOfPosts
  <2>3. \A m \in Post : lane'[<<m, "call">>].pc = lane[<<m, "call">>].pc
    BY <2>1, <2>2
  <2> QED BY <2>1, <2>3, OrderedStays DEF SinksInOrder
<1> QED BY <1>2, <1>3, <1>4, <1>5, <1>6, <1>7, StepIs

LEMMA SpecIsSound == Spec => []Sound
<1>1. Init => Sound
  <2> SUFFICES ASSUME Init
               PROVE  Shape /\ SinksInOrder
    BY DEF Sound
  <2>1. Shape
    BY InitShape
  <2> SUFFICES ASSUME NEW n \in Post
               PROVE  Ordered(n)
    BY <2>1 DEF SinksInOrder
  <2>2. lane[<<n, "call">>].pc = "none"
    BY LanesOfPosts DEF Init, NoLane
  <2>3. Untouched(n)
    BY SinkNamesAre DEF Init, Untouched, NotYet, SinkNames
  <2> QED BY <2>2, <2>3 DEF Ordered
<1> QED BY <1>1, StepKeepsSound, PTL DEF Spec

(* The state always has its shape, and no lane, row or POST is of a post   *)
(* or of an event that is not there (whatsmeow.go:2175).                   *)
THEOREM DeliveryTypeCorrect == Spec => []TypeOK
<1>1. Spec => []RabbitTypeOK
  BY ProducerIsImplemented, RabbitTypeCorrect, PTL
<1>2. Sound /\ RabbitTypeOK => TypeOK
  <2> SUFFICES ASSUME Shape, RabbitTypeOK
               PROVE  TypeOK
    BY DEF Sound
  <2>1. handled \in 0..caused /\ caused \in 0..Len(stream)
    BY StreamShape DEF Shape, ServerShape
  <2>2. /\ Len(posts) <= MaxPosts
        /\ \A n \in DOMAIN posts :
             posts[n].type \in Types /\ posts[n].event \in 1..handled
    <3>1. DOMAIN posts = 1..Len(posts) /\ \A n \in 1..Len(posts) : posts[n] \in PostState
      BY DEF Shape, PostsShape
    <3> QED BY <3>1 DEF Shape, PostsShape, PostState
  <2>3. ASSUME NEW p \in Publisher
        PROVE  (lane[p].pc = "none") = (p[1] > Len(posts) \/
                 (p[2] = "global" /\ ~conf.amqpGlobal /\ ~conf.natsGlobal))
    <3>1. PICK n \in Post : p = <<n, "call">> \/ p = <<n, "global">>
      BY LanesOfPosts
    <3>2. /\ (lane[<<n, "call">>].pc = "none") = (n > Len(posts))
          /\ (lane[<<n, "global">>].pc = "none") = (n > Len(posts) \/ ~HasGlobal)
      BY DEF Shape, LanesShape
    <3>3. CASE p = <<n, "call">>
      BY <3>2, <3>3
    <3>4. CASE p = <<n, "global">>
      BY <3>2, <3>4 DEF HasGlobal
    <3> QED BY <3>1, <3>3, <3>4
  <2>4. \A h \in http : h.tries \in 0..maxTries /\ h.got \in 0..h.tries
    BY DEF Shape, HttpShape, maxTries
  <2>5. \A w \in row \cup pending : w.at \in 1..handled
    BY DEF Shape, RowsShape
  <2> QED BY <2>1, <2>2, <2>3, <2>4, <2>5 DEF TypeOK
<1> QED BY <1>1, <1>2, SpecIsSound, PTL

------------------------------------------------------------------------------
(* What the sinks have answered.  As long as nothing has failed, the       *)
(* connection of the producer is open and its calls never fail.            *)
Steady ==
  /\ up /\ dying = {}
  /\ \A p \in Publisher :
       /\ pub[p].pc \notin {"reensure", "redial", "reopen"}
       /\ pub[p].pc \in {"declare", "publish"} => pub[p].chan \in alive
       /\ pub[p].pc = "open" => conn \in alive
       /\ pub[p].pc = "error" => ~configured
       /\ ~pub[p].reopened /\ pub[p].written # "lost"

LEMMA MoveIsSteady ==
  ASSUME RabbitInv, Steady, NEW p \in Publisher, NEW r, Moves(p, r),
         r.pc \notin {"reensure", "redial", "reopen"},
         r.pc \in {"declare", "publish"} => r.chan \in alive,
         r.pc = "open" => conn \in alive,
         r.pc = "error" => ~configured,
         ~r.reopened, r.written # "lost"
  PROVE  Steady'
<1>1. /\ UNCHANGED <<conn, alive, dying, up, configured>>
      /\ \A q \in Publisher : pub'[q] = IF q = p THEN r ELSE pub[q]
  BY DEF Moves, RabbitInv, RabbitTypeOK
<1> QED BY <1>1 DEF Steady

LEMMA CallIsSteady ==
  ASSUME RabbitInv, Steady, NEW p \in Publisher,
         (\E enable \in Enables : Produce(p, enable)) \/ Returns(p) \/ Publishing(p)
  PROVE  Steady'
<1> DEFINE s == pub[p]
<1>1. /\ s \in PublisherState /\ ~s.reopened /\ s.written # "lost"
      /\ s.pc \notin {"reensure", "redial", "reopen"}
      /\ s.pc \in {"declare", "publish"} => s.chan \in alive
      /\ s.pc = "open" => conn \in alive
      /\ up /\ dying = {} /\ alive \subseteq Conn
  BY DEF Steady, RabbitInv, RabbitTypeOK
<1>2. CASE \E enable \in Enables : Produce(p, enable)
  <2>1. PICK enable \in Enables :
          Moves(p, [Idle EXCEPT !.enable = enable,
                                !.pc = IF configured THEN "ensure" ELSE "error"])
    BY <1>2 DEF Produce
  <2> DEFINE r == [Idle EXCEPT !.enable = enable,
                               !.pc = IF configured THEN "ensure" ELSE "error"]
  <2>2. /\ ~r.reopened /\ r.written = "nothing"
        /\ r.pc = "ensure" \/ (r.pc = "error" /\ ~configured)
    BY DEF Idle
  <2>3. Moves(p, r)
    BY <2>1
  <2> HIDE DEF r
  <2> QED BY <2>2, <2>3, MoveIsSteady
<1>3. CASE Returns(p)
  BY <1>3, MoveIsSteady DEF Returns, Idle
<1>4. ASSUME NEW pc, Goes(p, pc), pc \in {"open", "dial", "ok"},
             pc = "open" => conn \in alive
      PROVE  Steady'
  <2> DEFINE r == [s EXCEPT !.pc = pc]
  <2>1. r.pc = pc /\ ~r.reopened /\ r.written # "lost"
    BY <1>1 DEF PublisherState
  <2> HIDE DEF r
  <2> QED BY <1>4, <2>1, MoveIsSteady DEF r, Goes
<1>5. CASE Ensure(p)
  <2>1. s.pc = "ensure"
    BY <1>1, <1>5 DEF Ensure, AtPub
  <2>2. CASE conn \in alive
    BY <1>4, <1>5, <2>1, <2>2 DEF Ensure
  <2>3. CASE conn \notin alive
    <3>1. Moves(p, [s EXCEPT !.pc = "dial", !.dials = 0])
      BY <1>5, <2>1, <2>3 DEF Ensure
    <3> DEFINE r == [s EXCEPT !.pc = "dial", !.dials = 0]
    <3>2. r.pc = "dial" /\ ~r.reopened /\ r.written # "lost"
      BY <1>1 DEF PublisherState
    <3> HIDE DEF r
    <3> QED BY <3>1, <3>2, MoveIsSteady DEF r
  <2> QED BY <2>2, <2>3
<1>6. CASE DialSucceeds(p)
  <2>1. s.pc = "dial"
    BY <1>1, <1>6 DEF DialSucceeds, AtPub
  <2>2. PICK c : conn' = c /\ alive' = alive \cup {c}
    BY <1>6 DEF DialSucceeds
  <2>3. Dialled(p, [s EXCEPT !.pc = "open"]) /\ UNCHANGED <<dying, up, configured>>
    BY <1>6, <2>1 DEF DialSucceeds
  <2> DEFINE r == [s EXCEPT !.pc = "open"]
  <2>4. r.pc = "open" /\ ~r.reopened /\ r.written # "lost"
    BY <1>1 DEF PublisherState
  <2> HIDE DEF r
  <2>5. \A q \in Publisher :
          \/ pub'[q] = r
          \/ pub'[q] = pub[q]
          \/ pub'[q] = [pub[q] EXCEPT !.shared = TRUE]
    BY <2>3 DEF Dialled, r
  <2>6. ASSUME NEW q \in Publisher
        PROVE  /\ pub'[q].pc \notin {"reensure", "redial", "reopen"}
               /\ pub'[q].pc \in {"declare", "publish"} => pub'[q].chan \in alive'
               /\ pub'[q].pc = "open" => conn' \in alive'
               /\ pub'[q].pc = "error" => ~configured'
               /\ ~pub'[q].reopened /\ pub'[q].written # "lost"
    <3>1. /\ pub[q].pc \notin {"reensure", "redial", "reopen"}
          /\ pub[q].pc \in {"declare", "publish"} => pub[q].chan \in alive
          /\ pub[q].pc = "error" => ~configured
          /\ ~pub[q].reopened /\ pub[q].written # "lost" /\ pub[q] \in PublisherState
      BY DEF Steady, RabbitInv, RabbitTypeOK
    <3>2. CASE pub'[q] = r
      BY <2>2, <2>4, <3>2
    <3>3. CASE pub'[q] = pub[q]
      BY <2>2, <2>3, <3>1, <3>3
    <3>4. CASE pub'[q] = [pub[q] EXCEPT !.shared = TRUE]
      <4>1. /\ pub'[q].pc = pub[q].pc /\ pub'[q].chan = pub[q].chan
            /\ pub'[q].reopened = pub[q].reopened /\ pub'[q].written = pub[q].written
        BY <3>1, <3>4 DEF PublisherState
      <4> QED BY <2>2, <2>3, <3>1, <4>1
    <3> QED BY <2>5, <3>2, <3>3, <3>4
  <2> QED BY <1>1, <2>3, <2>6 DEF Steady
<1>7. CASE DialFails(p)
  BY <1>1, <1>7 DEF DialFails
<1>8. CASE Open(p)
  <2>1. s.pc = "open" /\ conn \in alive /\ conn # NoConn
    BY <1>1, <1>8, ConnAssumption DEF Open, AtPub
  <2>2. Moves(p, [s EXCEPT !.pc = "declare", !.chan = conn])
    BY <1>8, <2>1 DEF Open
  <2> DEFINE r == [s EXCEPT !.pc = "declare", !.chan = conn]
  <2>3. r.pc = "declare" /\ r.chan = conn /\ ~r.reopened /\ r.written # "lost"
    BY <1>1 DEF PublisherState
  <2> HIDE DEF r
  <2> QED BY <2>1, <2>2, <2>3, MoveIsSteady DEF r
<1>9. CASE Declare(p)
  <2>1. s.pc = "declare" /\ s.chan \in alive
    BY <1>1, <1>9 DEF Declare, AtPub
  <2>2. Goes(p, "ok") \/ Moves(p, [s EXCEPT !.pc = "publish", !.attempt = 1])
    BY <1>9, <2>1 DEF Declare
  <2> DEFINE r == [s EXCEPT !.pc = "publish", !.attempt = 1]
  <2>3. r.pc = "publish" /\ r.chan = s.chan /\ ~r.reopened /\ r.written # "lost"
    BY <1>1 DEF PublisherState
  <2> HIDE DEF r
  <2>4. Moves(p, r) => Steady'
    BY <2>1, <2>3, MoveIsSteady
  <2> QED BY <1>4, <2>2, <2>4 DEF r
<1>10. CASE Publish(p)
  <2>1. Moves(p, [s EXCEPT !.pc = "ok", !.written = "broker"])
    BY <1>1, <1>10 DEF Publish
  <2> DEFINE r == [s EXCEPT !.pc = "ok", !.written = "broker"]
  <2>2. r.pc = "ok" /\ r.written = "broker" /\ ~r.reopened
    BY <1>1 DEF PublisherState
  <2> HIDE DEF r
  <2> QED BY <2>1, <2>2, MoveIsSteady DEF r
<1>11. CASE PublishPanics(p) \/ PublishFails(p) \/ Reopen(p)
  BY <1>1, <1>11, ConnAssumption DEF PublishPanics, PublishFails, Reopen, AtPub
<1> QED
  BY <1>2, <1>3, <1>5, <1>6, <1>7, <1>8, <1>9, <1>10, <1>11 DEF Publishing

LEMMA CalmIsSteady ==
  ASSUME RabbitInv, Steady, Calm \/ UNCHANGED rabbitVars
  PROVE  Steady'
<1>1. CASE UNCHANGED rabbitVars
  BY <1>1 DEF rabbitVars, Steady
<1>2. CASE BrokerStarts \/ \E c \in Conn : Notices(c)
  BY <1>2 DEF BrokerStarts, Notices, Steady
<1>3. ASSUME NEW p \in Publisher, CallsProducer(p) \/ Publishing(p)
      PROVE  Steady'
  BY <1>1, <1>3, CallIsSteady DEF CallsProducer
<1> QED BY <1>1, <1>2, <1>3 DEF Calm

(* A call of the producer keeps the enable it was called with.             *)
LEMMA EnableStays ==
  ASSUME RabbitInv, NEW p \in Publisher, NEW q \in Publisher,
         \/ Publishing(q)
         \/ p # q /\ CallsProducer(q)
         \/ Broker
         \/ UNCHANGED rabbitVars
  PROVE  pub'[p].enable = pub[p].enable
<1>1. pub \in [Publisher -> PublisherState] /\ pub[p] \in PublisherState
      /\ pub[q] \in PublisherState
  BY DEF RabbitInv, RabbitTypeOK
<1>2. ASSUME NEW r, Moves(q, r), p = q => r.enable = pub[q].enable
      PROVE  pub'[p].enable = pub[p].enable
  BY <1>1, <1>2 DEF Moves
<1>3. ASSUME NEW r, Dialled(q, r), r.enable = pub[q].enable
      PROVE  pub'[p].enable = pub[p].enable
  <2>1. \/ p = q /\ pub'[p] = r
        \/ pub'[p] = pub[p]
        \/ pub'[p] = [pub[p] EXCEPT !.shared = TRUE]
    BY <1>3 DEF Dialled
  <2> QED BY <1>1, <1>3, <2>1 DEF PublisherState
<1>4. CASE UNCHANGED rabbitVars \/ Broker
  BY <1>4 DEF rabbitVars, Broker, LoseConnection, Notices, BrokerStops, BrokerStarts
<1>5. CASE p # q /\ CallsProducer(q)
  BY <1>2, <1>4, <1>5 DEF CallsProducer, Produce, Returns
<1>6. ASSUME NEW r \in PublisherState, NEW failed
      PROVE  AfterAttempt(r, failed).enable = r.enable
  BY <1>6 DEF AfterAttempt, PublisherState
<1>7. CASE Ensure(q) \/ Open(q) \/ Declare(q) \/ Publish(q) \/ PublishPanics(q)
  <2>1. ASSUME NEW pc, Goes(q, pc)
        PROVE  pub'[p].enable = pub[p].enable
    <3>1. [pub[q] EXCEPT !.pc = pc].enable = pub[q].enable
      BY <1>1 DEF PublisherState
    <3> QED BY <1>2, <2>1, <3>1 DEF Goes
  <2>2. CASE Ensure(q)
    <3>1. ASSUME NEW pc, Moves(q, [pub[q] EXCEPT !.pc = pc, !.dials = 0])
          PROVE  pub'[p].enable = pub[p].enable
      <4>1. [pub[q] EXCEPT !.pc = pc, !.dials = 0].enable = pub[q].enable
        BY <1>1 DEF PublisherState
      <4> QED BY <1>2, <3>1, <4>1
    <3> QED BY <2>1, <2>2, <3>1 DEF Ensure
  <2>3. CASE Open(q)
    <3> DEFINE r == [pub[q] EXCEPT !.pc = "declare", !.chan = conn]
    <3>1. r.enable = pub[q].enable
      BY <1>1 DEF PublisherState
    <3>2. (\E pc : Goes(q, pc)) \/ Moves(q, r)
      BY <2>3 DEF Open
    <3> HIDE DEF r
    <3> QED BY <1>2, <2>1, <3>1, <3>2
  <2>4. CASE Declare(q)
    <3> DEFINE r == [pub[q] EXCEPT !.pc = "publish", !.attempt = 1]
    <3>1. r.enable = pub[q].enable
      BY <1>1 DEF PublisherState
    <3>2. (\E pc : Goes(q, pc)) \/ Moves(q, r)
      BY <2>4 DEF Declare
    <3> HIDE DEF r
    <3> QED BY <1>2, <2>1, <3>1, <3>2
  <2>5. CASE Publish(q)
    <3> DEFINE w == IF pub[q].chan \in dying THEN "lost" ELSE "broker"
               r == [pub[q] EXCEPT !.pc = "ok", !.written = w]
    <3>1. r.enable = pub[q].enable
      BY <1>1 DEF PublisherState
    <3>2. Moves(q, r)
      BY <2>5 DEF Publish
    <3> HIDE DEF r
    <3> QED BY <1>2, <3>1, <3>2
  <2>6. CASE PublishPanics(q)
    BY <2>1, <2>6 DEF PublishPanics
  <2> QED BY <1>7, <2>2, <2>3, <2>4, <2>5, <2>6
<1>8. CASE DialSucceeds(q) \/ DialFails(q)
  <2>1. CASE DialSucceeds(q)
    <3>1. PICK pc : Dialled(q, [pub[q] EXCEPT !.pc = pc])
      BY <2>1 DEF DialSucceeds
    <3>2. [pub[q] EXCEPT !.pc = pc].enable = pub[q].enable
      BY <1>1 DEF PublisherState
    <3> QED BY <1>3, <3>1, <3>2
  <2>2. CASE DialFails(q)
    <3> DEFINE t == [pub[q] EXCEPT !.dials = pub[q].dials + 1]
    <3>1. \/ Dialled(q, t) \/ Dialled(q, [t EXCEPT !.pc = "error"])
          \/ Dialled(q, AfterAttempt(t, TRUE))
      BY <2>2 DEF DialFails
    <3>2. t.enable = pub[q].enable /\ [t EXCEPT !.pc = "error"].enable = pub[q].enable
      BY <1>1 DEF PublisherState
    <3>3. AfterAttempt(t, TRUE).enable = pub[q].enable
      BY <1>1 DEF AfterAttempt, PublisherState
    <3> HIDE DEF t
    <3> QED BY <1>3, <3>1, <3>2, <3>3
  <2> QED BY <1>8, <2>1, <2>2
<1>9. CASE PublishFails(q)
  <2>1. Goes(q, "reensure") \/ Moves(q, AfterAttempt(pub[q], TRUE))
    BY <1>9 DEF PublishFails
  <2>2. [pub[q] EXCEPT !.pc = "reensure"].enable = pub[q].enable
    BY <1>1 DEF PublisherState
  <2> QED BY <1>1, <1>2, <1>6, <2>1, <2>2 DEF Goes
<1>10. CASE Reopen(q)
  <2> DEFINE n == [pub[q] EXCEPT !.chan = NoConn]
             m == [pub[q] EXCEPT !.chan = conn,
                                 !.reopened = (pub[q].attempt = maxRetries)]
  <2>1. \/ Goes(q, "panic") \/ Moves(q, AfterAttempt(n, TRUE))
        \/ Moves(q, AfterAttempt(m, FALSE))
    BY <1>10 DEF Reopen
  <2>2. [pub[q] EXCEPT !.pc = "panic"].enable = pub[q].enable
    BY <1>1 DEF PublisherState
  <2>3. n \in PublisherState /\ n.enable = pub[q].enable
    BY <1>1 DEF PublisherState
  <2>4. m \in PublisherState /\ m.enable = pub[q].enable
    BY <1>1 DEF PublisherState, RabbitInv, RabbitTypeOK
  <2> HIDE DEF n, m
  <2> QED BY <1>2, <1>6, <2>1, <2>2, <2>3, <2>4 DEF Goes
<1> QED BY <1>4, <1>5, <1>7, <1>8, <1>9, <1>10 DEF Publishing

(* Nothing has failed before a step after which nothing has.               *)
LEMMA FaultsAreKept ==
  ASSUME Shape, [Next]_vars
  PROVE  /\ UNCHANGED setting
         /\ NothingFailed' => NothingFailed /\ ~BrokerFault
<1>1. UNCHANGED setting /\ (UNCHANGED faults \/ Fault)
  <2>1. CASE Handler
    BY <2>1, HandlerMakes
  <2>2. CASE Posting
    BY <2>2 DEF Posting, Http, Delivered, NotDelivered, PostHangs, PostResumes,
       HttpBecomes
  <2>3. CASE Elsewhere
    BY <2>3 DEF Elsewhere, Cause, BrokerFault, BrokerReturns, LossIsNoticed, Expire,
       WriteRow, RabbitWorks, eventVars
  <2>4. ASSUME NEW n \in 1..Len(posts), CallSteps(<<n, "call">>)
        PROVE  UNCHANGED setting /\ (UNCHANGED faults \/ Fault)
    <3>1. UNCHANGED setting
      BY <2>4, CallIsLaneOnly DEF LaneOnly
    <3> QED
      BY <2>4, <3>1 DEF CallSteps, CallWebhook, Dispatch, Match, Matched, Invalidate,
         LookUp, Resolve, ResolveFails, Store, ToRabbit, RabbitAnswers, ToNatsServer,
         ToWebsocket, Sink, PassedOver, CastEnds, WriteEnds, WriteHangs, WriteResumes,
         WaitsForLock, GetsLock, ToHook
  <2>5. ASSUME NEW n \in 1..Len(posts), SendToGlobalQueues(<<n, "global">>)
        PROVE  UNCHANGED setting /\ (UNCHANGED faults \/ Fault)
    BY <2>5, GlobalsKeepShape
  <2>6. CASE UNCHANGED vars
    BY <2>6 DEF vars, eventVars
  <2> QED BY <2>1, <2>2, <2>3, <2>4, <2>5, <2>6, StepIs
<1>2. BrokerFault => Fault
  BY DEF BrokerFault
<1> QED BY <1>1, <1>2 DEF Fault, NothingFailed, Shape, ServerShape

WaitsForOwn ==
  \A n \in Post : lane[<<n, "call">>].pc = "rabbitWait" =>
    pub[<<n, "call">>].enable = inst.rabbit

CallsAreSteady ==
  /\ NothingFailed => Steady
  /\ configured = conf.amqpUrl
  /\ WaitsForOwn

LEMMA StepKeepsWaits ==
  ASSUME Sound, RabbitInv, WaitsForOwn, [Next]_vars, NEW n \in Post,
         lane'[<<n, "call">>].pc = "rabbitWait"
  PROVE  pub'[<<n, "call">>].enable = inst'.rabbit
<1> DEFINE p == <<n, "call">>
<1>1. /\ p \in Publisher /\ lane \in [Publisher -> LaneState] /\ Shape /\ Ordered(n)
      /\ "rabbitWait" \notin NotInvalidated
  BY LanesOfPosts, ProgramPcs DEF Sound, SinksInOrder, Shape, LanesShape
<1>2. UNCHANGED setting /\ inst' = inst
  BY <1>1, FaultsAreKept DEF inst
<1>3. ASSUME lane[p].pc = "rabbitWait", pub'[p].enable = pub[p].enable
      PROVE  pub'[p].enable = inst'.rabbit
  BY <1>2, <1>3 DEF WaitsForOwn
<1>4. CASE UNCHANGED vars \/ Posting \/ Elsewhere
  <2>1. lane' = lane
    BY <1>4, HttpKeepsShape, ElsewhereKeeps, <1>1 DEF vars, eventVars
  <2>2. UNCHANGED rabbitVars \/ Broker \/ \E q \in Publisher : Publishing(q)
    BY <1>4 DEF vars, Posting, Http, Delivered, NotDelivered, PostHangs, PostResumes,
       HttpBecomes, Elsewhere, Cause, BrokerFault, BrokerReturns, LossIsNoticed, Expire,
       WriteRow, RabbitWorks, Broker
  <2> QED BY <1>1, <1>3, <2>1, <2>2, EnableStays
<1>5. CASE Handler
  <2>1. Grows /\ UNCHANGED rabbitVars
    BY <1>1, <1>5, HandlerMakes, EmitGrows
  <2>2. IsNew(n) => lane'[p] = [NoLane EXCEPT !.pc = "dispatch"]
    BY <2>1 DEF Grows, IsNew
  <2>3. ~IsNew(n)
    BY <2>2 DEF NoLane
  <2>4. lane'[p] = lane[p]
    BY <1>1, <2>1, <2>3 DEF Grows
  <2> QED BY <1>1, <1>3, <2>1, <2>4, EnableStays
<1>6. ASSUME NEW m \in 1..Len(posts), SendToGlobalQueues(<<m, "global">>)
      PROVE  pub'[p].enable = inst'.rabbit
  <2>1. lane'[p] = lane[p] /\ p # <<m, "global">> /\ <<m, "global">> \in Publisher
    BY <1>1, <1>6, GlobalsKeepShape, PostsHaveLanes
  <2>2. CallsProducer(<<m, "global">>)
    BY <1>6, GlobalQueuesSteps
  <2> QED BY <1>1, <1>3, <2>1, <2>2, EnableStays
<1>7. ASSUME NEW m \in 1..Len(posts), m # n, CallSteps(<<m, "call">>)
      PROVE  pub'[p].enable = inst'.rabbit
  <2>1. lane'[p].pc = lane[p].pc
    BY <1>1, <1>7, CallLeavesOthers
  <2>2. p # <<m, "call">> /\ <<m, "call">> \in Publisher /\ CallsProducer(<<m, "call">>)
    BY <1>1, <1>7, CallWebhookSteps, PostsHaveLanes
  <2> QED BY <1>1, <1>3, <2>1, <2>2, EnableStays
<1>8. ASSUME n \in 1..Len(posts), CallSteps(p)
      PROVE  pub'[p].enable = inst'.rabbit
  <2>1. CASE LooksUp(p)
    <3>1. PICK r : LookedUp(p, r)
      BY <1>1, <1>8, <2>1, LooksUpIsLookedUp
    <3>2. lane'[p].pc \in NotInvalidated
      BY <1>1, <3>1 DEF LookedUp, Becomes
    <3> QED BY <1>1, <3>2
  <2>2. CASE Waits(p)
    <3>1. lane'[p].pc = lane[p].pc /\ UNCHANGED rabbitVars
      BY <1>1, <1>8, <2>2, WaitingIs DEF Becomes
    <3> QED BY <1>1, <1>3, <3>1, EnableStays
  <2>3. CASE Invalidate(p)
    <3> DEFINE to == IF Wanted(PostIn(p)) THEN "rabbit" ELSE "done"
    <3>1. lane'[p] = [lane[p] EXCEPT !.pc = to]
      BY <1>1, <2>3 DEF Invalidate, Goto, Becomes
    <3>2. lane'[p].pc = to /\ to # "rabbitWait"
      BY <1>1, <3>1 DEF LaneState
    <3> QED BY <3>2
  <2>4. CASE ToRabbit(p) /\ On(inst.rabbit)
    <3>1. Moves(p, [Idle EXCEPT !.enable = inst.rabbit,
                                !.pc = IF configured THEN "ensure" ELSE "error"])
      BY <2>4 DEF ToRabbit, Produce
    <3>2. pub'[p] = [Idle EXCEPT !.enable = inst.rabbit,
                                 !.pc = IF configured THEN "ensure" ELSE "error"]
      BY <1>1, <3>1 DEF Moves, RabbitInv, RabbitTypeOK
    <3> QED BY <1>2, <3>2 DEF Idle
  <2>5. ASSUME NEW s, NEW next \in {"nats", "ws", "hook", "done"}, SinkStep(p, s, next)
        PROVE  FALSE
    BY <1>1, <2>5 DEF SinkStep, LeavesTo, Becomes
  <2>6. CASE Serves(p) /\ ~Invalidate(p) /\ ~(ToRabbit(p) /\ On(inst.rabbit))
    <3>1. RabbitAnswers(p) => SinkIsOn("rabbit")
      BY <1>1 DEF RabbitAnswers, At, Ordered
    <3> QED BY <1>1, <1>8, <2>5, <2>6, <3>1, SinkSteps DEF Serves
  <2> QED BY <1>8, <2>1, <2>2, <2>3, <2>4, <2>6, ServesOrLooksUp
<1> QED BY <1>1, <1>4, <1>5, <1>6, <1>7, <1>8, StepIs

LEMMA CallsAreAlwaysSteady == Spec => []CallsAreSteady
<1>1. Init => CallsAreSteady
  <2> SUFFICES ASSUME Init
               PROVE  CallsAreSteady
    OBVIOUS
  <2>1. \A p \in Publisher : lane[p] = NoLane /\ pub[p] = Idle
    BY DEF Init, RabbitInit
  <2>2. Steady
    BY <2>1 DEF Init, RabbitInit, Steady, Idle
  <2>3. WaitsForOwn
    <3>1. \A n \in Post : lane[<<n, "call">>] = NoLane
      BY <2>1, LanesOfPosts
    <3>2. NoLane.pc # "rabbitWait"
      BY DEF NoLane
    <3> QED BY <3>1, <3>2 DEF WaitsForOwn
  <2> QED BY <2>2, <2>3 DEF Init, CallsAreSteady
<1>2. Sound /\ RabbitInv /\ PostsKept /\ CallsAreSteady /\ [Next]_vars => CallsAreSteady'
  <2> SUFFICES ASSUME Sound, Shape, RabbitInv, PostsKept, CallsAreSteady, [Next]_vars
               PROVE  CallsAreSteady'
    BY DEF Sound
  <2>1. UNCHANGED setting /\ (NothingFailed' => NothingFailed /\ ~BrokerFault)
    BY FaultsAreKept
  <2>2. UNCHANGED rabbitVars \/ Calm \/ BrokerFault
    BY StepIsCalm
  <2>3. NothingFailed' => Steady'
    BY <2>1, <2>2, CalmIsSteady DEF CallsAreSteady
  <2>4. configured' = configured
    BY StepIsRabbitStep DEF rabbitVars, RabbitNext, Broker, LoseConnection, Notices,
       BrokerStops, BrokerStarts, Produce, Publishing, Ensure, DialSucceeds, DialFails,
       Open, Declare, Publish, PublishPanics, PublishFails, Reopen, Returns, Goes, Moves
  <2>5. WaitsForOwn'
    BY StepKeepsWaits DEF CallsAreSteady, WaitsForOwn
  <2> QED BY <2>1, <2>3, <2>4, <2>5 DEF CallsAreSteady, conf
<1>3. Spec => []PostsKept
  <2>1. Init => PostsKept
    <3>1. posts = <<>> => posts \in Seq({})
      OBVIOUS
    <3> QED BY <3>1, PostsAssumption DEF Init, PostsKept
  <2>2. PostsKept /\ [Next]_vars => PostsKept'
    BY StepIsCalm
  <2> QED BY <2>1, <2>2, PTL DEF Spec
<1> QED BY <1>1, <1>2, <1>3, SpecIsSound, ProducerIsImplemented, RabbitInvHolds, PTL DEF Spec

(* What has become of a post at a sink is true of it.                      *)
RightAt(s, post, o) ==
  /\ o = "sent" => Publishes(s, post)
  /\ o = "dropped" => ~Publishes(s, post) \/ (s = "rabbit" /\ ~NothingFailed)
  /\ o = "failed" => ~NothingFailed \/ (s = "rabbit" /\ ~conf.amqpUrl)

AnswersAreRight ==
  \A n \in 1..Len(posts) : \A s \in SinkNames : RightAt(s, posts[n], result[n][s])

LEMMA CallIsRight ==
  ASSUME Sound, RabbitInv, CallsAreSteady, NEW n \in 1..Len(posts), NEW p,
         p = <<n, "call">>, CallSteps(p), UNCHANGED setting,
         NothingFailed' => NothingFailed
  PROVE  \/ result' = result
         \/ \E s \in SinkNames, o \in Outcomes :
              Outcome(p, s, o) /\ RightAt(s, posts[n], o)'
<1>1. /\ p \in Publisher /\ n \in Post /\ Shape /\ Ordered(n)
      /\ faults \in Nat /\ setting.faults \in Nat /\ faults <= setting.faults
      /\ UNCHANGED <<setting, posts>> /\ inst' = inst /\ conf' = conf
  BY PostsHaveLanes, CallIsLaneOnly DEF Sound, SinksInOrder, Shape, ServerShape, LaneOnly,
     inst, conf
<1>2. Fault => ~NothingFailed'
  BY <1>1 DEF Fault, NothingFailed
<1>3. {"rabbit", "nats", "ws", "hook"} = SinkNames
  BY DEF SinkNames
<1>4. CASE LooksUp(p)
  BY <1>1, <1>4, LooksUpIsLookedUp DEF LookedUp
<1>5. CASE Waits(p)
  BY <1>1, <1>5, WaitingIs
<1>6. CASE Invalidate(p) \/ ToRabbit(p) \/ PassesWs(p)
  BY <1>6 DEF Invalidate, ToRabbit, PassesWs, PassedOver
<1>7. CASE RabbitAnswers(p)
  <2> DEFINE r == pub[p]
  <2>1. r.enable = inst.rabbit
    BY <1>1, <1>7 DEF RabbitAnswers, At, CallsAreSteady, WaitsForOwn
  <2>2. CASE r.pc = "ok"
    <3>1. Outcome(p, "rabbit", IF r.written = "broker" THEN "sent" ELSE "dropped")
      BY <1>7, <2>2 DEF RabbitAnswers
    <3>2. /\ r.written = "nothing" <=> r.enable \notin Honoured \/ r.reopened
          /\ r.written \in {"nothing", "lost", "broker"}
      BY <1>1, <2>2, CallFacts DEF RabbitInv, AnswerIsTruthful, AtPub, RabbitTypeOK,
         PublisherState
    <3>3. NothingFailed' => ~r.reopened /\ r.written # "lost"
      BY <1>1 DEF CallsAreSteady, Steady
    <3>4. r.written = "broker" => RightAt("rabbit", posts[n], "sent")'
      BY <1>1, <2>1, <3>2 DEF RightAt, Publishes
    <3>5. r.written # "broker" => RightAt("rabbit", posts[n], "dropped")'
      BY <1>1, <2>1, <3>2, <3>3 DEF RightAt, Publishes
    <3> QED BY <1>3, <3>1, <3>4, <3>5 DEF Outcomes
  <2>3. CASE r.pc # "ok"
    <3>1. Outcome(p, "rabbit", "failed") /\ r.pc = "error"
      BY <1>7, <2>3 DEF RabbitAnswers, Returns, AtPub
    <3>2. NothingFailed' => ~conf.amqpUrl
      BY <1>1, <3>1 DEF CallsAreSteady, Steady
    <3>3. RightAt("rabbit", posts[n], "failed")'
      BY <1>1, <3>2 DEF RightAt
    <3> QED BY <1>3, <3>1, <3>3 DEF Outcomes
  <2> QED BY <2>2, <2>3
<1>8. ASSUME NEW s \in SinkNames, NEW publishes, NEW next, Sink(p, s, publishes, next),
             publishes <=> Publishes(s, posts[n])
      PROVE  \E o \in Outcomes : Outcome(p, s, o) /\ RightAt(s, posts[n], o)'
  <2>1. Publishes(s, posts[n])' <=> Publishes(s, posts[n])
    BY <1>1 DEF Publishes
  <2>2. CASE Outcome(p, s, IF publishes THEN "sent" ELSE "dropped")
    <3>1. /\ publishes => RightAt(s, posts[n], "sent")'
          /\ ~publishes => RightAt(s, posts[n], "dropped")'
      BY <1>8, <2>1 DEF RightAt
    <3> QED BY <2>2, <3>1 DEF Outcomes
  <2>3. CASE Fault /\ Outcome(p, s, "failed")
    <3>1. RightAt(s, posts[n], "failed")'
      BY <1>2, <2>3 DEF RightAt
    <3> QED BY <2>3, <3>1 DEF Outcomes
  <2> QED BY <1>8, <2>2, <2>3 DEF Sink
<1>9. CASE ToNatsServer(p)
  <2>1. \/ result' = result
        \/ Sink(p, "nats", inst.nats \in Honoured /\ conf.natsUrl, "ws")
    BY <1>9 DEF ToNatsServer, PassedOver
  <2>2. (inst.nats \in Honoured /\ conf.natsUrl) <=> Publishes("nats", posts[n])
    BY DEF Publishes
  <2> QED BY <1>3, <1>8, <2>1, <2>2
<1>10. CASE WriteEnds(p)
  <2>1. Sink(p, "ws", conf.listened, "hook")
    BY <1>10 DEF WriteEnds
  <2>2. conf.listened <=> Publishes("ws", posts[n])
    BY DEF Publishes
  <2> QED BY <1>3, <1>8, <2>1, <2>2
<1>11. CASE ToHook(p)
  <2>1. \/ result' = result
        \/ posts[n].type = "SendStatus" /\ Outcome(p, "hook", "dropped")
        \/ posts[n].type # "SendStatus" /\ Outcome(p, "hook", "sent")
    BY <1>11 DEF ToHook, PostIn
  <2>2. /\ posts[n].type = "SendStatus" => RightAt("hook", posts[n], "dropped")'
        /\ posts[n].type # "SendStatus" => RightAt("hook", posts[n], "sent")'
    BY <1>1 DEF RightAt, Publishes
  <2> QED BY <1>3, <2>1, <2>2 DEF Outcomes
<1> QED
  BY <1>4, <1>5, <1>6, <1>7, <1>9, <1>10, <1>11, ServesOrLooksUp DEF Serves

LEMMA AnswersAreAlwaysRight == Spec => []AnswersAreRight
<1>1. Init => AnswersAreRight
  BY DEF Init, AnswersAreRight
<1>2. /\ Sound /\ RabbitInv /\ CallsAreSteady /\ AnswersAreRight /\ [Next]_vars
      /\ Sound'
      => AnswersAreRight'
  <2> SUFFICES ASSUME Sound, Shape, RabbitInv, CallsAreSteady, AnswersAreRight,
                      [Next]_vars, Sound'
               PROVE  AnswersAreRight'
    BY DEF Sound
  <2>1. UNCHANGED setting /\ (NothingFailed' => NothingFailed)
    BY FaultsAreKept
  <2>2. ASSUME NEW n \in 1..Len(posts), posts'[n] = posts[n], result'[n] = result[n],
               NEW s \in SinkNames
        PROVE  RightAt(s, posts[n], result[n][s])'
    <3>1. RightAt(s, posts[n], result[n][s])
      BY DEF AnswersAreRight
    <3> DEFINE post == posts[n]
               o == result[n][s]
    <3>2. posts'[n] = post /\ result'[n][s] = o
      BY <2>2
    <3> QED BY <2>1, <2>2, <3>1 DEF RightAt, Publishes, inst, conf
  <2>3. ASSUME UNCHANGED <<posts, result>>
        PROVE  AnswersAreRight'
    BY <2>2, <2>3 DEF AnswersAreRight
  <2>4. CASE UNCHANGED vars
    BY <2>3, <2>4 DEF vars, eventVars
  <2>5. CASE Posting \/ Elsewhere
    BY <2>3, <2>5, HttpKeepsShape, ElsewhereKeeps
  <2>6. ASSUME NEW n \in 1..Len(posts), SendToGlobalQueues(<<n, "global">>)
        PROVE  AnswersAreRight'
    BY <2>3, <2>6, GlobalsKeepShape
  <2>7. CASE Handler
    <3>1. Grows /\ result' = result
      BY <2>7, HandlerMakes, EmitGrows
    <3>2. /\ Len(posts) \in Nat /\ Len(posts') \in Nat /\ MaxPosts \in Nat
          /\ Len(posts) <= Len(posts') /\ Len(posts') <= MaxPosts
      BY <3>1, PostsAssumption DEF Grows, Shape, PostsShape
    <3>3. ASSUME NEW n \in 1..Len(posts'), NEW s \in SinkNames
          PROVE  RightAt(s, posts[n], result[n][s])'
      <4>1. CASE n \in 1..Len(posts)
        BY <2>2, <3>1, <4>1 DEF Grows
      <4>2. CASE n \in Len(posts) + 1..Len(posts')
        <5>1. n \in Post
          BY <3>2, <4>2 DEF Post
        <5>2. lane'[<<n, "call">>] = [NoLane EXCEPT !.pc = "dispatch"]
          BY <3>1, <4>2 DEF Grows
        <5>3. lane'[<<n, "call">>].pc \in NotInvalidated
          BY <5>2, ProgramPcs DEF NoLane
        <5>4. Untouched(n)'
          BY <5>1, <5>3 DEF Sound, SinksInOrder, Ordered
        <5>5. result'[n][s] = "no"
          BY <5>4 DEF Untouched, NotYet
        <5> QED BY <5>5 DEF RightAt
      <4> QED BY <3>2, <4>1, <4>2
    <3> QED BY <3>3 DEF AnswersAreRight
  <2>8. ASSUME NEW n \in 1..Len(posts), CallSteps(<<n, "call">>)
        PROVE  AnswersAreRight'
    <3> DEFINE p == <<n, "call">>
    <3>1. UNCHANGED posts /\ n \in Post
      BY <2>8, CallIsLaneOnly, PostsHaveLanes DEF LaneOnly
    <3>2. CASE result' = result
      BY <2>3, <3>1, <3>2
    <3>3. ASSUME NEW s \in SinkNames, NEW o \in Outcomes, Outcome(p, s, o),
                 RightAt(s, posts[n], o)'
          PROVE  AnswersAreRight'
      <4>1. /\ result'[n][s] = o
            /\ \A t \in SinkNames : t # s => result'[n][t] = result[n][t]
            /\ \A m \in Post : m # n => result'[m] = result[m]
        BY <3>1, <3>3, OutcomeIs
      <4>2. ASSUME NEW m \in 1..Len(posts), NEW t \in SinkNames
            PROVE  RightAt(t, posts[m], result[m][t])'
        <5>1. CASE m # n
          <6>1. m \in Post
            BY PostsHaveLanes
          <6> QED BY <2>2, <3>1, <4>1, <5>1, <6>1
        <5>2. CASE m = n /\ t # s
          <6>1. RightAt(t, posts[n], result[n][t])
            BY <5>2 DEF AnswersAreRight
          <6>2. result'[n][t] = result[n][t] /\ posts'[n] = posts[n]
            BY <3>1, <4>1, <5>2
          <6> QED BY <2>1, <5>2, <6>1, <6>2 DEF RightAt, Publishes, inst, conf
        <5>3. CASE m = n /\ t = s
          BY <3>1, <3>3, <4>1, <5>3 DEF RightAt
        <5> QED BY <5>1, <5>2, <5>3
      <4> QED BY <3>1, <4>2 DEF AnswersAreRight
    <3> QED BY <2>1, <2>8, <3>2, <3>3, CallIsRight
  <2> QED BY <2>4, <2>5, <2>6, <2>7, <2>8, StepIs
<1> QED
  BY <1>1, <1>2, SpecIsSound, CallsAreAlwaysSteady, ProducerIsImplemented, RabbitInvHolds,
     PTL DEF Spec

(* A sink that is on is given every post that is wanted unless a sink      *)
(* before it has failed, and no other (whatsmeow.go:2190); it publishes    *)
(* what it is given but where it is known not to, and drops it without a   *)
(* word or fails only then or after a fault.                               *)
THEOREM SinksAreServedHolds == Spec => []SinksAreServed
<1>1. Sound /\ AnswersAreRight => SinksAreServed
  <2> SUFFICES ASSUME Sound, AnswersAreRight, NEW p \in CallLane, lane[p].pc = "done",
                      NEW i \in DOMAIN Sinks
      PROVE  LET n == p[1]
                 s == Sinks[i]
                 failedBefore == \E j \in 1..i - 1 : result[n][Sinks[j]] = "failed"
                 wanted == Subscribed(inst.events, posts[n])
                             /\ ~(posts[n].own /\ inst.ignoreFromMe)
             IN /\ (result[n][s] # "no") = (wanted /\ SinkIsOn(s) /\ ~failedBefore)
                /\ result[n][s] = "sent" => Publishes(s, posts[n])
                /\ result[n][s] = "dropped" =>
                     ~Publishes(s, posts[n]) \/ (s = "rabbit" /\ ~NothingFailed)
                /\ result[n][s] = "failed" =>
                     ~NothingFailed \/ (s = "rabbit" /\ ~conf.amqpUrl)
    BY DEF SinksAreServed
  <2>1. PICK n \in Post : p = <<n, "call">> /\ p[1] = n
    BY LanesOfPosts
  <2>2. AtItsEnd(n) /\ n \in 1..Len(posts)
    <3>1. lane[<<n, "call">>].pc # "none" /\ n \in Nat /\ n >= 1 /\ Len(posts) \in Nat
      BY <2>1 DEF Post, Sound, Shape, PostsShape
    <3>2. ~(n > Len(posts))
      BY <3>1 DEF Sound, Shape, LanesShape
    <3>3. AtItsEnd(n)
      BY <2>1 DEF Sound, SinksInOrder, Ordered
    <3> QED BY <3>1, <3>2, <3>3
  <2> DEFINE s == Sinks[i]
             failedBefore == \E j \in 1..i - 1 : result[n][Sinks[j]] = "failed"
             wanted == Subscribed(inst.events, posts[n]) /\ ~(posts[n].own /\ inst.ignoreFromMe)
  <2>3. Wanted(posts[n]) <=> wanted
    BY DEF Wanted
  <2>4. \A t \in SinkNames : Passed(n, t) =>
          /\ result[n][t] # "failed" /\ (result[n][t] # "no" <=> SinkIsOn(t))
    BY DEF Passed, Served
  <2>5. (i = 1 \/ i = 2 \/ i = 3 \/ i = 4) /\ s \in SinkNames
    BY SinkNamesAre DEF SinkNames
  <2>6. /\ i = 1 => (failedBefore <=> FALSE)
        /\ i = 2 => (failedBefore <=> result[n].rabbit = "failed")
        /\ i = 3 =>
             (failedBefore <=> result[n].rabbit = "failed" \/ result[n].nats = "failed")
        /\ i = 4 => (failedBefore <=> \/ result[n].rabbit = "failed" \/ result[n].nats = "failed"
                                      \/ result[n].ws = "failed")
    <3>1. /\ 1..1 - 1 = {} /\ 1..2 - 1 = {1} /\ 1..3 - 1 = {1, 2}
          /\ 1..4 - 1 = {1, 2, 3}
      OBVIOUS
    <3> QED BY <3>1, SinkNamesAre
  <2> HIDE DEF failedBefore, wanted
  <2>7. /\ "rabbit" \in SinkNames /\ "nats" \in SinkNames /\ "ws" \in SinkNames
        /\ "hook" \in SinkNames
    BY DEF SinkNames
  <2>8. (result[n][s] # "no") = (wanted /\ SinkIsOn(s) /\ ~failedBefore)
    <3>1. CASE ~wanted
      BY <2>2, <2>3, <2>5, <3>1 DEF AtItsEnd, Untouched, NotYet
    <3>2. CASE wanted
      <4>1. AllServed(n) \/ Stopped(n)
        BY <2>2, <2>3, <3>2 DEF AtItsEnd
      <4>2. result[n][s] # "no" <=> SinkIsOn(s) /\ ~failedBefore
        BY <2>4, <2>5, <2>6, <2>7, <4>1, SinkNamesAre DEF AllServed, Stopped, NotYet, FailedAt
      <4> QED BY <3>2, <4>2
    <3> QED BY <3>1, <3>2
  <2>9. RightAt(s, posts[n], result[n][s])
    BY <2>2, <2>5 DEF AnswersAreRight
  <2> QED BY <2>1, <2>8, <2>9 DEF RightAt, wanted, failedBefore
<1> QED BY <1>1, SpecIsSound, AnswersAreAlwaysRight, PTL

------------------------------------------------------------------------------
(* Whose posts they are.  A post is of an event that is not ignored, and   *)
(* says rightly whether it is the instance's own; a POST is for the        *)
(* instance's settings or for a webhook that want it.                      *)
PostsAreTrue == \A n \in 1..Len(posts) : IsPostOf(posts[n], stream[posts[n].event])

WantedBy(n, via) ==
  IF via = 0 THEN Wanted(posts[n])
  ELSE via \in 1..Len(webhooks) /\ ~(posts[n].own /\ webhooks[via].ignoreFromMe)

HttpIsWanted == \A h \in http : WantedBy(h.post, h.via)

LEMMA PostsStayTrue ==
  ASSUME Shape, PostsAreTrue, HttpIsWanted, UNCHANGED <<setting, posts>>
  PROVE  /\ PostsAreTrue'
         /\ \A n, via : WantedBy(n, via) => WantedBy(n, via)'
BY DEF PostsAreTrue, IsPostOf, Unignored, Tells, TellsOfConnection,
   IgnoresGroup, IgnoresStatus, stream, inst, conf, WantedBy, Wanted, webhooks

LEMMA HandlerKeepsTrue ==
  ASSUME Shape, PostsAreTrue, HttpIsWanted, Handler
  PROVE  PostsAreTrue' /\ HttpIsWanted'
<1>1. Grows /\ UNCHANGED <<setting, caused, http>> /\ handled < caused
  BY HandlerMakes, EmitGrows
<1>2. Len(posts) \in Nat /\ Len(posts') \in Nat
  BY <1>1 DEF Grows, Shape, PostsShape
<1>3. stream' = stream /\ \A q, e : IsPostOf(q, e)' <=> IsPostOf(q, e)
  BY <1>1 DEF IsPostOf, Unignored, IgnoresGroup, IgnoresStatus, stream, inst, conf
<1>4. ASSUME NEW n \in 1..Len(posts')
      PROVE  IsPostOf(posts'[n], stream[posts'[n].event])
  <2>1. CASE n \in 1..Len(posts)
    BY <1>1, <2>1 DEF Grows, PostsAreTrue
  <2>2. CASE n \in Len(posts) + 1..Len(posts')
    BY <1>1, <2>2 DEF Grows, Event
  <2> QED BY <1>2, <2>1, <2>2
<1>5. PostsAreTrue'
  BY <1>3, <1>4 DEF PostsAreTrue
<1>6. ASSUME NEW h \in http
      PROVE  WantedBy(h.post, h.via)'
  <2>1. h.post \in 1..Len(posts) /\ WantedBy(h.post, h.via)
    BY DEF Shape, HttpShape, HttpIsWanted
  <2>2. posts'[h.post] = posts[h.post]
    BY <1>1, <2>1 DEF Grows
  <2> QED BY <1>1, <2>1, <2>2 DEF WantedBy, Wanted, webhooks, inst
<1> QED BY <1>1, <1>5, <1>6 DEF HttpIsWanted

LEMMA CallKeepsTrue ==
  ASSUME Sound, PostsAreTrue, HttpIsWanted, NEW n \in 1..Len(posts),
         CallSteps(<<n, "call">>)
  PROVE  PostsAreTrue' /\ HttpIsWanted'
<1> DEFINE p == <<n, "call">>
           w == webhooks[lane[p].w]
<1>1. UNCHANGED <<setting, posts>>
  BY CallIsLaneOnly DEF LaneOnly
<1>2. \/ UNCHANGED http
      \/ /\ Spawn(p, lane[p].w) /\ lane[p].pc = "match" /\ ~(lane[p].w > Len(webhooks))
         /\ MatchesFilter(w, posts[n], lane[p].groups, lane[p].contacts)
      \/ Spawn(p, 0) /\ lane[p].pc = "hook"
  <2>1. CASE Match(p)
    BY <2>1 DEF Match, At, PostIn
  <2>2. CASE ToHook(p)
    BY <2>2 DEF ToHook, At
  <2>3. CASE ~Match(p) /\ ~ToHook(p)
    BY <2>3 DEF CallSteps, CallWebhook, Dispatch, Matched, Invalidate, LookUp, Resolve,
       ResolveFails, Store, ToRabbit, RabbitAnswers, ToNatsServer, ToWebsocket, Sink,
       PassedOver, CastEnds, WriteEnds, WriteHangs, WriteResumes, WaitsForLock, GetsLock
  <2> QED BY <2>1, <2>2, <2>3
<1>3. ASSUME NEW via, Spawn(p, via), WantedBy(n, via)
      PROVE  HttpIsWanted'
  <2>1. \A h \in http' : h \in http \/ (h.post = n /\ h.via = via)
    BY <1>3 DEF Spawn
  <2>2. \A h \in http' : WantedBy(h.post, h.via)
    BY <1>3, <2>1 DEF HttpIsWanted
  <2> QED BY <1>1, <2>2, PostsStayTrue DEF Sound, HttpIsWanted
<1>4. CASE UNCHANGED http
  BY <1>1, <1>4, PostsStayTrue DEF Sound, HttpIsWanted
<1>5. CASE /\ Spawn(p, lane[p].w) /\ lane[p].pc = "match" /\ ~(lane[p].w > Len(webhooks))
           /\ MatchesFilter(w, posts[n], lane[p].groups, lane[p].contacts)
  <2>1. lane[p].w \in Nat /\ lane[p].w >= 1 /\ Len(webhooks) \in Nat
    BY <1>5, PostsHaveLanes, StreamShape DEF Sound, Shape, LanesShape, LaneState
  <2>2. lane[p].w \in 1..Len(webhooks) /\ lane[p].w # 0
    BY <1>5, <2>1
  <2>3. ~(posts[n].own /\ w.ignoreFromMe)
    BY <1>5 DEF MatchesFilter
  <2>4. WantedBy(n, lane[p].w)
    BY <2>2, <2>3 DEF WantedBy
  <2> QED BY <1>1, <1>3, <1>5, <2>4, PostsStayTrue DEF Sound
<1>6. CASE Spawn(p, 0) /\ lane[p].pc = "hook"
  <2>1. Wanted(posts[n])
    BY <1>6, PostsHaveLanes DEF Sound, SinksInOrder, Ordered
  <2> QED BY <1>1, <1>3, <1>6, <2>1, PostsStayTrue DEF Sound, WantedBy
<1> QED BY <1>2, <1>4, <1>5, <1>6

LEMMA StepKeepsTrue ==
  Sound /\ PostsAreTrue /\ HttpIsWanted /\ [Next]_vars =>
    PostsAreTrue' /\ HttpIsWanted'
<1> SUFFICES ASSUME Sound, PostsAreTrue, HttpIsWanted, [Next]_vars
             PROVE  PostsAreTrue' /\ HttpIsWanted'
  OBVIOUS
<1>1. ASSUME UNCHANGED <<setting, posts>>,
             \A h \in http' : \E g \in http : h.post = g.post /\ h.via = g.via
      PROVE  PostsAreTrue' /\ HttpIsWanted'
  <2>1. \A h \in http' : WantedBy(h.post, h.via)
    BY <1>1 DEF HttpIsWanted
  <2> QED BY <1>1, <2>1, PostsStayTrue DEF Sound, HttpIsWanted
<1>2. CASE UNCHANGED vars
  BY <1>1, <1>2 DEF vars, eventVars
<1>3. CASE Handler
  BY <1>3, HandlerKeepsTrue DEF Sound
<1>4. CASE Posting
  BY <1>1, <1>4, HttpKeepsShape DEF Sound
<1>5. CASE Elsewhere
  BY <1>1, <1>5, ElsewhereKeeps
<1>6. ASSUME NEW n \in 1..Len(posts), CallSteps(<<n, "call">>)
      PROVE  PostsAreTrue' /\ HttpIsWanted'
  BY <1>6, CallKeepsTrue
<1>7. ASSUME NEW n \in 1..Len(posts), SendToGlobalQueues(<<n, "global">>)
      PROVE  PostsAreTrue' /\ HttpIsWanted'
  BY <1>1, <1>7, GlobalsKeepShape DEF Sound
<1> QED BY <1>2, <1>3, <1>4, <1>5, <1>6, <1>7, StepIs DEF Sound

LEMMA PostsAreAlwaysTrue == Spec => [](PostsAreTrue /\ HttpIsWanted)
<1>1. Init => PostsAreTrue /\ HttpIsWanted
  <2> SUFFICES ASSUME Init
               PROVE  PostsAreTrue /\ HttpIsWanted
    OBVIOUS
  <2>1. Len(posts) = 0 /\ http = {}
    BY DEF Init
  <2> QED BY <2>1 DEF PostsAreTrue, HttpIsWanted
<1> QED BY <1>1, StepKeepsTrue, SpecIsSound, PTL DEF Spec

(* No sink, webhook or POST of the instance gets what it has asked not to  *)
(* be told of (whatsmeow.go:1054, 2000).                                   *)
THEOREM NothingUnwantedHolds == Spec => []NothingUnwanted
<1>1. Sound /\ PostsAreTrue /\ HttpIsWanted => NothingUnwanted
  <2> SUFFICES ASSUME Sound, PostsAreTrue, HttpIsWanted, NEW n \in DOMAIN posts
               PROVE  LET e == stream[posts[n].event] IN
                 /\ e.own /\ posts[n].type \in {"Message", "SendMessage"} =>
                      /\ inst.ignoreFromMe =>
                           /\ \A s \in Range(Sinks) : result[n][s] = "no"
                           /\ \A h \in http : h.post = n => h.via # 0
                      /\ \A h \in http : h.post = n /\ h.via # 0 =>
                           ~webhooks[h.via].ignoreFromMe
                 /\ e.kind \in {"Message", "Receipt"} /\ (inst.ignoreGroups \/ conf.ignoreGroup) =>
                      e.chat # "group"
                 /\ e.kind = "Message" /\ (inst.ignoreStatus \/ conf.ignoreStatus) =>
                      e.chat # "broadcast"
    BY DEF NothingUnwanted
  <2> DEFINE e == stream[posts[n].event]
  <2>1. n \in 1..Len(posts) /\ n \in Post
    <3>1. n \in 1..Len(posts)
      BY DEF Sound, Shape, PostsShape
    <3> QED BY <3>1, PostsHaveLanes DEF Sound
  <2>2. IsPostOf(posts[n], e)
    BY <2>1 DEF PostsAreTrue
  <2> HIDE DEF e
  <2>3. e.kind \in {"Message", "Receipt"} /\ (inst.ignoreGroups \/ conf.ignoreGroup) =>
          e.chat # "group"
    BY <2>2 DEF IsPostOf, Unignored, IgnoresGroup
  <2>4. e.kind = "Message" /\ (inst.ignoreStatus \/ conf.ignoreStatus) =>
          e.chat # "broadcast"
    BY <2>2 DEF IsPostOf, Unignored, IgnoresStatus
  <2>5. ASSUME e.own, posts[n].type \in {"Message", "SendMessage"}
        PROVE  /\ inst.ignoreFromMe =>
                    /\ \A s \in Range(Sinks) : result[n][s] = "no"
                    /\ \A h \in http : h.post = n => h.via # 0
               /\ \A h \in http : h.post = n /\ h.via # 0 =>
                    ~webhooks[h.via].ignoreFromMe
    <3>1. posts[n].own
      BY <2>2, <2>5 DEF IsPostOf
    <3>2. inst.ignoreFromMe => ~Wanted(posts[n])
      BY <3>1 DEF Wanted
    <3>3. ~Wanted(posts[n]) => Untouched(n)
      <4>1. lane[<<n, "call">>].pc \in CallPcs /\ Ordered(n)
        BY <2>1 DEF Sound, SinksInOrder, Shape, LanesShape
      <4> QED BY <4>1 DEF Ordered, AtItsEnd, CallPcs
    <3>4. Untouched(n) => \A s \in Range(Sinks) : result[n][s] = "no"
      BY SinkNamesAre DEF Untouched, NotYet
    <3>5. \A h \in http : h.post = n =>
            /\ h.via = 0 => Wanted(posts[n])
            /\ h.via # 0 => ~webhooks[h.via].ignoreFromMe
      BY <3>1 DEF HttpIsWanted, WantedBy
    <3> QED BY <3>2, <3>3, <3>4, <3>5
  <2> QED BY <2>3, <2>4, <2>5 DEF e
<1> QED BY <1>1, SpecIsSound, PostsAreAlwaysTrue, PTL

------------------------------------------------------------------------------
(* The tables of types.                                                    *)
Groups == {"MESSAGE", "SEND_MESSAGE", "READ_RECEIPT", "PRESENCE", "HISTORY_SYNC",
  "CHAT_PRESENCE", "CALL", "CONNECTION", "LABEL", "CONTACT", "GROUP", "NEWSLETTER", "QRCODE"}

LEMMA TablesAre ==
  /\ DOMAIN AmqpGroup = Groups /\ DOMAIN NatsGroup = Groups
  /\ DOMAIN EventMap = Groups
  /\ Groups \subseteq DOMAIN Subscription /\ Groups \subseteq AllEventTypes
<1>1. DOMAIN AmqpGroup = Groups
  BY DEF AmqpGroup, Groups
<1>2. DOMAIN NatsGroup = Groups
  BY DEF NatsGroup, Groups
<1>3. DOMAIN EventMap = Groups
  BY DEF EventMap, Groups
<1>4. Groups \subseteq DOMAIN Subscription
  BY DEF Subscription, Groups
<1>5. Groups \subseteq AllEventTypes
  BY DEF AllEventTypes, Groups
<1> QED BY <1>1, <1>2, <1>3, <1>4, <1>5

LEMMA RowsOfTables ==
  \A g \in Groups :
    /\ NatsGroup[g] = AmqpGroup[g]
    /\ AmqpGroup[g] \subseteq Subscription[g]
    /\ \A t \in AmqpGroup[g] : ToLower[t] \in EventMap[g]
<1>1. \A g \in Groups : NatsGroup[g] = AmqpGroup[g]
  BY DEF Groups, NatsGroup, AmqpGroup
<1>2. \A g \in Groups : AmqpGroup[g] \subseteq Subscription[g]
  BY DEF Groups, Subscription, AmqpGroup
<1>3. \A g \in Groups : \A t \in AmqpGroup[g] : ToLower[t] \in EventMap[g]
  BY DEF Groups, EventMap, AmqpGroup, ToLower
<1> QED BY <1>1, <1>2, <1>3

(* A goroutine of SendToGlobalQueues is where the tables have sent it.     *)
Routed ==
  \A n \in Post : LET pc == lane[<<n, "global">>].pc IN
    /\ pc = "amqpWait" => ToAmqp(conf, posts[n].type)
    /\ pc = "subject" => ToNats(conf, posts[n].type)

LEMMA RoutedStays ==
  ASSUME Shape, Routed, UNCHANGED <<setting, posts>>,
         \A n \in Post : lane'[<<n, "global">>].pc = lane[<<n, "global">>].pc
  PROVE  Routed'
<1>1. conf' = conf
  BY DEF conf
<1> QED BY <1>1 DEF Routed

LEMMA HandlerKeepsRouted ==
  ASSUME Shape, Routed, Handler
  PROVE  Routed'
<1>1. Grows /\ UNCHANGED <<setting>>
  BY HandlerMakes, EmitGrows
<1>2. /\ Len(posts) \in Nat /\ Len(posts') \in Nat /\ Len(posts) <= Len(posts')
      /\ conf' = conf
  BY <1>1 DEF Grows, Shape, PostsShape, conf
<1>3. ASSUME NEW n \in Post
      PROVE  LET pc == lane'[<<n, "global">>].pc IN
             /\ pc = "amqpWait" => ToAmqp(conf, posts'[n].type)
             /\ pc = "subject" => ToNats(conf, posts'[n].type)
  <2>1. n \in Nat /\ n >= 1 /\ <<n, "global">> \in Publisher
    <3>1. n \in Nat /\ n >= 1
      BY DEF Post
    <3> QED BY <3>1, LanesOfPosts
  <2>2. (lane[<<n, "global">>].pc = "none") = (n > Len(posts) \/ ~HasGlobal)
    BY DEF Shape, LanesShape
  <2>3. CASE IsNew(n)
    <3>1. n > Len(posts)
      BY <1>2, <2>1, <2>3 DEF IsNew
    <3>2. lane'[<<n, "global">>] = IF HasGlobal THEN [NoLane EXCEPT !.pc = "amqp"]
                                   ELSE lane[<<n, "global">>]
      BY <1>1, <2>3 DEF Grows, IsNew
    <3>3. [NoLane EXCEPT !.pc = "amqp"].pc = "amqp"
      BY DEF NoLane
    <3> QED BY <2>2, <3>1, <3>2, <3>3
  <2>4. CASE ~IsNew(n)
    <3>1. lane'[<<n, "global">>] = lane[<<n, "global">>]
      BY <1>1, <2>1, <2>4 DEF Grows
    <3>2. CASE n > Len(posts)
      BY <2>2, <3>1, <3>2
    <3>3. CASE n <= Len(posts)
      <4>1. posts'[n] = posts[n]
        BY <1>1, <2>1, <3>3 DEF Grows
      <4> QED BY <3>1, <4>1 DEF Routed
    <3> QED BY <1>2, <2>1, <3>2, <3>3
  <2> QED BY <2>3, <2>4
<1> QED BY <1>2, <1>3 DEF Routed

LEMMA CallLeavesGlobals ==
  ASSUME Shape, NEW n \in 1..Len(posts), CallSteps(<<n, "call">>), NEW m \in Post
  PROVE  /\ lane'[<<m, "global">>].pc = lane[<<m, "global">>].pc
         /\ UNCHANGED <<setting, posts>>
<1> DEFINE p == <<n, "call">>
           q == <<m, "global">>
<1>1. UNCHANGED <<setting, posts>>
  BY CallIsLaneOnly DEF LaneOnly
<1>2. /\ p \in Publisher /\ q \in Publisher /\ p # q
      /\ lane \in [Publisher -> LaneState]
  BY PostsHaveLanes, LanesOfPosts DEF Shape, LanesShape
<1>3. ASSUME NEW r, Becomes(p, r)
      PROVE  lane'[q].pc = lane[q].pc
  BY <1>2, <1>3 DEF Becomes
<1>4. CASE LooksUp(p)
  BY <1>1, <1>3, <1>4, LooksUpIsLookedUp DEF LookedUp
<1>5. CASE Invalidate(p)
  <2> DEFINE to == IF Wanted(PostIn(p)) THEN "rabbit" ELSE "done"
  <2>1. \/ Goto(p, to)
        \/ lane' = [x \in Publisher |-> IF x = p THEN [lane[p] EXCEPT !.pc = to]
                                         ELSE [lane[x] EXCEPT !.raced = TRUE]]
    BY <1>5 DEF Invalidate
  <2> HIDE DEF to
  <2>2. CASE Goto(p, to)
    BY <1>1, <1>3, <2>2 DEF Goto
  <2>3. CASE lane' = [x \in Publisher |-> IF x = p THEN [lane[p] EXCEPT !.pc = to]
                                           ELSE [lane[x] EXCEPT !.raced = TRUE]]
    <3>1. lane'[q] = [lane[q] EXCEPT !.raced = TRUE]
      BY <1>2, <2>3
    <3>2. lane[q] \in LaneState
      BY <1>2
    <3>3. lane'[q].pc = lane[q].pc
      BY <3>1, <3>2 DEF LaneState
    <3> QED BY <1>1, <3>3
  <2> QED BY <2>1, <2>2, <2>3
<1>6. CASE Serves(p) /\ ~Invalidate(p)
  BY <1>1, <1>3, <1>6, ServesMoves DEF Becomes
<1>7. CASE Waits(p)
  BY <1>1, <1>3, <1>7, WaitingIs
<1> QED BY <1>4, <1>5, <1>6, <1>7, ServesOrLooksUp

LEMMA GlobalKeepsRouted ==
  ASSUME Shape, Routed, NEW n \in 1..Len(posts), SendToGlobalQueues(<<n, "global">>)
  PROVE  Routed'
<1> DEFINE p == <<n, "global">>
<1>1. /\ UNCHANGED <<setting, posts>>
      /\ \A q \in Publisher : q # p => lane'[q] = lane[q]
  BY GlobalsKeepShape
<1>2. /\ p \in Publisher /\ n \in Post /\ lane \in [Publisher -> LaneState]
      /\ conf' = conf
  BY <1>1, PostsHaveLanes DEF Shape, LanesShape, conf
<1>3. ASSUME NEW pc, Goto(p, pc)
      PROVE  lane'[p].pc = pc
  BY <1>2, <1>3 DEF Goto, Becomes, LaneState
<1>4. /\ lane'[p].pc = "amqpWait" => ToAmqp(conf, posts[n].type)
      /\ lane'[p].pc = "subject" => ToNats(conf, posts[n].type)
  <2>1. CASE GlobalAmqp(p)
    <3>1. \/ ToAmqp(conf, posts[n].type) /\ Goto(p, "amqpWait")
          \/ Goto(p, "done") \/ Goto(p, "natsGlobal")
      BY <2>1 DEF GlobalAmqp, PostIn
    <3> QED BY <1>3, <3>1
  <2>2. CASE GlobalAnswers(p)
    BY <1>3, <2>2 DEF GlobalAnswers
  <2>3. CASE GlobalNats(p)
    <3>1. \/ ToNats(conf, posts[n].type) /\ Goto(p, "subject")
          \/ Goto(p, "done")
      BY <2>3 DEF GlobalNats, PostIn
    <3> QED BY <1>3, <3>1
  <2> QED BY <2>1, <2>2, <2>3 DEF SendToGlobalQueues
<1>5. ASSUME NEW m \in Post
      PROVE  LET pc == lane'[<<m, "global">>].pc IN
             /\ pc = "amqpWait" => ToAmqp(conf, posts[m].type)
             /\ pc = "subject" => ToNats(conf, posts[m].type)
  <2>1. CASE m = n
    BY <1>4, <2>1
  <2>2. CASE m # n
    <3>1. <<m, "global">> \in Publisher /\ <<m, "global">> # p
      BY <2>2, LanesOfPosts
    <3> QED BY <1>1, <3>1 DEF Routed
  <2> QED BY <2>1, <2>2
<1> QED BY <1>1, <1>2, <1>5 DEF Routed

LEMMA AlwaysRouted == Spec => []Routed
<1>1. Init => Routed
  <2> SUFFICES ASSUME Init
               PROVE  Routed
    OBVIOUS
  <2>1. \A n \in Post : lane[<<n, "global">>].pc = "none"
    BY LanesOfPosts DEF Init, NoLane
  <2> QED BY <2>1 DEF Routed
<1>2. Sound /\ Routed /\ [Next]_vars => Routed'
  <2> SUFFICES ASSUME Sound, Shape, Routed, [Next]_vars
               PROVE  Routed'
    BY DEF Sound
  <2>1. CASE UNCHANGED vars
    BY <2>1, RoutedStays DEF vars, eventVars
  <2>2. CASE Handler
    BY <2>2, HandlerKeepsRouted
  <2>3. CASE Posting
    BY <2>3, HttpKeepsShape, RoutedStays
  <2>4. CASE Elsewhere
    BY <2>4, ElsewhereKeeps, RoutedStays
  <2>5. ASSUME NEW n \in 1..Len(posts), CallSteps(<<n, "call">>)
        PROVE  Routed'
    <3>1. UNCHANGED <<setting, posts>>
      BY <2>5, CallIsLaneOnly DEF LaneOnly
    <3>2. \A m \in Post : lane'[<<m, "global">>].pc = lane[<<m, "global">>].pc
      BY <2>5, CallLeavesGlobals
    <3> QED BY <3>1, <3>2, RoutedStays
  <2>6. ASSUME NEW n \in 1..Len(posts), SendToGlobalQueues(<<n, "global">>)
        PROVE  Routed'
    BY <2>6, GlobalKeepsRouted
  <2> QED BY <2>1, <2>2, <2>3, <2>4, <2>5, <2>6, StepIs
<1> QED BY <1>1, <1>2, SpecIsSound, PTL DEF Spec

(* The tables of the program agree on every type of event, whatever        *)
(* groups and types are configured (whatsmeow.go:2040, 2398, 2457,         *)
(* rabbitmq_producer.go:276).                                              *)
THEOREM TablesAgreeHolds == Spec => []TablesAgree
<1>1. Sound /\ Routed => TablesAgree
  <2> SUFFICES ASSUME Sound, Routed, NEW n \in DOMAIN posts, NEW t,
                      t = posts[n].type
               PROVE  /\ lane[<<n, "global">>].pc = "amqpWait" => ToLower[t] \in CreatedQueues(conf)
                      /\ (lane[<<n, "global">>].pc = "subject" /\ conf.amqpGlobal
                            /\ conf.specific = {}
                            /\ conf.natsEvents \subseteq conf.amqpEvents)
                           => ToAmqp(conf, t)
                      /\ \A g \in GroupsOf(AmqpGroup, t) : Subscribed({g}, posts[n])
    BY DEF TablesAgree
  <2>1. n \in Post
    <3>1. n \in 1..Len(posts)
      BY DEF Sound, Shape, PostsShape
    <3> QED BY <3>1, PostsHaveLanes DEF Sound
  <2>2. ASSUME lane[<<n, "global">>].pc = "amqpWait"
        PROVE  ToLower[t] \in CreatedQueues(conf)
    <3>1. ToAmqp(conf, t)
      BY <2>1, <2>2 DEF Routed
    <3>2. CASE conf.specific # {}
      <4>1. conf.amqpGlobal /\ t \in conf.specific
        BY <3>1, <3>2 DEF ToAmqp
      <4>2. CreatedQueues(conf) = {ToLower[x] : x \in conf.specific}
        BY <3>2, <4>1 DEF CreatedQueues
      <4> QED BY <4>1, <4>2
    <3>3. CASE conf.specific = {}
      <4>1. conf.amqpGlobal /\ GroupsOf(AmqpGroup, t) \cap conf.amqpEvents # {}
        BY <3>1, <3>3 DEF ToAmqp
      <4>2. PICK g \in conf.amqpEvents : g \in Groups /\ t \in AmqpGroup[g]
        BY <4>1, TablesAre DEF GroupsOf
      <4>3. CreatedQueues(conf) = UNION {Only(EventMap, x) : x \in conf.amqpEvents}
        BY <3>3, <4>1 DEF CreatedQueues
      <4>4. ToLower[t] \in Only(EventMap, g)
        BY <4>2, TablesAre, RowsOfTables DEF Only
      <4> QED BY <4>2, <4>3, <4>4
    <3> QED BY <3>2, <3>3
  <2>3. ASSUME lane[<<n, "global">>].pc = "subject", conf.amqpGlobal,
               conf.specific = {},
               conf.natsEvents \subseteq conf.amqpEvents
        PROVE  ToAmqp(conf, t)
    <3>1. ToNats(conf, t)
      BY <2>1, <2>3 DEF Routed
    <3>2. GroupsOf(AmqpGroup, t) = GroupsOf(NatsGroup, t)
      BY TablesAre, RowsOfTables DEF GroupsOf
    <3> QED BY <2>3, <3>1, <3>2 DEF ToNats, ToAmqp
  <2>4. ASSUME NEW g \in GroupsOf(AmqpGroup, t)
        PROVE  Subscribed({g}, posts[n])
    <3>1. g \in Groups /\ t \in AmqpGroup[g]
      BY TablesAre DEF GroupsOf
    <3>2. IsEventType(g) /\ t \in Only(Subscription, g)
      BY <3>1, TablesAre, RowsOfTables DEF IsEventType, Only
    <3>3. \E x \in {y \in {g} : IsEventType(y)} :
            posts[n].type \in Only(Subscription, x)
      BY <3>2
    <3> QED BY <3>3 DEF Subscribed
  <2> QED BY <2>2, <2>3, <2>4
<1> QED BY <1>1, SpecIsSound, AlwaysRouted, PTL

------------------------------------------------------------------------------
(* The names.  A name that is stored, or about to be, is that of now, or   *)
(* something that tells of its change is on its way; nothing is known of   *)
(* the names that were resolved before an invalidation.                    *)
Accounted(k, name) == name = Current(k) \/ OnItsWay(k) \/ ~ConnectionIsTold

NamesAreAccounted ==
  \A k \in Kind :
    /\ cache[k].loaded /\ ~cache[k].raced => Accounted(k, cache[k].name)
    /\ \A p \in CallLane : lane[p].pc = Storing[k] /\ ~lane[p].raced =>
         Accounted(k, lane[p].fetched)

LEMMA AccountedStays ==
  ASSUME NEW k \in Kind, NEW name, Accounted(k, name),
         UNCHANGED <<setting, caused, handled, posts>>,
         \A p \in CallLane :
           lane[p].pc \in NotInvalidated /\ Tells(k, stream[posts[p[1]].event]) =>
             lane'[p].pc \in NotInvalidated
  PROVE  Accounted(k, name)'
<1>1. stream' = stream
  BY DEF stream
<1>2. Current(k)' = Current(k) /\ ConnectionIsTold' = ConnectionIsTold
  BY <1>1 DEF Current, ConnectionIsTold
<1>3. OnItsWay(k) => OnItsWay(k)'
  BY <1>1 DEF OnItsWay
<1> QED BY <1>2, <1>3 DEF Accounted

LEMMA CauseAccounts ==
  ASSUME Shape, NEW k \in Kind, NEW name, Accounted(k, name), Cause
  PROVE  Accounted(k, name)'
<1>1. /\ caused' = caused + 1 /\ stream' = stream
      /\ UNCHANGED <<setting, handled, posts, lane>>
  BY DEF Cause, stream
<1>2. caused \in Nat /\ handled \in Nat /\ handled <= caused
  BY DEF Shape, ServerShape
<1>3. \A a \in Nat :
        a..caused' = (a..caused) \cup {x \in {caused + 1} : a <= caused + 1}
  BY <1>1, <1>2
<1>4. CASE Tells(k, stream[caused + 1])
  <2>1. caused + 1 \in handled + 1..caused'
    BY <1>1, <1>2
  <2> QED BY <1>1, <1>4, <2>1 DEF Accounted, OnItsWay
<1>5. CASE ~Tells(k, stream[caused + 1])
  <2>1. /\ stream[caused + 1].kind \notin Changes[k]
        /\ ~TellsOfConnection(stream[caused + 1])
    BY <1>5 DEF Tells
  <2>2. Current(k)' = Current(k)
    <3>1. {n \in 1..caused' : stream[n].kind \in Changes[k]} =
          {n \in 1..caused : stream[n].kind \in Changes[k]}
      BY <1>3, <2>1
    <3> QED BY <1>1, <3>1 DEF Current
  <2>3. OnItsWay(k) => OnItsWay(k)'
    <3>1. handled + 1..caused \subseteq handled + 1..caused'
      BY <1>1, <1>2
    <3> QED BY <1>1, <3>1 DEF OnItsWay
  <2>4. ConnectionIsTold' => ConnectionIsTold
    <3> SUFFICES ASSUME ConnectionIsTold', NEW n \in 1..caused,
                        stream[n].kind = "Disconnected"
                 PROVE  \E m \in n + 1..caused : TellsOfConnection(stream[m])
      BY DEF ConnectionIsTold
    <3>1. n \in 1..caused'
      BY <1>1, <1>2
    <3>2. PICK m \in n + 1..caused' : TellsOfConnection(stream[m])
      BY <1>1, <3>1 DEF ConnectionIsTold
    <3>3. m # caused + 1
      BY <2>1, <3>2
    <3>4. m \in n + 1..caused
      BY <1>1, <1>2, <3>3
    <3> QED BY <3>2, <3>4
  <2> QED BY <2>2, <2>3, <2>4 DEF Accounted
<1> QED BY <1>4, <1>5

LEMMA HandlerAccounts ==
  ASSUME Shape, NEW k \in Kind, NEW name, Accounted(k, name), Handler
  PROVE  Accounted(k, name)'
<1>1. Grows /\ UNCHANGED <<setting, caused>> /\ handled' = handled + 1
  BY HandlerMakes, EmitGrows
<1>2. /\ stream' = stream /\ Current(k)' = Current(k)
      /\ ConnectionIsTold' = ConnectionIsTold
  BY <1>1 DEF stream, Current, ConnectionIsTold
<1>3. /\ Len(posts) \in Nat /\ Len(posts') \in Nat /\ Len(posts') <= MaxPosts
      /\ handled \in Nat /\ caused \in Nat /\ MaxPosts \in Nat
  BY <1>1, PostsAssumption DEF Grows, Shape, PostsShape, ServerShape
<1>4. ASSUME NEW n \in handled + 1..caused, Tells(k, stream[n])
      PROVE  OnItsWay(k)'
  <2>1. CASE n = handled + 1
    <3>1. Len(posts') > Len(posts)
      BY <1>1, <1>4, <2>1 DEF Grows, Event
    <3> DEFINE m == Len(posts')
    <3>2. m \in Len(posts) + 1..Len(posts') /\ m \in Post
      BY <1>3, <3>1 DEF Post
    <3>3. /\ posts'[m].event = handled + 1
          /\ lane'[<<m, "call">>] = [NoLane EXCEPT !.pc = "dispatch"]
      BY <1>1, <3>2 DEF Grows
    <3>4. lane'[<<m, "call">>].pc \in NotInvalidated
      BY <3>3, ProgramPcs DEF NoLane
    <3> HIDE DEF m
    <3>5. <<m, "call">> \in CallLane /\ <<m, "call">>[1] = m
      BY <3>2 DEF CallLane
    <3>6. Tells(k, stream[posts'[m].event])
      BY <1>4, <2>1, <3>3
    <3> QED BY <1>2, <3>4, <3>5, <3>6 DEF OnItsWay
  <2>2. CASE n # handled + 1
    <3>1. n \in handled' + 1..caused
      BY <1>1, <1>3, <2>2
    <3> QED BY <1>1, <1>2, <1>4, <3>1 DEF OnItsWay
  <2> QED BY <2>1, <2>2
<1>5. ASSUME NEW p \in CallLane, lane[p].pc \in NotInvalidated,
             Tells(k, stream[posts[p[1]].event])
      PROVE  OnItsWay(k)'
  <2>1. PICK n \in Post : p = <<n, "call">> /\ p[1] = n
    BY LanesOfPosts
  <2>2. ~(n > Len(posts)) /\ n \in Nat /\ n >= 1 /\ p \in Publisher
    <3>1. "none" \notin NotInvalidated
      BY ProgramPcs
    <3>2. ~(n > Len(posts)) /\ p \in Publisher
      BY <1>5, <2>1, <3>1, LanesOfPosts DEF Shape, LanesShape
    <3> QED BY <3>2 DEF Post
  <2>3. n \in 1..Len(posts) /\ ~IsNew(p[1])
    BY <1>3, <2>1, <2>2 DEF IsNew
  <2>4. posts'[n] = posts[n] /\ lane'[p] = lane[p]
    BY <1>1, <2>2, <2>3 DEF Grows
  <2> QED BY <1>2, <1>5, <2>1, <2>4 DEF OnItsWay
<1>6. OnItsWay(k) => OnItsWay(k)'
  BY <1>4, <1>5 DEF OnItsWay
<1> QED BY <1>2, <1>6 DEF Accounted

(* A client that is offline has not been told of a connection since.       *)
LEMMA OfflineIsNotTold ==
  ASSUME Shape, ~Online
  PROVE  ~ConnectionIsTold
<1> DEFINE last == {n \in 1..caused : stream[n].kind \in {"Connected", "Disconnected"}}
           x == CHOOSE n \in last : \A m \in last : m <= n
<1>1. last # {} /\ stream[x].kind # "Connected"
  BY DEF Online
<1>2. caused \in Nat /\ last \in SUBSET (0..caused)
  BY DEF Shape, ServerShape
<1>3. \E n \in last : \A m \in last : m <= n
  BY <1>1, <1>2, Largest
<1>4. x \in last /\ \A m \in last : m <= x
  BY <1>3
<1>5. x \in 1..caused /\ stream[x].kind = "Disconnected"
  BY <1>1, <1>4
<1> HIDE DEF x
<1>6. ASSUME NEW m \in x + 1..caused, TellsOfConnection(stream[m])
      PROVE  FALSE
  <2>1. m \in last /\ ~(m <= x)
    BY <1>2, <1>5, <1>6 DEF TellsOfConnection
  <2> QED BY <1>4, <2>1
<1> QED BY <1>5, <1>6 DEF ConnectionIsTold

(* A goroutine that finds out names: what it resolves and stores.          *)
LEMMA LookingUpAccounts ==
  ASSUME Sound, NamesAreAccounted, NEW n \in 1..Len(posts), LooksUp(<<n, "call">>)
  PROVE  NamesAreAccounted'
<1> DEFINE p == <<n, "call">>
<1>1. PICK r : LookedUp(p, r)
  BY LooksUpIsLookedUp DEF Sound
<1>2. /\ p \in Publisher /\ p \in CallLane /\ lane \in [Publisher -> LaneState]
      /\ UNCHANGED <<setting, caused, handled, posts>>
  BY <1>1, PostsHaveLanes DEF LookedUp, Sound, Shape, LanesShape
<1>3. /\ lane'[p] = r /\ r.pc \in NotInvalidated
      /\ \A q \in Publisher : q # p => lane'[q] = lane[q]
  BY <1>1, <1>2 DEF LookedUp, Becomes
<1>4. ASSUME NEW k \in Kind, NEW name, Accounted(k, name)
      PROVE  name = Current(k)' \/ OnItsWay(k)' \/ ~ConnectionIsTold'
  <2>1. \A q \in CallLane : lane[q].pc \in NotInvalidated =>
          lane'[q].pc \in NotInvalidated
    BY <1>3, LanesOfPosts
  <2>2. Accounted(k, name)'
    BY <1>2, <1>4, <2>1, AccountedStays
  <2> QED BY <2>2 DEF Accounted
<1>5. ASSUME NEW k \in Kind, r.pc = Storing[k], ~r.raced
      PROVE  r.fetched = Current(k)' \/ OnItsWay(k)' \/ ~ConnectionIsTold'
  <2>1. /\ Storing[k] \notin {"contacts", "match", "wait", "cast", "invalidate", "groups",
                               "fetchGroups", "fetchContacts", "dispatch"}
        /\ \A j \in Kind : Storing[j] = Storing[k] => j = k
        /\ \A j \in Kind : Storing[k] # Fetching[j]
    BY ProgramPcs DEF Kind
  <2>2. ASSUME NEW x, lane'[p] = [lane[p] EXCEPT !.pc = x]
        PROVE  lane'[p].pc = x
    BY <1>2, <2>2 DEF LaneState
  <2>3. ASSUME NEW x, NEW y, lane'[p] = [lane[p] EXCEPT !.pc = x, !.w = y]
        PROVE  lane'[p].pc = x
    BY <1>2, <2>3 DEF LaneState
  <2>4. ASSUME NEW j, NEW name, Named(p, j, name)
        PROVE  lane'[p].pc \in {"contacts", "match"}
    <3>1. CASE j = "groups"
      <4>1. lane'[p] = [lane[p] EXCEPT !.pc = "contacts", !.groups = name]
        BY <1>2, <2>4, <3>1 DEF Named, Becomes
      <4> QED BY <1>2, <4>1 DEF LaneState
    <3>2. CASE j # "groups"
      <4>1. lane'[p] = [lane[p] EXCEPT !.pc = "match", !.w = 1, !.contacts = name]
        BY <1>2, <2>4, <3>2 DEF Named, Becomes
      <4> QED BY <1>2, <4>1 DEF LaneState
    <3> QED BY <3>1, <3>2
  <2>5. CASE Dispatch(p)
    <3>1. \/ lane'[p] = [lane[p] EXCEPT !.pc = "invalidate"]
          \/ lane'[p] = [lane[p] EXCEPT !.pc = "groups"]
          \/ lane'[p] = [lane[p] EXCEPT !.pc = "match", !.w = 1]
      BY <1>2, <2>5 DEF Dispatch, Goto, Becomes
    <3>2. lane'[p].pc \in {"invalidate", "groups", "match"}
      BY <2>2, <2>3, <3>1, Zenon
    <3> QED BY <1>3, <1>5, <2>1, <3>2
  <2>6. CASE Match(p) \/ Matched(p) \/ CastEnds(p)
    <3>1. \/ lane'[p] = [lane[p] EXCEPT !.pc = "invalidate"]
          \/ lane'[p] = [lane[p] EXCEPT !.pc = "wait"]
          \/ lane'[p] = [lane[p] EXCEPT !.pc = "cast"]
          \/ lane'[p] = [lane[p] EXCEPT !.pc = "match", !.held = "no", !.w = lane[p].w + 1]
      BY <1>2, <2>6 DEF Match, Matched, CastEnds, Broadcast, NextWebhook, Goto, Becomes
    <3>2. lane'[p] = [lane[p] EXCEPT !.pc = "match", !.held = "no", !.w = lane[p].w + 1] =>
            lane'[p].pc = "match"
      BY <1>2 DEF LaneState
    <3>3. lane'[p].pc \in {"invalidate", "wait", "cast", "match"}
      BY <2>2, <3>1, <3>2, Zenon
    <3> QED BY <1>3, <1>5, <2>1, <3>3
  <2>7. ASSUME NEW j \in Kind, LookUp(p, j) \/ ResolveFails(p, j) \/ Store(p, j)
        PROVE  FALSE
    <3>1. \/ (\E name : Named(p, j, name))
          \/ lane'[p] = [lane[p] EXCEPT !.pc = Fetching[j]]
      BY <1>2, <2>7 DEF LookUp, ResolveFails, Store, Goto, Becomes
    <3> QED BY <1>3, <1>5, <2>1, <2>2, <2>4, <3>1
  <2>8. ASSUME NEW j \in Kind, Resolve(p, j)
        PROVE  r.fetched = Current(k)' \/ OnItsWay(k)' \/ ~ConnectionIsTold'
    <3> DEFINE f == IF j = "groups" /\ ~Online THEN "" ELSE Current(j)
    <3>1. lane'[p] =
            [lane[p] EXCEPT !.pc = Storing[j], !.raced = FALSE, !.fetched = f]
      BY <1>2, <2>8 DEF Resolve, Becomes
    <3> HIDE DEF f
    <3>2. r.pc = Storing[j] /\ r.fetched = f
      BY <1>2, <1>3, <3>1 DEF LaneState
    <3>3. j = k
      BY <1>5, <2>1, <3>2
    <3>4. Accounted(j, f)
      BY OfflineIsNotTold DEF Accounted, f, Sound
    <3> QED BY <1>4, <3>2, <3>3, <3>4
  <2> QED BY <2>5, <2>6, <2>7, <2>8 DEF LooksUp
<1>6. ASSUME NEW k \in Kind, cache'[k].loaded, ~cache'[k].raced
      PROVE  cache'[k].name = Current(k)' \/ OnItsWay(k)' \/ ~ConnectionIsTold'
  <2>1. CASE cache'[k] = cache[k]
    BY <1>4, <1>6, <2>1 DEF NamesAreAccounted
  <2>2. CASE cache'[k] # cache[k]
    <3>1. PICK j \in Kind : Store(p, j)
      BY <2>2 DEF LooksUp, Dispatch, Match, Matched, CastEnds, LookUp, Resolve, ResolveFails
    <3> DEFINE e == [loaded |-> TRUE, name |-> lane[p].fetched, raced |-> lane[p].raced]
    <3>2. cache' = [cache EXCEPT ![j] = e] /\ lane[p].pc = Storing[j]
      BY <3>1 DEF Store, At
    <3>3. e.name = lane[p].fetched /\ e.raced = lane[p].raced
      OBVIOUS
    <3> HIDE DEF e
    <3>4. j = k /\ cache'[k] = e
      BY <2>2, <3>2 DEF Sound, Shape, CacheShape
    <3>5. Accounted(k, lane[p].fetched)
      BY <1>2, <1>6, <3>2, <3>3, <3>4 DEF NamesAreAccounted
    <3> QED BY <1>4, <3>3, <3>4, <3>5
  <2> QED BY <2>1, <2>2
<1>7. ASSUME NEW k \in Kind, NEW q \in CallLane, lane'[q].pc = Storing[k],
             ~lane'[q].raced
      PROVE  lane'[q].fetched = Current(k)' \/ OnItsWay(k)' \/ ~ConnectionIsTold'
  <2>1. CASE q = p
    BY <1>3, <1>5, <1>7, <2>1
  <2>2. CASE q # p
    <3>1. lane'[q] = lane[q]
      BY <1>3, <2>2, LanesOfPosts
    <3> QED BY <1>4, <1>7, <3>1 DEF NamesAreAccounted
  <2> QED BY <2>1, <2>2
<1> QED BY <1>6, <1>7 DEF NamesAreAccounted, Accounted

LEMMA NamesStay ==
  ASSUME NamesAreAccounted, UNCHANGED <<setting, caused, handled, posts, cache>>,
         \A q \in CallLane :
           \/ /\ lane'[q].pc = lane[q].pc /\ lane'[q].fetched = lane[q].fetched
              /\ lane'[q].raced = lane[q].raced
           \/ /\ lane'[q].pc \notin NotInvalidated
              /\ lane[q].pc \in NotInvalidated =>
                   \A k \in Kind : ~Tells(k, stream[posts[q[1]].event])
  PROVE  NamesAreAccounted'
<1>1. ASSUME NEW k \in Kind, NEW name, Accounted(k, name)
      PROVE  name = Current(k)' \/ OnItsWay(k)' \/ ~ConnectionIsTold'
  <2>1. Accounted(k, name)'
    BY <1>1, AccountedStays
  <2> QED BY <2>1 DEF Accounted
<1>2. \A k \in Kind : Storing[k] \in NotInvalidated
  BY ProgramPcs DEF Kind
<1>3. ASSUME NEW k \in Kind, cache'[k].loaded, ~cache'[k].raced
      PROVE  cache'[k].name = Current(k)' \/ OnItsWay(k)' \/ ~ConnectionIsTold'
  BY <1>1, <1>3 DEF NamesAreAccounted
<1>4. ASSUME NEW k \in Kind, NEW q \in CallLane, lane'[q].pc = Storing[k],
             ~lane'[q].raced
      PROVE  lane'[q].fetched = Current(k)' \/ OnItsWay(k)' \/ ~ConnectionIsTold'
  <2>1. /\ lane'[q].pc = lane[q].pc /\ lane'[q].fetched = lane[q].fetched
        /\ lane'[q].raced = lane[q].raced
    BY <1>2, <1>4
  <2> QED BY <1>1, <1>4, <2>1 DEF NamesAreAccounted
<1> QED BY <1>3, <1>4 DEF NamesAreAccounted, Accounted

LEMMA WaitingAccounts ==
  ASSUME Shape, NamesAreAccounted, NEW n \in 1..Len(posts), Waits(<<n, "call">>)
  PROVE  NamesAreAccounted'
<1> DEFINE p == <<n, "call">>
<1>1. PICK r \in LaneState :
        /\ Becomes(p, r) /\ r.pc = lane[p].pc
        /\ r.fetched = lane[p].fetched /\ r.raced = lane[p].raced
  BY WaitingIs
<1>2. UNCHANGED <<setting, caused, handled, posts, cache>>
  BY WaitingIs
<1>3. lane \in [Publisher -> LaneState] /\ \A q \in CallLane : q \in Publisher
  BY LanesOfPosts DEF Shape, LanesShape
<1>4. \A q \in CallLane :
        /\ lane'[q].pc = lane[q].pc /\ lane'[q].fetched = lane[q].fetched
        /\ lane'[q].raced = lane[q].raced
  BY <1>1, <1>3 DEF Becomes
<1> QED BY <1>2, <1>4, NamesStay

LEMMA InvalidatingAccounts ==
  ASSUME Sound, PostsAreTrue, NamesAreAccounted, NEW n \in 1..Len(posts),
         Invalidate(<<n, "call">>)
  PROVE  NamesAreAccounted'
<1> DEFINE p == <<n, "call">>
           to == IF Wanted(posts[n]) THEN "rabbit" ELSE "done"
<1>1. /\ p \in Publisher /\ p \in CallLane /\ lane \in [Publisher -> LaneState]
      /\ \A q \in CallLane : q \in Publisher
  BY PostsHaveLanes, LanesOfPosts DEF Sound, Shape, LanesShape
<1>2. UNCHANGED <<setting, caused, handled, posts>>
  BY DEF Invalidate, LaneOnly
<1>3. to \notin NotInvalidated /\ \A k \in Kind : Storing[k] # to
  BY ProgramPcs DEF Kind
<1>4. CASE posts[n].type \in Invalidating
  <2>1. /\ cache' = [k \in Kind |-> NotLoaded]
        /\ lane' = [q \in Publisher |-> IF q = p THEN [lane[p] EXCEPT !.pc = to]
                                         ELSE [lane[q] EXCEPT !.raced = TRUE]]
    BY <1>4 DEF Invalidate, PostIn
  <2> HIDE DEF to
  <2>2. \A k \in Kind : ~cache'[k].loaded
    BY <2>1 DEF NotLoaded
  <2>3. ASSUME NEW q \in CallLane, q # p
        PROVE  lane'[q].raced
    <3>1. lane'[q] = [lane[q] EXCEPT !.raced = TRUE] /\ lane[q] \in LaneState
      BY <1>1, <2>1, <2>3
    <3> QED BY <3>1 DEF LaneState
  <2>4. lane'[p].pc = to
    <3>1. lane'[p] = [lane[p] EXCEPT !.pc = to] /\ lane[p] \in LaneState
      BY <1>1, <2>1
    <3> QED BY <3>1 DEF LaneState
  <2> QED BY <1>3, <2>2, <2>3, <2>4 DEF NamesAreAccounted
<1>5. CASE posts[n].type \notin Invalidating
  <2>1. Goto(p, to) /\ UNCHANGED cache
    BY <1>5 DEF Invalidate, PostIn
  <2> HIDE DEF to
  <2>2. lane'[p].pc = to /\ \A q \in CallLane : q # p => lane'[q] = lane[q]
    BY <1>1, <2>1 DEF Goto, Becomes, LaneState
  <2>3. \A k \in Kind : ~Tells(k, stream[posts[n].event])
    BY <1>5 DEF PostsAreTrue, IsPostOf
  <2> QED BY <1>2, <1>3, <2>1, <2>2, <2>3, NamesStay
<1> QED BY <1>4, <1>5

LEMMA CallKeepsNames ==
  ASSUME Sound, PostsAreTrue, NamesAreAccounted, NEW n \in 1..Len(posts),
         CallSteps(<<n, "call">>)
  PROVE  NamesAreAccounted'
<1> DEFINE p == <<n, "call">>
<1>1. CASE LooksUp(p)
  BY <1>1, LookingUpAccounts
<1>2. CASE Invalidate(p)
  BY <1>2, InvalidatingAccounts
<1>3. CASE Serves(p) /\ ~Invalidate(p)
  <2>1. UNCHANGED <<setting, caused, handled, posts, cache>> /\ Shape
    BY <1>3, ServesMoves DEF Sound
  <2>2. /\ lane[p].pc \in {"rabbit", "rabbitWait", "nats", "ws", "hook"}
        /\ lane'[p].pc \in {"rabbitWait", "nats", "ws", "hook", "done"}
        /\ \A q \in Publisher : q # p => lane'[q] = lane[q]
    BY <1>3, <2>1, ServesMoves
  <2>3. {"rabbit", "rabbitWait", "nats", "ws", "hook", "done"} \cap NotInvalidated = {}
    BY ProgramPcs
  <2>4. \A q \in CallLane :
           \/ lane'[q] = lane[q]
           \/ lane'[q].pc \notin NotInvalidated /\ lane[q].pc \notin NotInvalidated
    BY <2>2, <2>3, LanesOfPosts
  <2> QED BY <2>1, <2>4, NamesStay
<1>4. CASE Waits(p)
  BY <1>4, WaitingAccounts DEF Sound
<1> QED BY <1>1, <1>2, <1>3, <1>4, ServesOrLooksUp

LEMMA OthersKeepNames ==
  ASSUME Shape, NamesAreAccounted, Cause \/ Handler
  PROVE  NamesAreAccounted'
<1>1. ASSUME NEW k \in Kind, NEW name, Accounted(k, name)
      PROVE  name = Current(k)' \/ OnItsWay(k)' \/ ~ConnectionIsTold'
  <2>1. Accounted(k, name)'
    BY <1>1, CauseAccounts, HandlerAccounts
  <2> QED BY <2>1 DEF Accounted
<1>2. UNCHANGED cache
  BY HandlerMakes DEF Cause
<1>3. ASSUME NEW k \in Kind, NEW q \in CallLane, lane'[q].pc = Storing[k]
      PROVE  lane'[q] = lane[q]
  <2>1. CASE Cause
    BY <2>1 DEF Cause
  <2>2. CASE Handler
    <3>1. Grows
      BY <2>2, HandlerMakes, EmitGrows
    <3>2. q \in Publisher /\ q = <<q[1], "call">>
      BY LanesOfPosts
    <3>3. IsNew(q[1]) => lane'[q] = [NoLane EXCEPT !.pc = "dispatch"]
      BY <3>1, <3>2 DEF Grows, IsNew
    <3>4. /\ Storing[k] # "dispatch"
          /\ [NoLane EXCEPT !.pc = "dispatch"].pc = "dispatch"
      BY ProgramPcs DEF Kind, NoLane
    <3>5. ~IsNew(q[1])
      BY <1>3, <3>3, <3>4
    <3> QED BY <3>1, <3>2, <3>5 DEF Grows
  <2> QED BY <2>1, <2>2
<1>4. ASSUME NEW k \in Kind, cache'[k].loaded, ~cache'[k].raced
      PROVE  cache'[k].name = Current(k)' \/ OnItsWay(k)' \/ ~ConnectionIsTold'
  BY <1>1, <1>2, <1>4 DEF NamesAreAccounted
<1>5. ASSUME NEW k \in Kind, NEW q \in CallLane, lane'[q].pc = Storing[k],
             ~lane'[q].raced
      PROVE  lane'[q].fetched = Current(k)' \/ OnItsWay(k)' \/ ~ConnectionIsTold'
  BY <1>1, <1>3, <1>5 DEF NamesAreAccounted
<1> QED BY <1>4, <1>5 DEF NamesAreAccounted, Accounted

LEMMA NamesAreAlwaysAccounted == Spec => []NamesAreAccounted
<1>1. Init => NamesAreAccounted
  <2> SUFFICES ASSUME Init
               PROVE  NamesAreAccounted
    OBVIOUS
  <2>1. \A k \in Kind : ~cache[k].loaded
    BY DEF Init, NotLoaded
  <2>2. \A q \in CallLane : lane[q].pc = "none"
    BY LanesOfPosts DEF Init, NoLane
  <2>3. \A k \in Kind : Storing[k] # "none"
    BY ProgramPcs DEF Kind
  <2> QED BY <2>1, <2>2, <2>3 DEF NamesAreAccounted
<1>2. Sound /\ PostsAreTrue /\ NamesAreAccounted /\ [Next]_vars =>
        NamesAreAccounted'
  <2> SUFFICES ASSUME Sound, PostsAreTrue, NamesAreAccounted, [Next]_vars
               PROVE  NamesAreAccounted'
    OBVIOUS
  <2>1. CASE UNCHANGED vars
    BY <2>1, NamesStay DEF vars, eventVars
  <2>2. CASE Cause \/ Handler
    BY <2>2, OthersKeepNames DEF Sound
  <2>3. CASE Posting
    BY <2>3, HttpKeepsShape, NamesStay DEF Sound
  <2>4. CASE Elsewhere /\ ~Cause
    <3>1. UNCHANGED caused
      BY <2>4 DEF Elsewhere, BrokerFault, BrokerReturns, LossIsNoticed, Expire,
         WriteRow, RabbitWorks, eventVars
    <3> QED BY <2>4, <3>1, ElsewhereKeeps, NamesStay
  <2>5. ASSUME NEW n \in 1..Len(posts), CallSteps(<<n, "call">>)
        PROVE  NamesAreAccounted'
    BY <2>5, CallKeepsNames
  <2>6. ASSUME NEW n \in 1..Len(posts), SendToGlobalQueues(<<n, "global">>)
        PROVE  NamesAreAccounted'
    <3>1. /\ UNCHANGED <<setting, caused, handled, posts, cache>>
          /\ \A q \in Publisher : q # <<n, "global">> => lane'[q] = lane[q]
      BY <2>6, GlobalsKeepShape DEF Sound
    <3>2. \A q \in CallLane : q \in Publisher /\ q # <<n, "global">>
      BY LanesOfPosts
    <3> QED BY <3>1, <3>2, NamesStay
  <2> QED BY <2>1, <2>2, <2>3, <2>4, <2>5, <2>6, StepIs DEF Sound
<1> QED BY <1>1, <1>2, SpecIsSound, PostsAreAlwaysTrue, PTL DEF Spec

(* A name in the cache is that of now, but for the cases that are named    *)
(* (whatsmeow.go:1992, webhook_service.go:570).                            *)
THEOREM NamesStaleOnlyByRaceHolds == Spec => []NamesStaleOnlyByRace
<1>1. Sound /\ NamesAreAccounted => NamesStaleOnlyByRace
  BY DEF NamesAreAccounted, NamesStaleOnlyByRace, Accounted
<1> QED BY <1>1, SpecIsSound, NamesAreAlwaysAccounted, PTL

------------------------------------------------------------------------------
(* The rows of messages.  As long as two writes of a row have not been     *)
(* under way at once and no record of its receipts has expired, each of    *)
(* its writes is of the first receipt of a status, and none of them is     *)
(* lost to an earlier one.                                                 *)
RowOf(m) == <<"message", m>>
Firsts(st, n, m) == Receives(st, n, m) /\ \A d \in 1..n - 1 : ~Receives(st, d, m)
InOrder(key) == key[1] = "message" /\ key \notin overtaken

SeenIsHandled ==
  \A m : \A st \in Statuses : RowOf(m) \notin overtaken =>
    (<<m, st>> \in seen <=> \E n \in 1..handled : Receives(st, n, m))

WritesAreFirsts ==
  \A w \in row \cup pending : InOrder(w.key) =>
    /\ w.key = RowOf(w.key[2]) /\ conf.saveMessages
    /\ w.value \in Statuses /\ Firsts(w.value, w.at, w.key[2])

OneWritePending == \A u, v \in pending : u.key = v.key /\ InOrder(u.key) => u = v

OneRowForKey == \A u, v \in row : u.key = v.key => u = v

LaterIsPending == \A u \in row, v \in pending : u.key = v.key /\ InOrder(u.key) => u.at < v.at

FirstsAreWritten ==
  \A m : \A st \in Statuses, n \in 1..handled :
    RowOf(m) \notin overtaken /\ conf.saveMessages /\ Firsts(st, n, m) =>
      \E w \in row \cup pending : w.key = RowOf(m) /\ w.at >= n

RowsInOrder ==
  /\ SeenIsHandled /\ WritesAreFirsts /\ OneWritePending /\ OneRowForKey
  /\ LaterIsPending /\ FirstsAreWritten

LEMMA ReceiptsStay ==
  ASSUME UNCHANGED setting
  PROVE  /\ \A st, n, m : Receives(st, n, m)' <=> Receives(st, n, m)
         /\ \A st, n, m : Firsts(st, n, m)' <=> Firsts(st, n, m)
         /\ conf' = conf
<1>1. stream' = stream /\ inst' = inst /\ conf' = conf
  BY DEF stream, inst, conf
<1>2. \A st, n, m : Receives(st, n, m)' <=> Receives(st, n, m)
  BY <1>1 DEF Receives, Reads, Delivers, IgnoresGroup
<1> QED BY <1>1, <1>2 DEF Firsts

LEMMA RowsStay ==
  ASSUME RowsInOrder, UNCHANGED <<setting, handled, seen, pending, row, overtaken>>
  PROVE  RowsInOrder'
<1>1. SeenIsHandled'
  BY ReceiptsStay DEF RowsInOrder, SeenIsHandled
<1>2. WritesAreFirsts'
  BY ReceiptsStay DEF RowsInOrder, WritesAreFirsts, InOrder
<1>3. OneWritePending' /\ OneRowForKey' /\ LaterIsPending'
  BY DEF RowsInOrder, OneWritePending, OneRowForKey, LaterIsPending, InOrder
<1>4. FirstsAreWritten'
  BY ReceiptsStay DEF RowsInOrder, FirstsAreWritten
<1> QED BY <1>1, <1>2, <1>3, <1>4 DEF RowsInOrder

LEMMA ExpireKeepsRows ==
  ASSUME RowsInOrder, Expire
  PROVE  RowsInOrder'
<1>1. PICK s \in seen : /\ seen' = seen \ {s}
                        /\ overtaken' = overtaken \cup {RowOf(s[1])}
                        /\ UNCHANGED <<setting, handled, pending, row>>
  BY DEF Expire, RowOf
<1>2. \A m, st : RowOf(m) \notin overtaken' =>
        <<m, st>> # s /\ RowOf(m) \notin overtaken
  BY <1>1 DEF RowOf
<1>3. \A key : InOrder(key)' => InOrder(key)
  BY <1>1 DEF InOrder
<1>4. SeenIsHandled'
  BY <1>1, <1>2, ReceiptsStay DEF RowsInOrder, SeenIsHandled
<1>5. WritesAreFirsts'
  BY <1>1, <1>3, ReceiptsStay DEF RowsInOrder, WritesAreFirsts
<1>6. OneWritePending' /\ OneRowForKey' /\ LaterIsPending'
  BY <1>1, <1>3 DEF RowsInOrder, OneWritePending, OneRowForKey, LaterIsPending
<1>7. FirstsAreWritten'
  BY <1>1, <1>2, ReceiptsStay DEF RowsInOrder, FirstsAreWritten
<1> QED BY <1>4, <1>5, <1>6, <1>7 DEF RowsInOrder

LEMMA WriteRowKeepsRows ==
  ASSUME Shape, RowsInOrder, WriteRow
  PROVE  RowsInOrder'
<1>1. PICK w \in pending : /\ pending' = pending \ {w}
                           /\ row' = {r \in row : r.key # w.key} \cup {w}
                           /\ UNCHANGED <<setting, handled, seen, overtaken>>
  BY DEF WriteRow
<1>2. SeenIsHandled'
  BY <1>1, ReceiptsStay DEF RowsInOrder, SeenIsHandled
<1>3. \A key : InOrder(key)' <=> InOrder(key)
  BY <1>1 DEF InOrder
<1>4. WritesAreFirsts'
  <2>1. row' \cup pending' \subseteq row \cup pending
    BY <1>1
  <2> QED BY <1>1, <1>3, <2>1, ReceiptsStay DEF RowsInOrder, WritesAreFirsts
<1>5. OneWritePending' /\ OneRowForKey'
  BY <1>1, <1>3 DEF RowsInOrder, OneWritePending, OneRowForKey
<1>6. LaterIsPending'
  <2> SUFFICES ASSUME NEW u \in row', NEW v \in pending', u.key = v.key,
                      InOrder(u.key)
               PROVE  u.at < v.at
    BY <1>3 DEF LaterIsPending
  <2>1. CASE u = w
    BY <1>1, <2>1 DEF RowsInOrder, OneWritePending
  <2>2. CASE u # w
    BY <1>1, <2>2 DEF RowsInOrder, LaterIsPending
  <2> QED BY <2>1, <2>2
<1>7. FirstsAreWritten'
  <2> SUFFICES ASSUME NEW m, NEW st \in Statuses, NEW n \in 1..handled,
                      RowOf(m) \notin overtaken,
                      conf.saveMessages, Firsts(st, n, m)
               PROVE  \E x \in row' \cup pending' : x.key = RowOf(m) /\ x.at >= n
    BY <1>1, ReceiptsStay DEF FirstsAreWritten
  <2>1. PICK x \in row \cup pending : x.key = RowOf(m) /\ x.at >= n
    BY DEF RowsInOrder, FirstsAreWritten
  <2>2. CASE x \in row' \cup pending'
    BY <2>1, <2>2
  <2>3. CASE x \notin row' \cup pending'
    <3>1. x \in row /\ x.key = w.key /\ w \in row'
      BY <1>1, <2>1, <2>3
    <3>2. x.at \in Nat /\ w.at \in Nat
      BY <1>1, <3>1 DEF Shape, RowsShape
    <3>3. InOrder(x.key)
      BY <2>1 DEF InOrder, RowOf
    <3>4. x.at < w.at
      BY <3>1, <3>3 DEF RowsInOrder, LaterIsPending
    <3>5. w.at >= n
      BY <2>1, <3>2, <3>4
    <3> QED BY <2>1, <3>1, <3>5
  <2> QED BY <2>2, <2>3
<1> QED BY <1>2, <1>4, <1>5, <1>6, <1>7 DEF RowsInOrder

LEMMA WritesNothingKeepsRows ==
  ASSUME Shape, RowsInOrder, WritesNothing, handled' = handled + 1,
         UNCHANGED setting
  PROVE  RowsInOrder'
<1>1. UNCHANGED <<seen, pending, row, overtaken>>
  BY DEF WritesNothing
<1>2. handled \in Nat /\ 1..handled' = (1..handled) \cup {handled + 1}
  <2>1. handled \in Nat
    BY DEF Shape, ServerShape
  <2> QED BY <2>1
<1>3. ASSUME NEW m, NEW st \in Statuses, Receives(st, handled + 1, m),
             RowOf(m) \notin overtaken
      PROVE  <<m, st>> \in seen /\ \E n \in 1..handled : Receives(st, n, m)
  BY <1>3 DEF WritesNothing, RowsInOrder, SeenIsHandled
<1>4. SeenIsHandled'
  BY <1>1, <1>2, <1>3, ReceiptsStay DEF RowsInOrder, SeenIsHandled
<1>5. WritesAreFirsts' /\ OneWritePending' /\ OneRowForKey' /\ LaterIsPending'
  BY <1>1, ReceiptsStay DEF RowsInOrder, WritesAreFirsts, OneWritePending,
     OneRowForKey, LaterIsPending, InOrder
<1>6. FirstsAreWritten'
  <2> SUFFICES ASSUME NEW m, NEW st \in Statuses, NEW n \in 1..handled',
                      RowOf(m) \notin overtaken,
                      conf.saveMessages, Firsts(st, n, m)
               PROVE  \E x \in row \cup pending : x.key = RowOf(m) /\ x.at >= n
    BY <1>1, ReceiptsStay DEF FirstsAreWritten
  <2>1. n # handled + 1
    <3> SUFFICES ASSUME n = handled + 1
                 PROVE  FALSE
      OBVIOUS
    <3>1. PICK d \in 1..handled : Receives(st, d, m)
      BY <1>3 DEF Firsts
    <3>2. d \in 1..n - 1
      BY <1>2, <3>1
    <3> QED BY <3>1, <3>2 DEF Firsts
  <2> QED BY <1>2, <2>1 DEF RowsInOrder, FirstsAreWritten
<1> QED BY <1>4, <1>5, <1>6 DEF RowsInOrder

LEMMA WritesOtherKeepsRows ==
  ASSUME Shape, RowsInOrder, WritesOther, handled' = handled + 1, UNCHANGED setting
  PROVE  RowsInOrder'
<1>1. UNCHANGED seen /\ \A m, st : ~Receives(st, handled + 1, m)
  BY DEF WritesOther
<1>2. PICK w : /\ w.key[1] # "message" /\ w.at = handled + 1
               /\ \/ WriteRows({w}) /\ UNCHANGED row
                  \/ /\ row' = {r \in row : r.key # w.key} \cup {w}
                     /\ UNCHANGED <<pending, overtaken>>
  BY DEF WritesOther
<1>3. handled \in Nat /\ 1..handled' = (1..handled) \cup {handled + 1}
  <2>1. handled \in Nat
    BY DEF Shape, ServerShape
  <2> QED BY <2>1
<1>4. overtaken \subseteq overtaken' /\ \A m : RowOf(m) \in overtaken' =>
        RowOf(m) \in overtaken
  BY <1>2 DEF WriteRows, RowOf
<1>5. /\ \A key : InOrder(key)' => InOrder(key)
      /\ \A x \in pending' : InOrder(x.key) => x \in pending
      /\ \A x \in row' : InOrder(x.key) => x \in row
      /\ \A x \in row \cup pending : x.key[1] = "message" =>
           x \in row' \cup pending'
  BY <1>2, <1>4 DEF InOrder, WriteRows
<1>6. SeenIsHandled'
  BY <1>1, <1>3, <1>4, ReceiptsStay DEF RowsInOrder, SeenIsHandled
<1>7. WritesAreFirsts'
  BY <1>5, ReceiptsStay DEF RowsInOrder, WritesAreFirsts
<1>8. OneWritePending' /\ LaterIsPending'
  BY <1>5 DEF RowsInOrder, OneWritePending, LaterIsPending
<1>9. OneRowForKey'
  BY <1>2 DEF RowsInOrder, OneRowForKey
<1>10. FirstsAreWritten'
  <2> SUFFICES ASSUME NEW m, NEW st \in Statuses, NEW n \in 1..handled',
                      RowOf(m) \notin overtaken',
                      conf.saveMessages, Firsts(st, n, m)
               PROVE  \E x \in row' \cup pending' : x.key = RowOf(m) /\ x.at >= n
    BY ReceiptsStay DEF FirstsAreWritten
  <2>1. n \in 1..handled /\ RowOf(m) \notin overtaken
    BY <1>1, <1>3, <1>4 DEF Firsts
  <2>2. PICK x \in row \cup pending : x.key = RowOf(m) /\ x.at >= n
    BY <2>1 DEF RowsInOrder, FirstsAreWritten
  <2>3. x.key[1] = "message"
    BY <2>2 DEF RowOf
  <2> QED BY <1>5, <2>2, <2>3
<1> QED BY <1>6, <1>7, <1>8, <1>9, <1>10 DEF RowsInOrder

LEMMA ReceiptKeepsRows ==
  ASSUME Shape, RowsInOrder, NEW st \in Statuses, NEW new, WritesReceipt(st, new),
         handled' = handled + 1, UNCHANGED setting
  PROVE  RowsInOrder'
<1> DEFINE Write(m) == [key |-> RowOf(m), value |-> st, at |-> handled + 1]
<1>1. /\ \A m : m \in new <=> Receives(st, handled + 1, m) /\ <<m, st>> \notin seen
      /\ \A m, s : s \in Statuses /\ s # st => ~Receives(s, handled + 1, m)
      /\ seen' = seen \cup (new \X {st}) /\ UNCHANGED row
  BY DEF WritesReceipt
<1>2. IF conf.saveMessages THEN WriteRows({Write(m) : m \in new}) ELSE UNCHANGED <<pending, overtaken>>
  BY DEF WritesReceipt, RowOf
<1>3. handled \in Nat /\ 1..handled' = (1..handled) \cup {handled + 1}
  <2>1. handled \in Nat
    BY DEF Shape, ServerShape
  <2> QED BY <2>1
<1>4. overtaken \subseteq overtaken'
  BY <1>2 DEF WriteRows
<1>5. \A key : InOrder(key)' => InOrder(key)
  BY <1>4 DEF InOrder
<1>6. /\ pending \subseteq pending'
      /\ \A x \in pending' :
           x \in pending \/ (conf.saveMessages /\ \E m \in new : x = Write(m))
      /\ conf.saveMessages => \A m \in new : Write(m) \in pending'
      /\ \A u \in pending, m \in new : conf.saveMessages /\ u.key = RowOf(m) =>
           RowOf(m) \in overtaken'
  <2>1. \A m : Write(m).key = RowOf(m)
    OBVIOUS
  <2> HIDE DEF Write
  <2> QED BY <1>2, <2>1 DEF WriteRows
<1>7. \A m : /\ Write(m).key = RowOf(m) /\ Write(m).value = st /\ Write(m).at = handled + 1
             /\ RowOf(m)[1] = "message" /\ RowOf(m)[2] = m
  BY DEF RowOf
<1> HIDE DEF Write
<1>8. SeenIsHandled'
  <2> SUFFICES ASSUME NEW m, NEW s \in Statuses, RowOf(m) \notin overtaken'
               PROVE  <<m, s>> \in seen' <=>
                        \E n \in 1..handled' : Receives(s, n, m)
    BY ReceiptsStay DEF SeenIsHandled
  <2>1. <<m, s>> \in seen <=> \E n \in 1..handled : Receives(s, n, m)
    BY <1>4 DEF RowsInOrder, SeenIsHandled
  <2>2. <<m, s>> \in seen' <=> <<m, s>> \in seen \/ (m \in new /\ s = st)
    BY <1>1
  <2> QED BY <1>1, <1>3, <2>1, <2>2
<1>9. ASSUME NEW m \in new, RowOf(m) \notin overtaken'
      PROVE  Firsts(st, handled + 1, m)
  <2>1. Receives(st, handled + 1, m) /\ <<m, st>> \notin seen
    BY <1>1
  <2>2. \A d \in 1..handled : ~Receives(st, d, m)
    BY <1>4, <1>9, <2>1 DEF RowsInOrder, SeenIsHandled
  <2>3. 1..(handled + 1) - 1 = 1..handled
    BY <1>3
  <2> QED BY <2>1, <2>2, <2>3 DEF Firsts
<1>10. WritesAreFirsts'
  <2> SUFFICES ASSUME NEW w \in row \cup pending', InOrder(w.key)'
               PROVE  /\ w.key = RowOf(w.key[2]) /\ conf.saveMessages
                      /\ w.value \in Statuses /\ Firsts(w.value, w.at, w.key[2])
    BY <1>1, ReceiptsStay DEF WritesAreFirsts
  <2>1. CASE w \in row \cup pending
    BY <1>5, <2>1 DEF RowsInOrder, WritesAreFirsts
  <2>2. CASE w \notin row \cup pending
    <3>1. PICK m \in new : w = Write(m) /\ conf.saveMessages
      BY <1>6, <2>2
    <3>2. RowOf(m) \notin overtaken'
      BY <1>7, <3>1 DEF InOrder
    <3> QED BY <1>7, <1>9, <3>1, <3>2
  <2> QED BY <2>1, <2>2
<1>11. OneWritePending'
  <2> SUFFICES ASSUME NEW u \in pending', NEW v \in pending', u.key = v.key,
                      InOrder(u.key)'
               PROVE  u = v
    BY DEF OneWritePending
  <2>1. ASSUME NEW a \in pending', NEW m \in new, conf.saveMessages,
               a.key = RowOf(m),
               a.key \notin overtaken'
        PROVE  a = Write(m)
    <3>1. a \notin pending
      BY <1>6, <2>1
    <3>2. PICK j \in new : a = Write(j)
      BY <1>6, <3>1
    <3>3. j = m
      BY <1>7, <2>1, <3>2
    <3> QED BY <3>2, <3>3
  <2>2. CASE u \in pending /\ v \in pending
    BY <1>5, <2>2 DEF RowsInOrder, OneWritePending
  <2>3. CASE u \notin pending
    <3>1. PICK m \in new : u = Write(m) /\ conf.saveMessages
      BY <1>6, <2>3
    <3> QED BY <1>7, <2>1, <3>1 DEF InOrder
  <2>4. CASE v \notin pending
    <3>1. PICK m \in new : v = Write(m) /\ conf.saveMessages
      BY <1>6, <2>4
    <3> QED BY <1>7, <2>1, <3>1 DEF InOrder
  <2> QED BY <2>2, <2>3, <2>4
<1>12. OneRowForKey'
  BY <1>1 DEF RowsInOrder, OneRowForKey
<1>13. LaterIsPending'
  <2> SUFFICES ASSUME NEW u \in row, NEW v \in pending', u.key = v.key,
                      InOrder(u.key)'
               PROVE  u.at < v.at
    BY <1>1 DEF LaterIsPending
  <2>1. CASE v \in pending
    BY <1>5, <2>1 DEF RowsInOrder, LaterIsPending
  <2>2. CASE v \notin pending
    <3>1. v.at = handled + 1
      BY <1>6, <1>7, <2>2
    <3>2. u.at \in 1..handled
      BY DEF Shape, RowsShape
    <3> QED BY <1>3, <3>1, <3>2
  <2> QED BY <2>1, <2>2
<1>14. FirstsAreWritten'
  <2> SUFFICES ASSUME NEW m, NEW s \in Statuses, NEW n \in 1..handled',
                      RowOf(m) \notin overtaken',
                      conf.saveMessages, Firsts(s, n, m)
               PROVE  \E x \in row \cup pending' : x.key = RowOf(m) /\ x.at >= n
    BY <1>1, ReceiptsStay DEF FirstsAreWritten
  <2>1. RowOf(m) \notin overtaken
    BY <1>4
  <2>2. CASE n \in 1..handled
    <3>1. \E x \in row \cup pending : x.key = RowOf(m) /\ x.at >= n
      BY <2>1, <2>2 DEF RowsInOrder, FirstsAreWritten
    <3> QED BY <1>6, <3>1
  <2>3. CASE n = handled + 1
    <3>1. s = st
      BY <1>1, <2>3 DEF Firsts
    <3>2. \A d \in 1..handled : ~Receives(st, d, m)
      <4>1. 1..n - 1 = 1..handled
        BY <1>3, <2>3
      <4> QED BY <3>1, <4>1 DEF Firsts
    <3>3. <<m, st>> \notin seen
      BY <2>1, <3>2 DEF RowsInOrder, SeenIsHandled
    <3>4. m \in new
      BY <1>1, <2>3, <3>1, <3>3 DEF Firsts
    <3>5. Write(m) \in pending' /\ Write(m).key = RowOf(m) /\ Write(m).at >= n
      BY <1>3, <1>6, <1>7, <2>3, <3>4
    <3> QED BY <3>5
  <2> QED BY <1>3, <2>2, <2>3
<1> QED BY <1>8, <1>10, <1>11, <1>12, <1>13, <1>14 DEF RowsInOrder

LEMMA RowsAreAlwaysInOrder == Spec => []RowsInOrder
<1>1. Init => RowsInOrder
  <2> SUFFICES ASSUME Init
               PROVE  RowsInOrder
    OBVIOUS
  <2>1. row = {} /\ pending = {} /\ seen = {} /\ 1..handled = {}
    BY DEF Init
  <2> QED
    BY <2>1 DEF RowsInOrder, SeenIsHandled, WritesAreFirsts, OneWritePending,
       OneRowForKey, LaterIsPending, FirstsAreWritten
<1>2. Sound /\ RowsInOrder /\ [Next]_vars => RowsInOrder'
  <2> SUFFICES ASSUME Sound, Shape, RowsInOrder, [Next]_vars
               PROVE  RowsInOrder'
    BY DEF Sound
  <2>1. CASE UNCHANGED vars
    BY <2>1, RowsStay DEF vars, eventVars
  <2>2. CASE Handler
    BY <2>2, HandlerMakes, HandlerWrites, WritesNothingKeepsRows,
       WritesOtherKeepsRows, ReceiptKeepsRows
  <2>3. CASE Posting
    BY <2>3, HttpKeepsShape, RowsStay
  <2>4. CASE Elsewhere
    <3>1. CASE Expire
      BY <3>1, ExpireKeepsRows
    <3>2. CASE WriteRow
      BY <3>2, WriteRowKeepsRows
    <3>3. CASE Elsewhere /\ ~Expire /\ ~WriteRow
      BY <3>3, RowsStay DEF Elsewhere, Cause, BrokerFault, BrokerReturns,
         LossIsNoticed, RabbitWorks, eventVars
    <3> QED BY <2>4, <3>1, <3>2, <3>3
  <2>5. ASSUME NEW n \in 1..Len(posts), CallSteps(<<n, "call">>)
        PROVE  RowsInOrder'
    <3>1. UNCHANGED <<setting, handled, seen, pending, row, overtaken>>
      BY <2>5, CallIsLaneOnly DEF LaneOnly
    <3> QED BY <3>1, RowsStay
  <2>6. ASSUME NEW n \in 1..Len(posts), SendToGlobalQueues(<<n, "global">>)
        PROVE  RowsInOrder'
    BY <2>6, GlobalsKeepShape, RowsStay
  <2> QED BY <2>1, <2>2, <2>3, <2>4, <2>5, <2>6, StepIs
<1> QED BY <1>1, <1>2, SpecIsSound, PTL DEF Spec

(* The row of a message that has been read says so, but for the cases that *)
(* are named (whatsmeow.go:1637, 1662).                                    *)
THEOREM OlderRowOnlyByRaceHolds == Spec => []OlderRowOnlyByRace
<1>1. Sound /\ RowsInOrder => OlderRowOnlyByRace
  <2> SUFFICES ASSUME Shape, RowsInOrder, NEW r \in row, NEW m, m = r.key[2],
                      r.key[1] = "message", r.value = "Delivered",
                      r.key \notin overtaken,
                      \A w \in pending : w.key # r.key,
                      \E n \in 1..handled : Reads(n, m)
               PROVE  \E n \in 1..handled :
                        Reads(n, m) /\ \A d \in 1..n : ~Delivers(d, m)
    BY DEF Sound, OlderRowOnlyByRace
  <2>1. /\ r.key = RowOf(m) /\ conf.saveMessages /\ Firsts("Delivered", r.at, m)
    BY DEF RowsInOrder, WritesAreFirsts, InOrder
  <2> DEFINE S == {n \in 1..handled : Reads(n, m)}
  <2>2. handled \in Nat /\ S \in SUBSET Nat /\ S # {} /\ S \subseteq 1..handled
    <3>1. handled \in Nat
      BY DEF Shape, ServerShape
    <3> QED BY <3>1
  <2>3. PICK x \in S : \A y \in S : x <= y
    BY <2>2, Least
  <2>4. x \in 1..handled /\ Reads(x, m) /\ \A d \in 1..x - 1 : ~Reads(d, m)
    BY <2>2, <2>3
  <2>5. Firsts("Read", x, m)
    BY <2>4 DEF Firsts, Receives
  <2>6. PICK w \in row \cup pending : w.key = RowOf(m) /\ w.at >= x
    BY <2>1, <2>4, <2>5 DEF RowsInOrder, FirstsAreWritten, Statuses
  <2>7. w = r
    BY <2>1, <2>6 DEF RowsInOrder, OneRowForKey
  <2>8. r.at \in 1..handled
    BY DEF Shape, RowsShape
  <2>9. Delivers(r.at, m) /\ \A d \in 1..r.at - 1 : ~Delivers(d, m)
    BY <2>1 DEF Firsts, Receives
  <2>10. x # r.at
    BY <2>4, <2>9 DEF Reads, Delivers
  <2>11. 1..x \subseteq 1..r.at - 1
    BY <2>2, <2>4, <2>6, <2>7, <2>8, <2>10
  <2> QED BY <2>4, <2>9, <2>11
<1> QED BY <1>1, SpecIsSound, RowsAreAlwaysInOrder, PTL

=============================================================================
