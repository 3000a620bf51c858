--------------------------- MODULE RabbitProducer ---------------------------
(***************************************************************************)
(* The RabbitMQ producer (pkg/events/rabbitmq): the goroutines that        *)
(* publish share one connection, p.conn, which each of them tests and      *)
(* replaces without a lock.                                                *)
(*                                                                         *)
(* A connection is an identifier; alive holds those that the client takes  *)
(* for open, dying those of them that the broker no longer serves, and conn*)
(* is the one p.conn points to.  A publisher that has opened a channel     *)
(* keeps the connection of it in chan: NoConn there is the nil channel that*)
(* a failed reopening leaves.  written says what the publish of a call of  *)
(* Produce has come to: the broker has it, or it is lost with its          *)
(* connection.  The history variable shared says that another publisher has*)
(* dialled since the call began.                                           *)
(***************************************************************************)
EXTENDS Naturals, FiniteSets

CONSTANTS Publisher, Conn, NoConn

ASSUME ConnAssumption == NoConn \notin Conn

VARIABLES
  conn,         \* p.conn
  alive,        \* the connections that the client takes for open
  dying,        \* those of them that are lost, which it has not noticed
  up,           \* the broker accepts connections
  configured,   \* AMQP_URL is set
  pub           \* the calls of Produce

rabbitVars == <<conn, alive, dying, up, configured, pub>>

(* The tries of publishWithRetry and of reconnect.                         *)
maxRetries == 3
MaxDials == 3

(* What the callers pass as rabbitmqEnable: "global", the setting of the   *)
(* instance ("enabled" or "true"), or the url of a webhook.                *)
Enables == {"global", "enabled", "true", "url"}
Honoured == {"global", "enabled"}

PublisherPc == {"idle", "ensure", "dial", "open", "declare", "publish",
                "reensure", "redial", "reopen", "ok", "error", "panic"}

Idle == [pc |-> "idle", enable |-> "global", dials |-> 0, attempt |-> 0,
         chan |-> NoConn, written |-> "nothing", reopened |-> FALSE, shared |-> FALSE]

RabbitInit ==
  /\ conn = NoConn
  /\ alive = {}
  /\ dying = {}
  /\ up = TRUE
  /\ configured \in BOOLEAN
  /\ pub = [p \in Publisher |-> Idle]

-----------------------------------------------------------------------------
(* Outside the program: the broker and its connections.                    *)

LoseConnection(c) ==
  /\ c \in alive \ dying
  /\ dying' = dying \cup {c}
  /\ UNCHANGED <<conn, alive, up, configured, pub>>

BrokerStops ==
  /\ up
  /\ up' = FALSE
  /\ dying' = alive
  /\ UNCHANGED <<conn, alive, configured, pub>>

(* The client learns of a lost connection, at once from the socket or when *)
(* the heartbeat of thirty seconds stays away.                             *)
Notices(c) ==
  /\ c \in dying
  /\ dying' = dying \ {c}
  /\ alive' = alive \ {c}
  /\ UNCHANGED <<conn, up, configured, pub>>

BrokerStarts ==
  /\ ~up
  /\ up' = TRUE
  /\ UNCHANGED <<conn, alive, dying, configured, pub>>

-----------------------------------------------------------------------------
AtPub(p, pcs) == pub[p].pc \in pcs

Moves(p, to) ==
  /\ pub' = [pub EXCEPT ![p] = to]
  /\ UNCHANGED <<conn, alive, dying, up, configured>>

Goes(p, pc) == Moves(p, [pub[p] EXCEPT !.pc = pc])

Produce(p, enable) ==
  /\ AtPub(p, {"idle"})
  /\ Moves(p, [Idle EXCEPT !.enable = enable,
                           !.pc = IF configured THEN "ensure" ELSE "error"])

(* Faulty variant: a connection is dialled without the test of the one there is.*)
Ensure_NoTest(p) ==
  /\ AtPub(p, {"ensure", "reensure"})
  /\ Moves(p, [pub[p] EXCEPT !.pc = IF @ = "ensure" THEN "dial" ELSE "redial",
                             !.dials = 0])

(* ensureConnection, from Produce and from publishWithRetry.               *)
Ensure(p) ==
  /\ AtPub(p, {"ensure", "reensure"})
  /\ LET first == pub[p].pc = "ensure" IN
     IF conn \in alive
     THEN Goes(p, IF first THEN "open" ELSE "reopen")
     ELSE Moves(p, [pub[p] EXCEPT !.pc = IF first THEN "dial" ELSE "redial",
                                  !.dials = 0])

(* Faulty variant: the last attempt's error is dropped.                  *)
AfterAttempt_NoError(r, failed) ==
  IF r.attempt < maxRetries
  THEN [r EXCEPT !.pc = "publish", !.attempt = @ + 1]
  ELSE [r EXCEPT !.pc = "ok"]

(* The attempt is over with an error, or with the nil that a reopened      *)
(* channel leaves in err; after the last one that is the answer.           *)
AfterAttempt(r, failed) ==
  IF r.attempt < maxRetries
  THEN [r EXCEPT !.pc = "publish", !.attempt = @ + 1]
  ELSE [r EXCEPT !.pc = IF failed THEN "error" ELSE "ok"]

Unused == {c \in Conn : c \notin alive /\ c # conn
                          /\ \A p \in Publisher : c # pub[p].chan}

(* What all calls under way see of a dial of p: p.conn has been assigned.  *)
Dialled(p, r) ==
  pub' = [q \in Publisher |->
            CASE q = p -> r
              [] q # p /\ pub[q].pc = "idle" -> pub[q]
              [] OTHER -> [pub[q] EXCEPT !.shared = TRUE]]

DialSucceeds(p) ==
  /\ AtPub(p, {"dial", "redial"})
  /\ up
  /\ Unused # {}
  /\ LET c == CHOOSE c \in Unused : TRUE IN
     conn' = c /\ alive' = alive \cup {c}
  /\ Dialled(p, [pub[p] EXCEPT
                   !.pc = IF @ = "dial" THEN "open" ELSE "reopen"])
  /\ UNCHANGED <<dying, up, configured>>

(* p.conn is assigned the nil that DialConfig returns with its error.      *)
DialFails(p) ==
  /\ AtPub(p, {"dial", "redial"})
  /\ ~up
  /\ conn' = NoConn
  /\ LET r == [pub[p] EXCEPT !.dials = @ + 1] IN
     Dialled(p, IF r.dials < MaxDials THEN r
                ELSE IF r.pc = "dial" THEN [r EXCEPT !.pc = "error"]
                ELSE AfterAttempt(r, TRUE))
  /\ UNCHANGED <<alive, dying, up, configured>>

(* p.conn.Channel(): a nil connection panics, a closed one is an error.    *)
(* Like the other calls that the broker answers, it ends on a connection   *)
(* that is lost when that is noticed.                                      *)
Open(p) ==
  /\ AtPub(p, {"open"})
  /\ conn \notin dying
  /\ CASE conn = NoConn -> Goes(p, "panic")
       [] conn # NoConn /\ conn \notin alive -> Goes(p, "error")
       [] OTHER -> Moves(p, [pub[p] EXCEPT !.pc = "declare", !.chan = conn])

(* Confirm, and for an enable that is honoured QueueDeclare.               *)
Declare(p) ==
  /\ AtPub(p, {"declare"})
  /\ pub[p].chan \notin dying
  /\ CASE pub[p].chan \notin alive -> Goes(p, "error")
       [] pub[p].chan \in alive /\ pub[p].enable \notin Honoured -> Goes(p, "ok")
       [] OTHER -> Moves(p, [pub[p] EXCEPT !.pc = "publish", !.attempt = 1])

(* The broker does not answer a publish, and its confirmation is not waited*)
(* for: what goes to a connection that is lost is taken for published.     *)
Publish(p) ==
  /\ AtPub(p, {"publish"})
  /\ pub[p].chan \in alive
  /\ Moves(p, [pub[p] EXCEPT !.pc = "ok",
                             !.written = IF pub[p].chan \in dying THEN "lost" ELSE "broker"])

PublishPanics(p) ==
  /\ AtPub(p, {"publish"})
  /\ pub[p].chan = NoConn
  /\ Goes(p, "panic")

(* Only the error of a closed channel is answered by reopening it.         *)
PublishFails(p) ==
  /\ AtPub(p, {"publish"})
  /\ pub[p].chan # NoConn /\ pub[p].chan \notin alive
  /\ \/ Goes(p, "reensure")
     \/ Moves(p, AfterAttempt(pub[p], TRUE))

Reopen(p) ==
  /\ AtPub(p, {"reopen"})
  /\ conn \notin dying
  /\ CASE conn = NoConn -> Goes(p, "panic")
       [] conn # NoConn /\ conn \notin alive ->
            Moves(p, AfterAttempt([pub[p] EXCEPT !.chan = NoConn], TRUE))
       [] OTHER ->
            Moves(p, AfterAttempt([pub[p] EXCEPT !.chan = conn,
                              !.reopened = (pub[p].attempt = maxRetries)], FALSE))

Returns(p) ==
  /\ AtPub(p, {"ok", "error"})
  /\ Moves(p, Idle)

Publishing(p) ==
  \/ Ensure(p) \/ DialSucceeds(p) \/ DialFails(p) \/ Open(p) \/ Declare(p)
  \/ Publish(p) \/ PublishPanics(p) \/ PublishFails(p) \/ Reopen(p)

Broker ==
  \/ \E c \in Conn : LoseConnection(c) \/ Notices(c)
  \/ BrokerStops
  \/ BrokerStarts

RabbitNext ==
  \/ Broker
  \/ \E p \in Publisher :
       \/ \E enable \in Enables : Produce(p, enable)
       \/ Publishing(p)
       \/ Returns(p)

RabbitSpec == RabbitInit /\ [][RabbitNext]_rabbitVars

-----------------------------------------------------------------------------
(* The shape of the state.                                                 *)
PublisherState ==
  [pc : PublisherPc, enable : Enables, dials : 0..MaxDials,
   attempt : 0..maxRetries, chan : Conn \cup {NoConn},
   written : {"nothing", "lost", "broker"}, reopened : BOOLEAN, shared : BOOLEAN]

RabbitTypeOK ==
  /\ conn \in Conn \cup {NoConn}
  /\ alive \subseteq Conn /\ dying \subseteq alive
  /\ up \in BOOLEAN
  /\ configured \in BOOLEAN
  /\ pub \in [Publisher -> PublisherState]

(* What Produce comes to.  An error means that nothing was handed to the   *)
(* broker, whatever the retries did, and an ok that it was, once, unless   *)
(* the enable is not honoured (rabbitmq_producer.go:203), a reopening after*)
(* the last attempt was taken for a success (line 154), or the connection  *)
(* was already lost, as no confirmation is awaited (line 194).  It panics, *)
(* before it has published, on a nil connection when another call has      *)
(* dialled meanwhile (line 102), and otherwise only on the nil channel of  *)
(* its own failed reopening (line 158).                                    *)
AnswerIsTruthful ==
  \A p \in Publisher : LET r == pub[p] IN
    /\ AtPub(p, {"error", "panic"}) => r.written = "nothing"
    /\ AtPub(p, {"ok"}) =>
         /\ r.written = "nothing" <=> r.enable \notin Honoured \/ r.reopened
         /\ r.written = "lost" => r.chan \notin alive \ dying
    /\ AtPub(p, {"panic"}) => r.shared \/ (r.attempt > 1 /\ r.chan = NoConn)

(* A connection that is open is abandoned, never to be closed, only by a   *)
(* dial that overlaps another one (rabbitmq_producer.go:102).              *)
LiveConnectionIsKept ==
  [][(conn \in alive /\ conn' # conn) =>
        \E p \in Publisher : AtPub(p, {"dial", "redial"}) /\ pub[p].shared]_rabbitVars
=============================================================================
