---------------------------- MODULE SendContract ----------------------------
(***************************************************************************)
(* What a caller of POST /send/... may rely on, whatever happens to the    *)
(* instance meanwhile: a message is not sent twice, "ok" is said of what   *)
(* has been sent and told, and an error of what has not, unless the answer *)
(* of WhatsApp itself was lost.                                            *)
(***************************************************************************)
EXTENDS Naturals

CONSTANT Request

VARIABLES
  parts,      \* the messages each request consists of
  events,     \* the events that tell of it
  delivered, published, answer

contractVars == <<parts, events, delivered, published, answer>>

Init ==
  /\ parts \in [Request -> Nat \ {0}]
  /\ events \in [Request -> {0, 1}]
  /\ delivered = [r \in Request |-> 0]
  /\ published = [r \in Request |-> 0]
  /\ answer = [r \in Request |-> "none"]

Pending(r) == answer[r] = "none"

Says(r, a) == answer' = [answer EXCEPT ![r] = a]

Deliver(r) ==
  /\ delivered[r] < parts[r]
  /\ delivered' = [delivered EXCEPT ![r] = @ + 1]

(* One more part is sent; WhatsApp may accept it and the answer be lost.   *)
Part(r) ==
  /\ Pending(r) /\ Deliver(r)
  /\ UNCHANGED answer \/ Says(r, "error")
  /\ UNCHANGED <<parts, events, published>>

(* An error is said while a part is still missing.                         *)
Fail(r) ==
  /\ Pending(r) /\ delivered[r] < parts[r] /\ Says(r, "error")
  /\ UNCHANGED <<parts, events, delivered, published>>

(* The handler panics before it has told of anything.                      *)
Panic(r) ==
  /\ Pending(r) /\ Says(r, "panic")
  /\ UNCHANGED <<parts, events, delivered, published>>

(* "ok" comes with the last part or after it, and with the events.         *)
Succeed(r) ==
  /\ Pending(r) /\ Says(r, "ok")
  /\ UNCHANGED delivered \/ Deliver(r)
  /\ delivered'[r] = parts[r]
  /\ published' = [published EXCEPT ![r] = events[r]]
  /\ UNCHANGED <<parts, events>>

Next == \E r \in Request : Part(r) \/ Fail(r) \/ Panic(r) \/ Succeed(r)

Spec == Init /\ [][Next]_contractVars

(* No message twice, and "ok" is the truth.                                *)
Truthful ==
  \A r \in Request :
    /\ delivered[r] <= parts[r]
    /\ answer[r] = "ok" =>
         delivered[r] = parts[r] /\ published[r] = events[r]
    /\ answer[r] # "ok" => published[r] = 0
=============================================================================
