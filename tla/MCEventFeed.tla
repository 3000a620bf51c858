---------------------------- MODULE MCEventFeed ----------------------------
(***************************************************************************)
(* An instance of EventFeed.  What the polls take, the socket and the      *)
(* active instance meet only in the end of the process: they are looked at *)
(* two by two.                                                             *)
(***************************************************************************)
EXTENDS EventFeed

SomeMixes ==
  {[of |-> {"events", "poll", "clear"}, calls |-> 2],
   [of |-> {"events", "socket"}, calls |-> 0],
   [of |-> {"use", "request", "leave"}, calls |-> 3],
   [of |-> {"use", "request", "reply", "leave"}, calls |-> 2]}
=============================================================================
