-------------------------- MODULE MCWebhookStore --------------------------
(***************************************************************************)
(* An instance of WebhookStore.                                            *)
(***************************************************************************)
EXTENDS WebhookStore, TLC

(* A create that leaves everything to the defaults, and a PUT that turns   *)
(* both flags off.                                                         *)
Inputs ==
  { [enabled |-> {}, ignoreFromMe |-> {}, chatType |-> ""],
    [enabled |-> {FALSE}, ignoreFromMe |-> {FALSE}, chatType |-> "group"] }

Symmetry == Permutations(Webhook) \cup Permutations(Request)
=============================================================================
