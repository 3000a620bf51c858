----------------------------- MODULE MCRestApi -----------------------------
(***************************************************************************)
(* An instance of RestApi: every operation, with everything it looks at,   *)
(* with one thing missing, empty or of the wrong type, and with numbers of *)
(* every kind; and the requests of the MCP server's tools.                 *)
(***************************************************************************)
EXTENDS McpTools

(* What a request of an operation may hold.                                *)
Fields(op) ==
  LET h == Routes[op].handler
      s == Routes[op].service
  IN h.wants \cup h.lists \cup h.typed \cup h.form
       \cup ({s[i].field : i \in DOMAIN s} \ {"none", "formatJid"})
       \cup (IF op = "MarkRead" THEN {"participant"} ELSE {})

AllFields ==
  UNION {Fields(op) : op \in DOMAIN Routes}
    \cup UNION {BuildTools[t].given \cup BuildTools[t].blank : t \in Routed}

US == Raw(<<1, 5, 5, 5, 1, 2, 3, 4, 5, 6, 7>>)
Brazil == Raw(<<5, 5, 3, 1, 9, 8, 7, 6, 5, 4, 3, 2, 1>>)

SomeNumbers ==
  {US, Brazil,
   Raw(<<5, 5, 2, 1, 9, 8, 7, 6, 5, 4, 3, 2, 1>>),
   Raw(<<5, 2, 1, 5, 5, 5, 1, 2, 3, 4, 5, 6, 7>>),
   [Raw(<<5, 4, 9, 1, 1, 2, 3, 4, 5, 6, 7, 8, 9>>) EXCEPT !.plus = TRUE],
   [Raw(<<1, 2, 0, 3, 6, 3, 1, 2, 3, 4, 5, 6, 7, 8, 9, 0, 1, 2>>)
      EXCEPT !.hyphen = TRUE],
   User(Brazil.digits),
   User(<<>>),
   [US EXCEPT !.rest = <<1, 2>>],
   [User(Brazil.digits) EXCEPT !.rest = <<1, 2>>],
   [Raw(<<>>) EXCEPT !.rest = US.digits],
   [Raw(<<>>) EXCEPT !.server = "broadcast"],
   [Raw(<<>>) EXCEPT !.other = 5],
   [Raw(<<>>) EXCEPT !.other = 20]}

Full(op) ==
  [form |-> "json", given |-> Fields(op), blank |-> {},
   listed |-> Routes[op].handler.lists, normalised |-> {}, to |-> US,
   formatJid |-> "absent"]

Without(b, f) ==
  [b EXCEPT !.given = @ \ {f}, !.listed = @ \ {f}]

Bodies(op) ==
  LET b == Full(op) IN
  IF ~Routes[op].handler.body THEN {b} ELSE
  {b, [b EXCEPT !.form = "broken", !.given = {}, !.listed = {}],
      [b EXCEPT !.form = "null", !.given = {}, !.listed = {}],
      [b EXCEPT !.form = "multipart", !.listed = {}]}
  \cup {Without(b, f) : f \in Fields(op)}
  \cup {[Without(b, f) EXCEPT !.blank = {f}] : f \in Fields(op)}
  \cup {[b EXCEPT !.listed = IF f \in @ THEN @ \ {f} ELSE @ \cup {f}] :
          f \in Fields(op) \cap {"number", "participants", "vcard.phone"}}
  \cup {[b EXCEPT !.to = n] : n \in SomeNumbers}
  \cup {[b EXCEPT !.formatJid = "true", !.to = Brazil],
        [b EXCEPT !.formatJid = "false", !.to = Brazil]}

WithKey(op, k, b) == [op |-> op, key |-> k, body |-> b]

AskedHere ==
  UNION {{WithKey(op, Routes[op].auth, b) : b \in Bodies(op)}
           \cup {WithKey(op, k, Full(op)) : k \in {"none", "instance", "admin"}} :
         op \in DOMAIN Routes}
    \cup {RequestOf(BuildTools[t], US) : t \in Routed}
=============================================================================
