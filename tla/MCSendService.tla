--------------------------- MODULE MCSendService ---------------------------
(***************************************************************************)
(* An instance of SendService: one request for anything that can be sent,  *)
(* and a status that uses the same client.                                 *)
(***************************************************************************)
EXTENDS SendService

CONSTANTS r1, r2

Plain ==
  [kind |-> "text", to |-> "user", media |-> "none", valid |-> TRUE,
   caption |-> FALSE, delay |-> FALSE, mention |-> "none",
   buttons |-> [reply |-> 0, pix |-> 0, other |-> 0], items |-> 0]

Simple ==
  {[Plain EXCEPT !.kind = "text", !.delay = TRUE],
   [Plain EXCEPT !.kind = "poll", !.to = "group"],
   [Plain EXCEPT !.kind = "list"],
   [Plain EXCEPT !.kind = "location"], [Plain EXCEPT !.kind = "contact"],
   [Plain EXCEPT !.kind = "link", !.to = "badUser"],
   [Plain EXCEPT !.kind = "carousel", !.to = "badGroup"]}

Picky ==
  {[Plain EXCEPT !.kind = k, !.valid = v] :
     k \in {"sticker", "statusText"}, v \in BOOLEAN}

Files ==
  {[Plain EXCEPT !.kind = k, !.media = "audio"] :
     k \in {"mediaUrl", "mediaFile"}}
  \cup
  {[Plain EXCEPT !.kind = k, !.media = m, !.to = "newsletter"] :
     k \in {"mediaUrl", "mediaFile"}, m \in {"document", "other"}}

GroupFiles ==
  {[Plain EXCEPT !.kind = k, !.media = "document", !.to = "group",
                 !.mention = n, !.caption = c] :
     k \in {"mediaUrl", "mediaFile"}, n \in {"none", "some", "all"},
     c \in BOOLEAN}

StatusFiles ==
  {[Plain EXCEPT !.kind = k, !.media = m] :
     k \in {"statusMediaUrl", "statusMediaFile"}, m \in {"image", "audio"}}

ButtonSets ==
  {[Plain EXCEPT !.kind = "button", !.delay = (n = 1),
                 !.buttons = [reply |-> n, pix |-> p, other |-> o]] :
     n \in {0, 1, 4}, p \in 0..2, o \in 0..1}

Albums ==
  {[Plain EXCEPT !.kind = "album", !.items = n] : n \in {1, 2, 21}}
  \cup {[Plain EXCEPT !.kind = "album", !.items = 2, !.valid = FALSE]}

AllBodies ==
  Simple \cup Picky \cup Files \cup GroupFiles
    \cup StatusFiles \cup ButtonSets \cup Albums

BodiesOf == [r \in Request |-> IF r = r1 THEN AllBodies 
                                  ELSE {[Plain EXCEPT !.kind = "statusText"]}]
=============================================================================
