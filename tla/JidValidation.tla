--------------------------- MODULE JidValidation ---------------------------
(***************************************************************************)
(* The middlewares that look at the addresses of a request before its      *)
(* handler does (pkg/middleware/jid_validation_middleware.go).             *)
(***************************************************************************)
EXTENDS PhoneNumber

CONSTANT Field      \* the names of the fields of requests

(* A request's body.  Every address in it is the same number.              *)
(*   given: the fields with something in them; blank: the ones that are    *)
(*   there with "", [], 0 or too few items; listed: the ones that hold an  *)
(*   array; normalised: the ones a middleware has rewritten.               *)
BodyType ==
  [form : {"json", "null", "broken", "multipart"},
   given : SUBSET Field, blank : SUBSET Field, listed : SUBSET Field,
   normalised : SUBSET Field, to : NumberType,
   formatJid : {"absent", "true", "false"}]

Value(b, f) == IF f \in b.normalised THEN CreateJID(b.to) ELSE b.to

Valid(b) == CreateJID(b.to) # Invalid

(* A middleware refuses the body (400) or hands it on, perhaps rewritten.  *)
Refused == [form |-> "refused"]

(* Faulty variant: a field that is not there is written.                   *)
Rewrite_Absent(b, fields) == [b EXCEPT !.normalised = @ \cup fields]

Rewrite(b, fields) == [b EXCEPT !.normalised = @ \cup (fields \cap b.given)]

(* The body of a form is looked at and never rewritten.                    *)
ValidateFormFields(b, fields) ==
  IF \E f \in fields : IF f \in b.given THEN ~Valid(b) ELSE f = "number"
    THEN Refused ELSE b

(* What they have in common: JSON must parse, "null" has no fields, and    *)
(* another kind of body is somebody else's.                                *)
OfJSON(b, checked) ==
  CASE b.form = "broken" -> Refused
    [] b.form = "json" -> checked
    [] OTHER -> b

(* Anything but a string counts as an empty one.                           *)
ValidateJIDFields(b, fields) ==
  IF b.form = "multipart" THEN ValidateFormFields(b, fields)
  ELSE OfJSON(b,
    IF \E f \in fields : \/ f \in b.blank
                         \/ f \in b.given /\ (f \in b.listed \/ ~Valid(b))
      THEN Refused ELSE Rewrite(b, fields))

(* Faulty variant: only a string is read.                                  *)
ValidateNumberField_StringOnly(b) == ValidateJIDFields(b, {"number"})

(* "number" may be a string or an array of strings.                        *)
ValidateNumberField(b) ==
  IF b.form = "multipart" THEN ValidateFormFields(b, {"number"})
  ELSE OfJSON(b,
    IF "number" \in b.blank \/ ("number" \in b.given /\ ~Valid(b))
      THEN Refused ELSE Rewrite(b, {"number"}))

(* Only the items of an array are looked at.                               *)
ValidateMultipleNumbers(b, field) ==
  OfJSON(b,
    IF field \notin b.given \cap b.listed THEN b
    ELSE IF ~Valid(b) THEN Refused ELSE Rewrite(b, {field}))

(* With formatJid false the number stays as it came.                       *)
ValidateNumberFieldWithFormatJid(b) ==
  OfJSON(b,
    IF "number" \in b.blank THEN Refused
    ELSE IF b.formatJid = "false" \/ "number" \notin b.given THEN b
    ELSE IF ~Valid(b) THEN Refused ELSE Rewrite(b, {"number"}))

(* The contact's own phone is looked at and stays as it came.              *)
ValidateContactFields(b) ==
  OfJSON(b,
    IF {"number", "vcard.phone"} \cap (b.given \ b.listed) # {} /\ ~Valid(b)
      THEN Refused
      ELSE IF "number" \in b.listed THEN b ELSE Rewrite(b, {"number"}))
=============================================================================
