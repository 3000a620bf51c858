---------------------------- MODULE PhoneNumber ----------------------------
(***************************************************************************)
(* How a number becomes an address (pkg/utils/utils.go).  The digits are   *)
(* kept, because the rules for Mexico, Argentina and Brazil look at them;  *)
(* the other characters are only counted.                                  *)
(***************************************************************************)
EXTENDS Integers, Sequences, SequencesExt

(* server: what follows "@", if anything does.  plus: it begins with "+".  *)
(* other: letters, dots and so on; a hyphen is told apart from them.  All  *)
(* that is for what stands before a ":"; rest: the digits after it.        *)
Server == {"none", "user", "group", "lid", "broadcast", "newsletter"}

NumberType ==
  [server : Server, plus : BOOLEAN, digits : Seq(0..9),
   hyphen : BOOLEAN, other : Nat, rest : Seq(0..9)]

(* What the functions return with an error, or with "not ok".              *)
Invalid ==
  [server |-> "invalid", plus |-> FALSE, digits |-> <<>>,
   hyphen |-> FALSE, other |-> 0, rest |-> <<>>]

Raw(digits) ==
  [server |-> "none", plus |-> FALSE, digits |-> digits,
   hyphen |-> FALSE, other |-> 0, rest |-> <<>>]

User(digits) == [Raw(digits) EXCEPT !.server = "user"]

(* The length after spaces, parentheses and "+" have been taken out, and   *)
(* ":" with what follows it.                                               *)
Length(n) == Len(n.digits) + n.other + (IF n.hyphen THEN 1 ELSE 0)

StartsWith(digits, code) ==
  Len(digits) >= 2 /\ SubSeq(digits, 1, 2) = code

From(digits, k) == SubSeq(digits, k, Len(digits))

(* The numbers of thirteen digits of Mexico lose the two that follow the   *)
(* country's code, the ones of Argentina lose one.                         *)
FormatMXOrAR(digits) ==
  IF Len(digits) # 13 THEN digits
  ELSE IF StartsWith(digits, <<5, 2>>) THEN <<5, 2>> \o From(digits, 5)
  ELSE IF StartsWith(digits, <<5, 4>>) THEN <<5, 4>> \o From(digits, 4)
  ELSE digits

(* Faulty variant: a number that has lost its 9 is looked at again.        *)
FormatBR_Again(digits) ==
  IF /\ Len(digits) \in {12, 13} /\ StartsWith(digits, <<5, 5>>)
     /\ 10 * digits[3] + digits[4] >= 31
     /\ digits[5] >= 7
    THEN RemoveAt(digits, 5)
    ELSE digits

(* A mobile number of Brazil loses its 9 from area 31 on.                  *)
FormatBR(digits) ==
  IF /\ Len(digits) = 13 /\ StartsWith(digits, <<5, 5>>)
     /\ 10 * digits[3] + digits[4] >= 31
     /\ digits[5] >= 7
    THEN RemoveAt(digits, 5)
    ELSE digits

(* A number is cut at its ":"; an address keeps the device that follows it.*)
CreateJID(n) ==
  IF n.server # "none" THEN n
  ELSE IF Length(n) >= 18
    THEN [n EXCEPT !.server = "group", !.plus = FALSE, !.other = 0, !.rest = <<>>]
  ELSE IF n.digits = <<>> THEN Invalid
  ELSE [User(FormatBR(FormatMXOrAR(n.digits))) EXCEPT !.plus = TRUE]

(* It wants the part before "@" not to be empty, but for a broadcast.      *)
ParseJID(n) ==
  LET jid == CreateJID(n)
  IN IF /\ jid.digits = <<>> /\ ~jid.hyphen /\ jid.other = 0
        /\ jid.server # "broadcast"
       THEN Invalid
       ELSE jid

(* What WhatsApp is asked about: the number of a user is formatted anew,   *)
(* and one that cannot be is left alone.                                   *)
PrepareNumber(n, formatJid) ==
  LET jid == CreateJID(IF n.server = "user" THEN [n EXCEPT !.server = "none"]
                                            ELSE n)
  IN IF ~formatJid \/ jid = Invalid THEN n
     ELSE IF jid.server = "user" THEN [jid EXCEPT !.server = "none"]
     ELSE jid
=============================================================================
