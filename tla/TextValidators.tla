---------------------------- MODULE TextValidators ----------------------------
(***************************************************************************)
(* Which item names, secret references, reasons and receipts the Plugin    *)
(* accepts from sources, configuration, callers and participants, and what *)
(* it keeps of them.                                                       *)
(*                                                                         *)
(* A text is a sequence of character classes, those the predicates tell    *)
(* apart; the state is one text, which grows character by character.       *)
(***************************************************************************)
EXTENDS Naturals, Sequences, FiniteSets, SequencesExt

CONSTANTS
  NameLimit,     \* bytes of an item name or secret reference (256)
  ReasonLimit,   \* bytes of a retention reason (512)
  ReceiptLimit,  \* bytes of a retention receipt (1024)
  MaxLength      \* bound: characters of a text

ASSUME LimitAssumption ==
  {NameLimit, ReasonLimit, ReceiptLimit, MaxLength} \subseteq Nat

VARIABLE text

(* A letter, digit, `_` or `-`; the two characters that paths are made of;  *)
(* any other printable one; U+00A0, which is white space in two bytes; a    *)
(* control character that is white space and one that is not.              *)
Chars == {"x", ".", "/", ":", "nbsp", "newline", "nul"}

White == {"nbsp", "newline"}
Control == {"newline", "nul"}

Init == text = << >>

Type(c) ==
  /\ Len(text) < MaxLength
  /\ text' = Append(text, c)

Clear == text # << >> /\ text' = << >>

Next == Clear \/ \E c \in Chars : Type(c)

Spec == Init /\ [][Next]_text

-----------------------------------------------------------------------------
(* Operations of str *)

len(t) == Len(t) + Cardinality({i \in DOMAIN t : t[i] = "nbsp"})

trim(t) ==
  LET solid == {i \in DOMAIN t : t[i] \notin White}
  IN IF solid = {} THEN << >> ELSE SubSeq(t, Min(solid), Max(solid))

(* str::split('/') *)
Segments(t) ==
  LET split[n \in 0..Len(t)] ==
        IF n = 0 THEN << << >> >>
        ELSE IF t[n] = "/" THEN Append(split[n - 1], << >>)
        ELSE Append(Front(split[n - 1]), Append(Last(split[n - 1]), t[n]))
  IN split[Len(t)]

Only(t, allowed) == \A i \in DOMAIN t : t[i] \in allowed

-----------------------------------------------------------------------------
(* The predicates *)

(* Mutant: empty segments are accepted. *)
PathWithEmptySegments(t) ==
  /\ t # << >>
  /\ Head(t) # "/" /\ Last(t) # "/"
  /\ \A i \in DOMAIN Segments(t) : Segments(t)[i] \notin {<<".">>, <<".", ".">>}
  /\ Only(t, {"x", ".", "/"})

RelativePath(t) ==
  /\ t # << >>
  /\ Head(t) # "/" /\ Last(t) # "/"
  /\ \A i \in DOMAIN Segments(t) : Segments(t)[i] \notin {<< >>, <<".">>, <<".", ".">>}
  /\ Only(t, {"x", ".", "/"})

valid_item_name(t) == len(t) <= NameLimit /\ RelativePath(t)

valid_secret_reference(t) == len(t) <= NameLimit /\ RelativePath(t)

(* Mutant: the text is not trimmed before it is found empty. *)
BlankIsFreeText(t, limit) ==
  /\ t # << >>
  /\ len(t) <= limit
  /\ \A i \in DOMAIN t : t[i] \notin Control

FreeText(t, limit) ==
  /\ trim(t) # << >>
  /\ len(t) <= limit
  /\ \A i \in DOMAIN t : t[i] \notin Control

(* What execute_retention accepts as the reason, and a participant may     *)
(* return as its receipt; trimmed, they are sent, stored and compared.     *)
ReasonIsValid(t) == FreeText(t, ReasonLimit)
ReceiptIsValid(t) == FreeText(t, ReceiptLimit)

-----------------------------------------------------------------------------
(* Properties *)

(* Where a path leads from its root, and whether it stays below it. *)
Step(w, part) ==
  IF part \in {<< >>, <<".">>} THEN w
  ELSE IF part # <<".", ".">> THEN [path |-> Append(w.path, part), below |-> w.below]
  ELSE IF w.path = << >> THEN [w EXCEPT !.below = FALSE]
  ELSE [w EXCEPT !.path = Front(@)]

Walk(t) ==
  LET walk[n \in 0..Len(Segments(t))] ==
        IF n = 0 THEN [path |-> << >>, below |-> TRUE]
        ELSE Step(walk[n - 1], Segments(t)[n])
  IN walk[Len(Segments(t))]

(* Artifacts are keyed by item name and secrets by reference: an accepted  *)
(* one is its own normal form, so two that differ never denote the same    *)
(* path, and none leaves the root it is resolved against (lib.rs:1058,     *)
(* lib.rs:1089).                                                           *)
PathsAreCanonical ==
  valid_item_name(text) \/ valid_secret_reference(text) =>
    Walk(text).below /\ Walk(text).path = Segments(text)

(* The stored reason is what read_retention returns: sent back, it is      *)
(* accepted and is the same intent (lib.rs:445, lib.rs:848); likewise a    *)
(* receipt, although both are measured before they are trimmed and in      *)
(* bytes.  Nothing blank is ever stored.                                   *)
KeptTextIsAcceptedAgain ==
  /\ ReasonIsValid(text) => ReasonIsValid(trim(text)) /\ trim(trim(text)) = trim(text)
  /\ ReceiptIsValid(text) => ReceiptIsValid(trim(text)) /\ trim(trim(text)) = trim(text)
=============================================================================
