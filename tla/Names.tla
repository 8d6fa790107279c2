-------------------------------- MODULE Names --------------------------------
(***************************************************************************)
(* Tunnel names (internal/idgen/id.go): what register makes of a name that *)
(* a client asks for, and what the public front accepts as the label of a  *)
(* tunnel.  A name is a sequence of characters, some for each class that   *)
(* the code tells apart.                                                   *)
(***************************************************************************)
EXTENDS Integers, Sequences, FiniteSetsExt

CONSTANTS
  Small,            \* a-z and 0-9
  Capitals,         \* A-Z
  LowerCase,        \* capital -> letter
  Dash, Dot, Space,
  MaxLen,           \* idgen.MaxLen
  Reserved          \* the names in Normalize's switch

ASSUME NamesAssumption ==
  /\ LowerCase \in [Capitals -> Small]
  /\ Small \cap Capitals = {} /\ {Dash, Space} \cap (Small \cup Capitals) = {}
  /\ Dash # Space
  /\ MaxLen \in Nat

Chars   == Small \cup Capitals \cup {Dash, Dot, Space}
Refused == <<"refused">>
Drawn   == <<"a random id">>

(* The regular expression: letters, and dashes but not at the ends; at least *)
(* three characters.                                                        *)
Valid(s) ==
  /\ Len(s) \in 3 .. MaxLen
  /\ \A i \in DOMAIN s : s[i] \in Small \cup {Dash}
  /\ s[1] # Dash /\ s[Len(s)] # Dash

TrimSpace(s) ==
  LET ink == {i \in DOMAIN s : s[i] # Space}
  IN  IF ink = {} THEN <<>> ELSE SubSeq(s, Min(ink), Max(ink))

ToLower(s) == [i \in DOMAIN s |-> IF s[i] \in Capitals THEN LowerCase[s[i]] ELSE s[i]]

\* Mutant of Normalize: the name is checked in lower case and kept as typed.
NormalizeKeepsCase(s) ==
  LET name == TrimSpace(s) IN
  IF name = <<>> THEN Drawn
  ELSE IF ~Valid(ToLower(name)) \/ ToLower(name) \in Reserved THEN Refused
  ELSE name

Normalize(s) ==
  LET name == ToLower(TrimSpace(s)) IN
  IF name = <<>> THEN Drawn
  ELSE IF ~Valid(name) \/ name \in Reserved THEN Refused
  ELSE name

-----------------------------------------------------------------------------
Typed == UNION {[1 .. n -> Chars] : n \in 0 .. MaxLen + 1}

(* The relay promises https://<id>.<base> for every id that it grants:       *)
(* allowHost and route, which test the label with Valid, accept it; a        *)
(* client that saves the id and asks for it after a restart is granted it   *)
(* again; and names that are spelled alike but for case and blanks around   *)
(* them, which lock different files, are one tunnel.                        *)
IdIsServed(s) ==
  /\ Normalize(s) \notin {Refused, Drawn} =>
       Valid(Normalize(s)) /\ Normalize(Normalize(s)) = Normalize(s)
  /\ Normalize(<<Space>> \o ToLower(s) \o <<Space>>) = Normalize(s)

GrantedIdsAreServed == \A s \in Typed : IdIsServed(s)
=============================================================================
