-------------------------------- MODULE MCDial --------------------------------
(* The values of the constants of Dial, Addresses and Names that a cfg       *)
(* cannot write: d1 and d2 have the relay's address, d3 has its domain.      *)
EXTENDS Dial, Addresses, Names

CONSTANTS d1, d2, d3, ip, domain, flagtok, x, y, X

BothFlags == {NoToken, flagtok}

Resolved == [d \in Dialers |-> IF d = d3 THEN domain ELSE ip]

Lowered == [c \in {X} |-> x]
Taken   == {<<x, y, x>>}

(* ParseServer and ResolveServer give the address that a text spells; a fact *)
(* about operators, which TLC takes for an invariant of the initial states.  *)
ServerUnderstood == Init => ServerIsUnderstood

(* What Normalize grants is what allowHost and route accept, for good.       *)
IdsServed == Init => GrantedIdsAreServed
=============================================================================
