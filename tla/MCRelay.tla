------------------------------ MODULE MCRelay ------------------------------
(* Finite instances of Relay for TLC.                                       *)
EXTENDS Relay, TLC

CONSTANT a

(* One Hello for every outcome of register: granted as HTTP and as TCP, by  *)
(* name, unnamed and blank; refused for its version, its protocol, its name *)
(* and its token.                                                           *)
AllHellos ==
  {[v |-> TRUE,  proto |-> "http",  name |-> a,       token |-> TRUE],
   [v |-> TRUE,  proto |-> "tcp",   name |-> a,       token |-> TRUE],
   [v |-> TRUE,  proto |-> "tcp",   name |-> Unnamed, token |-> FALSE],
   [v |-> TRUE,  proto |-> "",      name |-> Unnamed, token |-> FALSE],
   [v |-> TRUE,  proto |-> "http",  name |-> Blank,   token |-> FALSE],
   [v |-> TRUE,  proto |-> "http",  name |-> a,       token |-> FALSE],
   [v |-> TRUE,  proto |-> "http",  name |-> Invalid, token |-> FALSE],
   [v |-> TRUE,  proto |-> "other", name |-> a,       token |-> TRUE],
   [v |-> FALSE, proto |-> "http",  name |-> a,       token |-> TRUE]}

(* One client that comes back under its name. *)
OneName == {[v |-> TRUE, proto |-> "http", name |-> a, token |-> TRUE]}

(* AllHellos names no long id, so the long ids are interchangeable too.     *)
RelaySymmetry == Permutations(Conns) \cup Permutations(LongNames)
=============================================================================
