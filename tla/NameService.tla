----------------------------- MODULE NameService ----------------------------
(***************************************************************************)
(* What the relay promises about names and ports, without goroutines:      *)
(* a connection claims one name, once; the newest claim of a name holds it *)
(* until somebody withdraws it; the relay holds at most MaxTunnels names;  *)
(* and a port is leased to the claim it was made for and can be returned   *)
(* only when that claim no longer holds its name.                          *)
(***************************************************************************)
EXTENDS Integers, FiniteSets

CONSTANTS Conns, Names, Ports, NoConn, NoName, MaxTunnels

VARIABLES
  holder,   \* name -> connection that holds it
  claim,    \* connection -> name it has claimed
  lease     \* port -> connection it is leased to

nsvars == <<holder, claim, lease>>

Held == {n \in Names : holder[n] # NoConn}

Init ==
  /\ holder = [n \in Names |-> NoConn]
  /\ claim  = [c \in Conns |-> NoName]
  /\ lease  = [p \in Ports |-> NoConn]

LeasePort(c, p) ==
  /\ lease[p] = NoConn
  /\ lease' = [lease EXCEPT ![p] = c]

Claim(c, n) ==
  /\ claim[c] = NoName
  /\ Cardinality(Held) < MaxTunnels
  /\ holder' = [holder EXCEPT ![n] = c]
  /\ claim'  = [claim EXCEPT ![c] = n]
  /\ UNCHANGED lease \/ \E p \in Ports : LeasePort(c, p)

Withdraw(n) ==
  /\ holder[n] # NoConn
  /\ holder' = [holder EXCEPT ![n] = NoConn]
  /\ UNCHANGED <<claim, lease>>

ReturnPort(p) ==
  /\ lease[p] # NoConn
  /\ \A n \in Names : holder[n] # lease[p]
  /\ lease' = [lease EXCEPT ![p] = NoConn]
  /\ UNCHANGED <<holder, claim>>

Next ==
  \/ \E c \in Conns, n \in Names : Claim(c, n)
  \/ \E n \in Names : Withdraw(n)
  \/ \E p \in Ports : ReturnPort(p)

Spec == Init /\ [][Next]_nsvars
=============================================================================
