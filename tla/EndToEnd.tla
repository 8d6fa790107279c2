------------------------------- MODULE EndToEnd ------------------------------
(* The relay and its visitors together.  Front lets the table of tunnels     *)
(* change as TunnelTable says; here it is the table of Relay, changed by     *)
(* register, handleConn and drop in their many small steps.                 *)
EXTENDS RelayProofs

CONSTANTS Visitors, Others, Cased, BaseLabel, Requests, ACME, QueueCap

VARIABLES
  queue, req, path, tunnel, answer, steady,   \* as in Front
  place,     \* Front's pc: where a request is
  route      \* Front's id: the tunnel that route has found

V == INSTANCE FrontProofs WITH
       Ids <- Names, Tunnels <- Conns, NoTunnel <- NoConn, NoId <- NoName,
       table <- tuns, tid <- id, kind <- Protos, session <- Sessions,
       pc <- place, id <- route

all == <<vars, V!vars>>

(* A goroutine of the relay's control plane, a client or a TCP visitor moves. *)
RelayMoves ==
  /\ Next
  /\ steady' = [v \in Visitors |->
                  {n \in steady[v] : tuns'[n] = tuns[n] /\ V!Up(n)'}]
  /\ UNCHANGED <<queue, place, req, route, path, tunnel, answer>>

(* A goroutine that serves HTTP visitors moves.                             *)
VisitorMoves ==
  /\ \/ \E v \in Visitors : V!Send(v) \/ V!Connect(v) \/ V!ServeHTTP(v)
     \/ V!Accept
  /\ UNCHANGED vars

Together == Init /\ V!Init /\ [][RelayMoves \/ VisitorMoves]_all

(* The request of v names n, by the first label of its host or at the apex   *)
(* by its path.                                                             *)
Asks(v, n) == n = req[v].host.first \/ (V!ByPath(v) /\ n = route[v])

(* A stream is opened on the live session of a connection that registered a  *)
(* name which the request names: however often the tunnel was taken over,    *)
(* dropped or rewired since it was looked up, no visitor reaches a client    *)
(* that asked for another name.                                             *)
StreamsReachOwners ==
  [][\A v \in Visitors :
       V!OpenStream(v) /\ answer'[v] = "stream" =>
         LET c == session[tunnel[v]] IN
         /\ c \in Conns /\ sess[c] = "open"
         /\ id[c] \in Names /\ Asks(v, id[c])]_all

-----------------------------------------------------------------------------
(* The relay does not notice its visitors, by the way Together is composed: *)
(* what is proved of Relay may be used of its part.                         *)
LEMMA RelayRuns == Together => Spec
<1>1. [RelayMoves \/ VisitorMoves]_all => [Next]_vars
  BY DEF RelayMoves, VisitorMoves, all
<1>2. QED BY <1>1, PTL DEF Together, Spec

(* What Front asks of the constants of its table holds of Relay's.          *)
LEMMA TableConstants == V!TableAssumption
BY RelayAssumption DEF V!TableAssumption

(* A step of the table, as RelayProofs sees it and as Front does.           *)
LEMMA SameTable == TT!TableNext => V!TableNext
BY DEF TT!TableNext, TT!Register, TT!Attach, TT!Drop, TT!SessionEnds,
       V!TableNext, V!Register, V!Attach, V!Drop, V!SessionEnds

(* A step of the relay is a step of Front's table or is not seen: a tunnel   *)
(* that is steady stays so when the table does not change.                  *)
LEMMA RelayMovesSeen ==
  ASSUME IInv, Wired, V!IInv, V!Owed, RelayMoves
  PROVE  V!TableChanges \/ UNCHANGED V!vars
<1>1. TT!TableNext \/ UNCHANGED TT!relay
  BY StepSeen DEF RelayMoves
<1>2. CASE TT!TableNext
  BY <1>2, SameTable DEF RelayMoves, V!TableChanges, V!routing
<1>3. CASE UNCHANGED TT!relay
  <2>1. UNCHANGED <<tuns, id, Protos, Sessions>>
    BY <1>3 DEF TT!relay
  <2>2. \A v \in Visitors : \A n \in steady[v] : V!Up(n)
    BY DEF V!Owed, V!SteadyAt
  <2>3. \A n : V!Up(n)' <=> V!Up(n)
    BY <2>1 DEF V!Up
  <2>4. \A v \in Visitors : {n \in steady[v] : tuns'[n] = tuns[n] /\ V!Up(n)'} = steady[v]
    BY <2>1, <2>2, <2>3
  <2>5. steady' = [v \in Visitors |-> steady[v]]
    BY <2>4 DEF RelayMoves
  <2>6. steady' = steady
    BY <2>5 DEF V!IInv, V!TypeOK
  <2>7. QED BY <2>1, <2>6 DEF RelayMoves, V!vars, V!relay, V!routing
<1>4. QED BY <1>1, <1>2, <1>3

(* The relay with its visitors implements Front, so that what is proved of   *)
(* Front's visitors holds of the visitors of Relay.                         *)
THEOREM FrontImplemented == V!FrontAssumption => (Together => V!Spec)
<1> SUFFICES ASSUME V!FrontAssumption PROVE Together => V!Spec
  OBVIOUS
<1> DEFINE I == IInv /\ Wired /\ V!IInv /\ V!Owed
<1>1. Init /\ V!Init => I
  BY TableConstants, InitInv, WiredInit, V!InitInv, V!InitOwes
<1>2. ASSUME I, [RelayMoves \/ VisitorMoves]_all
      PROVE  [V!Next]_(V!vars) /\ I'
  <2>1. [V!Next]_(V!vars)
    <3>1. CASE RelayMoves
      BY <1>2, <3>1, RelayMovesSeen DEF V!Next
    <3>2. CASE VisitorMoves
      BY <3>2 DEF VisitorMoves, V!Next
    <3>3. CASE UNCHANGED all
      BY <3>3 DEF all
    <3>4. QED BY <1>2, <3>1, <3>2, <3>3
  <2>2. [Next]_vars
    BY <1>2 DEF RelayMoves, VisitorMoves, all
  <2>3. IInv' /\ Wired'
    BY <1>2, <2>2, NextInv, WiredStep
  <2>4. V!IInv' /\ V!Owed'
    BY <1>2, <2>1, TableConstants, V!NextInv, V!NextOwes
  <2>5. QED BY <2>1, <2>3, <2>4
<1>3. QED BY <1>1, <1>2, PTL DEF Together, V!Spec

-----------------------------------------------------------------------------
(* The tunnel that a request was given leads to a client of that name.      *)
LEMMA StreamReachesOwner ==
  ASSUME IInv, V!IInv, NEW v \in Visitors, V!OpenStream(v), answer'[v] = "stream"
  PROVE  LET c == session[tunnel[v]] IN
         /\ c \in Conns /\ sess[c] = "open"
         /\ id[c] \in Names /\ Asks(v, id[c])
<1> DEFINE t == tunnel[v]
<1>1. /\ place[v] = "open"
      /\ answer' = [answer EXCEPT ![v] = IF Sessions[t] = "open" THEN "stream" ELSE "busy"]
  BY DEF V!OpenStream, V!Done
<1>2. Sessions[t] = "open"
  BY <1>1 DEF V!IInv, V!TypeOK
<1>3. /\ t \in Conns /\ id[t] = route[v]
      /\ route[v] \in Names /\ Asks(v, route[v])
  BY <1>1 DEF V!IInv, V!Routed, V!RoutedAt, V!Kept, V!KeptAt, Asks
<1>4. session[t] \in Conns /\ sess[session[t]] = "open"
  BY <1>2, <1>3 DEF Sessions, IInv, TypeOK
<1>5. id[session[t]] = id[t]
  BY <1>3, <1>4 DEF IInv, NameIsolation
<1>6. QED BY <1>3, <1>4, <1>5

(* Every stream of every visitor, over all interleavings with the goroutines *)
(* that register, attach, take over and drop.                               *)
THEOREM StreamsReach == V!FrontAssumption => (Together => StreamsReachOwners)
<1> SUFFICES ASSUME V!FrontAssumption PROVE Together => StreamsReachOwners
  OBVIOUS
<1>1. ASSUME IInv, V!IInv
      PROVE  [\A v \in Visitors :
               V!OpenStream(v) /\ answer'[v] = "stream" =>
                 LET c == session[tunnel[v]] IN
                 /\ c \in Conns /\ sess[c] = "open"
                 /\ id[c] \in Names /\ Asks(v, id[c])]_all
  BY <1>1, StreamReachesOwner
<1>2. V!Spec => []V!IInv
  <2>1. V!Init => V!IInv
    BY TableConstants, V!InitInv
  <2>2. V!IInv /\ [V!Next]_(V!vars) => V!IInv'
    BY TableConstants, V!NextInv
  <2>3. QED BY <2>1, <2>2, PTL DEF V!Spec
<1>3. Together => V!Spec
  BY FrontImplemented
<1>4. Together => []IInv
  BY RelayRuns, Inductive, PTL
<1>5. QED BY <1>1, <1>2, <1>3, <1>4, PTL DEF StreamsReachOwners
=============================================================================
