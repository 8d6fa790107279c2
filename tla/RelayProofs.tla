---------------------------- MODULE RelayProofs ----------------------------
(* The safety of Relay, proved for every set of connections and names,      *)
(* every port range and every table size.                                   *)
EXTENDS Relay, FiniteSetTheorems, TLAPS

(* What the handler of a connection has not done yet, by its stage.         *)
Fresh ==
  \A c \in Conns :
    /\ pc[c] = "hello" =>
         id[c] = NoName /\ port[c] = NoPort /\ session[c] = NoConn
    /\ pc[c] \in {"hello", "evict", "spawn"} => lpc[c] = "none"

(* A handler that register let through has an id.                           *)
Named ==
  \A c \in Conns : pc[c] \notin {"hello", "refused", "done"} => id[c] \in Names

(* Who is taken out of the table was in it; while drop works on a tunnel,   *)
(* the tunnel's port is still reserved for it.                              *)
Undertaking ==
  \A c \in Conns :
    /\ victim[c] # NoConn => pc[victim[c]] # "hello"
    /\ pc[c] \in {"evict"} \cup Dropping => victim[c] # NoConn
    /\ pc[c] = "dropport" => port[victim[c]] # NoPort
    /\ pc[c] \in Dropping /\ port[victim[c]] # NoPort
         => tcp[port[victim[c]]] = victim[c]

IInv ==
  /\ TypeOK
  /\ Fresh /\ Named /\ Undertaking
  /\ NameIsolation /\ NoGhostEntry /\ PortExclusive
  /\ OneUndertaker /\ NoOrphanSocket

-----------------------------------------------------------------------------
(* The steps of Next, sorted by what they may change.                       *)

(* A goroutine of listenTCP touches lpc and bound, nothing else.            *)
ListenerStep(c) == ListenTCP(c) \/ Accept(c) \/ AcceptErrs(c)

(* These move a handler on, or end a session, and leave the tables alone.   *)
StageStep(c) ==
  \/ HelloFails(c) \/ Reject(c) \/ EvictSession(c) \/ Welcome(c)
  \/ WelcomeFails(c) \/ PeerCloses(c) \/ DropSession(c)

(* The tables change in these.                                              *)
TableStep(c) ==
  \/ RegisterHTTP(c) \/ RegisterTCP(c) \/ RegisterNoPort(c)
  \/ Spawn(c) \/ Attach(c) \/ DropTunnel(c) \/ DropListener(c) \/ FreePort(c)

(* Every step is one of the three kinds.                                    *)
LEMMA NextSorted ==
  ASSUME Next
  PROVE  \E c \in Conns : ListenerStep(c) \/ StageStep(c) \/ TableStep(c)
BY DEF Next, HandleConn, ListenTCP, Environment,
       ListenerStep, StageStep, TableStep

-----------------------------------------------------------------------------
(* The socket of a tunnel is released by Unbind and by nobody else's close. *)
LEMMA UnbindReleases ==
  ASSUME TypeOK, NoOrphanSocket, NEW t \in Conns, Unbind(t)
  PROVE  /\ bound' \in [Ports -> Conns \cup {NoConn}]
         /\ \A p \in Ports : bound'[p] # t
         /\ \A p \in Ports : bound'[p] \in {bound[p], NoConn}
BY RelayAssumption DEF TypeOK, NoOrphanSocket, Unbind, Ports, NoPort

(* Closing a listener of another goroutine releases its port at most.       *)
LEMMA CloseTCPLnReleases ==
  ASSUME TypeOK, NoOrphanSocket, NEW t \in Conns \cup {NoConn}, CloseTCPLn(t)
  PROVE  /\ bound' \in [Ports -> Conns \cup {NoConn}]
         /\ \A p \in Ports : bound'[p] \in {bound[p], NoConn}
<1>1. CASE t # NoConn /\ Published(t)
  BY <1>1, UnbindReleases DEF CloseTCPLn
<1>2. CASE ~(t # NoConn /\ Published(t))
  BY <1>2 DEF CloseTCPLn, TypeOK
<1>3. QED BY <1>1, <1>2

(* Listeners keep the invariant.                                            *)
LEMMA ListenerStepInv ==
  ASSUME IInv, NEW c \in Conns, ListenerStep(c)
  PROVE  IInv'
<1> USE DEF IInv
<1>1. UNCHANGED <<tuns, tcp, pc, id, port, session, sess, victim>>
  BY DEF ListenerStep, ListenTCP, Listen, ListenFails, PublishTCPLn, Accept,
         AcceptClosed, AcceptErrs, ServeConn, RefuseConn
<1>2. Named' /\ Undertaking' /\ NameIsolation' /\ NoGhostEntry'
        /\ PortExclusive' /\ OneUndertaker'
  BY <1>1 DEF Named, Undertaking, NameIsolation, NoGhostEntry, PortExclusive,
              OneUndertaker, Registered
<1>3. \E l \in {"dead"} \cup Listening :
        lpc[c] # "none" /\ lpc' = [lpc EXCEPT ![c] = l]
  BY DEF ListenerStep, ListenTCP, Listen, ListenFails, PublishTCPLn, Accept,
         AcceptClosed, AcceptErrs, ServeConn, RefuseConn, Listening
<1>4. Fresh'
  BY <1>1, <1>3 DEF TypeOK, Fresh
<1>5. TypeOK' /\ NoOrphanSocket'
  <2>1. CASE Listen(c)
    <3>1. TypeOK'
      BY <1>1, <2>1 DEF Listen, TypeOK, Listening
    <3>2. NoOrphanSocket'
      BY <1>1, <2>1 DEF Listen, TypeOK, NoOrphanSocket, Listening
    <3>3. QED BY <3>1, <3>2
  <2>2. CASE ListenFails(c)
    BY <1>1, <2>2 DEF ListenFails, TypeOK, NoOrphanSocket, Listening
  <2>3. CASE PublishTCPLn(c) \/ Accept(c) \/ ServeConn(c)
    BY <1>1, <2>3
       DEF PublishTCPLn, Accept, ServeConn, TypeOK, NoOrphanSocket, Listening
  <2>4. CASE AcceptClosed(c)
    BY <1>1, <2>4 DEF AcceptClosed, TypeOK, NoOrphanSocket, Listening
  <2>5. CASE AcceptErrs(c) \/ RefuseConn(c)
    <3>1. Unbind(c) /\ lpc' = [lpc EXCEPT ![c] = "dead"]
      BY <2>5 DEF AcceptErrs, RefuseConn
    <3>2. QED
      BY <1>1, <3>1, UnbindReleases, RelayAssumption
         DEF TypeOK, NoOrphanSocket
  <2>6. QED BY <2>1, <2>2, <2>3, <2>4, <2>5 DEF ListenerStep, ListenTCP
<1>6. QED BY <1>2, <1>4, <1>5

(* So do the steps that leave the tables alone.                             *)
LEMMA StageStepInv ==
  ASSUME IInv, NEW c \in Conns, StageStep(c)
  PROVE  IInv'
<1> USE DEF IInv
<1>1. UNCHANGED <<tuns, tcp, id, port, session, victim, lpc, bound>>
  BY DEF StageStep, HelloFails, Reject, EvictSession, Welcome, WelcomeFails,
         PeerCloses, DropSession
<1>2. TypeOK'
  BY <1>1 DEF TypeOK, Stages, StageStep, HelloFails, Reject, EvictSession,
              Welcome, WelcomeFails, PeerCloses, DropSession, CloseSession
(* The moves of these actions, and what each says of the stage before it.   *)
<1>3. \/ pc' = pc
      \/ pc[c] = "hello"    /\ pc' = [pc EXCEPT ![c] = "done"]
      \/ pc[c] = "hello"    /\ pc' = [pc EXCEPT ![c] = "refused"]
      \/ pc[c] = "evict"    /\ pc' = [pc EXCEPT ![c] = "spawn"]
      \/ pc[c] = "welcome"  /\ pc' = [pc EXCEPT ![c] = "attach"]
      \/ pc[c] = "welcome"  /\ pc' = [pc EXCEPT ![c] = "drop"]
      \/ pc[c] = "dropsess" /\ pc' = [pc EXCEPT ![c] = "dropln"]
  BY DEF StageStep, HelloFails, Reject, EvictSession, Welcome, WelcomeFails,
         PeerCloses, DropSession
<1>4. Fresh' /\ Named' /\ Undertaking'
  BY <1>1, <1>3 DEF TypeOK, Fresh, Named, Undertaking, Dropping
<1>5. NoGhostEntry'
  BY <1>1, <1>3, RelayAssumption DEF TypeOK, Fresh, NoGhostEntry
<1>6. NameIsolation' /\ PortExclusive' /\ OneUndertaker' /\ NoOrphanSocket'
  BY <1>1 DEF NameIsolation, PortExclusive, OneUndertaker, Registered,
              NoOrphanSocket
<1>7. QED BY <1>2, <1>4, <1>5, <1>6

-----------------------------------------------------------------------------
(* The critical section of register.                                        *)

(* What the two registrations that succeed have in common: a connection     *)
(* that has no tunnel gets one, with no port or with a port that is free,   *)
(* and takes over from the tunnel the name had.                             *)
LEMMA InsertInv ==
  ASSUME IInv, NEW c \in Conns, NEW n \in Names, Insert(c, n),
         \/ UNCHANGED <<tcp, port>>
         \/ \E p \in FreePorts : /\ tcp'  = [tcp EXCEPT ![p] = c]
                                 /\ port' = [port EXCEPT ![c] = p]
  PROVE  IInv'
<1> USE DEF IInv
<1>1. /\ pc[c] = "hello" /\ lpc[c] = "none" /\ id[c] = NoName
      /\ port[c] = NoPort /\ session[c] = NoConn
  BY DEF Insert, Fresh
(* Nothing refers to the tunnel of c yet.                                   *)
<1>2. /\ \A m \in Names : tuns[m] # c
      /\ \A d \in Conns : victim[d] # c
      /\ \A t \in Conns : session[t] # c
      /\ \A p \in Ports : bound[p] # c
  BY <1>1, RelayAssumption
     DEF NoGhostEntry, Undertaking, NameIsolation, NoOrphanSocket, Listening
(* A tunnel of the table is there under one name, its id.                   *)
<1>3. \A m \in Names : tuns[m] = tuns[n] /\ tuns[n] # NoConn => m = n
  BY DEF NoGhostEntry, TypeOK
<1>4. TypeOK'
  BY DEF TypeOK, Insert, FreePorts, Stages
<1>5. Fresh' /\ Named'
  BY <1>1 DEF TypeOK, Insert, Fresh, Named
<1>6. NameIsolation'
  BY <1>1, <1>2, RelayAssumption DEF TypeOK, Insert, NameIsolation
<1>7. NoGhostEntry'
  BY <1>1, <1>2, RelayAssumption DEF TypeOK, Insert, NoGhostEntry
<1>8. PortExclusive'
  <2>1. CASE UNCHANGED <<tcp, port>>
    BY <1>1, <2>1 DEF TypeOK, Insert, PortExclusive
  <2>2. CASE \E p \in FreePorts : /\ tcp'  = [tcp EXCEPT ![p] = c]
                                 /\ port' = [port EXCEPT ![c] = p]
    BY <1>2, <2>2, RelayAssumption DEF TypeOK, Insert, PortExclusive, FreePorts
  <2>3. QED BY <2>1, <2>2
<1>9. OneUndertaker'
  <2>1. \A d \in Conns : victim[d] # NoConn => victim[d] # tuns[n]
    BY DEF OneUndertaker, Registered
  <2>2. QED
    BY <1>2, <1>3, <2>1 DEF TypeOK, Insert, OneUndertaker, Registered
<1>10. Undertaking'
  <2>1. tuns[n] # NoConn => pc[tuns[n]] # "hello"
    BY DEF TypeOK, NoGhostEntry
  <2>2. \A d \in Conns :
          victim[d] # NoConn => port'[victim[d]] = port[victim[d]]
    BY <1>2 DEF TypeOK
  <2>3. QED
    BY <1>1, <1>2, <2>1, <2>2, RelayAssumption
       DEF TypeOK, Insert, Undertaking, FreePorts, Dropping
<1>11. NoOrphanSocket'
  BY <1>2 DEF TypeOK, Insert, NoOrphanSocket
<1>12. QED
  BY <1>4, <1>5, <1>6, <1>7, <1>8, <1>9, <1>10, <1>11

(* Registrations: the new tunnel has its port, the old one its undertaker.  *)
LEMMA RegisterInv ==
  ASSUME IInv, NEW c \in Conns,
         RegisterHTTP(c) \/ RegisterTCP(c) \/ RegisterNoPort(c)
  PROVE  IInv'
<1>1. CASE RegisterHTTP(c)
  BY <1>1, InsertInv DEF RegisterHTTP
<1>2. CASE RegisterTCP(c)
  BY <1>2, InsertInv DEF RegisterTCP
<1>3. CASE RegisterNoPort(c)
  <2> USE DEF IInv
  <2>1. PICK n \in Names :
          /\ pc[c] = "hello"
          /\ tuns' = [tuns EXCEPT ![n] = NoConn]
          /\ pc'   = [pc EXCEPT ![c] = "refused"]
          /\ UNCHANGED <<tcp, id, port, session, sess, victim, lpc, bound>>
    BY <1>3 DEF RegisterNoPort
  <2>2. TypeOK' /\ Fresh' /\ Named' /\ Undertaking'
    BY <2>1 DEF TypeOK, Stages, Fresh, Named, Undertaking, Dropping
  <2>3. NoGhostEntry' /\ PortExclusive' /\ OneUndertaker'
    BY <2>1, RelayAssumption
       DEF TypeOK, NoGhostEntry, PortExclusive, OneUndertaker, Registered
  <2>4. NameIsolation' /\ NoOrphanSocket'
    BY <2>1 DEF NameIsolation, NoOrphanSocket
  <2>5. QED BY <2>2, <2>3, <2>4
<1>4. QED BY <1>1, <1>2, <1>3

-----------------------------------------------------------------------------
(* Starting listenTCP gives its tunnel one listener.                        *)
LEMMA SpawnInv ==
  ASSUME IInv, NEW c \in Conns, Spawn(c)
  PROVE  IInv'
<1> USE DEF IInv
<1>1. /\ bound' \in [Ports -> Conns \cup {NoConn}]
      /\ \A p \in Ports : bound'[p] \in {bound[p], NoConn}
  BY CloseTCPLnReleases DEF Spawn, TypeOK
<1>2. TypeOK'
  BY <1>1 DEF TypeOK, Spawn, Stages
<1>3. Fresh' /\ Named' /\ Undertaking'
  BY RelayAssumption DEF TypeOK, Spawn, Fresh, Named, Undertaking, Dropping
<1>4. NoGhostEntry' /\ PortExclusive' /\ NameIsolation'
  BY DEF TypeOK, Spawn, NoGhostEntry, PortExclusive, NameIsolation
<1>5. OneUndertaker'
  BY DEF TypeOK, Spawn, OneUndertaker, Registered
<1>6. NoOrphanSocket'
  BY <1>1, RelayAssumption
     DEF TypeOK, Spawn, Fresh, NoOrphanSocket, Listening
<1>7. QED BY <1>2, <1>3, <1>4, <1>5, <1>6

(* A session goes to a tunnel of its own id.                                *)
LEMMA AttachInv ==
  ASSUME IInv, NEW c \in Conns, Attach(c)
  PROVE  IInv'
<1> USE DEF IInv
<1>1. id[c] \in Names
  BY DEF Attach, Named
(* The tunnel found under the id has that id, and its handler said hello.   *)
<1>2. tuns[id[c]] # NoConn =>
        /\ tuns[id[c]] \in Conns
        /\ id[tuns[id[c]]] = id[c]
        /\ pc[tuns[id[c]]] # "hello"
  BY <1>1 DEF TypeOK, NoGhostEntry
<1>3. TypeOK' /\ Named' /\ Undertaking'
  BY <1>1, <1>2 DEF TypeOK, Attach, Stages, Named, Undertaking, Dropping
<1>4. Fresh' /\ NameIsolation'
  BY <1>1, <1>2 DEF TypeOK, Attach, Fresh, NameIsolation
<1>5. NoGhostEntry' /\ PortExclusive' /\ OneUndertaker' /\ NoOrphanSocket'
  BY DEF TypeOK, Attach, NoGhostEntry, PortExclusive, OneUndertaker,
         Registered, NoOrphanSocket
<1>6. QED BY <1>3, <1>4, <1>5

(* What drop removes gets its undertaker.                                   *)
LEMMA DropTunnelInv ==
  ASSUME IInv, NEW c \in Conns, DropTunnel(c)
  PROVE  IInv'
<1> USE DEF IInv
<1> DEFINE n == id[c]
           t == tuns[n]
<1>1. n \in Names
  BY DEF DropTunnel, Named
<1>2. t # NoConn =>
        /\ t \in Conns /\ pc[t] # "hello"
        /\ port[t] # NoPort => tcp[port[t]] = t
        /\ \A m \in Names : tuns[m] = t => m = n
        /\ \A d \in Conns : victim[d] # t
  BY <1>1 DEF TypeOK, NoGhostEntry, PortExclusive, OneUndertaker, Registered
<1>3. TypeOK' /\ Fresh' /\ Named'
  BY <1>1 DEF TypeOK, DropTunnel, Stages, Fresh, Named
<1>4. Undertaking'
  BY <1>2 DEF TypeOK, DropTunnel, Undertaking, Dropping
<1>5. OneUndertaker'
  BY <1>1, <1>2 DEF TypeOK, DropTunnel, OneUndertaker, Registered
(* Once its own entry is gone, c is not in the table under another name.    *)
<1>6. NoGhostEntry' /\ PortExclusive'
  BY <1>1, RelayAssumption
     DEF TypeOK, DropTunnel, NoGhostEntry, PortExclusive
<1>7. NameIsolation' /\ NoOrphanSocket'
  BY DEF DropTunnel, NameIsolation, NoOrphanSocket
<1>8. QED BY <1>3, <1>4, <1>5, <1>6, <1>7

(* The port is still the removed tunnel's.                                  *)
LEMMA DropListenerInv ==
  ASSUME IInv, NEW c \in Conns, DropListener(c)
  PROVE  IInv'
<1> USE DEF IInv
<1>1. /\ bound' \in [Ports -> Conns \cup {NoConn}]
      /\ \A p \in Ports : bound'[p] \in {bound[p], NoConn}
  BY CloseTCPLnReleases DEF DropListener, TypeOK
<1>2. TypeOK'
  BY <1>1 DEF TypeOK, DropListener, Stages
<1>3. Fresh' /\ Named' /\ Undertaking'
  BY DEF TypeOK, DropListener, Fresh, Named, Undertaking, Dropping
<1>4. NoGhostEntry' /\ PortExclusive' /\ NameIsolation'
  BY DEF TypeOK, DropListener, NoGhostEntry, PortExclusive, NameIsolation
<1>5. OneUndertaker'
  BY DEF TypeOK, DropListener, OneUndertaker, Registered
<1>6. NoOrphanSocket'
  BY <1>1, RelayAssumption DEF TypeOK, DropListener, NoOrphanSocket
<1>7. QED BY <1>2, <1>3, <1>4, <1>5, <1>6

(* The port that is freed is no longer that of a tunnel in the table.       *)
LEMMA FreePortInv ==
  ASSUME IInv, NEW c \in Conns, FreePort(c)
  PROVE  IInv'
<1> USE DEF IInv
<1> DEFINE v == victim[c]
<1>1. /\ v \in Conns /\ v # NoConn
      /\ port[v] \in Ports
      /\ tcp[port[v]] = v
  BY DEF TypeOK, FreePort, Undertaking, Dropping
<1>2. TypeOK' /\ Fresh' /\ Named'
  BY DEF TypeOK, FreePort, Stages, Fresh, Named
(* The port is not that of a tunnel of the table: v left the table.         *)
<1>3. PortExclusive'
  BY <1>1 DEF TypeOK, FreePort, PortExclusive, OneUndertaker, Registered
(* Nor that of a tunnel another drop works on: v has one undertaker.        *)
<1>4. Undertaking'
  BY <1>1 DEF TypeOK, FreePort, Undertaking, OneUndertaker, Dropping
<1>5. OneUndertaker'
  BY DEF TypeOK, FreePort, OneUndertaker, Registered
<1>6. NoGhostEntry' /\ NameIsolation' /\ NoOrphanSocket'
  BY DEF TypeOK, FreePort, NoGhostEntry, NameIsolation, NoOrphanSocket
<1>7. QED BY <1>2, <1>3, <1>4, <1>5, <1>6

-----------------------------------------------------------------------------
(* The tables are empty.                                                    *)
LEMMA InitInv == Init => IInv
<1> SUFFICES ASSUME Init PROVE IInv
  OBVIOUS
<1>1. TypeOK
  BY DEF Init, TypeOK, Stages, NoPort
<1>2. Fresh /\ Named /\ Undertaking
  BY DEF Init, Fresh, Named, Undertaking, Dropping
<1>3. NameIsolation /\ NoGhostEntry /\ PortExclusive /\ OneUndertaker
        /\ NoOrphanSocket
  BY RelayAssumption
     DEF Init, NameIsolation, NoGhostEntry, PortExclusive, OneUndertaker,
         NoOrphanSocket
<1>4. QED BY <1>1, <1>2, <1>3 DEF IInv

(* Every step keeps the invariant.                                          *)
LEMMA NextInv == IInv /\ [Next]_vars => IInv'
<1> SUFFICES ASSUME IInv, [Next]_vars PROVE IInv'
  OBVIOUS
<1>1. CASE UNCHANGED vars
  BY <1>1 DEF vars, IInv, TypeOK, Fresh, Named, Undertaking, NameIsolation,
              NoGhostEntry, PortExclusive, OneUndertaker, Registered,
              NoOrphanSocket
<1>2. CASE Next
  <2>1. PICK c \in Conns : ListenerStep(c) \/ StageStep(c) \/ TableStep(c)
    BY <1>2, NextSorted
  <2>2. QED
    BY <2>1, ListenerStepInv, StageStepInv, RegisterInv, SpawnInv, AttachInv,
       DropTunnelInv, DropListenerInv, FreePortInv DEF TableStep
<1>3. QED BY <1>1, <1>2

(* IInv is an inductive invariant of the relay.                             *)
THEOREM Inductive == Spec => []IInv
BY InitInv, NextInv, PTL DEF Spec

(* Every variable of the relay keeps its type: drop and Attach only use ids *)
(* of the table, and no step writes a port outside the range.               *)
THEOREM TypeCorrect == Spec => []TypeOK
BY Inductive, PTL DEF IInv

(* No tunnel is ever wired to the session of a connection that asked for    *)
(* another id, however registrations, take-overs, attachments and late      *)
(* drops interleave.                                                        *)
THEOREM NamesAreIsolated == Spec => []NameIsolation
BY Inductive, PTL DEF IInv

(* The table never holds the tunnel of a handler that will not drop again.  *)
THEOREM NoGhosts == Spec => []NoGhostEntry
BY Inductive, PTL DEF IInv

(* The port of a tunnel stays reserved for it while the tunnel is in the    *)
(* table.                                                                   *)
THEOREM PortsAreExclusive == Spec => []PortExclusive
BY Inductive, PTL DEF IInv

(* A removed tunnel is in the hands of one goroutine and is not put back.   *)
THEOREM UndertakersAreUnique == Spec => []OneUndertaker
BY Inductive, PTL DEF IInv

(* Every socket the relay holds is held by an accept loop of its owner.     *)
THEOREM SocketsAreOwned == Spec => []NoOrphanSocket
BY Inductive, PTL DEF IInv

-----------------------------------------------------------------------------
(* The account of the ports.                                                *)

(* A port is reserved for the tunnel that has it.                           *)
Leased == \A p \in Ports, t \in Conns : tcp[p] = t => port[t] = p /\ id[t] \in Names

(* No port is reserved.                                                     *)
LEMMA LeasedInit == Init => Leased
BY RelayAssumption DEF Init, Leased

(* Names and ports, once given, stay.                                       *)
LEMMA NamesStay ==
  ASSUME IInv, Next, NEW c \in Conns, pc[c] # "hello"
  PROVE  id'[c] = id[c] /\ port'[c] = port[c] /\ pc'[c] # "hello"
<1>1. PICK d \in Conns : ListenerStep(d) \/ StageStep(d) \/ TableStep(d)
  BY NextSorted
<1>2. CASE ListenerStep(d)
  BY <1>2 DEF ListenerStep, ListenTCP, Listen, ListenFails, PublishTCPLn,
              Accept, AcceptClosed, AcceptErrs, ServeConn, RefuseConn
<1>3. CASE StageStep(d)
  BY <1>3 DEF StageStep, HelloFails, Reject, EvictSession, Welcome, WelcomeFails,
              PeerCloses, DropSession, IInv, TypeOK, Stages
<1>4. CASE RegisterHTTP(d) \/ RegisterTCP(d) \/ RegisterNoPort(d)
  BY <1>4 DEF RegisterHTTP, RegisterTCP, RegisterNoPort, Insert, IInv, TypeOK, Stages
<1>5. CASE Spawn(d) \/ Attach(d) \/ DropTunnel(d) \/ DropListener(d) \/ FreePort(d)
  BY <1>5 DEF Spawn, Attach, DropTunnel, DropListener, FreePort, IInv, TypeOK, Stages
<1>6. QED BY <1>1, <1>2, <1>3, <1>4, <1>5 DEF TableStep

(* A tunnel leaves the table into the hands of a drop, or register takes it  *)
(* out for another one.                                                     *)
LEMMA LeavesAccounted ==
  ASSUME IInv, Next, NEW t \in Conns, Registered(t)
  PROVE  Accounted(t)' \/ \E c \in Conns \ {t} : TakesOver(c, t)
<1>1. PICK n \in Names : tuns[n] = t
  BY DEF Registered
<1>2. pc[t] # "hello"
  BY <1>1 DEF IInv, NoGhostEntry
<1>3. CASE tuns'[n] = t
  BY <1>3 DEF Accounted, Registered
<1>4. ASSUME tuns'[n] # t
      PROVE  Accounted(t)' \/ \E c \in Conns \ {t} : TakesOver(c, t)
  <2>1. PICK d \in Conns : ListenerStep(d) \/ StageStep(d) \/ TableStep(d)
    BY NextSorted
  <2>2. \/ RegisterHTTP(d) \/ RegisterTCP(d) \/ RegisterNoPort(d)
        \/ DropTunnel(d)
    BY <1>1, <1>4, <2>1 DEF ListenerStep, ListenTCP, Listen, ListenFails, PublishTCPLn,
       Accept, AcceptClosed, AcceptErrs, ServeConn, RefuseConn,
       StageStep, HelloFails, Reject, EvictSession, Welcome, WelcomeFails, PeerCloses,
       DropSession, TableStep, Spawn, Attach, DropListener, FreePort
  <2>3. CASE RegisterHTTP(d) \/ RegisterTCP(d)
    <3>1. pc[d] = "hello" /\ \E m \in Names : Insert(d, m)
      BY <2>3 DEF RegisterHTTP, RegisterTCP, Insert
    <3>2. tuns'[n] = d
      BY <1>1, <1>4, <3>1 DEF Insert, IInv, TypeOK
    <3>3. d \in Conns \ {t} /\ TakesOver(d, t)
      BY <1>1, <1>2, <3>1, <3>2 DEF TakesOver
    <3>4. QED BY <3>3
  <2>4. CASE RegisterNoPort(d)
    <3>1. pc[d] = "hello" /\ pc'[d] = "refused" /\ FreePorts = {} /\ tuns'[n] = NoConn
      BY <1>1, <1>4, <2>4 DEF RegisterNoPort, IInv, TypeOK
    <3>2. d \in Conns \ {t} /\ TakesOver(d, t)
      BY <1>1, <1>2, <3>1 DEF TakesOver
    <3>3. QED BY <3>2
  <2>5. CASE DropTunnel(d)
    <3>1. id[d] = n
      BY <1>1, <1>4, <2>5 DEF DropTunnel, IInv, TypeOK
    <3>2. victim'[d] = t /\ pc'[d] = "dropsess"
      BY <1>1, <2>5, <3>1, RelayAssumption DEF DropTunnel, IInv, TypeOK
    <3>3. QED BY <3>2 DEF Accounted, Dropping
  <2>6. QED BY <2>2, <2>3, <2>4, <2>5
<1>5. QED BY <1>3, <1>4

(* A drop goes on until it has freed the port.                              *)
LEMMA DropGoesOn ==
  ASSUME IInv, Leased, Next, NEW p \in Ports, NEW t \in Conns, tcp[p] = t, tcp'[p] = t,
         NEW c \in Conns, pc[c] \in Dropping, victim[c] = t
  PROVE  pc'[c] \in Dropping /\ victim'[c] = t
<1>1. PICK d \in Conns : ListenerStep(d) \/ StageStep(d) \/ TableStep(d)
  BY NextSorted
<1>2. port[t] = p /\ p # NoPort
  BY RelayAssumption DEF Leased, Ports, NoPort
<1>3. CASE ListenerStep(d)
  BY <1>3 DEF ListenerStep, ListenTCP, Listen, ListenFails, PublishTCPLn,
              Accept, AcceptClosed, AcceptErrs, ServeConn, RefuseConn
<1>4. CASE StageStep(d)
  BY <1>4 DEF StageStep, HelloFails, Reject, EvictSession, Welcome, WelcomeFails,
              PeerCloses, DropSession, IInv, TypeOK, Dropping
<1>5. CASE RegisterHTTP(d) \/ RegisterTCP(d) \/ RegisterNoPort(d)
  BY <1>5 DEF RegisterHTTP, RegisterTCP, RegisterNoPort, Insert, IInv, TypeOK, Dropping
<1>6. CASE Spawn(d) \/ Attach(d) \/ DropTunnel(d)
  BY <1>6 DEF Spawn, Attach, DropTunnel, IInv, TypeOK, Dropping
<1>7. CASE DropListener(d)
  BY <1>2, <1>7 DEF DropListener, IInv, TypeOK, Dropping
<1>8. CASE FreePort(d)
  <2>1. d # c
    BY <1>2, <1>8, RelayAssumption DEF FreePort, IInv, TypeOK
  <2>2. QED BY <1>8, <2>1 DEF FreePort, IInv, TypeOK
<1>9. QED BY <1>1, <1>3, <1>4, <1>5, <1>6, <1>7, <1>8 DEF TableStep

(* Only a registration reserves a port, for a tunnel that it inserts.        *)
LEMMA NewLease ==
  ASSUME IInv, Next, NEW p \in Ports, NEW t \in Conns, tcp'[p] = t, tcp[p] # t
  PROVE  port'[t] = p /\ id'[t] \in Names /\ Registered(t)'
<1>1. PICK d \in Conns : ListenerStep(d) \/ StageStep(d) \/ TableStep(d)
  BY NextSorted
<1>2. RegisterTCP(d) \/ FreePort(d)
  BY <1>1 DEF ListenerStep, ListenTCP, Listen, ListenFails, PublishTCPLn,
     Accept, AcceptClosed, AcceptErrs, ServeConn, RefuseConn,
     StageStep, HelloFails, Reject, EvictSession, Welcome, WelcomeFails, PeerCloses,
     DropSession, TableStep, RegisterHTTP, RegisterNoPort, Spawn, Attach, DropTunnel,
     DropListener
<1>3. CASE FreePort(d)
  BY <1>3, RelayAssumption DEF FreePort, IInv, TypeOK
<1>4. CASE RegisterTCP(d)
  <2>1. PICK n \in Names, q \in FreePorts :
          Insert(d, n) /\ tcp' = [tcp EXCEPT ![q] = d] /\ port' = [port EXCEPT ![d] = q]
    BY <1>4 DEF RegisterTCP
  <2>2. d = t /\ q = p
    BY <2>1 DEF IInv, TypeOK
  <2>3. port'[t] = p /\ id'[t] = n /\ tuns'[n] = t
    BY <2>1, <2>2 DEF Insert, IInv, TypeOK
  <2>4. QED BY <2>3 DEF Registered
<1>5. QED BY <1>2, <1>3, <1>4

(* Every step leaves leases with those who have the port.                   *)
LEMMA LeasedStep == IInv /\ Leased /\ [Next]_vars => Leased'
<1> SUFFICES ASSUME IInv, Leased, [Next]_vars PROVE Leased'
  OBVIOUS
<1>1. CASE UNCHANGED vars
  BY <1>1 DEF vars, Leased
<1>2. CASE Next
  <2>1. ASSUME NEW p \in Ports, NEW t \in Conns, tcp'[p] = t
        PROVE  port'[t] = p /\ id'[t] \in Names
    <3>1. CASE tcp[p] = t
      <4>1. port[t] = p /\ id[t] \in Names
        BY <3>1 DEF Leased
      <4>2. pc[t] # "hello"
        BY <4>1, RelayAssumption DEF IInv, Fresh
      <4>3. QED BY <1>2, <4>1, <4>2, NamesStay
    <3>2. CASE tcp[p] # t
      BY <1>2, <2>1, <3>2, NewLease
    <3>3. QED BY <3>1, <3>2
  <2>2. QED BY <2>1 DEF Leased
<1>3. QED BY <1>1, <1>2

(* A step that keeps the lease of a tunnel keeps whoever will return it.    *)
LEMMA KeepsPorts == IInv /\ Leased /\ Next => PortsKept
<1> SUFFICES ASSUME IInv, Leased, Next, NEW p \in Ports, NEW t \in Conns,
                    tcp'[p] = t, tcp[p] = t => Accounted(t)
             PROVE  Accounted(t)' \/ \E c \in Conns \ {t} : TakesOver(c, t)
  BY DEF PortsKept
<1>1. CASE tcp[p] # t
  BY <1>1, NewLease DEF Accounted
<1>2. CASE tcp[p] = t /\ Registered(t)
  BY <1>2, LeavesAccounted
<1>3. CASE tcp[p] = t /\ \E c \in Conns : pc[c] \in Dropping /\ victim[c] = t
  BY <1>3, DropGoesOn DEF Accounted
<1>4. QED BY <1>1, <1>2, <1>3 DEF Accounted

(* Only a take-over, or an allocTCP that fails in place of one, loses a      *)
(* port.                                                                    *)
THEOREM PortsAreAccountedFor == Spec => PortsAccountedFor
<1>1. IInv /\ Leased /\ [Next]_vars => [PortsKept]_vars
  BY KeepsPorts
<1>2. QED
  BY <1>1, Inductive, LeasedInit, LeasedStep, PTL DEF Spec, PortsAccountedFor

-----------------------------------------------------------------------------
(* The capacity of the table.                                               *)

(* The table is finite as Names is.                                         *)
LEMMA TakenIsFinite ==
  /\ IsFiniteSet(Taken) /\ Cardinality(Taken) \in Nat
  /\ IsFiniteSet(Taken') /\ Cardinality(Taken') \in Nat
<1>1. Taken \subseteq Names /\ Taken' \subseteq Names
  BY DEF Taken
<1>2. QED
  BY <1>1, RelayAssumption, FS_Subset, FS_CardinalityType

(* An empty table is not over its limit.                                    *)
LEMMA CapacityInit == Init => Capacity
<1> SUFFICES ASSUME Init PROVE Capacity
  OBVIOUS
<1>1. Taken = {}
  BY DEF Init, Taken
<1>2. QED BY <1>1, FS_EmptySet, RelayAssumption DEF Capacity

(* Only a registration that found the table not full adds a name to it.     *)
LEMMA CapacityStep == IInv /\ Capacity /\ [Next]_vars => Capacity'
<1> SUFFICES ASSUME IInv, Capacity, [Next]_vars PROVE Capacity'
  OBVIOUS
<1>1. ASSUME NEW n \in Names, ~Full, Taken' \subseteq Taken \cup {n}
      PROVE  Capacity'
  <2>1. IsFiniteSet(Taken \cup {n})
        /\ Cardinality(Taken \cup {n}) <= Cardinality(Taken) + 1
    BY TakenIsFinite, FS_AddElement
  <2>2. Cardinality(Taken') <= Cardinality(Taken \cup {n})
        /\ Cardinality(Taken \cup {n}) \in Nat
    BY <1>1, <2>1, FS_Subset, FS_CardinalityType
  <2>3. Cardinality(Taken) < MaxTunnels
    BY <1>1, TakenIsFinite, RelayAssumption DEF Full
  <2>4. QED BY <2>1, <2>2, <2>3, TakenIsFinite, RelayAssumption DEF Capacity
<1>2. ASSUME Taken' \subseteq Taken
      PROVE  Capacity'
  BY <1>2, TakenIsFinite, FS_Subset, RelayAssumption DEF Capacity
<1>3. CASE UNCHANGED vars
  BY <1>2, <1>3 DEF vars, Taken
<1>4. ASSUME NEW c \in Conns, ListenerStep(c) \/ StageStep(c)
      PROVE  Capacity'
  <2>1. UNCHANGED tuns
    BY <1>4 DEF ListenerStep, ListenTCP, Listen, ListenFails, PublishTCPLn,
                Accept, AcceptClosed, AcceptErrs, ServeConn, RefuseConn,
                StageStep, HelloFails, Reject, EvictSession, Welcome,
                WelcomeFails, PeerCloses, DropSession
  <2>2. QED BY <1>2, <2>1 DEF Taken
<1>5. ASSUME NEW c \in Conns, TableStep(c)
      PROVE  Capacity'
  <2>1. CASE RegisterHTTP(c) \/ RegisterTCP(c)
    <3>1. PICK n \in Names : ~Full /\ Insert(c, n)
      BY <2>1 DEF RegisterHTTP, RegisterTCP, Granted
    <3>2. Taken' \subseteq Taken \cup {n}
      BY <3>1 DEF Insert, Taken, IInv, TypeOK
    <3>3. QED BY <1>1, <3>1, <3>2
  <2>2. CASE RegisterNoPort(c) \/ DropTunnel(c)
    <3>1. Taken' \subseteq Taken
      BY <2>2 DEF RegisterNoPort, DropTunnel, Taken, IInv, TypeOK
    <3>2. QED BY <1>2, <3>1
  <2>3. CASE Spawn(c) \/ Attach(c) \/ DropListener(c) \/ FreePort(c)
    <3>1. UNCHANGED tuns
      BY <2>3 DEF Spawn, Attach, DropListener, FreePort
    <3>2. QED BY <1>2, <3>1 DEF Taken
  <2>4. QED BY <1>5, <2>1, <2>2, <2>3 DEF TableStep
<1>6. QED BY <1>3, <1>4, <1>5, NextSorted

(* The relay never holds more than MaxTunnels tunnels, although len(s.tuns) *)
(* is compared with the limit before a take-over is looked for.             *)
THEOREM CapacityHolds == Spec => []Capacity
BY Inductive, CapacityInit, CapacityStep, PTL DEF Spec

-----------------------------------------------------------------------------
(* The relay implements the contract of NameService.                        *)

(* The empty tables are those of NameService.                               *)
LEMMA InitRefines == Init => NS!Init
BY DEF Init, NS!Init

(* A registration is a Claim.                                               *)
LEMMA InsertClaims ==
  ASSUME IInv, NEW c \in Conns, NEW n \in Names, ~Full, Insert(c, n),
         \/ UNCHANGED tcp
         \/ \E p \in FreePorts : tcp' = [tcp EXCEPT ![p] = c]
  PROVE  NS!Claim(c, n)
<1>1. id[c] = NoName
  BY DEF IInv, Insert, Fresh
<1>2. NS!Cardinality(NS!Held) < MaxTunnels
  <2>1. Cardinality(Taken) < MaxTunnels
    BY TakenIsFinite, RelayAssumption DEF Full
  <2>2. Taken = NS!Held
    BY DEF Taken, NS!Held
  <2>3. NS!Cardinality(Taken) = Cardinality(Taken)
    BY DEF NS!Cardinality, Cardinality
  <2>4. QED BY <2>1, <2>2, <2>3
<1>3. UNCHANGED tcp \/ \E p \in Ports : NS!LeasePort(c, p)
  BY DEF FreePorts, NS!LeasePort
<1>4. QED
  BY <1>1, <1>2, <1>3 DEF Insert, NS!Claim

(* Taking an entry out of the table is a Withdraw, or nothing if there was  *)
(* none.                                                                    *)
LEMMA RemovalWithdraws ==
  ASSUME TypeOK, NEW n \in Names, UNCHANGED <<id, tcp>>,
         tuns' = [tuns EXCEPT ![n] = NoConn]
  PROVE  NS!Withdraw(n) \/ UNCHANGED NS!nsvars
BY DEF TypeOK, NS!Withdraw, NS!nsvars

(* Every step is a step of NameService or changes nothing that it sees.     *)
LEMMA StepRefines == IInv /\ [Next]_vars => [NS!Next]_(NS!nsvars)
<1> SUFFICES ASSUME IInv, [Next]_vars PROVE NS!Next \/ UNCHANGED NS!nsvars
  OBVIOUS
<1>1. CASE UNCHANGED vars
  BY <1>1 DEF vars, NS!nsvars
<1>2. ASSUME NEW c \in Conns, ListenerStep(c) \/ StageStep(c)
      PROVE  UNCHANGED NS!nsvars
  BY <1>2 DEF NS!nsvars, ListenerStep, ListenTCP, Listen, ListenFails,
              PublishTCPLn, Accept, AcceptClosed, AcceptErrs, ServeConn,
              RefuseConn, StageStep, HelloFails, Reject, EvictSession, Welcome,
              WelcomeFails, PeerCloses, DropSession
<1>3. ASSUME NEW c \in Conns, TableStep(c)
      PROVE  NS!Next \/ UNCHANGED NS!nsvars
  <2>1. CASE RegisterHTTP(c) \/ RegisterTCP(c)
    <3>1. PICK n \in Names :
            /\ ~Full
            /\ Insert(c, n)
            /\ \/ UNCHANGED tcp
               \/ \E p \in FreePorts : tcp' = [tcp EXCEPT ![p] = c]
      BY <2>1 DEF RegisterHTTP, RegisterTCP, Granted
    <3>2. QED BY <3>1, InsertClaims DEF NS!Next
  <2>2. CASE RegisterNoPort(c)
    <3>1. PICK n \in Names :
            UNCHANGED <<id, tcp>> /\ tuns' = [tuns EXCEPT ![n] = NoConn]
      BY <2>2 DEF RegisterNoPort
    <3>2. QED BY <3>1, RemovalWithdraws DEF IInv, NS!Next
  <2>3. CASE DropTunnel(c)
    <3>1. id[c] \in Names
      BY <2>3 DEF IInv, Named, DropTunnel
    <3>2. UNCHANGED <<id, tcp>> /\ tuns' = [tuns EXCEPT ![id[c]] = NoConn]
      BY <2>3 DEF DropTunnel
    <3>3. QED BY <3>1, <3>2, RemovalWithdraws DEF IInv, NS!Next
  (* The port goes back after the tunnel has left the table.                *)
  <2>4. CASE FreePort(c)
    <3> DEFINE v == victim[c]
    <3>1. v \in Conns /\ v # NoConn /\ port[v] \in Ports /\ tcp[port[v]] = v
      BY <2>4 DEF IInv, TypeOK, FreePort, Undertaking, Dropping
    <3>2. \A n \in Names : tuns[n] # v
      BY <3>1 DEF IInv, OneUndertaker, Registered
    <3>3. NS!ReturnPort(port[v])
      BY <2>4, <3>1, <3>2 DEF FreePort, NS!ReturnPort
    <3>4. QED BY <3>1, <3>3 DEF NS!Next
  <2>5. CASE Spawn(c) \/ Attach(c) \/ DropListener(c)
    BY <2>5 DEF Spawn, Attach, DropListener, NS!nsvars
  <2>6. QED BY <1>3, <2>1, <2>2, <2>3, <2>4, <2>5 DEF TableStep
<1>4. QED BY <1>1, <1>2, <1>3, NextSorted

(* Seen through its tables the relay is a name service: one claim for each  *)
(* connection, at most MaxTunnels holders, and a port that is given back    *)
(* only when its tunnel has left the table.                                 *)
THEOREM Refinement == Spec => ImplementsNameService
BY Inductive, InitRefines, StepRefines, PTL
   DEF Spec, ImplementsNameService, NS!Spec

-----------------------------------------------------------------------------
(* Whose listener runs has an id.                                           *)
Heard == \A t \in Conns : lpc[t] # "none" => id[t] \in Names

(* A listener is started by a handler that register let through.            *)
LEMMA HeardStep == IInv /\ Heard /\ [Next]_vars => Heard'
<1> SUFFICES ASSUME IInv, Heard, [Next]_vars PROVE Heard'
  OBVIOUS
<1>1. CASE UNCHANGED vars
  BY <1>1 DEF vars, Heard
<1>2. ASSUME NEW c \in Conns, ListenerStep(c)
      PROVE  Heard'
  BY <1>2 DEF Heard, ListenerStep, ListenTCP, Listen, ListenFails, PublishTCPLn, Accept,
              AcceptClosed, AcceptErrs, ServeConn, RefuseConn, IInv, TypeOK
<1>3. ASSUME NEW c \in Conns, StageStep(c)
      PROVE  Heard'
  BY <1>3 DEF Heard, StageStep, HelloFails, Reject, EvictSession, Welcome, WelcomeFails,
              PeerCloses, DropSession
<1>4. ASSUME NEW c \in Conns, TableStep(c)
      PROVE  Heard'
  <2>1. CASE RegisterHTTP(c) \/ RegisterTCP(c)
    <3>1. PICK n \in Names : id' = [id EXCEPT ![c] = n] /\ UNCHANGED lpc
      BY <2>1 DEF RegisterHTTP, RegisterTCP, Insert
    <3>2. QED BY <3>1 DEF Heard, IInv, TypeOK
  <2>2. CASE Spawn(c)
    BY <2>2 DEF Spawn, Heard, IInv, TypeOK, Named
  <2>3. CASE RegisterNoPort(c) \/ Attach(c) \/ DropTunnel(c) \/ DropListener(c) \/ FreePort(c)
    BY <2>3 DEF RegisterNoPort, Attach, DropTunnel, DropListener, FreePort, Heard
  <2>4. QED BY <1>4, <2>1, <2>2, <2>3 DEF TableStep
<1>5. QED BY <1>1, <1>2, <1>3, <1>4, NextSorted

(* The tunnel a listener finds under its id has that id, and its session is *)
(* one of a connection with that id.                                        *)
THEOREM PortsReach == Spec => PortsReachOwners
<1>1. Init => Heard
  BY DEF Init, Heard
<1>2. ASSUME IInv, Heard, NEW t \in Conns, ServeConn(t)
      PROVE  LET c == session[Current(t)] IN c \in Conns /\ id[c] = id[t] /\ id[t] \in Names
  <2>1. id[t] \in Names
    BY <1>2 DEF ServeConn, Heard
  <2>2. Current(t) \in Conns /\ id[Current(t)] = id[t]
    BY <1>2, <2>1 DEF ServeConn, Serves, Current, IInv, TypeOK, NoGhostEntry
  <2>3. session[Current(t)] \in Conns
    BY <1>2, <2>2 DEF ServeConn, Serves, IInv, TypeOK
  <2>4. QED BY <1>2, <2>1, <2>2, <2>3 DEF IInv, NameIsolation
<1>3. IInv /\ Heard => [\A t \in Conns : ServeConn(t) =>
        LET c == session[Current(t)] IN c \in Conns /\ id[c] = id[t] /\ id[t] \in Names]_vars
  BY <1>2
<1>4. QED BY <1>1, <1>3, Inductive, HeardStep, PTL DEF Spec, PortsReachOwners

-----------------------------------------------------------------------------
(* The relay implements the table that the public front reads.              *)

(* A session is stored in one tunnel, once, when it exists.                 *)
Wired ==
  /\ \A c \in Conns : pc[c] = "attach" => sess[c] # "none"
  /\ \A t, c \in Conns : session[t] = c =>
       /\ sess[c] # "none"
       /\ pc[c] \notin {"hello", "evict", "spawn", "welcome", "attach"}
       /\ \A u \in Conns : session[u] = c => u = t

(* No session is stored anywhere.                                           *)
LEMMA WiredInit == Init => Wired
BY RelayAssumption DEF Init, Wired

(* Who has stored its session does not come to that place again.            *)
LEMMA WiredStep == IInv /\ Wired /\ [Next]_vars => Wired'
<1> SUFFICES ASSUME IInv, Wired, [Next]_vars PROVE Wired'
  OBVIOUS
<1>1. CASE UNCHANGED vars
  BY <1>1 DEF vars, Wired
<1>2. ASSUME NEW c \in Conns, ListenerStep(c)
      PROVE  Wired'
  BY <1>2 DEF Wired, ListenerStep, ListenTCP, Listen, ListenFails, PublishTCPLn,
              Accept, AcceptClosed, AcceptErrs, ServeConn, RefuseConn
<1>3. ASSUME NEW c \in Conns, StageStep(c)
      PROVE  Wired'
  BY <1>3 DEF Wired, StageStep, HelloFails, Reject, EvictSession, Welcome, WelcomeFails,
              PeerCloses, DropSession, CloseSession, IInv, TypeOK
<1>4. ASSUME NEW c \in Conns, TableStep(c)
      PROVE  Wired'
  <2>1. CASE RegisterHTTP(c) \/ RegisterTCP(c) \/ RegisterNoPort(c)
    <3>1. /\ pc[c] = "hello" /\ UNCHANGED <<session, sess>>
          /\ \E l \in {"spawn", "evict", "refused"} : pc' = [pc EXCEPT ![c] = l]
      BY <2>1 DEF RegisterHTTP, RegisterTCP, RegisterNoPort, Insert
    <3>2. pc \in [Conns -> Stages] /\ \A t \in Conns : session[t] # c
      BY <3>1 DEF Wired, IInv, TypeOK
    <3>3. QED BY <3>1, <3>2 DEF Wired
  <2>2. CASE Attach(c)
    <3>1. id[c] \in Names /\ tuns[id[c]] \in Conns \cup {NoConn}
      BY <2>2 DEF Attach, IInv, TypeOK, Named
    <3>2. pc[c] = "attach" /\ sess[c] # "none" /\ \A t \in Conns : session[t] # c
      BY <2>2 DEF Attach, Wired
    <3>3. QED BY <2>2, <3>1, <3>2 DEF Attach, Wired, IInv, TypeOK
  <2>3. CASE Spawn(c) \/ DropTunnel(c) \/ DropListener(c) \/ FreePort(c)
    BY <2>3 DEF Wired, Spawn, DropTunnel, DropListener, FreePort, IInv, TypeOK
  <2>4. QED BY <1>4, <2>1, <2>2, <2>3 DEF TableStep
<1>5. QED BY <1>1, <1>2, <1>3, <1>4, NextSorted

(* An empty relay is an empty table.                                        *)
LEMMA InitIsTable == Init => TT!TableInit
BY DEF Init, TT!TableInit, Protos, Sessions

(* The end of a session is the end of that of one tunnel, if of any.        *)
LEMMA CloseEnds ==
  ASSUME IInv, Wired, NEW d \in Conns \cup {NoConn}, CloseSession(d),
         UNCHANGED <<tuns, id, port, session>>
  PROVE  (\E t \in Conns : TT!SessionEnds(t)) \/ UNCHANGED TT!relay
<1>1. UNCHANGED <<tuns, id, Protos>>
  BY DEF Protos
<1>2. CASE \E t \in Conns : d \in Conns /\ session[t] = d /\ sess[d] = "open"
  <2>1. PICK t \in Conns : d \in Conns /\ session[t] = d /\ sess[d] = "open"
    BY <1>2
  <2>2. sess' = [sess EXCEPT ![d] = "closed"] /\ d # NoConn /\ session' = session
    BY <2>1, RelayAssumption DEF CloseSession
  <2>3. \A u \in Conns : session[u] = d => u = t
    BY <2>1 DEF Wired
  <2>4. Sessions[t] = "open" /\ Sessions' = [Sessions EXCEPT ![t] = "closed"]
    <3>1. sess \in [Conns -> {"none", "open", "closed"}] /\ session \in [Conns -> Conns \cup {NoConn}]
      BY DEF IInv, TypeOK
    <3>2. Sessions[t] = "open"
      BY <2>1, <2>2 DEF Sessions
    <3>3. \A u \in Conns : Sessions'[u] = IF u = t THEN "closed" ELSE Sessions[u]
      <4> SUFFICES ASSUME NEW u \in Conns
                   PROVE  Sessions'[u] = IF u = t THEN "closed" ELSE Sessions[u]
        OBVIOUS
      <4>1. CASE u = t
        BY <2>1, <2>2, <3>1, <4>1 DEF Sessions
      <4>2. CASE u # t
        BY <2>2, <2>3, <3>1, <4>2 DEF Sessions
      <4>3. QED BY <4>1, <4>2
    <3>4. DOMAIN Sessions = Conns /\ DOMAIN Sessions' = Conns
      BY DEF Sessions
    <3>5. Sessions' = [u \in Conns |-> Sessions'[u]]
      BY DEF Sessions
    <3>6. QED BY <3>2, <3>3, <3>4, <3>5
  <2>5. TT!SessionEnds(t)
    BY <1>1, <2>4 DEF TT!SessionEnds
  <2>6. QED BY <2>5
<1>3. CASE ~\E t \in Conns : d \in Conns /\ session[t] = d /\ sess[d] = "open"
  <2>1. \A t \in Conns : session[t] # NoConn => sess'[session[t]] = sess[session[t]]
    BY <1>3, RelayAssumption DEF CloseSession, Wired, IInv, TypeOK
  <2>2. UNCHANGED Sessions
    BY <2>1 DEF Sessions
  <2>3. QED BY <1>1, <2>2 DEF TT!relay
<1>4. QED BY <1>2, <1>3

(* Steps of the stages end a session or are not seen.                       *)
LEMMA StageSeen ==
  ASSUME IInv, Wired, NEW c \in Conns, StageStep(c)
  PROVE  (\E t \in Conns : TT!SessionEnds(t)) \/ UNCHANGED TT!relay
<1>1. UNCHANGED <<tuns, id, port, session>>
  BY DEF StageStep, HelloFails, Reject, EvictSession, Welcome, WelcomeFails,
         PeerCloses, DropSession
<1>2. CASE HelloFails(c) \/ Reject(c) \/ WelcomeFails(c)
  BY <1>1, <1>2 DEF HelloFails, Reject, WelcomeFails, TT!relay, Protos, Sessions
<1>3. CASE Welcome(c)
  <2>1. \A t \in Conns : session[t] # c
    BY <1>3 DEF Welcome, Wired
  <2>2. \A t \in Conns : session[t] # NoConn => sess'[session[t]] = sess[session[t]]
    BY <1>3, <2>1 DEF Welcome, IInv, TypeOK
  <2>3. QED BY <1>1, <2>2 DEF TT!relay, Protos, Sessions
<1>4. CASE EvictSession(c) \/ DropSession(c)
  <2>1. victim[c] \in Conns
    BY <1>4 DEF EvictSession, DropSession, IInv, Undertaking, TypeOK, Dropping
  <2>2. session[victim[c]] \in Conns \cup {NoConn} /\ CloseSession(session[victim[c]])
    BY <1>4, <2>1 DEF EvictSession, DropSession, IInv, TypeOK
  <2>3. QED BY <1>1, <2>2, CloseEnds
<1>5. CASE PeerCloses(c)
  <2>1. CloseSession(c)
    BY <1>5, RelayAssumption DEF PeerCloses, CloseSession
  <2>2. QED BY <1>1, <2>1, CloseEnds
<1>6. QED BY <1>2, <1>3, <1>4, <1>5 DEF StageStep

(* A registration puts a tunnel into the table that was in it never before.  *)
LEMMA InsertSeen ==
  ASSUME IInv, NEW c \in Conns, NEW n \in Names, Insert(c, n),
         \/ UNCHANGED port
         \/ \E p \in Ports : port' = [port EXCEPT ![c] = p]
  PROVE  TT!Register(n)
<1>1. id[c] = NoName /\ session[c] = NoConn
  BY DEF Insert, IInv, Fresh
<1>2. UNCHANGED Sessions
  BY DEF Insert, Sessions
<1>3. \E p \in {"http", "tcp"} : Protos' = [Protos EXCEPT ![c] = p]
  <2>1. Protos' = [Protos EXCEPT ![c] = Protos'[c]]
    BY DEF Protos, IInv, TypeOK
  <2>2. Protos'[c] \in {"http", "tcp"}
    BY DEF Protos
  <2>3. QED BY <2>1, <2>2
<1>4. tuns' = [tuns EXCEPT ![n] = c] /\ id' = [id EXCEPT ![c] = n]
  BY DEF Insert
<1>5. QED BY <1>1, <1>2, <1>3, <1>4 DEF TT!Register

(* Taking an entry out is a Drop, or nothing if there was none.             *)
LEMMA RemovalSeen ==
  ASSUME TypeOK, NEW n \in Names, UNCHANGED <<id, port, session, sess>>,
         tuns' = [tuns EXCEPT ![n] = NoConn]
  PROVE  TT!Drop(n) \/ UNCHANGED TT!relay
<1>1. UNCHANGED <<id, Protos, Sessions>>
  BY DEF Protos, Sessions
<1>2. CASE tuns[n] = NoConn
  BY <1>1, <1>2 DEF TypeOK, TT!relay
<1>3. CASE tuns[n] # NoConn
  BY <1>1, <1>3 DEF TT!Drop
<1>4. QED BY <1>2, <1>3

(* What is attached is a session that is open or has ended.                 *)
LEMMA AttachSeen ==
  ASSUME IInv, Wired, NEW c \in Conns, Attach(c)
  PROVE  TT!Attach(id[c]) \/ UNCHANGED TT!relay
<1>1. /\ id[c] \in Names /\ tuns[id[c]] \in Conns \cup {NoConn}
      /\ sess[c] \in {"open", "closed"}
  BY DEF Attach, IInv, TypeOK, Named, Wired
<1>2. UNCHANGED <<tuns, id, Protos>>
  BY DEF Attach, Protos
<1>3. CASE tuns[id[c]] = NoConn
  <2>1. UNCHANGED Sessions
    BY <1>3 DEF Attach, Sessions
  <2>2. QED BY <1>2, <2>1 DEF TT!relay
<1>4. CASE tuns[id[c]] # NoConn
  <2>1. Sessions' = [Sessions EXCEPT ![tuns[id[c]]] = sess[c]]
    BY <1>1, <1>4, RelayAssumption DEF Attach, Sessions, IInv, TypeOK
  <2>2. QED BY <1>1, <1>2, <1>4, <2>1 DEF TT!Attach
<1>5. QED BY <1>3, <1>4

(* Every step is one of the table or is not seen.                           *)
LEMMA StepSeen == IInv /\ Wired /\ [Next]_vars => [TT!TableNext]_(TT!relay)
<1> SUFFICES ASSUME IInv, Wired, [Next]_vars PROVE TT!TableNext \/ UNCHANGED TT!relay
  OBVIOUS
<1>1. CASE UNCHANGED vars
  BY <1>1 DEF vars, TT!relay, Protos, Sessions
<1>2. ASSUME NEW c \in Conns, ListenerStep(c)
      PROVE  UNCHANGED TT!relay
  BY <1>2 DEF TT!relay, Protos, Sessions, ListenerStep, ListenTCP, Listen, ListenFails,
              PublishTCPLn, Accept, AcceptClosed, AcceptErrs, ServeConn, RefuseConn
<1>3. ASSUME NEW c \in Conns, StageStep(c)
      PROVE  TT!TableNext \/ UNCHANGED TT!relay
  BY <1>3, StageSeen DEF TT!TableNext
<1>4. ASSUME NEW c \in Conns, TableStep(c)
      PROVE  TT!TableNext \/ UNCHANGED TT!relay
  <2>1. CASE RegisterHTTP(c) \/ RegisterTCP(c)
    <3>1. PICK n \in Names :
            /\ Insert(c, n)
            /\ UNCHANGED port \/ \E p \in Ports : port' = [port EXCEPT ![c] = p]
      BY <2>1 DEF RegisterHTTP, RegisterTCP, FreePorts
    <3>2. QED BY <3>1, InsertSeen DEF TT!TableNext
  <2>2. CASE RegisterNoPort(c)
    <3>1. PICK n \in Names :
            UNCHANGED <<id, port, session, sess>> /\ tuns' = [tuns EXCEPT ![n] = NoConn]
      BY <2>2 DEF RegisterNoPort
    <3>2. QED BY <3>1, RemovalSeen DEF IInv, TT!TableNext
  <2>3. CASE DropTunnel(c)
    <3>1. id[c] \in Names
      BY <2>3 DEF IInv, Named, DropTunnel
    <3>2. UNCHANGED <<id, port, session, sess>> /\ tuns' = [tuns EXCEPT ![id[c]] = NoConn]
      BY <2>3 DEF DropTunnel
    <3>3. QED BY <3>1, <3>2, RemovalSeen DEF IInv, TT!TableNext
  <2>4. CASE Attach(c)
    <3>1. id[c] \in Names
      BY <2>4 DEF IInv, Named, Attach
    <3>2. QED BY <2>4, <3>1, AttachSeen DEF TT!TableNext
  <2>5. CASE Spawn(c) \/ DropListener(c) \/ FreePort(c)
    BY <2>5 DEF Spawn, DropListener, FreePort, TT!relay, Protos, Sessions
  <2>6. QED BY <1>4, <2>1, <2>2, <2>3, <2>4, <2>5 DEF TableStep
<1>5. QED BY <1>1, <1>2, <1>3, <1>4, NextSorted

(* Whoever only reads the table sees a TunnelTable, whatever the handlers of *)
(* the tunnels in it and of those that have left it are doing.              *)
THEOREM TableRefinement == Spec => ImplementsTunnelTable
BY Inductive, WiredInit, WiredStep, InitIsTable, StepSeen, PTL
   DEF Spec, ImplementsTunnelTable, TT!TableSpec
=============================================================================
