------------------------------- MODULE Relay -------------------------------
(***************************************************************************)
(* The control plane of the mrok relay (internal/server/server.go): the    *)
(* table of tunnels, the table of reserved TCP ports, one handleConn       *)
(* goroutine per control connection and one listenTCP goroutine per TCP    *)
(* tunnel.                                                                 *)
(*                                                                         *)
(* handleConn creates at most one Tunnel and at most one yamux session, so *)
(* a connection c also names the Tunnel it registered and the session it   *)
(* opened: tuns[n] = c reads "tuns[n] points to the Tunnel of c", and      *)
(* session[t] = c reads "the Session field of tunnel t holds the session   *)
(* of c".  The two need not be the same connection: handleConn stores its  *)
(* session into whatever tunnel the table holds under its id.              *)
(*                                                                         *)
(* A step is a critical section of s.mu or s.tcpMu, or a stretch of code   *)
(* between two of them that reads or writes one shared object.             *)
(***************************************************************************)
EXTENDS Integers, FiniteSets

CONSTANTS
  Conns,         \* control connections the relay accepts, one goroutine each
  Names,         \* ids that idgen.Normalize accepts
  Vanity,        \* the ids among them that are short enough to need a token
  Hellos,        \* the Hello frames clients may send
  Unnamed,       \* Hello.Name when it is empty
  Blank,         \* Hello.Name when only white space is in it
  Invalid,       \* Hello.Name when Normalize refuses it (malformed, reserved)
  NoConn, NoName,
  Open,          \* Config.Open: tunnels need no token
  HasToken,      \* Config.Token # ""
  MaxTunnels,    \* Config.MaxTunnels, after New has replaced values below 1
  TCPMin, TCPMax,
  ForeignPorts   \* ports of the range that another process of the host holds

NoPort == 0
Ports  == TCPMin .. TCPMax
Hello  == [v : BOOLEAN,                        \* is Hello.V proto.Version?
           proto : {"", "http", "tcp", "other"},
           name : Names \cup {Unnamed, Blank, Invalid},
           token : BOOLEAN]                    \* is Hello.Token Config.Token?

ASSUME RelayAssumption ==
  /\ IsFiniteSet(Names)
  /\ Vanity \subseteq Names
  /\ Hellos \subseteq Hello
  /\ {Unnamed, Blank, Invalid} \cap Names = {}
  /\ NoConn \notin Conns
  /\ NoName \notin Names
  /\ Open \in BOOLEAN /\ HasToken \in BOOLEAN
  /\ MaxTunnels \in Nat \ {0}
  /\ TCPMin \in Nat \ {0} /\ TCPMax \in Nat
  /\ ForeignPorts \subseteq Ports

VARIABLES
  tuns,      \* Server.tuns: id -> tunnel
  tcp,       \* Server.tcp: port -> tunnel it was reserved for (the code keeps
             \* the tunnel's id there and never reads it, only its presence)
  pc,        \* where the handleConn goroutine of a connection is
  id,        \* Tunnel.ID, and the local variable id of handleConn
  port,      \* Tunnel.TCPPort; NoPort says that Tunnel.Proto is http
  session,   \* Tunnel.Session: the connection whose session it holds
  sess,      \* the yamux session of a connection
  victim,    \* the tunnel that register (old) or drop (t) took out of tuns
  lpc,       \* where the listenTCP goroutine of a tunnel is
  bound      \* the host's sockets: port -> tunnel whose listener holds it

vars == <<tuns, tcp, pc, id, port, session, sess, victim, lpc, bound>>

-----------------------------------------------------------------------------
(* The stages of handleConn: "hello" waits for the Hello frame; "evict" and
   "spawn" finish register after its critical section; "drop" is the call of
   drop, and "dropsess", "dropln", "dropport" what drop does after its first
   critical section.  "refused" ends a connection that was sent an error.  *)
Stages    == {"hello", "evict", "spawn", "welcome", "attach", "up",
              "drop", "dropsess", "dropln", "dropport", "done", "refused"}
Dropping  == {"dropsess", "dropln", "dropport"}
Listening == {"bound", "accept", "lookup"}

TypeOK ==
  /\ tuns    \in [Names -> Conns \cup {NoConn}]
  /\ tcp     \in [Ports -> Conns \cup {NoConn}]
  /\ pc      \in [Conns -> Stages]
  /\ id      \in [Conns -> Names \cup {NoName}]
  /\ port    \in [Conns -> Ports \cup {NoPort}]
  /\ session \in [Conns -> Conns \cup {NoConn}]
  /\ sess    \in [Conns -> {"none", "open", "closed"}]
  /\ victim  \in [Conns -> Conns \cup {NoConn}]
  /\ lpc     \in [Conns -> {"none", "listen", "dead"} \cup Listening]
  /\ bound   \in [Ports -> Conns \cup {NoConn}]

Init ==
  /\ tuns    = [n \in Names |-> NoConn]
  /\ tcp     = [p \in Ports |-> NoConn]
  /\ pc      = [c \in Conns |-> "hello"]
  /\ id      = [c \in Conns |-> NoName]
  /\ port    = [c \in Conns |-> NoPort]
  /\ session = [c \in Conns |-> NoConn]
  /\ sess    = [c \in Conns |-> "none"]
  /\ victim  = [c \in Conns |-> NoConn]
  /\ lpc     = [c \in Conns |-> "none"]
  /\ bound   = [p \in Ports |-> NoConn]

-----------------------------------------------------------------------------
(* What register checks before it touches anything.                         *)

Taken     == {n \in Names : tuns[n] # NoConn}
LongNames == Names \ Vanity

\* Mutant of Full: one tunnel too many.
FullLate == Cardinality(Taken) > MaxTunnels

Full == Cardinality(Taken) >= MaxTunnels

\* Mutant of FreePorts: the loop of allocTCP runs one port too far.
FreePortsPastEnd == {p \in TCPMin .. TCPMax + 1 : p \in Ports => tcp[p] = NoConn}

\* Mutant of FreePorts: allocTCP does not look whether a port is used.
FreePortsUnchecked == Ports

FreePorts == {p \in Ports : tcp[p] = NoConn}

Admitted(h) ==
  /\ h.v
  /\ h.proto # "other"
  /\ Open \/ ~HasToken \/ h.token

(* The ids a Hello may be given.  An empty name asks for a random long id    *)
(* that is free; a blank one gets a random long id from Normalize, which     *)
(* does not look at the table.                                              *)
Candidates(h) ==
  CASE h.name = Unnamed -> LongNames \ Taken
    [] h.name = Blank   -> LongNames
    [] h.name = Invalid -> {}
    [] OTHER            -> {h.name}

NeedsToken(n, h) == n \in Vanity /\ HasToken /\ ~h.token

Granted(h, n) ==
  /\ Admitted(h)
  /\ ~Full
  /\ n \in Candidates(h)
  /\ ~NeedsToken(n, h)

(* The last disjunct: all eight random draws hit ids that are in use.       *)
Refused(h) ==
  \/ ~Admitted(h)
  \/ Full
  \/ h.name = Invalid
  \/ h.name \in Names /\ NeedsToken(h.name, h)
  \/ h.name = Unnamed /\ Taken \cap LongNames # {}

-----------------------------------------------------------------------------
(* Closing a yamux session or a listener from another goroutine.            *)

CloseSession(c) ==
  sess' = IF c = NoConn THEN sess ELSE [sess EXCEPT ![c] = "closed"]

(* Tunnel.TCPLn is nil until listenTCP has stored it, one step after bind.  *)
Published(t) == lpc[t] \in {"accept", "lookup"}

Unbind(t) ==
  bound' = IF port[t] # NoPort /\ bound[port[t]] = t
           THEN [bound EXCEPT ![port[t]] = NoConn]
           ELSE bound

CloseTCPLn(t) ==
  IF t # NoConn /\ Published(t) THEN Unbind(t) ELSE UNCHANGED bound

-----------------------------------------------------------------------------
(* handleConn: the Hello frame and register's critical section.             *)

(* The handshake fails, or no Hello arrives within the deadline.            *)
HelloFails(c) ==
  /\ pc[c] = "hello"
  /\ pc' = [pc EXCEPT ![c] = "done"]
  /\ UNCHANGED <<tuns, tcp, id, port, session, sess, victim, lpc, bound>>

(* register returns an error before it has touched anything.                *)
Reject(c) ==
  /\ pc[c] = "hello"
  /\ \E h \in Hellos : Refused(h)
  /\ pc' = [pc EXCEPT ![c] = "refused"]
  /\ UNCHANGED <<tuns, tcp, id, port, session, sess, victim, lpc, bound>>

(* Insert the tunnel of c under n; what the table held there is victim.     *)
Insert(c, n) ==
  /\ pc[c] = "hello"
  /\ tuns'   = [tuns EXCEPT ![n] = c]
  /\ id'     = [id EXCEPT ![c] = n]
  /\ victim' = [victim EXCEPT ![c] = tuns[n]]
  /\ pc'     = [pc EXCEPT ![c] = IF tuns[n] = NoConn THEN "spawn" ELSE "evict"]
  /\ UNCHANGED <<session, sess, lpc, bound>>

RegisterHTTP(c) ==
  \E h \in Hellos, n \in Names :
    /\ Granted(h, n)
    /\ h.proto \in {"", "http"}
    /\ Insert(c, n)
    /\ UNCHANGED <<tcp, port>>

(* allocTCP reserves the lowest port that is not in the table of ports.     *)
RegisterTCP(c) ==
  \E h \in Hellos, n \in Names, p \in FreePorts :
    /\ Granted(h, n)
    /\ h.proto = "tcp"
    /\ \A q \in FreePorts : p <= q
    /\ Insert(c, n)
    /\ tcp'  = [tcp EXCEPT ![p] = c]
    /\ port' = [port EXCEPT ![c] = p]

(* allocTCP fails after register has deleted the tunnel the name had.       *)
RegisterNoPort(c) ==
  \E h \in Hellos, n \in Names :
    /\ Granted(h, n)
    /\ h.proto = "tcp"
    /\ FreePorts = {}
    /\ pc[c] = "hello"
    /\ tuns' = [tuns EXCEPT ![n] = NoConn]
    /\ pc'   = [pc EXCEPT ![c] = "refused"]
    /\ UNCHANGED <<tcp, id, port, session, sess, victim, lpc, bound>>

\* Mutant of EvictSession: the session of the old tunnel is left open.
EvictLeavesSession(c) ==
  /\ pc[c] = "evict"
  /\ pc' = [pc EXCEPT ![c] = "spawn"]
  /\ UNCHANGED <<tuns, tcp, id, port, session, sess, victim, lpc, bound>>

(* register after its critical section: close the tunnel that was replaced  *)
(* and start the new one's listener.  old.Session and old.TCPLn are read    *)
(* here, without the lock.                                                  *)
EvictSession(c) ==
  /\ pc[c] = "evict"
  /\ CloseSession(session[victim[c]])
  /\ pc' = [pc EXCEPT ![c] = "spawn"]
  /\ UNCHANGED <<tuns, tcp, id, port, session, victim, lpc, bound>>

Spawn(c) ==
  /\ pc[c] = "spawn"
  /\ CloseTCPLn(victim[c])
  /\ victim' = [victim EXCEPT ![c] = NoConn]
  /\ lpc' = IF port[c] = NoPort THEN lpc ELSE [lpc EXCEPT ![c] = "listen"]
  /\ pc'  = [pc EXCEPT ![c] = "welcome"]
  /\ UNCHANGED <<tuns, tcp, id, port, session, sess>>

-----------------------------------------------------------------------------
(* handleConn after register.                                               *)

(* The Welcome is written and the yamux session exists, unattached.         *)
Welcome(c) ==
  /\ pc[c] = "welcome"
  /\ sess' = [sess EXCEPT ![c] = "open"]
  /\ pc'   = [pc EXCEPT ![c] = "attach"]
  /\ UNCHANGED <<tuns, tcp, id, port, session, victim, lpc, bound>>

\* Mutant of WelcomeFails: the error path closes conn and forgets drop.
WelcomeFailsKeeps(c) ==
  /\ pc[c] = "welcome"
  /\ pc' = [pc EXCEPT ![c] = "done"]
  /\ UNCHANGED <<tuns, tcp, id, port, session, sess, victim, lpc, bound>>

(* The Welcome cannot be written, or yamux.Server returns an error.         *)
WelcomeFails(c) ==
  /\ pc[c] = "welcome"
  /\ pc' = [pc EXCEPT ![c] = "drop"]
  /\ UNCHANGED <<tuns, tcp, id, port, session, sess, victim, lpc, bound>>

\* Mutant of Attach: the tunnel is looked up under the wrong key.
AttachUnkeyed(c) ==
  \E n \in Names :
    LET t == tuns[n] IN
    /\ pc[c] = "attach"
    /\ session' = IF t = NoConn THEN session ELSE [session EXCEPT ![t] = c]
    /\ pc' = [pc EXCEPT ![c] = "up"]
    /\ UNCHANGED <<tuns, tcp, id, port, sess, victim, lpc, bound>>

(* The session goes into the tunnel the table holds under the id, if any.   *)
Attach(c) ==
  LET t == tuns[id[c]] IN
  /\ pc[c] = "attach"
  /\ session' = IF t = NoConn THEN session ELSE [session EXCEPT ![t] = c]
  /\ pc' = [pc EXCEPT ![c] = "up"]
  /\ UNCHANGED <<tuns, tcp, id, port, sess, victim, lpc, bound>>

(* The client closes its end, the network breaks, or keep-alive gives up.   *)
PeerCloses(c) ==
  /\ sess[c] = "open"
  /\ sess' = [sess EXCEPT ![c] = "closed"]
  /\ UNCHANGED <<tuns, tcp, pc, id, port, session, victim, lpc, bound>>

-----------------------------------------------------------------------------
(* drop(id), called when the Welcome fails and when CloseChan fires.        *)

\* Mutant of DropTunnel: the entry is read and not deleted.
DropKeepsEntry(c) ==
  LET t == tuns[id[c]] IN
  /\ pc[c] = "drop" \/ (pc[c] = "up" /\ sess[c] = "closed")
  /\ victim' = [victim EXCEPT ![c] = t]
  /\ pc'     = [pc EXCEPT ![c] = IF t = NoConn THEN "done" ELSE "dropsess"]
  /\ UNCHANGED <<tuns, tcp, id, port, session, sess, lpc, bound>>

DropTunnel(c) ==
  LET t == tuns[id[c]] IN
  /\ pc[c] = "drop" \/ (pc[c] = "up" /\ sess[c] = "closed")
  /\ tuns'   = [tuns EXCEPT ![id[c]] = NoConn]
  /\ victim' = [victim EXCEPT ![c] = t]
  /\ pc'     = [pc EXCEPT ![c] = IF t = NoConn THEN "done" ELSE "dropsess"]
  /\ UNCHANGED <<tcp, id, port, session, sess, lpc, bound>>

\* Mutant of DropSession: drop clears the field of the tunnel as well.
DropSessionClears(c) ==
  /\ pc[c] = "dropsess"
  /\ CloseSession(session[victim[c]])
  /\ session' = [session EXCEPT ![victim[c]] = NoConn]
  /\ pc' = [pc EXCEPT ![c] = "dropln"]
  /\ UNCHANGED <<tuns, tcp, id, port, victim, lpc, bound>>

DropSession(c) ==
  /\ pc[c] = "dropsess"
  /\ CloseSession(session[victim[c]])
  /\ pc' = [pc EXCEPT ![c] = "dropln"]
  /\ UNCHANGED <<tuns, tcp, id, port, session, victim, lpc, bound>>

\* Mutant of DropListener: drop returns once the listener is closed.
DropForgetsPort(c) ==
  /\ pc[c] = "dropln"
  /\ CloseTCPLn(victim[c])
  /\ pc' = [pc EXCEPT ![c] = "done"]
  /\ victim' = [victim EXCEPT ![c] = NoConn]
  /\ UNCHANGED <<tuns, tcp, id, port, session, sess, lpc>>

(* A tunnel without a port has neither a listener nor a reservation.        *)
DropListener(c) ==
  LET t == victim[c] IN
  /\ pc[c] = "dropln"
  /\ CloseTCPLn(t)
  /\ pc' = [pc EXCEPT ![c] = IF port[t] = NoPort THEN "done" ELSE "dropport"]
  /\ victim' = IF port[t] = NoPort THEN [victim EXCEPT ![c] = NoConn] ELSE victim
  /\ UNCHANGED <<tuns, tcp, id, port, session, sess, lpc>>

\* Mutant of FreePort: drop frees the ports reserved under its id.
FreePortsOfId(c) ==
  /\ pc[c] = "dropport"
  /\ tcp'    = [p \in Ports |-> IF tcp[p] # NoConn /\ id[tcp[p]] = id[c]
                                THEN NoConn ELSE tcp[p]]
  /\ victim' = [victim EXCEPT ![c] = NoConn]
  /\ pc'     = [pc EXCEPT ![c] = "done"]
  /\ UNCHANGED <<tuns, id, port, session, sess, lpc, bound>>

FreePort(c) ==
  /\ pc[c] = "dropport"
  /\ tcp'    = [tcp EXCEPT ![port[victim[c]]] = NoConn]
  /\ victim' = [victim EXCEPT ![c] = NoConn]
  /\ pc'     = [pc EXCEPT ![c] = "done"]
  /\ UNCHANGED <<tuns, id, port, session, sess, lpc, bound>>

-----------------------------------------------------------------------------
(* listenTCP(t).                                                            *)

Bindable(p) == bound[p] = NoConn /\ p \notin ForeignPorts

Listen(t) ==
  /\ lpc[t] = "listen"
  /\ Bindable(port[t])
  /\ bound' = [bound EXCEPT ![port[t]] = t]
  /\ lpc'   = [lpc EXCEPT ![t] = "bound"]
  /\ UNCHANGED <<tuns, tcp, pc, id, port, session, sess, victim>>

ListenFails(t) ==
  /\ lpc[t] = "listen"
  /\ ~Bindable(port[t])
  /\ lpc' = [lpc EXCEPT ![t] = "dead"]
  /\ UNCHANGED <<tuns, tcp, pc, id, port, session, sess, victim, bound>>

PublishTCPLn(t) ==
  /\ lpc[t] = "bound"
  /\ lpc' = [lpc EXCEPT ![t] = "accept"]
  /\ UNCHANGED <<tuns, tcp, pc, id, port, session, sess, victim, bound>>

Accept(t) ==
  /\ lpc[t] = "accept"
  /\ bound[port[t]] = t
  /\ lpc' = [lpc EXCEPT ![t] = "lookup"]
  /\ UNCHANGED <<tuns, tcp, pc, id, port, session, sess, victim, bound>>

(* The listener was closed by Spawn or DropListener.                *)
AcceptClosed(t) ==
  /\ lpc[t] = "accept"
  /\ bound[port[t]] # t
  /\ lpc' = [lpc EXCEPT ![t] = "dead"]
  /\ UNCHANGED <<tuns, tcp, pc, id, port, session, sess, victim, bound>>

(* Accept fails for another reason (no descriptors): the goroutine returns. *)
AcceptErrs(t) ==
  /\ lpc[t] = "accept"
  /\ Unbind(t)
  /\ lpc' = [lpc EXCEPT ![t] = "dead"]
  /\ UNCHANGED <<tuns, tcp, pc, id, port, session, sess, victim>>

(* The tunnel that a connection accepted for t is handed to: the one the    *)
(* table holds now under the id of t.                                       *)
Current(t) == tuns[id[t]]

Serves(t) == Current(t) # NoConn /\ session[Current(t)] # NoConn

(* A goroutine splices the connection; the listener goes on.                *)
ServeConn(t) ==
  /\ lpc[t] = "lookup"
  /\ Serves(t)
  /\ lpc' = [lpc EXCEPT ![t] = "accept"]
  /\ UNCHANGED <<tuns, tcp, pc, id, port, session, sess, victim, bound>>

\* Mutant of RefuseConn: the deferred Close of the listener is missing.
RefuseConnLeaks(t) ==
  /\ lpc[t] = "lookup"
  /\ ~Serves(t)
  /\ lpc' = [lpc EXCEPT ![t] = "dead"]
  /\ UNCHANGED <<tuns, tcp, pc, id, port, session, sess, victim, bound>>

(* The connection is closed and the goroutine returns, closing its socket.  *)
RefuseConn(t) ==
  /\ lpc[t] = "lookup"
  /\ ~Serves(t)
  /\ Unbind(t)
  /\ lpc' = [lpc EXCEPT ![t] = "dead"]
  /\ UNCHANGED <<tuns, tcp, pc, id, port, session, sess, victim>>

-----------------------------------------------------------------------------
HandleConn(c) ==
  \/ EvictSession(c) \/ Spawn(c)
  \/ Welcome(c) \/ WelcomeFails(c) \/ Attach(c)
  \/ DropTunnel(c) \/ DropSession(c) \/ DropListener(c) \/ FreePort(c)

ListenTCP(t) ==
  \/ Listen(t) \/ ListenFails(t) \/ PublishTCPLn(t)
  \/ AcceptClosed(t) \/ ServeConn(t) \/ RefuseConn(t)

(* What clients and visitors do.                                            *)
Environment(c) ==
  \/ HelloFails(c) \/ Reject(c)
  \/ RegisterHTTP(c) \/ RegisterTCP(c) \/ RegisterNoPort(c)
  \/ PeerCloses(c) \/ Accept(c) \/ AcceptErrs(c)

Next == \E c \in Conns : HandleConn(c) \/ ListenTCP(c) \/ Environment(c)

Spec == Init /\ [][Next]_vars

(* Goroutines that can run do run; clients and visitors owe nothing.        *)
Fairness ==
  \A c \in Conns : WF_vars(HandleConn(c)) /\ WF_vars(ListenTCP(c))

LiveSpec == Spec /\ Fairness

-----------------------------------------------------------------------------
(* Safety.                                                                  *)

Registered(t) == \E n \in Names : tuns[n] = t

(* A tunnel is only ever wired to the session of a connection that asked for *)
(* the tunnel's own id.  handleConn attaches by id and not by tunnel, and a  *)
(* request keeps using a tunnel it looked up long ago, so this is what keeps *)
(* a visitor of one name from reaching the client of another.               *)
NameIsolation ==
  \A t, c \in Conns : session[t] = c => id[t] = id[c] /\ id[c] \in Names

(* The table never holds the tunnel of a handler that is past its drop: some *)
(* goroutine still has to take the entry out.                               *)
NoGhostEntry ==
  \A n \in Names, c \in Conns :
    tuns[n] = c =>
      /\ id[c] = n
      /\ pc[c] \in {"evict", "spawn", "welcome", "attach", "up", "drop"}

(* While a TCP tunnel is in the table its port stays reserved for it: no     *)
(* drop, however late, gives away the port of a tunnel that is still there,  *)
(* so two tunnels of the table never advertise the same port.               *)
PortExclusive ==
  \A n \in Names, t \in Conns :
    tuns[n] = t /\ port[t] # NoPort => tcp[port[t]] = t

(* The tunnel is in the table, or a drop that will free its port has it.     *)
Accounted(t) ==
  Registered(t) \/ \E c \in Conns : pc[c] \in Dropping /\ victim[c] = t

(* register deletes the tunnel t to insert that of c, or to find out that    *)
(* there is no port for it.                                                 *)
TakesOver(c, t) ==
  \E n \in Names :
    /\ tuns[n] = t /\ pc[c] = "hello"
    /\ \/ tuns'[n] = c
       \/ tuns'[n] = NoConn /\ pc'[c] = "refused" /\ FreePorts = {}

(* A port is lost, i.e. reserved for a tunnel that nobody will take apart,   *)
(* in no other step than a take-over of the tunnel's name, which frees no   *)
(* port, or an allocTCP that fails in place of one: no session that ends,   *)
(* Welcome that fails, other refusal or drop beside other drops loses one.  *)
PortsKept ==
  \A p \in Ports, t \in Conns :
    tcp'[p] = t /\ (tcp[p] = t => Accounted(t)) =>
      Accounted(t)' \/ \E c \in Conns \ {t} : TakesOver(c, t)

PortsAccountedFor == [][PortsKept]_vars

(* The relay holds at most MaxTunnels tunnels, take-overs included.         *)
Capacity == Cardinality(Taken) <= MaxTunnels

(* A tunnel leaves the table once, into the hands of one goroutine, which is *)
(* the only one that closes it and gives its port back.                     *)
OneUndertaker ==
  \A c, d \in Conns :
    victim[c] # NoConn =>
      /\ ~Registered(victim[c])
      /\ victim[c] = victim[d] => c = d

(* A socket of the host is held by a goroutine that is in its accept loop,   *)
(* so closing the listener or the next refused visitor releases it.         *)
NoOrphanSocket ==
  \A p \in Ports, t \in Conns :
    bound[p] = t => port[t] = p /\ lpc[t] \in Listening

(* A connection to an advertised port is spliced to the session of a         *)
(* connection that asked for the name of the tunnel whose listener accepted *)
(* it, though listenTCP looks the tunnel up by its id at each connection and *)
(* may find another one, whose session may be that of a third.              *)
PortsReachOwners ==
  [][\A t \in Conns : ServeConn(t) =>
       LET c == session[Current(t)] IN c \in Conns /\ id[c] = id[t] /\ id[t] \in Names]_vars

(* The relay implements the contract of NameService: tuns is the holder of   *)
(* each name, Tunnel.ID the claim of each connection, tcp the leases.  What  *)
(* register and drop do outside their critical sections is not visible.     *)
NS == INSTANCE NameService WITH holder <- tuns, claim <- id, lease <- tcp

ImplementsNameService == NS!Spec

(* And those who only read the table see a TunnelTable, in which a tunnel    *)
(* keeps its id and protocol for good and a session, once stored, is never  *)
(* taken back to nil: a request that goes on with the tunnel it looked up   *)
(* long ago finds an ended session at worst.                                *)
Protos   == [t \in Conns |-> IF port[t] = NoPort THEN "http" ELSE "tcp"]
Sessions == [t \in Conns |-> IF session[t] = NoConn THEN "nil" ELSE sess[session[t]]]

TT == INSTANCE TunnelTable WITH
        Ids <- Names, Tunnels <- Conns, NoTunnel <- NoConn, NoId <- NoName,
        table <- tuns, tid <- id, kind <- Protos, session <- Sessions

ImplementsTunnelTable == TT!TableSpec

-----------------------------------------------------------------------------
(* Liveness.                                                                *)

(* When the session of a connection ends its handler finishes, and then its *)
(* own tunnel is not in the table.                                          *)
SessionEndReleases ==
  \A c \in Conns :
    sess[c] = "closed" ~> pc[c] = "done" /\ ~Registered(c)

(* A session that is attached to a tunnel which drop or a take-over removed  *)
(* is shut down, and the handler that waits on it finishes.                 *)
RemovedSessionEnds ==
  \A c, s \in Conns :
    victim[c] # NoConn /\ session[victim[c]] = s
      ~> sess[s] = "closed" /\ pc[s] = "done"

(* A tunnel that drop removed gives its port back.                          *)
DroppedPortReturns ==
  \A c, t \in Conns, p \in Ports :
    victim[c] = t /\ pc[c] \in Dropping /\ tcp[p] = t ~> tcp[p] # t

-----------------------------------------------------------------------------
(* What the documentation says and the code does not keep.                  *)

(* README.md, Protocol: hello/welcome assigns an id and a public URL, and    *)
(* requests for that host are spliced onto a stream of that connection.  So  *)
(* while the session of a welcomed connection is open, and no goroutine is   *)
(* about to close it, its id leads somewhere.                               *)
UpMeansRouted ==
  \A c \in Conns :
    pc[c] = "up" /\ sess[c] = "open" =>
      \/ tuns[id[c]] # NoConn
      \/ \E d \in Conns : victim[d] # NoConn /\ session[victim[d]] = c

(* tunnel_test.go, TestTCPTunnel: a visitor who dials the advertised port    *)
(* again and again gets through; so no visit makes the listener give up     *)
(* while its tunnel is registered.                                          *)
ListenerSurvivesVisitors ==
  [][\A t \in Conns : RefuseConn(t) => ~Registered(t)]_vars
=============================================================================
