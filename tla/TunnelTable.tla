----------------------------- MODULE TunnelTable ----------------------------
(***************************************************************************)
(* The table of tunnels (internal/server/server.go) as those goroutines    *)
(* see it that only read it: which tunnel an id leads to, and the fields   *)
(* of a tunnel that they use.  Module Relay, where register, handleConn    *)
(* and drop are many small steps of many goroutines, implements it; module *)
(* Front builds on it.                                                     *)
(***************************************************************************)
CONSTANTS
  Ids,        \* ids that tunnels may have
  Tunnels,    \* the tunnels of the relay's whole life
  NoTunnel, NoId

ASSUME TableAssumption == NoTunnel \notin Tunnels /\ NoId \notin Ids

VARIABLES
  table,      \* Server.tuns: id -> tunnel
  tid,        \* Tunnel.ID; NoId says that the tunnel is not made yet
  kind,       \* Tunnel.Proto
  session     \* Tunnel.Session: "nil", "open", "closed"

relay == <<table, tid, kind, session>>

TableType ==
  /\ table   \in [Ids -> Tunnels \cup {NoTunnel}]
  /\ tid     \in [Tunnels -> Ids \cup {NoId}]
  /\ kind    \in [Tunnels -> {"http", "tcp"}]
  /\ session \in [Tunnels -> {"nil", "open", "closed"}]

TableInit ==
  /\ table   = [i \in Ids |-> NoTunnel]
  /\ tid     = [t \in Tunnels |-> NoId]
  /\ kind    = [t \in Tunnels |-> "http"]
  /\ session = [t \in Tunnels |-> "nil"]

(* register puts a new tunnel under an id, in the place of the one there.    *)
Register(i) ==
  \E t \in Tunnels, p \in {"http", "tcp"} :
    /\ tid[t] = NoId
    /\ table' = [table EXCEPT ![i] = t]
    /\ tid'   = [tid EXCEPT ![t] = i]
    /\ kind'  = [kind EXCEPT ![t] = p]
    /\ UNCHANGED session

(* handleConn stores a session in the tunnel that is under its id now; the   *)
(* session may have ended by then, as may one that it replaces.             *)
Attach(i) ==
  /\ table[i] # NoTunnel
  /\ \E s \in {"open", "closed"} : session' = [session EXCEPT ![table[i]] = s]
  /\ UNCHANGED <<table, tid, kind>>

(* The session of a tunnel ends, be the tunnel in the table or not.         *)
SessionEnds(t) ==
  /\ session[t] = "open"
  /\ session' = [session EXCEPT ![t] = "closed"]
  /\ UNCHANGED <<table, tid, kind>>

(* drop takes a tunnel out; so does a register that then finds no port.      *)
Drop(i) ==
  /\ table[i] # NoTunnel
  /\ table' = [table EXCEPT ![i] = NoTunnel]
  /\ UNCHANGED <<tid, kind, session>>

TableNext ==
  \/ \E i \in Ids : Register(i) \/ Attach(i) \/ Drop(i)
  \/ \E t \in Tunnels : SessionEnds(t)

TableSpec == TableInit /\ [][TableNext]_relay
=============================================================================
