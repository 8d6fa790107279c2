--------------------------------- MODULE Dial ---------------------------------
(***************************************************************************)
(* Clients that dial a relay and dial again (client.Dial under runLoop)    *)
(* while the relay of module Lifecycle stops and starts: the TLS handshake,*)
(* the check of the certificate against the pins in known_hosts            *)
(* (tlsutil.CheckTOFU), the Hello with the admin token, the Welcome.       *)
(*                                                                         *)
(* The dialers are goroutines and processes of one user: they share        *)
(* known_hosts, which is read first and appended to later.  One that has   *)
(* --insecure goes straight to its Hello and is left out.                  *)
(***************************************************************************)
EXTENDS Lifecycle

CONSTANTS
  Dialers,
  Hosts,      \* the relay's addresses: host of ParseServer(opt.Server).Dial
  Own,        \* those for which it presents its own pair: IP addresses
  HostOf,     \* what each dialer dials
  MaxLosses   \* connections lost on the way: a bound for TLC

ASSUME DialAssumption ==
  /\ Own \subseteq Hosts
  /\ HostOf \in [Dialers -> Hosts]
  /\ MaxLosses \in Nat

VARIABLES
  known,   \* known_hosts: a sequence of [host, print]
  at,      \* where a dialer is; "refused" by CheckTOFU, "denied" by the relay
  seen,    \* the fingerprint of its handshake
  live,    \* dialers whose connection to the relay is alive
  given,   \* --token: the admin token, once the dialer's user was given it
  losses

dialers == <<known, at, seen, live, given, losses>>
vars    == <<relay, dialers>>

(* A fingerprint is that of the n-th certificate of one of the two kinds.   *)
Prints == {"own", "acme"} \X Nat
Stages == {"idle", "check", "pin", "hello", "up", "refused", "denied"}
Silent == <<"own", 0>>

TypeOK ==
  /\ RelayTypeOK
  /\ known  \in Seq([host : Hosts, print : Prints])
  /\ at     \in [Dialers -> Stages]
  /\ seen   \in [Dialers -> Prints]
  /\ live   \subseteq Dialers
  /\ given  \in [Dialers -> Tokens \cup {NoToken}]
  /\ losses \in Nat

Init ==
  /\ RelayInit
  /\ known  = <<>>
  /\ at     = [d \in Dialers |-> "idle"]
  /\ seen   = [d \in Dialers |-> Silent]
  /\ live   = {}
  /\ given  = [d \in Dialers |-> NoToken]
  /\ losses = 0

Goto(d, l) == at' = [at EXCEPT ![d] = l]

-----------------------------------------------------------------------------
(* GetCertificate: an address gets the relay's own pair, the domain the      *)
(* certificate that autocert keeps for it.                                  *)
Fingerprint(h) == IF h \in Own THEN <<"own", pair>> ELSE <<"acme", issue>>

(* The administrator tells a user the token that the relay prints or saves. *)
TakeToken(d) ==
  /\ stage = "up" /\ given[d] = NoToken
  /\ given' = [given EXCEPT ![d] = token]
  /\ UNCHANGED <<relay, known, at, seen, live, losses>>

Connect(d) ==
  /\ at[d] \in {"idle", "refused", "denied"} /\ given[d] # NoToken
  /\ stage = "up"
  /\ seen' = [seen EXCEPT ![d] = Fingerprint(HostOf[d])]
  /\ live' = live \cup {d}
  /\ Goto(d, "check")
  /\ UNCHANGED <<relay, known, given, losses>>

(* The fingerprint that the first line of a host gives, if there is one.     *)
PinOf(h) ==
  LET first == {i \in DOMAIN known : /\ known[i].host = h
                                     /\ \A j \in 1 .. i - 1 : known[j].host # h}
  IN  {known[i].print : i \in first}

(* CheckTOFU reads known_hosts.                                             *)
ReadPins(d) ==
  LET pin == PinOf(HostOf[d]) IN
  /\ at[d] = "check"
  /\ \/ pin = {} /\ Goto(d, "pin") /\ UNCHANGED live
     \/ seen[d] \in pin /\ Goto(d, "hello") /\ UNCHANGED live
     \/ pin # {} /\ seen[d] \notin pin /\ Goto(d, "refused") /\ live' = live \ {d}
  /\ UNCHANGED <<relay, known, seen, given, losses>>

\* Mutant of AppendPin: the fingerprint is written without its host.
AppendPinBare(d) ==
  /\ at[d] = "pin"
  /\ known' = Append(known, [host |-> "", print |-> seen[d]])
  /\ Goto(d, "hello")
  /\ UNCHANGED <<relay, seen, live, given, losses>>

(* One append of one line.                                                  *)
AppendPin(d) ==
  /\ at[d] = "pin"
  /\ known' = Append(known, [host |-> HostOf[d], print |-> seen[d]])
  /\ Goto(d, "hello")
  /\ UNCHANGED <<relay, seen, live, given, losses>>

(* The Hello and the Welcome: the relay compares the token with its own      *)
(* (register, for a short name or on a closed relay).                       *)
Admit(d) ==
  /\ at[d] = "hello" /\ d \in live
  /\ \/ given[d] = token /\ Goto(d, "up") /\ UNCHANGED live
     \/ given[d] # token /\ Goto(d, "denied") /\ live' = live \ {d}
  /\ UNCHANGED <<relay, known, seen, given, losses>>

\* Mutant of Broken: runLoop returns when Dial fails.
BrokenServing(d) ==
  /\ at[d] = "up" /\ d \notin live
  /\ Goto(d, "idle")
  /\ UNCHANGED <<relay, known, seen, live, given, losses>>

(* A read or write fails: Dial or Serve returns, and runLoop dials again.   *)
Broken(d) ==
  /\ at[d] \in {"hello", "up"} /\ d \notin live
  /\ Goto(d, "idle")
  /\ UNCHANGED <<relay, known, seen, live, given, losses>>

Run(d) == Connect(d) \/ ReadPins(d) \/ AppendPin(d) \/ Admit(d) \/ Broken(d)

Lose(d) ==
  /\ d \in live /\ losses < MaxLosses
  /\ live' = live \ {d}
  /\ losses' = losses + 1
  /\ UNCHANGED <<relay, known, at, seen, given>>

-----------------------------------------------------------------------------
Next ==
  \/ Serve /\ UNCHANGED dialers
  \/ Renew /\ UNCHANGED dialers
  \/ Stop /\ live' = {} /\ UNCHANGED <<known, at, seen, given, losses>>
  \/ \E d \in Dialers : TakeToken(d) \/ Run(d) \/ Lose(d)

Spec == Init /\ [][Next]_vars

(* The service manager starts the relay again, goroutines run, and a dial    *)
(* that failed is tried again.                                              *)
Fairness == WF_vars(Serve /\ UNCHANGED dialers) /\ \A d \in Dialers : WF_vars(Run(d))

LiveSpec == Spec /\ Fairness

-----------------------------------------------------------------------------
(* Through any number of crashes and restarts, and with dialers that pin the *)
(* relay at the same time, a relay that is dialled by its address is never   *)
(* taken for another; one that is dialled by its domain is only if its       *)
(* certificate has been renewed.                                            *)
PinnedRelayIsKnown ==
  \A d \in Dialers : at[d] = "refused" => HostOf[d] \notin Own /\ issue > 0

(* A crash between server.crt and server.key leaves a relay that never       *)
(* starts again; one that has served has written both, and loads them.       *)
ServedPairLoads == \A d \in Dialers : given[d] # NoToken => Loads

(* A token that the relay has once served under keeps its value: it is saved *)
(* before the relay serves, and no later start draws another.               *)
TokenStaysValid == \A d \in Dialers : at[d] # "denied"

(* A relay that has served comes back after every stop, and its clients with *)
(* it.                                                                      *)
ClientsComeBack ==
  \A d \in Dialers :
    HostOf[d] \in Own /\ given[d] # NoToken ~> at[d] = "up"

=============================================================================
