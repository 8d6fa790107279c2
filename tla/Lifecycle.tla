------------------------------ MODULE Lifecycle ------------------------------
(***************************************************************************)
(* The life of a relay process and what it leaves on disk: runServer       *)
(* (main.go) finds or draws its admin token, ServerTLS and LoadOrCreate    *)
(* (internal/tlsutil) find or generate its key pair, ListenAndServe        *)
(* (internal/server) serves until the process ends; the service manager    *)
(* starts it again (deploy/mrok.service, Restart=always).                  *)
(*                                                                         *)
(* A process may end between any two steps.  os.WriteFile is two of them:  *)
(* the file is truncated, then written.  What is generated by the n-th     *)
(* process is the number n.                                                *)
(***************************************************************************)
EXTENDS Integers, Sequences

CONSTANTS
  Flags,          \* what the unit file may give as --token, NoToken for none
  NoToken,
  Absent, Blank,  \* a file that does not exist, a file without text
  MaxStops,       \* ends of the process: a bound for TLC
  MaxRenewals     \* renewals of the ACME certificate: a bound for TLC

Files     == {"token", "crt", "key"}
Generated == Nat \ {0}
Tokens    == Generated \cup (Flags \ {NoToken})
Pairs     == Generated

ASSUME LifecycleAssumption ==
  /\ Absent # Blank /\ Absent # NoToken /\ Blank # NoToken
  /\ {Absent, Blank} \cap (Flags \cup Nat) = {} /\ NoToken \notin Nat
  /\ MaxStops \in Nat /\ MaxRenewals \in Nat

VARIABLES
  flag,   \* --token of the unit file
  disk,   \* the token file, server.crt, server.key
  stage,  \* how far the process is
  todo,   \* what it is about to write: a sequence of [file, text]
  half,   \* has it truncated the first of these files?
  token,  \* Config.Token
  pair,   \* Config.TLSConfig: its key pair
  issue,  \* the certificate that ACME has issued for the domain
  stops

relay == <<flag, disk, stage, todo, half, token, pair, issue, stops>>

RelayTypeOK ==
  /\ flag  \in Flags
  /\ disk  \in [Files -> Tokens \cup {Absent, Blank}]
  /\ stage \in {"down", "keys", "listen", "up"}
  /\ todo  \in Seq([file : Files, text : Tokens])
  /\ half  \in BOOLEAN
  /\ token \in Tokens \cup {NoToken}
  /\ pair  \in Nat
  /\ issue \in Nat /\ stops \in Nat

RelayInit ==
  /\ flag  \in Flags
  /\ disk  = [f \in Files |-> Absent]
  /\ stage = "down"
  /\ todo  = <<>> /\ half = FALSE
  /\ token = NoToken /\ pair = 0
  /\ issue = 0 /\ stops = 0

Fresh   == stops + 1
File(f, x) == [file |-> f, text |-> x]

-----------------------------------------------------------------------------
(* The token file comes before the flag; without either a token is drawn.   *)
AdminToken ==
  IF disk["token"] \in Tokens THEN disk["token"]
  ELSE IF flag # NoToken THEN flag ELSE Fresh

\* Mutant of SavesToken: a file without text is taken for a saved token.
SavesTokenOnce == disk["token"] = Absent

(* A token that was drawn is saved; one that was given only if there is no   *)
(* file.                                                                    *)
SavesToken == disk["token"] = Absent \/ (disk["token"] = Blank /\ flag = NoToken)

Boot ==
  /\ stage = "down"
  /\ token' = AdminToken
  /\ todo'  = IF SavesToken THEN <<File("token", AdminToken)>> ELSE <<>>
  /\ stage' = "keys"
  /\ UNCHANGED <<flag, disk, half, pair, issue, stops>>

Truncate ==
  /\ todo # <<>> /\ ~half
  /\ disk' = [disk EXCEPT ![Head(todo).file] = Blank]
  /\ half' = TRUE
  /\ UNCHANGED <<flag, stage, todo, token, pair, issue, stops>>

Write ==
  /\ todo # <<>> /\ half
  /\ disk' = [disk EXCEPT ![Head(todo).file] = Head(todo).text]
  /\ half' = FALSE
  /\ todo' = Tail(todo)
  /\ UNCHANGED <<flag, stage, token, pair, issue, stops>>

\* Mutant of HasCertificate: a pair is generated at every start.
HasCertificateNever == FALSE

(* os.Stat of server.crt alone decides whether there is a pair to load.     *)
HasCertificate == disk["crt"] # Absent

Generate ==
  /\ stage = "keys" /\ todo = <<>> /\ ~HasCertificate
  /\ pair'  = Fresh
  /\ todo'  = <<File("crt", Fresh), File("key", Fresh)>>
  /\ stage' = "listen"
  /\ UNCHANGED <<flag, disk, half, token, issue, stops>>

(* tls.LoadX509KeyPair: both files have text and belong together.           *)
Loads == disk["crt"] \in Pairs /\ disk["key"] = disk["crt"]

Load ==
  /\ stage = "keys" /\ todo = <<>> /\ HasCertificate
  /\ \/ Loads /\ pair' = disk["crt"] /\ stage' = "listen" /\ UNCHANGED token
     \/ ~Loads /\ stage' = "down" /\ pair' = 0 /\ token' = NoToken
  /\ UNCHANGED <<flag, disk, todo, half, issue, stops>>

\* Mutant of Listen: the relay serves before its pair is saved.
ListenEarly ==
  /\ stage = "listen"
  /\ stage' = "up"
  /\ UNCHANGED <<flag, disk, todo, half, token, pair, issue, stops>>

Listen ==
  /\ stage = "listen" /\ todo = <<>>
  /\ stage' = "up"
  /\ UNCHANGED <<flag, disk, todo, half, token, pair, issue, stops>>

Serve == Boot \/ Truncate \/ Write \/ Generate \/ Load \/ Listen

(* A crash, a signal, a write or a Listen that fails, an error of a server. *)
Stop ==
  /\ stage # "down" /\ stops < MaxStops
  /\ stage' = "down" /\ todo' = <<>> /\ half' = FALSE
  /\ token' = NoToken /\ pair' = 0
  /\ stops' = stops + 1
  /\ UNCHANGED <<flag, disk, issue>>

(* autocert renews the certificate of the domain before it expires.         *)
Renew ==
  /\ issue < MaxRenewals
  /\ issue' = issue + 1
  /\ UNCHANGED <<flag, disk, stage, todo, half, token, pair, stops>>
=============================================================================
