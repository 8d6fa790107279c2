------------------------------- MODULE Agents -------------------------------
(***************************************************************************)
(* The mrok processes of one machine: `mrok http|tcp` (runClient), the     *)
(* login agent `mrok up` (runUp, with a goroutine for each saved name),    *)
(* the loop both run (runLoop), the file of saved tunnels (autostart.Load, *)
(* Find, Upsert, Save) and the lock files (autostart.TryLock).             *)
(*                                                                         *)
(* A runner is whatever may run runLoop: a client process c, or <<u, n>>,  *)
(* the goroutine of agent u for the saved name n.  The relay is what the   *)
(* runners see of it: it knows a tunnel under its normalised name, and a   *)
(* registration ends the session of the previous tunnel of that name.      *)
(***************************************************************************)
EXTENDS Integers, Sequences, FiniteSetsExt

CONSTANTS
  Clients,    \* mrok http|tcp processes
  Ups,        \* mrok up processes
  Names,      \* names as they are typed, drawn and saved
  Norm,       \* idgen.Normalize: name -> id
  Random,     \* the names that idgen.Random may draw
  Services,   \* what a tunnel exposes: Local and Proto
  Wants,      \* command lines: [name, service, ephemeral]
  Saved,      \* the saved tunnels at the start
  NoName,     \* no --name on the command line
  NoOne,
  MaxKills    \* processes killed in a behaviour: a bound for TLC

Tunnel  == [name : Names, service : Services, url : BOOLEAN]   \* saved, with a URL?
Options == [name : Names, service : Services]
Runners == Clients \cup (Ups \X Names)

ASSUME AgentsAssumption ==
  /\ Norm \in [Names -> Names]
  /\ Random \subseteq Names
  /\ Wants \subseteq [name : Names \cup {NoName}, service : Services,
                      ephemeral : BOOLEAN]
  /\ Saved \in Seq(Tunnel)
  /\ NoName \notin Names /\ NoOne \notin Runners
  /\ Clients \cap (Ups \X Names) = {}
  /\ MaxKills \in Nat

VARIABLES
  file,     \* what Load makes of tunnels.json: no tunnels if it does not parse
  blank,    \* has it no text at all?
  pc,       \* where a runner is
  opt,      \* the tunnel it runs: opt.Name and opt.Local with opt.Proto
  login,    \* does it save the tunnel (no --ephemeral)?
  io,       \* how far its Upsert is: "none", "read", "truncated"
  buf,      \* what its Upsert will write
  lock,     \* name -> the runner that has locked its file
  session,  \* runners whose session with the relay is open
  up,       \* agents that run
  kills

vars == <<file, blank, pc, opt, login, io, buf, lock, session, up, kills>>

upsert == <<file, blank, io, buf>>
agents == <<up, kills>>

Stages == {"idle", "save", "lock", "dial", "update", "serve", "refused", "over"}

TypeOK ==
  /\ file    \in Seq(Tunnel)
  /\ blank   \in BOOLEAN
  /\ pc      \in [Runners -> Stages]
  /\ opt     \in [Runners -> Options \cup {NoOne}]
  /\ \A r \in Runners : pc[r] # "idle" => opt[r] \in Options
  /\ login   \in [Runners -> BOOLEAN]
  /\ io      \in [Runners -> {"none", "read", "truncated"}]
  /\ buf     \in [Runners -> Seq(Tunnel)]
  /\ lock    \in [Names -> Runners \cup {NoOne}]
  /\ session \subseteq Runners
  /\ up      \subseteq Ups
  /\ kills   \in 0 .. MaxKills

Init ==
  /\ file    = Saved
  /\ blank   = (Saved = <<>>)
  /\ pc      = [r \in Runners |-> "idle"]
  /\ opt     = [r \in Runners |-> NoOne]
  /\ login   = [r \in Runners |-> TRUE]
  /\ io      = [r \in Runners |-> "none"]
  /\ buf     = [r \in Runners |-> <<>>]
  /\ lock    = [n \in Names |-> NoOne]
  /\ session = {}
  /\ up      = {}
  /\ kills   = 0

Goto(r, l) == pc' = [pc EXCEPT ![r] = l]

-----------------------------------------------------------------------------
(* The file of saved tunnels.                                               *)

SavedNames    == {file[i].name : i \in DOMAIN file}
ForName(n)    == {i \in DOMAIN file : file[i].name = n}
ForService(v) == {i \in DOMAIN file : file[i].service = v}

First(is) == file[Min(is)]

(* The first saved tunnel with the name or the service of t becomes t; it   *)
(* keeps its URL, whatever it stood for, if t has none.                     *)
Upserted(t) ==
  LET same == ForName(t.name) \cup ForService(t.service)
  IN  IF same = {} THEN Append(file, t)
      ELSE [file EXCEPT ![Min(same)] = [t EXCEPT !.url = @ \/ First(same).url]]

(* What a runner saves: its tunnel, under the relay's id and with the URL   *)
(* once it has them.                                                        *)
Entry(r) ==
  [name    |-> IF pc[r] = "save" THEN opt[r].name ELSE Norm[opt[r].name],
   service |-> opt[r].service,
   url     |-> pc[r] # "save"]

UpsertRead(r) ==
  /\ pc[r] \in {"save", "update"} /\ io[r] = "none"
  /\ io'  = [io EXCEPT ![r] = "read"]
  /\ buf' = [buf EXCEPT ![r] = Upserted(Entry(r))]
  /\ UNCHANGED <<file, blank, pc, opt, login, lock, session, agents>>

(* os.WriteFile truncates the file, then writes it.                         *)
Truncate(r) ==
  /\ io[r] = "read"
  /\ io'   = [io EXCEPT ![r] = "truncated"]
  /\ file' = <<>> /\ blank' = TRUE
  /\ UNCHANGED <<pc, opt, login, buf, lock, session, agents>>

(* Of a longer text that another process wrote in between a tail remains,   *)
(* and the file does not parse.                                             *)
Written(r) == IF blank THEN {buf[r]} ELSE {buf[r], <<>>}

Write(r) ==
  /\ io[r] = "truncated"
  /\ file' \in Written(r) /\ blank' = FALSE
  /\ io'   = [io EXCEPT ![r] = "none"]
  /\ buf'  = [buf EXCEPT ![r] = <<>>]
  /\ Goto(r, IF pc[r] = "save" THEN "lock" ELSE "serve")
  /\ UNCHANGED <<opt, login, lock, session, agents>>

Upsert(r) == UpsertRead(r) \/ Truncate(r) \/ Write(r)

-----------------------------------------------------------------------------
(* runClient and runUp.                                                     *)

\* Mutant of ChosenNames: Find's second result is not looked at.
ChosenNamesUnchecked(w) ==
  LET known == ForService(w.service)
  IN  IF w.name # NoName THEN {w.name}
      ELSE IF known # {} THEN {First(known).name}
      ELSE {NoName}

(* Without --name: the name saved for the service, or a random one.         *)
ChosenNames(w) ==
  LET known == ForService(w.service)
  IN  IF w.name # NoName THEN {w.name}
      ELSE IF known # {} THEN {First(known).name}
      ELSE Random

Start(c) ==
  /\ pc[c] = "idle"
  /\ \E w \in Wants, n \in Names \cup {NoName} :
       /\ n \in ChosenNames(w)
       /\ opt'   = [opt EXCEPT ![c] = [name |-> n, service |-> w.service]]
       /\ login' = [login EXCEPT ![c] = ~w.ephemeral]
       /\ Goto(c, IF w.ephemeral THEN "lock" ELSE "save")
  /\ UNCHANGED <<upsert, lock, session, agents>>

StartUp(u) ==
  /\ u \notin up
  /\ up' = up \cup {u}
  /\ UNCHANGED <<upsert, pc, opt, login, lock, session, kills>>

(* What the agent runs of the saved tunnels with a name: the first.          *)
SavedFor(n) == [name |-> n, service |-> First(ForName(n)).service]

Startable(u) == {n \in SavedNames : pc[<<u, n>>] = "idle"}

(* At the start and at every tick: a goroutine for every saved name that    *)
(* has none; of two tunnels with one name it gets the first.                *)
Poll(u) ==
  /\ u \in up /\ Startable(u) # {}
  /\ LET new == {u} \X Startable(u)
     IN  /\ pc'  = [r \in Runners |-> IF r \in new THEN "lock" ELSE pc[r]]
         /\ opt' = [r \in Runners |-> IF r \in new THEN SavedFor(r[2]) ELSE opt[r]]
  /\ UNCHANGED <<upsert, login, lock, session, agents>>

\* Mutant of Refused: the goroutine stays in the table, its delete is missing.
RefusedForGood(r) == "refused"

(* The client says "already running" and exits; the agent's goroutine ends  *)
(* and the agent may start another at the next tick.                        *)
Refused(r) == IF r \in Clients THEN "refused" ELSE "idle"

\* Mutant of TryLock: the file is opened and not locked (lock_windows.go).
TryLockOpens(r) ==
  /\ pc[r] = "lock"
  /\ lock' = [lock EXCEPT ![opt[r].name] = r]
  /\ Goto(r, "dial")
  /\ UNCHANGED <<upsert, opt, login, session, agents>>

\* Mutant of TryLock: LOCK_EX without LOCK_NB.
TryLockWaits(r) ==
  /\ pc[r] = "lock"
  /\ lock[opt[r].name] = NoOne
  /\ lock' = [lock EXCEPT ![opt[r].name] = r]
  /\ Goto(r, "dial")
  /\ UNCHANGED <<upsert, opt, login, session, agents>>

TryLock(r) ==
  /\ pc[r] = "lock"
  /\ LET n == opt[r].name
     IN  \/ lock[n] = NoOne /\ lock' = [lock EXCEPT ![n] = r] /\ Goto(r, "dial")
         \/ lock[n] # NoOne /\ UNCHANGED lock /\ Goto(r, Refused(r))
  /\ UNCHANGED <<upsert, opt, login, session, agents>>

-----------------------------------------------------------------------------
(* runLoop.  A dial that fails is retried: it changes nothing here.         *)

SameId(r) == {q \in session \ {r} : Norm[opt[q].name] = Norm[opt[r].name]}

\* Mutant of Connected: runLoop saves, whatever its argument says.
ConnectedSaves(r) == "update"

Connected(r) == IF login[r] THEN "update" ELSE "serve"

DialOk(r) ==
  /\ pc[r] = "dial"
  /\ session' = (session \ SameId(r)) \cup {r}
  /\ Goto(r, Connected(r))
  /\ UNCHANGED <<upsert, opt, login, lock, agents>>

(* Serve returns the session's error; the loop dials again.                 *)
Redial(r) ==
  /\ pc[r] = "serve" /\ r \notin session
  /\ Goto(r, "dial")
  /\ UNCHANGED <<upsert, opt, login, lock, session, agents>>

Run(r) == Upsert(r) \/ TryLock(r) \/ DialOk(r) \/ Redial(r)

-----------------------------------------------------------------------------
(* The environment: sessions break; processes end, at any point, and the    *)
(* kernel releases their locks and closes their connections.                *)

SessionBreaks(r) ==
  /\ r \in session
  /\ session' = session \ {r}
  /\ UNCHANGED <<upsert, pc, opt, login, lock, agents>>

Ends(rs, l) ==
  /\ kills < MaxKills /\ kills' = kills + 1
  /\ pc'   = [r \in Runners |-> IF r \in rs THEN l ELSE pc[r]]
  /\ io'   = [r \in Runners |-> IF r \in rs THEN "none" ELSE io[r]]
  /\ buf'  = [r \in Runners |-> IF r \in rs THEN <<>> ELSE buf[r]]
  /\ lock' = [n \in Names |-> IF lock[n] \in rs THEN NoOne ELSE lock[n]]
  /\ session' = session \ rs
  /\ UNCHANGED <<file, blank, opt, login>>

KillClient(c) ==
  /\ pc[c] \notin {"idle", "refused", "over"}
  /\ Ends({c}, "over")
  /\ UNCHANGED up

KillUp(u) ==
  /\ u \in up
  /\ Ends({u} \X Names, "idle")
  /\ up' = up \ {u}

-----------------------------------------------------------------------------
Next ==
  \/ \E c \in Clients : Start(c) \/ KillClient(c)
  \/ \E u \in Ups : StartUp(u) \/ Poll(u) \/ KillUp(u)
  \/ \E r \in Runners : Run(r) \/ SessionBreaks(r)

Spec == Init /\ [][Next]_vars

(* What can run does run, and the ticker of an agent ticks; that a dial is  *)
(* fair assumes that the relay can be reached and grants the name.          *)
Fairness ==
  /\ \A r \in Runners : WF_vars(Run(r))
  /\ \A u \in Ups : WF_vars(Poll(u))

LiveSpec == Spec /\ Fairness

-----------------------------------------------------------------------------
Registered(r) == pc[r] \in {"update", "serve"}

(* autostart.go: "flock stops the same name doubling".  A session that one  *)
(* process of this machine holds never ends because another registers the   *)
(* same id; it holds if names are saved as the relay normalises them.       *)
NoLocalTakeOver ==
  [][\A r \in Runners : r \in session' \ session => session \subseteq session']_vars

(* --ephemeral skips saving: the file never holds a service that was        *)
(* neither saved before nor given on a command line that saves.             *)
EphemeralIsNotSaved ==
  \A i \in DOMAIN file :
    \/ \E j \in DOMAIN Saved : Saved[j].service = file[i].service
    \/ \E w \in Wants : ~w.ephemeral /\ w.service = file[i].service

(* `mrok up` starts every saved tunnel: a saved name gets registered at the *)
(* relay, by the agent or by a client that has the lock and may be killed.  *)
SavedGetsServed ==
  \A u \in Ups, n \in Names :
    u \in up /\ n \in SavedNames ~>
      \/ \E r \in Runners : Registered(r) /\ opt[r].name = n
      \/ u \notin up \/ n \notin SavedNames

(* A client never hangs before its banner: it registers, or is told         *)
(* that another process already does.                                       *)
ClientSettles ==
  \A c \in Clients :
    pc[c] = "lock" ~> pc[c] \in {"refused", "over"} \/ Registered(c)

-----------------------------------------------------------------------------
(* main.go prints "local <service> ... already running (login agent)" if it *)
(* finds the service saved with a URL: then the holder of the lock runs a   *)
(* tunnel to it.                                                            *)
Announced(c) ==
  /\ ForService(opt[c].service) # {}
  /\ First(ForService(opt[c].service)).url

AlreadyRunningIsTrue ==
  [][\A c \in Clients :
       pc[c] = "lock" /\ pc'[c] = "refused" /\ Announced(c)
         => opt[lock[opt[c].name]].service = opt[c].service]_vars

(* main.go prints "saved - will start at login": the tunnel stays in the    *)
(* file, when no command line claims its name or its service for another.   *)
SavedStaysSaved ==
  \A c \in Clients :
    /\ login[c] /\ pc[c] \in {"lock", "dial", "serve"}
    /\ \A r \in Runners : io[r] = "none"
    => ForService(opt[c].service) # {}
=============================================================================
