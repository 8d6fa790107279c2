---------------------------- MODULE AgentsProofs ----------------------------
(* The lock files of Agents do what they are for, for every number of       *)
(* clients, agents, names, services and command lines.                      *)
EXTENDS Agents, WellFoundedInduction, SequenceTheorems, TLAPS

(* Two names never are one id at the relay: names are saved and typed as    *)
(* idgen.Normalize leaves them.                                             *)
NamesAreIds == \A m, n \in Names : Norm[m] = Norm[n] => m = n

Running == {"dial", "update", "serve"}

(* Who runs a tunnel has its lock, and only who runs one has a session.     *)
LockDiscipline ==
  \A r \in Runners :
    /\ pc[r] \in Running => lock[opt[r].name] = r
    /\ r \in session => pc[r] \in Running

(* An Upsert under way keeps its runner where it called it.                 *)
SavingInPlace == \A r \in Runners : io[r] # "none" => pc[r] \in {"save", "update"}

IInv == TypeOK /\ LockDiscipline /\ SavingInPlace

-----------------------------------------------------------------------------
(* The file: Find and Upsert return and leave saved tunnels.                *)

(* A set of naturals has its minimum in it.                                 *)
LEMMA MinIsMember ==
  ASSUME NEW S \in SUBSET Nat, S # {}
  PROVE  Min(S) \in S
<1> DEFINE Less == OpToRel(<, Nat)
<1>1. IsWellFoundedOn(Less, Nat)
  BY NatLessThanWellFounded
<1>2. \A x, y \in Nat : y < x => <<y, x>> \in Less
  BY DEF OpToRel
<1> HIDE DEF Less
<1>3. PICK x \in S : \A y \in S : ~ (<<y, x>> \in Less)
  BY <1>1, WFMin
<1>4. ASSUME NEW y \in S PROVE x <= y
  <2>1. x \in Nat /\ y \in Nat OBVIOUS
  <2>2. ~ (y < x) BY <1>2, <1>3, <2>1, Zenon
  <2>3. QED BY <2>1, <2>2
<1>5. QED BY <1>4 DEF Min

(* Find returns a tunnel of the file.                                       *)
LEMMA FirstIsTunnel ==
  ASSUME TypeOK, NEW S \in SUBSET DOMAIN file, S # {}
  PROVE  First(S) \in Tunnel
<1>1. DOMAIN file \subseteq Nat /\ \A i \in DOMAIN file : file[i] \in Tunnel
  BY DEF TypeOK
<1>2. Min(S) \in S BY <1>1, MinIsMember
<1>3. QED BY <1>1, <1>2 DEF First

(* A tunnel stays one with the URL of another.                              *)
LEMMA UrlKept ==
  ASSUME NEW t \in Tunnel, NEW q \in Tunnel
  PROVE  /\ [t EXCEPT !.url = @ \/ q.url] \in Tunnel
         /\ [t EXCEPT !.url = @ \/ q.url].service = t.service
<1>1. (t.url \/ q.url) \in BOOLEAN OBVIOUS
<1>2. PICK b \in BOOLEAN : b = (t.url \/ q.url) BY <1>1
<1>3. [t EXCEPT !.url = @ \/ q.url] = [t EXCEPT !.url = b] BY <1>2
<1>4. [t EXCEPT !.url = b] \in Tunnel /\ [t EXCEPT !.url = b].service = t.service
  BY DEF Tunnel
<1>5. QED BY <1>3, <1>4

(* Upsert makes a file of tunnels of a file of tunnels.                     *)
LEMMA UpsertedIsFile ==
  ASSUME TypeOK, NEW t \in Tunnel
  PROVE  Upserted(t) \in Seq(Tunnel)
<1> DEFINE same == ForName(t.name) \cup ForService(t.service)
           new  == [t EXCEPT !.url = @ \/ First(same).url]
<1>1. file \in Seq(Tunnel) BY DEF TypeOK
<1>2. CASE same = {}
  BY <1>1, <1>2 DEF Upserted
<1>3. CASE same # {}
  <2>1. same \in SUBSET DOMAIN file BY DEF ForName, ForService
  <2>2. Min(same) \in 1 .. Len(file)
    <3>1. DOMAIN file = 1 .. Len(file) /\ 1 .. Len(file) \subseteq Nat
      BY <1>1
    <3> HIDE DEF same
    <3>2. QED BY <1>3, <2>1, <3>1, MinIsMember
  <2>3. new \in Tunnel
    <3>1. First(same) \in Tunnel BY <1>3, <2>1, FirstIsTunnel
    <3> HIDE DEF same
    <3>2. QED BY <3>1, UrlKept
  <2>4. [file EXCEPT ![Min(same)] = new] \in Seq(Tunnel)
    BY <1>1, <2>2, <2>3, ExceptSeq
  <2>5. QED BY <1>3, <2>4 DEF Upserted
<1>4. QED BY <1>2, <1>3

(* What a runner saves is a tunnel, under its name or its id.               *)
LEMMA EntryIsTunnel ==
  ASSUME TypeOK, NEW r \in Runners, pc[r] # "idle"
  PROVE  Entry(r) \in Tunnel
BY AgentsAssumption DEF TypeOK, Entry, Options, Tunnel

-----------------------------------------------------------------------------
(* Each step keeps IInv.                                                    *)

(* Nobody runs, locks or saves at the start.                                *)
LEMMA InitInv == Init => IInv
<1>1. ASSUME Init PROVE TypeOK
  BY <1>1, AgentsAssumption DEF Init, TypeOK, Stages
<1>2. ASSUME Init PROVE LockDiscipline /\ SavingInPlace
  BY <1>2 DEF Init, LockDiscipline, SavingInPlace, Running
<1>3. QED BY <1>1, <1>2 DEF IInv

(* The steps of an Upsert leave locks and sessions alone.                   *)
LEMMA UpsertInv ==
  ASSUME IInv, NEW r \in Runners, Upsert(r)
  PROVE  IInv'
<1> USE DEF IInv
<1>1. CASE UpsertRead(r)
  <2>1. Upserted(Entry(r)) \in Seq(Tunnel)
    BY <1>1, EntryIsTunnel, UpsertedIsFile DEF UpsertRead
  <2>2. TypeOK'
    BY <1>1, <2>1 DEF UpsertRead, TypeOK, agents
  <2>3. LockDiscipline' /\ SavingInPlace'
    BY <1>1 DEF UpsertRead, TypeOK, LockDiscipline, SavingInPlace, agents
  <2>4. QED BY <2>2, <2>3
<1>2. CASE Truncate(r)
  <2>1. TypeOK'
    BY <1>2 DEF Truncate, TypeOK, agents
  <2>2. LockDiscipline' /\ SavingInPlace'
    BY <1>2 DEF Truncate, TypeOK, LockDiscipline, SavingInPlace, agents
  <2>3. QED BY <2>1, <2>2
<1>3. CASE Write(r)
  <2>1. pc[r] \in {"save", "update"}
    BY <1>3 DEF Write, SavingInPlace
  <2>2. file' \in Seq(Tunnel) /\ blank' \in BOOLEAN
    <3>1. buf[r] \in Seq(Tunnel) /\ <<>> \in Seq(Tunnel)
      BY DEF TypeOK
    <3>2. file' \in {buf[r], <<>>} /\ blank' = FALSE
      BY <1>3 DEF Write, Written
    <3>3. QED BY <3>1, <3>2
  <2>3. /\ pc' \in [Runners -> Stages]
        /\ \A q \in Runners : pc'[q] # "idle" => pc[q] # "idle"
    BY <1>3, <2>1 DEF Write, Goto, TypeOK, Stages
  <2>4. buf' \in [Runners -> Seq(Tunnel)] /\ io' \in [Runners -> {"none", "read", "truncated"}]
    BY <1>3 DEF Write, TypeOK
  <2>5. TypeOK'
    BY <1>3, <2>2, <2>3, <2>4 DEF Write, TypeOK, agents
  <2>6. LockDiscipline' /\ SavingInPlace'
    BY <1>3, <2>1
       DEF Write, Goto, TypeOK, LockDiscipline, SavingInPlace, Running, agents
  <2>7. QED BY <2>5, <2>6
<1>4. QED BY <1>1, <1>2, <1>3 DEF Upsert

(* A client starts with a name, wherever it has it from.                    *)
LEMMA StartInv ==
  ASSUME IInv, NEW c \in Clients, Start(c)
  PROVE  IInv'
<1> USE DEF IInv
<1>1. c \in Runners BY DEF Runners
<1>2. PICK w \in Wants, n \in Names \cup {NoName} :
        /\ n \in ChosenNames(w)
        /\ opt'   = [opt EXCEPT ![c] = [name |-> n, service |-> w.service]]
        /\ login' = [login EXCEPT ![c] = ~w.ephemeral]
        /\ Goto(c, IF w.ephemeral THEN "lock" ELSE "save")
  BY DEF Start
<1>3. n \in Names
  <2>1. CASE w.name # NoName
    BY <1>2, <2>1, AgentsAssumption DEF ChosenNames
  <2>2. CASE w.name = NoName /\ ForService(w.service) # {}
    <3>1. First(ForService(w.service)) \in Tunnel
      BY <2>2, FirstIsTunnel DEF ForService
    <3>2. QED BY <1>2, <2>2, <3>1 DEF ChosenNames, Tunnel
  <2>3. CASE w.name = NoName /\ ForService(w.service) = {}
    BY <1>2, <2>3, AgentsAssumption DEF ChosenNames
  <2>4. QED BY <2>1, <2>2, <2>3
<1>4. w.service \in Services /\ w.ephemeral \in BOOLEAN
  BY AgentsAssumption
<1>5. [name |-> n, service |-> w.service] \in Options
  BY <1>3, <1>4 DEF Options
<1>6. TypeOK'
  BY <1>1, <1>2, <1>4, <1>5 DEF Start, Goto, TypeOK, Stages, upsert, agents
<1>7. /\ pc[c] = "idle" /\ pc'[c] \in {"lock", "save"}
      /\ \A q \in Runners \ {c} : pc'[q] = pc[q] /\ opt'[q] = opt[q]
      /\ UNCHANGED <<io, lock, session>>
  BY <1>1, <1>2, <1>4 DEF Start, Goto, TypeOK, upsert
<1>8. LockDiscipline' /\ SavingInPlace'
  BY <1>7 DEF LockDiscipline, SavingInPlace, Running
<1>9. QED BY <1>6, <1>8

(* The agent starts goroutines with saved tunnels only.                     *)
LEMMA PollInv ==
  ASSUME IInv, NEW u \in Ups, Poll(u)
  PROVE  IInv'
<1> USE DEF IInv
<1> DEFINE new == {u} \X Startable(u)
<1>1. /\ pc'  = [r \in Runners |-> IF r \in new THEN "lock" ELSE pc[r]]
      /\ opt' = [r \in Runners |-> IF r \in new THEN SavedFor(r[2]) ELSE opt[r]]
      /\ UNCHANGED <<file, blank, io, buf, login, lock, session, up, kills>>
  BY DEF Poll, upsert, agents
<1>2. ASSUME NEW r \in new
      PROVE  pc[r] = "idle" /\ SavedFor(r[2]) \in Options
  <2>1. PICK n \in Startable(u) : r = <<u, n>> OBVIOUS
  <2>2. pc[r] = "idle" /\ n \in Names /\ ForName(n) # {}
    <3>1. \A i \in DOMAIN file : file[i].name \in Names
      <4>1. \A i \in DOMAIN file : file[i] \in Tunnel BY DEF TypeOK
      <4>2. QED BY <4>1 DEF Tunnel
    <3>2. n \in SavedNames /\ pc[<<u, n>>] = "idle"
      BY DEF Startable
    <3>3. QED BY <2>1, <3>1, <3>2 DEF SavedNames, ForName
  <2>3. First(ForName(n)) \in Tunnel
    BY <2>2, FirstIsTunnel DEF ForName
  <2>4. QED BY <2>1, <2>2, <2>3 DEF SavedFor, Options, Tunnel
<1> HIDE DEF new
<1>3. TypeOK'
  BY <1>1, <1>2 DEF TypeOK, Stages
<1>4. LockDiscipline' /\ SavingInPlace'
  BY <1>1, <1>2 DEF TypeOK, LockDiscipline, SavingInPlace, Running
<1>5. QED BY <1>3, <1>4

(* A lock is taken when nobody has it.                                      *)
LEMMA TryLockInv ==
  ASSUME IInv, NEW r \in Runners, TryLock(r)
  PROVE  IInv'
<1> USE DEF IInv
<1>1. /\ pc[r] = "lock" /\ opt[r].name \in Names
      /\ UNCHANGED <<file, blank, io, buf, opt, login, session, up, kills>>
  BY DEF TryLock, TypeOK, Options, upsert, agents
<1>2. CASE lock[opt[r].name] = NoOne /\ lock' = [lock EXCEPT ![opt[r].name] = r]
            /\ Goto(r, "dial")
  <2>1. TypeOK'
    BY <1>1, <1>2 DEF Goto, TypeOK, Stages
  <2>2. LockDiscipline' /\ SavingInPlace'
    BY <1>1, <1>2, AgentsAssumption
       DEF Goto, TypeOK, LockDiscipline, SavingInPlace, Running
  <2>3. QED BY <2>1, <2>2
<1>3. CASE UNCHANGED lock /\ Goto(r, Refused(r))
  <2>1. TypeOK'
    BY <1>1, <1>3 DEF Goto, Refused, TypeOK, Stages
  <2>2. LockDiscipline' /\ SavingInPlace'
    BY <1>1, <1>3 DEF Goto, Refused, TypeOK, LockDiscipline, SavingInPlace, Running
  <2>3. QED BY <2>1, <2>2
<1>4. QED BY <1>2, <1>3 DEF TryLock

(* The loop dials and serves under the lock.                                *)
LEMMA LoopInv ==
  ASSUME IInv, NEW r \in Runners, DialOk(r) \/ Redial(r) \/ SessionBreaks(r)
  PROVE  IInv'
<1> USE DEF IInv
<1>1. UNCHANGED <<file, blank, io, buf, opt, login, lock, up, kills>>
  BY DEF DialOk, Redial, SessionBreaks, upsert, agents
<1>2. CASE DialOk(r)
  <2>1. TypeOK'
    BY <1>1, <1>2 DEF DialOk, Goto, Connected, TypeOK, Stages
  <2>2. LockDiscipline' /\ SavingInPlace'
    BY <1>1, <1>2
       DEF DialOk, Goto, Connected, TypeOK, LockDiscipline, SavingInPlace, Running
  <2>3. QED BY <2>1, <2>2
<1>3. CASE Redial(r)
  <2>1. TypeOK'
    BY <1>1, <1>3 DEF Redial, Goto, TypeOK, Stages
  <2>2. LockDiscipline' /\ SavingInPlace'
    BY <1>1, <1>3 DEF Redial, Goto, TypeOK, LockDiscipline, SavingInPlace, Running
  <2>3. QED BY <2>1, <2>2
<1>4. CASE SessionBreaks(r)
  <2>1. UNCHANGED pc /\ session' \subseteq session
    BY <1>4 DEF SessionBreaks
  <2>2. QED BY <1>1, <2>1 DEF TypeOK, LockDiscipline, SavingInPlace
<1>5. QED BY <1>2, <1>3, <1>4

(* The end of processes takes their locks and sessions, and no others.      *)
LEMMA EndsInv ==
  ASSUME IInv, NEW rs \in SUBSET Runners, NEW l \in {"idle", "over"},
         Ends(rs, l), up' \subseteq up,
         \A r \in rs : l = "over" => pc[r] # "idle"
  PROVE  IInv'
<1> USE DEF IInv
<1>1. TypeOK'
  <2>1. /\ pc' \in [Runners -> Stages]
        /\ \A r \in Runners : pc'[r] # "idle" => pc[r] # "idle"
    BY DEF Ends, TypeOK, Stages
  <2>2. buf' \in [Runners -> Seq(Tunnel)]
    <3>1. \A r \in Runners : buf[r] \in Seq(Tunnel)
      BY DEF TypeOK
    <3>2. buf' = [r \in Runners |-> IF r \in rs THEN <<>> ELSE buf[r]]
      BY DEF Ends
    <3>3. QED BY <3>1, <3>2
  <2>3. /\ io' \in [Runners -> {"none", "read", "truncated"}]
        /\ lock' \in [Names -> Runners \cup {NoOne}]
        /\ session' \subseteq Runners /\ kills' \in 0 .. MaxKills
    BY AgentsAssumption DEF Ends, TypeOK
  <2>4. QED BY <2>1, <2>2, <2>3 DEF Ends, TypeOK
<1>2. LockDiscipline' /\ SavingInPlace'
  <2>1. ASSUME NEW r \in Runners, pc'[r] \in Running
        PROVE  r \notin rs /\ pc[r] \in Running
    BY <2>1 DEF Ends, Running
  <2>2. ASSUME NEW r \in Runners, r \in session' \/ io'[r] # "none"
        PROVE  r \notin rs /\ pc'[r] = pc[r] /\ io'[r] = io[r]
    BY <2>2 DEF Ends
  <2>3. \A r \in Runners : pc[r] # "idle" => opt[r].name \in Names
    BY DEF TypeOK, Options
  <2>4. /\ lock' = [n \in Names |-> IF lock[n] \in rs THEN NoOne ELSE lock[n]]
        /\ session' \subseteq session /\ UNCHANGED opt
    BY DEF Ends
  <2>5. LockDiscipline'
    BY <2>1, <2>2, <2>3, <2>4 DEF LockDiscipline, Running
  <2>6. SavingInPlace'
    BY <2>2 DEF SavingInPlace
  <2>7. QED BY <2>5, <2>6
<1>3. QED BY <1>1, <1>2

(* Every step keeps the invariant.                                          *)
LEMMA NextInv == IInv /\ [Next]_vars => IInv'
<1> SUFFICES ASSUME IInv, [Next]_vars PROVE IInv'
  OBVIOUS
<1>1. CASE \E c \in Clients : Start(c)
  BY <1>1, StartInv
<1>2. CASE \E c \in Clients : KillClient(c)
  <2>1. PICK c \in Clients : KillClient(c) BY <1>2
  <2>2. {c} \in SUBSET Runners /\ Ends({c}, "over") /\ UNCHANGED up /\ pc[c] # "idle"
    BY <2>1 DEF KillClient, Runners
  <2>3. QED BY <2>2, EndsInv
<1>3. CASE \E u \in Ups : StartUp(u)
  <2>1. /\ UNCHANGED <<file, blank, io, buf, pc, opt, login, lock, session, kills>>
        /\ \E u \in Ups : up' = up \cup {u}
    BY <1>3 DEF StartUp, upsert
  <2>2. QED BY <2>1 DEF IInv, TypeOK, LockDiscipline, SavingInPlace
<1>4. CASE \E u \in Ups : Poll(u)
  BY <1>4, PollInv
<1>5. CASE \E u \in Ups : KillUp(u)
  <2>1. PICK u \in Ups : KillUp(u) BY <1>5
  <2>2. {u} \X Names \in SUBSET Runners /\ Ends({u} \X Names, "idle") /\ up' \subseteq up
    BY <2>1 DEF KillUp, Runners
  <2>3. QED BY <2>2, EndsInv
<1>6. CASE \E r \in Runners : Run(r) \/ SessionBreaks(r)
  BY <1>6, UpsertInv, TryLockInv, LoopInv DEF Run
<1>7. CASE UNCHANGED vars
  BY <1>7 DEF vars, IInv, TypeOK, LockDiscipline, SavingInPlace
<1>8. QED
  BY <1>1, <1>2, <1>3, <1>4, <1>5, <1>6, <1>7 DEF Next

(* What is saved, run and locked is what the types say: a name chosen from   *)
(* the command line, the file or by chance is always a name.                *)
THEOREM TypeCorrect == Spec => []TypeOK
<1>1. IInv => TypeOK BY DEF IInv
<1>2. QED BY <1>1, InitInv, NextInv, PTL DEF Spec

(* Two runners with one id have one name, hence one lock.                   *)
LEMMA OneRunnerPerId ==
  ASSUME IInv, NamesAreIds,
         NEW r \in Runners, pc[r] \in Running,
         NEW q \in session, Norm[opt[q].name] = Norm[opt[r].name]
  PROVE  q = r
<1>1. q \in Runners /\ pc[q] \in Running
  BY DEF IInv, TypeOK, LockDiscipline
<1>2. opt[q].name \in Names /\ opt[r].name \in Names
  BY <1>1 DEF IInv, TypeOK, Options, Running
<1>3. opt[q].name = opt[r].name
  BY <1>2 DEF NamesAreIds
<1>4. lock[opt[q].name] = q /\ lock[opt[r].name] = r
  BY <1>1 DEF IInv, LockDiscipline
<1>5. QED BY <1>3, <1>4

(* Only a dial opens a session, and it ends no other.                       *)
LEMMA NoTakeOverStep ==
  ASSUME IInv, NamesAreIds, Next, NEW r \in Runners, r \in session' \ session
  PROVE  session \subseteq session'
<1>1. PICK q \in Runners : DialOk(q)
  BY DEF Next, Start, KillClient, StartUp, Poll, KillUp, Run, SessionBreaks,
         Upsert, UpsertRead, Truncate, Write, TryLock, Redial, Ends
<1>2. pc[q] \in Running /\ session' = (session \ SameId(q)) \cup {q}
  BY <1>1 DEF DialOk, Running
<1>3. SameId(q) = {}
  BY <1>2, OneRunnerPerId DEF SameId
<1>4. QED BY <1>2, <1>3

(* If names are saved as the relay normalises them, a process of a machine   *)
(* never ends a session that another process of that machine holds.         *)
THEOREM LocksPreventTakeOver == NamesAreIds => (Spec => NoLocalTakeOver)
<1> SUFFICES ASSUME NamesAreIds PROVE Spec => NoLocalTakeOver
  OBVIOUS
<1>1. ASSUME IInv, [Next]_vars
      PROVE  [\A r \in Runners : r \in session' \ session => session \subseteq session']_vars
  <2>1. CASE Next
    BY <1>1, <2>1, NoTakeOverStep
  <2>2. CASE UNCHANGED vars
    BY <2>2
  <2>3. QED BY <1>1, <2>1, <2>2
<1>2. QED BY <1>1, InitInv, NextInv, PTL DEF Spec, NoLocalTakeOver

-----------------------------------------------------------------------------
(* Where a service in the file comes from.                                  *)
Allowed(v) ==
  \/ \E j \in DOMAIN Saved : Saved[j].service = v
  \/ \E w \in Wants : ~w.ephemeral /\ w.service = v

AllAllowed(ts) == \A i \in DOMAIN ts : Allowed(ts[i].service)

(* Who saves, saves a tunnel that may be saved; what it will write, too.    *)
SaversAllowed ==
  \A r \in Runners :
    /\ pc[r] # "idle" /\ login[r] => Allowed(opt[r].service)
    /\ pc[r] \in {"save", "update"} => login[r]

BufsAllowed == \A r \in Runners : AllAllowed(buf[r])

SInv == AllAllowed(file) /\ BufsAllowed /\ SaversAllowed

(* Upsert adds no service but that of its tunnel.                           *)
LEMMA UpsertedAllowed ==
  ASSUME TypeOK, AllAllowed(file), NEW t \in Tunnel, Allowed(t.service)
  PROVE  AllAllowed(Upserted(t))
<1>1. file \in Seq(Tunnel) /\ \A i \in DOMAIN file : Allowed(file[i].service)
  BY DEF TypeOK, AllAllowed
<1>2. AllAllowed(Append(file, t))
  <2>1. /\ Len(Append(file, t)) = Len(file) + 1 /\ Append(file, t)[Len(file) + 1] = t
        /\ \A i \in 1 .. Len(file) : Append(file, t)[i] = file[i]
        /\ Append(file, t) \in Seq(Tunnel)
    BY <1>1, AppendProperties
  <2>2. ASSUME NEW i \in DOMAIN Append(file, t)
        PROVE  Allowed(Append(file, t)[i].service)
    <3>1. i \in 1 .. Len(file) \/ i = Len(file) + 1
      BY <1>1, <2>1
    <3>2. QED BY <1>1, <2>1, <3>1
  <2>3. QED BY <2>2 DEF AllAllowed
<1>3. ASSUME NEW S \in SUBSET DOMAIN file, S # {}
      PROVE  AllAllowed([file EXCEPT ![Min(S)] = [t EXCEPT !.url = @ \/ First(S).url]])
  <2>1. [t EXCEPT !.url = @ \/ First(S).url].service = t.service
    BY <1>3, FirstIsTunnel, UrlKept
  <2>2. QED BY <1>1, <2>1 DEF AllAllowed
<1>4. ForName(t.name) \cup ForService(t.service) \in SUBSET DOMAIN file
  BY DEF ForName, ForService
<1>5. QED BY <1>2, <1>3, <1>4 DEF Upserted

(* The file is what was saved before.                                       *)
LEMMA InitSaves == Init => SInv
BY DEF Init, SInv, AllAllowed, BufsAllowed, SaversAllowed, Allowed

(* An Upsert carries what may be saved through the buffer to the file.      *)
LEMMA UpsertSaves ==
  ASSUME IInv, SInv, NEW r \in Runners, Upsert(r)
  PROVE  SInv'
<1> USE DEF SInv
<1>1. CASE UpsertRead(r)
  <2>1. /\ pc[r] \in {"save", "update"} /\ buf' = [buf EXCEPT ![r] = Upserted(Entry(r))]
        /\ UNCHANGED <<file, pc, opt, login>>
    BY <1>1 DEF UpsertRead
  <2>2. Entry(r) \in Tunnel /\ Entry(r).service = opt[r].service
    BY <2>1, EntryIsTunnel DEF IInv, Entry
  <2>3. Allowed(opt[r].service)
    BY <2>1 DEF SaversAllowed
  <2>4. AllAllowed(Upserted(Entry(r)))
    BY <2>2, <2>3, UpsertedAllowed DEF IInv
  <2>5. BufsAllowed'
    BY <2>1, <2>4 DEF BufsAllowed, IInv, TypeOK
  <2>6. AllAllowed(file)' /\ SaversAllowed'
    BY <2>1 DEF AllAllowed, SaversAllowed
  <2>7. QED BY <2>5, <2>6
<1>2. CASE Truncate(r)
  <2>1. file' = <<>> /\ UNCHANGED <<pc, opt, login, buf>>
    BY <1>2 DEF Truncate
  <2>2. QED BY <2>1 DEF AllAllowed, BufsAllowed, SaversAllowed
<1>3. CASE Write(r)
  <2>1. /\ file' \in {buf[r], <<>>} /\ buf' = [buf EXCEPT ![r] = <<>>]
        /\ pc' = [pc EXCEPT ![r] = IF pc[r] = "save" THEN "lock" ELSE "serve"]
        /\ pc[r] \in {"save", "update"}
        /\ UNCHANGED <<opt, login>>
    BY <1>3 DEF Write, Written, Goto, IInv, SavingInPlace
  <2>2. AllAllowed(buf[r]) /\ AllAllowed(<<>>)
    BY DEF BufsAllowed, AllAllowed
  <2>3. AllAllowed(file)'
    BY <2>1, <2>2 DEF AllAllowed
  <2>4. BufsAllowed'
    BY <2>1, <2>2 DEF BufsAllowed, IInv, TypeOK
  <2>5. SaversAllowed'
    BY <2>1 DEF SaversAllowed, IInv, TypeOK
  <2>6. QED BY <2>3, <2>4, <2>5
<1>4. QED BY <1>1, <1>2, <1>3 DEF Upsert

(* An ephemeral client saves nothing, another what its line says.           *)
LEMMA StartSaves ==
  ASSUME IInv, SInv, NEW c \in Clients, Start(c)
  PROVE  SInv'
<1>1. c \in Runners BY DEF Runners
<1>2. PICK w \in Wants, n \in Names \cup {NoName} :
        /\ opt'   = [opt EXCEPT ![c] = [name |-> n, service |-> w.service]]
        /\ login' = [login EXCEPT ![c] = ~w.ephemeral]
        /\ pc' = [pc EXCEPT ![c] = IF w.ephemeral THEN "lock" ELSE "save"]
        /\ UNCHANGED <<file, buf>>
  BY DEF Start, Goto, upsert
<1>3. w.ephemeral \in BOOLEAN
  BY AgentsAssumption
<1>4. /\ opt'[c].service = w.service /\ login'[c] = ~w.ephemeral
      /\ pc'[c] = "save" => ~w.ephemeral
      /\ pc'[c] # "update"
      /\ \A q \in Runners \ {c} :
           pc'[q] = pc[q] /\ opt'[q] = opt[q] /\ login'[q] = login[q]
  BY <1>1, <1>2, <1>3 DEF IInv, TypeOK
<1>5. SaversAllowed'
  <2>1. ASSUME NEW r \in Runners
        PROVE  /\ pc'[r] # "idle" /\ login'[r] => Allowed(opt'[r].service)
               /\ pc'[r] \in {"save", "update"} => login'[r]
    <3>1. CASE r = c
      <4>1. login'[r] => Allowed(opt'[r].service)
        BY <1>4, <3>1 DEF Allowed
      <4>2. pc'[r] \in {"save", "update"} => login'[r]
        BY <1>4, <3>1
      <4>3. QED BY <4>1, <4>2
    <3>2. CASE r # c
      BY <1>4, <3>2 DEF SInv, SaversAllowed
    <3>3. QED BY <3>1, <3>2
  <2>2. QED BY <2>1, Zenon DEF SaversAllowed, Allowed
<1>6. AllAllowed(file)' /\ BufsAllowed'
  BY <1>2 DEF SInv, AllAllowed, BufsAllowed
<1>7. QED BY <1>5, <1>6 DEF SInv

(* The agent runs what is in the file.                                      *)
LEMMA PollSaves ==
  ASSUME IInv, SInv, NEW u \in Ups, Poll(u)
  PROVE  SInv'
<1> DEFINE new == {u} \X Startable(u)
<1>1. /\ pc'  = [r \in Runners |-> IF r \in new THEN "lock" ELSE pc[r]]
      /\ opt' = [r \in Runners |-> IF r \in new THEN SavedFor(r[2]) ELSE opt[r]]
      /\ UNCHANGED <<file, buf, login>>
  BY DEF Poll, upsert
<1>2. ASSUME NEW r \in new
      PROVE  Allowed(SavedFor(r[2]).service)
  <2>1. PICK n \in Startable(u) : r = <<u, n>> OBVIOUS
  <2>2. ForName(n) # {} /\ ForName(n) \subseteq DOMAIN file /\ ForName(n) \subseteq Nat
    BY <2>1 DEF Startable, SavedNames, ForName, IInv, TypeOK
  <2>3. Min(ForName(n)) \in DOMAIN file
    BY <2>2, MinIsMember
  <2>4. QED BY <2>1, <2>3 DEF SavedFor, First, SInv, AllAllowed
<1> HIDE DEF new
<1>3. SaversAllowed'
  <2>1. ASSUME NEW r \in Runners
        PROVE  /\ r \in new => pc'[r] = "lock" /\ opt'[r] = SavedFor(r[2])
               /\ r \notin new => pc'[r] = pc[r] /\ opt'[r] = opt[r]
    BY <1>1
  <2>2. ASSUME NEW r \in Runners
        PROVE  /\ pc'[r] # "idle" /\ login[r] => Allowed(opt'[r].service)
               /\ pc'[r] \in {"save", "update"} => login[r]
    <3>1. CASE r \in new BY <1>2, <2>1, <3>1
    <3>2. CASE r \notin new BY <2>1, <3>2 DEF SInv, SaversAllowed
    <3>3. QED BY <3>1, <3>2
  <2>3. login' = login BY <1>1
  <2>4. QED BY <2>2, <2>3, Zenon DEF SaversAllowed, Allowed
<1>4. AllAllowed(file)' /\ BufsAllowed'
  BY <1>1 DEF SInv, AllAllowed, BufsAllowed
<1>5. QED BY <1>3, <1>4 DEF SInv

(* Whoever saves its id after a dial did save its name before.              *)
LEMMA RunSaves ==
  ASSUME IInv, SInv, NEW r \in Runners,
         TryLock(r) \/ DialOk(r) \/ Redial(r) \/ SessionBreaks(r)
  PROVE  SInv'
<1>1. UNCHANGED <<file, buf, opt, login>>
  BY DEF TryLock, DialOk, Redial, SessionBreaks, upsert
<1>2. /\ \A q \in Runners : pc'[q] # "idle" => pc[q] # "idle"
      /\ \A q \in Runners : pc'[q] \in {"save", "update"} => login[q]
  BY DEF TryLock, DialOk, Redial, SessionBreaks, Goto, Refused, Connected,
         SInv, SaversAllowed, IInv, TypeOK
<1>3. SaversAllowed'
  BY <1>1, <1>2 DEF SInv, SaversAllowed
<1>4. AllAllowed(file)' /\ BufsAllowed'
  BY <1>1 DEF SInv, AllAllowed, BufsAllowed
<1>5. QED BY <1>3, <1>4 DEF SInv

(* The end of processes makes nothing a saver, and empties buffers only.    *)
LEMMA EndsSaves ==
  ASSUME IInv, SInv, NEW rs, NEW l \in {"idle", "over"}, Ends(rs, l),
         \A r \in rs : l = "over" => pc[r] # "idle"
  PROVE  SInv'
<1>1. /\ pc'  = [r \in Runners |-> IF r \in rs THEN l ELSE pc[r]]
      /\ buf' = [r \in Runners |-> IF r \in rs THEN <<>> ELSE buf[r]]
      /\ UNCHANGED <<file, opt, login>>
  BY DEF Ends
<1>2. SaversAllowed'
  BY <1>1 DEF SInv, SaversAllowed
<1>3. BufsAllowed'
  <2>1. ASSUME NEW r \in Runners PROVE AllAllowed(buf'[r])
    <3>1. buf'[r] = buf[r] \/ buf'[r] = <<>>
      BY <1>1
    <3>2. AllAllowed(buf[r]) /\ AllAllowed(<<>>)
      BY DEF SInv, BufsAllowed, AllAllowed
    <3>3. QED BY <3>1, <3>2
  <2>2. QED BY <2>1 DEF BufsAllowed, AllAllowed
<1>4. AllAllowed(file)'
  BY <1>1 DEF SInv, AllAllowed
<1>5. QED BY <1>2, <1>3, <1>4 DEF SInv

(* Every step saves what may be saved.                                      *)
LEMMA NextSaves == IInv /\ SInv /\ [Next]_vars => SInv'
<1> SUFFICES ASSUME IInv, SInv, [Next]_vars PROVE SInv'
  OBVIOUS
<1>1. CASE \E c \in Clients : Start(c)
  BY <1>1, StartSaves
<1>2. CASE \E c \in Clients : KillClient(c)
  BY <1>2, EndsSaves DEF KillClient
<1>3. CASE (\E u \in Ups : StartUp(u)) \/ UNCHANGED vars
  <2>1. UNCHANGED <<file, buf, pc, opt, login>>
    BY <1>3 DEF StartUp, upsert, vars
  <2>2. QED BY <2>1 DEF SInv, AllAllowed, BufsAllowed, SaversAllowed
<1>4. CASE \E u \in Ups : Poll(u)
  BY <1>4, PollSaves
<1>5. CASE \E u \in Ups : KillUp(u)
  BY <1>5, EndsSaves DEF KillUp
<1>6. CASE \E r \in Runners : Run(r) \/ SessionBreaks(r)
  BY <1>6, UpsertSaves, RunSaves DEF Run
<1>7. QED BY <1>1, <1>2, <1>3, <1>4, <1>5, <1>6 DEF Next

(* A service that was given with --ephemeral only is never saved, whichever  *)
(* processes save, adopt a name or die at the same time.                    *)
THEOREM EphemeralStaysUnsaved == Spec => []EphemeralIsNotSaved
<1>1. SInv => EphemeralIsNotSaved
  BY DEF SInv, AllAllowed, Allowed, EphemeralIsNotSaved
<1>2. QED BY <1>1, InitInv, NextInv, InitSaves, NextSaves, PTL DEF Spec
=============================================================================
