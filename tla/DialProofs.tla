------------------------------ MODULE DialProofs ------------------------------
(***************************************************************************)
(* Theorems about Dial and Lifecycle: a relay that has been stopped and    *)
(* started again is the relay that its clients have pinned, and their      *)
(* token still opens it.                                                   *)
(*                                                                         *)
(* The invariant says what may be unfinished at each stage of a start      *)
(* (Process), what the disk holds by then (Saved), what a relay that has    *)
(* served owes to those who were given its token (Promised), and that      *)
(* every fingerprint on its way into known_hosts is the right one          *)
(* (Recognised).                                                           *)
(***************************************************************************)
EXTENDS Dial, SequenceTheorems, TLAPS

(* A start that finds this on disk has the admin token t.                    *)
Kept(t) == disk["token"] = t \/ (disk["token"] \notin Tokens /\ flag = t)

Right(h, p) ==
  IF h \in Own THEN p = <<"own", disk["crt"]>> ELSE \E n \in 0 .. issue : p = <<"acme", n>>

Process ==
  /\ stage \in {"down", "up"} => todo = <<>>
  /\ stage = "keys" => todo \in {<<>>, <<File("token", token)>>}
  /\ stage = "listen" =>
       todo \in {<<>>, <<File("key", pair)>>, <<File("crt", pair), File("key", pair)>>}
  /\ stage # "down" => token \in Tokens
  /\ stage \in {"listen", "up"} => pair \in Pairs

Saved ==
  /\ stage = "listen" /\ todo = <<File("key", pair)>> => disk["crt"] = pair
  /\ stage \in {"listen", "up"} /\ todo = <<>> => disk["crt"] = pair /\ disk["key"] = pair
  /\ stage = "keys" /\ todo # <<>> => disk["token"] \notin Tokens
  /\ (stage = "keys" /\ todo = <<>>) \/ stage \in {"listen", "up"} => Kept(token)

Promised ==
  \A d \in Dialers : given[d] # NoToken =>
    /\ Loads
    /\ stage = "listen" => todo = <<>>
    /\ Kept(given[d])
    /\ stage # "down" => given[d] = token

Recognised ==
  /\ \A d \in Dialers : at[d] # "idle" => given[d] # NoToken
  /\ known # <<>> => \E d \in Dialers : given[d] # NoToken
  /\ \A d \in live : stage = "up"
  /\ \A d \in Dialers : at[d] \in {"check", "pin"} => Right(HostOf[d], seen[d])
  /\ \A i \in DOMAIN known : Right(known[i].host, known[i].print)

-----------------------------------------------------------------------------
(* Types.                                                                   *)

Line == [file : Files, text : Tokens]

(* What a start generates or takes from its unit file is a token.            *)
LEMMA FreshTypes == ASSUME RelayTypeOK PROVE Fresh \in Pairs /\ AdminToken \in Tokens
<1>1. Fresh \in Nat \ {0}
  BY DEF Fresh, RelayTypeOK
<1>2. flag # NoToken => flag \in Tokens
  BY DEF RelayTypeOK, Tokens
<1> QED
  BY <1>1, <1>2 DEF AdminToken, Pairs, Generated, Tokens

(* The head of todo is a write of a text to a file.                         *)
LEMMA HeadOfTodo ==
  ASSUME RelayTypeOK, todo # <<>>
  PROVE  Head(todo).file \in Files /\ Head(todo).text \in Tokens /\ Tail(todo) \in Seq(Line)
<1>1. todo \in Seq(Line)
  BY DEF RelayTypeOK, Line
<1>2. Head(todo) \in Line /\ Tail(todo) \in Seq(Line)
  BY <1>1, HeadTailProperties
<1> QED
  BY <1>2 DEF Line

(* Every step of the relay keeps the types of its variables.                *)
LEMMA RelayTypes ==
  ASSUME RelayTypeOK, Serve \/ Stop \/ Renew
  PROVE  RelayTypeOK'
<1> USE LifecycleAssumption
<1>1. CASE Boot
  <2>1. AdminToken \in Tokens
    BY FreshTypes
  <2>2. File("token", AdminToken) \in Line
    BY <2>1 DEF File, Line, Files
  <2>3. todo' \in Seq(Line) /\ token' \in Tokens
    BY <1>1, <2>1, <2>2 DEF Boot
  <2> QED
    BY <1>1, <2>3 DEF Boot, RelayTypeOK, Line
<1>2. CASE Truncate
  BY <1>2, HeadOfTodo DEF Truncate, RelayTypeOK
<1>3. CASE Write
  BY <1>3, HeadOfTodo DEF Write, RelayTypeOK, Line
<1>4. CASE Generate
  <2>1. Fresh \in Pairs
    BY FreshTypes
  <2>2. File("crt", Fresh) \in Line /\ File("key", Fresh) \in Line
    BY <2>1 DEF File, Line, Files, Tokens, Pairs
  <2>3. todo' \in Seq(Line) /\ pair' \in Nat
    BY <1>4, <2>1, <2>2 DEF Generate, Pairs, Generated
  <2> QED
    BY <1>4, <2>3 DEF Generate, RelayTypeOK, Line
<1>5. CASE Load
  <2>1. pair' \in Nat
    BY <1>5 DEF Load, Loads, Pairs, Generated
  <2> QED
    BY <1>5, <2>1 DEF Load, RelayTypeOK
<1>6. CASE Listen
  BY <1>6 DEF Listen, RelayTypeOK
<1>7. CASE Stop
  <2>1. todo' \in Seq(Line) /\ stops' \in Nat
    BY <1>7 DEF Stop, RelayTypeOK
  <2> QED
    BY <1>7, <2>1 DEF Stop, RelayTypeOK, Line
<1>8. CASE Renew
  BY <1>8 DEF Renew, RelayTypeOK
<1> QED
  BY <1>1, <1>2, <1>3, <1>4, <1>5, <1>6, <1>7, <1>8 DEF Serve

(* A fingerprint is one of a certificate.                                   *)
LEMMA FingerprintType == ASSUME RelayTypeOK, NEW h \in Hosts PROVE Fingerprint(h) \in Prints
BY DEF Fingerprint, Prints, RelayTypeOK

(* Every step of a dialer keeps the types of the dialers' variables.        *)
LEMMA DialerTypes ==
  ASSUME TypeOK, NEW d \in Dialers, TakeToken(d) \/ Run(d) \/ Lose(d)
  PROVE  TypeOK'
<1> USE DialAssumption DEF Goto, Stages
<1>1. UNCHANGED relay => RelayTypeOK'
  BY DEF TypeOK, RelayTypeOK, relay
<1>2. CASE TakeToken(d)
  BY <1>1, <1>2 DEF TakeToken, TypeOK, RelayTypeOK
<1>3. CASE Connect(d)
  <2>1. Fingerprint(HostOf[d]) \in Prints
    BY FingerprintType DEF TypeOK
  <2> QED
    BY <1>1, <1>3, <2>1 DEF Connect, TypeOK
<1>4. CASE ReadPins(d)
  BY <1>1, <1>4 DEF ReadPins, TypeOK
<1>5. CASE AppendPin(d)
  <2>1. known' \in Seq([host : Hosts, print : Prints])
    BY <1>5, AppendProperties DEF AppendPin, TypeOK
  <2> QED
    BY <1>1, <1>5, <2>1 DEF AppendPin, TypeOK
<1>6. CASE Admit(d)
  BY <1>1, <1>6 DEF Admit, TypeOK
<1>7. CASE Broken(d)
  BY <1>1, <1>7 DEF Broken, TypeOK
<1>8. CASE Lose(d)
  BY <1>1, <1>8 DEF Lose, TypeOK
<1> QED
  BY <1>2, <1>3, <1>4, <1>5, <1>6, <1>7, <1>8 DEF Run

(* The first start finds nothing on disk.                                   *)
LEMMA TypeInit == Init => TypeOK
<1> SUFFICES ASSUME Init PROVE TypeOK
  OBVIOUS
<1>1. todo \in Seq(Line) /\ known \in Seq([host : Hosts, print : Prints])
  BY DEF Init, RelayInit
<1> QED
  BY <1>1 DEF Init, RelayInit, TypeOK, RelayTypeOK, Line, Stages, Prints, Silent

(* Every step keeps the types.                                              *)
LEMMA TypeStep == TypeOK /\ [Next]_vars => TypeOK'
<1> SUFFICES ASSUME TypeOK, [Next]_vars PROVE TypeOK'
  OBVIOUS
<1>1. CASE (Serve \/ Renew) /\ UNCHANGED dialers
  BY <1>1, RelayTypes DEF TypeOK, dialers
<1>2. CASE Stop /\ live' = {} /\ UNCHANGED <<known, at, seen, given, losses>>
  BY <1>2, RelayTypes DEF TypeOK
<1>3. CASE \E d \in Dialers : TakeToken(d) \/ Run(d) \/ Lose(d)
  BY <1>3, DialerTypes
<1>4. CASE UNCHANGED vars
  BY <1>4 DEF vars, relay, dialers, TypeOK, RelayTypeOK
<1> QED
  BY <1>1, <1>2, <1>3, <1>4 DEF Next

(* The relay's files and stages and the dialers' pins and stages are what    *)
(* they are declared to be, whatever the numbers of stops and dialers.      *)
THEOREM TypeCorrect == Spec => []TypeOK
BY TypeInit, TypeStep, PTL DEF Spec

-----------------------------------------------------------------------------
(* The relay alone.                                                         *)

(* A token is neither a missing file, nor an empty one, nor no token.        *)
LEMMA Marks ==
  /\ Absent \notin Tokens /\ Blank \notin Tokens /\ NoToken \notin Tokens
  /\ Pairs \subseteq Tokens
BY LifecycleAssumption DEF Tokens, Generated, Pairs

(* A start changes the token file only if it holds no token.                *)
LEMMA BootToken ==
  ASSUME RelayTypeOK
  PROVE  /\ disk["token"] \in Tokens => ~SavesToken /\ AdminToken = disk["token"]
         /\ ~SavesToken => Kept(AdminToken)
         /\ \A t \in Tokens : Kept(t) => AdminToken = t
<1>1. disk["token"] \in Tokens \cup {Absent, Blank}
  BY DEF RelayTypeOK, Files
<1> QED
  BY <1>1, Marks DEF SavesToken, AdminToken, Kept

(* The writes that are pending, one after the other.                        *)
LEMMA Pending ==
  ASSUME NEW x, NEW y
  PROVE  /\ <<x>> # <<>> /\ <<x, y>> # <<>> /\ <<x, y>> # <<x>> /\ <<x, y>> # <<y>>
         /\ Head(<<x>>) = x /\ Tail(<<x>>) = <<>>
         /\ Head(<<x, y>>) = x /\ Tail(<<x, y>>) = <<y>>
OBVIOUS

(* The relay's steps keep its stages and its disk in step.                  *)
LEMMA ProcessStep ==
  ASSUME RelayTypeOK, Process, Saved, Serve \/ Stop \/ Renew
  PROVE  Process' /\ Saved'
<1>1. CASE Boot
  <2>1. AdminToken \in Tokens
    BY FreshTypes
  <2>2. /\ stage' = "keys" /\ token' = AdminToken /\ disk' = disk /\ flag' = flag
        /\ todo' = IF SavesToken THEN <<File("token", AdminToken)>> ELSE <<>>
    BY <1>1 DEF Boot
  <2>3. Process'
    BY <2>1, <2>2 DEF Process, File
  <2>4. todo' # <<>> => SavesToken
    BY <2>2
  <2>5. todo' = <<>> => ~SavesToken
    BY <2>2, Pending
  <2> QED
    BY <2>2, <2>3, <2>4, <2>5, BootToken DEF Saved, Kept
<1>2. CASE Truncate
  BY <1>2, Marks DEF Truncate, Process, Saved, Kept, RelayTypeOK, Files, File
<1>3. CASE Write
  <2>1. /\ disk' = [disk EXCEPT ![Head(todo).file] = Head(todo).text]
        /\ todo # <<>> /\ todo' = Tail(todo)
        /\ UNCHANGED <<flag, stage, token, pair>>
    BY <1>3 DEF Write
  <2>2. DOMAIN disk = {"token", "crt", "key"}
    BY DEF RelayTypeOK, Files
  <2>3. CASE stage = "keys"
    <3>1. todo = <<File("token", token)>>
      BY <2>1, <2>3 DEF Process
    <3>2. Head(todo) = File("token", token) /\ Tail(todo) = <<>>
      BY <3>1, Pending
    <3>3. Head(todo).file = "token" /\ Head(todo).text = token
      BY <3>2 DEF File
    <3>4. todo' = <<>> /\ disk' = [disk EXCEPT !["token"] = token]
      BY <2>1, <3>2, <3>3
    <3> QED
      BY <2>1, <2>2, <2>3, <3>4 DEF Process, Saved, Kept
  <2>4. CASE stage = "listen" /\ todo = <<File("key", pair)>>
    <3>1. Head(todo) = File("key", pair) /\ Tail(todo) = <<>>
      BY <2>4, Pending
    <3>2. Head(todo).file = "key" /\ Head(todo).text = pair
      BY <3>1 DEF File
    <3>3. todo' = <<>> /\ disk' = [disk EXCEPT !["key"] = pair]
      BY <2>1, <3>1, <3>2
    <3> QED
      BY <2>1, <2>2, <2>4, <3>3, Pending DEF Process, Saved, Kept
  <2>5. CASE stage = "listen" /\ todo = <<File("crt", pair), File("key", pair)>>
    <3>1. Head(todo) = File("crt", pair) /\ Tail(todo) = <<File("key", pair)>>
      BY <2>5, Pending
    <3>2. Head(todo).file = "crt" /\ Head(todo).text = pair
      BY <3>1 DEF File
    <3>3. todo' = <<File("key", pair)>> /\ disk' = [disk EXCEPT !["crt"] = pair]
      BY <2>1, <3>1, <3>2
    <3> QED
      BY <2>1, <2>2, <2>5, <3>3, Pending DEF Process, Saved, Kept, File
  <2> QED
    BY <2>1, <2>3, <2>4, <2>5 DEF Process, RelayTypeOK
<1>4. CASE Generate
  BY <1>4, FreshTypes, Pending DEF Generate, Process, Saved, Kept, File
<1>5. CASE Load
  BY <1>5 DEF Load, Process, Saved, Kept, Loads
<1>6. CASE Listen
  BY <1>6 DEF Listen, Process, Saved, Kept
<1>7. CASE Stop
  BY <1>7 DEF Stop, Process, Saved
<1>8. CASE Renew
  BY <1>8 DEF Renew, Process, Saved, Kept, File
<1> QED
  BY <1>1, <1>2, <1>3, <1>4, <1>5, <1>6, <1>7, <1>8 DEF Serve

(* What was promised is kept by every step of the relay: its pair is not      *)
(* written again, and a start finds the token that was given.               *)
LEMMA PromisedStep ==
  ASSUME RelayTypeOK, given \in [Dialers -> Tokens \cup {NoToken}],
         Process, Saved, Promised, Serve \/ Stop \/ Renew, UNCHANGED given,
         NEW d \in Dialers, given[d] # NoToken
  PROVE  /\ disk'["crt"] = disk["crt"] /\ disk'["key"] = disk["key"]
         /\ stage' = "listen" => todo' = <<>>
         /\ Kept(given[d])'
         /\ stage' # "down" => given[d] = token'
<1>1. /\ Loads /\ Kept(given[d]) /\ given[d] \in Tokens
      /\ stage = "listen" => todo = <<>>
      /\ stage # "down" => given[d] = token
  BY DEF Promised
<1>2. disk["crt"] # Absent
  BY <1>1, Marks DEF Loads
<1>3. CASE Boot
  <2>1. AdminToken = given[d]
    BY <1>1, BootToken
  <2> QED
    BY <1>1, <1>3, <2>1 DEF Boot, Kept
<1>4. CASE Truncate \/ Write
  <2>1. stage = "keys" /\ todo = <<File("token", token)>>
    BY <1>1, <1>4 DEF Truncate, Write, Process, RelayTypeOK
  <2>2. disk["token"] \notin Tokens /\ given[d] = token
    BY <1>1, <2>1, Pending DEF Saved
  <2>3. Head(todo) = File("token", token)
    BY <2>1, Pending
  <2>4. disk' = [disk EXCEPT !["token"] = Blank] \/ disk' = [disk EXCEPT !["token"] = token]
    BY <1>4, <2>3 DEF Truncate, Write, File
  <2>5. disk'["token"] = given[d] \/ (disk'["token"] \notin Tokens /\ flag = given[d])
    BY <1>1, <2>2, <2>4, Marks DEF Kept, RelayTypeOK, Files
  <2>6. disk'["crt"] = disk["crt"] /\ disk'["key"] = disk["key"]
    BY <2>4 DEF RelayTypeOK, Files
  <2> QED
    BY <1>1, <1>4, <2>1, <2>5, <2>6 DEF Truncate, Write, Kept
<1>5. CASE Generate
  BY <1>2, <1>5 DEF Generate, HasCertificate
<1>6. CASE Load
  BY <1>1, <1>6 DEF Load, Kept
<1>7. CASE Listen \/ Stop \/ Renew
  BY <1>1, <1>7 DEF Listen, Stop, Renew, Kept
<1> QED
  BY <1>3, <1>4, <1>5, <1>6, <1>7 DEF Serve

-----------------------------------------------------------------------------
(* The relay and its dialers.                                               *)

Inv == Process /\ Saved /\ Promised /\ Recognised /\ PinnedRelayIsKnown /\ TokenStaysValid

(* A relay with clients is never stopped halfway through a new pair, so a     *)
(* fingerprint that was right stays so.                                     *)
LEMMA RightStays ==
  ASSUME disk'["crt"] = disk["crt"], issue \in Nat, issue' \in Nat, issue' >= issue,
         NEW h, NEW p, Right(h, p)
  PROVE  Right(h, p)'
<1>1. 0 .. issue \subseteq 0 .. issue'
  OBVIOUS
<1> QED
  BY <1>1 DEF Right

(* Nothing the relay does breaks what it owes to its clients.               *)
LEMMA RelayStep ==
  ASSUME TypeOK, Inv, Serve \/ Stop \/ Renew, UNCHANGED <<known, at, seen, given, losses>>,
         live' = IF stage' = "up" THEN live ELSE {}
  PROVE  Inv'
<1>1. Process' /\ Saved'
  BY ProcessStep DEF TypeOK, Inv
<1>2. \A d \in Dialers : given[d] # NoToken =>
        /\ disk'["crt"] = disk["crt"] /\ disk'["key"] = disk["key"]
        /\ stage' = "listen" => todo' = <<>>
        /\ Kept(given[d])'
        /\ stage' # "down" => given[d] = token'
  BY PromisedStep DEF TypeOK, Inv
<1>3. Promised'
  BY <1>2 DEF Inv, Promised, Loads, Kept
<1>4. issue \in Nat /\ issue' \in Nat /\ issue' >= issue
  BY DEF TypeOK, RelayTypeOK, Serve, Boot, Truncate, Write, Generate, Load, Listen, Stop, Renew
<1>5. \A d \in Dialers : at[d] \in {"check", "pin"} => Right(HostOf[d], seen[d])'
  BY <1>2, <1>4, RightStays DEF Inv, Recognised
<1>6. \A i \in DOMAIN known : Right(known[i].host, known[i].print)'
  <2> SUFFICES ASSUME NEW i \in DOMAIN known PROVE Right(known[i].host, known[i].print)'
    OBVIOUS
  <2>1. known # <<>>
    OBVIOUS
  <2>2. disk'["crt"] = disk["crt"]
    BY <1>2, <2>1 DEF Inv, Recognised
  <2> QED
    BY <1>4, <2>2, RightStays DEF Inv, Recognised
<1>7. Recognised'
  BY <1>5, <1>6 DEF Inv, Recognised
<1>8. PinnedRelayIsKnown' /\ TokenStaysValid'
  BY <1>4 DEF Inv, PinnedRelayIsKnown, TokenStaysValid
<1> QED
  BY <1>1, <1>3, <1>7, <1>8 DEF Inv

(* A relay that serves has its pair and its token on disk.                  *)
LEMMA Up ==
  ASSUME TypeOK, Inv, stage = "up"
  PROVE  /\ token \in Tokens /\ Kept(token) /\ Loads /\ disk["crt"] = pair
         /\ \A h \in Hosts : Right(h, Fingerprint(h))
<1>1. /\ token \in Tokens /\ Kept(token) /\ pair \in Pairs
      /\ disk["crt"] = pair /\ disk["key"] = pair
  BY DEF Inv, Process, Saved
<1>2. issue \in 0 .. issue
  BY DEF TypeOK, RelayTypeOK
<1> QED
  BY <1>1, <1>2 DEF Right, Fingerprint, Loads

(* The pin of a host stands in a line of known_hosts.                       *)
LEMMA LineOfPin ==
  ASSUME NEW h, NEW p \in PinOf(h)
  PROVE  \E i \in DOMAIN known : known[i].host = h /\ known[i].print = p
BY DEF PinOf

(* A dialer pins and compares the right fingerprints only.                  *)
LEMMA DialerStep ==
  ASSUME TypeOK, Inv, NEW d \in Dialers, TakeToken(d) \/ Run(d) \/ Lose(d)
  PROVE  Inv'
<1> USE DialAssumption DEF Goto
<1>1. UNCHANGED relay
  BY DEF TakeToken, Run, Connect, ReadPins, AppendPin, Admit, Broken, Lose
<1>2. UNCHANGED <<flag, disk, stage, todo, half, token, pair, issue, stops>>
  BY <1>1 DEF relay
<1>3. Process' /\ Saved'
  BY <1>2 DEF Inv, Process, Saved, Kept, File
<1>4. \A h, p : Right(h, p) => Right(h, p)'
  BY <1>2 DEF Right
<1>5. \A t : Kept(t)' <=> Kept(t)
  BY <1>2 DEF Kept
<1>6. UNCHANGED given => Promised'
  BY <1>2, <1>5 DEF Inv, Promised, Loads
<1>7. CASE TakeToken(d)
  <2>1. /\ stage = "up" /\ UNCHANGED <<known, at, seen, live>>
        /\ given' = [given EXCEPT ![d] = token]
    BY <1>7 DEF TakeToken
  <2>2. /\ \A e \in Dialers : given'[e] = given[e] \/ given'[e] = token
        /\ \A e \in Dialers : given[e] # NoToken => given'[e] # NoToken
    BY <2>1, Up, Marks DEF TypeOK
  <2>3. Promised'
    BY <1>2, <1>5, <2>1, <2>2, Up DEF Inv, Promised, Loads
  <2>4. Recognised'
    BY <1>2, <1>4, <2>1, <2>2 DEF Inv, Recognised
  <2> QED
    BY <1>2, <1>3, <2>1, <2>3, <2>4 DEF Inv, PinnedRelayIsKnown, TokenStaysValid
<1>8. CASE Connect(d)
  <2>1. Right(HostOf[d], Fingerprint(HostOf[d]))
    BY <1>8, Up DEF Connect
  <2>2. Recognised'
    BY <1>2, <1>4, <1>8, <2>1 DEF Connect, Inv, Recognised, TypeOK
  <2> QED
    BY <1>2, <1>3, <1>6, <1>8, <2>2 DEF Connect, Inv, PinnedRelayIsKnown, TokenStaysValid, TypeOK
<1>9. CASE ReadPins(d)
  <2>1. Recognised'
    BY <1>2, <1>4, <1>9 DEF ReadPins, Inv, Recognised, TypeOK
  <2>2. at'[d] = "refused" => HostOf[d] \notin Own /\ issue > 0
    <3> SUFFICES ASSUME at'[d] = "refused" PROVE HostOf[d] \notin Own /\ issue > 0
      OBVIOUS
    <3>1. PICK p \in PinOf(HostOf[d]) : p # seen[d]
      BY <1>9 DEF ReadPins, TypeOK
    <3>2. PICK i \in DOMAIN known : known[i].host = HostOf[d] /\ known[i].print = p
      BY LineOfPin
    <3>3. Right(HostOf[d], seen[d]) /\ Right(HostOf[d], p)
      BY <1>9, <3>2 DEF ReadPins, Inv, Recognised
    <3>4. HostOf[d] \notin Own
      BY <3>1, <3>3 DEF Right
    <3>5. PICK m \in 0 .. issue, n \in 0 .. issue : m # n
      BY <3>1, <3>3, <3>4 DEF Right
    <3> QED
      BY <3>4, <3>5 DEF TypeOK, RelayTypeOK
  <2>3. PinnedRelayIsKnown' /\ TokenStaysValid'
    BY <1>2, <1>9, <2>2 DEF ReadPins, Inv, PinnedRelayIsKnown, TokenStaysValid, TypeOK
  <2> QED
    BY <1>3, <1>6, <1>9, <2>1, <2>3 DEF ReadPins, Inv
<1>10. CASE AppendPin(d)
  <2>1. /\ at[d] = "pin" /\ at' = [at EXCEPT ![d] = "hello"]
        /\ known' = Append(known, [host |-> HostOf[d], print |-> seen[d]])
        /\ UNCHANGED <<seen, live, given>>
    BY <1>10 DEF AppendPin
  <2>2. Right(HostOf[d], seen[d]) /\ given[d] # NoToken
    BY <2>1 DEF Inv, Recognised
  <2>3. \A i \in DOMAIN known' : \/ i \in DOMAIN known /\ known'[i] = known[i]
                                 \/ known'[i] = [host |-> HostOf[d], print |-> seen[d]]
    BY <2>1, AppendProperties DEF TypeOK
  <2>4. \A i \in DOMAIN known' : Right(known'[i].host, known'[i].print)
    BY <2>2, <2>3 DEF Inv, Recognised
  <2>5. (\A i \in DOMAIN known : Right(known[i].host, known[i].print))'
    BY <1>4, <2>4
  <2>6. Recognised'
    BY <1>2, <1>4, <2>1, <2>2, <2>5 DEF Inv, Recognised, TypeOK
  <2> QED
    BY <1>2, <1>3, <1>6, <2>1, <2>6 DEF Inv, PinnedRelayIsKnown, TokenStaysValid, TypeOK
<1>11. CASE Admit(d)
  <2>1. given[d] = token
    BY <1>11 DEF Admit, Inv, Promised, Recognised
  <2>2. Recognised'
    BY <1>2, <1>4, <1>11 DEF Admit, Inv, Recognised, TypeOK
  <2> QED
    BY <1>2, <1>3, <1>6, <1>11, <2>1, <2>2
       DEF Admit, Inv, PinnedRelayIsKnown, TokenStaysValid, TypeOK
<1>12. CASE Broken(d)
  <2>1. Recognised'
    BY <1>2, <1>4, <1>12 DEF Broken, Inv, Recognised, TypeOK
  <2> QED
    BY <1>2, <1>3, <1>6, <1>12, <2>1 DEF Broken, Inv, PinnedRelayIsKnown, TokenStaysValid, TypeOK
<1>13. CASE Lose(d)
  <2>1. Recognised'
    BY <1>2, <1>4, <1>13 DEF Lose, Inv, Recognised
  <2> QED
    BY <1>2, <1>3, <1>6, <1>13, <2>1 DEF Lose, Inv, PinnedRelayIsKnown, TokenStaysValid
<1> QED
  BY <1>7, <1>8, <1>9, <1>10, <1>11, <1>12, <1>13 DEF Run

(* Nothing is promised at the start.                                        *)
LEMMA InvInit == Init => TypeOK /\ Inv
<1> SUFFICES ASSUME Init PROVE Inv
  BY TypeInit
<1> USE DEF Init, RelayInit
<1>1. Process /\ Saved
  BY DEF Process, Saved
<1>2. Promised /\ Recognised
  BY DEF Promised, Recognised
<1> QED
  BY <1>1, <1>2 DEF Inv, PinnedRelayIsKnown, TokenStaysValid

(* Every step keeps the invariant.                                          *)
LEMMA InvStep == TypeOK /\ Inv /\ [Next]_vars => Inv'
<1> SUFFICES ASSUME TypeOK, Inv, [Next]_vars PROVE Inv'
  OBVIOUS
<1>1. stage # "up" => live = {}
  BY DEF Inv, Recognised
<1>2. CASE (Serve \/ Renew) /\ UNCHANGED dialers
  <2>1. stage = "up" => stage' = "up"
    BY <1>2 DEF Serve, Boot, Truncate, Write, Generate, Load, Listen, Renew, Inv, Process
  <2> QED
    BY <1>1, <1>2, <2>1, RelayStep DEF dialers
<1>3. CASE Stop /\ live' = {} /\ UNCHANGED <<known, at, seen, given, losses>>
  BY <1>3, RelayStep DEF Stop
<1>4. CASE \E d \in Dialers : TakeToken(d) \/ Run(d) \/ Lose(d)
  BY <1>4, DialerStep
<1>5. CASE UNCHANGED vars
  BY <1>5 DEF vars, relay, dialers, Inv, Process, Saved, Promised, Recognised, Kept, Right,
              Loads, File, PinnedRelayIsKnown, TokenStaysValid
<1> QED
  BY <1>2, <1>3, <1>4, <1>5 DEF Next

(* The invariant holds throughout.                                          *)
LEMMA Invariance == Spec => [](TypeOK /\ Inv)
<1>1. TypeOK /\ Inv /\ [Next]_vars => (TypeOK /\ Inv)'
  BY InvStep, TypeStep
<1> QED
  BY InvInit, <1>1, PTL DEF Spec

(* However often the relay ends, at any step of its start too, and however    *)
(* many clients pin it at once: no client that dials it by its address ever  *)
(* takes it for another, and one that dials its domain only after ACME has   *)
(* renewed the certificate.                                                 *)
THEOREM NeverTakenForAnother == Spec => []PinnedRelayIsKnown
BY Invariance, PTL DEF Inv

(* A relay that has served has a pair on disk that its next start loads.     *)
THEOREM NeverBricked == Spec => []ServedPairLoads
<1>1. Inv => ServedPairLoads
  BY DEF Inv, Promised, ServedPairLoads
<1> QED
  BY Invariance, <1>1, PTL

(* No client is ever denied for the token it was given: every start after     *)
(* the one it was given by finds the same.                                  *)
THEOREM TokenKept == Spec => []TokenStaysValid
BY Invariance, PTL DEF Inv
=============================================================================
