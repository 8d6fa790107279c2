# Verification of mrok

mrok is a reverse tunnel. A *relay* (`mrok serve`, `internal/server`) runs on a public host. A *client*
(`mrok http`, `mrok tcp`, or the login agent `mrok up`; `main.go`, `internal/client`) keeps one TLS
connection to it, says which name it wants, and the relay splices visitors of that name onto yamux streams
of the connection; the client splices each stream to a service of its own machine.

This directory holds TLA+ modules of the parts of mrok that are concurrent or that recover from failures,
the TLC configurations that check them on small instances, and proofs that TLAPS checks.
`PROJECT.json` lists components, runs, mutants, hazards, findings and theorems, and gives for every
definition the lines of the source it models.

    tlc -workers 2 -config relay_core.cfg MCRelay     # every run of the table below
    tlapm RelayProofs.tla                             # the same for EndToEnd and the other *Proofs modules

## Inventory

| part | state | operations | talks to |
|---|---|---|---|
| relay control plane: `handleConn`, `register`, `drop` (`server.go`) | `tuns` (id → tunnel), `tcp` (reserved ports), the fields `Session`, `TCPLn`, `TCPPort` of a tunnel | one goroutine per control connection: Hello, register, Welcome, attach, wait, drop | clients (frames, yamux), listeners, public front, all through the two tables |
| TCP listeners: `listenTCP` | a socket of the host, `TCPLn` | bind, publish, accept, serve or refuse | table, TCP splices |
| public front: `chanListener`, `ServeHTTP`, `route` | the channel of 64 connections | handshake, Enqueue, Accept, route, look up, open a stream | table (read only), splices |
| data plane: `splice` twice, `handleStream` (`client.go`) | four copy goroutines per visitor, two connections, one stream | copy, half-close, close | visitor, backend, yamux |
| supervisor: `runClient`, `runUp`, `runLoop` (`main.go`) | lock files, `tunnels.json`, the goroutines of the agent | lock, dial, save, serve, dial again | relay, other mrok processes through the file system |
| saved tunnels and locks (`autostart`) | `tunnels.json`, `<name>.lock` | Load, Find, Upsert, Save, TryLock | |
| certificates: `tlsConfig`, `allowHost`, `precacheCert` | autocert's cache | choose, issue | autocert |
| relay lifecycle: `runServer`, `ListenAndServe` | the token file, the process | find or draw the admin token, load or create the key pair, serve, end, start again | service manager, file system |
| relay keys, pinning (`tlsutil`) | `server.crt`, `server.key`, `known_hosts` | LoadOrCreate, CheckTOFU | file system |
| tunnel client: `Dial`, `Serve` (`client.go`) | one connection | resolve, handshake, compare pins, Hello, Welcome, serve | relay, `known_hosts` |
| names (`idgen`), addresses (`config`), command line (`main.go`), frames (`proto`) | none | pure functions | |
| login start-up, installer, deployment | service files | written once | the system's tools |

What is hard here:

* **One table, many goroutines that know names and not tunnels.** `drop(id)`, the attachment of a session
  and the listener's lookup all act on *the tunnel the table holds now* under an id. A client that comes back
  replaces its own tunnel while the goroutines of the old one are still at work. (Relay)
* **Fields read outside the lock.** `Session` and `TCPLn` are written by one goroutine and read by others
  after the tunnel has left the table. (Relay, Front)
* **Ends that must travel.** The end of an answer crosses three connections and two processes by way of four
  copies that end separately, and a stream can be closed but not half-closed. (Splice)
* **Several processes over one file**, written in place, with locks named after the tunnels in it. (Agents)
* **Files written before they are relied on.** A relay is known to its clients by a key pair and a token that it
  draws itself; each is saved in several steps, and the process may end between any two of them. (Lifecycle, Dial)
* **Crashes, broken sessions, retries** of all of these. (Agents, Dial, Splice)

What makes each part correct is stated by the properties below; the hazards of `PROJECT.json` name the
lines where the parts could go wrong.

## Modules

| module | models | lines |
|---|---|---|
| `NameService` | the contract: a name is held by its newest claim until it is withdrawn, at most `MaxTunnels` are held, a port is leased to a claim and returned only when the claim no longer holds its name | abstract |
| `TunnelTable` | the table of tunnels as those see it that only read it: which tunnel an id leads to, its protocol and its session | `server.go` 59–66, 328–332, 424–490 |
| `Relay` | control plane and TCP listeners; implements `NameService` and `TunnelTable` | `server.go` 87–93, 301–337, 388–498, 728–775 |
| `MCRelay` | instances of Relay | |
| `RelayProofs` | safety and the two refinements of Relay | |
| `Pipe` | the contract of a splice to its two ends: nothing invented, nothing after the end, nothing missing before it unless the pipe broke | abstract |
| `Splice` | one visitor of an HTTP or TCP tunnel, from its connection to the backend and back; implements `Pipe` | `server.go` 649–782, `client.go` 164–203 |
| `SpliceProofs` | nothing is cut off an answer or a request; refinement of Splice | |
| `Front`, `MCFront` | a visitor's HTTP(S) request up to its stream, over `TunnelTable` | `server.go` 125–300, 340–370, 501–663 |
| `FrontProofs` | what a visitor is spliced to, that it gets there, and with which path | |
| `EndToEnd` | Relay and the visitors of Front over one table: the composition and its theorems | |
| `Agents`, `MCAgents` | the client processes and the login agent of one machine | `main.go` 140–312, `autostart.go` 34–120, `lock_unix.go` |
| `AgentsProofs` | locks keep the processes of a machine from evicting each other; what is ephemeral is not saved | |
| `Lifecycle` | the relay's process: token, key pair, serving, the end at any step and the next start | `main.go` 314–400, `tlsutil.go` 39–94, `server.go` 193–258 |
| `Dial`, `MCDial` | clients that dial this relay, pin it and come back; composes Lifecycle | `client.go` 99–161, `tlsutil.go` 96–130, `server.go` 149–176 |
| `DialProofs` | a relay that was stopped and started again is the relay that its clients know | |
| `Addresses` | `ParseServer` and `ResolveServer`, against what a text spells | `config.go` 62–92, `client.go` 37–50 |
| `Names` | `Normalize` and `Valid`, against what register promises and the front accepts | `id.go` 18–60 |
| `OperatorProofs` | Names and Addresses for texts of every length | |
| `CommandLine` | `splitPortArgs` and the flags of runClient, against what a line means | `main.go` 105–147, 409–432 |
| `CommandLineProofs` | CommandLine for lines of every length | |

### Relay

`handleConn` makes at most one tunnel and one session, so a connection `c` also names its tunnel and its
session: `tuns[n] = c` is "`tuns[n]` points to the tunnel of `c`", `session[t] = c` is "`Session` of tunnel
`t` is the session of `c`", and the two may differ. `pc` is where the goroutine of a connection is:

| stage | code | left by |
|---|---|---|
| `hello` | up to the critical section of `register` (302–460) | `RegisterHTTP`, `RegisterTCP`, `RegisterNoPort`, `Reject`, `HelloFails` |
| `evict`, `spawn` | `register` after the lock: the old tunnel's session and listener are closed, `listenTCP` is started (462–475) | `EvictSession`, `Spawn` |
| `welcome` | writing the Welcome, `yamux.Server` (316–327) | `Welcome`, `WelcomeFails` |
| `attach` | the critical section that stores the session (328–332) | `Attach` |
| `up` | `<-sess.CloseChan()` (334) | `DropTunnel` |
| `drop`, `dropsess`, `dropln`, `dropport` | `drop` (478–498) | `DropTunnel`, `DropSession`, `DropListener`, `FreePort` |

A step is a critical section, or the stretch between two of them that touches one shared object.
`allocTCP` runs inside `register`'s critical section and is part of the Register actions. `HelloFails` stands
for a failed handshake, an unreadable Hello and the deadlines. `TCPLn` is nil until `PublishTCPLn`; a
goroutine that read it just before behaves as one that ran before that step, so unsynchronised reads of `TCPLn`
add no behaviour, and the same holds for `Session` and `Attach`. A session is `open` or `closed`; `PeerCloses`
is every reason that lies with the network or the client.

What `handleConn` attaches may be the session of a connection that asked for the other protocol under the same name:
`id` and `drop` know names only. So `NameIsolation`, `PortsReachOwners` and `StreamsReach` speak of whom a name belongs
to, and of nothing finer, because the code does not keep anything finer.

### Splice

Six links (two TCP connections and one stream, two directions each) carry chunks; `fin` says that the
writer has ended a link behind its data, `gone` that the reader has closed it. A copier reads a chunk, writes it,
and stops at the end of its input or when a write fails; `HalfClosed` says where `closeWrite` has an effect:
on TCP connections, never on a stream. The HTTP handler returns after both copies, the TCP handler after one.
Abstractions: chunks and not bytes; a header is part of the first chunk; the `502` of a relay that cannot open a stream
ends the handler and leaves the visitor's connection, which is not hijacked yet, to the HTTP server (`OpenFails`), while a client
that cannot dial its backend only closes the stream; the stream's close timeout is the failing write of a link whose reader
has gone; a reset that destroys data the peer has not read yet is not modelled, so `AnswerComplete` does not
speak about TCP stacks. A visitor of a *TCP* tunnel who shuts down its sending side loses what the backend still
had to send, because that handler returns after its first copy; nothing promises otherwise.

To its ends a splice is a `Pipe`: `sent` and `got` are the same, what an end has ended is `fin` of the link it writes, and
it is a reader that is still reading, at the end or gone (`Reader`). The pipe counts as broken (`Broken`) for TCP tunnels, once the
session is down, and when the handler returned before it spliced.

### Front

A host is classified by what `allowHost`, `isApex` and `route` can tell apart (under the base, deeper, the
base, an address, another domain, without a dot) with its first label; a path is a sequence of segments.
The stages of a request are the places where `ServeHTTP` needs the table: `path` and `label` in `route`,
`lookup`, and `open` where the tunnel found before is used. The table changes in between as `TunnelTable` lets it,
which Relay implements (`table <- tuns, tid <- id`, with the protocol and the state of the session that is stored): register puts a tunnel that
was not there before under an id, handleConn stores a session, drop takes a tunnel out. A visitor follows redirects and sends the host as its server name.
`Rewrite` follows `HasPrefix`, which does not stop at the end of a segment: `/v1/v1x` becomes `/v1x`. Nothing says what such
a path should become, so `PathArrives` speaks of paths whose only segments that begin with `v1` are `v1` itself.
Left out: failing issue of an allowed certificate, `chanListener.Close` (called when the process is about to
end), query strings and raw paths. The host `mrok` gets the relay's own certificate like an address; hosts
without a dot are otherwise all alike and the model gives them none.

### Agents

A runner is a client process or the agent's goroutine for one saved name. `Upsert` is three steps: read,
truncate, write; what a shorter text leaves of a longer one does not parse, and `Load` takes it for no tunnels.
`lock` is `flock` of `lock_unix.go`, which the kernel releases when a process ends; `lock_windows.go`, which
only opens the file, is the mutant `TryLockOpens`. The relay is what runners see of it: a registration ends the
session of the previous tunnel of its id. Random names may coincide (in the code this is improbable, not
excluded). Of a saved URL the model keeps whether there is one, which decides what a refused client prints
(`Announced`). Token and server of a saved tunnel, failing disk writes and backoff times are left out, and so are lock files that
`TryLock` cannot create or open: the code reports these as "already running", too.
What the clients of the runs want (`Wants`) is what `CommandLine` makes of typed lines.

### Lifecycle and Dial

`stage` is how far a relay's process is: `keys` once `runServer` has its token, `listen` once `ServerTLS` has its
pair, `up` once `ListenAndServe` serves. `todo` is the list of `os.WriteFile` calls before it, each of which truncates
and then writes (`half`). What the n-th process draws is the number n, so that two draws are never alike. `Stop` is
every end of the process, `Serve` its next step: the unit file has `Restart=always`. A pair that does not load
ends the process before it serves, at every start; this can happen to a relay that was killed between its first
two writes, before anyone knew it, and must not happen later (`ServedPairLoads`).

A dialer is one client process with runLoop around Dial: `check`, `pin`, `hello` and `up` are the handshake, the
decision of `CheckTOFU`, its append to `known_hosts`, and the session. `known` is the file as all processes of a machine
share it; the first line of a host counts. A user is given the token that the relay serves under (`TakeToken`) and
passes it from then on. An address (`Own`) is answered with the relay's own pair, a domain with the certificate of
autocert, of which there is another after `Renew`. `at = "refused"` is an error of `CheckTOFU`, `"denied"` one of
register.

### Addresses, Names, CommandLine

Operators, each with a property that compares them with a reference that is written from what the
result is used for and not from the code. A text is a sequence of the pieces that the code tells apart; an argument
is a tuple of a flag and its value. `Means` is what an address says (a host, a port or the one of its scheme, TLS or
not), `Meant` what a command line says once it is cut into a port and flags (`Cut`): nothing in them looks
for an argument as `splitPortArgs` does. TLC compares over bounded inputs, OperatorProofs and CommandLineProofs for all. `MCDial` and `MCAgents` state these properties of the initial states
(`Init => ...`), which is how TLC reports a constant-level formula that fails as a violated invariant.

## Runs

| run | expects | what it shows |
|---|---|---|
| `relay_core` | pass | 3 connections, 3 names of which one is short, 1 port, table of 2; hellos for every outcome of `register`. Sessions are wired to tunnels of their own id (`NameIsolation`); every entry has a handler that will drop it (`NoGhostEntry`); no late drop gives away a port in use (`PortExclusive`); no step loses a port, that is leaves it reserved for a tunnel which nobody will take apart, but the take-over of the tunnel's name or an `allocTCP` that fails in place of one (`PortsAccountedFor`); a removed tunnel is taken apart by one goroutine (`OneUndertaker`); every socket has its accept loop (`NoOrphanSocket`); `Capacity` |
| `relay_live` | pass | 2 connections, 2 ports, one held by another process: refinement of `NameService` and of `TunnelTable`; whoever is served at a TCP port is served by a connection that asked for the name the port was given to (`PortsReachOwners`); a session's end finishes its handler and takes its own tunnel out (`SessionEndReleases`); the session of a removed tunnel is shut down (`RemovedSessionEnds`); a dropped tunnel's port returns (`DroppedPortReturns`) |
| `relay_routed` | violation | `UpMeansRouted`: a welcomed client can keep an open session to which no host leads |
| `relay_listener` | violation | `ListenerSurvivesVisitors`: a visitor before the attachment ends the port of a registered tunnel |
| `splice_core` | pass | both kinds of splice, 2 chunks each way, half-closes, departures, failing dials, a dying session: to its ends it is a `Pipe` (`ImplementsPipe`); nothing is cut off an HTTP answer or request while the session lives; dead sessions and ended TCP visitors end both sides; each handler's end reaches the other |
| `splice_end` | violation | `EndOfAnswerArrives`: the end of a backend's answer need not reach a visitor who keeps its side open; the two handlers go on waiting for each other after the visitor has left, as long as the session lives |
| `front_core` | pass | one visitor with each of 13 kinds of request beside a second one over a channel of capacity 1, two tunnels to register under two ids, one of which is the base's own first label: a request is spliced to what it names (`SplicedToWhatIsNamed`), a tunnel that stays up is reached (`SteadyTunnelIsReached`), the path arrives with repeated `/v1` folded into one and nothing else cut off but the tunnel's own id (`PathArrives`), no request circles or is lost (`EveryRequestEnds`) |
| `agents_core` | pass | 2 clients and the agent, canonical names, 2 kills, breaking sessions: `NoLocalTakeOver`, `EphemeralIsNotSaved`, `SavedGetsServed`, `ClientSettles`; and every line of up to four arguments, however it is cut into a port and flags, is understood as it is meant (`LineUnderstood`) |
| `dial_core` | pass | 3 clients, two of which dial the relay's address and one its domain, 2 stops of the relay, 1 lost connection, 1 renewal, with and without `--token` in the unit file: the relay is never taken for another (`PinnedRelayIsKnown`), its pair loads once it has served (`ServedPairLoads`), the token it was known by stays valid (`TokenStaysValid`), whoever dials its address gets through again after every stop (`ClientsComeBack`); and `ServerUnderstood`, `IdsServed` of the pure operators |
| `agents_double` | violation | `NoLocalTakeOver` for a name typed in capitals: the lock is named as typed, the tunnel saved as normalised |
| `agents_stale` | violation | `AlreadyRunningIsTrue`: a saved tunnel keeps its URL when its service is changed, and the message names a port that is not served |
| `agents_lost` | violation | `SavedStaysSaved`: two processes that save at once lose a tunnel |

The violations are disagreements between the code and what the repository says of it; `findings` quotes both.
Every property of a passing run is falsified by a mutant of a modelled definition (`PROJECT.json`, `mutants`);
the mutants stand in the modules above the definitions they change.

**Bounds.** A take-over involves two connections; the third in `relay_core` registers, on the same or another
name, while one of the first two is still dropping the other's tunnel, and a table of two makes it full. One
port makes `allocTCP` fail after the old tunnel is deleted. Two chunks are what it takes to have one in a
goroutine's hands and one behind it. In `front_core` two registrations give a replaced tunnel of one id, or
tunnels under both labels that an apex request may mean; visitors meet only in the channel. In `agents_core`
two clients and the agent make a holder, a loser and a writer of the file; two kills make a crash during the
recovery from a crash. In `dial_core` two stops cut one start short and end the next one after it has served, which is what it
takes to lose a token or a key that was handed out; two dialers of one host race for its pin, and a renewal changes the
certificate of the third's host. Names of up to five characters with `MaxLen = 4` reach both ends of the length that
is allowed; command lines have up to four arguments of each kind, in every order; addresses have every
combination of scheme, port, blanks, slashes and comments, behind two sources without an address.
`MaxSent`, the number of Front's `Tunnels`, `MaxKills`, `MaxStops`, `MaxLosses` and `MaxRenewals` bound counters for TLC only.

**Symmetry** is used in `relay_core` alone (connections, and the ids no Hello names), which checks no liveness.

**Fairness.** Goroutines that can run do run: weak fairness on each handler, listener, copier and runner. Relay
assumes nothing of clients and visitors. Splice assumes that visitor and backend read what arrives and
leave when they have read its end; nothing makes them send, shut down or leave earlier. Front needs strong
fairness of a connection that waits for room in the channel, since others may take it: Go serves blocked senders
in order. Agents assumes that the ticker of `runUp` ticks and that a dial that is retried succeeds in the
end, i.e. that the relay can be reached and grants the name. Dial assumes that the service manager starts the relay
again (`deploy/mrok.service`) and that goroutines run; stops, losses and renewals may happen and are finitely many.
Its dialers try again after a refusal by `CheckTOFU` or register as after any failed dial, since runLoop makes no difference. Deadlock is not checked where connections,
splices, requests or processes are finitely many and all may be over.

## Proofs

`RelayProofs`, for all sets of connections and names, port ranges, table sizes and Hellos that meet
`RelayAssumption` (null values are no connections or names; `Names` is finite, which only `Capacity` needs):

* `TypeCorrect`, `NamesAreIsolated`, `NoGhosts`, `PortsAreExclusive`, `UndertakersAreUnique`,
  `SocketsAreOwned`: `Spec => []P` for the invariants of `relay_core`. None is inductive alone. `PortExclusive`
  needs that a drop frees only ports of tunnels that have left the table (`OneUndertaker`) and whose port was
  still theirs (`Undertaking`); `OneUndertaker` needs that whatever is in the table was put there by a
  handler that is past `hello` and under its own id (`NoGhostEntry`, `Named`); `NameIsolation` needs that a
  connection's id and session do not exist before it registers (`Fresh`). `IInv` is the conjunction. `Next` is sorted
  into steps of listeners, steps that only move a handler on, and steps that change the tables
  (`NextSorted`), one lemma each.
* `PortsAreAccountedFor`: the action property `PortsAccountedFor`, for which `IInv` is joined by `Leased` (a port is reserved for
  the tunnel that has it). A step that leaves a tunnel without a place in the table or in a drop's hands is a drop that
  has just freed its port (`DropGoesOn`), or it took the tunnel out of the table; then it is the beginning of a drop or
  a step of another handler that registers the name (`LeavesAccounted`). A port that is newly reserved is that of the
  tunnel which is inserted (`NewLease`). `KeepsPorts` joins them.
* `CapacityHolds`: `Capacity` is inductive with the types, since the limit is tested in the critical section
  that inserts.
* `Refinement`: `Spec => NS!Spec` under `holder <- tuns, claim <- id, lease <- tcp`. A registration is a
  `Claim`, `DropTunnel` and a failed `allocTCP` a `Withdraw` or a stutter, `FreePort` a `ReturnPort`, for which
  `IInv` gives that the tunnel has left the table.
* `TableRefinement`: `Spec => TT!TableSpec`, the table that Front reads. A step of a listener is a stutter; a registration
  is a `Register` (of a tunnel that has no id before, by `Fresh`), the `Attach` of a handler is an `Attach` or finds no tunnel, and
  every step that ends a session is a `SessionEnds` of one tunnel or of none. The last needs the invariant `Wired`: a
  session is stored in at most one tunnel, and by a handler that has passed `attach`.
* `PortsReach`: `PortsReachOwners`. A listener that has started belongs to a connection with an id (`Heard`); what it finds
  under that id has the id (`NoGhostEntry`), and so has the connection whose session is stored there (`NameIsolation`).

`AgentsProofs`, under `AgentsAssumption`; the second theorem under the further hypothesis `NamesAreIds`, that no two
names are normalised to one id:

* `TypeCorrect`: the type invariant. Its substance is that Find returns a saved tunnel (`MinIsMember`,
  `FirstIsTunnel`) and Upsert leaves a file of tunnels (`UpsertedIsFile`), so that what is locked is a name.
* `LocksPreventTakeOver`: `NoLocalTakeOver`. The invariant is `LockDiscipline` (whoever dials, updates or serves has
  the lock of its name; whoever has a session does one of these) with `SavingInPlace` (an Upsert ends where it was
  called, so it cannot carry a runner past the lock). With them two runners of one id have one name, hence
  one lock (`OneRunnerPerId`), and a registration evicts nobody. `agents_double` shows that the assumption
  about names is needed: the code does not establish it.

`FrontProofs`, under `FrontAssumption`:

* `TypeCorrect`: the type invariant, with `RewriteIsPath` for the loop of `rewriteOpenAIPath`.
* `VisitorsReachWhatTheyName`: `SplicedToWhatIsNamed`. The invariant says what `route` has made of a request at each
  of its stages (`Routed`), that the tunnel a request holds is an older tunnel of its id, for HTTP (`Kept`), that what the table holds
  under an id has it (`Keyed`), and that a connection in the channel is there once and nowhere else
  (`Waiting`), so that what is accepted is what was sent.

* `SteadyTunnelsAreReached` and `PathsArrive`: `SteadyTunnelIsReached` and `PathArrives`, from a second invariant on top of
  the first (`Owed`). What the table does is used through two lemmas about any step of `TunnelTable` (`TableKeeps`, `TableChangesInv`). A tunnel that is steady for a visitor is up, and the request that names it is at `lookup` with its
  id, at `open` with its tunnel, or answered by it; it is never at `label`, where the table could send it elsewhere. The
  path is the one asked for until the lookup, but for an id that was found at its head, and what comes after is
  `Rewrite` of it, which folds: it cuts off each `/v1` in front of another and keeps the last (`RewriteFolds`, by the maximality of
  what it cuts off and without induction).

`AgentsProofs` has a second invariant as well (`SInv`): the file, the buffers of Upserts under way, and the
tunnels of runners that will save hold only services that may be saved. `EphemeralStaysUnsaved`: `EphemeralIsNotSaved`, in
which an agent that adopts a tunnel from the file and saves it again adds nothing.

`SpliceProofs`, under `SpliceAssumption`, for every number of chunks:

* `TypeCorrect`, and `AnswersAreComplete`, `RequestsAreComplete` for `AnswerComplete`, `RequestComplete`. The invariant counts:
  along a direction, what was sent is what was received, is on the links or in a goroutine's hand, as long as nobody
  on the way has left (`Counted`, `Up`, `Down`); and a copy that has ended has left nothing behind, unless its output
  was gone (`Ordered`). So the end of an answer can only follow all of it.

* `PipeRefinement`: `Spec => Pipe!Spec` for both kinds of tunnel. `PipeHolds` reads off the invariant that an end has
  received no more than was sent, and all of it at an end that is read over an unbroken pipe. A step of the splice is then one of
  the pipe's, or is not noticed (`Unnoticed`), or is the one by which an end comes to read the end (`EndIsRead`): the end of
  the last copy in either direction, or the return of either handler.

`EndToEnd` puts Front's visitors on Relay's table: `Together` is Relay's `Init` and `Next` with the visitors' steps of Front in
between, over `tuns`, `id`, `hello` and `session` themselves. Under `RelayAssumption`, and `V!FrontAssumption` for the theorems
about visitors:

* `FrontImplemented`: `Together => V!Spec`, so that everything proved of Front holds of the composition; that what is proved of Relay
  does, too, is how `Together` is made (the lemma `RelayRuns`). A step of the relay changes Front's
  table as `TunnelTable` allows (the step lemma of `TableRefinement`) or not at all, and then no steady tunnel ceases
  to be one (`RelayMovesSeen`).
* `StreamsReach`: `StreamsReachOwners`, which neither module can state alone. A stream is opened on the live session of a connection that
  registered a name which the visitor's request names, however often the tunnel was replaced, dropped or rewired since
  `ServeHTTP` looked it up. Front's invariant gives that the tunnel has the id of the request, Relay's that the session it is wired to
  is of a connection with this id.

The composition is not a run of TLC: its two halves are (`relay_live`, with the refinement of `TunnelTable`, and `front_core`, over
it).

`OperatorProofs` and `CommandLineProofs`, under `NamesAssumption`, `AddressesAssumption` and `CommandLineAssumption` (letters, capitals
and the other characters are different; a port is no mark, a word no flag): what TLC compares on bounded inputs holds for
inputs of every length. None of it is an induction over the text: the code trims, finds the first of something and cuts there, so each proof
names the least and the greatest position that counts.

* `NamesAreServed`: for every text, an id that Normalize grants is valid, is granted again as it is, and is the id of any spelling of
  the text that differs in case and blanks around it.
* `AddressesAreRead`: whatever blank lines precede an address and whatever slashes, blanks or lines follow it, ParseServer reads
  its host and port. `ServersAreResolved`: of any number of sources, ResolveServer takes the first that is neither empty nor a
  comment.
* `LinesAreUnderstood`: for every line of arguments and every way to cut it into a port and flags, splitPortArgs and the
  flag package come to what is meant. The argument that splitPortArgs takes out is the one port of the cut (`CutIs`), and without
  it the flag package reads to the end (`AllParsed`, `FlagsAround`).
* `TypedNamesAreServed`, `AddressesAreUnderstood`, `LinesTriedAreUnderstood`: the properties of the runs, as instances.

`DialProofs`, under `LifecycleAssumption` and `DialAssumption`, for every number of clients, hosts, stops, losses and renewals:

* `TypeCorrect`; `NeverTakenForAnother`, `NeverBricked`, `TokenKept` for `PinnedRelayIsKnown`, `ServedPairLoads`, `TokenStaysValid`.
  The invariant has four parts: `Process` (what is still to be written at each stage of a start), `Saved` (what the
  disk holds by then, above all that a relay in use has written the pair and the token it uses, or has the
  token in its unit file), `Promised` (to those who were given the token: the pair loads, and any start will find
  the same token) and `Recognised` (every fingerprint under way to `known_hosts` or in it is right for its host).

Only model-checked: the liveness properties, `SessionEndReleases`, `RemovedSessionEnds`, `DroppedPortReturns`, `SessionEndsSplice`,
`TCPSpliceEnds`, `AgentEndReachesVisitor`, `RelayEndReachesAgent`, `EveryRequestEnds`, `SavedGetsServed`, `ClientSettles` and
`ClientsComeBack`. They rest on fairness and ENABLED, which the prover does not handle. Every invariant and every action
property of a passing run, and each of the three refinements, is a theorem (`NoLocalTakeOver` under `NamesAreIds`).

## Not modelled

* Issuing of certificates: autocert and singleflight. Which hosts get one is in Front; that a domain's certificate
  changes is `Renew`. After that every client that dials by domain refuses the relay, for good: `PinnedRelayIsKnown`
  says that nothing else makes a client refuse it.
* A token file that cannot be written (`main.go` 349): the error is dropped and the token lives as long as
  the process. A crash between the first two writes of a key pair, after which the relay never starts: nobody
  has seen its certificate by then.
* `--insecure`, plain dialers, clients without a token: they compare nothing. A relay that accepts and stays silent:
  Dial has no deadline for the Welcome.
* Frames: a frame that cannot be read or written is a failing step of Relay. Bracketed IPv6 addresses without a port, which
  ParseServer leaves for Dial to refuse. Command lines that are malformed, for which the flag package exits.
* `config.Load` and `Save`: one file, read at the start.
* Service files, installer and deployment scripts: I/O that runs once.

## What is left

* A composition of Relay with the runners of Agents, for clients of two machines that want one name; with the present
  modules its parts are covered one by one (`relay_routed` shows what a client that comes back may find).
* Pipe composed with EndToEnd, so that the stream which `StreamsReach` speaks of is the one that a splice carries: Splice
  begins where Front ends, at `OpenStream`, and nothing that happens to the table later reaches it but the end of the session.
* Two saved tunnels of one name: a hazard without a promise in the code or the documents that a property could state.
  The ports that take-overs keep: `PortsAccountedFor` says that no other step loses one, and nothing that they come back.
