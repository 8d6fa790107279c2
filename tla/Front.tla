-------------------------------- MODULE Front -------------------------------
(***************************************************************************)
(* The public front of the relay (internal/server/server.go): a visitor's  *)
(* request from the connection to :80 or :443 to the stream it is given,   *)
(* or to the answer that turns it away.                                    *)
(*                                                                         *)
(* ServeHTTP reads the table of tunnels up to three times, under the lock  *)
(* each time and with nothing held in between: the table changes in the    *)
(* meantime as module TunnelTable says.                                    *)
(***************************************************************************)
EXTENDS Integers, SequencesExt, TunnelTable

CONSTANTS
  Visitors,    \* requests in the making
  Others,      \* labels that idgen.Valid refuses; it accepts Ids
  Cased,       \* those among them that it accepts in lower case
  BaseLabel,   \* the first label of PublicBase
  Requests,    \* what each visitor may ask for
  ACME,        \* Server.acme # nil
  QueueCap     \* capacity of chanListener.ch

(* A host is <first>.<base>, <first>.<more>.<base>, the base itself, an      *)
(* address (as is localhost), <first>.<another domain>, or has no dot.      *)
Labels   == Ids \cup Others
Segments == Labels \cup {"v1", "v1x", "healthz"}
Host     == [kind : {"sub", "deep", "base", "addr", "other", "bare"}, first : Labels]
Request  == [tls : BOOLEAN, read : BOOLEAN,      \* GET, HEAD or OPTIONS?
             host : Host, path : Seq(Segments)]

ASSUME FrontAssumption ==
  /\ Ids \cap Others = {} /\ Cased \subseteq Others
  /\ BaseLabel \in Labels
  /\ "healthz" \notin Ids                          \* reserved by Normalize
  /\ Requests \in [Visitors -> SUBSET Request]
  /\ \A v \in Visitors : \A q \in Requests[v] : q.host.kind = "base" => q.host.first = BaseLabel
  /\ ACME \in BOOLEAN
  /\ QueueCap \in Nat \ {0}

VARIABLES
  queue,     \* chanListener.ch
  pc,        \* where a request is
  req,       \* what a visitor asks for; tls is set by a redirect
  id, path,  \* what route and the rewriting have made of it
  tunnel,    \* the tunnel that ServeHTTP has looked up
  answer,    \* how the request ended
  steady     \* ids whose tunnel has been up since the request was sent

vars == <<relay, queue, pc, req, id, path, tunnel, answer, steady>>

routing == <<id, path, tunnel>>

Answers == {"", "stream", "landing", "not found", "busy", "no tls", "api", "ok"}

TypeOK ==
  /\ TableType
  /\ queue   \in Seq(Visitors) /\ Len(queue) <= QueueCap
  /\ pc      \in [Visitors -> {"idle", "connect", "queued", "request",
                               "path", "label", "lookup", "open", "done"}]
  /\ req     \in [Visitors -> Request]
  /\ id      \in [Visitors -> Ids \cup {NoId}]
  /\ path    \in [Visitors -> Seq(Segments)]
  /\ tunnel  \in [Visitors -> Tunnels \cup {NoTunnel}]
  /\ answer  \in [Visitors -> Answers]
  /\ steady  \in [Visitors -> SUBSET Ids]

Init ==
  /\ TableInit
  /\ queue   = <<>>
  /\ pc      = [v \in Visitors |-> "idle"]
  /\ req     \in [Visitors -> UNION {Requests[v] : v \in Visitors}]
  /\ \A v \in Visitors : req[v] \in Requests[v]
  /\ id      = [v \in Visitors |-> NoId]
  /\ path    = [v \in Visitors |-> req[v].path]
  /\ tunnel  = [v \in Visitors |-> NoTunnel]
  /\ answer  = [v \in Visitors |-> ""]
  /\ steady  = [v \in Visitors |-> {}]

-----------------------------------------------------------------------------
(* The relay's other half.                                                  *)

Up(i) ==
  /\ table[i] # NoTunnel
  /\ kind[table[i]] = "http" /\ session[table[i]] = "open"

(* A tunnel is steady no longer when it is replaced, dropped or cut off.     *)
TableChanges ==
  /\ TableNext
  /\ steady' = [v \in Visitors |-> {i \in steady[v] : table'[i] = table[i] /\ Up(i)'}]
  /\ UNCHANGED <<queue, pc, req, routing, answer>>

-----------------------------------------------------------------------------
(* Where a host leads, without the table.                                   *)

Valid(l)  == l \in Ids
IsApex(h) == h.kind \in {"base", "addr"}
Dotted(h) == h.kind # "bare"

(* allowHost: certificates are issued for the base and for ids under it, in  *)
(* any case; route compares a host as it is spelled.                        *)
AllowHost(h) ==
  h.kind = "base" \/ (h.kind = "sub" /\ h.first \in Ids \cup Cased)

(* GetCertificate: addresses get the relay's own certificate, so does every *)
(* host when there is no ACME.                                              *)
HasCertificate(h) == ~ACME \/ h.kind = "addr" \/ AllowHost(h)

\* Mutant of Rewrite: the for of rewriteOpenAIPath is an if.
RewriteOnce(p) ==
  IF Len(p) > 1 /\ p[1] = "v1" /\ p[2] \in {"v1", "v1x"} THEN Tail(p) ELSE p

(* rewriteOpenAIPath: while the path starts with /v1/v1, be it in the middle *)
(* of a segment, one /v1 is cut off.                                        *)
Rewrite(p) ==
  LET cut == {k \in 0 .. Len(p) :
                \A j \in 1 .. k : j < Len(p) /\ p[j] = "v1" /\ p[j + 1] \in {"v1", "v1x"}}
  IN  SubSeq(p, 1 + Max(cut), Len(p))

-----------------------------------------------------------------------------
(* From the connection to ServeHTTP.                                        *)

Goto(v, l) == pc' = [pc EXCEPT ![v] = l]

Done(v, a) == Goto(v, "done") /\ answer' = [answer EXCEPT ![v] = a]

Send(v) ==
  /\ pc[v] = "idle"
  /\ steady' = [steady EXCEPT ![v] = {i \in Ids : Up(i)}]
  /\ Goto(v, "connect")
  /\ UNCHANGED <<relay, queue, req, routing, answer>>

(* :80 is served by an http.Server of its own.                              *)
ConnectHTTP(v) ==
  /\ pc[v] = "connect" /\ ~req[v].tls
  /\ Goto(v, "request")
  /\ UNCHANGED <<relay, queue, req, routing, answer, steady>>

\* Mutant of Enqueue: it does not wait for room in the channel.
EnqueueUnbounded(v) ==
  /\ pc[v] = "connect" /\ req[v].tls /\ HasCertificate(req[v].host)
  /\ queue' = Append(queue, v)
  /\ Goto(v, "queued")
  /\ UNCHANGED <<relay, req, routing, answer, steady>>

(* handleConn on :443: the handshake, then chanListener.Enqueue, which waits *)
(* while the channel is full.                                               *)
Enqueue(v) ==
  /\ pc[v] = "connect" /\ req[v].tls /\ HasCertificate(req[v].host)
  /\ Len(queue) < QueueCap
  /\ queue' = Append(queue, v)
  /\ Goto(v, "queued")
  /\ UNCHANGED <<relay, req, routing, answer, steady>>

HandshakeFails(v) ==
  /\ pc[v] = "connect" /\ req[v].tls /\ ~HasCertificate(req[v].host)
  /\ Done(v, "no tls")
  /\ UNCHANGED <<relay, queue, req, routing, steady>>

Accept ==
  /\ queue # <<>>
  /\ queue' = Tail(queue)
  /\ Goto(Head(queue), "request")
  /\ UNCHANGED <<relay, req, routing, answer, steady>>

-----------------------------------------------------------------------------
(* ServeHTTP.                                                               *)

Healthz(q) == q.path = <<"healthz">> /\ IsApex(q.host)

\* Mutant of Redirected: r.TLS is not looked at.
RedirectedAlways(q) == ACME /\ ~Healthz(q)

Redirected(q) == ACME /\ ~Healthz(q) /\ ~q.tls

AnswerHealthz(v) ==
  /\ pc[v] = "request" /\ Healthz(req[v])
  /\ Done(v, "ok")
  /\ UNCHANGED <<relay, queue, req, routing, steady>>

(* The visitor follows the redirect.                                        *)
Redirect(v) ==
  /\ pc[v] = "request" /\ Redirected(req[v])
  /\ req' = [req EXCEPT ![v].tls = TRUE]
  /\ Goto(v, "connect")
  /\ UNCHANGED <<relay, queue, routing, answer, steady>>

\* Mutant of Route: the apex is not told from the hosts under it.
RouteFirstLabel(v) ==
  /\ pc[v] = "request" /\ ~Healthz(req[v]) /\ ~Redirected(req[v])
  /\ Goto(v, "label")
  /\ UNCHANGED <<relay, queue, req, routing, answer, steady>>

(* route, up to the first place where it needs the table.                   *)
Route(v) ==
  LET h == req[v].host IN
  /\ pc[v] = "request" /\ ~Healthz(req[v]) /\ ~Redirected(req[v])
  /\ \/ /\ h.kind = "sub" /\ Valid(h.first)
        /\ id' = [id EXCEPT ![v] = h.first] /\ Goto(v, "lookup")
        /\ UNCHANGED answer
     \/ /\ IsApex(h) /\ path[v] = <<>>
        /\ Done(v, "landing") /\ UNCHANGED id
     \/ /\ IsApex(h) /\ path[v] # <<>>
        /\ Goto(v, "path") /\ UNCHANGED <<id, answer>>
     \/ /\ ~IsApex(h) /\ ~(h.kind = "sub" /\ Valid(h.first))
        /\ Goto(v, "label") /\ UNCHANGED <<id, answer>>
  /\ UNCHANGED <<relay, queue, req, path, tunnel, steady>>

Known(l) == Valid(l) /\ table[l] # NoTunnel

(* At the apex the first segment of the path may name a tunnel.             *)
RoutePath(v) ==
  /\ pc[v] = "path"
  /\ IF Known(Head(path[v]))
     THEN /\ id'   = [id EXCEPT ![v] = Head(path[v])]
          /\ path' = [path EXCEPT ![v] = Tail(@)]
          /\ Goto(v, "lookup")
     ELSE Goto(v, "label") /\ UNCHANGED <<id, path>>
  /\ UNCHANGED <<relay, queue, req, tunnel, answer, steady>>

(* Otherwise the first label of the host may.                               *)
RouteLabel(v) ==
  LET h == req[v].host IN
  /\ pc[v] = "label"
  /\ IF Dotted(h) /\ Known(h.first)
     THEN id' = [id EXCEPT ![v] = h.first] /\ Goto(v, "lookup") /\ UNCHANGED answer
     ELSE Done(v, "landing") /\ UNCHANGED id
  /\ UNCHANGED <<relay, queue, req, path, tunnel, steady>>

\* Mutant of Serves: the protocol of the tunnel is not looked at.
ServesAny(i) == table[i] # NoTunnel /\ session[table[i]] # "nil"

Serves(i) ==
  /\ table[i] # NoTunnel
  /\ session[table[i]] # "nil" /\ kind[table[i]] = "http"

(* The second lookup; then the path is rewritten and GET /v1 answered here. *)
Lookup(v) ==
  LET p == Rewrite(path[v]) IN
  /\ pc[v] = "lookup"
  /\ IF ~Serves(id[v])
     THEN Done(v, "not found") /\ UNCHANGED <<path, tunnel>>
     ELSE /\ path'   = [path EXCEPT ![v] = p]
          /\ tunnel' = [tunnel EXCEPT ![v] = table[id[v]]]
          /\ IF p = <<"v1">> /\ req[v].read
             THEN Done(v, "api")
             ELSE Goto(v, "open") /\ UNCHANGED answer
  /\ UNCHANGED <<relay, queue, req, id, steady>>

(* splice opens a stream of the session the tunnel has.                     *)
OpenStream(v) ==
  /\ pc[v] = "open"
  /\ Done(v, IF session[tunnel[v]] = "open" THEN "stream" ELSE "busy")
  /\ UNCHANGED <<relay, queue, req, routing, steady>>

ServeHTTP(v) ==
  \/ AnswerHealthz(v) \/ Redirect(v)
  \/ Route(v) \/ RoutePath(v) \/ RouteLabel(v) \/ Lookup(v) \/ OpenStream(v)

Connect(v) == ConnectHTTP(v) \/ Enqueue(v) \/ HandshakeFails(v)

Next ==
  \/ TableChanges
  \/ \E v \in Visitors : Send(v) \/ Connect(v) \/ ServeHTTP(v)
  \/ Accept

Spec == Init /\ [][Next]_vars

(* Goroutines run, the accept loop of the http.Server goes on.              *)
Fairness ==
  /\ \A v \in Visitors : SF_vars(Connect(v)) /\ WF_vars(ServeHTTP(v))
  /\ WF_vars(Accept)

LiveSpec == Spec /\ Fairness

-----------------------------------------------------------------------------
ByPath(v) == IsApex(req[v].host) /\ req[v].path # <<>> /\ id[v] = Head(req[v].path)

(* A visitor is spliced to an HTTP tunnel that the request names, by the     *)
(* first label of its host or, at the apex, by its path; whatever happens to *)
(* the table between the lookups.                                           *)
SplicedToWhatIsNamed ==
  \A v \in Visitors : answer[v] = "stream" =>
    /\ kind[tunnel[v]] = "http"
    /\ tid[tunnel[v]] = req[v].host.first \/ (ByPath(v) /\ tid[tunnel[v]] = id[v])

(* A request for the advertised URL of a tunnel that has been up since it    *)
(* was sent is never turned away, neither is one for the tunnel's path.     *)
SteadyTunnelIsReached ==
  \A v \in Visitors : pc[v] = "done" =>
    LET q == req[v] IN
    /\ q.host.kind = "sub" /\ q.host.first \in steady[v] => answer[v] \in {"stream", "api"}
    /\ IsApex(q.host) /\ q.path # <<>> /\ Head(q.path) \in steady[v]
         => answer[v] \in {"stream", "api"}

(* p is asked with a row of /v1 at its head folded into one: a /v1 is cut    *)
(* off only in front of another, none is doubled, nothing else is missing.  *)
Folded(p, asked) ==
  /\ \E k \in 0 .. Len(asked) :
       /\ p = SubSeq(asked, k + 1, Len(asked))
       /\ \A j \in 1 .. k : j < Len(asked) /\ asked[j] = "v1" /\ asked[j + 1] = "v1"
  /\ ~(Len(p) > 1 /\ p[1] = "v1" /\ p[2] = "v1")

(* A tunnel is sent the path that was asked for, with repeated /v1 folded,   *)
(* and without the id at its head only if that is the tunnel's.  It speaks   *)
(* of paths in which nothing longer than v1 begins with v1: the code takes   *)
(* such a segment for a repeated /v1.                                       *)
PathArrives ==
  \A v \in Visitors :
    LET asked == req[v].path IN
    answer[v] = "stream" /\ (\A j \in DOMAIN asked : asked[j] # "v1x") =>
      \/ Folded(path[v], asked)
      \/ ByPath(v) /\ Folded(path[v], Tail(asked))

(* Every request is answered: no redirect leads back to itself, and a full   *)
(* channel delays a connection and does not lose it.                        *)
EveryRequestEnds == \A v \in Visitors : pc[v] = "connect" ~> pc[v] = "done"
=============================================================================
