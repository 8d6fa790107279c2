----------------------------- MODULE FrontProofs ----------------------------
(* Visitors reach what they name: the safety of Front, proved for every set *)
(* of visitors, ids, tunnels and requests.                                  *)
EXTENDS Front, WellFoundedInduction, SequenceTheorems, TLAPS

(* What route has made of a request, by where the request is.               *)
RoutedAt(v) ==
  /\ pc[v] \in {"idle", "connect", "queued", "request", "path"} => path[v] = req[v].path
  /\ pc[v] = "path" => IsApex(req[v].host) /\ path[v] # <<>>
  /\ pc[v] \in {"lookup", "open"} \/ answer[v] = "stream" =>
       id[v] \in Ids /\ (id[v] = req[v].host.first \/ ByPath(v))
  /\ answer[v] # "" => pc[v] = "done"

(* The tunnel that a request has been given was an HTTP tunnel of its id.    *)
KeptAt(v) ==
  pc[v] = "open" \/ answer[v] = "stream" =>
    /\ tunnel[v] \in Tunnels
    /\ tid[tunnel[v]] = id[v] /\ kind[tunnel[v]] = "http"

Routed == \A v \in Visitors : RoutedAt(v)
Kept   == \A v \in Visitors : KeptAt(v)

(* An entry of the table holds a tunnel that was made for its id.            *)
Keyed == \A i \in Ids : table[i] # NoTunnel => tid[table[i]] = i

(* A connection in the channel is there once and at no other place.         *)
Waiting ==
  /\ \A k \in DOMAIN queue : pc[queue[k]] = "queued"
  /\ \A j, k \in DOMAIN queue : queue[j] = queue[k] => j = k

IInv == TypeOK /\ Routed /\ Kept /\ Keyed /\ Waiting

-----------------------------------------------------------------------------
(* The rewritten path is a path.                                            *)

(* A set of naturals up to n has its maximum in it, and nothing above it.    *)
LEMMA MaxIsMember ==
  ASSUME NEW n \in Nat, NEW S \in SUBSET (0 .. n), S # {}
  PROVE  Max(S) \in S /\ \A k \in S : k <= Max(S)
<1> DEFINE Less == OpToRel(<, Nat)
<1> DEFINE T == {n - k : k \in S}
<1>1. IsWellFoundedOn(Less, Nat)
  BY NatLessThanWellFounded
<1>2. \A x, y \in Nat : y < x => <<y, x>> \in Less
  BY DEF OpToRel
<1>3. T \subseteq Nat /\ T # {}
  <2>1. \A k \in S : n - k \in Nat /\ n - k \in T
    OBVIOUS
  <2>2. PICK k \in S : TRUE
    OBVIOUS
  <2>3. T # {} BY <2>1
  <2>4. T \subseteq Nat OBVIOUS
  <2>5. QED BY <2>3, <2>4
<1> HIDE DEF Less, T
<1>4. PICK x \in T : \A y \in T : ~ (<<y, x>> \in Less)
  BY <1>1, <1>3, WFMin
<1>5. ASSUME NEW y \in T PROVE x <= y
  <2>1. x \in Nat /\ y \in Nat BY <1>3
  <2>2. ~ (y < x) BY <1>2, <1>4, <2>1, Zenon
  <2>3. QED BY <2>1, <2>2
<1>6. PICK m \in S : x = n - m
  BY DEF T
<1>7. \A k \in S : n - k \in T
  BY DEF T
<1>8. \A k \in S : m >= k
  BY <1>5, <1>6, <1>7
<1>9. QED BY <1>8 DEF Max

(* What rewriteOpenAIPath leaves is a path.                                 *)
LEMMA RewriteIsPath ==
  ASSUME NEW p \in Seq(Segments)
  PROVE  Rewrite(p) \in Seq(Segments)
<1> DEFINE cut == {k \in 0 .. Len(p) :
                \A j \in 1 .. k : j < Len(p) /\ p[j] = "v1" /\ p[j + 1] \in {"v1", "v1x"}}
<1>1. cut \in SUBSET (0 .. Len(p)) /\ 0 \in cut
  OBVIOUS
<1> HIDE DEF cut
<1>2. Max(cut) \in 0 .. Len(p)
  <2>1. Len(p) \in Nat /\ cut # {} BY <1>1
  <2>2. Max(cut) \in cut BY <1>1, <2>1, MaxIsMember
  <2>3. QED BY <1>1, <2>2
<1>3. SubSeq(p, 1 + Max(cut), Len(p)) \in Seq(Segments)
  BY <1>2, SubSeqProperties
<1>4. QED BY <1>3 DEF Rewrite, cut

-----------------------------------------------------------------------------
(* Each step keeps IInv.                                                    *)

(* What the arithmetic of the proofs needs of the constants.                *)
LEMMA Bounds == QueueCap \in Nat \ {0}
BY FrontAssumption

(* No tunnels, no connections, no answers.                                  *)
LEMMA InitInv == Init => IInv
<1> SUFFICES ASSUME Init PROVE IInv
  OBVIOUS
<1>1. req \in [Visitors -> Request]
  <2>1. \A v \in Visitors : req[v] \in Request
    BY FrontAssumption DEF Init
  <2>2. QED BY <2>1 DEF Init
<1>2. path \in [Visitors -> Seq(Segments)] /\ \A v \in Visitors : path[v] = req[v].path
  BY <1>1 DEF Init, Request
<1>3. TableInit /\ queue = <<>>
  BY DEF Init
<1>4. TypeOK
  <2>1. queue \in Seq(Visitors) /\ Len(queue) <= QueueCap
    BY <1>3, Bounds
  <2>2. TableType
    BY <1>3 DEF TableInit, TableType
  <2>3. QED BY <1>1, <1>2, <2>1, <2>2 DEF Init, TypeOK, Answers
<1>5. Routed /\ Kept
  BY <1>2 DEF Init, Routed, RoutedAt, Kept, KeptAt
<1>6. Keyed /\ Waiting
  BY <1>3 DEF TableInit, Keyed, Waiting
<1>7. QED BY <1>4, <1>5, <1>6 DEF IInv

(* A tunnel keeps its id and protocol, whatever becomes of its entry.        *)
LEMMA TableKeeps ==
  ASSUME TableType, Keyed, TableNext
  PROVE  /\ TableType' /\ Keyed'
         /\ \A t \in Tunnels : tid[t] # NoId => tid'[t] = tid[t] /\ kind'[t] = kind[t]
<1>1. CASE \E i \in Ids : Register(i)
  <2>1. PICK i \in Ids, t \in Tunnels, p \in {"http", "tcp"} :
          /\ tid[t] = NoId
          /\ table' = [table EXCEPT ![i] = t] /\ tid' = [tid EXCEPT ![t] = i]
          /\ kind' = [kind EXCEPT ![t] = p] /\ UNCHANGED session
    BY <1>1 DEF Register
  <2>2. TableType'
    BY <2>1 DEF TableType
  <2>3. \A u \in Tunnels : tid[u] # NoId => tid'[u] = tid[u] /\ kind'[u] = kind[u]
    BY <2>1 DEF TableType
  <2>4. ASSUME NEW j \in Ids, table'[j] # NoTunnel
        PROVE  tid'[table'[j]] = j
    <3>1. CASE j = i
      BY <2>1, <3>1 DEF TableType
    <3>2. CASE j # i
      <4>1. table'[j] = table[j] /\ table[j] \in Tunnels /\ tid[table[j]] = j
        BY <2>1, <2>4, <3>2 DEF TableType, Keyed
      <4>2. QED BY <2>3, <4>1, TableAssumption
    <3>3. QED BY <3>1, <3>2
  <2>5. QED BY <2>2, <2>3, <2>4 DEF Keyed
<1>2. CASE \E i \in Ids : Attach(i)
  BY <1>2 DEF Attach, TableType, Keyed
<1>3. CASE \E i \in Ids : Drop(i)
  BY <1>3 DEF Drop, TableType, Keyed
<1>4. CASE \E t \in Tunnels : SessionEnds(t)
  BY <1>4 DEF SessionEnds, TableType, Keyed
<1>5. QED BY <1>1, <1>2, <1>3, <1>4 DEF TableNext

(* The relay's half leaves the requests alone.                              *)
LEMMA TableChangesInv ==
  ASSUME IInv, TableChanges
  PROVE  IInv'
<1>1. UNCHANGED <<queue, pc, req, id, path, tunnel, answer>>
  BY DEF TableChanges, routing
<1>2. steady' \in [Visitors -> SUBSET Ids]
  <2>1. \A v \in Visitors : steady[v] \in SUBSET Ids
    BY DEF IInv, TypeOK
  <2>2. steady' = [v \in Visitors |-> {i \in steady[v] : table'[i] = table[i] /\ Up(i)'}]
    BY DEF TableChanges
  <2>3. QED BY <2>1, <2>2
<1>3. Routed' /\ Waiting'
  BY <1>1 DEF IInv, Routed, RoutedAt, Waiting, ByPath
<1>4. /\ TableType' /\ Keyed'
      /\ \A t \in Tunnels : tid[t] # NoId => tid'[t] = tid[t] /\ kind'[t] = kind[t]
  BY TableKeeps DEF IInv, TypeOK, TableChanges
<1>5. TypeOK'
  BY <1>1, <1>2, <1>4 DEF IInv, TypeOK
<1>6. ASSUME NEW v \in Visitors PROVE KeptAt(v)'
  <2>1. RoutedAt(v) /\ KeptAt(v)
    BY DEF IInv, Routed, Kept
  <2>2. pc[v] = "open" \/ answer[v] = "stream" => tid[tunnel[v]] # NoId
    BY <2>1, TableAssumption DEF KeptAt, RoutedAt
  <2>3. QED BY <1>1, <1>4, <2>1, <2>2 DEF KeptAt
<1>7. QED BY <1>3, <1>4, <1>5, <1>6 DEF IInv, Kept

(* A step of one visitor: what is to be shown of it, is to be shown of it    *)
(* only.                                                                    *)
LEMMA OneMoves ==
  ASSUME IInv, NEW v \in Visitors, UNCHANGED relay,
         \A w \in Visitors \ {v} :
           /\ pc'[w] = pc[w] /\ req'[w] = req[w] /\ answer'[w] = answer[w]
           /\ id'[w] = id[w] /\ path'[w] = path[w] /\ tunnel'[w] = tunnel[w],
         RoutedAt(v)', KeptAt(v)'
  PROVE  Routed' /\ Kept' /\ Keyed'
<1>1. ASSUME NEW w \in Visitors \ {v}
      PROVE  RoutedAt(w)' /\ KeptAt(w)'
  <2>1. RoutedAt(w) /\ KeptAt(w)
    BY DEF IInv, Routed, Kept
  <2>2. /\ pc'[w] = pc[w] /\ req'[w] = req[w] /\ answer'[w] = answer[w]
        /\ id'[w] = id[w] /\ path'[w] = path[w] /\ tunnel'[w] = tunnel[w]
        /\ tid' = tid /\ kind' = kind
    BY DEF relay
  <2>3. RoutedAt(w)'
    BY <2>1, <2>2 DEF RoutedAt, ByPath
  <2>4. KeptAt(w)'
    BY <2>1, <2>2 DEF KeptAt
  <2>5. QED BY <2>3, <2>4
<1>2. Keyed' BY DEF IInv, Keyed, relay
<1>3. QED BY <1>1, <1>2 DEF Routed, Kept

(* Steps of connections that do not wait leave the channel as it is.        *)
LEMMA StillWaiting ==
  ASSUME IInv, NEW v \in Visitors, UNCHANGED queue, pc[v] # "queued",
         \A w \in Visitors \ {v} : pc'[w] = pc[w]
  PROVE  Waiting'
<1>1. \A k \in DOMAIN queue : queue[k] \in Visitors
  BY DEF IInv, TypeOK
<1>2. QED BY <1>1 DEF IInv, Waiting

(* A request is turned away, or answered by the relay itself.               *)
LEMMA DoneInv ==
  ASSUME IInv, NEW v \in Visitors, NEW a \in Answers \ {"", "stream"},
         Done(v, a), pc[v] # "queued", UNCHANGED <<relay, queue, req, id, steady>>,
         path' \in [Visitors -> Seq(Segments)],
         tunnel' \in [Visitors -> Tunnels \cup {NoTunnel}],
         \A w \in Visitors \ {v} : path'[w] = path[w] /\ tunnel'[w] = tunnel[w]
  PROVE  IInv'
<1>1. pc' = [pc EXCEPT ![v] = "done"] /\ answer' = [answer EXCEPT ![v] = a]
  BY DEF Done, Goto
<1>2. TypeOK'
  BY <1>1 DEF IInv, TypeOK, TableType, relay
<1>3. pc'[v] = "done" /\ answer'[v] = a
  BY <1>1 DEF IInv, TypeOK
<1>4. RoutedAt(v)' /\ KeptAt(v)'
  BY <1>3 DEF RoutedAt, KeptAt
<1>5. \A w \in Visitors \ {v} : pc'[w] = pc[w] /\ answer'[w] = answer[w]
  BY <1>1 DEF IInv, TypeOK
<1>6. Waiting'
  BY <1>5, StillWaiting
<1>7. Routed' /\ Kept' /\ Keyed'
  BY <1>4, <1>5, OneMoves
<1>8. QED BY <1>2, <1>6, <1>7 DEF IInv

(* A request moves on to the next place.                                    *)
Places == {"idle", "connect", "queued", "request",
           "path", "label", "lookup", "open", "done"}

(* A step to the next place is right if what it made of its request is.     *)
LEMMA MoveInv ==
  ASSUME IInv, NEW v \in Visitors, NEW l \in Places,
         Goto(v, l), pc[v] # "queued", UNCHANGED <<relay, queue, answer>>,
         req' \in [Visitors -> Request], id' \in [Visitors -> Ids \cup {NoId}],
         path' \in [Visitors -> Seq(Segments)],
         tunnel' \in [Visitors -> Tunnels \cup {NoTunnel}],
         steady' \in [Visitors -> SUBSET Ids],
         \A w \in Visitors \ {v} :
           /\ req'[w] = req[w] /\ id'[w] = id[w]
           /\ path'[w] = path[w] /\ tunnel'[w] = tunnel[w],
         RoutedAt(v)', KeptAt(v)'
  PROVE  IInv'
<1>1. pc' = [pc EXCEPT ![v] = l]
  BY DEF Goto
<1>2. TypeOK'
  BY <1>1 DEF IInv, TypeOK, TableType, relay, Places
<1>3. \A w \in Visitors \ {v} : pc'[w] = pc[w]
  BY <1>1 DEF IInv, TypeOK
<1>4. Waiting'
  BY <1>3, StillWaiting
<1>5. Routed' /\ Kept' /\ Keyed'
  BY <1>3, OneMoves
<1>6. QED BY <1>2, <1>4, <1>5 DEF IInv

(* Up to the queue: the request stays what it was.                          *)
LEMMA ConnectInv ==
  ASSUME IInv, NEW v \in Visitors,
         Send(v) \/ ConnectHTTP(v) \/ HandshakeFails(v) \/ AnswerHealthz(v)
  PROVE  IInv'
<1>1. /\ UNCHANGED <<relay, queue, req, id, path, tunnel>>
      /\ pc[v] \in {"idle", "connect", "request"}
  BY DEF Send, ConnectHTTP, HandshakeFails, AnswerHealthz, routing
<1>2. /\ req \in [Visitors -> Request] /\ id \in [Visitors -> Ids \cup {NoId}]
      /\ path \in [Visitors -> Seq(Segments)]
      /\ tunnel \in [Visitors -> Tunnels \cup {NoTunnel}]
      /\ steady \in [Visitors -> SUBSET Ids]
      /\ answer[v] = "" /\ path[v] = req[v].path
  <2>1. answer[v] = "" /\ path[v] = req[v].path
    BY <1>1 DEF IInv, Routed, RoutedAt
  <2>2. QED BY <2>1 DEF IInv, TypeOK
<1>3. ASSUME NEW l \in {"connect", "request"}, Goto(v, l), UNCHANGED answer
      PROVE  RoutedAt(v)' /\ KeptAt(v)'
  <2>1. pc'[v] = l /\ answer'[v] = "" /\ path'[v] = req'[v].path
    BY <1>1, <1>2, <1>3 DEF Goto, IInv, TypeOK
  <2>2. QED BY <2>1 DEF RoutedAt, KeptAt
<1>4. CASE Send(v)
  <2>1. Goto(v, "connect") /\ UNCHANGED answer
    BY <1>4 DEF Send
  <2>2. steady' \in [Visitors -> SUBSET Ids]
    BY <1>2, <1>4 DEF Send
  <2>3. QED BY <1>1, <1>2, <1>3, <2>1, <2>2, MoveInv DEF Places
<1>5. CASE ConnectHTTP(v)
  <2>1. Goto(v, "request") /\ UNCHANGED <<answer, steady>>
    BY <1>5 DEF ConnectHTTP
  <2>2. QED BY <1>1, <1>2, <1>3, <2>1, MoveInv DEF Places
<1>6. CASE HandshakeFails(v) \/ AnswerHealthz(v)
  <2>1. PICK a \in Answers \ {"", "stream"} : Done(v, a) /\ UNCHANGED steady
    BY <1>6 DEF HandshakeFails, AnswerHealthz, Answers
  <2>2. QED BY <1>1, <1>2, <2>1, DoneInv
<1>7. QED BY <1>4, <1>5, <1>6

(* The redirected request differs in TLS only.                              *)
LEMMA RedirectInv ==
  ASSUME IInv, NEW v \in Visitors, Redirect(v)
  PROVE  IInv'
<1> DEFINE q == [req[v] EXCEPT !.tls = TRUE]
<1>1. /\ pc[v] = "request" /\ Goto(v, "connect")
      /\ req' = [req EXCEPT ![v] = q]
      /\ UNCHANGED <<relay, queue, id, path, tunnel, answer, steady>>
  BY DEF Redirect, routing
<1>2. req[v] \in Request /\ req \in [Visitors -> Request]
  BY DEF IInv, TypeOK
<1>3. q \in Request /\ q.path = req[v].path /\ q.host = req[v].host
  BY <1>2 DEF Request
<1> HIDE DEF q
<1>4. req' \in [Visitors -> Request] /\ req'[v] = q
  BY <1>1, <1>2, <1>3
<1>5. RoutedAt(v)' /\ KeptAt(v)'
  <2>1. answer[v] = "" /\ path[v] = req[v].path
    BY <1>1 DEF IInv, Routed, RoutedAt
  <2>2. pc'[v] = "connect" /\ answer'[v] = "" /\ path'[v] = req'[v].path
    BY <1>1, <1>3, <1>4, <2>1 DEF Goto, IInv, TypeOK
  <2>3. QED BY <2>2 DEF RoutedAt, KeptAt
<1>6. \A w \in Visitors \ {v} : req'[w] = req[w]
  BY <1>1, <1>2
<1>7. QED
  BY <1>1, <1>4, <1>5, <1>6, MoveInv DEF IInv, TypeOK, Places

(* Into the queue and out of it.                                            *)
LEMMA EnqueueInv ==
  ASSUME IInv, NEW v \in Visitors, Enqueue(v)
  PROVE  IInv'
<1>1. /\ pc[v] = "connect" /\ Len(queue) < QueueCap
      /\ queue' = Append(queue, v) /\ pc' = [pc EXCEPT ![v] = "queued"]
      /\ UNCHANGED <<relay, req, id, path, tunnel, answer, steady>>
  BY DEF Enqueue, Goto, routing
<1>2. queue \in Seq(Visitors) /\ pc \in [Visitors -> Places] /\ Waiting
  BY DEF IInv, TypeOK, Places
<1>3. /\ queue' \in Seq(Visitors) /\ Len(queue') = Len(queue) + 1
      /\ \A k \in 1 .. Len(queue) : queue'[k] = queue[k]
      /\ queue'[Len(queue) + 1] = v
  BY <1>1, <1>2, AppendProperties
<1>4. TypeOK'
  <2>1. pc' \in [Visitors -> Places]
    BY <1>1, <1>2 DEF Places
  <2>2. Len(queue') <= QueueCap
    BY <1>1, <1>2, <1>3, Bounds
  <2>3. QED BY <1>1, <1>3, <2>1, <2>2 DEF IInv, TypeOK, TableType, relay, Places
<1>5. Waiting'
  <2>1. \A k \in 1 .. Len(queue) : queue[k] \in Visitors /\ queue[k] # v
    BY <1>1, <1>2 DEF Waiting
  <2>2. DOMAIN queue' = 1 .. Len(queue) + 1 /\ DOMAIN queue = 1 .. Len(queue)
    BY <1>2, <1>3
  <2>3. ASSUME NEW k \in DOMAIN queue'
        PROVE  pc'[queue'[k]] = "queued"
    BY <1>1, <1>2, <1>3, <2>1, <2>2 DEF Waiting
  <2>4. ASSUME NEW j \in DOMAIN queue', NEW k \in DOMAIN queue', queue'[j] = queue'[k]
        PROVE  j = k
    BY <1>2, <1>3, <2>1, <2>2, <2>4 DEF Waiting
  <2>5. QED BY <2>3, <2>4 DEF Waiting
<1>6. RoutedAt(v)' /\ KeptAt(v)'
  <2>1. answer[v] = "" /\ path[v] = req[v].path
    BY <1>1 DEF IInv, Routed, RoutedAt
  <2>2. pc'[v] = "queued" /\ answer'[v] = "" /\ path'[v] = req'[v].path
    BY <1>1, <1>2, <2>1
  <2>3. QED BY <2>2 DEF RoutedAt, KeptAt
<1>7. \A w \in Visitors \ {v} : pc'[w] = pc[w]
  BY <1>1, <1>2
<1>8. Routed' /\ Kept' /\ Keyed'
  BY <1>1, <1>6, <1>7, OneMoves
<1>9. QED BY <1>4, <1>5, <1>8 DEF IInv

(* A connection leaves the channel as it entered it.                        *)
LEMMA AcceptInv ==
  ASSUME IInv, Accept
  PROVE  IInv'
<1>1. /\ queue \in Seq(Visitors) /\ Len(queue) <= QueueCap
      /\ pc \in [Visitors -> Places] /\ Waiting
  BY DEF IInv, TypeOK, Places
<1>2. PICK v \in Visitors : v = Head(queue) /\ queue # <<>>
  BY <1>1, HeadTailProperties DEF Accept
<1>3. /\ queue' = Tail(queue) /\ pc' = [pc EXCEPT ![v] = "request"]
      /\ UNCHANGED <<relay, req, id, path, tunnel, answer, steady>>
  BY <1>2 DEF Accept, Goto, routing
<1>4. /\ v = queue[1] /\ 1 \in DOMAIN queue
      /\ queue' \in Seq(Visitors) /\ Len(queue') = Len(queue) - 1
      /\ \A k \in 1 .. Len(queue') : queue'[k] = queue[k + 1]
  BY <1>2, <1>3, <1>1, HeadTailProperties
<1>5. TypeOK'
  <2>1. pc' \in [Visitors -> Places]
    BY <1>3, <1>1 DEF Places
  <2>2. Len(queue') <= QueueCap
    BY <1>1, <1>4, Bounds
  <2>3. QED BY <1>3, <1>4, <2>1, <2>2 DEF IInv, TypeOK, TableType, relay, Places
<1>6. Waiting'
  <2>1. /\ DOMAIN queue' = 1 .. Len(queue) - 1 /\ DOMAIN queue = 1 .. Len(queue)
        /\ Len(queue) \in Nat
    BY <1>1, <1>4
  <2>2. ASSUME NEW k \in DOMAIN queue'
        PROVE  /\ k \in Nat /\ k + 1 \in DOMAIN queue /\ k + 1 # 1
               /\ queue'[k] = queue[k + 1]
    BY <1>4, <2>1
  <2>3. ASSUME NEW k \in DOMAIN queue'
        PROVE  pc'[queue'[k]] = "queued"
    <3>1. queue[k + 1] # v /\ pc[queue[k + 1]] = "queued" /\ queue[k + 1] \in Visitors
      BY <1>1, <1>4, <2>2 DEF Waiting
    <3>2. QED BY <1>3, <1>1, <2>2, <3>1
  <2>4. ASSUME NEW j \in DOMAIN queue', NEW k \in DOMAIN queue', queue'[j] = queue'[k]
        PROVE  j = k
    <3>1. j + 1 = k + 1
      BY <1>1, <2>2, <2>4 DEF Waiting
    <3>2. QED BY <2>2, <3>1
  <2>5. QED BY <2>3, <2>4 DEF Waiting
<1>7. RoutedAt(v)' /\ KeptAt(v)'
  <2>1. pc[v] = "queued"
    BY <1>1, <1>4 DEF Waiting
  <2>2. answer[v] = "" /\ path[v] = req[v].path
    BY <1>4, <2>1 DEF IInv, Routed, RoutedAt
  <2>3. pc'[v] = "request" /\ answer'[v] = "" /\ path'[v] = req'[v].path
    BY <1>3, <1>1, <1>4, <2>2
  <2>4. QED BY <2>3 DEF RoutedAt, KeptAt
<1>8. \A w \in Visitors \ {v} : pc'[w] = pc[w]
  BY <1>3, <1>1
<1>9. Routed' /\ Kept' /\ Keyed'
  BY <1>3, <1>4, <1>7, <1>8, OneMoves
<1>10. QED BY <1>5, <1>6, <1>9 DEF IInv

-----------------------------------------------------------------------------
(* Routing.  A request on its way has no answer.                            *)
LEMMA OnItsWay ==
  ASSUME IInv, NEW v \in Visitors, pc[v] \in Places \ {"done"}
  PROVE  /\ answer[v] = "" /\ pc \in [Visitors -> Places]
         /\ req \in [Visitors -> Request] /\ id \in [Visitors -> Ids \cup {NoId}]
         /\ path \in [Visitors -> Seq(Segments)]
         /\ tunnel \in [Visitors -> Tunnels \cup {NoTunnel}]
         /\ steady \in [Visitors -> SUBSET Ids]
BY DEF IInv, TypeOK, Routed, RoutedAt, Places

(* By the whole host under the base.                                        *)
LEMMA RouteInv ==
  ASSUME IInv, NEW v \in Visitors, Route(v)
  PROVE  IInv'
<1> DEFINE h == req[v].host
<1>1. /\ pc[v] = "request"
      /\ UNCHANGED <<relay, queue, req, path, tunnel, steady>>
  BY DEF Route
<1>2. answer[v] = "" /\ path[v] = req[v].path /\ pc[v] \in Places \ {"done"}
  BY <1>1 DEF IInv, Routed, RoutedAt, Places
<1>3. CASE /\ Valid(h.first)
           /\ id' = [id EXCEPT ![v] = h.first] /\ Goto(v, "lookup") /\ UNCHANGED answer
  <2>1. /\ id' \in [Visitors -> Ids \cup {NoId}]
        /\ id'[v] = h.first /\ h.first \in Ids
        /\ pc'[v] = "lookup" /\ answer'[v] = ""
        /\ \A w \in Visitors \ {v} : id'[w] = id[w]
    BY <1>2, <1>3, OnItsWay DEF Valid, Goto
  <2>2. RoutedAt(v)' /\ KeptAt(v)'
    BY <1>1, <2>1 DEF RoutedAt, KeptAt
  <2>3. QED
    BY <1>1, <1>2, <1>3, <2>1, <2>2, OnItsWay, MoveInv DEF Places
<1>4. CASE Done(v, "landing") /\ UNCHANGED id
  BY <1>1, <1>2, <1>4, OnItsWay, DoneInv DEF Answers
<1>5. CASE /\ IsApex(h) /\ path[v] # <<>>
           /\ Goto(v, "path") /\ UNCHANGED <<id, answer>>
  <2>1. pc'[v] = "path" /\ answer'[v] = ""
    BY <1>2, <1>5, OnItsWay DEF Goto
  <2>2. IsApex(req'[v].host) /\ path'[v] # <<>> /\ path'[v] = req'[v].path
    BY <1>1, <1>2, <1>5
  <2>3. RoutedAt(v)' /\ KeptAt(v)'
    BY <2>1, <2>2 DEF RoutedAt, KeptAt
  <2>4. QED
    BY <1>1, <1>2, <1>5, <2>3, OnItsWay, MoveInv DEF Places
<1>6. CASE Goto(v, "label") /\ UNCHANGED <<id, answer>>
  <2>1. pc'[v] = "label" /\ answer'[v] = ""
    BY <1>2, <1>6, OnItsWay DEF Goto
  <2>2. RoutedAt(v)' /\ KeptAt(v)'
    BY <2>1 DEF RoutedAt, KeptAt
  <2>3. QED
    BY <1>1, <1>2, <1>6, <2>2, OnItsWay, MoveInv DEF Places
<1>7. QED BY <1>3, <1>4, <1>5, <1>6 DEF Route

(* By the first segment at the apex.                                        *)
LEMMA RoutePathInv ==
  ASSUME IInv, NEW v \in Visitors, RoutePath(v)
  PROVE  IInv'
<1>1. pc[v] = "path" /\ UNCHANGED <<relay, queue, req, tunnel, answer, steady>>
  BY DEF RoutePath
<1>2. /\ answer[v] = "" /\ pc[v] \in Places \ {"done"}
      /\ path[v] = req[v].path /\ IsApex(req[v].host) /\ path[v] # <<>>
  BY <1>1 DEF IInv, Routed, RoutedAt, Places
<1>3. CASE /\ Known(Head(path[v]))
           /\ id'   = [id EXCEPT ![v] = Head(path[v])]
           /\ path' = [path EXCEPT ![v] = Tail(@)]
           /\ Goto(v, "lookup")
  <2>1. Tail(path[v]) \in Seq(Segments)
    BY <1>2, OnItsWay, HeadTailProperties
  <2>2. path' \in [Visitors -> Seq(Segments)]
    BY <1>2, <1>3, <2>1, OnItsWay
  <2>3. /\ id' \in [Visitors -> Ids \cup {NoId}]
        /\ id'[v] = Head(path[v]) /\ id'[v] \in Ids
        /\ pc'[v] = "lookup" /\ answer'[v] = ""
        /\ \A w \in Visitors \ {v} : id'[w] = id[w] /\ path'[w] = path[w]
    BY <1>1, <1>2, <1>3, OnItsWay DEF Known, Valid, Goto
  <2>4. ByPath(v)'
    BY <1>1, <1>2, <2>3 DEF ByPath
  <2>5. RoutedAt(v)' /\ KeptAt(v)'
    BY <2>3, <2>4 DEF RoutedAt, KeptAt
  <2>6. QED
    BY <1>1, <1>2, <1>3, <2>2, <2>3, <2>5, OnItsWay, MoveInv DEF Places
<1>4. CASE Goto(v, "label") /\ UNCHANGED <<id, path>>
  <2>1. pc'[v] = "label" /\ answer'[v] = ""
    BY <1>1, <1>2, <1>4, OnItsWay DEF Goto
  <2>2. RoutedAt(v)' /\ KeptAt(v)'
    BY <2>1 DEF RoutedAt, KeptAt
  <2>3. QED
    BY <1>1, <1>2, <1>4, <2>2, OnItsWay, MoveInv DEF Places
<1>5. QED BY <1>3, <1>4 DEF RoutePath

(* By the first label of any host.                                          *)
LEMMA RouteLabelInv ==
  ASSUME IInv, NEW v \in Visitors, RouteLabel(v)
  PROVE  IInv'
<1> DEFINE h == req[v].host
<1>1. /\ pc[v] = "label" /\ pc[v] \in Places \ {"done"}
      /\ UNCHANGED <<relay, queue, req, path, tunnel, steady>>
  BY DEF RouteLabel, Places
<1>2. CASE /\ Known(h.first) /\ id' = [id EXCEPT ![v] = h.first]
           /\ Goto(v, "lookup") /\ UNCHANGED answer
  <2>1. /\ id' \in [Visitors -> Ids \cup {NoId}]
        /\ id'[v] = h.first /\ h.first \in Ids
        /\ pc'[v] = "lookup" /\ answer'[v] = ""
        /\ \A w \in Visitors \ {v} : id'[w] = id[w]
    BY <1>1, <1>2, OnItsWay DEF Known, Valid, Goto
  <2>2. RoutedAt(v)' /\ KeptAt(v)'
    BY <1>1, <2>1 DEF RoutedAt, KeptAt
  <2>3. QED
    BY <1>1, <1>2, <2>1, <2>2, OnItsWay, MoveInv DEF Places
<1>3. CASE Done(v, "landing") /\ UNCHANGED id
  BY <1>1, <1>3, OnItsWay, DoneInv DEF Answers
<1>4. QED BY <1>2, <1>3 DEF RouteLabel

-----------------------------------------------------------------------------
(* The tunnel that Lookup finds is in the table and serves HTTP.            *)
LEMMA LookupInv ==
  ASSUME IInv, NEW v \in Visitors, Lookup(v)
  PROVE  IInv'
<1> DEFINE p == Rewrite(path[v])
<1> DEFINE t == table[id[v]]
<1>1. /\ pc[v] = "lookup" /\ pc[v] \in Places \ {"done"}
      /\ UNCHANGED <<relay, queue, req, id, steady>>
  BY DEF Lookup, Places
<1>2. id[v] \in Ids /\ (id[v] = req[v].host.first \/ ByPath(v))
  BY <1>1 DEF IInv, Routed, RoutedAt
<1>3. p \in Seq(Segments)
  BY <1>1, OnItsWay, RewriteIsPath
<1> HIDE DEF p
<1>4. CASE ~Serves(id[v]) /\ Done(v, "not found") /\ UNCHANGED <<path, tunnel>>
  BY <1>1, <1>4, OnItsWay, DoneInv DEF Answers
<1>5. CASE /\ Serves(id[v])
           /\ path' = [path EXCEPT ![v] = p] /\ tunnel' = [tunnel EXCEPT ![v] = t]
           /\ \/ Done(v, "api")
              \/ Goto(v, "open") /\ UNCHANGED answer
  <2>1. t \in Tunnels /\ tid[t] = id[v] /\ kind[t] = "http"
    BY <1>2, <1>5 DEF Serves, IInv, TypeOK, TableType, Keyed
  <2> HIDE DEF t
  <2>2. /\ path' \in [Visitors -> Seq(Segments)]
        /\ tunnel' \in [Visitors -> Tunnels \cup {NoTunnel}] /\ tunnel'[v] = t
        /\ \A w \in Visitors \ {v} : path'[w] = path[w] /\ tunnel'[w] = tunnel[w]
    BY <1>1, <1>3, <1>5, <2>1, OnItsWay
  <2>3. CASE Done(v, "api")
    BY <1>1, <2>2, <2>3, DoneInv DEF Answers
  <2>4. CASE Goto(v, "open") /\ UNCHANGED answer
    <3>1. pc'[v] = "open" /\ answer'[v] = ""
      BY <1>1, <2>4, OnItsWay DEF Goto
    <3>2. RoutedAt(v)'
      <4>1. ByPath(v)' <=> ByPath(v)
        BY <1>1 DEF ByPath
      <4>2. QED BY <1>1, <1>2, <3>1, <4>1 DEF RoutedAt
    <3>3. KeptAt(v)'
      BY <1>1, <2>1, <2>2 DEF KeptAt, relay
    <3>4. QED
      BY <1>1, <2>2, <2>4, <3>2, <3>3, OnItsWay, MoveInv DEF Places
  <2>5. QED BY <1>5, <2>3, <2>4
<1>6. QED BY <1>4, <1>5 DEF Lookup, p, t

(* The stream is opened on the tunnel that was looked up.                   *)
LEMMA OpenStreamInv ==
  ASSUME IInv, NEW v \in Visitors, OpenStream(v)
  PROVE  IInv'
<1>1. /\ pc[v] = "open" /\ pc[v] \in Places \ {"done"}
      /\ UNCHANGED <<relay, queue, req, id, path, tunnel, steady>>
  BY DEF OpenStream, Places, routing
<1>2. CASE Done(v, "busy")
  BY <1>1, <1>2, OnItsWay, DoneInv DEF Answers
<1>3. CASE Done(v, "stream")
  <2>1. pc' = [pc EXCEPT ![v] = "done"] /\ answer' = [answer EXCEPT ![v] = "stream"]
    BY <1>3 DEF Done, Goto
  <2>2. /\ pc'[v] = "done"
        /\ \A w \in Visitors \ {v} : pc'[w] = pc[w] /\ answer'[w] = answer[w]
    BY <2>1 DEF IInv, TypeOK
  <2>3. TypeOK'
    BY <1>1, <2>1 DEF IInv, TypeOK, TableType, relay, Answers
  <2>4. RoutedAt(v) /\ KeptAt(v)
    BY DEF IInv, Routed, Kept
  <2>5. RoutedAt(v)'
    <3>1. ByPath(v)' <=> ByPath(v)
      BY <1>1 DEF ByPath
    <3>2. QED BY <1>1, <2>2, <2>4, <3>1 DEF RoutedAt
  <2>6. KeptAt(v)'
    BY <1>1, <2>4 DEF KeptAt, relay
  <2>7. Waiting'
    BY <1>1, <2>2, StillWaiting
  <2>8. Routed' /\ Kept' /\ Keyed'
    BY <1>1, <2>2, <2>5, <2>6, OneMoves
  <2>9. QED BY <2>3, <2>7, <2>8 DEF IInv
<1>4. QED BY <1>2, <1>3 DEF OpenStream

(* Every step keeps the invariant.                                          *)
LEMMA NextInv == IInv /\ [Next]_vars => IInv'
<1> SUFFICES ASSUME IInv, [Next]_vars PROVE IInv'
  OBVIOUS
<1>1. CASE TableChanges
  BY <1>1, TableChangesInv
<1>2. CASE \E v \in Visitors : Send(v) \/ Connect(v)
  BY <1>2, ConnectInv, EnqueueInv DEF Connect
<1>3. CASE \E v \in Visitors : ServeHTTP(v)
  BY <1>3, ConnectInv, RedirectInv, RouteInv, RoutePathInv, RouteLabelInv,
     LookupInv, OpenStreamInv DEF ServeHTTP
<1>4. CASE Accept
  BY <1>4, AcceptInv
<1>5. CASE UNCHANGED vars
  BY <1>5 DEF vars, relay, routing, IInv, TypeOK, TableType, Routed, RoutedAt, Kept, KeptAt, ByPath, Keyed, Waiting
<1>6. QED BY <1>1, <1>2, <1>3, <1>4, <1>5 DEF Next

(* What route and the rewriting make of a request is an id and a path.      *)
THEOREM TypeCorrect == Spec => []TypeOK
<1>1. IInv => TypeOK BY DEF IInv
<1>2. QED BY <1>1, InitInv, NextInv, PTL DEF Spec

(* Whatever happens to the table between the lookups, a visitor is spliced   *)
(* to an HTTP tunnel that the request names.                                *)
THEOREM VisitorsReachWhatTheyName == Spec => []SplicedToWhatIsNamed
<1>1. IInv => SplicedToWhatIsNamed
  <2>1. ASSUME IInv, NEW v \in Visitors, answer[v] = "stream"
        PROVE  /\ kind[tunnel[v]] = "http"
               /\ tid[tunnel[v]] = req[v].host.first \/ (ByPath(v) /\ tid[tunnel[v]] = id[v])
    BY <2>1 DEF IInv, Routed, RoutedAt, Kept, KeptAt
  <2>2. QED BY <2>1 DEF SplicedToWhatIsNamed
<1>2. QED BY <1>1, InitInv, NextInv, PTL DEF Spec

-----------------------------------------------------------------------------
(* What a steady tunnel is owed, and what has become of the path.            *)

(* The request is for the advertised URL of tunnel i, or for its path.      *)
Names(v, i) ==
  \/ req[v].host.kind = "sub" /\ i = req[v].host.first
  \/ IsApex(req[v].host) /\ req[v].path # <<>> /\ i = Head(req[v].path)

(* A steady tunnel is up; the request that names it is never on another way. *)
SteadyAt(v) ==
  \A i \in steady[v] :
    /\ Up(i)
    /\ Names(v, i) =>
         /\ pc[v] # "label"
         /\ pc[v] = "lookup" => id[v] = i
         /\ pc[v] = "open" => tunnel[v] = table[i]
         /\ pc[v] = "done" => answer[v] \in {"stream", "api"}

(* No segment of p but /v1 itself begins with v1.                           *)
OnlyV1(p) == \A j \in DOMAIN p : p[j] # "v1x"

FoldedAt(v) ==
  OnlyV1(req[v].path) =>
    \/ Folded(path[v], req[v].path)
    \/ ByPath(v) /\ Folded(path[v], Tail(req[v].path))

PathAt(v) ==
  /\ pc[v] = "label" => path[v] = req[v].path
  /\ pc[v] = "lookup" =>
       path[v] = req[v].path \/ (ByPath(v) /\ path[v] = Tail(req[v].path))
  /\ pc[v] = "open" \/ answer[v] = "stream" => FoldedAt(v)

Owed == \A v \in Visitors : SteadyAt(v) /\ PathAt(v)

(* rewriteOpenAIPath cuts off /v1 in front of another one, and all of them.  *)
LEMMA RewriteFolds ==
  ASSUME NEW p \in Seq(Segments), OnlyV1(p)
  PROVE  Folded(Rewrite(p), p)
<1> DEFINE cut == {k \in 0 .. Len(p) :
                \A j \in 1 .. k : j < Len(p) /\ p[j] = "v1" /\ p[j + 1] \in {"v1", "v1x"}}
<1> DEFINE m == Max(cut)
<1>1. m \in cut /\ \A k \in cut : k <= m
  <2>1. cut \in SUBSET (0 .. Len(p)) /\ 0 \in cut /\ Len(p) \in Nat
    OBVIOUS
  <2> HIDE DEF cut
  <2>2. QED BY <2>1, MaxIsMember
<1> DEFINE q == SubSeq(p, m + 1, Len(p))
<1>2. /\ m \in 0 .. Len(p) /\ Len(p) \in Nat
      /\ \A j \in 1 .. m : j < Len(p) /\ p[j] = "v1" /\ p[j + 1] \in {"v1", "v1x"}
  BY <1>1
<1>3. m + 1 \notin cut
  BY <1>1, <1>2
<1>4. ASSUME m + 1 < Len(p), p[m + 1] = "v1", p[m + 1 + 1] = "v1"
      PROVE  FALSE
  <2>1. m + 1 \in 0 .. Len(p)
    BY <1>2, <1>4
  <2>2. ASSUME NEW j \in 1 .. m + 1
        PROVE  j < Len(p) /\ p[j] = "v1" /\ p[j + 1] \in {"v1", "v1x"}
    <3>1. CASE j = m + 1 BY <1>4, <3>1
    <3>2. CASE j \in 1 .. m BY <1>2, <3>2
    <3>3. QED BY <1>2, <3>1, <3>2
  <2>3. QED BY <1>3, <2>1, <2>2
<1>5. Rewrite(p) = q
  <2>1. 1 + m = m + 1 BY <1>2
  <2>2. QED BY <2>1 DEF Rewrite
<1> HIDE DEF m, cut
<1>6. Len(q) > 1 => m + 1 < Len(p) /\ q[1] = p[m + 1] /\ q[2] = p[m + 1 + 1]
  BY <1>2
<1>7. ~ (Len(q) > 1 /\ q[1] = "v1" /\ q[2] = "v1")
  BY <1>4, <1>6
<1>8. \A j \in 1 .. m : j < Len(p) /\ p[j] = "v1" /\ p[j + 1] = "v1"
  <2> SUFFICES ASSUME NEW j \in 1 .. m
               PROVE  j < Len(p) /\ p[j] = "v1" /\ p[j + 1] = "v1"
    OBVIOUS
  <2>1. j < Len(p) /\ p[j] = "v1" /\ p[j + 1] \in {"v1", "v1x"}
    BY <1>2
  <2>2. j + 1 \in DOMAIN p
    BY <1>2, <2>1
  <2>3. QED BY <2>1, <2>2 DEF OnlyV1
<1>9. QED BY <1>2, <1>5, <1>7, <1>8 DEF Folded

(* A step of one request leaves the table and the other requests alone.      *)
LEMMA OthersStay ==
  ASSUME IInv, NEW v \in Visitors, Send(v) \/ Connect(v) \/ ServeHTTP(v),
         NEW w \in Visitors \ {v}
  PROVE  /\ pc'[w] = pc[w] /\ req'[w] = req[w] /\ answer'[w] = answer[w] /\ id'[w] = id[w]
         /\ path'[w] = path[w] /\ tunnel'[w] = tunnel[w] /\ steady'[w] = steady[w]
<1>1. CASE Send(v) \/ Connect(v) \/ AnswerHealthz(v) \/ Redirect(v)
  BY <1>1 DEF IInv, TypeOK, Connect, Send, ConnectHTTP, Enqueue, HandshakeFails,
     AnswerHealthz, Redirect, Done, Goto, routing
<1>2. CASE Route(v)
  BY <1>2 DEF IInv, TypeOK, Route, Done, Goto
<1>3. CASE RoutePath(v)
  BY <1>3 DEF IInv, TypeOK, RoutePath, Done, Goto
<1>4. CASE RouteLabel(v)
  BY <1>4 DEF IInv, TypeOK, RouteLabel, Done, Goto
<1>5. CASE Lookup(v)
  BY <1>5 DEF IInv, TypeOK, Lookup, Done, Goto
<1>6. CASE OpenStream(v)
  BY <1>6 DEF IInv, TypeOK, OpenStream, Done, Goto, routing
<1>7. QED BY <1>1, <1>2, <1>3, <1>4, <1>5, <1>6 DEF ServeHTTP

(* What is owed to a request whose state a step leaves alone.                *)
LEMMA OwedStays ==
  ASSUME NEW w \in Visitors, SteadyAt(w), PathAt(w),
         UNCHANGED relay,
         /\ pc'[w] = pc[w] /\ req'[w] = req[w] /\ answer'[w] = answer[w] /\ id'[w] = id[w]
         /\ path'[w] = path[w] /\ tunnel'[w] = tunnel[w] /\ steady'[w] = steady[w]
  PROVE  SteadyAt(w)' /\ PathAt(w)'
<1>1. SteadyAt(w)'
  BY DEF SteadyAt, Names, Up, relay
<1>2. PathAt(w)'
  BY DEF PathAt, FoldedAt, ByPath
<1>3. QED BY <1>1, <1>2

(* Whatever the relay does to a tunnel, it ends the steadiness of its id if  *)
(* the tunnel is up no more.                                                *)
LEMMA TableChangesOwes ==
  ASSUME IInv, Owed, TableChanges
  PROVE  Owed'
<1>1. UNCHANGED <<queue, pc, req, id, path, tunnel, answer>>
  BY DEF TableChanges, routing
<1>2. ASSUME NEW v \in Visitors
      PROVE  SteadyAt(v)' /\ PathAt(v)'
  <2>1. steady'[v] = {i \in steady[v] : table'[i] = table[i] /\ Up(i)'}
    BY DEF TableChanges
  <2>2. \A i \in steady'[v] : i \in steady[v] /\ Up(i)' /\ table'[i] = table[i]
    BY <2>1
  <2>3. SteadyAt(v)'
    BY <1>1, <2>2 DEF Owed, SteadyAt, Names
  <2>4. PathAt(v)'
    BY <1>1 DEF Owed, PathAt, FoldedAt, ByPath
  <2>5. QED BY <2>3, <2>4
<1>3. QED BY <1>2 DEF Owed

(* Where a request is before the table is looked at.                        *)
EarlyPlaces == {"connect", "queued", "request", "path"}

(* Up to ServeHTTP a request is owed nothing yet but that its tunnels are up. *)
LEMMA EarlyOwes ==
  ASSUME IInv, NEW v \in Visitors, pc'[v] \in EarlyPlaces, answer'[v] = "",
         \A i \in steady'[v] : Up(i)'
  PROVE  SteadyAt(v)' /\ PathAt(v)'
BY DEF EarlyPlaces, SteadyAt, PathAt

(* Sent: the tunnels that are up are the steady ones.                       *)
LEMMA SendOwes ==
  ASSUME IInv, Owed, NEW v \in Visitors, Send(v)
  PROVE  SteadyAt(v)' /\ PathAt(v)'
<1>1. pc'[v] = "connect" /\ answer'[v] = answer[v] /\ UNCHANGED relay
  BY DEF Send, Goto, IInv, TypeOK
<1>2. answer[v] = ""
  BY DEF Send, IInv, Routed, RoutedAt
<1>3. steady'[v] = {i \in Ids : Up(i)}
  BY DEF Send, IInv, TypeOK
<1>4. \A i \in steady'[v] : Up(i)'
  BY <1>1, <1>3 DEF Up, relay
<1>5. QED BY <1>1, <1>2, <1>4, EarlyOwes DEF EarlyPlaces

(* From the connection to ServeHTTP, and round again by a redirect.         *)
LEMMA ArriveOwes ==
  ASSUME IInv, Owed, NEW v \in Visitors,
         \/ ConnectHTTP(v) \/ Enqueue(v) \/ Redirect(v)
         \/ Accept /\ v = Head(queue)
  PROVE  SteadyAt(v)' /\ PathAt(v)'
<1>1. UNCHANGED relay /\ answer' = answer /\ steady' = steady
  BY DEF ConnectHTTP, Enqueue, Redirect, Accept
<1>2. pc \in [Visitors -> Places] /\ \A i \in steady[v] : Up(i)
  BY DEF IInv, TypeOK, Places, Owed, SteadyAt
<1>3. pc'[v] \in EarlyPlaces
  BY <1>2 DEF ConnectHTTP, Enqueue, Redirect, Accept, Goto, EarlyPlaces
<1>4. pc[v] \in {"connect", "queued", "request"}
  <2>1. CASE Accept /\ v = Head(queue)
    <3>1. queue \in Seq(Visitors) /\ queue # <<>>
      BY <2>1 DEF IInv, TypeOK, Accept
    <3>2. v = queue[1] /\ 1 \in DOMAIN queue
      BY <2>1, <3>1
    <3>3. QED BY <3>2 DEF IInv, Waiting
  <2>2. QED BY <2>1 DEF ConnectHTTP, Enqueue, Redirect
<1>5. answer[v] = ""
  BY <1>4 DEF IInv, Routed, RoutedAt
<1>6. \A i \in steady'[v] : Up(i)'
  BY <1>1, <1>2 DEF Up, relay
<1>7. QED BY <1>1, <1>3, <1>5, <1>6, EarlyOwes

(* Only hosts that name no tunnel are refused a handshake; only a path that  *)
(* is no tunnel's is answered before the lookups.                           *)
LEMMA RefuseOwes ==
  ASSUME IInv, Owed, NEW v \in Visitors, HandshakeFails(v) \/ AnswerHealthz(v)
  PROVE  SteadyAt(v)' /\ PathAt(v)'
<1>1. UNCHANGED relay /\ steady' = steady /\ req' = req
  BY DEF HandshakeFails, AnswerHealthz
<1>2. steady[v] \in SUBSET Ids /\ \A i \in steady[v] : Up(i)
  BY DEF IInv, TypeOK, Owed, SteadyAt
<1>3. pc'[v] = "done" /\ answer'[v] \in {"no tls", "ok"}
  BY DEF HandshakeFails, AnswerHealthz, Done, Goto, IInv, TypeOK
<1>4. \A i \in Ids : ~Names(v, i)
  <2>1. CASE HandshakeFails(v)
    BY <2>1 DEF HandshakeFails, HasCertificate, AllowHost, Names, IsApex
  <2>2. CASE AnswerHealthz(v)
    <3>1. IsApex(req[v].host) /\ req[v].path = <<"healthz">>
      BY <2>2 DEF AnswerHealthz, Healthz
    <3>2. Head(req[v].path) = "healthz" /\ req[v].host.kind # "sub"
      BY <3>1 DEF IsApex
    <3>3. QED BY <3>1, <3>2, FrontAssumption DEF Names
  <2>3. QED BY <2>1, <2>2
<1>5. \A i \in Ids : ~Names(v, i)'
  BY <1>1, <1>4 DEF Names
<1>6. SteadyAt(v)'
  BY <1>1, <1>2, <1>5 DEF SteadyAt, Up, relay
<1>7. PathAt(v)'
  BY <1>3 DEF PathAt
<1>8. QED BY <1>6, <1>7

(* The three places where route decides.                                    *)
LEMMA RouteOwes ==
  ASSUME IInv, Owed, NEW v \in Visitors, Route(v)
  PROVE  SteadyAt(v)' /\ PathAt(v)'
<1> DEFINE h == req[v].host
<1>1. /\ UNCHANGED relay /\ steady' = steady /\ req' = req /\ path' = path
      /\ pc[v] = "request"
  BY DEF Route
<1>2. /\ answer[v] = "" /\ path[v] = req[v].path
      /\ steady[v] \in SUBSET Ids /\ \A i \in steady[v] : Up(i)
      /\ pc \in [Visitors -> Places] /\ answer \in [Visitors -> Answers]
      /\ id \in [Visitors -> Ids \cup {NoId}]
  BY <1>1 DEF IInv, TypeOK, Owed, SteadyAt, Routed, RoutedAt, Places
<1>3. \A i \in steady'[v] : Up(i)'
  BY <1>1, <1>2 DEF Up, relay
<1>4. \A i : Names(v, i)' <=> Names(v, i)
  BY <1>1 DEF Names
<1>5. CASE /\ h.kind = "sub"
           /\ id' = [id EXCEPT ![v] = h.first] /\ Goto(v, "lookup") /\ UNCHANGED answer
  <2>1. pc'[v] = "lookup" /\ id'[v] = h.first /\ answer'[v] = ""
    BY <1>2, <1>5 DEF Goto
  <2>2. \A i : Names(v, i) => i = h.first
    BY <1>5 DEF Names, IsApex
  <2>3. SteadyAt(v)'
    BY <1>3, <1>4, <2>1, <2>2 DEF SteadyAt
  <2>4. PathAt(v)'
    BY <1>1, <1>2, <2>1 DEF PathAt
  <2>5. QED BY <2>3, <2>4
<1>6. CASE IsApex(h) /\ path[v] = <<>> /\ Done(v, "landing")
  <2>1. pc'[v] = "done" /\ answer'[v] = "landing"
    BY <1>2, <1>6 DEF Done, Goto
  <2>2. \A i : ~Names(v, i)
    BY <1>2, <1>6 DEF Names, IsApex
  <2>3. SteadyAt(v)'
    BY <1>3, <1>4, <2>2 DEF SteadyAt
  <2>4. PathAt(v)'
    BY <2>1 DEF PathAt
  <2>5. QED BY <2>3, <2>4
<1>7. CASE Goto(v, "path") /\ UNCHANGED answer
  <2>1. pc'[v] = "path" /\ answer'[v] = ""
    BY <1>2, <1>7 DEF Goto
  <2>2. QED BY <1>3, <2>1, EarlyOwes DEF EarlyPlaces
<1>8. CASE /\ ~IsApex(h) /\ ~(h.kind = "sub" /\ Valid(h.first))
           /\ Goto(v, "label") /\ UNCHANGED answer
  <2>1. pc'[v] = "label" /\ answer'[v] = ""
    BY <1>2, <1>8 DEF Goto
  <2>2. \A i \in steady[v] : ~Names(v, i)
    BY <1>2, <1>8 DEF Names, Valid
  <2>3. SteadyAt(v)'
    BY <1>1, <1>3, <1>4, <2>2 DEF SteadyAt
  <2>4. PathAt(v)'
    BY <1>1, <1>2, <2>1 DEF PathAt
  <2>5. QED BY <2>3, <2>4
<1>9. QED BY <1>5, <1>6, <1>7, <1>8 DEF Route
(* A steady tunnel is known: its path leads to it, with the id taken off.    *)
LEMMA RoutePathOwes ==
  ASSUME IInv, Owed, NEW v \in Visitors, RoutePath(v)
  PROVE  SteadyAt(v)' /\ PathAt(v)'
<1>1. /\ UNCHANGED relay /\ steady' = steady /\ req' = req /\ answer' = answer
      /\ pc[v] = "path"
  BY DEF RoutePath
<1>2. /\ answer[v] = "" /\ path[v] = req[v].path /\ IsApex(req[v].host) /\ path[v] # <<>>
      /\ steady[v] \in SUBSET Ids /\ \A i \in steady[v] : Up(i)
      /\ pc \in [Visitors -> Places] /\ id \in [Visitors -> Ids \cup {NoId}]
      /\ path \in [Visitors -> Seq(Segments)]
  BY <1>1 DEF IInv, TypeOK, Owed, SteadyAt, Routed, RoutedAt, Places
<1>3. \A i \in steady'[v] : Up(i)'
  BY <1>1, <1>2 DEF Up, relay
<1>4. \A i : Names(v, i)' => i = Head(path[v])
  BY <1>1, <1>2 DEF Names, IsApex
<1>5. CASE /\ Known(Head(path[v]))
           /\ id'   = [id EXCEPT ![v] = Head(path[v])]
           /\ path' = [path EXCEPT ![v] = Tail(@)]
           /\ Goto(v, "lookup")
  <2>1. /\ pc'[v] = "lookup" /\ id'[v] = Head(path[v]) /\ path'[v] = Tail(path[v])
    BY <1>2, <1>5 DEF Goto
  <2>2. SteadyAt(v)'
    BY <1>3, <1>4, <2>1 DEF SteadyAt
  <2>3. PathAt(v)'
    BY <1>1, <1>2, <2>1 DEF PathAt, ByPath
  <2>4. QED BY <2>2, <2>3
<1>6. CASE ~Known(Head(path[v])) /\ Goto(v, "label") /\ UNCHANGED <<id, path>>
  <2>1. pc'[v] = "label"
    BY <1>2, <1>6 DEF Goto
  <2>2. \A i \in steady[v] : i # Head(path[v])
    BY <1>2, <1>6 DEF Known, Valid, Up
  <2>3. SteadyAt(v)'
    BY <1>1, <1>3, <1>4, <2>2 DEF SteadyAt
  <2>4. PathAt(v)'
    BY <1>1, <1>2, <1>6, <2>1 DEF PathAt
  <2>5. QED BY <2>3, <2>4
<1>7. QED BY <1>5, <1>6 DEF RoutePath

(* Only requests that name no steady tunnel come here.                      *)
LEMMA RouteLabelOwes ==
  ASSUME IInv, Owed, NEW v \in Visitors, RouteLabel(v)
  PROVE  SteadyAt(v)' /\ PathAt(v)'
<1>1. /\ UNCHANGED relay /\ steady' = steady /\ req' = req /\ path' = path
      /\ pc[v] = "label"
  BY DEF RouteLabel
<1>2. /\ answer[v] = "" /\ path[v] = req[v].path
      /\ \A i \in steady[v] : Up(i) /\ ~Names(v, i)
      /\ pc \in [Visitors -> Places] /\ answer \in [Visitors -> Answers]
  BY <1>1 DEF IInv, TypeOK, Owed, SteadyAt, PathAt, Routed, RoutedAt, Places
<1>3. SteadyAt(v)'
  BY <1>1, <1>2 DEF SteadyAt, Names, Up, relay
<1>4. \/ pc'[v] = "lookup" /\ answer'[v] = ""
      \/ pc'[v] = "done" /\ answer'[v] = "landing"
  BY <1>2 DEF RouteLabel, Done, Goto
<1>5. PathAt(v)'
  BY <1>1, <1>2, <1>4 DEF PathAt
<1>6. QED BY <1>3, <1>5

(* A steady tunnel serves; the path is rewritten once.                      *)
LEMMA LookupOwes ==
  ASSUME IInv, Owed, NEW v \in Visitors, Lookup(v)
  PROVE  SteadyAt(v)' /\ PathAt(v)'
<1>1. /\ UNCHANGED relay /\ steady' = steady /\ req' = req /\ id' = id
      /\ pc[v] = "lookup"
  BY DEF Lookup
<1>2. /\ answer[v] = ""
      /\ \A i \in steady[v] : Up(i) /\ (Names(v, i) => id[v] = i)
      /\ path[v] = req[v].path \/ (ByPath(v) /\ path[v] = Tail(req[v].path))
      /\ pc \in [Visitors -> Places] /\ answer \in [Visitors -> Answers]
      /\ path \in [Visitors -> Seq(Segments)]
      /\ tunnel \in [Visitors -> Tunnels \cup {NoTunnel}]
  BY <1>1 DEF IInv, TypeOK, Owed, SteadyAt, PathAt, Routed, RoutedAt, Places
<1>3. \A i \in steady'[v] : Up(i)' /\ table'[i] = table[i]
  BY <1>1, <1>2 DEF Up, relay
<1>4. \A i : Names(v, i)' <=> Names(v, i)
  BY <1>1 DEF Names
<1>5. CASE ~Serves(id[v]) /\ Done(v, "not found")
  <2>1. pc'[v] = "done" /\ answer'[v] = "not found"
    BY <1>2, <1>5 DEF Done, Goto
  <2>2. \A i \in steady[v] : ~Names(v, i)
    BY <1>2, <1>5 DEF Serves, Up
  <2>3. SteadyAt(v)'
    BY <1>1, <1>3, <1>4, <2>2 DEF SteadyAt
  <2>4. PathAt(v)'
    BY <2>1 DEF PathAt
  <2>5. QED BY <2>3, <2>4
<1>6. CASE /\ path'   = [path EXCEPT ![v] = Rewrite(path[v])]
           /\ tunnel' = [tunnel EXCEPT ![v] = table[id[v]]]
           /\ Done(v, "api") \/ (Goto(v, "open") /\ UNCHANGED answer)
  <2>1. /\ path'[v] = Rewrite(path[v]) /\ tunnel'[v] = table[id[v]]
        /\ \/ pc'[v] = "done" /\ answer'[v] = "api"
           \/ pc'[v] = "open" /\ answer'[v] = ""
    BY <1>2, <1>6 DEF Done, Goto
  <2>2. SteadyAt(v)'
    BY <1>1, <1>2, <1>3, <1>4, <2>1 DEF SteadyAt
  <2>3. FoldedAt(v)'
    <3>1. SUFFICES ASSUME OnlyV1(req[v].path)
                   PROVE  \/ Folded(path'[v], req[v].path)
                          \/ ByPath(v) /\ Folded(path'[v], Tail(req[v].path))
      BY <1>1, <1>2 DEF FoldedAt, ByPath
    <3>2. CASE path[v] = req[v].path
      BY <1>2, <2>1, <3>1, <3>2, RewriteFolds
    <3>3. CASE ByPath(v) /\ path[v] = Tail(req[v].path)
      <4>1. req[v].path \in Seq(Segments) /\ req[v].path # <<>>
        BY <3>3 DEF IInv, TypeOK, Request, ByPath
      <4>2. OnlyV1(path[v])
        BY <3>1, <3>3, <4>1 DEF OnlyV1
      <4>3. QED BY <1>2, <2>1, <3>3, <4>2, RewriteFolds
    <3>4. QED BY <1>2, <3>2, <3>3
  <2>4. PathAt(v)'
    BY <2>1, <2>3 DEF PathAt
  <2>5. QED BY <2>2, <2>4
<1>7. QED BY <1>5, <1>6 DEF Lookup

(* The session of a steady tunnel opens a stream.                           *)
LEMMA OpenStreamOwes ==
  ASSUME IInv, Owed, NEW v \in Visitors, OpenStream(v)
  PROVE  SteadyAt(v)' /\ PathAt(v)'
<1>1. /\ UNCHANGED <<relay, req, id, path, tunnel, steady>> /\ pc[v] = "open"
      /\ Done(v, IF session[tunnel[v]] = "open" THEN "stream" ELSE "busy")
  BY DEF OpenStream, routing
<1>2. /\ \A i \in steady[v] : Up(i) /\ (Names(v, i) => tunnel[v] = table[i])
      /\ FoldedAt(v)
  BY <1>1 DEF Owed, SteadyAt, PathAt
<1>3. /\ pc'[v] = "done"
      /\ answer'[v] = IF session[tunnel[v]] = "open" THEN "stream" ELSE "busy"
  BY <1>1 DEF Done, Goto, IInv, TypeOK
<1>4. \A i \in steady[v] : Names(v, i) => answer'[v] = "stream"
  BY <1>2, <1>3 DEF Up
<1>5. SteadyAt(v)'
  BY <1>1, <1>2, <1>3, <1>4 DEF SteadyAt, Names, Up, relay
<1>6. PathAt(v)'
  BY <1>1, <1>2, <1>3 DEF PathAt, FoldedAt, ByPath
<1>7. QED BY <1>5, <1>6

-----------------------------------------------------------------------------
(* Nothing has been sent.                                                   *)
LEMMA InitOwes == Init => Owed
BY DEF Init, Owed, SteadyAt, PathAt

(* Every step keeps what is owed.                                           *)
LEMMA NextOwes == IInv /\ Owed /\ [Next]_vars => Owed'
<1> SUFFICES ASSUME IInv, Owed, [Next]_vars PROVE Owed'
  OBVIOUS
<1>1. CASE TableChanges
  BY <1>1, TableChangesOwes
<1>2. CASE \E v \in Visitors : Send(v) \/ Connect(v) \/ ServeHTTP(v)
  <2>1. PICK v \in Visitors : Send(v) \/ Connect(v) \/ ServeHTTP(v)
    BY <1>2
  <2>2. SteadyAt(v)' /\ PathAt(v)'
    BY <2>1, SendOwes, ArriveOwes, RefuseOwes, RouteOwes, RoutePathOwes,
       RouteLabelOwes, LookupOwes, OpenStreamOwes DEF Connect, ServeHTTP
  <2>3. UNCHANGED relay
    BY <2>1 DEF Send, Connect, ConnectHTTP, Enqueue, HandshakeFails, ServeHTTP,
       AnswerHealthz, Redirect, Route, RoutePath, RouteLabel, Lookup, OpenStream
  <2>4. \A w \in Visitors \ {v} : SteadyAt(w)' /\ PathAt(w)'
    BY <2>1, <2>3, OthersStay, OwedStays DEF Owed
  <2>5. QED BY <2>2, <2>4 DEF Owed
<1>3. CASE Accept
  <2>1. PICK v \in Visitors : v = Head(queue)
    BY <1>3, HeadTailProperties DEF Accept, IInv, TypeOK
  <2>2. SteadyAt(v)' /\ PathAt(v)'
    BY <1>3, <2>1, ArriveOwes
  <2>3. /\ UNCHANGED <<relay, req, id, path, tunnel, answer, steady>>
        /\ \A w \in Visitors \ {v} : pc'[w] = pc[w]
    BY <1>3, <2>1 DEF Accept, Goto, routing, IInv, TypeOK
  <2>4. \A w \in Visitors \ {v} : SteadyAt(w)' /\ PathAt(w)'
    BY <2>3, OwedStays DEF Owed
  <2>5. QED BY <2>2, <2>4 DEF Owed
<1>4. CASE UNCHANGED vars
  BY <1>4, OwedStays DEF vars, relay, Owed
<1>5. QED BY <1>1, <1>2, <1>3, <1>4 DEF Next

(* A request that names a tunnel which is up all the while is not turned     *)
(* away, whatever happens to the other tunnels and however long the channel *)
(* makes it wait.                                                           *)
THEOREM SteadyTunnelsAreReached == Spec => []SteadyTunnelIsReached
<1>1. IInv /\ Owed => SteadyTunnelIsReached
  <2>1. ASSUME IInv, Owed, NEW v \in Visitors, pc[v] = "done",
               NEW i \in steady[v], Names(v, i)
        PROVE  answer[v] \in {"stream", "api"}
    BY <2>1 DEF Owed, SteadyAt
  <2>2. QED BY <2>1 DEF SteadyTunnelIsReached, Names
<1>2. QED BY <1>1, InitInv, NextInv, InitOwes, NextOwes, PTL DEF Spec

(* A tunnel is sent the path that was asked for.                            *)
THEOREM PathsArrive == Spec => []PathArrives
<1>1. IInv /\ Owed => PathArrives
  BY DEF Owed, PathAt, FoldedAt, OnlyV1, PathArrives
<1>2. QED BY <1>1, InitInv, NextInv, InitOwes, NextOwes, PTL DEF Spec
=============================================================================
