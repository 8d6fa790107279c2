------------------------------- MODULE Splice -------------------------------
(***************************************************************************)
(* The data plane: one visitor whose connection is spliced through a yamux *)
(* stream to a backend.  The relay's handler is Server.splice for an HTTP  *)
(* tunnel (internal/server/server.go) and the goroutine of listenTCP for a *)
(* TCP tunnel; the client's handler is handleStream                        *)
(* (internal/client/client.go).  Each runs two copy goroutines.            *)
(*                                                                         *)
(*        VR          RK          KB                                       *)
(*   V ------->  R ------->  K ------->  B        V visitor  R relay       *)
(*     <-------    <-------    <-------           B backend  K client      *)
(*        RV          KR          BK                                       *)
(*                                                                         *)
(* VR, RV, KB and BK are the directions of two TCP connections; RK and KR  *)
(* those of the stream.  Bytes are counted in chunks.  A stream has Close  *)
(* and no CloseWrite, so closeWrite on a stream does nothing.              *)
(***************************************************************************)
EXTENDS Integers

CONSTANTS
  Modes,     \* the kinds of tunnel: a subset of {"http", "tcp"}
  MaxSent    \* chunks that an end of the splice sends: a bound for TLC

ASSUME SpliceAssumption ==
  Modes \subseteq {"http", "tcp"} /\ MaxSent \in Nat \ {0}

Ends    == {"V", "B"}
Links   == {"VR", "RK", "KB", "BK", "KR", "RV"}
Copiers == {"UpR", "DownR", "UpK", "DownK"}

Out  == [e \in Ends |-> IF e = "V" THEN "VR" ELSE "BK"]
In   == [e \in Ends |-> IF e = "V" THEN "RV" ELSE "KB"]
From == [UpR |-> "VR", UpK |-> "RK", DownK |-> "BK", DownR |-> "KR"]
Into == [UpR |-> "RK", UpK |-> "KB", DownK |-> "KR", DownR |-> "RV"]

VARIABLES
  mode,      \* which handler the relay runs
  relay,     \* the relay's handler: "open", "request", "splice", "closed"
  agent,     \* the client's: "none" (the stream not accepted), "splice", "closed"
  session,   \* the yamux session: "up", "down"
  data,      \* chunks on a link
  fin,       \* has the writer of a link ended it, behind the data?
  gone,      \* has the reader of a link closed its end?
  copier,    \* a copy goroutine: "off", "on", "ended"
  hand,      \* chunks it has read and not written
  sent, got  \* chunks an end has sent and received

vars == <<mode, relay, agent, session, data, fin, gone, copier, hand, sent, got>>

handlers == <<mode, relay, agent, session>>
copies   == <<copier, hand>>
peers    == <<sent, got>>

TypeOK ==
  /\ mode    \in Modes
  /\ relay   \in {"open", "request", "splice", "closed"}
  /\ agent   \in {"none", "splice", "closed"}
  /\ session \in {"up", "down"}
  /\ data    \in [Links -> Nat]
  /\ fin     \in [Links -> BOOLEAN]
  /\ gone    \in [Links -> BOOLEAN]
  /\ copier  \in [Copiers -> {"off", "on", "ended"}]
  /\ hand    \in [Copiers -> {0, 1}]
  /\ sent    \in [Ends -> 0 .. MaxSent]
  /\ got     \in [Ends -> 0 .. MaxSent]

(* A splice begins when a TCP connection has been accepted, or when the      *)
(* HTTP server has read a request.                                          *)
Init ==
  /\ mode    \in Modes
  /\ relay   = "open"
  /\ agent   = "none"
  /\ session = "up"
  /\ data    = [l \in Links |-> IF l = "VR" /\ mode = "http" THEN 1 ELSE 0]
  /\ fin     = [l \in Links |-> FALSE]
  /\ gone    = [l \in Links |-> FALSE]
  /\ copier  = [g \in Copiers |-> "off"]
  /\ hand    = [g \in Copiers |-> 0]
  /\ sent    = [e \in Ends |-> IF e = "V" /\ mode = "http" THEN 1 ELSE 0]
  /\ got     = [e \in Ends |-> 0]

Started(gs) == [g \in Copiers |-> IF g \in gs THEN "on" ELSE copier[g]]

(* Closing a connection ends what it writes and abandons what it reads.     *)
Close(written, read) ==
  /\ fin'  = [l \in Links |-> fin[l] \/ l \in written]
  /\ gone' = [l \in Links |-> gone[l] \/ l \in read]

-----------------------------------------------------------------------------
(* The visitor and the backend.                                             *)

Connected(e) == e = "B" => agent # "none"

Send(e) ==
  /\ Connected(e)
  /\ ~fin[Out[e]]
  /\ sent[e] < MaxSent
  /\ data' = [data EXCEPT ![Out[e]] = @ + 1]
  /\ sent' = [sent EXCEPT ![e] = @ + 1]
  /\ UNCHANGED <<handlers, fin, gone, copies, got>>

Receive(e) ==
  /\ ~gone[In[e]]
  /\ data[In[e]] > 0
  /\ data' = [data EXCEPT ![In[e]] = @ - 1]
  /\ got'  = [got EXCEPT ![e] = @ + 1]
  /\ UNCHANGED <<handlers, fin, gone, copies, sent>>

(* It shuts down its sending side and goes on reading.                      *)
HalfClose(e) ==
  /\ Connected(e)
  /\ ~fin[Out[e]]
  /\ fin' = [fin EXCEPT ![Out[e]] = TRUE]
  /\ UNCHANGED <<handlers, data, gone, copies, peers>>

Leave(e) ==
  /\ Connected(e)
  /\ ~gone[In[e]]
  /\ Close({Out[e]}, {In[e]})
  /\ UNCHANGED <<handlers, data, copies, peers>>

(* It has read the end of what its peer sends.                              *)
SawEnd(e) == ~gone[In[e]] /\ fin[In[e]] /\ data[In[e]] = 0

-----------------------------------------------------------------------------
(* A copy goroutine: io.Copy, and closeWrite where the code calls it.       *)

\* Mutant of CopyRead: what is read stays in the buffer.
CopyReadAgain(g) ==
  /\ copier[g] = "on" /\ hand[g] = 0
  /\ data[From[g]] > 0 /\ ~gone[From[g]]
  /\ hand' = [hand EXCEPT ![g] = 1]
  /\ UNCHANGED <<handlers, data, fin, gone, copier, peers>>

CopyRead(g) ==
  /\ copier[g] = "on" /\ hand[g] = 0
  /\ data[From[g]] > 0 /\ ~gone[From[g]]
  /\ data' = [data EXCEPT ![From[g]] = @ - 1]
  /\ hand' = [hand EXCEPT ![g] = 1]
  /\ UNCHANGED <<handlers, fin, gone, copier, peers>>

(* What is written to a connection whose reader has closed it is lost.      *)
CopyWrite(g) ==
  /\ copier[g] = "on" /\ hand[g] = 1
  /\ ~fin[Into[g]]
  /\ data' = IF gone[Into[g]] THEN data ELSE [data EXCEPT ![Into[g]] = @ + 1]
  /\ hand' = [hand EXCEPT ![g] = 0]
  /\ UNCHANGED <<handlers, fin, gone, copier, peers>>

\* Mutant of HalfClosed: the client's copy to the backend has no CloseWrite.
HalfClosedRelayOnly(g) == IF g = "DownR" /\ mode = "http" THEN {"RV"} ELSE {}

(* The link that a goroutine half-closes when its copy ends.                *)
HalfClosed(g) ==
  IF g = "UpK" THEN {"KB"}
  ELSE IF g = "DownR" /\ mode = "http" THEN {"RV"}
  ELSE {}

CopyStops(g) ==
  /\ copier[g] = "on"
  /\ copier' = [copier EXCEPT ![g] = "ended"]
  /\ hand'   = [hand EXCEPT ![g] = 0]
  /\ fin'    = [l \in Links |-> fin[l] \/ l \in HalfClosed(g)]
  /\ UNCHANGED <<handlers, data, gone, peers>>

(* The write fails: this side has closed the connection, or the peer has    *)
(* and has answered an earlier write with a reset.                          *)
CopyWriteFails(g) ==
  /\ hand[g] = 1
  /\ fin[Into[g]] \/ gone[Into[g]]
  /\ CopyStops(g)

(* The read returns the end of the input, or this side has closed it.       *)
CopyEnds(g) ==
  /\ hand[g] = 0
  /\ gone[From[g]] \/ (fin[From[g]] /\ data[From[g]] = 0)
  /\ CopyStops(g)

Copy(g) == CopyRead(g) \/ CopyWrite(g) \/ CopyWriteFails(g) \/ CopyEnds(g)

-----------------------------------------------------------------------------
(* The relay's handler.                                                     *)

OpenStream ==
  /\ relay = "open" /\ session = "up"
  /\ \/ mode = "http" /\ relay' = "request" /\ UNCHANGED copier
     \/ mode = "tcp"  /\ relay' = "splice"  /\ copier' = Started({"UpR", "DownR"})
  /\ UNCHANGED <<mode, agent, session, data, fin, gone, hand, peers>>

(* Session.Open fails.  The HTTP handler answers 502 and leaves the visitor's *)
(* connection to the HTTP server; that of TCP closes it.                    *)
OpenFails ==
  /\ relay = "open" /\ session = "down"
  /\ relay' = "closed"
  /\ \/ mode = "http" /\ UNCHANGED <<fin, gone>>
     \/ mode = "tcp"  /\ Close({"RV"}, {"VR"})
  /\ UNCHANGED <<mode, agent, session, data, copies, peers>>

(* r.Write fails, also for a body that the visitor cut short.               *)
WriteFails ==
  /\ relay = "request"
  /\ session = "down" \/ fin["VR"]
  /\ relay' = "closed"
  /\ Close({"RV", "RK"}, {"VR", "KR"})
  /\ UNCHANGED <<mode, agent, session, data, copies, peers>>

(* r.Write forwards the request; then both copies start.                    *)
WriteRequest ==
  /\ relay = "request" /\ session = "up"
  /\ data'   = [data EXCEPT !["VR"] = @ - 1,
                            !["RK"] = IF gone["RK"] THEN @ ELSE @ + 1]
  /\ relay'  = "splice"
  /\ copier' = Started({"UpR", "DownR"})
  /\ UNCHANGED <<mode, agent, session, fin, gone, hand, peers>>

\* Mutant of RelayDone: the HTTP handler, too, waits for one copy only.
RelayDoneEarly == \E g \in {"UpR", "DownR"} : copier[g] = "ended"

\* Mutant of RelayDone: the TCP handler, too, waits for both copies.
RelayDoneLate == \A g \in {"UpR", "DownR"} : copier[g] = "ended"

(* splice of HTTP takes two values from errc, splice of TCP one.            *)
RelayDone ==
  IF mode = "http" THEN \A g \in {"UpR", "DownR"} : copier[g] = "ended"
                   ELSE \E g \in {"UpR", "DownR"} : copier[g] = "ended"

\* Mutant of RelayReturns: the deferred stream.Close is missing.
RelayLeaksStream ==
  /\ relay = "splice" /\ RelayDone
  /\ relay' = "closed"
  /\ Close({"RV"}, {"VR"})
  /\ UNCHANGED <<mode, agent, session, data, copies, peers>>

RelayReturns ==
  /\ relay = "splice" /\ RelayDone
  /\ relay' = "closed"
  /\ Close({"RV", "RK"}, {"VR", "KR"})
  /\ UNCHANGED <<mode, agent, session, data, copies, peers>>

Relay == OpenStream \/ OpenFails \/ WriteFails \/ WriteRequest \/ RelayReturns

-----------------------------------------------------------------------------
(* The client's handler.                                                    *)

Offered == agent = "none" /\ relay # "open" /\ session = "up"

DialBackend ==
  /\ Offered
  /\ agent'  = "splice"
  /\ copier' = Started({"UpK", "DownK"})
  /\ UNCHANGED <<mode, relay, session, data, fin, gone, hand, peers>>

(* The stream is closed; there is no connection to a backend.               *)
DialFails ==
  /\ Offered
  /\ agent' = "closed"
  /\ Close({"KR", "BK", "KB"}, {"RK", "BK", "KB"})
  /\ UNCHANGED <<mode, relay, session, data, copies, peers>>

\* Mutant of AgentReturns: the deferred stream.Close is missing.
AgentLeaksStream ==
  /\ agent = "splice"
  /\ \A g \in {"UpK", "DownK"} : copier[g] = "ended"
  /\ agent' = "closed"
  /\ Close({"KB"}, {"BK"})
  /\ UNCHANGED <<mode, relay, session, data, copies, peers>>

AgentReturns ==
  /\ agent = "splice"
  /\ \A g \in {"UpK", "DownK"} : copier[g] = "ended"
  /\ agent' = "closed"
  /\ Close({"KB", "KR"}, {"BK", "RK"})
  /\ UNCHANGED <<mode, relay, session, data, copies, peers>>

Agent == DialBackend \/ DialFails \/ AgentReturns

(* The session ends: reads of its streams return what has arrived and then  *)
(* the end, writes fail, and chunks on the way may be lost.                 *)
SessionDies ==
  /\ session = "up"
  /\ session' = "down"
  /\ \E up \in 0 .. data["RK"], down \in 0 .. data["KR"] :
       data' = [data EXCEPT !["RK"] = up, !["KR"] = down]
  /\ fin' = [l \in Links |-> fin[l] \/ l \in {"RK", "KR"}]
  /\ UNCHANGED <<mode, relay, agent, gone, copies, peers>>

-----------------------------------------------------------------------------
Next ==
  \/ \E e \in Ends : Send(e) \/ Receive(e) \/ HalfClose(e) \/ Leave(e)
  \/ \E g \in Copiers : Copy(g)
  \/ Relay \/ Agent \/ SessionDies

Spec == Init /\ [][Next]_vars

(* Goroutines that can run do run.  Of the two ends it is assumed that they *)
(* read what arrives and leave once they have read the end of it; nothing   *)
(* makes them send, shut down or leave before that.                         *)
Fairness ==
  /\ \A g \in Copiers : WF_vars(Copy(g))
  /\ WF_vars(Relay) /\ WF_vars(Agent)
  /\ \A e \in Ends : WF_vars(Receive(e)) /\ WF_vars(SawEnd(e) /\ Leave(e))

LiveSpec == Spec /\ Fairness

-----------------------------------------------------------------------------
Spliced == copier["DownR"] # "off"

(* Nothing is cut off an HTTP answer while the session lives: a visitor     *)
(* that reads the end of the answer has read all the backend has sent and   *)
(* the backend has ended it.                                                *)
AnswerComplete ==
  mode = "http" /\ session = "up" /\ Spliced /\ SawEnd("V") =>
    got["V"] = sent["B"] /\ fin["BK"]

(* Nor off what an HTTP visitor sends: a backend that reads the end of it   *)
(* has read everything.                                                     *)
RequestComplete ==
  mode = "http" /\ session = "up" /\ Spliced /\ SawEnd("B") =>
    got["B"] = sent["V"] /\ fin["VR"]

(* The pipe may lose chunks when its session has died or its handler has    *)
(* failed before it spliced; that of a TCP tunnel always.                   *)
Broken == mode = "tcp" \/ session = "down" \/ (relay = "closed" /\ ~Spliced)

Reader(e) == IF gone[In[e]] THEN "left" ELSE IF SawEnd(e) THEN "end" ELSE "reading"

Pipe == INSTANCE Pipe WITH
  ended  <- [e \in Ends |-> fin[Out[e]]],
  at     <- [e \in Ends |-> Reader(e)],
  broken <- Broken

(* Six links, four copies and two handlers that end separately are a pipe    *)
(* to visitor and backend: no chunk is invented or doubled, none follows    *)
(* the end, and none is missing before it in an HTTP tunnel whose session    *)
(* lives.                                                                   *)
ImplementsPipe == Pipe!Spec

Over == relay = "closed" /\ agent # "splice"

(* A dead session ends every splice over it, on both sides.                 *)
SessionEndsSplice == session = "down" ~> Over

(* A TCP splice ends on both sides once the visitor has ended its sending:  *)
(* no goroutine or socket stays behind.                                     *)
TCPSpliceEnds == mode = "tcp" /\ fin["VR"] ~> Over

(* When the client's handler is done the visitor is told.                   *)
AgentEndReachesVisitor == agent = "closed" ~> SawEnd("V") \/ gone["RV"]

(* When the relay's handler is done the client's ends as well.              *)
RelayEndReachesAgent == relay = "closed" ~> agent # "splice"

-----------------------------------------------------------------------------
(* README.md, Protocol: the relay opens a stream and splices bytes, and     *)
(* WebSockets work.  So when the backend ends its answer and the session    *)
(* lives, the visitor gets to read the end of it.                           *)
EndOfAnswerArrives ==
  mode = "http" /\ relay = "splice" /\ fin["BK"]
    ~> SawEnd("V") \/ gone["RV"] \/ session = "down"
=============================================================================
