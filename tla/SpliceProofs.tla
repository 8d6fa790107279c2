----------------------------- MODULE SpliceProofs -----------------------------
(***************************************************************************)
(* Theorems about Splice: what an HTTP visitor and a backend send each     *)
(* other is complete when the end of it is read.                           *)
(*                                                                         *)
(* The invariant counts chunks (Counted), says in which order goroutines   *)
(* and connections end (Ordered), and, for each way, that as long as its   *)
(* reader is there nothing is lost on it and a copy that has ended has      *)
(* drained what it read from (Up, Down).                                   *)
(***************************************************************************)
EXTENDS Splice, TLAPS

UpSum   == got["B"] + data["KB"] + hand["UpK"] + data["RK"] + hand["UpR"] + data["VR"]
DownSum == got["V"] + data["RV"] + hand["DownR"] + data["KR"] + hand["DownK"] + data["BK"]

Counted ==
  /\ UpSum <= sent["V"] /\ DownSum <= sent["B"]
  /\ relay \in {"open", "request"} /\ mode = "http" => data["VR"] > 0
  /\ agent = "none" => sent["B"] = 0
  /\ \A g \in Copiers : copier[g] # "on" => hand[g] = 0

Ordered ==
  /\ relay = "request" => mode = "http"
  /\ relay \in {"open", "request"} => copier["UpR"] = "off" /\ copier["DownR"] = "off"
  /\ relay = "splice" => copier["UpR"] # "off" /\ copier["DownR"] # "off"
  /\ relay = "closed" /\ mode = "http" => copier["UpR"] # "on" /\ copier["DownR"] # "on"
  /\ copier["UpR"] = "off" <=> copier["DownR"] = "off"
  /\ agent = "none" => copier["UpK"] = "off" /\ copier["DownK"] = "off"
  /\ agent = "splice" => copier["UpK"] # "off" /\ copier["DownK"] # "off"
  /\ agent = "closed" => copier["UpK"] # "on" /\ copier["DownK"] # "on"
  /\ agent = "closed" /\ copier["DownK"] = "off" => sent["B"] = 0 /\ fin["BK"]
  /\ copier["UpK"] = "off" <=> copier["DownK"] = "off"
  /\ agent = "closed" /\ copier["UpK"] = "off" => gone["KB"]
  /\ gone["VR"] \/ gone["KR"] => relay = "closed"
  /\ gone["RK"] \/ gone["BK"] => agent = "closed"
  /\ session = "up" /\ fin["RK"] => relay = "closed"
  /\ session = "up" /\ fin["KR"] => agent = "closed"
  /\ fin["RV"] => relay = "closed" \/ copier["DownR"] = "ended"
  /\ fin["KB"] => gone["KB"] \/ copier["UpK"] = "ended"

(* An HTTP splice over a live session that has not failed before it began.   *)
Running == mode = "http" /\ session = "up" /\ (relay = "closed" => copier["DownR"] # "off")

Up ==
  Running /\ ~gone["KB"] =>
    /\ UpSum = sent["V"]
    /\ copier["UpR"] = "ended" => fin["VR"] /\ data["VR"] = 0
    /\ copier["UpK"] = "ended" => relay = "closed" /\ data["RK"] = 0

Down ==
  Running /\ ~gone["RV"] =>
    /\ DownSum = sent["B"]
    /\ copier["DownK"] = "ended" => fin["BK"] /\ data["BK"] = 0
    /\ copier["DownR"] = "ended" => agent = "closed" /\ data["KR"] = 0

Inv == TypeOK /\ Counted /\ Ordered /\ Up /\ Down

-----------------------------------------------------------------------------
(* What the variables are, entry by entry.                                  *)
LEMMA Entries ==
  ASSUME TypeOK
  PROVE  /\ \A l \in Links : data[l] \in Nat /\ fin[l] \in BOOLEAN /\ gone[l] \in BOOLEAN
         /\ \A g \in Copiers : copier[g] \in {"off", "on", "ended"} /\ hand[g] \in {0, 1}
         /\ \A e \in Ends : sent[e] \in 0 .. MaxSent /\ got[e] \in 0 .. MaxSent
         /\ MaxSent \in Nat
BY SpliceAssumption DEF TypeOK

(* Nothing has been sent.                                                   *)
LEMMA InitInv == Init => Inv
<1> SUFFICES ASSUME Init PROVE Inv
  OBVIOUS
<1>1. TypeOK
  BY SpliceAssumption DEF Init, TypeOK, Links, Ends, Copiers
<1>2. Counted /\ Ordered /\ Up /\ Down
  BY DEF Init, Counted, Ordered, Up, Down, Running, UpSum, DownSum, Links, Ends, Copiers
<1> QED
  BY <1>1, <1>2 DEF Inv

(* The two ends.                                                            *)
LEMMA SendInv == ASSUME Inv, NEW e \in Ends, Send(e) PROVE Inv'
<1> USE Entries DEF Links, Ends, Copiers
<1>1. TypeOK'
  BY DEF Inv, Send, TypeOK, handlers, copies, Out
<1>2. CASE e = "V"
  <2>1. /\ data' = [data EXCEPT !["VR"] = @ + 1] /\ sent' = [sent EXCEPT !["V"] = @ + 1]
        /\ ~fin["VR"]
        /\ UNCHANGED <<handlers, fin, gone, copies, got>>
    BY <1>2 DEF Send, Out
  <2>10. Counted'
    BY <2>1 DEF Inv, Counted, UpSum, DownSum, handlers, copies, TypeOK
  <2>11. Ordered'
    BY <2>1 DEF Inv, Ordered, Counted, handlers, copies
  <2>12. Up'
    BY <2>1 DEF Inv, Up, Running, UpSum, handlers, copies, TypeOK
  <2>13. Down'
    BY <2>1 DEF Inv, Down, Counted, Running, DownSum, handlers, copies, TypeOK
  <2> QED
    BY <1>1, <2>10, <2>11, <2>12, <2>13 DEF Inv
<1>3. CASE e = "B"
  <2>1. /\ data' = [data EXCEPT !["BK"] = @ + 1] /\ sent' = [sent EXCEPT !["B"] = @ + 1]
        /\ ~fin["BK"] /\ agent # "none"
        /\ UNCHANGED <<handlers, fin, gone, copies, got>>
    BY <1>3 DEF Send, Out, Connected
  <2> QED
    BY <1>1, <2>1 DEF Inv, Counted, Ordered, Up, Down, Running, UpSum, DownSum, handlers, copies, TypeOK
<1> QED
  BY <1>2, <1>3

(* A chunk that is received leaves its link.                                *)
LEMMA ReceiveInv == ASSUME Inv, NEW e \in Ends, Receive(e) PROVE Inv'
<1> USE Entries DEF Links, Ends, Copiers
<1>1. CASE e = "V"
  <2>1. /\ data' = [data EXCEPT !["RV"] = @ - 1] /\ got' = [got EXCEPT !["V"] = @ + 1]
        /\ data["RV"] > 0
        /\ UNCHANGED <<handlers, fin, gone, copies, sent>>
    BY <1>1 DEF Receive, In
  <2>2. TypeOK'
    BY <2>1 DEF Inv, TypeOK, Counted, DownSum, handlers, copies
  <2> QED
    BY <2>1, <2>2 DEF Inv, Counted, Ordered, Up, Down, Running, UpSum, DownSum, handlers, copies, TypeOK
<1>2. CASE e = "B"
  <2>1. /\ data' = [data EXCEPT !["KB"] = @ - 1] /\ got' = [got EXCEPT !["B"] = @ + 1]
        /\ data["KB"] > 0
        /\ UNCHANGED <<handlers, fin, gone, copies, sent>>
    BY <1>2 DEF Receive, In
  <2>2. TypeOK'
    BY <2>1 DEF Inv, TypeOK, Counted, UpSum, handlers, copies
  <2>10. Counted'
    BY <2>1 DEF Inv, Counted, UpSum, DownSum, handlers, copies, TypeOK
  <2>11. Ordered'
    BY <2>1 DEF Inv, Ordered, Counted, handlers, copies
  <2>12. Up'
    BY <2>1 DEF Inv, Up, Running, UpSum, handlers, copies, TypeOK
  <2>13. Down'
    BY <2>1 DEF Inv, Down, Counted, Running, DownSum, handlers, copies, TypeOK
  <2> QED
    BY <2>2, <2>10, <2>11, <2>12, <2>13 DEF Inv
<1> QED
  BY <1>1, <1>2

(* An end shuts down its sending side behind its data.                      *)
LEMMA HalfCloseInv == ASSUME Inv, NEW e \in Ends, HalfClose(e) PROVE Inv'
<1> USE Entries DEF Links, Ends, Copiers
<1>1. TypeOK'
  BY DEF Inv, HalfClose, TypeOK, handlers, copies, peers, Out
<1>2. fin' = [fin EXCEPT ![IF e = "V" THEN "VR" ELSE "BK"] = TRUE]
  BY DEF HalfClose, Out
<1> QED
  BY <1>1, <1>2 DEF HalfClose, Inv, Counted, Ordered, Up, Down, Running, UpSum, DownSum, handlers, copies, peers, TypeOK

(* A link whose reader has gone is counted no more.                         *)
LEMMA LeaveInv == ASSUME Inv, NEW e \in Ends, Leave(e) PROVE Inv'
<1> USE Entries DEF Links, Ends, Copiers
<1>1. TypeOK'
  BY DEF Inv, Leave, Close, TypeOK, handlers, copies, peers
<1>2. /\ fin' = [l \in Links |-> fin[l] \/ l = IF e = "V" THEN "VR" ELSE "BK"]
      /\ gone' = [l \in Links |-> gone[l] \/ l = IF e = "V" THEN "RV" ELSE "KB"]
  BY DEF Leave, Close, Out, In
<1> QED
  BY <1>1, <1>2 DEF Leave, Inv, Counted, Ordered, Up, Down, Running, UpSum, DownSum, handlers, copies, peers, TypeOK

(* The copy goroutines.                                                     *)
LEMMA CopyReadInv == ASSUME Inv, NEW g \in Copiers, CopyRead(g) PROVE Inv'
<1> USE Entries DEF Links, Ends, Copiers
<1>1. TypeOK'
  BY DEF Inv, CopyRead, TypeOK, handlers, peers, From
<1>2. CASE g = "UpR"
  <2>1. /\ copier["UpR"] = "on" /\ hand["UpR"] = 0 /\ data["VR"] > 0
        /\ data' = [data EXCEPT !["VR"] = @ - 1] /\ hand' = [hand EXCEPT !["UpR"] = 1]
        /\ UNCHANGED <<handlers, fin, gone, copier, peers>>
    BY <1>2 DEF CopyRead, From, Into
  <2>2. Counted'
    BY <2>1 DEF Inv, Counted, UpSum, DownSum, Ordered, handlers, peers, TypeOK
  <2>3. Ordered'
    BY <2>1 DEF Inv, Ordered, Counted, handlers, peers, TypeOK
  <2>4. Up'
    BY <2>1 DEF Inv, Up, Running, UpSum, Counted, Ordered, handlers, peers, TypeOK
  <2>5. Down'
    BY <2>1 DEF Inv, Down, Running, DownSum, Counted, Ordered, handlers, peers, TypeOK
  <2> QED
    BY <1>1, <2>2, <2>3, <2>4, <2>5 DEF Inv
<1>3. CASE g = "UpK"
  <2>1. /\ copier["UpK"] = "on" /\ hand["UpK"] = 0 /\ data["RK"] > 0
        /\ data' = [data EXCEPT !["RK"] = @ - 1] /\ hand' = [hand EXCEPT !["UpK"] = 1]
        /\ UNCHANGED <<handlers, fin, gone, copier, peers>>
    BY <1>3 DEF CopyRead, From, Into
  <2>2. Counted'
    BY <2>1 DEF Inv, Counted, UpSum, DownSum, Ordered, handlers, peers, TypeOK
  <2>3. Ordered'
    BY <2>1 DEF Inv, Ordered, Counted, handlers, peers, TypeOK
  <2>4. Up'
    BY <2>1 DEF Inv, Up, Running, UpSum, Counted, Ordered, handlers, peers, TypeOK
  <2>5. Down'
    BY <2>1 DEF Inv, Down, Running, DownSum, Counted, Ordered, handlers, peers, TypeOK
  <2> QED
    BY <1>1, <2>2, <2>3, <2>4, <2>5 DEF Inv
<1>4. CASE g = "DownK"
  <2>1. /\ copier["DownK"] = "on" /\ hand["DownK"] = 0 /\ data["BK"] > 0
        /\ data' = [data EXCEPT !["BK"] = @ - 1] /\ hand' = [hand EXCEPT !["DownK"] = 1]
        /\ UNCHANGED <<handlers, fin, gone, copier, peers>>
    BY <1>4 DEF CopyRead, From, Into
  <2>2. Counted'
    BY <2>1 DEF Inv, Counted, UpSum, DownSum, Ordered, handlers, peers, TypeOK
  <2>3. Ordered'
    BY <2>1 DEF Inv, Ordered, Counted, handlers, peers, TypeOK
  <2>4. Up'
    BY <2>1 DEF Inv, Up, Running, UpSum, Counted, Ordered, handlers, peers, TypeOK
  <2>5. Down'
    BY <2>1 DEF Inv, Down, Running, DownSum, Counted, Ordered, handlers, peers, TypeOK
  <2> QED
    BY <1>1, <2>2, <2>3, <2>4, <2>5 DEF Inv
<1>5. CASE g = "DownR"
  <2>1. /\ copier["DownR"] = "on" /\ hand["DownR"] = 0 /\ data["KR"] > 0
        /\ data' = [data EXCEPT !["KR"] = @ - 1] /\ hand' = [hand EXCEPT !["DownR"] = 1]
        /\ UNCHANGED <<handlers, fin, gone, copier, peers>>
    BY <1>5 DEF CopyRead, From, Into
  <2>2. Counted'
    BY <2>1 DEF Inv, Counted, UpSum, DownSum, Ordered, handlers, peers, TypeOK
  <2>3. Ordered'
    BY <2>1 DEF Inv, Ordered, Counted, handlers, peers, TypeOK
  <2>4. Up'
    BY <2>1 DEF Inv, Up, Running, UpSum, Counted, Ordered, handlers, peers, TypeOK
  <2>5. Down'
    BY <2>1 DEF Inv, Down, Running, DownSum, Counted, Ordered, handlers, peers, TypeOK
  <2> QED
    BY <1>1, <2>2, <2>3, <2>4, <2>5 DEF Inv
<1> QED
  BY <1>2, <1>3, <1>4, <1>5

(* The chunk in hand goes onto the next link.                               *)
LEMMA CopyWriteInv == ASSUME Inv, NEW g \in Copiers, CopyWrite(g) PROVE Inv'
<1> USE Entries DEF Links, Ends, Copiers
<1>1. TypeOK'
  BY DEF Inv, CopyWrite, TypeOK, handlers, peers, Into
<1>2. CASE g = "UpR"
  <2>1. /\ copier["UpR"] = "on" /\ hand["UpR"] = 1 /\ ~fin["RK"]
        /\ data' = IF gone["RK"] THEN data ELSE [data EXCEPT !["RK"] = @ + 1]
        /\ hand' = [hand EXCEPT !["UpR"] = 0]
        /\ UNCHANGED <<handlers, fin, gone, copier, peers>>
    BY <1>2 DEF CopyWrite, From, Into
  <2>2. Counted'
    BY <2>1 DEF Inv, Counted, UpSum, DownSum, Ordered, handlers, peers, TypeOK
  <2>3. Ordered'
    BY <2>1 DEF Inv, Ordered, Counted, handlers, peers, TypeOK
  <2>4. Up'
    BY <2>1 DEF Inv, Up, Running, UpSum, Counted, Ordered, handlers, peers, TypeOK
  <2>5. Down'
    BY <2>1 DEF Inv, Down, Running, DownSum, Counted, Ordered, handlers, peers, TypeOK
  <2> QED
    BY <1>1, <2>2, <2>3, <2>4, <2>5 DEF Inv
<1>3. CASE g = "UpK"
  <2>1. /\ copier["UpK"] = "on" /\ hand["UpK"] = 1 /\ ~fin["KB"]
        /\ data' = IF gone["KB"] THEN data ELSE [data EXCEPT !["KB"] = @ + 1]
        /\ hand' = [hand EXCEPT !["UpK"] = 0]
        /\ UNCHANGED <<handlers, fin, gone, copier, peers>>
    BY <1>3 DEF CopyWrite, From, Into
  <2>2. Counted'
    BY <2>1 DEF Inv, Counted, UpSum, DownSum, Ordered, handlers, peers, TypeOK
  <2>3. Ordered'
    BY <2>1 DEF Inv, Ordered, Counted, handlers, peers, TypeOK
  <2>4. Up'
    BY <2>1 DEF Inv, Up, Running, UpSum, Counted, Ordered, handlers, peers, TypeOK
  <2>5. Down'
    BY <2>1 DEF Inv, Down, Running, DownSum, Counted, Ordered, handlers, peers, TypeOK
  <2> QED
    BY <1>1, <2>2, <2>3, <2>4, <2>5 DEF Inv
<1>4. CASE g = "DownK"
  <2>1. /\ copier["DownK"] = "on" /\ hand["DownK"] = 1 /\ ~fin["KR"]
        /\ data' = IF gone["KR"] THEN data ELSE [data EXCEPT !["KR"] = @ + 1]
        /\ hand' = [hand EXCEPT !["DownK"] = 0]
        /\ UNCHANGED <<handlers, fin, gone, copier, peers>>
    BY <1>4 DEF CopyWrite, From, Into
  <2>2. Counted'
    BY <2>1 DEF Inv, Counted, UpSum, DownSum, Ordered, handlers, peers, TypeOK
  <2>3. Ordered'
    BY <2>1 DEF Inv, Ordered, Counted, handlers, peers, TypeOK
  <2>4. Up'
    BY <2>1 DEF Inv, Up, Running, UpSum, Counted, Ordered, handlers, peers, TypeOK
  <2>5. Down'
    BY <2>1 DEF Inv, Down, Running, DownSum, Counted, Ordered, handlers, peers, TypeOK
  <2> QED
    BY <1>1, <2>2, <2>3, <2>4, <2>5 DEF Inv
<1>5. CASE g = "DownR"
  <2>1. /\ copier["DownR"] = "on" /\ hand["DownR"] = 1 /\ ~fin["RV"]
        /\ data' = IF gone["RV"] THEN data ELSE [data EXCEPT !["RV"] = @ + 1]
        /\ hand' = [hand EXCEPT !["DownR"] = 0]
        /\ UNCHANGED <<handlers, fin, gone, copier, peers>>
    BY <1>5 DEF CopyWrite, From, Into
  <2>2. Counted'
    BY <2>1 DEF Inv, Counted, UpSum, DownSum, Ordered, handlers, peers, TypeOK
  <2>3. Ordered'
    BY <2>1 DEF Inv, Ordered, Counted, handlers, peers, TypeOK
  <2>4. Up'
    BY <2>1 DEF Inv, Up, Running, UpSum, Counted, Ordered, handlers, peers, TypeOK
  <2>5. Down'
    BY <2>1 DEF Inv, Down, Running, DownSum, Counted, Ordered, handlers, peers, TypeOK
  <2> QED
    BY <1>1, <2>2, <2>3, <2>4, <2>5 DEF Inv
<1> QED
  BY <1>2, <1>3, <1>4, <1>5

(* A copy ends at the end of its input, or when its output is gone.         *)
LEMMA CopyStopsInv ==
  ASSUME Inv, NEW g \in Copiers, CopyWriteFails(g) \/ CopyEnds(g)
  PROVE  Inv'
<1> USE Entries DEF Links, Ends, Copiers
<1>1. CopyStops(g) /\ copier[g] = "on"
  BY DEF CopyWriteFails, CopyEnds, CopyStops
<1>2. TypeOK'
  BY <1>1 DEF Inv, CopyStops, TypeOK, handlers, peers
<1>3. CASE g = "UpR"
  <2>1. /\ copier["UpR"] = "on" /\ copier' = [copier EXCEPT !["UpR"] = "ended"]
        /\ hand' = [hand EXCEPT !["UpR"] = 0]
        /\ fin' = fin
        /\ UNCHANGED <<handlers, data, gone, peers>>
        /\ \/ hand["UpR"] = 1 /\ (fin["RK"] \/ gone["RK"])
           \/ hand["UpR"] = 0 /\ (gone["VR"] \/ (fin["VR"] /\ data["VR"] = 0))
    BY <1>1, <1>3 DEF Inv, TypeOK, CopyStops, CopyWriteFails, CopyEnds, HalfClosed, From, Into
  <2>2. Counted'
    BY <2>1 DEF Inv, Counted, UpSum, DownSum, Ordered, handlers, peers, TypeOK
  <2>3. Ordered'
    BY <2>1 DEF Inv, Ordered, Counted, handlers, peers, TypeOK
  <2>4. Up'
    BY <2>1 DEF Inv, Up, Running, UpSum, Counted, Ordered, handlers, peers, TypeOK
  <2>5. Down'
    BY <2>1 DEF Inv, Down, Running, DownSum, Counted, Ordered, handlers, peers, TypeOK
  <2> QED
    BY <1>2, <2>2, <2>3, <2>4, <2>5 DEF Inv
<1>4. CASE g = "UpK"
  <2>1. /\ copier["UpK"] = "on" /\ copier' = [copier EXCEPT !["UpK"] = "ended"]
        /\ hand' = [hand EXCEPT !["UpK"] = 0]
        /\ fin' = [fin EXCEPT !["KB"] = TRUE]
        /\ UNCHANGED <<handlers, data, gone, peers>>
        /\ \/ hand["UpK"] = 1 /\ (fin["KB"] \/ gone["KB"])
           \/ hand["UpK"] = 0 /\ (gone["RK"] \/ (fin["RK"] /\ data["RK"] = 0))
    BY <1>1, <1>4 DEF Inv, TypeOK, CopyStops, CopyWriteFails, CopyEnds, HalfClosed, From, Into
  <2>2. Counted'
    BY <2>1 DEF Inv, Counted, UpSum, DownSum, Ordered, handlers, peers, TypeOK
  <2>3. Ordered'
    BY <2>1 DEF Inv, Ordered, Counted, handlers, peers, TypeOK
  <2>4. Up'
    BY <2>1 DEF Inv, Up, Running, UpSum, Counted, Ordered, handlers, peers, TypeOK
  <2>5. Down'
    BY <2>1 DEF Inv, Down, Running, DownSum, Counted, Ordered, handlers, peers, TypeOK
  <2> QED
    BY <1>2, <2>2, <2>3, <2>4, <2>5 DEF Inv
<1>5. CASE g = "DownK"
  <2>1. /\ copier["DownK"] = "on" /\ copier' = [copier EXCEPT !["DownK"] = "ended"]
        /\ hand' = [hand EXCEPT !["DownK"] = 0]
        /\ fin' = fin
        /\ UNCHANGED <<handlers, data, gone, peers>>
        /\ \/ hand["DownK"] = 1 /\ (fin["KR"] \/ gone["KR"])
           \/ hand["DownK"] = 0 /\ (gone["BK"] \/ (fin["BK"] /\ data["BK"] = 0))
    BY <1>1, <1>5 DEF Inv, TypeOK, CopyStops, CopyWriteFails, CopyEnds, HalfClosed, From, Into
  <2>2. Counted'
    BY <2>1 DEF Inv, Counted, UpSum, DownSum, Ordered, handlers, peers, TypeOK
  <2>3. Ordered'
    BY <2>1 DEF Inv, Ordered, Counted, handlers, peers, TypeOK
  <2>4. Up'
    BY <2>1 DEF Inv, Up, Running, UpSum, Counted, Ordered, handlers, peers, TypeOK
  <2>5. Down'
    BY <2>1 DEF Inv, Down, Running, DownSum, Counted, Ordered, handlers, peers, TypeOK
  <2> QED
    BY <1>2, <2>2, <2>3, <2>4, <2>5 DEF Inv
<1>6. CASE g = "DownR"
  <2>1. /\ copier["DownR"] = "on" /\ copier' = [copier EXCEPT !["DownR"] = "ended"]
        /\ hand' = [hand EXCEPT !["DownR"] = 0]
        /\ fin' = [fin EXCEPT !["RV"] = fin["RV"] \/ mode = "http"]
        /\ UNCHANGED <<handlers, data, gone, peers>>
        /\ \/ hand["DownR"] = 1 /\ (fin["RV"] \/ gone["RV"])
           \/ hand["DownR"] = 0 /\ (gone["KR"] \/ (fin["KR"] /\ data["KR"] = 0))
    BY <1>1, <1>6 DEF Inv, TypeOK, CopyStops, CopyWriteFails, CopyEnds, HalfClosed, From, Into
  <2>2. Counted'
    BY <2>1 DEF Inv, Counted, UpSum, DownSum, Ordered, handlers, peers, TypeOK
  <2>3. Ordered'
    BY <2>1 DEF Inv, Ordered, Counted, handlers, peers, TypeOK
  <2>4. Up'
    BY <2>1 DEF Inv, Up, Running, UpSum, Counted, Ordered, handlers, peers, TypeOK
  <2>5. Down'
    BY <2>1 DEF Inv, Down, Running, DownSum, Counted, Ordered, handlers, peers, TypeOK
  <2> QED
    BY <1>2, <2>2, <2>3, <2>4, <2>5 DEF Inv
<1> QED
  BY <1>3, <1>4, <1>5, <1>6

(* The relay's handler.                                                     *)
LEMMA OpenStreamInv == ASSUME Inv, OpenStream PROVE Inv'
<1> USE Entries DEF Links, Ends, Copiers, OpenStream
<1>1. TypeOK'
  BY DEF Inv, TypeOK, Counted, Ordered, Started, copies, peers
<1>2. Counted'
  BY DEF Inv, Counted, UpSum, DownSum, Ordered, Started, copies, peers, TypeOK
<1>3. Ordered'
  BY DEF Inv, Ordered, Counted, Started, copies, peers, TypeOK
<1>4. Up'
  BY DEF Inv, Up, Running, UpSum, Counted, Ordered, Started, copies, peers, TypeOK
<1>5. Down'
  BY DEF Inv, Down, Running, DownSum, Counted, Ordered, Started, copies, peers, TypeOK
<1> QED
  BY <1>1, <1>2, <1>3, <1>4, <1>5 DEF Inv

(* No stream: the visitor of a TCP tunnel is turned away.                   *)
LEMMA OpenFailsInv == ASSUME Inv, OpenFails PROVE Inv'
<1> USE Entries DEF Links, Ends, Copiers, OpenFails
<1>1. TypeOK'
  BY DEF Inv, TypeOK, Counted, Ordered, Close, copies, peers
<1>2. Counted'
  BY DEF Inv, Counted, UpSum, DownSum, Ordered, Close, copies, peers, TypeOK
<1>3. Ordered'
  BY DEF Inv, Ordered, Counted, Close, copies, peers, TypeOK
<1>4. Up'
  BY DEF Inv, Up, Running, UpSum, Counted, Ordered, Close, copies, peers, TypeOK
<1>5. Down'
  BY DEF Inv, Down, Running, DownSum, Counted, Ordered, Close, copies, peers, TypeOK
<1> QED
  BY <1>1, <1>2, <1>3, <1>4, <1>5 DEF Inv

(* No request: both connections are closed.                                 *)
LEMMA WriteFailsInv == ASSUME Inv, WriteFails PROVE Inv'
<1> USE Entries DEF Links, Ends, Copiers, WriteFails
<1>1. TypeOK'
  BY DEF Inv, TypeOK, Counted, Ordered, Close, copies, peers
<1>2. Counted'
  BY DEF Inv, Counted, UpSum, DownSum, Ordered, Close, copies, peers, TypeOK
<1>3. Ordered'
  BY DEF Inv, Ordered, Counted, Close, copies, peers, TypeOK
<1>4. Up'
  BY DEF Inv, Up, Running, UpSum, Counted, Ordered, Close, copies, peers, TypeOK
<1>5. Down'
  BY DEF Inv, Down, Running, DownSum, Counted, Ordered, Close, copies, peers, TypeOK
<1> QED
  BY <1>1, <1>2, <1>3, <1>4, <1>5 DEF Inv

(* The request is on the stream, the copies start.                          *)
LEMMA WriteRequestInv == ASSUME Inv, WriteRequest PROVE Inv'
<1> USE Entries DEF Links, Ends, Copiers, WriteRequest
<1>1. TypeOK'
  BY DEF Inv, TypeOK, Counted, Ordered, Started, copies, peers
<1>2. Counted'
  BY DEF Inv, Counted, UpSum, DownSum, Ordered, Started, copies, peers, TypeOK
<1>3. Ordered'
  BY DEF Inv, Ordered, Counted, Started, copies, peers, TypeOK
<1>4. Up'
  BY DEF Inv, Up, Running, UpSum, Counted, Ordered, Started, copies, peers, TypeOK
<1>5. Down'
  BY DEF Inv, Down, Running, DownSum, Counted, Ordered, Started, copies, peers, TypeOK
<1> QED
  BY <1>1, <1>2, <1>3, <1>4, <1>5 DEF Inv

(* The relay's handler returns after its copies.                            *)
LEMMA RelayReturnsInv == ASSUME Inv, RelayReturns PROVE Inv'
<1> USE Entries DEF Links, Ends, Copiers, RelayReturns
<1>1. TypeOK'
  BY DEF Inv, TypeOK, Counted, Ordered, Close, RelayDone, copies, peers
<1>2. Counted'
  BY DEF Inv, Counted, UpSum, DownSum, Ordered, Close, RelayDone, copies, peers, TypeOK
<1>3. Ordered'
  BY DEF Inv, Ordered, Counted, Close, RelayDone, copies, peers, TypeOK
<1>4. Up'
  BY DEF Inv, Up, Running, UpSum, Counted, Ordered, Close, RelayDone, copies, peers, TypeOK
<1>5. Down'
  BY DEF Inv, Down, Running, DownSum, Counted, Ordered, Close, RelayDone, copies, peers, TypeOK
<1> QED
  BY <1>1, <1>2, <1>3, <1>4, <1>5 DEF Inv

(* The client's handler, and the session.                                  *)
LEMMA DialBackendInv == ASSUME Inv, DialBackend PROVE Inv'
<1> USE Entries DEF Links, Ends, Copiers, DialBackend
<1>1. TypeOK'
  BY DEF Inv, TypeOK, Counted, Ordered, Started, Offered, copies, peers
<1>2. Counted'
  BY DEF Inv, Counted, UpSum, DownSum, Ordered, Started, Offered, copies, peers, TypeOK
<1>3. Ordered'
  BY DEF Inv, Ordered, Counted, Started, Offered, copies, peers, TypeOK
<1>4. Up'
  BY DEF Inv, Up, Running, UpSum, Counted, Ordered, Started, Offered, copies, peers, TypeOK
<1>5. Down'
  BY DEF Inv, Down, Running, DownSum, Counted, Ordered, Started, Offered, copies, peers, TypeOK
<1> QED
  BY <1>1, <1>2, <1>3, <1>4, <1>5 DEF Inv

(* No backend: the stream is closed.                                        *)
LEMMA DialFailsInv == ASSUME Inv, DialFails PROVE Inv'
<1> USE Entries DEF Links, Ends, Copiers, DialFails
<1>1. TypeOK'
  BY DEF Inv, TypeOK, Counted, Ordered, Close, Offered, copies, peers
<1>2. Counted'
  BY DEF Inv, Counted, UpSum, DownSum, Ordered, Close, Offered, copies, peers, TypeOK
<1>3. Ordered'
  BY DEF Inv, Ordered, Counted, Close, Offered, copies, peers, TypeOK
<1>4. Up'
  BY DEF Inv, Up, Running, UpSum, Counted, Ordered, Close, Offered, copies, peers, TypeOK
<1>5. Down'
  BY DEF Inv, Down, Running, DownSum, Counted, Ordered, Close, Offered, copies, peers, TypeOK
<1> QED
  BY <1>1, <1>2, <1>3, <1>4, <1>5 DEF Inv

(* The client's handler returns after its copies.                           *)
LEMMA AgentReturnsInv == ASSUME Inv, AgentReturns PROVE Inv'
<1> USE Entries DEF Links, Ends, Copiers, AgentReturns
<1>1. TypeOK'
  BY DEF Inv, TypeOK, Counted, Ordered, Close, copies, peers
<1>2. Counted'
  BY DEF Inv, Counted, UpSum, DownSum, Ordered, Close, copies, peers, TypeOK
<1>3. Ordered'
  BY DEF Inv, Ordered, Counted, Close, copies, peers, TypeOK
<1>4. Up'
  BY DEF Inv, Up, Running, UpSum, Counted, Ordered, Close, copies, peers, TypeOK
<1>5. Down'
  BY DEF Inv, Down, Running, DownSum, Counted, Ordered, Close, copies, peers, TypeOK
<1> QED
  BY <1>1, <1>2, <1>3, <1>4, <1>5 DEF Inv

(* The stream is lost; nothing is claimed of what was on it.                *)
LEMMA SessionDiesInv == ASSUME Inv, SessionDies PROVE Inv'
<1> USE Entries DEF Links, Ends, Copiers, SessionDies
<1>1. TypeOK'
  BY DEF Inv, TypeOK, Counted, Ordered, copies, peers
<1>2. Counted'
  BY DEF Inv, Counted, UpSum, DownSum, Ordered, copies, peers, TypeOK
<1>3. Ordered'
  BY DEF Inv, Ordered, Counted, copies, peers, TypeOK
<1>4. Up'
  BY DEF Inv, Up, Running, UpSum, Counted, Ordered, copies, peers, TypeOK
<1>5. Down'
  BY DEF Inv, Down, Running, DownSum, Counted, Ordered, copies, peers, TypeOK
<1> QED
  BY <1>1, <1>2, <1>3, <1>4, <1>5 DEF Inv

(* Every step keeps the invariant.                                          *)
LEMMA NextInv == Inv /\ [Next]_vars => Inv'
<1> SUFFICES ASSUME Inv, [Next]_vars PROVE Inv'
  OBVIOUS
<1>1. CASE \E e \in Ends : Send(e) \/ Receive(e) \/ HalfClose(e) \/ Leave(e)
  BY <1>1, SendInv, ReceiveInv, HalfCloseInv, LeaveInv
<1>2. CASE \E g \in Copiers : Copy(g)
  BY <1>2, CopyReadInv, CopyWriteInv, CopyStopsInv DEF Copy
<1>3. CASE Relay
  BY <1>3, OpenStreamInv, OpenFailsInv, WriteFailsInv, WriteRequestInv, RelayReturnsInv DEF Relay
<1>4. CASE Agent
  BY <1>4, DialBackendInv, DialFailsInv, AgentReturnsInv DEF Agent
<1>5. CASE SessionDies
  BY <1>5, SessionDiesInv
<1>6. CASE UNCHANGED vars
  BY <1>6 DEF vars, Inv, TypeOK, Counted, Ordered, Up, Down, Running, UpSum, DownSum
<1> QED
  BY <1>1, <1>2, <1>3, <1>4, <1>5, <1>6 DEF Next

(* The invariant holds throughout.                                          *)
LEMMA Invariance == Spec => []Inv
BY InitInv, NextInv, PTL DEF Spec

(* No chunk is duplicated, so that no end receives more than was sent; and    *)
(* handlers, copies and links are what they are declared to be.             *)
THEOREM TypeCorrect == Spec => []TypeOK
BY Invariance, PTL DEF Inv

(* In a state of the invariant, who reads the end of an HTTP answer has read  *)
(* all of it, and a backend at the end of the input all of that.            *)
LEMMA AnswersEnd == Inv => AnswerComplete
<1> SUFFICES ASSUME Inv, mode = "http", session = "up", Spliced, SawEnd("V")
             PROVE  got["V"] = sent["B"] /\ fin["BK"]
  BY DEF AnswerComplete
<1>1. ~gone["RV"] /\ fin["RV"] /\ data["RV"] = 0 /\ Running
  BY DEF SawEnd, In, Ends, Spliced, Running
<1>2. copier["DownR"] = "ended"
  BY <1>1, Entries DEF Inv, Ordered, Copiers, Spliced
<1>3. /\ DownSum = sent["B"] /\ agent = "closed" /\ data["KR"] = 0
      /\ copier["DownK"] = "ended" => fin["BK"] /\ data["BK"] = 0
  BY <1>1, <1>2 DEF Inv, Down
<1> QED
  BY <1>1, <1>2, <1>3, Entries DEF Inv, Ordered, Counted, DownSum, Links, Ends, Copiers

(* The same of the requests: an end the backend reads is behind all of them. *)
LEMMA RequestsEnd == Inv => RequestComplete
<1> SUFFICES ASSUME Inv, mode = "http", session = "up", Spliced, SawEnd("B")
             PROVE  got["B"] = sent["V"] /\ fin["VR"]
  BY DEF RequestComplete
<1>1. ~gone["KB"] /\ fin["KB"] /\ data["KB"] = 0 /\ Running
  BY DEF SawEnd, In, Ends, Spliced, Running
<1>2. copier["UpK"] = "ended"
  BY <1>1 DEF Inv, Ordered
<1>3. /\ UpSum = sent["V"] /\ relay = "closed" /\ data["RK"] = 0
      /\ copier["UpR"] = "ended" => fin["VR"] /\ data["VR"] = 0
  BY <1>1, <1>2 DEF Inv, Up
<1>4. copier["UpR"] = "ended"
  BY <1>3, Entries DEF Inv, Ordered, Spliced, Copiers
<1> QED
  BY <1>1, <1>2, <1>3, <1>4, Entries DEF Inv, Counted, UpSum, Links, Ends, Copiers

(* Whatever is half-closed, left or failed, and however the four copies       *)
(* interleave: who reads the end of an HTTP answer has read all of it.      *)
THEOREM AnswersAreComplete == Spec => []AnswerComplete
BY Invariance, AnswersEnd, PTL

(* And a backend that reads the end of an HTTP visitor's input has read it    *)
(* all.                                                                     *)
THEOREM RequestsAreComplete == Spec => []RequestComplete
BY Invariance, RequestsEnd, PTL

-----------------------------------------------------------------------------
(* The refinement of Pipe.                                                  *)

(* Nothing is received that was not sent, and an end that is read is behind   *)
(* all of it unless the pipe has broken.                                    *)
Behind(e) ==
  /\ got[e] \in Nat /\ data[In[e]] \in Nat
  /\ got[e] + data[In[e]] <= sent[Pipe!Peer(e)]
  /\ Reader(e) = "end" => Broken \/ (fin[Out[Pipe!Peer(e)]] /\ got[e] = sent[Pipe!Peer(e)])

LEMMA PipeHolds == Inv => \A e \in Ends : Behind(e)
<1> SUFFICES ASSUME Inv, NEW e \in Ends PROVE Behind(e)
  OBVIOUS
<1> USE Entries DEF Links, Ends, Copiers
<1>1. Inv /\ AnswerComplete /\ RequestComplete
  BY AnswersEnd, RequestsEnd
<1>2. CASE e = "V"
  <2>1. got["V"] + data["RV"] <= sent["B"] /\ got["V"] \in Nat /\ data["RV"] \in Nat
    BY <1>1 DEF Inv, Counted, DownSum, TypeOK
  <2>2. Reader("V") = "end" /\ ~Broken => Spliced
    BY <1>1 DEF Inv, Ordered, Reader, SawEnd, In, Broken, Spliced
  <2>3. Reader("V") = "end" /\ ~Broken => fin["BK"] /\ got["V"] = sent["B"]
    BY <1>1, <2>2, SpliceAssumption DEF AnswerComplete, Reader, Broken, Inv, TypeOK
  <2> QED
    BY <1>2, <2>1, <2>3 DEF Behind, Pipe!Peer, In, Out
<1>3. CASE e = "B"
  <2>1. got["B"] + data["KB"] <= sent["V"] /\ got["B"] \in Nat /\ data["KB"] \in Nat
    BY <1>1 DEF Inv, Counted, UpSum, TypeOK
  <2>2. Reader("B") = "end" /\ ~Broken => Spliced
    BY <1>1, SpliceAssumption DEF Inv, TypeOK, Ordered, Up, Running, Reader, SawEnd, In, Broken, Spliced
  <2>3. Reader("B") = "end" /\ ~Broken => fin["VR"] /\ got["B"] = sent["V"]
    BY <1>1, <2>2, SpliceAssumption DEF RequestComplete, Reader, Broken, Inv, TypeOK
  <2> QED
    BY <1>3, <2>1, <2>3 DEF Behind, Pipe!Peer, In, Out
<1> QED
  BY <1>2, <1>3

(* The same of the state after a step.                                      *)
LEMMA PipeHoldsNext == Inv' => (\A e \in Ends : Behind(e))'
BY PipeHolds, PTL

(* A step that the ends do not notice, or by which one comes to read the end  *)
(* of what the other sends.                                                 *)
LEMMA Unnoticed ==
  ASSUME UNCHANGED peers, Broken' = Broken,
         \A e \in Ends : fin'[Out[e]] = fin[Out[e]] /\ Reader(e)' = Reader(e)
  PROVE  UNCHANGED Pipe!vars
BY DEF peers, Pipe!vars

(* A step in which at most one peer comes to read the end is one of the pipe. *)
LEMMA EndIsRead ==
  ASSUME Inv', NEW e \in Ends, UNCHANGED peers, Broken' = Broken,
         \A x \in Ends : fin'[Out[x]] = fin[Out[x]],
         \A x \in Ends : x # e => Reader(x)' = Reader(x),
         Reader(e)' = Reader(e) \/ (Reader(e) = "reading" /\ Reader(e)' = "end")
  PROVE  [Pipe!Next]_Pipe!vars
<1>1. CASE Reader(e)' = Reader(e)
  BY <1>1, Unnoticed
<1>2. CASE Reader(e) = "reading" /\ Reader(e)' = "end"
  <2>1. (\A x \in Ends : Behind(x))'
    BY PipeHoldsNext
  <2>2. Pipe!ReadEnd(e)
    BY <1>2, <2>1 DEF Behind, Pipe!ReadEnd, Pipe!AtEnd, Pipe!Ends, Pipe!Peer, Ends, peers
  <2> QED
    BY <2>2 DEF Pipe!Next, Pipe!Ends, Ends
<1> QED
  BY <1>1, <1>2

(* A stream begins as two empty pipes.                                      *)
LEMMA PipeBegins == Init => Pipe!Init
<1> SUFFICES ASSUME Init PROVE Pipe!Init
  OBVIOUS
<1>1. \E n \in {0, 1} : sent = [e \in Ends |-> IF e = "V" THEN n ELSE 0]
  <2>1. CASE mode = "http"
    BY <2>1 DEF Init
  <2>2. CASE mode # "http"
    BY <2>2 DEF Init
  <2> QED
    BY <2>1, <2>2
<1>2. [e \in Ends |-> fin[Out[e]]] = [e \in Ends |-> FALSE]
  BY DEF Init, Out, Ends, Links
<1>3. [e \in Ends |-> Reader(e)] = [e \in Ends |-> "reading"]
  BY DEF Init, Reader, SawEnd, In, Ends, Links
<1> QED
  BY <1>1, <1>2, <1>3 DEF Init, Pipe!Init, Pipe!Ends, Ends, Broken

(* What the ends do themselves.                                             *)
LEMMA EndsPipe ==
  ASSUME Inv, Inv', NEW e \in Ends, Send(e) \/ Receive(e) \/ HalfClose(e) \/ Leave(e)
  PROVE  [Pipe!Next]_Pipe!vars
<1> USE Entries DEF Links, Ends, Copiers, Pipe!Ends
<1>0. Broken' = Broken
  BY DEF Send, Receive, HalfClose, Leave, handlers, copies, Broken, Spliced
<1>1. CASE Send(e)
  <2>1. \A x \in Ends : Reader(x)' = Reader(x)
    BY <1>1 DEF Send, Reader, SawEnd, In, Out, Inv, TypeOK
  <2>2. Pipe!Send(e)
    BY <1>0, <1>1, <2>1 DEF Send, Pipe!Send
  <2> QED
    BY <2>2 DEF Pipe!Next
<1>2. CASE Receive(e)
  <2>1. \A x \in Ends : x # e => Reader(x)' = Reader(x)
    BY <1>2 DEF Receive, Reader, SawEnd, In, Inv, TypeOK
  <2>2. /\ Reader(e) = "reading"
        /\ Reader(e)' = "reading" \/ Reader(e)' = "end"
    BY <1>2 DEF Receive, Reader, SawEnd, In, Inv, TypeOK
  <2>3. Behind(e) /\ (\A x \in Ends : Behind(x))'
    BY PipeHolds, PipeHoldsNext
  <2>4. got[e] < sent[Pipe!Peer(e)]
    BY <1>2, <2>3 DEF Receive, Behind, Pipe!Peer, Inv, TypeOK
  <2>5. \/ [x \in Ends |-> Reader(x)]' = [x \in Ends |-> Reader(x)]
        \/ /\ Pipe!AtEnd(e, got[e] + 1)
           /\ [x \in Ends |-> Reader(x)]' = [[x \in Ends |-> Reader(x)] EXCEPT ![e] = "end"]
    <3>1. CASE Reader(e)' = "reading"
      BY <3>1, <2>1, <2>2
    <3>2. CASE Reader(e)' = "end"
      <4>1. got'[e] = got[e] + 1 /\ sent' = sent /\ fin' = fin
        BY <1>2 DEF Receive, Inv, TypeOK
      <4>2. Pipe!AtEnd(e, got[e] + 1)
        BY <1>0, <2>3, <3>2, <4>1 DEF Behind, Pipe!AtEnd, Pipe!Peer
      <4> QED
        BY <2>1, <3>2, <4>2
    <3> QED
      BY <2>2, <3>1, <3>2
  <2>6. Pipe!Receive(e)
    BY <1>0, <1>2, <2>2, <2>4, <2>5 DEF Receive, Pipe!Receive
  <2> QED
    BY <2>6 DEF Pipe!Next
<1>3. CASE HalfClose(e)
  <2>1. \A x \in Ends : Reader(x)' = Reader(x)
    BY <1>3 DEF HalfClose, Reader, SawEnd, In, Out, Inv, TypeOK
  <2>2. \A x \in Ends : fin'[Out[x]] = IF x = e THEN TRUE ELSE fin[Out[x]]
    BY <1>3 DEF HalfClose, Out, Inv, TypeOK
  <2>3. Pipe!End(e)
    BY <1>0, <1>3, <2>1, <2>2 DEF HalfClose, Pipe!End, peers
  <2> QED
    BY <2>3 DEF Pipe!Next
<1>4. CASE Leave(e)
  <2>1. \A x \in Ends : Reader(x)' = IF x = e THEN "left" ELSE Reader(x)
    BY <1>4 DEF Leave, Close, Reader, SawEnd, In, Out, Inv, TypeOK
  <2>2. \A x \in Ends : fin'[Out[x]] = IF x = e THEN TRUE ELSE fin[Out[x]]
    BY <1>4 DEF Leave, Close, In, Out, Inv, TypeOK
  <2>3. Pipe!Leave(e)
    BY <1>0, <1>4, <2>1, <2>2 DEF Leave, Pipe!Leave, peers
  <2> QED
    BY <2>3 DEF Pipe!Next
<1> QED
  BY <1>1, <1>2, <1>3, <1>4

(* The copies: the end of one of the last two may be the end that is read.   *)
LEMMA CopiesPipe ==
  ASSUME Inv, Inv', NEW g \in Copiers, Copy(g)
  PROVE  [Pipe!Next]_Pipe!vars
<1> USE Entries DEF Links, Ends, Copiers
<1>0. Broken' = Broken
  <2>1. copier'["DownR"] = "off" <=> copier["DownR"] = "off"
    BY DEF Copy, CopyRead, CopyWrite, CopyWriteFails, CopyEnds, CopyStops, Inv, TypeOK
  <2> QED
    BY <2>1 DEF Copy, CopyRead, CopyWrite, CopyWriteFails, CopyEnds, CopyStops, Broken, Spliced, handlers
<1>1. CASE CopyRead(g)
  <2>1. \A x \in Ends : Reader(x)' = Reader(x)
    BY <1>1 DEF CopyRead, From, Reader, SawEnd, In, Inv, TypeOK
  <2> QED
    BY <1>0, <1>1, <2>1, Unnoticed DEF CopyRead
<1>2. CASE CopyWrite(g)
  <2>1. \A x \in Ends : Reader(x)' = Reader(x)
    BY <1>2 DEF CopyWrite, Into, Reader, SawEnd, In, Inv, TypeOK
  <2> QED
    BY <1>0, <1>2, <2>1, Unnoticed DEF CopyWrite
<1>3. CASE CopyWriteFails(g) \/ CopyEnds(g)
  <2>1. CopyStops(g)
    BY <1>3 DEF CopyWriteFails, CopyEnds
  <2> DEFINE e == IF g = "UpK" THEN "B" ELSE "V"
  <2>2. e \in Ends
    OBVIOUS
  <2>3. \A x \in Ends : fin'[Out[x]] = fin[Out[x]]
    BY <2>1 DEF CopyStops, HalfClosed, Out, Inv, TypeOK
  <2>4. /\ \A x \in Ends : x # e => Reader(x)' = Reader(x)
        /\ Reader(e)' = Reader(e) \/ (Reader(e) = "reading" /\ Reader(e)' = "end")
    BY <2>1 DEF CopyStops, HalfClosed, Reader, SawEnd, In, Inv, TypeOK
  <2> HIDE DEF e
  <2> QED
    BY <1>0, <2>1, <2>2, <2>3, <2>4, EndIsRead DEF CopyStops
<1> QED
  BY <1>1, <1>2, <1>3 DEF Copy

(* The relay's handler ends the answer when it returns; when it fails before *)
(* that, the pipe has broken.                                               *)
LEMMA RelayPipe ==
  ASSUME Inv, Inv', Relay
  PROVE  [Pipe!Next]_Pipe!vars
<1> USE Entries DEF Links, Ends, Copiers
<1>1. CASE OpenStream \/ WriteRequest
  <2>1. \A x \in Ends : Reader(x)' = Reader(x)
    BY <1>1 DEF OpenStream, WriteRequest, Reader, SawEnd, In, Inv, TypeOK
  <2>2. Broken' = Broken
    BY <1>1 DEF OpenStream, WriteRequest, Broken, Spliced
  <2> QED
    BY <1>1, <2>1, <2>2, Unnoticed DEF OpenStream, WriteRequest
<1>2. CASE OpenFails \/ WriteFails
  <2>1. Broken'
    BY <1>2 DEF OpenFails, WriteFails, copies, Broken, Spliced, Inv, Ordered
  <2>2. /\ Reader("B")' = Reader("B")
        /\ \/ Reader("V")' = Reader("V")
           \/ Reader("V") = "reading" /\ Reader("V")' = "end"
    BY <1>2 DEF OpenFails, WriteFails, Close, Reader, SawEnd, In, Inv, TypeOK
  <2>3. \A x \in Ends : fin'[Out[x]] = fin[Out[x]]
    BY <1>2 DEF OpenFails, WriteFails, Close, Out, Inv, TypeOK
  <2>4. Pipe!Break
    BY <1>2, <2>1, <2>2, <2>3 DEF OpenFails, WriteFails, Pipe!Break, peers
  <2> QED
    BY <2>4 DEF Pipe!Next
<1>3. CASE RelayReturns
  <2>1. Broken' = Broken
    BY <1>3 DEF RelayReturns, copies, Broken, Spliced, Inv, Ordered
  <2>2. /\ \A x \in Ends : x # "V" => Reader(x)' = Reader(x)
        /\ \/ Reader("V")' = Reader("V")
           \/ Reader("V") = "reading" /\ Reader("V")' = "end"
    BY <1>3 DEF RelayReturns, Close, Reader, SawEnd, In, Inv, TypeOK
  <2>3. \A x \in Ends : fin'[Out[x]] = fin[Out[x]]
    BY <1>3 DEF RelayReturns, Close, Out, Inv, TypeOK
  <2> QED
    BY <1>3, <2>1, <2>2, <2>3, EndIsRead DEF RelayReturns
<1> QED
  BY <1>1, <1>2, <1>3 DEF Relay

(* The client's handler ends the input of the backend when it returns; a      *)
(* backend that it cannot dial is one that has left.                        *)
LEMMA AgentPipe ==
  ASSUME Inv, Inv', Agent
  PROVE  [Pipe!Next]_Pipe!vars
<1> USE Entries DEF Links, Ends, Copiers
<1>0. Broken' = Broken
  BY DEF Agent, DialBackend, DialFails, AgentReturns, Started, copies, Broken, Spliced
<1>1. CASE DialBackend
  <2>1. \A x \in Ends : Reader(x)' = Reader(x)
    BY <1>1 DEF DialBackend, Reader, SawEnd
  <2> QED
    BY <1>0, <1>1, <2>1, Unnoticed DEF DialBackend
<1>2. CASE DialFails
  <2>1. \A x \in Ends : Reader(x)' = IF x = "B" THEN "left" ELSE Reader(x)
    BY <1>2 DEF DialFails, Close, Reader, SawEnd, In, Inv, TypeOK
  <2>2. \A x \in Ends : fin'[Out[x]] = IF x = "B" THEN TRUE ELSE fin[Out[x]]
    BY <1>2 DEF DialFails, Close, Out, Inv, TypeOK
  <2>3. Pipe!Leave("B")
    BY <1>0, <1>2, <2>1, <2>2 DEF DialFails, Pipe!Leave, peers
  <2> QED
    BY <2>3 DEF Pipe!Next, Pipe!Ends
<1>3. CASE AgentReturns
  <2>1. /\ \A x \in Ends : x # "B" => Reader(x)' = Reader(x)
        /\ \/ Reader("B")' = Reader("B")
           \/ Reader("B") = "reading" /\ Reader("B")' = "end"
    BY <1>3 DEF AgentReturns, Close, Reader, SawEnd, In, Inv, TypeOK
  <2>2. \A x \in Ends : fin'[Out[x]] = fin[Out[x]]
    BY <1>3 DEF AgentReturns, Close, Out, Inv, TypeOK
  <2> QED
    BY <1>0, <1>3, <2>1, <2>2, EndIsRead DEF AgentReturns
<1> QED
  BY <1>1, <1>2, <1>3 DEF Agent

(* A session that dies breaks the pipe, and neither end has noticed yet.     *)
LEMMA SessionPipe ==
  ASSUME Inv, SessionDies
  PROVE  [Pipe!Next]_Pipe!vars
<1> USE Entries DEF Links, Ends
<1>1. Broken'
  BY DEF SessionDies, Broken
<1>2. PICK up \in 0 .. data["RK"], down \in 0 .. data["KR"] :
        data' = [data EXCEPT !["RK"] = up, !["KR"] = down]
  BY DEF SessionDies
<1>3. \A x \in Ends : fin'[Out[x]] = fin[Out[x]] /\ Reader(x)' = Reader(x)
  BY <1>2 DEF SessionDies, Reader, SawEnd, In, Out, Inv, TypeOK
<1>4. Pipe!Break
  BY <1>1, <1>3 DEF SessionDies, Pipe!Break, peers
<1> QED
  BY <1>4 DEF Pipe!Next

(* However the four copies, the two handlers, the session and the two ends    *)
(* interleave, and for every number of chunks, the splice is a pipe.        *)
THEOREM PipeRefinement == Spec => ImplementsPipe
<1>1. Inv /\ Inv' /\ [Next]_vars => [Pipe!Next]_Pipe!vars
  <2> SUFFICES ASSUME Inv, Inv', [Next]_vars PROVE [Pipe!Next]_Pipe!vars
    OBVIOUS
  <2>1. CASE UNCHANGED vars
    BY <2>1 DEF vars, Pipe!vars, Reader, SawEnd, Broken, Spliced
  <2>2. CASE Next
    BY <2>2, EndsPipe, CopiesPipe, RelayPipe, AgentPipe, SessionPipe DEF Next
  <2> QED
    BY <2>1, <2>2
<1> QED
  BY Invariance, PipeBegins, <1>1, PTL DEF Spec, ImplementsPipe, Pipe!Spec
=============================================================================
