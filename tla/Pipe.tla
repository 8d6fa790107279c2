-------------------------------- MODULE Pipe --------------------------------
(***************************************************************************)
(* What a splice is to its two ends, a visitor and a backend: a pipe, one  *)
(* each way.  Nothing that was not sent is received, nothing comes after   *)
(* the end, and unless the pipe has broken nothing is missing before it.   *)
(* Module Splice, with its copies, links and two handlers,       *)
(* implements it.                                                          *)
(***************************************************************************)
EXTENDS Naturals

Ends    == {"V", "B"}
Peer(e) == IF e = "V" THEN "B" ELSE "V"

VARIABLES
  sent, got,  \* chunks an end has sent and received
  ended,      \* has an end ended what it sends?
  at,         \* an end as a reader: "reading", at the "end", or it has "left"
  broken      \* may the pipe have lost something?

vars == <<sent, got, ended, at, broken>>

(* A visitor's request is there before the pipe is.                         *)
Init ==
  /\ \E n \in {0, 1} : sent = [e \in Ends |-> IF e = "V" THEN n ELSE 0]
  /\ got   = [e \in Ends |-> 0]
  /\ ended = [e \in Ends |-> FALSE]
  /\ at    = [e \in Ends |-> "reading"]
  /\ broken \in BOOLEAN

Send(e) ==
  /\ ~ended[e]
  /\ sent' = [sent EXCEPT ![e] = @ + 1]
  /\ UNCHANGED <<got, ended, at, broken>>

(* The end is read behind all that was sent.                                *)
AtEnd(e, received) == broken \/ (ended[Peer(e)] /\ received = sent[Peer(e)])

Receive(e) ==
  /\ at[e] = "reading"
  /\ got[e] < sent[Peer(e)]
  /\ got' = [got EXCEPT ![e] = @ + 1]
  /\ \/ UNCHANGED at
     \/ AtEnd(e, got[e] + 1) /\ at' = [at EXCEPT ![e] = "end"]
  /\ UNCHANGED <<sent, ended, broken>>

ReadEnd(e) ==
  /\ at[e] = "reading"
  /\ AtEnd(e, got[e])
  /\ at' = [at EXCEPT ![e] = "end"]
  /\ UNCHANGED <<sent, got, ended, broken>>

End(e) ==
  /\ ended' = [ended EXCEPT ![e] = TRUE]
  /\ UNCHANGED <<sent, got, at, broken>>

(* An end leaves; a backend that cannot be reached has left.                *)
Leave(e) ==
  /\ ended' = [ended EXCEPT ![e] = TRUE]
  /\ at'    = [at EXCEPT ![e] = "left"]
  /\ UNCHANGED <<sent, got, broken>>

Break ==
  /\ broken' = TRUE
  /\ \/ UNCHANGED at
     \/ at["V"] = "reading" /\ at' = [at EXCEPT !["V"] = "end"]
  /\ UNCHANGED <<sent, got, ended>>

Next ==
  \/ \E e \in Ends : Send(e) \/ Receive(e) \/ ReadEnd(e) \/ End(e) \/ Leave(e)
  \/ Break

Spec == Init /\ [][Next]_vars
=============================================================================
