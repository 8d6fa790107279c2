------------------------------ MODULE MCAgents ------------------------------
(* The values of the constants of Agents that a cfg cannot write.           *)
EXTENDS Agents, CommandLine

CONSTANTS a, b, A, s, t

Line(n, v, eph) == [name |-> n, service |-> v, ephemeral |-> eph]

Canonical == [n \in Names |-> n]

(* A is b's or a's name in capitals: what --name A is normalised to.        *)
Lowered == [n \in Names |-> IF n = A THEN a ELSE n]

(* What runClient makes of a command line.                                  *)
Typed(args) ==
  LET u == Understood(args) IN
  Line(IF \E n \in Words : <<"--name", n>> \in u.flags
         THEN CHOOSE n \in Words : <<"--name", n>> \in u.flags ELSE NoName,
       u.port, <<"--ephemeral">> \in u.flags)

(* Two names and none for one service, and an ephemeral tunnel: `mrok http   *)
(* s --name a`, `--name=b s`, `s` and `--ephemeral t`.                      *)
Mixed == {Typed(<<<<s>>, <<"--name">>, <<a>>>>), Typed(<<<<"--name", b>>, <<s>>>>),
          Typed(<<<<s>>>>), Typed(<<<<"--ephemeral">>, <<t>>>>)}

(* A name in capitals; a saved name for another service; two strangers.     *)
Capital  == {Line(A, s, FALSE)}
Moved    == {Line(a, t, FALSE)}
Distinct == {Line(a, s, FALSE), Line(b, t, FALSE)}

Nothing == <<>>
One     == <<[name |-> a, service |-> s, url |-> TRUE]>>

(* splitPortArgs and runClient find the port and the flags of a command line *)
(* in whatever order; a fact about operators, stated of the initial states.  *)
LineUnderstood == Init => CommandLineIsUnderstood
=============================================================================
