----------------------------- MODULE CommandLine -----------------------------
(***************************************************************************)
(* The command line of `mrok http|tcp` (main.go): splitPortArgs takes the  *)
(* port out, wherever it stands, since the flag package stops at the first *)
(* argument that is not a flag; runClient parses the rest.  An argument is *)
(* a tuple: <<"--f">>, <<"--f", v>> for --f=v, or <<w>>, a word.           *)
(***************************************************************************)
EXTENDS Integers, SequencesExt

CONSTANTS
  Words,     \* ports and values
  Default    \* the port 8080, which stands for no port at all

Switches == {"--ephemeral", "--plain", "--insecure"}
Valued   == {"--name", "--host", "--token", "--server"}

ASSUME CommandLineAssumption == Words \cap (Switches \cup Valued) = {}

Bools  == {<<f>> : f \in Switches}
Takers == {<<f>> : f \in Valued}
Inline == Valued \X Words
Args   == Bools \cup Takers \cup Inline \cup {<<w>> : w \in Words}

IsWord(x) == Len(x) = 1 /\ x[1] \in Words

\* Mutant of Consumes: a flag is missing among those that take no value.
ConsumesAfterEphemeral(x) == x \in Takers \cup {<<"--ephemeral">>}

(* The flags whose value is the next argument.                              *)
Consumes(x) == x \in Takers

(* splitPortArgs: the first word that is not the value of a flag.           *)
Free(args) == {i \in DOMAIN args : IsWord(args[i]) /\ ~(i > 1 /\ Consumes(args[i - 1]))}

PortOf(args)  == IF Free(args) = {} THEN Default ELSE args[Min(Free(args))][1]
FlagsOf(args) == IF Free(args) = {} THEN args ELSE RemoveAt(args, Min(Free(args)))

(* The flag package reads flags and values up to the first other argument.  *)
Parsed(flags) ==
  LET first == {i \in DOMAIN flags : IsWord(flags[i]) /\ ~(i > 1 /\ flags[i - 1] \in Takers)}
      end   == IF first = {} THEN Len(flags) ELSE Min(first) - 1
  IN  [set  |-> {flags[i] : i \in {j \in 1 .. end : flags[j] \in Bools \cup Inline}}
                \cup {flags[i] \o flags[i + 1] : i \in {j \in 1 .. end - 1 : flags[j] \in Takers}},
       rest |-> SubSeq(flags, end + 1, Len(flags))]

(* What runClient understands: the port and the flags that are set.         *)
Understood(args) ==
  LET p == Parsed(FlagsOf(args)) IN
  [port  |-> IF p.rest # <<>> /\ PortOf(args) = Default THEN Head(p.rest)[1] ELSE PortOf(args),
   flags |-> p.set]

-----------------------------------------------------------------------------
(* A command line as it is meant: it is cut into parts, each of which is the *)
(* port, a flag that takes no value, a flag with its value behind an equals  *)
(* sign, or a flag and the argument after it; no two of them are ports.      *)
Cut(args, starts) ==
  /\ \A i \in DOMAIN args \ starts :
       i > 1 /\ i - 1 \in starts /\ args[i - 1] \in Takers /\ IsWord(args[i])
  /\ \A i \in starts : args[i] \in Takers => i < Len(args) /\ i + 1 \notin starts
  /\ \A i, j \in starts : IsWord(args[i]) /\ IsWord(args[j]) => i = j

Meant(args, starts) ==
  LET ports == {i \in starts : IsWord(args[i])} IN
  [port  |-> IF ports = {} THEN Default ELSE args[CHOOSE i \in ports : TRUE][1],
   flags |-> {args[i] : i \in {j \in starts : args[j] \in Bools \cup Inline}}
             \cup {args[i] \o args[i + 1] : i \in {j \in starts : args[j] \in Takers}}]

(* Whatever the order of its parts and wherever its values stand, runClient  *)
(* exposes the port of a command line and obeys its flags.                  *)
LineIsUnderstood(args) ==
  \A starts \in SUBSET (DOMAIN args) :
    Cut(args, starts) => Understood(args) = Meant(args, starts)

Tried == {<<"--ephemeral">>, <<"--name">>}
        \cup {<<"--name", w>> : w \in Words} \cup {<<w>> : w \in Words}

CommandLineIsUnderstood ==
  \A n \in 0 .. 4 : \A args \in [1 .. n -> Tried] : LineIsUnderstood(args)
=============================================================================
