------------------------------ MODULE Addresses ------------------------------
(***************************************************************************)
(* Which relay a client dials: ResolveServer (internal/client/client.go)   *)
(* over the places where an address may stand, ParseServer                 *)
(* (internal/config/config.go) for what stands there.  A text is a         *)
(* sequence of pieces: "http:" or "https:", slashes, a host, a port,       *)
(* blanks, ends of lines, the start of a comment.                          *)
(***************************************************************************)
EXTENDS Integers, SequencesExt

CONSTANTS Ports, HTTPPort, HTTPSPort

Marks  == {"http:", "https:", "/", "host", "other", "blank", "\n", "#"}
Pieces == Ports \cup Marks

ASSUME AddressesAssumption == Ports \cap Marks = {}

Unusable == [dial |-> <<>>, https |-> FALSE]
HTTP     == <<"http:", "/", "/">>
HTTPS    == <<"https:", "/", "/">>

(* strings.TrimSpace; strings.TrimRight(_, "/").                            *)
Within(s, ink) == IF ink = {} THEN <<>> ELSE SubSeq(s, Min(ink), Max(ink))
NoBlanks(s)    == Within(s, {i \in DOMAIN s : s[i] \notin {"blank", "\n"}})
NoSlashes(s)   == SubSeq(s, 1, Max({0} \cup {i \in DOMAIN s : s[i] # "/"}))

FirstLine(s) ==
  LET ends == {i \in DOMAIN s : s[i] = "\n"}
  IN  IF ends = {} THEN s ELSE SubSeq(s, 1, Min(ends) - 1)

\* Mutant of ParseServer: the port does not depend on the scheme.
ParseServerAnyPort(text) ==
  LET s     == NoSlashes(NoBlanks(FirstLine(NoBlanks(text))))
      named == IF IsPrefix(HTTP, s) THEN HTTP ELSE IF IsPrefix(HTTPS, s) THEN HTTPS ELSE <<>>
      addr  == NoSlashes(NoBlanks(SubSeq(s, 1 + Len(named), Len(s))))
  IN  IF s = <<>> \/ s[1] = "#" \/ addr = <<>> THEN Unusable
      ELSE [dial |-> IF Last(addr) \in Ports THEN addr ELSE Append(addr, HTTPSPort),
            https |-> named # HTTP]

ParseServer(text) ==
  LET s     == NoSlashes(NoBlanks(FirstLine(NoBlanks(text))))
      named == IF IsPrefix(HTTP, s) THEN HTTP ELSE IF IsPrefix(HTTPS, s) THEN HTTPS ELSE <<>>
      addr  == NoSlashes(NoBlanks(SubSeq(s, 1 + Len(named), Len(s))))
      port  == IF named = HTTP THEN HTTPPort ELSE HTTPSPort
  IN  IF s = <<>> \/ s[1] = "#" \/ addr = <<>> THEN Unusable
      ELSE [dial |-> IF Last(addr) \in Ports THEN addr ELSE Append(addr, port),
            https |-> named # HTTP]

(* The sources are --server, MROK_SERVER, config.json, the compiled default *)
(* and the endpoint file that is fetched: the first that gives an address.  *)
ResolveServer(sources) ==
  LET usable == {i \in DOMAIN sources : ParseServer(sources[i]).dial # <<>>}
  IN  IF usable = {} THEN Unusable ELSE ParseServer(sources[Min(usable)])

-----------------------------------------------------------------------------
Idle == {<<>>, <<"blank", "\n">>, <<"#", "host">>, <<"\n", "blank", "#", "\n", "host">>}

Before == {<<>>, <<"\n", "blank">>}
After  == {<<>>, <<"/">>, <<"/", "/", "blank">>, <<"/", "\n", "#", "other">>}

Means(scheme, port) ==
  [dial  |-> <<"host", IF port # <<>> THEN port[1]
                       ELSE IF scheme = HTTP THEN HTTPPort ELSE HTTPSPort>>,
   https |-> scheme # HTTP]

(* However an address is spelled, the client dials its host, at its port or  *)
(* that of its scheme, with TLS unless it says http; and a source that is    *)
(* empty or a comment hides none of the sources after it.                   *)
ServerIsUnderstood ==
  \A scheme \in {<<>>, HTTP, HTTPS}, port \in {<<>>} \cup {<<p>> : p \in Ports} :
    \A before \in Before, after \in After, i \in Idle, j \in Idle :
      LET text == before \o scheme \o <<"host">> \o port \o after
      IN  ResolveServer(<<i, j, text, <<"other">>>>) = Means(scheme, port)
=============================================================================
