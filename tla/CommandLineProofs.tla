-------------------------- MODULE CommandLineProofs --------------------------
(* What the clients of module Agents make of their command lines, proved for *)
(* lines of every length.                                                   *)
EXTENDS MCAgents, SequenceTheorems, TLAPS

(* The one member of a set is its least, and the one that is chosen.        *)
LEMMA OnlyIs ==
  ASSUME NEW k \in Int
  PROVE  Min({k}) = k /\ (CHOOSE i \in {k} : TRUE) = k
<1>1. \A j \in {k} : j = k
  OBVIOUS
<1>2. Min({k}) = k
  <2>1. k \in {k} /\ \A j \in {k} : k <= j
    OBVIOUS
  <2>2. QED BY <1>1, <2>1 DEF Min
<1>3. QED BY <1>1, <1>2

(* An argument is a word, a flag that takes the next one, or complete.      *)
LEMMA Kinds ==
  ASSUME NEW x \in Args
  PROVE  /\ IsWord(x) \/ x \in Takers \/ x \in Bools \cup Inline
         /\ ~(IsWord(x) /\ x \in Takers)
         /\ ~(IsWord(x) /\ x \in Bools \cup Inline)
         /\ ~(x \in Takers /\ x \in Bools \cup Inline)
<1>1. ASSUME NEW f, x = <<f>>
      PROVE  Len(x) = 1 /\ x[1] = f /\ x \notin Inline
  <2>1. x \notin Inline
    <3>1. \A g, w : Len(<<g, w>>) = 2 /\ Len(<<f>>) = 1
      OBVIOUS
    <3>2. QED BY <1>1, <3>1 DEF Inline
  <2>2. QED BY <1>1, <2>1
<1>2. CASE x \in Bools
  <2>1. PICK f \in Switches : x = <<f>>
    BY <1>2 DEF Bools
  <2>2. x \notin Takers
    BY <2>1 DEF Takers, Switches, Valued
  <2>3. ~IsWord(x)
    BY <1>1, <2>1, CommandLineAssumption DEF IsWord
  <2>4. QED BY <1>1, <1>2, <2>1, <2>2, <2>3
<1>3. CASE x \in Takers
  <2>1. PICK f \in Valued : x = <<f>>
    BY <1>3 DEF Takers
  <2>2. x \notin Bools
    BY <2>1 DEF Bools, Switches, Valued
  <2>3. ~IsWord(x)
    BY <1>1, <2>1, CommandLineAssumption DEF IsWord
  <2>4. QED BY <1>1, <1>3, <2>1, <2>2, <2>3
<1>4. CASE x \in Inline
  <2>1. PICK f \in Valued, w \in Words : x = <<f, w>>
    BY <1>4 DEF Inline
  <2>2. Len(x) = 2
    BY <2>1
  <2>3. ~IsWord(x)
    BY <2>2 DEF IsWord
  <2>4. x \notin Takers /\ x \notin Bools
    BY <1>1, <1>4 DEF Takers, Bools
  <2>5. QED BY <1>4, <2>3, <2>4
<1>5. CASE x \in {<<w>> : w \in Words}
  <2>1. PICK w \in Words : x = <<w>>
    BY <1>5
  <2>2. IsWord(x) /\ x \notin Inline
    BY <1>1, <2>1 DEF IsWord
  <2>3. x \notin Bools /\ x \notin Takers
    BY <2>1, CommandLineAssumption DEF Bools, Takers
  <2>4. QED BY <2>2, <2>3
<1>6. QED BY <1>2, <1>3, <1>4, <1>5 DEF Args

(* In a line that is cut into parts the words that splitPortArgs takes for a *)
(* port are the parts that are words, and every flag begins a part.         *)
LEMMA CutIs ==
  ASSUME NEW args \in Seq(Args), NEW starts \in SUBSET (DOMAIN args), Cut(args, starts)
  PROVE  /\ Free(args) = {i \in starts : IsWord(args[i])}
         /\ \A i \in 1 .. Len(args) : args[i] \in Bools \cup Inline => i \in starts
         /\ \A i \in 1 .. Len(args) :
              args[i] \in Takers =>
                i \in starts /\ i + 1 \in 1 .. Len(args) /\ i + 1 \notin Free(args)
<1>1. Len(args) \in Nat /\ DOMAIN args = 1 .. Len(args)
  OBVIOUS
<1>2. \A i \in 1 .. Len(args) : args[i] \in Args
  BY ElementOfSeq
<1>3. \A i \in 1 .. Len(args) :
        i \notin starts => i > 1 /\ i - 1 \in starts /\ args[i - 1] \in Takers /\ IsWord(args[i])
  BY <1>1 DEF Cut
<1>4. \A i \in starts : args[i] \in Takers => i < Len(args) /\ i + 1 \notin starts
  BY DEF Cut
<1>5. \A i \in 1 .. Len(args) : args[i] \in Bools \cup Inline \cup Takers => i \in starts
  BY <1>2, <1>3, Kinds
<1>6. ASSUME NEW i \in 1 .. Len(args)
      PROVE  i \in Free(args) <=> i \in starts /\ IsWord(args[i])
  <2>1. CASE i \in starts
    <3>1. ASSUME i > 1, args[i - 1] \in Takers PROVE FALSE
      <4>1. i - 1 \in 1 .. Len(args)
        BY <1>1, <3>1
      <4>2. i - 1 \in starts
        BY <1>5, <3>1, <4>1
      <4>3. (i - 1) + 1 \notin starts
        BY <1>4, <3>1, <4>2
      <4>4. (i - 1) + 1 = i
        BY <1>1
      <4>5. QED BY <2>1, <4>3, <4>4
    <3>2. QED BY <1>1, <2>1, <3>1 DEF Free, Consumes
  <2>2. CASE i \notin starts
    <3>1. i > 1 /\ args[i - 1] \in Takers
      BY <1>3, <2>2
    <3>2. QED BY <2>2, <3>1 DEF Free, Consumes
  <2>3. QED BY <2>1, <2>2
<1>7. Free(args) \subseteq 1 .. Len(args)
  BY <1>1 DEF Free
<1>8. Free(args) = {i \in starts : IsWord(args[i])}
  BY <1>1, <1>6, <1>7
<1>9. \A i \in 1 .. Len(args) :
        args[i] \in Takers => i \in starts /\ i + 1 \in 1 .. Len(args) /\ i + 1 \notin Free(args)
  BY <1>1, <1>4, <1>5, <1>8
<1>10. QED BY <1>5, <1>8, <1>9

(* Flags without a port among them are read to the end.                     *)
LEMMA AllParsed ==
  ASSUME NEW flags \in Seq(Args), Free(flags) = {}
  PROVE  Parsed(flags) =
           [set  |-> {flags[i] : i \in {j \in 1 .. Len(flags) : flags[j] \in Bools \cup Inline}}
                     \cup {flags[i] \o flags[i + 1] :
                            i \in {j \in 1 .. Len(flags) - 1 : flags[j] \in Takers}},
            rest |-> <<>>]
<1>1. {i \in DOMAIN flags : IsWord(flags[i]) /\ ~(i > 1 /\ flags[i - 1] \in Takers)} = {}
  BY DEF Free, Consumes
<1>2. SubSeq(flags, Len(flags) + 1, Len(flags)) = <<>>
  <2>1. Len(flags) + 1 \in Int /\ Len(flags) \in Int /\ Len(flags) < Len(flags) + 1
    OBVIOUS
  <2>2. QED BY <2>1, SubSeqEmpty
<1>3. QED BY <1>1, <1>2 DEF Parsed

(* The flags of a line without a port.                                      *)
LEMMA FlagsAlone ==
  ASSUME NEW args \in Seq(Args), NEW starts \in SUBSET (DOMAIN args), Cut(args, starts),
         Free(args) = {}
  PROVE  Parsed(args).rest = <<>> /\ Parsed(args).set = Meant(args, starts).flags
<1> DEFINE lone(f)  == {f[i] : i \in {j \in 1 .. Len(f) : f[j] \in Bools \cup Inline}}
<1> DEFINE joint(f) == {f[i] \o f[i + 1] : i \in {j \in 1 .. Len(f) - 1 : f[j] \in Takers}}
<1>1. Parsed(args).rest = <<>> /\ Parsed(args).set = lone(args) \cup joint(args)
  <2>1. Parsed(args) = [set |-> lone(args) \cup joint(args), rest |-> <<>>]
    BY AllParsed
  <2> HIDE DEF lone, joint
  <2>2. QED BY <2>1
<1>2. Len(args) \in Nat /\ DOMAIN args = 1 .. Len(args)
  OBVIOUS
<1>3. {j \in 1 .. Len(args) : args[j] \in Bools \cup Inline} = {j \in starts : args[j] \in Bools \cup Inline}
  BY <1>2, CutIs
<1>4. {j \in 1 .. Len(args) - 1 : args[j] \in Takers} = {j \in starts : args[j] \in Takers}
  <2>1. ASSUME NEW j \in 1 .. Len(args), args[j] \in Takers
        PROVE  j \in starts /\ j \in 1 .. Len(args) - 1
    <3>1. j \in starts /\ j + 1 \in 1 .. Len(args)
      BY <2>1, CutIs
    <3>2. QED BY <1>2, <3>1
  <2>2. QED BY <1>2, <2>1
<1>5. QED BY <1>1, <1>3, <1>4 DEF Meant

(* A line without its k-th argument.                                        *)
LEMMA RemovedIs ==
  ASSUME NEW args \in Seq(Args), NEW k \in 1 .. Len(args)
  PROVE  /\ RemoveAt(args, k) \in Seq(Args) /\ Len(RemoveAt(args, k)) = Len(args) - 1
         /\ \A i \in 1 .. Len(args) - 1 :
              RemoveAt(args, k)[i] = IF i < k THEN args[i] ELSE args[i + 1]
<1> DEFINE p == SubSeq(args, 1, k - 1)
<1> DEFINE q == SubSeq(args, k + 1, Len(args))
<1>1. Len(args) \in Nat /\ k \in Nat /\ 1 <= k /\ k <= Len(args)
  OBVIOUS
<1>2. \A i \in 1 .. Len(args) : args[i] \in Args
  BY ElementOfSeq
<1>3. p \in Seq(Args) /\ Len(p) = k - 1 /\ \A i \in 1 .. k - 1 : p[i] = args[i]
  <2>1. 1 \in Int /\ k - 1 \in Int /\ \A i \in 1 .. k - 1 : args[i] \in Args
    BY <1>1, <1>2
  <2>2. /\ p \in Seq(Args) /\ Len(p) = IF 1 <= k - 1 THEN k - 1 - 1 + 1 ELSE 0
        /\ \A i \in 1 .. k - 1 - 1 + 1 : p[i] = args[1 + i - 1]
    BY <2>1, SubSeqProperties
  <2>3. k - 1 - 1 + 1 = k - 1 /\ \A i \in 1 .. k - 1 : 1 + i - 1 = i
    BY <1>1
  <2>4. Len(p) = k - 1
    BY <1>1, <2>2
  <2>5. QED BY <2>2, <2>3, <2>4
<1>4. q \in Seq(Args) /\ Len(q) = Len(args) - k /\ \A i \in 1 .. Len(args) - k : q[i] = args[k + i]
  <2>1. k + 1 \in Int /\ Len(args) \in Int /\ \A i \in k + 1 .. Len(args) : args[i] \in Args
    BY <1>1, <1>2
  <2>2. /\ q \in Seq(Args)
        /\ Len(q) = IF k + 1 <= Len(args) THEN Len(args) - (k + 1) + 1 ELSE 0
        /\ \A i \in 1 .. Len(args) - (k + 1) + 1 : q[i] = args[k + 1 + i - 1]
    BY <2>1, SubSeqProperties
  <2>3. Len(args) - (k + 1) + 1 = Len(args) - k /\ \A i \in 1 .. Len(args) - k : k + 1 + i - 1 = k + i
    BY <1>1
  <2>4. Len(q) = Len(args) - k
    <3>1. CASE k + 1 <= Len(args)
      BY <2>2, <2>3, <3>1
    <3>2. CASE ~(k + 1 <= Len(args))
      <4>1. k = Len(args) /\ Len(args) - k = 0
        BY <1>1, <3>2
      <4>2. QED BY <2>2, <3>2, <4>1
    <3>3. QED BY <3>1, <3>2
  <2>5. QED BY <2>2, <2>3, <2>4
<1> HIDE DEF p, q
<1> DEFINE r == p \o q
<1>5. /\ r \in Seq(Args) /\ Len(r) = Len(p) + Len(q)
      /\ \A i \in 1 .. Len(p) + Len(q) : r[i] = IF i <= Len(p) THEN p[i] ELSE q[i - Len(p)]
  <2>1. p \in Seq(Args) /\ q \in Seq(Args)
    BY <1>3, <1>4
  <2>2. QED BY <2>1, ConcatProperties
<1> HIDE DEF r
<1>6. Len(r) = Len(args) - 1
  BY <1>1, <1>3, <1>4, <1>5
<1>7. ASSUME NEW i \in 1 .. Len(args) - 1
      PROVE  r[i] = IF i < k THEN args[i] ELSE args[i + 1]
  <2>1. i \in 1 .. Len(p) + Len(q) /\ i \in Nat
    BY <1>1, <1>3, <1>4
  <2>2. CASE i < k
    <3>1. i <= Len(p) /\ i \in 1 .. k - 1
      BY <1>1, <1>3, <2>1, <2>2
    <3>2. QED BY <1>3, <1>5, <2>1, <2>2, <3>1
  <2>3. CASE ~(i < k)
    <3>1. ~(i <= Len(p)) /\ i - Len(p) \in 1 .. Len(args) - k /\ k + (i - Len(p)) = i + 1
      BY <1>1, <1>3, <2>1, <2>3
    <3>2. r[i] = q[i - Len(p)]
      BY <1>5, <2>1, <3>1
    <3>3. q[i - Len(p)] = args[k + (i - Len(p))]
      BY <1>4, <3>1
    <3>4. QED BY <2>3, <3>1, <3>2, <3>3
  <2>4. QED BY <2>2, <2>3
<1>8. RemoveAt(args, k) = r
  BY DEF RemoveAt, p, q, r
<1>9. QED BY <1>5, <1>6, <1>7, <1>8

(* The flags of a line that has a port, in whatever place.                  *)
LEMMA FlagsAround ==
  ASSUME NEW args \in Seq(Args), NEW starts \in SUBSET (DOMAIN args), Cut(args, starts),
         NEW k \in 1 .. Len(args), Free(args) = {k}
  PROVE  /\ Parsed(RemoveAt(args, k)).rest = <<>>
         /\ Parsed(RemoveAt(args, k)).set = Meant(args, starts).flags
<1> DEFINE flags == RemoveAt(args, k)
<1>1. /\ flags \in Seq(Args) /\ Len(flags) = Len(args) - 1
      /\ \A i \in 1 .. Len(args) - 1 : flags[i] = IF i < k THEN args[i] ELSE args[i + 1]
  BY RemovedIs
<1> HIDE DEF flags
<1>2. /\ Len(args) \in Nat \ {0} /\ DOMAIN args = 1 .. Len(args) /\ DOMAIN flags = 1 .. Len(args) - 1
      /\ k \in Nat /\ 1 <= k /\ k <= Len(args)
  BY <1>1
<1>3. \A i \in 1 .. Len(args) : args[i] \in Args
  BY ElementOfSeq
<1>4. /\ IsWord(args[k]) /\ args[k] \notin Takers /\ args[k] \notin Bools \cup Inline
      /\ k > 1 => args[k - 1] \notin Takers
  <2>1. IsWord(args[k]) /\ (k > 1 => args[k - 1] \notin Takers)
    BY <1>2 DEF Free, Consumes
  <2>2. QED BY <1>3, <2>1, Kinds
<1>5. \A i \in 1 .. Len(args) : i # k /\ IsWord(args[i]) => i > 1 /\ args[i - 1] \in Takers
  BY <1>2 DEF Free, Consumes
<1>6. Free(flags) = {}
  <2>1. ASSUME NEW i \in 1 .. Len(args) - 1, IsWord(flags[i]), ~(i > 1 /\ flags[i - 1] \in Takers)
        PROVE  FALSE
    <3>1. CASE i < k
      <4>1. flags[i] = args[i] /\ i # k /\ i \in 1 .. Len(args)
        BY <1>1, <1>2, <3>1
      <4>2. i > 1 /\ args[i - 1] \in Takers
        BY <1>5, <2>1, <4>1
      <4>3. i - 1 \in 1 .. Len(args) - 1 /\ i - 1 < k
        BY <1>2, <3>1, <4>2
      <4>4. flags[i - 1] = args[i - 1]
        BY <1>1, <4>3
      <4>5. QED BY <2>1, <4>2, <4>4
    <3>2. CASE ~(i < k)
      <4>1. flags[i] = args[i + 1] /\ i + 1 # k /\ i + 1 \in 1 .. Len(args) /\ (i + 1) - 1 = i
        BY <1>1, <1>2, <3>2
      <4>2. args[i] \in Takers
        <5>1. args[(i + 1) - 1] \in Takers
          BY <1>5, <2>1, <4>1
        <5>2. QED BY <4>1, <5>1
      <4>3. i # k
        BY <1>4, <4>2
      <4>4. i > 1 /\ i - 1 \in 1 .. Len(args) - 1 /\ ~(i - 1 < k) /\ (i - 1) + 1 = i
        BY <1>2, <3>2, <4>3
      <4>5. flags[i - 1] = args[i]
        BY <1>1, <4>4
      <4>6. QED BY <2>1, <4>2, <4>4, <4>5
    <3>3. QED BY <3>1, <3>2
  <2>2. QED BY <1>2, <2>1 DEF Free, Consumes
<1> DEFINE lone(f)  == {f[i] : i \in {j \in 1 .. Len(f) : f[j] \in Bools \cup Inline}}
<1> DEFINE joint(f) == {f[i] \o f[i + 1] : i \in {j \in 1 .. Len(f) - 1 : f[j] \in Takers}}
<1>7. Parsed(flags) = [set |-> lone(flags) \cup joint(flags), rest |-> <<>>]
  BY <1>1, <1>6, AllParsed
<1> DEFINE loneM  == {args[i] : i \in {j \in starts : args[j] \in Bools \cup Inline}}
<1> DEFINE jointM == {args[i] \o args[i + 1] : i \in {j \in starts : args[j] \in Takers}}
<1>8. lone(flags) = loneM
  <2>1. ASSUME NEW i \in 1 .. Len(args) - 1, flags[i] \in Bools \cup Inline
        PROVE  flags[i] \in loneM
    <3>1. PICK j \in 1 .. Len(args) : flags[i] = args[j]
      BY <1>1, <1>2
    <3>2. j \in starts
      BY <2>1, <3>1, CutIs
    <3>3. QED BY <2>1, <3>1, <3>2
  <2>2. ASSUME NEW j \in starts, args[j] \in Bools \cup Inline
        PROVE  args[j] \in lone(flags)
    <3>1. j \in 1 .. Len(args) /\ j # k
      BY <1>2, <1>4, <2>2
    <3>2. PICK i \in 1 .. Len(args) - 1 : flags[i] = args[j]
      <4>1. CASE j < k
        <5>1. j \in 1 .. Len(args) - 1
          BY <1>2, <3>1, <4>1
        <5>2. flags[j] = args[j]
          BY <1>1, <4>1, <5>1
        <5>3. QED BY <5>1, <5>2
      <4>2. CASE ~(j < k)
        <5>1. j - 1 \in 1 .. Len(args) - 1 /\ ~(j - 1 < k) /\ (j - 1) + 1 = j
          BY <1>2, <3>1, <4>2
        <5>2. flags[j - 1] = args[(j - 1) + 1]
          BY <1>1, <5>1
        <5>3. QED BY <5>1, <5>2
      <4>3. QED BY <4>1, <4>2
    <3>3. QED BY <1>1, <2>2, <3>2
  <2>3. QED BY <1>1, <2>1, <2>2
<1>9. joint(flags) = jointM
  <2>1. ASSUME NEW i \in 1 .. Len(args) - 1 - 1, flags[i] \in Takers
        PROVE  flags[i] \o flags[i + 1] \in jointM
    <3>1. i \in Nat /\ i \in 1 .. Len(args) - 1 /\ i + 1 \in 1 .. Len(args) - 1
      BY <1>2
    <3>2. PICK j \in 1 .. Len(args) : flags[i] = args[j] /\ flags[i + 1] = args[j + 1]
      <4>1. CASE i < k
        <5>1. flags[i] = args[i]
          BY <1>1, <3>1, <4>1
        <5>2. i + 1 # k
          <6>1. ASSUME i + 1 = k PROVE FALSE
            <7>1. k > 1 /\ k - 1 = i
              BY <3>1, <6>1
            <7>2. QED BY <1>4, <2>1, <5>1, <7>1
          <6>2. QED BY <6>1
        <5>3. i + 1 < k /\ i \in 1 .. Len(args)
          BY <1>2, <3>1, <4>1, <5>2
        <5>4. flags[i + 1] = args[i + 1]
          BY <1>1, <3>1, <5>3
        <5>5. QED BY <5>1, <5>3, <5>4
      <4>2. CASE ~(i < k)
        <5>1. ~(i + 1 < k) /\ i + 1 \in 1 .. Len(args)
          BY <1>2, <3>1, <4>2
        <5>2. flags[i] = args[i + 1] /\ flags[i + 1] = args[(i + 1) + 1]
          BY <1>1, <3>1, <4>2, <5>1
        <5>3. QED BY <5>1, <5>2
      <4>3. QED BY <4>1, <4>2
    <3>3. j \in starts /\ args[j] \in Takers
      BY <2>1, <3>2, CutIs
    <3>4. QED BY <3>2, <3>3
  <2>2. ASSUME NEW j \in starts, args[j] \in Takers
        PROVE  args[j] \o args[j + 1] \in joint(flags)
    <3>1. j \in 1 .. Len(args) /\ j \in Nat /\ j # k
      BY <1>2, <1>4, <2>2
    <3>2. j + 1 \in 1 .. Len(args) /\ j + 1 # k
      BY <2>2, <3>1, CutIs
    <3>3. PICK i \in 1 .. Len(args) - 1 - 1 : flags[i] = args[j] /\ flags[i + 1] = args[j + 1]
      <4>1. CASE j < k
        <5>1. j + 1 < k
          BY <1>2, <3>1, <3>2, <4>1
        <5>2. j \in 1 .. Len(args) - 1 /\ j + 1 \in 1 .. Len(args) - 1 /\ j \in 1 .. Len(args) - 1 - 1
          BY <1>2, <3>1, <5>1
        <5>3. flags[j] = args[j] /\ flags[j + 1] = args[j + 1]
          BY <1>1, <4>1, <5>1, <5>2
        <5>4. QED BY <5>2, <5>3
      <4>2. CASE ~(j < k)
        <5>1. /\ j - 1 \in 1 .. Len(args) - 1 /\ ~(j - 1 < k) /\ (j - 1) + 1 = j
              /\ j \in 1 .. Len(args) - 1 /\ j - 1 \in 1 .. Len(args) - 1 - 1
          BY <1>2, <3>1, <3>2, <4>2
        <5>2. flags[j - 1] = args[(j - 1) + 1] /\ flags[j] = args[j + 1]
          BY <1>1, <4>2, <5>1
        <5>3. QED BY <5>1, <5>2
      <4>3. QED BY <4>1, <4>2
    <3>4. QED BY <1>1, <2>2, <3>3
  <2>3. QED BY <1>1, <2>1, <2>2
<1>10. Meant(args, starts).flags = loneM \cup jointM
  BY DEF Meant
<1> HIDE DEF lone, joint, loneM, jointM
<1>11. QED BY <1>7, <1>8, <1>9, <1>10 DEF flags

(* The port that stands in a line, wherever it stands, and the flags that    *)
(* stand in it, with their values, are what runClient understands, for      *)
(* lines of every length.                                                   *)
THEOREM LinesAreUnderstood == \A args \in Seq(Args) : LineIsUnderstood(args)
<1> SUFFICES ASSUME NEW args \in Seq(Args), NEW starts \in SUBSET (DOMAIN args), Cut(args, starts)
             PROVE  Understood(args) = Meant(args, starts)
  BY DEF LineIsUnderstood
<1> DEFINE ports == {i \in starts : IsWord(args[i])}
<1>1. Free(args) = ports /\ Len(args) \in Nat /\ DOMAIN args = 1 .. Len(args)
  BY CutIs
<1>2. CASE ports = {}
  <2>1. PortOf(args) = Default /\ FlagsOf(args) = args
    BY <1>1, <1>2 DEF PortOf, FlagsOf
  <2>2. Parsed(args).rest = <<>> /\ Parsed(args).set = Meant(args, starts).flags
    BY <1>1, <1>2, FlagsAlone
  <2>3. Meant(args, starts) = [port |-> Default, flags |-> Meant(args, starts).flags]
    BY <1>2 DEF Meant
  <2>4. QED BY <2>1, <2>2, <2>3 DEF Understood
<1>3. CASE ports # {}
  <2>1. PICK k \in 1 .. Len(args) : ports = {k}
    <3>1. \A i, j \in ports : i = j
      BY DEF Cut
    <3>2. PICK k \in ports : TRUE
      BY <1>3
    <3>3. ports = {k} /\ k \in 1 .. Len(args)
      BY <1>1, <3>1
    <3>4. QED BY <3>3
  <2> HIDE DEF ports
  <2>2. Min(ports) = k /\ (CHOOSE i \in ports : TRUE) = k
    BY <2>1, OnlyIs
  <2>3. PortOf(args) = args[k][1] /\ FlagsOf(args) = RemoveAt(args, k)
    BY <1>1, <1>3, <2>2 DEF PortOf, FlagsOf
  <2>4. /\ Parsed(RemoveAt(args, k)).rest = <<>>
        /\ Parsed(RemoveAt(args, k)).set = Meant(args, starts).flags
    BY <1>1, <2>1, FlagsAround
  <2>5. Meant(args, starts) = [port |-> args[k][1], flags |-> Meant(args, starts).flags]
    BY <1>3, <2>2 DEF Meant, ports
  <2>6. QED BY <2>3, <2>4, <2>5 DEF Understood
<1>4. QED BY <1>2, <1>3

(* In particular for those that the run tries.                              *)
THEOREM LinesTriedAreUnderstood == LineUnderstood
<1>1. ASSUME NEW n \in 0 .. 4, NEW args \in [1 .. n -> Tried]
      PROVE  args \in Seq(Args)
  <2>1. Tried \subseteq Args
    BY DEF Tried, Args, Bools, Takers, Inline, Switches, Valued
  <2>2. n \in Nat
    OBVIOUS
  <2>3. QED BY <2>1, <2>2
<1>2. QED BY <1>1, LinesAreUnderstood DEF LineUnderstood, CommandLineIsUnderstood
=============================================================================
