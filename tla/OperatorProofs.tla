---------------------------- MODULE OperatorProofs ---------------------------
(* What the clients of module Dial make of texts, proved for texts of every  *)
(* length: of names, in the first half, and of addresses.                   *)
EXTENDS MCDial, WellFoundedInduction, SequenceTheorems, TLAPS

(* The least and the greatest member of a set, once they are known.         *)
LEMMA MinIs ==
  ASSUME NEW S \in SUBSET Int, NEW m \in S, \A k \in S : m <= k
  PROVE  Min(S) = m
<1>1. \A k \in S : (\A j \in S : k <= j) => k = m
  OBVIOUS
<1>2. QED BY <1>1 DEF Min

(* As above.                                                                *)
LEMMA MaxIs ==
  ASSUME NEW S \in SUBSET Int, NEW m \in S, \A k \in S : k <= m
  PROVE  Max(S) = m
<1>1. \A k \in S : (\A j \in S : k >= j) => k = m
  OBVIOUS
<1>2. QED BY <1>1 DEF Max

(* A set of naturals has its least member in it.                            *)
LEMMA Least ==
  ASSUME NEW S \in SUBSET Nat, S # {}
  PROVE  \E m \in S : \A k \in S : m <= k
<1> DEFINE Less == OpToRel(<, Nat)
<1>1. IsWellFoundedOn(Less, Nat)
  BY NatLessThanWellFounded
<1>2. \A j, k \in Nat : j < k => <<j, k>> \in Less
  BY DEF OpToRel
<1> HIDE DEF Less
<1>3. PICK m \in S : \A k \in S : ~ (<<k, m>> \in Less)
  BY <1>1, WFMin
<1>4. \A k \in S : ~ (k < m)
  BY <1>2, <1>3
<1>5. QED BY <1>4

(* So has a set of positions its first and its last.                        *)
LEMMA Extremes ==
  ASSUME NEW n \in Nat, NEW S \in SUBSET (1 .. n), S # {}
  PROVE  \E j, k \in S : \A i \in S : j <= i /\ i <= k
<1>1. PICK j \in S : \A i \in S : j <= i
  BY Least
<1> DEFINE T == {n - i : i \in S}
<1>2. T \in SUBSET Nat /\ T # {}
  <2>1. \A i \in S : n - i \in Nat /\ n - i \in T
    OBVIOUS
  <2>2. T \in SUBSET Nat
    OBVIOUS
  <2>3. QED BY <2>1, <2>2
<1> HIDE DEF T
<1>3. PICK m \in T : \A i \in T : m <= i
  BY <1>2, Least
<1>4. PICK k \in S : m = n - k
  BY DEF T
<1>5. ASSUME NEW i \in S PROVE i <= k
  <2>1. n - i \in T
    BY DEF T
  <2>2. QED BY <1>3, <1>4, <2>1
<1>6. QED BY <1>1, <1>5

-----------------------------------------------------------------------------
(* Names.                                                                   *)

(* TrimSpace keeps what is between the first and the last that is no blank.  *)
LEMMA TrimIs ==
  ASSUME NEW s \in Seq(Chars), NEW j \in 1 .. Len(s), NEW k \in 1 .. Len(s),
         s[j] # Space, s[k] # Space,
         \A i \in 1 .. Len(s) : s[i] # Space => j <= i /\ i <= k
  PROVE  TrimSpace(s) = SubSeq(s, j, k)
<1> DEFINE ink == {i \in DOMAIN s : s[i] # Space}
<1>1. ink \in SUBSET Int /\ j \in ink /\ k \in ink /\ \A i \in ink : j <= i /\ i <= k
  OBVIOUS
<1> HIDE DEF ink
<1>2. Min(ink) = j /\ Max(ink) = k
  BY <1>1, MinIs, MaxIs
<1>3. QED BY <1>1, <1>2 DEF TrimSpace, ink

(* There is such a first and last, or nothing is left.                      *)
LEMMA TrimCases ==
  ASSUME NEW s \in Seq(Chars)
  PROVE  \/ TrimSpace(s) = <<>> /\ \A i \in 1 .. Len(s) : s[i] = Space
         \/ \E j, k \in 1 .. Len(s) :
              /\ s[j] # Space /\ s[k] # Space /\ j <= k
              /\ \A i \in 1 .. Len(s) : s[i] # Space => j <= i /\ i <= k
              /\ TrimSpace(s) = SubSeq(s, j, k)
<1> DEFINE ink == {i \in DOMAIN s : s[i] # Space}
<1>1. Len(s) \in Nat /\ ink \in SUBSET (1 .. Len(s))
  OBVIOUS
<1>2. CASE ink = {}
  BY <1>2 DEF TrimSpace
<1>3. CASE ink # {}
  <2> HIDE DEF ink
  <2>1. PICK j, k \in ink : \A i \in ink : j <= i /\ i <= k
    BY <1>1, <1>3, Extremes
  <2>2. /\ j \in 1 .. Len(s) /\ k \in 1 .. Len(s) /\ j <= k
        /\ s[j] # Space /\ s[k] # Space
        /\ \A i \in 1 .. Len(s) : s[i] # Space => j <= i /\ i <= k
    BY <2>1 DEF ink
  <2>3. QED BY <2>2, TrimIs
<1>4. QED BY <1>2, <1>3

(* ToLower turns characters into characters, blanks into blanks, and leaves  *)
(* no capital.                                                              *)
LEMMA LowerIs ==
  ASSUME NEW s \in Seq(Chars)
  PROVE  /\ ToLower(s) \in Seq(Chars) /\ Len(ToLower(s)) = Len(s)
         /\ \A i \in 1 .. Len(s) :
              /\ ToLower(s)[i] \notin Capitals
              /\ ToLower(s)[i] = Space <=> s[i] = Space
              /\ s[i] \notin Capitals => ToLower(s)[i] = s[i]
<1> DEFINE l(i) == IF s[i] \in Capitals THEN LowerCase[s[i]] ELSE s[i]
<1>1. \A i \in 1 .. Len(s) :
        /\ l(i) \in Chars /\ l(i) \notin Capitals
        /\ l(i) = Space <=> s[i] = Space
        /\ s[i] \notin Capitals => l(i) = s[i]
  BY NamesAssumption DEF Chars
<1>2. ToLower(s) = [i \in 1 .. Len(s) |-> l(i)]
  BY DEF ToLower
<1>3. Len(s) \in Nat
  OBVIOUS
<1> HIDE DEF l
<1>4. ToLower(s) \in Seq(Chars) /\ Len(ToLower(s)) = Len(s)
  BY <1>1, <1>2, <1>3, IsASeq
<1>5. QED BY <1>1, <1>2, <1>4

(* Sequences without capitals are in lower case.                            *)
LEMMA LowerStays ==
  ASSUME NEW s \in Seq(Chars), \A i \in 1 .. Len(s) : s[i] \notin Capitals
  PROVE  ToLower(s) = s
<1>1. /\ ToLower(s) \in Seq(Chars) /\ Len(ToLower(s)) = Len(s)
      /\ \A i \in 1 .. Len(s) : ToLower(s)[i] = s[i]
  BY LowerIs
<1>2. QED BY <1>1, SeqEqual

(* A part in lower case is a part of the whole in lower case.               *)
LEMMA LowerOfPart ==
  ASSUME NEW s \in Seq(Chars), NEW j \in 1 .. Len(s), NEW k \in 1 .. Len(s), j <= k
  PROVE  ToLower(SubSeq(s, j, k)) = SubSeq(ToLower(s), j, k)
<1> DEFINE p == SubSeq(s, j, k)
<1> DEFINE q == SubSeq(ToLower(s), j, k)
<1>1. Len(s) \in Nat /\ j \in Nat /\ k \in Nat
  OBVIOUS
<1>2. /\ p \in Seq(Chars) /\ Len(p) = k - j + 1
      /\ \A i \in 1 .. k - j + 1 : p[i] = s[j + i - 1]
  BY <1>1, SubSeqProperties
<1>3. ToLower(s) \in Seq(Chars) /\ Len(ToLower(s)) = Len(s)
  BY LowerIs
<1>4. /\ q \in Seq(Chars) /\ Len(q) = k - j + 1
      /\ \A i \in 1 .. k - j + 1 : q[i] = ToLower(s)[j + i - 1]
  BY <1>1, <1>3, SubSeqProperties
<1> HIDE DEF p, q
<1>5. ToLower(p) \in Seq(Chars) /\ Len(ToLower(p)) = k - j + 1
  BY <1>2, LowerIs
<1>6. ASSUME NEW i \in 1 .. k - j + 1
      PROVE  ToLower(p)[i] = q[i]
  <2>1. j + i - 1 \in DOMAIN s /\ i \in DOMAIN p
    BY <1>1, <1>2
  <2>2. ToLower(p)[i] = (IF p[i] \in Capitals THEN LowerCase[p[i]] ELSE p[i])
    BY <2>1 DEF ToLower
  <2>3. ToLower(s)[j + i - 1] =
          (IF s[j + i - 1] \in Capitals THEN LowerCase[s[j + i - 1]] ELSE s[j + i - 1])
    BY <2>1 DEF ToLower
  <2>4. QED BY <1>2, <1>4, <2>2, <2>3
<1>7. ToLower(p) = q
  BY <1>4, <1>5, <1>6, SeqEqual
<1>8. QED BY <1>7 DEF p, q

(* A granted name is a valid one and stands for itself.                     *)
LEMMA GrantedStays ==
  ASSUME NEW s \in Seq(Chars), Normalize(s) \notin {Refused, Drawn}
  PROVE  Valid(Normalize(s)) /\ Normalize(Normalize(s)) = Normalize(s)
<1> DEFINE n == ToLower(TrimSpace(s))
<1>1. n \in Seq(Chars)
  <2>1. TrimSpace(s) \in Seq(Chars)
    <3>1. \A j, k \in 1 .. Len(s) : SubSeq(s, j, k) \in Seq(Chars)
      <4>1. ASSUME NEW j \in 1 .. Len(s), NEW k \in 1 .. Len(s)
            PROVE  SubSeq(s, j, k) \in Seq(Chars)
        <5>1. \A i \in j .. k : s[i] \in Chars
          BY ElementOfSeq
        <5>2. j \in Int /\ k \in Int
          OBVIOUS
        <5>3. QED BY <5>1, <5>2, SubSeqProperties
      <4>2. QED BY <4>1
    <3>2. CASE TrimSpace(s) = <<>>
      BY <3>2
    <3>3. CASE \E j, k \in 1 .. Len(s) : TrimSpace(s) = SubSeq(s, j, k)
      BY <3>1, <3>3
    <3>4. QED BY <3>2, <3>3, TrimCases
  <2>2. QED BY <2>1, LowerIs
<1>2. /\ Normalize(s) = n
      /\ n # <<>> /\ Valid(n) /\ n \notin Reserved
  BY DEF Normalize
<1> HIDE DEF n
<1>3. /\ Len(n) \in Nat /\ 1 \in 1 .. Len(n) /\ Len(n) \in 1 .. Len(n)
      /\ \A i \in 1 .. Len(n) : n[i] \in Small \cup {Dash}
  BY <1>1, <1>2 DEF Valid
<1>4. \A i \in 1 .. Len(n) : n[i] # Space /\ n[i] \notin Capitals
  BY <1>3, NamesAssumption
<1>5. TrimSpace(n) = n
  <2>1. n[1] # Space /\ n[Len(n)] # Space
    BY <1>3, <1>4
  <2>2. \A i \in 1 .. Len(n) : n[i] # Space => 1 <= i /\ i <= Len(n)
    BY <1>3
  <2>3. TrimSpace(n) = SubSeq(n, 1, Len(n))
    BY <1>1, <1>3, <2>1, <2>2, TrimIs
  <2>4. QED BY <1>1, <2>3, SubSeqFull
<1>6. ToLower(n) = n
  BY <1>1, <1>4, LowerStays
<1>7. Normalize(n) = n
  BY <1>2, <1>5, <1>6 DEF Normalize
<1>8. QED BY <1>2, <1>7

(* Case and blanks around a name make no difference.                        *)
LEMMA SpelledAlike ==
  ASSUME NEW s \in Seq(Chars)
  PROVE  Normalize(<<Space>> \o ToLower(s) \o <<Space>>) = Normalize(s)
<1> DEFINE L == ToLower(s)
<1> DEFINE u == <<Space>> \o L
<1> DEFINE t == u \o <<Space>>
<1>1. /\ Len(s) \in Nat /\ L \in Seq(Chars) /\ Len(L) = Len(s)
      /\ \A i \in 1 .. Len(s) : L[i] \notin Capitals /\ (L[i] = Space <=> s[i] = Space)
  BY LowerIs
<1>2. /\ <<Space>> \in Seq(Chars) /\ Len(<<Space>>) = 1 /\ <<Space>>[1] = Space
  BY DEF Chars
<1> HIDE DEF L
<1>3. /\ u \in Seq(Chars) /\ Len(u) = Len(s) + 1
      /\ u[1] = Space /\ \A i \in 1 .. Len(s) : u[i + 1] = L[i]
  BY <1>1, <1>2, ConcatProperties
<1> HIDE DEF u
<1>4. /\ t \in Seq(Chars) /\ Len(t) = Len(s) + 2
      /\ t[1] = Space /\ t[Len(s) + 2] = Space
      /\ \A i \in 1 .. Len(s) : t[i + 1] = L[i]
  BY <1>1, <1>2, <1>3, ConcatProperties
<1> HIDE DEF t
<1>5. ToLower(TrimSpace(t)) = ToLower(TrimSpace(s))
  <2>1. CASE TrimSpace(s) = <<>> /\ \A i \in 1 .. Len(s) : s[i] = Space
    <3>1. ASSUME NEW i \in 1 .. Len(t) PROVE t[i] = Space
      <4>1. CASE i = 1 BY <1>4, <4>1
      <4>2. CASE i = Len(s) + 2 BY <1>4, <4>2
      <4>3. CASE i - 1 \in 1 .. Len(s)
        <5>1. t[(i - 1) + 1] = L[i - 1] /\ L[i - 1] = Space
          BY <1>1, <1>4, <2>1, <4>3
        <5>2. (i - 1) + 1 = i
          BY <1>4
        <5>3. QED BY <5>1, <5>2
      <4>4. QED BY <1>1, <1>4, <4>1, <4>2, <4>3
    <3>2. TrimSpace(t) = <<>>
      BY <1>4, <3>1, TrimCases
    <3>3. QED BY <2>1, <3>2
  <2>2. ASSUME NEW j \in 1 .. Len(s), NEW k \in 1 .. Len(s), j <= k,
               s[j] # Space, s[k] # Space,
               \A i \in 1 .. Len(s) : s[i] # Space => j <= i /\ i <= k,
               TrimSpace(s) = SubSeq(s, j, k)
        PROVE  ToLower(TrimSpace(t)) = ToLower(TrimSpace(s))
    <3>1. /\ j + 1 \in 1 .. Len(t) /\ k + 1 \in 1 .. Len(t)
          /\ t[j + 1] # Space /\ t[k + 1] # Space
      <4>1. t[j + 1] = L[j] /\ L[j] # Space
        BY <1>1, <1>4, <2>2
      <4>2. t[k + 1] = L[k] /\ L[k] # Space
        BY <1>1, <1>4, <2>2
      <4>3. Len(t) = Len(s) + 2 /\ Len(s) \in Nat
        BY <1>1, <1>4
      <4>4. j + 1 \in 1 .. Len(t) /\ k + 1 \in 1 .. Len(t)
        BY <4>3
      <4>5. QED BY <4>1, <4>2, <4>4
    <3>2. ASSUME NEW i \in 1 .. Len(t), t[i] # Space
          PROVE  j + 1 <= i /\ i <= k + 1
      <4>1. i - 1 \in 1 .. Len(s) /\ i = (i - 1) + 1
        <5>1. i # 1 /\ i # Len(s) + 2
          BY <1>4, <3>2
        <5>2. Len(t) = Len(s) + 2 /\ Len(s) \in Nat
          BY <1>1, <1>4
        <5>3. QED BY <5>1, <5>2
      <4>2. s[i - 1] # Space
        BY <1>1, <1>4, <3>2, <4>1
      <4>3. j <= i - 1 /\ i - 1 <= k
        BY <2>2, <4>1, <4>2
      <4>4. QED BY <4>3
    <3>3. TrimSpace(t) = SubSeq(t, j + 1, k + 1)
      BY <1>4, <3>1, <3>2, TrimIs
    <3>4. SubSeq(t, j + 1, k + 1) = SubSeq(L, j, k)
      <4>1. /\ SubSeq(L, j, k) \in Seq(Chars) /\ Len(SubSeq(L, j, k)) = k - j + 1
            /\ \A i \in 1 .. k - j + 1 : SubSeq(L, j, k)[i] = L[j + i - 1]
        BY <1>1, <2>2, SubSeqProperties
      <4>2. /\ SubSeq(t, j + 1, k + 1) \in Seq(Chars)
            /\ Len(SubSeq(t, j + 1, k + 1)) = k - j + 1
            /\ \A i \in 1 .. k - j + 1 : SubSeq(t, j + 1, k + 1)[i] = t[j + 1 + i - 1]
        <5>1. j + 1 \in Int /\ k + 1 \in Int /\ \A i \in j + 1 .. k + 1 : t[i] \in Chars
          BY <1>4, <2>2
        <5>2. QED BY <5>1, <2>2, SubSeqProperties
      <4>3. ASSUME NEW i \in 1 .. k - j + 1
            PROVE  SubSeq(t, j + 1, k + 1)[i] = SubSeq(L, j, k)[i]
        <5>1. j + i - 1 \in 1 .. Len(s) /\ j + 1 + i - 1 = (j + i - 1) + 1
          BY <2>2
        <5>2. QED BY <1>4, <4>1, <4>2, <5>1
      <4>4. QED BY <4>1, <4>2, <4>3, SeqEqual
    <3>5. ToLower(SubSeq(L, j, k)) = SubSeq(L, j, k)
      <4>1. \A i \in 1 .. Len(L) : L[i] \notin Capitals
        BY <1>1
      <4>2. ToLower(L) = L
        BY <1>1, <4>1, LowerStays
      <4>3. QED BY <1>1, <2>2, <4>2, LowerOfPart
    <3>6. ToLower(SubSeq(s, j, k)) = SubSeq(L, j, k)
      BY <2>2, LowerOfPart DEF L
    <3>7. QED BY <2>2, <3>3, <3>4, <3>5, <3>6
  <2>3. QED BY <2>1, <2>2, TrimCases
<1>6. QED BY <1>5 DEF Normalize, t, u, L

(* Every id that register grants, of whatever length the name was that was   *)
(* typed, is accepted as a label, stands for itself, and does not depend on  *)
(* case or blanks.                                                          *)
THEOREM NamesAreServed == \A s \in Seq(Chars) : IdIsServed(s)
BY GrantedStays, SpelledAlike DEF IdIsServed

(* In particular those that the run tries.                                  *)
THEOREM TypedNamesAreServed == IdsServed
<1>1. ASSUME NEW s \in Typed PROVE s \in Seq(Chars)
  <2>1. PICK n \in 0 .. MaxLen + 1 : s \in [1 .. n -> Chars]
    BY DEF Typed
  <2>2. n \in Nat
    BY NamesAssumption
  <2>3. QED BY <2>1, <2>2
<1>2. QED BY <1>1, NamesAreServed DEF IdsServed, GrantedIdsAreServed

-----------------------------------------------------------------------------
(* Addresses.                                                               *)

Blanks == {"blank", "\n"}

(* Concatenation under a name that the provers do not look into, so that they *)
(* use of it what they are told and no more.                                *)
Cat(u, v) == u \o v

(* What the proofs are told of it: its type, its length and its elements.   *)
LEMMA CatIs ==
  ASSUME NEW S, NEW u \in Seq(S), NEW v \in Seq(S)
  PROVE  /\ Cat(u, v) \in Seq(S) /\ Len(Cat(u, v)) = Len(u) + Len(v)
         /\ \A i \in 1 .. Len(u) + Len(v) : Cat(u, v)[i] = IF i <= Len(u) THEN u[i] ELSE v[i - Len(u)]
BY ConcatProperties DEF Cat

(* Where the brackets stand makes no difference.                            *)
LEMMA CatAssoc ==
  ASSUME NEW S, NEW a \in Seq(S), NEW b \in Seq(S), NEW c \in Seq(S)
  PROVE  Cat(Cat(a, b), c) = Cat(a, Cat(b, c))
BY ConcatAssociative DEF Cat

(* Nor with four sequences.                                                 *)
LEMMA FourCat ==
  ASSUME NEW S, NEW a \in Seq(S), NEW b \in Seq(S), NEW c \in Seq(S), NEW d \in Seq(S)
  PROVE  /\ Cat(Cat(a, b), Cat(c, d)) = Cat(Cat(a, Cat(b, c)), d)
         /\ Cat(Cat(Cat(a, b), c), d) = Cat(a, Cat(Cat(b, c), d))
<1>1. Cat(a, b) \in Seq(S) /\ Cat(b, c) \in Seq(S)
  BY CatIs
<1>2. Cat(Cat(a, b), Cat(c, d)) = Cat(Cat(Cat(a, b), c), d)
  BY <1>1, CatAssoc
<1>3. Cat(Cat(a, b), c) = Cat(a, Cat(b, c))
  BY CatAssoc
<1>4. Cat(Cat(a, Cat(b, c)), d) = Cat(a, Cat(Cat(b, c), d))
  BY <1>1, CatAssoc
<1>5. QED BY <1>2, <1>3, <1>4

(* The middle of three sequences.                                           *)
LEMMA MiddleIs ==
  ASSUME NEW S, NEW u \in Seq(S), NEW w \in Seq(S), NEW v \in Seq(S)
  PROVE  /\ (u \o w) \o v \in Seq(S)
         /\ Len((u \o w) \o v) = Len(u) + Len(w) + Len(v)
         /\ \A i \in 1 .. Len(u) : ((u \o w) \o v)[i] = u[i]
         /\ \A i \in 1 .. Len(w) : ((u \o w) \o v)[Len(u) + i] = w[i]
         /\ \A i \in 1 .. Len(v) : ((u \o w) \o v)[Len(u) + Len(w) + i] = v[i]
         /\ SubSeq((u \o w) \o v, Len(u) + 1, Len(u) + Len(w)) = w
<1> DEFINE uw == Cat(u, w)
<1> DEFINE t == Cat(uw, v)
<1>1. Len(u) \in Nat /\ Len(w) \in Nat /\ Len(v) \in Nat
  OBVIOUS
<1>2. /\ uw \in Seq(S) /\ Len(uw) = Len(u) + Len(w)
      /\ \A i \in 1 .. Len(u) + Len(w) : uw[i] = IF i <= Len(u) THEN u[i] ELSE w[i - Len(u)]
  BY CatIs
<1> HIDE DEF uw
<1>3. /\ t \in Seq(S) /\ Len(t) = Len(u) + Len(w) + Len(v)
      /\ \A i \in 1 .. Len(uw) + Len(v) : t[i] = IF i <= Len(uw) THEN uw[i] ELSE v[i - Len(uw)]
  <2>1. uw \in Seq(S)
    BY <1>2
  <2>2. /\ t \in Seq(S) /\ Len(t) = Len(uw) + Len(v)
        /\ \A i \in 1 .. Len(uw) + Len(v) : t[i] = IF i <= Len(uw) THEN uw[i] ELSE v[i - Len(uw)]
    BY <2>1, CatIs
  <2>3. QED BY <1>2, <2>2
<1> HIDE DEF t
<1>4. \A i \in 1 .. Len(u) : t[i] = u[i]
  BY <1>1, <1>2, <1>3
<1>5. ASSUME NEW i \in 1 .. Len(w) PROVE t[Len(u) + i] = w[i]
  <2>1. Len(u) + i \in 1 .. Len(u) + Len(w) /\ ~(Len(u) + i <= Len(u)) /\ (Len(u) + i) - Len(u) = i
    BY <1>1
  <2>2. t[Len(u) + i] = uw[Len(u) + i]
    BY <1>1, <1>2, <1>3, <2>1
  <2>3. uw[Len(u) + i] = w[(Len(u) + i) - Len(u)]
    BY <1>2, <2>1
  <2>4. QED BY <2>1, <2>2, <2>3
<1>6. ASSUME NEW i \in 1 .. Len(v) PROVE t[Len(u) + Len(w) + i] = v[i]
  <2>1. /\ Len(u) + Len(w) + i \in 1 .. Len(uw) + Len(v)
        /\ ~(Len(u) + Len(w) + i <= Len(uw)) /\ (Len(u) + Len(w) + i) - Len(uw) = i
    BY <1>1, <1>2
  <2>2. t[Len(u) + Len(w) + i] = v[(Len(u) + Len(w) + i) - Len(uw)]
    BY <1>3, <2>1
  <2>3. QED BY <2>1, <2>2
<1>7. SubSeq(t, Len(u) + 1, Len(u) + Len(w)) = w
  <2> DEFINE m == Len(u) + 1
  <2> DEFINE n == Len(u) + Len(w)
  <2>1. m \in Int /\ n \in Int /\ \A i \in m .. n : t[i] \in S
    <3>1. \A i \in m .. n : i \in 1 .. Len(t)
      BY <1>1, <1>3
    <3>2. QED BY <1>1, <1>3, <3>1, ElementOfSeq
  <2>2. /\ SubSeq(t, m, n) \in Seq(S)
        /\ Len(SubSeq(t, m, n)) = IF m <= n THEN n - m + 1 ELSE 0
        /\ \A i \in 1 .. n - m + 1 : SubSeq(t, m, n)[i] = t[m + i - 1]
    BY <2>1, SubSeqProperties
  <2>3. n - m + 1 = Len(w) /\ \A i \in 1 .. Len(w) : m + i - 1 = Len(u) + i
    BY <1>1
  <2>4. Len(SubSeq(t, m, n)) = Len(w)
    BY <1>1, <2>2, <2>3
  <2>5. \A i \in 1 .. Len(w) : SubSeq(t, m, n)[i] = w[i]
    BY <1>5, <2>2, <2>3
  <2>6. QED BY <2>2, <2>4, <2>5, SeqEqual
<1>8. QED BY <1>3, <1>4, <1>5, <1>6, <1>7 DEF t, uw

(* TrimSpace: blanks around a text that begins and ends without one.        *)
LEMMA NoBlanksIs ==
  ASSUME NEW S, NEW u \in Seq(S), NEW w \in Seq(S), NEW v \in Seq(S),
         \A i \in 1 .. Len(u) : u[i] \in Blanks,
         \A i \in 1 .. Len(v) : v[i] \in Blanks,
         w # <<>>, w[1] \notin Blanks, w[Len(w)] \notin Blanks
  PROVE  NoBlanks((u \o w) \o v) = w
<1> DEFINE t == (u \o w) \o v
<1> DEFINE ink == {i \in DOMAIN t : t[i] \notin {"blank", "\n"}}
<1>1. /\ t \in Seq(S) /\ Len(t) = Len(u) + Len(w) + Len(v)
      /\ \A i \in 1 .. Len(u) : t[i] = u[i]
      /\ \A i \in 1 .. Len(w) : t[Len(u) + i] = w[i]
      /\ \A i \in 1 .. Len(v) : t[Len(u) + Len(w) + i] = v[i]
      /\ SubSeq(t, Len(u) + 1, Len(u) + Len(w)) = w
  BY MiddleIs
<1>2. /\ Len(u) \in Nat /\ Len(w) \in Nat \ {0} /\ Len(v) \in Nat
      /\ Len(t) = Len(u) + Len(w) + Len(v) /\ Len(t) \in Nat
  BY <1>1, EmptySeq
<1> HIDE DEF t
<1>3. DOMAIN t = 1 .. Len(t)
  BY <1>1
<1>4. Len(u) + 1 \in ink /\ Len(u) + Len(w) \in ink
  <2>1. 1 \in 1 .. Len(w) /\ Len(w) \in 1 .. Len(w)
    BY <1>2
  <2>2. t[Len(u) + 1] \notin Blanks /\ t[Len(u) + Len(w)] \notin Blanks
    BY <1>1, <2>1
  <2>3. Len(u) + 1 \in DOMAIN t /\ Len(u) + Len(w) \in DOMAIN t
    BY <1>1, <1>2, <1>3
  <2>4. QED BY <2>2, <2>3 DEF Blanks
<1>5. ASSUME NEW i \in ink PROVE Len(u) + 1 <= i /\ i <= Len(u) + Len(w)
  <2>1. i \in 1 .. Len(t) /\ t[i] \notin Blanks
    BY <1>3 DEF Blanks
  <2>2. i \notin 1 .. Len(u)
    BY <1>1, <2>1
  <2>3. i - (Len(u) + Len(w)) \notin 1 .. Len(v)
    <3>1. Len(u) + Len(w) + (i - (Len(u) + Len(w))) = i
      <4>1. i \in Int
        BY <1>2, <2>1
      <4>2. QED BY <1>2, <4>1
    <3>2. \A k \in 1 .. Len(v) : t[Len(u) + Len(w) + k] \in Blanks
      BY <1>1
    <3>3. QED BY <2>1, <3>1, <3>2
  <2>4. QED BY <1>2, <2>1, <2>2, <2>3
<1>6. \A i \in ink : i \in Int
  BY <1>2, <1>3
<1> HIDE DEF ink
<1>7. Min(ink) = Len(u) + 1 /\ Max(ink) = Len(u) + Len(w)
  BY <1>4, <1>5, <1>6, MinIs, MaxIs
<1>8. NoBlanks(t) = SubSeq(t, Min(ink), Max(ink))
  BY <1>4 DEF NoBlanks, Within, ink
<1>9. QED BY <1>1, <1>7, <1>8 DEF t

(* TrimSpace of a text that has nothing but blanks.                         *)
LEMMA NoBlanksNone ==
  ASSUME NEW S, NEW s \in Seq(S), \A i \in 1 .. Len(s) : s[i] \in Blanks
  PROVE  NoBlanks(s) = <<>>
<1>1. {i \in DOMAIN s : s[i] \notin {"blank", "\n"}} = {}
  BY DEF Blanks
<1>2. QED BY <1>1 DEF NoBlanks, Within

(* TrimSpace changes nothing in a text that begins and ends without a blank. *)
LEMMA NoBlanksStays ==
  ASSUME NEW S, NEW w \in Seq(S),
         w # <<>>, w[1] \notin Blanks, w[Len(w)] \notin Blanks
  PROVE  NoBlanks(w) = w
<1>1. <<>> \in Seq(S) /\ Len(<<>>) = 0
  BY EmptySeq
<1>2. NoBlanks((<<>> \o w) \o <<>>) = w
  <2>1. \A i \in 1 .. Len(<<>>) : <<>>[i] \in Blanks
    BY <1>1
  <2>2. QED BY <1>1, <2>1, NoBlanksIs
<1>3. (<<>> \o w) \o <<>> = w
  BY ConcatEmptySeq
<1>4. QED BY <1>2, <1>3

(* The first line of a text.                                                *)
LEMMA FirstLineIs ==
  ASSUME NEW S, NEW w \in Seq(S), NEW v \in Seq(S),
         \A i \in 1 .. Len(w) : w[i] # "\n",
         v = <<>> \/ v[1] = "\n"
  PROVE  FirstLine(w \o v) = w
<1> DEFINE t == w \o v
<1> DEFINE ends == {i \in DOMAIN t : t[i] = "\n"}
<1>1. /\ t \in Seq(S) /\ Len(t) = Len(w) + Len(v)
      /\ \A i \in 1 .. Len(w) + Len(v) : t[i] = IF i <= Len(w) THEN w[i] ELSE v[i - Len(w)]
  BY ConcatProperties
<1>2. Len(w) \in Nat /\ Len(v) \in Nat
  OBVIOUS
<1> HIDE DEF t
<1>3. DOMAIN t = 1 .. Len(w) + Len(v)
  BY <1>1
<1>4. \A i \in ends : i \in Int /\ Len(w) + 1 <= i
  BY <1>1, <1>2, <1>3
<1>5. CASE v = <<>>
  <2>1. t = w
    BY <1>5, ConcatEmptySeq DEF t
  <2>2. ends = {}
    BY <1>2, <2>1
  <2>3. QED BY <2>1, <2>2 DEF FirstLine, t
<1>6. CASE v # <<>>
  <2>1. Len(w) + 1 \in ends
    <3>1. Len(v) \in Nat \ {0} /\ v[1] = "\n"
      BY <1>6, EmptySeq
    <3>2. Len(w) + 1 \in 1 .. Len(w) + Len(v) /\ ~(Len(w) + 1 <= Len(w)) /\ (Len(w) + 1) - Len(w) = 1
      BY <1>2, <3>1
    <3>3. t[Len(w) + 1] = v[(Len(w) + 1) - Len(w)]
      BY <1>1, <3>2
    <3>4. QED BY <1>3, <3>1, <3>2, <3>3
  <2> HIDE DEF ends
  <2>2. Min(ends) = Len(w) + 1
    BY <1>4, <2>1, MinIs
  <2>3. FirstLine(t) = SubSeq(t, 1, Len(w))
    <3>1. Min(ends) - 1 = Len(w)
      BY <1>2, <2>2
    <3>2. FirstLine(t) = SubSeq(t, 1, Min(ends) - 1)
      BY <2>1 DEF FirstLine, ends
    <3>3. QED BY <3>1, <3>2
  <2>4. SubSeq(t, 1, Len(w)) = w
    <3>1. <<>> \in Seq(S) /\ Len(<<>>) = 0
      BY EmptySeq
    <3>2. SubSeq((<<>> \o w) \o v, Len(<<>>) + 1, Len(<<>>) + Len(w)) = w
      BY <3>1, MiddleIs
    <3>3. <<>> \o w = w
      BY ConcatEmptySeq
    <3>4. Len(<<>>) + 1 = 1 /\ Len(<<>>) + Len(w) = Len(w)
      BY <1>2, <3>1
    <3>5. QED BY <3>2, <3>3, <3>4 DEF t
  <2>5. QED BY <2>3, <2>4 DEF t
<1>7. QED BY <1>5, <1>6

(* TrimRight of the slashes behind a text that ends with something else.    *)
LEMMA NoSlashesIs ==
  ASSUME NEW S, NEW w \in Seq(S), NEW v \in Seq(S),
         w # <<>>, w[Len(w)] # "/",
         \A i \in 1 .. Len(v) : v[i] = "/"
  PROVE  NoSlashes(w \o v) = w
<1> DEFINE t == w \o v
<1> DEFINE stays == {0} \cup {i \in DOMAIN t : t[i] # "/"}
<1>1. /\ t \in Seq(S) /\ Len(t) = Len(w) + Len(v)
      /\ \A i \in 1 .. Len(w) + Len(v) : t[i] = IF i <= Len(w) THEN w[i] ELSE v[i - Len(w)]
  BY ConcatProperties
<1>2. Len(w) \in Nat \ {0} /\ Len(v) \in Nat
  BY EmptySeq
<1> HIDE DEF t
<1>3. DOMAIN t = 1 .. Len(w) + Len(v)
  BY <1>1
<1>4. Len(w) \in stays
  BY <1>1, <1>2, <1>3
<1>5. ASSUME NEW i \in stays PROVE i \in Int /\ i <= Len(w)
  <2>1. CASE i = 0
    BY <1>2, <2>1
  <2>2. CASE i # 0
    <3>1. i \in 1 .. Len(w) + Len(v) /\ t[i] # "/"
      BY <1>3, <2>2
    <3>2. ~(i <= Len(w)) => i - Len(w) \in 1 .. Len(v)
      BY <1>2, <3>1
    <3>3. QED BY <1>1, <1>2, <3>1, <3>2
  <2>3. QED BY <2>1, <2>2
<1> HIDE DEF stays
<1>6. Max(stays) = Len(w)
  BY <1>4, <1>5, MaxIs
<1>7. NoSlashes(t) = SubSeq(t, 1, Len(w))
  BY <1>6 DEF NoSlashes, stays
<1>8. SubSeq(t, 1, Len(w)) = w
  <2>1. <<>> \in Seq(S) /\ Len(<<>>) = 0
    BY EmptySeq
  <2>2. SubSeq((<<>> \o w) \o v, Len(<<>>) + 1, Len(<<>>) + Len(w)) = w
    BY <2>1, MiddleIs
  <2>3. <<>> \o w = w
    BY ConcatEmptySeq
  <2>4. Len(<<>>) + 1 = 1 /\ Len(<<>>) + Len(w) = Len(w)
    BY <1>2, <2>1
  <2>5. QED BY <2>2, <2>3, <2>4 DEF t
<1>9. QED BY <1>7, <1>8 DEF t

(* What may follow an address without being a part of it: blanks, or other   *)
(* lines.                                                                   *)
Trails == {rest \in Seq(Pieces) : rest \in Seq(Blanks) \/ (rest # <<>> /\ rest[1] = "\n")}

(* ParseServer's first four steps leave the address, with its scheme.       *)
LEMMA Cleaned ==
  ASSUME NEW before \in Seq(Blanks), NEW core \in Seq(Pieces),
         NEW slashes \in Seq({"/"}), NEW rest \in Trails,
         core # <<>>, \A i \in 1 .. Len(core) : core[i] \notin Blanks, core[Len(core)] # "/"
  PROVE  NoSlashes(NoBlanks(FirstLine(NoBlanks(
           (before \o core) \o (slashes \o rest))))) = core
<1> DEFINE w == core \o slashes
<1> DEFINE text == (before \o core) \o (slashes \o rest)
<1>1. /\ before \in Seq(Pieces) /\ slashes \in Seq(Pieces) /\ rest \in Seq(Pieces)
      /\ \A i \in 1 .. Len(before) : before[i] \in Blanks
      /\ \A i \in 1 .. Len(slashes) : slashes[i] = "/"
  <2>1. Blanks \subseteq Pieces /\ {"/"} \subseteq Pieces
    BY DEF Blanks, Pieces, Marks
  <2>2. before \in Seq(Pieces) /\ slashes \in Seq(Pieces)
    BY <2>1, SeqMonotonic
  <2>3. \A i \in 1 .. Len(slashes) : slashes[i] \in {"/"}
    BY ElementOfSeq
  <2>4. \A i \in 1 .. Len(before) : before[i] \in Blanks
    BY ElementOfSeq
  <2>5. QED BY <2>2, <2>3, <2>4 DEF Trails
<1>2. Len(core) \in Nat \ {0} /\ Len(slashes) \in Nat
  BY <1>1, EmptySeq
<1>3. /\ w \in Seq(Pieces) /\ Len(w) = Len(core) + Len(slashes)
      /\ \A i \in 1 .. Len(core) + Len(slashes) :
           w[i] = IF i <= Len(core) THEN core[i] ELSE slashes[i - Len(core)]
  BY <1>1, ConcatProperties
<1>4. text = (before \o w) \o rest
  <2>1. /\ before \in Seq(Pieces) /\ core \in Seq(Pieces)
        /\ slashes \in Seq(Pieces) /\ rest \in Seq(Pieces)
    BY <1>1
  <2>2. Cat(Cat(before, core), Cat(slashes, rest)) = Cat(Cat(before, Cat(core, slashes)), rest)
    BY <2>1, FourCat
  <2>3. QED BY <2>2 DEF Cat
<1> HIDE DEF w, text
<1>5. w # <<>> /\ \A i \in 1 .. Len(w) : w[i] \notin Blanks
  <2>1. Len(w) # 0
    BY <1>2, <1>3
  <2>2. ASSUME NEW i \in 1 .. Len(w) PROVE w[i] \notin Blanks
    <3>1. CASE i <= Len(core)
      <4>1. i \in 1 .. Len(core) /\ w[i] = core[i]
        BY <1>2, <1>3, <3>1
      <4>2. QED BY <4>1
    <3>2. CASE ~(i <= Len(core))
      <4>1. i - Len(core) \in 1 .. Len(slashes) /\ w[i] = slashes[i - Len(core)]
        BY <1>2, <1>3, <3>2
      <4>2. w[i] = "/"
        BY <1>1, <4>1
      <4>3. QED BY <4>2 DEF Blanks
    <3>3. QED BY <3>1, <3>2
  <2>3. QED BY <2>1, <2>2, EmptySeq
<1>6. Len(w) \in Nat \ {0} /\ 1 \in 1 .. Len(w) /\ Len(w) \in 1 .. Len(w)
  BY <1>2, <1>3
<1>7. PICK v \in Seq(Pieces) : NoBlanks(text) = w \o v /\ (v = <<>> \/ v[1] = "\n")
  <2>1. CASE \A i \in 1 .. Len(rest) : rest[i] \in Blanks
    <3>1. NoBlanks(text) = w
      BY <1>1, <1>3, <1>4, <1>5, <1>6, <2>1, NoBlanksIs
    <3>2. w = w \o <<>> /\ <<>> \in Seq(Pieces)
      BY <1>3, ConcatEmptySeq, EmptySeq
    <3>3. QED BY <3>1, <3>2
  <2>2. CASE \E i \in 1 .. Len(rest) : rest[i] \notin Blanks
    <3> DEFINE ink == {i \in 1 .. Len(rest) : rest[i] \notin Blanks}
    <3>1. PICK k \in ink : \A i \in ink : i <= k
      <4>1. rest \in Seq(Pieces)
        BY <1>1
      <4>2. Len(rest) \in Nat
        BY <4>1
      <4>3. ink # {} /\ ink \in SUBSET (1 .. Len(rest))
        BY <2>2
      <4> HIDE DEF ink
      <4>4. QED BY <4>2, <4>3, Extremes
    <3>2. k \in 1 .. Len(rest) /\ Len(rest) \in Nat /\ rest[k] \notin Blanks
      BY <1>1
    <3>3. rest[1] = "\n" /\ k # 1
      <4>1. rest[1] = "\n"
        <5>1. rest \notin Seq(Blanks)
          BY <2>2, ElementOfSeq
        <5>2. QED BY <5>1 DEF Trails
      <4>2. QED BY <3>2, <4>1 DEF Blanks
    <3> DEFINE near == SubSeq(rest, 1, k)
    <3> DEFINE far  == SubSeq(rest, k + 1, Len(rest))
    <3>4. near \o far = rest
      <4>1. near \o far = SubSeq(rest, 1, Len(rest))
        BY <1>1, <3>2, ConcatAdjacentSubSeq
      <4>2. QED BY <1>1, <4>1, SubSeqFull
    <3>5. /\ near \in Seq(Pieces) /\ Len(near) = k
          /\ \A i \in 1 .. k : near[i] = rest[i]
      <4>1. \A i \in 1 .. k : rest[i] \in Pieces
        BY <1>1, <3>2, ElementOfSeq
      <4>2. 1 \in Int /\ k \in Int /\ 1 <= k /\ k - 1 + 1 = k /\ \A i \in 1 .. k : 1 + i - 1 = i
        BY <3>2
      <4>3. /\ near \in Seq(Pieces) /\ Len(near) = IF 1 <= k THEN k - 1 + 1 ELSE 0
            /\ \A i \in 1 .. k - 1 + 1 : near[i] = rest[1 + i - 1]
        BY <4>1, <4>2, SubSeqProperties
      <4>4. QED BY <4>2, <4>3
    <3>6. far \in Seq(Pieces) /\ \A i \in 1 .. Len(far) : far[i] \in Blanks
      <4>1. \A i \in k + 1 .. Len(rest) : rest[i] \in Pieces /\ rest[i] \in Blanks
        <5>1. ASSUME NEW i \in k + 1 .. Len(rest) PROVE rest[i] \in Pieces /\ rest[i] \in Blanks
          <6>1. i \in 1 .. Len(rest) /\ ~(i <= k)
            BY <3>2
          <6>2. QED BY <1>1, <3>1, <6>1, ElementOfSeq
        <5>2. QED BY <5>1
      <4>2. far \in Seq(Pieces)
        BY <3>2, <4>1, SubSeqProperties
      <4>3. far \in Seq(Blanks)
        BY <3>2, <4>1, SubSeqProperties
      <4>4. QED BY <4>2, <4>3, ElementOfSeq
    <3> HIDE DEF near, far
    <3> DEFINE ww == w \o near
    <3>7. /\ ww \in Seq(Pieces) /\ Len(ww) = Len(w) + k
          /\ \A i \in 1 .. Len(w) + k : ww[i] = IF i <= Len(w) THEN w[i] ELSE near[i - Len(w)]
      <4>1. w \in Seq(Pieces) /\ near \in Seq(Pieces) /\ Len(near) = k
        BY <1>3, <3>5
      <4>2. /\ Cat(w, near) \in Seq(Pieces) /\ Len(Cat(w, near)) = Len(w) + Len(near)
            /\ \A i \in 1 .. Len(w) + Len(near) :
                 Cat(w, near)[i] = IF i <= Len(w) THEN w[i] ELSE near[i - Len(w)]
        BY <4>1, CatIs
      <4>3. ww = Cat(w, near)
        BY DEF Cat
      <4> HIDE DEF ww
      <4>4. QED BY <4>1, <4>2, <4>3
    <3>8. text = (before \o ww) \o far
      <4>1. /\ before \in Seq(Pieces) /\ w \in Seq(Pieces)
            /\ near \in Seq(Pieces) /\ far \in Seq(Pieces)
        BY <1>1, <1>3, <3>5, <3>6
      <4>2. (before \o w) \o (near \o far) = (before \o (w \o near)) \o far
        <5>1. Cat(Cat(before, w), Cat(near, far)) = Cat(Cat(before, Cat(w, near)), far)
          BY <4>1, FourCat
        <5>2. QED BY <5>1 DEF Cat
      <4>3. QED BY <1>4, <3>4, <4>2
    <3>9. ww # <<>> /\ ww[1] \notin Blanks /\ ww[Len(ww)] \notin Blanks
      <4>1. Len(w) + k \in 1 .. Len(w) + k /\ 1 \in 1 .. Len(w) + k /\ 1 <= Len(w)
             /\ ~(Len(w) + k <= Len(w)) /\ (Len(w) + k) - Len(w) = k /\ k \in 1 .. k
        BY <1>6, <3>2
      <4>2. ww[1] = w[1] /\ ww[Len(ww)] = near[k]
        BY <3>7, <4>1
      <4>3. ww # <<>>
        BY <1>6, <3>2, <3>7, EmptySeq
      <4>4. QED BY <1>5, <1>6, <3>2, <3>5, <4>1, <4>2, <4>3
    <3>10. NoBlanks(text) = ww
      <4> HIDE DEF ww
      <4>1. /\ before \in Seq(Pieces) /\ \A i \in 1 .. Len(before) : before[i] \in Blanks
            /\ ww \in Seq(Pieces)
        BY <1>1, <3>7
      <4>2. NoBlanks((before \o ww) \o far) = ww
        BY <3>6, <3>9, <4>1, NoBlanksIs
      <4>3. QED BY <3>8, <4>2
    <3>11. near[1] = "\n"
      BY <3>2, <3>3, <3>5
    <3>12. QED BY <3>5, <3>10, <3>11
  <2>3. QED BY <2>1, <2>2
<1>8. FirstLine(NoBlanks(text)) = w
  <2>1. \A i \in 1 .. Len(w) : w[i] # "\n"
    BY <1>5 DEF Blanks
  <2>2. w \in Seq(Pieces)
    BY <1>3
  <2>3. FirstLine(w \o v) = w
    BY <1>7, <2>1, <2>2, FirstLineIs
  <2>4. QED BY <1>7, <2>3
<1>9. NoBlanks(w) = w
  BY <1>3, <1>5, <1>6, NoBlanksStays
<1>10. NoSlashes(w) = core
  BY <1>1, NoSlashesIs DEF w
<1>11. QED BY <1>8, <1>9, <1>10 DEF text

(* What an address says, once it is cleaned.                                *)
LEMMA Spells ==
  ASSUME NEW scheme \in {<<>>, HTTP, HTTPS}, NEW port \in {<<>>} \cup {<<p>> : p \in Ports}
  PROVE  LET core  == (scheme \o <<"host">>) \o port
             named == IF IsPrefix(HTTP, core) THEN HTTP
                      ELSE IF IsPrefix(HTTPS, core) THEN HTTPS ELSE <<>>
             addr  == SubSeq(core, 1 + Len(named), Len(core))
         IN  /\ scheme \in Seq(Pieces) /\ <<"host">> \in Seq(Pieces) /\ port \in Seq(Pieces)
             /\ core \in Seq(Pieces) /\ core # <<>> /\ core[1] # "#"
             /\ core[Len(core)] # "/" /\ \A i \in 1 .. Len(core) : core[i] \notin Blanks
             /\ named = scheme
             /\ addr \in Seq(Pieces) /\ addr = <<"host">> \o port /\ addr # <<>>
             /\ addr[Len(addr)] # "/" /\ \A i \in 1 .. Len(addr) : addr[i] \notin Blanks
<1> DEFINE core  == (scheme \o <<"host">>) \o port
<1> DEFINE named == IF IsPrefix(HTTP, core) THEN HTTP
                    ELSE IF IsPrefix(HTTPS, core) THEN HTTPS ELSE <<>>
<1> DEFINE addr  == SubSeq(core, 1 + Len(named), Len(core))
<1> DEFINE tail  == <<"host">> \o port
<1>1. /\ scheme \in Seq(Pieces) /\ <<"host">> \in Seq(Pieces)
      /\ Len(<<"host">>) = 1 /\ <<"host">>[1] = "host"
      /\ Len(scheme) \in {0, 3}
      /\ \A i \in 1 .. Len(scheme) : scheme[i] \notin Blanks /\ scheme[i] # "#"
  <2>1. {"http:", "https:", "/", "host"} \subseteq Pieces
    BY DEF Pieces, Marks
  <2>2. CASE scheme = <<>>
    BY <2>1, <2>2
  <2>3. CASE scheme = HTTP
    BY <2>1, <2>3 DEF HTTP, Blanks
  <2>4. CASE scheme = HTTPS
    BY <2>1, <2>4 DEF HTTPS, Blanks
  <2>5. QED BY <2>1, <2>2, <2>3, <2>4
<1>2. /\ port \in Seq(Pieces) /\ Len(port) \in {0, 1}
      /\ \A i \in 1 .. Len(port) : port[i] \notin Blanks /\ port[i] # "/"
  <2>1. CASE port = <<>>
    BY <2>1
  <2>2. ASSUME NEW p \in Ports, port = <<p>>
        PROVE  /\ port \in Seq(Pieces) /\ Len(port) \in {0, 1}
               /\ \A i \in 1 .. Len(port) : port[i] \notin Blanks /\ port[i] # "/"
    <3>1. p \in Pieces /\ p \notin Marks
      BY AddressesAssumption DEF Pieces
    <3>2. p \notin Blanks /\ p # "/"
      BY <3>1 DEF Marks, Blanks
    <3>3. QED BY <2>2, <3>1, <3>2
  <2>3. QED BY <2>1, <2>2
<1>3. /\ tail \in Seq(Pieces) /\ Len(tail) = 1 + Len(port)
      /\ tail[1] = "host" /\ \A i \in 1 .. Len(port) : tail[1 + i] = port[i]
  BY <1>1, <1>2, ConcatProperties
<1>4. core = scheme \o tail
  BY <1>1, <1>2, ConcatAssociative
<1> HIDE DEF tail, core, named, addr
<1>5. /\ core \in Seq(Pieces) /\ Len(core) = Len(scheme) + Len(tail)
      /\ \A i \in 1 .. Len(scheme) + Len(tail) :
           core[i] = IF i <= Len(scheme) THEN scheme[i] ELSE tail[i - Len(scheme)]
  <2>1. scheme \in Seq(Pieces) /\ tail \in Seq(Pieces)
    BY <1>1, <1>3
  <2>2. QED BY <1>4, <2>1, ConcatProperties
<1>6. /\ Len(scheme) \in Nat /\ Len(tail) \in Nat /\ Len(core) \in Nat
      /\ Len(scheme) = 0 \/ Len(scheme) = 3
      /\ Len(tail) = 1 \/ Len(tail) = 2
      /\ Len(core) = Len(scheme) + Len(tail)
  BY <1>1, <1>2, <1>3, <1>5
<1>7. \A i \in 1 .. Len(tail) : tail[i] \notin Blanks /\ tail[i] # "/" /\ (i = 1 => tail[i] # "#")
  <2>1. ASSUME NEW i \in 1 .. Len(tail)
        PROVE  tail[i] \notin Blanks /\ tail[i] # "/" /\ (i = 1 => tail[i] # "#")
    <3>1. CASE i = 1
      BY <1>3, <3>1 DEF Blanks
    <3>2. CASE i # 1
      <4>1. i - 1 \in 1 .. Len(port) /\ 1 + (i - 1) = i
        BY <1>2, <1>3, <3>2
      <4>2. tail[1 + (i - 1)] = port[i - 1]
        BY <1>3, <4>1
      <4>3. QED BY <1>2, <3>2, <4>1, <4>2
    <3>3. QED BY <3>1, <3>2
  <2>2. QED BY <2>1
<1>8. /\ core # <<>> /\ core[1] # "#" /\ core[Len(core)] # "/"
      /\ \A i \in 1 .. Len(core) : core[i] \notin Blanks
  <2>1. core # <<>>
    BY <1>6, EmptySeq
  <2>2. core[1] # "#"
    <3>1. CASE Len(scheme) = 0
      <4>1. core[1] = tail[1]
        BY <1>5, <1>6, <3>1
      <4>2. QED BY <1>3, <4>1
    <3>2. CASE Len(scheme) = 3
      <4>1. core[1] = scheme[1]
        BY <1>5, <1>6, <3>2
      <4>2. QED BY <1>1, <3>2, <4>1
    <3>3. QED BY <1>6, <3>1, <3>2
  <2>3. ASSUME NEW i \in 1 .. Len(core)
        PROVE  core[i] \notin Blanks /\ (i = Len(core) => core[i] # "/")
    <3>1. CASE i <= Len(scheme)
      <4>1. i \in 1 .. Len(scheme) /\ i # Len(core) /\ i \in 1 .. Len(scheme) + Len(tail)
        <5>1. i \in Nat /\ 1 <= i /\ i <= Len(scheme) /\ i <= Len(core)
          BY <1>6, <3>1
        <5>2. Len(scheme) \in Nat /\ Len(tail) \in Nat \ {0} /\ Len(core) = Len(scheme) + Len(tail)
          BY <1>6
        <5>3. QED BY <5>1, <5>2
      <4>2. core[i] = scheme[i]
        BY <1>5, <3>1, <4>1
      <4>3. QED BY <1>1, <4>1, <4>2
    <3>2. CASE ~(i <= Len(scheme))
      <4>1. core[i] = tail[i - Len(scheme)] /\ i - Len(scheme) \in 1 .. Len(tail)
        BY <1>5, <1>6, <3>2
      <4>2. QED BY <1>7, <4>1
    <3>3. QED BY <3>1, <3>2
  <2>4. Len(core) \in 1 .. Len(core)
    BY <1>6
  <2>5. QED BY <2>1, <2>2, <2>3, <2>4
<1>9. named = scheme
  <2>1. Len(HTTP) = 3 /\ Len(HTTPS) = 3
    BY DEF HTTP, HTTPS
  <2>2. CASE scheme = <<>>
    <3>1. Len(core) = 1 \/ Len(core) = 2
      BY <1>6, <2>2
    <3>2. ~IsPrefix(HTTP, core) /\ ~IsPrefix(HTTPS, core)
      BY <2>1, <3>1 DEF IsPrefix
    <3>3. QED BY <2>2, <3>2 DEF named
  <2>3. CASE scheme \in {HTTP, HTTPS}
    <3>1. Len(scheme) = 3 /\ (Len(core) = 4 \/ Len(core) = 5)
      <4>1. Len(scheme) = 3
        BY <2>1, <2>3
      <4>2. Len(core) = Len(scheme) + Len(tail) /\ (Len(tail) = 1 \/ Len(tail) = 2)
        BY <1>6
      <4>3. CASE Len(tail) = 1
        BY <4>1, <4>2, <4>3
      <4>4. CASE Len(tail) = 2
        BY <4>1, <4>2, <4>4
      <4>5. QED BY <4>1, <4>2, <4>3, <4>4
    <3>2. SubSeq(core, 1, 3) = SubSeq(scheme, 1, 3)
      <4>1. scheme \in Seq(Pieces) /\ tail \in Seq(Pieces) /\ 1 \in 1 .. Len(scheme) /\ 3 \in 1 .. Len(scheme)
        BY <1>1, <1>3, <3>1
      <4>2. QED BY <1>4, <3>1, <4>1, SubSeqOfConcat1
    <3>3. IsPrefix(scheme, core)
      BY <3>1, <3>2 DEF IsPrefix
    <3>4. scheme = HTTPS => ~IsPrefix(HTTP, core)
      <4>1. SubSeq(HTTP, 1, 3)[1] = "http:" /\ SubSeq(HTTPS, 1, 3)[1] = "https:"
        BY DEF HTTP, HTTPS
      <4>2. QED BY <2>1, <3>2, <4>1 DEF IsPrefix
    <3>5. QED BY <2>3, <3>3, <3>4 DEF named
  <2>4. QED BY <2>2, <2>3
<1>10. addr = tail /\ addr \in Seq(Pieces)
  <2>1. scheme \in Seq(Pieces) /\ tail \in Seq(Pieces) /\ <<>> \in Seq(Pieces)
    BY <1>1, <1>3, EmptySeq
  <2>2. SubSeq((scheme \o tail) \o <<>>, Len(scheme) + 1, Len(scheme) + Len(tail)) = tail
    BY <2>1, MiddleIs
  <2>3. (scheme \o tail) \o <<>> = core
    BY <1>4, <1>5, ConcatEmptySeq
  <2>4. 1 + Len(named) = Len(scheme) + 1
    BY <1>6, <1>9
  <2>5. QED BY <1>6, <2>1, <2>2, <2>3, <2>4 DEF addr
<1>11. tail # <<>> /\ tail[Len(tail)] # "/" /\ \A i \in 1 .. Len(tail) : tail[i] \notin Blanks
  <2>1. tail # <<>> /\ Len(tail) \in 1 .. Len(tail)
    BY <1>6, EmptySeq
  <2>2. QED BY <1>7, <2>1
<1>12. QED BY <1>1, <1>2, <1>5, <1>8, <1>9, <1>10, <1>11 DEF core, named, addr, tail

(* A text of two pieces.                                                    *)
LEMMA PairIs ==
  ASSUME NEW h, NEW p
  PROVE  <<h>> \o <<p>> = <<h, p>> /\ Append(<<h>>, p) = <<h, p>>
<1> DEFINE S == {h, p}
<1>1. /\ <<h>> \in Seq(S) /\ <<p>> \in Seq(S) /\ <<h, p>> \in Seq(S)
      /\ Len(<<h>>) = 1 /\ Len(<<p>>) = 1 /\ Len(<<h, p>>) = 2
      /\ <<h>>[1] = h /\ <<p>>[1] = p /\ <<h, p>>[1] = h /\ <<h, p>>[2] = p
  OBVIOUS
<1> HIDE DEF S
<1> DEFINE c == <<h>> \o <<p>>
<1>2. /\ c \in Seq(S) /\ Len(c) = 2
      /\ \A i \in 1 .. 2 : c[i] = IF i <= 1 THEN <<h>>[i] ELSE <<p>>[i - 1]
  BY <1>1, ConcatProperties
<1> HIDE DEF c
<1>3. c[1] = h /\ c[2] = p
  BY <1>1, <1>2
<1>4. c = <<h, p>>
  <2>1. \A i \in 1 .. Len(c) : c[i] = <<h, p>>[i]
    <3>1. \A i \in 1 .. Len(c) : i = 1 \/ i = 2
      BY <1>2
    <3>2. QED BY <1>1, <1>3, <3>1
  <2>2. QED BY <1>1, <1>2, <2>1, SeqEqual
<1>5. Append(<<h>>, p) = c
  <2>1. p \in S
    BY DEF S
  <2>2. QED BY <1>1, <2>1, AppendIsConcat DEF c
<1>6. QED BY <1>4, <1>5 DEF c

(* ParseServer takes an address for what it says: whatever blank lines stand *)
(* before it, however many slashes behind it, and whatever lines follow.    *)
THEOREM AddressesAreRead ==
  ASSUME NEW before \in Seq(Blanks),
         NEW scheme \in {<<>>, HTTP, HTTPS}, NEW port \in {<<>>} \cup {<<p>> : p \in Ports},
         NEW slashes \in Seq({"/"}), NEW rest \in Trails
  PROVE  ParseServer(before \o scheme \o <<"host">> \o port \o (slashes \o rest))
           = Means(scheme, port)
<1> DEFINE core  == (scheme \o <<"host">>) \o port
<1> DEFINE named == IF IsPrefix(HTTP, core) THEN HTTP
                    ELSE IF IsPrefix(HTTPS, core) THEN HTTPS ELSE <<>>
<1> DEFINE addr  == SubSeq(core, 1 + Len(named), Len(core))
<1> DEFINE text  == before \o scheme \o <<"host">> \o port \o (slashes \o rest)
<1> DEFINE other == IF scheme = HTTP THEN HTTPPort ELSE HTTPSPort
<1>1. /\ core \in Seq(Pieces) /\ core # <<>> /\ core[1] # "#"
      /\ core[Len(core)] # "/" /\ \A i \in 1 .. Len(core) : core[i] \notin Blanks
      /\ named = scheme
      /\ addr \in Seq(Pieces) /\ addr = <<"host">> \o port /\ addr # <<>>
      /\ addr[Len(addr)] # "/" /\ \A i \in 1 .. Len(addr) : addr[i] \notin Blanks
  BY Spells
<1>2. text = (before \o core) \o (slashes \o rest)
  <2>1. /\ before \in Seq(Pieces) /\ scheme \in Seq(Pieces)
        /\ <<"host">> \in Seq(Pieces) /\ port \in Seq(Pieces)
    <3>1. Blanks \subseteq Pieces
      BY DEF Blanks, Pieces, Marks
    <3>2. before \in Seq(Pieces)
      BY <3>1, SeqMonotonic
    <3>3. QED BY <3>2, Spells
  <2>2. ((before \o scheme) \o <<"host">>) \o port = before \o core
    <3> DEFINE host == <<"host">>
    <3>1. host \in Seq(Pieces)
      BY <2>1
    <3> HIDE DEF host
    <3>2. Cat(Cat(Cat(before, scheme), host), port) = Cat(before, Cat(Cat(scheme, host), port))
      BY <2>1, <3>1, FourCat
    <3>3. QED BY <3>2 DEF Cat, host
  <2>3. QED BY <2>2
<1> HIDE DEF text, core
<1>3. NoSlashes(NoBlanks(FirstLine(NoBlanks(text)))) = core
  BY <1>1, <1>2, Cleaned
<1> HIDE DEF named, addr
<1>4. NoSlashes(NoBlanks(addr)) = addr
  <2>1. Len(addr) \in 1 .. Len(addr) /\ 1 \in 1 .. Len(addr)
    BY <1>1, EmptySeq
  <2>2. NoBlanks(addr) = addr
    BY <1>1, <2>1, NoBlanksStays
  <2>3. <<>> \in Seq(Pieces) /\ Len(<<>>) = 0 /\ addr \o <<>> = addr
    BY <1>1, EmptySeq, ConcatEmptySeq
  <2>4. NoSlashes(addr \o <<>>) = addr
    <3>1. \A i \in 1 .. Len(<<>>) : <<>>[i] = "/"
      BY <2>3
    <3>2. QED BY <1>1, <2>3, <3>1, NoSlashesIs
  <2>5. QED BY <2>2, <2>3, <2>4
<1>5. ParseServer(text) =
        [dial  |-> IF Last(addr) \in Ports THEN addr ELSE Append(addr, other),
         https |-> scheme # HTTP]
  <2>1. ParseServer(text) =
          LET s == NoSlashes(NoBlanks(FirstLine(NoBlanks(text))))
              n == IF IsPrefix(HTTP, s) THEN HTTP ELSE IF IsPrefix(HTTPS, s) THEN HTTPS ELSE <<>>
              a == NoSlashes(NoBlanks(SubSeq(s, 1 + Len(n), Len(s))))
              p == IF n = HTTP THEN HTTPPort ELSE HTTPSPort
          IN  IF s = <<>> \/ s[1] = "#" \/ a = <<>> THEN Unusable
              ELSE [dial |-> IF Last(a) \in Ports THEN a ELSE Append(a, p), https |-> n # HTTP]
    BY DEF ParseServer
  <2>2. ParseServer(text) =
          LET a == NoSlashes(NoBlanks(addr))
              p == IF named = HTTP THEN HTTPPort ELSE HTTPSPort
          IN  IF core = <<>> \/ core[1] = "#" \/ a = <<>> THEN Unusable
              ELSE [dial |-> IF Last(a) \in Ports THEN a ELSE Append(a, p), https |-> named # HTTP]
    BY <1>3, <2>1 DEF named, addr
  <2>3. QED BY <1>1, <1>4, <2>2
<1>6. (IF Last(addr) \in Ports THEN addr ELSE Append(addr, other))
        = <<"host", IF port # <<>> THEN port[1] ELSE other>>
  <2>1. CASE port = <<>>
    <3>1. addr = <<"host">>
      BY <1>1, <2>1
    <3>2. "host" \notin Ports
      BY AddressesAssumption DEF Marks
    <3>3. Last(addr) = "host"
      BY <3>1 DEF Last
    <3>4. Append(<<"host">>, other) = <<"host", other>>
      BY PairIs
    <3>5. QED BY <2>1, <3>1, <3>2, <3>3, <3>4
  <2>2. ASSUME NEW p \in Ports, port = <<p>>
        PROVE  (IF Last(addr) \in Ports THEN addr ELSE Append(addr, other)) = <<"host", p>>
    <3>1. addr = <<"host", p>>
      BY <1>1, <2>2, PairIs
    <3>2. Last(addr) = p
      BY <3>1 DEF Last
    <3>3. QED BY <3>1, <3>2
  <2>3. QED BY <2>1, <2>2
<1>7. QED BY <1>5, <1>6 DEF Means, text

(* A part of a text, and its first piece.                                   *)
LEMMA PartIs ==
  ASSUME NEW s \in Seq(Pieces), NEW j \in 1 .. Len(s), NEW k \in 1 .. Len(s), j <= k
  PROVE  SubSeq(s, j, k) \in Seq(Pieces) /\ SubSeq(s, j, k) # <<>> /\ SubSeq(s, j, k)[1] = s[j]
<1>1. Len(s) \in Nat /\ j \in Int /\ k \in Int
  OBVIOUS
<1>2. \A i \in j .. k : s[i] \in Pieces
  <2>1. \A i \in j .. k : i \in 1 .. Len(s)
    BY <1>1
  <2>2. QED BY <2>1, ElementOfSeq
<1>3. /\ SubSeq(s, j, k) \in Seq(Pieces)
      /\ Len(SubSeq(s, j, k)) = IF j <= k THEN k - j + 1 ELSE 0
      /\ \A i \in 1 .. k - j + 1 : SubSeq(s, j, k)[i] = s[j + i - 1]
  BY <1>1, <1>2, SubSeqProperties
<1>4. 1 \in 1 .. k - j + 1 /\ j + 1 - 1 = j /\ k - j + 1 # 0
  BY <1>1
<1>5. SubSeq(s, j, k)[1] = s[j]
  BY <1>3, <1>4
<1>6. SubSeq(s, j, k) # <<>>
  BY <1>3, <1>4, EmptySeq
<1>7. QED BY <1>3, <1>5, <1>6

(* A comment.                                                               *)
Comment(s) == s \in Seq(Pieces) /\ s # <<>> /\ s[1] = "#"

(* TrimSpace finds the comment behind blanks.                               *)
LEMMA NoBlanksComment ==
  ASSUME NEW s \in Seq(Pieces), NEW j \in 1 .. Len(s), s[j] = "#",
         \A i \in 1 .. j - 1 : s[i] \in Blanks
  PROVE  Comment(NoBlanks(s))
<1> DEFINE ink == {i \in DOMAIN s : s[i] \notin {"blank", "\n"}}
<1>1. Len(s) \in Nat /\ DOMAIN s = 1 .. Len(s) /\ ink \in SUBSET (1 .. Len(s))
  OBVIOUS
<1>2. j \in ink
  BY <1>1
<1>3. \A i \in ink : j <= i
  <2>1. ASSUME NEW i \in ink, ~(j <= i) PROVE FALSE
    <3>1. i \in 1 .. j - 1
      BY <1>1, <2>1
    <3>2. QED BY <3>1 DEF Blanks
  <2>2. QED BY <2>1
<1> HIDE DEF ink
<1>4. PICK k \in ink : \A i \in ink : i <= k
  BY <1>1, <1>2, Extremes
<1>5. \A i \in ink : i \in Int
  BY <1>1
<1>6. Min(ink) = j /\ Max(ink) = k
  BY <1>2, <1>3, <1>4, <1>5, MinIs, MaxIs
<1>7. NoBlanks(s) = SubSeq(s, j, k)
  <2>1. NoBlanks(s) = SubSeq(s, Min(ink), Max(ink))
    BY <1>2 DEF NoBlanks, Within, ink
  <2>2. QED BY <1>6, <2>1
<1>8. k \in 1 .. Len(s) /\ j <= k
  BY <1>1, <1>3
<1>9. QED BY <1>7, <1>8, PartIs DEF Comment

(* Its first line is one.                                                   *)
LEMMA FirstLineComment ==
  ASSUME NEW s, Comment(s)
  PROVE  Comment(FirstLine(s))
<1> DEFINE ends == {i \in DOMAIN s : s[i] = "\n"}
<1>1. s \in Seq(Pieces) /\ s # <<>> /\ s[1] = "#" /\ Len(s) \in Nat \ {0} /\ DOMAIN s = 1 .. Len(s)
  BY EmptySeq DEF Comment
<1>2. CASE ends = {}
  BY <1>2 DEF FirstLine
<1>3. CASE ends # {}
  <2>1. \A i \in ends : i \in 1 .. Len(s) /\ i # 1
    BY <1>1
  <2>2. ends \in SUBSET (1 .. Len(s))
    BY <1>1
  <2> HIDE DEF ends
  <2>3. PICK e \in ends : \A i \in ends : e <= i
    BY <1>1, <1>3, <2>2, Extremes
  <2>4. \A i \in ends : i \in Int
    BY <1>1, <2>1
  <2>5. Min(ends) = e
    BY <2>3, <2>4, MinIs
  <2>6. FirstLine(s) = SubSeq(s, 1, e - 1)
    <3>1. FirstLine(s) = SubSeq(s, 1, Min(ends) - 1)
      BY <1>3 DEF FirstLine, ends
    <3>2. QED BY <2>5, <3>1
  <2>7. e - 1 \in 1 .. Len(s) /\ 1 \in 1 .. Len(s) /\ 1 <= e - 1
    BY <1>1, <2>1
  <2>8. QED BY <1>1, <2>6, <2>7, PartIs DEF Comment
<1>4. QED BY <1>2, <1>3

(* And TrimRight does not take its first piece.                             *)
LEMMA NoSlashesComment ==
  ASSUME NEW s, Comment(s)
  PROVE  Comment(NoSlashes(s))
<1> DEFINE most  == {i \in DOMAIN s : s[i] # "/"}
<1> DEFINE stays == {0} \cup most
<1>1. s \in Seq(Pieces) /\ s # <<>> /\ s[1] = "#" /\ Len(s) \in Nat \ {0} /\ DOMAIN s = 1 .. Len(s)
  BY EmptySeq DEF Comment
<1>2. most \in SUBSET (1 .. Len(s)) /\ 1 \in most
  BY <1>1
<1> HIDE DEF most
<1>3. PICK k \in most : \A i \in most : i <= k
  BY <1>1, <1>2, Extremes
<1>4. k \in 1 .. Len(s) /\ 1 <= k /\ 1 \in 1 .. Len(s)
  BY <1>1, <1>2, <1>3
<1>5. k \in stays /\ \A i \in stays : i \in Int /\ i <= k
  BY <1>1, <1>2, <1>3, <1>4
<1> HIDE DEF stays
<1>6. Max(stays) = k
  BY <1>5, MaxIs
<1>7. NoSlashes(s) = SubSeq(s, 1, k)
  BY <1>6 DEF NoSlashes, stays, most
<1>8. QED BY <1>1, <1>4, <1>7, PartIs DEF Comment

(* ParseServer finds no address in blanks, nor in a comment behind blanks.   *)
LEMMA IdleIs ==
  ASSUME NEW text \in Seq(Pieces),
         \/ \A i \in 1 .. Len(text) : text[i] \in Blanks
         \/ \E j \in 1 .. Len(text) :
              text[j] = "#" /\ \A i \in 1 .. j - 1 : text[i] \in Blanks
  PROVE  ParseServer(text) = Unusable
<1> DEFINE s == NoSlashes(NoBlanks(FirstLine(NoBlanks(text))))
<1>1. CASE \A i \in 1 .. Len(text) : text[i] \in Blanks
  <2>1. NoBlanks(text) = <<>>
    BY <1>1, NoBlanksNone
  <2>2. FirstLine(<<>>) = <<>>
    BY DEF FirstLine
  <2>3. NoBlanks(<<>>) = <<>>
    <3>1. <<>> \in Seq(Pieces) /\ \A i \in 1 .. Len(<<>>) : <<>>[i] \in Blanks
      BY EmptySeq
    <3>2. QED BY <3>1, NoBlanksNone
  <2>4. NoSlashes(<<>>) = <<>>
    <3>1. {0} \cup {i \in DOMAIN <<>> : <<>>[i] # "/"} = {0}
      OBVIOUS
    <3>2. Max({0}) = 0
      <4>1. {0} \in SUBSET Int /\ 0 \in {0} /\ \A k \in {0} : k <= 0
        OBVIOUS
      <4>2. QED BY <4>1, MaxIs
    <3>3. SubSeq(<<>>, 1, 0) = <<>>
      BY SubSeqEmpty
    <3>4. QED BY <3>1, <3>2, <3>3 DEF NoSlashes
  <2>5. s = <<>>
    BY <2>1, <2>2, <2>3, <2>4
  <2>6. QED BY <2>5 DEF ParseServer
<1>2. ASSUME NEW j \in 1 .. Len(text), text[j] = "#", \A i \in 1 .. j - 1 : text[i] \in Blanks
      PROVE  ParseServer(text) = Unusable
  <2>1. Comment(NoBlanks(text))
    BY <1>2, NoBlanksComment
  <2>2. Comment(FirstLine(NoBlanks(text)))
    BY <2>1, FirstLineComment
  <2>3. Comment(NoBlanks(FirstLine(NoBlanks(text))))
    <3> DEFINE c == FirstLine(NoBlanks(text))
    <3>1. Comment(c)
      BY <2>2
    <3> HIDE DEF c
    <3>2. c \in Seq(Pieces) /\ 1 \in 1 .. Len(c) /\ c[1] = "#" /\ \A i \in 1 .. 1 - 1 : c[i] \in Blanks
      BY <3>1, EmptySeq DEF Comment
    <3>3. Comment(NoBlanks(c))
      BY <3>2, NoBlanksComment
    <3>4. QED BY <3>3 DEF c
  <2>4. Comment(s)
    BY <2>3, NoSlashesComment
  <2>5. s[1] = "#"
    BY <2>4 DEF Comment
  <2>6. QED BY <2>5 DEF ParseServer
<1>3. QED BY <1>1, <1>2

(* ResolveServer takes the first source that has an address.                *)
LEMMA FirstUsableIs ==
  ASSUME NEW n \in Nat, NEW sources, DOMAIN sources = 1 .. n, NEW k \in 1 .. n,
         ParseServer(sources[k]).dial # <<>>,
         \A i \in 1 .. k - 1 : ParseServer(sources[i]) = Unusable
  PROVE  ResolveServer(sources) = ParseServer(sources[k])
<1> DEFINE usable == {i \in DOMAIN sources : ParseServer(sources[i]).dial # <<>>}
<1>1. k \in usable /\ \A i \in usable : i \in 1 .. n
  OBVIOUS
<1>2. ASSUME NEW i \in usable PROVE k <= i
  <2>1. i \notin 1 .. k - 1
    BY <1>2 DEF Unusable
  <2>2. QED BY <1>1, <2>1
<1> HIDE DEF usable
<1>3. \A i \in usable : i \in Int
  BY <1>1
<1>4. Min(usable) = k
  BY <1>1, <1>2, <1>3, MinIs
<1>5. QED BY <1>1, <1>4 DEF ResolveServer, usable

(* The client dials the first of its sources that has an address, as that    *)
(* address says: sources that are blank or a comment hide none after them.  *)
THEOREM ServersAreResolved ==
  ASSUME NEW n \in Nat, NEW sources, DOMAIN sources = 1 .. n, NEW k \in 1 .. n,
         \A m \in 1 .. k - 1 :
           /\ sources[m] \in Seq(Pieces)
           /\ \/ \A i \in 1 .. Len(sources[m]) : sources[m][i] \in Blanks
              \/ \E j \in 1 .. Len(sources[m]) :
                   sources[m][j] = "#" /\ \A i \in 1 .. j - 1 : sources[m][i] \in Blanks,
         NEW before \in Seq(Blanks),
         NEW scheme \in {<<>>, HTTP, HTTPS}, NEW port \in {<<>>} \cup {<<p>> : p \in Ports},
         NEW slashes \in Seq({"/"}), NEW rest \in Trails,
         sources[k] = before \o scheme \o <<"host">> \o port \o (slashes \o rest)
  PROVE  ResolveServer(sources) = Means(scheme, port)
<1>1. ParseServer(sources[k]) = Means(scheme, port)
  <2>1. ParseServer(before \o scheme \o <<"host">> \o port \o (slashes \o rest)) = Means(scheme, port)
    BY AddressesAreRead
  <2>2. QED BY <2>1
<1>2. ParseServer(sources[k]).dial # <<>>
  <2>1. Means(scheme, port).dial = <<"host", IF port # <<>> THEN port[1]
                                      ELSE IF scheme = HTTP THEN HTTPPort ELSE HTTPSPort>>
    BY DEF Means
  <2>2. \A q : <<"host", q>> # <<>>
    OBVIOUS
  <2>3. QED BY <1>1, <2>1, <2>2
<1>3. \A m \in 1 .. k - 1 : ParseServer(sources[m]) = Unusable
  BY IdleIs
<1>4. QED BY <1>1, <1>2, <1>3, FirstUsableIs

(* Texts of three and of four pieces.                                       *)
LEMMA ThreeAre ==
  ASSUME NEW h, NEW p, NEW q
  PROVE  <<h, p>> \o <<q>> = <<h, p, q>>
<1> DEFINE S == {h, p, q}
<1>1. /\ <<h, p>> \in Seq(S) /\ <<q>> \in Seq(S) /\ <<h, p, q>> \in Seq(S)
      /\ Len(<<h, p>>) = 2 /\ Len(<<q>>) = 1 /\ Len(<<h, p, q>>) = 3
  OBVIOUS
<1> DEFINE u == <<h, p>>
<1> DEFINE v == <<q>>
<1> DEFINE c == Cat(u, v)
<1> HIDE DEF S, u, v, c
<1>2. u \in Seq(S) /\ v \in Seq(S) /\ Len(u) = 2 /\ Len(v) = 1
  BY <1>1 DEF u, v
<1>3. /\ c \in Seq(S) /\ Len(c) = 3
      /\ \A i \in 1 .. 3 : c[i] = IF i <= 2 THEN u[i] ELSE v[i - 2]
  <2>1. /\ c \in Seq(S) /\ Len(c) = Len(u) + Len(v)
        /\ \A i \in 1 .. Len(u) + Len(v) : c[i] = IF i <= Len(u) THEN u[i] ELSE v[i - Len(u)]
    BY <1>2, CatIs DEF c
  <2>2. QED BY <1>2, <2>1
<1>4. c[1] = h /\ c[2] = p /\ c[3] = q
  BY <1>3 DEF u, v
<1>5. \A i \in 1 .. Len(c) : c[i] = <<h, p, q>>[i]
  <2>1. \A i \in 1 .. Len(c) : i = 1 \/ i = 2 \/ i = 3
    BY <1>3
  <2>2. QED BY <1>4, <2>1
<1>6. c = <<h, p, q>>
  BY <1>1, <1>3, <1>5, SeqEqual
<1>7. QED BY <1>6 DEF c, u, v, Cat

(* The same of four pieces.                                                 *)
LEMMA FourAre ==
  ASSUME NEW h, NEW p, NEW q, NEW r
  PROVE  <<h>> \o <<p, q, r>> = <<h, p, q, r>>
<1> DEFINE S == {h, p, q, r}
<1>1. /\ <<h>> \in Seq(S) /\ <<p, q, r>> \in Seq(S) /\ <<h, p, q, r>> \in Seq(S)
      /\ Len(<<h>>) = 1 /\ Len(<<p, q, r>>) = 3 /\ Len(<<h, p, q, r>>) = 4
  OBVIOUS
<1> DEFINE u == <<h>>
<1> DEFINE v == <<p, q, r>>
<1> DEFINE d == Cat(u, v)
<1> HIDE DEF S, u, v, d
<1>2. u \in Seq(S) /\ v \in Seq(S) /\ Len(u) = 1 /\ Len(v) = 3
  BY <1>1 DEF u, v
<1>3. /\ d \in Seq(S) /\ Len(d) = 4
      /\ \A i \in 1 .. 4 : d[i] = IF i <= 1 THEN u[i] ELSE v[i - 1]
  <2>1. /\ d \in Seq(S) /\ Len(d) = Len(u) + Len(v)
        /\ \A i \in 1 .. Len(u) + Len(v) : d[i] = IF i <= Len(u) THEN u[i] ELSE v[i - Len(u)]
    BY <1>2, CatIs DEF d
  <2>2. QED BY <1>2, <2>1
<1>4. d[1] = h /\ d[2] = p /\ d[3] = q /\ d[4] = r
  BY <1>3 DEF u, v
<1>5. \A i \in 1 .. Len(d) : d[i] = <<h, p, q, r>>[i]
  <2>1. \A i \in 1 .. Len(d) : i = 1 \/ i = 2 \/ i = 3 \/ i = 4
    BY <1>3
  <2>2. QED BY <1>4, <2>1
<1>6. d = <<h, p, q, r>>
  BY <1>1, <1>3, <1>5, SeqEqual
<1>7. QED BY <1>6 DEF d, u, v, Cat

(* In particular as the run has them.                                       *)
THEOREM AddressesAreUnderstood == ServerUnderstood
<1>1. ASSUME NEW t \in Idle
      PROVE  ParseServer(t) = Unusable
  <2>1. {"blank", "\n", "#", "host"} \subseteq Pieces
    BY DEF Pieces, Marks
  <2>2. CASE t = <<>>
    <3>1. t \in Seq(Pieces) /\ \A i \in 1 .. Len(t) : t[i] \in Blanks
      BY <2>2, EmptySeq
    <3>2. QED BY <3>1, IdleIs
  <2>3. CASE t = <<"blank", "\n">>
    <3>1. t \in Seq(Pieces) /\ \A i \in 1 .. Len(t) : t[i] \in Blanks
      BY <2>1, <2>3 DEF Blanks
    <3>2. QED BY <3>1, IdleIs
  <2>4. CASE t = <<"#", "host">>
    <3>1. /\ t \in Seq(Pieces) /\ 1 \in 1 .. Len(t) /\ t[1] = "#"
          /\ \A i \in 1 .. 1 - 1 : t[i] \in Blanks
      BY <2>1, <2>4
    <3>2. QED BY <3>1, IdleIs
  <2>5. CASE t = <<"\n", "blank", "#", "\n", "host">>
    <3>1. t \in Seq(Pieces) /\ 3 \in 1 .. Len(t) /\ t[3] = "#" /\ t[1] \in Blanks /\ t[2] \in Blanks
      BY <2>1, <2>5 DEF Blanks
    <3>2. \A i \in 1 .. 3 - 1 : t[i] \in Blanks
      <4>1. \A i \in 1 .. 3 - 1 : i = 1 \/ i = 2
        OBVIOUS
      <4>2. QED BY <3>1, <4>1
    <3>3. QED BY <3>1, <3>2, IdleIs
  <2>6. QED BY <1>1, <2>2, <2>3, <2>4, <2>5 DEF Idle
<1>2. ASSUME NEW scheme \in {<<>>, HTTP, HTTPS}, NEW port \in {<<>>} \cup {<<p>> : p \in Ports},
             NEW before \in Before, NEW after \in After
      PROVE  ParseServer(before \o scheme \o <<"host">> \o port \o after) = Means(scheme, port)
  <2>2. before \in Seq(Blanks)
    <3>1. CASE before = <<>>
      BY <3>1, EmptySeq
    <3>2. CASE before = <<"\n", "blank">>
      BY <3>2 DEF Blanks
    <3>3. QED BY <3>1, <3>2 DEF Before
  <2>3. PICK slashes \in Seq({"/"}), rest \in Trails : after = slashes \o rest
    <3>1. <<>> \in Trails /\ <<"blank">> \in Trails /\ <<"\n", "#", "other">> \in Trails
      <4>1. {"blank", "\n", "#", "other"} \subseteq Pieces
        BY DEF Pieces, Marks
      <4>2. <<>> \in Seq(Pieces) /\ <<>> \in Seq(Blanks)
        BY EmptySeq
      <4>3. <<"blank">> \in Seq(Pieces) /\ <<"blank">> \in Seq(Blanks)
        BY <4>1 DEF Blanks
      <4>4. <<"\n", "#", "other">> \in Seq(Pieces) /\ <<"\n", "#", "other">>[1] = "\n"
            /\ <<"\n", "#", "other">> # <<>>
        BY <4>1
      <4>5. QED BY <4>2, <4>3, <4>4 DEF Trails
    <3>2. <<>> \in Seq({"/"}) /\ <<"/">> \in Seq({"/"}) /\ <<"/", "/">> \in Seq({"/"})
      BY EmptySeq
    <3>3. CASE after = <<>>
      <4>1. <<>> \o <<>> = after
        BY <3>2, <3>3, ConcatEmptySeq
      <4>2. QED BY <3>1, <3>2, <4>1
    <3>4. CASE after = <<"/">>
      <4>1. <<"/">> \o <<>> = after
        BY <3>2, <3>4, ConcatEmptySeq
      <4>2. QED BY <3>1, <3>2, <4>1
    <3>5. CASE after = <<"/", "/", "blank">>
      <4>1. <<"/", "/">> \o <<"blank">> = after
        <5>1. <<"/", "/">> \o <<"blank">> = <<"/", "/", "blank">>
          BY ThreeAre
        <5>2. QED BY <3>5, <5>1
      <4>2. QED BY <3>1, <3>2, <4>1
    <3>6. CASE after = <<"/", "\n", "#", "other">>
      <4>1. <<"/">> \o <<"\n", "#", "other">> = after
        <5>1. <<"/">> \o <<"\n", "#", "other">> = <<"/", "\n", "#", "other">>
          BY FourAre
        <5>2. QED BY <3>6, <5>1
      <4>2. QED BY <3>1, <3>2, <4>1
    <3>7. QED BY <3>3, <3>4, <3>5, <3>6 DEF After
  <2>4. ParseServer(before \o scheme \o <<"host">> \o port \o (slashes \o rest)) = Means(scheme, port)
    BY <2>2, AddressesAreRead
  <2>5. QED BY <2>3, <2>4
<1>3. ASSUME NEW scheme \in {<<>>, HTTP, HTTPS}, NEW port \in {<<>>} \cup {<<p>> : p \in Ports},
             NEW before \in Before, NEW after \in After, NEW i \in Idle, NEW j \in Idle
      PROVE  LET text == before \o scheme \o <<"host">> \o port \o after
             IN  ResolveServer(<<i, j, text, <<"other">>>>) = Means(scheme, port)
  <2> DEFINE text == before \o scheme \o <<"host">> \o port \o after
  <2> DEFINE sources == <<i, j, text, <<"other">>>>
  <2>1. DOMAIN sources = 1 .. 4 /\ sources[1] = i /\ sources[2] = j /\ sources[3] = text
    OBVIOUS
  <2> HIDE DEF sources, text
  <2>2. \A m \in 1 .. 3 - 1 : ParseServer(sources[m]) = Unusable
    <3>1. \A m \in 1 .. 3 - 1 : m = 1 \/ m = 2
      OBVIOUS
    <3>2. QED BY <1>1, <2>1, <3>1
  <2>3. ParseServer(sources[3]) = Means(scheme, port)
    <3>1. ParseServer(text) = Means(scheme, port)
      BY <1>2 DEF text
    <3>2. QED BY <2>1, <3>1
  <2>4. ParseServer(sources[3]).dial # <<>>
    <3>1. Means(scheme, port).dial = <<"host", IF port # <<>> THEN port[1]
                                        ELSE IF scheme = HTTP THEN HTTPPort ELSE HTTPSPort>>
      BY DEF Means
    <3>2. \A q : <<"host", q>> # <<>>
      OBVIOUS
    <3>3. QED BY <2>3, <3>1, <3>2
  <2>5. 4 \in Nat /\ 3 \in 1 .. 4
    OBVIOUS
  <2>6. ResolveServer(sources) = ParseServer(sources[3])
    BY <2>1, <2>2, <2>4, <2>5, FirstUsableIs
  <2>7. QED BY <2>3, <2>6 DEF sources, text
<1>4. QED BY <1>3 DEF ServerUnderstood, ServerIsUnderstood
=============================================================================
