------------------------------ MODULE UrlProofs ------------------------------
(***************************************************************************)
(* Proofs about the class Url, for texts and bytes of any length: the      *)
(* assertions of _parse() hold, nothing of the locate is lost, every part  *)
(* of a text written from parts is found, and what encode() returns means  *)
(* its input.                                                              *)
(***************************************************************************)
EXTENDS Url, ListsProofs, SequenceTheorems, TLAPS

Members == Fields \cup {"scheme", "port"}

\* The object is well formed.
ObjectOK ==
  /\ op \in {"parse", "parsed", "encode", "decode", "decoded"}
  /\ str \in Seq(Tokens) /\ given \subseteq Parts /\ assigns \in 0..MaxAssigns
  /\ DOMAIN url = Members
  /\ url.scheme \in Schemes \cup {"unknown"} /\ url.port \in Nat
  /\ \A f \in Fields : url[f] \in Seq(Range(str) \cup {":", "/"})

\* The loop: it is within the text, and what is left for the query and the fragment starts
\* with the delimiter that ended the path.
LoopOK ==
  /\ st \in 0..6 /\ beginPos \in 0..(endPos + 2)
  /\ op = "parse" /\ beginPos < endPos =>
       /\ st < 6
       /\ st = 4 => str[beginPos + 1] \in {"?", "#"}
       /\ st = 5 => str[beginPos + 1] = "#"

\* What the loop has found of the locate, and what is left of it.
Left == Part(beginPos, endPos)

PathFound  == url.locate = url.path \o Left
QueryFound == \E q \in {<<>>, <<"?">>} : url.locate = url.path \o q \o url.query \o Left
AllFound   == \E q \in {<<>>, <<"?">>}, h \in {<<>>, <<"#">>} :
                url.locate = url.path \o q \o url.query \o h \o url.fragment

Located ==
  op = "parse" =>
    /\ \E k \in 0..endPos : url.locate = Part(k, endPos)
    /\ st >= 3 => beginPos <= endPos
    /\ st <= 2 => url.locate = <<>>
    /\ st <= 3 => url.path = <<>>
    /\ st <= 4 => url.query = <<>>
    /\ st <= 5 => url.fragment = <<>>
    /\ st = 3 => url.locate = Left
    /\ st = 4 => PathFound
    /\ st = 5 => QueryFound
    /\ st = 6 => beginPos = endPos /\ AllFound

ParserInv == ObjectOK /\ LoopOK /\ Located /\ LocateRejoins

\* The input and the output of encode() and decode().
CodecOK ==
  /\ text \in ByteTexts \cup {<<>>} /\ input \in Seq(0..255) /\ out \in Seq(0..255)
  /\ idx \in 0..Len(input)

\* A text that encode() may return: ASCII, and two bytes follow every '%'.
Encoding(s) == \A i \in DOMAIN s : s[i] < 128 /\ (s[i] = 37 => i + 2 <= Len(s))

Encoded ==
  /\ op = "encode" => input = text
  /\ op = "encode" /\ 37 \notin Range(text) => Encoding(out) /\ Meaning(out) = SubSeq(text, 1, idx)

CodecInv == CodecOK /\ Encoded /\ EncodeDecodable

-----------------------------------------------------------------------------
(* Sequences and numbers.                                                   *)

LEMMA OneToken ==
  ASSUME NEW S, NEW c \in S
  PROVE  <<c>> \in Seq(S) /\ Len(<<c>>) = 1 /\ <<c>>[1] = c
OBVIOUS

LEMMA MinOf ==
  ASSUME NEW S \in SUBSET Nat, S # {}
  PROVE  Min(S) \in S /\ \A k \in S : Min(S) <= k
<1>1. \E m \in S : \A k \in S : m <= k
  BY LeastMember
<1> QED BY <1>1 DEF Min

\* A part of the text.
LEMMA PartFacts ==
  ASSUME str \in Seq(Tokens), NEW a \in Nat, NEW b \in Nat, a <= b, b <= endPos
  PROVE  /\ Part(a, b) \in Seq(Tokens) /\ Part(a, b) \in Seq(Range(str))
         /\ Len(Part(a, b)) = b - a
         /\ \A i \in 1..(b - a) : Part(a, b)[i] = str[a + i]
<1>1. str \in Seq(Range(str)) /\ endPos \in Nat
  BY SeqOfRange DEF endPos
<1>2. \A i \in (a + 1)..b : str[i] \in Tokens /\ str[i] \in Range(str)
  <2> SUFFICES ASSUME NEW i \in (a + 1)..b PROVE str[i] \in Tokens /\ str[i] \in Range(str)
    OBVIOUS
  <2>1. i \in 1..Len(str)
    BY <1>1 DEF endPos
  <2> QED BY <1>1, <2>1, ElementOfSeq
<1>3. /\ Part(a, b) \in Seq(Tokens) /\ Part(a, b) \in Seq(Range(str))
      /\ Len(Part(a, b)) = IF a + 1 <= b THEN b - (a + 1) + 1 ELSE 0
      /\ \A i \in 1..(b - (a + 1) + 1) : Part(a, b)[i] = str[(a + 1) + i - 1]
  <2>1. a + 1 \in Int /\ b \in Int
    OBVIOUS
  <2> HIDE DEF Part
  <2> QED BY <1>2, <2>1, SubSeqProperties DEF Part
<1>4. b - (a + 1) + 1 = b - a /\ (~(a + 1 <= b) => b - a = 0)
  OBVIOUS
<1>5. \A i \in 1..(b - a) : (a + 1) + i - 1 = a + i
  OBVIOUS
<1> QED BY <1>3, <1>4, <1>5

\* Two parts that follow each other, and the token where a part starts.
LEMMA PartSplits ==
  ASSUME str \in Seq(Tokens), NEW a \in Nat, NEW b \in Nat, NEW c \in Nat, a <= b, b <= c, c <= endPos
  PROVE  Part(a, c) = Part(a, b) \o Part(b, c)
<1>1. a + 1 \in 1..(Len(str) + 1) /\ b \in (a + 1 - 1)..Len(str) /\ c \in b..Len(str)
  BY DEF endPos
<1> QED BY <1>1, ConcatAdjacentSubSeq DEF Part

LEMMA PartStarts ==
  ASSUME str \in Seq(Tokens), NEW a \in Nat, NEW c \in Nat, a < c, c <= endPos
  PROVE  Part(a, c) = <<str[a + 1]>> \o Part(a + 1, c)
<1>1. a + 1 \in 1..Len(str) /\ c \in (a + 1)..Len(str)
  BY DEF endPos
<1> QED BY <1>1, SubSeqRecursiveFirst DEF Part

LEMMA PartEmpty ==
  ASSUME NEW a \in Nat
  PROVE  Part(a, a) = <<>>
BY SubSeqEmpty DEF Part

\* Each end of the text is a suffix of it.
LEMMA EndIsSuffix ==
  ASSUME str \in Seq(Tokens), NEW k \in 0..endPos
  PROVE  IsSuffix(Part(k, endPos), str)
<1> DEFINE e == Part(k, endPos)
           n == Len(e)
<1>1. endPos \in Nat /\ endPos = Len(str) /\ k \in Nat /\ k <= endPos
  BY DEF endPos
<1>2. e \in Seq(Tokens) /\ n = endPos - k /\ n \in Nat /\ \A i \in 1..n : e[i] = str[k + i]
  <2>0. endPos <= endPos
    BY <1>1
  <2>1. e \in Seq(Tokens) /\ Len(e) = endPos - k /\ \A i \in 1..(endPos - k) : e[i] = str[k + i]
    BY ONLY str \in Seq(Tokens), <1>1, <2>0, PartFacts
  <2> HIDE DEF e
  <2> QED BY <1>1, <2>1
<1> HIDE DEF e, n
<1>3. /\ Reverse(e) \in Seq(Tokens) /\ Len(Reverse(e)) = n
      /\ \A i \in 1..n : Reverse(e)[i] = e[n - i + 1]
  <2>1. Reverse(e) = [i \in 1..n |-> e[(n - i) + 1]]
    BY DEF Reverse, n
  <2>2. \A i \in 1..n : e[(n - i) + 1] \in Tokens
    <3> SUFFICES ASSUME NEW i \in 1..n PROVE e[(n - i) + 1] \in Tokens
      OBVIOUS
    <3>1. (n - i) + 1 \in 1..Len(e)
      BY <1>2 DEF n
    <3> QED BY <1>2, <3>1, ElementOfSeq
  <2>3. [i \in 1..n |-> e[(n - i) + 1]] \in [1..n -> Tokens]
    BY <2>2
  <2>4. [i \in 1..n |-> e[(n - i) + 1]] \in Seq(Tokens)
    BY <1>2, <2>3, SeqDef, ZenonT(30)
  <2> QED BY <1>2, <2>1, <2>4
<1>4. /\ Len(Reverse(str)) = endPos
      /\ \A i \in 1..endPos : Reverse(str)[i] = str[endPos - i + 1]
  <2>1. Reverse(str) = [i \in 1..endPos |-> str[(endPos - i) + 1]]
    BY <1>1 DEF Reverse
  <2> QED BY <1>1, <2>1
<1>5. \A i \in 1..n : Reverse(e)[i] = Reverse(str)[i]
  <2> SUFFICES ASSUME NEW i \in 1..n PROVE Reverse(e)[i] = Reverse(str)[i]
    OBVIOUS
  <2>1. n - i + 1 \in 1..n /\ k + (n - i + 1) = endPos - i + 1 /\ i \in 1..endPos
    BY <1>1, <1>2
  <2> QED BY <1>2, <1>3, <1>4, <2>1
<1>6. SubSeq(Reverse(e), 1, n) = Reverse(e)
  BY <1>3, SubSeqFull
<1>7. SubSeq(Reverse(str), 1, n) = Reverse(e)
  <2>1. \A i \in 1..n : Reverse(str)[i] \in Tokens
    BY <1>3, <1>5, ElementOfSeq
  <2>2. /\ SubSeq(Reverse(str), 1, n) \in Seq(Tokens)
        /\ Len(SubSeq(Reverse(str), 1, n)) = n
        /\ \A i \in 1..n : SubSeq(Reverse(str), 1, n)[i] = Reverse(str)[i]
    <3>1. 1 \in Int /\ n \in Int /\ (IF 1 <= n THEN n - 1 + 1 ELSE 0) = n /\ n - 1 + 1 = n
          /\ \A i \in 1..n : 1 + i - 1 = i
      BY <1>2
    <3>2. /\ SubSeq(Reverse(str), 1, n) \in Seq(Tokens)
          /\ Len(SubSeq(Reverse(str), 1, n)) = IF 1 <= n THEN n - 1 + 1 ELSE 0
          /\ \A i \in 1..(n - 1 + 1) : SubSeq(Reverse(str), 1, n)[i] = Reverse(str)[1 + i - 1]
      BY <2>1, <3>1, SubSeqProperties
    <3> QED BY <3>1, <3>2
  <2> QED BY <1>3, <1>5, <2>2, SeqEqual
<1> QED BY <1>1, <1>2, <1>3, <1>4, <1>6, <1>7 DEF IsSuffix, IsPrefix, e, n

\* find() of one character: its place within the range, or the end of the range.
LEMMA FindOne ==
  ASSUME str \in Seq(Tokens), NEW frt \in Nat, NEW lst \in Nat, frt <= lst, lst <= endPos, NEW c \in Tokens
  PROVE  LET f == Find(str, frt, lst, <<c>>) IN
         /\ f \in Nat /\ frt <= f /\ f <= lst /\ (f # lst => f < lst /\ str[f + 1] = c)
         /\ \A i \in frt..(f - 1) : str[i + 1] # c
<1> DEFINE starts(i, j) == i + j <= Len(str) /\ SubSeq(str, i + 1, i + j) = SubSeq(<<c>>, 1, j)
           hits == {i \in frt..(lst - 1) : starts(i, 1)}
<1>1. Len(<<c>>) = 1 /\ 1..(1 - 1) = {}
  OBVIOUS
<1>2. Find(str, frt, lst, <<c>>) = IF hits = {} THEN lst ELSE Min(hits)
  BY <1>1 DEF Find
<1>3. ASSUME NEW i \in frt..(lst - 1) PROVE i \in hits <=> str[i + 1] = c
  <2>1. /\ i \in Nat /\ i + 1 \in 1..Len(str)
        /\ i \in hits <=> SubSeq(str, i + 1, i + 1) = SubSeq(<<c>>, 1, 1)
    BY DEF endPos
  <2>2. SubSeq(<<c>>, 1, 1) = <<c>>
    <3>1. <<c>> \in Seq(Tokens)
      BY OneToken
    <3> QED BY <1>1, <3>1, SubSeqFull
  <2>3. SubSeq(str, i + 1, i + 1) = <<str[i + 1]>>
    <3>1. SubSeq(str, i + 1, i + 1) = <<str[i + 1]>> \o SubSeq(str, i + 1 + 1, i + 1)
      BY <2>1, SubSeqRecursiveFirst
    <3>2. SubSeq(str, i + 1 + 1, i + 1) = <<>>
      BY <2>1, SubSeqEmpty
    <3>3. <<str[i + 1]>> \in Seq(Tokens)
      BY <2>1
    <3> QED BY <3>1, <3>2, <3>3, ConcatEmptySeq
  <2> HIDE DEF hits
  <2>4. <<str[i + 1]>> = <<c>> <=> str[i + 1] = c
    OBVIOUS
  <2> QED BY <2>1, <2>2, <2>3, <2>4
<1>4. hits \subseteq frt..(lst - 1)
  OBVIOUS
<1> HIDE DEF hits
<1>5. hits # {} => Min(hits) \in hits /\ \A k \in hits : Min(hits) <= k
  BY <1>4, MinOf
<1>6. CASE hits = {}
  BY <1>2, <1>3, <1>6
<1>7. CASE hits # {}
  <2> DEFINE m == Min(hits)
  <2>1. m \in hits /\ \A k \in hits : m <= k
    BY <1>5, <1>7
  <2>2. Find(str, frt, lst, <<c>>) = m
    BY <1>2, <1>7
  <2> HIDE DEF m
  <2>3. m \in frt..(lst - 1) /\ str[m + 1] = c
    BY <1>3, <1>4, <2>1
  <2>4. \A i \in frt..(m - 1) : i \in frt..(lst - 1) /\ i \notin hits
    BY <2>1, <2>3
  <2> QED BY <1>3, <2>2, <2>3, <2>4
<1> QED BY <1>6, <1>7

\* find() of "://" over the whole text.
LEMMA FindSep ==
  ASSUME str \in Seq(Tokens), endPos > 0
  PROVE  LET f == Find(str, 0, endPos, <<":", "/", "/">>) IN
         f \in Nat /\ (f # endPos => f + 3 <= endPos + 2)
<1> DEFINE sub == <<":", "/", "/">>
           starts(i, j) == i + j <= Len(str) /\ SubSeq(str, i + 1, i + j) = SubSeq(sub, 1, j)
           cut(i) == \E j \in 1..(Len(sub) - 1) : starts(i, j) /\ i + j >= endPos - 0
           hits == {i \in 0..(endPos - 1) : starts(i, Len(sub)) \/ cut(i)}
<1>1. Find(str, 0, endPos, sub) = IF hits = {} THEN endPos ELSE IF cut(Min(hits)) THEN 0 ELSE Min(hits)
  BY DEF Find
<1>2. endPos \in Nat /\ Len(sub) = 3
  BY DEF endPos
<1>3. ASSUME NEW i \in hits, ~cut(i) PROVE i \in Nat /\ i + 3 <= endPos
  BY <1>2, <1>3 DEF endPos
<1> HIDE DEF hits, cut
<1>4. hits \subseteq Nat
  BY DEF hits
<1>5. hits # {} => Min(hits) \in hits
  BY <1>4, MinOf
<1>6. CASE hits = {}
  BY <1>1, <1>2, <1>6
<1>7. CASE hits # {} /\ cut(Min(hits))
  BY <1>1, <1>2, <1>7
<1>8. CASE hits # {} /\ ~cut(Min(hits))
  BY <1>1, <1>2, <1>3, <1>5, <1>8
<1> QED BY <1>6, <1>7, <1>8

\* atoi() of a text.
LEMMA EightsAreNat ==
  ASSUME NEW n \in Nat
  PROVE  Eights(n)[n] \in Nat
<1> DEFINE More(v, i) == IF i = 0 THEN 0 ELSE 10 * v[i - 1] + 8
           Solved(m) == \E v : v = [i \in 0..m |-> More(v, i)]
           T == {m \in Nat : ~Solved(m)}
<1>1. Solved(n)
  <2> SUFFICES ASSUME T # {} PROVE FALSE
    OBVIOUS
  <2>1. PICK m \in T : \A k \in T : m <= k
    <3> HIDE DEF Solved
    <3> QED BY LeastMember
  <2>2. CASE m = 0
    <3> DEFINE e == [i \in 0..0 |-> 0]
    <3>1. e = [i \in 0..m |-> More(e, i)]
      BY <2>2
    <3> QED BY <2>1, <3>1
  <2>3. CASE m # 0
    <3>1. m - 1 \in Nat /\ ~(m <= m - 1)
      BY <2>1, <2>3
    <3>2. Solved(m - 1)
      <4> HIDE DEF Solved
      <4> QED BY <2>1, <3>1
    <3>3. PICK g : g = [i \in 0..(m - 1) |-> More(g, i)]
      BY <3>2
    <3> DEFINE e == [i \in 0..m |-> IF i < m THEN g[i] ELSE More(g, m)]
    <3>4. ASSUME NEW i \in 0..m PROVE e[i] = More(e, i)
      <4>1. CASE i = 0
        BY <2>3, <3>1, <3>3, <4>1
      <4>2. CASE i # 0
        <5>1. i - 1 \in 0..m /\ i - 1 < m /\ e[i - 1] = g[i - 1]
          BY <3>1, <4>2
        <5>2. i < m => g[i] = More(g, i)
          BY <3>1, <3>3
        <5>3. ~(i < m) => i = m
          BY <3>1
        <5> QED BY <4>2, <5>1, <5>2, <5>3
      <4> QED BY <4>1, <4>2
    <3>5. e = [i \in 0..m |-> More(e, i)]
      <4>1. e = [i \in 0..m |-> e[i]]
        OBVIOUS
      <4> HIDE DEF e, More
      <4> QED BY <3>4, <4>1
    <3> HIDE DEF e, More
    <3>6. Solved(m)
      BY <3>5
    <3> HIDE DEF Solved
    <3> QED BY <2>1, <3>6
  <2> QED BY <2>2, <2>3
<1> DEFINE v == Eights(n)
<1>2. v = [i \in 0..n |-> IF i = 0 THEN 0 ELSE 10 * v[i - 1] + 8]
  BY <1>1 DEF Eights
<1> HIDE DEF v
<1> DEFINE F == {m \in 0..n : v[m] \notin Nat}
<1>3. F = {}
  <2> SUFFICES ASSUME F # {} PROVE FALSE
    OBVIOUS
  <2>1. PICK m \in F : \A k \in F : m <= k
    <3>1. F \subseteq Nat
      OBVIOUS
    <3> QED BY <3>1, LeastMember
  <2>2. m # 0
    BY <1>2
  <2>3. m \in 0..n /\ m - 1 \in 0..n /\ m - 1 \notin F
    BY <2>1, <2>2
  <2>4. v[m] = 10 * v[m - 1] + 8
    BY <1>2, <2>2, <2>3
  <2>5. v[m - 1] \in Nat
    BY <2>3
  <2> QED BY <2>1, <2>4, <2>5
<1> QED BY <1>3 DEF v

LEMMA AtoiIsNat ==
  ASSUME NEW s \in Seq(Tokens)
  PROVE  Atoi(s) \in Nat
<1> DEFINE D == {n \in 0..Len(s) : \A i \in 1..n : s[i] = "8"}
           C == {n \in Nat : \E d \in D : n = Len(s) - d}
<1>1. Len(s) \in Nat /\ 0 \in D
  OBVIOUS
<1>2. PICK c \in C : \A k \in C : c <= k
  <2>1. Len(s) \in C
    BY <1>1
  <2> HIDE DEF D
  <2>2. C \subseteq Nat
    OBVIOUS
  <2> QED BY <2>1, <2>2, LeastMember
<1>3. PICK d \in D : c = Len(s) - d
  BY <1>2
<1>4. \A e \in D : d >= e
  <2> SUFFICES ASSUME NEW e \in D PROVE d >= e
    OBVIOUS
  <2>1. Len(s) - e \in C
    BY <1>1
  <2>2. c <= Len(s) - e
    BY <1>2, <2>1
  <2> QED BY <1>1, <1>3, <2>2
<1>5. Max(D) \in D
  <2> HIDE DEF D
  <2> QED BY <1>4 DEF Max
<1>6. Max(D) \in Nat
  BY <1>1, <1>5
<1> QED BY <1>6, EightsAreNat DEF Atoi

-----------------------------------------------------------------------------
(* The loop of _parse().                                                    *)

\* The delimiters are tokens, and a text over the tokens of the URL is a text.
LEMMA Delimiters ==
  ":" \in Tokens /\ "/" \in Tokens /\ "@" \in Tokens /\ "?" \in Tokens /\ "#" \in Tokens
BY UrlAssumption

LEMMA FieldTokens ==
  ASSUME ObjectOK, NEW f \in Fields
  PROVE  url[f] \in Seq(Tokens)
<1>1. Range(str) \cup {":", "/"} \subseteq Tokens
  <2>1. str \in Seq(Tokens)
    BY DEF ObjectOK
  <2> QED BY <2>1, RangeOfSeq, Delimiters
<1>2. url[f] \in Seq(Range(str) \cup {":", "/"})
  BY DEF ObjectOK
<1> QED BY <1>1, <1>2, SeqMonotonic

\* A turn that changes the members so keeps the object.
LEMMA ObjectKept ==
  ASSUME ObjectOK, UNCHANGED <<op, given, str, assigns>>, DOMAIN url' = Members,
         url'.scheme \in Schemes \cup {"unknown"}, url'.port \in Nat,
         \A f \in Fields : url'[f] = url[f] \/ url'[f] \in Seq(Range(str) \cup {":", "/"})
  PROVE  ObjectOK'
BY DEF ObjectOK

\* A part of the text is a value for a member.
LEMMA PartForMember ==
  ASSUME str \in Seq(Tokens), NEW a \in Nat, NEW b \in Nat, a <= b, b <= endPos
  PROVE  Part(a, b) \in Seq(Range(str) \cup {":", "/"})
<1>1. Part(a, b) \in Seq(Range(str))
  BY PartFacts
<1> QED BY <1>1, SeqMonotonic

\* What every turn has, and what it leaves alone.
LEMMA TurnFacts ==
  ASSUME ParserInv, NEW k \in 0..5, Turn(k), NEW pos, NextTurn(pos)
  PROVE  /\ str \in Seq(Tokens) /\ endPos \in Nat /\ beginPos \in Nat /\ beginPos < endPos
         /\ op = "parse" /\ op' = "parse" /\ st = k /\ st' = k + 1 /\ beginPos' = pos
         /\ UNCHANGED <<op, given, str, assigns, endPos, codec>>
BY DEF ParserInv, ObjectOK, LoopOK, Turn, NextTurn, endPos

LEMMA SchemeStep ==
  ASSUME ParserInv, Scheme
  PROVE  ParserInv'
<1> USE DEF ParserInv
<1> DEFINE sep   == Find(str, 0, endPos, <<":", "/", "/">>)
           colon == Find(str, 0, endPos, <<":">>)
<1>1. /\ Turn(0)
      /\ \E x \in {mapProtocolType(Part(0, sep)), "mailto", DftScheme} : \E pos :
           /\ url' = [url EXCEPT !.scheme = x] /\ NextTurn(pos)
           /\ \/ sep # endPos /\ pos = sep + 3
              \/ colon # endPos /\ pos = colon + 1
              \/ pos = 0
  BY DEF Scheme
<1>2. PICK x \in {mapProtocolType(Part(0, sep)), "mailto", DftScheme} : \E pos :
        /\ url' = [url EXCEPT !.scheme = x] /\ NextTurn(pos)
        /\ \/ sep # endPos /\ pos = sep + 3
           \/ colon # endPos /\ pos = colon + 1
           \/ pos = 0
  BY <1>1
<1>3. PICK pos :
        /\ url' = [url EXCEPT !.scheme = x] /\ NextTurn(pos)
        /\ \/ sep # endPos /\ pos = sep + 3
           \/ colon # endPos /\ pos = colon + 1
           \/ pos = 0
  BY <1>2
<1>4. /\ str \in Seq(Tokens) /\ endPos \in Nat /\ beginPos \in Nat /\ beginPos < endPos
      /\ op = "parse" /\ op' = "parse" /\ st = 0 /\ st' = 0 + 1 /\ beginPos' = pos
      /\ UNCHANGED <<op, given, str, assigns, endPos>>
  BY <1>1, <1>3, TurnFacts
<1>5. pos \in 0..(endPos + 2)
  <2>1. sep \in Nat /\ (sep # endPos => sep + 3 <= endPos + 2)
    BY <1>4, FindSep
  <2>2. colon \in Nat /\ colon <= endPos
    <3>1. 0 \in Nat /\ 0 <= endPos /\ endPos <= endPos
      BY <1>4
    <3> QED BY <1>4, <3>1, FindOne, Delimiters
  <2> HIDE DEF sep, colon
  <2> QED BY <1>3, <1>4, <2>1, <2>2
<1>6. x \in Schemes \cup {"unknown"}
  BY UrlAssumption DEF mapProtocolType, Schemes
<1>7. /\ DOMAIN url' = Members /\ url'.scheme = x /\ url'.port = url.port
      /\ \A f \in Fields : url'[f] = url[f]
  BY <1>3 DEF ObjectOK, Members, Fields
<1>8. ObjectOK'
  BY <1>4, <1>6, <1>7, ObjectKept DEF ObjectOK
<1>9. LoopOK'
  BY <1>4, <1>5 DEF LoopOK
<1>10. Located'
  <2>1. url'.locate = <<>> /\ url'.path = <<>> /\ url'.query = <<>> /\ url'.fragment = <<>>
    BY <1>4, <1>7 DEF Located, Fields
  <2>2. \E k \in 0..endPos' : url'.locate = Part(k, endPos)'
    BY <1>4, <2>1, PartEmpty DEF Part
  <2> QED BY <1>4, <2>1, <2>2 DEF Located
<1>11. LocateRejoins'
  BY <1>4 DEF LocateRejoins
<1> QED BY <1>8, <1>9, <1>10, <1>11

LEMMA AuthorityStep ==
  ASSUME ParserInv, Authority
  PROVE  ParserInv'
<1> USE DEF ParserInv
<1> DEFINE end  == Find(str, beginPos, endPos, <<"/">>)
           at   == Find(str, beginPos, end, <<"@">>)
           user == at # end
           frt  == IF user THEN at + 1 ELSE beginPos
           sep  == Colon(beginPos, at)
           col  == Colon(frt, end)
           host == Part(frt, col)
           port == After(col, end)
           Texty == Seq(Range(str) \cup {":", "/"})
<1>1. /\ Turn(1) /\ NextTurn(end)
      /\ url' = [url EXCEPT
           !.username = IF user THEN Part(beginPos, sep) ELSE @,
           !.password = IF user /\ sep # at THEN After(sep, at) ELSE @,
           !.hostname = host,
           !.address  = IF col # end THEN host \o <<":">> \o port ELSE host,
           !.port     = IF col # end THEN Atoi(port) ELSE getDefaultPort(url.scheme)]
  BY DEF Authority
<1>2. /\ str \in Seq(Tokens) /\ endPos \in Nat /\ beginPos \in Nat /\ beginPos < endPos
      /\ op = "parse" /\ op' = "parse" /\ st = 1 /\ st' = 1 + 1 /\ beginPos' = end
      /\ UNCHANGED <<op, given, str, assigns, endPos>>
  BY <1>1, TurnFacts
<1>3. /\ end \in Nat /\ beginPos <= end /\ end <= endPos
      /\ at \in Nat /\ beginPos <= at /\ at <= end /\ (at # end => at < end)
      /\ sep \in Nat /\ beginPos <= sep /\ sep <= at /\ (sep # at => sep < at)
      /\ frt \in Nat /\ frt <= end
      /\ col \in Nat /\ frt <= col /\ col <= end /\ (col # end => col < end)
  <2>1. end \in Nat /\ beginPos <= end /\ end <= endPos
    <3>1. beginPos <= endPos /\ endPos <= endPos
      BY <1>2
    <3> QED BY <1>2, <3>1, FindOne, Delimiters
  <2> HIDE DEF end
  <2>2. at \in Nat /\ beginPos <= at /\ at <= end /\ (at # end => at < end)
    BY <1>2, <2>1, FindOne, Delimiters
  <2> HIDE DEF at
  <2>3. sep \in Nat /\ beginPos <= sep /\ sep <= at /\ (sep # at => sep < at)
    <3>1. at <= endPos
      BY <1>2, <2>1, <2>2
    <3> QED BY <1>2, <2>2, <3>1, FindOne, Delimiters DEF Colon
  <2>4. frt \in Nat /\ frt <= end
    BY <1>2, <2>1, <2>2
  <2> HIDE DEF frt
  <2>5. col \in Nat /\ frt <= col /\ col <= end /\ (col # end => col < end)
    BY <1>2, <2>1, <2>4, FindOne, Delimiters DEF Colon
  <2> QED BY <2>1, <2>2, <2>3, <2>4, <2>5
<1> HIDE DEF end, at, frt, sep, col
<1>4. host \in Texty /\ Part(beginPos, sep) \in Texty
  <2>1. col <= endPos /\ sep <= endPos
    BY <1>2, <1>3
  <2> QED BY <1>2, <1>3, <2>1, PartForMember
<1>5. port \in Texty /\ port \in Seq(Tokens)
  <2>1. CASE col = end
    <3>1. port = <<>>
      BY <2>1 DEF After
    <3> QED BY <3>1, EmptySeq
  <2>2. CASE col # end
    <3>1. col + 1 \in Nat /\ col + 1 <= end /\ end <= endPos
      BY <1>3, <2>2
    <3>2. port = Part(col + 1, end)
      BY <2>2 DEF After
    <3>3. Part(col + 1, end) \in Texty
      BY <1>2, <1>3, <3>1, PartForMember
    <3>4. Part(col + 1, end) \in Seq(Tokens)
      BY <1>2, <1>3, <3>1, PartFacts
    <3> QED BY <3>2, <3>3, <3>4
  <2> QED BY <2>1, <2>2
<1>6. After(sep, at) \in Texty
  <2>1. CASE sep = at
    <3>1. After(sep, at) = <<>>
      BY <2>1 DEF After
    <3> QED BY <3>1, EmptySeq
  <2>2. CASE sep # at
    <3>1. sep + 1 \in Nat /\ sep + 1 <= at /\ at <= endPos
      BY <1>2, <1>3, <2>2
    <3>2. After(sep, at) = Part(sep + 1, at)
      BY <2>2 DEF After
    <3>3. Part(sep + 1, at) \in Texty
      BY <1>2, <1>3, <3>1, PartForMember
    <3> QED BY <3>2, <3>3
  <2> QED BY <2>1, <2>2
<1> HIDE DEF host, port
<1>7. host \o <<":">> \o port \in Texty
  <2>1. <<":">> \in Texty
    BY OneToken
  <2>2. host \o <<":">> \in Texty
    BY <1>4, <2>1, ConcatProperties
  <2> QED BY <1>5, <2>2, ConcatProperties
<1>8. /\ Atoi(port) \in Nat /\ getDefaultPort(url.scheme) \in Nat
  BY <1>5, AtoiIsNat DEF getDefaultPort
<1>9. /\ DOMAIN url' = Members /\ url'.scheme = url.scheme
      /\ url'.port \in {Atoi(port), getDefaultPort(url.scheme)}
      /\ url'.username \in {url.username, Part(beginPos, sep)}
      /\ url'.password \in {url.password, After(sep, at)}
      /\ url'.hostname = host /\ url'.address \in {host \o <<":">> \o port, host}
      /\ \A f \in {"locate", "path", "query", "fragment"} : url'[f] = url[f]
  BY <1>1 DEF ObjectOK, Members, Fields
<1>10. ObjectOK'
  <2>1. \A f \in Fields : url'[f] = url[f] \/ url'[f] \in Texty
    BY <1>4, <1>6, <1>7, <1>9 DEF Fields
  <2>2. url'.scheme \in Schemes \cup {"unknown"} /\ url'.port \in Nat
    BY <1>8, <1>9 DEF ObjectOK
  <2> QED BY <1>2, <1>9, <2>1, <2>2, ObjectKept
<1>11. LoopOK'
  <2>1. end \in 0..(endPos + 2)
    BY <1>2, <1>3
  <2> QED BY <1>2, <2>1 DEF LoopOK
<1>12. Located'
  <2>1. url'.locate = <<>> /\ url'.path = <<>> /\ url'.query = <<>> /\ url'.fragment = <<>>
    BY <1>2, <1>9 DEF Located
  <2>2. \E k \in 0..endPos' : url'.locate = Part(k, endPos)'
    BY <1>2, <2>1, PartEmpty DEF Part
  <2> QED BY <1>2, <2>1, <2>2 DEF Located
<1>13. LocateRejoins'
  BY <1>2 DEF LocateRejoins
<1> QED BY <1>10, <1>11, <1>12, <1>13

\* What a turn leaves of the text.
LEMMA TextKept ==
  ASSUME UNCHANGED str
  PROVE  endPos' = endPos /\ \A a, b : Part(a, b)' = Part(a, b)
BY DEF endPos, Part

\* The members of a turn that sets one field.
LEMMA OneField ==
  ASSUME ObjectOK, NEW f \in Fields, NEW s, url' = [url EXCEPT ![f] = s]
  PROVE  /\ DOMAIN url' = Members /\ url'.scheme = url.scheme /\ url'.port = url.port
         /\ url'[f] = s /\ \A g \in Fields \ {f} : url'[g] = url[g]
BY DEF ObjectOK, Members, Fields

\* Such a turn keeps the object when the field gets a part of the text.
LEMMA FieldStep ==
  ASSUME ObjectOK, UNCHANGED <<op, given, str, assigns>>, NEW f \in Fields,
         NEW a \in Nat, NEW b \in Nat, a <= b, b <= endPos, url' = [url EXCEPT ![f] = Part(a, b)]
  PROVE  ObjectOK'
<1>1. str \in Seq(Tokens) /\ url.scheme \in Schemes \cup {"unknown"} /\ url.port \in Nat
  BY DEF ObjectOK
<1>2. Part(a, b) \in Seq(Range(str) \cup {":", "/"})
  BY <1>1, PartForMember
<1> HIDE DEF Part
<1>3. /\ DOMAIN url' = Members /\ url'.scheme = url.scheme /\ url'.port = url.port
      /\ url'[f] = Part(a, b) /\ \A g \in Fields \ {f} : url'[g] = url[g]
  BY OneField
<1>4. \A g \in Fields : url'[g] = url[g] \/ url'[g] \in Seq(Range(str) \cup {":", "/"})
  BY <1>2, <1>3
<1> QED BY <1>1, <1>3, <1>4, ObjectKept

LEMMA LocateStep ==
  ASSUME ParserInv, Locate
  PROVE  ParserInv'
<1> USE DEF ParserInv
<1>1. Turn(2) /\ NextTurn(beginPos) /\ url' = [url EXCEPT !["locate"] = Part(beginPos, endPos)]
  BY DEF Locate
<1>2. /\ str \in Seq(Tokens) /\ endPos \in Nat /\ beginPos \in Nat /\ beginPos < endPos
      /\ op = "parse" /\ op' = "parse" /\ st = 2 /\ st' = 2 + 1 /\ beginPos' = beginPos
      /\ UNCHANGED <<op, given, str, assigns, endPos>>
  BY <1>1, TurnFacts
<1>3. "locate" \in Fields /\ beginPos <= endPos /\ endPos <= endPos /\ beginPos \in 0..endPos
  BY <1>2 DEF Fields
<1>4. ObjectOK'
  BY <1>1, <1>2, <1>3, FieldStep
<1>5. LoopOK'
  BY <1>2 DEF LoopOK
<1>6. Located'
  <2>1. /\ url'.locate = Part(beginPos, endPos)
        /\ url'.path = <<>> /\ url'.query = <<>> /\ url'.fragment = <<>>
    <3>1. url'.locate = Part(beginPos, endPos) /\ \A g \in Fields \ {"locate"} : url'[g] = url[g]
      BY <1>1, <1>3, OneField
    <3>2. url.path = <<>> /\ url.query = <<>> /\ url.fragment = <<>>
      BY <1>2 DEF Located
    <3> QED BY <3>1, <3>2 DEF Fields
  <2>2. \A a, b : Part(a, b)' = Part(a, b)
    BY <1>2, TextKept
  <2> QED BY <1>2, <1>3, <2>1, <2>2 DEF Located, Left
<1>7. LocateRejoins'
  BY <1>2 DEF LocateRejoins
<1> QED BY <1>4, <1>5, <1>6, <1>7

LEMMA PathStep ==
  ASSUME ParserInv, Path
  PROVE  ParserInv'
<1> USE DEF ParserInv
<1> DEFINE e == PathEnd
<1>1. Turn(3) /\ NextTurn(e) /\ url' = [url EXCEPT !["path"] = Part(beginPos, e)]
  BY DEF Path
<1>2. /\ str \in Seq(Tokens) /\ endPos \in Nat /\ beginPos \in Nat /\ beginPos < endPos
      /\ op = "parse" /\ op' = "parse" /\ st = 3 /\ st' = 3 + 1 /\ beginPos' = e
      /\ UNCHANGED <<op, given, str, assigns, endPos>>
  BY <1>1, TurnFacts
<1>3. /\ e \in Nat /\ beginPos <= e /\ e <= endPos
      /\ e # endPos => e < endPos /\ str[e + 1] \in {"?", "#"}
  <2> DEFINE question == Find(str, beginPos, endPos, <<"?">>)
             hash     == Find(str, beginPos, endPos, <<"#">>)
  <2>1. beginPos <= endPos /\ endPos <= endPos
    BY <1>2
  <2>2. /\ question \in Nat /\ beginPos <= question /\ question <= endPos
        /\ question # endPos => question < endPos /\ str[question + 1] = "?"
    BY <1>2, <2>1, FindOne, Delimiters
  <2>3. /\ hash \in Nat /\ beginPos <= hash /\ hash <= endPos
        /\ hash # endPos => hash < endPos /\ str[hash + 1] = "#"
    BY <1>2, <2>1, FindOne, Delimiters
  <2>4. e = IF question = endPos THEN hash ELSE question
    BY DEF PathEnd
  <2> HIDE DEF e, question, hash
  <2> QED BY <2>2, <2>3, <2>4
<1> HIDE DEF e
<1>4. ObjectOK'
  <2>1. "path" \in Fields
    BY DEF Fields
  <2> QED BY <1>1, <1>2, <1>3, <2>1, FieldStep
<1>5. LoopOK'
  BY <1>2, <1>3 DEF LoopOK
<1>6. Located'
  <2>1. /\ url'.path = Part(beginPos, e) /\ url'.locate = url.locate
        /\ url'.query = <<>> /\ url'.fragment = <<>>
    <3>1. "path" \in Fields
      BY DEF Fields
    <3>2. url'.path = Part(beginPos, e) /\ \A g \in Fields \ {"path"} : url'[g] = url[g]
      BY <1>1, <3>1, OneField
    <3>3. url.query = <<>> /\ url.fragment = <<>>
      BY <1>2 DEF Located
    <3> QED BY <3>2, <3>3 DEF Fields
  <2>2. \A a, b : Part(a, b)' = Part(a, b)
    BY <1>2, TextKept
  <2>3. url.locate = Part(beginPos, endPos) /\ \E k \in 0..endPos : url.locate = Part(k, endPos)
    BY <1>2 DEF Located, Left
  <2>4. Part(beginPos, endPos) = Part(beginPos, e) \o Part(e, endPos)
    <3>1. endPos <= endPos
      BY <1>2
    <3> QED BY <1>2, <1>3, <3>1, PartSplits
  <2>5. PathFound'
    BY <1>2, <2>1, <2>2, <2>3, <2>4 DEF PathFound, Left
  <2> QED BY <1>2, <1>3, <2>1, <2>2, <2>3, <2>5 DEF Located
<1>7. LocateRejoins'
  BY <1>2 DEF LocateRejoins
<1> QED BY <1>4, <1>5, <1>6, <1>7

\* A text put together of three.
LEMMA Rejoin ==
  ASSUME NEW a \in Seq(Tokens), NEW b \in Seq(Tokens), NEW c \in Seq(Tokens)
  PROVE  a \o (b \o c) = (a \o b) \o c
BY ConcatAssociative, SMTT(30)

LEMMA QueryStep ==
  ASSUME ParserInv, Query
  PROVE  ParserInv'
<1> USE DEF ParserInv
<1> DEFINE e == Find(str, beginPos + 1, endPos, <<"#">>)
           pos == IF str[beginPos + 1] = "?" THEN e ELSE beginPos
<1>1. /\ Turn(4) /\ NextTurn(pos)
      /\ IF str[beginPos + 1] = "?" THEN url' = [url EXCEPT !["query"] = Part(beginPos + 1, e)]
         ELSE UNCHANGED url
  BY DEF Query
<1>2. /\ str \in Seq(Tokens) /\ endPos \in Nat /\ beginPos \in Nat /\ beginPos < endPos
      /\ op = "parse" /\ op' = "parse" /\ st = 4 /\ st' = 4 + 1 /\ beginPos' = pos
      /\ UNCHANGED <<op, given, str, assigns, endPos>>
  BY <1>1, TurnFacts
<1>3. /\ e \in Nat /\ beginPos + 1 \in Nat /\ beginPos + 1 <= e /\ e <= endPos
      /\ e # endPos => e < endPos /\ str[e + 1] = "#"
  <2>1. beginPos + 1 \in Nat /\ beginPos + 1 <= endPos /\ endPos <= endPos
    BY <1>2
  <2> QED BY <1>2, <2>1, FindOne, Delimiters
<1> HIDE DEF e
<1>4. str[beginPos + 1] \in {"?", "#"}
  BY <1>2 DEF LoopOK
<1>5. \A a, b : Part(a, b)' = Part(a, b)
  BY <1>2, TextKept
<1>6. url.locate = url.path \o Part(beginPos, endPos)
  BY <1>2 DEF Located, PathFound, Left
<1>7. url.query = <<>> /\ url.fragment = <<>> /\ \E k \in 0..endPos : url.locate = Part(k, endPos)
  BY <1>2 DEF Located
<1>8. "query" \in Fields /\ "path" \in Fields /\ url.path \in Seq(Tokens)
  <2>1. "query" \in Fields /\ "path" \in Fields
    BY DEF Fields
  <2> QED BY <2>1, FieldTokens
<1>9. LocateRejoins'
  BY <1>2 DEF LocateRejoins
<1>10. CASE str[beginPos + 1] = "?"
  <2>1. pos = e /\ url' = [url EXCEPT !["query"] = Part(beginPos + 1, e)]
    BY <1>1, <1>10
  <2>2. ObjectOK'
    BY <1>2, <1>3, <1>8, <2>1, FieldStep
  <2>3. LoopOK'
    BY <1>2, <1>3, <2>1 DEF LoopOK
  <2>4. /\ url'.query = Part(beginPos + 1, e) /\ url'.locate = url.locate /\ url'.path = url.path
        /\ url'.fragment = <<>>
    <3>1. url'.query = Part(beginPos + 1, e) /\ \A g \in Fields \ {"query"} : url'[g] = url[g]
      BY <1>8, <2>1, OneField
    <3> QED BY <1>7, <3>1 DEF Fields
  <2>5. url.locate = url.path \o <<"?">> \o Part(beginPos + 1, e) \o Part(e, endPos)
    <3>1. endPos <= endPos /\ beginPos + 1 <= endPos
      BY <1>2
    <3>2. Part(beginPos, endPos) = <<"?">> \o Part(beginPos + 1, endPos)
      BY <1>2, <1>10, <3>1, PartStarts
    <3>3. Part(beginPos + 1, endPos) = Part(beginPos + 1, e) \o Part(e, endPos)
      BY <1>2, <1>3, <3>1, PartSplits
    <3>4. <<"?">> \in Seq(Tokens)
      BY OneToken, Delimiters
    <3>5. Part(beginPos + 1, e) \in Seq(Tokens) /\ Part(e, endPos) \in Seq(Tokens)
      BY <1>2, <1>3, <3>1, PartFacts
    <3>6. url.path \o (<<"?">> \o (Part(beginPos + 1, e) \o Part(e, endPos)))
            = url.path \o <<"?">> \o Part(beginPos + 1, e) \o Part(e, endPos)
      <4> DEFINE p == url.path
                 m == <<"?">>
                 c == Part(beginPos + 1, e)
                 d == Part(e, endPos)
                 cd == c \o d
                 pm == p \o m
      <4>1. p \in Seq(Tokens) /\ m \in Seq(Tokens) /\ c \in Seq(Tokens) /\ d \in Seq(Tokens)
        BY <1>8, <3>4, <3>5
      <4> HIDE DEF p, m, c, d
      <4>2. cd \in Seq(Tokens) /\ pm \in Seq(Tokens)
        BY <4>1, ConcatProperties
      <4> HIDE DEF cd, pm
      <4>3. p \o (m \o cd) = (p \o m) \o cd
        <5>1. p \in Seq(Tokens)
          BY <4>1
        <5>2. m \in Seq(Tokens)
          BY <4>1
        <5>3. cd \in Seq(Tokens)
          BY <4>2
        <5> QED BY ONLY <5>1, <5>2, <5>3, Rejoin
      <4>4. pm \o (c \o d) = (pm \o c) \o d
        <5>1. pm \in Seq(Tokens)
          BY <4>2
        <5>2. c \in Seq(Tokens)
          BY <4>1
        <5>3. d \in Seq(Tokens)
          BY <4>1
        <5> QED BY ONLY <5>1, <5>2, <5>3, Rejoin
      <4> QED BY <4>3, <4>4, Zenon DEF cd, pm, p, m, c, d
    <3> QED BY ONLY <1>6, <3>2, <3>3, <3>6, Zenon
  <2>6. QueryFound'
    <3>1. Left' = Part(e, endPos)
      BY <1>2, <1>5, <2>1 DEF Left
    <3> QED BY <2>4, <2>5, <3>1, Zenon DEF QueryFound
  <2>7. Located'
    <3>1. beginPos' <= endPos' /\ url'.locate = url.locate /\ url'.fragment = <<>>
      BY <1>2, <1>3, <2>1, <2>4
    <3> QED BY <1>2, <1>5, <1>7, <2>6, <3>1 DEF Located
  <2> QED BY <1>9, <2>2, <2>3, <2>7
<1>11. CASE str[beginPos + 1] # "?"
  <2>1. pos = beginPos /\ UNCHANGED url /\ str[beginPos + 1] = "#"
    BY <1>1, <1>4, <1>11
  <2>2. ObjectOK'
    BY <1>2, <2>1 DEF ObjectOK
  <2>3. LoopOK'
    BY <1>2, <2>1 DEF LoopOK
  <2>4. url.locate = url.path \o <<>> \o url.query \o Part(beginPos, endPos)
    <3>1. url.path \o <<>> \o <<>> = url.path
      BY <1>8, ConcatEmptySeq
    <3> QED BY <1>6, <1>7, <3>1, Zenon
  <2>5. QueryFound'
    <3>1. Left' = Part(beginPos, endPos)
      BY <1>2, <1>5, <2>1 DEF Left
    <3> QED BY <2>1, <2>4, <3>1, Zenon DEF QueryFound
  <2>6. Located'
    BY <1>2, <1>5, <1>7, <2>1, <2>5 DEF Located
  <2> QED BY <1>9, <2>2, <2>3, <2>6
<1> QED BY <1>10, <1>11

LEMMA FragmentStep ==
  ASSUME ParserInv, Fragment
  PROVE  ParserInv'
<1> USE DEF ParserInv
<1>1. Turn(5) /\ NextTurn(endPos) /\ url' = [url EXCEPT !["fragment"] = Part(beginPos + 1, endPos)]
  BY DEF Fragment
<1>2. /\ str \in Seq(Tokens) /\ endPos \in Nat /\ beginPos \in Nat /\ beginPos < endPos
      /\ op = "parse" /\ op' = "parse" /\ st = 5 /\ st' = 5 + 1 /\ beginPos' = endPos
      /\ UNCHANGED <<op, given, str, assigns, endPos>>
  BY <1>1, TurnFacts
<1>3. beginPos + 1 \in Nat /\ beginPos + 1 <= endPos /\ endPos <= endPos /\ beginPos <= endPos
  BY <1>2
<1>4. "fragment" \in Fields
  BY DEF Fields
<1>5. ObjectOK'
  BY <1>1, <1>2, <1>3, <1>4, FieldStep
<1>6. LoopOK'
  BY <1>2 DEF LoopOK
<1>7. Located'
  <2>1. /\ url'.fragment = Part(beginPos + 1, endPos) /\ url'.locate = url.locate
        /\ url'.path = url.path /\ url'.query = url.query
    <3>1. /\ url'.fragment = Part(beginPos + 1, endPos)
          /\ \A g \in Fields \ {"fragment"} : url'[g] = url[g]
      BY <1>1, <1>4, OneField
    <3> QED BY <3>1 DEF Fields
  <2>2. \A a, b : Part(a, b)' = Part(a, b)
    BY <1>2, TextKept
  <2>3. \E k \in 0..endPos : url.locate = Part(k, endPos)
    BY <1>2 DEF Located
  <2>4. PICK q \in {<<>>, <<"?">>} : url.locate = url.path \o q \o url.query \o Part(beginPos, endPos)
    BY <1>2 DEF Located, QueryFound, Left
  <2>5. Part(beginPos, endPos) = <<"#">> \o Part(beginPos + 1, endPos)
    <3>1. str[beginPos + 1] = "#"
      BY <1>2 DEF LoopOK
    <3> QED BY <1>2, <1>3, <3>1, PartStarts
  <2>6. url.locate = url.path \o q \o url.query \o <<"#">> \o Part(beginPos + 1, endPos)
    <3>1. "path" \in Fields /\ "query" \in Fields
      BY DEF Fields
    <3>2. url.path \in Seq(Tokens) /\ url.query \in Seq(Tokens)
      BY <3>1, FieldTokens
    <3>3. q \in Seq(Tokens) /\ <<"#">> \in Seq(Tokens)
      BY OneToken, Delimiters, EmptySeq
    <3>4. Part(beginPos + 1, endPos) \in Seq(Tokens)
      BY <1>2, <1>3, PartFacts
    <3>5. url.path \o q \o url.query \in Seq(Tokens)
      BY <3>2, <3>3, ConcatProperties
    <3>6. url.path \o q \o url.query \o (<<"#">> \o Part(beginPos + 1, endPos))
            = url.path \o q \o url.query \o <<"#">> \o Part(beginPos + 1, endPos)
      <4> DEFINE p == url.path \o q \o url.query
                 m == <<"#">>
      <4> HIDE DEF p, m, Part
      <4>1. p \in Seq(Tokens) /\ m \in Seq(Tokens)
        BY <3>3, <3>5 DEF p, m
      <4>2. p \o (m \o Part(beginPos + 1, endPos)) = p \o m \o Part(beginPos + 1, endPos)
        BY <3>4, <4>1, ConcatAssociative
      <4> QED BY <4>2 DEF p, m
    <3> QED BY ONLY <2>4, <2>5, <3>6, Zenon
  <2>7. AllFound'
    BY <2>1, <2>6, Zenon DEF AllFound
  <2> QED BY <1>2, <2>1, <2>2, <2>3, <2>7 DEF Located
<1>8. LocateRejoins'
  BY <1>2 DEF LocateRejoins
<1> QED BY <1>5, <1>6, <1>7, <1>8

\* At the return, what has been found makes the locate.
LEMMA FoundAtReturn ==
  ASSUME ParserInv, op = "parse", beginPos >= endPos
  PROVE  AllFound
<1> USE DEF ParserInv
<1>1. st \in 0..6 /\ beginPos \in Nat /\ endPos \in Nat /\ str \in Seq(Tokens)
  BY DEF LoopOK, ObjectOK, endPos
<1>2. url.path \in Seq(Tokens) /\ url.query \in Seq(Tokens)
  <2>1. "path" \in Fields /\ "query" \in Fields
    BY DEF Fields
  <2> QED BY <2>1, FieldTokens
<1>3. st >= 3 => Left = <<>>
  <2> SUFFICES ASSUME st >= 3 PROVE Left = <<>>
    OBVIOUS
  <2>1. beginPos <= endPos
    BY DEF Located
  <2>2. beginPos = endPos
    BY <1>1, <2>1
  <2> QED BY <1>1, <2>2, PartEmpty DEF Left
<1>4. <<>> \in Seq(Tokens)
  BY EmptySeq
<1>5. CASE st <= 3
  <2>1. url.locate = <<>> /\ url.path = <<>> /\ url.query = <<>> /\ url.fragment = <<>>
    BY <1>1, <1>3, <1>5 DEF Located
  <2>2. <<>> \o <<>> = <<>>
    BY <1>4, ConcatEmptySeq
  <2> QED BY <2>1, <2>2, Zenon DEF AllFound
<1>6. CASE st = 4
  <2>1. PathFound /\ url.query = <<>> /\ url.fragment = <<>> /\ Left = <<>>
    BY <1>3, <1>6 DEF Located
  <2>2. url.path \o <<>> = url.path
    BY <1>2, ConcatEmptySeq
  <2> QED BY <2>1, <2>2, Zenon DEF AllFound, PathFound
<1>7. CASE st = 5
  <2>1. QueryFound /\ url.fragment = <<>> /\ Left = <<>>
    BY <1>3, <1>7 DEF Located
  <2>2. PICK q \in {<<>>, <<"?">>} : url.locate = url.path \o q \o url.query \o <<>>
    BY <2>1, Zenon DEF QueryFound
  <2>3. url.path \o q \o url.query \o <<>> = url.path \o q \o url.query
    <3>1. q \in Seq(Tokens)
      BY <1>4, OneToken, Delimiters
    <3>2. url.path \o q \o url.query \in Seq(Tokens)
      BY <1>2, <3>1, ConcatProperties
    <3> QED BY <3>2, ConcatEmptySeq
  <2> QED BY <2>1, <2>2, <2>3, Zenon DEF AllFound
<1>8. CASE st = 6
  BY <1>8 DEF Located
<1> QED BY <1>1, <1>5, <1>6, <1>7, <1>8

LEMMA ParsedStep ==
  ASSUME ParserInv, Parsed
  PROVE  ParserInv'
<1> USE DEF ParserInv
<1>1. /\ op = "parse" /\ beginPos >= endPos /\ op' = "parsed"
      /\ UNCHANGED <<given, str, st, beginPos, assigns>>
      /\ url' = url \/ (url.path = <<>> /\ url' = [url EXCEPT !["path"] = <<"/">>])
  BY DEF Parsed
<1>2. "path" \in Fields
  BY DEF Fields
<1>3. /\ DOMAIN url' = Members /\ url'.scheme = url.scheme /\ url'.port = url.port
      /\ \A g \in Fields \ {"path"} : url'[g] = url[g]
      /\ url'.path = url.path \/ (url.path = <<>> /\ url'.path = <<"/">>)
  <2>1. CASE url' = url
    BY <2>1 DEF ObjectOK
  <2>2. CASE url.path = <<>> /\ url' = [url EXCEPT !["path"] = <<"/">>]
    BY <1>2, <2>2, OneField
  <2> QED BY <1>1, <2>1, <2>2
<1>4. ObjectOK'
  <2>1. <<"/">> \in Seq(Range(str) \cup {":", "/"})
    BY OneToken
  <2>2. \A f \in Fields : url'[f] \in Seq(Range(str) \cup {":", "/"})
    BY <1>2, <1>3, <2>1 DEF ObjectOK
  <2> QED BY <1>1, <1>3, <2>2 DEF ObjectOK
<1>5. LoopOK'
  BY <1>1 DEF LoopOK, endPos
<1>6. Located'
  BY <1>1 DEF Located
<1>7. LocateRejoins'
  <2>1. url'.locate = url.locate /\ url'.query = url.query /\ url'.fragment = url.fragment
    BY <1>3 DEF Fields
  <2>2. IsSuffix(url'.locate, str')
    <3>1. PICK k \in 0..endPos : url.locate = Part(k, endPos)
      BY <1>1 DEF Located
    <3>2. IsSuffix(Part(k, endPos), str)
      BY EndIsSuffix DEF ObjectOK
    <3> QED BY <1>1, <2>1, <3>1, <3>2
  <2>3. url.path \in {url'.path} \cup (IF url'.path = <<"/">> THEN {<<>>} ELSE {})
    BY <1>3
  <2>4. AllFound
    BY <1>1, FoundAtReturn
  <2> HIDE DEF ParserInv
  <2> QED BY <2>1, <2>2, <2>3, <2>4, Zenon DEF LocateRejoins, AllFound
<1> QED BY <1>4, <1>5, <1>6, <1>7

\* The text of a URL.
LEMMA PreTokens ==
  ASSUME NEW c \in Tokens, NEW s \in Seq(Tokens)
  PROVE  Pre(c, s) \in Seq(Tokens)
<1>1. <<c>> \in Seq(Tokens)
  BY OneToken
<1>2. <<c>> \o s \in Seq(Tokens)
  BY <1>1, ConcatProperties
<1> QED BY <1>2 DEF Pre

LEMMA PartsTokens ==
  ASSUME NEW p \in Parts
  PROVE  /\ p.username \in Seq(Tokens) /\ p.password \in Seq(Tokens) /\ p.hostname \in Seq(Tokens)
         /\ p.port \in Seq(Tokens) /\ p.path \in Seq(Tokens) /\ p.query \in Seq(Tokens)
         /\ p.fragment \in Seq(Tokens) /\ p.blank \in Seq(Tokens)
         /\ Pre(":", p.password) \in Seq(Tokens) /\ Pre(":", p.port) \in Seq(Tokens)
         /\ Pre("?", p.query) \in Seq(Tokens) /\ Pre("#", p.fragment) \in Seq(Tokens)
         /\ SchemeText(p) \in Seq(Tokens) /\ UserText(p) \in Seq(Tokens)
         /\ AddressText(p) \in Seq(Tokens) /\ LocateText(p) \in Seq(Tokens)
<1>1. /\ p.blank \in Seq(Tokens) /\ p.username \in Seq(Tokens) /\ p.password \in Seq(Tokens)
      /\ p.hostname \in Seq(Tokens) /\ p.port \in Seq(Tokens) /\ p.path \in Seq(Tokens)
      /\ p.query \in Seq(Tokens) /\ p.fragment \in Seq(Tokens) /\ p.scheme \in Tokens \cup {"none"}
  BY UrlAssumption
<1>2. SchemeText(p) \in Seq(Tokens)
  BY <1>1, Delimiters, UrlAssumption DEF SchemeText
<1>3. /\ Pre(":", p.password) \in Seq(Tokens) /\ Pre(":", p.port) \in Seq(Tokens)
      /\ Pre("?", p.query) \in Seq(Tokens) /\ Pre("#", p.fragment) \in Seq(Tokens)
  BY <1>1, PreTokens, Delimiters
<1>4. UserText(p) \in Seq(Tokens)
  <2>1. <<"@">> \in Seq(Tokens)
    BY OneToken, Delimiters
  <2>2. p.username \o Pre(":", p.password) \o <<"@">> \in Seq(Tokens)
    BY <1>1, <1>3, <2>1, ConcatProperties
  <2> QED BY <1>1, <2>2 DEF UserText
<1>5. AddressText(p) \in Seq(Tokens)
  BY <1>1, <1>3, ConcatProperties DEF AddressText
<1>6. LocateText(p) \in Seq(Tokens)
  BY <1>1, <1>3, ConcatProperties DEF LocateText
<1> QED BY <1>1, <1>2, <1>3, <1>4, <1>5, <1>6

LEMMA WrittenTokens ==
  ASSUME NEW p \in Parts
  PROVE  Bare(p) \in Seq(Tokens) /\ Written(p) \in Seq(Tokens)
<1>1. Bare(p) \in Seq(Tokens)
  BY PartsTokens, ConcatProperties DEF Bare
<1> QED BY <1>1, PartsTokens, ConcatProperties DEF Written

\* An object that starts to parse a text.
AtStart ==
  /\ op \in {"parse", "encode"} /\ str \in Seq(Tokens) /\ given \subseteq Parts
  /\ assigns \in 0..MaxAssigns /\ url = Cleared /\ st = 0 /\ beginPos = 0

LEMMA Starts == AtStart => ParserInv
<1> SUFFICES ASSUME AtStart PROVE ParserInv
  OBVIOUS
<1> USE DEF AtStart
<1>1. DOMAIN Cleared = Members /\ Cleared.scheme = "unknown" /\ Cleared.port = 0
      /\ \A f \in Fields : Cleared[f] = <<>>
  BY DEF Cleared, Members, Fields
<1>2. endPos \in Nat
  BY DEF endPos
<1>3. ObjectOK
  <2>1. \A f \in Fields : url[f] \in Seq(Range(str) \cup {":", "/"})
    BY <1>1, EmptySeq
  <2> QED BY <1>1, <2>1 DEF ObjectOK
<1>4. LoopOK
  BY <1>2 DEF LoopOK
<1>5. Located
  <2>1. url.locate = <<>> /\ url.path = <<>> /\ url.query = <<>> /\ url.fragment = <<>>
    BY <1>1 DEF Fields
  <2>2. \E k \in 0..endPos : url.locate = Part(k, endPos)
    BY <1>2, <2>1, PartEmpty
  <2> QED BY <2>1, <2>2 DEF Located
<1>6. LocateRejoins
  BY DEF LocateRejoins
<1> QED BY <1>3, <1>4, <1>5, <1>6 DEF ParserInv

LEMMA AssignStep ==
  ASSUME ParserInv, NEW p \in Parts, Assign(p)
  PROVE  ParserInv'
<1>1. /\ op' = "parse" /\ given' = {p} /\ str' = WithoutBlanks(Written(p)) /\ url' = Cleared
      /\ st' = 0 /\ beginPos' = 0 /\ assigns' = assigns + 1 /\ assigns < MaxAssigns
  BY DEF Assign, Reset
<1>2. str' \in Seq(Tokens)
  <2>1. Written(p) \in Seq(Tokens)
    BY WrittenTokens
  <2> QED BY <1>1, <2>1, DroppedFacts DEF WithoutBlanks
<1>3. assigns' \in 0..MaxAssigns
  BY <1>1, UrlAssumption DEF ParserInv, ObjectOK
<1>4. url' = Cleared'
  BY <1>1 DEF Cleared, Fields
<1>5. AtStart'
  BY <1>1, <1>2, <1>3, <1>4 DEF AtStart
<1>6. (AtStart => ParserInv)'
  BY Starts, PTL
<1> QED BY <1>5, <1>6

-----------------------------------------------------------------------------
(* encode() and decode().                                                   *)

\* The two half-bytes of a byte, and back.
LEMMA HalfByte ==
  ASSUME NEW n \in 0..15
  PROVE  Digit(n) \in (48..57) \cup (97..102) /\ Value(Digit(n)) = n
<1>1. CASE n < 10
  <2>1. Digit(n) = 48 + n /\ 48 + n \in 48..57
    BY <1>1 DEF Digit
  <2> QED BY <2>1 DEF Value
<1>2. CASE ~(n < 10)
  <2>1. Digit(n) = 87 + n /\ 87 + n \in 97..102
    BY <1>2 DEF Digit
  <2> QED BY <2>1 DEF Value
<1> QED BY <1>1, <1>2

LEMMA EscapeFacts ==
  ASSUME NEW b \in 0..255
  PROVE  /\ Escape(b) \in Seq(0..255)
         /\ \/ Len(Escape(b)) = 1 /\ Escape(b)[1] = b /\ b < 128
            \/ /\ Len(Escape(b)) = 3 /\ Escape(b)[1] = 37
               /\ Escape(b)[2] \in (48..57) \cup (97..102) /\ Escape(b)[3] \in (48..57) \cup (97..102)
               /\ 16 * Value(Escape(b)[2]) + Value(Escape(b)[3]) = b
<1>1. CASE b <= 127
  <2>1. Escape(b) = <<b>> /\ b < 128
    BY <1>1 DEF Escape
  <2> QED BY <2>1, OneToken
<1>2. CASE b > 127
  <2> DEFINE h == b \div 16
             l == b % 16
             x == Digit(h)
             y == Digit(l)
  <2>1. h \in 0..15 /\ l \in 0..15 /\ 16 * h + l = b
    OBVIOUS
  <2>2. Escape(b) = <<37, x, y>>
    BY <1>2 DEF Escape
  <2> HIDE DEF h, l
  <2>3. /\ x \in (48..57) \cup (97..102) /\ Value(x) = h
        /\ y \in (48..57) \cup (97..102) /\ Value(y) = l
    BY <2>1, HalfByte
  <2> HIDE DEF x, y
  <2>4. x \in 0..255 /\ y \in 0..255 /\ 37 \in 0..255
    BY <2>3
  <2>5. <<37, x, y>> \in Seq(0..255)
    BY <2>4
  <2> QED BY <2>1, <2>2, <2>3, <2>5
<1> QED BY <1>1, <1>2

\* The recursion of Meanings.
LEMMA MeaningsUnfold ==
  ASSUME NEW s \in Seq(0..255)
  PROVE  /\ Meanings(s)[0] = <<>>
         /\ \A n \in 1..Len(s) :
              LET at == Len(s) - n IN
              Meanings(s)[n] =
                IF s[at + 1] = 37
                THEN IF n < 3 THEN <<>>
                     ELSE <<16 * Value(s[at + 2]) + Value(s[at + 3])>> \o Meanings(s)[n - 3]
                ELSE <<s[at + 1]>> \o Meanings(s)[n - 1]
<1> DEFINE Byte(n) == 16 * Value(s[Len(s) - n + 2]) + Value(s[Len(s) - n + 3])
           More(m, n) == IF n = 0 THEN <<>>
                         ELSE IF s[Len(s) - n + 1] = 37
                              THEN IF n < 3 THEN <<>> ELSE <<Byte(n)>> \o m[n - 3]
                              ELSE <<s[Len(s) - n + 1]>> \o m[n - 1]
           Solved(k) == \E m : m = [n \in 0..k |-> More(m, n)]
           T == {k \in Nat : ~Solved(k)}
<1> HIDE DEF Byte
<1>1. Len(s) \in Nat
  OBVIOUS
<1>2. Solved(Len(s))
  <2> SUFFICES ASSUME T # {} PROVE FALSE
    BY <1>1
  <2>1. PICK k \in T : \A j \in T : k <= j
    <3> HIDE DEF Solved
    <3> QED BY LeastMember
  <2>2. CASE k = 0
    <3> DEFINE e == [n \in 0..0 |-> <<>>]
    <3>1. e = [n \in 0..k |-> More(e, n)]
      BY <2>2
    <3> QED BY <2>1, <3>1
  <2>3. CASE k # 0
    <3>1. k - 1 \in Nat /\ ~(k <= k - 1)
      BY <2>1, <2>3
    <3>2. Solved(k - 1)
      <4> HIDE DEF Solved
      <4> QED BY <2>1, <3>1
    <3>3. PICK g : g = [n \in 0..(k - 1) |-> More(g, n)]
      BY <3>2
    <3> DEFINE e == [n \in 0..k |-> IF n < k THEN g[n] ELSE More(g, k)]
    <3>4. ASSUME NEW n \in 0..k PROVE e[n] = More(e, n)
      <4>1. \A i \in 0..(k - 1) : e[i] = g[i]
        <5> HIDE DEF More
        <5> QED BY <3>1
      <4>2. e[n] = IF n < k THEN g[n] ELSE More(g, k)
        <5> HIDE DEF More
        <5> QED OBVIOUS
      <4>3. n < k => g[n] = More(g, n)
        <5> HIDE DEF More
        <5>1. n < k => n \in 0..(k - 1)
          BY <3>1
        <5> QED BY <3>3, <5>1
      <4>4. ~(n < k) => n = k
        BY <3>1
      <4> HIDE DEF e
      <4>5. More(e, n) = More(g, n)
        <5>1. CASE n = 0
          BY <5>1
        <5>2. CASE n # 0
          <6>1. n - 1 \in 0..(k - 1) /\ (~(n < 3) => n - 3 \in 0..(k - 1))
            BY <3>1, <5>2
          <6>2. e[n - 1] = g[n - 1] /\ (~(n < 3) => e[n - 3] = g[n - 3])
            BY <4>1, <6>1
          <6> QED BY <5>2, <6>2, Zenon
        <5> QED BY <5>1, <5>2
      <4> HIDE DEF More
      <4> QED BY <4>2, <4>3, <4>4, <4>5
    <3>5. e = [n \in 0..k |-> More(e, n)]
      <4>1. e = [n \in 0..k |-> e[n]]
        OBVIOUS
      <4> HIDE DEF e, More
      <4> QED BY <3>4, <4>1
    <3> HIDE DEF e, More
    <3>6. Solved(k)
      BY <3>5
    <3> HIDE DEF Solved
    <3> QED BY <2>1, <3>6
  <2> QED BY <2>2, <2>3
<1> DEFINE M == Meanings(s)
<1>3. M = [n \in 0..Len(s) |-> More(M, n)]
  BY <1>2 DEF Meanings, Byte
<1> HIDE DEF M
<1>4. M[0] = <<>>
  BY <1>1, <1>3
<1>5. ASSUME NEW n \in 1..Len(s) PROVE M[n] = More(M, n)
  <2>1. n \in 0..Len(s)
    BY <1>1
  <2> HIDE DEF More
  <2> QED BY <1>3, <2>1
<1>6. \A n \in 1..Len(s) : n # 0
  BY <1>1
<1> QED BY <1>4, <1>5, <1>6, Zenon DEF M, Byte

\* One more byte on the right of an encoded text.
LEMMA MeaningGrows ==
  ASSUME NEW s \in Seq(0..255), Encoding(s), NEW b \in 0..255, b # 37
  PROVE  /\ s \o Escape(b) \in Seq(0..255)
         /\ Encoding(s \o Escape(b))
         /\ Meaning(s \o Escape(b)) = Meaning(s) \o <<b>>
<1> DEFINE e == Escape(b)
           t == s \o e
           k == Len(e)
           l == Len(s)
<1>1. /\ e \in Seq(0..255) /\ k \in {1, 3}
      /\ k = 1 => e[1] = b /\ b < 128
      /\ k = 3 => /\ e[1] = 37
                  /\ e[2] \in (48..57) \cup (97..102) /\ e[3] \in (48..57) \cup (97..102)
                  /\ 16 * Value(e[2]) + Value(e[3]) = b
  <2>1. /\ e \in Seq(0..255)
        /\ \/ k = 1 /\ e[1] = b /\ b < 128
           \/ /\ k = 3 /\ e[1] = 37
              /\ e[2] \in (48..57) \cup (97..102) /\ e[3] \in (48..57) \cup (97..102)
              /\ 16 * Value(e[2]) + Value(e[3]) = b
    BY EscapeFacts, Zenon
  <2> HIDE DEF e, k
  <2> QED BY <2>1
<1> HIDE DEF e
<1>2. /\ l \in Nat /\ t \in Seq(0..255) /\ Len(t) = l + k /\ k \in Nat
      /\ \A i \in 1..l : t[i] = s[i]
      /\ \A i \in 1..k : t[l + i] = e[i]
  <2>1. /\ t \in Seq(0..255) /\ Len(t) = l + k
        /\ \A i \in 1..(l + k) : t[i] = IF i <= l THEN s[i] ELSE e[i - l]
    BY <1>1, ConcatProperties
  <2>2. l \in Nat /\ k \in Nat
    BY <1>1
  <2> HIDE DEF t, l, k
  <2>3. ASSUME NEW i \in 1..l PROVE t[i] = s[i]
    BY <2>1, <2>2
  <2>4. ASSUME NEW i \in 1..k PROVE t[l + i] = e[i]
    <3>1. l + i \in 1..(l + k) /\ ~(l + i <= l) /\ (l + i) - l = i
      BY <2>2
    <3> QED BY <2>1, <3>1
  <2> QED BY <2>1, <2>2, <2>3, <2>4
<1> HIDE DEF t, k
<1>3. Encoding(t)
  <2> SUFFICES ASSUME NEW i \in DOMAIN t PROVE t[i] < 128 /\ (t[i] = 37 => i + 2 <= Len(t))
    BY DEF Encoding
  <2>1. i \in 1..(l + k)
    BY <1>2
  <2>2. CASE i <= l
    <3>1. i \in 1..l /\ i \in DOMAIN s
      BY <1>2, <2>1, <2>2
    <3>2. s[i] < 128 /\ (s[i] = 37 => i + 2 <= l)
      BY <3>1 DEF Encoding
    <3> HIDE DEF l
    <3> QED BY <1>2, <3>1, <3>2
  <2>3. CASE ~(i <= l)
    <3> DEFINE j == i - l
    <3> HIDE DEF l
    <3>1. j \in 1..k /\ l + j = i
      BY <1>2, <2>1, <2>3
    <3> HIDE DEF j
    <3>2. t[i] = e[j]
      BY <1>2, <3>1
    <3>3. CASE k = 1
      <4>1. j = 1
        BY <3>1, <3>3
      <4> QED BY <1>1, <3>2, <3>3, <4>1
    <3>4. CASE k = 3
      <4>1. j \in {1, 2, 3}
        BY <3>1, <3>4
      <4>2. e[j] < 128 /\ (e[j] = 37 => j = 1)
        <5>1. e[1] = 37 /\ e[2] \in (48..57) \cup (97..102) /\ e[3] \in (48..57) \cup (97..102)
          BY <1>1, <3>4
        <5>2. \A c \in (48..57) \cup (97..102) : c < 128 /\ c # 37
          OBVIOUS
        <5>3. CASE j = 1
          BY ONLY <5>1, <5>3
        <5>4. CASE j = 2
          BY ONLY <5>1, <5>2, <5>4, Zenon
        <5>5. CASE j = 3
          BY ONLY <5>1, <5>2, <5>5, Zenon
        <5> QED BY <4>1, <5>3, <5>4, <5>5
      <4> QED BY <1>2, <3>1, <3>2, <3>4, <4>2
    <3> QED BY <1>1, <3>3, <3>4
  <2> QED BY <2>2, <2>3
<1> DEFINE M == Meanings(s)
           N == Meanings(t)
           Byte(n) == 16 * Value(s[l - n + 2]) + Value(s[l - n + 3])
           U == (0..255) \cup {Byte(n) : n \in 0..l}
           Good(n) == M[n] \in Seq(U) /\ N[n + k] = M[n] \o <<b>>
           T == {n \in 0..l : ~Good(n)}
<1> HIDE DEF Byte
<1>4. /\ M[0] = <<>>
      /\ \A n \in 1..l :
           M[n] = IF s[l - n + 1] = 37 THEN IF n < 3 THEN <<>> ELSE <<Byte(n)>> \o M[n - 3]
                  ELSE <<s[l - n + 1]>> \o M[n - 1]
  BY MeaningsUnfold DEF Byte
<1>5. /\ N[0] = <<>>
      /\ \A n \in 1..Len(t) :
           LET at == Len(t) - n IN
           N[n] = IF t[at + 1] = 37
                  THEN IF n < 3 THEN <<>> ELSE <<16 * Value(t[at + 2]) + Value(t[at + 3])>> \o N[n - 3]
                  ELSE <<t[at + 1]>> \o N[n - 1]
  BY <1>2, MeaningsUnfold
<1> HIDE DEF M, N
<1>6. b \in U /\ <<b>> \in Seq(U) /\ <<>> \in Seq(U)
  <2>1. b \in U
    OBVIOUS
  <2> HIDE DEF U
  <2> QED BY <2>1, OneToken, EmptySeq
<1>7. \A x, y, z \in Seq(U) : (x \o y) \o z = x \o (y \o z)
  <2> HIDE DEF U
  <2> QED BY ConcatAssociative, SMTT(30)
<1>8. Good(0)
  <2>1. N[k] = <<b>>
    <3>0. <<b>> \o <<>> = <<b>>
      BY <1>6, ConcatEmptySeq
    <3>1. k \in 1..Len(t) /\ Len(t) - k = l
      BY <1>1, <1>2
    <3>2. /\ k = 1 => t[l + 1] = b
          /\ k = 3 => t[l + 1] = 37 /\ 16 * Value(t[l + 2]) + Value(t[l + 3]) = b
      <4>1. k = 1 => 1 \in 1..k
        OBVIOUS
      <4>2. k = 3 => 1 \in 1..k /\ 2 \in 1..k /\ 3 \in 1..k
        OBVIOUS
      <4> QED BY <1>1, <1>2, <4>1, <4>2
    <3>3. CASE k = 1
      <4>1. k - 1 = 0
        BY <3>3
      <4> QED BY <1>5, <3>0, <3>1, <3>2, <3>3, <4>1
    <3>4. CASE k = 3
      <4>1. k - 3 = 0 /\ ~(k < 3)
        BY <3>4
      <4> QED BY <1>5, <3>0, <3>1, <3>2, <3>4, <4>1, ZenonT(30)
    <3> QED BY <1>1, <3>3, <3>4
  <2>2. 0 + k = k
    BY <1>2
  <2>3. <<>> \o <<b>> = <<b>>
    BY <1>6, ConcatEmptySeq
  <2> HIDE DEF U
  <2> QED BY <1>4, <1>6, <2>1, <2>2, <2>3
<1>9. ASSUME NEW n \in 1..l, \A m \in 0..(n - 1) : Good(m) PROVE Good(n)
  <2> DEFINE c == s[l - n + 1]
  <2>1. /\ n + k \in 1..Len(t) /\ Len(t) - (n + k) = l - n /\ l - n + 1 \in 1..l
        /\ n - 1 \in 0..(n - 1) /\ (n + k) - 1 = (n - 1) + k
    BY <1>2
  <2>2. c \in 0..255 /\ t[l - n + 1] = c
    <3> HIDE DEF l
    <3>1. l = Len(s)
      BY DEF l
    <3> QED BY <1>2, <2>1, <3>1, ElementOfSeq
  <2>3. CASE c # 37
    <3>1. M[n] = <<c>> \o M[n - 1]
      BY <1>4, <2>3
    <3>2. N[n + k] = <<c>> \o N[(n - 1) + k]
      BY <1>5, <2>1, <2>2, <2>3
    <3>3. M[n - 1] \in Seq(U) /\ N[(n - 1) + k] = M[n - 1] \o <<b>>
      BY <1>9, <2>1
    <3>4. <<c>> \in Seq(U)
      <4>1. c \in U
        BY <2>2
      <4> HIDE DEF U, c
      <4> QED BY <4>1, OneToken
    <3> HIDE DEF U, c
    <3>5. <<c>> \o M[n - 1] \in Seq(U)
      BY <3>3, <3>4, ConcatProperties
    <3>6. (<<c>> \o M[n - 1]) \o <<b>> = <<c>> \o (M[n - 1] \o <<b>>)
      BY ONLY <1>6, <1>7, <3>3, <3>4, Zenon
    <3> QED BY ONLY <3>1, <3>2, <3>3, <3>5, <3>6, Zenon DEF Good
  <2>4. CASE c = 37
    <3>1. l - n + 3 <= l
      <4>1. l - n + 1 \in DOMAIN s
        BY <2>1
      <4>2. (l - n + 1) + 2 <= Len(s)
        BY <2>4, <4>1 DEF Encoding
      <4> QED BY <1>2, <4>2
    <3>2. /\ n >= 3 /\ ~(n < 3) /\ n - 3 \in 0..(n - 1) /\ (n + k) - 3 = (n - 3) + k /\ ~(n + k < 3)
          /\ l - n + 2 \in 1..l /\ l - n + 3 \in 1..l /\ n \in 0..l
      BY <1>2, <3>1
    <3>3. M[n] = <<Byte(n)>> \o M[n - 3]
      BY <1>4, <2>4, <3>2
    <3>4. t[l - n + 2] = s[l - n + 2] /\ t[l - n + 3] = s[l - n + 3]
      BY <1>2, <3>2
    <3>5. N[n + k] = <<Byte(n)>> \o N[(n - 3) + k]
      <4>1. N[n + k] = <<16 * Value(t[l - n + 2]) + Value(t[l - n + 3])>> \o N[(n + k) - 3]
        BY <1>5, <2>1, <2>2, <2>4, <3>2
      <4> QED BY <3>2, <3>4, <4>1 DEF Byte
    <3>6. M[n - 3] \in Seq(U) /\ N[(n - 3) + k] = M[n - 3] \o <<b>>
      BY <1>9, <3>2
    <3>7. <<Byte(n)>> \in Seq(U)
      <4>1. Byte(n) \in U
        BY <3>2
      <4> HIDE DEF U
      <4> QED BY <4>1, OneToken
    <3> HIDE DEF U
    <3>8. <<Byte(n)>> \o M[n - 3] \in Seq(U)
      BY <3>6, <3>7, ConcatProperties
    <3>9. (<<Byte(n)>> \o M[n - 3]) \o <<b>> = <<Byte(n)>> \o (M[n - 3] \o <<b>>)
      BY ONLY <1>6, <1>7, <3>6, <3>7, Zenon
    <3> QED BY ONLY <3>3, <3>5, <3>6, <3>8, <3>9, Zenon DEF Good
  <2> QED BY <2>3, <2>4
<1> HIDE DEF Good
<1>10. Good(l)
  <2> SUFFICES ASSUME T # {} PROVE FALSE
    BY <1>2
  <2>1. PICK n \in T : \A m \in T : n <= m
    <3>1. T \subseteq Nat
      BY <1>2
    <3> QED BY <3>1, LeastMember
  <2>2. n \in 0..l /\ n # 0 /\ ~Good(n)
    BY <1>8, <2>1
  <2>3. n \in 1..l
    BY <1>2, <2>2
  <2>4. ASSUME NEW m \in 0..(n - 1) PROVE Good(m)
    <3>1. m \in 0..l /\ ~(n <= m)
      BY <1>2, <2>3
    <3> QED BY <2>1, <3>1
  <2> QED BY <1>9, <2>2, <2>3, <2>4
<1> QED BY <1>2, <1>3, <1>10 DEF Good, M, N, t, e, Meaning

LEMMA EncodeStep ==
  ASSUME CodecInv, Encode
  PROVE  CodecInv'
<1> USE DEF CodecInv
<1>1. op = "encode" /\ UNCHANGED text /\ input = text
  BY DEF Encode, Encoded
<1>2. /\ text \in ByteTexts \cup {<<>>} /\ input \in Seq(0..255) /\ out \in Seq(0..255)
      /\ idx \in 0..Len(input) /\ Len(input) \in Nat
  BY DEF CodecOK
<1>3. CASE idx < Len(input)
  <2> DEFINE b == input[idx + 1]
  <2>1. out' = out \o Escape(b) /\ idx' = idx + 1 /\ op' = "encode" /\ UNCHANGED input
    BY <1>1, <1>3 DEF Encode
  <2>2. idx + 1 \in 1..Len(input) /\ idx + 1 \in 0..Len(input)
    BY <1>2, <1>3
  <2>3. b \in 0..255
    BY <1>2, <2>2, ElementOfSeq
  <2>4. CodecOK'
    <3>1. Escape(b) \in Seq(0..255)
      BY <2>3, EscapeFacts
    <3> HIDE DEF b
    <3>2. out \o Escape(b) \in Seq(0..255)
      BY <1>2, <3>1, ConcatProperties
    <3> QED BY <1>1, <1>2, <2>1, <2>2, <3>2 DEF CodecOK
  <2>5. ASSUME 37 \notin Range(text)
        PROVE  Encoding(out') /\ Meaning(out') = SubSeq(text, 1, idx + 1)
    <3>1. b # 37
      BY <1>1, <1>2, <2>2, <2>5 DEF Range
    <3>2. Encoding(out) /\ Meaning(out) = SubSeq(text, 1, idx)
      BY <1>1, <2>5 DEF Encoded
    <3>3. Encoding(out') /\ Meaning(out') = SubSeq(text, 1, idx) \o <<b>>
      <4> HIDE DEF b
      <4> QED BY <1>2, <2>1, <2>3, <3>1, <3>2, MeaningGrows
    <3>4. SubSeq(text, 1, idx + 1) = SubSeq(text, 1, idx) \o <<b>>
      <4>1. 1 \in 1..(Len(text) + 1) /\ idx \in (1 - 1)..Len(text) /\ idx + 1 \in idx..Len(text)
            /\ idx + 1 \in 1..Len(text) /\ (idx + 1) + 1 \in Nat
        BY <1>1, <1>2, <2>2
      <4>2. SubSeq(text, 1, idx + 1) = SubSeq(text, 1, idx) \o SubSeq(text, idx + 1, idx + 1)
        BY <1>1, <1>2, <4>1, ConcatAdjacentSubSeq
      <4>3. SubSeq(text, idx + 1, idx + 1) = <<text[idx + 1]>> \o SubSeq(text, idx + 1 + 1, idx + 1)
        BY <1>1, <1>2, <4>1, SubSeqRecursiveFirst
      <4>4. SubSeq(text, idx + 1 + 1, idx + 1) = <<>>
        BY <1>2, SubSeqEmpty
      <4>5. <<b>> \in Seq(0..255)
        BY <2>3, OneToken
      <4>6. <<b>> \o <<>> = <<b>>
        BY <4>5, ConcatEmptySeq
      <4> QED BY <1>1, <4>2, <4>3, <4>4, <4>6
    <3> QED BY <3>3, <3>4
  <2>6. Encoded'
    BY <1>1, <2>1, <2>5 DEF Encoded
  <2>7. EncodeDecodable'
    BY <2>1 DEF EncodeDecodable
  <2> QED BY <2>4, <2>6, <2>7
<1>4. CASE ~(idx < Len(input))
  <2>1. op' = "decode" /\ input' = out /\ out' = <<>> /\ idx' = 0
    BY <1>1, <1>4 DEF Encode
  <2>2. CodecOK'
    <3>1. Len(out) \in Nat
      BY <1>2
    <3>2. out' \in Seq(0..255)
      BY <2>1, EmptySeq
    <3> QED BY <1>1, <1>2, <2>1, <3>1, <3>2 DEF CodecOK
  <2>3. Encoded'
    BY <2>1 DEF Encoded
  <2>4. ASSUME 37 \notin Range(text)
        PROVE  (\A i \in DOMAIN out : out[i] < 128) /\ Meaning(out) = text
    <3>1. Encoding(out) /\ Meaning(out) = SubSeq(text, 1, idx)
      BY <1>1, <2>4 DEF Encoded
    <3>2. idx = Len(text)
      BY <1>1, <1>2, <1>4
    <3>3. SubSeq(text, 1, Len(text)) = text
      BY <1>1, <1>2, SubSeqFull
    <3> QED BY <3>1, <3>2, <3>3 DEF Encoding
  <2>5. EncodeDecodable'
    BY <1>1, <2>1, <2>4 DEF EncodeDecodable
  <2> QED BY <2>2, <2>3, <2>5
<1> QED BY <1>3, <1>4

\* strtol() of two characters makes a byte.
LEMMA StrtolIsByte ==
  ASSUME NEW a \in 0..255, NEW b \in 0..255
  PROVE  Strtol(a, b) \in 0..255
<1>1. \A c \in HexDigits : Value(c) \in 0..15
  <2> SUFFICES ASSUME NEW c \in HexDigits PROVE Value(c) \in 0..15
    OBVIOUS
  <2>1. CASE c \in 48..57
    BY <2>1 DEF Value
  <2>2. CASE c \in 65..70
    BY <2>2 DEF Value
  <2>3. CASE c \in 97..102
    BY <2>3 DEF Value
  <2> QED BY <2>1, <2>2, <2>3 DEF HexDigits
<1> QED BY <1>1 DEF Strtol

LEMMA DecodeStep ==
  ASSUME CodecInv, Decode
  PROVE  CodecInv'
<1> USE DEF CodecInv
<1> DEFINE ch == input[idx + 1]
<1>1. /\ op = "decode" /\ idx < Len(input) /\ UNCHANGED <<text, input>>
      /\ text \in ByteTexts \cup {<<>>} /\ input \in Seq(0..255) /\ out \in Seq(0..255)
      /\ idx \in 0..Len(input) /\ Len(input) \in Nat
  BY DEF Decode, CodecOK
<1>2. /\ op' \in {"decode", "decoded"}
      /\ \/ out' = Append(out, ch) /\ idx' = idx + 1
         \/ /\ idx + 2 < Len(input) /\ idx' = idx + 3
            /\ \E a \in ByteAt(idx + 3), b \in ByteAt(idx + 4) : out' = Append(out, Strtol(a, b))
         \/ out' = input /\ idx' = idx
  BY <1>1 DEF Decode
<1>3. ASSUME NEW i \in Nat PROVE ByteAt(i) \subseteq 0..255
  <2>1. i < Len(input) => input[i + 1] \in 0..255
    <3>1. i < Len(input) => i + 1 \in 1..Len(input)
      BY <1>1
    <3> QED BY <1>1, <3>1, ElementOfSeq
  <2>2. ByteAt(i) \in {{input[i + 1]}, {0}, Stray} /\ (i < Len(input) \/ ByteAt(i) \in {{0}, Stray})
    BY DEF ByteAt
  <2>3. i < Len(input) => ByteAt(i) = {input[i + 1]}
    BY DEF ByteAt
  <2>4. {0} \subseteq 0..255 /\ Stray \subseteq 0..255
    BY UrlAssumption
  <2> QED BY ONLY <2>1, <2>2, <2>3, <2>4, Zenon
<1>4. CodecOK'
  <2>1. CASE out' = Append(out, ch) /\ idx' = idx + 1
    <3>1. idx + 1 \in 1..Len(input) /\ idx + 1 \in 0..Len(input)
      BY <1>1
    <3>2. ch \in 0..255
      BY <1>1, <3>1, ElementOfSeq
    <3> HIDE DEF ch
    <3>3. Append(out, ch) \in Seq(0..255)
      BY <1>1, <3>2, AppendProperties
    <3> QED BY <1>1, <2>1, <3>1, <3>3 DEF CodecOK
  <2>2. CASE /\ idx + 2 < Len(input) /\ idx' = idx + 3
             /\ \E a \in ByteAt(idx + 3), b \in ByteAt(idx + 4) : out' = Append(out, Strtol(a, b))
    <3>1. PICK a \in ByteAt(idx + 3), b \in ByteAt(idx + 4) : out' = Append(out, Strtol(a, b))
      BY <2>2
    <3>2. idx + 3 \in Nat /\ idx + 4 \in Nat /\ idx + 3 \in 0..Len(input)
      BY <1>1, <2>2
    <3>3. a \in 0..255 /\ b \in 0..255
      BY <1>3, <3>1, <3>2
    <3>4. Strtol(a, b) \in 0..255
      BY <3>3, StrtolIsByte
    <3>5. Append(out, Strtol(a, b)) \in Seq(0..255)
      BY <1>1, <3>4, AppendProperties
    <3> QED BY <1>1, <2>2, <3>1, <3>2, <3>5 DEF CodecOK
  <2>3. CASE out' = input /\ idx' = idx
    BY <1>1, <2>3 DEF CodecOK
  <2> QED BY <1>2, <2>1, <2>2, <2>3
<1>5. Encoded'
  BY <1>2 DEF Encoded
<1>6. EncodeDecodable'
  BY <1>1 DEF EncodeDecodable
<1> QED BY <1>4, <1>5, <1>6

LEMMA DecodedStep ==
  ASSUME CodecInv, Decoded
  PROVE  CodecInv'
<1>1. op' = "decoded" /\ UNCHANGED <<text, input, idx, out>>
  BY DEF Decoded
<1> QED BY <1>1 DEF CodecInv, CodecOK, Encoded, EncodeDecodable

-----------------------------------------------------------------------------
(* What _parse() finds of a text written from parts.                        *)

\* The text from k to e is s; the token c is nowhere from k to e.
Spans(k, e, s) ==
  k \in Nat /\ e \in Nat /\ e = k + Len(s) /\ e <= endPos /\ \A i \in 1..Len(s) : str[k + i] = s[i]
None(k, e, c) == \A i \in k..(e - 1) : str[i + 1] # c

\* Where a span is, and that it is a part of the text.
LEMMA SpanFacts ==
  ASSUME str \in Seq(Tokens), NEW k, NEW e, NEW s \in Seq(Tokens), Spans(k, e, s)
  PROVE  /\ k \in Nat /\ e \in Nat /\ k <= e /\ e <= endPos
         /\ Part(k, e) = s /\ (k = e <=> s = <<>>)
         /\ s # <<>> => k < e /\ str[k + 1] = s[1]
<1>1. /\ k \in Nat /\ e \in Nat /\ e = k + Len(s) /\ e <= endPos /\ Len(s) \in Nat /\ endPos \in Nat
      /\ \A i \in 1..Len(s) : str[k + i] = s[i]
  BY DEF Spans, endPos
<1>2. k <= e /\ e - k = Len(s)
  BY <1>1
<1>3. /\ Part(k, e) \in Seq(Tokens) /\ Len(Part(k, e)) = Len(s)
      /\ \A i \in 1..Len(s) : Part(k, e)[i] = str[k + i]
  BY <1>1, <1>2, PartFacts
<1>4. Part(k, e) = s
  BY <1>1, <1>3, SeqEqual
<1>5. Len(s) = 0 <=> s = <<>>
  BY EmptySeq
<1>6. s # <<>> => k < e /\ str[k + 1] = s[1]
  BY <1>1, <1>5
<1> QED BY <1>1, <1>2, <1>4, <1>5, <1>6

\* The two halves of a span.
LEMMA SpanSplits ==
  ASSUME str \in Seq(Tokens), NEW k, NEW e, NEW a \in Seq(Tokens), NEW b \in Seq(Tokens),
         Spans(k, e, a \o b)
  PROVE  Spans(k, k + Len(a), a) /\ Spans(k + Len(a), e, b)
<1> DEFINE c == a \o b
<1>1. /\ Len(a) \in Nat /\ Len(b) \in Nat /\ Len(c) = Len(a) + Len(b) /\ endPos \in Nat
      /\ \A i \in 1..Len(a) : c[i] = a[i]
      /\ \A i \in 1..Len(b) : c[Len(a) + i] = b[i]
  BY ConcatProperties DEF endPos
<1>2. Spans(k, e, c)
  OBVIOUS
<1> HIDE DEF c
<1>3. k \in Nat /\ e \in Nat /\ e = k + Len(c) /\ e <= endPos /\ \A i \in 1..Len(c) : str[k + i] = c[i]
  BY <1>2 DEF Spans
<1>4. \A i \in 1..Len(a) : i \in 1..Len(c)
  BY <1>1
<1>5. \A i \in 1..Len(b) : Len(a) + i \in 1..Len(c) /\ (k + Len(a)) + i = k + (Len(a) + i)
  BY <1>1, <1>3
<1> QED BY <1>1, <1>3, <1>4, <1>5 DEF Spans

\* A part with its delimiter, either of which may be absent.
LEMMA SpanOfPre ==
  ASSUME str \in Seq(Tokens), NEW k, NEW e, NEW c \in Tokens, NEW s \in Seq(Tokens),
         Spans(k, e, Pre(c, s))
  PROVE  /\ k \in Nat /\ e \in Nat /\ k <= e /\ e <= endPos
         /\ k = e <=> s = <<>>
         /\ s # <<>> => k < e /\ str[k + 1] = c /\ Spans(k + 1, e, s)
<1>1. CASE s = <<>>
  <2>1. Spans(k, e, <<>>) /\ <<>> \in Seq(Tokens)
    BY <1>1 DEF Pre
  <2>2. k \in Nat /\ e \in Nat /\ k <= e /\ e <= endPos /\ k = e
    BY <2>1, SpanFacts
  <2> QED BY <1>1, <2>2
<1>2. CASE s # <<>>
  <2>1. Pre(c, s) = <<c>> \o s
    BY <1>2 DEF Pre
  <2>2. <<c>> \in Seq(Tokens) /\ Len(<<c>>) = 1 /\ <<c>>[1] = c /\ <<c>> # <<>>
    BY OneToken
  <2>3. Spans(k, k + 1, <<c>>) /\ Spans(k + 1, e, s)
    BY <2>1, <2>2, SpanSplits
  <2>4. k \in Nat /\ str[k + 1] = c
    BY <2>2, <2>3, SpanFacts
  <2>5. k + 1 <= e /\ e \in Nat /\ e <= endPos
    BY <2>3, SpanFacts
  <2>6. k < e /\ k # e /\ k <= e
    BY ONLY <2>4, <2>5
  <2> QED BY <1>2, <2>3, <2>4, <2>5, <2>6
<1> QED BY <1>1, <1>2

\* A token that a part does not have is not found in its place.
LEMMA SpanNone ==
  ASSUME str \in Seq(Tokens), NEW k, NEW e, NEW s \in Seq(Tokens), Spans(k, e, s), NEW c, c \notin Range(s)
  PROVE  None(k, e, c)
<1>1. k \in Nat /\ Len(s) \in Nat /\ e = k + Len(s) /\ \A i \in 1..Len(s) : str[k + i] = s[i]
  BY DEF Spans
<1>2. \A i \in 1..Len(s) : s[i] # c
  BY DEF Range
<1>3. ASSUME NEW i \in k..(e - 1) PROVE str[i + 1] # c
  <2>1. (i - k) + 1 \in 1..Len(s) /\ k + ((i - k) + 1) = i + 1
    BY <1>1
  <2> QED BY <1>1, <1>2, <2>1
<1> QED BY <1>3 DEF None

\* What is in neither of two ranges that meet is not in both together.
LEMMA NoneJoins ==
  ASSUME NEW k \in Nat, NEW m \in Nat, NEW e \in Nat, NEW c, None(k, m, c), None(m, e, c)
  PROVE  None(k, e, c)
<1> SUFFICES ASSUME NEW i \in k..(e - 1) PROVE str[i + 1] # c
  BY DEF None
<1>1. i \in k..(m - 1) \/ i \in m..(e - 1)
  OBVIOUS
<1> QED BY <1>1 DEF None

\* Nor is it found in the place of the part with its delimiter.
LEMMA PreNone ==
  ASSUME str \in Seq(Tokens), NEW k, NEW e, NEW c \in Tokens, NEW s \in Seq(Tokens),
         Spans(k, e, Pre(c, s)), NEW x, x # c, x \notin Range(s)
  PROVE  None(k, e, x)
<1>1. /\ k \in Nat /\ e \in Nat /\ k <= e /\ e <= endPos
      /\ k = e <=> s = <<>>
      /\ s # <<>> => k < e /\ str[k + 1] = c /\ Spans(k + 1, e, s)
  BY SpanOfPre
<1>2. CASE s = <<>>
  BY <1>1, <1>2 DEF None
<1>3. CASE s # <<>>
  <2>1. None(k + 1, e, x)
    BY <1>1, <1>3, SpanNone
  <2>2. None(k, k + 1, x)
    <3> SUFFICES ASSUME NEW i \in k..((k + 1) - 1) PROVE str[i + 1] # x
      BY DEF None
    <3>1. i = k
      BY <1>1
    <3> QED BY <1>1, <1>3, <3>1
  <2>3. k + 1 \in Nat
    BY <1>1
  <2> QED BY <1>1, <2>1, <2>2, <2>3, NoneJoins
<1> QED BY <1>2, <1>3

\* find() of one character, told where it is.
LEMMA FindsAt ==
  ASSUME str \in Seq(Tokens), NEW frt \in Nat, NEW lst \in Nat, lst <= endPos, NEW c \in Tokens,
         NEW hit \in Nat, frt <= hit, hit <= lst, None(frt, hit, c), hit = lst \/ str[hit + 1] = c
  PROVE  Find(str, frt, lst, <<c>>) = hit
<1> DEFINE f == Find(str, frt, lst, <<c>>)
<1>1. /\ f \in Nat /\ frt <= f /\ f <= lst /\ (f # lst => f < lst /\ str[f + 1] = c)
      /\ \A i \in frt..(f - 1) : str[i + 1] # c
  <2>1. frt <= lst
    OBVIOUS
  <2>2. f = Find(str, frt, lst, <<c>>)
    OBVIOUS
  <2> HIDE DEF f
  <2>3. f \in Nat /\ frt <= f /\ f <= lst /\ (f # lst => f < lst /\ str[f + 1] = c)
    BY <2>1, <2>2, FindOne, ZenonT(30)
  <2>4. \A i \in frt..(f - 1) : str[i + 1] # c
    BY <2>1, <2>2, FindOne, ZenonT(30)
  <2> QED BY <2>3, <2>4
<1>0. \A i \in frt..(hit - 1) : str[i + 1] # c
  BY DEF None
<1> HIDE DEF f
<1>2. CASE f < hit
  <2>1. f \in frt..(hit - 1) /\ f # lst
    BY <1>1, <1>2
  <2> QED BY <1>0, <1>1, <2>1
<1>3. CASE hit < f
  <2>1. hit \in frt..(f - 1) /\ hit # lst
    BY <1>1, <1>3
  <2> QED BY <1>1, <2>1
<1> QED BY <1>1, <1>2, <1>3 DEF f

\* Where the parts are.
UserAt(p)   == Len(SchemeText(p))
HostAt(p)   == UserAt(p) + Len(UserText(p))
LocateAt(p) == HostAt(p) + Len(AddressText(p))
QueryAt(p)  == LocateAt(p) + Len(p.path)
FragAt(p)   == QueryAt(p) + Len(Pre("?", p.query))

\* The four pieces of the text.
LEMMA Layout ==
  ASSUME NEW p \in Parts, str = Bare(p)
  PROVE  /\ str \in Seq(Tokens)
         /\ Spans(0, UserAt(p), SchemeText(p)) /\ Spans(UserAt(p), HostAt(p), UserText(p))
         /\ Spans(HostAt(p), LocateAt(p), AddressText(p)) /\ Spans(LocateAt(p), endPos, LocateText(p))
<1> DEFINE a == SchemeText(p)
           b == UserText(p)
           c == AddressText(p)
           d == LocateText(p)
<1>1. a \in Seq(Tokens) /\ b \in Seq(Tokens) /\ c \in Seq(Tokens) /\ d \in Seq(Tokens)
  BY PartsTokens
<1>2. str = ((a \o b) \o c) \o d
  BY DEF Bare
<1>3. UserAt(p) = Len(a) /\ HostAt(p) = UserAt(p) + Len(b) /\ LocateAt(p) = HostAt(p) + Len(c)
  BY DEF UserAt, HostAt, LocateAt
<1> HIDE DEF a, b, c, d
<1>4. a \o b \in Seq(Tokens) /\ Len(a \o b) = Len(a) + Len(b) /\ Len(a) \in Nat
  BY <1>1, ConcatProperties
<1>5. (a \o b) \o c \in Seq(Tokens) /\ Len((a \o b) \o c) = (Len(a) + Len(b)) + Len(c)
  BY <1>1, <1>4, ConcatProperties
<1>6. str \in Seq(Tokens)
  BY <1>1, <1>2, <1>5, ConcatProperties
<1>7. Spans(0, endPos, ((a \o b) \o c) \o d)
  BY <1>2, <1>6 DEF Spans, endPos
<1>8. Spans(0, LocateAt(p), (a \o b) \o c) /\ Spans(LocateAt(p), endPos, d)
  <2>1. 0 + Len((a \o b) \o c) = LocateAt(p)
    BY <1>1, <1>3, <1>5
  <2> QED BY <1>1, <1>5, <1>6, <1>7, <2>1, SpanSplits
<1>9. Spans(0, HostAt(p), a \o b) /\ Spans(HostAt(p), LocateAt(p), c)
  <2>1. 0 + Len(a \o b) = HostAt(p)
    BY <1>1, <1>3, <1>4
  <2> QED BY <1>1, <1>4, <1>6, <1>8, <2>1, SpanSplits
<1>10. Spans(0, UserAt(p), a) /\ Spans(UserAt(p), HostAt(p), b)
  <2>1. 0 + Len(a) = UserAt(p)
    BY <1>1, <1>3
  <2> QED BY <1>1, <1>6, <1>9, <2>1, SpanSplits
<1> QED BY <1>6, <1>8, <1>9, <1>10 DEF a, b, c, d

\* The order of those places.
LEMMA Places ==
  ASSUME NEW p \in Parts, str = Bare(p)
  PROVE  /\ str \in Seq(Tokens) /\ endPos \in Nat
         /\ UserAt(p) \in Nat /\ HostAt(p) \in Nat /\ LocateAt(p) \in Nat
         /\ UserAt(p) <= HostAt(p) /\ HostAt(p) <= LocateAt(p) /\ LocateAt(p) <= endPos
         /\ (UserAt(p) = HostAt(p) <=> UserText(p) = <<>>)
         /\ Part(LocateAt(p), endPos) = LocateText(p)
<1>1. str \in Seq(Tokens)
  BY Layout
<1>2. UserText(p) \in Seq(Tokens) /\ AddressText(p) \in Seq(Tokens) /\ LocateText(p) \in Seq(Tokens)
  BY PartsTokens
<1>3. /\ UserAt(p) \in Nat /\ HostAt(p) \in Nat /\ UserAt(p) <= HostAt(p)
      /\ (UserAt(p) = HostAt(p) <=> UserText(p) = <<>>)
  BY <1>1, <1>2, Layout, SpanFacts
<1>4. LocateAt(p) \in Nat /\ HostAt(p) <= LocateAt(p)
  BY <1>1, <1>2, Layout, SpanFacts
<1>5. endPos \in Nat /\ LocateAt(p) <= endPos /\ Part(LocateAt(p), endPos) = LocateText(p)
  BY <1>1, <1>2, Layout, SpanFacts
<1> QED BY <1>1, <1>3, <1>4, <1>5

\* What the parts do not hold.
LEMMA Absent ==
  ASSUME NEW p \in Parts
  PROVE  /\ ":" \notin Range(p.username) /\ "/" \notin Range(p.username) /\ "@" \notin Range(p.username)
         /\ "/" \notin Range(p.password) /\ "@" \notin Range(p.password)
         /\ ":" \notin Range(p.hostname) /\ "/" \notin Range(p.hostname) /\ "@" \notin Range(p.hostname)
         /\ "/" \notin Range(p.port) /\ "@" \notin Range(p.port)
         /\ "?" \notin Range(p.path) /\ "#" \notin Range(p.path) /\ "#" \notin Range(p.query)
         /\ p.query = <<>> => "?" \notin Range(p.fragment)
         /\ p.username = <<>> => p.password = <<>>
         /\ p.path = <<>> => p.query = <<>> /\ p.fragment = <<>>
         /\ p.path # <<>> => p.path[1] = "/"
         /\ p.hostname # <<>>
BY PartsAssumption DEF PartsOK

\* The user name and the password, from k to the '@' at m.
LEMMA UserFound ==
  ASSUME NEW p \in Parts, str = Bare(p), p.username # <<>>
  PROVE  LET at  == HostAt(p) - 1
             sep == Colon(UserAt(p), at)
         IN  /\ at \in Nat /\ UserAt(p) <= at /\ str[at + 1] = "@"
             /\ None(UserAt(p), at, "/") /\ None(UserAt(p), at, "@")
             /\ Part(UserAt(p), sep) = p.username
             /\ IF sep # at THEN After(sep, at) = p.password ELSE p.password = <<>>
<1> DEFINE u == p.username
           w == Pre(":", p.password)
           k == UserAt(p)
           m == k + Len(u)
           at == k + Len(u \o w)
<1>1. u \in Seq(Tokens) /\ p.password \in Seq(Tokens) /\ w \in Seq(Tokens) /\ ":" \in Tokens
      /\ <<"@">> \in Seq(Tokens) /\ Len(<<"@">>) = 1 /\ <<"@">>[1] = "@" /\ <<"@">> # <<>>
  BY PartsTokens, OneToken, Delimiters
<1>2. str \in Seq(Tokens) /\ Spans(k, HostAt(p), (u \o w) \o <<"@">>)
  BY Layout DEF UserText
<1>3. u \o w \in Seq(Tokens) /\ Len(u \o w) = Len(u) + Len(w)
  BY <1>1, ConcatProperties
<1>4. Spans(k, at, u \o w) /\ Spans(at, HostAt(p), <<"@">>)
  <2> HIDE DEF u, w, k
  <2> QED BY <1>1, <1>2, <1>3, SpanSplits
<1>5. Spans(k, m, u) /\ Spans(m, at, w)
  <2> HIDE DEF u, w, k, at
  <2> QED BY <1>1, <1>2, <1>4, SpanSplits
<1>6. at + 1 = HostAt(p)
  <2>1. HostAt(p) = at + Len(<<"@">>) /\ at \in Nat
    <3> HIDE DEF at
    <3> QED BY <1>4 DEF Spans
  <2> HIDE DEF at
  <2> QED BY <1>1, <2>1
<1>7. str[at + 1] = "@"
  <2> DEFINE a == <<"@">>
  <2>1. a \in Seq(Tokens) /\ a # <<>> /\ a[1] = "@" /\ Spans(at, HostAt(p), a)
    BY <1>1, <1>4
  <2> HIDE DEF at, a
  <2>2. str[at + 1] = a[1]
    BY <1>2, <2>1, SpanFacts
  <2> QED BY <2>1, <2>2
<1>8. k \in Nat /\ m \in Nat /\ k <= m /\ m <= endPos /\ Part(k, m) = u
  <2> HIDE DEF u, k, m
  <2> QED BY <1>1, <1>2, <1>5, SpanFacts
<1>9. /\ m \in Nat /\ at \in Nat /\ m <= at /\ at <= endPos
      /\ m = at <=> p.password = <<>>
      /\ p.password # <<>> => m < at /\ str[m + 1] = ":" /\ Spans(m + 1, at, p.password)
  <2> HIDE DEF m, at
  <2> QED BY <1>1, <1>2, <1>5, SpanOfPre
<1>10. "/" \notin Range(u) /\ "@" \notin Range(u) /\ ":" \notin Range(u)
       /\ "/" \notin Range(p.password) /\ "@" \notin Range(p.password)
  BY Absent
<1> HIDE DEF u, w, k, m, at
<1>11. None(k, m, "/") /\ None(k, m, "@") /\ None(k, m, ":")
  BY <1>1, <1>2, <1>5, <1>10, SpanNone
<1>12. None(m, at, "/")
  BY <1>1, <1>2, <1>5, <1>10, PreNone DEF w
<1>13. None(m, at, "@")
  BY <1>1, <1>2, <1>5, <1>10, PreNone DEF w
<1>14. None(k, at, "/") /\ None(k, at, "@")
  BY <1>8, <1>9, <1>11, <1>12, <1>13, NoneJoins
<1>15. Colon(k, at) = m
  BY <1>1, <1>2, <1>8, <1>9, <1>11, FindsAt DEF Colon
<1>16. p.password # <<>> => After(m, at) = p.password
  <2> SUFFICES ASSUME p.password # <<>> PROVE After(m, at) = p.password
    OBVIOUS
  <2>1. Part(m + 1, at) = p.password
    BY <1>1, <1>2, <1>9, SpanFacts
  <2> QED BY <1>9, <2>1 DEF After
<1>17. at = HostAt(p) - 1 /\ k <= at
  BY <1>6, <1>8, <1>9
<1> QED BY <1>7, <1>8, <1>9, <1>14, <1>15, <1>16, <1>17 DEF k, u

\* The host name and the port.
LEMMA HostFound ==
  ASSUME NEW p \in Parts, str = Bare(p)
  PROVE  LET end == LocateAt(p)
             col == Colon(HostAt(p), end)
         IN  /\ HostAt(p) < end
             /\ None(HostAt(p), end, "/") /\ None(HostAt(p), end, "@")
             /\ Part(HostAt(p), col) = p.hostname
             /\ After(col, end) = p.port
             /\ col = end <=> p.port = <<>>
<1> DEFINE h == p.hostname
           w == Pre(":", p.port)
           k == HostAt(p)
           m == k + Len(h)
           end == LocateAt(p)
<1>1. h \in Seq(Tokens) /\ p.port \in Seq(Tokens) /\ w \in Seq(Tokens) /\ ":" \in Tokens
  BY PartsTokens, Delimiters
<1>2. str \in Seq(Tokens) /\ Spans(k, end, h \o w)
  BY Layout DEF AddressText
<1>3. Spans(k, m, h) /\ Spans(m, end, w)
  <2> HIDE DEF h, w, k, end
  <2> QED BY <1>1, <1>2, SpanSplits
<1>4. k \in Nat /\ m \in Nat /\ k <= m /\ m <= endPos /\ Part(k, m) = h /\ (k = m <=> h = <<>>)
  <2> HIDE DEF h, k, m
  <2> QED BY <1>1, <1>2, <1>3, SpanFacts
<1>5. /\ m \in Nat /\ end \in Nat /\ m <= end /\ end <= endPos
      /\ m = end <=> p.port = <<>>
      /\ p.port # <<>> => m < end /\ str[m + 1] = ":" /\ Spans(m + 1, end, p.port)
  <2> HIDE DEF m, end
  <2> QED BY <1>1, <1>2, <1>3, SpanOfPre
<1>6. h # <<>> /\ "/" \notin Range(h) /\ "@" \notin Range(h) /\ ":" \notin Range(h)
      /\ "/" \notin Range(p.port) /\ "@" \notin Range(p.port)
  BY Absent
<1> HIDE DEF h, w, k, m, end
<1>7. None(k, m, "/") /\ None(k, m, "@") /\ None(k, m, ":")
  BY <1>1, <1>2, <1>3, <1>6, SpanNone
<1>8. None(m, end, "/")
  BY <1>1, <1>2, <1>3, <1>6, PreNone DEF w
<1>9. None(m, end, "@")
  BY <1>1, <1>2, <1>3, <1>6, PreNone DEF w
<1>10. None(k, end, "/") /\ None(k, end, "@")
  BY <1>4, <1>5, <1>7, <1>8, <1>9, NoneJoins
<1>11. Colon(k, end) = m
  BY <1>1, <1>2, <1>4, <1>5, <1>7, FindsAt DEF Colon
<1>12. After(m, end) = p.port
  <2>1. ASSUME p.port # <<>> PROVE After(m, end) = p.port
    <3>1. Part(m + 1, end) = p.port
      BY <1>1, <1>2, <1>5, <2>1, SpanFacts
    <3> QED BY <1>5, <2>1, <3>1 DEF After
  <2>2. p.port = <<>> => After(m, end) = <<>>
    BY <1>5 DEF After
  <2> QED BY <2>1, <2>2
<1>13. k < end
  BY <1>4, <1>5, <1>6
<1> QED BY <1>4, <1>5, <1>10, <1>11, <1>12, <1>13 DEF k, h, end

\* Where the authority ends.
LEMMA AuthorityEnds ==
  ASSUME NEW p \in Parts, str = Bare(p)
  PROVE  Find(str, UserAt(p), endPos, <<"/">>) = LocateAt(p)
<1> DEFINE k == UserAt(p)
           h == HostAt(p)
           e == LocateAt(p)
<1>1. /\ str \in Seq(Tokens) /\ endPos \in Nat /\ k \in Nat /\ h \in Nat /\ e \in Nat
      /\ k <= h /\ h <= e /\ e <= endPos /\ (k = h <=> UserText(p) = <<>>) /\ k <= e
  <2>1. /\ str \in Seq(Tokens) /\ endPos \in Nat
        /\ UserAt(p) \in Nat /\ HostAt(p) \in Nat /\ LocateAt(p) \in Nat
        /\ UserAt(p) <= HostAt(p) /\ HostAt(p) <= LocateAt(p) /\ LocateAt(p) <= endPos
        /\ (UserAt(p) = HostAt(p) <=> UserText(p) = <<>>)
        /\ Part(LocateAt(p), endPos) = LocateText(p)
    BY Places
  <2> QED BY <2>1
<1>2. None(k, h, "/")
  <2>1. CASE p.username = <<>>
    <3>1. k = h
      BY <1>1, <2>1 DEF UserText
    <3> HIDE DEF k, h
    <3> QED BY <1>1, <3>1 DEF None
  <2>2. CASE p.username # <<>>
    <3> DEFINE at == h - 1
    <3>1. at \in Nat /\ str[at + 1] = "@" /\ None(k, at, "/")
      BY <2>2, UserFound
    <3>2. h = at + 1
      BY <1>1
    <3> HIDE DEF k, h, at
    <3>3. None(at, h, "/")
      <4> SUFFICES ASSUME NEW i \in at..(h - 1) PROVE str[i + 1] # "/"
        BY DEF None
      <4>1. i = at
        BY <3>1, <3>2
      <4> QED BY <3>1, <4>1
    <3> QED BY <1>1, <3>1, <3>3, NoneJoins
  <2> QED BY <2>1, <2>2
<1>3. None(h, e, "/")
  BY HostFound
<1>4. e = endPos \/ str[e + 1] = "/"
  <2>1. CASE p.path = <<>>
    <3>1. LocateText(p) = <<>> /\ <<>> \in Seq(Tokens)
      BY <2>1, Absent DEF LocateText, Pre
    <3>2. Spans(e, endPos, <<>>)
      BY <3>1, Layout
    <3> HIDE DEF e
    <3> QED BY <1>1, <3>1, <3>2, SpanFacts
  <2>2. CASE p.path # <<>>
    <3> DEFINE b == Pre("?", p.query) \o Pre("#", p.fragment)
    <3>1. p.path \in Seq(Tokens) /\ p.path[1] = "/" /\ Pre("?", p.query) \in Seq(Tokens)
          /\ Pre("#", p.fragment) \in Seq(Tokens)
      BY <2>2, PartsTokens, Absent
    <3>2. b \in Seq(Tokens) /\ LocateText(p) = p.path \o b
      <4>1. LocateText(p) = (p.path \o Pre("?", p.query)) \o Pre("#", p.fragment)
        BY DEF LocateText
      <4>2. b \in Seq(Tokens)
        BY <3>1, ConcatProperties
      <4>3. (p.path \o Pre("?", p.query)) \o Pre("#", p.fragment) = p.path \o b
        <5> DEFINE x == p.path
                   y == Pre("?", p.query)
                   z == Pre("#", p.fragment)
        <5>1. x \in Seq(Tokens) /\ y \in Seq(Tokens) /\ z \in Seq(Tokens)
          BY <3>1
        <5> HIDE DEF x, y, z
        <5>2. (x \o y) \o z = x \o (y \o z)
          BY <5>1, ConcatAssociative
        <5> QED BY <5>2 DEF x, y, z
      <4> QED BY <4>1, <4>2, <4>3
    <3>3. Spans(e, endPos, p.path \o b)
      BY <3>2, Layout
    <3> HIDE DEF b, e
    <3>4. Spans(e, e + Len(p.path), p.path)
      BY <1>1, <3>1, <3>2, <3>3, SpanSplits
    <3>5. str[e + 1] = p.path[1]
      <4>1. str \in Seq(Tokens) /\ p.path \in Seq(Tokens)
        BY <1>1, <3>1
      <4> QED BY <2>2, <3>4, <4>1, SpanFacts
    <3> QED BY <3>1, <3>5
  <2> QED BY <2>1, <2>2
<1> HIDE DEF k, h, e
<1>5. None(k, e, "/")
  BY <1>1, <1>2, <1>3, NoneJoins
<1>6. endPos <= endPos /\ "/" \in Tokens
  BY <1>1, Delimiters
<1>7. Find(str, k, endPos, <<"/">>) = e
  BY <1>1, <1>4, <1>5, <1>6, FindsAt
<1> QED BY <1>7 DEF k, e

\* Where the user name and the password end.
LEMMA UserEnds ==
  ASSUME NEW p \in Parts, str = Bare(p)
  PROVE  Find(str, UserAt(p), LocateAt(p), <<"@">>) =
           IF p.username = <<>> THEN LocateAt(p) ELSE HostAt(p) - 1
<1> DEFINE k == UserAt(p)
           h == HostAt(p)
           e == LocateAt(p)
<1>1. /\ str \in Seq(Tokens) /\ endPos \in Nat /\ k \in Nat /\ h \in Nat /\ e \in Nat
      /\ k <= h /\ h <= e /\ e <= endPos /\ (k = h <=> UserText(p) = <<>>) /\ k <= e
  <2>1. /\ str \in Seq(Tokens) /\ endPos \in Nat
        /\ UserAt(p) \in Nat /\ HostAt(p) \in Nat /\ LocateAt(p) \in Nat
        /\ UserAt(p) <= HostAt(p) /\ HostAt(p) <= LocateAt(p) /\ LocateAt(p) <= endPos
        /\ (UserAt(p) = HostAt(p) <=> UserText(p) = <<>>)
        /\ Part(LocateAt(p), endPos) = LocateText(p)
    BY Places
  <2> QED BY <2>1
<1>2. "@" \in Tokens
  BY Delimiters
<1>3. CASE p.username = <<>>
  <2>1. k = h
    BY <1>1, <1>3 DEF UserText
  <2>2. None(h, e, "@")
    BY HostFound
  <2> HIDE DEF k, h, e
  <2>3. Find(str, k, e, <<"@">>) = e
    BY <1>1, <1>2, <2>1, <2>2, FindsAt
  <2> QED BY <1>3, <2>3 DEF k, e
<1>4. CASE p.username # <<>>
  <2> DEFINE at == h - 1
  <2>1. at \in Nat /\ k <= at /\ str[at + 1] = "@" /\ None(k, at, "@")
    BY <1>4, UserFound
  <2>2. at <= e
    BY <1>1
  <2> HIDE DEF k, e, at
  <2>3. Find(str, k, e, <<"@">>) = at
    BY <1>1, <1>2, <2>1, <2>2, FindsAt
  <2> QED BY <1>4, <2>3 DEF k, h, e, at
<1> QED BY <1>3, <1>4

\* The path, the query and the fragment.
LEMMA LocateLayout ==
  ASSUME NEW p \in Parts, str = Bare(p)
  PROVE  /\ Spans(LocateAt(p), QueryAt(p), p.path) /\ Spans(QueryAt(p), FragAt(p), Pre("?", p.query))
         /\ Spans(FragAt(p), endPos, Pre("#", p.fragment))
<1> DEFINE a == p.path
           b == Pre("?", p.query)
           c == Pre("#", p.fragment)
           k == LocateAt(p)
<1>1. a \in Seq(Tokens) /\ b \in Seq(Tokens) /\ c \in Seq(Tokens)
  BY PartsTokens
<1>2. str \in Seq(Tokens) /\ Spans(k, endPos, (a \o b) \o c) /\ k \in Nat
  BY Layout, Places DEF LocateText
<1>3. QueryAt(p) = k + Len(a) /\ FragAt(p) = QueryAt(p) + Len(b)
  BY DEF QueryAt, FragAt
<1> HIDE DEF a, b, c, k
<1>4. a \o b \in Seq(Tokens) /\ Len(a \o b) = Len(a) + Len(b) /\ Len(a) \in Nat /\ Len(b) \in Nat
  BY <1>1, ConcatProperties
<1>5. k + Len(a \o b) = FragAt(p)
  BY <1>2, <1>3, <1>4
<1>6. Spans(k, FragAt(p), a \o b) /\ Spans(FragAt(p), endPos, c)
  BY <1>1, <1>2, <1>4, <1>5, SpanSplits
<1>7. Spans(k, QueryAt(p), a) /\ Spans(QueryAt(p), FragAt(p), b)
  BY <1>1, <1>2, <1>3, <1>6, SpanSplits
<1> QED BY <1>6, <1>7 DEF a, b, c, k

\* What stands in those three places, and where a '?' or '#' is not.
LEMMA LocateFound ==
  ASSUME NEW p \in Parts, str = Bare(p)
  PROVE  /\ QueryAt(p) \in Nat /\ FragAt(p) \in Nat
         /\ LocateAt(p) <= QueryAt(p) /\ QueryAt(p) <= FragAt(p) /\ FragAt(p) <= endPos
         /\ (LocateAt(p) = QueryAt(p) <=> p.path = <<>>)
         /\ (QueryAt(p) = FragAt(p) <=> p.query = <<>>)
         /\ (FragAt(p) = endPos <=> p.fragment = <<>>)
         /\ Part(LocateAt(p), QueryAt(p)) = p.path
         /\ p.query # <<>> => /\ QueryAt(p) + 1 <= FragAt(p) /\ str[QueryAt(p) + 1] = "?"
                              /\ Part(QueryAt(p) + 1, FragAt(p)) = p.query
                              /\ None(QueryAt(p) + 1, FragAt(p), "#")
         /\ p.fragment # <<>> => FragAt(p) < endPos /\ str[FragAt(p) + 1] = "#" /\ Part(FragAt(p) + 1, endPos) = p.fragment
         /\ None(LocateAt(p), QueryAt(p), "?") /\ None(LocateAt(p), QueryAt(p), "#")
         /\ p.query = <<>> => None(FragAt(p), endPos, "?")
<1> DEFINE k == LocateAt(p)
           q == QueryAt(p)
           f == FragAt(p)
<1>1. str \in Seq(Tokens) /\ p.path \in Seq(Tokens) /\ p.query \in Seq(Tokens) /\ p.fragment \in Seq(Tokens)
      /\ "?" \in Tokens /\ "#" \in Tokens
  BY Places, PartsTokens, Delimiters
<1>2. Spans(k, q, p.path) /\ Spans(q, f, Pre("?", p.query)) /\ Spans(f, endPos, Pre("#", p.fragment))
  BY LocateLayout
<1>3. "?" \notin Range(p.path) /\ "#" \notin Range(p.path) /\ "#" \notin Range(p.query)
      /\ (p.query = <<>> => "?" \notin Range(p.fragment))
  BY Absent
<1> HIDE DEF k, q, f
<1>4. k \in Nat /\ q \in Nat /\ k <= q /\ Part(k, q) = p.path /\ (k = q <=> p.path = <<>>)
  BY <1>1, <1>2, SpanFacts
<1>5. /\ q \in Nat /\ f \in Nat /\ q <= f /\ f <= endPos
      /\ q = f <=> p.query = <<>>
      /\ p.query # <<>> => q < f /\ str[q + 1] = "?" /\ Spans(q + 1, f, p.query)
  BY <1>1, <1>2, SpanOfPre
<1>6. /\ f \in Nat /\ endPos \in Nat /\ f <= endPos /\ endPos <= endPos
      /\ f = endPos <=> p.fragment = <<>>
      /\ p.fragment # <<>> => f < endPos /\ str[f + 1] = "#" /\ Spans(f + 1, endPos, p.fragment)
  BY <1>1, <1>2, SpanOfPre
<1>7. ASSUME p.query # <<>>
      PROVE  q + 1 <= f /\ str[q + 1] = "?" /\ Part(q + 1, f) = p.query /\ None(q + 1, f, "#")
  <2>1. str[q + 1] = "?" /\ Spans(q + 1, f, p.query)
    BY <1>5, <1>7
  <2>2. q + 1 <= f /\ Part(q + 1, f) = p.query
    BY <1>1, <2>1, SpanFacts
  <2>3. None(q + 1, f, "#")
    BY <1>1, <1>3, <2>1, SpanNone
  <2> QED BY <2>1, <2>2, <2>3
<1>8. ASSUME p.fragment # <<>>
      PROVE  f < endPos /\ str[f + 1] = "#" /\ Part(f + 1, endPos) = p.fragment
  <2>1. f < endPos /\ str[f + 1] = "#" /\ Spans(f + 1, endPos, p.fragment)
    BY <1>6, <1>8
  <2>2. Part(f + 1, endPos) = p.fragment
    BY <1>1, <2>1, SpanFacts
  <2> QED BY <2>1, <2>2
<1>9. None(k, q, "?") /\ None(k, q, "#")
  BY <1>1, <1>2, <1>3, SpanNone
<1>10. p.query = <<>> => None(f, endPos, "?")
  BY <1>1, <1>2, <1>3, PreNone
<1> QED BY <1>4, <1>5, <1>6, <1>7, <1>8, <1>9, <1>10 DEF k, q, f

\* The turn for the path ends where the path does.
LEMMA PathEnds ==
  ASSUME NEW p \in Parts, str = Bare(p), beginPos = LocateAt(p)
  PROVE  PathEnd = QueryAt(p)
<1> DEFINE k == LocateAt(p)
           q == QueryAt(p)
           f == FragAt(p)
<1>1. str \in Seq(Tokens) /\ endPos \in Nat /\ k \in Nat
  BY Places
<1>2. /\ q \in Nat /\ f \in Nat /\ k <= q /\ q <= f /\ f <= endPos
      /\ (q = f <=> p.query = <<>>)
      /\ (p.query # <<>> => q + 1 <= f /\ str[q + 1] = "?")
      /\ (f = endPos <=> p.fragment = <<>>)
      /\ (p.fragment # <<>> => str[f + 1] = "#")
      /\ None(k, q, "?") /\ None(k, q, "#")
      /\ (p.query = <<>> => None(f, endPos, "?"))
  BY LocateFound
<1>3. "?" \in Tokens /\ "#" \in Tokens
  BY Delimiters
<1>4. PathEnd = LET query == Find(str, k, endPos, <<"?">>)
                IN  IF query = endPos THEN Find(str, k, endPos, <<"#">>) ELSE query
  BY DEF PathEnd
<1> HIDE DEF k, q, f
<1>5. q <= endPos /\ k <= endPos /\ endPos <= endPos
  BY <1>1, <1>2
<1>6. CASE p.query # <<>>
  <2>1. Find(str, k, endPos, <<"?">>) = q
    BY <1>1, <1>2, <1>3, <1>5, <1>6, FindsAt
  <2>2. q # endPos
    BY <1>1, <1>2, <1>6
  <2> QED BY <1>4, <2>1, <2>2 DEF q
<1>7. CASE p.query = <<>>
  <2>1. q = f
    BY <1>2, <1>7
  <2>2. None(k, endPos, "?")
    <3>1. None(q, endPos, "?")
      BY <1>2, <1>7, <2>1
    <3> QED BY <1>1, <1>2, <3>1, NoneJoins
  <2>3. Find(str, k, endPos, <<"?">>) = endPos
    BY <1>1, <1>3, <1>5, <2>2, FindsAt
  <2>4. q = endPos \/ str[q + 1] = "#"
    BY <1>2, <2>1
  <2>5. Find(str, k, endPos, <<"#">>) = q
    BY <1>1, <1>2, <1>3, <1>5, <2>4, FindsAt
  <2> QED BY <1>4, <2>3, <2>5 DEF q
<1> QED BY <1>6, <1>7

\* The turn for the query ends where the query does.
LEMMA QueryEnds ==
  ASSUME NEW p \in Parts, str = Bare(p), p.query # <<>>
  PROVE  Find(str, QueryAt(p) + 1, endPos, <<"#">>) = FragAt(p)
<1> DEFINE q == QueryAt(p) + 1
           f == FragAt(p)
<1>1. str \in Seq(Tokens) /\ endPos \in Nat
  BY Places
<1>2. /\ QueryAt(p) \in Nat /\ f \in Nat /\ q <= f /\ f <= endPos /\ None(q, f, "#")
      /\ (f = endPos <=> p.fragment = <<>>)
      /\ (p.fragment # <<>> => str[f + 1] = "#")
  BY LocateFound
<1>3. q \in Nat
  BY <1>2
<1>4. "#" \in Tokens /\ endPos <= endPos
  BY <1>1, Delimiters
<1> HIDE DEF q, f
<1>5. f = endPos \/ str[f + 1] = "#"
  BY <1>2
<1>6. Find(str, q, endPos, <<"#">>) = f
  BY <1>1, <1>2, <1>3, <1>4, <1>5, FindsAt
<1> QED BY <1>6 DEF q, f

\* What find() compares to "://".
LEMMA StartsElementwise ==
  ASSUME str \in Seq(Tokens), NEW i \in Nat, NEW j \in 1..3, i + j <= endPos
  PROVE  SubSeq(str, i + 1, i + j) = SubSeq(<<":", "/", "/">>, 1, j)
           <=> /\ str[i + 1] = ":"
               /\ j >= 2 => str[i + 2] = "/"
               /\ j >= 3 => str[i + 3] = "/"
<1> DEFINE sub == <<":", "/", "/">>
           a == Part(i, i + j)
           b == SubSeq(sub, 1, j)
<1>1. sub \in Seq(Tokens) /\ Len(sub) = 3 /\ sub[1] = ":" /\ sub[2] = "/" /\ sub[3] = "/"
  BY Delimiters
<1>2. a \in Seq(Tokens) /\ Len(a) = j /\ \A m \in 1..j : a[m] = str[i + m]
  <2>1. i + j \in Nat /\ i <= i + j /\ (i + j) - i = j
    OBVIOUS
  <2> QED BY <2>1, PartFacts
<1> HIDE DEF sub, a
<1>3. b \in Seq(Tokens) /\ Len(b) = j /\ \A m \in 1..j : b[m] = sub[m]
  <2>1. \A m \in 1..j : sub[m] \in Tokens
    <3>1. \A m \in 1..j : m \in 1..Len(sub)
      BY <1>1
    <3> QED BY <1>1, <3>1, ElementOfSeq
  <2>2. 1 \in Int /\ j \in Int
    OBVIOUS
  <2> HIDE DEF b
  <2>3. /\ b \in Seq(Tokens)
        /\ Len(b) = IF 1 <= j THEN j - 1 + 1 ELSE 0
        /\ \A m \in 1..(j - 1 + 1) : b[m] = sub[1 + m - 1]
    BY <2>1, <2>2, SubSeqProperties DEF b
  <2>4. j - 1 + 1 = j /\ 1 <= j /\ \A m \in 1..j : 1 + m - 1 = m
    OBVIOUS
  <2> QED BY <2>3, <2>4
<1> HIDE DEF b
<1>4. a = b <=> \A m \in 1..j : str[i + m] = sub[m]
  <2>1. (\A m \in 1..j : str[i + m] = sub[m]) => a = b
    <3> SUFFICES ASSUME \A m \in 1..j : str[i + m] = sub[m] PROVE a = b
      OBVIOUS
    <3>1. \A m \in 1..j : a[m] = b[m]
      BY <1>2, <1>3
    <3> QED BY <1>2, <1>3, <3>1, SeqEqual
  <2>2. a = b => \A m \in 1..j : str[i + m] = sub[m]
    BY <1>2, <1>3
  <2> QED BY <2>1, <2>2
<1>5. (\A m \in 1..j : str[i + m] = sub[m])
        <=> /\ str[i + 1] = ":"
            /\ j >= 2 => str[i + 2] = "/"
            /\ j >= 3 => str[i + 3] = "/"
  <2>1. j = 1 \/ j = 2 \/ j = 3
    OBVIOUS
  <2> QED BY <1>1, <2>1
<1> QED BY <1>4, <1>5 DEF a, b, sub, Part

\* A text without "://".
LEMMA NoSepFound ==
  ASSUME str \in Seq(Tokens), NoSeparator(str)
  PROVE  Find(str, 0, endPos, <<":", "/", "/">>) = endPos
<1> DEFINE sub == <<":", "/", "/">>
           starts(i, j) == i + j <= Len(str) /\ SubSeq(str, i + 1, i + j) = SubSeq(sub, 1, j)
           cut(i) == \E j \in 1..(Len(sub) - 1) : starts(i, j) /\ i + j >= endPos - 0
           hits == {i \in 0..(endPos - 1) : starts(i, Len(sub)) \/ cut(i)}
<1>1. Find(str, 0, endPos, sub) = IF hits = {} THEN endPos ELSE IF cut(Min(hits)) THEN 0 ELSE Min(hits)
  BY DEF Find
<1>2. endPos \in Nat /\ Len(sub) = 3 /\ endPos = Len(str) /\ DOMAIN str = 1..endPos
  BY DEF endPos
<1>3. \A i \in 1..endPos : str[i] = ":" => i + 1 <= endPos /\ (str[i + 1] = "/" => i + 2 <= endPos /\ str[i + 2] # "/")
  <2>1. DOMAIN str = 1..endPos
    BY <1>2
  <2> SUFFICES ASSUME NEW i \in 1..endPos, str[i] = ":"
               PROVE  i + 1 <= endPos /\ (str[i + 1] = "/" => i + 2 <= endPos /\ str[i + 2] # "/")
    OBVIOUS
  <2>2. i \in DOMAIN str
    BY <2>1
  <2>3. i + 1 \in DOMAIN str /\ (str[i + 1] = "/" => i + 2 \in DOMAIN str /\ str[i + 2] # "/")
    BY <2>2 DEF NoSeparator
  <2> QED BY <1>2, <2>1, <2>3
<1>4. ASSUME NEW i \in 0..(endPos - 1), starts(i, 3) PROVE FALSE
  <2>1. i + 3 <= endPos /\ SubSeq(str, i + 1, i + 3) = SubSeq(sub, 1, 3) /\ i \in Nat /\ 3 \in 1..3
    BY <1>2, <1>4
  <2>2. str[i + 1] = ":" /\ str[i + 2] = "/" /\ str[i + 3] = "/"
    BY <2>1, StartsElementwise
  <2>3. i + 1 \in 1..endPos /\ i + 1 + 1 = i + 2 /\ i + 1 + 2 = i + 3
    BY <1>2
  <2> QED BY <1>3, <2>2, <2>3
<1>5. ASSUME NEW i \in 0..(endPos - 1), cut(i) PROVE FALSE
  <2>1. PICK j \in 1..2 : starts(i, j) /\ i + j >= endPos - 0
    BY <1>2, <1>5
  <2>2. i + j = endPos /\ i + j <= endPos /\ SubSeq(str, i + 1, i + j) = SubSeq(sub, 1, j) /\ i \in Nat /\ j \in 1..3
    BY <1>2, <2>1
  <2>3. str[i + 1] = ":" /\ (j >= 2 => str[i + 2] = "/")
    BY <2>2, StartsElementwise
  <2>4. i + 1 \in 1..endPos /\ i + 1 + 1 = i + 2 /\ i + 1 + 2 = i + 3 /\ (j = 1 \/ j = 2)
    BY <1>2
  <2> HIDE DEF starts, sub
  <2> QED BY <1>2, <1>3, <2>2, <2>3, <2>4
<1>6. hits = {}
  <2>1. hits = {i \in 0..(endPos - 1) : starts(i, 3) \/ cut(i)}
    BY <1>2
  <2> HIDE DEF starts, cut, hits, sub
  <2> QED BY <1>4, <1>5, <2>1
<1> HIDE DEF hits, cut
<1> QED BY <1>1, <1>6

\* A text that starts with a token and "://", and goes on.
LEMMA SepFound ==
  ASSUME str \in Seq(Tokens), endPos > 4, str[1] # ":", str[2] = ":", str[3] = "/", str[4] = "/"
  PROVE  Find(str, 0, endPos, <<":", "/", "/">>) = 1
<1> DEFINE sub == <<":", "/", "/">>
           starts(i, j) == i + j <= Len(str) /\ SubSeq(str, i + 1, i + j) = SubSeq(sub, 1, j)
           cut(i) == \E j \in 1..(Len(sub) - 1) : starts(i, j) /\ i + j >= endPos - 0
           hits == {i \in 0..(endPos - 1) : starts(i, Len(sub)) \/ cut(i)}
<1>1. Find(str, 0, endPos, sub) = IF hits = {} THEN endPos ELSE IF cut(Min(hits)) THEN 0 ELSE Min(hits)
  BY DEF Find
<1>2. endPos \in Nat /\ Len(sub) = 3 /\ endPos = Len(str)
  BY DEF endPos
<1>3. ~cut(0) /\ ~cut(1)
  BY <1>2
<1>4. ~starts(0, 3)
  <2>1. 0 \in Nat /\ 3 \in 1..3 /\ 0 + 3 <= endPos /\ str[0 + 1] # ":"
    BY <1>2
  <2>2. ~(SubSeq(str, 0 + 1, 0 + 3) = SubSeq(sub, 1, 3))
    BY <2>1, StartsElementwise
  <2> QED BY <2>2
<1>5. starts(1, 3)
  <2>1. 1 \in Nat /\ 3 \in 1..3 /\ 1 + 3 <= endPos
        /\ str[1 + 1] = ":" /\ str[1 + 2] = "/" /\ str[1 + 3] = "/"
    BY <1>2
  <2>2. SubSeq(str, 1 + 1, 1 + 3) = SubSeq(sub, 1, 3)
    BY <2>1, StartsElementwise
  <2> QED BY <1>2, <2>1, <2>2
<1>6. hits = {i \in 0..(endPos - 1) : starts(i, 3) \/ cut(i)}
  BY <1>2
<1> HIDE DEF hits, cut, starts
<1>7. hits \subseteq Nat /\ 1 \in hits /\ 0 \notin hits
  BY <1>2, <1>3, <1>4, <1>5, <1>6
<1>8. Min(hits) = 1
  <2> DEFINE m == Min(hits)
  <2>1. m \in hits /\ \A k \in hits : m <= k
    BY <1>7, MinOf
  <2> HIDE DEF m
  <2>2. m \in Nat /\ m # 0 /\ m <= 1
    BY <1>7, <2>1
  <2> QED BY <2>2 DEF m
<1> QED BY <1>1, <1>3, <1>7, <1>8

\* A text that starts with the scheme mailto.
LEMMA MailtoIsPrefix ==
  ASSUME str \in Seq(Tokens), endPos >= 2, str[1] = "mailto", str[2] = ":"
  PROVE  IsPrefix(<<"mailto", ":">>, str)
<1> DEFINE a == <<"mailto", ":">>
           b == Part(0, 2)
<1>1. a \in Seq(Tokens) /\ Len(a) = 2 /\ a[1] = "mailto" /\ a[2] = ":" /\ Len(str) = endPos
  BY UrlAssumption DEF endPos
<1>2. b \in Seq(Tokens) /\ Len(b) = 2 /\ \A i \in 1..2 : b[i] = str[0 + i]
  <2>1. 0 \in Nat /\ 2 \in Nat /\ 0 <= 2 /\ 2 <= endPos /\ 2 - 0 = 2
    OBVIOUS
  <2> QED BY <2>1, PartFacts
<1> HIDE DEF a, b
<1>3. a = b
  <2>1. \A i \in 1..Len(a) : a[i] = b[i]
    <3>1. b[1] = str[1] /\ b[2] = str[2]
      BY <1>2
    <3>2. \A i \in 1..Len(a) : i = 1 \/ i = 2
      BY <1>1
    <3> QED BY <1>1, <3>1, <3>2
  <2> QED BY <1>1, <1>2, <2>1, SeqEqual
<1>4. SubSeq(a, 1, 2) = a
  BY <1>1, SubSeqFull
<1>5. SubSeq(a, 1, Len(a)) = SubSeq(str, 1, Len(a)) /\ Len(a) <= Len(str)
  BY <1>1, <1>3, <1>4 DEF b, Part
<1> QED BY <1>5 DEF IsPrefix, a

\* What the turn for the scheme finds, for the three ways to write it.
LEMMA SchemeFound ==
  ASSUME NEW p \in Parts, str = Bare(p)
  PROVE  LET sep   == Find(str, 0, endPos, <<":", "/", "/">>)
             colon == Find(str, 0, endPos, <<":">>)
         IN  \/ /\ p.scheme = "none" /\ UserAt(p) = 0
                /\ sep = endPos /\ (colon # endPos => mapProtocolType(Part(0, colon)) # "mailto")
             \/ /\ p.scheme = "mailto" /\ UserAt(p) = colon + 1
                /\ sep = endPos /\ colon # endPos /\ mapProtocolType(Part(0, colon)) = "mailto"
             \/ /\ p.scheme # "none" /\ UserAt(p) = sep + 3
                /\ sep # endPos /\ mapProtocolType(Part(0, sep)) = p.scheme
<1> DEFINE sep   == Find(str, 0, endPos, <<":", "/", "/">>)
           colon == Find(str, 0, endPos, <<":">>)
<1>1. /\ str \in Seq(Tokens) /\ endPos \in Nat /\ UserAt(p) \in Nat /\ UserAt(p) < endPos
      /\ Spans(0, UserAt(p), SchemeText(p))
  <2>1. /\ str \in Seq(Tokens) /\ endPos \in Nat /\ UserAt(p) \in Nat /\ HostAt(p) \in Nat /\ LocateAt(p) \in Nat
        /\ UserAt(p) <= HostAt(p) /\ LocateAt(p) <= endPos
    BY Places
  <2>2. HostAt(p) < LocateAt(p)
    BY HostFound
  <2>3. UserAt(p) < endPos
    BY ONLY <2>1, <2>2
  <2> QED BY <2>1, <2>3, Layout
<1>2. /\ p.scheme \in Schemes \cup {"none"}
      /\ p.scheme \in {"none", "mailto"} => NoSeparator(str)
      /\ p.scheme = "none" => ~IsPrefix(<<"mailto", ":">>, str)
  BY PartsAssumption DEF PartsOK
<1>3. ":" \in Tokens /\ "mailto" \in Tokens /\ "mailto" \in Schemes /\ ":" \notin Schemes /\ "none" \notin Schemes
  BY UrlAssumption DEF Schemes
<1>4. p.scheme \in {"none", "mailto"} => sep = endPos
  BY <1>1, <1>2, NoSepFound
<1>5. /\ colon \in Nat /\ colon <= endPos /\ (colon # endPos => colon < endPos /\ str[colon + 1] = ":")
  <2> DEFINE z == 0
             n == endPos
             c == ":"
  <2>1. z \in Nat /\ n \in Nat /\ z <= n /\ n <= endPos /\ c \in Tokens /\ str \in Seq(Tokens)
    BY <1>1, <1>3
  <2>2. colon = Find(str, z, n, <<c>>)
    OBVIOUS
  <2> HIDE DEF z, c, n, colon
  <2>3. colon \in Nat /\ colon <= n /\ (colon # n => colon < n /\ str[colon + 1] = c)
    BY <2>1, <2>2, FindOne
  <2> QED BY <2>3 DEF c, n
<1>6. ASSUME p.scheme = "none"
      PROVE  /\ UserAt(p) = 0 /\ (colon # endPos => mapProtocolType(Part(0, colon)) # "mailto")
  <2>1. UserAt(p) = 0
    BY <1>6 DEF UserAt, SchemeText
  <2> SUFFICES ASSUME colon # endPos, mapProtocolType(Part(0, colon)) = "mailto" PROVE FALSE
    BY <2>1
  <2> HIDE DEF sep, colon
  <2>2. Len(Part(0, colon)) = 1 /\ Part(0, colon)[1] = "mailto"
    BY DEF mapProtocolType
  <2>3. Len(Part(0, colon)) = colon - 0 /\ \A i \in 1..(colon - 0) : Part(0, colon)[i] = str[0 + i]
    <3>1. 0 \in Nat /\ 0 <= colon
      BY <1>5
    <3> QED BY <1>1, <1>5, <3>1, PartFacts
  <2>4. colon = 1
    BY <1>5, <2>2, <2>3
  <2>5. str[1] = "mailto" /\ str[2] = ":" /\ endPos >= 2
    BY <1>1, <1>5, <2>2, <2>3, <2>4
  <2> QED BY <1>1, <1>2, <1>6, <2>5, MailtoIsPrefix
<1>7. ASSUME p.scheme = "mailto"
      PROVE  UserAt(p) = colon + 1 /\ colon # endPos /\ mapProtocolType(Part(0, colon)) = "mailto"
  <2> DEFINE a == <<"mailto", ":">>
  <2>1. SchemeText(p) = a /\ Len(a) = 2 /\ a[1] = "mailto" /\ a[2] = ":"
    BY <1>7 DEF SchemeText
  <2>2. UserAt(p) = 2 /\ str[1] = "mailto" /\ str[2] = ":"
    <3>1. UserAt(p) = 2
      BY <2>1 DEF UserAt
    <3>2. \A i \in 1..2 : str[0 + i] = a[i]
      BY <1>1, <2>1 DEF Spans
    <3> HIDE DEF a
    <3>3. str[0 + 1] = a[1] /\ str[0 + 2] = a[2]
      BY <3>2
    <3> QED BY <2>1, <3>1, <3>3
  <2>3. colon = 1
    <3>1. None(0, 1, ":")
      <4>1. \A i \in 0..(1 - 1) : i = 0
        OBVIOUS
      <4> QED BY <2>2, <4>1 DEF None
    <3>2. 0 \in Nat /\ 1 \in Nat /\ endPos \in Nat /\ endPos <= endPos /\ 0 <= 1 /\ 1 <= endPos /\ str[1 + 1] = ":"
      BY <1>1, <2>2
    <3> QED BY <1>1, <1>3, <3>1, <3>2, FindsAt
  <2> HIDE DEF colon
  <2>4. Len(Part(0, 1)) = 1 /\ Part(0, 1)[1] = "mailto"
    <3>1. 0 \in Nat /\ 1 \in Nat /\ 0 <= 1 /\ 1 <= endPos /\ 1 - 0 = 1
      BY <1>1, <2>2
    <3>2. Len(Part(0, 1)) = 1 /\ \A i \in 1..1 : Part(0, 1)[i] = str[0 + i]
      BY <1>1, <3>1, PartFacts
    <3> QED BY <2>2, <3>2
  <2>5. mapProtocolType(Part(0, colon)) = "mailto"
    BY <1>3, <2>3, <2>4 DEF mapProtocolType
  <2> QED BY <1>1, <2>2, <2>3, <2>5
<1>8. ASSUME p.scheme \in Schemes, p.scheme # "mailto"
      PROVE  p.scheme # "none" /\ UserAt(p) = sep + 3 /\ sep # endPos /\ mapProtocolType(Part(0, sep)) = p.scheme
  <2> DEFINE a == <<p.scheme, ":", "/", "/">>
  <2>0. p.scheme # "none"
    BY <1>3, <1>8
  <2>1. SchemeText(p) = a /\ Len(a) = 4 /\ a[1] = p.scheme /\ a[2] = ":" /\ a[3] = "/" /\ a[4] = "/"
    BY <1>8, <2>0 DEF SchemeText
  <2>2. UserAt(p) = 4 /\ str[1] = p.scheme /\ str[2] = ":" /\ str[3] = "/" /\ str[4] = "/"
    <3>1. UserAt(p) = 4
      BY <2>1 DEF UserAt
    <3>2. \A i \in 1..4 : str[0 + i] = a[i]
      BY <1>1, <2>1 DEF Spans
    <3> HIDE DEF a
    <3>3. str[0 + 1] = a[1] /\ str[0 + 2] = a[2] /\ str[0 + 3] = a[3] /\ str[0 + 4] = a[4]
      BY <3>2
    <3> QED BY <2>1, <3>1, <3>3
  <2>3. sep = 1
    <3>1. endPos > 4 /\ str[1] # ":"
      BY <1>1, <1>3, <1>8, <2>2
    <3> QED BY <1>1, <2>2, <3>1, SepFound
  <2> HIDE DEF sep
  <2>4. Len(Part(0, 1)) = 1 /\ Part(0, 1)[1] = p.scheme
    <3>1. 0 \in Nat /\ 1 \in Nat /\ 0 <= 1 /\ 1 <= endPos /\ 1 - 0 = 1
      BY <1>1, <2>2
    <3>2. Len(Part(0, 1)) = 1 /\ \A i \in 1..1 : Part(0, 1)[i] = str[0 + i]
      BY <1>1, <3>1, PartFacts
    <3> QED BY <2>2, <3>2
  <2>5. mapProtocolType(Part(0, sep)) = p.scheme
    BY <1>8, <2>3, <2>4 DEF mapProtocolType
  <2> QED BY <1>1, <2>0, <2>2, <2>3, <2>5
<1> HIDE DEF sep, colon
<1>9. p.scheme = "none" \/ p.scheme = "mailto" \/ (p.scheme \in Schemes /\ p.scheme # "mailto")
  BY <1>2
<1> QED BY <1>4, <1>6, <1>7, <1>8, <1>9 DEF sep, colon

\* Removal of what stands around a text and not in it leaves the text.
LEMMA DroppedAround ==
  ASSUME NEW U, NEW a \in Seq(U), NEW m \in Seq(U), NEW b \in Seq(U), NEW S,
         \A i \in 1..Len(a) : a[i] \in S, \A i \in 1..Len(b) : b[i] \in S,
         \A i \in 1..Len(m) : m[i] \notin S
  PROVE  Dropped((a \o m) \o b, S) = m
<1> DEFINE list == (a \o m) \o b
           d == Kept(list, S)
           x == Len(a)
           y == Len(a) + Len(m)
           n == Len(list)
           Good(i) == /\ i <= x => d[i] = <<>>
                      /\ x <= i /\ i <= y => d[i] = SubSeq(m, 1, i - x)
                      /\ y <= i => d[i] = m
           T == {i \in 0..n : ~Good(i)}
<1>1. a \o m \in Seq(U) /\ Len(a \o m) = y /\ x \in Nat /\ y \in Nat /\ x <= y /\ Len(m) \in Nat /\ Len(b) \in Nat
      /\ \A i \in 1..y : (a \o m)[i] = IF i <= x THEN a[i] ELSE m[i - x]
  BY ConcatProperties
<1>2. list \in Seq(U) /\ n = y + Len(b) /\ n \in Nat
      /\ \A i \in 1..n : list[i] = IF i <= y THEN (a \o m)[i] ELSE b[i - y]
  <2> DEFINE c == a \o m
  <2>1. c \in Seq(U) /\ Len(c) = y /\ list = c \o b
    BY <1>1
  <2> HIDE DEF c, list, y
  <2>2. list \in Seq(U) /\ Len(list) = y + Len(b)
        /\ \A i \in 1..(y + Len(b)) : list[i] = IF i <= y THEN c[i] ELSE b[i - y]
    BY <2>1, ConcatProperties
  <2> QED BY <1>1, <2>2 DEF c
<1>3. \A i \in 1..n : /\ i <= x => list[i] \in S
                      /\ x < i /\ i <= y => list[i] = m[i - x] /\ list[i] \notin S
                      /\ y < i => list[i] \in S
  <2> SUFFICES ASSUME NEW i \in 1..n
               PROVE  /\ i <= x => list[i] \in S
                      /\ x < i /\ i <= y => list[i] = m[i - x] /\ list[i] \notin S
                      /\ y < i => list[i] \in S
    OBVIOUS
  <2> DEFINE c == a \o m
  <2>1. list[i] = IF i <= y THEN c[i] ELSE b[i - y]
    BY <1>2
  <2>2. i <= y => c[i] = IF i <= x THEN a[i] ELSE m[i - x]
    BY <1>1
  <2>3. /\ i <= x => i \in 1..Len(a)
        /\ x < i /\ i <= y => i - x \in 1..Len(m)
        /\ y < i => i - y \in 1..Len(b)
    BY <1>1, <1>2
  <2>4. i <= x => i <= y
    BY <1>1
  <2>5. y < i => ~(i <= y)
    BY <1>1
  <2>6. x < i => ~(i <= x)
    BY <1>1
  <2> HIDE DEF list, x, y, n, c
  <2>7. i <= x => list[i] \in S
    BY <2>1, <2>2, <2>3, <2>4
  <2>8. x < i /\ i <= y => list[i] = m[i - x] /\ list[i] \notin S
    BY <2>1, <2>2, <2>3, <2>6
  <2>9. y < i => list[i] \in S
    BY <2>1, <2>3, <2>5
  <2> QED BY <2>7, <2>8, <2>9
<1>4. /\ d[0] = <<>>
      /\ \A i \in 1..n : d[i] = IF list[i] \in S THEN d[i - 1] ELSE Append(d[i - 1], list[i])
  <2>1. list \in Seq(U)
    BY <1>2
  <2> HIDE DEF list
  <2> QED BY <2>1, KeptUnfolds
<1>5. SubSeq(m, 1, 0) = <<>> /\ (Len(m) = 0 => m = <<>>) /\ SubSeq(m, 1, Len(m)) = m
  BY SubSeqEmpty, SubSeqFull, EmptySeq
<1>6. y - x = Len(m) /\ x - x = 0
  BY <1>1
<1> HIDE DEF list, d, x, y, n
<1>7. Good(0)
  BY <1>1, <1>4, <1>5, <1>6
<1>8. ASSUME NEW i \in 1..n, Good(i - 1) PROVE Good(i)
  <2>0. i \in Nat /\ i >= 1
    BY <1>2
  <2>1. CASE i <= x
    <3>1. d[i] = <<>>
      BY <1>1, <1>3, <1>4, <1>8, <2>0, <2>1
    <3>2. x <= i => i - x = 0
      BY <1>1, <2>0, <2>1
    <3>3. y <= i => Len(m) = 0
      BY <1>1, <1>6, <2>0, <2>1
    <3> QED BY <1>5, <3>1, <3>2, <3>3
  <2>2. CASE x < i /\ i <= y
    <3> DEFINE k == i - x
    <3>1. k \in 1..Len(m) /\ (i - 1) - x = k - 1 /\ x <= i - 1 /\ i - 1 <= y /\ ~(i <= x)
      BY <1>1, <1>6, <2>0, <2>2
    <3>2. d[i - 1] = SubSeq(m, 1, k - 1)
      BY <1>8, <3>1
    <3>3. d[i] = Append(d[i - 1], m[k])
      BY <1>3, <1>4, <2>2
    <3>4. SubSeq(m, 1, k) = Append(SubSeq(m, 1, k - 1), m[k])
      <4>1. 1 \in 1..Len(m) /\ k \in 1..Len(m)
        BY <1>1, <3>1
      <4> HIDE DEF k
      <4> QED BY <4>1, SubSeqRecursiveSecond
    <3>5. y <= i => k = Len(m)
      BY <1>1, <1>6, <2>0, <2>2
    <3> HIDE DEF k
    <3>6. d[i] = SubSeq(m, 1, k)
      BY <3>2, <3>3, <3>4
    <3>7. y <= i => d[i] = m
      BY <1>5, <3>5, <3>6
    <3> QED BY <3>1, <3>6, <3>7 DEF k
  <2>3. CASE y < i
    <3>1. y <= i - 1 /\ ~(i <= x) /\ ~(i <= y)
      BY <1>1, <2>0, <2>3
    <3>2. d[i - 1] = m
      BY <1>8, <3>1
    <3>3. d[i] = m
      BY <1>3, <1>4, <2>3, <3>2
    <3> QED BY <3>1, <3>3
  <2>4. i <= x \/ (x < i /\ i <= y) \/ y < i
    BY <1>1, <2>0
  <2> HIDE DEF Good
  <2> QED BY <2>1, <2>2, <2>3, <2>4
<1>9. Good(n)
  <2> HIDE DEF Good
  <2> SUFFICES ASSUME T # {} PROVE FALSE
    BY <1>2
  <2>1. PICK i \in T : \A k \in T : i <= k
    <3>1. T \subseteq Nat
      BY <1>2
    <3> HIDE DEF T
    <3> QED BY <3>1, LeastMember
  <2>2. i \in 1..n /\ i - 1 \in 0..n /\ i - 1 \notin T
    BY <1>2, <1>7, <2>1
  <2> QED BY <1>8, <2>1, <2>2
<1>10. d[n] = m
  BY <1>1, <1>2, <1>9
<1> QED BY <1>10 DEF Dropped, d, n, list

\* The default for a part that is absent.
SchemeOf(p) == IF p.scheme = "none" THEN DftScheme ELSE p.scheme
PortOf(p)   == IF p.port = <<>> THEN getDefaultPort(SchemeOf(p)) ELSE Atoi(p.port)

AuthorityFound(p) ==
  /\ url.username = p.username /\ url.password = p.password /\ url.hostname = p.hostname
  /\ url.address = AddressText(p) /\ url.port = PortOf(p)

\* What the turns so far have found in a text written from the parts p, and where the next starts.
Progress(p) ==
  /\ st = 0 => beginPos = 0
  /\ st = 1 => beginPos = UserAt(p)
  /\ st \in {2, 3} => beginPos = LocateAt(p)
  /\ st = 4 => beginPos = QueryAt(p)
  /\ st = 5 => beginPos = FragAt(p)
  /\ st = 6 => beginPos = endPos
  /\ st >= 1 => url.scheme = SchemeOf(p)
  /\ st <= 1 => url.username = <<>> /\ url.password = <<>>
  /\ st >= 2 => AuthorityFound(p)
  /\ st >= 3 => url.locate = LocateText(p)
  /\ st >= 4 => url.path = p.path
  /\ st >= 5 => url.query = p.query
  /\ st = 6 => url.fragment = p.fragment

Built ==
  /\ url = [f \in Members |-> url[f]]
  /\ \A p \in given : str = Bare(p) /\ (op = "parse" => Progress(p))

\* What the blanks around a text do: nothing.
LEMMA BlanksAround ==
  ASSUME NEW p \in Parts
  PROVE  WithoutBlanks(Written(p)) = Bare(p)
<1> DEFINE a == p.blank
           m == Bare(p)
<1>1. a \in Seq(Tokens) /\ m \in Seq(Tokens)
  BY PartsTokens, WrittenTokens
<1> DEFINE S == {" "}
<1>2. Range(a) \subseteq S /\ Range(m) \cap S = {}
  BY PartsAssumption DEF PartsOK
<1>3. Written(p) = (a \o m) \o a /\ WithoutBlanks(Written(p)) = Dropped(Written(p), S)
  BY DEF Written, WithoutBlanks
<1> HIDE DEF a, m, S
<1>4. /\ \A i \in 1..Len(a) : a[i] \in Range(a)
      /\ \A i \in 1..Len(m) : m[i] \in Range(m)
  <2>1. DOMAIN a = 1..Len(a) /\ DOMAIN m = 1..Len(m)
    BY <1>1
  <2> QED BY <2>1 DEF Range
<1>5. \A i \in 1..Len(a) : a[i] \in S
  BY <1>2, <1>4
<1>6. \A i \in 1..Len(m) : m[i] \notin S
  BY <1>2, <1>4
<1>7. Dropped((a \o m) \o a, S) = m
  BY <1>1, <1>5, <1>6, DroppedAround
<1> QED BY <1>3, <1>7 DEF m

\* What a turn from the parts p starts with.
LEMMA BuiltTurn ==
  ASSUME ParserInv, Built, NEW p \in given, NEW k \in 0..5, Turn(k), NEW pos, NextTurn(pos)
  PROVE  /\ p \in Parts /\ str = Bare(p) /\ Progress(p) /\ given' = given /\ str' = str
         /\ st = k /\ st' = k + 1 /\ beginPos' = pos /\ op' = "parse" /\ endPos' = endPos
         /\ str \in Seq(Tokens) /\ endPos \in Nat /\ beginPos \in Nat /\ beginPos < endPos
         /\ url = [f \in Members |-> url[f]]
BY TurnFacts DEF ParserInv, ObjectOK, Built, Turn

\* The turns, one by one.
LEMMA BuiltScheme ==
  ASSUME ParserInv, Built, Scheme
  PROVE  Built'
<1> DEFINE sep   == Find(str, 0, endPos, <<":", "/", "/">>)
           colon == Find(str, 0, endPos, <<":">>)
<1>1. PICK x, pos :
        /\ Turn(0) /\ url' = [url EXCEPT !.scheme = x] /\ NextTurn(pos)
        /\ \/ sep # endPos /\ x = mapProtocolType(Part(0, sep)) /\ pos = sep + 3
           \/ /\ sep = endPos /\ colon # endPos /\ mapProtocolType(Part(0, colon)) = "mailto"
              /\ x = "mailto" /\ pos = colon + 1
           \/ /\ sep = endPos /\ (colon # endPos => mapProtocolType(Part(0, colon)) # "mailto")
              /\ x = DftScheme /\ pos = 0
  <2> HIDE DEF sep, colon
  <2> QED BY DEF Scheme, sep, colon
<1>2. url' = [f \in Members |-> url'[f]]
  BY <1>1 DEF Built
<1>3. ASSUME NEW p \in given PROVE Progress(p)' /\ str' = Bare(p)
  <2>1. /\ p \in Parts /\ str = Bare(p) /\ Progress(p) /\ str' = str
        /\ st = 0 /\ st' = 0 + 1 /\ beginPos' = pos /\ url = [f \in Members |-> url[f]]
    BY <1>1, BuiltTurn
  <2>2. \/ p.scheme = "none" /\ UserAt(p) = 0 /\ sep = endPos /\ (colon # endPos => mapProtocolType(Part(0, colon)) # "mailto")
        \/ /\ p.scheme = "mailto" /\ UserAt(p) = colon + 1
           /\ sep = endPos /\ colon # endPos /\ mapProtocolType(Part(0, colon)) = "mailto"
        \/ /\ p.scheme # "none" /\ UserAt(p) = sep + 3
           /\ sep # endPos /\ mapProtocolType(Part(0, sep)) = p.scheme
    BY <2>1, SchemeFound
  <2> HIDE DEF sep, colon
  <2>3. pos = UserAt(p) /\ x = SchemeOf(p)
    BY <1>1, <2>2 DEF SchemeOf
  <2>4. url'.scheme = x /\ url'.username = url.username /\ url'.password = url.password
    BY <1>1, <2>1 DEF Members, Fields
  <2>5. url.username = <<>> /\ url.password = <<>>
    BY <2>1 DEF Progress
  <2> QED BY <2>1, <2>3, <2>4, <2>5 DEF Progress
<1>4. given' = given
  BY <1>1 DEF NextTurn
<1> QED BY <1>2, <1>3, <1>4 DEF Built

LEMMA BuiltAuthority ==
  ASSUME ParserInv, Built, Authority
  PROVE  Built'
<1> DEFINE end  == Find(str, beginPos, endPos, <<"/">>)
           at   == Find(str, beginPos, end, <<"@">>)
           user == at # end
           frt  == IF user THEN at + 1 ELSE beginPos
           sep  == Colon(beginPos, at)
           col  == Colon(frt, end)
           host == Part(frt, col)
           port == After(col, end)
<1>1. /\ Turn(1) /\ NextTurn(end)
      /\ url' = [url EXCEPT
           !.username = IF user THEN Part(beginPos, sep) ELSE @,
           !.password = IF user /\ sep # at THEN After(sep, at) ELSE @,
           !.hostname = host,
           !.address  = IF col # end THEN host \o <<":">> \o port ELSE host,
           !.port     = IF col # end THEN Atoi(port) ELSE getDefaultPort(url.scheme)]
  BY DEF Authority
<1>2. /\ url' = [f \in Members |-> url'[f]] /\ url'.scheme = url.scheme
      /\ url'.username = IF user THEN Part(beginPos, sep) ELSE url.username
      /\ url'.password = IF user /\ sep # at THEN After(sep, at) ELSE url.password
      /\ url'.hostname = host
      /\ url'.address = IF col # end THEN host \o <<":">> \o port ELSE host
      /\ url'.port = IF col # end THEN Atoi(port) ELSE getDefaultPort(url.scheme)
  <2>1. url = [f \in Members |-> url[f]]
    BY DEF Built
  <2> HIDE DEF end, at, user, frt, sep, col, host, port
  <2> QED BY <1>1, <2>1 DEF Members, Fields
<1>3. ASSUME NEW p \in given PROVE Progress(p)' /\ str' = Bare(p)
  <2>1. /\ p \in Parts /\ str = Bare(p) /\ Progress(p) /\ str' = str
        /\ st = 1 /\ st' = 1 + 1 /\ beginPos' = end
    <3> HIDE DEF end
    <3> QED BY <1>1, BuiltTurn
  <2>2. beginPos = UserAt(p) /\ url.scheme = SchemeOf(p) /\ url.username = <<>> /\ url.password = <<>>
    BY <2>1 DEF Progress
  <2>3. end = LocateAt(p)
    BY <2>1, <2>2, AuthorityEnds
  <2>4. at = IF p.username = <<>> THEN LocateAt(p) ELSE HostAt(p) - 1
    BY <2>1, <2>2, <2>3, UserEnds
  <2>5. /\ UserAt(p) \in Nat /\ HostAt(p) \in Nat /\ LocateAt(p) \in Nat
        /\ HostAt(p) <= LocateAt(p) /\ (UserAt(p) = HostAt(p) <=> UserText(p) = <<>>)
    BY <2>1, Places
  <2>6. p.username = <<>> => UserAt(p) = HostAt(p)
    BY <2>5 DEF UserText
  <2> HIDE DEF end, at
  <2>7. user <=> p.username # <<>>
    BY <2>3, <2>4, <2>5
  <2>8. frt = HostAt(p)
    BY <2>2, <2>4, <2>5, <2>6, <2>7
  <2> HIDE DEF frt, user
  <2>9. host = p.hostname /\ port = p.port /\ (col = end <=> p.port = <<>>)
    BY <2>1, <2>3, <2>8, HostFound
  <2> HIDE DEF host, port, col
  <2>10. url'.hostname = p.hostname /\ url'.address = AddressText(p) /\ url'.port = PortOf(p)
    <3>1. p.port = <<>> => p.hostname \o Pre(":", p.port) = p.hostname
      <4>1. p.hostname \in Seq(Tokens)
        BY <2>1, PartsTokens
      <4> QED BY <4>1, ConcatEmptySeq DEF Pre
    <3>2. p.port # <<>> => p.hostname \o Pre(":", p.port) = p.hostname \o <<":">> \o p.port
      <4>1. <<":">> \in Seq(Tokens) /\ p.hostname \in Seq(Tokens) /\ p.port \in Seq(Tokens)
        BY <2>1, PartsTokens, OneToken, Delimiters
      <4>2. (p.hostname \o <<":">>) \o p.port = p.hostname \o (<<":">> \o p.port)
        <5> DEFINE x == p.hostname
                   y == <<":">>
                   z == p.port
        <5>1. x \in Seq(Tokens) /\ y \in Seq(Tokens) /\ z \in Seq(Tokens)
          BY <4>1
        <5> HIDE DEF x, y, z
        <5>2. (x \o y) \o z = x \o (y \o z)
          BY <5>1, ConcatAssociative
        <5> QED BY <5>2 DEF x, y, z
      <4> QED BY <4>2 DEF Pre
    <3> QED BY <1>2, <2>2, <2>9, <3>1, <3>2 DEF PortOf, AddressText
  <2>11. url'.username = p.username /\ url'.password = p.password
    <3>1. CASE p.username = <<>>
      <4>1. p.password = <<>>
        BY <2>1, <3>1, Absent
      <4> QED BY <1>2, <2>2, <2>7, <3>1, <4>1
    <3>2. CASE p.username # <<>>
      <4>1. /\ Part(UserAt(p), sep) = p.username
            /\ IF sep # at THEN After(sep, at) = p.password ELSE p.password = <<>>
        <5>1. at = HostAt(p) - 1
          BY <2>4, <3>2
        <5> QED BY <2>1, <2>2, <3>2, <5>1, UserFound
      <4> HIDE DEF sep
      <4> QED BY <1>2, <2>2, <2>7, <3>2, <4>1
    <3> QED BY <3>1, <3>2
  <2>12. AuthorityFound(p)'
    BY <2>10, <2>11 DEF AuthorityFound
  <2>13. st' = 2 /\ beginPos' = LocateAt(p) /\ url'.scheme = SchemeOf(p)
    BY <1>2, <2>1, <2>2, <2>3
  <2> QED BY <2>1, <2>12, <2>13 DEF Progress
<1>4. given' = given
  BY <1>1 DEF NextTurn
<1> QED BY <1>2, <1>3, <1>4 DEF Built

LEMMA BuiltLocate ==
  ASSUME ParserInv, Built, Locate
  PROVE  Built'
<1>1. Turn(2) /\ NextTurn(beginPos) /\ url' = [url EXCEPT !.locate = Part(beginPos, endPos)]
  BY DEF Locate
<1>2. /\ url' = [f \in Members |-> url'[f]] /\ url'.locate = Part(beginPos, endPos)
      /\ \A f \in Members \ {"locate"} : url'[f] = url[f]
  <2>1. url = [f \in Members |-> url[f]]
    BY DEF Built
  <2> QED BY <1>1, <2>1 DEF Members, Fields
<1>3. ASSUME NEW p \in given PROVE Progress(p)' /\ str' = Bare(p)
  <2>1. /\ p \in Parts /\ str = Bare(p) /\ Progress(p) /\ str' = str
        /\ st = 2 /\ st' = 2 + 1 /\ beginPos' = beginPos
    BY <1>1, BuiltTurn
  <2>2. beginPos = LocateAt(p) /\ url.scheme = SchemeOf(p) /\ AuthorityFound(p)
    BY <2>1 DEF Progress
  <2>3. url'.locate = LocateText(p)
    BY <1>2, <2>1, <2>2, Places
  <2>4. url'.scheme = SchemeOf(p) /\ AuthorityFound(p)'
    BY <1>2, <2>2 DEF AuthorityFound, Members, Fields
  <2>5. st' = 3 /\ beginPos' = LocateAt(p)
    BY <2>1, <2>2
  <2> QED BY <2>1, <2>3, <2>4, <2>5 DEF Progress
<1>4. given' = given
  BY <1>1 DEF NextTurn
<1> QED BY <1>2, <1>3, <1>4 DEF Built

LEMMA BuiltPath ==
  ASSUME ParserInv, Built, Path
  PROVE  Built'
<1>1. Turn(3) /\ NextTurn(PathEnd) /\ url' = [url EXCEPT !.path = Part(beginPos, PathEnd)]
  BY DEF Path
<1>2. /\ url' = [f \in Members |-> url'[f]] /\ url'.path = Part(beginPos, PathEnd)
      /\ \A f \in Members \ {"path"} : url'[f] = url[f]
  <2>1. url = [f \in Members |-> url[f]]
    BY DEF Built
  <2> QED BY <1>1, <2>1 DEF Members, Fields
<1>3. ASSUME NEW p \in given PROVE Progress(p)' /\ str' = Bare(p)
  <2>1. /\ p \in Parts /\ str = Bare(p) /\ Progress(p) /\ str' = str
        /\ st = 3 /\ st' = 3 + 1 /\ beginPos' = PathEnd
    BY <1>1, BuiltTurn
  <2>2. beginPos = LocateAt(p) /\ url.scheme = SchemeOf(p) /\ AuthorityFound(p) /\ url.locate = LocateText(p)
    BY <2>1 DEF Progress
  <2>3. PathEnd = QueryAt(p)
    BY <2>1, <2>2, PathEnds
  <2>4. Part(LocateAt(p), QueryAt(p)) = p.path
    BY <2>1, LocateFound
  <2>5. url'.path = p.path
    BY <1>2, <2>2, <2>3, <2>4
  <2>6. url'.scheme = SchemeOf(p) /\ AuthorityFound(p)' /\ url'.locate = LocateText(p)
    BY <1>2, <2>2 DEF AuthorityFound, Members, Fields
  <2>7. st' = 4 /\ beginPos' = QueryAt(p)
    BY <2>1, <2>3
  <2> QED BY <2>1, <2>5, <2>6, <2>7 DEF Progress
<1>4. given' = given
  BY <1>1 DEF NextTurn
<1> QED BY <1>2, <1>3, <1>4 DEF Built

LEMMA BuiltQuery ==
  ASSUME ParserInv, Built, Query
  PROVE  Built'
<1> DEFINE end == Find(str, beginPos + 1, endPos, <<"#">>)
<1>1. PICK pos, q :
        /\ Turn(4) /\ NextTurn(pos) /\ url' = [url EXCEPT !.query = q]
        /\ IF str[beginPos + 1] = "?" THEN q = Part(beginPos + 1, end) /\ pos = end
           ELSE q = url.query /\ pos = beginPos
  <2>1. url = [f \in Members |-> url[f]]
    BY DEF Built
  <2> HIDE DEF end
  <2>2. url = [url EXCEPT !.query = url.query]
    BY <2>1 DEF Members, Fields
  <2> QED BY <2>2 DEF Query, end
<1>2. /\ url' = [f \in Members |-> url'[f]] /\ url'.query = q
      /\ \A f \in Members \ {"query"} : url'[f] = url[f]
  <2>1. url = [f \in Members |-> url[f]]
    BY DEF Built
  <2> HIDE DEF end
  <2> QED BY <1>1, <2>1 DEF Members, Fields
<1>3. ASSUME NEW p \in given PROVE Progress(p)' /\ str' = Bare(p)
  <2>1. /\ p \in Parts /\ str = Bare(p) /\ Progress(p) /\ str' = str
        /\ st = 4 /\ st' = 4 + 1 /\ beginPos' = pos
        /\ beginPos \in Nat /\ endPos \in Nat /\ beginPos < endPos
    <3> HIDE DEF end
    <3> QED BY <1>1, BuiltTurn
  <2>2. beginPos = QueryAt(p) /\ url.scheme = SchemeOf(p) /\ AuthorityFound(p) /\ url.locate = LocateText(p)
        /\ url.path = p.path
    BY <2>1 DEF Progress
  <2>3. /\ (QueryAt(p) = FragAt(p) <=> p.query = <<>>)
        /\ (FragAt(p) = endPos <=> p.fragment = <<>>)
        /\ p.query # <<>> => str[QueryAt(p) + 1] = "?" /\ Part(QueryAt(p) + 1, FragAt(p)) = p.query
        /\ p.fragment # <<>> => str[FragAt(p) + 1] = "#"
    BY <2>1, LocateFound
  <2>4. pos = FragAt(p) /\ q = p.query
    <3>1. CASE p.query = <<>>
      <4>1. str[beginPos + 1] = "#"
        <5>1. beginPos = FragAt(p) /\ beginPos # endPos
          BY <2>1, <2>2, <2>3, <3>1
        <5> QED BY <2>3, <5>1
      <4>2. url.query = <<>>
        BY <1>1, <2>1 DEF ParserInv, Located, Turn
      <4> HIDE DEF end
      <4> QED BY <1>1, <2>2, <2>3, <3>1, <4>1, <4>2
    <3>2. CASE p.query # <<>>
      <4>1. end = FragAt(p)
        BY <2>1, <2>2, <3>2, QueryEnds
      <4> HIDE DEF end
      <4> QED BY <1>1, <2>2, <2>3, <3>2, <4>1
    <3> QED BY <3>1, <3>2
  <2>5. url'.scheme = SchemeOf(p) /\ AuthorityFound(p)' /\ url'.locate = LocateText(p) /\ url'.path = p.path
    BY <1>2, <2>2 DEF AuthorityFound, Members, Fields
  <2>6. st' = 5 /\ beginPos' = FragAt(p) /\ url'.query = p.query
    BY <1>2, <2>1, <2>4
  <2> QED BY <2>1, <2>5, <2>6 DEF Progress
<1>4. given' = given
  BY <1>1 DEF NextTurn
<1> QED BY <1>2, <1>3, <1>4 DEF Built

LEMMA BuiltFragment ==
  ASSUME ParserInv, Built, Fragment
  PROVE  Built'
<1>1. Turn(5) /\ NextTurn(endPos) /\ url' = [url EXCEPT !.fragment = Part(beginPos + 1, endPos)]
  BY DEF Fragment
<1>2. /\ url' = [f \in Members |-> url'[f]] /\ url'.fragment = Part(beginPos + 1, endPos)
      /\ \A f \in Members \ {"fragment"} : url'[f] = url[f]
  <2>1. url = [f \in Members |-> url[f]]
    BY DEF Built
  <2> QED BY <1>1, <2>1 DEF Members, Fields
<1>3. ASSUME NEW p \in given PROVE Progress(p)' /\ str' = Bare(p)
  <2>1. /\ p \in Parts /\ str = Bare(p) /\ Progress(p) /\ str' = str /\ endPos' = endPos
        /\ st = 5 /\ st' = 5 + 1 /\ beginPos' = endPos /\ beginPos < endPos
    BY <1>1, BuiltTurn
  <2>2. beginPos = FragAt(p) /\ url.scheme = SchemeOf(p) /\ AuthorityFound(p) /\ url.locate = LocateText(p)
        /\ url.path = p.path /\ url.query = p.query
    BY <2>1 DEF Progress
  <2>3. /\ (FragAt(p) = endPos <=> p.fragment = <<>>)
        /\ p.fragment # <<>> => Part(FragAt(p) + 1, endPos) = p.fragment
        /\ FragAt(p) \in Nat
    BY <2>1, LocateFound
  <2>4. p.fragment # <<>>
    <3>1. endPos \in Nat
      BY <1>1, BuiltTurn
    <3> QED BY <2>1, <2>2, <2>3, <3>1
  <2>5. url'.scheme = SchemeOf(p) /\ AuthorityFound(p)' /\ url'.locate = LocateText(p) /\ url'.path = p.path
        /\ url'.query = p.query
    BY <1>2, <2>2 DEF AuthorityFound, Members, Fields
  <2>6. st' = 6 /\ beginPos' = endPos' /\ url'.fragment = p.fragment
    BY <1>2, <2>1, <2>2, <2>3, <2>4
  <2> QED BY <2>1, <2>5, <2>6 DEF Progress
<1>4. given' = given
  BY <1>1 DEF NextTurn
<1> QED BY <1>2, <1>3, <1>4 DEF Built

\* The return.
LEMMA BuiltParsed ==
  ASSUME ParserInv, Built, Parsed
  PROVE  Built' /\ BuiltIsParsed'
<1>1. /\ op = "parse" /\ op' = "parsed" /\ given' = given /\ str' = str /\ beginPos >= endPos
      /\ url' = IF str # <<>> /\ url.path = <<>> THEN [url EXCEPT !.path = <<"/">>] ELSE url
  BY DEF Parsed
<1>2. url = [f \in Members |-> url[f]]
  BY DEF Built
<1>3. url' = [f \in Members |-> url'[f]]
  BY <1>1, <1>2 DEF Members, Fields
<1>4. ASSUME NEW p \in given
      PROVE  /\ str = Bare(p)
             /\ url' = [scheme |-> SchemeOf(p), username |-> p.username, password |-> p.password,
                        hostname |-> p.hostname, port |-> PortOf(p), address |-> AddressText(p),
                        locate |-> LocateText(p), path |-> IF p.path = <<>> THEN <<"/">> ELSE p.path,
                        query |-> p.query, fragment |-> p.fragment]
  <2>1. p \in Parts /\ str = Bare(p) /\ Progress(p) /\ st \in 0..6
    BY <1>1 DEF Built, ParserInv, ObjectOK, LoopOK
  <2>2. /\ str \in Seq(Tokens) /\ endPos \in Nat /\ UserAt(p) \in Nat /\ HostAt(p) \in Nat /\ LocateAt(p) \in Nat
        /\ UserAt(p) <= HostAt(p) /\ LocateAt(p) <= endPos /\ Part(LocateAt(p), endPos) = LocateText(p)
    BY <2>1, Places
  <2>3. HostAt(p) < LocateAt(p)
    BY <2>1, HostFound
  <2>4. /\ QueryAt(p) \in Nat /\ FragAt(p) \in Nat
        /\ LocateAt(p) <= QueryAt(p) /\ QueryAt(p) <= FragAt(p) /\ FragAt(p) <= endPos
        /\ (LocateAt(p) = QueryAt(p) <=> p.path = <<>>)
        /\ (QueryAt(p) = FragAt(p) <=> p.query = <<>>)
        /\ (FragAt(p) = endPos <=> p.fragment = <<>>)
    BY <2>1, LocateFound
  <2>5. st >= 2
    <3>1. st = 0 => beginPos = 0
      BY <2>1 DEF Progress
    <3>2. st = 1 => beginPos = UserAt(p)
      BY <2>1 DEF Progress
    <3>3. st \in 0..6
      BY <2>1
    <3> QED BY ONLY <1>1, <2>2, <2>3, <3>1, <3>2, <3>3
  <2>6. url.scheme = SchemeOf(p) /\ AuthorityFound(p)
    BY <2>1, <2>5 DEF Progress
  <2>7. url.locate = LocateText(p) /\ url.path = p.path /\ url.query = p.query /\ url.fragment = p.fragment
    <3>1. /\ st <= 2 => url.locate = <<>>
          /\ st <= 3 => url.path = <<>>
          /\ st <= 4 => url.query = <<>>
          /\ st <= 5 => url.fragment = <<>>
      BY <1>1 DEF ParserInv, Located
    <3>2. CASE st \in {2, 3}
      <4>1. beginPos = LocateAt(p)
        BY <2>1, <3>2 DEF Progress
      <4>2. LocateAt(p) = endPos
        BY ONLY <1>1, <2>2, <4>1
      <4>3. QueryAt(p) = LocateAt(p) /\ FragAt(p) = QueryAt(p) /\ FragAt(p) = endPos
        BY ONLY <2>2, <2>4, <4>2
      <4>4. p.path = <<>> /\ p.query = <<>> /\ p.fragment = <<>> /\ LocateText(p) = <<>>
        BY <2>2, <2>4, <4>2, <4>3, PartEmpty
      <4>5. st = 3 => url.locate = LocateText(p)
        BY <2>1 DEF Progress
      <4> QED BY <3>1, <3>2, <4>4, <4>5
    <3>3. CASE st = 4
      <4>1. beginPos = QueryAt(p) /\ url.locate = LocateText(p) /\ url.path = p.path
        BY <2>1, <3>3 DEF Progress
      <4>2. FragAt(p) = QueryAt(p) /\ FragAt(p) = endPos
        BY ONLY <1>1, <2>2, <2>4, <4>1
      <4> QED BY <2>4, <3>1, <3>3, <4>1, <4>2
    <3>4. CASE st = 5
      <4>1. beginPos = FragAt(p) /\ url.locate = LocateText(p) /\ url.path = p.path /\ url.query = p.query
        BY <2>1, <3>4 DEF Progress
      <4>2. FragAt(p) = endPos
        BY ONLY <1>1, <2>2, <2>4, <4>1
      <4> QED BY <2>4, <3>1, <3>4, <4>1, <4>2
    <3>5. CASE st = 6
      BY <2>1, <3>5 DEF Progress
    <3>6. st \in {2, 3} \/ st = 4 \/ st = 5 \/ st = 6
      BY <2>1, <2>5
    <3> QED BY <3>2, <3>3, <3>4, <3>5, <3>6
  <2>8. str # <<>>
    <3>1. endPos > 0
      BY ONLY <2>2, <2>3
    <3> QED BY <3>1 DEF endPos
  <2>9. /\ url'.path = IF p.path = <<>> THEN <<"/">> ELSE p.path
        /\ \A f \in Members \ {"path"} : url'[f] = url[f]
    BY <1>1, <1>2, <2>7, <2>8 DEF Members, Fields
  <2>10. /\ url'.scheme = SchemeOf(p) /\ url'.username = p.username /\ url'.password = p.password
         /\ url'.hostname = p.hostname /\ url'.address = AddressText(p) /\ url'.port = PortOf(p)
         /\ url'.locate = LocateText(p) /\ url'.query = p.query /\ url'.fragment = p.fragment
    BY <2>6, <2>7, <2>9 DEF AuthorityFound, Members, Fields
  <2> DEFINE r == [scheme |-> SchemeOf(p), username |-> p.username, password |-> p.password,
                   hostname |-> p.hostname, port |-> PortOf(p), address |-> AddressText(p),
                   locate |-> LocateText(p), path |-> IF p.path = <<>> THEN <<"/">> ELSE p.path,
                   query |-> p.query, fragment |-> p.fragment]
  <2>11. r = [f \in Members |-> r[f]]
    BY DEF Members, Fields
  <2>12. \A f \in Members : url'[f] = r[f]
    BY <2>9, <2>10 DEF Members, Fields
  <2> HIDE DEF r
  <2>13. url' = r
    BY <1>3, <2>11, <2>12
  <2> QED BY <2>1, <2>13 DEF r
<1>5. Built'
  BY <1>1, <1>3, <1>4 DEF Built
<1>6. BuiltIsParsed'
  <2> SUFFICES ASSUME NEW p \in given
               PROVE  url' = [scheme |-> SchemeOf(p), username |-> p.username, password |-> p.password,
                              hostname |-> p.hostname, port |-> PortOf(p), address |-> AddressText(p),
                              locate |-> LocateText(p), path |-> IF p.path = <<>> THEN <<"/">> ELSE p.path,
                              query |-> p.query, fragment |-> p.fragment]
    BY <1>1 DEF BuiltIsParsed, SchemeOf, PortOf
  <2> QED BY <1>4
<1> QED BY <1>5, <1>6

\* A text written from parts, or from none, before the first turn.
LEMMA BuiltStarts ==
  ASSUME url = Cleared, st = 0, beginPos = 0, op \in {"parse", "encode"},
         \A p \in given : p \in Parts /\ str = WithoutBlanks(Written(p))
  PROVE  Built /\ BuiltIsParsed
<1>1. Cleared = [f \in Members |-> Cleared[f]] /\ Cleared.username = <<>> /\ Cleared.password = <<>>
  BY DEF Cleared, Members, Fields
<1>2. \A p \in given : str = Bare(p)
  BY BlanksAround
<1>3. \A p \in given : Progress(p)
  BY <1>1 DEF Progress
<1>4. BuiltIsParsed
  BY DEF BuiltIsParsed
<1> QED BY <1>1, <1>2, <1>3, <1>4 DEF Built

\* The first text an object is given.
LEMMA BuiltInit == Init => Built /\ BuiltIsParsed
<1> SUFFICES ASSUME Init PROVE Built /\ BuiltIsParsed
  OBVIOUS
<1>1. op \in {"parse", "encode"}
  BY DEF Init
<1>2. url = Cleared /\ st = 0 /\ beginPos = 0
  BY DEF Init, Parses
<1>3. \A p \in given : p \in Parts /\ str = WithoutBlanks(Written(p))
  BY DEF Init, Parses
<1> QED BY <1>1, <1>2, <1>3, BuiltStarts

\* The next one.
LEMMA BuiltAssign ==
  ASSUME NEW p \in Parts, Assign(p)
  PROVE  Built' /\ BuiltIsParsed'
<1>1. /\ op' = "parse" /\ given' = {p} /\ str' = WithoutBlanks(Written(p)) /\ url' = Cleared
      /\ st' = 0 /\ beginPos' = 0
  BY DEF Assign, Reset
<1>2. Cleared = [f \in Members |-> Cleared[f]] /\ Cleared.username = <<>> /\ Cleared.password = <<>>
  BY DEF Cleared, Members, Fields
<1>3. str' = Bare(p)
  BY <1>1, BlanksAround
<1>4. Progress(p)'
  BY <1>1, <1>2 DEF Progress
<1>5. BuiltIsParsed'
  BY <1>1 DEF BuiltIsParsed
<1> QED BY <1>1, <1>2, <1>3, <1>4, <1>5 DEF Built

\* A step that leaves the object alone.
LEMMA BuiltFrame ==
  ASSUME Built, BuiltIsParsed, UNCHANGED parser,
         UNCHANGED op \/ op' \in {"encode", "decode", "decoded"}
  PROVE  Built' /\ BuiltIsParsed'
<1>1. UNCHANGED <<given, str, st, beginPos, url>>
  BY DEF parser
<1>2. \A p : Progress(p)' = Progress(p)
  BY <1>1 DEF Progress, AuthorityFound, endPos
<1>3. op' = "parse" => op = "parse"
  OBVIOUS
<1>4. op' = "parsed" => op = "parsed"
  OBVIOUS
<1>5. Built'
  BY <1>1, <1>2, <1>3 DEF Built
<1>6. BuiltIsParsed'
  BY <1>1, <1>4, Zenon DEF BuiltIsParsed
<1> QED BY <1>5, <1>6

\* All steps.
LEMMA BuiltStep == ParserInv /\ Built /\ BuiltIsParsed /\ [Next]_vars => Built' /\ BuiltIsParsed'
<1> SUFFICES ASSUME ParserInv, Built, BuiltIsParsed, [Next]_vars PROVE Built' /\ BuiltIsParsed'
  OBVIOUS
<1>1. ASSUME NEW k, Turn(k), NEW pos, NextTurn(pos), Built' PROVE Built' /\ BuiltIsParsed'
  <2>1. op' = "parse"
    BY <1>1 DEF Turn, NextTurn
  <2> QED BY <1>1, <2>1 DEF BuiltIsParsed
<1>2. CASE Scheme
  BY <1>1, <1>2, BuiltScheme DEF Scheme
<1>3. CASE Authority
  BY <1>1, <1>3, BuiltAuthority DEF Authority
<1>4. CASE Locate
  BY <1>1, <1>4, BuiltLocate DEF Locate
<1>5. CASE Path
  BY <1>1, <1>5, BuiltPath DEF Path
<1>6. CASE Query
  BY <1>1, <1>6, BuiltQuery DEF Query
<1>7. CASE Fragment
  BY <1>1, <1>7, BuiltFragment DEF Fragment
<1>8. CASE Parsed
  BY <1>8, BuiltParsed
<1>9. CASE \E p \in Parts : Assign(p)
  BY <1>9, BuiltAssign
<1>10. CASE Encode \/ Decode \/ Decoded
  <2>1. UNCHANGED parser
    BY <1>10 DEF Encode, Decode, Decoded
  <2>2. UNCHANGED op \/ op' \in {"encode", "decode", "decoded"}
    BY <1>10 DEF Encode, Decode, Decoded
  <2> QED BY <2>1, <2>2, BuiltFrame
<1>11. CASE UNCHANGED vars
  BY <1>11, BuiltFrame DEF vars
<1> QED BY <1>2, <1>3, <1>4, <1>5, <1>6, <1>7, <1>8, <1>9, <1>10, <1>11 DEF Next

-----------------------------------------------------------------------------
(* The theorems.                                                            *)

\* A step of one half of the object leaves the other alone.
LEMMA ParserFrame ==
  ASSUME ParserInv, UNCHANGED parser,
         UNCHANGED op \/ op' \in {"encode", "decode", "decoded"}
  PROVE  ParserInv'
<1>1. UNCHANGED <<given, str, st, beginPos, url, assigns>>
  BY DEF parser
<1>2. ObjectOK'
  BY <1>1 DEF ParserInv, ObjectOK
<1>3. LoopOK'
  BY <1>1 DEF ParserInv, LoopOK, endPos
<1>4. Located'
  <2>1. /\ UNCHANGED <<endPos, Left, PathFound, QueryFound, AllFound>>
        /\ \A k : Part(k, endPos)' = Part(k, endPos)
    BY <1>1 DEF endPos, Left, PathFound, QueryFound, AllFound, Part
  <2>2. op' = "parse" => op = "parse"
    OBVIOUS
  <2> QED BY <1>1, <2>1, <2>2 DEF ParserInv, Located
<1>5. LocateRejoins'
  <2>1. op' = "parsed" => op = "parsed"
    OBVIOUS
  <2> QED BY <1>1, <2>1, Zenon DEF ParserInv, LocateRejoins
<1> QED BY <1>2, <1>3, <1>4, <1>5 DEF ParserInv

LEMMA CodecFrame ==
  ASSUME CodecInv, UNCHANGED codec, UNCHANGED op \/ op' \in {"parse", "parsed"}
  PROVE  CodecInv'
BY DEF CodecInv, CodecOK, Encoded, EncodeDecodable, codec

LEMMA InitInv == Init => ParserInv /\ CodecInv
<1> SUFFICES ASSUME Init PROVE ParserInv /\ CodecInv
  OBVIOUS
<1>1. PICK b \in ByteTexts \cup {<<>>} : Encodes(b) /\ (op = "encode" \/ op = "parse")
  BY DEF Init
<1>2. \E g, s : s \in Seq(Tokens) /\ g \subseteq Parts /\ Parses(g, s)
  <2>1. \A t \in Texts : t \in Seq(Tokens) /\ {} \subseteq Parts
    BY UrlAssumption
  <2>2. \A p \in Parts : Written(p) \in Seq(Tokens) /\ {p} \subseteq Parts
    BY WrittenTokens
  <2>3. <<>> \in Seq(Tokens) /\ {} \subseteq Parts
    BY EmptySeq
  <2> QED BY <2>1, <2>2, <2>3 DEF Init
<1>3. PICK g, s : s \in Seq(Tokens) /\ g \subseteq Parts /\ Parses(g, s)
  BY <1>2
<1>4. ParserInv
  <2>1. str \in Seq(Tokens)
    BY <1>3, DroppedFacts DEF Parses, WithoutBlanks
  <2>2. assigns \in 0..MaxAssigns
    BY UrlAssumption DEF Init
  <2>3. AtStart
    BY <1>1, <1>3, <2>1, <2>2 DEF AtStart, Parses
  <2> QED BY <2>3, Starts
<1>5. CodecInv
  <2>1. b \in Seq(0..255) /\ Len(b) \in Nat /\ <<>> \in Seq(0..255)
    BY UrlAssumption, EmptySeq, ZenonT(30)
  <2>2. CodecOK
    BY <1>1, <2>1 DEF Encodes, CodecOK
  <2>3. Encoded
    <3>1. Encoding(<<>>)
      BY DEF Encoding
    <3>2. Meaning(<<>>) = <<>>
      <4>1. Len(<<>>) = 0
        OBVIOUS
      <4> QED BY <2>1, <4>1, MeaningsUnfold DEF Meaning
    <3>3. SubSeq(text, 1, 0) = <<>>
      BY SubSeqEmpty
    <3> QED BY <1>1, <3>1, <3>2, <3>3 DEF Encoded, Encodes
  <2>4. EncodeDecodable
    BY <1>1 DEF EncodeDecodable
  <2> QED BY <2>2, <2>3, <2>4 DEF CodecInv
<1> QED BY <1>4, <1>5

LEMMA StepInv == ParserInv /\ CodecInv /\ [Next]_vars => ParserInv' /\ CodecInv'
<1> SUFFICES ASSUME ParserInv, CodecInv, [Next]_vars PROVE ParserInv' /\ CodecInv'
  OBVIOUS
<1>1. ASSUME UNCHANGED codec, op' \in {"parse", "parsed"}, ParserInv' PROVE ParserInv' /\ CodecInv'
  BY <1>1, CodecFrame
<1>2. ASSUME UNCHANGED parser, op' \in {"encode", "decode", "decoded"}, CodecInv'
      PROVE  ParserInv' /\ CodecInv'
  BY <1>2, ParserFrame
<1>3. CASE Scheme
  BY <1>1, <1>3, SchemeStep DEF Scheme, Turn, NextTurn
<1>4. CASE Authority
  BY <1>1, <1>4, AuthorityStep DEF Authority, Turn, NextTurn
<1>5. CASE Locate
  BY <1>1, <1>5, LocateStep DEF Locate, Turn, NextTurn
<1>6. CASE Path
  BY <1>1, <1>6, PathStep DEF Path, Turn, NextTurn
<1>7. CASE Query
  BY <1>1, <1>7, QueryStep DEF Query, Turn, NextTurn
<1>8. CASE Fragment
  BY <1>1, <1>8, FragmentStep DEF Fragment, Turn, NextTurn
<1>9. CASE Parsed
  BY <1>1, <1>9, ParsedStep DEF Parsed
<1>10. CASE \E p \in Parts : Assign(p)
  <2>1. PICK p \in Parts : Assign(p)
    BY <1>10
  <2> QED BY <1>1, <2>1, AssignStep DEF Assign
<1>11. CASE Encode
  BY <1>2, <1>11, EncodeStep DEF Encode
<1>12. CASE Decode
  BY <1>2, <1>12, DecodeStep DEF Decode
<1>13. CASE Decoded
  BY <1>2, <1>13, DecodedStep DEF Decoded
<1>14. CASE UNCHANGED vars
  BY <1>14, ParserFrame, CodecFrame DEF vars
<1> QED BY <1>3, <1>4, <1>5, <1>6, <1>7, <1>8, <1>9, <1>10, <1>11, <1>12, <1>13, <1>14 DEF Next

\* The object is well formed, the loop of _parse() stays within the text and takes no seventh
\* turn, and the fragment starts with '#': the assertions at Url.cpp:354 and :361.
THEOREM UrlTypeCorrect == Spec => []TypeOK
<1>1. ParserInv /\ CodecInv => TypeOK
  BY DEF ParserInv, CodecInv, ObjectOK, LoopOK, CodecOK, TypeOK
<1> QED BY <1>1, InitInv, StepInv, PTL DEF Spec

\* Whatever the text, the path, the query and the fragment put together are the locate, and
\* the locate is the end of the text (Url.cpp:307).
THEOREM LocateCorrect == Spec => []LocateRejoins
<1>1. ParserInv => LocateRejoins
  BY DEF ParserInv
<1> QED BY <1>1, InitInv, StepInv, PTL DEF Spec

\* What encode() returns is ASCII and means its input, for every input without a '%'
\* (Url.cpp, encode()).
THEOREM EncodeCorrect == Spec => []EncodeDecodable
<1>1. CodecInv => EncodeDecodable
  BY DEF CodecInv
<1> QED BY <1>1, InitInv, StepInv, PTL DEF Spec

\* Whatever the parts, as long as the text written from them is of the form at Url.cpp:230,
\* _parse() finds each of them, whatever the object held before.
THEOREM BuiltCorrect == Spec => []BuiltIsParsed
<1>1. Init => ParserInv /\ CodecInv /\ Built /\ BuiltIsParsed
  BY InitInv, BuiltInit
<1>2. ParserInv /\ CodecInv /\ Built /\ BuiltIsParsed /\ [Next]_vars
        => ParserInv' /\ CodecInv' /\ Built' /\ BuiltIsParsed'
  BY StepInv, BuiltStep
<1> QED BY <1>1, <1>2, PTL DEF Spec

=============================================================================
