--------------------------------- MODULE Url ---------------------------------
(***************************************************************************)
(* The class Url: _parse() as the loop it is, with the assignment that     *)
(* parses again, and encode() followed by decode().                        *)
(*                                                                         *)
(* A text to parse is a sequence of tokens: the delimiters, a blank, the   *)
(* digit 8, scheme names and words, each as one token.  Positions are      *)
(* those of the code, from 0.  A text to encode is a sequence of bytes.    *)
(***************************************************************************)
EXTENDS Integers, Sequences, FiniteSetsExt, SequencesExt, Lists

CONSTANTS
  Tokens,      \* what texts are made of
  Texts,       \* arbitrary texts to parse
  Parts,       \* URLs by their parts: see Written below
  DftScheme,   \* the default scheme
  ByteTexts,   \* texts to encode
  Stray,       \* what the byte after the terminating zero of a string may be
  MaxAssigns   \* bound: assignments to an object

Schemes == {"file", "gopher", "http", "https", "ftp", "mailto", "mms", "news", "nntp", "telnet",
            "wais", "prospero"}

ASSUME UrlAssumption ==
  /\ DftScheme \in Schemes /\ MaxAssigns \in Nat /\ Stray \subseteq 0..255 /\ Stray # {}
  /\ {":", "/", "@", "?", "#", "mailto"} \subseteq Tokens
  /\ Texts \subseteq Seq(Tokens) /\ ByteTexts \subseteq Seq(0..255)
  /\ \A p \in Parts :
       /\ p.scheme \in Tokens \cup {"none"}
       /\ \A f \in {"blank", "username", "password", "hostname", "port", "path", "query", "fragment"} :
            p[f] \in Seq(Tokens)

VARIABLES
  op,         \* "parse", "parsed", "encode", "decode" or "decoded"
  given,          \* {p} if the text to parse was written from the parts p, else {}
  str,            \* _urlStr
  st, beginPos,   \* the loop of _parse()
  url,            \* the other members of the object
  text, input,    \* the text to encode, the input of encode() or decode()
  idx, out,       \* their loops: the position and destStr
  assigns

parser == <<given, str, st, beginPos, url, assigns>>
codec  == <<text, input, idx, out>>
vars   == <<op, parser, codec>>

Fields == {"username", "password", "hostname", "address", "locate", "path", "query", "fragment"}

\* What the constructors make.
Cleared == [f \in Fields \cup {"scheme", "port"} |->
              IF f = "scheme" THEN "unknown" ELSE IF f = "port" THEN 0 ELSE <<>>]

endPos == Len(str)

\* The values each variable may take; in particular the loop needs no seventh turn, and
\* what is left for <fragment> starts with '#' (the assertions at Url.cpp:354 and :361).
TypeOK ==
  /\ op \in {"parse", "parsed", "encode", "decode", "decoded"}
  /\ st \in 0..6 /\ beginPos \in 0..(endPos + 2) /\ assigns \in 0..MaxAssigns
  /\ url.scheme \in Schemes \cup {"unknown"} /\ url.port \in Nat
  /\ \A f \in Fields : url[f] \in Seq(Range(str) \cup {":", "/"})
  /\ op = "parse" /\ beginPos < endPos => st < 6 /\ (st = 5 => str[beginPos + 1] = "#")
  /\ given \subseteq Parts
  /\ text \in ByteTexts \cup {<<>>} /\ input \in Seq(0..255) /\ out \in Seq(0..255)
  /\ idx \in 0..Len(input)

-----------------------------------------------------------------------------
(* Faulty variants of the helpers below, to test the properties.            *)

\* The search returns the place after what it has found.
FoundAfter(s, frt, lst, sub) ==
  LET hits == {i \in frt..(lst - Len(sub)) : SubSeq(s, i + 1, i + Len(sub)) = sub}
  IN  IF hits = {} THEN lst ELSE Min(hits) + Len(sub)

\* The path keeps the delimiter that ends it.
PathWithDelimiter ==
  LET ends == {i \in beginPos..(endPos - 1) : str[i + 1] \in {"?", "#"}}
  IN  IF ends = {} THEN endPos ELSE Min(ends) + 1

\* _reset() forgets the password.
ResetForgets(u) == [Cleared EXCEPT !.password = u.password]

\* The half-bytes change places.
Escaped(b) ==
  LET digit(n) == IF n < 10 THEN 48 + n ELSE 87 + n
  IN  IF b > 127 THEN <<37, digit(b % 16), digit(b \div 16)>> ELSE <<b>>

-----------------------------------------------------------------------------
\* _reset().
Reset(u) == Cleared

(* The helpers of _parse().                                                 *)

\* substr() of _urlStr.
Part(frt, lst) == SubSeq(str, frt + 1, lst)

\* find(): the first place in frt..lst-1 where sub starts, else lst.  A place where only a
\* beginning of sub is found at the end of the text makes it return 0 (NULL).
Find(s, frt, lst, sub) ==
  LET starts(i, j) == i + j <= Len(s) /\ SubSeq(s, i + 1, i + j) = SubSeq(sub, 1, j)
      cut(i)  == \E j \in 1..(Len(sub) - 1) : starts(i, j) /\ i + j >= lst - frt
      hits    == {i \in frt..(lst - 1) : starts(i, Len(sub)) \/ cut(i)}
  IN  IF hits = {} THEN lst ELSE IF cut(Min(hits)) THEN 0 ELSE Min(hits)

mapProtocolType(s) == IF Len(s) = 1 /\ s[1] \in Schemes THEN s[1] ELSE "unknown"

getDefaultPort(scheme) ==
  CASE scheme = "gopher" -> 70 [] scheme = "http" -> 80 [] scheme = "https" -> 443
    [] scheme = "ftp" -> 21 [] scheme = "mms" -> 1755 [] scheme = "nntp" -> 119
    [] scheme = "telnet" -> 23 [] scheme = "prospero" -> 409 [] OTHER -> 0

\* atoi(), of a text whose only digit is 8; the first n tokens make the number Eights(n)[n].
Eights(n) == LET v[i \in 0..n] == IF i = 0 THEN 0 ELSE 10 * v[i - 1] + 8 IN v
Atoi(s) ==
  LET digits == Max({n \in 0..Len(s) : \A i \in 1..n : s[i] = "8"})
  IN  Eights(digits)[digits]

WithoutBlanks(s) == Dropped(s, {" "})

-----------------------------------------------------------------------------
(* One action for each turn of the loop in _parse(): what the turn finds,   *)
(* and where the next one starts.                                           *)

Turn(k) == op = "parse" /\ beginPos < endPos /\ st = k
NextTurn(pos) ==
  /\ st' = st + 1 /\ beginPos' = pos
  /\ UNCHANGED <<op, given, str, assigns, codec>>

Scheme ==
  LET sep   == Find(str, 0, endPos, <<":", "/", "/">>)
      colon == Find(str, 0, endPos, <<":">>)
  IN
  /\ Turn(0)
  /\ \/ sep # endPos
        /\ url' = [url EXCEPT !.scheme = mapProtocolType(Part(0, sep))] /\ NextTurn(sep + 3)
     \/ sep = endPos /\ colon # endPos /\ mapProtocolType(Part(0, colon)) = "mailto"
        /\ url' = [url EXCEPT !.scheme = "mailto"] /\ NextTurn(colon + 1)
     \/ sep = endPos /\ (colon # endPos => mapProtocolType(Part(0, colon)) # "mailto")
        /\ url' = [url EXCEPT !.scheme = DftScheme] /\ NextTurn(0)

\* bisect() of the range by a colon: the place of the colon, or lst.
Colon(frt, lst) == Find(str, frt, lst, <<":">>)
After(pos, lst) == IF pos = lst THEN <<>> ELSE Part(pos + 1, lst)

Authority ==
  LET end  == Find(str, beginPos, endPos, <<"/">>)
      at   == Find(str, beginPos, end, <<"@">>)
      user == at # end
      frt  == IF user THEN at + 1 ELSE beginPos
      sep  == Colon(beginPos, at)
      col  == Colon(frt, end)
      host == Part(frt, col)
      port == After(col, end)
  IN
  /\ Turn(1)
  /\ url' = [url EXCEPT
       !.username = IF user THEN Part(beginPos, sep) ELSE @,
       !.password = IF user /\ sep # at THEN After(sep, at) ELSE @,
       !.hostname = host,
       !.address  = IF col # end THEN host \o <<":">> \o port ELSE host,
       !.port     = IF col # end THEN Atoi(port) ELSE getDefaultPort(url.scheme)]
  /\ NextTurn(end)

Locate ==
  /\ Turn(2)
  /\ url' = [url EXCEPT !.locate = Part(beginPos, endPos)]
  /\ NextTurn(beginPos)

\* The end of the path: the first question mark or, without one, the first hash.
PathEnd ==
  LET query == Find(str, beginPos, endPos, <<"?">>)
  IN  IF query = endPos THEN Find(str, beginPos, endPos, <<"#">>) ELSE query

Path ==
  /\ Turn(3)
  /\ url' = [url EXCEPT !.path = Part(beginPos, PathEnd)]
  /\ NextTurn(PathEnd)

Query ==
  LET end == Find(str, beginPos + 1, endPos, <<"#">>) IN
  /\ Turn(4)
  /\ IF str[beginPos + 1] = "?"
     THEN url' = [url EXCEPT !.query = Part(beginPos + 1, end)] /\ NextTurn(end)
     ELSE UNCHANGED url /\ NextTurn(beginPos)

Fragment ==
  /\ Turn(5)
  /\ url' = [url EXCEPT !.fragment = Part(beginPos + 1, endPos)]
  /\ NextTurn(endPos)

\* The return: a text that is not empty gets a path.
Parsed ==
  /\ op = "parse" /\ beginPos >= endPos
  /\ op' = "parsed"
  /\ url' = IF str # <<>> /\ url.path = <<>> THEN [url EXCEPT !.path = <<"/">>] ELSE url
  /\ UNCHANGED <<given, str, st, beginPos, assigns, codec>>

-----------------------------------------------------------------------------
\* The URL with the parts p, an absent part being the empty text.
Pre(c, s) == IF s = <<>> THEN <<>> ELSE <<c>> \o s

SchemeText(p) ==
  IF p.scheme = "none" THEN <<>>
  ELSE IF p.scheme = "mailto" THEN <<"mailto", ":">> ELSE <<p.scheme, ":", "/", "/">>
UserText(p) == IF p.username = <<>> THEN <<>> ELSE p.username \o Pre(":", p.password) \o <<"@">>
AddressText(p) == p.hostname \o Pre(":", p.port)
LocateText(p)  == p.path \o Pre("?", p.query) \o Pre("#", p.fragment)

Bare(p)    == SchemeText(p) \o UserText(p) \o AddressText(p) \o LocateText(p)
Written(p) == p.blank \o Bare(p) \o p.blank

\* Neither "://" nor the beginning of it at the end, where find() would stop.
NoSeparator(s) ==
  \A i \in DOMAIN s : s[i] = ":" =>
    i + 1 \in DOMAIN s /\ (s[i + 1] = "/" => i + 2 \in DOMAIN s /\ s[i + 2] # "/")

\* The parts are those of the form at Url.cpp:230: a delimiter stands where it ends a part and
\* not where the parser would look for it in vain.
PartsOK(p) ==
  /\ p.scheme \in Schemes \cup {"none"} /\ Range(p.blank) \subseteq {" "} /\ " " \notin Range(Bare(p))
  /\ {":", "/", "@"} \cap Range(p.username) = {} /\ {"/", "@"} \cap Range(p.password) = {}
  /\ p.hostname # <<>> /\ {":", "/", "@"} \cap Range(p.hostname) = {} /\ {"/", "@"} \cap Range(p.port) = {}
  /\ p.username = <<>> => p.password = <<>>
  /\ p.path = <<>> => p.query = <<>> /\ p.fragment = <<>>
  /\ p.path # <<>> => p.path[1] = "/"
  /\ {"?", "#"} \cap Range(p.path) = {} /\ "#" \notin Range(p.query)
  /\ p.query = <<>> => "?" \notin Range(p.fragment)
  /\ p.scheme \in {"none", "mailto"} => NoSeparator(Bare(p))
  /\ p.scheme = "none" => ~IsPrefix(<<"mailto", ":">>, Bare(p))

ASSUME PartsAssumption == \A p \in Parts : PartsOK(p)

Parses(g, s) == given = g /\ str = WithoutBlanks(s) /\ url = Cleared /\ st = 0 /\ beginPos = 0
Encodes(b)   == text = b /\ input = b /\ idx = 0 /\ out = <<>>

Init ==
  /\ assigns = 0
  /\ \/ op = "parse" /\ Encodes(<<>>) /\ \E t \in Texts : Parses({}, t)
     \/ op = "parse" /\ Encodes(<<>>) /\ \E p \in Parts : Parses({p}, Written(p))
     \/ op = "encode" /\ Parses({}, <<>>) /\ \E b \in ByteTexts : Encodes(b)

\* operator = (const char*).
Assign(p) ==
  /\ op = "parsed" /\ given # {} /\ assigns < MaxAssigns
  /\ op' = "parse" /\ given' = {p} /\ str' = WithoutBlanks(Written(p)) /\ url' = Reset(url)
  /\ st' = 0 /\ beginPos' = 0 /\ assigns' = assigns + 1
  /\ UNCHANGED codec

-----------------------------------------------------------------------------
(* encode() and decode().                                                   *)

Digit(n) == IF n < 10 THEN 48 + n ELSE 87 + n      \* _toHex()
HexDigits == (48..57) \cup (65..70) \cup (97..102)
Value(c) == CASE c \in 48..57 -> c - 48 [] c \in 65..70 -> c - 55 [] c \in 97..102 -> c - 87

Escape(b) == IF b > 127 THEN <<37, Digit(b \div 16), Digit(b % 16)>> ELSE <<b>>

\* strtol(<<a, b>>, 16).
Strtol(a, b) ==
  IF a \notin HexDigits THEN 0
  ELSE IF b \notin HexDigits THEN Value(a) ELSE 16 * Value(a) + Value(b)

Encode ==
  /\ op = "encode"
  /\ IF idx < Len(input)
     THEN out' = out \o Escape(input[idx + 1]) /\ idx' = idx + 1 /\ UNCHANGED <<op, input>>
     ELSE op' = "decode" /\ input' = out /\ out' = <<>> /\ idx' = 0
  /\ UNCHANGED <<parser, text>>

\* inputStr[i]; the byte after the terminating zero is any.
ByteAt(i) == IF i < Len(input) THEN {input[i + 1]} ELSE IF i = Len(input) THEN {0} ELSE Stray

\* One turn of the loop: idx is moved on before the two digits are read.
Decode ==
  /\ op = "decode" /\ idx < Len(input)
  /\ LET ch == input[idx + 1] IN
     \/ ch # 37 /\ out' = Append(out, ch) /\ idx' = idx + 1 /\ UNCHANGED op
     \/ /\ ch = 37 /\ idx + 2 < Len(input)
        /\ \E a \in ByteAt(idx + 3), b \in ByteAt(idx + 4) : out' = Append(out, Strtol(a, b))
        /\ idx' = idx + 3 /\ UNCHANGED op
     \/ ch = 37 /\ idx + 2 >= Len(input) /\ out' = input /\ op' = "decoded" /\ UNCHANGED idx
  /\ UNCHANGED <<parser, text, input>>

Decoded ==
  /\ op = "decode" /\ idx >= Len(input) /\ op' = "decoded"
  /\ UNCHANGED <<parser, text, input, idx, out>>

-----------------------------------------------------------------------------
Next ==
  \/ Scheme \/ Authority \/ Locate \/ Path \/ Query \/ Fragment \/ Parsed
  \/ \E p \in Parts : Assign(p)
  \/ Encode \/ Decode \/ Decoded

Spec == Init /\ [][Next]_vars

-----------------------------------------------------------------------------
(* Properties.                                                              *)

\* Every part of a URL of the form given at Url.cpp:230 is found, whatever the object held
\* before, with the defaults for the parts that are absent.
BuiltIsParsed ==
  op = "parsed" => \A p \in given :
    LET scheme == IF p.scheme = "none" THEN DftScheme ELSE p.scheme
    IN  url = [scheme |-> scheme, username |-> p.username, password |-> p.password,
               hostname |-> p.hostname,
               port |-> IF p.port = <<>> THEN getDefaultPort(scheme) ELSE Atoi(p.port),
               address |-> AddressText(p), locate |-> LocateText(p),
               path |-> IF p.path = <<>> THEN <<"/">> ELSE p.path,
               query |-> p.query, fragment |-> p.fragment]

\* Whatever the text, nothing of what follows the host is lost or repeated: the locate is the
\* end of the text, and the path, the query and the fragment put together (Url.cpp:307),
\* where a path "/" may be the default.
LocateRejoins ==
  op = "parsed" =>
    /\ IsSuffix(url.locate, str)
    /\ \E path \in {url.path} \cup (IF url.path = <<"/">> THEN {<<>>} ELSE {}),
          q \in {<<>>, <<"?">>}, h \in {<<>>, <<"#">>} :
            url.locate = path \o q \o url.query \o h \o url.fragment

\* What the last bytes of a text mean, for each number of them, read from left to right.
Meanings(s) ==
  LET m[n \in 0..Len(s)] ==
        LET at == Len(s) - n IN
        IF n = 0 THEN <<>>
        ELSE IF s[at + 1] = 37
             THEN IF n < 3 THEN <<>> ELSE <<16 * Value(s[at + 2]) + Value(s[at + 3])>> \o m[n - 3]
             ELSE <<s[at + 1]>> \o m[n - 1]
  IN  m
Meaning(s) == Meanings(s)[Len(s)]

\* What encode() returns is ASCII, and means its input.  (It does not escape '%' itself.)
EncodeDecodable ==
  op = "decode" /\ 37 \notin Range(text) => (\A i \in DOMAIN input : input[i] < 128) /\ Meaning(input) = text

\* "Encoding and decoding of URLs in UTF-8" (Url.h:56): decode() undoes encode().
DecodeInverts == op = "decoded" /\ 37 \notin Range(text) => out = text

=============================================================================
