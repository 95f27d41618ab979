-------------------------------- MODULE MCUrl --------------------------------
(***************************************************************************)
(* Instances of Url for TLC: every text of up to five tokens, every        *)
(* combination of parts, and some bytes.                                   *)
(***************************************************************************)
EXTENDS Url

AllTokens == {":", "/", "@", "?", "#", " ", "8", "w", "h", "u", "p", "q", "f", "mailto", "https"}

TextsUpTo(n, tokens) == UNION {[1..k -> tokens] : k \in 0..n}
ShortTexts == TextsUpTo(5, {":", "/", "@", "?", "#", "w", "mailto"})
NoTexts    == {}

AllParts ==
  {p \in [scheme : {"none", "https", "mailto"}, blank : {<<>>, <<" ">>},
          username : {<<>>, <<"u">>}, password : {<<>>, <<"p", ":">>},
          hostname : {<<"h">>, <<"h", "w">>}, port : {<<>>, <<"8", "8">>},
          path : {<<>>, <<"/">>, <<"/", "w", "@", ":", "w">>},
          query : {<<>>, <<"q", "/", "?">>}, fragment : {<<>>, <<"f", "#", ":", "w">>}] :
     /\ p.username = <<>> => p.password = <<>>
     /\ p.path = <<>> => p.query = <<>> /\ p.fragment = <<>>
     /\ p.port # <<>> => p.hostname = <<"h">>}

ShortBytes == TextsUpTo(4, {37, 65, 103, 195, 169})
=============================================================================
