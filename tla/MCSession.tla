------------------------------- MODULE MCSession -------------------------------
(* Session on a few streams: pipelined SETs and GETs of one key, SET with its    *)
(* options, a big value, empty requests, inline requests, errors, QUIT, a name   *)
(* that is not UTF-8, counts and lengths out of their range, and an empty line.  *)
EXTENDS Session

Multibulk(args) == [kind |-> "multibulk", args |-> args]
Inline(args) == [kind |-> "inline", args |-> args]
Raw(bytes) == [kind |-> "raw", bytes |-> bytes, args |-> <<>>]

\* The bytes of requests, and those of replies.
MCBytes ==
  {"NUL", "CR", "LF", "SP", "$", "*", "k", "x", "y", "s", "g", "q",
   "nx", "xx", "bad", "-", "+", "_"}
    \cup {"ok", "eol", "null", "syntax", "err", "msg", "?"}
    \cup {ToString(n) : n \in 0 .. 9} \cup {"$" \o ToString(n) : n \in 0 .. 12}

MCNumeral(n) == <<ToString(n)>>

K == <<"k">>
X == <<"x">>
Y == <<"7">>
Big == <<"x", "y", "x">>
Bad == <<"bad">>

MCStreams ==
  { <<Multibulk(<<Set, K, X>>), Multibulk(<<Get, K>>)>>,
    <<Inline(<<Set, K, X>>), Inline(<<Get, K>>), Multibulk(<<Set, K, Big>>), Multibulk(<<Get, K>>)>>,
    <<Multibulk(<<>>), Multibulk(<<Set, K, Y>>), Inline(<<Get, K>>)>>,
    <<Inline(<<Set, K>>), Multibulk(<<Get, X>>)>>,
    <<Inline(<<Set, K, X, Y>>), Inline(<<Get, K>>)>>,
    <<Multibulk(<<Quit>>), Multibulk(<<X>>)>>,
    <<Inline(<<Quit>>), Inline(<<X>>)>>,
    <<Raw(<<"*", "9", "CR", "LF">>), Multibulk(<<X>>)>>,
    <<Multibulk(<<X>>), Raw(<<"CR", "LF">>), Multibulk(<<Y>>)>>,
    <<Inline(<<Set, K, X, Xx>>), Inline(<<Set, K, Y, Nx>>)>>,
    <<Inline(<<Set, K, X>>), Inline(<<Set, K, Y, Nx>>)>>,
    <<Multibulk(<<Bad>>), Multibulk(<<X>>)>>,
    <<Multibulk(<<X>>), Inline(<<Bad>>), Inline(<<X>>)>>,
    <<Raw(<<"*", "-", "1", "CR", "LF">>), Multibulk(<<X>>)>>,
    <<Raw(<<"*", "+", "1", "CR", "LF", "$", "9", "CR", "LF">>)>>,
    <<Raw(<<"*", "1", "_", "0", "CR", "LF">>)>> }

MCLongMin == -9
MCUndecodable == {Bad}

MCSharedText == [ok |-> <<"ok">>, crlf |-> <<"eol">>, hdr |-> <<"$1">>,
                 nullbulk |-> <<"null">>, syntaxerr |-> <<"syntax">>]
MCStoredText == [emb |-> X, raw |-> Big, int |-> Y, garbled |-> <<"?">>]
MCStoredEncoding == [emb |-> "EMBSTR", raw |-> "RAW", int |-> "INT", garbled |-> "EMBSTR"]
MCHeader == [n \in 0 .. 12 |-> <<"$" \o ToString(n)>>]

\* Bound: once a read has cut the stream out of order, or the output is damaged,
\* what is sent is of no interest; the parser is, and it does not depend on it.
AnsweredOrUnsent ==
  (orderly /\ out.spoiled = {}) \/ (sender = "idle" /\ wire = <<>>)
=============================================================================
