-------------------------------- MODULE MCReply --------------------------------
(* Reply on a small instance: a value of one byte stored as EMBSTR, one of two *)
(* bytes stored as RAW, and an integer.                                       *)
EXTENDS Reply

MCSharedText == [ok |-> <<"ok">>, crlf |-> <<"eol">>, hdr |-> <<"$1">>]
MCStoredText == [emb |-> <<"e">>, raw |-> <<"r1", "r2">>, int |-> <<"7">>]
MCStoredEncoding == [emb |-> "EMBSTR", raw |-> "RAW", int |-> "INT"]
MCBytes == {"ok", "eol", "$1", "e", "r1", "r2", "7", "err", "msg", "NUL"}
             \cup {"$" \o ToString(n) : n \in 0 .. 12}
MCHeader == [n \in 0 .. 12 |-> <<"$" \o ToString(n)>>]
=============================================================================
