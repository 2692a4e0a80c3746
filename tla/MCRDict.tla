------------------------------- MODULE MCRDict -------------------------------
(* RDictCalls on a small instance.  The hash values make keys 1 and 3 collide *)
(* in every table, 1 and 2 in tables of one and two slots but not of four.    *)
EXTENDS RDictCalls

MCHash == [k \in Keys |-> <<0, 2, 0>>[k]]
=============================================================================
