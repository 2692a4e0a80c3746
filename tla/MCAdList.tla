------------------------------- MODULE MCAdList -------------------------------
(* AdListCalls on a few nodes and values.                                      *)
EXTENDS AdListCalls
=============================================================================
