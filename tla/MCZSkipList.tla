------------------------------ MODULE MCZSkipList ------------------------------
(* ZSkipListCalls with a few objects and two scores, so that the objects decide *)
(* among equals.                                                                *)
EXTENDS ZSkipListCalls
=============================================================================
