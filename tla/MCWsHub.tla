------------------------------ MODULE MCWsHub ------------------------------
(* Instances of WsHub for TLC.                                              *)
EXTENDS WsHub, TLC

Sym == Permutations(Pubs)
=============================================================================
