---------------------------- MODULE MCRmqClient ----------------------------
(* Instances of RmqClient for TLC.                                          *)
EXTENDS RmqClient, TLC

Sym == Permutations(Jobs)
=============================================================================
