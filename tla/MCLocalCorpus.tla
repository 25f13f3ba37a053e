---------------------------- MODULE MCLocalCorpus ----------------------------
(* An instance of LocalCorpus small enough for TLC: one document that is    *)
(* built in for a tenant.                                                   *)
EXTENDS LocalCorpus

CONSTANTS d1, t1

OneSeed == {<<d1, t1>>}
=============================================================================
