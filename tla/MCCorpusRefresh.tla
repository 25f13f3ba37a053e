-------------------------- MODULE MCCorpusRefresh --------------------------
(* Instances of CorpusRefresh small enough for TLC. *)
EXTENDS CorpusRefresh, TLC

\* Executions are interchangeable; nothing orders them.
JobSymmetry == Permutations(Jobs)
=============================================================================
