---------------------------- MODULE MCRefinement ----------------------------
(***************************************************************************)
(* Small instances of ParallelBenchRefinement for TLC.                     *)
(***************************************************************************)
EXTENDS ParallelBenchRefinement, MCParallelBench
=============================================================================
