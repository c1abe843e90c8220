--------------------------- MODULE MCParallelBench ---------------------------
(***************************************************************************)
(* Small instances of ParallelBench for TLC.                               *)
(***************************************************************************)
EXTENDS ParallelBench

TwoCpus == <<1, 2>>
ThreeCpus == <<1, 2, 3>>

(***************************************************************************)
(* "one" runs on one CPU; "two" and "three" on as many as they say.        *)
(***************************************************************************)
Mixed == <<"one", "two">>
UpToThree == <<"one", "two", "three">>
TwoThreads == [b \in {"two"} |-> 2]
TwoAndThreeThreads == [b \in {"two", "three"} |-> IF b = "two" THEN 2 ELSE 3]
=============================================================================
