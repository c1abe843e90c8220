--------------------------- MODULE MCEmpiricalData ---------------------------
(***************************************************************************)
(* A small instance of EmpiricalData for TLC.                              *)
(***************************************************************************)
EXTENDS EmpiricalData, TLC

OneAndTwo == <<1, 2>>
AnyAddress == Permutations(Addresses)
=============================================================================
