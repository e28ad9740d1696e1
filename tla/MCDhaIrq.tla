------------------------------ MODULE MCDhaIrq ------------------------------
(* Instances of DhaIrq for TLC. *)
EXTENDS DhaIrq, TLC

CONSTANTS d1, d2, i1, i2

\* each device on a line of its own, and two devices on one line
OwnLines    == d1 :> i1 @@ d2 :> i2
SharedLine  == d1 :> i1 @@ d2 :> i1
OneDevice   == d1 :> i1

ProcSymmetry == Permutations(Procs)
=============================================================================
