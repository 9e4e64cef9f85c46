---------------------------- MODULE MCExecution ----------------------------
(* Small execution plans for TLC.  The steps of a plan are alike: every    *)
(* one has its own requests and reads nothing of the others' but whether   *)
(* they are in flight or terminal, so permuting them is a symmetry.        *)
EXTENDS Execution, TLC

StepSymmetry == Permutations(Steps)
=============================================================================
