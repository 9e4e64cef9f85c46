---------------------------- MODULE ResourceKeys ----------------------------
(***************************************************************************)
(* The resource keys that reservations are made on and that the keyed lock *)
(* manager serializes by (src/src/reservation).  Keys are compared only by *)
(* their lexicographic order, which the integer order stands for.          *)
(***************************************************************************)
EXTENDS Integers

CONSTANT Keys

ASSUME KeysAssumption == Keys \subseteq Int

=============================================================================
