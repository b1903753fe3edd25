----------------------------- MODULE MCHeatWait -----------------------------
(* A small instance of HeatWait for TLC. *)
EXTENDS HeatWait
=============================================================================
