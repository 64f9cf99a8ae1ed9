------------------------------ MODULE MCCleaner ------------------------------
(* Cleaner for TLC. *)
EXTENDS Cleaner
=============================================================================
