----------------------------- MODULE MCRawRwLock -----------------------------
(* RawRwLock for TLC. *)
EXTENDS RawRwLock
=============================================================================
