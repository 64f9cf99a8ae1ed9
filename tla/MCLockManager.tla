--------------------------- MODULE MCLockManager ----------------------------
(* Instances of LockManager for TLC. *)
EXTENDS LockManager

MCNoGroups == [l \in Locker |-> 0]
=============================================================================
