----------------------------- MODULE CommitLog -----------------------------
(***************************************************************************)
(* What the write-ahead log promises to its callers: entries are appended  *)
(* in LSN order, the disk holds a prefix of them at every moment (recovery *)
(* reads up to the first hole), what is on disk stays there, and a commit  *)
(* is acknowledged only when its entry is on disk.  Buffers, leaders,      *)
(* cohorts and files are not part of the promise.                          *)
(***************************************************************************)
EXTENDS Integers

VARIABLES
  next,     \* the LSN the next append gets
  stable,   \* the LSNs on disk
  acked     \* the LSNs whose commit was acknowledged

log == <<next, stable, acked>>

\* Nothing is missing below an entry of S.
IsPrefix(S) == \A x \in S : 1 .. x \subseteq S

Init ==
  /\ next = 1
  /\ stable = {}
  /\ acked = {}

\* Some of the entries appended so far reach the disk, in LSN order.
Stabilise ==
  /\ stable \subseteq stable'
  /\ stable' \subseteq 1 .. next - 1
  /\ IsPrefix(stable')

\* An append may have to sync older entries first.
Append ==
  /\ next' = next + 1
  /\ Stabilise
  /\ UNCHANGED acked

Sync ==
  /\ Stabilise
  /\ UNCHANGED <<next, acked>>

Acknowledge ==
  /\ \E x \in stable : acked' = acked \cup {x}
  /\ UNCHANGED <<next, stable>>

Next == Append \/ Sync \/ Acknowledge

Spec == Init /\ [][Next]_log
=============================================================================
