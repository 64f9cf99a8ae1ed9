---------------------------- MODULE MCElections ----------------------------
(* Instances of Elections for TLC. *)
EXTENDS Elections

\* Everyone at priority 1, every log empty.
MCPriority == [n \in Node |-> 1]
MCEmptyLogs == [n \in Node |-> 0]
=============================================================================
