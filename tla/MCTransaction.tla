---------------------------- MODULE MCTransaction ----------------------------
EXTENDS Transaction

\* One thread per handle.
MCOwnHandles == [c \in {"a", "b"} |-> IF c = "a" THEN {1} ELSE {2}]
=============================================================================
