--------------------------- MODULE MCDebugSession ---------------------------
(* Instances of the debug session: two calls that may overlap, or take     *)
(* turns, on a session with and without a reset path.                      *)
EXTENDS DebugSession

EveryConfig ==
    {[limit |-> 1, resets |-> FALSE], [limit |-> 2, resets |-> TRUE]}

DefaultConfig == {[limit |-> 1, resets |-> TRUE]}
=============================================================================
