----------------------------- MODULE MCLibrary -----------------------------
(* A clip on disk, one the daemon may write, and the output of an export.   *)
EXTENDS Library

CONSTANTS a, b, x

MCPaths == {a, b, x}
MCPresent == {a}
MCDaemonClips == {b}
MCOutputOf == [p \in MCPaths |-> IF p = a THEN {x} ELSE {}]
=============================================================================
