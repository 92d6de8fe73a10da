----------------------------- MODULE MCFileLock -----------------------------
(* FileLock with three processes.                                          *)
EXTENDS FileLock

CONSTANTS p1, p2, p3

MCProcs == {p1, p2, p3}
=============================================================================
