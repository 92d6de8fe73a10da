---------------------------- MODULE MCLogMirror ----------------------------
(* LogMirror of a log with a line of one byte and a longer one of three,    *)
(* which is beyond a chunk of two.                                          *)
EXTENDS LogMirror

MCLineEnds == {1, 4}
=============================================================================
