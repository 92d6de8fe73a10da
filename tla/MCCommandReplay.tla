--------------------------- MODULE MCCommandReplay ---------------------------
(* CommandReplay with one call; other commands act through OtherForwarded  *)
(* and OtherAnswered.                                                      *)
EXTENDS CommandReplay

CONSTANT i1

MCCalls == {i1}
=============================================================================
