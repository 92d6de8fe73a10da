---------------------------- MODULE MCCollabHost ----------------------------
(* Guests differ in nothing but what they do.                              *)
EXTENDS CollabHost, TLC

MCGuestSymmetry == Permutations(Guests)
=============================================================================
