------------------------------ MODULE EventFeed ------------------------------
(***************************************************************************)
(* What the event streams promise a browser tab, whatever happens between  *)
(* it and the session daemon.  The session makes events, numbered from 1.  *)
(* While a feed is up the tab shows the first so many of them, and their   *)
(* number grows by one at a time: no event is missing, however the tab     *)
(* came by it (the transcript, a live frame, a replay).  A feed may be     *)
(* lost at any time, and comes back at any point the session has reached,  *)
(* behind the one it was lost at or ahead of it.                           *)
(***************************************************************************)
EXTENDS Naturals

CONSTANT Down  \* the value of feed when there is none; no natural number

VARIABLES
  made,  \* how many events the session has made
  feed   \* how many of them the tab shows, or Down

vars == <<made, feed>>

Init == made = 0 /\ feed = Down

\* The session goes on whoever listens, and an event may be one too many.
Make == made' = made + 1 /\ feed' \in {feed, Down}

Show == feed # Down /\ feed < made /\ feed' = feed + 1 /\ made' = made

Catch == feed = Down /\ feed' \in 0..made /\ made' = made

Lose == feed # Down /\ feed' = Down /\ made' = made

Next == Make \/ Show \/ Catch \/ Lose

Spec == Init /\ [][Next]_vars
=============================================================================
