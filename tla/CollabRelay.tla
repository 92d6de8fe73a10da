----------------------------- MODULE CollabRelay -----------------------------
(***************************************************************************)
(* The rooms of session/collab-relay.ts: one host and some guests, whose   *)
(* frames the relay passes on without reading them.                        *)
(*                                                                         *)
(* A room outlives its host's connection for a grace period, and a host    *)
(* that comes back within it adopts the room with the guests in it.  Every *)
(* connection has an identity of its own (a dial of the host, a guest),    *)
(* and the relay learns of its end late: of a connection that broke, and   *)
(* of one that it closed itself.  A guest is one connection; who comes     *)
(* back is another guest.                                                  *)
(*                                                                         *)
(* down holds what the relay has sent and the host has not read.  What the *)
(* host sends is with the guests at once: a guest that is slow to read is  *)
(* one that acts later, one whose frames are lost on the way does not act  *)
(* on them, and what is asked of the guests is what they will have seen.   *)
(*                                                                         *)
(* Left out: the bearer gate before a host's upgrade, text and garbage     *)
(* from clients, the peer-joined control, which the host does not read.    *)
(*                                                                         *)
(* AdmitsUncapped, AdmitWithTimer and CloseByPeer are slips of the         *)
(* operator each stands before, for the mutants.                           *)
(***************************************************************************)
EXTENDS Integers, FiniteSets, Sequences, Functions

CONSTANTS
  Guests,
  Rooms,      \* room ids, one for each start of a host
  Dials,      \* the host connections there can be at a time
  MaxRooms,   \* maxRooms
  MaxGuests,  \* maxGuests
  MaxSent     \* bound on the frames of guests on their way to a host

ASSUME RoomsAreNumbers == Rooms \subseteq Nat \ {0} /\ Dials \subseteq Nat \ {0}
ASSUME CapsArePositive ==
  MaxRooms \in Nat \ {0} /\ MaxGuests \in Nat \ {0} /\ MaxSent \in Nat \ {0}

VARIABLES
  rooms,   \* #rooms
  dials,   \* the host connections, as the server has them
  guests,  \* the guest connections, and what each guest has seen
  down     \* frames from the relay to the host of a room

relayVars == <<rooms, dials, guests, down>>

(* host: the dial, 0 for null.  guests: a Map from peer ids.  timer: the    *)
(* ttlTimer is armed.                                                       *)
NoRoom == [present |-> FALSE, host |-> 0, guests |-> <<>>, next |-> 1, timer |-> FALSE]

(* alive: the client has not lost or closed it.                             *)
FreeDial == [st |-> "free", room |-> 0, alive |-> FALSE]

(* writes: it has the write token.  log: the last entry of its replica, -1  *)
(* before it is welcomed.  dialogs: the requests it shows.  heard: the host *)
(* read its hello over the connection it still has, which no code reads.    *)
Outside == [st |-> "out", room |-> 0, peer |-> 0, writes |-> FALSE,
            log |-> -1, dialogs |-> {}, heard |-> FALSE]

RelayInit ==
  /\ rooms = [r \in Rooms |-> NoRoom]
  /\ dials = [d \in Dials |-> FreeDial]
  /\ guests = [g \in Guests |-> Outside]
  /\ down = [r \in Rooms |-> <<>>]

\* A Map f in which the key p has the value v.
Put(f, p, v) == [q \in DOMAIN f \cup {p} |-> IF q = p THEN v ELSE f[q]]

InRoom(r) == Range(rooms[r].guests)
Live(r) == rooms[r].present /\ rooms[r].host # 0
RoomCount == Cardinality({r \in Rooms : rooms[r].present})

-----------------------------------------------------------------------------
(* Hosts.                                                                  *)

\* handleUpgrade: the cap does not cut off the host of a room there is.
Upgrades(d) == rooms[dials[d].room].present \/ RoomCount < MaxRooms

\* The cap is left to the check before the upgrade.
AdmitsUncapped(d) == LET room == rooms[dials[d].room] IN room.present => room.host = 0

\* handleOpen lets the host in: it creates the room, or adopts an orphan.
Admits(d) ==
  LET room == rooms[dials[d].room]
  IN IF room.present THEN room.host = 0 ELSE RoomCount < MaxRooms

\* The grace period of the room goes on.
AdmitWithTimer(d) ==
  [rooms EXCEPT ![dials[d].room].present = TRUE, ![dials[d].room].host = d]

Admit(d) ==
  [rooms EXCEPT ![dials[d].room].present = TRUE, ![dials[d].room].host = d,
                ![dials[d].room].timer = FALSE]

\* handleClose for a host: its room, if it is still the host of it, is an
\* orphan and its grace period begins.
Orphaned(d) ==
  LET r == dials[d].room
  IN IF rooms[r].present /\ rooms[r].host = d
       THEN [rooms EXCEPT ![r].host = 0, ![r].timer = TRUE]
       ELSE rooms

HostCloses(d) ==
  /\ dials[d].st = "open" /\ ~dials[d].alive
  /\ rooms' = Orphaned(d)
  /\ dials' = [dials EXCEPT ![d] = FreeDial]
  /\ UNCHANGED <<guests, down>>

\* The connections of the guests of a room, closed by the relay.
Evicted(r) ==
  [g \in Guests |-> IF g \in InRoom(r) /\ guests[g].st = "in"
                      THEN [guests[g] EXCEPT !.st = "ending", !.heard = FALSE]
                      ELSE guests[g]]

\* #expireOrphan.
Expires(r) ==
  /\ rooms[r].timer
  /\ rooms' = [rooms EXCEPT ![r] = NoRoom]
  /\ guests' = Evicted(r)
  /\ UNCHANGED <<dials, down>>

\* closeRoom, within an action of its caller: the timer goes with the room.
CloseRoom(r) ==
  /\ rooms' = [rooms EXCEPT ![r] = NoRoom]
  /\ guests' = Evicted(r)

-----------------------------------------------------------------------------
(* Guests.                                                                 *)

Frame(t, peer, n) == [t |-> t, peer |-> peer, n |-> n]

\* What a guest sends reaches a room's host if it has one and is not cut off.
ToHost(r, msg) ==
  IF Live(r) /\ dials[rooms[r].host].alive
    THEN [down EXCEPT ![r] = Append(@, msg)] ELSE down

Welcomes(r) == Live(r) /\ Cardinality(InRoom(r)) < MaxGuests

\* handleUpgrade and handleOpen for a guest.  One that is refused, by 4004 or
\* 4029, leaves nothing behind.
GuestJoins(g, r, writes) ==
  /\ guests[g].st = "out" /\ Welcomes(r)
  /\ LET peer == rooms[r].next
     IN /\ guests' = [guests EXCEPT ![g] =
             [Outside EXCEPT !.st = "in", !.room = r, !.peer = peer, !.writes = writes]]
        /\ rooms' = [rooms EXCEPT ![r].guests = Put(@, peer, g), ![r].next = @ + 1]
  /\ UNCHANGED <<dials, down>>

\* handleMessage for a guest, which stamps its peer id, whatever the guest has
\* sent or been sent before.
GuestSends(g, t, n) ==
  /\ guests[g].st = "in" /\ Len(down[guests[g].room]) < MaxSent
  /\ down' = ToHost(guests[g].room, Frame(t, guests[g].peer, n))
  /\ UNCHANGED <<rooms, dials, guests>>

GuestLeaves(g) ==
  /\ guests[g].st = "in"
  /\ guests' = [guests EXCEPT ![g].st = "ending", ![g].heard = FALSE]
  /\ UNCHANGED <<rooms, dials, down>>

\* Whoever has the peer id now is taken for the one that left.
CloseByPeer(g) ==
  /\ guests[g].st = "ending"
  /\ guests' = [guests EXCEPT ![g] = [Outside EXCEPT !.st = "gone"]]
  /\ LET r == guests[g].room  peer == guests[g].peer
     IN IF peer \in DOMAIN rooms[r].guests
          THEN /\ rooms' = [rooms EXCEPT ![r].guests = Restrict(@, DOMAIN @ \ {peer})]
               /\ down' = ToHost(r, Frame("left", peer, 0))
          ELSE UNCHANGED <<rooms, down>>
  /\ UNCHANGED dials

\* handleClose for a guest: it leaves its room unless the room is another by
\* now, and the host, if there is one, is told.
GuestCloses(g) ==
  /\ guests[g].st = "ending"
  /\ guests' = [guests EXCEPT ![g] = [Outside EXCEPT !.st = "gone"]]
  /\ LET r == guests[g].room  peer == guests[g].peer
     IN IF peer \in DOMAIN rooms[r].guests /\ rooms[r].guests[peer] = g
          THEN /\ rooms' = [rooms EXCEPT ![r].guests = Restrict(@, DOMAIN @ \ {peer})]
               /\ down' = ToHost(r, Frame("left", peer, 0))
          ELSE UNCHANGED <<rooms, down>>
  /\ UNCHANGED dials

-----------------------------------------------------------------------------
(* What a guest makes of the host's frames; external to the repository.    *)

Addressed(g, msg) == msg.peer \in {0, guests[g].peer}

\* The numbers in the frames of a type.
Numbers(frames, t) == {msg.n : msg \in {f \in frames : f.t = t}}

\* A snapshot is the replica; an entry belongs to it if it is the next.
Replicas(view, frames) ==
  Numbers(frames, "welcome") \cup {n \in Numbers(frames, "entry") : view.log = n - 1}

\* Frames that are sent together hold at most one welcome or entry, and never
\* both ask and end: what a guest makes of them is not a matter of their order.
Seen(view, frames) ==
  LET logs == Replicas(view, frames)
  IN  [view EXCEPT !.log = IF logs = {} THEN @ ELSE CHOOSE n \in logs : TRUE,
                   !.dialogs = (@ \cup Numbers(frames, "ask")) \ Numbers(frames, "end")]

\* handleMessage for a host: a frame to one guest, or to all in the room.
Forwarded(gs, r, frames) ==
  [g \in Guests |-> IF g \in InRoom(r) /\ gs[g].st = "in"
                      THEN Seen(gs[g], {msg \in frames : Addressed(g, msg)})
                      ELSE gs[g]]

RelayTypeOK ==
  /\ \A r \in Rooms :
       /\ rooms[r].host \in Dials \cup {0}
       /\ InRoom(r) \subseteq Guests /\ Cardinality(InRoom(r)) <= MaxGuests
       /\ \A p \in DOMAIN rooms[r].guests : p \in 1..(rooms[r].next - 1)
       /\ ~rooms[r].present => rooms[r] = NoRoom
  /\ RoomCount <= MaxRooms
  /\ \A d \in Dials : dials[d].st \in {"free", "asked", "upgraded", "open"}
  /\ \A g \in Guests :
       /\ guests[g].st \in {"out", "in", "ending", "gone"}
       /\ guests[g].st \in {"in", "ending"} => guests[g].room \in Rooms
=============================================================================
