------------------------- MODULE CollabHost_proofs -------------------------
(***************************************************************************)
(* The safety of the shared session, proved of CollabHost for any number   *)
(* of guests, rooms, dials, dialogs and entries and every cap of the       *)
(* relay.                                                                  *)
(*                                                                         *)
(* The inductive invariant (IInv) is in layers, each kept by a step that   *)
(* keeps the ones before it.                                               *)
(*                                                                         *)
(* Core is what the rest leans on: the types (Typed), that an adapter and  *)
(* the dial it has name each other (Dialled) and a room and its host do    *)
(* (Held), what an adapter has asked for (Tasked), and that the rooms know *)
(* the guests in them by their peer ids (Seated).  Few is the relay's caps.*)
(*                                                                         *)
(* Wired says of what is on its way to a host, and of what the host knows, *)
(* that nobody lies: a hello says what its guest may do, the host knows    *)
(* the same of each guest it has welcomed, and of the peer whose prompt it *)
(* may not run it knows that, or nothing.  Shown is what guests show of    *)
(* the session, and Owned the dialogs that wait for them.                  *)
(*                                                                         *)
(* Peer ids begin anew with a room that was destroyed under its host, and  *)
(* the adapter's map of peers does not.  So Wired promises nothing of what *)
(* the host knows of a guest that it has not welcomed, and Shown says what *)
(* such a guest may show: it is asked if its peer id was a writer's.       *)
(***************************************************************************)
EXTENDS CollabHost, SequenceTheorems, FiniteSetTheorems, TLAPS

Peers == Nat \ {0}

Maps(S) == UNION {[D -> S] : D \in SUBSET Peers}

RoomStates ==
  [present: BOOLEAN, host: Dials \cup {0}, guests: Maps(Guests), next: Peers, timer: BOOLEAN]

DialStates ==
  [st: {"free", "asked", "upgraded", "open"}, room: Rooms \cup {0}, alive: BOOLEAN]

GuestStates ==
  [st: {"out", "in", "ending", "gone"}, room: Rooms \cup {0}, peer: Nat, writes: BOOLEAN,
   log: Int, dialogs: SUBSET Nat, heard: BOOLEAN]

AdapterStates ==
  [phase: {"none", "dialing", "live", "stopped"}, sock: {"none", "dialing", "open", "down"},
   dial: Dials \cup {0}, peers: Maps(BOOLEAN), pending: SUBSET Nat, session: Nat,
   turns: SUBSET {"command", "switch"}]

Messages ==
  [t: {"hello", "prompt"}, peer: Peers, n: BOOLEAN] \cup [t: {"answer", "left"}, peer: Peers, n: Nat]

DialogStates == [at: {"none", "guests", "browsers"}, req: Nat]

Typed ==
  /\ rooms \in [Rooms -> RoomStates] /\ dials \in [Dials -> DialStates]
  /\ guests \in [Guests -> GuestStates] /\ down \in [Rooms -> Seq(Messages)]
  /\ ads \in [Rooms -> AdapterStates] /\ asks \in [Asks -> DialogStates]
  /\ slot \in Rooms \cup {0} /\ tap \in Rooms \cup {0} /\ starting \in BOOLEAN
  /\ session \in Nat /\ log \in 0..MaxLog /\ reqs \in 0..MaxReqs /\ astray \in BOOLEAN
  /\ faults \in 0..MaxFaults
  /\ \A g \in Guests :
       guests[g].st \in {"in", "ending"} => guests[g].room \in Rooms /\ guests[g].peer \in Peers

\* An adapter with a connection and the dial of it name each other.
AdapterDialled(k) ==
  /\ ads[k].sock \in {"dialing", "open"} =>
       /\ ads[k].dial \in Dials /\ dials[ads[k].dial].room = k /\ dials[ads[k].dial].alive
       /\ ads[k].sock = "open" => dials[ads[k].dial].st = "open"
       /\ ads[k].sock = "dialing" => dials[ads[k].dial].st \in {"asked", "upgraded"}
  /\ ads[k].sock \in {"open", "down"} => ads[k].phase = "live"
  /\ ads[k].phase = "dialing" => ads[k].sock = "dialing"
  /\ ads[k].phase \in {"none", "stopped"} => ads[k].sock = "none"

DialDialled(d) ==
  /\ dials[d].st = "free" => dials[d] = FreeDial
  /\ dials[d].st # "free" => dials[d].room \in Rooms
  /\ dials[d].st = "asked" => dials[d].alive
  /\ dials[d].alive =>
       ads[dials[d].room].sock \in {"dialing", "open"} /\ ads[dials[d].room].dial = d

Dialled == (\A k \in Rooms : AdapterDialled(k)) /\ (\A d \in Dials : DialDialled(d))

RoomHeld(r) ==
  /\ ~rooms[r].present => rooms[r] = NoRoom
  /\ rooms[r].present => (rooms[r].host = 0 <=> rooms[r].timer)
  /\ rooms[r].host # 0 =>
       dials[rooms[r].host].st = "open" /\ dials[rooms[r].host].room = r
  /\ ads[r].sock = "open" => rooms[r].present /\ rooms[r].host = ads[r].dial

Held == \A r \in Rooms : RoomHeld(r)

Linked == Dialled /\ Held

\* What an adapter has asked of guests it asked while it was live.
AdapterTasked(k) ==
  /\ ads[k].phase # "live" => ads[k].pending = {}
  /\ ads[k].pending \subseteq 1..reqs /\ ads[k].session <= session

Tasked == \A k \in Rooms : AdapterTasked(k)

\* The rooms know their guests by their peer ids.
RoomSeated(r) ==
  \A p \in DOMAIN rooms[r].guests :
    /\ p < rooms[r].next
    /\ guests[rooms[r].guests[p]].st \in {"in", "ending"}
    /\ guests[rooms[r].guests[p]].room = r /\ guests[rooms[r].guests[p]].peer = p

GuestSeated(g) ==
  guests[g].st = "in" =>
    /\ rooms[guests[g].room].present
    /\ guests[g].peer \in DOMAIN rooms[guests[g].room].guests
    /\ rooms[guests[g].room].guests[guests[g].peer] = g

Seated == (\A r \in Rooms : RoomSeated(r)) /\ (\A g \in Guests : GuestSeated(g))

Few ==
  /\ \A r \in Rooms : IsFiniteSet(InRoom(r)) /\ Cardinality(InRoom(r)) <= MaxGuests
  /\ IsFiniteSet({r \in Rooms : rooms[r].present}) /\ RoomCount <= MaxRooms

\* Every hello of the peer p that is on its way says w of its token.
Says(r, p, w) ==
  \A i \in DOMAIN down[r] : down[r][i].t = "hello" /\ down[r][i].peer = p => down[r][i].n = w

\* If the host of room r knows the peer p then it has the token or not as w says.
Knows(r, p, w) == p \in DOMAIN ads[r].peers => ads[r].peers[p] = w

\* What is on its way to the host of room r.  A prompt that it may not run is of
\* a peer that it knows for a reader, or not at all, and goes on to.
HostWired(r) ==
  /\ down[r] # <<>> => ads[r].sock = "open"
  /\ \A i \in DOMAIN down[r] :
       LET m == down[r][i]
       IN /\ m.peer < rooms[r].next
          /\ m.t = "left" => m.peer \notin DOMAIN rooms[r].guests
          /\ m.t = "prompt" /\ ~m.n => Knows(r, m.peer, FALSE) /\ Says(r, m.peer, FALSE)

\* A guest's hellos say what it may do, and so does the host once it has read one.
GuestWired(g) ==
  LET r == guests[g].room  p == guests[g].peer
  IN guests[g].st = "in" =>
       /\ Says(r, p, guests[g].writes)
       /\ \A i \in DOMAIN down[r] :
            down[r][i].t = "prompt" /\ down[r][i].peer = p /\ ~down[r][i].n => ~guests[g].writes
       /\ guests[g].log >= 0 => Knows(r, p, guests[g].writes)

Wired == (\A r \in Rooms : HostWired(r)) /\ (\A g \in Guests : GuestWired(g))

\* What a guest shows once the host has read its hello, and before.
GuestShown(g) ==
  LET r == guests[g].room  p == guests[g].peer
  IN /\ guests[g].heard =>
          /\ guests[g].st = "in" /\ ads[r].sock = "open"
          /\ guests[g].log >= 0
          /\ p \in DOMAIN ads[r].peers
          /\ tap = r /\ Current(r) => guests[g].log = log
          /\ guests[g].writes => guests[g].dialogs = ads[r].pending
     /\ guests[g].st = "in" /\ guests[g].writes /\ ads[r].phase # "stopped" =>
          /\ guests[g].dialogs \subseteq ads[r].pending
          /\ p \notin CanWrite(r) => guests[g].dialogs = {}

Shown == \A g \in Guests : GuestShown(g)

Owned == AsksAreOwned

Core == Typed /\ Linked /\ Tasked /\ Seated

IInv == Core /\ Few /\ Wired /\ Shown /\ Owned /\ ~astray
-----------------------------------------------------------------------------
(* Maps and functions.                                                     *)

LEMMA MapTyped ==
  ASSUME NEW S, NEW f \in Maps(S)
  PROVE  DOMAIN f \subseteq Peers /\ f \in [DOMAIN f -> S]
BY DEF Maps

LEMMA PutTyped ==
  ASSUME NEW S, NEW f \in Maps(S), NEW p \in Peers, NEW v \in S
  PROVE  /\ Put(f, p, v) \in Maps(S) /\ DOMAIN Put(f, p, v) = DOMAIN f \cup {p}
         /\ Put(f, p, v)[p] = v
         /\ \A q \in DOMAIN f : q # p => Put(f, p, v)[q] = f[q]
<1>1. DOMAIN f \subseteq Peers /\ f \in [DOMAIN f -> S]
  BY MapTyped
<1>2. Put(f, p, v) \in [DOMAIN f \cup {p} -> S]
  BY <1>1 DEF Put
<1>3. DOMAIN f \cup {p} \in SUBSET Peers
  BY <1>1
<1> QED BY <1>2, <1>3 DEF Maps, Put

LEMMA DroppedTyped ==
  ASSUME NEW S, NEW f \in Maps(S), NEW p
  PROVE  LET h == Restrict(f, DOMAIN f \ {p})
         IN  /\ h \in Maps(S) /\ DOMAIN h = DOMAIN f \ {p}
             /\ \A q \in DOMAIN f \ {p} : h[q] = f[q]
<1>1. DOMAIN f \subseteq Peers /\ f \in [DOMAIN f -> S]
  BY MapTyped
<1>2. Restrict(f, DOMAIN f \ {p}) \in [DOMAIN f \ {p} -> S]
  BY <1>1 DEF Restrict
<1>3. DOMAIN f \ {p} \in SUBSET Peers
  BY <1>1
<1> QED BY <1>2, <1>3 DEF Maps, Restrict

LEMMA EmptyMap == ASSUME NEW S PROVE <<>> \in Maps(S) /\ DOMAIN <<>> = {}
<1>1. <<>> \in [{} -> S] /\ {} \in SUBSET Peers
  OBVIOUS
<1> QED BY <1>1 DEF Maps

-----------------------------------------------------------------------------
(* What guests make of frames.                                             *)

Frames == [t: {"welcome", "entry", "ask", "end"}, peer: Nat, n: Nat]

LEMMA NumbersOfOne ==
  ASSUME NEW t, NEW p, NEW n, NEW u
  PROVE  Numbers({Frame(t, p, n)}, u) = IF u = t THEN {n} ELSE {}
<1> DEFINE f == Frame(t, p, n)
<1>1. f.t = t /\ f.n = n
  BY DEF Frame
<1> HIDE DEF f
<1>2. Numbers({f}, u) = IF u = t THEN {n} ELSE {}
  BY <1>1 DEF Numbers
<1> QED BY <1>2 DEF f

LEMMA NumbersOfAsks ==
  ASSUME NEW p, NEW S, NEW u
  PROVE  Numbers({Frame("ask", p, n) : n \in S}, u) = IF u = "ask" THEN S ELSE {}
<1> DEFINE fs == {Frame("ask", p, n) : n \in S}
<1>1. \A n : Frame("ask", p, n).t = "ask" /\ Frame("ask", p, n).n = n
  BY DEF Frame
<1>2. ASSUME NEW x PROVE x \in Numbers(fs, u) <=> x \in (IF u = "ask" THEN S ELSE {})
  <2>1. x \in Numbers(fs, u) <=> \E f \in fs : f.t = u /\ x = f.n
    BY DEF Numbers
  <2>2. x \in Numbers(fs, u) <=>
          \E n \in S : Frame("ask", p, n).t = u /\ x = Frame("ask", p, n).n
    BY <2>1
  <2>3. x \in Numbers(fs, u) <=> \E n \in S : "ask" = u /\ x = n
    BY <1>1, <2>2
  <2> QED BY <2>3
<1> QED BY <1>2

LEMMA NumbersOfBoth ==
  ASSUME NEW A, NEW B, NEW u
  PROVE  Numbers(A \cup B, u) = Numbers(A, u) \cup Numbers(B, u)
BY DEF Numbers

LEMMA NumbersOfNone == \A t : Numbers({}, t) = {}
BY DEF Numbers

LEMMA SeenTyped ==
  ASSUME NEW view \in GuestStates, NEW frames \in SUBSET Frames
  PROVE  /\ Seen(view, frames) \in GuestStates
         /\ Seen(view, frames).st = view.st /\ Seen(view, frames).room = view.room
         /\ Seen(view, frames).peer = view.peer /\ Seen(view, frames).writes = view.writes
         /\ Seen(view, frames).heard = view.heard
         /\ Seen(view, frames).dialogs =
              (view.dialogs \cup Numbers(frames, "ask")) \ Numbers(frames, "end")
         /\ Seen(view, frames).log =
              IF Replicas(view, frames) = {} THEN view.log ELSE CHOOSE n \in Replicas(view, frames) : TRUE
         /\ Replicas(view, frames) \subseteq Nat
<1> DEFINE logs == Replicas(view, frames)
           l == IF logs = {} THEN view.log ELSE CHOOSE n \in logs : TRUE
           ds == (view.dialogs \cup Numbers(frames, "ask")) \ Numbers(frames, "end")
<1>1. \A t : Numbers(frames, t) \subseteq Nat
  BY DEF Numbers, Frames
<1>2. logs \subseteq Nat
  BY <1>1 DEF Replicas
<1>3. l \in Int
  <2>1. view.log \in Int
    BY DEF GuestStates
  <2> DEFINE one == CHOOSE n \in logs : TRUE
  <2> HIDE DEF logs
  <2>2. logs # {} => one \in logs
    BY Zenon
  <2> HIDE DEF one
  <2>3. logs # {} => one \in Int
    <3>1. logs \subseteq Int
      BY <1>2 DEF logs
    <3> QED BY <2>2, <3>1
  <2>4. l = IF logs = {} THEN view.log ELSE one
    BY DEF one
  <2> HIDE DEF l
  <2> QED BY <2>1, <2>3, <2>4
<1>4. ds \in SUBSET Nat
  BY <1>1 DEF GuestStates
<1>5. Seen(view, frames) = [view EXCEPT !.log = l, !.dialogs = ds]
  BY DEF Seen
<1> HIDE DEF l, ds
<1>6. /\ Seen(view, frames) \in GuestStates
      /\ Seen(view, frames).st = view.st /\ Seen(view, frames).room = view.room
      /\ Seen(view, frames).peer = view.peer /\ Seen(view, frames).writes = view.writes
      /\ Seen(view, frames).heard = view.heard
      /\ Seen(view, frames).dialogs = ds /\ Seen(view, frames).log = l
  BY <1>3, <1>4, <1>5 DEF GuestStates
<1> QED BY <1>2, <1>6 DEF l, ds

\* Nothing but its replica and its dialogs changes of a guest.
SameSeat(a, b) ==
  a.st = b.st /\ a.room = b.room /\ a.peer = b.peer /\ a.writes = b.writes /\ a.heard = b.heard

Mine(g, frames) == {msg \in frames : Addressed(g, msg)}

\* Whom the host of room k reaches.
Reached(gs, k, g) == Connected(k) /\ g \in InRoom(k) /\ gs[g].st = "in"

LEMMA SentTyped ==
  ASSUME NEW gs \in [Guests -> GuestStates], NEW k \in Rooms, NEW frames \in SUBSET Frames
  PROVE  /\ Sent(gs, k, frames) \in [Guests -> GuestStates]
         /\ \A g \in Guests :
              /\ SameSeat(Sent(gs, k, frames)[g], gs[g])
              /\ Reached(gs, k, g) => Sent(gs, k, frames)[g] = Seen(gs[g], Mine(g, frames))
              /\ ~Reached(gs, k, g) => Sent(gs, k, frames)[g] = gs[g]
<1> DEFINE h == Sent(gs, k, frames)
<1>1. ASSUME NEW g \in Guests
      PROVE  /\ Seen(gs[g], Mine(g, frames)) \in GuestStates
             /\ SameSeat(Seen(gs[g], Mine(g, frames)), gs[g])
  <2>1. Mine(g, frames) \in SUBSET Frames
    BY DEF Mine
  <2> QED BY <2>1, SeenTyped DEF SameSeat
<1>2. h = [g \in Guests |-> IF Reached(gs, k, g) THEN Seen(gs[g], Mine(g, frames)) ELSE gs[g]]
  BY DEF Sent, Forwarded, Reached, Mine
<1> HIDE DEF h
<1>3. h \in [Guests -> GuestStates]
  BY <1>1, <1>2
<1>4. ASSUME NEW g \in Guests
      PROVE  /\ SameSeat(h[g], gs[g])
             /\ Reached(gs, k, g) => h[g] = Seen(gs[g], Mine(g, frames))
             /\ ~Reached(gs, k, g) => h[g] = gs[g]
  BY <1>1, <1>2 DEF SameSeat
<1> QED BY <1>3, <1>4 DEF h

LEMMA WritersArePeers ==
  ASSUME Typed, NEW k \in Rooms
  PROVE  CanWrite(k) \subseteq Peers /\ CanWrite(k) \subseteq DOMAIN ads[k].peers
BY MapTyped DEF CanWrite, Typed, AdapterStates

LEMMA SentToWritable ==
  ASSUME Typed, NEW gs \in [Guests -> GuestStates], NEW k \in Rooms,
         NEW t \in {"ask", "end"}, NEW n \in Nat,
         NEW g \in Guests, gs[g].peer = guests[g].peer, guests[g].peer # 0
  PROVE  LET view == Sent(gs, k, ToWritable(k, t, n))[g]
         IN  /\ view.log = gs[g].log
             /\ view.dialogs =
                  IF Reached(gs, k, g) /\ gs[g].peer \in CanWrite(k)
                  THEN (IF t = "ask" THEN gs[g].dialogs \cup {n} ELSE gs[g].dialogs \ {n})
                  ELSE gs[g].dialogs
<1> DEFINE frames == ToWritable(k, t, n)
           mine == Mine(g, frames)
<1>1. CanWrite(k) \subseteq Peers
  BY WritersArePeers
<1>2. frames \in SUBSET Frames
  BY <1>1 DEF ToWritable, Frame, Frames, Peers
<1>3. mine = IF gs[g].peer \in CanWrite(k) THEN {Frame(t, gs[g].peer, n)} ELSE {}
  BY <1>1 DEF ToWritable, Mine, Addressed, Frame, Peers
<1>4. mine \in SUBSET Frames
  BY <1>2 DEF Mine
<1>5. \A u : Numbers({}, u) = {}
  BY NumbersOfNone
<1>6. /\ Numbers({Frame(t, gs[g].peer, n)}, "ask") = IF t = "ask" THEN {n} ELSE {}
      /\ Numbers({Frame(t, gs[g].peer, n)}, "end") = IF t = "end" THEN {n} ELSE {}
      /\ Numbers({Frame(t, gs[g].peer, n)}, "welcome") = {}
      /\ Numbers({Frame(t, gs[g].peer, n)}, "entry") = {}
  <2> DEFINE q == gs[g].peer
             fs == {Frame(t, q, n)}
  <2> HIDE DEF q
  <2>1. \A u : Numbers({Frame(t, q, n)}, u) = IF u = t THEN {n} ELSE {}
    BY NumbersOfOne
  <2> HIDE DEF fs
  <2>2. /\ Numbers(fs, "ask") = IF t = "ask" THEN {n} ELSE {}
        /\ Numbers(fs, "end") = IF t = "end" THEN {n} ELSE {}
        /\ Numbers(fs, "welcome") = {} /\ Numbers(fs, "entry") = {}
    BY <2>1 DEF fs
  <2> QED BY <2>2 DEF fs, q
<1> HIDE DEF mine
<1>7. Replicas(gs[g], mine) = {}
  BY <1>3, <1>5, <1>6 DEF Replicas
<1>8. /\ Seen(gs[g], mine).log = gs[g].log
      /\ Seen(gs[g], mine).dialogs =
           (gs[g].dialogs \cup Numbers(mine, "ask")) \ Numbers(mine, "end")
  BY <1>4, <1>7, SeenTyped
<1>9. Seen(gs[g], mine).dialogs =
        IF gs[g].peer \in CanWrite(k)
        THEN (IF t = "ask" THEN gs[g].dialogs \cup {n} ELSE gs[g].dialogs \ {n})
        ELSE gs[g].dialogs
  BY <1>3, <1>5, <1>6, <1>8
<1>10. /\ Reached(gs, k, g) => Sent(gs, k, frames)[g] = Seen(gs[g], mine)
       /\ ~Reached(gs, k, g) => Sent(gs, k, frames)[g] = gs[g]
  BY <1>2, SentTyped DEF mine
<1> HIDE DEF frames
<1> QED BY <1>8, <1>9, <1>10 DEF frames

LEMMA SentEntry ==
  ASSUME Typed, NEW gs \in [Guests -> GuestStates], NEW k \in Rooms, NEW n \in Nat,
         NEW g \in Guests
  PROVE  LET view == Sent(gs, k, {Frame("entry", 0, n)})[g]
         IN  /\ view.dialogs = gs[g].dialogs
             /\ view.log = IF Reached(gs, k, g) /\ gs[g].log = n - 1 THEN n ELSE gs[g].log
<1> DEFINE frames == {Frame("entry", 0, n)}
           mine == Mine(g, frames)
<1>1. frames \in SUBSET Frames /\ mine = frames
  BY DEF Frame, Frames, Mine, Addressed
<1>2. /\ Numbers(frames, "ask") = {} /\ Numbers(frames, "end") = {}
      /\ Numbers(frames, "welcome") = {} /\ Numbers(frames, "entry") = {n}
  <2>1. \A u : Numbers(frames, u) = IF u = "entry" THEN {n} ELSE {}
    BY NumbersOfOne
  <2> HIDE DEF frames
  <2> QED BY <2>1
<1>3. Replicas(gs[g], frames) = IF gs[g].log = n - 1 THEN {n} ELSE {}
  BY <1>2 DEF Replicas
<1>4. (CHOOSE x \in {n} : TRUE) = n
  OBVIOUS
<1> HIDE DEF mine, frames
<1>5. /\ Seen(gs[g], frames).dialogs = gs[g].dialogs
      /\ Seen(gs[g], frames).log = IF gs[g].log = n - 1 THEN n ELSE gs[g].log
  <2>1. /\ Seen(gs[g], frames).dialogs =
             (gs[g].dialogs \cup Numbers(frames, "ask")) \ Numbers(frames, "end")
        /\ Seen(gs[g], frames).log =
             IF Replicas(gs[g], frames) = {} THEN gs[g].log
             ELSE CHOOSE x \in Replicas(gs[g], frames) : TRUE
    BY <1>1, SeenTyped
  <2>2. CASE gs[g].log = n - 1
    BY <1>2, <1>3, <1>4, <2>1, <2>2
  <2>3. CASE gs[g].log # n - 1
    BY <1>2, <1>3, <2>1, <2>3
  <2> QED BY <2>2, <2>3
<1>6. /\ Reached(gs, k, g) => Sent(gs, k, frames)[g] = Seen(gs[g], frames)
      /\ ~Reached(gs, k, g) => Sent(gs, k, frames)[g] = gs[g]
  BY <1>1, SentTyped DEF mine
<1> QED BY <1>5, <1>6 DEF frames

LEMMA SentGreeting ==
  ASSUME Typed, NEW gs \in [Guests -> GuestStates], NEW k \in Rooms, NEW writes \in BOOLEAN,
         Peer(k) \in Peers, NEW g \in Guests, gs[g].peer = guests[g].peer
  PROVE  LET view == Sent(gs, k, Greeting(k, writes))[g]
         IN  IF Reached(gs, k, g) /\ gs[g].peer = Peer(k)
             THEN /\ view.log = log
                  /\ view.dialogs = gs[g].dialogs \cup (IF writes THEN ads[k].pending ELSE {})
             ELSE view = gs[g] \/ (view.log = gs[g].log /\ view.dialogs = gs[g].dialogs)
<1> DEFINE frames == Greeting(k, writes)
           mine == Mine(g, frames)
<1>1. ads[k].pending \subseteq Nat /\ log \in Nat
  BY DEF Typed, AdapterStates
<1>2. frames \in SUBSET Frames
  BY <1>1 DEF Greeting, Pending, Frame, Frames, Peers
<1>3. Peer(k) # 0
  BY DEF Peers
<1>4. mine \in SUBSET Frames /\ mine = IF gs[g].peer = Peer(k) THEN frames ELSE {}
  BY <1>2, <1>3 DEF Greeting, Pending, Frame, Mine, Addressed
<1>5. /\ Numbers(frames, "ask") = IF writes THEN ads[k].pending ELSE {}
      /\ Numbers(frames, "end") = {}
      /\ Numbers(frames, "welcome") = {log} /\ Numbers(frames, "entry") = {}
  <2>1. CASE writes
    <3>1. frames = {Frame("welcome", Peer(k), log)} \cup {Frame("ask", Peer(k), n) : n \in ads[k].pending}
      BY <2>1 DEF Greeting, Pending
    <3> DEFINE w == {Frame("welcome", Peer(k), log)}
               x == {Frame("ask", Peer(k), n) : n \in ads[k].pending}
    <3>2. \A u : Numbers(w, u) = IF u = "welcome" THEN {log} ELSE {}
      BY NumbersOfOne
    <3>3. \A u : Numbers(x, u) = IF u = "ask" THEN ads[k].pending ELSE {}
      BY NumbersOfAsks
    <3>4. \A u : Numbers(frames, u) = Numbers(w, u) \cup Numbers(x, u)
      BY <3>1, NumbersOfBoth
    <3> HIDE DEF w, x, frames
    <3> QED BY <2>1, <3>2, <3>3, <3>4
  <2>2. CASE ~writes
    <3>1. frames = {Frame("welcome", Peer(k), log)}
      BY <2>2 DEF Greeting
    <3> DEFINE w == {Frame("welcome", Peer(k), log)}
    <3>2. \A u : Numbers(w, u) = IF u = "welcome" THEN {log} ELSE {}
      BY NumbersOfOne
    <3>3. frames = w
      BY <3>1
    <3> HIDE DEF frames, w
    <3> QED BY <2>2, <3>2, <3>3
  <2> QED BY <2>1, <2>2
<1>6. \A t : Numbers({}, t) = {}
  BY NumbersOfNone
<1>7. Replicas(gs[g], frames) = {log} /\ Replicas(gs[g], {}) = {}
  BY <1>5, <1>6 DEF Replicas
<1>8. (CHOOSE x \in {log} : TRUE) = log
  OBVIOUS
<1> HIDE DEF frames, mine
<1>9. /\ Seen(gs[g], frames).log = log
      /\ Seen(gs[g], frames).dialogs = gs[g].dialogs \cup (IF writes THEN ads[k].pending ELSE {})
  BY <1>2, <1>5, <1>7, <1>8, SeenTyped
<1>10. Seen(gs[g], {}).log = gs[g].log /\ Seen(gs[g], {}).dialogs = gs[g].dialogs
  <2>1. {} \in SUBSET Frames
    OBVIOUS
  <2>2. /\ Seen(gs[g], {}).dialogs = (gs[g].dialogs \cup Numbers({}, "ask")) \ Numbers({}, "end")
        /\ Replicas(gs[g], {}) = {} => Seen(gs[g], {}).log = gs[g].log
    BY <2>1, SeenTyped
  <2> QED BY <1>6, <1>7, <2>2
<1>11. /\ Reached(gs, k, g) => Sent(gs, k, frames)[g] = Seen(gs[g], mine)
       /\ ~Reached(gs, k, g) => Sent(gs, k, frames)[g] = gs[g]
  BY <1>2, SentTyped DEF mine
<1> QED BY <1>4, <1>9, <1>10, <1>11 DEF frames
-----------------------------------------------------------------------------
(* Types.                                                                  *)

\* One adapter is replaced by another state.
LEMMA OneAdapter ==
  ASSUME Typed, NEW k \in Rooms, NEW a \in AdapterStates, ads' = [ads EXCEPT ![k] = a]
  PROVE  /\ ads' \in [Rooms -> AdapterStates] /\ ads'[k] = a
         /\ \A j \in Rooms : j # k => ads'[j] = ads[j]
BY DEF Typed

LEMMA NoAdapterTyped == ASSUME Typed PROVE NoAdapter \in AdapterStates
<1>1. <<>> \in Maps(BOOLEAN)
  BY EmptyMap
<1> QED BY <1>1 DEF NoAdapter, AdapterStates

LEMMA StoppedTyped ==
  ASSUME Typed, NEW k \in Rooms
  PROVE  /\ Stopped(k) \in AdapterStates
         /\ Stopped(k).phase = "stopped" /\ Stopped(k).sock = "none" /\ Stopped(k).dial = 0
         /\ Stopped(k).peers = <<>> /\ Stopped(k).pending = {} /\ Stopped(k).session = 0
         /\ Stopped(k).turns = ads[k].turns
<1>1. NoAdapter \in AdapterStates /\ ads[k].turns \in SUBSET {"command", "switch"}
  BY NoAdapterTyped DEF Typed, AdapterStates
<1>2. Stopped(k) \in AdapterStates
  BY <1>1 DEF Stopped, AdapterStates
<1> QED BY <1>2 DEF Stopped, NoAdapter

LEMMA HeadTyped ==
  ASSUME Typed, NEW k \in Rooms, down[k] # <<>>
  PROVE  /\ Head(down[k]) \in Messages /\ Head(down[k]) = down[k][1]
         /\ Peer(k) = down[k][1].peer /\ Peer(k) \in Peers
         /\ Tail(down[k]) \in Seq(Messages) /\ Len(Tail(down[k])) = Len(down[k]) - 1
         /\ \A i \in DOMAIN Tail(down[k]) :
              i \in Nat /\ i + 1 \in DOMAIN down[k] /\ i + 1 # 1 /\ Tail(down[k])[i] = down[k][i + 1]
         /\ 1 \in DOMAIN down[k]
<1>1. down[k] \in Seq(Messages)
  BY DEF Typed
<1>2. Head(down[k]) \in Messages /\ Head(down[k]) = down[k][1] /\ Tail(down[k]) \in Seq(Messages)
      /\ Len(Tail(down[k])) = Len(down[k]) - 1 /\ Len(down[k]) \in Nat /\ Len(down[k]) > 0
  BY <1>1
<1>3. Head(down[k]).peer \in Peers
  BY <1>2 DEF Messages
<1>4. DOMAIN down[k] = 1..Len(down[k]) /\ DOMAIN Tail(down[k]) = 1..(Len(down[k]) - 1)
  BY <1>1, <1>2
<1>5. ASSUME NEW i \in DOMAIN Tail(down[k])
      PROVE  i \in Nat /\ i + 1 \in DOMAIN down[k] /\ i + 1 # 1 /\ Tail(down[k])[i] = down[k][i + 1]
  BY <1>1, <1>2, <1>4
<1> QED BY <1>2, <1>3, <1>4, <1>5 DEF Peer

LEMMA Spoken ==
  ASSUME Typed, NEW k \in Rooms, down[k] # <<>>
  PROVE  /\ Head(down[k]).t \in {"hello", "prompt"} => Head(down[k]).n \in BOOLEAN
         /\ Head(down[k]).t \in {"answer", "left"} => Head(down[k]).n \in Nat
BY HeadTyped DEF Messages

\* What a guest sends is appended, or dropped.
LEMMA ToHostTyped ==
  ASSUME Typed, NEW r \in Rooms, NEW msg \in Messages
  PROVE  /\ ToHost(r, msg) \in [Rooms -> Seq(Messages)]
         /\ \A k \in Rooms : k # r => ToHost(r, msg)[k] = down[k]
         /\ ToHost(r, msg)[r] = IF Live(r) /\ dials[rooms[r].host].alive
                                THEN Append(down[r], msg) ELSE down[r]
<1>1. down \in [Rooms -> Seq(Messages)]
  BY DEF Typed
<1>2. Append(down[r], msg) \in Seq(Messages)
  BY <1>1
<1> DEFINE s == Append(down[r], msg)
<1>3. ToHost(r, msg) = IF Live(r) /\ dials[rooms[r].host].alive
                       THEN [down EXCEPT ![r] = s] ELSE down
  BY DEF ToHost
<1> HIDE DEF s
<1>4. s \in Seq(Messages)
  BY <1>2 DEF s
<1>5. /\ ToHost(r, msg) \in [Rooms -> Seq(Messages)]
      /\ \A k \in Rooms : k # r => ToHost(r, msg)[k] = down[k]
      /\ ToHost(r, msg)[r] = IF Live(r) /\ dials[rooms[r].host].alive THEN s ELSE down[r]
  BY <1>1, <1>3, <1>4
<1> QED BY <1>5 DEF s

LEMMA Appended ==
  ASSUME NEW s \in Seq(Messages), NEW msg \in Messages
  PROVE  /\ DOMAIN Append(s, msg) = 1..(Len(s) + 1) /\ DOMAIN s = 1..Len(s) /\ Len(s) \in Nat
         /\ Append(s, msg)[Len(s) + 1] = msg
         /\ \A i \in DOMAIN s : Append(s, msg)[i] = s[i]
         /\ \A i \in DOMAIN Append(s, msg) : i \in DOMAIN s \/ i = Len(s) + 1
OBVIOUS

LEMMA EvictedTyped ==
  ASSUME Typed, NEW r \in Rooms
  PROVE  /\ Evicted(r) \in [Guests -> GuestStates]
         /\ \A g \in Guests :
              IF g \in InRoom(r) /\ guests[g].st = "in"
              THEN /\ Evicted(r)[g].st = "ending" /\ ~Evicted(r)[g].heard
                   /\ Evicted(r)[g].room = guests[g].room /\ Evicted(r)[g].peer = guests[g].peer
              ELSE Evicted(r)[g] = guests[g]
BY DEF Evicted, Typed, GuestStates

LEMMA UnheardTyped ==
  ASSUME Typed, NEW k \in Rooms
  PROVE  /\ Unheard(guests, k) \in [Guests -> GuestStates]
         /\ \A g \in Guests :
              IF guests[g].room = k
              THEN /\ Unheard(guests, k)[g].st = guests[g].st /\ ~Unheard(guests, k)[g].heard
                   /\ Unheard(guests, k)[g].room = k /\ Unheard(guests, k)[g].peer = guests[g].peer
                   /\ Unheard(guests, k)[g].writes = guests[g].writes
                   /\ Unheard(guests, k)[g].log = guests[g].log
                   /\ Unheard(guests, k)[g].dialogs = guests[g].dialogs
              ELSE Unheard(guests, k)[g] = guests[g]
BY DEF Unheard, Typed, GuestStates

LEMMA HeardTyped ==
  ASSUME Typed, NEW k \in Rooms
  PROVE  /\ Heard(k) \in [Guests -> GuestStates]
         /\ \A g \in Guests :
              /\ Heard(k)[g].st = guests[g].st /\ Heard(k)[g].room = guests[g].room
              /\ Heard(k)[g].peer = guests[g].peer /\ Heard(k)[g].writes = guests[g].writes
              /\ Heard(k)[g].log = guests[g].log /\ Heard(k)[g].dialogs = guests[g].dialogs
              /\ Heard(k)[g].heard =
                   (guests[g].heard \/ (guests[g].st = "in" /\ guests[g].room = k /\ guests[g].peer = Peer(k)))
<1> DEFINE Met(g) == guests[g].st = "in" /\ guests[g].room = k /\ guests[g].peer = Peer(k)
<1>1. Heard(k) = [g \in Guests |-> IF Met(g) THEN [guests[g] EXCEPT !.heard = TRUE] ELSE guests[g]]
  BY DEF Heard
<1>2. ASSUME NEW g \in Guests
      PROVE  /\ Heard(k)[g] \in GuestStates
             /\ Heard(k)[g].st = guests[g].st /\ Heard(k)[g].room = guests[g].room
             /\ Heard(k)[g].peer = guests[g].peer /\ Heard(k)[g].writes = guests[g].writes
             /\ Heard(k)[g].log = guests[g].log /\ Heard(k)[g].dialogs = guests[g].dialogs
             /\ Heard(k)[g].heard = (guests[g].heard \/ Met(g))
  <2>1. guests[g] \in GuestStates
    BY DEF Typed
  <2>2. CASE Met(g)
    <3>1. Heard(k)[g] = [guests[g] EXCEPT !.heard = TRUE]
      BY <1>1, <2>2
    <3> HIDE DEF Met
    <3> QED BY <2>1, <2>2, <3>1 DEF GuestStates
  <2>3. CASE ~Met(g)
    <3>1. Heard(k)[g] = guests[g] /\ guests[g].heard \in BOOLEAN
      BY <1>1, <2>1, <2>3 DEF GuestStates
    <3> HIDE DEF Met
    <3> QED BY <2>1, <2>3, <3>1
  <2> QED BY <2>2, <2>3
<1>3. Heard(k) \in [Guests -> GuestStates]
  <2> DEFINE h == Heard(k)
  <2>1. h = [g \in Guests |-> h[g]]
    BY <1>1
  <2>2. \A g \in Guests : h[g] \in GuestStates
    BY <1>2
  <2> HIDE DEF h
  <2>3. h \in [Guests -> GuestStates]
    BY <2>1, <2>2
  <2> QED BY <2>3 DEF h
<1> QED BY <1>2, <1>3
-----------------------------------------------------------------------------
(* What a step does to one adapter.                                        *)

SameLink(k) ==
  ads'[k].phase = ads[k].phase /\ ads'[k].sock = ads[k].sock /\ ads'[k].dial = ads[k].dial

SamePeers(k) == ads'[k].peers = ads[k].peers

SamePending(k) == ads'[k].pending = ads[k].pending

SameSession(k) == ads'[k].session = ads[k].session

OthersSame(k) == \A j \in Rooms : j # k => ads'[j] = ads[j]

LEMMA PendingSet ==
  ASSUME Typed, NEW k \in Rooms, NEW S \in SUBSET Nat, ads' = [ads EXCEPT ![k].pending = S]
  PROVE  /\ ads' \in [Rooms -> AdapterStates] /\ OthersSame(k) /\ ads'[k].pending = S
         /\ SameLink(k) /\ SamePeers(k) /\ SameSession(k)
<1> DEFINE a == [ads[k] EXCEPT !.pending = S]
<1>1. ads[k] \in AdapterStates /\ ads' = [ads EXCEPT ![k] = a]
  BY DEF Typed
<1>2. /\ a \in AdapterStates /\ a.pending = S /\ a.peers = ads[k].peers /\ a.session = ads[k].session
      /\ a.phase = ads[k].phase /\ a.sock = ads[k].sock /\ a.dial = ads[k].dial
  BY <1>1 DEF AdapterStates
<1> HIDE DEF a
<1> QED BY <1>1, <1>2, OneAdapter DEF OthersSame, SameLink, SamePeers, SameSession

LEMMA PeersSet ==
  ASSUME Typed, NEW k \in Rooms, NEW f \in Maps(BOOLEAN), ads' = [ads EXCEPT ![k].peers = f]
  PROVE  /\ ads' \in [Rooms -> AdapterStates] /\ OthersSame(k) /\ ads'[k].peers = f
         /\ SameLink(k) /\ SamePending(k) /\ SameSession(k)
<1> DEFINE a == [ads[k] EXCEPT !.peers = f]
<1>1. ads[k] \in AdapterStates /\ ads' = [ads EXCEPT ![k] = a]
  BY DEF Typed
<1>2. /\ a \in AdapterStates /\ a.pending = ads[k].pending /\ a.peers = f /\ a.session = ads[k].session
      /\ a.phase = ads[k].phase /\ a.sock = ads[k].sock /\ a.dial = ads[k].dial
  BY <1>1 DEF AdapterStates
<1> HIDE DEF a
<1> QED BY <1>1, <1>2, OneAdapter DEF OthersSame, SameLink, SamePending, SameSession

LEMMA TurnsSet ==
  ASSUME Typed, NEW k \in Rooms, NEW T \in SUBSET {"command", "switch"},
         ads' = [ads EXCEPT ![k].turns = T]
  PROVE  /\ ads' \in [Rooms -> AdapterStates] /\ OthersSame(k)
         /\ SameLink(k) /\ SamePeers(k) /\ SamePending(k) /\ SameSession(k)
<1> DEFINE a == [ads[k] EXCEPT !.turns = T]
<1>1. ads[k] \in AdapterStates /\ ads' = [ads EXCEPT ![k] = a]
  BY DEF Typed
<1>2. /\ a \in AdapterStates /\ a.pending = ads[k].pending /\ a.peers = ads[k].peers
      /\ a.session = ads[k].session
      /\ a.phase = ads[k].phase /\ a.sock = ads[k].sock /\ a.dial = ads[k].dial
  BY <1>1 DEF AdapterStates
<1> HIDE DEF a
<1> QED BY <1>1, <1>2, OneAdapter DEF OthersSame, SameLink, SamePeers, SamePending, SameSession

LEMMA LinkSet ==
  ASSUME Typed, NEW k \in Rooms, NEW d \in Dials \cup {0}, NEW s \in {"dialing", "down"},
         ads' = [ads EXCEPT ![k].sock = s, ![k].dial = d]
  PROVE  /\ ads' \in [Rooms -> AdapterStates] /\ OthersSame(k)
         /\ ads'[k].sock = s /\ ads'[k].dial = d /\ ads'[k].phase = ads[k].phase
         /\ SamePeers(k) /\ SamePending(k) /\ SameSession(k)
<1> DEFINE a == [ads[k] EXCEPT !.sock = s, !.dial = d]
<1>1. ads[k] \in AdapterStates /\ ads' = [ads EXCEPT ![k] = a]
  BY DEF Typed
<1>2. /\ a \in AdapterStates /\ a.pending = ads[k].pending /\ a.peers = ads[k].peers
      /\ a.session = ads[k].session
      /\ a.phase = ads[k].phase /\ a.sock = s /\ a.dial = d
  BY <1>1 DEF AdapterStates
<1> HIDE DEF a
<1> QED BY <1>1, <1>2, OneAdapter DEF OthersSame, SamePeers, SamePending, SameSession

LEMMA OpenSet ==
  ASSUME Typed, NEW k \in Rooms, ads' = [ads EXCEPT ![k].sock = "open", ![k].phase = "live"]
  PROVE  /\ ads' \in [Rooms -> AdapterStates] /\ OthersSame(k)
         /\ ads'[k].sock = "open" /\ ads'[k].phase = "live" /\ ads'[k].dial = ads[k].dial
         /\ SamePeers(k) /\ SamePending(k) /\ SameSession(k)
<1> DEFINE a == [ads[k] EXCEPT !.sock = "open", !.phase = "live"]
<1>1. ads[k] \in AdapterStates /\ ads' = [ads EXCEPT ![k] = a]
  BY DEF Typed
<1>2. /\ a \in AdapterStates /\ a.pending = ads[k].pending /\ a.peers = ads[k].peers
      /\ a.session = ads[k].session
      /\ a.phase = "live" /\ a.sock = "open" /\ a.dial = ads[k].dial
  BY <1>1 DEF AdapterStates
<1> HIDE DEF a
<1> QED BY <1>1, <1>2, OneAdapter DEF OthersSame, SamePeers, SamePending, SameSession

\* A start that failed and an end by itself or by a stop: what is left of it.
Ended(k) ==
  /\ ads'[k].phase = "stopped" /\ ads'[k].sock = "none" /\ ads'[k].peers = <<>>
  /\ ads'[k].pending = {} /\ ads'[k].session = 0

LEMMA StoppedSet ==
  ASSUME Typed, NEW k \in Rooms, NEW T \in SUBSET {"command", "switch"},
         ads' = [ads EXCEPT ![k] = [Stopped(k) EXCEPT !.turns = T]]
  PROVE  ads' \in [Rooms -> AdapterStates] /\ OthersSame(k) /\ Ended(k)
<1> DEFINE s == Stopped(k)
           a == [s EXCEPT !.turns = T]
<1>1. s \in AdapterStates /\ s.phase = "stopped" /\ s.sock = "none" /\ s.peers = <<>>
      /\ s.pending = {} /\ s.session = 0
  BY StoppedTyped
<1>2. ads' = [ads EXCEPT ![k] = a]
  OBVIOUS
<1> HIDE DEF s
<1>3. a \in AdapterStates /\ a.phase = "stopped" /\ a.sock = "none" /\ a.peers = <<>>
      /\ a.pending = {} /\ a.session = 0
  BY <1>1 DEF AdapterStates
<1> HIDE DEF a
<1> QED BY <1>2, <1>3, OneAdapter DEF OthersSame, Ended

LEMMA EndedByItself ==
  ASSUME Typed, NEW k \in Rooms, ads' = [ads EXCEPT ![k] = Stopped(k)]
  PROVE  ads' \in [Rooms -> AdapterStates] /\ OthersSame(k) /\ Ended(k)
BY StoppedTyped, OneAdapter DEF OthersSame, Ended

\* A dial that fails: a start fails with it, a live adapter is between two.
LEMMA DialIsLost ==
  ASSUME Typed, NEW k \in Rooms, DialLost(k)
  PROVE  /\ ads' \in [Rooms -> AdapterStates] /\ OthersSame(k) /\ starting' \in BOOLEAN
         /\ ads[k].phase = "dialing" => Ended(k)
         /\ ads[k].phase # "dialing" => /\ ads'[k].sock = "down" /\ ads'[k].phase = ads[k].phase
                                        /\ SamePeers(k) /\ SamePending(k) /\ SameSession(k)
<1>1. CASE ads[k].phase = "dialing"
  BY <1>1, EndedByItself DEF DialLost, Typed
<1>2. CASE ads[k].phase # "dialing"
  <2>1. ads' = [ads EXCEPT ![k].sock = "down", ![k].dial = 0] /\ starting' = starting
    BY <1>2 DEF DialLost
  <2>2. 0 \in Dials \cup {0} /\ "down" \in {"dialing", "down"}
    OBVIOUS
  <2> QED BY <1>2, <2>1, <2>2, LinkSet DEF Typed
<1> QED BY <1>1, <1>2
-----------------------------------------------------------------------------
(* What a step does to one room or one dial.                               *)

OtherRoomsSame(r) == \A q \in Rooms : q # r => rooms'[q] = rooms[q]

OtherDialsSame(d) == \A e \in Dials : e # d => dials'[e] = dials[e]

LEMMA OneRoom ==
  ASSUME Typed, NEW r \in Rooms, NEW room \in RoomStates, rooms' = [rooms EXCEPT ![r] = room]
  PROVE  rooms' \in [Rooms -> RoomStates] /\ rooms'[r] = room /\ OtherRoomsSame(r)
BY DEF Typed, OtherRoomsSame

LEMMA OneDial ==
  ASSUME Typed, NEW d \in Dials, NEW dial \in DialStates, dials' = [dials EXCEPT ![d] = dial]
  PROVE  dials' \in [Dials -> DialStates] /\ dials'[d] = dial /\ OtherDialsSame(d)
BY DEF Typed, OtherDialsSame

LEMMA NoRoomTyped == NoRoom \in RoomStates /\ DOMAIN NoRoom.guests = {} /\ NoRoom.next = 1
<1>1. <<>> \in Maps(Guests) /\ DOMAIN <<>> = {}
  BY EmptyMap
<1> QED BY <1>1 DEF NoRoom, RoomStates, Peers

LEMMA FreeDialTyped == FreeDial \in DialStates
BY DEF FreeDial, DialStates

LEMMA DialFreed ==
  ASSUME Typed, NEW d \in Dials, dials' = [dials EXCEPT ![d] = FreeDial]
  PROVE  dials' \in [Dials -> DialStates] /\ dials'[d] = FreeDial /\ OtherDialsSame(d)
BY FreeDialTyped, OneDial

LEMMA DialAsked ==
  ASSUME Typed, NEW d \in Dials, NEW k \in Rooms,
         dials' = [dials EXCEPT ![d] = [st |-> "asked", room |-> k, alive |-> TRUE]]
  PROVE  /\ dials' \in [Dials -> DialStates] /\ OtherDialsSame(d)
         /\ dials'[d].st = "asked" /\ dials'[d].room = k /\ dials'[d].alive
<1> DEFINE a == [st |-> "asked", room |-> k, alive |-> TRUE]
<1>1. a \in DialStates /\ a.st = "asked" /\ a.room = k /\ a.alive
  BY DEF DialStates
<1> HIDE DEF a
<1> QED BY <1>1, OneDial DEF a

LEMMA DialTurned ==
  ASSUME Typed, NEW d \in Dials, NEW s \in {"upgraded", "open"},
         dials' = [dials EXCEPT ![d].st = s]
  PROVE  /\ dials' \in [Dials -> DialStates] /\ OtherDialsSame(d)
         /\ dials'[d].st = s /\ dials'[d].room = dials[d].room /\ dials'[d].alive = dials[d].alive
<1> DEFINE a == [dials[d] EXCEPT !.st = s]
<1>1. dials[d] \in DialStates /\ dials' = [dials EXCEPT ![d] = a]
  BY DEF Typed
<1>2. a \in DialStates /\ a.st = s /\ a.room = dials[d].room /\ a.alive = dials[d].alive
  BY <1>1 DEF DialStates
<1> HIDE DEF a
<1> QED BY <1>1, <1>2, OneDial

\* The dial of an adapter that hangs up is free, or about to close.
LEMMA HungUpTyped ==
  ASSUME Typed, NEW k \in Rooms,
         ads[k].sock \in {"dialing", "open"} => ads[k].dial \in Dials
  PROVE  /\ HungUp(k) \in [Dials -> DialStates]
         /\ \A d \in Dials :
              IF ads[k].sock \in {"dialing", "open"} /\ ads[k].dial = d
              THEN IF dials[d].st = "asked"
                   THEN HungUp(k)[d] = FreeDial
                   ELSE /\ HungUp(k)[d].st = dials[d].st /\ HungUp(k)[d].room = dials[d].room
                        /\ ~HungUp(k)[d].alive
              ELSE HungUp(k)[d] = dials[d]
<1>1. CASE ads[k].sock \in {"dialing", "open"}
  <2> DEFINE e == ads[k].dial
             cut == [dials[e] EXCEPT !.alive = FALSE]
             a == IF dials[e].st = "asked" THEN FreeDial ELSE cut
  <2>1. HungUp(k) = [dials EXCEPT ![e] = a]
    BY <1>1 DEF HungUp
  <2>2. e \in Dials /\ dials[e] \in DialStates
    BY <1>1 DEF Typed
  <2>3. cut \in DialStates /\ cut.st = dials[e].st /\ cut.room = dials[e].room /\ ~cut.alive
    BY <2>2 DEF DialStates
  <2> HIDE DEF cut
  <2>4. a \in DialStates
    BY <2>3, FreeDialTyped
  <2>5. IF dials[e].st = "asked" THEN a = FreeDial
        ELSE a.st = dials[e].st /\ a.room = dials[e].room /\ ~a.alive
    BY <2>3
  <2> HIDE DEF a, e
  <2>6. HungUp(k) \in [Dials -> DialStates] /\ HungUp(k)[e] = a
        /\ \A d \in Dials : d # e => HungUp(k)[d] = dials[d]
    BY <2>1, <2>2, <2>4 DEF Typed
  <2> QED BY <1>1, <2>2, <2>5, <2>6 DEF e
<1>2. CASE ads[k].sock \notin {"dialing", "open"}
  <2>1. HungUp(k) = dials
    BY <1>2 DEF HungUp
  <2> QED BY <1>2, <2>1 DEF Typed
<1> QED BY <1>1, <1>2

LEMMA Admitted ==
  ASSUME Typed, NEW d \in Dials, dials[d].room \in Rooms, rooms' = Admit(d)
  PROVE  LET r == dials[d].room
         IN  /\ rooms' \in [Rooms -> RoomStates] /\ OtherRoomsSame(r)
             /\ rooms'[r].present /\ rooms'[r].host = d /\ ~rooms'[r].timer
             /\ rooms'[r].guests = rooms[r].guests /\ rooms'[r].next = rooms[r].next
<1> DEFINE r == dials[d].room
           half == [rooms[r] EXCEPT !.present = TRUE, !.host = d]
           a == [half EXCEPT !.timer = FALSE]
<1>1. r \in Rooms
  OBVIOUS
<1>2. rooms' = [rooms EXCEPT ![r].present = TRUE, ![r].host = d, ![r].timer = FALSE]
  BY DEF Admit
<1> HIDE DEF r
<1>3. rooms[r] \in RoomStates /\ rooms' = [rooms EXCEPT ![r] = a]
  BY <1>1, <1>2 DEF Typed
<1>4. half \in RoomStates /\ half.present /\ half.host = d /\ half.guests = rooms[r].guests
      /\ half.next = rooms[r].next
  BY <1>3 DEF RoomStates
<1> HIDE DEF half
<1>5. a \in RoomStates /\ a.present /\ a.host = d /\ ~a.timer /\ a.guests = rooms[r].guests
      /\ a.next = rooms[r].next
  BY <1>4 DEF RoomStates
<1> HIDE DEF a
<1>6. rooms' \in [Rooms -> RoomStates] /\ rooms'[r] = a /\ OtherRoomsSame(r)
  BY <1>1, <1>3, <1>5, OneRoom
<1> QED BY <1>5, <1>6 DEF r

LEMMA OrphanedTyped ==
  ASSUME Typed, NEW d \in Dials, dials[d].room \in Rooms, rooms' = Orphaned(d)
  PROVE  LET r == dials[d].room
         IN  /\ rooms' \in [Rooms -> RoomStates] /\ OtherRoomsSame(r)
             /\ rooms'[r].guests = rooms[r].guests /\ rooms'[r].next = rooms[r].next
             /\ rooms'[r].present = rooms[r].present
             /\ IF rooms[r].present /\ rooms[r].host = d
                THEN rooms'[r].host = 0 /\ rooms'[r].timer
                ELSE rooms'[r] = rooms[r]
<1> DEFINE r == dials[d].room
           a == [rooms[r] EXCEPT !.host = 0, !.timer = TRUE]
<1>1. r \in Rooms /\ rooms[r] \in RoomStates
  BY DEF Typed
<1>2. rooms' = IF rooms[r].present /\ rooms[r].host = d
               THEN [rooms EXCEPT ![r].host = 0, ![r].timer = TRUE] ELSE rooms
  BY DEF Orphaned
<1> HIDE DEF r
<1>3. a \in RoomStates /\ a.present = rooms[r].present /\ a.host = 0 /\ a.timer
      /\ a.guests = rooms[r].guests /\ a.next = rooms[r].next
  BY <1>1 DEF RoomStates
<1>4. [rooms EXCEPT ![r].host = 0, ![r].timer = TRUE] = [rooms EXCEPT ![r] = a]
  BY <1>1 DEF Typed
<1> HIDE DEF a
<1>5. CASE rooms[r].present /\ rooms[r].host = d
  <2>1. rooms' \in [Rooms -> RoomStates] /\ rooms'[r] = a /\ OtherRoomsSame(r)
    BY <1>1, <1>2, <1>3, <1>4, <1>5, OneRoom
  <2> QED BY <1>3, <1>5, <2>1 DEF r
<1>6. CASE ~(rooms[r].present /\ rooms[r].host = d)
  BY <1>2, <1>6 DEF OtherRoomsSame, Typed, r
<1> QED BY <1>5, <1>6

LEMMA RoomClosed ==
  ASSUME Typed, NEW r \in Rooms, rooms' = [rooms EXCEPT ![r] = NoRoom]
  PROVE  rooms' \in [Rooms -> RoomStates] /\ rooms'[r] = NoRoom /\ OtherRoomsSame(r)
BY NoRoomTyped, OneRoom

LEMMA GuestAdded ==
  ASSUME Typed, NEW r \in Rooms, NEW g \in Guests,
         rooms' = [rooms EXCEPT ![r].guests = Put(@, rooms[r].next, g), ![r].next = @ + 1]
  PROVE  /\ rooms' \in [Rooms -> RoomStates] /\ OtherRoomsSame(r)
         /\ rooms'[r].guests = Put(rooms[r].guests, rooms[r].next, g)
         /\ rooms'[r].next = rooms[r].next + 1 /\ rooms'[r].present = rooms[r].present
         /\ rooms'[r].host = rooms[r].host /\ rooms'[r].timer = rooms[r].timer
<1> DEFINE f == Put(rooms[r].guests, rooms[r].next, g)
           n == rooms[r].next + 1
           a == [rooms[r] EXCEPT !.guests = f, !.next = n]
<1>1. rooms[r] \in RoomStates /\ rooms' = [rooms EXCEPT ![r] = a]
  BY DEF Typed
<1>2. f \in Maps(Guests) /\ n \in Peers
  <2>1. rooms[r].next \in Peers /\ rooms[r].guests \in Maps(Guests)
    BY <1>1 DEF RoomStates
  <2>2. n \in Peers
    BY <2>1 DEF Peers
  <2> QED BY <2>1, <2>2, PutTyped
<1> HIDE DEF f, n
<1>3. a \in RoomStates /\ a.guests = f /\ a.next = n /\ a.present = rooms[r].present
      /\ a.host = rooms[r].host /\ a.timer = rooms[r].timer
  BY <1>1, <1>2 DEF RoomStates
<1> HIDE DEF a
<1>4. rooms' \in [Rooms -> RoomStates] /\ rooms'[r] = a /\ OtherRoomsSame(r)
  BY <1>1, <1>3, OneRoom
<1> QED BY <1>3, <1>4 DEF f, n

LEMMA GuestDropped ==
  ASSUME Typed, NEW r \in Rooms, NEW p,
         rooms' = [rooms EXCEPT ![r].guests = Restrict(@, DOMAIN @ \ {p})]
  PROVE  /\ rooms' \in [Rooms -> RoomStates] /\ OtherRoomsSame(r)
         /\ rooms'[r].guests = Restrict(rooms[r].guests, DOMAIN rooms[r].guests \ {p})
         /\ rooms'[r].next = rooms[r].next /\ rooms'[r].present = rooms[r].present
         /\ rooms'[r].host = rooms[r].host /\ rooms'[r].timer = rooms[r].timer
<1> DEFINE f == Restrict(rooms[r].guests, DOMAIN rooms[r].guests \ {p})
           a == [rooms[r] EXCEPT !.guests = f]
<1>1. rooms[r] \in RoomStates /\ rooms' = [rooms EXCEPT ![r] = a]
  BY DEF Typed
<1>2. f \in Maps(Guests)
  BY <1>1, DroppedTyped DEF RoomStates
<1> HIDE DEF f
<1>3. a \in RoomStates /\ a.guests = f /\ a.next = rooms[r].next /\ a.present = rooms[r].present
      /\ a.host = rooms[r].host /\ a.timer = rooms[r].timer
  BY <1>1, <1>2 DEF RoomStates
<1> HIDE DEF a
<1>4. rooms' \in [Rooms -> RoomStates] /\ rooms'[r] = a /\ OtherRoomsSame(r)
  BY <1>1, <1>3, OneRoom
<1> QED BY <1>3, <1>4 DEF f
-----------------------------------------------------------------------------
(* Every action keeps the types.                                           *)

LEMMA AskGuestsTyped ==
  ASSUME Core, NEW a \in Asks, AskGuests(a)
  PROVE  /\ Typed' /\ slot \in Rooms /\ IsLive(slot) /\ reqs' = reqs + 1
         /\ OthersSame(slot) /\ SameLink(slot) /\ SamePeers(slot) /\ SameSession(slot)
         /\ ads'[slot].pending = ads[slot].pending \cup {reqs + 1}
         /\ asks'[a].req = reqs + 1
         /\ \A b \in Asks : b # a => asks'[b] = asks[b]
         /\ \A g \in Guests : SameSeat(guests'[g], guests[g])
<1> DEFINE n == reqs + 1
           k == slot
           S == ads[k].pending \cup {n}
           asked == [Settled EXCEPT !.at = "guests", !.req = n]
<1>1. /\ k \in Rooms /\ IsLive(k) /\ n \in Nat /\ n \in 0..MaxReqs /\ reqs' = n
      /\ UNCHANGED <<rooms, dials, down, slot, starting, tap, session, log, astray, faults>>
  BY BoundsAreNatural DEF AskGuests, Core, Typed, IsLive
<1>2. ads' = [ads EXCEPT ![k].pending = S] /\ guests' = Sent(guests, k, ToWritable(k, "ask", n))
      /\ asks' = [asks EXCEPT ![a] = asked]
  BY DEF AskGuests
<1>3. asked \in DialogStates /\ asked.req = n
  BY <1>1 DEF Settled, DialogStates
<1>4. S \in SUBSET Nat
  BY <1>1 DEF Core, Typed, AdapterStates
<1> HIDE DEF n, k, S, asked
<1>5. /\ ads' \in [Rooms -> AdapterStates] /\ OthersSame(k) /\ ads'[k].pending = S
      /\ SameLink(k) /\ SamePeers(k) /\ SameSession(k)
  BY <1>1, <1>2, <1>4, PendingSet DEF Core
<1>6. ToWritable(k, "ask", n) \in SUBSET Frames
  BY <1>1, WritersArePeers DEF ToWritable, Frame, Frames, Peers, Core
<1>7. /\ guests' \in [Guests -> GuestStates]
      /\ \A g \in Guests : SameSeat(guests'[g], guests[g])
  BY <1>1, <1>2, <1>6, SentTyped DEF Core, Typed
<1>8. asks' \in [Asks -> DialogStates] /\ asks'[a] = asked /\ \A b \in Asks : b # a => asks'[b] = asks[b]
  BY <1>2, <1>3 DEF Core, Typed
<1>9. Typed'
  BY <1>1, <1>5, <1>7, <1>8 DEF Core, Typed, SameSeat
<1> QED BY <1>1, <1>3, <1>5, <1>7, <1>8, <1>9 DEF n, k, S

LEMMA AnswerTyped ==
  ASSUME Core, NEW k \in Rooms, Answer(k)
  PROVE  /\ Typed' /\ OthersSame(k) /\ SameLink(k) /\ SamePeers(k) /\ SameSession(k)
         /\ \A g \in Guests : SameSeat(guests'[g], guests[g])
         /\ \/ SamePending(k) /\ UNCHANGED <<asks, guests>>
            \/ /\ ads'[k].pending = ads[k].pending \ {Head(down[k]).n} /\ Head(down[k]).n \in Nat
               /\ asks' = [a \in Asks |-> IF asks[a].at = "guests" /\ asks[a].req = Head(down[k]).n
                                          THEN Settled ELSE asks[a]]
               /\ guests' = Sent(guests, k, ToWritable(k, "end", Head(down[k]).n))
<1> DEFINE n == Head(down[k]).n
           S == ads[k].pending \ {n}
<1>1. /\ down[k] # <<>> /\ down' = [down EXCEPT ![k] = Tail(@)] /\ Head(down[k]).t = "answer"
      /\ UNCHANGED <<rooms, dials, slot, starting, tap, session, log, reqs, astray, faults>>
  BY DEF Answer, Taken, Reads
<1>2. n \in Nat
  BY <1>1, Spoken DEF Core
<1>3. down' \in [Rooms -> Seq(Messages)]
  BY <1>1, HeadTyped DEF Core, Typed
<1>4. CASE Allowed(k) /\ n \in ads[k].pending
  <2>1. /\ ads' = [ads EXCEPT ![k].pending = S] /\ guests' = Sent(guests, k, ToWritable(k, "end", n))
        /\ asks' = [a \in Asks |-> IF asks[a].at = "guests" /\ asks[a].req = n THEN Settled ELSE asks[a]]
    BY <1>4 DEF Answer
  <2>2. S \in SUBSET Nat
    BY DEF Core, Typed, AdapterStates
  <2>3. asks' \in [Asks -> DialogStates]
    BY <2>1 DEF Core, Typed, Settled, DialogStates
  <2> HIDE DEF n, S
  <2>4. /\ ads' \in [Rooms -> AdapterStates] /\ OthersSame(k) /\ ads'[k].pending = S
        /\ SameLink(k) /\ SamePeers(k) /\ SameSession(k)
    BY <2>1, <2>2, PendingSet DEF Core
  <2>5. ToWritable(k, "end", n) \in SUBSET Frames
    BY <1>2, WritersArePeers DEF ToWritable, Frame, Frames, Peers, Core
  <2>6. /\ guests' \in [Guests -> GuestStates]
        /\ \A g \in Guests : SameSeat(guests'[g], guests[g])
    BY <2>1, <2>5, SentTyped DEF Core, Typed
  <2>7. Typed'
    BY <1>1, <1>3, <2>3, <2>4, <2>6 DEF Core, Typed, SameSeat
  <2> QED BY <1>2, <2>1, <2>4, <2>6, <2>7 DEF n, S
<1>5. CASE ~(Allowed(k) /\ n \in ads[k].pending)
  <2>1. UNCHANGED <<ads, asks, guests>>
    BY <1>5 DEF Answer
  <2>2. Typed'
    BY <1>1, <1>3, <2>1 DEF Core, Typed
  <2> QED BY <2>1, <2>2 DEF OthersSame, SameLink, SamePeers, SameSession, SamePending, SameSeat
<1> QED BY <1>4, <1>5

LEMMA HelloTyped ==
  ASSUME Core, NEW k \in Rooms, Hello(k)
  PROVE  /\ Typed' /\ OthersSame(k) /\ SameLink(k) /\ SamePending(k) /\ SameSession(k)
         /\ ads'[k].peers = Put(ads[k].peers, Peer(k), Head(down[k]).n)
         /\ Head(down[k]).n \in BOOLEAN
         /\ \A g \in Guests : /\ SameSeat(guests'[g], Heard(k)[g])
                              /\ guests'[g].st = guests[g].st /\ guests'[g].room = guests[g].room
                              /\ guests'[g].peer = guests[g].peer
<1> DEFINE writes == Head(down[k]).n
           f == Put(ads[k].peers, Peer(k), writes)
           gs == Heard(k)
<1>1. /\ down[k] # <<>> /\ down' = [down EXCEPT ![k] = Tail(@)] /\ Head(down[k]).t = "hello"
      /\ UNCHANGED <<rooms, dials, slot, starting, tap, session, log, asks, reqs, astray, faults>>
  BY DEF Hello, Taken, Reads
<1>2. writes \in BOOLEAN /\ Peer(k) \in Peers
  BY <1>1, Spoken, HeadTyped DEF Core
<1>3. down' \in [Rooms -> Seq(Messages)]
  BY <1>1, HeadTyped DEF Core, Typed
<1>4. ads' = [ads EXCEPT ![k].peers = f] /\ guests' = Sent(gs, k, Greeting(k, writes))
  BY DEF Hello
<1>5. f \in Maps(BOOLEAN)
  <2>1. ads[k].peers \in Maps(BOOLEAN)
    BY DEF Core, Typed, AdapterStates
  <2> HIDE DEF writes
  <2> QED BY <1>2, <2>1, PutTyped
<1>6. /\ gs \in [Guests -> GuestStates]
      /\ \A g \in Guests : /\ gs[g].st = guests[g].st /\ gs[g].room = guests[g].room
                           /\ gs[g].peer = guests[g].peer
  BY HeardTyped DEF Core
<1> HIDE DEF writes, f, gs
<1>7. /\ ads' \in [Rooms -> AdapterStates] /\ OthersSame(k) /\ ads'[k].peers = f
      /\ SameLink(k) /\ SamePending(k) /\ SameSession(k)
  BY <1>4, <1>5, PeersSet DEF Core
<1>8. Greeting(k, writes) \in SUBSET Frames
  <2>1. ads[k].pending \subseteq Nat /\ log \in Nat
    BY DEF Core, Typed, AdapterStates
  <2> QED BY <1>2, <2>1 DEF Greeting, Pending, Frame, Frames, Peers
<1>9. /\ guests' \in [Guests -> GuestStates]
      /\ \A g \in Guests : SameSeat(guests'[g], gs[g])
  BY <1>4, <1>6, <1>8, SentTyped
<1>10. \A g \in Guests : guests'[g].st = guests[g].st /\ guests'[g].room = guests[g].room
                         /\ guests'[g].peer = guests[g].peer
  BY <1>6, <1>9 DEF SameSeat
<1>11. Typed'
  BY <1>1, <1>3, <1>7, <1>9, <1>10 DEF Core, Typed
<1> QED BY <1>2, <1>7, <1>9, <1>10, <1>11 DEF writes, f, gs
LEMMA BrokenTyped ==
  ASSUME Core, NEW k \in Rooms, ads' = [ads EXCEPT ![k] = Broken(k)]
  PROVE  /\ ads' \in [Rooms -> AdapterStates] /\ OthersSame(k)
         /\ SameLink(k) /\ SamePeers(k) /\ SamePending(k) /\ SameSession(k)
<1>1. CASE IsLive(k) /\ ~Current(k)
  <2> DEFINE T == ads[k].turns \cup {"switch"}
  <2>1. ads' = [ads EXCEPT ![k].turns = T]
    BY <1>1 DEF Broken, Core, Typed
  <2>2. T \in SUBSET {"command", "switch"}
    BY DEF Core, Typed, AdapterStates
  <2> HIDE DEF T
  <2> QED BY <2>1, <2>2, TurnsSet DEF Core
<1>2. CASE ~(IsLive(k) /\ ~Current(k))
  <2>1. ads' = ads
    BY <1>2 DEF Broken, Core, Typed
  <2> QED BY <2>1 DEF Core, Typed, OthersSame, SameLink, SamePeers, SamePending, SameSession
<1> QED BY <1>1, <1>2

LEMMA AppendsTyped ==
  ASSUME Core, Appends
  PROVE  /\ Typed' /\ log' = log + 1
         /\ \A k \in Rooms : SameLink(k) /\ SamePeers(k) /\ SamePending(k) /\ SameSession(k)
         /\ \A g \in Guests : SameSeat(guests'[g], guests[g])
         /\ \/ UNCHANGED guests /\ (tap = 0 \/ ~Current(tap))
            \/ tap \in Rooms /\ Current(tap) /\ guests' = Sent(guests, tap, {Frame("entry", 0, log + 1)})
<1>1. /\ log' = log + 1 /\ log' \in 0..MaxLog
      /\ UNCHANGED <<rooms, dials, down, slot, starting, tap, session, asks, reqs, astray, faults>>
  BY BoundsAreNatural DEF Appends, Core, Typed
<1>2. CASE tap = 0
  <2>1. UNCHANGED <<guests, ads>>
    BY <1>2 DEF Appends
  <2>2. Typed'
    BY <1>1, <2>1 DEF Core, Typed
  <2> QED BY <1>1, <1>2, <2>1, <2>2 DEF SameLink, SamePeers, SamePending, SameSession, SameSeat
<1>3. CASE tap # 0
  <2> DEFINE k == tap
             n == log + 1
             frames == {Frame("entry", 0, n)}
  <2>1. /\ k \in Rooms /\ ads' = [ads EXCEPT ![k] = Broken(k)]
        /\ guests' = IF Current(k) THEN Sent(guests, k, frames) ELSE guests
    BY <1>3 DEF Appends, Core, Typed
  <2> HIDE DEF k
  <2>2. /\ ads' \in [Rooms -> AdapterStates] /\ OthersSame(k)
        /\ SameLink(k) /\ SamePeers(k) /\ SamePending(k) /\ SameSession(k)
    BY <2>1, BrokenTyped
  <2>3. \A j \in Rooms : SameLink(j) /\ SamePeers(j) /\ SamePending(j) /\ SameSession(j)
    BY <2>2 DEF OthersSame, SameLink, SamePeers, SamePending, SameSession
  <2>4. frames \in SUBSET Frames /\ guests \in [Guests -> GuestStates]
    <3>1. n \in Nat
      BY DEF Core, Typed
    <3> HIDE DEF n
    <3> QED BY <3>1 DEF Frame, Frames, Core, Typed
  <2> HIDE DEF frames
  <2>5. /\ guests' \in [Guests -> GuestStates]
        /\ \A g \in Guests : SameSeat(guests'[g], guests[g])
    <3>1. CASE Current(k)
      BY <2>1, <2>4, <3>1, SentTyped
    <3>2. CASE ~Current(k)
      BY <2>1, <2>4, <3>2 DEF SameSeat
    <3> QED BY <3>1, <3>2
  <2>6. Typed'
    BY <1>1, <2>2, <2>5 DEF Core, Typed, SameSeat
  <2> QED BY <1>1, <2>1, <2>3, <2>5, <2>6 DEF k, n, frames
<1> QED BY <1>2, <1>3

LEMMA PeerLeftTyped ==
  ASSUME Core, NEW k \in Rooms, PeerLeft(k)
  PROVE  /\ Typed' /\ OthersSame(k) /\ SameLink(k) /\ SamePending(k) /\ SameSession(k)
         /\ ads'[k].peers = Restrict(ads[k].peers, DOMAIN ads[k].peers \ {Peer(k)})
<1> DEFINE f == Restrict(ads[k].peers, DOMAIN ads[k].peers \ {Peer(k)})
<1>1. /\ down[k] # <<>> /\ down' = [down EXCEPT ![k] = Tail(@)]
      /\ UNCHANGED <<rooms, dials, guests, slot, starting, tap, session, log, asks, reqs, astray, faults>>
  BY DEF PeerLeft, Taken, Reads
<1>2. down' \in [Rooms -> Seq(Messages)]
  BY <1>1, HeadTyped DEF Core, Typed
<1>3. ads' = [ads EXCEPT ![k].peers = f]
  BY DEF PeerLeft
<1>4. f \in Maps(BOOLEAN)
  <2>1. ads[k].peers \in Maps(BOOLEAN)
    BY DEF Core, Typed, AdapterStates
  <2> QED BY <2>1, DroppedTyped
<1> HIDE DEF f
<1>5. /\ ads' \in [Rooms -> AdapterStates] /\ OthersSame(k) /\ ads'[k].peers = f
      /\ SameLink(k) /\ SamePending(k) /\ SameSession(k)
  BY <1>3, <1>4, PeersSet DEF Core
<1>6. Typed'
  BY <1>1, <1>2, <1>5 DEF Core, Typed
<1> QED BY <1>5, <1>6 DEF f

LEMMA PromptTyped ==
  ASSUME Core, NEW k \in Rooms, Prompt(k)
  PROVE  Typed'
<1>1. /\ down[k] # <<>> /\ down' = [down EXCEPT ![k] = Tail(@)] /\ Head(down[k]).t = "prompt"
      /\ astray' = (astray \/ (Allowed(k) /\ ~Head(down[k]).n))
      /\ UNCHANGED <<rooms, dials, guests, ads, slot, starting, tap, session, log, asks, reqs, faults>>
  BY DEF Prompt, Taken, Reads
<1>2. down' \in [Rooms -> Seq(Messages)]
  BY <1>1, HeadTyped DEF Core, Typed
<1>3. astray' \in BOOLEAN
  BY <1>1
<1> QED BY <1>1, <1>2, <1>3 DEF Core, Typed

LEMMA FindsSwitchTyped ==
  ASSUME Core, NEW k \in Rooms, FindsSwitch(k)
  PROVE  Typed' /\ OthersSame(k) /\ SameLink(k) /\ SamePeers(k) /\ SamePending(k) /\ SameSession(k)
<1>1. ads' = [ads EXCEPT ![k] = Broken(k)]
  BY DEF FindsSwitch
<1>2. /\ ads' \in [Rooms -> AdapterStates] /\ OthersSame(k)
      /\ SameLink(k) /\ SamePeers(k) /\ SamePending(k) /\ SameSession(k)
  BY <1>1, BrokenTyped
<1> QED BY <1>2 DEF FindsSwitch, relayVars, Core, Typed

LEMMA CollabStopTyped ==
  ASSUME Core, CollabStop
  PROVE  /\ Typed'
         /\ \A k \in Rooms : SameLink(k) /\ SamePeers(k) /\ SamePending(k) /\ SameSession(k)
<1> DEFINE k == slot
           T == ads[k].turns \cup {"command"}
<1>1. k \in Rooms /\ slot' = 0 /\ UNCHANGED <<relayVars, starting, tap, session, log, asks, reqs, astray, faults>>
      /\ ads' = IF IsLive(k) THEN [ads EXCEPT ![k].turns = T] ELSE ads
  BY DEF CollabStop, Core, Typed
<1>2. T \in SUBSET {"command", "switch"}
  BY <1>1 DEF Core, Typed, AdapterStates
<1> HIDE DEF k, T
<1>3. /\ ads' \in [Rooms -> AdapterStates]
      /\ \A j \in Rooms : SameLink(j) /\ SamePeers(j) /\ SamePending(j) /\ SameSession(j)
  <2>1. CASE IsLive(k)
    <3>1. ads' = [ads EXCEPT ![k].turns = T]
      BY <1>1, <2>1
    <3>2. /\ ads' \in [Rooms -> AdapterStates] /\ OthersSame(k)
          /\ SameLink(k) /\ SamePeers(k) /\ SamePending(k) /\ SameSession(k)
      BY <1>1, <1>2, <3>1, TurnsSet DEF Core
    <3> QED BY <3>2 DEF OthersSame, SameLink, SamePeers, SamePending, SameSession
  <2>2. CASE ~IsLive(k)
    BY <1>1, <2>2 DEF Core, Typed, SameLink, SamePeers, SamePending, SameSession
  <2> QED BY <2>1, <2>2
<1> QED BY <1>1, <1>3 DEF relayVars, Core, Typed

LEMMA CollabStartTyped ==
  ASSUME Core, NEW k \in Rooms, NEW d \in Dials, CollabStart(k, d)
  PROVE  /\ Typed' /\ OthersSame(k) /\ OtherDialsSame(d)
         /\ ads'[k].phase = "dialing" /\ ads'[k].sock = "dialing" /\ ads'[k].dial = d
         /\ ads'[k].peers = <<>> /\ ads'[k].pending = {} /\ ads'[k].session = session
         /\ dials'[d].st = "asked" /\ dials'[d].room = k /\ dials'[d].alive
<1> DEFINE half == [NoAdapter EXCEPT !.phase = "dialing", !.sock = "dialing"]
           a == [half EXCEPT !.dial = d, !.session = session]
<1>1. /\ ads' = [ads EXCEPT ![k] = a] /\ starting' = TRUE
      /\ dials' = [dials EXCEPT ![d] = [st |-> "asked", room |-> k, alive |-> TRUE]]
      /\ UNCHANGED <<rooms, guests, down, slot, tap, session, log, asks, reqs, astray, faults>>
  BY DEF CollabStart
<1>2. /\ half \in AdapterStates /\ half.phase = "dialing" /\ half.sock = "dialing"
      /\ half.peers = <<>> /\ half.pending = {}
  <2>1. NoAdapter \in AdapterStates /\ NoAdapter.peers = <<>> /\ NoAdapter.pending = {}
    BY NoAdapterTyped DEF Core, NoAdapter
  <2> QED BY <2>1 DEF AdapterStates
<1> HIDE DEF half
<1>3. /\ a \in AdapterStates /\ a.phase = "dialing" /\ a.sock = "dialing" /\ a.dial = d
      /\ a.peers = <<>> /\ a.pending = {} /\ a.session = session
  <2>1. session \in Nat
    BY DEF Core, Typed
  <2> QED BY <1>2, <2>1 DEF AdapterStates
<1> HIDE DEF a
<1>4. ads' \in [Rooms -> AdapterStates] /\ ads'[k] = a /\ OthersSame(k)
  BY <1>1, <1>3, OneAdapter DEF Core, OthersSame
<1>5. /\ dials' \in [Dials -> DialStates] /\ OtherDialsSame(d)
      /\ dials'[d].st = "asked" /\ dials'[d].room = k /\ dials'[d].alive
  BY <1>1, DialAsked DEF Core
<1>6. Typed'
  BY <1>1, <1>4, <1>5 DEF Core, Typed
<1> QED BY <1>3, <1>4, <1>5, <1>6

LEMMA RedialsTyped ==
  ASSUME Core, NEW k \in Rooms, NEW d \in Dials, Redials(k, d)
  PROVE  /\ Typed' /\ OthersSame(k) /\ OtherDialsSame(d)
         /\ ads'[k].phase = ads[k].phase /\ ads'[k].sock = "dialing" /\ ads'[k].dial = d
         /\ SamePeers(k) /\ SamePending(k) /\ SameSession(k)
         /\ dials'[d].st = "asked" /\ dials'[d].room = k /\ dials'[d].alive
<1>1. /\ ads' = [ads EXCEPT ![k].sock = "dialing", ![k].dial = d]
      /\ dials' = [dials EXCEPT ![d] = [st |-> "asked", room |-> k, alive |-> TRUE]]
      /\ UNCHANGED <<rooms, guests, down, slot, starting, tap, session, log, asks, reqs, astray, faults>>
  BY DEF Redials
<1>2. /\ ads' \in [Rooms -> AdapterStates] /\ OthersSame(k)
      /\ ads'[k].sock = "dialing" /\ ads'[k].dial = d /\ ads'[k].phase = ads[k].phase
      /\ SamePeers(k) /\ SamePending(k) /\ SameSession(k)
  <2>1. "dialing" \in {"dialing", "down"} /\ d \in Dials \cup {0}
    OBVIOUS
  <2> QED BY <1>1, <2>1, LinkSet DEF Core
<1>3. /\ dials' \in [Dials -> DialStates] /\ OtherDialsSame(d)
      /\ dials'[d].st = "asked" /\ dials'[d].room = k /\ dials'[d].alive
  BY <1>1, DialAsked DEF Core
<1>4. Typed'
  BY <1>1, <1>2, <1>3 DEF Core, Typed
<1> QED BY <1>2, <1>3, <1>4
LEMMA DialOf ==
  ASSUME Core, NEW k \in Rooms, ads[k].sock \in {"dialing", "open"}
  PROVE  ads[k].dial \in Dials /\ dials[ads[k].dial].room = k /\ dials[ads[k].dial].alive
BY DEF Core, Linked, Dialled, AdapterDialled

\* The dial of an adapter that has lost or closed it.
LetGo(k) ==
  \A d \in Dials :
    IF ads[k].sock \in {"dialing", "open"} /\ ads[k].dial = d
    THEN \/ dials'[d] = FreeDial /\ dials[d].st # "open"
         \/ /\ dials'[d].st = dials[d].st /\ dials[d].st # "asked" /\ dials'[d].room = dials[d].room
            /\ ~dials'[d].alive
    ELSE dials'[d] = dials[d]

LEMMA HangsUp ==
  ASSUME Core, NEW k \in Rooms, dials' = HungUp(k)
  PROVE  dials' \in [Dials -> DialStates] /\ LetGo(k)
<1>1. /\ HungUp(k) \in [Dials -> DialStates]
      /\ \A d \in Dials :
           IF ads[k].sock \in {"dialing", "open"} /\ ads[k].dial = d
           THEN IF dials[d].st = "asked"
                THEN HungUp(k)[d] = FreeDial
                ELSE /\ HungUp(k)[d].st = dials[d].st /\ HungUp(k)[d].room = dials[d].room
                     /\ ~HungUp(k)[d].alive
           ELSE HungUp(k)[d] = dials[d]
  BY DialOf, HungUpTyped DEF Core
<1> QED BY <1>1 DEF LetGo

\* What becomes of an adapter whose dial fails, or is lost.
Faded(k) ==
  \/ Ended(k)
  \/ ads'[k].sock = "down" /\ ads'[k].phase = "live" /\ SamePeers(k) /\ SamePending(k) /\ SameSession(k)

LEMMA DialLostFades ==
  ASSUME Core, NEW k \in Rooms, ads[k].sock = "dialing", DialLost(k)
  PROVE  /\ ads' \in [Rooms -> AdapterStates] /\ OthersSame(k) /\ starting' \in BOOLEAN
         /\ Faded(k) /\ (Ended(k) => ads[k].phase = "dialing")
<1>1. ads[k].phase \in {"none", "dialing", "live", "stopped"}
  BY DEF Core, Typed, AdapterStates
<1>2. ads[k].phase \in {"dialing", "live"}
  BY <1>1 DEF Core, Linked, Dialled, AdapterDialled
<1> QED BY <1>2, DialIsLost DEF Faded, Ended, Core

LEMMA DialUpgradesTyped ==
  ASSUME Core, NEW k \in Rooms, DialUpgrades(k)
  PROVE  /\ Typed' /\ ads[k].sock = "dialing" /\ ads[k].dial \in Dials
         /\ \/ /\ UNCHANGED ads /\ OtherDialsSame(ads[k].dial) /\ dials[ads[k].dial].st = "asked"
               /\ dials'[ads[k].dial].st = "upgraded"
               /\ dials'[ads[k].dial].room = dials[ads[k].dial].room
               /\ dials'[ads[k].dial].alive = dials[ads[k].dial].alive
            \/ /\ LetGo(k) /\ OthersSame(k) /\ Faded(k) /\ (Ended(k) => ads[k].phase = "dialing")
<1> DEFINE d == ads[k].dial
<1>1. /\ d \in Dials /\ dials[d].st = "asked" /\ ads[k].sock = "dialing"
      /\ UNCHANGED <<rooms, guests, down, slot, tap, session, log, asks, reqs, astray, faults>>
  BY DialOf DEF DialUpgrades
<1>2. CASE Upgrades(d)
  <2>1. dials' = [dials EXCEPT ![d].st = "upgraded"] /\ UNCHANGED <<ads, starting>>
    BY <1>2 DEF DialUpgrades
  <2>2. "upgraded" \in {"upgraded", "open"}
    OBVIOUS
  <2> HIDE DEF d
  <2>3. /\ dials' \in [Dials -> DialStates] /\ OtherDialsSame(d)
        /\ dials'[d].st = "upgraded" /\ dials'[d].room = dials[d].room
        /\ dials'[d].alive = dials[d].alive
    BY <1>1, <2>1, <2>2, DialTurned DEF Core
  <2>4. Typed'
    BY <1>1, <2>1, <2>3 DEF Core, Typed
  <2> QED BY <1>1, <2>1, <2>3, <2>4 DEF d
<1>3. CASE ~Upgrades(d)
  <2>1. dials' = [dials EXCEPT ![d] = FreeDial] /\ DialLost(k)
    BY <1>3 DEF DialUpgrades
  <2>2. dials' \in [Dials -> DialStates] /\ dials'[d] = FreeDial /\ OtherDialsSame(d)
    BY <1>1, <2>1, DialFreed DEF Core
  <2>3. LetGo(k)
    BY <1>1, <2>2 DEF LetGo, OtherDialsSame
  <2>4. /\ ads' \in [Rooms -> AdapterStates] /\ OthersSame(k) /\ starting' \in BOOLEAN
        /\ Faded(k) /\ (Ended(k) => ads[k].phase = "dialing")
    BY <1>1, <2>1, DialLostFades
  <2>5. Typed'
    BY <1>1, <2>2, <2>4 DEF Core, Typed
  <2> QED BY <1>1, <2>3, <2>4, <2>5
<1> QED BY <1>2, <1>3

LEMMA DialFailsTyped ==
  ASSUME Core, NEW k \in Rooms, DialFails(k)
  PROVE  /\ Typed' /\ ads[k].sock = "dialing"
         /\ LetGo(k) /\ OthersSame(k) /\ Faded(k) /\ (Ended(k) => ads[k].phase = "dialing")
<1>1. /\ ads[k].sock = "dialing" /\ dials' = HungUp(k) /\ DialLost(k)
      /\ faults' \in 0..MaxFaults
      /\ UNCHANGED <<rooms, guests, down, slot, tap, session, log, asks, reqs, astray>>
  BY BoundsAreNatural DEF DialFails, Core, Typed
<1>2. dials' \in [Dials -> DialStates] /\ LetGo(k)
  BY <1>1, HangsUp
<1>3. /\ ads' \in [Rooms -> AdapterStates] /\ OthersSame(k) /\ starting' \in BOOLEAN
      /\ Faded(k) /\ (Ended(k) => ads[k].phase = "dialing")
  BY <1>1, DialLostFades
<1>4. Typed'
  BY <1>1, <1>2, <1>3 DEF Core, Typed
<1> QED BY <1>1, <1>2, <1>3, <1>4

LEMMA BreaksTyped ==
  ASSUME Core, NEW k \in Rooms, Breaks(k)
  PROVE  /\ Typed' /\ LetGo(k) /\ OthersSame(k) /\ Faded(k) /\ ~Ended(k)
         /\ down'[k] = <<>> /\ \A r \in Rooms : r # k => down'[r] = down[r]
         /\ guests' = Unheard(guests, k)
<1>1. /\ Connected(k) /\ dials' = HungUp(k) /\ guests' = Unheard(guests, k)
      /\ ads' = [ads EXCEPT ![k].sock = "down", ![k].dial = 0]
      /\ down' = [down EXCEPT ![k] = <<>>] /\ faults' \in 0..MaxFaults
      /\ UNCHANGED <<rooms, slot, starting, tap, session, log, asks, reqs, astray>>
  BY BoundsAreNatural DEF Breaks, Silenced, Core, Typed
<1>2. dials' \in [Dials -> DialStates] /\ LetGo(k)
  BY <1>1, HangsUp
<1>3. /\ ads' \in [Rooms -> AdapterStates] /\ OthersSame(k)
      /\ ads'[k].sock = "down" /\ ads'[k].dial = 0 /\ ads'[k].phase = ads[k].phase
      /\ SamePeers(k) /\ SamePending(k) /\ SameSession(k)
  <2>1. "down" \in {"dialing", "down"} /\ 0 \in Dials \cup {0}
    OBVIOUS
  <2> QED BY <1>1, <2>1, LinkSet DEF Core
<1>4. Faded(k) /\ ~Ended(k)
  BY <1>1, <1>3 DEF Faded, Ended, Connected, IsLive
<1>5. /\ guests' \in [Guests -> GuestStates]
      /\ \A g \in Guests : guests'[g].st = guests[g].st /\ guests'[g].room = guests[g].room
                           /\ guests'[g].peer = guests[g].peer
  BY <1>1, UnheardTyped DEF Core
<1>6. /\ down' \in [Rooms -> Seq(Messages)] /\ down'[k] = <<>>
      /\ \A r \in Rooms : r # k => down'[r] = down[r]
  <2>1. <<>> \in Seq(Messages)
    OBVIOUS
  <2> QED BY <1>1, <2>1 DEF Core, Typed
<1>7. Typed'
  BY <1>1, <1>2, <1>3, <1>5, <1>6 DEF Core, Typed
<1> QED BY <1>1, <1>2, <1>3, <1>4, <1>6, <1>7

LEMMA CallerIs ==
  ASSUME Core, NEW d \in Dials, dials[d].st = "upgraded"
  PROVE  /\ dials[d].room \in Rooms
         /\ Caller(d) = 0 => ~dials[d].alive
         /\ Caller(d) # 0 => /\ Caller(d) = dials[d].room /\ dials[d].alive
                             /\ ads[Caller(d)].sock = "dialing" /\ ads[Caller(d)].dial = d
<1>1. DialDialled(d) /\ dials[d].room \in Rooms /\ dials[d].room # 0
  BY RoomsAreNumbers DEF Core, Linked, Dialled, DialDialled
<1>2. dials[d].alive => /\ ads[dials[d].room].sock \in {"dialing", "open"}
                        /\ ads[dials[d].room].dial = d
  BY <1>1 DEF DialDialled
<1>3. dials[d].alive => ads[dials[d].room].sock = "dialing"
  BY <1>1, <1>2 DEF Core, Linked, Dialled, AdapterDialled
<1> QED BY <1>1, <1>2, <1>3 DEF Caller

LEMMA HostOpensTyped ==
  ASSUME Core, NEW d \in Dials, HostOpens(d)
  PROVE  LET r == dials[d].room  k == Caller(d)
         IN  /\ Typed' /\ r \in Rooms /\ OtherDialsSame(d) /\ OtherRoomsSame(r)
             /\ dials'[d].st = "open" /\ dials'[d].room = r /\ dials'[d].alive = dials[d].alive
             /\ rooms'[r].present /\ rooms'[r].host = d /\ ~rooms'[r].timer
             /\ rooms'[r].guests = rooms[r].guests /\ rooms'[r].next = rooms[r].next
             /\ k = 0 => UNCHANGED <<ads, tap>>
             /\ k # 0 => /\ OthersSame(k) /\ ads'[k].sock = "open" /\ ads'[k].phase = "live"
                         /\ ads'[k].dial = ads[k].dial /\ SamePeers(k) /\ SamePending(k) /\ SameSession(k)
                         /\ tap' \in {tap, k}
<1> DEFINE r == dials[d].room
           k == Caller(d)
<1>1. /\ dials[d].st = "upgraded" /\ rooms' = Admit(d) /\ dials' = [dials EXCEPT ![d].st = "open"]
      /\ UNCHANGED <<guests, down, session, log, asks, reqs, astray, faults>>
  BY DEF HostOpens
<1>2. r \in Rooms /\ (k # 0 => k \in Rooms)
  BY <1>1, CallerIs
<1>3. /\ rooms' \in [Rooms -> RoomStates] /\ OtherRoomsSame(r)
      /\ rooms'[r].present /\ rooms'[r].host = d /\ ~rooms'[r].timer
      /\ rooms'[r].guests = rooms[r].guests /\ rooms'[r].next = rooms[r].next
  BY <1>1, <1>2, Admitted DEF Core
<1>4. /\ dials' \in [Dials -> DialStates] /\ OtherDialsSame(d)
      /\ dials'[d].st = "open" /\ dials'[d].room = r /\ dials'[d].alive = dials[d].alive
  <2>1. "open" \in {"upgraded", "open"}
    OBVIOUS
  <2> QED BY <1>1, <2>1, DialTurned DEF Core
<1>5. CASE k = 0
  <2>1. UNCHANGED <<ads, slot, starting, tap>>
    BY <1>5 DEF HostOpens
  <2>2. Typed'
    BY <1>1, <1>3, <1>4, <2>1 DEF Core, Typed
  <2> QED BY <1>2, <1>3, <1>4, <1>5, <2>1, <2>2
<1>6. CASE k # 0
  <2>1. /\ ads' = [ads EXCEPT ![k].sock = "open", ![k].phase = "live"]
        /\ \/ slot' = k /\ starting' = FALSE /\ tap' = k
           \/ UNCHANGED <<slot, starting, tap>>
    BY <1>6 DEF HostOpens
  <2> HIDE DEF k
  <2>2. /\ ads' \in [Rooms -> AdapterStates] /\ OthersSame(k)
        /\ ads'[k].sock = "open" /\ ads'[k].phase = "live" /\ ads'[k].dial = ads[k].dial
        /\ SamePeers(k) /\ SamePending(k) /\ SameSession(k)
    BY <1>2, <1>6, <2>1, OpenSet DEF Core
  <2>3. Typed'
    BY <1>1, <1>2, <1>3, <1>4, <1>6, <2>1, <2>2 DEF Core, Typed
  <2> QED BY <1>2, <1>3, <1>4, <1>6, <2>1, <2>2, <2>3 DEF k
<1> QED BY <1>5, <1>6

LEMMA FallenThroughTyped ==
  ASSUME Typed, NEW k \in Rooms
  PROVE  FallenThrough(k) \in [Asks -> DialogStates]
BY DEF FallenThrough, Web, Typed, DialogStates

LEMMA HostIsRefusedTyped ==
  ASSUME Core, NEW d \in Dials, HostIsRefused(d)
  PROVE  LET k == Caller(d)
         IN  /\ Typed' /\ OtherDialsSame(d) /\ dials[d].st = "upgraded" /\ dials'[d] = FreeDial
             /\ k = 0 => UNCHANGED <<ads, tap, asks>>
             /\ k # 0 => /\ OthersSame(k) /\ Ended(k) /\ asks' = FallenThrough(k)
                         /\ tap' \in {tap, 0}
<1> DEFINE k == Caller(d)
<1>1. /\ dials[d].st = "upgraded" /\ dials' = [dials EXCEPT ![d] = FreeDial]
      /\ UNCHANGED <<rooms, guests, down, slot, session, log, reqs, astray, faults>>
  BY DEF HostIsRefused
<1>2. k # 0 => k \in Rooms
  BY <1>1, CallerIs
<1>3. dials' \in [Dials -> DialStates] /\ dials'[d] = FreeDial /\ OtherDialsSame(d)
  BY <1>1, DialFreed DEF Core
<1>4. CASE k = 0
  <2>1. UNCHANGED <<ads, starting, tap, asks>>
    BY <1>4 DEF HostIsRefused
  <2>2. Typed'
    BY <1>1, <1>3, <2>1 DEF Core, Typed
  <2> QED BY <1>1, <1>3, <1>4, <2>1, <2>2
<1>5. CASE k # 0
  <2>1. /\ ads' = [ads EXCEPT ![k] = Stopped(k)] /\ asks' = FallenThrough(k)
        /\ tap' = TapCleared(k) /\ starting' \in BOOLEAN
    BY <1>5 DEF HostIsRefused, Core, Typed
  <2> HIDE DEF k
  <2>2. ads' \in [Rooms -> AdapterStates] /\ OthersSame(k) /\ Ended(k)
    BY <1>2, <1>5, <2>1, EndedByItself DEF Core
  <2>3. asks' \in [Asks -> DialogStates] /\ tap' \in {tap, 0} /\ tap' \in Rooms \cup {0}
    BY <1>2, <1>5, <2>1, FallenThroughTyped DEF TapCleared, Core, Typed
  <2>4. Typed'
    BY <1>1, <1>3, <2>1, <2>2, <2>3 DEF Core, Typed
  <2> QED BY <1>1, <1>3, <1>5, <2>1, <2>2, <2>3, <2>4 DEF k
<1> QED BY <1>4, <1>5

LEMMA StopTurnTyped ==
  ASSUME Core, NEW k \in Rooms, NEW turn \in ads[k].turns, StopTurn(k, turn)
  PROVE  /\ Typed' /\ LetGo(k) /\ OthersSame(k) /\ Ended(k) /\ OtherRoomsSame(k)
         /\ down'[k] = <<>> /\ \A r \in Rooms : r # k => down'[r] = down[r]
         /\ asks' = FallenThrough(k) /\ tap' \in {tap, 0}
         /\ \/ rooms' = [rooms EXCEPT ![k] = NoRoom] /\ rooms'[k] = NoRoom /\ guests' = Evicted(k)
            \/ UNCHANGED rooms /\ guests' = Unheard(guests, k)
<1> DEFINE T == ads[k].turns \ {turn}
<1>1. /\ dials' = HungUp(k) /\ down' = [down EXCEPT ![k] = <<>>]
      /\ asks' = FallenThrough(k) /\ tap' = TapCleared(k)
      /\ UNCHANGED <<slot, starting, session, log, reqs, astray, faults>>
  BY DEF StopTurn, Silenced
<1>2. ads' = [ads EXCEPT ![k] = [Stopped(k) EXCEPT !.turns = T]]
  <2>1. Stopped(k).turns = ads[k].turns
    BY StoppedTyped DEF Core
  <2> QED BY <2>1 DEF StopTurn
<1>3. T \in SUBSET {"command", "switch"}
  BY DEF Core, Typed, AdapterStates
<1> HIDE DEF T
<1>4. ads' \in [Rooms -> AdapterStates] /\ OthersSame(k) /\ Ended(k)
  BY <1>2, <1>3, StoppedSet DEF Core
<1>5. dials' \in [Dials -> DialStates] /\ LetGo(k)
  BY <1>1, HangsUp
<1>6. /\ down' \in [Rooms -> Seq(Messages)] /\ down'[k] = <<>>
      /\ \A r \in Rooms : r # k => down'[r] = down[r]
  <2>1. <<>> \in Seq(Messages)
    OBVIOUS
  <2> QED BY <1>1, <2>1 DEF Core, Typed
<1>7. asks' \in [Asks -> DialogStates] /\ tap' \in {tap, 0} /\ tap' \in Rooms \cup {0}
  BY <1>1, FallenThroughTyped DEF TapCleared, Core, Typed
<1>8. CASE turn = "command" /\ rooms[k].present
  <2>1. rooms' = [rooms EXCEPT ![k] = NoRoom] /\ guests' = Evicted(k)
    BY <1>8 DEF StopTurn, CloseRoom
  <2>2. rooms' \in [Rooms -> RoomStates] /\ rooms'[k] = NoRoom /\ OtherRoomsSame(k)
    BY <2>1, RoomClosed DEF Core
  <2>3. /\ guests' \in [Guests -> GuestStates]
        /\ \A g \in Guests : guests'[g].st \in {"in", "ending"} =>
             /\ guests[g].st \in {"in", "ending"}
             /\ guests'[g].room = guests[g].room /\ guests'[g].peer = guests[g].peer
    BY <2>1, EvictedTyped DEF Core
  <2>4. Typed'
    BY <1>1, <1>4, <1>5, <1>6, <1>7, <2>2, <2>3 DEF Core, Typed
  <2> QED BY <1>1, <1>4, <1>5, <1>6, <1>7, <2>1, <2>2, <2>4
<1>9. CASE ~(turn = "command" /\ rooms[k].present)
  <2>1. UNCHANGED rooms /\ guests' = Unheard(guests, k)
    BY <1>9 DEF StopTurn
  <2>2. /\ guests' \in [Guests -> GuestStates]
        /\ \A g \in Guests : guests'[g].st = guests[g].st /\ guests'[g].room = guests[g].room
                             /\ guests'[g].peer = guests[g].peer
    BY <2>1, UnheardTyped DEF Core
  <2>3. Typed'
    BY <1>1, <1>4, <1>5, <1>6, <1>7, <2>1, <2>2 DEF Core, Typed
  <2> QED BY <1>1, <1>4, <1>5, <1>6, <1>7, <2>1, <2>3 DEF OtherRoomsSame
<1> QED BY <1>8, <1>9
LEMMA HostClosesTyped ==
  ASSUME Core, NEW d \in Dials, HostCloses(d), UNCHANGED hostVars
  PROVE  LET r == dials[d].room
         IN  /\ Typed' /\ OtherDialsSame(d) /\ OtherRoomsSame(r) /\ r \in Rooms
             /\ dials[d].st = "open" /\ ~dials[d].alive /\ dials'[d] = FreeDial
             /\ rooms'[r].guests = rooms[r].guests /\ rooms'[r].next = rooms[r].next
             /\ rooms'[r].present = rooms[r].present
             /\ IF rooms[r].present /\ rooms[r].host = d
                THEN rooms'[r].host = 0 /\ rooms'[r].timer
                ELSE rooms'[r] = rooms[r]
<1> DEFINE r == dials[d].room
<1>1. /\ dials[d].st = "open" /\ ~dials[d].alive /\ rooms' = Orphaned(d)
      /\ dials' = [dials EXCEPT ![d] = FreeDial]
      /\ UNCHANGED <<guests, down>>
  BY DEF HostCloses
<1>2. r \in Rooms
  BY <1>1 DEF Core, Linked, Dialled, DialDialled
<1>3. /\ rooms' \in [Rooms -> RoomStates] /\ OtherRoomsSame(r)
      /\ rooms'[r].guests = rooms[r].guests /\ rooms'[r].next = rooms[r].next
      /\ rooms'[r].present = rooms[r].present
      /\ IF rooms[r].present /\ rooms[r].host = d
         THEN rooms'[r].host = 0 /\ rooms'[r].timer
         ELSE rooms'[r] = rooms[r]
  BY <1>1, <1>2, OrphanedTyped DEF Core
<1>4. dials' \in [Dials -> DialStates] /\ dials'[d] = FreeDial /\ OtherDialsSame(d)
  BY <1>1, DialFreed DEF Core
<1>5. Typed'
  BY <1>1, <1>3, <1>4 DEF Core, Typed, hostVars
<1> QED BY <1>1, <1>2, <1>3, <1>4, <1>5

LEMMA ExpiresTyped ==
  ASSUME Core, NEW r \in Rooms, Expires(r), UNCHANGED hostVars
  PROVE  /\ Typed' /\ OtherRoomsSame(r) /\ rooms'[r] = NoRoom /\ rooms[r].host = 0
         /\ UNCHANGED <<dials, down>> /\ guests' = Evicted(r)
<1>1. /\ rooms[r].timer /\ rooms' = [rooms EXCEPT ![r] = NoRoom] /\ guests' = Evicted(r)
      /\ UNCHANGED <<dials, down>>
  BY DEF Expires
<1>2. rooms' \in [Rooms -> RoomStates] /\ rooms'[r] = NoRoom /\ OtherRoomsSame(r)
  BY <1>1, RoomClosed DEF Core
<1>3. rooms[r].host = 0
  BY <1>1 DEF Core, Linked, Held, RoomHeld, NoRoom
<1>4. /\ guests' \in [Guests -> GuestStates]
      /\ \A g \in Guests : guests'[g].st \in {"in", "ending"} =>
           /\ guests[g].st \in {"in", "ending"}
           /\ guests'[g].room = guests[g].room /\ guests'[g].peer = guests[g].peer
  BY <1>1, EvictedTyped DEF Core
<1>5. Typed'
  BY <1>1, <1>2, <1>4 DEF Core, Typed, hostVars
<1> QED BY <1>1, <1>2, <1>3, <1>5

LEMMA OutsideTyped ==
  Outside \in GuestStates /\ Outside.log = -1 /\ Outside.dialogs = {} /\ Outside.heard = FALSE
<1>1. -1 \in Int /\ {} \in SUBSET Nat /\ 0 \in Rooms \cup {0} /\ 0 \in Nat
  OBVIOUS
<1> DEFINE l == -1
           none == {}
<1>2. Outside = [st |-> "out", room |-> 0, peer |-> 0, writes |-> FALSE,
                 log |-> l, dialogs |-> none, heard |-> FALSE]
  BY DEF Outside
<1>3. l \in Int /\ none \in SUBSET Nat
  BY <1>1
<1> HIDE DEF l, none
<1>4. Outside \in GuestStates /\ Outside.log = l /\ Outside.dialogs = none /\ Outside.heard = FALSE
  BY <1>2, <1>3 DEF GuestStates
<1> QED BY <1>4 DEF l, none

OtherGuestsSame(g) == \A h \in Guests : h # g => guests'[h] = guests[h]

OtherQueuesSame(r) == \A k \in Rooms : k # r => down'[k] = down[k]

\* The host of a room that is not cut off is the adapter of its number.
Open(r) == Live(r) /\ dials[rooms[r].host].alive

LEMMA OpenIsConnected ==
  ASSUME Core, NEW r \in Rooms, Open(r)
  PROVE  ads[r].sock = "open" /\ rooms[r].present
<1>1. /\ rooms[r].present /\ rooms[r].host \in Dials /\ dials[rooms[r].host].alive
      /\ dials[rooms[r].host].st = "open" /\ dials[rooms[r].host].room = r
  BY DEF Open, Live, Core, Linked, Held, RoomHeld, Typed, RoomStates
<1>2. ads[r].sock \in {"dialing", "open"} /\ ads[r].dial = rooms[r].host
  BY <1>1 DEF Core, Linked, Dialled, DialDialled
<1> QED BY <1>1, <1>2 DEF Core, Linked, Dialled, AdapterDialled

LEMMA GuestJoinsTyped ==
  ASSUME Core, NEW g \in Guests, NEW r \in Rooms, NEW writes \in BOOLEAN,
         GuestJoins(g, r, writes), UNCHANGED hostVars
  PROVE  LET p == rooms[r].next
         IN  /\ Typed' /\ OtherRoomsSame(r) /\ OtherGuestsSame(g) /\ UNCHANGED <<dials, down>>
             /\ guests[g].st = "out" /\ p \in Peers
             /\ guests'[g].st = "in" /\ guests'[g].room = r /\ guests'[g].peer = p
             /\ guests'[g].writes = writes /\ guests'[g].log = -1 /\ guests'[g].dialogs = {}
             /\ ~guests'[g].heard
             /\ rooms[r].present /\ rooms'[r].present /\ rooms'[r].host = rooms[r].host
             /\ rooms'[r].timer = rooms[r].timer /\ rooms'[r].next = p + 1
             /\ rooms'[r].guests = Put(rooms[r].guests, p, g)
             /\ Cardinality(InRoom(r)) < MaxGuests
<1> DEFINE p == rooms[r].next
           half == [Outside EXCEPT !.st = "in", !.room = r]
           new == [half EXCEPT !.peer = p, !.writes = writes]
<1>1. /\ guests[g].st = "out" /\ rooms[r].present /\ Cardinality(InRoom(r)) < MaxGuests
      /\ guests' = [guests EXCEPT ![g] = new]
      /\ rooms' = [rooms EXCEPT ![r].guests = Put(@, p, g), ![r].next = @ + 1]
      /\ UNCHANGED <<dials, down>>
  BY DEF GuestJoins, Welcomes, Live
<1>2. p \in Peers
  BY DEF Core, Typed, RoomStates
<1>3. /\ rooms' \in [Rooms -> RoomStates] /\ OtherRoomsSame(r)
      /\ rooms'[r].guests = Put(rooms[r].guests, p, g)
      /\ rooms'[r].next = p + 1 /\ rooms'[r].present = rooms[r].present
      /\ rooms'[r].host = rooms[r].host /\ rooms'[r].timer = rooms[r].timer
  BY <1>1, GuestAdded DEF Core
<1> HIDE DEF p
<1>4. /\ half \in GuestStates /\ half.st = "in" /\ half.room = r /\ half.log = -1
      /\ half.dialogs = {} /\ ~half.heard
  BY OutsideTyped DEF GuestStates
<1> HIDE DEF half
<1>5. /\ new \in GuestStates /\ new.st = "in" /\ new.room = r /\ new.peer = p /\ new.log = -1
      /\ new.writes = writes /\ new.dialogs = {} /\ ~new.heard
  BY <1>2, <1>4 DEF GuestStates, Peers
<1> HIDE DEF new
<1>6. guests' \in [Guests -> GuestStates] /\ guests'[g] = new /\ OtherGuestsSame(g)
  BY <1>1, <1>5 DEF Core, Typed, OtherGuestsSame
<1>7. Typed'
  BY <1>1, <1>2, <1>3, <1>5, <1>6 DEF Core, Typed, hostVars, OtherGuestsSame
<1> QED BY <1>1, <1>2, <1>3, <1>5, <1>6, <1>7 DEF p

\* What a guest puts in a frame of each type.
MaySend(g, t, n) ==
  \/ t = "hello" /\ n = guests[g].writes
  \/ t = "prompt" /\ n = MayBeRun(g)
  \/ t = "answer" /\ n \in guests[g].dialogs

Speaks(g) == \E t, n : MaySend(g, t, n) /\ GuestSends(g, t, n)

LEMMA GuestDoes ==
  ASSUME NEW g \in Guests, GuestActs(g)
  PROVE  \/ \E r \in Rooms, w \in BOOLEAN : GuestJoins(g, r, w)
         \/ GuestLeaves(g) \/ Speaks(g)
<1>1. ASSUME NEW t, NEW n, MaySend(g, t, n), GuestSends(g, t, n) PROVE Speaks(g)
  BY <1>1 DEF Speaks
<1>2. ASSUME GuestSends(g, "hello", guests[g].writes) PROVE Speaks(g)
  <2>1. MaySend(g, "hello", guests[g].writes)
    BY DEF MaySend
  <2> QED BY <1>1, <1>2, <2>1
<1>3. ASSUME GuestSends(g, "prompt", MayBeRun(g)) PROVE Speaks(g)
  <2>1. MaySend(g, "prompt", MayBeRun(g))
    BY DEF MaySend
  <2> QED BY <1>1, <1>3, <2>1
<1>4. ASSUME NEW n \in guests[g].dialogs, GuestSends(g, "answer", n) PROVE Speaks(g)
  <2>1. MaySend(g, "answer", n)
    BY <1>4 DEF MaySend
  <2> QED BY <1>1, <1>4, <2>1
<1> QED BY <1>2, <1>3, <1>4 DEF GuestActs

LEMMA GuestSendsTyped ==
  ASSUME Core, NEW g \in Guests, NEW t, NEW n, MaySend(g, t, n), GuestSends(g, t, n),
         UNCHANGED hostVars
  PROVE  LET r == guests[g].room
             msg == Frame(t, guests[g].peer, n)
         IN  /\ Typed' /\ r \in Rooms /\ OtherQueuesSame(r) /\ msg \in Messages
             /\ guests[g].st = "in" /\ UNCHANGED <<rooms, dials, guests>>
             /\ down'[r] = IF Open(r) THEN Append(down[r], msg) ELSE down[r]
<1> DEFINE r == guests[g].room
           p == guests[g].peer
           msg == Frame(t, p, n)
<1>1. /\ guests[g].st = "in" /\ down' = ToHost(r, msg) /\ UNCHANGED <<rooms, dials, guests>>
  BY DEF GuestSends
<1>2. r \in Rooms /\ p \in Peers
  BY <1>1 DEF Core, Typed
<1>3. guests[g].writes \in BOOLEAN /\ guests[g].dialogs \subseteq Nat
  BY DEF Core, Typed, GuestStates
<1>4. msg \in Messages
  <2>1. CASE t = "hello" /\ n = guests[g].writes
    BY <1>2, <1>3, <2>1 DEF Frame, Messages
  <2>2. CASE t = "prompt" /\ n = MayBeRun(g)
    <3>1. n \in BOOLEAN
      BY <2>2 DEF MayBeRun
    <3> QED BY <1>2, <2>2, <3>1 DEF Frame, Messages
  <2>3. CASE t = "answer" /\ n \in guests[g].dialogs
    BY <1>2, <1>3, <2>3 DEF Frame, Messages
  <2> QED BY <2>1, <2>2, <2>3 DEF MaySend
<1> HIDE DEF r, msg
<1>5. /\ down' \in [Rooms -> Seq(Messages)] /\ OtherQueuesSame(r)
      /\ down'[r] = IF Open(r) THEN Append(down[r], msg) ELSE down[r]
  BY <1>1, <1>2, <1>4, ToHostTyped DEF Core, Open, OtherQueuesSame
<1>6. Typed'
  BY <1>1, <1>5 DEF Core, Typed, hostVars
<1> QED BY <1>1, <1>2, <1>4, <1>5, <1>6 DEF r, msg

LEMMA GuestLeavesTyped ==
  ASSUME Core, NEW g \in Guests, GuestLeaves(g), UNCHANGED hostVars
  PROVE  /\ Typed' /\ OtherGuestsSame(g) /\ UNCHANGED <<rooms, dials, down>>
         /\ guests[g].st = "in" /\ guests'[g].st = "ending" /\ ~guests'[g].heard
         /\ guests'[g].room = guests[g].room /\ guests'[g].peer = guests[g].peer
<1> DEFINE a == [guests[g] EXCEPT !.st = "ending", !.heard = FALSE]
<1>1. guests[g] \in GuestStates /\ guests[g].st = "in" /\ UNCHANGED <<rooms, dials, down>>
      /\ guests' = [guests EXCEPT ![g] = a]
  BY DEF GuestLeaves, Core, Typed
<1>2. /\ a \in GuestStates /\ a.st = "ending" /\ ~a.heard /\ a.room = guests[g].room
      /\ a.peer = guests[g].peer
  BY <1>1 DEF GuestStates
<1> HIDE DEF a
<1>3. guests' \in [Guests -> GuestStates] /\ guests'[g] = a /\ OtherGuestsSame(g)
  BY <1>1, <1>2 DEF Core, Typed, OtherGuestsSame
<1>4. Typed'
  BY <1>1, <1>2, <1>3 DEF Core, Typed, hostVars, OtherGuestsSame
<1> QED BY <1>1, <1>2, <1>3, <1>4

LEMMA GuestClosesTyped ==
  ASSUME Core, NEW g \in Guests, GuestCloses(g), UNCHANGED hostVars
  PROVE  LET r == guests[g].room
             p == guests[g].peer
             msg == Frame("left", p, 0)
         IN  /\ Typed' /\ OtherGuestsSame(g) /\ UNCHANGED dials /\ r \in Rooms
             /\ guests[g].st = "ending" /\ guests'[g].st = "gone" /\ ~guests'[g].heard
             /\ \/ UNCHANGED <<rooms, down>>
                   /\ ~(p \in DOMAIN rooms[r].guests /\ rooms[r].guests[p] = g)
                \/ /\ OtherRoomsSame(r) /\ OtherQueuesSame(r) /\ msg \in Messages
                   /\ p \in DOMAIN rooms[r].guests /\ rooms[r].guests[p] = g
                   /\ rooms'[r].guests = Restrict(rooms[r].guests, DOMAIN rooms[r].guests \ {p})
                   /\ rooms'[r].next = rooms[r].next /\ rooms'[r].present = rooms[r].present
                   /\ rooms'[r].host = rooms[r].host /\ rooms'[r].timer = rooms[r].timer
                   /\ down'[r] = IF Open(r) THEN Append(down[r], msg) ELSE down[r]
<1> DEFINE r == guests[g].room
           p == guests[g].peer
           msg == Frame("left", p, 0)
           a == [Outside EXCEPT !.st = "gone"]
           mine == p \in DOMAIN rooms[r].guests /\ rooms[r].guests[p] = g
<1>1. guests[g].st = "ending" /\ UNCHANGED dials /\ guests' = [guests EXCEPT ![g] = a]
  BY DEF GuestCloses
<1>2. r \in Rooms /\ p \in Peers
  BY <1>1 DEF Core, Typed
<1>3. a \in GuestStates /\ a.st = "gone" /\ ~a.heard
  BY OutsideTyped DEF GuestStates
<1> HIDE DEF a
<1>4. guests' \in [Guests -> GuestStates] /\ guests'[g] = a /\ OtherGuestsSame(g)
  BY <1>1, <1>3 DEF Core, Typed, OtherGuestsSame
<1>5. CASE ~mine
  <2>1. UNCHANGED <<rooms, down>>
    BY <1>5 DEF GuestCloses
  <2>2. Typed'
    BY <1>1, <1>3, <1>4, <2>1 DEF Core, Typed, hostVars, OtherGuestsSame
  <2> QED BY <1>1, <1>2, <1>3, <1>4, <1>5, <2>1, <2>2
<1>6. CASE mine
  <2>1. /\ rooms' = [rooms EXCEPT ![r].guests = Restrict(@, DOMAIN @ \ {p})]
        /\ down' = ToHost(r, msg)
    BY <1>6 DEF GuestCloses
  <2>2. msg \in Messages
    BY <1>2 DEF Frame, Messages
  <2> HIDE DEF r, p, msg
  <2>3. /\ rooms' \in [Rooms -> RoomStates] /\ OtherRoomsSame(r)
        /\ rooms'[r].guests = Restrict(rooms[r].guests, DOMAIN rooms[r].guests \ {p})
        /\ rooms'[r].next = rooms[r].next /\ rooms'[r].present = rooms[r].present
        /\ rooms'[r].host = rooms[r].host /\ rooms'[r].timer = rooms[r].timer
    BY <1>2, <2>1, GuestDropped DEF Core
  <2>4. /\ down' \in [Rooms -> Seq(Messages)] /\ OtherQueuesSame(r)
        /\ down'[r] = IF Open(r) THEN Append(down[r], msg) ELSE down[r]
    BY <1>2, <2>1, <2>2, ToHostTyped DEF Core, Open, OtherQueuesSame
  <2>5. Typed'
    BY <1>1, <1>3, <1>4, <2>3, <2>4 DEF Core, Typed, hostVars, OtherGuestsSame
  <2> QED BY <1>1, <1>2, <1>3, <1>4, <1>6, <2>2, <2>3, <2>4, <2>5 DEF r, p, msg
<1> QED BY <1>5, <1>6

LEMMA AskBrowsersTyped ==
  ASSUME Core, NEW a \in Asks, AskBrowsers(a)
  PROVE  Typed' /\ UNCHANGED <<relayVars, ads, slot, starting, tap, session, log, reqs, astray>>
         /\ \A b \in Asks : asks'[b].at = "guests" => asks'[b] = asks[b]
<1>1. Web \in DialogStates /\ Web.at # "guests"
  BY DEF Web, DialogStates
<1>2. asks' \in [Asks -> DialogStates] /\ \A b \in Asks : asks'[b].at = "guests" => asks'[b] = asks[b]
  BY <1>1 DEF AskBrowsers, Core, Typed
<1> QED BY <1>2 DEF AskBrowsers, Core, Typed, relayVars

LEMMA BrowsersSettleTyped ==
  ASSUME Core, NEW a \in Asks, BrowsersSettle(a)
  PROVE  Typed' /\ UNCHANGED <<relayVars, ads, slot, starting, tap, session, log, reqs, astray>>
         /\ \A b \in Asks : asks'[b].at = "guests" => asks'[b] = asks[b]
<1>1. Settled \in DialogStates /\ Settled.at # "guests"
  BY DEF Settled, DialogStates
<1>2. asks' \in [Asks -> DialogStates] /\ \A b \in Asks : asks'[b].at = "guests" => asks'[b] = asks[b]
  BY <1>1 DEF BrowsersSettle, Core, Typed
<1> QED BY <1>2 DEF BrowsersSettle, Core, Typed, relayVars

LEMMA SwitchesTyped ==
  ASSUME Core, Switches
  PROVE  /\ Typed' /\ session' = session + 1
         /\ UNCHANGED <<relayVars, ads, slot, starting, tap, log, reqs, astray>>
         /\ \A b \in Asks : asks'[b].at = "guests" => asks'[b] = asks[b]
<1>1. Settled \in DialogStates /\ Settled.at # "guests"
  BY DEF Settled, DialogStates
<1>2. asks' \in [Asks -> DialogStates] /\ \A b \in Asks : asks'[b].at = "guests" => asks'[b] = asks[b]
  BY <1>1 DEF Switches, Core, Typed
<1>3. session' \in Nat /\ session' = session + 1 /\ faults' \in 0..MaxFaults
  BY BoundsAreNatural DEF Switches, Core, Typed
<1> QED BY <1>2, <1>3 DEF Switches, Core, Typed, relayVars
-----------------------------------------------------------------------------
(* Connections and rooms.                                                  *)

\* The actions that leave rooms and connections alone.
Talk ==
  \/ \E a \in Asks : AskGuests(a) \/ AskBrowsers(a) \/ BrowsersSettle(a)
  \/ CollabStop \/ Appends \/ Switches
  \/ \E k \in Rooms : HostReads(k) \/ FindsSwitch(k)

LEMMA TalkLeaves ==
  ASSUME Core, Talk
  PROVE  Typed' /\ UNCHANGED <<rooms, dials>> /\ \A k \in Rooms : SameLink(k)
<1>1. ASSUME NEW a \in Asks, AskGuests(a)
      PROVE  Typed' /\ UNCHANGED <<rooms, dials>> /\ \A k \in Rooms : SameLink(k)
  <2>1. UNCHANGED <<rooms, dials>>
    BY <1>1 DEF AskGuests
  <2> QED BY <1>1, <2>1, AskGuestsTyped DEF OthersSame, SameLink
<1>2. ASSUME NEW a \in Asks, AskBrowsers(a) \/ BrowsersSettle(a)
      PROVE  Typed' /\ UNCHANGED <<rooms, dials>> /\ \A k \in Rooms : SameLink(k)
  BY <1>2, AskBrowsersTyped, BrowsersSettleTyped DEF SameLink, relayVars
<1>3. CASE CollabStop
  <2>1. UNCHANGED <<rooms, dials>>
    BY <1>3 DEF CollabStop, relayVars
  <2> QED BY <1>3, <2>1, CollabStopTyped
<1>4. CASE Appends
  <2>1. UNCHANGED <<rooms, dials>>
    BY <1>4 DEF Appends
  <2> QED BY <1>4, <2>1, AppendsTyped
<1>5. CASE Switches
  BY <1>5, SwitchesTyped DEF SameLink, relayVars
<1>6. ASSUME NEW k \in Rooms, HostReads(k) \/ FindsSwitch(k)
      PROVE  Typed' /\ UNCHANGED <<rooms, dials>> /\ \A j \in Rooms : SameLink(j)
  <2>1. UNCHANGED <<rooms, dials>>
    BY <1>6 DEF HostReads, Hello, Answer, Prompt, PeerLeft, FindsSwitch, relayVars
  <2>2. CASE Prompt(k)
    <3>1. UNCHANGED ads
      BY <2>2 DEF Prompt
    <3> QED BY <2>1, <2>2, <3>1, PromptTyped DEF SameLink
  <2>3. CASE ~Prompt(k)
    <3>1. Typed' /\ OthersSame(k) /\ SameLink(k)
      BY <1>6, <2>3, HelloTyped, AnswerTyped, PeerLeftTyped, FindsSwitchTyped DEF HostReads
    <3> QED BY <2>1, <3>1 DEF OthersSame, SameLink
  <2> QED BY <2>2, <2>3
<1> QED BY <1>1, <1>2, <1>3, <1>4, <1>5, <1>6 DEF Talk

LEMMA DialledStays ==
  ASSUME Core, Typed', UNCHANGED dials, \A k \in Rooms : SameLink(k)
  PROVE  Dialled'
<1>1. ASSUME NEW k \in Rooms PROVE AdapterDialled(k)'
  <2>1. AdapterDialled(k) /\ SameLink(k)
    BY DEF Core, Linked, Dialled
  <2> QED BY <2>1 DEF AdapterDialled, SameLink
<1>2. ASSUME NEW d \in Dials PROVE DialDialled(d)'
  <2>1. DialDialled(d)
    BY DEF Core, Linked, Dialled
  <2>2. dials[d].alive => dials[d].room \in Rooms
    BY <2>1 DEF DialDialled, FreeDial
  <2>3. dials[d].alive => SameLink(dials[d].room)
    BY <2>2
  <2> QED BY <2>1, <2>2, <2>3 DEF DialDialled, SameLink
<1> QED BY <1>1, <1>2 DEF Dialled

\* What a step leaves alone of a room when only its guests change.
SameHost(r) ==
  /\ rooms'[r].present = rooms[r].present /\ rooms'[r].host = rooms[r].host
  /\ rooms'[r].timer = rooms[r].timer
  /\ rooms[r].present \/ rooms'[r] = rooms[r]

LEMMA HeldStays ==
  ASSUME Core, UNCHANGED dials, \A r \in Rooms : SameLink(r) /\ SameHost(r)
  PROVE  Held'
<1>1. ASSUME NEW r \in Rooms PROVE RoomHeld(r)'
  <2>1. RoomHeld(r) /\ SameLink(r) /\ SameHost(r)
    BY DEF Core, Linked, Held
  <2> QED BY <2>1 DEF RoomHeld, SameLink, SameHost
<1> QED BY <1>1 DEF Held

\* A start and a return take a dial that is free.
LEMMA LinkedDials ==
  ASSUME Core, Typed', NEW k \in Rooms, NEW d \in Dials, OthersSame(k), OtherDialsSame(d),
         UNCHANGED rooms, ads[k].sock \in {"none", "down"}, dials[d].st = "free",
         ads'[k].phase \in {"dialing", "live"}, ads'[k].sock = "dialing", ads'[k].dial = d,
         dials'[d].st = "asked", dials'[d].room = k, dials'[d].alive
  PROVE  Linked'
<1>1. dials[d] = FreeDial /\ ~dials[d].alive
  BY DEF Core, Linked, Dialled, DialDialled, FreeDial
<1>2. ASSUME NEW j \in Rooms PROVE AdapterDialled(j)'
  <2>1. CASE j = k
    BY <2>1 DEF AdapterDialled
  <2>2. CASE j # k
    <3>1. AdapterDialled(j) /\ ads'[j] = ads[j]
      BY <2>2 DEF Core, Linked, Dialled, OthersSame
    <3>2. ads[j].sock \in {"dialing", "open"} => ads[j].dial \in Dials /\ ads[j].dial # d
      BY <1>1, <3>1 DEF AdapterDialled
    <3>3. ads[j].sock \in {"dialing", "open"} => dials'[ads[j].dial] = dials[ads[j].dial]
      BY <3>2 DEF OtherDialsSame
    <3> QED BY <3>1, <3>2, <3>3 DEF AdapterDialled
  <2> QED BY <2>1, <2>2
<1>3. ASSUME NEW e \in Dials PROVE DialDialled(e)'
  <2>1. CASE e = d
    BY <2>1 DEF DialDialled, FreeDial
  <2>2. CASE e # d
    <3>1. DialDialled(e) /\ dials'[e] = dials[e]
      BY <2>2 DEF Core, Linked, Dialled, OtherDialsSame
    <3>2. dials[e].alive => dials[e].room \in Rooms /\ dials[e].room # k
      BY <3>1 DEF DialDialled, FreeDial
    <3>3. dials[e].alive => ads'[dials[e].room] = ads[dials[e].room]
      BY <3>2 DEF OthersSame
    <3> QED BY <3>1, <3>3 DEF DialDialled
  <2> QED BY <2>1, <2>2
<1>4. ASSUME NEW r \in Rooms PROVE RoomHeld(r)'
  <2>1. RoomHeld(r) /\ rooms[r].host \in Dials \cup {0}
    BY DEF Core, Linked, Held, Typed, RoomStates
  <2>2. rooms[r].host # 0 => dials'[rooms[r].host] = dials[rooms[r].host]
    BY <1>1, <2>1 DEF RoomHeld, OtherDialsSame, FreeDial
  <2>3. ads'[r].sock = "open" => ads'[r] = ads[r]
    BY DEF OthersSame
  <2> QED BY <2>1, <2>2, <2>3 DEF RoomHeld
<1> QED BY <1>2, <1>3, <1>4 DEF Linked, Dialled, Held

\* A room stays with its host, or is closed.
KeptOrClosed(r) == rooms'[r] = rooms[r] \/ (rooms'[r] = NoRoom /\ ads'[r].sock # "open")

\* An adapter lets go of its dial, and fades or ends.
LEMMA LinkedLetsGo ==
  ASSUME Core, Typed', NEW k \in Rooms, OthersSame(k), LetGo(k), Faded(k),
         \A r \in Rooms : KeptOrClosed(r)
  PROVE  Linked'
<1>1. ads'[k].sock \in {"none", "down"} /\ AdapterDialled(k)'
  BY DEF Faded, Ended, AdapterDialled
<1>2. ASSUME NEW j \in Rooms PROVE AdapterDialled(j)'
  <2>1. CASE j = k
    BY <1>1, <2>1
  <2>2. CASE j # k
    <3>1. AdapterDialled(j) /\ AdapterDialled(k) /\ ads'[j] = ads[j]
      BY <2>2 DEF Core, Linked, Dialled, OthersSame
    <3>2. ads[j].sock \in {"dialing", "open"} => ads[j].dial \in Dials /\ dials[ads[j].dial].room = j
      BY <3>1 DEF AdapterDialled
    <3>3. ads[j].sock \in {"dialing", "open"} => dials'[ads[j].dial] = dials[ads[j].dial]
      BY <2>2, <3>1, <3>2 DEF LetGo, AdapterDialled
    <3> QED BY <3>1, <3>2, <3>3 DEF AdapterDialled
  <2> QED BY <2>1, <2>2
<1>3. ASSUME NEW e \in Dials PROVE DialDialled(e)'
  <2>1. DialDialled(e)
    BY DEF Core, Linked, Dialled
  <2>2. CASE ads[k].sock \in {"dialing", "open"} /\ ads[k].dial = e
    <3>1. \/ dials'[e] = FreeDial
          \/ /\ dials'[e].st = dials[e].st /\ dials[e].st # "asked" /\ dials'[e].room = dials[e].room
             /\ ~dials'[e].alive
      BY <2>2 DEF LetGo
    <3>2. dials[e].alive
      BY <2>2 DEF Core, Linked, Dialled, AdapterDialled
    <3> QED BY <2>1, <3>1, <3>2 DEF DialDialled, FreeDial
  <2>3. CASE ~(ads[k].sock \in {"dialing", "open"} /\ ads[k].dial = e)
    <3>1. dials'[e] = dials[e]
      BY <2>3 DEF LetGo
    <3>2. dials[e].alive => dials[e].room \in Rooms /\ dials[e].room # k
      BY <2>1, <2>3 DEF DialDialled, FreeDial
    <3>3. dials[e].alive => ads'[dials[e].room] = ads[dials[e].room]
      BY <3>2 DEF OthersSame
    <3> QED BY <2>1, <3>1, <3>3 DEF DialDialled
  <2> QED BY <2>2, <2>3
<1>4. ASSUME NEW r \in Rooms PROVE RoomHeld(r)'
  <2>1. CASE rooms'[r] = NoRoom /\ ads'[r].sock # "open"
    BY <2>1 DEF RoomHeld, NoRoom
  <2>2. CASE rooms'[r] = rooms[r]
    <3>1. RoomHeld(r) /\ rooms[r].host \in Dials \cup {0}
      BY DEF Core, Linked, Held, Typed, RoomStates
    <3>2. ASSUME rooms[r].host # 0
          PROVE  dials'[rooms[r].host].st = "open" /\ dials'[rooms[r].host].room = r
      <4>1. rooms[r].host \in Dials /\ dials[rooms[r].host].st = "open" /\ dials[rooms[r].host].room = r
        BY <3>1, <3>2 DEF RoomHeld
      <4> QED BY <4>1 DEF LetGo
    <3>3. ads'[r].sock = "open" => ads'[r] = ads[r]
      BY <1>1 DEF OthersSame
    <3> QED BY <2>2, <3>1, <3>2, <3>3 DEF RoomHeld
  <2>3. KeptOrClosed(r)
    OBVIOUS
  <2> QED BY <2>1, <2>2, <2>3 DEF KeptOrClosed
<1> QED BY <1>2, <1>3, <1>4 DEF Linked, Dialled, Held
LEMMA LinkedHostOpens ==
  ASSUME Core, NEW d \in Dials, HostOpens(d)
  PROVE  Linked'
<1> DEFINE q == dials[d].room
           k == Caller(d)
<1>1. /\ Typed' /\ q \in Rooms /\ OtherDialsSame(d) /\ OtherRoomsSame(q)
      /\ dials'[d].st = "open" /\ dials'[d].room = q /\ dials'[d].alive = dials[d].alive
      /\ rooms'[q].present /\ rooms'[q].host = d /\ ~rooms'[q].timer
      /\ k = 0 => UNCHANGED ads
      /\ k # 0 => /\ OthersSame(k) /\ ads'[k].sock = "open" /\ ads'[k].phase = "live"
                  /\ ads'[k].dial = ads[k].dial
  BY HostOpensTyped
<1>2. /\ dials[d].st = "upgraded" /\ d # 0
      /\ k = 0 => ~dials[d].alive
      /\ k # 0 => k = q /\ dials[d].alive /\ ads[k].sock = "dialing" /\ ads[k].dial = d
  BY CallerIs, RoomsAreNumbers DEF HostOpens
<1>3. rooms[q].present => rooms[q].host = 0
  BY DEF HostOpens, Admits
<1> HIDE DEF q, k
<1>4. ASSUME NEW j \in Rooms PROVE AdapterDialled(j)'
  <2>1. AdapterDialled(j)
    BY DEF Core, Linked, Dialled
  <2>2. CASE j = k
    <3>1. k # 0
      BY <2>2, RoomsAreNumbers
    <3> QED BY <1>1, <1>2, <2>2, <3>1 DEF AdapterDialled
  <2>3. CASE j # k
    <3>1. ads'[j] = ads[j]
      BY <1>1, <2>3 DEF OthersSame
    <3>2. ads[j].sock \in {"dialing", "open"} => ads[j].dial \in Dials /\ ads[j].dial # d
      BY <1>2, <2>1, <2>3 DEF AdapterDialled, q
    <3>3. ads[j].sock \in {"dialing", "open"} => dials'[ads[j].dial] = dials[ads[j].dial]
      BY <1>1, <3>2 DEF OtherDialsSame
    <3> QED BY <2>1, <3>1, <3>2, <3>3 DEF AdapterDialled
  <2> QED BY <2>2, <2>3
<1>5. ASSUME NEW e \in Dials PROVE DialDialled(e)'
  <2>1. DialDialled(e) /\ DialDialled(d)
    BY DEF Core, Linked, Dialled
  <2>2. CASE e = d
    <3>1. dials[d].alive => k # 0
      BY <1>2
    <3> QED BY <1>1, <1>2, <2>2, <3>1 DEF DialDialled
  <2>3. CASE e # d
    <3>1. dials'[e] = dials[e]
      BY <1>1, <2>3 DEF OtherDialsSame
    <3>2. dials[e].alive => dials[e].room \in Rooms /\ (k # 0 => dials[e].room # k)
      BY <1>2, <2>1, <2>3 DEF DialDialled, FreeDial
    <3>3. dials[e].alive => ads'[dials[e].room] = ads[dials[e].room]
      BY <1>1, <3>2 DEF OthersSame
    <3> QED BY <2>1, <3>1, <3>3 DEF DialDialled
  <2> QED BY <2>2, <2>3
<1>6. ASSUME NEW r \in Rooms PROVE RoomHeld(r)'
  <2>1. RoomHeld(r) /\ rooms[r].host \in Dials \cup {0} /\ AdapterDialled(r)
    BY DEF Core, Linked, Dialled, Held, Typed, RoomStates
  <2>2. CASE r = q
    <3>1. ads'[q].sock = "open" => ads'[q].dial = d
      <4>1. CASE k = q
        BY <1>1, <1>2, <4>1, RoomsAreNumbers
      <4>2. CASE k # q
        <5>1. k = 0
          BY <1>2, <4>2
        <5>2. ads[q].sock # "open"
          BY <1>3, <2>1, <2>2, RoomsAreNumbers DEF RoomHeld, AdapterDialled
        <5> QED BY <1>1, <5>1, <5>2
      <4> QED BY <4>1, <4>2
    <3> QED BY <1>1, <1>2, <2>2, <3>1 DEF RoomHeld
  <2>3. CASE r # q
    <3>1. rooms'[r] = rooms[r] /\ ads'[r] = ads[r]
      BY <1>1, <1>2, <2>3 DEF OtherRoomsSame, OthersSame
    <3>2. rooms[r].host # 0 => dials'[rooms[r].host] = dials[rooms[r].host]
      BY <1>1, <1>2, <2>1 DEF RoomHeld, OtherDialsSame
    <3> QED BY <2>1, <3>1, <3>2 DEF RoomHeld
  <2> QED BY <2>2, <2>3
<1> QED BY <1>4, <1>5, <1>6 DEF Linked, Dialled, Held

LEMMA LinkedHostIsRefused ==
  ASSUME Core, NEW d \in Dials, HostIsRefused(d)
  PROVE  Linked'
<1> DEFINE k == Caller(d)
<1>1. /\ Typed' /\ OtherDialsSame(d) /\ dials[d].st = "upgraded" /\ dials'[d] = FreeDial
      /\ k = 0 => UNCHANGED ads
      /\ k # 0 => OthersSame(k) /\ Ended(k)
  BY HostIsRefusedTyped
<1>2. UNCHANGED rooms
  BY DEF HostIsRefused
<1>3. /\ k = 0 => ~dials[d].alive
      /\ k # 0 => k \in Rooms /\ ads[k].sock = "dialing" /\ ads[k].dial = d
  BY <1>1, CallerIs
<1> HIDE DEF k
<1>4. CASE k # 0
  <2>1. LetGo(k) /\ Faded(k) /\ \A r \in Rooms : KeptOrClosed(r)
    BY <1>1, <1>2, <1>3, <1>4 DEF LetGo, Faded, KeptOrClosed, OtherDialsSame
  <2> QED BY <1>1, <1>3, <1>4, <2>1, LinkedLetsGo
<1>5. CASE k = 0
  <2>1. ASSUME NEW j \in Rooms PROVE AdapterDialled(j)'
    <3>1. AdapterDialled(j) /\ ads'[j] = ads[j]
      BY <1>1, <1>5 DEF Core, Linked, Dialled
    <3>2. ads[j].sock \in {"dialing", "open"} => ads[j].dial \in Dials /\ ads[j].dial # d
      BY <1>3, <1>5, <3>1 DEF AdapterDialled
    <3> QED BY <1>1, <3>1, <3>2 DEF AdapterDialled, OtherDialsSame
  <2>2. ASSUME NEW e \in Dials PROVE DialDialled(e)'
    <3>1. DialDialled(e)
      BY DEF Core, Linked, Dialled
    <3>2. CASE e = d
      BY <1>1, <3>2 DEF DialDialled, FreeDial
    <3>3. CASE e # d
      BY <1>1, <1>5, <3>1, <3>3 DEF DialDialled, OtherDialsSame
    <3> QED BY <3>2, <3>3
  <2>3. ASSUME NEW r \in Rooms PROVE RoomHeld(r)'
    <3>1. RoomHeld(r) /\ rooms[r].host \in Dials \cup {0}
      BY DEF Core, Linked, Held, Typed, RoomStates
    <3>2. rooms[r].host # 0 => dials'[rooms[r].host] = dials[rooms[r].host]
      BY <1>1, <3>1 DEF RoomHeld, OtherDialsSame
    <3> QED BY <1>1, <1>2, <1>5, <3>1, <3>2 DEF RoomHeld
  <2> QED BY <2>1, <2>2, <2>3 DEF Linked, Dialled, Held
<1> QED BY <1>4, <1>5

LEMMA LinkedHostCloses ==
  ASSUME Core, NEW d \in Dials, HostCloses(d), UNCHANGED hostVars
  PROVE  Linked'
<1> DEFINE q == dials[d].room
<1>1. /\ OtherDialsSame(d) /\ OtherRoomsSame(q) /\ q \in Rooms
      /\ dials[d].st = "open" /\ ~dials[d].alive /\ dials'[d] = FreeDial
      /\ rooms'[q].present = rooms[q].present
      /\ IF rooms[q].present /\ rooms[q].host = d
         THEN rooms'[q].host = 0 /\ rooms'[q].timer
         ELSE rooms'[q] = rooms[q]
  BY HostClosesTyped
<1>2. UNCHANGED ads
  BY DEF hostVars
<1> HIDE DEF q
<1>3. ASSUME NEW j \in Rooms PROVE AdapterDialled(j)'
  <2>1. AdapterDialled(j)
    BY DEF Core, Linked, Dialled
  <2>2. ads[j].sock \in {"dialing", "open"} => ads[j].dial \in Dials /\ ads[j].dial # d
    BY <1>1, <2>1 DEF AdapterDialled
  <2> QED BY <1>1, <1>2, <2>1, <2>2 DEF AdapterDialled, OtherDialsSame
<1>4. ASSUME NEW e \in Dials PROVE DialDialled(e)'
  <2>1. DialDialled(e)
    BY DEF Core, Linked, Dialled
  <2>2. CASE e = d
    BY <1>1, <2>2 DEF DialDialled, FreeDial
  <2>3. CASE e # d
    BY <1>1, <1>2, <2>1, <2>3 DEF DialDialled, OtherDialsSame
  <2> QED BY <2>2, <2>3
<1>5. ASSUME NEW r \in Rooms PROVE RoomHeld(r)'
  <2>1. /\ RoomHeld(r) /\ rooms[r].host \in Dials \cup {0} /\ AdapterDialled(r)
        /\ rooms[r].host # 0 => rooms[r].present
    BY DEF Core, Linked, Dialled, Held, RoomHeld, Typed, RoomStates, NoRoom
  <2>2. ads[r].sock = "open" => rooms[r].host # d
    BY <1>1, <2>1 DEF RoomHeld, AdapterDialled
  <2>3. CASE r = q /\ rooms[r].present /\ rooms[r].host = d
    BY <1>1, <1>2, <2>1, <2>2, <2>3 DEF RoomHeld
  <2>4. CASE ~(r = q /\ rooms[r].present /\ rooms[r].host = d)
    <3>1. rooms'[r] = rooms[r]
      BY <1>1, <2>4 DEF OtherRoomsSame
    <3>2. rooms[r].host # 0 => dials'[rooms[r].host] = dials[rooms[r].host]
      <4>1. rooms[r].host # 0 => rooms[r].host # d
        BY <2>1, <2>4 DEF RoomHeld, q
      <4> QED BY <1>1, <2>1, <4>1 DEF OtherDialsSame
    <3> QED BY <1>2, <2>1, <3>1, <3>2 DEF RoomHeld
  <2> QED BY <2>3, <2>4
<1> QED BY <1>3, <1>4, <1>5 DEF Linked, Dialled, Held

LEMMA LinkedExpires ==
  ASSUME Core, NEW q \in Rooms, Expires(q), UNCHANGED hostVars
  PROVE  Linked'
<1>1. /\ Typed' /\ OtherRoomsSame(q) /\ rooms'[q] = NoRoom /\ rooms[q].host = 0
      /\ UNCHANGED <<dials, down>>
  BY ExpiresTyped
<1>2. UNCHANGED ads /\ \A k \in Rooms : SameLink(k)
  BY DEF hostVars, SameLink
<1>3. Dialled'
  BY <1>1, <1>2, DialledStays
<1>4. ASSUME NEW r \in Rooms PROVE RoomHeld(r)'
  <2>1. RoomHeld(r) /\ AdapterDialled(r)
    BY DEF Core, Linked, Dialled, Held
  <2>2. CASE r = q
    <3>1. ads[r].sock # "open"
      BY <1>1, <2>1, <2>2, RoomsAreNumbers DEF RoomHeld, AdapterDialled
    <3> QED BY <1>1, <1>2, <2>2, <3>1 DEF RoomHeld, NoRoom
  <2>3. CASE r # q
    BY <1>1, <1>2, <2>1, <2>3 DEF RoomHeld, OtherRoomsSame
  <2> QED BY <2>2, <2>3
<1> QED BY <1>3, <1>4 DEF Linked, Held

\* The actions of guests.
Visit ==
  /\ \E g \in Guests : GuestActs(g) \/ GuestCloses(g)
  /\ UNCHANGED hostVars

LEMMA VisitLeaves ==
  ASSUME Core, Visit
  PROVE  /\ Typed' /\ UNCHANGED dials /\ \A r \in Rooms : SameHost(r) /\ SameLink(r)
<1>1. \A r \in Rooms : SameLink(r)
  BY DEF Visit, hostVars, SameLink
<1>2. ASSUME NEW g \in Guests, NEW r \in Rooms, NEW w \in BOOLEAN, GuestJoins(g, r, w),
             UNCHANGED hostVars
      PROVE  Typed' /\ UNCHANGED dials /\ \A q \in Rooms : SameHost(q)
  <2>1. /\ Typed' /\ UNCHANGED dials /\ OtherRoomsSame(r)
        /\ rooms[r].present /\ rooms'[r].present /\ rooms'[r].host = rooms[r].host
        /\ rooms'[r].timer = rooms[r].timer
    BY <1>2, GuestJoinsTyped
  <2>2. rooms'[r].present = rooms[r].present
    BY <2>1 DEF Typed, RoomStates
  <2> QED BY <2>1, <2>2 DEF SameHost, OtherRoomsSame
<1>3. ASSUME NEW g \in Guests, GuestLeaves(g), UNCHANGED hostVars
      PROVE  Typed' /\ UNCHANGED dials /\ \A q \in Rooms : SameHost(q)
  BY <1>3, GuestLeavesTyped DEF SameHost
<1>4. ASSUME NEW g \in Guests, Speaks(g), UNCHANGED hostVars
      PROVE  Typed' /\ UNCHANGED dials /\ \A q \in Rooms : SameHost(q)
  <2>1. PICK t, n : MaySend(g, t, n) /\ GuestSends(g, t, n)
    BY <1>4 DEF Speaks
  <2> QED BY <1>4, <2>1, GuestSendsTyped DEF SameHost
<1>5. ASSUME NEW g \in Guests, GuestCloses(g), UNCHANGED hostVars
      PROVE  Typed' /\ UNCHANGED dials /\ \A q \in Rooms : SameHost(q)
  <2> DEFINE r == guests[g].room
             p == guests[g].peer
  <2>1. /\ Typed' /\ UNCHANGED dials
        /\ \/ UNCHANGED rooms
           \/ /\ OtherRoomsSame(r) /\ p \in DOMAIN rooms[r].guests /\ r \in Rooms
              /\ rooms'[r].present = rooms[r].present
              /\ rooms'[r].host = rooms[r].host /\ rooms'[r].timer = rooms[r].timer
    BY <1>5, GuestClosesTyped
  <2> HIDE DEF r, p
  <2>2. CASE UNCHANGED rooms
    BY <2>1, <2>2 DEF SameHost
  <2>3. CASE ~UNCHANGED rooms
    <3>1. rooms[r].present
      BY <2>1, <2>3, NoRoomTyped DEF Core, Linked, Held, RoomHeld
    <3> QED BY <2>1, <2>3, <3>1 DEF SameHost, OtherRoomsSame
  <2> QED BY <2>2, <2>3
<1> QED BY <1>1, <1>2, <1>3, <1>4, <1>5, GuestDoes DEF Visit

\* The actions that are left: of connections, of starts and of stops.
Connect ==
  \/ \E k \in Rooms, d \in Dials : CollabStart(k, d) \/ Redials(k, d)
  \/ \E d \in Dials : HostOpens(d) \/ HostIsRefused(d) \/ (HostCloses(d) /\ UNCHANGED hostVars)
  \/ \E r \in Rooms : Expires(r) /\ UNCHANGED hostVars
  \/ \E k \in Rooms : DialUpgrades(k) \/ DialFails(k) \/ Breaks(k)
  \/ \E k \in Rooms : \E turn \in ads[k].turns : StopTurn(k, turn)

LEMMA StepIs == Next => Talk \/ Visit \/ Connect
BY DEF Next, SessionActs, Talk, Visit, Connect

LEMMA LinkedConnect ==
  ASSUME Core, Connect
  PROVE  Typed' /\ Linked'
<1>1. ASSUME NEW k \in Rooms, NEW d \in Dials, CollabStart(k, d) PROVE Typed' /\ Linked'
  <2>1. /\ Typed' /\ OthersSame(k) /\ OtherDialsSame(d)
        /\ ads'[k].phase = "dialing" /\ ads'[k].sock = "dialing" /\ ads'[k].dial = d
        /\ dials'[d].st = "asked" /\ dials'[d].room = k /\ dials'[d].alive
    BY <1>1, CollabStartTyped
  <2>2. UNCHANGED rooms /\ ads[k].phase = "none" /\ dials[d].st = "free"
    BY <1>1 DEF CollabStart
  <2>3. ads[k].sock = "none"
    BY <2>2 DEF Core, Linked, Dialled, AdapterDialled
  <2> QED BY <2>1, <2>2, <2>3, LinkedDials
<1>2. ASSUME NEW k \in Rooms, NEW d \in Dials, Redials(k, d) PROVE Typed' /\ Linked'
  <2>1. /\ Typed' /\ OthersSame(k) /\ OtherDialsSame(d)
        /\ ads'[k].phase = ads[k].phase /\ ads'[k].sock = "dialing" /\ ads'[k].dial = d
        /\ dials'[d].st = "asked" /\ dials'[d].room = k /\ dials'[d].alive
    BY <1>2, RedialsTyped
  <2>2. UNCHANGED rooms /\ ads[k].phase = "live" /\ dials[d].st = "free" /\ ads[k].sock = "down"
    BY <1>2 DEF Redials, IsLive
  <2> QED BY <2>1, <2>2, LinkedDials
<1>3. ASSUME NEW d \in Dials,
             HostOpens(d) \/ HostIsRefused(d) \/ (HostCloses(d) /\ UNCHANGED hostVars)
      PROVE  Typed' /\ Linked'
  BY <1>3, HostOpensTyped, HostIsRefusedTyped, HostClosesTyped,
     LinkedHostOpens, LinkedHostIsRefused, LinkedHostCloses
<1>4. ASSUME NEW r \in Rooms, Expires(r), UNCHANGED hostVars PROVE Typed' /\ Linked'
  BY <1>4, ExpiresTyped, LinkedExpires
<1>5. ASSUME NEW k \in Rooms, DialUpgrades(k) PROVE Typed' /\ Linked'
  <2> DEFINE d == ads[k].dial
  <2>1. /\ Typed' /\ ads[k].sock = "dialing" /\ d \in Dials /\ dials[d].room = k
        /\ \/ /\ UNCHANGED ads /\ OtherDialsSame(d) /\ dials[d].st = "asked"
              /\ dials'[d].st = "upgraded"
              /\ dials'[d].room = dials[d].room /\ dials'[d].alive = dials[d].alive
           \/ LetGo(k) /\ OthersSame(k) /\ Faded(k)
    BY <1>5, DialUpgradesTyped, DialOf
  <2>2. UNCHANGED rooms
    BY <1>5 DEF DialUpgrades
  <2> HIDE DEF d
  <2>3. CASE LetGo(k) /\ OthersSame(k) /\ Faded(k)
    <3>1. \A r \in Rooms : KeptOrClosed(r)
      BY <2>2 DEF KeptOrClosed
    <3> QED BY <2>1, <2>3, <3>1, LinkedLetsGo
  <2>4. CASE ~(LetGo(k) /\ OthersSame(k) /\ Faded(k))
    <3>1. ASSUME NEW j \in Rooms PROVE AdapterDialled(j)'
      <4>1. AdapterDialled(j) /\ ads'[j] = ads[j]
        BY <2>1, <2>4 DEF Core, Linked, Dialled
      <4>2. CASE j = k
        BY <2>1, <2>4, <4>1, <4>2 DEF AdapterDialled, d
      <4>3. CASE j # k
        <5>1. ads[j].sock \in {"dialing", "open"} => ads[j].dial \in Dials /\ ads[j].dial # d
          BY <2>1, <4>1, <4>3 DEF AdapterDialled
        <5> QED BY <2>1, <2>4, <4>1, <5>1 DEF AdapterDialled, OtherDialsSame
      <4> QED BY <4>2, <4>3
    <3>2. ASSUME NEW e \in Dials PROVE DialDialled(e)'
      <4>1. DialDialled(e)
        BY DEF Core, Linked, Dialled
      <4>2. CASE e = d
        BY <2>1, <2>4, <4>1, <4>2 DEF DialDialled
      <4>3. CASE e # d
        BY <2>1, <2>4, <4>1, <4>3 DEF DialDialled, OtherDialsSame
      <4> QED BY <4>2, <4>3
    <3>3. ASSUME NEW r \in Rooms PROVE RoomHeld(r)'
      <4>1. RoomHeld(r) /\ rooms[r].host \in Dials \cup {0}
        BY DEF Core, Linked, Held, Typed, RoomStates
      <4>2. rooms[r].host # 0 => dials'[rooms[r].host] = dials[rooms[r].host]
        BY <2>1, <2>4, <4>1 DEF RoomHeld, OtherDialsSame
      <4> QED BY <2>1, <2>2, <2>4, <4>1, <4>2 DEF RoomHeld
    <3> QED BY <2>1, <3>1, <3>2, <3>3 DEF Linked, Dialled, Held
  <2> QED BY <2>3, <2>4
<1>6. ASSUME NEW k \in Rooms, DialFails(k) PROVE Typed' /\ Linked'
  <2>1. \A r \in Rooms : KeptOrClosed(r)
    BY <1>6 DEF DialFails, KeptOrClosed
  <2> QED BY <1>6, <2>1, DialFailsTyped, LinkedLetsGo
<1>7. ASSUME NEW k \in Rooms, Breaks(k) PROVE Typed' /\ Linked'
  <2>1. \A r \in Rooms : KeptOrClosed(r)
    BY <1>7 DEF Breaks, KeptOrClosed
  <2> QED BY <1>7, <2>1, BreaksTyped, LinkedLetsGo
<1>8. ASSUME NEW k \in Rooms, NEW turn \in ads[k].turns, StopTurn(k, turn) PROVE Typed' /\ Linked'
  <2>1. /\ Typed' /\ LetGo(k) /\ OthersSame(k) /\ Ended(k) /\ OtherRoomsSame(k)
        /\ rooms'[k] = NoRoom \/ UNCHANGED rooms
    BY <1>8, StopTurnTyped
  <2>2. Faded(k) /\ \A r \in Rooms : KeptOrClosed(r)
    BY <2>1 DEF Faded, Ended, KeptOrClosed, OtherRoomsSame
  <2> QED BY <2>1, <2>2, LinkedLetsGo
<1> QED BY <1>1, <1>2, <1>3, <1>4, <1>5, <1>6, <1>7, <1>8 DEF Connect

LEMMA LinkedStep ==
  ASSUME Core, Next
  PROVE  Typed' /\ Linked'
<1>1. CASE Talk
  <2>1. Typed' /\ UNCHANGED <<rooms, dials>> /\ \A k \in Rooms : SameLink(k)
    BY <1>1, TalkLeaves
  <2>2. \A r \in Rooms : SameHost(r)
    BY <2>1 DEF SameHost
  <2> QED BY <2>1, <2>2, DialledStays, HeldStays DEF Linked
<1>2. CASE Visit
  BY <1>2, VisitLeaves, DialledStays, HeldStays DEF Linked
<1>3. CASE Connect
  BY <1>3, LinkedConnect
<1> QED BY <1>1, <1>2, <1>3, StepIs

-----------------------------------------------------------------------------
(* What adapters have asked.                                               *)

\* An adapter asks no more and is as it was, or it went live, or ended.
AsksLess(k) ==
  \/ Ended(k)
  \/ /\ ads'[k].pending \subseteq ads[k].pending /\ SameSession(k)
     /\ ads'[k].phase \in {ads[k].phase, "live"}

LEMMA TaskedStays ==
  ASSUME Core, reqs' = reqs, session' \in {session, session + 1}, \A k \in Rooms : AsksLess(k)
  PROVE  Tasked'
<1>1. ASSUME NEW k \in Rooms PROVE AdapterTasked(k)'
  <2>1. AdapterTasked(k) /\ AsksLess(k) /\ session \in Nat /\ ads[k].session \in Nat
    BY DEF Core, Tasked, Typed, AdapterStates
  <2>2. CASE Ended(k)
    BY <2>1, <2>2 DEF AdapterTasked, Ended
  <2>3. CASE ~Ended(k)
    <3>1. ads'[k].session <= session'
      BY <2>1, <2>3 DEF AdapterTasked, AsksLess, SameSession
    <3>2. ads'[k].pending \subseteq 1..reqs' /\ (ads'[k].phase # "live" => ads'[k].pending = {})
      BY <2>1, <2>3 DEF AdapterTasked, AsksLess
    <3> QED BY <3>1, <3>2 DEF AdapterTasked
  <2> QED BY <2>2, <2>3
<1> QED BY <1>1 DEF Tasked

LEMMA FadedAsksLess ==
  ASSUME Core, NEW k \in Rooms, OthersSame(k), Faded(k)
  PROVE  \A j \in Rooms : AsksLess(j)
BY DEF OthersSame, Faded, AsksLess, SamePending, SameSession

LEMMA TaskedStep ==
  ASSUME Core, Next
  PROVE  Tasked'
<1>1. ASSUME NEW a \in Asks, AskGuests(a) PROVE Tasked'
  <2> DEFINE k == slot
             n == reqs + 1
  <2>1. /\ k \in Rooms /\ IsLive(k) /\ reqs' = n /\ OthersSame(k) /\ SameLink(k) /\ SameSession(k)
        /\ ads'[k].pending = ads[k].pending \cup {n}
    BY <1>1, AskGuestsTyped
  <2>2. UNCHANGED session
    BY <1>1 DEF AskGuests
  <2>3. 1..reqs \subseteq 1..n /\ n \in 1..n
    BY DEF Core, Typed
  <2> HIDE DEF k, n
  <2>4. ASSUME NEW j \in Rooms PROVE AdapterTasked(j)'
    <3>1. AdapterTasked(j)
      BY DEF Core, Tasked
    <3>2. CASE j = k
      BY <2>1, <2>2, <2>3, <3>1, <3>2 DEF AdapterTasked, SameLink, SameSession, IsLive
    <3>3. CASE j # k
      BY <2>1, <2>2, <2>3, <3>1, <3>3 DEF AdapterTasked, OthersSame
    <3> QED BY <3>2, <3>3
  <2> QED BY <2>4 DEF Tasked
<1>2. CASE Visit
  BY <1>2, TaskedStays DEF Visit, hostVars, AsksLess, SameSession
<1>3. ASSUME NEW a \in Asks, AskBrowsers(a) \/ BrowsersSettle(a) PROVE Tasked'
  BY <1>3, AskBrowsersTyped, BrowsersSettleTyped, TaskedStays DEF AsksLess, SameSession
<1>4. CASE CollabStop
  <2>1. UNCHANGED <<reqs, session>>
    BY <1>4 DEF CollabStop
  <2> QED BY <1>4, <2>1, CollabStopTyped, TaskedStays DEF AsksLess, SameSession, SamePending, SameLink
<1>5. CASE Appends
  <2>1. UNCHANGED <<reqs, session>>
    BY <1>5 DEF Appends
  <2> QED BY <1>5, <2>1, AppendsTyped, TaskedStays DEF AsksLess, SameSession, SamePending, SameLink
<1>6. CASE Switches
  BY <1>6, SwitchesTyped, TaskedStays DEF AsksLess, SameSession
<1>7. ASSUME NEW k \in Rooms, HostReads(k) \/ FindsSwitch(k) PROVE Tasked'
  <2>1. UNCHANGED <<reqs, session>>
    BY <1>7 DEF HostReads, Hello, Answer, Prompt, PeerLeft, FindsSwitch
  <2>2. \A j \in Rooms : AsksLess(j)
    <3>1. CASE Prompt(k)
      BY <3>1 DEF Prompt, AsksLess, SameSession
    <3>2. CASE ~Prompt(k)
      <4>1. /\ OthersSame(k) /\ SameLink(k) /\ SameSession(k)
            /\ ads'[k].pending \subseteq ads[k].pending
        BY <1>7, <3>2, HelloTyped, AnswerTyped, PeerLeftTyped, FindsSwitchTyped DEF HostReads, SamePending
      <4> QED BY <4>1 DEF AsksLess, OthersSame, SameLink, SameSession
    <3> QED BY <3>1, <3>2
  <2> QED BY <2>1, <2>2, TaskedStays
<1>8. ASSUME NEW k \in Rooms, NEW d \in Dials, CollabStart(k, d) PROVE Tasked'
  <2>1. /\ OthersSame(k) /\ ads'[k].pending = {} /\ ads'[k].session = session
    BY <1>8, CollabStartTyped
  <2>2. UNCHANGED <<reqs, session>> /\ session \in Nat
    BY <1>8 DEF CollabStart, Core, Typed
  <2>3. ASSUME NEW j \in Rooms PROVE AdapterTasked(j)'
    BY <2>1, <2>2 DEF AdapterTasked, OthersSame, Core, Tasked
  <2> QED BY <2>3 DEF Tasked
<1>9. ASSUME NEW k \in Rooms, NEW d \in Dials, Redials(k, d) PROVE Tasked'
  <2>1. OthersSame(k) /\ ads'[k].phase = ads[k].phase /\ SamePending(k) /\ SameSession(k)
    BY <1>9, RedialsTyped
  <2>2. UNCHANGED <<reqs, session>>
    BY <1>9 DEF Redials
  <2> QED BY <2>1, <2>2, TaskedStays DEF AsksLess, OthersSame, SameSession, SamePending
<1>10. ASSUME NEW d \in Dials, HostOpens(d) PROVE Tasked'
  <2>1. /\ Caller(d) = 0 => UNCHANGED ads
        /\ Caller(d) # 0 => /\ OthersSame(Caller(d)) /\ ads'[Caller(d)].phase = "live"
                            /\ SamePending(Caller(d)) /\ SameSession(Caller(d))
    BY <1>10, HostOpensTyped
  <2>2. UNCHANGED <<reqs, session>>
    BY <1>10 DEF HostOpens
  <2> QED BY <2>1, <2>2, TaskedStays DEF AsksLess, OthersSame, SameSession, SamePending
<1>11. ASSUME NEW d \in Dials, HostIsRefused(d) PROVE Tasked'
  <2>1. /\ Caller(d) = 0 => UNCHANGED ads
        /\ Caller(d) # 0 => OthersSame(Caller(d)) /\ Ended(Caller(d))
    BY <1>11, HostIsRefusedTyped
  <2>2. UNCHANGED <<reqs, session>>
    BY <1>11 DEF HostIsRefused
  <2> QED BY <2>1, <2>2, TaskedStays DEF AsksLess, OthersSame, SameSession
<1>12. CASE UNCHANGED hostVars
  BY <1>12, TaskedStays DEF hostVars, AsksLess, SameSession
<1>13. ASSUME NEW k \in Rooms, DialUpgrades(k) PROVE Tasked'
  <2>1. UNCHANGED ads \/ (OthersSame(k) /\ Faded(k))
    BY <1>13, DialUpgradesTyped
  <2>2. UNCHANGED <<reqs, session>>
    BY <1>13 DEF DialUpgrades
  <2> QED BY <2>1, <2>2, FadedAsksLess, TaskedStays DEF AsksLess, SameSession
<1>14. ASSUME NEW k \in Rooms, DialFails(k) PROVE Tasked'
  <2>1. UNCHANGED <<reqs, session>>
    BY <1>14 DEF DialFails
  <2> QED BY <1>14, <2>1, DialFailsTyped, FadedAsksLess, TaskedStays
<1>15. ASSUME NEW k \in Rooms, Breaks(k) PROVE Tasked'
  <2>1. UNCHANGED <<reqs, session>>
    BY <1>15 DEF Breaks
  <2> QED BY <1>15, <2>1, BreaksTyped, FadedAsksLess, TaskedStays
<1>16. ASSUME NEW k \in Rooms, NEW turn \in ads[k].turns, StopTurn(k, turn) PROVE Tasked'
  <2>1. UNCHANGED <<reqs, session>>
    BY <1>16 DEF StopTurn
  <2>2. OthersSame(k) /\ Faded(k)
    BY <1>16, StopTurnTyped DEF Faded
  <2> QED BY <2>1, <2>2, FadedAsksLess, TaskedStays
<1>17. CASE Talk
  BY <1>1, <1>3, <1>4, <1>5, <1>6, <1>7, <1>17 DEF Talk
<1>18. CASE Connect
  BY <1>8, <1>9, <1>10, <1>11, <1>12, <1>13, <1>14, <1>15, <1>16, <1>18 DEF Connect
<1> QED BY <1>2, <1>17, <1>18, StepIs
-----------------------------------------------------------------------------
(* The places of guests.                                                   *)

SameSpot(g) ==
  /\ guests'[g].st = guests[g].st /\ guests'[g].room = guests[g].room
  /\ guests'[g].peer = guests[g].peer

SameSeats(r) ==
  /\ rooms'[r].guests = rooms[r].guests /\ rooms'[r].next = rooms[r].next
  /\ rooms[r].present => rooms'[r].present

LEMMA GuestsOf ==
  ASSUME Core, NEW r \in Rooms
  PROVE  /\ rooms[r].guests \in Maps(Guests) /\ DOMAIN rooms[r].guests \subseteq Peers
         /\ \A p \in DOMAIN rooms[r].guests : rooms[r].guests[p] \in Guests
         /\ rooms[r].next \in Peers
<1>1. rooms[r].guests \in Maps(Guests) /\ rooms[r].next \in Peers
  BY DEF Core, Typed, RoomStates
<1> QED BY <1>1, MapTyped

\* A guest in a room is there under its peer id, and in no other.
LEMMA WhoIsIn ==
  ASSUME Core, NEW g \in Guests, guests[g].st = "in", NEW r \in Rooms
  PROVE  /\ g \in InRoom(r) <=> guests[g].room = r
         /\ guests[g].room \in Rooms /\ guests[g].peer \in Peers
<1>1. GuestSeated(g) /\ RoomSeated(r) /\ guests[g].room \in Rooms /\ guests[g].peer \in Peers
  BY DEF Core, Seated, Typed
<1>2. guests[g].room = r => g \in InRoom(r)
  BY <1>1 DEF GuestSeated, InRoom, Range
<1>3. g \in InRoom(r) => guests[g].room = r
  BY <1>1 DEF RoomSeated, InRoom, Range
<1> QED BY <1>1, <1>2, <1>3

LEMMA SeatedStays ==
  ASSUME Core, \A r \in Rooms : SameSeats(r), \A g \in Guests : SameSpot(g)
  PROVE  Seated'
<1>1. ASSUME NEW r \in Rooms PROVE RoomSeated(r)'
  <2>1. RoomSeated(r) /\ SameSeats(r) /\ \A p \in DOMAIN rooms[r].guests : SameSpot(rooms[r].guests[p])
    BY GuestsOf DEF Core, Seated
  <2> QED BY <2>1 DEF RoomSeated, SameSpot, SameSeats
<1>2. ASSUME NEW g \in Guests PROVE GuestSeated(g)'
  <2>1. GuestSeated(g) /\ SameSpot(g)
    BY DEF Core, Seated
  <2>2. guests[g].st = "in" => SameSeats(guests[g].room)
    BY DEF Core, Typed
  <2> QED BY <2>1, <2>2 DEF GuestSeated, SameSpot, SameSeats
<1> QED BY <1>1, <1>2 DEF Seated

LEMMA RoomStays == ASSUME NEW r \in Rooms, rooms'[r] = rooms[r] PROVE SameSeats(r)
BY DEF SameSeats

LEMMA SeatedCloses ==
  ASSUME Core, NEW q \in Rooms, OtherRoomsSame(q), rooms'[q] = NoRoom, guests' = Evicted(q)
  PROVE  Seated'
<1>1. \A g \in Guests :
        IF g \in InRoom(q) /\ guests[g].st = "in"
        THEN /\ guests'[g].st = "ending"
             /\ guests'[g].room = guests[g].room /\ guests'[g].peer = guests[g].peer
        ELSE guests'[g] = guests[g]
  BY EvictedTyped DEF Core
<1>2. ASSUME NEW r \in Rooms PROVE RoomSeated(r)'
  <2>1. CASE r = q
    BY <2>1, NoRoomTyped DEF RoomSeated
  <2>2. CASE r # q
    <3>1. RoomSeated(r) /\ rooms'[r] = rooms[r]
      BY <2>2 DEF Core, Seated, OtherRoomsSame
    <3>2. \A p \in DOMAIN rooms[r].guests : rooms[r].guests[p] \in Guests
      BY GuestsOf
    <3> QED BY <1>1, <3>1, <3>2 DEF RoomSeated
  <2> QED BY <2>1, <2>2
<1>3. ASSUME NEW g \in Guests, guests'[g].st = "in" PROVE GuestSeated(g)'
  <2>1. guests'[g] = guests[g] /\ guests[g].st = "in" /\ g \notin InRoom(q)
    BY <1>1, <1>3
  <2>2. GuestSeated(g) /\ guests[g].room \in Rooms /\ guests[g].room # q
    BY <2>1, WhoIsIn DEF Core, Seated
  <2>3. rooms'[guests[g].room] = rooms[guests[g].room]
    BY <2>2 DEF OtherRoomsSame
  <2> QED BY <2>1, <2>2, <2>3 DEF GuestSeated
<1>4. ASSUME NEW g \in Guests PROVE GuestSeated(g)'
  BY <1>3 DEF GuestSeated
<1> QED BY <1>2, <1>4 DEF Seated

LEMMA SeatedJoins ==
  ASSUME Core, NEW g \in Guests, NEW q \in Rooms, NEW w \in BOOLEAN, GuestJoins(g, q, w),
         UNCHANGED hostVars
  PROVE  Seated'
<1> DEFINE p == rooms[q].next
<1>1. /\ OtherRoomsSame(q) /\ OtherGuestsSame(g) /\ guests[g].st = "out" /\ p \in Peers
      /\ guests'[g].st = "in" /\ guests'[g].room = q /\ guests'[g].peer = p
      /\ rooms'[q].present /\ rooms'[q].next = p + 1
      /\ rooms'[q].guests = Put(rooms[q].guests, p, g)
  BY GuestJoinsTyped
<1>2. /\ DOMAIN rooms'[q].guests = DOMAIN rooms[q].guests \cup {p} /\ rooms'[q].guests[p] = g
      /\ \A i \in DOMAIN rooms[q].guests : i # p => rooms'[q].guests[i] = rooms[q].guests[i]
  <2> DEFINE f == rooms[q].guests
  <2>1. f \in Maps(Guests)
    BY GuestsOf
  <2> HIDE DEF f, p
  <2>2. /\ DOMAIN Put(f, p, g) = DOMAIN f \cup {p} /\ Put(f, p, g)[p] = g
        /\ \A i \in DOMAIN f : i # p => Put(f, p, g)[i] = f[i]
    BY <1>1, <2>1, PutTyped
  <2> QED BY <1>1, <2>2 DEF f
<1>3. RoomSeated(q) /\ DOMAIN rooms[q].guests \subseteq Peers
  BY GuestsOf DEF Core, Seated
<1>4. p \notin DOMAIN rooms[q].guests
  BY <1>1, <1>3 DEF RoomSeated, Peers
<1>5. ASSUME NEW r \in Rooms, NEW i \in DOMAIN rooms[r].guests
      PROVE  guests'[rooms[r].guests[i]] = guests[rooms[r].guests[i]]
  <2>1. rooms[r].guests[i] \in Guests /\ guests[rooms[r].guests[i]].st \in {"in", "ending"}
    BY GuestsOf DEF Core, Seated, RoomSeated
  <2> QED BY <1>1, <2>1 DEF OtherGuestsSame
<1> HIDE DEF p
<1>6. ASSUME NEW r \in Rooms PROVE RoomSeated(r)'
  <2>1. CASE r = q
    <3>1. ASSUME NEW i \in DOMAIN rooms'[q].guests
          PROVE  /\ i < rooms'[q].next
                 /\ guests'[rooms'[q].guests[i]].st \in {"in", "ending"}
                 /\ guests'[rooms'[q].guests[i]].room = q /\ guests'[rooms'[q].guests[i]].peer = i
      <4>1. CASE i = p
        BY <1>1, <1>2, <4>1 DEF Peers
      <4>2. CASE i # p
        <5>1. i \in DOMAIN rooms[q].guests /\ rooms'[q].guests[i] = rooms[q].guests[i] /\ i \in Nat
          BY <1>2, <1>3, <3>1, <4>2 DEF Peers
        <5>2. i < p
          BY <1>3, <5>1 DEF RoomSeated, p
        <5>3. i < p + 1
          BY <1>1, <5>1, <5>2 DEF Peers
        <5> QED BY <1>1, <1>3, <1>5, <5>1, <5>3 DEF RoomSeated
      <4> QED BY <4>1, <4>2
    <3> QED BY <2>1, <3>1 DEF RoomSeated
  <2>2. CASE r # q
    <3>1. RoomSeated(r) /\ rooms'[r] = rooms[r]
      BY <1>1, <2>2 DEF Core, Seated, OtherRoomsSame
    <3> QED BY <1>5, <3>1 DEF RoomSeated
  <2> QED BY <2>1, <2>2
<1>7. ASSUME NEW h \in Guests PROVE GuestSeated(h)'
  <2>1. CASE h = g
    BY <1>1, <1>2, <2>1 DEF GuestSeated
  <2>2. CASE h # g
    <3>1. GuestSeated(h) /\ guests'[h] = guests[h] /\ (guests[h].st = "in" => guests[h].room \in Rooms)
      BY <1>1, <2>2, WhoIsIn DEF Core, Seated, OtherGuestsSame
    <3>2. CASE guests[h].room = q
      BY <1>1, <1>2, <1>4, <3>1, <3>2 DEF GuestSeated
    <3>3. CASE guests[h].room # q
      BY <1>1, <3>1, <3>3 DEF GuestSeated, OtherRoomsSame
    <3> QED BY <3>2, <3>3
  <2> QED BY <2>1, <2>2
<1> QED BY <1>6, <1>7 DEF Seated

LEMMA SeatedGuestCloses ==
  ASSUME Core, NEW g \in Guests, GuestCloses(g), UNCHANGED hostVars
  PROVE  Seated'
<1> DEFINE q == guests[g].room
           p == guests[g].peer
           mine == p \in DOMAIN rooms[q].guests /\ rooms[q].guests[p] = g
<1>1. /\ OtherGuestsSame(g) /\ q \in Rooms /\ guests[g].st = "ending" /\ guests'[g].st = "gone"
      /\ \/ UNCHANGED rooms /\ ~mine
         \/ /\ OtherRoomsSame(q) /\ mine
            /\ rooms'[q].guests = Restrict(rooms[q].guests, DOMAIN rooms[q].guests \ {p})
            /\ rooms'[q].next = rooms[q].next /\ rooms'[q].present = rooms[q].present
  BY GuestClosesTyped
<1>2. /\ OtherRoomsSame(q) /\ rooms'[q].next = rooms[q].next /\ rooms'[q].present = rooms[q].present
      /\ DOMAIN rooms'[q].guests = IF mine THEN DOMAIN rooms[q].guests \ {p} ELSE DOMAIN rooms[q].guests
      /\ \A i \in DOMAIN rooms'[q].guests : rooms'[q].guests[i] = rooms[q].guests[i]
  <2>1. CASE mine
    <3> DEFINE f == rooms[q].guests
    <3>1. f \in Maps(Guests) /\ rooms'[q].guests = Restrict(f, DOMAIN f \ {p})
      BY <1>1, <2>1, GuestsOf
    <3> HIDE DEF f, p
    <3>2. /\ DOMAIN Restrict(f, DOMAIN f \ {p}) = DOMAIN f \ {p}
          /\ \A i \in DOMAIN f \ {p} : Restrict(f, DOMAIN f \ {p})[i] = f[i]
      BY <3>1, DroppedTyped
    <3> QED BY <1>1, <2>1, <3>1, <3>2 DEF f
  <2>2. CASE ~mine
    BY <1>1, <2>2 DEF OtherRoomsSame
  <2> QED BY <2>1, <2>2
<1>3. ASSUME NEW r \in Rooms, NEW i \in DOMAIN rooms[r].guests, rooms[r].guests[i] = g
      PROVE  r = q /\ i = p /\ mine
  BY <1>3 DEF Core, Seated, RoomSeated
<1> HIDE DEF mine
<1>4. ASSUME NEW r \in Rooms PROVE RoomSeated(r)'
  <2>1. RoomSeated(r) /\ \A i \in DOMAIN rooms[r].guests : rooms[r].guests[i] \in Guests
    BY GuestsOf DEF Core, Seated
  <2>2. /\ DOMAIN rooms'[r].guests \subseteq DOMAIN rooms[r].guests /\ rooms'[r].next = rooms[r].next
        /\ \A i \in DOMAIN rooms'[r].guests : rooms'[r].guests[i] = rooms[r].guests[i]
    BY <1>1, <1>2 DEF OtherRoomsSame
  <2>3. \A i \in DOMAIN rooms'[r].guests : rooms[r].guests[i] # g
    BY <1>2, <1>3, <2>2
  <2>4. \A i \in DOMAIN rooms'[r].guests : guests'[rooms[r].guests[i]] = guests[rooms[r].guests[i]]
    BY <1>1, <2>1, <2>2, <2>3 DEF OtherGuestsSame
  <2> QED BY <2>1, <2>2, <2>4 DEF RoomSeated
<1>5. ASSUME NEW h \in Guests PROVE GuestSeated(h)'
  <2>1. CASE h = g
    BY <1>1, <2>1 DEF GuestSeated
  <2>2. CASE h # g
    <3>1. GuestSeated(h) /\ guests'[h] = guests[h] /\ (guests[h].st = "in" => guests[h].room \in Rooms)
      BY <1>1, <2>2, WhoIsIn DEF Core, Seated, OtherGuestsSame
    <3>2. CASE guests[h].room = q
      <4>1. ASSUME guests[h].st = "in"
            PROVE  /\ rooms[q].present /\ guests[h].peer \in DOMAIN rooms[q].guests
                   /\ rooms[q].guests[guests[h].peer] = h
        BY <3>1, <3>2, <4>1 DEF GuestSeated
      <4>2. ASSUME guests[h].st = "in" PROVE guests[h].peer \in DOMAIN rooms'[q].guests
        BY <1>2, <2>2, <4>1, <4>2 DEF mine
      <4>3. guests'[h].room = q /\ guests'[h] = guests[h]
        BY <3>1, <3>2
      <4> HIDE DEF q
      <4> QED BY <1>2, <4>1, <4>2, <4>3 DEF GuestSeated
    <3>3. CASE guests[h].room # q
      BY <1>1, <1>2, <3>1, <3>3 DEF GuestSeated, OtherRoomsSame
    <3> QED BY <3>2, <3>3
  <2> QED BY <2>1, <2>2
<1> QED BY <1>4, <1>5 DEF Seated
LEMMA TalkSpots ==
  ASSUME Core, Talk
  PROVE  \A g \in Guests : SameSpot(g)
<1>1. ASSUME NEW a \in Asks, AskGuests(a) PROVE \A g \in Guests : SameSpot(g)
  BY <1>1, AskGuestsTyped DEF SameSpot, SameSeat
<1>2. ASSUME NEW a \in Asks, AskBrowsers(a) \/ BrowsersSettle(a) PROVE \A g \in Guests : SameSpot(g)
  BY <1>2 DEF AskBrowsers, BrowsersSettle, relayVars, SameSpot
<1>3. CASE CollabStop
  BY <1>3 DEF CollabStop, relayVars, SameSpot
<1>4. CASE Appends
  BY <1>4, AppendsTyped DEF SameSpot, SameSeat
<1>5. CASE Switches
  BY <1>5 DEF Switches, relayVars, SameSpot
<1>6. ASSUME NEW k \in Rooms, Hello(k) PROVE \A g \in Guests : SameSpot(g)
  BY <1>6, HelloTyped DEF SameSpot
<1>7. ASSUME NEW k \in Rooms, Answer(k) PROVE \A g \in Guests : SameSpot(g)
  BY <1>7, AnswerTyped DEF SameSpot, SameSeat
<1>8. ASSUME NEW k \in Rooms, Prompt(k) \/ PeerLeft(k) \/ FindsSwitch(k)
      PROVE  \A g \in Guests : SameSpot(g)
  BY <1>8 DEF Prompt, PeerLeft, FindsSwitch, relayVars, SameSpot
<1> QED BY <1>1, <1>2, <1>3, <1>4, <1>5, <1>6, <1>7, <1>8 DEF Talk, HostReads

LEMMA SeatedConnect ==
  ASSUME Core, Connect
  PROVE  Seated'
<1>1. ASSUME UNCHANGED <<rooms, guests>> PROVE Seated'
  BY <1>1, SeatedStays DEF SameSeats, SameSpot
<1>2. ASSUME NEW d \in Dials, HostOpens(d) PROVE Seated'
  <2>1. /\ OtherRoomsSame(dials[d].room) /\ rooms'[dials[d].room].present
        /\ rooms'[dials[d].room].guests = rooms[dials[d].room].guests
        /\ rooms'[dials[d].room].next = rooms[dials[d].room].next
    BY <1>2, HostOpensTyped
  <2>2. \A r \in Rooms : SameSeats(r)
    BY <2>1 DEF SameSeats, OtherRoomsSame
  <2>3. UNCHANGED guests
    BY <1>2 DEF HostOpens
  <2> QED BY <2>2, <2>3, SeatedStays DEF SameSpot
<1>3. ASSUME NEW d \in Dials, HostCloses(d), UNCHANGED hostVars PROVE Seated'
  <2>1. /\ OtherRoomsSame(dials[d].room) /\ rooms'[dials[d].room].present = rooms[dials[d].room].present
        /\ rooms'[dials[d].room].guests = rooms[dials[d].room].guests
        /\ rooms'[dials[d].room].next = rooms[dials[d].room].next
    BY <1>3, HostClosesTyped
  <2>2. \A r \in Rooms : SameSeats(r)
    BY <2>1 DEF SameSeats, OtherRoomsSame
  <2>3. UNCHANGED guests
    BY <1>3 DEF HostCloses
  <2> QED BY <2>2, <2>3, SeatedStays DEF SameSpot
<1>4. ASSUME NEW r \in Rooms, Expires(r), UNCHANGED hostVars PROVE Seated'
  BY <1>4, ExpiresTyped, SeatedCloses
<1>5. ASSUME NEW k \in Rooms, guests' = Unheard(guests, k), UNCHANGED rooms PROVE Seated'
  <2>1. \A g \in Guests : SameSpot(g)
    BY <1>5, UnheardTyped DEF SameSpot, Core
  <2> QED BY <1>5, <2>1, SeatedStays, RoomStays
<1>6. ASSUME NEW k \in Rooms, NEW turn \in ads[k].turns, StopTurn(k, turn) PROVE Seated'
  <2>1. /\ OtherRoomsSame(k)
        /\ \/ rooms'[k] = NoRoom /\ guests' = Evicted(k)
           \/ UNCHANGED rooms /\ guests' = Unheard(guests, k)
    BY <1>6, StopTurnTyped
  <2> QED BY <1>5, <2>1, SeatedCloses
<1>7. ASSUME NEW k \in Rooms, Breaks(k) PROVE Seated'
  BY <1>5, <1>7 DEF Breaks
<1>8. ASSUME NEW k \in Rooms, DialUpgrades(k) \/ DialFails(k) PROVE Seated'
  BY <1>1, <1>8 DEF DialUpgrades, DialFails
<1>9. ASSUME NEW k \in Rooms, NEW d \in Dials, CollabStart(k, d) \/ Redials(k, d) PROVE Seated'
  BY <1>1, <1>9 DEF CollabStart, Redials
<1>10. ASSUME NEW d \in Dials, HostIsRefused(d) PROVE Seated'
  BY <1>1, <1>10 DEF HostIsRefused
<1> QED BY <1>2, <1>3, <1>4, <1>6, <1>7, <1>8, <1>9, <1>10 DEF Connect

LEMMA SeatedVisit ==
  ASSUME Core, Visit
  PROVE  Seated'
<1>1. ASSUME NEW g \in Guests, GuestLeaves(g), UNCHANGED hostVars PROVE Seated'
  <2>1. /\ OtherGuestsSame(g) /\ UNCHANGED rooms
        /\ guests[g].st = "in" /\ guests'[g].st = "ending"
        /\ guests'[g].room = guests[g].room /\ guests'[g].peer = guests[g].peer
    BY <1>1, GuestLeavesTyped
  <2>2. ASSUME NEW r \in Rooms PROVE RoomSeated(r)'
    <3>1. RoomSeated(r) /\ \A p \in DOMAIN rooms[r].guests : rooms[r].guests[p] \in Guests
      BY GuestsOf DEF Core, Seated
    <3>2. ASSUME NEW p \in DOMAIN rooms[r].guests
          PROVE  /\ guests'[rooms[r].guests[p]].st \in {"in", "ending"}
                 /\ guests'[rooms[r].guests[p]].room = r /\ guests'[rooms[r].guests[p]].peer = p
      BY <2>1, <3>1 DEF RoomSeated, OtherGuestsSame
    <3> QED BY <2>1, <3>1, <3>2 DEF RoomSeated
  <2>3. ASSUME NEW h \in Guests PROVE GuestSeated(h)'
    BY <2>1 DEF GuestSeated, OtherGuestsSame, Core, Seated
  <2> QED BY <2>2, <2>3 DEF Seated
<1>2. ASSUME NEW g \in Guests, Speaks(g) PROVE Seated'
  <2>1. UNCHANGED <<rooms, guests>>
    BY <1>2 DEF Speaks, GuestSends
  <2> QED BY <2>1, SeatedStays DEF SameSeats, SameSpot
<1> QED BY <1>1, <1>2, SeatedJoins, SeatedGuestCloses, GuestDoes DEF Visit

LEMMA SeatedStep ==
  ASSUME Core, Next
  PROVE  Seated'
<1>1. CASE Talk
  BY <1>1, TalkLeaves, TalkSpots, SeatedStays, RoomStays
<1> QED BY <1>1, SeatedVisit, SeatedConnect, StepIs

LEMMA CoreStep ==
  ASSUME Core, [Next]_vars
  PROVE  Core'
<1>1. CASE Next
  BY <1>1, LinkedStep, TaskedStep, SeatedStep DEF Core
<1>2. CASE UNCHANGED vars
  <2>1. UNCHANGED <<rooms, dials, guests, down, ads, slot, starting, tap, session, log, asks, reqs,
                    astray, faults>>
    BY <1>2 DEF vars, relayVars, hostVars
  <2>2. Typed'
    BY <2>1 DEF Core, Typed
  <2>3. Linked'
    BY <2>1, <2>2, DialledStays, HeldStays DEF SameLink, SameHost, Linked
  <2>4. Tasked'
    BY <2>1, TaskedStays DEF AsksLess, SameSession
  <2>5. Seated'
    BY <2>1, SeatedStays DEF SameSeats, SameSpot
  <2> QED BY <2>2, <2>3, <2>4, <2>5 DEF Core
<1> QED BY <1>1, <1>2

LEMMA CoreInit == Init => Core
<1> SUFFICES ASSUME Init PROVE Core
  OBVIOUS
<1>1. /\ rooms = [r \in Rooms |-> NoRoom] /\ dials = [d \in Dials |-> FreeDial]
      /\ guests = [g \in Guests |-> Outside] /\ down = [r \in Rooms |-> <<>>]
      /\ ads = [k \in Rooms |-> NoAdapter] /\ asks = [a \in Asks |-> Settled]
      /\ slot = 0 /\ starting = FALSE /\ tap = 0 /\ session = 0 /\ log = 0 /\ reqs = 0
      /\ astray = FALSE /\ faults = 0
  BY DEF Init, RelayInit
<1>2. NoAdapter \in AdapterStates
  <2>1. <<>> \in Maps(BOOLEAN)
    BY EmptyMap
  <2> QED BY <2>1 DEF NoAdapter, AdapterStates
<1>3. <<>> \in Seq(Messages) /\ Settled \in DialogStates
  BY DEF Settled, DialogStates
<1>4. Typed
  <2>1. rooms \in [Rooms -> RoomStates] /\ dials \in [Dials -> DialStates]
    BY <1>1, NoRoomTyped, FreeDialTyped
  <2>2. guests \in [Guests -> GuestStates] /\ \A g \in Guests : guests[g].st = "out"
    BY <1>1, OutsideTyped DEF Outside
  <2>3. down \in [Rooms -> Seq(Messages)]
    BY <1>1, <1>3
  <2>4. ads \in [Rooms -> AdapterStates] /\ asks \in [Asks -> DialogStates]
    BY <1>1, <1>2, <1>3
  <2>5. log \in 0..MaxLog /\ reqs \in 0..MaxReqs /\ faults \in 0..MaxFaults
    BY <1>1, BoundsAreNatural
  <2> QED BY <1>1, <2>1, <2>2, <2>3, <2>4, <2>5 DEF Typed
<1>5. Linked
  <2>1. Dialled
    BY <1>1 DEF Dialled, AdapterDialled, DialDialled, NoAdapter, FreeDial
  <2>2. Held
    BY <1>1 DEF Held, RoomHeld, NoAdapter, NoRoom
  <2> QED BY <2>1, <2>2 DEF Linked
<1>6. Tasked
  BY <1>1 DEF Tasked, AdapterTasked, NoAdapter
<1>7. Seated
  BY <1>1, NoRoomTyped DEF Seated, RoomSeated, GuestSeated, Outside
<1> QED BY <1>4, <1>5, <1>6, <1>7 DEF Core
-----------------------------------------------------------------------------
(* The caps of the relay.                                                  *)

Hosted == {r \in Rooms : rooms[r].present}

LEMMA FewStays ==
  ASSUME Core, Few, Hosted' \subseteq Hosted, \A r \in Rooms : InRoom(r)' \subseteq InRoom(r)
  PROVE  Few'
<1>1. ASSUME NEW r \in Rooms PROVE IsFiniteSet(InRoom(r)') /\ Cardinality(InRoom(r)') <= MaxGuests
  <2>1. IsFiniteSet(InRoom(r)) /\ Cardinality(InRoom(r)) <= MaxGuests /\ InRoom(r)' \subseteq InRoom(r)
    BY DEF Few
  <2>2. IsFiniteSet(InRoom(r)') /\ Cardinality(InRoom(r)') <= Cardinality(InRoom(r))
    BY <2>1, FS_Subset
  <2>3. Cardinality(InRoom(r)') \in Nat /\ Cardinality(InRoom(r)) \in Nat
    BY <2>1, <2>2, FS_CardinalityType
  <2> QED BY <2>1, <2>2, <2>3, CapsArePositive
<1>2. IsFiniteSet(Hosted') /\ Cardinality(Hosted') <= MaxRooms
  <2>1. IsFiniteSet(Hosted) /\ Cardinality(Hosted) <= MaxRooms
    BY DEF Few, Hosted, RoomCount
  <2>2. IsFiniteSet(Hosted') /\ Cardinality(Hosted') <= Cardinality(Hosted)
    BY <2>1, FS_Subset
  <2>3. Cardinality(Hosted') \in Nat /\ Cardinality(Hosted) \in Nat
    BY <2>1, <2>2, FS_CardinalityType
  <2> QED BY <2>1, <2>2, <2>3, CapsArePositive
<1> QED BY <1>1, <1>2 DEF Few, Hosted, RoomCount

LEMMA FewSame ==
  ASSUME Core, Few, \A r \in Rooms : SameHost(r) /\ SameSeats(r)
  PROVE  Few'
<1>1. Hosted' \subseteq Hosted /\ \A r \in Rooms : InRoom(r)' \subseteq InRoom(r)
  BY DEF Hosted, InRoom, SameHost, SameSeats
<1> QED BY <1>1, FewStays

LEMMA FewWhenClosed ==
  ASSUME Core, Few, NEW q \in Rooms, OtherRoomsSame(q), rooms'[q] = NoRoom
  PROVE  Few'
<1>1. Range(NoRoom.guests) = {}
  BY NoRoomTyped DEF Range
<1>2. Hosted' \subseteq Hosted /\ \A r \in Rooms : InRoom(r)' \subseteq InRoom(r)
  BY <1>1 DEF Hosted, InRoom, OtherRoomsSame, NoRoom
<1> QED BY <1>2, FewStays

LEMMA FewHostOpens ==
  ASSUME Core, Few, NEW d \in Dials, HostOpens(d)
  PROVE  Few'
<1> DEFINE q == dials[d].room
<1>1. /\ OtherRoomsSame(q) /\ q \in Rooms /\ rooms'[q].guests = rooms[q].guests
  BY HostOpensTyped
<1>2. rooms[q].present \/ RoomCount < MaxRooms
  BY DEF HostOpens, Admits
<1> HIDE DEF q
<1>3. \A r \in Rooms : InRoom(r)' = InRoom(r)
  BY <1>1 DEF InRoom, OtherRoomsSame
<1>4. Hosted' \subseteq Hosted \cup {q}
  BY <1>1 DEF Hosted, OtherRoomsSame
<1>5. CASE rooms[q].present
  <2>1. Hosted' \subseteq Hosted
    BY <1>1, <1>4, <1>5 DEF Hosted
  <2> QED BY <1>3, <2>1, FewStays
<1>6. CASE ~rooms[q].present
  <2>1. IsFiniteSet(Hosted) /\ Cardinality(Hosted) < MaxRooms /\ q \notin Hosted
    BY <1>2, <1>6 DEF Few, Hosted, RoomCount
  <2>2. IsFiniteSet(Hosted \cup {q}) /\ Cardinality(Hosted \cup {q}) = Cardinality(Hosted) + 1
    BY <2>1, FS_AddElement
  <2>3. IsFiniteSet(Hosted') /\ Cardinality(Hosted') <= Cardinality(Hosted \cup {q})
    BY <1>4, <2>2, FS_Subset
  <2>4. Cardinality(Hosted') \in Nat /\ Cardinality(Hosted) \in Nat
    BY <2>1, <2>3, FS_CardinalityType
  <2>5. Cardinality(Hosted') <= MaxRooms
    BY <2>1, <2>2, <2>3, <2>4, CapsArePositive
  <2> QED BY <1>3, <2>3, <2>5 DEF Few, Hosted, RoomCount
<1> QED BY <1>5, <1>6

LEMMA FewJoins ==
  ASSUME Core, Few, NEW g \in Guests, NEW q \in Rooms, NEW w \in BOOLEAN, GuestJoins(g, q, w),
         UNCHANGED hostVars
  PROVE  Few'
<1> DEFINE p == rooms[q].next
<1>1. /\ OtherRoomsSame(q) /\ rooms[q].present
      /\ rooms'[q].guests = Put(rooms[q].guests, p, g)
      /\ Cardinality(InRoom(q)) < MaxGuests
  BY GuestJoinsTyped
<1>2. InRoom(q)' \subseteq InRoom(q) \cup {g}
  BY <1>1 DEF InRoom, Range, Put
<1>3. \A r \in Rooms : r # q => InRoom(r)' = InRoom(r)
  BY <1>1 DEF InRoom, OtherRoomsSame
<1>4. IsFiniteSet(InRoom(q)') /\ Cardinality(InRoom(q)') <= MaxGuests
  <2>1. IsFiniteSet(InRoom(q))
    BY DEF Few
  <2>2. /\ IsFiniteSet(InRoom(q) \cup {g})
        /\ Cardinality(InRoom(q) \cup {g}) = IF g \in InRoom(q) THEN Cardinality(InRoom(q))
                                             ELSE Cardinality(InRoom(q)) + 1
    BY <2>1, FS_AddElement
  <2>3. IsFiniteSet(InRoom(q)') /\ Cardinality(InRoom(q)') <= Cardinality(InRoom(q) \cup {g})
    BY <1>2, <2>2, FS_Subset
  <2>4. Cardinality(InRoom(q)') \in Nat /\ Cardinality(InRoom(q)) \in Nat
    BY <2>1, <2>3, FS_CardinalityType
  <2> QED BY <1>1, <2>2, <2>3, <2>4, CapsArePositive
<1>5. Hosted' = Hosted
  <2>1. \A r \in Rooms : SameHost(r)
    BY VisitLeaves DEF Visit, GuestActs
  <2> QED BY <2>1 DEF Hosted, SameHost
<1>6. ASSUME NEW r \in Rooms PROVE IsFiniteSet(InRoom(r)') /\ Cardinality(InRoom(r)') <= MaxGuests
  BY <1>3, <1>4 DEF Few
<1> QED BY <1>5, <1>6 DEF Few, Hosted, RoomCount

LEMMA FewGuestCloses ==
  ASSUME Core, Few, NEW g \in Guests, GuestCloses(g), UNCHANGED hostVars
  PROVE  Few'
<1> DEFINE q == guests[g].room
           p == guests[g].peer
<1>1. /\ q \in Rooms
      /\ \/ UNCHANGED rooms
         \/ /\ OtherRoomsSame(q)
            /\ rooms'[q].guests = Restrict(rooms[q].guests, DOMAIN rooms[q].guests \ {p})
            /\ rooms'[q].present = rooms[q].present
  BY GuestClosesTyped
<1> HIDE DEF q, p
<1>2. CASE UNCHANGED rooms
  BY <1>2, FewSame DEF SameHost, SameSeats
<1>3. CASE ~UNCHANGED rooms
  <2>1. Range(rooms'[q].guests) \subseteq Range(rooms[q].guests)
    BY <1>1, <1>3 DEF Range, Restrict
  <2>2. Hosted' \subseteq Hosted /\ \A r \in Rooms : InRoom(r)' \subseteq InRoom(r)
    BY <1>1, <1>3, <2>1 DEF Hosted, InRoom, OtherRoomsSame
  <2> QED BY <2>2, FewStays
<1> QED BY <1>2, <1>3

LEMMA FewStep ==
  ASSUME Core, Few, [Next]_vars
  PROVE  Few'
<1>1. ASSUME UNCHANGED rooms PROVE Few'
  BY <1>1, FewSame DEF SameHost, SameSeats
<1>2. CASE Talk
  BY <1>1, <1>2, TalkLeaves
<1>3. CASE Visit
  <2>1. ASSUME NEW g \in Guests, Speaks(g) PROVE Few'
    BY <1>1, <2>1 DEF Speaks, GuestSends
  <2>2. ASSUME NEW g \in Guests, GuestLeaves(g) PROVE Few'
    BY <1>1, <2>2 DEF GuestLeaves
  <2> QED BY <1>3, <2>1, <2>2, FewJoins, FewGuestCloses, GuestDoes DEF Visit
<1>4. CASE Connect
  <2>1. ASSUME NEW d \in Dials, HostCloses(d), UNCHANGED hostVars PROVE Few'
    <3>1. /\ OtherRoomsSame(dials[d].room)
          /\ rooms'[dials[d].room].present = rooms[dials[d].room].present
          /\ rooms'[dials[d].room].guests = rooms[dials[d].room].guests
      BY <2>1, HostClosesTyped
    <3>2. Hosted' \subseteq Hosted /\ \A r \in Rooms : InRoom(r)' \subseteq InRoom(r)
      BY <3>1 DEF Hosted, InRoom, OtherRoomsSame
    <3> QED BY <3>2, FewStays
  <2>2. ASSUME NEW r \in Rooms, Expires(r), UNCHANGED hostVars PROVE Few'
    BY <2>2, ExpiresTyped, FewWhenClosed
  <2>3. ASSUME NEW k \in Rooms, NEW turn \in ads[k].turns, StopTurn(k, turn) PROVE Few'
    <3>1. OtherRoomsSame(k) /\ (rooms'[k] = NoRoom \/ UNCHANGED rooms)
      BY <2>3, StopTurnTyped
    <3> QED BY <1>1, <3>1, FewWhenClosed
  <2>4. ASSUME NEW k \in Rooms, DialUpgrades(k) \/ DialFails(k) \/ Breaks(k) PROVE Few'
    BY <1>1, <2>4 DEF DialUpgrades, DialFails, Breaks
  <2>5. ASSUME NEW k \in Rooms, NEW d \in Dials, CollabStart(k, d) \/ Redials(k, d) PROVE Few'
    BY <1>1, <2>5 DEF CollabStart, Redials
  <2>6. ASSUME NEW d \in Dials, HostIsRefused(d) PROVE Few'
    BY <1>1, <2>6 DEF HostIsRefused
  <2> QED BY <1>4, <2>1, <2>2, <2>3, <2>4, <2>5, <2>6, FewHostOpens DEF Connect
<1>5. CASE UNCHANGED vars
  BY <1>1, <1>5 DEF vars, relayVars
<1> QED BY <1>2, <1>3, <1>4, <1>5, StepIs
-----------------------------------------------------------------------------
(* What is on its way to a host.                                           *)

\* A queue that a step leaves alone or loses, over the same peers or none.
QueueStays(r) ==
  /\ \/ down'[r] = <<>>
     \/ /\ down'[r] = down[r] /\ ads'[r].sock = ads[r].sock /\ SamePeers(r)
        /\ rooms'[r].next = rooms[r].next
        /\ DOMAIN rooms'[r].guests \subseteq DOMAIN rooms[r].guests
  /\ SamePeers(r) \/ DOMAIN ads'[r].peers = {}

\* A guest that a step leaves in its place, with a replica if it had one, or not.
VisitorStays(g) ==
  guests'[g].st = "in" =>
    /\ guests[g].st = "in" /\ SameSpot(g) /\ guests'[g].writes = guests[g].writes
    /\ guests'[g].log >= 0 => guests[g].log >= 0

LEMMA HostWiredStays ==
  ASSUME NEW r \in Rooms, HostWired(r), QueueStays(r)
  PROVE  HostWired(r)'
<1>1. CASE down'[r] = <<>>
  <2>1. DOMAIN down'[r] = {}
    BY <1>1
  <2> QED BY <1>1, <2>1 DEF HostWired
<1>2. CASE down'[r] # <<>>
  BY <1>2 DEF HostWired, QueueStays, Says, Knows, SamePeers
<1> QED BY <1>1, <1>2

LEMMA GuestWiredStays ==
  ASSUME Core, NEW g \in Guests, GuestWired(g), VisitorStays(g),
         guests[g].st = "in" => QueueStays(guests[g].room)
  PROVE  GuestWired(g)'
<1>1. CASE guests'[g].st # "in"
  BY <1>1 DEF GuestWired
<1>2. CASE guests'[g].st = "in"
  <2> DEFINE r == guests[g].room
             p == guests[g].peer
  <2>1. /\ guests[g].st = "in" /\ guests'[g].room = r /\ guests'[g].peer = p
        /\ guests'[g].writes = guests[g].writes /\ (guests'[g].log >= 0 => guests[g].log >= 0)
        /\ QueueStays(r)
    BY <1>2 DEF VisitorStays, SameSpot
  <2>2. /\ Says(r, p, guests[g].writes)
        /\ \A i \in DOMAIN down[r] :
             down[r][i].t = "prompt" /\ down[r][i].peer = p /\ ~down[r][i].n => ~guests[g].writes
        /\ guests[g].log >= 0 => Knows(r, p, guests[g].writes)
    BY <2>1 DEF GuestWired
  <2> HIDE DEF r, p
  <2>3. \A i \in DOMAIN down'[r] : i \in DOMAIN down[r] /\ down'[r][i] = down[r][i]
    <3>1. CASE down'[r] = <<>>
      BY <3>1
    <3>2. CASE down'[r] # <<>>
      BY <2>1, <3>2 DEF QueueStays
    <3> QED BY <3>1, <3>2
  <2>4. Knows(r, p, guests[g].writes) =>
          (p \in DOMAIN ads'[r].peers => ads'[r].peers[p] = guests[g].writes)
    BY <2>1 DEF Knows, QueueStays, SamePeers
  <2> QED BY <2>1, <2>2, <2>3, <2>4 DEF GuestWired, Says, Knows
<1> QED BY <1>1, <1>2

LEMMA WiredStays ==
  ASSUME Core, Wired, \A r \in Rooms : QueueStays(r), \A g \in Guests : VisitorStays(g)
  PROVE  Wired'
<1>1. ASSUME NEW r \in Rooms PROVE HostWired(r)'
  BY HostWiredStays DEF Wired
<1>2. ASSUME NEW g \in Guests PROVE GuestWired(g)'
  <2>1. guests[g].st = "in" => guests[g].room \in Rooms
    BY DEF Core, Typed
  <2> QED BY <2>1, GuestWiredStays DEF Wired
<1> QED BY <1>1, <1>2 DEF Wired

LEMMA Quiet ==
  ASSUME Wired, NEW r \in Rooms, ads[r].sock # "open"
  PROVE  down[r] = <<>>
BY DEF Wired, HostWired

LEMMA SameQueue ==
  ASSUME NEW r \in Rooms, down'[r] = down[r], ads'[r].sock = ads[r].sock, SamePeers(r),
         rooms'[r].next = rooms[r].next,
         DOMAIN rooms'[r].guests \subseteq DOMAIN rooms[r].guests
  PROVE  QueueStays(r)
BY DEF QueueStays

\* Knows, of the map of peers that the step leaves.
WillKnow(r, p, w) == p \in DOMAIN ads'[r].peers => ads'[r].peers[p] = w

\* The host reads the first frame, and what it knows of who prompts is right.
LEMMA WiredReads ==
  ASSUME Core, Wired, NEW k \in Rooms, down[k] # <<>>, down' = [down EXCEPT ![k] = Tail(@)],
         UNCHANGED rooms, OthersSame(k), SameLink(k),
         \A i \in DOMAIN down[k] : i # 1 /\ down[k][i].t = "prompt" /\ ~down[k][i].n =>
           WillKnow(k, down[k][i].peer, FALSE),
         \A g \in Guests : SameSpot(g) /\ guests'[g].writes = guests[g].writes,
         \A g \in Guests : (guests[g].st = "in" /\ guests[g].room # k) => guests'[g].log = guests[g].log,
         \A g \in Guests : (guests[g].st = "in" /\ guests[g].room = k /\ guests'[g].log >= 0) =>
           WillKnow(k, guests[g].peer, guests[g].writes)
  PROVE  Wired'
<1>1. /\ down'[k] = Tail(down[k]) /\ \A r \in Rooms : r # k => down'[r] = down[r]
      /\ \A i \in DOMAIN down'[k] :
           i \in Nat /\ i + 1 \in DOMAIN down[k] /\ i + 1 # 1 /\ down'[k][i] = down[k][i + 1]
  BY HeadTyped DEF Core, Typed
<1>2. HostWired(k)
  BY DEF Wired
<1>3. ASSUME NEW p, NEW w, Says(k, p, w)
      PROVE  \A j \in DOMAIN down'[k] :
               down'[k][j].t = "hello" /\ down'[k][j].peer = p => down'[k][j].n = w
  BY <1>1, <1>3 DEF Says
<1>4. ASSUME NEW i \in DOMAIN down'[k]
      PROVE  LET m == down'[k][i]
             IN  /\ m.peer < rooms'[k].next
                 /\ m.t = "left" => m.peer \notin DOMAIN rooms'[k].guests
                 /\ m.t = "prompt" /\ ~m.n =>
                      /\ WillKnow(k, m.peer, FALSE)
                      /\ \A j \in DOMAIN down'[k] :
                           down'[k][j].t = "hello" /\ down'[k][j].peer = m.peer => down'[k][j].n = FALSE
  <2> DEFINE m == down'[k][i]
  <2>1. i \in Nat /\ i + 1 \in DOMAIN down[k] /\ i + 1 # 1 /\ m = down[k][i + 1]
    BY <1>1, <1>4
  <2>2. m.peer < rooms'[k].next /\ (m.t = "left" => m.peer \notin DOMAIN rooms'[k].guests)
    BY <1>2, <2>1 DEF HostWired
  <2>3. m.t = "prompt" /\ ~m.n => WillKnow(k, m.peer, FALSE) /\ Says(k, m.peer, FALSE)
    BY <1>2, <2>1 DEF HostWired
  <2>4. Says(k, m.peer, FALSE) =>
          \A j \in DOMAIN down'[k] :
            down'[k][j].t = "hello" /\ down'[k][j].peer = m.peer => down'[k][j].n = FALSE
    BY <1>3
  <2> QED BY <2>2, <2>3, <2>4
<1>5. HostWired(k)'
  <2>1. ads'[k].sock = "open"
    BY <1>2 DEF HostWired, SameLink
  <2> QED BY <1>4, <2>1 DEF HostWired, Says, Knows, WillKnow
<1>6. ASSUME NEW r \in Rooms, r # k PROVE HostWired(r)'
  <2>1. QueueStays(r)
    BY <1>1, <1>6 DEF QueueStays, OthersSame, SamePeers
  <2> QED BY <2>1, HostWiredStays DEF Wired
<1>7. ASSUME NEW g \in Guests PROVE GuestWired(g)'
  <2>1. SameSpot(g) /\ guests'[g].writes = guests[g].writes /\ GuestWired(g)
        /\ (guests[g].st = "in" => guests[g].room \in Rooms)
    BY DEF Wired, Core, Typed
  <2>2. CASE guests[g].st # "in"
    BY <2>1, <2>2 DEF GuestWired, SameSpot
  <2>3. CASE guests[g].st = "in" /\ guests[g].room # k
    <3>1. QueueStays(guests[g].room)
      BY <1>1, <2>1, <2>3 DEF QueueStays, OthersSame, SamePeers
    <3>2. VisitorStays(g)
      BY <2>1, <2>3 DEF VisitorStays
    <3> QED BY <2>1, <3>1, <3>2, GuestWiredStays
  <2>4. CASE guests[g].st = "in" /\ guests[g].room = k
    <3> DEFINE p == guests[g].peer
    <3>1. \A i \in DOMAIN down'[k] :
            down'[k][i].t = "hello" /\ down'[k][i].peer = p => down'[k][i].n = guests[g].writes
      BY <1>3, <2>1, <2>4 DEF GuestWired
    <3>2. \A i \in DOMAIN down'[k] :
            down'[k][i].t = "prompt" /\ down'[k][i].peer = p /\ ~down'[k][i].n => ~guests[g].writes
      BY <1>1, <2>1, <2>4 DEF GuestWired
    <3>3. guests'[g].log >= 0 => WillKnow(k, p, guests[g].writes)
      BY <2>4
    <3>4. guests'[g].room = k /\ guests'[g].peer = p /\ guests'[g].writes = guests[g].writes
      BY <2>1, <2>4 DEF SameSpot
    <3> QED BY <3>1, <3>2, <3>3, <3>4 DEF GuestWired, Says, Knows, WillKnow
  <2> QED BY <2>2, <2>3, <2>4
<1> QED BY <1>5, <1>6, <1>7 DEF Wired
\* A frame is appended, or dropped.
LEMMA QueueAppended ==
  ASSUME Core, NEW r \in Rooms, NEW msg \in Messages,
         down'[r] = IF Open(r) THEN Append(down[r], msg) ELSE down[r]
  PROVE  \A i \in DOMAIN down'[r] : \/ i \in DOMAIN down[r] /\ down'[r][i] = down[r][i]
                                    \/ down'[r][i] = msg
<1>1. down[r] \in Seq(Messages)
  BY DEF Core, Typed
<1>2. CASE Open(r)
  <2>1. down'[r] = Append(down[r], msg)
    BY <1>2
  <2> QED BY <1>1, <2>1, Appended
<1>3. CASE ~Open(r)
  BY <1>3
<1> QED BY <1>2, <1>3

LEMMA HostWiredAppends ==
  ASSUME Core, NEW r \in Rooms, HostWired(r), UNCHANGED ads, NEW msg \in Messages,
         down'[r] = IF Open(r) THEN Append(down[r], msg) ELSE down[r],
         rooms'[r].next = rooms[r].next, msg.peer < rooms[r].next,
         \A i \in DOMAIN down[r] : down[r][i].t = "left" => down[r][i].peer \notin DOMAIN rooms'[r].guests,
         msg.t = "left" => msg.peer \notin DOMAIN rooms'[r].guests,
         \A i \in DOMAIN down[r] :
           msg.t = "hello" /\ down[r][i].t = "prompt" /\ down[r][i].peer = msg.peer /\ ~down[r][i].n
             => msg.n = FALSE,
         msg.t = "prompt" /\ ~msg.n => Knows(r, msg.peer, FALSE) /\ Says(r, msg.peer, FALSE)
  PROVE  HostWired(r)'
<1>1. \A i \in DOMAIN down'[r] : \/ i \in DOMAIN down[r] /\ down'[r][i] = down[r][i]
                                 \/ down'[r][i] = msg
  BY QueueAppended
<1>2. down'[r] # <<>> => ads'[r].sock = "open"
  BY OpenIsConnected DEF HostWired
<1>3. ASSUME NEW i \in DOMAIN down'[r]
      PROVE  /\ down'[r][i].peer < rooms'[r].next
             /\ down'[r][i].t = "left" => down'[r][i].peer \notin DOMAIN rooms'[r].guests
  BY <1>1 DEF HostWired
<1>4. ASSUME NEW i \in DOMAIN down'[r], down'[r][i].t = "prompt", ~down'[r][i].n
      PROVE  /\ Knows(r, down'[r][i].peer, FALSE)
             /\ \A j \in DOMAIN down'[r] :
                  down'[r][j].t = "hello" /\ down'[r][j].peer = down'[r][i].peer
                    => down'[r][j].n = FALSE
  <2> DEFINE p == down'[r][i].peer
  <2>1. Knows(r, p, FALSE) /\ Says(r, p, FALSE)
    <3>1. CASE i \in DOMAIN down[r] /\ down'[r][i] = down[r][i]
      BY <1>4, <3>1 DEF HostWired
    <3>2. CASE down'[r][i] = msg
      BY <1>4, <3>2
    <3> QED BY <1>1, <3>1, <3>2
  <2>2. ASSUME NEW j \in DOMAIN down'[r], down'[r][j].t = "hello", down'[r][j].peer = p
        PROVE  down'[r][j].n = FALSE
    <3>1. CASE j \in DOMAIN down[r] /\ down'[r][j] = down[r][j]
      BY <2>1, <2>2, <3>1 DEF Says
    <3>2. CASE down'[r][j] = msg
      <4>1. down'[r][i] # msg
        BY <1>4, <2>2, <3>2
      <4> QED BY <1>1, <1>4, <2>2, <3>2, <4>1
    <3> QED BY <1>1, <3>1, <3>2
  <2> QED BY <2>1, <2>2
<1> QED BY <1>2, <1>3, <1>4 DEF HostWired, Says, Knows

\* What was appended is of another guest, or is right of this one.
LEMMA GuestWiredAppends ==
  ASSUME Core, NEW g \in Guests, GuestWired(g), UNCHANGED ads, VisitorStays(g),
         NEW r \in Rooms, NEW msg \in Messages, OtherQueuesSame(r),
         down'[r] = IF Open(r) THEN Append(down[r], msg) ELSE down[r],
         guests[g].st = "in" /\ guests[g].room = r /\ guests[g].peer = msg.peer =>
           /\ msg.t = "hello" => msg.n = guests[g].writes
           /\ msg.t = "prompt" /\ ~msg.n => ~guests[g].writes
  PROVE  GuestWired(g)'
<1>1. CASE guests'[g].st # "in"
  BY <1>1 DEF GuestWired
<1>2. CASE guests'[g].st = "in"
  <2> DEFINE q == guests[g].room
             p == guests[g].peer
  <2>1. /\ guests[g].st = "in" /\ guests'[g].room = q /\ guests'[g].peer = p
        /\ guests'[g].writes = guests[g].writes /\ (guests'[g].log >= 0 => guests[g].log >= 0)
    BY <1>2 DEF VisitorStays, SameSpot
  <2>2. /\ Says(q, p, guests[g].writes)
        /\ \A i \in DOMAIN down[q] :
             down[q][i].t = "prompt" /\ down[q][i].peer = p /\ ~down[q][i].n => ~guests[g].writes
        /\ guests[g].log >= 0 => Knows(q, p, guests[g].writes)
    BY <2>1 DEF GuestWired
  <2>3. q \in Rooms
    BY <2>1 DEF Core, Typed
  <2>4. \A i \in DOMAIN down'[q] : \/ i \in DOMAIN down[q] /\ down'[q][i] = down[q][i]
                                   \/ q = r /\ down'[q][i] = msg
    <3>1. CASE q = r
      BY <3>1, QueueAppended
    <3>2. CASE q # r
      BY <2>3, <3>2 DEF OtherQueuesSame
    <3> QED BY <3>1, <3>2
  <2>5. q = r /\ p = msg.peer =>
          /\ msg.t = "hello" => msg.n = guests[g].writes
          /\ msg.t = "prompt" /\ ~msg.n => ~guests[g].writes
    BY <2>1
  <2> HIDE DEF q, p
  <2>6. \A i \in DOMAIN down'[q] :
          down'[q][i].t = "hello" /\ down'[q][i].peer = p => down'[q][i].n = guests[g].writes
    BY <2>2, <2>4, <2>5 DEF Says
  <2>7. \A i \in DOMAIN down'[q] :
          down'[q][i].t = "prompt" /\ down'[q][i].peer = p /\ ~down'[q][i].n => ~guests[g].writes
    BY <2>2, <2>4, <2>5
  <2> QED BY <2>1, <2>2, <2>6, <2>7 DEF GuestWired, Says, Knows
<1> QED BY <1>1, <1>2

LEMMA WiredJoins ==
  ASSUME Core, Wired, NEW g \in Guests, NEW q \in Rooms, NEW w \in BOOLEAN, GuestJoins(g, q, w),
         UNCHANGED hostVars
  PROVE  Wired'
<1> DEFINE p == rooms[q].next
<1>1. /\ OtherRoomsSame(q) /\ OtherGuestsSame(g) /\ UNCHANGED <<down, ads>>
      /\ p \in Peers /\ rooms'[q].next = p + 1
      /\ guests'[g].room = q /\ guests'[g].peer = p /\ guests'[g].log = -1
      /\ rooms'[q].guests = Put(rooms[q].guests, p, g)
  BY GuestJoinsTyped DEF hostVars
<1>2. HostWired(q)
  BY DEF Wired
<1>3. \A i \in DOMAIN down[q] : down[q][i].peer < p /\ down[q][i].peer \in Nat
  <2>1. down[q] \in Seq(Messages)
    BY DEF Core, Typed
  <2>2. \A i \in DOMAIN down[q] : down[q][i] \in Messages
    BY <2>1
  <2> QED BY <1>2, <2>2 DEF HostWired, Messages, Peers
<1>4. DOMAIN rooms'[q].guests = DOMAIN rooms[q].guests \cup {p}
  BY <1>1 DEF Put
<1> HIDE DEF p
<1>5. \A i \in DOMAIN down[q] : down[q][i].peer # p /\ down[q][i].peer < p + 1
  BY <1>1, <1>3 DEF Peers
<1>6. HostWired(q)'
  <2>1. \A i \in DOMAIN down'[q] :
          /\ down'[q][i].peer < rooms'[q].next
          /\ down'[q][i].t = "left" => down'[q][i].peer \notin DOMAIN rooms'[q].guests
    BY <1>1, <1>2, <1>4, <1>5 DEF HostWired
  <2> QED BY <1>1, <1>2, <2>1 DEF HostWired, Says, Knows
<1>7. ASSUME NEW r \in Rooms PROVE HostWired(r)'
  <2>1. CASE r = q
    BY <1>6, <2>1
  <2>2. CASE r # q
    <3>1. QueueStays(r)
      BY <1>1, <2>2 DEF QueueStays, SamePeers, OtherRoomsSame
    <3> QED BY <3>1, HostWiredStays DEF Wired
  <2> QED BY <2>1, <2>2
<1>8. ASSUME NEW h \in Guests PROVE GuestWired(h)'
  <2>1. CASE h = g
    <3>1. \A i \in DOMAIN down'[q] : down'[q][i].peer # p
      BY <1>1, <1>5
    <3>2. ~(guests'[h].log >= 0) /\ guests'[h].room = q /\ guests'[h].peer = p
      BY <1>1, <2>1
    <3> QED BY <3>1, <3>2 DEF GuestWired, Says
  <2>2. CASE h # g
    <3>1. guests'[h] = guests[h] /\ GuestWired(h)
      BY <1>1, <2>2 DEF OtherGuestsSame, Wired
    <3> QED BY <1>1, <3>1 DEF GuestWired, Says, Knows
  <2> QED BY <2>1, <2>2
<1> QED BY <1>7, <1>8 DEF Wired

LEMMA WiredSends ==
  ASSUME Core, Wired, NEW g \in Guests, Speaks(g), UNCHANGED hostVars
  PROVE  Wired'
<1>0. PICK t, n : MaySend(g, t, n) /\ GuestSends(g, t, n)
  BY DEF Speaks
<1>1. PICK q \in Rooms : q = guests[g].room
  BY <1>0 DEF GuestSends, Core, Typed
<1> DEFINE p == guests[g].peer
           msg == Frame(t, p, n)
<1>2. /\ OtherQueuesSame(q) /\ msg \in Messages
      /\ guests[g].st = "in" /\ UNCHANGED <<rooms, dials, guests>>
      /\ down'[q] = IF Open(q) THEN Append(down[q], msg) ELSE down[q]
  BY <1>0, <1>1, GuestSendsTyped
<1>3. msg.t = t /\ msg.peer = p /\ msg.n = n /\ UNCHANGED ads
  BY DEF Frame, hostVars
<1>4. HostWired(q) /\ GuestWired(g)
  BY DEF Wired
<1>5. guests[g].writes \in BOOLEAN /\ guests[g].log \in Int
  BY DEF Core, Typed, GuestStates
<1>6. /\ t \in {"hello", "prompt", "answer"}
      /\ t = "hello" => n = guests[g].writes
      /\ t = "prompt" /\ ~n => guests[g].writes = FALSE /\ guests[g].log >= 0
  <2>1. t \in {"hello", "prompt", "answer"} /\ (t = "hello" => n = guests[g].writes)
    BY <1>0 DEF MaySend
  <2>2. t = "prompt" => n = (guests[g].writes \/ guests[g].log < 0)
    BY <1>0 DEF MaySend, MayBeRun
  <2>3. ASSUME t = "prompt", ~n PROVE guests[g].writes = FALSE /\ guests[g].log >= 0
    <3>1. ~(guests[g].writes \/ guests[g].log < 0)
      BY <2>2, <2>3
    <3> QED BY <1>5, <3>1
  <2> QED BY <2>1, <2>3
<1>7. p < rooms[q].next
  BY <1>1, <1>2 DEF Core, Seated, GuestSeated, RoomSeated
<1> HIDE DEF p, msg
<1>8. HostWired(q)'
  <2>1. msg.t = "prompt" /\ ~msg.n => Knows(q, msg.peer, FALSE) /\ Says(q, msg.peer, FALSE)
    BY <1>1, <1>2, <1>3, <1>4, <1>6 DEF GuestWired, p
  <2>2. \A i \in DOMAIN down[q] :
          msg.t = "hello" /\ down[q][i].t = "prompt" /\ down[q][i].peer = msg.peer /\ ~down[q][i].n
            => msg.n = FALSE
    BY <1>1, <1>2, <1>3, <1>4, <1>5, <1>6 DEF GuestWired, p
  <2>3. \A i \in DOMAIN down[q] : down[q][i].t = "left" => down[q][i].peer \notin DOMAIN rooms'[q].guests
    BY <1>2, <1>4 DEF HostWired
  <2>4. msg.t # "left" /\ msg.peer < rooms[q].next /\ rooms'[q].next = rooms[q].next
    BY <1>2, <1>3, <1>6, <1>7
  <2> QED BY <1>2, <1>3, <1>4, <2>1, <2>2, <2>3, <2>4, HostWiredAppends
<1>9. ASSUME NEW r \in Rooms PROVE HostWired(r)'
  <2>1. CASE r = q
    BY <1>8, <2>1
  <2>2. CASE r # q
    <3>1. QueueStays(r)
      BY <1>2, <1>3, <2>2 DEF QueueStays, SamePeers, OtherQueuesSame
    <3> QED BY <3>1, HostWiredStays DEF Wired
  <2> QED BY <2>1, <2>2
<1>10. ASSUME NEW h \in Guests PROVE GuestWired(h)'
  <2>1. VisitorStays(h)
    BY <1>2 DEF VisitorStays, SameSpot
  <2>2. guests[h].st = "in" /\ guests[h].room = q /\ guests[h].peer = p => h = g
    BY <1>1, <1>2 DEF Core, Seated, GuestSeated, p
  <2>3. guests[h].st = "in" /\ guests[h].room = q /\ guests[h].peer = msg.peer =>
          /\ msg.t = "hello" => msg.n = guests[h].writes
          /\ msg.t = "prompt" /\ ~msg.n => ~guests[h].writes
    BY <1>3, <1>6, <2>2
  <2> QED BY <1>2, <1>3, <2>1, <2>3, GuestWiredAppends DEF Wired
<1> QED BY <1>9, <1>10 DEF Wired

LEMMA WiredGuestCloses ==
  ASSUME Core, Wired, NEW g \in Guests, GuestCloses(g), UNCHANGED hostVars
  PROVE  Wired'
<1>0. PICK q \in Rooms : q = guests[g].room
  BY DEF GuestCloses, Core, Typed
<1> DEFINE p == guests[g].peer
           msg == Frame("left", p, 0)
<1>1. /\ OtherGuestsSame(g) /\ guests'[g].st = "gone" /\ UNCHANGED ads
      /\ \/ UNCHANGED <<rooms, down>>
         \/ /\ OtherRoomsSame(q) /\ OtherQueuesSame(q) /\ msg \in Messages
            /\ p \in DOMAIN rooms[q].guests
            /\ rooms'[q].guests = Restrict(rooms[q].guests, DOMAIN rooms[q].guests \ {p})
            /\ rooms'[q].next = rooms[q].next
            /\ down'[q] = IF Open(q) THEN Append(down[q], msg) ELSE down[q]
  BY <1>0, GuestClosesTyped DEF hostVars
<1>2. msg.t = "left" /\ msg.peer = p
  BY DEF Frame
<1> HIDE DEF p, msg
<1>3. \A h \in Guests : VisitorStays(h)
  BY <1>1 DEF VisitorStays, OtherGuestsSame, SameSpot
<1>4. CASE UNCHANGED <<rooms, down>>
  <2>1. \A r \in Rooms : QueueStays(r)
    BY <1>1, <1>4 DEF QueueStays, SamePeers
  <2> QED BY <1>3, <2>1, WiredStays
<1>5. CASE ~UNCHANGED <<rooms, down>>
  <2>1. HostWired(q) /\ RoomSeated(q)
    BY <1>1 DEF Wired, Core, Seated
  <2>2. DOMAIN rooms'[q].guests = DOMAIN rooms[q].guests \ {p}
    BY <1>1, <1>5 DEF Restrict
  <2>3. HostWired(q)'
    <3>1. /\ msg.peer < rooms[q].next /\ msg.peer \notin DOMAIN rooms'[q].guests
      BY <1>1, <1>2, <1>5, <2>1, <2>2 DEF RoomSeated
    <3>2. \A i \in DOMAIN down[q] : down[q][i].t = "left" => down[q][i].peer \notin DOMAIN rooms'[q].guests
      BY <2>1, <2>2 DEF HostWired
    <3> QED BY <1>1, <1>2, <1>5, <2>1, <3>1, <3>2, HostWiredAppends
  <2>4. ASSUME NEW r \in Rooms PROVE HostWired(r)'
    <3>1. CASE r = q
      BY <2>3, <3>1
    <3>2. CASE r # q
      <4>1. QueueStays(r)
        BY <1>1, <1>5, <3>2 DEF QueueStays, SamePeers, OtherRoomsSame, OtherQueuesSame
      <4> QED BY <4>1, HostWiredStays DEF Wired
    <3> QED BY <3>1, <3>2
  <2>5. ASSUME NEW h \in Guests PROVE GuestWired(h)'
    BY <1>1, <1>2, <1>3, <1>5, GuestWiredAppends DEF Wired
  <2> QED BY <2>4, <2>5 DEF Wired
<1> QED BY <1>4, <1>5
-----------------------------------------------------------------------------
(* What the host's frames do to the guests.                                *)

LEMMA ReachedIs ==
  ASSUME Core, NEW k \in Rooms, NEW g \in Guests
  PROVE  Reached(guests, k, g) <=>
           IsLive(k) /\ ads[k].sock = "open" /\ guests[g].st = "in" /\ guests[g].room = k
BY WhoIsIn DEF Reached, Connected

LEMMA SentToWritableIs ==
  ASSUME Core, NEW k \in Rooms, NEW t \in {"ask", "end"}, NEW n \in Nat,
         guests' = Sent(guests, k, ToWritable(k, t, n)), NEW g \in Guests
  PROVE  /\ guests'[g].log = guests[g].log
         /\ guests'[g].dialogs =
              IF Reached(guests, k, g) /\ guests[g].peer \in CanWrite(k)
              THEN (IF t = "ask" THEN guests[g].dialogs \cup {n} ELSE guests[g].dialogs \ {n})
              ELSE guests[g].dialogs
<1>1. guests \in [Guests -> GuestStates]
  BY DEF Core, Typed
<1>2. CASE Reached(guests, k, g)
  <2>1. guests[g].peer # 0
    BY <1>2, WhoIsIn DEF Reached, Peers
  <2>2. LET view == Sent(guests, k, ToWritable(k, t, n))[g]
        IN  /\ view.log = guests[g].log
            /\ view.dialogs =
                 IF Reached(guests, k, g) /\ guests[g].peer \in CanWrite(k)
                 THEN (IF t = "ask" THEN guests[g].dialogs \cup {n} ELSE guests[g].dialogs \ {n})
                 ELSE guests[g].dialogs
    BY <1>1, <2>1, SentToWritable DEF Core
  <2> QED BY <2>2
<1>3. CASE ~Reached(guests, k, g)
  <2>1. ToWritable(k, t, n) \in SUBSET Frames
    BY WritersArePeers DEF ToWritable, Frame, Frames, Peers, Core
  <2>2. guests'[g] = guests[g]
    BY <1>1, <1>3, <2>1, SentTyped
  <2> QED BY <1>3, <2>2
<1> QED BY <1>2, <1>3

LEMMA AskGuestsShows ==
  ASSUME Core, NEW a \in Asks, AskGuests(a), NEW g \in Guests
  PROVE  /\ guests'[g].log = guests[g].log
         /\ guests'[g].dialogs =
              IF Reached(guests, slot, g) /\ guests[g].peer \in CanWrite(slot)
              THEN guests[g].dialogs \cup {reqs + 1} ELSE guests[g].dialogs
<1> DEFINE k == slot
           n == reqs + 1
<1>1. k \in Rooms
  BY AskGuestsTyped
<1>2. n \in Nat /\ "ask" \in {"ask", "end"}
  BY DEF Core, Typed
<1>3. guests' = Sent(guests, k, ToWritable(k, "ask", n))
  BY DEF AskGuests
<1> HIDE DEF k, n
<1>4. /\ guests'[g].log = guests[g].log
      /\ guests'[g].dialogs =
           IF Reached(guests, k, g) /\ guests[g].peer \in CanWrite(k)
           THEN (IF "ask" = "ask" THEN guests[g].dialogs \cup {n} ELSE guests[g].dialogs \ {n})
           ELSE guests[g].dialogs
  BY <1>1, <1>2, <1>3, SentToWritableIs
<1> QED BY <1>4 DEF k, n

\* An answer is taken, and the others see the end of the dialog, or it is not.
LEMMA AnswerShows ==
  ASSUME Core, NEW k \in Rooms, Answer(k)
  PROVE  LET n == Head(down[k]).n
         IN  \/ SamePending(k) /\ UNCHANGED <<asks, guests>>
             \/ /\ ads'[k].pending = ads[k].pending \ {n}
                /\ asks' = [a \in Asks |-> IF asks[a].at = "guests" /\ asks[a].req = n
                                           THEN Settled ELSE asks[a]]
                /\ \A g \in Guests :
                     /\ guests'[g].log = guests[g].log
                     /\ guests'[g].dialogs =
                          IF Reached(guests, k, g) /\ guests[g].peer \in CanWrite(k)
                          THEN guests[g].dialogs \ {n} ELSE guests[g].dialogs
<1> DEFINE n == Head(down[k]).n
           settled == [a \in Asks |-> IF asks[a].at = "guests" /\ asks[a].req = n
                                      THEN Settled ELSE asks[a]]
<1>1. \/ SamePending(k) /\ UNCHANGED <<asks, guests>>
      \/ /\ ads'[k].pending = ads[k].pending \ {n} /\ n \in Nat /\ asks' = settled
         /\ guests' = Sent(guests, k, ToWritable(k, "end", n))
  BY AnswerTyped
<1> HIDE DEF n, settled
<1>2. ASSUME n \in Nat, guests' = Sent(guests, k, ToWritable(k, "end", n)), NEW g \in Guests
      PROVE  /\ guests'[g].log = guests[g].log
             /\ guests'[g].dialogs =
                  IF Reached(guests, k, g) /\ guests[g].peer \in CanWrite(k)
                  THEN guests[g].dialogs \ {n} ELSE guests[g].dialogs
  <2>1. "end" \in {"ask", "end"}
    OBVIOUS
  <2>2. /\ guests'[g].log = guests[g].log
        /\ guests'[g].dialogs =
             IF Reached(guests, k, g) /\ guests[g].peer \in CanWrite(k)
             THEN (IF "end" = "ask" THEN guests[g].dialogs \cup {n} ELSE guests[g].dialogs \ {n})
             ELSE guests[g].dialogs
    BY <1>2, <2>1, SentToWritableIs
  <2> QED BY <2>2
<1> QED BY <1>1, <1>2 DEF n, settled

LEMMA HelloShows ==
  ASSUME Core, NEW k \in Rooms, Hello(k), NEW g \in Guests
  PROVE  IF guests[g].st = "in" /\ guests[g].room = k /\ guests[g].peer = Peer(k)
         THEN /\ guests'[g].log = log /\ guests'[g].heard
              /\ guests'[g].dialogs =
                   guests[g].dialogs \cup (IF Head(down[k]).n THEN ads[k].pending ELSE {})
         ELSE /\ guests'[g].log = guests[g].log /\ guests'[g].dialogs = guests[g].dialogs
              /\ guests'[g].heard = guests[g].heard
<1> DEFINE gs == Heard(k)
           w == Head(down[k]).n
           met == guests[g].st = "in" /\ guests[g].room = k /\ guests[g].peer = Peer(k)
<1>1. down[k] # <<>> /\ IsLive(k) /\ ads[k].sock = "open"
  BY DEF Hello, Reads, Connected
<1>2. w \in BOOLEAN /\ Peer(k) \in Peers /\ SameSeat(guests'[g], gs[g])
  BY <1>1, HelloTyped, HeadTyped DEF Core
<1>3. /\ gs \in [Guests -> GuestStates]
      /\ gs[g].st = guests[g].st /\ gs[g].room = guests[g].room /\ gs[g].peer = guests[g].peer
      /\ gs[g].log = guests[g].log /\ gs[g].dialogs = guests[g].dialogs
      /\ gs[g].heard = (guests[g].heard \/ met)
  BY HeardTyped DEF Core
<1>4. guests' = Sent(gs, k, Greeting(k, w))
  BY DEF Hello
<1>5. Reached(gs, k, g) /\ gs[g].peer = Peer(k) <=> met
  BY <1>1, <1>3, WhoIsIn DEF Reached, Connected
<1> HIDE DEF gs, w, met
<1>6. LET view == Sent(gs, k, Greeting(k, w))[g]
      IN  IF Reached(gs, k, g) /\ gs[g].peer = Peer(k)
          THEN /\ view.log = log
               /\ view.dialogs = gs[g].dialogs \cup (IF w THEN ads[k].pending ELSE {})
          ELSE view = gs[g] \/ (view.log = gs[g].log /\ view.dialogs = gs[g].dialogs)
  BY <1>2, <1>3, SentGreeting DEF Core
<1>7. IF met
      THEN /\ guests'[g].log = log
           /\ guests'[g].dialogs = guests[g].dialogs \cup (IF w THEN ads[k].pending ELSE {})
      ELSE guests'[g].log = guests[g].log /\ guests'[g].dialogs = guests[g].dialogs
  BY <1>3, <1>4, <1>5, <1>6
<1>8. guests'[g].heard = (guests[g].heard \/ met) /\ guests[g].heard \in BOOLEAN
  BY <1>2, <1>3 DEF SameSeat, Core, Typed, GuestStates
<1>9. IF met THEN guests'[g].heard ELSE guests'[g].heard = guests[g].heard
  BY <1>8 DEF met
<1> QED BY <1>7, <1>9 DEF met, w

LEMMA AppendsShows ==
  ASSUME Core, Appends, NEW g \in Guests
  PROVE  /\ guests'[g].dialogs = guests[g].dialogs
         /\ \/ guests'[g].log = guests[g].log
            \/ guests'[g].log = log + 1 /\ guests[g].log = log
         /\ (tap \in Rooms /\ Current(tap) /\ Reached(guests, tap, g) /\ guests[g].log = log)
              => guests'[g].log = log + 1
<1>1. \/ UNCHANGED guests /\ (tap = 0 \/ ~Current(tap))
      \/ tap \in Rooms /\ Current(tap) /\ guests' = Sent(guests, tap, {Frame("entry", 0, log + 1)})
  BY AppendsTyped
<1>2. CASE tap \in Rooms /\ Current(tap) /\ guests' = Sent(guests, tap, {Frame("entry", 0, log + 1)})
  <2> DEFINE k == tap
             n == log + 1
  <2>1. n \in Nat /\ n - 1 = log /\ guests \in [Guests -> GuestStates] /\ k \in Rooms
        /\ guests' = Sent(guests, k, {Frame("entry", 0, n)})
    BY <1>2 DEF Core, Typed
  <2> HIDE DEF k, n
  <2>2. LET view == Sent(guests, k, {Frame("entry", 0, n)})[g]
        IN  /\ view.dialogs = guests[g].dialogs
            /\ view.log = IF Reached(guests, k, g) /\ guests[g].log = n - 1 THEN n ELSE guests[g].log
    BY <2>1, SentEntry DEF Core
  <2>3. /\ guests'[g].dialogs = guests[g].dialogs
        /\ guests'[g].log = IF Reached(guests, k, g) /\ guests[g].log = log THEN n ELSE guests[g].log
    BY <2>1, <2>2
  <2> QED BY <2>3 DEF k, n
<1>3. CASE UNCHANGED guests /\ (tap = 0 \/ ~Current(tap))
  <2>1. ~(tap \in Rooms /\ Current(tap))
    BY <1>3, RoomsAreNumbers
  <2> QED BY <1>3, <2>1
<1> QED BY <1>1, <1>2, <1>3
-----------------------------------------------------------------------------
(* What is on its way to a host, in every step.                            *)

\* The host reads a frame, and knows nobody that it did not know.
LEMMA WiredReadsOn ==
  ASSUME Core, Wired, NEW k \in Rooms, down[k] # <<>>, down' = [down EXCEPT ![k] = Tail(@)],
         UNCHANGED rooms, OthersSame(k), SameLink(k),
         \A p \in DOMAIN ads'[k].peers :
           p \in DOMAIN ads[k].peers /\ ads'[k].peers[p] = ads[k].peers[p],
         \A g \in Guests : /\ SameSpot(g) /\ guests'[g].writes = guests[g].writes
                           /\ guests'[g].log = guests[g].log
  PROVE  Wired'
<1>1. \A p, w : Knows(k, p, w) => WillKnow(k, p, w)
  BY DEF Knows, WillKnow
<1>2. \A i \in DOMAIN down[k] :
        down[k][i].t = "prompt" /\ ~down[k][i].n => WillKnow(k, down[k][i].peer, FALSE)
  BY <1>1 DEF Wired, HostWired
<1>3. ASSUME NEW g \in Guests, guests[g].st = "in", guests[g].room = k, guests'[g].log >= 0
      PROVE  WillKnow(k, guests[g].peer, guests[g].writes)
  <2>1. Knows(k, guests[g].peer, guests[g].writes)
    BY <1>3 DEF Wired, GuestWired
  <2> QED BY <1>1, <2>1
<1> QED BY <1>2, <1>3, WiredReads

LEMMA WiredAnswer ==
  ASSUME Core, Wired, NEW k \in Rooms, Answer(k)
  PROVE  Wired'
<1>1. down[k] # <<>> /\ down' = [down EXCEPT ![k] = Tail(@)] /\ UNCHANGED rooms
  BY DEF Answer, Reads, Taken
<1>2. OthersSame(k) /\ SameLink(k) /\ SamePeers(k)
  BY AnswerTyped
<1>3. \A g \in Guests : SameSpot(g) /\ guests'[g].writes = guests[g].writes
  BY AnswerTyped DEF SameSeat, SameSpot
<1>4. \A g \in Guests : guests'[g].log = guests[g].log
  BY AnswerShows
<1> QED BY <1>1, <1>2, <1>3, <1>4, WiredReadsOn DEF SamePeers

LEMMA WiredPrompt ==
  ASSUME Core, Wired, NEW k \in Rooms, Prompt(k)
  PROVE  Wired'
<1>1. /\ down[k] # <<>> /\ down' = [down EXCEPT ![k] = Tail(@)] /\ UNCHANGED <<rooms, guests, ads>>
  BY DEF Prompt, Reads, Taken
<1> QED BY <1>1, WiredReadsOn DEF OthersSame, SameLink, SameSpot

LEMMA WiredPeerLeft ==
  ASSUME Core, Wired, NEW k \in Rooms, PeerLeft(k)
  PROVE  Wired'
<1>1. down[k] # <<>> /\ down' = [down EXCEPT ![k] = Tail(@)] /\ UNCHANGED <<rooms, guests>>
  BY DEF PeerLeft, Reads, Taken
<1>2. /\ OthersSame(k) /\ SameLink(k)
      /\ ads'[k].peers = Restrict(ads[k].peers, DOMAIN ads[k].peers \ {Peer(k)})
  BY PeerLeftTyped
<1>3. \A p \in DOMAIN ads'[k].peers :
        p \in DOMAIN ads[k].peers /\ ads'[k].peers[p] = ads[k].peers[p]
  BY <1>2 DEF Restrict
<1> QED BY <1>1, <1>2, <1>3, WiredReadsOn DEF SameSpot

\* What the host of room k knows once it has read a hello.
LEMMA HelloKnows ==
  ASSUME Core, NEW k \in Rooms, Hello(k)
  PROVE  /\ ads'[k].peers[Peer(k)] = Head(down[k]).n
         /\ DOMAIN ads'[k].peers = DOMAIN ads[k].peers \cup {Peer(k)}
         /\ \A p \in DOMAIN ads[k].peers : p # Peer(k) => ads'[k].peers[p] = ads[k].peers[p]
<1> DEFINE f == ads[k].peers
           q == Peer(k)
           w == Head(down[k]).n
<1>1. ads'[k].peers = Put(f, q, w) /\ w \in BOOLEAN
  BY HelloTyped
<1>2. f \in Maps(BOOLEAN)
  BY DEF Core, Typed, AdapterStates
<1>3. q \in Peers
  BY HeadTyped DEF Core, Hello, Reads
<1> HIDE DEF f, q, w
<1>4. /\ DOMAIN Put(f, q, w) = DOMAIN f \cup {q} /\ Put(f, q, w)[q] = w
      /\ \A p \in DOMAIN f : p # q => Put(f, q, w)[p] = f[p]
  BY <1>1, <1>2, <1>3, PutTyped
<1> QED BY <1>1, <1>4 DEF f, q, w

LEMMA WiredHello ==
  ASSUME Core, Wired, NEW k \in Rooms, Hello(k)
  PROVE  Wired'
<1> DEFINE q == Peer(k)
           w == Head(down[k]).n
<1>1. /\ down[k] # <<>> /\ down' = [down EXCEPT ![k] = Tail(@)] /\ UNCHANGED rooms
      /\ Head(down[k]).t = "hello"
  BY DEF Hello, Reads, Taken
<1>2. /\ 1 \in DOMAIN down[k] /\ down[k][1].t = "hello" /\ down[k][1].peer = q /\ down[k][1].n = w
  BY <1>1, HeadTyped DEF Core
<1>3. /\ OthersSame(k) /\ SameLink(k)
      /\ \A g \in Guests : SameSeat(guests'[g], Heard(k)[g])
  BY HelloTyped
<1>4. \A g \in Guests : SameSpot(g) /\ guests'[g].writes = guests[g].writes
  BY <1>3, HeardTyped DEF SameSeat, SameSpot, Core
<1>5. ASSUME NEW p, NEW v, p # q, Knows(k, p, v) PROVE WillKnow(k, p, v)
  BY <1>5, HelloKnows DEF Knows, WillKnow
<1>6. ads'[k].peers[q] = w
  BY HelloKnows
<1>7. HostWired(k)
  BY DEF Wired
<1> HIDE DEF q, w
<1>8. ASSUME NEW i \in DOMAIN down[k], down[k][i].t = "prompt", ~down[k][i].n
      PROVE  WillKnow(k, down[k][i].peer, FALSE)
  <2>1. Knows(k, down[k][i].peer, FALSE) /\ Says(k, down[k][i].peer, FALSE)
    BY <1>7, <1>8 DEF HostWired
  <2>2. CASE down[k][i].peer = q
    <3>1. w = FALSE
      BY <1>2, <2>1, <2>2 DEF Says
    <3> QED BY <1>6, <2>2, <3>1 DEF WillKnow
  <2>3. CASE down[k][i].peer # q
    BY <1>5, <2>1, <2>3
  <2> QED BY <2>2, <2>3
<1>9. ASSUME NEW g \in Guests, ~(guests[g].st = "in" /\ guests[g].room = k /\ guests[g].peer = q)
      PROVE  guests'[g].log = guests[g].log
  BY <1>9, HelloShows DEF q
<1>10. ASSUME NEW g \in Guests, guests[g].st = "in", guests[g].room = k, guests'[g].log >= 0
       PROVE  WillKnow(k, guests[g].peer, guests[g].writes)
  <2>1. CASE guests[g].peer = q
    <3>1. w = guests[g].writes
      BY <1>2, <1>10, <2>1 DEF Wired, GuestWired, Says
    <3> QED BY <1>6, <2>1, <3>1 DEF WillKnow
  <2>2. CASE guests[g].peer # q
    <3>1. Knows(k, guests[g].peer, guests[g].writes)
      BY <1>9, <1>10, <2>2 DEF Wired, GuestWired
    <3> QED BY <1>5, <2>2, <3>1
  <2> QED BY <2>1, <2>2
<1> QED BY <1>1, <1>3, <1>4, <1>8, <1>9, <1>10, WiredReads

\* A step that leaves the queues, the peers and the guests' seats alone.
LEMMA WiredSame ==
  ASSUME Core, Wired, UNCHANGED <<rooms, down>>, \A k \in Rooms : SameLink(k) /\ SamePeers(k),
         \A g \in Guests : VisitorStays(g)
  PROVE  Wired'
<1>1. \A r \in Rooms : QueueStays(r)
  BY SameQueue DEF SameLink
<1> QED BY <1>1, WiredStays

LEMMA WiredTalk ==
  ASSUME Core, Wired, Talk
  PROVE  Wired'
<1>1. ASSUME UNCHANGED <<rooms, down, guests>>, \A k \in Rooms : SameLink(k) /\ SamePeers(k) PROVE Wired'
  BY <1>1, WiredSame DEF VisitorStays, SameSpot
<1>2. ASSUME NEW a \in Asks, AskGuests(a) PROVE Wired'
  <2>1. UNCHANGED <<rooms, down>>
    BY <1>2 DEF AskGuests
  <2>2. \A k \in Rooms : SameLink(k) /\ SamePeers(k)
    BY <1>2, AskGuestsTyped DEF OthersSame, SameLink, SamePeers
  <2>3. ASSUME NEW g \in Guests PROVE VisitorStays(g)
    <3>1. SameSeat(guests'[g], guests[g])
      BY <1>2, AskGuestsTyped
    <3>2. guests'[g].log = guests[g].log
      BY <1>2, AskGuestsShows
    <3> QED BY <3>1, <3>2 DEF VisitorStays, SameSeat, SameSpot
  <2> QED BY <2>1, <2>2, <2>3, WiredSame
<1>3. ASSUME NEW a \in Asks, AskBrowsers(a) \/ BrowsersSettle(a) PROVE Wired'
  BY <1>1, <1>3 DEF AskBrowsers, BrowsersSettle, relayVars, SameLink, SamePeers
<1>4. CASE CollabStop
  <2>1. UNCHANGED <<rooms, down, guests>>
    BY <1>4 DEF CollabStop, relayVars
  <2> QED BY <1>1, <1>4, <2>1, CollabStopTyped
<1>5. CASE Appends
  <2>1. UNCHANGED <<rooms, down>>
    BY <1>5 DEF Appends
  <2>2. \A k \in Rooms : SameLink(k) /\ SamePeers(k)
    BY <1>5, AppendsTyped
  <2>3. ASSUME NEW g \in Guests PROVE VisitorStays(g)
    <3>1. SameSeat(guests'[g], guests[g])
      BY <1>5, AppendsTyped
    <3>2. log \in Nat /\ (guests'[g].log = guests[g].log \/ guests[g].log = log)
      BY <1>5, AppendsShows DEF Core, Typed
    <3> QED BY <3>1, <3>2 DEF VisitorStays, SameSeat, SameSpot
  <2> QED BY <2>1, <2>2, <2>3, WiredSame
<1>6. CASE Switches
  BY <1>1, <1>6 DEF Switches, relayVars, SameLink, SamePeers
<1>7. ASSUME NEW k \in Rooms, FindsSwitch(k) PROVE Wired'
  <2>1. UNCHANGED <<rooms, down, guests>>
    BY <1>7 DEF FindsSwitch, relayVars
  <2>2. \A j \in Rooms : SameLink(j) /\ SamePeers(j)
    BY <1>7, FindsSwitchTyped DEF OthersSame, SameLink, SamePeers
  <2> QED BY <1>1, <2>1, <2>2
<1> QED BY <1>2, <1>3, <1>4, <1>5, <1>6, <1>7, WiredHello, WiredAnswer, WiredPrompt, WiredPeerLeft
        DEF Talk, HostReads

\* Nothing is on its way to the host of room k after the step.
LEMMA WiredQuiets ==
  ASSUME Core, Wired, NEW k \in Rooms, OthersSame(k), down'[k] = <<>>, OtherQueuesSame(k),
         SamePeers(k) \/ ads'[k].peers = <<>>,
         \A r \in Rooms : r # k => SameSeats(r), \A g \in Guests : VisitorStays(g)
  PROVE  Wired'
<1>1. ASSUME NEW r \in Rooms, r # k PROVE QueueStays(r)
  BY <1>1 DEF QueueStays, OthersSame, OtherQueuesSame, SamePeers, SameSeats
<1>2. QueueStays(k)
  BY EmptyMap DEF QueueStays
<1> QED BY <1>1, <1>2, WiredStays

LEMMA EvictedStays ==
  ASSUME Core, NEW r \in Rooms, guests' = Evicted(r)
  PROVE  \A g \in Guests : VisitorStays(g)
<1>1. ASSUME NEW g \in Guests PROVE guests'[g].st = "in" => guests'[g] = guests[g]
  BY EvictedTyped DEF Core
<1> QED BY <1>1 DEF VisitorStays, SameSpot

LEMMA UnheardStays ==
  ASSUME Core, NEW k \in Rooms, guests' = Unheard(guests, k)
  PROVE  \A g \in Guests : VisitorStays(g)
<1>1. ASSUME NEW g \in Guests
      PROVE  /\ guests'[g].st = guests[g].st /\ guests'[g].room = guests[g].room
             /\ guests'[g].peer = guests[g].peer /\ guests'[g].writes = guests[g].writes
             /\ guests'[g].log = guests[g].log
  BY UnheardTyped DEF Core
<1> QED BY <1>1 DEF VisitorStays, SameSpot

\* The connection of adapter k was not up before the step.
LEMMA WiredWhileDown ==
  ASSUME Core, Wired, NEW k \in Rooms, ads[k].sock # "open", OthersSame(k),
         UNCHANGED <<down, guests>>, SamePeers(k) \/ ads'[k].peers = <<>>,
         \A r \in Rooms : r # k => SameSeats(r)
  PROVE  Wired'
<1>1. down'[k] = <<>> /\ OtherQueuesSame(k)
  BY Quiet DEF OtherQueuesSame
<1>2. \A g \in Guests : VisitorStays(g)
  BY DEF VisitorStays, SameSpot
<1> QED BY <1>1, <1>2, WiredQuiets

LEMMA WiredConnect ==
  ASSUME Core, Wired, Connect
  PROVE  Wired'
<1>1. ASSUME UNCHANGED <<down, guests, ads>>, \A r \in Rooms : SameSeats(r) PROVE Wired'
  <2>1. \A r \in Rooms : QueueStays(r)
    BY <1>1 DEF QueueStays, SamePeers, SameSeats
  <2> QED BY <1>1, <2>1, WiredStays DEF VisitorStays, SameSpot
<1>2. ASSUME NEW k \in Rooms, NEW d \in Dials, CollabStart(k, d) PROVE Wired'
  <2>1. ads[k].sock # "open" /\ UNCHANGED <<down, guests, rooms>>
    BY <1>2 DEF CollabStart, Core, Linked, Dialled, AdapterDialled
  <2>2. OthersSame(k) /\ ads'[k].peers = <<>>
    BY <1>2, CollabStartTyped
  <2> QED BY <2>1, <2>2, WiredWhileDown DEF SameSeats
<1>3. ASSUME NEW k \in Rooms, NEW d \in Dials, Redials(k, d) PROVE Wired'
  <2>1. ads[k].sock # "open" /\ UNCHANGED <<down, guests, rooms>>
    BY <1>3 DEF Redials
  <2>2. OthersSame(k) /\ SamePeers(k)
    BY <1>3, RedialsTyped
  <2> QED BY <2>1, <2>2, WiredWhileDown DEF SameSeats
<1>4. ASSUME NEW d \in Dials, HostOpens(d) PROVE Wired'
  <2>1. PICK r \in Rooms : r = dials[d].room
    BY <1>4, HostOpensTyped
  <2>2. \A q \in Rooms : SameSeats(q)
    BY <1>4, <2>1, HostOpensTyped DEF OtherRoomsSame, SameSeats
  <2>3. UNCHANGED <<down, guests>>
    BY <1>4 DEF HostOpens
  <2>4. CASE Caller(d) = 0
    <3>1. UNCHANGED ads
      BY <1>4, <2>4, HostOpensTyped
    <3> QED BY <1>1, <2>2, <2>3, <3>1
  <2>5. CASE Caller(d) # 0
    <3>1. PICK k \in Rooms : k = Caller(d)
      BY <1>4, <2>5, CallerIs DEF HostOpens
    <3>2. ads[k].sock # "open"
      BY <1>4, <2>5, <3>1, CallerIs DEF HostOpens
    <3>3. OthersSame(k) /\ SamePeers(k)
      BY <1>4, <2>5, <3>1, HostOpensTyped
    <3> QED BY <2>2, <2>3, <3>2, <3>3, WiredWhileDown
  <2> QED BY <2>4, <2>5
<1>5. ASSUME NEW d \in Dials, HostIsRefused(d) PROVE Wired'
  <2>1. UNCHANGED <<down, guests, rooms>>
    BY <1>5 DEF HostIsRefused
  <2>2. CASE Caller(d) = 0
    <3>1. UNCHANGED ads
      BY <1>5, <2>2, HostIsRefusedTyped
    <3> QED BY <1>1, <2>1, <3>1 DEF SameSeats
  <2>3. CASE Caller(d) # 0
    <3>1. PICK k \in Rooms : k = Caller(d)
      BY <1>5, <2>3, CallerIs DEF HostIsRefused
    <3>2. ads[k].sock # "open"
      BY <1>5, <2>3, <3>1, CallerIs DEF HostIsRefused
    <3>3. OthersSame(k) /\ ads'[k].peers = <<>>
      BY <1>5, <2>3, <3>1, HostIsRefusedTyped DEF Ended
    <3> QED BY <2>1, <3>2, <3>3, WiredWhileDown DEF SameSeats
  <2> QED BY <2>2, <2>3
<1>6. ASSUME NEW d \in Dials, HostCloses(d), UNCHANGED hostVars PROVE Wired'
  <2>1. PICK r \in Rooms : r = dials[d].room
    BY <1>6, HostClosesTyped
  <2>2. \A q \in Rooms : SameSeats(q)
    BY <1>6, <2>1, HostClosesTyped DEF OtherRoomsSame, SameSeats
  <2>3. UNCHANGED <<down, guests, ads>>
    BY <1>6 DEF HostCloses, hostVars
  <2> QED BY <1>1, <2>2, <2>3
<1>7. ASSUME NEW r \in Rooms, Expires(r), UNCHANGED hostVars PROVE Wired'
  <2>1. /\ OtherRoomsSame(r) /\ rooms[r].host = 0 /\ UNCHANGED <<down, ads>>
        /\ guests' = Evicted(r)
    BY <1>7, ExpiresTyped DEF hostVars
  <2>2. ads[r].sock # "open"
    <3>1. ads[r].sock = "open" => ads[r].dial \in Dials /\ rooms[r].host = ads[r].dial
      BY DialOf DEF Core, Linked, Held, RoomHeld
    <3> QED BY <2>1, <3>1, RoomsAreNumbers
  <2>3. down'[r] = <<>> /\ OtherQueuesSame(r)
    BY <2>1, <2>2, Quiet DEF OtherQueuesSame
  <2>4. \A g \in Guests : VisitorStays(g)
    BY <2>1, EvictedStays
  <2>5. OthersSame(r) /\ SamePeers(r) /\ \A q \in Rooms : q # r => SameSeats(q)
    BY <2>1 DEF OthersSame, SamePeers, OtherRoomsSame, SameSeats
  <2> QED BY <2>3, <2>4, <2>5, WiredQuiets
<1>8. ASSUME NEW k \in Rooms, DialUpgrades(k) \/ DialFails(k) PROVE Wired'
  <2>1. UNCHANGED <<down, guests, rooms>> /\ ads[k].sock # "open"
    BY <1>8 DEF DialUpgrades, DialFails
  <2>2. UNCHANGED ads \/ (OthersSame(k) /\ Faded(k))
    BY <1>8, DialUpgradesTyped, DialFailsTyped
  <2>3. OthersSame(k) /\ (SamePeers(k) \/ ads'[k].peers = <<>>)
    BY <2>2 DEF Faded, Ended, OthersSame, SamePeers
  <2> QED BY <2>1, <2>3, WiredWhileDown DEF SameSeats
<1>9. ASSUME NEW k \in Rooms, Breaks(k) PROVE Wired'
  <2>1. /\ OthersSame(k) /\ SamePeers(k) /\ down'[k] = <<>> /\ OtherQueuesSame(k)
        /\ guests' = Unheard(guests, k)
    BY <1>9, BreaksTyped DEF Faded, OtherQueuesSame
  <2>2. UNCHANGED rooms
    BY <1>9 DEF Breaks
  <2> QED BY <2>1, <2>2, UnheardStays, WiredQuiets DEF SameSeats
<1>10. ASSUME NEW k \in Rooms, NEW turn \in ads[k].turns, StopTurn(k, turn) PROVE Wired'
  <2>1. /\ OthersSame(k) /\ ads'[k].peers = <<>> /\ down'[k] = <<>> /\ OtherQueuesSame(k)
        /\ OtherRoomsSame(k)
        /\ guests' = Evicted(k) \/ guests' = Unheard(guests, k)
    BY <1>10, StopTurnTyped DEF Ended, OtherQueuesSame
  <2>2. \A g \in Guests : VisitorStays(g)
    BY <2>1, EvictedStays, UnheardStays
  <2> QED BY <2>1, <2>2, WiredQuiets DEF OtherRoomsSame, SameSeats
<1> QED BY <1>2, <1>3, <1>4, <1>5, <1>6, <1>7, <1>8, <1>9, <1>10 DEF Connect

LEMMA WiredVisit ==
  ASSUME Core, Wired, Visit
  PROVE  Wired'
<1>0. UNCHANGED hostVars
  BY DEF Visit
<1>1. ASSUME NEW g \in Guests, GuestLeaves(g) PROVE Wired'
  <2>1. UNCHANGED <<rooms, down>> /\ OtherGuestsSame(g) /\ guests'[g].st = "ending"
    BY <1>0, <1>1, GuestLeavesTyped
  <2>2. \A h \in Guests : VisitorStays(h)
    BY <2>1 DEF VisitorStays, SameSpot, OtherGuestsSame
  <2>3. \A k \in Rooms : SameLink(k) /\ SamePeers(k)
    BY <1>0 DEF hostVars, SameLink, SamePeers
  <2> QED BY <2>1, <2>2, <2>3, WiredSame
<1>2. ASSUME NEW g \in Guests, GuestActs(g) PROVE Wired'
  BY <1>0, <1>1, <1>2, WiredJoins, WiredSends, GuestDoes
<1> QED BY <1>0, <1>2, WiredGuestCloses DEF Visit

LEMMA WiredStep ==
  ASSUME Core, Wired, [Next]_vars
  PROVE  Wired'
<1>1. CASE UNCHANGED vars
  <2>1. UNCHANGED <<rooms, down, guests, ads>>
    BY <1>1 DEF vars, relayVars, hostVars
  <2> QED BY <2>1, WiredSame DEF SameLink, SamePeers, VisitorStays, SameSpot
<1> QED BY <1>1, StepIs, WiredTalk, WiredVisit, WiredConnect

-----------------------------------------------------------------------------
(* Only writers prompt.                                                    *)

LEMMA AstrayStep ==
  ASSUME Core, Wired, ~astray, [Next]_vars
  PROVE  ~astray'
<1>1. ASSUME NEW k \in Rooms, Prompt(k) PROVE ~astray'
  <2>1. /\ down[k] # <<>> /\ Head(down[k]).t = "prompt"
        /\ astray' = (astray \/ (Allowed(k) /\ ~Head(down[k]).n))
    BY <1>1 DEF Prompt, Reads
  <2>2. /\ 1 \in DOMAIN down[k] /\ Head(down[k]) = down[k][1] /\ Peer(k) = down[k][1].peer
        /\ Head(down[k]).n \in BOOLEAN
    BY <2>1, HeadTyped, Spoken DEF Core
  <2>3. ~Head(down[k]).n => Knows(k, Peer(k), FALSE)
    BY <2>1, <2>2 DEF Wired, HostWired
  <2>4. Allowed(k) => Head(down[k]).n
    BY <2>3 DEF Allowed, CanWrite, Knows
  <2> QED BY <2>1, <2>2, <2>4
<1>2. ASSUME UNCHANGED astray PROVE ~astray'
  BY <1>2
<1>3. CASE Talk
  BY <1>1, <1>2, <1>3 DEF Talk, HostReads, AskGuests, AskBrowsers, BrowsersSettle, CollabStop, Appends,
       Switches, FindsSwitch, Hello, Answer, PeerLeft
<1>4. CASE Visit
  BY <1>2, <1>4 DEF Visit, hostVars
<1>5. CASE Connect
  BY <1>2, <1>5 DEF Connect, CollabStart, Redials, HostOpens, HostIsRefused, DialUpgrades, DialFails,
       Breaks, StopTurn, hostVars
<1>6. CASE UNCHANGED vars
  BY <1>2, <1>6 DEF vars, hostVars
<1> QED BY <1>3, <1>4, <1>5, <1>6, StepIs
-----------------------------------------------------------------------------
(* What guests show.                                                       *)

LEMMA ShownNow ==
  ASSUME NEW g \in Guests, GuestShown(g), NEW r, r = guests[g].room, NEW p, p = guests[g].peer
  PROVE  /\ guests[g].heard =>
              /\ guests[g].st = "in" /\ ads[r].sock = "open" /\ guests[g].log >= 0
              /\ p \in DOMAIN ads[r].peers
              /\ tap = r /\ ads[r].session = session => guests[g].log = log
              /\ guests[g].writes => guests[g].dialogs = ads[r].pending
         /\ guests[g].st = "in" /\ guests[g].writes /\ ads[r].phase # "stopped" =>
              /\ guests[g].dialogs \subseteq ads[r].pending
              /\ guests[g].dialogs = {} \/ (p \in DOMAIN ads[r].peers /\ ads[r].peers[p])
BY DEF GuestShown, Current, CanWrite

LEMMA ShownNext ==
  ASSUME NEW g \in Guests, NEW r, guests'[g].room = r, NEW p, guests'[g].peer = p,
         guests'[g].heard =>
              /\ guests'[g].st = "in" /\ ads'[r].sock = "open" /\ guests'[g].log >= 0
              /\ p \in DOMAIN ads'[r].peers
              /\ tap' = r /\ ads'[r].session = session' => guests'[g].log = log'
              /\ guests'[g].writes => guests'[g].dialogs = ads'[r].pending,
         guests'[g].st = "in" /\ guests'[g].writes /\ ads'[r].phase # "stopped" =>
              /\ guests'[g].dialogs \subseteq ads'[r].pending
              /\ guests'[g].dialogs = {} \/ (p \in DOMAIN ads'[r].peers /\ ads'[r].peers[p])
  PROVE  GuestShown(g)'
<1>1. guests'[g].heard =>
        /\ guests'[g].st = "in" /\ ads'[guests'[g].room].sock = "open" /\ guests'[g].log >= 0
        /\ guests'[g].peer \in DOMAIN ads'[guests'[g].room].peers
        /\ tap' = guests'[g].room /\ ads'[guests'[g].room].session = session' => guests'[g].log = log'
        /\ guests'[g].writes => guests'[g].dialogs = ads'[guests'[g].room].pending
  OBVIOUS
<1>2. guests'[g].st = "in" /\ guests'[g].writes /\ ads'[guests'[g].room].phase # "stopped" =>
        /\ guests'[g].dialogs \subseteq ads'[guests'[g].room].pending
        /\ guests'[g].peer \notin CanWrite(guests[g].room)' => guests'[g].dialogs = {}
  BY DEF CanWrite
<1> QED BY <1>1, <1>2 DEF GuestShown, Current

\* A guest that has just come, or is on its way out.
LEMMA ShownAfresh ==
  ASSUME NEW g \in Guests, ~guests'[g].heard, guests'[g].st # "in" \/ guests'[g].dialogs = {}
  PROVE  GuestShown(g)'
BY ShownNext

\* The host of room r knows of p what it knew.
KnowsAlike(r, p) ==
  /\ p \in DOMAIN ads'[r].peers <=> p \in DOMAIN ads[r].peers
  /\ p \in DOMAIN ads[r].peers => ads'[r].peers[p] = ads[r].peers[p]

\* The host of room r asks what it asked, and knows of p what it knew, or it has
\* stopped, or had not asked anything.
AsksAlike(r, p) ==
  ads'[r].phase # "stopped" =>
    /\ ads[r].phase # "stopped"
    /\ ads[r].pending = {} \/ (KnowsAlike(r, p) /\ SamePending(r))

SameView(g) ==
  /\ SameSpot(g) /\ guests'[g].writes = guests[g].writes
  /\ guests'[g].log = guests[g].log /\ guests'[g].dialogs = guests[g].dialogs
  /\ guests'[g].heard => guests[g].heard

LEMMA ShownStays ==
  ASSUME NEW g \in Guests, GuestShown(g), SameView(g),
         NEW r, r = guests[g].room, NEW p, p = guests[g].peer,
         guests'[g].heard =>
           /\ ads'[r].sock = ads[r].sock /\ KnowsAlike(r, p) /\ SamePending(r) /\ log' = log
           /\ tap' = r /\ ads'[r].session = session' => tap = r /\ ads[r].session = session,
         guests[g].st = "in" => AsksAlike(r, p)
  PROVE  GuestShown(g)'
<1>1. guests'[g].room = r /\ guests'[g].peer = p /\ guests'[g].st = guests[g].st
  BY DEF SameView, SameSpot
<1>2. guests'[g].heard =>
              /\ guests'[g].st = "in" /\ ads'[r].sock = "open" /\ guests'[g].log >= 0
              /\ p \in DOMAIN ads'[r].peers
              /\ tap' = r /\ ads'[r].session = session' => guests'[g].log = log'
              /\ guests'[g].writes => guests'[g].dialogs = ads'[r].pending
  BY <1>1, ShownNow DEF SameView, KnowsAlike, SamePending
<1>3. guests'[g].st = "in" /\ guests'[g].writes /\ ads'[r].phase # "stopped" =>
              /\ guests'[g].dialogs \subseteq ads'[r].pending
              /\ guests'[g].dialogs = {} \/ (p \in DOMAIN ads'[r].peers /\ ads'[r].peers[p])
  <2>1. SUFFICES ASSUME guests'[g].st = "in", guests'[g].writes, ads'[r].phase # "stopped"
                 PROVE  /\ guests'[g].dialogs \subseteq ads'[r].pending
                        /\ guests'[g].dialogs = {} \/ (p \in DOMAIN ads'[r].peers /\ ads'[r].peers[p])
    OBVIOUS
  <2>2. /\ guests[g].st = "in" /\ guests[g].writes /\ ads[r].phase # "stopped"
        /\ ads[r].pending = {} \/ (KnowsAlike(r, p) /\ SamePending(r))
        /\ guests'[g].dialogs = guests[g].dialogs
    BY <1>1, <2>1 DEF AsksAlike, SameView
  <2>3. /\ guests[g].dialogs \subseteq ads[r].pending
        /\ guests[g].dialogs = {} \/ (p \in DOMAIN ads[r].peers /\ ads[r].peers[p])
    BY <2>2, ShownNow
  <2> QED BY <2>2, <2>3 DEF KnowsAlike, SamePending
<1> QED BY <1>1, <1>2, <1>3, ShownNext

LEMMA AdapterAlike ==
  ASSUME NEW r, ads'[r] = ads[r]
  PROVE  \A p : KnowsAlike(r, p) /\ SamePending(r) /\ AsksAlike(r, p)
BY DEF KnowsAlike, SamePending, AsksAlike

\* What a step says of one guest and its room, where it leaves both alone.
LEMMA ShownSame ==
  ASSUME Core, Shown, UNCHANGED <<session, log>>,
         \A r \in Rooms : (ads'[r].session = session /\ tap' = r) => tap = r,
         \A r \in Rooms : SameLink(r) /\ SamePeers(r) /\ SamePending(r) /\ SameSession(r),
         \A g \in Guests : SameView(g)
  PROVE  Shown'
<1>1. ASSUME NEW g \in Guests PROVE GuestShown(g)'
  <2>1. PICK r, p : r = guests[g].room /\ p = guests[g].peer
    OBVIOUS
  <2>2. GuestShown(g) /\ SameView(g)
    BY <1>1 DEF Shown
  <2>3. CASE guests[g].st = "in"
    <3>1. r \in Rooms
      BY <2>1, <2>3 DEF Core, Typed
    <3>2. /\ ads'[r].sock = ads[r].sock /\ KnowsAlike(r, p) /\ SamePending(r)
          /\ tap' = r /\ ads'[r].session = session' => tap = r /\ ads[r].session = session
          /\ AsksAlike(r, p)
      BY <3>1 DEF SameLink, SamePeers, SamePending, SameSession, KnowsAlike, AsksAlike
    <3> QED BY <2>1, <2>2, <3>2, ShownStays
  <2>4. CASE guests[g].st # "in"
    <3>1. ~guests'[g].heard /\ guests'[g].st # "in"
      BY <2>1, <2>2, <2>4, ShownNow DEF SameView, SameSpot
    <3> QED BY <3>1, ShownAfresh
  <2> QED BY <2>3, <2>4
<1> QED BY <1>1 DEF Shown

LEMMA ShownAskGuests ==
  ASSUME Core, Wired, Shown, NEW a \in Asks, AskGuests(a)
  PROVE  Shown'
<1> DEFINE n == reqs + 1
<1>0. PICK k \in Rooms : k = slot
  BY AskGuestsTyped
<1>1. /\ IsLive(k) /\ OthersSame(k) /\ SameLink(k) /\ SamePeers(k) /\ SameSession(k)
      /\ ads'[k].pending = ads[k].pending \cup {n}
      /\ \A g \in Guests : SameSeat(guests'[g], guests[g])
  BY <1>0, AskGuestsTyped
<1>2. UNCHANGED <<down, tap, session, log>>
  BY DEF AskGuests
<1>3. ASSUME NEW g \in Guests
      PROVE  /\ guests'[g].log = guests[g].log
             /\ guests'[g].dialogs = IF Reached(guests, k, g) /\ guests[g].peer \in CanWrite(k)
                                     THEN guests[g].dialogs \cup {n} ELSE guests[g].dialogs
  BY <1>0, AskGuestsShows
<1> HIDE DEF n
<1>4. ASSUME NEW g \in Guests PROVE GuestShown(g)'
  <2>1. PICK r, p : r = guests[g].room /\ p = guests[g].peer
    OBVIOUS
  <2>2. /\ GuestShown(g) /\ SameSpot(g) /\ guests'[g].writes = guests[g].writes
        /\ guests'[g].heard = guests[g].heard /\ guests'[g].log = guests[g].log
    BY <1>1, <1>3 DEF Shown, SameSeat, SameSpot
  <2>3. CASE guests[g].st # "in"
    <3>1. ~guests'[g].heard /\ guests'[g].st # "in"
      BY <2>1, <2>2, <2>3, ShownNow DEF SameSpot
    <3> QED BY <3>1, ShownAfresh
  <2>4. CASE guests[g].st = "in" /\ r # k
    <3>1. r \in Rooms
      BY <2>1, <2>4 DEF Core, Typed
    <3>2. guests'[g].dialogs = guests[g].dialogs
      BY <1>3, <2>1, <2>4, ReachedIs
    <3>3. ads'[r] = ads[r]
      BY <1>1, <2>4, <3>1 DEF OthersSame
    <3> QED BY <1>2, <2>1, <2>2, <3>2, <3>3, ShownStays, AdapterAlike DEF SameView
  <2>5. CASE guests[g].st = "in" /\ r = k
    <3>1. /\ guests'[g].dialogs = IF ads[k].sock = "open" /\ p \in CanWrite(k)
                                  THEN guests[g].dialogs \cup {n} ELSE guests[g].dialogs
      BY <1>1, <1>3, <2>1, <2>5, ReachedIs
    <3>2. /\ guests[g].heard =>
              /\ ads[k].sock = "open" /\ guests[g].log >= 0
              /\ p \in DOMAIN ads[k].peers
              /\ tap = k /\ ads[k].session = session => guests[g].log = log
              /\ guests[g].writes => guests[g].dialogs = ads[k].pending
          /\ guests[g].writes /\ ads[k].phase # "stopped" =>
              /\ guests[g].dialogs \subseteq ads[k].pending
              /\ guests[g].dialogs = {} \/ (p \in DOMAIN ads[k].peers /\ ads[k].peers[p])
      <4>1. k = guests[g].room /\ p = guests[g].peer /\ guests[g].st = "in" /\ GuestShown(g)
        BY <2>1, <2>2, <2>5
      <4> QED BY <4>1, ShownNow
    <3>3. guests[g].log >= 0 => Knows(k, p, guests[g].writes)
      BY <2>1, <2>5 DEF Wired, GuestWired
    <3>4. guests[g].heard /\ guests[g].writes => p \in CanWrite(k)
      BY <3>2, <3>3 DEF Knows, CanWrite
    <3>5. ads'[k].phase = ads[k].phase
      BY <1>1 DEF SameLink
    <3>6. ads'[k].peers = ads[k].peers /\ ads'[k].sock = ads[k].sock /\ ads'[k].session = ads[k].session
      BY <1>1 DEF SamePeers, SameLink, SameSession
    <3>7. guests'[g].heard =>
              /\ guests'[g].st = "in" /\ ads'[k].sock = "open" /\ guests'[g].log >= 0
              /\ p \in DOMAIN ads'[k].peers
              /\ tap' = k /\ ads'[k].session = session' => guests'[g].log = log'
      BY <1>2, <2>2, <2>5, <3>2, <3>6 DEF SameSpot
    <3>8. guests'[g].heard => (guests'[g].writes => guests'[g].dialogs = ads'[k].pending)
      BY <1>1, <2>2, <3>1, <3>2, <3>4
    <3>9. guests'[g].st = "in" /\ guests'[g].writes /\ ads'[k].phase # "stopped" =>
              /\ guests'[g].dialogs \subseteq ads'[k].pending
              /\ guests'[g].dialogs = {} \/ (p \in DOMAIN ads'[k].peers /\ ads'[k].peers[p])
      BY <1>1, <2>2, <2>5, <3>1, <3>2, <3>5, <3>6 DEF CanWrite, SameSpot
    <3> QED BY <2>1, <2>2, <2>5, <3>7, <3>8, <3>9, ShownNext DEF SameSpot
  <2> QED BY <2>3, <2>4, <2>5
<1> QED BY <1>4 DEF Shown

LEMMA ShownAnswer ==
  ASSUME Core, Wired, Shown, NEW k \in Rooms, Answer(k)
  PROVE  Shown'
<1> DEFINE n == Head(down[k]).n
<1>1. /\ OthersSame(k) /\ SameLink(k) /\ SamePeers(k) /\ SameSession(k)
      /\ \A g \in Guests : SameSeat(guests'[g], guests[g])
  BY AnswerTyped
<1>2. UNCHANGED <<tap, session, log>> /\ IsLive(k) /\ ads[k].sock = "open"
  BY DEF Answer, Reads, Connected
<1>3. \/ SamePending(k) /\ UNCHANGED guests
      \/ /\ ads'[k].pending = ads[k].pending \ {n}
         /\ \A g \in Guests :
              /\ guests'[g].log = guests[g].log
              /\ guests'[g].dialogs = IF Reached(guests, k, g) /\ guests[g].peer \in CanWrite(k)
                                      THEN guests[g].dialogs \ {n} ELSE guests[g].dialogs
  BY AnswerShows
<1> HIDE DEF n
<1>4. CASE SamePending(k) /\ UNCHANGED guests
  <2>1. \A r \in Rooms : SameLink(r) /\ SamePeers(r) /\ SamePending(r) /\ SameSession(r)
    BY <1>1, <1>4 DEF OthersSame, SameLink, SamePeers, SamePending, SameSession
  <2>2. \A g \in Guests : SameView(g)
    BY <1>4 DEF SameView, SameSpot
  <2> QED BY <1>2, <2>1, <2>2, ShownSame
<1>5. ASSUME ads'[k].pending = ads[k].pending \ {n}, NEW g \in Guests,
             guests'[g].log = guests[g].log,
             guests'[g].dialogs = IF Reached(guests, k, g) /\ guests[g].peer \in CanWrite(k)
                                  THEN guests[g].dialogs \ {n} ELSE guests[g].dialogs
      PROVE  GuestShown(g)'
  <2>1. PICK r, p : r = guests[g].room /\ p = guests[g].peer
    OBVIOUS
  <2>2. /\ GuestShown(g) /\ SameSpot(g) /\ guests'[g].writes = guests[g].writes
        /\ guests'[g].heard = guests[g].heard
    BY <1>1 DEF Shown, SameSeat, SameSpot
  <2>3. CASE guests[g].st # "in"
    <3>1. ~guests'[g].heard /\ guests'[g].st # "in"
      BY <2>1, <2>2, <2>3, ShownNow DEF SameSpot
    <3> QED BY <3>1, ShownAfresh
  <2>4. CASE guests[g].st = "in" /\ r # k
    <3>1. r \in Rooms
      BY <2>1, <2>4 DEF Core, Typed
    <3>2. guests'[g].dialogs = guests[g].dialogs
      BY <1>5, <2>1, <2>4, ReachedIs
    <3>3. ads'[r] = ads[r]
      BY <1>1, <2>4, <3>1 DEF OthersSame
    <3> QED BY <1>2, <1>5, <2>1, <2>2, <3>2, <3>3, ShownStays, AdapterAlike DEF SameView
  <2>5. CASE guests[g].st = "in" /\ r = k
    <3>1. /\ guests'[g].dialogs = IF p \in CanWrite(k) THEN guests[g].dialogs \ {n} ELSE guests[g].dialogs
      BY <1>2, <1>5, <2>1, <2>5, ReachedIs
    <3>2. /\ guests[g].heard =>
              /\ guests[g].log >= 0
              /\ p \in DOMAIN ads[k].peers
              /\ tap = k /\ ads[k].session = session => guests[g].log = log
              /\ guests[g].writes => guests[g].dialogs = ads[k].pending
          /\ guests[g].writes /\ ads[k].phase # "stopped" =>
              /\ guests[g].dialogs \subseteq ads[k].pending
              /\ guests[g].dialogs = {} \/ (p \in DOMAIN ads[k].peers /\ ads[k].peers[p])
      <4>1. k = guests[g].room /\ p = guests[g].peer /\ guests[g].st = "in" /\ GuestShown(g)
        BY <2>1, <2>2, <2>5
      <4> QED BY <4>1, ShownNow
    <3>3. guests[g].log >= 0 => Knows(k, p, guests[g].writes)
      BY <2>1, <2>5 DEF Wired, GuestWired
    <3>4. guests[g].heard /\ guests[g].writes => p \in CanWrite(k)
      BY <3>2, <3>3 DEF Knows, CanWrite
    <3>5. ads'[k].phase = ads[k].phase
      BY <1>1 DEF SameLink
    <3>6. ads'[k].peers = ads[k].peers /\ ads'[k].sock = ads[k].sock /\ ads'[k].session = ads[k].session
      BY <1>1 DEF SamePeers, SameLink, SameSession
    <3>7. guests'[g].heard =>
              /\ guests'[g].st = "in" /\ ads'[k].sock = "open" /\ guests'[g].log >= 0
              /\ p \in DOMAIN ads'[k].peers
              /\ tap' = k /\ ads'[k].session = session' => guests'[g].log = log'
      BY <1>2, <1>5, <2>2, <2>5, <3>2, <3>6 DEF SameSpot
    <3>8. guests'[g].heard => (guests'[g].writes => guests'[g].dialogs = ads'[k].pending)
      BY <1>5, <2>2, <3>1, <3>2, <3>4
    <3>9. guests'[g].st = "in" /\ guests'[g].writes /\ ads'[k].phase # "stopped" =>
              /\ guests'[g].dialogs \subseteq ads'[k].pending
              /\ guests'[g].dialogs = {} \/ (p \in DOMAIN ads'[k].peers /\ ads'[k].peers[p])
      <4>1. CASE p \in CanWrite(k)
        BY <1>5, <2>2, <2>5, <3>1, <3>2, <3>5, <3>6, <4>1 DEF CanWrite, SameSpot
      <4>2. CASE p \notin CanWrite(k)
        BY <2>2, <2>5, <3>1, <3>2, <3>5, <4>2 DEF CanWrite, SameSpot
      <4> QED BY <4>1, <4>2
    <3> QED BY <2>1, <2>2, <2>5, <3>7, <3>8, <3>9, ShownNext DEF SameSpot
  <2> QED BY <2>3, <2>4, <2>5
<1> QED BY <1>3, <1>4, <1>5 DEF Shown

LEMMA ShownAppends ==
  ASSUME Core, Wired, Shown, Appends
  PROVE  Shown'
<1>1. /\ log' = log + 1 /\ log \in Nat
      /\ \A k \in Rooms : SameLink(k) /\ SamePeers(k) /\ SamePending(k) /\ SameSession(k)
      /\ \A g \in Guests : SameSeat(guests'[g], guests[g])
  BY AppendsTyped DEF Core, Typed
<1>2. UNCHANGED <<tap, session>>
  BY DEF Appends
<1>3. ASSUME NEW g \in Guests PROVE GuestShown(g)'
  <2>1. PICK r, p : r = guests[g].room /\ p = guests[g].peer
    OBVIOUS
  <2>2. /\ GuestShown(g) /\ SameSpot(g) /\ guests'[g].writes = guests[g].writes
        /\ guests'[g].heard = guests[g].heard
    BY <1>1, <1>3 DEF Shown, SameSeat, SameSpot
  <2>3. CASE guests[g].st # "in"
    <3>1. ~guests'[g].heard /\ guests'[g].st # "in"
      BY <2>1, <2>2, <2>3, ShownNow DEF SameSpot
    <3> QED BY <3>1, ShownAfresh
  <2>4. CASE guests[g].st = "in"
    <3>1. r \in Rooms
      BY <2>1, <2>4 DEF Core, Typed
    <3>2. /\ guests'[g].dialogs = guests[g].dialogs
          /\ \/ guests'[g].log = guests[g].log
             \/ guests'[g].log = log + 1 /\ guests[g].log = log
          /\ (tap \in Rooms /\ Current(tap) /\ Reached(guests, tap, g) /\ guests[g].log = log)
               => guests'[g].log = log + 1
      BY AppendsShows
    <3>3. /\ ads'[r].peers = ads[r].peers /\ ads'[r].sock = ads[r].sock /\ ads'[r].session = ads[r].session
          /\ ads'[r].pending = ads[r].pending /\ ads'[r].phase = ads[r].phase
      BY <1>1, <3>1 DEF SamePeers, SameLink, SameSession, SamePending
    <3>4. /\ guests[g].heard =>
              /\ ads[r].sock = "open" /\ guests[g].log >= 0
              /\ p \in DOMAIN ads[r].peers
              /\ tap = r /\ ads[r].session = session => guests[g].log = log
              /\ guests[g].writes => guests[g].dialogs = ads[r].pending
          /\ guests[g].writes /\ ads[r].phase # "stopped" =>
              /\ guests[g].dialogs \subseteq ads[r].pending
              /\ guests[g].dialogs = {} \/ (p \in DOMAIN ads[r].peers /\ ads[r].peers[p])
      BY <2>1, <2>2, <2>4, ShownNow
    <3>5. guests[g].heard /\ tap = r => Reached(guests, tap, g)
      <4>1. ads[r].sock = "open" => IsLive(r)
        BY <3>1, RoomsAreNumbers DEF Core, Linked, Dialled, AdapterDialled, IsLive
      <4> QED BY <2>1, <2>4, <3>1, <3>4, <4>1, ReachedIs
    <3>6. guests'[g].heard =>
              /\ guests'[g].st = "in" /\ ads'[r].sock = "open" /\ guests'[g].log >= 0
              /\ p \in DOMAIN ads'[r].peers
      BY <1>1, <2>2, <2>4, <3>2, <3>3, <3>4 DEF SameSpot
    <3>7. guests'[g].heard => (tap' = r /\ ads'[r].session = session' => guests'[g].log = log')
      BY <1>1, <1>2, <2>2, <3>1, <3>2, <3>3, <3>4, <3>5 DEF Current
    <3>8. guests'[g].heard => (guests'[g].writes => guests'[g].dialogs = ads'[r].pending)
      BY <2>2, <3>2, <3>3, <3>4
    <3>9. guests'[g].st = "in" /\ guests'[g].writes /\ ads'[r].phase # "stopped" =>
              /\ guests'[g].dialogs \subseteq ads'[r].pending
              /\ guests'[g].dialogs = {} \/ (p \in DOMAIN ads'[r].peers /\ ads'[r].peers[p])
      BY <2>2, <2>4, <3>2, <3>3, <3>4 DEF SameSpot
    <3> QED BY <2>1, <2>2, <3>6, <3>7, <3>8, <3>9, ShownNext DEF SameSpot
  <2> QED BY <2>3, <2>4
<1> QED BY <1>3 DEF Shown

\* Who has left is nobody in the room.
LEMMA ShownPeerLeft ==
  ASSUME Core, Wired, Shown, NEW k \in Rooms, PeerLeft(k)
  PROVE  Shown'
<1> DEFINE q == Peer(k)
<1>1. /\ OthersSame(k) /\ SameLink(k) /\ SamePending(k) /\ SameSession(k)
      /\ ads'[k].peers = Restrict(ads[k].peers, DOMAIN ads[k].peers \ {q})
  BY PeerLeftTyped
<1>2. UNCHANGED <<guests, tap, session, log>>
  BY DEF PeerLeft
<1>3. q \notin DOMAIN rooms[k].guests
  <2>1. down[k] # <<>> /\ Head(down[k]).t = "left"
    BY DEF PeerLeft, Reads
  <2>2. 1 \in DOMAIN down[k] /\ down[k][1].t = "left" /\ down[k][1].peer = q
    BY <2>1, HeadTyped DEF Core
  <2> QED BY <2>2 DEF Wired, HostWired
<1> HIDE DEF q
<1>4. ASSUME NEW g \in Guests PROVE GuestShown(g)'
  <2>1. PICK r, p : r = guests[g].room /\ p = guests[g].peer
    OBVIOUS
  <2>2. GuestShown(g) /\ SameView(g)
    BY <1>2 DEF Shown, SameView, SameSpot
  <2>3. CASE guests[g].st # "in"
    <3>1. ~guests'[g].heard /\ guests'[g].st # "in"
      BY <2>1, <2>2, <2>3, ShownNow DEF SameView, SameSpot
    <3> QED BY <3>1, ShownAfresh
  <2>4. CASE guests[g].st = "in"
    <3>1. r \in Rooms /\ p \in DOMAIN rooms[r].guests
      BY <2>1, <2>4 DEF Core, Typed, Seated, GuestSeated
    <3>2. KnowsAlike(r, p)
      <4>1. CASE r = k
        <5>1. p # q
          BY <1>3, <3>1, <4>1
        <5> QED BY <1>1, <4>1, <5>1 DEF KnowsAlike, Restrict
      <4>2. CASE r # k
        BY <1>1, <3>1, <4>2 DEF KnowsAlike, OthersSame
      <4> QED BY <4>1, <4>2
    <3>3. /\ ads'[r].sock = ads[r].sock /\ SamePending(r) /\ ads'[r].session = ads[r].session
          /\ ads'[r].phase = ads[r].phase
      <4>1. CASE r = k
        BY <1>1, <4>1 DEF SameLink, SameSession
      <4>2. CASE r # k
        BY <1>1, <3>1, <4>2 DEF OthersSame, SamePending
      <4> QED BY <4>1, <4>2
    <3> QED BY <1>2, <2>1, <2>2, <3>1, <3>2, <3>3, ShownStays DEF AsksAlike
  <2> QED BY <2>3, <2>4
<1> QED BY <1>4 DEF Shown

LEMMA ShownHello ==
  ASSUME Core, Wired, Shown, NEW k \in Rooms, Hello(k)
  PROVE  Shown'
<1> DEFINE q == Peer(k)
           w == Head(down[k]).n
<1>1. /\ OthersSame(k) /\ SameLink(k) /\ SamePending(k) /\ SameSession(k) /\ w \in BOOLEAN
      /\ \A g \in Guests : SameSeat(guests'[g], Heard(k)[g])
  BY HelloTyped
<1>2. /\ UNCHANGED <<tap, session, log>> /\ ads[k].sock = "open" /\ log \in Nat
      /\ down[k] # <<>> /\ Head(down[k]).t = "hello" /\ ads[k].phase = "live"
  BY DEF Hello, Reads, Connected, IsLive, Core, Typed
<1>3. 1 \in DOMAIN down[k] /\ down[k][1].t = "hello" /\ down[k][1].peer = q /\ down[k][1].n = w
  BY <1>2, HeadTyped DEF Core
<1>4. \A g \in Guests : SameSpot(g) /\ guests'[g].writes = guests[g].writes
  BY <1>1, HeardTyped DEF SameSeat, SameSpot, Core
<1>5. /\ ads'[k].peers[q] = w /\ DOMAIN ads'[k].peers = DOMAIN ads[k].peers \cup {q}
      /\ \A p \in DOMAIN ads[k].peers : p # q => ads'[k].peers[p] = ads[k].peers[p]
  BY HelloKnows
<1>6. ASSUME NEW g \in Guests
      PROVE  IF guests[g].st = "in" /\ guests[g].room = k /\ guests[g].peer = q
             THEN /\ guests'[g].log = log /\ guests'[g].heard
                  /\ guests'[g].dialogs = guests[g].dialogs \cup (IF w THEN ads[k].pending ELSE {})
             ELSE /\ guests'[g].log = guests[g].log /\ guests'[g].dialogs = guests[g].dialogs
                  /\ guests'[g].heard = guests[g].heard
  BY HelloShows
<1> HIDE DEF q, w
<1>7. ASSUME NEW g \in Guests PROVE GuestShown(g)'
  <2>1. PICK r, p : r = guests[g].room /\ p = guests[g].peer
    OBVIOUS
  <2>2. GuestShown(g) /\ SameSpot(g) /\ guests'[g].writes = guests[g].writes
    BY <1>4 DEF Shown
  <2>3. CASE guests[g].st # "in"
    <3>1. ~guests'[g].heard /\ guests'[g].st # "in"
      BY <1>6, <2>1, <2>2, <2>3, ShownNow DEF SameSpot
    <3> QED BY <3>1, ShownAfresh
  <2>4. CASE guests[g].st = "in" /\ ~(r = k /\ p = q)
    <3>1. r \in Rooms
      BY <2>1, <2>4 DEF Core, Typed
    <3>2. KnowsAlike(r, p)
      <4>1. CASE r = k
        BY <1>5, <2>4, <4>1 DEF KnowsAlike
      <4>2. CASE r # k
        BY <1>1, <3>1, <4>2 DEF KnowsAlike, OthersSame
      <4> QED BY <4>1, <4>2
    <3>3. /\ ads'[r].sock = ads[r].sock /\ SamePending(r) /\ ads'[r].session = ads[r].session
          /\ ads'[r].phase = ads[r].phase
      <4>1. CASE r = k
        BY <1>1, <4>1 DEF SameLink, SameSession
      <4>2. CASE r # k
        BY <1>1, <3>1, <4>2 DEF OthersSame, SamePending
      <4> QED BY <4>1, <4>2
    <3>4. SameView(g)
      BY <1>6, <2>1, <2>2, <2>4 DEF SameView
    <3> QED BY <1>2, <2>1, <2>2, <3>1, <3>2, <3>3, <3>4, ShownStays DEF AsksAlike
  <2>5. CASE guests[g].st = "in" /\ r = k /\ p = q
    <3>1. k = guests[g].room /\ q = guests[g].peer /\ GuestShown(g)
      BY <2>1, <2>2, <2>5
    <3>2. guests[g].writes = w
      BY <1>3, <2>5, <3>1 DEF Wired, GuestWired, Says
    <3>3. w => guests[g].dialogs \subseteq ads[k].pending
      BY <1>2, <2>5, <3>1, <3>2, ShownNow
    <3>4. /\ guests'[g].log = log /\ guests'[g].heard
          /\ guests'[g].dialogs = guests[g].dialogs \cup (IF w THEN ads[k].pending ELSE {})
      BY <1>6, <2>5, <3>1
    <3>5. guests'[g].room = k /\ guests'[g].peer = q /\ guests'[g].st = "in"
      BY <2>2, <2>5, <3>1 DEF SameSpot
    <3>6. /\ ads'[k].sock = "open" /\ guests'[g].log >= 0 /\ q \in DOMAIN ads'[k].peers
          /\ ads'[k].pending = ads[k].pending
      BY <1>1, <1>2, <1>5, <3>4 DEF SameLink, SamePending
    <3>7. guests'[g].writes =>
            guests'[g].dialogs = ads'[k].pending /\ ads'[k].peers[q]
      BY <1>5, <2>2, <3>2, <3>3, <3>4, <3>6
    <3> QED BY <1>2, <3>4, <3>5, <3>6, <3>7, ShownNext
  <2> QED BY <2>1, <2>3, <2>4, <2>5
<1> QED BY <1>7 DEF Shown

LEMMA ShownSwitches ==
  ASSUME Core, Shown, Switches
  PROVE  Shown'
<1>1. session' = session + 1 /\ UNCHANGED <<rooms, dials, guests, down, ads, tap, log>>
  BY DEF Switches, relayVars
<1>2. ASSUME NEW g \in Guests PROVE GuestShown(g)'
  <2>1. PICK r, p : r = guests[g].room /\ p = guests[g].peer
    OBVIOUS
  <2>2. GuestShown(g) /\ SameView(g)
    BY <1>1, <1>2 DEF Shown, SameView, SameSpot
  <2>3. CASE guests[g].st # "in"
    <3>1. ~guests'[g].heard /\ guests'[g].st # "in"
      BY <2>1, <2>2, <2>3, ShownNow DEF SameView, SameSpot
    <3> QED BY <3>1, ShownAfresh
  <2>4. CASE guests[g].st = "in"
    <3>1. r \in Rooms
      BY <2>1, <2>4 DEF Core, Typed
    <3>2. ads[r].session <= session /\ ads[r].session \in Nat /\ session \in Nat
      BY <3>1 DEF Core, Typed, AdapterStates, Tasked, AdapterTasked
    <3>3. ads'[r].session # session'
      BY <1>1, <3>2
    <3> QED BY <1>1, <2>1, <2>2, <3>3, ShownStays, AdapterAlike
  <2> QED BY <2>3, <2>4
<1> QED BY <1>2 DEF Shown

\* Nothing that guests show or that they show it of changes.
LEMMA ShownIdle ==
  ASSUME Core, Shown, UNCHANGED <<guests, tap, session, log>>,
         \A r \in Rooms : SameLink(r) /\ SamePeers(r) /\ SamePending(r) /\ SameSession(r)
  PROVE  Shown'
<1>1. \A g \in Guests : SameView(g)
  BY DEF SameView, SameSpot
<1> QED BY <1>1, ShownSame

LEMMA ShownTalk ==
  ASSUME Core, Wired, Shown, Talk
  PROVE  Shown'
<1>1. ASSUME NEW a \in Asks, AskBrowsers(a) \/ BrowsersSettle(a) PROVE Shown'
  BY <1>1, ShownIdle
  DEF AskBrowsers, BrowsersSettle, relayVars, SameLink, SamePeers, SamePending, SameSession
<1>2. CASE CollabStop
  <2>1. UNCHANGED <<guests, tap, session, log>>
    BY <1>2 DEF CollabStop, relayVars
  <2> QED BY <1>2, <2>1, CollabStopTyped, ShownIdle
<1>3. ASSUME NEW k \in Rooms, FindsSwitch(k) PROVE Shown'
  <2>1. UNCHANGED <<guests, tap, session, log>>
    BY <1>3 DEF FindsSwitch, relayVars
  <2>2. \A r \in Rooms : SameLink(r) /\ SamePeers(r) /\ SamePending(r) /\ SameSession(r)
    BY <1>3, FindsSwitchTyped DEF OthersSame, SameLink, SamePeers, SamePending, SameSession
  <2> QED BY <2>1, <2>2, ShownIdle
<1>4. ASSUME NEW k \in Rooms, Prompt(k) PROVE Shown'
  BY <1>4, ShownIdle DEF Prompt, SameLink, SamePeers, SamePending, SameSession
<1> QED BY <1>1, <1>2, <1>3, <1>4, ShownAskGuests, ShownAnswer, ShownAppends, ShownPeerLeft, ShownHello,
        ShownSwitches DEF Talk, HostReads

\* What a guest does is nothing to what the others show.
LEMMA ShownVisits ==
  ASSUME Core, Shown, UNCHANGED hostVars,
         \A g \in Guests :
           SameView(g) \/ (~guests'[g].heard /\ (guests'[g].st # "in" \/ guests'[g].dialogs = {}))
  PROVE  Shown'
<1>1. UNCHANGED <<ads, tap, session, log>>
  BY DEF hostVars
<1>2. ASSUME NEW g \in Guests PROVE GuestShown(g)'
  <2>1. PICK r, p : r = guests[g].room /\ p = guests[g].peer
    OBVIOUS
  <2>2. CASE SameView(g)
    <3>1. GuestShown(g)
      BY DEF Shown
    <3> QED BY <1>1, <2>1, <2>2, <3>1, ShownStays, AdapterAlike
  <2>3. CASE ~guests'[g].heard /\ (guests'[g].st # "in" \/ guests'[g].dialogs = {})
    BY <2>3, ShownAfresh
  <2> QED BY <2>2, <2>3
<1> QED BY <1>2 DEF Shown

LEMMA ShownVisit ==
  ASSUME Core, Shown, Visit
  PROVE  Shown'
<1>0. UNCHANGED hostVars
  BY DEF Visit
<1>1. ASSUME NEW g \in Guests, OtherGuestsSame(g), ~guests'[g].heard,
             guests'[g].st # "in" \/ guests'[g].dialogs = {}
      PROVE  Shown'
  <2>1. \A h \in Guests : h # g => SameView(h)
    BY <1>1 DEF OtherGuestsSame, SameView, SameSpot
  <2> QED BY <1>0, <1>1, <2>1, ShownVisits
<1>2. ASSUME NEW g \in Guests, NEW q \in Rooms, NEW w \in BOOLEAN, GuestJoins(g, q, w) PROVE Shown'
  BY <1>0, <1>1, <1>2, GuestJoinsTyped
<1>3. ASSUME NEW g \in Guests, GuestLeaves(g) PROVE Shown'
  BY <1>0, <1>1, <1>3, GuestLeavesTyped
<1>4. ASSUME NEW g \in Guests, GuestCloses(g) PROVE Shown'
  BY <1>0, <1>1, <1>4, GuestClosesTyped
<1>5. ASSUME NEW g \in Guests, Speaks(g) PROVE Shown'
  BY <1>0, <1>5, ShownVisits DEF Speaks, GuestSends, SameView, SameSpot
<1> QED BY <1>2, <1>3, <1>4, <1>5, GuestDoes DEF Visit

\* Adapter k speaks to nobody it has heard.
LEMMA ShownQuiets ==
  ASSUME Core, Shown, UNCHANGED <<session, log>>, NEW k \in Rooms, OthersSame(k),
         \A p : AsksAlike(k, p), tap' \in {tap, 0, k},
         \A g \in Guests : SameView(g) \/ (~guests'[g].heard /\ guests'[g].st # "in"),
         \A g \in Guests : (guests[g].st = "in" /\ guests[g].room = k) => ~guests'[g].heard
  PROVE  Shown'
<1>1. ASSUME NEW g \in Guests PROVE GuestShown(g)'
  <2>1. PICK r, p : r = guests[g].room /\ p = guests[g].peer
    OBVIOUS
  <2>2. GuestShown(g)
    BY <1>1 DEF Shown
  <2>3. CASE ~guests'[g].heard /\ guests'[g].st # "in"
    BY <2>3, ShownAfresh
  <2>4. CASE SameView(g) /\ guests[g].st # "in"
    <3>1. ~guests'[g].heard /\ guests'[g].st # "in"
      BY <2>1, <2>2, <2>4, ShownNow DEF SameView, SameSpot
    <3> QED BY <3>1, ShownAfresh
  <2>5. CASE SameView(g) /\ guests[g].st = "in" /\ r = k
    <3>1. ~guests'[g].heard /\ AsksAlike(r, p)
      BY <2>1, <2>5
    <3> QED BY <2>1, <2>2, <2>5, <3>1, ShownStays
  <2>6. CASE SameView(g) /\ guests[g].st = "in" /\ r # k
    <3>1. r \in Rooms /\ r # 0
      BY <2>1, <2>6, RoomsAreNumbers DEF Core, Typed
    <3>2. ads'[r] = ads[r] /\ (tap' = r => tap = r)
      BY <2>6, <3>1 DEF OthersSame
    <3> QED BY <2>1, <2>2, <2>6, <3>2, ShownStays, AdapterAlike
  <2> QED BY <1>1, <2>3, <2>4, <2>5, <2>6
<1> QED BY <1>1 DEF Shown

LEMMA ShownWhileDown ==
  ASSUME Core, Wired, Shown, UNCHANGED <<guests, session, log>>, NEW k \in Rooms, OthersSame(k),
         \A p : AsksAlike(k, p), ads[k].sock # "open", tap' \in {tap, 0, k}
  PROVE  Shown'
<1>1. \A g \in Guests : SameView(g)
  BY DEF SameView, SameSpot
<1>2. \A g \in Guests : (guests[g].st = "in" /\ guests[g].room = k) => ~guests'[g].heard
  BY DEF Shown, GuestShown
<1> QED BY <1>1, <1>2, ShownQuiets

LEMMA EvictedShows ==
  ASSUME Core, NEW k \in Rooms, guests' = Evicted(k)
  PROVE  /\ \A g \in Guests : SameView(g) \/ (~guests'[g].heard /\ guests'[g].st # "in")
         /\ \A g \in Guests : (guests[g].st = "in" /\ guests[g].room = k) => ~guests'[g].heard
<1>1. ASSUME NEW g \in Guests
      PROVE  IF g \in InRoom(k) /\ guests[g].st = "in"
             THEN guests'[g].st = "ending" /\ ~guests'[g].heard
             ELSE guests'[g] = guests[g]
  BY EvictedTyped DEF Core
<1>2. ASSUME NEW g \in Guests, guests[g].st = "in", guests[g].room = k PROVE g \in InRoom(k)
  BY <1>2, WhoIsIn
<1> QED BY <1>1, <1>2 DEF SameView, SameSpot

LEMMA UnheardShows ==
  ASSUME Core, NEW k \in Rooms, guests' = Unheard(guests, k)
  PROVE  /\ \A g \in Guests : SameView(g) \/ (~guests'[g].heard /\ guests'[g].st # "in")
         /\ \A g \in Guests : (guests[g].st = "in" /\ guests[g].room = k) => ~guests'[g].heard
<1>1. ASSUME NEW g \in Guests
      PROVE  IF guests[g].room = k
             THEN /\ guests'[g].st = guests[g].st /\ ~guests'[g].heard
                  /\ guests'[g].room = k /\ guests'[g].peer = guests[g].peer
                  /\ guests'[g].writes = guests[g].writes
                  /\ guests'[g].log = guests[g].log
                  /\ guests'[g].dialogs = guests[g].dialogs
             ELSE guests'[g] = guests[g]
  BY UnheardTyped DEF Core
<1> QED BY <1>1 DEF SameView, SameSpot

LEMMA StoppedAlike ==
  ASSUME NEW k, Ended(k)
  PROVE  \A p : AsksAlike(k, p)
BY DEF Ended, AsksAlike

LEMMA KeptAlike ==
  ASSUME NEW k, SamePeers(k), SamePending(k), ads[k].phase # "stopped"
  PROVE  \A p : AsksAlike(k, p)
BY DEF SamePeers, KnowsAlike, AsksAlike

LEMMA ShownConnect ==
  ASSUME Core, Wired, Shown, Connect
  PROVE  Shown'
<1>1. ASSUME UNCHANGED <<guests, ads, tap, session, log>> PROVE Shown'
  BY <1>1, ShownIdle DEF SameLink, SamePeers, SamePending, SameSession
<1>2. ASSUME NEW k \in Rooms, NEW d \in Dials, CollabStart(k, d) PROVE Shown'
  <2>1. /\ ads[k].sock # "open" /\ UNCHANGED <<guests, tap, session, log>>
        /\ ads[k].phase = "none"
    BY <1>2 DEF CollabStart, Core, Linked, Dialled, AdapterDialled
  <2>2. OthersSame(k)
    BY <1>2, CollabStartTyped
  <2>3. ads[k].pending = {}
    BY <2>1 DEF Core, Tasked, AdapterTasked
  <2>4. \A p : AsksAlike(k, p)
    BY <2>1, <2>3 DEF AsksAlike
  <2> QED BY <2>1, <2>2, <2>4, ShownWhileDown
<1>3. ASSUME NEW k \in Rooms, NEW d \in Dials, Redials(k, d) PROVE Shown'
  <2>1. /\ ads[k].sock # "open" /\ ads[k].phase = "live"
        /\ UNCHANGED <<guests, tap, session, log>>
    BY <1>3 DEF Redials, IsLive
  <2>2. OthersSame(k) /\ SamePeers(k) /\ SamePending(k)
    BY <1>3, RedialsTyped
  <2> QED BY <2>1, <2>2, KeptAlike, ShownWhileDown
<1>4. ASSUME NEW d \in Dials, HostOpens(d) PROVE Shown'
  <2>1. UNCHANGED <<guests, session, log>>
    BY <1>4 DEF HostOpens
  <2>2. CASE Caller(d) = 0
    <3>1. UNCHANGED <<ads, tap>>
      BY <1>4, <2>2, HostOpensTyped
    <3> QED BY <1>1, <2>1, <3>1
  <2>3. CASE Caller(d) # 0
    <3>1. PICK k \in Rooms : k = Caller(d)
      BY <1>4, <2>3, CallerIs DEF HostOpens
    <3>2. ads[k].sock = "dialing"
      BY <1>4, <2>3, <3>1, CallerIs DEF HostOpens
    <3>3. OthersSame(k) /\ tap' \in {tap, 0, k} /\ SamePeers(k) /\ SamePending(k)
      BY <1>4, <2>3, <3>1, HostOpensTyped
    <3>4. ads[k].phase # "stopped"
      BY <3>2 DEF Core, Linked, Dialled, AdapterDialled
    <3> QED BY <2>1, <3>2, <3>3, <3>4, KeptAlike, ShownWhileDown
  <2> QED BY <2>2, <2>3
<1>5. ASSUME NEW d \in Dials, HostIsRefused(d) PROVE Shown'
  <2>1. UNCHANGED <<guests, session, log>>
    BY <1>5 DEF HostIsRefused
  <2>2. CASE Caller(d) = 0
    <3>1. UNCHANGED <<ads, tap>>
      BY <1>5, <2>2, HostIsRefusedTyped
    <3> QED BY <1>1, <2>1, <3>1
  <2>3. CASE Caller(d) # 0
    <3>1. PICK k \in Rooms : k = Caller(d)
      BY <1>5, <2>3, CallerIs DEF HostIsRefused
    <3>2. ads[k].sock # "open"
      BY <1>5, <2>3, <3>1, CallerIs DEF HostIsRefused
    <3>3. OthersSame(k) /\ tap' \in {tap, 0, k} /\ Ended(k)
      BY <1>5, <2>3, <3>1, HostIsRefusedTyped
    <3> QED BY <2>1, <3>2, <3>3, StoppedAlike, ShownWhileDown
  <2> QED BY <2>2, <2>3
<1>6. ASSUME NEW d \in Dials, HostCloses(d), UNCHANGED hostVars PROVE Shown'
  BY <1>1, <1>6 DEF HostCloses, hostVars
<1>7. ASSUME NEW r \in Rooms, Expires(r), UNCHANGED hostVars PROVE Shown'
  <2>1. UNCHANGED <<ads, tap, session, log>> /\ guests' = Evicted(r)
    BY <1>7, ExpiresTyped DEF hostVars
  <2>2. OthersSame(r) /\ tap' \in {tap, 0, r} /\ \A p : AsksAlike(r, p)
    BY <2>1, AdapterAlike DEF OthersSame
  <2> QED BY <2>1, <2>2, EvictedShows, ShownQuiets
<1>8. ASSUME NEW k \in Rooms, DialUpgrades(k) \/ DialFails(k) PROVE Shown'
  <2>1. UNCHANGED <<guests, tap, session, log>> /\ ads[k].sock = "dialing"
    BY <1>8 DEF DialUpgrades, DialFails
  <2>2. UNCHANGED ads \/ (OthersSame(k) /\ Faded(k))
    BY <1>8, DialUpgradesTyped, DialFailsTyped
  <2>3. ads[k].phase # "stopped"
    BY <2>1 DEF Core, Linked, Dialled, AdapterDialled
  <2>4. OthersSame(k) /\ \A p : AsksAlike(k, p)
    BY <2>2, <2>3, StoppedAlike, KeptAlike, AdapterAlike DEF Faded, OthersSame
  <2> QED BY <2>1, <2>4, ShownWhileDown
<1>9. ASSUME NEW k \in Rooms, Breaks(k) PROVE Shown'
  <2>1. OthersSame(k) /\ Faded(k) /\ ~Ended(k) /\ guests' = Unheard(guests, k)
    BY <1>9, BreaksTyped
  <2>2. UNCHANGED <<tap, session, log>> /\ ads[k].phase = "live"
    BY <1>9 DEF Breaks, Connected, IsLive
  <2>3. \A p : AsksAlike(k, p)
    BY <2>1, <2>2, KeptAlike DEF Faded
  <2> QED BY <2>1, <2>2, <2>3, UnheardShows, ShownQuiets
<1>10. ASSUME NEW k \in Rooms, NEW turn \in ads[k].turns, StopTurn(k, turn) PROVE Shown'
  <2>1. /\ OthersSame(k) /\ tap' \in {tap, 0, k} /\ \A p : AsksAlike(k, p)
        /\ guests' = Evicted(k) \/ guests' = Unheard(guests, k)
    BY <1>10, StopTurnTyped, StoppedAlike
  <2>2. UNCHANGED <<session, log>>
    BY <1>10 DEF StopTurn
  <2>3. /\ \A g \in Guests : SameView(g) \/ (~guests'[g].heard /\ guests'[g].st # "in")
        /\ \A g \in Guests : (guests[g].st = "in" /\ guests[g].room = k) => ~guests'[g].heard
    BY <2>1, EvictedShows, UnheardShows
  <2> QED BY <2>1, <2>2, <2>3, ShownQuiets
<1> QED BY <1>2, <1>3, <1>4, <1>5, <1>6, <1>7, <1>8, <1>9, <1>10 DEF Connect

LEMMA ShownStep ==
  ASSUME Core, Wired, Shown, [Next]_vars
  PROVE  Shown'
<1>1. CASE UNCHANGED vars
  <2>1. UNCHANGED <<guests, tap, session, log, ads>>
    BY <1>1 DEF vars, relayVars, hostVars
  <2> QED BY <2>1, ShownIdle DEF SameLink, SamePeers, SamePending, SameSession
<1> QED BY <1>1, StepIs, ShownTalk, ShownVisit, ShownConnect

-----------------------------------------------------------------------------
(* Dialogs that wait for guests.                                           *)

\* The adapter that the dialog a waits for guests with.
Owner(a, k) == ads[k].phase = "live" /\ asks[a].req \in ads[k].pending

LEMMA OwnedIs == Owned <=> \A a \in Asks : asks[a].at = "guests" => \E k \in Rooms : Owner(a, k)
BY RoomsAreNumbers DEF Owned, AsksAreOwned, Owner, IsLive

\* A dialog that waits in the next state did in this one, for an adapter that
\* goes on with it.
LEMMA OwnedStays ==
  ASSUME Core, Owned,
         \A a \in Asks : asks'[a].at = "guests" =>
           /\ asks[a].at = "guests"
           /\ \A k \in Rooms : Owner(a, k) =>
                ads'[k].phase = "live" /\ asks'[a].req \in ads'[k].pending
  PROVE  Owned'
<1>1. \A a \in Asks : asks'[a].at = "guests" =>
        \E k \in Rooms : ads'[k].phase = "live" /\ asks'[a].req \in ads'[k].pending
  BY OwnedIs
<1> QED BY <1>1, RoomsAreNumbers DEF Owned, AsksAreOwned, IsLive

LEMMA OwnedIdle ==
  ASSUME Core, Owned, \A a \in Asks : asks'[a].at = "guests" => asks'[a] = asks[a],
         \A k \in Rooms : ads[k].phase = "live" => ads'[k].phase = "live" /\ SamePending(k)
  PROVE  Owned'
BY OwnedStays DEF Owner, SamePending

LEMMA OwnedEnds ==
  ASSUME Core, Owned, NEW k \in Rooms, OthersSame(k), asks' = FallenThrough(k)
  PROVE  Owned'
<1>1. ASSUME NEW a \in Asks, asks'[a].at = "guests"
      PROVE  /\ asks[a] = asks'[a] /\ asks[a].req \notin ads[k].pending
  BY <1>1 DEF FallenThrough, Web
<1>2. \A j \in Rooms : j # k => ads'[j] = ads[j]
  BY DEF OthersSame
<1> QED BY <1>1, <1>2, OwnedStays DEF Owner

LEMMA OwnedTalk ==
  ASSUME Core, Owned, Talk
  PROVE  Owned'
<1>1. ASSUME NEW a \in Asks, AskGuests(a) PROVE Owned'
  <2>1. PICK k \in Rooms : k = slot
    BY <1>1, AskGuestsTyped
  <2>2. /\ ads[k].phase = "live" /\ ads'[k].phase = "live" /\ OthersSame(k)
        /\ ads'[k].pending = ads[k].pending \cup {reqs + 1} /\ asks'[a].req = reqs + 1
        /\ \A b \in Asks : b # a => asks'[b] = asks[b]
    BY <1>1, <2>1, AskGuestsTyped DEF IsLive, SameLink
  <2>3. ASSUME NEW b \in Asks, asks'[b].at = "guests"
        PROVE  \E j \in Rooms : ads'[j].phase = "live" /\ asks'[b].req \in ads'[j].pending
    <3>1. CASE b = a
      BY <2>2, <3>1
    <3>2. CASE b # a
      <4>1. asks'[b] = asks[b]
        BY <2>2, <3>2
      <4>2. PICK j \in Rooms : ads[j].phase = "live" /\ asks[b].req \in ads[j].pending
        BY <2>3, <4>1, OwnedIs DEF Owner
      <4>3. ads'[j].phase = "live" /\ asks[b].req \in ads'[j].pending
        BY <2>2, <4>2 DEF OthersSame
      <4> QED BY <4>1, <4>3
    <3> QED BY <3>1, <3>2
  <2> QED BY <2>3, RoomsAreNumbers DEF Owned, AsksAreOwned, IsLive
<1>2. ASSUME NEW k \in Rooms, Answer(k) PROVE Owned'
  <2> DEFINE n == Head(down[k]).n
  <2>1. OthersSame(k) /\ SameLink(k)
    BY <1>2, AnswerTyped
  <2>2. \/ SamePending(k) /\ UNCHANGED asks
        \/ /\ ads'[k].pending = ads[k].pending \ {n}
           /\ asks' = [a \in Asks |-> IF asks[a].at = "guests" /\ asks[a].req = n
                                      THEN Settled ELSE asks[a]]
    BY <1>2, AnswerTyped
  <2> HIDE DEF n
  <2>3. CASE SamePending(k) /\ UNCHANGED asks
    BY <2>1, <2>3, OwnedIdle DEF OthersSame, SameLink, SamePending
  <2>4. CASE /\ ads'[k].pending = ads[k].pending \ {n}
             /\ asks' = [a \in Asks |-> IF asks[a].at = "guests" /\ asks[a].req = n
                                        THEN Settled ELSE asks[a]]
    <3>1. ASSUME NEW a \in Asks, asks'[a].at = "guests"
          PROVE  asks[a] = asks'[a] /\ asks[a].req # n
      BY <2>4, <3>1 DEF Settled
    <3>2. ASSUME NEW a \in Asks, asks'[a].at = "guests", NEW j \in Rooms, Owner(a, j)
          PROVE  ads'[j].phase = "live" /\ asks'[a].req \in ads'[j].pending
      BY <2>1, <2>4, <3>1, <3>2 DEF Owner, OthersSame, SameLink
    <3> QED BY <3>1, <3>2, OwnedStays
  <2> QED BY <2>2, <2>3, <2>4
<1>3. ASSUME NEW k \in Rooms, Hello(k) PROVE Owned'
  <2>1. OthersSame(k) /\ SameLink(k) /\ SamePending(k)
    BY <1>3, HelloTyped
  <2>2. UNCHANGED asks
    BY <1>3 DEF Hello
  <2> QED BY <2>1, <2>2, OwnedIdle DEF OthersSame, SameLink, SamePending
<1>4. ASSUME NEW k \in Rooms, PeerLeft(k) \/ FindsSwitch(k) PROVE Owned'
  <2>1. OthersSame(k) /\ SameLink(k) /\ SamePending(k)
    BY <1>4, PeerLeftTyped, FindsSwitchTyped
  <2>2. UNCHANGED asks
    BY <1>4 DEF PeerLeft, FindsSwitch
  <2> QED BY <2>1, <2>2, OwnedIdle DEF OthersSame, SameLink, SamePending
<1>5. ASSUME NEW k \in Rooms, Prompt(k) PROVE Owned'
  BY <1>5, OwnedIdle DEF Prompt, SamePending
<1>6. ASSUME NEW a \in Asks, AskBrowsers(a) \/ BrowsersSettle(a) PROVE Owned'
  BY <1>6, AskBrowsersTyped, BrowsersSettleTyped, OwnedIdle DEF SamePending
<1>7. CASE CollabStop
  <2>1. UNCHANGED asks
    BY <1>7 DEF CollabStop
  <2> QED BY <1>7, <2>1, CollabStopTyped, OwnedIdle DEF SameLink
<1>8. CASE Appends
  <2>1. UNCHANGED asks
    BY <1>8 DEF Appends
  <2> QED BY <1>8, <2>1, AppendsTyped, OwnedIdle DEF SameLink
<1>9. CASE Switches
  BY <1>9, SwitchesTyped, OwnedIdle DEF SamePending
<1> QED BY <1>1, <1>2, <1>3, <1>4, <1>5, <1>6, <1>7, <1>8, <1>9 DEF Talk, HostReads

LEMMA OwnedConnect ==
  ASSUME Core, Owned, Connect
  PROVE  Owned'
<1>1. ASSUME UNCHANGED <<asks, ads>> PROVE Owned'
  BY <1>1, OwnedIdle DEF SamePending
<1>2. ASSUME NEW k \in Rooms, OthersSame(k), UNCHANGED asks, ads[k].phase # "live" PROVE Owned'
  BY <1>2, OwnedIdle DEF OthersSame, SamePending
<1>3. ASSUME NEW k \in Rooms, OthersSame(k), UNCHANGED asks, SamePending(k), ads'[k].phase = "live"
      PROVE  Owned'
  BY <1>3, OwnedIdle DEF OthersSame, SamePending
<1>4. ASSUME NEW k \in Rooms, NEW d \in Dials, CollabStart(k, d) PROVE Owned'
  <2>1. ads[k].phase # "live" /\ UNCHANGED asks
    BY <1>4 DEF CollabStart
  <2> QED BY <1>2, <1>4, <2>1, CollabStartTyped
<1>5. ASSUME NEW k \in Rooms, NEW d \in Dials, Redials(k, d) PROVE Owned'
  <2>1. ads[k].phase = "live" /\ UNCHANGED asks
    BY <1>5 DEF Redials, IsLive
  <2> QED BY <1>3, <1>5, <2>1, RedialsTyped
<1>6. ASSUME NEW d \in Dials, HostOpens(d) PROVE Owned'
  <2>1. UNCHANGED asks
    BY <1>6 DEF HostOpens
  <2>2. CASE Caller(d) = 0
    BY <1>1, <1>6, <2>1, <2>2, HostOpensTyped
  <2>3. CASE Caller(d) # 0
    <3>1. PICK k \in Rooms : k = Caller(d)
      BY <1>6, <2>3, CallerIs DEF HostOpens
    <3>2. OthersSame(k) /\ SamePending(k) /\ ads'[k].phase = "live"
      BY <1>6, <2>3, <3>1, HostOpensTyped
    <3> QED BY <1>3, <2>1, <3>2
  <2> QED BY <2>2, <2>3
<1>7. ASSUME NEW d \in Dials, HostIsRefused(d) PROVE Owned'
  <2>1. CASE Caller(d) = 0
    BY <1>1, <1>7, <2>1, HostIsRefusedTyped
  <2>2. CASE Caller(d) # 0
    <3>1. PICK k \in Rooms : k = Caller(d)
      BY <1>7, <2>2, CallerIs DEF HostIsRefused
    <3>2. OthersSame(k) /\ asks' = FallenThrough(k)
      BY <1>7, <2>2, <3>1, HostIsRefusedTyped
    <3> QED BY <3>2, OwnedEnds
  <2> QED BY <2>1, <2>2
<1>8. ASSUME NEW d \in Dials, HostCloses(d), UNCHANGED hostVars PROVE Owned'
  BY <1>1, <1>8 DEF hostVars
<1>9. ASSUME NEW r \in Rooms, Expires(r), UNCHANGED hostVars PROVE Owned'
  BY <1>1, <1>9 DEF hostVars
<1>10. ASSUME NEW k \in Rooms, DialUpgrades(k) \/ DialFails(k) \/ Breaks(k) PROVE Owned'
  <2>1. UNCHANGED asks
    BY <1>10 DEF DialUpgrades, DialFails, Breaks
  <2>2. UNCHANGED ads \/ (OthersSame(k) /\ Faded(k) /\ (Ended(k) => ads[k].phase = "dialing"))
    BY <1>10, DialUpgradesTyped, DialFailsTyped, BreaksTyped
  <2>3. CASE OthersSame(k) /\ Ended(k) /\ ads[k].phase = "dialing"
    BY <1>2, <2>1, <2>3
  <2>4. CASE OthersSame(k) /\ Faded(k) /\ ~Ended(k)
    BY <1>3, <2>1, <2>4 DEF Faded
  <2> QED BY <1>1, <2>1, <2>2, <2>3, <2>4
<1>11. ASSUME NEW k \in Rooms, NEW turn \in ads[k].turns, StopTurn(k, turn) PROVE Owned'
  BY <1>11, StopTurnTyped, OwnedEnds
<1> QED BY <1>4, <1>5, <1>6, <1>7, <1>8, <1>9, <1>10, <1>11 DEF Connect

LEMMA OwnedStep ==
  ASSUME Core, Owned, [Next]_vars
  PROVE  Owned'
<1>1. ASSUME UNCHANGED <<asks, ads>> PROVE Owned'
  BY <1>1, OwnedIdle DEF SamePending
<1>2. CASE UNCHANGED vars
  BY <1>1, <1>2 DEF vars, hostVars
<1>3. CASE Visit
  BY <1>1, <1>3 DEF Visit, hostVars
<1> QED BY <1>2, <1>3, StepIs, OwnedTalk, OwnedConnect
-----------------------------------------------------------------------------
(* The theorems.                                                           *)

LEMMA InvInit == Init => IInv
<1> SUFFICES ASSUME Init PROVE IInv
  OBVIOUS
<1>1. /\ rooms = [r \in Rooms |-> NoRoom] /\ guests = [g \in Guests |-> Outside]
      /\ down = [r \in Rooms |-> <<>>] /\ ads = [k \in Rooms |-> NoAdapter]
      /\ asks = [a \in Asks |-> Settled] /\ ~astray
  BY DEF Init, RelayInit
<1>2. Core
  BY CoreInit
<1>3. Few
  <2>1. Range(NoRoom.guests) = {}
    BY NoRoomTyped DEF Range
  <2>2. \A r \in Rooms : InRoom(r) = {}
    BY <1>1, <2>1 DEF InRoom
  <2>3. Hosted = {}
    BY <1>1 DEF Hosted, NoRoom
  <2> QED BY <2>2, <2>3, FS_EmptySet, CapsArePositive DEF Few, Hosted, RoomCount
<1>4. Wired
  <2>1. DOMAIN <<>> = {}
    OBVIOUS
  <2>2. \A r \in Rooms : HostWired(r)
    BY <1>1, <2>1 DEF HostWired
  <2>3. \A g \in Guests : GuestWired(g)
    BY <1>1 DEF GuestWired, Outside
  <2> QED BY <2>2, <2>3 DEF Wired
<1>5. Shown
  BY <1>1 DEF Shown, GuestShown, Outside
<1>6. Owned
  BY <1>1 DEF Owned, AsksAreOwned, Settled
<1> QED BY <1>1, <1>2, <1>3, <1>4, <1>5, <1>6 DEF IInv

LEMMA InvStep ==
  ASSUME IInv, [Next]_vars
  PROVE  IInv'
<1>1. Core /\ Few /\ Wired /\ Shown /\ Owned /\ ~astray
  BY DEF IInv
<1>2. Core' /\ Few' /\ Wired'
  BY <1>1, CoreStep, FewStep, WiredStep
<1>3. Shown' /\ Owned' /\ ~astray'
  BY <1>1, ShownStep, OwnedStep, AstrayStep
<1> QED BY <1>2, <1>3 DEF IInv

LEMMA Invariance == Spec => []IInv
<1>1. Init => IInv
  BY InvInit
<1>2. IInv /\ [Next]_vars => IInv'
  BY InvStep
<1> QED BY <1>1, <1>2, PTL DEF Spec

LEMMA OpenDial ==
  ASSUME Core, NEW k \in Rooms, ads[k].sock = "open"
  PROVE  dials[ads[k].dial] = [st |-> "open", room |-> k, alive |-> TRUE]
<1> DEFINE d == dials[ads[k].dial]
<1>1. d \in DialStates /\ d.st = "open" /\ d.room = k /\ d.alive
  BY DEF Core, Typed, Linked, Dialled, AdapterDialled
<1> HIDE DEF d
<1>2. d = [st |-> "open", room |-> k, alive |-> TRUE]
  BY <1>1 DEF DialStates
<1> QED BY <1>2 DEF d

LEMMA TypesHold == Core /\ Few => TypeOK
<1> SUFFICES ASSUME Core, Few PROVE TypeOK
  OBVIOUS
<1>1. Typed /\ Linked /\ Tasked /\ Seated
  BY DEF Core
<1>2. ASSUME NEW r \in Rooms
      PROVE  /\ rooms[r].host \in Dials \cup {0}
             /\ InRoom(r) \subseteq Guests /\ Cardinality(InRoom(r)) <= MaxGuests
             /\ \A p \in DOMAIN rooms[r].guests : p \in 1..(rooms[r].next - 1)
             /\ ~rooms[r].present => rooms[r] = NoRoom
  <2>1. rooms[r].host \in Dials \cup {0} /\ rooms[r].next \in Peers /\ DOMAIN rooms[r].guests \subseteq Peers
    BY <1>1, GuestsOf DEF Typed, RoomStates
  <2>2. InRoom(r) \subseteq Guests
    BY GuestsOf DEF InRoom, Range
  <2>3. Cardinality(InRoom(r)) <= MaxGuests
    BY DEF Few
  <2>4. \A p \in DOMAIN rooms[r].guests : p \in 1..(rooms[r].next - 1)
    <3>1. \A p \in DOMAIN rooms[r].guests : p < rooms[r].next
      BY <1>1 DEF Seated, RoomSeated
    <3> QED BY <2>1, <3>1 DEF Peers
  <2>5. ~rooms[r].present => rooms[r] = NoRoom
    BY <1>1 DEF Linked, Held, RoomHeld
  <2> QED BY <2>1, <2>2, <2>3, <2>4, <2>5
<1>3. RoomCount <= MaxRooms
  BY DEF Few
<1>4. \A d \in Dials : dials[d].st \in {"free", "asked", "upgraded", "open"}
  BY <1>1 DEF Typed, DialStates
<1>5. \A g \in Guests :
        /\ guests[g].st \in {"out", "in", "ending", "gone"}
        /\ guests[g].st \in {"in", "ending"} => guests[g].room \in Rooms
  BY <1>1 DEF Typed, GuestStates
<1>6. RelayTypeOK
  BY <1>2, <1>3, <1>4, <1>5 DEF RelayTypeOK
<1>7. ASSUME NEW k \in Rooms
      PROVE  /\ ads[k].phase \in {"none", "dialing", "live", "stopped"}
             /\ ads[k].sock \in {"none", "dialing", "open", "down"}
             /\ ads[k].pending \subseteq 1..reqs /\ ads[k].turns \subseteq {"command", "switch"}
  <2>1. ads[k] \in AdapterStates
    BY <1>1 DEF Typed
  <2>2. ads[k].pending \subseteq 1..reqs
    BY <1>1 DEF Tasked, AdapterTasked
  <2> QED BY <2>1, <2>2 DEF AdapterStates
<1>8. \A k \in Rooms :
        ads[k].sock = "open" => dials[ads[k].dial] = [st |-> "open", room |-> k, alive |-> TRUE]
  BY OpenDial
<1>9. \A a \in Asks : asks[a].at \in {"none", "guests", "browsers"}
  BY <1>1 DEF Typed, DialogStates
<1>10. /\ slot \in Rooms \cup {0} /\ starting \in BOOLEAN /\ tap \in Rooms \cup {0}
       /\ log \in 0..MaxLog /\ reqs \in 0..MaxReqs /\ astray \in BOOLEAN /\ faults \in 0..MaxFaults
  BY <1>1 DEF Typed
<1> QED BY <1>6, <1>7, <1>8, <1>9, <1>10 DEF TypeOK

LEMMA HeldIs == Core => RoomsAreHeld
<1> SUFFICES ASSUME Core, NEW r \in Rooms, rooms[r].present
             PROVE  /\ rooms[r].host = 0 <=> rooms[r].timer
                    /\ rooms[r].host # 0 =>
                         LET dial == dials[rooms[r].host]
                         IN dial.st = "open" /\ dial.room = r /\ (dial.alive => IsLive(r))
  BY DEF RoomsAreHeld
<1>1. /\ rooms[r].host = 0 <=> rooms[r].timer
      /\ rooms[r].host # 0 => dials[rooms[r].host].st = "open" /\ dials[rooms[r].host].room = r
  BY DEF Core, Linked, Held, RoomHeld
<1>2. ASSUME rooms[r].host # 0, dials[rooms[r].host].alive PROVE IsLive(r)
  <2>1. PICK d \in Dials : d = rooms[r].host
    BY <1>2 DEF Core, Typed, RoomStates
  <2>2. dials[d].st = "open" /\ dials[d].room = r /\ dials[d].alive
    BY <1>1, <1>2, <2>1
  <2>3. ads[r].sock \in {"dialing", "open"} /\ ads[r].dial = d
    BY <2>2 DEF Core, Linked, Dialled, DialDialled
  <2>4. ads[r].sock = "open"
    BY <2>2, <2>3 DEF Core, Linked, Dialled, AdapterDialled
  <2>5. ads[r].phase = "live"
    BY <2>4 DEF Core, Linked, Dialled, AdapterDialled
  <2> QED BY <2>5, RoomsAreNumbers DEF IsLive
<1> QED BY <1>1, <1>2

\* Every variable has its type, a room never has more guests than the relay
\* admits and the relay never more rooms, and a connection that is up names
\* the room it is for: the caps that two checks of collab-relay.ts keep.
THEOREM TypeCorrect == Spec => []TypeOK
<1>1. IInv => TypeOK
  BY TypesHold DEF IInv
<1> QED BY <1>1, Invariance, PTL

\* A room without a host is in its grace period and a room with one is not,
\* and the host is the connection of an adapter that has not ended or one
\* that is about to close, whoever breaks, redials, stops or is refused.
THEOREM EveryRoomIsHeld == Spec => []RoomsAreHeld
<1>1. IInv => RoomsAreHeld
  BY HeldIs DEF IInv
<1> QED BY <1>1, Invariance, PTL

\* The prompt of a guest that the host has welcomed as a reader is not run, however
\* many hellos and prompts of it are on their way, and though its peer id may have
\* been a writer's when the room was another: what the host knew then the hello
\* overwrote, and a hello after it says the same.
THEOREM NoWelcomedReaderPrompts == Spec => []WelcomedReadersDoNotPrompt
<1>1. IInv => WelcomedReadersDoNotPrompt
  BY DEF IInv, WelcomedReadersDoNotPrompt
<1> QED BY <1>1, Invariance, PTL

\* A guest that was welcomed over the connection that the host has shows the
\* whole transcript of the session, as long as the adapter taps it.
THEOREM GuestsMissNothing == Spec => []NoGap
<1>1. IInv => NoGap
  BY DEF IInv, Shown, GuestShown, NoGap, Served
<1> QED BY <1>1, Invariance, PTL

\* A guest that can write, welcomed over the connection that the host has,
\* shows the dialogs that wait for guests and no others.
THEOREM GuestsShowWhatWaits == Spec => []DialogsMatch
<1>1. IInv => DialogsMatch
  BY DEF IInv, Shown, GuestShown, DialogsMatch, Served
<1> QED BY <1>1, Invariance, PTL

\* A dialog that waits for guests is known to a live adapter, which hands it
\* to the browsers when it ends.
THEOREM DialogsHaveOwners == Spec => []AsksAreOwned
<1>1. IInv => AsksAreOwned
  BY DEF IInv, Owned
<1> QED BY <1>1, Invariance, PTL
=============================================================================
